------------------------------ MODULE MC_Lookup ------------------------------
(* Instance of Lookup for TLC. *)
EXTENDS Lookup

\* Any function of the key's bytes; some values are negative.
HashOf(key) == FoldLeft(LAMBDA h, b : 5 * h + 3 * b - 4, 1, key)

\* An expression of the application's: no condition on a key, and another filter.
OwnExpression == [key |-> <<>>, filter |-> "own"]

T(kinds, pk, sk, track) == [kinds |-> kinds, pk |-> pk, sk |-> sk, track |-> track]

SomeTypes ==
    {T(<<"int", "int">>, {1, 2}, {2}, FALSE),      \* a shard key that is a part of the primary key
     T(<<"int", "double">>, {1, 2}, {}, FALSE),    \* a primary key only
     T(<<"date", "ulong">>, {2}, {2}, FALSE),
     T(<<"date", "text">>, {}, {1, 2}, FALSE),     \* a shard key only
     T(<<"double", "ulong">>, {}, {1, 2}, FALSE),
     T(<<"int", "double">>, {}, {}, FALSE),        \* no key
     T(<<"int", "date">>, {}, {}, TRUE),           \* a track table: sharded by TRACKID
     T(<<"int", "int">>, {1, 2}, {1}, TRUE),
     T(<<"int", "int">>, {2}, {}, TRUE)}           \* refused

S(multihead, replicated, groups, accepted, table) ==
    [multihead |-> multihead, replicated |-> replicated, groups |-> groups,
     accepted |-> accepted, table |-> table]

SomeServers ==
    {S(TRUE, FALSE, <<1, 2>>, NoRegex, <<2, 1, 1>>),
     S(TRUE, FALSE, <<2, 2, 3>>, {2}, <<3, 1, 2, 1>>),
     S(TRUE, TRUE, <<1, 1>>, NoRegex, <<1, 2>>),
     S(FALSE, FALSE, <<1, 1>>, NoRegex, <<1, 2>>),
     S(TRUE, FALSE, <<1, 1>>, {2}, <<1, 2>>),         \* the expression accepts none
     S(TRUE, FALSE, <<0, 1>>, NoRegex, <<1, 2>>),     \* a rank without an address
     S(TRUE, FALSE, <<0, 1>>, NoRegex, <<1, 1, 1>>),
     S(TRUE, FALSE, <<1, 1>>, NoRegex, <<1, 0>>),     \* a shard of rank 0
     S(TRUE, FALSE, <<1, 1>>, NoRegex, <<>>)}
=============================================================================
