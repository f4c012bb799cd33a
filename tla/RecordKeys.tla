------------------------------ MODULE RecordKeys ------------------------------
(***************************************************************************)
(* Which worker a record belongs to, as the client works it out            *)
(* (src/gpudb/utils/GPUdbMultiHeadIOUtils.cpp): WorkerList, the columns a  *)
(* RecordKeyBuilder takes, the bytes of a RecordKey and its route, and the *)
(* expression that looks a key up.                                         *)
(*                                                                         *)
(* A column is of a kind with a key of its own making: an integer; a       *)
(* double; a text; a date, which stands for the texts that are parsed and  *)
(* whose key is that of a null when they cannot be; an unsigned long,      *)
(* whose text must parse.  "fine" is a double with more digits than are    *)
(* printed: its text is that of "one".  "quoted" is a text with a          *)
(* quotation mark in it.  The names of the workers are their ranks.        *)
(***************************************************************************)
EXTENDS Integers, SequencesExt

CONSTANT Hash(_)    \* MurmurHash3 of the bytes of a key, a signed integer

Kinds == {"int", "double", "text", "date", "ulong"}

Values(kind) ==
    CASE kind = "int" -> {"null", "zero", "one"}
      [] kind = "double" -> {"null", "one", "fine"}
      [] kind = "text" -> {"null", "one", "quoted"}
      [] kind \in {"date", "ulong"} -> {"null", "one", "bad"}

-----------------------------------------------------------------------------
(* RecordKeyBuilder: t.kinds are the kinds of the columns in their order,   *)
(* t.pk and t.sk the columns with a key property, t.track says that there   *)
(* are x, y and TIMESTAMP and that column 1 is TRACKID.                     *)

Columns(t) == DOMAIN t.kinds

\* The columns, or the ranks, of S in their order.
InOrder(S) == CHOOSE q \in SetToSeqs(S) : \A i, j \in DOMAIN q : i < j => q[i] < q[j]

\* Without a shard key column the primary key is the shard key.
ShardColumns(t) == IF t.sk # {} THEN t.sk ELSE t.pk

BuilderFails(t) == t.track /\ ShardColumns(t) \notin {{}, {1}}

PrimaryKeyColumns(t) == InOrder(t.pk)
ShardKeyColumns(t) ==
    InOrder(IF t.track /\ ShardColumns(t) = {} THEN {1} ELSE ShardColumns(t))

ColumnTypes(t, cols) == [i \in DOMAIN cols |-> t.kinds[cols[i]]]

FirstsSame(t, a, b) == t.kinds[a[1]] = t.kinds[b[1]] \* mutant: looks at the first columns only
\* operator== of two builders compares the types of their columns only.
SameBuilder(t, a, b) == ColumnTypes(t, a) = ColumnTypes(t, b)

\* The builder GPUdbIngestor keeps for routing.
Replaces(t, pk, sk) == pk # <<>> /\ (sk = <<>> \/ SameBuilder(t, pk, sk))
IngestColumns(t) ==
    IF Replaces(t, PrimaryKeyColumns(t), ShardKeyColumns(t))
    THEN PrimaryKeyColumns(t)
    ELSE ShardKeyColumns(t)

-----------------------------------------------------------------------------
(* RecordKey. *)

\* A null is all zeros, and so is what cannot be parsed.
Bytes(value) ==
    CASE value \in {"null", "zero", "bad"} -> 0
      [] value = "one" -> 1
      [] value = "fine" -> 2
      [] value = "quoted" -> 3

\* An unsigned long that does not parse throws, building the key or the text.
KeyFails(t, cols, r) == \E c \in Range(cols) : t.kinds[c] = "ulong" /\ r[c] = "bad"

Key(cols, r) == [i \in DOMAIN cols |-> Bytes(r[cols[i]])]

Abs(n) == IF n < 0 THEN -n ELSE n

\* The remainder of a negative hash is negative in C++, hence std::abs.
Shard(table, cols, r) == (Abs(Hash(Key(cols, r))) % Len(table)) + 1

\* The position from 1; the code's (size_t)(rank - 1) counts from 0, and is
\* far outside for rank 0.
Route(table, cols, r) == table[Shard(table, cols, r)]

-----------------------------------------------------------------------------
(* RecordKeyBuilder::buildExpression: a conjunct for each column. *)

\* A text is put between quotation marks as it is: one of its own ends it, and
\* what follows is read as more of the expression.
Printed(value) ==
    CASE value = "fine" -> "one"
      [] value = "quoted" -> "cut short"
      [] OTHER -> value

ConjunctEqual(c, r) == \* mutant: a null is compared like any value
    [column |-> c, isNull |-> FALSE, value |-> Printed(r[c])]
Conjunct(c, r) ==
    [column |-> c, isNull |-> r[c] = "null", value |-> Printed(r[c])]

Expression(cols, r) == [i \in DOMAIN cols |-> Conjunct(cols[i], r)]

-----------------------------------------------------------------------------
(* WorkerList: groups[i] is the number of addresses of rank i, and a regular *)
(* expression, when there is one, accepts the addresses in "accepted".       *)

Usable(groups, accepted, i) == {k \in 1..groups[i] : k \in accepted}

NoRegex == 1..9  \* every address is good

ListFails(groups, accepted) ==
    LET empty == {i \in DOMAIN groups : Usable(groups, accepted, i) = {}}
    IN  empty = DOMAIN groups \/ (accepted # NoRegex /\ empty # {})

\* A rank with no address is passed over, and the later ones move up.
WorkerList(groups, accepted) ==
    InOrder({i \in DOMAIN groups : Usable(groups, accepted, i) # {}})
=============================================================================
