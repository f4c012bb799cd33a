----------------------------- MODULE Lookup_proofs -----------------------------
(***************************************************************************)
(* Proofs about Lookup, for any types and servers that the assumptions     *)
(* describe, any hash, and any number of records.                          *)
(***************************************************************************)
EXTENDS Lookup, FiniteSetTheorems, NaturalsInduction, WellFoundedInduction, TLAPS

-----------------------------------------------------------------------------
(* Columns and ranks in their order. *)

\* Every set of naturals has a least member.
LEMMA LeastExists ==
    ASSUME NEW T \in SUBSET Nat, T # {}
    PROVE  \E x \in T : \A y \in T : x <= y
<1>1. \E x \in T : \A y \in T : ~ (<<y, x>> \in OpToRel(<, Nat))
  BY NatLessThanWellFounded, WFMin
<1>2. PICK x \in T : \A y \in T : ~ (<<y, x>> \in OpToRel(<, Nat))
  BY <1>1
<1>3. \A a, b \in Nat : b < a => <<b, a>> \in OpToRel(<, Nat)
  BY DEF OpToRel
<1>4. \A y \in T : x <= y
  <2> SUFFICES ASSUME NEW y \in T PROVE x <= y
    OBVIOUS
  <2>1. x \in Nat /\ y \in Nat /\ ~(y < x)
    BY <1>2, <1>3
  <2> QED
    BY <2>1
<1> QED
  BY <1>4

Ascending(q) == \A i, j \in DOMAIN q : i < j => q[i] < q[j]
Ordered(S) == \E q \in SetToSeqs(S) : Ascending(q)

\* An order can be continued with a greater number.
LEMMA OrderContinues ==
    ASSUME NEW m \in Nat, NEW T \in SUBSET (1..m), Ordered(T)
    PROVE  Ordered(T \cup {m + 1})
<1>1. PICK q \in SetToSeqs(T) : Ascending(q)
  BY DEF Ordered
<1>2. IsFiniteSet(T)
  BY FS_BoundedSetOfNaturals
<1>3. PICK k \in Nat : k = Cardinality(T)
  BY <1>2, FS_CardinalityType
<1>4. Cardinality(T \cup {m + 1}) = k + 1
  BY <1>2, <1>3, FS_AddElement
<1>5. /\ q \in [1..k -> T] /\ \A i \in 1..k : q[i] \in T /\ q[i] < m + 1
      /\ \A i, j \in 1..k : i < j => q[i] < q[j]
      /\ \A i, j \in 1..k : i # j => q[i] # q[j]
  <2>1. q \in [1..k -> T] /\ \A i, j \in 1..k : i # j => q[i] # q[j]
    BY <1>1, <1>3 DEF SetToSeqs
  <2>2. \A i, j \in 1..k : i < j => q[i] < q[j]
    BY <1>1, <2>1 DEF Ascending
  <2>3. \A x \in T : x < m + 1
    OBVIOUS
  <2>4. \A i \in 1..k : q[i] \in T
    BY <2>1
  <2> QED
    BY <2>1, <2>2, <2>3, <2>4
<1>6. PICK p : p = [i \in 1..(k + 1) |-> IF i <= k THEN q[i] ELSE m + 1]
  OBVIOUS
<1>7. p \in [1..(k + 1) -> T \cup {m + 1}]
  BY <1>5, <1>6
<1>8. \A i, j \in 1..(k + 1) : i < j => p[i] < p[j]
  BY <1>5, <1>6
<1>9. \A i, j \in 1..(k + 1) : i # j => p[i] # p[j]
  BY <1>5, <1>6
<1>10. p \in SetToSeqs(T \cup {m + 1})
  BY <1>4, <1>7, <1>9 DEF SetToSeqs
<1> QED
  BY <1>7, <1>8, <1>10 DEF Ordered, Ascending

\* Every set of positions has an order: by the least position without one.
LEMMA OrderExists == \A n \in Nat : \A S \in SUBSET (1..n) : Ordered(S)
<1> DEFINE Bad == {n \in Nat : \E S \in SUBSET (1..n) : ~Ordered(S)}
<1> SUFFICES ASSUME Bad # {} PROVE FALSE
  OBVIOUS
<1>1. PICK n \in Bad : \A m \in Bad : n <= m
  BY LeastExists
<1>2. PICK S \in SUBSET (1..n) : ~Ordered(S)
  BY <1>1
<1>3. CASE n = 0
  <2>0. S = {}
    BY <1>2, <1>3
  <2>1. Cardinality(S) = 0
    BY <2>0, FS_EmptySet
  <2>2. PICK q : q = [i \in 1..0 |-> 0]
    OBVIOUS
  <2>3. q \in [1..0 -> {}]
    BY <2>2
  <2>4. q \in SetToSeqs(S)
    BY <2>0, <2>1, <2>3 DEF SetToSeqs
  <2> QED
    BY <1>2, <2>3, <2>4 DEF Ordered, Ascending
<1>4. CASE n # 0
  <2>1. PICK m \in Nat : n = m + 1
    BY <1>1, <1>4, n - 1 \in Nat, n = (n - 1) + 1
  <2>2. \A T \in SUBSET (1..m) : Ordered(T)
    BY <1>1, <2>1
  <2>3. S \ {n} \in SUBSET (1..m)
    BY <1>2, <2>1
  <2>4. Ordered((S \ {n}) \cup {n})
    BY <2>1, <2>2, <2>3, OrderContinues
  <2>5. S = S \ {n} \/ S = (S \ {n}) \cup {n}
    OBVIOUS
  <2> QED
    BY <1>2, <2>2, <2>3, <2>4, <2>5
<1> QED
  BY <1>3, <1>4

\* What InOrder makes of a set: a sequence of all its members, ascending.
LEMMA InOrderIsOrder ==
    ASSUME NEW n \in Nat, NEW S \in SUBSET (1..n)
    PROVE  /\ IsFiniteSet(S) /\ Cardinality(S) \in Nat
           /\ InOrder(S) \in [1..Cardinality(S) -> S]
           /\ \A i, j \in 1..Cardinality(S) : i < j => InOrder(S)[i] < InOrder(S)[j]
           /\ \A c \in S : \E i \in 1..Cardinality(S) : InOrder(S)[i] = c
<1>1. \E q \in SetToSeqs(S) : \A i, j \in DOMAIN q : i < j => q[i] < q[j]
  BY OrderExists DEF Ordered, Ascending
<1>2. PICK q : q = InOrder(S)
  OBVIOUS
<1>3. q \in SetToSeqs(S) /\ \A i, j \in DOMAIN q : i < j => q[i] < q[j]
  BY <1>1, <1>2 DEF InOrder
<1>4. IsFiniteSet(S)
  BY FS_BoundedSetOfNaturals
<1>5. PICK k \in Nat : k = Cardinality(S)
  BY <1>4, FS_CardinalityType
<1>6. q \in [1..k -> S] /\ \A i, j \in 1..k : i # j => q[i] # q[j]
  BY <1>3, <1>5 DEF SetToSeqs
<1>7. IsFiniteSet(1..k) /\ Cardinality(1..k) = k
  <2>1. 1 \in Int /\ k \in Int
    OBVIOUS
  <2> QED
    BY <2>1, FS_Interval
<1>8. q \in Injection(1..k, S)
  BY <1>6 DEF Injection, IsInjective
<1>9. q \in Surjection(1..k, S)
  BY <1>4, <1>5, <1>7, <1>8, FS_Injection
<1>10. \A c \in S : \E i \in 1..k : q[i] = c
  BY <1>9 DEF Surjection
<1> QED
  BY <1>2, <1>3, <1>4, <1>5, <1>6, <1>10

\* All the positions in their order are the positions.
LEMMA InOrderOfAll ==
    ASSUME NEW n \in Nat
    PROVE  /\ InOrder(1..n) \in [1..n -> 1..n]
           /\ \A i \in 1..n : InOrder(1..n)[i] = i
<1>1. Cardinality(1..n) = n
  <2>1. 1 \in Int /\ n \in Int
    OBVIOUS
  <2> QED
    BY <2>1, FS_Interval
<1>2. PICK q : q = InOrder(1..n)
  OBVIOUS
<1>3. /\ q \in [1..n -> 1..n]
      /\ \A i, j \in 1..n : i < j => q[i] < q[j]
      /\ \A c \in 1..n : \E i \in 1..n : q[i] = c
  BY <1>1, <1>2, InOrderIsOrder
<1> DEFINE Bad == {i \in 1..n : q[i] # i}
<1>4. ASSUME Bad # {} PROVE FALSE
  <2>0. Bad \in SUBSET Nat
    OBVIOUS
  <2>1. PICK i \in Bad : \A j \in Bad : i <= j
    BY <1>4, <2>0, LeastExists
  <2>2. \A j \in 1..n : j < i => q[j] = j
    BY <2>1
  <2>3. PICK k \in 1..n : q[k] = i
    BY <1>3, <2>1
  <2>4. k > i
    BY <2>1, <2>2, <2>3
  <2>5. q[i] < i /\ q[i] \in 1..n
    BY <1>3, <2>1, <2>3, <2>4
  <2>6. q[q[i]] = q[i] /\ q[q[i]] < q[i]
    BY <1>3, <2>1, <2>2, <2>5
  <2> QED
    BY <1>3, <2>5, <2>6
<1> QED
  BY <1>2, <1>3, <1>4

-----------------------------------------------------------------------------
(* The columns of the keys. *)

\* The columns of a type, and those of its keys among them.
LEMMA KeyColumns ==
    ASSUME NEW type \in Types
    PROVE  /\ \E n \in Nat : Columns(type) = 1..n
           /\ type.pk \subseteq Columns(type) /\ type.sk \subseteq Columns(type)
           /\ ShardColumns(type) \subseteq Columns(type)
           /\ type.pk # {} => ShardColumns(type) \subseteq type.pk
<1>1. type.kinds \in Seq(Kinds)
  BY TypesAssumption
<1>2. Columns(type) = 1..Len(type.kinds) /\ Len(type.kinds) \in Nat
  BY <1>1 DEF Columns
<1>3. type.pk \in SUBSET DOMAIN type.kinds /\ type.sk \in SUBSET DOMAIN type.kinds
  BY TypesAssumption
<1> QED
  BY <1>2, <1>3, TypesAssumption DEF Columns, ShardColumns

\* The columns of the shard key are columns of the type, the first one of a
\* track table that names no others.
LEMMA ShardColumnsAreColumns ==
    ASSUME NEW type \in Types, NEW i \in DOMAIN ShardKeyColumns(type)
    PROVE  ShardKeyColumns(type)[i] \in Columns(type)
<1> DEFINE S == IF type.track /\ ShardColumns(type) = {} THEN {1} ELSE ShardColumns(type)
<1>1. PICK n \in Nat : Columns(type) = 1..n
  BY KeyColumns
<1>2. S \in SUBSET (1..n)
  <2>1. type.kinds \in Seq(Kinds) /\ (type.track => type.kinds # <<>>)
    BY TypesAssumption
  <2>2. type.track => n # 0
    BY <1>1, <2>1 DEF Columns
  <2> QED
    BY <1>1, <2>2, KeyColumns
<1>3. InOrder(S) \in [1..Cardinality(S) -> S]
  BY <1>2, InOrderIsOrder
<1>4. ShardKeyColumns(type) = InOrder(S)
  BY DEF ShardKeyColumns
<1> HIDE DEF S
<1> QED
  BY <1>1, <1>2, <1>3, <1>4

\* The builder GPUdbIngestor keeps builds the shard key, whichever it is: the
\* two builders count as equal when the types of their columns are, and then
\* they have the same columns, for the shard key is a part of the primary key.
THEOREM IngestorRoutesByShardKey ==
    ASSUME NEW type \in Types
    PROVE  IngestColumns(type) = ShardKeyColumns(type)
<1> DEFINE pk == PrimaryKeyColumns(type)
           sk == ShardKeyColumns(type)
           S == ShardColumns(type)
<1>1. CASE ~Replaces(type, pk, sk)
  BY <1>1 DEF IngestColumns
<1>2. CASE Replaces(type, pk, sk)
  <2>1. PICK n \in Nat : Columns(type) = 1..n
    BY KeyColumns
  <2>2. type.pk \in SUBSET (1..n)
    BY <2>1, KeyColumns
  <2>3. type.pk # {}
    <3>1. ASSUME type.pk = {} PROVE pk = <<>>
      <4>1. {} \in SUBSET (1..n) /\ Cardinality({}) = 0
        BY FS_EmptySet
      <4>2. InOrder({}) \in [1..0 -> {}]
        BY <4>1, InOrderIsOrder
      <4> QED
        BY <3>1, <4>2 DEF PrimaryKeyColumns
    <3> QED
      BY <1>2, <3>1 DEF Replaces
  <2>4. S \subseteq type.pk /\ S # {}
    BY <2>3, KeyColumns DEF ShardColumns
  <2>5. sk = InOrder(S) /\ pk = InOrder(type.pk)
    BY <2>4 DEF ShardKeyColumns, PrimaryKeyColumns
  <2>6. S \in SUBSET (1..n)
    BY <2>2, <2>4
  <2>7. /\ DOMAIN pk = 1..Cardinality(type.pk) /\ Cardinality(type.pk) \in Nat
        /\ IsFiniteSet(type.pk)
    BY <2>2, <2>5, InOrderIsOrder
  <2>8. DOMAIN sk = 1..Cardinality(S) /\ Cardinality(S) \in Nat /\ IsFiniteSet(S)
    BY <2>5, <2>6, InOrderIsOrder
  <2>9. sk # <<>>
    <3>1. Cardinality(S) # 0
      BY <2>4, <2>8, FS_EmptySet
    <3> HIDE DEF sk
    <3> QED
      BY <2>8, <3>1
  <2>10. DOMAIN pk = DOMAIN sk
    <3>1. ColumnTypes(type, pk) = ColumnTypes(type, sk)
      BY <1>2, <2>9 DEF Replaces, SameBuilder
    <3> QED
      BY <3>1 DEF ColumnTypes
  <2>11. Cardinality(type.pk) = Cardinality(S)
    <3> HIDE DEF S, pk, sk
    <3> QED
      BY <2>7, <2>8, <2>10
  <2>12. S = type.pk
    <3>1. S \in SUBSET type.pk
      BY <2>4
    <3> QED
      BY <2>7, <2>11, <3>1, FS_Subset
  <2> QED
    BY <1>2, <2>5, <2>12 DEF IngestColumns
<1> QED
  BY <1>1, <1>2

-----------------------------------------------------------------------------
(* The list of workers. *)

\* It names ranks of the server, in their order.
LEMMA ListOfRanks ==
    ASSUME server \in Servers
    PROVE  ListOfWorkers \in Seq(DOMAIN server.groups)
<1> DEFINE S == {i \in DOMAIN server.groups :
                    Usable(server.groups, server.accepted, i) # {}}
<1>1. server.groups \in Seq(Nat)
  BY ServersAssumption
<1>2. PICK n \in Nat : DOMAIN server.groups = 1..n
  BY <1>1
<1>3. S \in SUBSET (1..n)
  BY <1>2
<1>4. InOrder(S) \in [1..Cardinality(S) -> S] /\ Cardinality(S) \in Nat
  BY <1>3, InOrderIsOrder
<1>5. InOrder(S) \in Seq(DOMAIN server.groups)
  <2> HIDE DEF S
  <2>1. InOrder(S) \in [1..Cardinality(S) -> DOMAIN server.groups]
    BY <1>2, <1>3, <1>4
  <2> QED
    BY <1>4, <2>1
<1>6. WorkerList(server.groups, server.accepted) = InOrder(S)
  BY DEF WorkerList
<1>7. <<>> \in Seq(DOMAIN server.groups)
  OBVIOUS
<1> HIDE DEF S
<1> QED
  BY <1>5, <1>6, <1>7 DEF ListOfWorkers

\* Every rank has an address, and every shard a rank.  Then no rank is passed
\* over when the list was not refused: the i-th worker is that of rank i.
LEMMA ListIsWhole ==
    ASSUME server \in Servers, Described, server.multihead,
           ~ListFails(server.groups, server.accepted)
    PROVE  /\ ListOfWorkers \in [DOMAIN server.groups -> DOMAIN server.groups]
           /\ \A i \in DOMAIN server.groups : ListOfWorkers[i] = i
           /\ ListOfWorkers # <<>>
<1>1. server.groups \in Seq(Nat) /\ server.groups # <<>>
  BY ServersAssumption
<1>2. PICK n \in Nat : DOMAIN server.groups = 1..n /\ n # 0
  BY <1>1
<1>3. \A i \in 1..n : Usable(server.groups, server.accepted, i) # {}
  <2>1. CASE server.accepted = NoRegex
    <3> SUFFICES ASSUME NEW i \in 1..n PROVE 1 \in Usable(server.groups, server.accepted, i)
      OBVIOUS
    <3>1. server.groups[i] \in Nat /\ server.groups[i] # 0
      BY <1>1, <1>2 DEF Described, Range
    <3> QED
      BY <2>1, <3>1 DEF Usable, NoRegex
  <2>2. CASE server.accepted # NoRegex
    BY <1>2, <2>2 DEF ListFails
  <2> QED
    BY <2>1, <2>2
<1>4. {i \in DOMAIN server.groups : Usable(server.groups, server.accepted, i) # {}} = 1..n
  BY <1>2, <1>3
<1>5. ListOfWorkers = InOrder(1..n)
  BY <1>4 DEF ListOfWorkers, WorkerList
<1>6. InOrder(1..n) \in [1..n -> 1..n] /\ \A i \in 1..n : InOrder(1..n)[i] = i
  BY InOrderOfAll
<1> QED
  BY <1>2, <1>5, <1>6

\* The rank a key is routed to is one of the routing table.
LEMMA RouteInTable ==
    ASSUME t \in Types, server \in Servers, server.table # <<>>, NEW r \in Records,
           NEW cols \in {PrimaryKeyColumns(t), ShardKeyColumns(t)}
    PROVE  /\ Route(server.table, cols, r) \in Range(server.table)
           /\ Route(server.table, cols, r) \in Nat
<1>1. Hash(Key(cols, r)) \in Int
  BY HashAssumption DEF Records
<1>2. PICK h : h = Hash(Key(cols, r))
  OBVIOUS
<1>3. Abs(h) \in Nat
  BY <1>1, <1>2 DEF Abs
<1>4. server.table \in Seq(Nat)
  BY ServersAssumption
<1>5. Len(server.table) \in Nat \ {0} /\ DOMAIN server.table = 1..Len(server.table)
  BY <1>4
<1>6. (Abs(h) % Len(server.table)) + 1 \in DOMAIN server.table
  BY <1>3, <1>5
<1>7. Shard(server.table, cols, r) \in DOMAIN server.table
  BY <1>2, <1>6 DEF Shard
<1> QED
  BY <1>4, <1>7 DEF Route, Range

\* A rank of the routing table, but for 0, is a position in the queues: the
\* constructors compare the table with the list.
LEMMA RouteInQueues ==
    ASSUME server \in Servers, NEW list \in Seq(DOMAIN server.groups),
           Constructed(list) = "ready", Routing(list) # <<>>,
           NEW rank \in Range(server.table), rank # 0
    PROVE  rank \in DOMAIN Queues(list)
<1>1. list # <<>> /\ Routing(list) = server.table
  BY DEF Routing
<1>2. rank <= Len(list)
  BY <1>1 DEF Constructed, Enough
<1>3. rank \in Nat
  BY ServersAssumption DEF Range
<1> QED
  BY <1>1, <1>2, <1>3 DEF Queues

-----------------------------------------------------------------------------
(* The inductive invariant. *)

TypeInv ==
    /\ t \in Types /\ server \in Servers
    /\ stored \in SUBSET [record : Records, rank : Nat]
    /\ asked \in [record : Records, filter : Filters] \cup {Nothing}

\* What the constructors have looked at holds for good.
ReadyInv ==
    /\ ingestor = "ready" => Constructed(IngestList) = "ready"
    /\ retriever = "ready" => Constructed(ListOfWorkers) = "ready"

\* The options of the retriever, but for the expression, are those given last.
OptionsInv ==
    retriever = "ready" =>
        options = [expression |-> options.expression, other |-> given.other, fast |-> TRUE]

\* Without a lookup there is no request and no outcome.
PendingInv == asked = Nothing => request = Nothing /\ outcome = "none"

\* A replicated table has its records at every rank.
CopiesInv ==
    server.replicated =>
        \A s \in stored : \A i \in DOMAIN server.groups :
            [record |-> s.record, rank |-> i] \in stored

LookupInv ==
    /\ TypeInv /\ ReadyInv /\ OptionsInv /\ PendingInv /\ CopiesInv
    /\ StoredByOwner /\ LookupFindsStored /\ RequestIsFresh /\ NoIndexOutside

\* The invariant before anything is constructed.
LEMMA InitInv == Init => LookupInv
<1> SUFFICES ASSUME Init PROVE LookupInv
  OBVIOUS
<1> QED
  BY DEF Init, LookupInv, TypeInv, ReadyInv, OptionsInv, PendingInv, CopiesInv,
     StoredByOwner, LookupFindsStored, RequestIsFresh, NoIndexOutside

-----------------------------------------------------------------------------
(* GPUdbIngestor::insert. *)

\* No record is queued outside of the queues, but through a rank of 0.
LEMMA ChosenInQueues ==
    ASSUME TypeInv, ReadyInv, ingestor = "ready", NEW r \in Records, NEW i \in Chosen(r),
           0 \notin Range(server.table)
    PROVE  i \in DOMAIN Queues(IngestList)
<1>1. IngestList \in Seq(DOMAIN server.groups) /\ Constructed(IngestList) = "ready"
  <2>1. <<>> \in Seq(DOMAIN server.groups)
    OBVIOUS
  <2> QED
    BY <2>1, ListOfRanks DEF IngestList, ReadyInv, TypeInv
<1>2. PICK list : list = IngestList
  OBVIOUS
<1>3. CASE Routing(list) = <<>>
  <2>1. i = 1
    BY <1>2, <1>3 DEF Chosen
  <2>2. list = <<>> \/ Len(list) \in Nat \ {0}
    BY <1>1, <1>2
  <2> QED
    BY <1>1, <1>2, <2>1, <2>2 DEF Queues
<1>4. CASE Routing(list) # <<>> /\ IngestColumns(t) = <<>>
  BY <1>2, <1>4 DEF Chosen
<1>5. CASE Routing(list) # <<>> /\ IngestColumns(t) # <<>>
  <2>1. Routing(list) = server.table /\ server.table # <<>>
    BY <1>5 DEF Routing
  <2>2. i = Route(server.table, IngestColumns(t), r)
    BY <1>2, <1>5, <2>1 DEF Chosen
  <2>3. IngestColumns(t) \in {PrimaryKeyColumns(t), ShardKeyColumns(t)}
    BY DEF IngestColumns
  <2>4. i \in Range(server.table)
    BY <2>1, <2>2, <2>3, RouteInTable DEF TypeInv
  <2> QED
    BY <1>1, <1>2, <1>5, <2>4, RouteInQueues DEF TypeInv
<1> QED
  BY <1>3, <1>4, <1>5

\* The ranks a record comes to: those of the server, and for a sharded table
\* the one that the routing table names for its shard key.
LEMMA PlacedByOwner ==
    ASSUME TypeInv, ReadyInv, ingestor = "ready", NEW r \in Records, NEW i \in Chosen(r),
           i \in DOMAIN Queues(IngestList), Described, Sharded,
           NEW ranks \in Placed(r, Queues(IngestList)[i])
    PROVE  ranks = {Route(server.table, ShardKeyColumns(t), r)}
<1>1. /\ IngestList = ListOfWorkers /\ server.table # <<>>
      /\ ShardKeyColumns(t) # <<>> /\ IngestColumns(t) = ShardKeyColumns(t)
      /\ ~server.replicated /\ Constructed(ListOfWorkers) = "ready"
  BY IngestorRoutesByShardKey DEF IngestList, Sharded, Described, TypeInv, ReadyInv
<1>2. CASE ListOfWorkers = <<>>
  <2>1. Queues(IngestList) = <<0>> /\ i = 1
    BY <1>1, <1>2 DEF Queues
  <2>2. Queues(IngestList)[i] = 0
    BY <2>1
  <2> QED
    BY <1>1, <2>2 DEF Placed
<1>3. CASE ListOfWorkers # <<>>
  <2>1. server.multihead /\ ~ListFails(server.groups, server.accepted)
    BY <1>1, <1>3 DEF ListOfWorkers, Constructed
  <2>2. /\ DOMAIN ListOfWorkers = DOMAIN server.groups
        /\ \A k \in DOMAIN server.groups : ListOfWorkers[k] = k
    BY <2>1, ListIsWhole DEF TypeInv
  <2>3. Queues(IngestList) = ListOfWorkers /\ Queues(IngestList)[i] = i
    BY <1>1, <1>3, <2>2 DEF Queues
  <2>4. i = Route(server.table, ShardKeyColumns(t), r)
    BY <1>1, <1>3 DEF Chosen, Routing
  <2>5. i \in Nat /\ i # 0
    <3>1. i \in Range(server.table)
      BY <1>1, <2>4, RouteInTable DEF TypeInv
    <3> QED
      BY <1>1, <2>4, <3>1, RouteInTable DEF TypeInv, Described
  <2> QED
    BY <1>1, <2>3, <2>4, <2>5 DEF Placed
<1> QED
  BY <1>2, <1>3

\* Every rank a record comes to is a number, and all of them for a replicated
\* table.
LEMMA PlacedAtRanks ==
    ASSUME TypeInv, NEW r \in Records, NEW i \in DOMAIN Queues(IngestList),
           NEW ranks \in Placed(r, Queues(IngestList)[i])
    PROVE  /\ ranks \subseteq Nat
           /\ server.replicated => ranks = DOMAIN server.groups
<1>1. PICK n \in Nat : DOMAIN server.groups = 1..n
  <2>1. server.groups \in Seq(Nat)
    BY ServersAssumption DEF TypeInv
  <2> QED
    BY <2>1
<1>2. Queues(IngestList)[i] \in Nat
  <2>1. IngestList \in Seq(DOMAIN server.groups)
    <3>1. <<>> \in Seq(DOMAIN server.groups)
      OBVIOUS
    <3> QED
      BY <3>1, ListOfRanks DEF IngestList, TypeInv
  <2>2. PICK list : list = IngestList
    OBVIOUS
  <2>3. CASE list = <<>>
    BY <2>2, <2>3 DEF Queues
  <2>4. CASE list # <<>>
    BY <1>1, <2>1, <2>2, <2>4 DEF Queues
  <2> QED
    BY <2>3, <2>4
<1>3. server.table # <<>> => Route(server.table, ShardKeyColumns(t), r) \in Nat
  BY RouteInTable DEF TypeInv
<1>4. PICK rank \in Nat : rank = Queues(IngestList)[i]
  BY <1>2
<1>5. ranks \in Placed(r, rank)
  BY <1>4
<1>6. CASE server.replicated
  BY <1>1, <1>5, <1>6 DEF Placed
<1>7. CASE ~server.replicated
  BY <1>1, <1>3, <1>5, <1>7 DEF Placed
<1> QED
  BY <1>6, <1>7

-----------------------------------------------------------------------------
(* RecordRetriever::getRecordsByKey. *)

\* The expression of a key finds the records with that key: the nulls of the
\* key are looked for as nulls.  The text of a double must be its own, and no
\* text may end too early.
LEMMA ExpressionFindsKey ==
    ASSUME NEW r, NEW q, Printable(r)
    PROVE  Matches(Expression(ShardKeyColumns(t), r), q) <=> KeyOf(q) = KeyOf(r)
<1> DEFINE cols == ShardKeyColumns(t)
<1> HIDE DEF cols
<1>1. \A i \in DOMAIN cols : Printed(r[cols[i]]) = r[cols[i]]
  <2>1. \A i \in DOMAIN cols : r[cols[i]] # "fine" /\ r[cols[i]] # "quoted"
    BY DEF Printable, KeyOf, Range, cols
  <2> QED
    BY <2>1 DEF Printed
<1>2. /\ DOMAIN Expression(cols, r) = DOMAIN cols
      /\ \A i \in DOMAIN cols : Expression(cols, r)[i] =
             [column |-> cols[i], isNull |-> r[cols[i]] = "null", value |-> r[cols[i]]]
  BY <1>1 DEF Expression, Conjunct
<1>3. Matches(Expression(cols, r), q) <=> \A i \in DOMAIN cols : q[cols[i]] = r[cols[i]]
  <2>1. PICK e : e = Expression(cols, r)
    OBVIOUS
  <2>2. ASSUME NEW i \in DOMAIN cols
        PROVE  /\ e[i].column = cols[i] /\ e[i].value = r[cols[i]]
               /\ e[i].isNull <=> r[cols[i]] = "null"
    <3>1. e[i] = [column |-> cols[i], isNull |-> r[cols[i]] = "null", value |-> r[cols[i]]]
      BY <1>2, <2>1
    <3>2. PICK b \in BOOLEAN : b = (r[cols[i]] = "null")
      BY Zenon
    <3>3. e[i] = [column |-> cols[i], isNull |-> b, value |-> r[cols[i]]]
      BY <3>1, <3>2, Zenon
    <3>4. e[i].isNull = b /\ e[i].column = cols[i] /\ e[i].value = r[cols[i]]
      BY <3>3
    <3> QED
      BY <3>2, <3>4
  <2>3. Matches(e, q) <=>
            \A i \in DOMAIN cols : IF r[cols[i]] = "null" THEN q[cols[i]] = "null"
                                   ELSE q[cols[i]] \in {r[cols[i]]} \ {"null"}
    <3>1. DOMAIN e = DOMAIN cols
      BY <1>2, <2>1
    <3> QED
      BY <2>2, <3>1 DEF Matches
  <2> QED
    BY <2>1, <2>3
<1>4. KeyOf(q) = KeyOf(r) <=> \A i \in DOMAIN cols : q[cols[i]] = r[cols[i]]
  <2>1. /\ KeyOf(q) = [i \in DOMAIN cols |-> q[cols[i]]]
        /\ KeyOf(r) = [i \in DOMAIN cols |-> r[cols[i]]]
    BY DEF KeyOf, cols
  <2>2. ASSUME KeyOf(q) = KeyOf(r), NEW i \in DOMAIN cols PROVE q[cols[i]] = r[cols[i]]
    <3>1. KeyOf(q)[i] = q[cols[i]] /\ KeyOf(r)[i] = r[cols[i]]
      BY <2>1
    <3> QED
      BY <2>2, <3>1
  <2> QED
    BY <2>1, <2>2
<1> QED
  BY <1>3, <1>4 DEF cols

\* Such an expression has one meaning.
LEMMA NotGarbled ==
    ASSUME TypeInv, NEW r \in Records, Printable(r)
    PROVE  ~Garbled(Expression(ShardKeyColumns(t), r))
<1> DEFINE cols == ShardKeyColumns(t)
<1> HIDE DEF cols
<1>1. \A i \in DOMAIN cols : r[cols[i]] # "fine" /\ r[cols[i]] # "quoted"
  BY DEF Printable, KeyOf, Range, cols
<1>2. \A c \in Columns(t) : r[c] # "cut short"
  <2>1. \A k \in Kinds : "cut short" \notin Values(k)
    BY DEF Kinds, Values
  <2>2. \A c \in Columns(t) : r[c] \in UNION {Values(k) : k \in Kinds}
    BY DEF Records, RecordsOf
  <2> QED
    BY <2>1, <2>2
<1>3. \A i \in DOMAIN cols : cols[i] \in Columns(t)
  BY ShardColumnsAreColumns DEF TypeInv, cols
<1>4. \A i \in DOMAIN cols : Printed(r[cols[i]]) # "cut short"
  BY <1>1, <1>2, <1>3 DEF Printed
<1>5. /\ DOMAIN Expression(cols, r) = DOMAIN cols
      /\ \A i \in DOMAIN cols : Expression(cols, r)[i].value = Printed(r[cols[i]])
  BY DEF Expression, Conjunct
<1> QED
  BY <1>4, <1>5 DEF Garbled, cols

\* Records with one key are at one rank.
LEMMA OneKeyOneRoute ==
    ASSUME NEW r, NEW q, KeyOf(q) = KeyOf(r)
    PROVE  Route(server.table, ShardKeyColumns(t), q) = Route(server.table, ShardKeyColumns(t), r)
<1> DEFINE cols == ShardKeyColumns(t)
<1> HIDE DEF cols
<1>1. ASSUME NEW i \in DOMAIN cols PROVE q[cols[i]] = r[cols[i]]
  <2>1. KeyOf(q)[i] = q[cols[i]] /\ KeyOf(r)[i] = r[cols[i]]
    BY <1>1 DEF KeyOf, cols
  <2> QED
    BY <2>1
<1>2. Key(cols, q) = Key(cols, r)
  BY <1>1 DEF Key
<1> QED
  BY <1>2 DEF Route, Shard, cols

\* Where a lookup goes: RecordRetriever's index, and the rank behind it.
IndexFor(r) ==
    IF Routing(ListOfWorkers) = <<>> THEN 0
    ELSE Route(Routing(ListOfWorkers), ShardKeyColumns(t), r)
RankFor(r) == IF IndexFor(r) = 0 THEN 0 ELSE Queues(ListOfWorkers)[IndexFor(r)]

\* The rank that is asked has every record of the key that the table has.
LEMMA RankHasKey ==
    ASSUME TypeInv, ReadyInv, CopiesInv, StoredByOwner, retriever = "ready", Described,
           ShardKeyColumns(t) # <<>>, NEW r \in Records,
           Routing(ListOfWorkers) = <<>> \/ IndexFor(r) \in DOMAIN Queues(ListOfWorkers),
           NEW s \in stored, KeyOf(s.record) = KeyOf(r)
    PROVE  \E u \in stored : u.record = s.record /\ RankFor(r) \in {0, u.rank}
<1>1. CASE Routing(ListOfWorkers) = <<>>
  BY <1>1 DEF IndexFor, RankFor
<1>2. CASE Routing(ListOfWorkers) # <<>>
  <2>1. ListOfWorkers # <<>> /\ Routing(ListOfWorkers) = server.table /\ server.table # <<>>
    BY <1>2 DEF Routing
  <2>2. server.multihead /\ ~ListFails(server.groups, server.accepted)
    BY <2>1 DEF ListOfWorkers, Constructed, ReadyInv
  <2>3. /\ DOMAIN ListOfWorkers = DOMAIN server.groups
        /\ \A k \in DOMAIN server.groups : ListOfWorkers[k] = k
    BY <2>2, ListIsWhole DEF TypeInv
  <2>4. Queues(ListOfWorkers) = ListOfWorkers
    BY <2>1 DEF Queues
  <2>5. PICK i : i = Route(server.table, ShardKeyColumns(t), r)
    OBVIOUS
  <2>6. IndexFor(r) = i /\ i \in DOMAIN server.groups
    BY <1>2, <2>1, <2>3, <2>4, <2>5 DEF IndexFor
  <2>7. RankFor(r) \in {0, i}
    BY <2>3, <2>4, <2>6 DEF RankFor
  <2>8. CASE server.replicated
    <3>1. [record |-> s.record, rank |-> i] \in stored
      BY <2>6, <2>8 DEF CopiesInv
    <3> QED
      BY <2>7, <3>1
  <2>9. CASE ~server.replicated
    <3>1. s.rank = Route(server.table, ShardKeyColumns(t), s.record)
      BY <2>9 DEF StoredByOwner, Sharded
    <3>2. s.rank = i
      BY <2>5, <3>1, OneKeyOneRoute
    <3> QED
      BY <2>7, <3>2
  <2> QED
    BY <2>8, <2>9
<1> QED
  BY <1>1, <1>2

\* So an answer is all of them.
LEMMA AnswerIsWhole ==
    ASSUME TypeInv, ReadyInv, CopiesInv, StoredByOwner, retriever = "ready", Described,
           ShardKeyColumns(t) # <<>>, NEW r \in Records, NEW filter \in Filters,
           Routing(ListOfWorkers) = <<>> \/ IndexFor(r) \in DOMAIN Queues(ListOfWorkers),
           Printable(r)
    PROVE  Found(RankFor(r), [key |-> Expression(ShardKeyColumns(t), r), filter |-> filter])
               = {s.record : s \in {s \in stored : /\ KeyOf(s.record) = KeyOf(r)
                                                   /\ Passes(s.record, filter)}}
<1> DEFINE e == [key |-> Expression(ShardKeyColumns(t), r), filter |-> filter]
           At == {s \in stored : /\ RankFor(r) \in {0, s.rank} /\ Matches(e.key, s.record)
                                 /\ Passes(s.record, e.filter)}
           All == {s \in stored : /\ KeyOf(s.record) = KeyOf(r)
                                  /\ Passes(s.record, filter)}
<1>1. \A q : Matches(e.key, q) <=> KeyOf(q) = KeyOf(r)
  BY ExpressionFindsKey
<1>2. \A s \in At : s \in All
  BY <1>1
<1>3. ASSUME NEW s \in All PROVE \E u \in At : u.record = s.record
  <2>1. PICK u \in stored : u.record = s.record /\ RankFor(r) \in {0, u.rank}
    BY <1>3, RankHasKey
  <2>2. u \in At
    BY <1>1, <1>3, <2>1
  <2> QED
    BY <2>1, <2>2
<1>4. Found(RankFor(r), e) = {s.record : s \in At}
  BY DEF Found
<1> HIDE DEF At, All
<1>5. {s.record : s \in At} = {s.record : s \in All}
  BY <1>2, <1>3
<1> QED
  BY <1>4, <1>5 DEF All

-----------------------------------------------------------------------------
(* The steps. *)

\* The type and the server are the same for good, and all that is read off them.
LEMMA Unmoved ==
    ASSUME UNCHANGED <<t, server>>
    PROVE  /\ Records' = Records
           /\ IngestList' = IngestList /\ ListOfWorkers' = ListOfWorkers
           /\ Constructed(IngestList)' = Constructed(IngestList)
           /\ Constructed(ListOfWorkers)' = Constructed(ListOfWorkers)
           /\ Described' <=> Described
           /\ Sharded' <=> Sharded
           /\ ShardKeyColumns(t)' = ShardKeyColumns(t)
  BY DEF Records, IngestList, ListOfWorkers, Constructed, Enough, Routing, Described, Sharded

\* Nobody asks while the table is filled; the records are where they are.
LEMMA StoredStays ==
    ASSUME LookupInv, UNCHANGED <<t, server, stored>>
    PROVE  CopiesInv' /\ StoredByOwner'
<1>1. (Described' <=> Described) /\ (Sharded' <=> Sharded)
  BY Unmoved
<1>2. CopiesInv'
  BY DEF LookupInv, CopiesInv
<1>3. StoredByOwner'
  BY <1>1 DEF LookupInv, StoredByOwner
<1> QED
  BY <1>2, <1>3

\* A step that ends without a lookup under way.
LEMMA StillIdle ==
    ASSUME LookupInv, UNCHANGED <<t, server, stored, outside>>,
           asked' = Nothing, request' = Nothing, outcome' = "none"
    PROVE  /\ TypeInv' /\ PendingInv' /\ CopiesInv' /\ StoredByOwner'
           /\ LookupFindsStored' /\ RequestIsFresh' /\ NoIndexOutside'
<1>1. Records' = Records
  BY Unmoved
<1>2. TypeInv'
  BY <1>1 DEF LookupInv, TypeInv
<1>3. PendingInv' /\ LookupFindsStored' /\ RequestIsFresh' /\ NoIndexOutside'
  BY DEF LookupInv, PendingInv, LookupFindsStored, RequestIsFresh, NoIndexOutside
<1> QED
  BY <1>2, <1>3, StoredStays

\* The constructors and setOptions keep the invariant.
LEMMA ConstructStep ==
    ASSUME LookupInv,
           \/ ConstructIngestor
           \/ \E o \in GivenOptions : ConstructRetriever(o) \/ SetRetrieverOptions(o)
    PROVE  LookupInv'
<1>a. /\ UNCHANGED <<t, server, stored, outside>>
      /\ asked' = Nothing /\ request' = Nothing /\ outcome' = "none"
  BY DEF ConstructIngestor, ConstructRetriever, SetRetrieverOptions, Idle, lookup,
     LookupInv, PendingInv
<1>b. /\ IngestList' = IngestList /\ ListOfWorkers' = ListOfWorkers
      /\ Constructed(IngestList)' = Constructed(IngestList)
      /\ Constructed(ListOfWorkers)' = Constructed(ListOfWorkers)
  BY <1>a, Unmoved
<1>1. ReadyInv'
  <2>1. /\ ingestor' = ingestor \/ ingestor' = Constructed(IngestList)
        /\ retriever' = retriever \/ retriever' = Constructed(ListOfWorkers)
    BY DEF ConstructIngestor, ConstructRetriever, SetRetrieverOptions
  <2> QED
    BY <1>b, <2>1 DEF LookupInv, ReadyInv
<1>2. OptionsInv'
  <2>1. CASE ConstructIngestor
    BY <2>1 DEF ConstructIngestor, LookupInv, OptionsInv
  <2>2. ASSUME NEW o \in GivenOptions, ConstructRetriever(o) \/ SetRetrieverOptions(o)
        PROVE  OptionsInv'
    <3>1. options' = [expression |-> o.expression, other |-> o.other, fast |-> TRUE]
          /\ given' = o
      BY <2>2 DEF ConstructRetriever, SetRetrieverOptions, SetOptions
    <3> QED
      BY <3>1 DEF OptionsInv
  <2> QED
    BY <2>1, <2>2
<1> QED
  BY <1>a, <1>1, <1>2, StillIdle DEF LookupInv

\* An insertion puts the record where its key is looked for.
LEMMA InsertStep ==
    ASSUME LookupInv, NEW r \in Records, Insert(r)
    PROVE  LookupInv'
<1>a. /\ UNCHANGED <<t, server, ingestor, retriever, options, given, lookup>>
      /\ ingestor = "ready" /\ asked' = Nothing /\ request' = Nothing /\ outcome' = "none"
  BY DEF Insert, Idle, lookup, LookupInv, PendingInv
<1>b. TypeInv /\ ReadyInv
  BY DEF LookupInv
<1>c. /\ Records' = Records /\ (Described' <=> Described) /\ (Sharded' <=> Sharded)
      /\ IngestList' = IngestList /\ ListOfWorkers' = ListOfWorkers
      /\ Constructed(IngestList)' = Constructed(IngestList)
      /\ Constructed(ListOfWorkers)' = Constructed(ListOfWorkers)
  BY <1>a, Unmoved
<1>1. ReadyInv' /\ OptionsInv' /\ PendingInv' /\ LookupFindsStored' /\ RequestIsFresh'
  BY <1>a, <1>c DEF LookupInv, ReadyInv, OptionsInv, PendingInv, LookupFindsStored,
     RequestIsFresh
<1>2. PICK i \in Chosen(r) :
          IF i \in DOMAIN Queues(IngestList)
          THEN /\ \E ranks \in Placed(r, Queues(IngestList)[i]) :
                    stored' = stored \cup {[record |-> r, rank |-> rank] : rank \in ranks}
               /\ UNCHANGED outside
          ELSE outside' = TRUE /\ UNCHANGED stored
  BY DEF Insert
<1>3. CASE i \in DOMAIN Queues(IngestList)
  <2>1. PICK ranks \in Placed(r, Queues(IngestList)[i]) :
            stored' = stored \cup {[record |-> r, rank |-> rank] : rank \in ranks}
    BY <1>2, <1>3
  <2>2. ranks \subseteq Nat /\ (server.replicated => ranks = DOMAIN server.groups)
    BY <1>b, <1>3, PlacedAtRanks
  <2>3. TypeInv'
    <3>1. {[record |-> r, rank |-> rank] : rank \in ranks} \subseteq [record : Records, rank : Nat]
      BY <2>2
    <3>2. stored' \in SUBSET [record : Records, rank : Nat]
      BY <1>b, <2>1, <3>1 DEF TypeInv
    <3> QED
      BY <1>a, <1>b, <1>c, <3>2 DEF TypeInv
  <2>4. CopiesInv'
    <3> SUFFICES ASSUME server.replicated, NEW s \in stored', NEW k \in DOMAIN server.groups
                 PROVE  [record |-> s.record, rank |-> k] \in stored'
      BY <1>a DEF CopiesInv
    <3>1. CASE s \in stored
      BY <2>1, <3>1 DEF LookupInv, CopiesInv
    <3>2. CASE s \notin stored
      <4>1. s.record = r
        BY <2>1, <3>2
      <4> QED
        BY <2>1, <2>2, <4>1
    <3> QED
      BY <3>1, <3>2
  <2>5. StoredByOwner'
    <3> SUFFICES ASSUME Described, Sharded, NEW s \in stored'
                 PROVE  s.rank = Route(server.table, ShardKeyColumns(t), s.record)
      BY <1>a, <1>c DEF StoredByOwner
    <3>1. CASE s \in stored
      BY <3>1 DEF LookupInv, StoredByOwner
    <3>2. CASE s \notin stored
      <4>1. ranks = {Route(server.table, ShardKeyColumns(t), r)}
        BY <1>a, <1>b, <1>3, PlacedByOwner
      <4>2. PICK rank \in ranks : s = [record |-> r, rank |-> rank]
        BY <2>1, <3>2
      <4> QED
        BY <4>1, <4>2
    <3> QED
      BY <3>1, <3>2
  <2>6. NoIndexOutside'
    BY <1>a, <1>2, <1>3 DEF LookupInv, NoIndexOutside
  <2> QED
    BY <1>1, <2>3, <2>4, <2>5, <2>6 DEF LookupInv
<1>4. CASE i \notin DOMAIN Queues(IngestList)
  <2>1. UNCHANGED stored
    BY <1>2, <1>4
  <2>2. 0 \in Range(server.table)
    BY <1>a, <1>b, <1>4, ChosenInQueues
  <2>3. TypeInv'
    BY <1>a, <1>b, <1>c, <2>1 DEF TypeInv
  <2>4. NoIndexOutside'
    BY <1>a, <2>2 DEF NoIndexOutside
  <2> QED
    BY <1>a, <1>1, <2>1, <2>3, <2>4, StoredStays DEF LookupInv
<1> QED
  BY <1>3, <1>4

\* What every call of getRecordsByKey leaves.
LEMMA AskStays ==
    ASSUME LookupInv, NEW r \in Records, NEW filter \in Filters, Ask(r, filter)
    PROVE  /\ UNCHANGED <<t, server, ingestor, retriever, stored, given>>
           /\ retriever = "ready" /\ asked' = [record |-> r, filter |-> filter]
           /\ TypeInv' /\ ReadyInv' /\ PendingInv' /\ CopiesInv' /\ StoredByOwner'
<1>1. /\ UNCHANGED <<t, server, ingestor, retriever, stored, given>>
      /\ retriever = "ready" /\ asked' = [record |-> r, filter |-> filter]
  BY DEF Ask
<1>2. /\ Records' = Records
      /\ IngestList' = IngestList /\ ListOfWorkers' = ListOfWorkers
      /\ Constructed(IngestList)' = Constructed(IngestList)
      /\ Constructed(ListOfWorkers)' = Constructed(ListOfWorkers)
  BY <1>1, Unmoved
<1>3. asked' \in [record : Records, filter : Filters]
  BY <1>1
<1>4. asked' # Nothing
  BY <1>3, NothingAssumption DEF LookupInv, TypeInv, Records
<1>5. TypeInv' /\ PendingInv'
  BY <1>1, <1>2, <1>3, <1>4 DEF LookupInv, TypeInv, PendingInv
<1>6. ReadyInv'
  BY <1>1, <1>2 DEF LookupInv, ReadyInv
<1> QED
  BY <1>1, <1>5, <1>6, StoredStays

\* A lookup that throws changes nothing that matters.
LEMMA RefusedStep ==
    ASSUME LookupInv, NEW r \in Records, NEW filter \in Filters,
           GetByKeyUnsharded(r, filter) \/ GetByKeyRefused(r, filter)
    PROVE  LookupInv'
<1>1. /\ Ask(r, filter) /\ UNCHANGED <<options, outside>>
      /\ request' = Nothing /\ outcome' # "answered"
  BY DEF GetByKeyUnsharded, GetByKeyRefused
<1>2. /\ UNCHANGED <<t, server, ingestor, retriever, stored, given>>
      /\ TypeInv' /\ ReadyInv' /\ PendingInv' /\ CopiesInv' /\ StoredByOwner'
  BY <1>1, AskStays
<1>3. OptionsInv' /\ LookupFindsStored' /\ RequestIsFresh' /\ NoIndexOutside'
  BY <1>1, <1>2 DEF LookupInv, OptionsInv, LookupFindsStored, RequestIsFresh, NoIndexOutside
<1> QED
  BY <1>2, <1>3 DEF LookupInv

\* A lookup goes where the record was put, and asks for its key.
LEMMA LookupStep ==
    ASSUME LookupInv, NEW r \in Records, NEW filter \in Filters, GetRecordsByKey(r, filter)
    PROVE  LookupInv'
<1> DEFINE cols == ShardKeyColumns(t)
           e == [key |-> Expression(cols, r), filter |-> filter]
           inside == Routing(ListOfWorkers) = <<>>
                         \/ IndexFor(r) \in DOMAIN Queues(ListOfWorkers)
<1>1. /\ Ask(r, filter) /\ cols # <<>> /\ options' = PutExpression(e)
      /\ IF inside
         THEN /\ request' = [rank |-> RankFor(r), options |-> options']
              /\ \/ outcome' = "answered" /\ answer' \in Answers(RankFor(r), options'.expression)
                 \/ outcome' = "lost" /\ answer' = {}
              /\ UNCHANGED outside
         ELSE outside' = TRUE /\ request' = Nothing /\ outcome' = "none" /\ answer' = {}
  BY DEF GetRecordsByKey, IndexFor, RankFor
<1>2. /\ UNCHANGED <<t, server, ingestor, retriever, stored, given>>
      /\ retriever = "ready" /\ asked' = [record |-> r, filter |-> filter]
      /\ TypeInv' /\ ReadyInv' /\ PendingInv' /\ CopiesInv' /\ StoredByOwner'
  BY <1>1, AskStays
<1>3. options' = [expression |-> e, other |-> given.other, fast |-> TRUE]
  <2>1. options = [expression |-> options.expression, other |-> given.other, fast |-> TRUE]
    BY <1>2 DEF LookupInv, OptionsInv
  <2>2. options' = [options EXCEPT !.expression = e]
    BY <1>1 DEF PutExpression
  <2> HIDE DEF e
  <2>3. PICK x : x = options.expression
    OBVIOUS
  <2>4. options = [expression |-> x, other |-> given.other, fast |-> TRUE]
    BY <2>1, <2>3
  <2>5. options \in [expression : {x, e}, other : {given.other}, fast : {TRUE}]
    BY <2>4
  <2>6. /\ options' \in [expression : {x, e}, other : {given.other}, fast : {TRUE}]
        /\ options'.expression = e
    BY <2>2, <2>5
  <2> QED
    BY <2>6
<1>4. OptionsInv'
  BY <1>2, <1>3 DEF OptionsInv
<1>5. RequestIsFresh'
  <2>1. asked'.record = r /\ asked'.filter = filter /\ given' = given /\ t' = t
    BY <1>2
  <2>2. request' = Nothing \/ request'.options = options'
    BY <1>1
  <2> QED
    BY <1>3, <2>1, <2>2 DEF RequestIsFresh
<1>6. LookupFindsStored'
  <2> SUFFICES ASSUME Described, outcome' = "answered", Printable(r)
               PROVE  answer' = {s.record : s \in {s \in stored : /\ KeyOf(s.record) = KeyOf(r)
                                                                  /\ Passes(s.record, filter)}}
    <3>1. asked'.record = r /\ asked'.filter = filter /\ stored' = stored
          /\ t' = t /\ server' = server
      BY <1>2
    <3> QED
      BY <3>1 DEF LookupFindsStored, Printable, KeyOf, Described
  <2>1. inside /\ answer' \in Answers(RankFor(r), options'.expression)
    BY <1>1
  <2>2. options'.expression = e
    <3> HIDE DEF e
    <3> QED
      BY <1>3
  <2>3. /\ TypeInv /\ ReadyInv /\ CopiesInv /\ StoredByOwner
        /\ retriever = "ready" /\ ShardKeyColumns(t) # <<>>
    BY <1>1, <1>2 DEF LookupInv
  <2>4. Found(RankFor(r), e) = {s.record : s \in {s \in stored : /\ KeyOf(s.record) = KeyOf(r)
                                                                 /\ Passes(s.record, filter)}}
    BY <2>1, <2>3, AnswerIsWhole
  <2>5. Answers(RankFor(r), e) = {Found(RankFor(r), e)}
    BY <2>3, NotGarbled DEF Answers
  <2> QED
    BY <2>1, <2>2, <2>4, <2>5
<1>7. NoIndexOutside'
  <2>1. CASE inside
    BY <1>1, <1>2, <2>1 DEF LookupInv, NoIndexOutside
  <2>2. CASE ~inside
    <3>1. /\ Routing(ListOfWorkers) = server.table /\ server.table # <<>>
          /\ IndexFor(r) = Route(server.table, cols, r)
      BY <2>2 DEF IndexFor, Routing
    <3>2. IndexFor(r) \in Range(server.table)
      BY <3>1, RouteInTable DEF LookupInv, TypeInv
    <3>3. ListOfWorkers \in Seq(DOMAIN server.groups) /\ Constructed(ListOfWorkers) = "ready"
      BY <1>2, ListOfRanks DEF LookupInv, TypeInv, ReadyInv
    <3>4. IndexFor(r) = 0
      BY <2>2, <3>1, <3>2, <3>3, RouteInQueues DEF LookupInv, TypeInv
    <3> QED
      BY <1>2, <3>2, <3>4 DEF NoIndexOutside
  <2> QED
    BY <2>1, <2>2
<1> QED
  BY <1>2, <1>4, <1>5, <1>6, <1>7 DEF LookupInv

\* A return forgets the answer.
LEMMA ReturnStep ==
    ASSUME LookupInv, Return
    PROVE  LookupInv'
<1>1. /\ UNCHANGED <<t, server, ingestor, retriever, options, stored, outside, given>>
      /\ asked' = Nothing /\ request' = Nothing /\ outcome' = "none"
  BY DEF Return
<1>2. ReadyInv'
  <2>1. /\ Constructed(IngestList)' = Constructed(IngestList)
        /\ Constructed(ListOfWorkers)' = Constructed(ListOfWorkers)
    BY <1>1, Unmoved
  <2> QED
    BY <1>1, <2>1 DEF LookupInv, ReadyInv
<1>3. OptionsInv'
  BY <1>1 DEF LookupInv, OptionsInv
<1> QED
  BY <1>1, <1>2, <1>3, StillIdle DEF LookupInv

\* Every step of the ingestor and of the retriever keeps the invariant.
LEMMA NextInv == LookupInv /\ [Next]_vars => LookupInv'
<1> SUFFICES ASSUME LookupInv, [Next]_vars PROVE LookupInv'
  OBVIOUS
<1>1. ASSUME UNCHANGED vars PROVE LookupInv'
  <2>1. /\ UNCHANGED <<t, server, ingestor, retriever, options, stored, outside, given>>
        /\ UNCHANGED <<asked, request, outcome, answer>>
    BY <1>1 DEF vars, lookup
  <2>2. /\ Records' = Records
        /\ IngestList' = IngestList /\ ListOfWorkers' = ListOfWorkers
        /\ Constructed(IngestList)' = Constructed(IngestList)
        /\ Constructed(ListOfWorkers)' = Constructed(ListOfWorkers)
        /\ (Described' <=> Described)
    BY <2>1, Unmoved
  <2>3. TypeInv' /\ ReadyInv' /\ OptionsInv' /\ PendingInv'
    BY <2>1, <2>2 DEF LookupInv, TypeInv, ReadyInv, OptionsInv, PendingInv
  <2>4. LookupFindsStored' /\ RequestIsFresh' /\ NoIndexOutside'
    BY <2>1, <2>2 DEF LookupInv, LookupFindsStored, Printable, KeyOf, RequestIsFresh, NoIndexOutside
  <2> QED
    BY <2>1, <2>3, <2>4, StoredStays DEF LookupInv
<1> QED
  BY <1>1, ConstructStep, InsertStep, RefusedStep, LookupStep, ReturnStep DEF Next

\* The invariant holds over every sequence of calls.
THEOREM Invariance == Spec => []LookupInv
  BY InitInv, NextInv, PTL DEF Spec

-----------------------------------------------------------------------------
(* The properties. *)

\* Whatever the hash and the application's expression for the server's list, a
\* record that is routed by the ingestor is at the rank the routing table names
\* for its shard key, as long as the server lists an address for every rank and
\* a rank, not 0, for every shard (Described).
THEOREM StoredByOwnerCorrect == Spec => []StoredByOwner
<1>1. LookupInv => StoredByOwner
  BY DEF LookupInv
<1> QED
  BY <1>1, Invariance, PTL

\* An answered lookup returns all the records stored with the key that pass the
\* filter, and no others, over any number of insertions, lookups and changes of
\* the options.
THEOREM LookupCorrect == Spec => []LookupFindsStored
<1>1. LookupInv => LookupFindsStored
  BY DEF LookupInv
<1> QED
  BY <1>1, Invariance, PTL

\* No expression or option of an earlier call gets into a request.
THEOREM RequestCorrect == Spec => []RequestIsFresh
<1>1. LookupInv => RequestIsFresh
  BY DEF LookupInv
<1> QED
  BY <1>1, Invariance, PTL

\* The constructors' comparison of the routing table with the number of workers
\* is enough: only a rank of 0 is routed outside of the queues.
THEOREM NoIndexOutsideCorrect == Spec => []NoIndexOutside
<1>1. LookupInv => NoIndexOutside
  BY DEF LookupInv
<1> QED
  BY <1>1, Invariance, PTL
=============================================================================
