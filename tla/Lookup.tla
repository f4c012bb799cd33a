-------------------------------- MODULE Lookup --------------------------------
(***************************************************************************)
(* A table that is filled through a GPUdbIngestor and read by key through  *)
(* a RecordRetriever (src/gpudb/RecordRetriever.cpp, the constructor and   *)
(* the routing of src/gpudb/GPUdbIngestor.cpp).  Each works out for itself *)
(* which worker a record is at, from the type, the list of workers and the *)
(* routing table; the retriever keeps its options from call to call.       *)
(*                                                                         *)
(* Here a record inserted is a record stored: what becomes of it between   *)
(* the two is in Ingestor.  Rank 0 is the head node.  A worker answers     *)
(* from the records it has, the head node from all.                        *)
(***************************************************************************)
EXTENDS RecordKeys, FiniteSets

CONSTANTS
    Types,      \* the types to consider: kinds, pk, sk, track
    Servers,    \* the servers to consider
    MaxStored,  \* bound: records in the table
    Nothing, Own  \* no expression, and one of the application's own

\* groups: how many addresses the server lists for each rank; table: the rank
\* of each of its shards; accepted: the addresses the application's regular
\* expression accepts.
ASSUME ServersAssumption ==
    \A s \in Servers :
        /\ {s.multihead, s.replicated} \subseteq BOOLEAN
        /\ s.groups \in Seq(Nat) \ {<<>>}
        /\ s.table \in Seq(Nat)

\* The server takes a shard key beside a primary key only as a part of it. A
\* track table has columns.
ASSUME TypesAssumption ==
    \A type \in Types :
        /\ type.kinds \in Seq(Kinds) /\ type.track \in BOOLEAN
        /\ {type.pk, type.sk} \subseteq SUBSET DOMAIN type.kinds
        /\ type.pk # {} => type.sk \subseteq type.pk
        /\ type.track => type.kinds # <<>>

ASSUME BoundAssumption == MaxStored \in Nat

RecordsOf(type) == {r \in [Columns(type) -> UNION {Values(k) : k \in Kinds}] :
                        \A c \in Columns(type) : r[c] \in Values(type.kinds[c])}

\* The envelope expression of a lookup.
Filters == {"", "column 1 is one"}

ASSUME HashAssumption ==
    \A type \in Types : \A r \in RecordsOf(type) :
        \A cols \in {PrimaryKeyColumns(type), ShardKeyColumns(type)} :
            Hash(Key(cols, r)) \in Int

ASSUME NothingAssumption ==
    \A type \in Types : Nothing \notin [record : RecordsOf(type), filter : Filters]

VARIABLES
    t,          \* the type of the table
    server,
    ingestor,   \* "none", "failed", "ready"
    retriever,
    options,    \* m_retrieval_options
    stored,     \* records with the rank they are at
    outside,    \* an index outside of the queues was used
    given,      \* options the application gave last (history)
    asked,      \* record and filter of the running lookup, or Nothing
    request,    \* what it sent and whereto, or Nothing
    outcome,    \* of it: "none", "threw", "threw pointer", "lost", "answered"
    answer      \* the records found

lookup == <<asked, request, outcome, answer>>
vars == <<t, server, ingestor, retriever, options, stored, outside, given, lookup>>

Records == RecordsOf(t)

Passes(r, filter) == filter = "" \/ r[1] = "one"

\* The options an application may give; "other" is any that is no expression.
GivenOptions == [expression : {Nothing, Own}, other : BOOLEAN]

-----------------------------------------------------------------------------
(* What the constructors of both have in common. *)

ListOfWorkers ==
    IF server.multihead THEN WorkerList(server.groups, server.accepted) ELSE <<>>

\* The ranks behind m_worker_queues.
Queues(list) == IF list = <<>> THEN <<0>> ELSE list

\* m_routing_table
Routing(list) == IF list = <<>> THEN <<>> ELSE server.table

EnoughLoose(list) == \A rank \in Range(Routing(list)) : rank <= Len(list) + 1 \* mutant: one too many
Enough(list) == \A rank \in Range(Routing(list)) : rank <= Len(list)

Constructed(list) ==
    IF \/ server.multihead /\ ListFails(server.groups, server.accepted)
       \/ BuilderFails(t)
       \/ ~Enough(list)
    THEN "failed" ELSE "ready"

\* A replicated table is filled through the head node.
IngestList == IF server.replicated THEN <<>> ELSE ListOfWorkers

-----------------------------------------------------------------------------

Init ==
    /\ server \in Servers
    /\ t \in Types
    /\ ingestor = "none" /\ retriever = "none"
    /\ options = [expression |-> Nothing, other |-> FALSE, fast |-> FALSE]
    /\ given = [expression |-> Nothing, other |-> FALSE]
    /\ stored = {}
    /\ outside = FALSE
    /\ asked = Nothing /\ request = Nothing /\ outcome = "none" /\ answer = {}

Idle == asked = Nothing

ConstructIngestor ==
    /\ Idle
    /\ ingestor = "none"
    /\ ingestor' = Constructed(IngestList)
    /\ UNCHANGED <<t, server, retriever, options, stored, outside, given, lookup>>

\* The database's own placement of a record that comes to the given rank.
Placed(r, rank) ==
    IF server.replicated THEN {DOMAIN server.groups}
    ELSE IF rank # 0 THEN {{rank}}
    ELSE IF server.table = <<>> \/ ShardKeyColumns(t) = <<>>
    THEN {{i} : i \in DOMAIN server.groups}
    ELSE {{Route(server.table, ShardKeyColumns(t), r)}}

\* GPUdbIngestor::insert.  Without a routing table the first queue, without a
\* shard key any, else the queue of the key's shard.
Chosen(r) ==
    IF Routing(IngestList) = <<>> THEN {1}
    ELSE IF IngestColumns(t) = <<>> THEN DOMAIN Queues(IngestList)
    ELSE {Route(Routing(IngestList), IngestColumns(t), r)}

\* What cannot be parsed does not come into the table: its key throws, or the
\* database refuses it.
Insert(r) ==
    /\ Idle
    /\ ingestor = "ready"
    /\ "bad" \notin Range(r)
    /\ Cardinality(stored) < MaxStored
    /\ \E i \in Chosen(r) :
         IF i \in DOMAIN Queues(IngestList)
         THEN /\ \E ranks \in Placed(r, Queues(IngestList)[i]) :
                   stored' = stored \cup {[record |-> r, rank |-> rank] : rank \in ranks}
              /\ UNCHANGED outside
         ELSE outside' = TRUE /\ UNCHANGED stored
    /\ UNCHANGED <<t, server, ingestor, retriever, options, given, lookup>>

SetOptions(o) ==
    options' = [expression |-> o.expression, other |-> o.other, fast |-> TRUE]

ConstructRetriever(o) ==
    /\ Idle
    /\ retriever = "none"
    /\ retriever' = Constructed(ListOfWorkers)
    /\ SetOptions(o)
    /\ given' = o
    /\ UNCHANGED <<t, server, ingestor, stored, outside, lookup>>

SetRetrieverOptions(o) ==
    /\ Idle
    /\ retriever = "ready"
    /\ SetOptions(o)
    /\ given' = o
    /\ UNCHANGED <<t, server, ingestor, retriever, stored, outside, lookup>>

Ask(r, filter) ==
    /\ Idle
    /\ retriever = "ready"
    /\ asked' = [record |-> r, filter |-> filter]
    /\ UNCHANGED <<t, server, ingestor, retriever, stored, given>>

\* `throw new`: a pointer, which no handler for GPUdbException takes.
GetByKeyUnsharded(r, filter) ==
    /\ Ask(r, filter)
    /\ ShardKeyColumns(t) = <<>>
    /\ request' = Nothing
    /\ outcome' = "threw pointer" /\ answer' = {}
    /\ UNCHANGED <<options, outside>>

GetByKeyRefused(r, filter) ==
    /\ Ask(r, filter)
    /\ KeyFails(t, ShardKeyColumns(t), r)
    /\ request' = Nothing
    /\ outcome' = "threw" /\ answer' = {}
    /\ UNCHANGED <<options, outside>>

Matches(expression, r) ==
    \A i \in DOMAIN expression :
        LET e == expression[i]
        IN  IF e.isNull THEN r[e.column] = "null" ELSE r[e.column] \in {e.value} \ {"null"}

Garbled(expression) == \E i \in DOMAIN expression : expression[i].value = "cut short"

Found(rank, e) ==
    {s.record : s \in {s \in stored : /\ rank \in {0, s.rank}
                                      /\ Matches(e.key, s.record)
                                      /\ Passes(s.record, e.filter)}}

\* An expression with a text that ends too early may mean anything.
Answers(rank, e) ==
    IF Garbled(e.key) THEN SUBSET {s.record : s \in stored} ELSE {Found(rank, e)}

KeepExpression(e) == \* mutant: std::map::insert
    IF options.expression = Nothing THEN [options EXCEPT !.expression = e] ELSE options
PutExpression(e) == [options EXCEPT !.expression = e]

\* Without a routing table the lookup goes to the head node.
GetRecordsByKey(r, filter) ==
    /\ Ask(r, filter)
    /\ LET cols == ShardKeyColumns(t)
           list == ListOfWorkers
           i == IF Routing(list) = <<>> THEN 0 ELSE Route(Routing(list), cols, r)
           rank == IF i = 0 THEN 0 ELSE Queues(list)[i]
       IN  /\ cols # <<>> /\ ~KeyFails(t, cols, r)
           /\ options' = PutExpression([key |-> Expression(cols, r), filter |-> filter])
           /\ IF Routing(list) = <<>> \/ i \in DOMAIN Queues(list)
              THEN /\ request' = [rank |-> rank, options |-> options']
                   /\ \/ outcome' = "answered" /\ answer' \in Answers(rank, options'.expression)
                      \/ outcome' = "lost" /\ answer' = {}
                   /\ UNCHANGED outside
              ELSE outside' = TRUE /\ request' = Nothing /\ outcome' = "none" /\ answer' = {}

\* getRecordsByKey returns or throws.
Return ==
    /\ ~Idle
    /\ asked' = Nothing /\ request' = Nothing
    /\ outcome' = "none" /\ answer' = {}
    /\ UNCHANGED <<t, server, ingestor, retriever, options, stored, outside, given>>

Next ==
    \/ ConstructIngestor
    \/ \E r \in Records : Insert(r)
    \/ \E o \in GivenOptions : ConstructRetriever(o) \/ SetRetrieverOptions(o)
    \/ \E r \in Records, filter \in Filters :
         \/ GetByKeyUnsharded(r, filter)
         \/ GetByKeyRefused(r, filter)
         \/ GetRecordsByKey(r, filter)
    \/ Return

Spec == Init /\ [][Next]_vars

-----------------------------------------------------------------------------

Sharded == ShardKeyColumns(t) # <<>> /\ ~server.replicated
KeyOf(r) == [i \in DOMAIN ShardKeyColumns(t) |-> r[ShardKeyColumns(t)[i]]]

\* Every rank has an address, and every shard a rank.
Described ==
    0 \notin Range(server.groups) /\ 0 \notin Range(server.table) /\ server.table # <<>>

(* The ingestor's routing agrees with the server's shards: a record that is   *)
(* queued for a worker is at the rank the routing table names for its key,    *)
(* whichever of the two key builders the ingestor kept, and also for a track  *)
(* table and for a hash below zero.                                           *)
StoredByOwner ==
    Described /\ Sharded =>
        \A s \in stored : s.rank = Route(server.table, ShardKeyColumns(t), s.record)

(* What the ingestor or the head node stored, the retriever finds: a lookup   *)
(* that is answered returns exactly the records with the key that pass the    *)
(* filter, nulls in the key included.  Keys with a double that takes more     *)
(* digits than are printed, whose text is that of another number, and with a  *)
(* text that has a quotation mark in it, are left out.                        *)
Printable(r) == Range(KeyOf(r)) \cap {"fine", "quoted"} = {}
LookupFindsStored ==
    Described /\ outcome = "answered" /\ Printable(asked.record) =>
        answer = {s.record : s \in {s \in stored : /\ KeyOf(s.record) = KeyOf(asked.record)
                                                   /\ Passes(s.record, asked.filter)}}

(* A lookup sends its own expression and the options set last, though it      *)
(* leaves its expression behind in the options: over failed lookups, changes  *)
(* of the options and options that hold an expression of the application's    *)
(* (RecordRetriever.hpp:74-77).                                               *)
RequestIsFresh ==
    request # Nothing =>
        request.options = [expression |-> [key |-> Expression(ShardKeyColumns(t), asked.record),
                                           filter |-> asked.filter],
                           other |-> given.other,
                           fast |-> TRUE]

(* With ranks from 1 in the routing table no record and no lookup is routed   *)
(* outside of the queues, also when the list of workers is shorter than the   *)
(* server's.  A rank of 0 is not looked for.                                  *)
NoIndexOutside == outside => 0 \in Range(server.table)
=============================================================================
