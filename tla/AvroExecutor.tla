----------------------------- MODULE AvroExecutor -----------------------------
(***************************************************************************)
(* Decoding and encoding a batch of records with several threads           *)
(* (decode, decodeAny and encode of src/gpudb/Avro.hpp, Executor::run of   *)
(* src/gpudb/Avro.cpp).  The batch is cut into one part for each thread;   *)
(* each task works through its part and stops at the first record it       *)
(* cannot convert; run() waits for all of them and throws one error.       *)
(*                                                                         *)
(* Which records cannot be converted is a constant of the call.  A thread  *)
(* the system cannot create is left out.                                   *)
(***************************************************************************)
EXTENDS Integers, FiniteSets

CONSTANTS MaxRecords, MaxThreads   \* bounds: the size of a batch, m_threadCount

ASSUME BoundsAssumption == MaxRecords \in Nat /\ MaxThreads \in Nat

VARIABLES
    count,      \* records of the batch
    threads,    \* threadCount
    bad,        \* the records that cannot be converted
    pc,         \* "called", "creating", "returned", "thrown" or "refused"
    created,    \* threads created
    task,       \* task[i]: "waiting", "running" or "ended"
    at,         \* at[i]: the record task i is to convert next
    error,      \* errors[i]: the record its text is about, or NoError
    converted,  \* converted[r]: how often record r was converted
    thrown      \* the record the exception is about, or NoError

vars == <<count, threads, bad, pc, created, task, at, error, converted, thrown>>
batch == <<count, threads, bad>>

NoError == -1

Records == 0..(count - 1)
Tasks == 0..(threads - 1)

Least(S) == CHOOSE r \in S : \A q \in S : r <= q

-----------------------------------------------------------------------------
(* The part of the batch for each task. *)

PartitionSize == count \div threads
PartitionExtras == count % threads

ExtrasNone(i) == 0 \* mutant: the remainder of the division is forgotten
Extras(i) == IF i < PartitionExtras THEN i ELSE PartitionExtras

PartitionStart(i) == i * PartitionSize + Extras(i)
PartitionEnd(i) == (i + 1) * PartitionSize + Extras(i + 1)

-----------------------------------------------------------------------------

Init ==
    /\ count \in 0..MaxRecords
    /\ threads \in 0..MaxThreads
    /\ bad \in SUBSET Records
    /\ pc = "called"
    /\ created = 0
    /\ task = [i \in Tasks |-> "waiting"]
    /\ at = [i \in Tasks |-> 0]
    /\ error = [i \in Tasks |-> NoError]
    /\ converted = [r \in Records |-> 0]
    /\ thrown = NoError

\* One thread, or nothing to share out: in the thread of the caller.
Direct ==
    /\ pc = "called"
    /\ threads = 1 \/ count <= 1
    /\ IF bad = {}
       THEN /\ pc' = "returned"
            /\ converted' = [r \in Records |-> 1]
            /\ UNCHANGED thrown
       ELSE /\ pc' = "thrown"
            /\ thrown' = Least(bad)
            /\ converted' = [r \in Records |-> IF r < Least(bad) THEN 1 ELSE 0]
    /\ UNCHANGED <<batch, created, task, at, error>>

\* std::invalid_argument
Refuse ==
    /\ pc = "called"
    /\ count > 1 /\ threads < 1
    /\ pc' = "refused"
    /\ UNCHANGED <<batch, created, task, at, error, converted, thrown>>

Run ==
    /\ pc = "called"
    /\ count > 1 /\ threads > 1
    /\ pc' = "creating"
    /\ at' = [i \in Tasks |-> PartitionStart(i)]
    /\ UNCHANGED <<batch, created, task, error, converted, thrown>>

CreateThread ==
    /\ pc = "creating"
    /\ created < threads
    /\ created' = created + 1
    /\ task' = [task EXCEPT ![created] = "running"]
    /\ UNCHANGED <<batch, pc, at, error, converted, thrown>>

Convert(i) ==
    /\ task[i] = "running"
    /\ at[i] < PartitionEnd(i) /\ at[i] \notin bad
    /\ converted' = [converted EXCEPT ![at[i]] = @ + 1]
    /\ at' = [at EXCEPT ![i] = @ + 1]
    /\ UNCHANGED <<batch, pc, created, task, error, thrown>>

\* runTask catches the exception of its task.
TaskFails(i) ==
    /\ task[i] = "running"
    /\ at[i] < PartitionEnd(i) /\ at[i] \in bad
    /\ error' = [error EXCEPT ![i] = at[i]]
    /\ task' = [task EXCEPT ![i] = "ended"]
    /\ UNCHANGED <<batch, pc, created, at, converted, thrown>>

TaskEnds(i) ==
    /\ task[i] = "running"
    /\ at[i] = PartitionEnd(i)
    /\ task' = [task EXCEPT ![i] = "ended"]
    /\ UNCHANGED <<batch, pc, created, at, error, converted, thrown>>

JoinedLast == task[threads - 1] = "ended" \* mutant: waits for the last thread only
Joined == \A i \in Tasks : task[i] = "ended"

\* join_all(), then the first error in the order of the tasks.
Join ==
    /\ pc = "creating"
    /\ created = threads /\ Joined
    /\ LET failed == {i \in Tasks : error[i] # NoError}
       IN  IF failed = {}
           THEN pc' = "returned" /\ UNCHANGED thrown
           ELSE pc' = "thrown" /\ thrown' = error[Least(failed)]
    /\ UNCHANGED <<batch, created, task, at, error, converted>>

\* The call is over and no thread is left.
Over ==
    /\ pc \in {"returned", "thrown", "refused"}
    /\ \A i \in Tasks : task[i] # "running"
    /\ UNCHANGED vars

Next ==
    \/ Direct \/ Refuse \/ Run \/ CreateThread \/ Join
    \/ \E i \in Tasks : Convert(i) \/ TaskFails(i) \/ TaskEnds(i)
    \/ Over

Spec == Init /\ [][Next]_vars

-----------------------------------------------------------------------------

TypeOK ==
    /\ count \in 0..MaxRecords /\ threads \in 0..MaxThreads
    /\ bad \subseteq Records
    /\ pc \in {"called", "creating", "returned", "thrown", "refused"}
    /\ created \in 0..threads
    /\ task \in [Tasks -> {"waiting", "running", "ended"}]
    /\ at \in [Tasks -> 0..count]
    /\ error \in [Tasks -> Records \cup {NoError}]
    /\ converted \in [Records -> Nat]
    /\ thrown \in Records \cup {NoError}

(* What a call does with several threads is what one thread does: it returns  *)
(* only if every record was converted, each once, and otherwise throws the    *)
(* error of the first bad record of the batch, whichever task failed first.   *)
SameAsSequential ==
    /\ pc = "returned" => bad = {} /\ \A r \in Records : converted[r] = 1
    /\ pc = "thrown" => bad # {} /\ thrown = Least(bad)

(* No two threads ever work on the same record, not even on one that fails,   *)
(* and none works on a record when the call is over: the caller owns the      *)
(* vectors again.                                                             *)
AtWork(i) == task[i] = "running" /\ at[i] < PartitionEnd(i)
NoSharedRecord ==
    /\ \A i, j \in Tasks : i # j /\ AtWork(i) /\ AtWork(j) => at[i] # at[j]
    /\ \A r \in Records : converted[r] <= 1
    /\ pc \in {"returned", "thrown", "refused"} => \A i \in Tasks : task[i] # "running"
=============================================================================
