------------------------------- MODULE Ingestor -------------------------------
(***************************************************************************)
(* gpudb::GPUdbIngestor (src/gpudb/GPUdbIngestor.cpp) and its WorkerQueues *)
(* (src/gpudb/utils/GPUdbMultiHeadIOUtils.cpp): records are put into the   *)
(* queue of the worker their shard key routes to; a queue that reaches the *)
(* batch size, and every queue on flush(), goes to its worker in one       *)
(* /insert/records call.  The ingestor belongs to one thread; only the     *)
(* list of errors may be taken by another one.                             *)
(*                                                                         *)
(* The database's answer is a free choice: it stores the batch, refuses    *)
(* it, lists the records it finds incorrect, or is lost on the way.  The   *)
(* table may have a primary key, different for each record: a record that  *)
(* is in the table already is then replaced, or skipped, as the insert     *)
(* options say.                                                            *)
(***************************************************************************)
EXTENDS Naturals, SequencesExt

CONSTANTS
    Records,
    W,           \* number of workers: m_worker_queues.size()
    Home,        \* the worker a record's shard key routes to, 0 without a shard key
    BatchSize,   \* m_batch_size
    Modes,       \* insert options to consider: "fail", "individual", "partial"
    MaxVector,   \* bound: records in one call of insert
    MaxAttempts  \* bound: times a record is given to insert

Workers == 1..W

ASSUME WorkersAssumption == W \in Nat \ {0} /\ Home \in [Records -> 0..W]
ASSUME BatchSizeAssumption == BatchSize \in Nat \ {0}
ASSUME BoundsAssumption == MaxVector \in Nat /\ MaxAttempts \in Nat
ASSUME ModesAssumption == Modes \subseteq {"fail", "individual", "partial"}

VARIABLES
    table,             \* "noKey": no primary key; "upsert", "skip": with one, and a record
                       \* that is there already replaces it, or is skipped
    mode,              \* "individual": m_return_individual_errors; "partial": with allow_partial_batch
    simulateErrorMode, \* m_simulate_error_mode
    queues,            \* m_worker_queues: the records in each
    errorList,         \* m_error_list: the records in it
    unlisted,          \* incorrect records of the answer at hand, not in the list yet
    countInserted,     \* m_count_inserted
    countUpdated,      \* m_count_updated
    pc,                \* where the call under way is
    remaining,         \* records of the running insert that are still to be queued
    nextQueue,         \* iterator of flush()
    wire,              \* arguments of the private flush
    result,            \* how the last call ended
    stored,            \* the records each worker has stored
    unheard,           \* records stored by a call whose answer was lost (history)
    attempts,          \* times each record was given to insert (history)
    acked,             \* records whose storing the database confirmed (history)
    handedBack,        \* records in exceptions, not given again since (history)
    takenErrors,       \* records in the lists getErrors returned (history)
    skipped,           \* records an exception left behind without naming them (history)
    dropped,           \* records insert ignored in error mode (history)
    lost               \* records that were queued and vanished (history)

places == <<acked, handedBack, takenErrors, skipped, dropped, lost>>
call == <<pc, remaining, nextQueue, wire, result>>
options == <<mode, table>>
counts == <<countInserted, countUpdated>>
errors == <<errorList, unlisted>>
database == <<stored, unheard>>
vars == <<options, simulateErrorMode, queues, errors, counts, call, database,
          attempts, places>>

NoWire == [worker |-> 0, batch |-> <<>>]

\* The vectors an application may pass: new records, and records handed back to it.
Vectors ==
    UNION {{v \in [1..n -> {r \in Records : attempts[r] < MaxAttempts
                                  /\ (attempts[r] = 0 \/ r \in handedBack)}] :
              IsInjective(v)} : n \in 1..MaxVector}

-----------------------------------------------------------------------------

Init ==
    /\ mode \in Modes
    /\ table \in {"noKey", "upsert", "skip"}
    /\ simulateErrorMode = FALSE
    /\ queues = [w \in Workers |-> <<>>]
    /\ errorList = {}
    /\ unlisted = {}
    /\ countInserted = 0
    /\ countUpdated = 0
    /\ pc = "idle"
    /\ remaining = <<>>
    /\ nextQueue = 1
    /\ wire = NoWire
    /\ result = "none"
    /\ stored = [w \in Workers |-> {}]
    /\ unheard = {}
    /\ attempts = [r \in Records |-> 0]
    /\ acked = {} /\ handedBack = {} /\ takenErrors = {}
    /\ skipped = {} /\ dropped = {} /\ lost = {}

(* insert(record) and insert(records). *)

Insert(v) ==
    /\ pc = "idle"
    /\ pc' = "insert"
    /\ remaining' = v
    /\ result' = "none"
    /\ attempts' = [r \in Records |-> attempts[r] + IF r \in ToSet(v) THEN 1 ELSE 0]
    /\ handedBack' = handedBack \ ToSet(v)
    /\ UNCHANGED <<options, simulateErrorMode, queues, errors, counts, nextQueue,
                   wire, database, acked, takenErrors, skipped, dropped, lost>>

\* Error mode: the record is not accepted, and nothing says so.
InsertIgnored ==
    /\ pc = "insert" /\ remaining # <<>>
    /\ simulateErrorMode
    /\ dropped' = dropped \cup {Head(remaining)}
    /\ remaining' = Tail(remaining)
    /\ UNCHANGED <<options, simulateErrorMode, queues, errors, counts, pc, nextQueue,
                   wire, result, database, attempts, acked, handedBack, takenErrors,
                   skipped, lost>>

\* The record key cannot be built: a GPUdbException that insert(records) does
\* not catch, so that neither this record nor the ones after it are named.
InsertKeyRefused ==
    /\ pc = "insert" /\ remaining # <<>>
    /\ ~simulateErrorMode
    /\ Home[Head(remaining)] # 0
    /\ skipped' = skipped \cup ToSet(remaining)
    /\ remaining' = <<>>
    /\ pc' = "idle"
    /\ result' = "keyRefused"
    /\ UNCHANGED <<options, simulateErrorMode, queues, errors, counts, nextQueue,
                   wire, database, attempts, acked, handedBack, takenErrors, dropped, lost>>

\* The worker of a record: by its shard key, or any one.
WorkerOfNext(r) == IF Home[r] = 0 THEN Workers ELSE {(Home[r] % W) + 1} \* mutant: off by one
WorkerOf(r) == IF Home[r] = 0 THEN Workers ELSE {Home[r]}

FullLate(q) == Len(q) > BatchSize \* mutant: one record too late
Full(q) == Len(q) = BatchSize

\* WorkerQueue::insert: the record is queued; a full queue goes out at once.
InsertQueued(w) ==
    /\ pc = "insert" /\ remaining # <<>>
    /\ ~simulateErrorMode
    /\ w \in WorkerOf(Head(remaining))
    /\ LET q == Append(queues[w], Head(remaining))
       IN  IF Full(q)
           THEN /\ queues' = [queues EXCEPT ![w] = <<>>]
                /\ wire' = [worker |-> w, batch |-> q]
                /\ pc' = "sendInsert"
           ELSE /\ queues' = [queues EXCEPT ![w] = q]
                /\ UNCHANGED <<wire, pc>>
    /\ remaining' = Tail(remaining)
    /\ UNCHANGED <<options, simulateErrorMode, errors, counts, nextQueue, result,
                   database, attempts, places>>

InsertReturns ==
    /\ pc = "insert" /\ remaining = <<>>
    /\ pc' = "idle"
    /\ result' = "inserted"
    /\ UNCHANGED <<options, simulateErrorMode, queues, errors, counts, remaining,
                   nextQueue, wire, database, attempts, places>>

-----------------------------------------------------------------------------
(* flush(): one queue after the other. *)

Flush ==
    /\ pc = "idle"
    /\ pc' = "flush"
    /\ nextQueue' = 1
    /\ result' = "none"
    /\ UNCHANGED <<options, simulateErrorMode, queues, errors, counts, remaining,
                   wire, database, attempts, places>>

\* Error mode: the queue is cleared, whatever is in it.
FlushCleared ==
    /\ pc = "flush" /\ nextQueue \in Workers
    /\ simulateErrorMode
    /\ lost' = lost \cup ToSet(queues[nextQueue])
    /\ queues' = [queues EXCEPT ![nextQueue] = <<>>]
    /\ nextQueue' = nextQueue + 1
    /\ UNCHANGED <<options, simulateErrorMode, errors, counts, pc, remaining, wire,
                   result, database, attempts, acked, handedBack, takenErrors, skipped, dropped>>

FlushQueueStuck == \* mutant: sends the queue and stays at it
    /\ pc = "flush" /\ nextQueue \in Workers
    /\ ~simulateErrorMode
    /\ queues' = [queues EXCEPT ![nextQueue] = <<>>]
    /\ UNCHANGED nextQueue
    /\ IF queues[nextQueue] = <<>>
       THEN UNCHANGED <<wire, pc>>
       ELSE /\ wire' = [worker |-> nextQueue, batch |-> queues[nextQueue]]
            /\ pc' = "sendFlush"
    /\ UNCHANGED <<options, simulateErrorMode, errors, counts, remaining, result,
                   database, attempts, places>>
FlushQueue ==
    /\ pc = "flush" /\ nextQueue \in Workers
    /\ ~simulateErrorMode
    /\ queues' = [queues EXCEPT ![nextQueue] = <<>>]
    /\ nextQueue' = nextQueue + 1
    /\ IF queues[nextQueue] = <<>>
       THEN UNCHANGED <<wire, pc>>
       ELSE /\ wire' = [worker |-> nextQueue, batch |-> queues[nextQueue]]
            /\ pc' = "sendFlush"
    /\ UNCHANGED <<options, simulateErrorMode, errors, counts, remaining, result,
                   database, attempts, places>>

FlushEndEarly == nextQueue = W \* mutant: leaves out the last queue
FlushEnd == nextQueue > W
FlushReturns ==
    /\ pc = "flush" /\ FlushEnd
    /\ pc' = "idle"
    /\ result' = "flushed"
    /\ UNCHANGED <<options, simulateErrorMode, queues, errors, counts, remaining,
                   nextQueue, wire, database, attempts, places>>

-----------------------------------------------------------------------------
(* The private flush(queue, url): one /insert/records call to the worker.   *)

Sending == pc \in {"sendInsert", "sendFlush"}
Batch == ToSet(wire.batch)

\* What the database may find incorrect: listed one by one, on request only.
BadSets == IF mode = "fail" THEN {{}} ELSE SUBSET Batch

\* Without allow_partial_batch one incorrect record keeps the whole batch out.
Accepted(bad) == IF bad # {} /\ mode # "partial" THEN {} ELSE Batch \ bad

Store(bad) == stored' = [stored EXCEPT ![wire.worker] = @ \cup Accepted(bad)]

InTable == UNION {stored[w] : w \in Workers}

\* What the answer says of the accepted records: replaced and skipped ones are
\* not inserted.
Inserted(bad) == IF table = "noKey" THEN Accepted(bad) ELSE Accepted(bad) \ InTable
Updated(bad) == IF table = "upsert" THEN Accepted(bad) \cap InTable ELSE {}

\* The answer arrives: its counts are added.
AddCountsOfSent(bad) == \* mutant: counts what was sent
    /\ countInserted' = countInserted + Len(wire.batch)
    /\ UNCHANGED countUpdated
AddCounts(bad) ==
    /\ countInserted' = countInserted + Cardinality(Inserted(bad))
    /\ countUpdated' = countUpdated + Cardinality(Updated(bad))

AnswerArrives(bad) ==
    /\ Sending
    /\ Store(bad)
    /\ AddCounts(bad)
    /\ unlisted' = bad
    /\ acked' = acked \cup Accepted(bad)
    /\ lost' = lost \cup ((Batch \ bad) \ Accepted(bad))
    /\ pc' = IF pc = "sendInsert" THEN "listInsert" ELSE "listFlush"
    /\ wire' = NoWire
    /\ UNCHANGED <<options, simulateErrorMode, queues, errorList, remaining, nextQueue, result,
                   unheard, attempts, handedBack, takenErrors, skipped, dropped>>

\* Its errors go to the list one by one, each under the lock of the list; the
\* first turns error mode on, unless partial batches are allowed.
Listing == pc \in {"listInsert", "listFlush"}

ModeAfterNever == simulateErrorMode \* mutant: never turns it on
ModeAfter == simulateErrorMode \/ mode = "individual"

AddError(r) ==
    /\ Listing
    /\ r \in unlisted
    /\ simulateErrorMode' = ModeAfter
    /\ errorList' = errorList \cup {r}
    /\ unlisted' = unlisted \ {r}
    /\ UNCHANGED <<options, queues, counts, call, database, attempts, places>>

AnswerDone ==
    /\ Listing /\ unlisted = {}
    /\ pc' = IF pc = "listInsert" THEN "insert" ELSE "flush"
    /\ UNCHANGED <<options, simulateErrorMode, queues, errors, counts, remaining,
                   nextQueue, wire, result, database, attempts, places>>

\* GPUdbInsertionException with the batch, to which insert(records) adds the
\* records it has not come to.
HandBackShort == Batch \cup (IF remaining = <<>> THEN {} ELSE ToSet(Tail(remaining))) \* mutant: off by one
HandBack == Batch \cup ToSet(remaining)

ThrowInsertionException ==
    /\ handedBack' = handedBack \cup HandBack
    /\ remaining' = <<>>
    /\ pc' = "idle"
    /\ wire' = NoWire
    /\ result' = "insertionException"

\* The call fails, or the database answers with an error.
SendFails ==
    /\ Sending
    /\ ThrowInsertionException
    /\ UNCHANGED <<options, simulateErrorMode, queues, errors, counts, nextQueue,
                   database, attempts, acked, takenErrors, skipped, dropped, lost>>

\* The database does its part, and the answer is lost or comes too late.
AnswerLost(bad) ==
    /\ Sending
    /\ Store(bad)
    /\ unheard' = unheard \cup Accepted(bad)
    /\ ThrowInsertionException
    /\ UNCHANGED <<options, simulateErrorMode, queues, errors, counts, nextQueue,
                   attempts, acked, takenErrors, skipped, dropped, lost>>

\* getErrors(), by any thread: takes the list and leaves an empty one.
GetErrors ==
    /\ errorList # {}
    /\ takenErrors' = takenErrors \cup errorList
    /\ errorList' = {}
    /\ UNCHANGED <<options, simulateErrorMode, queues, unlisted, counts, call, database,
                   attempts, acked, handedBack, skipped, dropped, lost>>

-----------------------------------------------------------------------------

Step ==
    \/ InsertIgnored \/ InsertKeyRefused \/ InsertReturns
    \/ \E w \in Workers : InsertQueued(w)
    \/ FlushCleared \/ FlushQueue \/ FlushReturns
    \/ \E bad \in BadSets : AnswerArrives(bad) \/ AnswerLost(bad)
    \/ \E r \in Records : AddError(r)
    \/ AnswerDone
    \/ SendFails

Next ==
    \/ \E v \in Vectors : Insert(v)
    \/ Flush
    \/ Step
    \/ GetErrors

\* Fairness: the thread inside a call goes on, and every network call ends.
\* The application is never obliged to call.
Spec == Init /\ [][Next]_vars /\ WF_vars(Step)

-----------------------------------------------------------------------------

Given == {r \in Records : attempts[r] > 0}

(* The places of a record: each index it has in the vector, in a queue or in  *)
(* the batch under way, and each of these sets it is in.                      *)
Sets == [acked |-> acked, handedBack |-> handedBack, unlisted |-> unlisted,
         errorList |-> errorList, takenErrors |-> takenErrors, skipped |-> skipped,
         dropped |-> dropped, lost |-> lost]

Indices(q, r) == {i \in DOMAIN q : q[i] = r}

PlacesOf(r) ==
    {<<"remaining", 0, i>> : i \in Indices(remaining, r)}
    \cup (UNION {{<<"queue", w, i>> : i \in Indices(queues[w], r)} : w \in Workers})
    \cup {<<"wire", 0, i>> : i \in Indices(wire.batch, r)}
    \cup {<<s, 0, 0>> : s \in {n \in DOMAIN Sets : r \in Sets[n]}}

(* Every record given to insert is in exactly one place: still to be queued,  *)
(* once in one queue, on the wire, stored and confirmed, handed back by an    *)
(* exception, about to be listed as an error, listed or taken with the list   *)
(* (which getErrors may take between two of them), or in one of the holes:    *)
(* left behind by a bad key, ignored or cleared in error mode. So no          *)
(* interleaving of batches, failures and retries loses a record outside error *)
(* mode, nor makes the application give one twice that is still queued.       *)
InOnePlace == \A r \in Given : Cardinality(PlacesOf(r)) = 1

(* The holes open only with errors asked for one by one: once the errors of   *)
(* an answer are listed, insert and flush lose records in error mode only.    *)
HolesOnlyInErrorMode ==
    ~simulateErrorMode /\ unlisted = {} => dropped \cup lost = {}

(* Between two records no queue holds a full batch: WorkerQueue::insert       *)
(* compares with ==, so a queue that ever got past the batch size would grow  *)
(* without being sent until the next flush().                                 *)
QueueBelowBatch ==
    /\ \A w \in Workers : Len(queues[w]) < BatchSize
    /\ Len(wire.batch) <= BatchSize

(* A record with a shard key is only ever stored by the worker that owns its  *)
(* shard, whichever call sent it: a full queue, flush(), or a retry.          *)
StoredAtHome ==
    \A w \in Workers : \A r \in stored[w] : Home[r] \in {0, w}

(* getCountInserted() and getCountUpdated() over failures and retries: no     *)
(* record is counted twice. Without a primary key the first is the number of  *)
(* records confirmed. With one, a record that is handed back because the      *)
(* answer was lost, and given again, is confirmed and not counted as          *)
(* inserted: it is counted as updated if it replaces the first one, and in    *)
(* neither number if it is skipped.                                           *)
CountIsConfirmed ==
    /\ countInserted = Cardinality(IF table = "noKey" THEN acked ELSE acked \ unheard)
    /\ countUpdated = Cardinality(IF table = "upsert" THEN acked \cap unheard ELSE {})

(* flush() that returns leaves no record in any queue.                        *)
FlushEmptiesQueues ==
    [][(pc = "flush" /\ pc' = "idle") => \A w \in Workers : queues'[w] = <<>>]_vars

(* Every call returns, with or without an exception.                          *)
CallEnds == pc # "idle" ~> pc = "idle"
=============================================================================
