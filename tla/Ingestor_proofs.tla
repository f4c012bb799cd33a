---------------------------- MODULE Ingestor_proofs ----------------------------
(***************************************************************************)
(* Proofs about Ingestor, for every set of records, number of workers,     *)
(* shard of each record, batch size and insert options.                    *)
(***************************************************************************)
EXTENDS Ingestor, FiniteSetTheorems, SequenceTheorems, TLAPS

USE WorkersAssumption, BatchSizeAssumption, BoundsAssumption, ModesAssumption
USE DEF options, counts, errors, database

-----------------------------------------------------------------------------
(* The records in a sequence.                                               *)

\* An empty sequence holds no record.
LEMMA ToSetEmpty == ToSet(<<>>) = {}
  BY DEF ToSet

\* A sequence holds finitely many records, all from the set it is over.
LEMMA ToSetFinite ==
    ASSUME NEW S, NEW s \in Seq(S)
    PROVE  ToSet(s) \subseteq S /\ IsFiniteSet(ToSet(s))
<1>1. Len(s) \in Nat /\ s \in [1..Len(s) -> S] /\ DOMAIN s = 1..Len(s)
  BY LenProperties
<1>2. ToSet(s) \subseteq S
  BY <1>1 DEF ToSet
<1>3. s \in Surjection(1..Len(s), ToSet(s))
  BY <1>1 DEF ToSet, Surjection
<1>4. IsFiniteSet(1..Len(s))
  BY <1>1, FS_Interval
<1> QED
  BY <1>2, <1>3, <1>4, FS_Surjection

\* WorkerQueue::insert adds the record at the end, and nothing else.
LEMMA ToSetAppend ==
    ASSUME NEW S, NEW s \in Seq(S), NEW r \in S
    PROVE  ToSet(Append(s, r)) = ToSet(s) \cup {r}
<1> DEFINE a == Append(s, r)
<1>1. /\ Len(s) \in Nat /\ DOMAIN s = 1..Len(s) /\ DOMAIN a = 1..(Len(s) + 1)
      /\ \A i \in 1..Len(s) : a[i] = s[i]
      /\ a[Len(s) + 1] = r
  BY AppendProperties, LenProperties
<1> HIDE DEF a
<1>2. \A x \in ToSet(a) : x \in ToSet(s) \cup {r}
  BY <1>1 DEF ToSet
<1>3. \A x \in ToSet(s) : x \in ToSet(a)
  BY <1>1 DEF ToSet
<1>4. r \in ToSet(a)
  BY <1>1 DEF ToSet
<1>5. ToSet(a) = ToSet(s) \cup {r}
  BY <1>2, <1>3, <1>4
<1> QED
  BY <1>5 DEF a

\* The loop of insert(records) takes the first record and goes on with the others,
\* among which the first does not come again if the vector has no duplicates.
LEMMA ToSetTail ==
    ASSUME NEW S, NEW s \in Seq(S), s # <<>>
    PROVE  /\ ToSet(s) = {Head(s)} \cup ToSet(Tail(s))
           /\ IsInjective(s) => Head(s) \notin ToSet(Tail(s)) /\ IsInjective(Tail(s))
<1> DEFINE t == Tail(s)
           h == Head(s)
<1>1. /\ Len(s) \in Nat \ {0} /\ DOMAIN s = 1..Len(s) /\ DOMAIN t = 1..(Len(s) - 1)
      /\ \A i \in 1..(Len(s) - 1) : t[i] = s[i + 1]
      /\ h = s[1]
  BY HeadTailProperties, LenProperties, EmptySeq
<1> HIDE DEF t, h
<1>2. \A x \in ToSet(t) : x \in ToSet(s)
  BY <1>1 DEF ToSet
<1>3. h \in ToSet(s)
  BY <1>1 DEF ToSet
<1>4. ASSUME NEW i \in DOMAIN s PROVE s[i] \in {h} \cup ToSet(t)
  <2>1. CASE i = 1
    BY <1>1, <2>1
  <2>2. CASE i # 1
    <3>1. i - 1 \in DOMAIN t /\ t[i - 1] = s[i]
      BY <1>1, <2>2
    <3> QED
      BY <3>1 DEF ToSet
  <2> QED
    BY <2>1, <2>2
<1>5. ToSet(s) = {h} \cup ToSet(t)
  BY <1>2, <1>3, <1>4 DEF ToSet
<1>6. ASSUME IsInjective(s) PROVE h \notin ToSet(t) /\ IsInjective(t)
  <2>1. \A i \in DOMAIN t : t[i] # h
    BY <1>1, <1>6 DEF IsInjective
  <2>2. ASSUME NEW i \in DOMAIN t, NEW j \in DOMAIN t, t[i] = t[j] PROVE i = j
    <3>1. /\ i \in Nat /\ j \in Nat /\ i + 1 \in DOMAIN s /\ j + 1 \in DOMAIN s
          /\ t[i] = s[i + 1] /\ t[j] = s[j + 1]
      BY <1>1
    <3>2. i + 1 = j + 1
      BY <1>6, <2>2, <3>1 DEF IsInjective
    <3> QED
      BY <3>1, <3>2
  <2> QED
    BY <2>1, <2>2 DEF ToSet, IsInjective
<1> QED
  BY <1>5, <1>6 DEF t, h

\* A record that is not in a queue can be added to it and is then in it once.
LEMMA AppendOnce ==
    ASSUME NEW S, NEW s \in Seq(S), NEW r \in S, IsInjective(s), r \notin ToSet(s)
    PROVE  IsInjective(Append(s, r))
<1> DEFINE a == Append(s, r)
<1>1. /\ Len(s) \in Nat /\ DOMAIN s = 1..Len(s) /\ DOMAIN a = 1..(Len(s) + 1)
      /\ \A i \in 1..Len(s) : a[i] = s[i]
      /\ a[Len(s) + 1] = r
  BY AppendProperties, LenProperties
<1> HIDE DEF a
<1>2. \A i \in 1..Len(s) : s[i] # r
  BY <1>1 DEF ToSet
<1>3. \A i, j \in 1..Len(s) : s[i] = s[j] => i = j
  BY <1>1 DEF IsInjective
<1>4. \A i, j \in DOMAIN a : a[i] = a[j] => i = j
  BY <1>1, <1>2, <1>3
<1> QED
  BY <1>4 DEF a, IsInjective

-----------------------------------------------------------------------------
(* Types.                                                                   *)

Places == {"idle", "insert", "sendInsert", "listInsert", "flush", "sendFlush", "listFlush"}

\* The last conjunct ties the state of a call to its arguments: a batch on its
\* way has a worker.
TypeInv ==
    /\ mode \in {"fail", "individual", "partial"}
    /\ simulateErrorMode \in BOOLEAN
    /\ queues \in [Workers -> Seq(Records)]
    /\ table \in {"noKey", "upsert", "skip"}
    /\ countInserted \in Nat /\ countUpdated \in Nat
    /\ unlisted \in SUBSET Records /\ IsFiniteSet(unlisted)
    /\ pc \in Places
    /\ remaining \in Seq(Records)
    /\ nextQueue \in 1..(W + 1)
    /\ wire \in [worker : 0..W, batch : Seq(Records)]
    /\ stored \in [Workers -> SUBSET Records]
    /\ unheard \in SUBSET Records
    /\ attempts \in [Records -> Nat]
    /\ acked \in SUBSET Records /\ IsFiniteSet(acked)
    /\ handedBack \in SUBSET Records
    /\ Sending => wire.worker \in Workers

\* What the application may pass is a sequence of records, none of them twice,
\* that are new or were handed back.
LEMMA VectorsTyped ==
    ASSUME NEW v \in Vectors
    PROVE  /\ v \in Seq(Records)
           /\ IsInjective(v)
           /\ \A r \in ToSet(v) : attempts[r] = 0 \/ r \in handedBack
<1>1. PICK n \in 1..MaxVector :
          /\ v \in [1..n -> {r \in Records : attempts[r] < MaxAttempts
                                  /\ (attempts[r] = 0 \/ r \in handedBack)}]
          /\ IsInjective(v)
  BY DEF Vectors
<1>2. v \in Seq(Records)
  BY <1>1
<1>3. \A i \in DOMAIN v : attempts[v[i]] = 0 \/ v[i] \in handedBack
  BY <1>1
<1> QED
  BY <1>1, <1>2, <1>3 DEF ToSet

\* InsertQueued in terms of the records each sequence holds.
LEMMA InsertQueuedEffect ==
    ASSUME TypeInv, NEW w \in Workers, InsertQueued(w)
    PROVE  \E r \in Records, q \in Seq(Records) :
             /\ r = Head(remaining)
             /\ Home[r] \in {0, w}
             /\ Len(q) = Len(queues[w]) + 1
             /\ ToSet(q) = ToSet(queues[w]) \cup {r}
             /\ IsInjective(queues[w]) /\ r \notin ToSet(queues[w]) => IsInjective(q)
             /\ ToSet(remaining) = {r} \cup ToSet(remaining')
             /\ remaining' \in Seq(Records)
             /\ IsInjective(remaining) => r \notin ToSet(remaining') /\ IsInjective(remaining')
             /\ \/ /\ Len(q) = BatchSize
                   /\ queues' = [queues EXCEPT ![w] = <<>>]
                   /\ wire' = [worker |-> w, batch |-> q]
                   /\ pc' = "sendInsert"
                \/ /\ Len(q) # BatchSize
                   /\ queues' = [queues EXCEPT ![w] = q]
                   /\ UNCHANGED <<wire, pc>>
<1> DEFINE r == Head(remaining)
           q == Append(queues[w], r)
<1>1. remaining \in Seq(Records) /\ remaining # <<>> /\ queues[w] \in Seq(Records)
  BY DEF TypeInv, InsertQueued
<1>2. /\ r \in Records
      /\ remaining' = Tail(remaining) /\ remaining' \in Seq(Records)
      /\ ToSet(remaining) = {r} \cup ToSet(remaining')
      /\ IsInjective(remaining) => r \notin ToSet(remaining') /\ IsInjective(remaining')
  BY <1>1, HeadTailProperties, ToSetTail DEF InsertQueued
<1>3. /\ q \in Seq(Records)
      /\ Len(q) = Len(queues[w]) + 1
      /\ ToSet(q) = ToSet(queues[w]) \cup {r}
      /\ IsInjective(queues[w]) /\ r \notin ToSet(queues[w]) => IsInjective(q)
  BY <1>1, <1>2, AppendProperties, ToSetAppend, AppendOnce
<1>4. Home[r] \in {0, w}
  BY DEF InsertQueued, WorkerOf
<1>5. \/ /\ Len(q) = BatchSize
         /\ queues' = [queues EXCEPT ![w] = <<>>]
         /\ wire' = [worker |-> w, batch |-> q]
         /\ pc' = "sendInsert"
      \/ /\ Len(q) # BatchSize
         /\ queues' = [queues EXCEPT ![w] = q]
         /\ UNCHANGED <<wire, pc>>
  BY DEF InsertQueued, Full
<1> HIDE DEF r, q
<1>6. r = Head(remaining)
  BY DEF r
<1> QED
  BY <1>2, <1>3, <1>4, <1>5, <1>6

\* What the database stores of a batch is part of it.
LEMMA AcceptedTyped ==
    ASSUME TypeInv, NEW bad \in BadSets
    PROVE  /\ Batch \subseteq Records
           /\ Accepted(bad) \subseteq Batch
           /\ IsFiniteSet(Accepted(bad))
           /\ bad \subseteq Batch /\ IsFiniteSet(bad)
<1>1. wire.batch \in Seq(Records)
  BY DEF TypeInv
<1>2. Batch \subseteq Records /\ IsFiniteSet(Batch)
  BY <1>1, ToSetFinite DEF Batch
<1>3. Accepted(bad) \subseteq Batch /\ bad \subseteq Batch
  BY DEF Accepted, BadSets
<1> QED
  BY <1>2, <1>3, FS_Subset

\* An ingestor begins with the types of its state.
LEMMA InitTyped == Init => TypeInv
<1> SUFFICES ASSUME Init PROVE TypeInv
  OBVIOUS
<1>1. <<>> \in Seq(Records)
  OBVIOUS
<1>2. IsFiniteSet({})
  BY FS_EmptySet
<1>3. attempts \in [Records -> Nat] /\ stored \in [Workers -> SUBSET Records]
      /\ queues \in [Workers -> Seq(Records)]
  BY <1>1 DEF Init
<1>4. wire \in [worker : 0..W, batch : Seq(Records)] /\ nextQueue \in 1..(W + 1)
  BY <1>1 DEF Init, NoWire
<1> QED
  BY <1>1, <1>2, <1>3, <1>4 DEF Init, TypeInv, Places, Sending

\* Storing keeps the type, whichever worker it is.
LEMMA StoreTyped ==
    ASSUME TypeInv, NEW bad \in BadSets, Store(bad)
    PROVE  stored' \in [Workers -> SUBSET Records]
  BY AcceptedTyped DEF TypeInv, Store

\* Every step of insert and flush keeps the types.
LEMMA NextTyped == TypeInv /\ [Next]_vars => TypeInv'
<1> SUFFICES ASSUME TypeInv, [Next]_vars PROVE TypeInv'
  OBVIOUS
<1> USE DEF Places
<1>a. <<>> \in Seq(Records) /\ NoWire \in [worker : 0..W, batch : Seq(Records)]
  BY DEF NoWire
<1>1. ASSUME NEW v \in Vectors, Insert(v) PROVE TypeInv'
  <2>1. v \in Seq(Records)
    BY VectorsTyped
  <2>2. attempts' \in [Records -> Nat]
    BY <1>1 DEF Insert, TypeInv
  <2> QED
    BY <1>1, <2>1, <2>2 DEF Insert, TypeInv, Sending
<1>2. CASE Flush
  BY <1>2 DEF Flush, TypeInv, Sending, places
<1>3. CASE InsertIgnored
  <2>1. Tail(remaining) \in Seq(Records)
    BY <1>3, HeadTailProperties DEF InsertIgnored, TypeInv
  <2> QED
    BY <1>3, <2>1 DEF InsertIgnored, TypeInv, Sending
<1>4. CASE InsertKeyRefused
  BY <1>4, <1>a DEF InsertKeyRefused, TypeInv, Sending
<1>5. CASE InsertReturns
  BY <1>5 DEF InsertReturns, TypeInv, Sending, places
<1>6. ASSUME NEW w \in Workers, InsertQueued(w) PROVE TypeInv'
  <2>1. PICK r \in Records, q \in Seq(Records) :
             /\ remaining' \in Seq(Records)
             /\ \/ /\ queues' = [queues EXCEPT ![w] = <<>>]
                   /\ wire' = [worker |-> w, batch |-> q]
                   /\ pc' = "sendInsert"
                \/ /\ queues' = [queues EXCEPT ![w] = q]
                   /\ UNCHANGED <<wire, pc>>
    BY <1>6, InsertQueuedEffect
  <2>2. queues' \in [Workers -> Seq(Records)]
    BY <2>1, <1>a DEF TypeInv
  <2>3. /\ wire' \in [worker : 0..W, batch : Seq(Records)]
        /\ Sending' => wire'.worker \in Workers
        /\ pc' \in Places
    <3>1. CASE wire' = [worker |-> w, batch |-> q] /\ pc' = "sendInsert"
      BY <3>1 DEF Workers
    <3>2. CASE UNCHANGED <<wire, pc>>
      BY <3>2 DEF TypeInv, Sending
    <3> QED
      BY <2>1, <3>1, <3>2
  <2> QED
    BY <1>6, <2>1, <2>2, <2>3 DEF InsertQueued, TypeInv, Sending, places
<1>7. CASE FlushCleared
  <2>1. queues' \in [Workers -> Seq(Records)]
    BY <1>7, <1>a DEF FlushCleared, TypeInv
  <2>2. nextQueue' \in 1..(W + 1)
    BY <1>7 DEF FlushCleared, Workers
  <2> QED
    BY <1>7, <2>1, <2>2 DEF FlushCleared, TypeInv, Sending
<1>8. CASE FlushQueue
  <2>1. queues' \in [Workers -> Seq(Records)]
    BY <1>8, <1>a DEF FlushQueue, TypeInv
  <2>2. nextQueue' \in 1..(W + 1)
    BY <1>8 DEF FlushQueue, Workers
  <2>3. /\ wire' \in [worker : 0..W, batch : Seq(Records)]
        /\ Sending' => wire'.worker \in Workers
        /\ pc' \in Places
    <3>1. CASE queues[nextQueue] = <<>>
      BY <1>8, <3>1 DEF FlushQueue, TypeInv, Sending
    <3>2. CASE queues[nextQueue] # <<>>
      <4>1. /\ nextQueue \in 0..W /\ nextQueue \in Workers
            /\ queues[nextQueue] \in Seq(Records)
        BY <1>8 DEF FlushQueue, TypeInv, Workers
      <4>2. wire' = [worker |-> nextQueue, batch |-> queues[nextQueue]] /\ pc' = "sendFlush"
        BY <1>8, <3>2 DEF FlushQueue
      <4> QED
        BY <4>1, <4>2
    <3> QED
      BY <3>1, <3>2
  <2> QED
    BY <1>8, <2>1, <2>2, <2>3 DEF FlushQueue, TypeInv, Sending, places
<1>9. CASE FlushReturns
  BY <1>9 DEF FlushReturns, TypeInv, Sending, places
<1>10. ASSUME NEW bad \in BadSets, AnswerArrives(bad) PROVE TypeInv'
  <2>1. stored' \in [Workers -> SUBSET Records]
    BY <1>10, StoreTyped DEF AnswerArrives
  <2>2. /\ acked' \in SUBSET Records /\ IsFiniteSet(acked')
        /\ Cardinality(Inserted(bad)) \in Nat /\ Cardinality(Updated(bad)) \in Nat
    <3>1. Accepted(bad) \subseteq Records /\ IsFiniteSet(Accepted(bad))
      BY AcceptedTyped
    <3>2. IsFiniteSet(acked \cup Accepted(bad))
      BY <3>1, FS_Union DEF TypeInv
    <3>3. Inserted(bad) \subseteq Accepted(bad) /\ Updated(bad) \subseteq Accepted(bad)
      BY DEF Inserted, Updated
    <3>4. Cardinality(Inserted(bad)) \in Nat /\ Cardinality(Updated(bad)) \in Nat
      BY <3>1, <3>3, FS_Subset, FS_CardinalityType
    <3> QED
      BY <1>10, <3>1, <3>2, <3>4 DEF AnswerArrives, TypeInv
  <2>3. unlisted' \in SUBSET Records /\ IsFiniteSet(unlisted')
    BY <1>10, AcceptedTyped DEF AnswerArrives
  <2>4. /\ countInserted' \in Nat /\ countUpdated' \in Nat
        /\ pc' \in {"listInsert", "listFlush"}
    BY <1>10, <2>2 DEF AnswerArrives, AddCounts, TypeInv
  <2>5. ~Sending'
    BY <2>4 DEF Sending
  <2> QED
    BY <1>10, <1>a, <2>1, <2>2, <2>3, <2>4, <2>5 DEF AnswerArrives, TypeInv
<1>11. ASSUME NEW bad \in BadSets, AnswerLost(bad) PROVE TypeInv'
  <2>1. stored' \in [Workers -> SUBSET Records]
    BY <1>11, StoreTyped DEF AnswerLost
  <2>2. handedBack' \in SUBSET Records
    BY <1>11, AcceptedTyped, ToSetFinite DEF AnswerLost, ThrowInsertionException, HandBack, TypeInv
  <2>3. unheard' \in SUBSET Records
    BY <1>11, AcceptedTyped DEF AnswerLost, TypeInv
  <2> QED
    BY <1>11, <1>a, <2>1, <2>2, <2>3 DEF AnswerLost, ThrowInsertionException, TypeInv, Sending
<1>12. CASE SendFails
  <2>1. handedBack' \in SUBSET Records
    <3>1. wire.batch \in Seq(Records) /\ remaining \in Seq(Records)
      BY DEF TypeInv
    <3>2. Batch \subseteq Records /\ ToSet(remaining) \subseteq Records
      BY <3>1, ToSetFinite DEF Batch
    <3> QED
      BY <1>12, <3>2 DEF SendFails, ThrowInsertionException, HandBack, TypeInv
  <2> QED
    BY <1>12, <1>a, <2>1 DEF SendFails, ThrowInsertionException, TypeInv, Sending
<1>13. CASE GetErrors
  BY <1>13 DEF GetErrors, call, TypeInv, Sending
<1>14. CASE UNCHANGED vars
  BY <1>14 DEF vars, call, places, TypeInv, Sending
<1>15. ASSUME NEW r \in Records, AddError(r) PROVE TypeInv'
  <2>1. unlisted' \in SUBSET Records /\ IsFiniteSet(unlisted')
    BY <1>15, FS_RemoveElement DEF AddError, TypeInv
  <2>2. simulateErrorMode' \in BOOLEAN
    BY <1>15 DEF AddError, ModeAfter, TypeInv
  <2> QED
    BY <1>15, <2>1, <2>2 DEF AddError, call, places, TypeInv, Sending
<1>16. CASE AnswerDone
  BY <1>16 DEF AnswerDone, places, TypeInv, Sending
<1> QED
  BY <1>1, <1>2, <1>3, <1>4, <1>5, <1>6, <1>7, <1>8, <1>9, <1>10, <1>11, <1>12, <1>13, <1>14,
     <1>15, <1>16
     DEF Next, Step

-----------------------------------------------------------------------------
(* What holds of the records on their way.                                  *)

Queue(w) == ToSet(queues[w])
Waiting == ToSet(remaining)

\* Queues and batches only hold records of their own worker. StoredAtHome alone
\* is not inductive: what is stored comes from the wire, and that from a queue.
HomeInv ==
    /\ \A w \in Workers : \A r \in Queue(w) : Home[r] \in {0, w}
    /\ \A r \in Batch : Home[r] \in {0, wire.worker}
    /\ StoredAtHome

\* The queues flush() is done with stay empty until it returns.
FlushInv ==
    pc \in {"flush", "sendFlush", "listFlush"} => \A w \in Workers : w < nextQueue => queues[w] = <<>>

\* A record is in one of these places at most: still to be queued, in one queue,
\* on the wire, confirmed, or handed back to the application; and it got there
\* through insert. It is why a record the application gives again is not also
\* somewhere in the ingestor, and why no confirmation counts one twice.
SeparateInv ==
    /\ IsInjective(remaining)
    /\ \A v, w \in Workers : v # w => Queue(v) \cap Queue(w) = {}
    /\ \A w \in Workers : Queue(w) \cap (Waiting \cup Batch \cup acked \cup handedBack) = {}
    /\ Waiting \cap (Batch \cup acked \cup handedBack) = {}
    /\ Batch \cap (acked \cup handedBack) = {}
    /\ acked \cap handedBack = {}
    /\ \A w \in Workers : \A r \in Queue(w) : attempts[r] > 0
    /\ \A r \in Waiting \cup Batch \cup acked \cup handedBack : attempts[r] > 0

\* What the call under way does not use is empty.
CallInv ==
    /\ ~Sending => wire = NoWire
    /\ ~Listing => unlisted = {}
    /\ pc \in {"idle", "flush", "sendFlush", "listFlush"} => remaining = <<>>

\* Every step leaves the queues below the batch size.
LEMMA BatchStep == TypeInv /\ QueueBelowBatch /\ [Next]_vars => QueueBelowBatch'
<1> SUFFICES ASSUME TypeInv, QueueBelowBatch, [Next]_vars PROVE QueueBelowBatch'
  OBVIOUS
<1>a. Len(<<>>) = 0 /\ Len(NoWire.batch) = 0
  BY DEF NoWire
<1>1. \/ UNCHANGED <<queues, wire>>
      \/ UNCHANGED queues /\ wire' = NoWire
      \/ queues' = [queues EXCEPT ![nextQueue] = <<>>] /\ UNCHANGED wire
      \/ FlushQueue
      \/ \E w \in Workers : InsertQueued(w)
  BY DEF Next, Step, Insert, Flush, InsertIgnored, InsertKeyRefused, InsertReturns,
         FlushCleared, FlushReturns, AnswerArrives, AnswerLost, AddError, AnswerDone, SendFails,
         ThrowInsertionException, GetErrors, vars, call
<1>2. CASE UNCHANGED <<queues, wire>>
  BY <1>2 DEF QueueBelowBatch
<1>3. CASE UNCHANGED queues /\ wire' = NoWire
  BY <1>a, <1>3 DEF QueueBelowBatch
<1>4. CASE queues' = [queues EXCEPT ![nextQueue] = <<>>] /\ UNCHANGED wire
  BY <1>a, <1>4 DEF QueueBelowBatch, TypeInv
<1>5. CASE FlushQueue
  <2>1. \A w \in Workers : queues'[w] = queues[w] \/ queues'[w] = <<>>
    BY <1>5 DEF FlushQueue, TypeInv
  <2>2. wire'.batch = wire.batch \/ wire'.batch = queues[nextQueue]
    BY <1>5 DEF FlushQueue
  <2>3. \A w \in Workers : Len(queues[w]) \in Nat
    BY DEF TypeInv
  <2> QED
    BY <1>a, <1>5, <2>1, <2>2, <2>3 DEF FlushQueue, QueueBelowBatch
<1>6. ASSUME NEW w \in Workers, InsertQueued(w) PROVE QueueBelowBatch'
  <2>1. PICK q \in Seq(Records) :
             /\ Len(q) = Len(queues[w]) + 1
             /\ \/ /\ Len(q) = BatchSize
                   /\ queues' = [queues EXCEPT ![w] = <<>>]
                   /\ wire' = [worker |-> w, batch |-> q]
                \/ /\ Len(q) # BatchSize
                   /\ queues' = [queues EXCEPT ![w] = q]
                   /\ UNCHANGED wire
    BY <1>6, InsertQueuedEffect
  <2>2. Len(queues[w]) \in Nat /\ Len(q) \in Nat
    BY DEF TypeInv
  <2>3. Len(queues[w]) < BatchSize
    BY DEF QueueBelowBatch
  <2>4. \A u \in Workers : u # w => queues'[u] = queues[u]
    BY <2>1 DEF TypeInv
  <2>5. Len(queues'[w]) < BatchSize
    BY <1>a, <2>1, <2>2, <2>3 DEF TypeInv
  <2>6. Len(wire'.batch) <= BatchSize
    BY <2>1, <2>2 DEF QueueBelowBatch
  <2> QED
    BY <2>4, <2>5, <2>6 DEF QueueBelowBatch
<1> QED
  BY <1>1, <1>2, <1>3, <1>4, <1>5, <1>6

\* Every step leaves the queues before flush()'s iterator empty.
LEMMA FlushStep == TypeInv /\ FlushInv /\ [Next]_vars => FlushInv'
<1> SUFFICES ASSUME TypeInv, FlushInv, [Next]_vars PROVE FlushInv'
  OBVIOUS
<1> DEFINE Flushing == {"flush", "sendFlush", "listFlush"}
<1>1. \/ pc' \in Flushing /\ pc \in Flushing /\ UNCHANGED <<queues, nextQueue>>
      \/ pc' \notin Flushing
      \/ pc' = "flush" /\ nextQueue' = 1
      \/ FlushCleared
      \/ FlushQueue
  <2> USE DEF TypeInv, Places
  <2> QED
    BY DEF Next, Step, Insert, Flush, InsertIgnored, InsertKeyRefused, InsertReturns,
         InsertQueued, FlushReturns, AnswerArrives, AnswerLost, AddError, AnswerDone, Listing,
         SendFails, Sending, ThrowInsertionException, GetErrors, vars, call
<1>2. CASE FlushCleared \/ FlushQueue
  <2>1. /\ pc = "flush" /\ nextQueue \in Workers
        /\ queues' = [queues EXCEPT ![nextQueue] = <<>>]
        /\ nextQueue' = nextQueue + 1
    BY <1>2 DEF FlushCleared, FlushQueue
  <2>2. ASSUME NEW w \in Workers, w < nextQueue' PROVE queues'[w] = <<>>
    <3>1. CASE w = nextQueue
      BY <2>1, <3>1 DEF TypeInv
    <3>2. CASE w # nextQueue
      <4>1. w < nextQueue
        BY <2>1, <2>2, <3>2 DEF Workers
      <4> QED
        BY <2>1, <3>2, <4>1 DEF FlushInv, TypeInv
    <3> QED
      BY <3>1, <3>2
  <2> QED
    BY <2>2 DEF FlushInv
<1>3. CASE pc' = "flush" /\ nextQueue' = 1
  BY <1>3 DEF FlushInv, Workers
<1> QED
  BY <1>1, <1>2, <1>3 DEF FlushInv

\* Error mode, and with it the loss of records, is for errors asked for one by one;
\* from the answer that keeps a batch out the errors to be listed stand for the mode.
HolesInv ==
    /\ simulateErrorMode => mode = "individual"
    /\ dropped \cup lost # {} => mode = "individual" /\ (simulateErrorMode \/ unlisted # {})

\* A record is only ignored or cleared in error mode; and the batch one incorrect
\* record keeps out is the batch whose errors turn it on.
LEMMA HolesStep == TypeInv /\ CallInv /\ HolesInv /\ [Next]_vars => HolesInv'
<1> SUFFICES ASSUME TypeInv, CallInv, HolesInv, [Next]_vars PROVE HolesInv'
  OBVIOUS
<1>1. \/ UNCHANGED <<mode, simulateErrorMode, unlisted, dropped, lost>>
      \/ simulateErrorMode /\ UNCHANGED <<mode, simulateErrorMode>>
      \/ \E bad \in BadSets : AnswerArrives(bad)
      \/ \E r \in Records : AddError(r)
  BY DEF Next, Step, Insert, Flush, InsertIgnored, InsertKeyRefused, InsertReturns,
         InsertQueued, FlushCleared, FlushQueue, FlushReturns, AnswerLost, AnswerDone, SendFails,
         GetErrors, vars, places
<1>2. ASSUME NEW bad \in BadSets, AnswerArrives(bad) PROVE HolesInv'
  <2>1. UNCHANGED <<mode, simulateErrorMode, dropped>> /\ unlisted' = bad
        /\ lost' = lost \cup ((Batch \ bad) \ Accepted(bad))
    BY <1>2 DEF AnswerArrives
  <2>2. CASE bad # {} /\ mode # "partial"
    BY <2>1, <2>2 DEF BadSets, TypeInv, HolesInv
  <2>3. CASE bad = {} \/ mode = "partial"
    <3>1. lost' = lost
      BY <2>1, <2>3 DEF Accepted
    <3>2. dropped \cup lost # {} => simulateErrorMode \/ unlisted # {}
      BY DEF HolesInv
    <3>3. unlisted = {}
      BY <1>2 DEF AnswerArrives, Sending, Listing, CallInv
    <3> QED
      BY <2>1, <3>1, <3>2, <3>3 DEF HolesInv
  <2> QED
    BY <2>2, <2>3
<1>3. ASSUME NEW r \in Records, AddError(r) PROVE HolesInv'
  <2>1. UNCHANGED <<mode, dropped, lost>> /\ simulateErrorMode' = ModeAfter
    BY <1>3 DEF AddError, places
  <2> QED
    BY <2>1 DEF HolesInv, ModeAfter
<1> QED
  BY <1>1, <1>2, <1>3 DEF HolesInv

\* Every step leaves the records with their own workers.
LEMMA HomeStep == TypeInv /\ HomeInv /\ [Next]_vars => HomeInv'
<1> SUFFICES ASSUME TypeInv, HomeInv, [Next]_vars PROVE HomeInv'
  OBVIOUS
<1> USE DEF Queue
<1>a. ToSet(<<>>) = {} /\ NoWire.batch = <<>>
  BY ToSetEmpty DEF NoWire
<1>1. \/ UNCHANGED <<queues, wire, stored>>
      \/ UNCHANGED <<queues, stored>> /\ wire' = NoWire
      \/ UNCHANGED <<wire, stored>> /\ queues' = [queues EXCEPT ![nextQueue] = <<>>]
      \/ FlushQueue
      \/ \E w \in Workers : InsertQueued(w)
      \/ \E bad \in BadSets : AnswerArrives(bad) \/ AnswerLost(bad)
  BY DEF Next, Step, Insert, Flush, InsertIgnored, InsertKeyRefused, InsertReturns,
         FlushCleared, FlushReturns, AddError, AnswerDone, SendFails, ThrowInsertionException,
         GetErrors, vars, call
<1>2. CASE UNCHANGED <<queues, wire, stored>>
  BY <1>2 DEF HomeInv, StoredAtHome, Batch
<1>3. CASE UNCHANGED <<queues, stored>> /\ wire' = NoWire
  BY <1>a, <1>3 DEF HomeInv, StoredAtHome, Batch
<1>4. CASE UNCHANGED <<wire, stored>> /\ queues' = [queues EXCEPT ![nextQueue] = <<>>]
  <2>1. \A w \in Workers : Queue(w)' \subseteq Queue(w)
    BY <1>a, <1>4 DEF TypeInv
  <2> QED
    BY <1>4, <2>1 DEF HomeInv, StoredAtHome, Batch
<1>5. CASE FlushQueue
  <2>1. \A w \in Workers : Queue(w)' \subseteq Queue(w)
    BY <1>a, <1>5 DEF FlushQueue, TypeInv
  <2>2. \/ UNCHANGED wire
        \/ Batch' = Queue(nextQueue) /\ wire'.worker = nextQueue
    BY <1>5 DEF FlushQueue, Batch
  <2>3. UNCHANGED stored /\ nextQueue \in Workers
    BY <1>5 DEF FlushQueue
  <2>4. \A r \in Batch' : Home[r] \in {0, wire'.worker}
    BY <2>2, <2>3 DEF HomeInv, Batch
  <2> QED
    BY <2>1, <2>3, <2>4 DEF HomeInv, StoredAtHome
<1>6. ASSUME NEW w \in Workers, InsertQueued(w) PROVE HomeInv'
  <2>1. PICK r \in Records, q \in Seq(Records) :
             /\ Home[r] \in {0, w}
             /\ ToSet(q) = Queue(w) \cup {r}
             /\ \/ /\ queues' = [queues EXCEPT ![w] = <<>>]
                   /\ wire' = [worker |-> w, batch |-> q]
                \/ /\ queues' = [queues EXCEPT ![w] = q]
                   /\ UNCHANGED wire
    BY <1>6, InsertQueuedEffect
  <2>2. \A u \in Workers : Queue(u)' \subseteq IF u = w THEN ToSet(q) ELSE Queue(u)
    BY <1>a, <2>1 DEF TypeInv
  <2>3. UNCHANGED wire \/ (Batch' = ToSet(q) /\ wire'.worker = w)
    BY <2>1 DEF Batch
  <2>4. UNCHANGED stored
    BY <1>6 DEF InsertQueued
  <2>5. \A x \in ToSet(q) : Home[x] \in {0, w}
    BY <2>1 DEF HomeInv
  <2>6. \A u \in Workers : \A x \in Queue(u)' : Home[x] \in {0, u}
    BY <2>2, <2>5 DEF HomeInv
  <2>7. \A x \in Batch' : Home[x] \in {0, wire'.worker}
    BY <2>3, <2>5 DEF HomeInv, Batch
  <2> QED
    BY <2>4, <2>6, <2>7 DEF HomeInv, StoredAtHome
<1>7. ASSUME NEW bad \in BadSets, AnswerArrives(bad) \/ AnswerLost(bad) PROVE HomeInv'
  <2>1. /\ UNCHANGED queues
        /\ wire' = NoWire
        /\ stored' = [stored EXCEPT ![wire.worker] = @ \cup Accepted(bad)]
    BY <1>7 DEF AnswerArrives, AnswerLost, ThrowInsertionException, Store
  <2>2. \A u \in Workers : \A x \in stored'[u] :
            x \in stored[u] \/ (u = wire.worker /\ x \in Batch)
    BY <2>1, AcceptedTyped DEF TypeInv
  <2>3. StoredAtHome'
    BY <2>2 DEF HomeInv, StoredAtHome
  <2>4. Batch' = {}
    BY <1>a, <2>1 DEF Batch
  <2> QED
    BY <2>1, <2>3, <2>4 DEF HomeInv
<1> QED
  BY <1>1, <1>2, <1>3, <1>4, <1>5, <1>6, <1>7

\* A step that only takes records away from places keeps them apart.
LEMMA SeparateShrinks ==
    ASSUME SeparateInv, UNCHANGED attempts, IsInjective(remaining'),
           \A w \in Workers : Queue(w)' \subseteq Queue(w),
           Waiting' \subseteq Waiting, Batch' \subseteq Batch,
           acked' \subseteq acked, handedBack' \subseteq handedBack
    PROVE  SeparateInv'
<1>1. \A v, w \in Workers : v # w => Queue(v)' \cap Queue(w)' = {}
  BY DEF SeparateInv
<1>2. \A w \in Workers : Queue(w)' \cap (Waiting \cup Batch \cup acked \cup handedBack)' = {}
  BY DEF SeparateInv
<1>3. /\ Waiting' \cap (Batch \cup acked \cup handedBack)' = {}
      /\ Batch' \cap (acked \cup handedBack)' = {}
      /\ acked' \cap handedBack' = {}
  BY DEF SeparateInv
<1>4. /\ \A w \in Workers : \A r \in Queue(w)' : attempts'[r] > 0
      /\ \A r \in (Waiting \cup Batch \cup acked \cup handedBack)' : attempts'[r] > 0
  BY DEF SeparateInv
<1> QED
  BY <1>1, <1>2, <1>3, <1>4 DEF SeparateInv

\* insert: the records given were nowhere, or with the application.
LEMMA SeparateInsert ==
    ASSUME TypeInv, SeparateInv, NEW v \in Vectors, Insert(v)
    PROVE  SeparateInv'
<1>1. /\ IsInjective(v) /\ ToSet(v) \subseteq Records
      /\ \A r \in ToSet(v) : attempts[r] = 0 \/ r \in handedBack
  <2>1. v \in Seq(Records)
    BY VectorsTyped
  <2> QED
    BY <2>1, VectorsTyped, ToSetFinite
<1>2. /\ Waiting' = ToSet(v) /\ IsInjective(remaining')
      /\ handedBack' = handedBack \ ToSet(v)
      /\ UNCHANGED <<queues, wire, acked>>
      /\ \A r \in Records : attempts'[r] = attempts[r] + IF r \in ToSet(v) THEN 1 ELSE 0
  BY <1>1 DEF Insert, Waiting
<1>3. Batch' = Batch /\ \A w \in Workers : Queue(w)' = Queue(w)
  BY <1>2 DEF Batch, Queue
<1>4. /\ \A w \in Workers : ToSet(v) \cap Queue(w) = {}
      /\ ToSet(v) \cap (Batch \cup acked) = {}
  <2>1. ASSUME NEW r \in ToSet(v), NEW w \in Workers PROVE r \notin Queue(w)
    BY <1>1 DEF SeparateInv
  <2>2. ASSUME NEW r \in ToSet(v) PROVE r \notin Batch \cup acked
    BY <1>1 DEF SeparateInv
  <2> QED
    BY <2>1, <2>2
<1>5. \A r \in Records : attempts[r] > 0 \/ r \in ToSet(v) => attempts'[r] > 0
  BY <1>2 DEF TypeInv
<1>6. /\ \A w \in Workers : Queue(w) \subseteq Records
      /\ Batch \subseteq Records
      /\ acked \subseteq Records /\ handedBack \subseteq Records
  <2>1. wire.batch \in Seq(Records) /\ \A w \in Workers : queues[w] \in Seq(Records)
    BY DEF TypeInv
  <2> QED
    BY <2>1, ToSetFinite DEF Queue, Batch, TypeInv
<1>7. \A w \in Workers : Queue(w)' \cap (Waiting \cup Batch \cup acked \cup handedBack)' = {}
  BY <1>2, <1>3, <1>4 DEF SeparateInv
<1>8. /\ Waiting' \cap (Batch \cup acked \cup handedBack)' = {}
      /\ Batch' \cap (acked \cup handedBack)' = {}
      /\ acked' \cap handedBack' = {}
  BY <1>2, <1>3, <1>4 DEF SeparateInv
<1>9. \A w \in Workers : \A r \in Queue(w)' : attempts'[r] > 0
  BY <1>3, <1>5, <1>6 DEF SeparateInv
<1>10. \A r \in (Waiting \cup Batch \cup acked \cup handedBack)' : attempts'[r] > 0
  BY <1>1, <1>2, <1>3, <1>5, <1>6 DEF SeparateInv
<1>11. \A u, w \in Workers : u # w => Queue(u)' \cap Queue(w)' = {}
  BY <1>3 DEF SeparateInv
<1> QED
  BY <1>2, <1>7, <1>8, <1>9, <1>10, <1>11 DEF SeparateInv

\* WorkerQueue::insert: the record moves from the vector into a queue, or with
\* the queue onto the wire.
LEMMA SeparateQueued ==
    ASSUME TypeInv, SeparateInv, NEW w \in Workers, InsertQueued(w)
    PROVE  SeparateInv'
<1>1. PICK r \in Records, q \in Seq(Records) :
             /\ ToSet(q) = Queue(w) \cup {r}
             /\ Waiting = {r} \cup Waiting'
             /\ r \notin Waiting' /\ IsInjective(remaining')
             /\ \/ /\ queues' = [queues EXCEPT ![w] = <<>>]
                   /\ wire' = [worker |-> w, batch |-> q]
                \/ /\ queues' = [queues EXCEPT ![w] = q]
                   /\ UNCHANGED wire
  BY InsertQueuedEffect DEF SeparateInv, Queue, Waiting
<1>2. UNCHANGED <<attempts, acked, handedBack>>
  BY DEF InsertQueued, places
<1>3. \A u \in Workers : u # w => Queue(u)' = Queue(u)
  BY <1>1 DEF Queue, TypeInv
<1>4. r \in Waiting
  BY <1>1
<1>5. CASE queues' = [queues EXCEPT ![w] = <<>>] /\ wire' = [worker |-> w, batch |-> q]
  <2>1. Queue(w)' = {} /\ Batch' = Queue(w) \cup {r}
    BY <1>1, <1>5, ToSetEmpty DEF Queue, Batch, TypeInv
  <2>2. \A u, x \in Workers : u # x => Queue(u)' \cap Queue(x)' = {}
    BY <1>3, <2>1 DEF SeparateInv
  <2>3. \A u \in Workers : Queue(u)' \cap (Waiting \cup Batch \cup acked \cup handedBack)' = {}
    BY <1>1, <1>2, <1>3, <2>1 DEF SeparateInv
  <2>4. /\ Waiting' \cap (Batch \cup acked \cup handedBack)' = {}
        /\ Batch' \cap (acked \cup handedBack)' = {}
        /\ acked' \cap handedBack' = {}
    BY <1>1, <1>2, <2>1 DEF SeparateInv
  <2>5. /\ \A u \in Workers : \A x \in Queue(u)' : attempts'[x] > 0
        /\ \A x \in (Waiting \cup Batch \cup acked \cup handedBack)' : attempts'[x] > 0
    BY <1>1, <1>2, <1>3, <2>1 DEF SeparateInv
  <2> QED
    BY <1>1, <2>2, <2>3, <2>4, <2>5 DEF SeparateInv
<1>6. CASE queues' = [queues EXCEPT ![w] = q] /\ UNCHANGED wire
  <2>1. Queue(w)' = Queue(w) \cup {r} /\ Batch' = Batch
    BY <1>1, <1>6 DEF Queue, Batch, TypeInv
  <2>2. \A u, x \in Workers : u # x => Queue(u)' \cap Queue(x)' = {}
    BY <1>3, <1>4, <2>1 DEF SeparateInv
  <2>3. \A u \in Workers : Queue(u)' \cap (Waiting \cup Batch \cup acked \cup handedBack)' = {}
    BY <1>1, <1>2, <1>3, <2>1 DEF SeparateInv
  <2>4. /\ Waiting' \cap (Batch \cup acked \cup handedBack)' = {}
        /\ Batch' \cap (acked \cup handedBack)' = {}
        /\ acked' \cap handedBack' = {}
    BY <1>1, <1>2, <2>1 DEF SeparateInv
  <2>5. /\ \A u \in Workers : \A x \in Queue(u)' : attempts'[x] > 0
        /\ \A x \in (Waiting \cup Batch \cup acked \cup handedBack)' : attempts'[x] > 0
    BY <1>1, <1>2, <1>3, <2>1 DEF SeparateInv
  <2> QED
    BY <1>1, <2>2, <2>3, <2>4, <2>5 DEF SeparateInv
<1> QED
  BY <1>1, <1>5, <1>6

\* flush(): a queue moves onto the wire.
LEMMA SeparateFlushed ==
    ASSUME TypeInv, SeparateInv, FlushQueue
    PROVE  SeparateInv'
<1> PICK n \in Workers : n = nextQueue
  BY DEF FlushQueue
<1>1. /\ queues' = [queues EXCEPT ![n] = <<>>]
      /\ UNCHANGED <<attempts, remaining, acked, handedBack>>
  BY DEF FlushQueue, places
<1>2. /\ Queue(n)' = {}
      /\ \A u \in Workers : u # n => Queue(u)' = Queue(u)
      /\ Waiting' = Waiting
  BY <1>1, ToSetEmpty DEF Queue, Waiting, TypeInv
<1>3. CASE queues[n] = <<>>
  <2>1. Batch' = Batch
    BY <1>3 DEF FlushQueue, Batch
  <2>2. \A u \in Workers : Queue(u)' \subseteq Queue(u)
    BY <1>2
  <2>3. IsInjective(remaining') /\ acked' \subseteq acked /\ handedBack' \subseteq handedBack
    BY <1>1 DEF SeparateInv
  <2> QED
    BY <1>1, <1>2, <2>1, <2>2, <2>3, SeparateShrinks
<1>4. CASE queues[n] # <<>>
  <2>1. Batch' = Queue(n)
    BY <1>4 DEF FlushQueue, Batch, Queue
  <2>2. \A u, x \in Workers : u # x => Queue(u)' \cap Queue(x)' = {}
    BY <1>2 DEF SeparateInv
  <2>3. \A u \in Workers : Queue(u)' \cap (Waiting \cup Batch \cup acked \cup handedBack)' = {}
    BY <1>1, <1>2, <2>1 DEF SeparateInv
  <2>4. /\ Waiting' \cap (Batch \cup acked \cup handedBack)' = {}
        /\ Batch' \cap (acked \cup handedBack)' = {}
        /\ acked' \cap handedBack' = {}
    BY <1>1, <1>2, <2>1 DEF SeparateInv
  <2>5. /\ \A u \in Workers : \A x \in Queue(u)' : attempts'[x] > 0
        /\ \A x \in (Waiting \cup Batch \cup acked \cup handedBack)' : attempts'[x] > 0
    BY <1>1, <1>2, <2>1 DEF SeparateInv
  <2>6. IsInjective(remaining')
    BY <1>1 DEF SeparateInv
  <2> QED
    BY <2>2, <2>3, <2>4, <2>5, <2>6 DEF SeparateInv
<1> QED
  BY <1>3, <1>4

\* The answer: what was accepted moves from the wire to the confirmed records.
LEMMA SeparateAnswered ==
    ASSUME TypeInv, SeparateInv, NEW bad \in BadSets, AnswerArrives(bad)
    PROVE  SeparateInv'
<1>1. /\ UNCHANGED <<queues, remaining, attempts, handedBack>>
      /\ acked' = acked \cup Accepted(bad)
      /\ Accepted(bad) \subseteq Batch
      /\ Batch' = {}
  BY AcceptedTyped, ToSetEmpty DEF AnswerArrives, Batch, NoWire
<1>2. Waiting' = Waiting /\ \A u \in Workers : Queue(u)' = Queue(u)
  BY <1>1 DEF Queue, Waiting
<1>3. \A u \in Workers : Queue(u)' \cap (Waiting \cup Batch \cup acked \cup handedBack)' = {}
  BY <1>1, <1>2 DEF SeparateInv
<1>4. /\ Waiting' \cap (Batch \cup acked \cup handedBack)' = {}
      /\ Batch' \cap (acked \cup handedBack)' = {}
      /\ acked' \cap handedBack' = {}
  BY <1>1, <1>2 DEF SeparateInv
<1>5. /\ \A u \in Workers : \A x \in Queue(u)' : attempts'[x] > 0
      /\ \A x \in (Waiting \cup Batch \cup acked \cup handedBack)' : attempts'[x] > 0
  BY <1>1, <1>2 DEF SeparateInv
<1>6. \A u, x \in Workers : u # x => Queue(u)' \cap Queue(x)' = {}
  BY <1>2 DEF SeparateInv
<1>7. IsInjective(remaining')
  BY <1>1 DEF SeparateInv
<1> QED
  BY <1>3, <1>4, <1>5, <1>6, <1>7 DEF SeparateInv

\* GPUdbInsertionException: the batch, and what is left of the vector, go back.
LEMMA SeparateHandedBack ==
    ASSUME TypeInv, SeparateInv, ThrowInsertionException,
           UNCHANGED <<queues, attempts, acked>>
    PROVE  SeparateInv'
<1>1. /\ handedBack' = handedBack \cup Batch \cup Waiting
      /\ Batch' = {} /\ Waiting' = {}
  BY ToSetEmpty DEF ThrowInsertionException, HandBack, Batch, Waiting, NoWire
<1>2. \A u \in Workers : Queue(u)' = Queue(u)
  BY DEF Queue
<1>3. \A u \in Workers : Queue(u)' \cap (Waiting \cup Batch \cup acked \cup handedBack)' = {}
  BY <1>1, <1>2 DEF SeparateInv
<1>4. /\ Waiting' \cap (Batch \cup acked \cup handedBack)' = {}
      /\ Batch' \cap (acked \cup handedBack)' = {}
      /\ acked' \cap handedBack' = {}
  BY <1>1 DEF SeparateInv
<1>5. /\ \A u \in Workers : \A x \in Queue(u)' : attempts'[x] > 0
      /\ \A x \in (Waiting \cup Batch \cup acked \cup handedBack)' : attempts'[x] > 0
  BY <1>1, <1>2 DEF SeparateInv
<1>6. \A u, x \in Workers : u # x => Queue(u)' \cap Queue(x)' = {}
  BY <1>2 DEF SeparateInv
<1>7. IsInjective(remaining')
  BY DEF ThrowInsertionException, IsInjective
<1> QED
  BY <1>3, <1>4, <1>5, <1>6, <1>7 DEF SeparateInv

\* Every step leaves a record in one place at most.
LEMMA SeparateStep == TypeInv /\ SeparateInv /\ [Next]_vars => SeparateInv'
<1> SUFFICES ASSUME TypeInv, SeparateInv, [Next]_vars PROVE SeparateInv'
  OBVIOUS
<1>1. \/ UNCHANGED <<queues, remaining, wire, attempts, acked, handedBack>>
      \/ InsertIgnored \/ InsertKeyRefused \/ FlushCleared
      \/ FlushQueue
      \/ \E v \in Vectors : Insert(v)
      \/ \E w \in Workers : InsertQueued(w)
      \/ \E bad \in BadSets : AnswerArrives(bad)
      \/ ThrowInsertionException /\ UNCHANGED <<queues, attempts, acked>>
  BY DEF Next, Step, Flush, InsertReturns, FlushReturns, AnswerLost, AddError, AnswerDone,
         SendFails, GetErrors, vars, places, call
<1>2. CASE UNCHANGED <<queues, remaining, wire, attempts, acked, handedBack>>
  BY <1>2 DEF SeparateInv, Queue, Waiting, Batch
<1>3. CASE InsertIgnored
  <2>1. remaining \in Seq(Records) /\ remaining # <<>> /\ remaining' = Tail(remaining)
        /\ UNCHANGED <<queues, wire, attempts, acked, handedBack>>
    BY <1>3 DEF InsertIgnored, TypeInv
  <2>2. Waiting' \subseteq Waiting /\ IsInjective(remaining')
    BY <2>1, ToSetTail DEF Waiting, SeparateInv
  <2>3. Batch' = Batch /\ \A w \in Workers : Queue(w)' = Queue(w)
    BY <2>1 DEF Batch, Queue
  <2> QED
    BY <2>1, <2>2, <2>3, SeparateShrinks
<1>4. CASE InsertKeyRefused
  <2>1. remaining' = <<>> /\ UNCHANGED <<queues, wire, attempts, acked, handedBack>>
    BY <1>4 DEF InsertKeyRefused
  <2>2. Waiting' = {} /\ IsInjective(remaining')
    BY <2>1, ToSetEmpty DEF Waiting, IsInjective
  <2>3. Batch' = Batch /\ \A w \in Workers : Queue(w)' = Queue(w)
    BY <2>1 DEF Batch, Queue
  <2> QED
    BY <2>1, <2>2, <2>3, SeparateShrinks
<1>5. CASE FlushCleared
  <2>1. queues' = [queues EXCEPT ![nextQueue] = <<>>]
        /\ UNCHANGED <<remaining, wire, attempts, acked, handedBack>>
    BY <1>5 DEF FlushCleared
  <2>2. \A w \in Workers : Queue(w)' \subseteq Queue(w)
    BY <2>1, ToSetEmpty DEF Queue, TypeInv
  <2>3. Batch' = Batch /\ Waiting' = Waiting /\ IsInjective(remaining')
    BY <2>1 DEF Batch, Waiting, SeparateInv
  <2> QED
    BY <2>1, <2>2, <2>3, SeparateShrinks
<1> QED
  BY <1>1, <1>2, <1>3, <1>4, <1>5, SeparateFlushed, SeparateInsert, SeparateQueued,
     SeparateAnswered, SeparateHandedBack

-----------------------------------------------------------------------------
(* Every record given to insert is somewhere, and in one place.              *)

\* No sequence has a record twice.
OnceInv ==
    /\ IsInjective(wire.batch)
    /\ \A w \in Workers : IsInjective(queues[w])

\* What the ingestor or the application still has, and what is left.
Held == Waiting \cup Batch \cup acked \cup handedBack
Left == unlisted \cup errorList \cup takenErrors \cup skipped \cup dropped \cup lost

\* No record that is left is in use or in two of the places at the end of its
\* way, and a record that was given is in use or left.
PlaceInv ==
    /\ \A w \in Workers : Queue(w) \cap Left = {}
    /\ Held \cap Left = {}
    /\ unlisted \cap (errorList \cup takenErrors \cup skipped \cup dropped \cup lost) = {}
    /\ errorList \cap (takenErrors \cup skipped \cup dropped \cup lost) = {}
    /\ takenErrors \cap (skipped \cup dropped \cup lost) = {}
    /\ skipped \cap (dropped \cup lost) = {}
    /\ dropped \cap lost = {}
    /\ \A r \in Left : r \in Records /\ attempts[r] > 0
    /\ \A r \in Given : r \in Held \cup Left \/ \E w \in Workers : r \in Queue(w)

\* Every step leaves what the next one does not use empty.
LEMMA CallStep == TypeInv /\ CallInv /\ [Next]_vars => CallInv'
<1> SUFFICES ASSUME TypeInv, CallInv, [Next]_vars PROVE CallInv'
  OBVIOUS
<1> USE DEF CallInv, Sending, Listing
<1>1. ASSUME NEW v \in Vectors, Insert(v) PROVE CallInv'
  BY <1>1 DEF Insert
<1>2. CASE Flush
  BY <1>2 DEF Flush
<1>3. CASE InsertIgnored
  BY <1>3 DEF InsertIgnored
<1>4. CASE InsertKeyRefused
  BY <1>4 DEF InsertKeyRefused
<1>5. CASE InsertReturns
  BY <1>5 DEF InsertReturns
<1>6. ASSUME NEW w \in Workers, InsertQueued(w) PROVE CallInv'
  BY <1>6 DEF InsertQueued
<1>7. CASE FlushCleared
  BY <1>7 DEF FlushCleared
<1>8. CASE FlushQueue
  BY <1>8 DEF FlushQueue
<1>9. CASE FlushReturns
  BY <1>9 DEF FlushReturns
<1>10. ASSUME NEW bad \in BadSets, AnswerArrives(bad) PROVE CallInv'
  BY <1>10 DEF AnswerArrives
<1>11. ASSUME NEW bad \in BadSets, AnswerLost(bad) PROVE CallInv'
  BY <1>11 DEF AnswerLost, ThrowInsertionException
<1>12. CASE SendFails
  BY <1>12 DEF SendFails, ThrowInsertionException
<1>13. CASE GetErrors
  BY <1>13 DEF GetErrors, call
<1>14. CASE UNCHANGED vars
  BY <1>14 DEF vars, call
<1>15. ASSUME NEW r \in Records, AddError(r) PROVE CallInv'
  BY <1>15 DEF AddError, call
<1>16. CASE AnswerDone
  BY <1>16 DEF AnswerDone, TypeInv, Places
<1> QED
  BY <1>1, <1>2, <1>3, <1>4, <1>5, <1>6, <1>7, <1>8, <1>9, <1>10, <1>11, <1>12, <1>13,
     <1>14, <1>15, <1>16 DEF Next, Step

\* Every step leaves the sequences without a record twice: what is queued was in
\* no queue.
LEMMA OnceStep == TypeInv /\ SeparateInv /\ OnceInv /\ [Next]_vars => OnceInv'
<1> SUFFICES ASSUME TypeInv, SeparateInv, OnceInv, [Next]_vars PROVE OnceInv'
  OBVIOUS
<1>a. IsInjective(<<>>) /\ IsInjective(NoWire.batch)
  BY DEF IsInjective, NoWire
<1>1. \/ UNCHANGED <<queues, wire>>
      \/ UNCHANGED queues /\ wire' = NoWire
      \/ UNCHANGED wire /\ queues' = [queues EXCEPT ![nextQueue] = <<>>]
      \/ FlushQueue
      \/ \E w \in Workers : InsertQueued(w)
  BY DEF Next, Step, Insert, Flush, InsertIgnored, InsertKeyRefused, InsertReturns,
         FlushCleared, FlushReturns, AnswerArrives, AnswerLost, AddError, AnswerDone, SendFails,
         ThrowInsertionException, GetErrors, vars, call
<1>2. CASE UNCHANGED <<queues, wire>>
  BY <1>2 DEF OnceInv
<1>3. CASE UNCHANGED queues /\ wire' = NoWire
  BY <1>a, <1>3 DEF OnceInv
<1>4. CASE UNCHANGED wire /\ queues' = [queues EXCEPT ![nextQueue] = <<>>]
  BY <1>a, <1>4 DEF OnceInv, TypeInv
<1>5. CASE FlushQueue
  <2>1. \A w \in Workers : IsInjective(queues'[w])
    BY <1>a, <1>5 DEF FlushQueue, OnceInv, TypeInv
  <2>2. IsInjective(wire'.batch)
    BY <1>5 DEF FlushQueue, OnceInv
  <2> QED
    BY <2>1, <2>2 DEF OnceInv
<1>6. ASSUME NEW w \in Workers, InsertQueued(w) PROVE OnceInv'
  <2>1. PICK r \in Records, q \in Seq(Records) :
             /\ IsInjective(queues[w]) /\ r \notin ToSet(queues[w]) => IsInjective(q)
             /\ ToSet(remaining) = {r} \cup ToSet(remaining')
             /\ \/ /\ queues' = [queues EXCEPT ![w] = <<>>]
                   /\ wire' = [worker |-> w, batch |-> q]
                \/ /\ queues' = [queues EXCEPT ![w] = q]
                   /\ UNCHANGED wire
    BY <1>6, InsertQueuedEffect
  <2>2. r \notin ToSet(queues[w])
    BY <2>1 DEF SeparateInv, Queue, Waiting
  <2>3. IsInjective(q)
    BY <2>1, <2>2 DEF OnceInv
  <2>4. \A u \in Workers : queues'[u] \in {queues[u], q, <<>>}
    BY <2>1 DEF TypeInv
  <2>5. wire'.batch \in {wire.batch, q}
    BY <2>1
  <2> QED
    BY <1>a, <2>3, <2>4, <2>5 DEF OnceInv
<1> QED
  BY <1>1, <1>2, <1>3, <1>4, <1>5, <1>6

\* insert: the records given were new or with the application, and the vector was
\* empty.
LEMMA PlaceInsert ==
    ASSUME TypeInv, SeparateInv, CallInv, PlaceInv, NEW v \in Vectors, Insert(v)
    PROVE  PlaceInv'
<1>1. /\ Waiting = {}
      /\ ToSet(v) \subseteq Records
      /\ \A r \in ToSet(v) : attempts[r] = 0 \/ r \in handedBack
  <2>1. v \in Seq(Records) /\ pc = "idle"
    BY VectorsTyped DEF Insert
  <2> QED
    BY <2>1, VectorsTyped, ToSetFinite, ToSetEmpty DEF CallInv, Waiting
<1>2. /\ Waiting' = ToSet(v)
      /\ handedBack' = handedBack \ ToSet(v)
      /\ UNCHANGED <<queues, wire, acked, errors, takenErrors, skipped, dropped, lost>>
      /\ \A r \in Records : attempts'[r] = attempts[r] + IF r \in ToSet(v) THEN 1 ELSE 0
  BY DEF Insert, Waiting
<1>3. Batch' = Batch /\ Left' = Left /\ \A w \in Workers : Queue(w)' = Queue(w)
  BY <1>2 DEF Batch, Left, Queue
<1>4. ToSet(v) \cap Left = {}
  <2> SUFFICES ASSUME NEW r \in ToSet(v), r \in Left PROVE FALSE
    OBVIOUS
  <2>1. attempts[r] \in Nat /\ attempts[r] > 0
    BY <1>1 DEF PlaceInv, TypeInv
  <2>2. r \in handedBack
    BY <1>1, <2>1
  <2> QED
    BY <2>2 DEF PlaceInv, Held
<1>5. Held' = (Held \ ToSet(v)) \cup ToSet(v)
  <2>1. ASSUME NEW r \in ToSet(v) PROVE r \notin Batch \cup acked
    BY <1>1 DEF SeparateInv
  <2> QED
    BY <1>1, <1>2, <1>3, <2>1 DEF Held
<1>6. Held' \cap Left' = {} /\ \A w \in Workers : Queue(w)' \cap Left' = {}
  BY <1>3, <1>4, <1>5 DEF PlaceInv
<1>7. \A r \in Left' : r \in Records /\ attempts'[r] > 0
  BY <1>2, <1>3 DEF PlaceInv, TypeInv
<1>8. ASSUME NEW r \in Given' PROVE r \in Held' \cup Left' \/ \E w \in Workers : r \in Queue(w)'
  <2>1. r \in ToSet(v) \/ r \in Given
    BY <1>2, <1>8 DEF Given, TypeInv
  <2> QED
    BY <1>3, <1>5, <2>1 DEF PlaceInv
<1> QED
  BY <1>2, <1>6, <1>7, <1>8 DEF PlaceInv

\* A record stays in use: it moves between the vector, the queues, the wire, the
\* confirmed records and the application.
LEMMA PlaceMoves ==
    ASSUME PlaceInv,
           UNCHANGED <<attempts, errors, takenErrors, skipped, dropped, lost>>,
           NEW InUse,
           \A r : r \in InUse <=> r \in Held \/ \E w \in Workers : r \in Queue(w),
           \A r : r \in InUse <=> r \in Held' \/ \E w \in Workers : r \in Queue(w)'
    PROVE  PlaceInv'
<1>1. Left' = Left /\ Given' = Given
  BY DEF Left, Given
<1>2. Held' \cap Left' = {} /\ \A w \in Workers : Queue(w)' \cap Left' = {}
  BY <1>1 DEF PlaceInv
<1>3. \A r \in Left' : r \in Records /\ attempts'[r] > 0
  BY <1>1 DEF PlaceInv
<1>4. \A r \in Given' : r \in Held' \cup Left' \/ \E w \in Workers : r \in Queue(w)'
  BY <1>1 DEF PlaceInv
<1> QED
  BY <1>2, <1>3, <1>4 DEF PlaceInv

\* WorkerQueue::insert: from the vector into a queue, or with it onto the wire.
LEMMA PlaceQueued ==
    ASSUME TypeInv, CallInv, PlaceInv, NEW w \in Workers, InsertQueued(w)
    PROVE  PlaceInv'
<1>1. PICK r \in Records, q \in Seq(Records) :
             /\ ToSet(q) = Queue(w) \cup {r}
             /\ Waiting = {r} \cup Waiting'
             /\ \/ /\ queues' = [queues EXCEPT ![w] = <<>>]
                   /\ wire' = [worker |-> w, batch |-> q]
                \/ /\ queues' = [queues EXCEPT ![w] = q]
                   /\ UNCHANGED wire
  BY InsertQueuedEffect DEF Queue, Waiting
<1>2. UNCHANGED <<attempts, acked, handedBack, errors, takenErrors, skipped, dropped, lost>>
  BY DEF InsertQueued, places
<1>3. Batch = {}
  BY ToSetEmpty DEF InsertQueued, CallInv, Sending, Batch, NoWire
<1>4. \A u \in Workers : u # w => Queue(u)' = Queue(u)
  BY <1>1 DEF Queue, TypeInv
<1>5. \/ Queue(w)' = {} /\ Batch' = Queue(w) \cup {r}
      \/ Queue(w)' = Queue(w) \cup {r} /\ Batch' = {}
  BY <1>1, <1>3, ToSetEmpty DEF Queue, Batch, TypeInv
<1> DEFINE InUse == Held \cup UNION {Queue(u) : u \in Workers}
<1>6. \A x : x \in InUse <=> x \in Held \/ \E u \in Workers : x \in Queue(u)
  OBVIOUS
<1>7. \A x : x \in InUse <=> x \in Held' \/ \E u \in Workers : x \in Queue(u)'
  <2>1. \A x : x \in Held <=> x = r \/ x \in Waiting' \/ x \in acked \/ x \in handedBack
    BY <1>1, <1>3 DEF Held
  <2>2. \A x : x \in Held' <=> x \in Waiting' \/ x \in Batch' \/ x \in acked \/ x \in handedBack
    BY <1>2 DEF Held
  <2>3. \A x : (x = r \/ \E u \in Workers : x \in Queue(u))
                 <=> (x \in Batch' \/ \E u \in Workers : x \in Queue(u)')
    BY <1>4, <1>5
  <2> QED
    BY <1>6, <2>1, <2>2, <2>3
<1> QED
  BY <1>2, <1>6, <1>7, PlaceMoves

\* flush(): from a queue onto the wire.
LEMMA PlaceFlushed ==
    ASSUME TypeInv, CallInv, PlaceInv, FlushQueue
    PROVE  PlaceInv'
<1> PICK n \in Workers : n = nextQueue
  BY DEF FlushQueue
<1>1. /\ queues' = [queues EXCEPT ![n] = <<>>]
      /\ UNCHANGED <<attempts, remaining, acked, handedBack, errors, takenErrors, skipped,
                     dropped, lost>>
  BY DEF FlushQueue, places
<1>2. Batch = {}
  BY ToSetEmpty DEF FlushQueue, CallInv, Sending, Batch, NoWire
<1>3. Queue(n)' = {} /\ \A u \in Workers : u # n => Queue(u)' = Queue(u)
  BY <1>1, ToSetEmpty DEF Queue, TypeInv
<1>4. Batch' = Queue(n)
  <2>1. CASE queues[n] = <<>>
    <3>1. UNCHANGED wire /\ Queue(n) = {}
      BY <2>1, ToSetEmpty DEF FlushQueue, Queue
    <3> QED
      BY <1>2, <3>1 DEF Batch
  <2>2. CASE queues[n] # <<>>
    BY <2>2 DEF FlushQueue, Batch, Queue
  <2> QED
    BY <2>1, <2>2
<1> DEFINE InUse == Held \cup UNION {Queue(u) : u \in Workers}
<1>5. \A x : x \in InUse <=> x \in Held \/ \E u \in Workers : x \in Queue(u)
  OBVIOUS
<1>6. \A x : x \in InUse <=> x \in Held' \/ \E u \in Workers : x \in Queue(u)'
  <2>1. \A x : x \in Held' <=> x \in Held \/ x \in Queue(n)
    BY <1>1, <1>2, <1>4 DEF Held, Waiting
  <2>2. \A x : (\E u \in Workers : x \in Queue(u))
                 <=> (x \in Queue(n) \/ \E u \in Workers : x \in Queue(u)')
    BY <1>3
  <2> QED
    BY <1>5, <2>1, <2>2
<1> QED
  BY <1>1, <1>5, <1>6, PlaceMoves

\* GPUdbInsertionException: from the wire and the vector to the application.
LEMMA PlaceHandedBack ==
    ASSUME PlaceInv, ThrowInsertionException,
           UNCHANGED <<queues, attempts, acked, errors, takenErrors, skipped, dropped, lost>>
    PROVE  PlaceInv'
<1>1. Held' = Held /\ \A w \in Workers : Queue(w)' = Queue(w)
  BY ToSetEmpty DEF ThrowInsertionException, HandBack, Held, Batch, Waiting, NoWire, Queue
<1> DEFINE InUse == Held \cup UNION {Queue(u) : u \in Workers}
<1>2. \A x : x \in InUse <=> x \in Held \/ \E u \in Workers : x \in Queue(u)
  OBVIOUS
<1>3. \A x : x \in InUse <=> x \in Held' \/ \E u \in Workers : x \in Queue(u)'
  BY <1>1, <1>2
<1> QED
  BY <1>2, <1>3, PlaceMoves

\* The answer: from the wire to the confirmed records, the errors to be listed and,
\* when one incorrect record keeps the batch out, to nowhere.
LEMMA PlaceAnswered ==
    ASSUME TypeInv, SeparateInv, CallInv, PlaceInv, NEW bad \in BadSets, AnswerArrives(bad)
    PROVE  PlaceInv'
<1> DEFINE kept == Accepted(bad)
           gone == (Batch \ bad) \ Accepted(bad)
<1>1. bad \subseteq Batch /\ kept \cap bad = {} /\ Batch = kept \cup bad \cup gone
      /\ kept \cap gone = {} /\ bad \cap gone = {} /\ Batch \subseteq Records
  <2>1. bad \subseteq Batch
    BY DEF BadSets
  <2>2. kept \subseteq Batch \ bad
    BY DEF Accepted
  <2> QED
    BY <2>1, <2>2, AcceptedTyped
<1>2. /\ UNCHANGED <<queues, remaining, attempts, handedBack, errorList, takenErrors, skipped,
                     dropped>>
      /\ acked' = acked \cup kept
      /\ unlisted = {} /\ unlisted' = bad
      /\ lost' = lost \cup gone
      /\ Batch' = {}
  BY ToSetEmpty DEF AnswerArrives, Batch, NoWire, CallInv, Sending, Listing
<1>3. Batch \cap Left = {}
  BY DEF PlaceInv, Held
<1> HIDE DEF kept, gone
<1>4. Waiting' = Waiting /\ Given' = Given /\ \A w \in Workers : Queue(w)' = Queue(w)
  BY <1>2 DEF Queue, Waiting, Given
<1>5. /\ Left' = Left \cup bad \cup gone
      /\ Held = Waiting \cup Batch \cup acked \cup handedBack
      /\ Held' = Waiting \cup acked \cup kept \cup handedBack
  BY <1>2, <1>4 DEF Left, Held
<1>6. \A w \in Workers : Queue(w)' \cap Left' = {}
  <2>1. \A w \in Workers : Queue(w) \cap Batch = {} /\ Queue(w) \cap Left = {}
    BY DEF SeparateInv, PlaceInv
  <2> QED
    BY <1>1, <1>4, <1>5, <2>1
<1>7. Held' \cap Left' = {}
  <2>1. (Waiting \cup acked \cup handedBack) \cap Batch = {}
    BY DEF SeparateInv
  <2>2. Held \cap Left = {}
    BY DEF PlaceInv
  <2> QED
    BY <1>1, <1>5, <2>1, <2>2
<1>8. /\ unlisted' \cap (errorList \cup takenErrors \cup skipped \cup dropped \cup lost)' = {}
      /\ errorList' \cap (takenErrors \cup skipped \cup dropped \cup lost)' = {}
      /\ takenErrors' \cap (skipped \cup dropped \cup lost)' = {}
      /\ skipped' \cap (dropped \cup lost)' = {}
      /\ dropped' \cap lost' = {}
  <2>1. \A r \in Batch : r \notin errorList /\ r \notin takenErrors /\ r \notin skipped
                         /\ r \notin dropped /\ r \notin lost
    BY <1>3 DEF Left
  <2>2. /\ errorList \cap (takenErrors \cup skipped \cup dropped \cup lost) = {}
        /\ takenErrors \cap (skipped \cup dropped \cup lost) = {}
        /\ skipped \cap (dropped \cup lost) = {}
        /\ dropped \cap lost = {}
    BY DEF PlaceInv
  <2> QED
    BY <1>1, <1>2, <2>1, <2>2
<1>9. \A r \in Left' : r \in Records /\ attempts'[r] > 0
  <2>1. \A r \in Batch : r \in Records /\ attempts[r] > 0
    BY <1>1 DEF SeparateInv
  <2>2. \A r \in Left : r \in Records /\ attempts[r] > 0
    BY DEF PlaceInv
  <2> QED
    BY <1>1, <1>2, <1>5, <2>1, <2>2
<1>10. \A r \in Given' : r \in Held' \cup Left' \/ \E w \in Workers : r \in Queue(w)'
  <2>1. Held \cup Left = Held' \cup Left'
    BY <1>1, <1>5
  <2> QED
    BY <1>4, <2>1 DEF PlaceInv
<1> QED
  BY <1>6, <1>7, <1>8, <1>9, <1>10 DEF PlaceInv

\* Records that are in use are left: ignored, cleared, or left behind by a key
\* that cannot be built.
LEMMA PlaceLeaves ==
    ASSUME TypeInv, SeparateInv, PlaceInv, InsertIgnored \/ InsertKeyRefused \/ FlushCleared
    PROVE  PlaceInv'
<1>1. PICK out :
        /\ \A w \in Workers : Queue(w)' \cap out = {}
        /\ Held' \cap out = {}
        /\ \A w \in Workers : Queue(w)' \subseteq Queue(w)
        /\ Held' \subseteq Held
        /\ \A r \in out : r \in Held \/ \E w \in Workers : r \in Queue(w)
        /\ \A r : r \in Held => r \in Held' \cup out
        /\ \A w \in Workers : \A r \in Queue(w) : r \in Queue(w)' \cup out
        /\ out \subseteq Records
        /\ Left' = Left \cup out
        /\ UNCHANGED <<attempts, errors, takenErrors>>
        /\ \/ dropped' = dropped \cup out /\ UNCHANGED <<skipped, lost>>
           \/ skipped' = skipped \cup out /\ UNCHANGED <<dropped, lost>>
           \/ lost' = lost \cup out /\ UNCHANGED <<skipped, dropped>>
  <2>1. CASE InsertIgnored
    <3> DEFINE out == {Head(remaining)}
    <3>1. /\ Waiting = out \cup Waiting' /\ out \cap Waiting' = {} /\ out \subseteq Records
      <4>1. remaining \in Seq(Records) /\ remaining # <<>> /\ remaining' = Tail(remaining)
        BY <2>1 DEF InsertIgnored, TypeInv
      <4>2. Head(remaining) \in Records
        BY <4>1, HeadTailProperties
      <4> QED
        BY <4>1, <4>2, ToSetTail DEF Waiting, SeparateInv
    <3>2. /\ dropped' = dropped \cup out
          /\ UNCHANGED <<attempts, acked, handedBack, errors, takenErrors, skipped, lost>>
          /\ Batch' = Batch /\ \A w \in Workers : Queue(w)' = Queue(w)
      BY <2>1 DEF InsertIgnored, Batch, Queue
    <3> HIDE DEF out
    <3>3. Left' = Left \cup out
      BY <3>2 DEF Left
    <3>4. /\ \A w \in Workers : Queue(w) \cap out = {}
          /\ (Batch \cup acked \cup handedBack) \cap out = {}
      BY <3>1 DEF SeparateInv
    <3>5. /\ Held' \cap out = {} /\ Held = Held' \cup out
      BY <3>1, <3>2, <3>4 DEF Held
    <3> QED
      BY <3>1, <3>2, <3>3, <3>4, <3>5
  <2>2. CASE InsertKeyRefused
    <3>1. /\ skipped' = skipped \cup Waiting /\ Waiting' = {}
          /\ UNCHANGED <<attempts, acked, handedBack, errors, takenErrors, dropped, lost>>
          /\ Batch' = Batch /\ \A w \in Workers : Queue(w)' = Queue(w)
      BY <2>2, ToSetEmpty DEF InsertKeyRefused, Batch, Queue, Waiting
    <3>2. Left' = Left \cup Waiting
      BY <3>1 DEF Left
    <3>3. /\ \A w \in Workers : Queue(w) \cap Waiting = {}
          /\ (Batch \cup acked \cup handedBack) \cap Waiting = {}
      BY DEF SeparateInv
    <3>4. /\ Held' \cap Waiting = {} /\ Held = Held' \cup Waiting
      BY <3>1, <3>3 DEF Held
    <3>5. Waiting \subseteq Records
      <4>1. remaining \in Seq(Records)
        BY DEF TypeInv
      <4> QED
        BY <4>1, ToSetFinite DEF Waiting
    <3> QED
      BY <3>1, <3>2, <3>3, <3>4, <3>5
  <2>3. CASE FlushCleared
    <3> PICK n \in Workers : n = nextQueue
      BY <2>3 DEF FlushCleared
    <3>1. /\ lost' = lost \cup Queue(n)
          /\ queues' = [queues EXCEPT ![n] = <<>>]
          /\ UNCHANGED <<attempts, remaining, wire, acked, handedBack, errors, takenErrors,
                         skipped, dropped>>
      BY <2>3 DEF FlushCleared, Queue
    <3>2. Queue(n)' = {} /\ \A u \in Workers : u # n => Queue(u)' = Queue(u)
      BY <3>1, ToSetEmpty DEF Queue, TypeInv
    <3>3. Left' = Left \cup Queue(n) /\ Held' = Held
      BY <3>1 DEF Left, Held, Waiting, Batch
    <3>4. /\ \A w \in Workers : w # n => Queue(w) \cap Queue(n) = {}
          /\ Held \cap Queue(n) = {}
      BY DEF SeparateInv, Held
    <3>5. Queue(n) \subseteq Records
      <4>1. queues[n] \in Seq(Records)
        BY DEF TypeInv
      <4> QED
        BY <4>1, ToSetFinite DEF Queue
    <3>6. \A w \in Workers : Queue(w)' \subseteq Queue(w) /\ Queue(w)' \cap Queue(n) = {}
      BY <3>2, <3>4
    <3>7. \A w \in Workers : \A r \in Queue(w) : r \in Queue(w)' \cup Queue(n)
      BY <3>2
    <3> QED
      BY <3>1, <3>3, <3>4, <3>5, <3>6, <3>7
  <2> QED
    BY <2>1, <2>2, <2>3
<1>2. \A r \in out : r \in Records /\ attempts[r] > 0 /\ r \notin Left
  BY <1>1 DEF SeparateInv, PlaceInv, Held
<1>3. \A w \in Workers : Queue(w)' \cap Left' = {}
  BY <1>1 DEF PlaceInv
<1>4. Held' \cap Left' = {}
  BY <1>1 DEF PlaceInv
<1>5. /\ unlisted' \cap (errorList \cup takenErrors \cup skipped \cup dropped \cup lost)' = {}
      /\ errorList' \cap (takenErrors \cup skipped \cup dropped \cup lost)' = {}
      /\ takenErrors' \cap (skipped \cup dropped \cup lost)' = {}
      /\ skipped' \cap (dropped \cup lost)' = {}
      /\ dropped' \cap lost' = {}
  <2>1. \A r \in out : /\ r \notin unlisted /\ r \notin errorList /\ r \notin takenErrors
                       /\ r \notin skipped /\ r \notin dropped /\ r \notin lost
    BY <1>2 DEF Left
  <2> QED
    BY <1>1, <2>1 DEF PlaceInv
<1>6. \A r \in Left' : r \in Records /\ attempts'[r] > 0
  BY <1>1, <1>2 DEF PlaceInv
<1>7. \A r \in Given' : r \in Held' \cup Left' \/ \E w \in Workers : r \in Queue(w)'
  <2> SUFFICES ASSUME NEW r \in Given
               PROVE  r \in Held' \cup Left' \/ \E w \in Workers : r \in Queue(w)'
    BY <1>1 DEF Given
  <2>1. r \in Held \cup Left \/ \E w \in Workers : r \in Queue(w)
    BY DEF PlaceInv
  <2> QED
    BY <1>1, <2>1
<1> QED
  BY <1>3, <1>4, <1>5, <1>6, <1>7 DEF PlaceInv

\* Every step leaves every given record in one place.
LEMMA PlaceStep ==
    TypeInv /\ SeparateInv /\ CallInv /\ PlaceInv /\ [Next]_vars => PlaceInv'
<1> SUFFICES ASSUME TypeInv, SeparateInv, CallInv, PlaceInv, [Next]_vars PROVE PlaceInv'
  OBVIOUS
<1>1. \/ UNCHANGED <<queues, remaining, wire, attempts, places, errors>>
      \/ InsertIgnored \/ InsertKeyRefused \/ FlushCleared
      \/ FlushQueue
      \/ \E v \in Vectors : Insert(v)
      \/ \E w \in Workers : InsertQueued(w)
      \/ \E bad \in BadSets : AnswerArrives(bad)
      \/ /\ ThrowInsertionException
         /\ UNCHANGED <<queues, attempts, acked, errors, takenErrors, skipped, dropped, lost>>
      \/ GetErrors
      \/ \E r \in Records : AddError(r)
  BY DEF Next, Step, Flush, InsertReturns, FlushReturns, AnswerLost, AnswerDone, SendFails, vars,
         call, places
<1>2. CASE UNCHANGED <<queues, remaining, wire, attempts, places, errors>>
  BY <1>2 DEF PlaceInv, Held, Left, Given, Queue, Waiting, Batch, places
<1>3. CASE GetErrors
  <2>1. /\ takenErrors' = takenErrors \cup errorList /\ errorList' = {}
        /\ UNCHANGED <<queues, remaining, wire, attempts, acked, handedBack, unlisted, skipped,
                       dropped, lost>>
    BY <1>3 DEF GetErrors, call
  <2>2. /\ Left' = Left /\ Held' = Held /\ Given' = Given
        /\ \A w \in Workers : Queue(w)' = Queue(w)
    BY <2>1 DEF Left, Held, Given, Waiting, Batch, Queue
  <2> QED
    BY <2>1, <2>2 DEF PlaceInv
<1>4. ASSUME NEW r \in Records, AddError(r) PROVE PlaceInv'
  <2>1. /\ r \in unlisted /\ unlisted' = unlisted \ {r} /\ errorList' = errorList \cup {r}
        /\ UNCHANGED <<queues, remaining, wire, attempts, places>>
    BY <1>4 DEF AddError, call
  <2>2. /\ Left' = Left /\ Held' = Held /\ Given' = Given
        /\ \A w \in Workers : Queue(w)' = Queue(w)
    BY <2>1 DEF Left, Held, Given, Waiting, Batch, Queue, places
  <2> QED
    BY <2>1, <2>2 DEF PlaceInv, places
<1> QED
  BY <1>1, <1>2, <1>3, <1>4, PlaceInsert, PlaceQueued, PlaceFlushed, PlaceHandedBack, PlaceAnswered,
     PlaceLeaves

\* The table holds what was confirmed and what an unanswered call has stored.
TableInv == InTable = acked \cup unheard

\* Every step leaves the table with these records.
LEMMA TableStep == TypeInv /\ TableInv /\ [Next]_vars => TableInv'
<1> SUFFICES ASSUME TypeInv, TableInv, [Next]_vars PROVE TableInv'
  OBVIOUS
<1>1. \/ UNCHANGED <<stored, acked, unheard>>
      \/ \E bad \in BadSets : AnswerArrives(bad) \/ AnswerLost(bad)
  BY DEF Next, Step, Insert, Flush, InsertIgnored, InsertKeyRefused, InsertReturns,
         InsertQueued, FlushCleared, FlushQueue, FlushReturns, AddError, AnswerDone, SendFails,
         GetErrors, vars, places
<1>2. ASSUME NEW bad \in BadSets, AnswerArrives(bad) \/ AnswerLost(bad) PROVE TableInv'
  <2>1. /\ wire.worker \in Workers
        /\ stored' = [stored EXCEPT ![wire.worker] = @ \cup Accepted(bad)]
        /\ \/ acked' = acked \cup Accepted(bad) /\ UNCHANGED unheard
           \/ unheard' = unheard \cup Accepted(bad) /\ UNCHANGED acked
    BY <1>2 DEF AnswerArrives, AnswerLost, Store, TypeInv
  <2>2. /\ stored'[wire.worker] = stored[wire.worker] \cup Accepted(bad)
        /\ \A w \in Workers : w # wire.worker => stored'[w] = stored[w]
    BY <2>1 DEF TypeInv
  <2>3. \A r : r \in InTable' <=> r \in InTable \cup Accepted(bad)
    BY <2>1, <2>2 DEF InTable
  <2> QED
    BY <2>1, <2>3 DEF TableInv
<1> QED
  BY <1>1, <1>2 DEF TableInv, InTable

\* What is added to a finite set and was not in it adds to its number.
LEMMA CardinalityAdds ==
    ASSUME NEW S, NEW T, IsFiniteSet(S), IsFiniteSet(T), S \cap T = {}
    PROVE  Cardinality(S \cup T) = Cardinality(S) + Cardinality(T)
<1>1. Cardinality(S) \in Nat /\ Cardinality(T) \in Nat
  BY FS_CardinalityType
<1>2. Cardinality(S \cap T) = 0
  BY FS_EmptySet
<1>3. Cardinality(S \cup T) = Cardinality(S) + Cardinality(T) - Cardinality(S \cap T)
  BY FS_Union
<1> QED
  BY <1>1, <1>2, <1>3

\* The counts: what an answer confirms was not confirmed before, and is in the
\* table already only through a call that was not answered. What such a call
\* stores is not confirmed.
LEMMA CountStep ==
    TypeInv /\ SeparateInv /\ TableInv /\ CountIsConfirmed /\ [Next]_vars => CountIsConfirmed'
<1> SUFFICES ASSUME TypeInv, SeparateInv, TableInv, CountIsConfirmed, [Next]_vars
             PROVE  CountIsConfirmed'
  OBVIOUS
<1>1. \/ UNCHANGED <<table, countInserted, countUpdated, acked, unheard>>
      \/ \E bad \in BadSets : AnswerArrives(bad) \/ AnswerLost(bad)
  BY DEF Next, Step, Insert, Flush, InsertIgnored, InsertKeyRefused, InsertReturns,
         InsertQueued, FlushCleared, FlushQueue, FlushReturns, AddError, AnswerDone, SendFails,
         GetErrors, vars, places
<1>2. ASSUME NEW bad \in BadSets PROVE acked \cap Accepted(bad) = {}
  BY AcceptedTyped DEF SeparateInv
<1>3. ASSUME NEW bad \in BadSets, AnswerArrives(bad) PROVE CountIsConfirmed'
  <2> DEFINE new == Accepted(bad)
  <2>1. /\ acked \cap new = {} /\ IsFiniteSet(acked) /\ IsFiniteSet(new)
    BY <1>2, AcceptedTyped DEF TypeInv
  <2>2. /\ acked' = acked \cup new /\ UNCHANGED <<table, unheard>>
        /\ countInserted' = countInserted + Cardinality(Inserted(bad))
        /\ countUpdated' = countUpdated + Cardinality(Updated(bad))
    BY <1>3 DEF AnswerArrives, AddCounts
  <2>3. /\ Inserted(bad) = (IF table = "noKey" THEN new ELSE new \ unheard)
        /\ Updated(bad) = (IF table = "upsert" THEN new \cap unheard ELSE {})
    BY <2>1 DEF Inserted, Updated, TableInv
  <2> HIDE DEF new
  <2>4. /\ IsFiniteSet(acked \ unheard) /\ IsFiniteSet(new \ unheard)
        /\ IsFiniteSet(acked \cap unheard) /\ IsFiniteSet(new \cap unheard)
    BY <2>1, FS_Subset
  <2>5. Cardinality({}) = 0
    BY FS_EmptySet
  <2>6. Cardinality(acked \cup new) = Cardinality(acked) + Cardinality(new)
    BY <2>1, CardinalityAdds
  <2>7. Cardinality((acked \cup new) \ unheard)
          = Cardinality(acked \ unheard) + Cardinality(new \ unheard)
    <3>1. (acked \cup new) \ unheard = (acked \ unheard) \cup (new \ unheard)
          /\ (acked \ unheard) \cap (new \ unheard) = {}
      BY <2>1
    <3> QED
      BY <2>4, <3>1, CardinalityAdds
  <2>8. Cardinality((acked \cup new) \cap unheard)
          = Cardinality(acked \cap unheard) + Cardinality(new \cap unheard)
    <3>1. (acked \cup new) \cap unheard = (acked \cap unheard) \cup (new \cap unheard)
          /\ (acked \cap unheard) \cap (new \cap unheard) = {}
      BY <2>1
    <3> QED
      BY <2>4, <3>1, CardinalityAdds
  <2>9. countInserted' = Cardinality(IF table = "noKey" THEN acked' ELSE acked' \ unheard)
    BY <2>2, <2>3, <2>6, <2>7 DEF CountIsConfirmed
  <2>10. countUpdated' = Cardinality(IF table = "upsert" THEN acked' \cap unheard ELSE {})
    <3>1. CASE table = "upsert"
      BY <2>2, <2>3, <2>8, <3>1 DEF CountIsConfirmed
    <3>2. CASE table # "upsert"
      BY <2>2, <2>3, <2>5, <3>2 DEF CountIsConfirmed
    <3> QED
      BY <3>1, <3>2
  <2> QED
    BY <2>2, <2>9, <2>10 DEF CountIsConfirmed
<1>4. ASSUME NEW bad \in BadSets, AnswerLost(bad) PROVE CountIsConfirmed'
  <2>1. unheard' = unheard \cup Accepted(bad) /\ UNCHANGED <<table, counts, acked>>
    BY <1>4 DEF AnswerLost
  <2>2. acked \ unheard' = acked \ unheard /\ acked \cap unheard' = acked \cap unheard
    BY <1>2, <2>1
  <2> QED
    BY <2>1, <2>2 DEF CountIsConfirmed
<1> QED
  BY <1>1, <1>3, <1>4 DEF CountIsConfirmed

\* A sequence holds no more records than it is long.
LEMMA ToSetNumber ==
    ASSUME NEW S, NEW s \in Seq(S)
    PROVE  Cardinality(ToSet(s)) <= Len(s)
<1>1. Len(s) \in Nat /\ DOMAIN s = 1..Len(s) /\ s \in [1..Len(s) -> S]
  BY LenProperties
<1>2. s \in Surjection(1..Len(s), ToSet(s))
  BY <1>1 DEF ToSet, Surjection
<1>3. IsFiniteSet(1..Len(s)) /\ Cardinality(1..Len(s)) = Len(s)
  BY <1>1, FS_Interval
<1> QED
  BY <1>2, <1>3, FS_Surjection

\* An answer has no more errors than a batch has records.
ErrorsInv == Cardinality(unlisted) <= BatchSize

\* Every step leaves no more errors to be listed than that.
LEMMA ErrorsStep == TypeInv /\ QueueBelowBatch /\ ErrorsInv /\ [Next]_vars => ErrorsInv'
<1> SUFFICES ASSUME TypeInv, QueueBelowBatch, ErrorsInv, [Next]_vars PROVE ErrorsInv'
  OBVIOUS
<1>1. \/ UNCHANGED unlisted
      \/ \E bad \in BadSets : AnswerArrives(bad)
      \/ \E r \in Records : AddError(r)
  BY DEF Next, Step, Insert, Flush, InsertIgnored, InsertKeyRefused, InsertReturns,
         InsertQueued, FlushCleared, FlushQueue, FlushReturns, AnswerLost, AnswerDone, SendFails,
         GetErrors, vars
<1>2. ASSUME NEW bad \in BadSets, AnswerArrives(bad) PROVE ErrorsInv'
  <2>1. wire.batch \in Seq(Records) /\ Len(wire.batch) \in Nat /\ Len(wire.batch) <= BatchSize
    BY LenProperties DEF TypeInv, QueueBelowBatch
  <2>2. IsFiniteSet(Batch) /\ bad \subseteq Batch
    BY <2>1, ToSetFinite, AcceptedTyped DEF Batch
  <2>3. Cardinality(bad) <= Cardinality(Batch) /\ Cardinality(Batch) <= Len(wire.batch)
    BY <2>1, <2>2, FS_Subset, ToSetNumber DEF Batch
  <2>4. Cardinality(bad) \in Nat /\ Cardinality(Batch) \in Nat
    BY <2>2, FS_Subset, FS_CardinalityType
  <2> QED
    BY <1>2, <2>1, <2>3, <2>4 DEF AnswerArrives, ErrorsInv
<1>3. ASSUME NEW r \in Records, AddError(r) PROVE ErrorsInv'
  <2>1. unlisted' = unlisted \ {r} /\ r \in unlisted
    BY <1>3 DEF AddError
  <2>2. Cardinality(unlisted) \in Nat /\ Cardinality(unlisted \ {r}) = Cardinality(unlisted) - 1
    BY <2>1, FS_CardinalityType, FS_RemoveElement DEF TypeInv
  <2> QED
    BY <2>1, <2>2 DEF ErrorsInv
<1> QED
  BY <1>1, <1>2, <1>3 DEF ErrorsInv

-----------------------------------------------------------------------------
(* The inductive invariant, and what follows from it.                       *)

IngestorInv ==
    /\ TypeInv
    /\ QueueBelowBatch
    /\ HomeInv
    /\ FlushInv
    /\ SeparateInv
    /\ CallInv
    /\ OnceInv
    /\ PlaceInv
    /\ HolesInv
    /\ TableInv
    /\ CountIsConfirmed
    /\ ErrorsInv

\* All parts of the invariant when the ingestor begins.
LEMMA InitInv == Init => IngestorInv
<1> SUFFICES ASSUME Init PROVE IngestorInv
  OBVIOUS
<1>1. TypeInv
  BY InitTyped
<1>2. /\ Waiting = {} /\ Batch = {} /\ \A w \in Workers : Queue(w) = {}
      /\ IsInjective(remaining)
  BY ToSetEmpty DEF Init, Waiting, Batch, Queue, NoWire, IsInjective
<1>3. HomeInv /\ SeparateInv
  BY <1>2 DEF Init, HomeInv, SeparateInv, StoredAtHome
<1>4. FlushInv /\ HolesInv /\ TableInv
  BY DEF Init, FlushInv, HolesInv, TableInv, InTable
<1>5. CountIsConfirmed
  BY FS_EmptySet DEF Init, CountIsConfirmed
<1>6. QueueBelowBatch
  BY DEF Init, QueueBelowBatch, NoWire
<1>7. CallInv /\ OnceInv
  BY DEF Init, CallInv, OnceInv, NoWire, IsInjective
<1>8. Left = {} /\ Given = {}
  BY DEF Init, Left, Given
<1>9. PlaceInv
  BY <1>8 DEF Init, PlaceInv
<1>10. ErrorsInv
  BY FS_EmptySet DEF Init, ErrorsInv
<1> QED
  BY <1>1, <1>3, <1>4, <1>5, <1>6, <1>7, <1>9, <1>10 DEF IngestorInv

\* All parts of the invariant after any step.
LEMMA StepInv == IngestorInv /\ [Next]_vars => IngestorInv'
  BY NextTyped, BatchStep, HomeStep, FlushStep, SeparateStep, CallStep, OnceStep, PlaceStep,
     HolesStep, TableStep, CountStep, ErrorsStep
     DEF IngestorInv

(* The invariant holds in every reachable state.                              *)
LEMMA InvariantHolds == Spec => []IngestorInv
  BY InitInv, StepInv, PTL DEF Spec

(* WorkerQueue::insert and the private flush: no queue reaches the batch size *)
(* between two records and no call carries more, whatever the batch size.     *)
THEOREM BatchCorrect == Spec => []QueueBelowBatch
<1>1. IngestorInv => QueueBelowBatch
  BY DEF IngestorInv
<1> QED
  BY <1>1, InvariantHolds, PTL

(* A record is only stored by the worker its shard key routes to, over every  *)
(* order of full queues, flushes, failures and retries.                       *)
THEOREM HomeCorrect == Spec => []StoredAtHome
<1>1. IngestorInv => StoredAtHome
  BY DEF IngestorInv, HomeInv
<1> QED
  BY <1>1, InvariantHolds, PTL

(* Once the errors of an answer are listed, records vanish without an         *)
(* exception in error mode only: for no other combination of insert options   *)
(* and answers.                                                               *)
THEOREM HolesCorrect == Spec => []HolesOnlyInErrorMode
<1>1. IngestorInv => HolesOnlyInErrorMode
  BY DEF IngestorInv, HolesInv, HolesOnlyInErrorMode
<1> QED
  BY <1>1, InvariantHolds, PTL

(* No record is in two places of the ingestor, or in one of them while it is  *)
(* confirmed or back with the application.                                    *)
THEOREM SeparateCorrect == Spec => []SeparateInv
<1>1. IngestorInv => SeparateInv
  BY DEF IngestorInv
<1> QED
  BY <1>1, InvariantHolds, PTL

\* The index of a record in a sequence that does not have it twice.
LEMMA IndexOnce ==
    ASSUME NEW S, NEW s \in Seq(S), IsInjective(s), NEW r
    PROVE  /\ r \notin ToSet(s) => Indices(s, r) = {}
           /\ r \in ToSet(s) => \E i : Indices(s, r) = {i}
<1>1. r \notin ToSet(s) => Indices(s, r) = {}
  BY DEF Indices, ToSet
<1>2. ASSUME r \in ToSet(s) PROVE \E i : Indices(s, r) = {i}
  <2>1. PICK i \in DOMAIN s : s[i] = r
    BY <1>2 DEF ToSet
  <2>2. \A j \in DOMAIN s : s[j] = r => j = i
    BY <2>1 DEF IsInjective
  <2>3. Indices(s, r) = {i}
    BY <2>1, <2>2 DEF Indices
  <2> QED
    BY <2>3
<1> QED
  BY <1>1, <1>2

\* What PlacesOf has of the vector, the queues, the wire and the sets.
WaitingPlaces(r) == {<<"remaining", 0, i>> : i \in Indices(remaining, r)}
QueuePlaces(r) == UNION {{<<"queue", w, i>> : i \in Indices(queues[w], r)} : w \in Workers}
WirePlaces(r) == {<<"wire", 0, i>> : i \in Indices(wire.batch, r)}
SetPlaces(r) == {<<s, 0, 0>> : s \in {n \in DOMAIN Sets : r \in Sets[n]}}

\* Each of the four is empty for a record that is not there, and has one place
\* for a record that is.
LEMMA PartsOfPlaces ==
    ASSUME IngestorInv, NEW r \in Records
    PROVE  /\ PlacesOf(r) = WaitingPlaces(r) \cup QueuePlaces(r) \cup WirePlaces(r) \cup SetPlaces(r)
           /\ r \notin Waiting => WaitingPlaces(r) = {}
           /\ r \in Waiting => \E p : WaitingPlaces(r) = {p}
           /\ (\A w \in Workers : r \notin Queue(w)) => QueuePlaces(r) = {}
           /\ \A w \in Workers : r \in Queue(w) => \E p : QueuePlaces(r) = {p}
           /\ r \notin Batch => WirePlaces(r) = {}
           /\ r \in Batch => \E p : WirePlaces(r) = {p}
           /\ r \notin acked \cup handedBack \cup Left => SetPlaces(r) = {}
           /\ r \in acked \cup handedBack \cup Left => \E p : SetPlaces(r) = {p}
<1>1. PlacesOf(r) = WaitingPlaces(r) \cup QueuePlaces(r) \cup WirePlaces(r) \cup SetPlaces(r)
  BY Zenon DEF PlacesOf, WaitingPlaces, QueuePlaces, WirePlaces, SetPlaces
<1> USE DEF IngestorInv
<1>2. /\ remaining \in Seq(Records) /\ IsInjective(remaining)
      /\ wire.batch \in Seq(Records) /\ IsInjective(wire.batch)
      /\ \A w \in Workers : queues[w] \in Seq(Records) /\ IsInjective(queues[w])
  BY DEF TypeInv, SeparateInv, OnceInv
<1>3. /\ r \notin Waiting => WaitingPlaces(r) = {}
      /\ r \in Waiting => \E p : WaitingPlaces(r) = {p}
  <2>1. r \notin Waiting => Indices(remaining, r) = {}
    BY <1>2, IndexOnce DEF Waiting
  <2>2. ASSUME r \in Waiting PROVE \E p : WaitingPlaces(r) = {p}
    <3>1. PICK i : Indices(remaining, r) = {i}
      BY <1>2, <2>2, IndexOnce DEF Waiting
    <3>2. WaitingPlaces(r) = {<<"remaining", 0, i>>}
      BY <3>1 DEF WaitingPlaces
    <3> QED
      BY <3>2
  <2> QED
    BY <2>1, <2>2 DEF WaitingPlaces
<1>4. /\ r \notin Batch => WirePlaces(r) = {}
      /\ r \in Batch => \E p : WirePlaces(r) = {p}
  <2>1. r \notin Batch => Indices(wire.batch, r) = {}
    BY <1>2, IndexOnce DEF Batch
  <2>2. ASSUME r \in Batch PROVE \E p : WirePlaces(r) = {p}
    <3>1. PICK i : Indices(wire.batch, r) = {i}
      BY <1>2, <2>2, IndexOnce DEF Batch
    <3>2. WirePlaces(r) = {<<"wire", 0, i>>}
      BY <3>1 DEF WirePlaces
    <3> QED
      BY <3>2
  <2> QED
    BY <2>1, <2>2 DEF WirePlaces
<1>5. \A w \in Workers : r \notin Queue(w) => Indices(queues[w], r) = {}
  BY <1>2, IndexOnce DEF Queue
<1>6. (\A w \in Workers : r \notin Queue(w)) => QueuePlaces(r) = {}
  BY <1>5 DEF QueuePlaces
<1>7. ASSUME NEW w \in Workers, r \in Queue(w) PROVE \E p : QueuePlaces(r) = {p}
  <2>1. PICK i : Indices(queues[w], r) = {i}
    BY <1>2, <1>7, IndexOnce DEF Queue
  <2>2. \A u \in Workers : u # w => Indices(queues[u], r) = {}
    BY <1>5, <1>7 DEF SeparateInv
  <2>3. QueuePlaces(r) = {<<"queue", w, i>>}
    <3>1. \A p \in QueuePlaces(r) : p = <<"queue", w, i>>
      BY <2>1, <2>2 DEF QueuePlaces
    <3>2. <<"queue", w, i>> \in QueuePlaces(r)
      BY <2>1 DEF QueuePlaces
    <3> QED
      BY <3>1, <3>2
  <2> QED
    BY <2>3
<1>8. /\ r \notin acked \cup handedBack \cup Left => SetPlaces(r) = {}
      /\ r \in acked \cup handedBack \cup Left => \E p : SetPlaces(r) = {p}
  <2> DEFINE Names == {n \in DOMAIN Sets : r \in Sets[n]}
  <2>1. /\ DOMAIN Sets = {"acked", "handedBack", "unlisted", "errorList", "takenErrors",
                          "skipped", "dropped", "lost"}
        /\ Sets["acked"] = acked /\ Sets["handedBack"] = handedBack
        /\ Sets["unlisted"] = unlisted
        /\ Sets["errorList"] = errorList /\ Sets["takenErrors"] = takenErrors
        /\ Sets["skipped"] = skipped /\ Sets["dropped"] = dropped /\ Sets["lost"] = lost
    BY DEF Sets
  <2>2. r \notin acked \cup handedBack \cup Left => Names = {}
    BY <2>1 DEF Left
  <2>3. ASSUME r \in acked \cup handedBack \cup Left PROVE \E n : Names = {n}
    <3>1. /\ acked \cap handedBack = {}
          /\ (acked \cup handedBack) \cap Left = {}
          /\ unlisted \cap (errorList \cup takenErrors \cup skipped \cup dropped \cup lost) = {}
          /\ errorList \cap (takenErrors \cup skipped \cup dropped \cup lost) = {}
          /\ takenErrors \cap (skipped \cup dropped \cup lost) = {}
          /\ skipped \cap (dropped \cup lost) = {}
          /\ dropped \cap lost = {}
      BY DEF SeparateInv, PlaceInv, Held
    <3>2. CASE r \in acked
      <4>1. Names = {"acked"}
        BY <2>1, <3>1, <3>2 DEF Left
      <4> QED
        BY <4>1
    <3>3. CASE r \in handedBack
      <4>1. Names = {"handedBack"}
        BY <2>1, <3>1, <3>3 DEF Left
      <4> QED
        BY <4>1
    <3>4. CASE r \in errorList
      <4>1. Names = {"errorList"}
        BY <2>1, <3>1, <3>4 DEF Left
      <4> QED
        BY <4>1
    <3>5. CASE r \in takenErrors
      <4>1. Names = {"takenErrors"}
        BY <2>1, <3>1, <3>5 DEF Left
      <4> QED
        BY <4>1
    <3>6. CASE r \in skipped
      <4>1. Names = {"skipped"}
        BY <2>1, <3>1, <3>6 DEF Left
      <4> QED
        BY <4>1
    <3>7. CASE r \in dropped
      <4>1. Names = {"dropped"}
        BY <2>1, <3>1, <3>7 DEF Left
      <4> QED
        BY <4>1
    <3>8. CASE r \in lost
      <4>1. Names = {"lost"}
        BY <2>1, <3>1, <3>8 DEF Left
      <4> QED
        BY <4>1
    <3>9. CASE r \in unlisted
      <4>1. Names = {"unlisted"}
        BY <2>1, <3>1, <3>9 DEF Left
      <4> QED
        BY <4>1
    <3> QED
      BY <2>3, <3>2, <3>3, <3>4, <3>5, <3>6, <3>7, <3>8, <3>9 DEF Left
  <2>4. SetPlaces(r) = {<<s, 0, 0>> : s \in Names}
    BY DEF SetPlaces
  <2> HIDE DEF Names
  <2>5. r \notin acked \cup handedBack \cup Left => SetPlaces(r) = {}
    BY <2>2, <2>4
  <2>6. ASSUME r \in acked \cup handedBack \cup Left PROVE \E p : SetPlaces(r) = {p}
    <3>1. PICK n : Names = {n}
      BY <2>3, <2>6
    <3>2. SetPlaces(r) = {<<n, 0, 0>>}
      BY <2>4, <3>1
    <3> QED
      BY <3>2
  <2> QED
    BY <2>5, <2>6
<1> QED
  BY <1>1, <1>3, <1>4, <1>6, <1>7, <1>8

(* Every record ever given to insert is in exactly one place, whatever the    *)
(* numbers of records, workers and retries and whatever fails in between: it  *)
(* waits, is queued once, on the wire, confirmed, with the application, among *)
(* the errors, or in one of the named holes.                                  *)
THEOREM OnePlaceCorrect == Spec => []InOnePlace
<1>1. IngestorInv => InOnePlace
  <2> SUFFICES ASSUME IngestorInv, NEW r \in Given PROVE Cardinality(PlacesOf(r)) = 1
    BY DEF InOnePlace
  <2>1. r \in Records
    BY DEF Given
  <2>2. /\ \A w \in Workers : r \in Queue(w) =>
               r \notin Waiting \cup Batch \cup acked \cup handedBack \cup Left
        /\ r \in Waiting => r \notin Batch \cup acked \cup handedBack \cup Left
        /\ r \in Batch => r \notin acked \cup handedBack \cup Left
        /\ r \in Waiting \cup Batch \cup acked \cup handedBack \cup Left
             \/ \E w \in Workers : r \in Queue(w)
    BY DEF IngestorInv, SeparateInv, PlaceInv, Held
  <2>3. \E p : PlacesOf(r) = {p}
    <3>1. CASE \E w \in Workers : r \in Queue(w)
      <4>1. WaitingPlaces(r) = {} /\ WirePlaces(r) = {} /\ SetPlaces(r) = {}
        BY <2>1, <2>2, <3>1, PartsOfPlaces
      <4>2. \E p : QueuePlaces(r) = {p}
        BY <2>1, <3>1, PartsOfPlaces
      <4>3. PlacesOf(r) = QueuePlaces(r)
        BY <2>1, <4>1, PartsOfPlaces
      <4> QED
        BY <4>2, <4>3
    <3>2. CASE r \in Waiting
      <4>1. QueuePlaces(r) = {} /\ WirePlaces(r) = {} /\ SetPlaces(r) = {}
        BY <2>1, <2>2, <3>2, PartsOfPlaces
      <4>2. \E p : WaitingPlaces(r) = {p}
        BY <2>1, <3>2, PartsOfPlaces
      <4>3. PlacesOf(r) = WaitingPlaces(r)
        BY <2>1, <4>1, PartsOfPlaces
      <4> QED
        BY <4>2, <4>3
    <3>3. CASE r \in Batch
      <4>1. WaitingPlaces(r) = {} /\ QueuePlaces(r) = {} /\ SetPlaces(r) = {}
        BY <2>1, <2>2, <3>3, PartsOfPlaces
      <4>2. \E p : WirePlaces(r) = {p}
        BY <2>1, <3>3, PartsOfPlaces
      <4>3. PlacesOf(r) = WirePlaces(r)
        BY <2>1, <4>1, PartsOfPlaces
      <4> QED
        BY <4>2, <4>3
    <3>4. CASE r \in acked \cup handedBack \cup Left
      <4>1. WaitingPlaces(r) = {} /\ QueuePlaces(r) = {} /\ WirePlaces(r) = {}
        BY <2>1, <2>2, <3>4, PartsOfPlaces
      <4>2. \E p : SetPlaces(r) = {p}
        BY <2>1, <3>4, PartsOfPlaces
      <4>3. PlacesOf(r) = SetPlaces(r)
        BY <2>1, <4>1, PartsOfPlaces
      <4> QED
        BY <4>2, <4>3
    <3> QED
      BY <2>2, <3>1, <3>2, <3>3, <3>4
  <2> QED
    BY <2>3, FS_Singleton
<1> QED
  BY <1>1, InvariantHolds, PTL

(* m_count_inserted and m_count_updated over any number of failed calls, lost *)
(* answers and retries: without a primary key every confirmed record counts   *)
(* once; with one, the records an unanswered call had stored before count as  *)
(* updated, or not at all.                                                    *)
THEOREM CountCorrect == Spec => []CountIsConfirmed
<1>1. IngestorInv => CountIsConfirmed
  BY DEF IngestorInv
<1> QED
  BY <1>1, InvariantHolds, PTL

(* flush() that returns, and not by an exception, leaves every queue empty.   *)
THEOREM FlushCorrect == Spec => FlushEmptiesQueues
<1>1. IngestorInv /\ [Next]_vars =>
        [(pc = "flush" /\ pc' = "idle") => \A w \in Workers : queues'[w] = <<>>]_vars
  <2> SUFFICES ASSUME IngestorInv, [Next]_vars, pc = "flush", pc' = "idle"
               PROVE  \A w \in Workers : queues'[w] = <<>>
    OBVIOUS
  <2>1. FlushReturns
    BY DEF Next, Step, Insert, Flush, InsertIgnored, InsertKeyRefused, InsertReturns,
           InsertQueued, FlushCleared, FlushQueue, AnswerArrives, AnswerLost, AddError,
           AnswerDone, Listing, SendFails, Sending, GetErrors, vars, call
  <2>2. nextQueue > W /\ UNCHANGED queues
    BY <2>1 DEF FlushReturns, FlushEnd
  <2>3. \A w \in Workers : w < nextQueue
    BY <2>2 DEF IngestorInv, TypeInv, Workers
  <2> QED
    BY <2>2, <2>3 DEF IngestorInv, FlushInv
<1> QED
  BY <1>1, InvariantHolds, PTL DEF Spec, FlushEmptiesQueues

-----------------------------------------------------------------------------
(* The end of a call. CallEnds needs fairness and stays with TLC; what it    *)
(* rests on, apart from that, is a number that falls.                        *)

\* How many steps the call under way may still take, without those that list an
\* error: for each record or queue to come one to queue or take it, one for a
\* network call in between and one to go on after its errors; and one to return.
StepsLeft ==
    CASE pc = "insert"     -> 3 * Len(remaining) + 1
      [] pc = "sendInsert" -> 3 * Len(remaining) + 3
      [] pc = "listInsert" -> 3 * Len(remaining) + 2
      [] pc = "flush"      -> 3 * (W + 1 - nextQueue) + 1
      [] pc = "sendFlush"  -> 3 * (W + 1 - nextQueue) + 3
      [] pc = "listFlush"  -> 3 * (W + 1 - nextQueue) + 2
      [] OTHER             -> 0

\* The value of StepsLeft at each place of a call.
StepsLeftCases ==
    /\ pc = "insert" => StepsLeft = 3 * Len(remaining) + 1
    /\ pc = "sendInsert" => StepsLeft = 3 * Len(remaining) + 3
    /\ pc = "listInsert" => StepsLeft = 3 * Len(remaining) + 2
    /\ pc = "flush" => StepsLeft = 3 * (W + 1 - nextQueue) + 1
    /\ pc = "sendFlush" => StepsLeft = 3 * (W + 1 - nextQueue) + 3
    /\ pc = "listFlush" => StepsLeft = 3 * (W + 1 - nextQueue) + 2
    /\ pc = "idle" => StepsLeft = 0
    /\ Len(remaining) \in Nat
    /\ W + 1 - nextQueue \in Nat
    /\ StepsLeft \in Nat
    /\ StepsLeft = 0 <=> pc = "idle"

\* No call has a negative number of records or queues to come.
LEMMA StepsLeftValues == TypeInv => StepsLeftCases
<1> SUFFICES ASSUME TypeInv PROVE StepsLeftCases
  OBVIOUS
<1>1. Len(remaining) \in Nat /\ W + 1 - nextQueue \in Nat
  BY LenProperties DEF TypeInv
<1>2. /\ pc = "insert" => StepsLeft = 3 * Len(remaining) + 1
      /\ pc = "sendInsert" => StepsLeft = 3 * Len(remaining) + 3
      /\ pc = "listInsert" => StepsLeft = 3 * Len(remaining) + 2
      /\ pc = "flush" => StepsLeft = 3 * (W + 1 - nextQueue) + 1
      /\ pc = "sendFlush" => StepsLeft = 3 * (W + 1 - nextQueue) + 3
      /\ pc = "listFlush" => StepsLeft = 3 * (W + 1 - nextQueue) + 2
      /\ pc = "idle" => StepsLeft = 0
  BY DEF StepsLeft
<1> QED
  BY <1>1, <1>2 DEF StepsLeftCases, TypeInv, Places

\* A step that lists an error leaves one error less; it leaves the other number.
Lists ==
    /\ Cardinality(unlisted') < Cardinality(unlisted)
    /\ StepsLeft' = StepsLeft

\* Every step of a call that is under way, its failures included, lowers the
\* number or lists an error; getErrors in another thread leaves both numbers.
LEMMA StepsLeftFall ==
    ASSUME TypeInv, [Next]_vars
    PROVE  /\ Step => StepsLeft' < StepsLeft \/ Lists
           /\ pc # "idle" => StepsLeft' <= StepsLeft
<1>1. TypeInv'
  BY NextTyped
<1> DEFINE n == Len(remaining)
           m == W + 1 - nextQueue
<1>2. /\ pc = "insert" => StepsLeft = 3 * n + 1
      /\ pc = "sendInsert" => StepsLeft = 3 * n + 3
      /\ pc = "listInsert" => StepsLeft = 3 * n + 2
      /\ pc = "flush" => StepsLeft = 3 * m + 1
      /\ pc = "sendFlush" => StepsLeft = 3 * m + 3
      /\ pc = "listFlush" => StepsLeft = 3 * m + 2
      /\ n \in Nat /\ m \in Nat /\ StepsLeft \in Nat
  BY StepsLeftValues DEF StepsLeftCases
<1>3. /\ pc' = "insert" => StepsLeft' = 3 * n' + 1
      /\ pc' = "sendInsert" => StepsLeft' = 3 * n' + 3
      /\ pc' = "listInsert" => StepsLeft' = 3 * n' + 2
      /\ pc' = "flush" => StepsLeft' = 3 * m' + 1
      /\ pc' = "sendFlush" => StepsLeft' = 3 * m' + 3
      /\ pc' = "listFlush" => StepsLeft' = 3 * m' + 2
      /\ pc' = "idle" => StepsLeft' = 0
      /\ n' \in Nat /\ m' \in Nat /\ StepsLeft' \in Nat
  <2>1. TypeInv' => StepsLeftCases'
    BY StepsLeftValues, PTL
  <2> QED
    BY <1>1, <2>1 DEF StepsLeftCases
<1>4. /\ remaining \in Seq(Records)
      /\ remaining # <<>> /\ remaining' = Tail(remaining) => n' = n - 1 /\ n > 0
  BY LenProperties, HeadTailProperties, EmptySeq DEF TypeInv
<1>5. nextQueue \in Nat /\ W \in Nat
  BY DEF TypeInv
<1>6. nextQueue' = nextQueue + 1 => m' = m - 1
  BY <1>5
<1> HIDE DEF n, m
<1>7. CASE InsertIgnored
  <2>1. pc = "insert" /\ pc' = "insert" /\ n' = n - 1
    BY <1>4, <1>7 DEF InsertIgnored
  <2> QED
    BY <1>2, <1>3, <2>1
<1>8. CASE InsertKeyRefused \/ InsertReturns
  <2>1. pc = "insert" /\ pc' = "idle"
    BY <1>8 DEF InsertKeyRefused, InsertReturns
  <2> QED
    BY <1>2, <1>3, <2>1
<1>9. ASSUME NEW w \in Workers, InsertQueued(w) PROVE StepsLeft' < StepsLeft
  <2>1. pc = "insert" /\ n' = n - 1 /\ pc' \in {"insert", "sendInsert"}
    BY <1>4, <1>9 DEF InsertQueued
  <2> QED
    BY <1>2, <1>3, <2>1
<1>10. CASE FlushCleared \/ FlushQueue
  <2>1. pc = "flush" /\ m' = m - 1 /\ pc' \in {"flush", "sendFlush"}
    BY <1>6, <1>10 DEF FlushCleared, FlushQueue
  <2> QED
    BY <1>2, <1>3, <2>1
<1>11. CASE FlushReturns
  <2>1. pc = "flush" /\ pc' = "idle"
    BY <1>11 DEF FlushReturns
  <2> QED
    BY <1>2, <1>3, <2>1
<1>12. ASSUME NEW bad \in BadSets, AnswerArrives(bad) PROVE StepsLeft' < StepsLeft
  <2>1. /\ UNCHANGED <<remaining, nextQueue>>
        /\ \/ pc = "sendInsert" /\ pc' = "listInsert"
           \/ pc = "sendFlush" /\ pc' = "listFlush"
    BY <1>12 DEF AnswerArrives, Sending
  <2>2. n' = n /\ m' = m
    BY <2>1 DEF n, m
  <2> QED
    BY <1>2, <1>3, <2>1, <2>2
<1>13. ASSUME NEW bad \in BadSets, AnswerLost(bad) \/ SendFails PROVE StepsLeft' < StepsLeft
  <2>1. pc \in {"sendInsert", "sendFlush"} /\ pc' = "idle"
    BY <1>13 DEF AnswerLost, SendFails, ThrowInsertionException, Sending
  <2> QED
    BY <1>2, <1>3, <2>1
<1>a. CASE AnswerDone
  <2>1. /\ UNCHANGED <<remaining, nextQueue>>
        /\ \/ pc = "listInsert" /\ pc' = "insert"
           \/ pc = "listFlush" /\ pc' = "flush"
    BY <1>a DEF AnswerDone, Listing
  <2>2. n' = n /\ m' = m
    BY <2>1 DEF n, m
  <2> QED
    BY <1>2, <1>3, <2>1, <2>2
<1>b. ASSUME NEW r \in Records, AddError(r) PROVE Lists
  <2>1. r \in unlisted /\ unlisted' = unlisted \ {r} /\ UNCHANGED call
    BY <1>b DEF AddError
  <2>2. Cardinality(unlisted) \in Nat /\ Cardinality(unlisted \ {r}) = Cardinality(unlisted) - 1
    BY <2>1, FS_CardinalityType, FS_RemoveElement DEF TypeInv
  <2>3. StepsLeft' = StepsLeft
    BY <2>1 DEF call, StepsLeft
  <2> QED
    BY <2>1, <2>2, <2>3 DEF Lists
<1>14. Step => StepsLeft' < StepsLeft \/ Lists
  <2>1. {} \in BadSets
    BY DEF BadSets
  <2> QED
    BY <1>7, <1>8, <1>9, <1>10, <1>11, <1>12, <1>13, <1>a, <1>b, <2>1 DEF Step
<1>15. GetErrors \/ UNCHANGED vars => StepsLeft' = StepsLeft
  BY DEF GetErrors, vars, call, StepsLeft
<1>16. (\E v \in Vectors : Insert(v)) \/ Flush => pc = "idle"
  BY DEF Insert, Flush
<1>17. pc # "idle" => StepsLeft' <= StepsLeft
  BY <1>2, <1>3, <1>14, <1>15, <1>16 DEF Next, Lists
<1> QED
  BY <1>14, <1>17

(* insert and flush end: no step of a call brings it back to a record or a    *)
(* queue it has passed, whatever fails in between. From the first step of     *)
(* insert with n records at most 3n + 1 follow, and from that of flush at     *)
(* most 3W + 1, and one for each error an answer brings, of which there are   *)
(* no more than a batch has records; the fairness of the thread and of the    *)
(* network grants each of them.                                               *)
THEOREM CallProgress ==
    Spec => /\ [](/\ StepsLeft \in Nat /\ (StepsLeft = 0 <=> pc = "idle")
                  /\ Cardinality(unlisted) \in 0..BatchSize)
            /\ [][/\ Step => \/ StepsLeft' < StepsLeft
                           \/ /\ StepsLeft' = StepsLeft
                              /\ Cardinality(unlisted') < Cardinality(unlisted)
                  /\ pc # "idle" => StepsLeft' <= StepsLeft]_vars
            /\ [][/\ \A v \in Vectors : Insert(v) => StepsLeft' = 3 * Len(v) + 1
                  /\ Flush => StepsLeft' = 3 * W + 1]_vars
<1>1. IngestorInv => /\ StepsLeft \in Nat /\ (StepsLeft = 0 <=> pc = "idle")
                     /\ Cardinality(unlisted) \in 0..BatchSize
  <2> SUFFICES ASSUME IngestorInv
               PROVE  /\ StepsLeft \in Nat /\ (StepsLeft = 0 <=> pc = "idle")
                      /\ Cardinality(unlisted) \in 0..BatchSize
    OBVIOUS
  <2>1. StepsLeft \in Nat /\ (StepsLeft = 0 <=> pc = "idle")
    BY StepsLeftValues DEF StepsLeftCases, IngestorInv
  <2>2. Cardinality(unlisted) \in Nat
    BY FS_CardinalityType DEF IngestorInv, TypeInv
  <2>3. Cardinality(unlisted) <= BatchSize
    BY DEF IngestorInv, ErrorsInv
  <2> QED
    BY <2>1, <2>2, <2>3
<1>2. IngestorInv /\ [Next]_vars =>
        [/\ Step => \/ StepsLeft' < StepsLeft
                    \/ /\ StepsLeft' = StepsLeft
                       /\ Cardinality(unlisted') < Cardinality(unlisted)
         /\ pc # "idle" => StepsLeft' <= StepsLeft]_vars
  BY StepsLeftFall DEF IngestorInv, Lists
<1>3. [Next]_vars =>
        [/\ \A v \in Vectors : Insert(v) => StepsLeft' = 3 * Len(v) + 1
         /\ Flush => StepsLeft' = 3 * W + 1]_vars
  <2>1. ASSUME NEW v \in Vectors, Insert(v) PROVE StepsLeft' = 3 * Len(v) + 1
    BY <2>1 DEF Insert, StepsLeft
  <2>2. ASSUME Flush PROVE StepsLeft' = 3 * W + 1
    BY <2>2 DEF Flush, StepsLeft
  <2> QED
    BY <2>1, <2>2
<1> QED
  BY <1>1, <1>2, <1>3, InvariantHolds, PTL DEF Spec
================================================================================
