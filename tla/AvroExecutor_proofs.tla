-------------------------- MODULE AvroExecutor_proofs --------------------------
(***************************************************************************)
(* Proofs about AvroExecutor, for batches of any size, any records of them *)
(* bad, and any number of threads.                                         *)
(***************************************************************************)
EXTENDS AvroExecutor, NaturalsInduction, WellFoundedInduction, TLAPS

USE BoundsAssumption

-----------------------------------------------------------------------------
(* Numbers. *)

\* Every set of naturals has a least member, the one that Least names.
LEMMA LeastExists ==
    ASSUME NEW T \in SUBSET Nat, T # {}
    PROVE  Least(T) \in T /\ \A q \in T : Least(T) <= q
<1>1. IsWellFoundedOn(OpToRel(<, Nat), Nat)
  BY NatLessThanWellFounded
<1>2. \E x \in T : \A y \in T : ~ (<<y, x>> \in OpToRel(<, Nat))
  BY <1>1, WFMin
<1>3. \A x, y \in Nat : y < x => <<y, x>> \in OpToRel(<, Nat)
  BY DEF OpToRel
<1>4. PICK x \in T : \A y \in T : ~ (<<y, x>> \in OpToRel(<, Nat))
  BY <1>2
<1>5. \A y \in T : x <= y
  <2> SUFFICES ASSUME NEW y \in T PROVE x <= y
    OBVIOUS
  <2>1. x \in Nat /\ y \in Nat /\ ~(y < x)
    BY <1>3, <1>4
  <2> QED
    BY <2>1
<1> QED
  BY <1>5 DEF Least

\* A member that is not above any other is the one that Least names.
LEMMA LeastUnique ==
    ASSUME NEW T \in SUBSET Nat, NEW x \in T, \A q \in T : x <= q
    PROVE  Least(T) = x
<1>1. Least(T) \in T /\ \A q \in T : Least(T) <= q
  BY LeastExists
<1>2. Least(T) <= x /\ x <= Least(T) /\ x \in Nat /\ Least(T) \in Nat
  BY <1>1
<1> QED
  BY <1>2

\* Division by a positive number.
LEMMA DivisionWithRest ==
    ASSUME NEW a \in Nat, NEW b \in Nat \ {0}
    PROVE  /\ a \div b \in Nat /\ a % b \in 0..(b - 1)
           /\ a = b * (a \div b) + (a % b)
  OBVIOUS

\* A greater factor gives a greater product.
LEMMA ProductMonotone ==
    ASSUME NEW a \in Nat, NEW b \in Nat, NEW c \in Nat, a <= b
    PROVE  a * c \in Nat /\ b * c \in Nat /\ a * c <= b * c
<1>1. PICK d \in Nat : b = a + d
  BY b - a \in Nat, b = a + (b - a)
<1>2. b * c = a * c + d * c
  BY <1>1
<1>3. a * c \in Nat /\ d * c \in Nat
  BY <1>1
<1> QED
  BY <1>2, <1>3

-----------------------------------------------------------------------------
(* The parts of the batch. *)

\* The batch is shared out.
Shared == count > 1 /\ threads > 1

\* The parts begin with the first record, end with the last, and follow each
\* other without a gap and without an overlap.
THEOREM PartsCoverBatch ==
    ASSUME count \in Nat, threads \in Nat \ {0}
    PROVE  /\ PartitionStart(0) = 0
           /\ PartitionStart(threads) = count
           /\ \A i \in 0..threads : PartitionStart(i) \in 0..count
           /\ \A i, j \in 0..threads : i <= j => PartitionStart(i) <= PartitionStart(j)
           /\ \A i \in Tasks : PartitionEnd(i) = PartitionStart(i + 1)
<1> DEFINE size == count \div threads
           extras == count % threads
<1>1. /\ size \in Nat /\ extras \in 0..(threads - 1)
      /\ count = threads * size + extras
  BY DivisionWithRest
<1>2. /\ \A i \in Nat : PartitionStart(i) = i * size + Extras(i)
      /\ \A i \in Nat : Extras(i) = IF i < extras THEN i ELSE extras
      /\ \A i \in Nat : PartitionEnd(i) = PartitionStart(i + 1)
  BY DEF PartitionStart, PartitionEnd, Extras, PartitionSize, PartitionExtras
<1> HIDE DEF size, extras
<1>3. PartitionStart(0) = 0
  BY <1>1, <1>2
<1>4. PartitionStart(threads) = count
  BY <1>1, <1>2
<1>5. ASSUME NEW i \in 0..threads, NEW j \in 0..threads, i <= j
      PROVE  PartitionStart(i) \in Nat /\ PartitionStart(i) <= PartitionStart(j)
  <2>1. i * size \in Nat /\ j * size \in Nat /\ i * size <= j * size
    BY <1>1, <1>5, ProductMonotone
  <2>2. Extras(i) \in Nat /\ Extras(j) \in Nat /\ Extras(i) <= Extras(j)
    BY <1>1, <1>2, <1>5
  <2>3. PartitionStart(i) = i * size + Extras(i) /\ PartitionStart(j) = j * size + Extras(j)
    BY <1>2
  <2> QED
    BY <2>1, <2>2, <2>3
<1>6. \A i \in 0..threads : PartitionStart(i) \in 0..count
  BY <1>4, <1>5
<1>7. \A i \in Tasks : PartitionEnd(i) = PartitionStart(i + 1)
  BY <1>2 DEF Tasks
<1> QED
  BY <1>3, <1>4, <1>5, <1>6, <1>7

\* Every record is in one part.
LEMMA PartOfRecord ==
    ASSUME count \in Nat, threads \in Nat \ {0}, NEW r \in Records
    PROVE  \E i \in Tasks : r \in PartitionStart(i)..(PartitionEnd(i) - 1)
<1> DEFINE T == {i \in 0..threads : r < PartitionStart(i)}
<1>1. threads \in T /\ T \in SUBSET Nat
  BY PartsCoverBatch DEF Records
<1>2. Least(T) \in T /\ \A q \in T : Least(T) <= q
  BY <1>1, LeastExists
<1> DEFINE m == Least(T)
<1>3. m \in 0..threads /\ r < PartitionStart(m) /\ \A q \in 0..threads : q < m => ~(r < PartitionStart(q))
  BY <1>2
<1> HIDE DEF m
<1>4. m # 0
  BY <1>3, PartsCoverBatch DEF Records
<1>5. m - 1 \in Tasks /\ m - 1 \in 0..threads /\ m - 1 < m /\ (m - 1) + 1 = m
  BY <1>3, <1>4 DEF Tasks
<1>6. PartitionStart(m - 1) <= r /\ PartitionEnd(m - 1) = PartitionStart(m)
  BY <1>3, <1>5, PartsCoverBatch DEF Records
<1>7. PartitionStart(m) \in Int /\ PartitionStart(m - 1) \in Int
  BY <1>3, <1>5, PartsCoverBatch
<1> QED
  BY <1>3, <1>5, <1>6, <1>7 DEF Records

\* No record is in two.
LEMMA PartsDisjoint ==
    ASSUME count \in Nat, threads \in Nat \ {0},
           NEW i \in Tasks, NEW j \in Tasks, i < j
    PROVE  PartitionEnd(i) <= PartitionStart(j)
<1>1. i + 1 \in 0..threads /\ j \in 0..threads /\ i + 1 <= j
  BY DEF Tasks
<1> QED
  BY <1>1, PartsCoverBatch

\* The part of a task lies inside the batch.
LEMMA PartBounds ==
    ASSUME count \in Nat, threads \in Nat \ {0}, NEW i \in Tasks
    PROVE  /\ PartitionStart(i) \in 0..count /\ PartitionEnd(i) \in 0..count
           /\ PartitionStart(i) <= PartitionEnd(i)
<1>1. i \in 0..threads /\ i + 1 \in 0..threads /\ i <= i + 1
  BY DEF Tasks
<1> QED
  BY <1>1, PartsCoverBatch

\* The parts stay what they are while the call works on its batch.
LEMMA PartsKept ==
    ASSUME UNCHANGED batch
    PROVE  /\ Records' = Records /\ Tasks' = Tasks /\ Shared' = Shared
           /\ \A i : PartitionStart(i)' = PartitionStart(i) /\ PartitionEnd(i)' = PartitionEnd(i)
  BY DEF batch, Records, Tasks, Shared, PartitionStart, PartitionEnd, Extras, PartitionSize,
         PartitionExtras

-----------------------------------------------------------------------------
(* The inductive invariant. *)

\* Before Run, and in the calls that never come to it, no task runs and no
\* record is touched but by Direct.
AloneInv ==
    /\ pc = "creating" => Shared
    /\ pc = "refused" => threads = 0
    /\ pc \in {"called", "refused"} \/ ~Shared =>
         \A i \in Tasks : task[i] = "waiting" /\ error[i] = NoError
    /\ pc \in {"called", "refused"} => \A r \in Records : converted[r] = 0
    /\ ~Shared => /\ \A r \in Records : converted[r] <= 1
                  /\ pc = "returned" => bad = {} /\ \A r \in Records : converted[r] = 1
                  /\ pc = "thrown" => bad # {} /\ thrown = Least(bad)

\* A task stays in its own part; what is below its position is converted, once
\* and without an error, and what is above is untouched.  Its error is about
\* the record it stands at, and without one it ends at the end of its part.
TaskInv(i) ==
    /\ at[i] \in PartitionStart(i)..PartitionEnd(i)
    /\ \A r \in PartitionStart(i)..(at[i] - 1) : r \notin bad /\ converted[r] = 1
    /\ \A r \in at[i]..(PartitionEnd(i) - 1) : converted[r] = 0
    /\ error[i] # NoError => /\ error[i] = at[i] /\ at[i] \in bad
                             /\ at[i] < PartitionEnd(i) /\ task[i] = "ended"
    /\ task[i] = "ended" /\ error[i] = NoError => at[i] = PartitionEnd(i)

ShareInv ==
    Shared /\ pc # "called" =>
        /\ \A i \in Tasks : TaskInv(i)
        /\ \A i \in Tasks : i >= created => task[i] = "waiting"
        /\ pc \in {"returned", "thrown"} => \A i \in Tasks : task[i] = "ended"
        /\ pc = "returned" => \A i \in Tasks : error[i] = NoError
        /\ pc = "thrown" => bad # {} /\ thrown = Least(bad)

ExecInv == TypeOK /\ AloneInv /\ ShareInv

-----------------------------------------------------------------------------

\* The numbers in the state of a call, as the proofs below need them.
LEMMA Basics ==
    ASSUME TypeOK
    PROVE  /\ count \in Nat /\ threads \in Nat
           /\ Records \subseteq Nat /\ Tasks \subseteq Nat /\ bad \subseteq Records
           /\ \A i \in Tasks : threads \in Nat \ {0}
  BY DEF TypeOK, Records, Tasks

\* A task that runs does so in a shared batch, between Run and Join.
LEMMA RunningShared ==
    ASSUME ExecInv, NEW i \in Tasks, task[i] = "running"
    PROVE  Shared /\ pc = "creating" /\ TaskInv(i) /\ threads \in Nat \ {0}
<1>1. pc \in {"called", "creating", "returned", "thrown", "refused"} /\ threads \in Nat \ {0}
  BY Basics DEF ExecInv, TypeOK
<1>2. Shared /\ pc \notin {"called", "refused"}
  BY DEF ExecInv, AloneInv
<1>3. pc \notin {"returned", "thrown"}
  BY <1>2 DEF ExecInv, ShareInv
<1> QED
  BY <1>1, <1>2, <1>3 DEF ExecInv, ShareInv

\* The invariant when the call begins.
LEMMA InitHolds == Init => ExecInv
<1> SUFFICES ASSUME Init PROVE ExecInv
  OBVIOUS
<1>1. TypeOK
  BY DEF Init, TypeOK, NoError, Records, Tasks
<1>2. AloneInv
  BY <1>1, Basics DEF Init, AloneInv, Tasks, Records, Shared
<1>3. ShareInv
  BY DEF Init, ShareInv
<1> QED
  BY <1>1, <1>2, <1>3 DEF ExecInv

\* The tasks that failed, and the first of them.
Failed == {i \in Tasks : error[i] # NoError}

\* The task whose error is thrown is the first of those that failed.
LEMMA FirstFailed ==
    ASSUME TypeOK, Failed # {}
    PROVE  /\ Least(Failed) \in Tasks /\ error[Least(Failed)] \in Records
           /\ error[Least(Failed)] # NoError
           /\ \A i \in Tasks : i < Least(Failed) => error[i] = NoError
<1>1. Failed \in SUBSET Nat
  BY Basics DEF Failed
<1>2. Least(Failed) \in Failed /\ \A q \in Failed : Least(Failed) <= q
  BY <1>1, LeastExists
<1> DEFINE m == Least(Failed)
<1>3. m \in Failed /\ \A q \in Failed : m <= q
  BY <1>2
<1> HIDE DEF m
<1>4. m \in Tasks /\ error[m] # NoError
  BY <1>3 DEF Failed
<1>5. error[m] \in Records
  BY <1>4 DEF TypeOK
<1>6. ASSUME NEW i \in Tasks, i < m PROVE error[i] = NoError
  BY <1>3, <1>4, <1>6, Basics DEF Failed
<1> QED
  BY <1>4, <1>5, <1>6 DEF m

\* No step of a task or of the caller leaves the types.
LEMMA TypeNext == ExecInv /\ [Next]_vars => TypeOK'
<1> SUFFICES ASSUME ExecInv, [Next]_vars PROVE TypeOK'
  OBVIOUS
<1>t. TypeOK
  BY DEF ExecInv
<1>b. /\ count \in Nat /\ threads \in Nat
      /\ Records \subseteq Nat /\ Tasks \subseteq Nat /\ bad \subseteq Records
  BY <1>t, Basics
<1>k. ASSUME UNCHANGED batch PROVE Records' = Records /\ Tasks' = Tasks
  BY <1>k, PartsKept
<1>1. CASE Direct
  <2>1. bad # {} => Least(bad) \in Records
    <3>1. bad \in SUBSET Nat
      BY <1>b
    <3> QED
      BY <1>b, <3>1, LeastExists
  <2>2. thrown' \in Records \cup {NoError} /\ pc' \in {"returned", "thrown"}
    BY <1>1, <1>t, <2>1 DEF Direct, TypeOK
  <2>3. converted' \in [Records -> Nat]
    BY <1>1 DEF Direct
  <2> QED
    BY <1>1, <1>t, <1>k, <2>2, <2>3 DEF Direct, batch, TypeOK
<1>2. CASE Refuse
  BY <1>2, <1>t, <1>k DEF Refuse, batch, TypeOK
<1>3. CASE Run
  <2>1. \A i \in Tasks : PartitionStart(i) \in 0..count
    BY <1>b, <1>3, PartBounds DEF Run
  <2>2. at' \in [Tasks -> 0..count] /\ pc' = "creating"
    BY <1>3, <2>1 DEF Run
  <2> QED
    BY <1>3, <1>t, <1>k, <2>2 DEF Run, batch, TypeOK
<1>4. CASE CreateThread
  <2>0. created \in 0..threads /\ created < threads /\ created' = created + 1
    BY <1>4, <1>t DEF CreateThread, TypeOK
  <2>1. created' \in 0..threads /\ task' \in [Tasks -> {"waiting", "running", "ended"}]
    <3>1. created' \in 0..threads
      BY <1>b, <2>0
    <3>2. task \in [Tasks -> {"waiting", "running", "ended"}]
      BY <1>t DEF TypeOK
    <3> QED
      BY <1>4, <3>1, <3>2 DEF CreateThread
  <2>2. UNCHANGED <<batch, pc, at, error, converted, thrown>>
    BY <1>4 DEF CreateThread
  <2> QED
    BY <1>t, <1>k, <2>1, <2>2 DEF batch, TypeOK
<1>5. ASSUME NEW i \in Tasks, Convert(i) PROVE TypeOK'
  <2>1. PartitionEnd(i) \in 0..count
    BY <1>5, <1>t, Basics, PartBounds
  <2>2. at[i] \in 0..count /\ at[i] < PartitionEnd(i)
    BY <1>5, <1>t DEF Convert, TypeOK
  <2>3. at[i] + 1 \in 0..count /\ at[i] \in Records
    BY <1>b, <2>1, <2>2 DEF Records
  <2> QED
    BY <1>5, <1>t, <1>k, <2>3 DEF Convert, batch, TypeOK
<1>6. ASSUME NEW i \in Tasks, TaskFails(i) PROVE TypeOK'
  <2>1. at[i] \in Records
    BY <1>6, <1>b DEF TaskFails
  <2> QED
    BY <1>6, <1>t, <1>k, <2>1 DEF TaskFails, batch, TypeOK
<1>7. ASSUME NEW i \in Tasks, TaskEnds(i) PROVE TypeOK'
  BY <1>7, <1>t, <1>k DEF TaskEnds, batch, TypeOK
<1>8. CASE Join
  <2>1. thrown' = thrown \/ (Failed # {} /\ thrown' = error[Least(Failed)])
    BY <1>8 DEF Join, Failed
  <2>2. thrown' \in Records \cup {NoError}
    BY <1>t, <2>1, FirstFailed DEF TypeOK
  <2> QED
    BY <1>8, <1>t, <1>k, <2>2 DEF Join, batch, TypeOK
<1>9. CASE Over \/ UNCHANGED vars
  BY <1>9, <1>t, <1>k DEF Over, vars, batch, TypeOK
<1> QED
  BY <1>1, <1>2, <1>3, <1>4, <1>5, <1>6, <1>7, <1>8, <1>9 DEF Next

\* What is said of calls that do not share the batch.
LEMMA AloneNext == ExecInv /\ [Next]_vars => AloneInv'
<1> SUFFICES ASSUME ExecInv, [Next]_vars PROVE AloneInv'
  OBVIOUS
<1>a. TypeOK /\ AloneInv
  BY DEF ExecInv
<1>b. /\ count \in Nat /\ threads \in Nat
  BY <1>a, Basics
<1>k. ASSUME UNCHANGED batch PROVE Records' = Records /\ Tasks' = Tasks /\ Shared' = Shared
  BY <1>k, PartsKept
<1>1. CASE Direct
  <2>1. ~Shared
    BY <1>1, <1>b DEF Direct, Shared
  <2>2. UNCHANGED <<batch, task, error, bad>> /\ pc = "called" /\ pc' \in {"returned", "thrown"}
    BY <1>1 DEF Direct, batch
  <2>3. \A r \in Records : converted'[r] <= 1
    BY <1>1 DEF Direct
  <2>4. pc' = "returned" => bad = {} /\ \A r \in Records : converted'[r] = 1
    BY <1>1 DEF Direct
  <2>5. pc' = "thrown" => bad # {} /\ thrown' = Least(bad)
    BY <1>1 DEF Direct
  <2> QED
    BY <1>a, <1>k, <2>1, <2>2, <2>3, <2>4, <2>5 DEF AloneInv
<1>2. CASE Refuse
  BY <1>2, <1>a, <1>b, <1>k DEF Refuse, batch, AloneInv, Shared
<1>3. CASE Run
  BY <1>3, <1>a, <1>b, <1>k DEF Run, batch, AloneInv, Shared
<1>4. CASE CreateThread
  BY <1>4, <1>a, <1>b, <1>k DEF CreateThread, batch, AloneInv
<1>5. ASSUME NEW i \in Tasks, Convert(i) \/ TaskFails(i) \/ TaskEnds(i) PROVE AloneInv'
  <2>1. Shared /\ pc = "creating"
    BY <1>5, RunningShared DEF Convert, TaskFails, TaskEnds
  <2>2. UNCHANGED <<batch, pc>>
    BY <1>5 DEF Convert, TaskFails, TaskEnds
  <2> QED
    BY <1>k, <2>1, <2>2 DEF AloneInv
<1>6. CASE Join
  <2>1. Shared /\ pc' \in {"returned", "thrown"} /\ UNCHANGED batch
    BY <1>6, <1>a DEF Join, AloneInv
  <2> QED
    BY <1>k, <2>1 DEF AloneInv
<1>7. CASE Over \/ UNCHANGED vars
  BY <1>7, <1>a, <1>k DEF Over, vars, batch, AloneInv
<1> QED
  BY <1>1, <1>2, <1>3, <1>4, <1>5, <1>6, <1>7 DEF Next

\* What is said of one task after a step that leaves its position, its records,
\* its state and its error alone.
LEMMA TaskKept ==
    ASSUME TypeOK, NEW i \in Tasks, TaskInv(i), UNCHANGED batch,
           at'[i] = at[i], task'[i] = task[i], error'[i] = error[i],
           \A r \in PartitionStart(i)..(PartitionEnd(i) - 1) : converted'[r] = converted[r]
    PROVE  TaskInv(i)'
<1>1. UNCHANGED bad
  BY DEF batch
<1>2. PartitionStart(i) \in Nat /\ PartitionEnd(i) \in Nat /\ at[i] \in Nat
  BY Basics, PartBounds DEF TypeOK
<1>3. PartitionStart(i)' = PartitionStart(i) /\ PartitionEnd(i)' = PartitionEnd(i)
  BY PartsKept
<1>4. \A r \in PartitionStart(i)..(at[i] - 1) : converted'[r] = converted[r]
  BY <1>2 DEF TaskInv
<1>5. \A r \in at[i]..(PartitionEnd(i) - 1) : converted'[r] = converted[r]
  BY <1>2 DEF TaskInv
<1> QED
  BY <1>1, <1>3, <1>4, <1>5 DEF TaskInv

\* Of the tasks that all have ended, the first with an error has the first error.
LEMMA FirstError ==
    ASSUME ExecInv, Shared, pc # "called", Joined
    PROVE  /\ Failed = {} => bad = {} /\ \A r \in Records : converted[r] = 1
           /\ Failed # {} => bad # {} /\ error[Least(Failed)] = Least(bad)
<1>1. /\ count \in Nat /\ threads \in Nat \ {0} /\ TypeOK
      /\ Records \subseteq Nat /\ Tasks \subseteq Nat /\ bad \subseteq Records
  BY Basics DEF ExecInv, Shared
<1>2. \A i \in Tasks : TaskInv(i) /\ task[i] = "ended"
  BY DEF ExecInv, ShareInv, Joined
<1>3. \A i \in Tasks : /\ PartitionStart(i) \in Nat /\ PartitionEnd(i) \in Nat
                       /\ at[i] \in Nat
  BY <1>1, PartBounds DEF TypeOK
<1>4. ASSUME NEW i \in Tasks, error[i] = NoError,
             NEW r \in PartitionStart(i)..(PartitionEnd(i) - 1)
      PROVE  r \notin bad /\ converted[r] = 1
  BY <1>2, <1>4 DEF TaskInv
<1>5. ASSUME Failed = {} PROVE bad = {} /\ \A r \in Records : converted[r] = 1
  <2>1. \A i \in Tasks : error[i] = NoError
    BY <1>5 DEF Failed
  <2>2. \A r \in Records : r \notin bad /\ converted[r] = 1
    BY <1>1, <1>4, <2>1, PartOfRecord
  <2> QED
    BY <1>1, <2>2
<1>6. ASSUME Failed # {} PROVE bad # {} /\ error[Least(Failed)] = Least(bad)
  <2>1. PICK m : m = Least(Failed)
    OBVIOUS
  <2>2. /\ m \in Tasks /\ error[m] # NoError
        /\ \A i \in Tasks : i < m => error[i] = NoError
    BY <1>1, <1>6, <2>1, FirstFailed
  <2>3. /\ error[m] = at[m] /\ at[m] \in bad /\ at[m] < PartitionEnd(m)
        /\ \A r \in PartitionStart(m)..(at[m] - 1) : r \notin bad
    BY <1>2, <2>2 DEF TaskInv
  <2>4. ASSUME NEW q \in bad PROVE at[m] <= q
    <3>1. PICK j \in Tasks : q \in PartitionStart(j)..(PartitionEnd(j) - 1)
      BY <1>1, PartOfRecord
    <3>2. error[j] # NoError
      BY <1>4, <3>1
    <3>3. j \in Nat /\ m \in Nat /\ ~(j < m) /\ q \in Nat
      BY <1>1, <2>2, <3>2
    <3>4. CASE j = m
      BY <1>3, <2>2, <2>3, <3>1, <3>3, <3>4
    <3>5. CASE m < j
      <4>1. PartitionEnd(m) <= PartitionStart(j)
        BY <1>1, <2>2, <3>5, PartsDisjoint
      <4> QED
        BY <1>3, <2>2, <2>3, <3>1, <3>3, <4>1
    <3> QED
      BY <3>3, <3>4, <3>5
  <2>5. bad \in SUBSET Nat
    BY <1>1
  <2>6. Least(bad) = at[m]
    BY <2>3, <2>4, <2>5, LeastUnique
  <2> QED
    BY <2>1, <2>3, <2>6
<1> QED
  BY <1>5, <1>6

\* No step of a task touches a record of another task's part.
LEMMA ShareNext == ExecInv /\ [Next]_vars => ShareInv'
<1> SUFFICES ASSUME ExecInv, [Next]_vars PROVE ShareInv'
  OBVIOUS
<1>a. TypeOK /\ AloneInv /\ ShareInv /\ TypeOK' /\ AloneInv'
  BY TypeNext, AloneNext DEF ExecInv
<1>b. /\ count \in Nat /\ threads \in Nat /\ Records \subseteq Nat /\ Tasks \subseteq Nat
      /\ \A i \in Tasks : threads \in Nat \ {0}
  BY <1>a, Basics
<1>k. ASSUME UNCHANGED batch
      PROVE  /\ Records' = Records /\ Tasks' = Tasks /\ Shared' = Shared
             /\ \A i : PartitionStart(i)' = PartitionStart(i) /\ PartitionEnd(i)' = PartitionEnd(i)
  BY <1>k, PartsKept
<1>1. CASE Direct \/ Refuse
  <2>1. ~Shared /\ UNCHANGED batch
    BY <1>1, <1>b DEF Direct, Refuse, Shared
  <2> QED
    BY <1>k, <2>1 DEF ShareInv
<1>2. CASE Run
  <2>1. /\ UNCHANGED <<batch, created, task, error, converted>> /\ pc = "called"
        /\ pc' = "creating"
    BY <1>2 DEF Run
  <2>2. ASSUME NEW i \in Tasks
        PROVE  TaskInv(i)' /\ task'[i] = "waiting"
    <3>1. /\ PartitionStart(i) \in 0..count /\ PartitionEnd(i) \in 0..count
          /\ PartitionStart(i) <= PartitionEnd(i)
      BY <1>b, PartBounds
    <3>2. at'[i] = PartitionStart(i)
      BY <1>2 DEF Run
    <3>3. task'[i] = "waiting" /\ error'[i] = NoError
      BY <1>a, <2>1 DEF AloneInv
    <3>4. \A r \in PartitionStart(i)..(PartitionEnd(i) - 1) : converted'[r] = 0
      <4>1. \A r \in PartitionStart(i)..(PartitionEnd(i) - 1) : r \in Records
        BY <1>b, <3>1 DEF Records
      <4>2. \A r \in Records : converted[r] = 0
        BY <1>a, <2>1 DEF AloneInv
      <4> QED
        BY <2>1, <4>1, <4>2
    <3>5. /\ PartitionStart(i)' = PartitionStart(i) /\ PartitionEnd(i)' = PartitionEnd(i)
      BY <1>k, <2>1
    <3>6. PartitionStart(i)..(PartitionStart(i) - 1) = {}
      BY <3>1
    <3> QED
      BY <3>1, <3>2, <3>3, <3>4, <3>5, <3>6 DEF TaskInv
  <2> QED
    BY <1>k, <2>1, <2>2 DEF ShareInv
<1>3. CASE CreateThread
  <2>1. /\ UNCHANGED <<batch, pc, at, error, converted>> /\ pc = "creating"
        /\ created' = created + 1
        /\ task' = [task EXCEPT ![created] = "running"] /\ created < threads
    BY <1>3 DEF CreateThread
  <2>2. Shared /\ created \in Nat /\ created \in Tasks
    BY <1>a, <1>b, <2>1 DEF AloneInv, TypeOK, Tasks
  <2>3. ASSUME NEW i \in Tasks PROVE TaskInv(i)' /\ (i >= created' => task'[i] = "waiting")
    <3>1. TaskInv(i) /\ (i >= created => task[i] = "waiting")
      BY <1>a, <2>1, <2>2 DEF ShareInv
    <3>2. CASE i = created
      <4>1. task[i] = "waiting" /\ task'[i] = "running" /\ error[i] = NoError
        BY <1>a, <1>b, <2>1, <2>2, <3>1, <3>2 DEF TaskInv, TypeOK
      <4>2. TaskInv(i)'
        BY <1>k, <2>1, <3>1, <4>1 DEF TaskInv, batch
      <4> QED
        BY <1>b, <2>1, <2>2, <3>2, <4>2
    <3>3. CASE i # created
      <4>1. task'[i] = task[i]
        BY <1>a, <2>1, <3>3 DEF TypeOK
      <4>2. TaskInv(i)'
        BY <1>a, <2>1, <3>1, <4>1, TaskKept
      <4> QED
        BY <1>b, <2>1, <2>2, <3>1, <4>1, <4>2
    <3> QED
      BY <3>2, <3>3
  <2> QED
    BY <1>k, <2>1, <2>3 DEF ShareInv
<1>4. ASSUME NEW i \in Tasks, Convert(i) \/ TaskFails(i) \/ TaskEnds(i)
      PROVE  ShareInv'
  <2>1. /\ task[i] = "running" /\ UNCHANGED <<batch, pc, created>>
        /\ \A j \in Tasks : j # i => /\ task'[j] = task[j] /\ at'[j] = at[j]
                                     /\ error'[j] = error[j]
    BY <1>4, <1>a DEF Convert, TaskFails, TaskEnds, TypeOK
  <2>2. Shared /\ pc = "creating" /\ TaskInv(i) /\ threads \in Nat \ {0}
    BY <2>1, RunningShared
  <2>3. /\ PartitionStart(i) \in Nat /\ PartitionEnd(i) \in Nat /\ at[i] \in Nat
        /\ PartitionStart(i) <= at[i] /\ at[i] <= PartitionEnd(i)
        /\ error[i] = NoError
        /\ \A r \in PartitionStart(i)..(at[i] - 1) : r \notin bad /\ converted[r] = 1
        /\ \A r \in at[i]..(PartitionEnd(i) - 1) : converted[r] = 0
    BY <1>a, <1>b, <2>1, <2>2, PartBounds DEF TaskInv, TypeOK
  <2>4. PartitionStart(i)' = PartitionStart(i) /\ PartitionEnd(i)' = PartitionEnd(i) /\ UNCHANGED bad
    BY <1>k, <2>1 DEF batch
  <2>5. TaskInv(i)'
    <3>1. CASE Convert(i)
      <4>1. /\ at[i] < PartitionEnd(i) /\ at[i] \notin bad
            /\ task'[i] = "running" /\ error'[i] = NoError /\ at'[i] = at[i] + 1
        BY <1>a, <2>1, <2>3, <3>1 DEF Convert, TypeOK
      <4>2. at[i] \in Records /\ converted \in [Records -> Nat]
        BY <1>a, <1>b, <2>3, <4>1, PartBounds DEF Records, TypeOK
      <4>3. /\ converted'[at[i]] = converted[at[i]] + 1
            /\ \A r \in Nat : r # at[i] /\ r \in Records => converted'[r] = converted[r]
        BY <3>1, <4>2 DEF Convert
      <4>4. converted'[at[i]] = 1
        BY <2>3, <4>1, <4>3
      <4>5. \A r \in PartitionStart(i)..(PartitionEnd(i) - 1) : r \in Records /\ r \in Nat
        BY <1>b, PartBounds DEF Records
      <4>6. \A r \in PartitionStart(i)..(at'[i] - 1) : r \notin bad /\ converted'[r] = 1
        BY <2>3, <4>1, <4>3, <4>4, <4>5
      <4>7. \A r \in at'[i]..(PartitionEnd(i) - 1) : converted'[r] = 0
        BY <2>3, <4>1, <4>3, <4>5
      <4>8. at'[i] \in PartitionStart(i)..PartitionEnd(i)
        BY <2>3, <4>1
      <4> QED
        BY <2>4, <4>1, <4>6, <4>7, <4>8 DEF TaskInv
    <3>2. CASE TaskFails(i)
      <4>1. /\ at[i] < PartitionEnd(i) /\ at[i] \in bad /\ UNCHANGED <<at, converted>>
            /\ task'[i] = "ended" /\ error'[i] = at[i]
        BY <1>a, <3>2 DEF TaskFails, TypeOK
      <4>2. at[i] # NoError
        BY <2>3 DEF NoError
      <4> QED
        BY <2>2, <2>4, <4>1, <4>2 DEF TaskInv
    <3>3. CASE TaskEnds(i)
      <4>1. /\ at[i] = PartitionEnd(i) /\ UNCHANGED <<at, converted, error>>
            /\ task'[i] = "ended"
        BY <1>a, <3>3 DEF TaskEnds, TypeOK
      <4> QED
        BY <2>2, <2>3, <2>4, <4>1 DEF TaskInv
    <3> QED
      BY <1>4, <3>1, <3>2, <3>3
  <2>6. ASSUME NEW j \in Tasks, j # i PROVE TaskInv(j)'
    <3>1. TaskInv(j)
      BY <1>a, <2>2 DEF ShareInv
    <3>2. /\ PartitionStart(j) \in Nat /\ PartitionEnd(j) \in Nat
          /\ \A r \in PartitionStart(j)..(PartitionEnd(j) - 1) : r \in Records
      BY <1>b, PartBounds DEF Records
    <3>3. i \in Nat /\ j \in Nat /\ (i < j \/ j < i)
      BY <1>b, <2>6
    <3>4. i < j => PartitionEnd(i) <= PartitionStart(j)
      BY <1>b, <2>2, PartsDisjoint
    <3>5. j < i => PartitionEnd(j) <= PartitionStart(i)
      BY <1>b, <2>2, PartsDisjoint
    <3>6. ASSUME NEW r \in PartitionStart(j)..(PartitionEnd(j) - 1)
          PROVE  converted'[r] = converted[r]
      <4>1. CASE Convert(i)
        <5>1. at[i] < PartitionEnd(i) /\ converted' = [converted EXCEPT ![at[i]] = @ + 1]
          BY <4>1 DEF Convert
        <5>2. r # at[i]
          BY <2>3, <3>2, <3>3, <3>4, <3>5, <5>1
        <5> QED
          BY <1>a, <3>2, <5>1, <5>2 DEF TypeOK
      <4>2. CASE TaskFails(i) \/ TaskEnds(i)
        BY <4>2 DEF TaskFails, TaskEnds
      <4> QED
        BY <1>4, <4>1, <4>2
    <3> QED
      BY <1>a, <2>1, <2>6, <3>1, <3>6, TaskKept
  <2>7. ASSUME NEW j \in Tasks, j >= created PROVE task'[j] = "waiting"
    <3>1. task[j] = "waiting"
      BY <1>a, <2>2, <2>7 DEF ShareInv
    <3> QED
      BY <2>1, <3>1
  <2> QED
    BY <1>k, <2>1, <2>2, <2>5, <2>6, <2>7 DEF ShareInv
<1>5. CASE Join
  <2>1. /\ pc = "creating" /\ Joined /\ UNCHANGED <<batch, created, task, at, error, converted>>
        /\ \/ Failed = {} /\ pc' = "returned"
           \/ Failed # {} /\ pc' = "thrown" /\ thrown' = error[Least(Failed)]
    BY <1>5 DEF Join, Failed
  <2>2. Shared
    BY <1>a, <2>1 DEF AloneInv
  <2>3. \A i \in Tasks : TaskInv(i)'
    BY <1>a, <2>1, <2>2, TaskKept DEF ShareInv
  <2>4. \A i \in Tasks : task'[i] = "ended"
    BY <2>1 DEF Joined
  <2>5. pc' = "returned" => \A i \in Tasks : error'[i] = NoError
    BY <2>1 DEF Failed
  <2>6. pc' = "thrown" => bad' # {} /\ thrown' = Least(bad')
    <3>1. Failed # {} => bad # {} /\ error[Least(Failed)] = Least(bad)
      BY <2>1, <2>2, FirstError
    <3>2. bad' = bad
      BY <2>1 DEF batch
    <3> QED
      BY <2>1, <3>1, <3>2
  <2>7. \A i \in Tasks : i >= created => task[i] = "waiting"
    BY <1>a, <2>1, <2>2 DEF ShareInv
  <2> QED
    BY <1>k, <2>1, <2>3, <2>4, <2>5, <2>6, <2>7 DEF ShareInv
<1>6. CASE Over \/ UNCHANGED vars
  <2>1. UNCHANGED vars
    BY <1>6 DEF Over
  <2>2. UNCHANGED <<batch, pc, created, task, at, error, converted, thrown, bad>>
    BY <2>1 DEF vars, batch
  <2>3. Shared /\ pc # "called" => \A i \in Tasks : TaskInv(i)'
    BY <1>a, <2>2, TaskKept DEF ShareInv
  <2> QED
    BY <1>a, <1>k, <2>2, <2>3 DEF ShareInv
<1> QED
  BY <1>1, <1>2, <1>3, <1>4, <1>5, <1>6 DEF Next

-----------------------------------------------------------------------------
(* The results. *)

\* The invariant holds over every interleaving of the tasks.
THEOREM Invariance == Spec => []ExecInv
<1>1. ExecInv /\ [Next]_vars => ExecInv'
  BY TypeNext, AloneNext, ShareNext DEF ExecInv
<1> QED
  BY <1>1, InitHolds, PTL DEF Spec

\* The types of the state of a call (TypeOK): no task leaves the batch, and no
\* error is about a record that is not in it.
THEOREM TypeCorrect == Spec => []TypeOK
<1>1. ExecInv => TypeOK
  BY DEF ExecInv
<1> QED
  BY <1>1, Invariance, PTL

\* The threads of a call do what one thread would: they convert every record
\* once, or the call throws the error of the first bad record.
THEOREM SequentialCorrect == Spec => []SameAsSequential
<1>1. ExecInv => SameAsSequential
  <2> SUFFICES ASSUME ExecInv PROVE SameAsSequential
    OBVIOUS
  <2>1. CASE ~Shared
    BY <2>1 DEF ExecInv, AloneInv, SameAsSequential
  <2>2. CASE Shared /\ pc = "returned"
    <3>1. Joined /\ Failed = {}
      BY <2>2 DEF ExecInv, ShareInv, Joined, Failed
    <3> QED
      BY <2>2, <3>1, FirstError DEF SameAsSequential
  <2>3. CASE Shared /\ pc = "thrown"
    BY <2>3 DEF ExecInv, ShareInv, SameAsSequential
  <2> QED
    BY <2>1, <2>2, <2>3 DEF SameAsSequential
<1> QED
  BY <1>1, Invariance, PTL

\* No two threads work on one record, no record is converted twice, and no
\* thread works when the call is over.
THEOREM NoSharedRecordCorrect == Spec => []NoSharedRecord
<1>1. ExecInv => NoSharedRecord
  <2> SUFFICES ASSUME ExecInv PROVE NoSharedRecord
    OBVIOUS
  <2>b. /\ TypeOK /\ count \in Nat /\ threads \in Nat /\ Records \subseteq Nat
        /\ Tasks \subseteq Nat /\ \A i \in Tasks : threads \in Nat \ {0}
    BY Basics DEF ExecInv
  <2>1. ASSUME NEW i \in Tasks, NEW j \in Tasks, i < j, AtWork(i), AtWork(j)
        PROVE  at[i] < at[j]
    <3>1. TaskInv(i) /\ TaskInv(j)
      BY <2>1, RunningShared DEF AtWork
    <3>2. /\ at[i] < PartitionEnd(i) /\ PartitionStart(j) <= at[j]
          /\ at[i] \in Nat /\ at[j] \in Nat
      BY <2>1, <2>b, <3>1 DEF AtWork, TaskInv, TypeOK
    <3>3. PartitionEnd(i) <= PartitionStart(j)
      BY <2>1, <2>b, PartsDisjoint
    <3>4. PartitionEnd(i) \in Nat /\ PartitionStart(j) \in Nat
      BY <2>b, PartBounds
    <3> QED
      BY <3>2, <3>3, <3>4
  <2>2. ASSUME NEW i \in Tasks, NEW j \in Tasks, i # j, AtWork(i), AtWork(j)
        PROVE  at[i] # at[j]
    <3>1. i \in Nat /\ j \in Nat /\ at[i] \in Nat /\ at[j] \in Nat /\ (i < j \/ j < i)
      BY <2>2, <2>b DEF TypeOK
    <3>2. i < j => at[i] < at[j]
      BY <2>1, <2>2
    <3>3. j < i => at[j] < at[i]
      BY <2>1, <2>2
    <3> QED
      BY <3>1, <3>2, <3>3
  <2>3. ASSUME NEW r \in Records PROVE converted[r] <= 1
    <3>1. CASE pc \in {"called", "refused"} \/ ~Shared
      BY <3>1, <2>3 DEF ExecInv, AloneInv
    <3>2. CASE pc # "called" /\ Shared
      <4>1. PICK i \in Tasks : r \in PartitionStart(i)..(PartitionEnd(i) - 1)
        <5>1. threads \in Nat \ {0}
          BY <2>b, <3>2 DEF Shared
        <5> QED
          BY <2>b, <5>1, PartOfRecord
      <4>2. TaskInv(i) /\ PartitionStart(i) \in Nat /\ PartitionEnd(i) \in Nat /\ at[i] \in Nat
        BY <2>b, <3>2, PartBounds DEF ExecInv, ShareInv, TypeOK
      <4>3. converted[r] = 1 \/ converted[r] = 0
        BY <4>1, <4>2 DEF TaskInv
      <4> QED
        BY <4>3
    <3> QED
      BY <3>1, <3>2
  <2>4. ASSUME pc \in {"returned", "thrown", "refused"}, NEW i \in Tasks, task[i] = "running"
        PROVE  FALSE
    BY <2>4, RunningShared
  <2> QED
    BY <2>2, <2>3, <2>4 DEF NoSharedRecord
<1> QED
  BY <1>1, Invariance, PTL
=============================================================================
