------------------------- MODULE HttpConnection_proofs -------------------------
(***************************************************************************)
(* Proofs about HttpConnection, for a response of any number of chunks.    *)
(***************************************************************************)
EXTENDS HttpConnection, SequenceTheorems, TLAPS

USE MaxChunksAssumption

-----------------------------------------------------------------------------
(* The queue of handlers.  It never holds more than the handler of the one  *)
(* operation and one call of onDeadline, in either order; what matters of   *)
(* it is what it holds.                                                     *)

Queues == {<<>>, <<"op">>, <<"deadline">>, <<"op", "deadline">>, <<"deadline", "op">>}

HasOp(q) == q \in {<<"op">>, <<"op", "deadline">>, <<"deadline", "op">>}
HasDeadline(q) == q \in {<<"deadline">>, <<"op", "deadline">>, <<"deadline", "op">>}

\* A handler that runs leaves the queue, and the other one in it.
LEMMA TakeFirst ==
    ASSUME NEW q \in Queues, q # <<>>
    PROVE  /\ Tail(q) \in Queues
           /\ Head(q) = "op" => /\ HasOp(q) /\ ~HasOp(Tail(q))
                                /\ HasDeadline(Tail(q)) <=> HasDeadline(q)
           /\ Head(q) = "deadline" => /\ HasDeadline(q) /\ ~HasDeadline(Tail(q))
                                      /\ HasOp(Tail(q)) <=> HasOp(q)
<1>1. CASE q = <<"op">>
  BY <1>1 DEF Queues, HasOp, HasDeadline
<1>2. CASE q = <<"deadline">>
  BY <1>2 DEF Queues, HasOp, HasDeadline
<1>3. CASE q = <<"op", "deadline">>
  BY <1>3 DEF Queues, HasOp, HasDeadline
<1>4. CASE q = <<"deadline", "op">>
  BY <1>4 DEF Queues, HasOp, HasDeadline
<1> QED
  BY <1>1, <1>2, <1>3, <1>4 DEF Queues

\* One handler queued after another.
LEMMA AppendSecond ==
    ASSUME NEW S, NEW a \in S, NEW b \in S
    PROVE  Append(<<a>>, b) = <<a, b>>
<1>1. <<a>> \in Seq(S) /\ <<a, b>> \in Seq(S)
  OBVIOUS
<1>2. /\ Len(<<a>>) = 1 /\ <<a>>[1] = a
      /\ Len(<<a, b>>) = 2 /\ <<a, b>>[1] = a /\ <<a, b>>[2] = b
  OBVIOUS
<1> DEFINE q == Append(<<a>>, b)
<1>3. q \in Seq(S) /\ Len(q) = 2 /\ q[1] = a /\ q[2] = b
  BY <1>1, <1>2, AppendProperties
<1> HIDE DEF q
<1>4. q = <<a, b>>
  <2>1. \A i \in 1..Len(q) : q[i] = <<a, b>>[i]
    BY <1>2, <1>3
  <2> QED
    BY <1>1, <1>2, <1>3, <2>1, SeqEqual
<1> QED
  BY <1>4 DEF q

\* A handler that is not in the queue can be added to it.
LEMMA AddLast ==
    ASSUME NEW q \in Queues
    PROVE  /\ ~HasOp(q) => /\ Append(q, "op") \in Queues
                           /\ HasOp(Append(q, "op"))
                           /\ HasDeadline(Append(q, "op")) <=> HasDeadline(q)
           /\ ~HasDeadline(q) => /\ Append(q, "deadline") \in Queues
                                 /\ HasDeadline(Append(q, "deadline"))
                                 /\ HasOp(Append(q, "deadline")) <=> HasOp(q)
<1>a. /\ Append(<<"op">>, "deadline") = <<"op", "deadline">>
      /\ Append(<<"deadline">>, "op") = <<"deadline", "op">>
  <2>1. "op" \in {"op", "deadline"} /\ "deadline" \in {"op", "deadline"}
    OBVIOUS
  <2> QED
    BY <2>1, AppendSecond, Zenon
<1>1. CASE q = <<>>
  BY <1>1 DEF Queues, HasOp, HasDeadline
<1>2. CASE q = <<"op">>
  BY <1>2, <1>a DEF Queues, HasOp, HasDeadline
<1>3. CASE q = <<"deadline">>
  BY <1>3, <1>a DEF Queues, HasOp, HasDeadline
<1>4. CASE q = <<"op", "deadline">>
  BY <1>4 DEF Queues, HasOp, HasDeadline
<1>5. CASE q = <<"deadline", "op">>
  BY <1>5 DEF Queues, HasOp, HasDeadline
<1> QED
  BY <1>1, <1>2, <1>3, <1>4, <1>5 DEF Queues

\* What Queued and DeadlineCalls say of such a queue.
LEMMA QueueContents ==
    ASSUME ready \in Queues
    PROVE  /\ Queued("op") <=> HasOp(ready)
           /\ ~HasDeadline(ready) => DeadlineCalls = {}
           /\ HasDeadline(ready) => \E i \in DOMAIN ready : DeadlineCalls = {i}
<1>1. CASE ready = <<>>
  BY <1>1 DEF Queued, DeadlineCalls, HasOp, HasDeadline
<1>2. CASE ready = <<"op">>
  BY <1>2 DEF Queued, DeadlineCalls, HasOp, HasDeadline
<1>3. CASE ready = <<"deadline">>
  BY <1>3 DEF Queued, DeadlineCalls, HasOp, HasDeadline
<1>4. CASE ready = <<"op", "deadline">>
  BY <1>4 DEF Queued, DeadlineCalls, HasOp, HasDeadline
<1>5. CASE ready = <<"deadline", "op">>
  BY <1>5 DEF Queued, DeadlineCalls, HasOp, HasDeadline
<1> QED
  BY <1>1, <1>2, <1>3, <1>4, <1>5 DEF Queues

-----------------------------------------------------------------------------
(* The inductive invariant. *)

TypeInv == TypeOK /\ ready \in Queues

\* The timer and the operation.  A wait is pending only while an operation is
\* under way, and never beside a queued call; with a timeout an operation has
\* one of the two; a connection that runs without an operation is closing, so
\* that onDeadline does not wait again.
TimerInv ==
    /\ waiting => timeout /\ op # "none" /\ ~HasDeadline(ready)
    /\ timeout /\ op # "none" => waiting \/ HasDeadline(ready)
    /\ HasOp(ready) <=> outcome # "none"
    /\ op = "none" => outcome = "none"
    /\ op # "none" => pc = "running" /\ mError = "none"
    /\ op = "none" /\ pc = "running" => mError # "none" \/ ~timeout
    /\ pc = "idle" => ready = <<>> /\ mError = "none"

\* A socket found closed was closed by a deadline, and that deadline has passed,
\* or connecting could not open one.
LateInv ==
    /\ expiry = "past" => overdue
    /\ op \notin {"none", "resolve"} /\ ~socketOpen => overdue \/ unopened
    /\ TimedOutIsLate

\* What was taken off the wire is in the body or in the stream, and the stream
\* is empty whenever a read begins.  A connection that is done without an error
\* has read to the end.
ReadToEnd == parsed /\ peer = "closed" /\ received = sent /\ stream = <<>>
BodyInv ==
    /\ body \o stream = Chunks(0, received)
    /\ op \in {"none", "readBody"} \/ body = <<>>
    /\ op \in {"resolve", "connect", "handshake", "write"} => received = 0
    /\ op # "none" /\ outcome \in {"none", "eof"} => stream = <<>>
    /\ op \in {"resolve", "connect", "handshake", "write"} => stream = <<>>
    /\ op = "readHeaders" /\ outcome = "none" => received = 0
    /\ op = "readBody" => parsed
    /\ op = "readBody" /\ outcome = "eof" => ReadToEnd
    /\ pc = "idle" => op = "none" /\ received = 0 /\ stream = <<>> /\ body = <<>>
    /\ pc # "idle" /\ op = "none" => mError # "none" \/ invalid \/ ReadToEnd
    /\ pc = "returned" => op = "none"
-----------------------------------------------------------------------------
(* What the parts of the handlers do with the queue and the timer. *)

\* A pending wait becomes the queued call of onDeadline, and only then.
LEMMA CancelEffect ==
    ASSUME NEW q \in Queues, waiting \in BOOLEAN, waiting => ~HasDeadline(q), Cancel(q)
    PROVE  /\ ready' \in Queues
           /\ waiting' = FALSE
           /\ HasOp(ready') <=> HasOp(q)
           /\ HasDeadline(ready') <=> HasDeadline(q) \/ waiting
  BY AddLast DEF Cancel

\* The handler that runs was queued, and its operation has no other.
LEMMA RunOpEffect ==
    ASSUME TypeInv, TimerInv, NEW o, RunOp(o)
    PROVE  /\ Tail(ready) \in Queues
           /\ ~HasOp(Tail(ready))
           /\ HasDeadline(Tail(ready)) <=> HasDeadline(ready)
           /\ op = o /\ op # "none" /\ outcome # "none"
           /\ pc = "running" /\ mError = "none"
<1>1. ready \in Queues /\ ready # <<>> /\ Head(ready) = "op" /\ op = o /\ pc = "running"
  BY DEF TypeInv, RunOp, Run
<1>2. /\ Tail(ready) \in Queues /\ HasOp(ready) /\ ~HasOp(Tail(ready))
      /\ HasDeadline(Tail(ready)) <=> HasDeadline(ready)
  BY <1>1, TakeFirst
<1> QED
  BY <1>1, <1>2 DEF TimerInv

TimerTyped ==
    /\ {timeout, waiting, overdue} \subseteq BOOLEAN
    /\ expiry \in {"inf", "future", "past"}
    /\ ready \in Queues

\* The handler of one operation begins the next: the new deadline is the only one.
LEMMA StartEffect ==
    ASSUME TypeInv, TimerInv, NEW o, RunOp(o),
           NEW next \in Ops, Start(next, Tail(ready)), UNCHANGED <<pc, mError>>
    PROVE  /\ TimerTyped' /\ TimerInv'
           /\ op' = next /\ outcome' = "none"
<1>1. /\ Tail(ready) \in Queues /\ ~HasOp(Tail(ready))
      /\ HasDeadline(Tail(ready)) <=> HasDeadline(ready)
      /\ op # "none" /\ pc = "running" /\ mError = "none"
  BY RunOpEffect
<1>2. {timeout, waiting, overdue} \subseteq BOOLEAN /\ expiry \in {"inf", "future", "past"}
  BY DEF TypeInv, TypeOK
<1>3. /\ op' = next /\ next # "none" /\ outcome' = "none" /\ timeout' = timeout
      /\ pc' = "running" /\ mError' = "none"
  BY <1>1 DEF Start, Ops
<1>4. waiting => timeout /\ ~HasDeadline(ready)
  BY DEF TimerInv
<1>5. timeout => waiting \/ HasDeadline(ready)
  BY <1>1 DEF TimerInv
<1>6. ASSUME timeout
      PROVE  /\ expiry' = "future" /\ overdue' = FALSE /\ waiting' = FALSE
             /\ ready' \in Queues /\ ~HasOp(ready') /\ HasDeadline(ready')
  <2>1. expiry' = "future" /\ overdue' = FALSE /\ Cancel(Tail(ready))
    BY <1>6 DEF Start, SetTimeout
  <2> QED
    BY <1>1, <1>2, <1>4, <1>5, <1>6, <2>1, CancelEffect
<1>7. ASSUME ~timeout
      PROVE  UNCHANGED <<expiry, waiting, overdue>> /\ ready' = Tail(ready) /\ ~waiting
  BY <1>2, <1>4, <1>7 DEF Start, SetTimeout
<1>8. TimerTyped'
  BY <1>1, <1>2, <1>3, <1>6, <1>7 DEF TimerTyped
<1>9. ~waiting' /\ ~HasOp(ready') /\ (timeout' => HasDeadline(ready'))
  <2>1. CASE timeout
    BY <1>6, <2>1
  <2>2. CASE ~timeout
    <3>1. ~waiting' /\ ready' = Tail(ready)
      BY <1>7, <2>2
    <3>2. ~timeout'
      BY <1>3, <2>2
    <3> QED
      BY <1>1, <3>1, <3>2
  <2> QED
    BY <2>1, <2>2
<1> QED
  BY <1>3, <1>8, <1>9 DEF TimerInv

\* A handler that ends the connection leaves no wait behind.
LEMMA EndEffect ==
    ASSUME TypeInv, TimerInv, NEW o, RunOp(o),
           op' = "none", outcome' = "none", Cancel(Tail(ready)),
           UNCHANGED <<pc, expiry, overdue>>, timeout' \in BOOLEAN,
           mError' # "none" \/ ~timeout'
    PROVE  TimerTyped' /\ TimerInv'
<1>1. /\ Tail(ready) \in Queues /\ ~HasOp(Tail(ready))
      /\ HasDeadline(Tail(ready)) <=> HasDeadline(ready)
      /\ pc = "running"
  BY RunOpEffect
<1>2. {timeout, waiting, overdue} \subseteq BOOLEAN /\ expiry \in {"inf", "future", "past"}
  BY DEF TypeInv, TypeOK
<1>3. waiting => ~HasDeadline(ready)
  BY DEF TimerInv
<1>4. ready' \in Queues /\ waiting' = FALSE /\ ~HasOp(ready')
  BY <1>1, <1>2, <1>3, CancelEffect
<1> QED
  BY <1>1, <1>2, <1>4 DEF TimerTyped, TimerInv

\* A handler that ends the call with an error keeps the queue and the timer right.
LEMMA StopEffect ==
    ASSUME TypeInv, TimerInv, NEW o, RunOp(o),
           NEW error \in {"timedOut", "aborted", "failed"}, StopWith(error), pc' = pc
    PROVE  TimerTyped' /\ TimerInv'
<1>1. timeout' \in BOOLEAN /\ mError' # "none"
  BY DEF StopWith, TypeInv, TypeOK
<1> QED
  BY <1>1, EndEffect DEF StopWith

\* close() at the end of the call keeps them right too.
LEMMA CloseEffect ==
    ASSUME TypeInv, TimerInv, NEW o, RunOp(o), Close, pc' = pc
    PROVE  TimerTyped' /\ TimerInv'
  BY EndEffect DEF Close
-----------------------------------------------------------------------------
(* Types, and the timer with the operation. *)

\* What the timer's part leaves of the type invariant.
OthersTyped ==
    /\ {secure, limit, socketOpen, unopened, invalid, parsed} \subseteq BOOLEAN
    /\ pc \in {"idle", "running", "returned"}
    /\ op \in Ops \cup {"none"}
    /\ outcome \in {"none", "ok", "eof", "failed", "aborted"}
    /\ mError \in {"none", "timedOut", "aborted", "failed"}
    /\ stream \in Seq(Nat) /\ body \in Seq(Nat)
    /\ peer \in {"silent", "answering", "closed"}
    /\ header \in {"none", "good", "bad"}
    /\ sent \in 0..MaxChunks /\ received \in 0..sent

\* The queues are sequences of handlers.
LEMMA QueuesTyped == Queues \subseteq Seq({"op", "deadline"})
<1>1. ASSUME NEW S, NEW a \in S, NEW b \in S
      PROVE  {<<>>, <<a>>, <<b>>, <<a, b>>, <<b, a>>} \subseteq Seq(S)
  OBVIOUS
<1>2. "op" \in {"op", "deadline"} /\ "deadline" \in {"op", "deadline"}
  OBVIOUS
<1> QED
  BY <1>1, <1>2, Zenon DEF Queues

\* The types of the timer and its queue, and those of all else.
LEMMA TypedParts == TypeInv <=> OthersTyped /\ TimerTyped
  BY QueuesTyped DEF TypeInv, TypeOK, OthersTyped, TimerTyped

\* The same of the state after a step.
LEMMA TypedPartsNext == TypeInv' <=> OthersTyped' /\ TimerTyped'
  BY QueuesTyped DEF TypeInv, TypeOK, OthersTyped, TimerTyped

\* Chunks are numbers, and follow each other.
LEMMA ChunksTyped ==
    ASSUME NEW m \in Nat, NEW n \in Nat, m <= n
    PROVE  Chunks(m, n) \in Seq(Nat) /\ Len(Chunks(m, n)) = n - m
<1>1. \A i \in 1..(n - m) : m + i \in Nat
  OBVIOUS
<1> QED
  BY <1>1, n - m \in Nat DEF Chunks

\* Chunks up to m and those from m on are the chunks up to n.
LEMMA ChunksJoined ==
    ASSUME NEW m \in Nat, NEW n \in Nat, m <= n
    PROVE  Chunks(0, m) \o Chunks(m, n) = Chunks(0, n)
<1> DEFINE s == Chunks(0, m)
           t == Chunks(m, n)
           u == Chunks(0, n)
<1>1. s \in Seq(Nat) /\ t \in Seq(Nat) /\ u \in Seq(Nat)
      /\ Len(s) = m /\ Len(t) = n - m /\ Len(u) = n
  <2>1. 0 <= m /\ 0 <= n /\ 0 \in Nat /\ m - 0 = m /\ n - 0 = n
    OBVIOUS
  <2> QED
    BY <2>1, ChunksTyped
<1>2. /\ \A i \in 1..m : s[i] = i
      /\ \A i \in 1..(n - m) : t[i] = m + i
      /\ \A i \in 1..n : u[i] = i
  BY DEF Chunks
<1> HIDE DEF s, t, u
<1>3. /\ s \o t \in Seq(Nat) /\ Len(s \o t) = Len(s) + Len(t)
      /\ \A i \in 1..(Len(s) + Len(t)) :
           (s \o t)[i] = IF i <= Len(s) THEN s[i] ELSE t[i - Len(s)]
  BY <1>1, ConcatProperties
<1>4. /\ Len(s \o t) = n
      /\ \A i \in 1..n : (s \o t)[i] = IF i <= m THEN s[i] ELSE t[i - m]
  BY <1>1, <1>3
<1>5. \A i \in 1..Len(s \o t) : (s \o t)[i] = u[i]
  BY <1>2, <1>4
<1>6. s \o t = u
  BY <1>1, <1>3, <1>4, <1>5, SeqEqual
<1> QED
  BY <1>6 DEF s, t, u

\* Two pieces put together, and three, from the left or from the right.
LEMMA Joined ==
    ASSUME NEW s \in Seq(Nat), NEW t \in Seq(Nat), NEW st, st = s \o t
    PROVE  /\ st \in Seq(Nat) /\ Len(st) = Len(s) + Len(t)
           /\ \A i \in 1..Len(s) : st[i] = s[i]
           /\ \A i \in 1..Len(t) : st[Len(s) + i] = t[i]
<1>1. /\ st \in Seq(Nat) /\ Len(st) = Len(s) + Len(t)
      /\ \A i \in 1..(Len(s) + Len(t)) :
           st[i] = IF i <= Len(s) THEN s[i] ELSE t[i - Len(s)]
  BY ConcatProperties
<1>2. Len(s) \in Nat /\ Len(t) \in Nat
  OBVIOUS
<1>3. ASSUME NEW i \in 1..Len(t) PROVE st[Len(s) + i] = t[i]
  <2>1. Len(s) + i \in 1..(Len(s) + Len(t)) /\ ~(Len(s) + i <= Len(s)) /\ (Len(s) + i) - Len(s) = i
    BY <1>2
  <2> QED
    BY <1>1, <2>1
<1> QED
  BY <1>1, <1>2, <1>3

\* What is left of the stream may be joined to what was read or to what is buffered.
LEMMA Regrouped ==
    ASSUME NEW s \in Seq(Nat), NEW t \in Seq(Nat), NEW u \in Seq(Nat)
    PROVE  s \o (t \o u) = (s \o t) \o u
<1>0. Len(s) \in Nat /\ Len(t) \in Nat /\ Len(u) \in Nat
  OBVIOUS
<1>1. PICK st : st = s \o t
  OBVIOUS
<1>2. PICK tu : tu = t \o u
  OBVIOUS
<1>3. PICK left : left = st \o u
  OBVIOUS
<1>4. PICK right : right = s \o tu
  OBVIOUS
<1>5. /\ st \in Seq(Nat) /\ Len(st) = Len(s) + Len(t)
      /\ \A i \in 1..Len(s) : st[i] = s[i]
      /\ \A i \in 1..Len(t) : st[Len(s) + i] = t[i]
  BY <1>1, Joined
<1>6. /\ tu \in Seq(Nat) /\ Len(tu) = Len(t) + Len(u)
      /\ \A i \in 1..Len(t) : tu[i] = t[i]
      /\ \A i \in 1..Len(u) : tu[Len(t) + i] = u[i]
  BY <1>2, Joined
<1>7. /\ left \in Seq(Nat) /\ Len(left) = Len(st) + Len(u)
      /\ \A i \in 1..Len(st) : left[i] = st[i]
      /\ \A i \in 1..Len(u) : left[Len(st) + i] = u[i]
  <2>1. st \in Seq(Nat)
    BY <1>5
  <2> QED
    BY <1>3, <2>1, Joined
<1>8. /\ right \in Seq(Nat) /\ Len(right) = Len(s) + Len(tu)
      /\ \A i \in 1..Len(s) : right[i] = s[i]
      /\ \A i \in 1..Len(tu) : right[Len(s) + i] = tu[i]
  <2>1. tu \in Seq(Nat)
    BY <1>6
  <2> QED
    BY <1>4, <2>1, Joined
<1>9. Len(left) = Len(right) /\ Len(left) = Len(s) + Len(t) + Len(u)
  BY <1>0, <1>5, <1>6, <1>7, <1>8
<1>10. ASSUME NEW i \in 1..Len(left) PROVE left[i] = right[i]
  <2>1. CASE i <= Len(s)
    <3>1. i \in 1..Len(s) /\ i \in 1..Len(st)
      BY <1>0, <1>5, <1>9, <2>1
    <3>2. left[i] = st[i] /\ st[i] = s[i]
      BY <1>5, <1>7, <3>1
    <3>3. right[i] = s[i]
      BY <1>8, <3>1
    <3> QED
      BY <3>2, <3>3
  <2>2. ASSUME NEW j \in 1..Len(t), i = Len(s) + j PROVE left[i] = right[i]
    <3>1. i \in 1..Len(st) /\ j \in 1..Len(tu)
      BY <1>0, <1>5, <1>6, <2>2
    <3> QED
      BY <1>5, <1>6, <1>7, <1>8, <2>2, <3>1
  <2>3. ASSUME NEW j \in 1..Len(u), i = Len(s) + Len(t) + j PROVE left[i] = right[i]
    <3>1. /\ Len(t) + j \in 1..Len(tu)
          /\ Len(st) + j = i /\ Len(s) + (Len(t) + j) = i
      BY <1>0, <1>5, <1>6, <2>3
    <3> QED
      BY <1>6, <1>7, <1>8, <2>3, <3>1
  <2>4. \/ i <= Len(s)
        \/ i - Len(s) \in 1..Len(t) /\ i = Len(s) + (i - Len(s))
        \/ /\ i - (Len(s) + Len(t)) \in 1..Len(u)
           /\ i = Len(s) + Len(t) + (i - (Len(s) + Len(t)))
    BY <1>0, <1>9
  <2> QED
    BY <2>1, <2>2, <2>3, <2>4
<1>11. left = right
  BY <1>7, <1>8, <1>9, <1>10, SeqEqual
<1> QED
  BY <1>1, <1>2, <1>3, <1>4, <1>11

\* Before anything is sent the stream is empty.
LEMMA NoChunks == Chunks(0, 0) = <<>>
<1>1. Chunks(0, 0) \in Seq(Nat) /\ Len(Chunks(0, 0)) = 0
  BY ChunksTyped
<1> QED
  BY <1>1, EmptySeq

\* A connection begins with no handler queued and no timer set.
LEMMA InitTyped == Init => TypeInv /\ TimerInv
<1> SUFFICES ASSUME Init PROVE TypeInv /\ TimerInv
  OBVIOUS
<1>1. <<>> \in Queues /\ ~HasOp(<<>>) /\ ~HasDeadline(<<>>)
  BY DEF Queues, HasOp, HasDeadline
<1>2. OthersTyped
  <2>1. {secure, limit, socketOpen, unopened, invalid, parsed} \subseteq BOOLEAN
    BY DEF Init
  <2>2. stream \in Seq(Nat) /\ body \in Seq(Nat) /\ sent \in 0..MaxChunks /\ received \in 0..sent
    BY DEF Init
  <2> QED
    BY <2>1, <2>2 DEF Init, OthersTyped
<1>3. TimerTyped
  BY <1>1 DEF Init, TimerTyped
<1>4. TimerInv
  BY <1>1 DEF Init, TimerInv
<1> QED
  BY <1>2, <1>3, <1>4, TypedParts

\* Handlers that go on when the socket is open and the operation succeeded.
LEMMA ContinueEffect ==
    ASSUME TypeInv, TimerInv, NEW o, RunOp(o), pc' = pc,
           \/ ~socketOpen /\ StopWith("timedOut")
           \/ socketOpen /\ outcome # "ok" /\ StopWith(Failure)
           \/ /\ socketOpen /\ outcome = "ok" /\ UNCHANGED <<socketOpen, mError>>
              /\ \E next \in Ops : Start(next, Tail(ready))
    PROVE  /\ TimerTyped' /\ TimerInv'
           /\ op' \in Ops \cup {"none"} /\ outcome' \in {"none", "ok", "eof", "failed", "aborted"}
           /\ socketOpen' \in BOOLEAN /\ mError' \in {"none", "timedOut", "aborted", "failed"}
<1>1. mError \in {"none", "timedOut", "aborted", "failed"} /\ socketOpen \in BOOLEAN
  BY DEF TypeInv, TypeOK
<1>2. Failure \in {"timedOut", "aborted", "failed"}
  BY DEF Failure
<1>3. ASSUME NEW error \in {"timedOut", "aborted", "failed"}, StopWith(error)
      PROVE  /\ TimerTyped' /\ TimerInv'
             /\ op' = "none" /\ outcome' = "none" /\ socketOpen' = FALSE /\ mError' = error
  BY <1>3, StopEffect DEF StopWith
<1>4. ASSUME UNCHANGED <<socketOpen, mError>>, NEW next \in Ops, Start(next, Tail(ready))
      PROVE  /\ TimerTyped' /\ TimerInv'
             /\ op' = next /\ outcome' = "none"
  BY <1>4, StartEffect
<1> QED
  BY <1>1, <1>2, <1>3, <1>4

\* Every handler of Http.cpp keeps the types, and the timer with its queue.
LEMMA NextTyped == TypeInv /\ TimerInv /\ [Next]_vars => TypeInv' /\ TimerInv'
<1> SUFFICES ASSUME TypeInv, TimerInv, [Next]_vars
             PROVE  OthersTyped' /\ TimerTyped' /\ TimerInv'
  BY TypedPartsNext
<1> USE DEF response, remote
<1>a. OthersTyped /\ TimerTyped /\ ready \in Queues
  BY TypedParts DEF TypeInv
<1>1. ASSUME Send PROVE OthersTyped' /\ TimerTyped' /\ TimerInv'
  <2>1. ~HasDeadline(<<>>) /\ ~HasOp(<<>>) /\ ready = <<>>
    BY <1>1 DEF Send, TimerInv, HasDeadline, HasOp
  <2>2. OthersTyped'
    BY <1>a, <1>1 DEF Send, OthersTyped, Ops
  <2>3. TimerTyped'
    BY <1>a, <1>1 DEF Send, TimerTyped
  <2>4. /\ op' # "none" /\ pc' = "running" /\ mError' = mError /\ timeout' = timeout
        /\ outcome' = outcome /\ ready' = <<>>
    BY <1>1, <2>1 DEF Send
  <2>5. op = "none" /\ outcome = "none" /\ mError = "none" /\ ~waiting
    BY <1>1, <2>1 DEF Send, TimerInv
  <2>6. waiting' <=> timeout
    BY <1>a, <1>1, <2>5 DEF Send, TimerTyped
  <2>7. TimerInv'
    BY <2>1, <2>4, <2>5, <2>6 DEF TimerInv
  <2> QED
    BY <2>2, <2>3, <2>7
<1>2. ASSUME OnResolved PROVE OthersTyped' /\ TimerTyped' /\ TimerInv'
  <2>1. RunOp("resolve") /\ pc' = pc /\ "connect" \in Ops
    BY <1>2 DEF OnResolved, Ops
  <2>2. CASE outcome = "ok"
    <3>1. /\ Start("connect", Tail(ready)) /\ mError' = mError
          /\ socketOpen' \in BOOLEAN /\ unopened' \in BOOLEAN
      BY <1>2, <2>2 DEF OnResolved
    <3>2. TimerTyped' /\ TimerInv' /\ op' = "connect" /\ outcome' = "none"
      BY <2>1, <3>1, StartEffect
    <3> QED
      BY <1>a, <1>2, <2>1, <3>1, <3>2 DEF OnResolved, OthersTyped
  <2>3. CASE outcome # "ok"
    <3>1. StopWith(Failure) /\ Failure \in {"timedOut", "aborted", "failed"}
      BY <1>2, <2>3 DEF OnResolved, Failure
    <3>2. TimerTyped' /\ TimerInv'
      BY <2>1, <3>1, StopEffect
    <3> QED
      BY <1>a, <1>2, <3>1, <3>2 DEF OnResolved, OthersTyped, StopWith
  <2> QED
    BY <2>2, <2>3
<1>3. ASSUME OnConnected PROVE OthersTyped' /\ TimerTyped' /\ TimerInv'
  <2>1. RunOp("connect") /\ pc' = pc /\ "write" \in Ops /\ "handshake" \in Ops
    BY <1>3 DEF OnConnected, Ops
  <2>2. CASE socketOpen /\ outcome = "ok" /\ secure
    <3>1. Handshake
      BY <1>3, <2>2 DEF OnConnected, Continue, NotTimedOut
    <3>2. /\ Tail(ready) \in Queues /\ ~HasOp(Tail(ready))
          /\ HasDeadline(Tail(ready)) <=> HasDeadline(ready)
          /\ op # "none" /\ pc = "running" /\ mError = "none"
      BY <2>1, RunOpEffect
    <3>3. OthersTyped'
      BY <1>a, <1>3, <2>1, <3>1 DEF OnConnected, Handshake, OthersTyped
    <3>4. TimerTyped'
      BY <1>a, <3>1, <3>2 DEF Handshake, TimerTyped, timer
    <3>5. TimerInv'
      BY <2>1, <3>1, <3>2 DEF Handshake, TimerInv, timer
    <3> QED
      BY <3>3, <3>4, <3>5
  <2>3. CASE ~(socketOpen /\ outcome = "ok" /\ secure)
    <3>1. \/ ~socketOpen /\ StopWith("timedOut")
          \/ socketOpen /\ outcome # "ok" /\ StopWith(Failure)
          \/ socketOpen /\ outcome = "ok" /\ Write
      BY <1>3, <2>3 DEF OnConnected, Continue, NotTimedOut
    <3>2. Write => Start("write", Tail(ready)) /\ UNCHANGED <<socketOpen, mError>>
      BY DEF Write
    <3>3. /\ TimerTyped' /\ TimerInv'
          /\ op' \in Ops \cup {"none"} /\ outcome' \in {"none", "ok", "eof", "failed", "aborted"}
          /\ socketOpen' \in BOOLEAN /\ mError' \in {"none", "timedOut", "aborted", "failed"}
      BY <2>1, <3>1, <3>2, ContinueEffect
    <3> QED
      BY <1>a, <1>3, <3>3 DEF OnConnected, OthersTyped
  <2> QED
    BY <2>2, <2>3
<1>4. ASSUME OnHandshake PROVE OthersTyped' /\ TimerTyped' /\ TimerInv'
  <2>1. RunOp("handshake") /\ pc' = pc /\ "write" \in Ops
    BY <1>4 DEF OnHandshake, Ops
  <2>2. \/ ~socketOpen /\ StopWith("timedOut")
        \/ socketOpen /\ outcome # "ok" /\ StopWith(Failure)
        \/ socketOpen /\ outcome = "ok" /\ Start("write", Tail(ready)) /\ UNCHANGED <<socketOpen, mError>>
    BY <1>4 DEF OnHandshake, Continue, NotTimedOut, Write
  <2>3. /\ TimerTyped' /\ TimerInv'
        /\ op' \in Ops \cup {"none"} /\ outcome' \in {"none", "ok", "eof", "failed", "aborted"}
        /\ socketOpen' \in BOOLEAN /\ mError' \in {"none", "timedOut", "aborted", "failed"}
    BY <2>1, <2>2, ContinueEffect
  <2> QED
    BY <1>a, <1>4, <2>3 DEF OnHandshake, OthersTyped
<1>5. ASSUME OnWrite PROVE OthersTyped' /\ TimerTyped' /\ TimerInv'
  <2>1. RunOp("write") /\ pc' = pc /\ "readHeaders" \in Ops
    BY <1>5 DEF OnWrite, Ops
  <2>2. \/ ~socketOpen /\ StopWith("timedOut")
        \/ socketOpen /\ outcome # "ok" /\ StopWith(Failure)
        \/ socketOpen /\ outcome = "ok" /\ Start("readHeaders", Tail(ready))
           /\ UNCHANGED <<socketOpen, mError>>
    BY <1>5 DEF OnWrite, Continue, NotTimedOut
  <2>3. /\ TimerTyped' /\ TimerInv'
        /\ op' \in Ops \cup {"none"} /\ outcome' \in {"none", "ok", "eof", "failed", "aborted"}
        /\ socketOpen' \in BOOLEAN /\ mError' \in {"none", "timedOut", "aborted", "failed"}
    BY <2>1, <2>2, ContinueEffect
  <2> QED
    BY <1>a, <1>5, <2>3 DEF OnWrite, OthersTyped
<1>6. ASSUME OnReadHeadersEof \/ OnReadHeadersBad \/ OnReadBodyEof
      PROVE  OthersTyped' /\ TimerTyped' /\ TimerInv'
  <2>1. (RunOp("readHeaders") \/ RunOp("readBody")) /\ pc' = pc /\ Close
    BY <1>6 DEF OnReadHeadersEof, OnReadHeadersBad, OnReadBodyEof
  <2>2. TimerTyped' /\ TimerInv'
    BY <2>1, CloseEffect
  <2>3. OthersTyped'
    BY <1>a, <1>6, <2>1 DEF OnReadHeadersEof, OnReadHeadersBad, OnReadBodyEof, Close, OthersTyped
  <2> QED
    BY <2>2, <2>3
<1>7. ASSUME OnReadHeaders \/ OnReadBody
      PROVE  OthersTyped' /\ TimerTyped' /\ TimerInv'
  <2>1. /\ RunOp("readHeaders") \/ RunOp("readBody")
        /\ UNCHANGED <<pc, mError>> /\ Start("readBody", Tail(ready)) /\ "readBody" \in Ops
    BY <1>7 DEF OnReadHeaders, OnReadBody, ReadOn, Ops
  <2>2. TimerTyped' /\ TimerInv' /\ op' = "readBody" /\ outcome' = "none"
    BY <2>1, StartEffect
  <2>3. stream' = <<>> /\ body' = body \o stream
    BY <1>7 DEF OnReadHeaders, OnReadBody, TakeLeftover, Consume
  <2>4. stream' \in Seq(Nat) /\ body' \in Seq(Nat)
    BY <1>a, <2>3, ConcatProperties DEF OthersTyped
  <2>5. OthersTyped'
    BY <1>a, <1>7, <2>1, <2>2, <2>4 DEF OnReadHeaders, OnReadBody, ReadOn, OthersTyped
  <2> QED
    BY <2>2, <2>5
<1>8. ASSUME OnReadFailed PROVE OthersTyped' /\ TimerTyped' /\ TimerInv'
  <2>1. /\ RunOp("readHeaders") \/ RunOp("readBody")
        /\ pc' = pc
        /\ \E error \in {"timedOut", "aborted", "failed"} : StopWith(error)
    BY <1>8 DEF OnReadFailed, Failure
  <2>2. TimerTyped' /\ TimerInv'
    BY <2>1, StopEffect
  <2>3. OthersTyped'
    BY <1>a, <1>8, <2>1 DEF OnReadFailed, StopWith, OthersTyped
  <2> QED
    BY <2>2, <2>3
<1>9. ASSUME OnDeadline PROVE OthersTyped' /\ TimerTyped' /\ TimerInv'
  <2>1. pc = "running" /\ ready # <<>> /\ Head(ready) = "deadline"
    BY <1>9 DEF OnDeadline, Run
  <2>2. /\ Tail(ready) \in Queues /\ HasDeadline(ready) /\ ~HasDeadline(Tail(ready))
        /\ HasOp(Tail(ready)) <=> HasOp(ready)
    BY <1>a, <2>1, TakeFirst
  <2>3. /\ UNCHANGED <<secure, limit, pc, op, timeout, overdue, mError, response, remote>>
        /\ waiting' = (mError = "none" /\ timeout)
    BY <1>9 DEF OnDeadline, Rearm
  <2>4. Pending <=> op # "none" /\ ~HasOp(ready)
    BY <1>a, QueueContents DEF Pending
  <2>5. /\ TimerTyped' /\ ~HasDeadline(ready')
        /\ HasOp(ready') <=> outcome' # "none"
        /\ op = "none" => outcome' = "none"
        /\ outcome' \in {"none", "ok", "eof", "failed", "aborted"} /\ socketOpen' \in BOOLEAN
    <3>0. waiting' \in BOOLEAN /\ timeout' \in BOOLEAN /\ overdue' \in BOOLEAN
      BY <1>a, <2>3 DEF TimerTyped
    <3>1. CASE DeadlinePassed /\ Pending
      <4>1. /\ ready' = Append(Tail(ready), "op") /\ outcome' = "aborted"
            /\ expiry' = "inf" /\ socketOpen' = FALSE
        BY <1>9, <3>1 DEF OnDeadline
      <4>2. /\ ready' \in Queues /\ HasOp(ready') /\ ~HasDeadline(ready')
        BY <2>2, <2>4, <3>1, <4>1, AddLast
      <4> QED
        BY <2>4, <3>0, <3>1, <4>1, <4>2 DEF TimerTyped
    <3>2. CASE DeadlinePassed /\ ~Pending
      <4>1. /\ ready' = Tail(ready) /\ outcome' = outcome
            /\ expiry' = "inf" /\ socketOpen' = FALSE
        BY <1>9, <3>2 DEF OnDeadline
      <4> QED
        BY <1>a, <2>2, <3>0, <4>1 DEF TimerTyped, TimerInv, OthersTyped
    <3>3. CASE ~DeadlinePassed
      <4>1. ready' = Tail(ready) /\ UNCHANGED <<socketOpen, expiry, outcome>>
        BY <1>9, <3>3 DEF OnDeadline
      <4> QED
        BY <1>a, <2>2, <3>0, <4>1 DEF TimerTyped, TimerInv, OthersTyped
    <3> QED
      BY <3>1, <3>2, <3>3
  <2>6. OthersTyped'
    BY <1>a, <2>3, <2>5 DEF OthersTyped
  <2>7. waiting' => timeout' /\ op' # "none"
    BY <2>1, <2>3 DEF TimerInv
  <2>8. timeout' /\ op' # "none" => waiting'
    BY <2>3 DEF TimerInv
  <2>9. TimerInv'
    BY <2>1, <2>3, <2>5, <2>7, <2>8 DEF TimerInv
  <2> QED
    BY <2>5, <2>6, <2>9
<1>10. ASSUME Return PROVE OthersTyped' /\ TimerTyped' /\ TimerInv'
  <2>1. OthersTyped' /\ TimerTyped'
    BY <1>a, <1>10 DEF Return, OthersTyped, TimerTyped, timer
  <2>2. TimerInv'
    BY <1>10 DEF Return, TimerInv, timer
  <2> QED
    BY <2>1, <2>2
<1>11. ASSUME Tick PROVE OthersTyped' /\ TimerTyped' /\ TimerInv'
  <2>1. OthersTyped' /\ TimerTyped'
    BY <1>a, <1>11 DEF Tick, OthersTyped, TimerTyped
  <2>2. TimerInv'
    BY <1>11 DEF Tick, TimerInv
  <2> QED
    BY <2>1, <2>2
<1>12. ASSUME TimerFires PROVE OthersTyped' /\ TimerTyped' /\ TimerInv'
  <2>1. waiting /\ ~HasDeadline(ready)
    BY <1>12 DEF TimerFires, TimerInv
  <2>2. /\ ready' \in Queues /\ HasDeadline(ready')
        /\ HasOp(ready') <=> HasOp(ready)
    BY <1>a, <1>12, <2>1, AddLast DEF TimerFires
  <2>3. OthersTyped' /\ TimerTyped'
    BY <1>a, <1>12, <2>2 DEF TimerFires, OthersTyped, TimerTyped
  <2>4. TimerInv'
    BY <1>12, <2>1, <2>2 DEF TimerFires, TimerInv
  <2> QED
    BY <2>3, <2>4
<1>13. ASSUME NEW result \in {"ok", "eof", "failed"}, Completes(result)
       PROVE  /\ TimerTyped' /\ TimerInv'
              /\ stream' \in Seq(Nat) /\ received' \in 0..sent
                 /\ {socketOpen', unopened'} \subseteq BOOLEAN => OthersTyped'
  <2>1. op # "none" /\ ~HasOp(ready)
    BY <1>a, <1>13, QueueContents DEF Completes, Pending
  <2>2. /\ ready' \in Queues /\ HasOp(ready')
        /\ HasDeadline(ready') <=> HasDeadline(ready)
    BY <1>a, <1>13, <2>1, AddLast DEF Completes
  <2>3. TimerTyped'
    BY <1>a, <1>13, <2>2 DEF Completes, TimerTyped, timer
  <2>4. TimerInv'
    BY <1>13, <2>1, <2>2 DEF Completes, TimerInv, timer
  <2>5. stream' \in Seq(Nat) /\ received' \in 0..sent
        /\ {socketOpen', unopened'} \subseteq BOOLEAN => OthersTyped'
    BY <1>a, <1>13 DEF Completes, OthersTyped
  <2> QED
    BY <2>3, <2>4, <2>5
<1>14. ASSUME OpSucceeds \/ OpFails \/ ConnectFailsClosed \/ Trickle \/ EofArrives
       PROVE  OthersTyped' /\ TimerTyped' /\ TimerInv'
  <2>1. /\ \E result \in {"ok", "eof", "failed"} : Completes(result)
        /\ UNCHANGED <<stream, received>>
        /\ \/ UNCHANGED <<socketOpen, unopened>>
           \/ socketOpen' = FALSE /\ unopened' = TRUE
    BY <1>14 DEF OpSucceeds, OpFails, ConnectFailsClosed, Trickle, EofArrives
  <2>2. stream' \in Seq(Nat) /\ received' \in 0..sent /\ {socketOpen', unopened'} \subseteq BOOLEAN
    BY <1>a, <2>1 DEF OthersTyped
  <2> QED
    BY <1>13, <2>1, <2>2
<1>15. ASSUME HeadersArrive PROVE OthersTyped' /\ TimerTyped' /\ TimerInv'
  <2>1. PICK n \in 0..sent : stream' = Chunks(0, n) /\ received' = n
    BY <1>15 DEF HeadersArrive
  <2>2. n \in Nat /\ 0 \in Nat /\ 0 <= n
    BY <1>a DEF OthersTyped
  <2>3. stream' \in Seq(Nat) /\ received' \in 0..sent /\ {socketOpen', unopened'} \subseteq BOOLEAN
    BY <1>a, <1>15, <2>1, <2>2, ChunksTyped DEF HeadersArrive, OthersTyped
  <2> QED
    BY <1>13, <1>15, <2>3 DEF HeadersArrive
<1>16. ASSUME BodyArrives PROVE OthersTyped' /\ TimerTyped' /\ TimerInv'
  <2>1. PICK n \in (received + 1)..sent :
          stream' = stream \o Chunks(received, n) /\ received' = n
    BY <1>16 DEF BodyArrives
  <2>2. n \in Nat /\ received \in Nat /\ received <= n /\ n \in 0..sent /\ stream \in Seq(Nat)
    BY <1>a DEF OthersTyped
  <2>3. Chunks(received, n) \in Seq(Nat)
    BY <2>2, ChunksTyped
  <2>4. stream' \in Seq(Nat) /\ received' \in 0..sent
    BY <2>1, <2>2, <2>3, ConcatProperties
  <2>5. {socketOpen', unopened'} \subseteq BOOLEAN
    BY <1>a, <1>16 DEF BodyArrives, OthersTyped
  <2> QED
    BY <1>13, <1>16, <2>4, <2>5 DEF BodyArrives
<1>17. ASSUME Peer PROVE OthersTyped' /\ TimerTyped' /\ TimerInv'
  <2>1. /\ sent' \in 0..MaxChunks /\ sent <= sent' /\ received' = received
        /\ peer' \in {"silent", "answering", "closed"} /\ header' \in {"none", "good", "bad"}
    BY <1>a, <1>17 DEF Peer, PeerSendsHeaders, PeerSendsChunk, PeerCloses, OthersTyped
  <2>2. OthersTyped'
    BY <1>a, <1>17, <2>1 DEF Peer, OthersTyped
  <2>3. TimerTyped' /\ TimerInv'
    BY <1>a, <1>17 DEF Peer, TimerTyped, TimerInv, timer
  <2> QED
    BY <2>2, <2>3
<1>18. ASSUME UNCHANGED vars PROVE OthersTyped' /\ TimerTyped' /\ TimerInv'
  <2>1. OthersTyped' /\ TimerTyped'
    BY <1>a, <1>18 DEF vars, timer, OthersTyped, TimerTyped
  <2>2. TimerInv'
    BY <1>18 DEF vars, timer, TimerInv
  <2> QED
    BY <2>1, <2>2
<1> QED
  BY <1>1, <1>2, <1>3, <1>4, <1>5, <1>6, <1>7, <1>8, <1>9, <1>10, <1>11, <1>12,
     <1>14, <1>15, <1>16, <1>17, <1>18 DEF Next, Handler, Network

-----------------------------------------------------------------------------
(* The deadline. *)

\* No handler is told that it was late before its deadline has passed.
LEMMA LateNext ==
    TypeInv /\ TimerInv /\ LateInv /\ [Next]_vars => LateInv'
<1> SUFFICES ASSUME TypeInv, TimerInv, LateInv, [Next]_vars
             PROVE  LateInv'
  OBVIOUS
<1> USE DEF response, remote
<1>t. TimerInv'
  BY NextTyped
<1>e. op' # "none" => mError' # "timedOut"
  BY <1>t DEF TimerInv
<1>1. ASSUME NEW o, RunOp(o), NEW next \in Ops, Start(next, Tail(ready)),
             socketOpen' \/ unopened'
      PROVE  LateInv'
  <2>1. op' # "none" /\ (expiry' = "past" => overdue')
    BY <1>1 DEF Start, SetTimeout, Cancel, LateInv, Ops
  <2> QED
    BY <1>1, <1>e, <2>1 DEF LateInv, TimedOutIsLate
<1>2. ASSUME NEW o, RunOp(o), NEW error, StopWith(error), unopened' = unopened,
             error = "timedOut" => overdue \/ unopened
      PROVE  LateInv'
  BY <1>2 DEF StopWith, LateInv, TimedOutIsLate
<1>3. Failure # "timedOut"
  BY DEF Failure
<1>4. ASSUME NEW o, RunOp(o), o # "resolve", ~socketOpen
      PROVE  overdue \/ unopened
  <2>1. op \notin {"none", "resolve"}
    BY <1>4, RunOpEffect
  <2> QED
    BY <1>4, <2>1 DEF LateInv
<1>5. CASE Send
  BY <1>5, <1>e DEF Send, LateInv, TimedOutIsLate
<1>6. CASE OnResolved
  <2>1. RunOp("resolve") /\ "connect" \in Ops
    BY <1>6 DEF OnResolved, Ops
  <2>2. CASE outcome = "ok"
    <3>1. Start("connect", Tail(ready)) /\ (socketOpen' \/ unopened')
      BY <1>6, <2>2 DEF OnResolved
    <3> QED
      BY <1>1, <2>1, <3>1
  <2>3. CASE outcome # "ok"
    BY <1>2, <1>3, <1>6, <2>1, <2>3 DEF OnResolved
  <2> QED
    BY <2>2, <2>3
<1>7. CASE OnConnected
  <2>1. RunOp("connect") /\ "write" \in Ops
    BY <1>7 DEF OnConnected, Ops
  <2>2. CASE socketOpen /\ outcome = "ok" /\ secure
    <3>1. Handshake
      BY <1>7, <2>2 DEF OnConnected, Continue, NotTimedOut
    <3> QED
      BY <2>2, <3>1, <1>e DEF Handshake, timer, LateInv, TimedOutIsLate
  <2>3. CASE socketOpen /\ outcome = "ok" /\ ~secure
    BY <1>1, <1>7, <2>1, <2>3 DEF OnConnected, Continue, NotTimedOut, Write
  <2>4. CASE ~(socketOpen /\ outcome = "ok")
    BY <1>2, <1>3, <1>4, <1>7, <2>1, <2>4 DEF OnConnected, Continue, NotTimedOut
  <2> QED
    BY <2>2, <2>3, <2>4
<1>8. CASE OnHandshake
  <2>1. RunOp("handshake") /\ "write" \in Ops
    BY <1>8 DEF OnHandshake, Ops
  <2>2. CASE socketOpen /\ outcome = "ok"
    BY <1>1, <1>8, <2>1, <2>2 DEF OnHandshake, Continue, NotTimedOut, Write
  <2>3. CASE ~(socketOpen /\ outcome = "ok")
    BY <1>2, <1>3, <1>4, <1>8, <2>1, <2>3 DEF OnHandshake, Continue, NotTimedOut
  <2> QED
    BY <2>2, <2>3
<1>9. CASE OnWrite
  <2>1. RunOp("write") /\ "readHeaders" \in Ops
    BY <1>9 DEF OnWrite, Ops
  <2>2. CASE socketOpen /\ outcome = "ok"
    BY <1>1, <1>9, <2>1, <2>2 DEF OnWrite, Continue, NotTimedOut
  <2>3. CASE ~(socketOpen /\ outcome = "ok")
    BY <1>2, <1>3, <1>4, <1>9, <2>1, <2>3 DEF OnWrite, Continue, NotTimedOut
  <2> QED
    BY <2>2, <2>3
<1>10. CASE OnReadHeadersEof \/ OnReadHeadersBad \/ OnReadBodyEof
  <2>1. Close /\ mError' = mError /\ unopened' = unopened
    BY <1>10 DEF OnReadHeadersEof, OnReadHeadersBad, OnReadBodyEof
  <2> QED
    BY <2>1 DEF Close, LateInv, TimedOutIsLate
<1>11. CASE OnReadHeaders \/ OnReadBody
  <2>1. /\ RunOp("readHeaders") \/ RunOp("readBody")
        /\ Start("readBody", Tail(ready)) /\ socketOpen' /\ "readBody" \in Ops
    BY <1>11 DEF OnReadHeaders, OnReadBody, NotTimedOut, ReadOn, Ops
  <2> QED
    BY <1>1, <2>1
<1>12. CASE OnReadFailed
  <2>1. \E o \in {"readHeaders", "readBody"} : RunOp(o)
    BY <1>12 DEF OnReadFailed
  <2>2. CASE socketOpen
    BY <1>2, <1>3, <1>12, <2>1, <2>2 DEF OnReadFailed, NotTimedOut
  <2>3. CASE ~socketOpen
    BY <1>2, <1>4, <1>12, <2>1, <2>3 DEF OnReadFailed, NotTimedOut
  <2> QED
    BY <2>2, <2>3
<1>13. CASE OnDeadline
  BY <1>13, <1>e DEF OnDeadline, DeadlinePassed, LateInv, TimedOutIsLate
<1>14. CASE Return
  BY <1>14 DEF Return, timer, LateInv, TimedOutIsLate
<1>15. CASE Tick
  BY <1>15 DEF Tick, LateInv, TimedOutIsLate
<1>16. CASE TimerFires
  BY <1>16 DEF TimerFires, LateInv, TimedOutIsLate
<1>17. CASE Network
  <2>1. /\ \E result : Completes(result)
        /\ UNCHANGED <<socketOpen, unopened>> \/ unopened'
    BY <1>17 DEF Network, OpSucceeds, OpFails, ConnectFailsClosed, HeadersArrive, BodyArrives,
       Trickle, EofArrives
  <2> QED
    BY <2>1 DEF Completes, timer, LateInv, TimedOutIsLate
<1>18. CASE Peer
  BY <1>18 DEF Peer, timer, LateInv, TimedOutIsLate
<1>19. CASE UNCHANGED vars
  BY <1>19 DEF vars, timer, LateInv, TimedOutIsLate
<1> QED
  BY <1>5, <1>6, <1>7, <1>8, <1>9, <1>10, <1>11, <1>12, <1>13, <1>14, <1>15, <1>16,
     <1>17, <1>18, <1>19 DEF Next, Handler

-----------------------------------------------------------------------------
(* The body. *)

\* Handlers that take nothing over: the next operation is no read of the body.
LEMMA BodyKept ==
    ASSUME TypeInv, TimerInv, BodyInv, pc = "running", op # "none",
           UNCHANGED <<response, peer, sent, received, pc>>,
           \/ op' = "none" /\ mError' # "none"
           \/ /\ op \in {"resolve", "connect", "handshake", "write"}
              /\ op' \in {"connect", "handshake", "write", "readHeaders"}
              /\ outcome' = "none"
    PROVE  BodyInv'
  BY DEF BodyInv, ReadToEnd, response

\* The chunks read, buffered and still in the stream stay those sent, in order.
LEMMA BodyNext ==
    TypeInv /\ TimerInv /\ BodyInv /\ [Next]_vars => BodyInv'
<1> SUFFICES ASSUME TypeInv, TimerInv, BodyInv, [Next]_vars
             PROVE  BodyInv'
  OBVIOUS
<1>a. /\ stream \in Seq(Nat) /\ body \in Seq(Nat)
      /\ sent \in Nat /\ received \in Nat /\ received <= sent
      /\ outcome \in {"none", "ok", "eof", "failed", "aborted"}
      /\ ready \in Queues
  BY DEF TypeInv, TypeOK
<1>b. Failure \in {"aborted", "failed"}
  BY DEF Failure
<1>1. CASE Send
  BY <1>1 DEF Send, response, remote, BodyInv, ReadToEnd, TimerInv
<1>2. CASE OnResolved
  <2>1. /\ pc = "running" /\ op = "resolve" /\ UNCHANGED <<response, peer, sent, received, pc>>
        /\ \/ op' = "none" /\ mError' # "none"
           \/ op' = "connect" /\ outcome' = "none"
    BY <1>2, <1>b DEF OnResolved, RunOp, Run, Start, StopWith
  <2> QED
    BY <2>1, BodyKept
<1>3. CASE OnConnected
  <2>1. /\ pc = "running" /\ op = "connect" /\ UNCHANGED <<response, peer, sent, received, pc>>
        /\ \/ op' = "none" /\ mError' # "none"
           \/ op' \in {"handshake", "write"} /\ outcome' = "none"
    BY <1>3, <1>b DEF OnConnected, RunOp, Run, Continue, Handshake, Write, Start, StopWith, remote
  <2> QED
    BY <2>1, BodyKept
<1>4. CASE OnHandshake
  <2>1. /\ pc = "running" /\ op = "handshake" /\ UNCHANGED <<response, peer, sent, received, pc>>
        /\ \/ op' = "none" /\ mError' # "none"
           \/ op' = "write" /\ outcome' = "none"
    BY <1>4, <1>b DEF OnHandshake, RunOp, Run, Continue, Write, Start, StopWith, remote
  <2> QED
    BY <2>1, BodyKept
<1>5. CASE OnWrite
  <2>1. /\ pc = "running" /\ op = "write" /\ UNCHANGED <<response, peer, sent, received, pc>>
        /\ \/ op' = "none" /\ mError' # "none"
           \/ op' = "readHeaders" /\ outcome' = "none"
    BY <1>5, <1>b DEF OnWrite, RunOp, Run, Continue, Start, StopWith, remote
  <2> QED
    BY <2>1, BodyKept
<1>6. CASE OnReadFailed
  <2>1. /\ pc = "running" /\ op # "none" /\ UNCHANGED <<response, peer, sent, received, pc>>
        /\ op' = "none" /\ mError' # "none"
    BY <1>6, <1>b DEF OnReadFailed, RunOp, Run, StopWith, remote
  <2> QED
    BY <2>1, BodyKept
<1>7. CASE OnReadHeadersEof \/ OnReadHeadersBad
  <2>1. /\ op' = "none" /\ invalid' /\ outcome' = "none" /\ pc' = "running"
        /\ UNCHANGED <<stream, body, received>>
    BY <1>7 DEF OnReadHeadersEof, OnReadHeadersBad, RunOp, Run, Close, remote
  <2> QED
    BY <2>1 DEF BodyInv
<1>8. CASE OnReadBodyEof
  <2>1. /\ op = "readBody" /\ outcome = "eof" /\ op' = "none" /\ outcome' = "none"
        /\ pc' = "running" /\ UNCHANGED <<response, remote>>
    BY <1>8 DEF OnReadBodyEof, RunOp, Run, Close
  <2> QED
    BY <2>1 DEF BodyInv, ReadToEnd, response, remote
<1>9. CASE OnReadHeaders \/ OnReadBody
  <2>1. /\ op' = "readBody" /\ outcome' = "none" /\ pc' = "running"
        /\ body' = body \o stream /\ stream' = <<>> /\ received' = received
    BY <1>9 DEF OnReadHeaders, OnReadBody, RunOp, Run, TakeLeftover, Consume, ReadOn, Start, remote
  <2>2. parsed'
    BY <1>9 DEF OnReadHeaders, OnReadBody, RunOp, BodyInv
  <2>3. body \o stream \in Seq(Nat)
    BY <1>a, ConcatProperties
  <2>4. body' \o stream' = body \o stream
    BY <2>1, <2>3, ConcatEmptySeq
  <2>5. body' \o stream' = Chunks(0, received')
    BY <2>1, <2>4 DEF BodyInv
  <2> QED
    BY <2>1, <2>2, <2>5 DEF BodyInv
<1>10. CASE OnDeadline
  <2>1. /\ UNCHANGED <<pc, op, mError, response, remote>> /\ pc = "running"
        /\ outcome' = outcome \/ outcome' = "aborted"
    BY <1>10 DEF OnDeadline, Run
  <2> QED
    BY <2>1 DEF BodyInv, ReadToEnd, response, remote
<1>11. CASE Return
  BY <1>11 DEF Return, response, remote, BodyInv, ReadToEnd
<1>12. CASE Tick \/ TimerFires
  <2>1. UNCHANGED <<pc, op, outcome, mError, response, remote>>
    BY <1>12 DEF Tick, TimerFires
  <2> QED
    BY <2>1 DEF response, remote, BodyInv, ReadToEnd
<1>13. ASSUME NEW result \in {"ok", "eof", "failed"}, Completes(result)
       PROVE  op # "none" /\ outcome = "none"
  <2>1. op # "none" /\ ~HasOp(ready)
    BY <1>a, <1>13, QueueContents DEF Completes, Pending
  <2> QED
    BY <2>1 DEF TimerInv
<1>14. CASE OpSucceeds
  <2>1. Completes("ok") /\ op \in {"resolve", "connect", "handshake", "write"}
        /\ UNCHANGED <<stream, received>>
    BY <1>14 DEF OpSucceeds
  <2> QED
    BY <1>13, <2>1 DEF Completes, BodyInv
<1>15. CASE OpFails \/ ConnectFailsClosed
  <2>1. Completes("failed") /\ UNCHANGED <<stream, received>>
    BY <1>15 DEF OpFails, ConnectFailsClosed
  <2> QED
    BY <1>13, <2>1 DEF Completes, BodyInv
<1>16. CASE EofArrives
  <2>1. Completes("eof") /\ UNCHANGED <<stream, received>>
    BY <1>16 DEF EofArrives
  <2>2. op # "none" /\ outcome = "none"
    BY <1>13, <2>1
  <2>3. peer = "closed" /\ (op = "readBody" => received = sent)
    BY <1>16 DEF EofArrives
  <2> QED
    BY <2>1, <2>2, <2>3 DEF Completes, BodyInv, ReadToEnd
<1>17. CASE HeadersArrive
  <2>1. PICK n \in 0..sent : stream' = Chunks(0, n) /\ received' = n
    BY <1>17 DEF HeadersArrive
  <2>2. op = "readHeaders" /\ Completes("ok")
    BY <1>17 DEF HeadersArrive
  <2>3. body = <<>> /\ body' = <<>>
    BY <2>2 DEF BodyInv, Completes
  <2>4. stream' \in Seq(Nat)
    BY <1>a, <2>1, ChunksTyped, 0 \in Nat, n \in Nat, 0 <= n
  <2>5. body' \o stream' = Chunks(0, received')
    BY <2>1, <2>3, <2>4, ConcatEmptySeq
  <2>6. pc' = pc /\ op' = op /\ outcome' = "ok" /\ pc = "running"
    BY <2>2 DEF Completes, TimerInv
  <2> QED
    BY <2>2, <2>3, <2>5, <2>6 DEF BodyInv
<1>18. CASE BodyArrives
  <2>1. PICK n \in (received + 1)..sent :
          stream' = stream \o Chunks(received, n) /\ received' = n
    BY <1>18 DEF BodyArrives
  <2>2. op = "readBody" /\ Completes("ok")
    BY <1>18 DEF BodyArrives
  <2>3. n \in Nat /\ received <= n
    BY <1>a
  <2>4. Chunks(received, n) \in Seq(Nat)
    BY <1>a, <2>3, ChunksTyped
  <2>5. body' = body /\ body \o stream = Chunks(0, received)
    BY <2>2 DEF Completes, BodyInv
  <2>6. body' \o stream' = (body \o stream) \o Chunks(received, n)
    BY <1>a, <2>1, <2>4, <2>5, Regrouped
  <2>7. body' \o stream' = Chunks(0, received')
    BY <1>a, <2>1, <2>3, <2>5, <2>6, ChunksJoined
  <2>8. pc' = pc /\ op' = op /\ outcome' = "ok" /\ pc = "running" /\ parsed' = parsed
    BY <2>2 DEF Completes, TimerInv
  <2> QED
    BY <2>2, <2>7, <2>8 DEF BodyInv
<1>s. CASE Trickle
  <2>1. Completes("ok") /\ op = "readBody" /\ UNCHANGED <<stream, received>>
    BY <1>s DEF Trickle
  <2> QED
    BY <1>13, <2>1 DEF Completes, BodyInv
<1>19. CASE Peer
  <2>1. /\ UNCHANGED <<pc, op, outcome, mError, response, received>>
        /\ peer = "closed" => peer' = "closed" /\ sent' = sent
    BY <1>19 DEF Peer, PeerSendsHeaders, PeerSendsChunk, PeerCloses
  <2> QED
    BY <2>1 DEF BodyInv, ReadToEnd, response
<1>20. CASE UNCHANGED vars
  BY <1>20 DEF vars, response, remote, BodyInv, ReadToEnd
<1> QED
  BY <1>1, <1>2, <1>3, <1>4, <1>5, <1>6, <1>7, <1>8, <1>9, <1>10, <1>11, <1>12,
     <1>14, <1>15, <1>16, <1>17, <1>18, <1>s, <1>19, <1>20 DEF Next, Handler, Network

-----------------------------------------------------------------------------
(* The results. *)

\* Everything at once, for every connection.
HttpInv == TypeInv /\ TimerInv /\ LateInv /\ BodyInv

\* Every order of completions, deadlines and the peer's ends keeps the invariant.
THEOREM Invariance == Spec => []HttpInv
<1>1. Init => HttpInv
  <2> SUFFICES ASSUME Init PROVE HttpInv
    OBVIOUS
  <2>1. TypeInv /\ TimerInv
    BY InitTyped
  <2>2. LateInv
    BY DEF Init, LateInv, TimedOutIsLate
  <2>3. <<>> \o <<>> = Chunks(0, 0)
    BY NoChunks, ConcatEmptySeq, <<>> \in Seq(Nat)
  <2>4. BodyInv
    BY <2>3 DEF Init, BodyInv, ReadToEnd
  <2> QED
    BY <2>1, <2>2, <2>4 DEF HttpInv
<1>2. HttpInv /\ [Next]_vars => HttpInv'
  BY NextTyped, LateNext, BodyNext DEF HttpInv
<1> QED
  BY <1>1, <1>2, PTL DEF Spec

\* The types of the state of a connection, and the bound of its queue: over every
\* order of completions, deadlines and handlers it holds the handler of one
\* operation and one call of onDeadline at most.
THEOREM TypeCorrect == Spec => [](TypeOK /\ ready \in Queues)
<1>1. HttpInv => TypeOK /\ ready \in Queues
  BY DEF HttpInv, TypeInv
<1> QED
  BY <1>1, Invariance, PTL

\* The deadline timer of an operation under way is never lost and never doubled.
THEOREM GuardedCorrect == Spec => []Guarded
<1>1. HttpInv => Guarded
  BY QueueContents DEF HttpInv, TypeInv, TimerInv, Guarded
<1> QED
  BY <1>1, Invariance, PTL

\* Only an operation whose own deadline has passed, or a connect that could not
\* open a socket, is reported as timed out.
THEOREM LateCorrect == Spec => []TimedOutIsLate
<1>1. HttpInv => TimedOutIsLate
  BY DEF HttpInv, LateInv
<1> QED
  BY <1>1, Invariance, PTL

\* send() that returns without an error leaves the whole response, once and in
\* order, whatever the number of chunks.
THEOREM WholeCorrect == Spec => []ResponseIsWhole
<1>1. HttpInv => ResponseIsWhole
  <2> SUFFICES ASSUME HttpInv, pc = "returned", NoVerdict
               PROVE  parsed /\ peer = "closed" /\ body = Chunks(0, sent)
    BY DEF ResponseIsWhole
  <2>1. ReadToEnd /\ body \o stream = Chunks(0, received)
    BY DEF HttpInv, BodyInv, NoVerdict
  <2>2. body \in Seq(Nat) /\ stream = <<>> /\ received = sent
    BY <2>1 DEF HttpInv, TypeInv, TypeOK, ReadToEnd
  <2>3. body \o stream = body
    BY <2>2, ConcatEmptySeq
  <2> QED
    BY <2>1, <2>2, <2>3 DEF ReadToEnd
<1> QED
  BY <1>1, Invariance, PTL

-----------------------------------------------------------------------------
(* The end of send(). SendEnds needs fairness and stays with TLC; what it    *)
(* rests on, apart from that, is that the thread never waits for nothing,    *)
(* and that a number falls.                                                  *)

\* With a timeout no operation is without a deadline: when the deadline has
\* passed and is switched off, the operation it stopped is done, and the socket
\* is closed.
DeadlineInv ==
    /\ op # "none" \/ pc = "idle" => timeout = limit
    /\ timeout /\ op # "none" /\ expiry = "inf" => outcome # "none" /\ ~socketOpen

\* A handler is queued, or time will pass, or the timer will fire, or send()
\* returns.
GoesOn ==
    pc = "running" /\ limit =>
        \/ ready # <<>>
        \/ expiry = "future"
        \/ waiting /\ expiry = "past"
        \/ op = "none" /\ ~waiting

\* No handler leaves an operation without a deadline.
LEMMA DeadlineNext ==
    TypeInv /\ TimerInv /\ DeadlineInv /\ [Next]_vars => DeadlineInv'
<1> SUFFICES ASSUME TypeInv, TimerInv, DeadlineInv, [Next]_vars PROVE DeadlineInv'
  OBVIOUS
<1> USE DEF response, remote
<1>1. ASSUME NEW o, RunOp(o), NEW next \in Ops, Start(next, Tail(ready)), pc' = pc, limit' = limit
      PROVE  DeadlineInv'
  <2>1. op # "none" /\ pc = "running"
    BY <1>1, RunOpEffect
  <2>2. timeout' = timeout /\ (timeout => expiry' = "future")
    BY <1>1 DEF Start, SetTimeout
  <2> QED
    BY <1>1, <2>1, <2>2 DEF DeadlineInv
<1>2. ASSUME op' = "none", pc' = pc, pc = "running" PROVE DeadlineInv'
  BY <1>2 DEF DeadlineInv
<1>3. ASSUME NEW o, RunOp(o), NEW error, StopWith(error), pc' = pc PROVE DeadlineInv'
  BY <1>2, <1>3 DEF StopWith, RunOp, Run
<1>4. CASE Send
  <2>1. limit' = limit /\ timeout' = timeout /\ timeout = limit /\ (timeout => expiry' = "future")
    BY <1>4 DEF Send, DeadlineInv
  <2> QED
    BY <2>1 DEF DeadlineInv
<1>5. CASE OnResolved
  <2>1. RunOp("resolve") /\ "connect" \in Ops /\ pc' = pc /\ limit' = limit
    BY <1>5 DEF OnResolved, Ops
  <2>2. CASE outcome = "ok"
    BY <1>1, <1>5, <2>1, <2>2 DEF OnResolved
  <2>3. CASE outcome # "ok"
    BY <1>3, <1>5, <2>1, <2>3 DEF OnResolved
  <2> QED
    BY <2>2, <2>3
<1>6. CASE OnConnected
  <2>1. RunOp("connect") /\ "write" \in Ops /\ pc' = pc /\ limit' = limit
    BY <1>6 DEF OnConnected, Ops
  <2>2. CASE socketOpen /\ outcome = "ok" /\ secure
    <3>1. Handshake /\ op = "connect"
      BY <1>6, <2>1, <2>2 DEF OnConnected, Continue, NotTimedOut, RunOp
    <3> QED
      BY <2>1, <2>2, <3>1 DEF Handshake, timer, DeadlineInv
  <2>3. CASE socketOpen /\ outcome = "ok" /\ ~secure
    BY <1>1, <1>6, <2>1, <2>3 DEF OnConnected, Continue, NotTimedOut, Write
  <2>4. CASE ~(socketOpen /\ outcome = "ok")
    BY <1>3, <1>6, <2>1, <2>4 DEF OnConnected, Continue, NotTimedOut
  <2> QED
    BY <2>2, <2>3, <2>4
<1>7. CASE OnHandshake
  <2>1. RunOp("handshake") /\ "write" \in Ops /\ pc' = pc /\ limit' = limit
    BY <1>7 DEF OnHandshake, Ops
  <2>2. CASE socketOpen /\ outcome = "ok"
    BY <1>1, <1>7, <2>1, <2>2 DEF OnHandshake, Continue, NotTimedOut, Write
  <2>3. CASE ~(socketOpen /\ outcome = "ok")
    BY <1>3, <1>7, <2>1, <2>3 DEF OnHandshake, Continue, NotTimedOut
  <2> QED
    BY <2>2, <2>3
<1>8. CASE OnWrite
  <2>1. RunOp("write") /\ "readHeaders" \in Ops /\ pc' = pc /\ limit' = limit
    BY <1>8 DEF OnWrite, Ops
  <2>2. CASE socketOpen /\ outcome = "ok"
    BY <1>1, <1>8, <2>1, <2>2 DEF OnWrite, Continue, NotTimedOut
  <2>3. CASE ~(socketOpen /\ outcome = "ok")
    BY <1>3, <1>8, <2>1, <2>3 DEF OnWrite, Continue, NotTimedOut
  <2> QED
    BY <2>2, <2>3
<1>9. CASE OnReadHeadersEof \/ OnReadHeadersBad \/ OnReadBodyEof
  <2>1. Close /\ pc' = pc /\ pc = "running"
    BY <1>9 DEF OnReadHeadersEof, OnReadHeadersBad, OnReadBodyEof, RunOp, Run
  <2> QED
    BY <1>2, <2>1 DEF Close
<1>10. CASE OnReadHeaders \/ OnReadBody
  <2>1. /\ RunOp("readHeaders") \/ RunOp("readBody")
        /\ Start("readBody", Tail(ready)) /\ "readBody" \in Ops /\ pc' = pc /\ limit' = limit
    BY <1>10 DEF OnReadHeaders, OnReadBody, ReadOn, Ops
  <2> QED
    BY <1>1, <2>1
<1>11. CASE OnReadFailed
  <2>1. /\ RunOp("readHeaders") \/ RunOp("readBody")
        /\ pc' = pc /\ \E error : StopWith(error)
    BY <1>11 DEF OnReadFailed
  <2> QED
    BY <1>3, <2>1
<1>12. CASE OnDeadline
  <2>1. UNCHANGED <<pc, limit, op, timeout>> /\ pc = "running"
    BY <1>12 DEF OnDeadline, Run
  <2>2. Pending <=> op # "none" /\ outcome = "none"
    BY QueueContents DEF Pending, TypeInv, TimerInv
  <2>3. CASE DeadlinePassed
    <3>1. socketOpen' = FALSE /\ (op # "none" => outcome' # "none")
      BY <1>12, <2>2, <2>3 DEF OnDeadline
    <3> QED
      BY <2>1, <3>1 DEF DeadlineInv
  <2>4. CASE ~DeadlinePassed
    BY <1>12, <2>1, <2>4 DEF OnDeadline, DeadlineInv
  <2> QED
    BY <2>3, <2>4
<1>13. CASE Return
  BY <1>13 DEF Return, timer, DeadlineInv
<1>14. CASE Tick \/ TimerFires
  BY <1>14 DEF Tick, TimerFires, DeadlineInv
<1>15. CASE Network
  <2>1. \E result \in {"ok", "eof", "failed"} : Completes(result)
    BY <1>15 DEF Network, OpSucceeds, OpFails, ConnectFailsClosed, HeadersArrive, BodyArrives,
       Trickle, EofArrives
  <2>2. outcome = "none"
    BY <2>1, QueueContents DEF Completes, Pending, TypeInv, TimerInv
  <2> QED
    BY <2>1, <2>2 DEF Completes, timer, DeadlineInv
<1>16. CASE Peer
  BY <1>16 DEF Peer, timer, DeadlineInv
<1>17. CASE UNCHANGED vars
  BY <1>17 DEF vars, timer, DeadlineInv
<1> QED
  BY <1>4, <1>5, <1>6, <1>7, <1>8, <1>9, <1>10, <1>11, <1>12, <1>13, <1>14, <1>15,
     <1>16, <1>17 DEF Next, Handler

(* With a timeout m_ioService.run() never waits for the peer alone, whatever   *)
(* the order of completions, deadlines and handlers: the timer of the          *)
(* operation is running, or a handler is queued, or nothing is left and send() *)
(* returns.                                                                    *)
THEOREM NeverStuck == Spec => []GoesOn
<1>1. Init => DeadlineInv
  BY DEF Init, DeadlineInv
<1>2. HttpInv /\ DeadlineInv => GoesOn
  <2> SUFFICES ASSUME HttpInv, DeadlineInv, pc = "running", limit, ready = <<>>,
                      expiry # "future", ~(waiting /\ expiry = "past")
               PROVE  op = "none" /\ ~waiting
    BY DEF GoesOn
  <2>1. ~HasOp(ready) /\ ~HasDeadline(ready)
    BY DEF HasOp, HasDeadline
  <2>2. expiry \in {"inf", "past"}
    BY DEF HttpInv, TypeInv, TypeOK
  <2>3. op = "none"
    BY <2>1, <2>2 DEF HttpInv, TimerInv, DeadlineInv
  <2> QED
    BY <2>3 DEF HttpInv, TimerInv, TypeInv, TypeOK
<1>3. HttpInv /\ DeadlineInv /\ [Next]_vars => DeadlineInv'
  BY DeadlineNext DEF HttpInv
<1> QED
  BY <1>1, <1>2, <1>3, Invariance, PTL DEF Spec

\* The operations to come, a read for each chunk that has not been taken off
\* the wire among them.
OpsLeft ==
    CASE op = "resolve"     -> MaxChunks + 6
      [] op = "connect"     -> MaxChunks + 5
      [] op = "handshake"   -> MaxChunks + 4
      [] op = "write"       -> MaxChunks + 3
      [] op = "readHeaders" -> MaxChunks + 2
      [] op = "readBody"    -> (MaxChunks - received) + (IF outcome = "ok" THEN 2 ELSE 1)
      [] OTHER              -> 0

\* The steps of the timer until the deadline of the operation has passed.
TimerLeft ==
    CASE expiry = "future" /\ HasDeadline(ready)  -> 4
      [] expiry = "future" /\ ~HasDeadline(ready) -> 3
      [] expiry = "past" /\ ~HasDeadline(ready)   -> 2
      [] expiry = "past" /\ HasDeadline(ready)    -> 1
      [] expiry = "inf" /\ HasDeadline(ready)     -> 1
      [] OTHER                                    -> 0

SendLeft == 5 * OpsLeft + TimerLeft + (IF pc = "running" THEN 1 ELSE 0)

\* All three are numbers.
LeftTyped == OpsLeft \in Nat /\ TimerLeft \in 0..4 /\ SendLeft \in Nat

\* No more chunks are taken off the wire than the peer sends.
LEMMA LeftValues == TypeInv => LeftTyped
<1> SUFFICES ASSUME TypeInv PROVE LeftTyped
  OBVIOUS
<1>1. sent \in 0..MaxChunks /\ received \in 0..sent
  BY DEF TypeInv, TypeOK
<1>2. MaxChunks - received \in Nat
  BY <1>1
<1>3. OpsLeft \in Nat
  BY <1>2 DEF OpsLeft
<1>4. TimerLeft \in 0..4
  BY DEF TimerLeft
<1> QED
  BY <1>3, <1>4 DEF LeftTyped, SendLeft

\* The timer begins anew with an operation, so that an operation weighs more.
LEMMA LeftFalls ==
    ASSUME LeftTyped, LeftTyped'
    PROVE  /\ pc = "running" /\ OpsLeft' < OpsLeft => SendLeft' < SendLeft
           /\ OpsLeft' <= OpsLeft /\ TimerLeft' < TimerLeft /\ pc' = pc => SendLeft' < SendLeft
           /\ OpsLeft' <= OpsLeft /\ TimerLeft' <= TimerLeft /\ pc' = pc => SendLeft' <= SendLeft
           /\ OpsLeft' = OpsLeft /\ TimerLeft' = TimerLeft /\ pc = "running" /\ pc' # "running"
                 => SendLeft' < SendLeft
<1>1. PICK a \in Nat, b \in Nat, i \in 0..4, j \in 0..4, m \in 0..1, n \in 0..1 :
         /\ a = OpsLeft /\ b = OpsLeft' /\ i = TimerLeft /\ j = TimerLeft'
         /\ m = (IF pc = "running" THEN 1 ELSE 0) /\ n = (IF pc' = "running" THEN 1 ELSE 0)
  BY DEF LeftTyped
<1>2. SendLeft = 5 * a + i + m /\ SendLeft' = 5 * b + j + n
  BY <1>1 DEF SendLeft
<1>3. /\ m = 1 /\ b < a => 5 * b + j + n < 5 * a + i + m
      /\ b <= a /\ j < i /\ n = m => 5 * b + j + n < 5 * a + i + m
      /\ b <= a /\ j <= i /\ n = m => 5 * b + j + n <= 5 * a + i + m
      /\ b = a /\ j = i /\ m = 1 /\ n = 0 => 5 * b + j + n < 5 * a + i + m
  OBVIOUS
<1> QED
  BY <1>1, <1>2, <1>3

\* A handler of an operation leaves fewer of them, and is run by send().
LEMMA OpsFall ==
    ASSUME TypeInv, TimerInv,
           \/ OnResolved \/ OnConnected \/ OnHandshake \/ OnWrite
           \/ OnReadHeadersEof \/ OnReadHeadersBad \/ OnReadHeaders
           \/ OnReadBodyEof \/ OnReadBody \/ OnReadFailed
    PROVE  pc = "running" /\ OpsLeft' < OpsLeft
<1> USE DEF response, remote
<1>a. sent \in 0..MaxChunks /\ received \in 0..sent
  BY DEF TypeInv, TypeOK
<1>b. received \in Nat /\ MaxChunks - received \in Nat
  BY <1>a
<1>c. \A next \in Ops : Start(next, Tail(ready)) => op' = next /\ outcome' = "none"
  BY DEF Start
<1>d. \A error : StopWith(error) => op' = "none"
  BY DEF StopWith
<1>e. /\ "connect" \in Ops /\ "write" \in Ops /\ "readHeaders" \in Ops /\ "readBody" \in Ops
  BY DEF Ops
<1>1. CASE OnResolved
  <2>1. pc = "running" /\ op = "resolve" /\ op' \in {"connect", "none"}
    BY <1>1, <1>c, <1>d, <1>e DEF OnResolved, RunOp, Run
  <2> QED
    BY <2>1 DEF OpsLeft
<1>2. CASE OnConnected
  <2>1. pc = "running" /\ op = "connect" /\ op' \in {"handshake", "write", "none"}
    BY <1>2, <1>c, <1>d, <1>e DEF OnConnected, RunOp, Run, Continue, Handshake, Write
  <2> QED
    BY <2>1 DEF OpsLeft
<1>3. CASE OnHandshake
  <2>1. pc = "running" /\ op = "handshake" /\ op' \in {"write", "none"}
    BY <1>3, <1>c, <1>d, <1>e DEF OnHandshake, RunOp, Run, Continue, Write
  <2> QED
    BY <2>1 DEF OpsLeft
<1>4. CASE OnWrite
  <2>1. pc = "running" /\ op = "write" /\ op' \in {"readHeaders", "none"}
    BY <1>4, <1>c, <1>d, <1>e DEF OnWrite, RunOp, Run, Continue
  <2> QED
    BY <2>1 DEF OpsLeft
<1>5. CASE OnReadHeadersEof \/ OnReadHeadersBad \/ OnReadBodyEof \/ OnReadFailed
  <2>1. pc = "running" /\ op \in {"readHeaders", "readBody"} /\ op' = "none"
    BY <1>5, <1>d DEF OnReadHeadersEof, OnReadHeadersBad, OnReadBodyEof, OnReadFailed, Close,
       RunOp, Run
  <2>2. OpsLeft > 0
    BY <1>b, <2>1 DEF OpsLeft
  <2>3. OpsLeft' = 0
    BY <2>1 DEF OpsLeft
  <2> QED
    BY <2>1, <2>2, <2>3
<1>6. CASE OnReadHeaders
  <2>1. /\ pc = "running" /\ op = "readHeaders" /\ op' = "readBody" /\ outcome' = "none"
        /\ received' = received
    BY <1>6, <1>c, <1>e DEF OnReadHeaders, RunOp, Run, ReadOn
  <2>2. OpsLeft = MaxChunks + 2 /\ OpsLeft' = (MaxChunks - received) + 1
    BY <2>1 DEF OpsLeft
  <2> QED
    BY <1>b, <2>1, <2>2
<1>7. CASE OnReadBody
  <2>1. /\ pc = "running" /\ op = "readBody" /\ outcome = "ok"
        /\ op' = "readBody" /\ outcome' = "none" /\ received' = received
    BY <1>7, <1>c, <1>e DEF OnReadBody, RunOp, Run, ReadOn
  <2>2. OpsLeft = (MaxChunks - received) + 2 /\ OpsLeft' = (MaxChunks - received) + 1
    BY <2>1 DEF OpsLeft
  <2> QED
    BY <1>b, <2>1, <2>2
<1> QED
  BY <1>1, <1>2, <1>3, <1>4, <1>5, <1>6, <1>7

\* A completed operation leaves the timer alone.  It is not one more to come,
\* unless it was a read that brought no chunk.
LEMMA NetworkLeaves ==
    ASSUME TypeInv, TimerInv, Network
    PROVE  /\ ~Trickle => OpsLeft' <= OpsLeft
           /\ Trickle => OpsLeft' = OpsLeft + 1
           /\ TimerLeft' = TimerLeft /\ pc' = pc
<1>1. PICK result \in {"ok", "eof", "failed"} : Completes(result)
  BY DEF Network, OpSucceeds, OpFails, ConnectFailsClosed, HeadersArrive, BodyArrives, Trickle,
     EofArrives
<1>2. /\ ready \in Queues /\ ~HasOp(ready) /\ outcome = "none"
      /\ UNCHANGED <<pc, op, expiry>> /\ ready' = Append(ready, "op") /\ outcome' = result
  BY <1>1, QueueContents DEF Completes, Pending, TypeInv, TimerInv, timer
<1>3. HasDeadline(ready') <=> HasDeadline(ready)
  BY <1>2, AddLast
<1>4. TimerLeft' = TimerLeft
  BY <1>2, <1>3 DEF TimerLeft
<1>5. sent \in 0..MaxChunks /\ received \in 0..sent /\ received \in Nat /\ MaxChunks - received \in Nat
  BY DEF TypeInv, TypeOK
<1>6. CASE op # "readBody"
  <2>1. OpsLeft' = OpsLeft /\ OpsLeft \in Nat /\ ~Trickle
    BY <1>2, <1>6 DEF OpsLeft, Trickle
  <2> QED
    BY <1>2, <1>4, <2>1
<1>7. CASE op = "readBody" /\ result # "ok"
  <2>1. received' = received /\ ~Trickle
    BY <1>2, <1>7 DEF Network, OpSucceeds, OpFails, ConnectFailsClosed, HeadersArrive,
       BodyArrives, Trickle, EofArrives, Completes
  <2>2. OpsLeft = (MaxChunks - received) + 1 /\ OpsLeft' = OpsLeft
    BY <1>2, <1>7, <2>1 DEF OpsLeft
  <2> QED
    BY <1>2, <1>4, <1>5, <2>1, <2>2
<1>9. CASE Trickle
  <2>1. op = "readBody" /\ outcome' = "ok" /\ received' = received
    BY <1>9 DEF Trickle, Completes
  <2>2. OpsLeft = (MaxChunks - received) + 1 /\ OpsLeft' = (MaxChunks - received) + 2
    BY <1>2, <2>1 DEF OpsLeft
  <2> QED
    BY <1>2, <1>4, <1>5, <1>9, <2>2
<1>8. CASE op = "readBody" /\ result = "ok" /\ ~Trickle
  <2>1. BodyArrives
    BY <1>2, <1>8 DEF Network, OpSucceeds, OpFails, ConnectFailsClosed, HeadersArrive, EofArrives,
       Completes
  <2>2. PICK n \in (received + 1)..sent : received' = n
    BY <2>1 DEF BodyArrives
  <2>3. n \in Int /\ n >= received + 1
    BY <1>5, <2>2
  <2>4. OpsLeft = (MaxChunks - received) + 1 /\ OpsLeft' = (MaxChunks - n) + 2
    BY <1>2, <1>8, <2>2 DEF OpsLeft
  <2> QED
    BY <1>2, <1>4, <1>5, <1>8, <2>3, <2>4
<1> QED
  BY <1>2, <1>4, <1>6, <1>7, <1>8, <1>9

\* The timer, step by step: no wait that is begun again keeps a deadline from
\* passing.
LEMMA TimerFalls ==
    ASSUME TypeInv, TimerInv, OnDeadline \/ Tick \/ TimerFires
    PROVE  OpsLeft' <= OpsLeft /\ TimerLeft' < TimerLeft /\ pc' = pc
<1> USE DEF response, remote
<1>a. ready \in Queues /\ expiry \in {"inf", "future", "past"} /\ OpsLeft \in Nat
  BY LeftValues DEF TypeInv, TypeOK, LeftTyped
<1>1. CASE Tick
  <2>1. /\ UNCHANGED <<pc, op, outcome, received, ready>>
        /\ expiry = "future" /\ expiry' = "past"
    BY <1>1 DEF Tick
  <2>2. OpsLeft' = OpsLeft
    BY <2>1 DEF OpsLeft
  <2>3. TimerLeft' < TimerLeft
    BY <2>1 DEF TimerLeft, HasDeadline
  <2> QED
    BY <1>a, <2>1, <2>2, <2>3
<1>2. CASE TimerFires
  <2>1. /\ UNCHANGED <<pc, op, outcome, received, expiry>>
        /\ expiry = "past" /\ ~HasDeadline(ready) /\ ready' = Append(ready, "deadline")
    BY <1>2 DEF TimerFires, TimerInv
  <2>2. HasDeadline(ready')
    BY <1>a, <2>1, AddLast
  <2>3. OpsLeft' = OpsLeft
    BY <2>1 DEF OpsLeft
  <2>4. TimerLeft = 2 /\ TimerLeft' = 1
    BY <2>1, <2>2 DEF TimerLeft
  <2> QED
    BY <1>a, <2>1, <2>3, <2>4
<1>3. CASE OnDeadline
  <2>1. /\ UNCHANGED <<pc, op, received>>
        /\ ready # <<>> /\ Head(ready) = "deadline"
        /\ outcome' = "ok" => outcome = "ok"
    BY <1>3 DEF OnDeadline, Run
  <2>2. /\ Tail(ready) \in Queues /\ HasDeadline(ready) /\ ~HasDeadline(Tail(ready))
        /\ HasOp(Tail(ready)) <=> HasOp(ready)
    BY <1>a, <2>1, TakeFirst
  <2>3. ~HasDeadline(ready')
    <3>1. Pending => ~HasOp(ready)
      BY <1>a, QueueContents DEF Pending
    <3>2. ready' = Tail(ready) \/ (Pending /\ ready' = Append(Tail(ready), "op"))
      BY <1>3 DEF OnDeadline
    <3>3. ~HasOp(Tail(ready)) =>
             (HasDeadline(Append(Tail(ready), "op")) <=> HasDeadline(Tail(ready)))
      BY <2>2, AddLast
    <3> QED
      BY <2>2, <3>1, <3>2, <3>3, Zenon
  <2>4. sent \in 0..MaxChunks /\ received \in 0..sent /\ received \in Nat /\ MaxChunks - received \in Nat
    BY DEF TypeInv, TypeOK
  <2>5. OpsLeft' <= OpsLeft
    BY <2>1, <2>4 DEF OpsLeft
  <2>6. TimerLeft' < TimerLeft
    <3>1. CASE expiry = "past"
      <4>1. expiry' = "inf"
        BY <1>3, <3>1 DEF OnDeadline, DeadlinePassed
      <4>2. TimerLeft = 1
        BY <2>2, <3>1 DEF TimerLeft
      <4>3. TimerLeft' = 0
        BY <2>3, <4>1 DEF TimerLeft
      <4> QED
        BY <4>2, <4>3
    <3>2. CASE expiry # "past"
      <4>1. expiry' = expiry
        BY <1>3, <3>2 DEF OnDeadline, DeadlinePassed
      <4>2. expiry = "future" => TimerLeft = 4 /\ TimerLeft' = 3
        BY <2>2, <2>3, <4>1 DEF TimerLeft
      <4>3. expiry = "inf" => TimerLeft = 1 /\ TimerLeft' = 0
        BY <2>2, <2>3, <4>1 DEF TimerLeft
      <4> QED
        BY <1>a, <3>2, <4>2, <4>3
    <3> QED
      BY <3>1, <3>2
  <2> QED
    BY <2>1, <2>5, <2>6
<1> QED
  BY <1>1, <1>2, <1>3

(* send() goes forward: every handler it runs and every step of its timer     *)
(* lowers one number, and what the network and the peer do does not raise it, *)
(* except that a read which brings less than a chunk raises it by five. So a  *)
(* peer that sends n chunks keeps it for 5n + 34 of these steps at most, and  *)
(* five more for each such read, however what it sends and the deadlines that *)
(* are set, cancelled and waited for again fall together; with a timeout one  *)
(* of them is always to come (NeverStuck). There is no bound on the reads.    *)
THEOREM SendProgress ==
    Spec => /\ []LeftTyped
            /\ [][/\ Handler \/ Tick \/ TimerFires => SendLeft' < SendLeft
                  /\ (Network /\ ~Trickle) \/ Peer => SendLeft' <= SendLeft
                  /\ Trickle => SendLeft' <= SendLeft + 5
                  /\ Send => SendLeft' <= 5 * MaxChunks + 34]_vars
<1>1. HttpInv => LeftTyped
  BY LeftValues DEF HttpInv
<1>2. HttpInv' => LeftTyped'
  BY <1>1, PTL
<1>3. HttpInv /\ HttpInv' /\ [Next]_vars =>
        [/\ Handler \/ Tick \/ TimerFires => SendLeft' < SendLeft
         /\ (Network /\ ~Trickle) \/ Peer => SendLeft' <= SendLeft
         /\ Trickle => SendLeft' <= SendLeft + 5
         /\ Send => SendLeft' <= 5 * MaxChunks + 34]_vars
  <2> SUFFICES ASSUME HttpInv, HttpInv', [Next]_vars
               PROVE  /\ Handler \/ Tick \/ TimerFires => SendLeft' < SendLeft
                      /\ (Network /\ ~Trickle) \/ Peer => SendLeft' <= SendLeft
                      /\ Trickle => SendLeft' <= SendLeft + 5
                      /\ Send => SendLeft' <= 5 * MaxChunks + 34
    OBVIOUS
  <2> USE DEF response, remote
  <2>1. LeftTyped /\ LeftTyped' /\ TypeInv /\ TimerInv
    BY <1>1, <1>2 DEF HttpInv
  <2>2. ASSUME Return PROVE SendLeft' < SendLeft
    <3>1. /\ UNCHANGED <<op, outcome, received, expiry, ready>>
          /\ pc = "running" /\ pc' # "running"
      BY <2>2 DEF Return, timer
    <3>2. OpsLeft' = OpsLeft /\ TimerLeft' = TimerLeft
      BY <3>1 DEF OpsLeft, TimerLeft, HasDeadline
    <3> QED
      BY <2>1, <3>1, <3>2, LeftFalls
  <2>3. ASSUME Handler, ~Return, ~OnDeadline PROVE SendLeft' < SendLeft
    <3>1. pc = "running" /\ OpsLeft' < OpsLeft
      BY <2>1, <2>3, OpsFall DEF Handler
    <3> QED
      BY <2>1, <3>1, LeftFalls
  <2>4. ASSUME OnDeadline \/ Tick \/ TimerFires PROVE SendLeft' < SendLeft
    <3>1. OpsLeft' <= OpsLeft /\ TimerLeft' < TimerLeft /\ pc' = pc
      BY <2>1, <2>4, TimerFalls
    <3> QED
      BY <2>1, <3>1, LeftFalls
  <2>5. ASSUME Network, ~Trickle PROVE SendLeft' <= SendLeft
    <3>1. OpsLeft' <= OpsLeft /\ TimerLeft' = TimerLeft /\ pc' = pc
      BY <2>1, <2>5, NetworkLeaves
    <3>2. TimerLeft' <= TimerLeft
      BY <2>1, <3>1 DEF LeftTyped
    <3> QED
      BY <2>1, <3>1, <3>2, LeftFalls
  <2>6. ASSUME Peer PROVE SendLeft' <= SendLeft
    <3>1. UNCHANGED <<pc, op, outcome, expiry, ready>> /\ received' = received
      BY <2>6 DEF Peer, PeerSendsHeaders, PeerSendsChunk, PeerCloses, timer
    <3>2. OpsLeft' = OpsLeft /\ TimerLeft' = TimerLeft
      BY <3>1 DEF OpsLeft, TimerLeft, HasDeadline
    <3>3. OpsLeft' <= OpsLeft /\ TimerLeft' <= TimerLeft
      BY <2>1, <3>2 DEF LeftTyped
    <3> QED
      BY <2>1, <3>1, <3>3, LeftFalls
  <2>7. ASSUME Send PROVE SendLeft' <= 5 * MaxChunks + 34
    <3>1. pc' = "running" /\ op' = "resolve" /\ ready' = <<>>
      BY <2>1, <2>7 DEF Send, TimerInv
    <3>2. OpsLeft' = MaxChunks + 6
      BY <3>1 DEF OpsLeft
    <3>3. TimerLeft' <= 3
      BY <3>1 DEF TimerLeft, HasDeadline
    <3>4. SendLeft' = 5 * (MaxChunks + 6) + TimerLeft' + 1 /\ TimerLeft' \in 0..4
      BY <2>1, <3>1, <3>2 DEF SendLeft, LeftTyped
    <3>5. \A t \in 0..4 : t <= 3 => 5 * (MaxChunks + 6) + t + 1 <= 5 * MaxChunks + 34
      OBVIOUS
    <3> QED
      BY <3>3, <3>4, <3>5
  <2>8. ASSUME Trickle PROVE SendLeft' <= SendLeft + 5
    <3>1. OpsLeft' = OpsLeft + 1 /\ TimerLeft' = TimerLeft /\ pc' = pc
      BY <2>1, <2>8, NetworkLeaves DEF Network
    <3>2. PICK a \in Nat, i \in 0..4, m \in 0..1 :
            a = OpsLeft /\ i = TimerLeft /\ m = (IF pc = "running" THEN 1 ELSE 0)
      BY <2>1 DEF LeftTyped
    <3>3. SendLeft = 5 * a + i + m /\ SendLeft' = 5 * (a + 1) + i + m
      BY <3>1, <3>2 DEF SendLeft
    <3> QED
      BY <3>2, <3>3
  <2> QED
    BY <2>2, <2>3, <2>4, <2>5, <2>6, <2>7, <2>8 DEF Handler
<1> QED
  BY <1>1, <1>3, Invariance, PTL DEF Spec
=============================================================================
