--------------------------- MODULE HAFailover_proofs ---------------------------
(***************************************************************************)
(* Proofs about HAFailover, for every number of clusters, every set of     *)
(* threads and every choice of the primary.                                *)
(***************************************************************************)
EXTENDS HAFailover, FiniteSetTheorems, TLAPS

USE ThreadsAssumption, NAssumption, PrimaryAssumption, OptionAssumption

\* The cursor stays on the ring: m_currentUrl = (m_currentUrl + 1) % m_urls.size().
LEMMA NextPositionOnRing ==
    ASSUME currentUrl \in Urls
    PROVE  NextPosition \in Urls
  BY DEF NextPosition, Urls

\* TypeOK alone is not inductive: a failed request adds url[t] to tried[t], so
\* a call under way must have a URL.
TypeInv == TypeOK /\ UrlInv

\* What the end of a call does to the types.
LEMMA FinishTyped ==
    ASSUME TypeInv, NEW t \in Threads, NEW o \in Outcomes, Finish(t, o)
    PROVE  /\ pc' \in [Threads -> Places]
           /\ kind' \in [Threads -> {"head", "hm", "connect"}]
           /\ url' \in [Threads -> Urls \cup {NoUrl}]
           /\ originalUrl' \in [Threads -> Urls \cup {NoUrl}]
           /\ outcome' \in [Threads -> Outcomes]
           /\ phase' \in Phases
           /\ UrlInv'
  BY DEF TypeInv, UrlInv, TypeOK, Finish, Places, Outcomes, Phases, Alive

\* A client begins with the types of its state.
LEMMA InitTyped == Init => TypeInv
<1> SUFFICES ASSUME Init PROVE TypeInv
  OBVIOUS
<1>1. urlIndices[0] \in Urls /\ 0 \in Urls
  BY DEF Init, Shuffles, Orders, Urls
<1> QED
  BY <1>1 DEF Init, TypeInv, UrlInv, TypeOK, Shuffles, Places, Outcomes, SchedPlaces,
              PollerDead, Phases, Alive, NoUrl

\* Every step of a thread, of the poller and of the clusters keeps the types.
LEMMA NextTyped == TypeInv /\ [Next]_vars => TypeInv'
<1> SUFFICES ASSUME TypeInv, [Next]_vars PROVE TypeInv'
  OBVIOUS
<1>a. \A i \in Urls : UrlAt(i) \in Urls
  BY DEF TypeInv, TypeOK, UrlAt, Orders
<1>b. NextPosition \in Urls
  BY NextPositionOnRing DEF TypeInv, TypeOK
<1>c. 0 \in Urls
  BY DEF Urls
<1>1. ASSUME NEW t \in Threads, ConnectUsable(t) PROVE TypeInv'
  BY <1>1, FinishTyped, "ok" \in Outcomes DEF ConnectUsable, TypeInv, TypeOK, ring, poller, Outcomes
<1>2. ASSUME NEW t \in Threads, ConnectUnusable(t) PROVE TypeInv'
  BY <1>2 DEF ConnectUnusable, TypeInv, UrlInv, TypeOK, ring, poller, client, Places, Critical
<1>3. ASSUME NEW t \in Threads, SubmitEnds(t) PROVE TypeInv'
  BY <1>3, FinishTyped DEF SubmitEnds, SubmitAnswers, TypeInv, TypeOK, ring, poller, Outcomes
<1>4. ASSUME NEW t \in Threads, SubmitFails(t) PROVE TypeInv'
  BY <1>4 DEF SubmitFails, TypeInv, UrlInv, TypeOK, ring, poller, client, Places, Critical
<1>5. ASSUME NEW t \in Threads, SwitchRefused(t) PROVE TypeInv'
  BY <1>5, FinishTyped DEF SwitchRefused, TypeInv, TypeOK, ring, poller, Outcomes
<1>6. ASSUME NEW t \in Threads, SwitchEnter(t) PROVE TypeInv'
  BY <1>6 DEF SwitchEnter, TypeInv, UrlInv, TypeOK, ring, poller, client, Places, Critical
<1>7. ASSUME NEW t \in Threads, Advance(t) PROVE TypeInv'
  BY <1>7, <1>b DEF Advance, TypeInv, UrlInv, TypeOK, ring, poller, client, Places, Critical
<1>8. ASSUME NEW t \in Threads, GiveUp(t) PROVE TypeInv'
  BY <1>8 DEF GiveUp, TypeInv, UrlInv, TypeOK, ring, poller, client, Places, Critical
<1>9. ASSUME NEW t \in Threads, GoOn(t) \/ GoOnHm(t) PROVE TypeInv'
  BY <1>9 DEF GoOn, GoOnHm, TypeInv, UrlInv, TypeOK, ring, poller, client, Places, Critical
<1>10. ASSUME NEW t \in Threads, ProbeUsable(t) PROVE TypeInv'
  BY <1>10, <1>a DEF ProbeUsable, TypeInv, UrlInv, TypeOK, ring, poller, client, Places, Critical
<1>11. ASSUME NEW t \in Threads, ProbeUnusable(t) PROVE TypeInv'
  BY <1>11, <1>a DEF ProbeUnusable, TypeInv, UrlInv, TypeOK, ring, poller, client, Places, Critical
<1>12. ASSUME NEW t \in Threads, StartPoller(t) PROVE TypeInv'
  BY <1>12 DEF StartPoller, TypeInv, UrlInv, TypeOK, ring, poller, client, Places, Critical
<1>18. ASSUME NEW t \in Threads, CreateThread(t) PROVE TypeInv'
  BY <1>18 DEF CreateThread, TypeInv, UrlInv, TypeOK, ring, poller, client, Places, Critical,
     SchedPlaces, Polling, Phases, Crashes
<1>19. ASSUME NEW t \in Threads, CreateRefused(t) PROVE TypeInv'
  BY <1>19, FinishTyped, "error" \in Outcomes
     DEF CreateRefused, TypeInv, TypeOK, ring, Outcomes, SchedPlaces, PollerDead
<1>13. ASSUME NEW t \in Threads, SwitchReturn(t) PROVE TypeInv'
  <2>1. CASE kind[t] = "connect"
    BY <1>13, <2>1, FinishTyped, "ok" \in Outcomes
       DEF SwitchReturn, TypeInv, TypeOK, ring, poller, Outcomes
  <2>2. CASE kind[t] # "connect"
    BY <1>13, <2>2, <1>a DEF SwitchReturn, TypeInv, UrlInv, TypeOK, ring, poller, Places
  <2> QED
    BY <2>1, <2>2
<1>14. ASSUME NEW t \in Threads, ShuffleAndFail(t) PROVE TypeInv'
  BY <1>14, FinishTyped, <1>c DEF ShuffleAndFail, TypeInv, TypeOK, Shuffles, poller, Outcomes
<1>15. ASSUME NEW t \in Threads, NEW k \in Kinds, Begin(t, k) PROVE TypeInv'
  BY <1>15, <1>a DEF Begin, TypeInv, UrlInv, TypeOK, ring, poller, Places, Outcomes
<1>16. ASSUME PollerStep PROVE TypeInv'
  BY <1>16, <1>c DEF PollerStep, PollLeave, PollPing, PollStatus, PollSelect, PollCall,
     PollWake, PollReset, PollStop, PollEnd, TypeInv, UrlInv, TypeOK, ring, client,
     SchedPlaces, Polling, PollerDead, Phases, Crashes
<1>17. CASE Destroy \/ Join \/ Heal \/ Terminated \/ UNCHANGED vars
  BY <1>17 DEF Destroy, Join, Heal, Terminated, vars, TypeInv, UrlInv, TypeOK, ring, client,
     poller, Phases, Alive
<1> QED
  BY <1>1, <1>2, <1>3, <1>4, <1>5, <1>6, <1>7, <1>8, <1>9, <1>10, <1>11, <1>12, <1>13, <1>14, <1>15, <1>16, <1>17, <1>18, <1>19
  DEF Next, Request

\* Type correctness of the failover and failback code: the cursor is always a
\* position of the ring, and the ring is always an order of all the clusters
\* that keeps index 0 first when there is a primary.
THEOREM TypeCorrect == Spec => []TypeOK
<1>1. Spec => []TypeInv
  BY InitTyped, NextTyped, PTL DEF Spec
<1>2. TypeInv => TypeOK
  BY DEF TypeInv
<1> QED
  BY <1>1, <1>2, PTL

-----------------------------------------------------------------------------

\* The scoped_lock of switchUrl and switchHmUrl: the thread inside the walk,
\* and only it, holds m_urlMutex, whatever way it leaves.  So at most one
\* thread is in the walk.
THEOREM MutexCorrect == Spec => []MutexInv
<1>1. Init => MutexInv
  BY DEF Init, MutexInv, Critical
<1>2. TypeInv /\ MutexInv /\ [Next]_vars => MutexInv'
  <2> SUFFICES ASSUME TypeInv, MutexInv, [Next]_vars PROVE MutexInv'
    OBVIOUS
  <2> USE DEF TypeInv, TypeOK, MutexInv, Critical, Places
  <2>0. ASSUME NEW t \in Threads, ConnectUsable(t) PROVE MutexInv'
    BY <2>0 DEF ConnectUsable, Finish
  <2>1. ASSUME NEW t \in Threads, ConnectUnusable(t) PROVE MutexInv'
    BY <2>1 DEF ConnectUnusable
  <2>2. ASSUME NEW t \in Threads, SubmitEnds(t) \/ SubmitFails(t) PROVE MutexInv'
    BY <2>2 DEF SubmitEnds, SubmitFails, Finish
  <2>3. ASSUME NEW t \in Threads, SwitchRefused(t) \/ ShuffleAndFail(t) PROVE MutexInv'
    BY <2>3 DEF SwitchRefused, ShuffleAndFail, Finish
  <2>4. ASSUME NEW t \in Threads, SwitchEnter(t) PROVE MutexInv'
    BY <2>4 DEF SwitchEnter
  <2>5. ASSUME NEW t \in Threads, Advance(t) \/ GiveUp(t) \/ GoOn(t) \/ GoOnHm(t)
        PROVE  MutexInv'
    BY <2>5 DEF Advance, GiveUp, GoOn, GoOnHm
  <2>6. ASSUME NEW t \in Threads, ProbeUsable(t) PROVE MutexInv'
    BY <2>6 DEF ProbeUsable
  <2>11. ASSUME NEW t \in Threads, ProbeUnusable(t) PROVE MutexInv'
    BY <2>11 DEF ProbeUnusable
  <2>12. ASSUME NEW t \in Threads, StartPoller(t) \/ CreateThread(t) PROVE MutexInv'
    BY <2>12 DEF StartPoller, CreateThread
  <2>13. ASSUME NEW t \in Threads, CreateRefused(t) PROVE MutexInv'
    BY <2>13 DEF CreateRefused, Finish
  <2>7. ASSUME NEW t \in Threads, SwitchReturn(t) PROVE MutexInv'
    BY <2>7 DEF SwitchReturn, Finish
  <2>8. ASSUME NEW t \in Threads, NEW k \in Kinds, Begin(t, k) PROVE MutexInv'
    BY <2>8 DEF Begin
  <2>9. CASE PollerStep
    BY <2>9 DEF PollerStep, PollLeave, PollPing, PollStatus, PollSelect, PollCall,
       PollWake, PollReset, PollStop, PollEnd, client
  <2>10. CASE Destroy \/ Join \/ Heal \/ Terminated \/ UNCHANGED vars
    BY <2>10 DEF Destroy, Join, Heal, Terminated, vars, client
  <2> QED
    BY <2>0, <2>1, <2>2, <2>3, <2>4, <2>5, <2>6, <2>7, <2>8, <2>9, <2>10, <2>11, <2>12, <2>13
    DEF Next, Request
<1>3. Spec => []TypeInv
  BY InitTyped, NextTyped, PTL DEF Spec
<1> QED
  BY <1>1, <1>2, <1>3, PTL DEF Spec

-----------------------------------------------------------------------------

\* A start() between its two steps: it has set the flag, and found no thread
\* that may still poll.
CreatingInv ==
    \A t \in Threads :
        pc[t] = "create" /\ phase \in Alive =>
            isRunning /\ sched \in {"none", "leave", "ended"}

PollerInv == PollerFlagInv /\ CreatingInv

\* Only the constructing thread is in the constructor.
LEMMA ConnectInvInductive ==
    /\ Init => ConnectInv
    /\ TypeInv /\ ConnectInv /\ [Next]_vars => ConnectInv'
<1> USE DEF ConnectInv, Crashes
<1>1. Init => ConnectInv
  BY DEF Init
<1>2. ASSUME TypeInv, ConnectInv, [Next]_vars PROVE ConnectInv'
  <2> USE <1>2 DEF TypeInv, TypeOK, Places
  <2>0. ASSUME NEW t \in Threads, ConnectUsable(t) PROVE ConnectInv'
    BY <2>0 DEF ConnectUsable, Finish
  <2>1. ASSUME NEW t \in Threads, ConnectUnusable(t) PROVE ConnectInv'
    BY <2>1 DEF ConnectUnusable
  <2>2. ASSUME NEW t \in Threads, SubmitEnds(t) \/ SubmitFails(t) PROVE ConnectInv'
    BY <2>2 DEF SubmitEnds, SubmitFails, Finish
  <2>3. ASSUME NEW t \in Threads, SwitchRefused(t) \/ ShuffleAndFail(t) PROVE ConnectInv'
    BY <2>3 DEF SwitchRefused, ShuffleAndFail, Finish
  <2>4. ASSUME NEW t \in Threads, SwitchEnter(t) PROVE ConnectInv'
    BY <2>4 DEF SwitchEnter
  <2>5. ASSUME NEW t \in Threads, Advance(t) \/ GiveUp(t) \/ GoOn(t) \/ GoOnHm(t)
        PROVE  ConnectInv'
    BY <2>5 DEF Advance, GiveUp, GoOn, GoOnHm
  <2>6. ASSUME NEW t \in Threads, ProbeUsable(t) PROVE ConnectInv'
    BY <2>6 DEF ProbeUsable
  <2>11. ASSUME NEW t \in Threads, ProbeUnusable(t) PROVE ConnectInv'
    BY <2>11 DEF ProbeUnusable
  <2>12. ASSUME NEW t \in Threads, StartPoller(t) \/ CreateThread(t) PROVE ConnectInv'
    BY <2>12 DEF StartPoller, CreateThread
  <2>13. ASSUME NEW t \in Threads, CreateRefused(t) PROVE ConnectInv'
    BY <2>13 DEF CreateRefused, Finish
  <2>7. ASSUME NEW t \in Threads, SwitchReturn(t) PROVE ConnectInv'
    BY <2>7 DEF SwitchReturn, Finish
  <2>8. ASSUME NEW t \in Threads, NEW k \in Kinds, Begin(t, k) PROVE ConnectInv'
    BY <2>8 DEF Begin
  <2>9. CASE PollerStep
    BY <2>9 DEF PollerStep, PollLeave, PollPing, PollStatus, PollSelect, PollCall,
       PollWake, PollReset, PollStop, PollEnd, client
  <2>10. CASE Destroy \/ Join \/ Heal \/ Terminated \/ UNCHANGED vars
    BY <2>10 DEF Destroy, Join, Heal, Terminated, vars, client
  <2> QED
    BY <2>0, <2>1, <2>2, <2>3, <2>4, <2>5, <2>6, <2>7, <2>8, <2>9, <2>10, <2>11, <2>12, <2>13
    DEF Next, Request
<1> QED
  BY <1>1, <1>2


\* ~GPUdb has cleared the flag, and its caller has no request under way.
ClosingInv ==
    phase = "closing" => ~isRunning /\ \A t \in Threads : pc[t] = "idle"

\* Nobody sets the flag again under the destructor.
LEMMA ClosingInvInductive ==
    /\ Init => ClosingInv
    /\ ClosingInv /\ [Next]_vars => ClosingInv'
<1>1. Init => ClosingInv
  BY DEF Init, ClosingInv
<1>2. ASSUME ClosingInv, [Next]_vars PROVE ClosingInv'
  <2>1. ASSUME NEW t \in Threads, Request(t) PROVE phase # "closing" /\ phase' # "closing"
    <3>1. pc[t] # "idle" /\ (phase' = phase \/ phase' \in {"open", "failed", "restartCrash"})
      BY <2>1 DEF Request, ConnectUsable, ConnectUnusable, SubmitEnds, SubmitFails,
         SwitchRefused, SwitchEnter, Advance, GiveUp, GoOn, GoOnHm, ProbeUsable,
         ProbeUnusable, StartPoller, CreateThread, CreateRefused, SwitchReturn, ShuffleAndFail, Finish
    <3> QED
      BY <1>2, <3>1 DEF ClosingInv
  <2>2. ASSUME NEW t \in Threads, NEW k \in Kinds, Begin(t, k) PROVE phase' # "closing"
    BY <2>2 DEF Begin
  <2>3. CASE PollerStep
    BY <1>2, <2>3 DEF ClosingInv, PollerStep, PollLeave, PollPing, PollStatus, PollSelect,
       PollCall, PollWake, PollReset, PollStop, PollEnd, client
  <2>4. CASE Destroy \/ Join \/ Heal \/ Terminated \/ UNCHANGED vars
    BY <1>2, <2>4 DEF ClosingInv, Destroy, Join, Heal, Terminated, vars, client, poller
  <2> QED
    BY <1>2, <2>1, <2>2, <2>3, <2>4 DEF ClosingInv, Next
<1> QED
  BY <1>1, <1>2

\* The poller's flag follows its thread.
LEMMA PollerInvInductive ==
    /\ Init => PollerInv
    /\ TypeInv /\ MutexInv /\ ConnectInv /\ ClosingInv /\ PollerInv /\ [Next]_vars => PollerInv'
<1> USE DEF PollerInv, PollerFlagInv, CreatingInv, ServiceFree
<1>1. Init => PollerInv
  BY DEF Init, Polling
<1>2. ASSUME TypeInv, MutexInv, ConnectInv, ClosingInv, PollerInv, [Next]_vars
      PROVE  PollerInv'
  <2> USE <1>2
  <2>p. pc \in [Threads -> Places] /\ kind \in [Threads -> {"head", "hm", "connect"}]
    BY DEF TypeInv, TypeOK
  <2>a. ASSUME NEW t \in Threads, NEW o, pc[t] \notin {"idle", "create"}, phase \in Alive,
               Finish(t, o), UNCHANGED poller
        PROVE  PollerInv'
    <3>1. /\ \A u \in Threads : pc'[u] = "create" <=> pc[u] = "create"
          /\ phase' \in Alive => phase' = phase \/ (phase = "connecting" /\ phase' = "open")
      BY <2>a, <2>p DEF Finish, ConnectInv, Crashes, Alive
    <3> QED
      BY <2>a, <3>1 DEF poller, Alive
  <2>b. ASSUME NEW t \in Threads,
               \/ ConnectUsable(t) \/ SubmitEnds(t) \/ SwitchRefused(t)
               \/ ShuffleAndFail(t)
        PROVE  PollerInv'
    BY <2>a, <2>b DEF ConnectUsable, SubmitEnds, SwitchRefused, ShuffleAndFail
  <2>d. ASSUME NEW t \in Threads, UNCHANGED <<poller, phase>>, pc[t] # "create",
               NEW p \in Places \ {"create"}, pc' = [pc EXCEPT ![t] = p]
        PROVE  PollerInv'
    <3>1. \A u \in Threads : pc'[u] = "create" <=> pc[u] = "create"
      BY <2>d, <2>p
    <3> QED
      BY <2>d, <3>1 DEF poller
  <2>c. ASSUME NEW t \in Threads, SwitchReturn(t) PROVE PollerInv'
    <3>1. CASE Finish(t, "ok")
      BY <2>a, <2>c, <3>1 DEF SwitchReturn
    <3>2. CASE ~Finish(t, "ok")
      BY <2>c, <2>d, <3>2, "submit" \in Places \ {"create"} DEF SwitchReturn, Places
    <3> QED
      BY <3>1, <3>2
  <2>1. ASSUME NEW t \in Threads,
               \/ ConnectUnusable(t) \/ SubmitFails(t) \/ SwitchEnter(t)
               \/ Advance(t) \/ GiveUp(t) \/ GoOn(t) \/ GoOnHm(t)
               \/ ProbeUsable(t) \/ ProbeUnusable(t)
        PROVE  PollerInv'
    <3>1. /\ UNCHANGED <<poller, phase>> /\ pc[t] # "create"
          /\ \E p \in Places \ {"create"} : pc' = [pc EXCEPT ![t] = p]
      <4> USE DEF Places, Critical
      <4>1. CASE ConnectUnusable(t) \/ SubmitFails(t) \/ SwitchEnter(t)
        BY <4>1 DEF ConnectUnusable, SubmitFails, SwitchEnter
      <4>2. CASE Advance(t) \/ GiveUp(t) \/ GoOn(t) \/ GoOnHm(t)
        BY <4>2 DEF Advance, GiveUp, GoOn, GoOnHm
      <4>3. CASE ProbeUsable(t)
        BY <4>3 DEF ProbeUsable
      <4>4. CASE ProbeUnusable(t)
        BY <4>4 DEF ProbeUnusable
      <4> QED
        BY <2>1, <4>1, <4>2, <4>3, <4>4
    <3> QED
      BY <2>d, <3>1
  <2>e. ASSUME NEW t \in Threads, pc[t] = "create"
        PROVE  \A u \in Threads : pc[u] = "create" => u = t
    BY <2>e DEF MutexInv, Critical
  <2>2. ASSUME NEW t \in Threads, StartPoller(t) PROVE PollerInv'
    <3>1. /\ pc[t] = "start" /\ isRunning' = TRUE /\ UNCHANGED <<sched, phase>>
          /\ phase \in Alive
          /\ pc' = [pc EXCEPT ![t] = IF isRunning THEN "return" ELSE "create"]
      BY <2>2 DEF StartPoller
    <3>3. CASE isRunning
      <4>1. \A u \in Threads : pc'[u] = "create" <=> pc[u] = "create"
        BY <2>p, <3>1, <3>3
      <4> QED
        BY <3>1, <3>3, <4>1
    <3>4. CASE ~isRunning
      <4>1. pc'[t] = "create" /\ \A u \in Threads : u # t => pc'[u] = pc[u]
        BY <2>p, <3>1, <3>4
      <4>2. \A u \in Threads : pc[u] # "create"
        BY <3>1, <3>4
      <4>3. phase \in {"connecting", "open"} /\ sched \in {"none", "leave", "ended"}
        BY <3>1, <3>4, <4>2
           DEF Alive, ClosingInv, TypeInv, TypeOK, SchedPlaces, PollerDead
      <4> QED
        BY <3>1, <4>1, <4>3
    <3> QED
      BY <3>3, <3>4
  <2>6. ASSUME NEW t \in Threads, CreateThread(t) PROVE PollerInv'
    <3>1. /\ pc[t] = "create" /\ pc' = [pc EXCEPT ![t] = "return"] /\ sched' = "loop"
          /\ isRunning' = isRunning /\ phase \in Alive
          /\ phase' = IF sched = "none" THEN phase ELSE "restartCrash"
      BY <2>6 DEF CreateThread
    <3>2. isRunning /\ \A u \in Threads : pc'[u] # "create"
      BY <2>e, <2>p, <3>1
    <3> QED
      BY <3>1, <3>2 DEF Polling
  <2>7. ASSUME NEW t \in Threads, CreateRefused(t) PROVE PollerInv'
    <3>1. /\ pc[t] = "create" /\ pc' = [pc EXCEPT ![t] = "idle"] /\ sched' = "refused"
          /\ isRunning' = isRunning /\ phase \in Alive
      BY <2>7 DEF CreateRefused, Finish
    <3>2. isRunning /\ \A u \in Threads : pc'[u] # "create"
      BY <2>e, <2>p, <3>1
    <3> QED
      BY <3>1, <3>2
  <2>3. ASSUME NEW t \in Threads, NEW k \in Kinds, Begin(t, k) PROVE PollerInv'
    BY <2>3, <2>d, "submit" \in Places \ {"create"} DEF Begin, Places
  <2>4. CASE PollerStep
    <3>1. UNCHANGED pc
      BY <2>4 DEF PollerStep, PollLeave, PollPing, PollStatus, PollSelect, PollCall,
         PollWake, PollReset, PollStop, PollEnd, client
    <3>2. CASE UNCHANGED isRunning
      <4>1. \/ sched \in Polling /\ sched' \in Polling /\ phase' = phase
            \/ phase' = "pollCrash"
            \/ ~isRunning /\ sched \in {"loop", "stop"} /\ sched' = "leave" /\ phase' = phase
            \/ sched = "leave" /\ sched' = "ended" /\ phase' = phase
        BY <2>4, <3>2 DEF PollerStep, PollLeave, PollPing, PollStatus, PollSelect, PollCall,
           PollWake, PollReset, PollStop, PollEnd, Polling
      <4> QED
        BY <3>1, <3>2, <4>1 DEF Polling, Alive
    <3>3. CASE isRunning' # isRunning
      <4>1. sched = "stop" /\ ServiceFree /\ isRunning' = FALSE /\ sched' = "leave"
        BY <2>4, <3>3 DEF PollerStep, PollLeave, PollPing, PollStatus, PollSelect, PollCall,
           PollWake, PollReset, PollStop, PollEnd
      <4> QED
        BY <3>1, <4>1 DEF Polling
    <3> QED
      BY <3>2, <3>3
  <2>5. CASE Destroy \/ Join \/ Heal \/ Terminated \/ UNCHANGED vars
    BY <2>5 DEF Destroy, Join, Heal, Terminated, vars, client, poller, Alive
  <2> QED
    BY <2>b, <2>c, <2>1, <2>2, <2>3, <2>4, <2>5, <2>6, <2>7 DEF Next, Request
<1> QED
  BY <1>1, <1>2

\* is_running, set by start() before the thread is made and cleared by stop()
\* before the thread has left, never denies a poller that may still move the
\* cursor, and never claims one that is neither there nor on its way.
THEOREM PollerFlagCorrect == Spec => []PollerFlagInv
<1>1. PollerInv => PollerFlagInv
  BY DEF PollerInv
<1> QED
  BY <1>1, InitTyped, NextTyped, MutexCorrect, ConnectInvInductive, ClosingInvInductive,
     PollerInvInductive, PTL DEF Spec

-----------------------------------------------------------------------------
(* Without a primary nothing but switchUrl moves the cursor, and the walk  *)
(* of one thread is safe from all the others, however many they are.       *)

\* No primary, no poller: checkFailbackConditions.
NoPollerInv ==
    ~HasPrimary => sched = "none" /\ \A t \in Threads : pc[t] \notin {"start", "create"}

\* Where a walk stands: past the cluster the request started with, and at the
\* cluster it has accepted.
WalkInv ==
    ~HasPrimary =>
        \A t \in Threads :
            /\ pc[t] \in {"probe", "return"} => UrlAt(currentUrl) # originalUrl[t]
            /\ pc[t] = "return" /\ kind[t] # "hm" => probed[t] = UrlAt(currentUrl)

\* After the destructor there is no poller, and nobody to start one.
LEMMA NoPollerInvInductive ==
    /\ Init => NoPollerInv
    /\ TypeInv /\ NoPollerInv /\ [Next]_vars => NoPollerInv'
<1> USE DEF NoPollerInv, HasPrimary
<1>1. Init => NoPollerInv
  BY DEF Init
<1>2. ASSUME TypeInv, NoPollerInv, [Next]_vars PROVE NoPollerInv'
  <2> USE <1>2 DEF TypeInv, TypeOK
  <2>0. ASSUME NEW t \in Threads, ConnectUsable(t) PROVE NoPollerInv'
    BY <2>0 DEF ConnectUsable, Finish, poller
  <2>1. ASSUME NEW t \in Threads, ConnectUnusable(t) PROVE NoPollerInv'
    BY <2>1 DEF ConnectUnusable, poller
  <2>2. ASSUME NEW t \in Threads, SubmitEnds(t) \/ SubmitFails(t) PROVE NoPollerInv'
    BY <2>2 DEF SubmitEnds, SubmitFails, Finish, poller
  <2>3. ASSUME NEW t \in Threads, SwitchRefused(t) \/ ShuffleAndFail(t) PROVE NoPollerInv'
    BY <2>3 DEF SwitchRefused, ShuffleAndFail, Finish, poller
  <2>4. ASSUME NEW t \in Threads, SwitchEnter(t) PROVE NoPollerInv'
    BY <2>4 DEF SwitchEnter, poller
  <2>5. ASSUME NEW t \in Threads, Advance(t) \/ GiveUp(t) \/ GoOn(t) \/ GoOnHm(t)
        PROVE  NoPollerInv'
    BY <2>5 DEF Advance, GiveUp, GoOn, GoOnHm, poller
  <2>6. ASSUME NEW t \in Threads, ProbeUsable(t) PROVE NoPollerInv'
    BY <2>6 DEF ProbeUsable, poller
  <2>7. ASSUME NEW t \in Threads, ProbeUnusable(t) PROVE NoPollerInv'
    BY <2>7 DEF ProbeUnusable, poller
  <2>8. ASSUME NEW t \in Threads, StartPoller(t) PROVE NoPollerInv'
    BY <2>8 DEF StartPoller
  <2>13. ASSUME NEW t \in Threads, CreateThread(t) \/ CreateRefused(t) PROVE NoPollerInv'
    BY <2>13 DEF CreateThread, CreateRefused
  <2>9. ASSUME NEW t \in Threads, SwitchReturn(t) PROVE NoPollerInv'
    BY <2>9 DEF SwitchReturn, Finish, poller
  <2>10. ASSUME NEW t \in Threads, NEW k \in Kinds, Begin(t, k) PROVE NoPollerInv'
    BY <2>10 DEF Begin, poller
  <2>11. CASE PollerStep
    BY <2>11 DEF PollerStep, PollLeave, PollPing, PollStatus, PollSelect, PollCall,
       PollWake, PollReset, PollStop, PollEnd, client
  <2>12. CASE Destroy \/ Join \/ Heal \/ Terminated \/ UNCHANGED vars
    BY <2>12 DEF Destroy, Join, Heal, Terminated, vars, client, poller
  <2> QED
    BY <2>0, <2>1, <2>2, <2>3, <2>4, <2>5, <2>6, <2>7, <2>8, <2>9, <2>10, <2>11, <2>12, <2>13
    DEF Next, Request
<1> QED
  BY <1>1, <1>2

\* The ring is still, and nobody else is in the walk, while a thread is past
\* its advance: the step form of WalkUndisturbed.
LEMMA WalkUndisturbedStep ==
    ASSUME ~HasPrimary, TypeInv, MutexInv, NoPollerInv, [Next]_vars,
           NEW t \in Threads, pc[t] \in Critical \ {"advance"}
    PROVE  UNCHANGED ring
<1>1. pc[t] \in Critical /\ urlMutex = t /\ urlMutex # NoThread
  BY DEF MutexInv, Critical
<1>2. \A u \in Threads : pc[u] \in Critical => u = t
  BY <1>1 DEF MutexInv
<1> USE DEF ring
<1>3. ASSUME NEW u \in Threads, Advance(u) PROVE FALSE
  <2>1. pc[u] = "advance"
    BY <1>3 DEF Advance
  <2> QED
    BY <2>1, <1>2 DEF Critical
<1>4. ASSUME NEW u \in Threads, ShuffleAndFail(u) PROVE FALSE
  BY <1>4, <1>1 DEF ShuffleAndFail
<1>5. ASSUME NEW u \in Threads,
             ConnectUsable(u) \/ SubmitEnds(u) \/ SubmitFails(u) \/ SwitchRefused(u)
      PROVE  UNCHANGED ring
  BY <1>5 DEF ConnectUsable, SubmitEnds, SubmitFails, SwitchRefused
<1>6. ASSUME NEW u \in Threads, ConnectUnusable(u) \/ SwitchEnter(u)
      PROVE  UNCHANGED ring
  BY <1>6 DEF ConnectUnusable, SwitchEnter
<1>13. ASSUME NEW u \in Threads, StartPoller(u) \/ CreateThread(u) \/ CreateRefused(u)
      PROVE  UNCHANGED ring
  BY <1>13 DEF StartPoller, CreateThread, CreateRefused
<1>14. ASSUME NEW u \in Threads, GiveUp(u) \/ GoOn(u) \/ GoOnHm(u)
      PROVE  UNCHANGED ring
  BY <1>14 DEF GiveUp, GoOn, GoOnHm
<1>7. ASSUME NEW u \in Threads, ProbeUsable(u) PROVE UNCHANGED ring
  BY <1>7 DEF ProbeUsable
<1>8. ASSUME NEW u \in Threads, ProbeUnusable(u) PROVE UNCHANGED ring
  BY <1>8 DEF ProbeUnusable
<1>9. ASSUME NEW u \in Threads, SwitchReturn(u) PROVE UNCHANGED ring
  BY <1>9 DEF SwitchReturn
<1>10. ASSUME NEW u \in Threads, NEW k \in Kinds, Begin(u, k) PROVE UNCHANGED ring
  BY <1>10 DEF Begin
<1>11. ASSUME PollerStep PROVE UNCHANGED ring
  BY <1>11 DEF NoPollerInv, PollerStep, PollLeave, PollPing, PollStatus, PollSelect,
     PollCall, PollWake, PollReset, PollStop, PollEnd
<1>12. CASE Destroy \/ Join \/ Heal \/ Terminated \/ UNCHANGED vars
  BY <1>12 DEF Destroy, Join, Heal, Terminated, vars
<1> QED
  BY <1>3, <1>4, <1>5, <1>6, <1>7, <1>8, <1>9, <1>10, <1>11, <1>12, <1>13, <1>14
  DEF Next, Request

\* With no primary configured, whatever the other threads do, the ring and its
\* cursor stand still under a thread that has advanced in switchUrl.
THEOREM WalkUndisturbedCorrect == ~HasPrimary /\ Spec => WalkUndisturbed
<1> SUFFICES ASSUME ~HasPrimary PROVE Spec => WalkUndisturbed
  OBVIOUS
<1>1. ASSUME TypeInv, MutexInv, NoPollerInv, [Next]_vars
      PROVE  [\A t \in Threads :
                 pc[t] \in Critical \ {"advance"} => UNCHANGED ring]_vars
  BY <1>1, WalkUndisturbedStep
<1>2. Spec => []TypeInv
  BY InitTyped, NextTyped, PTL DEF Spec
<1>3. Spec => []NoPollerInv
  BY InitTyped, NextTyped, NoPollerInvInductive, PTL DEF Spec
<1> QED
  BY <1>1, <1>2, <1>3, MutexCorrect, PTL DEF Spec, WalkUndisturbed

\* Without a primary, only the walking thread moves the ring.
LEMMA WalkInvInductive ==
    ASSUME ~HasPrimary
    PROVE  /\ Init => WalkInv
           /\ TypeInv /\ MutexInv /\ NoPollerInv /\ WalkInv /\ [Next]_vars => WalkInv'
<1>1. Init => WalkInv
  BY DEF Init, WalkInv
<1>2. ASSUME TypeInv, MutexInv, NoPollerInv, WalkInv, [Next]_vars PROVE WalkInv'
  <2>a. \A t \in Threads : pc[t] \in Critical \ {"advance"} => UNCHANGED ring
    BY <1>2, WalkUndisturbedStep
  <2>b. pc \in [Threads -> Places] /\ originalUrl \in [Threads -> Urls \cup {NoUrl}]
        /\ probed \in [Threads -> Urls \cup {NoUrl}]
    BY <1>2 DEF TypeInv, TypeOK
  <2>m. \A t, u \in Threads : pc[t] \in Critical /\ pc[u] \in Critical => t = u
    BY <1>2 DEF MutexInv
  <2> USE <1>2, <2>a, <2>b DEF WalkInv, ring, UrlAt, Critical
  <2>1. ASSUME NEW t \in Threads, ConnectUsable(t) PROVE WalkInv'
    BY <2>1 DEF ConnectUsable, Finish
  <2>2. ASSUME NEW t \in Threads, ConnectUnusable(t) PROVE WalkInv'
    BY <2>2 DEF ConnectUnusable
  <2>3. ASSUME NEW t \in Threads, SubmitEnds(t) PROVE WalkInv'
    BY <2>3 DEF SubmitEnds, Finish
  <2>4. ASSUME NEW t \in Threads, SubmitFails(t) PROVE WalkInv'
    BY <2>4 DEF SubmitFails
  <2>5. ASSUME NEW t \in Threads, SwitchRefused(t) PROVE WalkInv'
    BY <2>5 DEF SwitchRefused, Finish
  <2>6. ASSUME NEW t \in Threads, SwitchEnter(t) PROVE WalkInv'
    BY <2>6 DEF SwitchEnter
  <2>7. ASSUME NEW t \in Threads, Advance(t) PROVE WalkInv'
    BY <2>7, <2>m DEF Advance
  <2>8. ASSUME NEW t \in Threads, GiveUp(t) PROVE WalkInv'
    BY <2>8 DEF GiveUp
  <2>18. ASSUME NEW t \in Threads, GoOn(t) PROVE WalkInv'
    BY <2>18 DEF GoOn, CircledBack
  <2>9. ASSUME NEW t \in Threads, GoOnHm(t) PROVE WalkInv'
    BY <2>9 DEF GoOnHm, CircledBack
  <2>10. ASSUME NEW t \in Threads, ProbeUsable(t) PROVE WalkInv'
    BY <2>10 DEF ProbeUsable
  <2>11. ASSUME NEW t \in Threads, ProbeUnusable(t) PROVE WalkInv'
    BY <2>11 DEF ProbeUnusable
  <2>12. ASSUME NEW t \in Threads, StartPoller(t) PROVE WalkInv'
    BY <2>12 DEF StartPoller, NoPollerInv
  <2>19. ASSUME NEW t \in Threads, CreateThread(t) \/ CreateRefused(t) PROVE WalkInv'
    BY <2>19 DEF CreateThread, CreateRefused, NoPollerInv
  <2>13. ASSUME NEW t \in Threads, SwitchReturn(t) PROVE WalkInv'
    BY <2>13 DEF SwitchReturn, Finish
  <2>14. ASSUME NEW t \in Threads, ShuffleAndFail(t) PROVE WalkInv'
    BY <2>14 DEF ShuffleAndFail, Finish
  <2>15. ASSUME NEW t \in Threads, NEW k \in Kinds, Begin(t, k) PROVE WalkInv'
    BY <2>15 DEF Begin
  <2>16. ASSUME PollerStep PROVE WalkInv'
    BY <2>16 DEF NoPollerInv, PollerStep, PollLeave, PollPing, PollStatus, PollSelect,
       PollCall, PollWake, PollReset, PollStop, PollEnd
  <2>17. CASE Destroy \/ Join \/ Heal \/ Terminated \/ UNCHANGED vars
    BY <2>17 DEF Destroy, Join, Heal, Terminated, vars, client
  <2> QED
    BY <2>1, <2>2, <2>3, <2>4, <2>5, <2>6, <2>7, <2>8, <2>9,
       <2>10, <2>11, <2>12, <2>13, <2>14, <2>15, <2>16, <2>17, <2>18, <2>19
    DEF Next, Request
<1> QED
  BY <1>1, <1>2

\* What a thread gets from a switch, as a relation between two states.
SwitchResult ==
    \A t \in Threads :
        /\ pc[t] = "return" /\ pc'[t] = "submit" /\ kind[t] # "hm" => url'[t] = probed[t]
        /\ pc[t] \in Critical /\ pc'[t] = "submit" => url'[t] # originalUrl[t]

\* A step out of switchUrl leaves the cluster it probed, which is another one.
LEMMA SwitchResultStep ==
    ASSUME ~HasPrimary, TypeInv, WalkInv, [Next]_vars
    PROVE  SwitchResult
<1>1. /\ pc \in [Threads -> Places]
      /\ url \in [Threads -> Urls \cup {NoUrl}]
  BY DEF TypeInv, TypeOK
<1> USE <1>1 DEF SwitchResult, Critical
<1>2. ASSUME NEW t \in Threads, ConnectUsable(t) PROVE SwitchResult
  BY <1>2 DEF ConnectUsable, Finish
<1>3. ASSUME NEW t \in Threads, ConnectUnusable(t) PROVE SwitchResult
  BY <1>3 DEF ConnectUnusable
<1>4. ASSUME NEW t \in Threads, SubmitEnds(t) PROVE SwitchResult
  BY <1>4 DEF SubmitEnds, Finish
<1>5. ASSUME NEW t \in Threads, SubmitFails(t) PROVE SwitchResult
  BY <1>5 DEF SubmitFails
<1>6. ASSUME NEW t \in Threads, SwitchRefused(t) PROVE SwitchResult
  BY <1>6 DEF SwitchRefused, Finish
<1>7. ASSUME NEW t \in Threads, SwitchEnter(t) PROVE SwitchResult
  BY <1>7 DEF SwitchEnter
<1>8. ASSUME NEW t \in Threads, Advance(t) PROVE SwitchResult
  BY <1>8 DEF Advance
<1>9. ASSUME NEW t \in Threads, GiveUp(t) PROVE SwitchResult
  BY <1>9 DEF GiveUp
<1>10. ASSUME NEW t \in Threads, GoOn(t) \/ GoOnHm(t) PROVE SwitchResult
  BY <1>10 DEF GoOn, GoOnHm
<1>11. ASSUME NEW t \in Threads, ProbeUsable(t) PROVE SwitchResult
  BY <1>11 DEF ProbeUsable
<1>12. ASSUME NEW t \in Threads, ProbeUnusable(t) PROVE SwitchResult
  BY <1>12 DEF ProbeUnusable
<1>13. ASSUME NEW t \in Threads, StartPoller(t) \/ CreateThread(t) PROVE SwitchResult
  BY <1>13 DEF StartPoller, CreateThread
<1>19. ASSUME NEW t \in Threads, CreateRefused(t) PROVE SwitchResult
  BY <1>19 DEF CreateRefused, Finish
<1>14. ASSUME NEW t \in Threads, SwitchReturn(t) PROVE SwitchResult
  BY <1>14 DEF SwitchReturn, Finish, WalkInv
<1>15. ASSUME NEW t \in Threads, ShuffleAndFail(t) PROVE SwitchResult
  BY <1>15 DEF ShuffleAndFail, Finish
<1>16. ASSUME NEW t \in Threads, NEW k \in Kinds, Begin(t, k) PROVE SwitchResult
  BY <1>16 DEF Begin
<1>17. ASSUME PollerStep PROVE SwitchResult
  BY <1>17 DEF PollerStep, PollLeave, PollPing, PollStatus, PollSelect, PollCall,
     PollWake, PollReset, PollStop, PollEnd, client
<1>18. CASE Destroy \/ Join \/ Heal \/ Terminated \/ UNCHANGED vars
  BY <1>18 DEF Destroy, Join, Heal, Terminated, vars, client
<1> QED
  BY <1>2, <1>3, <1>4, <1>5, <1>6, <1>7, <1>8, <1>9,
     <1>10, <1>11, <1>12, <1>13, <1>14, <1>15, <1>16, <1>17, <1>18, <1>19
  DEF Next, Request

\* The same of every step of the specification.
LEMMA SwitchResultCorrect == ~HasPrimary /\ Spec => [][SwitchResult]_vars
<1> SUFFICES ASSUME ~HasPrimary PROVE Spec => [][SwitchResult]_vars
  OBVIOUS
<1>1. TypeInv /\ WalkInv /\ [Next]_vars => [SwitchResult]_vars
  BY SwitchResultStep
<1>2. /\ Init => WalkInv
      /\ TypeInv /\ MutexInv /\ NoPollerInv /\ WalkInv /\ [Next]_vars => WalkInv'
  BY WalkInvInductive
<1> QED
  BY <1>1, <1>2, InitTyped, NextTyped, NoPollerInvInductive, MutexCorrect, PTL DEF Spec

\* With no primary configured, the cluster a request is sent to after a
\* failover is the one isClusterUsable accepted in that very call, whatever the
\* other threads do to the shared cursor.
THEOREM AcceptedWasProbedCorrect == ~HasPrimary /\ Spec => AcceptedWasProbed
<1>1. [SwitchResult]_vars =>
          [\A t \in Threads : pc[t] = "return" /\ pc'[t] = "submit" /\ kind[t] # "hm"
                                  => url'[t] = probed[t]]_vars
  BY DEF SwitchResult
<1> QED
  BY <1>1, SwitchResultCorrect, PTL DEF AcceptedWasProbed

\* With no primary configured, no switch sends a request back to the cluster it
\* started with, to the head node or to the host manager.
THEOREM NeverBackCorrect == ~HasPrimary /\ Spec => NeverBackToOriginal
<1>1. [SwitchResult]_vars =>
          [\A t \in Threads :
              pc[t] \in Critical /\ pc'[t] = "submit" => url'[t] # originalUrl[t]]_vars
  BY DEF SwitchResult
<1> QED
  BY <1>1, SwitchResultCorrect, PTL DEF NeverBackToOriginal

-----------------------------------------------------------------------------
(* One request: the walk around the ring does what RequestFailover         *)
(* promises, for a ring of any number of clusters, with one application    *)
(* thread and no primary.                                                  *)

\* The positions a walk that began at p and stands at c has come by.
Arc(p, c) == {i \in Urls : IF p <= c THEN p <= i /\ i <= c ELSE p <= i \/ i <= c}

\* The next position is a new one, until the walk is back where it began; then
\* it has come by all.
LEMMA ArcGrows ==
    ASSUME NEW p \in Urls, NEW c \in Urls
    PROVE  LET n == (c + 1) % N
           IN  /\ n \in Urls
               /\ c \in Arc(p, c)
               /\ n = p => Arc(p, c) = Urls
               /\ n # p => n \notin Arc(p, c) /\ Arc(p, n) = Arc(p, c) \cup {n}
<1>1. N \in Nat \ {0} /\ p \in Nat /\ c \in Nat /\ p < N /\ c < N
  BY DEF Urls
<1>2. PICK n : n = (c + 1) % N
  OBVIOUS
<1>3. n = IF c = N - 1 THEN 0 ELSE c + 1
  BY <1>1, <1>2
<1>4. n \in Urls
  BY <1>1, <1>3 DEF Urls
<1>5. c \in Arc(p, c)
  BY <1>1 DEF Arc
<1>6. ASSUME n = p PROVE Arc(p, c) = Urls
  BY <1>1, <1>3, <1>6 DEF Arc, Urls
<1>7. ASSUME n # p PROVE n \notin Arc(p, c) /\ Arc(p, n) = Arc(p, c) \cup {n}
  <2>1. n \notin Arc(p, c)
    BY <1>1, <1>3, <1>7 DEF Arc, Urls
  <2>2. \A i \in Urls : i \in Arc(p, n) <=> i \in Arc(p, c) \/ i = n
    BY <1>1, <1>3, <1>7 DEF Arc, Urls
  <2> QED
    BY <1>4, <2>1, <2>2 DEF Arc
<1> QED
  BY <1>2, <1>4, <1>5, <1>6, <1>7

\* An order of the clusters leaves none out.
LEMMA OrderIsWhole ==
    ASSUME NEW f \in Orders
    PROVE  Urls = {f[i] : i \in Urls}
<1>1. IsFiniteSet(Urls)
  <2>1. 0 \in Int /\ N - 1 \in Int
    OBVIOUS
  <2> QED
    BY <2>1, FS_Interval DEF Urls
<1>2. f \in Injection(Urls, Urls)
  BY DEF Orders, Injection, IsInjective
<1>3. f \in Surjection(Urls, Urls)
  BY <1>1, <1>2, FS_Injection
<1> QED
  BY <1>3 DEF Surjection

-----------------------------------------------------------------------------
(* The walk of the one thread. *)

\* The call began at position p, and has tried what it came by since; the
\* cluster it stands at may be still to try.
Walk(p) ==
    /\ UrlAt(p) = originalUrl[Main]
    /\ tried[Main] \cup {UrlAt(currentUrl)} = {UrlAt(i) : i \in Arc(p, currentUrl)}

Untried == {"connect", "submit", "probe", "start", "return"}

RequestInv ==
    /\ pc[Main] \in Untried \cup {"switch", "advance"} => \E p \in Urls : Walk(p)
    /\ pc[Main] \in Untried => UrlAt(currentUrl) \notin tried[Main]
    /\ pc[Main] \in {"switch", "advance"} => UrlAt(currentUrl) \in tried[Main]
    /\ pc[Main] \in {"connect", "submit"} => url[Main] = UrlAt(currentUrl)
    /\ pc[Main] = "connect" => tried[Main] = {}
    /\ pc[Main] = "compare" =>
          IF CircledBack(Main) THEN tried[Main] = Urls
          ELSE UrlAt(currentUrl) \notin tried[Main] /\ \E p \in Urls : Walk(p)
    /\ pc[Main] = "shuffle" => tried[Main] = Urls
    /\ outcome[Main] = "unavailable" => tried[Main] = Urls

\* A step that leaves the ring alone and adds at most the present cluster keeps the walk.
LEMMA WalkStays ==
    ASSUME NEW p \in Urls, Walk(p), UNCHANGED ring, originalUrl'[Main] = originalUrl[Main],
           tried'[Main] \in {tried[Main], tried[Main] \cup {UrlAt(currentUrl)}}
    PROVE  Walk(p)'
  BY DEF Walk, ring, UrlAt

\* An advance that is not back at the original cluster comes to a cluster not yet tried.
LEMMA WalkGoesOn ==
    ASSUME TypeInv, NEW p \in Urls, Walk(p), UrlAt(currentUrl) \in tried[Main],
           UrlAt(NextPosition) # originalUrl[Main], currentUrl' = NextPosition,
           UNCHANGED <<urlIndices, tried, originalUrl>>
    PROVE  Walk(p)' /\ UrlAt(NextPosition) \notin tried[Main]
<1>1. /\ urlIndices \in [Urls -> Urls] /\ currentUrl \in Urls
      /\ \A i, j \in Urls : urlIndices[i] = urlIndices[j] => i = j
  BY DEF TypeInv, TypeOK, Orders
<1>2. PICK n : n = NextPosition
  OBVIOUS
<1>3. n # p
  BY <1>2 DEF Walk
<1>4. n \in Urls /\ n \notin Arc(p, currentUrl) /\ Arc(p, n) = Arc(p, currentUrl) \cup {n}
  BY <1>1, <1>2, <1>3, ArcGrows DEF NextPosition
<1>5. tried[Main] = {urlIndices[i] : i \in Arc(p, currentUrl)}
  BY DEF Walk, UrlAt
<1>6. \A i \in Arc(p, currentUrl) : urlIndices[i] # urlIndices[n]
  BY <1>1, <1>4 DEF Arc
<1>7. {urlIndices[i] : i \in Arc(p, n)} = tried[Main] \cup {urlIndices[n]}
  BY <1>4, <1>5
<1> QED
  BY <1>2, <1>5, <1>6, <1>7 DEF Walk, UrlAt

\* A walk that is back at the original cluster has tried them all.
LEMMA WalkIsWhole ==
    ASSUME TypeInv, NEW p \in Urls, Walk(p), UrlAt(currentUrl) \in tried[Main],
           UrlAt(NextPosition) = originalUrl[Main]
    PROVE  tried[Main] = Urls
<1>1. /\ urlIndices \in Orders /\ currentUrl \in Urls
      /\ \A i, j \in Urls : urlIndices[i] = urlIndices[j] => i = j
  BY DEF TypeInv, TypeOK, Orders
<1>2. NextPosition \in Urls /\ NextPosition = p
  BY <1>1, NextPositionOnRing DEF Walk, UrlAt
<1>3. Arc(p, currentUrl) = Urls
  BY <1>1, <1>2, ArcGrows DEF NextPosition
<1>4. tried[Main] = {urlIndices[i] : i \in Urls}
  BY <1>3 DEF Walk, UrlAt
<1> QED
  BY <1>1, <1>4, OrderIsWhole

\* A ring of one.
LEMMA OneIsWhole ==
    ASSUME TypeInv, N = 1, UrlAt(currentUrl) \in tried[Main]
    PROVE  tried[Main] = Urls
<1>1. tried[Main] \subseteq Urls /\ Urls = {0}
  BY ThreadsAssumption DEF TypeInv, TypeOK, Urls
<1> QED
  BY <1>1

-----------------------------------------------------------------------------
(* One thread, no primary: every step of the walk keeps RequestInv.         *)

\* init() begins the first walk, at position 0.
LEMMA RequestInit == Init => RequestInv
<1> SUFFICES ASSUME Init PROVE RequestInv
  OBVIOUS
<1>1. 0 \in Urls /\ Arc(0, 0) = {0}
  BY DEF Arc, Urls
<1>2. /\ pc[Main] = "connect" /\ tried[Main] = {} /\ outcome[Main] = "none"
      /\ url[Main] = urlIndices[0] /\ originalUrl[Main] = urlIndices[0] /\ currentUrl = 0
  BY DEF Init
<1>3. Walk(0)
  BY <1>1, <1>2 DEF Walk, UrlAt
<1> QED
  BY <1>1, <1>2, <1>3 DEF RequestInv, Untried, UrlAt

\* What the end of a call leaves.
LEMMA FinishLeaves ==
    ASSUME TypeInv, NEW o \in Outcomes, Finish(Main, o), UNCHANGED tried,
           o = "unavailable" => tried[Main] = Urls
    PROVE  RequestInv'
<1>1. pc'[Main] = "idle" /\ outcome'[Main] = o
  BY DEF TypeInv, TypeOK, Finish
<1> QED
  BY <1>1 DEF RequestInv, Untried

\* Every step of the only thread keeps its walk, and so do the other parts of GPUdb.
LEMMA RequestStep ==
    ASSUME Threads = {Main}, ~HasPrimary, TypeInv, NoPollerInv, RequestInv, [Next]_vars
    PROVE  RequestInv'
<1>a. /\ pc \in [Threads -> Places] /\ tried \in [Threads -> SUBSET Urls]
      /\ outcome \in [Threads -> Outcomes] /\ url \in [Threads -> Urls \cup {NoUrl}]
      /\ originalUrl \in [Threads -> Urls \cup {NoUrl}]
      /\ currentUrl \in Urls /\ Main \in Threads
  BY DEF TypeInv, TypeOK
<1>b. Urls # {}
  BY <1>a
<1>c. \A o \in {"ok", "error", "unavailable", "disabled"} : o \in Outcomes
  BY DEF Outcomes
<1>1. ASSUME ConnectUsable(Main) PROVE RequestInv'
  BY <1>1, <1>c, FinishLeaves DEF ConnectUsable
<1>2. ASSUME ConnectUnusable(Main) PROVE RequestInv'
  <2>1. /\ pc[Main] = "connect" /\ tried[Main] = {} /\ url[Main] = UrlAt(currentUrl)
        /\ outcome[Main] # "unavailable"
    BY <1>2, <1>b DEF ConnectUnusable, RequestInv, Untried
  <2>2. PICK p \in Urls : Walk(p)
    BY <2>1 DEF RequestInv, Untried
  <2>3. /\ pc'[Main] = "switch" /\ tried'[Main] = {UrlAt(currentUrl)}
        /\ outcome'[Main] = outcome[Main] /\ originalUrl'[Main] = originalUrl[Main]
        /\ UNCHANGED ring
    BY <1>2, <1>a, <2>1 DEF ConnectUnusable
  <2>4. Walk(p)'
    BY <2>1, <2>2, <2>3, WalkStays
  <2>5. UrlAt(currentUrl)' \in tried'[Main]
    BY <2>3 DEF ring, UrlAt
  <2> QED
    BY <2>1, <2>3, <2>4, <2>5 DEF RequestInv, Untried
<1>3. ASSUME SubmitEnds(Main) PROVE RequestInv'
  <2>1. PICK o \in {"ok", "error"} : Finish(Main, o)
    BY <1>3 DEF SubmitEnds, SubmitAnswers
  <2>2. UNCHANGED tried
    BY <1>3 DEF SubmitEnds
  <2> QED
    BY <1>c, <2>1, <2>2, FinishLeaves
<1>4. ASSUME SubmitFails(Main) PROVE RequestInv'
  <2>1. /\ pc[Main] = "submit" /\ url[Main] = UrlAt(currentUrl)
        /\ UrlAt(currentUrl) \notin tried[Main] /\ outcome[Main] = "unavailable" => tried[Main] = Urls
    BY <1>4 DEF SubmitFails, RequestInv, Untried
  <2>2. PICK p \in Urls : Walk(p)
    BY <2>1 DEF RequestInv, Untried
  <2>3. /\ pc'[Main] = "switch" /\ tried'[Main] = tried[Main] \cup {UrlAt(currentUrl)}
        /\ outcome'[Main] = outcome[Main] /\ originalUrl'[Main] = originalUrl[Main]
        /\ UNCHANGED ring
    BY <1>4, <1>a, <2>1 DEF SubmitFails
  <2>4. Walk(p)'
    BY <2>1, <2>2, <2>3, WalkStays
  <2>5. UrlAt(currentUrl)' \in tried'[Main] /\ UrlAt(currentUrl) \in Urls
    BY <2>3, <1>a DEF ring, UrlAt, TypeInv, TypeOK, Orders
  <2> QED
    BY <2>1, <2>3, <2>4, <2>5 DEF RequestInv, Untried
<1>5. ASSUME SwitchRefused(Main) PROVE RequestInv'
  <2>1. UNCHANGED tried
    BY <1>5 DEF SwitchRefused
  <2>2. CASE FailoverDisabledFor(Main)
    BY <1>5, <1>c, <2>1, <2>2, FinishLeaves DEF SwitchRefused
  <2>3. CASE ~FailoverDisabledFor(Main)
    <3>1. N = 1 /\ pc[Main] = "switch" /\ Finish(Main, "unavailable")
      BY <1>5, <2>3 DEF SwitchRefused
    <3>2. tried[Main] = Urls
      BY <3>1, OneIsWhole DEF RequestInv
    <3> QED
      BY <1>c, <2>1, <3>1, <3>2, FinishLeaves
  <2> QED
    BY <2>2, <2>3
<1>6. ASSUME SwitchEnter(Main) PROVE RequestInv'
  <2>1. /\ pc[Main] = "switch" /\ pc'[Main] = "advance"
        /\ tried' = tried /\ outcome' = outcome /\ originalUrl' = originalUrl
        /\ UNCHANGED ring
    BY <1>6, <1>a DEF SwitchEnter
  <2>2. PICK p \in Urls : Walk(p)
    BY <2>1 DEF RequestInv
  <2>3. Walk(p)'
    BY <2>1, <2>2, WalkStays
  <2> QED
    BY <2>1, <2>3 DEF RequestInv, Untried, ring, UrlAt
<1>7. ASSUME Advance(Main) PROVE RequestInv'
  <2>1. /\ pc[Main] = "advance" /\ pc'[Main] = "compare"
        /\ currentUrl' = NextPosition /\ urlIndices' = urlIndices
        /\ tried' = tried /\ outcome' = outcome /\ originalUrl' = originalUrl
    BY <1>7, <1>a DEF Advance
  <2>2. PICK p \in Urls : Walk(p)
    BY <2>1 DEF RequestInv
  <2>3. UrlAt(currentUrl)' = UrlAt(NextPosition)
    BY <2>1 DEF UrlAt
  <2>4. CASE UrlAt(NextPosition) = originalUrl[Main]
    <3>1. tried[Main] = Urls
      BY <2>1, <2>2, <2>4, WalkIsWhole DEF RequestInv
    <3>2. CircledBack(Main)'
      BY <2>1, <2>3, <2>4 DEF CircledBack, UrlAt
    <3> QED
      BY <2>1, <3>1, <3>2 DEF RequestInv, Untried
  <2>5. CASE UrlAt(NextPosition) # originalUrl[Main]
    <3>1. Walk(p)' /\ UrlAt(NextPosition) \notin tried[Main]
      BY <2>1, <2>2, <2>5, WalkGoesOn DEF RequestInv
    <3>2. ~CircledBack(Main)'
      BY <2>1, <2>3, <2>5 DEF CircledBack, UrlAt
    <3> QED
      BY <2>1, <2>3, <3>1, <3>2 DEF RequestInv, Untried
  <2> QED
    BY <2>4, <2>5
<1>8. ASSUME GiveUp(Main) PROVE RequestInv'
  <2>1. /\ pc[Main] = "compare" /\ pc'[Main] = "shuffle" /\ CircledBack(Main)
        /\ tried' = tried /\ outcome' = outcome
    BY <1>8, <1>a DEF GiveUp
  <2> QED
    BY <2>1 DEF RequestInv, Untried
<1>9. ASSUME GoOn(Main) \/ GoOnHm(Main) PROVE RequestInv'
  <2>1. /\ pc[Main] = "compare" /\ pc'[Main] \in {"probe", "return"} /\ ~CircledBack(Main)
        /\ tried' = tried /\ outcome' = outcome /\ originalUrl' = originalUrl
        /\ UNCHANGED ring
    BY <1>9, <1>a DEF GoOn, GoOnHm
  <2>2. UrlAt(currentUrl) \notin tried[Main]
    BY <2>1 DEF RequestInv
  <2>3. PICK p \in Urls : Walk(p)
    BY <2>1 DEF RequestInv
  <2>4. Walk(p)'
    BY <2>1, <2>3, WalkStays
  <2> QED
    BY <2>1, <2>2, <2>4 DEF RequestInv, Untried, ring, UrlAt
<1>10. ASSUME ProbeUsable(Main) PROVE RequestInv'
  <2>1. /\ pc[Main] = "probe" /\ pc'[Main] = "return"
        /\ tried' = tried /\ outcome' = outcome /\ originalUrl' = originalUrl
        /\ UNCHANGED ring
    BY <1>10, <1>a DEF ProbeUsable
  <2>2. PICK p \in Urls : Walk(p)
    BY <2>1 DEF RequestInv, Untried
  <2>3. Walk(p)'
    BY <2>1, <2>2, WalkStays
  <2> QED
    BY <2>1, <2>3 DEF RequestInv, Untried, ring, UrlAt
<1>11. ASSUME ProbeUnusable(Main) PROVE RequestInv'
  <2>1. /\ pc[Main] = "probe" /\ pc'[Main] = "advance"
        /\ tried'[Main] = tried[Main] \cup {UrlAt(currentUrl)}
        /\ outcome' = outcome /\ originalUrl' = originalUrl
        /\ UNCHANGED ring
    BY <1>11, <1>a DEF ProbeUnusable
  <2>2. PICK p \in Urls : Walk(p)
    BY <2>1 DEF RequestInv, Untried
  <2>3. Walk(p)'
    BY <2>1, <2>2, WalkStays
  <2>4. UrlAt(currentUrl)' \in tried'[Main] /\ UrlAt(currentUrl) \in Urls
    BY <2>1, <1>a DEF ring, UrlAt, TypeInv, TypeOK, Orders
  <2> QED
    BY <2>1, <2>3, <2>4 DEF RequestInv, Untried
<1>12. ASSUME StartPoller(Main) \/ CreateThread(Main) \/ CreateRefused(Main) PROVE FALSE
  BY <1>12, <1>a DEF StartPoller, CreateThread, CreateRefused, NoPollerInv
<1>13. ASSUME SwitchReturn(Main) PROVE RequestInv'
  <2>1. pc[Main] = "return" /\ tried' = tried /\ UNCHANGED ring
    BY <1>13 DEF SwitchReturn
  <2>2. CASE Finish(Main, "ok")
    BY <1>c, <2>1, <2>2, FinishLeaves
  <2>3. CASE ~Finish(Main, "ok")
    <3>1. /\ pc'[Main] = "submit" /\ url'[Main] = UrlAt(currentUrl)
          /\ originalUrl' = originalUrl /\ outcome' = outcome
      BY <1>13, <1>a, <2>3 DEF SwitchReturn
    <3>2. PICK p \in Urls : Walk(p)
      BY <2>1 DEF RequestInv, Untried
    <3>3. Walk(p)'
      BY <2>1, <3>1, <3>2, WalkStays
    <3> QED
      BY <2>1, <3>1, <3>3 DEF RequestInv, Untried, ring, UrlAt
  <2> QED
    BY <2>2, <2>3
<1>14. ASSUME ShuffleAndFail(Main) PROVE RequestInv'
  <2>1. pc[Main] = "shuffle" /\ UNCHANGED tried /\ Finish(Main, "unavailable")
    BY <1>14 DEF ShuffleAndFail
  <2> QED
    BY <1>c, <2>1, FinishLeaves DEF RequestInv
<1>15. ASSUME NEW k \in Kinds, Begin(Main, k) PROVE RequestInv'
  <2>1. /\ pc'[Main] = "submit" /\ tried'[Main] = {} /\ outcome'[Main] = "none"
        /\ url'[Main] = UrlAt(currentUrl) /\ originalUrl'[Main] = UrlAt(currentUrl)
        /\ UNCHANGED ring
    BY <1>15, <1>a DEF Begin
  <2>2. Arc(currentUrl, currentUrl) = {currentUrl}
    BY <1>a DEF Arc, Urls
  <2>3. \E p \in Urls : Walk(p)'
    BY <1>a, <2>1, <2>2 DEF Walk, ring, UrlAt
  <2> QED
    BY <2>1, <2>3 DEF RequestInv, Untried, ring, UrlAt
<1>16. ASSUME UNCHANGED <<client, ring>> PROVE RequestInv'
  BY <1>16 DEF RequestInv, Untried, Walk, CircledBack, client, ring, UrlAt
<1>17. ASSUME PollerStep PROVE FALSE
  BY <1>17 DEF NoPollerInv, PollerStep, PollLeave, PollPing, PollStatus, PollSelect,
     PollCall, PollWake, PollReset, PollStop, PollEnd
<1>18. CASE Destroy \/ Join \/ Heal \/ Terminated \/ UNCHANGED vars
  BY <1>16, <1>18 DEF Destroy, Join, Heal, Terminated, vars
<1> QED
  BY <1>1, <1>2, <1>3, <1>4, <1>5, <1>6, <1>7, <1>8, <1>9, <1>10, <1>11, <1>12,
     <1>13, <1>14, <1>15, <1>17, <1>18 DEF Next, Request


\* The one thread has no disturbance: the three invariants together are
\* inductive.
LEMMA RequestInvariance ==
    ASSUME Threads = {Main}, ~HasPrimary
    PROVE  Spec => [](TypeInv /\ NoPollerInv /\ RequestInv)
<1>1. Init => TypeInv /\ NoPollerInv /\ RequestInv
  BY InitTyped, NoPollerInvInductive, RequestInit
<1>2. TypeInv /\ NoPollerInv /\ RequestInv /\ [Next]_vars
          => (TypeInv /\ NoPollerInv /\ RequestInv)'
  BY NextTyped, NoPollerInvInductive, RequestStep
<1> QED
  BY <1>1, <1>2, PTL DEF Spec

\* A ring of any size, one application thread, no primary: a call told that all
\* clusters failed has seen every one of them fail.  (With two threads or a
\* poller it need not have: they move the cursor under the walk.)
THEOREM UnavailableCorrect ==
    Threads = {Main} /\ ~HasPrimary /\ Spec => []UnavailableMeansAllTried
<1> SUFFICES ASSUME Threads = {Main}, ~HasPrimary
             PROVE  Spec => []UnavailableMeansAllTried
  OBVIOUS
<1>1. RequestInv => UnavailableMeansAllTried
  BY DEF RequestInv, UnavailableMeansAllTried
<1> QED
  BY <1>1, RequestInvariance, PTL

-----------------------------------------------------------------------------
(* The walk implements the abstract request.                                *)

Trying == [t \in Threads |-> pc[t] # "idle"]

\* Whether a call is under way, before and after a step of the one thread.
LEMMA TryingAfter ==
    ASSUME Threads = {Main}, TypeInv, NEW p \in Places, pc' = [pc EXCEPT ![Main] = p]
    PROVE  /\ Trying' = [Trying EXCEPT ![Main] = (p # "idle")]
           /\ pc'[Main] = p
           /\ Trying[Main] <=> pc[Main] # "idle"
<1>1. pc \in [Threads -> Places] /\ Main \in Threads
  BY DEF TypeInv, TypeOK
<1>2. \A t \in Threads : t = Main
  OBVIOUS
<1>3. pc'[Main] = p
  BY <1>1
<1>4. Trying' = [t \in Threads |-> p # "idle"]
  BY <1>2, <1>3 DEF Trying
<1>5. [Trying EXCEPT ![Main] = (p # "idle")] = [t \in Threads |-> p # "idle"]
  BY <1>2, Zenon DEF Trying
<1>6. Trying[Main] <=> pc[Main] # "idle"
  BY <1>1, Zenon DEF Trying
<1> QED
  BY <1>3, <1>4, <1>5, <1>6, Zenon

\* The call goes on.
LEMMA TryingStill ==
    ASSUME Threads = {Main}, TypeInv, pc[Main] # "idle", pc'[Main] # "idle"
    PROVE  Trying' = Trying
<1>1. \A t \in Threads : t = Main
  OBVIOUS
<1> QED
  BY <1>1 DEF Trying

\* The end of a call is the abstract End.
LEMMA EndEnds ==
    ASSUME Threads = {Main}, TypeInv, pc[Main] # "idle",
           NEW o \in {"ok", "error", "unavailable", "disabled"}, Finish(Main, o),
           UNCHANGED <<tried, disableFailover>>,
           o \in {"ok", "error"} => tried[Main] # Urls,
           o = "unavailable" => tried[Main] = Urls,
           o = "disabled" => disableFailover /\ tried[Main] # {}
    PROVE  Abstract!Next
<1>1. /\ pc' = [pc EXCEPT ![Main] = "idle"] /\ outcome' = [outcome EXCEPT ![Main] = o]
      /\ "idle" \in Places
  BY DEF Finish, Places
<1>2. Trying' = [Trying EXCEPT ![Main] = FALSE] /\ Trying[Main]
  BY <1>1, TryingAfter
<1>3. Abstract!End(Main, o)
  BY <1>1, <1>2, Zenon DEF Abstract!End, Trying
<1> QED
  BY <1>3 DEF Abstract!Next

\* A cluster that fails the call is the abstract Fail, at a cluster not tried yet.
LEMMA FailFails ==
    ASSUME Threads = {Main}, TypeInv, pc[Main] # "idle", pc'[Main] # "idle",
           NEW c \in Urls, c \notin tried[Main],
           tried' = [tried EXCEPT ![Main] = @ \cup {c}],
           UNCHANGED <<outcome, disableFailover>>
    PROVE  Abstract!Next
<1>1. Trying' = Trying
  BY TryingStill
<1>2. Trying[Main]
  BY DEF Trying
<1>3. Abstract!Fail(Main)
  BY <1>1, <1>2 DEF Abstract!Fail, Trying
<1> QED
  BY <1>3 DEF Abstract!Next

\* The client begins in a state of the abstract request.
LEMMA AbstractInit == Init => Abstract!Init
<1> SUFFICES ASSUME Init PROVE Abstract!Init
  OBVIOUS
<1>1. Trying \in [Threads -> BOOLEAN]
  BY Zenon DEF Trying
<1>2. disableFailover \in BOOLEAN
  BY DEF Init
<1> QED
  BY <1>1, <1>2 DEF Init, Abstract!Init, Trying

\* Every step of the client is a step of the abstract request, or none.
LEMMA AbstractStep ==
    ASSUME Threads = {Main}, ~HasPrimary, TypeInv, NoPollerInv, RequestInv, [Next]_vars
    PROVE  Abstract!Next \/ UNCHANGED Abstract!vars
<1>a. /\ pc \in [Threads -> Places] /\ tried \in [Threads -> SUBSET Urls]
      /\ UrlAt(currentUrl) \in Urls /\ Main \in Threads /\ Urls # {}
  BY DEF TypeInv, TypeOK, Orders, UrlAt
<1>b. ASSUME pc[Main] # "idle", pc'[Main] # "idle",
             UNCHANGED <<tried, outcome, disableFailover>>
      PROVE  UNCHANGED Abstract!vars
  BY <1>b, TryingStill DEF Abstract!vars, Trying
<1>c. ASSUME UNCHANGED <<pc, tried, outcome, disableFailover>>
      PROVE  UNCHANGED Abstract!vars
  BY <1>c DEF Abstract!vars
<1>1. ASSUME ConnectUsable(Main) PROVE Abstract!Next
  <2>1. pc[Main] = "connect" /\ tried[Main] = {}
    BY <1>1 DEF ConnectUsable, RequestInv
  <2> QED
    BY <1>1, <1>a, <2>1, EndEnds DEF ConnectUsable
<1>2. ASSUME ConnectUnusable(Main) PROVE Abstract!Next
  <2>1. pc[Main] = "connect" /\ tried[Main] = {} /\ url[Main] = UrlAt(currentUrl)
    BY <1>2 DEF ConnectUnusable, RequestInv
  <2>2. pc'[Main] # "idle" /\ tried' = [tried EXCEPT ![Main] = @ \cup {UrlAt(currentUrl)}]
    BY <1>2, <1>a, <2>1 DEF ConnectUnusable
  <2> QED
    BY <1>2, <1>a, <2>1, <2>2, FailFails DEF ConnectUnusable
<1>3. ASSUME SubmitEnds(Main) PROVE Abstract!Next
  <2>1. PICK o \in {"ok", "error"} : Finish(Main, o)
    BY <1>3 DEF SubmitEnds, SubmitAnswers
  <2>2. pc[Main] = "submit" /\ UrlAt(currentUrl) \notin tried[Main]
    BY <1>3 DEF SubmitEnds, RequestInv, Untried
  <2> QED
    BY <1>3, <1>a, <2>1, <2>2, EndEnds DEF SubmitEnds
<1>4. ASSUME SubmitFails(Main) PROVE Abstract!Next
  <2>1. /\ pc[Main] = "submit" /\ url[Main] = UrlAt(currentUrl)
        /\ UrlAt(currentUrl) \notin tried[Main]
    BY <1>4 DEF SubmitFails, RequestInv, Untried
  <2>2. pc'[Main] # "idle" /\ tried' = [tried EXCEPT ![Main] = @ \cup {UrlAt(currentUrl)}]
    BY <1>4, <1>a, <2>1 DEF SubmitFails
  <2> QED
    BY <1>4, <1>a, <2>1, <2>2, FailFails DEF SubmitFails
<1>5. ASSUME SwitchRefused(Main) PROVE Abstract!Next
  <2>1. /\ pc[Main] = "switch" /\ UrlAt(currentUrl) \in tried[Main]
        /\ UNCHANGED <<tried, disableFailover>>
    BY <1>5 DEF SwitchRefused, RequestInv
  <2>2. CASE FailoverDisabledFor(Main)
    BY <1>5, <2>1, <2>2, EndEnds DEF SwitchRefused, FailoverDisabledFor
  <2>3. CASE ~FailoverDisabledFor(Main)
    BY <1>5, <2>1, <2>3, OneIsWhole, EndEnds DEF SwitchRefused
  <2> QED
    BY <2>2, <2>3
<1>6. ASSUME SwitchEnter(Main) PROVE UNCHANGED Abstract!vars
  BY <1>6, <1>a, <1>b DEF SwitchEnter
<1>7. ASSUME Advance(Main) PROVE UNCHANGED Abstract!vars
  BY <1>7, <1>a, <1>b DEF Advance
<1>8. ASSUME GiveUp(Main) PROVE UNCHANGED Abstract!vars
  BY <1>8, <1>a, <1>b DEF GiveUp
<1>9. ASSUME GoOn(Main) \/ GoOnHm(Main) PROVE UNCHANGED Abstract!vars
  BY <1>9, <1>a, <1>b DEF GoOn, GoOnHm
<1>10. ASSUME ProbeUsable(Main) PROVE UNCHANGED Abstract!vars
  BY <1>10, <1>a, <1>b DEF ProbeUsable
<1>11. ASSUME ProbeUnusable(Main) PROVE Abstract!Next
  <2>1. pc[Main] = "probe" /\ UrlAt(currentUrl) \notin tried[Main]
    BY <1>11 DEF ProbeUnusable, RequestInv, Untried
  <2>2. pc'[Main] # "idle" /\ tried' = [tried EXCEPT ![Main] = @ \cup {UrlAt(currentUrl)}]
    BY <1>11, <1>a DEF ProbeUnusable
  <2> QED
    BY <1>11, <1>a, <2>1, <2>2, FailFails DEF ProbeUnusable
<1>12. ASSUME StartPoller(Main) \/ CreateThread(Main) \/ CreateRefused(Main) PROVE FALSE
  BY <1>12, <1>a DEF StartPoller, CreateThread, CreateRefused, NoPollerInv
<1>13. ASSUME SwitchReturn(Main) PROVE Abstract!Next \/ UNCHANGED Abstract!vars
  <2>1. /\ pc[Main] = "return" /\ UrlAt(currentUrl) \notin tried[Main]
        /\ UNCHANGED <<tried, disableFailover>>
    BY <1>13 DEF SwitchReturn, RequestInv, Untried
  <2>2. CASE Finish(Main, "ok")
    BY <1>a, <2>1, <2>2, EndEnds
  <2>3. CASE ~Finish(Main, "ok")
    BY <1>13, <1>a, <1>b, <2>1, <2>3 DEF SwitchReturn
  <2> QED
    BY <2>2, <2>3
<1>14. ASSUME ShuffleAndFail(Main) PROVE Abstract!Next
  BY <1>14, EndEnds DEF ShuffleAndFail, RequestInv
<1>15. ASSUME NEW k \in Kinds, Begin(Main, k) PROVE Abstract!Next
  <2>1. pc[Main] = "idle" /\ pc' = [pc EXCEPT ![Main] = "submit"] /\ "submit" \in Places
    BY <1>15 DEF Begin, Places
  <2>2. Trying' = [Trying EXCEPT ![Main] = TRUE] /\ ~Trying[Main]
    BY <2>1, TryingAfter
  <2>3. /\ tried' = [tried EXCEPT ![Main] = {}] /\ outcome' = [outcome EXCEPT ![Main] = "none"]
        /\ UNCHANGED disableFailover
    BY <1>15 DEF Begin
  <2>4. Abstract!Begin(Main)
    BY <2>2, <2>3, Zenon DEF Abstract!Begin, Trying
  <2> QED
    BY <1>a, <2>4 DEF Abstract!Next
<1>16. ASSUME PollerStep PROVE FALSE
  BY <1>16 DEF NoPollerInv, PollerStep, PollLeave, PollPing, PollStatus, PollSelect,
     PollCall, PollWake, PollReset, PollStop, PollEnd
<1>17. CASE Destroy \/ Join \/ Heal \/ Terminated \/ UNCHANGED vars
  BY <1>17, <1>c DEF Destroy, Join, Heal, Terminated, vars, client
<1> QED
  BY <1>1, <1>2, <1>3, <1>4, <1>5, <1>6, <1>7, <1>8, <1>9, <1>10, <1>11, <1>12,
     <1>13, <1>14, <1>15, <1>16, <1>17 DEF Next, Request

\* For every size of the ring, the cursor, the permutation, the lock, the probes
\* and the reshuffle of GPUdb give one application thread without a primary the
\* request RequestFailover describes: no cluster is tried twice, and a request
\* given up has been refused by all.
THEOREM AbstractCorrect == Threads = {Main} /\ ~HasPrimary /\ Spec => AbstractSpec
<1> SUFFICES ASSUME Threads = {Main}, ~HasPrimary PROVE Spec => AbstractSpec
  OBVIOUS
<1>1. TypeInv /\ NoPollerInv /\ RequestInv /\ [Next]_vars
          => [Abstract!Next]_(Abstract!vars)
  BY AbstractStep
<1>2. Spec => Abstract!Init /\ [][Abstract!Next]_(Abstract!vars)
  BY <1>1, AbstractInit, RequestInvariance, PTL DEF Spec
<1> QED
  BY <1>2 DEF AbstractSpec, Abstract!Spec

-----------------------------------------------------------------------------
(* How a request ends: the numbers behind RequestEnds, for one application   *)
(* thread and no primary. Fairness turns them into the end of the call.      *)

\* The clusters the request may still come to.
ClustersLeft == Cardinality(Urls \ tried[Main])

Stage ==
    CASE pc[Main] = "switch"                        -> 6
      [] pc[Main] = "advance"                       -> 5
      [] pc[Main] = "compare"                       -> 4
      [] pc[Main] = "probe"                         -> 3
      [] pc[Main] = "return"                        -> 2
      [] pc[Main] \in {"connect", "submit", "shuffle"} -> 1
      [] OTHER                                      -> 0

\* How many steps the call may still take: six for a cluster, which is asked,
\* fails, is left under the lock, and the next one compared, probed and taken.
WalkLeft == IF pc[Main] = "idle" THEN 0 ELSE 6 * ClustersLeft + Stage

\* A cluster that fails, or is refused, is one less to come to.
LEMMA ClusterTried ==
    ASSUME NEW T \in SUBSET Urls
    PROVE  /\ Cardinality(Urls \ T) \in Nat
           /\ Cardinality(Urls \ T) <= N
           /\ T = {} => Cardinality(Urls \ T) = N
           /\ \A c \in Urls \ T :
                 Cardinality(Urls \ (T \cup {c})) = Cardinality(Urls \ T) - 1
<1>1. IsFiniteSet(Urls) /\ Cardinality(Urls) = N
  BY FS_Interval DEF Urls
<1>2. IsFiniteSet(Urls \ T) /\ Cardinality(Urls \ T) <= Cardinality(Urls)
  BY <1>1, FS_Subset
<1>3. Cardinality(Urls \ T) \in Nat
  BY <1>2, FS_CardinalityType
<1>4. T = {} => Urls \ T = Urls
  OBVIOUS
<1>5. ASSUME NEW c \in Urls \ T
      PROVE  Cardinality(Urls \ (T \cup {c})) = Cardinality(Urls \ T) - 1
  <2>1. Urls \ (T \cup {c}) = (Urls \ T) \ {c}
    OBVIOUS
  <2>2. Cardinality((Urls \ T) \ {c}) = Cardinality(Urls \ T) - 1
    BY <1>2, FS_RemoveElement
  <2> QED
    BY <2>1, <2>2
<1> QED
  BY <1>1, <1>2, <1>3, <1>4, <1>5

\* The end of a call ends its walk.
LEMMA FinishEndsWalk ==
    ASSUME TypeInv, NEW o, Finish(Main, o)
    PROVE  WalkLeft' = 0
<1>1. pc'[Main] = "idle"
  BY DEF TypeInv, TypeOK, Finish
<1> QED
  BY <1>1 DEF WalkLeft

\* A step from one place of the walk to another, with the clusters it has left.
LEMMA WalkFalls ==
    ASSUME TypeInv, TypeInv', pc[Main] # "idle", pc'[Main] # "idle",
           \/ (ClustersLeft' = ClustersLeft /\ Stage' < Stage)
           \/ (ClustersLeft' = ClustersLeft - 1 /\ Stage' < Stage + 6)
    PROVE  WalkLeft' < WalkLeft
<1>1. tried[Main] \in SUBSET Urls /\ tried'[Main] \in SUBSET Urls
  BY DEF TypeInv, TypeOK
<1>2. ClustersLeft \in Nat /\ ClustersLeft' \in Nat
  BY <1>1, ClusterTried DEF ClustersLeft
<1>3. Stage \in 0..6 /\ Stage' \in 0..6
  BY DEF Stage
<1>4. WalkLeft = 6 * ClustersLeft + Stage /\ WalkLeft' = 6 * ClustersLeft' + Stage'
  BY DEF WalkLeft
<1>5. PICK c \in Nat, d \in Nat, i \in 0..6, j \in 0..6 :
         c = ClustersLeft /\ d = ClustersLeft' /\ i = Stage /\ j = Stage'
  BY <1>2, <1>3
<1>6. (d = c /\ j < i) \/ (d = c - 1 /\ j < i + 6)
  BY <1>5
<1>7. 6 * d + j < 6 * c + i
  BY <1>6
<1>8. WalkLeft = 6 * c + i /\ WalkLeft' = 6 * d + j
  BY <1>4, <1>5
<1> QED
  BY <1>7, <1>8

\* Every step of the request, whichever clusters fail it, lowers the number.
LEMMA RequestFalls ==
    ASSUME Threads = {Main}, ~HasPrimary, TypeInv, NoPollerInv, RequestInv, [Next]_vars,
           Request(Main)
    PROVE  WalkLeft' < WalkLeft
<1>a. TypeInv'
  BY NextTyped
<1>b. /\ pc \in [Threads -> Places] /\ tried \in [Threads -> SUBSET Urls]
      /\ tried[Main] \in SUBSET Urls /\ Main \in Threads
      /\ UrlAt(currentUrl) \in Urls
  BY DEF TypeInv, TypeOK, UrlAt, Orders
<1>c. ClustersLeft \in Nat /\ Stage \in 0..6
  BY <1>b, ClusterTried DEF ClustersLeft, Stage
<1>d. pc[Main] # "idle" => WalkLeft = 6 * ClustersLeft + Stage
  BY DEF WalkLeft
<1>e. ASSUME NEW o, Finish(Main, o), pc[Main] # "idle", pc[Main] \in Places PROVE WalkLeft' < WalkLeft
  <2>1. WalkLeft' = 0
    BY <1>e, FinishEndsWalk
  <2>2. Stage > 0 \/ pc[Main] \in {"start", "create"}
    BY <1>e DEF Stage, Places, Critical
  <2>3. pc[Main] \notin {"start", "create"}
    BY DEF NoPollerInv
  <2> QED
    BY <1>c, <1>d, <1>e, <2>1, <2>2, <2>3
<1>f. ASSUME UrlAt(currentUrl) \notin tried[Main],
             tried'[Main] = tried[Main] \cup {UrlAt(currentUrl)}
      PROVE  ClustersLeft' = ClustersLeft - 1
  BY <1>b, <1>f, ClusterTried DEF ClustersLeft
<1>1. CASE ConnectUsable(Main) \/ SubmitEnds(Main) \/ SwitchRefused(Main) \/ ShuffleAndFail(Main)
  <2>1. \E o : Finish(Main, o)
    BY <1>1 DEF ConnectUsable, SubmitEnds, SwitchRefused, ShuffleAndFail
  <2>2. pc[Main] # "idle" /\ pc[Main] \in Places
    BY <1>1, <1>b DEF ConnectUsable, SubmitEnds, SwitchRefused, ShuffleAndFail
  <2> QED
    BY <1>e, <2>1, <2>2
<1>2. CASE ConnectUnusable(Main)
  <2>1. /\ pc[Main] = "connect" /\ pc'[Main] = "switch"
        /\ tried[Main] = {} /\ tried'[Main] = {UrlAt(currentUrl)}
    BY <1>2, <1>b DEF ConnectUnusable, RequestInv, Untried
  <2>2. ClustersLeft' = ClustersLeft - 1 /\ Stage = 1 /\ Stage' = 6
    BY <1>f, <2>1 DEF Stage
  <2> QED
    BY <1>a, <2>1, <2>2, WalkFalls
<1>3. CASE SubmitFails(Main)
  <2>1. /\ pc[Main] = "submit" /\ pc'[Main] = "switch"
        /\ UrlAt(currentUrl) \notin tried[Main]
        /\ tried'[Main] = tried[Main] \cup {UrlAt(currentUrl)}
    BY <1>3, <1>b DEF SubmitFails, RequestInv, Untried
  <2>2. ClustersLeft' = ClustersLeft - 1 /\ Stage = 1 /\ Stage' = 6
    BY <1>f, <2>1 DEF Stage
  <2> QED
    BY <1>a, <2>1, <2>2, WalkFalls
<1>4. CASE SwitchEnter(Main) \/ Advance(Main) \/ GiveUp(Main) \/ GoOn(Main) \/ GoOnHm(Main)
             \/ ProbeUsable(Main)
  <2>1. /\ UNCHANGED tried
        /\ \/ pc[Main] = "switch" /\ pc'[Main] = "advance"
           \/ pc[Main] = "advance" /\ pc'[Main] = "compare"
           \/ pc[Main] = "compare" /\ pc'[Main] \in {"shuffle", "probe", "return"}
           \/ pc[Main] = "probe" /\ pc'[Main] = "return"
    BY <1>4, <1>b DEF SwitchEnter, Advance, GiveUp, GoOn, GoOnHm, ProbeUsable
  <2>2. ClustersLeft' = ClustersLeft
    BY <2>1 DEF ClustersLeft
  <2>3. Stage' < Stage
    BY <2>1 DEF Stage
  <2> QED
    BY <1>a, <2>1, <2>2, <2>3, WalkFalls
<1>5. CASE ProbeUnusable(Main)
  <2>1. /\ pc[Main] = "probe" /\ pc'[Main] = "advance"
        /\ UrlAt(currentUrl) \notin tried[Main]
        /\ tried'[Main] = tried[Main] \cup {UrlAt(currentUrl)}
    BY <1>5, <1>b DEF ProbeUnusable, RequestInv, Untried
  <2>2. ClustersLeft' = ClustersLeft - 1 /\ Stage = 3 /\ Stage' = 5
    BY <1>f, <2>1 DEF Stage
  <2> QED
    BY <1>a, <2>1, <2>2, WalkFalls
<1>6. ASSUME StartPoller(Main) \/ CreateThread(Main) \/ CreateRefused(Main) PROVE FALSE
  BY <1>6, <1>b DEF StartPoller, CreateThread, CreateRefused, NoPollerInv
<1>7. CASE SwitchReturn(Main)
  <2>1. pc[Main] = "return" /\ UNCHANGED tried /\ pc[Main] \in Places
    BY <1>7, <1>b DEF SwitchReturn
  <2>2. CASE Finish(Main, "ok")
    BY <1>e, <2>1, <2>2
  <2>3. CASE ~Finish(Main, "ok")
    <3>1. pc'[Main] = "submit"
      BY <1>7, <1>b, <2>3 DEF SwitchReturn
    <3>2. ClustersLeft' = ClustersLeft /\ Stage = 2 /\ Stage' = 1
      BY <2>1, <3>1 DEF ClustersLeft, Stage
    <3> QED
      BY <1>a, <2>1, <3>1, <3>2, WalkFalls
  <2> QED
    BY <2>2, <2>3
<1> QED
  BY <1>1, <1>2, <1>3, <1>4, <1>5, <1>6, <1>7 DEF Request

\* Nobody else moves the walk.
LEMMA OthersLeaveWalk ==
    ASSUME Threads = {Main}, ~HasPrimary, TypeInv, NoPollerInv, [Next]_vars,
           ~Request(Main), pc[Main] # "idle"
    PROVE  WalkLeft' = WalkLeft
<1>1. ~PollerStep
  BY DEF NoPollerInv, PollerStep, PollLeave, PollPing, PollStatus, PollSelect,
     PollCall, PollWake, PollReset, PollStop, PollEnd
<1>2. \A k \in Kinds : ~Begin(Main, k)
  BY DEF Begin
<1>3. UNCHANGED client
  BY <1>1, <1>2 DEF Next, Destroy, Join, Heal, Terminated, vars
<1> QED
  BY <1>3 DEF client, WalkLeft, ClustersLeft, Stage

\* The number is one, and says whether the call has ended.
WalkLeftInv == WalkLeft \in Nat /\ (WalkLeft = 0 <=> pc[Main] = "idle")

\* Without a primary the poller is never started.
LEMMA WalkLeftValues ==
    ASSUME ~HasPrimary
    PROVE  TypeInv /\ NoPollerInv => WalkLeftInv
<1> SUFFICES ASSUME TypeInv, NoPollerInv PROVE WalkLeftInv
  OBVIOUS
<1>1. tried[Main] \in SUBSET Urls /\ pc[Main] \in Places /\ pc[Main] \notin {"start", "create"}
  BY DEF TypeInv, TypeOK, NoPollerInv
<1>2. ClustersLeft \in Nat
  BY <1>1, ClusterTried DEF ClustersLeft
<1>3. Stage \in 0..6 /\ (pc[Main] # "idle" => Stage > 0)
  BY <1>1 DEF Stage, Places, Critical
<1> QED
  BY <1>2, <1>3 DEF WalkLeft, WalkLeftInv

(* The walk cannot go round the ring for ever: for a ring of N clusters, in   *)
(* whatever order and wherever the cursor begins, a constructor ends within   *)
(* 6N + 1 steps of its own, and so does every request, whatever each cluster  *)
(* answers. (With two threads it need not: each can move the cursor past the  *)
(* cluster the other compares with.)                                          *)
THEOREM RequestProgress ==
    Threads = {Main} /\ ~HasPrimary /\ Spec =>
        /\ WalkLeft = 6 * N + 1
        /\ []WalkLeftInv
        /\ [][/\ Request(Main) => WalkLeft' < WalkLeft
              /\ pc[Main] # "idle" => WalkLeft' <= WalkLeft
              /\ \A k \in Kinds : Begin(Main, k) => WalkLeft' = 6 * N + 1]_vars
<1> SUFFICES ASSUME Threads = {Main}, ~HasPrimary
             PROVE  Spec =>
                      /\ WalkLeft = 6 * N + 1
                      /\ []WalkLeftInv
                      /\ [][/\ Request(Main) => WalkLeft' < WalkLeft
                            /\ pc[Main] # "idle" => WalkLeft' <= WalkLeft
                            /\ \A k \in Kinds : Begin(Main, k) => WalkLeft' = 6 * N + 1]_vars
  OBVIOUS
<1>1. TypeInv /\ NoPollerInv => WalkLeftInv
  BY WalkLeftValues
<1>2. TypeInv' /\ NoPollerInv' => WalkLeftInv'
  BY <1>1, PTL
<1>3. TypeInv /\ NoPollerInv /\ RequestInv /\ [Next]_vars =>
        [/\ Request(Main) => WalkLeft' < WalkLeft
         /\ pc[Main] # "idle" => WalkLeft' <= WalkLeft
         /\ \A k \in Kinds : Begin(Main, k) => WalkLeft' = 6 * N + 1]_vars
  <2> SUFFICES ASSUME TypeInv, NoPollerInv, RequestInv, [Next]_vars
               PROVE  /\ Request(Main) => WalkLeft' < WalkLeft
                      /\ pc[Main] # "idle" => WalkLeft' <= WalkLeft
                      /\ \A k \in Kinds : Begin(Main, k) => WalkLeft' = 6 * N + 1
    OBVIOUS
  <2>1. Request(Main) => WalkLeft' < WalkLeft
    BY RequestFalls
  <2>2. TypeInv' /\ NoPollerInv'
    BY NextTyped, NoPollerInvInductive
  <2>3. WalkLeft \in Nat /\ WalkLeft' \in Nat
    BY <1>1, <1>2, <2>2 DEF WalkLeftInv
  <2>4. pc[Main] # "idle" => WalkLeft' <= WalkLeft
    BY <2>1, <2>3, OthersLeaveWalk
  <2>5. ASSUME NEW k \in Kinds, Begin(Main, k) PROVE WalkLeft' = 6 * N + 1
    <3>1. pc'[Main] = "submit" /\ tried'[Main] = {}
      BY <2>5 DEF Begin, TypeInv, TypeOK
    <3>2. ClustersLeft' = N /\ Stage' = 1
      BY <3>1, ClusterTried DEF ClustersLeft, Stage
    <3> QED
      BY <3>1, <3>2 DEF WalkLeft
  <2> QED
    BY <2>1, <2>4, <2>5
<1>4. Init => WalkLeft = 6 * N + 1
  <2> SUFFICES ASSUME Init PROVE WalkLeft = 6 * N + 1
    OBVIOUS
  <2>1. pc[Main] = "connect" /\ tried[Main] = {}
    BY DEF Init
  <2>2. ClustersLeft = N /\ Stage = 1
    BY <2>1, ClusterTried DEF ClustersLeft, Stage
  <2> QED
    BY <2>1, <2>2 DEF WalkLeft
<1> QED
  BY <1>1, <1>3, <1>4, RequestInvariance, PTL DEF Spec

-----------------------------------------------------------------------------
(* How the poller ends: the numbers behind DestroyEnds and PollerFinishes,   *)
(* for any number of clusters and threads.                                   *)

\* How many steps ~GPUdb still waits for in thread::join: the rest of the poll
\* under way, a sleep after it if it fails, the look at the flag, the return.
JoinWait ==
    CASE sched = "status"              -> 5
      [] sched = "select"              -> 4
      [] sched \in {"reset", "sleep"}  -> 3
      [] sched \in {"stop", "loop"}    -> 2
      [] sched = "leave"               -> 1
      [] OTHER                         -> 0

JoinWaitInv ==
    phase = "closing" =>
        ~isRunning /\ JoinWait \in 0..5 /\ (JoinWait = 0 <=> sched \in PollerDead)

(* ~GPUdb waits for five steps of its poller at most, whatever the primary    *)
(* answers: with the flag cleared no step of the poll leads to another one.   *)
THEOREM DestroyProgress ==
    Spec => /\ []JoinWaitInv
            /\ [][phase = "closing" => /\ PollerStep => JoinWait' < JoinWait
                                       /\ JoinWait' <= JoinWait]_vars
<1>1. TypeInv /\ ClosingInv => JoinWaitInv
  BY DEF TypeInv, TypeOK, SchedPlaces, Polling, ClosingInv, JoinWaitInv, JoinWait, PollerDead
<1>2. TypeInv /\ ClosingInv /\ [Next]_vars =>
        [phase = "closing" => /\ PollerStep => JoinWait' < JoinWait
                              /\ JoinWait' <= JoinWait]_vars
  <2> SUFFICES ASSUME TypeInv, ClosingInv, [Next]_vars, phase = "closing"
               PROVE  /\ PollerStep => JoinWait' < JoinWait
                      /\ JoinWait' <= JoinWait
    OBVIOUS
  <2>1. ~isRunning /\ \A t \in Threads : pc[t] = "idle"
    BY DEF ClosingInv
  <2>2. JoinWait \in 0..5 /\ JoinWait' \in 0..5
    BY DEF JoinWait
  <2>3. ASSUME PollerStep PROVE JoinWait' < JoinWait
    <3>1. \/ sched \in {"loop", "stop"} /\ sched' = "leave"
          \/ sched = "leave" /\ sched' = "ended"
          \/ sched = "status" /\ sched' \in {"select", "sleep", "ended"}
          \/ sched = "select" /\ sched' \in {"reset", "sleep", "ended"}
          \/ sched = "sleep" /\ sched' = "loop"
          \/ sched = "reset" /\ sched' = "stop"
      BY <2>1, <2>3 DEF PollerStep, PollLeave, PollPing, PollStatus, PollSelect, PollCall,
         PollWake, PollReset, PollStop, PollEnd
    <3> QED
      BY <3>1 DEF JoinWait
  <2>4. ASSUME ~PollerStep PROVE JoinWait' = JoinWait
    <3>1. \A t \in Threads : ~Request(t)
      BY <2>1 DEF Request, ConnectUsable, ConnectUnusable, SubmitEnds, SubmitFails,
         SwitchRefused, SwitchEnter, Advance, GiveUp, GoOn, GoOnHm, ProbeUsable,
         ProbeUnusable, StartPoller, CreateThread, CreateRefused, SwitchReturn, ShuffleAndFail
    <3>2. \A t \in Threads, k \in Kinds : ~Begin(t, k)
      BY DEF Begin
    <3>3. sched' = sched
      BY <2>4, <3>1, <3>2 DEF Next, Destroy, Join, Heal, Terminated, vars, poller
    <3> QED
      BY <3>3 DEF JoinWait
  <2> QED
    BY <2>2, <2>3, <2>4
<1> QED
  BY <1>1, <1>2, InitTyped, NextTyped, ClosingInvInductive, PTL DEF Spec

\* How many steps the poller is from the end of a failback that nothing spoils.
FailbackLeft ==
    CASE sched = "sleep"  -> 6
      [] sched = "loop"   -> 5
      [] sched = "status" -> 4
      [] sched = "select" -> 3
      [] sched = "reset"  -> 2
      [] sched = "stop"   -> 1
      [] OTHER            -> 0

FailbackInv ==
    phase \in Alive /\ isRunning =>
        FailbackLeft \in 1..6 \/ ~ServiceFree \/ sched = "refused"

(* Once the primary answers for good, a poller that is on is six steps from   *)
(* clearing its flag at most, wherever it was: asleep, or in the middle of a  *)
(* poll. No failover in the meantime, of any thread, brings it back. On it is *)
(* once start() has made its thread: it is about to, or it could not.         *)
THEOREM FailbackProgress ==
    Spec => /\ []FailbackInv
            /\ [][healed => healed']_vars
            /\ [][healed /\ sched \in Polling /\ isRunning /\ phase \in Alive =>
                    /\ PollerStep => FailbackLeft' < FailbackLeft
                    /\ FailbackLeft' <= FailbackLeft]_vars
<1>1. TypeInv /\ PollerInv /\ ClosingInv => FailbackInv
  BY DEF TypeInv, TypeOK, SchedPlaces, Polling, PollerDead, PollerInv, PollerFlagInv, ClosingInv,
         FailbackInv, FailbackLeft, Alive
<1>2. [Next]_vars => [healed => healed']_vars
  <2> SUFFICES ASSUME [Next]_vars, healed PROVE healed'
    OBVIOUS
  <2>1. ASSUME NEW t \in Threads, Request(t) PROVE healed'
    BY <2>1 DEF Request, ConnectUsable, ConnectUnusable, SubmitEnds, SubmitFails,
       SwitchRefused, SwitchEnter, Advance, GiveUp, GoOn, GoOnHm, ProbeUsable,
       ProbeUnusable, StartPoller, CreateThread, CreateRefused, SwitchReturn, ShuffleAndFail
  <2>2. ASSUME NEW t \in Threads, NEW k \in Kinds, Begin(t, k) PROVE healed'
    BY <2>2 DEF Begin
  <2>3. CASE PollerStep
    BY <2>3 DEF PollerStep, PollLeave, PollPing, PollStatus, PollSelect,
       PollCall, PollWake, PollReset, PollStop, PollEnd
  <2>4. CASE Destroy \/ Join \/ Heal \/ Terminated \/ UNCHANGED vars
    BY <2>4 DEF Destroy, Join, Heal, Terminated, vars
  <2> QED
    BY <2>1, <2>2, <2>3, <2>4 DEF Next
<1>3. PollerInv /\ [Next]_vars =>
        [healed /\ sched \in Polling /\ isRunning /\ phase \in Alive =>
            /\ PollerStep => FailbackLeft' < FailbackLeft
            /\ FailbackLeft' <= FailbackLeft]_vars
  <2> SUFFICES ASSUME PollerInv, [Next]_vars, healed, sched \in Polling, isRunning,
                      phase \in Alive
               PROVE  /\ PollerStep => FailbackLeft' < FailbackLeft
                      /\ FailbackLeft' <= FailbackLeft
    OBVIOUS
  <2>1. FailbackLeft \in 0..6 /\ FailbackLeft' \in 0..6
    BY DEF FailbackLeft
  <2>2. ASSUME PollerStep PROVE FailbackLeft' < FailbackLeft
    <3>1. \/ sched = "sleep" /\ sched' = "loop"
          \/ sched = "loop" /\ sched' = "status"
          \/ sched = "status" /\ sched' = "select"
          \/ sched = "select" /\ sched' = "reset"
          \/ sched = "reset" /\ sched' = "stop"
          \/ sched = "stop" /\ sched' = "leave"
      BY <2>2 DEF PollerStep, PollLeave, PollPing, PollStatus, PollSelect, PollCall,
         PollWake, PollReset, PollStop, PollEnd, UsableAnswers, Polling
    <3> QED
      BY <3>1 DEF FailbackLeft
  <2>3. ASSUME ~PollerStep PROVE FailbackLeft' = FailbackLeft
    <3>1. ASSUME NEW t \in Threads, Request(t) PROVE sched' = sched
      <4>1. pc[t] # "create"
        BY DEF PollerInv, CreatingInv, Polling
      <4> QED
        BY <3>1, <4>1 DEF Request, ConnectUsable, ConnectUnusable, SubmitEnds, SubmitFails,
           SwitchRefused, SwitchEnter, Advance, GiveUp, GoOn, GoOnHm, ProbeUsable,
           ProbeUnusable, StartPoller, CreateThread, CreateRefused, SwitchReturn, ShuffleAndFail,
           poller
    <3>2. ASSUME NEW t \in Threads, NEW k \in Kinds, Begin(t, k) PROVE sched' = sched
      BY <3>2 DEF Begin, poller
    <3>3. sched' = sched
      BY <2>3, <3>1, <3>2 DEF Next, Destroy, Join, Heal, Terminated, vars, poller
    <3> QED
      BY <3>3 DEF FailbackLeft
  <2> QED
    BY <2>1, <2>2, <2>3
<1> QED
  BY <1>1, <1>2, <1>3, InitTyped, NextTyped, MutexCorrect, ConnectInvInductive,
     PollerInvInductive, ClosingInvInductive, PTL DEF Spec
=============================================================================
