------------------------------ MODULE HAFailover ------------------------------
(***************************************************************************)
(* The failover and failback of one gpudb::GPUdb object shared by the      *)
(* threads of a client application (src/gpudb/GPUdb.cpp,                   *)
(* src/gpudb/FailbackPollerService.cpp).                                   *)
(*                                                                         *)
(* The object keeps a list of cluster head nodes, a permutation of its     *)
(* indices and a cursor into the permutation.  A request that fails walks  *)
(* the cursor forward (switchUrl, under m_urlMutex, probing each cluster   *)
(* over the network) until a cluster is usable or the walk comes back to   *)
(* the cluster the request started with.  When a primary cluster is known, *)
(* every failover also starts a background thread that polls the primary   *)
(* and, once it answers, sets the cursor back to position 0 (without       *)
(* m_urlMutex) and stops.                                                  *)
(*                                                                         *)
(* A cluster may come up, drain or go down between any two calls, so every *)
(* answer of a cluster is a free choice; once `healed' holds the primary   *)
(* answers every call well.                                                *)
(***************************************************************************)
EXTENDS Naturals, FiniteSets

CONSTANTS
    Threads,         \* the application threads that share the object
    Main,            \* the thread that constructs it
    NoThread,        \* nobody: the holder of a free mutex
    N,               \* number of clusters: m_urls.size()
    Primary,         \* index in m_urls of the primary cluster, or N when there is none
    FailoverOptions, \* the values of Options::setDisableFailover to consider
    Kinds            \* {"head", "hm"}: requests to the head node, to the host manager

ASSUME ThreadsAssumption == Main \in Threads /\ NoThread \notin Threads
ASSUME NAssumption == N \in Nat \ {0}
ASSUME PrimaryAssumption == Primary \in 0..N
ASSUME OptionAssumption == FailoverOptions \subseteq BOOLEAN /\ Kinds \subseteq {"head", "hm"}

Urls == 0..(N - 1)
NoUrl == N
HasPrimary == Primary # N

VARIABLES
    disableFailover, \* m_disableFailover
    urlIndices,      \* m_urlIndices: position -> index in m_urls
    currentUrl,      \* m_currentUrl: a position
    urlMutex,        \* holder of m_urlMutex
    pc,              \* where each thread is
    kind,            \* the call each thread is in
    url,             \* local `url' of submitRequestRaw
    originalUrl,     \* local `originalUrl' of submitRequestRaw
    probed,          \* the cluster isClusterUsable accepted in the switch under way
    tried,           \* clusters the call has seen fail or refused as unusable (history)
    outcome,         \* how the thread's last call ended
    isRunning,       \* FailbackPollerService::is_running
    sched,           \* where the thread owned by FailbackPollerService::scheduler is
    phase,           \* life of the object and of the process
    healed           \* the primary is up, and stays up

client == <<pc, kind, url, originalUrl, probed, tried, outcome>>
ring == <<urlIndices, currentUrl>>
poller == <<isRunning, sched>>
vars == <<disableFailover, ring, urlMutex, client, poller, phase, healed>>

Critical == {"advance", "compare", "probe", "start", "create", "return"}
Places == {"idle", "connect", "submit", "switch", "shuffle"} \cup Critical
Outcomes == {"none", "ok", "error", "unavailable", "disabled"}
Polling == {"loop", "status", "select", "sleep", "reset", "stop"}
PollerDead == {"none", "ended", "refused"}
SchedPlaces == Polling \cup {"leave"} \cup PollerDead
Crashes == {"restartCrash", "pollCrash"}
Alive == {"connecting", "open", "closing"}
Phases == Alive \cup {"failed", "closed"} \cup Crashes

Orders == {p \in [Urls -> Urls] : \A i, j \in Urls : p[i] = p[j] => i = j}

\* What randomizeURLs may leave in m_urlIndices: any order, the first index
\* kept first when there is a primary.
ShuffleAll == Orders \* mutant: shuffles from the first element on
Shuffles == {p \in Orders : HasPrimary => p[0] = 0}

UrlAt(i) == urlIndices[i]

\* A request ends well, or with an error that is the request's own, or with
\* one that calls for another cluster: GPUdbExitException (a trigger message),
\* GPUdbSubmitException (connection, timeout, HTTP status) or any other
\* std::exception.
SubmitAnswers(c) ==
    {"ok", "error"} \cup (IF healed /\ c = Primary THEN {} ELSE {"failover"})

\* isClusterUsable: reachable, running and not draining.
UsableAnswers(c) == IF healed /\ c = Primary THEN {TRUE} ELSE BOOLEAN

-----------------------------------------------------------------------------
(* init(): the object is built; a full HA connection probes the cluster it  *)
(* starts with and fails over from it like any request.                     *)

Init ==
    /\ disableFailover \in FailoverOptions
    /\ urlIndices \in Shuffles
    /\ currentUrl = 0
    /\ urlMutex = NoThread
    /\ pc = [t \in Threads |-> IF t = Main THEN "connect" ELSE "idle"]
    /\ kind = [t \in Threads |-> IF t = Main THEN "connect" ELSE "head"]
    /\ url = [t \in Threads |-> IF t = Main THEN urlIndices[0] ELSE NoUrl]
    /\ originalUrl = url
    /\ probed = [t \in Threads |-> NoUrl]
    /\ tried = [t \in Threads |-> {}]
    /\ outcome = [t \in Threads |-> "none"]
    /\ isRunning = FALSE
    /\ sched = "none"
    /\ phase = "connecting"
    /\ healed = FALSE

\* The call of thread t ends with outcome o; its locals go out of scope.
Finish(t, o) ==
    /\ pc' = [pc EXCEPT ![t] = "idle"]
    /\ outcome' = [outcome EXCEPT ![t] = o]
    /\ url' = [url EXCEPT ![t] = NoUrl]
    /\ originalUrl' = [originalUrl EXCEPT ![t] = NoUrl]
    /\ phase' = IF kind[t] # "connect" THEN phase
                ELSE IF o = "ok" THEN "open" ELSE "failed"
    /\ UNCHANGED kind

ConnectUsable(t) ==
    /\ phase \in Alive
    /\ pc[t] = "connect"
    /\ disableFailover \/ N = 1 \/ TRUE \in UsableAnswers(url[t])
    /\ Finish(t, "ok")
    /\ UNCHANGED <<disableFailover, ring, urlMutex, probed, tried, poller, healed>>

ConnectUnusable(t) ==
    /\ phase \in Alive
    /\ pc[t] = "connect"
    /\ ~disableFailover /\ N > 1
    /\ FALSE \in UsableAnswers(url[t])
    /\ tried' = [tried EXCEPT ![t] = {url[t]}]
    /\ pc' = [pc EXCEPT ![t] = "switch"]
    /\ UNCHANGED <<disableFailover, ring, urlMutex, kind, url, originalUrl,
                   probed, outcome, poller, phase, healed>>

-----------------------------------------------------------------------------
(* submitRequestRaw(endpoint) and submitRequestToHostManagerRaw(endpoint).  *)

Begin(t, k) ==
    /\ phase = "open"
    /\ pc[t] = "idle"
    /\ urlMutex = NoThread
    /\ kind' = [kind EXCEPT ![t] = k]
    /\ url' = [url EXCEPT ![t] = UrlAt(currentUrl)]
    /\ originalUrl' = [originalUrl EXCEPT ![t] = UrlAt(currentUrl)]
    /\ tried' = [tried EXCEPT ![t] = {}]
    /\ outcome' = [outcome EXCEPT ![t] = "none"]
    /\ pc' = [pc EXCEPT ![t] = "submit"]
    /\ UNCHANGED <<disableFailover, ring, urlMutex, probed, poller, phase, healed>>

SubmitEnds(t) ==
    /\ phase \in Alive
    /\ pc[t] = "submit"
    /\ \E o \in SubmitAnswers(url[t]) \ {"failover"} : Finish(t, o)
    /\ UNCHANGED <<disableFailover, ring, urlMutex, probed, tried, poller, healed>>

\* Only a connection-level failure goes to another cluster.
SubmitFails(t) ==
    /\ phase \in Alive
    /\ pc[t] = "submit"
    /\ "failover" \in SubmitAnswers(url[t]) \/ kind[t] = "hm"
    /\ tried' = [tried EXCEPT ![t] = @ \cup {url[t]}]
    /\ pc' = [pc EXCEPT ![t] = "switch"]
    /\ UNCHANGED <<disableFailover, ring, urlMutex, kind, url, originalUrl,
                   probed, outcome, poller, phase, healed>>

-----------------------------------------------------------------------------
(* switchUrl(oldUrl) and switchHmUrl(oldUrl).                               *)

\* switchHmUrl does not look at m_disableFailover.
FailoverDisabledFor(t) == disableFailover /\ kind[t] # "hm"

\* Failover disabled, or no other cluster.
SwitchRefused(t) ==
    /\ phase \in Alive
    /\ pc[t] = "switch"
    /\ urlMutex = NoThread
    /\ FailoverDisabledFor(t) \/ N = 1
    /\ Finish(t, IF FailoverDisabledFor(t) THEN "disabled" ELSE "unavailable")
    /\ UNCHANGED <<disableFailover, ring, urlMutex, probed, tried, poller, healed>>

SwitchEnter(t) ==
    /\ phase \in Alive
    /\ pc[t] = "switch"
    /\ urlMutex = NoThread
    /\ ~FailoverDisabledFor(t) /\ N > 1
    /\ urlMutex' = t
    /\ pc' = [pc EXCEPT ![t] = "advance"]
    /\ UNCHANGED <<disableFailover, ring, kind, url, originalUrl, probed, tried,
                   outcome, poller, phase, healed>>

NextPosition == (currentUrl + 1) % N

\* The walk moves the cursor on. The code reads it again for each later use, so
\* that the poller's reset may come in before any of them.
Advance(t) ==
    /\ phase \in Alive
    /\ pc[t] = "advance"
    /\ currentUrl' = NextPosition
    /\ pc' = [pc EXCEPT ![t] = "compare"]
    /\ UNCHANGED <<disableFailover, urlIndices, urlMutex, kind, url, originalUrl,
                   probed, tried, outcome, poller, phase, healed>>

\* The pointer comparison with oldUrl, which both callers pass as the URL the
\* request started with.
CircledBackToLast(t) == UrlAt(currentUrl) = url[t] \* mutant: passes the failed URL
CircledBackToFront(t) == currentUrl = 0 \* mutant: compares positions with 0
CircledBack(t) == UrlAt(currentUrl) = originalUrl[t]

\* Back at the cluster the request started with: the walk gives up and releases
\* the lock before it reshuffles.
GiveUpLocked(t) == \* mutant: keeps the lock randomizeURLs needs
    /\ phase \in Alive
    /\ pc[t] = "compare"
    /\ CircledBack(t)
    /\ pc' = [pc EXCEPT ![t] = "shuffle"]
    /\ UNCHANGED <<disableFailover, ring, urlMutex, kind, url, originalUrl,
                   probed, tried, outcome, poller, phase, healed>>
GiveUp(t) ==
    /\ phase \in Alive
    /\ pc[t] = "compare"
    /\ CircledBack(t)
    /\ urlMutex' = NoThread
    /\ pc' = [pc EXCEPT ![t] = "shuffle"]
    /\ UNCHANGED <<disableFailover, ring, kind, url, originalUrl, probed,
                   tried, outcome, poller, phase, healed>>

GoOn(t) ==
    /\ phase \in Alive
    /\ pc[t] = "compare" /\ kind[t] # "hm"
    /\ ~CircledBack(t)
    /\ pc' = [pc EXCEPT ![t] = "probe"]
    /\ UNCHANGED <<disableFailover, ring, urlMutex, kind, url, originalUrl,
                   probed, tried, outcome, poller, phase, healed>>

\* switchHmUrl takes the next cluster as it is: no probe, no poller.
GoOnHm(t) ==
    /\ phase \in Alive
    /\ pc[t] = "compare" /\ kind[t] = "hm"
    /\ ~CircledBack(t)
    /\ pc' = [pc EXCEPT ![t] = "return"]
    /\ UNCHANGED <<disableFailover, ring, urlMutex, kind, url, originalUrl,
                   probed, tried, outcome, poller, phase, healed>>

\* isClusterUsable at the cursor, over the network, with m_urlMutex held.
ProbeUsableUnlocked(t) == \* mutant: drops the lock for the network call
    /\ phase \in Alive
    /\ pc[t] = "probe"
    /\ TRUE \in UsableAnswers(UrlAt(currentUrl))
    /\ probed' = [probed EXCEPT ![t] = UrlAt(currentUrl)]
    /\ urlMutex' = NoThread
    /\ pc' = [pc EXCEPT ![t] = IF HasPrimary THEN "start" ELSE "return"]
    /\ UNCHANGED <<disableFailover, ring, kind, url, originalUrl, tried,
                   outcome, poller, phase, healed>>
ProbeUsable(t) ==
    /\ phase \in Alive
    /\ pc[t] = "probe"
    /\ TRUE \in UsableAnswers(UrlAt(currentUrl))
    /\ probed' = [probed EXCEPT ![t] = UrlAt(currentUrl)]
    /\ pc' = [pc EXCEPT ![t] = IF HasPrimary THEN "start" ELSE "return"]
    /\ UNCHANGED <<disableFailover, ring, urlMutex, kind, url, originalUrl, tried,
                   outcome, poller, phase, healed>>

ProbeUnusable(t) ==
    /\ phase \in Alive
    /\ pc[t] = "probe"
    /\ FALSE \in UsableAnswers(UrlAt(currentUrl))
    /\ tried' = [tried EXCEPT ![t] = @ \cup {UrlAt(currentUrl)}]
    /\ pc' = [pc EXCEPT ![t] = "advance"]
    /\ UNCHANGED <<disableFailover, ring, urlMutex, kind, url, originalUrl, probed,
                   outcome, poller, phase, healed>>

\* FailbackPollerService::start, under service_mutex from here until the thread
\* is made: the flag is set first.
StartPoller(t) ==
    /\ phase \in Alive
    /\ pc[t] = "start"
    /\ pc' = [pc EXCEPT ![t] = IF isRunning THEN "return" ELSE "create"]
    /\ isRunning' = TRUE
    /\ UNCHANGED <<disableFailover, ring, urlMutex, kind, url, originalUrl, probed,
                   tried, outcome, sched, phase, healed>>

\* The holder of service_mutex, which start() keeps over two steps, and stop()
\* and reset_cluster_pointers() take.
ServiceFree == \A t \in Threads : pc[t] # "create"

\* The new std::thread is assigned to scheduler: over one that was never joined,
\* whether it has ended or is just about to, that is std::terminate.
CreateThread(t) ==
    /\ phase \in Alive
    /\ pc[t] = "create"
    /\ pc' = [pc EXCEPT ![t] = "return"]
    /\ sched' = "loop"
    /\ phase' = IF sched = "none" THEN phase ELSE "restartCrash"
    /\ UNCHANGED <<disableFailover, ring, urlMutex, kind, url, originalUrl, probed,
                   tried, outcome, isRunning, healed>>

\* The std::thread cannot be made: its std::system_error leaves start() with the
\* flag set, switchUrl, and the request, which is inside one of its handlers.
\* (An older thread that is still to leave has nothing left to do.)
CreateRefused(t) ==
    /\ phase \in Alive
    /\ pc[t] = "create"
    /\ sched' = "refused"
    /\ urlMutex' = NoThread
    /\ probed' = [probed EXCEPT ![t] = NoUrl]
    /\ Finish(t, "error")
    /\ UNCHANGED <<disableFailover, ring, tried, isRunning, healed>>

\* The cursor is read once more for the result of switchUrl or switchHmUrl; a
\* request goes on to submit there, a constructor is done.
SwitchReturn(t) ==
    /\ phase \in Alive
    /\ pc[t] = "return"
    /\ urlMutex' = NoThread
    /\ probed' = [probed EXCEPT ![t] = NoUrl]
    /\ \/ /\ kind[t] = "connect"
          /\ Finish(t, "ok")
       \/ /\ kind[t] # "connect"
          /\ url' = [url EXCEPT ![t] = UrlAt(currentUrl)]
          /\ pc' = [pc EXCEPT ![t] = "submit"]
          /\ UNCHANGED <<kind, originalUrl, outcome, phase>>
    /\ UNCHANGED <<disableFailover, ring, tried, poller, healed>>

\* randomizeURLs, then GPUdbHAUnavailableException.
ShuffleUnlocked(t) == \* mutant: reshuffles without the lock
    /\ phase \in Alive
    /\ pc[t] = "shuffle"
    /\ urlIndices' \in Shuffles
    /\ currentUrl' = 0
    /\ Finish(t, "unavailable")
    /\ UNCHANGED <<disableFailover, urlMutex, probed, tried, poller, healed>>
ShuffleAndFail(t) ==
    /\ phase \in Alive
    /\ pc[t] = "shuffle"
    /\ urlMutex = NoThread
    /\ urlIndices' \in Shuffles
    /\ currentUrl' = 0
    /\ Finish(t, "unavailable")
    /\ UNCHANGED <<disableFailover, urlMutex, probed, tried, poller, healed>>

-----------------------------------------------------------------------------
(* FailbackPollerService: polling_task, poll, reset_cluster_pointers, stop. *)

\* The loop head sees the flag cleared by the destructor.
PollLeave ==
    /\ phase \in Alive
    /\ sched = "loop" /\ ~isRunning
    /\ sched' = "leave"
    /\ UNCHANGED <<disableFailover, ring, urlMutex, client, isRunning, phase, healed>>

\* isKineticaRunning(primary).
PollPing ==
    /\ phase \in Alive
    /\ sched = "loop" /\ isRunning
    /\ \E up \in UsableAnswers(Primary) : sched' = IF up THEN "status" ELSE "sleep"
    /\ UNCHANGED <<disableFailover, ring, urlMutex, client, isRunning, phase, healed>>

\* The calls of poll() on its own direct connection, showSystemStatus and then
\* executeSql: a good answer goes on; draining or a plain GPUdbException is a
\* failed poll; at a connection-level failure that connection's switchUrl,
\* failover being disabled on it, throws a GPUdbException POINTER, which no
\* handler of poll or polling_task catches: std::terminate.
PollCall(from, to) ==
    /\ phase \in Alive
    /\ sched = from
    /\ \/ sched' = to /\ UNCHANGED phase
       \/ ~healed /\ sched' = "sleep" /\ UNCHANGED phase
       \/ ~healed /\ sched' = "ended" /\ phase' = "pollCrash"
    /\ UNCHANGED <<disableFailover, ring, urlMutex, client, isRunning, healed>>

PollStatus == PollCall("status", "select")
PollSelect == PollCall("select", "reset")

\* After a failed poll the thread sleeps pollingInterval seconds.
PollWake ==
    /\ phase \in Alive
    /\ sched = "sleep"
    /\ sched' = "loop"
    /\ UNCHANGED <<disableFailover, ring, urlMutex, client, isRunning, phase, healed>>

\* m_currentUrl = 0 under service_mutex only.  It races with the read-modify-
\* write in switchUrl: landing between its load and its store, it is lost.
PollReset ==
    /\ phase \in Alive
    /\ sched = "reset" /\ ServiceFree
    /\ \/ currentUrl' = 0
       \/ /\ \E t \in Threads : pc[t] = "advance"
          /\ UNCHANGED currentUrl
    /\ sched' = "stop"
    /\ UNCHANGED <<disableFailover, urlIndices, urlMutex, client, isRunning, phase, healed>>

PollStopSilent == \* mutant: leaves the loop and the flag set
    /\ phase \in Alive
    /\ sched = "stop" /\ ServiceFree
    /\ sched' = "leave"
    /\ UNCHANGED <<disableFailover, ring, urlMutex, client, isRunning, phase, healed>>
PollStopForgotten == \* mutant: goes on polling after the failback
    /\ phase \in Alive
    /\ sched = "stop" /\ ServiceFree
    /\ sched' = "sleep"
    /\ UNCHANGED <<disableFailover, ring, urlMutex, client, isRunning, phase, healed>>
PollStop ==
    /\ phase \in Alive
    /\ sched = "stop" /\ ServiceFree
    /\ isRunning' = FALSE
    /\ sched' = "leave"
    /\ UNCHANGED <<disableFailover, ring, urlMutex, client, phase, healed>>

\* With the flag cleared the thread has still to leave polling_task.
PollEnd ==
    /\ phase \in Alive
    /\ sched = "leave"
    /\ sched' = "ended"
    /\ UNCHANGED <<disableFailover, ring, urlMutex, client, isRunning, phase, healed>>

-----------------------------------------------------------------------------
(* ~GPUdb, which destroys the poller first: stop, then join.                *)

DestroyWithoutStop == \* mutant: joins a poller it has not stopped
    /\ phase = "open"
    /\ \A t \in Threads : pc[t] = "idle"
    /\ phase' = "closing"
    /\ UNCHANGED <<disableFailover, ring, urlMutex, client, poller, healed>>
Destroy ==
    /\ phase = "open"
    /\ \A t \in Threads : pc[t] = "idle"
    /\ phase' = "closing"
    /\ isRunning' = FALSE
    /\ UNCHANGED <<disableFailover, ring, urlMutex, client, sched, healed>>

Join ==
    /\ phase = "closing"
    /\ sched \in PollerDead
    /\ phase' = "closed"
    /\ UNCHANGED <<disableFailover, ring, urlMutex, client, poller, healed>>

\* The environment: from here on the primary answers every call well.
Heal ==
    /\ phase \in Alive
    /\ HasPrimary /\ ~healed
    /\ healed' = TRUE
    /\ UNCHANGED <<disableFailover, ring, urlMutex, client, poller, phase>>

Terminated == phase \notin Alive /\ UNCHANGED vars

-----------------------------------------------------------------------------

Request(t) ==
    \/ ConnectUsable(t) \/ ConnectUnusable(t)
    \/ SubmitEnds(t) \/ SubmitFails(t)
    \/ SwitchRefused(t) \/ SwitchEnter(t)
    \/ Advance(t) \/ GiveUp(t) \/ GoOn(t) \/ GoOnHm(t)
    \/ ProbeUsable(t) \/ ProbeUnusable(t)
    \/ StartPoller(t) \/ CreateThread(t) \/ CreateRefused(t)
    \/ SwitchReturn(t) \/ ShuffleAndFail(t)

PollerStep ==
    \/ PollLeave \/ PollPing \/ PollStatus \/ PollSelect \/ PollWake
    \/ PollReset \/ PollStop \/ PollEnd

Next ==
    \/ \E t \in Threads : Request(t) \/ \E k \in Kinds : Begin(t, k)
    \/ PollerStep
    \/ Destroy \/ Join \/ Heal
    \/ Terminated

Spec == Init /\ [][Next]_vars

\* Fairness: the operating system keeps running each thread that can run, and
\* every network call ends (a timeout, or the peer).  Nothing obliges a thread
\* to start a request, the application to destroy the object, or the primary
\* to come back.
FairSpec ==
    /\ Spec
    /\ \A t \in Threads : WF_vars(Request(t))
    /\ WF_vars(PollerStep) /\ WF_vars(Join)

-----------------------------------------------------------------------------
(* Properties.                                                              *)

\* Types of the variables; m_urlIndices stays an order of all the clusters
\* that begins with index 0 when there is a primary (randomizeURLs).
TypeOK ==
    /\ disableFailover \in BOOLEAN
    /\ urlIndices \in Orders /\ (HasPrimary => urlIndices[0] = 0)
    /\ currentUrl \in Urls
    /\ urlMutex \in Threads \cup {NoThread}
    /\ pc \in [Threads -> Places]
    /\ kind \in [Threads -> {"head", "hm", "connect"}]
    /\ url \in [Threads -> Urls \cup {NoUrl}]
    /\ originalUrl \in [Threads -> Urls \cup {NoUrl}]
    /\ probed \in [Threads -> Urls \cup {NoUrl}]
    /\ tried \in [Threads -> SUBSET Urls]
    /\ outcome \in [Threads -> Outcomes]
    /\ isRunning \in BOOLEAN
    /\ sched \in SchedPlaces
    /\ phase \in Phases
    /\ healed \in BOOLEAN

\* A call under way has a URL, and remembers the one it started with.
UrlInv ==
    \A t \in Threads : pc[t] # "idle" => url[t] \in Urls /\ originalUrl[t] \in Urls

\* Only the constructing thread is ever in the constructor, and while it is, the
\* object is not open to requests or to destruction.
ConnectInv ==
    \A t \in Threads :
        kind[t] = "connect" =>
            t = Main /\ (pc[t] # "idle" => phase \in {"connecting"} \cup Crashes)

\* m_urlMutex is held by exactly the thread that is inside the walk of
\* switchUrl or switchHmUrl, network probes and poller start included, and on
\* no other path (every throw and return releases it).
MutexInv == \A t \in Threads : (urlMutex = t) <=> (pc[t] \in Critical)

\* Nobody moves the cursor or reorders the ring under a thread that has
\* advanced in switchUrl and has not returned yet (the scoped_lock, and the
\* unlock before randomizeURLs). Without a primary: the poller would.
WalkUndisturbed ==
    [][\A t \in Threads : pc[t] \in Critical \ {"advance"} => UNCHANGED ring]_vars

\* The cluster switchUrl returns is the one isClusterUsable accepted in that
\* very call, not one the cursor was moved to in between. (switchHmUrl probes
\* nothing.)
AcceptedWasProbed ==
    [][\A t \in Threads :
           pc[t] = "return" /\ pc'[t] = "submit" /\ kind[t] # "hm"
               => url'[t] = probed[t]]_vars

\* A switch never sends the request back to the cluster it started with: that
\* is what circling back is compared for.
NeverBackToOriginal ==
    [][\A t \in Threads :
           pc[t] \in Critical /\ pc'[t] = "submit" => url'[t] # originalUrl[t]]_vars

\* A request told "backup clusters exist, but all failed" has seen every
\* cluster of the ring fail it or refused as unusable.
UnavailableMeansAllTried ==
    \A t \in Threads : outcome[t] = "unavailable" => tried[t] = Urls

\* is_running, which start() sets before it makes the thread and stop() clears
\* before the thread has left: cleared, no thread will poll or move the cursor
\* any more, though one may still be returning; set, one does, or start() is
\* about to make it, or has failed to.
PollerFlagInv ==
    phase \in {"connecting", "open"} =>
        (isRunning <=> sched \in Polling \cup {"refused"} \/ ~ServiceFree)

\* A client left on a backup cluster always has a running poller to bring it
\* back to the primary.
BackupHasPoller ==
    phase = "open" /\ (\A t \in Threads : pc[t] = "idle")
        /\ HasPrimary /\ UrlAt(currentUrl) # Primary => isRunning

\* The poller can be started for every failover, not just for the first.
PollerRestarts == phase # "restartCrash"

\* Every call returns: the walk cannot go round the ring for ever, whatever
\* the clusters answer (one application thread).
RequestEnds ==
    \A t \in Threads : pc[t] # "idle" ~> pc[t] = "idle" \/ phase \notin Alive

\* Once the primary is back for good, a poller that is on finds it and stops,
\* but for one whose thread could not be made.
PollerFinishes ==
    healed /\ isRunning ~> ~isRunning \/ sched = "refused" \/ phase \notin Alive

\* ~GPUdb ends: the poller sees the cleared flag wherever it was in its poll.
DestroyEnds == phase = "closing" ~> phase # "closing"

\* One application thread: the ring walk implements the abstract request.
Abstract == INSTANCE RequestFailover
    WITH trying <- [t \in Threads |-> pc[t] # "idle"]
AbstractSpec == Abstract!Spec
=============================================================================
