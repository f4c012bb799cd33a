---------------------------- MODULE HttpConnection ----------------------------
(***************************************************************************)
(* One HTTP request (src/gpudb/Http.cpp): HttpConnection::send over a      *)
(* TcpSocket or an SslTcpSocket.  One thread runs the queue of handlers of *)
(* an io_service until nothing is left to wait for; the operations of the  *)
(* socket race with one deadline timer, which is armed again and again.    *)
(*                                                                         *)
(* The peer, the network and the clock are the environment.  The body of   *)
(* the response is a sequence of numbered chunks, with any number of       *)
(* smaller pieces between them that are not recorded.                      *)
(***************************************************************************)
EXTENDS Naturals, Sequences

CONSTANT MaxChunks   \* bound: numbered chunks of body the peer sends

ASSUME MaxChunksAssumption == MaxChunks \in Nat

VARIABLES
    secure,     \* an https URL: SslTcpSocket
    limit,      \* the request was given a timeout
    pc,         \* "idle", "running" (in m_ioService.run()) or "returned"
    op,         \* the asynchronous operation under way, or "none"
    outcome,    \* what its queued handler will be given, "none" while it is pending
    ready,      \* the handlers queued in m_ioService: "op", "deadline"
    timeout,    \* m_timeout > 0
    expiry,     \* m_deadline.expires_at(): "inf", "future", "past"
    waiting,    \* m_deadline.async_wait is pending
    socketOpen, \* isSocketOpen()
    unopened,   \* connecting found no address it could open a socket for (history)
    mError,     \* m_error of the socket: "none", "timedOut", "aborted", "failed"
    invalid,    \* m_error of the connection is set
    parsed,     \* the status line and the headers were taken over
    stream,     \* chunks in m_responseStream
    body,       \* chunks given to HttpResponse::write
    peer,       \* "silent", "answering", "closed"
    header,     \* the header block the peer has sent: "none", "good", "bad"
    sent,       \* chunks the peer has sent
    received,   \* chunks taken off the wire, by whichever read
    overdue     \* the deadline of the operation under way has passed (history)

timer == <<timeout, expiry, waiting, overdue>>
response == <<invalid, parsed, stream, body>>
remote == <<unopened, peer, header, sent, received>>
vars == <<secure, limit, pc, op, outcome, ready, timer, socketOpen, mError, response, remote>>

Ops == {"resolve", "connect", "handshake", "write", "readHeaders", "readBody"}

Chunks(m, n) == [i \in 1..(n - m) |-> m + i]

Queued(h) == \E i \in DOMAIN ready : ready[i] = h
Pending == op # "none" /\ ~Queued("op")

Init ==
    /\ secure \in BOOLEAN
    /\ limit \in BOOLEAN
    /\ pc = "idle"
    /\ op = "none" /\ outcome = "none" /\ ready = <<>>
    /\ timeout = limit /\ expiry = "inf" /\ waiting = FALSE /\ overdue = FALSE
    /\ socketOpen = FALSE /\ unopened = FALSE
    /\ mError = "none"
    /\ invalid = FALSE /\ parsed = FALSE /\ stream = <<>> /\ body = <<>>
    /\ peer = "silent" /\ header = "none" /\ sent = 0 /\ received = 0

-----------------------------------------------------------------------------
(* What the handlers do with the timer and the socket.                      *)

\* m_deadline.cancel(): a pending wait ends, and its handler is queued.
Cancel(queue) ==
    /\ ready' = IF waiting THEN Append(queue, "deadline") ELSE queue
    /\ waiting' = FALSE

\* setTimeout(): expires_from_now cancels the wait too.
SetTimeout(queue) ==
    IF timeout
    THEN /\ expiry' = "future"
         /\ overdue' = FALSE
         /\ Cancel(queue)
    ELSE /\ ready' = queue
         /\ UNCHANGED <<expiry, waiting, overdue>>

\* The next operation of the socket, with a deadline of its own.
Start(next, queue) ==
    /\ op' = next
    /\ outcome' = "none"
    /\ SetTimeout(queue)
    /\ UNCHANGED timeout

\* checkError, and the handlers that find the socket closed under them.
StopWith(error) ==
    /\ mError' = error
    /\ socketOpen' = FALSE
    /\ op' = "none" /\ outcome' = "none"
    /\ Cancel(Tail(ready))
    /\ UNCHANGED <<timeout, expiry, overdue>>

\* close(), called by the connection.
Close ==
    /\ timeout' = FALSE
    /\ socketOpen' = FALSE
    /\ op' = "none" /\ outcome' = "none"
    /\ Cancel(Tail(ready))
    /\ UNCHANGED <<expiry, overdue>>

Failure == IF outcome = "aborted" THEN "aborted" ELSE "failed"

-----------------------------------------------------------------------------
(* HttpConnection::send and the handlers of its operations, which run when  *)
(* they are first in the queue.                                             *)

Run(h) == pc = "running" /\ ready # <<>> /\ Head(ready) = h
RunOp(o) == Run("op") /\ op = o

\* connect(): the deadline is set, the resolver starts, and the timer waits.
Send ==
    /\ pc = "idle"
    /\ pc' = "running"
    /\ op' = "resolve"
    /\ IF timeout
       THEN expiry' = "future" /\ waiting' = TRUE
       ELSE UNCHANGED <<expiry, waiting>>
    /\ UNCHANGED <<secure, limit, outcome, ready, timeout, overdue, socketOpen, mError,
                   response, remote>>

\* async_connect opens the socket for the first address at once, if there is one
\* and that succeeds.
OnResolved ==
    /\ RunOp("resolve")
    /\ IF outcome = "ok"
       THEN /\ Start("connect", Tail(ready))
            /\ socketOpen' \in BOOLEAN
            /\ unopened' = ~socketOpen'
            /\ UNCHANGED mError
       ELSE StopWith(Failure) /\ UNCHANGED unopened
    /\ UNCHANGED <<secure, limit, pc, response, peer, header, sent, received>>

NotTimedOut == socketOpen

\* handleConnectEvent, onRead and onWrite look at the socket first: a deadline
\* may have closed it after the operation was done. handleConnectEvent takes a
\* socket that could not be opened for one that a deadline closed.
Continue(step) ==
    IF ~NotTimedOut THEN StopWith("timedOut")
    ELSE IF outcome = "ok" THEN step
    ELSE StopWith(Failure)

\* The handshake shares the deadline of the connect.
Handshake ==
    /\ op' = "handshake"
    /\ outcome' = "none"
    /\ ready' = Tail(ready)
    /\ UNCHANGED <<timer, socketOpen, mError>>

\* HttpConnection::onConnect
Write == Start("write", Tail(ready)) /\ UNCHANGED <<socketOpen, mError>>

OnConnected ==
    /\ RunOp("connect")
    /\ Continue(IF secure THEN Handshake ELSE Write)
    /\ UNCHANGED <<secure, limit, pc, response, remote>>

OnHandshake ==
    /\ RunOp("handshake")
    /\ Continue(Write)
    /\ UNCHANGED <<secure, limit, pc, response, remote>>

OnWrite ==
    /\ RunOp("write")
    /\ Continue(Start("readHeaders", Tail(ready)) /\ UNCHANGED <<socketOpen, mError>>)
    /\ UNCHANGED <<secure, limit, pc, response, remote>>

\* consume(): everything read goes to the response.
Consume ==
    /\ body' = body \o stream
    /\ stream' = <<>>

ReadOn == Start("readBody", Tail(ready)) /\ UNCHANGED <<socketOpen, mError>>

TakeLeftoverNot == stream' = <<>> /\ UNCHANGED body \* mutant: forgets what came with the headers
TakeLeftover == Consume

OnReadHeadersEof ==
    /\ RunOp("readHeaders")
    /\ outcome = "eof" /\ socketOpen
    /\ invalid' = TRUE
    /\ Close
    /\ UNCHANGED <<secure, limit, pc, mError, parsed, stream, body, remote>>

\* No status line, no status code, or a line that is no header.
OnReadHeadersBad ==
    /\ RunOp("readHeaders")
    /\ outcome = "ok" /\ socketOpen
    /\ header = "bad"
    /\ invalid' = TRUE
    /\ Close
    /\ UNCHANGED <<secure, limit, pc, mError, parsed, stream, body, remote>>

OnReadHeaders ==
    /\ RunOp("readHeaders")
    /\ outcome = "ok" /\ socketOpen
    /\ header = "good"
    /\ parsed' = TRUE
    /\ TakeLeftover
    /\ ReadOn
    /\ UNCHANGED <<secure, limit, pc, invalid, remote>>

OnReadBodyEof ==
    /\ RunOp("readBody")
    /\ outcome = "eof" /\ socketOpen
    /\ Close
    /\ UNCHANGED <<secure, limit, pc, mError, response, remote>>

OnReadBody ==
    /\ RunOp("readBody")
    /\ outcome = "ok" /\ NotTimedOut
    /\ Consume
    /\ ReadOn
    /\ UNCHANGED <<secure, limit, pc, invalid, parsed, remote>>

\* onRead when the socket was closed, or the operation failed.
OnReadFailed ==
    /\ RunOp("readHeaders") \/ RunOp("readBody")
    /\ ~NotTimedOut \/ outcome \notin {"ok", "eof"}
    /\ StopWith(IF ~NotTimedOut THEN "timedOut" ELSE Failure)
    /\ UNCHANGED <<secure, limit, pc, response, remote>>

PassedAlways == TRUE \* mutant: any call of onDeadline counts as the deadline
DeadlinePassed == expiry = "past"

RearmNever == FALSE \* mutant: waits for the first deadline only
Rearm == mError = "none" /\ timeout

\* onDeadline: called when the deadline passed, and when a wait was cancelled.
\* Closing the socket aborts the operation that is still pending on it.
OnDeadline ==
    /\ Run("deadline")
    /\ IF DeadlinePassed
       THEN /\ socketOpen' = FALSE
            /\ expiry' = "inf"
            /\ IF Pending
               THEN ready' = Append(Tail(ready), "op") /\ outcome' = "aborted"
               ELSE ready' = Tail(ready) /\ UNCHANGED outcome
       ELSE /\ ready' = Tail(ready)
            /\ UNCHANGED <<socketOpen, expiry, outcome>>
    /\ waiting' = Rearm
    /\ UNCHANGED <<secure, limit, pc, op, timeout, overdue, mError, response, remote>>

\* m_ioService.run() returns when nothing is queued, pending or waited for.
Return ==
    /\ pc = "running"
    /\ ready = <<>> /\ op = "none" /\ ~waiting
    /\ pc' = "returned"
    /\ UNCHANGED <<secure, limit, op, outcome, ready, timer, socketOpen, mError, response, remote>>

-----------------------------------------------------------------------------
(* The environment. *)

Completes(result) ==
    /\ Pending
    /\ outcome' = result
    /\ ready' = Append(ready, "op")
    /\ UNCHANGED <<secure, limit, pc, op, timer, mError, invalid, parsed, body, peer, header, sent>>

OpSucceeds ==
    /\ op \in {"resolve", "connect", "handshake", "write"}
    /\ op = "connect" => socketOpen
    /\ Completes("ok")
    /\ UNCHANGED <<socketOpen, unopened, stream, received>>

OpFails ==
    /\ Completes("failed")
    /\ UNCHANGED <<socketOpen, unopened, stream, received>>

\* One address refuses, and the socket cannot be opened for the next one.
ConnectFailsClosed ==
    /\ op = "connect"
    /\ Completes("failed")
    /\ socketOpen' = FALSE /\ unopened' = TRUE
    /\ UNCHANGED <<stream, received>>

\* async_read_until may read past the headers.
HeadersArrive ==
    /\ op = "readHeaders" /\ header # "none"
    /\ \E n \in 0..sent : stream' = Chunks(0, n) /\ received' = n
    /\ Completes("ok")
    /\ UNCHANGED <<socketOpen, unopened>>

BodyArrives ==
    /\ op = "readBody"
    /\ \E n \in (received + 1)..sent :
         stream' = stream \o Chunks(received, n) /\ received' = n
    /\ Completes("ok")
    /\ UNCHANGED <<socketOpen, unopened>>

\* The peer sends less than a chunk, as often as it likes: enough to end a read.
Trickle ==
    /\ op = "readBody" /\ peer = "answering"
    /\ Completes("ok")
    /\ UNCHANGED <<socketOpen, unopened, stream, received>>

EofArrives ==
    /\ peer = "closed"
    /\ \/ op = "readHeaders" /\ header = "none"
       \/ op = "readBody" /\ received = sent
    /\ Completes("eof")
    /\ UNCHANGED <<socketOpen, unopened, stream, received>>

Connected == socketOpen /\ op \in {"write", "readHeaders", "readBody"}

PeerSendsHeaders ==
    /\ Connected /\ peer = "silent"
    /\ peer' = "answering"
    /\ header' \in {"good", "bad"}
    /\ UNCHANGED <<sent, received>>

PeerSendsChunk ==
    /\ Connected /\ peer = "answering" /\ sent < MaxChunks
    /\ sent' = sent + 1
    /\ UNCHANGED <<peer, header, received>>

PeerCloses ==
    /\ Connected /\ peer # "closed"
    /\ peer' = "closed"
    /\ UNCHANGED <<header, sent, received>>

Peer ==
    /\ PeerSendsHeaders \/ PeerSendsChunk \/ PeerCloses
    /\ UNCHANGED <<secure, limit, pc, op, outcome, ready, timer, socketOpen, unopened, mError,
                   response>>

Tick ==
    /\ expiry = "future"
    /\ expiry' = "past"
    /\ overdue' = TRUE
    /\ UNCHANGED <<secure, limit, pc, op, outcome, ready, timeout, waiting, socketOpen, mError,
                   response, remote>>

TimerFires ==
    /\ waiting /\ expiry = "past"
    /\ waiting' = FALSE
    /\ ready' = Append(ready, "deadline")
    /\ UNCHANGED <<secure, limit, pc, op, outcome, timeout, expiry, overdue, socketOpen, mError,
                   response, remote>>

-----------------------------------------------------------------------------

Handler ==
    \/ OnResolved \/ OnConnected \/ OnHandshake \/ OnWrite
    \/ OnReadHeadersEof \/ OnReadHeadersBad \/ OnReadHeaders
    \/ OnReadBodyEof \/ OnReadBody \/ OnReadFailed
    \/ OnDeadline \/ Return

Network ==
    \/ OpSucceeds \/ OpFails \/ ConnectFailsClosed
    \/ HeadersArrive \/ BodyArrives \/ Trickle \/ EofArrives

Next == Send \/ Handler \/ Tick \/ TimerFires \/ Network \/ Peer

\* Queued handlers run, and time passes.  Neither the network nor the peer is
\* obliged to anything.
Spec == Init /\ [][Next]_vars /\ WF_vars(Handler) /\ WF_vars(Tick) /\ WF_vars(TimerFires)

-----------------------------------------------------------------------------

TypeOK ==
    /\ {secure, limit, timeout, waiting, socketOpen, unopened, invalid, parsed, overdue} \subseteq BOOLEAN
    /\ pc \in {"idle", "running", "returned"}
    /\ op \in Ops \cup {"none"}
    /\ outcome \in {"none", "ok", "eof", "failed", "aborted"}
    /\ ready \in Seq({"op", "deadline"})
    /\ expiry \in {"inf", "future", "past"}
    /\ mError \in {"none", "timedOut", "aborted", "failed"}
    /\ stream \in Seq(Nat) /\ body \in Seq(Nat)
    /\ peer \in {"silent", "answering", "closed"}
    /\ header \in {"none", "good", "bad"}
    /\ sent \in 0..MaxChunks /\ received \in 0..sent

(* send() that returns without an exception leaves the whole response: the    *)
(* headers were taken over, and the body is every chunk the peer sent before  *)
(* it closed, in order and once, however reading the headers, reading the     *)
(* body, the end of file and the deadline were interleaved.                   *)
NoVerdict == mError = "none" /\ ~invalid
ResponseIsWhole ==
    pc = "returned" /\ NoVerdict =>
        parsed /\ peer = "closed" /\ body = Chunks(0, sent)

(* An operation is only reported as timed out when its own deadline passed,   *)
(* or when connecting could not open a socket, which the code takes for a     *)
(* timeout, with or without one: onDeadline is also called for every wait     *)
(* that setTimeout cancelled, and for deadlines of operations long done.      *)
TimedOutIsLate == mError = "timedOut" => overdue \/ unopened

(* While an operation is under way with a timeout, the timer is never lost    *)
(* and never doubled: one wait is pending or one call of onDeadline queued.   *)
DeadlineCalls == {i \in DOMAIN ready : ready[i] = "deadline"}
Guarded ==
    pc = "running" /\ timeout /\ op # "none" /\ mError = "none" =>
        IF waiting THEN DeadlineCalls = {}
        ELSE \E i \in DOMAIN ready : DeadlineCalls = {i}

(* With a timeout, send() ends, unless the peer goes on and on sending a      *)
(* little before each deadline: every read has a deadline of its own.         *)
SendEnds == (limit /\ pc = "running" ~> pc = "returned") \/ []<><<Trickle>>_vars
=============================================================================
