# Verification of the Kinetica C++ API

TLA+ models of the client library in `src/gpudb`, the TLC configurations that
check them, and proofs for TLAPS. File and line numbers are those of the
repository beside this directory.

## The system and its parts

| part | source | state | operations | what is hard | modelled in |
|---|---|---|---|---|---|
| HA failover and failback | `GPUdb.cpp`, `FailbackPollerService.cpp` | list of clusters, an order of its indices, a cursor, a mutex, the poller's flag and thread | requests to head node and host manager, `switchUrl`, `switchHmUrl`, `start`, `stop`, `poll`, destructor | threads share the cursor; network probes under the lock; a background thread that writes without it; exceptions that cross threads | `HAFailover`, `RequestFailover` |
| HA ring construction | `GPUdb.cpp` (`init` and what it calls) | `m_urls`, `m_hmUrls`, `m_urlIndices`, the primary | `handlePrimaryURL`, `getHAringHeadNodeAddresses`, `updateHostManagerUrls`, `randomizeURLs` | three sources merged by functions that run twice | `HARing` |
| multi-head ingestor | `GPUdbIngestor.cpp`, `WorkerQueue` | a queue per worker, counts, error list, error mode | `insert` (one, many), `flush`, `getErrors` | partial failure, lost answers, retries | `Ingestor` |
| record keys and routing | `GPUdbMultiHeadIOUtils.cpp` | a key buffer, a list of workers | build, hash, route, expression; calendar arithmetic | which columns make the key, nulls, leap cycles, years before 1900 | `RecordKeys`, `Calendar` |
| record retriever | `RecordRetriever.cpp` | options, queues, routing table | constructor, `setOptions`, `getRecordsByKey` | options kept between calls; must look where the ingestor stored | `Lookup` |
| known types cache | `GPUdb.cpp` | map from type to decoder | `getDecoder`, `addKnownType`, `addKnownTypeFromTable`, `setDecoderIfMissing` | check, unlock, fetch, lock, check again | `KnownTypes`, `AtomicCache` |
| HTTP client | `Http.cpp` | a socket, a deadline timer, a queue of handlers, a response | resolve, connect, handshake, write, read, parse | timer against completion; end of file anywhere | `HttpConnection` |
| Avro encoding | `Avro.hpp`, `Avro.cpp` | a list of tasks and errors | partition among threads, run, collect errors | boundaries of the partitions, errors in any order | `AvroExecutor` |
| types, records, options, headers | `Type.cpp`, `GenericRecord.cpp`, `GPUdb.cpp` | plain containers | get, set | little: sequential | not modelled |
| generated functions and messages | `GPUdbFunctions.*`, `protocol/` | none | one `submitRequest` each | nothing of their own | not modelled |

An application thread calls a `GPUdb` object (directly, or through an ingestor
or a retriever). Every named endpoint goes through
`submitRequestRaw(endpoint)`, which takes the current cluster under
`m_urlMutex`, sends the request outside it, and on a connection-level failure
calls `switchUrl`. The ingestor calls the workers' URLs directly, with no
failover. `switchUrl` starts the poller, whose thread has a `GPUdb` object of
its own for the primary and writes the cursor of the shared one.

## Modules

**`HAFailover`.** One object, `Threads` application threads, `N` clusters, a
`Primary` (an index of the ring, or `N` for none). `urlIndices` and
`currentUrl` are `m_urlIndices` and `m_currentUrl`; `urlMutex` is the holder of
`m_urlMutex`; `pc`, `kind`, `url`, `originalUrl` are a thread's place and
locals; `isRunning` and `sched` are the poller's flag and the place of its
thread; `phase` is the life of the object. `tried`, `probed`, `outcome` and
`healed` are histories. One action stands for the code between two points at
which another thread can interfere: `Begin` reads the cursor under the lock;
`SubmitEnds` and `SubmitFails` are the network call;
`SwitchEnter` takes the lock; `Advance` moves the cursor; `GiveUp`, `GoOn` and
`GoOnHm` compare what it points to now with where the request began, a step of
their own because the poller may write in between; `ProbeUsable` and
`ProbeUnusable` are `isClusterUsable`, a network call under the lock; `SwitchReturn`,
which reads the cursor once more, and `ShuffleAndFail` end the walk.
`StartPoller` is `start()` up to the flag, `CreateThread` and `CreateRefused` are the
making of the thread, which the system may refuse; `service_mutex` is held from the
one to the other (`ServiceFree`). `Poll...` are the poller's loop, call by call:
`PollStop` clears the flag, and `PollEnd` is the thread's leaving.
The write `m_currentUrl = 0` does not take `m_urlMutex`, so `PollReset` may also be lost
to the read-modify-write of an advance. Two outcomes end the process: a
`std::thread` destroyed unjoined (`restartCrash`) and an exception that leaves
the poller's thread (`pollCrash`). What a cluster answers is a free choice at
every call, which stands for clusters that go down, drain and come back at any
time.

**`RequestFailover`** is the abstract request: tried at one cluster after
another, never twice at one, given up only when all were tried. `HAFailover`
implements it for one thread (`AbstractSpec`), with `trying` mapped to "the
thread has a call under way".

**`HARing`** builds the ring, from any user list, primary and server list.
`HandlePrimary` is `handlePrimaryURL` as an operator, for it runs twice.
Its result is the initial state of `HAFailover`: a ring without repetition, an
order with index 0 first when there is a primary. The primary need not be at
index 0 (see the findings), and `HAFailover` lets `Primary` be any index.

**`Ingestor`**: `queues` are the worker queues, `wire` the arguments of the
private `flush`, `remaining` the part of a vector that `insert` has not reached,
`nextQueue` the iterator of the public `flush`. `insert` of one record is
`insert` of a vector of one. The database is external: `BadSets`, `Accepted`, `Store`,
`Inserted` and `Updated` say what it may answer, after the documentation in
`protocol/insert_records.h:238-275`. The `table` has no primary key, or one, and then
replaces or skips a record it has, so that a retry after a lost answer is not
counted as an insertion. `AnswerArrives` takes the counts; the errors of the answer then go
to the list one by one (`AddError`, `AnswerDone`), and `GetErrors` of another thread may come
between two. The worker that a shard key routes to is
the constant `Home`. Where each record is, is kept in history variables.

**`KnownTypes`.** `knownTypes` is `m_knownTypes`; each critical section of
`m_knownTypesMutex` is one step, for nothing blocks inside. A call that misses is
away (`pc` is `get` or `setIfMissing`) while it asks the server or builds a
decoder, and comes back with `StoreNew` or `StoreFound`; `addKnownTypeFromTable`
is away while it asks for the table's type. Which decoder is which matters, not
what it decodes: the client's are numbers, the application's model values.
**`AtomicCache`** is what callers may expect: every call takes effect at once.

**`HttpConnection`** is one `HttpConnection::send()`. `ready` is the queue of the
`io_service`: the completion of the one socket operation (`op`, with `outcome`,
what its handler will be given) and calls of `onDeadline`. `On...` are the
handlers; each runs when it is first in the queue, and nothing runs beside it.
`Start` sets the deadline and begins the next operation: `expires_from_now`
cancels the wait, and a cancelled wait queues its handler all the same. When
`onDeadline` closes the socket, a pending operation is queued as aborted, but one
whose handler is already queued keeps its result, and finds the socket closed
(`NotTimedOut`). So does the handler of a connect that could open no socket (`unopened`:
at once in `OnResolved`, or at a later address in `ConnectFailsClosed`). The network, the
peer and the clock are external. The body is a sequence of numbered chunks, of which the
headers' read may take any first part; a read may also end with less than a chunk
(`Trickle`), as often as the peer likes.

**`Calendar`**: the two routes of a day into a key, as pure functions, and as
reference a walk through the calendar one day at a time. **`RecordKeys`**: the
columns of the two key builders, the key, its shard, the expression of a lookup,
the list of workers, as pure functions; the hash is a constant operator.
**`Lookup`** composes them: one table, filled by a `GPUdbIngestor` and read by a
`RecordRetriever`, each of which works out for itself where a record is.
`getRecordsByKey` is a step, and its return, after which `asked`, `request` and
`answer` are forgotten, another. Where the database puts a record that comes to
the head node, and what it answers, is external (`Placed`, `Found`); an expression that a
quotation mark in a key has cut short may be answered with anything (`Answers`). A record here
is stored or not: what becomes of it between `insert` and the server is `Ingestor`,
whose constant `Home` is the `Route` of this module.

**`AvroExecutor`**: `decode`, `decodeAny` and `encode` with several threads, and
`Executor::run`. The tasks interleave record by record. Which records are bad is
chosen at the start.

The modules `MC_...` give the constants for TLC. `HAFailover_proofs`, `HARing_proofs`,
`Ingestor_proofs`, `KnownTypes_proofs`, `HttpConnection_proofs`, `AvroExecutor_proofs`,
`Lookup_proofs` and `Calendar_proofs` hold the theorems.
Operators commented `mutant` are plausible bugs: each, put in the place of the definition
beneath it, makes a run fail, which shows that the property depends on that code.

## Runs

| run | instance | shows |
|---|---|---|
| `failover_threads` | 2 threads, 3 clusters, no primary | the lock covers the whole walk on every path; a walk is not disturbed; what is returned was probed; never back to the start |
| `failover_request` | 1 thread, 4 clusters | the request implements `RequestFailover`, ends, and gives up only when all were tried |
| `failback` | 1 thread, 3 clusters, primary at 0 | a cleared flag means no thread that may still move the cursor; a healed primary is found; the destructor ends |
| `ring` | 3 clusters, lists of up to 3 URLs | the lists of the ring agree, the named cluster stays, nothing is listed twice, position 0 stays the cluster the constructor put first |
| `ingest` | 3 records, 2 workers, batch 2, vectors up to 3, 2 attempts, with or without a primary key | every record is in exactly one place; queues stay below the batch size; no record is counted twice; calls end |
| `known_types` | 2 threads, 2 types, 2 registered decoders, 3 built ones | registrations are never overwritten by a fill, one decoder for all, calls are atomic |
| `http` | up to 3 chunks of body, TLS or not, a timeout or none | what `send()` returns is whole; only what is late, or opened no socket, is called timed out; the timer is neither lost nor doubled; it ends unless the peer trickles for ever |
| `calendar` | every day of 1000 to 2900 | the two routes of a day into the key agree with the calendar and each other; packed dates are in order |
| `executor` | up to 6 records, 0 to 4 threads, any records bad | the result is that of one thread; no record is shared, or touched after the return |
| `lookup` | 9 types, 9 servers, up to 2 records | stored with the owner of the key; found again; no option leaks; no index outside the queues |
| `poller_restart` | 1 thread, primary | violated: a second failover ends the process |
| `lost_failback` | 1 thread, 2 clusters, primary at 0, head node requests | violated: a failover between the poller's reset and its stop is left on a backup with no poller |

Bounds. Three clusters are the fewest with a cluster between the start of a
walk and its end that is neither; four let the order matter. Two threads are
the fewest that race; the properties of `failover_threads` speak of one thread
and the others, who are alike. The primary is at index 0, where the code means
it to be. Lists of three URLs over three clusters include repetition, the
named cluster missing, and swaps of the middle. For the ingestor, batches of
two and vectors of three make a batch fail in the middle of a vector with a
record before and a record after, one queue fill up while another is left half
full; two attempts give one retry of each record. Two threads are what it takes to
miss one type at the same time, a second type and a second registered decoder
what it takes to mix them up, and the third built decoder fills an entry that was
removed after both types had one. Three chunks are a part read with the headers, a
part read after them and a part not yet sent. The calendar has no bound of its own:
1000 to 2900 is what `process_date` accepts. Six records among four threads include
parts of two and of one record, fewer records than threads, and an even division.
The types of `lookup` have each relation of the two keys the server allows (none,
one of them, one in the other) and track tables, which the builder shards by
TRACKID; the servers have a regular expression that picks another address, one that
accepts none, a rank without address, a rank 0 in the routing table, a replicated
table and no multi-head at all. Their columns hold each kind of value that a key treats
in its own way, texts with a quotation mark among them. `HashOf` is any function with values of both signs.
Two records are one to be found and one to be told from it.

Fairness. `FairSpec` lets every thread that can run go on, and every network
call end. The second is an assumption on the environment: the default timeout
of a request is 0, none, and then it rests on the peer. Nothing obliges the
application to begin a request or to destroy the object, or the primary to come
back. With two threads `RequestEnds` is not claimed: threads that fail over by
turns can carry the cursor past each other's start for ever.
In the ingestor only a call under way is fair. In `HttpConnection` a queued handler
runs, a set deadline passes and a waiting timer fires; the network and the peer are
obliged to nothing. So `SendEnds` is claimed with a timeout only, and only if the peer stops
trickling at some time, for every read has a deadline of its own (`Http.cpp:55-63`).

## What is proved

Every safety invariant and every action property of the passing runs is a theorem for all
values of the constants, and both refinements are.
Each proof has an inductive invariant, checked with TLC on the run's instance first, that
holds at the start, is kept by each action (one lemma or step per action) and implies the
properties. The assumptions are the ASSUMEs of the module, which TLC evaluates on
every run, and the hypotheses named below.

**`HAFailover_proofs`**, for all sets of threads, ring sizes, primaries and options:

* `TypeCorrect`: `[]TypeOK`, by `TypeInv == TypeOK /\ UrlInv`. `UrlInv` is needed
  because `Finish` and the walk use the thread's URLs as members of the ring. Of the
  order it says that index 0 stays first when there is a primary, whichever index that has.
* `MutexCorrect`: `[]MutexInv`; inductive on its own with the types.
* `PollerFlagCorrect`: by `PollerInv`, which adds what holds between the two steps of `start()`
  (`CreatingInv`): the flag is set, and no thread is there that may still poll. With
  `MutexInv` one thread at most is there, and `service_mutex` keeps `stop()` away.
* `WalkUndisturbedCorrect`, `AcceptedWasProbedCorrect`, `NeverBackCorrect`, for a
  ring without a primary: by `WalkInv`, which says that inside the walk the
  cursor is at the probed cluster, and not at the original one. Each step of
  another thread leaves the ring alone because by `MutexInv` it cannot be in the
  walk too. With a primary the poller's unlocked write breaks all three.

* `DestroyProgress` and `FailbackProgress`: see "Progress" below.

Assumed: the constructing thread is a thread, the ring is not empty, the primary is an
index or `N`.

In the same module, for a ring of any size, with the hypotheses that there is one
application thread (`Threads = {Main}`) and no primary:

* `UnavailableCorrect`: a request told that all clusters failed has tried them all.
* `AbstractCorrect`: `HAFailover` implements `RequestFailover`, step by step.

Both come from `RequestInv`, and so does `RequestProgress` ("Progress" below). `UnavailableMeansAllTried` speaks of the end of the walk
only; the invariant says what was done half way: there is a position `p` at which the
call began, and the clusters tried are those at the positions of `Arc(p, currentUrl)`, from
`p` round the ring to the cursor. One advance makes the arc one longer (`ArcGrows`), and
when the next cluster is the original one, the arc is the ring; as the order of the
indices is a permutation (`OrderIsWhole`), the tried clusters are then all. The two
hypotheses are needed: another thread or the poller moves the cursor, and then the
property fails (see the findings).

**`HARing_proofs`**, for any set of clusters and lists of any length: `ConsistentCorrect`,
`GivenClusterCorrect`, `NoDuplicatesCorrect`, `HomeClusterCorrect`. `RingInv` says what holds
after each stage of the constructor; its part `BuiltInv` is needed because
`handlePrimaryURL` runs a second time on what the first run and the server left:
`PrimaryHandled` is the lemma on one run, for any list, and `BuiltInv` what the first
leaves to the second (the cluster in use is first until the server's list is taken
over). Assumed: `NoCluster` is not a cluster.

**`Ingestor_proofs`**, for all sets of records, numbers of workers, shards,
batch sizes and insert options, and with no bound on vectors or retries but the
constants of the model, by one invariant `IngestorInv`:

* `BatchCorrect`: `[]QueueBelowBatch`; inductive with the types.
* `HomeCorrect`: `[]StoredAtHome`, by `HomeInv`: queues and the wire hold only
  records of their own worker, for what is stored comes from there.
* `HolesCorrect`: `[]HolesOnlyInErrorMode`: the answer that keeps a batch out for
  one incorrect record lists an error, and that turns error mode on.
* `SeparateCorrect` and `CountCorrect`: a record is in one of five places at most
  (`SeparateInv`: vector, one queue, wire, confirmed, handed back). It is
  inductive because what the application may give again is only what was handed
  back, and vectors have no duplicates; so what an answer confirms was not
  confirmed before. With a primary key `TableInv` is needed: what is in the table is what was
  confirmed or stored unheard, so that what the answer calls inserted was neither.
* `OnePlaceCorrect`: `[]InOnePlace`, the whole of it. To `SeparateInv` come `PlaceInv`
  (the list of errors and the holes are apart from each other and from what is in use, and
  a record that was given is in use or there), `OnceInv` (no queue and no batch has a record
  twice) and `CallInv` (the vector and the wire are empty when no call needs them; without
  it, the next call would overwrite the records in them).
* `FlushCorrect`: by `FlushInv`, the queues before the iterator stay empty.

Assumed: there is a worker, a record has one or no home, the batch size is positive, the
bounds are numbers. First come lemmas on the records in a sequence (`ToSetAppend`,
`ToSetTail`, `AppendOnce`, ...).

**`KnownTypes_proofs`**, for all sets of threads, types and decoders:
`RegisteredCorrect`, `OneDecoderCorrect` and the refinement `AtomicCorrect`. The
lemma `Effects` says first that every step is, for the cache, a fill of a missing
entry, a hit, a failure, a registration or nothing; each theorem then has five
cases. Atomicity follows because a fill is stored only if the entry is still
missing at the second look: that look is the instant at which the call takes
effect. Assumed: no pointer is both null and a decoder, or both the client's and the
application's.

**`HttpConnection_proofs`**, for a response of any number of chunks, with or without TLS
and timeout, by `HttpInv`:

* `TypeCorrect` and `GuardedCorrect`: by `TimerInv`, which ties the queue of the
  `io_service` to the operation and the timer: the queue is one of five (`Queues`, which
  `TypeCorrect` states beside the types: at most the completion and one call of `onDeadline`, in either order), a wait is pending only
  beside an operation and never beside a queued `onDeadline`, and with a timeout an
  operation has one of the two.
* `LateCorrect`, by `LateInv`: a socket found closed under an operation was closed by a
  deadline that had passed, or never opened.
* `WholeCorrect`, by `BodyInv`: what is in the body and then in the stream is what was
  taken off the wire, in order, and the stream is empty whenever the next read begins.

**`AvroExecutor_proofs`**, for batches of any size, any number of threads and any bad
records:

* `PartsCoverBatch`: the parts that `Avro.hpp` cuts begin with the first record, end with
  the last, and follow each other without gap or overlap, with fewer records than threads
  too. `PartOfRecord` and `PartsDisjoint` follow: each record is in exactly one part.
* `TypeCorrect`, `SequentialCorrect`, `NoSharedRecordCorrect`: by `ExecInv`. Its part
  `TaskInv` says of each task that all below its position is converted once and without an
  error, and all above is untouched; so the first task that failed has the first bad
  record, whatever the order in which the tasks end.

**`Lookup_proofs`**, for any types and servers the assumptions describe, any hash and any
number of records and lookups:

* `IngestorRoutesByShardKey`: the builder that `GPUdbIngestor` keeps has the columns of
  the shard key. `operator==` compares only the types of the columns, and this is enough
  because the shard key is a part of the primary key (`TypesAssumption`): two ascending
  lists of columns, one inside the other and of one length, are the same.
* `StoredByOwnerCorrect` and `LookupCorrect`, on the condition `Described` that every rank has
  an address and every shard a rank (the findings say what happens without), `RequestCorrect`, `NoIndexOutsideCorrect`: by
  `LookupInv`, in which the four hold each other up: a lookup finds what is stored because
  it is stored with its owner. `ReadyInv` keeps what the constructors compared,
  `OptionsInv` the options given last, `CopiesInv` the copies of a replicated table.

Assumed: `ServersAssumption` (a server's lists are sequences, its groups not empty),
`TypesAssumption` (of a shard key beside a primary key, and that a track table has
columns), `HashAssumption` (a hash is an integer), `NothingAssumption` (the value
for "no lookup" is no lookup).

**`Calendar_proofs`**, for any span of years inside 1000 to 2900 that holds 1970:

* `KeyFieldsCorrect`: `[]KeyFieldsAgree`, by `WalkInv`: the day counted by the walk is the
  `days_since_epoch` of its date, the day of the year is the one the code computes, and the
  day of the week follows from the count. The walk moves each by one, so the proof is that
  the closed forms of the code move by one too, over the ends of months and years
  (`DayOfYear`, `LengthsAgree`).
* `RoutesAgree`: for every date of every year from 1 on, the division into cycles of 400,
  100, 4 and 1 years that `create_timestamp_from_epoch_ms` makes gives the fields that
  `process_date` has. The hard case is the last day of a cycle, where the quotient is one too
  large and the code takes it back. It needs no walk and no bound above.
* `DateKeyIsOrder` and `DateKeyCorrect`: of any two dates with their fields in range the
  earlier one has the smaller key, and every key fits in 32 signed bits. The run compares
  neighbouring days only.

Assumed: `YearsAssumption`. That `month` and `day` of a date are in range is what
`process_date` tests before it packs them.

### Progress

The prover has no rule for fairness or ENABLED, so the five liveness properties stay with
TLC. What makes them true can be proved: a number that every step of the call lowers and no
step of anyone else raises, so that the call cannot go on for ever by going on. The
liveness then rests on the one thing left, that the scheduler and the network let it go on.

* `RequestProgress` (for `RequestEnds`; one application thread and no primary):
  `WalkLeft` counts six for each cluster not yet tried, and the place within the six. A
  constructor and every request end within `6N + 1` of their own steps. With two threads
  there is no such number, and `RequestEnds` is false.
* `DestroyProgress` (for `DestroyEnds`): with the flag cleared, the poller `~GPUdb` joins is
  at most five steps from its end; it needs `ClosingInv`, that nobody sets the flag again.
* `FailbackProgress` (for `PollerFinishes`): once the primary is back for good, a poller
  that is on is at most six steps from clearing its flag, and no failover sends it back. That
  the client is then on the primary is another matter: see finding 2 and `PollReset`.
* `CallProgress` (for `CallEnds`): `insert` of `n` records has at most `3n + 1` steps,
  `flush` `3W + 1`, and one more for each error an answer brings, of which there are no more
  than a batch has records; no failure brings a call back to a record or a queue it has passed.
* `NeverStuck` and `SendProgress` (for `SendEnds`): with a timeout, while `run()` has not
  returned, a handler is queued, the deadline of the operation is still to pass or its timer
  to fire, or nothing is left. `DeadlineInv` is needed: an operation without a deadline is
  one whose socket is closed and whose completion is known. Each handler, passing deadline
  and timer lowers `SendLeft`, which nothing of the network or the peer raises but a read of
  less than a chunk, by five: for a response of `n` chunks at most `5n + 34` of them, and five
  for each such read.

Only model-checked: the five liveness properties themselves (`RequestEnds`, with a primary
too, `PollerFinishes`, `DestroyEnds`, `CallEnds`, `SendEnds`).

## Findings

1. `FailbackPollerService.cpp:119`: the poller cannot be started twice; the
   second failover after a failback terminates the process (`poller_restart`).
2. `FailbackPollerService.cpp:112`: a failover that comes between the poller's reset of the
   cursor and its `stop()` starts nothing, for the flag is still set, and then the flag
   is cleared: the client is on a backup, and no poller will bring it back
   (`lost_failback`).

The models also show the following; no run is kept for them, and each can be had by
adding the formula given to a configuration.

* `GPUdb.cpp:1603`: with two threads a request can be told that all backup clusters
  failed although it did not try them, for the other thread moved the cursor on.
  (`UnavailableMeansAllTried` in `failover_threads.cfg`.)
* `GPUdb.cpp:1583`: `throw new GPUdbException` is caught by nobody; in the poller's
  thread, when the primary fails between two queries of one poll, it terminates the
  process. (`phase # "pollCrash"` as an invariant of `failback`.)
* `GPUdb.cpp:454`: the early return of `handlePrimaryURL`, when the primary's text is
  that of the URL parsed from it before, leaves the primary where the server listed
  it, while `GPUdb.cpp:783-785` counts on index 0. `HomeCluster` says what is left: position 0
  is then the first cluster of the server's list, and stays it.
  (`pc = "done" /\ primaryPtr # NoCluster => urls[urlIndices[1]] = primaryPtr` in `ring.cfg`.)
* `FailbackPollerService.cpp:102`: the unlocked reset of the cursor is lost if it lands
  between the load and the store of the cursor in `switchUrl` (the second alternative of
  `PollReset`).
* `GPUdb.cpp:1637`: a failed host manager request moves the shared cursor to a cluster
  nobody probed, and starts no poller. (`BackupHasPoller` with `Kinds = {"hm"}`.)
* `FailbackPollerService.cpp:118-119`: if the system refuses the thread, the flag stays set,
  and no later failover tries again. (`sched # "refused"` in `failback.cfg`.)
* `GPUdbIngestor.cpp:250`: `flush()` in error mode clears the queues and returns
  normally. (`[][pc = "flush" => UNCHANGED lost]_vars` in `ingest.cfg`.)
* `GPUdbMultiHeadIOUtils.cpp:2952`: the expression of a lookup has a double with the
  six digits of a stream's default, so that a record whose key has more is not found.
  (`LookupFindsStored` without the condition on `"fine"`.)
* `GPUdbMultiHeadIOUtils.cpp:2927-2932`: the text of a key is put between quotation marks as
  it is; one of its own ends it, and the server reads another expression.
  (`LookupFindsStored` without the condition on `"quoted"`.)
* `GPUdbIngestor.cpp:293`: with a primary key, a record whose first answer was lost is never
  counted as inserted; given again it counts as updated, or, if records are skipped, in neither
  number. (`countInserted = Cardinality(acked)` in `ingest.cfg`.)
* `GPUdbMultiHeadIOUtils.cpp:88-97`: without a regular expression a rank that has no
  address is passed over, and each later rank is taken for the one before it; only
  a table that names the last rank is then refused. (`StoredByOwner` with
  `Described` reduced to its second and third part.)
* `Http.cpp:116-118`: a connect that could not open a socket, or had no address, is reported
  as timed out, without a timeout too. (`mError = "timedOut" => overdue` in `http.cfg`.)
* `Http.cpp:55-63`: each read sets a deadline of its own, so that a peer that sends a little
  before each keeps `send()` for ever, whatever the timeout.
  (`limit /\ pc = "running" ~> pc = "returned"` in `http.cfg`.)
* `Http.cpp:870-886`: the length that the headers promise is never compared, so a
  response cut short by the peer is taken as whole: `ResponseIsWhole` says "all that
  was sent", not "all that was meant". `Http.cpp:717`: the buffer with the request's
  headers is a local of `onConnect`, and is gone before `async_write` is done with a
  request that is not written at once.
* `Avro.cpp:25-34`: if the system refuses one more thread, `run` leaves with an
  exception while the threads it made go on with pointers into its frame.

## Abstractions

* A cluster is an index: ports, paths and the text of URLs are left out, but for
  the one comparison of texts in `handlePrimaryURL`.
* One HTTP request is one exchange that ends with an answer, the request's own
  error, or a failure that calls for another cluster. Which messages are triggers
  is not modelled.
* The cursor is read at each use that a write of the poller can come before; uses that the
  compiler may serve from an earlier read find what one of these reads would.
* The poller's exception path that skips the sleep is merged with the one that
  sleeps: both go back to the head of the loop.
* `setHostManagerPort`, `updateHostManagerPort` change only ports.
  `FailbackPollerService::restart` has no caller.
* The ingestor's warnings hold no records and are left out. With a primary key, each record
  has a key of its own: a record only ever replaces its own first copy.
* A request's bytes, the headers' text and the response's buffer are not modelled, but
  for whether the header block can be understood. What `Trickle` adds to the body is not
  recorded: the chunk it is a part of counts when it is whole. `asio` runs handlers in the order
  they were queued, in the one thread that called `run()`.
* Values of a key are null, zero, one, a double too long to print, a text with a
  quotation mark, a text that does not parse. The key's bytes are numbers: that equal bytes come from equal values is what
  is modelled, not how eight bytes are laid out. The time of day of a timestamp, which
  both routes of `Calendar` copy, is left out.
* The server takes a shard key beside a primary key only if it is a part of it, which
  is what makes the comparison of column types in `operator==` enough
  (`TypesAssumption`).

## Not modelled

* `GPUdbFunctions.*`, `protocol/*`: about nine tenths of the lines of this repository. They
  are generated: a structure with its encoding for each message, and for each
  endpoint one call of `submitRequest`. They keep no state and decide nothing, and the
  one thing they do is `HAFailover`'s `Begin`. So the map can cover only a small share of
  the repository's lines, though it covers most of the hand-written control.
* `Type`, `GenericRecord`, `ColumnProperty`, the client's options, credentials and HTTP
  headers: containers with a getter and a setter for each field.
* `HttpUrl`, the texts of keys (dates, decimals, addresses, UUIDs): regular expressions
  and casts. `MurmurHash3`, the examples and the build files: vendored or demonstration.

## Plan

The models are done, and so are the proofs planned for them: all safety and action
properties of the passing runs, both refinements, and the progress behind the liveness
properties. What could still be proved is less than what is:

1. `RequestFailover` with a primary, as long as the poller sleeps: the walk then begins and
   ends as it does without one.
2. `RequestProgress` with a primary. The poller's one write of the cursor can come
   in the middle of a walk, and the number would have to allow for it.
