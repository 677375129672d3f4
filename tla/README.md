# Verification of server_http_lib

This directory is a TLA+ development for the C++ library under `src/http`: an
HTTP/HTTPS server on asio, a blocking HTTP client, a MySQL connection pool, a
string cache and a scheduler, and for the event loop of the vendored asio that the
server runs on. It holds one module per component, modules that compose them, the
configurations that check each on a small instance with TLC, and proofs, checked
by TLAPS, of what holds for every instance. `PROJECT.json` maps each definition to
the lines it models.

    tlc -workers 2 -config MCLRUCache.cfg MCLRUCache      # one run
    tlapm LRUCacheProofs.tla                              # one proof module

Paths below are relative to the repository's `src/http` unless they say otherwise.

## 1. Inventory

| component | state | operations | hard part |
|---|---|---|---|
| `LRUCache` | hash map, recency list, byte counter, mutex | set, get, contains, ttl_left, erase, clear, prune | several clock reads in one operation, iterators kept over an erase, byte accounting |
| MySQL pool (`mysql_wrapper`) | deque of connections, generation, mutex and condition, schema; per thread a call stack | query, query_get, reconnect, set_schema, destructor | threads that share connections outside the lock, waits with a deadline, rebuild and retry, recursion |
| server session (`ssl_session`, `Server.cpp`) | read buffer, parser flags, response buffers, keep-alive timer | handshake, read, parse, interim response, process, write, time out | pipelining, arbitrary cuts, a timer handler on another thread |
| HTTP client (`http_common`) | header and body being read | send, get, post, request | framing, cuts, end of stream anywhere, silence |
| `Scheduler` | none of its own; timers in the io_context | calendar points, schedule_at, schedule_after | calendar arithmetic, clocks read twice |
| routing (`process_request`, `add_endpoint`) | endpoint map, method handlers | add_endpoint, add_handler, look up, guard (secure handler), handler, exceptions | guards on two levels with different rules, the order of registrations |
| `Server`, worker threads | acceptors, threads, io_context | run, accept, destructor | blocking handlers occupy the threads; failing accepts; shutdown |
| `ServerApp` | owns the parts above | constructor, run, stop, destructor | order of destruction while handlers still run |
| asio's event loop (`scheduler.ipp`, `epoll_reactor.ipp`, `posix_event.hpp` under `src/asio/detail`) | queue of operations, counter of work, condition variable, edge-triggered descriptors; per thread a private queue and a private counter | run, post, start an operation, close, stop | lost wake-ups and events, a counter changed in pieces, an end that comes too early or never |
| `RequestOutgoing`, `RequestIncoming`, `Request` | maps of names and values | parse or compose one message | an object sent twice |
| `Params`, `Response`, handlers, `Renderer`, utils, `Log`, `uuid4`, exceptions | little or none | formatting, one read or query | none, apart from the generator `uuid4` shares |

How they interact. `ServerApp` owns a `Server`, a `MysqlWrapper`, a `Scheduler` and
possibly an `LRUCache`. The `Server`'s acceptors create sessions; every session and
every timer is a chain of completion handlers on one io_context, which
`count_threads` workers and the thread of `ServerApp::run` execute. A session has
no strand: its chain has one operation pending at a time, but the handler of its
keep-alive timer can run beside it. `process_request` calls the application's
handler on that thread, which may block in `query` (the pool) or in
`http::request` (the client), and share an `LRUCache` with the other threads. The
mutexes of the cache, the pool and the log are the only locks, and no code holds
two of them except the pool, which logs.

What makes each part correct:

* cache: the map and the list are two views of one set; the counter is exact; the
  capacity holds whenever the mutex is free; only the least recently used entry of
  a cache over its capacity, or an expired one, leaves unasked;
* pool: a connection has one owner; the deque holds only the current generation; no
  wakeup is lost; the pool does not grow; one failure of the server costs no more than
  the query whose connection it refused; every query returns;
* session: the n-th request processed is the n-th one sent, byte for byte; answers
  are in order; nothing after `Connection: close`; a complete request is not
  forgotten; the socket is closed in the end;
* client: the body is the payload, however it was cut; the call returns;
* scheduler: the point returned is the next one; a job runs, and not before its time;
* routing: what the guard of an endpoint refuses does not run, whatever was registered
  in whatever order;
* request: the length it declares is that of its body;
* server: each acceptor always has one accept on its way; the handlers of a session
  follow each other although they run on any thread; run() returns after stop() and
  only then; nothing runs when what it uses is destroyed;
* event loop: no wake-up and no event is lost; the counter of work is exact; the
  loop ends when it is stopped or nothing is left, and not before.

The complete list of what is hard to test, with lines, is under `hazards` in
`PROJECT.json`.

## 2. Plan

Done, in this order:

1. `LRUPolicy` (what a cache promises) and `LRUCache` (which implements it), with
   `LRUCacheProofs`
2. `MysqlPool`, with `MysqlPoolProofs`
3. `HttpSession`, with `HttpSessionProofs`
4. `HttpClient`, with `HttpClientProofs`
5. `Scheduler`, with `SchedulerProofs`
6. `RunLoop` (what an io_context promises), `IoContext` (asio's scheduler and reactor,
   which implement it), with `IoContextProofs`, and `ServerApp` (the program on top,
   which relies on no more than it), with `ServerAppProofs`
7. `Routing` and `Outgoing`, composed in `Exchange`, with `ExchangeProofs`

Every invariant and action property of the passing runs is proved, and so are the three
refinements. What is left, by importance: timers and several operations per descriptor
in `IoContext`; an abstract pool of leases that `MysqlPool` implements and the handlers
of `ServerApp` use; an abstract conversation that `HttpSession` and `HttpClient` both
implement.

## 3. The modules

### LRUCache, LRUPolicy, MCLRUCache, LRUCacheProofs

`map`, `lru` and `used` are `map_`, `lru_` and `used_bytes_`; `pc` and `call` are the
program counter and arguments of the call that holds `mutex_`. Operations with one
clock read are one step; `set`, `prune` and `ttl_left` read the clock several times
and are several, one per read or loop iteration, with `Tick` between any two.
`erase_it`, `touch`, `is_expired` are the private helpers. Strings are model values
with a size. `TimeMax` is `Clock::time_point::max()`, and the assumption on it says
that no deadline reaches it. `call.began` is history, read by one property.

`LRUPolicy` has no list, counter or loop: entries with deadlines and a relation
"used more recently". It says which entry may leave and what a lookup may answer.
`Refines` maps the detailed state to it: `Content` is the map without the sizes, `Newer`
the order of the list as a set of pairs.

### MysqlPool, MCMysqlPool, MysqlPoolProofs

A step is one critical section, one call of the driver, one load of the generation
or one notification. `pool`, `generation`, `mutex` are the members; `held` and
`heldGen` the shared_ptr a thread has and what its deleter captured; `frames` the
stack of `query` calls, because `reconnect` calls `set_schema`, which calls `query`,
which may reconnect again. `query` and `query_get` have the same control and are one
operation. `_mutex` is held between steps only in `reconnect`, from the clearing to
the end of `connect()`. The condition variable is the set of threads in "waiting":
a notification moves one, or all, to "woken", and `Timeout` one to "expired"; the
predicate is evaluated again under the lock. The server is `ServerDrops` and
`OpeningFails`, together at most `MaxFaults` times; openings that fail at startup count
as well (`OpenedAtStartup`), so the pool may begin with fewer connections than it was
asked for, or none. An opening fails with a code `should_retry` knows ("lost") or with
another ("refused"). `set_schema` walks over the deque
without the lock (`mysql_wrapper.cpp:133`): `VisitNext` reads an element, `VisitCall`
uses it, and `VisitRaces` is the case that it was taken meanwhile, whose outcome may
be a crash.

Left out: the DDL helpers (they only compose SQL), `test_connection` (no state), the
text of errors, and `set_schema` or `connect` called by the application while
queries run.

### HttpSession, MCHttpSession, HttpSessionProofs

The chain of handlers is `pc`; what can run beside it is the timer (`armed`: a wait is
pending, `queued`: it has expired and its handler has still to run, which no cancel
undoes). `since` and `overtaken` are history: how much had been read when the pending wait
was started, and what was read between the start of a wait and its expiry. The socket type is chosen in the initial state; TLS adds the handshake and a
shutdown that blocks until the peer closes. A byte is its place in the client's
script, so `Framed` can say that the n-th request processed has its own header and
its own body. The buffer, its doubling, the move of what is pipelined to the front
and the reset of the parser are as in the code. What the application's handler
answers is left out; errors of a write are ignored, as the code does.

### HttpClient, MCHttpClient, HttpClientProofs

The response is a sequence of units: each `\r`, each `\n`, each byte of data, each digit of
a size line (the first stands for all but the last), and the text of a header or trailer
line, which the code looks at only when its `\r\n` is there. A read delivers any number of
them, so the stream is cut inside a size line, inside the end of the header and between
`\r` and `\n`; `LineEnds` is `find("\r\n")`, and what is found depends on the cut. `taken` is how much of it `read_some` has delivered, `stash` what the reader has not
consumed, `body` the result. The three readers of `read_response_body` are three
values of `pc`. The server may stop anywhere, by an end of stream or a reset. Its
faults are a garbled size line and a missing CRLF. No chunk of a body has the size 0,
which is the last chunk's. Sizes are small numbers: the
wrap-around of `chunk_size + 2` is not modelled. Resolving, connecting, the TLS
handshake and the writing of the request are one action that may fail.
`RecvTimesOut` is asio's `sync_recv`, which answers EAGAIN by polling with no deadline.

### Scheduler, MCScheduler, SchedulerProofs

Time is a number since a Sunday midnight, a day has `Day` units, and local time is
ahead of it by an offset that may change once. The calendar functions are operators
on the time read; `Rem` is the remainder of C++ and `mktime` uses the offset of the
time read, because the code keeps `tm_isdst`. A job goes through `schedule_at` (first
clock read), `schedule_after` (the timer's own read), `Expire` and `RunJob`. Formatting
of times is left out.

### RunLoop, IoContext, MCIoContext, IoContextProofs

`RunLoop` is what the library relies on, without queues or locks: an operation is idle,
pending or ready; a thread that is in its turn may run the handler of one that is not
idle; `Outstanding` is what could still cause a handler to run; run() returns only when
the loop was stopped, and it is stopped only on request or when nothing is outstanding.

`IoContext` is the implementation. `queue`, `interrupted`, `work`, `stopped` are
`op_queue_`, `task_interrupted_`, `outstanding_work_`, `stopped_`; `signalled` and `Waiters`
are the two parts of `wakeup_event_.state_`; `private` and `credit` the `thread_info` of a
thread; `speculate`, `pending` and `shut` are `try_speculative_`, the descriptor's
`op_queue_` and `shutdown_`. The elements of the queue are the reactor itself (`Task`),
descriptors with events (`Look`) and completed operations (`Call`). A step is what a
thread does under one lock, one change of the atomic counter, or one system call:
`pthread_cond_signal` comes after the unlock and is a step of its own (`owes`), during
which the sleeper may have woken by itself. `LoopBody` is one pass of the loop in
`do_run_one`, entered from `lock`, from the return of the wait (`Wake`) and from the
reactor (`Polled`). `KeepsThePromise` maps it to `RunLoop`.

A descriptor has one direction and at most one operation; timers, which the reactor
treats like one more descriptor, `poll` and `wait_one` are left out. The library gives no
concurrency hint, so locking is on.

### ServerApp, MCServerApp, ServerAppProofs

The program: `ServerApp::run` on the main thread and the workers of `Server::run`, all in
the loop; acceptors; sessions with a read, a write and a timer operation; handlers that
use the application's parts, or block for ever (`Silent`); `stop`; and the destructors.
`pending` and `ready` are the operations started and completed, `cur` and `step` where a
thread is in a handler. Two threads can run the handlers of one session and of its timer
side by side, so a handler is split where another thread could see the difference.
`Destructors` is the order in which C++ destroys the members, with the join of `~Server` in
its place. The reads and writes of one request are folded into one read and one write,
the TLS handshake into the first read: `HttpSession` has them apart. `UsesTheLoop` maps
it to `RunLoop`; together with `KeepsThePromise` both sides of that contract are checked.

### Routing, Outgoing, Exchange, MCExchange, ExchangeProofs

`Routing` has the tables `_endpoints` and `_handlers` and the operators of
`process_request`: `Route` (look-up), `ByServer` (a guard of `Server::add_endpoint`: codes 0 and
404 let the request through), `ByApp` (a guard inside the wrapper of `ServerApp::add_endpoint`:
0 only), `Unguarded` (no guard, or one set in a handler that `ServerApp::add_handler`
registered, whose wrapper never asks it),
`Caught` (an exception changes code and body, never the headers). `Outgoing` is the
request object and `get_http_body`, which writes the headers it adds back into the
object. `Exchange` lets a program register handlers, build a request, send it, change
it and send it again, and joins both sides by the text of the request: the length
that is declared decides how much the session takes. `registered`, `bodies` and `own` are
history. The order of an `unordered_map` is any order. Cookies, the caches of `Request`,
`move_data` (which a handler cannot call on its const request) and the `Expect` header of
clients are left out, and so is the race of registering while the server serves,
which no lock guards: registration comes first, as in the examples.

## 4. The runs

A property that is a conjunction is listed with its parts in brackets; each part has a
definition and a comment of its own.

| run | what it shows | instance | distinct states |
|---|---|---|---|
| `lru` | `Consistent` (`TypeOK`, `ListMatchesMap`, `Accounting`, `IteratorValid`), `CapacityAtRest`, `PruneMissesNothing`, `SetKeepsItsKey`, `Refines` | 3 keys, values of 1, 3 and 6 bytes, 6 bytes of capacity, ttl -1, 0, 1 ms, clock 0..3 | 617,832 |
| `pool` | `ConnectionsAccounted` (`TypeOK`, `Ownership`, `NothingLeftBehind`), `PoolIsCurrent`, `NoLostWakeup`, `GrowthBounded` (`PoolBounded`, `NestingBoundedByFaults`), `OneFailureCostsOneOpening` | 2 threads with 2 queries each, a pool of 1, 4 connections, 2 failures, with a schema | 1,135,538 |
| `pool_live` | `QueriesReturn` | the same with 1 query each and 3 connections | 778,432 |
| `session` | `Conversation` (`TypeOK`, `Framed`, `ContinueOnce`, `AnsweredInOrder`, `NothingAfterClose`), `RoomToRead`, `TimedBySilence`, `RequestsSettled`, `SessionReclaimed` | 5 requests, buffer of 2 bytes at first, TCP and TLS | 8,735 |
| `client` | `BodyIsPayload` (`TypeOK`, `BodyIsPrefix`, `CompleteWhenDelivered`), `ReturnsWhenComplete`, `ReturnsOnceClosed` | 7 responses | 19,440 |
| `scheduler` | `PointsAreNext` (`TypeOK`, `DailyPointIsNext`, `WeeklyPointIsNext`), `NeverEarly`, `JobsRun` | days of 3 units, two weeks, the offset changes by 1 at 44, 1 job | 121,368 |
| `iocontext` | `EventsKept` (`TypeOK`, `NoLostEvent`, `DescriptorsDequeued`), `WorkIsCounted`, `IdleThreadIsCalled`, `KeepsThePromise`, `NothingWaitsForEver` (`CompletedIsCalled`, `DataIsTaken`), `StopEndsTheLoop` | 2 threads and one outside, 1 descriptor with 2 events, 1 posted function | 260,678 |
| `server` | `OneOfEach` (`TypeOK`, `OneAcceptEach`, `OneChain`), `ServesUntilStopped`, `OrderlyEnd` (`OnlyCacheAndSchedulerAreLost`, `QuietAtTheEnd`), `ClientsServed` (`ClientsAccepted`, `RequestsAnswered`), `StopEndsTheProgram`, `UsesTheLoop` | main and 1 worker, 1 HTTPS acceptor, 2 sessions of which 1 is silent, 2 requests, 1 failed accept | 373,038 |
| `exchange` | `FirstEndpointLastHandler`, `OnlyEndpointsAreGuarded` (`EndpointsAreGuarded`, `HandlersAreNotGuarded`), `GuardsAreHeard` (`TypeOK`, `OnlyRefusalsAreAnswered`, `ErrorsKeepTheGuardsHeaders`), `WrongLengthHasACause`, `FirstSendArrives` | 1 path, 2 methods, 2 parameters, 2 bodies, 2 registrations within 3 calls, 2 sends | 1,731,750 |

Three more runs check one statement each and are meant to fail; section 7 lists them.

Why the bounds are enough.

* `lru`: three small entries fill the cache; a middle and a small one fill it too; two
  middle ones do not fit; a large one does not fit even alone. Three keys give an
  entry in front of, at and behind the cursor; a clock of 0..3 with 2 ticks per
  millisecond lets an entry expire between any two reads, and a ttl of -1 is expired
  when it is stored.
* `pool`: two threads are the reader and the rebuilder, or two rebuilders; two
  failures are a lost connection and a lost retry, or a nested rebuild. Four
  connections are one more than two threads and a pool of one can use at a time
  before the leaks of two failures. Connection identities are reused, which is what
  an allocator does. In `pool_live` the schema makes every reconnect nest a query, which
  may reconnect again; three connections suffice there: a thread that found no free identity to
  open would stay in its query, and `QueriesReturn` would fail. Symmetry is used in `pool` only, never with liveness.
* `session`: the script has a body, a body asked for by 100-continue, a 100-continue
  without body, a `close`, and a request behind it; the first buffer holds less than
  one request, so it doubles and is reused.
* `client`: every framing, empty and not, with and without trailers, surplus bytes and
  both faults; every cut, also inside a size line, inside the end of the header and between
  `\r` and `\n`, follows from reads of any length.
* `scheduler`: the clock runs over two weeks, so every weekday is seen before a change of
  the offset and in the week after it; a day of three units has a point before, at and
  after a time of day. One job is enough, jobs do not interact.
* `iocontext`: two threads are one in the reactor and one that sleeps or works, or two
  sleepers; with the one outside, three parties compete for the wake-up. One descriptor
  and one posted function can be queued together, so both cases of every branch of
  `LoopBody` occur; the second event arrives while the first is looked at, or while no
  operation waits for it.
* `server`: the worker may be the only thread that is not stuck, or the one that is; a
  failed accept, a keep-alive, a close with a TLS shutdown and a timer that expires beside
  a handler all fit into two sessions and two requests.
* `exchange`: two registrations are enough for the first, or the last, to count; three
  calls for a guard and a change of the body between two sends. Whole programs with
  more are covered by the proofs.

Deadlock is checked for the cache, the pool, the client, the event loop and the
exchange. A session ends when it has closed its socket, the scheduler's clock is
bounded, and a program without stop() comes to rest when no client has anything left
to send, with its threads waiting in the loop: there the check is off.

## 5. Fairness

* `MysqlPool`: weak fairness of each thread inside a query: it is scheduled, the mutex
  is free again and again, and `wait_for` returns after five seconds. Nothing is
  assumed about the server, nor that a notification reaches a thread.
* `HttpSession`: handlers whose operation is ready run, the ten seconds of the timer
  pass. A client need not send, close or finish its handshake.
* `HttpClient`: the calling thread runs. Nothing is assumed about the server.
* `Scheduler`: time passes, and timers and handlers that are due are run. The workers
  run the io_context for as long as the program lives.
* `IoContext`: threads run, handlers come to their end (weak fairness of `Finish`), and a
  thread that owes a signal gives it. Nothing is assumed about events, posts, or a
  spurious return from the wait.
* `ServerApp`: threads run and blocking calls come to their end, except those of the
  sessions in `Silent`, whose step is disabled: properties hold with such threads lost, as
  long as one is left. A connection in the backlog is reported sooner or later; no client
  need send anything, and nobody need call stop().

## 6. What is proved

For every value of the constants that satisfies the named assumptions
(`SizeAssumption`, `TimeAssumption`, `NilAssumption`; `PoolAssumption`;
`SessionAssumption`; `ClientAssumption`; `SchedulerAssumption`; `ServerAssumption`,
`NoneIsNoOperation`; `ExchangeAssumption`;
`IoContextAssumption`, `NoneIsNoElement`):

* `LRUCacheProofs`: `TypeOK`, `ListMatchesMap`, `Accounting`, `CapacityAtRest`,
  `IteratorValid`, `PruneMissesNothing` and the action property `SetKeepsItsKey`.
  The invariant is `Inv`. `ListMatchesMap` alone is inductive for the list, but the
  counter needs `EntrySizes` (the sizes an entry was booked with are those of its key
  and value) and the finiteness of the set of occupied bytes; `CapacityAtRest` needs
  `CallInv`, which ties the arguments of the call to the label; `SetKeepsItsKey` needs
  `FrontInv`: while `set` evicts, its own key is at the front, or the list is empty and
  the entry was too large. Lemmas say what unlinking a key or inserting one does to
  the set of occupied bytes and to positions in the list.
  The second half proves `Refines`: `LRUCache` implements `LRUPolicy`. One lemma
  per action names the step of the policy it is, or that it is none: a set is a `Put` when
  it stores, a `Lapse` for each entry its pruning erases, an `Evict` for each turn of its
  loop. `OrderOfErase` and `OrderOfFront` say what unlinking a node and linking one in
  front do to the order of use; `Accounting` makes `used > Capacity` the policy's own
  condition, `ListMatchesMap` makes the back of the list its least recently used key, and
  `RoundedDown` bounds the lifetime `ttl_left` answers. The only strengthening is
  `PruneSilent`: the result that pruning leaves was set when it began.
* `MysqlPoolProofs`: all five invariants of the run. `PoolInv` adds `HoldsWhenUsing` (a thread has a connection exactly between
  getting one and its deleter) and `MutexByRebuild` (the lock is held between steps
  only inside `connect()`). Without the first a thread could pop while it holds another
  connection and forget it; the second keeps every other thread away from the deque
  while it is rebuilt, so that what it holds has the generation of the rebuild.
  `NoLostWakeup` and `PoolBounded` compare the deque with sets of threads, and follow
  the cardinality of these sets step by step: a thread leaves the set of those on their
  way when it takes a connection or finds none, a release adds a connection and a
  notification still to come; `LoopsUsedUp` says that only a thread inside `connect()` has
  openings left. For the failures, `FaultsTold` gives each one a place: each
  level of a thread's stack of queries and its present broken connection or lost answer
  has a failure of its own (`Depth`, `Hit`). The bound on the nesting follows, and that
  a query that ends with a lost server has met two.
  `FirstFailureTold` follows the first failure alone: it breaks connections, or it turns one
  thread away with no new connection, and `OneFailureCostsOneOpening` says what that costs.
* `HttpSessionProofs`: `Conversation`, `RoomToRead` and `TimedBySilence`. The invariant
  `SessionInv` rests on `Delivery`: the buffer is the part of the client's stream that
  follows the requests served so far, and what the parser remembers is true of the
  request in front of it. That request n is read with its own header and body follows
  because the place where request n begins is known (`Layout`). `Announced` says what the
  interim responses have come to for the request in front, `Answers` that the request
  being answered is the last one served, `ClosesLast` that after one that asked to close
  the session only writes and closes.
* `HttpClientProofs`: `BodyIsPayload`, for every cut of the stream that `Received` allows.
  The first half finds where each unit of a response
  lies in its stream: header, payload or chunks, trailers, surplus (`StreamLaidOut`,
  `ChunksLaidOut`), and where a line ends: a `\r` that is the last unit to have arrived ends
  none, and the first end found in any part of the stream is the right one (`Window`,
  `HeaderEndsAre`, `FirstLineIs`). The second half is `ClientInv`: while the header is read the stash is all
  that has been received; then, for each reader, where it stands in the stream and which
  first part of the payload the body is there (`Upto(k)`, the first k bytes). A reader of
  chunks stands at a size line, with the data of the chunks before it, or behind a size
  line whose chunk it knows; the one that counts has received as much as it has read, up
  to the length. A stream that ends early leaves `Cut` or a shorter `Returned`, which says
  that the rest was never delivered.
* `SchedulerProofs`: both invariants of the run. For `NeverEarly`, `JobInv` says, stage by
  stage, that the delay still reaches the timestamp from the clock's present value. The
  calendar points need no invariant but the types: they are arithmetic, for any length
  of the day. A time is a number of days and a rest, the quotient is found by uniqueness,
  and the candidates between now and the point returned are excluded by their day.
* `ServerAppProofs`: all six invariants of the run, and `UsesTheLoop`. `ServerInv` has three
  parts. `TypeInv` ties the step of a thread to the kind of its operation. `TokenInv` says
  of each acceptor, and of each session, that there is one token: it lies in `pending`, at
  one place of `ready`, or with one thread that has not passed it on; a session that was
  not accepted has none. From it follow `OneAcceptEach` and `OneChain`, and that there is
  always something outstanding, hence `ServesUntilStopped` (`EndingInv`), and from that what
  the destructors find. For `UsesTheLoop` a timer must not be armed while it is already on
  its way: `TimerInv` says that it is idle whenever the token of its session is where the
  next handler would arm it.
* `ExchangeProofs`: all six invariants of the run and `FirstSendArrives`. `ExchangeInv` says
  how the tables arise from the history of registrations (`Tables`), what runs and is
  answered for an entry (`RequestOutcome`), that the length headers of the object are lengths
  it was given or has been sent with (`HeaderLengths`), and what is in the message under way
  (`UnderWay`).
* `IoContextProofs`: `WorkIsCounted`, `IdleThreadIsCalled`, `EventsKept`, and the
  refinement `KeepsThePromise`. `IoInv` has one part for each thing that moves.
  `ReactorInv`: the reactor's own element is once in the queue or with one polling thread,
  and what it found lies in front of it, so no descriptor is queued when it polls again.
  `PlaceInv`: an operation is pending, or at one place of one queue, or in one hand.
  `EventInv`: data that is watched has an event that is seen; data counts as watched also
  when nothing is pending but the next operation would not try at once, which is why the
  flag `speculate` must be set again when an event finds no operation. `SleepInv` says,
  for each way a thread sleeps, what has to be pending to wake it. `WorkIsCounted` is
  inductive with these: each action adds an operation to the sets that are counted, or
  takes one from them, and the lemmas on finite sets follow the cardinality. Its type
  `work \in Nat` is a consequence, not an assumption. For the refinement `NothingLeft`
  turns a counter of zero into nothing outstanding, and one lemma per kind of step names
  what the step is for `RunLoop`.

Streams of requests and of units are folds over sequences of any length, which takes
induction over numbers. It is stated about sets of numbers, from the well-foundedness of
< (`EveryNumber`): a set that holds 0, and with each number the next, holds them all.

Only model-checked: liveness, and with it everything about fairness and `ENABLED`, which
the provers do not reason about, and the three statements of section 7 that the code does
not keep.

## 7. Where code and words part

| run | statement | what the code does |
|---|---|---|
| `client_trailers` | `TrailersEnd` | `http_common.cpp:297` says the trailers are consumed and the reader stops; when the stream ends among them it loops for ever |
| `client_timeout` | `ReadTimeoutEnds` | `set_timeout_ms` sets `SO_RCVTIMEO`, which asio's blocking receive turns into a poll with no deadline |
| `scheduler_league` | `LeagueLastsItsPeriod` | on a Sunday and a Monday `get_league_start_time()` equals `get_league_finish_time()` |

Further differences are part of the models and need no run of their own.

* `LRUCache.cpp:163` says "Remove expired from back first if any"; the loop takes the
  entry at the back whatever its expiry, so a live one may go while an expired one
  stays. `LRUPolicy` allows it: `Evict` asks for no expiry.
* `http_common.cpp:447` treats `Content-Length: 0` as no length, so the client waits for the
  server to close. `ReturnsWhenComplete` excepts responses that are read to the end, and
  `BodyIsPrefix` excepts them if surplus bytes follow: those become a part of the body.
* `Scheduler.cpp:107` keeps the `tm_isdst` of now, so a weekly point beyond a change of the
  offset is off by the shift: an hour late if summer time begins before it, an hour early
  if it ends. `tests/unit/scheduler_unit_tests.cpp:106` asserts the hour of a point three
  days ahead, and would fail in the days before a change. `PointsAreNext` claims weekday and
  time of day only as long as the offset stays; that the point is ahead, by a week at
  most, which the same test asserts, it claims always.

## 8. Not modelled

`Renderer`, utils, `Log`, `uuid4`, the exceptions, the handlers of `Handlers.cpp`, the DDL
helpers and the formatting in `Params` and `Response` compute on one thread or format
text. Two races there are outside any model: the generator in `uuid4.cpp:17` and the
static buffer of `std::localtime` (`Scheduler.cpp:89`) are shared by all threads without a
lock. `http_common.cpp:420` returns a response that was cut short like a whole one; no
line of the repository promises the caller a difference.

Of asio only the event loop and `sync_recv` are modelled; the rest of it, jsoncpp,
pugixml and the MySQL connector, which make up nearly all lines of the repository, are
third-party and are the environment. The examples and tests are read as uses of the code.
