------------------------------ MODULE MysqlPool ------------------------------
(***************************************************************************)
(* The connection pool of MysqlWrapper (src/http/mysql_wrapper.{h,cpp}):    *)
(* worker threads run query and query_get, which take a connection from a  *)
(* deque guarded by a mutex and a condition variable, validate it, use it  *)
(* outside the lock and give it back; a lost server makes the thread       *)
(* rebuild the whole pool under a new generation and try once more.        *)
(*                                                                         *)
(* A step is what a thread does between two points where another thread,   *)
(* the server or the clock can come in: one critical section, one call of  *)
(* the driver, one load of the generation, one notification.  query and    *)
(* query_get have the same control and are one operation here.             *)
(***************************************************************************)
EXTENDS Integers, FiniteSets, SequencesExt

CONSTANTS Threads,     \* the threads that run queries
          Conns,       \* identities for connection objects, reused once deleted
          PoolSize,    \* how many connections connect() opens
          UsesSchema,  \* whether set_schema was called at startup
          MaxCalls,    \* bound: top-level queries of each thread
          MaxFaults,   \* bound: failures of the server
          Nobody,      \* no thread holds _mutex
          NoConn       \* a thread holds no connection

ASSUME PoolAssumption ==
    /\ PoolSize \in Nat
    /\ UsesSchema \in BOOLEAN
    /\ MaxCalls \in Nat
    /\ MaxFaults \in Nat
    /\ Nobody \notin Threads
    /\ NoConn \notin Conns
    /\ IsFiniteSet(Threads)

VARIABLES conn,        \* the driver's objects: "none", "open", "dead" (broken) or
                       \* "leaked" (opened, and no pointer to it is left)
          pool,        \* _connections
          generation,  \* _generation
          mutex,       \* who holds _mutex between steps
          pc,          \* what each thread does next
          held,        \* the connection a thread got and has not given back
          heldGen,     \* the generation its deleter captured
          frames,      \* the attempt counters of a thread's active query calls
          outcome,     \* how the last attempt ended, one of Outcomes
          left,        \* connect()'s loop: connections still to open
          visit,       \* set_schema's loop: [at, c], its index and its connection
          calls,       \* top-level queries begun
          result,      \* what the last top-level query ended with
          faults,      \* server failures so far
          phase        \* "up", "down" after ~MysqlWrapper, "crashed" after a data race

deque == <<pool, generation, mutex>>
lease == <<held, heldGen>>
query == <<frames, outcome, calls, result>>
rebuild == <<left, visit>>
world == <<faults, phase>>
vars == <<conn, deque, pc, lease, query, rebuild, world>>

Labels == {"idle", "get", "waiting", "woken", "expired", "validate", "create", "stamp",
           "exec", "release", "notify", "after", "reconnect", "connect", "visit",
           "call", "wakeall"}

\* "error": the SQL is rejected on a good connection; "refused": no connection could
\* be opened, with a code should_retry does not know; "lost": a code it knows.
Outcomes == {"ok", "error", "refused", "lost"}

PooledConns == {pool[i].connection : i \in 1..Len(pool)}
InState(l) == {t \in Threads : pc[t] = l}

\* What the startup leaves in the deque: connect() logs an opening that fails and
\* goes on, and the query of set_schema, finding no connection, opens one itself.
OpenedAtStartup(failed) ==
    CASE failed < PoolSize -> PoolSize - failed
      [] failed = PoolSize /\ UsesSchema -> 1
      [] OTHER -> 0

\* After connect() and, if a schema is used, set_schema.
Init ==
    /\ faults \in 0..(IF UsesSchema THEN PoolSize + 1 ELSE PoolSize)
    /\ faults <= MaxFaults
    /\ LET n == OpenedAtStartup(faults)
       IN  \E opened \in [1..n -> Conns] :
             /\ \A i, j \in 1..n : opened[i] = opened[j] => i = j
             /\ conn = [c \in Conns |-> IF \E i \in 1..n : opened[i] = c
                                         THEN "open" ELSE "none"]
             /\ pool = [i \in 1..n |-> [connection |-> opened[i], generation |-> 1]]
    /\ generation = 1
    /\ mutex = Nobody
    /\ pc = [t \in Threads |-> "idle"]
    /\ held = [t \in Threads |-> NoConn]
    /\ heldGen = [t \in Threads |-> 0]
    /\ frames = [t \in Threads |-> <<>>]
    /\ outcome = [t \in Threads |-> "ok"]
    /\ left = [t \in Threads |-> 0]
    /\ visit = [t \in Threads |-> [at |-> 1, c |-> NoConn]]
    /\ calls = [t \in Threads |-> 0]
    /\ result = [t \in Threads |-> "ok"]
    /\ phase = "up"

Goto(t, l) == pc' = [pc EXCEPT ![t] = l]

-----------------------------------------------------------------------------
(* query and query_get.                                                     *)

QueryBegin(t) ==
    /\ pc[t] = "idle"
    /\ calls[t] < MaxCalls
    /\ calls' = [calls EXCEPT ![t] = @ + 1]
    /\ frames' = [frames EXCEPT ![t] = <<0>>]
    /\ Goto(t, "get")
    /\ UNCHANGED <<conn, deque, lease, outcome, result, rebuild, world>>

\* get_connection holds the lock and its predicate is true: pop_back, unlock.
Pop(t) ==
    /\ pc[t] \in {"get", "woken", "expired"}
    /\ mutex = Nobody
    /\ pool # <<>>
    /\ held' = [held EXCEPT ![t] = pool[Len(pool)].connection]
    /\ heldGen' = [heldGen EXCEPT ![t] = pool[Len(pool)].generation]
    /\ pool' = SubSeq(pool, 1, Len(pool) - 1)
    /\ Goto(t, "validate")
    /\ UNCHANGED <<conn, generation, mutex, query, rebuild, world>>

\* The predicate is false: wait_for blocks until a notification or the deadline.
Block(t) ==
    /\ pc[t] \in {"get", "woken"}
    /\ mutex = Nobody
    /\ pool = <<>>
    /\ Goto(t, "waiting")
    /\ UNCHANGED <<conn, deque, lease, query, rebuild, world>>

\* Mutant: the deadline is taken for a notification, and the thread waits again.
Timeout_Rewaits(t) ==
    /\ pc[t] = "waiting"
    /\ Goto(t, "woken")
    /\ UNCHANGED <<conn, deque, lease, query, rebuild, world>>

\* Five seconds are over; the thread still has to get the lock back.
Timeout(t) ==
    /\ pc[t] = "waiting"
    /\ Goto(t, "expired")
    /\ UNCHANGED <<conn, deque, lease, query, rebuild, world>>

\* wait_for returns false: the thread opens a connection of its own.
GiveUpWaiting(t) ==
    /\ pc[t] = "expired"
    /\ mutex = Nobody
    /\ pool = <<>>
    /\ Goto(t, "create")
    /\ UNCHANGED <<conn, deque, lease, query, rebuild, world>>

\* Mutant: only an object that is gone is replaced.
should_replace_connection_Never(c) == conn[c] = "none"

should_replace_connection(c) == conn[c] # "open"

Validate(t) ==
    /\ pc[t] = "validate"
    /\ IF should_replace_connection(held[t])
         THEN /\ conn' = [conn EXCEPT ![held[t]] = "none"]
              /\ held' = [held EXCEPT ![t] = NoConn]
              /\ Goto(t, "create")
         ELSE /\ Goto(t, "exec")
              /\ UNCHANGED <<conn, held>>
    /\ UNCHANGED <<deque, heldGen, query, rebuild, world>>

\* create_connection succeeds; the generation is loaded only afterwards.
Create(t) ==
    /\ pc[t] = "create"
    /\ \E c \in Conns :
         /\ conn[c] = "none"
         /\ conn' = [conn EXCEPT ![c] = "open"]
         /\ held' = [held EXCEPT ![t] = c]
    /\ Goto(t, "stamp")
    /\ UNCHANGED <<deque, heldGen, query, rebuild, world>>

\* The driver's connect throws, or setSchema does and the object is lost.
OpeningFails ==
    /\ faults < MaxFaults
    /\ faults' = faults + 1
    /\ \/ UNCHANGED conn
       \/ /\ UsesSchema
          /\ \E c \in Conns : /\ conn[c] = "none"
                              /\ conn' = [conn EXCEPT ![c] = "leaked"]

CreateThrows(t) ==
    /\ pc[t] = "create"
    /\ OpeningFails
    /\ \E e \in {"refused", "lost"} : outcome' = [outcome EXCEPT ![t] = e]
    /\ Goto(t, "after")
    /\ UNCHANGED <<deque, lease, frames, calls, result, rebuild, phase>>

Stamp(t) ==
    /\ pc[t] = "stamp"
    /\ heldGen' = [heldGen EXCEPT ![t] = generation]
    /\ Goto(t, "exec")
    /\ UNCHANGED <<conn, deque, held, query, rebuild, world>>

\* The statement runs: on a broken connection the driver reports a lost server,
\* on a good one it may still reject the SQL.
Execute(t) ==
    /\ pc[t] = "exec"
    /\ \E o \in IF conn[held[t]] = "open" THEN {"ok", "error"} ELSE {"lost"} :
         outcome' = [outcome EXCEPT ![t] = o]
    /\ Goto(t, "release")
    /\ UNCHANGED <<conn, deque, lease, frames, calls, result, rebuild, world>>

\* Mutant: the generation is not compared.
Outdated_Never(t) == FALSE

Outdated(t) == heldGen[t] # generation

\* release_connection, run by the deleter before query returns or catches.
ReleaseToPool(t) ==
    /\ pc[t] = "release"
    /\ mutex = Nobody
    /\ ~Outdated(t)
    /\ pool' = Append(pool, [connection |-> held[t], generation |-> heldGen[t]])
    /\ held' = [held EXCEPT ![t] = NoConn]
    /\ Goto(t, "notify")
    /\ UNCHANGED <<conn, generation, mutex, heldGen, query, rebuild, world>>

ReleaseAndDelete(t) ==
    /\ pc[t] = "release"
    /\ mutex = Nobody
    /\ Outdated(t)
    /\ conn' = [conn EXCEPT ![held[t]] = "none"]
    /\ held' = [held EXCEPT ![t] = NoConn]
    /\ Goto(t, "after")
    /\ UNCHANGED <<deque, heldGen, query, rebuild, world>>

\* Mutant: the notification is forgotten.
NotifyOne_Forgotten(t) ==
    /\ pc[t] = "notify"
    /\ Goto(t, "after")
    /\ UNCHANGED <<conn, deque, lease, query, rebuild, world>>

\* notify_one, after the unlock: some thread that waits now, if there is one.
NotifyOne(t) ==
    /\ pc[t] = "notify"
    /\ \/ /\ InState("waiting") = {}
          /\ Goto(t, "after")
       \/ \E u \in InState("waiting") :
            pc' = [pc EXCEPT ![t] = "after", ![u] = "woken"]
    /\ UNCHANGED <<conn, deque, lease, query, rebuild, world>>

Attempt(t) == frames[t][Len(frames[t])]
should_retry(t) == outcome[t] = "lost" /\ Attempt(t) = 0

\* The catch block of a first attempt that lost the server.
Retry(t) ==
    /\ pc[t] = "after"
    /\ should_retry(t)
    /\ Goto(t, "reconnect")
    /\ UNCHANGED <<conn, deque, lease, query, rebuild, world>>

\* A top-level query returns to its caller.
ReturnToCaller(t) ==
    /\ pc[t] = "after"
    /\ ~should_retry(t)
    /\ Len(frames[t]) = 1
    /\ result' = [result EXCEPT ![t] = outcome[t]]
    /\ frames' = [frames EXCEPT ![t] = <<>>]
    /\ Goto(t, "idle")
    /\ UNCHANGED <<conn, deque, lease, outcome, calls, rebuild, world>>

\* The CREATE SCHEMA query returns to set_schema, which ignores its answer.
ReturnToSetSchema(t) ==
    /\ pc[t] = "after"
    /\ ~should_retry(t)
    /\ Len(frames[t]) > 1
    /\ frames' = [frames EXCEPT ![t] = SubSeq(@, 1, Len(@) - 1)]
    /\ visit' = [visit EXCEPT ![t] = [at |-> 1, c |-> NoConn]]
    /\ Goto(t, "visit")
    /\ UNCHANGED <<conn, deque, lease, outcome, calls, result, left, world>>

-----------------------------------------------------------------------------
(* reconnect, connect and set_schema.                                       *)

\* Mutant: the deque is cleared and the objects are forgotten.
Closed_Not == conn

Closed == [c \in Conns |-> IF c \in PooledConns THEN "none" ELSE conn[c]]

\* How often connect()'s loop runs.  Mutant: once too often.
ConnectCount_OneMore == PoolSize + 1
ConnectCount == PoolSize

\* The lock is held from here to the end of connect().
ReconnectBegin(t) ==
    /\ pc[t] = "reconnect"
    /\ mutex = Nobody
    /\ mutex' = t
    /\ generation' = generation + 1
    /\ conn' = Closed
    /\ pool' = <<>>
    /\ left' = [left EXCEPT ![t] = ConnectCount]
    /\ Goto(t, "connect")
    /\ UNCHANGED <<lease, query, visit, world>>

ConnectOne(t) ==
    /\ pc[t] = "connect"
    /\ left[t] > 0
    /\ \E c \in Conns :
         /\ conn[c] = "none"
         /\ conn' = [conn EXCEPT ![c] = "open"]
         /\ pool' = Append(pool, [connection |-> c, generation |-> generation])
    /\ left' = [left EXCEPT ![t] = @ - 1]
    /\ UNCHANGED <<pc, generation, mutex, lease, query, visit, world>>

\* One connection cannot be opened: logged, and the loop goes on.
ConnectOneFails(t) ==
    /\ pc[t] = "connect"
    /\ left[t] > 0
    /\ OpeningFails
    /\ left' = [left EXCEPT ![t] = @ - 1]
    /\ UNCHANGED <<pc, deque, lease, query, visit, phase>>

\* connect()'s notify_all and the unlock; then set_schema starts a query.
ConnectEnd(t) ==
    /\ pc[t] = "connect"
    /\ left[t] = 0
    /\ mutex' = Nobody
    /\ pc' = [u \in Threads |->
                CASE u = t -> (IF UsesSchema THEN "get" ELSE "wakeall")
                  [] u # t /\ pc[u] = "waiting" -> "woken"
                  [] OTHER -> pc[u]]
    /\ frames' = IF UsesSchema THEN [frames EXCEPT ![t] = Append(@, 0)] ELSE frames
    /\ UNCHANGED <<conn, pool, generation, lease, outcome, calls, result, rebuild, world>>

\* set_schema walks over _connections without the lock: it reads one element...
VisitNext(t) ==
    /\ pc[t] = "visit"
    /\ IF visit[t].at <= Len(pool)
         THEN /\ visit' = [visit EXCEPT ![t].c = pool[visit[t].at].connection]
              /\ Goto(t, "call")
         ELSE /\ visit' = [visit EXCEPT ![t] = [at |-> 1, c |-> NoConn]]
              /\ Goto(t, "wakeall")
    /\ UNCHANGED <<conn, deque, lease, query, left, world>>

\* ...and calls setSchema on it, which throws if the connection is broken.
VisitCall(t) ==
    /\ pc[t] = "call"
    /\ visit[t].c \in PooledConns
    /\ IF conn[visit[t].c] = "open"
         THEN /\ visit' = [visit EXCEPT ![t] = [at |-> visit[t].at + 1, c |-> NoConn]]
              /\ Goto(t, "visit")
         ELSE /\ visit' = [visit EXCEPT ![t] = [at |-> 1, c |-> NoConn]]
              /\ Goto(t, "wakeall")
    /\ UNCHANGED <<conn, deque, lease, query, left, world>>

\* Another thread took or deleted the connection in between: undefined, either
\* nothing comes of it or the process goes down.
VisitRaces(t) ==
    /\ pc[t] = "call"
    /\ visit[t].c \notin PooledConns
    /\ phase' \in {"up", "crashed"}
    /\ visit' = [visit EXCEPT ![t] = [at |-> visit[t].at + 1, c |-> NoConn]]
    /\ Goto(t, "visit")
    /\ UNCHANGED <<conn, deque, lease, query, left, faults>>

\* reconnect's own notify_all; the catch block continues with attempt 1.
ReconnectEnd(t) ==
    /\ pc[t] = "wakeall"
    /\ pc' = [u \in Threads |->
                CASE u = t -> "get"
                  [] u # t /\ pc[u] = "waiting" -> "woken"
                  [] OTHER -> pc[u]]
    /\ frames' = [frames EXCEPT ![t][Len(frames[t])] = 1]
    /\ UNCHANGED <<conn, deque, lease, outcome, calls, result, rebuild, world>>

-----------------------------------------------------------------------------
(* The server and the end of the process.                                   *)

\* The server drops some of the open sessions, or restarts and drops all.
ServerDrops ==
    /\ faults < MaxFaults
    /\ faults' = faults + 1
    /\ \E S \in SUBSET {c \in Conns : conn[c] = "open"} :
         /\ S # {}
         /\ conn' = [c \in Conns |-> IF c \in S THEN "dead" ELSE conn[c]]
    /\ UNCHANGED <<pc, deque, lease, query, rebuild, phase>>

\* ~MysqlWrapper, after the threads that use it have stopped.
Destroy ==
    /\ \A t \in Threads : pc[t] = "idle"
    /\ phase' = "down"
    /\ conn' = Closed
    /\ pool' = <<>>
    /\ UNCHANGED <<pc, generation, mutex, lease, query, rebuild, faults>>

ThreadStep(t) ==
    \/ Pop(t) \/ Block(t) \/ Timeout(t) \/ GiveUpWaiting(t)
    \/ Validate(t) \/ Create(t) \/ CreateThrows(t) \/ Stamp(t) \/ Execute(t)
    \/ ReleaseToPool(t) \/ ReleaseAndDelete(t) \/ NotifyOne(t)
    \/ Retry(t) \/ ReturnToCaller(t) \/ ReturnToSetSchema(t)
    \/ ReconnectBegin(t) \/ ConnectOne(t) \/ ConnectOneFails(t) \/ ConnectEnd(t)
    \/ VisitNext(t) \/ VisitCall(t) \/ VisitRaces(t) \/ ReconnectEnd(t)

Running ==
    /\ phase = "up"
    /\ \/ ServerDrops
       \/ Destroy
       \/ \E t \in Threads : QueryBegin(t) \/ ThreadStep(t)

Stopped == phase # "up" /\ UNCHANGED vars

Next == Running \/ Stopped

Spec == Init /\ [][Next]_vars

\* A thread inside a query is scheduled, and a wait of five seconds ends.
FairSpec == Spec /\ \A t \in Threads : WF_vars(phase = "up" /\ ThreadStep(t))

-----------------------------------------------------------------------------
(* Properties.                                                              *)

PooledConnection == [connection : Conns, generation : Nat]
Visit == [at : Nat \ {0}, c : Conns \cup {NoConn}]

\* The types of the fields of MysqlWrapper and of the locals of its methods.
TypeOK ==
    /\ conn \in [Conns -> {"none", "open", "dead", "leaked"}]
    /\ pool \in Seq(PooledConnection)
    /\ generation \in Nat
    /\ mutex \in Threads \cup {Nobody}
    /\ pc \in [Threads -> Labels]
    /\ held \in [Threads -> Conns \cup {NoConn}]
    /\ heldGen \in [Threads -> Nat]
    /\ frames \in [Threads -> Seq({0, 1})]
    /\ outcome \in [Threads -> Outcomes]
    /\ left \in [Threads -> 0..PoolSize]
    /\ visit \in [Threads -> Visit]
    /\ calls \in [Threads -> 0..MaxCalls]
    /\ result \in [Threads -> Outcomes]
    /\ faults \in 0..MaxFaults
    /\ phase \in {"up", "down", "crashed"}

Alive(c) == conn[c] \in {"open", "dead"}

PooledOnce == \A i, j \in 1..Len(pool) : pool[i].connection = pool[j].connection => i = j
PooledAlive == \A c \in PooledConns : Alive(c)
HeldAlive == \A t \in Threads : held[t] # NoConn => Alive(held[t]) /\ held[t] \notin PooledConns
HeldByOne == \A t, u \in Threads : held[t] = held[u] /\ held[t] # NoConn => t = u
NoOrphan == \A c \in Conns : Alive(c) => c \in PooledConns \/ \E t \in Threads : held[t] = c

\* Every connection object has one owner: it is in the deque once, or in the
\* hands of one thread.  So no thread runs a statement on a connection another
\* one uses or has deleted, nothing is deleted twice, and the only objects
\* without an owner are those whose setSchema threw in create_connection.
Ownership == PooledOnce /\ PooledAlive /\ HeldAlive /\ HeldByOne /\ NoOrphan

\* A thread has a connection exactly from the point where it got one to the
\* point where its deleter ran.
HoldsWhenUsing ==
    \A t \in Threads :
      held[t] # NoConn <=> pc[t] \in {"validate", "stamp", "exec", "release"}

\* The deque never holds a connection of an earlier generation: what was out
\* when the pool was rebuilt does not come back.
PoolIsCurrent == \A i \in 1..Len(pool) : pool[i].generation = generation

\* _mutex is held between steps only by a thread that rebuilds the pool, so no
\* thread waits for it while it is inside a query of its own.
MutexByRebuild == \A t \in Threads : mutex = t <=> pc[t] = "connect"

\* No wakeup is lost: if a thread waits although the deque holds connections,
\* as many threads are on their way to take or to announce them, or the thread
\* that fills the deque has its notify_all still to come.
NoLostWakeup ==
    InState("waiting") # {} =>
      \/ Len(pool) <= Cardinality(InState("woken") \cup InState("expired") \cup InState("notify"))
      \/ mutex # Nobody

Engaged == {t \in Threads : pc[t] \in {"validate", "create", "stamp", "exec", "release"}}

\* The pool does not grow with time, although each thread that waits in vain
\* opens a connection of its own and later leaves it in the deque: it stays
\* below the configured size plus one connection per other thread.
PoolBounded ==
    LET most == IF PoolSize = 0 THEN Cardinality(Threads)
                                ELSE PoolSize + Cardinality(Threads) - 1
    IN  \A t \in Threads : Len(pool) + Cardinality(Engaged) + left[t] <= most

\* reconnect runs set_schema, which runs query, which may reconnect again: the
\* nesting is bounded only by the number of failures of the server.
NestingBoundedByFaults == \A t \in Threads : Len(frames[t]) <= 1 + faults

\* What could grow without a limit while queries, retries and rebuilds follow each
\* other, the deque and the stack of a thread, grows only with the failures.
GrowthBounded == PoolBounded /\ NestingBoundedByFaults

Refused == {t \in Threads : result[t] = "refused"}

\* What a single failure of the server may cost.  No query ends with a lost server:
\* validation, the rebuild and the second attempt absorb it.  A refused opening is
\* not retried (should_retry knows four codes), but it costs the query of one thread
\* only, and then no connection was broken: a failure that breaks connections, be
\* it all of them, costs no query.  SQL rejected on a good connection is no failure
\* of the server.
OneFailureCostsOneOpening ==
    faults <= 1 =>
      /\ \A t \in Threads : result[t] # "lost"
      /\ \A t, u \in Refused : t = u
      /\ Refused # {} => \A c \in Conns : conn[c] # "dead"

\* Every query returns, or the process is down: no thread waits for ever for a
\* connection, for the mutex or for a nested query.
QueriesReturn == \A t \in Threads : pc[t] # "idle" ~> (pc[t] = "idle" \/ phase # "up")

\* ~MysqlWrapper leaves no connection object behind, except leaked ones.
NothingLeftBehind == phase = "down" => \A c \in Conns : ~Alive(c)

\* From its creation to the end of the program every connection is accounted for:
\* it has one owner as long as it is alive, and none is alive at the end.
ConnectionsAccounted == TypeOK /\ Ownership /\ NothingLeftBehind

=============================================================================
