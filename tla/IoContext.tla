------------------------------ MODULE IoContext ------------------------------
(***************************************************************************)
(* The event loop under the server: asio's scheduler with its epoll reactor *)
(* (src/src/asio/detail/impl/scheduler.ipp, impl/epoll_reactor.ipp and      *)
(* posix_event.hpp), used by several threads without a concurrency hint.    *)
(*                                                                          *)
(* Completed handlers wait in one queue.  The reactor is an element of that *)
(* queue: the thread that takes it polls the descriptors and puts it back   *)
(* behind what it found.  Idle threads sleep on a condition variable, or in *)
(* epoll_wait, from which only an event or an interrupt gets them out.      *)
(*                                                                          *)
(* A step is what a thread does under one lock (the scheduler's mutex or    *)
(* that of a descriptor), one change of the atomic counter of work, or one  *)
(* system call.  pthread_cond_signal is called after the unlock and is a    *)
(* step of its own.                                                         *)
(*                                                                          *)
(* A descriptor has one direction and at most one operation (an acceptor,   *)
(* or the reads of a session); timers and other queues of operations are    *)
(* left out.                                                                *)
(***************************************************************************)
EXTENDS Integers, FiniteSets, SequencesExt

CONSTANTS Threads,      \* the threads that call run()
          Descriptors,  \* sockets registered with the reactor
          Posts,        \* handlers that are posted, one time each
          Outside,      \* a thread that posts and stops, but never calls run()
          None,
          MaxArrivals   \* bound: events of each descriptor

ASSUME IoContextAssumption ==
    /\ IsFiniteSet(Threads) /\ IsFiniteSet(Descriptors)
    /\ Outside \notin Threads
    /\ None \notin Descriptors \cup Posts
    /\ Descriptors \cap Posts = {}
    /\ MaxArrivals \in Nat

VARIABLES queue,        \* op_queue_: Task, descriptors to look at, completed calls
          interrupted,  \* task_interrupted_
          work,         \* outstanding_work_
          stopped,      \* stopped_
          signalled,    \* the low bit of wakeup_event_.state_
          owes,         \* who has unlocked but not yet called pthread_cond_signal
          pc,           \* what each thread does next
          block,        \* the thread polls with no timeout
          cur,          \* the element of the queue a thread works on
          private,      \* private_op_queue of each thread
          credit,       \* private_outstanding_work of each thread
          pushing,      \* what a thread is about to post
          wakeup,       \* the interrupter's descriptor has an event
          event,        \* descriptors with an event epoll has not reported
          data,         \* what could be read from each descriptor
          pending,      \* descriptors with an operation in their op_queue_
          speculate,    \* try_speculative_
          shut,         \* shutdown_: descriptors that were closed
          arrivals,     \* history: events of each descriptor
          posted,       \* history: handlers that were posted
          asked         \* history: stop() was called from outside

scheduler == <<queue, interrupted, work, stopped>>
condition == <<signalled, owes>>
thread == <<pc, block, cur, private, credit, pushing>>
reactor == <<wakeup, event, data, pending, speculate, shut>>
history == <<arrivals, posted, asked>>
vars == <<scheduler, condition, thread, reactor, history>>

Actors == Threads \cup {Outside}
Ops == Descriptors \cup Posts

\* Elements of the queues.
Task == <<"task", None>>
Look(d) == <<"look", d>>   \* a descriptor_state with ready events
Call(o) == <<"call", o>>   \* an operation that has completed
Elements == {Task} \cup {Look(d) : d \in Descriptors} \cup {Call(o) : o \in Ops}

ASSUME NoneIsNoElement == None \notin Elements

\* The acceptors have been opened and armed, no thread runs yet.
Init ==
    /\ queue = <<Task>>
    /\ interrupted = TRUE
    /\ pending \in SUBSET Descriptors
    /\ work = Cardinality(pending)
    /\ stopped = FALSE
    /\ signalled = FALSE
    /\ owes = {}
    /\ pc = [t \in Threads |-> "run"]
    /\ block = [t \in Threads |-> FALSE]
    /\ cur = [t \in Threads |-> None]
    /\ private = [t \in Threads |-> <<>>]
    /\ credit = [t \in Threads |-> 0]
    /\ pushing = [a \in Actors |-> None]
    /\ wakeup = FALSE
    /\ event = {}
    /\ data = [d \in Descriptors |-> 0]
    /\ speculate = [d \in Descriptors |-> TRUE]
    /\ shut = {}
    /\ arrivals = [d \in Descriptors |-> 0]
    /\ posted = {}
    /\ asked = FALSE

-----------------------------------------------------------------------------
(* The condition variable.                                                  *)

\* Threads counted in state_: a thread that was woken is counted until it has
\* the mutex again.
Waiters == {t \in Threads : pc[t] \in {"waiting", "woken"}}

\* maybe_unlock_and_signal_one, or else the polling thread is interrupted.
\* Mutant: only the thread in the reactor is thought of.
wake_one_thread_and_unlock_Reactor(a, waiters, was) ==
    /\ signalled' = signalled
    /\ owes' = owes
    /\ interrupted' = TRUE
    /\ wakeup' = (wakeup \/ ~was)

wake_one_thread_and_unlock(a, waiters, was) ==
    /\ signalled' = TRUE
    /\ IF waiters # {}
         THEN owes' = owes \cup {a} /\ interrupted' = was /\ UNCHANGED wakeup
         ELSE /\ interrupted' = TRUE
              /\ wakeup' = (wakeup \/ ~was)
              /\ UNCHANGED owes

\* pthread_cond_signal wakes a sleeper, if there is one.
Signal(a) ==
    /\ a \in owes
    /\ owes' = owes \ {a}
    /\ LET asleep == {t \in Threads : pc[t] = "waiting"}
       IN  \/ asleep = {} /\ UNCHANGED pc
           \/ \E t \in asleep : pc' = [pc EXCEPT ![t] = "woken"]
    /\ UNCHANGED <<scheduler, signalled, block, cur, private, credit, pushing, reactor, history>>

\* pthread_cond_wait may return without a signal.
Spurious(t) ==
    /\ pc[t] = "waiting"
    /\ pc' = [pc EXCEPT ![t] = "woken"]
    /\ UNCHANGED <<scheduler, condition, block, cur, private, credit, pushing, reactor, history>>

\* Mutant: the event is set but its sleepers are not woken.
StopAll_Quietly(next) ==
    /\ stopped' = TRUE
    /\ signalled' = TRUE
    /\ pc' = next
    /\ interrupted' = TRUE
    /\ wakeup' = (wakeup \/ ~interrupted)

\* stop_all_threads, under the lock.
StopAll(next) ==
    /\ stopped' = TRUE
    /\ signalled' = TRUE
    /\ pc' = [t \in Threads |-> IF pc[t] = "waiting" THEN "woken" ELSE next[t]]
    /\ interrupted' = TRUE
    /\ wakeup' = (wakeup \/ ~interrupted)

-----------------------------------------------------------------------------
(* do_run_one.                                                              *)

\* One pass of its loop with the lock held, on the queue q and with
\* task_interrupted_ = was; the lock is released at the end of it.
LoopBody(t, q, was) ==
    LET others == Waiters \ {t}
        more == Tail(q) # <<>>
    IN  \/ /\ stopped
           /\ pc' = [pc EXCEPT ![t] = "returned"]
           /\ queue' = q
           /\ interrupted' = was
           /\ UNCHANGED <<condition, block, cur, wakeup>>
        \/ /\ ~stopped
           /\ q = <<>>
           /\ signalled' = FALSE
           /\ pc' = [pc EXCEPT ![t] = "waiting"]
           /\ queue' = q
           /\ interrupted' = was
           /\ UNCHANGED <<owes, block, cur, wakeup>>
        \/ /\ ~stopped
           /\ q # <<>>
           /\ Head(q) = Task
           /\ queue' = Tail(q)
           /\ interrupted' = more
           /\ signalled' = (signalled \/ more)
           /\ owes' = IF more /\ others # {} THEN owes \cup {t} ELSE owes
           /\ pc' = [pc EXCEPT ![t] = "poll"]
           /\ block' = [block EXCEPT ![t] = ~more]
           /\ UNCHANGED <<cur, wakeup>>
        \/ /\ ~stopped
           /\ q # <<>>
           /\ Head(q) # Task
           /\ queue' = Tail(q)
           /\ IF more
                THEN wake_one_thread_and_unlock(t, others, was)
                ELSE interrupted' = was /\ UNCHANGED <<condition, wakeup>>
           /\ cur' = [cur EXCEPT ![t] = Head(q)]
           /\ pc' = [pc EXCEPT ![t] = IF Head(q)[1] = "look" THEN "look" ELSE "handler"]
           /\ UNCHANGED block

\* run: without work it stops the scheduler and returns.
Run(t) ==
    /\ pc[t] = "run"
    /\ pc' = [pc EXCEPT ![t] = IF work = 0 THEN "stop" ELSE "lock"]
    /\ UNCHANGED <<scheduler, condition, block, cur, private, credit, pushing, reactor, history>>

LockAndLoop(t) ==
    /\ pc[t] = "lock"
    /\ t \notin owes
    /\ LoopBody(t, queue \o private[t], interrupted)
    /\ private' = [private EXCEPT ![t] = <<>>]
    /\ UNCHANGED <<work, stopped, credit, pushing, event, data, pending, speculate, shut, history>>

\* posix_event::wait has the mutex again: it sleeps on unless the event is set.
Wake(t) ==
    /\ pc[t] = "woken"
    /\ IF signalled
         THEN LoopBody(t, queue, interrupted)
         ELSE /\ pc' = [pc EXCEPT ![t] = "waiting"]
              /\ UNCHANGED <<queue, interrupted, condition, block, cur, wakeup>>
    /\ UNCHANGED <<work, stopped, private, credit, pushing, event, data, pending, speculate, shut, history>>

-----------------------------------------------------------------------------
(* The reactor.                                                             *)

\* epoll_wait reports every event there is, in some order.
Poll(t) ==
    /\ pc[t] = "poll"
    /\ t \notin owes
    /\ block[t] => wakeup \/ event # {}
    /\ \E s \in SetToSeqs(event) :
         private' = [private EXCEPT ![t] = [i \in 1..Cardinality(event) |-> Look(s[i])]]
    /\ wakeup' = FALSE
    /\ event' = {}
    /\ pc' = [pc EXCEPT ![t] = "polled"]
    /\ UNCHANGED <<scheduler, condition, block, cur, credit, pushing,
                   data, pending, speculate, shut, history>>

\* task_cleanup: the task goes back behind what it found.
Requeued(t) == queue \o private[t] \o <<Task>>

\* task_cleanup, and the loop goes on with the lock held.
Polled(t) ==
    /\ pc[t] = "polled"
    /\ LoopBody(t, Requeued(t), TRUE)
    /\ private' = [private EXCEPT ![t] = <<>>]
    /\ UNCHANGED <<work, stopped, credit, pushing, event, data, pending, speculate, shut, history>>

\* An operation is tried: it takes some of the data.  With done_and_exhausted
\* the next one waits for an event before it tries.  Mutant: it always does.
Performed_Exhausts(d) ==
    /\ \E n \in 1..data[d] : data' = [data EXCEPT ![d] = @ - n]
    /\ speculate' = [speculate EXCEPT ![d] = FALSE]
Performed(d) ==
    \E n \in 1..data[d], exhausted \in BOOLEAN :
      /\ exhausted => n = data[d]
      /\ data' = [data EXCEPT ![d] = @ - n]
      /\ speculate' = [speculate EXCEPT ![d] = ~exhausted]

\* Mutants: an event without an operation is forgotten; the work that is taken
\* off for it was not added.
PerformIo_Forgets(t) ==
    /\ pc[t] = "look"
    /\ t \notin owes
    /\ LET d == cur[t][2]
       IN  IF d \in pending /\ data[d] > 0
             THEN /\ Performed(d)
                  /\ pending' = pending \ {d}
                  /\ cur' = [cur EXCEPT ![t] = Call(d)]
                  /\ pc' = [pc EXCEPT ![t] = "handler"]
                  /\ UNCHANGED credit
             ELSE /\ credit' = [credit EXCEPT ![t] = @ + 1]
                  /\ pc' = [pc EXCEPT ![t] = "done"]
                  /\ UNCHANGED <<data, speculate, pending, cur>>
    /\ UNCHANGED <<scheduler, condition, block, private, pushing, wakeup, event, shut, history>>

PerformIo_Uncounted(t) ==
    /\ pc[t] = "look"
    /\ t \notin owes
    /\ LET d == cur[t][2]
       IN  IF d \in pending /\ data[d] > 0
             THEN /\ Performed(d)
                  /\ pending' = pending \ {d}
                  /\ cur' = [cur EXCEPT ![t] = Call(d)]
                  /\ pc' = [pc EXCEPT ![t] = "handler"]
                  /\ UNCHANGED credit
             ELSE /\ speculate' = [speculate EXCEPT ![d] = TRUE]
                  /\ pc' = [pc EXCEPT ![t] = "done"]
                  /\ UNCHANGED <<data, pending, cur, credit>>
    /\ UNCHANGED <<scheduler, condition, block, private, pushing, wakeup, event, shut, history>>

\* descriptor_state::do_complete and perform_io.  An operation that completes is
\* called at once; without one, the work that will be taken off is added first.
PerformIo(t) ==
    /\ pc[t] = "look"
    /\ t \notin owes
    /\ LET d == cur[t][2]
       IN  IF d \in pending /\ data[d] > 0
             THEN /\ Performed(d)
                  /\ pending' = pending \ {d}
                  /\ cur' = [cur EXCEPT ![t] = Call(d)]
                  /\ pc' = [pc EXCEPT ![t] = "handler"]
                  /\ UNCHANGED credit
             ELSE /\ speculate' = [speculate EXCEPT ![d] = TRUE]
                  /\ credit' = [credit EXCEPT ![t] = @ + 1]
                  /\ pc' = [pc EXCEPT ![t] = "done"]
                  /\ UNCHANGED <<data, pending, cur>>
    /\ UNCHANGED <<scheduler, condition, block, private, pushing, wakeup, event, shut, history>>

\* Data, a connection or room to write: epoll is edge-triggered.
Arrive(d) ==
    /\ d \notin shut
    /\ arrivals[d] < MaxArrivals
    /\ arrivals' = [arrivals EXCEPT ![d] = @ + 1]
    /\ data' = [data EXCEPT ![d] = @ + 1]
    /\ event' = event \cup {d}
    /\ UNCHANGED <<scheduler, condition, thread, wakeup, pending, speculate, shut, posted, asked>>

-----------------------------------------------------------------------------
(* What handlers and other threads call.                                    *)

InHandler(t) == pc[t] \in {"handler", "handled"} /\ t \notin owes /\ pushing[t] = None

InQueue(q, e) == \E i \in 1..Len(q) : q[i] = e

\* Operations that have completed and were not called yet.
Queued ==
    {o \in Ops : \/ InQueue(queue, Call(o))
                 \/ \E t \in Threads : InQueue(private[t], Call(o))
                 \/ \E a \in Actors : pushing[a] = Call(o)}

\* The operation has completed at once.  A continuation stays with the thread,
\* any other one is pushed after the work was counted.
on_immediate(t, o) ==
    \/ /\ private' = [private EXCEPT ![t] = Append(@, Call(o))]
       /\ credit' = [credit EXCEPT ![t] = @ + 1]
       /\ UNCHANGED <<work, pushing>>
    \/ /\ work' = work + 1
       /\ pushing' = [pushing EXCEPT ![t] = Call(o)]
       /\ UNCHANGED <<private, credit>>

\* start_op: the handler of a descriptor starts the next operation on it.
StartOp(t) ==
    /\ InHandler(t)
    /\ pc[t] = "handler"
    /\ cur[t][2] \in Descriptors \ (pending \cup Queued)
    /\ pc' = [pc EXCEPT ![t] = "handled"]
    /\ LET d == cur[t][2]
       IN  \/ d \in shut /\ on_immediate(t, d) /\ UNCHANGED <<data, pending, speculate>>
           \/ /\ d \notin shut /\ speculate[d] /\ data[d] > 0
              /\ Performed(d)
              /\ on_immediate(t, d)
              /\ UNCHANGED pending
           \/ /\ d \notin shut /\ ~(speculate[d] /\ data[d] > 0)
              /\ pending' = pending \cup {d}
              /\ work' = work + 1
              /\ UNCHANGED <<data, speculate, private, credit, pushing>>
    /\ UNCHANGED <<queue, interrupted, stopped, condition, block, cur, wakeup, event, shut, history>>

\* post_immediate_completion of a function.
PostFrom(t) ==
    /\ InHandler(t)
    /\ \E p \in Posts \ posted : posted' = posted \cup {p} /\ on_immediate(t, p)
    /\ UNCHANGED <<queue, interrupted, stopped, condition, pc, block, cur, reactor, arrivals, asked>>

PostOutside ==
    /\ pushing[Outside] = None
    /\ \E p \in Posts \ posted :
         /\ posted' = posted \cup {p}
         /\ pushing' = [pushing EXCEPT ![Outside] = Call(p)]
    /\ work' = work + 1
    /\ UNCHANGED <<queue, interrupted, stopped, condition, pc, block, cur, private, credit,
                   reactor, arrivals, asked>>

\* The second half of a post, and all of post_deferred_completions.
Push(a) ==
    /\ pushing[a] # None
    /\ a \notin owes
    /\ queue' = Append(queue, pushing[a])
    /\ pushing' = [pushing EXCEPT ![a] = None]
    /\ wake_one_thread_and_unlock(a, Waiters, interrupted)
    /\ UNCHANGED <<work, stopped, pc, block, cur, private, credit,
                   event, data, pending, speculate, shut, history>>

\* Mutant: the work of an operation that is aborted is counted again.
Close_Counts(t) ==
    /\ InHandler(t)
    /\ \E d \in Descriptors \ shut :
         /\ shut' = shut \cup {d}
         /\ pending' = pending \ {d}
         /\ event' = event \ {d}
         /\ pushing' = IF d \in pending THEN [pushing EXCEPT ![t] = Call(d)] ELSE pushing
         /\ work' = IF d \in pending THEN work + 1 ELSE work
    /\ UNCHANGED <<queue, interrupted, stopped, condition, pc, block, cur, private, credit,
                   wakeup, data, speculate, history>>

\* deregister_descriptor: a handler closes a socket; the operation that waits
\* on it completes with operation_aborted.  Its work was counted at its start.
Close(t) ==
    /\ InHandler(t)
    /\ \E d \in Descriptors \ shut :
         /\ shut' = shut \cup {d}
         /\ pending' = pending \ {d}
         /\ event' = event \ {d}
         /\ pushing' = IF d \in pending THEN [pushing EXCEPT ![t] = Call(d)] ELSE pushing
    /\ UNCHANGED <<scheduler, condition, pc, block, cur, private, credit,
                   wakeup, data, speculate, history>>

Finish(t) ==
    /\ InHandler(t)
    /\ pc' = [pc EXCEPT ![t] = "done"]
    /\ UNCHANGED <<scheduler, condition, block, cur, private, credit, pushing, reactor, history>>

\* work_cleanup: the handler's own work against the work it started.  Only a
\* handler that started nothing may be the last one.
Remaining(t) == work + credit[t] - 1

WorkCleanup(t) ==
    /\ pc[t] = "done"
    /\ work' = Remaining(t)
    /\ credit' = [credit EXCEPT ![t] = 0]
    /\ cur' = [cur EXCEPT ![t] = None]
    /\ pc' = [pc EXCEPT ![t] = IF credit[t] = 0 /\ work' = 0 THEN "stop" ELSE "lock"]
    /\ UNCHANGED <<queue, interrupted, stopped, condition, block, private, pushing, reactor, history>>

\* stop(), because no work is left; the loop then sees stopped_.
StopSelf(t) ==
    /\ pc[t] = "stop"
    /\ StopAll([pc EXCEPT ![t] = "lock"])
    /\ UNCHANGED <<queue, work, owes, block, cur, private, credit, pushing,
                   event, data, pending, speculate, shut, history>>

\* io_context::stop from another thread.
StopOutside ==
    /\ Outside \notin owes
    /\ ~asked
    /\ asked' = TRUE
    /\ StopAll(pc)
    /\ UNCHANGED <<queue, work, owes, block, cur, private, credit, pushing,
                   event, data, pending, speculate, shut, arrivals, posted>>

LoopStep(t) ==
    \/ Run(t) \/ LockAndLoop(t) \/ Wake(t) \/ Poll(t) \/ Polled(t) \/ PerformIo(t)
    \/ WorkCleanup(t) \/ StopSelf(t)

HandlerStep(t) == StartOp(t) \/ PostFrom(t) \/ Close(t)

Done == /\ \A t \in Threads : pc[t] = "returned"
        /\ UNCHANGED vars

Next ==
    \/ \E t \in Threads : LoopStep(t) \/ HandlerStep(t) \/ Finish(t) \/ Spurious(t)
    \/ \E a \in Actors : Push(a) \/ Signal(a)
    \/ \E d \in Descriptors : Arrive(d)
    \/ PostOutside \/ StopOutside
    \/ Done

Spec == Init /\ [][Next]_vars

\* Threads run, and handlers come to their end.
FairSpec ==
    /\ Spec
    /\ \A t \in Threads : WF_vars(LoopStep(t)) /\ WF_vars(Finish(t))
    /\ \A a \in Actors : WF_vars(Push(a)) /\ WF_vars(Signal(a))

-----------------------------------------------------------------------------
(* Properties.                                                              *)

Labels == {"run", "lock", "waiting", "woken", "poll", "polled", "look", "handler",
           "handled", "done", "stop", "returned"}

\* The types of the members of scheduler, of its threads and of the reactor.
TypeOK ==
    /\ queue \in Seq(Elements)
    /\ interrupted \in BOOLEAN
    /\ work \in Nat
    /\ stopped \in BOOLEAN
    /\ signalled \in BOOLEAN
    /\ owes \in SUBSET Actors
    /\ pc \in [Threads -> Labels]
    /\ block \in [Threads -> BOOLEAN]
    /\ cur \in [Threads -> Elements \cup {None}]
    /\ private \in [Threads -> Seq(Elements)]
    /\ credit \in [Threads -> Nat]
    /\ pushing \in [Actors -> Elements \cup {None}]
    /\ wakeup \in BOOLEAN
    /\ event \in SUBSET Descriptors
    /\ data \in [Descriptors -> Nat]
    /\ pending \in SUBSET Descriptors
    /\ speculate \in [Descriptors -> BOOLEAN]
    /\ shut \in SUBSET Descriptors
    /\ arrivals \in [Descriptors -> Nat]
    /\ posted \in SUBSET Posts
    /\ asked \in BOOLEAN

InHandlerOrDone == {t \in Threads : pc[t] \in {"handler", "handled", "done"}}

\* What a handler has started and its thread has not counted yet.
Kept(t) == IF t \in InHandlerOrDone THEN {o \in Ops : InQueue(private[t], Call(o))} ELSE {}

\* Threads with a handler of an operation, which is counted until it has ended.
Busy == {t \in InHandlerOrDone : cur[t][1] = "call"}

\* The counter of work is the number of operations that wait or have completed,
\* and of handlers that have not ended, but for what threads hold back; and
\* they hold back what they will add: run() can neither return while something may
\* still happen nor wait for something that will not.
WorkIsCounted ==
    /\ work = Cardinality((pending \cup Queued) \ UNION {Kept(t) : t \in Threads}) + Cardinality(Busy)
    /\ \A t \in Threads :
         credit[t] = Cardinality(Kept(t)) + (IF pc[t] = "done" /\ t \notin Busy THEN 1 ELSE 0)

Asleep == {t \in Threads : pc[t] = "waiting" \/ (pc[t] = "poll" /\ t \notin owes /\ block[t] /\ ~wakeup /\ event = {})}
Coming == {t \in Threads : pc[t] \in {"lock", "woken", "polled"}}

\* While something is queued no thread sleeps, in the condition variable or in
\* the reactor, unless another thread is about to look at the queue or a signal is
\* on its way to the sleeper; and after stop() nobody sleeps.
IdleThreadIsCalled ==
    /\ queue # <<>> /\ Asleep # {} => Coming # {} \/ owes # {}
    /\ stopped => Asleep = {}

\* The edge-triggered event of data that a pending operation could take is never
\* lost: epoll has it, or the descriptor is on its way to perform_io.
NoLostEvent ==
    \A d \in pending :
      data[d] > 0 => \/ d \in event
                     \/ InQueue(queue, Look(d))
                     \/ \E t \in Threads : InQueue(private[t], Look(d)) \/ (pc[t] = "look" /\ cur[t] = Look(d))

\* The comment in epoll_reactor::run: when the reactor is polled, the descriptors
\* it returned before have been dequeued and may be queued again.
DescriptorsDequeued ==
    \A t \in Threads : pc[t] = "poll" =>
      \A d \in Descriptors : ~InQueue(queue, Look(d)) /\ \A u \in Threads : ~InQueue(private[u], Look(d))

\* Events take one way from epoll to the operation that waits for them: none gets
\* lost, and no descriptor is queued again before it was taken out.
EventsKept == TypeOK /\ NoLostEvent /\ DescriptorsDequeued

\* A completed operation is called, and data that a pending one could take is
\* taken, or the loop is stopped.
CompletedIsCalled ==
    \A o \in Ops : o \in Queued ~> ((\E t \in Threads : cur[t] = Call(o)) \/ stopped)
DataIsTaken ==
    \A d \in Descriptors : d \in pending /\ data[d] > 0 ~> (d \notin pending \/ stopped)

\* Whatever can go on does go on, until the loop is stopped.
NothingWaitsForEver == CompletedIsCalled /\ DataIsTaken

\* Once the loop is stopped every thread comes back from run().
StopEndsTheLoop == stopped ~> \A t \in Threads : pc[t] = "returned"

\* The loop as RunLoop sees it.
LoopOp == [o \in Ops |-> IF o \in pending THEN "pending" ELSE IF o \in Queued THEN "ready" ELSE "idle"]
LoopRunning == [t \in Threads |-> IF t \in Busy THEN cur[t][2] ELSE None]
LoopAt == [t \in Threads |-> IF pc[t] = "returned" THEN "returned"
                             ELSE IF pc[t] \in {"poll", "polled", "look", "handler", "handled", "done"}
                                    THEN "turn" ELSE "outside"]
LoopEnding == IF asked THEN "asked"
              ELSE IF stopped \/ \E t \in Threads : pc[t] = "stop" THEN "drained" ELSE "no"

Loop == INSTANCE RunLoop WITH op <- LoopOp, running <- LoopRunning, at <- LoopAt, ending <- LoopEnding

\* Each step is one that RunLoop promises.
KeepsThePromise == Loop!LoopSpec

=============================================================================
