---------------------------- MODULE IoContextProofs ----------------------------
(***************************************************************************)
(* Proofs about the event loop for any number of threads, descriptors and    *)
(* posted functions: the counter of work is exact, no event is lost, no idle *)
(* thread is forgotten, and the loop keeps the promises of RunLoop.          *)
(***************************************************************************)
EXTENDS IoContext, FiniteSetTheorems, SequenceTheorems, TLAPS

-----------------------------------------------------------------------------
(* Elements and queues.                                                     *)

LEMMA ElementParts ==
    /\ Task[1] = "task"
    /\ \A x : Look(x)[1] = "look" /\ Look(x)[2] = x
    /\ \A x : Call(x)[1] = "call" /\ Call(x)[2] = x
BY DEF Task, Look, Call

LEMMA ElementKinds ==
    /\ Task \in Elements
    /\ \A d \in Descriptors : Look(d) \in Elements
    /\ \A o \in Ops : Call(o) \in Elements
    /\ \A e \in Elements :
         \/ e = Task /\ e[1] = "task"
         \/ e[1] = "look" /\ e[2] \in Descriptors /\ e = Look(e[2])
         \/ e[1] = "call" /\ e[2] \in Ops /\ e = Call(e[2])
<1>1. ASSUME NEW e \in Elements
      PROVE  e = Task \/ (\E d \in Descriptors : e = Look(d)) \/ \E o \in Ops : e = Call(o)
  BY DEF Elements
<1> QED
  BY <1>1, ElementParts DEF Elements

\* An element that is in a queue once.
Once(q, e) == \A i, j \in 1..Len(q) : q[i] = e /\ q[j] = e => i = j

\* Descriptors are in front of the reactor's own element.
LooksFirst(q) ==
    \A i, j \in 1..Len(q) : \A d \in Descriptors : q[i] = Look(d) /\ q[j] = Task => i < j

LEMMA QueueTypes ==
    ASSUME NEW q \in Seq(Elements)
    PROVE  /\ \A r \in Seq(Elements) : q \o r \in Seq(Elements)
           /\ \A e \in Elements : Append(q, e) \in Seq(Elements)
           /\ q # <<>> => Head(q) \in Elements /\ Tail(q) \in Seq(Elements)
           /\ \A e : InQueue(q, e) => e \in Elements
BY DEF InQueue

LEMMA ConcatPlaces ==
    ASSUME NEW q \in Seq(Elements), NEW r \in Seq(Elements)
    PROVE  /\ \A e : InQueue(q \o r, e) <=> InQueue(q, e) \/ InQueue(r, e)
           /\ \A e : Once(q, e) /\ Once(r, e) /\ ~(InQueue(q, e) /\ InQueue(r, e)) => Once(q \o r, e)
<1>1. /\ Len(q \o r) = Len(q) + Len(r) /\ Len(q) \in Nat /\ Len(r) \in Nat
      /\ \A i \in 1..Len(q) : (q \o r)[i] = q[i]
      /\ \A i \in 1..Len(r) : (q \o r)[Len(q) + i] = r[i] /\ Len(q) + i \in 1..Len(q \o r)
  OBVIOUS
<1>2. \A i \in 1..Len(q \o r) :
        \/ i \in 1..Len(q) /\ (q \o r)[i] = q[i]
        \/ i - Len(q) \in 1..Len(r) /\ (q \o r)[i] = r[i - Len(q)]
  OBVIOUS
<1>3. ASSUME NEW e
      PROVE  InQueue(q \o r, e) <=> InQueue(q, e) \/ InQueue(r, e)
  <2>1. InQueue(q \o r, e) => InQueue(q, e) \/ InQueue(r, e)
    BY <1>2 DEF InQueue
  <2>2. InQueue(q, e) => InQueue(q \o r, e)
    BY <1>1 DEF InQueue
  <2>3. InQueue(r, e) => InQueue(q \o r, e)
    BY <1>1 DEF InQueue
  <2> QED
    BY <2>1, <2>2, <2>3
<1>4. ASSUME NEW e, Once(q, e), Once(r, e), ~(InQueue(q, e) /\ InQueue(r, e)),
             NEW i \in 1..Len(q \o r), NEW j \in 1..Len(q \o r), (q \o r)[i] = e, (q \o r)[j] = e
      PROVE  i = j
  <2>1. CASE i \in 1..Len(q) /\ j \in 1..Len(q)
    BY <1>1, <1>4, <2>1 DEF Once
  <2>2. CASE i - Len(q) \in 1..Len(r) /\ j - Len(q) \in 1..Len(r)
    <3>1. r[i - Len(q)] = e /\ r[j - Len(q)] = e
      BY <1>2, <1>4, <2>2
    <3>2. i - Len(q) = j - Len(q)
      BY <1>4, <2>2, <3>1 DEF Once
    <3> QED
      BY <1>1, <3>2
  <2>3. CASE i \in 1..Len(q) /\ j - Len(q) \in 1..Len(r)
    BY <1>2, <1>4, <2>3 DEF InQueue
  <2>4. CASE i - Len(q) \in 1..Len(r) /\ j \in 1..Len(q)
    BY <1>2, <1>4, <2>4 DEF InQueue
  <2> QED
    BY <1>2, <2>1, <2>2, <2>3, <2>4
<1> QED
  BY <1>3, <1>4 DEF Once

LEMMA AppendPlaces ==
    ASSUME NEW q \in Seq(Elements), NEW x \in Elements
    PROVE  /\ \A e : InQueue(Append(q, x), e) <=> InQueue(q, e) \/ e = x
           /\ \A e : Once(q, e) /\ ~(e = x /\ InQueue(q, e)) => Once(Append(q, x), e)
<1>1. /\ Len(Append(q, x)) = Len(q) + 1 /\ Len(q) \in Nat
      /\ \A i \in 1..Len(q) : Append(q, x)[i] = q[i]
      /\ Append(q, x)[Len(q) + 1] = x
  OBVIOUS
<1>2. 1..(Len(q) + 1) = 1..Len(q) \cup {Len(q) + 1} /\ Len(q) + 1 \notin 1..Len(q)
  BY <1>1
<1> QED
  BY <1>1, <1>2 DEF InQueue, Once

LEMMA TailPlaces ==
    ASSUME NEW q \in Seq(Elements), q # <<>>
    PROVE  /\ \A e : InQueue(q, e) <=> InQueue(Tail(q), e) \/ e = Head(q)
           /\ \A e : Once(q, e) => Once(Tail(q), e)
           /\ \A e : Once(q, e) /\ e = Head(q) => ~InQueue(Tail(q), e)
           /\ LooksFirst(q) => LooksFirst(Tail(q))
           /\ LooksFirst(q) /\ Head(q) = Task => \A d \in Descriptors : ~InQueue(Tail(q), Look(d))
<1>1. /\ Len(Tail(q)) = Len(q) - 1 /\ Len(q) \in Nat /\ Len(q) >= 1
      /\ \A i \in 1..Len(Tail(q)) : Tail(q)[i] = q[i + 1] /\ i + 1 \in 1..Len(q)
      /\ Head(q) = q[1] /\ 1 \in 1..Len(q)
  OBVIOUS
<1>2. \A i \in 1..Len(q) : i = 1 \/ (i - 1 \in 1..Len(Tail(q)) /\ Tail(q)[i - 1] = q[i])
  BY <1>1
<1>3. \A e : InQueue(q, e) <=> InQueue(Tail(q), e) \/ e = Head(q)
  <2>1. ASSUME NEW e, InQueue(q, e) PROVE InQueue(Tail(q), e) \/ e = Head(q)
    BY <1>1, <1>2, <2>1 DEF InQueue
  <2>2. ASSUME NEW e, InQueue(Tail(q), e) \/ e = Head(q) PROVE InQueue(q, e)
    BY <1>1, <2>2 DEF InQueue
  <2> QED
    BY <2>1, <2>2
<1>4. ASSUME NEW e, Once(q, e), NEW i \in 1..Len(Tail(q)), Tail(q)[i] = e
      PROVE  e # Head(q) /\ \A j \in 1..Len(Tail(q)) : Tail(q)[j] = e => i = j
  <2>1. q[i + 1] = e /\ i + 1 \in 1..Len(q)
    BY <1>1, <1>4
  <2>2. \A j \in 1..Len(q) : q[j] = e => i + 1 = j
    BY <1>4, <2>1 DEF Once
  <2> QED
    BY <1>1, <2>2
<1>5. LooksFirst(q) => LooksFirst(Tail(q))
  <2> SUFFICES ASSUME LooksFirst(q), NEW i \in 1..Len(Tail(q)), NEW j \in 1..Len(Tail(q)),
                      NEW d \in Descriptors, Tail(q)[i] = Look(d), Tail(q)[j] = Task
               PROVE  i < j
    BY DEF LooksFirst
  <2>1. q[i + 1] = Look(d) /\ q[j + 1] = Task /\ i + 1 \in 1..Len(q) /\ j + 1 \in 1..Len(q)
    BY <1>1
  <2>2. i + 1 < j + 1
    BY <2>1 DEF LooksFirst
  <2> QED
    BY <1>1, <2>2
<1>6. ASSUME LooksFirst(q), Head(q) = Task, NEW d \in Descriptors, NEW i \in 1..Len(Tail(q)),
             Tail(q)[i] = Look(d)
      PROVE  FALSE
  <2>1. q[i + 1] = Look(d) /\ i + 1 \in 1..Len(q) /\ q[1] = Task /\ 1 \in 1..Len(q)
    BY <1>1, <1>6
  <2>2. i + 1 < 1
    BY <1>6, <2>1 DEF LooksFirst
  <2> QED
    BY <1>1, <2>2
<1>7. \A e : Once(q, e) => Once(Tail(q), e)
  BY <1>4 DEF Once
<1>8. \A e : Once(q, e) /\ e = Head(q) => ~InQueue(Tail(q), e)
  BY <1>4 DEF InQueue
<1>9. LooksFirst(q) /\ Head(q) = Task => \A d \in Descriptors : ~InQueue(Tail(q), Look(d))
  BY <1>6 DEF InQueue
<1> QED
  BY <1>3, <1>5, <1>7, <1>8, <1>9

\* Calls may be put behind anything.
LEMMA CallsBehind ==
    ASSUME NEW q \in Seq(Elements), LooksFirst(q), NEW r \in Seq(Elements),
           \A e : InQueue(r, e) => e[1] = "call"
    PROVE  LooksFirst(q \o r)
<1> SUFFICES ASSUME NEW i \in 1..Len(q \o r), NEW j \in 1..Len(q \o r), NEW d \in Descriptors,
                    (q \o r)[i] = Look(d), (q \o r)[j] = Task
             PROVE  i < j
  BY DEF LooksFirst
<1>1. \A k \in 1..Len(q \o r) :
        \/ k \in 1..Len(q) /\ (q \o r)[k] = q[k]
        \/ k - Len(q) \in 1..Len(r) /\ (q \o r)[k] = r[k - Len(q)]
  OBVIOUS
<1>2. Look(d)[1] # "call" /\ Task[1] # "call"
  BY ElementParts
<1>3. i \in 1..Len(q) /\ j \in 1..Len(q)
  BY <1>1, <1>2 DEF InQueue
<1> QED
  BY <1>1, <1>3 DEF LooksFirst

\* The reactor's own element goes behind everything.
LEMMA TaskBehind ==
    ASSUME NEW q \in Seq(Elements), ~InQueue(q, Task)
    PROVE  LooksFirst(Append(q, Task))
<1> SUFFICES ASSUME NEW i \in 1..Len(Append(q, Task)), NEW j \in 1..Len(Append(q, Task)),
                    NEW d \in Descriptors, Append(q, Task)[i] = Look(d), Append(q, Task)[j] = Task
             PROVE  i < j
  BY DEF LooksFirst
<1>1. /\ Len(Append(q, Task)) = Len(q) + 1 /\ Len(q) \in Nat
      /\ \A k \in 1..Len(q) : Append(q, Task)[k] = q[k]
      /\ Append(q, Task)[Len(q) + 1] = Task
  OBVIOUS
<1>2. Look(d) # Task
  BY ElementParts
<1>3. j \notin 1..Len(q)
  BY <1>1 DEF InQueue
<1>4. i # Len(q) + 1
  BY <1>1, <1>2
<1> QED
  BY <1>1, <1>3, <1>4

-----------------------------------------------------------------------------
(* Invariants, and one pass of the loop.                                    *)

Polling(t) == pc[t] \in {"poll", "polled"}

\* What a thread has in its hands at each of its steps.
StepFits(t) ==
    /\ pc[t] = "look" => \E d \in Descriptors : cur[t] = Look(d)
    /\ pc[t] \in {"handler", "handled"} => \E o \in Ops : cur[t] = Call(o)
    /\ pc[t] = "done" => \/ \E o \in Ops : cur[t] = Call(o)
                         \/ private[t] = <<>> /\ \E d \in Descriptors : cur[t] = Look(d)
    /\ pc[t] \in {"run", "waiting", "woken", "poll", "look", "returned"} => private[t] = <<>>
    /\ \A e : InQueue(private[t], e) => e[1] = (IF pc[t] = "polled" THEN "look" ELSE "call")

TypeInv ==
    /\ TypeOK
    /\ IsFiniteSet(posted)
    /\ \A a \in Actors : pushing[a] = None \/ \E o \in Ops : pushing[a] = Call(o)

FitInv == \A t \in Threads : StepFits(t)

\* There is one reactor: it is in the queue or with one thread, and the descriptors
\* it found are in front of it.
ReactorInv ==
    /\ Once(queue, Task)
    /\ LooksFirst(queue)
    /\ \A t, u \in Threads : Polling(t) /\ Polling(u) => t = u
    /\ \A t \in Threads : Polling(t) =>
         ~InQueue(queue, Task) /\ \A d \in Descriptors : ~InQueue(queue, Look(d))

\* An operation is in one place.
OnePlace(o) ==
    /\ Once(queue, Call(o))
    /\ \A t \in Threads : Once(private[t], Call(o))
    /\ InQueue(queue, Call(o)) =>
         /\ \A t \in Threads : ~InQueue(private[t], Call(o))
         /\ \A a \in Actors : pushing[a] # Call(o)
    /\ \A t \in Threads : InQueue(private[t], Call(o)) =>
         /\ \A u \in Threads : InQueue(private[u], Call(o)) => t = u
         /\ \A a \in Actors : pushing[a] # Call(o)
    /\ \A a, b \in Actors : pushing[a] = Call(o) /\ pushing[b] = Call(o) => a = b
    /\ o \in pending => o \notin Queued

PlaceInv ==
    /\ \A o \in Ops : OnePlace(o)
    /\ pending \cap shut = {}
    /\ Queued \cap Posts \subseteq posted

\* One pass of the loop on the queue q, whichever way the thread came to it.
Pass(t, q, was) ==
    /\ pc[t] \in {"lock", "woken", "polled"}
    /\ LoopBody(t, q, was)
    /\ q \in Seq(Elements)
    /\ \A e : InQueue(q, e) <=> \/ InQueue(queue, e)
                                \/ InQueue(private[t], e)
                                \/ pc[t] = "polled" /\ e = Task
    /\ Once(q, Task) /\ LooksFirst(q) /\ \A o \in Ops : Once(q, Call(o))
    /\ was = IF pc[t] = "polled" THEN TRUE ELSE interrupted
    /\ private' = [private EXCEPT ![t] = <<>>]
    /\ UNCHANGED <<work, stopped, credit, pushing, event, data, pending, speculate, shut, history>>

\* A thread that was woken without the event sleeps on.
SleepOn(t) ==
    /\ pc[t] = "woken" /\ ~signalled
    /\ pc' = [pc EXCEPT ![t] = "waiting"]
    /\ UNCHANGED <<scheduler, condition, block, cur, private, credit, pushing, reactor, history>>

LEMMA Passes ==
    ASSUME NoneIsNoElement, TypeInv, FitInv, ReactorInv, PlaceInv, NEW t \in Threads,
           LockAndLoop(t) \/ Wake(t) \/ Polled(t)
    PROVE  SleepOn(t) \/ \E q, was : Pass(t, q, was)
<1>0. /\ queue \in Seq(Elements) /\ private \in [Threads -> Seq(Elements)]
      /\ private[t] \in Seq(Elements)
      /\ Once(queue, Task) /\ LooksFirst(queue)
      /\ \A o \in Ops : OnePlace(o)
      /\ StepFits(t)
  BY DEF TypeInv, TypeOK, ReactorInv, PlaceInv, FitInv
<1>1. CASE LockAndLoop(t)
  <2> DEFINE q == queue \o private[t]
  <2>1. q \in Seq(Elements) /\ \A e : InQueue(q, e) <=> InQueue(queue, e) \/ InQueue(private[t], e)
    BY <1>0, QueueTypes, ConcatPlaces
  <2>2. \A e : InQueue(private[t], e) => e[1] = "call"
    BY <1>0, <1>1 DEF LockAndLoop, StepFits
  <2>3. ~InQueue(private[t], Task) /\ Once(private[t], Task)
    BY <2>2, ElementParts DEF InQueue, Once
  <2>4. Once(q, Task) /\ LooksFirst(q)
    BY <1>0, <2>2, <2>3, ConcatPlaces, CallsBehind
  <2>5. \A o \in Ops : Once(q, Call(o))
    BY <1>0, ConcatPlaces DEF OnePlace
  <2>6. Pass(t, q, interrupted)
    BY <1>1, <2>1, <2>4, <2>5 DEF LockAndLoop, Pass
  <2> QED
    BY <2>6
<1>2. CASE Wake(t) /\ signalled
  <2>1. private[t] = <<>> /\ \A e : ~InQueue(private[t], e)
    BY <1>0, <1>2 DEF Wake, StepFits, InQueue
  <2>2. private' = [private EXCEPT ![t] = <<>>]
    BY <1>0, <1>2, <2>1 DEF Wake
  <2>3. Pass(t, queue, interrupted)
    BY <1>0, <1>2, <2>1, <2>2 DEF Wake, Pass, OnePlace
  <2> QED
    BY <2>3
<1>3. CASE Wake(t) /\ ~signalled
  BY <1>3 DEF Wake, SleepOn, scheduler, condition, reactor
<1>4. CASE Polled(t)
  <2> DEFINE r == queue \o private[t]
             q == Append(r, Task)
  <2>1. Requeued(t) = q
    <3>1. Append(r, Task) = r \o <<Task>>
      BY <1>0, QueueTypes, ElementKinds
    <3> QED
      BY <3>1 DEF Requeued
  <2>2. r \in Seq(Elements) /\ q \in Seq(Elements) /\ Task \in Elements
    BY <1>0, QueueTypes, ElementKinds
  <2>3. \A e : InQueue(q, e) <=> InQueue(queue, e) \/ InQueue(private[t], e) \/ e = Task
    BY <1>0, <2>2, ConcatPlaces, AppendPlaces
  <2>4. \A e : InQueue(private[t], e) => e[1] = "look"
    BY <1>0, <1>4 DEF Polled, StepFits
  <2>5. ~InQueue(queue, Task)
    BY <1>4 DEF Polled, ReactorInv, Polling
  <2>6. ~InQueue(private[t], Task) /\ ~InQueue(r, Task)
    BY <1>0, <2>4, <2>5, ElementParts, ConcatPlaces
  <2>7. Once(r, Task) /\ Once(q, Task)
    BY <2>2, <2>6, AppendPlaces DEF Once, InQueue
  <2>8. LooksFirst(q)
    BY <2>2, <2>6, TaskBehind
  <2>9. \A o \in Ops : Once(q, Call(o))
    <3>1. \A o \in Ops : ~InQueue(private[t], Call(o)) /\ Call(o) # Task
      BY <2>4, ElementParts
    <3>2. \A o \in Ops : Once(r, Call(o))
      BY <1>0, <3>1, ConcatPlaces DEF OnePlace
    <3> QED
      BY <2>2, <3>1, <3>2, AppendPlaces
  <2>10. Pass(t, q, TRUE)
    BY <1>4, <2>1, <2>2, <2>3, <2>7, <2>8, <2>9 DEF Polled, Pass
  <2> QED
    BY <2>10
<1> QED
  BY <1>1, <1>2, <1>3, <1>4

\* The element it takes out of the queue, if any.
LEMMA PassTakes ==
    ASSUME TypeInv, NEW t \in Threads, NEW q, NEW was, Pass(t, q, was)
    PROVE  \/ /\ stopped \/ q = <<>>
              /\ queue' = q
              /\ pc' = [pc EXCEPT ![t] = IF stopped THEN "returned" ELSE "waiting"]
              /\ UNCHANGED cur
           \/ /\ ~stopped /\ q # <<>> /\ queue' = Tail(q)
              /\ Head(q) = Task
              /\ pc' = [pc EXCEPT ![t] = "poll"]
              /\ UNCHANGED cur
           \/ /\ ~stopped /\ q # <<>> /\ queue' = Tail(q)
              /\ \E d \in Descriptors : Head(q) = Look(d)
              /\ pc' = [pc EXCEPT ![t] = "look"]
              /\ cur' = [cur EXCEPT ![t] = Head(q)]
           \/ /\ ~stopped /\ q # <<>> /\ queue' = Tail(q)
              /\ \E o \in Ops : Head(q) = Call(o)
              /\ pc' = [pc EXCEPT ![t] = "handler"]
              /\ cur' = [cur EXCEPT ![t] = Head(q)]
<1>1. CASE stopped
  BY <1>1 DEF Pass, LoopBody
<1>2. CASE ~stopped /\ q = <<>>
  BY <1>2 DEF Pass, LoopBody
<1>3. CASE ~stopped /\ q # <<>> /\ Head(q) = Task
  BY <1>3 DEF Pass, LoopBody
<1>4. CASE ~stopped /\ q # <<>> /\ Head(q) # Task
  <2>1. Head(q) \in Elements
    BY <1>4, QueueTypes DEF Pass
  <2>2. \/ Head(q)[1] = "look" /\ \E d \in Descriptors : Head(q) = Look(d)
        \/ Head(q)[1] = "call" /\ \E o \in Ops : Head(q) = Call(o)
    BY <1>4, <2>1, ElementKinds
  <2> QED
    BY <1>4, <2>2 DEF Pass, LoopBody
<1> QED
  BY <1>1, <1>2, <1>3, <1>4

-----------------------------------------------------------------------------
(* Types.                                                                   *)

LEMMA TypeInit ==
    ASSUME IoContextAssumption, NoneIsNoElement, Init
    PROVE  TypeInv /\ FitInv
<1>1. /\ Cardinality(pending) \in Nat /\ pending \in SUBSET Descriptors
      /\ IsFiniteSet({})
  BY FS_Subset, FS_CardinalityType, FS_EmptySet DEF Init, IoContextAssumption
<1>2. queue \in Seq(Elements) /\ <<>> \in Seq(Elements)
  BY ElementKinds DEF Init
<1>3. TypeOK
  BY <1>1, <1>2 DEF Init, TypeOK, Labels
<1>4. FitInv
  BY DEF Init, FitInv, StepFits, InQueue
<1> QED
  BY <1>1, <1>3, <1>4 DEF Init, TypeInv

LEMMA PassTypes ==
    ASSUME NoneIsNoElement, TypeInv, NEW t \in Threads, NEW q, NEW was, Pass(t, q, was)
    PROVE  TypeInv'
<1> USE DEF condition, history
<1>1. /\ q \in Seq(Elements) /\ was \in BOOLEAN
      /\ q # <<>> => Head(q) \in Elements /\ Tail(q) \in Seq(Elements)
  BY QueueTypes DEF Pass, TypeInv, TypeOK
<1>2. /\ queue' \in Seq(Elements)
      /\ pc' \in [Threads -> Labels]
      /\ cur' \in [Threads -> Elements \cup {None}]
  <2>1. pc \in [Threads -> Labels] /\ cur \in [Threads -> Elements \cup {None}]
    BY DEF TypeInv, TypeOK
  <2> QED
    BY <1>1, <2>1, PassTakes DEF Labels
<1>3. /\ interrupted' \in BOOLEAN /\ signalled' \in BOOLEAN /\ owes' \in SUBSET Actors
      /\ block' \in [Threads -> BOOLEAN] /\ wakeup' \in BOOLEAN
  <2>1. /\ signalled \in BOOLEAN /\ owes \in SUBSET Actors /\ block \in [Threads -> BOOLEAN]
        /\ wakeup \in BOOLEAN /\ t \in Actors
    BY DEF TypeInv, TypeOK, Actors
  <2>2. LoopBody(t, q, was)
    BY DEF Pass
  <2>3. CASE stopped \/ q = <<>>
    BY <1>1, <2>1, <2>2, <2>3 DEF LoopBody
  <2>4. CASE ~stopped /\ q # <<>> /\ Head(q) = Task
    BY <1>1, <2>1, <2>2, <2>4 DEF LoopBody
  <2>5. CASE ~stopped /\ q # <<>> /\ Head(q) # Task
    BY <1>1, <2>1, <2>2, <2>5 DEF LoopBody, wake_one_thread_and_unlock
  <2> QED
    BY <2>3, <2>4, <2>5
<1>4. private' \in [Threads -> Seq(Elements)]
  BY DEF Pass, TypeInv, TypeOK
<1> QED
  BY <1>2, <1>3, <1>4 DEF Pass, TypeInv, TypeOK

LEMMA ImmediateTypes ==
    ASSUME TypeInv, NEW t \in Threads, NEW o \in Ops, on_immediate(t, o)
    PROVE  /\ private' \in [Threads -> Seq(Elements)]
           /\ credit' \in [Threads -> Nat]
           /\ pushing' \in [Actors -> Elements \cup {None}]
           /\ \A a \in Actors : pushing'[a] = None \/ \E p \in Ops : pushing'[a] = Call(p)
<1>1. Call(o) \in Elements /\ t \in Actors
  BY ElementKinds DEF Actors
<1>2. /\ private \in [Threads -> Seq(Elements)] /\ credit \in [Threads -> Nat]
      /\ pushing \in [Actors -> Elements \cup {None}]
      /\ \A a \in Actors : pushing[a] = None \/ \E p \in Ops : pushing[a] = Call(p)
  BY DEF TypeInv, TypeOK
<1>3. Append(private[t], Call(o)) \in Seq(Elements)
  BY <1>1, <1>2, QueueTypes
<1>4. CASE /\ private' = [private EXCEPT ![t] = Append(@, Call(o))]
           /\ credit' = [credit EXCEPT ![t] = @ + 1]
           /\ UNCHANGED pushing
  BY <1>2, <1>3, <1>4
<1>5. CASE pushing' = [pushing EXCEPT ![t] = Call(o)] /\ UNCHANGED <<private, credit>>
  BY <1>1, <1>2, <1>5
<1> QED
  BY <1>4, <1>5 DEF on_immediate

LEMMA PerformedTypes ==
    ASSUME TypeInv, NEW d \in Descriptors, Performed(d)
    PROVE  /\ data' \in [Descriptors -> Nat]
           /\ speculate' \in [Descriptors -> BOOLEAN]
<1>1. data \in [Descriptors -> Nat] /\ speculate \in [Descriptors -> BOOLEAN]
  BY DEF TypeInv, TypeOK
<1>2. PICK n \in 1..data[d], exhausted \in BOOLEAN :
        /\ data' = [data EXCEPT ![d] = @ - n]
        /\ speculate' = [speculate EXCEPT ![d] = ~exhausted]
  BY DEF Performed
<1>3. data[d] - n \in Nat
  BY <1>1
<1> QED
  BY <1>1, <1>2, <1>3

LEMMA TypeStep ==
    ASSUME NoneIsNoElement, TypeInv, FitInv, ReactorInv, PlaceInv, [Next]_vars, work' \in Nat
    PROVE  TypeInv'
<1> USE DEF scheduler, condition, thread, reactor, history
<1>1. ASSUME NEW t \in Threads, LockAndLoop(t) \/ Wake(t) \/ Polled(t)
      PROVE  TypeInv'
  <2>1. CASE SleepOn(t)
    BY <2>1 DEF SleepOn, TypeInv, TypeOK, Labels
  <2>2. ASSUME NEW q, NEW was, Pass(t, q, was) PROVE TypeInv'
    BY <2>2, PassTypes
  <2> QED
    BY <1>1, <2>1, <2>2, Passes
<1>2. ASSUME NEW t \in Threads, Poll(t)
      PROVE  TypeInv'
  <2>1. PICK s \in SetToSeqs(event) :
          private' = [private EXCEPT ![t] = [i \in 1..Cardinality(event) |-> Look(s[i])]]
    BY <1>2 DEF Poll
  <2>2. s \in [1..Cardinality(event) -> event] /\ event \in SUBSET Descriptors
    BY <2>1 DEF SetToSeqs, TypeInv, TypeOK
  <2>3. IsFiniteSet(event) /\ Cardinality(event) \in Nat
    BY <2>2, IoContextAssumption, FS_Subset, FS_CardinalityType DEF IoContextAssumption
  <2>4. [i \in 1..Cardinality(event) |-> Look(s[i])] \in Seq(Elements)
    BY <2>2, <2>3, ElementKinds
  <2> QED
    BY <1>2, <2>1, <2>4 DEF Poll, TypeInv, TypeOK, Labels
<1>3. ASSUME NEW t \in Threads, PerformIo(t)
      PROVE  TypeInv'
  <2>1. PICK d \in Descriptors : cur[t] = Look(d) /\ cur[t][2] = d
    BY <1>3, ElementParts DEF PerformIo, FitInv, StepFits
  <2>2. Call(d) \in Elements
    BY ElementKinds DEF Ops
  <2>3. CASE d \in pending /\ data[d] > 0
    BY <1>3, <2>1, <2>2, <2>3, PerformedTypes DEF PerformIo, TypeInv, TypeOK, Labels
  <2>4. CASE ~(d \in pending /\ data[d] > 0)
    <3>1. /\ speculate' = [speculate EXCEPT ![d] = TRUE]
          /\ credit' = [credit EXCEPT ![t] = @ + 1]
          /\ pc' = [pc EXCEPT ![t] = "done"]
          /\ UNCHANGED <<data, pending, cur>>
      BY <1>3, <2>1, <2>4 DEF PerformIo
    <3>2. /\ speculate' \in [Descriptors -> BOOLEAN] /\ credit' \in [Threads -> Nat]
          /\ pc' \in [Threads -> Labels]
      BY <3>1 DEF TypeInv, TypeOK, Labels
    <3> QED
      BY <1>3, <3>1, <3>2 DEF PerformIo, TypeInv, TypeOK
  <2> QED
    BY <2>3, <2>4
<1>4. ASSUME NEW t \in Threads, StartOp(t)
      PROVE  TypeInv'
  <2> DEFINE d == cur[t][2]
  <2>1. d \in Descriptors /\ d \in Ops /\ pc' = [pc EXCEPT ![t] = "handled"]
    BY <1>4 DEF StartOp, Ops
  <2>2. CASE d \in shut /\ on_immediate(t, d) /\ UNCHANGED <<data, pending, speculate>>
    BY <1>4, <2>1, <2>2, ImmediateTypes DEF StartOp, TypeInv, TypeOK, Labels
  <2>3. CASE Performed(d) /\ on_immediate(t, d) /\ UNCHANGED pending
    BY <1>4, <2>1, <2>3, ImmediateTypes, PerformedTypes DEF StartOp, TypeInv, TypeOK, Labels
  <2>4. CASE pending' = pending \cup {d} /\ UNCHANGED <<data, speculate, private, credit, pushing>>
    BY <1>4, <2>1, <2>4 DEF StartOp, TypeInv, TypeOK, Labels
  <2> QED
    BY <1>4, <2>2, <2>3, <2>4 DEF StartOp
<1>5. ASSUME NEW t \in Threads, PostFrom(t)
      PROVE  TypeInv'
  <2>1. PICK p \in Posts \ posted : posted' = posted \cup {p} /\ on_immediate(t, p)
    BY <1>5 DEF PostFrom
  <2>2. p \in Ops /\ IsFiniteSet(posted')
    BY <2>1, FS_AddElement DEF Ops, TypeInv
  <2> QED
    BY <1>5, <2>1, <2>2, ImmediateTypes DEF PostFrom, TypeInv, TypeOK
<1>6. CASE PostOutside
  <2>1. PICK p \in Posts \ posted : posted' = posted \cup {p} /\ pushing' = [pushing EXCEPT ![Outside] = Call(p)]
    BY <1>6 DEF PostOutside
  <2>2. p \in Ops /\ IsFiniteSet(posted') /\ Call(p) \in Elements /\ Outside \in Actors
    BY <2>1, FS_AddElement, ElementKinds DEF Ops, TypeInv, Actors
  <2> QED
    BY <1>6, <2>1, <2>2 DEF PostOutside, TypeInv, TypeOK
<1>7. ASSUME NEW a \in Actors, Push(a)
      PROVE  TypeInv'
  <2>1. pushing[a] \in Elements /\ queue' \in Seq(Elements)
    BY <1>7, QueueTypes DEF Push, TypeInv, TypeOK
  <2>2. /\ interrupted' \in BOOLEAN /\ signalled' \in BOOLEAN /\ owes' \in SUBSET Actors
        /\ wakeup' \in BOOLEAN
    BY <1>7 DEF Push, wake_one_thread_and_unlock, TypeInv, TypeOK
  <2> QED
    BY <1>7, <2>1, <2>2 DEF Push, TypeInv, TypeOK
<1>8. ASSUME NEW t \in Threads, Close(t)
      PROVE  TypeInv'
  <2>1. PICK d \in Descriptors \ shut :
          /\ shut' = shut \cup {d}
          /\ pending' = pending \ {d}
          /\ event' = event \ {d}
          /\ pushing' = IF d \in pending THEN [pushing EXCEPT ![t] = Call(d)] ELSE pushing
    BY <1>8 DEF Close
  <2>2. d \in Ops /\ Call(d) \in Elements /\ t \in Actors
    BY ElementKinds DEF Ops, Actors
  <2> QED
    BY <1>8, <2>1, <2>2 DEF Close, TypeInv, TypeOK
<1>9. ASSUME NEW a \in Actors, Signal(a)
      PROVE  TypeInv'
  BY <1>9 DEF Signal, TypeInv, TypeOK, Labels
<1>10. ASSUME NEW d \in Descriptors, Arrive(d)
       PROVE  TypeInv'
  BY <1>10 DEF Arrive, TypeInv, TypeOK
<1>11. ASSUME NEW t \in Threads, WorkCleanup(t)
       PROVE  TypeInv'
  BY <1>11 DEF WorkCleanup, TypeInv, TypeOK, Labels
<1>12. ASSUME NEW t \in Threads, Run(t) \/ Finish(t) \/ Spurious(t)
       PROVE  TypeInv'
  BY <1>12 DEF Run, Finish, Spurious, TypeInv, TypeOK, Labels
<1>13. ASSUME NEW t \in Threads, StopSelf(t)
       PROVE  TypeInv'
  BY <1>13 DEF StopSelf, StopAll, TypeInv, TypeOK, Labels
<1>14. CASE StopOutside
  BY <1>14 DEF StopOutside, StopAll, TypeInv, TypeOK, Labels
<1>15. CASE UNCHANGED vars
  BY <1>15 DEF vars, TypeInv, TypeOK
<1> QED
  BY <1>1, <1>2, <1>3, <1>4, <1>5, <1>6, <1>7, <1>8, <1>9, <1>10, <1>11, <1>12, <1>13, <1>14, <1>15
  DEF Next, LoopStep, HandlerStep, Done

-----------------------------------------------------------------------------
(* What threads have in their hands.                                        *)

LEMMA FitOthers ==
    ASSUME FitInv, NEW t \in Threads, StepFits(t)',
           \A u \in Threads \ {t} : pc'[u] = pc[u] /\ cur'[u] = cur[u] /\ private'[u] = private[u]
    PROVE  FitInv'
BY DEF FitInv, StepFits

\* A thread is woken, or goes to the lock.
LEMMA FitWoken ==
    ASSUME FitInv, UNCHANGED <<cur, private>>,
           \A u \in Threads : \/ pc'[u] = pc[u]
                              \/ pc[u] = "waiting" /\ pc'[u] = "woken"
                              \/ pc[u] = "woken" /\ pc'[u] = "waiting"
                              \/ pc[u] \in {"run", "stop"} /\ pc'[u] \in {"lock", "stop"}
    PROVE  FitInv'
BY DEF FitInv, StepFits

LEMMA FitImmediate ==
    ASSUME TypeInv, FitInv, NEW t \in Threads, NEW o \in Ops, on_immediate(t, o),
           pc[t] \in {"handler", "handled"}, pc'[t] \in {"handler", "handled"}, UNCHANGED cur,
           \A u \in Threads \ {t} : pc'[u] = pc[u]
    PROVE  FitInv'
<1>1. private[t] \in Seq(Elements) /\ Call(o) \in Elements /\ private \in [Threads -> Seq(Elements)]
  BY ElementKinds DEF TypeInv, TypeOK
<1>2. \/ private' = [private EXCEPT ![t] = Append(@, Call(o))]
      \/ private' = private
  BY DEF on_immediate
<1>3. \A e : InQueue(private'[t], e) => e[1] = "call"
  <2>1. \A e : InQueue(private[t], e) => e[1] = "call"
    BY DEF FitInv, StepFits
  <2>2. private'[t] = Append(private[t], Call(o)) \/ private'[t] = private[t]
    BY <1>1, <1>2
  <2>3. \A e : InQueue(Append(private[t], Call(o)), e) => e[1] = "call"
    BY <1>1, <2>1, AppendPlaces, ElementParts
  <2> QED
    BY <2>1, <2>2, <2>3
<1>4. StepFits(t)'
  BY <1>3 DEF FitInv, StepFits
<1> QED
  BY <1>1, <1>2, <1>4, FitOthers

LEMMA FitStep ==
    ASSUME NoneIsNoElement, TypeInv, FitInv, ReactorInv, PlaceInv, [Next]_vars
    PROVE  FitInv'
<1> USE DEF scheduler, condition, thread, reactor, history
<1>0. /\ pc \in [Threads -> Labels] /\ cur \in [Threads -> Elements \cup {None}]
      /\ private \in [Threads -> Seq(Elements)]
      /\ \A t \in Threads : StepFits(t)
  BY DEF TypeInv, TypeOK, FitInv
<1>1. ASSUME NEW t \in Threads, LockAndLoop(t) \/ Wake(t) \/ Polled(t)
      PROVE  FitInv'
  <2>1. CASE SleepOn(t)
    BY <1>0, <2>1, FitWoken DEF SleepOn
  <2>2. ASSUME NEW q, NEW was, Pass(t, q, was) PROVE FitInv'
    <3>1. private'[t] = <<>> /\ \A u \in Threads \ {t} : private'[u] = private[u]
      BY <1>0, <2>2 DEF Pass
    <3>2. \A u \in Threads \ {t} : pc'[u] = pc[u] /\ cur'[u] = cur[u]
      BY <1>0, <2>2, PassTakes
    <3>3. \/ pc'[t] \in {"returned", "waiting", "poll"}
          \/ pc'[t] = "look" /\ \E d \in Descriptors : cur'[t] = Look(d)
          \/ pc'[t] = "handler" /\ \E o \in Ops : cur'[t] = Call(o)
      BY <1>0, <2>2, PassTakes
    <3>4. StepFits(t)'
      BY <3>1, <3>3 DEF StepFits, InQueue
    <3> QED
      BY <3>1, <3>2, <3>4, FitOthers
  <2> QED
    BY <1>1, <2>1, <2>2, Passes
<1>2. ASSUME NEW t \in Threads, Poll(t)
      PROVE  FitInv'
  <2>1. PICK s \in SetToSeqs(event) :
          private' = [private EXCEPT ![t] = [i \in 1..Cardinality(event) |-> Look(s[i])]]
    BY <1>2 DEF Poll
  <2>2. \A e : InQueue(private'[t], e) => e[1] = "look"
    <3>1. IsFiniteSet(event) /\ Cardinality(event) \in Nat
      BY IoContextAssumption, FS_Subset, FS_CardinalityType DEF IoContextAssumption, TypeInv, TypeOK
    <3>2. private'[t] = [i \in 1..Cardinality(event) |-> Look(s[i])]
      BY <1>0, <2>1
    <3>3. Len(private'[t]) = Cardinality(event)
      BY <3>1, <3>2
    <3>4. ASSUME NEW i \in 1..Len(private'[t])
          PROVE  private'[t][i][1] = "look"
      <4>1. private'[t][i] = Look(s[i])
        BY <3>2, <3>3
      <4> QED
        BY <4>1, ElementParts
    <3> QED
      BY <3>4 DEF InQueue
  <2>3. pc' = [pc EXCEPT ![t] = "polled"] /\ UNCHANGED cur
    BY <1>2 DEF Poll
  <2>4. StepFits(t)'
    BY <1>0, <2>2, <2>3 DEF StepFits
  <2> QED
    BY <1>0, <2>1, <2>3, <2>4, FitOthers
<1>3. ASSUME NEW t \in Threads, PerformIo(t)
      PROVE  FitInv'
  <2>1. PICK d \in Descriptors : cur[t] = Look(d) /\ cur[t][2] = d /\ d \in Ops
    BY <1>0, <1>3, ElementParts DEF PerformIo, StepFits, Ops
  <2>2. private[t] = <<>> /\ private' = private
    BY <1>0, <1>3 DEF PerformIo, StepFits
  <2>3. CASE d \in pending /\ data[d] > 0
    <3>1. cur' = [cur EXCEPT ![t] = Call(d)] /\ pc' = [pc EXCEPT ![t] = "handler"]
      BY <1>3, <2>1, <2>3 DEF PerformIo
    <3>2. StepFits(t)'
      BY <1>0, <2>1, <2>2, <3>1 DEF StepFits, InQueue
    <3> QED
      BY <1>0, <2>2, <3>1, <3>2, FitOthers
  <2>4. CASE ~(d \in pending /\ data[d] > 0)
    <3>1. cur' = cur /\ pc' = [pc EXCEPT ![t] = "done"]
      BY <1>3, <2>1, <2>4 DEF PerformIo
    <3>2. StepFits(t)'
      BY <1>0, <2>1, <2>2, <3>1 DEF StepFits, InQueue
    <3> QED
      BY <1>0, <2>2, <3>1, <3>2, FitOthers
  <2> QED
    BY <2>3, <2>4
<1>4. ASSUME NEW t \in Threads, StartOp(t)
      PROVE  FitInv'
  <2> DEFINE d == cur[t][2]
  <2>1. /\ d \in Ops /\ pc' = [pc EXCEPT ![t] = "handled"] /\ pc[t] = "handler" /\ cur' = cur
        /\ on_immediate(t, d) \/ private' = private
    BY <1>4 DEF StartOp, Ops
  <2>2. pc'[t] = "handled" /\ \A u \in Threads \ {t} : pc'[u] = pc[u]
    BY <1>0, <2>1
  <2>3. CASE on_immediate(t, d)
    BY <2>1, <2>2, <2>3, FitImmediate
  <2>4. CASE private' = private
    <3>1. StepFits(t)'
      BY <1>0, <2>1, <2>2, <2>4 DEF StepFits
    <3> QED
      BY <2>1, <2>2, <2>4, <3>1, FitOthers
  <2> QED
    BY <2>1, <2>3, <2>4
<1>5. ASSUME NEW t \in Threads, PostFrom(t)
      PROVE  FitInv'
  <2>1. PICK p \in Posts \ posted : on_immediate(t, p)
    BY <1>5 DEF PostFrom
  <2>2. p \in Ops /\ pc' = pc /\ cur' = cur /\ pc[t] \in {"handler", "handled"}
    BY <1>5 DEF PostFrom, Ops, InHandler
  <2> QED
    BY <2>1, <2>2, FitImmediate
<1>6. ASSUME NEW t \in Threads, WorkCleanup(t)
      PROVE  FitInv'
  <2>1. /\ pc[t] = "done" /\ private' = private /\ cur' = [cur EXCEPT ![t] = None]
        /\ \E l \in {"lock", "stop"} : pc' = [pc EXCEPT ![t] = l]
    BY <1>6 DEF WorkCleanup
  <2>2. StepFits(t)'
    BY <1>0, <2>1 DEF StepFits
  <2> QED
    BY <1>0, <2>1, <2>2, FitOthers
<1>7. ASSUME NEW t \in Threads, Finish(t)
      PROVE  FitInv'
  <2>1. /\ pc[t] \in {"handler", "handled"} /\ private' = private /\ cur' = cur
        /\ pc' = [pc EXCEPT ![t] = "done"]
    BY <1>7 DEF Finish, InHandler
  <2>2. StepFits(t)'
    BY <1>0, <2>1 DEF StepFits
  <2> QED
    BY <1>0, <2>1, <2>2, FitOthers
<1>8. ASSUME NEW t \in Threads, Run(t) \/ Spurious(t)
      PROVE  FitInv'
  BY <1>0, <1>8, FitWoken DEF Run, Spurious
<1>9. ASSUME NEW a \in Actors, Signal(a)
      PROVE  FitInv'
  BY <1>0, <1>9, FitWoken DEF Signal
<1>10. ASSUME NEW t \in Threads, StopSelf(t)
       PROVE  FitInv'
  BY <1>0, <1>10, FitWoken DEF StopSelf, StopAll
<1>11. CASE StopOutside
  BY <1>0, <1>11, FitWoken DEF StopOutside, StopAll
<1>12. ASSUME UNCHANGED <<pc, cur, private>>
       PROVE  FitInv'
  BY <1>12, FitWoken
<1>13. ASSUME NEW t \in Threads, Close(t)
       PROVE  FitInv'
  BY <1>12, <1>13 DEF Close
<1>14. CASE PostOutside
  BY <1>12, <1>14 DEF PostOutside
<1>15. ASSUME NEW a \in Actors, Push(a)
       PROVE  FitInv'
  BY <1>12, <1>15 DEF Push
<1>16. ASSUME NEW d \in Descriptors, Arrive(d)
       PROVE  FitInv'
  BY <1>12, <1>16 DEF Arrive
<1>17. CASE UNCHANGED vars
  BY <1>12, <1>17 DEF vars
<1> QED
  BY <1>1, <1>2, <1>3, <1>4, <1>5, <1>6, <1>7, <1>8, <1>9, <1>10, <1>11, <1>13, <1>14, <1>15, <1>16, <1>17
  DEF Next, LoopStep, HandlerStep, Done

-----------------------------------------------------------------------------
(* The reactor.                                                             *)

LEMMA ReactorInit ==
    ASSUME Init
    PROVE  ReactorInv
<1>1. queue = <<Task>> /\ Len(queue) = 1
  BY DEF Init
<1>2. \A d : Look(d) # Task
  BY ElementParts
<1> QED
  BY <1>1, <1>2 DEF Init, ReactorInv, Once, LooksFirst, Polling, InQueue

\* The queue stays and nobody comes to the reactor.
LEMMA ReactorKept ==
    ASSUME ReactorInv, UNCHANGED queue, \A u \in Threads : Polling(u)' => Polling(u)
    PROVE  ReactorInv'
BY DEF ReactorInv, Once, LooksFirst, InQueue

LEMMA ReactorStep ==
    ASSUME NoneIsNoElement, TypeInv, FitInv, ReactorInv, PlaceInv, [Next]_vars
    PROVE  ReactorInv'
<1> USE DEF scheduler, condition, thread, reactor, history
<1>0. /\ pc \in [Threads -> Labels] /\ queue \in Seq(Elements)
  BY DEF TypeInv, TypeOK
<1>1. ASSUME NEW t \in Threads, LockAndLoop(t) \/ Wake(t) \/ Polled(t)
      PROVE  ReactorInv'
  <2>1. CASE SleepOn(t)
    BY <1>0, <2>1, ReactorKept DEF SleepOn, Polling
  <2>2. ASSUME NEW q, NEW was, Pass(t, q, was) PROVE ReactorInv'
    <3>1. /\ q \in Seq(Elements) /\ Once(q, Task) /\ LooksFirst(q)
          /\ \A e : InQueue(q, e) <=> InQueue(queue, e) \/ InQueue(private[t], e) \/ (pc[t] = "polled" /\ e = Task)
      BY <2>2 DEF Pass
    <3>2. \A u \in Threads \ {t} : pc'[u] = pc[u]
      BY <1>0, <2>2, PassTakes
    <3>3. \A u \in Threads \ {t} : Polling(u) =>
            ~InQueue(q, Task) /\ \A d \in Descriptors : ~InQueue(q, Look(d))
      <4> SUFFICES ASSUME NEW u \in Threads \ {t}, Polling(u)
                   PROVE  ~InQueue(q, Task) /\ \A d \in Descriptors : ~InQueue(q, Look(d))
        OBVIOUS
      <4>1. pc[t] # "polled"
        BY DEF ReactorInv, Polling
      <4>2. \A e : InQueue(private[t], e) => e[1] = "call"
        BY <4>1 DEF FitInv, StepFits
      <4> QED
        BY <3>1, <4>1, <4>2, ElementParts DEF ReactorInv
    <3>4. CASE queue' = q /\ pc'[t] \in {"returned", "waiting"}
      <4>1. \A u \in Threads : Polling(u)' => u # t /\ Polling(u)
        BY <3>2, <3>4 DEF Polling
      <4> QED
        BY <3>1, <3>3, <3>4, <4>1 DEF ReactorInv
    <3>5. CASE queue' = Tail(q) /\ q # <<>> /\ Head(q) = Task /\ pc'[t] = "poll"
      <4>1. /\ Once(queue', Task) /\ LooksFirst(queue')
            /\ ~InQueue(queue', Task) /\ \A d \in Descriptors : ~InQueue(queue', Look(d))
        BY <3>1, <3>5, TailPlaces
      <4>2. \A u \in Threads : Polling(u)' => u = t
        BY <3>1, <3>2, <3>3, <3>5, TailPlaces DEF Polling
      <4> QED
        BY <4>1, <4>2 DEF ReactorInv
    <3>6. CASE queue' = Tail(q) /\ q # <<>> /\ pc'[t] \in {"look", "handler"}
      <4>1. \A u \in Threads : Polling(u)' => u # t /\ Polling(u)
        BY <3>2, <3>6 DEF Polling
      <4>2. Once(queue', Task) /\ LooksFirst(queue') /\ \A e : InQueue(queue', e) => InQueue(q, e)
        BY <3>1, <3>6, TailPlaces
      <4> QED
        BY <3>3, <4>1, <4>2 DEF ReactorInv
    <3> QED
      BY <1>0, <2>2, <3>4, <3>5, <3>6, PassTakes
  <2> QED
    BY <1>1, <2>1, <2>2, Passes
<1>2. ASSUME NEW a \in Actors, Push(a)
      PROVE  ReactorInv'
  <2>1. PICK o \in Ops : pushing[a] = Call(o)
    BY <1>2 DEF Push, TypeInv
  <2>2. queue' = Append(queue, Call(o)) /\ pc' = pc
    BY <1>2, <2>1 DEF Push
  <2>3. Call(o) \in Elements /\ Call(o) # Task /\ \A d : Call(o) # Look(d)
    BY ElementKinds, ElementParts
  <2>4. \A e : InQueue(queue', e) <=> InQueue(queue, e) \/ e = Call(o)
    BY <1>0, <2>2, <2>3, AppendPlaces
  <2>5. Once(queue', Task)
    BY <1>0, <2>2, <2>3, AppendPlaces DEF ReactorInv
  <2>6. LooksFirst(queue')
    <3>1. /\ queue' = queue \o <<Call(o)>> /\ <<Call(o)>> \in Seq(Elements)
          /\ \A e : InQueue(<<Call(o)>>, e) => e[1] = "call"
      BY <1>0, <2>2, <2>3, ElementParts DEF InQueue
    <3> QED
      BY <1>0, <3>1, CallsBehind DEF ReactorInv
  <2> QED
    BY <2>2, <2>3, <2>4, <2>5, <2>6 DEF ReactorInv, Polling
<1>3. ASSUME UNCHANGED queue, \A u \in Threads : pc'[u] \in {"poll", "polled"} => pc[u] \in {"poll", "polled"}
      PROVE  ReactorInv'
  BY <1>3, ReactorKept DEF Polling
<1>4. ASSUME NEW t \in Threads, Poll(t) \/ PerformIo(t) \/ StartOp(t) \/ PostFrom(t) \/ WorkCleanup(t) \/ Close(t)
      PROVE  ReactorInv'
  BY <1>0, <1>3, <1>4 DEF Poll, PerformIo, StartOp, PostFrom, WorkCleanup, Close
<1>5. ASSUME NEW t \in Threads, Run(t) \/ Finish(t) \/ Spurious(t) \/ StopSelf(t)
      PROVE  ReactorInv'
  BY <1>0, <1>3, <1>5 DEF Run, Finish, Spurious, StopSelf, StopAll
<1>6. ASSUME NEW a \in Actors, Signal(a)
      PROVE  ReactorInv'
  BY <1>0, <1>3, <1>6 DEF Signal
<1>7. CASE PostOutside \/ StopOutside \/ UNCHANGED vars
  BY <1>0, <1>3, <1>7 DEF PostOutside, StopOutside, StopAll, vars
<1>8. ASSUME NEW d \in Descriptors, Arrive(d)
      PROVE  ReactorInv'
  BY <1>3, <1>8 DEF Arrive
<1> QED
  BY <1>1, <1>2, <1>4, <1>5, <1>6, <1>7, <1>8 DEF Next, LoopStep, HandlerStep, Done

-----------------------------------------------------------------------------
(* Events.                                                                  *)

\* The event of d is known to epoll or on its way to perform_io.
Seen(d) ==
    \/ d \in event
    \/ InQueue(queue, Look(d))
    \/ \E t \in Threads : InQueue(private[t], Look(d)) \/ (pc[t] = "look" /\ cur[t] = Look(d))

\* Data that a pending operation could take, or the next one would not try to take.
Watched(d) == data[d] > 0 /\ (d \in pending \/ (d \notin shut /\ ~speculate[d]))

EventInv == \A d \in Descriptors : Watched(d) => Seen(d)

LEMMA EventInit ==
    ASSUME Init
    PROVE  EventInv
BY DEF Init, EventInv, Watched

\* epoll_wait reports all of them.
LEMMA AllReported ==
    ASSUME NEW S, IsFiniteSet(S), NEW f \in SetToSeqs(S)
    PROVE  \A x \in S : \E i \in 1..Cardinality(S) : f[i] = x
<1> DEFINE n == Cardinality(S)
<1>1. n \in Nat /\ IsFiniteSet(1..n) /\ Cardinality(1..n) = n
  BY FS_CardinalityType, FS_Interval
<1>2. f \in [1..n -> S] /\ \A i, j \in 1..n : i # j => f[i] # f[j]
  BY DEF SetToSeqs
<1>3. f \in Injection(1..n, S)
  BY <1>2 DEF Injection, IsInjective
<1>4. f \in Surjection(1..n, S)
  BY <1>1, <1>3, FS_Injection
<1> QED
  BY <1>4 DEF Surjection

LEMMA EventsKeptBy ==
    ASSUME EventInv, UNCHANGED <<data, pending, speculate, shut>>,
           \A d \in Descriptors : Seen(d) => Seen(d)'
    PROVE  EventInv'
BY DEF EventInv, Watched

\* An operation that is tried either leaves nothing, or may be tried again.
LEMMA TriedAgain ==
    ASSUME TypeInv, NEW d \in Descriptors, Performed(d)
    PROVE  /\ data'[d] > 0 => speculate'[d]
           /\ \A c \in Descriptors \ {d} : data'[c] = data[c] /\ speculate'[c] = speculate[c]
<1>1. data \in [Descriptors -> Nat] /\ speculate \in [Descriptors -> BOOLEAN]
  BY DEF TypeInv, TypeOK
<1>2. PICK n \in 1..data[d], exhausted \in BOOLEAN :
        /\ exhausted => n = data[d]
        /\ data' = [data EXCEPT ![d] = @ - n]
        /\ speculate' = [speculate EXCEPT ![d] = ~exhausted]
  BY DEF Performed
<1>3. data'[d] = data[d] - n /\ speculate'[d] = ~exhausted
  BY <1>1, <1>2
<1>4. data'[d] > 0 => ~exhausted
  BY <1>1, <1>2, <1>3
<1>5. \A c \in Descriptors \ {d} : data'[c] = data[c] /\ speculate'[c] = speculate[c]
  BY <1>1, <1>2
<1> QED
  BY <1>3, <1>4, <1>5

LEMMA EventStep ==
    ASSUME NoneIsNoElement, TypeInv, FitInv, ReactorInv, PlaceInv, EventInv, [Next]_vars
    PROVE  EventInv'
<1> USE DEF scheduler, condition, thread, reactor, history
<1>0. /\ pc \in [Threads -> Labels] /\ queue \in Seq(Elements) /\ cur \in [Threads -> Elements \cup {None}]
      /\ private \in [Threads -> Seq(Elements)] /\ pending \in SUBSET Descriptors
      /\ speculate \in [Descriptors -> BOOLEAN] /\ data \in [Descriptors -> Nat]
  BY DEF TypeInv, TypeOK
<1>1. ASSUME NEW t \in Threads, LockAndLoop(t) \/ Wake(t) \/ Polled(t)
      PROVE  EventInv'
  <2>1. CASE SleepOn(t)
    BY <1>0, <2>1, EventsKeptBy DEF SleepOn, Seen
  <2>2. ASSUME NEW q, NEW was, Pass(t, q, was) PROVE EventInv'
    <3> SUFFICES ASSUME NEW d \in Descriptors, Seen(d)
                 PROVE  Seen(d)'
      BY <2>2, EventsKeptBy DEF Pass
    <3>1. /\ q \in Seq(Elements) /\ pc[t] # "look" /\ event' = event
          /\ \A e : InQueue(q, e) <=> InQueue(queue, e) \/ InQueue(private[t], e) \/ (pc[t] = "polled" /\ e = Task)
          /\ \A u \in Threads \ {t} : private'[u] = private[u]
      BY <1>0, <2>2 DEF Pass
    <3>2. \A u \in Threads \ {t} : pc'[u] = pc[u] /\ cur'[u] = cur[u]
      BY <1>0, <2>2, PassTakes
    <3>3. ASSUME InQueue(q, Look(d)) PROVE Seen(d)'
      <4>1. CASE queue' = q
        BY <3>3, <4>1 DEF Seen
      <4>2. CASE q # <<>> /\ queue' = Tail(q) /\ Head(q) # Look(d)
        <5>1. InQueue(queue', Look(d))
          BY <3>1, <3>3, <4>2, TailPlaces
        <5> QED
          BY <5>1 DEF Seen
      <4>3. CASE pc'[t] = "look" /\ cur'[t] = Head(q) /\ Head(q) = Look(d)
        BY <4>3 DEF Seen
      <4>4. \/ queue' = q
            \/ /\ q # <<>> /\ queue' = Tail(q)
               /\ \/ Head(q) = Task
                  \/ \E o \in Ops : Head(q) = Call(o)
                  \/ pc'[t] = "look" /\ cur'[t] = Head(q)
        BY <1>0, <2>2, PassTakes
      <4>5. Task # Look(d) /\ \A o : Call(o) # Look(d)
        BY ElementParts
      <4> QED
        BY <4>1, <4>2, <4>3, <4>4, <4>5
    <3>4. CASE InQueue(queue, Look(d)) \/ InQueue(private[t], Look(d))
      BY <3>1, <3>3, <3>4
    <3>5. CASE d \in event
      BY <3>1, <3>5 DEF Seen
    <3>6. ASSUME NEW u \in Threads \ {t}, InQueue(private[u], Look(d)) \/ (pc[u] = "look" /\ cur[u] = Look(d))
          PROVE  Seen(d)'
      BY <3>1, <3>2, <3>6 DEF Seen
    <3> QED
      BY <3>1, <3>4, <3>5, <3>6 DEF Seen
  <2> QED
    BY <1>1, <2>1, <2>2, Passes
<1>2. ASSUME NEW t \in Threads, Poll(t)
      PROVE  EventInv'
  <2>1. PICK s \in SetToSeqs(event) :
          private' = [private EXCEPT ![t] = [i \in 1..Cardinality(event) |-> Look(s[i])]]
    BY <1>2 DEF Poll
  <2>2. IsFiniteSet(event) /\ Cardinality(event) \in Nat
    BY IoContextAssumption, FS_Subset, FS_CardinalityType DEF IoContextAssumption, TypeInv, TypeOK
  <2>3. /\ pc[t] = "poll" /\ pc' = [pc EXCEPT ![t] = "polled"] /\ private[t] = <<>>
        /\ UNCHANGED <<queue, cur, data, pending, speculate, shut>>
    BY <1>2 DEF Poll, FitInv, StepFits
  <2> SUFFICES ASSUME NEW d \in Descriptors, Seen(d)
               PROVE  Seen(d)'
    BY <2>3, EventsKeptBy
  <2>4. CASE d \in event
    <3>1. PICK i \in 1..Cardinality(event) : s[i] = d
      BY <2>2, <2>4, AllReported
    <3>2. private'[t] = [j \in 1..Cardinality(event) |-> Look(s[j])]
      BY <1>0, <2>1
    <3>3. Len(private'[t]) = Cardinality(event) /\ private'[t][i] = Look(d)
      BY <2>2, <3>1, <3>2
    <3>4. InQueue(private'[t], Look(d))
      BY <3>1, <3>3 DEF InQueue
    <3> QED
      BY <3>4 DEF Seen
  <2>5. CASE InQueue(queue, Look(d))
    BY <2>3, <2>5 DEF Seen
  <2>6. ASSUME NEW u \in Threads, InQueue(private[u], Look(d)) \/ (pc[u] = "look" /\ cur[u] = Look(d))
        PROVE  Seen(d)'
    <3>1. u # t
      BY <2>3, <2>6 DEF InQueue
    <3>2. pc'[u] = pc[u] /\ cur'[u] = cur[u] /\ private'[u] = private[u]
      BY <1>0, <2>1, <2>3, <3>1
    <3> QED
      BY <2>6, <3>2 DEF Seen
  <2> QED
    BY <2>4, <2>5, <2>6 DEF Seen
<1>3. ASSUME NEW t \in Threads, PerformIo(t)
      PROVE  EventInv'
  <2>1. PICK d \in Descriptors : cur[t] = Look(d) /\ cur[t][2] = d /\ pc[t] = "look"
    BY <1>0, <1>3, ElementParts DEF PerformIo, FitInv, StepFits
  <2>2. /\ UNCHANGED <<queue, private, event, shut>>
        /\ \A u \in Threads \ {t} : pc'[u] = pc[u] /\ cur'[u] = cur[u]
        /\ \A c \in Descriptors \ {d} : data'[c] = data[c] /\ speculate'[c] = speculate[c] /\ (c \in pending' <=> c \in pending)
        /\ ~Watched(d)'
    <3>1. CASE d \in pending /\ data[d] > 0
      <4>1. /\ Performed(d) /\ pending' = pending \ {d}
            /\ cur' = [cur EXCEPT ![t] = Call(d)] /\ pc' = [pc EXCEPT ![t] = "handler"]
            /\ UNCHANGED <<queue, private, event, shut>>
        BY <1>3, <2>1, <3>1 DEF PerformIo
      <4> QED
        BY <1>0, <4>1, TriedAgain DEF Watched
    <3>2. CASE ~(d \in pending /\ data[d] > 0)
      <4>1. /\ speculate' = [speculate EXCEPT ![d] = TRUE]
            /\ pc' = [pc EXCEPT ![t] = "done"]
            /\ UNCHANGED <<queue, private, event, shut, data, pending, cur>>
        BY <1>3, <2>1, <3>2 DEF PerformIo
      <4> QED
        BY <1>0, <3>2, <4>1 DEF Watched
    <3> QED
      BY <3>1, <3>2
  <2>3. ASSUME NEW c \in Descriptors \ {d}, Watched(c)'
        PROVE  Seen(c)'
    <3>1. Watched(c)
      BY <2>2, <2>3 DEF Watched
    <3>2. Seen(c) /\ cur[t] # Look(c)
      BY <2>1, <3>1, ElementParts DEF EventInv
    <3> QED
      BY <2>2, <3>2 DEF Seen
  <2> QED
    BY <2>2, <2>3 DEF EventInv
<1>4. ASSUME NEW t \in Threads, StartOp(t)
      PROVE  EventInv'
  <2> DEFINE d == cur[t][2]
  <2>1. /\ d \in Descriptors /\ pc[t] = "handler" /\ pc' = [pc EXCEPT ![t] = "handled"]
        /\ UNCHANGED <<queue, cur, event, shut>>
    BY <1>4 DEF StartOp
  <2>2. \A e, u : u \in Threads /\ InQueue(private[u], e) => InQueue(private'[u], e)
    <3>1. private' = private \/ private' = [private EXCEPT ![t] = Append(@, Call(d))]
      BY <1>4 DEF StartOp, on_immediate
    <3>2. Call(d) \in Elements
      BY <2>1, ElementKinds DEF Ops
    <3>3. \A e : InQueue(private[t], e) => InQueue(Append(private[t], Call(d)), e)
      BY <1>0, <3>2, AppendPlaces
    <3> QED
      BY <1>0, <3>1, <3>3
  <2>3. \A c \in Descriptors : Seen(c) => Seen(c)'
    BY <1>0, <2>1, <2>2 DEF Seen
  <2>4. CASE UNCHANGED <<data, pending, speculate>>
    BY <2>1, <2>3, <2>4, EventsKeptBy
  <2>5. CASE Performed(d) /\ UNCHANGED pending /\ d \notin pending
    <3>1. ASSUME NEW c \in Descriptors, Watched(c)' PROVE Watched(c)
      BY <2>1, <2>5, <3>1, TriedAgain DEF Watched
    <3> QED
      BY <2>3, <3>1 DEF EventInv
  <2>6. CASE /\ d \notin shut /\ ~(speculate[d] /\ data[d] > 0)
             /\ pending' = pending \cup {d}
             /\ UNCHANGED <<data, speculate>>
    <3>1. ASSUME NEW c \in Descriptors, Watched(c)' PROVE Watched(c)
      BY <2>1, <2>6, <3>1 DEF Watched
    <3> QED
      BY <2>3, <3>1 DEF EventInv
  <2> QED
    BY <1>4, <2>4, <2>5, <2>6 DEF StartOp
<1>5. ASSUME NEW d \in Descriptors, Arrive(d)
      PROVE  EventInv'
  <2>1. /\ event' = event \cup {d}
        /\ \A c \in Descriptors \ {d} : data'[c] = data[c]
        /\ UNCHANGED <<queue, private, pc, cur, pending, speculate, shut>>
    BY <1>0, <1>5 DEF Arrive
  <2>2. \A c \in Descriptors \ {d} : (Watched(c)' => Watched(c)) /\ (Seen(c) => Seen(c)')
    BY <2>1 DEF Watched, Seen
  <2>3. Seen(d)'
    BY <2>1 DEF Seen
  <2> QED
    BY <2>2, <2>3 DEF EventInv
<1>6. ASSUME NEW t \in Threads, Close(t)
      PROVE  EventInv'
  <2>1. PICK d \in Descriptors \ shut :
          /\ shut' = shut \cup {d}
          /\ pending' = pending \ {d}
          /\ event' = event \ {d}
          /\ UNCHANGED <<queue, private, pc, cur, data, speculate>>
    BY <1>6 DEF Close
  <2>2. ~Watched(d)'
    BY <2>1 DEF Watched
  <2>3. \A c \in Descriptors \ {d} : (Watched(c)' => Watched(c)) /\ (Seen(c) => Seen(c)')
    BY <2>1 DEF Watched, Seen
  <2> QED
    BY <2>2, <2>3 DEF EventInv
<1>7. ASSUME NEW a \in Actors, Push(a)
      PROVE  EventInv'
  <2>1. /\ queue' = Append(queue, pushing[a]) /\ pushing[a] \in Elements
        /\ UNCHANGED <<private, pc, cur, event, data, pending, speculate, shut>>
    BY <1>7 DEF Push, TypeInv, TypeOK
  <2>2. \A d \in Descriptors : Seen(d) => Seen(d)'
    BY <1>0, <2>1, AppendPlaces DEF Seen
  <2> QED
    BY <2>1, <2>2, EventsKeptBy
<1>8. ASSUME NEW t \in Threads, PostFrom(t)
      PROVE  EventInv'
  <2>1. PICK p \in Posts : on_immediate(t, p)
    BY <1>8 DEF PostFrom
  <2>2. \A e, u : u \in Threads /\ InQueue(private[u], e) => InQueue(private'[u], e)
    <3>1. private' = private \/ private' = [private EXCEPT ![t] = Append(@, Call(p))]
      BY <2>1 DEF on_immediate
    <3>2. Call(p) \in Elements
      BY ElementKinds DEF Ops
    <3>3. \A e : InQueue(private[t], e) => InQueue(Append(private[t], Call(p)), e)
      BY <1>0, <3>2, AppendPlaces
    <3> QED
      BY <1>0, <3>1, <3>3
  <2>3. UNCHANGED <<queue, pc, cur, event, data, pending, speculate, shut>>
    BY <1>8 DEF PostFrom
  <2>4. \A d \in Descriptors : Seen(d) => Seen(d)'
    BY <2>2, <2>3 DEF Seen
  <2> QED
    BY <2>3, <2>4, EventsKeptBy
<1>9. ASSUME NEW t \in Threads, WorkCleanup(t)
      PROVE  EventInv'
  <2>1. /\ pc[t] = "done" /\ \A u \in Threads \ {t} : pc'[u] = pc[u] /\ cur'[u] = cur[u]
        /\ UNCHANGED <<queue, private, event, data, pending, speculate, shut>>
    BY <1>0, <1>9 DEF WorkCleanup
  <2>2. \A d \in Descriptors : Seen(d) => Seen(d)'
    BY <2>1 DEF Seen
  <2> QED
    BY <2>1, <2>2, EventsKeptBy
<1>10. ASSUME UNCHANGED <<queue, private, cur, event, data, pending, speculate, shut>>,
              \A u \in Threads : pc[u] = "look" => pc'[u] = "look"
       PROVE  EventInv'
  BY <1>10, EventsKeptBy DEF Seen
<1>11. ASSUME NEW t \in Threads, Run(t) \/ Finish(t) \/ Spurious(t) \/ StopSelf(t)
       PROVE  EventInv'
  BY <1>0, <1>10, <1>11 DEF Run, Finish, InHandler, Spurious, StopSelf, StopAll
<1>12. ASSUME NEW a \in Actors, Signal(a)
       PROVE  EventInv'
  BY <1>0, <1>10, <1>12 DEF Signal
<1>13. CASE PostOutside \/ StopOutside \/ UNCHANGED vars
  BY <1>0, <1>10, <1>13 DEF PostOutside, StopOutside, StopAll, vars
<1> QED
  BY <1>1, <1>2, <1>3, <1>4, <1>5, <1>6, <1>7, <1>8, <1>9, <1>11, <1>12, <1>13
  DEF Next, LoopStep, HandlerStep, Done

-----------------------------------------------------------------------------
(* Sleepers.                                                                *)

\* The flag of the event is set while something is queued and somebody is counted as a
\* sleeper; a thread in the reactor is interrupted, or there was a sleeper to call.
SleepInv ==
    /\ queue # <<>> /\ Waiters # {} => signalled
    /\ \A t \in Threads : pc[t] = "poll" /\ block[t] /\ interrupted => wakeup
    /\ stopped => interrupted /\ signalled /\ \A t \in Threads : pc[t] # "waiting"
    /\ queue # <<>> /\ (\E t \in Threads : pc[t] = "waiting") => owes # {} \/ Coming # {}
    /\ \A t \in Threads : queue # <<>> /\ pc[t] = "poll" /\ block[t] /\ ~wakeup => Waiters # {}

LEMMA SleepInit ==
    ASSUME Init
    PROVE  SleepInv
BY DEF Init, SleepInv, Waiters

\* Nothing that matters to sleepers changes.
LEMMA SleepKept ==
    ASSUME SleepInv, UNCHANGED <<queue, interrupted, stopped, signalled, owes, wakeup, block>>,
           \A u \in Threads : \/ pc'[u] = pc[u]
                              \/ /\ pc[u] \notin {"waiting", "woken", "lock", "poll", "polled"}
                                 /\ pc'[u] \notin {"waiting", "woken", "poll"}
    PROVE  SleepInv'
<1>1. Waiters' = Waiters /\ Coming \subseteq Coming'
  BY DEF Waiters, Coming
<1>2. \A u \in Threads : (pc'[u] = "waiting" <=> pc[u] = "waiting") /\ (pc'[u] = "poll" => pc[u] = "poll")
  OBVIOUS
<1> QED
  BY <1>1, <1>2 DEF SleepInv

LEMMA SleepStopped ==
    ASSUME TypeInv, SleepInv, NEW next \in [Threads -> Labels], StopAll(next), UNCHANGED <<queue, block>>,
           \A u \in Threads : next[u] = "poll" => pc[u] = "poll",
           \A u \in Threads : pc[u] # "waiting" => next[u] # "waiting"
    PROVE  SleepInv'
<1>1. \A u \in Threads : pc'[u] # "waiting" /\ (pc'[u] = "poll" => pc[u] = "poll")
  BY DEF StopAll
<1>2. \A u \in Threads : pc[u] = "poll" /\ block[u] => wakeup'
  BY DEF StopAll, SleepInv, TypeInv, TypeOK
<1> QED
  BY <1>1, <1>2 DEF StopAll, SleepInv

LEMMA SleepPass ==
    ASSUME TypeInv, FitInv, ReactorInv, SleepInv, NEW t \in Threads, NEW q, NEW was, Pass(t, q, was)
    PROVE  SleepInv'
<1> DEFINE others == Waiters \ {t}
           more == Tail(q) # <<>>
<1>0. /\ pc \in [Threads -> Labels] /\ block \in [Threads -> BOOLEAN] /\ t \in Actors
      /\ pc[t] \in {"lock", "woken", "polled"} /\ stopped' = stopped /\ LoopBody(t, q, was)
      /\ was = IF pc[t] = "polled" THEN TRUE ELSE interrupted
      /\ interrupted \in BOOLEAN /\ wakeup \in BOOLEAN /\ signalled \in BOOLEAN
  BY DEF Pass, TypeInv, TypeOK, Actors
<1>1. \A u \in Threads \ {t} : pc'[u] = pc[u]
  BY <1>0, PassTakes
\* Another thread is in the reactor only if this one does not come from there.
<1>2. \A u \in Threads \ {t} : pc[u] = "poll" => was = interrupted
  BY <1>0 DEF ReactorInv, Polling
<1>3. stopped => interrupted /\ signalled /\ was
  BY <1>0 DEF SleepInv
<1>4. CASE stopped
  <2>1. /\ pc' = [pc EXCEPT ![t] = "returned"] /\ interrupted' = was
        /\ UNCHANGED <<signalled, owes, block, wakeup>>
    BY <1>0, <1>4 DEF LoopBody, condition
  <2>2. pc'[t] = "returned" /\ \A u \in Threads : pc'[u] # "waiting"
    BY <1>0, <1>1, <1>4, <2>1 DEF SleepInv
  <2>3. \A u \in Threads : pc'[u] = "poll" /\ block'[u] => wakeup'
    BY <1>1, <1>3, <1>4, <2>1, <2>2 DEF SleepInv
  <2> QED
    BY <1>0, <1>3, <1>4, <2>1, <2>2, <2>3 DEF SleepInv
<1>5. CASE ~stopped /\ q = <<>>
  <2>1. /\ pc' = [pc EXCEPT ![t] = "waiting"] /\ queue' = <<>> /\ interrupted' = was
        /\ UNCHANGED <<owes, block, wakeup>>
    BY <1>0, <1>5 DEF LoopBody
  <2>2. \A u \in Threads : pc'[u] = "poll" /\ block'[u] /\ interrupted' => wakeup'
    BY <1>0, <1>1, <1>2, <2>1 DEF SleepInv
  <2> QED
    BY <1>0, <1>5, <2>1, <2>2 DEF SleepInv
<1>6. CASE ~stopped /\ q # <<>> /\ Head(q) = Task
  <2>1. /\ pc' = [pc EXCEPT ![t] = "poll"] /\ queue' = Tail(q) /\ interrupted' = more
        /\ signalled' = (signalled \/ more)
        /\ owes' = IF more /\ others # {} THEN owes \cup {t} ELSE owes
        /\ block' = [block EXCEPT ![t] = ~more] /\ UNCHANGED wakeup
    BY <1>0, <1>6 DEF LoopBody
  <2>2. pc'[t] = "poll" /\ block'[t] = ~more
    BY <1>0, <2>1
  <2>3. \A u \in Threads \ {t} : pc'[u] # "poll"
    <3>1. InQueue(q, Task)
      BY <1>6, TailPlaces DEF Pass
    <3> SUFFICES ASSUME NEW u \in Threads \ {t}, pc[u] = "poll"
                 PROVE  FALSE
      BY <1>1
    <3>2. Polling(u) /\ ~InQueue(queue, Task) /\ pc[t] # "polled"
      BY <1>0 DEF ReactorInv, Polling
    <3>3. ~InQueue(private[t], Task)
      BY <3>2, ElementParts DEF FitInv, StepFits
    <3> QED
      BY <3>1, <3>2, <3>3 DEF Pass
  <2>4. queue' # <<>> /\ (\E u \in Threads : pc'[u] = "waiting") => owes' # {}
    <3>1. ASSUME NEW u \in Threads, pc'[u] = "waiting" PROVE u \in others
      BY <1>1, <2>2, <3>1 DEF Waiters
    <3> QED
      BY <2>1, <3>1
  <2> QED
    BY <1>0, <1>6, <2>1, <2>2, <2>3, <2>4 DEF SleepInv
<1>7. CASE ~stopped /\ q # <<>> /\ Head(q) # Task
  <2>1. /\ queue' = Tail(q) /\ UNCHANGED block
        /\ pc'[t] \in {"look", "handler"}
        /\ IF more
             THEN wake_one_thread_and_unlock(t, others, was)
             ELSE interrupted' = was /\ UNCHANGED <<condition, wakeup>>
    BY <1>0, <1>7 DEF LoopBody
  <2>2. /\ \A u \in Threads : pc'[u] = "poll" => u # t /\ pc[u] = "poll"
        /\ \A u \in Threads : pc'[u] = "waiting" => u \in others
        /\ others \subseteq Waiters'
    BY <1>1, <2>1 DEF Waiters
  <2>3. CASE ~more
    <3>1. interrupted' = was /\ UNCHANGED wakeup /\ queue' = <<>>
      BY <2>1, <2>3
    <3>2. \A u \in Threads : pc'[u] = "poll" /\ block'[u] /\ interrupted' => wakeup'
      BY <1>2, <2>1, <2>2, <3>1 DEF SleepInv
    <3> QED
      BY <1>0, <1>7, <3>1, <3>2 DEF SleepInv
  <2>4. CASE more /\ others # {}
    <3>1. signalled' = TRUE /\ owes' = owes \cup {t} /\ interrupted' = was /\ UNCHANGED wakeup
      BY <2>1, <2>4 DEF wake_one_thread_and_unlock
    <3>2. \A u \in Threads : pc'[u] = "poll" /\ block'[u] /\ interrupted' => wakeup'
      BY <1>2, <2>1, <2>2, <3>1 DEF SleepInv
    <3> QED
      BY <1>0, <1>7, <2>2, <2>4, <3>1, <3>2 DEF SleepInv
  <2>5. CASE more /\ others = {}
    <3>1. signalled' = TRUE /\ interrupted' = TRUE /\ wakeup' = (wakeup \/ ~was)
      BY <2>1, <2>5 DEF wake_one_thread_and_unlock
    <3>2. \A u \in Threads : pc'[u] = "poll" /\ block'[u] => wakeup'
      BY <1>0, <1>2, <2>1, <2>2, <3>1 DEF SleepInv
    <3> QED
      BY <1>0, <1>7, <2>2, <2>5, <3>1, <3>2 DEF SleepInv
  <2> QED
    BY <2>3, <2>4, <2>5
<1> QED
  BY <1>4, <1>5, <1>6, <1>7

LEMMA SleepStep ==
    ASSUME NoneIsNoElement, TypeInv, FitInv, ReactorInv, PlaceInv, SleepInv, [Next]_vars
    PROVE  SleepInv'
<1> USE DEF scheduler, condition, thread, reactor, history
<1>0. /\ pc \in [Threads -> Labels] /\ block \in [Threads -> BOOLEAN]
      /\ interrupted \in BOOLEAN /\ wakeup \in BOOLEAN
  BY DEF TypeInv, TypeOK
<1>1. ASSUME NEW t \in Threads, LockAndLoop(t) \/ Wake(t) \/ Polled(t)
      PROVE  SleepInv'
  <2>1. CASE SleepOn(t)
    <3>1. /\ pc[t] = "woken" /\ ~signalled /\ pc' = [pc EXCEPT ![t] = "waiting"]
          /\ UNCHANGED <<queue, interrupted, stopped, signalled, owes, wakeup, block>>
      BY <2>1 DEF SleepOn
    <3>2. queue = <<>> /\ ~stopped
      BY <3>1 DEF SleepInv, Waiters
    <3>3. \A u \in Threads : pc'[u] = "poll" => pc[u] = "poll"
      BY <1>0, <3>1
    <3> QED
      BY <3>1, <3>2, <3>3 DEF SleepInv
  <2>2. ASSUME NEW q, NEW was, Pass(t, q, was) PROVE SleepInv'
    BY <2>2, SleepPass
  <2> QED
    BY <1>1, <2>1, <2>2, Passes
<1>2. ASSUME NEW t \in Threads, Poll(t)
      PROVE  SleepInv'
  <2>1. /\ pc[t] = "poll" /\ pc' = [pc EXCEPT ![t] = "polled"]
        /\ UNCHANGED <<queue, interrupted, stopped, signalled, owes, block>>
    BY <1>2 DEF Poll
  <2>2. \A u \in Threads : pc'[u] # "poll"
    BY <1>0, <2>1 DEF ReactorInv, Polling
  <2>3. t \in Coming'
    BY <1>0, <2>1 DEF Coming
  <2>4. Waiters' = Waiters /\ \A u \in Threads : pc'[u] = "waiting" => pc[u] = "waiting"
    BY <1>0, <2>1 DEF Waiters
  <2> QED
    BY <2>1, <2>2, <2>3, <2>4 DEF SleepInv
<1>3. ASSUME NEW a \in Actors, Push(a)
      PROVE  SleepInv'
  <2>1. /\ UNCHANGED <<stopped, pc, block>> /\ Waiters' = Waiters
        /\ wake_one_thread_and_unlock(a, Waiters, interrupted)
    BY <1>3 DEF Push, Waiters
  <2>2. signalled' = TRUE
    BY <2>1 DEF wake_one_thread_and_unlock
  <2>3. CASE Waiters # {}
    <3>1. owes' = owes \cup {a} /\ interrupted' = interrupted /\ UNCHANGED wakeup
      BY <2>1, <2>3 DEF wake_one_thread_and_unlock
    <3> QED
      BY <2>1, <2>2, <2>3, <3>1 DEF SleepInv
  <2>4. CASE Waiters = {}
    <3>1. interrupted' = TRUE /\ wakeup' = (wakeup \/ ~interrupted)
      BY <2>1, <2>4 DEF wake_one_thread_and_unlock
    <3>2. \A u \in Threads : pc[u] # "waiting"
      BY <2>4 DEF Waiters
    <3> QED
      BY <1>0, <2>1, <2>2, <3>1, <3>2 DEF SleepInv
  <2> QED
    BY <2>3, <2>4
<1>4. ASSUME NEW a \in Actors, Signal(a)
      PROVE  SleepInv'
  <2>1. UNCHANGED <<queue, interrupted, stopped, signalled, wakeup, block>>
    BY <1>4 DEF Signal
  <2>2. CASE (\A u \in Threads : pc[u] # "waiting") /\ pc' = pc
    BY <2>1, <2>2 DEF SleepInv, Waiters
  <2>3. ASSUME NEW u \in Threads, pc[u] = "waiting", pc' = [pc EXCEPT ![u] = "woken"]
        PROVE  SleepInv'
    <3>1. u \in Coming' /\ Waiters' = Waiters
      BY <1>0, <2>3 DEF Coming, Waiters
    <3>2. \A v \in Threads : (pc'[v] = "poll" => pc[v] = "poll") /\ (pc'[v] = "waiting" => pc[v] = "waiting")
      BY <1>0, <2>3
    <3> QED
      BY <2>1, <3>1, <3>2 DEF SleepInv
  <2> QED
    BY <1>4, <2>2, <2>3 DEF Signal
<1>5. ASSUME NEW t \in Threads, Spurious(t)
      PROVE  SleepInv'
  <2>1. /\ UNCHANGED <<queue, interrupted, stopped, signalled, owes, wakeup, block>>
        /\ pc[t] = "waiting" /\ pc' = [pc EXCEPT ![t] = "woken"]
    BY <1>5 DEF Spurious
  <2>2. t \in Coming' /\ Waiters' = Waiters
    BY <1>0, <2>1 DEF Coming, Waiters
  <2>3. \A v \in Threads : (pc'[v] = "poll" => pc[v] = "poll") /\ (pc'[v] = "waiting" => pc[v] = "waiting")
    BY <1>0, <2>1
  <2> QED
    BY <2>1, <2>2, <2>3 DEF SleepInv
<1>6. ASSUME NEW t \in Threads, StopSelf(t)
      PROVE  SleepInv'
  <2>1. /\ StopAll([pc EXCEPT ![t] = "lock"]) /\ UNCHANGED <<queue, block>>
        /\ [pc EXCEPT ![t] = "lock"] \in [Threads -> Labels]
    BY <1>0, <1>6 DEF StopSelf, Labels
  <2>2. \A u \in Threads : \/ [pc EXCEPT ![t] = "lock"][u] = pc[u]
                           \/ [pc EXCEPT ![t] = "lock"][u] = "lock"
    BY <1>0
  <2> QED
    BY <2>1, <2>2, SleepStopped
<1>7. CASE StopOutside
  BY <1>0, <1>7, SleepStopped DEF StopOutside
<1>8. ASSUME NEW t \in Threads, Run(t) \/ Finish(t) \/ PerformIo(t) \/ WorkCleanup(t)
      PROVE  SleepInv'
  BY <1>0, <1>8, SleepKept DEF Run, Finish, InHandler, PerformIo, WorkCleanup
<1>9. ASSUME NEW t \in Threads, StartOp(t) \/ PostFrom(t) \/ Close(t)
      PROVE  SleepInv'
  BY <1>0, <1>9, SleepKept DEF StartOp, PostFrom, Close
<1>10. CASE PostOutside \/ UNCHANGED vars
  BY <1>10, SleepKept DEF PostOutside, vars
<1>11. ASSUME NEW d \in Descriptors, Arrive(d)
       PROVE  SleepInv'
  BY <1>11, SleepKept DEF Arrive
<1> QED
  BY <1>1, <1>2, <1>3, <1>4, <1>5, <1>6, <1>7, <1>8, <1>9, <1>10, <1>11
  DEF Next, LoopStep, HandlerStep, Done

-----------------------------------------------------------------------------
(* Where operations are.                                                    *)

LEMMA QueuedMeans ==
    \A o : o \in Queued <=>
       /\ o \in Ops
       /\ \/ InQueue(queue, Call(o))
          \/ \E t \in Threads : InQueue(private[t], Call(o))
          \/ \E a \in Actors : pushing[a] = Call(o)
<1> TAKE o
<1> QED
  BY DEF Queued

LEMMA PlaceInit ==
    ASSUME NoneIsNoElement, Init
    PROVE  PlaceInv
<1>1. queue = <<Task>> /\ \A t \in Threads : private[t] = <<>>
  BY DEF Init
<1>2. \A o \in Ops : Call(o) # Task /\ Call(o) # None
  BY ElementParts, ElementKinds, NoneIsNoElement
<1>3. \A o \in Ops : ~InQueue(queue, Call(o)) /\ \A t \in Threads : ~InQueue(private[t], Call(o))
  BY <1>1, <1>2 DEF InQueue
<1>4. \A a \in Actors, o \in Ops : pushing[a] # Call(o)
  BY <1>2 DEF Init
<1>5. Queued = {}
  BY <1>3, <1>4 DEF Queued
<1> QED
  BY <1>3, <1>4, <1>5 DEF Init, PlaceInv, OnePlace, Once, InQueue

LEMMA PlacesShrink ==
    ASSUME NEW o \in Ops, OnePlace(o),
           Once(queue', Call(o)), InQueue(queue', Call(o)) => InQueue(queue, Call(o)),
           \A t \in Threads : /\ Once(private'[t], Call(o))
                              /\ InQueue(private'[t], Call(o)) => InQueue(private[t], Call(o)),
           \A a \in Actors : pushing'[a] = Call(o) => pushing[a] = Call(o),
           o \in pending' => o \in pending
    PROVE  OnePlace(o)' /\ (o \in Queued' => o \in Queued)
<1>1. o \in Queued' => o \in Queued
  BY QueuedMeans DEF Queued
<1> QED
  BY <1>1 DEF OnePlace

LEMMA PlacesKept ==
    ASSUME PlaceInv, UNCHANGED <<queue, private, pushing, shut>>, pending' \subseteq pending, posted \subseteq posted'
    PROVE  PlaceInv' /\ Queued' = Queued
<1>1. Queued' = Queued
  BY DEF Queued
<1>2. \A o \in Ops : OnePlace(o)'
  BY <1>1 DEF PlaceInv, OnePlace
<1> QED
  BY <1>1, <1>2 DEF PlaceInv

\* A pass of the loop takes out one operation and calls it, or none.
LEMMA PassPlaces ==
    ASSUME NoneIsNoElement, TypeInv, FitInv, PlaceInv, NEW t \in Threads, NEW q, NEW was, Pass(t, q, was)
    PROVE  /\ PlaceInv'
           /\ \/ Queued' = Queued /\ pc'[t] # "handler"
              \/ \E o \in Queued : Queued' = Queued \ {o} /\ pc'[t] = "handler" /\ cur'[t] = Call(o)
<1>0. /\ pc \in [Threads -> Labels] /\ cur \in [Threads -> Elements \cup {None}]
      /\ private \in [Threads -> Seq(Elements)]
  BY DEF TypeInv, TypeOK
<1>1. /\ q \in Seq(Elements) /\ \A o \in Ops : Once(q, Call(o))
      /\ \A o \in Ops : InQueue(q, Call(o)) <=> InQueue(queue, Call(o)) \/ InQueue(private[t], Call(o))
      /\ private'[t] = <<>> /\ \A u \in Threads \ {t} : private'[u] = private[u]
      /\ UNCHANGED <<pushing, pending, shut, posted>>
  BY <1>0, ElementParts DEF Pass, history
<1>2. \A o \in Ops : OnePlace(o)
  BY DEF PlaceInv
<1>3. \A o \in Ops : ~InQueue(private'[t], Call(o)) /\ \A u \in Threads : Once(private'[u], Call(o))
  BY <1>1, <1>2 DEF InQueue, Once, OnePlace
\* After the pass: o may be in q where it was before.
<1>4. ASSUME NEW o \in Ops, Once(queue', Call(o)), InQueue(queue', Call(o)) => InQueue(q, Call(o))
      PROVE  OnePlace(o)' /\ (o \in Queued' => o \in Queued)
  <2>1. InQueue(queue', Call(o)) => InQueue(queue, Call(o)) \/ InQueue(private[t], Call(o))
    BY <1>1, <1>4
  <2>2. \A u \in Threads : InQueue(private'[u], Call(o)) => u # t /\ InQueue(private[u], Call(o))
    BY <1>1, <1>3
  <2>3. o \in Queued' => o \in Queued
    BY <1>1, <2>1, <2>2 DEF Queued
  <2> QED
    BY <1>1, <1>2, <1>3, <1>4, <2>1, <2>2, <2>3 DEF OnePlace
<1>5. ASSUME \A o \in Ops : Once(queue', Call(o)) /\ (InQueue(queue', Call(o)) => InQueue(q, Call(o)))
      PROVE  PlaceInv' /\ \A o \in Ops : o \in Queued' => o \in Queued
  <2>1. \A o \in Ops : OnePlace(o)' /\ (o \in Queued' => o \in Queued)
    BY <1>4, <1>5
  <2>2. Queued' \subseteq Ops /\ Queued' \subseteq Queued
    BY <2>1 DEF Queued
  <2> QED
    BY <1>1, <2>1, <2>2 DEF PlaceInv
<1>6. ASSUME NEW o \in Queued, InQueue(q, Call(o)) => InQueue(queue', Call(o)) PROVE o \in Queued'
  <2>1. o \in Ops /\ (InQueue(queue', Call(o)) => o \in Queued')
    BY DEF Queued
  <2>2. ASSUME NEW u \in Threads \ {t}, InQueue(private[u], Call(o)) PROVE o \in Queued'
    BY <1>1, <2>1, <2>2 DEF Queued
  <2>3. ASSUME NEW a \in Actors, pushing[a] = Call(o) PROVE o \in Queued'
    BY <1>1, <2>1, <2>3 DEF Queued
  <2> QED
    BY <1>1, <1>6, <2>1, <2>2, <2>3, QueuedMeans
<1>7. Queued' \subseteq Ops /\ Queued \subseteq Ops
  BY DEF Queued
<1>8. CASE queue' = q /\ pc'[t] # "handler"
  <2>1. PlaceInv' /\ \A o \in Ops : o \in Queued' => o \in Queued
    BY <1>1, <1>5, <1>8
  <2>2. Queued' = Queued
    BY <1>6, <1>7, <1>8, <2>1
  <2> QED
    BY <1>8, <2>1, <2>2
<1>9. CASE q # <<>> /\ queue' = Tail(q) /\ pc'[t] # "handler" /\ \A o \in Ops : Head(q) # Call(o)
  <2>1. PlaceInv' /\ \A o \in Ops : o \in Queued' => o \in Queued
    BY <1>1, <1>5, <1>9, TailPlaces
  <2>2. \A o \in Ops : InQueue(q, Call(o)) => InQueue(queue', Call(o))
    BY <1>1, <1>9, TailPlaces
  <2>3. Queued' = Queued
    BY <1>6, <1>7, <2>1, <2>2
  <2> QED
    BY <1>9, <2>1, <2>3
<1>10. ASSUME NEW p \in Ops, q # <<>>, queue' = Tail(q), Head(q) = Call(p), pc'[t] = "handler", cur'[t] = Head(q)
       PROVE  /\ PlaceInv'
              /\ \E o \in Queued : Queued' = Queued \ {o} /\ pc'[t] = "handler" /\ cur'[t] = Call(o)
  <2>1. PlaceInv' /\ \A o \in Ops : o \in Queued' => o \in Queued
    BY <1>1, <1>5, <1>10, TailPlaces
  <2>2. \A o \in Ops : o # p => (InQueue(q, Call(o)) => InQueue(queue', Call(o)))
    <3>1. \A o \in Ops : o # p => Call(o) # Head(q)
      BY <1>10, ElementParts
    <3> QED
      BY <1>1, <1>10, <3>1, TailPlaces
  <2>3. InQueue(q, Call(p)) /\ ~InQueue(queue', Call(p))
    BY <1>1, <1>10, TailPlaces
  <2>4. p \in Queued
    BY <1>1, <2>3 DEF Queued
  <2>5. p \notin Queued'
    <3>1. \A u \in Threads : InQueue(private'[u], Call(p)) => u # t /\ InQueue(private[u], Call(p))
      BY <1>1, <1>3
    <3>2. \A u \in Threads : ~InQueue(private'[u], Call(p))
      BY <1>1, <1>2, <2>3, <3>1 DEF OnePlace
    <3>3. \A a \in Actors : pushing'[a] # Call(p)
      BY <1>1, <1>2, <2>3 DEF OnePlace
    <3> QED
      BY <2>3, <3>2, <3>3 DEF Queued
  <2>6. Queued' = Queued \ {p}
    BY <1>6, <1>7, <2>1, <2>2, <2>5
  <2> QED
    BY <1>10, <2>1, <2>4, <2>6
<1> QED
  <2>1. \/ queue' = q /\ pc'[t] # "handler"
        \/ q # <<>> /\ queue' = Tail(q) /\ pc'[t] # "handler" /\ (Head(q) = Task \/ \E d \in Descriptors : Head(q) = Look(d))
        \/ /\ q # <<>> /\ queue' = Tail(q) /\ pc'[t] = "handler" /\ cur'[t] = Head(q)
           /\ \E o \in Ops : Head(q) = Call(o)
    BY <1>0, PassTakes
  <2>2. \A o \in Ops : Task # Call(o) /\ \A d \in Descriptors : Look(d) # Call(o)
    BY ElementParts
  <2>3. CASE q # <<>> /\ queue' = Tail(q) /\ pc'[t] # "handler" /\ (Head(q) = Task \/ \E d \in Descriptors : Head(q) = Look(d))
    BY <1>9, <2>2, <2>3
  <2> QED
    BY <1>8, <1>10, <2>1, <2>3

\* A thread is about to push an operation that was nowhere, or was pending.
LEMMA PushedPlaces ==
    ASSUME NoneIsNoElement, TypeInv, PlaceInv, NEW t \in Actors, NEW o \in Ops,
           pushing' = [pushing EXCEPT ![t] = Call(o)], pushing[t] = None, UNCHANGED <<queue, private>>,
           o \notin Queued, o \notin pending', pending' \subseteq pending, pending' \cap shut' = {},
           o \in Posts => o \in posted', posted \subseteq posted'
    PROVE  PlaceInv' /\ Queued' = Queued \cup {o}
<1>0. /\ Call(o) \in Elements /\ pushing \in [Actors -> Elements \cup {None}]
      /\ \A p \in Ops : OnePlace(p)
  BY ElementKinds DEF TypeInv, TypeOK, PlaceInv
<1>1. \A p \in Ops : (p # o => Call(p) # Call(o)) /\ None # Call(p)
  BY ElementKinds, ElementParts, NoneIsNoElement
<1>2. /\ ~InQueue(queue, Call(o)) /\ \A u \in Threads : ~InQueue(private[u], Call(o))
      /\ \A a \in Actors : pushing[a] # Call(o)
  BY QueuedMeans
<1>3. \A p \in Ops \ {o}, a \in Actors : pushing'[a] = Call(p) <=> pushing[a] = Call(p)
  BY <1>0, <1>1
<1>4. \A a \in Actors : pushing'[a] = Call(o) <=> a = t
  BY <1>0, <1>2
<1>5. ASSUME NEW p \in Ops \ {o} PROVE OnePlace(p)' /\ (p \in Queued' <=> p \in Queued)
  <2>1. p \in Queued' <=> p \in Queued
    BY <1>3 DEF Queued
  <2> QED
    BY <1>0, <1>3, <2>1 DEF OnePlace
<1>6. OnePlace(o)' /\ o \in Queued'
  <2>1. o \in Queued'
    <3>1. pushing'[t] = Call(o)
      BY <1>4
    <3> QED
      BY <3>1 DEF Queued
  <2> QED
    BY <1>0, <1>2, <1>4, <2>1 DEF OnePlace
<1>7. Queued' = Queued \cup {o}
  BY <1>5, <1>6 DEF Queued
<1> QED
  BY <1>5, <1>6, <1>7 DEF PlaceInv

\* An operation that completed at once was nowhere before.
LEMMA ImmediatePlaces ==
    ASSUME NoneIsNoElement, TypeInv, PlaceInv, NEW t \in Threads, NEW o \in Ops, on_immediate(t, o),
           o \notin pending, o \notin Queued, pushing[t] = None, UNCHANGED <<queue, pending, shut>>,
           o \in Posts => o \in posted', posted \subseteq posted'
    PROVE  PlaceInv' /\ Queued' = Queued \cup {o}
<1>0. /\ private \in [Threads -> Seq(Elements)] /\ t \in Actors /\ Call(o) \in Elements
      /\ pushing \in [Actors -> Elements \cup {None}] /\ private[t] \in Seq(Elements)
      /\ \A p \in Ops : OnePlace(p)
  BY ElementKinds DEF TypeInv, TypeOK, Actors, PlaceInv
<1>1. \A p \in Ops : p # o => Call(p) # Call(o)
  BY ElementParts
<1>2. /\ ~InQueue(queue, Call(o)) /\ \A u \in Threads : ~InQueue(private[u], Call(o))
      /\ \A a \in Actors : pushing[a] # Call(o)
  BY QueuedMeans
<1>4. CASE private' = [private EXCEPT ![t] = Append(@, Call(o))] /\ UNCHANGED pushing
  <2>1. private'[t] = Append(private[t], Call(o)) /\ \A u \in Threads \ {t} : private'[u] = private[u]
    BY <1>0, <1>4
  <2>2. /\ \A p \in Ops : InQueue(private'[t], Call(p)) <=> InQueue(private[t], Call(p)) \/ p = o
        /\ \A p \in Ops : Once(private'[t], Call(p))
    BY <1>0, <1>1, <1>2, <2>1, AppendPlaces DEF OnePlace
  <2>3. ASSUME NEW p \in Ops \ {o} PROVE OnePlace(p)' /\ (p \in Queued' <=> p \in Queued)
    <3>1. \A u \in Threads : /\ InQueue(private'[u], Call(p)) <=> InQueue(private[u], Call(p))
                             /\ Once(private'[u], Call(p))
      BY <1>0, <2>1, <2>2, <2>3 DEF OnePlace
    <3>2. p \in Queued' <=> p \in Queued
      BY <1>4, <3>1 DEF Queued
    <3> QED
      BY <1>0, <1>4, <3>1, <3>2 DEF OnePlace
  <2>4. OnePlace(o)' /\ o \in Queued'
    <3>1. o \in Queued'
      BY <2>2 DEF Queued
    <3>2. \A u \in Threads : /\ InQueue(private'[u], Call(o)) => u = t
                             /\ Once(private'[u], Call(o))
      BY <1>0, <1>2, <2>1, <2>2 DEF OnePlace
    <3> QED
      BY <1>0, <1>2, <1>4, <3>1, <3>2 DEF OnePlace
  <2>5. Queued' = Queued \cup {o}
    BY <2>3, <2>4 DEF Queued
  <2> QED
    BY <2>3, <2>4, <2>5 DEF PlaceInv
<1>5. CASE pushing' = [pushing EXCEPT ![t] = Call(o)] /\ UNCHANGED private
  BY <1>0, <1>5, PushedPlaces DEF PlaceInv
<1> QED
  BY <1>4, <1>5 DEF on_immediate

LEMMA PollPlaces ==
    ASSUME TypeInv, FitInv, PlaceInv, NEW t \in Threads, Poll(t)
    PROVE  PlaceInv' /\ Queued' = Queued
<1>0. private \in [Threads -> Seq(Elements)] /\ \A o \in Ops : OnePlace(o)
  BY DEF TypeInv, TypeOK, PlaceInv
<1>1. /\ \A u \in Threads \ {t} : private'[u] = private[u]
      /\ private[t] = <<>>
      /\ UNCHANGED <<queue, pushing, pending, shut, posted>>
  BY <1>0 DEF Poll, scheduler, history, FitInv, StepFits
<1>2. \A o \in Ops : ~InQueue(private'[t], Call(o))
  <2>1. PICK s \in SetToSeqs(event) :
          private' = [private EXCEPT ![t] = [i \in 1..Cardinality(event) |-> Look(s[i])]]
    BY DEF Poll
  <2>2. IsFiniteSet(event) /\ Cardinality(event) \in Nat
    BY IoContextAssumption, FS_Subset, FS_CardinalityType DEF IoContextAssumption, TypeInv, TypeOK
  <2>3. private'[t] = [i \in 1..Cardinality(event) |-> Look(s[i])]
    BY <1>0, <2>1
  <2>4. Len(private'[t]) = Cardinality(event)
    BY <2>2, <2>3
  <2>5. ASSUME NEW i \in 1..Len(private'[t]), NEW o \in Ops
        PROVE  private'[t][i] # Call(o)
    <3>1. private'[t][i] = Look(s[i])
      BY <2>3, <2>4
    <3> QED
      BY <3>1, ElementParts
  <2> QED
    BY <2>5 DEF InQueue
<1>3. \A o \in Ops : OnePlace(o)' /\ (o \in Queued' => o \in Queued)
  <2> TAKE o \in Ops
  <2>1. \A u \in Threads : /\ Once(private'[u], Call(o))
                           /\ InQueue(private'[u], Call(o)) => InQueue(private[u], Call(o))
    BY <1>0, <1>1, <1>2 DEF OnePlace, Once, InQueue
  <2>2. OnePlace(o) /\ Once(queue', Call(o))
    BY <1>0, <1>1 DEF OnePlace
  <2> QED
    BY <1>1, <2>1, <2>2, PlacesShrink
<1>4. Queued' = Queued
  <2>1. Queued' \subseteq Queued
    BY <1>3 DEF Queued
  <2>2. ASSUME NEW o \in Queued PROVE o \in Queued'
    <3>1. \A u \in Threads : InQueue(private[u], Call(o)) => InQueue(private'[u], Call(o))
      BY <1>1 DEF InQueue
    <3> QED
      BY <1>1, <3>1 DEF Queued
  <2> QED
    BY <2>1, <2>2
<1> QED
  BY <1>1, <1>3, <1>4 DEF PlaceInv

LEMMA StartPlaces ==
    ASSUME NoneIsNoElement, TypeInv, PlaceInv, NEW t \in Threads, StartOp(t)
    PROVE  /\ PlaceInv'
           /\ LET d == cur[t][2]
              IN  \/ /\ on_immediate(t, d) /\ pending' = pending
                     /\ Queued' = Queued \cup {d}
                  \/ /\ pending' = pending \cup {d} /\ work' = work + 1
                     /\ UNCHANGED <<private, credit>>
                     /\ Queued' = Queued
<1> DEFINE d == cur[t][2]
<1>1. /\ d \in Descriptors /\ d \in Ops /\ d \notin pending /\ d \notin Queued /\ pushing[t] = None
      /\ d \notin Posts /\ UNCHANGED <<queue, shut, posted>>
  BY IoContextAssumption DEF StartOp, InHandler, Ops, history, IoContextAssumption
<1>2. CASE on_immediate(t, d) /\ pending' = pending
  BY <1>1, <1>2, ImmediatePlaces
<1>3. CASE /\ d \notin shut /\ pending' = pending \cup {d} /\ work' = work + 1
           /\ UNCHANGED <<private, credit, pushing>>
  <2>1. Queued' = Queued
    BY <1>1, <1>3 DEF Queued
  <2>2. \A o \in Ops : OnePlace(o)'
    BY <1>1, <1>3, <2>1 DEF PlaceInv, OnePlace
  <2> QED
    BY <1>1, <1>3, <2>1, <2>2 DEF PlaceInv
<1> QED
  BY <1>2, <1>3 DEF StartOp

\* A post of a function that was not posted before.
LEMMA PostPlaces ==
    ASSUME NoneIsNoElement, TypeInv, PlaceInv, (\E t \in Threads : PostFrom(t)) \/ PostOutside
    PROVE  /\ PlaceInv' /\ pending' = pending
           /\ \E p \in Posts : /\ p \in Ops \ (pending \cup Queued)
                               /\ Queued' = Queued \cup {p}
<1>0. /\ pending \in SUBSET Descriptors /\ Outside \in Actors
      /\ pending \cap shut = {} /\ Queued \cap Posts \subseteq posted
  BY DEF TypeInv, TypeOK, Actors, PlaceInv
<1>1. \A p \in Posts \ posted : p \in Ops /\ p \notin pending /\ p \notin Queued
  BY <1>0, IoContextAssumption DEF Ops, IoContextAssumption
<1>2. ASSUME NEW t \in Threads, PostFrom(t)
      PROVE  /\ PlaceInv' /\ pending' = pending
             /\ \E p \in Posts \ posted : Queued' = Queued \cup {p}
  <2>1. PICK p \in Posts \ posted : posted' = posted \cup {p} /\ on_immediate(t, p)
    BY <1>2 DEF PostFrom
  <2>2. pushing[t] = None /\ UNCHANGED <<queue, pending, shut>>
    BY <1>2 DEF PostFrom, InHandler, reactor
  <2> QED
    BY <1>1, <2>1, <2>2, ImmediatePlaces
<1>3. CASE PostOutside
  <2>1. PICK p \in Posts \ posted :
          /\ posted' = posted \cup {p}
          /\ pushing' = [pushing EXCEPT ![Outside] = Call(p)]
    BY <1>3 DEF PostOutside
  <2>2. pushing[Outside] = None /\ UNCHANGED <<queue, private, pending, shut>>
    BY <1>3 DEF PostOutside, reactor
  <2> QED
    BY <1>0, <1>1, <2>1, <2>2, PushedPlaces
<1> QED
  BY <1>1, <1>2, <1>3

LEMMA PushPlaces ==
    ASSUME NoneIsNoElement, TypeInv, PlaceInv, NEW a \in Actors, Push(a)
    PROVE  PlaceInv' /\ Queued' = Queued
<1>0. /\ queue \in Seq(Elements) /\ pushing \in [Actors -> Elements \cup {None}]
      /\ \A o \in Ops : OnePlace(o)
  BY DEF TypeInv, TypeOK, PlaceInv
<1>1. PICK o \in Ops : pushing[a] = Call(o)
  BY DEF Push, TypeInv
<1>2. /\ queue' = Append(queue, Call(o)) /\ pushing' = [pushing EXCEPT ![a] = None]
      /\ UNCHANGED <<private, pending, shut, posted>>
  BY <1>1 DEF Push, history
<1>3. Call(o) \in Elements /\ \A p \in Ops : (p # o => Call(p) # Call(o)) /\ None # Call(p)
  BY ElementKinds, ElementParts, NoneIsNoElement
<1>4. \A p \in Ops : InQueue(queue', Call(p)) <=> InQueue(queue, Call(p)) \/ p = o
  BY <1>0, <1>2, <1>3, AppendPlaces
<1>5. \A p \in Ops : Once(queue', Call(p))
  BY <1>0, <1>1, <1>2, <1>3, AppendPlaces DEF OnePlace
<1>6. \A p \in Ops, b \in Actors : pushing'[b] = Call(p) <=> b # a /\ pushing[b] = Call(p)
  BY <1>0, <1>2, <1>3
<1>7. \A p \in Ops : p \in Queued' <=> p \in Queued
  <2> TAKE p \in Ops
  <2>1. CASE p = o
    BY <1>1, <1>4, <2>1 DEF Queued
  <2>2. CASE p # o
    <3>1. pushing[a] # Call(p)
      BY <1>1, <1>3, <2>2
    <3>2. \A b \in Actors : pushing'[b] = Call(p) <=> pushing[b] = Call(p)
      BY <1>6, <3>1
    <3> QED
      BY <1>2, <1>4, <2>2, <3>2 DEF Queued
  <2> QED
    BY <2>1, <2>2
<1>8. Queued' = Queued
  BY <1>7 DEF Queued
<1>9. \A p \in Ops : OnePlace(p)'
  <2> TAKE p \in Ops
  <2>1. CASE p = o
    <3>1. \A b \in Actors : pushing'[b] # Call(o)
      BY <1>0, <1>1, <1>6 DEF OnePlace
    <3> QED
      BY <1>0, <1>1, <1>2, <1>4, <1>5, <1>8, <2>1, <3>1 DEF OnePlace
  <2>2. CASE p # o
    BY <1>0, <1>2, <1>4, <1>5, <1>6, <1>8, <2>2 DEF OnePlace
  <2> QED
    BY <2>1, <2>2
<1> QED
  BY <1>2, <1>8, <1>9 DEF PlaceInv

LEMMA ClosePlaces ==
    ASSUME NoneIsNoElement, TypeInv, PlaceInv, NEW t \in Threads, Close(t)
    PROVE  /\ PlaceInv'
           /\ \/ pending' = pending /\ Queued' = Queued
              \/ \E d \in pending : pending' = pending \ {d} /\ Queued' = Queued \cup {d}
<1>1. PICK d \in Descriptors \ shut :
        /\ shut' = shut \cup {d}
        /\ pending' = pending \ {d}
        /\ pushing' = IF d \in pending THEN [pushing EXCEPT ![t] = Call(d)] ELSE pushing
  BY DEF Close
<1>2. /\ pushing[t] = None /\ UNCHANGED <<queue, private, posted>> /\ d \in Ops /\ d \notin Posts /\ t \in Actors
      /\ pending \cap shut = {}
  BY <1>1, IoContextAssumption DEF Close, InHandler, scheduler, history, Ops, Actors, PlaceInv, IoContextAssumption
<1>3. CASE d \in pending
  <2>1. d \notin Queued
    BY <1>2, <1>3 DEF PlaceInv, OnePlace
  <2> QED
    BY <1>1, <1>2, <1>3, <2>1, PushedPlaces
<1>4. CASE d \notin pending
  <2>1. pending' = pending /\ Queued' = Queued
    BY <1>1, <1>2, <1>4 DEF Queued
  <2>2. \A o \in Ops : OnePlace(o)'
    BY <1>1, <1>2, <1>4, <2>1 DEF PlaceInv, OnePlace
  <2> QED
    BY <1>1, <1>2, <1>4, <2>1, <2>2 DEF PlaceInv
<1> QED
  BY <1>3, <1>4

\* Steps that move no operation.
Unmoved == UNCHANGED <<queue, private, pushing, pending, shut, posted>>

LEMMA OthersUnmoved ==
    ASSUME \/ \E t \in Threads : SleepOn(t) \/ Run(t) \/ WorkCleanup(t) \/ StopSelf(t) \/ Finish(t) \/ Spurious(t)
           \/ \E a \in Actors : Signal(a)
           \/ \E d \in Descriptors : Arrive(d)
           \/ StopOutside
           \/ UNCHANGED vars
    PROVE  Unmoved
<1> USE DEF scheduler, condition, thread, reactor, history, Unmoved
<1>1. ASSUME NEW t \in Threads, SleepOn(t) \/ Run(t) \/ WorkCleanup(t) \/ StopSelf(t) \/ Finish(t) \/ Spurious(t)
      PROVE  Unmoved
  BY <1>1 DEF SleepOn, Run, WorkCleanup, StopSelf, Finish, Spurious
<1>2. ASSUME NEW a \in Actors, Signal(a) PROVE Unmoved
  BY <1>2 DEF Signal
<1>3. ASSUME NEW d \in Descriptors, Arrive(d) PROVE Unmoved
  BY <1>3 DEF Arrive
<1>4. CASE StopOutside \/ UNCHANGED vars
  BY <1>4 DEF StopOutside, vars
<1> QED
  BY <1>1, <1>2, <1>3, <1>4

LEMMA PlaceStep ==
    ASSUME NoneIsNoElement, TypeInv, FitInv, ReactorInv, PlaceInv, [Next]_vars
    PROVE  PlaceInv'
<1>1. ASSUME NEW t \in Threads, LockAndLoop(t) \/ Wake(t) \/ Polled(t)
      PROVE  PlaceInv'
  <2>1. CASE SleepOn(t)
    BY <2>1, OthersUnmoved, PlacesKept DEF Unmoved
  <2>2. ASSUME NEW q, NEW was, Pass(t, q, was) PROVE PlaceInv'
    BY <2>2, PassPlaces
  <2> QED
    BY <1>1, <2>1, <2>2, Passes
<1>2. ASSUME NEW t \in Threads, Poll(t) \/ StartOp(t) \/ PostFrom(t) \/ Close(t)
      PROVE  PlaceInv'
  BY <1>2, PollPlaces, StartPlaces, PostPlaces, ClosePlaces
<1>3. ASSUME NEW a \in Actors, Push(a)
      PROVE  PlaceInv'
  BY <1>3, PushPlaces
<1>4. CASE PostOutside
  BY <1>4, PostPlaces
<1>5. ASSUME NEW t \in Threads, PerformIo(t)
      PROVE  PlaceInv'
  <2>1. UNCHANGED <<queue, private, pushing, shut>> /\ pending' \subseteq pending /\ posted \subseteq posted'
    BY <1>5 DEF PerformIo, scheduler, history
  <2> QED
    BY <2>1, PlacesKept
<1>6. CASE Unmoved
  BY <1>6, PlacesKept DEF Unmoved
<1>7. CASE \/ \E t \in Threads : SleepOn(t) \/ Run(t) \/ WorkCleanup(t) \/ StopSelf(t) \/ Finish(t) \/ Spurious(t)
           \/ \E a \in Actors : Signal(a)
           \/ \E d \in Descriptors : Arrive(d)
           \/ StopOutside
           \/ UNCHANGED vars
  BY <1>6, <1>7, OthersUnmoved
<1> QED
  BY <1>1, <1>2, <1>3, <1>4, <1>5, <1>7 DEF Next, LoopStep, HandlerStep, Done

-----------------------------------------------------------------------------
(* The counter of work.                                                     *)

KeptBack == UNION {Kept(t) : t \in Threads}
Counted == (pending \cup Queued) \ KeptBack
Extra(t) == IF pc[t] = "done" /\ t \notin Busy THEN 1 ELSE 0

LEMMA CountsAre ==
    WorkIsCounted <=> /\ work = Cardinality(Counted) + Cardinality(Busy)
                      /\ \A t \in Threads : credit[t] = Cardinality(Kept(t)) + Extra(t)
BY DEF WorkIsCounted, Counted, KeptBack, Extra

LEMMA CountsBecome ==
    WorkIsCounted' <=> /\ work' = Cardinality(Counted') + Cardinality(Busy')
                       /\ \A t \in Threads : credit'[t] = Cardinality(Kept(t)') + Extra(t)'
BY DEF WorkIsCounted, Counted, KeptBack, Extra

\* What is counted is finite, although there may be any number of functions to post.
LEMMA FiniteWork ==
    ASSUME TypeInv, PlaceInv
    PROVE  /\ IsFiniteSet(pending \cup Queued) /\ IsFiniteSet(Counted) /\ IsFiniteSet(Busy)
           /\ Cardinality(Counted) \in Nat /\ Cardinality(Busy) \in Nat
           /\ Busy \subseteq Threads
           /\ \A t \in Threads : Kept(t) \subseteq Queued /\ IsFiniteSet(Kept(t)) /\ Cardinality(Kept(t)) \in Nat
<1>1. IsFiniteSet(Descriptors \cup posted)
  BY IoContextAssumption, FS_Union DEF IoContextAssumption, TypeInv
<1>2. pending \cup Queued \subseteq Descriptors \cup posted
  BY DEF TypeInv, TypeOK, PlaceInv, Queued, Ops
<1>3. IsFiniteSet(pending \cup Queued) /\ Counted \subseteq pending \cup Queued
  BY <1>1, <1>2, FS_Subset DEF Counted
<1>4. Busy \subseteq Threads
  BY DEF Busy, InHandlerOrDone
<1>5. \A t \in Threads : Kept(t) \subseteq Queued
  BY DEF Kept, Queued
<1>6. IsFiniteSet(Counted) /\ IsFiniteSet(Busy) /\ \A t \in Threads : IsFiniteSet(Kept(t))
  BY <1>3, <1>4, <1>5, FS_Subset, IoContextAssumption DEF IoContextAssumption
<1> QED
  BY <1>3, <1>4, <1>5, <1>6, FS_CardinalityType

LEMMA WorkInit ==
    ASSUME NoneIsNoElement, IoContextAssumption, Init
    PROVE  WorkIsCounted
<1>1. InHandlerOrDone = {} /\ Busy = {} /\ \A t \in Threads : Kept(t) = {}
  BY DEF Init, InHandlerOrDone, Busy, Kept
<1>2. Queued = {}
  <2>1. queue = <<Task>> /\ \A t \in Threads : private[t] = <<>>
    BY DEF Init
  <2>2. \A o \in Ops : Call(o) # Task /\ Call(o) # None
    BY ElementParts, ElementKinds, NoneIsNoElement
  <2>3. \A o \in Ops : ~InQueue(queue, Call(o)) /\ \A t \in Threads : ~InQueue(private[t], Call(o))
    BY <2>1, <2>2 DEF InQueue
  <2>4. \A a \in Actors, o \in Ops : pushing[a] # Call(o)
    BY <2>2 DEF Init
  <2> QED
    BY <2>3, <2>4 DEF Queued
<1>3. KeptBack = {} /\ Counted = pending
  BY <1>1, <1>2 DEF KeptBack, Counted
<1>4. Cardinality({}) = 0 /\ Cardinality(pending) \in Nat
  BY FS_EmptySet, FS_Subset, FS_CardinalityType DEF Init, IoContextAssumption
<1>5. \A t \in Threads : credit[t] = 0 /\ Extra(t) = 0
  BY DEF Init, Extra
<1>6. work = Cardinality(pending)
  BY DEF Init
<1>7. \A t \in Threads : credit[t] = Cardinality(Kept(t)) + Extra(t)
  BY <1>1, <1>4, <1>5
<1>8. work = Cardinality(Counted) + Cardinality(Busy)
  BY <1>1, <1>3, <1>4, <1>6
<1> QED
  BY <1>7, <1>8, CountsAre

\* Threads keep their handlers and what they hold back, and nothing new is outstanding.
LEMMA WorkKept ==
    ASSUME WorkIsCounted, pending' \cup Queued' = pending \cup Queued, work' = work, credit' = credit,
           Busy' = Busy, \A t \in Threads : Kept(t)' = Kept(t) /\ Extra(t)' = Extra(t)
    PROVE  WorkIsCounted'
<1>1. KeptBack' = KeptBack
  BY DEF KeptBack
<1>2. Counted' = Counted
  BY <1>1 DEF Counted
<1> QED
  BY <1>2, CountsAre, CountsBecome

\* A thread that has no handler gets one: the operation is counted as running.
LEMMA WorkTaken ==
    ASSUME TypeInv, PlaceInv, WorkIsCounted, NEW o \in pending \cup Queued, NEW t \in Threads,
           o \notin KeptBack, pending' \cup Queued' = (pending \cup Queued) \ {o}, work' = work, credit' = credit,
           t \notin Busy, Busy' = Busy \cup {t}, \A u \in Threads : Kept(u)' = Kept(u) /\ Extra(u)' = Extra(u)
    PROVE  WorkIsCounted'
<1>1. KeptBack' = KeptBack
  BY DEF KeptBack
<1>2. Counted' = Counted \ {o} /\ o \in Counted
  BY <1>1 DEF Counted
<1>3. Cardinality(Counted') = Cardinality(Counted) - 1 /\ Cardinality(Busy') = Cardinality(Busy) + 1
  BY <1>2, FiniteWork, FS_RemoveElement, FS_AddElement
<1> QED
  BY <1>3, CountsAre, CountsBecome, FiniteWork

\* An operation is started and counted at once.
LEMMA WorkAdded ==
    ASSUME TypeInv, PlaceInv, WorkIsCounted, NEW o, o \notin pending \cup Queued,
           pending' \cup Queued' = pending \cup Queued \cup {o}, work' = work + 1, credit' = credit,
           Busy' = Busy, \A u \in Threads : Kept(u)' = Kept(u) /\ Extra(u)' = Extra(u)
    PROVE  WorkIsCounted'
<1>1. KeptBack' = KeptBack /\ o \notin KeptBack
  BY FiniteWork DEF KeptBack
<1>2. Counted' = Counted \cup {o} /\ o \notin Counted
  BY <1>1 DEF Counted
<1>3. Cardinality(Counted') = Cardinality(Counted) + 1
  BY <1>2, FiniteWork, FS_AddElement
<1> QED
  BY <1>3, CountsAre, CountsBecome, FiniteWork

LEMMA WorkImmediate ==
    ASSUME NoneIsNoElement, TypeInv, FitInv, PlaceInv, WorkIsCounted, NEW t \in Threads, NEW o \in Ops, on_immediate(t, o),
           o \notin pending \cup Queued, pending' = pending, Queued' = Queued \cup {o},
           pc[t] \in {"handler", "handled"}, pc'[t] \in {"handler", "handled"}, UNCHANGED cur,
           \A u \in Threads \ {t} : pc'[u] = pc[u]
    PROVE  WorkIsCounted'
<1>1. /\ private \in [Threads -> Seq(Elements)] /\ credit \in [Threads -> Nat] /\ Call(o) \in Elements
      /\ private[t] \in Seq(Elements)
  BY ElementKinds DEF TypeInv, TypeOK
<1>2. /\ InHandlerOrDone' = InHandlerOrDone /\ t \in InHandlerOrDone
      /\ Busy' = Busy
  BY DEF InHandlerOrDone, Busy
<1>3. \A u \in Threads : Extra(u)' = Extra(u)
  BY <1>2 DEF Extra
<1>4. CASE /\ private' = [private EXCEPT ![t] = Append(@, Call(o))]
           /\ credit' = [credit EXCEPT ![t] = @ + 1]
           /\ work' = work
  <2>1. private'[t] = Append(private[t], Call(o)) /\ \A u \in Threads \ {t} : private'[u] = private[u]
    BY <1>1, <1>4
  <2>2. \A p \in Ops : InQueue(private'[t], Call(p)) <=> InQueue(private[t], Call(p)) \/ p = o
    <3>1. \A p \in Ops : Call(p) = Call(o) <=> p = o
      BY ElementParts
    <3> QED
      BY <1>1, <2>1, <3>1, AppendPlaces
  <2>3. Kept(t)' = Kept(t) \cup {o} /\ \A u \in Threads \ {t} : Kept(u)' = Kept(u)
    BY <1>2, <2>1, <2>2 DEF Kept
  <2>4. KeptBack' = KeptBack \cup {o}
    BY <2>3 DEF KeptBack
  <2>5. Counted' = Counted
    BY <2>4 DEF Counted
  <2>6. o \notin Kept(t)
    BY FiniteWork
  <2>7. Cardinality(Kept(t)') = Cardinality(Kept(t)) + 1
    BY <2>3, <2>6, FiniteWork, FS_AddElement
  <2>8. credit'[t] = credit[t] + 1 /\ \A u \in Threads \ {t} : credit'[u] = credit[u]
    BY <1>1, <1>4
  <2>9. credit[t] = Cardinality(Kept(t)) + Extra(t) /\ Extra(t) \in {0, 1}
    BY CountsAre DEF Extra
  <2>10. credit'[t] = Cardinality(Kept(t)') + Extra(t)'
    BY <1>3, <2>7, <2>8, <2>9, FiniteWork
  <2>11. \A u \in Threads : credit'[u] = Cardinality(Kept(u)') + Extra(u)'
    BY <1>3, <2>3, <2>8, <2>10, CountsAre
  <2> QED
    BY <1>2, <1>4, <2>5, <2>11, CountsAre, CountsBecome
<1>5. CASE work' = work + 1 /\ UNCHANGED <<private, credit>>
  <2>1. \A u \in Threads : Kept(u)' = Kept(u)
    BY <1>2, <1>5 DEF Kept
  <2> QED
    BY <1>2, <1>3, <1>5, <2>1, WorkAdded
<1> QED
  BY <1>4, <1>5 DEF on_immediate

LEMMA WorkPass ==
    ASSUME NoneIsNoElement, TypeInv, FitInv, PlaceInv, WorkIsCounted, NEW t \in Threads, NEW q, NEW was, Pass(t, q, was)
    PROVE  WorkIsCounted'
<1>0. /\ pc \in [Threads -> Labels] /\ cur \in [Threads -> Elements \cup {None}]
      /\ private \in [Threads -> Seq(Elements)]
      /\ pc[t] \in {"lock", "woken", "polled"} /\ UNCHANGED <<work, credit, pending>>
      /\ private' = [private EXCEPT ![t] = <<>>]
  BY DEF TypeInv, TypeOK, Pass
<1>1. \A u \in Threads \ {t} : pc'[u] = pc[u] /\ cur'[u] = cur[u] /\ private'[u] = private[u]
  BY <1>0, PassTakes
<1>2. t \notin InHandlerOrDone /\ t \notin Busy /\ Kept(t) = {} /\ Extra(t) = 0
  BY <1>0 DEF InHandlerOrDone, Busy, Kept, Extra
<1>3. private'[t] = <<>> /\ pc'[t] \in {"returned", "waiting", "poll", "look", "handler"}
  BY <1>0, PassTakes
<1>4. \A u \in Threads : u # t => (u \in InHandlerOrDone' <=> u \in InHandlerOrDone)
  BY <1>1 DEF InHandlerOrDone
<1>5. \A u \in Threads : u # t => (u \in Busy' <=> u \in Busy)
  BY <1>1, <1>4 DEF Busy
<1>6. \A u \in Threads : Kept(u)' = Kept(u)
  <2>1. Kept(t)' = {}
    BY <1>3 DEF Kept, InQueue
  <2>2. ASSUME NEW u \in Threads, u # t PROVE Kept(u)' = Kept(u)
    BY <1>1, <1>4, <2>2 DEF Kept
  <2> QED
    BY <1>2, <2>1, <2>2
<1>7. \A u \in Threads : Extra(u)' = Extra(u)
  <2>1. Extra(t)' = 0
    BY <1>3 DEF Extra
  <2>2. ASSUME NEW u \in Threads, u # t PROVE Extra(u)' = Extra(u)
    BY <1>1, <1>5, <2>2 DEF Extra
  <2> QED
    BY <1>2, <2>1, <2>2
<1>8. Busy' \subseteq Threads /\ Busy \subseteq Threads
  BY DEF Busy, InHandlerOrDone
<1>9. CASE Queued' = Queued /\ pc'[t] # "handler"
  <2>1. t \notin Busy'
    BY <1>3, <1>9 DEF Busy, InHandlerOrDone
  <2>2. Busy' = Busy
    BY <1>2, <1>5, <1>8, <2>1
  <2> QED
    BY <1>0, <1>6, <1>7, <1>9, <2>2, WorkKept
<1>10. ASSUME NEW o \in Queued, Queued' = Queued \ {o}, pc'[t] = "handler", cur'[t] = Call(o)
       PROVE  WorkIsCounted'
  <2>1. t \in Busy'
    BY <1>10, ElementParts DEF Busy, InHandlerOrDone
  <2>2. Busy' = Busy \cup {t}
    BY <1>5, <1>8, <2>1
  <2>3. o \notin KeptBack
    <3> SUFFICES ASSUME NEW u \in Threads, o \in Kept(u)
                 PROVE  FALSE
      BY DEF KeptBack
    <3>1. o \in Kept(u)'
      BY <1>6
    <3>2. o \in Queued'
      BY <3>1 DEF Kept, Queued
    <3> QED
      BY <1>10, <3>2
  <2>4. o \notin pending
    BY <1>10 DEF PlaceInv, OnePlace, Queued
  <2>5. pending' \cup Queued' = (pending \cup Queued) \ {o}
    BY <1>0, <1>10, <2>4
  <2> QED
    BY <1>0, <1>2, <1>6, <1>7, <2>2, <2>3, <2>5, WorkTaken
<1> QED
  BY <1>9, <1>10, PassPlaces

\* The threads with a handler are the same ones.
LEMMA SameHandlers ==
    ASSUME private' = private, cur' = cur, InHandlerOrDone' = InHandlerOrDone,
           \A u \in Threads : u \notin Busy => (pc'[u] = "done" <=> pc[u] = "done")
    PROVE  Busy' = Busy /\ \A u \in Threads : Kept(u)' = Kept(u) /\ Extra(u)' = Extra(u)
<1>1. Busy' = Busy
  BY DEF Busy
<1> QED
  BY <1>1 DEF Kept, Extra

LEMMA WorkQuiet ==
    ASSUME PlaceInv, WorkIsCounted, Unmoved, work' = work, credit' = credit, cur' = cur,
           \A u \in Threads : \/ pc'[u] = pc[u]
                              \/ /\ pc[u] \notin {"handler", "handled", "done"}
                                 /\ pc'[u] \notin {"handler", "handled", "done"}
    PROVE  WorkIsCounted'
<1>1. InHandlerOrDone' = InHandlerOrDone
  BY DEF InHandlerOrDone
<1>2. Queued' = Queued /\ pending' = pending /\ private' = private
  BY PlacesKept DEF Unmoved
<1>3. Busy' = Busy /\ \A u \in Threads : Kept(u)' = Kept(u) /\ Extra(u)' = Extra(u)
  BY <1>1, <1>2, SameHandlers
<1> QED
  BY <1>2, <1>3, WorkKept

LEMMA WorkPerform ==
    ASSUME NoneIsNoElement, TypeInv, FitInv, PlaceInv, WorkIsCounted, NEW t \in Threads, PerformIo(t)
    PROVE  WorkIsCounted'
<1>0. /\ pc \in [Threads -> Labels] /\ cur \in [Threads -> Elements \cup {None}] /\ credit \in [Threads -> Nat]
      /\ UNCHANGED <<queue, private, pushing, shut, posted, work>> /\ pc[t] = "look"
      /\ pending \in SUBSET Descriptors
  BY DEF TypeInv, TypeOK, PerformIo, scheduler, history
<1>1. PICK d \in Descriptors : cur[t] = Look(d) /\ cur[t][2] = d /\ cur[t][1] = "look" /\ d \in Ops
  BY <1>0, ElementParts DEF FitInv, StepFits, Ops
<1>2. private[t] = <<>> /\ t \notin InHandlerOrDone /\ t \notin Busy /\ Kept(t) = {} /\ Extra(t) = 0
  BY <1>0 DEF FitInv, StepFits, InHandlerOrDone, Busy, Kept, Extra
<1>3. Queued' = Queued
  BY <1>0 DEF Queued
<1>4. ASSUME \A u \in Threads \ {t} : pc'[u] = pc[u] /\ cur'[u] = cur[u]
      PROVE  /\ Kept(t)' = {}
             /\ \A u \in Threads \ {t} : Kept(u)' = Kept(u) /\ Extra(u)' = Extra(u) /\ (u \in Busy' <=> u \in Busy)
  <2>1. \A u \in Threads \ {t} : u \in InHandlerOrDone' <=> u \in InHandlerOrDone
    BY <1>4 DEF InHandlerOrDone
  <2>2. \A u \in Threads \ {t} : u \in Busy' <=> u \in Busy
    BY <1>4, <2>1 DEF Busy
  <2>3. \A u \in Threads \ {t} : Kept(u)' = Kept(u) /\ Extra(u)' = Extra(u)
    BY <1>0, <1>4, <2>1, <2>2 DEF Kept, Extra
  <2>4. Kept(t)' = {}
    BY <1>0, <1>2 DEF Kept, InQueue
  <2> QED
    BY <2>2, <2>3, <2>4
<1>5. Busy \subseteq Threads /\ Busy' \subseteq Threads
  BY DEF Busy, InHandlerOrDone
<1>6. CASE d \in pending /\ data[d] > 0
  <2>1. /\ pending' = pending \ {d} /\ cur' = [cur EXCEPT ![t] = Call(d)]
        /\ pc' = [pc EXCEPT ![t] = "handler"] /\ UNCHANGED credit
    BY <1>1, <1>6 DEF PerformIo
  <2>2. /\ pc'[t] = "handler" /\ cur'[t] = Call(d)
        /\ \A u \in Threads \ {t} : pc'[u] = pc[u] /\ cur'[u] = cur[u]
    BY <1>0, <2>1
  <2>3. t \in Busy' /\ Extra(t)' = 0
    BY <2>2, ElementParts DEF Busy, InHandlerOrDone, Extra
  <2>4. Busy' = Busy \cup {t}
    BY <1>4, <1>5, <2>2, <2>3
  <2>5. d \notin Queued
    BY <1>1, <1>6 DEF PlaceInv, OnePlace
  <2>6. d \notin KeptBack
    BY <2>5, FiniteWork DEF KeptBack
  <2>7. pending' \cup Queued' = (pending \cup Queued) \ {d}
    BY <1>3, <2>1, <2>5
  <2>8. \A u \in Threads : Kept(u)' = Kept(u) /\ Extra(u)' = Extra(u)
    BY <1>2, <1>4, <2>2, <2>3
  <2> QED
    BY <1>0, <1>2, <1>6, <2>1, <2>4, <2>6, <2>7, <2>8, WorkTaken
<1>7. CASE ~(d \in pending /\ data[d] > 0)
  <2>1. /\ credit' = [credit EXCEPT ![t] = @ + 1]
        /\ pc' = [pc EXCEPT ![t] = "done"] /\ UNCHANGED <<pending, cur>>
    BY <1>1, <1>7 DEF PerformIo
  <2>2. /\ pc'[t] = "done" /\ cur'[t] = Look(d) /\ credit'[t] = credit[t] + 1
        /\ \A u \in Threads \ {t} : pc'[u] = pc[u] /\ cur'[u] = cur[u] /\ credit'[u] = credit[u]
    BY <1>0, <1>1, <2>1
  <2>3. t \notin Busy' /\ Extra(t)' = 1
    BY <2>2, ElementParts DEF Busy, Extra
  <2>4. Busy' = Busy
    <3>1. \A u \in Threads \ {t} : u \in Busy' <=> u \in Busy
      BY <1>4, <2>2
    <3> QED
      BY <1>2, <1>5, <2>3, <3>1
  <2>5. \A u \in Threads : Kept(u)' = Kept(u)
    BY <1>2, <1>4, <2>2
  <2>6. Counted' = Counted
    <3>1. KeptBack' = KeptBack
      BY <2>5 DEF KeptBack
    <3> QED
      BY <1>3, <2>1, <3>1 DEF Counted
  <2>7. credit'[t] = Cardinality(Kept(t)') + Extra(t)'
    <3>1. credit[t] = Cardinality(Kept(t)) + 0
      BY <1>2, CountsAre
    <3>2. Cardinality(Kept(t)') = Cardinality(Kept(t)) /\ Cardinality(Kept(t)) \in Nat
      BY <2>5, FiniteWork
    <3> QED
      BY <2>2, <2>3, <3>1, <3>2
  <2>8. \A u \in Threads : credit'[u] = Cardinality(Kept(u)') + Extra(u)'
    BY <1>4, <2>2, <2>7, CountsAre
  <2> QED
    BY <1>0, <2>4, <2>6, <2>8, CountsAre, CountsBecome
<1> QED
  BY <1>6, <1>7

\* The handler's own work is taken off, what it held back is added.
LEMMA WorkCleaned ==
    ASSUME NoneIsNoElement, TypeInv, FitInv, PlaceInv, WorkIsCounted, NEW t \in Threads, WorkCleanup(t)
    PROVE  WorkIsCounted'
<1>0. /\ pc \in [Threads -> Labels] /\ cur \in [Threads -> Elements \cup {None}] /\ credit \in [Threads -> Nat]
      /\ UNCHANGED <<queue, private, pushing, pending>>
      /\ pc[t] = "done" /\ work' = work + credit[t] - 1 /\ credit' = [credit EXCEPT ![t] = 0]
      /\ \A u \in Threads \ {t} : pc'[u] = pc[u] /\ cur'[u] = cur[u] /\ credit'[u] = credit[u]
      /\ pc'[t] \in {"lock", "stop"} /\ credit'[t] = 0
  BY DEF TypeInv, TypeOK, WorkCleanup, Remaining, reactor
<1>1. Queued' = Queued
  BY <1>0 DEF Queued
<1>2. Busy \subseteq Threads /\ Busy' \subseteq Threads /\ t \notin Busy' /\ Kept(t)' = {} /\ Extra(t)' = 0
  BY <1>0 DEF Busy, InHandlerOrDone, Kept, Extra
<1>3. \A u \in Threads \ {t} : Kept(u)' = Kept(u) /\ Extra(u)' = Extra(u) /\ (u \in Busy' <=> u \in Busy)
  <2>1. \A u \in Threads \ {t} : u \in InHandlerOrDone' <=> u \in InHandlerOrDone
    BY <1>0 DEF InHandlerOrDone
  <2>2. \A u \in Threads \ {t} : u \in Busy' <=> u \in Busy
    BY <1>0, <2>1 DEF Busy
  <2> QED
    BY <1>0, <2>1, <2>2 DEF Kept, Extra
<1>4. \A u \in Threads \ {t} : Kept(u) \cap Kept(t) = {}
  BY DEF Kept, PlaceInv, OnePlace
<1>5. KeptBack' = KeptBack \ Kept(t) /\ Kept(t) \subseteq KeptBack
  BY <1>2, <1>3, <1>4 DEF KeptBack
<1>6. Counted' = Counted \cup Kept(t) /\ Counted \cap Kept(t) = {}
  BY <1>0, <1>1, <1>5, FiniteWork DEF Counted
<1>7. Cardinality(Counted') = Cardinality(Counted) + Cardinality(Kept(t))
  <2>1. IsFiniteSet(Counted) /\ IsFiniteSet(Kept(t)) /\ Cardinality(Counted) \in Nat /\ Cardinality(Kept(t)) \in Nat
    BY FiniteWork
  <2>2. Cardinality(Counted \cup Kept(t)) = Cardinality(Counted) + Cardinality(Kept(t)) - Cardinality(Counted \cap Kept(t))
    BY <2>1, FS_Union
  <2>3. Cardinality(Counted \cap Kept(t)) = 0
    BY <1>6, FS_EmptySet
  <2> QED
    BY <1>6, <2>1, <2>2, <2>3
<1>8. /\ work = Cardinality(Counted) + Cardinality(Busy)
      /\ credit[t] = Cardinality(Kept(t)) + Extra(t)
  BY CountsAre
<1>9. work' = Cardinality(Counted') + Cardinality(Busy')
  <2>1. CASE t \in Busy
    <3>1. Busy' = Busy \ {t} /\ Extra(t) = 0
      BY <1>2, <1>3, <2>1 DEF Extra
    <3>2. Cardinality(Busy') = Cardinality(Busy) - 1
      BY <2>1, <3>1, FiniteWork, FS_RemoveElement
    <3> QED
      BY <1>0, <1>7, <1>8, <3>1, <3>2, FiniteWork
  <2>2. CASE t \notin Busy
    <3>1. Extra(t) = 1
      BY <1>0, <2>2 DEF Extra
    <3>2. \A u \in Threads \ {t} : u \in Busy' <=> u \in Busy
      BY <1>3
    <3>3. Busy' = Busy
      BY <1>2, <2>2, <3>2
    <3> QED
      BY <1>0, <1>7, <1>8, <3>1, <3>3, FiniteWork
  <2> QED
    BY <2>1, <2>2
<1>10. \A u \in Threads : credit'[u] = Cardinality(Kept(u)') + Extra(u)'
  <2>1. credit'[t] = Cardinality(Kept(t)') + Extra(t)'
    BY <1>0, <1>2, FS_EmptySet
  <2>2. ASSUME NEW u \in Threads, u # t PROVE credit'[u] = Cardinality(Kept(u)') + Extra(u)'
    <3>1. Kept(u)' = Kept(u) /\ Extra(u)' = Extra(u) /\ credit'[u] = credit[u]
      BY <1>0, <1>3, <2>2
    <3> QED
      BY <3>1, CountsAre
  <2> QED
    BY <2>1, <2>2
<1> QED
  BY <1>9, <1>10, CountsBecome

LEMMA WorkStep ==
    ASSUME NoneIsNoElement, TypeInv, FitInv, ReactorInv, PlaceInv, WorkIsCounted, [Next]_vars
    PROVE  WorkIsCounted'
<1> USE DEF scheduler, condition, thread, reactor, history
<1>0. pc \in [Threads -> Labels]
  BY DEF TypeInv, TypeOK
<1>1. ASSUME NEW t \in Threads, LockAndLoop(t) \/ Wake(t) \/ Polled(t)
      PROVE  WorkIsCounted'
  <2>1. CASE SleepOn(t)
    <3>1. Unmoved
      BY <2>1, OthersUnmoved
    <3> QED
      BY <1>0, <2>1, <3>1, WorkQuiet DEF SleepOn
  <2>2. ASSUME NEW q, NEW was, Pass(t, q, was) PROVE WorkIsCounted'
    BY <2>2, WorkPass
  <2> QED
    BY <1>1, <2>1, <2>2, Passes
<1>2. ASSUME NEW t \in Threads, Poll(t)
      PROVE  WorkIsCounted'
  <2>1. /\ pc[t] = "poll" /\ pc' = [pc EXCEPT ![t] = "polled"]
        /\ UNCHANGED <<cur, work, credit, pending>>
        /\ \A u \in Threads \ {t} : private'[u] = private[u]
    BY <1>2 DEF Poll, TypeInv, TypeOK
  <2>2. t \notin InHandlerOrDone /\ InHandlerOrDone' = InHandlerOrDone /\ t \notin InHandlerOrDone'
    BY <1>0, <2>1 DEF InHandlerOrDone
  <2>3. Busy' = Busy
    BY <2>1, <2>2 DEF Busy
  <2>4. ASSUME NEW u \in Threads PROVE Kept(u)' = Kept(u) /\ Extra(u)' = Extra(u)
    <3>1. CASE u = t
      BY <1>0, <2>1, <2>2, <3>1 DEF Kept, Extra
    <3>2. CASE u # t
      BY <1>0, <2>1, <2>2, <2>3, <3>2 DEF Kept, Extra
    <3> QED
      BY <3>1, <3>2
  <2>5. Queued' = Queued
    BY <1>2, PollPlaces
  <2> QED
    BY <2>1, <2>3, <2>4, <2>5, WorkKept
<1>3. ASSUME NEW t \in Threads, StartOp(t)
      PROVE  WorkIsCounted'
  <2> DEFINE d == cur[t][2]
  <2>1. /\ d \in Ops /\ d \notin pending \cup Queued /\ pc[t] = "handler" /\ pc' = [pc EXCEPT ![t] = "handled"]
        /\ UNCHANGED cur
    BY <1>3 DEF StartOp, Ops
  <2>2. pc'[t] = "handled" /\ \A u \in Threads \ {t} : pc'[u] = pc[u]
    BY <1>0, <2>1
  <2>3. CASE on_immediate(t, d) /\ pending' = pending /\ Queued' = Queued \cup {d}
    BY <2>1, <2>2, <2>3, WorkImmediate
  <2>4. CASE pending' = pending \cup {d} /\ work' = work + 1 /\ UNCHANGED <<private, credit>> /\ Queued' = Queued
    <3>1. InHandlerOrDone' = InHandlerOrDone
      BY <2>1, <2>2 DEF InHandlerOrDone
    <3>2. \A u \in Threads : pc'[u] = "done" <=> pc[u] = "done"
      BY <2>1, <2>2
    <3>3. Busy' = Busy /\ \A u \in Threads : Kept(u)' = Kept(u) /\ Extra(u)' = Extra(u)
      BY <2>1, <2>4, <3>1, <3>2, SameHandlers
    <3> QED
      BY <2>1, <2>4, <3>3, WorkAdded
  <2> QED
    BY <1>3, <2>3, <2>4, StartPlaces
<1>4. ASSUME NEW t \in Threads, PostFrom(t)
      PROVE  WorkIsCounted'
  <2>1. PICK p \in Posts \ posted : posted' = posted \cup {p} /\ on_immediate(t, p)
    BY <1>4 DEF PostFrom
  <2>2. /\ pc' = pc /\ cur' = cur /\ pc[t] \in {"handler", "handled"} /\ pushing[t] = None
        /\ UNCHANGED <<queue, pending, shut>>
    BY <1>4 DEF PostFrom, InHandler
  <2>3. p \in Ops /\ p \notin pending /\ p \notin Queued
    BY <2>1, IoContextAssumption DEF TypeInv, TypeOK, PlaceInv, Ops, IoContextAssumption
  <2>4. Queued' = Queued \cup {p}
    BY <2>1, <2>2, <2>3, ImmediatePlaces
  <2> QED
    BY <2>1, <2>2, <2>3, <2>4, WorkImmediate
<1>5. CASE PostOutside
  <2>1. PICK p \in Posts : p \notin pending \cup Queued /\ Queued' = Queued \cup {p} /\ pending' = pending
    BY <1>5, PostPlaces
  <2>2. work' = work + 1 /\ UNCHANGED <<pc, cur, private, credit>>
    BY <1>5 DEF PostOutside
  <2>3. Busy' = Busy /\ \A u \in Threads : Kept(u)' = Kept(u) /\ Extra(u)' = Extra(u)
    BY <2>2, SameHandlers DEF InHandlerOrDone
  <2> QED
    BY <2>1, <2>2, <2>3, WorkAdded
<1>6. ASSUME NEW a \in Actors, Push(a)
      PROVE  WorkIsCounted'
  <2>1. UNCHANGED <<work, pc, cur, private, credit, pending>> /\ Queued' = Queued
    BY <1>6, PushPlaces DEF Push
  <2>2. Busy' = Busy /\ \A u \in Threads : Kept(u)' = Kept(u) /\ Extra(u)' = Extra(u)
    BY <2>1, SameHandlers DEF InHandlerOrDone
  <2> QED
    BY <2>1, <2>2, WorkKept
<1>7. ASSUME NEW t \in Threads, Close(t)
      PROVE  WorkIsCounted'
  <2>1. UNCHANGED <<work, pc, cur, private, credit>>
    BY <1>7 DEF Close
  <2>2. Busy' = Busy /\ \A u \in Threads : Kept(u)' = Kept(u) /\ Extra(u)' = Extra(u)
    BY <2>1, SameHandlers DEF InHandlerOrDone
  <2>3. pending' \cup Queued' = pending \cup Queued
    BY <1>7, ClosePlaces
  <2> QED
    BY <2>1, <2>2, <2>3, WorkKept
<1>8. ASSUME NEW t \in Threads, Finish(t)
      PROVE  WorkIsCounted'
  <2>1. /\ pc[t] \in {"handler", "handled"} /\ pc' = [pc EXCEPT ![t] = "done"]
        /\ UNCHANGED <<work, cur, private, credit, pending, queue, pushing>>
    BY <1>8 DEF Finish, InHandler
  <2>2. t \in Busy
    BY <2>1, ElementParts DEF FitInv, StepFits, Busy, InHandlerOrDone
  <2>3. InHandlerOrDone' = InHandlerOrDone
    BY <1>0, <2>1 DEF InHandlerOrDone
  <2>4. \A u \in Threads : u \notin Busy => (pc'[u] = "done" <=> pc[u] = "done")
    BY <1>0, <2>1, <2>2
  <2>5. Busy' = Busy /\ \A u \in Threads : Kept(u)' = Kept(u) /\ Extra(u)' = Extra(u)
    BY <2>1, <2>3, <2>4, SameHandlers
  <2>6. Queued' = Queued
    BY <2>1 DEF Queued
  <2> QED
    BY <2>1, <2>5, <2>6, WorkKept
<1>9. ASSUME NEW t \in Threads, PerformIo(t) \/ WorkCleanup(t)
      PROVE  WorkIsCounted'
  BY <1>9, WorkPerform, WorkCleaned
<1>10. ASSUME NEW t \in Threads, Run(t) \/ StopSelf(t) \/ Spurious(t)
       PROVE  WorkIsCounted'
  <2>1. Unmoved
    BY <1>10, OthersUnmoved
  <2> QED
    BY <1>0, <1>10, <2>1, WorkQuiet DEF Run, StopSelf, StopAll, Spurious
<1>11. ASSUME NEW a \in Actors, Signal(a)
       PROVE  WorkIsCounted'
  <2>1. Unmoved
    BY <1>11, OthersUnmoved
  <2> QED
    BY <1>0, <1>11, <2>1, WorkQuiet DEF Signal
<1>12. CASE StopOutside \/ UNCHANGED vars \/ \E d \in Descriptors : Arrive(d)
  <2>1. Unmoved
    BY <1>12, OthersUnmoved
  <2> QED
    BY <1>0, <1>12, <2>1, WorkQuiet DEF StopOutside, StopAll, Arrive, vars
<1> QED
  BY <1>1, <1>2, <1>3, <1>4, <1>5, <1>6, <1>7, <1>8, <1>9, <1>10, <1>11, <1>12
  DEF Next, LoopStep, HandlerStep, Done

-----------------------------------------------------------------------------
(* The invariant.                                                           *)

IoInv == TypeInv /\ FitInv /\ ReactorInv /\ PlaceInv /\ EventInv /\ SleepInv /\ WorkIsCounted

\* At any time only finitely many functions were posted.
LEMMA FewPosts ==
    ASSUME TypeInv, [Next]_vars
    PROVE  IsFiniteSet(posted') /\ pending' \subseteq Descriptors
<1> USE DEF scheduler, condition, thread, reactor, history
<1>0. IsFiniteSet(posted) /\ pending \subseteq Descriptors
  BY DEF TypeInv, TypeOK
<1>1. posted' = posted \/ \E p : posted' = posted \cup {p}
  <2>1. ASSUME NEW t \in Threads, LoopStep(t) \/ StartOp(t) \/ Close(t) \/ Finish(t) \/ Spurious(t)
        PROVE  posted' = posted
    BY <2>1 DEF LoopStep, Run, LockAndLoop, Wake, Poll, Polled, PerformIo, WorkCleanup, StopSelf,
                StartOp, Close, Finish, Spurious
  <2>2. ASSUME NEW a \in Actors, Push(a) \/ Signal(a) PROVE posted' = posted
    BY <2>2 DEF Push, Signal
  <2>3. CASE StopOutside \/ UNCHANGED vars \/ \E d \in Descriptors : Arrive(d)
    BY <2>3 DEF StopOutside, vars, Arrive
  <2>4. CASE PostOutside \/ \E t \in Threads : PostFrom(t)
    BY <2>4 DEF PostOutside, PostFrom
  <2> QED
    BY <2>1, <2>2, <2>3, <2>4 DEF Next, HandlerStep, Done
<1>2. pending' \subseteq pending \/ \E d \in Descriptors : pending' = pending \cup {d}
  <2>1. ASSUME NEW t \in Threads, Run(t) \/ LockAndLoop(t) \/ Wake(t) \/ Poll(t) \/ Polled(t) \/ WorkCleanup(t)
                                  \/ StopSelf(t) \/ PostFrom(t) \/ Close(t) \/ Finish(t) \/ Spurious(t)
        PROVE  pending' \subseteq pending
    BY <2>1 DEF Run, LockAndLoop, Wake, Poll, Polled, WorkCleanup, StopSelf, PostFrom, Close, Finish, Spurious
  <2>2. ASSUME NEW a \in Actors, Push(a) \/ Signal(a) PROVE pending' = pending
    BY <2>2 DEF Push, Signal
  <2>3. CASE StopOutside \/ PostOutside \/ UNCHANGED vars \/ \E d \in Descriptors : Arrive(d)
    BY <2>3 DEF StopOutside, PostOutside, vars, Arrive
  <2>4. ASSUME NEW t \in Threads, PerformIo(t) PROVE pending' \subseteq pending
    BY <2>4 DEF PerformIo
  <2>5. ASSUME NEW t \in Threads, StartOp(t)
        PROVE  pending' = pending \/ \E d \in Descriptors : pending' = pending \cup {d}
    BY <2>5 DEF StartOp
  <2> QED
    BY <2>1, <2>2, <2>3, <2>4, <2>5 DEF Next, LoopStep, HandlerStep, Done
<1> QED
  BY <1>0, <1>1, <1>2, FS_AddElement

LEMMA IoInit ==
    ASSUME Init
    PROVE  IoInv
BY IoContextAssumption, NoneIsNoElement, TypeInit, ReactorInit, PlaceInit, EventInit, SleepInit, WorkInit
DEF IoInv

LEMMA IoStep ==
    ASSUME IoInv, [Next]_vars
    PROVE  IoInv'
<1>1. PlaceInv' /\ FitInv' /\ ReactorInv' /\ EventInv' /\ SleepInv' /\ WorkIsCounted'
  BY NoneIsNoElement, PlaceStep, FitStep, ReactorStep, EventStep, SleepStep, WorkStep DEF IoInv
<1>2. work' \in Nat
  <2>1. Busy' \subseteq Threads /\ Counted' \subseteq Descriptors \cup posted'
    <3>1. Counted' \subseteq pending' \cup Queued' /\ Queued' \subseteq Descriptors \cup Posts
      BY DEF Counted, Queued, Ops
    <3>2. Queued' \cap Posts \subseteq posted' /\ pending' \subseteq Descriptors
      BY <1>1, FewPosts DEF IoInv, PlaceInv
    <3> QED
      BY <3>1, <3>2 DEF Busy, InHandlerOrDone
  <2>2. IsFiniteSet(Descriptors \cup posted') /\ IsFiniteSet(Threads)
    BY FewPosts, IoContextAssumption, FS_Union DEF IoInv, IoContextAssumption
  <2>3. Cardinality(Counted') \in Nat /\ Cardinality(Busy') \in Nat
    BY <2>1, <2>2, FS_Subset, FS_CardinalityType
  <2> QED
    BY <1>1, <2>3, CountsBecome
<1>3. TypeInv'
  BY <1>2, NoneIsNoElement, TypeStep DEF IoInv
<1> QED
  BY <1>1, <1>3 DEF IoInv

THEOREM IoInvariant == Spec => []IoInv
BY IoInit, IoStep, PTL DEF Spec

\* The counter of work is exact for any number of threads, descriptors and posted
\* functions, although a thread adds what it started only after its handler has ended.
THEOREM WorkCountIsExact == Spec => []WorkIsCounted
<1>1. IoInv => WorkIsCounted
  BY DEF IoInv
<1> QED
  BY <1>1, IoInvariant, PTL

\* No thread sleeps, in the condition variable or in epoll_wait, while something is
\* queued and nobody is on the way to it.
THEOREM NobodyOversleeps == Spec => []IdleThreadIsCalled
<1>1. ASSUME IoInv
      PROVE  IdleThreadIsCalled
  <2>1. SleepInv
    BY <1>1 DEF IoInv
  <2>2. stopped => Asleep = {}
    BY <2>1 DEF SleepInv, Asleep
  <2>3. ASSUME queue # <<>>, NEW t \in Asleep
        PROVE  Coming # {} \/ owes # {}
    <3>1. CASE pc[t] = "waiting"
      BY <2>1, <2>3, <3>1 DEF SleepInv, Asleep
    <3>2. CASE pc[t] = "poll" /\ block[t] /\ ~wakeup
      <4>1. PICK u \in Threads : pc[u] \in {"waiting", "woken"}
        BY <2>1, <2>3, <3>2 DEF SleepInv, Waiters, Asleep
      <4> QED
        BY <2>1, <2>3, <4>1 DEF SleepInv, Coming
    <3> QED
      BY <2>3, <3>1, <3>2 DEF Asleep
  <2> QED
    BY <2>2, <2>3 DEF IdleThreadIsCalled
<1> QED
  BY <1>1, IoInvariant, PTL

\* epoll reports an event once: it reaches the operation that waits for it, and a
\* descriptor is never in the queue when the reactor is polled again.
THEOREM NoEventIsLost == Spec => []EventsKept
<1>1. ASSUME IoInv
      PROVE  EventsKept
  <2>1. TypeOK
    BY <1>1 DEF IoInv, TypeInv
  <2>2. NoLostEvent
    <3> SUFFICES ASSUME NEW d \in pending, data[d] > 0
                 PROVE  Seen(d)
      BY DEF NoLostEvent, Seen
    <3>1. d \in Descriptors /\ Watched(d)
      BY <2>1 DEF TypeOK, Watched
    <3> QED
      BY <1>1, <3>1 DEF IoInv, EventInv
  <2>3. DescriptorsDequeued
    <3> SUFFICES ASSUME NEW t \in Threads, pc[t] = "poll", NEW d \in Descriptors
                 PROVE  ~InQueue(queue, Look(d)) /\ \A u \in Threads : ~InQueue(private[u], Look(d))
      BY DEF DescriptorsDequeued
    <3>1. ~InQueue(queue, Look(d))
      BY <1>1 DEF IoInv, ReactorInv, Polling
    <3>2. ASSUME NEW u \in Threads, InQueue(private[u], Look(d))
          PROVE  FALSE
      <4>1. pc[u] = "polled"
        BY <1>1, <3>2, ElementParts DEF IoInv, FitInv, StepFits
      <4>2. u = t
        BY <1>1, <4>1 DEF IoInv, ReactorInv, Polling
      <4> QED
        BY <4>1, <4>2
    <3> QED
      BY <3>1, <3>2
  <2> QED
    BY <2>1, <2>2, <2>3 DEF EventsKept
<1> QED
  BY <1>1, IoInvariant, PTL

-----------------------------------------------------------------------------
(* The promise of the loop.                                                 *)

\* Without work nothing is outstanding.
LEMMA NothingLeft ==
    IoInv /\ work = 0 => Loop!Outstanding = {}
<1> SUFFICES ASSUME IoInv, work = 0
             PROVE  Loop!Outstanding = {}
  OBVIOUS
<1> USE DEF IoInv
<1>1. Cardinality(Counted) = 0 /\ Cardinality(Busy) = 0
  BY CountsAre, FiniteWork
<1>2. Counted = {} /\ Busy = {}
  BY <1>1, FiniteWork, FS_EmptySet
<1>3. ASSUME NEW t \in Threads PROVE Kept(t) = {}
  <2>1. CASE t \in InHandlerOrDone
    <3>1. pc[t] \in {"handler", "handled", "done"} /\ cur[t][1] # "call"
      BY <1>2, <2>1 DEF Busy, InHandlerOrDone
    <3>2. private[t] = <<>>
      BY <3>1, ElementParts DEF FitInv, StepFits
    <3> QED
      BY <3>2 DEF Kept, InQueue
  <2> QED
    BY <2>1 DEF Kept
<1>4. pending = {} /\ Queued = {}
  BY <1>2, <1>3 DEF Counted, KeptBack
<1>5. \A t \in Threads : LoopRunning[t] = None
  BY <1>2 DEF LoopRunning
<1>6. \A o \in Ops : LoopOp[o] = "idle" /\ o # None
  BY <1>4, IoContextAssumption DEF LoopOp, Ops, IoContextAssumption
<1> QED
  BY <1>5, <1>6 DEF Loop!Outstanding

LEMMA NothingLeftNext ==
    (IoInv /\ work = 0 => Loop!Outstanding = {})'
BY NothingLeft, PTL

LEMMA NothingLeftLater ==
    ASSUME IoInv', work' = 0
    PROVE  Loop!Outstanding' = {}
BY NothingLeftNext

\* The promise, operation by operation and thread by thread.
OpOf(o) == IF o \in pending THEN "pending" ELSE IF o \in Queued THEN "ready" ELSE "idle"
RunningOf(t) == IF t \in Busy THEN cur[t][2] ELSE None
AtOf(t) == IF pc[t] = "returned" THEN "returned"
           ELSE IF pc[t] \in {"poll", "polled", "look", "handler", "handled", "done"} THEN "turn" ELSE "outside"

LEMMA MappedOps ==
    /\ LoopOp = [o \in Ops |-> OpOf(o)] /\ LoopOp' = [o \in Ops |-> OpOf(o)']
    /\ LoopRunning = [t \in Threads |-> RunningOf(t)] /\ LoopRunning' = [t \in Threads |-> RunningOf(t)']
    /\ LoopAt = [t \in Threads |-> AtOf(t)] /\ LoopAt' = [t \in Threads |-> AtOf(t)']
BY DEF LoopOp, LoopRunning, LoopAt, OpOf, RunningOf, AtOf

LEMMA OpsSame ==
    ASSUME pending' = pending, Queued' = Queued
    PROVE  LoopOp' = LoopOp
BY DEF LoopOp

LEMMA OpBecomes ==
    ASSUME NEW o \in Ops,
           \A c \in Ops \ {o} : (c \in pending' <=> c \in pending) /\ (c \in Queued' <=> c \in Queued)
    PROVE  LoopOp' = [LoopOp EXCEPT ![o] = OpOf(o)']
<1>1. \A c \in Ops \ {o} : OpOf(c)' = OpOf(c)
  BY DEF OpOf
<1> QED
  BY <1>1, MappedOps

\* Between its turns, and from one call of the loop to the next.
Outer == {"run", "lock", "waiting", "woken", "stop"}

\* A thread whose step the promise does not see.
Alike(u) ==
    \/ pc'[u] = pc[u] /\ cur'[u] = cur[u]
    \/ pc[u] \in Outer /\ pc'[u] \in Outer
    \/ pc[u] \in {"handler", "handled", "done"} /\ pc'[u] \in {"handler", "handled", "done"} /\ cur'[u] = cur[u]
    \/ pc[u] \in {"poll", "polled"} /\ pc'[u] \in {"poll", "polled"}
    \/ pc[u] = "look" /\ pc'[u] = "done" /\ cur'[u] = cur[u] /\ cur[u][1] # "call"

LEMMA AlikeMeans ==
    ASSUME NEW u \in Threads, Alike(u)
    PROVE  RunningOf(u)' = RunningOf(u) /\ AtOf(u)' = AtOf(u)
<1>1. (u \in Busy)' <=> pc'[u] \in {"handler", "handled", "done"} /\ cur'[u][1] = "call"
  BY DEF Busy, InHandlerOrDone
<1>2. u \in Busy <=> pc[u] \in {"handler", "handled", "done"} /\ cur[u][1] = "call"
  BY DEF Busy, InHandlerOrDone
<1>3. (u \in Busy)' <=> u \in Busy
  BY <1>1, <1>2 DEF Alike, Outer
<1>4. u \in Busy => cur'[u] = cur[u]
  BY <1>2 DEF Alike, Outer
<1>5. RunningOf(u)' = RunningOf(u)
  BY <1>3, <1>4 DEF RunningOf
<1>6. AtOf(u)' = AtOf(u)
  BY DEF AtOf, Alike, Outer
<1> QED
  BY <1>5, <1>6

LEMMA ThreadsSame ==
    ASSUME \A u \in Threads : Alike(u)
    PROVE  LoopRunning' = LoopRunning /\ LoopAt' = LoopAt
BY AlikeMeans, MappedOps

LEMMA ThreadBecomes ==
    ASSUME NEW t \in Threads, \A u \in Threads \ {t} : Alike(u)
    PROVE  /\ LoopRunning' = [LoopRunning EXCEPT ![t] = RunningOf(t)']
           /\ LoopAt' = [LoopAt EXCEPT ![t] = AtOf(t)']
<1>1. \A u \in Threads \ {t} : RunningOf(u)' = RunningOf(u) /\ AtOf(u)' = AtOf(u)
  BY AlikeMeans
<1> QED
  BY <1>1, MappedOps

LEMMA EndingSame ==
    ASSUME asked' = asked, stopped' = stopped,
           stopped \/ ((\E u \in Threads : pc'[u] = "stop") <=> (\E u \in Threads : pc[u] = "stop"))
    PROVE  LoopEnding' = LoopEnding
BY DEF LoopEnding

LEMMA Stutters ==
    ASSUME pending' = pending, Queued' = Queued, asked' = asked, stopped' = stopped,
           \A u \in Threads : Alike(u) /\ (pc'[u] = "stop" <=> pc[u] = "stop")
    PROVE  UNCHANGED Loop!loopVars
BY OpsSame, ThreadsSame, EndingSame DEF Loop!loopVars

LEMMA KeptInit ==
    ASSUME NoneIsNoElement, Init
    PROVE  Loop!LoopInit
<1>1. Queued = {}
  <2>1. queue = <<Task>> /\ (\A t \in Threads : private[t] = <<>>) /\ (\A a \in Actors : pushing[a] = None)
    BY DEF Init
  <2>2. \A o \in Ops : ~InQueue(queue, Call(o)) /\ Call(o) # None
    BY <2>1, NoneIsNoElement, ElementParts, ElementKinds DEF InQueue
  <2>3. \A o : ~InQueue(<<>>, o)
    BY DEF InQueue
  <2> QED
    BY <2>1, <2>2, <2>3, QueuedMeans
<1>2. Busy = {} /\ pc = [t \in Threads |-> "run"]
  BY DEF Init, Busy, InHandlerOrDone
<1>3. LoopOp \in [Ops -> {"idle", "pending"}]
  BY <1>1 DEF LoopOp
<1>4. LoopRunning = [t \in Threads |-> None] /\ LoopAt = [t \in Threads |-> "outside"]
  BY <1>2 DEF LoopRunning, LoopAt
<1>5. LoopEnding = "no" /\ stopped = FALSE
  BY <1>2 DEF LoopEnding, Init
<1> QED
  BY <1>3, <1>4, <1>5 DEF Loop!LoopInit

\* A pass of the loop is a turn, the start of a handler, or the return from run().
LEMMA KeptPass ==
    ASSUME IoInv, NEW t \in Threads, NEW q, NEW was, Pass(t, q, was)
    PROVE  [Loop!LoopNext]_(Loop!loopVars)
<1>0. /\ pc \in [Threads -> Labels] /\ cur \in [Threads -> Elements \cup {None}]
      /\ TypeInv /\ FitInv /\ PlaceInv
      /\ asked' = asked /\ stopped' = stopped /\ pending' = pending
      /\ pc[t] \in {"lock", "woken", "polled"}
      /\ q \in Seq(Elements) /\ (pc[t] = "polled" => InQueue(q, Task))
  BY DEF IoInv, TypeInv, TypeOK, Pass, history
<1>1. \A u \in Threads \ {t} : pc'[u] = pc[u] /\ cur'[u] = cur[u]
  BY <1>0, PassTakes
<1>2. \A u \in Threads \ {t} : Alike(u)
  BY <1>1 DEF Alike
<1>3. /\ LoopRunning' = [LoopRunning EXCEPT ![t] = RunningOf(t)']
      /\ LoopAt' = [LoopAt EXCEPT ![t] = AtOf(t)']
  BY <1>2, ThreadBecomes
<1>4. /\ LoopRunning[t] = None
      /\ LoopAt[t] = (IF pc[t] = "polled" THEN "turn" ELSE "outside")
  BY <1>0 DEF LoopRunning, LoopAt, Busy, InHandlerOrDone
<1>5. \/ /\ stopped \/ q = <<>>
         /\ pc'[t] = IF stopped THEN "returned" ELSE "waiting"
      \/ ~stopped /\ pc'[t] \in {"poll", "look"}
      \/ ~stopped /\ pc'[t] = "handler"
  BY <1>0, PassTakes
<1>6. LoopEnding' = LoopEnding
  BY <1>0, <1>1, <1>5, EndingSame
<1>7. ASSUME pc'[t] \in {"returned", "waiting", "poll", "look"}
      PROVE  /\ LoopOp' = LoopOp
             /\ LoopRunning' = LoopRunning
  <2>1. Queued' = Queued
    BY <1>0, <1>7, NoneIsNoElement, PassPlaces
  <2>2. RunningOf(t)' = None
    BY <1>7 DEF RunningOf, Busy, InHandlerOrDone
  <2>3. LoopRunning \in [Threads -> {LoopRunning[u] : u \in Threads}]
    BY DEF LoopRunning
  <2> QED
    BY <1>0, <1>3, <1>4, <2>1, <2>2, <2>3, OpsSame
<1>8. CASE stopped /\ pc'[t] = "returned"
  <2>1. AtOf(t)' = "returned"
    BY <1>8 DEF AtOf
  <2>2. Loop!Return(t)
    BY <1>0, <1>3, <1>4, <1>6, <1>7, <1>8, <2>1 DEF Loop!Return
  <2> QED
    BY <2>2 DEF Loop!LoopNext
<1>9. CASE ~stopped /\ q = <<>> /\ pc'[t] = "waiting"
  <2>1. pc[t] # "polled"
    BY <1>0, <1>9 DEF InQueue
  <2>2. Alike(t)
    BY <1>0, <1>9, <2>1 DEF Alike, Outer
  <2>3. LoopRunning' = LoopRunning /\ LoopAt' = LoopAt
    BY <1>2, <2>2, ThreadsSame
  <2> QED
    BY <1>0, <1>6, <1>7, <1>9, <2>3 DEF Loop!loopVars
<1>10. CASE ~stopped /\ pc'[t] \in {"poll", "look"}
  <2>1. AtOf(t)' = "turn"
    BY <1>10 DEF AtOf
  <2>2. Loop!Turn(t)
    BY <1>0, <1>3, <1>4, <1>6, <1>7, <1>10, <2>1 DEF Loop!Turn, Loop!HasTurn
  <2> QED
    BY <2>2 DEF Loop!LoopNext
<1>11. CASE ~stopped /\ pc'[t] = "handler"
  <2>1. PICK o \in Queued : Queued' = Queued \ {o} /\ cur'[t] = Call(o)
    BY <1>0, <1>11, NoneIsNoElement, PassPlaces
  <2>2. o \in Ops /\ o \notin pending
    BY <1>0, <2>1, QueuedMeans DEF PlaceInv, OnePlace
  <2>3. LoopOp[o] = "ready" /\ OpOf(o)' = "idle"
    BY <1>0, <2>1, <2>2 DEF LoopOp, OpOf
  <2>4. LoopOp' = [LoopOp EXCEPT ![o] = "idle"]
    BY <1>0, <2>1, <2>2, <2>3, OpBecomes
  <2>5. RunningOf(t)' = o /\ AtOf(t)' = "turn"
    BY <1>11, <2>1, ElementParts DEF RunningOf, AtOf, Busy, InHandlerOrDone
  <2>6. Loop!Handle(t, o)
    BY <1>0, <1>3, <1>4, <1>6, <1>11, <2>3, <2>4, <2>5 DEF Loop!Handle, Loop!HasTurn
  <2> QED
    BY <2>2, <2>6 DEF Loop!LoopNext
<1> QED
  BY <1>5, <1>8, <1>9, <1>10, <1>11

\* An operation that is tried and succeeds is handled at once.
LEMMA KeptPerform ==
    ASSUME IoInv, NEW t \in Threads, PerformIo(t)
    PROVE  [Loop!LoopNext]_(Loop!loopVars)
<1>0. /\ pc \in [Threads -> Labels] /\ cur \in [Threads -> Elements \cup {None}]
      /\ pc[t] = "look" /\ PlaceInv
      /\ UNCHANGED <<queue, private, pushing, stopped, asked>>
  BY DEF IoInv, TypeInv, TypeOK, PerformIo, scheduler, history
<1>1. PICK d \in Descriptors : cur[t] = Look(d) /\ cur[t][2] = d /\ cur[t][1] = "look"
  BY <1>0, ElementParts DEF IoInv, FitInv, StepFits
<1>2. d \in Ops /\ Queued' = Queued
  BY <1>0 DEF Queued, Ops
<1>3. CASE d \in pending /\ data[d] > 0
  <2>1. /\ pending' = pending \ {d} /\ cur' = [cur EXCEPT ![t] = Call(d)]
        /\ pc' = [pc EXCEPT ![t] = "handler"]
    BY <1>1, <1>3 DEF PerformIo
  <2>2. /\ cur'[t] = Call(d) /\ pc'[t] = "handler"
        /\ \A u \in Threads \ {t} : pc'[u] = pc[u] /\ cur'[u] = cur[u]
    BY <1>0, <2>1
  <2>3. /\ LoopRunning' = [LoopRunning EXCEPT ![t] = RunningOf(t)']
        /\ LoopAt' = [LoopAt EXCEPT ![t] = AtOf(t)']
    BY <2>2, ThreadBecomes DEF Alike
  <2>4. RunningOf(t)' = d /\ AtOf(t)' = "turn"
    BY <2>2, ElementParts DEF RunningOf, AtOf, Busy, InHandlerOrDone
  <2>5. LoopOp[d] = "pending" /\ OpOf(d)' = "idle"
    BY <1>0, <1>2, <1>3, <2>1 DEF LoopOp, OpOf, PlaceInv, OnePlace
  <2>6. LoopOp' = [LoopOp EXCEPT ![d] = "idle"]
    BY <1>2, <2>1, <2>5, OpBecomes
  <2>7. LoopRunning[t] = None /\ LoopAt[t] = "turn"
    BY <1>0 DEF LoopRunning, LoopAt, Busy, InHandlerOrDone
  <2>8. LoopEnding' = LoopEnding
    BY <1>0, <2>2, EndingSame
  <2>9. Loop!Handle(t, d)
    BY <1>0, <2>3, <2>4, <2>5, <2>6, <2>7, <2>8 DEF Loop!Handle, Loop!HasTurn
  <2> QED
    BY <1>2, <2>9 DEF Loop!LoopNext
<1>4. CASE ~(d \in pending /\ data[d] > 0)
  <2>1. pending' = pending /\ cur' = cur /\ pc' = [pc EXCEPT ![t] = "done"]
    BY <1>1, <1>4 DEF PerformIo
  <2>2. pc'[t] = "done" /\ \A u \in Threads \ {t} : pc'[u] = pc[u]
    BY <1>0, <2>1
  <2>3. \A u \in Threads : Alike(u) /\ (pc'[u] = "stop" <=> pc[u] = "stop")
    BY <1>0, <1>1, <2>1, <2>2 DEF Alike
  <2> QED
    BY <1>0, <1>2, <2>1, <2>3, Stutters
<1> QED
  BY <1>3, <1>4

\* A handler or another thread starts an operation.
LEMMA KeptStart ==
    ASSUME NEW o \in Ops, o \notin pending, o \notin Queued,
           \/ pending' = pending /\ Queued' = Queued \cup {o}
           \/ pending' = pending \cup {o} /\ Queued' = Queued,
           UNCHANGED <<asked, stopped>>,
           \A u \in Threads : Alike(u) /\ (pc'[u] = "stop" <=> pc[u] = "stop")
    PROVE  [Loop!LoopNext]_(Loop!loopVars)
<1>1. LoopOp[o] = "idle" /\ OpOf(o)' \in {"pending", "ready"}
  BY DEF LoopOp, OpOf
<1>2. LoopOp' = [LoopOp EXCEPT ![o] = OpOf(o)']
  BY OpBecomes
<1>3. LoopEnding' = LoopEnding /\ LoopRunning' = LoopRunning /\ LoopAt' = LoopAt
  BY EndingSame, ThreadsSame
<1>4. Loop!Start(o)
  BY <1>1, <1>2, <1>3 DEF Loop!Start
<1> QED
  BY <1>4 DEF Loop!LoopNext

\* The turn ends after the handler; when no work is left, nothing is outstanding.
LEMMA KeptCleanup ==
    ASSUME IoInv, IoInv', NEW t \in Threads, WorkCleanup(t)
    PROVE  [Loop!LoopNext]_(Loop!loopVars)
<1>0. /\ pc \in [Threads -> Labels] /\ cur \in [Threads -> Elements \cup {None}]
      /\ pc[t] = "done" /\ cur' = [cur EXCEPT ![t] = None]
      /\ pc' = [pc EXCEPT ![t] = IF credit[t] = 0 /\ work' = 0 THEN "stop" ELSE "lock"]
      /\ UNCHANGED <<queue, private, pushing, pending, stopped, asked>>
  BY DEF IoInv, TypeInv, TypeOK, WorkCleanup, reactor, history
<1>1. /\ pc'[t] \in {"stop", "lock"} /\ (pc'[t] = "stop" => work' = 0)
      /\ \A u \in Threads \ {t} : pc'[u] = pc[u] /\ cur'[u] = cur[u]
  BY <1>0
<1>2. Queued' = Queued /\ LoopOp' = LoopOp
  BY <1>0, OpsSame DEF Queued
<1>3. /\ LoopRunning' = [LoopRunning EXCEPT ![t] = RunningOf(t)']
      /\ LoopAt' = [LoopAt EXCEPT ![t] = AtOf(t)']
  BY <1>1, ThreadBecomes DEF Alike
<1>4. RunningOf(t)' = None /\ AtOf(t)' = "outside" /\ LoopAt[t] = "turn"
  BY <1>0, <1>1 DEF RunningOf, AtOf, LoopAt, Busy, InHandlerOrDone
<1>5. LoopEnding' = LoopEnding \/ (Loop!Outstanding' = {} /\ LoopEnding' = "drained")
  <2>1. CASE pc'[t] = "lock"
    BY <1>0, <1>1, <2>1, EndingSame
  <2>2. CASE pc'[t] = "stop"
    <3>1. Loop!Outstanding' = {}
      BY <1>1, <2>2, NothingLeftLater
    <3>2. LoopEnding' = IF asked THEN "asked" ELSE "drained"
      BY <1>0, <2>2 DEF LoopEnding
    <3> QED
      BY <3>1, <3>2 DEF LoopEnding
  <2> QED
    BY <1>1, <2>1, <2>2
<1>6. Loop!EndTurn(t)
  BY <1>0, <1>2, <1>3, <1>4, <1>5 DEF Loop!EndTurn
<1> QED
  BY <1>6 DEF Loop!LoopNext

LEMMA KeptStep ==
    ASSUME IoInv, IoInv', [Next]_vars
    PROVE  [Loop!LoopNext]_(Loop!loopVars)
<1> USE DEF scheduler, condition, thread, reactor, history
<1>0. /\ pc \in [Threads -> Labels] /\ TypeInv /\ FitInv /\ ReactorInv /\ PlaceInv
  BY DEF IoInv, TypeInv, TypeOK
<1>1. ASSUME NEW t \in Threads, LockAndLoop(t) \/ Wake(t) \/ Polled(t)
      PROVE  [Loop!LoopNext]_(Loop!loopVars)
  <2>1. CASE SleepOn(t)
    <3>1. \A u \in Threads : Alike(u) /\ (pc'[u] = "stop" <=> pc[u] = "stop")
      BY <1>0, <2>1 DEF SleepOn, Alike, Outer
    <3>2. Queued' = Queued
      BY <2>1 DEF SleepOn, Queued
    <3> QED
      BY <2>1, <3>1, <3>2, Stutters DEF SleepOn
  <2> QED
    BY <1>0, <1>1, <2>1, NoneIsNoElement, Passes, KeptPass
<1>2. ASSUME NEW t \in Threads, Run(t)
      PROVE  [Loop!LoopNext]_(Loop!loopVars)
  <2>1. /\ pc[t] = "run" /\ pc' = [pc EXCEPT ![t] = IF work = 0 THEN "stop" ELSE "lock"]
        /\ UNCHANGED <<queue, private, pushing, pending, stopped, asked, cur>>
    BY <1>2 DEF Run
  <2>2. /\ pc'[t] \in {"stop", "lock"} /\ (pc'[t] = "stop" => work = 0)
        /\ \A u \in Threads \ {t} : pc'[u] = pc[u]
    BY <1>0, <2>1
  <2>3. /\ LoopOp' = LoopOp /\ LoopRunning' = LoopRunning /\ LoopAt' = LoopAt
    <3>1. \A u \in Threads : Alike(u)
      BY <2>1, <2>2 DEF Alike, Outer
    <3>2. Queued' = Queued
      BY <2>1 DEF Queued
    <3> QED
      BY <2>1, <3>1, <3>2, ThreadsSame, OpsSame
  <2>4. CASE pc'[t] = "lock"
    <3>1. LoopEnding' = LoopEnding
      BY <2>1, <2>2, <2>4, EndingSame
    <3> QED
      BY <2>1, <2>3, <3>1 DEF Loop!loopVars
  <2>5. CASE pc'[t] = "stop"
    <3>1. LoopEnding' = (IF asked THEN "asked" ELSE "drained")
      BY <2>1, <2>5 DEF LoopEnding
    <3>2. CASE asked
      <4>1. LoopEnding' = LoopEnding
        BY <3>1, <3>2 DEF LoopEnding
      <4> QED
        BY <2>1, <2>3, <4>1 DEF Loop!loopVars
    <3>3. CASE ~asked
      <4>1. Loop!Outstanding = {}
        BY <2>2, <2>5, NothingLeft
      <4>2. Loop!Drain
        BY <2>1, <2>3, <3>1, <3>3, <4>1 DEF Loop!Drain
      <4> QED
        BY <4>2 DEF Loop!LoopNext
    <3> QED
      BY <3>2, <3>3
  <2> QED
    BY <2>2, <2>4, <2>5
<1>3. ASSUME NEW t \in Threads, Poll(t)
      PROVE  [Loop!LoopNext]_(Loop!loopVars)
  <2>1. Queued' = Queued /\ pc[t] = "poll" /\ pc' = [pc EXCEPT ![t] = "polled"]
        /\ UNCHANGED <<pending, asked, stopped, cur>>
    BY <1>0, <1>3, PollPlaces DEF Poll
  <2>2. \A u \in Threads : Alike(u) /\ (pc'[u] = "stop" <=> pc[u] = "stop")
    BY <1>0, <2>1 DEF Alike
  <2> QED
    BY <2>1, <2>2, Stutters
<1>4. ASSUME NEW t \in Threads, StartOp(t)
      PROVE  [Loop!LoopNext]_(Loop!loopVars)
  <2> DEFINE d == cur[t][2]
  <2>1. /\ d \in Ops /\ d \notin pending /\ d \notin Queued
        /\ pc[t] = "handler" /\ pc' = [pc EXCEPT ![t] = "handled"]
        /\ UNCHANGED <<asked, stopped, cur>>
    BY <1>4 DEF StartOp, Ops
  <2>2. \/ pending' = pending /\ Queued' = Queued \cup {d}
        \/ pending' = pending \cup {d} /\ Queued' = Queued
    BY <1>0, <1>4, NoneIsNoElement, StartPlaces
  <2>3. \A u \in Threads : Alike(u) /\ (pc'[u] = "stop" <=> pc[u] = "stop")
    BY <1>0, <2>1 DEF Alike
  <2> QED
    BY <2>1, <2>2, <2>3, KeptStart
<1>5. ASSUME (\E t \in Threads : PostFrom(t)) \/ PostOutside
      PROVE  [Loop!LoopNext]_(Loop!loopVars)
  <2>1. PICK p \in Ops \ (pending \cup Queued) : Queued' = Queued \cup {p} /\ pending' = pending
    BY <1>0, <1>5, NoneIsNoElement, PostPlaces
  <2>2. UNCHANGED <<pc, cur, asked, stopped>>
    BY <1>5 DEF PostFrom, PostOutside
  <2>3. \A u \in Threads : Alike(u) /\ (pc'[u] = "stop" <=> pc[u] = "stop")
    BY <2>2 DEF Alike
  <2> QED
    BY <2>1, <2>2, <2>3, KeptStart
<1>6. ASSUME NEW a \in Actors, Push(a)
      PROVE  [Loop!LoopNext]_(Loop!loopVars)
  <2>1. Queued' = Queued /\ UNCHANGED <<pending, pc, cur, asked, stopped>>
    BY <1>0, <1>6, NoneIsNoElement, PushPlaces DEF Push
  <2>2. \A u \in Threads : Alike(u) /\ (pc'[u] = "stop" <=> pc[u] = "stop")
    BY <2>1 DEF Alike
  <2> QED
    BY <2>1, <2>2, Stutters
<1>7. ASSUME NEW t \in Threads, Close(t)
      PROVE  [Loop!LoopNext]_(Loop!loopVars)
  <2>1. UNCHANGED <<pc, cur, asked, stopped>>
    BY <1>7 DEF Close
  <2>2. \A u \in Threads : Alike(u) /\ (pc'[u] = "stop" <=> pc[u] = "stop")
    BY <2>1 DEF Alike
  <2>3. CASE pending' = pending /\ Queued' = Queued
    BY <2>1, <2>2, <2>3, Stutters
  <2>4. ASSUME NEW d \in pending, pending' = pending \ {d}, Queued' = Queued \cup {d}
        PROVE  [Loop!LoopNext]_(Loop!loopVars)
    <3>1. d \in Ops
      BY <1>0 DEF TypeInv, TypeOK, Ops
    <3>2. LoopOp[d] = "pending" /\ OpOf(d)' = "ready"
      BY <2>4, <3>1 DEF LoopOp, OpOf
    <3>3. LoopOp' = [LoopOp EXCEPT ![d] = "ready"]
      BY <2>4, <3>1, <3>2, OpBecomes
    <3>4. LoopEnding' = LoopEnding /\ LoopRunning' = LoopRunning /\ LoopAt' = LoopAt
      BY <2>1, <2>2, EndingSame, ThreadsSame
    <3>5. Loop!Complete(d)
      BY <2>1, <3>2, <3>3, <3>4 DEF Loop!Complete
    <3> QED
      BY <3>1, <3>5 DEF Loop!LoopNext
  <2> QED
    BY <1>0, <1>7, <2>3, <2>4, NoneIsNoElement, ClosePlaces
<1>8. ASSUME NEW t \in Threads, Finish(t) \/ Spurious(t)
      PROVE  [Loop!LoopNext]_(Loop!loopVars)
  <2>1. \A u \in Threads : Alike(u) /\ (pc'[u] = "stop" <=> pc[u] = "stop")
    BY <1>0, <1>8 DEF Finish, InHandler, Spurious, Alike, Outer
  <2>2. Queued' = Queued /\ UNCHANGED <<pending, asked, stopped>>
    BY <1>8 DEF Finish, Spurious, Queued
  <2> QED
    BY <2>1, <2>2, Stutters
<1>9. ASSUME NEW a \in Actors, Signal(a)
      PROVE  [Loop!LoopNext]_(Loop!loopVars)
  <2>1. \A u \in Threads : Alike(u) /\ (pc'[u] = "stop" <=> pc[u] = "stop")
    BY <1>0, <1>9 DEF Signal, Alike, Outer
  <2>2. Queued' = Queued /\ UNCHANGED <<pending, asked, stopped>>
    BY <1>9 DEF Signal, Queued
  <2> QED
    BY <2>1, <2>2, Stutters
<1>10. ASSUME NEW t \in Threads, StopSelf(t)
       PROVE  [Loop!LoopNext]_(Loop!loopVars)
  <2>1. /\ pc[t] = "stop" /\ stopped' = TRUE /\ UNCHANGED <<queue, private, pushing, pending, cur, asked>>
        /\ \A u \in Threads : pc'[u] = pc[u] \/ (pc[u] \in {"waiting", "stop"} /\ pc'[u] \in {"woken", "lock"})
    BY <1>0, <1>10 DEF StopSelf, StopAll
  <2>2. LoopRunning' = LoopRunning /\ LoopAt' = LoopAt
    BY <2>1, ThreadsSame DEF Alike, Outer
  <2>3. Queued' = Queued /\ LoopOp' = LoopOp
    BY <2>1, OpsSame DEF Queued
  <2>4. LoopEnding' = LoopEnding /\ LoopEnding # "no"
    BY <2>1 DEF LoopEnding
  <2>5. Loop!Stop
    BY <2>1, <2>2, <2>3, <2>4 DEF Loop!Stop
  <2> QED
    BY <2>5 DEF Loop!LoopNext
<1>11. CASE StopOutside
  <2>1. /\ asked' = TRUE /\ stopped' = TRUE /\ UNCHANGED <<queue, private, pushing, pending, cur>>
        /\ \A u \in Threads : pc'[u] = pc[u] \/ (pc[u] = "waiting" /\ pc'[u] = "woken")
    BY <1>0, <1>11 DEF StopOutside, StopAll
  <2>2. LoopRunning' = LoopRunning /\ LoopAt' = LoopAt
    BY <2>1, ThreadsSame DEF Alike, Outer
  <2>3. Queued' = Queued /\ LoopOp' = LoopOp
    BY <2>1, OpsSame DEF Queued
  <2>4. LoopEnding' = "asked"
    BY <2>1 DEF LoopEnding
  <2>5. Loop!AskToStop
    BY <2>1, <2>2, <2>3, <2>4 DEF Loop!AskToStop
  <2> QED
    BY <2>5 DEF Loop!LoopNext
<1>12. CASE UNCHANGED vars \/ \E d \in Descriptors : Arrive(d)
  <2>1. UNCHANGED <<queue, private, pushing, pending, pc, cur, asked, stopped>>
    BY <1>12 DEF vars, Arrive
  <2>2. \A u \in Threads : Alike(u) /\ (pc'[u] = "stop" <=> pc[u] = "stop")
    BY <2>1 DEF Alike
  <2>3. Queued' = Queued
    BY <2>1 DEF Queued
  <2> QED
    BY <2>1, <2>2, <2>3, Stutters
<1> QED
  BY <1>1, <1>2, <1>3, <1>4, <1>5, <1>6, <1>7, <1>8, <1>9, <1>10, <1>11, <1>12, KeptPerform, KeptCleanup
  DEF Next, LoopStep, HandlerStep, Done

\* The vendored loop keeps what RunLoop promises the server: each operation that was
\* started is handled once, by one thread, and run() comes back only when it was asked
\* to or when nothing is left that could ever complete.
THEOREM LoopKeepsItsPromise == Spec => KeepsThePromise
<1>1. Init => Loop!LoopInit
  BY NoneIsNoElement, KeptInit
<1>2. IoInv /\ IoInv' /\ [Next]_vars => [Loop!LoopNext]_(Loop!loopVars)
  BY KeptStep
<1>3. KeepsThePromise <=> Loop!LoopInit /\ [][Loop!LoopNext]_(Loop!loopVars)
  BY DEF KeepsThePromise, Loop!LoopSpec
<1> QED
  BY <1>1, <1>2, <1>3, IoInvariant, PTL DEF Spec
=============================================================================
