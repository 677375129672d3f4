---------------------------- MODULE MysqlPoolProofs ----------------------------
(***************************************************************************)
(* Proofs about MysqlPool, for any number of threads, connections, calls     *)
(* and server failures: the types, the ownership of the connection objects,  *)
(* the generation of what the deque holds, the wakeups, the size of the     *)
(* deque and what the failures of the server can do to a query.            *)
(***************************************************************************)
EXTENDS MysqlPool, FiniteSetTheorems, TLAPS

ConnsOf(p) == {p[i].connection : i \in 1..Len(p)}
Once(p) == \A i, j \in 1..Len(p) : p[i].connection = p[j].connection => i = j
AllOf(p, g) == \A i \in 1..Len(p) : p[i].generation = g

-----------------------------------------------------------------------------
(* The deque.                                                               *)

\* pop_back takes one connection out, and leaves the rest as it was.
LEMMA PopBack ==
    ASSUME NEW p \in Seq(PooledConnection), p # <<>>
    PROVE  LET q == SubSeq(p, 1, Len(p) - 1)
               last == p[Len(p)]
           IN  /\ q \in Seq(PooledConnection)
               /\ Len(p) \in Nat /\ Len(p) > 0 /\ Len(q) = Len(p) - 1
               /\ last.connection \in Conns
               /\ last.connection \in ConnsOf(p)
               /\ last.generation \in Nat
               /\ Once(p) => Once(q) /\ ConnsOf(q) = ConnsOf(p) \ {last.connection}
               /\ \A g : AllOf(p, g) => AllOf(q, g)
<1> DEFINE q == SubSeq(p, 1, Len(p) - 1)
           last == p[Len(p)]
<1>1. Len(p) \in Nat /\ Len(p) > 0
  OBVIOUS
<1>2. last \in PooledConnection
  BY <1>1
<1>3. q \in Seq(PooledConnection) /\ Len(q) = Len(p) - 1
  BY <1>1
<1>4. \A i \in 1..Len(q) : q[i] = p[i]
  BY <1>1, <1>3
<1>5. last.connection \in Conns /\ last.generation \in Nat
  BY <1>2 DEF PooledConnection
<1>6. last.connection \in ConnsOf(p)
  BY <1>1 DEF ConnsOf
<1>7. ASSUME Once(p)
      PROVE  Once(q) /\ ConnsOf(q) = ConnsOf(p) \ {last.connection}
  <2>1. Once(q)
    BY <1>1, <1>3, <1>4, <1>7 DEF Once
  <2>2. ASSUME NEW c \in ConnsOf(q)
        PROVE  c \in ConnsOf(p) \ {last.connection}
    BY <2>2, <1>1, <1>3, <1>4, <1>7 DEF Once, ConnsOf
  <2>3. ASSUME NEW c \in ConnsOf(p), c # last.connection
        PROVE  c \in ConnsOf(q)
    <3>1. PICK i \in 1..Len(p) : c = p[i].connection
      BY DEF ConnsOf
    <3>2. i \in 1..Len(q)
      BY <3>1, <2>3, <1>1, <1>3
    <3> QED
      BY <3>1, <3>2, <1>4 DEF ConnsOf
  <2> QED
    BY <2>1, <2>2, <2>3
<1>8. ASSUME NEW g, AllOf(p, g)
      PROVE  AllOf(q, g)
  BY <1>1, <1>3, <1>4, <1>8 DEF AllOf
<1> QED
  BY <1>1, <1>3, <1>5, <1>6, <1>7, <1>8

\* push_back adds one connection, which must be new for the deque to stay a set.
LEMMA PushBack ==
    ASSUME NEW p \in Seq(PooledConnection), NEW c \in Conns, NEW g \in Nat
    PROVE  LET q == Append(p, [connection |-> c, generation |-> g])
           IN  /\ q \in Seq(PooledConnection)
               /\ Len(p) \in Nat /\ Len(q) = Len(p) + 1
               /\ ConnsOf(q) = ConnsOf(p) \cup {c}
               /\ Once(p) /\ c \notin ConnsOf(p) => Once(q)
               /\ AllOf(p, g) => AllOf(q, g)
<1> DEFINE e == [connection |-> c, generation |-> g]
           q == Append(p, e)
<1>1. e \in PooledConnection /\ e.connection = c /\ e.generation = g
  BY DEF PooledConnection
<1> HIDE DEF e
<1>2. /\ q \in Seq(PooledConnection)
      /\ Len(p) \in Nat
      /\ Len(q) = Len(p) + 1
      /\ \A i \in 1..Len(p) : q[i] = p[i]
      /\ q[Len(q)] = e
  BY <1>1
<1> HIDE DEF q
<1>3. ConnsOf(q) = ConnsOf(p) \cup {c}
  <2>1. ASSUME NEW d \in ConnsOf(q)
        PROVE  d \in ConnsOf(p) \cup {c}
    <3>1. PICK i \in 1..Len(q) : d = q[i].connection
      BY DEF ConnsOf
    <3>2. i \in 1..Len(p) \/ i = Len(q)
      BY <1>2
    <3> QED
      BY <3>1, <3>2, <1>1, <1>2 DEF ConnsOf
  <2>2. c \in ConnsOf(q)
    <3>1. Len(q) \in 1..Len(q)
      BY <1>2
    <3> QED
      BY <3>1, <1>1, <1>2 DEF ConnsOf
  <2>3. ASSUME NEW d \in ConnsOf(p)
        PROVE  d \in ConnsOf(q)
    <3>1. PICK i \in 1..Len(p) : d = p[i].connection
      BY DEF ConnsOf
    <3>2. i \in 1..Len(q)
      BY <1>2
    <3> QED
      BY <3>1, <3>2, <1>2 DEF ConnsOf
  <2> QED
    BY <2>1, <2>2, <2>3
<1>4. ASSUME Once(p), c \notin ConnsOf(p)
      PROVE  Once(q)
  <2> SUFFICES ASSUME NEW i \in 1..Len(q), NEW j \in 1..Len(q),
                      q[i].connection = q[j].connection
               PROVE  i = j
    BY DEF Once
  <2>1. \A k \in 1..Len(p) : q[k].connection # c
    BY <1>2, <1>4 DEF ConnsOf
  <2>2. (i \in 1..Len(p) \/ i = Len(q)) /\ (j \in 1..Len(p) \/ j = Len(q))
    BY <1>2
  <2> QED
    BY <2>1, <2>2, <1>1, <1>2, <1>4 DEF Once
<1>5. ASSUME AllOf(p, g)
      PROVE  AllOf(q, g)
  BY <1>1, <1>2, <1>5 DEF AllOf
<1> QED
  BY <1>2, <1>3, <1>4, <1>5 DEF q, e

\* An empty deque holds nothing.
LEMMA Emptied ==
    /\ <<>> \in Seq(PooledConnection)
    /\ Len(<<>>) = 0
    /\ ConnsOf(<<>>) = {}
    /\ Once(<<>>)
    /\ \A g : AllOf(<<>>, g)
BY DEF ConnsOf, Once, AllOf

\* The properties of the deque in the terms of these lemmas.
LEMMA Pooled ==
    /\ PooledConns = ConnsOf(pool) /\ PooledConns' = ConnsOf(pool')
    /\ (PooledOnce <=> Once(pool)) /\ (PooledOnce' <=> Once(pool'))
    /\ (PoolIsCurrent <=> AllOf(pool, generation))
    /\ (PoolIsCurrent' <=> AllOf(pool', generation'))
BY DEF PooledConns, ConnsOf, PooledOnce, Once, PoolIsCurrent, AllOf

-----------------------------------------------------------------------------
(* The types.                                                               *)

\* What a failure to open a connection does.
LEMMA OpeningFailsTyped ==
    ASSUME TypeOK, OpeningFails
    PROVE  /\ conn' \in [Conns -> {"none", "open", "dead", "leaked"}]
           /\ faults' \in 0..MaxFaults
<1>1. faults' \in 0..MaxFaults
  BY PoolAssumption DEF TypeOK, OpeningFails
<1>2. conn' \in [Conns -> {"none", "open", "dead", "leaked"}]
  BY DEF TypeOK, OpeningFails
<1> QED
  BY <1>1, <1>2

LEMMA NoVisitTyped == [at |-> 1, c |-> NoConn] \in Visit
BY DEF Visit

\* One more element visited.
LEMMA VisitAdvanced ==
    ASSUME TypeOK, NEW t \in Threads
    PROVE  [at |-> visit[t].at + 1, c |-> NoConn] \in Visit
<1>1. visit[t] \in Visit
  BY DEF TypeOK
<1> QED
  BY <1>1 DEF Visit

\* One frame fewer, one more, and the last one set.
LEMMA FramesTyped ==
    ASSUME TypeOK, NEW t \in Threads
    PROVE  /\ Len(frames[t]) > 1 =>
                SubSeq(frames[t], 1, Len(frames[t]) - 1) \in Seq({0, 1})
           /\ Append(frames[t], 0) \in Seq({0, 1})
           /\ [frames[t] EXCEPT ![Len(frames[t])] = 1] \in Seq({0, 1})
<1> DEFINE f == frames[t]
<1>1. f \in Seq({0, 1}) /\ Len(f) \in Nat
  BY DEF TypeOK
<1> HIDE DEF f
<1>2. Len(f) > 1 => SubSeq(f, 1, Len(f) - 1) \in Seq({0, 1})
  BY <1>1
<1>3. Append(f, 0) \in Seq({0, 1})
  BY <1>1
<1>4. [f EXCEPT ![Len(f)] = 1] \in Seq({0, 1})
  <2>1. f \in [1..Len(f) -> {0, 1}]
    BY <1>1
  <2>2. [f EXCEPT ![Len(f)] = 1] \in [1..Len(f) -> {0, 1}]
    BY <2>1
  <2> QED
    BY <1>1, <2>2
<1> QED
  BY <1>2, <1>3, <1>4 DEF f

\* Every step keeps the types.
LEMMA TypeStep ==
    ASSUME TypeOK, HoldsWhenUsing, [Next]_vars
    PROVE  TypeOK'
<1> USE PoolAssumption DEF TypeOK, Labels, Outcomes, deque, lease, query, rebuild, world
<1>1. ASSUME NEW t \in Threads, Block(t)
      PROVE  TypeOK'
  BY <1>1 DEF Block, Goto
<1>2. ASSUME NEW t \in Threads, Timeout(t)
      PROVE  TypeOK'
  BY <1>2 DEF Timeout, Goto
<1>3. ASSUME NEW t \in Threads, GiveUpWaiting(t)
      PROVE  TypeOK'
  BY <1>3 DEF GiveUpWaiting, Goto
<1>4. ASSUME NEW t \in Threads, Validate(t)
      PROVE  TypeOK'
  BY <1>4 DEF Validate, Goto
<1>5. ASSUME NEW t \in Threads, Create(t)
      PROVE  TypeOK'
  BY <1>5 DEF Create, Goto
<1>6. ASSUME NEW t \in Threads, Stamp(t)
      PROVE  TypeOK'
  BY <1>6 DEF Stamp, Goto
<1>7. ASSUME NEW t \in Threads, Execute(t)
      PROVE  TypeOK'
  BY <1>7 DEF Execute, Goto
<1>8. ASSUME NEW t \in Threads, ReleaseAndDelete(t)
      PROVE  TypeOK'
  BY <1>8 DEF ReleaseAndDelete, Goto
<1>9. ASSUME NEW t \in Threads, NotifyOne(t)
      PROVE  TypeOK'
  BY <1>9 DEF NotifyOne, Goto
<1>10. ASSUME NEW t \in Threads, Retry(t)
      PROVE  TypeOK'
  BY <1>10 DEF Retry, Goto
<1>11. ASSUME NEW t \in Threads, ReturnToCaller(t)
      PROVE  TypeOK'
  BY <1>11 DEF ReturnToCaller, Goto
<1>12. ASSUME NEW t \in Threads, QueryBegin(t)
      PROVE  TypeOK'
  BY <1>12 DEF QueryBegin, Goto
<1>13. ASSUME NEW t \in Threads, Pop(t)
      PROVE  TypeOK'
  <2>1. /\ pool' \in Seq(PooledConnection)
        /\ pool[Len(pool)].connection \in Conns
        /\ pool[Len(pool)].generation \in Nat
    BY <1>13, PopBack DEF Pop
  <2> QED
    BY <1>13, <2>1 DEF Pop, Goto
<1>14. ASSUME NEW t \in Threads, CreateThrows(t)
      PROVE  TypeOK'
  <2>1. /\ conn' \in [Conns -> {"none", "open", "dead", "leaked"}]
        /\ faults' \in 0..MaxFaults
    BY <1>14, OpeningFailsTyped DEF CreateThrows
  <2> QED
    BY <1>14, <2>1 DEF CreateThrows, Goto
<1>15. ASSUME NEW t \in Threads, ReleaseToPool(t)
      PROVE  TypeOK'
  <2>1. held[t] \in Conns
    BY <1>15 DEF ReleaseToPool, HoldsWhenUsing
  <2>2. pool' \in Seq(PooledConnection)
    BY <1>15, <2>1, PushBack DEF ReleaseToPool
  <2> QED
    BY <1>15, <2>2 DEF ReleaseToPool, Goto
<1>16. ASSUME NEW t \in Threads, ReturnToSetSchema(t)
      PROVE  TypeOK'
  <2>1. frames' \in [Threads -> Seq({0, 1})]
    BY <1>16, FramesTyped DEF ReturnToSetSchema
  <2>2. visit' \in [Threads -> Visit]
    BY <1>16, NoVisitTyped DEF ReturnToSetSchema
  <2> QED
    BY <1>16, <2>1, <2>2 DEF ReturnToSetSchema, Goto
<1>17. ASSUME NEW t \in Threads, ReconnectBegin(t)
      PROVE  TypeOK'
  <2>1. conn' \in [Conns -> {"none", "open", "dead", "leaked"}]
    BY <1>17 DEF ReconnectBegin, Closed
  <2>2. left' \in [Threads -> 0..PoolSize]
    BY <1>17 DEF ReconnectBegin, ConnectCount
  <2>3. pool' \in Seq(PooledConnection)
    BY <1>17, Emptied DEF ReconnectBegin
  <2> QED
    BY <1>17, <2>1, <2>2, <2>3 DEF ReconnectBegin, Goto
<1>18. ASSUME NEW t \in Threads, ConnectOne(t)
      PROVE  TypeOK'
  <2>1. PICK c \in Conns :
           /\ conn' = [conn EXCEPT ![c] = "open"]
           /\ pool' = Append(pool, [connection |-> c, generation |-> generation])
    BY <1>18 DEF ConnectOne
  <2>2. pool' \in Seq(PooledConnection)
    BY <2>1, PushBack
  <2>3. left' \in [Threads -> 0..PoolSize]
    BY <1>18 DEF ConnectOne
  <2>4. conn' \in [Conns -> {"none", "open", "dead", "leaked"}]
    BY <2>1
  <2> QED
    BY <1>18, <2>2, <2>3, <2>4 DEF ConnectOne
<1>19. ASSUME NEW t \in Threads, ConnectOneFails(t)
      PROVE  TypeOK'
  <2>1. /\ conn' \in [Conns -> {"none", "open", "dead", "leaked"}]
        /\ faults' \in 0..MaxFaults
    BY <1>19, OpeningFailsTyped DEF ConnectOneFails
  <2>2. left' \in [Threads -> 0..PoolSize]
    BY <1>19 DEF ConnectOneFails
  <2> QED
    BY <1>19, <2>1, <2>2 DEF ConnectOneFails
<1>20. ASSUME NEW t \in Threads, ConnectEnd(t)
      PROVE  TypeOK'
  <2>1. frames' \in [Threads -> Seq({0, 1})]
    BY <1>20, FramesTyped DEF ConnectEnd
  <2>2. pc' \in [Threads -> Labels]
    BY <1>20 DEF ConnectEnd
  <2> QED
    BY <1>20, <2>1, <2>2 DEF ConnectEnd
<1>21. ASSUME NEW t \in Threads, VisitNext(t)
      PROVE  TypeOK'
  <2>1. visit' \in [Threads -> Visit]
    <3>1. visit[t] \in Visit /\ visit[t].at \in Nat
      BY DEF Visit
    <3>2. CASE visit[t].at <= Len(pool)
      <4>1. [visit[t] EXCEPT !.c = pool[visit[t].at].connection] \in Visit
        <5>1. pool[visit[t].at].connection \in Conns \cup {NoConn}
          <6>1. visit[t].at \in 1..Len(pool)
            BY <3>1, <3>2 DEF Visit
          <6>2. pool[visit[t].at] \in PooledConnection
            BY <6>1
          <6> QED
            BY <6>2 DEF PooledConnection
        <5> QED
          BY <5>1, <3>1 DEF Visit
      <4> QED
        BY <1>21, <3>2, <4>1 DEF VisitNext
    <3>3. CASE ~(visit[t].at <= Len(pool))
      BY <1>21, <3>3, NoVisitTyped DEF VisitNext
    <3> QED
      BY <3>2, <3>3
  <2>2. pc' = [pc EXCEPT ![t] = "call"] \/ pc' = [pc EXCEPT ![t] = "wakeall"]
    BY <1>21 DEF VisitNext, Goto
  <2> QED
    BY <1>21, <2>1, <2>2 DEF VisitNext
<1>22. ASSUME NEW t \in Threads, VisitCall(t)
      PROVE  TypeOK'
  <2>1. visit' \in [Threads -> Visit]
    BY <1>22, NoVisitTyped, VisitAdvanced DEF VisitCall
  <2>2. pc' = [pc EXCEPT ![t] = "visit"] \/ pc' = [pc EXCEPT ![t] = "wakeall"]
    BY <1>22 DEF VisitCall, Goto
  <2> QED
    BY <1>22, <2>1, <2>2 DEF VisitCall
<1>23. ASSUME NEW t \in Threads, VisitRaces(t)
      PROVE  TypeOK'
  <2>1. visit' \in [Threads -> Visit]
    BY <1>23, VisitAdvanced DEF VisitRaces
  <2>2. pc' \in [Threads -> Labels]
    BY <1>23 DEF VisitRaces, Goto
  <2> QED
    BY <1>23, <2>1, <2>2 DEF VisitRaces
<1>24. ASSUME NEW t \in Threads, ReconnectEnd(t)
      PROVE  TypeOK'
  <2>1. frames' \in [Threads -> Seq({0, 1})]
    BY <1>24, FramesTyped DEF ReconnectEnd
  <2>2. pc' \in [Threads -> Labels]
    BY <1>24 DEF ReconnectEnd
  <2> QED
    BY <1>24, <2>1, <2>2 DEF ReconnectEnd
<1>25. CASE ServerDrops
  BY <1>25 DEF ServerDrops
<1>26. CASE Destroy
  BY <1>26, Emptied DEF Destroy, Closed
<1>27. CASE UNCHANGED vars
  BY <1>27 DEF vars
<1> QED
  BY <1>1, <1>2, <1>3, <1>4, <1>5, <1>6, <1>7, <1>8, <1>9, <1>10, <1>11, <1>12, <1>13, <1>14, <1>15, <1>16, <1>17, <1>18, <1>19, <1>20, <1>21, <1>22, <1>23, <1>24, <1>25, <1>26, <1>27 DEF Next, Running, Stopped, ThreadStep

-----------------------------------------------------------------------------
(* Who holds a connection and who holds the lock, told by the program       *)
(* counters.                                                                *)

\* A notification moves the notifier and at most one waiting thread.
LEMMA NotifyMoves ==
    ASSUME TypeOK, NEW t \in Threads, NotifyOne(t), NEW v \in Threads
    PROVE  \/ pc'[v] = pc[v]
           \/ pc[v] \in {"notify", "waiting"} /\ pc'[v] \in {"after", "woken"}
<1>1. CASE Goto(t, "after")
  BY <1>1 DEF TypeOK, Goto, NotifyOne
<1>2. ASSUME NEW u \in InState("waiting"),
             pc' = [pc EXCEPT ![t] = "after", ![u] = "woken"]
      PROVE  \/ pc'[v] = pc[v]
             \/ pc[v] \in {"notify", "waiting"} /\ pc'[v] \in {"after", "woken"}
  <2>1. u \in Threads /\ pc[u] = "waiting" /\ pc[t] = "notify"
    BY DEF InState, NotifyOne
  <2> QED
    BY <1>2, <2>1 DEF TypeOK
<1> QED
  BY <1>1, <1>2 DEF NotifyOne

LEMMA HoldsStep ==
    ASSUME TypeOK, HoldsWhenUsing, [Next]_vars
    PROVE  HoldsWhenUsing'
<1> USE PoolAssumption DEF TypeOK, HoldsWhenUsing, deque, lease, query, rebuild, world
<1>1. ASSUME NEW t \in Threads, QueryBegin(t)
      PROVE  HoldsWhenUsing'
  BY <1>1 DEF QueryBegin, Goto
<1>2. ASSUME NEW t \in Threads, Pop(t)
      PROVE  HoldsWhenUsing'
  <2>1. pool[Len(pool)].connection \in Conns
    BY <1>2, PopBack DEF Pop
  <2> QED
    BY <1>2, <2>1 DEF Pop, Goto
<1>3. ASSUME NEW t \in Threads, Block(t)
      PROVE  HoldsWhenUsing'
  BY <1>3 DEF Block, Goto
<1>4. ASSUME NEW t \in Threads, Timeout(t)
      PROVE  HoldsWhenUsing'
  BY <1>4 DEF Timeout, Goto
<1>5. ASSUME NEW t \in Threads, GiveUpWaiting(t)
      PROVE  HoldsWhenUsing'
  BY <1>5 DEF GiveUpWaiting, Goto
<1>6. ASSUME NEW t \in Threads, Validate(t)
      PROVE  HoldsWhenUsing'
  BY <1>6 DEF Validate, Goto
<1>7. ASSUME NEW t \in Threads, Create(t)
      PROVE  HoldsWhenUsing'
  BY <1>7 DEF Create, Goto
<1>8. ASSUME NEW t \in Threads, CreateThrows(t)
      PROVE  HoldsWhenUsing'
  BY <1>8 DEF CreateThrows, Goto
<1>9. ASSUME NEW t \in Threads, Stamp(t)
      PROVE  HoldsWhenUsing'
  BY <1>9 DEF Stamp, Goto
<1>10. ASSUME NEW t \in Threads, Execute(t)
      PROVE  HoldsWhenUsing'
  BY <1>10 DEF Execute, Goto
<1>11. ASSUME NEW t \in Threads, ReleaseToPool(t)
      PROVE  HoldsWhenUsing'
  BY <1>11 DEF ReleaseToPool, Goto
<1>12. ASSUME NEW t \in Threads, ReleaseAndDelete(t)
      PROVE  HoldsWhenUsing'
  BY <1>12 DEF ReleaseAndDelete, Goto
<1>13. ASSUME NEW t \in Threads, NotifyOne(t)
      PROVE  HoldsWhenUsing'
  <2>1. held' = held
    BY <1>13 DEF NotifyOne
  <2> QED
    BY <1>13, <2>1, NotifyMoves
<1>14. ASSUME NEW t \in Threads, Retry(t)
      PROVE  HoldsWhenUsing'
  BY <1>14 DEF Retry, Goto
<1>15. ASSUME NEW t \in Threads, ReturnToCaller(t)
      PROVE  HoldsWhenUsing'
  BY <1>15 DEF ReturnToCaller, Goto
<1>16. ASSUME NEW t \in Threads, ReturnToSetSchema(t)
      PROVE  HoldsWhenUsing'
  BY <1>16 DEF ReturnToSetSchema, Goto
<1>17. ASSUME NEW t \in Threads, ReconnectBegin(t)
      PROVE  HoldsWhenUsing'
  BY <1>17 DEF ReconnectBegin, Goto
<1>18. ASSUME NEW t \in Threads, ConnectOne(t)
      PROVE  HoldsWhenUsing'
  BY <1>18 DEF ConnectOne, Goto
<1>19. ASSUME NEW t \in Threads, ConnectOneFails(t)
      PROVE  HoldsWhenUsing'
  BY <1>19 DEF ConnectOneFails, Goto
<1>20. ASSUME NEW t \in Threads, ConnectEnd(t)
      PROVE  HoldsWhenUsing'
  BY <1>20 DEF ConnectEnd, Goto
<1>21. ASSUME NEW t \in Threads, VisitNext(t)
      PROVE  HoldsWhenUsing'
  BY <1>21 DEF VisitNext, Goto
<1>22. ASSUME NEW t \in Threads, VisitCall(t)
      PROVE  HoldsWhenUsing'
  BY <1>22 DEF VisitCall, Goto
<1>23. ASSUME NEW t \in Threads, VisitRaces(t)
      PROVE  HoldsWhenUsing'
  BY <1>23 DEF VisitRaces, Goto
<1>24. ASSUME NEW t \in Threads, ReconnectEnd(t)
      PROVE  HoldsWhenUsing'
  BY <1>24 DEF ReconnectEnd, Goto
<1>25. CASE ServerDrops
  BY <1>25 DEF ServerDrops
<1>26. CASE Destroy
  BY <1>26 DEF Destroy
<1>27. CASE UNCHANGED vars
  BY <1>27 DEF vars
<1> QED
  BY <1>1, <1>2, <1>3, <1>4, <1>5, <1>6, <1>7, <1>8, <1>9, <1>10, <1>11, <1>12, <1>13, <1>14, <1>15, <1>16, <1>17, <1>18, <1>19, <1>20, <1>21, <1>22, <1>23, <1>24, <1>25, <1>26, <1>27
     DEF Next, Running, Stopped, ThreadStep

LEMMA MutexStep ==
    ASSUME TypeOK, MutexByRebuild, [Next]_vars
    PROVE  MutexByRebuild'
<1> USE PoolAssumption DEF TypeOK, MutexByRebuild, deque, lease, query, rebuild, world
<1>1. ASSUME NEW t \in Threads, QueryBegin(t)
      PROVE  MutexByRebuild'
  BY <1>1 DEF QueryBegin, Goto
<1>2. ASSUME NEW t \in Threads, Pop(t)
      PROVE  MutexByRebuild'
  BY <1>2 DEF Pop, Goto
<1>3. ASSUME NEW t \in Threads, Block(t)
      PROVE  MutexByRebuild'
  BY <1>3 DEF Block, Goto
<1>4. ASSUME NEW t \in Threads, Timeout(t)
      PROVE  MutexByRebuild'
  BY <1>4 DEF Timeout, Goto
<1>5. ASSUME NEW t \in Threads, GiveUpWaiting(t)
      PROVE  MutexByRebuild'
  BY <1>5 DEF GiveUpWaiting, Goto
<1>6. ASSUME NEW t \in Threads, Validate(t)
      PROVE  MutexByRebuild'
  BY <1>6 DEF Validate, Goto
<1>7. ASSUME NEW t \in Threads, Create(t)
      PROVE  MutexByRebuild'
  BY <1>7 DEF Create, Goto
<1>8. ASSUME NEW t \in Threads, CreateThrows(t)
      PROVE  MutexByRebuild'
  BY <1>8 DEF CreateThrows, Goto
<1>9. ASSUME NEW t \in Threads, Stamp(t)
      PROVE  MutexByRebuild'
  BY <1>9 DEF Stamp, Goto
<1>10. ASSUME NEW t \in Threads, Execute(t)
      PROVE  MutexByRebuild'
  BY <1>10 DEF Execute, Goto
<1>11. ASSUME NEW t \in Threads, ReleaseToPool(t)
      PROVE  MutexByRebuild'
  BY <1>11 DEF ReleaseToPool, Goto
<1>12. ASSUME NEW t \in Threads, ReleaseAndDelete(t)
      PROVE  MutexByRebuild'
  BY <1>12 DEF ReleaseAndDelete, Goto
<1>13. ASSUME NEW t \in Threads, NotifyOne(t)
      PROVE  MutexByRebuild'
  <2>1. mutex' = mutex
    BY <1>13 DEF NotifyOne
  <2> QED
    BY <1>13, <2>1, NotifyMoves
<1>14. ASSUME NEW t \in Threads, Retry(t)
      PROVE  MutexByRebuild'
  BY <1>14 DEF Retry, Goto
<1>15. ASSUME NEW t \in Threads, ReturnToCaller(t)
      PROVE  MutexByRebuild'
  BY <1>15 DEF ReturnToCaller, Goto
<1>16. ASSUME NEW t \in Threads, ReturnToSetSchema(t)
      PROVE  MutexByRebuild'
  BY <1>16 DEF ReturnToSetSchema, Goto
<1>17. ASSUME NEW t \in Threads, ReconnectBegin(t)
      PROVE  MutexByRebuild'
  BY <1>17 DEF ReconnectBegin, Goto
<1>18. ASSUME NEW t \in Threads, ConnectOne(t)
      PROVE  MutexByRebuild'
  BY <1>18 DEF ConnectOne, Goto
<1>19. ASSUME NEW t \in Threads, ConnectOneFails(t)
      PROVE  MutexByRebuild'
  BY <1>19 DEF ConnectOneFails, Goto
<1>20. ASSUME NEW t \in Threads, ConnectEnd(t)
      PROVE  MutexByRebuild'
  BY <1>20 DEF ConnectEnd, Goto
<1>21. ASSUME NEW t \in Threads, VisitNext(t)
      PROVE  MutexByRebuild'
  BY <1>21 DEF VisitNext, Goto
<1>22. ASSUME NEW t \in Threads, VisitCall(t)
      PROVE  MutexByRebuild'
  BY <1>22 DEF VisitCall, Goto
<1>23. ASSUME NEW t \in Threads, VisitRaces(t)
      PROVE  MutexByRebuild'
  BY <1>23 DEF VisitRaces, Goto
<1>24. ASSUME NEW t \in Threads, ReconnectEnd(t)
      PROVE  MutexByRebuild'
  BY <1>24 DEF ReconnectEnd, Goto
<1>25. CASE ServerDrops
  BY <1>25 DEF ServerDrops
<1>26. CASE Destroy
  BY <1>26 DEF Destroy
<1>27. CASE UNCHANGED vars
  BY <1>27 DEF vars
<1> QED
  BY <1>1, <1>2, <1>3, <1>4, <1>5, <1>6, <1>7, <1>8, <1>9, <1>10, <1>11, <1>12, <1>13, <1>14, <1>15, <1>16, <1>17, <1>18, <1>19, <1>20, <1>21, <1>22, <1>23, <1>24, <1>25, <1>26, <1>27
     DEF Next, Running, Stopped, ThreadStep

-----------------------------------------------------------------------------
(* The deque holds connections of the current generation only.              *)

\* A step that leaves the deque and the generation alone.
LEMMA CurrentFramed ==
    ASSUME PoolIsCurrent, UNCHANGED <<pool, generation>>
    PROVE  PoolIsCurrent'
BY DEF PoolIsCurrent

LEMMA CurrentStep ==
    ASSUME TypeOK, HoldsWhenUsing, PoolIsCurrent, [Next]_vars
    PROVE  PoolIsCurrent'
<1>1. ASSUME NEW t \in Threads, Pop(t)
      PROVE  PoolIsCurrent'
  BY <1>1, PopBack, Pooled DEF Pop, TypeOK
<1>2. ASSUME NEW t \in Threads, ReleaseToPool(t)
      PROVE  PoolIsCurrent'
  <2>1. held[t] \in Conns /\ heldGen[t] = generation /\ generation \in Nat
    BY <1>2 DEF ReleaseToPool, Outdated, HoldsWhenUsing, TypeOK
  <2> QED
    BY <1>2, <2>1, PushBack, Pooled DEF ReleaseToPool, TypeOK
<1>3. ASSUME NEW t \in Threads, ReconnectBegin(t)
      PROVE  PoolIsCurrent'
  BY <1>3, Emptied, Pooled DEF ReconnectBegin
<1>4. ASSUME NEW t \in Threads, ConnectOne(t)
      PROVE  PoolIsCurrent'
  BY <1>4, PushBack, Pooled DEF ConnectOne, TypeOK
<1>5. CASE Destroy
  BY <1>5, Emptied, Pooled DEF Destroy
<1>6. CASE UNCHANGED <<pool, generation>>
  BY <1>6, CurrentFramed
<1> QED
  BY <1>1, <1>2, <1>3, <1>4, <1>5, <1>6
     DEF Next, Running, Stopped, ThreadStep, vars, deque, QueryBegin, Block, Timeout,
         GiveUpWaiting, Validate, Create, CreateThrows, Stamp, Execute,
         ReleaseAndDelete, NotifyOne, Retry, ReturnToCaller, ReturnToSetSchema,
         ConnectOneFails, ConnectEnd, VisitNext, VisitCall, VisitRaces, ReconnectEnd,
         ServerDrops

-----------------------------------------------------------------------------
(* Every connection has one owner.                                          *)

\* A step that leaves the objects, the deque and the leases alone.
LEMMA OwnershipFramed ==
    ASSUME Ownership, UNCHANGED <<conn, pool, held>>
    PROVE  Ownership'
BY DEF Ownership, PooledOnce, PooledAlive, HeldAlive, HeldByOne, NoOrphan, PooledConns, Alive

\* What a failure to open a connection leaves: the living stay what they are.
LEMMA OpeningFailsAlive ==
    ASSUME TypeOK, OpeningFails, NEW c \in Conns
    PROVE  Alive(c)' <=> Alive(c)
BY DEF TypeOK, OpeningFails, Alive

\* A step that changes no lease and no element of the deque, and lets no object
\* live or die.
LEMMA OwnershipSame ==
    ASSUME TypeOK, Ownership, UNCHANGED <<pool, held>>,
           \A c \in Conns : Alive(c)' <=> Alive(c)
    PROVE  Ownership'
<1>1. PooledConns' = PooledConns /\ (PooledOnce' <=> PooledOnce)
  BY Pooled
<1>2. PooledConns \subseteq Conns
  <2> SUFFICES ASSUME NEW i \in 1..Len(pool)
               PROVE  pool[i].connection \in Conns
    BY DEF PooledConns
  <2>1. pool[i] \in PooledConnection
    BY DEF TypeOK
  <2> QED
    BY <2>1 DEF PooledConnection
<1>3. \A t \in Threads : held[t] # NoConn => held[t] \in Conns
  BY DEF TypeOK
<1> QED
  BY <1>1, <1>2, <1>3 DEF Ownership, PooledAlive, HeldAlive, HeldByOne, NoOrphan

\* The connection taken from the deque changes hands.
LEMMA OwnershipPop ==
    ASSUME TypeOK, HoldsWhenUsing, Ownership, NEW t \in Threads, Pop(t)
    PROVE  Ownership'
<1> DEFINE last == pool[Len(pool)].connection
<1>1. /\ last \in Conns /\ last \in PooledConns
      /\ PooledOnce' /\ PooledConns' = PooledConns \ {last}
  BY PopBack, Pooled DEF Pop, TypeOK, Ownership
<1>2. held' = [held EXCEPT ![t] = last] /\ conn' = conn /\ held[t] = NoConn
  BY DEF Pop, HoldsWhenUsing
<1> HIDE DEF last
<1>3. PooledAlive'
  BY <1>1, <1>2 DEF Ownership, PooledAlive, Alive
<1>4. HeldAlive'
  BY <1>1, <1>2 DEF Ownership, PooledAlive, HeldAlive, Alive, TypeOK
<1>5. HeldByOne'
  BY <1>1, <1>2 DEF Ownership, HeldAlive, HeldByOne, TypeOK
<1>6. NoOrphan'
  BY <1>1, <1>2, PoolAssumption DEF Ownership, NoOrphan, Alive, TypeOK
<1> QED
  BY <1>1, <1>3, <1>4, <1>5, <1>6 DEF Ownership

\* The connection given back goes to the deque and nowhere else.
LEMMA OwnershipRelease ==
    ASSUME TypeOK, HoldsWhenUsing, Ownership, NEW t \in Threads, ReleaseToPool(t)
    PROVE  Ownership'
<1> DEFINE c == held[t]
<1>1. c \in Conns /\ c # NoConn /\ c \notin PooledConns /\ Alive(c)
  BY DEF ReleaseToPool, HoldsWhenUsing, TypeOK, Ownership, HeldAlive
<1>2. /\ held' = [held EXCEPT ![t] = NoConn] /\ conn' = conn
      /\ pool' = Append(pool, [connection |-> c, generation |-> heldGen[t]])
      /\ heldGen[t] \in Nat
  BY DEF ReleaseToPool, TypeOK
<1> HIDE DEF c
<1>3. PooledOnce' /\ PooledConns' = PooledConns \cup {c}
  BY <1>1, <1>2, PushBack, Pooled DEF TypeOK, Ownership
<1>4. PooledAlive'
  BY <1>1, <1>2, <1>3 DEF Ownership, PooledAlive, Alive
<1>5. HeldAlive'
  BY <1>1, <1>2, <1>3 DEF c, Ownership, HeldAlive, HeldByOne, Alive, TypeOK
<1>6. HeldByOne'
  BY <1>2 DEF Ownership, HeldByOne, TypeOK
<1>7. NoOrphan'
  BY <1>1, <1>2, <1>3 DEF c, Ownership, NoOrphan, Alive, TypeOK
<1> QED
  BY <1>3, <1>4, <1>5, <1>6, <1>7 DEF Ownership

\* A connection in a thread's hands is deleted, and the thread lets go of it.
LEMMA OwnershipDelete ==
    ASSUME TypeOK, Ownership, NEW t \in Threads, held[t] # NoConn, pool' = pool,
           conn' = [conn EXCEPT ![held[t]] = "none"],
           held' = [held EXCEPT ![t] = NoConn]
    PROVE  Ownership'
<1>1. PooledConns' = PooledConns /\ (PooledOnce' <=> PooledOnce)
  BY Pooled
<1>2. held[t] \in Conns /\ held[t] \notin PooledConns
  BY DEF TypeOK, Ownership, HeldAlive
<1>3. \A c \in Conns : c # held[t] => conn'[c] = conn[c]
  BY DEF TypeOK
<1>4. PooledConns \subseteq Conns
  <2> SUFFICES ASSUME NEW i \in 1..Len(pool)
               PROVE  pool[i].connection \in Conns
    BY DEF PooledConns
  <2>1. pool[i] \in PooledConnection
    BY DEF TypeOK
  <2> QED
    BY <2>1 DEF PooledConnection
<1>5. PooledAlive'
  BY <1>1, <1>2, <1>3, <1>4 DEF Ownership, PooledAlive, Alive
<1>6. HeldAlive'
  BY <1>1, <1>3 DEF Ownership, HeldAlive, HeldByOne, Alive, TypeOK
<1>7. HeldByOne'
  BY DEF Ownership, HeldByOne, TypeOK
<1>8. NoOrphan'
  BY <1>1, <1>2, <1>3 DEF Ownership, NoOrphan, Alive, TypeOK
<1> QED
  BY <1>1, <1>5, <1>6, <1>7, <1>8 DEF Ownership

\* A thread opens a connection for itself.
LEMMA OwnershipCreate ==
    ASSUME TypeOK, HoldsWhenUsing, Ownership, NEW t \in Threads, Create(t)
    PROVE  Ownership'
<1>1. PICK c \in Conns : /\ conn[c] = "none"
                         /\ conn' = [conn EXCEPT ![c] = "open"]
                         /\ held' = [held EXCEPT ![t] = c]
  BY DEF Create
<1>2. pool' = pool /\ held[t] = NoConn
  BY DEF Create, deque, HoldsWhenUsing
<1>3. PooledConns' = PooledConns /\ (PooledOnce' <=> PooledOnce)
  BY <1>2, Pooled
<1>4. c \notin PooledConns /\ \A u \in Threads : held[u] # c
  BY <1>1, PoolAssumption DEF Ownership, PooledAlive, HeldAlive, Alive
<1>5. \A d \in Conns : d # c => conn'[d] = conn[d]
  BY <1>1 DEF TypeOK
<1>6. conn'[c] = "open"
  BY <1>1 DEF TypeOK
<1>7. PooledAlive'
  BY <1>1, <1>3, <1>4 DEF Ownership, PooledAlive, Alive, TypeOK
<1>8. HeldAlive'
  BY <1>1, <1>3, <1>4, <1>5, <1>6 DEF Ownership, HeldAlive, Alive, TypeOK
<1>9. HeldByOne'
  BY <1>1, <1>4 DEF Ownership, HeldByOne, TypeOK
<1>10. NoOrphan'
  BY <1>1, <1>2, <1>3, <1>5, PoolAssumption DEF Ownership, NoOrphan, Alive, TypeOK
<1> QED
  BY <1>3, <1>7, <1>8, <1>9, <1>10 DEF Ownership

\* connect() puts a new connection into the deque.
LEMMA OwnershipConnect ==
    ASSUME TypeOK, Ownership, NEW t \in Threads, ConnectOne(t)
    PROVE  Ownership'
<1>1. PICK c \in Conns :
         /\ conn[c] = "none"
         /\ conn' = [conn EXCEPT ![c] = "open"]
         /\ pool' = Append(pool, [connection |-> c, generation |-> generation])
  BY DEF ConnectOne
<1>2. held' = held
  BY DEF ConnectOne, lease
<1>3. c \notin PooledConns /\ \A u \in Threads : held[u] # c
  BY <1>1, PoolAssumption DEF Ownership, PooledAlive, HeldAlive, Alive
<1>4. PooledOnce' /\ PooledConns' = PooledConns \cup {c}
  BY <1>1, <1>3, PushBack, Pooled DEF TypeOK, Ownership
<1>5. /\ \A d \in Conns : d # c => conn'[d] = conn[d]
      /\ conn'[c] = "open"
  BY <1>1 DEF TypeOK
<1>6. PooledAlive'
  BY <1>1, <1>4, <1>5 DEF Ownership, PooledAlive, Alive, TypeOK
<1>7. HeldAlive'
  BY <1>2, <1>3, <1>4, <1>5 DEF Ownership, HeldAlive, Alive, TypeOK
<1>8. HeldByOne'
  BY <1>2 DEF Ownership, HeldByOne
<1>9. NoOrphan'
  BY <1>2, <1>4, <1>5 DEF Ownership, NoOrphan, Alive
<1> QED
  BY <1>4, <1>6, <1>7, <1>8, <1>9 DEF Ownership

\* The deque is emptied and what was in it is deleted.
LEMMA OwnershipClosed ==
    ASSUME TypeOK, Ownership, conn' = Closed, pool' = <<>>, held' = held
    PROVE  /\ Ownership'
           /\ \A c \in Conns : Alive(c)' <=> Alive(c) /\ c \notin PooledConns
<1>1. PooledOnce' /\ PooledConns' = {}
  BY Emptied, Pooled
<1>2. \A c \in Conns : conn'[c] = IF c \in PooledConns THEN "none" ELSE conn[c]
  BY DEF Closed
<1>3. \A c \in Conns : Alive(c)' <=> Alive(c) /\ c \notin PooledConns
  BY <1>2 DEF Alive
<1>4. PooledAlive'
  BY <1>1 DEF PooledAlive
<1>5. HeldAlive'
  BY <1>1, <1>3 DEF Ownership, HeldAlive, TypeOK
<1>6. HeldByOne'
  BY DEF Ownership, HeldByOne
<1>7. NoOrphan'
  BY <1>3 DEF Ownership, NoOrphan
<1> QED
  BY <1>1, <1>3, <1>4, <1>5, <1>6, <1>7 DEF Ownership

LEMMA OwnershipStep ==
    ASSUME TypeOK, HoldsWhenUsing, Ownership, [Next]_vars
    PROVE  Ownership'
<1> USE DEF deque, lease
<1>1. ASSUME NEW t \in Threads, Pop(t)
      PROVE  Ownership'
  BY <1>1, OwnershipPop
<1>2. ASSUME NEW t \in Threads, Validate(t)
      PROVE  Ownership'
  <2>1. held[t] # NoConn
    BY <1>2 DEF Validate, HoldsWhenUsing
  <2>2. CASE should_replace_connection(held[t])
    BY <1>2, <2>1, <2>2, OwnershipDelete DEF Validate
  <2>3. CASE ~should_replace_connection(held[t])
    BY <1>2, <2>3, OwnershipFramed DEF Validate
  <2> QED
    BY <2>2, <2>3
<1>3. ASSUME NEW t \in Threads, Create(t)
      PROVE  Ownership'
  BY <1>3, OwnershipCreate
<1>4. ASSUME NEW t \in Threads, CreateThrows(t)
      PROVE  Ownership'
  BY <1>4, OpeningFailsAlive, OwnershipSame DEF CreateThrows
<1>5. ASSUME NEW t \in Threads, ReleaseToPool(t)
      PROVE  Ownership'
  BY <1>5, OwnershipRelease
<1>6. ASSUME NEW t \in Threads, ReleaseAndDelete(t)
      PROVE  Ownership'
  <2>1. held[t] # NoConn
    BY <1>6 DEF ReleaseAndDelete, HoldsWhenUsing
  <2> QED
    BY <1>6, <2>1, OwnershipDelete DEF ReleaseAndDelete
<1>7. ASSUME NEW t \in Threads, ReconnectBegin(t)
      PROVE  Ownership'
  BY <1>7, OwnershipClosed DEF ReconnectBegin
<1>8. ASSUME NEW t \in Threads, ConnectOne(t)
      PROVE  Ownership'
  BY <1>8, OwnershipConnect
<1>9. ASSUME NEW t \in Threads, ConnectOneFails(t)
      PROVE  Ownership'
  BY <1>9, OpeningFailsAlive, OwnershipSame DEF ConnectOneFails
<1>10. CASE ServerDrops
  <2>1. \A c \in Conns : Alive(c)' <=> Alive(c)
    BY <1>10 DEF ServerDrops, Alive, TypeOK
  <2> QED
    BY <1>10, <2>1, OwnershipSame DEF ServerDrops
<1>11. CASE Destroy
  BY <1>11, OwnershipClosed DEF Destroy
<1>12. CASE UNCHANGED <<conn, pool, held>>
  BY <1>12, OwnershipFramed
<1> QED
  BY <1>1, <1>2, <1>3, <1>4, <1>5, <1>6, <1>7, <1>8, <1>9, <1>10, <1>11, <1>12
     DEF Next, Running, Stopped, ThreadStep, vars, QueryBegin, Block, Timeout,
         GiveUpWaiting, Stamp, Execute, NotifyOne, Retry, ReturnToCaller,
         ReturnToSetSchema, ConnectEnd, VisitNext, VisitCall, VisitRaces, ReconnectEnd

-----------------------------------------------------------------------------
(* The end of the process.                                                  *)

LEMMA DownStep ==
    ASSUME TypeOK, HoldsWhenUsing, Ownership, NothingLeftBehind, [Next]_vars
    PROVE  NothingLeftBehind'
<1>1. CASE UNCHANGED vars
  BY <1>1 DEF vars, world, NothingLeftBehind, Alive
<1>2. CASE Running
  <2>1. CASE Destroy
    <3>1. \A t \in Threads : held[t] = NoConn
      BY <2>1 DEF Destroy, HoldsWhenUsing
    <3>2. \A c \in Conns : Alive(c) => c \in PooledConns
      BY <3>1, PoolAssumption DEF Ownership, NoOrphan
    <3>3. \A c \in Conns : Alive(c)' <=> Alive(c) /\ c \notin PooledConns
      BY <2>1, OwnershipClosed DEF Destroy, lease
    <3> QED
      BY <3>2, <3>3 DEF NothingLeftBehind
  <2>2. CASE ~Destroy
    <3>1. phase' # "down"
      BY <1>2, <2>2
         DEF Running, ThreadStep, world, ServerDrops, OpeningFails, QueryBegin, Pop, Block,
             Timeout, GiveUpWaiting, Validate, Create, CreateThrows, Stamp, Execute,
             ReleaseToPool, ReleaseAndDelete, NotifyOne, Retry, ReturnToCaller,
             ReturnToSetSchema, ReconnectBegin, ConnectOne, ConnectOneFails, ConnectEnd,
             VisitNext, VisitCall, VisitRaces, ReconnectEnd
    <3> QED
      BY <3>1 DEF NothingLeftBehind
  <2> QED
    BY <2>1, <2>2
<1> QED
  BY <1>1, <1>2 DEF Next, Stopped

-----------------------------------------------------------------------------
(* The inductive invariant.                                                 *)

\* A connection is in the hands of a thread exactly at the program counters that
\* use it: without that, nothing would tell that a thread about to take or open a
\* connection has none to lose, or that one about to give it back has one.
PoolInv ==
    /\ TypeOK
    /\ HoldsWhenUsing
    /\ MutexByRebuild
    /\ PoolIsCurrent
    /\ Ownership
    /\ NothingLeftBehind

\* The startup leaves at most the configured number of connections, or one.
LEMMA OpenedFew ==
    ASSUME NEW failed \in Nat
    PROVE  /\ OpenedAtStartup(failed) \in Nat
           /\ OpenedAtStartup(failed) <= PoolSize \/ OpenedAtStartup(failed) = 1
BY PoolAssumption DEF OpenedAtStartup

LEMMA FaultsAtStartup ==
    ASSUME Init
    PROVE  faults \in Nat /\ faults \in 0..MaxFaults
BY PoolAssumption DEF Init

LEMMA InitHolds ==
    ASSUME Init
    PROVE  PoolInv
<1> DEFINE n == OpenedAtStartup(faults)
<1>1. PICK opened \in [1..n -> Conns] :
         /\ \A i, j \in 1..n : opened[i] = opened[j] => i = j
         /\ conn = [c \in Conns |-> IF \E i \in 1..n : opened[i] = c
                                     THEN "open" ELSE "none"]
         /\ pool = [i \in 1..n |-> [connection |-> opened[i], generation |-> 1]]
  BY DEF Init
<1>2. n \in Nat /\ faults \in 0..MaxFaults
  BY OpenedFew, FaultsAtStartup
<1> HIDE DEF n
<1>3. \A i \in 1..n : [connection |-> opened[i], generation |-> 1] \in PooledConnection
  BY DEF PooledConnection
<1>4. /\ pool \in Seq(PooledConnection)
      /\ Len(pool) = n
      /\ \A i \in 1..n : pool[i].connection = opened[i] /\ pool[i].generation = 1
  BY <1>1, <1>2, <1>3
<1>5. /\ generation = 1 /\ mutex = Nobody /\ phase = "up"
      /\ \A t \in Threads : pc[t] = "idle" /\ held[t] = NoConn
  BY DEF Init
<1>6. TypeOK
  <2>1. conn \in [Conns -> {"none", "open", "dead", "leaked"}]
    BY <1>1
  <2>2. /\ frames \in [Threads -> Seq({0, 1})]
        /\ visit \in [Threads -> Visit]
    BY NoVisitTyped DEF Init
  <2>3. pc \in [Threads -> Labels]
    BY DEF Init, Labels
  <2> QED
    BY <1>2, <1>4, <2>1, <2>2, <2>3, PoolAssumption DEF Init, TypeOK, Outcomes
<1>7. HoldsWhenUsing
  BY <1>5 DEF HoldsWhenUsing
<1>8. MutexByRebuild
  BY <1>5, PoolAssumption DEF MutexByRebuild
<1>9. PoolIsCurrent
  BY <1>4, <1>5 DEF PoolIsCurrent
<1>10. Ownership
  <2>1. \A c \in Conns : Alive(c) <=> c \in PooledConns
    <3> SUFFICES ASSUME NEW c \in Conns
                 PROVE  Alive(c) <=> c \in PooledConns
      OBVIOUS
    <3>1. Alive(c) <=> \E i \in 1..n : opened[i] = c
      BY <1>1 DEF Alive
    <3>2. c \in PooledConns <=> \E i \in 1..n : opened[i] = c
      BY <1>4 DEF PooledConns
    <3> QED
      BY <3>1, <3>2
  <2>2. PooledOnce
    BY <1>1, <1>4 DEF PooledOnce
  <2>3. PooledConns \subseteq Conns
    BY <1>4 DEF PooledConns
  <2>4. PooledAlive /\ NoOrphan
    BY <2>1, <2>3 DEF PooledAlive, NoOrphan
  <2>5. HeldAlive /\ HeldByOne
    BY <1>5 DEF HeldAlive, HeldByOne
  <2> QED
    BY <2>2, <2>4, <2>5 DEF Ownership
<1>11. NothingLeftBehind
  BY <1>5 DEF NothingLeftBehind
<1> QED
  BY <1>6, <1>7, <1>8, <1>9, <1>10, <1>11 DEF PoolInv

\* The invariant holds throughout.
THEOREM Invariance == Spec => []PoolInv
<1>1. PoolInv /\ [Next]_vars => PoolInv'
  BY TypeStep, HoldsStep, MutexStep, CurrentStep, OwnershipStep, DownStep DEF PoolInv
<1> QED
  BY <1>1, InitHolds, PTL DEF Spec

\* The fields of MysqlWrapper and the locals of its methods keep their types.
THEOREM TypeCorrect == Spec => []TypeOK
BY Invariance, PTL DEF PoolInv

\* No connection object is shared, deleted twice or lost, whatever the threads,
\* the time-outs and the server do: the deque and the threads own each one once.
THEOREM OneOwner == Spec => []Ownership
BY Invariance, PTL DEF PoolInv

\* A connection that was out while another thread rebuilt the pool never comes back.
THEOREM OneGeneration == Spec => []PoolIsCurrent
BY Invariance, PTL DEF PoolInv

\* The lock is held between steps only by a thread that runs connect().
THEOREM LockOnlyToRebuild == Spec => []MutexByRebuild
BY Invariance, PTL DEF PoolInv

\* The destructor leaves no connection object behind that has a pointer to it.
THEOREM DestructorCloses == Spec => []NothingLeftBehind
BY Invariance, PTL DEF PoolInv

\* Every connection that MysqlWrapper opens has one owner while it is alive, and none
\* is alive when the destructor has run.
THEOREM AllAccounted == Spec => []ConnectionsAccounted
BY TypeCorrect, OneOwner, DestructorCloses, PTL DEF ConnectionsAccounted

-----------------------------------------------------------------------------
(* How many.                                                                *)

\* A set of threads is finite, and changes its size by one with one thread.
LEMMA Counting ==
    ASSUME NEW S \in SUBSET Threads
    PROVE  /\ IsFiniteSet(S)
           /\ Cardinality(S) \in Nat
           /\ Cardinality(S) <= Cardinality(Threads)
           /\ Cardinality(Threads) \in Nat
           /\ \A t \in Threads : /\ t \notin S => Cardinality(S \cup {t}) = Cardinality(S) + 1
                                 /\ t \in S => Cardinality(S \ {t}) = Cardinality(S) - 1
                                 /\ t \notin S => Cardinality(S) + 1 <= Cardinality(Threads)
<1>1. IsFiniteSet(Threads)
  BY PoolAssumption
<1>2. /\ IsFiniteSet(S)
      /\ Cardinality(S) <= Cardinality(Threads)
  BY <1>1, FS_Subset
<1>3. Cardinality(S) \in Nat /\ Cardinality(Threads) \in Nat
  BY <1>1, <1>2, FS_CardinalityType
<1>4. ASSUME NEW t \in Threads
      PROVE  /\ t \notin S => Cardinality(S \cup {t}) = Cardinality(S) + 1
             /\ t \in S => Cardinality(S \ {t}) = Cardinality(S) - 1
             /\ t \notin S => Cardinality(S) + 1 <= Cardinality(Threads)
  <2>1. t \notin S => Cardinality(S \cup {t}) = Cardinality(S) + 1
    BY <1>2, FS_AddElement
  <2>2. t \in S => Cardinality(S \ {t}) = Cardinality(S) - 1
    BY <1>2, FS_RemoveElement
  <2>3. Cardinality(S \cup {t}) <= Cardinality(Threads)
    <3>1. S \cup {t} \in SUBSET Threads
      OBVIOUS
    <3> QED
      BY <1>1, <3>1, FS_Subset
  <2> QED
    BY <2>1, <2>2, <2>3
<1> QED
  BY <1>2, <1>3, <1>4

-----------------------------------------------------------------------------
(* No wakeup is lost.                                                       *)

\* The threads on their way to take or to announce a connection.
Coming == {t \in Threads : pc[t] \in {"woken", "expired", "notify"}}

\* The property in terms of these threads.
LEMMA WakeupByComing ==
    NoLostWakeup <=> (InState("waiting") # {} => Len(pool) <= Cardinality(Coming) \/ mutex # Nobody)
<1>1. Coming = InState("woken") \cup InState("expired") \cup InState("notify")
  BY DEF Coming, InState
<1> QED
  BY <1>1 DEF NoLostWakeup

LEMMA WakeupByComingNext ==
    (NoLostWakeup <=> (InState("waiting") # {} => Len(pool) <= Cardinality(Coming) \/ mutex # Nobody))'
BY WakeupByComing, PTL

\* A step of one thread that is not about waiting and leaves the deque alone.
LEMMA WakeupFramed ==
    ASSUME TypeOK, NoLostWakeup, UNCHANGED <<pool, mutex>>,
           \A u \in Threads : /\ pc'[u] = "waiting" => pc[u] = "waiting"
                              /\ u \in Coming => pc'[u] \in {"woken", "expired", "notify"}
    PROVE  NoLostWakeup'
<1>1. InState("waiting")' \subseteq InState("waiting") /\ Coming \subseteq Coming'
  BY DEF InState, Coming
<1>2. Coming' \in SUBSET Threads /\ Coming \in SUBSET Threads
  BY DEF Coming
<1>3. /\ Cardinality(Coming) <= Cardinality(Coming')
      /\ Cardinality(Coming) \in Nat /\ Cardinality(Coming') \in Nat
  BY <1>1, <1>2, Counting, FS_Subset
<1>4. Len(pool) \in Nat
  BY DEF TypeOK
<1> QED
  BY <1>1, <1>3, <1>4, WakeupByComing, WakeupByComingNext

\* A connection is taken: the thread that takes it was one of those on their way,
\* or it did not wait at all.
LEMMA WakeupPop ==
    ASSUME TypeOK, NoLostWakeup, NEW t \in Threads, Pop(t)
    PROVE  NoLostWakeup'
<1>1. /\ pool # <<>> /\ mutex = Nobody /\ mutex' = mutex
      /\ pool' = SubSeq(pool, 1, Len(pool) - 1)
      /\ pc' = [pc EXCEPT ![t] = "validate"]
  BY DEF Pop, Goto
<1>2. InState("waiting")' = InState("waiting")
  BY <1>1 DEF InState, TypeOK, Pop
<1>3. Coming' = Coming \ {t} /\ Coming \in SUBSET Threads
  BY <1>1 DEF Coming, TypeOK
<1>4. Len(pool') = Len(pool) - 1 /\ Len(pool) \in Nat
  BY <1>1, PopBack DEF TypeOK
<1>5. /\ Cardinality(Coming) \in Nat
      /\ Cardinality(Coming') >= Cardinality(Coming) - 1
  <2>1. CASE t \in Coming
    BY <2>1, <1>3, Counting
  <2>2. CASE t \notin Coming
    <3>1. Coming' = Coming
      BY <2>2, <1>3
    <3> QED
      BY <3>1, <1>3, Counting
  <2> QED
    BY <2>1, <2>2
<1>6. Cardinality(Coming') \in Nat
  BY <1>3, Counting
<1> QED
  BY <1>1, <1>2, <1>4, <1>5, <1>6, WakeupByComing, WakeupByComingNext

\* A connection is given back: the thread announces it next.
LEMMA WakeupRelease ==
    ASSUME TypeOK, HoldsWhenUsing, NoLostWakeup, NEW t \in Threads, ReleaseToPool(t)
    PROVE  NoLostWakeup'
<1>1. /\ pc[t] = "release" /\ mutex = Nobody /\ mutex' = mutex
      /\ pool' = Append(pool, [connection |-> held[t], generation |-> heldGen[t]])
      /\ pc' = [pc EXCEPT ![t] = "notify"]
  BY DEF ReleaseToPool, Goto
<1>2. InState("waiting")' = InState("waiting")
  BY <1>1 DEF InState, TypeOK
<1>3. Coming' = Coming \cup {t} /\ Coming \in SUBSET Threads /\ t \notin Coming
  BY <1>1 DEF Coming, TypeOK
<1>4. Len(pool') = Len(pool) + 1 /\ Len(pool) \in Nat
  <2>1. held[t] \in Conns /\ heldGen[t] \in Nat
    BY <1>1 DEF HoldsWhenUsing, TypeOK
  <2> QED
    BY <1>1, <2>1, PushBack DEF TypeOK
<1>5. /\ Cardinality(Coming) \in Nat
      /\ Cardinality(Coming') = Cardinality(Coming) + 1
  BY <1>3, Counting
<1> QED
  BY <1>1, <1>2, <1>4, <1>5, WakeupByComing, WakeupByComingNext

\* A notification: either nobody waits, or the thread woken takes the place of the
\* one that woke it.
LEMMA WakeupNotify ==
    ASSUME TypeOK, NoLostWakeup, NEW t \in Threads, NotifyOne(t)
    PROVE  NoLostWakeup'
<1>1. pc[t] = "notify" /\ pool' = pool /\ mutex' = mutex
  BY DEF NotifyOne, deque
<1>2. CASE InState("waiting") = {} /\ Goto(t, "after")
  <2>1. InState("waiting")' = {}
    BY <1>2 DEF InState, Goto, TypeOK
  <2> QED
    BY <2>1, WakeupByComingNext
<1>3. ASSUME NEW u \in InState("waiting"),
             pc' = [pc EXCEPT ![t] = "after", ![u] = "woken"]
      PROVE  NoLostWakeup'
  <2>1. u \in Threads /\ pc[u] = "waiting" /\ u # t
    BY <1>1 DEF InState
  <2>2. /\ Coming' = (Coming \ {t}) \cup {u} /\ t \in Coming /\ u \notin Coming
        /\ Coming \in SUBSET Threads /\ Coming \ {t} \in SUBSET Threads
    BY <1>1, <1>3, <2>1 DEF Coming, TypeOK
  <2>3. Cardinality(Coming') = Cardinality(Coming)
    <3>1. Cardinality(Coming \ {t}) = Cardinality(Coming) - 1 /\ Cardinality(Coming) \in Nat
      BY <2>2, Counting
    <3>2. Cardinality((Coming \ {t}) \cup {u}) = Cardinality(Coming \ {t}) + 1
      BY <2>1, <2>2, Counting
    <3> QED
      BY <2>2, <3>1, <3>2
  <2>4. InState("waiting") # {}
    OBVIOUS
  <2> QED
    BY <1>1, <2>3, <2>4, WakeupByComing, WakeupByComingNext
<1> QED
  BY <1>2, <1>3 DEF NotifyOne

LEMMA WakeupStep ==
    ASSUME TypeOK, HoldsWhenUsing, MutexByRebuild, NoLostWakeup, [Next]_vars
    PROVE  NoLostWakeup'
<1> USE DEF deque
<1>0. pc \in [Threads -> Labels] /\ Len(pool) \in Nat
  BY DEF TypeOK
<1>1. ASSUME NEW t \in Threads, Pop(t)
      PROVE  NoLostWakeup'
  BY <1>1, WakeupPop
<1>2. ASSUME NEW t \in Threads, Block(t)
      PROVE  NoLostWakeup'
  <2>1. Len(pool') = 0
    BY <1>2, Emptied DEF Block, TypeOK
  <2>2. Cardinality(Coming') \in Nat
    <3>1. Coming' \in SUBSET Threads
      BY DEF Coming
    <3> QED
      BY <3>1, Counting
  <2> QED
    BY <2>1, <2>2, WakeupByComingNext
<1>3. ASSUME NEW t \in Threads, Timeout(t)
      PROVE  NoLostWakeup'
  BY <1>0, <1>3, WakeupFramed DEF Timeout, Goto, Coming
<1>4. ASSUME NEW t \in Threads, GiveUpWaiting(t)
      PROVE  NoLostWakeup'
  <2>1. Len(pool') = 0
    BY <1>4, Emptied DEF GiveUpWaiting, TypeOK
  <2>2. Cardinality(Coming') \in Nat
    <3>1. Coming' \in SUBSET Threads
      BY DEF Coming
    <3> QED
      BY <3>1, Counting
  <2> QED
    BY <2>1, <2>2, WakeupByComingNext
<1>5. ASSUME NEW t \in Threads, ReleaseToPool(t)
      PROVE  NoLostWakeup'
  BY <1>5, WakeupRelease
<1>6. ASSUME NEW t \in Threads, NotifyOne(t)
      PROVE  NoLostWakeup'
  BY <1>6, WakeupNotify
<1>7. ASSUME NEW t \in Threads, ReconnectBegin(t)
      PROVE  NoLostWakeup'
  BY <1>7, PoolAssumption, WakeupByComingNext DEF ReconnectBegin
<1>8. ASSUME NEW t \in Threads, ConnectOne(t) \/ ConnectOneFails(t)
      PROVE  NoLostWakeup'
  BY <1>8, PoolAssumption, WakeupByComingNext DEF ConnectOne, ConnectOneFails, MutexByRebuild
<1>9. ASSUME NEW t \in Threads, ConnectEnd(t) \/ ReconnectEnd(t)
      PROVE  NoLostWakeup'
  <2>1. InState("waiting")' = {}
    <3> SUFFICES ASSUME NEW u \in Threads
                 PROVE  pc'[u] # "waiting"
      BY DEF InState
    <3>1. CASE ConnectEnd(t)
      BY <3>1 DEF ConnectEnd
    <3>2. CASE ReconnectEnd(t)
      BY <3>2 DEF ReconnectEnd
    <3> QED
      BY <1>9, <3>1, <3>2
  <2> QED
    BY <2>1, WakeupByComingNext
<1>10. CASE Destroy
  <2>1. InState("waiting")' = {}
    BY <1>10 DEF Destroy, InState
  <2> QED
    BY <2>1, WakeupByComingNext
<1>11. ASSUME NEW t \in Threads,
              \/ QueryBegin(t) \/ Validate(t) \/ Create(t) \/ CreateThrows(t) \/ Stamp(t)
              \/ Execute(t) \/ ReleaseAndDelete(t) \/ Retry(t) \/ ReturnToCaller(t)
              \/ ReturnToSetSchema(t) \/ VisitNext(t) \/ VisitCall(t) \/ VisitRaces(t)
      PROVE  NoLostWakeup'
  <2>1. pool' = pool /\ mutex' = mutex
    BY <1>11 DEF QueryBegin, Validate, Create, CreateThrows, Stamp, Execute,
                 ReleaseAndDelete, Retry, ReturnToCaller, ReturnToSetSchema, VisitNext,
                 VisitCall, VisitRaces
  <2>2. /\ pc[t] \notin {"woken", "expired", "notify"}
        /\ \E l \in Labels \ {"waiting"} : pc' = [pc EXCEPT ![t] = l]
    BY <1>11, ZenonT(60)
       DEF Labels, Goto, QueryBegin, Validate, Create, CreateThrows, Stamp, Execute,
           ReleaseAndDelete, Retry, ReturnToCaller, ReturnToSetSchema, VisitNext,
           VisitCall, VisitRaces
  <2> QED
    BY <1>0, <2>1, <2>2, WakeupFramed DEF Coming
<1>12. CASE ServerDrops \/ UNCHANGED vars
  BY <1>12, WakeupFramed DEF ServerDrops, vars, Coming
<1> QED
  BY <1>1, <1>2, <1>3, <1>4, <1>5, <1>6, <1>7, <1>8, <1>9, <1>10, <1>11, <1>12
     DEF Next, Running, Stopped, ThreadStep

\* As many threads are on their way to take or to announce a connection as there
\* are in the deque, whenever some thread waits for one.
THEOREM NoWakeupIsLost == Spec => []NoLostWakeup
<1>1. Init => NoLostWakeup
  BY DEF Init, NoLostWakeup, InState
<1>2. PoolInv /\ NoLostWakeup /\ [Next]_vars => NoLostWakeup'
  BY WakeupStep DEF PoolInv
<1> QED
  BY <1>1, <1>2, Invariance, PTL DEF Spec

-----------------------------------------------------------------------------
(* The pool does not grow with time.                                        *)

\* connect()'s loop counter is used up outside connect(): a thread that takes a
\* connection, or leaves its own in the deque, has none still to open.
LoopsUsedUp == \A t \in Threads : pc[t] # "connect" => left[t] = 0

LEMMA LoopsStep ==
    ASSUME TypeOK, LoopsUsedUp, [Next]_vars
    PROVE  LoopsUsedUp'
<1> USE DEF LoopsUsedUp, rebuild
<1>0. pc \in [Threads -> Labels] /\ left \in [Threads -> 0..PoolSize] /\ PoolSize \in Nat
  BY PoolAssumption DEF TypeOK
<1>1. ASSUME NEW t \in Threads, ReconnectBegin(t)
      PROVE  LoopsUsedUp'
  BY <1>0, <1>1 DEF ReconnectBegin, Goto
<1>2. ASSUME NEW t \in Threads, ConnectOne(t) \/ ConnectOneFails(t)
      PROVE  LoopsUsedUp'
  BY <1>0, <1>2 DEF ConnectOne, ConnectOneFails
<1>3. ASSUME NEW t \in Threads, ConnectEnd(t)
      PROVE  LoopsUsedUp'
  BY <1>0, <1>3 DEF ConnectEnd
<1>4. ASSUME NEW t \in Threads, ReconnectEnd(t)
      PROVE  LoopsUsedUp'
  BY <1>0, <1>4 DEF ReconnectEnd
<1>5. ASSUME NEW t \in Threads, NotifyOne(t)
      PROVE  LoopsUsedUp'
  <2>1. left' = left
    BY <1>5 DEF NotifyOne
  <2>2. \A v \in Threads : pc'[v] = pc[v] \/ pc[v] \in {"notify", "waiting"}
    BY <1>5, NotifyMoves
  <2> QED
    BY <2>1, <2>2
<1>6. ASSUME NEW t \in Threads,
             \/ QueryBegin(t) \/ Pop(t) \/ Block(t) \/ Timeout(t) \/ GiveUpWaiting(t)
             \/ Validate(t) \/ Create(t) \/ CreateThrows(t) \/ Stamp(t) \/ Execute(t)
             \/ ReleaseToPool(t) \/ ReleaseAndDelete(t) \/ Retry(t) \/ ReturnToCaller(t)
             \/ ReturnToSetSchema(t) \/ VisitNext(t) \/ VisitCall(t) \/ VisitRaces(t)
      PROVE  LoopsUsedUp'
  <2>1. left' = left
    BY <1>6 DEF QueryBegin, Pop, Block, Timeout, GiveUpWaiting, Validate, Create,
                CreateThrows, Stamp, Execute, ReleaseToPool, ReleaseAndDelete, Retry,
                ReturnToCaller, ReturnToSetSchema, VisitNext, VisitCall, VisitRaces
  <2>2. /\ pc[t] # "connect"
        /\ \E l : pc' = [pc EXCEPT ![t] = l]
    BY <1>6, ZenonT(60)
       DEF Goto, QueryBegin, Pop, Block, Timeout, GiveUpWaiting, Validate, Create,
           CreateThrows, Stamp, Execute, ReleaseToPool, ReleaseAndDelete, Retry,
           ReturnToCaller, ReturnToSetSchema, VisitNext, VisitCall, VisitRaces
  <2> QED
    BY <1>0, <2>1, <2>2
<1>7. CASE ServerDrops \/ Destroy \/ UNCHANGED vars
  BY <1>7 DEF ServerDrops, Destroy, vars
<1> QED
  BY <1>1, <1>2, <1>3, <1>4, <1>5, <1>6, <1>7 DEF Next, Running, Stopped, ThreadStep

\* With the lock free, no thread has connections left to open; with the lock held,
\* only its holder has.
LEMMA OneLoop ==
    ASSUME TypeOK, MutexByRebuild, LoopsUsedUp, NEW t \in Threads
    PROVE  /\ mutex = Nobody => left[t] = 0
           /\ \A u \in Threads : pc[u] = "connect" /\ t # u => left[t] = 0
BY PoolAssumption DEF MutexByRebuild, LoopsUsedUp

\* The bound of the property.
PoolMost == IF PoolSize = 0 THEN Cardinality(Threads)
                            ELSE PoolSize + Cardinality(Threads) - 1

LEMMA BoundedByMost ==
    PoolBounded <=> \A t \in Threads : Len(pool) + Cardinality(Engaged) + left[t] <= PoolMost
BY DEF PoolBounded, PoolMost

LEMMA BoundedByMostNext ==
    (PoolBounded <=> \A t \in Threads : Len(pool) + Cardinality(Engaged) + left[t] <= PoolMost)'
BY BoundedByMost, PTL

\* The bound leaves room for one connection of each thread, and for a new pool
\* beside the connections of all threads but the one that builds it.
LEMMA MostIsEnough ==
    /\ PoolMost \in Int
    /\ Cardinality(Threads) <= PoolMost
    /\ PoolSize + Cardinality(Threads) - 1 <= PoolMost
<1>1. Cardinality(Threads) \in Nat /\ PoolSize \in Nat
  BY PoolAssumption, FS_CardinalityType
<1> QED
  BY <1>1 DEF PoolMost

LEMMA Numbers ==
    TypeOK => /\ Len(pool) \in Nat
              /\ \A t \in Threads : left[t] \in 0..PoolSize /\ left[t] \in Nat
              /\ PoolSize \in Nat
              /\ Engaged \in SUBSET Threads
              /\ IsFiniteSet(Engaged)
              /\ Cardinality(Engaged) \in Nat
              /\ Cardinality(Threads) \in Nat
<1>1. Engaged \in SUBSET Threads
  BY DEF Engaged
<1>2. /\ IsFiniteSet(Engaged)
      /\ Cardinality(Engaged) \in Nat
      /\ Cardinality(Threads) \in Nat
  BY <1>1, Counting
<1> QED
  BY <1>1, <1>2, PoolAssumption DEF TypeOK

LEMMA NumbersNext ==
    (TypeOK => /\ Len(pool) \in Nat
               /\ \A t \in Threads : left[t] \in 0..PoolSize /\ left[t] \in Nat
               /\ PoolSize \in Nat
               /\ Engaged \in SUBSET Threads
               /\ IsFiniteSet(Engaged)
               /\ Cardinality(Engaged) \in Nat
               /\ Cardinality(Threads) \in Nat)'
BY Numbers, PTL

\* A step after which the deque is no longer and no other thread is engaged.
LEMMA BoundFramed ==
    ASSUME TypeOK, TypeOK', PoolBounded, UNCHANGED <<pool, left>>, Engaged' \subseteq Engaged
    PROVE  PoolBounded'
<1>1. Cardinality(Engaged') <= Cardinality(Engaged)
  BY Numbers, FS_Subset
<1> QED
  BY <1>1, Numbers, NumbersNext, MostIsEnough, BoundedByMost, BoundedByMostNext

\* What a step of t does to the set of threads that have a connection, or will have
\* one without taking it from the deque.
EngagedLabels == {"validate", "create", "stamp", "exec", "release"}

LEMMA EngagedMoves ==
    ASSUME TypeOK, NEW t \in Threads, NEW l \in Labels, pc' = [pc EXCEPT ![t] = l]
    PROVE  /\ l \in EngagedLabels => Engaged' = Engaged \cup {t}
           /\ l \notin EngagedLabels => Engaged' = Engaged \ {t}
           /\ t \in Engaged <=> pc[t] \in EngagedLabels
BY DEF TypeOK, Engaged, EngagedLabels

LEMMA BoundPop ==
    ASSUME TypeOK, TypeOK', PoolBounded, NEW t \in Threads, Pop(t)
    PROVE  PoolBounded'
<1>1. Engaged' = Engaged \cup {t} /\ t \notin Engaged
  BY EngagedMoves DEF Pop, Goto, Labels, EngagedLabels
<1>2. Len(pool') = Len(pool) - 1 /\ left' = left
  BY PopBack DEF Pop, TypeOK, rebuild
<1>3. Cardinality(Engaged') = Cardinality(Engaged) + 1
  BY <1>1, Numbers, Counting
<1> QED
  BY <1>2, <1>3, Numbers, MostIsEnough, BoundedByMost, BoundedByMostNext

LEMMA BoundRelease ==
    ASSUME TypeOK, TypeOK', HoldsWhenUsing, PoolBounded, NEW t \in Threads, ReleaseToPool(t)
    PROVE  PoolBounded'
<1>1. Engaged' = Engaged \ {t} /\ t \in Engaged
  BY EngagedMoves DEF ReleaseToPool, Goto, Labels, EngagedLabels
<1>2. Len(pool') = Len(pool) + 1 /\ left' = left
  <2>1. held[t] \in Conns /\ heldGen[t] \in Nat
    BY DEF ReleaseToPool, HoldsWhenUsing, TypeOK
  <2> QED
    BY <2>1, PushBack DEF ReleaseToPool, TypeOK, rebuild
<1>3. Cardinality(Engaged') = Cardinality(Engaged) - 1
  BY <1>1, Numbers, Counting
<1> QED
  BY <1>2, <1>3, Numbers, MostIsEnough, BoundedByMost, BoundedByMostNext

\* A thread gives up waiting only while the deque is empty and no one fills it.
LEMMA BoundGiveUp ==
    ASSUME TypeOK, TypeOK', MutexByRebuild, LoopsUsedUp, NEW t \in Threads, GiveUpWaiting(t)
    PROVE  PoolBounded'
<1>1. /\ Len(pool') = 0
      /\ \A u \in Threads : left'[u] = 0
  BY OneLoop, Emptied DEF GiveUpWaiting, deque, rebuild
<1>2. Cardinality(Engaged') <= Cardinality(Threads)
  BY NumbersNext, Counting
<1> QED
  BY <1>1, <1>2, Numbers, NumbersNext, MostIsEnough, BoundedByMostNext

\* The thread that rebuilds the pool has no connection itself.
LEMMA BoundReconnect ==
    ASSUME TypeOK, TypeOK', MutexByRebuild, LoopsUsedUp, NEW t \in Threads, ReconnectBegin(t)
    PROVE  PoolBounded'
<1>1. /\ Len(pool') = 0
      /\ \A u \in Threads : u # t => left'[u] = 0
      /\ left'[t] = PoolSize
  BY OneLoop, Emptied DEF ReconnectBegin, ConnectCount, TypeOK
<1>2. t \notin Engaged'
  BY EngagedMoves DEF ReconnectBegin, Goto, Labels, EngagedLabels
<1>3. Cardinality(Engaged') + 1 <= Cardinality(Threads)
  BY <1>2, NumbersNext, Counting
<1>4. \A u \in Threads : left'[u] <= PoolSize /\ left'[u] \in Nat
  BY NumbersNext
<1> QED
  BY <1>1, <1>3, <1>4, Numbers, NumbersNext, MostIsEnough, BoundedByMostNext

LEMMA BoundConnect ==
    ASSUME TypeOK, TypeOK', MutexByRebuild, LoopsUsedUp, PoolBounded, NEW t \in Threads,
           ConnectOne(t) \/ ConnectOneFails(t)
    PROVE  PoolBounded'
<1>1. /\ Engaged' = Engaged
      /\ pc[t] = "connect" /\ left[t] > 0
      /\ left' = [left EXCEPT ![t] = @ - 1]
  BY DEF ConnectOne, ConnectOneFails, Engaged
<1>2. Len(pool') <= Len(pool) + 1
  <2>1. CASE ConnectOne(t)
    BY <2>1, PushBack DEF ConnectOne, TypeOK
  <2>2. CASE ConnectOneFails(t)
    BY <2>2, Numbers DEF ConnectOneFails, deque
  <2> QED
    BY <2>1, <2>2
<1>3. \A u \in Threads : u # t => left[u] = 0
  BY <1>1, OneLoop
<1>4. /\ left'[t] = left[t] - 1
      /\ \A u \in Threads : u # t => left'[u] = 0
  BY <1>1, <1>3 DEF TypeOK
<1>5. Len(pool') + Cardinality(Engaged') + left'[t] <= PoolMost
  <2>1. Len(pool) + Cardinality(Engaged) + left[t] <= PoolMost
    BY BoundedByMost
  <2> QED
    BY <2>1, <1>1, <1>2, <1>4, Numbers, NumbersNext, MostIsEnough
<1>6. left'[t] \in Nat
  BY NumbersNext
<1>7. ASSUME NEW u \in Threads
      PROVE  Len(pool') + Cardinality(Engaged') + left'[u] <= PoolMost
  <2>1. u = t \/ left'[u] = 0
    BY <1>4
  <2> QED
    BY <1>5, <1>6, <2>1, NumbersNext, MostIsEnough
<1> QED
  BY <1>7, BoundedByMostNext

LEMMA BoundStep ==
    ASSUME TypeOK, TypeOK', HoldsWhenUsing, MutexByRebuild, LoopsUsedUp, PoolBounded, [Next]_vars
    PROVE  PoolBounded'
<1> USE DEF deque, rebuild
<1>0. pc \in [Threads -> Labels]
  BY DEF TypeOK
<1>1. ASSUME NEW t \in Threads, Pop(t)
      PROVE  PoolBounded'
  BY <1>1, BoundPop
<1>2. ASSUME NEW t \in Threads, GiveUpWaiting(t)
      PROVE  PoolBounded'
  BY <1>2, BoundGiveUp
<1>3. ASSUME NEW t \in Threads, ReleaseToPool(t)
      PROVE  PoolBounded'
  BY <1>3, BoundRelease
<1>4. ASSUME NEW t \in Threads, ReconnectBegin(t)
      PROVE  PoolBounded'
  BY <1>4, BoundReconnect
<1>5. ASSUME NEW t \in Threads, ConnectOne(t) \/ ConnectOneFails(t)
      PROVE  PoolBounded'
  BY <1>5, BoundConnect
<1>6. ASSUME NEW t \in Threads, ConnectEnd(t) \/ ReconnectEnd(t)
      PROVE  PoolBounded'
  <2>1. \A u \in Threads : pc'[u] = pc[u] \/ pc'[u] \notin EngagedLabels
    <3>1. CASE ConnectEnd(t)
      BY <3>1 DEF ConnectEnd, EngagedLabels
    <3>2. CASE ReconnectEnd(t)
      BY <3>2 DEF ReconnectEnd, EngagedLabels
    <3> QED
      BY <1>6, <3>1, <3>2
  <2>2. Engaged' \subseteq Engaged
    BY <2>1 DEF Engaged, EngagedLabels
  <2> QED
    BY <1>6, <2>2, BoundFramed DEF ConnectEnd, ReconnectEnd
<1>7. ASSUME NEW t \in Threads, NotifyOne(t)
      PROVE  PoolBounded'
  <2>1. Engaged' \subseteq Engaged
    BY <1>7, NotifyMoves DEF Engaged
  <2> QED
    BY <1>7, <2>1, BoundFramed DEF NotifyOne
<1>8. ASSUME NEW t \in Threads,
             Validate(t) \/ Create(t) \/ CreateThrows(t) \/ Stamp(t) \/ Execute(t) \/ ReleaseAndDelete(t)
      PROVE  PoolBounded'
  <2>1. pool' = pool /\ left' = left
    BY <1>8 DEF Validate, Create, CreateThrows, Stamp, Execute, ReleaseAndDelete
  <2>2. /\ pc[t] \in EngagedLabels
        /\ \E l \in Labels : pc' = [pc EXCEPT ![t] = l]
    BY <1>8 DEF Labels, EngagedLabels, Goto, Validate, Create, CreateThrows, Stamp, Execute,
                ReleaseAndDelete
  <2>3. Engaged' \subseteq Engaged
    BY <2>2, EngagedMoves
  <2> QED
    BY <2>1, <2>3, BoundFramed
<1>9. ASSUME NEW t \in Threads,
             \/ QueryBegin(t) \/ Block(t) \/ Timeout(t) \/ Retry(t) \/ ReturnToCaller(t)
             \/ ReturnToSetSchema(t) \/ VisitNext(t) \/ VisitCall(t) \/ VisitRaces(t)
      PROVE  PoolBounded'
  <2>1. pool' = pool /\ left' = left
    BY <1>9 DEF QueryBegin, Block, Timeout, Retry, ReturnToCaller, ReturnToSetSchema,
                VisitNext, VisitCall, VisitRaces
  <2>2. \E l \in Labels \ EngagedLabels : pc' = [pc EXCEPT ![t] = l]
    BY <1>9 DEF Labels, EngagedLabels, Goto, QueryBegin, Block, Timeout, Retry, ReturnToCaller,
                ReturnToSetSchema, VisitNext, VisitCall, VisitRaces
  <2>3. Engaged' \subseteq Engaged
    BY <2>2, EngagedMoves
  <2> QED
    BY <2>1, <2>3, BoundFramed
<1>10. CASE Destroy
  <2>1. Len(pool') = 0 /\ left' = left /\ Engaged' = Engaged
    BY <1>10, Emptied DEF Destroy, Engaged
  <2> QED
    BY <2>1, Numbers, MostIsEnough, BoundedByMost, BoundedByMostNext
<1>11. CASE ServerDrops \/ UNCHANGED vars
  <2>1. pool' = pool /\ left' = left /\ pc' = pc
    BY <1>11 DEF ServerDrops, vars
  <2> QED
    BY <2>1, BoundFramed DEF Engaged
<1> QED
  BY <1>1, <1>2, <1>3, <1>4, <1>5, <1>6, <1>7, <1>8, <1>9, <1>10, <1>11
     DEF Next, Running, Stopped, ThreadStep

\* The first pool has at most its configured size, or one connection, and nobody
\* is engaged.
LEMMA BoundInit ==
    ASSUME Init
    PROVE  PoolBounded /\ LoopsUsedUp
<1> DEFINE n == OpenedAtStartup(faults)
<1>1. PoolSize \in Nat /\ n \in Nat /\ (n <= PoolSize \/ n = 1)
  BY OpenedFew, FaultsAtStartup, PoolAssumption
<1>2. PICK opened \in [1..n -> Conns] :
         pool = [i \in 1..n |-> [connection |-> opened[i], generation |-> 1]]
  BY DEF Init
<1> HIDE DEF n
<1>3. Len(pool) = n
  BY <1>1, <1>2
<1>4. LoopsUsedUp /\ \A t \in Threads : left[t] = 0
  BY DEF Init, LoopsUsedUp
<1>5. Engaged = {}
  BY DEF Init, Engaged
<1>6. Cardinality(Engaged) = 0
  BY <1>5, FS_EmptySet
<1>7. ASSUME NEW t \in Threads
      PROVE  n <= PoolMost
  <2>1. Cardinality({}) + 1 <= Cardinality(Threads) /\ Cardinality(Threads) \in Nat
    BY Counting
  <2> QED
    BY <1>1, <2>1, FS_EmptySet DEF PoolMost
<1> QED
  BY <1>1, <1>3, <1>4, <1>6, <1>7, BoundedByMost

\* The deque stays below the configured size plus one connection per other thread.
THEOREM PoolStaysBounded == Spec => []PoolBounded
<1>1. PoolInv /\ PoolInv' /\ LoopsUsedUp /\ PoolBounded /\ [Next]_vars => LoopsUsedUp' /\ PoolBounded'
  BY LoopsStep, BoundStep DEF PoolInv
<1> QED
  BY <1>1, BoundInit, Invariance, PTL DEF Spec

-----------------------------------------------------------------------------
(* What the failures of the server can do.                                  *)

\* The attempt counters of a query and of those nested in it: every frame below the
\* last one is in its first attempt, since only a first attempt reconnects.
Stack(f) == f \in Seq({0, 1}) /\ Len(f) >= 1 /\ \A i \in 1..Len(f) - 1 : f[i] = 0
Top(f) == f[Len(f)]

\* How many rebuilds of the pool it took to get to these attempts.
Depth(f) == Len(f) - 1 + Top(f)

LEMMA StackTyped ==
    ASSUME NEW f, Stack(f)
    PROVE  Len(f) \in Nat /\ Len(f) >= 1 /\ Top(f) \in {0, 1} /\ Depth(f) \in Nat
<1>1. Len(f) \in Nat /\ Len(f) >= 1
  BY DEF Stack
<1>2. Top(f) \in {0, 1}
  BY <1>1 DEF Stack, Top
<1> QED
  BY <1>1, <1>2 DEF Depth

LEMMA FirstFrame == Stack(<<0>>) /\ Top(<<0>>) = 0 /\ Depth(<<0>>) = 0
BY DEF Stack, Top, Depth

\* A nested query starts.
LEMMA FramePushed ==
    ASSUME NEW f, Stack(f), Top(f) = 0
    PROVE  LET g == Append(f, 0) IN Stack(g) /\ Depth(g) = Depth(f) + 1
<1> DEFINE g == Append(f, 0)
<1>1. /\ f \in Seq({0, 1}) /\ Len(f) \in Nat
      /\ g \in Seq({0, 1}) /\ Len(g) = Len(f) + 1
      /\ \A i \in 1..Len(f) : g[i] = f[i]
      /\ g[Len(f) + 1] = 0
  BY DEF Stack
<1> HIDE DEF g
<1>2. \A i \in 1..Len(g) - 1 : g[i] = 0
  <2> SUFFICES ASSUME NEW i \in 1..Len(g) - 1
               PROVE  g[i] = 0
    OBVIOUS
  <2>1. i \in 1..Len(f) - 1 \/ i = Len(f)
    BY <1>1
  <2> QED
    BY <1>1, <2>1 DEF Stack, Top
<1> QED
  BY <1>1, <1>2 DEF Stack, Top, Depth, g

\* A nested query is over: the one around it goes on with its first attempt.
LEMMA FramePopped ==
    ASSUME NEW f, Stack(f), Len(f) > 1
    PROVE  LET g == SubSeq(f, 1, Len(f) - 1)
           IN  Stack(g) /\ Top(g) = 0 /\ Depth(g) + 1 <= Depth(f)
<1> DEFINE g == SubSeq(f, 1, Len(f) - 1)
<1>1. /\ f \in Seq({0, 1}) /\ Len(f) \in Nat
      /\ g \in Seq({0, 1}) /\ Len(g) = Len(f) - 1
      /\ \A i \in 1..Len(f) - 1 : g[i] = f[i]
  BY DEF Stack
<1> HIDE DEF g
<1>2. Top(g) = 0
  BY <1>1 DEF Stack, Top
<1>3. Stack(g)
  BY <1>1 DEF Stack
<1>4. Depth(g) + 1 <= Depth(f)
  BY <1>1, <1>2, StackTyped DEF Depth
<1> QED
  BY <1>2, <1>3, <1>4 DEF g

\* The second attempt begins.
LEMMA FrameRetried ==
    ASSUME NEW f, Stack(f), Top(f) = 0
    PROVE  LET g == [f EXCEPT ![Len(f)] = 1]
           IN  Stack(g) /\ Depth(g) = Depth(f) + 1
<1> DEFINE g == [f EXCEPT ![Len(f)] = 1]
<1>1. f \in Seq({0, 1}) /\ Len(f) \in Nat /\ Len(f) >= 1 /\ f \in [1..Len(f) -> {0, 1}]
  BY DEF Stack
<1>2. g \in [1..Len(f) -> {0, 1}]
  BY <1>1
<1>3. g \in Seq({0, 1}) /\ Len(g) = Len(f)
  BY <1>1, <1>2
<1>4. g[Len(f)] = 1 /\ \A i \in 1..Len(f) - 1 : g[i] = f[i]
  <2>1. \A n \in Nat : n >= 1 => n \in 1..n /\ \A i \in 1..(n - 1) : i \in 1..n /\ i # n
    OBVIOUS
  <2>2. Len(f) \in 1..Len(f) /\ \A i \in 1..(Len(f) - 1) : i \in 1..Len(f) /\ i # Len(f)
    BY <1>1, <2>1
  <2> QED
    BY <1>1, <2>2
<1> HIDE DEF g
<1>5. Stack(g)
  BY <1>1, <1>3, <1>4 DEF Stack
<1>6. Depth(g) = Depth(f) + 1
  BY <1>1, <1>3, <1>4 DEF Depth, Top
<1> QED
  BY <1>5, <1>6 DEF g

Rebuilding == {"reconnect", "connect", "visit", "call", "wakeall"}

\* The thread has met a failure in this attempt, or cannot avoid it any more: its
\* connection broke after the validation, its attempt ended with a lost server, or
\* it rebuilds the pool because of that.
Hit(t) ==
    \/ pc[t] \in {"stamp", "exec"} /\ conn[held[t]] # "open"
    \/ pc[t] \in {"release", "notify", "after"} /\ outcome[t] = "lost"
    \/ pc[t] \in Rebuilding

\* Each rebuild and each hit of a thread has a failure of the server of its own, and
\* a query that ends with a lost server has met two.
Told(t) ==
    /\ pc[t] = "idle" => frames[t] = <<>>
    /\ pc[t] # "idle" => /\ Stack(frames[t])
                         /\ Depth(frames[t]) <= faults
                         /\ Hit(t) => Depth(frames[t]) + 1 <= faults
    /\ pc[t] \in Rebuilding => Top(frames[t]) = 0
    /\ result[t] = "lost" => faults >= 2

FaultsTold == \A t \in Threads : Told(t)

\* A thread that does nothing itself: it may be woken, and what the others do hits it
\* only if there is one more failure.
LEMMA ToldFramed ==
    ASSUME TypeOK, TypeOK', NEW u \in Threads, Told(u),
           frames'[u] = frames[u], outcome'[u] = outcome[u], result'[u] = result[u],
           pc'[u] = pc[u] \/ (pc[u] = "waiting" /\ pc'[u] = "woken"),
           \/ /\ faults' = faults
              /\ pc[u] \in {"stamp", "exec"} => held'[u] = held[u] /\ conn'[held[u]] = conn[held[u]]
           \/ faults' = faults + 1
    PROVE  Told(u)'
<1>1. faults \in Nat /\ faults' \in Nat /\ faults' >= faults
  BY PoolAssumption DEF TypeOK
<1>2. pc[u] # "idle" => Depth(frames[u]) \in Nat
  BY StackTyped DEF Told
<1>3. pc[u] = "waiting" => ~Hit(u)'
  BY DEF Hit, Rebuilding
<1>4. Hit(u)' => Hit(u) \/ faults' = faults + 1
  BY <1>3 DEF Hit, Rebuilding
<1>5. pc'[u] \in Rebuilding => pc[u] \in Rebuilding
  BY DEF Rebuilding
<1>6. (pc'[u] = "idle" <=> pc[u] = "idle")
  OBVIOUS
<1> QED
  BY <1>1, <1>2, <1>4, <1>5, <1>6 DEF Told

\* A step of t leaves every other thread alone.
LEMMA Bystander ==
    ASSUME TypeOK, HoldsWhenUsing, Ownership,
           NEW t \in Threads, QueryBegin(t) \/ ThreadStep(t),
           NEW u \in Threads, u # t
    PROVE  /\ frames'[u] = frames[u] /\ outcome'[u] = outcome[u] /\ result'[u] = result[u]
           /\ pc'[u] = pc[u] \/ (pc[u] = "waiting" /\ pc'[u] = "woken")
           /\ held'[u] = held[u]
           /\ \/ /\ faults' = faults
                 /\ pc[u] \in {"stamp", "exec"} => conn'[held[u]] = conn[held[u]]
              \/ faults' = faults + 1
<1> USE DEF deque, lease, query, rebuild, world
<1>0. /\ pc \in [Threads -> Labels] /\ held \in [Threads -> Conns \cup {NoConn}]
      /\ frames \in [Threads -> Seq({0, 1})]
      /\ outcome \in [Threads -> Outcomes]
      /\ result \in [Threads -> Outcomes]
      /\ conn \in [Conns -> {"none", "open", "dead", "leaked"}]
  BY DEF TypeOK
<1>1. pc[u] \in {"stamp", "exec"} =>
        /\ held[u] \in Conns /\ held[u] # NoConn
        /\ conn[held[u]] # "none"
        /\ held[u] \notin PooledConns
        /\ held[t] # held[u]
  <2> SUFFICES ASSUME pc[u] \in {"stamp", "exec"}
               PROVE  /\ held[u] \in Conns /\ held[u] # NoConn
                      /\ conn[held[u]] # "none"
                      /\ held[u] \notin PooledConns
                      /\ held[t] # held[u]
    OBVIOUS
  <2>1. held[u] # NoConn /\ held[u] \in Conns
    BY <1>0 DEF HoldsWhenUsing
  <2>2. conn[held[u]] # "none" /\ held[u] \notin PooledConns
    BY <2>1 DEF Ownership, HeldAlive, Alive
  <2>3. held[t] # held[u]
    BY <2>1 DEF Ownership, HeldByOne
  <2> QED
    BY <2>1, <2>2, <2>3
<1>2. frames'[u] = frames[u]
  BY <1>0 DEF ThreadStep, QueryBegin, Pop, Block, Timeout, GiveUpWaiting, Validate, Create,
      CreateThrows, Stamp, Execute, ReleaseToPool, ReleaseAndDelete, NotifyOne, Retry,
      ReturnToCaller, ReturnToSetSchema, ReconnectBegin, ConnectOne, ConnectOneFails,
      ConnectEnd, VisitNext, VisitCall, VisitRaces, ReconnectEnd
<1>3. outcome'[u] = outcome[u]
  BY <1>0 DEF ThreadStep, QueryBegin, Pop, Block, Timeout, GiveUpWaiting, Validate, Create,
      CreateThrows, Stamp, Execute, ReleaseToPool, ReleaseAndDelete, NotifyOne, Retry,
      ReturnToCaller, ReturnToSetSchema, ReconnectBegin, ConnectOne, ConnectOneFails,
      ConnectEnd, VisitNext, VisitCall, VisitRaces, ReconnectEnd
<1>4. result'[u] = result[u]
  BY <1>0 DEF ThreadStep, QueryBegin, Pop, Block, Timeout, GiveUpWaiting, Validate, Create,
      CreateThrows, Stamp, Execute, ReleaseToPool, ReleaseAndDelete, NotifyOne, Retry,
      ReturnToCaller, ReturnToSetSchema, ReconnectBegin, ConnectOne, ConnectOneFails,
      ConnectEnd, VisitNext, VisitCall, VisitRaces, ReconnectEnd
<1>5. held'[u] = held[u]
  BY <1>0 DEF ThreadStep, QueryBegin, Pop, Block, Timeout, GiveUpWaiting, Validate, Create,
      CreateThrows, Stamp, Execute, ReleaseToPool, ReleaseAndDelete, NotifyOne, Retry,
      ReturnToCaller, ReturnToSetSchema, ReconnectBegin, ConnectOne, ConnectOneFails,
      ConnectEnd, VisitNext, VisitCall, VisitRaces, ReconnectEnd
<1>6. pc'[u] = pc[u] \/ (pc[u] = "waiting" /\ pc'[u] = "woken")
  <2>1. CASE NotifyOne(t)
    <3>1. CASE Goto(t, "after")
      BY <1>0, <3>1 DEF Goto
    <3>2. ASSUME NEW v \in InState("waiting"), pc' = [pc EXCEPT ![t] = "after", ![v] = "woken"]
          PROVE  pc'[u] = pc[u] \/ (pc[u] = "waiting" /\ pc'[u] = "woken")
      BY <1>0, <3>2 DEF InState
    <3> QED
      BY <2>1, <3>1, <3>2 DEF NotifyOne
  <2>2. CASE ConnectEnd(t)
    BY <2>2 DEF ConnectEnd
  <2>3. CASE ReconnectEnd(t)
    BY <2>3 DEF ReconnectEnd
  <2>4. CASE ~NotifyOne(t) /\ ~ConnectEnd(t) /\ ~ReconnectEnd(t)
    BY <1>0, <2>4 DEF Goto, ThreadStep, QueryBegin, Pop, Block, Timeout, GiveUpWaiting,
        Validate, Create, CreateThrows, Stamp, Execute, ReleaseToPool, ReleaseAndDelete,
        Retry, ReturnToCaller, ReturnToSetSchema, ReconnectBegin, ConnectOne,
        ConnectOneFails, VisitNext, VisitCall, VisitRaces
  <2> QED
    BY <2>1, <2>2, <2>3, <2>4
<1>7. \/ /\ faults' = faults
         /\ pc[u] \in {"stamp", "exec"} => conn'[held[u]] = conn[held[u]]
      \/ faults' = faults + 1
  <2>1. CASE CreateThrows(t) \/ ConnectOneFails(t)
    BY <2>1 DEF CreateThrows, ConnectOneFails, OpeningFails
  <2>2. CASE Validate(t) \/ ReleaseAndDelete(t)
    BY <1>0, <1>1, <2>2 DEF Validate, ReleaseAndDelete
  <2>3. CASE Create(t)
    BY <1>0, <1>1, <2>3 DEF Create
  <2>4. CASE ConnectOne(t)
    BY <1>0, <1>1, <2>4 DEF ConnectOne
  <2>5. CASE ReconnectBegin(t)
    BY <1>0, <1>1, <2>5 DEF ReconnectBegin, Closed
  <2>6. CASE faults' = faults /\ conn' = conn
    BY <2>6
  <2> QED
    BY <2>1, <2>2, <2>3, <2>4, <2>5, <2>6
       DEF ThreadStep, QueryBegin, Pop, Block, Timeout, GiveUpWaiting, Stamp, Execute,
           ReleaseToPool, NotifyOne, Retry, ReturnToCaller, ReturnToSetSchema, ConnectEnd,
           VisitNext, VisitCall, VisitRaces, ReconnectEnd
<1> QED
  BY <1>2, <1>3, <1>4, <1>5, <1>6, <1>7

\* A step of t that keeps its frames and its last result, and after which it is hit
\* only if it was before, or if there is one more failure.
LEMMA ToldKept ==
    ASSUME TypeOK, TypeOK', NEW t \in Threads, Told(t),
           frames'[t] = frames[t], result'[t] = result[t],
           pc[t] # "idle", pc'[t] # "idle",
           faults' = faults \/ faults' = faults + 1,
           Hit(t)' => Hit(t) \/ faults' = faults + 1,
           pc'[t] \in Rebuilding => Top(frames[t]) = 0
    PROVE  Told(t)'
<1>1. faults \in Nat /\ faults' \in Nat
  BY PoolAssumption DEF TypeOK
<1>2. Depth(frames[t]) \in Nat
  BY StackTyped DEF Told
<1> QED
  BY <1>1, <1>2 DEF Told

LEMMA ToldActor ==
    ASSUME TypeOK, TypeOK', NEW t \in Threads, Told(t), QueryBegin(t) \/ ThreadStep(t)
    PROVE  Told(t)'
<1> USE DEF deque, lease, query, rebuild, world
<1>0. /\ pc \in [Threads -> Labels] /\ held \in [Threads -> Conns \cup {NoConn}]
      /\ frames \in [Threads -> Seq({0, 1})]
      /\ outcome \in [Threads -> Outcomes]
      /\ result \in [Threads -> Outcomes]
      /\ conn \in [Conns -> {"none", "open", "dead", "leaked"}]
      /\ faults \in Nat /\ faults' \in Nat
  <2>1. faults \in Nat /\ faults' \in Nat
    BY PoolAssumption DEF TypeOK
  <2> QED
    BY <2>1 DEF TypeOK
<1>1. CASE QueryBegin(t)
  <2>1. /\ pc[t] = "idle" /\ pc'[t] = "get" /\ frames'[t] = <<0>>
        /\ faults' = faults /\ result'[t] = result[t]
    BY <1>0, <1>1 DEF QueryBegin, Goto
  <2>2. ~Hit(t)' /\ pc'[t] \notin Rebuilding
    BY <2>1 DEF Hit, Rebuilding
  <2> QED
    BY <1>0, <2>1, <2>2, FirstFrame DEF Told
<1>2. CASE Pop(t) \/ Block(t) \/ Timeout(t) \/ GiveUpWaiting(t)
  <2>1. /\ pc[t] # "idle" /\ pc'[t] \in {"validate", "waiting", "expired", "create"}
        /\ frames' = frames /\ faults' = faults /\ result' = result
    BY <1>0, <1>2 DEF Pop, Block, Timeout, GiveUpWaiting, Goto
  <2>2. ~Hit(t)' /\ pc'[t] \notin Rebuilding
    BY <2>1 DEF Hit, Rebuilding
  <2> QED
    BY <2>1, <2>2, ToldKept
<1>3. CASE Validate(t)
  <2>1. /\ pc[t] # "idle" /\ frames' = frames /\ faults' = faults /\ result' = result
        /\ \/ pc'[t] = "create"
           \/ pc'[t] = "exec" /\ held' = held /\ conn' = conn /\ conn[held[t]] = "open"
    BY <1>0, <1>3 DEF Validate, Goto, should_replace_connection
  <2>2. ~Hit(t)' /\ pc'[t] \notin Rebuilding /\ pc'[t] # "idle"
    BY <2>1 DEF Hit, Rebuilding
  <2> QED
    BY <2>1, <2>2, ToldKept
<1>4. CASE Create(t)
  <2>1. /\ pc[t] # "idle" /\ frames' = frames /\ faults' = faults /\ result' = result
        /\ pc'[t] = "stamp" /\ conn'[held'[t]] = "open"
    BY <1>0, <1>4 DEF Create, Goto
  <2>2. ~Hit(t)' /\ pc'[t] \notin Rebuilding /\ pc'[t] # "idle"
    BY <2>1 DEF Hit, Rebuilding
  <2> QED
    BY <2>1, <2>2, ToldKept
<1>5. CASE CreateThrows(t)
  <2>1. /\ pc[t] # "idle" /\ frames' = frames /\ faults' = faults + 1 /\ result' = result
        /\ pc'[t] = "after"
    BY <1>0, <1>5 DEF CreateThrows, OpeningFails, Goto
  <2> QED
    BY <2>1, ToldKept DEF Rebuilding
<1>6. CASE Stamp(t)
  <2>1. /\ pc[t] = "stamp" /\ frames' = frames /\ faults' = faults /\ result' = result
        /\ pc'[t] = "exec" /\ conn' = conn /\ held' = held
    BY <1>0, <1>6 DEF Stamp, Goto
  <2>2. Hit(t)' => Hit(t)
    BY <2>1 DEF Hit, Rebuilding
  <2> QED
    BY <2>1, <2>2, ToldKept DEF Rebuilding
<1>7. CASE Execute(t)
  <2>1. /\ pc[t] = "exec" /\ frames' = frames /\ faults' = faults /\ result' = result
        /\ pc'[t] = "release"
        /\ outcome'[t] = "lost" => conn[held[t]] # "open"
    BY <1>0, <1>7 DEF Execute, Goto
  <2>2. Hit(t)' => Hit(t)
    BY <2>1 DEF Hit, Rebuilding
  <2> QED
    BY <2>1, <2>2, ToldKept DEF Rebuilding
<1>8. CASE ReleaseToPool(t) \/ ReleaseAndDelete(t) \/ NotifyOne(t)
  <2>1. /\ frames' = frames /\ faults' = faults /\ result' = result /\ outcome' = outcome
        /\ pc[t] \in {"release", "notify"}
    BY <1>8 DEF ReleaseToPool, ReleaseAndDelete, NotifyOne
  <2>2. pc'[t] \in {"notify", "after"}
    <3>1. CASE ReleaseToPool(t) \/ ReleaseAndDelete(t)
      BY <1>0, <3>1 DEF ReleaseToPool, ReleaseAndDelete, Goto
    <3>2. CASE NotifyOne(t)
      <4>1. pc[t] = "notify" /\ \A u \in InState("waiting") : u # t
        BY <3>2 DEF NotifyOne, InState
      <4> QED
        BY <1>0, <3>2, <4>1 DEF NotifyOne, Goto
    <3> QED
      BY <1>8, <3>1, <3>2
  <2>3. Hit(t)' => Hit(t)
    BY <2>1, <2>2 DEF Hit, Rebuilding
  <2> QED
    BY <2>1, <2>2, <2>3, ToldKept DEF Rebuilding
<1>9. CASE Retry(t)
  <2>1. /\ pc[t] = "after" /\ frames' = frames /\ faults' = faults /\ result' = result
        /\ pc'[t] = "reconnect" /\ outcome[t] = "lost" /\ Top(frames[t]) = 0
    BY <1>0, <1>9 DEF Retry, Goto, should_retry, Attempt, Top
  <2>2. Hit(t)
    BY <2>1 DEF Hit
  <2> QED
    BY <2>1, <2>2, ToldKept
<1>10. CASE ReturnToCaller(t)
  <2>1. /\ pc[t] = "after" /\ frames'[t] = <<>> /\ faults' = faults
        /\ result'[t] = outcome[t] /\ pc'[t] = "idle" /\ Len(frames[t]) = 1
        /\ ~(outcome[t] = "lost" /\ Top(frames[t]) = 0)
    BY <1>0, <1>10 DEF ReturnToCaller, Goto, should_retry, Attempt, Top
  <2>2. Stack(frames[t])
    BY <2>1 DEF Told
  <2>3. Top(frames[t]) \in {0, 1}
    BY <2>2, StackTyped
  <2>4. outcome[t] = "lost" => Depth(frames[t]) = 1 /\ Hit(t)
    BY <2>1, <2>3 DEF Depth, Hit
  <2>5. outcome[t] = "lost" => faults >= 2
    BY <1>0, <2>1, <2>4 DEF Told
  <2> QED
    BY <2>1, <2>5 DEF Told, Rebuilding
<1>11. CASE ReturnToSetSchema(t)
  <2>1. /\ pc[t] = "after" /\ frames'[t] = SubSeq(frames[t], 1, Len(frames[t]) - 1)
        /\ faults' = faults /\ result'[t] = result[t] /\ pc'[t] = "visit" /\ Len(frames[t]) > 1
    BY <1>0, <1>11 DEF ReturnToSetSchema, Goto
  <2>2. /\ Stack(frames'[t]) /\ Top(frames'[t]) = 0
        /\ Depth(frames'[t]) + 1 <= Depth(frames[t])
    BY <2>1, FramePopped DEF Told
  <2>3. Depth(frames[t]) \in Nat /\ Depth(frames'[t]) \in Nat /\ Depth(frames[t]) <= faults
    BY <2>1, <2>2, StackTyped DEF Told
  <2>4. Depth(frames'[t]) + 1 <= faults'
    BY <1>0, <2>1, <2>2, <2>3
  <2>5. Depth(frames'[t]) <= faults'
    BY <1>0, <2>3, <2>4
  <2> QED
    BY <2>1, <2>2, <2>4, <2>5 DEF Told
<1>12. CASE ReconnectBegin(t) \/ VisitNext(t) \/ VisitCall(t) \/ VisitRaces(t)
  <2>1. /\ pc[t] \in Rebuilding /\ pc'[t] \in Rebuilding
        /\ frames' = frames /\ faults' = faults /\ result' = result
    BY <1>0, <1>12 DEF Rebuilding, ReconnectBegin, VisitNext, VisitCall, VisitRaces, Goto
  <2>2. Hit(t) /\ Top(frames[t]) = 0 /\ pc[t] # "idle" /\ pc'[t] # "idle"
    BY <2>1 DEF Hit, Told, Rebuilding
  <2> QED
    BY <2>1, <2>2, ToldKept
<1>13. CASE ConnectOne(t) \/ ConnectOneFails(t)
  <2>1. /\ pc[t] \in Rebuilding /\ pc' = pc
        /\ frames' = frames /\ result' = result
        /\ faults' = faults \/ faults' = faults + 1
    BY <1>13 DEF Rebuilding, ConnectOne, ConnectOneFails, OpeningFails
  <2>2. Hit(t) /\ Top(frames[t]) = 0 /\ pc[t] # "idle"
    BY <2>1 DEF Hit, Told, Rebuilding
  <2> QED
    BY <2>1, <2>2, ToldKept
<1>14. CASE ConnectEnd(t)
  <2>1. /\ pc[t] = "connect" /\ faults' = faults /\ result' = result
        /\ \/ pc'[t] = "wakeall" /\ frames' = frames
           \/ pc'[t] = "get" /\ frames'[t] = Append(frames[t], 0)
    BY <1>0, <1>14 DEF ConnectEnd
  <2>2. Hit(t) /\ Top(frames[t]) = 0 /\ Stack(frames[t]) /\ Depth(frames[t]) + 1 <= faults
    BY <2>1 DEF Hit, Told, Rebuilding
  <2>3. CASE pc'[t] = "wakeall" /\ frames' = frames
    BY <2>1, <2>2, <2>3, ToldKept
  <2>4. CASE pc'[t] = "get" /\ frames'[t] = Append(frames[t], 0)
    <3>1. Stack(frames'[t]) /\ Depth(frames'[t]) = Depth(frames[t]) + 1
      BY <2>2, <2>4, FramePushed
    <3>2. ~Hit(t)' /\ pc'[t] \notin Rebuilding
      BY <2>4 DEF Hit, Rebuilding
    <3> QED
      BY <2>1, <2>2, <2>4, <3>1, <3>2 DEF Told
  <2> QED
    BY <2>1, <2>3, <2>4
<1>15. CASE ReconnectEnd(t)
  <2>1. /\ pc[t] = "wakeall" /\ faults' = faults /\ result' = result
        /\ pc'[t] = "get" /\ frames'[t] = [frames[t] EXCEPT ![Len(frames[t])] = 1]
    BY <1>0, <1>15 DEF ReconnectEnd
  <2>2. Hit(t) /\ Top(frames[t]) = 0 /\ Stack(frames[t]) /\ Depth(frames[t]) + 1 <= faults
    BY <2>1 DEF Hit, Told, Rebuilding
  <2>3. Stack(frames'[t]) /\ Depth(frames'[t]) = Depth(frames[t]) + 1
    BY <2>1, <2>2, FrameRetried
  <2>4. ~Hit(t)' /\ pc'[t] \notin Rebuilding
    BY <2>1 DEF Hit, Rebuilding
  <2> QED
    BY <2>1, <2>2, <2>3, <2>4 DEF Told
<1> QED
  BY <1>1, <1>2, <1>3, <1>4, <1>5, <1>6, <1>7, <1>8, <1>9, <1>10, <1>11, <1>12, <1>13,
     <1>14, <1>15 DEF ThreadStep

LEMMA FaultsStep ==
    ASSUME TypeOK, TypeOK', HoldsWhenUsing, Ownership, FaultsTold, [Next]_vars
    PROVE  FaultsTold'
<1> SUFFICES ASSUME NEW u \in Threads
             PROVE  Told(u)'
  BY DEF FaultsTold
<1>0. Told(u)
  BY DEF FaultsTold
<1>1. ASSUME NEW t \in Threads, QueryBegin(t) \/ ThreadStep(t)
      PROVE  Told(u)'
  <2>1. CASE u = t
    BY <1>0, <1>1, <2>1, ToldActor
  <2>2. CASE u # t
    BY <1>0, <1>1, <2>2, Bystander, ToldFramed
  <2> QED
    BY <2>1, <2>2
<1>2. CASE ServerDrops
  <2>1. frames' = frames /\ outcome' = outcome /\ result' = result /\ pc' = pc /\ faults' = faults + 1
    BY <1>2 DEF ServerDrops, query
  <2> QED
    BY <1>0, <2>1, ToldFramed
<1>3. CASE Destroy
  <2>1. /\ frames' = frames /\ outcome' = outcome /\ result' = result /\ pc' = pc
        /\ faults' = faults /\ pc[u] = "idle"
    BY <1>3 DEF Destroy, query
  <2> QED
    BY <1>0, <2>1, ToldFramed
<1>4. CASE UNCHANGED vars
  BY <1>0, <1>4, ToldFramed DEF vars, query, lease, world
<1> QED
  BY <1>1, <1>2, <1>3, <1>4 DEF Next, Running, Stopped

\* Every rebuild, every hit and every query that failed has its own failures.
THEOREM FaultsCounted == Spec => []FaultsTold
<1>1. Init => FaultsTold
  BY FaultsAtStartup DEF Init, FaultsTold, Told, Rebuilding
<1>2. PoolInv /\ PoolInv' /\ FaultsTold /\ [Next]_vars => FaultsTold'
  BY FaultsStep DEF PoolInv
<1> QED
  BY <1>1, <1>2, Invariance, PTL DEF Spec

\* The nesting of set_schema's queries in one another costs one failure per level.
LEMMA NestingFollows ==
    TypeOK /\ FaultsTold => NestingBoundedByFaults
<1> SUFFICES ASSUME TypeOK, FaultsTold, NEW t \in Threads
             PROVE  Len(frames[t]) <= 1 + faults
  BY DEF NestingBoundedByFaults
<1>1. faults \in Nat /\ Told(t)
  BY PoolAssumption DEF TypeOK, FaultsTold
<1>2. CASE pc[t] = "idle"
  BY <1>1, <1>2 DEF Told
<1>3. CASE pc[t] # "idle"
  <2>1. Stack(frames[t]) /\ Depth(frames[t]) <= faults
    BY <1>1, <1>3 DEF Told
  <2>2. Len(frames[t]) \in Nat /\ Top(frames[t]) \in {0, 1}
    BY <2>1, StackTyped
  <2> QED
    BY <1>1, <2>1, <2>2 DEF Depth
<1> QED
  BY <1>2, <1>3

\* The deque and the stacks of the threads grow only with the failures of the server.
THEOREM GrowthIsBounded == Spec => []GrowthBounded
BY PoolStaysBounded, TypeCorrect, FaultsCounted, NestingFollows, PTL DEF GrowthBounded

\* Who was refused a connection, in the query it runs or in its last one, and what
\* the server broke.
TurnedAway == {t \in Threads : outcome[t] = "refused" \/ result[t] = "refused"}
Broken == {c \in Conns : conn[c] = "dead"}

\* One failure refuses one thread or breaks connections, and never both.
FirstFailureTold ==
    /\ faults = 0 => TurnedAway = {} /\ Broken = {}
    /\ faults = 1 => (\A t, u \in TurnedAway : t = u)
    /\ faults = 1 => (TurnedAway # {} => Broken = {})

\* Without a failure nobody is refused and nothing breaks; a failure does one of both.
LEMMA FailuresDoOneThing ==
    ASSUME TypeOK, [Next]_vars
    PROVE  \/ faults' = faults /\ TurnedAway' \subseteq TurnedAway /\ Broken' \subseteq Broken
           \/ faults' = faults + 1 /\ TurnedAway' \subseteq TurnedAway
           \/ /\ faults' = faults + 1 /\ Broken' \subseteq Broken
              /\ \E t \in Threads : TurnedAway' \subseteq TurnedAway \cup {t}
<1> USE DEF TurnedAway, Broken, deque, lease, query, rebuild, world
<1>0. /\ conn \in [Conns -> {"none", "open", "dead", "leaked"}]
      /\ outcome \in [Threads -> Outcomes] /\ result \in [Threads -> Outcomes]
  BY DEF TypeOK
<1>1. ASSUME NEW t \in Threads,
             \/ QueryBegin(t) \/ Pop(t) \/ Block(t) \/ Timeout(t) \/ GiveUpWaiting(t)
             \/ Stamp(t) \/ ReleaseToPool(t) \/ NotifyOne(t) \/ Retry(t)
             \/ ReturnToSetSchema(t) \/ ConnectEnd(t) \/ VisitNext(t) \/ VisitCall(t)
             \/ VisitRaces(t) \/ ReconnectEnd(t)
      PROVE  faults' = faults /\ conn' = conn /\ outcome' = outcome /\ result' = result
  BY <1>1 DEF QueryBegin, Pop, Block, Timeout, GiveUpWaiting, Stamp, ReleaseToPool,
              NotifyOne, Retry, ReturnToSetSchema, ConnectEnd, VisitNext, VisitCall,
              VisitRaces, ReconnectEnd
<1>2. ASSUME NEW t \in Threads,
             \/ Validate(t) \/ Create(t) \/ ReleaseAndDelete(t) \/ ReconnectBegin(t)
             \/ ConnectOne(t) \/ Destroy
      PROVE  faults' = faults /\ Broken' \subseteq Broken /\ TurnedAway' \subseteq TurnedAway
  <2>1. faults' = faults /\ outcome' = outcome /\ result' = result
    BY <1>2 DEF Validate, Create, ReleaseAndDelete, ReconnectBegin, ConnectOne, Destroy
  <2>2. \A c \in Conns : conn'[c] = "dead" => conn[c] = "dead"
    BY <1>0, <1>2 DEF Validate, Create, ReleaseAndDelete, ReconnectBegin, ConnectOne,
                      Destroy, Closed
  <2> QED
    BY <2>1, <2>2
<1>3. ASSUME NEW t \in Threads, Execute(t) \/ ReturnToCaller(t)
      PROVE  faults' = faults /\ Broken' \subseteq Broken /\ TurnedAway' \subseteq TurnedAway
  BY <1>0, <1>3 DEF Execute, ReturnToCaller
<1>4. ASSUME OpeningFails
      PROVE  faults' = faults + 1 /\ Broken' \subseteq Broken
  BY <1>0, <1>4 DEF OpeningFails
<1>5. ASSUME NEW t \in Threads, CreateThrows(t)
      PROVE  /\ faults' = faults + 1 /\ Broken' \subseteq Broken
             /\ TurnedAway' \subseteq TurnedAway \cup {t}
  BY <1>0, <1>4, <1>5 DEF CreateThrows
<1>6. ASSUME NEW t \in Threads, ConnectOneFails(t)
      PROVE  faults' = faults + 1 /\ TurnedAway' \subseteq TurnedAway
  BY <1>4, <1>6 DEF ConnectOneFails
<1>7. ASSUME ServerDrops
      PROVE  faults' = faults + 1 /\ TurnedAway' \subseteq TurnedAway
  BY <1>7 DEF ServerDrops
<1>8. CASE \E t \in Threads : QueryBegin(t) \/ ThreadStep(t)
  BY <1>1, <1>2, <1>3, <1>5, <1>6, <1>8 DEF ThreadStep
<1>9. CASE Destroy
  <2>1. faults' = faults /\ outcome' = outcome /\ result' = result
    BY <1>9 DEF Destroy
  <2>2. \A c \in Conns : conn'[c] = "dead" => conn[c] = "dead"
    BY <1>0, <1>9 DEF Destroy, Closed
  <2> QED
    BY <2>1, <2>2
<1>10. CASE UNCHANGED vars
  BY <1>10 DEF vars
<1> QED
  BY <1>7, <1>8, <1>9, <1>10 DEF Next, Running, Stopped

LEMMA FirstFailureStep ==
    ASSUME TypeOK, FirstFailureTold, [Next]_vars
    PROVE  FirstFailureTold'
<1>1. faults \in Nat
  BY PoolAssumption DEF TypeOK
<1>2. CASE faults' = faults /\ TurnedAway' \subseteq TurnedAway /\ Broken' \subseteq Broken
  BY <1>2 DEF FirstFailureTold
<1>3. CASE faults' = faults + 1 /\ TurnedAway' \subseteq TurnedAway
  BY <1>1, <1>3 DEF FirstFailureTold
<1>4. CASE /\ faults' = faults + 1 /\ Broken' \subseteq Broken
           /\ \E t \in Threads : TurnedAway' \subseteq TurnedAway \cup {t}
  BY <1>1, <1>4 DEF FirstFailureTold
<1> QED
  BY <1>2, <1>3, <1>4, FailuresDoOneThing

\* One failure of the server, whenever it comes, ends no query with a lost server;
\* at most it refuses one thread its new connection, and then it broke none.
THEOREM FirstFailureCosts == Spec => []OneFailureCostsOneOpening
<1>1. Init => FirstFailureTold
  <2>1. ASSUME Init
        PROVE  TurnedAway = {} /\ Broken = {}
    BY <2>1 DEF Init, TurnedAway, Broken
  <2> QED
    BY <2>1 DEF FirstFailureTold
<1>2. TypeOK /\ FirstFailureTold /\ [Next]_vars => FirstFailureTold'
  BY FirstFailureStep
<1>3. TypeOK /\ FaultsTold /\ FirstFailureTold => OneFailureCostsOneOpening
  <2> SUFFICES ASSUME TypeOK, FaultsTold, FirstFailureTold, faults <= 1
               PROVE  /\ \A t \in Threads : result[t] # "lost"
                      /\ \A t, u \in Refused : t = u
                      /\ Refused # {} => \A c \in Conns : conn[c] # "dead"
    BY DEF OneFailureCostsOneOpening
  <2>1. faults \in {0, 1}
    BY PoolAssumption DEF TypeOK
  <2>2. \A t \in Threads : result[t] # "lost"
    BY <2>1 DEF FaultsTold, Told
  <2>3. /\ \A t, u \in TurnedAway : t = u
        /\ TurnedAway # {} => Broken = {}
    BY <2>1 DEF FirstFailureTold
  <2>4. Refused \subseteq TurnedAway
    BY DEF Refused, TurnedAway
  <2> QED
    BY <2>2, <2>3, <2>4 DEF Broken
<1> QED
  BY <1>1, <1>2, <1>3, TypeCorrect, FaultsCounted, PTL DEF Spec

=============================================================================
