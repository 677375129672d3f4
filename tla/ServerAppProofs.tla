---------------------------- MODULE ServerAppProofs ----------------------------
(***************************************************************************)
(* Proofs about ServerApp for any number of worker threads, acceptors,       *)
(* sessions and requests: one accept is always on its way for each acceptor, *)
(* the handlers of a session follow each other although there is no strand,  *)
(* run() does not return before stop(), nothing runs when the last            *)
(* destructors do, and the io_context is used only as RunLoop says.          *)
(***************************************************************************)
EXTENDS ServerApp, FiniteSetTheorems, SequenceTheorems, TLAPS

-----------------------------------------------------------------------------
(* Operations.                                                              *)

\* An operation is known by its kind and by whose it is.
LEMMA OpParts ==
    /\ \A x : Accept(x)[1] = "accept" /\ Accept(x)[2] = x
    /\ \A x : Read(x)[1] = "read" /\ Read(x)[2] = x
    /\ \A x : Write(x)[1] = "write" /\ Write(x)[2] = x
    /\ \A x : Timer(x)[1] = "timer" /\ Timer(x)[2] = x
BY DEF Accept, Read, Write, Timer

LEMMA OpKinds ==
    /\ \A p \in Ports : Accept(p) \in Ops
    /\ \A s \in Sessions : Read(s) \in Ops /\ Write(s) \in Ops /\ Timer(s) \in Ops
    /\ \A o \in Ops :
         \/ o[1] = "accept" /\ o[2] \in Ports /\ o = Accept(o[2])
         \/ o[1] = "read" /\ o[2] \in Sessions /\ o = Read(o[2])
         \/ o[1] = "write" /\ o[2] \in Sessions /\ o = Write(o[2])
         \/ o[1] = "timer" /\ o[2] \in Sessions /\ o = Timer(o[2])
<1>1. ASSUME NEW o \in Ops
      PROVE  \/ \E p \in Ports : o = Accept(p)
             \/ \E s \in Sessions : o = Read(s) \/ o = Write(s) \/ o = Timer(s)
  BY DEF Ops, OpsOf
<1> QED
  BY <1>1, OpParts DEF Ops, OpsOf

LEMMA QueueStep ==
    ASSUME NEW q \in Seq(Ops), NEW o \in Ops
    PROVE  /\ Append(q, o) \in Seq(Ops)
           /\ q # <<>> => Head(q) \in Ops /\ Tail(q) \in Seq(Ops)
OBVIOUS

-----------------------------------------------------------------------------
(* Types, and which handler a thread is in at each of its steps.             *)

StepFits(t) ==
    /\ cur[t] = None <=> step[t] = "none"
    /\ cur[t] # None => at[t] = "loop"
    /\ step[t] = "again" => cur[t][1] = "accept"
    /\ step[t] \in {"process", "handle", "call"} => cur[t][1] = "read"
    /\ step[t] \in {"readon", "shutdown"} => cur[t][1] = "write"
    /\ step[t] \in {"expired", "aborted"} => cur[t][1] = "timer"

\* The program starts its threads, serves, and is destroyed when main has left.
Stages ==
    /\ main \in {"arm", "spawn"} => at[Main] = "none"
    /\ main = "arm" => \A t \in Threads : at[t] = "none"
    /\ destroyed > 0 => at[Main] = "left"
    /\ destroyed >= 3 => \A w \in Workers : at[w] # "loop"
    /\ main # "gone" => destroyed < 6

TypeInv == TypeOK /\ (\A t \in Threads : StepFits(t)) /\ Stages

LEMMA SixDestructors ==
    /\ Len(Destructors) = 6
    /\ Destructors[1] = "cache" /\ Destructors[2] = "scheduler" /\ Destructors[3] = "join"
    /\ Destructors[4] = "endpoints" /\ Destructors[5] = "mysql" /\ Destructors[6] = "context"
BY DEF Destructors

LEMMA TypeInit ==
    ASSUME ServerAssumption, Init
    PROVE  TypeInv
<1> USE DEF Init
<1>1. port \in [Sessions -> Ports]
  BY DEF ServerAssumption
<1>2. main \in {"arm", "spawn", "serve", "gone"} /\ destroyed \in 0..Len(Destructors)
  BY SixDestructors
<1>3. TypeOK
  <2>1. ready \in Seq(Ops) /\ pending \in SUBSET Ops /\ lost \in SUBSET Parts
    BY EmptySeq
  <2>2. requests \in 0..MaxRequests /\ failures \in 0..MaxFailures
    BY DEF ServerAssumption
  <2> QED
    BY <1>1, <1>2, <2>1, <2>2 DEF TypeOK
<1>4. \A t \in Threads : StepFits(t)
  BY DEF StepFits
<1>5. Stages
  BY DEF Stages, Threads
<1> QED
  BY <1>3, <1>4, <1>5 DEF TypeInv

\* What a thread in a handler works on.
LEMMA InHandler ==
    ASSUME ServerAssumption, NoneIsNoOperation, TypeInv, NEW t \in Threads, step[t] # "none"
    PROVE  /\ cur[t] \in Ops /\ cur[t] # None /\ at[t] = "loop"
           /\ cur[t][1] = "accept" => cur[t][2] \in Ports /\ cur[t] = Accept(cur[t][2])
           /\ cur[t][1] = "read" => cur[t][2] \in Sessions /\ cur[t] = Read(cur[t][2])
           /\ cur[t][1] = "write" => cur[t][2] \in Sessions /\ cur[t] = Write(cur[t][2])
           /\ cur[t][1] = "timer" => cur[t][2] \in Sessions /\ cur[t] = Timer(cur[t][2])
<1>1. cur[t] \in Ops /\ cur[t] # None /\ at[t] = "loop"
  BY DEF TypeInv, TypeOK, StepFits
<1> QED
  BY <1>1, OpKinds

\* StartRead keeps the types of what it changes.
LEMMA StartReadTypes ==
    ASSUME TypeInv, NEW s \in Sessions, StartRead(s)
    PROVE  /\ pending' \in SUBSET Ops /\ ready' \in Seq(Ops)
           /\ result' \in [Sessions -> {"data", "error"}]
<1>1. Read(s) \in Ops /\ ready \in Seq(Ops) /\ pending \in SUBSET Ops
  BY OpKinds DEF TypeInv, TypeOK
<1>2. result \in [Sessions -> {"data", "error"}]
  BY DEF TypeInv, TypeOK
<1>3. CASE sock[s] = "open"
  BY <1>1, <1>2, <1>3 DEF StartRead
<1>4. CASE sock[s] # "open"
  BY <1>1, <1>2, <1>4, QueueStep DEF StartRead
<1> QED
  BY <1>3, <1>4

LEMMA CompleteTypes ==
    ASSUME TypeInv, NEW o \in Ops, Complete(o)
    PROVE  pending' \in SUBSET Ops /\ ready' \in Seq(Ops)
BY QueueStep DEF Complete, TypeInv, TypeOK

\* The handler of t goes on to another step of it.
LEMMA GotoTypes ==
    ASSUME TypeInv, NEW t \in Threads, NEW next \in {"again", "process", "handle", "call", "readon", "shutdown", "end"},
           Goto(t, next), step[t] # "none", UNCHANGED destroyed,
           next = "again" => cur[t][1] = "accept",
           next \in {"process", "handle", "call"} => cur[t][1] = "read",
           next \in {"readon", "shutdown"} => cur[t][1] = "write"
    PROVE  /\ main' \in {"arm", "spawn", "serve", "gone"}
           /\ at' \in [Threads -> {"none", "loop", "left"}]
           /\ cur' \in [Threads -> Ops \cup {None}]
           /\ step' \in [Threads -> {"none", "begin", "expired", "aborted", "again", "process", "handle", "call",
                                     "readon", "shutdown", "end"}]
           /\ \A u \in Threads : StepFits(u)'
           /\ Stages'
<1>1. /\ step' = [step EXCEPT ![t] = next]
      /\ UNCHANGED <<main, at, cur>>
  BY DEF Goto
<1>2. \A u \in Threads : StepFits(u)'
  BY <1>1 DEF TypeInv, TypeOK, StepFits
<1> QED
  BY <1>1, <1>2 DEF TypeInv, TypeOK, Stages

LEMMA HandlerTypes ==
    ASSUME ServerAssumption, NoneIsNoOperation, TypeInv, NEW t \in Threads, Handler(t)
    PROVE  TypeInv'
<1> USE DEF threads, loop, session, clients, ending
<1> DEFINE Keeps == /\ main' \in {"arm", "spawn", "serve", "gone"}
                    /\ at' \in [Threads -> {"none", "loop", "left"}]
                    /\ cur' \in [Threads -> Ops \cup {None}]
                    /\ step' \in [Threads -> {"none", "begin", "expired", "aborted", "again", "process",
                                             "handle", "call", "readon", "shutdown", "end"}]
                    /\ \A u \in Threads : StepFits(u)'
                    /\ Stages'
<1>1. CASE AcceptHandler(t)
  <2> DEFINE p == cur[t][2]
             s == accepted[p]
  <2>1. p \in Ports /\ s \in Sessions \cup {None} /\ cur[t][1] = "accept" /\ step[t] # "none"
    BY <1>1, InHandler DEF AcceptHandler, Begin, TypeInv, TypeOK
  <2>2. Keeps
    BY <1>1, <2>1, GotoTypes DEF AcceptHandler
  <2>3. /\ pending' \in SUBSET Ops /\ ready' \in Seq(Ops)
        /\ result' \in [Sessions -> {"data", "error"}]
        /\ accepted' \in [Ports -> Sessions \cup {None}]
    <3>1. CASE s = None
      BY <1>1, <3>1 DEF AcceptHandler, TypeInv, TypeOK
    <3>2. CASE s # None
      <4>1. StartRead(s) /\ accepted' = [accepted EXCEPT ![p] = None]
        BY <1>1, <3>2 DEF AcceptHandler
      <4> QED
        BY <2>1, <3>2, <4>1, StartReadTypes DEF TypeInv, TypeOK
    <3> QED
      BY <3>1, <3>2
  <2> HIDE DEF Keeps
  <2> QED
    BY <1>1, <2>2, <2>3 DEF AcceptHandler, TypeInv, TypeOK, Keeps
<1>2. CASE AcceptAgain(t)
  <2>1. cur[t] \in Ops /\ step[t] # "none"
    BY <1>2, InHandler DEF AcceptAgain
  <2>2. Keeps
    BY <1>2, <2>1, GotoTypes DEF AcceptAgain
  <2> HIDE DEF Keeps
  <2> QED
    BY <1>2, <2>1, <2>2 DEF AcceptAgain, TypeInv, TypeOK, Keeps
<1>3. CASE ReadHandler(t)
  <2> DEFINE s == cur[t][2]
  <2>1. s \in Sessions /\ cur[t][1] = "read" /\ step[t] # "none"
    BY <1>3, InHandler DEF ReadHandler, Begin
  <2>2. Goto(t, "end") \/ Goto(t, "process")
    BY <1>3 DEF ReadHandler
  <2>3. Keeps
    BY <1>3, <2>1, <2>2, GotoTypes DEF ReadHandler
  <2>4. /\ pending' \in SUBSET Ops /\ ready' \in Seq(Ops)
        /\ timer' \in [Sessions -> {"expired", "aborted"}]
    <3>1. CASE UNCHANGED <<pending, ready, timer>>
      BY <3>1 DEF TypeInv, TypeOK
    <3>2. CASE Complete(Timer(s)) /\ timer' = [timer EXCEPT ![s] = "aborted"]
      BY <2>1, <3>2, CompleteTypes, OpKinds DEF TypeInv, TypeOK
    <3> QED
      BY <1>3, <3>1, <3>2 DEF ReadHandler
  <2> HIDE DEF Keeps
  <2> QED
    BY <1>3, <2>3, <2>4 DEF ReadHandler, TypeInv, TypeOK, Keeps
<1>4. CASE FindEndpoint(t)
  <2>1. step[t] # "none" /\ cur[t][1] = "read"
    BY <1>4 DEF FindEndpoint, TypeInv, StepFits
  <2>2. Keeps
    BY <1>4, <2>1, GotoTypes DEF FindEndpoint
  <2>3. lost' \in SUBSET Parts
    BY <1>4 DEF FindEndpoint, Use, Parts, TypeInv, TypeOK
  <2> HIDE DEF Keeps
  <2> QED
    BY <1>4, <2>2, <2>3 DEF FindEndpoint, TypeInv, TypeOK, Keeps
<1>5. CASE UseApp(t)
  <2>1. lost' \in SUBSET Parts
    BY <1>5 DEF UseApp, Use, Parts, TypeInv, TypeOK
  <2> QED
    BY <1>5, <2>1 DEF UseApp, TypeInv, TypeOK, StepFits, Stages
<1>6. CASE Call(t)
  <2>1. step[t] # "none" /\ cur[t][1] = "read"
    BY <1>6 DEF Call, TypeInv, StepFits
  <2>2. Keeps
    BY <1>6, <2>1, GotoTypes DEF Call
  <2> HIDE DEF Keeps
  <2> QED
    BY <1>6, <2>2 DEF Call, TypeInv, TypeOK, Keeps
<1>7. CASE Respond(t)
  <2>1. step[t] # "none" /\ cur[t][1] = "read" /\ cur[t][2] \in Sessions
    BY <1>7, InHandler DEF Respond, TypeInv, StepFits
  <2>2. Keeps
    BY <1>7, <2>1, GotoTypes DEF Respond
  <2>3. pending' \in SUBSET Ops /\ keep' \in [Sessions -> BOOLEAN]
    BY <1>7, <2>1, OpKinds DEF Respond, TypeInv, TypeOK
  <2> HIDE DEF Keeps
  <2> QED
    BY <1>7, <2>2, <2>3 DEF Respond, TypeInv, TypeOK, Keeps
<1>8. CASE WriteHandler(t)
  <2> DEFINE s == cur[t][2]
  <2>1. step[t] # "none" /\ cur[t][1] = "write" /\ s \in Sessions
    BY <1>8, InHandler DEF WriteHandler, Begin
  <2>2. Goto(t, "readon") \/ Goto(t, "shutdown") \/ Goto(t, "end")
    BY <1>8 DEF WriteHandler
  <2>3. Keeps
    BY <1>8, <2>1, <2>2, GotoTypes DEF WriteHandler
  <2>4. pending' \in SUBSET Ops
    BY <1>8, <2>1, OpKinds DEF WriteHandler, TypeInv, TypeOK
  <2> HIDE DEF Keeps
  <2> QED
    BY <1>8, <2>3, <2>4 DEF WriteHandler, TypeInv, TypeOK, Keeps
<1>9. CASE ReadOn(t)
  <2>1. step[t] # "none" /\ cur[t][1] = "write" /\ cur[t][2] \in Sessions
    BY <1>9, InHandler DEF ReadOn, TypeInv, StepFits
  <2>2. Keeps
    BY <1>9, <2>1, GotoTypes DEF ReadOn
  <2>3. /\ pending' \in SUBSET Ops /\ ready' \in Seq(Ops)
        /\ result' \in [Sessions -> {"data", "error"}]
    BY <1>9, <2>1, StartReadTypes DEF ReadOn
  <2> HIDE DEF Keeps
  <2> QED
    BY <1>9, <2>2, <2>3 DEF ReadOn, TypeInv, TypeOK, Keeps
<1>10. CASE TlsShutdown(t)
  <2>1. Keeps
    BY <1>10, GotoTypes DEF TlsShutdown
  <2> HIDE DEF Keeps
  <2> QED
    BY <1>10, <2>1 DEF TlsShutdown, TypeInv, TypeOK, Keeps
<1>11. CASE TimerHandler(t)
  <2> DEFINE s == cur[t][2]
  <2>1. step[t] # "none" /\ s \in Sessions
    BY <1>11, InHandler DEF TimerHandler, TypeInv, StepFits
  <2>2. Keeps
    BY <1>11, <2>1, GotoTypes DEF TimerHandler
  <2>3. /\ pending' \in SUBSET Ops /\ ready' \in Seq(Ops)
        /\ result' \in [Sessions -> {"data", "error"}]
        /\ sock' \in [Sessions -> {"none", "backlog", "open", "closed"}]
    <3>1. CASE UNCHANGED <<pending, ready, result>>
      BY <1>11, <2>1, <3>1 DEF TimerHandler, TypeInv, TypeOK
    <3>2. CASE Complete(Read(s)) /\ result' = [result EXCEPT ![s] = "error"]
      BY <1>11, <2>1, <3>2, CompleteTypes, OpKinds DEF TimerHandler, TypeInv, TypeOK
    <3> QED
      BY <1>11, <3>1, <3>2 DEF TimerHandler
  <2> HIDE DEF Keeps
  <2> QED
    BY <1>11, <2>2, <2>3 DEF TimerHandler, TypeInv, TypeOK, Keeps
<1>12. CASE End(t)
  BY <1>12 DEF End, TypeInv, TypeOK, StepFits, Stages
<1> QED
  BY <1>1, <1>2, <1>3, <1>4, <1>5, <1>6, <1>7, <1>8, <1>9, <1>10, <1>11, <1>12 DEF Handler

LEMMA TypeStep ==
    ASSUME ServerAssumption, NoneIsNoOperation, TypeInv, [Next]_vars
    PROVE  TypeInv'
<1> USE DEF threads, loop, session, clients, ending
<1>1. CASE ArmAccept
  BY <1>1, OpKinds DEF ArmAccept, TypeInv, TypeOK, StepFits, Stages
<1>2. CASE Armed
  BY <1>2 DEF Armed, TypeInv, TypeOK, StepFits, Stages
<1>3. CASE Spawn
  BY <1>3 DEF Spawn, TypeInv, TypeOK, StepFits, Stages, Threads, ServerAssumption
<1>4. CASE Serve
  BY <1>4 DEF Serve, TypeInv, TypeOK, StepFits, Stages, Threads, ServerAssumption
<1>5. CASE Stop
  BY <1>5 DEF Stop, TypeInv, TypeOK, StepFits, Stages
<1>6. CASE Destroy
  <2>1. destroyed \in 0..5 /\ destroyed' = destroyed + 1
    BY <1>6, SixDestructors DEF Destroy, TypeInv, TypeOK, Stages
  <2>2. TypeOK'
    BY <1>6, <2>1, SixDestructors DEF Destroy, TypeInv, TypeOK
  <2>3. Stages'
    <3>1. destroyed' >= 3 => \A w \in Workers : at[w] # "loop"
      BY <1>6, <2>1, SixDestructors DEF Destroy, TypeInv, Stages
    <3>2. main' # "gone" => destroyed' < 6
      BY <1>6, <2>1, SixDestructors DEF Destroy
    <3>3. main' \notin {"arm", "spawn"}
      BY <1>6 DEF Destroy, TypeInv, Stages
    <3> QED
      BY <1>6, <3>1, <3>2, <3>3 DEF Destroy, Stages
  <2>4. \A t \in Threads : StepFits(t)'
    BY <1>6 DEF Destroy, TypeInv, StepFits
  <2> QED
    BY <2>2, <2>3, <2>4 DEF TypeInv
<1>7. ASSUME NEW s \in Sessions, NEW p \in Ports, Connect(s, p)
      PROVE  TypeInv'
  BY <1>7 DEF Connect, TypeInv, TypeOK, StepFits, Stages
<1>8. ASSUME NEW p \in Ports, AcceptCompletes(p)
      PROVE  TypeInv'
  <2>1. pending' \in SUBSET Ops /\ ready' \in Seq(Ops)
    BY <1>8, CompleteTypes, OpKinds DEF AcceptCompletes
  <2>2. /\ accepted' \in [Ports -> Sessions \cup {None}]
        /\ sock' \in [Sessions -> {"none", "backlog", "open", "closed"}]
        /\ failures' \in 0..MaxFailures
    BY <1>8 DEF AcceptCompletes, TypeInv, TypeOK, ServerAssumption
  <2> QED
    BY <1>8, <2>1, <2>2 DEF AcceptCompletes, TypeInv, TypeOK, StepFits, Stages
<1>9. ASSUME NEW s \in Sessions, ReadCompletes(s)
      PROVE  TypeInv'
  <2>1. pending' \in SUBSET Ops /\ ready' \in Seq(Ops)
    BY <1>9, CompleteTypes, OpKinds DEF ReadCompletes
  <2>2. result' \in [Sessions -> {"data", "error"}] /\ requests' \in 0..MaxRequests
    BY <1>9 DEF ReadCompletes, TypeInv, TypeOK, ServerAssumption
  <2> QED
    BY <1>9, <2>1, <2>2 DEF ReadCompletes, TypeInv, TypeOK, StepFits, Stages
<1>10. ASSUME NEW s \in Sessions, WriteCompletes(s)
       PROVE  TypeInv'
  <2>1. pending' \in SUBSET Ops /\ ready' \in Seq(Ops)
    BY <1>10, CompleteTypes, OpKinds DEF WriteCompletes
  <2> QED
    BY <1>10, <2>1 DEF WriteCompletes, TypeInv, TypeOK, StepFits, Stages
<1>11. ASSUME NEW s \in Sessions, TimerExpires(s)
       PROVE  TypeInv'
  <2>1. pending' \in SUBSET Ops /\ ready' \in Seq(Ops)
    BY <1>11, CompleteTypes, OpKinds DEF TimerExpires
  <2>2. timer' \in [Sessions -> {"expired", "aborted"}]
    BY <1>11 DEF TimerExpires, TypeInv, TypeOK
  <2> QED
    BY <1>11, <2>1, <2>2 DEF TimerExpires, TypeInv, TypeOK, StepFits, Stages
<1>12. ASSUME NEW t \in Threads, Take(t)
       PROVE  TypeInv'
  <2> DEFINE o == Head(ready)
             first == IF o[1] = "timer" THEN timer[o[2]] ELSE "begin"
  <2>1. o \in Ops /\ ready' \in Seq(Ops)
    BY <1>12, QueueStep DEF Take, TypeInv, TypeOK
  <2>2. /\ first \in {"begin", "expired", "aborted"}
        /\ first \in {"expired", "aborted"} => o[1] = "timer"
    BY <2>1, OpKinds DEF TypeInv, TypeOK
  <2>3. /\ cur' = [cur EXCEPT ![t] = o]
        /\ step' = [step EXCEPT ![t] = first]
        /\ at[t] = "loop"
        /\ UNCHANGED <<main, at, pending, stopped, session, ending>>
    BY <1>12 DEF Take
  <2>4. o # None
    BY <2>1, NoneIsNoOperation
  <2> HIDE DEF o, first
  <2>5. \A u \in Threads : StepFits(u)'
    BY <2>1, <2>2, <2>3, <2>4 DEF TypeInv, TypeOK, StepFits
  <2>6. TypeOK'
    BY <2>1, <2>2, <2>3 DEF TypeInv, TypeOK
  <2> QED
    BY <2>3, <2>5, <2>6 DEF TypeInv, Stages
<1>13. ASSUME NEW t \in Threads, Handler(t)
       PROVE  TypeInv'
  BY <1>13, HandlerTypes
<1>14. ASSUME NEW t \in Threads, Leave(t)
       PROVE  TypeInv'
  <2>1. /\ at[t] = "loop" /\ cur[t] = None
        /\ at' = [at EXCEPT ![t] = "left"]
        /\ stopped' = TRUE
        /\ UNCHANGED <<main, cur, step, pending, ready, session, ending>>
    BY <1>14 DEF Leave
  <2>2. TypeOK'
    BY <2>1 DEF TypeInv, TypeOK
  <2>3. \A u \in Threads : StepFits(u)'
    BY <2>1 DEF TypeInv, TypeOK, StepFits
  <2>4. Stages'
    BY <2>1 DEF TypeInv, TypeOK, Stages, Threads
  <2> QED
    BY <2>2, <2>3, <2>4 DEF TypeInv
<1>15. CASE UNCHANGED vars
  BY <1>15 DEF vars, TypeInv, TypeOK, StepFits, Stages
<1> QED
  BY <1>1, <1>2, <1>3, <1>4, <1>5, <1>6, <1>7, <1>8, <1>9, <1>10, <1>11, <1>12, <1>13, <1>14, <1>15
     DEF Next

-----------------------------------------------------------------------------
(* Where the operations of a set C are: started, completed, or in a handler   *)
(* that has not started the next one yet.                                    *)

InPending(C) == {o \in C : o \in pending}
InReady(C) == {i \in 1..Len(ready) : ready[i] \in C}
InHand(C) == {t \in Threads : cur[t] \in C /\ step[t] # "end"}
Places(C) == <<InPending(C), InReady(C), InHand(C)>>

Single(S) == \A x, y \in S : x = y

AtMostOne(C) ==
    /\ Single(InPending(C)) /\ Single(InReady(C)) /\ Single(InHand(C))
    /\ InPending(C) = {} \/ InReady(C) = {}
    /\ InPending(C) = {} \/ InHand(C) = {}
    /\ InReady(C) = {} \/ InHand(C) = {}

AtLeastOne(C) == InPending(C) # {} \/ InReady(C) # {} \/ InHand(C) # {}

\* The places after a completed operation was queued, or taken.
LEMMA ReadyAfterAppend ==
    ASSUME NEW C, ready \in Seq(Ops), NEW o \in Ops, ready' = Append(ready, o)
    PROVE  /\ InReady(C)' = IF o \in C THEN InReady(C) \cup {Len(ready) + 1} ELSE InReady(C)
           /\ Len(ready) + 1 \notin InReady(C)
<1>1. /\ Len(ready) \in Nat /\ Len(ready') = Len(ready) + 1
      /\ \A i \in 1..Len(ready) : ready'[i] = ready[i]
      /\ ready'[Len(ready) + 1] = o
  OBVIOUS
<1> QED
  BY <1>1 DEF InReady

LEMMA ReadyAfterTail ==
    ASSUME NEW C, ready \in Seq(Ops), ready # <<>>, ready' = Tail(ready)
    PROVE  /\ \A i : i \in InReady(C)' <=> i + 1 \in InReady(C) /\ i \in Nat \ {0}
           /\ 1 \in InReady(C) <=> Head(ready) \in C
           /\ \A i \in InReady(C) : i \in Nat \ {0}
<1>1. /\ Len(ready) \in Nat \ {0} /\ Len(ready') = Len(ready) - 1
      /\ \A i \in 1..Len(ready') : ready'[i] = ready[i + 1]
      /\ Head(ready) = ready[1]
  OBVIOUS
<1> QED
  BY <1>1 DEF InReady

\* An operation completes.
LEMMA Completes ==
    ASSUME TypeInv, NEW C, NEW o \in Ops, Complete(o), AtMostOne(C), InHand(C)' = InHand(C)
    PROVE  /\ AtMostOne(C)' /\ (AtLeastOne(C) => AtLeastOne(C)')
           /\ ~AtLeastOne(C) => ~AtLeastOne(C)'
<1>1. /\ o \in pending /\ pending' = pending \ {o}
      /\ ready' = Append(ready, o) /\ ready \in Seq(Ops)
  BY DEF Complete, TypeInv, TypeOK
<1>2. InReady(C)' = IF o \in C THEN InReady(C) \cup {Len(ready) + 1} ELSE InReady(C)
  BY <1>1, ReadyAfterAppend
<1>3. CASE o \in C
  <2>1. InPending(C)' = InPending(C) \ {o} /\ o \in InPending(C)
    BY <1>1, <1>3 DEF InPending
  <2> QED
    BY <1>2, <1>3, <2>1 DEF AtMostOne, AtLeastOne, Single
<1>4. CASE o \notin C
  <2>1. InPending(C)' = InPending(C)
    BY <1>1, <1>4 DEF InPending
  <2> QED
    BY <1>2, <1>4, <2>1 DEF AtMostOne, AtLeastOne, Single
<1> QED
  BY <1>3, <1>4

\* A thread takes the first completed operation.
LEMMA Taken ==
    ASSUME TypeInv, NEW C \in SUBSET Ops, NEW t \in Threads, Take(t), AtMostOne(C), NoneIsNoOperation
    PROVE  /\ AtMostOne(C)' /\ (AtLeastOne(C) => AtLeastOne(C)')
           /\ ~AtLeastOne(C) => ~AtLeastOne(C)'
<1> DEFINE o == Head(ready)
<1>1. /\ cur[t] = None /\ ready # <<>> /\ ready \in Seq(Ops)
      /\ cur' = [cur EXCEPT ![t] = o] /\ cur \in [Threads -> Ops \cup {None}]
      /\ ready' = Tail(ready)
      /\ pending' = pending
      /\ \A u \in Threads : u # t => step'[u] = step[u]
      /\ step \in [Threads -> {"none", "begin", "expired", "aborted", "again", "process", "handle", "call",
                             "readon", "shutdown", "end"}]
  BY DEF Take, TypeInv, TypeOK
<1>2. o \in Ops
  BY <1>1, QueueStep
<1>3. step'[t] # "end"
  <2>1. timer[o[2]] # "end" \/ o[1] # "timer"
    BY <1>2, OpKinds DEF TypeInv, TypeOK
  <2> QED
    BY <1>1, <2>1 DEF Take
<1>4. InHand(C)' = IF o \in C THEN InHand(C) \cup {t} ELSE InHand(C)
  BY <1>1, <1>3, NoneIsNoOperation DEF InHand
<1>5. InPending(C)' = InPending(C)
  BY <1>1 DEF InPending
<1>6. /\ \A i : i \in InReady(C)' <=> i + 1 \in InReady(C) /\ i \in Nat \ {0}
      /\ 1 \in InReady(C) <=> o \in C
      /\ \A i \in InReady(C) : i \in Nat \ {0}
  BY <1>1, ReadyAfterTail
<1> HIDE DEF o
<1>7. Single(InReady(C))'
  BY <1>6 DEF AtMostOne, Single
<1>8. CASE o \in C
  <2>1. InReady(C)' = {}
    BY <1>6, <1>8 DEF AtMostOne, Single
  <2> QED
    BY <1>4, <1>5, <1>6, <1>8, <2>1 DEF AtMostOne, AtLeastOne, Single
<1>9. CASE o \notin C
  <2>1. InReady(C) # {} => InReady(C)' # {}
    <3>1. ASSUME NEW i \in InReady(C)
          PROVE  i - 1 \in InReady(C)'
      BY <1>6, <1>9, <3>1
    <3> QED
      BY <3>1
  <2>2. InReady(C) = {} => InReady(C)' = {}
    BY <1>6
  <2> QED
    BY <1>4, <1>5, <1>7, <1>9, <2>1, <2>2 DEF AtMostOne, AtLeastOne, Single
<1> QED
  BY <1>8, <1>9

\* A handler that holds the only operation of C ends with it and starts another.
LEMMA Passed ==
    ASSUME TypeInv, NEW C, NEW t \in InHand(C), AtMostOne(C), InHand(C)' = InHand(C) \ {t},
           \/ UNCHANGED <<InPending(C), InReady(C)>>
           \/ \E o : InPending(C)' = InPending(C) \cup {o} /\ InReady(C)' = InReady(C)
           \/ \E i : InPending(C)' = InPending(C) /\ InReady(C)' = InReady(C) \cup {i}
    PROVE  AtMostOne(C)'
<1>1. InPending(C) = {} /\ InReady(C) = {} /\ InHand(C)' = {}
  BY DEF AtMostOne, Single
<1> QED
  BY <1>1 DEF AtMostOne, Single

\* What starts a read: one more place among the session's.
LEMMA ReadStarts ==
    ASSUME TypeInv, NEW s \in Sessions, NEW C, StartRead(s)
    PROVE  IF Read(s) \in C
             THEN \/ InPending(C)' = InPending(C) \cup {Read(s)} /\ InReady(C)' = InReady(C)
                  \/ InPending(C)' = InPending(C) /\ InReady(C)' = InReady(C) \cup {Len(ready) + 1}
             ELSE UNCHANGED <<InPending(C), InReady(C)>>
<1>1. CASE sock[s] = "open"
  BY <1>1 DEF StartRead, InPending, InReady
<1>2. CASE sock[s] # "open"
  <2>1. ready' = Append(ready, Read(s)) /\ pending' = pending
    BY <1>2 DEF StartRead
  <2>2. Read(s) \in Ops /\ ready \in Seq(Ops)
    BY OpKinds DEF TypeInv, TypeOK
  <2> QED
    BY <2>1, <2>2, ReadyAfterAppend DEF InPending
<1> QED
  BY <1>1, <1>2

\* A step that leaves the places of C alone.
LEMMA Untouched ==
    ASSUME NEW C, UNCHANGED Places(C)
    PROVE  /\ AtMostOne(C) => AtMostOne(C)'
           /\ AtLeastOne(C) => AtLeastOne(C)'
           /\ ~AtLeastOne(C) => ~AtLeastOne(C)'
BY DEF Places, AtMostOne, AtLeastOne, Single

-----------------------------------------------------------------------------
(* One accept of each acceptor, one read or write of each session.           *)

Chain(s) == {Read(s), Write(s)}
Arm(p) == {Accept(p)}

Fresh == {s \in Sessions : sock[s] \in {"none", "backlog"}}

\* A session that was accepted but not started has no operation, and only the
\* acceptor that accepted it knows of it.
TokenInv ==
    /\ \A p \in Ports : AtMostOne(Arm(p)) /\ (main # "arm" => AtLeastOne(Arm(p)))
    /\ \A s \in Sessions : AtMostOne(Chain(s))
    /\ \A s \in Fresh : ~AtLeastOne(Chain(s)) /\ \A p \in Ports : accepted[p] # s
    /\ \A p \in Ports : accepted[p] # None =>
         /\ ~AtLeastOne(Chain(accepted[p]))
         /\ \A q \in Ports : accepted[q] = accepted[p] => q = p

LEMMA SetsOfOps ==
    /\ \A p \in Ports : Arm(p) \in SUBSET Ops
    /\ \A s \in Sessions : Chain(s) \in SUBSET Ops
    /\ \A p, q \in Ports : Accept(q) \in Arm(p) <=> p = q
    /\ \A p \in Ports, s \in Sessions :
         Read(s) \notin Arm(p) /\ Write(s) \notin Arm(p) /\ Timer(s) \notin Arm(p)
    /\ \A s, r \in Sessions :
         /\ Read(r) \in Chain(s) <=> r = s
         /\ Write(r) \in Chain(s) <=> r = s
         /\ Timer(r) \notin Chain(s)
    /\ \A s \in Sessions, p \in Ports : Accept(p) \notin Chain(s)
BY OpKinds, OpParts DEF Arm, Chain

LEMMA TokenInit ==
    ASSUME ServerAssumption, NoneIsNoOperation, Init
    PROVE  TokenInv
<1>1. ASSUME NEW C \in SUBSET Ops
      PROVE  AtMostOne(C) /\ ~AtLeastOne(C)
  <2>1. InPending(C) = {} /\ InReady(C) = {} /\ InHand(C) = {}
    BY NoneIsNoOperation DEF Init, InPending, InReady, InHand
  <2> QED
    BY <2>1 DEF AtMostOne, AtLeastOne, Single
<1>2. /\ \A s \in Sessions : \A p \in Ports : accepted[p] # s
      /\ \A p \in Ports : accepted[p] = None
      /\ main = "arm"
  BY DEF Init, ServerAssumption
<1> QED
  BY <1>1, <1>2, SetsOfOps DEF TokenInv, Fresh

\* Most steps neither accept nor start a session.
LEMMA TokensKept ==
    ASSUME TokenInv, UNCHANGED accepted, Fresh' \subseteq Fresh, main' = "arm" <=> main = "arm",
           \A p \in Ports : AtMostOne(Arm(p))' /\ (AtLeastOne(Arm(p)) => AtLeastOne(Arm(p))'),
           \A s \in Sessions : AtMostOne(Chain(s))' /\ (~AtLeastOne(Chain(s)) => ~AtLeastOne(Chain(s))'),
           TypeInv
    PROVE  TokenInv'
<1>1. \A p \in Ports : accepted[p] \in Sessions \cup {None}
  BY DEF TypeInv, TypeOK
<1>2. \A s \in Fresh' : s \in Fresh /\ s \in Sessions
  BY DEF Fresh
<1>3. \A s \in Fresh' : ~AtLeastOne(Chain(s))' /\ \A p \in Ports : accepted'[p] # s
  BY <1>2 DEF TokenInv
<1>4. ASSUME NEW p \in Ports, accepted[p] # None
      PROVE  /\ (~AtLeastOne(Chain(accepted[p])))'
             /\ \A q \in Ports : accepted'[q] = accepted'[p] => q = p
  <2> DEFINE s == accepted[p]
  <2>1. s \in Sessions /\ s' = s
    BY <1>1, <1>4
  <2>2. ~AtLeastOne(Chain(s))
    BY <1>4 DEF TokenInv
  <2>3. PICK r \in Sessions : r = s
    BY <2>1
  <2>4. ~AtLeastOne(Chain(r))'
    BY <2>2, <2>3
  <2>5. (~AtLeastOne(Chain(s)))'
    BY <2>1, <2>3, <2>4
  <2> QED
    BY <1>4, <2>5 DEF TokenInv
<1> QED
  BY <1>3, <1>4 DEF TokenInv

\* The same when no operation is started, completed or passed on.
LEMMA NoTokenMoves ==
    ASSUME TypeInv, TokenInv, UNCHANGED <<pending, ready, cur, step, accepted>>,
           Fresh' \subseteq Fresh, main' = "arm" <=> main = "arm"
    PROVE  TokenInv'
<1>1. ASSUME NEW C
      PROVE  UNCHANGED Places(C)
  BY DEF Places, InPending, InReady, InHand
<1>2. \A p \in Ports : AtMostOne(Arm(p))' /\ (AtLeastOne(Arm(p)) => AtLeastOne(Arm(p))')
  BY <1>1, Untouched DEF TokenInv
<1>3. \A s \in Sessions : AtMostOne(Chain(s))' /\ (~AtLeastOne(Chain(s)) => ~AtLeastOne(Chain(s))')
  BY <1>1, Untouched DEF TokenInv
<1> QED
  BY <1>2, <1>3, TokensKept

\* The same when an operation completes.
LEMMA CompletionMoves ==
    ASSUME TypeInv, TokenInv, NEW o \in Ops, Complete(o),
           \A C \in SUBSET Ops : InHand(C)' = InHand(C),
           UNCHANGED <<accepted, main>>, Fresh' \subseteq Fresh
    PROVE  TokenInv'
<1>1. \A p \in Ports : AtMostOne(Arm(p))' /\ (AtLeastOne(Arm(p)) => AtLeastOne(Arm(p))')
  BY Completes, SetsOfOps DEF TokenInv
<1>2. \A s \in Sessions : AtMostOne(Chain(s))' /\ (~AtLeastOne(Chain(s)) => ~AtLeastOne(Chain(s))')
  BY Completes, SetsOfOps DEF TokenInv
<1> QED
  BY <1>1, <1>2, TokensKept

\* A handler goes on to its next step, and gives its operation away at its end.
LEMMA HandMoves ==
    ASSUME TypeInv, NEW C, NEW t \in Threads, NEW next, Goto(t, next), step[t] # "end"
    PROVE  /\ InHand(C)' = IF next = "end" THEN InHand(C) \ {t} ELSE InHand(C)
           /\ t \in InHand(C) <=> cur[t] \in C
<1>1. step' = [step EXCEPT ![t] = next] /\ cur' = cur /\ t \in DOMAIN step
  BY DEF Goto, TypeInv, TypeOK
<1> QED
  BY <1>1 DEF InHand

\* An acceptor is armed before there is any thread.
LEMMA ArmAcceptTokens ==
    ASSUME ServerAssumption, NoneIsNoOperation, TypeInv, TokenInv, ArmAccept
    PROVE  TokenInv'
<1>1. PICK p \in Ports : ~Outstanding(Accept(p)) /\ pending' = pending \cup {Accept(p)}
  BY DEF ArmAccept
<1>2. UNCHANGED <<threads, ready, accepted, sock>>
  BY DEF ArmAccept, session, clients
<1>3. ASSUME NEW C
      PROVE  /\ InReady(C)' = InReady(C) /\ InHand(C)' = InHand(C)
             /\ InPending(C)' = IF Accept(p) \in C THEN InPending(C) \cup {Accept(p)} ELSE InPending(C)
  BY <1>1, <1>2 DEF InReady, InHand, InPending, threads
<1>4. ~AtLeastOne(Arm(p))
  BY <1>1 DEF Outstanding, AtLeastOne, InPending, InReady, InHand, Arm, ToSet
<1>5. AtMostOne(Arm(p))' /\ AtLeastOne(Arm(p))'
  BY <1>3, <1>4, SetsOfOps DEF AtLeastOne, AtMostOne, Single
<1>6. ASSUME NEW q \in Ports
      PROVE  AtMostOne(Arm(q))' /\ (AtLeastOne(Arm(q)) => AtLeastOne(Arm(q))')
  <2>1. CASE q = p
    BY <1>5, <2>1
  <2>2. CASE q # p
    <3>1. UNCHANGED Places(Arm(q))
      BY <1>3, <2>2, SetsOfOps DEF Places
    <3> QED
      BY <3>1, Untouched DEF TokenInv
  <2> QED
    BY <2>1, <2>2
<1>7. ASSUME NEW s \in Sessions
      PROVE  AtMostOne(Chain(s))' /\ (~AtLeastOne(Chain(s)) => ~AtLeastOne(Chain(s))')
  <2>1. UNCHANGED Places(Chain(s))
    BY <1>3, SetsOfOps DEF Places
  <2> QED
    BY <2>1, Untouched DEF TokenInv
<1>8. Fresh' = Fresh /\ main' = main
  BY <1>2 DEF Fresh, threads
<1> QED
  BY <1>2, <1>6, <1>7, <1>8, TokensKept

\* All of them are armed when the threads are started.
LEMMA ArmedTokens ==
    ASSUME ServerAssumption, NoneIsNoOperation, TypeInv, TokenInv, Armed
    PROVE  TokenInv'
<1>1. /\ main = "arm" /\ \A p \in Ports : Outstanding(Accept(p))
      /\ UNCHANGED <<cur, step, pending, ready, accepted, sock>>
  BY DEF Armed, loop, session, clients
<1>2. \A t \in Threads : cur[t] = None
  BY <1>1 DEF TypeInv, Stages, StepFits
<1>3. ASSUME NEW p \in Ports
      PROVE  AtLeastOne(Arm(p))
  <2>1. Accept(p) \in pending \/ Accept(p) \in ToSet(ready)
    BY <1>1, <1>2, OpKinds, NoneIsNoOperation DEF Outstanding
  <2>2. Accept(p) \in ToSet(ready) => \E i \in 1..Len(ready) : ready[i] = Accept(p)
    BY DEF ToSet, TypeInv, TypeOK
  <2> QED
    BY <2>1, <2>2 DEF AtLeastOne, InPending, InReady, Arm
<1>4. ASSUME NEW C
      PROVE  UNCHANGED Places(C)
  BY <1>1 DEF Places, InPending, InReady, InHand
<1>5. \A p \in Ports : AtMostOne(Arm(p))' /\ AtLeastOne(Arm(p))'
  BY <1>3, <1>4, Untouched DEF TokenInv
<1>6. \A s \in Sessions : AtMostOne(Chain(s))' /\ (~AtLeastOne(Chain(s)) => ~AtLeastOne(Chain(s))')
  BY <1>4, Untouched DEF TokenInv
<1>7. \A s \in Fresh' : ~AtLeastOne(Chain(s))' /\ \A p \in Ports : accepted'[p] # s
  BY <1>1, <1>6 DEF TokenInv, Fresh
<1>8. ASSUME NEW p \in Ports, accepted[p] # None
      PROVE  (~AtLeastOne(Chain(accepted[p])))'
  <2>1. PICK s \in Sessions : accepted[p] = s
    BY <1>8 DEF TypeInv, TypeOK
  <2>2. ~AtLeastOne(Chain(s))'
    BY <1>6, <1>8, <2>1 DEF TokenInv
  <2> QED
    BY <1>1, <2>1, <2>2
<1> QED
  BY <1>1, <1>5, <1>6, <1>7, <1>8 DEF TokenInv

\* An accept completes: the session it gives is one that nobody knew of.
LEMMA AcceptTokens ==
    ASSUME ServerAssumption, NoneIsNoOperation, TypeInv, TokenInv, NEW p \in Ports, AcceptCompletes(p)
    PROVE  TokenInv'
<1>1. /\ Complete(Accept(p)) /\ Accept(p) \in Ops
      /\ UNCHANGED <<cur, step, main, port>>
  BY OpKinds DEF AcceptCompletes, threads
<1>2. \A C : InHand(C)' = InHand(C)
  BY <1>1 DEF InHand
<1>3. PICK s \in Sessions :
        /\ sock[s] = "backlog"
        /\ \/ accepted' = [accepted EXCEPT ![p] = s] /\ sock' = [sock EXCEPT ![s] = "open"]
           \/ UNCHANGED <<accepted, sock>>
  BY DEF AcceptCompletes
<1>4. CASE UNCHANGED <<accepted, sock>>
  BY <1>1, <1>2, <1>4, CompletionMoves DEF Fresh
<1>5. CASE accepted' = [accepted EXCEPT ![p] = s] /\ sock' = [sock EXCEPT ![s] = "open"]
  <2>1. \A q \in Ports : AtMostOne(Arm(q))' /\ (AtLeastOne(Arm(q)) => AtLeastOne(Arm(q))')
    BY <1>1, <1>2, Completes, SetsOfOps DEF TokenInv
  <2>2. \A r \in Sessions : AtMostOne(Chain(r))' /\ (~AtLeastOne(Chain(r)) => ~AtLeastOne(Chain(r))')
    BY <1>1, <1>2, Completes, SetsOfOps DEF TokenInv
  <2>3. /\ accepted \in [Ports -> Sessions \cup {None}]
        /\ sock \in [Sessions -> {"none", "backlog", "open", "closed"}]
        /\ s \in Fresh
    BY <1>3 DEF TypeInv, TypeOK, Fresh
  <2>4. Fresh' = Fresh \ {s}
    BY <1>5, <2>3 DEF Fresh
  <2>5. \A r \in Fresh' : ~AtLeastOne(Chain(r))' /\ \A q \in Ports : accepted'[q] # r
    <3>1. \A r \in Fresh' : ~AtLeastOne(Chain(r))'
      BY <2>2, <2>4 DEF TokenInv, Fresh
    <3>2. \A r \in Fresh' : \A q \in Ports : accepted'[q] # r
      BY <1>5, <2>3, <2>4 DEF TokenInv
    <3> QED
      BY <3>1, <3>2
  <2>6. \A q \in Ports : accepted[q] # s
    BY <2>3 DEF TokenInv
  <2>7. ASSUME NEW q \in Ports, accepted'[q] # None
        PROVE  /\ (~AtLeastOne(Chain(accepted[q])))'
               /\ \A x \in Ports : accepted'[x] = accepted'[q] => x = q
    <3>1. PICK r \in Sessions : accepted'[q] = r /\ (r = s \/ (q # p /\ accepted[q] = r))
      BY <1>5, <2>3, <2>7
    <3>2. ~AtLeastOne(Chain(r))
      BY <2>3, <3>1 DEF TokenInv, Fresh
    <3>3. ~AtLeastOne(Chain(r))'
      BY <2>2, <3>2
    <3>4. \A x \in Ports : accepted'[x] = accepted'[q] => x = q
      BY <1>5, <2>3, <2>6, <2>7, <3>1 DEF TokenInv
    <3> QED
      BY <3>1, <3>3, <3>4
  <2> QED
    BY <1>1, <2>1, <2>2, <2>5, <2>7 DEF TokenInv
<1> QED
  BY <1>3, <1>4, <1>5

LEMMA TakeTokens ==
    ASSUME ServerAssumption, NoneIsNoOperation, TypeInv, TokenInv, NEW t \in Threads, Take(t)
    PROVE  TokenInv'
<1>1. UNCHANGED <<main, accepted>> /\ Fresh' = Fresh
  BY DEF Take, session, clients, Fresh
<1>2. \A p \in Ports : AtMostOne(Arm(p))' /\ (AtLeastOne(Arm(p)) => AtLeastOne(Arm(p))')
  BY Taken, SetsOfOps, NoneIsNoOperation DEF TokenInv
<1>3. \A s \in Sessions : AtMostOne(Chain(s))' /\ (~AtLeastOne(Chain(s)) => ~AtLeastOne(Chain(s))')
  BY Taken, SetsOfOps, NoneIsNoOperation DEF TokenInv
<1> QED
  BY <1>1, <1>2, <1>3, TokensKept

\* The places of the accepts and of the sessions' operations stay as they are.
LEMMA TokensStay ==
    ASSUME TypeInv, TokenInv, UNCHANGED <<accepted, main>>, Fresh' \subseteq Fresh,
           \A p \in Ports : UNCHANGED Places(Arm(p)),
           \A s \in Sessions : UNCHANGED Places(Chain(s))
    PROVE  TokenInv'
<1>1. \A p \in Ports : AtMostOne(Arm(p))' /\ (AtLeastOne(Arm(p)) => AtLeastOne(Arm(p))')
  BY Untouched DEF TokenInv
<1>2. \A s \in Sessions : AtMostOne(Chain(s))' /\ (~AtLeastOne(Chain(s)) => ~AtLeastOne(Chain(s))')
  BY Untouched DEF TokenInv
<1> QED
  BY <1>1, <1>2, TokensKept

\* The handler of a session's read or write ends; it may have started the next.
LEMMA HandlerPasses ==
    ASSUME TypeInv, TokenInv, NEW t \in Threads, NEW s \in Sessions,
           cur[t] \in Chain(s), step[t] # "end", Goto(t, "end"),
           UNCHANGED <<accepted, sock>>,
           \A p \in Ports : UNCHANGED <<InPending(Arm(p)), InReady(Arm(p))>>,
           \A r \in Sessions \ {s} : UNCHANGED <<InPending(Chain(r)), InReady(Chain(r))>>,
           \/ UNCHANGED <<InPending(Chain(s)), InReady(Chain(s))>>
           \/ \E o : InPending(Chain(s))' = InPending(Chain(s)) \cup {o} /\ InReady(Chain(s))' = InReady(Chain(s))
           \/ \E i : InPending(Chain(s))' = InPending(Chain(s)) /\ InReady(Chain(s))' = InReady(Chain(s)) \cup {i}
    PROVE  TokenInv'
<1>1. \A C : /\ InHand(C)' = InHand(C) \ {t}
             /\ t \in InHand(C) <=> cur[t] \in C
  BY HandMoves
<1>2. \A p \in Ports : cur[t] \notin Arm(p)
  BY SetsOfOps DEF Chain
<1>3. \A r \in Sessions \ {s} : cur[t] \notin Chain(r)
  BY SetsOfOps DEF Chain
<1>4. \A p \in Ports : AtMostOne(Arm(p))' /\ (AtLeastOne(Arm(p)) => AtLeastOne(Arm(p))')
  <2>1. \A p \in Ports : UNCHANGED Places(Arm(p))
    BY <1>1, <1>2 DEF Places
  <2> QED
    BY <2>1, Untouched DEF TokenInv
<1>5. ASSUME NEW r \in Sessions
      PROVE  AtMostOne(Chain(r))' /\ (~AtLeastOne(Chain(r)) => ~AtLeastOne(Chain(r))')
  <2>1. CASE r = s
    <3>1. t \in InHand(Chain(s)) /\ AtMostOne(Chain(s))
      BY <1>1 DEF TokenInv
    <3>2. AtMostOne(Chain(s))'
      BY <1>1, <3>1, Passed
    <3> QED
      BY <2>1, <3>1, <3>2 DEF AtLeastOne
  <2>2. CASE r # s
    <3>1. UNCHANGED Places(Chain(r))
      BY <1>1, <1>3, <2>2 DEF Places
    <3> QED
      BY <3>1, Untouched DEF TokenInv
  <2> QED
    BY <2>1, <2>2
<1>6. Fresh' = Fresh /\ main' = main
  BY DEF Fresh, Goto
<1> QED
  BY <1>4, <1>5, <1>6, TokensKept

LEMMA AcceptHandlerTokens ==
    ASSUME ServerAssumption, NoneIsNoOperation, TypeInv, TokenInv, NEW t \in Threads, AcceptHandler(t)
    PROVE  TokenInv'
<1> DEFINE p == cur[t][2]
           s == accepted[p]
<1>1. /\ p \in Ports /\ s \in Sessions \cup {None}
      /\ Goto(t, "again") /\ step[t] = "begin"
      /\ UNCHANGED <<main, sock>>
  BY InHandler DEF AcceptHandler, Begin, TypeInv, TypeOK, Goto, clients
<1>2. \A C : InHand(C)' = InHand(C)
  BY <1>1, HandMoves
<1>3. Fresh' = Fresh
  BY <1>1 DEF Fresh
<1>4. CASE s = None
  <2>1. UNCHANGED <<pending, ready, accepted>>
    BY <1>4 DEF AcceptHandler
  <2>2. \A C : UNCHANGED Places(C)
    BY <1>2, <2>1 DEF Places, InPending, InReady
  <2> QED
    BY <1>1, <1>3, <2>1, <2>2, TokensStay
<1>5. CASE s # None
  <2>1. /\ StartRead(s) /\ s \in Sessions
        /\ accepted' = [accepted EXCEPT ![p] = None]
        /\ accepted \in [Ports -> Sessions \cup {None}]
    BY <1>1, <1>5 DEF AcceptHandler, TypeInv, TypeOK
  <2>2. PICK r \in Sessions : r = s
    BY <2>1
  <2>3. StartRead(r) /\ ~AtLeastOne(Chain(r)) /\ r \notin Fresh
    BY <1>1, <1>5, <2>1, <2>2 DEF TokenInv
  <2>4. \A q \in Ports : accepted'[q] # None => accepted'[q] = accepted[q] /\ accepted[q] # r /\ q # p
    BY <1>1, <1>5, <2>1, <2>2 DEF TokenInv
  <2> HIDE DEF p, s
  <2>5. ASSUME NEW C, Read(r) \notin C
        PROVE  UNCHANGED Places(C)
    BY <1>2, <2>3, <2>5, ReadStarts DEF Places
  <2>6. AtMostOne(Chain(r))'
    <3>1. \/ InPending(Chain(r))' = InPending(Chain(r)) \cup {Read(r)} /\ InReady(Chain(r))' = InReady(Chain(r))
          \/ InPending(Chain(r))' = InPending(Chain(r)) /\ InReady(Chain(r))' = InReady(Chain(r)) \cup {Len(ready) + 1}
      BY <2>3, ReadStarts, SetsOfOps
    <3> QED
      BY <1>2, <2>3, <3>1 DEF AtMostOne, AtLeastOne, Single
  <2>7. \A q \in Ports : AtMostOne(Arm(q))' /\ (AtLeastOne(Arm(q)) => AtLeastOne(Arm(q))')
    BY <2>5, SetsOfOps, Untouched DEF TokenInv
  <2>8. \A x \in Sessions \ {r} : AtMostOne(Chain(x))' /\ (~AtLeastOne(Chain(x)) => ~AtLeastOne(Chain(x))')
    BY <2>5, SetsOfOps, Untouched DEF TokenInv
  <2>9. \A x \in Fresh' : ~AtLeastOne(Chain(x))' /\ \A q \in Ports : accepted'[q] # x
    <3>1. \A x \in Fresh' : x \in Sessions \ {r} /\ x \in Fresh /\ x # None
      BY <1>3, <2>3 DEF Fresh, ServerAssumption
    <3> QED
      BY <2>4, <2>8, <3>1 DEF TokenInv
  <2>10. ASSUME NEW q \in Ports, accepted'[q] # None
         PROVE  /\ (~AtLeastOne(Chain(accepted[q])))'
                /\ \A x \in Ports : accepted'[x] = accepted'[q] => x = q
    <3>1. PICK x \in Sessions \ {r} : accepted'[q] = x /\ accepted[q] = x
      BY <2>1, <2>4, <2>10
    <3>2. ~AtLeastOne(Chain(x))'
      BY <2>8, <3>1 DEF TokenInv, ServerAssumption
    <3>3. \A y \in Ports : accepted'[y] = accepted'[q] => y = q
      BY <2>4, <2>10 DEF TokenInv
    <3> QED
      BY <3>1, <3>2, <3>3
  <2> QED
    BY <1>1, <2>6, <2>7, <2>8, <2>9, <2>10 DEF TokenInv
<1> QED
  BY <1>4, <1>5

LEMMA AcceptAgainTokens ==
    ASSUME ServerAssumption, NoneIsNoOperation, TypeInv, TokenInv, NEW t \in Threads, AcceptAgain(t)
    PROVE  TokenInv'
<1>1. PICK p \in Ports : cur[t] = Accept(p)
  <2>1. cur[t][1] = "accept" /\ step[t] # "none"
    BY DEF AcceptAgain, TypeInv, StepFits
  <2> QED
    BY <2>1, InHandler
<1>2. /\ step[t] = "again" /\ Goto(t, "end") /\ pending' = pending \cup {Accept(p)}
      /\ UNCHANGED <<ready, accepted, sock, main>>
  BY <1>1 DEF AcceptAgain, Goto, session, clients
<1>3. \A C : /\ InHand(C)' = InHand(C) \ {t}
             /\ t \in InHand(C) <=> Accept(p) \in C
  BY <1>1, <1>2, HandMoves
<1>4. ASSUME NEW C
      PROVE  /\ InReady(C)' = InReady(C)
             /\ InPending(C)' = IF Accept(p) \in C THEN InPending(C) \cup {Accept(p)} ELSE InPending(C)
  BY <1>2 DEF InReady, InPending
<1>5. AtMostOne(Arm(p))' /\ AtLeastOne(Arm(p))'
  <2>1. t \in InHand(Arm(p)) /\ AtMostOne(Arm(p)) /\ Accept(p) \in Arm(p)
    BY <1>3 DEF TokenInv, Arm
  <2>2. InPending(Arm(p))' = InPending(Arm(p)) \cup {Accept(p)} /\ InReady(Arm(p))' = InReady(Arm(p))
    BY <1>4, <2>1
  <2>3. AtMostOne(Arm(p))'
    BY <1>3, <2>1, <2>2, Passed
  <2> QED
    BY <2>2, <2>3 DEF AtLeastOne
<1>6. ASSUME NEW C, Accept(p) \notin C
      PROVE  UNCHANGED Places(C)
  BY <1>3, <1>4, <1>6 DEF Places
<1>7. \A q \in Ports \ {p} : UNCHANGED Places(Arm(q))
  BY <1>6, SetsOfOps
<1>8. \A q \in Ports : AtMostOne(Arm(q))' /\ (AtLeastOne(Arm(q)) => AtLeastOne(Arm(q))')
  BY <1>5, <1>7, Untouched DEF TokenInv
<1>9. \A s \in Sessions : AtMostOne(Chain(s))' /\ (~AtLeastOne(Chain(s)) => ~AtLeastOne(Chain(s))')
  BY <1>6, SetsOfOps, Untouched DEF TokenInv
<1>10. Fresh' = Fresh
  BY <1>2 DEF Fresh
<1> QED
  BY <1>2, <1>8, <1>9, <1>10, TokensKept

LEMMA ReadHandlerTokens ==
    ASSUME ServerAssumption, NoneIsNoOperation, TypeInv, TokenInv, NEW t \in Threads, ReadHandler(t)
    PROVE  TokenInv'
<1>1. PICK s \in Sessions : cur[t] = Read(s) /\ s = cur[t][2]
  BY InHandler DEF ReadHandler, Begin
<1>2. step[t] = "begin" /\ UNCHANGED <<accepted, sock>> /\ Fresh' = Fresh
  BY DEF ReadHandler, Begin, clients, Fresh
<1>3. CASE Goto(t, "end") /\ UNCHANGED <<pending, ready>>
  <2>1. \A C : UNCHANGED <<InPending(C), InReady(C)>>
    BY <1>3 DEF InPending, InReady
  <2> QED
    BY <1>1, <1>2, <1>3, <2>1, HandlerPasses DEF Chain
<1>4. CASE Goto(t, "process") /\ Complete(Timer(s))
  <2>1. \A C : InHand(C)' = InHand(C)
    BY <1>2, <1>4, HandMoves
  <2> QED
    BY <1>2, <1>4, <2>1, CompletionMoves, OpKinds DEF Goto
<1>5. CASE Goto(t, "process") /\ UNCHANGED <<pending, ready>>
  <2>1. \A C : InHand(C)' = InHand(C)
    BY <1>2, <1>5, HandMoves
  <2>2. \A C : UNCHANGED Places(C)
    BY <1>5, <2>1 DEF Places, InPending, InReady
  <2> QED
    BY <1>2, <1>5, <2>2, TokensStay DEF Goto
<1> QED
  BY <1>1, <1>3, <1>4, <1>5 DEF ReadHandler

LEMMA RespondTokens ==
    ASSUME ServerAssumption, NoneIsNoOperation, TypeInv, TokenInv, NEW t \in Threads, Respond(t)
    PROVE  TokenInv'
<1>1. PICK s \in Sessions : cur[t] = Read(s) /\ s = cur[t][2]
  <2>1. cur[t][1] = "read" /\ step[t] # "none"
    BY DEF Respond, TypeInv, StepFits
  <2> QED
    BY <2>1, InHandler
<1>2. /\ step[t] = "handle" /\ Goto(t, "end") /\ pending' = pending \cup {Write(s)}
      /\ UNCHANGED <<ready, accepted, sock>>
  BY <1>1 DEF Respond, clients
<1>3. ASSUME NEW C
      PROVE  /\ InReady(C)' = InReady(C)
             /\ InPending(C)' = IF Write(s) \in C THEN InPending(C) \cup {Write(s)} ELSE InPending(C)
  BY <1>2 DEF InReady, InPending
<1>4. ASSUME NEW C, Write(s) \notin C
      PROVE  UNCHANGED <<InPending(C), InReady(C)>>
  BY <1>3, <1>4
<1>5. \A p \in Ports : UNCHANGED <<InPending(Arm(p)), InReady(Arm(p))>>
  BY <1>4, SetsOfOps
<1>6. \A r \in Sessions \ {s} : UNCHANGED <<InPending(Chain(r)), InReady(Chain(r))>>
  BY <1>4, SetsOfOps
<1>7. InPending(Chain(s))' = InPending(Chain(s)) \cup {Write(s)} /\ InReady(Chain(s))' = InReady(Chain(s))
  BY <1>3, SetsOfOps
<1>8. cur[t] \in Chain(s)
  BY <1>1 DEF Chain
<1> QED
  BY <1>2, <1>5, <1>6, <1>7, <1>8, HandlerPasses

LEMMA WriteHandlerTokens ==
    ASSUME ServerAssumption, NoneIsNoOperation, TypeInv, TokenInv, NEW t \in Threads, WriteHandler(t)
    PROVE  TokenInv'
<1>1. PICK s \in Sessions : cur[t] = Write(s) /\ s = cur[t][2]
  BY InHandler DEF WriteHandler, Begin
<1>2. /\ step[t] = "begin" /\ UNCHANGED <<ready, accepted, sock>> /\ Fresh' = Fresh
      /\ pending' = pending \/ pending' = pending \cup {Timer(s)}
  BY <1>1 DEF WriteHandler, Begin, session, clients, Fresh
<1>3. ASSUME NEW C, Timer(s) \notin C
      PROVE  UNCHANGED <<InPending(C), InReady(C)>>
  BY <1>2, <1>3 DEF InPending, InReady
<1>4. CASE Goto(t, "end")
  <2>1. cur[t] \in Chain(s)
    BY <1>1 DEF Chain
  <2>2. \A p \in Ports : UNCHANGED <<InPending(Arm(p)), InReady(Arm(p))>>
    BY <1>3, SetsOfOps
  <2>3. \A r \in Sessions : UNCHANGED <<InPending(Chain(r)), InReady(Chain(r))>>
    BY <1>3, SetsOfOps
  <2> QED
    BY <1>2, <1>4, <2>1, <2>2, <2>3, HandlerPasses
<1>5. ASSUME NEW next \in {"readon", "shutdown"}, Goto(t, next)
      PROVE  TokenInv'
  <2>1. \A C : InHand(C)' = InHand(C)
    BY <1>2, <1>5, HandMoves
  <2>2. ASSUME NEW C, Timer(s) \notin C
        PROVE  UNCHANGED Places(C)
    BY <1>3, <2>1, <2>2 DEF Places
  <2>3. \A p \in Ports : UNCHANGED Places(Arm(p))
    BY <2>2, SetsOfOps
  <2>4. \A r \in Sessions : UNCHANGED Places(Chain(r))
    BY <2>2, SetsOfOps
  <2> QED
    BY <1>2, <1>5, <2>3, <2>4, TokensStay DEF Goto
<1> QED
  BY <1>1, <1>4, <1>5 DEF WriteHandler

LEMMA ReadOnTokens ==
    ASSUME ServerAssumption, NoneIsNoOperation, TypeInv, TokenInv, NEW t \in Threads, ReadOn(t)
    PROVE  TokenInv'
<1>1. PICK s \in Sessions : cur[t] = Write(s) /\ s = cur[t][2]
  <2>1. cur[t][1] = "write" /\ step[t] # "none"
    BY DEF ReadOn, TypeInv, StepFits
  <2> QED
    BY <2>1, InHandler
<1>2. step[t] = "readon" /\ Goto(t, "end") /\ StartRead(s) /\ UNCHANGED <<accepted, sock>>
  BY <1>1 DEF ReadOn, clients
<1>3. ASSUME NEW C, Read(s) \notin C
      PROVE  UNCHANGED <<InPending(C), InReady(C)>>
  BY <1>2, <1>3, ReadStarts
<1>4. \A p \in Ports : UNCHANGED <<InPending(Arm(p)), InReady(Arm(p))>>
  BY <1>3, SetsOfOps
<1>5. \A r \in Sessions \ {s} : UNCHANGED <<InPending(Chain(r)), InReady(Chain(r))>>
  BY <1>3, SetsOfOps
<1>6. \/ InPending(Chain(s))' = InPending(Chain(s)) \cup {Read(s)} /\ InReady(Chain(s))' = InReady(Chain(s))
      \/ InPending(Chain(s))' = InPending(Chain(s)) /\ InReady(Chain(s))' = InReady(Chain(s)) \cup {Len(ready) + 1}
  BY <1>2, ReadStarts, SetsOfOps
<1>7. cur[t] \in Chain(s)
  BY <1>1 DEF Chain
<1> QED
  BY <1>2, <1>4, <1>5, <1>6, <1>7, HandlerPasses

LEMMA TimerHandlerTokens ==
    ASSUME ServerAssumption, NoneIsNoOperation, TypeInv, TokenInv, NEW t \in Threads, TimerHandler(t)
    PROVE  TokenInv'
<1>1. PICK s \in Sessions : cur[t] = Timer(s) /\ s = cur[t][2]
  <2>1. cur[t][1] = "timer" /\ step[t] # "none"
    BY DEF TimerHandler, TypeInv, StepFits
  <2> QED
    BY <2>1, InHandler
<1>2. Goto(t, "end") /\ step[t] # "end" /\ UNCHANGED <<accepted, main>>
  BY DEF TimerHandler, Goto
<1>3. \A C \in SUBSET Ops : InHand(C)' = IF Timer(s) \in C THEN InHand(C) \ {t} ELSE InHand(C)
  BY <1>1, <1>2, HandMoves
<1>4. Fresh' \subseteq Fresh
  BY <1>1 DEF TimerHandler, Fresh, TypeInv, TypeOK
<1>5. ASSUME NEW C \in SUBSET Ops, Timer(s) \notin C
      PROVE  InHand(C)' = InHand(C)
  BY <1>3, <1>5
<1>6. CASE UNCHANGED <<pending, ready>>
  <2>1. ASSUME NEW C \in SUBSET Ops, Timer(s) \notin C
        PROVE  UNCHANGED Places(C)
    BY <1>5, <1>6, <2>1 DEF Places, InPending, InReady
  <2>2. \A p \in Ports : UNCHANGED Places(Arm(p))
    BY <2>1, SetsOfOps
  <2>3. \A r \in Sessions : UNCHANGED Places(Chain(r))
    BY <2>1, SetsOfOps
  <2> QED
    BY <1>2, <1>4, <2>2, <2>3, TokensStay
<1>7. CASE Complete(Read(s))
  <2>1. \A p \in Ports : AtMostOne(Arm(p))' /\ (AtLeastOne(Arm(p)) => AtLeastOne(Arm(p))')
    BY <1>5, <1>7, Completes, OpKinds, SetsOfOps DEF TokenInv
  <2>2. \A r \in Sessions : AtMostOne(Chain(r))' /\ (~AtLeastOne(Chain(r)) => ~AtLeastOne(Chain(r))')
    BY <1>5, <1>7, Completes, OpKinds, SetsOfOps DEF TokenInv
  <2> QED
    BY <1>2, <1>4, <2>1, <2>2, TokensKept
<1> QED
  BY <1>1, <1>6, <1>7 DEF TimerHandler

\* Steps of a handler that start and complete nothing.
LEMMA PlainHandlerTokens ==
    ASSUME ServerAssumption, NoneIsNoOperation, TypeInv, TokenInv, NEW t \in Threads,
           FindEndpoint(t) \/ UseApp(t) \/ Call(t) \/ TlsShutdown(t) \/ End(t)
    PROVE  TokenInv'
<1>1. UNCHANGED <<pending, ready, accepted, sock, main>> /\ Fresh' = Fresh
  BY DEF FindEndpoint, UseApp, Call, TlsShutdown, End, Goto, threads, loop, session, clients, Fresh
<1>2. \A C : UNCHANGED <<InPending(C), InReady(C)>>
  BY <1>1 DEF InPending, InReady
<1>3. CASE FindEndpoint(t) \/ UseApp(t) \/ Call(t)
  <2>1. /\ cur' = cur
        /\ \/ step' = step
           \/ \E next \in {"handle", "call"} : step' = [step EXCEPT ![t] = next] /\ step[t] \in {"process", "handle"}
    BY <1>3 DEF FindEndpoint, UseApp, Call, Goto, threads
  <2>2. \A C : InHand(C)' = InHand(C)
    BY <2>1 DEF InHand, TypeInv, TypeOK
  <2>3. \A C : UNCHANGED Places(C)
    BY <1>2, <2>2 DEF Places
  <2> QED
    BY <1>1, <2>3, TokensStay
<1>4. CASE TlsShutdown(t)
  <2>1. cur[t][1] = "write" /\ step[t] = "shutdown" /\ Goto(t, "end")
    BY <1>4 DEF TlsShutdown, TypeInv, StepFits
  <2>2. PICK s \in Sessions : cur[t] = Write(s)
    BY <2>1, InHandler
  <2> QED
    BY <1>1, <1>2, <2>1, <2>2, HandlerPasses DEF Chain
<1>5. CASE End(t)
  <2>1. step[t] = "end" /\ cur' = [cur EXCEPT ![t] = None] /\ step' = [step EXCEPT ![t] = "none"]
    BY <1>5 DEF End
  <2>2. \A C \in SUBSET Ops : InHand(C)' = InHand(C)
    BY <2>1, NoneIsNoOperation DEF InHand, TypeInv, TypeOK
  <2>3. ASSUME NEW C \in SUBSET Ops
        PROVE  UNCHANGED Places(C)
    BY <1>2, <2>2 DEF Places
  <2>4. \A p \in Ports : UNCHANGED Places(Arm(p))
    BY <2>3, SetsOfOps
  <2>5. \A r \in Sessions : UNCHANGED Places(Chain(r))
    BY <2>3, SetsOfOps
  <2> QED
    BY <1>1, <2>4, <2>5, TokensStay
<1> QED
  BY <1>3, <1>4, <1>5

LEMMA TokenStep ==
    ASSUME ServerAssumption, NoneIsNoOperation, TypeInv, TokenInv, [Next]_vars
    PROVE  TokenInv'
<1>1. CASE Spawn \/ Serve \/ Stop \/ Destroy \/ UNCHANGED vars
  <2>1. UNCHANGED <<pending, ready, cur, step, accepted, sock>> /\ (main' = "arm" <=> main = "arm")
    BY <1>1 DEF Spawn, Serve, Stop, Destroy, TypeInv, Stages, threads, loop, session, clients, vars
  <2> QED
    BY <2>1, NoTokenMoves DEF Fresh
<1>2. ASSUME NEW s \in Sessions, NEW p \in Ports, Connect(s, p)
      PROVE  TokenInv'
  <2>1. UNCHANGED <<pending, ready, cur, step, accepted, main>>
    BY <1>2 DEF Connect, threads, loop
  <2>2. Fresh' = Fresh
    BY <1>2 DEF Connect, Fresh, TypeInv, TypeOK
  <2> QED
    BY <2>1, <2>2, NoTokenMoves
<1>3. ASSUME NEW s \in Sessions, ReadCompletes(s) \/ WriteCompletes(s) \/ TimerExpires(s)
      PROVE  TokenInv'
  <2>1. UNCHANGED <<cur, step, accepted, main, sock>>
    BY <1>3 DEF ReadCompletes, WriteCompletes, TimerExpires, threads, session, clients
  <2>2. \E o \in Ops : Complete(o)
    BY <1>3, OpKinds DEF ReadCompletes, WriteCompletes, TimerExpires
  <2> QED
    BY <2>1, <2>2, CompletionMoves DEF InHand, Fresh
<1>4. ASSUME NEW t \in Threads, Leave(t)
      PROVE  TokenInv'
  <2>1. UNCHANGED <<pending, ready, cur, step, accepted, main, sock>>
    BY <1>4 DEF Leave, session, clients
  <2> QED
    BY <2>1, NoTokenMoves DEF Fresh
<1>5. ASSUME NEW t \in Threads, Handler(t)
      PROVE  TokenInv'
  BY <1>5, AcceptHandlerTokens, AcceptAgainTokens, ReadHandlerTokens, RespondTokens, WriteHandlerTokens,
     ReadOnTokens, TimerHandlerTokens, PlainHandlerTokens DEF Handler
<1> QED
  BY <1>1, <1>2, <1>3, <1>4, <1>5, ArmAcceptTokens, ArmedTokens, AcceptTokens, TakeTokens DEF Next

-----------------------------------------------------------------------------
(* The end of the program.                                                   *)

EndingInv ==
    /\ stopped => asked
    /\ (\E t \in Threads : at[t] = "left") => asked
    /\ lost \subseteq {"cache", "scheduler"}

\* An acceptor's accept keeps the loop from running dry.
LEMMA NeverDry ==
    ASSUME ServerAssumption, NoneIsNoOperation, TypeInv, TokenInv, NEW t \in Threads, at[t] = "loop"
    PROVE  \E o \in Ops : Outstanding(o)
<1>1. PICK p \in Ports : AtLeastOne(Arm(p))
  BY DEF TypeInv, Stages, TokenInv, ServerAssumption
<1>2. Accept(p) \in pending \/ (\E i \in 1..Len(ready) : ready[i] = Accept(p)) \/ \E u \in Threads : cur[u] = Accept(p)
  BY <1>1 DEF AtLeastOne, InPending, InReady, InHand, Arm
<1>3. (\E i \in 1..Len(ready) : ready[i] = Accept(p)) => Accept(p) \in ToSet(ready)
  BY DEF ToSet, TypeInv, TypeOK
<1> QED
  BY <1>2, <1>3, OpKinds DEF Outstanding

LEMMA ReleasedParts ==
    ASSUME TypeInv
    PROVE  \A x : x \in Released <=> \E i \in 1..destroyed : Destructors[i] = x
<1>1. destroyed \in 0..6 /\ destroyed <= Len(Destructors)
  BY SixDestructors DEF TypeInv, TypeOK
<1>2. Destructors \in Seq({"cache", "scheduler", "join", "endpoints", "mysql", "context"})
  BY DEF Destructors
<1> DEFINE T == SubSeq(Destructors, 1, destroyed)
<1> HIDE DEF Destructors
<1>3. Len(T) = destroyed /\ \A i \in 1..destroyed : T[i] = Destructors[i]
  BY <1>1, <1>2, SixDestructors
<1>4. DOMAIN T = 1..destroyed
  BY <1>1, <1>2, <1>3
<1> HIDE DEF T
<1>5. Released = {T[i] : i \in 1..destroyed}
  BY <1>4 DEF Released, ToSet, T
<1> QED
  BY <1>3, <1>5

\* When the endpoints or anything after them is destroyed, the threads are gone.
LEMMA QuietState ==
    ASSUME ServerAssumption, TypeInv, {"endpoints", "mysql", "context"} \cap Released # {}
    PROVE  \A t \in Threads : at[t] # "loop" /\ cur[t] = None
<1>1. PICK i \in 1..destroyed : Destructors[i] \in {"endpoints", "mysql", "context"}
  BY ReleasedParts
<1>2. destroyed \in 0..6
  BY SixDestructors DEF TypeInv, TypeOK
<1>3. i \notin {1, 2, 3}
  BY <1>1, SixDestructors
<1>4. destroyed >= 3 /\ destroyed > 0
  BY <1>1, <1>2, <1>3
<1>5. at[Main] = "left" /\ \A w \in Workers : at[w] # "loop"
  BY <1>4 DEF TypeInv, Stages
<1> QED
  BY <1>5 DEF TypeInv, StepFits, Threads

LEMMA EndingStep ==
    ASSUME ServerAssumption, NoneIsNoOperation, TypeInv, TokenInv, EndingInv, [Next]_vars
    PROVE  EndingInv'
<1> USE DEF EndingInv
<1>1. CASE Stop
  BY <1>1 DEF Stop, threads
<1>2. ASSUME NEW t \in Threads, Leave(t)
      PROVE  EndingInv'
  <2>1. stopped
    BY <1>2, NeverDry DEF Leave
  <2> QED
    BY <1>2, <2>1 DEF Leave, ending
<1>3. CASE Spawn \/ Serve
  <2>1. UNCHANGED <<stopped, asked, lost>>
    BY <1>3 DEF Spawn, Serve, loop, ending
  <2>2. \A t \in Threads : at'[t] \in {at[t], "loop"}
    BY <1>3 DEF Spawn, Serve, TypeInv, TypeOK
  <2> QED
    BY <2>1, <2>2
<1>4. ASSUME NEW t \in Threads, NEW part \in {"endpoints", "cache", "scheduler", "mysql"},
             step[t] \in {"process", "handle"}, Use(part),
             UNCHANGED <<at, stopped, asked>>
      PROVE  EndingInv'
  <2>1. cur[t] # None
    BY <1>4 DEF TypeInv, StepFits
  <2>2. part \in {"endpoints", "mysql"} => part \notin Released
    BY <2>1, QuietState
  <2> QED
    BY <1>4, <2>2 DEF Use
<1>5. ASSUME NEW t \in Threads, FindEndpoint(t) \/ UseApp(t)
      PROVE  EndingInv'
  <2>1. UNCHANGED <<at, stopped, asked>> /\ step[t] \in {"process", "handle"}
    BY <1>5 DEF FindEndpoint, UseApp, Goto, threads, loop
  <2>2. \E part \in {"endpoints", "cache", "scheduler", "mysql"} : Use(part)
    BY <1>5 DEF FindEndpoint, UseApp
  <2> QED
    BY <1>4, <2>1, <2>2
<1>6. CASE UNCHANGED <<at, stopped, asked, lost>>
  BY <1>6
<1>7. ASSUME NEW t \in Threads, Handler(t), ~FindEndpoint(t), ~UseApp(t)
      PROVE  UNCHANGED <<at, stopped, asked, lost>>
  BY <1>7 DEF Handler, AcceptHandler, AcceptAgain, ReadHandler, Call, Respond, WriteHandler, ReadOn, TlsShutdown,
              TimerHandler, End, Goto, loop, session, ending
<1>8. ASSUME NEW t \in Threads, Take(t)
      PROVE  UNCHANGED <<at, stopped, asked, lost>>
  BY <1>8 DEF Take, ending
<1>9. ASSUME NEW s \in Sessions, ReadCompletes(s) \/ WriteCompletes(s) \/ TimerExpires(s)
      PROVE  UNCHANGED <<at, stopped, asked, lost>>
  BY <1>9 DEF ReadCompletes, WriteCompletes, TimerExpires, threads, session, ending
<1>10. ASSUME NEW s \in Sessions, NEW p \in Ports, Connect(s, p) \/ AcceptCompletes(p)
       PROVE  UNCHANGED <<at, stopped, asked, lost>>
  BY <1>10 DEF Connect, AcceptCompletes, threads, loop, ending
<1>11. ASSUME NEW p \in Ports, AcceptCompletes(p)
       PROVE  UNCHANGED <<at, stopped, asked, lost>>
  BY <1>11 DEF AcceptCompletes, threads, ending
<1>12. ASSUME ArmAccept \/ Armed \/ Destroy \/ UNCHANGED vars
       PROVE  UNCHANGED <<at, stopped, asked, lost>>
  BY <1>12 DEF ArmAccept, Armed, Destroy, threads, loop, ending, vars
<1> QED
  BY <1>1, <1>2, <1>3, <1>5, <1>6, <1>7, <1>8, <1>9, <1>10, <1>11, <1>12 DEF Next

ServerInv == TypeInv /\ TokenInv /\ EndingInv

\* The inductive invariant: types and steps of handlers, where each operation is,
\* and what may have ended.
THEOREM ServerInvariant == Spec => []ServerInv
<1>1. Init => ServerInv
  BY ServerAssumption, NoneIsNoOperation, TypeInit, TokenInit DEF ServerInv, EndingInv, Init
<1>2. ServerInv /\ [Next]_vars => ServerInv'
  BY ServerAssumption, NoneIsNoOperation, TypeStep, TokenStep, EndingStep DEF ServerInv
<1> QED
  BY <1>1, <1>2, PTL DEF Spec

\* Every variable keeps its type: among others no session is started that was not
\* accepted.
THEOREM ServerTyped == Spec => []TypeOK
<1>1. ServerInv => TypeOK
  BY DEF ServerInv, TypeInv
<1> QED
  BY <1>1, ServerInvariant, PTL

\* Server::run ends only when somebody asks it to: a failing accept starts another
\* one, and so the io_context never runs out of work.
THEOREM RunsUntilStopped == Spec => []ServesUntilStopped
<1>1. ServerInv => ServesUntilStopped
  BY DEF ServerInv, EndingInv, ServesUntilStopped
<1> QED
  BY <1>1, ServerInvariant, PTL

\* Of the parts of a ServerApp only the cache and the scheduler are used by handlers
\* after they were destroyed.
THEOREM PartsOutliveTheirUse == Spec => []OnlyCacheAndSchedulerAreLost
<1>1. ServerInv => OnlyCacheAndSchedulerAreLost
  BY DEF ServerInv, EndingInv, OnlyCacheAndSchedulerAreLost
<1> QED
  BY <1>1, ServerInvariant, PTL

\* ~Server joins the workers before the endpoints, the pool and the io_context go.
THEOREM NothingRunsAtTheEnd == Spec => []QuietAtTheEnd
<1>1. ServerInv => QuietAtTheEnd
  BY QuietState, ServerAssumption DEF ServerInv, QuietAtTheEnd
<1> QED
  BY <1>1, ServerInvariant, PTL

LEMMA SingleCount ==
    ASSUME NEW S, Single(S)
    PROVE  /\ Cardinality(S) = IF S = {} THEN 0 ELSE 1
           /\ IsFiniteSet(S)
<1>1. CASE S = {}
  BY <1>1, FS_EmptySet
<1>2. CASE S # {}
  <2>1. PICK x : S = {x}
    BY <1>2 DEF Single
  <2> QED
    BY <1>2, <2>1, FS_Singleton
<1> QED
  BY <1>1, <1>2

\* Server::accept_http and accept_https: exactly one accept of each acceptor is on
\* its way from the moment it is armed, whatever the others and the workers do.
THEOREM AcceptsKept == Spec => []OneAcceptEach
<1>1. ASSUME ServerInv, main # "arm", NEW p \in Ports
      PROVE  Count({i \in 1..Len(ready) : ready[i] = Accept(p)})
             + Count({t \in Threads : cur[t] = Accept(p) /\ step[t] # "end"})
             + (IF Accept(p) \in pending THEN 1 ELSE 0) = 1
  <2>1. AtMostOne(Arm(p)) /\ AtLeastOne(Arm(p))
    BY <1>1 DEF ServerInv, TokenInv
  <2>2. /\ {i \in 1..Len(ready) : ready[i] = Accept(p)} = InReady(Arm(p))
        /\ {t \in Threads : cur[t] = Accept(p) /\ step[t] # "end"} = InHand(Arm(p))
        /\ Accept(p) \in pending <=> InPending(Arm(p)) # {}
    BY DEF InReady, InHand, InPending, Arm
  <2>3. /\ Cardinality(InReady(Arm(p))) = IF InReady(Arm(p)) = {} THEN 0 ELSE 1
        /\ Cardinality(InHand(Arm(p))) = IF InHand(Arm(p)) = {} THEN 0 ELSE 1
    BY <2>1, SingleCount DEF AtMostOne
  <2> DEFINE a == IF Accept(p) \in pending THEN 1 ELSE 0
             b == Cardinality(InReady(Arm(p)))
             c == Cardinality(InHand(Arm(p)))
  <2>4. /\ a \in {0, 1} /\ b \in {0, 1} /\ c \in {0, 1}
        /\ a = 0 \/ b = 0
        /\ a = 0 \/ c = 0
        /\ b = 0 \/ c = 0
        /\ a = 1 \/ b = 1 \/ c = 1
    BY <2>1, <2>2, <2>3 DEF AtMostOne, AtLeastOne
  <2> HIDE DEF a, b, c
  <2>5. b + c + a = 1
    BY <2>4
  <2> QED
    BY <2>2, <2>5 DEF Count, a, b, c
<1>2. ServerInv => OneAcceptEach
  BY <1>1 DEF OneAcceptEach
<1> QED
  BY <1>2, ServerInvariant, PTL

\* SslSession has no strand, and needs none for its reads and writes: at most one is
\* started, completed or being handled, for every number of threads.
THEOREM ChainsHold == Spec => []OneChain
<1>1. ASSUME ServerInv, NEW s \in Sessions
      PROVE  Count({o \in {Read(s), Write(s)} : o \in pending})
             + Count({i \in 1..Len(ready) : ready[i] \in {Read(s), Write(s)}})
             + Count({t \in Threads : cur[t] \in {Read(s), Write(s)} /\ step[t] # "end"}) <= 1
  <2>1. AtMostOne(Chain(s))
    BY <1>1 DEF ServerInv, TokenInv
  <2>2. /\ {o \in {Read(s), Write(s)} : o \in pending} = InPending(Chain(s))
        /\ {i \in 1..Len(ready) : ready[i] \in {Read(s), Write(s)}} = InReady(Chain(s))
        /\ {t \in Threads : cur[t] \in {Read(s), Write(s)} /\ step[t] # "end"} = InHand(Chain(s))
    BY DEF InReady, InHand, InPending, Chain
  <2>3. /\ Cardinality(InPending(Chain(s))) = IF InPending(Chain(s)) = {} THEN 0 ELSE 1
        /\ Cardinality(InReady(Chain(s))) = IF InReady(Chain(s)) = {} THEN 0 ELSE 1
        /\ Cardinality(InHand(Chain(s))) = IF InHand(Chain(s)) = {} THEN 0 ELSE 1
    BY <2>1, SingleCount DEF AtMostOne
  <2> DEFINE a == Cardinality(InPending(Chain(s)))
             b == Cardinality(InReady(Chain(s)))
             c == Cardinality(InHand(Chain(s)))
  <2>4. /\ a \in {0, 1} /\ b \in {0, 1} /\ c \in {0, 1}
        /\ a = 0 \/ b = 0
        /\ a = 0 \/ c = 0
        /\ b = 0 \/ c = 0
    BY <2>1, <2>3 DEF AtMostOne
  <2> HIDE DEF a, b, c
  <2>5. a + b + c <= 1
    BY <2>4
  <2> QED
    BY <2>2, <2>5 DEF Count, a, b, c
<1>2. ServerInv => OneChain
  BY <1>1 DEF OneChain
<1> QED
  BY <1>2, ServerInvariant, PTL

-----------------------------------------------------------------------------
(* The keep-alive timer: it is armed again only when its last wait has been   *)
(* taken from the queue.                                                     *)

TimersReady(s) == InReady({Timer(s)})
WritesReady(s) == InReady({Write(s)})
WriteBegins(s) == \E t \in Threads : cur[t] = Write(s) /\ step[t] = "begin"
Processing(s) == \E t \in Threads : cur[t] = Read(s) /\ step[t] \in {"process", "handle", "call"}

\* A request is processed and its answer written with the timer cancelled; the wait
\* that was cancelled is in the queue before the write, and so it is taken before.
TimerOK(s) ==
    /\ Single(TimersReady(s))
    /\ Timer(s) \in pending => TimersReady(s) = {}
    /\ Write(s) \in pending \/ WritesReady(s) # {} \/ WriteBegins(s) \/ Processing(s)
         => Timer(s) \notin pending
    /\ \A i \in TimersReady(s), j \in WritesReady(s) : i < j
    /\ WriteBegins(s) => TimersReady(s) = {}

TimerInv == \A s \in Sessions : TimerOK(s)

LEMMA OtherOps ==
    /\ \A s, r \in Sessions : Timer(r) = Timer(s) <=> r = s
    /\ \A s, r \in Sessions : Write(r) = Write(s) <=> r = s
    /\ \A s, r \in Sessions : Read(r) = Read(s) <=> r = s
    /\ \A s, r \in Sessions : Timer(r) # Write(s) /\ Timer(r) # Read(s) /\ Read(r) # Write(s)
    /\ \A p \in Ports, s \in Sessions : Accept(p) # Timer(s) /\ Accept(p) # Write(s) /\ Accept(p) # Read(s)
BY OpParts

\* A step that moves neither the timer nor the write of a session.
LEMMA TimerKept ==
    ASSUME NEW s \in Sessions, TimerOK(s),
           Timer(s) \in pending' <=> Timer(s) \in pending,
           Write(s) \in pending' => Write(s) \in pending,
           TimersReady(s)' = TimersReady(s), WritesReady(s)' = WritesReady(s),
           WriteBegins(s)' => WriteBegins(s),
           Processing(s)' => Processing(s) \/ Timer(s) \notin pending
    PROVE  TimerOK(s)'
BY DEF TimerOK, Single

\* Any operation completes.
LEMMA TimerCompletion ==
    ASSUME TypeInv, NEW s \in Sessions, TimerOK(s), NEW o \in Ops, Complete(o),
           WriteBegins(s)' => WriteBegins(s),
           Processing(s)' => Processing(s) \/ Timer(s) \notin pending \/ o = Timer(s)
    PROVE  TimerOK(s)'
<1>1. /\ o \in pending /\ pending' = pending \ {o} /\ ready' = Append(ready, o)
      /\ ready \in Seq(Ops)
  BY DEF Complete, TypeInv, TypeOK
<1>2. /\ TimersReady(s)' = IF o = Timer(s) THEN TimersReady(s) \cup {Len(ready) + 1} ELSE TimersReady(s)
      /\ WritesReady(s)' = IF o = Write(s) THEN WritesReady(s) \cup {Len(ready) + 1} ELSE WritesReady(s)
  BY <1>1, ReadyAfterAppend DEF TimersReady, WritesReady
<1>3. \A i \in TimersReady(s) : i \in Nat /\ i < Len(ready) + 1
  BY <1>1 DEF TimersReady, InReady
<1>4. Timer(s) # Write(s)
  BY OtherOps
<1>5. CASE o = Timer(s)
  <2>1. TimersReady(s) = {} /\ WritesReady(s) = {} /\ ~WriteBegins(s)
    BY <1>1, <1>5 DEF TimerOK
  <2> QED
    BY <1>1, <1>2, <1>4, <1>5, <2>1 DEF TimerOK, Single
<1>6. CASE o = Write(s)
  BY <1>1, <1>2, <1>3, <1>4, <1>6 DEF TimerOK, Single
<1>7. CASE o # Timer(s) /\ o # Write(s)
  BY <1>1, <1>2, <1>7 DEF TimerOK, Single
<1> QED
  BY <1>5, <1>6, <1>7

\* The first operation is taken: a write is never taken before an older wait.
LEMMA TimerTake ==
    ASSUME ServerAssumption, NoneIsNoOperation, TypeInv, NEW s \in Sessions, TimerOK(s), NEW t \in Threads, Take(t)
    PROVE  TimerOK(s)'
<1> DEFINE o == Head(ready)
<1>1. /\ cur[t] = None /\ ready # <<>> /\ ready \in Seq(Ops)
      /\ cur' = [cur EXCEPT ![t] = o] /\ t \in DOMAIN cur
      /\ ready' = Tail(ready) /\ pending' = pending
      /\ \A u \in Threads \ {t} : step'[u] = step[u] /\ cur'[u] = cur[u]
      /\ cur'[t] = o
  BY DEF Take, TypeInv, TypeOK
<1>2. /\ \A i : i \in TimersReady(s)' <=> i + 1 \in TimersReady(s) /\ i \in Nat \ {0}
      /\ \A i : i \in WritesReady(s)' <=> i + 1 \in WritesReady(s) /\ i \in Nat \ {0}
      /\ 1 \in WritesReady(s) <=> o = Write(s)
      /\ \A i \in TimersReady(s) : i \in Nat \ {0}
      /\ \A i \in WritesReady(s) : i \in Nat \ {0}
  BY <1>1, ReadyAfterTail DEF TimersReady, WritesReady
<1>3. o \in Ops
  BY <1>1, QueueStep
<1>4. step'[t] \notin {"process", "handle", "call"}
  <2>1. timer[o[2]] \in {"expired", "aborted"} \/ o[1] # "timer"
    BY <1>3, OpKinds DEF TypeInv, TypeOK
  <2> QED
    BY <1>1, <2>1 DEF Take, TypeInv, TypeOK
<1> HIDE DEF o
<1>5. Processing(s)' => Processing(s)
  BY <1>1, <1>4 DEF Processing
<1>6. WriteBegins(s)' => WriteBegins(s) \/ o = Write(s)
  BY <1>1 DEF WriteBegins
<1>7. o = Write(s) => TimersReady(s) = {}
  BY <1>2 DEF TimerOK
<1>8. Single(TimersReady(s))'
  BY <1>2 DEF TimerOK, Single
<1>9. \A i \in TimersReady(s)', j \in WritesReady(s)' : i < j
  BY <1>2 DEF TimerOK
<1>10. TimersReady(s) = {} => TimersReady(s)' = {}
  BY <1>2
<1>11. WritesReady(s)' # {} => WritesReady(s) # {}
  BY <1>2
<1>12. o = Write(s) => WritesReady(s) # {}
  BY <1>2
<1> QED
  BY <1>1, <1>5, <1>6, <1>7, <1>8, <1>9, <1>10, <1>11, <1>12 DEF TimerOK

\* What a thread with the read or write of a session excludes.
LEMMA HolderAlone ==
    ASSUME TokenInv, NEW s \in Sessions, NEW t \in Threads, cur[t] \in Chain(s), step[t] # "end"
    PROVE  /\ Read(s) \notin pending /\ Write(s) \notin pending
           /\ InReady(Chain(s)) = {} /\ WritesReady(s) = {}
           /\ \A u \in Threads : cur[u] \in Chain(s) /\ step[u] # "end" => u = t
<1>1. t \in InHand(Chain(s)) /\ AtMostOne(Chain(s))
  BY DEF InHand, TokenInv
<1>2. InPending(Chain(s)) = {} /\ InReady(Chain(s)) = {} /\ \A u \in InHand(Chain(s)) : u = t
  BY <1>1 DEF AtMostOne, Single
<1>3. WritesReady(s) \subseteq InReady(Chain(s))
  BY DEF WritesReady, InReady, Chain
<1> QED
  BY <1>2, <1>3 DEF InPending, InHand, Chain

\* A step of a handler brings no thread to the beginning of another one.
LEMMA HandlerStages ==
    ASSUME TypeInv, NEW t \in Threads, NEW next \in {"again", "process", "handle", "call", "readon", "shutdown", "end"},
           Goto(t, next), NEW s \in Sessions
    PROVE  /\ WriteBegins(s)' => WriteBegins(s)
           /\ Processing(s)' => Processing(s) \/ (cur[t] = Read(s) /\ next \in {"process", "handle", "call"})
<1>1. step' = [step EXCEPT ![t] = next] /\ cur' = cur
  BY DEF Goto
<1> QED
  BY <1>1 DEF WriteBegins, Processing, TypeInv, TypeOK

LEMMA TimerStart ==
    ASSUME TypeInv, NEW s \in Sessions, NEW r \in Sessions, TimerOK(s), StartRead(r),
           WriteBegins(s)' => WriteBegins(s), Processing(s)' => Processing(s)
    PROVE  TimerOK(s)'
<1>1. Read(r) # Timer(s) /\ Read(r) # Write(s)
  BY OtherOps
<1>2. /\ Timer(s) \in pending' <=> Timer(s) \in pending
      /\ Write(s) \in pending' <=> Write(s) \in pending
  BY <1>1 DEF StartRead
<1>3. TimersReady(s)' = TimersReady(s) /\ WritesReady(s)' = WritesReady(s)
  BY <1>1, ReadStarts DEF TimersReady, WritesReady
<1> QED
  BY <1>2, <1>3, TimerKept

LEMMA TimerHandlers ==
    ASSUME ServerAssumption, NoneIsNoOperation, TypeInv, TokenInv, NEW s \in Sessions, TimerOK(s),
           NEW t \in Threads, Handler(t)
    PROVE  TimerOK(s)'
<1>1. CASE AcceptHandler(t)
  <2>1. WriteBegins(s)' => WriteBegins(s)
    BY <1>1, HandlerStages DEF AcceptHandler
  <2>2. Processing(s)' => Processing(s)
    BY <1>1, HandlerStages DEF AcceptHandler
  <2>3. cur[t][2] \in Ports
    BY <1>1, InHandler DEF AcceptHandler, Begin
  <2>4. CASE UNCHANGED <<pending, ready>>
    BY <2>1, <2>2, <2>4, TimerKept DEF TimersReady, WritesReady, InReady
  <2>5. CASE accepted[cur[t][2]] # None /\ StartRead(accepted[cur[t][2]])
    BY <2>1, <2>2, <2>3, <2>5, TimerStart DEF TypeInv, TypeOK
  <2> QED
    BY <1>1, <2>4, <2>5 DEF AcceptHandler
<1>2. CASE AcceptAgain(t)
  <2>1. PICK p \in Ports : cur[t] = Accept(p)
    BY <1>2, InHandler DEF AcceptAgain, TypeInv, StepFits
  <2>2. pending' = pending \cup {Accept(p)} /\ ready' = ready
    BY <1>2, <2>1 DEF AcceptAgain
  <2>3. (WriteBegins(s)' => WriteBegins(s)) /\ (Processing(s)' => Processing(s))
    BY <1>2, HandlerStages DEF AcceptAgain
  <2> QED
    BY <2>2, <2>3, TimerKept, OtherOps DEF TimersReady, WritesReady, InReady
<1>3. CASE ReadHandler(t)
  <2>1. PICK r \in Sessions : cur[t] = Read(r) /\ r = cur[t][2]
    BY <1>3, InHandler DEF ReadHandler, Begin
  <2>2. step[t] = "begin" /\ (Goto(t, "end") \/ Goto(t, "process"))
    BY <1>3 DEF ReadHandler, Begin
  <2>3. WriteBegins(s)' => WriteBegins(s)
    BY <2>2, HandlerStages
  <2>4. CASE UNCHANGED <<pending, ready>>
    <3>1. Goto(t, "end") \/ Timer(r) \notin pending
      <4>1. CASE result[r] = "error"
        BY <1>3, <2>1, <4>1 DEF ReadHandler
      <4>2. CASE result[r] # "error" /\ Timer(r) \in pending
        <5>1. pending' = pending \ {Timer(r)}
          BY <1>3, <2>1, <4>2 DEF ReadHandler, Complete
        <5> QED
          BY <2>4, <4>2, <5>1
      <4> QED
        BY <4>1, <4>2
    <3>2. Processing(s)' => Processing(s) \/ Timer(s) \notin pending
      <4>1. CASE Goto(t, "end")
        BY <4>1, HandlerStages
      <4>2. CASE Goto(t, "process") /\ Timer(r) \notin pending
        BY <2>1, <4>2, HandlerStages, OtherOps
      <4> QED
        BY <2>2, <3>1, <4>1, <4>2
    <3> QED
      BY <2>3, <2>4, <3>2, TimerKept DEF TimersReady, WritesReady, InReady
  <2>5. CASE Goto(t, "process") /\ Complete(Timer(r))
    <3>1. Processing(s)' => Processing(s) \/ s = r
      BY <2>1, <2>5, HandlerStages, OtherOps
    <3> QED
      BY <2>3, <2>5, <3>1, OpKinds, TimerCompletion
  <2> QED
    BY <1>3, <2>1, <2>4, <2>5 DEF ReadHandler
<1>4. CASE FindEndpoint(t) \/ UseApp(t) \/ Call(t) \/ TlsShutdown(t) \/ End(t)
  <2>1. UNCHANGED <<pending, ready>>
    BY <1>4 DEF FindEndpoint, UseApp, Call, TlsShutdown, End, loop
  <2>2. (WriteBegins(s)' => WriteBegins(s)) /\ (Processing(s)' => Processing(s))
    <3>1. CASE TlsShutdown(t)
      BY <3>1, HandlerStages DEF TlsShutdown
    <3>2. CASE FindEndpoint(t) \/ Call(t)
      <4>1. /\ step[t] \in {"process", "handle"}
            /\ cur' = cur
            /\ \E next \in {"handle", "call"} : step' = [step EXCEPT ![t] = next]
        BY <3>2 DEF FindEndpoint, Call, Goto
      <4> QED
        BY <4>1 DEF WriteBegins, Processing, TypeInv, TypeOK
    <3>3. CASE UseApp(t)
      BY <3>3 DEF UseApp, threads, WriteBegins, Processing
    <3>4. CASE End(t)
      <4>1. cur' = [cur EXCEPT ![t] = None] /\ step' = [step EXCEPT ![t] = "none"]
        BY <3>4 DEF End
      <4> QED
        BY <4>1 DEF WriteBegins, Processing, TypeInv, TypeOK
    <3> QED
      BY <1>4, <3>1, <3>2, <3>3, <3>4
  <2> QED
    BY <2>1, <2>2, TimerKept DEF TimersReady, WritesReady, InReady
<1>5. CASE Respond(t)
  <2>1. PICK r \in Sessions : cur[t] = Read(r) /\ r = cur[t][2]
    BY <1>5, InHandler DEF Respond, TypeInv, StepFits
  <2>2. /\ step[t] = "handle" /\ Goto(t, "end")
        /\ pending' = pending \cup {Write(r)} /\ ready' = ready
    BY <1>5, <2>1 DEF Respond
  <2>3. (WriteBegins(s)' => WriteBegins(s)) /\ (Processing(s)' => Processing(s))
    BY <2>2, HandlerStages
  <2>4. TimersReady(s)' = TimersReady(s) /\ WritesReady(s)' = WritesReady(s)
    BY <2>2 DEF TimersReady, WritesReady, InReady
  <2>5. CASE r # s
    BY <2>2, <2>3, <2>4, <2>5, TimerKept, OtherOps
  <2>6. CASE r = s
    <3>1. Processing(s)
      BY <2>1, <2>2, <2>6 DEF Processing
    <3>2. Timer(s) \notin pending /\ Timer(s) \notin pending'
      BY <2>2, <3>1, OtherOps DEF TimerOK
    <3> QED
      BY <2>3, <2>4, <3>2 DEF TimerOK, Single
  <2> QED
    BY <2>5, <2>6
<1>6. CASE WriteHandler(t)
  <2>1. PICK r \in Sessions : cur[t] = Write(r) /\ r = cur[t][2]
    BY <1>6, InHandler DEF WriteHandler, Begin
  <2>2. /\ step[t] = "begin" /\ ready' = ready
        /\ pending' = pending \/ (pending' = pending \cup {Timer(r)} /\ Goto(t, "readon"))
        /\ Goto(t, "readon") \/ Goto(t, "shutdown") \/ Goto(t, "end")
    BY <1>6, <2>1 DEF WriteHandler, Begin
  <2>3. (WriteBegins(s)' => WriteBegins(s)) /\ (Processing(s)' => Processing(s))
    BY <2>2, HandlerStages
  <2>4. TimersReady(s)' = TimersReady(s) /\ WritesReady(s)' = WritesReady(s)
    BY <2>2 DEF TimersReady, WritesReady, InReady
  <2>5. CASE pending' = pending \/ r # s
    BY <2>2, <2>3, <2>4, <2>5, TimerKept, OtherOps
  <2>6. CASE pending' = pending \cup {Timer(s)} /\ r = s /\ Goto(t, "readon")
    <3>1. cur[t] \in Chain(s) /\ step[t] # "end"
      BY <2>1, <2>2, <2>6 DEF Chain
    <3>2. /\ Write(s) \notin pending /\ WritesReady(s) = {}
          /\ \A u \in Threads : cur[u] \in Chain(s) /\ step[u] # "end" => u = t
      BY <3>1, HolderAlone
    <3>3. step'[t] = "readon" /\ cur' = cur /\ \A u \in Threads \ {t} : step'[u] = step[u]
      BY <2>6 DEF Goto, TypeInv, TypeOK
    <3>4. ~WriteBegins(s)' /\ ~Processing(s)'
      BY <3>2, <3>3 DEF WriteBegins, Processing, Chain
    <3>5. WriteBegins(s)
      BY <2>1, <2>2, <2>6 DEF WriteBegins
    <3>6. TimersReady(s) = {}
      BY <3>5 DEF TimerOK
    <3>7. Write(s) \notin pending'
      BY <2>6, <3>2, OtherOps
    <3> QED
      BY <2>4, <3>2, <3>4, <3>6, <3>7 DEF TimerOK, Single
  <2> QED
    BY <2>2, <2>5, <2>6
<1>7. CASE ReadOn(t)
  <2>1. cur[t][2] \in Sessions
    BY <1>7, InHandler DEF ReadOn, TypeInv, StepFits
  <2>2. StartRead(cur[t][2]) /\ Goto(t, "end")
    BY <1>7 DEF ReadOn
  <2>3. (WriteBegins(s)' => WriteBegins(s)) /\ (Processing(s)' => Processing(s))
    BY <2>2, HandlerStages
  <2> QED
    BY <2>1, <2>2, <2>3, TimerStart
<1>8. CASE TimerHandler(t)
  <2>1. cur[t][2] \in Sessions /\ Goto(t, "end")
    BY <1>8, InHandler DEF TimerHandler, TypeInv, StepFits
  <2>2. (WriteBegins(s)' => WriteBegins(s)) /\ (Processing(s)' => Processing(s))
    BY <2>1, HandlerStages
  <2>3. CASE UNCHANGED <<pending, ready>>
    BY <2>2, <2>3, TimerKept DEF TimersReady, WritesReady, InReady
  <2>4. CASE Complete(Read(cur[t][2]))
    BY <2>1, <2>2, <2>4, OpKinds, TimerCompletion
  <2> QED
    BY <1>8, <2>3, <2>4 DEF TimerHandler
<1> QED
  BY <1>1, <1>2, <1>3, <1>4, <1>5, <1>6, <1>7, <1>8 DEF Handler

LEMMA TimerStep ==
    ASSUME ServerAssumption, NoneIsNoOperation, TypeInv, TokenInv, TimerInv, [Next]_vars
    PROVE  TimerInv'
<1> SUFFICES ASSUME NEW s \in Sessions
             PROVE  TimerOK(s)'
  BY DEF TimerInv
<1>1. TimerOK(s)
  BY DEF TimerInv
<1>2. CASE Armed \/ Spawn \/ Serve \/ Stop \/ Destroy \/ UNCHANGED vars
  <2>1. UNCHANGED <<pending, ready, cur, step>>
    BY <1>2 DEF Armed, Spawn, Serve, Stop, Destroy, threads, loop, vars
  <2> QED
    BY <1>1, <2>1, TimerKept DEF TimersReady, WritesReady, InReady, WriteBegins, Processing
<1>3. CASE ArmAccept
  <2>1. UNCHANGED <<ready, cur, step>> /\ \E p \in Ports : pending' = pending \cup {Accept(p)}
    BY <1>3 DEF ArmAccept, threads
  <2> QED
    BY <1>1, <2>1, TimerKept, OtherOps DEF TimersReady, WritesReady, InReady, WriteBegins, Processing
<1>4. ASSUME NEW r \in Sessions, NEW p \in Ports, Connect(r, p)
      PROVE  TimerOK(s)'
  <2>1. UNCHANGED <<pending, ready, cur, step>>
    BY <1>4 DEF Connect, threads, loop
  <2> QED
    BY <1>1, <2>1, TimerKept DEF TimersReady, WritesReady, InReady, WriteBegins, Processing
<1>5. ASSUME NEW o \in Ops, Complete(o), UNCHANGED <<cur, step>>
      PROVE  TimerOK(s)'
  BY <1>1, <1>5, TimerCompletion DEF WriteBegins, Processing
<1>6. ASSUME NEW p \in Ports, AcceptCompletes(p)
      PROVE  TimerOK(s)'
  BY <1>5, <1>6, OpKinds DEF AcceptCompletes, threads
<1>7. ASSUME NEW r \in Sessions, ReadCompletes(r) \/ WriteCompletes(r) \/ TimerExpires(r)
      PROVE  TimerOK(s)'
  BY <1>5, <1>7, OpKinds DEF ReadCompletes, WriteCompletes, TimerExpires, threads
<1>8. ASSUME NEW t \in Threads, Take(t)
      PROVE  TimerOK(s)'
  BY <1>1, <1>8, TimerTake
<1>9. ASSUME NEW t \in Threads, Handler(t)
      PROVE  TimerOK(s)'
  BY <1>1, <1>9, TimerHandlers
<1>10. ASSUME NEW t \in Threads, Leave(t)
       PROVE  TimerOK(s)'
  <2>1. UNCHANGED <<pending, ready, cur, step>>
    BY <1>10 DEF Leave
  <2> QED
    BY <1>1, <2>1, TimerKept DEF TimersReady, WritesReady, InReady, WriteBegins, Processing
<1> QED
  BY <1>2, <1>3, <1>4, <1>6, <1>7, <1>8, <1>9, <1>10 DEF Next

-----------------------------------------------------------------------------
(* The server uses its io_context as RunLoop says.                           *)

InQueue(o) == o \in ToSet(ready)
Status(o) == IF o \in pending THEN "pending" ELSE IF InQueue(o) THEN "ready" ELSE "idle"
Where(t) == IF at[t] = "left" THEN "returned" ELSE IF cur[t] = None THEN "outside" ELSE "turn"
Ending == IF asked THEN "asked" ELSE "no"

\* The state of the loop as RunLoop has it.
loopState == <<[o \in Ops |-> Status(o)], cur, [t \in Threads |-> Where(t)], Ending, stopped>>

LEMMA QueuedIs ==
    ASSUME ready \in Seq(Ops), NEW o
    PROVE  InQueue(o) <=> InReady({o}) # {}
<1>1. ToSet(ready) = {ready[i] : i \in 1..Len(ready)}
  BY DEF ToSet
<1> QED
  BY <1>1 DEF InQueue, InReady

\* An operation is queued once, and not while it is pending.
Queueing(o) == Single(InReady({o})) /\ (o \in pending => ~InQueue(o))

LEMMA QueuedOnce ==
    ASSUME TypeInv, TokenInv, TimerInv, NEW o \in Ops
    PROVE  Queueing(o)
<1>1. ready \in Seq(Ops)
  BY DEF TypeInv, TypeOK
<1>2. ASSUME NEW C, o \in C, AtMostOne(C)
      PROVE  Queueing(o)
  <2>1. InReady({o}) \subseteq InReady(C)
    BY <1>2 DEF InReady
  <2>2. o \in pending => InPending(C) # {}
    BY <1>2 DEF InPending
  <2> QED
    BY <1>1, <1>2, <2>1, <2>2, QueuedIs DEF Queueing, AtMostOne, Single
<1>3. CASE o[1] = "timer"
  <2>1. PICK s \in Sessions : o = Timer(s)
    BY <1>3, OpKinds
  <2>2. TimerOK(s)
    BY DEF TimerInv
  <2>3. Single(InReady({o})) /\ (o \in pending => InReady({o}) = {})
    BY <2>1, <2>2 DEF TimerOK, TimersReady
  <2> QED
    BY <1>1, <2>3, QueuedIs DEF Queueing
<1>4. CASE o[1] = "accept"
  <2>1. PICK p \in Ports : o = Accept(p)
    BY <1>4, OpKinds
  <2> QED
    BY <1>2, <2>1 DEF TokenInv, Arm
<1>5. CASE o[1] \in {"read", "write"}
  <2>1. PICK s \in Sessions : o = Read(s) \/ o = Write(s)
    BY <1>5, OpKinds
  <2> QED
    BY <1>2, <2>1 DEF TokenInv, Chain
<1> QED
  BY <1>3, <1>4, <1>5, OpKinds

LEMMA QueueAppended ==
    ASSUME ready \in Seq(Ops), NEW o \in Ops, ready' = Append(ready, o), NEW x
    PROVE  InQueue(x)' <=> InQueue(x) \/ x = o
<1>1. ready' \in Seq(Ops)
  OBVIOUS
<1>2. InReady({x})' = IF o \in {x} THEN InReady({x}) \cup {Len(ready) + 1} ELSE InReady({x})
  BY ReadyAfterAppend
<1>3. InQueue(x) <=> InReady({x}) # {}
  BY QueuedIs
<1>4. InQueue(x)' <=> InReady({x})' # {}
  <2>1. ToSet(ready') = {ready'[i] : i \in 1..Len(ready')}
    BY <1>1 DEF ToSet
  <2> QED
    BY <2>1 DEF InQueue, InReady
<1> QED
  BY <1>2, <1>3, <1>4

\* Starting an operation that is idle, with nothing else that the loop sees.
LEMMA StartsInLoop ==
    ASSUME TypeInv, NEW o \in Ops, Status(o) = "idle", UNCHANGED <<at, cur, asked, stopped>>,
           \/ pending' = pending \cup {o} /\ ready' = ready
           \/ pending' = pending /\ ready' = Append(ready, o)
    PROVE  Loop!LoopNext
<1>1. ready \in Seq(Ops)
  BY DEF TypeInv, TypeOK
<1>2. \E w \in {"pending", "ready"} :
        \A x \in Ops : Status(x)' = IF x = o THEN w ELSE Status(x)
  <2>1. CASE pending' = pending \cup {o} /\ ready' = ready
    BY <2>1 DEF Status, InQueue
  <2>2. CASE pending' = pending /\ ready' = Append(ready, o)
    BY <1>1, <2>2, QueueAppended DEF Status
  <2> QED
    BY <2>1, <2>2
<1>3. Loop!Start(o)
  BY <1>2 DEF Loop!Start, Status, InQueue
<1> QED
  BY <1>3 DEF Loop!LoopNext

LEMMA CompletesInLoop ==
    ASSUME TypeInv, NEW o \in Ops, Complete(o), UNCHANGED <<at, cur, asked, stopped>>
    PROVE  Loop!LoopNext
<1>1. ready \in Seq(Ops) /\ o \in pending /\ pending' = pending \ {o} /\ ready' = Append(ready, o)
  BY DEF Complete, TypeInv, TypeOK
<1>2. \A x \in Ops : Status(x)' = IF x = o THEN "ready" ELSE Status(x)
  BY <1>1, QueueAppended DEF Status
<1>3. Loop!Complete(o)
  BY <1>1, <1>2 DEF Loop!Complete, Status, InQueue
<1> QED
  BY <1>3 DEF Loop!LoopNext

\* A step the loop does not see.
LEMMA StaysInLoop ==
    ASSUME UNCHANGED <<pending, ready, cur, asked, stopped>>, \A t \in Threads : Where(t)' = Where(t)
    PROVE  UNCHANGED Loop!loopVars
<1>1. UNCHANGED loopState
  BY DEF loopState, Status, InQueue, Ending
<1> QED
  BY <1>1 DEF Loop!loopVars, loopState, Status, InQueue, Where, Ending

\* An operation whose token is nowhere, or is in the hands of a thread, is idle.
LEMMA IdleInLoop ==
    ASSUME TypeInv, NEW o \in Ops, NEW C, o \in C, InPending(C) = {}, InReady(C) = {}
    PROVE  Status(o) = "idle"
<1>1. ready \in Seq(Ops) /\ InReady({o}) \subseteq InReady(C) /\ o \notin pending
  BY DEF TypeInv, TypeOK, InPending, InReady
<1> QED
  BY <1>1, QueuedIs DEF Status

LEMMA HeldIsIdle ==
    ASSUME TypeInv, NEW o \in Ops, NEW C, o \in C, AtMostOne(C),
           NEW t \in Threads, cur[t] \in C, step[t] # "end"
    PROVE  Status(o) = "idle"
<1>1. InHand(C) # {}
  BY DEF InHand
<1> QED
  BY <1>1, IdleInLoop DEF AtMostOne

\* A read is started on an open socket, or completes at once.
LEMMA StartsRead ==
    ASSUME TypeInv, NEW s \in Sessions, StartRead(s), Status(Read(s)) = "idle",
           UNCHANGED <<at, cur, asked, stopped>>
    PROVE  Loop!LoopNext
BY OpKinds, StartsInLoop DEF StartRead

LEMMA TakesInLoop ==
    ASSUME ServerAssumption, NoneIsNoOperation, ServerInv, TimerInv, NEW t \in Threads, Take(t)
    PROVE  Loop!LoopNext
<1> DEFINE o == Head(ready)
<1>1. /\ cur[t] = None /\ at[t] = "loop" /\ ~stopped
      /\ ready # <<>> /\ ready \in Seq(Ops) /\ ready' = Tail(ready)
      /\ cur' = [cur EXCEPT ![t] = o] /\ t \in DOMAIN cur
      /\ UNCHANGED <<at, pending, stopped, asked>>
  BY DEF Take, ServerInv, TypeInv, TypeOK, ending
<1>2. o \in Ops
  BY <1>1, QueueStep
<1>3. \A x : InQueue(x)' <=> InQueue(x) /\ x # o
  <2>1. ASSUME NEW x
        PROVE  InQueue(x)' <=> InQueue(x) /\ x # o
    <3>1. /\ \A i : i \in InReady({x})' <=> i + 1 \in InReady({x}) /\ i \in Nat \ {0}
          /\ 1 \in InReady({x}) <=> o \in {x}
          /\ \A i \in InReady({x}) : i \in Nat \ {0}
      BY <1>1, ReadyAfterTail
    <3>2. InQueue(x) <=> InReady({x}) # {}
      BY <1>1, QueuedIs
    <3>3. InQueue(x)' <=> InReady({x})' # {}
      <4>1. ToSet(ready') = {ready'[i] : i \in 1..Len(ready')}
        BY <1>1 DEF ToSet
      <4> QED
        BY <4>1 DEF InQueue, InReady
    <3>4. CASE x = o
      <4>1. Single(InReady({x}))
        BY <1>2, <3>4, QueuedOnce DEF ServerInv, Queueing
      <4>2. \A i \in InReady({x}) : i = 1
        BY <3>1, <3>4, <4>1 DEF Single
      <4>3. ASSUME NEW i \in InReady({x})'
            PROVE  FALSE
        <5>1. i + 1 = 1 /\ i \in Nat \ {0}
          BY <3>1, <4>2, <4>3
        <5> QED
          BY <5>1
      <4> QED
        BY <3>3, <3>4, <4>3
    <3>5. CASE x # o
      <4>1. \A i \in InReady({x}) : i - 1 \in InReady({x})'
        <5>1. ASSUME NEW i \in InReady({x})
              PROVE  i - 1 \in InReady({x})'
          <6>1. i \in Nat \ {0, 1}
            BY <3>1, <3>5
          <6>2. i - 1 \in Nat \ {0} /\ (i - 1) + 1 = i
            BY <6>1
          <6> QED
            BY <3>1, <6>2
        <5> QED
          BY <5>1
      <4>2. \A i \in InReady({x})' : i + 1 \in InReady({x})
        BY <3>1
      <4> QED
        BY <3>2, <3>3, <3>5, <4>1, <4>2
    <3> QED
      BY <3>4, <3>5
  <2> QED
    BY <2>1
<1>4. InQueue(o) /\ o \notin pending
  <2>1. 1 \in InReady({o})
    BY <1>1, ReadyAfterTail
  <2>2. InQueue(o)
    BY <1>1, <2>1, QueuedIs
  <2> QED
    BY <1>2, <2>2, QueuedOnce DEF ServerInv, Queueing
<1>5. o # None
  BY <1>2 DEF NoneIsNoOperation
<1>6. \A u \in Threads : Where(u)' = IF u = t THEN "turn" ELSE Where(u)
  BY <1>1, <1>5 DEF Where, ServerInv, TypeInv, TypeOK
<1>7. Where(t) = "outside"
  BY <1>1 DEF Where
<1>8. \A x \in Ops : Status(x)' = IF x = o THEN "idle" ELSE Status(x)
  BY <1>1, <1>3, <1>4 DEF Status
<1>9. Status(o) = "ready"
  BY <1>4 DEF Status
<1>10. PICK q \in Ops : /\ Status(q) = "ready" /\ cur' = [cur EXCEPT ![t] = q]
                        /\ \A x \in Ops : Status(x)' = IF x = q THEN "idle" ELSE Status(x)
  BY <1>1, <1>2, <1>8, <1>9
<1>11. Loop!Handle(t, q)
  <2>1. \A x \in Ops : Status(x)' = [[y \in Ops |-> Status(y)] EXCEPT ![q] = "idle"][x]
    BY <1>10
  <2>2. [y \in Ops |-> Status(y)]' = [[y \in Ops |-> Status(y)] EXCEPT ![q] = "idle"]
    BY <2>1
  <2>3. \A u \in Threads : Where(u)' = [[v \in Threads |-> Where(v)] EXCEPT ![t] = "turn"][u]
    BY <1>6
  <2>4. [u \in Threads |-> Where(u)]' = [[u \in Threads |-> Where(u)] EXCEPT ![t] = "turn"]
    BY <2>3
  <2>5. [y \in Ops |-> Status(y)][q] # "idle" /\ [u \in Threads |-> Where(u)][t] = "outside"
    BY <1>7, <1>10
  <2>6. Loop!HasTurn(t)
    BY <1>1, <2>5 DEF Loop!HasTurn, Where
  <2> QED
    BY <1>1, <1>10, <2>2, <2>4, <2>5, <2>6, Zenon DEF Loop!Handle, Status, InQueue, Where
<1> QED
  BY <1>11 DEF Loop!LoopNext

\* Of each step of a handler the loop sees the operation it starts or cancels.
LEMMA HandlersInLoop ==
    ASSUME ServerAssumption, NoneIsNoOperation, ServerInv, TimerInv, NEW t \in Threads, Handler(t)
    PROVE  [Loop!LoopNext]_Loop!loopVars
<1> USE DEF ServerInv
<1>1. CASE AcceptHandler(t)
  <2> DEFINE s == accepted[cur[t][2]]
  <2>1. cur[t][2] \in Ports /\ UNCHANGED <<at, cur, asked, stopped>>
    BY <1>1, InHandler DEF AcceptHandler, Begin, Goto, ending
  <2>2. CASE s = None
    BY <1>1, <2>1, <2>2, StaysInLoop DEF AcceptHandler, Where
  <2>3. CASE s # None
    <3>1. s \in Sessions /\ StartRead(s) /\ ~AtLeastOne(Chain(s))
      BY <1>1, <2>1, <2>3 DEF AcceptHandler, TypeInv, TypeOK, TokenInv
    <3>2. Read(s) \in Ops /\ Read(s) \in Chain(s)
      BY <3>1, OpKinds DEF Chain
    <3>3. Status(Read(s)) = "idle"
      BY <3>1, <3>2, IdleInLoop DEF AtLeastOne
    <3> QED
      BY <2>1, <3>1, <3>3, StartsRead
  <2> QED
    BY <2>2, <2>3
<1>2. CASE AcceptAgain(t)
  <2>1. PICK p \in Ports : cur[t] = Accept(p)
    BY <1>2, InHandler DEF AcceptAgain, TypeInv, StepFits
  <2>2. step[t] = "again" /\ pending' = pending \cup {Accept(p)} /\ ready' = ready /\ UNCHANGED <<at, cur, asked, stopped>>
    BY <1>2, <2>1 DEF AcceptAgain, Goto, ending
  <2>3. AtMostOne(Arm(p)) /\ Accept(p) \in Ops /\ Accept(p) \in Arm(p)
    BY OpKinds DEF TokenInv, Arm
  <2>4. Status(Accept(p)) = "idle"
    BY <2>1, <2>2, <2>3, HeldIsIdle
  <2> QED
    BY <2>2, <2>3, <2>4, StartsInLoop
<1>3. CASE ReadHandler(t)
  <2>1. cur[t][2] \in Sessions /\ UNCHANGED <<at, cur, asked, stopped>>
    BY <1>3, InHandler DEF ReadHandler, Begin, Goto, ending
  <2>2. CASE UNCHANGED <<pending, ready>>
    BY <2>1, <2>2, StaysInLoop DEF Where
  <2>3. CASE Complete(Timer(cur[t][2]))
    BY <2>1, <2>3, OpKinds, CompletesInLoop
  <2> QED
    BY <1>3, <2>2, <2>3 DEF ReadHandler
<1>4. CASE FindEndpoint(t) \/ UseApp(t) \/ Call(t) \/ TlsShutdown(t)
  <2>1. UNCHANGED <<pending, ready, at, cur, asked, stopped>>
    BY <1>4 DEF FindEndpoint, UseApp, Call, TlsShutdown, Goto, threads, loop, ending
  <2> QED
    BY <2>1, StaysInLoop DEF Where
<1>5. CASE End(t)
  <2>1. /\ cur' = [cur EXCEPT ![t] = None] /\ t \in DOMAIN cur
        /\ UNCHANGED <<at, pending, ready, asked, stopped>>
        /\ cur[t] # None /\ at[t] = "loop"
    BY <1>5, InHandler DEF End, loop, ending, TypeInv, TypeOK
  <2>2. \A u \in Threads : Where(u)' = IF u = t THEN "outside" ELSE Where(u)
    BY <2>1 DEF Where, TypeInv, TypeOK
  <2>3. Where(t) = "turn"
    BY <2>1 DEF Where
  <2>4. \A x \in Ops : Status(x)' = Status(x)
    BY <2>1 DEF Status, InQueue
  <2>5. Loop!EndTurn(t)
    BY <2>1, <2>2, <2>3, <2>4 DEF Loop!EndTurn, Status, InQueue, Where
  <2> QED
    BY <2>5 DEF Loop!LoopNext
<1>6. CASE Respond(t)
  <2>1. PICK s \in Sessions : cur[t] = Read(s) /\ s = cur[t][2]
    BY <1>6, InHandler DEF Respond, TypeInv, StepFits
  <2>2. step[t] = "handle" /\ pending' = pending \cup {Write(s)} /\ ready' = ready /\ UNCHANGED <<at, cur, asked, stopped>>
    BY <1>6, <2>1 DEF Respond, Goto, ending
  <2>3. AtMostOne(Chain(s)) /\ Write(s) \in Ops /\ Write(s) \in Chain(s) /\ Read(s) \in Chain(s)
    BY OpKinds DEF TokenInv, Chain
  <2>4. Status(Write(s)) = "idle"
    BY <2>1, <2>2, <2>3, HeldIsIdle
  <2> QED
    BY <2>2, <2>3, <2>4, StartsInLoop
<1>7. CASE WriteHandler(t)
  <2>1. PICK s \in Sessions : cur[t] = Write(s) /\ s = cur[t][2]
    BY <1>7, InHandler DEF WriteHandler, Begin
  <2>2. step[t] = "begin" /\ ready' = ready /\ UNCHANGED <<at, cur, asked, stopped>>
    BY <1>7 DEF WriteHandler, Begin, Goto, ending
  <2>3. CASE pending' = pending
    BY <2>2, <2>3, StaysInLoop DEF Where
  <2>4. CASE pending' = pending \cup {Timer(s)}
    <3>1. WriteBegins(s) /\ TimerOK(s) /\ Timer(s) \in Ops
      BY <2>1, <2>2, OpKinds DEF WriteBegins, TimerInv
    <3>2. Timer(s) \notin pending /\ InReady({Timer(s)}) = {}
      BY <3>1 DEF TimerOK, TimersReady
    <3>3. InPending({Timer(s)}) = {}
      BY <3>2 DEF InPending
    <3>4. Status(Timer(s)) = "idle"
      BY <3>1, <3>2, <3>3, IdleInLoop
    <3> QED
      BY <2>2, <2>4, <3>1, <3>4, StartsInLoop
  <2> QED
    BY <1>7, <2>1, <2>3, <2>4 DEF WriteHandler
<1>8. CASE ReadOn(t)
  <2>1. PICK s \in Sessions : cur[t] = Write(s) /\ s = cur[t][2]
    BY <1>8, InHandler DEF ReadOn, TypeInv, StepFits
  <2>2. step[t] = "readon" /\ StartRead(s) /\ UNCHANGED <<at, cur, asked, stopped>>
    BY <1>8, <2>1 DEF ReadOn, Goto, ending
  <2>3. AtMostOne(Chain(s)) /\ Read(s) \in Ops /\ Write(s) \in Chain(s) /\ Read(s) \in Chain(s)
    BY OpKinds DEF TokenInv, Chain
  <2>4. Status(Read(s)) = "idle"
    BY <2>1, <2>2, <2>3, HeldIsIdle
  <2> QED
    BY <2>2, <2>4, StartsRead
<1>9. CASE TimerHandler(t)
  <2>1. cur[t][2] \in Sessions /\ UNCHANGED <<at, cur, asked, stopped>>
    BY <1>9, InHandler DEF TimerHandler, TypeInv, StepFits, Goto, ending
  <2>2. CASE UNCHANGED <<pending, ready>>
    BY <2>1, <2>2, StaysInLoop DEF Where
  <2>3. CASE Complete(Read(cur[t][2]))
    BY <2>1, <2>3, OpKinds, CompletesInLoop
  <2> QED
    BY <1>9, <2>2, <2>3 DEF TimerHandler
<1> QED
  BY <1>1, <1>2, <1>3, <1>4, <1>5, <1>6, <1>7, <1>8, <1>9 DEF Handler

LEMMA LoopStep ==
    ASSUME ServerAssumption, NoneIsNoOperation, ServerInv, TimerInv, [Next]_vars
    PROVE  [Loop!LoopNext]_Loop!loopVars
<1> USE DEF ServerInv
<1>1. CASE Armed \/ Destroy \/ UNCHANGED vars \/ \E s \in Sessions, p \in Ports : Connect(s, p)
  <2>1. UNCHANGED <<pending, ready, at, cur, asked, stopped>>
    BY <1>1 DEF Armed, Destroy, Connect, vars, threads, loop, ending
  <2> QED
    BY <2>1, StaysInLoop DEF Where
<1>2. CASE Spawn \/ Serve
  <2>1. UNCHANGED <<pending, ready, cur, asked, stopped>>
    BY <1>2 DEF Spawn, Serve, loop, ending
  <2>2. \A t \in Threads : (at[t] = "left") <=> (at'[t] = "left")
    <3>1. Main \in Threads /\ at[Main] = "none" /\ Workers \subseteq Threads
      BY <1>2 DEF Spawn, Serve, TypeInv, Stages, Threads
    <3>2. \E u \in Threads : at[u] = "none" /\ at' = [at EXCEPT ![u] = "loop"]
      BY <1>2, <3>1 DEF Spawn, Serve
    <3> QED
      BY <3>2 DEF TypeInv, TypeOK
  <2> QED
    BY <2>1, <2>2, StaysInLoop DEF Where
<1>3. CASE ArmAccept
  <2>1. PICK p \in Ports : ~Outstanding(Accept(p)) /\ pending' = pending \cup {Accept(p)}
    BY <1>3 DEF ArmAccept
  <2>2. Status(Accept(p)) = "idle" /\ Accept(p) \in Ops
    BY <2>1, OpKinds DEF Outstanding, Status, InQueue
  <2> QED
    BY <1>3, <2>1, <2>2, StartsInLoop DEF ArmAccept, threads, ending
<1>4. CASE Stop
  <2>1. /\ asked' /\ stopped' /\ UNCHANGED <<pending, ready, at, cur>>
    BY <1>4 DEF Stop, threads
  <2>2. Loop!AskToStop
    BY <2>1 DEF Loop!AskToStop
  <2> QED
    BY <2>2 DEF Loop!LoopNext
<1>5. ASSUME NEW o \in Ops, Complete(o), UNCHANGED <<at, cur, asked, stopped>>
      PROVE  Loop!LoopNext
  BY <1>5, CompletesInLoop
<1>6. CASE \/ \E p \in Ports : AcceptCompletes(p)
           \/ \E s \in Sessions : ReadCompletes(s) \/ WriteCompletes(s) \/ TimerExpires(s)
  BY <1>5, <1>6, OpKinds DEF AcceptCompletes, ReadCompletes, WriteCompletes, TimerExpires, threads, ending
<1>7. ASSUME NEW t \in Threads, Take(t)
      PROVE  Loop!LoopNext
  BY <1>7, TakesInLoop
<1>8. ASSUME NEW t \in Threads, Handler(t)
      PROVE  [Loop!LoopNext]_Loop!loopVars
  BY <1>8, HandlersInLoop
<1>9. ASSUME NEW t \in Threads, Leave(t)
      PROVE  Loop!LoopNext
  <2>1. /\ at[t] = "loop" /\ cur[t] = None /\ stopped
        /\ at' = [at EXCEPT ![t] = "left"] /\ stopped' = stopped
        /\ UNCHANGED <<cur, pending, ready, asked>>
    BY <1>9, NeverDry DEF Leave, ending, TypeInv, TypeOK
  <2>2. \A u \in Threads : Where(u)' = IF u = t THEN "returned" ELSE Where(u)
    BY <2>1 DEF Where, TypeInv, TypeOK
  <2>3. Where(t) = "outside"
    BY <2>1 DEF Where
  <2>4. Loop!Return(t)
    BY <2>1, <2>2, <2>3 DEF Loop!Return, Where
  <2> QED
    BY <2>4 DEF Loop!LoopNext
<1> QED
  BY <1>1, <1>2, <1>3, <1>4, <1>6, <1>7, <1>8, <1>9 DEF Next

LEMMA LoopStarts ==
    ASSUME Init
    PROVE  Loop!LoopInit /\ TimerInv
<1>1. pending = {} /\ ready = <<>> /\ asked = FALSE /\ stopped = FALSE
      /\ cur = [t \in Threads |-> None] /\ at = [t \in Threads |-> "none"] /\ step = [t \in Threads |-> "none"]
  BY DEF Init
<1>2. ToSet(ready) = {}
  BY <1>1 DEF ToSet
<1>3. Loop!LoopInit
  BY <1>1, <1>2 DEF Loop!LoopInit
<1>4. TimerInv
  BY <1>1 DEF TimerInv, TimerOK, TimersReady, WritesReady, InReady, Single, WriteBegins, Processing
<1> QED
  BY <1>3, <1>4

\* The server, its sessions and their timers use the io_context only as RunLoop says:
\* no operation is started again before its last completion has been handled, a
\* thread runs one handler at a time, and run() returns because of stop() only.
THEOREM LoopIsUsed == Spec => UsesTheLoop
<1>1. Init => ServerInv
  BY ServerAssumption, NoneIsNoOperation, TypeInit, TokenInit DEF ServerInv, EndingInv, Init
<1>2. Init => Loop!LoopInit /\ TimerInv
  BY LoopStarts
<1>3. ServerInv /\ TimerInv /\ [Next]_vars => ServerInv' /\ TimerInv'
  BY ServerAssumption, NoneIsNoOperation, TypeStep, TokenStep, EndingStep, TimerStep DEF ServerInv
<1>4. ServerInv /\ TimerInv /\ [Next]_vars => [Loop!LoopNext]_Loop!loopVars
  BY ServerAssumption, NoneIsNoOperation, LoopStep
<1> QED
  BY <1>1, <1>2, <1>3, <1>4, PTL DEF Spec, UsesTheLoop, Loop!LoopSpec

\* Each acceptor has one accept and each session one read or write on its way, on
\* whatever threads their handlers run.
THEOREM OneAtATime == Spec => []OneOfEach
BY ServerTyped, AcceptsKept, ChainsHold, PTL DEF OneOfEach

\* ServerApp's members are destroyed in an order in which handlers that still run
\* lose the cache and the scheduler only, and nothing runs in the end.
THEOREM EndInOrder == Spec => []OrderlyEnd
BY PartsOutliveTheirUse, NothingRunsAtTheEnd, PTL DEF OrderlyEnd

=============================================================================
