------------------------------ MODULE ServerApp ------------------------------
(***************************************************************************)
(* A program made with the library: ServerApp and its Server               *)
(* (src/http/ServerApp.{h,cpp}, Server.cpp), whose worker threads and whose *)
(* main thread run one io_context, the sessions they serve, and the end of  *)
(* it all: stop(), the return of run() and the destructors.                 *)
(*                                                                          *)
(* The io_context is what RunLoop promises, with its one queue of completed *)
(* operations.  Of a session only the order of its operations is kept;       *)
(* HttpSession has the rest.  A step starts or completes one operation, or   *)
(* is one thing a handler does that another thread could see.                *)
(*                                                                          *)
(* Handlers of the application run on these threads.  They may use the parts *)
(* of the application and call other services with a blocking call; the      *)
(* sessions in Silent are those whose calls are never answered.              *)
(***************************************************************************)
EXTENDS Integers, FiniteSets, SequencesExt

CONSTANTS Workers,      \* the threads Server::run starts
          Main,         \* the thread that calls ServerApp::run
          Ports,        \* the acceptors: HTTP, HTTPS or both
          Tls,          \* the ports with HTTPS
          Sessions,     \* connections clients may open
          Silent,       \* those whose blocking calls never return
          MaxRequests,  \* bound: requests that arrive
          MaxFailures,  \* bound: accepts that fail, for want of a descriptor say
          None

ASSUME ServerAssumption ==
    /\ IsFiniteSet(Workers) /\ IsFiniteSet(Ports) /\ IsFiniteSet(Sessions)
    /\ Main \notin Workers
    /\ Ports # {}
    /\ Tls \subseteq Ports
    /\ Silent \subseteq Sessions
    /\ MaxRequests \in Nat /\ MaxFailures \in Nat
    /\ None \notin Ports \cup Sessions

VARIABLES main,      \* what the main thread does
          at,        \* of each thread: "none", in the "loop", or "left" run()
          cur,       \* the operation whose handler a thread runs, or None
          step,      \* where in that handler it is
          pending,   \* operations that were started
          ready,     \* operations that have completed, first come first served
          accepted,  \* of each port: the session its last accept gave, or None
          result,    \* of each session: how its read ended, "data" or "error"
          timer,     \* of each session: how its wait ended, "expired" or "aborted"
          sock,      \* of each session: "none", "backlog", "open" or "closed"
          port,      \* where each session connected
          keep,      \* _keep_alive of each session
          requests,  \* requests that have arrived
          failures,  \* accepts that have failed
          stopped,   \* the io_context was stopped
          asked,     \* history: somebody called stop()
          destroyed, \* how many of the destructors have run
          lost       \* history: parts that were used after that

threads == <<main, at, cur, step>>
loop == <<pending, ready, stopped>>
clients == <<sock, port, requests, failures>>
session == <<accepted, result, timer, keep, clients>>
ending == <<asked, destroyed, lost>>
vars == <<threads, loop, session, ending>>

Threads == Workers \cup {Main}

Accept(p) == <<"accept", p>>
Read(s) == <<"read", s>>
Write(s) == <<"write", s>>
Timer(s) == <<"timer", s>>
OpsOf(s) == {Read(s), Write(s), Timer(s)}
Ops == {Accept(p) : p \in Ports} \cup UNION {OpsOf(s) : s \in Sessions}

ASSUME NoneIsNoOperation == None \notin Ops

Parts == {"cache", "scheduler", "endpoints", "mysql", "context"}

\* Mutant: ~Server does not join.
Destructors_NoJoin == <<"cache", "scheduler", "endpoints", "mysql", "context">>

\* ServerApp's members are destroyed in the reverse of their declaration; the
\* join is the body of ~Server, before the members of Server.
Destructors == <<"cache", "scheduler", "join", "endpoints", "mysql", "context">>

Released == ToSet(SubSeq(Destructors, 1, destroyed))

\* Work of the io_context: run() goes on as long as there is some.
Outstanding(o) == o \in pending \/ o \in ToSet(ready) \/ \E t \in Threads : cur[t] = o

\* ServerApp's constructor has opened the acceptors and connected the pool.
Init ==
    /\ main = "arm"
    /\ at = [t \in Threads |-> "none"]
    /\ cur = [t \in Threads |-> None]
    /\ step = [t \in Threads |-> "none"]
    /\ pending = {}
    /\ ready = <<>>
    /\ accepted = [p \in Ports |-> None]
    /\ result = [s \in Sessions |-> "data"]
    /\ timer = [s \in Sessions |-> "expired"]
    /\ sock = [s \in Sessions |-> "none"]
    /\ port = [s \in Sessions |-> CHOOSE p \in Ports : TRUE]
    /\ keep = [s \in Sessions |-> FALSE]
    /\ requests = 0
    /\ failures = 0
    /\ stopped = FALSE
    /\ asked = FALSE
    /\ destroyed = 0
    /\ lost = {}

-----------------------------------------------------------------------------
(* Server::run and ServerApp::run.                                          *)

\* accept_http and accept_https are armed before any thread is there.
ArmAccept ==
    /\ main = "arm"
    /\ \E p \in Ports : ~Outstanding(Accept(p)) /\ pending' = pending \cup {Accept(p)}
    /\ UNCHANGED <<threads, ready, stopped, session, ending>>

Armed ==
    /\ main = "arm"
    /\ \A p \in Ports : Outstanding(Accept(p))
    /\ main' = "spawn"
    /\ UNCHANGED <<at, cur, step, loop, session, ending>>

Spawn ==
    /\ main = "spawn"
    /\ \E w \in Workers : at[w] = "none" /\ at' = [at EXCEPT ![w] = "loop"]
    /\ UNCHANGED <<main, cur, step, loop, session, ending>>

\* All threads are started, or one could not be and the exception is caught:
\* in both cases the main thread goes on to run the loop.
Serve ==
    /\ main = "spawn"
    /\ main' = "serve"
    /\ at' = [at EXCEPT ![Main] = "loop"]
    /\ UNCHANGED <<cur, step, loop, session, ending>>

-----------------------------------------------------------------------------
(* The clients and the system.                                              *)

Connect(s, p) ==
    /\ sock[s] = "none"
    /\ "context" \notin Released
    /\ sock' = [sock EXCEPT ![s] = "backlog"]
    /\ port' = [port EXCEPT ![s] = p]
    /\ UNCHANGED <<threads, loop, accepted, result, timer, keep, requests, failures, ending>>

Complete(o) ==
    /\ o \in pending
    /\ pending' = pending \ {o}
    /\ ready' = Append(ready, o)

\* A connection is there: the accept takes it, or fails and leaves it.
AcceptCompletes(p) ==
    /\ Complete(Accept(p))
    /\ \E s \in Sessions :
         /\ sock[s] = "backlog" /\ port[s] = p
         /\ \/ /\ accepted' = [accepted EXCEPT ![p] = s]
               /\ sock' = [sock EXCEPT ![s] = "open"]
               /\ UNCHANGED failures
            \/ /\ failures < MaxFailures
               /\ failures' = failures + 1
               /\ UNCHANGED <<accepted, sock>>
    /\ UNCHANGED <<threads, stopped, result, timer, port, keep, requests, ending>>

\* A request has arrived, or the client has gone.
ReadCompletes(s) ==
    /\ Complete(Read(s))
    /\ \/ /\ requests < MaxRequests
          /\ requests' = requests + 1
          /\ result' = [result EXCEPT ![s] = "data"]
       \/ /\ result' = [result EXCEPT ![s] = "error"]
          /\ UNCHANGED requests
    /\ UNCHANGED <<threads, stopped, accepted, timer, sock, port, keep, failures, ending>>

WriteCompletes(s) ==
    /\ Complete(Write(s))
    /\ UNCHANGED <<threads, stopped, session, ending>>

TimerExpires(s) ==
    /\ Complete(Timer(s))
    /\ timer' = [timer EXCEPT ![s] = "expired"]
    /\ UNCHANGED <<threads, stopped, accepted, result, keep, clients, ending>>

-----------------------------------------------------------------------------
(* The threads of the loop.                                                 *)

\* Mutant: stop() is looked at only when nothing is left.
Take_Stopped(t) ==
    /\ at[t] = "loop"
    /\ cur[t] = None
    /\ ready # <<>>
    /\ cur' = [cur EXCEPT ![t] = Head(ready)]
    /\ step' = [step EXCEPT ![t] = IF Head(ready)[1] = "timer" THEN timer[Head(ready)[2]] ELSE "begin"]
    /\ ready' = Tail(ready)
    /\ UNCHANGED <<main, at, pending, stopped, session, ending>>

\* A thread takes the first completed operation.
Take(t) ==
    /\ at[t] = "loop"
    /\ cur[t] = None
    /\ ~stopped
    /\ ready # <<>>
    /\ cur' = [cur EXCEPT ![t] = Head(ready)]
    /\ step' = [step EXCEPT ![t] = IF Head(ready)[1] = "timer" THEN timer[Head(ready)[2]] ELSE "begin"]
    /\ ready' = Tail(ready)
    /\ UNCHANGED <<main, at, pending, stopped, session, ending>>

Begin(t, kind) == cur[t] # None /\ cur[t][1] = kind /\ step[t] = "begin"
Goto(t, next) == step' = [step EXCEPT ![t] = next] /\ UNCHANGED <<main, at, cur>>

\* A read or wait on a socket that is closed completes at once with an error.
StartRead(s) ==
    IF sock[s] = "open"
      THEN pending' = pending \cup {Read(s)} /\ UNCHANGED <<ready, result>>
      ELSE ready' = Append(ready, Read(s)) /\ result' = [result EXCEPT ![s] = "error"] /\ UNCHANGED pending

\* Mutant: after an accept that failed none is started again.
AcceptHandler_OnceMore(t) ==
    /\ Begin(t, "accept")
    /\ LET s == accepted[cur[t][2]]
       IN  IF s = None
             THEN Goto(t, "end") /\ UNCHANGED <<pending, ready, result, accepted>>
             ELSE StartRead(s) /\ Goto(t, "again") /\ accepted' = [accepted EXCEPT ![cur[t][2]] = None]
    /\ UNCHANGED <<stopped, timer, keep, clients, ending>>

\* The handler of an accept starts the session it was given, if any...
AcceptHandler(t) ==
    /\ Begin(t, "accept")
    /\ LET s == accepted[cur[t][2]]
       IN  IF s = None
             THEN UNCHANGED <<pending, ready, result, accepted>>
             ELSE StartRead(s) /\ accepted' = [accepted EXCEPT ![cur[t][2]] = None]
    /\ Goto(t, "again")
    /\ UNCHANGED <<stopped, timer, keep, clients, ending>>

\* ...and starts the next accept in either case.
AcceptAgain(t) ==
    /\ step[t] = "again"
    /\ pending' = pending \cup {cur[t]}
    /\ Goto(t, "end")
    /\ UNCHANGED <<ready, stopped, session, ending>>

\* The handler of a read: an error ends the session, else the keep-alive timer
\* is cancelled, unless it has expired already, and the request processed.
ReadHandler(t) ==
    /\ Begin(t, "read")
    /\ LET s == cur[t][2]
       IN  IF result[s] = "error"
             THEN Goto(t, "end") /\ UNCHANGED <<pending, ready, timer>>
             ELSE /\ Goto(t, "process")
                  /\ IF Timer(s) \in pending
                       THEN Complete(Timer(s)) /\ timer' = [timer EXCEPT ![s] = "aborted"]
                       ELSE UNCHANGED <<pending, ready, timer>>
    /\ UNCHANGED <<stopped, accepted, result, keep, clients, ending>>

\* Mutant: without an endpoint nothing is answered.
FindEndpoint_Quits(t) ==
    /\ step[t] = "process"
    /\ \E next \in {"handle", "end"} : Goto(t, next)
    /\ UNCHANGED <<loop, session, ending>>

Use(part) == lost' = lost \cup ({part} \cap Released)

\* process_request looks the endpoint up...
FindEndpoint(t) ==
    /\ step[t] = "process"
    /\ Use("endpoints")
    /\ Goto(t, "handle")
    /\ UNCHANGED <<loop, session, asked, destroyed>>

\* ...and its handler uses the application: get_mysql, get_lru_cache or
\* get_scheduler...
UseApp(t) ==
    /\ step[t] = "handle"
    /\ \E part \in {"cache", "scheduler", "mysql"} : Use(part)
    /\ UNCHANGED <<threads, loop, session, asked, destroyed>>

\* ...and may call another service that never answers.
Call(t) ==
    /\ step[t] = "handle"
    /\ cur[t][2] \in Silent
    /\ Goto(t, "call")
    /\ UNCHANGED <<loop, session, ending>>

\* Mutant: the next read is started together with the write.
Respond_ReadsToo(t) ==
    /\ step[t] = "handle"
    /\ pending' = pending \cup {Write(cur[t][2]), Read(cur[t][2])}
    /\ Goto(t, "end")
    /\ \E k \in BOOLEAN : keep' = [keep EXCEPT ![cur[t][2]] = k]
    /\ UNCHANGED <<ready, stopped, accepted, result, timer, clients, ending>>

\* The response is formatted and do_write starts to write it.
Respond(t) ==
    /\ step[t] = "handle"
    /\ pending' = pending \cup {Write(cur[t][2])}
    /\ Goto(t, "end")
    /\ \E k \in BOOLEAN : keep' = [keep EXCEPT ![cur[t][2]] = k]
    /\ UNCHANGED <<ready, stopped, accepted, result, timer, clients, ending>>

\* The handler of a write arms the keep-alive timer and reads on, or shuts the
\* socket down; TLS waits for the client to answer that.
WriteHandler(t) ==
    /\ Begin(t, "write")
    /\ LET s == cur[t][2]
       IN  IF keep[s]
             THEN pending' = pending \cup {Timer(s)} /\ Goto(t, "readon")
             ELSE UNCHANGED pending /\ Goto(t, IF port[s] \in Tls THEN "shutdown" ELSE "end")
    /\ UNCHANGED <<ready, stopped, session, ending>>

ReadOn(t) ==
    /\ step[t] = "readon"
    /\ StartRead(cur[t][2])
    /\ Goto(t, "end")
    /\ UNCHANGED <<stopped, accepted, timer, keep, clients, ending>>

TlsShutdown(t) ==
    /\ step[t] = "shutdown"
    /\ cur[t][2] \notin Silent
    /\ Goto(t, "end")
    /\ UNCHANGED <<loop, session, ending>>

\* The handler of the timer closes the socket, and a read that waits on it
\* completes; a wait that was cancelled does nothing.
TimerHandler(t) ==
    /\ step[t] \in {"expired", "aborted"}
    /\ LET s == cur[t][2]
       IN  IF step[t] = "aborted"
             THEN UNCHANGED <<pending, ready, result, sock>>
             ELSE /\ sock' = [sock EXCEPT ![s] = "closed"]
                  /\ IF Read(s) \in pending
                       THEN Complete(Read(s)) /\ result' = [result EXCEPT ![s] = "error"]
                       ELSE UNCHANGED <<pending, ready, result>>
    /\ Goto(t, "end")
    /\ UNCHANGED <<stopped, accepted, timer, port, keep, requests, failures, ending>>

End(t) ==
    /\ step[t] = "end"
    /\ cur' = [cur EXCEPT ![t] = None]
    /\ step' = [step EXCEPT ![t] = "none"]
    /\ UNCHANGED <<main, at, loop, session, ending>>

\* Mutant: it returns only when nothing is left.
Leave_Drained(t) ==
    /\ at[t] = "loop"
    /\ cur[t] = None
    /\ ~\E o \in Ops : Outstanding(o)
    /\ at' = [at EXCEPT ![t] = "left"]
    /\ stopped' = TRUE
    /\ UNCHANGED <<main, cur, step, pending, ready, session, ending>>

\* run() returns when the loop was stopped or has nothing left to do.
Leave(t) ==
    /\ at[t] = "loop"
    /\ cur[t] = None
    /\ stopped \/ ~\E o \in Ops : Outstanding(o)
    /\ at' = [at EXCEPT ![t] = "left"]
    /\ stopped' = TRUE
    /\ UNCHANGED <<main, cur, step, pending, ready, session, ending>>

-----------------------------------------------------------------------------
(* The end.                                                                 *)

\* io_context::stop, from a handler, a signal or another thread.
Stop ==
    /\ main \in {"spawn", "serve"}
    /\ ~asked
    /\ asked' = TRUE
    /\ stopped' = TRUE
    /\ UNCHANGED <<threads, pending, ready, session, destroyed, lost>>

\* ServerApp::run has returned and the application goes out of scope.
Destroy ==
    /\ at[Main] = "left"
    /\ main # "gone"
    /\ Destructors[destroyed + 1] = "join" => \A w \in Workers : at[w] # "loop"
    /\ destroyed' = destroyed + 1
    /\ main' = IF destroyed' = Len(Destructors) THEN "gone" ELSE main
    /\ UNCHANGED <<at, cur, step, loop, session, asked, lost>>

\* A handler that waits for an answer that never comes.
Stuck(t) == step[t] \in {"call", "shutdown"} /\ cur[t][2] \in Silent

Handler(t) ==
    \/ AcceptHandler(t) \/ AcceptAgain(t) \/ ReadHandler(t) \/ FindEndpoint(t) \/ UseApp(t)
    \/ Call(t) \/ Respond(t) \/ WriteHandler(t) \/ ReadOn(t) \/ TlsShutdown(t)
    \/ TimerHandler(t) \/ End(t)

Next ==
    \/ ArmAccept \/ Armed \/ Spawn \/ Serve \/ Stop \/ Destroy
    \/ \E s \in Sessions, p \in Ports : Connect(s, p)
    \/ \E p \in Ports : AcceptCompletes(p)
    \/ \E s \in Sessions : ReadCompletes(s) \/ WriteCompletes(s) \/ TimerExpires(s)
    \/ \E t \in Threads : Take(t) \/ Handler(t) \/ Leave(t)

Spec == Init /\ [][Next]_vars

\* Threads run and blocking calls come to their end, but not those of the silent
\* sessions.  Of the world outside only connections that are there are noticed.
FairSpec ==
    /\ Spec
    /\ WF_vars(ArmAccept) /\ WF_vars(Armed) /\ WF_vars(Serve) /\ WF_vars(Destroy)
    /\ \A p \in Ports : WF_vars(AcceptCompletes(p))
    /\ \A t \in Threads : WF_vars(Take(t) \/ Leave(t)) /\ WF_vars(Handler(t))

-----------------------------------------------------------------------------
(* Properties.                                                              *)

TypeOK ==
    /\ main \in {"arm", "spawn", "serve", "gone"}
    /\ at \in [Threads -> {"none", "loop", "left"}]
    /\ cur \in [Threads -> Ops \cup {None}]
    /\ step \in [Threads -> {"none", "begin", "expired", "aborted", "again", "process", "handle", "call",
                             "readon", "shutdown", "end"}]
    /\ pending \in SUBSET Ops
    /\ ready \in Seq(Ops)
    /\ accepted \in [Ports -> Sessions \cup {None}]
    /\ result \in [Sessions -> {"data", "error"}]
    /\ timer \in [Sessions -> {"expired", "aborted"}]
    /\ sock \in [Sessions -> {"none", "backlog", "open", "closed"}]
    /\ port \in [Sessions -> Ports]
    /\ keep \in [Sessions -> BOOLEAN]
    /\ requests \in 0..MaxRequests
    /\ failures \in 0..MaxFailures
    /\ stopped \in BOOLEAN
    /\ asked \in BOOLEAN
    /\ destroyed \in 0..Len(Destructors)
    /\ lost \in SUBSET Parts

\* No thread leaves run() before somebody asks the loop to stop, whatever accepts
\* fail and sessions end: the server does not die of having nothing to do.
ServesUntilStopped == (\E t \in Threads : at[t] = "left") => asked

\* From the moment it is armed each acceptor has one accept on its way: started,
\* completed, or in a handler that has not started the next one yet.
Count(S) == Cardinality(S)
OneAcceptEach ==
    main # "arm" => \A p \in Ports :
      Count({i \in 1..Len(ready) : ready[i] = Accept(p)})
      + Count({t \in Threads : cur[t] = Accept(p) /\ step[t] # "end"})
      + (IF Accept(p) \in pending THEN 1 ELSE 0) = 1

\* A session has no strand, and its handlers run on any thread.  Still at most one
\* read or write of it is on its way or being handled at any time: its buffers
\* are used by one thread at a time.  Only the timer's handler may run beside.
OneChain ==
    \A s \in Sessions :
      Count({o \in {Read(s), Write(s)} : o \in pending})
      + Count({i \in 1..Len(ready) : ready[i] \in {Read(s), Write(s)}})
      + Count({t \in Threads : cur[t] \in {Read(s), Write(s)} /\ step[t] # "end"}) <= 1

\* No thread works on an acceptor or on the buffers of a session while another one
\* does, and none of them is forgotten.
OneOfEach == TypeOK /\ OneAcceptEach /\ OneChain

\* Handlers that still run while main destroys the application find the database
\* and the endpoints in place.  The cache and the scheduler may be gone: they are
\* destroyed before ~Server waits for the workers.
OnlyCacheAndSchedulerAreLost == lost \subseteq {"cache", "scheduler"}

\* Nothing is run and nobody is in the loop when the last destructors run.
QuietAtTheEnd ==
    {"endpoints", "mysql", "context"} \cap Released # {} =>
      \A t \in Threads : at[t] # "loop" /\ cur[t] = None

\* What the destructors of the application rely on.
OrderlyEnd == OnlyCacheAndSchedulerAreLost /\ QuietAtTheEnd

AllStuck == at[Main] = "loop" /\ \A t \in Threads : at[t] = "loop" => Stuck(t)

\* A request that was read is answered although other handlers are stuck for
\* ever, as long as there is a thread left that is not.
RequestsAnswered ==
    \A s \in Sessions \ Silent :
      (Read(s) \in ToSet(ready) /\ result[s] = "data")
        ~> (Outstanding(Write(s)) \/ stopped \/ AllStuck)

\* A client that connects is accepted, although accepts failed
\* before, as long as a thread is left that is not stuck.
ClientsAccepted ==
    \A s \in Sessions : sock[s] = "backlog" ~> (sock[s] # "backlog" \/ stopped \/ AllStuck)

\* Clients are served as long as one thread is left to do it.
ClientsServed == ClientsAccepted /\ RequestsAnswered

\* After stop() the main thread and the workers come back, ~Server's join ends and
\* the application is destroyed, unless a handler is stuck.
StopEndsTheProgram == asked ~> (main = "gone" \/ \E t \in Threads : Stuck(t))

\* The server uses its io_context only as RunLoop says.
Loop == INSTANCE RunLoop WITH
    op <- [o \in Ops |-> IF o \in pending THEN "pending"
                         ELSE IF o \in ToSet(ready) THEN "ready" ELSE "idle"],
    running <- cur,
    at <- [t \in Threads |-> IF at[t] = "left" THEN "returned"
                             ELSE IF cur[t] = None THEN "outside" ELSE "turn"],
    ending <- IF asked THEN "asked" ELSE "no",
    stopped <- stopped

UsesTheLoop == Loop!LoopSpec

=============================================================================
