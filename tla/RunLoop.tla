------------------------------- MODULE RunLoop -------------------------------
(***************************************************************************)
(* What asio::io_context promises the threads of the server, as Server,     *)
(* SslSession and Scheduler rely on it: an operation that was started        *)
(* completes once and its handler is run by one thread, several threads run  *)
(* handlers side by side, and run() comes back only after stop(), or when    *)
(* nothing is left that could ever complete.                                 *)
(*                                                                          *)
(* IoContext shows the vendored implementation to keep these promises, and   *)
(* ServerApp is shown to use the loop in no other way.                       *)
(***************************************************************************)
EXTENDS Integers, FiniteSets

CONSTANTS Threads,  \* the threads that call run()
          Ops,      \* operations: an accept, a read, a timer, a posted function
          None      \* a thread runs no handler

VARIABLES op,       \* of each operation: "idle", "pending" (started) or "ready"
          running,  \* the operation whose handler a thread runs, or None
          at,       \* "outside" of its turns, in its "turn", or "returned"
          ending,   \* "no", or why run() may return: "asked" or "drained"
          stopped   \* run() returns

loopVars == <<op, running, at, ending, stopped>>

\* Operations that may still cause a handler to run, or to go on running.
Outstanding ==
    {o \in Ops : op[o] # "idle" \/ \E t \in Threads : running[t] = o}

LoopInit ==
    /\ op \in [Ops -> {"idle", "pending"}]
    /\ running = [t \in Threads |-> None]
    /\ at = [t \in Threads |-> "outside"]
    /\ ending = "no"
    /\ stopped = FALSE

\* An operation is started; it may complete at once.
Start(o) ==
    /\ op[o] = "idle"
    /\ \E s \in {"pending", "ready"} : op' = [op EXCEPT ![o] = s]
    /\ UNCHANGED <<running, at, ending, stopped>>

\* What it waited for has happened, or it was cancelled.
Complete(o) ==
    /\ op[o] = "pending"
    /\ op' = [op EXCEPT ![o] = "ready"]
    /\ UNCHANGED <<running, at, ending, stopped>>

\* A thread may take a turn until the loop is stopped.
HasTurn(t) == at[t] = "turn" \/ (at[t] = "outside" /\ ~stopped)

Turn(t) ==
    /\ HasTurn(t)
    /\ at' = [at EXCEPT ![t] = "turn"]
    /\ UNCHANGED <<op, running, ending, stopped>>

\* In it the thread runs the handler of an operation.
Handle(t, o) ==
    /\ HasTurn(t)
    /\ running[t] = None
    /\ op[o] # "idle"
    /\ op' = [op EXCEPT ![o] = "idle"]
    /\ running' = [running EXCEPT ![t] = o]
    /\ at' = [at EXCEPT ![t] = "turn"]
    /\ UNCHANGED <<ending, stopped>>

\* The turn ends; with nothing left the loop may come to its end.
EndTurn(t) ==
    /\ at[t] = "turn"
    /\ running' = [running EXCEPT ![t] = None]
    /\ at' = [at EXCEPT ![t] = "outside"]
    /\ \/ UNCHANGED ending
       \/ Outstanding' = {} /\ ending' = "drained"
    /\ UNCHANGED <<op, stopped>>

AskToStop ==
    /\ ending' = "asked"
    /\ stopped' = TRUE
    /\ UNCHANGED <<op, running, at>>

Drain ==
    /\ Outstanding = {}
    /\ ending' = "drained"
    /\ UNCHANGED <<op, running, at, stopped>>

Stop ==
    /\ ending # "no"
    /\ stopped' = TRUE
    /\ UNCHANGED <<op, running, at, ending>>

\* A thread comes back from run() only when the loop was stopped.
Return(t) ==
    /\ at[t] \in {"outside", "turn"}
    /\ running[t] = None
    /\ stopped
    /\ at' = [at EXCEPT ![t] = "returned"]
    /\ UNCHANGED <<op, running, ending, stopped>>

LoopNext ==
    \/ \E o \in Ops : Start(o) \/ Complete(o)
    \/ \E t \in Threads : Turn(t) \/ EndTurn(t) \/ Return(t)
    \/ \E t \in Threads, o \in Ops : Handle(t, o)
    \/ AskToStop \/ Drain \/ Stop

LoopSpec == LoopInit /\ [][LoopNext]_loopVars

=============================================================================
