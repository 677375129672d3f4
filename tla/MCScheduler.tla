----------------------------- MODULE MCScheduler -----------------------------
(* Scheduler with days of a few units, so that a point can lie before, at and *)
(* after any time of day, and two midnights are close.                        *)
EXTENDS Scheduler
=============================================================================
