----------------------------- MODULE MCIoContext -----------------------------
(* Two threads that run the loop and one outside of it. *)
EXTENDS IoContext
=============================================================================
