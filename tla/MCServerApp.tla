----------------------------- MODULE MCServerApp -----------------------------
(* One worker and the main thread, as the examples run. *)
EXTENDS ServerApp
=============================================================================
