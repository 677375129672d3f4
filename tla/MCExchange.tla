----------------------------- MODULE MCExchange ------------------------------
(* One path, two methods, two parameters, bodies of two lengths. *)
EXTENDS Exchange
CONSTANTS v1, v2
MCData == {<<v1>>, <<v1, v2>>}
=============================================================================
