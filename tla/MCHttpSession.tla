---------------------------- MODULE MCHttpSession ----------------------------
(* Five requests that can be pipelined: two that ask for "100 Continue",    *)
(* with and without a body, one larger than the first two buffer sizes, and *)
(* one that asks to close and is followed by bytes never to be processed.   *)
EXTENDS HttpSession

MCScript == << [head |-> 2, body |-> 1, expect |-> FALSE, close |-> FALSE],
               [head |-> 2, body |-> 3, expect |-> TRUE, close |-> FALSE],
               [head |-> 1, body |-> 0, expect |-> TRUE, close |-> FALSE],
               [head |-> 2, body |-> 1, expect |-> FALSE, close |-> TRUE],
               [head |-> 1, body |-> 0, expect |-> FALSE, close |-> FALSE] >>
=============================================================================
