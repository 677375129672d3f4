----------------------------- MODULE MCLRUCache -----------------------------
(* A cache of 6 bytes, one-byte keys, and values of 1, 3 and 6 bytes: three *)
(* small entries fill it, a middle one and a small one fill it too, two     *)
(* middle ones do not fit, and a large one does not even fit alone.         *)
EXTENDS LRUCache

CONSTANTS small, middle, large

MCValues == {small, middle, large}
MCKeySize == [k \in Keys |-> 1]
MCValueSize == [v \in MCValues |-> CASE v = small -> 1 [] v = middle -> 3 [] v = large -> 6]
MCTTLs == {-1, 0, 1}
=============================================================================
