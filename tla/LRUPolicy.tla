------------------------------ MODULE LRUPolicy ------------------------------
(***************************************************************************)
(* What a byte-bounded cache with per-entry lifetimes promises its callers, *)
(* with no list, no counter, no mutex and no loops: which entry may leave,  *)
(* when, and what a lookup may answer.  LRUCache is shown to implement it.  *)
(***************************************************************************)
EXTENDS Integers, FiniteSets

CONSTANTS Keys, Values, KeySize, ValueSize, Capacity, TTLs, TicksPerMs, TimeMax, Nil

VARIABLES content,  \* key -> [value, deadline], on the keys present
          newer,    \* the pairs <<a, b>> with a used more recently than b
          clock,
          answer    \* the result of the last completed call

policyVars == <<content, newer, clock, answer>>

Present == DOMAIN content
Alive(k) == k \in Present /\ (content[k].deadline = TimeMax \/ clock < content[k].deadline)

\* Every byte an entry of the cache accounts for, as a set that can be counted.
Occupied(c) == UNION {{k} \X (1..(KeySize[k] + ValueSize[c[k].value])) : k \in DOMAIN c}

Nothing == [found |-> FALSE, value |-> Nil, ms |-> 0]

Remove(S) ==
    /\ content' = [k \in Present \ S |-> content[k]]
    /\ newer' = {p \in newer : p[1] \notin S /\ p[2] \notin S}

UseNow(k) ==
    newer' = {p \in newer : p[1] # k /\ p[2] # k} \cup ({k} \X (DOMAIN content' \ {k}))

PolicyInit ==
    /\ content = [k \in {} |-> Nil]
    /\ newer = {}
    /\ clock = 0
    /\ answer = Nothing

Pass ==
    /\ clock' = clock + 1
    /\ UNCHANGED <<content, newer, answer>>

\* A call that reports nothing begins or ends.
Quiet ==
    /\ answer' = Nothing
    /\ UNCHANGED <<content, newer, clock>>

Put(k, v, t) ==
    /\ content' = [x \in Present \cup {k} |->
                     IF x = k
                       THEN [value |-> v,
                             deadline |-> IF t = 0 THEN TimeMax ELSE clock + t * TicksPerMs]
                       ELSE content[x]]
    /\ UseNow(k)
    /\ UNCHANGED <<clock, answer>>

\* An entry past its deadline may leave at any time, with no answer but a miss.
Lapse(k) ==
    /\ k \in Present
    /\ ~Alive(k)
    /\ Remove({k})
    /\ answer' = Nothing
    /\ UNCHANGED clock

\* A live entry leaves unasked only if the cache is over its capacity, and
\* then only if no entry was used less recently.
Evict(k) ==
    /\ k \in Present
    /\ Cardinality(Occupied(content)) > Capacity
    /\ \A x \in Present \ {k} : <<x, k>> \in newer
    /\ Remove({k})
    /\ UNCHANGED <<clock, answer>>

Miss(k) ==
    /\ k \notin Present
    /\ Quiet

Hit(k) ==
    /\ Alive(k)
    /\ answer' = [found |-> TRUE, value |-> content[k].value, ms |-> 0]
    /\ UseNow(k)
    /\ UNCHANGED <<content, clock>>

Probe(k) ==
    /\ Alive(k)
    /\ answer' = [found |-> TRUE, value |-> Nil, ms |-> 0]
    /\ UNCHANGED <<content, newer, clock>>

\* A lifetime is rounded down to milliseconds, so it is never overstated.
Lifetime(k) ==
    /\ Alive(k)
    /\ content[k].deadline # TimeMax
    /\ \E n \in 0..(content[k].deadline - clock) :
         /\ n * TicksPerMs <= content[k].deadline - clock
         /\ (n + 1) * TicksPerMs > content[k].deadline - clock
         /\ answer' = [found |-> TRUE, value |-> Nil, ms |-> n]
    /\ UNCHANGED <<content, newer, clock>>

Delete(k) ==
    /\ k \in Present
    /\ Remove({k})
    /\ answer' = [found |-> TRUE, value |-> Nil, ms |-> 0]
    /\ UNCHANGED clock

Wipe ==
    /\ Remove(Present)
    /\ answer' = Nothing
    /\ UNCHANGED clock

PolicyNext ==
    \/ Pass
    \/ Quiet
    \/ Wipe
    \/ \E k \in Keys :
         \/ Lapse(k)
         \/ Evict(k)
         \/ Miss(k)
         \/ Hit(k)
         \/ Probe(k)
         \/ Lifetime(k)
         \/ Delete(k)
         \/ \E v \in Values, t \in TTLs : Put(k, v, t)

PolicySpec == PolicyInit /\ [][PolicyNext]_policyVars

=============================================================================
