------------------------------ MODULE LRUCache ------------------------------
(***************************************************************************)
(* The string cache of src/http/LRUCache.{h,cpp}: a hash map of entries, a *)
(* recency list whose front is the most recently used key, a byte counter  *)
(* and one mutex taken by every public operation.                          *)
(*                                                                         *)
(* The mutex makes operations mutually exclusive, so one call at a time is *)
(* in progress (pc # "idle").  It does not stop the clock: an operation    *)
(* reads steady_clock several times, and Tick may happen between any two   *)
(* of the reads.  set, prune and ttl_left are therefore several steps, one *)
(* per clock read or loop iteration; the operations with one clock read    *)
(* are one step.                                                           *)
(***************************************************************************)
EXTENDS Integers, FiniteSets, SequencesExt

CONSTANTS Keys,        \* the keys callers use
          Values,      \* the values callers store
          KeySize,     \* key.size()
          ValueSize,   \* value.size()
          Capacity,    \* capacity_bytes_
          TTLs,        \* the ttl_ms arguments, in milliseconds (0: no expiry)
          TicksPerMs,  \* clock ticks in a millisecond
          TimeMax,     \* Clock::time_point::max()
          MaxTime,     \* bound on the clock
          Nil          \* nullopt

ASSUME SizeAssumption ==
    /\ KeySize \in [Keys -> Nat]
    /\ ValueSize \in [Values -> Nat]
    /\ Capacity \in Nat

ASSUME TimeAssumption ==
    /\ TTLs \subseteq Int
    /\ TicksPerMs \in Nat \ {0}
    /\ MaxTime \in Nat
    /\ TimeMax \in Int
    /\ MaxTime < TimeMax
    /\ \A t \in TTLs : MaxTime + t * TicksPerMs < TimeMax

ASSUME NilAssumption == Nil \notin Values

VARIABLES map,     \* map_: a function on the keys present
          lru,     \* lru_
          used,    \* used_bytes_ (below zero stands for size_t underflow)
          now,     \* the steady clock
          pc,      \* where the call that holds mutex_ is; "idle": mutex_ is free
          call,    \* the arguments of that call; "began", the time it took the
                   \* mutex, is history that only properties read
          cursor,  \* the list iterator of prune_unlocked
          ret      \* what the last completed call returned

store == <<map, lru, used>>
vars == <<map, lru, used, now, pc, call, cursor, ret>>

Entry == [value : Values, key_size : Nat, value_size : Nat, expire_at : Int]

NoCall == [op |-> "none", key |-> Nil, value |-> Nil, ttl |-> 0, began |-> 0]
Void == [found |-> FALSE, value |-> Nil, ms |-> 0]
Found == [found |-> TRUE, value |-> Nil, ms |-> 0]
FoundValue(v) == [found |-> TRUE, value |-> v, ms |-> 0]
FoundTtl(n) == [found |-> TRUE, value |-> Nil, ms |-> n]

-----------------------------------------------------------------------------
(* The private helpers.                                                     *)

no_expire_time == TimeMax
is_no_expire(e) == e.expire_at = no_expire_time
is_expired(e) == ~is_no_expire(e) /\ now >= e.expire_at

ExpireAt(ttl) == IF ttl = 0 THEN no_expire_time ELSE now + ttl * TicksPerMs

Bytes(e) == e.key_size + e.value_size

\* Node::lru_it: where the list holds the key.
Position(k) == CHOOSE i \in 1..Len(lru) : lru[i] = k

\* Mutant: no move at all.
touch_Nothing(k) == lru' = lru

touch(k) == lru' = <<k>> \o RemoveAt(lru, Position(k))

MapWithout(k) == [x \in DOMAIN map \ {k} |-> map[x]]

\* erase_it: the counter, the list node and the map node, in that order.
erase_it(k) ==
    /\ used' = used - Bytes(map[k])
    /\ lru' = RemoveAt(lru, Position(k))
    /\ map' = MapWithout(k)

Missing(k) == k \notin DOMAIN map
Expired(k) == k \in DOMAIN map /\ is_expired(map[k])
Live(k) == k \in DOMAIN map /\ ~is_expired(map[k])

Init ==
    /\ map = [k \in {} |-> Nil]
    /\ lru = <<>>
    /\ used = 0
    /\ now = 0
    /\ pc = "idle"
    /\ call = NoCall
    /\ cursor = 1
    /\ ret = Void

Tick ==
    /\ now < MaxTime
    /\ now' = now + 1
    /\ UNCHANGED <<map, lru, used, pc, call, cursor, ret>>

\* mutex_ is taken for an operation of several steps, and given back.
Enter(label, c) ==
    /\ pc = "idle"
    /\ pc' = label
    /\ call' = c
    /\ cursor' = 1
    /\ ret' = Void

Leave(r) ==
    /\ pc' = "idle"
    /\ call' = NoCall
    /\ cursor' = 1
    /\ ret' = r

\* An operation of one step runs from lock to unlock.
Locked(r) ==
    /\ pc = "idle"
    /\ ret' = r
    /\ UNCHANGED <<now, pc, call, cursor>>

-----------------------------------------------------------------------------
(* set: prune_unlocked, one clock read for the expiry, insert or update,    *)
(* then the eviction loop.                                                  *)

SetBegin(k, v, t) ==
    /\ Enter("prune", [op |-> "set", key |-> k, value |-> v, ttl |-> t, began |-> now])
    /\ UNCHANGED <<store, now>>

PruneBegin ==
    /\ Enter("prune", [NoCall EXCEPT !.op = "prune", !.began = now])
    /\ UNCHANGED <<store, now>>

\* Where the list iterator goes; it moves before an erase, so after one the
\* cursor already stands on the next node.  Mutant: it skips that node.
Advanced_Skips(erased) == cursor + 1
Advanced(erased) == IF erased THEN cursor ELSE cursor + 1

\* One iteration of prune_unlocked's loop.
PruneStep ==
    /\ pc = "prune"
    /\ cursor <= Len(lru)
    /\ IF Expired(lru[cursor]) THEN erase_it(lru[cursor]) ELSE UNCHANGED store
    /\ cursor' = Advanced(Expired(lru[cursor]))
    /\ UNCHANGED <<now, pc, call, ret>>

PruneDone ==
    /\ pc = "prune"
    /\ cursor > Len(lru)
    /\ IF call.op = "set"
         THEN pc' = "store" /\ cursor' = 1 /\ UNCHANGED <<call, ret>>
         ELSE Leave(Void)
    /\ UNCHANGED <<store, now>>

NewEntry(c) == [value |-> c.value,
                key_size |-> KeySize[c.key],
                value_size |-> ValueSize[c.value],
                expire_at |-> ExpireAt(c.ttl)]

\* The update branch; the key size of an equal key never differs, and the
\* code's test for it is kept in the general form of the difference.
SetUpdate ==
    /\ pc = "store"
    /\ call.key \in DOMAIN map
    /\ used' = used - Bytes(map[call.key]) + Bytes(NewEntry(call))
    /\ map' = [map EXCEPT ![call.key] = NewEntry(call)]
    /\ touch(call.key)
    /\ pc' = "evict"
    /\ UNCHANGED <<now, call, cursor, ret>>

\* lru_.push_front(key).  Mutant: at the back.
Linked_Back(k) == Append(lru, k)
Linked(k) == <<k>> \o lru

SetInsert ==
    /\ pc = "store"
    /\ call.key \notin DOMAIN map
    /\ lru' = Linked(call.key)
    /\ map' = [x \in DOMAIN map \cup {call.key} |->
                 IF x = call.key THEN NewEntry(call) ELSE map[x]]
    /\ used' = used + Bytes(NewEntry(call))
    /\ pc' = "evict"
    /\ UNCHANGED <<now, call, cursor, ret>>

\* Mutant: one byte too many is tolerated.
OverCapacity_ByOne == used > Capacity + 1 /\ lru # <<>>

OverCapacity == used > Capacity /\ lru # <<>>

\* One iteration of evict_over_capacity: the node at the back goes; a node
\* with no map entry would only be unlinked.
EvictStep ==
    /\ pc = "evict"
    /\ OverCapacity
    /\ LET back == lru[Len(lru)] IN
         /\ lru' = SubSeq(lru, 1, Len(lru) - 1)
         /\ map' = MapWithout(back)
         /\ used' = IF back \in DOMAIN map THEN used - Bytes(map[back]) ELSE used
    /\ UNCHANGED <<now, pc, call, cursor, ret>>

SetEnd ==
    /\ pc = "evict"
    /\ ~OverCapacity
    /\ Leave(Void)
    /\ UNCHANGED <<store, now>>

-----------------------------------------------------------------------------
(* The lookups.  Each erases the key it finds expired.                      *)

\* What get and contains answer without touching an entry that is live.
LookupFails(k) ==
    \/ Missing(k) /\ Locked(Void) /\ UNCHANGED store
    \/ Expired(k) /\ Locked(Void) /\ erase_it(k)

GetHit(k) ==
    /\ Live(k)
    /\ Locked(FoundValue(map[k].value))
    /\ touch(k)
    /\ UNCHANGED <<map, used>>

get(k) == LookupFails(k) \/ GetHit(k)

ContainsHit(k) ==
    /\ Live(k)
    /\ Locked(Found)
    /\ UNCHANGED store

contains(k) == LookupFails(k) \/ ContainsHit(k)

TtlNone(k) ==
    /\ Live(k)
    /\ is_no_expire(map[k])
    /\ Locked(Void)
    /\ UNCHANGED store

\* is_expired has read the clock; the second read comes after test_yield_hook.
TtlBegin(k) ==
    /\ Live(k)
    /\ ~is_no_expire(map[k])
    /\ Enter("ttl", [NoCall EXCEPT !.op = "ttl_left", !.key = k, !.began = now])
    /\ UNCHANGED <<store, now>>

RemainingMs(e) == (e.expire_at - now) \div TicksPerMs

TtlEnd ==
    /\ pc = "ttl"
    /\ IF map[call.key].expire_at <= now
         THEN erase_it(call.key) /\ Leave(Void)
         ELSE UNCHANGED store /\ Leave(FoundTtl(RemainingMs(map[call.key])))
    /\ UNCHANGED now

ttl_left(k) == LookupFails(k) \/ TtlNone(k) \/ TtlBegin(k)

erase(k) ==
    \/ Missing(k) /\ Locked(Void) /\ UNCHANGED store
    \/ ~Missing(k) /\ Locked(Found) /\ erase_it(k)

\* Mutant: the counter is not reset.
clear_KeepsCount ==
    /\ Locked(Void)
    /\ map' = [k \in {} |-> Nil]
    /\ lru' = <<>>
    /\ UNCHANGED used

clear ==
    /\ Locked(Void)
    /\ map' = [k \in {} |-> Nil]
    /\ lru' = <<>>
    /\ used' = 0

-----------------------------------------------------------------------------
Step == PruneStep \/ PruneDone \/ SetUpdate \/ SetInsert \/ EvictStep \/ SetEnd \/ TtlEnd

Next ==
    \/ Tick
    \/ Step
    \/ PruneBegin
    \/ clear
    \/ \E k \in Keys :
         \/ get(k)
         \/ contains(k)
         \/ ttl_left(k)
         \/ erase(k)
         \/ \E v \in Values, t \in TTLs : SetBegin(k, v, t)

Spec == Init /\ [][Next]_vars

-----------------------------------------------------------------------------
(* Properties.                                                              *)

\* The types of the fields and locals: a key only ever maps to a whole Entry,
\* the call in progress has arguments of the right kind, and used_bytes_ never
\* underflows (LRUCache.h:72-76).
TypeOK ==
    /\ DOMAIN map \subseteq Keys
    /\ map \in [DOMAIN map -> Entry]
    /\ lru \in Seq(Keys)
    /\ used \in Nat
    /\ now \in 0..MaxTime
    /\ pc \in {"idle", "prune", "store", "evict", "ttl"}
    /\ call \in [op : {"none", "set", "prune", "ttl_left"}, key : Keys \cup {Nil},
                 value : Values \cup {Nil}, ttl : TTLs \cup {0}, began : 0..MaxTime]
    /\ cursor \in Nat
    /\ ret \in [found : BOOLEAN, value : Values \cup {Nil}, ms : Int]

\* map_ and lru_ hold the same keys, each key once in the list, between any
\* two steps of any operation: no Node::lru_it dangles and no list node is an
\* orphan, so the "map_it == map_.end()" branches are never needed.
ListMatchesMap ==
    /\ \A i \in 1..Len(lru) : lru[i] \in DOMAIN map
    /\ \A k \in DOMAIN map : \E i \in 1..Len(lru) : lru[i] = k
    /\ \A i, j \in 1..Len(lru) : lru[i] = lru[j] => i = j

\* The sizes an entry was accounted with are those of its key and value now.
EntrySizes ==
    \A k \in DOMAIN map : /\ map[k].key_size = KeySize[k]
                          /\ map[k].value_size = ValueSize[map[k].value]

\* The bytes of one entry, and of a whole map, as sets that can be counted.
BytesOf(m, k) == {k} \X (1..(KeySize[k] + ValueSize[m[k].value]))
OccupiedBytes(m) == UNION {BytesOf(m, k) : k \in DOMAIN m}

\* used_bytes_ is the exact number of bytes of the keys and values present,
\* through every update, expiry, eviction and erase of a long history.
Accounting == EntrySizes /\ used = Cardinality(OccupiedBytes(map))

\* Whoever takes the mutex finds the cache within its capacity: the overshoot
\* of set is never visible to used_bytes(), nor to the next call.
CapacityAtRest == pc \in {"idle", "prune", "store", "ttl"} => used <= Capacity

\* ttl_left works on a map iterator across its second clock read: the entry
\* it points to is still there, and has a lifetime.
IteratorValid == pc = "ttl" => /\ call.key \in DOMAIN map
                              /\ ~is_no_expire(map[call.key])

\* The map, the list and the counter are three views of one set of entries at
\* every step, also while an operation holds iterators into them.
Consistent == TypeOK /\ ListMatchesMap /\ Accounting /\ IteratorValid

\* A set that returns has kept its own entry exactly when that entry fits in
\* the capacity by itself: eviction reaches the front of the list only if
\* everything else is gone and the new entry alone is still too large.
SetKeepsItsKey ==
    [][pc = "evict" /\ pc' = "idle" =>
         (call.key \in DOMAIN map'
            <=> KeySize[call.key] + ValueSize[call.value] <= Capacity)]_vars

\* prune_unlocked misses nothing: whatever was expired when the call took the
\* mutex is gone from the part of the list the iterator has passed, and from
\* the whole map when set goes on to store, although the list shrinks under
\* the iterator and the clock moves between the tests.
PruneMissesNothing ==
    /\ pc = "prune" => \A i \in 1..Len(lru) :
                          i < cursor => map[lru[i]].expire_at > call.began
    /\ pc = "store" => \A k \in DOMAIN map : map[k].expire_at > call.began

\* The refinement mapping: what is stored, and which key was used after which.
Content == [k \in DOMAIN map |-> [value |-> map[k].value, deadline |-> map[k].expire_at]]

Order(s) == {p \in Keys \X Keys :
               \E i, j \in 1..Len(s) : i < j /\ s[i] = p[1] /\ s[j] = p[2]}
Newer == Order(lru)

Policy == INSTANCE LRUPolicy WITH content <- Content, newer <- Newer, clock <- now, answer <- ret

\* Callers see an LRU cache: a live entry leaves only by erase, by clear, or
\* because it is the least recently used one of a cache over its capacity; a
\* lookup answers the value stored last, misses only what is absent or past
\* its deadline, and never overstates a lifetime.
Refines == Policy!PolicySpec

=============================================================================
