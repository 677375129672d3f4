--------------------------- MODULE LRUCacheProofs ---------------------------
(* Proofs that the invariants of LRUCache hold, and that it implements      *)
(* LRUPolicy, for every set of keys and values, every capacity and every    *)
(* history of calls.                                                        *)
EXTENDS LRUCache, FiniteSetTheorems, SequenceTheorems, TLAPS

-----------------------------------------------------------------------------
(* Lists.                                                                   *)

\* What erasing a node leaves: every other element, in the same order.
LEMMA RemoveAtLemma ==
    ASSUME NEW S, NEW s \in Seq(S), NEW i \in 1..Len(s)
    PROVE  /\ RemoveAt(s, i) \in Seq(S)
           /\ Len(RemoveAt(s, i)) = Len(s) - 1
           /\ \A j \in 1..(Len(s) - 1) :
                RemoveAt(s, i)[j] = IF j < i THEN s[j] ELSE s[j + 1]
<1> DEFINE a == SubSeq(s, 1, i - 1)
           b == SubSeq(s, i + 1, Len(s))
<1>0. Len(s) \in Nat /\ \A j \in 1..Len(s) : s[j] \in S
  OBVIOUS
<1>1. /\ a \in Seq(S)
      /\ Len(a) = i - 1
      /\ \A j \in 1..(i - 1) : a[j] = s[j]
  BY <1>0, SubSeqProperties
<1>2. /\ b \in Seq(S)
      /\ Len(b) = Len(s) - i
      /\ \A j \in 1..(Len(s) - i) : b[j] = s[i + j]
  <2>1. \A j \in (i + 1)..Len(s) : s[j] \in S
    BY <1>0
  <2>2. /\ b \in Seq(S)
        /\ Len(b) = IF i + 1 <= Len(s) THEN Len(s) - (i + 1) + 1 ELSE 0
        /\ \A j \in 1..(Len(s) - (i + 1) + 1) : b[j] = s[(i + 1) + j - 1]
    BY <1>0, <2>1, SubSeqProperties
  <2> QED BY <1>0, <2>2
<1> HIDE DEF a, b
<1>3. /\ a \o b \in Seq(S)
      /\ Len(a \o b) = Len(a) + Len(b)
      /\ \A j \in 1..(Len(a) + Len(b)) :
           (a \o b)[j] = IF j <= Len(a) THEN a[j] ELSE b[j - Len(a)]
  BY <1>1, <1>2, ConcatProperties
<1>4. Len(a) + Len(b) = Len(s) - 1
  BY <1>0, <1>1, <1>2
<1>5. ASSUME NEW j \in 1..(Len(s) - 1)
      PROVE  (a \o b)[j] = IF j < i THEN s[j] ELSE s[j + 1]
  <2>1. CASE j < i
    BY <1>0, <1>1, <1>3, <1>4, <2>1
  <2>2. CASE j >= i
    <3>1. j - (i - 1) \in 1..(Len(s) - i) /\ ~(j <= Len(a))
      BY <1>0, <1>1, <2>2
    <3>2. (a \o b)[j] = b[j - (i - 1)]
      BY <1>1, <1>3, <1>4, <3>1
    <3>3. b[j - (i - 1)] = s[i + (j - (i - 1))]
      BY <1>2, <3>1
    <3> QED BY <1>0, <2>2, <3>2, <3>3
  <2>3. j < i \/ j >= i
    BY <1>0
  <2> QED BY <2>1, <2>2, <2>3
<1> QED BY <1>3, <1>4, <1>5 DEF RemoveAt, a, b

\* A list holds exactly the keys of K, each once.
Lists(s, K) ==
    /\ \A i \in 1..Len(s) : s[i] \in K
    /\ \A k \in K : \E i \in 1..Len(s) : s[i] = k
    /\ \A i, j \in 1..Len(s) : s[i] = s[j] => i = j

\* Erasing the node of k leaves a list of the other keys.
LEMMA EraseNode ==
    ASSUME NEW K, NEW S, NEW s \in Seq(S), Lists(s, K), NEW i \in 1..Len(s)
    PROVE  /\ RemoveAt(s, i) \in Seq(S)
           /\ Lists(RemoveAt(s, i), K \ {s[i]})
<1> DEFINE r == RemoveAt(s, i)
<1>1. /\ r \in Seq(S)
      /\ Len(r) = Len(s) - 1
      /\ \A j \in 1..(Len(s) - 1) : r[j] = IF j < i THEN s[j] ELSE s[j + 1]
  BY RemoveAtLemma
<1> HIDE DEF r
<1>0. Len(s) \in Nat
  OBVIOUS
<1>2. \A j \in 1..Len(r) : r[j] \in K \ {s[i]}
  BY <1>0, <1>1 DEF Lists
<1>3. ASSUME NEW k \in K \ {s[i]} PROVE \E j \in 1..Len(r) : r[j] = k
  <2>1. PICK n \in 1..Len(s) : s[n] = k
    BY DEF Lists
  <2>2. CASE n < i
    BY <1>0, <1>1, <2>1, <2>2
  <2>3. CASE n > i
    <3>1. n - 1 \in 1..Len(r) /\ r[n - 1] = s[n]
      BY <1>0, <1>1, <2>3
    <3> QED BY <2>1, <3>1
  <2> QED BY <2>1, <2>2, <2>3
<1>4. ASSUME NEW m \in 1..Len(r), NEW n \in 1..Len(r), r[m] = r[n] PROVE m = n
  <2> DEFINE at(j) == IF j < i THEN j ELSE j + 1
  <2>1. /\ at(m) \in 1..Len(s) /\ s[at(m)] = r[m]
        /\ at(n) \in 1..Len(s) /\ s[at(n)] = r[n]
    BY <1>0, <1>1
  <2>2. at(m) = at(n)
    BY <1>4, <2>1 DEF Lists
  <2> QED BY <1>0, <1>1, <2>2
<1> QED BY <1>1, <1>2, <1>3, <1>4 DEF Lists, r

\* Linking a new key in front.
LEMMA PushFront ==
    ASSUME NEW K, NEW S, NEW s \in Seq(S), Lists(s, K), NEW k \in S, k \notin K
    PROVE  /\ <<k>> \o s \in Seq(S)
           /\ Lists(<<k>> \o s, K \cup {k})
<1> DEFINE r == <<k>> \o s
<1>0. Len(s) \in Nat
  OBVIOUS
<1>1. /\ r \in Seq(S)
      /\ Len(r) = Len(s) + 1
      /\ r[1] = k
      /\ \A j \in 2..Len(r) : r[j] = s[j - 1]
  <2>1. <<k>> \in Seq(S) /\ Len(<<k>>) = 1 /\ <<k>>[1] = k
    OBVIOUS
  <2>2. /\ r \in Seq(S)
        /\ Len(r) = Len(<<k>>) + Len(s)
        /\ \A j \in 1..(Len(<<k>>) + Len(s)) :
             r[j] = IF j <= Len(<<k>>) THEN <<k>>[j] ELSE s[j - Len(<<k>>)]
    BY <2>1, ConcatProperties
  <2> HIDE DEF r
  <2> QED BY <1>0, <2>1, <2>2
<1> HIDE DEF r
<1>2. ASSUME NEW j \in 1..Len(r) PROVE r[j] \in K \cup {k}
  <2>1. CASE j = 1
    BY <1>1, <2>1
  <2>2. CASE j # 1
    <3>1. j \in 2..Len(r) /\ j - 1 \in 1..Len(s)
      BY <1>0, <1>1, <2>2
    <3> QED BY <1>1, <3>1 DEF Lists
  <2> QED BY <2>1, <2>2
<1>3. ASSUME NEW x \in K \cup {k} PROVE \E j \in 1..Len(r) : r[j] = x
  <2>1. CASE x = k
    BY <1>0, <1>1, <2>1
  <2>2. CASE x \in K
    <3>1. PICK n \in 1..Len(s) : s[n] = x
      BY <2>2 DEF Lists
    <3>2. n + 1 \in 1..Len(r) /\ r[n + 1] = x
      BY <1>0, <1>1, <3>1
    <3> QED BY <3>2
  <2> QED BY <2>1, <2>2
<1>4. ASSUME NEW m \in 1..Len(r), NEW n \in 1..Len(r), r[m] = r[n] PROVE m = n
  <2>1. \A j \in 2..Len(r) : j - 1 \in 1..Len(s) /\ r[j] \in K
    BY <1>0, <1>1 DEF Lists
  <2>2. CASE m = 1 \/ n = 1
    BY <1>0, <1>1, <1>4, <2>1, <2>2
  <2>3. CASE m # 1 /\ n # 1
    <3>1. m - 1 = n - 1
      BY <1>0, <1>1, <1>4, <2>1, <2>3 DEF Lists
    <3> QED BY <1>0, <1>1, <3>1
  <2> QED BY <2>2, <2>3
<1> QED BY <1>1, <1>2, <1>3, <1>4 DEF Lists, r

-----------------------------------------------------------------------------
(* Bytes.                                                                   *)

\* The block of bytes of one entry has as many elements as the entry's size.
LEMMA BlockSize ==
    ASSUME NEW k, NEW n \in Nat
    PROVE  /\ IsFiniteSet({k} \X (1..n))
           /\ Cardinality({k} \X (1..n)) = n
<1>1. IsFiniteSet({k}) /\ Cardinality({k}) = 1
  BY FS_Singleton
<1>2. IsFiniteSet(1..n) /\ Cardinality(1..n) = n
  BY FS_Interval
<1>3. /\ IsFiniteSet({k} \X (1..n))
      /\ Cardinality({k} \X (1..n)) = Cardinality({k}) * Cardinality(1..n)
  BY <1>1, <1>2, FS_Product, Zenon
<1>4. Cardinality({k} \X (1..n)) = 1 * n
  BY <1>1, <1>2, <1>3, Zenon
<1> QED BY <1>3, <1>4

\* Taking an entry out of a map frees its block and no other byte.
LEMMA FreeBytes ==
    ASSUME NEW m, NEW k \in DOMAIN m, IsFiniteSet(OccupiedBytes(m)),
           KeySize[k] + ValueSize[m[k].value] \in Nat
    PROVE  LET w == [x \in DOMAIN m \ {k} |-> m[x]] IN
           /\ IsFiniteSet(OccupiedBytes(w))
           /\ Cardinality(OccupiedBytes(m))
                = Cardinality(OccupiedBytes(w)) + (KeySize[k] + ValueSize[m[k].value])
<1> DEFINE w == [x \in DOMAIN m \ {k} |-> m[x]]
           B == BytesOf(m, k)
<1>1. OccupiedBytes(w) = OccupiedBytes(m) \ B
  BY DEF OccupiedBytes, BytesOf
<1>2. OccupiedBytes(m) \cap B = B
  BY DEF OccupiedBytes, BytesOf
<1>3. Cardinality(B) = KeySize[k] + ValueSize[m[k].value]
  BY BlockSize DEF BytesOf
<1>4. /\ IsFiniteSet(OccupiedBytes(w))
      /\ Cardinality(OccupiedBytes(w)) = Cardinality(OccupiedBytes(m)) - Cardinality(B)
  BY <1>1, <1>2, FS_Difference
<1>5. Cardinality(OccupiedBytes(m)) \in Nat /\ Cardinality(OccupiedBytes(w)) \in Nat
  BY <1>4, FS_CardinalityType
<1> HIDE DEF w, B
<1>6. Cardinality(OccupiedBytes(m)) = Cardinality(OccupiedBytes(w)) + (KeySize[k] + ValueSize[m[k].value])
  BY <1>3, <1>4, <1>5
<1> QED BY <1>4, <1>6 DEF w

\* Putting an entry under a new key takes a block that was free.
LEMMA TakeBytes ==
    ASSUME NEW m, NEW k, k \notin DOMAIN m, NEW e, IsFiniteSet(OccupiedBytes(m)),
           KeySize[k] + ValueSize[e.value] \in Nat
    PROVE  LET w == [x \in DOMAIN m \cup {k} |-> IF x = k THEN e ELSE m[x]] IN
           /\ IsFiniteSet(OccupiedBytes(w))
           /\ Cardinality(OccupiedBytes(w))
                = Cardinality(OccupiedBytes(m)) + (KeySize[k] + ValueSize[e.value])
<1> DEFINE w == [x \in DOMAIN m \cup {k} |-> IF x = k THEN e ELSE m[x]]
           B == {k} \X (1..(KeySize[k] + ValueSize[e.value]))
<1>1. OccupiedBytes(w) = OccupiedBytes(m) \cup B
  BY DEF OccupiedBytes, BytesOf
<1>2. OccupiedBytes(m) \cap B = {}
  BY DEF OccupiedBytes, BytesOf
<1>3. IsFiniteSet(B) /\ Cardinality(B) = KeySize[k] + ValueSize[e.value]
  BY BlockSize
<1> HIDE DEF w, B
<1>4. /\ IsFiniteSet(OccupiedBytes(w))
      /\ Cardinality(OccupiedBytes(w)) = Cardinality(OccupiedBytes(m)) + Cardinality(B) - Cardinality({})
  BY <1>1, <1>2, <1>3, FS_Union
<1>5. Cardinality(OccupiedBytes(m)) \in Nat /\ Cardinality({}) = 0
  BY FS_CardinalityType, FS_EmptySet
<1> QED BY <1>3, <1>4, <1>5 DEF w

-----------------------------------------------------------------------------
(* The inductive invariant.                                                 *)

\* The part about map_, lru_ and used_bytes_.  Finiteness is what makes the
\* byte count a number; it is inductive because every step moves one block.
StoreInv ==
    /\ DOMAIN map \subseteq Keys
    /\ map \in [DOMAIN map -> Entry]
    /\ lru \in Seq(Keys)
    /\ used \in Nat
    /\ ListMatchesMap
    /\ Accounting
    /\ IsFiniteSet(OccupiedBytes(map))

\* The part about the call in progress.
CallInv ==
    /\ now \in 0..MaxTime
    /\ pc \in {"idle", "prune", "store", "evict", "ttl"}
    /\ call \in [op : {"none", "set", "prune", "ttl_left"}, key : Keys \cup {Nil},
                 value : Values \cup {Nil}, ttl : TTLs \cup {0}, began : 0..MaxTime]
    /\ call.began <= now
    /\ cursor \in Nat
    /\ ret \in [found : BOOLEAN, value : Values \cup {Nil}, ms : Int]
    /\ pc = "idle" => call = NoCall
    /\ pc \in {"store", "evict"} => call.op = "set"
    /\ call.op = "set" => call.key \in Keys /\ call.value \in Values /\ call.ttl \in TTLs

\* The entry being stored is at the front of the list until it is evicted as
\* the last and too large one.
FrontInv ==
    pc = "evict" =>
      IF lru = <<>>
        THEN KeySize[call.key] + ValueSize[call.value] > Capacity
        ELSE lru[1] = call.key /\ map[call.key].value = call.value

Inv == StoreInv /\ CallInv /\ CapacityAtRest /\ IteratorValid /\ PruneMissesNothing /\ FrontInv

LEMMA EntrySize ==
    ASSUME StoreInv, NEW k \in DOMAIN map
    PROVE  /\ KeySize[k] \in Nat
           /\ ValueSize[map[k].value] \in Nat
           /\ Bytes(map[k]) = KeySize[k] + ValueSize[map[k].value]
           /\ Bytes(map[k]) \in Nat
BY SizeAssumption DEF StoreInv, Accounting, EntrySizes, Bytes, Entry

\* A key present has one place in the list.
LEMMA PositionOf ==
    ASSUME StoreInv, NEW k \in DOMAIN map
    PROVE  /\ Position(k) \in 1..Len(lru)
           /\ lru[Position(k)] = k
BY DEF StoreInv, ListMatchesMap, Position

\* A map without k, and the counter less the bytes of k, are accounted right.
LEMMA DropEntry ==
    ASSUME StoreInv, NEW k \in DOMAIN map,
           map' = MapWithout(k), used' = used - Bytes(map[k])
    PROVE  /\ DOMAIN map' = DOMAIN map \ {k}
           /\ DOMAIN map' \subseteq Keys
           /\ map' \in [DOMAIN map' -> Entry]
           /\ used' \in Nat
           /\ used' <= used
           /\ Accounting'
           /\ IsFiniteSet(OccupiedBytes(map'))
<1>1. Bytes(map[k]) = KeySize[k] + ValueSize[map[k].value] /\ Bytes(map[k]) \in Nat
  BY EntrySize
<1>2. /\ IsFiniteSet(OccupiedBytes(map'))
      /\ Cardinality(OccupiedBytes(map)) = Cardinality(OccupiedBytes(map')) + Bytes(map[k])
  BY <1>1, FreeBytes DEF StoreInv, MapWithout
<1>3. Cardinality(OccupiedBytes(map')) \in Nat
  BY <1>2, FS_CardinalityType
<1>4. DOMAIN map' = DOMAIN map \ {k} /\ \A x \in DOMAIN map' : map'[x] = map[x]
  BY DEF MapWithout
<1>5. /\ DOMAIN map' \subseteq Keys
      /\ map' \in [DOMAIN map' -> Entry]
  BY <1>4 DEF StoreInv, MapWithout
<1>6. used' = Cardinality(OccupiedBytes(map'))
  BY <1>1, <1>2, <1>3 DEF StoreInv, Accounting
<1>7. EntrySizes'
  BY <1>4 DEF StoreInv, Accounting, EntrySizes
<1>8. used' \in Nat /\ used' <= used
  BY <1>1, <1>3, <1>6 DEF StoreInv
<1> QED BY <1>2, <1>4, <1>5, <1>6, <1>7, <1>8 DEF Accounting

LEMMA EraseKeepsStore ==
    ASSUME StoreInv, NEW k \in DOMAIN map, erase_it(k)
    PROVE  /\ StoreInv'
           /\ DOMAIN map' = DOMAIN map \ {k}
           /\ \A x \in DOMAIN map' : map'[x] = map[x]
           /\ used' <= used
<1>1. map' = MapWithout(k) /\ used' = used - Bytes(map[k]) /\ lru' = RemoveAt(lru, Position(k))
  BY DEF erase_it
<1>2. /\ DOMAIN map' = DOMAIN map \ {k}
      /\ DOMAIN map' \subseteq Keys
      /\ map' \in [DOMAIN map' -> Entry]
      /\ used' \in Nat
      /\ used' <= used
      /\ Accounting'
      /\ IsFiniteSet(OccupiedBytes(map'))
  BY <1>1, DropEntry
<1>3. Position(k) \in 1..Len(lru) /\ lru[Position(k)] = k
  BY PositionOf
<1>4. lru \in Seq(Keys) /\ Lists(lru, DOMAIN map)
  BY DEF StoreInv, ListMatchesMap, Lists
<1>5. lru' \in Seq(Keys) /\ Lists(lru', DOMAIN map \ {k})
  BY <1>1, <1>3, <1>4, EraseNode
<1>6. ListMatchesMap'
  BY <1>2, <1>5 DEF ListMatchesMap, Lists
<1> QED BY <1>1, <1>2, <1>5, <1>6 DEF StoreInv, MapWithout

\* Moving a key to the front.
LEMMA TouchKeepsList ==
    ASSUME StoreInv, NEW k \in DOMAIN map, touch(k), DOMAIN map' = DOMAIN map
    PROVE  /\ lru' \in Seq(Keys)
           /\ ListMatchesMap'
           /\ lru' # <<>>
           /\ lru'[1] = k
<1> DEFINE r == RemoveAt(lru, Position(k))
<1>1. Position(k) \in 1..Len(lru) /\ lru[Position(k)] = k /\ k \in Keys
  BY PositionOf DEF StoreInv
<1>2. lru \in Seq(Keys) /\ Lists(lru, DOMAIN map)
  BY DEF StoreInv, ListMatchesMap, Lists
<1>3. r \in Seq(Keys) /\ Lists(r, DOMAIN map \ {k})
  BY <1>1, <1>2, EraseNode
<1> HIDE DEF r
<1>4. /\ <<k>> \o r \in Seq(Keys)
      /\ Lists(<<k>> \o r, (DOMAIN map \ {k}) \cup {k})
  BY <1>1, <1>3, PushFront
<1>5. (DOMAIN map \ {k}) \cup {k} = DOMAIN map
  OBVIOUS
<1>6. lru' = <<k>> \o r
  BY DEF touch, r
<1>7. Lists(lru', DOMAIN map')
  BY <1>4, <1>5, <1>6
<1>8. lru' # <<>> /\ lru'[1] = k
  BY <1>3, <1>6, <1>1
<1> QED BY <1>4, <1>6, <1>7, <1>8 DEF ListMatchesMap, Lists

\* With no entry in the list nothing is accounted.
LEMMA EmptyIsZero ==
    ASSUME StoreInv, lru = <<>>
    PROVE  used = 0
<1>0. ~ \E i \in 1..Len(lru) : TRUE
  OBVIOUS
<1>1. DOMAIN map = {}
  BY <1>0 DEF StoreInv, ListMatchesMap
<1>2. OccupiedBytes(map) = {}
  BY <1>1 DEF OccupiedBytes
<1> QED BY <1>2, FS_EmptySet DEF StoreInv, Accounting

\* One entry is no larger than all that is accounted.
LEMMA EntryFits ==
    ASSUME StoreInv, NEW k \in DOMAIN map
    PROVE  KeySize[k] + ValueSize[map[k].value] <= used
<1>1. KeySize[k] + ValueSize[map[k].value] \in Nat
  BY EntrySize
<1>2. BytesOf(map, k) \in SUBSET OccupiedBytes(map)
  BY DEF OccupiedBytes
<1>3. Cardinality(BytesOf(map, k)) = KeySize[k] + ValueSize[map[k].value]
  BY <1>1, BlockSize DEF BytesOf
<1>4. Cardinality(BytesOf(map, k)) <= Cardinality(OccupiedBytes(map))
  BY <1>2, FS_Subset DEF StoreInv
<1> QED BY <1>3, <1>4 DEF StoreInv, Accounting

\* A list of one key accounts for that key alone.
LEMMA SingleEntry ==
    ASSUME StoreInv, Len(lru) = 1
    PROVE  used = KeySize[lru[1]] + ValueSize[map[lru[1]].value]
<1> DEFINE k == lru[1]
<1>0. \A i : i \in 1..Len(lru) <=> i = 1
  OBVIOUS
<1>1. DOMAIN map = {k}
  <2>1. k \in DOMAIN map
    BY <1>0 DEF StoreInv, ListMatchesMap
  <2>2. \A x \in DOMAIN map : \E i \in 1..Len(lru) : lru[i] = x
    BY DEF StoreInv, ListMatchesMap
  <2>3. \A x \in DOMAIN map : x = k
    BY <1>0, <2>2
  <2> HIDE DEF k
  <2> QED BY <2>1, <2>3
<1>2. OccupiedBytes(map) = BytesOf(map, k)
  BY <1>1 DEF OccupiedBytes
<1>3. KeySize[k] + ValueSize[map[k].value] \in Nat
  BY <1>1, EntrySize
<1>4. Cardinality(BytesOf(map, k)) = KeySize[k] + ValueSize[map[k].value]
  BY <1>3, BlockSize DEF BytesOf
<1> QED BY <1>2, <1>4 DEF StoreInv, Accounting

\* The back of the list goes: the same as erasing its last node.
LEMMA BackIsErase ==
    ASSUME StoreInv, lru # <<>>, pc = "evict", EvictStep
    PROVE  /\ lru[Len(lru)] \in DOMAIN map
           /\ erase_it(lru[Len(lru)])
           /\ StoreInv'
           /\ lru' = SubSeq(lru, 1, Len(lru) - 1)
           /\ DOMAIN map' = DOMAIN map \ {lru[Len(lru)]}
           /\ \A x \in DOMAIN map' : map'[x] = map[x]
<1> DEFINE n == Len(lru)
           back == lru[n]
<1>1. n \in Nat /\ n >= 1 /\ n \in 1..Len(lru) /\ lru \in Seq(Keys)
  BY DEF StoreInv
<1>2. back \in DOMAIN map
  BY <1>1 DEF StoreInv, ListMatchesMap
<1>3. /\ lru' = SubSeq(lru, 1, n - 1)
      /\ map' = MapWithout(back)
      /\ used' = used - Bytes(map[back])
  BY <1>2 DEF EvictStep
<1>4. RemoveAt(lru, n) = SubSeq(lru, 1, n - 1)
  <2>1. SubSeq(lru, n + 1, Len(lru)) = <<>>
    BY <1>1, SubSeqEmpty
  <2>2. \A j \in 1..(n - 1) : lru[j] \in Keys
    BY <1>1
  <2>3. SubSeq(lru, 1, n - 1) \in Seq(Keys)
    BY <1>1, <2>2, SubSeqProperties
  <2>4. SubSeq(lru, 1, n - 1) \o <<>> = SubSeq(lru, 1, n - 1)
    BY <2>3, ConcatEmptySeq
  <2> QED BY <2>1, <2>4 DEF RemoveAt
<1>5. Position(back) = n
  <2>1. Position(back) \in 1..Len(lru) /\ lru[Position(back)] = back
    BY <1>2, PositionOf
  <2> QED BY <1>1, <2>1 DEF StoreInv, ListMatchesMap
<1>6. erase_it(back)
  BY <1>3, <1>4, <1>5 DEF erase_it
<1> HIDE DEF back, n
<1>7. /\ StoreInv'
      /\ DOMAIN map' = DOMAIN map \ {back}
      /\ \A x \in DOMAIN map' : map'[x] = map[x]
  BY <1>2, <1>6, EraseKeepsStore
<1> QED BY <1>2, <1>3, <1>6, <1>7 DEF back, n

\* What set stores is an entry of the right sizes.
LEMMA NewEntryType ==
    ASSUME CallInv, call.op = "set"
    PROVE  /\ NewEntry(call) \in Entry
           /\ NewEntry(call).value = call.value
           /\ NewEntry(call).key_size = KeySize[call.key]
           /\ NewEntry(call).value_size = ValueSize[call.value]
           /\ KeySize[call.key] \in Nat
           /\ ValueSize[call.value] \in Nat
           /\ Bytes(NewEntry(call)) = KeySize[call.key] + ValueSize[call.value]
<1>1. call.key \in Keys /\ call.value \in Values /\ call.ttl \in Int /\ now \in Int
  <2>1. call.key \in Keys /\ call.value \in Values /\ call.ttl \in TTLs /\ now \in 0..MaxTime
    BY DEF CallInv
  <2>2. TTLs \subseteq Int
    BY TimeAssumption
  <2>3. now \in Int
    BY <2>1
  <2> QED BY <2>1, <2>2, <2>3
<1>2. ExpireAt(call.ttl) \in Int
  BY <1>1, TimeAssumption DEF ExpireAt, no_expire_time
<1> QED BY <1>1, <1>2, SizeAssumption DEF NewEntry, Entry, Bytes

LEMMA InsertKeepsStore ==
    ASSUME StoreInv, CallInv, SetInsert
    PROVE  /\ StoreInv'
           /\ lru' # <<>>
           /\ lru'[1] = call.key
           /\ map'[call.key].value = call.value
<1> DEFINE k == call.key
           e == NewEntry(call)
<1>1. /\ e \in Entry /\ e.value = call.value /\ e.key_size = KeySize[k]
      /\ e.value_size = ValueSize[call.value]
      /\ KeySize[k] + ValueSize[e.value] \in Nat
      /\ Bytes(e) = KeySize[k] + ValueSize[e.value]
  BY NewEntryType DEF SetInsert, CallInv
<1>2. /\ k \in Keys /\ k \notin DOMAIN map
      /\ lru' = <<k>> \o lru
      /\ map' = [x \in DOMAIN map \cup {k} |-> IF x = k THEN e ELSE map[x]]
      /\ used' = used + Bytes(e)
  BY DEF SetInsert, CallInv, Linked
<1> HIDE DEF k, e
<1>3. /\ IsFiniteSet(OccupiedBytes(map'))
      /\ Cardinality(OccupiedBytes(map')) = Cardinality(OccupiedBytes(map)) + Bytes(e)
  <2>1. IsFiniteSet(OccupiedBytes(map)) /\ KeySize[k] + ValueSize[e.value] \in Nat
    BY <1>1 DEF StoreInv
  <2>2. LET w == [x \in DOMAIN map \cup {k} |-> IF x = k THEN e ELSE map[x]] IN
        /\ IsFiniteSet(OccupiedBytes(w))
        /\ Cardinality(OccupiedBytes(w))
             = Cardinality(OccupiedBytes(map)) + (KeySize[k] + ValueSize[e.value])
    BY <1>2, <2>1, TakeBytes, Zenon
  <2> QED BY <1>1, <1>2, <2>2
<1>4. used' = Cardinality(OccupiedBytes(map')) /\ used' \in Nat
  BY <1>1, <1>2, <1>3 DEF StoreInv, Accounting
<1>5. DOMAIN map' = DOMAIN map \cup {k}
  BY <1>2
<1>6. DOMAIN map' \subseteq Keys /\ map' \in [DOMAIN map' -> Entry]
  BY <1>1, <1>2 DEF StoreInv
<1>7. EntrySizes'
  BY <1>1, <1>2, <1>5 DEF StoreInv, Accounting, EntrySizes
<1>8. Lists(lru, DOMAIN map) /\ lru \in Seq(Keys)
  BY DEF StoreInv, ListMatchesMap, Lists
<1>9. lru' \in Seq(Keys) /\ Lists(lru', DOMAIN map')
  BY <1>2, <1>5, <1>8, PushFront
<1>10. lru' # <<>> /\ lru'[1] = k
  BY <1>2, <1>8
<1>11. map'[k].value = call.value
  BY <1>1, <1>2
<1> QED BY <1>3, <1>4, <1>6, <1>7, <1>9, <1>10, <1>11
        DEF StoreInv, Accounting, ListMatchesMap, Lists, k

LEMMA UpdateKeepsStore ==
    ASSUME StoreInv, CallInv, SetUpdate
    PROVE  /\ StoreInv'
           /\ lru' # <<>>
           /\ lru'[1] = call.key
           /\ map'[call.key].value = call.value
<1> DEFINE k == call.key
           e == NewEntry(call)
           w == [x \in DOMAIN map \ {k} |-> map[x]]
<1>1. /\ e \in Entry /\ e.value = call.value /\ e.key_size = KeySize[k]
      /\ e.value_size = ValueSize[call.value]
      /\ KeySize[k] + ValueSize[e.value] \in Nat
      /\ Bytes(e) = KeySize[k] + ValueSize[e.value]
  BY NewEntryType DEF SetUpdate, CallInv
<1>2. /\ k \in DOMAIN map
      /\ map' = [map EXCEPT ![k] = e]
      /\ used' = used - Bytes(map[k]) + Bytes(e)
      /\ touch(k)
  BY DEF SetUpdate
<1> HIDE DEF k, e
<1>3. Bytes(map[k]) = KeySize[k] + ValueSize[map[k].value] /\ Bytes(map[k]) \in Nat
  BY <1>2, EntrySize
<1>4. /\ IsFiniteSet(OccupiedBytes(w))
      /\ Cardinality(OccupiedBytes(map)) = Cardinality(OccupiedBytes(w)) + Bytes(map[k])
  BY <1>2, <1>3, FreeBytes DEF StoreInv
<1>5. map' = [x \in DOMAIN w \cup {k} |-> IF x = k THEN e ELSE w[x]]
  BY <1>2 DEF StoreInv
<1>6. k \notin DOMAIN w
  OBVIOUS
<1> HIDE DEF w
<1>7. /\ IsFiniteSet(OccupiedBytes(map'))
      /\ Cardinality(OccupiedBytes(map')) = Cardinality(OccupiedBytes(w)) + Bytes(e)
  BY <1>1, <1>4, <1>5, <1>6, TakeBytes
<1>8. Cardinality(OccupiedBytes(w)) \in Nat
  BY <1>4, FS_CardinalityType
<1>9. used' = Cardinality(OccupiedBytes(map')) /\ used' \in Nat
  BY <1>1, <1>2, <1>3, <1>4, <1>7, <1>8 DEF StoreInv, Accounting
<1>10. DOMAIN map' = DOMAIN map
  BY <1>2
<1>11. DOMAIN map' \subseteq Keys /\ map' \in [DOMAIN map' -> Entry]
  BY <1>1, <1>2 DEF StoreInv
<1>12. EntrySizes'
  BY <1>1, <1>2, <1>10 DEF StoreInv, Accounting, EntrySizes
<1>13. lru' \in Seq(Keys) /\ ListMatchesMap' /\ lru' # <<>> /\ lru'[1] = k
  BY <1>2, <1>10, TouchKeepsList
<1>14. map'[k].value = call.value
  BY <1>1, <1>2 DEF StoreInv
<1> QED BY <1>7, <1>9, <1>11, <1>12, <1>13, <1>14 DEF StoreInv, Accounting, k

\* The store is as good after a step that leaves it alone.
LEMMA StoreStutter ==
    ASSUME StoreInv, UNCHANGED store
    PROVE  StoreInv' /\ map' = map /\ lru' = lru /\ used' = used
BY DEF StoreInv, store, ListMatchesMap, Accounting, EntrySizes, OccupiedBytes, BytesOf

\* The results are results.
LEMMA RetTypes ==
    /\ Void \in [found : BOOLEAN, value : Values \cup {Nil}, ms : Int]
    /\ Found \in [found : BOOLEAN, value : Values \cup {Nil}, ms : Int]
    /\ \A v \in Values : FoundValue(v) \in [found : BOOLEAN, value : Values \cup {Nil}, ms : Int]
    /\ \A n \in Int : FoundTtl(n) \in [found : BOOLEAN, value : Values \cup {Nil}, ms : Int]
    /\ NoCall \in [op : {"none", "set", "prune", "ttl_left"}, key : Keys \cup {Nil},
                   value : Values \cup {Nil}, ttl : TTLs \cup {0}, began : 0..MaxTime]
    /\ NoCall.op = "none"
    /\ NoCall.began = 0
BY TimeAssumption DEF Void, Found, FoundValue, FoundTtl, NoCall

\* Between calls, and once the mutex is given back, a good store within its
\* capacity is all that the invariant asks.
LEMMA IdleInv ==
    ASSUME StoreInv', (now \in 0..MaxTime)', (pc = "idle")', (cursor \in Nat)',
           (used <= Capacity)', (call = NoCall)',
           (ret \in [found : BOOLEAN, value : Values \cup {Nil}, ms : Int])'
    PROVE  Inv'
BY RetTypes DEF Inv, CallInv, CapacityAtRest, IteratorValid, PruneMissesNothing, FrontInv

LEMMA InitInv == ASSUME Init PROVE Inv
<1>1. DOMAIN map = {} /\ map \in [DOMAIN map -> Entry]
  BY DEF Init
<1>2. OccupiedBytes(map) = {}
  BY <1>1 DEF OccupiedBytes
<1>3. IsFiniteSet(OccupiedBytes(map)) /\ Cardinality(OccupiedBytes(map)) = 0
  BY <1>2, FS_EmptySet
<1>4. StoreInv
  BY <1>1, <1>3 DEF StoreInv, Init, ListMatchesMap, Accounting, EntrySizes
<1> QED BY <1>4, RetTypes, SizeAssumption, TimeAssumption
        DEF Init, Inv, CallInv, CapacityAtRest, IteratorValid, PruneMissesNothing, FrontInv

-----------------------------------------------------------------------------
(* Every action preserves the invariant.                                    *)

LEMMA TickInv == ASSUME Inv, Tick PROVE Inv'
<1>1. UNCHANGED <<map, lru, used, pc, call, cursor, ret>> /\ now' = now + 1 /\ now < MaxTime
  BY DEF Tick
<1>2. StoreInv' /\ map' = map /\ lru' = lru /\ used' = used
  BY <1>1, StoreStutter DEF Inv, store
<1>3. now' \in 0..MaxTime
  BY <1>1, TimeAssumption DEF Inv, CallInv
<1>4. CallInv'
  BY <1>1, <1>3 DEF Inv, CallInv
<1> QED BY <1>1, <1>2, <1>4 DEF Inv, CapacityAtRest, IteratorValid, PruneMissesNothing,
        FrontInv, is_no_expire, no_expire_time

\* The operations of one step: the mutex is free before and after.
LEMMA LockedInv ==
    ASSUME Inv, NEW r \in [found : BOOLEAN, value : Values \cup {Nil}, ms : Int], Locked(r),
           StoreInv', used' <= used
    PROVE  Inv'
<1>1. used <= Capacity /\ used \in Nat /\ used' \in Nat /\ Capacity \in Nat
  BY SizeAssumption DEF Inv, Locked, CapacityAtRest, StoreInv
<1>2. used' <= Capacity
  BY <1>1
<1> QED BY <1>2, IdleInv DEF Locked, Inv, CallInv

LEMMA LookupFailsInv == ASSUME Inv, NEW k \in Keys, LookupFails(k) PROVE Inv'
<1>1. CASE Missing(k) /\ Locked(Void) /\ UNCHANGED store
  <2>1. StoreInv' /\ used' = used /\ used \in Nat
    BY <1>1, StoreStutter DEF Inv, StoreInv
  <2> QED BY <1>1, <2>1, LockedInv, RetTypes
<1>2. CASE Expired(k) /\ Locked(Void) /\ erase_it(k)
  <2>1. StoreInv' /\ used' <= used
    BY <1>2, EraseKeepsStore DEF Inv, Expired
  <2> QED BY <1>2, <2>1, LockedInv, RetTypes
<1> QED BY <1>1, <1>2 DEF LookupFails

LEMMA GetHitInv == ASSUME Inv, NEW k \in Keys, GetHit(k) PROVE Inv'
<1>1. k \in DOMAIN map /\ Locked(FoundValue(map[k].value)) /\ touch(k) /\ map' = map /\ used' = used
  BY DEF GetHit, Live
<1>2. map[k].value \in Values
  BY <1>1 DEF Inv, StoreInv, Entry
<1>3. lru' \in Seq(Keys) /\ ListMatchesMap'
  BY <1>1, TouchKeepsList DEF Inv
<1>4. StoreInv' /\ used' <= used
  BY <1>1, <1>3 DEF Inv, StoreInv, Accounting, EntrySizes, OccupiedBytes, BytesOf
<1>5. FoundValue(map[k].value) \in [found : BOOLEAN, value : Values \cup {Nil}, ms : Int]
  BY <1>2, RetTypes
<1> QED BY <1>1, <1>4, <1>5, LockedInv

LEMMA QuietHitInv ==
    ASSUME Inv, NEW k \in Keys, ContainsHit(k) \/ TtlNone(k) PROVE Inv'
<1>1. (Locked(Found) \/ Locked(Void)) /\ UNCHANGED store
  BY DEF ContainsHit, TtlNone
<1>2. StoreInv' /\ used' = used /\ used \in Nat
  BY <1>1, StoreStutter DEF Inv, StoreInv
<1> QED BY <1>1, <1>2, LockedInv, RetTypes

LEMMA EraseInv == ASSUME Inv, NEW k \in Keys, erase(k) PROVE Inv'
<1>1. CASE Missing(k) /\ Locked(Void) /\ UNCHANGED store
  <2>1. StoreInv' /\ used' = used /\ used \in Nat
    BY <1>1, StoreStutter DEF Inv, StoreInv
  <2> QED BY <1>1, <2>1, LockedInv, RetTypes
<1>2. CASE ~Missing(k) /\ Locked(Found) /\ erase_it(k)
  <2>1. StoreInv' /\ used' <= used
    BY <1>2, EraseKeepsStore DEF Inv, Missing
  <2> QED BY <1>2, <2>1, LockedInv, RetTypes
<1> QED BY <1>1, <1>2 DEF erase

LEMMA ClearInv == ASSUME Inv, clear PROVE Inv'
<1>1. Locked(Void) /\ map' = [k \in {} |-> Nil] /\ lru' = <<>> /\ used' = 0
  BY DEF clear
<1>2. DOMAIN map' = {} /\ map' \in [DOMAIN map' -> Entry]
  BY <1>1
<1>3. OccupiedBytes(map') = {}
  BY <1>2 DEF OccupiedBytes
<1>4. IsFiniteSet(OccupiedBytes(map')) /\ Cardinality(OccupiedBytes(map')) = 0
  BY <1>3, FS_EmptySet
<1>5. StoreInv'
  BY <1>1, <1>2, <1>4 DEF StoreInv, ListMatchesMap, Accounting, EntrySizes
<1>6. used' <= used
  BY <1>1 DEF Inv, StoreInv
<1> QED BY <1>1, <1>5, <1>6, LockedInv, RetTypes

\* The steps that take the mutex.
LEMMA BeginInv ==
    ASSUME Inv,
           \/ PruneBegin
           \/ \E k \in Keys, v \in Values, t \in TTLs : SetBegin(k, v, t)
           \/ \E k \in Keys : TtlBegin(k)
    PROVE  Inv'
<1> DEFINE CallType == [op : {"none", "set", "prune", "ttl_left"}, key : Keys \cup {Nil},
                        value : Values \cup {Nil}, ttl : TTLs \cup {0}, began : 0..MaxTime]
<1>0. now \in 0..MaxTime /\ (used <= Capacity \/ pc # "idle")
  BY DEF Inv, CallInv, CapacityAtRest
<1>1. CASE PruneBegin
  <2>1. /\ UNCHANGED store /\ now' = now /\ pc = "idle" /\ pc' = "prune" /\ cursor' = 1
        /\ ret' = Void /\ call' = [NoCall EXCEPT !.op = "prune", !.began = now]
    BY <1>1 DEF PruneBegin, Enter
  <2>2. StoreInv' /\ map' = map /\ lru' = lru /\ used' = used
    BY <2>1, StoreStutter DEF Inv
  <2>3. call' \in CallType /\ call'.op = "prune"
    BY <2>1 DEF NoCall, Inv, CallInv
  <2>4. CallInv'
    BY <2>1, <2>3, RetTypes DEF Inv, CallInv
  <2> QED BY <1>0, <2>1, <2>2, <2>4
          DEF Inv, CapacityAtRest, IteratorValid, PruneMissesNothing, FrontInv
<1>2. ASSUME NEW k \in Keys, NEW v \in Values, NEW t \in TTLs, SetBegin(k, v, t) PROVE Inv'
  <2>1. /\ UNCHANGED store /\ now' = now /\ pc = "idle" /\ pc' = "prune" /\ cursor' = 1
        /\ ret' = Void
        /\ call' = [op |-> "set", key |-> k, value |-> v, ttl |-> t, began |-> now]
    BY <1>2 DEF SetBegin, Enter
  <2>2. StoreInv' /\ map' = map /\ lru' = lru /\ used' = used
    BY <2>1, StoreStutter DEF Inv
  <2>3. call' \in CallType /\ call'.key = k /\ call'.value = v /\ call'.ttl = t
    BY <2>1 DEF Inv, CallInv
  <2>4. CallInv'
    BY <2>1, <2>3, RetTypes DEF Inv, CallInv
  <2> QED BY <1>0, <2>1, <2>2, <2>4
          DEF Inv, CapacityAtRest, IteratorValid, PruneMissesNothing, FrontInv
<1>3. ASSUME NEW k \in Keys, TtlBegin(k) PROVE Inv'
  <2>1. /\ UNCHANGED store /\ now' = now /\ pc = "idle" /\ pc' = "ttl" /\ cursor' = 1
        /\ ret' = Void /\ k \in DOMAIN map /\ ~is_no_expire(map[k])
        /\ call' = [NoCall EXCEPT !.op = "ttl_left", !.key = k, !.began = now]
    BY <1>3 DEF TtlBegin, Enter, Live
  <2>2. StoreInv' /\ map' = map /\ lru' = lru /\ used' = used
    BY <2>1, StoreStutter DEF Inv
  <2>3. call' \in CallType /\ call'.op = "ttl_left" /\ call'.key = k
    BY <2>1 DEF NoCall, Inv, CallInv
  <2>4. CallInv'
    BY <2>1, <2>3, RetTypes DEF Inv, CallInv
  <2> QED BY <1>0, <2>1, <2>2, <2>3, <2>4
          DEF Inv, CapacityAtRest, IteratorValid, PruneMissesNothing, FrontInv,
              is_no_expire, no_expire_time
<1> QED BY <1>1, <1>2, <1>3

\* Giving the mutex back.
LEMMA LeaveInv ==
    ASSUME Inv, NEW r \in [found : BOOLEAN, value : Values \cup {Nil}, ms : Int], Leave(r),
           StoreInv', used' <= Capacity, now' = now
    PROVE  Inv'
BY IdleInv DEF Leave, Inv, CallInv

LEMMA PruneStepInv == ASSUME Inv, PruneStep PROVE Inv'
<1> DEFINE k == lru[cursor]
<1>1. /\ pc = "prune" /\ cursor <= Len(lru) /\ UNCHANGED <<now, pc, call, ret>>
      /\ used <= Capacity /\ StoreInv /\ lru \in Seq(Keys) /\ cursor \in Nat
  BY DEF PruneStep, Inv, CapacityAtRest, StoreInv, CallInv
<1>2. CASE Expired(k) /\ erase_it(k) /\ cursor' = cursor
  <2>1. /\ StoreInv' /\ DOMAIN map' = DOMAIN map \ {k} /\ used' <= used
        /\ \A x \in DOMAIN map' : map'[x] = map[x]
    BY <1>1, <1>2, EraseKeepsStore DEF Expired
  <2>2. used' <= Capacity
    BY <1>1, <2>1, SizeAssumption DEF StoreInv
  <2>3. CallInv'
    BY <1>1, <1>2 DEF Inv, CallInv
  <2>4. ASSUME NEW i \in 1..Len(lru'), i < cursor'
        PROVE  map'[lru'[i]].expire_at > call'.began
    <3>1. /\ Position(k) \in 1..Len(lru) /\ lru[Position(k)] = k
      BY <1>1, <1>2, PositionOf DEF Expired
    <3>2. CASE cursor \in 1..Len(lru)
      <4>1. Position(k) = cursor
        BY <3>1, <3>2 DEF Inv, StoreInv, ListMatchesMap
      <4>2. lru' = RemoveAt(lru, cursor)
        BY <1>2, <4>1 DEF erase_it
      <4>3. Len(lru) \in Nat /\ i \in 1..(Len(lru) - 1)
        BY <1>1, <3>2, <4>2, RemoveAtLemma
      <4>4. lru'[i] = lru[i] /\ i < cursor /\ i \in 1..Len(lru)
        <5>1. i < cursor
          BY <1>2, <2>4
        <5>2. \A j \in 1..(Len(lru) - 1) :
                RemoveAt(lru, cursor)[j] = IF j < cursor THEN lru[j] ELSE lru[j + 1]
          BY <1>1, <3>2, RemoveAtLemma
        <5>3. lru'[i] = lru[i]
          BY <4>2, <4>3, <5>1, <5>2
        <5> QED BY <4>3, <5>1, <5>3
      <4>5. lru'[i] \in DOMAIN map'
        BY <2>1, <2>4 DEF StoreInv, ListMatchesMap
      <4> QED BY <1>1, <2>1, <4>4, <4>5 DEF Inv, PruneMissesNothing
    <3>3. CASE cursor = 0
      BY <1>2, <2>4, <3>3
    <3> QED BY <1>1, <3>2, <3>3
  <2> QED BY <1>1, <2>1, <2>2, <2>3, <2>4
          DEF Inv, CapacityAtRest, IteratorValid, PruneMissesNothing, FrontInv
<1>3. CASE ~Expired(k) /\ UNCHANGED store /\ cursor' = cursor + 1
  <2>1. StoreInv' /\ map' = map /\ lru' = lru /\ used' = used
    BY <1>1, <1>3, StoreStutter
  <2>2. CallInv'
    BY <1>1, <1>3 DEF Inv, CallInv
  <2>3. ASSUME NEW i \in 1..Len(lru), i < cursor + 1
        PROVE  map[lru[i]].expire_at > call.began
    <3>1. CASE i < cursor
      BY <1>1, <3>1 DEF Inv, PruneMissesNothing
    <3>2. CASE i = cursor
      <4>1. k \in DOMAIN map /\ map[k].expire_at \in Int
        BY <1>1, <3>2 DEF StoreInv, ListMatchesMap, Entry
      <4>2. map[k].expire_at = TimeMax \/ ~(now >= map[k].expire_at)
        BY <1>3, <4>1 DEF Expired, is_expired, is_no_expire, no_expire_time
      <4>3. call.began <= now /\ now \in 0..MaxTime /\ call.began \in Int
        BY DEF Inv, CallInv
      <4>4. TimeMax \in Int /\ MaxTime \in Nat /\ MaxTime < TimeMax
        BY TimeAssumption
      <4>5. map[k].expire_at > call.began
        BY <4>1, <4>2, <4>3, <4>4
      <4> QED BY <3>2, <4>5
    <3> QED BY <1>1, <2>3, <3>1, <3>2
  <2> QED BY <1>1, <1>3, <2>1, <2>2, <2>3
          DEF Inv, CapacityAtRest, IteratorValid, PruneMissesNothing, FrontInv
<1> QED BY <1>2, <1>3 DEF PruneStep, Advanced

LEMMA PruneDoneInv == ASSUME Inv, PruneDone PROVE Inv'
<1>1. /\ pc = "prune" /\ cursor > Len(lru) /\ UNCHANGED store /\ now' = now
      /\ used <= Capacity /\ StoreInv
  BY DEF PruneDone, Inv, CapacityAtRest
<1>2. StoreInv' /\ map' = map /\ lru' = lru /\ used' = used
  BY <1>1, StoreStutter
<1>3. CASE call.op = "set" /\ pc' = "store" /\ cursor' = 1 /\ UNCHANGED <<call, ret>>
  <2>1. CallInv'
    BY <1>1, <1>3 DEF Inv, CallInv
  <2>2. ASSUME NEW k \in DOMAIN map PROVE map[k].expire_at > call.began
    <3>1. PICK i \in 1..Len(lru) : lru[i] = k
      BY <1>1 DEF StoreInv, ListMatchesMap
    <3>2. i < cursor
      BY <1>1, <3>1 DEF Inv, CallInv, StoreInv
    <3> QED BY <1>1, <3>1, <3>2 DEF Inv, PruneMissesNothing
  <2> QED BY <1>1, <1>2, <1>3, <2>1, <2>2
          DEF Inv, CapacityAtRest, IteratorValid, PruneMissesNothing, FrontInv
<1>4. CASE Leave(Void)
  BY <1>1, <1>2, <1>4, LeaveInv, RetTypes
<1> QED BY <1>3, <1>4 DEF PruneDone

LEMMA SetStoreInv == ASSUME Inv, SetInsert \/ SetUpdate PROVE Inv'
<1>1. /\ StoreInv' /\ lru' # <<>> /\ lru'[1] = call.key /\ map'[call.key].value = call.value
  BY InsertKeepsStore, UpdateKeepsStore DEF Inv
<1>2. pc = "store" /\ pc' = "evict" /\ UNCHANGED <<now, call, cursor, ret>>
  BY DEF SetInsert, SetUpdate
<1>3. CallInv'
  BY <1>2 DEF Inv, CallInv
<1> QED BY <1>1, <1>2, <1>3
        DEF Inv, CapacityAtRest, IteratorValid, PruneMissesNothing, FrontInv

LEMMA EvictStepInv == ASSUME Inv, EvictStep PROVE Inv'
<1> DEFINE n == Len(lru)
<1>1. /\ pc = "evict" /\ lru # <<>> /\ used > Capacity /\ UNCHANGED <<now, pc, call, cursor, ret>>
      /\ StoreInv /\ CallInv /\ lru \in Seq(Keys)
  BY DEF EvictStep, OverCapacity, Inv, StoreInv
<1>2. /\ lru[n] \in DOMAIN map /\ StoreInv'
      /\ lru' = SubSeq(lru, 1, n - 1)
      /\ DOMAIN map' = DOMAIN map \ {lru[n]}
      /\ \A x \in DOMAIN map' : map'[x] = map[x]
  BY <1>1, BackIsErase
<1>3. CallInv'
  BY <1>1 DEF CallInv
<1>4. lru[1] = call.key /\ map[call.key].value = call.value
  BY <1>1 DEF Inv, FrontInv
<1>5. n \in Nat /\ n >= 1
  BY <1>1
<1> HIDE DEF n
<1>6. Len(lru') = n - 1 /\ (n > 1 => lru'[1] = lru[1])
  <2>1. \A j \in 1..(n - 1) : lru[j] \in Keys
    BY <1>1, <1>5 DEF n
  <2>2. /\ Len(SubSeq(lru, 1, n - 1)) = IF 1 <= n - 1 THEN (n - 1) - 1 + 1 ELSE 0
        /\ \A j \in 1..((n - 1) - 1 + 1) : SubSeq(lru, 1, n - 1)[j] = lru[1 + j - 1]
    BY <1>5, <2>1, SubSeqProperties
  <2>3. n > 1 => SubSeq(lru, 1, n - 1)[1] = lru[1]
    BY <1>5, <2>2
  <2> QED BY <1>2, <1>5, <2>2, <2>3
<1>7. CASE n = 1
  <2>1. used = KeySize[call.key] + ValueSize[call.value]
    BY <1>1, <1>4, <1>7, SingleEntry DEF n
  <2>2. lru' = <<>>
    BY <1>2, <1>6, <1>7 DEF StoreInv
  <2> QED BY <1>1, <1>2, <1>3, <2>1, <2>2
          DEF Inv, CapacityAtRest, IteratorValid, PruneMissesNothing, FrontInv
<1>8. CASE n > 1
  <2>1. lru' # <<>> /\ lru'[1] = call.key
    BY <1>4, <1>5, <1>6, <1>8
  <2>2. call.key \in DOMAIN map'
    <3>1. 1 \in 1..Len(lru')
      BY <1>5, <1>6, <1>8
    <3> QED BY <1>2, <2>1, <3>1 DEF StoreInv, ListMatchesMap
  <2> QED BY <1>1, <1>2, <1>3, <1>4, <2>1, <2>2
          DEF Inv, CapacityAtRest, IteratorValid, PruneMissesNothing, FrontInv
<1>9. n = 1 \/ n > 1
  BY <1>5
<1> QED BY <1>7, <1>8, <1>9

LEMMA SetEndInv == ASSUME Inv, SetEnd PROVE Inv'
<1>1. /\ pc = "evict" /\ ~(used > Capacity /\ lru # <<>>) /\ Leave(Void)
      /\ UNCHANGED store /\ now' = now /\ StoreInv
  BY DEF SetEnd, OverCapacity, Inv
<1>2. StoreInv' /\ used' = used
  BY <1>1, StoreStutter
<1>3. used <= Capacity
  BY <1>1, EmptyIsZero, SizeAssumption DEF StoreInv
<1> QED BY <1>1, <1>2, <1>3, LeaveInv, RetTypes

LEMMA TtlEndInv == ASSUME Inv, TtlEnd PROVE Inv'
<1> DEFINE k == call.key
<1>1. /\ pc = "ttl" /\ now' = now /\ StoreInv /\ used <= Capacity /\ k \in DOMAIN map
  BY DEF TtlEnd, Inv, CapacityAtRest, IteratorValid
<1>2. CASE erase_it(k) /\ Leave(Void)
  <2>1. StoreInv' /\ used' <= used
    BY <1>1, <1>2, EraseKeepsStore
  <2>2. used' <= Capacity
    BY <1>1, <2>1, SizeAssumption DEF StoreInv
  <2> QED BY <1>1, <1>2, <2>1, <2>2, LeaveInv, RetTypes
<1>3. CASE UNCHANGED store /\ Leave(FoundTtl(RemainingMs(map[k])))
  <2>1. StoreInv' /\ used' = used
    BY <1>1, <1>3, StoreStutter
  <2>2. map[k].expire_at \in Int /\ now \in Int
    BY <1>1 DEF StoreInv, Entry, Inv, CallInv
  <2>3. TicksPerMs \in Nat \ {0}
    BY TimeAssumption
  <2>4. RemainingMs(map[k]) \in Int
    BY <2>2, <2>3 DEF RemainingMs
  <2>5. FoundTtl(RemainingMs(map[k])) \in [found : BOOLEAN, value : Values \cup {Nil}, ms : Int]
    BY <2>4, RetTypes
  <2> QED BY <1>1, <1>3, <2>1, <2>5, LeaveInv
<1> QED BY <1>1, <1>2, <1>3 DEF TtlEnd

LEMMA NextInv == ASSUME Inv, [Next]_vars PROVE Inv'
<1>1. CASE UNCHANGED vars
  <2>1. StoreInv' /\ map' = map /\ lru' = lru /\ used' = used
    BY <1>1, StoreStutter DEF Inv, vars, store
  <2> QED BY <1>1, <2>1 DEF vars, Inv, CallInv, CapacityAtRest, IteratorValid,
          PruneMissesNothing, FrontInv, is_no_expire, no_expire_time
<1>2. CASE Tick
  BY <1>2, TickInv
<1>3. CASE Step
  BY <1>3, PruneStepInv, PruneDoneInv, SetStoreInv, EvictStepInv, SetEndInv, TtlEndInv DEF Step
<1>4. CASE PruneBegin
  BY <1>4, BeginInv
<1>5. CASE clear
  BY <1>5, ClearInv
<1>6. ASSUME NEW k \in Keys, get(k) \/ contains(k) \/ ttl_left(k) \/ erase(k) PROVE Inv'
  BY <1>6, LookupFailsInv, GetHitInv, QuietHitInv, EraseInv, BeginInv
     DEF get, contains, ttl_left
<1>7. ASSUME NEW k \in Keys, \E v \in Values, t \in TTLs : SetBegin(k, v, t) PROVE Inv'
  BY <1>7, BeginInv
<1> QED BY <1>1, <1>2, <1>3, <1>4, <1>5, <1>6, <1>7 DEF Next

-----------------------------------------------------------------------------
(* The theorems.                                                            *)

THEOREM Invariance == Spec => []Inv
BY InitInv, NextInv, PTL DEF Spec

\* The fields keep their types and used_bytes_ never underflows.
THEOREM TypeCorrect == Spec => []TypeOK
<1>1. Inv => TypeOK
  BY DEF Inv, StoreInv, CallInv, TypeOK
<1> QED BY <1>1, Invariance, PTL

\* map_ and lru_ agree between any two steps of any operation (erase_it,
\* touch, the two branches of set, evict_over_capacity).
THEOREM ListAndMapAgree == Spec => []ListMatchesMap
<1>1. Inv => ListMatchesMap
  BY DEF Inv, StoreInv
<1> QED BY <1>1, Invariance, PTL

\* used_bytes_ is exact.
THEOREM ExactAccounting == Spec => []Accounting
<1>1. Inv => Accounting
  BY DEF Inv, StoreInv
<1> QED BY <1>1, Invariance, PTL

\* Nobody who takes mutex_ finds more than capacity_bytes_ in use.
THEOREM WithinCapacity == Spec => []CapacityAtRest
<1>1. Inv => CapacityAtRest
  BY DEF Inv
<1> QED BY <1>1, Invariance, PTL

\* ttl_left's iterator stays valid over its second clock read.
THEOREM TtlIterator == Spec => []IteratorValid
<1>1. Inv => IteratorValid
  BY DEF Inv
<1> QED BY <1>1, Invariance, PTL

\* prune_unlocked removes whatever had expired when the call began.
THEOREM PruneComplete == Spec => []PruneMissesNothing
<1>1. Inv => PruneMissesNothing
  BY DEF Inv
<1> QED BY <1>1, Invariance, PTL

\* set returns with its key present if and only if the entry fits by itself.
THEOREM SetKeeps == Spec => SetKeepsItsKey
<1> DEFINE Kept == pc = "evict" /\ pc' = "idle" =>
                     (call.key \in DOMAIN map'
                        <=> KeySize[call.key] + ValueSize[call.value] <= Capacity)
<1>1. ASSUME Inv, [Next]_vars PROVE [Kept]_vars
  <2>1. SUFFICES ASSUME pc = "evict", pc' = "idle"
                 PROVE  call.key \in DOMAIN map'
                          <=> KeySize[call.key] + ValueSize[call.value] <= Capacity
    OBVIOUS
  <2>2. SetEnd
    BY <1>1, <2>1 DEF Next, vars, Tick, Step, PruneStep, PruneDone, SetUpdate, SetInsert,
       EvictStep, TtlEnd, PruneBegin, clear, get, contains, ttl_left, erase, SetBegin,
       LookupFails, GetHit, ContainsHit, TtlNone, TtlBegin, Locked, Enter
  <2>3. /\ ~(used > Capacity /\ lru # <<>>) /\ map' = map /\ StoreInv
        /\ KeySize[call.key] + ValueSize[call.value] \in Nat
    BY <1>1, <2>1, <2>2, SizeAssumption DEF SetEnd, OverCapacity, store, Inv, CallInv
  <2>4. CASE lru = <<>>
    <3>1. call.key \notin DOMAIN map
      BY <2>3, <2>4 DEF StoreInv, ListMatchesMap
    <3>2. KeySize[call.key] + ValueSize[call.value] > Capacity
      BY <1>1, <2>1, <2>4 DEF Inv, FrontInv
    <3> QED BY <2>3, <3>1, <3>2, SizeAssumption
  <2>5. CASE lru # <<>>
    <3>1. lru[1] = call.key /\ map[call.key].value = call.value
      BY <1>1, <2>1, <2>5 DEF Inv, FrontInv
    <3>2. 1 \in 1..Len(lru)
      BY <2>3, <2>5 DEF StoreInv
    <3>3. call.key \in DOMAIN map
      BY <2>3, <3>1, <3>2 DEF StoreInv, ListMatchesMap
    <3>4. KeySize[call.key] + ValueSize[call.value] <= used
      BY <2>3, <3>1, <3>3, EntryFits
    <3> QED BY <2>3, <2>5, <3>3, <3>4, SizeAssumption DEF StoreInv
  <2> QED BY <2>4, <2>5
<1> QED BY <1>1, Invariance, PTL DEF Spec, SetKeepsItsKey

\* The three views of one set of entries that map_, lru_ and used_bytes_ are agree at
\* every step, and what ttl_left points to is in them.
THEOREM CacheConsistent == Spec => []Consistent
BY TypeCorrect, ListAndMapAgree, ExactAccounting, TtlIterator, PTL DEF Consistent

-----------------------------------------------------------------------------
(* LRUCache implements LRUPolicy: under Content and Newer each step of the   *)
(* code is a step of the policy, or none.                                   *)

(* What the list operations do to the order of use.                          *)

\* Erasing a node forgets its key and keeps the order of the others.
LEMMA OrderOfErase ==
    ASSUME NEW K, NEW s \in Seq(Keys), Lists(s, K), NEW i \in 1..Len(s)
    PROVE  Order(RemoveAt(s, i)) = {p \in Order(s) : p[1] # s[i] /\ p[2] # s[i]}
<1> DEFINE r == RemoveAt(s, i)
<1>0. Len(s) \in Nat
  OBVIOUS
<1>1. /\ Len(r) = Len(s) - 1
      /\ \A j \in 1..(Len(s) - 1) : r[j] = IF j < i THEN s[j] ELSE s[j + 1]
  BY RemoveAtLemma
<1> HIDE DEF r
<1>2. ASSUME NEW p \in Order(r) PROVE p \in Order(s) /\ p[1] # s[i] /\ p[2] # s[i]
  <2>1. PICK m \in 1..Len(r), n \in 1..Len(r) : m < n /\ r[m] = p[1] /\ r[n] = p[2]
    BY DEF Order
  <2> DEFINE at(j) == IF j < i THEN j ELSE j + 1
  <2>2. /\ at(m) \in 1..Len(s) /\ s[at(m)] = p[1] /\ at(m) # i
        /\ at(n) \in 1..Len(s) /\ s[at(n)] = p[2] /\ at(n) # i
        /\ at(m) < at(n)
    BY <1>0, <1>1, <2>1
  <2> HIDE DEF at
  <2>3. p \in Keys \X Keys
    BY DEF Order
  <2> QED BY <2>2, <2>3 DEF Order, Lists
<1>3. ASSUME NEW p \in Order(s), p[1] # s[i], p[2] # s[i] PROVE p \in Order(r)
  <2>1. PICK m \in 1..Len(s), n \in 1..Len(s) : m < n /\ s[m] = p[1] /\ s[n] = p[2]
    BY DEF Order
  <2> DEFINE down(j) == IF j < i THEN j ELSE j - 1
  <2>2. m # i /\ n # i
    BY <1>3, <2>1
  <2>3. /\ down(m) \in 1..Len(r) /\ r[down(m)] = p[1]
        /\ down(n) \in 1..Len(r) /\ r[down(n)] = p[2]
        /\ down(m) < down(n)
    BY <1>0, <1>1, <2>1, <2>2
  <2> HIDE DEF down
  <2>4. p \in Keys \X Keys
    BY DEF Order
  <2> QED BY <2>3, <2>4 DEF Order
<1> QED BY <1>2, <1>3 DEF r

\* A key linked in front is newer than every other.
LEMMA OrderOfFront ==
    ASSUME NEW K, NEW s \in Seq(Keys), Lists(s, K), NEW k \in Keys, k \notin K
    PROVE  Order(<<k>> \o s) = Order(s) \cup ({k} \X K)
<1> DEFINE r == <<k>> \o s
<1>0. Len(s) \in Nat
  OBVIOUS
<1>1. /\ Len(r) = Len(s) + 1
      /\ r[1] = k
      /\ \A j \in 2..Len(r) : r[j] = s[j - 1]
  <2>1. <<k>> \in Seq(Keys) /\ Len(<<k>>) = 1 /\ <<k>>[1] = k
    OBVIOUS
  <2>2. /\ Len(r) = Len(<<k>>) + Len(s)
        /\ \A j \in 1..(Len(<<k>>) + Len(s)) :
             r[j] = IF j <= Len(<<k>>) THEN <<k>>[j] ELSE s[j - Len(<<k>>)]
    BY <2>1, ConcatProperties
  <2> HIDE DEF r
  <2> QED BY <1>0, <2>1, <2>2
<1> HIDE DEF r
<1>2. ASSUME NEW p \in Order(r) PROVE p \in Order(s) \cup ({k} \X K)
  <2>1. PICK m \in 1..Len(r), n \in 1..Len(r) : m < n /\ r[m] = p[1] /\ r[n] = p[2]
    BY DEF Order
  <2>2. p \in Keys \X Keys /\ p = <<p[1], p[2]>>
    BY DEF Order
  <2>3. n - 1 \in 1..Len(s) /\ s[n - 1] = p[2]
    BY <1>0, <1>1, <2>1
  <2>4. CASE m = 1
    <3>1. p[1] = k /\ p[2] \in K
      BY <1>1, <2>1, <2>3, <2>4 DEF Lists
    <3>2. <<p[1], p[2]>> \in {k} \X K
      BY <3>1
    <3> QED BY <2>2, <3>2
  <2>5. CASE m # 1
    <3>1. m - 1 \in 1..Len(s) /\ s[m - 1] = p[1] /\ m - 1 < n - 1
      BY <1>0, <1>1, <2>1, <2>5
    <3> QED BY <2>2, <2>3, <3>1 DEF Order
  <2> QED BY <2>4, <2>5
<1>3. ASSUME NEW p \in Order(s) PROVE p \in Order(r)
  <2>1. PICK m \in 1..Len(s), n \in 1..Len(s) : m < n /\ s[m] = p[1] /\ s[n] = p[2]
    BY DEF Order
  <2>2. /\ m + 1 \in 2..Len(r) /\ (m + 1) - 1 = m
        /\ n + 1 \in 2..Len(r) /\ (n + 1) - 1 = n
        /\ m + 1 < n + 1
    BY <1>0, <1>1, <2>1
  <2>3. r[m + 1] = p[1] /\ r[n + 1] = p[2]
    BY <1>1, <2>1, <2>2
  <2>4. p \in Keys \X Keys
    BY DEF Order
  <2>5. m + 1 \in 1..Len(r) /\ n + 1 \in 1..Len(r)
    BY <1>0, <1>1, <2>2
  <2> QED BY <2>2, <2>4, <2>3, <2>5 DEF Order
<1>4. ASSUME NEW x \in K PROVE <<k, x>> \in Order(r)
  <2>1. PICK n \in 1..Len(s) : s[n] = x
    BY DEF Lists
  <2>2. n + 1 \in 1..Len(r) /\ r[n + 1] = x /\ 1 \in 1..Len(r) /\ 1 < n + 1 /\ x \in Keys
    BY <1>0, <1>1, <2>1
  <2>3. <<k, x>> \in Keys \X Keys /\ <<k, x>>[1] = k /\ <<k, x>>[2] = x
    BY <2>2
  <2> QED BY <1>1, <2>2, <2>3 DEF Order
<1>5. \A p \in {k} \X K : \E x \in K : p = <<k, x>>
  OBVIOUS
<1> QED BY <1>2, <1>3, <1>4, <1>5 DEF r

-----------------------------------------------------------------------------
(* What the operations on the store do to the mapped state.                  *)

\* Everything a step of the store leaves alone is left alone in the policy.
LEMMA StoreUnchanged ==
    ASSUME UNCHANGED store
    PROVE  Content' = Content /\ Newer' = Newer
BY DEF store, Content, Newer, Order

LEMMA EraseIsRemove ==
    ASSUME StoreInv, NEW k \in DOMAIN map, erase_it(k)
    PROVE  Policy!Remove({k})
<1>1. Position(k) \in 1..Len(lru) /\ lru[Position(k)] = k
  BY PositionOf
<1>2. lru \in Seq(Keys) /\ Lists(lru, DOMAIN map)
  BY DEF StoreInv, ListMatchesMap, Lists
<1>3. Order(RemoveAt(lru, Position(k))) = {p \in Order(lru) : p[1] # k /\ p[2] # k}
  BY <1>1, <1>2, OrderOfErase
<1>4. Newer' = {p \in Newer : p[1] \notin {k} /\ p[2] \notin {k}}
  <2>1. lru' = RemoveAt(lru, Position(k))
    BY DEF erase_it
  <2>2. Newer' = Order(RemoveAt(lru, Position(k)))
    BY <2>1 DEF Newer, Order
  <2> QED BY <1>3, <2>2 DEF Newer
<1>5. Content' = [x \in Policy!Present \ {k} |-> Content[x]]
  BY DEF erase_it, MapWithout, Content, Policy!Present
<1> QED BY <1>4, <1>5 DEF Policy!Remove

LEMMA TouchIsUse ==
    ASSUME StoreInv, NEW k \in DOMAIN map, touch(k), DOMAIN map' = DOMAIN map
    PROVE  Policy!UseNow(k)
<1> DEFINE r == RemoveAt(lru, Position(k))
<1>1. Position(k) \in 1..Len(lru) /\ lru[Position(k)] = k /\ k \in Keys
  BY PositionOf DEF StoreInv
<1>2. lru \in Seq(Keys) /\ Lists(lru, DOMAIN map)
  BY DEF StoreInv, ListMatchesMap, Lists
<1>3. r \in Seq(Keys) /\ Lists(r, DOMAIN map \ {k})
  BY <1>1, <1>2, EraseNode
<1>4. Order(r) = {p \in Order(lru) : p[1] # k /\ p[2] # k}
  BY <1>1, <1>2, OrderOfErase
<1> HIDE DEF r
<1>5. Order(<<k>> \o r) = Order(r) \cup ({k} \X (DOMAIN map \ {k}))
  BY <1>1, <1>3, OrderOfFront
<1>6. Newer' = Order(<<k>> \o r)
  BY DEF touch, Newer, Order, r
<1>7. DOMAIN Content' = DOMAIN map
  BY DEF Content
<1> QED BY <1>4, <1>5, <1>6, <1>7 DEF Policy!UseNow, Newer

\* Linking a key that was not there: nothing known of it has to be forgotten.
LEMMA LinkIsUse ==
    ASSUME StoreInv, NEW k \in Keys \ DOMAIN map, lru' = <<k>> \o lru,
           DOMAIN map' = DOMAIN map \cup {k}
    PROVE  Policy!UseNow(k)
<1>1. lru \in Seq(Keys) /\ Lists(lru, DOMAIN map)
  BY DEF StoreInv, ListMatchesMap, Lists
<1>2. Order(<<k>> \o lru) = Order(lru) \cup ({k} \X DOMAIN map)
  BY <1>1, OrderOfFront
<1>3. {p \in Newer : p[1] # k /\ p[2] # k} = Newer
  <2>1. \A p \in Order(lru) : p[1] \in DOMAIN map /\ p[2] \in DOMAIN map
    BY <1>1 DEF Order, Lists
  <2> QED BY <2>1 DEF Newer
<1>4. DOMAIN Content' \ {k} = DOMAIN map
  BY DEF Content
<1>5. Newer' = Order(<<k>> \o lru)
  BY DEF Newer, Order
<1> QED BY <1>2, <1>3, <1>4, <1>5 DEF Policy!UseNow, Newer

\* An entry that is expired for the code is past its deadline for the policy.
LEMMA AliveIsLive ==
    ASSUME StoreInv, CallInv, NEW k \in DOMAIN map
    PROVE  /\ k \in Keys
           /\ k \in Policy!Present
           /\ Content[k].value = map[k].value
           /\ Content[k].deadline = map[k].expire_at
           /\ ~is_expired(map[k]) => Policy!Alive(k)
           /\ is_expired(map[k]) => ~Policy!Alive(k)
<1>1. map[k].expire_at \in Int /\ now \in Int /\ k \in Keys
  BY DEF StoreInv, CallInv, Entry
<1>2. /\ k \in Policy!Present
      /\ Content[k].value = map[k].value
      /\ Content[k].deadline = map[k].expire_at
  BY DEF Policy!Present, Content
<1> QED BY <1>1, <1>2
        DEF Policy!Alive, is_expired, is_no_expire, no_expire_time

-----------------------------------------------------------------------------
(* Each step of the code is a step of the policy, or none.                   *)

\* prune has nothing to report: the result it leaves was set when it began.
PruneSilent == pc = "prune" => ret = Void

LEMMA SilentInv == ASSUME PruneSilent, [Next]_vars PROVE PruneSilent'
BY DEF PruneSilent, Next, vars, Tick, Step, PruneStep, PruneDone, SetUpdate, SetInsert,
   EvictStep, SetEnd, TtlEnd, PruneBegin, clear, get, contains, ttl_left, erase, SetBegin,
   LookupFails, GetHit, ContainsHit, TtlNone, TtlBegin, Locked, Enter, Leave

LEMMA TickMaps == ASSUME Tick PROVE Policy!Pass
BY StoreUnchanged DEF Tick, store, Policy!Pass

\* Taking the mutex, giving it back, and a lookup that reports nothing.
LEMMA QuietMaps == ASSUME UNCHANGED <<store, now>>, ret' = Void PROVE Policy!Quiet
BY StoreUnchanged DEF Void, Policy!Quiet, Policy!Nothing

\* Whoever erases an expired entry and reports nothing lets it lapse.
LEMMA LapseMaps ==
    ASSUME Inv, NEW k \in DOMAIN map, is_expired(map[k]), erase_it(k), ret' = Void, now' = now
    PROVE  \E x \in Keys : Policy!Lapse(x)
<1>1. k \in Keys /\ k \in Policy!Present /\ ~Policy!Alive(k)
  BY AliveIsLive DEF Inv
<1>2. Policy!Remove({k})
  BY EraseIsRemove DEF Inv
<1> QED BY <1>1, <1>2 DEF Policy!Lapse, Policy!Nothing, Void

LEMMA PruneStepMaps ==
    ASSUME Inv, PruneSilent, PruneStep
    PROVE  (\E x \in Keys : Policy!Lapse(x)) \/ UNCHANGED Policy!policyVars
<1>1. pc = "prune" /\ now' = now /\ ret' = ret /\ ret = Void
  BY DEF PruneStep, PruneSilent
<1>2. CASE Expired(lru[cursor]) /\ erase_it(lru[cursor])
  BY <1>1, <1>2, LapseMaps DEF Expired
<1>3. CASE UNCHANGED store
  BY <1>1, <1>3, StoreUnchanged DEF Policy!policyVars
<1> QED BY <1>2, <1>3 DEF PruneStep

LEMMA StoreMaps ==
    ASSUME Inv, SetUpdate \/ SetInsert
    PROVE  \E k \in Keys, v \in Values, t \in TTLs : Policy!Put(k, v, t)
<1> DEFINE k == call.key
           e == NewEntry(call)
<1>1. /\ k \in Keys /\ call.value \in Values /\ call.ttl \in TTLs
      /\ UNCHANGED <<now, ret>> /\ StoreInv
  BY DEF SetUpdate, SetInsert, Inv, CallInv
<1>2. map' = [x \in DOMAIN map \cup {k} |-> IF x = k THEN e ELSE map[x]]
  BY <1>1 DEF SetUpdate, SetInsert, StoreInv
<1>3. Policy!UseNow(k)
  <2>1. CASE SetUpdate
    BY <1>1, <2>1, TouchIsUse DEF SetUpdate
  <2>2. CASE SetInsert
    BY <1>1, <1>2, <2>2, LinkIsUse DEF SetInsert, Linked
  <2> QED BY <2>1, <2>2
<1>4. e.value = call.value /\ e.expire_at = IF call.ttl = 0 THEN TimeMax ELSE now + call.ttl * TicksPerMs
  BY DEF NewEntry, ExpireAt, no_expire_time
<1> HIDE DEF k, e
<1>5. Content' = [x \in Policy!Present \cup {k} |->
                   IF x = k
                     THEN [value |-> call.value,
                           deadline |-> IF call.ttl = 0 THEN TimeMax
                                                        ELSE now + call.ttl * TicksPerMs]
                     ELSE Content[x]]
  BY <1>2, <1>4 DEF Content, Policy!Present
<1>6. Policy!Put(k, call.value, call.ttl)
  BY <1>1, <1>3, <1>5 DEF Policy!Put
<1> QED BY <1>1, <1>6 DEF k

\* LRUPolicy counts with its own instance of FiniteSets.
LEMMA SameCardinality ==
    ASSUME NEW S
    PROVE  Policy!Cardinality(S) = Cardinality(S)
BY DEF Policy!Cardinality, Cardinality

\* The back of the list is the key used least recently, and the bytes that
\* used_bytes_ counts are those of the policy.
LEMMA EvictMaps == ASSUME Inv, EvictStep PROVE \E k \in Keys : Policy!Evict(k)
<1> DEFINE n == Len(lru)
           back == lru[n]
<1>1. /\ lru # <<>> /\ used > Capacity /\ UNCHANGED <<now, ret>> /\ pc = "evict"
      /\ StoreInv /\ lru \in Seq(Keys)
  BY DEF EvictStep, OverCapacity, Inv, StoreInv
<1>2. n \in Nat /\ n \in 1..Len(lru) /\ back \in DOMAIN map
  BY <1>1 DEF StoreInv, ListMatchesMap
<1>3. erase_it(back)
  BY <1>1, BackIsErase
<1>4. Policy!Remove({back})
  BY <1>1, <1>2, <1>3, EraseIsRemove
<1>5. Policy!Occupied(Content) = OccupiedBytes(map)
  BY DEF Policy!Occupied, Content, OccupiedBytes, BytesOf
<1>6. Cardinality(Policy!Occupied(Content)) > Capacity
  BY <1>1, <1>5 DEF StoreInv, Accounting
<1>7. ASSUME NEW x \in DOMAIN map \ {back} PROVE <<x, back>> \in Newer
  <2>1. PICK i \in 1..Len(lru) : lru[i] = x
    BY <1>1 DEF StoreInv, ListMatchesMap
  <2>2. i < n
    BY <1>2, <1>7, <2>1
  <2>3. <<x, back>> \in Keys \X Keys /\ <<x, back>>[1] = x /\ <<x, back>>[2] = back
    BY <1>1, <1>2 DEF StoreInv
  <2> QED BY <1>2, <2>1, <2>2, <2>3 DEF Newer, Order
<1> HIDE DEF back, n
<1>8. back \in Keys /\ Policy!Present = DOMAIN map
  <2>1. back \in Keys
    BY <1>1, <1>2 DEF StoreInv
  <2>2. Policy!Present = DOMAIN map
    BY DEF Policy!Present, Content
  <2> QED BY <2>1, <2>2
<1>9. \A x \in Policy!Present \ {back} : <<x, back>> \in Newer
  BY <1>7, <1>8
<1>10. Policy!Evict(back)
  <2>1. back \in Policy!Present
    BY <1>2, <1>8
  <2>2. now' = now /\ ret' = ret
    BY <1>1
  <2>3. Policy!Cardinality(Policy!Occupied(Content)) > Capacity
    BY <1>6, SameCardinality
  <2> QED BY <1>4, <1>9, <2>1, <2>2, <2>3 DEF Policy!Evict
<1> QED BY <1>8, <1>10

\* Rounding down: milliseconds never overstate what is left, and fall short of
\* it by less than one of them.
LEMMA RoundedDown ==
    ASSUME NEW d \in Nat, NEW u \in Nat \ {0}
    PROVE  /\ d \div u \in 0..d
           /\ (d \div u) * u <= d
           /\ ((d \div u) + 1) * u > d
<1> DEFINE q == d \div u
<1>1. q \in Int /\ d = u * q + (d % u) /\ d % u \in 0..(u - 1)
  OBVIOUS
<1> HIDE DEF q
<1>2. q * u <= d /\ (q + 1) * u > d
  BY <1>1
<1>3. q >= 0
  <2>1. SUFFICES ASSUME q < 0 PROVE FALSE
    BY <1>1
  <2>2. -(q + 1) \in Nat
    BY <1>1, <2>1
  <2>3. (-(q + 1)) * u \in Nat
    BY <2>2
  <2> QED BY <1>1, <1>2, <2>3
<1>4. q <= q * u
  BY <1>1, <1>3
<1> QED BY <1>1, <1>2, <1>3, <1>4 DEF q

LEMMA TtlEndMaps ==
    ASSUME Inv, TtlEnd
    PROVE  \E k \in Keys : Policy!Lapse(k) \/ Policy!Lifetime(k)
<1> DEFINE k == call.key
           d == map[k].expire_at - now
<1>1. /\ pc = "ttl" /\ now' = now /\ k \in DOMAIN map /\ ~is_no_expire(map[k])
      /\ StoreInv /\ CallInv
  BY DEF TtlEnd, Inv, IteratorValid
<1>2. map[k].expire_at \in Int /\ now \in Int /\ TicksPerMs \in Nat \ {0}
  BY <1>1, TimeAssumption DEF StoreInv, CallInv, Entry
<1>3. CASE map[k].expire_at <= now
  <2>1. is_expired(map[k]) /\ erase_it(k) /\ ret' = Void
    BY <1>1, <1>2, <1>3 DEF TtlEnd, Leave, is_expired
  <2> QED BY <1>1, <2>1, LapseMaps
<1>4. CASE ~(map[k].expire_at <= now)
  <2>1. UNCHANGED store /\ ret' = FoundTtl(d \div TicksPerMs)
    BY <1>4 DEF TtlEnd, Leave, RemainingMs
  <2>2. d \in Nat
    BY <1>2, <1>4
  <2>3. /\ k \in Keys /\ Policy!Alive(k)
        /\ Content[k].deadline = map[k].expire_at
    BY <1>1, <1>2, <1>4, AliveIsLive DEF is_expired
  <2>4. Content[k].deadline # TimeMax /\ Content[k].deadline - now = d
    BY <1>1, <2>3 DEF is_no_expire, no_expire_time
  <2> DEFINE q == d \div TicksPerMs
  <2>5. q \in 0..d /\ q * TicksPerMs <= d /\ (q + 1) * TicksPerMs > d
    BY <1>2, <2>2, RoundedDown
  <2>6. ret' = [found |-> TRUE, value |-> Nil, ms |-> q]
    BY <2>1 DEF FoundTtl
  <2> HIDE DEF q, d, k
  <2>7. Policy!Lifetime(k)
    BY <1>1, <2>1, <2>3, <2>4, <2>5, <2>6, StoreUnchanged DEF Policy!Lifetime
  <2> QED BY <2>3, <2>7
<1> QED BY <1>3, <1>4

\* get, contains, ttl_left and erase when they take one step.
LEMMA LookupFailsMaps ==
    ASSUME Inv, NEW k \in Keys, LookupFails(k)
    PROVE  Policy!Quiet \/ \E x \in Keys : Policy!Lapse(x)
<1>1. ret' = Void /\ now' = now
  BY DEF LookupFails, Locked
<1>2. CASE UNCHANGED store
  BY <1>1, <1>2, QuietMaps
<1>3. CASE Expired(k) /\ erase_it(k)
  BY <1>1, <1>3, LapseMaps DEF Expired
<1> QED BY <1>2, <1>3 DEF LookupFails

LEMMA GetHitMaps == ASSUME Inv, NEW k \in Keys, GetHit(k) PROVE Policy!Hit(k)
<1>1. /\ k \in DOMAIN map /\ ~is_expired(map[k]) /\ StoreInv /\ CallInv
      /\ ret' = FoundValue(map[k].value) /\ touch(k) /\ map' = map /\ now' = now
  BY DEF GetHit, Live, Locked, Inv
<1>2. Policy!Alive(k) /\ Content[k].value = map[k].value
  BY <1>1, AliveIsLive
<1>3. Policy!UseNow(k)
  BY <1>1, TouchIsUse
<1>4. Content' = Content
  BY <1>1 DEF Content
<1> QED BY <1>1, <1>2, <1>3, <1>4 DEF Policy!Hit, FoundValue

LEMMA ContainsHitMaps == ASSUME Inv, NEW k \in Keys, ContainsHit(k) PROVE Policy!Probe(k)
<1>1. /\ k \in DOMAIN map /\ ~is_expired(map[k]) /\ StoreInv /\ CallInv
      /\ ret' = Found /\ UNCHANGED store /\ now' = now
  BY DEF ContainsHit, Live, Locked, Inv
<1>2. Policy!Alive(k)
  BY <1>1, AliveIsLive
<1> QED BY <1>1, <1>2, StoreUnchanged DEF Policy!Probe, Found

LEMMA EraseMaps ==
    ASSUME Inv, NEW k \in Keys, erase(k)
    PROVE  Policy!Quiet \/ Policy!Delete(k)
<1>1. CASE UNCHANGED store /\ Locked(Void)
  BY <1>1, QuietMaps DEF Locked
<1>2. CASE ~Missing(k) /\ Locked(Found) /\ erase_it(k)
  <2>1. k \in DOMAIN map /\ StoreInv
    BY <1>2 DEF Missing, Inv
  <2>2. Policy!Remove({k}) /\ k \in Policy!Present
    BY <1>2, <2>1, EraseIsRemove DEF Policy!Present, Content
  <2> QED BY <1>2, <2>2 DEF Policy!Delete, Locked, Found
<1> QED BY <1>1, <1>2 DEF erase

LEMMA ClearMaps == ASSUME Inv, clear PROVE Policy!Wipe
<1>1. map' = [k \in {} |-> Nil] /\ lru' = <<>> /\ ret' = Void /\ now' = now
  BY DEF clear, Locked
<1>2. Newer' = {}
  <2>1. ~ \E i \in 1..Len(lru') : TRUE
    BY <1>1
  <2> QED BY <2>1 DEF Newer, Order
<1>3. \A p \in Newer : p[1] \in Policy!Present
  BY DEF Inv, StoreInv, ListMatchesMap, Newer, Order, Policy!Present, Content
<1>4. Content' = [x \in Policy!Present \ Policy!Present |-> Content[x]]
  BY <1>1 DEF Content
<1>5. Policy!Remove(Policy!Present)
  BY <1>2, <1>3, <1>4 DEF Policy!Remove
<1> QED BY <1>1, <1>5 DEF Policy!Wipe, Policy!Nothing, Void

LEMMA InitMaps == ASSUME Init PROVE Policy!PolicyInit
<1>1. Content = [k \in {} |-> Nil]
  BY DEF Init, Content
<1>2. Newer = {}
  <2>1. ~ \E i \in 1..Len(lru) : TRUE
    BY DEF Init
  <2> QED BY <2>1 DEF Newer, Order
<1> QED BY <1>1, <1>2 DEF Init, Policy!PolicyInit, Policy!Nothing, Void

LEMMA NextMaps ==
    ASSUME Inv, PruneSilent, [Next]_vars
    PROVE  [Policy!PolicyNext]_Policy!policyVars
<1> USE DEF Policy!PolicyNext
<1>1. CASE UNCHANGED vars
  BY <1>1, StoreUnchanged DEF vars, store, Policy!policyVars
<1>2. CASE Tick
  BY <1>2, TickMaps
<1>3. CASE Step
  <2>1. CASE PruneStep
    BY <2>1, PruneStepMaps
  <2>2. CASE PruneDone \/ SetEnd
    <3>1. CASE UNCHANGED <<store, now>> /\ Leave(Void)
      BY <3>1, QuietMaps DEF Leave
    <3>2. CASE UNCHANGED <<store, now, ret>>
      BY <3>2, StoreUnchanged DEF Policy!policyVars
    <3> QED BY <2>2, <3>1, <3>2 DEF PruneDone, SetEnd
  <2>3. CASE SetUpdate \/ SetInsert
    BY <2>3, StoreMaps
  <2>4. CASE EvictStep
    BY <2>4, EvictMaps
  <2>5. CASE TtlEnd
    BY <2>5, TtlEndMaps
  <2> QED BY <1>3, <2>1, <2>2, <2>3, <2>4, <2>5 DEF Step
<1>4. CASE PruneBegin
  BY <1>4, QuietMaps DEF PruneBegin, Enter
<1>5. CASE clear
  BY <1>5, ClearMaps
<1>6. ASSUME NEW k \in Keys, get(k) \/ contains(k) \/ ttl_left(k) \/ erase(k)
      PROVE  Policy!PolicyNext
  <2>1. CASE LookupFails(k)
    BY <2>1, LookupFailsMaps
  <2>2. CASE GetHit(k)
    BY <2>2, GetHitMaps
  <2>3. CASE ContainsHit(k)
    BY <2>3, ContainsHitMaps
  <2>4. CASE TtlNone(k) \/ TtlBegin(k)
    BY <2>4, QuietMaps DEF TtlNone, TtlBegin, Locked, Enter
  <2>5. CASE erase(k)
    BY <2>5, EraseMaps
  <2> QED BY <1>6, <2>1, <2>2, <2>3, <2>4, <2>5 DEF get, contains, ttl_left
<1>7. ASSUME NEW k \in Keys, NEW v \in Values, NEW t \in TTLs, SetBegin(k, v, t)
      PROVE  Policy!PolicyNext
  BY <1>7, QuietMaps DEF SetBegin, Enter
<1> QED BY <1>1, <1>2, <1>3, <1>4, <1>5, <1>6, <1>7 DEF Next

-----------------------------------------------------------------------------

\* LRUCache.{h,cpp} implements the policy: a live entry leaves only by erase,
\* by clear, or as the least recently used one of a cache over its capacity; a
\* lookup answers the value stored last; and no lifetime is overstated.
THEOREM Implements == Spec => Refines
<1>1. Init => Policy!PolicyInit /\ PruneSilent
  BY InitMaps DEF Init, PruneSilent
<1>2. PruneSilent /\ [Next]_vars => PruneSilent'
  BY SilentInv
<1>3. Spec => []PruneSilent
  BY <1>1, <1>2, PTL DEF Spec
<1>4. Inv /\ PruneSilent /\ [Next]_vars => [Policy!PolicyNext]_Policy!policyVars
  BY NextMaps
<1> QED BY <1>1, <1>3, <1>4, Invariance, PTL DEF Spec, Refines, Policy!PolicySpec

=============================================================================
