--------------------------- MODULE HttpClientProofs ---------------------------
(***************************************************************************)
(* The body http::request returns is the payload of the response, for       *)
(* every response, wherever the network cuts it into reads, be it inside a  *)
(* size line or between \r and \n, and wherever the stream ends.            *)
(*                                                                         *)
(* The first half says where the units of a response lie in its stream.  A  *)
(* stream joins sequences of any number and length, so this takes induction *)
(* over numbers; it is done with sets of numbers, from the well-foundedness *)
(* of < (EveryNumber).  The second half is the invariant: what each reader  *)
(* has put in the body by the time it stands at a place of the stream.      *)
(***************************************************************************)
EXTENDS HttpClient, SequenceTheorems, WellFoundedInduction, TLAPS

-----------------------------------------------------------------------------
(* Induction over numbers.                                                  *)

\* A set of numbers has a smallest one.
LEMMA SmallestNumber ==
    ASSUME NEW T, T \subseteq Nat, T # {}
    PROVE  \E n \in T : \A k \in T : n <= k
<1> DEFINE R == OpToRel(<, Nat)
<1>1. IsWellFoundedOn(R, Nat)
  BY NatLessThanWellFounded
<1>2. \A x, y \in Nat : <<y, x>> \in R <=> y < x
  BY DEF OpToRel
<1> HIDE DEF R
<1>3. PICK n \in T : \A k \in T : ~(<<k, n>> \in R)
  BY <1>1, WFMin
<1>4. ASSUME NEW k \in T
      PROVE  n <= k
  <2>1. n \in Nat /\ k \in Nat /\ ~(k < n)
    BY <1>2, <1>3
  <2> QED
    BY <2>1
<1> QED
  BY <1>4

\* A set that holds 0, and with each number the next, holds every number.
LEMMA EveryNumber ==
    ASSUME NEW T, 0 \in T, \A n \in Nat : n \in T => n + 1 \in T
    PROVE  \A n \in Nat : n \in T
<1> SUFFICES ASSUME NEW m \in Nat, m \notin T
             PROVE  FALSE
  OBVIOUS
<1>0. Nat \ T # {} /\ Nat \ T \subseteq Nat
  OBVIOUS
<1>1. PICK n \in Nat \ T : \A k \in Nat \ T : n <= k
  BY <1>0, SmallestNumber
<1>2. n # 0 /\ n \in Nat
  OBVIOUS
<1>3. n - 1 \in Nat /\ n - 1 < n /\ (n - 1) + 1 = n
  BY <1>2
<1>4. n - 1 \in T
  BY <1>1, <1>2, <1>3
<1> QED
  BY <1>1, <1>2, <1>3, <1>4

-----------------------------------------------------------------------------
(* What FlattenSeq computes.                                                *)

\* f joins the first n of the sequences, one after the other.
Joins(f, s, n) == f = [i \in 1..n |-> IF i = 1 THEN s[i] ELSE f[i-1] \o s[i]]

\* Joining one sequence after the other has a result, however many there are.
LEMMA JoinsExist ==
    ASSUME NEW s, NEW n \in Nat
    PROVE  \E f : Joins(f, s, n)
<1> DEFINE T == {m \in Nat : \E f : Joins(f, s, m)}
<1>1. 0 \in T
  <2> DEFINE f == [i \in 1..0 |-> s[i]]
  <2>1. Joins(f, s, 0)
    BY DEF Joins
  <2> QED
    BY <2>1
<1>2. ASSUME NEW m \in Nat, m \in T
      PROVE  m + 1 \in T
  <2>1. PICK f : Joins(f, s, m)
    BY <1>2
  <2> DEFINE g == [i \in 1..(m + 1) |-> IF i = m + 1 THEN (IF i = 1 THEN s[i] ELSE f[m] \o s[i])
                                                    ELSE f[i]]
             h == [i \in 1..(m + 1) |-> IF i = 1 THEN s[i] ELSE g[i-1] \o s[i]]
  <2>2. ASSUME NEW i \in 1..(m + 1)
        PROVE  g[i] = h[i]
    <3>1. CASE i = m + 1 /\ i = 1
      BY <3>1
    <3>2. CASE i = m + 1 /\ i # 1
      <4>1. i - 1 = m /\ m \in 1..(m + 1) /\ m # m + 1
        BY <3>2
      <4>2. g[i - 1] = f[m]
        BY <4>1
      <4> QED
        BY <3>2, <4>2
    <3>3. CASE i # m + 1
      <4>1. i \in 1..m
        BY <3>3
      <4>2. f[i] = IF i = 1 THEN s[i] ELSE f[i-1] \o s[i]
        BY <2>1, <4>1 DEF Joins
      <4>3. g[i] = f[i]
        BY <3>3
      <4>4. i # 1 => g[i-1] = f[i-1]
        <5>1. i # 1 => i - 1 \in 1..(m + 1) /\ i - 1 # m + 1
          BY <4>1
        <5> QED
          BY <5>1
      <4> QED
        BY <4>2, <4>3, <4>4
    <3> QED
      BY <3>1, <3>2, <3>3
  <2>3. g = h
    <3> HIDE DEF g
    <3> SUFFICES g \in [1..(m+1) -> {g[i] : i \in 1..(m+1)}]
      BY <2>2
    <3> QED
      BY DEF g
  <2>4. Joins(g, s, m + 1)
    <3> HIDE DEF g
    <3> QED
      BY <2>3 DEF Joins
  <2> HIDE DEF g
  <2> QED
    BY <2>4
<1>3. n \in T
  <2> HIDE DEF T
  <2> QED
    BY <1>1, <1>2, EveryNumber
<1> QED
  BY <1>3

\* What FlattenSeq returns is the last of those joins.
LEMMA Flattened ==
    ASSUME NEW s, Len(s) \in Nat, Len(s) # 0
    PROVE  \E f : Joins(f, s, Len(s)) /\ FlattenSeq(s) = f[Len(s)]
<1> DEFINE F == CHOOSE f : Joins(f, s, Len(s))
<1>1. Joins(F, s, Len(s))
  BY JoinsExist
<1>2. FlattenSeq(s) = F[Len(s)]
  BY DEF FlattenSeq, Joins
<1> QED
  BY <1>1, <1>2

\* Joining sequences of typed elements gives another.
LEMMA FlattenTyped ==
    ASSUME NEW S, NEW N \in Nat, NEW s, Len(s) = N, N = 0 => s = <<>>,
           \A i \in 1..N : s[i] \in Seq(S)
    PROVE  FlattenSeq(s) \in Seq(S)
<1>1. CASE N = 0
  <2>1. FlattenSeq(s) = <<>>
    BY <1>1 DEF FlattenSeq
  <2> QED
    BY <2>1
<1>2. CASE N # 0
  <2>1. PICK f : Joins(f, s, N) /\ FlattenSeq(s) = f[N]
    BY <1>2, Flattened
  <2>2. \A i \in 1..N : f[i] = IF i = 1 THEN s[i] ELSE f[i-1] \o s[i]
    BY <2>1 DEF Joins
  <2> DEFINE T == {n \in Nat : n + 1 \in 1..N => f[n + 1] \in Seq(S)}
  <2>3. 0 \in T
    <3>1. 1 \in 1..N /\ 0 + 1 = 1
      BY <1>2
    <3>2. f[1] \in Seq(S)
      BY <2>2, <3>1
    <3> QED
      BY <3>1, <3>2
  <2>4. ASSUME NEW n \in Nat, n \in T
        PROVE  n + 1 \in T
    <3> SUFFICES ASSUME (n + 1) + 1 \in 1..N
                 PROVE  f[(n + 1) + 1] \in Seq(S)
      OBVIOUS
    <3>1. n + 1 \in 1..N /\ (n + 1) + 1 # 1 /\ ((n + 1) + 1) - 1 = n + 1
      OBVIOUS
    <3>2. f[n + 1] \in Seq(S) /\ s[(n + 1) + 1] \in Seq(S)
      BY <2>4, <3>1
    <3>3. f[(n + 1) + 1] = f[n + 1] \o s[(n + 1) + 1]
      BY <2>2, <3>1
    <3> QED
      BY <3>2, <3>3
  <2>5. N - 1 \in Nat /\ (N - 1) + 1 = N /\ N \in 1..N
    BY <1>2
  <2>6. N - 1 \in T
    <3> HIDE DEF T
    <3>1. \A n \in Nat : n \in T
      BY <2>3, <2>4, EveryNumber
    <3> QED
      BY <2>5, <3>1
  <2> QED
    BY <2>1, <2>5, <2>6
<1> QED
  BY <1>1, <1>2

\* A piece of a sequence of typed elements.
LEMMA Piece ==
    ASSUME NEW S, NEW s \in Seq(S), NEW a \in Nat \ {0}, NEW b \in Nat, b <= Len(s)
    PROVE  /\ SubSeq(s, a, b) \in Seq(S)
           /\ Len(SubSeq(s, a, b)) = IF a <= b THEN (b - a) + 1 ELSE 0
           /\ \A p \in 1..Len(SubSeq(s, a, b)) : SubSeq(s, a, b)[p] = s[(a - 1) + p]
<1>0. Len(s) \in Nat
  OBVIOUS
<1>1. \A i \in a..b : s[i] \in S
  <2>1. \A i \in a..b : i \in 1..Len(s)
    BY <1>0
  <2> QED
    BY <2>1, ElementOfSeq
<1>2. /\ SubSeq(s, a, b) \in Seq(S)
      /\ Len(SubSeq(s, a, b)) = IF a <= b THEN b - a + 1 ELSE 0
      /\ \A i \in 1..(b - a + 1) : SubSeq(s, a, b)[i] = s[a + i - 1]
  <2>1. a \in Int /\ b \in Int
    OBVIOUS
  <2> QED
    BY <1>1, <2>1, SubSeqProperties
<1>3. Len(SubSeq(s, a, b)) = IF a <= b THEN (b - a) + 1 ELSE 0
  BY <1>2
<1>4. ASSUME NEW p \in 1..Len(SubSeq(s, a, b))
      PROVE  SubSeq(s, a, b)[p] = s[(a - 1) + p]
  <2>1. p \in 1..(b - a + 1) /\ a + p - 1 = (a - 1) + p
    BY <1>3
  <2> QED
    BY <1>2, <2>1
<1> QED
  BY <1>2, <1>3, <1>4

-----------------------------------------------------------------------------
(* What Total computes.                                                     *)

\* f sums the elements of s whose indices are in a set.
Sums(f, s, n) ==
    f = [t \in SUBSET (1..n) |-> IF t = {} THEN 0 ELSE f[t \ {Max(t)}] + s[Max(t)]]

\* The largest member of a set of the first n numbers that holds n.
LEMMA LastIsMax ==
    ASSUME NEW n \in Nat, NEW t \in SUBSET (1..n), n \in t
    PROVE  Max(t) = n
<1>1. \A y \in t : n >= y
  OBVIOUS
<1>2. Max(t) \in t /\ \A y \in t : Max(t) >= y
  BY <1>1 DEF Max
<1>3. Max(t) \in 1..n /\ Max(t) >= n
  BY <1>2
<1> QED
  BY <1>3

\* Adding up by largest member has a result for every set of indices.
LEMMA SumsExist ==
    ASSUME NEW s, NEW n \in Nat
    PROVE  \E f : Sums(f, s, n)
<1> DEFINE M == {m \in Nat : \E f : Sums(f, s, m)}
<1>1. 0 \in M
  <2> DEFINE f == [t \in SUBSET (1..0) |-> 0]
             g == [t \in SUBSET (1..0) |-> IF t = {} THEN 0 ELSE f[t \ {Max(t)}] + s[Max(t)]]
  <2>1. \A t \in SUBSET (1..0) : t = {}
    OBVIOUS
  <2>2. f = g
    BY <2>1
  <2>3. Sums(f, s, 0)
    <3> HIDE DEF f
    <3> QED
      BY <2>2 DEF Sums
  <2> HIDE DEF f
  <2> QED
    BY <2>3
<1>2. ASSUME NEW m \in Nat, m \in M
      PROVE  m + 1 \in M
  <2> DEFINE k == m + 1
  <2>1. PICK f : Sums(f, s, m)
    BY <1>2
  <2>2. k \in Nat /\ 1..m \subseteq 1..k /\ (1..k) \ {k} = 1..m
    OBVIOUS
  <2> HIDE DEF k
  <2> DEFINE g == [t \in SUBSET (1..k) |-> IF k \in t THEN f[t \ {k}] + s[k] ELSE f[t]]
             h == [t \in SUBSET (1..k) |-> IF t = {} THEN 0 ELSE g[t \ {Max(t)}] + s[Max(t)]]
  <2>3. ASSUME NEW t \in SUBSET (1..k)
        PROVE  g[t] = h[t]
    <3>1. CASE k \in t
      <4>1. Max(t) = k
        BY <2>2, <3>1, LastIsMax
      <4>2. t \ {k} \in SUBSET (1..k) /\ k \notin t \ {k} /\ t # {}
        BY <3>1
      <4>3. g[t \ {k}] = f[t \ {k}]
        BY <4>2
      <4>4. h[t] = g[t \ {Max(t)}] + s[Max(t)]
        BY <4>2
      <4>5. g[t] = f[t \ {k}] + s[k]
        BY <3>1
      <4> QED
        BY <4>1, <4>3, <4>4, <4>5
    <3>2. CASE k \notin t
      <4>1. t \in SUBSET (1..m)
        BY <2>2, <3>2
      <4>2. f[t] = IF t = {} THEN 0 ELSE f[t \ {Max(t)}] + s[Max(t)]
        BY <2>1, <4>1 DEF Sums
      <4>3. g[t] = f[t]
        BY <3>2
      <4>4. g[t \ {Max(t)}] = f[t \ {Max(t)}]
        <5>1. t \ {Max(t)} \in SUBSET (1..k) /\ k \notin t \ {Max(t)}
          BY <3>2
        <5> QED
          BY <5>1
      <4>5. h[t] = IF t = {} THEN 0 ELSE g[t \ {Max(t)}] + s[Max(t)]
        OBVIOUS
      <4> HIDE DEF g, h
      <4> QED
        BY <4>2, <4>3, <4>4, <4>5
    <3> QED
      BY <3>1, <3>2
  <2>4. g = h
    <3>1. g = [t \in SUBSET (1..k) |-> g[t]]
      OBVIOUS
    <3>2. h = [t \in SUBSET (1..k) |-> h[t]]
      OBVIOUS
    <3> HIDE DEF g, h
    <3>3. [t \in SUBSET (1..k) |-> g[t]] = [t \in SUBSET (1..k) |-> h[t]]
      BY <2>3
    <3> QED
      BY <3>1, <3>2, <3>3
  <2>5. Sums(g, s, k)
    <3> HIDE DEF g
    <3> QED
      BY <2>4 DEF Sums
  <2> HIDE DEF g
  <2> QED
    BY <2>2, <2>5 DEF k
<1>3. n \in M
  <2> HIDE DEF M
  <2> QED
    BY <1>1, <1>2, EveryNumber
<1> QED
  BY <1>3

\* Total adds up all the members, the last one last.
LEMMA Totalled ==
    ASSUME NEW s, NEW n \in Nat, DOMAIN s = 1..n
    PROVE  \E f : Sums(f, s, n) /\ Total(s) = f[1..n]
<1> DEFINE F == CHOOSE f : Sums(f, s, n)
<1>1. Sums(F, s, n)
  BY SumsExist
<1>2. Total(s) = F[1..n]
  BY DEF Total, FoldLeft, MapThenFoldSet, Sums
<1> QED
  BY <1>1, <1>2

\* The sum over the first i elements.
LEMMA SumOfFirst ==
    ASSUME NEW s, NEW n \in Nat, NEW f, Sums(f, s, n)
    PROVE  /\ f[1..0] = 0
           /\ \A i \in 1..n : f[1..i] = f[1..(i - 1)] + s[i]
<1>1. f[1..0] = 0
  <2>1. 1..0 = {} /\ {} \in SUBSET (1..n)
    OBVIOUS
  <2> QED
    BY <2>1 DEF Sums
<1>2. ASSUME NEW i \in 1..n
      PROVE  f[1..i] = f[1..(i - 1)] + s[i]
  <2> DEFINE t == 1..i
  <2>1. i \in Nat /\ i \in t /\ t \in SUBSET (1..n) /\ t # {} /\ t \ {i} = 1..(i - 1)
    OBVIOUS
  <2>2. t \in SUBSET (1..i)
    OBVIOUS
  <2> HIDE DEF t
  <2>3. Max(t) = i
    BY <2>1, <2>2, LastIsMax
  <2>4. f[t] = f[t \ {Max(t)}] + s[Max(t)]
    BY <2>1 DEF Sums
  <2> QED
    BY <2>1, <2>3, <2>4 DEF t
<1> QED
  BY <1>1, <1>2

\* a adds up the elements of s one after the other.
Adds(a, s, n) ==
    /\ a \in [0..n -> Nat] /\ a[0] = 0
    /\ \A i \in 1..n : a[i] = a[i - 1] + s[i]

\* Total is the last of the running sums.
LEMMA TotalOfAdds ==
    ASSUME NEW s, NEW n \in Nat, DOMAIN s = 1..n, NEW a, Adds(a, s, n)
    PROVE  Total(s) = a[n]
<1>1. PICK f : Sums(f, s, n) /\ Total(s) = f[1..n]
  BY Totalled
<1> DEFINE K == {k \in Nat : k <= n => f[1..k] = a[k]}
<1>2. 0 \in K
  BY <1>1, SumOfFirst DEF Adds
<1>3. ASSUME NEW k \in Nat, k \in K
      PROVE  k + 1 \in K
  <2> SUFFICES ASSUME k + 1 <= n
               PROVE  f[1..(k + 1)] = a[k + 1]
    OBVIOUS
  <2> DEFINE i == k + 1
  <2>1. i \in 1..n /\ i - 1 = k /\ k <= n
    OBVIOUS
  <2>2. f[1..k] = a[k]
    BY <1>3, <2>1
  <2> HIDE DEF i
  <2>3. f[1..i] = f[1..(i - 1)] + s[i]
    BY <1>1, <2>1, SumOfFirst
  <2>4. a[i] = a[i - 1] + s[i]
    BY <2>1 DEF Adds
  <2> QED
    BY <2>1, <2>2, <2>3, <2>4 DEF i
<1>4. n \in K
  <2> HIDE DEF K
  <2> QED
    BY <1>2, <1>3, EveryNumber
<1> QED
  BY <1>1, <1>4

\* Every sequence of numbers has running sums.
LEMMA AddsExist ==
    ASSUME NEW n \in Nat, NEW s, \A i \in 1..n : s[i] \in Nat
    PROVE  \E a : Adds(a, s, n)
<1>1. PICK f : Sums(f, s, n)
  BY SumsExist
<1> DEFINE K == {k \in Nat : k <= n => f[1..k] \in Nat}
           a == [i \in 0..n |-> f[1..i]]
<1>2. f[1..0] = 0 /\ \A i \in 1..n : f[1..i] = f[1..(i - 1)] + s[i]
  BY <1>1, SumOfFirst
<1>3. 0 \in K
  BY <1>2
<1>4. ASSUME NEW k \in Nat, k \in K
      PROVE  k + 1 \in K
  <2> SUFFICES ASSUME k + 1 <= n
               PROVE  f[1..(k + 1)] \in Nat
    OBVIOUS
  <2> DEFINE i == k + 1
  <2>1. i \in 1..n /\ i - 1 = k /\ k <= n
    OBVIOUS
  <2>2. f[1..k] \in Nat
    BY <1>4, <2>1
  <2> HIDE DEF i
  <2>3. f[1..i] = f[1..k] + s[i] /\ s[i] \in Nat
    BY <1>2, <2>1
  <2> QED
    BY <2>2, <2>3 DEF i
<1>5. \A k \in Nat : k \in K
  <2> HIDE DEF K
  <2> QED
    BY <1>3, <1>4, EveryNumber
<1>6. a \in [0..n -> Nat]
  <2>1. \A k \in 0..n : f[1..k] \in Nat
    BY <1>5
  <2> QED
    BY <2>1
<1>7. ASSUME NEW i \in 1..n
      PROVE  a[i] = a[i - 1] + s[i]
  <2>1. i \in 0..n /\ i - 1 \in 0..n
    OBVIOUS
  <2> QED
    BY <1>2, <2>1
<1>8. a[0] = 0
  BY <1>2
<1> HIDE DEF a
<1>9. Adds(a, s, n)
  BY <1>6, <1>7, <1>8 DEF Adds
<1> QED
  BY <1>9

\* Total of the first i elements, for every i.
LEMMA TotalsOfFirst ==
    ASSUME NEW s \in Seq(Nat), NEW a, Adds(a, s, Len(s))
    PROVE  /\ Total(s) = a[Len(s)]
           /\ \A i \in 0..Len(s) : Total(SubSeq(s, 1, i)) = a[i]
<1>1. Len(s) \in Nat /\ DOMAIN s = 1..Len(s)
  OBVIOUS
<1>2. Total(s) = a[Len(s)]
  BY <1>1, TotalOfAdds
<1>3. ASSUME NEW i \in 0..Len(s)
      PROVE  Total(SubSeq(s, 1, i)) = a[i]
  <2> DEFINE z == SubSeq(s, 1, i)
             b == [j \in 0..i |-> a[j]]
  <2>1. i \in Nat /\ i <= Len(s) /\ 1 \in Nat \ {0}
    BY <1>1
  <2>2. /\ z \in Seq(Nat) /\ Len(z) = IF 1 <= i THEN (i - 1) + 1 ELSE 0
        /\ \A p \in 1..Len(z) : z[p] = s[(1 - 1) + p]
    BY <2>1, Piece
  <2> HIDE DEF z
  <2>3. Len(z) = i /\ DOMAIN z = 1..i /\ \A p \in 1..i : z[p] = s[p]
    <3>1. Len(z) = i
      BY <2>1, <2>2
    <3>2. \A p \in 1..i : (1 - 1) + p = p
      BY <2>1
    <3>3. DOMAIN z = 1..Len(z)
      BY <2>2, LenProperties
    <3>4. ASSUME NEW p \in 1..i
          PROVE  z[p] = s[p]
      BY <2>2, <3>1, <3>2
    <3> QED
      BY <3>1, <3>3, <3>4
  <2>4. Adds(b, z, i)
    <3>1. b \in [0..i -> Nat] /\ b[0] = 0
      BY <1>1, <2>1 DEF Adds
    <3>2. ASSUME NEW j \in 1..i
          PROVE  b[j] = b[j - 1] + z[j]
      <4>1. j \in 1..Len(s) /\ j \in 0..i /\ j - 1 \in 0..i
        BY <1>1, <2>1
      <4> QED
        BY <2>3, <4>1 DEF Adds
    <3> HIDE DEF b
    <3> QED
      BY <3>1, <3>2 DEF Adds
  <2>5. b[i] = a[i]
    BY <2>1
  <2> HIDE DEF b
  <2>6. Total(z) = b[i]
    BY <2>1, <2>3, <2>4, TotalOfAdds
  <2> QED
    BY <2>5, <2>6 DEF z
<1> QED
  BY <1>2, <1>3

-----------------------------------------------------------------------------
(* Where the units of a response lie.                                       *)

\* The units that follow the header.
BodyKinds == {"digit", "garbled", "data", "trailer", "cr", "lf"}
Framed == [kind : BodyKinds, n : Nat]

\* A unit has the kind and the number it is made of.
LEMMA UnitTyped ==
    /\ \A k \in BodyKinds, n \in Nat : Unit(k, n) \in Framed
    /\ \A k \in Kinds, n \in Nat : Unit(k, n) \in Units
    /\ Framed \subseteq Units
    /\ \A k, n : Unit(k, n).kind = k /\ Unit(k, n).n = n
<1>1. BodyKinds \subseteq Kinds
  BY DEF BodyKinds, Kinds
<1> QED
  BY <1>1 DEF Unit, Framed, Units

\* What the assumption on the responses says of one of them.
LEMMA ResponseTyped ==
    ASSUME NEW r \in Responses
    PROVE  /\ r.framing \in Framings /\ r.body \in Seq(Nat) /\ Len(r.body) \in Nat
           /\ r.framing # "chunked" => Len(r.body) = 1
           /\ \A i \in 1..Len(r.body) : r.body[i] \in Nat
           /\ r.framing = "chunked" => \A i \in 1..Len(r.body) : r.body[i] # 0
           /\ r.trailers \in Nat /\ r.extra \in Nat /\ r.fault \in {"none", "size", "crlf"}
<1>1. r.body \in Seq(Nat)
  BY ClientAssumption
<1>2. Len(r.body) \in Nat /\ \A i \in 1..Len(r.body) : r.body[i] \in Nat
  BY <1>1, ElementOfSeq
<1>3. ASSUME r.framing = "chunked", NEW i \in 1..Len(r.body)
      PROVE  r.body[i] # 0
  <2>1. 0 \notin Range(r.body)
    BY <1>3, ClientAssumption
  <2>2. r.body[i] \in Range(r.body)
    BY <1>1, RangeEquality
  <2> QED
    BY <2>1, <2>2
<1> QED
  BY <1>1, <1>2, <1>3, ClientAssumption

\* A run of payload bytes, numbered from the one that follows byte k.
LEMMA DataTyped ==
    ASSUME NEW k \in Nat, NEW m \in Nat
    PROVE  /\ Data(k, m) \in Seq(Framed) /\ Len(Data(k, m)) = m
           /\ \A j \in 1..m : Data(k, m)[j] = Unit("data", k + j)
<1>1. \A j \in 1..m : Unit("data", k + j) \in Framed
  <2>1. \A j \in 1..m : k + j \in Nat
    OBVIOUS
  <2>2. "data" \in BodyKinds
    BY DEF BodyKinds
  <2> QED
    BY <2>1, <2>2, UnitTyped
<1>2. Data(k, m) = [j \in 1..m |-> Unit("data", k + j)]
  BY DEF Data
<1> QED
  BY <1>1, <1>2

\* A sequence of one member.
LEMMA One ==
    ASSUME NEW S, NEW x \in S
    PROVE  <<x>> \in Seq(S) /\ Len(<<x>>) = 1 /\ <<x>>[1] = x
  OBVIOUS

\* A piece s in front and a piece t behind.
LEMMA Behind ==
    ASSUME NEW S, NEW s \in Seq(S), NEW t \in Seq(S)
    PROVE  /\ s \o t \in Seq(S) /\ Len(s \o t) = Len(s) + Len(t)
           /\ Len(s) \in Nat /\ Len(t) \in Nat
           /\ \A p \in 1..Len(s) : (s \o t)[p] = s[p]
           /\ \A p \in 1..Len(t) : (s \o t)[Len(s) + p] = t[p]
<1> DEFINE z == s \o t
<1>1. Len(s) \in Nat /\ Len(t) \in Nat
  OBVIOUS
<1>2. /\ z \in Seq(S) /\ Len(z) = Len(s) + Len(t)
      /\ \A i \in 1..(Len(s) + Len(t)) : z[i] = IF i <= Len(s) THEN s[i] ELSE t[i - Len(s)]
  BY ConcatProperties
<1> HIDE DEF z
<1>3. ASSUME NEW p \in 1..Len(s)
      PROVE  z[p] = s[p]
  <2>1. p \in 1..(Len(s) + Len(t)) /\ p <= Len(s)
    BY <1>1
  <2> QED
    BY <1>2, <2>1
<1>4. ASSUME NEW p \in 1..Len(t)
      PROVE  z[Len(s) + p] = t[p]
  <2>1. /\ Len(s) + p \in 1..(Len(s) + Len(t)) /\ ~(Len(s) + p <= Len(s))
        /\ (Len(s) + p) - Len(s) = p
    BY <1>1
  <2> QED
    BY <1>2, <2>1
<1> QED
  BY <1>1, <1>2, <1>3, <1>4 DEF z

\* A line is its text and a CRLF.
LEMMA LineTyped ==
    ASSUME NEW S, NEW text \in Seq(S), Unit("cr", 0) \in S, Unit("lf", 0) \in S
    PROVE  /\ Line(text) \in Seq(S) /\ Len(Line(text)) = Len(text) + 2 /\ Len(text) \in Nat
           /\ \A p \in 1..Len(text) : Line(text)[p] = text[p]
           /\ Line(text)[Len(text) + 1] = Unit("cr", 0)
           /\ Line(text)[Len(text) + 2] = Unit("lf", 0)
<1> DEFINE e == <<Unit("cr", 0), Unit("lf", 0)>>
<1>1. e \in Seq(S) /\ Len(e) = 2 /\ e[1] = Unit("cr", 0) /\ e[2] = Unit("lf", 0)
  OBVIOUS
<1>2. Line(text) = text \o e
  BY DEF Line
<1> HIDE DEF e
<1>3. /\ text \o e \in Seq(S) /\ Len(text \o e) = Len(text) + Len(e) /\ Len(text) \in Nat
      /\ \A p \in 1..Len(text) : (text \o e)[p] = text[p]
      /\ \A p \in 1..Len(e) : (text \o e)[Len(text) + p] = e[p]
  <2>1. text \in Seq(S) /\ e \in Seq(S)
    BY <1>1
  <2> QED
    BY <2>1, Behind
<1>4. 1 \in 1..Len(e) /\ 2 \in 1..Len(e)
  BY <1>1
<1> QED
  BY <1>1, <1>2, <1>3, <1>4

\* The empty line is a CRLF.
LEMMA EmptyLine ==
    ASSUME NEW S, Unit("cr", 0) \in S, Unit("lf", 0) \in S
    PROVE  /\ Line(<<>>) \in Seq(S) /\ Len(Line(<<>>)) = 2
           /\ Line(<<>>)[1] = Unit("cr", 0) /\ Line(<<>>)[2] = Unit("lf", 0)
<1>1. <<>> \in Seq(S) /\ Len(<<>>) = 0 /\ 0 + 1 = 1 /\ 0 + 2 = 2
  OBVIOUS
<1>2. /\ Line(<<>>) \in Seq(S) /\ Len(Line(<<>>)) = Len(<<>>) + 2
      /\ Line(<<>>)[Len(<<>>) + 1] = Unit("cr", 0)
      /\ Line(<<>>)[Len(<<>>) + 2] = Unit("lf", 0)
  BY <1>1, LineTyped
<1> QED
  BY <1>1, <1>2

\* A line of one unit.
LEMMA LineOfOne ==
    ASSUME NEW S, NEW u \in S, Unit("cr", 0) \in S, Unit("lf", 0) \in S
    PROVE  /\ Line(<<u>>) \in Seq(S) /\ Len(Line(<<u>>)) = 3
           /\ Line(<<u>>)[1] = u
           /\ Line(<<u>>)[2] = Unit("cr", 0) /\ Line(<<u>>)[3] = Unit("lf", 0)
<1> DEFINE t == <<u>>
<1>1. t \in Seq(S) /\ Len(t) = 1 /\ t[1] = u
  BY One
<1> HIDE DEF t
<1>2. /\ Line(t) \in Seq(S) /\ Len(Line(t)) = Len(t) + 2
      /\ \A p \in 1..Len(t) : Line(t)[p] = t[p]
      /\ Line(t)[Len(t) + 1] = Unit("cr", 0) /\ Line(t)[Len(t) + 2] = Unit("lf", 0)
  BY <1>1, LineTyped
<1>3. 1 \in 1..Len(t) /\ Len(t) + 1 = 2 /\ Len(t) + 2 = 3
  BY <1>1
<1>4. Line(t)[1] = t[1]
  BY <1>2, <1>3
<1> QED
  BY <1>1, <1>2, <1>3, <1>4 DEF t

\* The length of the header.
H(r) == Len(HeaderLines(r))

\* The header is the status line, the framing if one is announced, and the empty line.
LEMMA HeaderLaidOut ==
    ASSUME NEW r \in Responses
    PROVE  /\ HeaderLines(r) \in Seq(Units)
           /\ H(r) = IF r.framing = "none" THEN 5 ELSE 8
           /\ HeaderLines(r)[1] = Unit("status", 200)
           /\ HeaderLines(r)[2] = Unit("cr", 0) /\ HeaderLines(r)[3] = Unit("lf", 0)
           /\ HeaderLines(r)[H(r) - 1] = Unit("cr", 0) /\ HeaderLines(r)[H(r)] = Unit("lf", 0)
           /\ r.framing # "none" => /\ HeaderLines(r)[5] = Unit("cr", 0)
                                    /\ HeaderLines(r)[6] = Unit("lf", 0)
           /\ r.framing = "length" => HeaderLines(r)[4] = Unit("length", r.body[1])
           /\ r.framing = "chunked" => HeaderLines(r)[4] = Unit("chunked", 0)
<1>1. /\ r.framing \in {"length", "chunked", "none"}
      /\ r.framing = "length" => r.body[1] \in Nat
  BY ResponseTyped DEF Framings
<1>a. /\ "status" \in Kinds /\ "chunked" \in Kinds /\ "length" \in Kinds
      /\ "cr" \in Kinds /\ "lf" \in Kinds
  BY DEF Kinds
<1>b. 200 \in Nat /\ 0 \in Nat
  OBVIOUS
<1>2. /\ Unit("status", 200) \in Units /\ Unit("chunked", 0) \in Units
      /\ Unit("cr", 0) \in Units /\ Unit("lf", 0) \in Units
      /\ r.framing = "length" => Unit("length", r.body[1]) \in Units
  BY <1>1, <1>a, <1>b, UnitTyped
<1> DEFINE s == Line(<<Unit("status", 200)>>)
           t == Line(<<>>)
<1>3. /\ s \in Seq(Units) /\ Len(s) = 3 /\ s[1] = Unit("status", 200)
      /\ s[2] = Unit("cr", 0) /\ s[3] = Unit("lf", 0)
      /\ t \in Seq(Units) /\ Len(t) = 2 /\ t[1] = Unit("cr", 0) /\ t[2] = Unit("lf", 0)
  BY <1>2, LineOfOne, EmptyLine
<1>4. \A m : r.framing = "length" /\ m = Line(<<Unit("length", r.body[1])>>)
             => HeaderLines(r) = (s \o m) \o t
  BY DEF HeaderLines
<1>5. \A m : r.framing = "chunked" /\ m = Line(<<Unit("chunked", 0)>>)
             => HeaderLines(r) = (s \o m) \o t
  BY DEF HeaderLines
<1>6. \A m : r.framing = "none" /\ m = <<>> => HeaderLines(r) = (s \o m) \o t
  BY DEF HeaderLines
<1> HIDE DEF s, t
<1>7. ASSUME NEW m \in Seq(Units), NEW z, z = (s \o m) \o t
      PROVE  /\ z \in Seq(Units) /\ Len(z) = Len(m) + 5
             /\ z[1] = s[1] /\ z[2] = s[2] /\ z[3] = s[3]
             /\ \A p \in 1..Len(m) : z[3 + p] = m[p]
             /\ z[Len(m) + 4] = t[1] /\ z[Len(m) + 5] = t[2]
  <2> DEFINE y == s \o m
  <2>a. /\ y \in Seq(Units) /\ Len(y) = Len(s) + Len(m)
        /\ \A p \in 1..Len(s) : y[p] = s[p]
        /\ \A p \in 1..Len(m) : y[Len(s) + p] = m[p]
    <3>1. s \in Seq(Units) /\ m \in Seq(Units)
      BY <1>3
    <3> QED
      BY <3>1, Behind DEF y
  <2> HIDE DEF y
  <2>b. 1 \in 1..Len(s) /\ 2 \in 1..Len(s) /\ 3 \in 1..Len(s)
    BY <1>3
  <2>1. /\ y \in Seq(Units) /\ Len(y) = 3 + Len(m)
        /\ y[1] = s[1] /\ y[2] = s[2] /\ y[3] = s[3]
        /\ \A p \in 1..Len(m) : y[3 + p] = m[p]
    BY <1>3, <2>a, <2>b
  <2>2. /\ 1 \in 1..Len(y) /\ 2 \in 1..Len(y) /\ 3 \in 1..Len(y)
        /\ Len(y) + 1 = Len(m) + 4 /\ Len(y) + 2 = Len(m) + 5
        /\ 1 \in 1..Len(t) /\ 2 \in 1..Len(t)
        /\ \A p \in 1..Len(m) : 3 + p \in 1..Len(y)
    BY <1>3, <2>1
  <2>3. /\ y \o t \in Seq(Units) /\ Len(y \o t) = Len(y) + Len(t)
        /\ \A p \in 1..Len(y) : (y \o t)[p] = y[p]
        /\ \A p \in 1..Len(t) : (y \o t)[Len(y) + p] = t[p]
    <3>1. y \in Seq(Units) /\ t \in Seq(Units)
      BY <1>3, <2>1
    <3> QED
      BY <3>1, Behind
  <2>z. z = y \o t
    BY <1>7 DEF y
  <2>4. /\ z \in Seq(Units) /\ Len(z) = Len(y) + Len(t)
        /\ \A p \in 1..Len(y) : z[p] = y[p]
        /\ z[Len(y) + 1] = t[1] /\ z[Len(y) + 2] = t[2]
    BY <2>2, <2>3, <2>z
  <2>5. /\ z[1] = s[1] /\ z[2] = s[2] /\ z[3] = s[3]
        /\ z[Len(m) + 4] = t[1] /\ z[Len(m) + 5] = t[2] /\ Len(z) = Len(m) + 5
    BY <1>3, <2>1, <2>2, <2>4
  <2>6. \A p \in 1..Len(m) : z[3 + p] = m[p]
    BY <2>1, <2>2, <2>4
  <2> QED
    BY <2>4, <2>5, <2>6
<1>8. ASSUME NEW u \in Units, HeaderLines(r) = (s \o Line(<<u>>)) \o t
      PROVE  /\ HeaderLines(r) \in Seq(Units) /\ H(r) = 8
             /\ HeaderLines(r)[1] = s[1] /\ HeaderLines(r)[2] = s[2] /\ HeaderLines(r)[3] = s[3]
             /\ HeaderLines(r)[4] = u /\ HeaderLines(r)[5] = Unit("cr", 0)
             /\ HeaderLines(r)[6] = Unit("lf", 0)
             /\ HeaderLines(r)[7] = t[1] /\ HeaderLines(r)[8] = t[2]
  <2> DEFINE m == Line(<<u>>)
             z == (s \o m) \o t
  <2>1. /\ m \in Seq(Units) /\ Len(m) = 3 /\ m[1] = u
        /\ m[2] = Unit("cr", 0) /\ m[3] = Unit("lf", 0)
    BY <1>2, LineOfOne
  <2>2. HeaderLines(r) = z
    BY <1>8
  <2>d. z = (s \o m) \o t
    OBVIOUS
  <2> HIDE DEF m, z
  <2>e. /\ z \in Seq(Units) /\ Len(z) = Len(m) + 5
        /\ z[1] = s[1] /\ z[2] = s[2] /\ z[3] = s[3]
        /\ \A p \in 1..Len(m) : z[3 + p] = m[p]
        /\ z[Len(m) + 4] = t[1] /\ z[Len(m) + 5] = t[2]
    BY <1>7, <2>1, <2>d
  <2>3. /\ z \in Seq(Units) /\ Len(z) = 3 + 5
        /\ z[1] = s[1] /\ z[2] = s[2] /\ z[3] = s[3]
        /\ \A p \in 1..3 : z[3 + p] = m[p]
        /\ z[3 + 4] = t[1] /\ z[3 + 5] = t[2]
    BY <2>1, <2>e
  <2>4. z[4] = m[1] /\ z[5] = m[2] /\ z[6] = m[3]
    <3>1. 1 \in 1..3 /\ 2 \in 1..3 /\ 3 \in 1..3 /\ 3 + 1 = 4 /\ 3 + 2 = 5 /\ 3 + 3 = 6
      OBVIOUS
    <3>2. z[3 + 1] = m[1] /\ z[3 + 2] = m[2] /\ z[3 + 3] = m[3]
      BY <2>3, <3>1
    <3> QED
      BY <3>1, <3>2
  <2>5. 3 + 4 = 7 /\ 3 + 5 = 8
    OBVIOUS
  <2> QED
    BY <2>1, <2>2, <2>3, <2>4, <2>5 DEF H
<1>9. CASE r.framing = "length"
  <2>1. HeaderLines(r) = (s \o Line(<<Unit("length", r.body[1])>>)) \o t
    BY <1>4, <1>9
  <2>2. 8 - 1 = 7
    OBVIOUS
  <2> QED
    BY <1>2, <1>3, <1>8, <1>9, <2>1, <2>2
<1>10. CASE r.framing = "chunked"
  <2>1. HeaderLines(r) = (s \o Line(<<Unit("chunked", 0)>>)) \o t
    BY <1>5, <1>10
  <2>2. 8 - 1 = 7
    OBVIOUS
  <2> QED
    BY <1>2, <1>3, <1>8, <1>10, <2>1, <2>2
<1>11. CASE r.framing = "none"
  <2> DEFINE m == <<>>
             z == (s \o m) \o t
  <2>1. m \in Seq(Units) /\ Len(m) = 0
    OBVIOUS
  <2>2. HeaderLines(r) = z
    BY <1>6, <1>11
  <2>d. z = (s \o m) \o t
    OBVIOUS
  <2> HIDE DEF m, z
  <2>e. /\ z \in Seq(Units) /\ Len(z) = Len(m) + 5
        /\ z[1] = s[1] /\ z[2] = s[2] /\ z[3] = s[3]
        /\ z[Len(m) + 4] = t[1] /\ z[Len(m) + 5] = t[2]
    BY <1>7, <2>1, <2>d
  <2>3. /\ z \in Seq(Units) /\ Len(z) = 0 + 5
        /\ z[1] = s[1] /\ z[2] = s[2] /\ z[3] = s[3]
        /\ z[0 + 4] = t[1] /\ z[0 + 5] = t[2]
    BY <2>1, <2>e
  <2>4. 0 + 4 = 4 /\ 0 + 5 = 5 /\ 5 - 1 = 4
    OBVIOUS
  <2> QED
    BY <1>3, <1>11, <2>2, <2>3, <2>4 DEF H
<1> QED
  BY <1>1, <1>9, <1>10, <1>11

\* Two digits give back the number they were made of.
LEMMA Digits ==
    ASSUME NEW n \in Nat
    PROVE  n \div 16 \in Nat /\ n % 16 \in Nat /\ 16 * (n \div 16) + (n % 16) = n
  OBVIOUS

\* One chunk: its size line, its data, its CRLF.
LEMMA ChunkLaidOut ==
    ASSUME NEW r \in Responses, NEW i \in 1..Len(r.body), NEW k \in Nat,
           k = Total(SubSeq(r.body, 1, i - 1))
    PROVE  /\ Chunk(r, i) \in Seq(Framed) /\ Len(Chunk(r, i)) = r.body[i] + 6
           /\ 16 * Chunk(r, i)[1].n + Chunk(r, i)[2].n = r.body[i]
           /\ Chunk(r, i)[3].kind = "cr" /\ Chunk(r, i)[4].kind = "lf"
           /\ \A j \in 1..r.body[i] : Chunk(r, i)[4 + j] = Unit("data", k + j)
           /\ r.fault = "none" => /\ Chunk(r, i)[1].kind = "digit"
                                  /\ Chunk(r, i)[2].kind = "digit"
                                  /\ Chunk(r, i)[r.body[i] + 5].kind = "cr"
                                  /\ Chunk(r, i)[r.body[i] + 6].kind = "lf"
<1> DEFINE b == r.body[i]
           g == SizeText(r, i)
           s == Line(g)
           d == Data(k, b)
           t == IF r.fault = "crlf" THEN Data(0, 2) ELSE Line(<<>>)
<1>1. Chunk(r, i) = (s \o d) \o t
  BY DEF Chunk
<1>2. b \in Nat
  BY ResponseTyped
<1>3. /\ "garbled" \in BodyKinds /\ "digit" \in BodyKinds /\ "data" \in BodyKinds
      /\ "cr" \in BodyKinds /\ "lf" \in BodyKinds /\ 0 \in Nat
  BY DEF BodyKinds
<1>c. Unit("cr", 0) \in Framed /\ Unit("lf", 0) \in Framed
  BY <1>3, UnitTyped
<1>4. /\ g \in Seq(Framed) /\ Len(g) = 2
      /\ 16 * g[1].n + g[2].n = b
      /\ r.fault = "none" => g[1].kind = "digit" /\ g[2].kind = "digit"
  <2> DEFINE u == Unit("digit", b \div 16)
             v == Unit(IF r.fault = "size" THEN "garbled" ELSE "digit", b % 16)
  <2>1. g = <<u, v>>
    BY DEF SizeText
  <2>2. b \div 16 \in Nat /\ b % 16 \in Nat /\ 16 * (b \div 16) + (b % 16) = b
    BY <1>2, Digits
  <2>3. /\ u \in Framed /\ v \in Framed
        /\ u.n = b \div 16 /\ v.n = b % 16 /\ u.kind = "digit"
        /\ r.fault = "none" => v.kind = "digit"
    BY <1>3, <2>2, UnitTyped
  <2> HIDE DEF u, v, b, g
  <2>4. g \in Seq(Framed) /\ Len(g) = 2 /\ g[1] = u /\ g[2] = v
    BY <2>1, <2>3
  <2> QED
    BY <2>2, <2>3, <2>4
<1> HIDE DEF g, b
<1>5. /\ s \in Seq(Framed) /\ Len(s) = 4 /\ s[1] = g[1] /\ s[2] = g[2]
      /\ s[3].kind = "cr" /\ s[4].kind = "lf"
  <2>1. /\ s \in Seq(Framed) /\ Len(s) = Len(g) + 2
        /\ \A p \in 1..Len(g) : s[p] = g[p]
        /\ s[Len(g) + 1] = Unit("cr", 0) /\ s[Len(g) + 2] = Unit("lf", 0)
    BY <1>4, <1>c, LineTyped
  <2>2. /\ 1 \in 1..Len(g) /\ 2 \in 1..Len(g) /\ Len(g) + 1 = 3 /\ Len(g) + 2 = 4
    BY <1>4
  <2> HIDE DEF s
  <2>3. Len(s) = 4 /\ s[1] = g[1] /\ s[2] = g[2]
    BY <2>1, <2>2
  <2>4. s[3] = Unit("cr", 0) /\ s[4] = Unit("lf", 0)
    BY <2>1, <2>2
  <2> QED
    <3>1. s[3].kind = "cr" /\ s[4].kind = "lf"
      BY <2>4 DEF Unit
    <3> QED
      BY <2>1, <2>3, <3>1
<1>6. /\ t \in Seq(Framed) /\ Len(t) = 2
      /\ r.fault = "none" => t[1].kind = "cr" /\ t[2].kind = "lf"
  <2>1. CASE r.fault = "crlf"
    <3>1. 2 \in Nat
      OBVIOUS
    <3> QED
      BY <1>3, <2>1, <3>1, DataTyped
  <2>2. CASE r.fault # "crlf"
    <3>1. t = Line(<<>>)
      BY <2>2
    <3>2. /\ Line(<<>>) \in Seq(Framed) /\ Len(Line(<<>>)) = 2
          /\ Line(<<>>)[1] = Unit("cr", 0) /\ Line(<<>>)[2] = Unit("lf", 0)
      BY <1>c, EmptyLine
    <3> HIDE DEF t
    <3> QED
      BY <3>1, <3>2, UnitTyped
  <2> QED
    BY <2>1, <2>2
<1>7. /\ d \in Seq(Framed) /\ Len(d) = b
      /\ \A j \in 1..b : d[j] = Unit("data", k + j)
  BY <1>2, DataTyped
<1> HIDE DEF s, d, t
<1> DEFINE y == s \o d
<1>8. /\ y \in Seq(Framed) /\ Len(y) = 4 + b
      /\ y[1] = s[1] /\ y[2] = s[2] /\ y[3] = s[3] /\ y[4] = s[4]
      /\ \A j \in 1..b : y[4 + j] = d[j]
  <2>1. /\ y \in Seq(Framed) /\ Len(y) = Len(s) + Len(d)
        /\ \A p \in 1..Len(s) : y[p] = s[p]
        /\ \A p \in 1..Len(d) : y[Len(s) + p] = d[p]
    <3>1. s \in Seq(Framed) /\ d \in Seq(Framed)
      BY <1>5, <1>7
    <3> QED
      BY <3>1, Behind DEF y
  <2> HIDE DEF y
  <2>2. 1 \in 1..Len(s) /\ 2 \in 1..Len(s) /\ 3 \in 1..Len(s) /\ 4 \in 1..Len(s)
    BY <1>5
  <2> QED
    BY <1>5, <1>7, <2>1, <2>2
<1> HIDE DEF y
<1>9. /\ y \o t \in Seq(Framed) /\ Len(y \o t) = Len(y) + 2
      /\ \A p \in 1..Len(y) : (y \o t)[p] = y[p]
      /\ (y \o t)[Len(y) + 1] = t[1] /\ (y \o t)[Len(y) + 2] = t[2]
  <2>1. /\ y \o t \in Seq(Framed) /\ Len(y \o t) = Len(y) + Len(t)
        /\ \A p \in 1..Len(y) : (y \o t)[p] = y[p]
        /\ \A p \in 1..Len(t) : (y \o t)[Len(y) + p] = t[p]
    <3>1. y \in Seq(Framed) /\ t \in Seq(Framed)
      BY <1>6, <1>8
    <3> QED
      BY <3>1, Behind
  <2>2. 1 \in 1..Len(t) /\ 2 \in 1..Len(t)
    BY <1>6
  <2> QED
    BY <1>6, <2>1, <2>2
<1>10. /\ 1 \in 1..Len(y) /\ 2 \in 1..Len(y) /\ 3 \in 1..Len(y) /\ 4 \in 1..Len(y)
       /\ Len(y) + 1 = b + 5 /\ Len(y) + 2 = b + 6
       /\ \A j \in 1..b : 4 + j \in 1..Len(y)
  BY <1>2, <1>8
<1> DEFINE z == y \o t
<1> HIDE DEF z
<1>11. /\ z \in Seq(Framed) /\ Len(z) = Len(y) + 2
       /\ \A p \in 1..Len(y) : z[p] = y[p]
       /\ z[Len(y) + 1] = t[1] /\ z[Len(y) + 2] = t[2]
  BY <1>9 DEF z
<1>12. /\ z \in Seq(Framed) /\ Len(z) = b + 6
       /\ z[1] = s[1] /\ z[2] = s[2] /\ z[3] = s[3] /\ z[4] = s[4]
       /\ z[b + 5] = t[1] /\ z[b + 6] = t[2]
  BY <1>8, <1>10, <1>11
<1>13. \A j \in 1..b : z[4 + j] = Unit("data", k + j)
  BY <1>7, <1>8, <1>10, <1>11
<1>14. Chunk(r, i) = z
  BY <1>1 DEF y, z
<1> QED
  BY <1>4, <1>5, <1>6, <1>12, <1>13, <1>14 DEF b

-----------------------------------------------------------------------------
(* The chunks lie one after the other.                                      *)

\* Where the first i chunks end, if a adds up their sizes.
Ends(a, i) == a[i] + 6 * i

\* Running sums rise, and a chunk takes its payload and six units more.
LEMMA Rising ==
    ASSUME NEW s, NEW n \in Nat, NEW a, Adds(a, s, n), \A i \in 1..n : s[i] \in Nat
    PROVE  /\ \A i \in 0..n : a[i] \in Nat /\ Ends(a, i) \in Nat
           /\ \A j \in 0..n : \A i \in 0..j : a[i] <= a[j] /\ Ends(a, i) <= Ends(a, j)
           /\ \A i \in 1..n : Ends(a, i) = Ends(a, i - 1) + s[i] + 6
<1>1. /\ \A i \in 0..n : a[i] \in Nat
      /\ \A i \in 1..n : a[i] = a[i - 1] + s[i]
  BY DEF Adds
<1>2. ASSUME NEW j \in 0..n
      PROVE  \A i \in 0..j : a[i] <= a[j]
  <2> DEFINE K == {k \in Nat : k <= j => a[j - k] <= a[j]}
  <2>1. 0 \in K
    <3>1. j - 0 = j /\ a[j] \in Nat
      BY <1>1
    <3> QED
      BY <3>1
  <2>2. ASSUME NEW k \in Nat, k \in K
        PROVE  k + 1 \in K
    <3> SUFFICES ASSUME k + 1 <= j
                 PROVE  a[j - (k + 1)] <= a[j]
      OBVIOUS
    <3> DEFINE i == j - k
    <3>1. i \in 1..n /\ i - 1 = j - (k + 1) /\ i - 1 \in 0..n /\ i \in 0..n /\ k <= j
      OBVIOUS
    <3>2. a[i] <= a[j]
      BY <2>2, <3>1
    <3> HIDE DEF i
    <3>3. a[i] = a[i - 1] + s[i] /\ s[i] \in Nat /\ a[i - 1] \in Nat /\ a[j] \in Nat
      BY <1>1, <3>1
    <3>4. a[i - 1] <= a[j]
      BY <3>2, <3>3
    <3> QED
      BY <3>1, <3>4
  <2>3. \A k \in Nat : k \in K
    <3> HIDE DEF K
    <3> QED
      BY <2>1, <2>2, EveryNumber
  <2>4. ASSUME NEW i \in 0..j
        PROVE  a[i] <= a[j]
    <3>1. j - i \in Nat /\ j - i <= j /\ j - (j - i) = i
      OBVIOUS
    <3>2. a[j - (j - i)] <= a[j]
      BY <2>3, <3>1
    <3> QED
      BY <3>1, <3>2
  <2> QED
    BY <2>4
<1>3. ASSUME NEW i \in 0..n
      PROVE  Ends(a, i) \in Nat
  <2>1. a[i] \in Nat /\ i \in Nat
    BY <1>1
  <2> QED
    BY <2>1 DEF Ends
<1>4. ASSUME NEW j \in 0..n, NEW i \in 0..j
      PROVE  Ends(a, i) <= Ends(a, j)
  <2>1. a[i] \in Nat /\ a[j] \in Nat /\ a[i] <= a[j] /\ i \in Nat /\ j \in Nat /\ i <= j
    <3>1. i \in 0..n
      OBVIOUS
    <3> QED
      BY <1>1, <1>2, <3>1
  <2>2. \A x, y \in Nat : x <= y => x + 6 * i <= y + 6 * j
    BY <2>1
  <2> QED
    BY <2>1, <2>2 DEF Ends
<1>5. ASSUME NEW i \in 1..n
      PROVE  Ends(a, i) = Ends(a, i - 1) + s[i] + 6
  <2>1. a[i] = a[i - 1] + s[i] /\ a[i - 1] \in Nat /\ s[i] \in Nat
    <3>1. i - 1 \in 0..n
      OBVIOUS
    <3> QED
      BY <1>1, <3>1
  <2>2. \A x, y \in Nat : (x + y) + 6 * i = x + 6 * (i - 1) + y + 6
    OBVIOUS
  <2> QED
    BY <2>1, <2>2 DEF Ends
<1> QED
  BY <1>1, <1>2, <1>3, <1>4, <1>5

\* f is the first m chunks of r.
Chunks(f, r, a, m) ==
    /\ f \in Seq(Framed) /\ Len(f) = Ends(a, m)
    /\ \A i \in 1..m : \A p \in 1..(r.body[i] + 6) : f[Ends(a, i - 1) + p] = Chunk(r, i)[p]

\* Joining the next chunk leaves those before it where they lie.
LEMMA OneMoreChunk ==
    ASSUME NEW r \in Responses, NEW a, Adds(a, r.body, Len(r.body)),
           NEW m \in Nat, m + 1 \in 1..Len(r.body), NEW f, Chunks(f, r, a, m)
    PROVE  Chunks(f \o Chunk(r, m + 1), r, a, m + 1)
<1> DEFINE n == Len(r.body)
           b == r.body
           k == m + 1
           c == Chunk(r, k)
           g == f \o c
<1>1. n \in Nat /\ (\A i \in 1..n : b[i] \in Nat)
  BY ResponseTyped
<1>2. c \in Seq(Framed) /\ Len(c) = b[k] + 6
  <2>1. k - 1 = m /\ m \in 0..Len(b)
    OBVIOUS
  <2>2. b \in Seq(Nat)
    BY ResponseTyped
  <2>3. Total(SubSeq(b, 1, k - 1)) = a[m] /\ a[m] \in Nat
    BY <2>1, <2>2, TotalsOfFirst DEF Adds
  <2> QED
    BY <2>3, ChunkLaidOut
<1>3. /\ \A i \in 0..n : Ends(a, i) \in Nat
      /\ \A i \in 1..n : Ends(a, i) = Ends(a, i - 1) + b[i] + 6
  BY <1>1, Rising
<1>4. f \in Seq(Framed) /\ Len(f) = Ends(a, m)
  BY DEF Chunks
<1>5. \A i \in 1..m : \A p \in 1..(b[i] + 6) : f[Ends(a, i - 1) + p] = Chunk(r, i)[p]
  BY DEF Chunks
<1>6. k \in 1..n /\ k - 1 = m /\ m \in 0..n
  OBVIOUS
<1> HIDE DEF c, g, n, b
<1>7. /\ g \in Seq(Framed) /\ Len(g) = Len(f) + Len(c) /\ Len(f) \in Nat
      /\ \A p \in 1..Len(f) : g[p] = f[p]
      /\ \A p \in 1..Len(c) : g[Len(f) + p] = c[p]
  <2>1. f \in Seq(Framed) /\ c \in Seq(Framed)
    BY <1>2, <1>4
  <2> QED
    BY <2>1, Behind DEF g
<1>8. Len(g) = Ends(a, k)
  <2>1. b[k] \in Nat /\ Ends(a, m) \in Nat /\ Ends(a, k) = Ends(a, m) + b[k] + 6
    BY <1>1, <1>3, <1>6
  <2>2. \A x, y \in Nat : x + (y + 6) = x + y + 6
    OBVIOUS
  <2> QED
    BY <1>2, <1>4, <1>7, <2>1, <2>2
<1>9. ASSUME NEW i \in 1..k, NEW p \in 1..(b[i] + 6)
      PROVE  g[Ends(a, i - 1) + p] = Chunk(r, i)[p]
  <2>1. CASE i = k
    <3>1. g[Len(f) + p] = c[p]
      BY <1>2, <1>7, <2>1
    <3> QED
      BY <1>4, <1>6, <2>1, <3>1 DEF c
  <2>2. CASE i # k
    <3>1. i \in 1..m /\ i \in 1..n /\ i - 1 \in 0..n /\ i \in 0..m
      BY <1>1, <1>6, <2>2
    <3>2. f[Ends(a, i - 1) + p] = Chunk(r, i)[p]
      BY <1>5, <3>1
    <3>3. Ends(a, i - 1) + p \in 1..Len(f)
      <4>1. Adds(a, b, n) /\ i \in 0..m
        BY <3>1 DEF b, n
      <4>2. Ends(a, i) <= Ends(a, m)
        BY <1>1, <1>6, <4>1, Rising
      <4>3. /\ Ends(a, i - 1) \in Nat /\ Ends(a, i) \in Nat /\ Ends(a, m) \in Nat /\ b[i] \in Nat
            /\ Ends(a, i) = Ends(a, i - 1) + b[i] + 6
        BY <1>1, <1>3, <1>6, <3>1
      <4>4. \A x, y, z, w \in Nat : y = x + w + 6 /\ y <= z => x + p \in 1..z
                                    \/ ~(p \in 1..(w + 6))
        OBVIOUS
      <4> QED
        BY <1>4, <4>2, <4>3, <4>4
    <3> QED
      BY <1>7, <3>2, <3>3
  <2> QED
    BY <2>1, <2>2
<1> QED
  BY <1>7, <1>8, <1>9 DEF Chunks, b, c, g

\* Chunk i lies between the ends of chunks i - 1 and i.
LEMMA ChunksLaidOut ==
    ASSUME NEW r \in Responses, NEW a, Adds(a, r.body, Len(r.body))
    PROVE  Chunks(FlattenSeq([i \in 1..Len(r.body) |-> Chunk(r, i)]), r, a, Len(r.body))
<1> DEFINE N == Len(r.body)
           s == [i \in 1..N |-> Chunk(r, i)]
<1>1. N \in Nat /\ Len(s) = N /\ (N = 0 => s = <<>>)
  BY ResponseTyped
<1>2. \A i \in 1..N : s[i] = Chunk(r, i)
  OBVIOUS
<1>3. Chunks(<<>>, r, a, 0)
  <2>1. a[0] = 0
    BY DEF Adds
  <2> QED
    BY <2>1 DEF Chunks, Ends
<1> HIDE DEF s
<1>4. CASE N = 0
  <2>1. FlattenSeq(s) = <<>>
    BY <1>1, <1>4 DEF FlattenSeq
  <2> QED
    BY <1>3, <1>4, <2>1 DEF s
<1>5. CASE N # 0
  <2>1. PICK f : Joins(f, s, N) /\ FlattenSeq(s) = f[N]
    BY <1>1, <1>5, Flattened
  <2>2. \A i \in 1..N : f[i] = IF i = 1 THEN s[i] ELSE f[i-1] \o s[i]
    BY <2>1 DEF Joins
  <2> DEFINE T == {n \in Nat : n + 1 \in 1..N => Chunks(f[n + 1], r, a, n + 1)}
  <2>3. 0 \in T
    <3> SUFFICES Chunks(f[1], r, a, 1)
      OBVIOUS
    <3>1. 1 \in 1..N /\ 0 \in Nat /\ 0 + 1 \in 1..N /\ 0 + 1 = 1
      BY <1>1, <1>5
    <3>2. Chunks(<<>> \o Chunk(r, 0 + 1), r, a, 0 + 1)
      BY <1>3, <3>1, OneMoreChunk
    <3>3. f[1] = <<>> \o Chunk(r, 1)
      <4>1. f[1] = Chunk(r, 1)
        BY <1>2, <2>2, <3>1
      <4>2. Chunk(r, 1) \in Seq(Framed)
        <5>1. Chunks(<<>> \o Chunk(r, 1), r, a, 1)
          BY <3>1, <3>2
        <5>2. r.body \in Seq(Nat) /\ 0 \in 0..Len(r.body) /\ 1 - 1 = 0
          BY <1>1, ResponseTyped
        <5>3. Total(SubSeq(r.body, 1, 1 - 1)) = a[0] /\ a[0] \in Nat
          BY <5>2, TotalsOfFirst DEF Adds
        <5> QED
          BY <3>1, <5>3, ChunkLaidOut
      <4> QED
        BY <4>1, <4>2
    <3> QED
      BY <3>1, <3>2, <3>3
  <2>4. ASSUME NEW n \in Nat, n \in T
        PROVE  n + 1 \in T
    <3> SUFFICES ASSUME (n + 1) + 1 \in 1..N
                 PROVE  Chunks(f[(n + 1) + 1], r, a, (n + 1) + 1)
      OBVIOUS
    <3>1. n + 1 \in 1..N /\ n + 1 \in Nat /\ (n + 1) + 1 # 1 /\ ((n + 1) + 1) - 1 = n + 1
      BY <1>1
    <3>2. Chunks(f[n + 1], r, a, n + 1)
      BY <2>4, <3>1
    <3>3. f[(n + 1) + 1] = f[n + 1] \o Chunk(r, (n + 1) + 1)
      BY <1>2, <2>2, <3>1
    <3> QED
      BY <3>1, <3>2, <3>3, OneMoreChunk
  <2>5. N - 1 \in T /\ (N - 1) + 1 = N
    <3>1. N - 1 \in Nat /\ (N - 1) + 1 = N
      BY <1>1, <1>5
    <3> HIDE DEF T
    <3>2. \A n \in Nat : n \in T
      BY <2>3, <2>4, EveryNumber
    <3> QED
      BY <3>1, <3>2
  <2>6. N \in 1..N
    BY <1>1, <1>5
  <2> QED
    BY <2>1, <2>5, <2>6 DEF s
<1> QED
  BY <1>4, <1>5

\* The payload bytes in the first i chunks.
Sizes(r) == CHOOSE a : Adds(a, r.body, Len(r.body))

\* They are running sums, and the last one is the length of the payload.
LEMMA Summed ==
    ASSUME NEW r \in Responses
    PROVE  /\ Adds(Sizes(r), r.body, Len(r.body))
           /\ Total(r.body) = Sizes(r)[Len(r.body)] /\ Total(r.body) \in Nat
           /\ r.framing # "chunked" => Total(r.body) = r.body[1]
<1>1. /\ r.body \in Seq(Nat) /\ Len(r.body) \in Nat
      /\ \A i \in 1..Len(r.body) : r.body[i] \in Nat
  BY ResponseTyped
<1>2. Adds(Sizes(r), r.body, Len(r.body))
  <2>1. \E a : Adds(a, r.body, Len(r.body))
    BY <1>1, AddsExist
  <2> QED
    BY <2>1 DEF Sizes
<1>3. Total(r.body) = Sizes(r)[Len(r.body)]
  BY <1>1, <1>2, TotalsOfFirst
<1>4. Sizes(r)[Len(r.body)] \in Nat
  BY <1>1, <1>2 DEF Adds
<1>5. ASSUME r.framing # "chunked"
      PROVE  Total(r.body) = r.body[1]
  <2>0. Len(r.body) = 1
    BY <1>5, ResponseTyped
  <2>1. Len(r.body) = 1 /\ 1 \in 1..Len(r.body)
    BY <2>0
  <2>2. Sizes(r)[1] = Sizes(r)[1 - 1] + r.body[1] /\ Sizes(r)[0] = 0 /\ r.body[1] \in Nat
    BY <1>1, <1>2, <2>1 DEF Adds
  <2>3. 1 - 1 = 0
    OBVIOUS
  <2>4. Sizes(r)[1] = r.body[1]
    BY <2>2, <2>3
  <2> QED
    BY <1>3, <2>1, <2>4
<1> QED
  BY <1>2, <1>3, <1>4, <1>5

\* Where the last chunk with data ends.
DataEnd(r) == Ends(Sizes(r), Len(r.body))

\* The body is its payload, or its chunks followed by the size 0 and the trailers.
LEMMA BodyLaidOut ==
    ASSUME NEW r \in Responses
    PROVE  /\ BodyUnits(r) \in Seq(Framed) /\ Len(BodyUnits(r)) \in Nat
           /\ r.framing # "chunked" => BodyUnits(r) = Data(0, r.body[1])
           /\ r.framing = "chunked" =>
                /\ Len(BodyUnits(r)) >= DataEnd(r) + 5 /\ DataEnd(r) \in Nat
                /\ BodyUnits(r)[DataEnd(r) + 1] = Unit("digit", 0)
                /\ BodyUnits(r)[DataEnd(r) + 2] = Unit("cr", 0)
                /\ BodyUnits(r)[DataEnd(r) + 3] = Unit("lf", 0)
                /\ \A i \in 1..Len(r.body) : \A p \in 1..(r.body[i] + 6) :
                     BodyUnits(r)[Ends(Sizes(r), i - 1) + p] = Chunk(r, i)[p]
<1>1. CASE r.framing # "chunked"
  <2>1. r.body[1] \in Nat
    BY <1>1, ResponseTyped
  <2>2. BodyUnits(r) = Data(0, r.body[1])
    BY <1>1 DEF BodyUnits
  <2>3. Data(0, r.body[1]) \in Seq(Framed) /\ Len(Data(0, r.body[1])) = r.body[1]
    BY <2>1, DataTyped
  <2> QED
    BY <1>1, <2>1, <2>2, <2>3
<1>2. CASE r.framing = "chunked"
  <2> DEFINE f == FlattenSeq([i \in 1..Len(r.body) |-> Chunk(r, i)])
             s == Line(<<Unit("digit", 0)>>)
             l == [j \in 1..r.trailers |-> Line(<<Unit("trailer", j)>>)]
             t == FlattenSeq(l)
             e == Line(<<>>)
             n == Len(r.body)
  <2>1. BodyUnits(r) = ((f \o s) \o t) \o e
    BY <1>2 DEF BodyUnits
  <2>2. /\ f \in Seq(Framed) /\ Len(f) = DataEnd(r)
        /\ \A i \in 1..n : \A p \in 1..(r.body[i] + 6) :
             f[Ends(Sizes(r), i - 1) + p] = Chunk(r, i)[p]
    BY Summed, ChunksLaidOut DEF Chunks, DataEnd
  <2>3. /\ "digit" \in BodyKinds /\ "trailer" \in BodyKinds /\ "cr" \in BodyKinds
        /\ "lf" \in BodyKinds /\ 0 \in Nat
    BY DEF BodyKinds
  <2>c. Unit("cr", 0) \in Framed /\ Unit("lf", 0) \in Framed /\ Unit("digit", 0) \in Framed
    BY <2>3, UnitTyped
  <2>4. /\ s \in Seq(Framed) /\ Len(s) = 3 /\ s[1] = Unit("digit", 0)
        /\ s[2] = Unit("cr", 0) /\ s[3] = Unit("lf", 0)
    BY <2>c, LineOfOne
  <2>5. e \in Seq(Framed) /\ Len(e) = 2
    BY <2>c, EmptyLine
  <2>6. t \in Seq(Framed) /\ Len(t) \in Nat
    <3>1. r.trailers \in Nat
      BY ResponseTyped
    <3>2. Len(l) = r.trailers /\ (r.trailers = 0 => l = <<>>)
      BY <3>1
    <3>3. ASSUME NEW j \in 1..r.trailers
          PROVE  l[j] \in Seq(Framed)
      <4>1. j \in Nat
        BY <3>1
      <4>2. Unit("trailer", j) \in Framed
        BY <2>3, <4>1, UnitTyped
      <4>3. Line(<<Unit("trailer", j)>>) \in Seq(Framed)
        BY <2>c, <4>2, LineOfOne
      <4> QED
        BY <4>3
    <3> HIDE DEF l
    <3>4. t \in Seq(Framed)
      BY <3>1, <3>2, <3>3, FlattenTyped
    <3> QED
      BY <3>4
  <2> HIDE DEF f, s, t, e
  <2> DEFINE x == f \o s
             y == x \o t
             z == y \o e
  <2>7. /\ x \in Seq(Framed) /\ Len(x) = Len(f) + Len(s) /\ Len(f) \in Nat
        /\ \A p \in 1..Len(f) : x[p] = f[p]
        /\ \A p \in 1..Len(s) : x[Len(f) + p] = s[p]
    <3>1. f \in Seq(Framed) /\ s \in Seq(Framed)
      BY <2>2, <2>4
    <3> QED
      BY <3>1, Behind DEF x
  <2> HIDE DEF x
  <2>8. /\ y \in Seq(Framed) /\ Len(y) = Len(x) + Len(t) /\ Len(x) \in Nat
        /\ \A p \in 1..Len(x) : y[p] = x[p]
    <3>1. x \in Seq(Framed) /\ t \in Seq(Framed)
      BY <2>6, <2>7
    <3> QED
      BY <3>1, Behind DEF y
  <2> HIDE DEF y
  <2>9. /\ z \in Seq(Framed) /\ Len(z) = Len(y) + Len(e) /\ Len(y) \in Nat
        /\ \A p \in 1..Len(y) : z[p] = y[p]
    <3>1. y \in Seq(Framed) /\ e \in Seq(Framed)
      BY <2>5, <2>8
    <3> QED
      BY <3>1, Behind DEF z
  <2> HIDE DEF z
  <2>10. \A p \in 1..(Len(f) + 3) : z[p] = x[p]
    <3>1. \A p \in 1..(Len(f) + 3) : p \in 1..Len(x) /\ p \in 1..Len(y)
      BY <2>4, <2>6, <2>7, <2>8
    <3> QED
      BY <2>8, <2>9, <3>1
  <2>11. /\ z[DataEnd(r) + 1] = Unit("digit", 0) /\ z[DataEnd(r) + 2] = Unit("cr", 0)
         /\ z[DataEnd(r) + 3] = Unit("lf", 0)
         /\ DataEnd(r) \in Nat /\ Len(z) >= DataEnd(r) + 5
    <3>1. /\ Len(f) + 1 \in 1..(Len(f) + 3) /\ Len(f) + 2 \in 1..(Len(f) + 3)
          /\ Len(f) + 3 \in 1..(Len(f) + 3)
          /\ 1 \in 1..Len(s) /\ 2 \in 1..Len(s) /\ 3 \in 1..Len(s)
      BY <2>4, <2>7
    <3>2. /\ z[Len(f) + 1] = Unit("digit", 0) /\ z[Len(f) + 2] = Unit("cr", 0)
          /\ z[Len(f) + 3] = Unit("lf", 0)
      BY <2>4, <2>7, <2>10, <3>1
    <3>3. Len(z) = DataEnd(r) + 3 + Len(t) + 2
      BY <2>2, <2>4, <2>5, <2>6, <2>7, <2>8, <2>9
    <3> QED
      BY <2>2, <2>6, <2>7, <3>2, <3>3
  <2>12. ASSUME NEW i \in 1..n, NEW p \in 1..(r.body[i] + 6)
         PROVE  z[Ends(Sizes(r), i - 1) + p] = Chunk(r, i)[p]
    <3>1. /\ Ends(Sizes(r), i - 1) \in Nat /\ r.body[i] \in Nat
          /\ Ends(Sizes(r), i) = Ends(Sizes(r), i - 1) + r.body[i] + 6
          /\ Ends(Sizes(r), i) <= DataEnd(r)
      <4>1. /\ n \in Nat /\ (\A j \in 1..n : r.body[j] \in Nat)
            /\ i - 1 \in 0..n /\ n \in 0..n /\ i \in 0..n
        BY ResponseTyped
      <4> QED
        BY <4>1, Summed, Rising DEF DataEnd
    <3>2. Ends(Sizes(r), i - 1) + p \in 1..Len(f) /\ Ends(Sizes(r), i - 1) + p \in 1..(Len(f) + 3)
      <4>1. \A a, b, u, w \in Nat : a = b + u + 6 /\ a <= w /\ p \in 1..(u + 6)
                                  => b + p \in 1..w /\ b + p \in 1..(w + 3)
        OBVIOUS
      <4>2. Len(f) \in Nat /\ Len(f) = DataEnd(r) /\ Ends(Sizes(r), i) \in Nat
        BY <2>2, <2>7, <3>1
      <4> QED
        BY <3>1, <4>1, <4>2
    <3> QED
      BY <2>2, <2>7, <2>10, <3>2
  <2>13. BodyUnits(r) = z
    BY <2>1 DEF x, y, z
  <2> QED
    BY <1>2, <2>9, <2>11, <2>12, <2>13
<1> QED
  BY <1>1, <1>2

\* The length of the body with its framing.
B(r) == Len(BodyUnits(r))

\* The stream is the header, the body and the surplus, in this order.
LEMMA StreamLaidOut ==
    ASSUME NEW r \in Responses
    PROVE  /\ Stream(r) \in Seq(Units) /\ Len(Stream(r)) = H(r) + B(r) + r.extra
           /\ H(r) \in Nat /\ B(r) \in Nat
           /\ \A p \in 1..H(r) : Stream(r)[p] = HeaderLines(r)[p]
           /\ \A p \in 1..B(r) : Stream(r)[H(r) + p] = BodyUnits(r)[p]
           /\ \A p \in 1..r.extra : Stream(r)[H(r) + B(r) + p] = Unit("data", Total(r.body) + p)
           /\ \A p \in 1..(B(r) + r.extra) : Stream(r)[H(r) + p] \in Framed
<1> DEFINE h == HeaderLines(r)
           b == BodyUnits(r)
           d == Data(Total(r.body), r.extra)
           x == h \o b
           z == x \o d
<1>1. h \in Seq(Units) /\ b \in Seq(Framed) /\ d \in Seq(Framed)
  BY HeaderLaidOut, BodyLaidOut, Summed, DataTyped, ResponseTyped
<1>2. /\ Len(d) = r.extra /\ r.extra \in Nat
      /\ \A p \in 1..r.extra : d[p] = Unit("data", Total(r.body) + p)
  BY Summed, DataTyped, ResponseTyped
<1>3. b \in Seq(Units) /\ d \in Seq(Units)
  <2>1. Framed \subseteq Units
    BY UnitTyped
  <2> QED
    BY <1>1, <2>1, SeqMonotonic
<1>4. Stream(r) = z
  BY DEF Stream
<1> HIDE DEF h, b, d
<1>5. /\ x \in Seq(Units) /\ Len(x) = Len(h) + Len(b) /\ Len(h) \in Nat /\ Len(b) \in Nat
      /\ \A p \in 1..Len(h) : x[p] = h[p]
      /\ \A p \in 1..Len(b) : x[Len(h) + p] = b[p]
  <2>1. h \in Seq(Units) /\ b \in Seq(Units)
    BY <1>1, <1>3
  <2> QED
    BY <2>1, Behind DEF x
<1> HIDE DEF x
<1>6. /\ z \in Seq(Units) /\ Len(z) = Len(x) + Len(d)
      /\ \A p \in 1..Len(x) : z[p] = x[p]
      /\ \A p \in 1..Len(d) : z[Len(x) + p] = d[p]
  <2>1. x \in Seq(Units) /\ d \in Seq(Units)
    BY <1>3, <1>5
  <2> QED
    BY <2>1, Behind DEF z
<1> HIDE DEF z
<1>7. \A p \in 1..Len(h) : z[p] = h[p]
  <2>1. \A p \in 1..Len(h) : p \in 1..Len(x)
    BY <1>5
  <2> QED
    BY <1>5, <1>6, <2>1
<1>8. \A p \in 1..Len(b) : z[Len(h) + p] = b[p]
  <2>1. \A p \in 1..Len(b) : Len(h) + p \in 1..Len(x)
    BY <1>5
  <2> QED
    BY <1>5, <1>6, <2>1
<1>9. \A p \in 1..r.extra : z[Len(h) + Len(b) + p] = Unit("data", Total(r.body) + p)
  BY <1>2, <1>5, <1>6
<1>10. ASSUME NEW p \in 1..(Len(b) + r.extra)
       PROVE  z[Len(h) + p] \in Framed
  <2>1. CASE p <= Len(b)
    <3>1. p \in 1..Len(b)
      BY <1>2, <1>5, <2>1
    <3>2. b[p] \in Framed
      BY <1>1, <3>1, ElementOfSeq
    <3> QED
      BY <1>8, <3>1, <3>2
  <2>2. CASE ~(p <= Len(b))
    <3> DEFINE q == p - Len(b)
    <3>1. q \in 1..Len(d) /\ Len(x) + q = Len(h) + p
      BY <1>2, <1>5, <2>2
    <3> HIDE DEF q
    <3>2. d[q] \in Framed
      BY <1>1, <3>1, ElementOfSeq
    <3>3. z[Len(x) + q] = d[q]
      BY <1>6, <3>1
    <3> QED
      BY <3>1, <3>2, <3>3
  <2> QED
    BY <2>1, <2>2
<1> QED
  BY <1>2, <1>4, <1>5, <1>6, <1>7, <1>8, <1>9, <1>10 DEF H, B, h, b

\* Outside chunks, everything after the header is data, numbered from 1.
LEMMA PlainStream ==
    ASSUME NEW r \in Responses, r.framing # "chunked"
    PROVE  /\ Len(Stream(r)) = H(r) + (Total(r.body) + r.extra)
           /\ \A p \in 1..(Total(r.body) + r.extra) : Stream(r)[H(r) + p].n = p
<1> DEFINE t == Total(r.body)
           S == Stream(r)
<1>1. t \in Nat /\ t = r.body[1] /\ r.extra \in Nat
  BY Summed, ResponseTyped
<1>2. BodyUnits(r) = Data(0, t)
  BY <1>1, BodyLaidOut
<1>3. B(r) = t /\ (\A p \in 1..t : BodyUnits(r)[p] = Unit("data", 0 + p))
  <2>1. 0 \in Nat /\ t \in Nat
    BY <1>1
  <2> HIDE DEF t
  <2>2. Len(Data(0, t)) = t /\ (\A p \in 1..t : Data(0, t)[p] = Unit("data", 0 + p))
    BY <2>1, DataTyped
  <2> QED
    BY <1>2, <2>2 DEF B
<1>4. /\ Len(S) = H(r) + t + r.extra /\ H(r) \in Nat
      /\ \A p \in 1..t : S[H(r) + p] = BodyUnits(r)[p]
      /\ \A p \in 1..r.extra : S[H(r) + t + p] = Unit("data", t + p)
  BY <1>3, StreamLaidOut
<1> HIDE DEF t, S
<1>5. ASSUME NEW p \in 1..(t + r.extra)
      PROVE  S[H(r) + p].n = p
  <2>1. CASE p <= t
    <3>1. p \in 1..t /\ 0 + p = p
      BY <1>1, <2>1
    <3>2. S[H(r) + p] = Unit("data", p)
      BY <1>3, <1>4, <3>1
    <3> QED
      BY <3>2, UnitTyped
  <2>2. CASE ~(p <= t)
    <3> DEFINE q == p - t
    <3>1. q \in 1..r.extra /\ t + q = p /\ H(r) + t + q = H(r) + p
      <4>1. t \in Nat /\ r.extra \in Nat /\ H(r) \in Nat
        BY <1>1, <1>4
      <4>2. \A x, y, z \in Nat : p \in 1..(x + y) /\ ~(p <= x)
              => p - x \in 1..y /\ x + (p - x) = p /\ z + x + (p - x) = z + p
        OBVIOUS
      <4> QED
        BY <2>2, <4>1, <4>2
    <3> HIDE DEF q
    <3>2. S[H(r) + p] = Unit("data", p)
      BY <1>4, <3>1
    <3> QED
      BY <3>2, UnitTyped
  <2> QED
    BY <2>1, <2>2
<1> QED
  BY <1>1, <1>4, <1>5 DEF t, S

\* A faultless chunk begins with its size line and ends with a CRLF, its data lies
\* between them, and the chunk of size 0 follows the last one.
LEMMA ChunkedStream ==
    ASSUME NEW r \in Responses, r.framing = "chunked", r.fault = "none"
    PROVE  /\ Len(Stream(r)) >= H(r) + DataEnd(r) + 5 /\ H(r) \in Nat /\ DataEnd(r) \in Nat
           /\ Stream(r)[H(r) + DataEnd(r) + 1] = Unit("digit", 0)
           /\ Stream(r)[H(r) + DataEnd(r) + 2].kind = "cr"
           /\ Stream(r)[H(r) + DataEnd(r) + 3].kind = "lf"
           /\ \A i \in 1..Len(r.body) :
                LET e == H(r) + Ends(Sizes(r), i - 1)
                IN  /\ Stream(r)[e + 1].kind = "digit" /\ Stream(r)[e + 2].kind = "digit"
                    /\ 16 * Stream(r)[e + 1].n + Stream(r)[e + 2].n = r.body[i]
                    /\ Stream(r)[e + 3].kind = "cr" /\ Stream(r)[e + 4].kind = "lf"
                    /\ Stream(r)[e + 4 + r.body[i] + 1].kind = "cr" /\ Stream(r)[e + 4 + r.body[i] + 2].kind = "lf"
                    /\ \A j \in 1..r.body[i] : Stream(r)[e + 4 + j].n = Sizes(r)[i - 1] + j
<1> DEFINE S == Stream(r)
<1>1. /\ Len(S) = H(r) + B(r) + r.extra /\ r.extra \in Nat
      /\ H(r) \in Nat /\ B(r) \in Nat
      /\ \A p \in 1..B(r) : S[H(r) + p] = BodyUnits(r)[p]
  BY StreamLaidOut, ResponseTyped
<1>2. /\ B(r) >= DataEnd(r) + 5 /\ DataEnd(r) \in Nat
      /\ BodyUnits(r)[DataEnd(r) + 1] = Unit("digit", 0)
      /\ BodyUnits(r)[DataEnd(r) + 2] = Unit("cr", 0)
      /\ BodyUnits(r)[DataEnd(r) + 3] = Unit("lf", 0)
      /\ \A i \in 1..Len(r.body) : \A p \in 1..(r.body[i] + 6) :
           BodyUnits(r)[Ends(Sizes(r), i - 1) + p] = Chunk(r, i)[p]
  BY BodyLaidOut DEF B
<1> HIDE DEF S
<1>3. Len(S) >= H(r) + DataEnd(r) + 5
  BY <1>1, <1>2
<1>4. /\ S[H(r) + DataEnd(r) + 1] = Unit("digit", 0)
      /\ S[H(r) + DataEnd(r) + 2].kind = "cr"
      /\ S[H(r) + DataEnd(r) + 3].kind = "lf"
  <2>1. ASSUME NEW k \in 1..3
        PROVE  S[H(r) + DataEnd(r) + k] = BodyUnits(r)[DataEnd(r) + k]
    <3>1. H(r) \in Nat /\ B(r) \in Nat /\ DataEnd(r) \in Nat /\ B(r) >= DataEnd(r) + 5
      BY <1>1, <1>2
    <3>2. DataEnd(r) + k \in 1..B(r) /\ H(r) + (DataEnd(r) + k) = H(r) + DataEnd(r) + k
      BY <3>1
    <3>3. S[H(r) + (DataEnd(r) + k)] = BodyUnits(r)[DataEnd(r) + k]
      BY <1>1, <3>2
    <3> QED
      BY <3>2, <3>3
  <2>2. 1 \in 1..3 /\ 2 \in 1..3 /\ 3 \in 1..3
    OBVIOUS
  <2>3. /\ S[H(r) + DataEnd(r) + 1] = Unit("digit", 0)
        /\ S[H(r) + DataEnd(r) + 2] = Unit("cr", 0)
        /\ S[H(r) + DataEnd(r) + 3] = Unit("lf", 0)
    BY <1>2, <2>1, <2>2
  <2>4. Unit("cr", 0).kind = "cr" /\ Unit("lf", 0).kind = "lf"
    BY DEF Unit
  <2> QED
    BY <2>3, <2>4
<1>5. ASSUME NEW i \in 1..Len(r.body)
      PROVE  LET e == H(r) + Ends(Sizes(r), i - 1)
             IN  /\ S[e + 1].kind = "digit" /\ S[e + 2].kind = "digit"
                 /\ 16 * S[e + 1].n + S[e + 2].n = r.body[i]
                 /\ S[e + 3].kind = "cr" /\ S[e + 4].kind = "lf"
                 /\ S[e + 4 + r.body[i] + 1].kind = "cr" /\ S[e + 4 + r.body[i] + 2].kind = "lf"
                 /\ \A j \in 1..r.body[i] : S[e + 4 + j].n = Sizes(r)[i - 1] + j
  <2> DEFINE a == Sizes(r)
             b == r.body[i]
             e == Ends(Sizes(r), i - 1)
             k == a[i - 1]
             c == Chunk(r, i)
  <2>1. /\ Len(r.body) \in Nat /\ (\A j \in 1..Len(r.body) : r.body[j] \in Nat)
        /\ i - 1 \in 0..Len(r.body) /\ i \in 0..Len(r.body)
        /\ Len(r.body) \in 0..Len(r.body) /\ r.body \in Seq(Nat)
    BY ResponseTyped
  <2>2. /\ e \in Nat /\ b \in Nat /\ k \in Nat
        /\ e + b + 6 = Ends(a, i) /\ Ends(a, i) <= DataEnd(r)
    BY <2>1, Summed, Rising DEF DataEnd
  <2>3. k = Total(SubSeq(r.body, 1, i - 1))
    BY <2>1, Summed, TotalsOfFirst
  <2>4. /\ c \in Seq(Framed) /\ Len(c) = b + 6
        /\ 16 * c[1].n + c[2].n = b
        /\ c[1].kind = "digit" /\ c[2].kind = "digit"
        /\ c[3].kind = "cr" /\ c[4].kind = "lf"
        /\ c[b + 5].kind = "cr" /\ c[b + 6].kind = "lf"
        /\ \A j \in 1..b : c[4 + j] = Unit("data", k + j)
    BY <2>2, <2>3, ChunkLaidOut
  <2>5. \A p \in 1..(b + 6) : BodyUnits(r)[e + p] = c[p]
    BY <1>2
  <2> DEFINE f == H(r) + e
  <2>f. f = H(r) + Ends(Sizes(r), i - 1)
    OBVIOUS
  <2> HIDE DEF a, b, e, k, c
  <2>6. f \in Nat
    BY <1>1, <2>2
  <2>7. \A p \in 1..(b + 6) : S[f + p] = c[p]
    <3>1. \A p \in 1..(b + 6) : e + p \in 1..B(r) /\ H(r) + (e + p) = f + p
      <4>1. Ends(a, i) + 5 <= B(r) /\ Ends(a, i) \in Nat
        BY <1>1, <1>2, <2>2
      <4> QED
        BY <1>1, <2>2, <4>1
    <3>2. \A p \in 1..(b + 6) : S[H(r) + (e + p)] = c[p]
      BY <1>1, <2>5, <3>1
    <3> QED
      BY <3>1, <3>2
  <2> HIDE DEF f
  <2>8. S[f + 1] = c[1] /\ S[f + 2] = c[2] /\ S[f + 3] = c[3] /\ S[f + 4] = c[4]
    <3>1. 1 \in 1..(b + 6) /\ 2 \in 1..(b + 6) /\ 3 \in 1..(b + 6) /\ 4 \in 1..(b + 6)
      BY <2>2
    <3> QED
      BY <2>7, <3>1
  <2>9. S[f + 4 + b + 1] = c[b + 5] /\ S[f + 4 + b + 2] = c[b + 6]
    <3>1. /\ b + 5 \in 1..(b + 6) /\ f + (b + 5) = f + 4 + b + 1
          /\ b + 6 \in 1..(b + 6) /\ f + (b + 6) = f + 4 + b + 2
      BY <2>2, <2>6
    <3>2. S[f + (b + 5)] = c[b + 5] /\ S[f + (b + 6)] = c[b + 6]
      BY <2>7, <3>1
    <3> QED
      BY <3>1, <3>2
  <2>10. ASSUME NEW j \in 1..b
         PROVE  S[f + 4 + j].n = k + j
    <3>1. 4 + j \in 1..(b + 6) /\ f + (4 + j) = f + 4 + j
      BY <2>2, <2>6
    <3>2. S[f + (4 + j)] = Unit("data", k + j)
      BY <2>4, <2>7, <3>1
    <3> QED
      BY <3>1, <3>2 DEF Unit
  <2>11. /\ S[f + 1].kind = "digit" /\ S[f + 2].kind = "digit"
         /\ 16 * S[f + 1].n + S[f + 2].n = b
         /\ S[f + 3].kind = "cr" /\ S[f + 4].kind = "lf"
         /\ S[f + 4 + b + 1].kind = "cr" /\ S[f + 4 + b + 2].kind = "lf"
         /\ \A j \in 1..b : S[f + 4 + j].n = k + j
    BY <2>4, <2>8, <2>9, <2>10
  <2> QED
    BY <2>11, <2>f DEF a, b, k
<1> QED
  BY <1>1, <1>2, <1>3, <1>4, <1>5 DEF S

\* The header says which framing follows, and its first empty line ends it.
LEMMA HeaderKinds ==
    ASSUME NEW r \in Responses
    PROVE  /\ H(r) \in Nat /\ H(r) >= 5 /\ H(r) <= Len(Stream(r))
           /\ Stream(r)[H(r) - 3].kind = "cr" /\ Stream(r)[H(r) - 2].kind = "lf"
           /\ Stream(r)[H(r) - 1].kind = "cr" /\ Stream(r)[H(r)].kind = "lf"
           /\ \A p \in 1..(H(r) - 4) :
                ~(Stream(r)[p].kind = "cr" /\ Stream(r)[p + 2].kind = "cr")
           /\ r.framing # "none" =>
                H(r) = 8 /\ Stream(r)[5].kind = "cr" /\ Stream(r)[6].kind = "lf"
           /\ r.framing = "length" => Stream(r)[4] = Unit("length", Total(r.body))
           /\ r.framing = "chunked" => Stream(r)[4] = Unit("chunked", 0)
           /\ \A p \in 1..Len(Stream(r)) :
                /\ Stream(r)[p].kind = "status" => Stream(r)[p].n = 200
                /\ Stream(r)[p].kind = "length" =>
                     r.framing = "length" /\ Stream(r)[p].n = Total(r.body)
                /\ Stream(r)[p].kind = "chunked" => r.framing = "chunked"
<1> DEFINE S == Stream(r)
           t == Total(r.body)
<1>1. /\ H(r) = (IF r.framing = "none" THEN 5 ELSE 8)
      /\ HeaderLines(r)[1] = Unit("status", 200)
      /\ HeaderLines(r)[2] = Unit("cr", 0) /\ HeaderLines(r)[3] = Unit("lf", 0)
      /\ HeaderLines(r)[H(r) - 1] = Unit("cr", 0) /\ HeaderLines(r)[H(r)] = Unit("lf", 0)
      /\ r.framing # "none" => /\ HeaderLines(r)[5] = Unit("cr", 0)
                               /\ HeaderLines(r)[6] = Unit("lf", 0)
      /\ r.framing = "length" => HeaderLines(r)[4] = Unit("length", t)
      /\ r.framing = "chunked" => HeaderLines(r)[4] = Unit("chunked", 0)
      /\ r.framing \in {"length", "chunked", "none"}
  BY HeaderLaidOut, Summed, ResponseTyped DEF Framings
<1>2. /\ Len(S) = H(r) + B(r) + r.extra
      /\ H(r) \in Nat /\ B(r) \in Nat /\ r.extra \in Nat
      /\ \A p \in 1..H(r) : S[p] = HeaderLines(r)[p]
      /\ \A p \in 1..(B(r) + r.extra) : S[H(r) + p] \in Framed
  BY StreamLaidOut, ResponseTyped
<1>u. /\ Unit("cr", 0).kind = "cr" /\ Unit("lf", 0).kind = "lf"
      /\ Unit("status", 200).kind = "status" /\ Unit("status", 200).n = 200
      /\ Unit("length", t).kind = "length" /\ Unit("length", t).n = t
      /\ Unit("chunked", 0).kind = "chunked"
  BY DEF Unit
<1> HIDE DEF S, t
<1>3. H(r) >= 5 /\ H(r) <= Len(S)
  BY <1>1, <1>2
<1>4. ASSUME r.framing = "none"
      PROVE  /\ S[H(r) - 3].kind = "cr" /\ S[H(r) - 2].kind = "lf"
             /\ S[H(r) - 1].kind = "cr" /\ S[H(r)].kind = "lf"
             /\ \A p \in 1..(H(r) - 4) : ~(S[p].kind = "cr" /\ S[p + 2].kind = "cr")
             /\ r.framing # "none" => H(r) = 8 /\ S[5].kind = "cr" /\ S[6].kind = "lf"
             /\ r.framing = "length" => S[4] = Unit("length", t)
             /\ r.framing = "chunked" => S[4] = Unit("chunked", 0)
             /\ \A p \in 1..Len(S) : p <= H(r) =>
                  /\ S[p].kind = "status" => S[p].n = 200
                  /\ S[p].kind = "length" => r.framing = "length" /\ S[p].n = t
                  /\ S[p].kind = "chunked" => r.framing = "chunked"
  <2>1. /\ S[1].kind = "status" /\ S[1].n = 200 /\ S[2].kind = "cr" /\ S[3].kind = "lf"
        /\ S[4].kind = "cr" /\ S[5].kind = "lf"
    <3>1. /\ 1 \in 1..H(r) /\ 2 \in 1..H(r) /\ 3 \in 1..H(r) /\ 4 \in 1..H(r) /\ 5 \in 1..H(r)
          /\ H(r) - 1 = 4 /\ H(r) = 5
      BY <1>1, <1>4
    <3> QED
      BY <1>1, <1>2, <1>u, <3>1
  <2>2. H(r) - 3 = 2 /\ H(r) - 2 = 3 /\ H(r) - 1 = 4 /\ H(r) = 5 /\ H(r) - 4 = 1
    BY <1>1, <1>4
  <2>3. \A p \in 1..1 : ~(S[p].kind = "cr" /\ S[p + 2].kind = "cr")
    BY <2>1
  <2>4. ASSUME NEW p \in 1..Len(S), p <= H(r)
        PROVE  /\ S[p].kind = "status" => S[p].n = 200
               /\ S[p].kind = "length" => r.framing = "length" /\ S[p].n = t
               /\ S[p].kind = "chunked" => r.framing = "chunked"
    <3>1. p = 1 \/ p = 2 \/ p = 3 \/ p = 4 \/ p = 5
      BY <2>2, <2>4, <1>2
    <3> QED
      BY <2>1, <3>1
  <2> QED
    BY <1>4, <2>1, <2>2, <2>3, <2>4
<1>5. ASSUME r.framing # "none"
      PROVE  /\ S[H(r) - 3].kind = "cr" /\ S[H(r) - 2].kind = "lf"
             /\ S[H(r) - 1].kind = "cr" /\ S[H(r)].kind = "lf"
             /\ \A p \in 1..(H(r) - 4) : ~(S[p].kind = "cr" /\ S[p + 2].kind = "cr")
             /\ r.framing # "none" => H(r) = 8 /\ S[5].kind = "cr" /\ S[6].kind = "lf"
             /\ r.framing = "length" => S[4] = Unit("length", t)
             /\ r.framing = "chunked" => S[4] = Unit("chunked", 0)
             /\ \A p \in 1..Len(S) : p <= H(r) =>
                  /\ S[p].kind = "status" => S[p].n = 200
                  /\ S[p].kind = "length" => r.framing = "length" /\ S[p].n = t
                  /\ S[p].kind = "chunked" => r.framing = "chunked"
  <2>1. /\ S[1].kind = "status" /\ S[1].n = 200 /\ S[2].kind = "cr" /\ S[3].kind = "lf"
        /\ r.framing = "length" => S[4] = Unit("length", t)
        /\ r.framing = "chunked" => S[4] = Unit("chunked", 0)
        /\ S[5].kind = "cr" /\ S[6].kind = "lf" /\ S[7].kind = "cr" /\ S[8].kind = "lf"
    <3>1. /\ 1 \in 1..H(r) /\ 2 \in 1..H(r) /\ 3 \in 1..H(r) /\ 4 \in 1..H(r) /\ 5 \in 1..H(r)
          /\ 6 \in 1..H(r) /\ 7 \in 1..H(r) /\ 8 \in 1..H(r)
          /\ H(r) - 1 = 7 /\ H(r) = 8
      BY <1>1, <1>5
    <3> QED
      BY <1>1, <1>2, <1>5, <1>u, <3>1
  <2>2. H(r) - 3 = 5 /\ H(r) - 2 = 6 /\ H(r) - 1 = 7 /\ H(r) = 8 /\ H(r) - 4 = 4
    BY <1>1, <1>5
  <2>a. S[4].kind # "cr" /\ S[4].kind # "status"
    BY <1>1, <1>5, <1>u, <2>1
  <2>3. ASSUME NEW p \in 1..4
        PROVE  ~(S[p].kind = "cr" /\ S[p + 2].kind = "cr")
    <3>1. p = 1 \/ (p = 2 /\ p + 2 = 4) \/ p = 3 \/ p = 4
      OBVIOUS
    <3> QED
      BY <2>1, <2>a, <3>1
  <2>4. ASSUME NEW p \in 1..Len(S), p <= H(r)
        PROVE  /\ S[p].kind = "status" => S[p].n = 200
               /\ S[p].kind = "length" => r.framing = "length" /\ S[p].n = t
               /\ S[p].kind = "chunked" => r.framing = "chunked"
    <3>1. p = 1 \/ p = 2 \/ p = 3 \/ p = 4 \/ p = 5 \/ p = 6 \/ p = 7 \/ p = 8
      BY <2>2, <2>4, <1>2
    <3>2. CASE p = 4
      BY <1>1, <1>5, <1>u, <2>1, <3>2
    <3>3. CASE p # 4
      BY <2>1, <3>1, <3>3
    <3> QED
      BY <3>2, <3>3
  <2> QED
    BY <1>5, <2>1, <2>2, <2>3, <2>4
<1>6. ASSUME NEW p \in 1..Len(S), ~(p <= H(r))
      PROVE  S[p].kind # "status" /\ S[p].kind # "length" /\ S[p].kind # "chunked"
  <2> DEFINE q == p - H(r)
  <2>1. q \in 1..(B(r) + r.extra) /\ H(r) + q = p
    <3>1. \A x, y, z \in Nat : p \in 1..(x + y + z) /\ ~(p <= x)
            => p - x \in 1..(y + z) /\ x + (p - x) = p
      OBVIOUS
    <3> QED
      BY <1>2, <1>6, <3>1
  <2> HIDE DEF q
  <2>2. S[p] \in Framed
    BY <1>2, <2>1
  <2>3. S[p].kind \in BodyKinds
    BY <2>2 DEF Framed
  <2> QED
    BY <2>3 DEF BodyKinds
<1> QED
  BY <1>2, <1>3, <1>4, <1>5, <1>6 DEF S, t

\* Whatever has been read of a stream, the end of its header is found when it has
\* been read to its last unit, and not before.
LEMMA HeaderEndsAre ==
    ASSUME NEW r \in Responses, NEW s \in Seq(Units),
           Len(s) <= Len(Stream(r)), \A p \in 1..Len(s) : s[p] = Stream(r)[p]
    PROVE  /\ Len(s) < H(r) => HeaderEnds(s) = {}
           /\ Len(s) >= H(r) => HeaderEnds(s) # {} /\ Min(HeaderEnds(s)) = H(r) - 3
<1> DEFINE S == Stream(r)
           h == H(r)
<1>1. /\ h \in Nat /\ h >= 5
      /\ S[h - 3].kind = "cr" /\ S[h - 2].kind = "lf"
      /\ S[h - 1].kind = "cr" /\ S[h].kind = "lf"
      /\ \A p \in 1..(h - 4) : ~(S[p].kind = "cr" /\ S[p + 2].kind = "cr")
  BY HeaderKinds
<1>2. Len(s) \in Nat /\ (\A p \in 1..Len(s) : s[p] = S[p])
  OBVIOUS
<1> HIDE DEF S, h
<1>3. ASSUME NEW i \in HeaderEnds(s)
      PROVE  i \in Nat /\ i >= h - 3 /\ i + 3 <= Len(s)
  <2>1. /\ i \in 1..Len(s) - 1 /\ s[i].kind = "cr"
        /\ i + 2 \in 1..Len(s) - 1 /\ s[i + 2].kind = "cr"
    BY <1>3 DEF HeaderEnds, LineEnds
  <2>2. i \in Nat /\ i >= 1 /\ i + 3 <= Len(s) /\ i \in 1..Len(s) /\ i + 2 \in 1..Len(s)
    BY <1>2, <2>1
  <2>3. S[i].kind = "cr" /\ S[i + 2].kind = "cr"
    BY <1>2, <2>1, <2>2
  <2>4. i \notin 1..(h - 4)
    BY <1>1, <2>3
  <2> QED
    BY <1>1, <2>2, <2>4
<1>4. CASE Len(s) < h
  <2>1. HeaderEnds(s) = {}
    BY <1>1, <1>2, <1>3, <1>4
  <2> QED
    BY <1>1, <1>2, <1>4, <2>1 DEF h
<1>5. CASE ~(Len(s) < h)
  <2>1. h - 3 \in HeaderEnds(s)
    <3>1. /\ h - 3 \in 1..Len(s) - 1 /\ (h - 3) + 1 = h - 2 /\ (h - 3) + 2 = h - 1
          /\ h - 1 \in 1..Len(s) - 1 /\ (h - 1) + 1 = h
          /\ h - 3 \in 1..Len(s) /\ h - 2 \in 1..Len(s) /\ h - 1 \in 1..Len(s) /\ h \in 1..Len(s)
      BY <1>1, <1>2, <1>5
    <3>2. /\ s[h - 3].kind = "cr" /\ s[h - 2].kind = "lf"
          /\ s[h - 1].kind = "cr" /\ s[h].kind = "lf"
      BY <1>1, <1>2, <3>1
    <3>3. h - 3 \in LineEnds(s) /\ h - 1 \in LineEnds(s)
      BY <3>1, <3>2 DEF LineEnds
    <3> QED
      BY <3>1, <3>3 DEF HeaderEnds
  <2>2. \A i \in HeaderEnds(s) : h - 3 <= i
    BY <1>1, <1>3
  <2>3. Min(HeaderEnds(s)) = h - 3
    <3>1. \A i \in HeaderEnds(s) : i \in Int
      BY <1>3
    <3>2. ASSUME NEW k \in HeaderEnds(s), \A i \in HeaderEnds(s) : k <= i
          PROVE  k = h - 3
      BY <1>1, <2>1, <2>2, <3>1, <3>2
    <3>3. Min(HeaderEnds(s)) = CHOOSE k \in HeaderEnds(s) : \A i \in HeaderEnds(s) : k <= i
      BY DEF Min
    <3>4. \E k \in HeaderEnds(s) : \A i \in HeaderEnds(s) : k <= i
      BY <2>1, <2>2
    <3> DEFINE k == CHOOSE k \in HeaderEnds(s) : \A i \in HeaderEnds(s) : k <= i
    <3>5. k \in HeaderEnds(s) /\ \A i \in HeaderEnds(s) : k <= i
      BY <3>4
    <3> HIDE DEF k
    <3>6. k = h - 3
      BY <3>2, <3>5
    <3> QED
      BY <3>3, <3>6 DEF k
  <2> QED
    BY <1>1, <1>2, <1>5, <2>1, <2>3 DEF h
<1> QED
  BY <1>4, <1>5

-----------------------------------------------------------------------------
(* Windows of a sequence: what lies between two places of it.               *)

\* What lies in a window.
LEMMA Window ==
    ASSUME NEW S, NEW s \in Seq(S), NEW a \in Nat, NEW t \in Nat, a <= t, t <= Len(s)
    PROVE  /\ SubSeq(s, a + 1, t) \in Seq(S) /\ Len(SubSeq(s, a + 1, t)) = t - a
           /\ \A j \in 1..(t - a) : SubSeq(s, a + 1, t)[j] = s[a + j]
<1>1. a + 1 \in Nat \ {0} /\ (a + 1) - 1 = a
  OBVIOUS
<1>2. /\ SubSeq(s, a + 1, t) \in Seq(S)
      /\ Len(SubSeq(s, a + 1, t)) = IF a + 1 <= t THEN (t - (a + 1)) + 1 ELSE 0
      /\ \A p \in 1..Len(SubSeq(s, a + 1, t)) : SubSeq(s, a + 1, t)[p] = s[((a + 1) - 1) + p]
  BY <1>1, Piece
<1>3. Len(SubSeq(s, a + 1, t)) = t - a
  BY <1>2
<1> QED
  BY <1>1, <1>2, <1>3

\* A read moves the right end of a window.
LEMMA WindowGrows ==
    ASSUME NEW S, NEW s \in Seq(S), NEW a \in Nat, NEW t \in Nat, NEW u \in Nat,
           a <= t, t <= u, u <= Len(s)
    PROVE  SubSeq(s, a + 1, t) \o SubSeq(s, t + 1, u) = SubSeq(s, a + 1, u)
<1>1. a + 1 \in 1..(Len(s) + 1) /\ t \in ((a + 1) - 1)..Len(s) /\ u \in t..Len(s)
  <2>1. Len(s) \in Nat
    OBVIOUS
  <2> QED
    BY <2>1
<1> QED
  BY <1>1, ConcatAdjacentSubSeq

\* Sequences with the same members are the same.
LEMMA SameSequence ==
    ASSUME NEW S, NEW x \in Seq(S), NEW y \in Seq(S), Len(x) = Len(y),
           \A j \in 1..Len(x) : x[j] = y[j]
    PROVE  x = y
  BY SeqEqual

\* Consuming a line moves the left end of a window.
LEMMA WindowShrinks ==
    ASSUME NEW S, NEW s \in Seq(S), NEW a \in Nat, NEW t \in Nat, NEW d \in Nat,
           a + d <= t, t <= Len(s)
    PROVE  SubSeq(SubSeq(s, a + 1, t), d + 1, t - a) = SubSeq(s, (a + d) + 1, t)
<1> DEFINE x == SubSeq(s, a + 1, t)
           y == SubSeq(x, d + 1, t - a)
           z == SubSeq(s, (a + d) + 1, t)
<1>1. a <= t /\ a + d \in Nat /\ t - a \in Nat /\ d <= t - a /\ (t - a) - d = t - (a + d)
  OBVIOUS
<1>2. /\ x \in Seq(S) /\ Len(x) = t - a
      /\ \A j \in 1..(t - a) : x[j] = s[a + j]
  BY <1>1, Window
<1>3. /\ z \in Seq(S) /\ Len(z) = t - (a + d)
      /\ \A j \in 1..(t - (a + d)) : z[j] = s[(a + d) + j]
  BY <1>1, Window
<1> HIDE DEF x, z
<1>4. /\ y \in Seq(S) /\ Len(y) = (t - a) - d
      /\ \A j \in 1..((t - a) - d) : y[j] = x[d + j]
  <2>1. t - a <= Len(x) /\ x \in Seq(S)
    BY <1>1, <1>2
  <2> QED
    BY <1>1, <2>1, Window
<1> HIDE DEF y
<1>5. ASSUME NEW j \in 1..Len(y)
      PROVE  y[j] = z[j]
  <2>1. /\ j \in 1..((t - a) - d) /\ j \in 1..(t - (a + d)) /\ d + j \in 1..(t - a)
        /\ a + (d + j) = (a + d) + j
    BY <1>1, <1>4
  <2>2. y[j] = x[d + j]
    BY <1>4, <2>1
  <2>3. x[d + j] = s[a + (d + j)]
    BY <1>2, <2>1
  <2>4. z[j] = s[(a + d) + j]
    BY <1>3, <2>1
  <2> QED
    BY <2>1, <2>2, <2>3, <2>4
<1>6. Len(y) = Len(z) /\ y \in Seq(S) /\ z \in Seq(S)
  BY <1>1, <1>3, <1>4
<1>7. y = z
  BY <1>5, <1>6, SameSequence
<1> QED
  BY <1>7 DEF x, y, z

-----------------------------------------------------------------------------
(* TypeOK is inductive.                                                     *)

LEMMA TypeInit == Init => TypeOK
<1> SUFFICES ASSUME Init
             PROVE  TypeOK
  OBVIOUS
<1>1. /\ pc = "connect" /\ response \in Responses /\ sent = 0 /\ taken = 0 /\ conn = "open"
      /\ polling = FALSE /\ stash = <<>> /\ code = -1 /\ length = 0 /\ chunk = 0 /\ body = <<>>
  BY DEF Init
<1>2. Len(Stream(response)) \in Nat
  BY <1>1, HeaderKinds, StreamLaidOut
<1>3. stash \in Seq(Units) /\ Len(stash) = 0 /\ body \in Seq(Nat)
  BY <1>1
<1>4. stash = SubSeq(Stream(response), taken - Len(stash) + 1, taken)
  <2>1. taken - Len(stash) + 1 = 1 /\ 0 < 1 /\ 0 \in Int /\ 1 \in Int
    BY <1>1, <1>3
  <2>2. SubSeq(Stream(response), 1, 0) = <<>>
    BY <2>1, SubSeqEmpty
  <2> QED
    BY <1>1, <2>1, <2>2
<1>5. /\ sent \in 0..Len(Stream(response)) /\ taken \in 0..sent /\ Len(stash) <= taken
      /\ pc \in Stages /\ code \in {-1, 0, 200} /\ length \in Nat /\ chunk \in Nat
      /\ conn \in {"open", "eof", "reset"} /\ polling \in BOOLEAN
  <2>1. sent \in 0..Len(Stream(response)) /\ taken \in 0..sent /\ Len(stash) <= taken
    BY <1>1, <1>2, <1>3
  <2>2. pc \in Stages /\ conn \in {"open", "eof", "reset"} /\ polling \in BOOLEAN
    BY <1>1 DEF Stages
  <2>3. code \in {-1, 0, 200} /\ length \in Nat /\ chunk \in Nat
    BY <1>1
  <2> QED
    BY <2>1, <2>2, <2>3
<1> QED
  BY <1>1, <1>3, <1>4, <1>5 DEF TypeOK

\* The stream of the response, and how much of it is sent and read.
LEMMA Streamed ==
    ASSUME TypeOK
    PROVE  /\ response \in Responses /\ Stream(response) \in Seq(Units)
           /\ Len(Stream(response)) \in Nat /\ sent \in Nat /\ sent <= Len(Stream(response))
           /\ taken \in Nat /\ taken <= sent
<1>1. response \in Responses
  BY DEF TypeOK
<1>2. Stream(response) \in Seq(Units)
  BY <1>1, StreamLaidOut
<1>3. Len(Stream(response)) \in Nat
  BY <1>2
<1> QED
  BY <1>1, <1>2, <1>3 DEF TypeOK

\* What the stash holds.
LEMMA Stashed ==
    ASSUME TypeOK
    PROVE  /\ stash \in Seq(Units) /\ Len(stash) \in Nat /\ taken - Len(stash) \in Nat
           /\ stash = SubSeq(Stream(response), (taken - Len(stash)) + 1, taken)
           /\ \A j \in 1..Len(stash) : stash[j] = Stream(response)[(taken - Len(stash)) + j]
<1> DEFINE S == Stream(response)
           a == taken - Len(stash)
<1>1. S \in Seq(Units) /\ taken \in Nat /\ taken <= Len(S)
  BY Streamed
<1>2. /\ stash \in Seq(Units) /\ Len(stash) \in Nat /\ Len(stash) <= taken
  <2>1. stash \in Seq(Units) /\ Len(stash) <= taken
    BY DEF TypeOK
  <2> QED
    BY <2>1
<1>3. a \in Nat /\ a <= taken /\ taken - a = Len(stash)
  BY <1>1, <1>2
<1>4. stash = SubSeq(S, a + 1, taken)
  BY DEF TypeOK
<1> HIDE DEF a, S
<1>5. \A j \in 1..(taken - a) : SubSeq(S, a + 1, taken)[j] = S[a + j]
  BY <1>1, <1>3, Window
<1> QED
  BY <1>2, <1>3, <1>4, <1>5 DEF a, S

\* One read_some and what it delivers.
Read(units) == \E n \in 1..(sent - taken) : units = Arrived(n) /\ Received(n)

\* What a read delivers: the units that follow.
LEMMA Delivered ==
    ASSUME TypeOK, NEW units, Read(units)
    PROVE  /\ units \in Seq(Units) /\ Len(units) \in Nat
           /\ taken' = taken + Len(units) /\ taken' \in Nat /\ taken < taken' /\ taken' <= sent
           /\ polling' = FALSE /\ Readable
           /\ units = SubSeq(Stream(response), taken + 1, taken')
           /\ \A j \in 1..Len(units) : units[j] = Stream(response)[taken + j]
<1> DEFINE S == Stream(response)
<1>1. S \in Seq(Units) /\ taken \in Nat /\ sent \in Nat /\ sent <= Len(S)
  BY Streamed
<1>2. PICK n \in 1..(sent - taken) : units = SubSeq(S, taken + 1, taken + n) /\ Received(n)
  BY DEF Read, Arrived
<1> DEFINE upto == taken + n
<1> HIDE DEF S
<1>3. upto \in Nat /\ taken <= upto /\ upto <= Len(S) /\ taken < upto /\ upto <= sent
  <2>1. Len(S) \in Nat
    BY <1>1
  <2> QED
    BY <1>1, <2>1
<1>4. /\ units \in Seq(Units) /\ Len(units) = upto - taken
      /\ \A j \in 1..(upto - taken) : units[j] = S[taken + j]
  BY <1>1, <1>2, <1>3, Window
<1>5. taken' = taken + Len(units) /\ polling' = FALSE /\ Readable
  BY <1>1, <1>2, <1>4 DEF Received
<1>6. taken' = upto
  BY <1>1, <1>3, <1>4, <1>5
<1>7. Len(units) \in Nat /\ taken' \in Nat /\ taken < taken' /\ taken' <= sent
  BY <1>1, <1>3, <1>4, <1>6
<1>8. \A j \in 1..Len(units) : units[j] = S[taken + j]
  BY <1>4
<1> QED
  BY <1>2, <1>4, <1>5, <1>6, <1>7, <1>8 DEF S

\* The stash after a read.
LEMMA StashGrows ==
    ASSUME TypeOK, NEW units, Read(units), NEW x, x = stash \o units
    PROVE  /\ x \in Seq(Units) /\ Len(x) = Len(stash) + Len(units)
           /\ Len(x) \in Nat /\ Len(x) <= taken' /\ taken' - Len(x) = taken - Len(stash)
           /\ x = SubSeq(Stream(response), taken' - Len(x) + 1, taken')
<1> DEFINE S == Stream(response)
           a == taken - Len(stash)
<1>1. S \in Seq(Units) /\ taken \in Nat /\ sent \in Nat /\ sent <= Len(S)
  BY Streamed
<1>2. stash \in Seq(Units) /\ Len(stash) \in Nat /\ a \in Nat /\ stash = SubSeq(S, a + 1, taken)
  BY Stashed
<1>3. /\ units \in Seq(Units) /\ Len(units) \in Nat /\ units = SubSeq(S, taken + 1, taken')
      /\ taken' = taken + Len(units) /\ taken' \in Nat /\ taken < taken' /\ taken' <= sent
  BY Delivered
<1>4. a <= taken /\ taken <= taken' /\ taken' <= Len(S)
  <2>1. Len(S) \in Nat
    BY <1>1
  <2>2. \A u, v \in Nat : u - v <= u
    OBVIOUS
  <2>3. a <= taken
    BY <1>1, <1>2, <2>2
  <2>4. taken <= taken' /\ taken' <= Len(S)
    <3>1. \A x1, x2, x3, x4 \in Nat : x1 < x2 /\ x2 <= x3 /\ x3 <= x4 => x1 <= x2 /\ x2 <= x4
      OBVIOUS
    <3> QED
      BY <1>1, <1>3, <2>1, <3>1
  <2> QED
    BY <2>3, <2>4
<1>5. x \in Seq(Units) /\ Len(x) = Len(stash) + Len(units)
  BY <1>2, <1>3, Behind
<1>6. taken' - Len(x) = a /\ Len(x) <= taken' /\ Len(x) \in Nat
  <2>1. \A p, q, u \in Nat : p - q \in Nat => /\ (p + u) - (q + u) = p - q
                                             /\ q + u <= p + u /\ q + u \in Nat
    OBVIOUS
  <2>2. taken \in Nat /\ Len(stash) \in Nat /\ Len(units) \in Nat /\ taken - Len(stash) \in Nat
    BY <1>1, <1>2, <1>3
  <2>3. taken' = taken + Len(units) /\ Len(x) = Len(stash) + Len(units)
    BY <1>3, <1>5
  <2> QED
    BY <2>1, <2>2, <2>3
<1> HIDE DEF a, S
<1>7. x = SubSeq(S, a + 1, taken')
  <2>1. /\ S \in Seq(Units) /\ a \in Nat /\ taken \in Nat /\ taken' \in Nat
        /\ a <= taken /\ taken <= taken' /\ taken' <= Len(S)
    BY <1>1, <1>2, <1>3, <1>4
  <2>2. SubSeq(S, a + 1, taken) \o SubSeq(S, taken + 1, taken') = SubSeq(S, a + 1, taken')
    BY <2>1, WindowGrows
  <2> QED
    BY <1>2, <1>3, <2>2
<1> QED
  BY <1>5, <1>6, <1>7 DEF a, S

\* The stash after d units of it have been consumed.
LEMMA StashShrinks ==
    ASSUME TypeOK, NEW d \in 0..Len(stash), NEW x, x = SubSeq(stash, d + 1, Len(stash))
    PROVE  /\ x \in Seq(Units) /\ Len(x) = Len(stash) - d
           /\ Len(x) \in Nat /\ Len(x) <= taken /\ taken - Len(x) = (taken - Len(stash)) + d
           /\ x = SubSeq(Stream(response), taken - Len(x) + 1, taken)
<1> DEFINE S == Stream(response)
           a == taken - Len(stash)
<1>1. S \in Seq(Units) /\ taken \in Nat /\ taken <= Len(S)
  BY Streamed
<1>2. stash \in Seq(Units) /\ Len(stash) \in Nat /\ a \in Nat /\ stash = SubSeq(S, a + 1, taken)
  BY Stashed
<1>3. d \in Nat /\ d <= Len(stash) /\ taken - a = Len(stash) /\ a + d <= taken
  BY <1>1, <1>2
<1>4. x \in Seq(Units) /\ Len(x) = Len(stash) - d
  <2>1. stash \in Seq(Units) /\ Len(stash) \in Nat /\ Len(stash) <= Len(stash)
    BY <1>2
  <2> QED
    BY <1>3, <2>1, Window
<1>5. taken - Len(x) = a + d /\ Len(x) <= taken /\ Len(x) \in Nat
  <2>1. \A p, q, e \in Nat : p - q \in Nat /\ e <= q => /\ p - (q - e) = (p - q) + e
                                                   /\ q - e <= p /\ q - e \in Nat
    OBVIOUS
  <2>2. taken \in Nat /\ Len(stash) \in Nat /\ taken - Len(stash) \in Nat
    BY <1>1, <1>2
  <2>3. d \in Nat /\ d <= Len(stash)
    BY <1>3
  <2>4. /\ taken - (Len(stash) - d) = (taken - Len(stash)) + d
        /\ Len(stash) - d <= taken /\ Len(stash) - d \in Nat
    BY <2>1, <2>2, <2>3
  <2> QED
    BY <1>4, <2>4
<1> HIDE DEF a, S
<1>6. SubSeq(SubSeq(S, a + 1, taken), d + 1, taken - a) = SubSeq(S, (a + d) + 1, taken)
  BY <1>1, <1>2, <1>3, WindowShrinks
<1>7. x = SubSeq(S, (a + d) + 1, taken)
  BY <1>2, <1>3, <1>6
<1> QED
  BY <1>4, <1>5, <1>7 DEF a, S

\* The numbers of a sequence of units.
LEMMA NumbersTyped ==
    ASSUME NEW units \in Seq(Units)
    PROVE  /\ Numbers(units) \in Seq(Nat) /\ Len(Numbers(units)) = Len(units)
           /\ \A j \in 1..Len(units) : Numbers(units)[j] = units[j].n
<1>1. Len(units) \in Nat
  OBVIOUS
<1>2. \A j \in 1..Len(units) : units[j] \in Units
  BY ElementOfSeq
<1>3. \A j \in 1..Len(units) : units[j].n \in Nat
  BY <1>2 DEF Units
<1>4. Numbers(units) = [j \in 1..Len(units) |-> units[j].n]
  BY DEF Numbers
<1> QED
  BY <1>1, <1>3, <1>4

\* Cutting a sequence to a length keeps its first elements.
LEMMA FirstTyped ==
    ASSUME NEW S, NEW s \in Seq(S), NEW count \in Nat
    PROVE  /\ FirstOf(s, count) \in Seq(S)
           /\ Len(FirstOf(s, count)) = IF count < Len(s) THEN count ELSE Len(s)
           /\ \A j \in 1..Len(FirstOf(s, count)) : FirstOf(s, count)[j] = s[j]
<1> DEFINE m == IF count < Len(s) THEN count ELSE Len(s)
<1>1. Len(s) \in Nat
  OBVIOUS
<1>2. 0 \in Nat /\ m \in Nat /\ 0 <= m /\ m <= Len(s) /\ m - 0 = m /\ 0 + 1 = 1
  BY <1>1
<1>3. FirstOf(s, count) = SubSeq(s, 1, m)
  BY DEF FirstOf
<1> HIDE DEF m
<1>4. /\ SubSeq(s, 0 + 1, m) \in Seq(S) /\ Len(SubSeq(s, 0 + 1, m)) = m - 0
      /\ \A j \in 1..(m - 0) : SubSeq(s, 0 + 1, m)[j] = s[0 + j]
  BY <1>2, Window
<1>5. \A j \in 1..m : 0 + j = j
  BY <1>2
<1>6. \A j \in 1..m : SubSeq(s, 1, m)[j] = s[j]
  BY <1>2, <1>4, <1>5
<1> QED
  BY <1>2, <1>3, <1>4, <1>6 DEF m

\* Emptying the stash leaves an empty window at the last unit read.
LEMMA EmptyStash ==
    ASSUME TypeOK
    PROVE  /\ <<>> \in Seq(Units) /\ Len(<<>>) = 0
           /\ <<>> = SubSeq(Stream(response), taken - 0 + 1, taken)
<1>1. taken \in Nat
  BY Streamed
<1>2. taken - 0 + 1 \in Int /\ taken \in Int /\ taken < taken - 0 + 1
  BY <1>1
<1> QED
  BY <1>2, SubSeqEmpty

\* The smallest member of a set of numbers.
LEMMA SmallestOf ==
    ASSUME NEW A, A # {}, A \subseteq Nat
    PROVE  Min(A) \in A /\ \A y \in A : Min(A) <= y
<1>1. \E x \in A : \A y \in A : x <= y
  BY SmallestNumber
<1> QED
  BY <1>1 DEF Min

\* What try_get_line returns, and what it leaves.
LEMMA FirstLineIs ==
    ASSUME TypeOK, HasLine
    PROVE  /\ FirstEnd \in Nat /\ FirstEnd >= 1 /\ FirstEnd + 1 \in 0..Len(stash)
           /\ stash[FirstEnd].kind = "cr" /\ stash[FirstEnd + 1].kind = "lf"
           /\ AfterLine = SubSeq(stash, (FirstEnd + 1) + 1, Len(stash))
           /\ FirstLine \in Seq(Units) /\ Len(FirstLine) = FirstEnd - 1
           /\ \A j \in 1..(FirstEnd - 1) : FirstLine[j] = stash[j]
<1>1. stash \in Seq(Units) /\ Len(stash) \in Nat
  BY Stashed
<1>2. LineEnds(stash) # {} /\ LineEnds(stash) \subseteq Nat
  BY <1>1 DEF HasLine, LineEnds
<1>3. FirstEnd \in LineEnds(stash)
  BY <1>2, SmallestOf DEF FirstEnd
<1>4. FirstEnd \in 1..Len(stash) - 1 /\ stash[FirstEnd].kind = "cr" /\ stash[FirstEnd + 1].kind = "lf"
  BY <1>3 DEF LineEnds
<1>5. /\ FirstEnd \in Nat /\ FirstEnd >= 1 /\ FirstEnd + 1 \in 0..Len(stash)
      /\ (FirstEnd + 1) + 1 = FirstEnd + 2
      /\ FirstEnd - 1 \in Nat /\ 0 <= FirstEnd - 1 /\ FirstEnd - 1 <= Len(stash)
  BY <1>1, <1>4
<1> DEFINE m == FirstEnd - 1
<1>6. AfterLine = SubSeq(stash, (FirstEnd + 1) + 1, Len(stash))
  BY <1>5 DEF AfterLine
<1>7. FirstLine = SubSeq(stash, 1, m)
  BY DEF FirstLine
<1> HIDE DEF m
<1>8. m \in Nat /\ 0 \in Nat /\ 0 <= m /\ m <= Len(stash) /\ 0 + 1 = 1 /\ m - 0 = m
  BY <1>5 DEF m
<1>9. /\ SubSeq(stash, 0 + 1, m) \in Seq(Units) /\ Len(SubSeq(stash, 0 + 1, m)) = m - 0
      /\ \A j \in 1..(m - 0) : SubSeq(stash, 0 + 1, m)[j] = stash[0 + j]
  BY <1>1, <1>8, Window
<1>10. \A j \in 1..m : 0 + j = j
  BY <1>8
<1>11. /\ FirstLine \in Seq(Units) /\ Len(FirstLine) = m
       /\ \A j \in 1..m : FirstLine[j] = stash[j]
  BY <1>7, <1>8, <1>9, <1>10
<1> QED
  BY <1>4, <1>5, <1>6, <1>11 DEF m

\* A line ends with the first CRLF.
LEMMA FirstEndIs ==
    ASSUME TypeOK, NEW k \in Nat, 1 <= k, k + 1 <= Len(stash),
           stash[k].kind = "cr", stash[k + 1].kind = "lf",
           \A j \in 1..(k - 1) : stash[j].kind # "cr"
    PROVE  HasLine /\ FirstEnd = k
<1>1. Len(stash) \in Nat
  BY Stashed
<1>2. k \in LineEnds(stash)
  BY <1>1 DEF LineEnds
<1>3. LineEnds(stash) # {} /\ LineEnds(stash) \subseteq Nat
  <2>1. LineEnds(stash) \subseteq Nat
    BY <1>1 DEF LineEnds
  <2> QED
    BY <1>2, <2>1
<1>4. FirstEnd \in LineEnds(stash) /\ FirstEnd <= k
  BY <1>2, <1>3, SmallestOf DEF FirstEnd
<1>5. FirstEnd \in 1..Len(stash) - 1 /\ stash[FirstEnd].kind = "cr"
  BY <1>4 DEF LineEnds
<1>6. ~(FirstEnd \in 1..(k - 1))
  BY <1>5
<1>7. FirstEnd = k
  BY <1>1, <1>4, <1>5, <1>6
<1> QED
  BY <1>3, <1>7 DEF HasLine

\* The header ends with the first empty line, or where the stash does.
LEMMA HeaderCutOut ==
    ASSUME TypeOK
    PROVE  \E k \in 0..Len(stash) :
             /\ HeaderPart \in Seq(Units) /\ Len(HeaderPart) = k
             /\ \A j \in 1..k : HeaderPart[j] = stash[j]
             /\ HeaderEnds(stash) = {} => k = Len(stash)
             /\ HeaderEnds(stash) # {} => k = Min(HeaderEnds(stash)) + 3
<1>1. stash \in Seq(Units) /\ Len(stash) \in Nat
  BY Stashed
<1>2. CASE HeaderEnds(stash) # {}
  <2> DEFINE m == Min(HeaderEnds(stash))
             k == m + 3
  <2>1. HeaderEnds(stash) \subseteq Nat
    BY <1>1 DEF HeaderEnds, LineEnds
  <2>2. m \in HeaderEnds(stash)
    BY <1>2, <2>1, SmallestOf
  <2>3. m \in 1..Len(stash) - 1 /\ m + 2 \in 1..Len(stash) - 1
    BY <2>2 DEF HeaderEnds, LineEnds
  <2>4. k \in Nat /\ k <= Len(stash) /\ k \in 0..Len(stash)
    <3> HIDE DEF m
    <3> QED
      BY <1>1, <2>3
  <2>5. HeaderPart = FirstOf(stash, k)
    BY <1>2 DEF HeaderPart
  <2>6. k = Min(HeaderEnds(stash)) + 3
    OBVIOUS
  <2> HIDE DEF k
  <2>7. /\ FirstOf(stash, k) \in Seq(Units)
        /\ Len(FirstOf(stash, k)) = IF k < Len(stash) THEN k ELSE Len(stash)
        /\ \A j \in 1..Len(FirstOf(stash, k)) : FirstOf(stash, k)[j] = stash[j]
    BY <1>1, <2>4, FirstTyped
  <2>8. Len(FirstOf(stash, k)) = k
    BY <1>1, <2>4, <2>7
  <2> QED
    BY <1>2, <2>4, <2>5, <2>6, <2>7, <2>8
<1>3. CASE HeaderEnds(stash) = {}
  <2>1. HeaderPart = stash
    BY <1>3 DEF HeaderPart
  <2>2. Len(stash) \in 0..Len(stash)
    BY <1>1
  <2> QED
    BY <1>1, <1>3, <2>1, <2>2
<1> QED
  BY <1>2, <1>3

\* The length the header announces, when at most one field announces one.
LEMMA MaxOfOne ==
    ASSUME NEW v \in Nat, NEW A, A \subseteq {v}
    PROVE  Max(A \cup {0}) = IF A = {} THEN 0 ELSE v
<1>1. CASE A = {}
  <2>1. A \cup {0} = {0}
    BY <1>1
  <2>2. Max({0}) \in {0}
    <3>1. 0 \in {0} /\ (\A y \in {0} : 0 >= y)
      OBVIOUS
    <3> QED
      BY <3>1 DEF Max
  <2> QED
    BY <1>1, <2>1, <2>2
<1>2. CASE A # {}
  <2>1. A \cup {0} = {v, 0}
    BY <1>2
  <2>2. v \in {v, 0} /\ (\A y \in {v, 0} : v >= y)
    OBVIOUS
  <2>3. Max({v, 0}) \in {v, 0} /\ (\A y \in {v, 0} : Max({v, 0}) >= y)
    BY <2>2 DEF Max
  <2>4. Max({v, 0}) >= v /\ Max({v, 0}) \in {v, 0}
    BY <2>3
  <2>5. Max({v, 0}) = v
    BY <2>4
  <2> QED
    BY <1>2, <2>1, <2>5
<1> QED
  BY <1>1, <1>2

\* The header fields that have been read.
LEMMA AnnouncedIs ==
    ASSUME TypeOK
    PROVE  /\ Announced("status") \subseteq {200}
           /\ Announced("length") \subseteq {Total(response.body)}
           /\ Announced("length") # {} => response.framing = "length"
           /\ Announced("chunked") # {} => response.framing = "chunked"
<1> DEFINE S == Stream(response)
           a == taken - Len(stash)
<1>1. /\ Len(stash) \in Nat /\ a \in Nat /\ taken \in Nat /\ Len(S) \in Nat /\ taken <= Len(S)
      /\ \A j \in 1..Len(stash) : stash[j] = S[a + j]
  <2>1. sent \in Nat /\ taken \in Nat /\ Len(S) \in Nat /\ taken <= sent /\ sent <= Len(S)
    BY Streamed
  <2>2. /\ Len(stash) \in Nat /\ a \in Nat
        /\ \A j \in 1..Len(stash) : stash[j] = S[a + j]
    BY Stashed
  <2>3. taken <= Len(S)
    BY <2>1
  <2> QED
    BY <2>1, <2>2, <2>3
<1>2. PICK k \in 0..Len(stash) :
        Len(HeaderPart) = k /\ (\A j \in 1..k : HeaderPart[j] = stash[j])
  BY HeaderCutOut
<1>3. ASSUME NEW j \in 1..Len(HeaderPart)
      PROVE  a + j \in 1..Len(S) /\ HeaderPart[j] = S[a + j]
  <2>1. j \in 1..k /\ j \in 1..Len(stash)
    BY <1>1, <1>2
  <2>2. a + Len(stash) = taken
    BY <1>1
  <2>3. a + j \in 1..Len(S)
    <3>1. \A x, y, z, w \in Nat : j \in 1..y /\ x + y = z /\ z <= w => x + j \in 1..w
      OBVIOUS
    <3> QED
      BY <1>1, <2>1, <2>2, <3>1
  <2> QED
    BY <1>1, <1>2, <2>1, <2>3
<1> HIDE DEF a, S
<1>4. \A p \in 1..Len(S) :
        /\ S[p].kind = "status" => S[p].n = 200
        /\ S[p].kind = "length" => response.framing = "length" /\ S[p].n = Total(response.body)
        /\ S[p].kind = "chunked" => response.framing = "chunked"
  BY Streamed, HeaderKinds DEF S
<1>5. \A j \in 1..Len(HeaderPart) :
        /\ HeaderPart[j].kind = "status" => HeaderPart[j].n = 200
        /\ HeaderPart[j].kind = "length" => /\ response.framing = "length"
                                            /\ HeaderPart[j].n = Total(response.body)
        /\ HeaderPart[j].kind = "chunked" => response.framing = "chunked"
  BY <1>3, <1>4
<1> QED
  BY <1>5 DEF Announced

\* What a reader leaves in the stash is the window that ends at the last unit read.
LEMMA LeftoverIs ==
    ASSUME TypeOK
    PROVE  /\ Leftover \in Seq(Units)
           /\ Len(Leftover) \in Nat /\ Len(Leftover) <= taken
           /\ Leftover = SubSeq(Stream(response), taken - Len(Leftover) + 1, taken)
<1>1. PICK k \in 0..Len(stash) : Len(HeaderPart) = k
  BY HeaderCutOut
<1>2. Leftover = SubSeq(stash, k + 1, Len(stash))
  BY <1>1 DEF Leftover
<1> QED
  BY <1>2, StashShrinks

\* A size line gives a number.
LEMMA SizeTyped ==
    ASSUME NEW line \in Seq(Units), line # <<>>
    PROVE  SizeOf(line) \in Nat
<1>1. Len(line) \in Nat /\ Len(line) # 0
  BY EmptySeq
<1>2. 1 \in 1..Len(line) /\ Len(line) \in 1..Len(line)
  BY <1>1
<1>3. line[1] \in Units /\ line[Len(line)] \in Units
  BY <1>2, ElementOfSeq
<1>4. line[1].n \in Nat /\ line[Len(line)].n \in Nat
  BY <1>3 DEF Units
<1>5. \A x, y \in Nat : 16 * x + y \in Nat /\ 16 * 0 + y \in Nat
  OBVIOUS
<1>6. CASE Len(line) = 1
  BY <1>4, <1>5, <1>6 DEF SizeOf
<1>7. CASE Len(line) # 1
  BY <1>4, <1>5, <1>7 DEF SizeOf
<1> QED
  BY <1>6, <1>7

\* A body that is read to a length or to the end of the stream has no stash.
NoStash == pc \in {"counted", "to_eof"} => stash = <<>>

LEMMA TypeStep == TypeOK /\ NoStash /\ [Next]_vars => TypeOK'
<1> SUFFICES ASSUME TypeOK, NoStash, [Next]_vars
             PROVE  TypeOK'
  OBVIOUS
<1> DEFINE StashOK == /\ stash \in Seq(Units) /\ Len(stash) <= taken
                      /\ stash = SubSeq(Stream(response), taken - Len(stash) + 1, taken)
           NumbersOK == code \in {-1, 0, 200} /\ length \in Nat /\ chunk \in Nat
           WireOK == /\ sent \in 0..Len(Stream(response)) /\ taken \in 0..sent
                     /\ conn \in {"open", "eof", "reset"}
<1>1. /\ pc \in Stages /\ response \in Responses /\ polling \in BOOLEAN /\ body \in Seq(Nat)
      /\ StashOK /\ NumbersOK /\ WireOK
  BY DEF TypeOK
<1>2. /\ response \in Responses /\ Len(Stream(response)) \in Nat /\ sent \in Nat
      /\ taken \in Nat /\ taken <= sent /\ sent <= Len(Stream(response))
  BY Streamed
<1>q. ASSUME pc' \in Stages, response' = response, polling' \in BOOLEAN, body' \in Seq(Nat),
             StashOK', NumbersOK', WireOK'
      PROVE  TypeOK'
  BY <1>1, <1>q DEF TypeOK
<1>s. UNCHANGED <<response, taken, stash>> => StashOK'
  BY <1>1
<1>e. UNCHANGED <<response, taken>> /\ stash' = <<>> => StashOK'
  BY <1>2, EmptyStash
<1>d. ASSUME UNCHANGED <<response, taken>>,
             NEW d \in 0..Len(stash), stash' = SubSeq(stash, d + 1, Len(stash))
      PROVE  StashOK'
  BY <1>d, StashShrinks
<1>n. UNCHANGED parsed => NumbersOK'
  BY <1>1 DEF parsed
<1>w. UNCHANGED <<server, taken>> => WireOK' /\ response' = response
  BY <1>1 DEF server
<1>r. ASSUME NEW units, Read(units), UNCHANGED server
      PROVE  /\ WireOK' /\ response' = response /\ polling' \in BOOLEAN
             /\ units \in Seq(Units)
             /\ (stash' = stash \o units => StashOK')
             /\ (stash = <<>> /\ stash' = stash => StashOK')
  <2>1. taken' \in Nat /\ taken' <= sent /\ polling' = FALSE /\ units \in Seq(Units)
    BY <1>r, Delivered
  <2>2. WireOK' /\ response' = response
    BY <1>1, <1>2, <1>r, <2>1 DEF server
  <2>3. ASSUME stash' = stash \o units
        PROVE  StashOK'
    BY <1>r, <2>2, <2>3, StashGrows
  <2>4. ASSUME stash = <<>>, stash' = stash
        PROVE  StashOK'
    <3>1. taken' - 0 + 1 \in Int /\ taken' \in Int /\ taken' < taken' - 0 + 1
      <4>1. \A x \in Nat : x - 0 + 1 \in Int /\ x \in Int /\ x < x - 0 + 1
        OBVIOUS
      <4> QED
        BY <2>1, <4>1
    <3>2. SubSeq(Stream(response), taken' - 0 + 1, taken') = <<>>
      BY <3>1, SubSeqEmpty
    <3>3. stash' = <<>> /\ Len(<<>>) = 0 /\ <<>> \in Seq(Units)
      BY <2>4
    <3>4. Len(stash') = 0 /\ 0 <= taken'
      BY <2>1, <3>3
    <3>5. stash' = SubSeq(Stream(response'), taken' - Len(stash') + 1, taken')
      BY <2>2, <3>2, <3>3, <3>4
    <3>6. stash' \in Seq(Units) /\ Len(stash') <= taken'
      BY <3>3, <3>4
    <3> QED
      BY <3>5, <3>6
  <2> QED
    BY <2>1, <2>2, <2>3, <2>4
<1> HIDE DEF StashOK, NumbersOK, WireOK
<1>3. CASE UNCHANGED vars
  BY <1>1, <1>3, <1>q, <1>s, <1>n, <1>w DEF vars, server
<1>4. CASE ServerSends
  <2>1. WireOK'
    <3>1. sent' \in 0..Len(Stream(response)) /\ taken \in 0..sent'
      BY <1>2, <1>4 DEF ServerSends
    <3> QED
      BY <1>1, <1>4, <3>1 DEF ServerSends, WireOK
  <2> QED
    BY <1>1, <1>4, <2>1, <1>q, <1>s, <1>n DEF ServerSends
<1>5. CASE ServerCloses
  <2>1. WireOK'
    BY <1>1, <1>5 DEF ServerCloses, WireOK
  <2> QED
    BY <1>1, <1>5, <2>1, <1>q, <1>s, <1>n DEF ServerCloses
<1>6. CASE Connect
  <2>1. pc' \in Stages
    BY <1>6 DEF Connect, Stages
  <2> QED
    BY <1>1, <1>6, <2>1, <1>q, <1>s, <1>n, <1>w DEF Connect, server
<1>7. CASE read_response_header
  <2>1. PICK units : Read(units) /\ stash' = stash \o units
    BY <1>7 DEF read_response_header, Read
  <2>2. pc' \in Stages
    BY <1>7 DEF read_response_header, Stages
  <2>3. UNCHANGED <<server, parsed, body>>
    BY <1>7, <2>1 DEF read_response_header
  <2> QED
    BY <1>1, <2>1, <2>2, <2>3, <1>q, <1>r, <1>n
<1>8. CASE HeaderCut
  <2>1. pc' \in Stages
    BY <1>8 DEF HeaderCut, Stages
  <2> QED
    BY <1>1, <1>8, <2>1, <1>q, <1>s, <1>n, <1>w DEF HeaderCut, server
<1>9. CASE parse_response_header
  <2> DEFINE announced == Max(Announced("length") \cup {0})
             reader == Framing(announced)
  <2>1. /\ code' = Max(Announced("status") \cup {0})
        /\ length' = announced
        /\ pc' = reader
        /\ stash' = IF reader = "size" THEN Leftover ELSE <<>>
        /\ body' = CASE reader = "size"    -> <<>>
                     [] reader = "counted" -> FirstOf(Numbers(Leftover), announced)
                     [] reader = "to_eof"  -> Numbers(Leftover)
        /\ UNCHANGED <<server, taken, polling, chunk>>
    BY <1>9 DEF parse_response_header
  <2>2. announced \in Nat
    <3>1. Total(response.body) \in Nat
      BY <1>2, Summed
    <3> QED
      BY <3>1, AnnouncedIs, MaxOfOne
  <2>3. code' \in {-1, 0, 200}
    <3>1. Max(Announced("status") \cup {0}) \in {0, 200}
      BY AnnouncedIs, MaxOfOne
    <3> QED
      BY <2>1, <3>1
  <2> HIDE DEF announced
  <2>4. reader \in {"size", "counted", "to_eof"}
    BY DEF Framing
  <2> HIDE DEF reader
  <2>5. Numbers(Leftover) \in Seq(Nat)
    BY LeftoverIs, NumbersTyped
  <2>6. FirstOf(Numbers(Leftover), announced) \in Seq(Nat)
    BY <2>2, <2>5, FirstTyped
  <2>7. body' \in Seq(Nat)
    <3>1. <<>> \in Seq(Nat)
      OBVIOUS
    <3>2. CASE reader = "size"
      BY <2>1, <3>1, <3>2
    <3>3. CASE reader = "counted"
      BY <2>1, <2>6, <3>3
    <3>4. CASE reader = "to_eof"
      BY <2>1, <2>5, <3>4
    <3> QED
      BY <2>4, <3>2, <3>3, <3>4
  <2>8. pc' \in Stages
    BY <2>1, <2>4 DEF Stages
  <2>9. NumbersOK'
    BY <1>1, <2>1, <2>2, <2>3 DEF NumbersOK
  <2>10. StashOK'
    <3>1. UNCHANGED <<response, taken>>
      BY <2>1 DEF server
    <3>2. CASE reader = "size"
      <4>1. stash' = Leftover
        BY <2>1, <3>2
      <4> QED
        BY <3>1, <4>1, LeftoverIs DEF StashOK
    <3>3. CASE reader # "size"
      BY <1>e, <2>1, <3>1, <3>3
    <3> QED
      BY <3>2, <3>3
  <2> QED
    BY <1>1, <1>q, <1>w, <2>1, <2>7, <2>8, <2>9, <2>10
<1>10. CASE ReadCounted
  <2>1. PICK units : Read(units) /\ body' = body \o Needed(units)
    BY <1>10 DEF ReadCounted, Read
  <2>2. UNCHANGED <<pc, server, stash, parsed>>
    BY <1>10 DEF ReadCounted
  <2>3. stash = <<>> /\ Len(body) < length
    BY <1>10 DEF ReadCounted, MustRead, NoStash
  <2>4. length - Len(body) \in Nat
    <3>1. Len(body) \in Nat /\ length \in Nat
      BY <1>1 DEF NumbersOK
    <3> QED
      BY <2>3, <3>1
  <2>5. units \in Seq(Units)
    BY <1>r, <2>1, <2>2
  <2>6. Needed(units) \in Seq(Nat)
    BY <2>4, <2>5, NumbersTyped, FirstTyped DEF Needed
  <2>7. body' \in Seq(Nat)
    BY <1>1, <2>1, <2>6
  <2> QED
    BY <1>1, <1>q, <1>r, <1>n, <2>1, <2>2, <2>3, <2>7
<1>11. CASE ReadToEof
  <2>1. PICK units : Read(units) /\ body' = body \o Numbers(units)
    BY <1>11 DEF ReadToEof, Read
  <2>2. UNCHANGED <<pc, server, stash, parsed>>
    BY <1>11 DEF ReadToEof
  <2>3. stash = <<>>
    BY <1>11 DEF ReadToEof, NoStash
  <2>5. units \in Seq(Units)
    BY <1>r, <2>1, <2>2
  <2>6. Numbers(units) \in Seq(Nat)
    BY <2>5, NumbersTyped
  <2>7. body' \in Seq(Nat)
    BY <1>1, <2>1, <2>6
  <2> QED
    BY <1>1, <1>q, <1>r, <1>n, <2>1, <2>2, <2>3, <2>7
<1>12. CASE CountedDone \/ EofDone \/ ChunksCut
  <2>1. pc' = "done" /\ UNCHANGED <<server, taken, polling, stash, parsed, body>>
    BY <1>12 DEF CountedDone, EofDone, ChunksCut
  <2>2. pc' \in Stages
    BY <2>1 DEF Stages
  <2> QED
    BY <1>1, <2>1, <2>2, <1>q, <1>s, <1>n, <1>w DEF server
<1>13. CASE read_more
  <2>1. PICK units : Read(units) /\ stash' = stash \o units
    BY <1>13 DEF read_more, Read
  <2>2. UNCHANGED <<pc, server, parsed, body>>
    BY <1>13 DEF read_more
  <2> QED
    BY <1>1, <2>1, <2>2, <1>q, <1>r, <1>n
<1>14. CASE SizeLine
  <2>1. /\ HasLine /\ stash' = AfterLine
        /\ UNCHANGED <<server, taken, polling, code, length, body>>
    BY <1>14 DEF SizeLine
  <2>2. pc' \in Stages
    BY <1>14 DEF SizeLine, Stages
  <2> DEFINE d == FirstEnd + 1
  <2>3. /\ d \in 0..Len(stash) /\ AfterLine = SubSeq(stash, d + 1, Len(stash))
        /\ FirstLine \in Seq(Units)
    BY <2>1, FirstLineIs
  <2> HIDE DEF d
  <2>4. WellFormed(FirstLine) => SizeOf(FirstLine) \in Nat
    BY <2>3, SizeTyped DEF WellFormed
  <2>5. chunk' = chunk \/ (WellFormed(FirstLine) /\ chunk' = SizeOf(FirstLine))
    BY <1>14 DEF SizeLine
  <2>6. NumbersOK'
    BY <1>1, <2>1, <2>4, <2>5 DEF NumbersOK
  <2>7. StashOK'
    <3>1. UNCHANGED <<response, taken>> /\ stash' = SubSeq(stash, d + 1, Len(stash))
      BY <2>1, <2>3 DEF server
    <3> QED
      BY <1>d, <2>3, <3>1
  <2> QED
    BY <1>1, <1>q, <1>w, <2>1, <2>2, <2>6, <2>7
<1>15. CASE ChunkData
  <2>1. /\ body' = body \o Numbers(SubSeq(stash, 1, chunk)) /\ stash' = AfterChunk
        /\ ~MustRead /\ pc = "data"
        /\ UNCHANGED <<server, taken, polling, parsed>>
    BY <1>15 DEF ChunkData
  <2>2. pc' \in Stages
    BY <1>15 DEF ChunkData, Stages
  <2>3. stash \in Seq(Units) /\ Len(stash) \in Nat /\ chunk \in Nat
    BY <1>1, Stashed DEF NumbersOK
  <2>4. chunk + 2 <= Len(stash)
    BY <2>1, <2>3 DEF MustRead
  <2>5. chunk + 2 \in 0..Len(stash) /\ (chunk + 2) + 1 = chunk + 3 /\ chunk <= Len(stash)
    BY <2>3, <2>4
  <2>6. SubSeq(stash, 0 + 1, chunk) \in Seq(Units)
    BY <2>3, <2>5, Window
  <2>7. Numbers(SubSeq(stash, 1, chunk)) \in Seq(Nat)
    <3>1. 0 + 1 = 1
      OBVIOUS
    <3> QED
      BY <2>6, <3>1, NumbersTyped
  <2>8. body' \in Seq(Nat)
    BY <1>1, <2>1, <2>7
  <2>9. StashOK'
    <3>1. UNCHANGED <<response, taken>> /\ stash' = SubSeq(stash, (chunk + 2) + 1, Len(stash))
      BY <2>1, <2>5 DEF server, AfterChunk
    <3> QED
      BY <1>d, <2>5, <3>1
  <2>10. NumbersOK'
    BY <2>1, <1>n
  <2> QED
    BY <1>1, <1>q, <1>w, <2>1, <2>2, <2>8, <2>9, <2>10
<1>16. CASE TrailerLine
  <2>1. /\ HasLine /\ stash' = AfterLine
        /\ UNCHANGED <<server, taken, polling, parsed, body>>
    BY <1>16 DEF TrailerLine
  <2>2. pc' \in Stages
    BY <1>16 DEF TrailerLine, Stages
  <2> DEFINE d == FirstEnd + 1
  <2>3. d \in 0..Len(stash) /\ AfterLine = SubSeq(stash, d + 1, Len(stash))
    BY <2>1, FirstLineIs
  <2> HIDE DEF d
  <2>4. StashOK'
    <3>1. UNCHANGED <<response, taken>> /\ stash' = SubSeq(stash, d + 1, Len(stash))
      BY <2>1, <2>3 DEF server
    <3> QED
      BY <1>d, <2>3, <3>1
  <2>5. NumbersOK'
    BY <2>1, <1>n
  <2> QED
    BY <1>1, <1>q, <1>w, <2>1, <2>2, <2>4, <2>5
<1>17. CASE TrailerCut \/ Done
  <2>1. UNCHANGED vars
    BY <1>17 DEF TrailerCut, Done
  <2> QED
    BY <2>1, <1>3
<1>18. CASE RecvTimesOut
  BY <1>1, <1>18, <1>q, <1>s, <1>n, <1>w DEF RecvTimesOut, server
<1> QED
  BY <1>3, <1>4, <1>5, <1>6, <1>7, <1>8, <1>9, <1>10, <1>11, <1>12, <1>13, <1>14, <1>15, <1>16,
     <1>17, <1>18 DEF Next, ClientStep

-----------------------------------------------------------------------------
(* Bodies.                                                                  *)

\* The first k bytes of any payload.
Upto(k) == [j \in 1..k |-> j]

\* The first k bytes of the payload are k numbers in order.
LEMMA UptoTyped ==
    ASSUME NEW k \in Nat
    PROVE  /\ Upto(k) \in Seq(Nat) /\ Len(Upto(k)) = k
           /\ \A j \in 1..k : Upto(k)[j] = j
<1>1. \A j \in 1..k : j \in Nat
  OBVIOUS
<1> QED
  BY <1>1 DEF Upto

\* None of them is the empty body.
LEMMA NoByte == Upto(0) = <<>>
<1>1. Upto(0) \in Seq(Nat) /\ Len(Upto(0)) = 0
  BY UptoTyped
<1> QED
  BY <1>1, EmptySeq

\* A body of m bytes, each at its place, is the first m bytes.
LEMMA IsUpto ==
    ASSUME NEW x \in Seq(Nat), NEW m \in Nat, Len(x) = m, \A j \in 1..m : x[j] = j
    PROVE  x = Upto(m)
  BY UptoTyped, SameSequence

\* The next m bytes, appended, give the first k + m.
LEMMA UptoGrows ==
    ASSUME NEW k \in Nat, NEW m \in Nat, NEW x \in Seq(Nat), Len(x) = m,
           \A j \in 1..m : x[j] = k + j
    PROVE  Upto(k) \o x = Upto(k + m)
<1> DEFINE u == Upto(k)
           z == u \o x
<1>1. u \in Seq(Nat) /\ Len(u) = k /\ (\A j \in 1..k : u[j] = j)
  BY UptoTyped
<1> HIDE DEF u
<1>2. /\ z \in Seq(Nat) /\ Len(z) = Len(u) + Len(x)
      /\ \A p \in 1..Len(u) : z[p] = u[p]
      /\ \A p \in 1..Len(x) : z[Len(u) + p] = x[p]
  <2>1. u \in Seq(Nat) /\ x \in Seq(Nat)
    BY <1>1
  <2> QED
    BY ONLY <2>1, Behind DEF z
<1> HIDE DEF z
<1>3. ASSUME NEW j \in 1..(k + m)
      PROVE  z[j] = j
  <2>1. CASE j <= k
    <3>1. j \in 1..k
      BY <2>1
    <3> QED
      BY <1>1, <1>2, <3>1
  <2>2. CASE ~(j <= k)
    <3> DEFINE p == j - k
    <3>1. p \in 1..m /\ k + p = j
      BY <2>2
    <3> HIDE DEF p
    <3>2. z[k + p] = x[p]
      BY <1>1, <1>2, <3>1
    <3>3. x[p] = k + p
      BY <3>1
    <3> QED
      BY <3>1, <3>2, <3>3
  <2> QED
    BY <2>1, <2>2
<1>4. Len(z) = k + m /\ k + m \in Nat
  BY <1>1, <1>2
<1>5. z = Upto(k + m)
  BY <1>2, <1>3, <1>4, IsUpto
<1> QED
  BY <1>5 DEF u, z

\* The lesser of two numbers.
Lesser(a, b) == IF a < b THEN a ELSE b

\* Cutting the first k bytes to t.
LEMMA FirstOfUpto ==
    ASSUME NEW k \in Nat, NEW t \in Nat
    PROVE  FirstOf(Upto(k), t) = Upto(Lesser(t, k))
<1>1. Upto(k) \in Seq(Nat) /\ Len(Upto(k)) = k /\ (\A j \in 1..k : Upto(k)[j] = j)
  BY UptoTyped
<1>2. /\ FirstOf(Upto(k), t) \in Seq(Nat) /\ Len(FirstOf(Upto(k), t)) = Lesser(t, k)
      /\ \A j \in 1..Len(FirstOf(Upto(k), t)) : FirstOf(Upto(k), t)[j] = Upto(k)[j]
  BY <1>1, FirstTyped DEF Lesser
<1>3. Lesser(t, k) \in Nat /\ Lesser(t, k) <= k
  BY DEF Lesser
<1>4. \A j \in 1..Lesser(t, k) : j \in 1..k
  BY <1>3
<1> QED
  BY <1>1, <1>2, <1>3, <1>4, IsUpto

-----------------------------------------------------------------------------
(* The inductive invariant.                                                 *)

\* Before the header is parsed.
Early == {"connect", "header", "parse"}

\* Up to the parsing of the header all that was read is in the stash, and reading
\* goes on until the empty line has come, or nothing more will.
HeaderInv ==
    /\ pc \in Early => Len(stash) = taken /\ body = <<>> /\ code = -1
    /\ pc = "connect" => taken = 0
    /\ pc = "header" => taken < H(response)
    /\ pc = "parse" => (taken >= H(response) \/ Ended)

\* request() threw before a header was read.
Failed == pc = "done" /\ code = -1 /\ body = <<>>

\* The stream ended within the header.
Cut == /\ pc \notin Early
       /\ taken < H(response) /\ Ended
       /\ body = <<>> /\ stash = <<>>

\* The body is what was read after the header, up to the length, if it is read to one.
Counting ==
    /\ pc = "counted" /\ response.framing = "length" /\ Total(response.body) > 0
    /\ length = Total(response.body) /\ taken >= H(response)
    /\ body = Upto(Lesser(length, taken - H(response)))

\* A body without length: everything read after the header is in it.
ToTheEnd ==
    /\ pc = "to_eof" /\ ReadsToEof(response) /\ taken >= H(response)
    /\ body = Upto(taken - H(response))

\* Of a chunked response, the body is the data of the chunks before the place that
\* the stash begins at: a size line, or the data of a chunk.
BetweenChunks ==
    /\ pc = "size" /\ response.framing = "chunked"
    /\ \E i \in 0..Len(response.body) :
         /\ taken - Len(stash) = H(response) + Ends(Sizes(response), i)
         /\ body = Upto(Sizes(response)[i])

\* A size line has been read: the chunk it announces is the next to come.
InChunk ==
    /\ pc = "data" /\ response.framing = "chunked"
    /\ \E i \in 1..Len(response.body) :
         /\ taken - Len(stash) = H(response) + Ends(Sizes(response), i - 1) + 4
         /\ chunk = response.body[i]
         /\ body = Upto(Sizes(response)[i - 1])

\* The size 0 has been read: the payload is complete.
AfterChunks ==
    /\ pc = "trailer" /\ response.framing = "chunked"
    /\ body = Upto(Total(response.body))

\* The most bytes a body can hold: where the end of the stream ends it, the surplus
\* is taken for a part of it.
Most == IF ReadsToEof(response) THEN Total(response.body) + response.extra
                                ELSE Total(response.body)

\* What is returned is whole, or the rest will never come.
Undelivered == conn = "reset" \/ (conn = "eof" /\ sent < Len(Stream(response)))

\* The caller has the first bytes of the payload, all of them if they were delivered.
Returned ==
    /\ pc = "done"
    /\ \E k \in 0..Most : /\ body = Upto(k)
                          /\ (k >= Total(response.body) \/ Undelivered)

\* Where a reader stands, and what the body holds there.
Receiving == \/ Failed \/ Cut \/ Counting \/ ToTheEnd
             \/ BetweenChunks \/ InChunk \/ AfterChunks \/ Returned

\* Every body of a response without a fault is in one of these situations.
BodyInv == response.fault = "none" /\ pc \notin Early => Receiving

\* The inductive invariant.
ClientInv == TypeOK /\ NoStash /\ HeaderInv /\ BodyInv

LEMMA ClientInit == Init => ClientInv
<1> SUFFICES ASSUME Init
             PROVE  ClientInv
  OBVIOUS
<1>1. TypeOK
  BY TypeInit
<1>2. pc = "connect" /\ stash = <<>> /\ taken = 0 /\ body = <<>> /\ code = -1
  BY DEF Init
<1>3. HeaderInv
  <2>1. Len(stash) = taken
    BY <1>2
  <2> QED
    BY <1>2, <2>1 DEF HeaderInv
<1> QED
  BY <1>1, <1>2, <1>3 DEF ClientInv, NoStash, BodyInv, Early

\* The numbers the steps below compute with.
LEMMA Facts ==
    ASSUME TypeOK
    PROVE  /\ H(response) \in Nat /\ H(response) > 0 /\ H(response) <= Len(Stream(response))
           /\ Total(response.body) \in Nat /\ response.extra \in Nat
           /\ Len(response.body) \in Nat /\ Most \in Nat /\ Most >= Total(response.body)
<1>1. response \in Responses /\ Len(Stream(response)) \in Nat
  BY Streamed
<1>2. H(response) \in Nat /\ H(response) >= 5 /\ H(response) <= Len(Stream(response))
  BY <1>1, HeaderKinds
<1>3. Total(response.body) \in Nat /\ response.extra \in Nat /\ Len(response.body) \in Nat
  BY <1>1, Summed, ResponseTyped
<1>4. H(response) \in Nat /\ H(response) > 0 /\ H(response) <= Len(Stream(response))
  BY <1>1, <1>2
<1>5. Most \in Nat /\ Most >= Total(response.body)
  BY <1>3 DEF Most
<1> QED
  BY <1>3, <1>4, <1>5

\* The stash is empty until the header is read, at every step.
LEMMA NoStashStep == NoStash /\ [Next]_vars => NoStash'
<1> SUFFICES ASSUME NoStash, [Next]_vars
             PROVE  NoStash'
  OBVIOUS
<1>1. CASE parse_response_header
  <2> DEFINE reader == Framing(Max(Announced("length") \cup {0}))
  <2>1. pc' = reader /\ stash' = IF reader = "size" THEN Leftover ELSE <<>>
    BY <1>1 DEF parse_response_header
  <2> HIDE DEF reader
  <2> QED
    BY <2>1 DEF NoStash
<1>2. ASSUME ~parse_response_header
      PROVE  pc' \in {"counted", "to_eof"} => pc' = pc /\ UNCHANGED stash
  BY <1>2, ZenonT(60) DEF Next, ClientStep, vars, ServerSends, ServerCloses, Connect,
     read_response_header, HeaderCut, ReadCounted, CountedDone, ReadToEof, EofDone, read_more,
     ChunksCut, SizeLine, ChunkData, TrailerLine, TrailerCut, RecvTimesOut, Done
<1> QED
  BY <1>1, <1>2 DEF NoStash

\* The stash begins where the stream does as long as the header is read.
LEMMA HeaderStash ==
    ASSUME TypeOK, Len(stash) = taken
    PROVE  \A j \in 1..taken : stash[j] = Stream(response)[j]
<1>1. /\ \A j \in 1..Len(stash) : stash[j] = Stream(response)[(taken - Len(stash)) + j]
      /\ taken \in Nat
  BY Stashed, Streamed
<1>2. \A j \in 1..taken : (taken - taken) + j = j
  BY <1>1
<1> QED
  BY <1>1, <1>2

LEMMA HeaderStep == TypeOK /\ TypeOK' /\ HeaderInv /\ [Next]_vars => HeaderInv'
<1> SUFFICES ASSUME TypeOK, TypeOK', HeaderInv, [Next]_vars
             PROVE  HeaderInv'
  OBVIOUS
<1>1. /\ H(response) \in Nat /\ H(response) > 0
      /\ response \in Responses /\ taken \in Nat /\ H(response) <= Len(Stream(response))
  BY Facts, Streamed
<1>2. response' = response
  BY DEF Next, ClientStep, vars, server, ServerSends, ServerCloses, Connect,
     read_response_header, HeaderCut, parse_response_header, ReadCounted, CountedDone, ReadToEof,
     EofDone, read_more, ChunksCut, SizeLine, ChunkData, TrailerLine, TrailerCut, RecvTimesOut,
     Done
<1>3. CASE pc' \notin Early
  BY <1>3 DEF HeaderInv, Early
<1>4. CASE pc' \in Early /\ UNCHANGED <<pc, taken, stash, code, body, sent, conn>>
  BY <1>2, <1>4 DEF HeaderInv, Ended, Readable
<1>5. CASE ServerSends \/ ServerCloses
  <2>1. /\ UNCHANGED <<pc, taken, stash, code, body>> /\ pc # "connect"
        /\ conn = "open"
    BY <1>5 DEF ServerSends, ServerCloses, parsed
  <2>2. ~Ended
    BY <2>1 DEF Ended
  <2> QED
    BY <1>2, <2>1, <2>2 DEF HeaderInv
<1>6. CASE Connect
  <2>1. UNCHANGED <<taken, stash, code, body>> /\ pc = "connect" /\ pc' \in {"header", "done"}
    BY <1>6 DEF Connect, parsed
  <2>2. taken < H(response)
    BY <1>1, <2>1 DEF HeaderInv
  <2> QED
    BY <1>2, <2>1, <2>2 DEF HeaderInv, Early
<1>7. CASE read_response_header
  <2>1. PICK units : Read(units) /\ stash' = stash \o units
    BY <1>7 DEF read_response_header, Read
  <2>2. /\ pc' = (IF HeaderEnds(stash') # {} THEN "parse" ELSE "header")
        /\ UNCHANGED <<code, body>> /\ pc = "header"
    BY <1>7 DEF read_response_header, parsed
  <2>3. Len(stash) = taken /\ body = <<>> /\ code = -1
    BY <2>2 DEF HeaderInv, Early
  <2>4. /\ Len(stash') = Len(stash) + Len(units) /\ taken' = taken + Len(units)
        /\ taken' \in Nat /\ taken' <= sent /\ sent \in Nat /\ sent <= Len(Stream(response))
        /\ Len(Stream(response)) \in Nat
    BY <2>1, StashGrows, Delivered, Streamed
  <2>5. Len(stash') = taken'
    BY <2>3, <2>4
  <2>6. \A j \in 1..taken' : stash'[j] = Stream(response)[j]
    <3>1. (Len(stash) = taken => \A j \in 1..taken : stash[j] = Stream(response)[j])'
      BY HeaderStash, PTL
    <3> QED
      BY <1>2, <2>5, <3>1
  <2>7. /\ taken' < H(response) => HeaderEnds(stash') = {}
        /\ taken' >= H(response) => HeaderEnds(stash') # {}
    <3>1. stash' \in Seq(Units) /\ Len(stash') <= Len(Stream(response))
      <4>1. stash' \in Seq(Units)
        BY <2>1, StashGrows
      <4>2. \A x, y, z \in Nat : x <= y /\ y <= z => x <= z
        OBVIOUS
      <4> QED
        BY <2>4, <2>5, <4>1, <4>2
    <3>2. \A p \in 1..Len(stash') : stash'[p] = Stream(response)[p]
      BY <2>5, <2>6
    <3> QED
      BY <1>1, <2>5, <3>1, <3>2, HeaderEndsAre
  <2>8. CASE taken' >= H(response)
    BY <1>2, <2>2, <2>3, <2>5, <2>7, <2>8 DEF HeaderInv
  <2>9. CASE ~(taken' >= H(response))
    <3>1. taken' < H(response)
      BY <1>1, <2>4, <2>9
    <3> QED
      BY <1>2, <2>2, <2>3, <2>5, <2>7, <3>1 DEF HeaderInv
  <2> QED
    BY <2>8, <2>9
<1>8. CASE HeaderCut
  <2>1. /\ pc = "header" /\ pc' = "parse" /\ Ended
        /\ UNCHANGED <<taken, stash, code, body, sent, conn>>
    BY <1>8 DEF HeaderCut, parsed, server
  <2> QED
    BY <1>2, <2>1 DEF HeaderInv, Early, Ended, Readable
<1>9. CASE parse_response_header
  <2>1. pc' = Framing(Max(Announced("length") \cup {0}))
    BY <1>9 DEF parse_response_header
  <2>2. pc' \in {"size", "counted", "to_eof"}
    BY <2>1 DEF Framing
  <2> QED
    BY <1>3, <2>2 DEF Early
<1>10. ASSUME \/ ReadCounted \/ CountedDone \/ ReadToEof \/ EofDone
              \/ read_more \/ ChunksCut \/ SizeLine \/ ChunkData \/ TrailerLine
       PROVE  pc' \notin Early
  BY <1>10 DEF ReadCounted, CountedDone, ReadToEof, EofDone, read_more, ChunksCut, SizeLine,
     ChunkData, TrailerLine, Early
<1>11. CASE RecvTimesOut \/ TrailerCut \/ Done \/ UNCHANGED vars
  <2>1. UNCHANGED <<pc, taken, stash, code, body, sent, conn>>
    BY <1>11 DEF RecvTimesOut, TrailerCut, Done, vars, server, parsed
  <2> QED
    BY <1>3, <1>4, <2>1
<1> QED
  BY <1>3, <1>5, <1>6, <1>7, <1>8, <1>9, <1>10, <1>11 DEF Next, ClientStep

-----------------------------------------------------------------------------
(* The steps of the body readers.                                           *)

\* The header has been cut off: nothing of the stream is left to be read.
LEMMA ParsedCut ==
    ASSUME TypeOK, HeaderInv, parse_response_header, taken < H(response)
    PROVE  Cut'
<1>1. /\ pc = "parse" /\ Len(stash) = taken /\ Ended
      /\ response \in Responses /\ taken \in Nat /\ taken <= Len(Stream(response))
      /\ Len(Stream(response)) \in Nat /\ H(response) \in Nat
  <2>1. pc = "parse" /\ Len(stash) = taken
    BY DEF parse_response_header, HeaderInv, Early
  <2>2. /\ response \in Responses /\ taken \in Nat /\ sent \in Nat /\ taken <= sent
        /\ sent <= Len(Stream(response)) /\ Len(Stream(response)) \in Nat /\ H(response) \in Nat
    BY Streamed, Facts
  <2>3. ~(taken >= H(response))
    BY <2>2
  <2>4. Ended
    BY <2>1, <2>3 DEF HeaderInv
  <2> QED
    BY <2>1, <2>2, <2>4
<1>2. HeaderEnds(stash) = {}
  <2>1. \A j \in 1..Len(stash) : stash[j] = Stream(response)[j]
    BY <1>1, HeaderStash
  <2>2. stash \in Seq(Units) /\ Len(stash) <= Len(Stream(response)) /\ Len(stash) < H(response)
    BY <1>1, Stashed
  <2> QED
    BY <1>1, <2>1, <2>2, HeaderEndsAre
<1>3. Len(HeaderPart) = Len(stash)
  BY <1>2, HeaderCutOut
<1>4. Leftover = <<>>
  <2>1. Len(stash) + 1 \in Int /\ Len(stash) \in Int /\ Len(stash) < Len(stash) + 1
    BY <1>1
  <2>2. SubSeq(stash, Len(stash) + 1, Len(stash)) = <<>>
    BY <2>1, SubSeqEmpty
  <2> QED
    BY <1>3, <2>2 DEF Leftover
<1>5. Numbers(Leftover) = <<>>
  <2>1. <<>> \in Seq(Units) /\ Len(<<>>) = 0
    OBVIOUS
  <2>2. Numbers(<<>>) \in Seq(Nat) /\ Len(Numbers(<<>>)) = 0
    BY <2>1, NumbersTyped
  <2>3. Numbers(<<>>) = <<>>
    BY <2>2, EmptySeq
  <2> QED
    BY <1>4, <2>3
<1> DEFINE announced == Max(Announced("length") \cup {0})
           reader == Framing(announced)
<1>6. announced \in Nat
  <2>1. Total(response.body) \in Nat
    BY Facts
  <2> QED
    BY <2>1, AnnouncedIs, MaxOfOne
<1>7. /\ pc' = reader
      /\ stash' = IF reader = "size" THEN Leftover ELSE <<>>
      /\ body' = CASE reader = "size"    -> <<>>
                   [] reader = "counted" -> FirstOf(Numbers(Leftover), announced)
                   [] reader = "to_eof"  -> Numbers(Leftover)
      /\ UNCHANGED <<response, sent, conn, taken>>
  BY DEF parse_response_header, server
<1> HIDE DEF announced
<1>8. reader \in {"size", "counted", "to_eof"}
  BY DEF Framing
<1> HIDE DEF reader
<1>9. FirstOf(<<>>, announced) = <<>>
  <2>1. <<>> = Upto(0) /\ 0 \in Nat
    BY NoByte
  <2>2. FirstOf(Upto(0), announced) = Upto(Lesser(announced, 0))
    BY <1>6, <2>1, FirstOfUpto
  <2>3. Lesser(announced, 0) = 0
    BY <1>6 DEF Lesser
  <2> QED
    BY <2>1, <2>2, <2>3
<1>10. body' = <<>> /\ stash' = <<>>
  <2>1. CASE reader = "size"
    BY <1>4, <1>7, <2>1
  <2>2. CASE reader = "counted"
    BY <1>5, <1>7, <1>9, <2>2
  <2>3. CASE reader = "to_eof"
    BY <1>5, <1>7, <2>3
  <2> QED
    BY <1>8, <2>1, <2>2, <2>3
<1>11. pc' \notin Early
  BY <1>7, <1>8 DEF Early
<1> QED
  BY <1>1, <1>7, <1>10, <1>11 DEF Cut, Ended, Readable

\* The whole header has been read: the reader starts behind it.
LEMMA ParsedWhole ==
    ASSUME TypeOK, HeaderInv, parse_response_header, taken >= H(response)
    PROVE  Counting' \/ ToTheEnd' \/ BetweenChunks'
<1> DEFINE S == Stream(response)
           h == H(response)
           t == Total(response.body)
           announced == Max(Announced("length") \cup {0})
           reader == Framing(announced)
<1>1. /\ response \in Responses /\ taken \in Nat /\ h \in Nat /\ h > 0 /\ t \in Nat
      /\ taken <= Len(S) /\ Len(S) \in Nat /\ taken >= h
  <2>1. taken \in Nat /\ sent \in Nat /\ Len(S) \in Nat /\ taken <= sent /\ sent <= Len(S)
    BY Streamed
  <2>2. taken <= Len(S)
    BY <2>1
  <2> QED
    BY <2>1, <2>2, Streamed, Facts
<1>2. Len(stash) = taken /\ stash \in Seq(Units)
  BY Stashed DEF parse_response_header, HeaderInv, Early
<1>3. \A j \in 1..taken : stash[j] = S[j]
  BY <1>2, HeaderStash
<1>4. /\ pc' = reader /\ length' = announced
      /\ stash' = IF reader = "size" THEN Leftover ELSE <<>>
      /\ body' = CASE reader = "size"    -> <<>>
                   [] reader = "counted" -> FirstOf(Numbers(Leftover), announced)
                   [] reader = "to_eof"  -> Numbers(Leftover)
      /\ UNCHANGED <<response, sent, conn, taken>>
  BY DEF parse_response_header, server
<1>5. /\ response.framing # "none" => h = 8 /\ S[5].kind = "cr" /\ S[6].kind = "lf"
      /\ response.framing = "length" => S[4] = Unit("length", t)
      /\ response.framing = "chunked" => S[4] = Unit("chunked", 0)
  BY <1>1, HeaderKinds
<1>m. HeaderEnds(stash) # {} /\ Min(HeaderEnds(stash)) = h - 3
  <2>1. Len(stash) <= Len(S) /\ Len(stash) >= h
    BY <1>1, <1>2
  <2>2. \A j \in 1..Len(stash) : stash[j] = S[j]
    BY <1>2, <1>3
  <2> QED
    BY <1>1, <1>2, <2>1, <2>2, HeaderEndsAre
<1> HIDE DEF S, h, t, announced, reader
<1>6. Len(HeaderPart) = h /\ (\A j \in 1..h : HeaderPart[j] = S[j])
  <2>1. PICK k \in 0..Len(stash) :
          /\ Len(HeaderPart) = k
          /\ \A j \in 1..k : HeaderPart[j] = stash[j]
          /\ HeaderEnds(stash) # {} => k = Min(HeaderEnds(stash)) + 3
    BY HeaderCutOut
  <2>2. k = h
    BY <1>1, <1>m, <2>1
  <2>3. \A j \in 1..h : j \in 1..taken
    BY <1>1
  <2> QED
    BY <1>3, <2>1, <2>2, <2>3
<1>f. ASSUME NEW k, S[4].kind = k, response.framing # "none"
      PROVE  S[4].n \in Announced(k)
  <2>1. 4 \in 1..Len(HeaderPart) /\ 5 \in 1..Len(HeaderPart) - 1
    BY <1>5, <1>6, <1>f
  <2>2. /\ HeaderPart[4] = S[4] /\ HeaderPart[5].kind = "cr" /\ HeaderPart[6].kind = "lf"
    <3>1. h = 8 /\ 4 \in 1..h /\ 5 \in 1..h /\ 6 \in 1..h
      BY <1>5, <1>f
    <3> QED
      BY <1>5, <1>6, <1>f, <3>1
  <2>3. 5 \in LineEnds(HeaderPart)
    <3>1. 5 + 1 = 6
      OBVIOUS
    <3> QED
      BY <2>1, <2>2, <3>1 DEF LineEnds
  <2>4. 4 + 1 = 5
    OBVIOUS
  <2> QED
    BY <1>f, <2>1, <2>2, <2>3, <2>4 DEF Announced
<1>7. /\ Leftover \in Seq(Units) /\ Len(Leftover) = taken - h /\ taken - Len(Leftover) = h
      /\ \A j \in 1..(taken - h) : Leftover[j] = S[h + j]
  <2>1. Leftover = SubSeq(stash, h + 1, Len(stash))
    BY <1>6 DEF Leftover
  <2>2. h \in Nat /\ Len(stash) \in Nat /\ h <= Len(stash) /\ Len(stash) <= Len(stash)
    BY <1>1, <1>2
  <2>3. /\ Leftover \in Seq(Units) /\ Len(Leftover) = Len(stash) - h
        /\ \A j \in 1..(Len(stash) - h) : Leftover[j] = stash[h + j]
    BY <1>2, <2>1, <2>2, Window
  <2>4. \A j \in 1..(taken - h) : h + j \in 1..taken
    BY <1>1
  <2>5. taken - (taken - h) = h
    BY <1>1
  <2> QED
    BY <1>2, <1>3, <2>3, <2>4, <2>5
<1>8. CASE response.framing = "chunked"
  <2>1. S[4].kind = "chunked" /\ response.framing # "none"
    BY <1>5, <1>8, UnitTyped
  <2>3. S[4].n \in Announced("chunked")
    BY <1>f, <2>1
  <2>4. reader = "size"
    BY <2>3 DEF reader, Framing
  <2>5. pc' = "size" /\ stash' = Leftover /\ body' = <<>> /\ response' = response
    BY <1>4, <2>4
  <2>6. Ends(Sizes(response), 0) = 0 /\ Sizes(response)[0] = 0
    <3>1. Sizes(response)[0] = 0
      BY <1>1, Summed DEF Adds
    <3> QED
      BY <3>1 DEF Ends
  <2>7. 0 \in 0..Len(response.body)
    BY Facts
  <2>8. taken' - Len(stash') = h + Ends(Sizes(response), 0)
    BY <1>1, <1>4, <1>7, <2>5, <2>6
  <2>9. body' = Upto(Sizes(response)[0])
    BY <2>5, <2>6, NoByte
  <2> QED
    BY <1>8, <2>5, <2>7, <2>8, <2>9 DEF BetweenChunks, h
<1>9. CASE response.framing # "chunked"
  <2>1. Announced("chunked") = {}
    BY <1>9, AnnouncedIs
  <2>2. Numbers(Leftover) = Upto(taken - h)
    <3>1. /\ Len(S) = h + (t + response.extra) /\ response.extra \in Nat
          /\ \A p \in 1..(t + response.extra) : S[h + p].n = p
      BY <1>1, <1>9, PlainStream, Facts DEF S, h, t
    <3>2. /\ Numbers(Leftover) \in Seq(Nat) /\ Len(Numbers(Leftover)) = taken - h
          /\ \A j \in 1..(taken - h) : Numbers(Leftover)[j] = Leftover[j].n
      BY <1>7, NumbersTyped
    <3>3. \A j \in 1..(taken - h) : j \in 1..(t + response.extra)
      BY <1>1, <3>1
    <3>4. taken - h \in Nat
      BY <1>1
    <3>5. \A j \in 1..(taken - h) : Numbers(Leftover)[j] = j
      BY <1>7, <3>1, <3>2, <3>3
    <3> QED
      BY <3>2, <3>4, <3>5, IsUpto
  <2>3. announced = IF response.framing = "length" THEN t ELSE 0
    <3>1. CASE response.framing = "length"
      <4>1. S[4].kind = "length" /\ response.framing # "none"
        BY <1>1, <1>5, <3>1, UnitTyped
      <4>3. S[4].n \in Announced("length")
        BY <1>f, <4>1
      <4> QED
        BY <1>1, <3>1, <4>3, AnnouncedIs, MaxOfOne DEF announced, t
    <3>2. CASE response.framing # "length"
      <4>1. Announced("length") = {}
        BY <3>2, AnnouncedIs
      <4> QED
        BY <1>1, <3>2, <4>1, AnnouncedIs, MaxOfOne DEF announced, t
    <3> QED
      BY <3>1, <3>2
  <2>4. CASE announced > 0
    <3>1. reader = "counted"
      BY <2>1, <2>4 DEF reader, Framing
    <3>2. /\ pc' = "counted" /\ length' = t /\ response' = response /\ taken' = taken
          /\ body' = FirstOf(Upto(taken - h), t) /\ response.framing = "length" /\ t > 0
      BY <1>4, <2>2, <2>3, <2>4, <3>1
    <3>3. body' = Upto(Lesser(t, taken - h))
      <4>1. taken - h \in Nat
        BY <1>1
      <4> QED
        BY <1>1, <3>2, <4>1, FirstOfUpto
    <3> QED
      BY <1>1, <3>2, <3>3 DEF Counting, h, t
  <2>5. CASE ~(announced > 0)
    <3>1. reader = "to_eof"
      BY <2>1, <2>5 DEF reader, Framing
    <3>2. pc' = "to_eof" /\ response' = response /\ taken' = taken /\ body' = Upto(taken - h)
      BY <1>4, <2>2, <3>1
    <3>3. ReadsToEof(response)
      <4>1. response.framing \in {"length", "chunked", "none"}
        BY <1>1, ResponseTyped DEF Framings
      <4>2. response.framing = "length" => t = 0
        BY <1>1, <2>3, <2>5
      <4> QED
        BY <1>9, <4>1, <4>2 DEF ReadsToEof, t
    <3> QED
      BY <1>1, <3>2, <3>3 DEF ToTheEnd, h
  <2> QED
    BY <2>4, <2>5
<1> QED
  BY <1>8, <1>9

\* A read of data that is neither counted nor in chunks.
LEMMA DataRead ==
    ASSUME TypeOK, response.framing # "chunked", taken >= H(response),
           NEW units, Read(units)
    PROVE  /\ Numbers(units) \in Seq(Nat) /\ Len(Numbers(units)) = Len(units)
           /\ Len(units) \in Nat /\ taken - H(response) \in Nat
           /\ taken' >= H(response)
           /\ taken' - H(response) = (taken - H(response)) + Len(units)
           /\ \A j \in 1..Len(units) : Numbers(units)[j] = (taken - H(response)) + j
<1> DEFINE S == Stream(response)
           h == H(response)
           e == Total(response.body) + response.extra
<1>1. /\ response \in Responses /\ taken \in Nat /\ h \in Nat /\ e \in Nat /\ sent \in Nat
      /\ sent <= Len(S)
  BY Streamed, Facts
<1>2. /\ units \in Seq(Units) /\ Len(units) \in Nat
      /\ taken' = taken + Len(units) /\ taken' <= sent
      /\ \A j \in 1..Len(units) : units[j] = S[taken + j]
  BY Delivered
<1>3. /\ Len(S) = h + e /\ (\A p \in 1..e : S[h + p].n = p)
  BY <1>1, PlainStream
<1> HIDE DEF S, h, e
<1>4. /\ Numbers(units) \in Seq(Nat) /\ Len(Numbers(units)) = Len(units)
      /\ \A j \in 1..Len(units) : Numbers(units)[j] = units[j].n
  BY <1>2, NumbersTyped
<1>5. taken >= h
  BY DEF h
<1>6. taken - h \in Nat /\ taken' >= h /\ taken' - h = (taken - h) + Len(units)
  <2>1. \A x, y, z \in Nat : x >= y => /\ x - y \in Nat /\ x + z >= y
                                    /\ (x + z) - y = (x - y) + z
    OBVIOUS
  <2> QED
    BY <1>1, <1>2, <1>5, <2>1
<1>7. ASSUME NEW j \in 1..Len(units)
      PROVE  Numbers(units)[j] = (taken - h) + j
  <2>1. (taken - h) + j \in 1..e /\ h + ((taken - h) + j) = taken + j
    <3>1. \A x, y, z, w, v \in Nat : /\ x >= y /\ x + z <= w /\ w <= y + v /\ j \in 1..z
                               => (x - y) + j \in 1..v /\ y + ((x - y) + j) = x + j
      OBVIOUS
    <3>2. taken + Len(units) <= sent /\ sent <= h + e
      BY <1>1, <1>2, <1>3
    <3> QED
      BY <1>1, <1>2, <1>5, <3>1, <3>2
  <2> QED
    BY <1>2, <1>3, <1>4, <2>1
<1> QED
  BY <1>2, <1>4, <1>6, <1>7 DEF h

\* A read of a body with a length keeps the bytes up to that length.
LEMMA CountedRead ==
    ASSUME TypeOK, Counting, ReadCounted
    PROVE  Counting'
<1> DEFINE k == taken - H(response)
<1>1. PICK units : Read(units) /\ body' = body \o Needed(units)
  BY DEF ReadCounted, Read
<1>2. /\ UNCHANGED <<pc, response, length>> /\ MustRead
      /\ pc = "counted" /\ response.framing = "length" /\ Total(response.body) > 0
      /\ length = Total(response.body) /\ taken >= H(response)
      /\ body = Upto(Lesser(length, k))
  BY DEF ReadCounted, Counting, server, parsed
<1>3. response.framing # "chunked"
  BY <1>2
<1>4. /\ Numbers(units) \in Seq(Nat) /\ Len(Numbers(units)) = Len(units)
      /\ Len(units) \in Nat /\ k \in Nat
      /\ taken' >= H(response)
      /\ taken' - H(response) = k + Len(units)
      /\ \A j \in 1..Len(units) : Numbers(units)[j] = k + j
  BY <1>1, <1>2, <1>3, DataRead
<1> HIDE DEF k
<1>5. length \in Nat
  BY DEF TypeOK
<1>6. Lesser(length, k) = k /\ k < length
  <2>1. Lesser(length, k) \in Nat
    BY <1>4, <1>5 DEF Lesser
  <2>2. Len(body) = Lesser(length, k)
    BY <1>2, <2>1, UptoTyped
  <2>3. Len(body) < length
    BY <1>2 DEF MustRead
  <2> QED
    BY <1>4, <1>5, <2>2, <2>3 DEF Lesser
<1>7. body = Upto(k) /\ Len(body) = k
  BY <1>2, <1>4, <1>6, UptoTyped
<1> DEFINE x == FirstOf(Numbers(units), length - k)
           m == Lesser(length - k, Len(units))
<1>8. length - k \in Nat
  BY <1>4, <1>5, <1>6
<1>9. m \in Nat /\ m <= Len(units) /\ k + m = Lesser(length, k + Len(units))
  BY <1>4, <1>5, <1>8 DEF Lesser
<1>10. x \in Seq(Nat) /\ Len(x) = m /\ (\A j \in 1..m : x[j] = Numbers(units)[j])
  BY <1>4, <1>8, FirstTyped DEF Lesser
<1>11. Needed(units) = x
  BY <1>7 DEF Needed
<1> HIDE DEF x, m
<1>12. \A j \in 1..m : x[j] = k + j
  <2>1. \A j \in 1..m : j \in 1..Len(units)
    BY <1>4, <1>9
  <2> QED
    BY <1>4, <1>10, <2>1
<1>13. body' = Upto(k + m)
  BY <1>1, <1>4, <1>7, <1>9, <1>10, <1>11, <1>12, UptoGrows
<1>14. body' = Upto(Lesser(length, taken' - H(response)))
  BY <1>4, <1>9, <1>13
<1> QED
  BY <1>2, <1>4, <1>14 DEF Counting

\* A read of a body without length keeps all of its bytes.
LEMMA EofRead ==
    ASSUME TypeOK, ToTheEnd, ReadToEof
    PROVE  ToTheEnd'
<1> DEFINE k == taken - H(response)
<1>1. PICK units : Read(units) /\ body' = body \o Numbers(units)
  BY DEF ReadToEof, Read
<1>2. /\ UNCHANGED <<pc, response>> /\ pc = "to_eof"
      /\ ReadsToEof(response) /\ taken >= H(response) /\ body = Upto(k)
  BY DEF ReadToEof, ToTheEnd, server
<1>3. response.framing # "chunked"
  BY <1>2 DEF ReadsToEof
<1>4. /\ Numbers(units) \in Seq(Nat) /\ Len(Numbers(units)) = Len(units)
      /\ Len(units) \in Nat /\ k \in Nat
      /\ taken' >= H(response)
      /\ taken' - H(response) = k + Len(units)
      /\ \A j \in 1..Len(units) : Numbers(units)[j] = k + j
  BY <1>1, <1>2, <1>3, DataRead
<1> HIDE DEF k
<1>5. body' = Upto(k + Len(units))
  BY <1>1, <1>2, <1>4, UptoGrows
<1> QED
  BY <1>2, <1>4, <1>5 DEF ToTheEnd

\* How the sizes of chunks and the places of their ends add up.
LEMMA ChunkFacts ==
    ASSUME TypeOK
    PROVE  /\ \A i \in 0..Len(response.body) :
                /\ Ends(Sizes(response), i) \in Nat
                /\ Ends(Sizes(response), i) <= DataEnd(response)
                /\ Sizes(response)[i] \in Nat
                /\ Sizes(response)[i] <= Total(response.body)
           /\ \A i \in 1..Len(response.body) :
                /\ response.body[i] \in Nat
                /\ Ends(Sizes(response), i) = Ends(Sizes(response), i - 1) + response.body[i] + 6
                /\ Sizes(response)[i] = Sizes(response)[i - 1] + response.body[i]
<1> DEFINE r == response
           n == Len(r.body)
<1>1. /\ n \in Nat /\ (\A i \in 1..n : r.body[i] \in Nat)
      /\ Adds(Sizes(r), r.body, n) /\ Total(r.body) = Sizes(r)[n]
  BY Streamed, ResponseTyped, Summed
<1>2. n \in 0..n /\ \A i \in 0..n : i \in 0..n
  BY <1>1
<1>3. /\ \A i \in 0..n : Sizes(r)[i] \in Nat /\ Ends(Sizes(r), i) \in Nat
      /\ \A j \in 0..n : \A i \in 0..j : /\ Sizes(r)[i] <= Sizes(r)[j]
                                         /\ Ends(Sizes(r), i) <= Ends(Sizes(r), j)
      /\ \A i \in 1..n : Ends(Sizes(r), i) = Ends(Sizes(r), i - 1) + r.body[i] + 6
  BY <1>1, Rising
<1>4. \A i \in 1..n : Sizes(r)[i] = Sizes(r)[i - 1] + r.body[i]
  BY <1>1 DEF Adds
<1> QED
  BY <1>1, <1>2, <1>3, <1>4 DEF DataEnd

\* A reader that must read and cannot has been cut off, or has all there is.
LEMMA StuckReader ==
    ASSUME TypeOK, Ended, conn # "reset"
    PROVE  conn = "eof" /\ sent = taken
<1>1. conn \in {"open", "eof", "reset"} /\ taken \in Nat /\ sent \in Nat /\ taken <= sent
  BY Streamed DEF TypeOK
<1>2. conn # "open" /\ ~(taken < sent)
  BY DEF Ended, Readable
<1> QED
  BY <1>1, <1>2

\* The body with a length is returned complete, or cut by the network.
LEMMA CountedReturns ==
    ASSUME TypeOK, Counting, CountedDone
    PROVE  Returned'
<1> DEFINE h == H(response)
           t == Total(response.body)
           k == Lesser(length, taken - h)
<1>1. /\ pc' = "done" /\ UNCHANGED <<response, sent, conn, body>>
      /\ (Len(body) >= length \/ Ended)
  <2>1. Len(body) \in Nat /\ length \in Nat
    BY DEF TypeOK
  <2>2. pc = "counted" /\ (~MustRead \/ Ended)
    BY DEF CountedDone
  <2>3. ~MustRead => ~(Len(body) < length)
    BY <2>2 DEF MustRead
  <2>4. ~MustRead => Len(body) >= length
    BY <2>1, <2>3
  <2> QED
    BY <2>2, <2>4 DEF CountedDone, server
<1>2. /\ length = t /\ body = Upto(k) /\ taken >= h /\ response.framing = "length"
  BY DEF Counting
<1>3. /\ h \in Nat /\ t \in Nat /\ Most \in Nat /\ Most >= t /\ taken \in Nat
      /\ response \in Responses /\ response.extra \in Nat
  BY Facts, Streamed
<1>4. k \in Nat /\ k <= t /\ k \in 0..Most
  BY <1>2, <1>3 DEF Lesser
<1>5. k >= t \/ Undelivered
  <2>1. CASE Len(body) >= length
    <3>1. Len(body) = k
      BY <1>2, <1>4, UptoTyped
    <3> QED
      BY <1>2, <2>1, <3>1
  <2>2. CASE Ended /\ conn = "reset"
    BY <2>2 DEF Undelivered
  <2>3. CASE Ended /\ conn # "reset"
    <3>1. conn = "eof" /\ sent = taken
      BY <2>3, StuckReader
    <3>2. CASE sent < Len(Stream(response))
      BY <3>1, <3>2 DEF Undelivered
    <3>3. CASE ~(sent < Len(Stream(response)))
      <4>1. Len(Stream(response)) = h + (t + response.extra)
        BY <1>2, <1>3, PlainStream
      <4>2. taken - h >= t
        BY <1>3, <3>1, <3>3, <4>1
      <4> QED
        BY <1>2, <1>3, <4>2 DEF Lesser
    <3> QED
      BY <3>2, <3>3
  <2> QED
    BY <1>1, <2>1, <2>2, <2>3
<1> HIDE DEF k
<1>6. /\ Most' = Most /\ (Undelivered' <=> Undelivered) /\ Total(response'.body) = t
      /\ body' = body /\ pc' = "done"
  BY <1>1 DEF Most, Undelivered
<1> QED
  BY <1>2, <1>4, <1>5, <1>6 DEF Returned

\* The body without length is returned once the stream has ended.
LEMMA EofReturns ==
    ASSUME TypeOK, ToTheEnd, EofDone
    PROVE  Returned'
<1> DEFINE h == H(response)
           t == Total(response.body)
           k == taken - h
<1>1. pc' = "done" /\ UNCHANGED <<response, sent, conn, body>> /\ Ended
  BY DEF EofDone, server
<1>2. body = Upto(k) /\ taken >= h /\ ReadsToEof(response)
  BY DEF ToTheEnd
<1>3. /\ h \in Nat /\ t \in Nat /\ taken \in Nat /\ response \in Responses
      /\ response.extra \in Nat /\ sent \in Nat /\ taken <= sent
      /\ sent <= Len(Stream(response))
  BY Facts, Streamed
<1>4. Len(Stream(response)) = h + (t + response.extra) /\ Most = t + response.extra
  <2>1. response.framing # "chunked"
    BY <1>2 DEF ReadsToEof
  <2> QED
    BY <1>2, <1>3, <2>1, PlainStream DEF Most
<1>5. k \in 0..Most
  <2>1. \A x, y, z, w \in Nat : x >= y /\ x <= w /\ w <= y + z => x - y \in 0..z
    OBVIOUS
  <2> QED
    BY <1>2, <1>3, <1>4, <2>1
<1>6. k >= t \/ Undelivered
  <2>1. CASE conn = "reset"
    BY <2>1 DEF Undelivered
  <2>2. CASE conn # "reset"
    <3>1. conn = "eof" /\ sent = taken
      BY <1>1, <2>2, StuckReader
    <3>2. CASE sent < Len(Stream(response))
      BY <3>1, <3>2 DEF Undelivered
    <3>3. CASE ~(sent < Len(Stream(response)))
      BY <1>3, <1>4, <3>1, <3>3
    <3> QED
      BY <3>2, <3>3
  <2> QED
    BY <2>1, <2>2
<1> HIDE DEF k
<1>7. /\ Most' = Most /\ (Undelivered' <=> Undelivered) /\ Total(response'.body) = t
      /\ body' = body /\ pc' = "done"
  BY <1>1 DEF Most, Undelivered
<1> QED
  BY <1>2, <1>5, <1>6, <1>7 DEF Returned

\* A size line is found when its CRLF has been read, and not before.
LEMMA SizeLineFound ==
    ASSUME TypeOK, response.framing = "chunked", response.fault = "none",
           NEW i \in 0..Len(response.body),
           taken - Len(stash) = H(response) + Ends(Sizes(response), i)
    PROVE  /\ i = Len(response.body) =>
                /\ HasLine <=> Len(stash) >= 3
                /\ HasLine => FirstEnd = 2 /\ stash[1] = Unit("digit", 0)
           /\ i # Len(response.body) =>
                /\ HasLine <=> Len(stash) >= 4
                /\ HasLine => /\ FirstEnd = 3
                              /\ stash[1].kind = "digit" /\ stash[2].kind = "digit"
                              /\ 16 * stash[1].n + stash[2].n = response.body[i + 1]
<1> DEFINE S == Stream(response)
           n == Len(response.body)
           a == Sizes(response)
           next == taken - Len(stash)
<1>1. /\ Len(stash) \in Nat /\ (\A j \in 1..Len(stash) : stash[j] = S[next + j])
      /\ n \in Nat /\ response \in Responses
  BY Stashed, Facts, Streamed
<1>2. CASE i = n
  <2>1. next = H(response) + DataEnd(response)
    BY <1>2 DEF DataEnd
  <2> HIDE DEF next, S, a
  <2>2. S[next + 1] = Unit("digit", 0) /\ S[next + 2].kind = "cr" /\ S[next + 3].kind = "lf"
    BY <1>1, <2>1, ChunkedStream DEF S
  <2>3. S[next + 1].kind # "cr"
    BY <2>2, UnitTyped
  <2>4. ASSUME Len(stash) >= 3
        PROVE  HasLine /\ FirstEnd = 2 /\ stash[1] = Unit("digit", 0)
    <3>1. 1 \in 1..Len(stash) /\ 2 \in 1..Len(stash) /\ 3 \in 1..Len(stash)
      BY <1>1, <2>4
    <3>2. /\ stash[1] = Unit("digit", 0) /\ stash[1].kind # "cr"
          /\ stash[2].kind = "cr" /\ stash[3].kind = "lf"
      BY <1>1, <2>2, <2>3, <3>1
    <3>3. /\ 2 \in Nat /\ 1 <= 2 /\ 2 + 1 = 3 /\ 2 + 1 <= Len(stash)
          /\ \A j \in 1..(2 - 1) : j = 1
      BY <1>1, <2>4
    <3>4. \A j \in 1..(2 - 1) : stash[j].kind # "cr"
      BY <3>2, <3>3
    <3>5. HasLine /\ FirstEnd = 2
      BY <3>2, <3>3, <3>4, FirstEndIs
    <3> QED
      BY <3>2, <3>5
  <2>5. ASSUME HasLine
        PROVE  Len(stash) >= 3
    <3>1. /\ FirstEnd \in Nat /\ FirstEnd >= 1 /\ FirstEnd + 1 \in 0..Len(stash)
          /\ stash[FirstEnd].kind = "cr"
      BY <2>5, FirstLineIs
    <3>2. FirstEnd # 1
      <4>1. 1 \in 1..Len(stash)
        BY <1>1, <3>1
      <4>2. stash[1].kind # "cr"
        BY <1>1, <2>3, <4>1
      <4> QED
        BY <3>1, <4>2
    <3> QED
      BY <1>1, <3>1, <3>2
  <2> QED
    BY <1>2, <2>4, <2>5
<1>3. CASE i # n
  <2> DEFINE j == i + 1
  <2>1. j \in 1..n /\ j - 1 = i
    BY <1>1, <1>3
  <2>b. next = H(response) + Ends(a, i)
    OBVIOUS
  <2> HIDE DEF j, next, S, a
  <2>2. /\ S[next + 1].kind = "digit" /\ S[next + 2].kind = "digit"
        /\ 16 * S[next + 1].n + S[next + 2].n = response.body[j]
        /\ S[next + 3].kind = "cr" /\ S[next + 4].kind = "lf"
    BY <1>1, <2>1, <2>b, ChunkedStream DEF S, a
  <2>4. ASSUME Len(stash) >= 4
        PROVE  /\ HasLine /\ FirstEnd = 3
               /\ stash[1].kind = "digit" /\ stash[2].kind = "digit"
               /\ 16 * stash[1].n + stash[2].n = response.body[j]
    <3>1. 1 \in 1..Len(stash) /\ 2 \in 1..Len(stash) /\ 3 \in 1..Len(stash) /\ 4 \in 1..Len(stash)
      BY <1>1, <2>4
    <3>2. /\ stash[1] = S[next + 1] /\ stash[2] = S[next + 2]
          /\ stash[3].kind = "cr" /\ stash[4].kind = "lf"
      BY <1>1, <2>2, <3>1
    <3>3. /\ 3 \in Nat /\ 1 <= 3 /\ 3 + 1 = 4 /\ 3 + 1 <= Len(stash)
          /\ \A k \in 1..(3 - 1) : k = 1 \/ k = 2
      BY <1>1, <2>4
    <3>4. \A k \in 1..(3 - 1) : stash[k].kind # "cr"
      BY <2>2, <3>2, <3>3
    <3>5. HasLine /\ FirstEnd = 3
      BY <3>2, <3>3, <3>4, FirstEndIs
    <3> QED
      BY <2>2, <3>2, <3>5
  <2>5. ASSUME HasLine
        PROVE  Len(stash) >= 4
    <3>1. /\ FirstEnd \in Nat /\ FirstEnd >= 1 /\ FirstEnd + 1 \in 0..Len(stash)
          /\ stash[FirstEnd].kind = "cr"
      BY <2>5, FirstLineIs
    <3>2. FirstEnd # 1
      <4>1. 1 \in 1..Len(stash)
        BY <1>1, <3>1
      <4>2. stash[1].kind = "digit"
        BY <1>1, <2>2, <4>1
      <4> QED
        BY <3>1, <4>2
    <3>3. FirstEnd # 2
      <4>1. FirstEnd = 2 => 2 \in 1..Len(stash)
        BY <1>1, <3>1
      <4>2. FirstEnd = 2 => stash[2].kind = "digit"
        BY <1>1, <2>2, <4>1
      <4> QED
        BY <3>1, <4>2
    <3> QED
      BY <1>1, <3>1, <3>2, <3>3
  <2> QED
    BY <1>3, <2>4, <2>5 DEF j
<1> QED
  BY <1>2, <1>3

\* The stream ends before the size line, or within a chunk.
LEMMA ChunksReturn ==
    ASSUME TypeOK, BetweenChunks \/ InChunk, response.fault = "none", ChunksCut
    PROVE  Returned'
<1> DEFINE h == H(response)
           t == Total(response.body)
           a == Sizes(response)
           n == Len(response.body)
           L == Len(Stream(response))
<1>1. /\ pc' = "done" /\ UNCHANGED <<response, sent, conn, body>> /\ Ended /\ MustRead
  BY DEF ChunksCut, server
<1>2. /\ h \in Nat /\ t \in Nat /\ n \in Nat /\ taken \in Nat /\ sent \in Nat
      /\ response \in Responses /\ Most \in Nat /\ Most >= t /\ L \in Nat
      /\ response.framing = "chunked" /\ Len(stash) \in Nat /\ stash \in Seq(Units)
  BY Facts, Streamed, Stashed DEF BetweenChunks, InChunk
<1>3. L >= h + DataEnd(response) + 5 /\ DataEnd(response) \in Nat
  BY <1>2, ChunkedStream
<1>4. /\ \A i \in 0..n : /\ Ends(a, i) \in Nat /\ Ends(a, i) <= DataEnd(response)
                         /\ a[i] \in Nat /\ a[i] <= t
      /\ \A i \in 1..n : /\ response.body[i] \in Nat
                         /\ Ends(a, i) = Ends(a, i - 1) + response.body[i] + 6
  BY ChunkFacts
<1>5. \E k \in 0..t : body = Upto(k) /\ taken < L
  <2>1. CASE BetweenChunks
    <3>1. PICK i \in 0..n : taken - Len(stash) = h + Ends(a, i) /\ body = Upto(a[i])
      BY <2>1 DEF BetweenChunks
    <3>2. ~HasLine /\ response.framing = "chunked"
      BY <1>1, <2>1 DEF MustRead, BetweenChunks
    <3>3. Len(stash) < 4
      <4>1. ~(Len(stash) >= 4)
        <5>1. Len(stash) >= 4 => Len(stash) >= 3
          BY <1>2
        <5> QED
          BY <3>1, <3>2, <5>1, SizeLineFound
      <4> QED
        BY <1>2, <4>1
    <3>4. a[i] \in 0..t /\ Ends(a, i) \in Nat /\ Ends(a, i) <= DataEnd(response)
      <4>1. a[i] \in Nat /\ a[i] <= t /\ Ends(a, i) \in Nat /\ Ends(a, i) <= DataEnd(response)
        BY <1>4
      <4>2. t \in Nat
        BY <1>2
      <4> QED
        BY <4>1, <4>2
    <3>5. taken < L
      <4>1. \A x, z, y, e, d, v \in Nat :
              /\ x - z = y + e /\ z < 4 /\ e <= d /\ v >= y + d + 5 => x < v
        OBVIOUS
      <4> QED
        BY <1>2, <1>3, <3>1, <3>3, <3>4, <4>1
    <3> QED
      BY <3>1, <3>4, <3>5
  <2>2. CASE InChunk
    <3>1. PICK i \in 1..n : /\ taken - Len(stash) = h + Ends(a, i - 1) + 4
                            /\ chunk = response.body[i] /\ body = Upto(a[i - 1])
      BY <2>2 DEF InChunk
    <3>2. Len(stash) < chunk + 2
      BY <1>1, <2>2 DEF MustRead, InChunk
    <3>3. i \in 0..n /\ i - 1 \in 0..n
      BY <1>2
    <3>4. /\ a[i - 1] \in 0..t /\ Ends(a, i) \in Nat /\ Ends(a, i) <= DataEnd(response)
          /\ Ends(a, i - 1) \in Nat
          /\ response.body[i] \in Nat
          /\ Ends(a, i) = Ends(a, i - 1) + response.body[i] + 6
      <4>1. /\ a[i - 1] \in Nat /\ a[i - 1] <= t /\ Ends(a, i - 1) \in Nat
            /\ Ends(a, i) \in Nat /\ Ends(a, i) <= DataEnd(response)
        BY <1>4, <3>3
      <4>2. /\ response.body[i] \in Nat
            /\ Ends(a, i) = Ends(a, i - 1) + response.body[i] + 6
        BY <1>4
      <4>3. t \in Nat
        BY <1>2
      <4> QED
        BY <4>1, <4>2, <4>3
    <3>5. taken < L
      <4>1. \A x, s, y, e, c, f, d \in Nat :
              /\ x - s = y + e + 4 /\ s < c + 2 /\ f = e + c + 6 /\ f <= d
              => x < y + d + 5
        OBVIOUS
      <4>2. taken < h + DataEnd(response) + 5
        BY <1>2, <1>3, <3>1, <3>2, <3>4, <4>1
      <4> QED
        BY <1>2, <1>3, <4>2
    <3> QED
      BY <3>1, <3>4, <3>5
  <2> QED
    BY <2>1, <2>2
<1>6. PICK k \in 0..t : body = Upto(k) /\ taken < L
  BY <1>5
<1>7. k \in 0..Most
  BY <1>2
<1>8. Undelivered
  <2>1. CASE conn = "reset"
    BY <2>1 DEF Undelivered
  <2>2. CASE conn # "reset"
    <3>1. conn = "eof" /\ sent = taken
      BY <1>1, <2>2, StuckReader
    <3> QED
      BY <1>6, <3>1 DEF Undelivered
  <2> QED
    BY <2>1, <2>2
<1>9. /\ Most' = Most /\ (Undelivered' <=> Undelivered) /\ body' = body /\ pc' = "done"
  BY <1>1 DEF Most, Undelivered
<1> QED
  BY <1>6, <1>7, <1>8, <1>9 DEF Returned

\* A size line starts a chunk, or, if it is the last, the trailers.
LEMMA SizeRead ==
    ASSUME TypeOK, BetweenChunks, response.fault = "none", SizeLine
    PROVE  InChunk' \/ AfterChunks'
<1> DEFINE h == H(response)
           a == Sizes(response)
           n == Len(response.body)
           S == Stream(response)
           next == taken - Len(stash)
<1>1. PICK i \in 0..n : next = h + Ends(a, i) /\ body = Upto(a[i])
  BY DEF BetweenChunks
<1>2. /\ UNCHANGED <<response, taken, body>> /\ HasLine /\ stash' = AfterLine
      /\ response.framing = "chunked"
      /\ WellFormed(FirstLine) =>
           /\ chunk' = SizeOf(FirstLine)
           /\ pc' = IF chunk' = 0 THEN "trailer" ELSE "data"
  BY DEF SizeLine, server, BetweenChunks
<1>3. /\ FirstEnd \in Nat /\ FirstEnd >= 1 /\ FirstEnd + 1 \in 0..Len(stash)
      /\ stash' = SubSeq(stash, (FirstEnd + 1) + 1, Len(stash))
      /\ FirstLine \in Seq(Units) /\ Len(FirstLine) = FirstEnd - 1
      /\ \A p \in 1..(FirstEnd - 1) : FirstLine[p] = stash[p]
  BY <1>2, FirstLineIs
<1>4. taken - Len(stash') = next + (FirstEnd + 1)
  <2> DEFINE d == FirstEnd + 1
  <2>1. d \in 0..Len(stash) /\ stash' = SubSeq(stash, d + 1, Len(stash))
    BY <1>3
  <2> HIDE DEF d
  <2>2. taken - Len(stash') = (taken - Len(stash)) + d
    BY <2>1, StashShrinks
  <2> QED
    BY <2>2 DEF d
<1>5. /\ response \in Responses /\ n \in Nat /\ h \in Nat
  BY Streamed, Facts
<1>6. /\ i = n => FirstEnd = 2 /\ stash[1] = Unit("digit", 0)
      /\ i # n => /\ FirstEnd = 3
                  /\ stash[1].kind = "digit" /\ stash[2].kind = "digit"
                  /\ 16 * stash[1].n + stash[2].n = response.body[i + 1]
  BY <1>1, <1>2, SizeLineFound
<1> HIDE DEF next, S, h, a, n
<1>7. CASE i = n
  <2>2. Len(FirstLine) = 1 /\ FirstLine[1] = Unit("digit", 0)
    <3>1. FirstEnd - 1 = 1 /\ 1 \in 1..(FirstEnd - 1)
      BY <1>6, <1>7
    <3> QED
      BY <1>3, <1>6, <1>7, <3>1
  <2>3. FirstLine[1].kind = "digit" /\ FirstLine[1].n = 0
    BY <2>2 DEF Unit
  <2>4. WellFormed(FirstLine)
    <3>1. FirstLine # <<>>
      BY <2>2
    <3>2. \A p \in 1..Len(FirstLine) : p = 1
      BY <2>2
    <3> QED
      BY <2>3, <3>1, <3>2 DEF WellFormed
  <2>5. SizeOf(FirstLine) = 0
    BY <2>2, <2>3 DEF SizeOf
  <2>6. pc' = "trailer"
    BY <1>2, <2>4, <2>5
  <2>7. a[n] = Total(response.body)
    BY <1>5, Summed DEF a, n
  <2> QED
    BY <1>1, <1>2, <1>7, <2>6, <2>7 DEF AfterChunks
<1>8. CASE i # n
  <2> DEFINE j == i + 1
  <2>1. j \in 1..n /\ j - 1 = i
    BY <1>5, <1>8
  <2>a. 16 * stash[1].n + stash[2].n = response.body[j]
    BY <1>6, <1>8
  <2> HIDE DEF j
  <2>2. Len(FirstLine) = 2 /\ FirstLine[1] = stash[1] /\ FirstLine[2] = stash[2]
    <3>1. FirstEnd - 1 = 2 /\ 1 \in 1..(FirstEnd - 1) /\ 2 \in 1..(FirstEnd - 1)
      BY <1>6, <1>8
    <3> QED
      BY <1>3, <3>1
  <2>3. WellFormed(FirstLine)
    <3>1. FirstLine # <<>>
      BY <2>2
    <3>2. \A p \in 1..Len(FirstLine) : p = 1 \/ p = 2
      BY <2>2
    <3> QED
      BY <1>6, <1>8, <2>2, <3>1, <3>2 DEF WellFormed
  <2>4. SizeOf(FirstLine) = response.body[j]
    <3>1. Len(FirstLine) # 1
      BY <2>2
    <3>2. SizeOf(FirstLine) = 16 * FirstLine[1].n + FirstLine[2].n
      BY <2>2, <3>1 DEF SizeOf
    <3> QED
      BY <2>2, <2>a, <3>2
  <2>5. response.body[j] # 0
    BY <1>2, <1>5, <2>1, ResponseTyped DEF n
  <2>6. pc' = "data" /\ chunk' = response.body[j]
    BY <1>2, <2>3, <2>4, <2>5
  <2>7. taken' - Len(stash') = h + Ends(a, j - 1) + 4
    <3>1. Ends(a, i) \in Nat
      BY ChunkFacts DEF a, n
    <3>2. FirstEnd + 1 = 4
      BY <1>6, <1>8
    <3>3. taken - Len(stash') = next + 4
      BY <1>4, <3>2
    <3> QED
      BY <1>1, <1>2, <2>1, <3>3
  <2>8. body' = Upto(a[j - 1])
    BY <1>1, <1>2, <2>1
  <2> QED
    BY <1>2, <2>1, <2>6, <2>7, <2>8 DEF InChunk, h, a, n
<1> QED
  BY <1>7, <1>8

\* The data of a chunk, whole in the stash, goes to the body.
LEMMA ChunkRead ==
    ASSUME TypeOK, InChunk, response.fault = "none", ChunkData
    PROVE  BetweenChunks'
<1> DEFINE h == H(response)
           a == Sizes(response)
           n == Len(response.body)
           S == Stream(response)
           next == taken - Len(stash)
<1>1. PICK i \in 1..n : /\ next = h + Ends(a, i - 1) + 4
                        /\ chunk = response.body[i] /\ body = Upto(a[i - 1])
  BY DEF InChunk
<1>2. /\ UNCHANGED <<response, taken>> /\ stash' = AfterChunk
      /\ body' = body \o Numbers(SubSeq(stash, 1, chunk))
      /\ pc' = (IF chunk + 1 \in LineEnds(stash) THEN "size" ELSE "done")
      /\ response.framing = "chunked" /\ ~MustRead /\ pc = "data"
  BY DEF ChunkData, server, InChunk
<1>3. /\ stash \in Seq(Units) /\ Len(stash) \in Nat /\ chunk \in Nat
      /\ \A j \in 1..Len(stash) : stash[j] = S[next + j]
  BY Stashed DEF TypeOK
<1>4. chunk + 2 <= Len(stash)
  BY <1>2, <1>3 DEF MustRead
<1>5. /\ chunk + 2 \in 0..Len(stash) /\ (chunk + 2) + 1 = chunk + 3 /\ chunk <= Len(stash)
      /\ chunk + 1 \in 1..Len(stash) /\ chunk + 2 \in 1..Len(stash)
      /\ chunk + 1 \in 1..Len(stash) - 1 /\ (chunk + 1) + 1 = chunk + 2
  BY <1>3, <1>4
<1>6. /\ response \in Responses /\ n \in Nat /\ h \in Nat
  BY Streamed, Facts
<1>7. i \in 0..n /\ i - 1 \in 0..n
  BY <1>6
<1>8. /\ Ends(a, i - 1) \in Nat /\ Ends(a, i) \in Nat /\ a[i - 1] \in Nat /\ a[i] \in Nat
      /\ Ends(a, i) = Ends(a, i - 1) + chunk + 6
      /\ a[i] = a[i - 1] + chunk
  BY <1>1, <1>7, ChunkFacts
<1>9. /\ S[h + Ends(a, i - 1) + 4 + chunk + 1].kind = "cr"
      /\ S[h + Ends(a, i - 1) + 4 + chunk + 2].kind = "lf"
      /\ \A j \in 1..chunk : S[h + Ends(a, i - 1) + 4 + j].n = a[i - 1] + j
  BY <1>1, <1>2, <1>6, ChunkedStream
<1>10. stash' = SubSeq(stash, (chunk + 2) + 1, Len(stash))
  BY <1>2, <1>5 DEF AfterChunk
<1>11. taken - Len(stash') = next + (chunk + 2)
  BY <1>5, <1>10, StashShrinks
<1> HIDE DEF next, S, h, a, n
<1>12. next + (chunk + 2) = h + Ends(a, i)
  <2>1. \A y, e, c, f \in Nat : f = e + c + 6 => (y + e + 4) + (c + 2) = y + f
    OBVIOUS
  <2>2. /\ h \in Nat /\ Ends(a, i - 1) \in Nat /\ chunk \in Nat /\ Ends(a, i) \in Nat
        /\ Ends(a, i) = Ends(a, i - 1) + chunk + 6
    BY <1>3, <1>6, <1>8
  <2>3. (h + Ends(a, i - 1) + 4) + (chunk + 2) = h + Ends(a, i)
    BY <2>1, <2>2
  <2> QED
    BY <1>1, <2>3
<1>13. pc' = "size"
  <2>1. /\ next + (chunk + 1) = h + Ends(a, i - 1) + 4 + chunk + 1
        /\ next + (chunk + 2) = h + Ends(a, i - 1) + 4 + chunk + 2
    <3>1. \A y, e, c \in Nat : /\ (y + e + 4) + (c + 1) = y + e + 4 + c + 1
                              /\ (y + e + 4) + (c + 2) = y + e + 4 + c + 2
      OBVIOUS
    <3>2. h \in Nat /\ Ends(a, i - 1) \in Nat /\ chunk \in Nat
      BY <1>3, <1>6, <1>8
    <3>3. /\ (h + Ends(a, i - 1) + 4) + (chunk + 1) = h + Ends(a, i - 1) + 4 + chunk + 1
          /\ (h + Ends(a, i - 1) + 4) + (chunk + 2) = h + Ends(a, i - 1) + 4 + chunk + 2
      BY <3>1, <3>2
    <3> QED
      BY <1>1, <3>3
  <2>2. /\ stash[chunk + 1] = S[next + (chunk + 1)]
        /\ stash[chunk + 2] = S[next + (chunk + 2)]
    BY <1>3, <1>5
  <2>3. stash[chunk + 1].kind = "cr" /\ stash[chunk + 2].kind = "lf"
    BY <1>9, <2>1, <2>2
  <2>4. chunk + 1 \in LineEnds(stash)
    BY <1>5, <2>3 DEF LineEnds
  <2> QED
    BY <1>2, <2>4
<1> DEFINE w == SubSeq(stash, 1, chunk)
<1>14. w \in Seq(Units) /\ Len(w) = chunk /\ (\A j \in 1..chunk : w[j] = stash[j])
  <2>1. 0 \in Nat /\ 0 <= chunk /\ 0 + 1 = 1 /\ chunk - 0 = chunk
    BY <1>3
  <2>2. /\ SubSeq(stash, 0 + 1, chunk) \in Seq(Units)
        /\ Len(SubSeq(stash, 0 + 1, chunk)) = chunk - 0
        /\ \A j \in 1..(chunk - 0) : SubSeq(stash, 0 + 1, chunk)[j] = stash[0 + j]
    BY <1>3, <1>5, <2>1, Window
  <2>3. \A j \in 1..chunk : 0 + j = j
    BY <1>3
  <2> QED
    BY <2>1, <2>2, <2>3
<1> HIDE DEF w
<1>15. /\ Numbers(w) \in Seq(Nat) /\ Len(Numbers(w)) = chunk
       /\ \A j \in 1..chunk : Numbers(w)[j] = w[j].n
  BY <1>14, NumbersTyped
<1>16. ASSUME NEW j \in 1..chunk
       PROVE  Numbers(w)[j] = a[i - 1] + j
  <2>1. j \in 1..Len(stash) /\ next + j = h + Ends(a, i - 1) + 4 + j
    BY <1>1, <1>3, <1>5
  <2>2. w[j] = S[h + Ends(a, i - 1) + 4 + j]
    BY <1>3, <1>14, <2>1
  <2> QED
    BY <1>9, <1>15, <2>2
<1>17. body' = Upto(a[i])
  <2>1. Upto(a[i - 1]) \o Numbers(w) = Upto(a[i - 1] + chunk)
    BY <1>3, <1>8, <1>15, <1>16, UptoGrows
  <2> QED
    BY <1>1, <1>2, <1>8, <2>1 DEF w
<1>18. taken' - Len(stash') = h + Ends(a, i)
  BY <1>2, <1>11, <1>12
<1> QED
  BY <1>2, <1>7, <1>13, <1>17, <1>18 DEF BetweenChunks, h, a, n

\* What the server does, and a read that times out, changes nothing of this.
LEMMA Undisturbed ==
    ASSUME Receiving, UNCHANGED <<pc, response, taken, stash, code, length, chunk, body>>,
           UNCHANGED <<sent, conn>> \/ conn = "open"
    PROVE  Receiving'
<1>1. Failed => Failed'
  BY DEF Failed
<1>2. Cut => Cut'
  <2>1. Ended => Ended'
    BY DEF Ended, Readable
  <2> QED
    BY <2>1 DEF Cut
<1>3. (Counting => Counting') /\ (ToTheEnd => ToTheEnd') /\ (AfterChunks => AfterChunks')
  BY DEF Counting, ToTheEnd, AfterChunks
<1>4. BetweenChunks => BetweenChunks'
  BY DEF BetweenChunks
<1>5. InChunk => InChunk'
  BY DEF InChunk
<1>6. Returned => Returned'
  <2>1. Most' = Most
    BY DEF Most
  <2>2. Undelivered => Undelivered'
    BY DEF Undelivered
  <2> QED
    BY <2>1, <2>2 DEF Returned
<1> QED
  BY <1>1, <1>2, <1>3, <1>4, <1>5, <1>6 DEF Receiving

\* Nothing more is read of a stream that was cut within the header.
LEMMA CutStays ==
    ASSUME TypeOK, Cut, ClientStep, pc \notin Early
    PROVE  Cut'
<1>1. Ended /\ stash = <<>> /\ body = <<>> /\ ~Readable /\ chunk \in Nat
  BY DEF Cut, Ended, TypeOK
<1>2. ~HasLine
  <2>1. Len(stash) = 0
    BY <1>1
  <2>2. LineEnds(stash) = {}
    BY <2>1 DEF LineEnds
  <2> QED
    BY <2>2 DEF HasLine
<1>3. \A n : ~Received(n)
  BY <1>1 DEF Received
<1>4. ~(Connect \/ read_response_header \/ HeaderCut \/ parse_response_header)
  BY DEF Connect, read_response_header, HeaderCut, parse_response_header, Early
<1>5. ~(ReadCounted \/ ReadToEof \/ read_more \/ SizeLine \/ TrailerLine)
  BY <1>2, <1>3 DEF ReadCounted, ReadToEof, read_more, SizeLine, TrailerLine
<1>6. ~ChunkData
  <2>1. SUFFICES ASSUME ChunkData
                 PROVE  FALSE
    OBVIOUS
  <2>2. pc = "data" /\ ~MustRead
    BY <2>1 DEF ChunkData
  <2>3. ~(Len(stash) < chunk + 2)
    BY <2>2 DEF MustRead
  <2>4. Len(stash) = 0
    BY <1>1
  <2> QED
    BY <1>1, <2>3, <2>4
<1>7. CASE CountedDone \/ EofDone \/ ChunksCut
  <2>1. pc' = "done" /\ UNCHANGED <<response, sent, conn, taken, stash, body>>
    BY <1>7 DEF CountedDone, EofDone, ChunksCut, server
  <2> QED
    BY <2>1 DEF Cut, Ended, Readable, Early
<1>8. CASE TrailerCut \/ RecvTimesOut
  <2>1. UNCHANGED <<pc, response, sent, conn, taken, stash, body>>
    BY <1>8 DEF TrailerCut, RecvTimesOut, vars, server
  <2> QED
    BY <2>1 DEF Cut, Ended, Readable, Early
<1> QED
  BY <1>4, <1>5, <1>6, <1>7, <1>8 DEF ClientStep

\* A read into the stash leaves the place it begins at.
LEMMA MoreRead ==
    ASSUME TypeOK, BetweenChunks \/ InChunk \/ AfterChunks, read_more
    PROVE  BetweenChunks' \/ InChunk' \/ AfterChunks'
<1>1. PICK units : Read(units) /\ stash' = stash \o units
  BY DEF read_more, Read
<1>2. UNCHANGED <<pc, response, chunk, body>>
  BY DEF read_more, server, parsed
<1>3. taken' - Len(stash') = taken - Len(stash)
  BY <1>1, StashGrows
<1>4. BetweenChunks => BetweenChunks'
  BY <1>2, <1>3 DEF BetweenChunks
<1>5. InChunk => InChunk'
  BY <1>2, <1>3 DEF InChunk
<1>6. AfterChunks => AfterChunks'
  BY <1>2 DEF AfterChunks
<1> QED
  BY <1>4, <1>5, <1>6

\* Trailers change nothing of the body.
LEMMA TrailersRead ==
    ASSUME TypeOK, AfterChunks, TrailerLine
    PROVE  AfterChunks' \/ Returned'
<1>1. /\ UNCHANGED <<response, sent, conn, body>> /\ pc' \in {"done", "trailer"}
      /\ response.framing = "chunked" /\ body = Upto(Total(response.body))
  BY DEF TrailerLine, AfterChunks, server
<1>2. CASE pc' = "trailer"
  BY <1>1, <1>2 DEF AfterChunks
<1>3. CASE pc' = "done"
  <2>1. Total(response.body) \in 0..Most /\ Total(response.body) >= Total(response.body)
    BY Facts
  <2>2. Most' = Most
    BY <1>1 DEF Most
  <2> QED
    BY <1>1, <1>3, <2>1, <2>2 DEF Returned
<1> QED
  BY <1>1, <1>2, <1>3

LEMMA BodyStep == TypeOK /\ HeaderInv /\ BodyInv /\ [Next]_vars => BodyInv'
<1> SUFFICES ASSUME TypeOK, HeaderInv, BodyInv, [Next]_vars,
                    response'.fault = "none", pc' \notin Early
             PROVE  Receiving'
  BY DEF BodyInv
<1>1. response' = response
  BY DEF Next, ClientStep, vars, server, ServerSends, ServerCloses, Connect,
     read_response_header, HeaderCut, parse_response_header, ReadCounted, CountedDone, ReadToEof,
     EofDone, read_more, ChunksCut, SizeLine, ChunkData, TrailerLine, TrailerCut, RecvTimesOut,
     Done
<1>2. response.fault = "none"
  BY <1>1
<1>3. CASE pc \in Early
  <2>1. body = <<>> /\ code = -1
    BY <1>3 DEF HeaderInv
  <2>2. Connect \/ parse_response_header
    BY <1>3, ZenonT(60) DEF Next, ClientStep, vars, ServerSends, ServerCloses,
       read_response_header, HeaderCut, ReadCounted, CountedDone, ReadToEof, EofDone, read_more,
       ChunksCut, SizeLine, ChunkData, TrailerLine, TrailerCut, RecvTimesOut, Done, Early
  <2>3. CASE Connect
    <3>1. pc' = "done" /\ UNCHANGED <<code, body>>
      BY <2>3 DEF Connect, Early, parsed
    <3> QED
      BY <2>1, <3>1 DEF Failed, Receiving
  <2>4. CASE parse_response_header /\ taken < H(response)
    BY <2>4, ParsedCut DEF Receiving
  <2>5. CASE parse_response_header /\ ~(taken < H(response))
    <3>1. taken >= H(response)
      <4>1. taken \in Nat /\ H(response) \in Nat
        BY Streamed, Facts
      <4> QED
        BY <2>5, <4>1
    <3> QED
      BY <2>5, <3>1, ParsedWhole DEF Receiving
  <2> QED
    BY <2>2, <2>3, <2>4, <2>5
<1>4. CASE pc \notin Early
  <2>1. Receiving
    BY <1>2, <1>4 DEF BodyInv
  <2>2. CASE UNCHANGED vars \/ Done \/ TrailerCut \/ RecvTimesOut
    <3>1. /\ UNCHANGED <<pc, response, taken, stash, code, length, chunk, body>>
          /\ UNCHANGED <<sent, conn>>
      BY <2>2 DEF vars, server, parsed, Done, TrailerCut, RecvTimesOut
    <3> QED
      BY <2>1, <3>1, Undisturbed
  <2>3. CASE ServerSends \/ ServerCloses
    <3>1. /\ UNCHANGED <<pc, response, taken, stash, code, length, chunk, body>>
          /\ conn = "open"
      BY <2>3 DEF parsed, ServerSends, ServerCloses
    <3> QED
      BY <2>1, <3>1, Undisturbed
  <2>4. CASE ClientStep /\ Cut
    BY <1>4, <2>4, CutStays DEF Receiving
  <2>5. CASE ClientStep /\ ~Cut /\ ~(TrailerCut \/ RecvTimesOut)
    <3>1. \/ pc = "counted" /\ (ReadCounted \/ CountedDone)
          \/ pc = "to_eof" /\ (ReadToEof \/ EofDone)
          \/ pc = "size" /\ (read_more \/ ChunksCut \/ SizeLine)
          \/ pc = "data" /\ (read_more \/ ChunksCut \/ ChunkData)
          \/ pc = "trailer" /\ (read_more \/ TrailerLine)
      BY <1>4, <2>5, ZenonT(60) DEF ClientStep, Connect, read_response_header, HeaderCut,
         parse_response_header, ReadCounted, CountedDone, ReadToEof, EofDone, read_more,
         ChunksCut, SizeLine, ChunkData, TrailerLine, Early
    <3>2. /\ pc = "counted" => Counting
          /\ pc = "to_eof" => ToTheEnd
          /\ pc = "size" => BetweenChunks
          /\ pc = "data" => InChunk
          /\ pc = "trailer" => AfterChunks
      BY <2>1, <2>5 DEF Receiving, Failed, Counting, ToTheEnd, BetweenChunks, InChunk,
         AfterChunks, Returned
    <3>3. CASE pc = "counted" /\ (ReadCounted \/ CountedDone)
      BY <3>2, <3>3, CountedRead, CountedReturns DEF Receiving
    <3>4. CASE pc = "to_eof" /\ (ReadToEof \/ EofDone)
      BY <3>2, <3>4, EofRead, EofReturns DEF Receiving
    <3>5. CASE pc = "size" /\ (read_more \/ ChunksCut \/ SizeLine)
      BY <1>2, <3>2, <3>5, MoreRead, ChunksReturn, SizeRead DEF Receiving
    <3>6. CASE pc = "data" /\ (read_more \/ ChunksCut \/ ChunkData)
      BY <1>2, <3>2, <3>6, MoreRead, ChunksReturn, ChunkRead DEF Receiving
    <3>7. CASE pc = "trailer" /\ (read_more \/ TrailerLine)
      BY <3>2, <3>7, MoreRead, TrailersRead DEF Receiving
    <3> QED
      BY <3>1, <3>3, <3>4, <3>5, <3>6, <3>7
  <2> QED
    BY <2>2, <2>3, <2>4, <2>5 DEF Next
<1> QED
  BY <1>3, <1>4

LEMMA ClientKeeps == ClientInv /\ [Next]_vars => ClientInv'
<1> SUFFICES ASSUME ClientInv, [Next]_vars
             PROVE  ClientInv'
  OBVIOUS
<1>1. TypeOK /\ NoStash /\ HeaderInv /\ BodyInv
  BY DEF ClientInv
<1>2. TypeOK'
  BY <1>1, TypeStep
<1>3. NoStash'
  BY <1>1, NoStashStep
<1>4. HeaderInv'
  BY <1>1, <1>2, HeaderStep
<1>5. BodyInv'
  BY <1>1, BodyStep
<1> QED
  BY <1>2, <1>3, <1>4, <1>5 DEF ClientInv

-----------------------------------------------------------------------------
(* What the caller gets.                                                    *)

\* Fewer bytes of the payload are a prefix of more.
LEMMA UptoPrefix ==
    ASSUME NEW k \in Nat, NEW t \in Nat, k <= t
    PROVE  IsPrefix(Upto(k), Upto(t))
<1>1. /\ Upto(k) \in Seq(Nat) /\ Len(Upto(k)) = k /\ (\A j \in 1..k : Upto(k)[j] = j)
      /\ Upto(t) \in Seq(Nat) /\ Len(Upto(t)) = t /\ (\A j \in 1..t : Upto(t)[j] = j)
  BY UptoTyped
<1>2. 0 \in Nat /\ 0 <= k /\ k - 0 = k /\ 0 + 1 = 1 /\ k <= Len(Upto(t))
  BY <1>1
<1>3. /\ SubSeq(Upto(t), 0 + 1, k) \in Seq(Nat) /\ Len(SubSeq(Upto(t), 0 + 1, k)) = k - 0
      /\ \A j \in 1..(k - 0) : SubSeq(Upto(t), 0 + 1, k)[j] = Upto(t)[0 + j]
  BY <1>1, <1>2, Window
<1>4. \A j \in 1..k : 0 + j = j /\ j \in 1..t
  OBVIOUS
<1>5. SubSeq(Upto(t), 1, k) = Upto(k)
  BY <1>1, <1>2, <1>3, <1>4, IsUpto
<1> QED
  BY <1>1, <1>5 DEF IsPrefix

\* The invariant implies the first half of BodyIsPayload.
LEMMA PrefixFollows == ClientInv => BodyIsPrefix
<1> SUFFICES ASSUME ClientInv, response.fault = "none",
                    ReadsToEof(response) => response.extra = 0
             PROVE  IsPrefix(body, Payload(response))
  BY DEF BodyIsPrefix
<1> DEFINE h == H(response)
           t == Total(response.body)
<1>1. TypeOK /\ HeaderInv /\ BodyInv
  BY DEF ClientInv
<1>2. /\ t \in Nat /\ h \in Nat /\ Len(response.body) \in Nat /\ taken \in Nat /\ sent \in Nat
      /\ taken <= sent /\ sent <= Len(Stream(response)) /\ response \in Responses
      /\ response.extra \in Nat
  BY <1>1, Facts, Streamed
<1>3. Payload(response) = Upto(t)
  BY DEF Payload, Upto
<1>4. SUFFICES \E k \in 0..t : body = Upto(k)
  <2>1. \A k \in 0..t : k \in Nat /\ k <= t
    BY <1>2
  <2> QED
    BY <1>2, <1>3, <2>1, UptoPrefix
<1>5. CASE body = <<>>
  <2>1. 0 \in 0..t
    BY <1>2
  <2> QED
    BY <1>5, <2>1, NoByte
<1>6. CASE Counting
  <2>1. length = t /\ body = Upto(Lesser(length, taken - h)) /\ taken >= h
    BY <1>6 DEF Counting
  <2>2. Lesser(length, taken - h) \in 0..t
    BY <1>2, <2>1 DEF Lesser
  <2> QED
    BY <2>1, <2>2
<1>7. CASE ToTheEnd
  <2>1. ReadsToEof(response) /\ taken >= h /\ body = Upto(taken - h)
    BY <1>7 DEF ToTheEnd
  <2>2. response.extra = 0 /\ response.framing # "chunked"
    BY <2>1 DEF ReadsToEof
  <2>3. Len(Stream(response)) = h + (t + response.extra)
    BY <1>2, <2>2, PlainStream
  <2>4. taken - h \in 0..t
    <3>1. \A x, y, z, w \in Nat : x >= y /\ x <= w /\ w <= y + (z + 0) => x - y \in 0..z
      OBVIOUS
    <3> QED
      BY <1>2, <2>1, <2>2, <2>3, <3>1
  <2> QED
    BY <2>1, <2>4
<1>8. CASE BetweenChunks \/ InChunk
  <2>1. PICK i \in 0..Len(response.body) : body = Upto(Sizes(response)[i])
    <3>1. \A i \in 1..Len(response.body) : i - 1 \in 0..Len(response.body)
      BY <1>2
    <3> QED
      BY <1>8, <3>1 DEF BetweenChunks, InChunk
  <2>2. Sizes(response)[i] \in Nat /\ Sizes(response)[i] <= t
    BY <1>1, ChunkFacts
  <2>3. Sizes(response)[i] \in 0..t
    BY <1>2, <2>2
  <2> QED
    BY <2>1, <2>3
<1>9. CASE AfterChunks
  <2>1. t \in 0..t
    BY <1>2
  <2> QED
    BY <1>9, <2>1 DEF AfterChunks
<1>10. CASE Returned
  <2>1. Most = t
    BY <1>2 DEF Most
  <2> QED
    BY <1>10, <2>1 DEF Returned
<1>11. CASE pc \in Early
  BY <1>1, <1>5, <1>11 DEF HeaderInv
<1>12. CASE pc \notin Early
  <2>1. Receiving
    BY <1>1, <1>12 DEF BodyInv
  <2> QED
    BY <1>5, <1>6, <1>7, <1>8, <1>9, <1>10, <2>1 DEF Receiving, Failed, Cut
<1> QED
  BY <1>11, <1>12

\* The invariant implies the second half of BodyIsPayload.
LEMMA CompleteFollows == ClientInv => CompleteWhenDelivered
<1> SUFFICES ASSUME ClientInv, pc = "done", code # -1, conn # "reset",
                    sent = Len(Stream(response)), response.fault = "none"
             PROVE  Payload(response) = FirstOf(body, Total(response.body))
  BY DEF CompleteWhenDelivered
<1> DEFINE t == Total(response.body)
<1>1. TypeOK /\ Receiving
  BY DEF ClientInv, BodyInv, Early
<1>2. /\ t \in Nat /\ H(response) \in Nat /\ H(response) <= Len(Stream(response))
      /\ taken \in Nat /\ sent \in Nat /\ Most \in Nat
  BY <1>1, Facts, Streamed
<1>3. ~Cut
  <2>1. SUFFICES ASSUME Cut
                 PROVE  FALSE
    OBVIOUS
  <2>2. sent = taken /\ taken < H(response)
    BY <1>1, <2>1, StuckReader DEF Cut
  <2> QED
    BY <1>2, <2>2
<1>4. Returned
  BY <1>1, <1>3 DEF Receiving, Failed, Counting, ToTheEnd, BetweenChunks, InChunk, AfterChunks
<1>5. ~Undelivered
  <2>1. ~(sent < Len(Stream(response)))
    BY <1>2
  <2> QED
    BY <2>1 DEF Undelivered
<1>6. PICK k \in 0..Most : body = Upto(k) /\ k >= t
  BY <1>4, <1>5 DEF Returned
<1>7. k \in Nat /\ Lesser(t, k) = t
  BY <1>2, <1>6 DEF Lesser
<1>8. FirstOf(body, t) = Upto(t)
  BY <1>2, <1>6, <1>7, FirstOfUpto
<1> QED
  BY <1>8 DEF Payload, Upto

\* The body that request() returns, however the stream is cut into reads and wherever
\* it ends: bytes of the payload, in order and from the start, without a size line or a
\* CRLF of the framing; and the whole payload if the server delivered it.
THEOREM BodyIsThePayload == Spec => []BodyIsPayload
<1>1. Init => ClientInv
  BY ClientInit
<1>2. ClientInv /\ [Next]_vars => ClientInv'
  BY ClientKeeps
<1>3. ClientInv => BodyIsPayload
  BY PrefixFollows, CompleteFollows DEF ClientInv, BodyIsPayload
<1> QED
  BY <1>1, <1>2, <1>3, PTL DEF Spec

=============================================================================
