--------------------------- MODULE HttpSessionProofs ---------------------------
(***************************************************************************)
(* Proofs about HttpSession, for every script of requests and every initial *)
(* size of the buffer.                                                     *)
(*                                                                         *)
(* Three parts.  The first finds where the requests lie in what the client  *)
(* sends: Stream is a fold, and what it computes is shown by induction over *)
(* the number of requests, told of sets (EveryNumber).  The second shows    *)
(* that the buffer is always the part of the stream behind the requests     *)
(* served so far, and the parser's memory that of the request in front      *)
(* (Delivery).  The third rests the announcements, the answers, the closing *)
(* and the timer on it; SessionInv is the whole inductive invariant.        *)
(***************************************************************************)
EXTENDS HttpSession, SequenceTheorems, WellFoundedInduction, TLAPS

-----------------------------------------------------------------------------
(* Induction, told of sets instead of predicates.                           *)

\* A set of numbers has a smallest one.
LEMMA SmallestNumber ==
    ASSUME NEW T, T \subseteq Nat, T # {}
    PROVE  \E n \in T : \A k \in T : n <= k
<1> DEFINE R == OpToRel(<, Nat)
<1>1. IsWellFoundedOn(R, Nat)
  BY NatLessThanWellFounded
<1>2. \A x, y \in Nat : <<y, x>> \in R <=> y < x
  BY DEF OpToRel
<1> HIDE DEF R
<1>3. PICK n \in T : \A k \in T : ~(<<k, n>> \in R)
  BY <1>1, WFMin
<1>4. ASSUME NEW k \in T
      PROVE  n <= k
  <2>1. n \in Nat /\ k \in Nat /\ ~(k < n)
    BY <1>2, <1>3
  <2> QED
    BY <2>1
<1> QED
  BY <1>4

\* A set that holds 0, and with each number the next, holds every number.
LEMMA EveryNumber ==
    ASSUME NEW T, 0 \in T, \A n \in Nat : n \in T => n + 1 \in T
    PROVE  \A n \in Nat : n \in T
<1> SUFFICES ASSUME NEW m \in Nat, m \notin T
             PROVE  FALSE
  OBVIOUS
<1>0. Nat \ T # {} /\ Nat \ T \subseteq Nat
  OBVIOUS
<1>1. PICK n \in Nat \ T : \A k \in Nat \ T : n <= k
  BY <1>0, SmallestNumber
<1>2. n # 0 /\ n \in Nat
  OBVIOUS
<1>3. n - 1 \in Nat /\ n - 1 < n /\ (n - 1) + 1 = n
  BY <1>2
<1>4. n - 1 \in T
  BY <1>1, <1>2, <1>3
<1> QED
  BY <1>1, <1>2, <1>3, <1>4

-----------------------------------------------------------------------------
(* What FlattenSeq computes.                                                *)

\* f joins the first n of the sequences, one after the other.
Joins(f, s, n) == f = [i \in 1..n |-> IF i = 1 THEN s[i] ELSE f[i-1] \o s[i]]

\* Joining one sequence after the other has a result, however many there are.
LEMMA JoinsExist ==
    ASSUME NEW s, NEW n \in Nat
    PROVE  \E f : Joins(f, s, n)
<1> DEFINE T == {m \in Nat : \E f : Joins(f, s, m)}
<1>1. 0 \in T
  <2> DEFINE f == [i \in 1..0 |-> s[i]]
  <2>1. Joins(f, s, 0)
    BY DEF Joins
  <2> QED
    BY <2>1
<1>2. ASSUME NEW m \in Nat, m \in T
      PROVE  m + 1 \in T
  <2>1. PICK f : Joins(f, s, m)
    BY <1>2
  <2> DEFINE g == [i \in 1..(m + 1) |-> IF i = m + 1 THEN (IF i = 1 THEN s[i] ELSE f[m] \o s[i])
                                                    ELSE f[i]]
             h == [i \in 1..(m + 1) |-> IF i = 1 THEN s[i] ELSE g[i-1] \o s[i]]
  <2>2. ASSUME NEW i \in 1..(m + 1)
        PROVE  g[i] = h[i]
    <3>1. CASE i = m + 1 /\ i = 1
      BY <3>1
    <3>2. CASE i = m + 1 /\ i # 1
      <4>1. i - 1 = m /\ m \in 1..(m + 1) /\ m # m + 1
        BY <3>2
      <4>2. g[i - 1] = f[m]
        BY <4>1
      <4> QED
        BY <3>2, <4>2
    <3>3. CASE i # m + 1
      <4>1. i \in 1..m
        BY <3>3
      <4>2. f[i] = IF i = 1 THEN s[i] ELSE f[i-1] \o s[i]
        BY <2>1, <4>1 DEF Joins
      <4>3. g[i] = f[i]
        BY <3>3
      <4>4. i # 1 => g[i-1] = f[i-1]
        <5>1. i # 1 => i - 1 \in 1..(m + 1) /\ i - 1 # m + 1
          BY <4>1
        <5> QED
          BY <5>1
      <4> QED
        BY <4>2, <4>3, <4>4
    <3> QED
      BY <3>1, <3>2, <3>3
  <2>3. g = h
    <3> HIDE DEF g
    <3> SUFFICES g \in [1..(m+1) -> {g[i] : i \in 1..(m+1)}]
      BY <2>2
    <3> QED
      BY DEF g
  <2>4. Joins(g, s, m + 1)
    <3> HIDE DEF g
    <3> QED
      BY <2>3 DEF Joins
  <2> HIDE DEF g
  <2> QED
    BY <2>4
<1>3. n \in T
  <2> HIDE DEF T
  <2> QED
    BY <1>1, <1>2, EveryNumber
<1> QED
  BY <1>3

\* What FlattenSeq returns is the last of those joins.
LEMMA Flattened ==
    ASSUME NEW s, Len(s) \in Nat, Len(s) # 0
    PROVE  \E f : Joins(f, s, Len(s)) /\ FlattenSeq(s) = f[Len(s)]
<1> DEFINE F == CHOOSE f : Joins(f, s, Len(s))
<1>1. Joins(F, s, Len(s))
  BY JoinsExist
<1>2. FlattenSeq(s) = F[Len(s)]
  BY DEF FlattenSeq, Joins
<1> QED
  BY <1>1, <1>2

-----------------------------------------------------------------------------
(* Where the requests lie in what the client sends.                         *)

N == Len(Script)
Size(i) == Script[i].head + Script[i].body
RequestAt(i) == HeadOf(i) \o BodyOf(i)

\* Places(e, f, n): the first n requests lie in f one after the other, the i-th one
\* behind position e[i - 1] and up to e[i].
Places(e, f, n) ==
    /\ e \in [0..n -> Nat] /\ e[0] = 0 /\ e[n] = Len(f)
    /\ f \in Seq((1..N) \X Nat)
    /\ \A i \in 1..n : e[i] = e[i - 1] + Size(i) /\ e[i] <= e[n]
    /\ \A i \in 1..n : \A j \in 1..Size(i) : f[e[i - 1] + j] = <<i, j>>
    /\ \A p \in 1..Len(f) : \E i \in 1..n : \E j \in 1..Size(i) : p = e[i - 1] + j

\* What the assumption on the script says of one request.
LEMMA ScriptTyped ==
    /\ N \in Nat
    /\ \A i \in 1..N : /\ Script[i].head \in Nat /\ Script[i].head >= 1
                       /\ Script[i].body \in Nat
                       /\ Script[i].expect \in BOOLEAN /\ Script[i].close \in BOOLEAN
                       /\ Size(i) \in Nat /\ Size(i) >= 1
<1>1. N \in Nat
  BY SessionAssumption DEF N
<1>2. ASSUME NEW i \in 1..N
      PROVE  Script[i] \in [head : Nat \ {0}, body : Nat, expect : BOOLEAN, close : BOOLEAN]
  BY SessionAssumption, ElementOfSeq DEF N
<1> QED
  BY <1>1, <1>2 DEF Size

\* One request: its header and its body, byte by byte.
LEMMA OneRequest ==
    ASSUME NEW i \in 1..N
    PROVE  /\ HeadOf(i) \in Seq((1..N) \X Nat) /\ Len(HeadOf(i)) = Script[i].head
           /\ BodyOf(i) \in Seq((1..N) \X Nat) /\ Len(BodyOf(i)) = Script[i].body
           /\ RequestAt(i) \in Seq((1..N) \X Nat)
           /\ Len(RequestAt(i)) = Size(i)
           /\ \A j \in 1..Size(i) : RequestAt(i)[j] = <<i, j>>
<1> DEFINE h == Script[i].head
           b == Script[i].body
           B == (1..N) \X Nat
<1>1. h \in Nat /\ b \in Nat /\ Size(i) = h + b
  BY ScriptTyped DEF Size
<1> HIDE DEF h, b
<1>2. /\ HeadOf(i) = [j \in 1..h |-> <<i, j>>]
      /\ BodyOf(i) = [j \in 1..b |-> <<i, h + j>>]
  BY DEF HeadOf, BodyOf, h, b
<1>3. HeadOf(i) \in Seq(B) /\ Len(HeadOf(i)) = h
  BY <1>1, <1>2
<1>4. BodyOf(i) \in Seq(B) /\ Len(BodyOf(i)) = b
  BY <1>1, <1>2
<1>5. RequestAt(i) \in Seq(B) /\ Len(RequestAt(i)) = h + b
  BY <1>1, <1>3, <1>4, ConcatProperties DEF RequestAt
<1>6. ASSUME NEW j \in 1..Size(i)
      PROVE  RequestAt(i)[j] = <<i, j>>
  <2>1. CASE j <= h
    <3>1. j \in 1..h
      BY <1>1, <2>1
    <3>2. RequestAt(i)[j] = HeadOf(i)[j]
      BY <1>1, <1>3, <1>4, <3>1 DEF RequestAt
    <3> QED
      BY <1>2, <3>1, <3>2
  <2>2. CASE ~(j <= h)
    <3>1. j - h \in 1..b /\ h + (j - h) = j
      BY <1>1, <2>2
    <3>2. RequestAt(i)[j] = BodyOf(i)[j - h]
      BY <1>1, <1>3, <1>4, <3>1, <2>2 DEF RequestAt
    <3> QED
      BY <1>2, <3>1, <3>2
  <2> QED
    BY <2>1, <2>2
<1> QED
  BY <1>1, <1>3, <1>4, <1>5, <1>6 DEF h, b

\* One more request at the end of what is laid out.
LEMMA OneMore ==
    ASSUME NEW n \in Nat, n + 1 \in 1..N, NEW e, NEW f, Places(e, f, n)
    PROVE  \E d : Places(d, f \o RequestAt(n + 1), n + 1)
<1> DEFINE m == n + 1
           r == RequestAt(m)
           g == f \o r
           B == (1..N) \X Nat
           d == [i \in 0..m |-> IF i = m THEN e[n] + Size(m) ELSE e[i]]
<1>1. /\ r \in Seq(B) /\ Len(r) = Size(m) /\ \A j \in 1..Size(m) : r[j] = <<m, j>>
      /\ Size(m) \in Nat
  BY OneRequest, ScriptTyped
<1>2. /\ e \in [0..n -> Nat] /\ e[0] = 0 /\ e[n] = Len(f)
      /\ f \in Seq(B)
      /\ \A i \in 1..n : e[i] = e[i - 1] + Size(i) /\ e[i] <= e[n]
      /\ \A i \in 1..n : \A j \in 1..Size(i) : f[e[i - 1] + j] = <<i, j>>
      /\ \A p \in 1..Len(f) : \E i \in 1..n : \E j \in 1..Size(i) : p = e[i - 1] + j
  BY DEF Places
<1>3. n \in 0..n /\ e[n] \in Nat
  BY <1>2
<1> HIDE DEF r
<1>4. /\ g \in Seq(B) /\ Len(g) = Len(f) + Size(m)
      /\ \A p \in 1..Len(f) : g[p] = f[p]
      /\ \A j \in 1..Size(m) : g[Len(f) + j] = r[j]
  <2>1. \A p \in 1..Len(f) : p \in 1..(Len(f) + Len(r)) /\ p <= Len(f)
    BY <1>1, <1>2
  <2>2. \A j \in 1..Size(m) : /\ Len(f) + j \in 1..(Len(f) + Len(r))
                              /\ ~(Len(f) + j <= Len(f))
                              /\ (Len(f) + j) - Len(f) = j
    BY <1>1, <1>2
  <2>3. /\ g \in Seq(B) /\ Len(g) = Len(f) + Len(r)
        /\ \A i \in 1..(Len(f) + Len(r)) : g[i] = IF i <= Len(f) THEN f[i] ELSE r[i - Len(f)]
    BY <1>1, <1>2, ConcatProperties
  <2> HIDE DEF g
  <2> QED
    BY <1>1, <2>1, <2>2, <2>3
<1> HIDE DEF g
<1>5. /\ m \in Nat /\ m # 0 /\ m - 1 = n
      /\ \A i \in 0..n : i \in 0..m /\ i # m
      /\ \A i \in 1..n : i - 1 \in 0..n
      /\ \A i \in 1..m : i \in 1..n \/ i = m
      /\ 1..n \subseteq 1..m /\ m \in 1..m /\ m \in 0..m
  OBVIOUS
<1>6. /\ \A i \in 0..n : d[i] = e[i]
      /\ d[m] = e[n] + Size(m)
      /\ d \in [0..m -> Nat]
  BY <1>1, <1>2, <1>3, <1>5
<1> HIDE DEF d, m
<1>7. d[0] = 0 /\ d[m] = Len(g)
  BY <1>2, <1>4, <1>6
<1>8. ASSUME NEW i \in 1..m
      PROVE  d[i] = d[i - 1] + Size(i) /\ d[i] <= d[m]
  <2>1. CASE i \in 1..n
    <3>1. d[i] = e[i] /\ d[i - 1] = e[i - 1]
      BY <1>5, <1>6, <2>1
    <3>2. e[i] \in Nat /\ e[i] <= e[n]
      BY <1>2, <2>1
    <3> QED
      BY <1>1, <1>2, <1>3, <1>6, <2>1, <3>1, <3>2
  <2>2. CASE i = m
    BY <1>1, <1>3, <1>5, <1>6, <2>2
  <2> QED
    BY <1>5, <2>1, <2>2
<1>9. ASSUME NEW i \in 1..m, NEW j \in 1..Size(i)
      PROVE  g[d[i - 1] + j] = <<i, j>>
  <2>1. CASE i \in 1..n
    <3>1. d[i - 1] = e[i - 1] /\ e[i - 1] \in Nat
      BY <1>2, <1>5, <1>6, <2>1
    <3>2. e[i] = e[i - 1] + Size(i) /\ e[i] <= Len(f) /\ e[i] \in Nat
      BY <1>2, <2>1
    <3>3. Size(i) \in Nat
      <4>1. i \in 1..N
        BY <2>1 DEF N
      <4> QED
        BY <4>1, ScriptTyped
    <3>4. e[i - 1] + j \in 1..Len(f)
      <4>1. \A a, b, c, l \in Nat : \A k \in 1..b : c = a + b /\ c <= l => a + k \in 1..l
        OBVIOUS
      <4>2. Len(f) \in Nat
        BY <1>2
      <4> QED
        BY <3>1, <3>2, <3>3, <4>1, <4>2
    <3> QED
      BY <1>2, <1>4, <2>1, <3>1, <3>4
  <2>2. CASE i = m
    <3>1. d[i - 1] = Len(f)
      BY <1>2, <1>3, <1>5, <1>6, <2>2
    <3>2. j \in 1..Size(m)
      BY <2>2
    <3> QED
      BY <1>1, <1>4, <2>2, <3>1, <3>2
  <2> QED
    BY <1>5, <2>1, <2>2
<1>10. ASSUME NEW p \in 1..Len(g)
       PROVE  \E i \in 1..m : \E j \in 1..Size(i) : p = d[i - 1] + j
  <2>1. CASE p <= Len(f)
    <3>1. p \in 1..Len(f)
      BY <1>2, <2>1
    <3>0. PICK i \in 1..n : \E j \in 1..Size(i) : p = e[i - 1] + j
      BY <1>2, <3>1
    <3>2. PICK j \in 1..Size(i) : p = e[i - 1] + j
      BY <3>0
    <3>3. i \in 1..m /\ d[i - 1] = e[i - 1]
      BY <1>5, <1>6
    <3> QED
      BY <3>2, <3>3
  <2>2. CASE ~(p <= Len(f))
    <3>1. p - Len(f) \in 1..Size(m) /\ p = Len(f) + (p - Len(f))
      BY <1>1, <1>2, <1>4, <2>2
    <3>2. d[m - 1] = Len(f)
      BY <1>2, <1>5, <1>6
    <3> QED
      BY <1>5, <3>1, <3>2
  <2> QED
    BY <2>1, <2>2
<1>11. Places(d, g, m)
  BY <1>4, <1>6, <1>7, <1>8, <1>9, <1>10 DEF Places
<1> QED
  BY <1>11 DEF g, r, m

\* All the requests lie in the stream.
LEMMA StreamLaidOut == \E e : Places(e, Stream, N)
<1> DEFINE s == [i \in 1..N |-> RequestAt(i)]
<1>1. s = [i \in 1..Len(Script) |-> HeadOf(i) \o BodyOf(i)] /\ Stream = FlattenSeq(s)
  BY DEF Stream, RequestAt, N
<1>2. N \in Nat /\ Len(s) = N /\ DOMAIN s = 1..N
  BY ScriptTyped
<1>3. \A i \in 1..N : s[i] = RequestAt(i)
  OBVIOUS
<1>4. N = 0 => s = <<>>
  OBVIOUS
<1> HIDE DEF s
<1>5. CASE N = 0
  <2> DEFINE e == [i \in 0..0 |-> 0]
  <2>1. Stream = <<>>
    BY <1>1, <1>2, <1>4, <1>5 DEF FlattenSeq
  <2>2. Places(e, <<>>, 0)
    BY DEF Places
  <2> QED
    BY <1>5, <2>1, <2>2
<1>6. CASE N # 0
  <2>1. PICK f : Joins(f, s, N) /\ Stream = f[N]
    BY <1>1, <1>2, <1>6, Flattened
  <2>2. \A i \in 1..N : f[i] = IF i = 1 THEN s[i] ELSE f[i-1] \o s[i]
    BY <2>1 DEF Joins
  <2> DEFINE T == {n \in Nat : n + 1 \in 1..N => \E e : Places(e, f[n + 1], n + 1)}
  <2>3. 0 \in T
    <3> SUFFICES \E e : Places(e, f[1], 1)
      OBVIOUS
    <3>1. 1 \in 1..N
      BY <1>2, <1>6
    <3> DEFINE z == [i \in 0..0 |-> 0]
    <3>2. Places(z, <<>>, 0)
      BY DEF Places
    <3>3. \E e : Places(e, <<>> \o RequestAt(1), 1)
      <4> HIDE DEF z
      <4>1. 0 \in Nat /\ 0 + 1 \in 1..N
        BY <3>1
      <4>2. \E e : Places(e, <<>> \o RequestAt(0 + 1), 0 + 1)
        BY <3>2, <4>1, OneMore
      <4>3. 0 + 1 = 1
        OBVIOUS
      <4> QED
        BY <4>2, <4>3
    <3>4. f[1] = <<>> \o RequestAt(1)
      <4>1. f[1] = RequestAt(1)
        BY <1>3, <2>2, <3>1
      <4>2. RequestAt(1) \in Seq((1..N) \X Nat)
        BY <3>1, OneRequest
      <4> QED
        BY <4>1, <4>2
    <3> QED
      BY <3>3, <3>4
  <2>4. ASSUME NEW n \in Nat, n \in T
        PROVE  n + 1 \in T
    <3> SUFFICES ASSUME (n + 1) + 1 \in 1..N
                 PROVE  \E e : Places(e, f[(n + 1) + 1], (n + 1) + 1)
      OBVIOUS
    <3>1. n + 1 \in 1..N /\ n + 1 \in Nat /\ (n + 1) + 1 # 1 /\ ((n + 1) + 1) - 1 = n + 1
      BY <1>2
    <3>2. PICK e : Places(e, f[n + 1], n + 1)
      BY <2>4, <3>1
    <3>3. f[(n + 1) + 1] = f[n + 1] \o RequestAt((n + 1) + 1)
      BY <1>3, <2>2, <3>1
    <3> QED
      BY <3>1, <3>2, <3>3, OneMore
  <2>5. N - 1 \in T /\ (N - 1) + 1 = N
    <3>1. N - 1 \in Nat /\ (N - 1) + 1 = N
      BY <1>2, <1>6
    <3> HIDE DEF T
    <3>2. \A n \in Nat : n \in T
      BY <2>3, <2>4, EveryNumber
    <3> QED
      BY <3>1, <3>2
  <2>6. N \in 1..N
    BY <1>2, <1>6
  <2> QED
    BY <2>1, <2>5, <2>6
<1> QED
  BY <1>5, <1>6

\* The places of the requests in the stream: the i-th one ends at position Ends[i].
Ends == CHOOSE e : Places(e, Stream, N)

\* Request i lies between the ends of requests i - 1 and i, and nothing else is sent.
LEMMA Layout ==
    /\ N \in Nat /\ Len(Stream) \in Nat
    /\ Stream \in Seq(Bytes)
    /\ Ends \in [0..N -> Nat] /\ Ends[0] = 0 /\ Ends[N] = Len(Stream)
    /\ \A i \in 1..N : /\ Ends[i] = Ends[i - 1] + Size(i)
                       /\ Ends[i] <= Len(Stream)
                       /\ Ends[i - 1] \in Nat
                       /\ Size(i) <= Len(Stream)
    /\ \A i \in 1..N : \A j \in 1..Size(i) : Stream[Ends[i - 1] + j] = <<i, j>>
<1>1. Places(Ends, Stream, N)
  BY StreamLaidOut DEF Ends
<1>2. N \in Nat /\ \A i \in 1..N : Size(i) \in Nat
  BY ScriptTyped
<1>3. /\ Ends \in [0..N -> Nat] /\ Ends[0] = 0 /\ Ends[N] = Len(Stream)
      /\ Stream \in Seq((1..N) \X Nat)
      /\ \A i \in 1..N : Ends[i] = Ends[i - 1] + Size(i) /\ Ends[i] <= Ends[N]
      /\ \A i \in 1..N : \A j \in 1..Size(i) : Stream[Ends[i - 1] + j] = <<i, j>>
      /\ \A p \in 1..Len(Stream) : \E i \in 1..N : \E j \in 1..Size(i) : p = Ends[i - 1] + j
  BY <1>1 DEF Places
<1>4. Len(Stream) \in Nat
  BY <1>3
<1>5. ASSUME NEW i \in 1..N
      PROVE  /\ Ends[i - 1] \in Nat
             /\ Size(i) <= Len(Stream)
  <2>1. i - 1 \in 0..N /\ i \in 0..N
    BY <1>2
  <2>2. Ends[i - 1] \in Nat /\ Ends[i] \in Nat
    BY <1>3, <2>1
  <2> QED
    BY <1>2, <1>3, <1>4, <2>2
<1>6. ASSUME NEW p \in 1..Len(Stream)
      PROVE  Stream[p] \in Bytes
  <2>0. PICK i \in 1..N : \E j \in 1..Size(i) : p = Ends[i - 1] + j
    BY <1>3
  <2>1. PICK j \in 1..Size(i) : p = Ends[i - 1] + j
    BY <2>0
  <2>2. Stream[p] = <<i, j>>
    BY <1>3, <2>1
  <2>3. i \in 1..Len(Script) /\ j \in 1..Len(Stream)
    BY <1>2, <1>4, <1>5 DEF N
  <2> QED
    BY <2>2, <2>3 DEF Bytes
<1>7. Stream \in Seq(Bytes)
  <2>1. Stream = [p \in 1..Len(Stream) |-> Stream[p]]
    BY <1>3
  <2>2. Stream \in [1..Len(Stream) -> Bytes]
    BY <1>6, <2>1
  <2> QED
    BY <1>4, <2>2
<1> QED
  BY <1>2, <1>3, <1>4, <1>5, <1>7

-----------------------------------------------------------------------------
(* Types.                                                                   *)

\* A piece of a sequence of typed elements.
LEMMA Piece ==
    ASSUME NEW S, NEW s \in Seq(S), NEW a \in Nat \ {0}, NEW b \in Nat, b <= Len(s)
    PROVE  /\ SubSeq(s, a, b) \in Seq(S)
           /\ Len(SubSeq(s, a, b)) = IF a <= b THEN (b - a) + 1 ELSE 0
           /\ \A p \in 1..Len(SubSeq(s, a, b)) : SubSeq(s, a, b)[p] = s[(a - 1) + p]
<1>0. Len(s) \in Nat
  OBVIOUS
<1>1. \A i \in a..b : s[i] \in S
  <2>1. \A i \in a..b : i \in 1..Len(s)
    BY <1>0
  <2> QED
    BY <2>1, ElementOfSeq
<1>2. /\ SubSeq(s, a, b) \in Seq(S)
      /\ Len(SubSeq(s, a, b)) = IF a <= b THEN b - a + 1 ELSE 0
      /\ \A i \in 1..(b - a + 1) : SubSeq(s, a, b)[i] = s[a + i - 1]
  <2>1. a \in Int /\ b \in Int
    OBVIOUS
  <2> QED
    BY <1>1, <2>1, SubSeqProperties
<1>3. Len(SubSeq(s, a, b)) = IF a <= b THEN (b - a) + 1 ELSE 0
  BY <1>2
<1>4. ASSUME NEW p \in 1..Len(SubSeq(s, a, b))
      PROVE  SubSeq(s, a, b)[p] = s[(a - 1) + p]
  <2>1. p \in 1..(b - a + 1) /\ a + p - 1 = (a - 1) + p
    BY <1>3
  <2> QED
    BY <1>2, <2>1
<1> QED
  BY <1>2, <1>3, <1>4

\* What one read takes from the stream.
LEMMA PieceOfStream ==
    ASSUME NEW k \in Nat, NEW n \in Nat, n >= 1, k + n <= Len(Stream)
    PROVE  /\ SubSeq(Stream, k + 1, k + n) \in Seq(Bytes)
           /\ Len(SubSeq(Stream, k + 1, k + n)) = n
           /\ \A p \in 1..n : SubSeq(Stream, k + 1, k + n)[p] = Stream[k + p]
<1> DEFINE a == k + 1
           b == k + n
<1>1. /\ a \in Nat \ {0} /\ b \in Nat /\ b <= Len(Stream)
      /\ a <= b /\ (b - a) + 1 = n /\ a - 1 = k
  OBVIOUS
<1> HIDE DEF a, b
<1>2. /\ SubSeq(Stream, a, b) \in Seq(Bytes)
      /\ Len(SubSeq(Stream, a, b)) = IF a <= b THEN (b - a) + 1 ELSE 0
      /\ \A p \in 1..Len(SubSeq(Stream, a, b)) : SubSeq(Stream, a, b)[p] = Stream[(a - 1) + p]
  BY <1>1, Layout, Piece
<1>3. Len(SubSeq(Stream, a, b)) = n
  BY <1>1, <1>2
<1> QED
  BY <1>1, <1>2, <1>3 DEF a, b

LEMMA TypeInit == Init => TypeOK
<1> SUFFICES ASSUME Init
             PROVE  TypeOK
  OBVIOUS
<1>1. /\ pc \in {"handshake", "reading"} /\ tls \in BOOLEAN
      /\ buf = <<>> /\ size = InitialSize /\ have = FALSE /\ hlen = 0 /\ clen = 0
      /\ expect = FALSE /\ keep = FALSE /\ current = NoRequest
      /\ armed = FALSE /\ queued = FALSE /\ since = 0 /\ overtaken = 0 /\ sock = "open" /\ client = "open"
      /\ sent = 0 /\ received = 0 /\ served = <<>> /\ answered = <<>>
      /\ continued = [i \in 1..Len(Script) |-> 0]
  BY DEF Init
<1>2. Len(Stream) \in Nat /\ sent \in 0..Len(Stream)
  BY <1>1, Layout
<1>3. buf \in Seq(Bytes) /\ hlen \in 0..Len(buf)
  BY <1>1
<1>4. current \in [head : Seq(Bytes), body : Seq(Bytes)]
  BY <1>1 DEF NoRequest
<1>5. size \in Nat
  BY <1>1, SessionAssumption
<1>6. /\ served \in Seq([head : Seq(Bytes), body : Seq(Bytes)])
      /\ answered \in Seq([head : Seq(Bytes), body : Seq(Bytes)])
      /\ continued \in [1..Len(Script) -> Nat]
      /\ received \in 0..sent /\ clen \in Nat
  BY <1>1
<1>7. /\ pc \in {"handshake", "reading", "parse", "interim", "process", "writing", "closing", "ended"}
      /\ have \in BOOLEAN /\ expect \in BOOLEAN /\ keep \in BOOLEAN /\ tls \in BOOLEAN
      /\ armed \in BOOLEAN /\ queued \in BOOLEAN
      /\ sock \in {"open", "shut", "closed"} /\ client \in {"open", "closed"}
  BY <1>1
<1>8. since \in 0..received /\ overtaken \in Nat
  BY <1>1
<1> QED
  BY <1>2, <1>3, <1>4, <1>5, <1>6, <1>7, <1>8 DEF TypeOK

\* Growing the buffer gives it a size.
LEMMA SizeTyped ==
    ASSUME TypeOK, size' \in {size, EnsuredSize(buf)}
    PROVE  size' \in Nat
  BY DEF TypeOK, EnsuredSize

LEMMA TypeStep == TypeOK /\ [Next]_vars => TypeOK'
<1> SUFFICES ASSUME TypeOK, [Next]_vars
             PROVE  TypeOK'
  OBVIOUS
<1> DEFINE Request == [head : Seq(Bytes), body : Seq(Bytes)]
<1>0. /\ N \in Nat /\ Len(Stream) \in Nat /\ Stream \in Seq(Bytes)
      /\ Len(buf) \in Nat /\ hlen \in Nat /\ clen \in Nat
      /\ size \in Nat /\ EnsuredSize(buf) \in Nat
  BY Layout, SizeTyped DEF TypeOK, EnsuredSize
<1>1. CASE UNCHANGED vars
  BY <1>1 DEF TypeOK, vars, parser, timer, network, history
<1>2. CASE ClientSend
  BY <1>0, <1>2 DEF ClientSend, TypeOK, parser, timer, history
<1>3. CASE ClientClose
  BY <1>3 DEF ClientClose, TypeOK, parser, timer, history
<1>4. CASE Handshake
  BY <1>0, <1>4 DEF Handshake, do_read, TypeOK, parser, timer, network, history
<1>5. CASE ReadSome
  <2>1. PICK n \in 1..(size - Len(buf)) :
           /\ received + n <= sent
           /\ buf' = buf \o SubSeq(Stream, received + 1, received + n)
           /\ received' = received + n
    BY <1>5 DEF ReadSome
  <2>2. /\ received \in Nat /\ sent \in Nat /\ sent <= Len(Stream) /\ n \in Nat
        /\ buf \in Seq(Bytes)
    BY <1>0 DEF TypeOK
  <2>3. received' \in 0..sent
    BY <2>1, <2>2
  <2>4. n >= 1 /\ received + n <= Len(Stream)
    BY <1>0, <2>1, <2>2
  <2>5. SubSeq(Stream, received + 1, received + n) \in Seq(Bytes)
    BY <2>2, <2>4, PieceOfStream
  <2>6. buf' \in Seq(Bytes) /\ Len(buf') >= Len(buf)
    <3> DEFINE z == SubSeq(Stream, received + 1, received + n)
    <3>1. buf' \in Seq(Bytes) /\ Len(buf') = Len(buf) + Len(z)
      BY <2>1, <2>2, <2>5, ConcatProperties
    <3>2. Len(z) \in Nat
      BY <2>5
    <3> HIDE DEF z
    <3>3. Len(buf) + Len(z) >= Len(buf)
      BY <1>0, <3>2
    <3> QED
      BY <3>1, <3>3
  <2>7. hlen' \in 0..Len(buf')
    <3>1. hlen' = hlen /\ hlen \in 0..Len(buf) /\ Len(buf') \in Nat
      BY <1>5, <2>6 DEF ReadSome, TypeOK, parser
    <3> QED
      BY <1>0, <2>6, <3>1
  <2>8. /\ tls' = tls /\ pc' = "parse" /\ size' = size /\ have' = have /\ clen' = clen
        /\ expect' = expect /\ keep' = keep /\ current' = current /\ armed' = FALSE
        /\ since' = 0 /\ overtaken' = overtaken
        /\ queued' = queued /\ sock' = sock /\ client' = client /\ sent' = sent
        /\ served' = served /\ continued' = continued /\ answered' = answered
    BY <1>5 DEF ReadSome, cancel_keep_alive_timeout, parser, network, history
  <2>9. received' \in Nat /\ since' \in 0..received'
    BY <2>2, <2>3, <2>8 DEF TypeOK
  <2> QED
    BY <2>3, <2>6, <2>7, <2>8, <2>9 DEF TypeOK
<1>6. CASE ReadError
  BY <1>6 DEF ReadError, TypeOK, parser, timer, network, history
<1>7. CASE ScanHeaders
  <2> DEFINE end == CHOOSE p \in HeaderEnds : \A q \in HeaderEnds : p <= q
             request == Script[buf[end][1]]
  <2>1. end \in HeaderEnds
    <3>0. HeaderEnds # {}
      BY <1>7 DEF ScanHeaders
    <3>1. HeaderEnds \subseteq Nat
      BY <1>0 DEF HeaderEnds
    <3> QED
      BY <3>0, <3>1, SmallestNumber
  <2>2. /\ hlen' = end /\ clen' = request.body /\ expect' = request.expect
        /\ pc' = AfterScan(request)
    BY <1>7 DEF ScanHeaders
  <2> HIDE DEF end
  <2>3. end \in 1..Len(buf)
    BY <2>1 DEF HeaderEnds
  <2>4. buf[end] \in Bytes
    BY <2>3, ElementOfSeq DEF TypeOK
  <2>5. buf[end][1] \in 1..N
    BY <2>4 DEF Bytes, N
  <2>6. request.body \in Nat /\ request.expect \in BOOLEAN
    BY <2>5, ScriptTyped
  <2>7. /\ hlen' \in 0..Len(buf) /\ clen' \in Nat /\ expect' \in BOOLEAN
        /\ pc' \in {"interim", "parse"}
    BY <1>0, <2>2, <2>3, <2>6 DEF AfterScan
  <2>8. /\ tls' = tls /\ buf' = buf /\ size' = size /\ have' = TRUE /\ keep' = keep
        /\ current' = current /\ armed' = armed /\ since' = since /\ overtaken' = overtaken
        /\ queued' = queued /\ sock' = sock /\ client' = client /\ sent' = sent
        /\ received' = received
        /\ served' = served /\ continued' = continued /\ answered' = answered
    BY <1>7 DEF ScanHeaders, timer, network, history
  <2> HIDE DEF request
  <2> QED
    BY <2>7, <2>8 DEF TypeOK
<1>8. CASE NeedMore
  BY <1>0, <1>8 DEF NeedMore, do_read, TypeOK, parser, timer, network, history
<1>9. CASE InterimWritten
  <2>1. /\ continued' = [continued EXCEPT ![buf[hlen][1]] = @ + 1]
        /\ pc' \in {"parse", "reading"} /\ size' \in {size, EnsuredSize(buf)}
    BY <1>9 DEF InterimWritten, do_read
  <2>2. continued' \in [1..Len(Script) -> Nat]
    <3>1. ASSUME NEW D, NEW f \in [D -> Nat], NEW x
          PROVE  [f EXCEPT ![x] = @ + 1] \in [D -> Nat]
      <4>1. CASE x \in D
        <5>1. f[x] + 1 \in Nat
          BY <4>1
        <5> QED
          BY <5>1
      <4>2. CASE x \notin D
        <5>1. [f EXCEPT ![x] = @ + 1] = f
          BY <4>2
        <5> QED
          BY <5>1
      <4> QED
        BY <4>1, <4>2
    <3>2. continued \in [1..Len(Script) -> Nat]
      BY DEF TypeOK
    <3> QED
      BY <2>1, <3>1, <3>2
  <2>3. size' \in Nat
    BY <2>1, <1>0
  <2> QED
    BY <1>9, <2>1, <2>2, <2>3 DEF InterimWritten, TypeOK, parser, timer, network
<1>10. CASE InterimFails
  BY <1>10 DEF InterimFails, TypeOK, parser, timer, network, history
<1>11. CASE TakeRequest
  <2>1. /\ current' = [head |-> SubSeq(buf, 1, hlen), body |-> SubSeq(buf, hlen + 1, hlen + clen)]
        /\ served' = Append(served, current') /\ buf' = SubSeq(buf, hlen + clen + 1, Len(buf))
        /\ have' = FALSE /\ hlen' = 0 /\ clen' = 0 /\ expect' = FALSE /\ pc' = "process"
        /\ Len(buf) >= hlen + clen
    BY <1>11 DEF TakeRequest, ResetParser, Rest, Complete
  <2>2. buf \in Seq(Bytes) /\ served \in Seq(Request)
    BY DEF TypeOK
  <2>3. /\ SubSeq(buf, 1, hlen) \in Seq(Bytes)
        /\ SubSeq(buf, hlen + 1, hlen + clen) \in Seq(Bytes)
        /\ SubSeq(buf, hlen + clen + 1, Len(buf)) \in Seq(Bytes)
    <3>1. /\ hlen <= Len(buf) /\ hlen + clen \in Nat /\ hlen + clen <= Len(buf)
          /\ Len(buf) <= Len(buf)
          /\ 1 \in Nat \ {0} /\ hlen + 1 \in Nat \ {0} /\ hlen + clen + 1 \in Nat \ {0}
      BY <1>0, <2>1
    <3> QED
      BY <1>0, <2>2, <3>1, Piece
  <2>4. current' \in Request
    BY <2>1, <2>3
  <2>5. served' \in Seq(Request)
    BY <2>1, <2>2, <2>4, AppendProperties
  <2>6. buf' \in Seq(Bytes) /\ hlen' \in 0..Len(buf')
    BY <2>1, <2>3
  <2> QED
    BY <1>11, <2>1, <2>4, <2>5, <2>6 DEF TakeRequest, TypeOK, timer, network
<1>12. CASE ProcessRequest
  BY <1>12 DEF ProcessRequest, KeepsAlive, TypeOK, parser, timer, network, history
<1>13. ASSUME answered' = Sent
       PROVE  answered' \in Seq(Request)
  BY <1>13, AppendProperties DEF Sent, TypeOK
<1>14. CASE WrittenKeepAlive
  <2>1. received \in Nat /\ received' = received /\ since' = received
    BY <1>14 DEF WrittenKeepAlive, arm_keep_alive_timeout, TypeOK
  <2>2. since' \in 0..received'
    BY <2>1
  <2> QED
    BY <1>0, <1>13, <1>14, <2>2
       DEF WrittenKeepAlive, do_read, arm_keep_alive_timeout, TypeOK, parser, network
<1>15. CASE WrittenClose
  BY <1>13, <1>15 DEF WrittenClose, TypeOK, parser, timer, network
<1>16. CASE TlsClosed
  BY <1>16 DEF TlsClosed, TypeOK, parser, timer, network, history
<1>17. CASE Released
  BY <1>17 DEF Released, TypeOK, parser, timer, network, history
<1>18. CASE TimerExpires
  <2>1. received \in Nat /\ since \in 0..received /\ overtaken \in Nat
    BY DEF TypeOK
  <2>2. overtaken' \in Nat /\ since' \in 0..received /\ received' = received
    BY <1>18, <2>1 DEF TimerExpires
  <2> QED
    BY <1>18, <2>2 DEF TimerExpires, TypeOK, parser, network, history
<1>19. CASE TimerHandler
  BY <1>19 DEF TimerHandler, TypeOK, parser, network, history
<1> QED
  BY <1>1, <1>2, <1>3, <1>4, <1>5, <1>6, <1>7, <1>8, <1>9, <1>10, <1>11, <1>12, <1>14,
     <1>15, <1>16, <1>17, <1>18, <1>19 DEF Next, SessionStep, TimerStep

\* The members of SslSession keep their types; no byte is read that was not sent.
THEOREM TypeCorrect == Spec => []TypeOK
  BY TypeInit, TypeStep, PTL DEF Spec

-----------------------------------------------------------------------------
(* The buffer.                                                              *)

\* The invariant: the buffer has never less room than its content, at least one
\* byte, and room left when a read is pending.
Room == size >= 1 /\ RoomToRead

\* The buffer has room when a read is started.
LEMMA Grown ==
    ASSUME TypeOK, Room
    PROVE  EnsuredSize(buf) >= 1 /\ Len(buf) < EnsuredSize(buf)
<1>1. Len(buf) \in Nat /\ size \in Nat /\ size >= 1 /\ Len(buf) <= size
  BY DEF TypeOK, Room, RoomToRead
<1>2. CASE Len(buf) = size
  BY <1>1, <1>2 DEF EnsuredSize
<1>3. CASE Len(buf) # size
  BY <1>1, <1>3 DEF EnsuredSize
<1> QED
  BY <1>2, <1>3

LEMMA RoomInit == Init => Room
  BY SessionAssumption DEF Init, Room, RoomToRead

LEMMA RoomStep == TypeOK /\ TypeOK' /\ Room /\ [Next]_vars => Room'
<1> SUFFICES ASSUME TypeOK, TypeOK', Room, [Next]_vars
             PROVE  Room'
  OBVIOUS
<1>1. Len(buf) \in Nat /\ size \in Nat /\ size >= 1 /\ Len(buf) <= size
  BY DEF TypeOK, Room, RoomToRead
<1>2. EnsuredSize(buf) \in Nat /\ EnsuredSize(buf) >= 1 /\ Len(buf) < EnsuredSize(buf)
  BY <1>1, Grown DEF EnsuredSize
<1>3. CASE /\ buf' = buf /\ size' = size /\ (pc' = pc \/ pc' # "reading")
  BY <1>1, <1>3 DEF Room, RoomToRead
<1>4. CASE buf' = buf /\ size' = EnsuredSize(buf)
  BY <1>1, <1>2, <1>4 DEF Room, RoomToRead
<1>5. CASE ReadSome
  <2>1. PICK n \in 1..(size - Len(buf)) :
           /\ received + n <= sent
           /\ buf' = buf \o SubSeq(Stream, received + 1, received + n)
    BY <1>5 DEF ReadSome
  <2> DEFINE z == SubSeq(Stream, received + 1, received + n)
  <2>2. n \in Nat /\ n <= size - Len(buf)
    BY <1>1, <2>1
  <2>3. z \in Seq(Bytes) /\ Len(z) = n
    <3>1. received \in Nat /\ sent \in Nat /\ sent <= Len(Stream) /\ Len(Stream) \in Nat
      BY Layout DEF TypeOK
    <3>2. n >= 1 /\ received + n <= Len(Stream)
      BY <2>1, <2>2, <3>1
    <3> QED
      BY <2>2, <3>1, <3>2, PieceOfStream
  <2>4. Len(buf') = Len(buf) + Len(z)
    BY <2>1, <2>3, ConcatProperties DEF TypeOK
  <2>5. Len(buf') <= size
    BY <1>1, <2>2, <2>3, <2>4
  <2> QED
    BY <1>1, <1>5, <2>5 DEF ReadSome, Room, RoomToRead
<1>6. CASE TakeRequest
  <2>1. buf' = SubSeq(buf, hlen + clen + 1, Len(buf)) /\ hlen \in Nat /\ clen \in Nat
    BY <1>1, <1>6 DEF TakeRequest, Rest, TypeOK
  <2>2. Len(buf') <= Len(buf)
    <3>1. buf \in Seq(Bytes) /\ hlen + clen + 1 \in Nat \ {0} /\ Len(buf) <= Len(buf)
      BY <1>1, <2>1 DEF TypeOK
    <3>2. Len(buf') = IF hlen + clen + 1 <= Len(buf) THEN (Len(buf) - (hlen + clen + 1)) + 1 ELSE 0
      BY <1>1, <2>1, <3>1, Piece
    <3> QED
      BY <1>1, <2>1, <3>2
  <2>3. Len(buf') \in Nat
    BY DEF TypeOK
  <2> QED
    BY <1>1, <1>6, <2>2, <2>3 DEF TakeRequest, Room, RoomToRead
<1>7. CASE UNCHANGED vars
  BY <1>3, <1>7 DEF vars
<1>8. CASE ClientSend \/ ClientClose \/ ReadError \/ ScanHeaders \/ InterimFails
           \/ ProcessRequest \/ WrittenClose \/ TlsClosed \/ Released \/ TimerStep
  <2>1. pc' = pc \/ pc' # "reading"
    BY <1>8 DEF ClientSend, ClientClose, ReadError, ScanHeaders, AfterScan, InterimFails,
       ProcessRequest, WrittenClose, TlsClosed, Released, TimerStep, TimerExpires, TimerHandler
  <2>2. buf' = buf /\ size' = size
    BY <1>8 DEF ClientSend, ClientClose, ReadError, ScanHeaders, InterimFails, ProcessRequest,
       WrittenClose, TlsClosed, Released, TimerStep, TimerExpires, TimerHandler
  <2> QED
    BY <1>3, <2>1, <2>2
<1>9. CASE Handshake \/ NeedMore \/ InterimWritten \/ WrittenKeepAlive
  <2>1. /\ buf' = buf
        /\ size' = EnsuredSize(buf) \/ (size' = size /\ pc' # "reading")
    BY <1>9 DEF Handshake, NeedMore, InterimWritten, WrittenKeepAlive, do_read
  <2> QED
    BY <1>3, <1>4, <2>1
<1> QED
  BY <1>5, <1>6, <1>7, <1>8, <1>9 DEF Next, SessionStep

\* A pending read always has room for at least one byte: ensure_capacity, called
\* before every async_read_some, never leaves the buffer full.
THEOREM ReadsHaveRoom == Spec => []RoomToRead
<1>1. Room => RoomToRead
  BY DEF Room
<1> QED
  BY <1>1, TypeInit, TypeStep, RoomInit, RoomStep, PTL DEF Spec

-----------------------------------------------------------------------------
(* What the buffer holds.                                                   *)

\* The number of the request whose bytes are in front of the buffer.
Now == Len(served) + 1

\* The buffer holds what was received behind the requests served so far.
Aligned ==
    /\ Len(served) <= N
    /\ Ends[Len(served)] + Len(buf) = received
    /\ \A p \in 1..Len(buf) : buf[p] = Stream[Ends[Len(served)] + p]

\* What the parser remembers is of the request in front of the buffer.
Parsed ==
    /\ have => /\ pc \in {"reading", "parse", "interim", "ended"}
               /\ Now <= N
               /\ hlen = Script[Now].head /\ clen = Script[Now].body
               /\ hlen <= Len(buf)
    /\ pc = "interim" => have

Delivery == Aligned /\ Framed /\ Parsed

\* What lies at the front of the buffer is the request that follows those served.
LEMMA InFront ==
    ASSUME TypeOK, Aligned
    PROVE  /\ Len(served) \in Nat /\ Len(buf) \in Nat /\ Ends[Len(served)] \in Nat
           /\ received \in Nat /\ received <= Len(Stream)
           /\ Len(buf) >= 1 => Now \in 1..N
           /\ Now \in 1..N => \A p \in 1..Len(buf) : p <= Size(Now) => buf[p] = <<Now, p>>
<1>1. Len(served) \in 0..N /\ Len(buf) \in Nat /\ N \in Nat
  BY Layout DEF TypeOK, Aligned
<1>2. Ends[Len(served)] \in Nat
  BY <1>1, Layout
<1>3. received \in Nat /\ received <= Len(Stream)
  BY Layout DEF TypeOK
<1>4. ASSUME Len(buf) >= 1
      PROVE  Now \in 1..N
  <2>1. CASE Len(served) = N
    <3>1. Ends[Len(served)] = Len(Stream)
      BY <2>1, Layout
    <3> QED
      BY <1>1, <1>2, <1>3, <1>4, <3>1 DEF Aligned
  <2>2. CASE Len(served) # N
    BY <1>1, <2>2 DEF Now
  <2> QED
    BY <2>1, <2>2
<1>5. ASSUME Now \in 1..N, NEW p \in 1..Len(buf), p <= Size(Now)
      PROVE  buf[p] = <<Now, p>>
  <2>1. Now - 1 = Len(served)
    BY <1>1 DEF Now
  <2>2. p \in 1..Size(Now)
    BY <1>1, <1>5, ScriptTyped
  <2>3. Stream[Ends[Now - 1] + p] = <<Now, p>>
    BY <1>5, <2>2, Layout
  <2> QED
    BY <2>1, <2>3 DEF Aligned
<1> QED
  BY <1>1, <1>2, <1>3, <1>4, <1>5

\* The first position at which a header is complete is the last byte of the
\* header of the request in front.
LEMMA FirstHeaderEnd ==
    ASSUME TypeOK, Aligned, HeaderEnds # {}
    PROVE  LET end == CHOOSE p \in HeaderEnds : \A q \in HeaderEnds : p <= q
           IN  /\ Now \in 1..N
               /\ end = Script[Now].head /\ end \in 1..Len(buf) /\ buf[end] = <<Now, end>>
<1> DEFINE end == CHOOSE p \in HeaderEnds : \A q \in HeaderEnds : p <= q
           h == Script[Now].head
<1> SUFFICES Now \in 1..N /\ end = h /\ end \in 1..Len(buf) /\ buf[end] = <<Now, end>>
  OBVIOUS
<1>1. Len(buf) \in Nat
  BY InFront
<1>2. HeaderEnds \subseteq Nat
  BY <1>1 DEF HeaderEnds
<1>3. end \in HeaderEnds /\ \A q \in HeaderEnds : end <= q
  BY <1>2, SmallestNumber
<1> HIDE DEF end
<1>4. end \in 1..Len(buf) /\ buf[end][2] = Script[buf[end][1]].head
  BY <1>3 DEF HeaderEnds
<1>5. Now \in 1..N
  BY <1>1, <1>4, InFront
<1>6. h \in Nat /\ h >= 1 /\ Script[Now].body \in Nat /\ Size(Now) = h + Script[Now].body
  BY <1>5, ScriptTyped DEF Size
<1>7. \A p \in 1..Len(buf) : p <= Size(Now) => buf[p] = <<Now, p>>
  BY <1>5, InFront
<1>8. CASE end <= Size(Now)
  <2>1. buf[end] = <<Now, end>>
    BY <1>4, <1>7, <1>8
  <2> QED
    BY <1>4, <1>5, <2>1
<1>9. CASE ~(end <= Size(Now))
  <2>1. h \in 1..Len(buf) /\ h <= Size(Now) /\ h < end
    BY <1>1, <1>4, <1>6, <1>9
  <2>2. buf[h] = <<Now, h>>
    BY <1>7, <2>1
  <2>3. h \in HeaderEnds
    BY <2>1, <2>2 DEF HeaderEnds
  <2> QED
    BY <1>3, <1>4, <1>6, <2>1, <2>3
<1> QED
  BY <1>8, <1>9

\* The two pieces that are cut out of the buffer are the header and the body of
\* the request in front.
LEMMA CutOut ==
    ASSUME TypeOK, Aligned, Parsed, Complete
    PROVE  /\ Now \in 1..N
           /\ hlen + clen = Size(Now)
           /\ SubSeq(buf, 1, hlen) = HeadOf(Now)
           /\ SubSeq(buf, hlen + 1, hlen + clen) = BodyOf(Now)
<1> DEFINE h == Script[Now].head
           b == Script[Now].body
<1>1. Now <= N /\ hlen = h /\ clen = b /\ Len(buf) >= hlen + clen
  BY DEF Complete, Parsed
<1>2. Now \in 1..N /\ Len(buf) \in Nat /\ buf \in Seq(Bytes)
  <2>1. Len(served) \in Nat /\ N \in Nat
    BY InFront, Layout
  <2> QED
    BY <1>1, <2>1, InFront DEF Now, TypeOK
<1>3. h \in Nat /\ h >= 1 /\ b \in Nat /\ Size(Now) = h + b
  BY <1>2, ScriptTyped DEF Size
<1>4. \A p \in 1..Len(buf) : p <= Size(Now) => buf[p] = <<Now, p>>
  BY <1>2, InFront
<1>5. /\ HeadOf(Now) = [j \in 1..h |-> <<Now, j>>]
      /\ BodyOf(Now) = [j \in 1..b |-> <<Now, h + j>>]
  BY DEF HeadOf, BodyOf
<1> HIDE DEF h, b
<1>7. SubSeq(buf, 1, h) = HeadOf(Now)
  <2> DEFINE z == SubSeq(buf, 1, h)
  <2>1. 1 \in Nat \ {0} /\ h <= Len(buf) /\ 1 <= h /\ (h - 1) + 1 = h
    BY <1>1, <1>2, <1>3
  <2>2. z \in Seq(Bytes) /\ Len(z) = h /\ \A p \in 1..Len(z) : z[p] = buf[(1 - 1) + p]
    BY <1>2, <1>3, <2>1, Piece
  <2> HIDE DEF z
  <2>3. ASSUME NEW p \in 1..h
        PROVE  z[p] = <<Now, p>>
    <3>1. p \in 1..Len(buf) /\ p <= Size(Now) /\ (1 - 1) + p = p
      BY <1>2, <1>3, <2>1
    <3> QED
      BY <1>4, <2>2, <3>1
  <2>4. z = [p \in 1..h |-> z[p]]
    BY <2>2
  <2> QED
    BY <1>5, <2>3, <2>4 DEF z
<1>8. SubSeq(buf, h + 1, h + b) = BodyOf(Now)
  <2> DEFINE z == SubSeq(buf, h + 1, h + b)
  <2>1. h + 1 \in Nat \ {0} /\ h + b \in Nat /\ h + b <= Len(buf)
    BY <1>1, <1>2, <1>3
  <2>2. /\ z \in Seq(Bytes) /\ \A p \in 1..Len(z) : z[p] = buf[((h + 1) - 1) + p]
        /\ Len(z) = IF h + 1 <= h + b THEN ((h + b) - (h + 1)) + 1 ELSE 0
    BY <1>2, <1>3, <2>1, Piece
  <2> HIDE DEF z
  <2>3. Len(z) = b
    BY <1>3, <2>2
  <2>4. ASSUME NEW p \in 1..b
        PROVE  z[p] = <<Now, h + p>>
    <3>1. h + p \in 1..Len(buf) /\ h + p <= Size(Now) /\ ((h + 1) - 1) + p = h + p
      BY <1>2, <1>3, <2>1
    <3> QED
      BY <1>4, <2>2, <2>3, <3>1
  <2>5. z = [p \in 1..b |-> z[p]]
    BY <2>2, <2>3
  <2> QED
    BY <1>5, <2>4, <2>5 DEF z
<1> QED
  BY <1>1, <1>2, <1>3, <1>7, <1>8

LEMMA DeliveryInit == Init => Delivery
<1> SUFFICES ASSUME Init
             PROVE  Delivery
  OBVIOUS
<1>1. /\ buf = <<>> /\ have = FALSE /\ received = 0 /\ served = <<>>
      /\ pc \in {"handshake", "reading"}
  BY DEF Init
<1>2. Len(served) = 0 /\ Len(buf) = 0
  BY <1>1
<1>3. Aligned
  BY <1>1, <1>2, Layout DEF Aligned
<1>4. Framed
  BY <1>2, Layout DEF Framed, N
<1>5. Parsed
  BY <1>1 DEF Parsed
<1> QED
  BY <1>3, <1>4, <1>5 DEF Delivery

\* What a read adds continues the stream.
LEMMA DeliveredByRead ==
    ASSUME TypeOK, TypeOK', Delivery, ReadSome
    PROVE  Delivery'
<1>1. PICK n \in 1..(size - Len(buf)) :
           /\ received + n <= sent
           /\ buf' = buf \o SubSeq(Stream, received + 1, received + n)
           /\ received' = received + n
  BY DEF ReadSome
<1> DEFINE z == SubSeq(Stream, received + 1, received + n)
           base == Ends[Len(served)]
<1>2. /\ Len(buf) \in Nat /\ base \in Nat /\ received \in Nat /\ n \in Nat
      /\ base + Len(buf) = received
      /\ \A p \in 1..Len(buf) : buf[p] = Stream[base + p]
      /\ served' = served
  <2>1. Aligned /\ served' = served
    BY DEF Delivery, ReadSome, history
  <2>2. Len(buf) \in Nat /\ base \in Nat /\ received \in Nat
    BY <2>1, InFront
  <2>3. n \in Nat
    BY <1>1, <2>2 DEF TypeOK
  <2> QED
    BY <2>1, <2>2, <2>3 DEF Aligned
<1>3. z \in Seq(Bytes) /\ Len(z) = n /\ \A p \in 1..n : z[p] = Stream[received + p]
  <2>1. sent \in Nat /\ sent <= Len(Stream) /\ Len(Stream) \in Nat
    BY Layout DEF TypeOK
  <2>2. n >= 1 /\ received + n <= Len(Stream)
    BY <1>1, <1>2, <2>1
  <2> QED
    BY <1>2, <2>2, PieceOfStream
<1> HIDE DEF z
<1>4. /\ Len(buf') = Len(buf) + n
      /\ \A p \in 1..(Len(buf) + n) : buf'[p] = IF p <= Len(buf) THEN buf[p] ELSE z[p - Len(buf)]
  <2>1. buf \in Seq(Bytes) /\ buf' = buf \o z
    BY <1>1 DEF z, TypeOK
  <2>2. /\ Len(buf \o z) = Len(buf) + Len(z)
        /\ \A i \in 1..(Len(buf) + Len(z)) : (buf \o z)[i] = IF i <= Len(buf) THEN buf[i] ELSE z[i - Len(buf)]
    BY <1>3, <2>1, ConcatProperties
  <2>3. Len(z) = n
    BY <1>3
  <2> QED
    BY <2>1, <2>2, <2>3
<1>5. ASSUME NEW p \in 1..Len(buf')
      PROVE  buf'[p] = Stream[base + p]
  <2>1. p \in 1..(Len(buf) + n) /\ p \in Nat
    BY <1>4
  <2>2. CASE p <= Len(buf)
    BY <1>2, <1>4, <2>1, <2>2
  <2>3. CASE ~(p <= Len(buf))
    <3>1. p - Len(buf) \in 1..n /\ received + (p - Len(buf)) = base + p
      BY <1>2, <2>1, <2>3
    <3> QED
      BY <1>3, <1>4, <2>1, <2>3, <3>1
  <2> QED
    BY <2>2, <2>3
<1> HIDE DEF base
<1>6. Aligned'
  <2>1. base + Len(buf') = received'
    <3>1. \A a, b, c, k \in Nat : a + b = c => a + (b + k) = c + k
      OBVIOUS
    <3>2. base + Len(buf) = received /\ Len(buf') = Len(buf) + n /\ received' = received + n
      BY <1>1, <1>2, <1>4
    <3>3. base \in Nat /\ Len(buf) \in Nat /\ received \in Nat /\ n \in Nat
      BY <1>2
    <3> QED
      BY <3>1, <3>2, <3>3
  <2>2. (Len(served) <= N)'
    BY <1>2 DEF Delivery, Aligned, N
  <2>3. base = Ends[Len(served')]
    BY <1>2 DEF base
  <2>4. \A p \in 1..Len(buf') : buf'[p] = Stream[Ends[Len(served')] + p]
    BY <1>5, <2>3
  <2> QED
    BY <2>1, <2>2, <2>3, <2>4 DEF Aligned
<1>7. Framed'
  BY <1>2 DEF Delivery, Framed
<1>8. Parsed'
  <2>1. /\ pc' = "parse" /\ have' = have /\ hlen' = hlen /\ clen' = clen
    BY DEF ReadSome, parser
  <2>2. have => Now <= N /\ hlen = Script[Now].head /\ clen = Script[Now].body /\ hlen <= Len(buf)
    BY DEF Delivery, Parsed
  <2>3. have => hlen <= Len(buf')
    <3>1. hlen \in Nat
      BY <1>2 DEF TypeOK
    <3> QED
      BY <1>2, <1>4, <2>2, <3>1
  <2>4. Now' = Now
    BY <1>2 DEF Now
  <2> QED
    BY <2>1, <2>2, <2>3, <2>4 DEF Parsed, N
<1> QED
  BY <1>6, <1>7, <1>8 DEF Delivery

\* The scan finds the header of the request in front, however much is pipelined
\* behind it.
LEMMA DeliveredByScan ==
    ASSUME TypeOK, Delivery, ScanHeaders
    PROVE  /\ Delivery'
           /\ Now \in 1..N
           /\ pc' = AfterScan(Script[Now]) /\ expect' = Script[Now].expect
<1> DEFINE end == CHOOSE p \in HeaderEnds : \A q \in HeaderEnds : p <= q
<1>1. /\ hlen' = end /\ clen' = Script[buf[end][1]].body
      /\ expect' = Script[buf[end][1]].expect /\ pc' = AfterScan(Script[buf[end][1]])
      /\ have' = TRUE /\ buf' = buf /\ received' = received /\ served' = served
  BY DEF ScanHeaders, history
<1>2. /\ Now \in 1..N
      /\ end = Script[Now].head /\ end \in 1..Len(buf) /\ buf[end] = <<Now, end>>
  BY FirstHeaderEnd DEF ScanHeaders, Delivery
<1> HIDE DEF end
<1>3. buf[end][1] = Now /\ Now <= N /\ end <= Len(buf) /\ Now' = Now
  <2>1. N \in Nat
    BY Layout
  <2> QED
    BY <1>1, <1>2, <2>1 DEF Now
<1>4. pc' \in {"parse", "interim"}
  BY <1>1 DEF AfterScan
<1>5. Parsed'
  BY <1>1, <1>2, <1>3, <1>4 DEF Parsed, N
<1>6. Aligned' /\ Framed'
  BY <1>1 DEF Delivery, Aligned, Framed, N
<1> QED
  BY <1>1, <1>2, <1>3, <1>5, <1>6 DEF Delivery

\* The request that is taken is the one in front, and what stays in the buffer
\* starts with the next.
LEMMA DeliveredByTaking ==
    ASSUME TypeOK, TypeOK', Delivery, TakeRequest
    PROVE  /\ Delivery'
           /\ Now \in 1..N /\ Len(served') = Now
           /\ served'[Now] = current'
           /\ \A i \in 1..Len(served) : served'[i] = served[i]
<1> DEFINE r == [head |-> SubSeq(buf, 1, hlen), body |-> SubSeq(buf, hlen + 1, hlen + clen)]
           cut == Size(Now)
<1>1. /\ current' = r /\ served' = Append(served, r)
      /\ buf' = SubSeq(buf, hlen + clen + 1, Len(buf))
      /\ have' = FALSE /\ pc' = "process" /\ received' = received
  BY DEF TakeRequest, ResetParser, Rest
<1>2. /\ Now \in 1..N /\ hlen + clen = cut
      /\ r.head = HeadOf(Now) /\ r.body = BodyOf(Now)
  BY CutOut DEF Delivery, TakeRequest
<1>3. /\ Len(served) \in Nat /\ Len(buf) \in Nat /\ Ends[Len(served)] \in Nat
      /\ N \in Nat /\ cut \in Nat /\ Len(buf) >= cut /\ Now - 1 = Len(served)
  BY <1>2, InFront, ScriptTyped DEF Delivery, TakeRequest, Complete, Now
<1>4. current' \in [head : Seq(Bytes), body : Seq(Bytes)]
  BY DEF TypeOK
<1> HIDE DEF r, cut
<1>5. /\ Len(served') = Now
      /\ served'[Now] = r
      /\ \A i \in 1..Len(served) : served'[i] = served[i]
  BY <1>1, <1>4, AppendProperties DEF TypeOK, Now
<1>6. /\ Len(buf') = Len(buf) - cut
      /\ \A p \in 1..Len(buf') : buf'[p] = buf[cut + p]
  <2>1. cut + 1 \in Nat \ {0} /\ Len(buf) <= Len(buf) /\ (cut + 1) - 1 = cut /\ buf \in Seq(Bytes)
    BY <1>3 DEF TypeOK
  <2>2. buf' = SubSeq(buf, cut + 1, Len(buf))
    BY <1>1, <1>2
  <2>3. /\ Len(buf') = IF cut + 1 <= Len(buf) THEN (Len(buf) - (cut + 1)) + 1 ELSE 0
        /\ \A p \in 1..Len(buf') : buf'[p] = buf[((cut + 1) - 1) + p]
    BY <1>3, <2>1, <2>2, Piece
  <2>4. Len(buf') = Len(buf) - cut
    BY <1>3, <2>3
  <2> QED
    BY <2>1, <2>3, <2>4
<1>7. Ends[Now] = Ends[Len(served)] + cut
  BY <1>2, <1>3, Layout DEF cut
<1>8. Aligned'
  <2>1. Ends[Len(served)] + Len(buf) = received
    BY DEF Delivery, Aligned
  <2>2. Ends[Now] + Len(buf') = received'
    <3>1. \A a, b, c, d \in Nat : a + b = c => (a + d) + (b - d) = c
      OBVIOUS
    <3>2. received \in Nat
      BY InFront DEF Delivery
    <3>3. Ends[Now] = Ends[Len(served)] + cut /\ Len(buf') = Len(buf) - cut /\ received' = received
      BY <1>1, <1>6, <1>7
    <3>4. Ends[Len(served)] \in Nat /\ Len(buf) \in Nat /\ cut \in Nat
      BY <1>3
    <3> QED
      BY <2>1, <3>1, <3>2, <3>3, <3>4
  <2>3. ASSUME NEW p \in 1..Len(buf')
        PROVE  buf'[p] = Stream[Ends[Now] + p]
    <3>1. cut + p \in 1..Len(buf) /\ Ends[Len(served)] + (cut + p) = Ends[Now] + p
      BY <1>3, <1>6, <1>7
    <3>2. buf[cut + p] = Stream[Ends[Len(served)] + (cut + p)]
      BY <3>1 DEF Delivery, Aligned
    <3> QED
      BY <1>6, <3>1, <3>2
  <2>4. (Len(served) <= N)'
    BY <1>2, <1>3, <1>5 DEF N
  <2> QED
    BY <1>5, <2>2, <2>3, <2>4 DEF Aligned
<1>9. Framed'
  <2>1. ASSUME NEW i \in 1..Len(served')
        PROVE  served'[i].head = HeadOf(i) /\ served'[i].body = BodyOf(i)
    <3>1. CASE i = Now
      BY <1>2, <1>5, <3>1
    <3>2. CASE i # Now
      <4>1. i \in 1..Len(served)
        BY <1>3, <1>5, <3>2
      <4> QED
        BY <1>5, <4>1 DEF Delivery, Framed
    <3> QED
      BY <3>1, <3>2
  <2>2. Len(served') <= Len(Script)
    BY <1>2, <1>3, <1>5 DEF N
  <2> QED
    BY <2>1, <2>2 DEF Framed
<1>10. Parsed'
  BY <1>1 DEF Parsed
<1> QED
  BY <1>1, <1>2, <1>5, <1>8, <1>9, <1>10 DEF Delivery

LEMMA DeliveryStep == TypeOK /\ TypeOK' /\ Delivery /\ [Next]_vars => Delivery'
<1> SUFFICES ASSUME TypeOK, TypeOK', Delivery, [Next]_vars
             PROVE  Delivery'
  OBVIOUS
<1>1. ASSUME buf' = buf, received' = received, served' = served, have' = have, hlen' = hlen,
             clen' = clen,
             pc' = pc \/ pc' \in {"reading", "parse", "ended"} \/ (~have /\ pc' # "interim")
      PROVE  Delivery'
  <2>1. Aligned' /\ Framed'
    BY <1>1 DEF Delivery, Aligned, Framed, N
  <2>2. Now' = Now
    BY <1>1 DEF Now
  <2>3. Parsed'
    BY <1>1, <2>2 DEF Delivery, Parsed, N
  <2> QED
    BY <2>1, <2>3 DEF Delivery
<1>2. CASE UNCHANGED vars
  BY <1>1, <1>2 DEF vars, parser, history
<1>3. CASE ClientSend \/ ClientClose \/ Released \/ TimerStep
  BY <1>1, <1>3 DEF ClientSend, ClientClose, Released, TimerStep, TimerExpires, TimerHandler,
     parser, history
<1>4. CASE Handshake \/ ReadError \/ NeedMore \/ InterimWritten \/ InterimFails
  BY <1>1, <1>4 DEF Handshake, ReadError, NeedMore, InterimWritten, InterimFails, do_read,
     parser, history
<1>5. CASE ProcessRequest \/ WrittenKeepAlive \/ WrittenClose \/ TlsClosed
  <2>1. pc \in {"process", "writing", "closing"}
    BY <1>5 DEF ProcessRequest, WrittenKeepAlive, WrittenClose, TlsClosed
  <2>2. ~have
    BY <2>1 DEF Delivery, Parsed
  <2>3. pc' # "interim"
    BY <1>5 DEF ProcessRequest, WrittenKeepAlive, WrittenClose, TlsClosed, do_read
  <2> QED
    BY <1>1, <1>5, <2>2, <2>3 DEF ProcessRequest, WrittenKeepAlive, WrittenClose, TlsClosed,
       parser, history
<1> QED
  BY <1>2, <1>3, <1>4, <1>5, DeliveredByRead, DeliveredByScan, DeliveredByTaking
     DEF Next, SessionStep

\* However the bytes are cut into reads and however many requests are pipelined,
\* the n-th request handed to process_request is the n-th one the client sent.
THEOREM RequestsAreFramed == Spec => []Framed
<1>1. Delivery => Framed
  BY DEF Delivery
<1> QED
  BY <1>1, TypeInit, TypeStep, DeliveryInit, DeliveryStep, PTL DEF Spec

-----------------------------------------------------------------------------
(* The keep-alive timer.                                                    *)

LEMMA IdleInit == Init => TimedBySilence
  BY DEF Init, TimedBySilence

LEMMA IdleStep == TypeOK /\ Delivery /\ TimedBySilence /\ [Next]_vars => TimedBySilence'
<1> SUFFICES ASSUME TypeOK, Delivery, TimedBySilence, [Next]_vars
             PROVE  TimedBySilence'
  OBVIOUS
<1>1. pc \notin {"reading", "parse", "interim", "ended"} => ~have
  BY DEF Delivery, Parsed
<1>2. CASE UNCHANGED vars \/ ClientSend \/ ClientClose \/ Released \/ TimerHandler
  BY <1>2 DEF vars, ClientSend, ClientClose, Released, TimerHandler, parser, timer, TimedBySilence
<1>3. CASE ReadSome
  BY <1>3 DEF ReadSome, cancel_keep_alive_timeout, TimedBySilence
<1>4. CASE Handshake \/ ReadError \/ ScanHeaders \/ NeedMore \/ InterimWritten \/ InterimFails
  BY <1>4 DEF Handshake, ReadError, ScanHeaders, NeedMore, InterimWritten, InterimFails,
     parser, timer, TimedBySilence
<1>5. CASE TakeRequest \/ ProcessRequest \/ WrittenClose \/ TlsClosed
  BY <1>5 DEF TakeRequest, ProcessRequest, WrittenClose, TlsClosed, parser, timer,
     TimedBySilence
<1>6. CASE WrittenKeepAlive
  BY <1>1, <1>6 DEF WrittenKeepAlive, do_read, arm_keep_alive_timeout, parser, TimedBySilence
<1>7. CASE TimerExpires
  <2>1. received \in Nat /\ since = received /\ overtaken = 0
    BY <1>7 DEF TimerExpires, TypeOK, TimedBySilence
  <2>2. overtaken' = 0 /\ armed' = FALSE
    BY <1>7, <2>1 DEF TimerExpires
  <2> QED
    BY <2>2 DEF TimedBySilence
<1> QED
  BY <1>2, <1>3, <1>4, <1>5, <1>6, <1>7 DEF Next, SessionStep, TimerStep

\* A wait of the keep-alive timer starts with a response, and as long as it is pending,
\* and up to its expiry, no byte is read: whatever its handler closes the socket under
\* came later, or was in the buffer already when the wait started.
THEOREM TimerMeasuresSilence == Spec => []TimedBySilence
  BY TypeInit, TypeStep, DeliveryInit, DeliveryStep, IdleInit, IdleStep, PTL DEF Spec

-----------------------------------------------------------------------------
(* "100 Continue".                                                          *)

\* What has been announced, told of the request in front too: nothing before its
\* header is scanned and the interim response written, once it was if it asked for
\* that.
Announced ==
    \A i \in 1..N :
      /\ continued[i] \in {0, 1}
      /\ continued[i] = 1 => Script[i].expect /\ i <= Now
      /\ Script[i].expect /\ i < Now => continued[i] = 1
      /\ i = Now => /\ (~have \/ pc = "interim") => continued[i] = 0
                    /\ pc = "interim" => Script[i].expect
                    /\ (have /\ pc \in {"reading", "parse"} /\ Script[i].expect) => continued[i] = 1

LEMMA AnnouncedInit == Init => Announced
<1> SUFFICES ASSUME Init, NEW i \in 1..N
             PROVE  /\ continued[i] = 0 /\ ~(i < Now)
                    /\ pc # "interim" /\ ~have
  BY DEF Announced
<1>1. continued = [n \in 1..Len(Script) |-> 0] /\ served = <<>> /\ have = FALSE
      /\ pc \in {"handshake", "reading"}
  BY DEF Init
<1>2. Now = 1
  BY <1>1 DEF Now
<1> QED
  BY <1>1, <1>2 DEF N

LEMMA AnnouncedStep ==
    TypeOK /\ TypeOK' /\ Delivery /\ Announced /\ [Next]_vars => Announced'
<1> SUFFICES ASSUME TypeOK, TypeOK', Delivery, Announced, [Next]_vars
             PROVE  Announced'
  OBVIOUS
<1>0. Now \in Nat /\ N \in Nat
  BY InFront, Layout DEF Delivery, Now
<1>1. ASSUME served' = served, continued' = continued, have' = have,
             pc' = pc \/ pc' = "ended" \/ (pc' \in {"reading", "parse"} /\ pc \in {"reading", "parse"})
               \/ (~have /\ pc' # "interim")
      PROVE  Announced'
  <2>1. Now' = Now /\ N' = N
    BY <1>1 DEF Now, N
  <2> QED
    BY <1>1, <2>1 DEF Announced
<1>2. CASE UNCHANGED vars \/ ClientSend \/ ClientClose \/ Released \/ TimerStep
  BY <1>1, <1>2 DEF vars, ClientSend, ClientClose, Released, TimerStep, TimerExpires,
     TimerHandler, parser, history
<1>3. CASE ReadSome \/ ReadError \/ NeedMore \/ InterimFails
  BY <1>1, <1>3 DEF ReadSome, ReadError, NeedMore, InterimFails, do_read, parser, history
<1>4. CASE Handshake \/ ProcessRequest \/ WrittenKeepAlive \/ WrittenClose \/ TlsClosed
  <2>1. pc \in {"handshake", "process", "writing", "closing"}
    BY <1>4 DEF Handshake, ProcessRequest, WrittenKeepAlive, WrittenClose, TlsClosed
  <2>2. ~have
    BY <2>1 DEF Delivery, Parsed
  <2>3. pc' # "interim"
    BY <1>4 DEF Handshake, ProcessRequest, WrittenKeepAlive, WrittenClose, TlsClosed, do_read
  <2> QED
    BY <1>1, <1>4, <2>2, <2>3
       DEF Handshake, ProcessRequest, WrittenKeepAlive, WrittenClose, TlsClosed, parser, history
<1>5. CASE ScanHeaders
  <2>1. Now \in 1..N /\ pc' = AfterScan(Script[Now])
    BY <1>5, DeliveredByScan
  <2>2. /\ served' = served /\ continued' = continued /\ ~have
    BY <1>5 DEF ScanHeaders, history
  <2>3. Now' = Now /\ N' = N
    BY <2>2 DEF Now, N
  <2> QED
    BY <2>1, <2>2, <2>3 DEF Announced, AfterScan
<1>6. CASE InterimWritten
  <2>1. /\ pc = "interim" /\ have /\ Now \in 1..N /\ hlen = Script[Now].head /\ hlen <= Len(buf)
    <3>1. pc = "interim"
      BY <1>6 DEF InterimWritten
    <3>2. have /\ Now <= N /\ hlen = Script[Now].head /\ hlen <= Len(buf)
      BY <3>1 DEF Delivery, Parsed
    <3>3. Now >= 1
      BY InFront DEF Delivery, Now
    <3> QED
      BY <1>0, <3>1, <3>2, <3>3
  <2>2. buf[hlen] = <<Now, hlen>>
    <3>1. /\ Script[Now].head \in Nat /\ Script[Now].head >= 1 /\ Script[Now].body \in Nat
          /\ Size(Now) = Script[Now].head + Script[Now].body
      BY <2>1, ScriptTyped DEF Size
    <3>2. hlen \in 1..Len(buf) /\ hlen <= Size(Now)
      BY <2>1, <3>1, InFront DEF Delivery
    <3> QED
      BY <2>1, <3>2, InFront DEF Delivery
  <2>3. continued' = [continued EXCEPT ![Now] = @ + 1]
    BY <1>6, <2>2 DEF InterimWritten
  <2>4. /\ served' = served /\ have' = have /\ pc' \in {"parse", "reading"}
    BY <1>6 DEF InterimWritten, do_read, parser
  <2>5. Now' = Now /\ N' = N
    BY <2>4 DEF Now, N
  <2>6. continued \in [1..N -> Nat]
    BY DEF TypeOK, N
  <2>7. continued[Now] = 0 /\ Script[Now].expect
    BY <2>1 DEF Announced
  <2>8. continued'[Now] = 1 /\ \A i \in 1..N : i # Now => continued'[i] = continued[i]
    BY <2>1, <2>3, <2>6, <2>7
  <2>9. ASSUME NEW i \in 1..N
        PROVE  /\ continued'[i] \in {0, 1}
               /\ continued'[i] = 1 => Script[i].expect /\ i <= Now
               /\ Script[i].expect /\ i < Now => continued'[i] = 1
               /\ i = Now => continued'[i] = 1
    <3>1. CASE i = Now
      BY <1>0, <2>7, <2>8, <3>1
    <3>2. CASE i # Now
      BY <2>8, <3>2 DEF Announced
    <3> QED
      BY <3>1, <3>2
  <2> QED
    BY <2>1, <2>4, <2>5, <2>9 DEF Announced
<1>7. CASE TakeRequest
  <2>1. Now \in 1..N /\ Len(served') = Now
    BY <1>7, DeliveredByTaking
  <2>2. /\ continued' = continued /\ have' = FALSE /\ pc' = "process" /\ have /\ pc = "parse"
    BY <1>7 DEF TakeRequest, ResetParser, Complete
  <2>3. Now' = Now + 1 /\ N' = N
    BY <2>1 DEF Now, N
  <2>4. ASSUME NEW i \in 1..N
        PROVE  /\ continued[i] \in {0, 1}
               /\ continued[i] = 1 => Script[i].expect /\ i <= Now + 1
               /\ Script[i].expect /\ i < Now + 1 => continued[i] = 1
               /\ i = Now + 1 => continued[i] = 0
    <3>1. /\ continued[i] \in {0, 1}
          /\ continued[i] = 1 => Script[i].expect /\ i <= Now
          /\ Script[i].expect /\ i < Now => continued[i] = 1
          /\ i = Now => (Script[i].expect => continued[i] = 1)
      BY <2>2 DEF Announced
    <3>2. i \in Nat /\ (i <= Now => i <= Now + 1) /\ (i < Now + 1 => i < Now \/ i = Now)
          /\ (i = Now + 1 => ~(i <= Now))
      BY <1>0
    <3> QED
      BY <3>1, <3>2
  <2> QED
    BY <2>2, <2>3, <2>4 DEF Announced
<1> QED
  BY <1>2, <1>3, <1>4, <1>5, <1>6, <1>7 DEF Next, SessionStep

\* The invariant implies ContinueOnce.
LEMMA AnnouncedOnce == TypeOK /\ Delivery /\ Announced => ContinueOnce
<1> SUFFICES ASSUME TypeOK, Delivery, Announced, NEW i \in 1..Len(Script)
             PROVE  /\ continued[i] <= 1
                    /\ continued[i] = 1 => Script[i].expect /\ i <= Len(served) + 1
                    /\ Script[i].expect /\ i <= Len(served) => continued[i] = 1
  BY DEF ContinueOnce
<1>1. /\ continued[i] \in {0, 1}
      /\ continued[i] = 1 => Script[i].expect /\ i <= Now
      /\ Script[i].expect /\ i < Now => continued[i] = 1
  BY DEF Announced, N
<1>2. Len(served) \in Nat /\ i \in Nat
  BY InFront, Layout DEF Delivery
<1> QED
  BY <1>1, <1>2 DEF Now

-----------------------------------------------------------------------------
(* The responses.                                                           *)

Answering == pc \in {"process", "writing"}

\* The request being answered is the last one served, and as long as the
\* connection is whole it is the only one without its response.
Answers ==
    /\ IsPrefix(answered, served)
    /\ Connected /\ ~Answering => answered = served
    /\ Answering => Len(served) >= 1 /\ current = served[Len(served)]
    /\ Connected /\ Answering => served = Append(answered, current)

\* Every sequence is a prefix of itself.
LEMMA PrefixOfItself ==
    ASSUME NEW S, NEW s \in Seq(S)
    PROVE  IsPrefix(s, s)
<1>1. Len(s) <= Len(s)
  <2>1. Len(s) \in Nat
    OBVIOUS
  <2> QED
    BY <2>1
<1> QED
  BY <1>1 DEF IsPrefix

\* A prefix stays one when the longer sequence grows.
LEMMA PrefixOfLonger ==
    ASSUME NEW S, NEW s \in Seq(S), NEW t \in Seq(S), NEW x \in S, IsPrefix(s, t)
    PROVE  IsPrefix(s, Append(t, x))
<1> DEFINE u == Append(t, x)
           a == SubSeq(t, 1, Len(s))
           b == SubSeq(u, 1, Len(s))
<1>1. Len(s) \in Nat /\ Len(t) \in Nat /\ Len(s) <= Len(t) /\ SubSeq(s, 1, Len(s)) = a
  BY DEF IsPrefix
<1>2. u \in Seq(S) /\ Len(u) = Len(t) + 1 /\ \A i \in 1..Len(t) : u[i] = t[i]
  BY AppendProperties
<1> HIDE DEF u
<1>3. Len(s) <= Len(u)
  BY <1>1, <1>2
<1>4. /\ a \in Seq(S) /\ Len(a) = IF 1 <= Len(s) THEN (Len(s) - 1) + 1 ELSE 0
      /\ \A p \in 1..Len(a) : a[p] = t[(1 - 1) + p]
  BY <1>1, Piece
<1>5. /\ b \in Seq(S) /\ Len(b) = IF 1 <= Len(s) THEN (Len(s) - 1) + 1 ELSE 0
      /\ \A p \in 1..Len(b) : b[p] = u[(1 - 1) + p]
  BY <1>1, <1>2, <1>3, Piece
<1> HIDE DEF a, b
<1>6. Len(a) = Len(s) /\ Len(b) = Len(s)
  BY <1>1, <1>4, <1>5
<1>7. ASSUME NEW p \in 1..Len(a)
      PROVE  a[p] = b[p]
  <2>1. p \in 1..Len(t) /\ (1 - 1) + p = p
    BY <1>1, <1>6
  <2> QED
    BY <1>2, <1>4, <1>5, <1>6, <2>1
<1>8. a = b
  BY <1>4, <1>5, <1>6, <1>7, SeqEqual
<1> QED
  BY <1>1, <1>3, <1>8 DEF IsPrefix, b, u

LEMMA AnswersInit == Init => Answers
<1> SUFFICES ASSUME Init
             PROVE  Answers
  OBVIOUS
<1>1. answered = <<>> /\ served = <<>> /\ pc \in {"handshake", "reading"}
  BY DEF Init
<1>2. IsPrefix(<<>>, <<>>)
  BY PrefixOfItself, EmptySeq
<1> QED
  BY <1>1, <1>2 DEF Answers, Answering

\* Once lost, the connection does not come back.
LEMMA Disconnected == [Next]_vars => (Connected' => Connected)
<1> SUFFICES ASSUME [Next]_vars, ~Connected
             PROVE  ~Connected'
  OBVIOUS
<1>1. CASE ClientClose \/ WrittenClose \/ Released \/ TimerHandler
  BY <1>1 DEF ClientClose, WrittenClose, Released, TimerHandler, Connected, network
<1>2. CASE ~(ClientClose \/ WrittenClose \/ Released \/ TimerHandler)
  <2>1. sock' = sock /\ client' = client
    BY <1>2 DEF Next, SessionStep, TimerStep, ClientSend, Handshake, ReadSome, ReadError,
       ScanHeaders, NeedMore, InterimWritten, InterimFails, TakeRequest, ProcessRequest,
       WrittenKeepAlive, TlsClosed, TimerExpires, network, vars
  <2> QED
    BY <2>1 DEF Connected
<1> QED
  BY <1>1, <1>2

\* A response that is written settles the account.
LEMMA Settled ==
    ASSUME TypeOK, Answers, pc = "writing", answered' = Sent, served' = served,
           Connected' => Connected, pc' \notin {"process", "writing"}
    PROVE  Answers'
<1>1. CASE Connected
  <2>1. answered' = served'
    BY <1>1 DEF Answers, Answering, Sent
  <2>2. IsPrefix(served', served')
    <3>1. IsPrefix(served, served)
      BY PrefixOfItself DEF TypeOK
    <3> QED
      BY <3>1
  <2> QED
    BY <2>1, <2>2 DEF Answers, Answering
<1>2. CASE ~Connected
  <2>1. answered' = answered /\ ~Connected'
    BY <1>2 DEF Sent
  <2> QED
    BY <2>1 DEF Answers, Answering
<1> QED
  BY <1>1, <1>2

LEMMA AnswersStep ==
    TypeOK /\ TypeOK' /\ Delivery /\ Answers /\ [Next]_vars => Answers'
<1> SUFFICES ASSUME TypeOK, TypeOK', Delivery, Answers, [Next]_vars
             PROVE  Answers'
  OBVIOUS
<1>0. Connected' => Connected
  BY Disconnected
<1>1. ASSUME served' = served, answered' = answered, current' = current, Answering' = Answering
      PROVE  Answers'
  BY <1>0, <1>1 DEF Answers
<1>2. CASE UNCHANGED vars \/ ClientSend \/ ClientClose \/ Released \/ TimerStep
  BY <1>1, <1>2 DEF vars, ClientSend, ClientClose, Released, TimerStep, TimerExpires,
     TimerHandler, Answering, history
<1>3. CASE Handshake \/ ReadSome \/ ReadError \/ NeedMore \/ InterimWritten \/ InterimFails
           \/ TlsClosed \/ ProcessRequest
  BY <1>1, <1>3 DEF Handshake, ReadSome, ReadError, NeedMore, InterimWritten, InterimFails,
     TlsClosed, ProcessRequest, do_read, Answering, history
<1>4. CASE ScanHeaders
  <2>1. pc = "parse" /\ pc' \in {"parse", "interim"}
    BY <1>4, DeliveredByScan DEF ScanHeaders, AfterScan
  <2> QED
    BY <1>1, <1>4, <2>1 DEF ScanHeaders, Answering, history
<1>5. CASE TakeRequest
  <2>1. /\ served' = Append(served, current') /\ answered' = answered
        /\ pc = "parse" /\ pc' = "process"
    BY <1>5 DEF TakeRequest
  <2>2. Len(served') = Now /\ served'[Now] = current' /\ Now >= 1
    <3>1. Len(served) \in Nat
      BY InFront DEF Delivery
    <3> QED
      BY <1>5, <3>1, DeliveredByTaking DEF Now
  <2>3. IsPrefix(answered, served')
    BY <2>1, PrefixOfLonger DEF Answers, TypeOK
  <2>4. Connected' => served' = Append(answered', current')
    BY <1>0, <2>1 DEF Answers, Answering
  <2> QED
    BY <2>1, <2>2, <2>3, <2>4 DEF Answers, Answering
<1>6. CASE WrittenKeepAlive \/ WrittenClose
  <2>1. /\ pc = "writing" /\ answered' = Sent /\ served' = served
        /\ pc' \notin {"process", "writing"}
    BY <1>6 DEF WrittenKeepAlive, WrittenClose, do_read
  <2> QED
    BY <1>0, <2>1, Settled
<1> QED
  BY <1>2, <1>3, <1>4, <1>5, <1>6 DEF Next, SessionStep

\* The invariant implies AnsweredInOrder.
LEMMA AnsweredSoFar == TypeOK /\ Answers => AnsweredInOrder
<1> SUFFICES ASSUME TypeOK, Answers
             PROVE  AnsweredInOrder
  OBVIOUS
<1>1. Len(served) \in Nat /\ Len(answered) \in Nat
  BY DEF TypeOK
<1>2. ASSUME Connected
      PROVE  Len(served) <= Len(answered) + 1
  <2>1. CASE Answering
    <3>1. served = Append(answered, current)
      BY <1>2, <2>1 DEF Answers
    <3>2. Len(served) = Len(answered) + 1
      BY <3>1, AppendProperties DEF TypeOK
    <3> QED
      BY <1>1, <3>2
  <2>2. CASE ~Answering
    BY <1>1, <1>2, <2>2 DEF Answers
  <2> QED
    BY <2>1, <2>2
<1> QED
  BY <1>2 DEF Answers, Answering, AnsweredInOrder

-----------------------------------------------------------------------------
(* Connection: close.                                                       *)

\* A request that asked to close is the last one served, and from its response on
\* the session reads no more.
ClosesLast ==
    /\ NothingAfterClose
    /\ pc \notin {"process", "writing", "closing", "ended"} =>
         \A i \in 1..Len(served) : ~Script[i].close
    /\ pc = "writing" => keep = ~Script[Len(served)].close

LEMMA ClosesInit == Init => ClosesLast
<1> SUFFICES ASSUME Init
             PROVE  ClosesLast
  OBVIOUS
<1>1. Len(served) = 0 /\ pc \in {"handshake", "reading"}
  BY DEF Init
<1> QED
  BY <1>1 DEF ClosesLast, NothingAfterClose

LEMMA ClosesStep ==
    TypeOK /\ TypeOK' /\ Delivery /\ Answers /\ ClosesLast /\ [Next]_vars => ClosesLast'
<1> SUFFICES ASSUME TypeOK, TypeOK', Delivery, Answers, ClosesLast, [Next]_vars
             PROVE  ClosesLast'
  OBVIOUS
<1> DEFINE done == {"process", "writing", "closing", "ended"}
<1>1. ASSUME served' = served, pc' # "writing", pc' \in done \/ pc \notin done
      PROVE  ClosesLast'
  BY <1>1 DEF ClosesLast, NothingAfterClose
<1>2. CASE UNCHANGED vars \/ ClientSend \/ ClientClose \/ Released \/ TimerStep
  <2>1. pc' = pc /\ served' = served /\ keep' = keep
    BY <1>2 DEF vars, ClientSend, ClientClose, Released, TimerStep, TimerExpires, TimerHandler,
       history
  <2> QED
    BY <2>1 DEF ClosesLast, NothingAfterClose
<1>3. CASE Handshake \/ ReadSome \/ ReadError \/ NeedMore \/ InterimWritten \/ InterimFails
           \/ WrittenClose \/ TlsClosed
  BY <1>1, <1>3 DEF Handshake, ReadSome, ReadError, NeedMore, InterimWritten, InterimFails,
     WrittenClose, TlsClosed, do_read, history
<1>4. CASE ScanHeaders
  <2>1. pc = "parse" /\ pc' \in {"parse", "interim"}
    BY <1>4, DeliveredByScan DEF ScanHeaders, AfterScan
  <2> QED
    BY <1>1, <1>4, <2>1 DEF ScanHeaders, history
<1>5. CASE TakeRequest
  <2>1. pc = "parse" /\ pc' = "process" /\ Len(served') = Now
    BY <1>5, DeliveredByTaking DEF TakeRequest
  <2>2. \A i \in 1..Len(served) : ~Script[i].close
    BY <2>1 DEF ClosesLast
  <2>3. ASSUME NEW i \in 1..Len(served'), Script[i].close
        PROVE  i = Len(served')
    <3>1. Len(served) \in Nat
      BY InFront DEF Delivery
    <3>2. i # Now => i \in 1..Len(served)
      BY <2>1, <3>1 DEF Now
    <3> QED
      BY <2>1, <2>2, <2>3, <3>2
  <2> QED
    BY <2>1, <2>3 DEF ClosesLast, NothingAfterClose
<1>6. CASE ProcessRequest
  <2>1. /\ pc = "process" /\ pc' = "writing" /\ served' = served /\ keep' = KeepsAlive(current)
    BY <1>6 DEF ProcessRequest, history
  <2>2. Len(served) \in 1..Len(served) /\ Len(served) \in 1..N /\ current = served[Len(served)]
    <3>1. Len(served) \in Nat /\ N \in Nat /\ Len(served) >= 1
      BY <2>1, InFront, Layout DEF Delivery, Answers, Answering
    <3> QED
      BY <2>1, <3>1 DEF Delivery, Aligned, Answers, Answering
  <2>3. current.head = HeadOf(Len(served))
    BY <2>2 DEF Delivery, Framed
  <2>4. current.head[1] = <<Len(served), 1>>
    <3>1. 1 \in 1..Script[Len(served)].head
      BY <2>2, ScriptTyped
    <3> QED
      BY <2>3, <3>1 DEF HeadOf
  <2>5. keep' = ~Script[Len(served)].close
    BY <2>1, <2>4 DEF KeepsAlive
  <2> QED
    BY <2>1, <2>5 DEF ClosesLast, NothingAfterClose
<1>7. CASE WrittenKeepAlive
  <2>1. pc = "writing" /\ keep /\ pc' = "reading" /\ served' = served
    BY <1>7 DEF WrittenKeepAlive, do_read
  <2>2. ~Script[Len(served)].close
    BY <2>1 DEF ClosesLast
  <2>3. \A i \in 1..Len(served) : ~Script[i].close
    BY <2>2 DEF ClosesLast, NothingAfterClose
  <2> QED
    BY <2>1, <2>3 DEF ClosesLast, NothingAfterClose
<1> QED
  BY <1>2, <1>3, <1>4, <1>5, <1>6, <1>7 DEF Next, SessionStep

-----------------------------------------------------------------------------
(* The conversation.                                                        *)

SessionInv ==
    TypeOK /\ Room /\ Delivery /\ TimedBySilence /\ Announced /\ Answers /\ ClosesLast

LEMMA SessionInductive == Init => SessionInv
  BY TypeInit, RoomInit, DeliveryInit, IdleInit, AnnouncedInit, AnswersInit, ClosesInit
     DEF SessionInv

LEMMA SessionStepKeeps == SessionInv /\ [Next]_vars => SessionInv'
<1> SUFFICES ASSUME SessionInv, [Next]_vars
             PROVE  SessionInv'
  OBVIOUS
<1>1. TypeOK /\ TypeOK'
  BY TypeStep DEF SessionInv
<1> QED
  BY <1>1, RoomStep, DeliveryStep, IdleStep, AnnouncedStep, AnswersStep, ClosesStep
     DEF SessionInv

\* For every script of requests, every cutting of its bytes into reads and every
\* interleaving with the timer and the client's close: the requests are processed
\* as they were sent, announced once if they asked for that, answered in their
\* order, and none is processed after a close.
THEOREM ConversationHolds == Spec => []Conversation
<1>1. SessionInv => Conversation
  BY AnnouncedOnce, AnsweredSoFar DEF SessionInv, Delivery, ClosesLast, Conversation
<1> QED
  BY <1>1, SessionInductive, SessionStepKeeps, PTL DEF Spec

=============================================================================
