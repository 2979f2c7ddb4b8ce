-------------------------- MODULE GraphAndCacheProofs --------------------------
(***************************************************************************)
(* What TLAPS proves of the two components that decide what a run has to   *)
(* compute.                                                                *)
(*                                                                         *)
(* OutputCache, for every set of keys, contents and limits, and any       *)
(* number of crashes: the account of the memory cache is exact (a sum over *)
(* its entries), a row loses its blob to nothing but an adoption that came *)
(* too late, a finished collection leaves exactly the blobs it should,     *)
(* and, when the outputs of a node on a thread can all or none of them be  *)
(* written to disk, a lookup answers everything or nothing.                *)
(*                                                                         *)
(* GraphCompile, for every document, registry and set of subgraphs: the    *)
(* order follows the wires, what it lacks waits in circles, the graph      *)
(* holds what can run, and what somebody drew an edge to gets its value.   *)
(***************************************************************************)
EXTENDS OutputCache, GraphCompile, SequenceTheorems, FiniteSetTheorems, WellFoundedInduction, TLAPS

-----------------------------------------------------------------------------
(* Sequences and the least of a set *)

LEMMA LeastIsIn ==
  ASSUME NEW S \in SUBSET Nat, S # {}
  PROVE  Min(S) \in S /\ \A y \in S : Min(S) <= y
<1>1. PICK x \in S : \A y \in S : ~(<<y, x>> \in OpToRel(<, Nat))
  BY NatLessThanWellFounded, WFMin
<1>2. ASSUME NEW y \in S PROVE x <= y
  <2>1. x \in Nat /\ y \in Nat /\ <<y, x>> \in Nat \X Nat
    OBVIOUS
  <2>2. ~(y < x)
    BY <1>1, <2>1 DEF OpToRel
  <2> QED
    BY <2>1, <2>2
<1> QED
  BY <1>2 DEF Min

LEMMA PartOfSequence ==
  ASSUME NEW S, NEW q \in Seq(S), NEW m \in 1..(Len(q) + 1), NEW n \in 0..Len(q), m <= n + 1
  PROVE  /\ SubSeq(q, m, n) \in Seq(S)
         /\ Len(SubSeq(q, m, n)) = n - m + 1
         /\ \A i \in 1..(n - m + 1) : SubSeq(q, m, n)[i] = q[m + i - 1]
<1>1. Len(q) \in Nat /\ \A i \in 1..Len(q) : q[i] \in S
  BY LenProperties, ElementOfSeq
<1>2. \A i \in m..n : q[i] \in S
  BY <1>1
<1>3. /\ SubSeq(q, m, n) \in Seq(S)
      /\ Len(SubSeq(q, m, n)) = IF m <= n THEN n - m + 1 ELSE 0
      /\ \A i \in 1..(n - m + 1) : SubSeq(q, m, n)[i] = q[m + i - 1]
  BY <1>1, <1>2, SubSeqProperties
<1>4. Len(SubSeq(q, m, n)) = n - m + 1
  BY <1>1, <1>3
<1> QED
  BY <1>3, <1>4

\* A sequence is its first n elements and the others.
LEMMA TwoParts ==
  ASSUME NEW S, NEW q \in Seq(S), NEW n \in 0..Len(q)
  PROVE  /\ SubSeq(q, 1, n) \in Seq(S) /\ SubSeq(q, n + 1, Len(q)) \in Seq(S)
         /\ SubSeq(q, 1, n) \o SubSeq(q, n + 1, Len(q)) = q
<1> DEFINE a == SubSeq(q, 1, n)
           b == SubSeq(q, n + 1, Len(q))
<1>1. Len(q) \in Nat
  BY LenProperties
<1>2. a \in Seq(S) /\ Len(a) = n /\ \A i \in 1..n : a[i] = q[i]
  <2>1. /\ a \in Seq(S) /\ Len(a) = n - 1 + 1
        /\ \A i \in 1..(n - 1 + 1) : a[i] = q[1 + i - 1]
    BY <1>1, PartOfSequence
  <2> HIDE DEF a
  <2> QED
    BY <1>1, <2>1
<1>3. /\ b \in Seq(S) /\ Len(b) = Len(q) - n
      /\ \A i \in 1..(Len(q) - n) : b[i] = q[n + i]
  <2>1. /\ b \in Seq(S) /\ Len(b) = Len(q) - (n + 1) + 1
        /\ \A i \in 1..(Len(q) - (n + 1) + 1) : b[i] = q[(n + 1) + i - 1]
    BY <1>1, PartOfSequence
  <2> HIDE DEF b
  <2> QED
    BY <1>1, <2>1
<1> HIDE DEF a, b
<1>4. /\ a \o b \in Seq(S) /\ Len(a \o b) = Len(a) + Len(b)
      /\ \A i \in 1..(Len(a) + Len(b)) :
           (a \o b)[i] = IF i <= Len(a) THEN a[i] ELSE b[i - Len(a)]
  BY <1>2, <1>3, ConcatProperties
<1>5. Len(a \o b) = Len(q)
  BY <1>1, <1>2, <1>3, <1>4
<1>6. ASSUME NEW i \in 1..Len(q) PROVE (a \o b)[i] = q[i]
  <2>1. CASE i <= n
    BY <1>1, <1>2, <1>3, <1>4, <2>1
  <2>2. CASE ~(i <= n)
    <3>1. i - n \in 1..(Len(q) - n) /\ n + (i - n) = i
      BY <1>1, <2>2
    <3> QED
      BY <1>1, <1>2, <1>3, <1>4, <2>2, <3>1
  <2> QED
    BY <2>1, <2>2
<1>7. a \o b = q
  BY <1>4, <1>5, <1>6, SeqEqual
<1> QED
  BY <1>2, <1>3, <1>7 DEF a, b

LEMMA WithoutOne ==
  ASSUME NEW S, NEW q \in Seq(S), NEW i \in 1..Len(q)
  PROVE  /\ RemoveAt(q, i) \in Seq(S)
         /\ Len(RemoveAt(q, i)) = Len(q) - 1
         /\ \A j \in 1..(Len(q) - 1) :
               RemoveAt(q, i)[j] = IF j < i THEN q[j] ELSE q[j + 1]
<1> DEFINE a == SubSeq(q, 1, i - 1)
           b == SubSeq(q, i + 1, Len(q))
<1>0. Len(q) \in Nat
  BY LenProperties
<1>1. a \in Seq(S) /\ Len(a) = i - 1 /\ \A j \in 1..(i - 1) : a[j] = q[j]
  <2>1. /\ a \in Seq(S) /\ Len(a) = (i - 1) - 1 + 1
        /\ \A j \in 1..((i - 1) - 1 + 1) : a[j] = q[1 + j - 1]
    BY <1>0, PartOfSequence
  <2> HIDE DEF a
  <2> QED
    BY <1>0, <2>1
<1>2. /\ b \in Seq(S) /\ Len(b) = Len(q) - i
      /\ \A j \in 1..(Len(q) - i) : b[j] = q[i + j]
  <2>1. /\ b \in Seq(S) /\ Len(b) = Len(q) - (i + 1) + 1
        /\ \A j \in 1..(Len(q) - (i + 1) + 1) : b[j] = q[(i + 1) + j - 1]
    BY <1>0, PartOfSequence
  <2> HIDE DEF b
  <2> QED
    BY <1>0, <2>1
<1>3. RemoveAt(q, i) = a \o b
  BY DEF RemoveAt
<1> HIDE DEF a, b
<1>4. /\ a \o b \in Seq(S) /\ Len(a \o b) = Len(a) + Len(b)
      /\ \A j \in 1..(Len(a) + Len(b)) :
           (a \o b)[j] = IF j <= Len(a) THEN a[j] ELSE b[j - Len(a)]
  BY <1>1, <1>2, ConcatProperties
<1>5. Len(a) + Len(b) = Len(q) - 1
  BY <1>0, <1>1, <1>2
<1>6. ASSUME NEW j \in 1..(Len(q) - 1)
      PROVE  (a \o b)[j] = IF j < i THEN q[j] ELSE q[j + 1]
  <2>1. CASE j < i
    BY <1>0, <1>1, <1>4, <1>5, <2>1
  <2>2. CASE ~(j < i)
    <3>1. j - (i - 1) \in 1..(Len(q) - i) /\ i + (j - (i - 1)) = j + 1
      BY <1>0, <2>2
    <3>2. (a \o b)[j] = b[j - (i - 1)]
      BY <1>0, <1>1, <1>4, <1>5, <2>2
    <3> QED
      BY <1>0, <1>2, <2>2, <3>1, <3>2
  <2> QED
    BY <2>1, <2>2
<1> QED
  BY <1>3, <1>4, <1>5, <1>6
-----------------------------------------------------------------------------
(* The account of the memory cache: a sum by recursion, and what it is of the *)
(* sequences that a put builds                                                *)

Sums(s, f) == /\ f \in [0..Len(s) -> Nat] /\ f[0] = 0
              /\ \A n \in 1..Len(s) : f[n] = f[n - 1] + s[n].size

LEMMA SizeDef ==
  ASSUME NEW s
  PROVE  SizeOf(s) = (CHOOSE total : total = [n \in 0..Len(s) |->
                        IF n = 0 THEN 0 ELSE total[n - 1] + s[n].size])[Len(s)]
BY DEF SizeOf

LEMMA SizesAreNumbers ==
  ASSUME NEW s \in Seq(Entry)
  PROVE  /\ Len(s) \in Nat /\ DOMAIN s = 1..Len(s)
         /\ \A n \in 1..Len(s) : s[n] \in Entry /\ s[n].size \in Nat
<1>1. Len(s) \in Nat /\ DOMAIN s = 1..Len(s) /\ \A n \in 1..Len(s) : s[n] \in Entry
  BY LenProperties, ElementOfSeq
<1> QED
  BY <1>1 DEF Entry

LEMMA SumsExist ==
  ASSUME NEW s \in Seq(Entry)
  PROVE  \E f : Sums(s, f)
<1> DEFINE Upto(m, f) == /\ f \in [0..m -> Nat] /\ f[0] = 0
                         /\ \A n \in 1..m : f[n] = f[n - 1] + s[n].size
           Bad == {m \in 0..Len(s) : ~\E f : Upto(m, f)}
<1>0. Len(s) \in Nat /\ \A n \in 1..Len(s) : s[n].size \in Nat
  BY SizesAreNumbers
<1>1. Bad = {}
  <2> SUFFICES ASSUME Bad # {} PROVE FALSE
    OBVIOUS
  <2>1. Bad \in SUBSET Nat
    OBVIOUS
  <2> DEFINE m == Min(Bad)
  <2>2. m \in Bad /\ \A y \in Bad : m <= y
    BY <2>1, LeastIsIn
  <2> HIDE DEF m
  <2>3. m \in 0..Len(s) /\ ~\E f : Upto(m, f)
    BY <2>2
  <2>4. m # 0
    <3>1. Upto(0, [n \in 0..0 |-> 0])
      OBVIOUS
    <3> QED
      BY <2>3, <3>1
  <2>5. m \in 1..Len(s) /\ m - 1 \in 0..Len(s) /\ ~(m <= m - 1)
    BY <1>0, <2>3, <2>4
  <2>6. PICK f : Upto(m - 1, f)
    BY <2>2, <2>5
  <2> DEFINE g == [n \in 0..m |-> IF n = m THEN f[m - 1] + s[m].size ELSE f[n]]
  <2>7. f[m - 1] \in Nat /\ s[m].size \in Nat
    BY <1>0, <2>5, <2>6
  <2>8. g \in [0..m -> Nat] /\ g[0] = 0
    <3>1. ASSUME NEW n \in 0..m PROVE g[n] \in Nat
      <4>1. CASE n = m
        BY <2>7, <4>1
      <4>2. CASE n # m
        <5>1. n \in 0..(m - 1)
          BY <2>5, <4>2
        <5> QED
          BY <2>6, <4>2, <5>1
      <4> QED
        BY <4>1, <4>2
    <3>2. 0 \in 0..m /\ f[0] = 0
      BY <2>5, <2>6
    <3> QED
      BY <2>4, <3>1, <3>2
  <2>9. ASSUME NEW n \in 1..m PROVE g[n] = g[n - 1] + s[n].size
    <3>1. n - 1 \in 0..m /\ n \in 0..m /\ n - 1 # m
      BY <2>5
    <3>2. g[n - 1] = f[n - 1]
      BY <3>1
    <3>3. CASE n = m
      BY <3>1, <3>2, <3>3
    <3>4. CASE n # m
      <4>1. n \in 1..(m - 1)
        BY <2>5, <3>4
      <4>2. f[n] = f[n - 1] + s[n].size
        BY <2>6, <4>1
      <4> QED
        BY <3>1, <3>2, <3>4, <4>2
    <3> QED
      BY <3>3, <3>4
  <2>10. Upto(m, g)
    <3> HIDE DEF g
    <3> QED
      BY <2>8, <2>9
  <2> QED
    BY <2>3, <2>10
<1>2. Len(s) \in 0..Len(s)
  BY <1>0
<1>3. \E f : Upto(Len(s), f)
  BY <1>1, <1>2
<1> QED
  BY <1>3 DEF Sums

LEMMA SumIsSize ==
  ASSUME NEW s \in Seq(Entry), NEW f, Sums(s, f)
  PROVE  SizeOf(s) = f[Len(s)] /\ SizeOf(s) \in Nat
<1> DEFINE Once(g) == [n \in 0..Len(s) |-> IF n = 0 THEN 0 ELSE g[n - 1] + s[n].size]
<1>0. Len(s) \in Nat /\ \A n \in 1..Len(s) : s[n].size \in Nat
  BY SizesAreNumbers
<1>1. f = Once(f)
  <2>1. f = [n \in 0..Len(s) |-> f[n]]
    BY DEF Sums
  <2>2. ASSUME NEW n \in 0..Len(s)
        PROVE  f[n] = IF n = 0 THEN 0 ELSE f[n - 1] + s[n].size
    <3>1. CASE n = 0
      BY <3>1 DEF Sums
    <3>2. CASE n # 0
      <4>1. n \in 1..Len(s)
        BY <1>0, <3>2
      <4> QED
        BY <3>2, <4>1 DEF Sums
    <3> QED
      BY <3>1, <3>2
  <2> QED
    BY <2>1, <2>2
<1> DEFINE t == CHOOSE g : g = Once(g)
<1>2. t = Once(t)
  BY <1>1
<1>3. SizeOf(s) = t[Len(s)]
  BY SizeDef
<1> HIDE DEF t
<1>4. t = f
  <2> DEFINE Bad == {n \in 0..Len(s) : t[n] # f[n]}
  <2>1. t = [n \in 0..Len(s) |-> t[n]]
    BY <1>2
  <2>2. t[0] = 0 /\ \A n \in 1..Len(s) : t[n] = t[n - 1] + s[n].size
    <3>1. \A n \in 0..Len(s) : t[n] = IF n = 0 THEN 0 ELSE t[n - 1] + s[n].size
      BY <1>2
    <3>2. ASSUME NEW n \in 1..Len(s) PROVE n \in 0..Len(s) /\ n # 0
      BY <1>0
    <3>3. 0 \in 0..Len(s)
      BY <1>0
    <3> QED
      BY <3>1, <3>2, <3>3
  <2>3. Bad = {}
    <3> SUFFICES ASSUME Bad # {} PROVE FALSE
      OBVIOUS
    <3> DEFINE m == Min(Bad)
    <3>1. m \in Bad /\ \A y \in Bad : m <= y
      <4>1. Bad \in SUBSET Nat
        OBVIOUS
      <4> QED
        BY <4>1, LeastIsIn
    <3> HIDE DEF m
    <3>2. m \in 0..Len(s) /\ t[m] # f[m]
      BY <3>1
    <3>3. m # 0
      BY <2>2, <3>2 DEF Sums
    <3>4. m \in 1..Len(s) /\ m - 1 \in 0..Len(s) /\ ~(m <= m - 1)
      BY <1>0, <3>2, <3>3
    <3>5. t[m - 1] = f[m - 1]
      BY <3>1, <3>4
    <3> QED
      BY <2>2, <3>2, <3>4, <3>5 DEF Sums
  <2>4. t = [n \in 0..Len(s) |-> f[n]]
    BY <2>1, <2>3
  <2>5. f = [n \in 0..Len(s) |-> f[n]]
    BY DEF Sums
  <2> QED
    BY <2>4, <2>5
<1>5. f[Len(s)] \in Nat
  BY <1>0 DEF Sums
<1> QED
  BY <1>3, <1>4, <1>5

LEMMA SizeOfBoth ==
  ASSUME NEW a \in Seq(Entry), NEW b \in Seq(Entry)
  PROVE  /\ SizeOf(a \o b) = SizeOf(a) + SizeOf(b)
         /\ SizeOf(a) \in Nat /\ SizeOf(b) \in Nat
<1>0. Len(a) \in Nat /\ Len(b) \in Nat
  BY SizesAreNumbers
<1>1. /\ a \o b \in Seq(Entry) /\ Len(a \o b) = Len(a) + Len(b)
      /\ \A i \in 1..(Len(a) + Len(b)) :
           (a \o b)[i] = IF i <= Len(a) THEN a[i] ELSE b[i - Len(a)]
  BY ConcatProperties
<1>2. PICK f : Sums(a, f)
  BY SumsExist
<1>3. PICK g : Sums(b, g)
  BY SumsExist
<1> DEFINE q == a \o b
           h == [n \in 0..Len(q) |-> IF n <= Len(a) THEN f[n] ELSE f[Len(a)] + g[n - Len(a)]]
<1>4. SizeOf(a) = f[Len(a)] /\ SizeOf(b) = g[Len(b)] /\ f[Len(a)] \in Nat /\ g[Len(b)] \in Nat
  BY <1>2, <1>3, SumIsSize
<1>5. q \in Seq(Entry) /\ Len(q) = Len(a) + Len(b)
  BY <1>1
<1>6. \A i \in 1..Len(q) : q[i] = IF i <= Len(a) THEN a[i] ELSE b[i - Len(a)]
  BY <1>1
<1> HIDE DEF q
<1>7. h \in [0..Len(q) -> Nat] /\ h[0] = 0
  <2>1. ASSUME NEW n \in 0..Len(q) PROVE h[n] \in Nat
    <3>1. CASE n <= Len(a)
      <4>1. n \in 0..Len(a)
        BY <1>0, <3>1
      <4>2. f[n] \in Nat
        BY <1>2, <4>1 DEF Sums
      <4> QED
        BY <3>1, <4>2
    <3>2. CASE ~(n <= Len(a))
      <4>1. n - Len(a) \in 0..Len(b)
        BY <1>0, <1>5, <3>2
      <4>2. g[n - Len(a)] \in Nat
        BY <1>3, <4>1 DEF Sums
      <4> QED
        BY <1>4, <3>2, <4>2
    <3> QED
      BY <3>1, <3>2
  <2>2. 0 \in 0..Len(q) /\ 0 <= Len(a) /\ f[0] = 0
    BY <1>0, <1>2, <1>5 DEF Sums
  <2> QED
    BY <2>1, <2>2
<1>8. ASSUME NEW n \in 1..Len(q) PROVE h[n] = h[n - 1] + q[n].size
  <2>0. n \in 0..Len(q) /\ n - 1 \in 0..Len(q)
    BY <1>0, <1>5
  <2>1. CASE n <= Len(a)
    <3>1. n \in 1..Len(a) /\ n - 1 <= Len(a)
      BY <1>0, <2>1
    <3>2. h[n] = f[n] /\ h[n - 1] = f[n - 1] /\ q[n] = a[n]
      BY <1>6, <2>0, <2>1, <3>1
    <3>3. f[n] = f[n - 1] + a[n].size
      BY <1>2, <3>1 DEF Sums
    <3> HIDE DEF h
    <3> QED
      BY <3>2, <3>3
  <2>2. CASE n = Len(a) + 1
    <3>1. /\ ~(n <= Len(a)) /\ n - Len(a) = 1 /\ n - 1 = Len(a) /\ n - 1 <= Len(a)
          /\ 1 \in 1..Len(b)
      BY <1>0, <1>5, <2>2
    <3>2. h[n] = f[Len(a)] + g[1] /\ h[n - 1] = f[Len(a)] /\ q[n] = b[1]
      BY <1>6, <2>0, <3>1
    <3>3. g[1] = 0 + b[1].size
      <4>1. g[1] = g[1 - 1] + b[1].size /\ g[0] = 0
        BY <1>3, <3>1 DEF Sums
      <4>2. 1 - 1 = 0
        OBVIOUS
      <4> QED
        BY <4>1, <4>2
    <3>4. b[1].size \in Nat
      BY <3>1, SizesAreNumbers
    <3>5. \A u, v \in Nat : u + (0 + v) = u + v
      OBVIOUS
    <3>6. f[Len(a)] + (0 + b[1].size) = f[Len(a)] + b[1].size
      BY <1>4, <3>4, <3>5
    <3> HIDE DEF h
    <3> QED
      BY <3>2, <3>3, <3>6
  <2>3. CASE n > Len(a) + 1
    <3> DEFINE m == n - Len(a)
    <3>1. /\ ~(n <= Len(a)) /\ ~(n - 1 <= Len(a)) /\ m \in 1..Len(b)
          /\ (n - 1) - Len(a) = m - 1 /\ m - 1 \in 0..Len(b) /\ m \in 0..Len(b)
      BY <1>0, <1>5, <2>3
    <3>2. h[n] = f[Len(a)] + g[m] /\ h[n - 1] = f[Len(a)] + g[m - 1] /\ q[n] = b[m]
      BY <1>6, <2>0, <3>1
    <3> HIDE DEF m
    <3>3. g[m] = g[m - 1] + b[m].size /\ g[m] \in Nat /\ g[m - 1] \in Nat
      BY <1>3, <3>1 DEF Sums
    <3>4. b[m].size \in Nat
      BY <3>1, SizesAreNumbers
    <3>5. \A u, v, w \in Nat : u + (v + w) = (u + v) + w
      OBVIOUS
    <3>6. f[Len(a)] + (g[m - 1] + b[m].size) = (f[Len(a)] + g[m - 1]) + b[m].size
      BY <1>4, <3>3, <3>4, <3>5
    <3> HIDE DEF h
    <3> QED
      BY <3>2, <3>3, <3>6
  <2> QED
    BY <1>0, <2>1, <2>2, <2>3
<1>9. Sums(q, h)
  <2> HIDE DEF h
  <2> QED
    BY <1>7, <1>8 DEF Sums
<1>10. SizeOf(q) = h[Len(q)]
  BY <1>5, <1>9, SumIsSize
<1>11. h[Len(q)] = f[Len(a)] + g[Len(b)]
  <2>1. Len(q) \in 0..Len(q) /\ Len(q) - Len(a) = Len(b)
    BY <1>0, <1>5
  <2>2. CASE Len(q) <= Len(a)
    <3>1. Len(b) = 0 /\ Len(q) = Len(a)
      BY <1>0, <1>5, <2>2
    <3>2. h[Len(q)] = f[Len(a)] /\ g[Len(b)] = 0
      BY <1>3, <2>1, <2>2, <3>1 DEF Sums
    <3> HIDE DEF h
    <3> QED
      BY <1>4, <3>2
  <2>3. CASE ~(Len(q) <= Len(a))
    BY <2>1, <2>3
  <2> QED
    BY <2>2, <2>3
<1> QED
  BY <1>4, <1>10, <1>11 DEF q

LEMMA SizeOfOne ==
  ASSUME NEW e \in Entry
  PROVE  <<e>> \in Seq(Entry) /\ SizeOf(<<e>>) = e.size /\ e.size \in Nat
<1> DEFINE s == <<e>>
           f == [n \in 0..1 |-> IF n = 0 THEN 0 ELSE e.size]
<1>1. s \in Seq(Entry) /\ Len(s) = 1 /\ s[1] = e /\ e.size \in Nat
  BY DEF Entry
<1> HIDE DEF s
<1>2. f \in [0..1 -> Nat] /\ f[0] = 0 /\ f[1] = e.size
  <2>1. 0 \in 0..1 /\ 1 \in 0..1
    OBVIOUS
  <2>2. \A n \in 0..1 : f[n] \in Nat
    BY <1>1
  <2> QED
    BY <2>1, <2>2
<1>3. Sums(s, f)
  <2> HIDE DEF f
  <2>1. ASSUME NEW n \in 1..Len(s) PROVE f[n] = f[n - 1] + s[n].size
    <3>1. n = 1 /\ n - 1 = 0
      BY <1>1
    <3>2. f[1] = f[0] + s[1].size
      BY <1>1, <1>2
    <3> QED
      BY <3>1, <3>2
  <2> QED
    BY <1>1, <1>2, <2>1 DEF Sums
<1>4. SizeOf(s) = f[Len(s)]
  BY <1>1, <1>3, SumIsSize
<1> QED
  BY <1>1, <1>2, <1>4 DEF s

LEMMA SizeOfNone == SizeOf(<<>>) = 0
<1> DEFINE f == [n \in 0..0 |-> 0]
<1>1. <<>> \in Seq(Entry) /\ Len(<<>>) = 0
  BY EmptySeq
<1>2. Sums(<<>>, f)
  BY <1>1 DEF Sums
<1> QED
  BY <1>1, <1>2, SumIsSize

LEMMA SizeAppended ==
  ASSUME NEW s \in Seq(Entry), NEW e \in Entry
  PROVE  /\ Append(s, e) \in Seq(Entry) /\ SizeOf(Append(s, e)) = SizeOf(s) + e.size
         /\ SizeOf(s) \in Nat /\ e.size \in Nat
<1>1. <<e>> \in Seq(Entry) /\ SizeOf(<<e>>) = e.size /\ e.size \in Nat
  BY SizeOfOne
<1>2. Append(s, e) = s \o <<e>>
  BY AppendIsConcat
<1>3. Append(s, e) \in Seq(Entry)
  BY AppendProperties
<1> QED
  BY <1>1, <1>2, <1>3, SizeOfBoth

LEMMA SizeOfParts ==
  ASSUME NEW s \in Seq(Entry), NEW n \in 0..Len(s)
  PROVE  /\ SubSeq(s, 1, n) \in Seq(Entry) /\ SubSeq(s, n + 1, Len(s)) \in Seq(Entry)
         /\ SizeOf(s) = SizeOf(SubSeq(s, 1, n)) + SizeOf(SubSeq(s, n + 1, Len(s)))
         /\ SizeOf(s) \in Nat /\ SizeOf(SubSeq(s, 1, n)) \in Nat
         /\ SizeOf(SubSeq(s, n + 1, Len(s))) \in Nat
<1> DEFINE a == SubSeq(s, 1, n)
           b == SubSeq(s, n + 1, Len(s))
<1>1. a \in Seq(Entry) /\ b \in Seq(Entry) /\ a \o b = s
  BY TwoParts
<1> HIDE DEF a, b
<1>2. SizeOf(a \o b) = SizeOf(a) + SizeOf(b) /\ SizeOf(a) \in Nat /\ SizeOf(b) \in Nat
  BY <1>1, SizeOfBoth
<1>3. SizeOf(s) = SizeOf(a) + SizeOf(b) /\ SizeOf(s) \in Nat
  <2>1. \A x, y, z : x = y + z /\ y \in Nat /\ z \in Nat => x \in Nat
    OBVIOUS
  <2> QED
    BY <1>1, <1>2, <2>1
<1> QED
  BY <1>1, <1>2, <1>3 DEF a, b

LEMMA SizeWithoutOne ==
  ASSUME NEW s \in Seq(Entry), NEW i \in 1..Len(s)
  PROVE  /\ SizeOf(RemoveAt(s, i)) = SizeOf(s) - s[i].size
         /\ SizeOf(s) \in Nat /\ s[i].size \in Nat /\ SizeOf(RemoveAt(s, i)) \in Nat
<1> DEFINE a == SubSeq(s, 1, i - 1)
           b == SubSeq(s, i + 1, Len(s))
           c == SubSeq(s, 1, i)
<1>0. Len(s) \in Nat /\ s[i] \in Entry
  BY SizesAreNumbers
<1>1. a \in Seq(Entry)
  BY <1>0, SizeOfParts
<1>2. /\ c \in Seq(Entry) /\ b \in Seq(Entry) /\ SizeOf(s) = SizeOf(c) + SizeOf(b)
      /\ SizeOf(s) \in Nat /\ SizeOf(c) \in Nat /\ SizeOf(b) \in Nat
  BY <1>0, SizeOfParts
<1>3. c = a \o <<s[i]>>
  BY <1>0, SubSeqRecursiveSecond
<1>4. RemoveAt(s, i) = a \o b
  BY DEF RemoveAt
<1> HIDE DEF a, b, c
<1>5. <<s[i]>> \in Seq(Entry) /\ SizeOf(<<s[i]>>) = s[i].size /\ s[i].size \in Nat
  BY <1>0, SizeOfOne
<1>6. SizeOf(c) = SizeOf(a) + s[i].size /\ SizeOf(a) \in Nat
  BY <1>1, <1>3, <1>5, SizeOfBoth
<1>7. SizeOf(RemoveAt(s, i)) = SizeOf(a) + SizeOf(b)
  BY <1>1, <1>2, <1>4, SizeOfBoth
<1>8. \A x, y, z, u, v, w \in Nat : x = u + v /\ u = z + w => z + v = x - w
  OBVIOUS
<1>9. SizeOf(a) + SizeOf(b) = SizeOf(s) - s[i].size
  BY <1>2, <1>5, <1>6, <1>8
<1>10. \A x, y \in Nat : x + y \in Nat
  OBVIOUS
<1> QED
  BY <1>2, <1>5, <1>6, <1>7, <1>9, <1>10
-----------------------------------------------------------------------------
(* What a put and a get do to the account *)

\* The entries of t are entries of s, each once.
DrawnFrom(t, s) == \A i \in DOMAIN t : \E j \in DOMAIN s : t[i] = s[j]
DistinctKeys(s) == \A i, j \in DOMAIN s : s[i].key = s[j].key => i = j

LEMMA OthersProperties ==
  ASSUME lru \in Seq(Entry), DistinctKeys(lru), NEW k \in Keys
  PROVE  /\ Others(k) \in Seq(Entry) /\ DistinctKeys(Others(k)) /\ DrawnFrom(Others(k), lru)
         /\ \A i \in DOMAIN Others(k) : Others(k)[i].key # k
         /\ SizeOf(Others(k)) = SizeOf(lru) - Held(k)
         /\ SizeOf(lru) \in Nat /\ Held(k) \in Nat /\ SizeOf(Others(k)) \in Nat
         /\ InMemory(k) => Place(k) \in DOMAIN lru /\ lru[Place(k)].key = k
<1>0. Len(lru) \in Nat /\ DOMAIN lru = 1..Len(lru)
  BY SizesAreNumbers
<1>1. CASE ~InMemory(k)
  <2>1. Others(k) = lru /\ Held(k) = 0
    BY <1>1 DEF Others, Held
  <2>2. SizeOf(lru) \in Nat
    BY SumsExist, SumIsSize
  <2> QED
    BY <1>1, <2>1, <2>2 DEF InMemory, DrawnFrom
<1>2. CASE InMemory(k)
  <2> DEFINE p == Place(k)
             q == RemoveAt(lru, p)
  <2>1. p \in 1..Len(lru) /\ lru[p].key = k
    BY <1>0, <1>2 DEF InMemory, Place
  <2>2. Others(k) = q /\ Held(k) = lru[p].size
    BY <1>2 DEF Others, Held
  <2> HIDE DEF p
  <2>3. /\ q \in Seq(Entry) /\ Len(q) = Len(lru) - 1
        /\ \A j \in 1..(Len(lru) - 1) : q[j] = IF j < p THEN lru[j] ELSE lru[j + 1]
    BY <2>1, WithoutOne
  <2>4. /\ SizeOf(q) = SizeOf(lru) - lru[p].size
        /\ SizeOf(lru) \in Nat /\ lru[p].size \in Nat /\ SizeOf(q) \in Nat
    BY <2>1, SizeWithoutOne
  <2> HIDE DEF q
  <2>5. DOMAIN q = 1..(Len(lru) - 1)
    BY <2>3, SizesAreNumbers
  <2> DEFINE Was(i) == IF i < p THEN i ELSE i + 1
  <2>6. ASSUME NEW i \in DOMAIN q
        PROVE  Was(i) \in DOMAIN lru /\ Was(i) # p /\ q[i] = lru[Was(i)]
    <3>1. CASE i < p
      BY <1>0, <2>1, <2>3, <2>5, <3>1
    <3>2. CASE ~(i < p)
      BY <1>0, <2>1, <2>3, <2>5, <3>2
    <3> QED
      BY <3>1, <3>2
  <2>7. \A i, j \in DOMAIN q : Was(i) = Was(j) => i = j
    BY <1>0, <2>1, <2>5
  <2> HIDE DEF Was
  <2>8. DistinctKeys(q) /\ DrawnFrom(q, lru)
    BY <2>6, <2>7 DEF DistinctKeys, DrawnFrom
  <2>9. \A i \in DOMAIN q : q[i].key # k
    BY <1>0, <2>1, <2>6 DEF DistinctKeys
  <2> QED
    BY <1>0, <1>2, <2>1, <2>2, <2>3, <2>4, <2>8, <2>9 DEF p
<1> QED
  BY <1>1, <1>2

\* What is appended under a key of its own leaves the keys distinct.
LEMMA AppendedDistinct ==
  ASSUME NEW s \in Seq(Entry), DistinctKeys(s), NEW e \in Entry,
         \A i \in DOMAIN s : s[i].key # e.key
  PROVE  /\ DistinctKeys(Append(s, e)) /\ Append(s, e) \in Seq(Entry)
         /\ Len(Append(s, e)) = Len(s) + 1 /\ Append(s, e)[Len(s) + 1] = e
         /\ \A i \in DOMAIN Append(s, e) :
              Append(s, e)[i] = e \/ \E j \in DOMAIN s : Append(s, e)[i] = s[j]
<1> DEFINE t == Append(s, e)
<1>0. Len(s) \in Nat /\ DOMAIN s = 1..Len(s)
  BY SizesAreNumbers
<1>1. /\ t \in Seq(Entry) /\ Len(t) = Len(s) + 1 /\ t[Len(s) + 1] = e
      /\ \A i \in 1..Len(s) : t[i] = s[i]
  BY AppendProperties
<1> HIDE DEF t
<1>2. DOMAIN t = 1..(Len(s) + 1)
  BY <1>1, SizesAreNumbers
<1>3. \A i \in DOMAIN t : i = Len(s) + 1 \/ i \in DOMAIN s
  BY <1>0, <1>2
<1>4. DistinctKeys(t)
  BY <1>0, <1>1, <1>3 DEF DistinctKeys
<1>5. \A i \in DOMAIN t : t[i] = e \/ \E j \in DOMAIN s : t[i] = s[j]
  BY <1>0, <1>1, <1>3
<1> QED
  BY <1>1, <1>4, <1>5 DEF t

LEMMA ShrunkProperties ==
  ASSUME NEW s \in Seq(Entry), DistinctKeys(s), s # <<>>, s[Len(s)].size <= MemMax
  PROVE  LET kept == Shrunk(s, SizeOf(s)) IN
         /\ kept.items \in Seq(Entry) /\ kept.bytes = SizeOf(kept.items)
         /\ kept.bytes \in Nat /\ kept.bytes <= MemMax
         /\ DistinctKeys(kept.items) /\ DrawnFrom(kept.items, s)
<1> DEFINE Fits == {i \in 0..(Len(s) - 1) : \/ SizeOf(s) - SizeOf(SubSeq(s, 1, i)) <= MemMax
                                            \/ i = Len(s) - 1}
           n == Min(Fits)
           items == SubSeq(s, n + 1, Len(s))
           gone == SubSeq(s, 1, n)
<1>0. Len(s) \in Nat /\ Len(s) # 0 /\ DOMAIN s = 1..Len(s)
  BY SizesAreNumbers, EmptySeq
<1>1. n \in Fits
  <2>1. Len(s) - 1 \in Fits
    BY <1>0
  <2>2. Fits \in SUBSET Nat
    BY <1>0
  <2> QED
    BY <2>1, <2>2, LeastIsIn
<1>2. Shrunk(s, SizeOf(s)) = [items |-> items, bytes |-> SizeOf(s) - SizeOf(gone)]
  BY DEF Shrunk
<1> HIDE DEF n
<1>3. n \in 0..(Len(s) - 1) /\ n \in 0..Len(s) /\ n + 1 \in 1..Len(s)
  <2>1. n \in 0..(Len(s) - 1)
    BY <1>1
  <2> QED
    BY <1>0, <2>1
<1>4. SizeOf(s) - SizeOf(gone) <= MemMax \/ n = Len(s) - 1
  BY <1>1
<1>5. /\ items \in Seq(Entry) /\ SizeOf(s) = SizeOf(gone) + SizeOf(items)
      /\ SizeOf(gone) \in Nat /\ SizeOf(items) \in Nat
  BY <1>3, SizeOfParts
<1>6. /\ Len(items) = Len(s) - n
      /\ \A i \in 1..(Len(s) - n) : items[i] = s[n + i]
  <2>1. /\ Len(items) = Len(s) - (n + 1) + 1
        /\ \A i \in 1..(Len(s) - (n + 1) + 1) : items[i] = s[(n + 1) + i - 1]
    <3>1. n + 1 \in 1..(Len(s) + 1) /\ Len(s) \in 0..Len(s) /\ n + 1 <= Len(s) + 1
      BY <1>0, <1>3
    <3> QED
      BY <3>1, PartOfSequence
  <2> HIDE DEF items
  <2> QED
    BY <1>0, <1>3, <2>1
<1> HIDE DEF items, gone
<1>7. DOMAIN items = 1..(Len(s) - n)
  BY <1>5, <1>6, SizesAreNumbers
<1>8. ASSUME NEW i \in DOMAIN items PROVE items[i] = s[n + i] /\ n + i \in DOMAIN s
  BY <1>0, <1>3, <1>6, <1>7
<1>9. \A i, j \in DOMAIN items : n + i = n + j => i = j
  BY <1>0, <1>3, <1>7
<1>10. DistinctKeys(items) /\ DrawnFrom(items, s)
  BY <1>8, <1>9 DEF DistinctKeys, DrawnFrom
<1>11. SizeOf(s) - SizeOf(gone) = SizeOf(items)
  <2>1. \A x, y, z : x = y + z /\ y \in Nat /\ z \in Nat => x - y = z
    OBVIOUS
  <2> QED
    BY <1>5, <2>1
<1>12. SizeOf(items) <= MemMax
  <2>1. CASE n # Len(s) - 1
    BY <1>4, <1>11, <2>1
  <2>2. CASE n = Len(s) - 1
    <3>1. Len(s) - n = 1 /\ n + 1 = Len(s)
      BY <1>0, <2>2
    <3>2. Len(items) = 1 /\ items[1] = s[Len(s)] /\ items[1] \in Entry
      BY <1>5, <1>6, <3>1, SizesAreNumbers
    <3>3. items = <<items[1]>>
      <4>1. <<items[1]>> \in Seq(Entry) /\ Len(<<items[1]>>) = 1 /\ <<items[1]>>[1] = items[1]
        BY <3>2, SizeOfOne
      <4>2. \A i \in 1..Len(items) : items[i] = <<items[1]>>[i]
        BY <3>2, <4>1
      <4> QED
        BY <1>5, <3>2, <4>1, <4>2, SeqEqual
    <3>4. SizeOf(items) = items[1].size
      BY <3>2, <3>3, SizeOfOne
    <3> QED
      BY <3>2, <3>4
  <2> QED
    BY <2>1, <2>2
<1> QED
  BY <1>2, <1>5, <1>10, <1>11, <1>12

LEMMA PutProperties ==
  ASSUME TypeOK, MemoryAccount, NEW k \in Keys, NEW ports \in SUBSET Port, NEW size \in Nat,
         MemoryPut(k, ports, size)
  PROVE  /\ lru' \in Seq(Entry) /\ nbytes' \in Int /\ MemoryAccount'
         /\ \A i \in DOMAIN lru' : \/ lru'[i] = [key |-> k, ports |-> ports, size |-> size]
                                   \/ \E j \in DOMAIN lru : lru'[i] = lru[j]
<1> DEFINE rest == Others(k)
           e == [key |-> k, ports |-> ports, size |-> size]
           s == Append(rest, e)
           bytes == nbytes - Held(k)
           kept == Shrunk(s, bytes + size)
<1>0. lru \in Seq(Entry) /\ DistinctKeys(lru) /\ nbytes = SizeOf(lru) /\ nbytes <= MemMax
      /\ MemMax \in Nat
  BY CacheAssumption DEF TypeOK, MemoryAccount, DistinctKeys
<1>1. /\ rest \in Seq(Entry) /\ DistinctKeys(rest) /\ DrawnFrom(rest, lru)
      /\ \A i \in DOMAIN rest : rest[i].key # k
      /\ SizeOf(rest) = SizeOf(lru) - Held(k)
      /\ SizeOf(lru) \in Nat /\ Held(k) \in Nat /\ SizeOf(rest) \in Nat
  BY <1>0, OthersProperties
<1>2. bytes = SizeOf(rest) /\ SizeOf(rest) <= MemMax
  BY <1>0, <1>1
<1>3. IF size > MemMax THEN lru' = rest /\ nbytes' = bytes
      ELSE lru' = kept.items /\ nbytes' = kept.bytes
  BY DEF MemoryPut
<1> HIDE DEF rest, bytes
<1>4. CASE size > MemMax
  <2>1. lru' = rest /\ nbytes' = SizeOf(rest)
    BY <1>2, <1>3, <1>4
  <2> QED
    BY <1>1, <1>2, <2>1 DEF MemoryAccount, DistinctKeys, DrawnFrom
<1>5. CASE ~(size > MemMax)
  <2>1. e \in Entry /\ e.key = k /\ e.size = size
    BY DEF Entry
  <2> HIDE DEF e
  <2>2. /\ DistinctKeys(s) /\ s \in Seq(Entry)
        /\ Len(s) = Len(rest) + 1 /\ s[Len(rest) + 1] = e
        /\ \A i \in DOMAIN s : s[i] = e \/ \E j \in DOMAIN rest : s[i] = rest[j]
    BY <1>1, <2>1, AppendedDistinct
  <2>3. SizeOf(s) = SizeOf(rest) + size
    BY <1>1, <2>1, SizeAppended
  <2> HIDE DEF s
  <2>4. s # <<>> /\ s[Len(s)].size <= MemMax
    <3>1. Len(rest) \in Nat
      BY <1>1, SizesAreNumbers
    <3>2. s # <<>>
      BY <2>2, <3>1, EmptySeq
    <3>3. s[Len(s)].size = size
      BY <2>1, <2>2
    <3> QED
      BY <1>0, <1>5, <3>2, <3>3
  <2>5. kept = Shrunk(s, SizeOf(s))
    BY <1>2, <2>3
  <2> HIDE DEF kept
  <2>6. /\ kept.items \in Seq(Entry) /\ kept.bytes = SizeOf(kept.items)
        /\ kept.bytes \in Nat /\ kept.bytes <= MemMax
        /\ DistinctKeys(kept.items) /\ DrawnFrom(kept.items, s)
    BY <2>2, <2>4, <2>5, ShrunkProperties
  <2>7. lru' = kept.items /\ nbytes' = kept.bytes
    BY <1>3, <1>5
  <2>8. ASSUME NEW i \in DOMAIN lru'
        PROVE  lru'[i] = e \/ \E j \in DOMAIN lru : lru'[i] = lru[j]
    BY <1>1, <2>2, <2>6, <2>7 DEF DrawnFrom
  <2>9. lru' \in Seq(Entry) /\ nbytes' \in Int /\ MemoryAccount'
    BY <2>6, <2>7 DEF MemoryAccount, DistinctKeys
  <2> QED
    BY <2>8, <2>9 DEF e
<1> QED
  BY <1>4, <1>5

LEMMA GetProperties ==
  ASSUME TypeOK, MemoryAccount, NEW k \in Keys, InMemory(k), MemoryGet(k)
  PROVE  lru' \in Seq(Entry) /\ nbytes' \in Int /\ MemoryAccount' /\ DrawnFrom(lru', lru)
<1> DEFINE rest == Others(k)
           e == lru[Place(k)]
           s == Append(rest, e)
<1>0. lru \in Seq(Entry) /\ DistinctKeys(lru) /\ nbytes = SizeOf(lru) /\ nbytes <= MemMax
  BY DEF TypeOK, MemoryAccount, DistinctKeys
<1>1. /\ rest \in Seq(Entry) /\ DistinctKeys(rest) /\ DrawnFrom(rest, lru)
      /\ \A i \in DOMAIN rest : rest[i].key # k
      /\ SizeOf(rest) = SizeOf(lru) - Held(k)
      /\ SizeOf(lru) \in Nat /\ Held(k) \in Nat /\ SizeOf(rest) \in Nat
      /\ Place(k) \in DOMAIN lru /\ lru[Place(k)].key = k
  BY <1>0, OthersProperties
<1>2. e \in Entry /\ e.key = k /\ e.size = Held(k) /\ \E j \in DOMAIN lru : e = lru[j]
  BY <1>0, <1>1, SizesAreNumbers DEF Held
<1>3. lru' = s /\ nbytes' = nbytes
  BY DEF MemoryGet
<1> HIDE DEF rest, e
<1>4. /\ DistinctKeys(s) /\ s \in Seq(Entry)
      /\ \A i \in DOMAIN s : s[i] = e \/ \E j \in DOMAIN rest : s[i] = rest[j]
  BY <1>1, <1>2, AppendedDistinct
<1>5. SizeOf(s) = SizeOf(lru)
  <2>1. SizeOf(s) = SizeOf(rest) + Held(k)
    BY <1>1, <1>2, SizeAppended
  <2>2. \A x, y, z, t \in Nat : x = y - z => x + z = y
    OBVIOUS
  <2> QED
    BY <1>1, <2>1, <2>2
<1> HIDE DEF s
<1>6. lru' \in Seq(Entry) /\ nbytes' \in Int /\ MemoryAccount'
  BY <1>0, <1>3, <1>4, <1>5 DEF MemoryAccount, DistinctKeys, TypeOK
<1>7. DrawnFrom(s, lru)
  BY <1>1, <1>2, <1>4 DEF DrawnFrom
<1> QED
  BY <1>3, <1>6, <1>7
-----------------------------------------------------------------------------
(* Type correctness, with the account *)

LEMMA RowTypes ==
  ASSUME NEW k \in Keys
  PROVE  /\ Ports(k) \subseteq Port /\ Blobbable(k) \subseteq Ports(k) /\ NoOutputs \notin Ports(k)
         /\ \A p \in Ports(k) : Row(k, p) \in Digests
         /\ StoredRows(k) \subseteq Ports(k) \cup {NoOutputs}
         /\ Needs[k] \subseteq Keys /\ Weight[k] \in Nat
<1>1. Content[k] \in [Ports(k) -> Digests]
  BY CacheAssumption
<1>2. \A p \in Ports(k) : Row(k, p) \in Digests
  BY <1>1 DEF Row
<1> QED
  BY <1>2, CacheAssumption DEF Port, Blobbable, StoredRows

LEMMA UnusedProperties ==
  ASSUME used \in Seq(Keys), NEW k \in Keys
  PROVE  /\ Unused(k) \in Seq(Keys) /\ ToSet(used) \ {k} \subseteq ToSet(Unused(k))
         /\ Append(Unused(k), k) \in Seq(Keys)
         /\ ToSet(used) \cup {k} \subseteq ToSet(Append(Unused(k), k))
<1>0. Len(used) \in Nat /\ DOMAIN used = 1..Len(used)
  BY LenProperties
<1>1. Unused(k) \in Seq(Keys) /\ ToSet(used) \ {k} \subseteq ToSet(Unused(k))
  <2>1. CASE ~\E i \in DOMAIN used : used[i] = k
    BY <2>1 DEF Unused
  <2>2. CASE \E i \in DOMAIN used : used[i] = k
    <3> DEFINE p == CHOOSE i \in DOMAIN used : used[i] = k
               q == RemoveAt(used, p)
    <3>1. p \in 1..Len(used) /\ used[p] = k /\ Unused(k) = q
      BY <1>0, <2>2 DEF Unused
    <3> HIDE DEF p
    <3>2. /\ q \in Seq(Keys) /\ Len(q) = Len(used) - 1
          /\ \A j \in 1..(Len(used) - 1) : q[j] = IF j < p THEN used[j] ELSE used[j + 1]
      BY <3>1, WithoutOne
    <3> HIDE DEF q
    <3>3. DOMAIN q = 1..(Len(used) - 1)
      BY <3>2, LenProperties
    <3>4. ASSUME NEW j \in DOMAIN used, used[j] # k PROVE \E i \in DOMAIN q : q[i] = used[j]
      <4>1. CASE j < p
        BY <1>0, <3>1, <3>2, <3>3, <4>1
      <4>2. CASE ~(j < p)
        <5>1. j # p
          BY <3>1, <3>4
        <5>2. j - 1 \in DOMAIN q /\ q[j - 1] = used[(j - 1) + 1] /\ (j - 1) + 1 = j
          BY <1>0, <3>1, <3>2, <3>3, <4>2, <5>1
        <5> QED
          BY <5>2
      <4> QED
        BY <4>1, <4>2
    <3> QED
      BY <3>1, <3>2, <3>4 DEF ToSet
  <2> QED
    BY <2>1, <2>2
<1> DEFINE u == Unused(k)
           t == Append(u, k)
<1> HIDE DEF u
<1>2. u \in Seq(Keys)
  BY <1>1 DEF u
<1>3. /\ t \in Seq(Keys) /\ Len(t) = Len(u) + 1 /\ t[Len(u) + 1] = k
      /\ \A i \in 1..Len(u) : t[i] = u[i]
  BY <1>2, AppendProperties
<1> HIDE DEF t
<1>4. Len(u) \in Nat /\ DOMAIN u = 1..Len(u) /\ DOMAIN t = 1..(Len(u) + 1)
  BY <1>2, <1>3, LenProperties
<1>5. Len(u) + 1 \in DOMAIN t /\ \A i \in DOMAIN u : i \in DOMAIN t /\ t[i] = u[i]
  BY <1>3, <1>4
<1>6. ToSet(u) \cup {k} \subseteq ToSet(t)
  BY <1>3, <1>5 DEF ToSet
<1> QED
  BY <1>1, <1>3, <1>6 DEF t, u

LEMMA TypeInit == Init => TypeOK /\ MemoryAccount
<1> SUFFICES ASSUME Init PROVE TypeOK /\ MemoryAccount
  OBVIOUS
<1>1. /\ lru = <<>> /\ nbytes = 0 /\ used = <<>> /\ rows = [k \in Keys |-> {}]
      /\ blobs = {} /\ job = [k \in Keys |-> NoJob] /\ gc = Idle /\ lost = {} /\ crashes = 0
  BY DEF Init
<1>2. /\ lru \in Seq(Entry) /\ used \in Seq(Keys) /\ DOMAIN lru = {} /\ nbytes = SizeOf(lru)
  BY <1>1, SizeOfNone
<1>3. 0 \in 0..MaxCrashes /\ nbytes \in Int /\ nbytes <= MemMax
  BY <1>1, CacheAssumption
<1>4. NoJob \in WorkerJob /\ NoJob.left = {} /\ Idle \in Collector
  BY DEF NoJob, WorkerJob, Idle, Collector
<1> QED
  BY <1>1, <1>2, <1>3, <1>4 DEF TypeOK, MemoryAccount

LEMMA ValueTypes ==
  /\ NoJob \in WorkerJob /\ NoJob.left = {} /\ NoJob.ph = "off"
  /\ Idle \in Collector /\ [Idle EXCEPT !.ph = "open"] \in Collector
  /\ [Idle EXCEPT !.ph = "evicted"] \in Collector
BY DEF NoJob, WorkerJob, Idle, Collector

\* One worker job changes, to one of its type.
LEMMA JobTyped ==
  ASSUME TypeOK, NEW k \in Keys, NEW j \in WorkerJob, j.left \subseteq Ports(k),
         job' = [job EXCEPT ![k] = j]
  PROVE  job' \in [Keys -> WorkerJob] /\ \A u \in Keys : job'[u].left \subseteq Ports(u)
BY DEF TypeOK

LEMMA IndexedTyped ==
  ASSUME TypeOK, NEW k \in Keys, NEW ports, ports \subseteq Ports(k) \cup {NoOutputs},
         Indexed(k, ports)
  PROVE  /\ used' \in Seq(Keys) /\ rows' \in [Keys -> SUBSET (Port \cup {NoOutputs})]
         /\ \A u \in Keys : rows'[u] \subseteq Ports(u) \cup {NoOutputs}
<1>1. rows' = [rows EXCEPT ![k] = @ \cup ports] /\ used' = Append(Unused(k), k)
  BY DEF Indexed, Touch
<1>2. used' \in Seq(Keys)
  BY <1>1, UnusedProperties DEF TypeOK
<1>3. rows[k] \cup ports \subseteq Ports(k) \cup {NoOutputs} /\ Ports(k) \subseteq Port
  BY RowTypes DEF TypeOK
<1> QED
  BY <1>1, <1>2, <1>3 DEF TypeOK

LEMMA UseTyped ==
  ASSUME TypeOK, MemoryAccount, NEW k \in Keys, Use(k)
  PROVE  TypeOK' /\ MemoryAccount'
<1>1. CASE LookupMemory(k)
  <2>1. lru' \in Seq(Entry) /\ nbytes' \in Int /\ MemoryAccount'
    BY <1>1, GetProperties DEF LookupMemory
  <2> QED
    BY <1>1, <2>1 DEF LookupMemory, TypeOK
<1>2. CASE LookupDisk(k)
  <2>1. PICK P \in SUBSET Port : P = DataPorts(k)
    BY DEF TypeOK, DataPorts
  <2>2. MemoryPut(k, P, 1) /\ used' = Append(Unused(k), k)
    BY <1>2, <2>1 DEF LookupDisk, Touch
  <2>3. lru' \in Seq(Entry) /\ nbytes' \in Int /\ MemoryAccount'
    BY <2>2, PutProperties
  <2>4. used' \in Seq(Keys)
    BY <2>2, UnusedProperties DEF TypeOK
  <2> QED
    BY <1>2, <2>3, <2>4 DEF LookupDisk, TypeOK
<1>3. CASE LookupDangling(k)
  <2>1. /\ rows' = [rows EXCEPT ![k] = {}] /\ used' = Unused(k) /\ lost' = lost \ {k}
        /\ UNCHANGED <<lru, nbytes, blobs, job, gc, crashes>>
    BY <1>3 DEF LookupDangling, Forget
  <2>2. used' \in Seq(Keys)
    BY <2>1, UnusedProperties DEF TypeOK
  <2>3. /\ rows' \in [Keys -> SUBSET (Port \cup {NoOutputs})]
        /\ \A u \in Keys : rows'[u] \subseteq Ports(u) \cup {NoOutputs}
    BY <2>1 DEF TypeOK
  <2> QED
    BY <2>1, <2>2, <2>3 DEF TypeOK, MemoryAccount
<1>4. CASE Store(k)
  <2>1. Ports(k) \in SUBSET Port /\ Weight[k] \in Nat
    BY RowTypes
  <2>2. lru' \in Seq(Entry) /\ nbytes' \in Int /\ MemoryAccount'
    <3>1. MemoryPut(k, Ports(k), Weight[k])
      BY <1>4 DEF Store
    <3> QED
      BY <2>1, <3>1, PutProperties
  <2>3. /\ used' \in Seq(Keys) /\ rows' \in [Keys -> SUBSET (Port \cup {NoOutputs})]
        /\ \A u \in Keys : rows'[u] \subseteq Ports(u) \cup {NoOutputs}
    <3>1. CASE StoredRows(k) # {}
      <4>1. Indexed(k, StoredRows(k))
        BY <1>4, <3>1 DEF Store
      <4> QED
        BY <4>1, RowTypes, IndexedTyped
    <3>2. CASE StoredRows(k) = {}
      BY <1>4, <3>2 DEF Store, TypeOK
    <3> QED
      BY <3>1, <3>2
  <2>4. blobs' \subseteq Digests /\ lost' \subseteq Keys
    BY <1>4, RowTypes DEF Store, TypeOK
  <2> QED
    BY <1>4, <2>2, <2>3, <2>4 DEF Store, TypeOK
<1> QED
  BY <1>1, <1>2, <1>3, <1>4 DEF Use

LEMMA JobStepTyped ==
  ASSUME TypeOK, MemoryAccount, NEW k \in Keys, Job(k)
  PROVE  TypeOK' /\ MemoryAccount'
<1>0. Ports(k) \in SUBSET Port /\ \A p \in Ports(k) : Row(k, p) \in Digests
  BY RowTypes
<1>1. CASE StartJob(k)
  <2>1. [ph |-> "sent", left |-> {}] \in WorkerJob
    BY DEF WorkerJob
  <2>2. job' \in [Keys -> WorkerJob] /\ \A u \in Keys : job'[u].left \subseteq Ports(u)
    BY <1>1, <2>1, JobTyped DEF StartJob
  <2> QED
    BY <1>1, <2>2 DEF StartJob, TypeOK, MemoryAccount
<1>2. CASE JobReads(k)
  <2>1. [ph |-> "writing", left |-> Ports(k)] \in WorkerJob
    BY <1>0 DEF WorkerJob
  <2>2. job' \in [Keys -> WorkerJob] /\ \A u \in Keys : job'[u].left \subseteq Ports(u)
    <3>1. \/ job' = [job EXCEPT ![k] = [ph |-> "writing", left |-> Ports(k)]]
          \/ job' = [job EXCEPT ![k] = NoJob]
      BY <1>2 DEF JobReads
    <3> QED
      BY <2>1, <3>1, JobTyped, ValueTypes
  <2> QED
    BY <1>2, <2>2 DEF JobReads, TypeOK, MemoryAccount
<1>3. CASE JobWrites(k)
  <2>1. UNCHANGED <<lru, nbytes, rows, used, lost, crashes>>
    BY <1>3 DEF JobWrites
  <2>2. PICK p \in job[k].left :
          IF p \in AnyPorts[k]
          THEN /\ job' = [job EXCEPT ![k] = NoJob]
               /\ UNCHANGED <<blobs, gc>>
          ELSE /\ job' = [job EXCEPT ![k].left = @ \ {p}]
               /\ blobs' = blobs \cup {Row(k, p)}
               /\ gc' = IF gc.ph = "delete" THEN [gc EXCEPT !.fresh = @ \cup {Row(k, p)}] ELSE gc
    BY <1>3 DEF JobWrites
  <2>3. p \in Ports(k) /\ Row(k, p) \in Digests
    BY <1>0, <2>2 DEF TypeOK
  <2>4. CASE p \in AnyPorts[k]
    <3>1. job' \in [Keys -> WorkerJob] /\ \A u \in Keys : job'[u].left \subseteq Ports(u)
      BY <2>2, <2>4, JobTyped, ValueTypes
    <3> QED
      BY <2>1, <2>2, <2>4, <3>1 DEF TypeOK, MemoryAccount
  <2>5. CASE p \notin AnyPorts[k]
    <3>1. job' = [job EXCEPT ![k].left = @ \ {p}] /\ blobs' = blobs \cup {Row(k, p)}
      BY <2>2, <2>5
    <3>2. job' \in [Keys -> WorkerJob] /\ \A u \in Keys : job'[u].left \subseteq Ports(u)
      BY <3>1 DEF TypeOK, WorkerJob
    <3>3. gc' \in Collector
      <4>1. CASE gc.ph = "delete"
        <5>1. gc' = [gc EXCEPT !.fresh = @ \cup {Row(k, p)}]
          BY <2>2, <2>5, <4>1
        <5> QED
          BY <2>3, <5>1 DEF TypeOK, Collector
      <4>2. CASE gc.ph # "delete"
        BY <2>2, <2>5, <4>2 DEF TypeOK
      <4> QED
        BY <4>1, <4>2
    <3>4. blobs' \subseteq Digests
      BY <2>3, <3>1 DEF TypeOK
    <3> QED
      BY <2>1, <3>2, <3>3, <3>4 DEF TypeOK, MemoryAccount
  <2> QED
    BY <2>4, <2>5
<1>4. CASE Adopt(k)
  <2>1. job' \in [Keys -> WorkerJob] /\ \A u \in Keys : job'[u].left \subseteq Ports(u)
    BY <1>4, JobTyped, ValueTypes DEF Adopt
  <2>2. /\ used' \in Seq(Keys) /\ rows' \in [Keys -> SUBSET (Port \cup {NoOutputs})]
        /\ \A u \in Keys : rows'[u] \subseteq Ports(u) \cup {NoOutputs}
    <3>1. CASE Ports(k) # {}
      <4>1. Indexed(k, Ports(k))
        BY <1>4, <3>1 DEF Adopt
      <4> QED
        BY <4>1, IndexedTyped
    <3>2. CASE Ports(k) = {}
      BY <1>4, <3>2 DEF Adopt, TypeOK
    <3> QED
      BY <3>1, <3>2
  <2>3. lru' \in Seq(Entry) /\ nbytes' \in Int /\ MemoryAccount' /\ lost' \subseteq Keys
    <3>1. CASE \A p \in Ports(k) : Row(k, p) \in blobs
      <4>1. MemoryPut(k, Ports(k), 1) /\ lost' = lost \ {k}
        BY <1>4, <3>1 DEF Adopt
      <4>2. lru' \in Seq(Entry) /\ nbytes' \in Int /\ MemoryAccount'
        BY <1>0, <4>1, PutProperties
      <4> QED
        BY <4>1, <4>2 DEF TypeOK
    <3>2. CASE ~\A p \in Ports(k) : Row(k, p) \in blobs
      BY <1>4, <3>2 DEF Adopt, TypeOK, MemoryAccount
    <3> QED
      BY <3>1, <3>2
  <2> QED
    BY <1>4, <2>1, <2>2, <2>3 DEF Adopt, TypeOK
<1>5. CASE KillJob(k)
  <2>1. job' \in [Keys -> WorkerJob] /\ \A u \in Keys : job'[u].left \subseteq Ports(u)
    BY <1>5, JobTyped, ValueTypes DEF KillJob
  <2> QED
    BY <1>5, <2>1 DEF KillJob, TypeOK, MemoryAccount
<1> QED
  BY <1>1, <1>2, <1>3, <1>4, <1>5 DEF Job

\* What an eviction takes: the n keys used longest ago, with all their rows, so that the
\* rest fits.
LEMMA EvictionProperties ==
  ASSUME TypeOK, GcEvict
  PROVE  \E n \in 0..Len(used) :
           /\ RowCount(Newest(n)) <= DiskMax
           /\ used' = SubSeq(used, n + 1, Len(used)) /\ used' \in Seq(Keys)
           /\ rows' = [k \in Keys |-> IF k \in ToSet(used) \ Newest(n) THEN {} ELSE rows[k]]
           /\ lost' = lost \ (ToSet(used) \ Newest(n))
<1>1. PICK old \in 0..Len(used) :
        LET gone == ToSet(used) \ Newest(Evicted(old))
        IN /\ rows' = [k \in Keys |-> IF k \in gone THEN {} ELSE rows[k]]
           /\ used' = SubSeq(used, Evicted(old) + 1, Len(used))
           /\ lost' = lost \ gone
  BY DEF GcEvict
<1>2. used \in Seq(Keys) /\ Len(used) \in Nat
  BY LenProperties DEF TypeOK
<1> DEFINE Fits == {n \in old..Len(used) : RowCount(Newest(n)) <= DiskMax}
           n == Min(Fits)
<1>3. Len(used) \in Fits
  <2>1. Newest(Len(used)) = {}
    <3>1. SubSeq(used, Len(used) + 1, Len(used)) = <<>>
      BY <1>2, SubSeqEmpty
    <3> QED
      BY <3>1 DEF Newest, ToSet
  <2>2. RowCount({}) = 0
    <3>1. UNION {{k} \X DataPorts(k) : k \in {}} = {}
      OBVIOUS
    <3> QED
      BY <3>1, FS_EmptySet DEF RowCount
  <2>3. 0 <= DiskMax /\ Len(used) \in old..Len(used)
    BY <1>1, <1>2, CacheAssumption
  <2> QED
    BY <2>1, <2>2, <2>3
<1>4. n \in Fits /\ n = Evicted(old)
  <2>1. Fits \in SUBSET Nat
    BY <1>1, <1>2
  <2>2. n \in Fits
    BY <1>3, <2>1, LeastIsIn
  <2> QED
    BY <2>2 DEF Evicted
<1> HIDE DEF n
<1>5. n \in 0..Len(used) /\ RowCount(Newest(n)) <= DiskMax
  BY <1>1, <1>2, <1>4
<1>6. SubSeq(used, n + 1, Len(used)) \in Seq(Keys)
  BY <1>2, <1>5, TwoParts
<1> QED
  BY <1>1, <1>4, <1>5, <1>6

LEMMA CollectTyped ==
  ASSUME TypeOK, MemoryAccount, Collect
  PROVE  TypeOK' /\ MemoryAccount'
<1>1. CASE GcEvict
  <2>1. gc' \in Collector /\ UNCHANGED <<lru, nbytes, blobs, job, crashes>>
    BY <1>1, ValueTypes DEF GcEvict
  <2>2. PICK n \in 0..Len(used) :
          /\ used' \in Seq(Keys)
          /\ rows' = [k \in Keys |-> IF k \in ToSet(used) \ Newest(n) THEN {} ELSE rows[k]]
          /\ lost' = lost \ (ToSet(used) \ Newest(n))
    BY <1>1, EvictionProperties
  <2>3. /\ rows' \in [Keys -> SUBSET (Port \cup {NoOutputs})]
        /\ \A u \in Keys : rows'[u] \subseteq Ports(u) \cup {NoOutputs}
    BY <2>2 DEF TypeOK
  <2> QED
    BY <2>1, <2>2, <2>3 DEF TypeOK, MemoryAccount
<1>2. CASE GcScan
  <2>1. gc' \in Collector
    BY <1>2 DEF GcScan, TypeOK, Collector
  <2> QED
    BY <1>2, <2>1 DEF GcScan, TypeOK, MemoryAccount
<1>3. CASE GcDelete
  <2>1. PICK d \in gc.doomed : gc' = [gc EXCEPT !.doomed = @ \ {d}] /\ blobs' = blobs \ {d}
    BY <1>3 DEF GcDelete
  <2>2. gc' \in Collector
    BY <2>1 DEF TypeOK, Collector
  <2>3. blobs' \subseteq Digests
    BY <2>1 DEF TypeOK
  <2> QED
    BY <1>3, <2>2, <2>3 DEF GcDelete, TypeOK, MemoryAccount
<1>4. CASE GcEnd
  BY <1>4, ValueTypes DEF GcEnd, TypeOK, MemoryAccount
<1> QED
  BY <1>1, <1>2, <1>3, <1>4 DEF Collect

LEMMA CrashTyped ==
  ASSUME TypeOK, MemoryAccount, Crash
  PROVE  TypeOK' /\ MemoryAccount'
<1>1. lru' \in Seq(Entry) /\ nbytes' \in Int /\ MemoryAccount'
  <2>1. lru' = <<>> /\ nbytes' = 0
    BY DEF Crash
  <2>2. lru' \in Seq(Entry) /\ DOMAIN lru' = {} /\ nbytes' = SizeOf(lru')
    BY <2>1, SizeOfNone
  <2> QED
    BY <2>1, <2>2, CacheAssumption DEF MemoryAccount
<1>2. job' \in [Keys -> WorkerJob] /\ (\A u \in Keys : job'[u].left \subseteq Ports(u)) /\ gc' \in Collector
  BY ValueTypes DEF Crash
<1>3. blobs' \subseteq Digests
  <2>1. PICK k \in Keys \ ProcessKeys : \E S \in SUBSET Blobbable(k) :
          blobs' = IF OnLoop THEN blobs \cup {Row(k, p) : p \in S} ELSE blobs
    BY DEF Crash
  <2> QED
    BY <2>1, RowTypes DEF TypeOK
<1>4. crashes' \in 0..MaxCrashes
  BY CacheAssumption DEF Crash, TypeOK
<1> QED
  BY <1>1, <1>2, <1>3, <1>4 DEF Crash, TypeOK

LEMMA TypeInductive == TypeOK /\ MemoryAccount /\ [Next]_vars => TypeOK' /\ MemoryAccount'
<1> SUFFICES ASSUME TypeOK, MemoryAccount, [Next]_vars PROVE TypeOK' /\ MemoryAccount'
  OBVIOUS
<1>1. CASE UNCHANGED vars
  BY <1>1 DEF vars, TypeOK, MemoryAccount
<1> QED
  BY <1>1, CollectTyped, CrashTyped, UseTyped, JobStepTyped DEF Next
-----------------------------------------------------------------------------
(* What the index holds, and what the collector may take *)

Known == \A k \in Keys : rows[k] # {} => k \in ToSet(used)
Written == \A k \in Keys : \/ rows[k] = {}
                           \/ k \in ProcessKeys /\ rows[k] = Ports(k)
                           \/ k \notin ProcessKeys /\ rows[k] = StoredRows(k)
OnlyProcessJobs == \A k \in Keys : job[k].ph # "off" => k \in ProcessKeys
Spares ==
  gc.ph = "delete" => /\ gc.doomed \cap Referenced = {}
                      /\ blobs \ gc.fresh \subseteq Referenced \cup gc.doomed
Fits == gc.ph \in {"evicted", "delete"} => RowCount(Keys) <= DiskMax

IndexInv == Known /\ Written /\ OnlyProcessJobs /\ DanglingOnlyFromAdopt /\ Spares /\ Fits
IInv == TypeOK /\ MemoryAccount /\ IndexInv

\* A step that leaves the rows, and takes no blob.
LEMMA RowsStay ==
  ASSUME TypeOK, IndexInv, UNCHANGED rows, ToSet(used) \subseteq ToSet(used'),
         lost \subseteq lost', blobs \subseteq blobs'
  PROVE  /\ Known' /\ Written' /\ DanglingOnlyFromAdopt'
         /\ Referenced' = Referenced /\ RowCount(Keys)' = RowCount(Keys)
<1>1. \A k \in Keys : DataPorts(k)' = DataPorts(k)
  BY DEF DataPorts
<1>2. Referenced' = Referenced /\ RowCount(Keys)' = RowCount(Keys)
  BY DEF Referenced, RowCount, DataPorts
<1>3. Known' /\ Written'
  BY DEF IndexInv, Known, Written
<1>4. DanglingOnlyFromAdopt'
  BY <1>1 DEF IndexInv, DanglingOnlyFromAdopt, OnDisk
<1> QED
  BY <1>2, <1>3, <1>4

\* On the loop the collector is not at work.
LEMMA LoopIsIdle ==
  ASSUME OnLoop, UNCHANGED gc
  PROVE  Spares' /\ Fits'
BY DEF OnLoop, Spares, Fits

LEMMA InitIndex == Init => IndexInv
<1> SUFFICES ASSUME Init PROVE IndexInv
  OBVIOUS
<1>1. /\ rows = [k \in Keys |-> {}] /\ job = [k \in Keys |-> NoJob] /\ gc.ph = "off"
  BY DEF Init, Idle
<1>2. \A k \in Keys : DataPorts(k) = {} /\ job[k].ph = "off"
  BY <1>1, ValueTypes DEF DataPorts
<1>3. Known /\ Written /\ OnlyProcessJobs
  BY <1>1, <1>2 DEF Known, Written, OnlyProcessJobs
<1>4. DanglingOnlyFromAdopt
  BY <1>2 DEF DanglingOnlyFromAdopt, OnDisk
<1>5. Spares /\ Fits
  BY <1>1 DEF Spares, Fits
<1> QED
  BY <1>3, <1>4, <1>5 DEF IndexInv

\* Rows are indexed under k, all of those that k's node leaves.
LEMMA IndexedAll ==
  ASSUME TypeOK, IndexInv, NEW k \in Keys, NEW ports, ports # {}, Indexed(k, ports),
         ports = IF k \in ProcessKeys THEN Ports(k) ELSE StoredRows(k)
  PROVE  /\ Known' /\ Written' /\ rows' = [rows EXCEPT ![k] = ports]
<1>1. rows' = [rows EXCEPT ![k] = @ \cup ports] /\ used' = Append(Unused(k), k)
  BY DEF Indexed, Touch
<1>2. rows[k] \cup ports = ports
  BY DEF IndexInv, Written
<1>3. rows' = [rows EXCEPT ![k] = ports]
  BY <1>1, <1>2
<1>4. ToSet(used) \cup {k} \subseteq ToSet(used')
  BY <1>1, UnusedProperties DEF TypeOK
<1>5. rows'[k] = ports /\ \A u \in Keys \ {k} : rows'[u] = rows[u]
  BY <1>3 DEF TypeOK
<1>6. Known'
  BY <1>4, <1>5 DEF IndexInv, Known
<1>7. Written'
  BY <1>5 DEF IndexInv, Written, StoredRows
<1> QED
  BY <1>3, <1>6, <1>7

LEMMA UseIndex ==
  ASSUME TypeOK, MemoryAccount, IndexInv, NEW k \in Keys, Use(k)
  PROVE  IndexInv'
<1>0. OnLoop /\ UNCHANGED <<job, gc>>
  BY DEF Use, LookupMemory, LookupDisk, LookupDangling, Store
<1>1. Spares' /\ Fits' /\ OnlyProcessJobs'
  BY <1>0, LoopIsIdle DEF IndexInv, OnlyProcessJobs
<1>2. CASE LookupMemory(k)
  <2>1. Known' /\ Written' /\ DanglingOnlyFromAdopt'
    BY <1>2, RowsStay DEF LookupMemory
  <2> QED
    BY <1>1, <2>1 DEF IndexInv
<1>3. CASE LookupDisk(k)
  <2>1. ToSet(used) \subseteq ToSet(used') /\ UNCHANGED <<rows, blobs, lost>>
    BY <1>3, UnusedProperties DEF LookupDisk, Touch, TypeOK
  <2>2. Known' /\ Written' /\ DanglingOnlyFromAdopt'
    BY <2>1, RowsStay
  <2> QED
    BY <1>1, <2>2 DEF IndexInv
<1>4. CASE LookupDangling(k)
  <2>1. /\ rows' = [rows EXCEPT ![k] = {}] /\ used' = Unused(k) /\ lost' = lost \ {k}
        /\ UNCHANGED blobs
    BY <1>4 DEF LookupDangling, Forget
  <2>2. rows'[k] = {} /\ \A u \in Keys \ {k} : rows'[u] = rows[u]
    BY <2>1 DEF TypeOK
  <2>3. ToSet(used) \ {k} \subseteq ToSet(used')
    BY <2>1, UnusedProperties DEF TypeOK
  <2>4. Known'
    BY <2>2, <2>3 DEF IndexInv, Known
  <2>5. Written'
    BY <2>2 DEF IndexInv, Written, StoredRows
  <2>6. ASSUME NEW u \in Keys, ~OnDisk(u)' PROVE u \in lost'
    <3>1. u # k
      BY <2>2, <2>6 DEF OnDisk, DataPorts
    <3>2. ~OnDisk(u)
      BY <2>1, <2>2, <2>6, <3>1 DEF OnDisk, DataPorts
    <3> QED
      BY <2>1, <3>1, <3>2 DEF IndexInv, DanglingOnlyFromAdopt
  <2> QED
    BY <1>1, <2>4, <2>5, <2>6 DEF IndexInv, DanglingOnlyFromAdopt
<1>5. CASE Store(k)
  <2>0. k \notin ProcessKeys /\ blobs' = blobs \cup {Row(k, p) : p \in Blobbable(k)}
    BY <1>5 DEF Store
  <2>1. CASE StoredRows(k) = {}
    <3>1. UNCHANGED <<rows, used, lost>>
      BY <1>5, <2>1 DEF Store
    <3>2. Known' /\ Written' /\ DanglingOnlyFromAdopt'
      BY <2>0, <3>1, RowsStay
    <3> QED
      BY <1>1, <3>2 DEF IndexInv
  <2>2. CASE StoredRows(k) # {}
    <3>1. Indexed(k, StoredRows(k)) /\ lost' = lost \ {k}
      BY <1>5, <2>2 DEF Store
    <3>2. Known' /\ Written' /\ rows' = [rows EXCEPT ![k] = StoredRows(k)]
      BY <2>0, <2>2, <3>1, IndexedAll
    <3>3. rows'[k] = StoredRows(k) /\ \A u \in Keys \ {k} : rows'[u] = rows[u]
      BY <3>2 DEF TypeOK
    <3>4. ASSUME NEW u \in Keys, ~OnDisk(u)' PROVE u \in lost'
      <4>1. u # k
        <5>1. StoredRows(k) \ {NoOutputs} \subseteq Blobbable(k)
          BY DEF StoredRows
        <5>2. OnDisk(k)'
          BY <2>0, <3>3, <5>1 DEF OnDisk, DataPorts, Row
        <5> QED
          BY <3>4, <5>2
      <4>2. ~OnDisk(u)
        BY <2>0, <3>3, <3>4, <4>1 DEF OnDisk, DataPorts
      <4> QED
        BY <3>1, <4>1, <4>2 DEF IndexInv, DanglingOnlyFromAdopt
    <3> QED
      BY <1>1, <3>2, <3>4 DEF IndexInv, DanglingOnlyFromAdopt
  <2> QED
    BY <2>1, <2>2
<1> QED
  BY <1>2, <1>3, <1>4, <1>5 DEF Use

LEMMA JobIndex ==
  ASSUME TypeOK, MemoryAccount, IndexInv, NEW k \in Keys, Job(k)
  PROVE  IndexInv'
<1>1. CASE StartJob(k)
  <2>1. OnlyProcessJobs'
    BY <1>1 DEF StartJob, IndexInv, OnlyProcessJobs, TypeOK
  <2>2. Known' /\ Written' /\ DanglingOnlyFromAdopt'
    BY <1>1, RowsStay DEF StartJob
  <2>3. Spares' /\ Fits'
    BY <1>1, LoopIsIdle DEF StartJob
  <2> QED
    BY <2>1, <2>2, <2>3 DEF IndexInv
<1>2. CASE JobReads(k) \/ KillJob(k)
  <2>1. /\ UNCHANGED <<rows, used, blobs, gc, lost>> /\ job[k].ph # "off"
        /\ \A u \in Keys \ {k} : job'[u] = job[u]
    BY <1>2 DEF JobReads, KillJob, TypeOK
  <2>2. OnlyProcessJobs'
    BY <2>1 DEF IndexInv, OnlyProcessJobs
  <2>3. /\ Known' /\ Written' /\ DanglingOnlyFromAdopt'
        /\ Referenced' = Referenced /\ RowCount(Keys)' = RowCount(Keys)
    BY <2>1, RowsStay
  <2>4. Spares' /\ Fits'
    BY <2>1, <2>3 DEF IndexInv, Spares, Fits
  <2> QED
    BY <2>2, <2>3, <2>4 DEF IndexInv
<1>3. CASE JobWrites(k)
  <2>1. UNCHANGED <<rows, used, lost>> /\ job[k].ph = "writing"
    BY <1>3 DEF JobWrites
  <2>2. PICK p \in job[k].left :
          IF p \in AnyPorts[k]
          THEN /\ job' = [job EXCEPT ![k] = NoJob]
               /\ UNCHANGED <<blobs, gc>>
          ELSE /\ job' = [job EXCEPT ![k].left = @ \ {p}]
               /\ blobs' = blobs \cup {Row(k, p)}
               /\ gc' = IF gc.ph = "delete" THEN [gc EXCEPT !.fresh = @ \cup {Row(k, p)}] ELSE gc
    BY <1>3 DEF JobWrites
  <2>3. blobs \subseteq blobs' /\ \A u \in Keys \ {k} : job'[u] = job[u]
    BY <2>2 DEF TypeOK
  <2>4. OnlyProcessJobs'
    BY <2>1, <2>3 DEF IndexInv, OnlyProcessJobs
  <2>5. /\ Known' /\ Written' /\ DanglingOnlyFromAdopt'
        /\ Referenced' = Referenced /\ RowCount(Keys)' = RowCount(Keys)
    BY <2>1, <2>3, RowsStay
  <2>6. gc'.ph = gc.ph /\ gc'.doomed = gc.doomed
    BY <2>2 DEF TypeOK, Collector
  <2>7. gc.ph = "delete" => blobs' \ gc'.fresh \subseteq blobs \ gc.fresh
    <3> SUFFICES ASSUME gc.ph = "delete" PROVE blobs' \ gc'.fresh \subseteq blobs \ gc.fresh
      OBVIOUS
    <3>1. CASE p \in AnyPorts[k]
      BY <2>2, <3>1
    <3>2. CASE p \notin AnyPorts[k]
      <4>1. blobs' = blobs \cup {Row(k, p)} /\ gc'.fresh = gc.fresh \cup {Row(k, p)}
        BY <2>2, <3>2 DEF TypeOK, Collector
      <4> QED
        BY <4>1
    <3> QED
      BY <3>1, <3>2
  <2>8. Spares' /\ Fits'
    BY <2>5, <2>6, <2>7 DEF IndexInv, Spares, Fits
  <2> QED
    BY <2>4, <2>5, <2>8 DEF IndexInv
<1>4. CASE Adopt(k)
  <2>1. /\ OnLoop /\ UNCHANGED <<blobs, gc>> /\ job[k].ph = "writing"
        /\ \A u \in Keys \ {k} : job'[u] = job[u]
    BY <1>4 DEF Adopt, TypeOK
  <2>2. k \in ProcessKeys /\ OnlyProcessJobs'
    BY <2>1 DEF IndexInv, OnlyProcessJobs
  <2>3. Spares' /\ Fits'
    BY <2>1, LoopIsIdle
  <2>4. lost' = IF \A p \in Ports(k) : Row(k, p) \in blobs THEN lost \ {k} ELSE lost \cup {k}
    BY <1>4 DEF Adopt
  <2>5. /\ Known' /\ Written'
        /\ rows'[k] = Ports(k) /\ \A u \in Keys \ {k} : rows'[u] = rows[u]
    <3>1. CASE Ports(k) # {}
      <4>1. Indexed(k, Ports(k))
        BY <1>4, <3>1 DEF Adopt
      <4>2. Ports(k) = IF k \in ProcessKeys THEN Ports(k) ELSE StoredRows(k)
        BY <2>2
      <4>3. Known' /\ Written' /\ rows' = [rows EXCEPT ![k] = Ports(k)]
        BY <3>1, <4>1, <4>2, IndexedAll
      <4>4. rows'[k] = Ports(k) /\ \A u \in Keys \ {k} : rows'[u] = rows[u]
        BY <4>3 DEF TypeOK
      <4> QED
        BY <4>3, <4>4
    <3>2. CASE Ports(k) = {}
      <4>1. UNCHANGED <<rows, used>>
        BY <1>4, <3>2 DEF Adopt
      <4> QED
        BY <2>2, <3>2, <4>1 DEF IndexInv, Known, Written
    <3> QED
      BY <3>1, <3>2
  <2>6. ASSUME NEW u \in Keys, ~OnDisk(u)' PROVE u \in lost'
    <3>1. CASE u = k
      <4>1. ~\A p \in Ports(k) : Row(k, p) \in blobs
        BY <2>1, <2>5, <2>6, <3>1 DEF OnDisk, DataPorts
      <4> QED
        BY <2>4, <3>1, <4>1
    <3>2. CASE u # k
      <4>1. ~OnDisk(u)
        BY <2>1, <2>5, <2>6, <3>2 DEF OnDisk, DataPorts
      <4> QED
        BY <2>4, <3>2, <4>1 DEF IndexInv, DanglingOnlyFromAdopt
    <3> QED
      BY <3>1, <3>2
  <2> QED
    BY <2>2, <2>3, <2>5, <2>6 DEF IndexInv, DanglingOnlyFromAdopt
<1> QED
  BY <1>1, <1>2, <1>3, <1>4 DEF Job

LEMMA EvictIndex ==
  ASSUME TypeOK, IndexInv, GcEvict
  PROVE  IndexInv'
<1>1. PICK n \in 0..Len(used) :
        /\ RowCount(Newest(n)) <= DiskMax
        /\ used' = SubSeq(used, n + 1, Len(used)) /\ used' \in Seq(Keys)
        /\ rows' = [k \in Keys |-> IF k \in ToSet(used) \ Newest(n) THEN {} ELSE rows[k]]
        /\ lost' = lost \ (ToSet(used) \ Newest(n))
  BY EvictionProperties
<1>2. gc'.ph = "evicted" /\ UNCHANGED <<blobs, job>>
  BY DEF GcEvict, Idle
<1>3. ToSet(used') = Newest(n)
  BY <1>1 DEF Newest
<1>4. \A k \in Keys : \/ rows'[k] = {}
                      \/ rows'[k] = rows[k] /\ k \in Newest(n)
  BY <1>1 DEF IndexInv, Known
<1>5. Known' /\ Written' /\ OnlyProcessJobs'
  BY <1>2, <1>3, <1>4 DEF IndexInv, Known, Written, OnlyProcessJobs, StoredRows
<1>6. ASSUME NEW u \in Keys, ~OnDisk(u)' PROVE u \in lost'
  <2>1. rows'[u] # {}
    BY <1>6 DEF OnDisk, DataPorts
  <2>2. rows'[u] = rows[u] /\ u \in Newest(n)
    BY <1>4, <2>1
  <2>3. ~OnDisk(u)
    BY <1>2, <1>6, <2>2 DEF OnDisk, DataPorts
  <2> QED
    BY <1>1, <2>2, <2>3 DEF IndexInv, DanglingOnlyFromAdopt
<1>7. RowCount(Keys)' <= DiskMax
  <2> DEFINE After == UNION {{k} \X DataPorts(k)' : k \in Keys}
             Rest == UNION {{k} \X DataPorts(k) : k \in Newest(n)}
  <2>1. ASSUME NEW k \in Newest(n)
        PROVE  k \in Keys /\ DataPorts(k)' = DataPorts(k)
    <3>1. k \in Keys
      BY <1>1, <1>3, LenProperties, ElementOfSeq DEF ToSet
    <3> QED
      BY <1>1, <3>1 DEF DataPorts
  <2>2. \A k \in Keys \ Newest(n) : DataPorts(k)' = {}
    BY <1>4 DEF DataPorts
  <2>3. After = Rest
    BY <2>1, <2>2
  <2>4. RowCount(Keys)' = Cardinality(After) /\ RowCount(Newest(n)) = Cardinality(Rest)
    BY DEF RowCount
  <2> QED
    BY <1>1, <2>3, <2>4
<1> QED
  BY <1>2, <1>5, <1>6, <1>7 DEF IndexInv, DanglingOnlyFromAdopt, Spares, Fits

LEMMA CollectIndex ==
  ASSUME TypeOK, IndexInv, Collect
  PROVE  IndexInv'
<1>1. CASE GcScan
  <2>1. /\ gc.ph = "evicted" /\ UNCHANGED <<rows, used, blobs, job, lost>>
        /\ gc'.ph = "delete" /\ gc'.fresh = {} /\ gc'.doomed = blobs \ Referenced
    BY <1>1 DEF GcScan
  <2>2. /\ Known' /\ Written' /\ DanglingOnlyFromAdopt'
        /\ Referenced' = Referenced /\ RowCount(Keys)' = RowCount(Keys)
    BY <2>1, RowsStay
  <2> QED
    BY <2>1, <2>2 DEF IndexInv, OnlyProcessJobs, Spares, Fits
<1>2. CASE GcDelete
  <2>1. PICK d \in gc.doomed : gc' = [gc EXCEPT !.doomed = @ \ {d}] /\ blobs' = blobs \ {d}
    BY <1>2 DEF GcDelete
  <2>2. gc.ph = "delete" /\ UNCHANGED <<rows, used, job, lost>>
    BY <1>2 DEF GcDelete
  <2>3. gc'.ph = "delete" /\ gc'.fresh = gc.fresh /\ gc'.doomed = gc.doomed \ {d}
    BY <2>1, <2>2 DEF TypeOK, Collector
  <2>4. Referenced' = Referenced /\ RowCount(Keys)' = RowCount(Keys)
    BY <2>2 DEF Referenced, RowCount, DataPorts
  <2>5. Known' /\ Written' /\ OnlyProcessJobs'
    BY <2>2 DEF IndexInv, Known, Written, OnlyProcessJobs, StoredRows
  <2>6. d \notin Referenced
    BY <2>2 DEF IndexInv, Spares
  <2>7. \A u \in Keys : OnDisk(u) => OnDisk(u)'
    <3>1. ASSUME NEW u \in Keys, NEW p \in DataPorts(u) PROVE Row(u, p) \in Referenced
      BY DEF Referenced
    <3> QED
      BY <2>1, <2>2, <2>6, <3>1 DEF OnDisk, DataPorts
  <2>8. DanglingOnlyFromAdopt'
    BY <2>2, <2>7 DEF IndexInv, DanglingOnlyFromAdopt
  <2>9. Spares' /\ Fits'
    BY <2>1, <2>2, <2>3, <2>4 DEF IndexInv, Spares, Fits
  <2> QED
    BY <2>5, <2>8, <2>9 DEF IndexInv
<1>3. CASE GcEnd
  <2>1. gc'.ph = "off" /\ UNCHANGED <<rows, used, blobs, job, lost>>
    BY <1>3 DEF GcEnd, Idle
  <2>2. Known' /\ Written' /\ DanglingOnlyFromAdopt'
    BY <2>1, RowsStay
  <2> QED
    BY <2>1, <2>2 DEF IndexInv, OnlyProcessJobs, Spares, Fits
<1> QED
  BY <1>1, <1>2, <1>3, EvictIndex DEF Collect

LEMMA CrashIndex ==
  ASSUME TypeOK, IndexInv, Crash
  PROVE  IndexInv'
<1>1. UNCHANGED <<rows, used, lost>> /\ gc'.ph = "open" /\ blobs \subseteq blobs'
  BY DEF Crash, Idle
<1>2. Known' /\ Written' /\ DanglingOnlyFromAdopt'
  BY <1>1, RowsStay
<1>3. OnlyProcessJobs'
  BY ValueTypes DEF Crash, OnlyProcessJobs
<1> QED
  BY <1>1, <1>2, <1>3 DEF IndexInv, Spares, Fits

LEMMA IInvInit == Init => IInv
BY TypeInit, InitIndex DEF IInv

LEMMA IInvInductive == IInv /\ [Next]_vars => IInv'
<1> SUFFICES ASSUME IInv, [Next]_vars PROVE IInv'
  OBVIOUS
<1>1. TypeOK /\ MemoryAccount /\ IndexInv
  BY DEF IInv
<1>2. TypeOK' /\ MemoryAccount'
  BY <1>1, TypeInductive
<1>3. CASE UNCHANGED vars
  <2>1. /\ Known' /\ Written' /\ DanglingOnlyFromAdopt'
        /\ Referenced' = Referenced /\ RowCount(Keys)' = RowCount(Keys)
    BY <1>1, <1>3, RowsStay DEF vars
  <2>2. OnlyProcessJobs' /\ Spares' /\ Fits'
    BY <1>1, <1>3, <2>1 DEF vars, IndexInv, OnlyProcessJobs, Spares, Fits
  <2> QED
    BY <1>2, <2>1, <2>2 DEF IInv, IndexInv
<1>4. CASE Next
  BY <1>1, <1>2, <1>4, UseIndex, JobIndex, CollectIndex, CrashIndex DEF Next, IInv
<1> QED
  BY <1>3, <1>4
-----------------------------------------------------------------------------
(* Whole lookups *)

\* Of the outputs of a node on a thread, all or none can be written as blobs.
AllOrNone == \A k \in Keys \ ProcessKeys : AnyPorts[k] \in {{}, Ports(k)}

WholeEntries == \A i \in DOMAIN lru : lru[i].ports = Ports(lru[i].key)

LEMMA WholeRows ==
  ASSUME AllOrNone, IInv, NEW k \in Keys, rows[k] # {}
  PROVE  DataPorts(k) = Ports(k)
<1>0. NoOutputs \notin Ports(k)
  BY RowTypes
<1>1. CASE k \in ProcessKeys
  BY <1>0, <1>1 DEF IInv, IndexInv, Written, DataPorts
<1>2. CASE k \notin ProcessKeys
  <2>1. rows[k] = StoredRows(k)
    BY <1>2 DEF IInv, IndexInv, Written
  <2>2. AnyPorts[k] = {} \/ AnyPorts[k] = Ports(k)
    BY <1>2 DEF AllOrNone
  <2> QED
    BY <1>0, <2>1, <2>2 DEF StoredRows, Blobbable, DataPorts
<1> QED
  BY <1>1, <1>2

LEMMA WholePut ==
  ASSUME IInv, WholeEntries, NEW k \in Keys, NEW size \in Nat, MemoryPut(k, Ports(k), size)
  PROVE  WholeEntries'
<1>0. Ports(k) \in SUBSET Port /\ TypeOK /\ MemoryAccount
  BY RowTypes DEF IInv
<1>1. \A i \in DOMAIN lru' : \/ lru'[i] = [key |-> k, ports |-> Ports(k), size |-> size]
                             \/ \E j \in DOMAIN lru : lru'[i] = lru[j]
  BY <1>0, PutProperties
<1>2. ASSUME NEW i \in DOMAIN lru' PROVE lru'[i].ports = Ports(lru'[i].key)
  <2>1. CASE lru'[i] = [key |-> k, ports |-> Ports(k), size |-> size]
    BY <2>1
  <2>2. CASE \E j \in DOMAIN lru : lru'[i] = lru[j]
    BY <2>2 DEF WholeEntries
  <2> QED
    BY <1>1, <2>1, <2>2
<1> QED
  BY <1>2 DEF WholeEntries

LEMMA WholeStep ==
  ASSUME AllOrNone, IInv, WholeEntries, [Next]_vars
  PROVE  WholeEntries'
<1>1. CASE UNCHANGED lru
  BY <1>1 DEF WholeEntries
<1>2. ASSUME NEW k \in Keys, LookupMemory(k) PROVE WholeEntries'
  <2>1. DrawnFrom(lru', lru)
    BY <1>2, GetProperties DEF LookupMemory, IInv
  <2> QED
    BY <2>1 DEF DrawnFrom, WholeEntries
<1>3. ASSUME NEW k \in Keys, LookupDisk(k) PROVE WholeEntries'
  <2>1. MemoryPut(k, Ports(k), 1)
    BY <1>3, WholeRows DEF LookupDisk
  <2> QED
    BY <2>1, WholePut
<1>4. ASSUME NEW k \in Keys, Store(k) PROVE WholeEntries'
  BY <1>4, RowTypes, WholePut DEF Store
<1>5. ASSUME NEW k \in Keys, Adopt(k) PROVE WholeEntries'
  <2>1. CASE MemoryPut(k, Ports(k), 1)
    BY <2>1, WholePut
  <2>2. CASE UNCHANGED lru
    BY <1>1, <2>2
  <2> QED
    BY <1>5, <2>1, <2>2 DEF Adopt
<1>6. CASE Crash
  <2>1. DOMAIN lru' = {}
    BY <1>6 DEF Crash
  <2> QED
    BY <2>1 DEF WholeEntries
<1>7. CASE Collect
  <2>1. UNCHANGED lru
    BY <1>7 DEF Collect, GcEvict, GcScan, GcDelete, GcEnd
  <2> QED
    BY <1>1, <2>1
<1>8. ASSUME NEW k \in Keys, LookupDangling(k) \/ StartJob(k) \/ JobReads(k) \/ JobWrites(k) \/ KillJob(k)
      PROVE  WholeEntries'
  <2>1. UNCHANGED lru
    BY <1>8 DEF LookupDangling, StartJob, JobReads, JobWrites, KillJob
  <2> QED
    BY <1>1, <2>1
<1>9. CASE UNCHANGED vars
  BY <1>1, <1>9 DEF vars
<1> QED
  BY <1>2, <1>3, <1>4, <1>5, <1>6, <1>7, <1>8, <1>9 DEF Next, Use, Job
-----------------------------------------------------------------------------
(* OutputCache: the theorems *)

LEMMA IInvAlways == Spec => []IInv
BY IInvInit, IInvInductive, PTL DEF Spec

\* Every variable keeps its type.
THEOREM TypeCorrect == Spec => []TypeOK
BY IInvAlways, PTL DEF IInv

\* MemoryLRU: the account is the sum of what is kept and within the limit, whatever is
\* replaced, too large to keep, pushed out or read back memory-mapped.
THEOREM MemoryAccountAlways == Spec => []MemoryAccount
BY IInvAlways, PTL DEF IInv

\* OutputCache.gc beside the worker processes: a row loses its blob to nothing but an
\* adoption that came too late (OutputCache.adopt), over any number of crashes.
THEOREM DanglingOnlyFromAdoptAlways == Spec => []DanglingOnlyFromAdopt
BY IInvAlways, PTL DEF IInv, IndexInv

\* OutputCache.lookup: when a node on a thread can write all of its outputs to disk or none
\* (store indexes those it could write), an answer is all that was stored, or nothing.
THEOREM LookupWholeOrNothingAlways ==
  ASSUME AllOrNone
  PROVE  Spec => []LookupWholeOrNothing
<1>1. Init => IInv /\ WholeEntries
  <2>1. Init => WholeEntries
    BY DEF Init, WholeEntries
  <2> QED
    BY <2>1, IInvInit
<1>2. IInv /\ WholeEntries /\ [Next]_vars => (IInv /\ WholeEntries)'
  BY IInvInductive, WholeStep
<1>3. IInv /\ WholeEntries => LookupWholeOrNothing
  BY WholeRows DEF WholeEntries, LookupWholeOrNothing
<1> QED
  BY <1>1, <1>2, <1>3, PTL DEF Spec

\* OutputCache.gc and OutputIndex.evict: what a finished collection leaves is referenced, or
\* a worker wrote it meanwhile, and the rows fit the limit.
THEOREM CollectionIsExactAlways == Spec => CollectionIsExact
<1> DEFINE Exact == blobs \ gc.fresh \subseteq Referenced /\ RowCount(Keys) <= DiskMax
<1>1. IInv /\ [Next]_vars => [(gc.ph = "delete" /\ gc'.ph = "off") => Exact]_vars
  <2> SUFFICES ASSUME IInv, Next, gc.ph = "delete", gc'.ph = "off" PROVE Exact
    OBVIOUS
  <2>1. CASE GcEnd
    BY <2>1 DEF GcEnd, IInv, IndexInv, Spares, Fits
  <2>2. CASE GcEvict \/ GcScan \/ GcDelete
    BY <2>2 DEF GcEvict, GcScan, GcDelete, IInv, TypeOK, Collector
  <2>3. CASE Crash
    BY <2>3 DEF Crash, Idle
  <2>4. ASSUME NEW k \in Keys, Use(k) \/ StartJob(k) \/ Adopt(k) PROVE FALSE
    BY <2>4 DEF Use, LookupMemory, LookupDisk, LookupDangling, Store, StartJob, Adopt, OnLoop
  <2>5. ASSUME NEW k \in Keys, JobReads(k) \/ JobWrites(k) \/ KillJob(k) PROVE FALSE
    <3>1. gc'.ph = gc.ph
      BY <2>5 DEF JobReads, JobWrites, KillJob, IInv, TypeOK, Collector
    <3> QED
      BY <3>1
  <2> QED
    BY <2>1, <2>2, <2>3, <2>4, <2>5 DEF Next, Collect, Job
<1> QED
  BY <1>1, IInvAlways, PTL DEF Spec, CollectionIsExact

-----------------------------------------------------------------------------
(* GraphCompile: what the wiring, the sort and the assembly keep true *)

\* The stages after the wiring, and those after the sort.
SortStages == {"seed", "sort", "assemble", "done"}
AfterSort == {"assemble", "done"}

\* Until its stage comes, the sort and the assembly have done nothing.
Untouched ==
  /\ stage \in {"flatten", "bypass", "types", "wire"} \cup SortStages
  /\ stage \notin SortStages => queue = <<>> /\ order = <<>> /\ visiting = {}
  /\ stage \notin AfterSort => admitted = 0 /\ graph = <<>> /\ blocked = {}

\* What the wiring has recorded so far: the sources of a node are finitely many nodes
\* of a registered type, and an edge that left no wire has made one end fail.
Wires ==
  stage \in {"wire"} \cup SortStages =>
    /\ \A n \in DOMAIN nodes :
         /\ IsFiniteSet(Sources(n)) /\ Sources(n) \subseteq Defs
         /\ upstream_failed[n] \subseteq DOMAIN nodes
         /\ \A m \in upstream_failed[n] :
              n \in Failed \/ m \in Sources(n) \/ ~({m, n} \subseteq Defs)
    /\ wired = [n \in DOMAIN nodes |-> wired[n]]
    /\ upstream_failed = [n \in DOMAIN nodes |-> upstream_failed[n]]
    /\ DOMAIN nodes \ Defs \subseteq Failed

\* The sources a node still waits for.
Waits(n) ==
  {s \in Sources(n) : \/ s \notin Elements(order)
                      \/ s = order[Len(order)] /\ n \in visiting}

\* A node that waits for nothing is in the order, in the queue or, at first, about to
\* join the queue; it is there once.
Sorting ==
  stage \in SortStages =>
    /\ order \in Seq(Defs) /\ queue \in Seq(Defs) /\ visiting \subseteq Defs
    /\ indegree = [n \in Defs |-> indegree[n]]
    /\ \A n \in Defs : indegree[n] = Cardinality(Waits(n))
    /\ \A i, j \in 1..Len(order) : order[i] = order[j] => i = j
    /\ \A i, j \in 1..Len(queue) : queue[i] = queue[j] => i = j
    /\ \A i \in 1..Len(order), j \in 1..Len(queue) : order[i] # queue[j]
    /\ \A n \in Defs : Waits(n) = {} <=>
         \/ n \in Elements(order) \cup Elements(queue)
         \/ stage = "seed" /\ n \in visiting
    /\ stage = "seed" => order = <<>> /\ visiting \cap Elements(queue) = {}
    /\ stage = "sort" => /\ order # <<>>
                         /\ \A n \in visiting : order[Len(order)] \in Sources(n)
    /\ stage \in AfterSort => visiting = {} /\ queue = <<>>

\* The nodes of the order that the assembly has visited are in the graph or blocked,
\* or have failed; the nodes the order lacks have failed.
Assembly ==
  stage \in AfterSort =>
    /\ Stuck \subseteq Failed
    /\ admitted \in 0..Len(order) /\ (stage = "done" => admitted = Len(order))
    /\ graph \in Seq(Defs) /\ Elements(graph) \cup blocked \subseteq Elements(order)
    /\ \A i \in 1..Len(order) :
         /\ order[i] \in Elements(graph) <=>
              /\ i <= admitted /\ order[i] \notin Failed
              /\ Leads(order[i]) \cap (Failed \cup blocked) = {}
         /\ order[i] \in blocked <=>
              /\ i <= admitted /\ order[i] \notin Failed
              /\ Leads(order[i]) \cap (Failed \cup blocked) # {}

LEMMA SamePlaces ==
  ASSUME UNCHANGED <<nodes, wired>>
  PROVE  Defs' = Defs /\ \A n : Sources(n)' = Sources(n)
BY DEF Defs, Sources

LEMMA UntouchedStep ==
  ASSUME Untouched, [CompileNext]_compileVars
  PROVE  Untouched'
<1> USE DEF Untouched, SortStages, AfterSort, flat, wiring, sorting, result
<1>1. ASSUME NEW level \in todo, Flatten(level) PROVE Untouched'
  BY <1>1 DEF Flatten
<1>2. CASE ResolveEdges \/ Bypass \/ FindTypes
  BY <1>2 DEF ResolveEdges, Bypass, FindTypes
<1>3. ASSUME NEW e \in unwired, Dangle(e) \/ Wire(e) PROVE Untouched'
  BY <1>3 DEF Dangle, Wire
<1>4. CASE CheckInputs
  BY <1>4 DEF CheckInputs
<1>5. ASSUME NEW n \in visiting, Seed(n) \/ Release(n) PROVE Untouched'
  BY <1>5 DEF Seed, Release
<1>6. CASE Pop \/ EndSort
  BY <1>6 DEF Pop, EndSort
<1>7. CASE Admit \/ Return
  BY <1>7 DEF Admit, Return
<1>8. CASE UNCHANGED compileVars
  BY <1>8 DEF compileVars
<1> QED
  BY <1>1, <1>2, <1>3, <1>4, <1>5, <1>6, <1>7, <1>8 DEF CompileNext

\* Failing is for good.
LEMMA FailedGrows ==
  ASSUME Untouched, [CompileNext]_compileVars
  PROVE  errors \subseteq errors' /\ Failed \subseteq Failed'
<1> SUFFICES errors \subseteq errors'
  BY DEF Failed
<1>1. ASSUME NEW level \in todo, Flatten(level) PROVE errors \subseteq errors'
  BY <1>1 DEF Flatten
<1>2. CASE ResolveEdges
  BY <1>2 DEF ResolveEdges
<1>3. CASE Bypass
  BY <1>3 DEF Bypass
<1>4. CASE FindTypes
  BY <1>4 DEF FindTypes
<1>5. ASSUME NEW e \in unwired, Dangle(e) \/ Wire(e) PROVE errors \subseteq errors'
  BY <1>5 DEF Dangle, Wire
<1>6. CASE CheckInputs
  BY <1>6 DEF CheckInputs
<1>7. ASSUME NEW n \in visiting, Seed(n) \/ Release(n) PROVE errors \subseteq errors'
  BY <1>7 DEF Seed, Release
<1>8. CASE Pop \/ EndSort
  BY <1>8 DEF Pop, EndSort
<1>9. CASE Admit \/ Return
  BY <1>9 DEF Admit, Return
<1>10. CASE UNCHANGED compileVars
  BY <1>10 DEF compileVars
<1> QED
  BY <1>1, <1>2, <1>3, <1>4, <1>5, <1>6, <1>7, <1>8, <1>9, <1>10 DEF CompileNext

\* A step that adds no wire and loses no node keeps the record of the wiring.
LEMMA WiresKept ==
  ASSUME Wires, stage \in {"wire"} \cup SortStages, Failed \subseteq Failed',
         UNCHANGED <<nodes, wired, upstream_failed>>
  PROVE  Wires'
<1>1. Defs' = Defs /\ \A n : Sources(n)' = Sources(n)
  BY SamePlaces
<1> QED
  BY <1>1 DEF Wires

\* A port that had no wire adds one source.
LEMMA OneMoreWire ==
  ASSUME NEW f, NEW p, NEW s, NEW q, p \notin DOMAIN f
  PROVE  LET g == [r \in DOMAIN f \cup {p} |-> IF r = p THEN <<s, q>> ELSE f[r]]
         IN  {g[r][1] : r \in DOMAIN g} = {f[r][1] : r \in DOMAIN f} \cup {s}
OBVIOUS

LEMMA WireKeepsWires ==
  ASSUME Untouched, Wires, NEW e \in unwired, Wire(e), Failed \subseteq Failed'
  PROVE  Wires'
<1> DEFINE fits == {e.src, e.dst} \subseteq Defs /\ Issue(e) = "none"
<1>1. /\ stage = "wire" /\ stage' = stage /\ nodes' = nodes
      /\ e.src \in DOMAIN nodes /\ e.dst \in DOMAIN nodes
      /\ upstream_failed' = [upstream_failed EXCEPT ![e.dst] = @ \cup {e.src}]
  BY DEF Wire, flat
<1>2. /\ \A n \in DOMAIN nodes :
           /\ IsFiniteSet(Sources(n)) /\ Sources(n) \subseteq Defs
           /\ upstream_failed[n] \subseteq DOMAIN nodes
           /\ \A m \in upstream_failed[n] :
                n \in Failed \/ m \in Sources(n) \/ ~({m, n} \subseteq Defs)
      /\ wired = [n \in DOMAIN nodes |-> wired[n]]
      /\ upstream_failed = [n \in DOMAIN nodes |-> upstream_failed[n]]
      /\ DOMAIN nodes \ Defs \subseteq Failed
  BY <1>1 DEF Wires
<1>3. Defs' = Defs /\ DOMAIN nodes' = DOMAIN nodes
  BY <1>1 DEF Defs
<1>4. /\ wired' = [n \in DOMAIN nodes |-> wired'[n]]
      /\ \A n \in DOMAIN nodes : /\ Sources(n) \subseteq Sources(n)' /\ Sources(n)' \subseteq Defs
                                 /\ IsFiniteSet(Sources(n)')
      /\ fits => e.src \in Sources(e.dst)'
  <2>1. CASE fits /\ wired' = [wired EXCEPT ![e.dst] =
                             [p \in DOMAIN wired[e.dst] \cup {e.dst_port} |->
                                IF p = e.dst_port THEN <<e.src, e.src_port>> ELSE wired[e.dst][p]]]
    <3>1. e.dst_port \notin DOMAIN wired[e.dst]
      BY <2>1 DEF Issue
    <3>2. Sources(e.dst)' = Sources(e.dst) \cup {e.src}
      BY <1>1, <1>2, <2>1, <3>1, OneMoreWire DEF Sources
    <3>3. \A n \in DOMAIN nodes \ {e.dst} : Sources(n)' = Sources(n)
      BY <1>2, <2>1 DEF Sources
    <3>4. IsFiniteSet(Sources(e.dst) \cup {e.src})
      BY <1>1, <1>2, FS_AddElement
    <3>5. wired' = [n \in DOMAIN nodes |-> wired'[n]]
      BY <1>2, <2>1
    <3>6. \A n \in DOMAIN nodes : /\ Sources(n) \subseteq Sources(n)' /\ Sources(n)' \subseteq Defs
                                  /\ IsFiniteSet(Sources(n)')
      BY <1>2, <2>1, <3>2, <3>3, <3>4
    <3> QED
      BY <3>2, <3>5, <3>6
  <2>2. CASE ~fits /\ wired' = wired
    <3>1. \A n : Sources(n)' = Sources(n)
      BY <2>2 DEF Sources
    <3> QED
      BY <1>2, <2>2, <3>1
  <2> QED
    BY <2>1, <2>2 DEF Wire
<1>5. e.dst \in Failed' \/ e.src \in Sources(e.dst)' \/ ~({e.src, e.dst} \subseteq Defs)
  <2>1. CASE {e.src, e.dst} \subseteq Defs /\ Issue(e) # "none"
    <3>1. <<e.dst, Issue(e)>> \in errors'
      BY <2>1 DEF Wire
    <3> QED
      BY <3>1 DEF Failed
  <2> QED
    BY <1>4, <2>1
<1>6. /\ upstream_failed'[e.dst] = upstream_failed[e.dst] \cup {e.src}
      /\ \A n \in DOMAIN nodes \ {e.dst} : upstream_failed'[n] = upstream_failed[n]
      /\ upstream_failed' = [n \in DOMAIN nodes |-> upstream_failed'[n]]
  BY <1>1, <1>2
<1>7. \A n \in DOMAIN nodes : upstream_failed'[n] \subseteq DOMAIN nodes
  BY <1>1, <1>2, <1>6
<1>8. ASSUME NEW n \in DOMAIN nodes, NEW m \in upstream_failed'[n]
      PROVE  n \in Failed' \/ m \in Sources(n)' \/ ~({m, n} \subseteq Defs)
  <2>1. CASE m \in upstream_failed[n]
    BY <1>2, <1>4, <2>1
  <2>2. CASE n = e.dst /\ m = e.src
    BY <1>5, <2>2
  <2> QED
    BY <1>6, <2>1, <2>2
<1>9. DOMAIN nodes \ Defs \subseteq Failed'
  BY <1>2
<1> HIDE DEF fits
<1>10. \A n \in DOMAIN nodes : (Sources(n))' = Sources(n)'
  OBVIOUS
<1> QED
  BY <1>3, <1>4, <1>6, <1>7, <1>8, <1>9 DEF Wires

LEMMA FindTypesMakesWires ==
  ASSUME FindTypes
  PROVE  Wires'
<1>1. /\ nodes' = nodes /\ Defs' = Defs
      /\ wired' = [n \in DOMAIN nodes |-> <<>>]
      /\ upstream_failed' = [n \in DOMAIN nodes |-> {}]
  BY DEF FindTypes, flat, Defs
<1>2. \A n \in DOMAIN nodes : Sources(n)' = {}
  BY <1>1 DEF Sources
<1>3. IsFiniteSet({})
  BY FS_EmptySet
<1>4. DOMAIN nodes \ Defs \subseteq Failed'
  <2>1. ASSUME NEW n \in DOMAIN nodes \ Defs PROVE n \in Failed'
    <3>1. <<n, "unknown_node">> \in errors'
      BY DEF FindTypes
    <3> QED
      BY <3>1 DEF Failed
  <2> QED
    BY <2>1
<1> QED
  BY <1>1, <1>2, <1>3, <1>4 DEF Wires

LEMMA WiresStep ==
  ASSUME Untouched, Wires, [CompileNext]_compileVars
  PROVE  Wires'
<1> USE FailedGrows DEF flat, wiring, sorting, result
<1>1. ASSUME NEW level \in todo, Flatten(level) PROVE Wires'
  BY <1>1 DEF Flatten, Wires, SortStages
<1>2. CASE ResolveEdges \/ Bypass
  BY <1>2 DEF ResolveEdges, Bypass, Wires, SortStages
<1>3. CASE FindTypes
  BY <1>3, FindTypesMakesWires
<1>4. ASSUME NEW e \in unwired, Dangle(e) PROVE Wires'
  BY <1>4, WiresKept DEF Dangle
<1>5. ASSUME NEW e \in unwired, Wire(e) PROVE Wires'
  BY <1>5, WireKeepsWires
<1>6. CASE CheckInputs
  BY <1>6, WiresKept DEF CheckInputs
<1>7. ASSUME NEW n \in visiting, Seed(n) \/ Release(n) PROVE Wires'
  BY <1>7, WiresKept DEF Seed, Release, SortStages
<1>8. CASE Pop \/ EndSort
  BY <1>8, WiresKept DEF Pop, EndSort, SortStages
<1>9. CASE Admit \/ Return
  BY <1>9, WiresKept DEF Admit, Return, SortStages
<1>10. CASE UNCHANGED compileVars
  <2>1. UNCHANGED <<nodes, wired, upstream_failed, stage>>
    BY <1>10 DEF compileVars
  <2>2. CASE stage \in {"wire"} \cup SortStages
    BY <2>1, <2>2, WiresKept
  <2>3. CASE stage \notin {"wire"} \cup SortStages
    BY <2>1, <2>3 DEF Wires
  <2> QED
    BY <2>2, <2>3
<1> QED
  BY <1>1, <1>2, <1>3, <1>4, <1>5, <1>6, <1>7, <1>8, <1>9, <1>10 DEF CompileNext

-----------------------------------------------------------------------------
(* GraphCompile: the sort *)

LEMMA CheckInputsStartsSorting ==
  ASSUME Untouched, Wires, CheckInputs
  PROVE  Sorting'
<1>1. /\ stage = "wire" /\ stage' = "seed"
      /\ UNCHANGED <<nodes, wired, queue, order>>
      /\ indegree' = [n \in Defs |-> Cardinality(Sources(n) \cap Defs)]
      /\ visiting' = {n \in Defs : Sources(n) \cap Defs = {}}
  BY DEF CheckInputs, flat, wiring
<1>2. queue = <<>> /\ order = <<>> /\ queue' = <<>> /\ order' = <<>>
  BY <1>1 DEF Untouched, SortStages
<1>3. Defs' = Defs /\ \A n : Sources(n)' = Sources(n)
  BY <1>1, SamePlaces
<1>4. \A n \in Defs : Sources(n) \subseteq Defs
  BY <1>1 DEF Wires, Defs
<1>5. Elements(order)' = {} /\ Elements(queue)' = {}
  BY <1>2 DEF Elements
<1>6. \A n \in Defs : Waits(n)' = Sources(n)
  BY <1>3, <1>5 DEF Waits
<1>7. \A n \in Defs : Sources(n) \cap Defs = Sources(n)
  BY <1>4
<1>8. order' \in Seq(Defs') /\ queue' \in Seq(Defs') /\ visiting' \subseteq Defs'
  BY <1>1, <1>2, <1>3, EmptySeq
<1>9. /\ indegree' = [n \in Defs' |-> indegree'[n]]
      /\ \A n \in Defs' : indegree'[n] = Cardinality(Waits(n)')
  BY <1>1, <1>3, <1>6, <1>7
<1>10. \A n \in Defs' : Waits(n)' = {} <=> n \in visiting'
  BY <1>1, <1>3, <1>6, <1>7
<1> QED
  BY <1>1, <1>2, <1>5, <1>8, <1>9, <1>10 DEF Sorting, AfterSort

LEMMA AppendElement ==
  ASSUME NEW S, NEW s \in Seq(S), NEW x \in S
  PROVE  /\ Append(s, x) \in Seq(S) /\ Len(Append(s, x)) = Len(s) + 1
         /\ \A i \in 1..Len(s) : Append(s, x)[i] = s[i]
         /\ Append(s, x)[Len(s) + 1] = x
         /\ Elements(Append(s, x)) = Elements(s) \cup {x}
<1>1. /\ Append(s, x) \in Seq(S) /\ Len(Append(s, x)) = Len(s) + 1
      /\ \A i \in 1..Len(s) : Append(s, x)[i] = s[i]
      /\ Append(s, x)[Len(s) + 1] = x
  OBVIOUS
<1>2. DOMAIN s = 1..Len(s) /\ DOMAIN Append(s, x) = 1..(Len(s) + 1) /\ Len(s) \in Nat
  BY <1>1
<1>3. Elements(Append(s, x)) = Elements(s) \cup {x}
  BY <1>1, <1>2 DEF Elements
<1> QED
  BY <1>1, <1>3

LEMMA HeadAndRest ==
  ASSUME NEW S, NEW s \in Seq(S), s # <<>>
  PROVE  /\ Head(s) = s[1] /\ Head(s) \in S /\ Len(s) \in Nat \ {0}
         /\ Tail(s) \in Seq(S) /\ Len(Tail(s)) = Len(s) - 1
         /\ \A i \in 1..(Len(s) - 1) : Tail(s)[i] = s[i + 1]
         /\ Elements(s) = Elements(Tail(s)) \cup {Head(s)}
<1>1. /\ Head(s) = s[1] /\ Head(s) \in S /\ Len(s) \in Nat \ {0}
      /\ Tail(s) \in Seq(S) /\ Len(Tail(s)) = Len(s) - 1
      /\ \A i \in 1..(Len(s) - 1) : Tail(s)[i] = s[i + 1]
  OBVIOUS
<1>2. DOMAIN s = 1..Len(s) /\ DOMAIN Tail(s) = 1..(Len(s) - 1)
  BY <1>1
<1>3. \A i \in 1..Len(s) : i = 1 \/ i - 1 \in 1..(Len(s) - 1)
  BY <1>1
<1>4. Elements(s) \subseteq Elements(Tail(s)) \cup {Head(s)}
  <2> SUFFICES ASSUME NEW i \in 1..Len(s) PROVE s[i] \in Elements(Tail(s)) \cup {Head(s)}
    BY <1>2 DEF Elements
  <2>1. CASE i = 1
    BY <1>1, <2>1
  <2>2. CASE i # 1
    <3>1. i - 1 \in 1..(Len(s) - 1) /\ (i - 1) + 1 = i
      BY <1>1, <2>2
    <3> QED
      BY <1>1, <1>2, <3>1 DEF Elements
  <2> QED
    BY <2>1, <2>2
<1>5. Elements(Tail(s)) \cup {Head(s)} \subseteq Elements(s)
  <2>1. ASSUME NEW i \in 1..(Len(s) - 1) PROVE Tail(s)[i] \in Elements(s)
    <3>1. i + 1 \in 1..Len(s)
      BY <1>1
    <3> QED
      BY <1>1, <1>2, <3>1 DEF Elements
  <2>2. 1 \in 1..Len(s)
    BY <1>1
  <2> QED
    BY <1>1, <1>2, <2>1, <2>2 DEF Elements
<1> QED
  BY <1>1, <1>4, <1>5

\* An element that is new to a sequence of distinct ones leaves them distinct.
LEMMA AppendKeepsDistinct ==
  ASSUME NEW S, NEW s \in Seq(S), NEW x \in S, x \notin Elements(s),
         \A i, j \in 1..Len(s) : s[i] = s[j] => i = j
  PROVE  \A i, j \in 1..Len(Append(s, x)) : Append(s, x)[i] = Append(s, x)[j] => i = j
<1>1. \A i \in 1..Len(s) : s[i] # x
  BY DEF Elements
<1>2. Len(Append(s, x)) = Len(s) + 1 /\ Len(s) \in Nat
  BY AppendElement
<1>3. \A i \in 1..(Len(s) + 1) : i \in 1..Len(s) \/ i = Len(s) + 1
  BY <1>2
<1> QED
  BY <1>1, <1>2, <1>3, AppendElement

LEMMA ElementsAreEntries ==
  ASSUME NEW S, NEW s \in Seq(S)
  PROVE  \A x : x \in Elements(s) <=> \E i \in 1..Len(s) : s[i] = x
BY DEF Elements

LEMMA DisjointEntries ==
  ASSUME NEW S, NEW s \in Seq(S), NEW u \in Seq(S)
  PROVE  Elements(s) \cap Elements(u) = {} <=> \A i \in 1..Len(s), j \in 1..Len(u) : s[i] # u[j]
<1>1. /\ \A x : x \in Elements(s) <=> \E i \in 1..Len(s) : s[i] = x
      /\ \A x : x \in Elements(u) <=> \E i \in 1..Len(u) : u[i] = x
  BY ElementsAreEntries
<1> QED
  BY <1>1, Zenon

\* Of distinct elements the first is not among the others.
LEMMA HeadIsGone ==
  ASSUME NEW S, NEW s \in Seq(S), s # <<>>,
         \A i, j \in 1..Len(s) : s[i] = s[j] => i = j
  PROVE  /\ Head(s) \notin Elements(Tail(s))
         /\ \A i, j \in 1..Len(Tail(s)) : Tail(s)[i] = Tail(s)[j] => i = j
<1> DEFINE u == Tail(s)
<1>1. /\ u \in Seq(S) /\ Len(u) = Len(s) - 1 /\ Len(s) \in Nat \ {0} /\ Head(s) = s[1]
      /\ \A i \in 1..(Len(s) - 1) : u[i] = s[i + 1]
  BY HeadAndRest
<1> HIDE DEF u
<1>2. \A i \in 1..Len(u) : i + 1 \in 1..Len(s) /\ i + 1 # 1 /\ u[i] = s[i + 1] /\ 1 \in 1..Len(s)
  BY <1>1
<1>3. \A i \in 1..Len(u) : u[i] # Head(s)
  BY <1>1, <1>2
<1>4. \A x : x \in Elements(u) <=> \E i \in 1..Len(u) : u[i] = x
  BY <1>1, ElementsAreEntries
<1>5. ASSUME NEW i \in 1..Len(u), NEW j \in 1..Len(u), u[i] = u[j] PROVE i = j
  <2>1. i + 1 = j + 1
    BY <1>2, <1>5
  <2> QED
    BY <1>1, <2>1
<1>6. Head(s) \notin Elements(u)
  BY <1>3, <1>4
<1> QED
  BY <1>5, <1>6 DEF u

LEMMA SeedKeepsSorting ==
  ASSUME Sorting, NEW n \in visiting, Seed(n)
  PROVE  Sorting'
<1>1. /\ stage = "seed" /\ stage' = "seed"
      /\ UNCHANGED <<nodes, wired, indegree, order>>
      /\ queue' = Append(queue, n) /\ visiting' = visiting \ {n}
  BY DEF Seed, flat, wiring
<1>2. /\ order \in Seq(Defs) /\ queue \in Seq(Defs) /\ visiting \subseteq Defs
      /\ indegree = [m \in Defs |-> indegree[m]]
      /\ \A m \in Defs : indegree[m] = Cardinality(Waits(m))
      /\ \A i, j \in 1..Len(queue) : queue[i] = queue[j] => i = j
      /\ \A m \in Defs : Waits(m) = {} <=> m \in Elements(order) \cup Elements(queue) \/ m \in visiting
      /\ order = <<>> /\ visiting \cap Elements(queue) = {}
  BY <1>1 DEF Sorting, SortStages
<1>3. Defs' = Defs /\ \A m : Sources(m)' = Sources(m)
  BY <1>1, SamePlaces
<1>4. Elements(order) = {} /\ Elements(order)' = {}
  BY <1>1, <1>2 DEF Elements
<1>5. \A m : Waits(m)' = Waits(m)
  BY <1>3, <1>4 DEF Waits
<1>6. n \in Defs /\ n \notin Elements(queue)
  BY <1>2
<1>7. /\ queue' \in Seq(Defs) /\ Elements(queue)' = Elements(queue) \cup {n}
  <2>1. Elements(queue)' = Elements(Append(queue, n))
    BY <1>1 DEF Elements
  <2> QED
    BY <1>1, <1>2, <1>6, <2>1, AppendElement
<1>8. \A i, j \in 1..Len(queue') : queue'[i] = queue'[j] => i = j
  BY <1>1, <1>2, <1>6, AppendKeepsDistinct
<1>9. \A m \in Defs : Waits(m)' = {} <=> m \in Elements(order)' \cup Elements(queue)' \/ m \in visiting'
  BY <1>1, <1>2, <1>4, <1>5, <1>6, <1>7
<1>10. visiting' \subseteq Defs /\ visiting' \cap Elements(queue)' = {}
  BY <1>1, <1>2, <1>7
<1>11. order' = <<>> /\ order' \in Seq(Defs) /\ indegree' = indegree
  BY <1>1, <1>2
<1>12. \A m \in Defs : indegree'[m] = Cardinality(Waits(m)')
  BY <1>2, <1>5, <1>11
<1> QED
  BY <1>1, <1>2, <1>3, <1>7, <1>8, <1>9, <1>10, <1>11, <1>12 DEF Sorting, AfterSort

LEMMA ReleaseKeepsSorting ==
  ASSUME Wires, Sorting, NEW n \in visiting, Release(n)
  PROVE  Sorting'
<1> DEFINE last == order[Len(order)]
<1>1. /\ stage = "sort" /\ stage' = "sort"
      /\ UNCHANGED <<nodes, wired, order>>
      /\ indegree' = [indegree EXCEPT ![n] = @ - 1]
      /\ queue' = IF indegree[n] = 1 THEN Append(queue, n) ELSE queue
      /\ visiting' = visiting \ {n}
  BY DEF Release, flat, wiring
<1>2. /\ order \in Seq(Defs) /\ queue \in Seq(Defs) /\ visiting \subseteq Defs
      /\ indegree = [m \in Defs |-> indegree[m]]
      /\ \A m \in Defs : indegree[m] = Cardinality(Waits(m))
      /\ \A i, j \in 1..Len(order) : order[i] = order[j] => i = j
      /\ \A i, j \in 1..Len(queue) : queue[i] = queue[j] => i = j
      /\ \A i \in 1..Len(order), j \in 1..Len(queue) : order[i] # queue[j]
      /\ \A m \in Defs : Waits(m) = {} <=> m \in Elements(order) \cup Elements(queue)
      /\ order # <<>> /\ \A m \in visiting : last \in Sources(m)
  BY <1>1 DEF Sorting, SortStages
<1>3. Defs' = Defs /\ \A m : Sources(m)' = Sources(m)
  BY <1>1, SamePlaces
<1>4. Elements(order)' = Elements(order)
  BY <1>1 DEF Elements
<1>5. n \in Defs /\ last \in Waits(n)
  BY <1>2 DEF Waits
<1>6. last \in Elements(order)
  BY <1>2, HeadAndRest DEF Elements
<1>7. Waits(n)' = Waits(n) \ {last}
  BY <1>1, <1>3, <1>4, <1>6 DEF Waits
<1>8. \A m \in Defs \ {n} : Waits(m)' = Waits(m)
  BY <1>1, <1>3, <1>4 DEF Waits
<1>9. IsFiniteSet(Waits(n))
  <2>1. IsFiniteSet(Sources(n)) /\ Waits(n) \subseteq Sources(n)
    BY <1>1, <1>5 DEF Wires, SortStages, Waits, Defs
  <2> QED
    BY <2>1, FS_Subset
<1>10. /\ Cardinality(Waits(n)') = Cardinality(Waits(n)) - 1 /\ Cardinality(Waits(n)) \in Nat
       /\ IsFiniteSet(Waits(n)')
  BY <1>5, <1>7, <1>9, FS_RemoveElement, FS_CardinalityType
<1>11. Waits(n)' = {} <=> indegree[n] = 1
  <2>1. Waits(n)' = {} <=> Cardinality(Waits(n)') = 0
    BY <1>10, FS_EmptySet
  <2> QED
    BY <1>2, <1>5, <1>10, <2>1
<1>12. n \notin Elements(order) \cup Elements(queue)
  BY <1>2, <1>5
<1>13. /\ queue' \in Seq(Defs)
       /\ Elements(queue)' = IF indegree[n] = 1 THEN Elements(queue) \cup {n} ELSE Elements(queue)
       /\ \A i, j \in 1..Len(queue') : queue'[i] = queue'[j] => i = j
  <2>1. CASE indegree[n] = 1
    <3>1. queue' = Append(queue, n)
      BY <1>1, <2>1
    <3>2. /\ Append(queue, n) \in Seq(Defs) /\ Elements(Append(queue, n)) = Elements(queue) \cup {n}
      BY <1>2, <1>5, AppendElement
    <3>3. \A i, j \in 1..Len(queue') : queue'[i] = queue'[j] => i = j
      BY <1>2, <1>5, <1>12, <3>1, AppendKeepsDistinct
    <3>4. Elements(queue)' = Elements(Append(queue, n))
      BY <3>1 DEF Elements
    <3> QED
      BY <2>1, <3>1, <3>2, <3>3, <3>4
  <2>2. CASE indegree[n] # 1
    BY <1>1, <1>2, <2>2 DEF Elements
  <2> QED
    BY <2>1, <2>2
<1>14. Elements(order) \cap Elements(queue) = {}
  BY <1>2, DisjointEntries
<1>15. Elements(order) \cap Elements(queue)' = {}
  BY <1>12, <1>13, <1>14
<1>16. \A i \in 1..Len(order'), j \in 1..Len(queue') : order'[i] # queue'[j]
  <2>1. Elements(order') \cap Elements(queue') = {}
    BY <1>1, <1>15 DEF Elements
  <2>2. order' \in Seq(Defs)
    BY <1>1, <1>2
  <2> QED
    BY <1>13, <2>1, <2>2, DisjointEntries
<1>17. \A m \in Defs : Waits(m)' = {} <=> m \in Elements(order)' \cup Elements(queue)'
  BY <1>2, <1>4, <1>5, <1>8, <1>11, <1>12, <1>13
<1>18. /\ indegree' = [m \in Defs |-> indegree'[m]]
       /\ indegree'[n] = indegree[n] - 1
       /\ \A m \in Defs \ {n} : indegree'[m] = indegree[m]
  BY <1>1, <1>2, <1>5
<1>19. \A m \in Defs : indegree'[m] = Cardinality(Waits(m)')
  <2>1. indegree'[n] = Cardinality(Waits(n)')
    BY <1>2, <1>5, <1>10, <1>18
  <2>2. ASSUME NEW m \in Defs \ {n} PROVE indegree'[m] = Cardinality(Waits(m)')
    BY <1>2, <1>8, <1>18, <2>2
  <2> QED
    BY <2>1, <2>2
<1>20. \A m \in visiting' : order'[Len(order')] \in Sources(m)'
  BY <1>1, <1>2, <1>3
<1>21. visiting' \subseteq Defs
  BY <1>1, <1>2
<1>22. order' = order
  BY <1>1
<1> QED
  BY <1>1, <1>2, <1>3, <1>13, <1>16, <1>17, <1>18, <1>19, <1>20, <1>21, <1>22 DEF Sorting, AfterSort

LEMMA PopKeepsSorting ==
  ASSUME Wires, Sorting, Pop
  PROVE  Sorting'
<1> DEFINE n == Head(queue)
<1>1. /\ stage \in {"seed", "sort"} /\ stage' = "sort"
      /\ UNCHANGED <<nodes, wired, indegree>>
      /\ visiting = {} /\ queue # <<>>
      /\ order' = Append(order, n) /\ queue' = Tail(queue)
      /\ visiting' = Consumers(n)
  BY DEF Pop, flat, wiring
<1>2. /\ order \in Seq(Defs) /\ queue \in Seq(Defs)
      /\ indegree = [m \in Defs |-> indegree[m]]
      /\ \A m \in Defs : indegree[m] = Cardinality(Waits(m))
      /\ \A i, j \in 1..Len(order) : order[i] = order[j] => i = j
      /\ \A i, j \in 1..Len(queue) : queue[i] = queue[j] => i = j
      /\ \A i \in 1..Len(order), j \in 1..Len(queue) : order[i] # queue[j]
      /\ \A m \in Defs : Waits(m) = {} <=> m \in Elements(order) \cup Elements(queue)
  BY <1>1 DEF Sorting, SortStages
<1>3. Defs' = Defs /\ \A m : Sources(m)' = Sources(m)
  BY <1>1, SamePlaces
<1>4. /\ n = queue[1] /\ n \in Defs /\ Len(queue) \in Nat \ {0}
      /\ Tail(queue) \in Seq(Defs) /\ Len(Tail(queue)) = Len(queue) - 1
      /\ \A i \in 1..(Len(queue) - 1) : Tail(queue)[i] = queue[i + 1]
      /\ Elements(queue) = Elements(Tail(queue)) \cup {n}
  BY <1>1, <1>2, HeadAndRest
<1>5. n \notin Elements(order)
  BY <1>2, <1>4, ElementsAreEntries
<1>6. /\ n \notin Elements(Tail(queue))
      /\ \A i, j \in 1..Len(Tail(queue)) : Tail(queue)[i] = Tail(queue)[j] => i = j
  BY <1>1, <1>2, HeadIsGone
<1> HIDE DEF n
<1>7. /\ order' \in Seq(Defs) /\ Elements(order)' = Elements(order) \cup {n}
      /\ order'[Len(order')] = n /\ order' # <<>>
      /\ \A i, j \in 1..Len(order') : order'[i] = order'[j] => i = j
  <2>1. /\ Append(order, n) \in Seq(Defs) /\ Len(Append(order, n)) = Len(order) + 1
        /\ Append(order, n)[Len(order) + 1] = n /\ Len(order) \in Nat
        /\ Elements(Append(order, n)) = Elements(order) \cup {n}
    BY <1>2, <1>4, AppendElement
  <2>2. \A i, j \in 1..Len(order') : order'[i] = order'[j] => i = j
    <3>1. \A i, j \in 1..Len(Append(order, n)) : Append(order, n)[i] = Append(order, n)[j] => i = j
      BY <1>2, <1>4, <1>5, AppendKeepsDistinct
    <3> QED
      BY <1>1, <3>1
  <2>3. Elements(order)' = Elements(Append(order, n))
    BY <1>1 DEF Elements
  <2> QED
    BY <1>1, <2>1, <2>2, <2>3
<1>8. /\ queue' \in Seq(Defs) /\ Elements(queue) = Elements(queue)' \cup {n}
      /\ n \notin Elements(queue)'
      /\ \A i, j \in 1..Len(queue') : queue'[i] = queue'[j] => i = j
  <2>1. Elements(queue)' = Elements(Tail(queue))
    BY <1>1 DEF Elements
  <2> QED
    BY <1>1, <1>4, <1>6, <2>1
<1>9. Elements(order) \cap Elements(queue) = {}
  BY <1>2, DisjointEntries
<1>10. Elements(order)' \cap Elements(queue)' = {}
  BY <1>7, <1>8, <1>9
<1>11. \A i \in 1..Len(order'), j \in 1..Len(queue') : order'[i] # queue'[j]
  <2>1. Elements(order') \cap Elements(queue') = {}
    BY <1>10 DEF Elements
  <2> QED
    BY <1>7, <1>8, <2>1, DisjointEntries
<1>12. visiting' \subseteq Defs /\ \A m \in visiting' : n \in Sources(m)
  BY <1>1 DEF Consumers
<1>13. \A m \in Defs : n \in Sources(m) => m \in visiting'
  BY <1>1 DEF Consumers
<1>14. \A m \in Defs : Waits(m) = {s \in Sources(m) : s \notin Elements(order)}
  BY <1>1 DEF Waits
<1>15. \A m \in Defs : Waits(m)' = Waits(m)
  <2> SUFFICES ASSUME NEW m \in Defs, NEW s \in Sources(m)
               PROVE  \/ s \notin Elements(order)'
                      \/ s = order'[Len(order')] /\ m \in visiting'
                      <=> s \notin Elements(order)
    BY <1>3, <1>14 DEF Waits
  <2> QED
    BY <1>5, <1>7, <1>13
<1>16. \A m \in Defs : Waits(m)' = {} <=> m \in Elements(order)' \cup Elements(queue)'
  BY <1>2, <1>7, <1>8, <1>15
<1>17. /\ indegree' = [m \in Defs |-> indegree'[m]]
       /\ \A m \in Defs : indegree'[m] = Cardinality(Waits(m)')
  BY <1>1, <1>2, <1>15
<1>18. \A m \in visiting' : order'[Len(order')] \in Sources(m)'
  BY <1>3, <1>7, <1>12
<1> QED
  BY <1>1, <1>3, <1>7, <1>8, <1>11, <1>12, <1>16, <1>17, <1>18 DEF Sorting, AfterSort

\* A step that leaves the sort alone.
LEMMA SortingKept ==
  ASSUME Sorting, UNCHANGED <<nodes, wired, indegree, queue, order, visiting>>,
         stage \in SortStages, stage' \in SortStages,
         stage' # stage => stage' \in AfterSort /\ visiting = {} /\ queue = <<>>
  PROVE  Sorting'
<1>1. Defs' = Defs /\ \A m : Sources(m)' = Sources(m)
  BY SamePlaces
<1>2. \A m : Waits(m)' = Waits(m)
  BY <1>1 DEF Waits, Elements
<1>3. Elements(order)' = Elements(order) /\ Elements(queue)' = Elements(queue)
  BY DEF Elements
<1>4. CASE stage' = stage
  BY <1>1, <1>2, <1>3, <1>4 DEF Sorting
<1>5. CASE stage' # stage
  <2>1. stage' \in AfterSort /\ visiting = {} /\ queue = <<>>
    BY <1>5
  <2>2. \A n \in Defs' : Waits(n)' = {} <=> n \in Elements(order)' \cup Elements(queue)'
    BY <1>1, <1>2, <1>3, <2>1 DEF Sorting
  <2> QED
    BY <1>1, <1>2, <1>3, <2>1, <2>2 DEF Sorting, AfterSort
<1> QED
  BY <1>4, <1>5

LEMMA SortingStep ==
  ASSUME Untouched, Wires, Sorting, [CompileNext]_compileVars
  PROVE  Sorting'
<1> USE DEF flat, wiring, sorting, result
<1>1. ASSUME NEW level \in todo, Flatten(level) PROVE Sorting'
  BY <1>1 DEF Flatten, Sorting, SortStages
<1>2. CASE ResolveEdges \/ Bypass \/ FindTypes
  BY <1>2 DEF ResolveEdges, Bypass, FindTypes, Sorting, SortStages
<1>3. ASSUME NEW e \in unwired, Dangle(e) \/ Wire(e) PROVE Sorting'
  BY <1>3 DEF Dangle, Wire, Sorting, SortStages
<1>4. CASE CheckInputs
  BY <1>4, CheckInputsStartsSorting
<1>5. ASSUME NEW n \in visiting, Seed(n) \/ Release(n) PROVE Sorting'
  BY <1>5, SeedKeepsSorting, ReleaseKeepsSorting
<1>6. CASE Pop
  BY <1>6, PopKeepsSorting
<1>7. CASE EndSort
  BY <1>7, SortingKept DEF EndSort, SortStages, AfterSort
<1>8. CASE Admit \/ Return
  <2>1. /\ UNCHANGED <<nodes, wired, indegree, queue, order, visiting>>
        /\ stage = "assemble" /\ stage' \in AfterSort
    BY <1>8 DEF Admit, Return, AfterSort
  <2>2. visiting = {} /\ queue = <<>>
    BY <2>1 DEF Sorting, SortStages, AfterSort
  <2> QED
    BY <2>1, <2>2, SortingKept DEF SortStages, AfterSort
<1>9. CASE UNCHANGED compileVars
  <2>1. UNCHANGED <<nodes, wired, indegree, queue, order, visiting, stage>>
    BY <1>9 DEF compileVars
  <2>2. CASE stage \in SortStages
    BY <2>1, <2>2, SortingKept
  <2>3. CASE stage \notin SortStages
    BY <2>1, <2>3 DEF Sorting, SortStages
  <2> QED
    BY <2>2, <2>3
<1> QED
  BY <1>1, <1>2, <1>3, <1>4, <1>5, <1>6, <1>7, <1>8, <1>9 DEF CompileNext

-----------------------------------------------------------------------------
(* GraphCompile: the order *)

LEMMA PopKeepsTheOrder ==
  ASSUME Sorting, Sorting', OrderIsTopological, Pop
  PROVE  OrderIsTopological'
<1> DEFINE n == Head(queue)
<1>1. /\ stage \in {"seed", "sort"} /\ stage' = "sort"
      /\ UNCHANGED <<nodes, wired>>
      /\ visiting = {} /\ queue # <<>>
      /\ order' = Append(order, n)
  BY DEF Pop, flat, wiring
<1>2. order \in Seq(Defs) /\ n \in Defs /\ n \in Elements(queue)
  BY <1>1, HeadAndRest DEF Sorting, SortStages
<1>3. Waits(n) = {}
  BY <1>1, <1>2 DEF Sorting, SortStages
<1>4. Sources(n) \subseteq Elements(order)
  BY <1>3 DEF Waits
<1> HIDE DEF n
<1>5. /\ Len(order') = Len(order) + 1 /\ Len(order) \in Nat /\ order'[Len(order) + 1] = n
      /\ \A i \in 1..Len(order) : order'[i] = order[i]
      /\ DOMAIN order = 1..Len(order) /\ DOMAIN order' = 1..(Len(order) + 1)
  BY <1>1, <1>2, AppendElement
<1>7. \A i, j \in DOMAIN order' : order'[i] = order'[j] => i = j
  BY <1>1, <1>5 DEF Sorting, SortStages
<1>8. ASSUME NEW i \in DOMAIN order', NEW s \in Sources(order[i])'
      PROVE  \E j \in 1..(i - 1) : order'[j] = s
  <2>1. CASE i \in 1..Len(order)
    <3>1. order'[i] = order[i]
      BY <1>5, <2>1
    <3>2. s \in Sources(order[i])
      BY <1>1, <1>8, <3>1 DEF Sources
    <3>3. PICK j \in 1..(i - 1) : order[j] = s
      BY <1>5, <2>1, <3>2 DEF OrderIsTopological
    <3>4. j \in 1..Len(order)
      BY <1>5, <2>1
    <3> QED
      BY <1>5, <3>3, <3>4
  <2>2. CASE i = Len(order) + 1
    <3>1. order'[i] = n
      BY <1>5, <2>2
    <3>2. s \in Sources(n)
      BY <1>1, <1>8, <3>1 DEF Sources
    <3>3. PICK j \in 1..Len(order) : order[j] = s
      BY <1>2, <1>4, <3>2, ElementsAreEntries
    <3> QED
      BY <1>5, <2>2, <3>3
  <2> QED
    BY <1>5, <2>1, <2>2
<1> QED
  BY <1>7, <1>8 DEF OrderIsTopological

LEMMA OrderStep ==
  ASSUME Untouched, Wires, Sorting, Sorting', OrderIsTopological, [CompileNext]_compileVars
  PROVE  OrderIsTopological'
<1> USE DEF flat, wiring, sorting, result
<1>1. CASE Pop
  BY <1>1, PopKeepsTheOrder
<1>2. CASE order' = order /\ (stage \in SortStages => wired' = wired)
  <2>1. CASE stage \in SortStages
    BY <1>2, <2>1 DEF OrderIsTopological, Sources
  <2>2. CASE stage \notin SortStages
    BY <1>2, <2>2 DEF OrderIsTopological, Untouched
  <2> QED
    BY <2>1, <2>2
<1>3. ASSUME NEW level \in todo, Flatten(level) PROVE OrderIsTopological'
  BY <1>2, <1>3 DEF Flatten
<1>4. CASE ResolveEdges \/ Bypass \/ FindTypes
  BY <1>2, <1>4 DEF ResolveEdges, Bypass, FindTypes, SortStages
<1>5. ASSUME NEW e \in unwired, Dangle(e) \/ Wire(e) PROVE OrderIsTopological'
  BY <1>2, <1>5 DEF Dangle, Wire, SortStages
<1>6. CASE CheckInputs
  BY <1>2, <1>6 DEF CheckInputs
<1>7. ASSUME NEW n \in visiting, Seed(n) \/ Release(n) PROVE OrderIsTopological'
  BY <1>2, <1>7 DEF Seed, Release
<1>8. CASE EndSort \/ Admit \/ Return
  BY <1>2, <1>8 DEF EndSort, Admit, Return
<1>9. CASE UNCHANGED compileVars
  BY <1>2, <1>9 DEF compileVars
<1> QED
  BY <1>1, <1>3, <1>4, <1>5, <1>6, <1>7, <1>8, <1>9 DEF CompileNext

\* A set of natural numbers that is not empty has a least one.
\* A set of nodes that wait for each other is not in the order: the first of them
\* to be there would come before its source.
LEMMA WaitingIsStuck ==
  ASSUME Sorting, OrderIsTopological, stage \in SortStages,
         NEW S \in SUBSET Defs, \A n \in S : Sources(n) \cap S # {}
  PROVE  S \cap Elements(order) = {}
<1> DEFINE places == {i \in 1..Len(order) : order[i] \in S}
<1>1. order \in Seq(Defs) /\ Len(order) \in Nat /\ DOMAIN order = 1..Len(order)
  BY DEF Sorting
<1>2. ASSUME places # {} PROVE FALSE
  <2>1. places \in SUBSET Nat
    BY <1>1
  <2>2. PICK k \in places : \A j \in places : k <= j
    BY <1>2, <2>1, LeastIsIn
  <2>3. PICK s \in Sources(order[k]) \cap S : TRUE
    BY <2>2
  <2>4. PICK j \in 1..(k - 1) : order[j] = s
    BY <1>1, <2>2, <2>3 DEF OrderIsTopological
  <2>5. j \in places /\ j < k
    BY <1>1, <2>2, <2>3, <2>4
  <2> QED
    BY <1>1, <2>2, <2>5
<1> QED
  BY <1>1, <1>2, ElementsAreEntries

LEMMA SortedMeansStuckIsCyclic ==
  ASSUME Wires, Sorting, OrderIsTopological
  PROVE  StuckIsCyclic
<1> SUFFICES ASSUME stage \in AfterSort
             PROVE  /\ \A n \in Stuck : Sources(n) \cap Stuck # {}
                    /\ \A S \in SUBSET Defs : (\A n \in S : Sources(n) \cap S # {}) => S \subseteq Stuck
  BY DEF StuckIsCyclic, AfterSort
<1>1. /\ visiting = {} /\ queue = <<>> /\ stage \in SortStages /\ stage # "seed"
      /\ \A n \in Defs : Waits(n) = {} <=> n \in Elements(order) \cup Elements(queue)
  BY DEF Sorting, SortStages, AfterSort
<1>2. Elements(queue) = {}
  BY <1>1 DEF Elements
<1>3. \A n \in Stuck : Sources(n) \cap Stuck # {}
  <2> SUFFICES ASSUME NEW n \in Stuck PROVE Sources(n) \cap Stuck # {}
    OBVIOUS
  <2>1. n \in Defs /\ Waits(n) # {}
    BY <1>1, <1>2 DEF Stuck
  <2>2. PICK s \in Sources(n) : s \notin Elements(order)
    BY <1>1, <2>1 DEF Waits
  <2>3. s \in Defs
    BY <1>1, <2>1, <2>2 DEF Wires, Defs
  <2> QED
    BY <2>2, <2>3 DEF Stuck
<1>4. \A S \in SUBSET Defs : (\A n \in S : Sources(n) \cap S # {}) => S \subseteq Stuck
  BY <1>1, WaitingIsStuck DEF Stuck
<1> QED
  BY <1>3, <1>4

-----------------------------------------------------------------------------
(* GraphCompile: the assembly *)

\* What an edge leads from to a node that has not failed has failed or comes before it.
LEMMA LeadsComeBefore ==
  ASSUME Wires, Sorting, OrderIsTopological, stage \in SortStages,
         NEW i \in 1..Len(order), order[i] \notin Failed, NEW m \in Leads(order[i])
  PROVE  m \in Failed \/ \E j \in 1..(i - 1) : order[j] = m
<1>1. order \in Seq(Defs) /\ order[i] \in Defs /\ DOMAIN order = 1..Len(order)
  BY DEF Sorting
<1>2. order[i] \in DOMAIN nodes
  BY <1>1 DEF Defs
<1>3. m \in Sources(order[i]) \/ m \notin Defs
  BY <1>1, <1>2 DEF Leads, Wires
<1>4. m \in DOMAIN nodes
  BY <1>2 DEF Leads, Wires, Defs
<1>5. CASE m \in Sources(order[i])
  BY <1>1, <1>5 DEF OrderIsTopological
<1>6. CASE m \notin Defs
  BY <1>4, <1>6 DEF Wires
<1> QED
  BY <1>3, <1>5, <1>6

LEMMA EndSortStartsAssembly ==
  ASSUME Untouched, Wires, Sorting, EndSort
  PROVE  Assembly'
<1>1. /\ stage \in {"seed", "sort"} /\ stage' = "assemble"
      /\ UNCHANGED <<nodes, wired, order, upstream_failed, admitted, graph, blocked>>
      /\ errors' = errors \cup {<<n, "cycle">> : n \in Stuck}
  BY DEF EndSort, flat, wiring, sorting, result
<1>2. admitted = 0 /\ graph = <<>> /\ blocked = {}
  BY <1>1 DEF Untouched, AfterSort
<1>3. Defs' = Defs /\ Stuck' = Stuck /\ order \in Seq(Defs)
  BY <1>1 DEF Defs, Stuck, Elements, Sorting, SortStages
<1>4. Stuck \subseteq Failed'
  <2> SUFFICES ASSUME NEW n \in Stuck PROVE n \in Failed'
    OBVIOUS
  <2>1. <<n, "cycle">> \in errors'
    BY <1>1
  <2> QED
    BY <2>1 DEF Failed
<1>5. Elements(graph)' = {} /\ blocked' = {} /\ graph' \in Seq(Defs')
  BY <1>1, <1>2 DEF Elements
<1>6. \A i \in 1..Len(order') : ~(i <= admitted')
  BY <1>1, <1>2, <1>3
<1>7. admitted' \in 0..Len(order') /\ stage' # "done"
  BY <1>1, <1>2, <1>3
<1> QED
  BY <1>3, <1>4, <1>5, <1>6, <1>7 DEF Assembly

LEMMA AdmitKeepsAssembly ==
  ASSUME Untouched, Wires, Sorting, OrderIsTopological, Assembly, Admit
  PROVE  Assembly'
<1> DEFINE k == admitted + 1
           n == order[k]
           down == Leads(n) \cap (Failed \cup blocked) # {}
<1>1. /\ stage = "assemble" /\ stage' = "assemble" /\ admitted < Len(order)
      /\ UNCHANGED <<nodes, wired, order, upstream_failed, errors>>
      /\ admitted' = k
      /\ graph' = IF n \in Failed \/ down THEN graph ELSE Append(graph, n)
      /\ blocked' = IF n \notin Failed /\ down THEN blocked \cup {n} ELSE blocked
  BY DEF Admit, flat, wiring, sorting
<1>2. /\ Stuck \subseteq Failed /\ admitted \in 0..Len(order)
      /\ graph \in Seq(Defs) /\ Elements(graph) \cup blocked \subseteq Elements(order)
      /\ \A i \in 1..Len(order) :
           /\ order[i] \in Elements(graph) <=>
                /\ i <= admitted /\ order[i] \notin Failed
                /\ Leads(order[i]) \cap (Failed \cup blocked) = {}
           /\ order[i] \in blocked <=>
                /\ i <= admitted /\ order[i] \notin Failed
                /\ Leads(order[i]) \cap (Failed \cup blocked) # {}
  BY <1>1 DEF Assembly, AfterSort
<1>3. /\ order \in Seq(Defs) /\ Len(order) \in Nat
      /\ \A i, j \in 1..Len(order) : order[i] = order[j] => i = j
  BY <1>1 DEF Sorting, SortStages
<1>4. /\ k \in 1..Len(order) /\ n \in Defs /\ n \in Elements(order)
      /\ k \in Nat /\ admitted \in Nat /\ ~(k <= admitted)
  <2>1. k \in 1..Len(order) /\ k \in Nat /\ admitted \in Nat /\ ~(k <= admitted)
    BY <1>1, <1>2, <1>3
  <2> QED
    BY <1>3, <2>1, ElementsAreEntries
<1> HIDE DEF k
<1>5. Defs' = Defs /\ Stuck' = Stuck /\ Failed' = Failed /\ Elements(order)' = Elements(order)
  BY <1>1 DEF Defs, Stuck, Elements, Failed
<1>6. \A m : Leads(m)' = Leads(m)
  BY <1>1 DEF Leads, Sources
<1>7. n \notin Elements(graph) /\ n \notin blocked
  BY <1>2, <1>4
<1>8. /\ graph' \in Seq(Defs)
      /\ Elements(graph)' = IF n \in Failed \/ down THEN Elements(graph) ELSE Elements(graph) \cup {n}
  <2>1. CASE n \in Failed \/ down
    BY <1>1, <1>2, <2>1 DEF Elements
  <2>2. CASE ~(n \in Failed \/ down)
    <3>1. graph' = Append(graph, n)
      BY <1>1, <2>2
    <3>2. Elements(graph)' = Elements(Append(graph, n))
      BY <3>1 DEF Elements
    <3> QED
      BY <1>2, <1>4, <2>2, <3>1, <3>2, AppendElement
  <2> QED
    BY <2>1, <2>2
\* No node visited so far waits for this one, nor does it for itself.
<1>9. ASSUME NEW i \in 1..Len(order), i <= k, order[i] \notin Failed
      PROVE  Leads(order[i]) \cap (Failed \cup blocked') = Leads(order[i]) \cap (Failed \cup blocked)
  <2> SUFFICES ASSUME n \in Leads(order[i]), n \notin Failed PROVE FALSE
    BY <1>1
  <2>1. PICK j \in 1..(i - 1) : order[j] = n
    BY <1>1, <1>9, LeadsComeBefore DEF SortStages
  <2>2. j \in 1..Len(order) /\ j # k
    BY <1>3, <1>4, <1>9
  <2> QED
    BY <1>3, <1>4, <2>1, <2>2
<1> HIDE DEF n, down
<1>10. ASSUME NEW i \in 1..Len(order)
       PROVE  /\ order[i] \in Elements(graph)' <=>
                   /\ i <= k /\ order[i] \notin Failed
                   /\ Leads(order[i]) \cap (Failed \cup blocked') = {}
              /\ order[i] \in blocked' <=>
                   /\ i <= k /\ order[i] \notin Failed
                   /\ Leads(order[i]) \cap (Failed \cup blocked') # {}
  <2>1. CASE i = k
    <3>1. order[i] = n /\ i <= k
      BY <1>4, <2>1 DEF n
    <3>2. n \notin Failed => (down <=> Leads(n) \cap (Failed \cup blocked') # {})
      BY <1>9, <3>1 DEF down
    <3> QED
      BY <1>1, <1>7, <1>8, <3>1, <3>2
  <2>2. CASE i # k
    <3>1. order[i] # n /\ (i <= k <=> i <= admitted)
      <4>1. order[i] # n
        BY <1>3, <1>4, <2>2 DEF n
      <4>2. i <= k <=> i <= admitted
        BY <1>4, <2>2 DEF k
      <4> QED
        BY <4>1, <4>2
    <3>2. /\ order[i] \in Elements(graph)' <=> order[i] \in Elements(graph)
          /\ order[i] \in blocked' <=> order[i] \in blocked
      BY <1>1, <1>8, <3>1
    <3>3. /\ order[i] \in Elements(graph) <=>
                /\ i <= admitted /\ order[i] \notin Failed
                /\ Leads(order[i]) \cap (Failed \cup blocked) = {}
          /\ order[i] \in blocked <=>
                /\ i <= admitted /\ order[i] \notin Failed
                /\ Leads(order[i]) \cap (Failed \cup blocked) # {}
      BY <1>2
    <3> QED
      BY <1>9, <3>1, <3>2, <3>3, Zenon
  <2> QED
    BY <2>1, <2>2
<1>11. Elements(graph)' \cup blocked' \subseteq Elements(order)
  BY <1>1, <1>2, <1>4, <1>8
<1>12. admitted' \in 0..Len(order')
  BY <1>1, <1>4
<1>13. /\ Stuck' \subseteq Failed' /\ stage' # "done" /\ graph' \in Seq(Defs')
       /\ Elements(graph)' \cup blocked' \subseteq Elements(order)'
  BY <1>1, <1>2, <1>5, <1>8, <1>11
<1>14. ASSUME NEW i \in 1..Len(order')
       PROVE  /\ order'[i] \in Elements(graph)' <=>
                   /\ i <= admitted' /\ order'[i] \notin Failed'
                   /\ Leads(order[i])' \cap (Failed' \cup blocked') = {}
              /\ order'[i] \in blocked' <=>
                   /\ i <= admitted' /\ order'[i] \notin Failed'
                   /\ Leads(order[i])' \cap (Failed' \cup blocked') # {}
  <2>1. order' = order /\ admitted' = k /\ Failed' = Failed
    BY <1>1, <1>5
  <2>2. Leads(order[i])' = Leads(order[i])
    BY <1>1 DEF Leads, Sources
  <2> QED
    BY <1>10, <2>1, <2>2
<1> QED
  BY <1>12, <1>13, <1>14 DEF Assembly

LEMMA AssemblyKept ==
  ASSUME Assembly, stage \in AfterSort,
         UNCHANGED <<nodes, wired, order, upstream_failed, errors, admitted, graph, blocked>>,
         stage' = "done" => stage = "done" \/ admitted = Len(order)
  PROVE  Assembly'
<1>1. Defs' = Defs /\ Stuck' = Stuck /\ Failed' = Failed
  BY DEF Defs, Stuck, Elements, Failed
<1>2. Elements(order)' = Elements(order) /\ Elements(graph)' = Elements(graph)
  BY DEF Elements
<1>3. \A i : Leads(order[i])' = Leads(order[i])
  BY DEF Leads, Sources
<1> QED
  BY <1>1, <1>2, <1>3 DEF Assembly

LEMMA AssemblyStep ==
  ASSUME Untouched, Wires, Sorting, OrderIsTopological, Assembly, [CompileNext]_compileVars
  PROVE  Assembly'
<1> USE DEF flat, wiring, sorting, result
<1>1. ASSUME NEW level \in todo, Flatten(level) PROVE Assembly'
  BY <1>1 DEF Flatten, Assembly, AfterSort
<1>2. CASE ResolveEdges \/ Bypass \/ FindTypes
  BY <1>2 DEF ResolveEdges, Bypass, FindTypes, Assembly, AfterSort
<1>3. ASSUME NEW e \in unwired, Dangle(e) \/ Wire(e) PROVE Assembly'
  BY <1>3 DEF Dangle, Wire, Assembly, AfterSort
<1>4. CASE CheckInputs
  BY <1>4 DEF CheckInputs, Assembly, AfterSort
<1>5. ASSUME NEW n \in visiting, Seed(n) \/ Release(n) PROVE Assembly'
  BY <1>5 DEF Seed, Release, Assembly, AfterSort
<1>6. CASE Pop
  BY <1>6 DEF Pop, Assembly, AfterSort
<1>7. CASE EndSort
  BY <1>7, EndSortStartsAssembly
<1>8. CASE Admit
  BY <1>8, AdmitKeepsAssembly
<1>9. CASE Return
  BY <1>9, AssemblyKept DEF Return, AfterSort
<1>10. CASE UNCHANGED compileVars
  <2>1. UNCHANGED <<nodes, wired, order, upstream_failed, errors, admitted, graph, blocked, stage>>
    BY <1>10 DEF compileVars
  <2>2. CASE stage \in AfterSort
    BY <2>1, <2>2, AssemblyKept
  <2>3. CASE stage \notin AfterSort
    BY <2>1, <2>3 DEF Assembly
  <2> QED
    BY <2>2, <2>3
<1> QED
  BY <1>1, <1>2, <1>3, <1>4, <1>5, <1>6, <1>7, <1>8, <1>9, <1>10 DEF CompileNext

LEMMA AssembledIsWhatCanRun ==
  ASSUME Untouched, Wires, Sorting, OrderIsTopological, Assembly
  PROVE  GraphIsWhatCanRun
<1> SUFFICES ASSUME stage = "done", NEW n \in DOMAIN nodes
             PROVE  /\ n \in Elements(graph) <=> n \notin Failed /\ Leads(n) \subseteq Elements(graph)
                    /\ n \in blocked <=> n \notin Failed \cup Elements(graph)
  BY DEF GraphIsWhatCanRun
<1>1. /\ Stuck \subseteq Failed /\ admitted = Len(order)
      /\ Elements(graph) \cup blocked \subseteq Elements(order)
      /\ \A i \in 1..Len(order) :
           /\ order[i] \in Elements(graph) <=>
                /\ i <= admitted /\ order[i] \notin Failed
                /\ Leads(order[i]) \cap (Failed \cup blocked) = {}
           /\ order[i] \in blocked <=>
                /\ i <= admitted /\ order[i] \notin Failed
                /\ Leads(order[i]) \cap (Failed \cup blocked) # {}
  BY DEF Assembly, AfterSort
<1>2. order \in Seq(Defs) /\ Len(order) \in Nat /\ stage \in SortStages
  BY DEF Sorting, SortStages
<1>3. \A m : m \in Elements(order) <=> \E i \in 1..Len(order) : order[i] = m
  BY <1>2, ElementsAreEntries
<1>4. \A m \in Elements(order) :
        /\ m \in Elements(graph) <=> m \notin Failed /\ Leads(m) \cap (Failed \cup blocked) = {}
        /\ m \in blocked <=> m \notin Failed /\ Leads(m) \cap (Failed \cup blocked) # {}
  BY <1>1, <1>2, <1>3
<1>5. CASE n \notin Elements(order)
  <2>1. n \in Failed
    BY <1>1, <1>2, <1>5 DEF Stuck, Wires
  <2> QED
    BY <1>1, <1>5, <2>1
<1>6. CASE n \in Elements(order)
  <2>1. n \notin Failed => Leads(n) \subseteq Failed \cup Elements(order)
    <3> SUFFICES ASSUME n \notin Failed, NEW m \in Leads(n) PROVE m \in Failed \cup Elements(order)
      OBVIOUS
    <3>1. PICK i \in 1..Len(order) : order[i] = n
      BY <1>3, <1>6
    <3>2. m \in Failed \/ \E j \in 1..(i - 1) : order[j] = m
      BY <1>2, <3>1, LeadsComeBefore
    <3>3. \A j \in 1..(i - 1) : j \in 1..Len(order)
      BY <1>2
    <3> QED
      BY <1>3, <3>2, <3>3
  <2>2. \A m \in Elements(order) : m \in Elements(graph) <=> m \notin Failed \cup blocked
    BY <1>4
  <2>3. n \notin Failed => (Leads(n) \cap (Failed \cup blocked) = {} <=> Leads(n) \subseteq Elements(graph))
    BY <1>1, <1>4, <2>1, <2>2
  <2> QED
    BY <1>4, <1>6, <2>2, <2>3
<1> QED
  BY <1>5, <1>6

-----------------------------------------------------------------------------
(* GraphCompile: where a port leads *)

\* One hop of a resolution (_Flat.resolve), and m of them one behind the other.
Hop(side, at) ==
  IF at[1] \in Instances /\ at[2] \in DOMAIN Level(at[1])[side]
  THEN <<Append(at[1], Level(at[1])[side][at[2]].node), Level(at[1])[side][at[2]].port>>
  ELSE at

Hops(side, from, m, h) ==
  /\ h = [k \in 0..m |-> h[k]] /\ h[0] = from
  /\ \A k \in 1..m : h[k] = Hop(side, h[k - 1])

MaxHops == MAX_SUBGRAPH_DEPTH + 1

LEMMA MaxHopsIsNat == MaxHops \in Nat /\ MaxHops # 0
BY GraphAssumption DEF MaxHops

LEMMA HopsExist ==
  ASSUME NEW side, NEW from
  PROVE  \E h : Hops(side, from, MaxHops, h)
<1> DEFINE Bad == {m \in Nat : ~\E h : Hops(side, from, m, h)}
<1>1. Bad = {}
  <2> SUFFICES ASSUME Bad # {} PROVE FALSE
    OBVIOUS
  <2> DEFINE m == Min(Bad)
  <2>1. m \in Bad /\ \A y \in Bad : m <= y
    <3>1. Bad \in SUBSET Nat
      OBVIOUS
    <3> QED
      BY <3>1, LeastIsIn
  <2> HIDE DEF m
  <2>2. m \in Nat /\ ~\E h : Hops(side, from, m, h)
    BY <2>1
  <2>3. m # 0
    <3> DEFINE h == [k \in 0..0 |-> from]
    <3>1. h = [k \in 0..0 |-> h[k]] /\ h[0] = from
      OBVIOUS
    <3>2. \A k \in 1..0 : h[k] = Hop(side, h[k - 1])
      OBVIOUS
    <3> QED
      BY <2>2, <3>1, <3>2 DEF Hops
  <2>4. m - 1 \in Nat /\ ~(m <= m - 1)
    BY <2>2, <2>3
  <2>5. PICK f : Hops(side, from, m - 1, f)
    BY <2>1, <2>4
  <2> DEFINE h == [k \in 0..m |-> IF k = m THEN Hop(side, f[m - 1]) ELSE f[k]]
  <2>6. h = [k \in 0..m |-> h[k]]
    OBVIOUS
  <2>7. h[0] = from
    <3>1. 0 \in 0..m /\ h[0] = f[0]
      BY <2>2, <2>3
    <3> QED
      BY <2>5, <3>1 DEF Hops
  <2>8. ASSUME NEW k \in 1..m PROVE h[k] = Hop(side, h[k - 1])
    <3>1. k \in 0..m /\ k - 1 \in 0..m /\ k - 1 # m
      BY <2>2
    <3>2. h[k - 1] = f[k - 1]
      BY <3>1
    <3>3. CASE k = m
      BY <3>1, <3>2, <3>3
    <3>4. CASE k # m
      <4>1. k \in 1..(m - 1)
        BY <2>2, <3>4
      <4>2. h[k] = f[k]
        BY <3>1, <3>4
      <4> QED
        BY <2>5, <3>2, <4>1, <4>2 DEF Hops
    <3> QED
      BY <3>3, <3>4
  <2>9. Hops(side, from, m, h)
    <3> HIDE DEF h
    <3> QED
      BY <2>6, <2>7, <2>8 DEF Hops
  <2> QED
    BY <2>2, <2>9
<1> QED
  BY <1>1, MaxHopsIsNat

LEMMA ResolveIsLastHop ==
  ASSUME NEW side, NEW from
  PROVE  \E h : Hops(side, from, MaxHops, h) /\ Resolve(side, from) = h[MaxHops]
<1> DEFINE Once(h) == [k \in 0..MaxHops |-> IF k = 0 THEN from ELSE Hop(side, h[k - 1])]
           t == CHOOSE h : h = Once(h)
<1>1. PICK h : Hops(side, from, MaxHops, h)
  BY HopsExist
<1>2. h = Once(h)
  <2>1. ASSUME NEW k \in 0..MaxHops PROVE h[k] = IF k = 0 THEN from ELSE Hop(side, h[k - 1])
    <3>1. CASE k = 0
      BY <1>1, <3>1 DEF Hops
    <3>2. CASE k # 0
      <4>1. k \in 1..MaxHops
        BY <3>2, MaxHopsIsNat
      <4> QED
        BY <1>1, <3>2, <4>1 DEF Hops
    <3> QED
      BY <3>1, <3>2
  <2> QED
    BY <1>1, <2>1 DEF Hops
<1>3. t = Once(t)
  BY <1>2
<1>4. Resolve(side, from) = t[MaxHops]
  BY DEF Resolve, Hop, MaxHops
<1> HIDE DEF t
<1>5. t = [k \in 0..MaxHops |-> t[k]]
  BY <1>3
<1>6. t[0] = from
  BY <1>3, MaxHopsIsNat
<1>7. ASSUME NEW k \in 1..MaxHops PROVE t[k] = Hop(side, t[k - 1])
  <2>1. k \in 0..MaxHops /\ k # 0
    BY MaxHopsIsNat
  <2> QED
    BY <1>3, <2>1
<1>8. Hops(side, from, MaxHops, t)
  BY <1>5, <1>6, <1>7 DEF Hops
<1> QED
  BY <1>4, <1>8

\* A port that is not an instance's is where it leads.
LEMMA ResolveStays ==
  ASSUME NEW side, NEW node, NEW port, node \notin Instances
  PROVE  Resolve(side, <<node, port>>) = <<node, port>>
<1> DEFINE from == <<node, port>>
<1>1. PICK h : Hops(side, from, MaxHops, h) /\ Resolve(side, from) = h[MaxHops]
  BY ResolveIsLastHop
<1> DEFINE Bad == {k \in 0..MaxHops : h[k] # from}
<1>2. Bad = {}
  <2> SUFFICES ASSUME Bad # {} PROVE FALSE
    OBVIOUS
  <2> DEFINE m == Min(Bad)
  <2>1. m \in Bad /\ \A y \in Bad : m <= y
    <3>1. Bad \in SUBSET Nat
      OBVIOUS
    <3> QED
      BY <3>1, LeastIsIn
  <2> HIDE DEF m
  <2>2. m \in 0..MaxHops /\ h[m] # from
    BY <2>1
  <2>3. m # 0
    BY <1>1, <2>2 DEF Hops
  <2>4. m \in 1..MaxHops /\ m - 1 \in 0..MaxHops /\ ~(m <= m - 1)
    BY <2>2, <2>3, MaxHopsIsNat
  <2>5. h[m - 1] = from
    BY <2>1, <2>4
  <2>6. h[m] = Hop(side, from)
    BY <1>1, <2>4, <2>5 DEF Hops
  <2>7. from[1] \notin Instances
    OBVIOUS
  <2>8. Hop(side, from) = from
    BY <2>7 DEF Hop
  <2> QED
    BY <2>2, <2>6, <2>8
<1>3. MaxHops \in 0..MaxHops
  BY MaxHopsIsNat
<1> QED
  BY <1>1, <1>2, <1>3

LEMMA ResolveIsPair ==
  ASSUME NEW side, NEW node, NEW port
  PROVE  Resolve(side, <<node, port>>) =
           <<Resolve(side, <<node, port>>)[1], Resolve(side, <<node, port>>)[2]>>
<1> DEFINE from == <<node, port>>
           Pair(x) == x = <<x[1], x[2]>>
<1>1. PICK h : Hops(side, from, MaxHops, h) /\ Resolve(side, from) = h[MaxHops]
  BY ResolveIsLastHop
<1>2. ASSUME NEW x, Pair(x) PROVE Pair(Hop(side, x))
  <2>1. CASE x[1] \in Instances /\ x[2] \in DOMAIN Level(x[1])[side]
    <3>1. Hop(side, x) = <<Append(x[1], Level(x[1])[side][x[2]].node), Level(x[1])[side][x[2]].port>>
      BY <2>1 DEF Hop
    <3> QED
      BY <3>1
  <2>2. CASE ~(x[1] \in Instances /\ x[2] \in DOMAIN Level(x[1])[side])
    <3>1. Hop(side, x) = x
      BY <2>2 DEF Hop
    <3> QED
      BY <1>2, <3>1
  <2> QED
    BY <2>1, <2>2
<1>3. Pair(h[0])
  <2>1. h[0] = from
    BY <1>1 DEF Hops
  <2>2. Pair(from)
    OBVIOUS
  <2> QED
    BY <2>1, <2>2
<1> DEFINE Bad == {k \in 0..MaxHops : ~Pair(h[k])}
<1> HIDE DEF Pair
<1>4. Bad = {}
  <2> SUFFICES ASSUME Bad # {} PROVE FALSE
    OBVIOUS
  <2> DEFINE m == Min(Bad)
  <2>1. m \in Bad /\ \A y \in Bad : m <= y
    <3>1. Bad \in SUBSET Nat
      OBVIOUS
    <3> QED
      BY <3>1, LeastIsIn
  <2> HIDE DEF m
  <2>2. m \in 0..MaxHops /\ ~Pair(h[m])
    BY <2>1
  <2>3. m # 0
    BY <1>3, <2>2
  <2>4. m \in 1..MaxHops /\ m - 1 \in 0..MaxHops /\ ~(m <= m - 1)
    BY <2>2, <2>3, MaxHopsIsNat
  <2>5. Pair(h[m - 1])
    BY <2>1, <2>4
  <2>6. h[m] = Hop(side, h[m - 1])
    BY <1>1, <2>4 DEF Hops
  <2>7. Pair(h[m])
    BY <1>2, <2>5, <2>6
  <2> QED
    BY <2>2, <2>7
<1>5. MaxHops \in 0..MaxHops
  BY MaxHopsIsNat
<1>6. Pair(h[MaxHops])
  BY <1>4, <1>5
<1> QED
  BY <1>1, <1>6 DEF Pair

-----------------------------------------------------------------------------
(* GraphCompile: how far the origins of an edge reach *)

MaxOrigins == 2 * MAX_SUBGRAPH_DEPTH + 3

LEMMA MaxOriginsIsNat ==
  MaxOrigins \in Nat /\ MaxOrigins # 0 /\ MaxHops + 1 \in Nat /\ MaxOrigins = (MaxHops + 1) + MaxHops
BY GraphAssumption DEF MaxOrigins, MaxHops

\* The origins of an edge within so many hops, and all of them.
Origins(e) ==
  CHOOSE o : o = [k \in 0..MaxOrigins |->
                    IF k = 0 THEN {<<e.src, e.src_port>>}
                    ELSE o[k - 1] \cup UNION {StandsFor(x) : x \in o[k - 1]}]
Reached(e) == Origins(e)[MaxOrigins]

LEMMA InputsArriveDef ==
  InputsArrive <=>
    (stage = "done" =>
       \A e \in Drawn :
         \/ Into(e)[1] \notin Elements(graph)
         \/ /\ Into(e)[2] \in DOMAIN wired[Into(e)[1]]
            /\ wired[Into(e)[1]][Into(e)[2]] \in {x \in Reached(e) : x[1] \in Elements(graph)}
         \/ {e.src, e.dst} \subseteq Instances /\ <<e.dst, "unknown_port">> \in errors)
BY Zenon DEF InputsArrive, Reached, Origins, MaxOrigins

\* What these are, without a CHOOSE.
Widens(e, m, o) ==
  /\ o = [k \in 0..m |-> o[k]] /\ o[0] = {<<e.src, e.src_port>>}
  /\ \A k \in 1..m : o[k] = o[k - 1] \cup UNION {StandsFor(x) : x \in o[k - 1]}

LEMMA OriginsExist ==
  ASSUME NEW e
  PROVE  \E o : Widens(e, MaxOrigins, o)
<1> DEFINE Bad == {m \in Nat : ~\E o : Widens(e, m, o)}
<1>1. Bad = {}
  <2> SUFFICES ASSUME Bad # {} PROVE FALSE
    OBVIOUS
  <2> DEFINE m == Min(Bad)
  <2>1. m \in Bad /\ \A y \in Bad : m <= y
    <3>1. Bad \in SUBSET Nat
      OBVIOUS
    <3> QED
      BY <3>1, LeastIsIn
  <2> HIDE DEF m
  <2>2. m \in Nat /\ ~\E o : Widens(e, m, o)
    BY <2>1
  <2>3. m # 0
    <3> DEFINE o == [k \in 0..0 |-> {<<e.src, e.src_port>>}]
    <3>1. o = [k \in 0..0 |-> o[k]] /\ o[0] = {<<e.src, e.src_port>>}
      OBVIOUS
    <3>2. \A k \in 1..0 : o[k] = o[k - 1] \cup UNION {StandsFor(x) : x \in o[k - 1]}
      OBVIOUS
    <3> HIDE DEF o
    <3> QED
      BY <2>2, <3>1, <3>2 DEF Widens
  <2>4. m - 1 \in Nat /\ ~(m <= m - 1)
    BY <2>2, <2>3
  <2>5. PICK f : Widens(e, m - 1, f)
    BY <2>1, <2>4
  <2> DEFINE next == f[m - 1] \cup UNION {StandsFor(x) : x \in f[m - 1]}
             o == [k \in 0..m |-> IF k = m THEN next ELSE f[k]]
  <2>6. o = [k \in 0..m |-> o[k]]
    OBVIOUS
  <2>7. o[0] = {<<e.src, e.src_port>>}
    <3>1. 0 \in 0..m /\ o[0] = f[0]
      BY <2>2, <2>3
    <3> QED
      BY <2>5, <3>1 DEF Widens
  <2>8. ASSUME NEW k \in 1..m
        PROVE  o[k] = o[k - 1] \cup UNION {StandsFor(x) : x \in o[k - 1]}
    <3>1. k \in 0..m /\ k - 1 \in 0..m /\ k - 1 # m
      BY <2>2
    <3>2. o[k - 1] = f[k - 1]
      BY <3>1
    <3>3. CASE k = m
      BY <3>1, <3>2, <3>3
    <3>4. CASE k # m
      <4>1. k \in 1..(m - 1)
        BY <2>2, <3>4
      <4>2. o[k] = f[k]
        BY <3>1, <3>4
      <4> HIDE DEF o
      <4> QED
        BY <2>5, <3>2, <4>1, <4>2 DEF Widens
    <3> QED
      BY <3>3, <3>4
  <2>9. Widens(e, m, o)
    <3> HIDE DEF o
    <3> QED
      BY <2>6, <2>7, <2>8 DEF Widens
  <2> QED
    BY <2>2, <2>9
<1> QED
  BY <1>1, MaxOriginsIsNat

LEMMA OriginsWiden ==
  ASSUME NEW e
  PROVE  Widens(e, MaxOrigins, Origins(e))
<1> DEFINE Once(o) == [k \in 0..MaxOrigins |->
                         IF k = 0 THEN {<<e.src, e.src_port>>}
                         ELSE o[k - 1] \cup UNION {StandsFor(x) : x \in o[k - 1]}]
           t == CHOOSE o : o = Once(o)
<1>1. PICK o : Widens(e, MaxOrigins, o)
  BY OriginsExist
<1>2. o = Once(o)
  <2>1. ASSUME NEW k \in 0..MaxOrigins
        PROVE  o[k] = IF k = 0 THEN {<<e.src, e.src_port>>}
                      ELSE o[k - 1] \cup UNION {StandsFor(x) : x \in o[k - 1]}
    <3>1. CASE k = 0
      BY <1>1, <3>1 DEF Widens
    <3>2. CASE k # 0
      <4>1. k \in 1..MaxOrigins
        BY <3>2, MaxOriginsIsNat
      <4> QED
        BY <1>1, <3>2, <4>1 DEF Widens
    <3> QED
      BY <3>1, <3>2
  <2> QED
    BY <1>1, <2>1 DEF Widens
<1>3. t = Once(t)
  BY <1>2
<1>4. Origins(e) = t
  BY DEF Origins
<1> HIDE DEF t
<1>5. t = [k \in 0..MaxOrigins |-> t[k]]
  BY <1>3
<1>6. t[0] = {<<e.src, e.src_port>>}
  BY <1>3, MaxOriginsIsNat
<1>7. ASSUME NEW k \in 1..MaxOrigins
      PROVE  t[k] = t[k - 1] \cup UNION {StandsFor(x) : x \in t[k - 1]}
  <2>1. k \in 0..MaxOrigins /\ k # 0
    BY MaxOriginsIsNat
  <2> QED
    BY <1>3, <2>1
<1>8. Widens(e, MaxOrigins, t)
  BY <1>5, <1>6, <1>7 DEF Widens
<1> QED
  BY <1>4, <1>8

\* Where a port leads, over its node's outputs, is an origin a resolution later.
LEMMA ResolvedIsReached ==
  ASSUME NEW e, NEW from, NEW n \in 0..MaxOrigins, n + MaxHops \in 0..MaxOrigins,
         from \in Origins(e)[n]
  PROVE  Resolve("outputs", from) \in Origins(e)[n + MaxHops]
<1>1. PICK h : Hops("outputs", from, MaxHops, h) /\ Resolve("outputs", from) = h[MaxHops]
  BY ResolveIsLastHop
<1> DEFINE o == Origins(e)
           Bad == {k \in 0..MaxHops : h[k] \notin o[n + k]}
<1>2. \A k \in 1..MaxOrigins : o[k] = o[k - 1] \cup UNION {StandsFor(x) : x \in o[k - 1]}
  BY OriginsWiden DEF Widens
<1> HIDE DEF o
<1>3. ASSUME NEW at PROVE Hop("outputs", at) \in {at} \cup StandsFor(at)
  <2>1. CASE at[1] \in Instances /\ at[2] \in DOMAIN Level(at[1]).outputs
    <3>1. Level(at[1]) \in levels /\ Level(at[1]).prefix = at[1]
      BY <2>1 DEF Instances, Level
    <3>2. Hop("outputs", at) = <<Append(at[1], Level(at[1]).outputs[at[2]].node),
                                 Level(at[1]).outputs[at[2]].port>>
      BY <2>1 DEF Hop
    <3> QED
      BY <2>1, <3>1, <3>2 DEF StandsFor
  <2>2. CASE ~(at[1] \in Instances /\ at[2] \in DOMAIN Level(at[1]).outputs)
    BY <2>2 DEF Hop
  <2> QED
    BY <2>1, <2>2
<1>4. Bad = {}
  <2> SUFFICES ASSUME Bad # {} PROVE FALSE
    OBVIOUS
  <2> DEFINE m == Min(Bad)
  <2>1. m \in Bad /\ \A y \in Bad : m <= y
    <3>1. Bad \in SUBSET Nat
      OBVIOUS
    <3> QED
      BY <3>1, LeastIsIn
  <2> HIDE DEF m
  <2>2. m \in 0..MaxHops /\ h[m] \notin o[n + m]
    BY <2>1
  <2>3. m # 0
    <3>1. h[0] = from /\ n + 0 = n
      BY <1>1 DEF Hops
    <3> QED
      BY <2>2, <3>1 DEF o
  <2>4. m \in 1..MaxHops /\ m - 1 \in 0..MaxHops /\ ~(m <= m - 1)
    BY <2>2, <2>3, MaxHopsIsNat
  <2>5. n + m \in 1..MaxOrigins /\ (n + m) - 1 = n + (m - 1)
    BY <2>4, MaxHopsIsNat, MaxOriginsIsNat
  <2>6. h[m - 1] \in o[n + (m - 1)]
    BY <2>1, <2>4
  <2>7. h[m] = Hop("outputs", h[m - 1])
    BY <1>1, <2>4 DEF Hops
  <2>8. o[n + m] = o[n + (m - 1)] \cup UNION {StandsFor(x) : x \in o[n + (m - 1)]}
    BY <1>2, <2>5
  <2>9. h[m] \in o[n + m]
    BY <1>3, <2>6, <2>7, <2>8
  <2> QED
    BY <2>2, <2>9
<1>5. MaxHops \in 0..MaxHops
  BY MaxHopsIsNat
<1> QED
  BY <1>1, <1>4, <1>5 DEF o

\* What an edge leads from is one of its origins.
LEMMA FromIsReached ==
  ASSUME NEW e
  PROVE  From(e) \in Origins(e)[MaxHops] /\ From(e) \in Reached(e)
<1>1. 0 \in 0..MaxOrigins /\ 0 + MaxHops \in 0..MaxOrigins /\ 0 + MaxHops = MaxHops
  BY MaxHopsIsNat, MaxOriginsIsNat
<1>2. <<e.src, e.src_port>> \in Origins(e)[0]
  BY OriginsWiden DEF Widens
<1>3. From(e) \in Origins(e)[MaxHops]
  BY <1>1, <1>2, ResolvedIsReached DEF From
<1> DEFINE o == Origins(e)
           Bad == {k \in 0..MaxOrigins : MaxHops <= k /\ From(e) \notin o[k]}
<1>4. \A k \in 1..MaxOrigins : o[k] = o[k - 1] \cup UNION {StandsFor(x) : x \in o[k - 1]}
  BY OriginsWiden DEF Widens
<1> HIDE DEF o
<1>5. Bad = {}
  <2> SUFFICES ASSUME Bad # {} PROVE FALSE
    OBVIOUS
  <2> DEFINE m == Min(Bad)
  <2>1. m \in Bad /\ \A y \in Bad : m <= y
    <3>1. Bad \in SUBSET Nat
      OBVIOUS
    <3> QED
      BY <3>1, LeastIsIn
  <2> HIDE DEF m
  <2>2. m \in 0..MaxOrigins /\ MaxHops <= m /\ From(e) \notin o[m]
    BY <2>1
  <2>3. m # MaxHops
    BY <1>3, <2>2 DEF o
  <2>4. m \in 1..MaxOrigins /\ m - 1 \in 0..MaxOrigins /\ ~(m <= m - 1) /\ MaxHops <= m - 1
    BY <2>2, <2>3, MaxHopsIsNat, MaxOriginsIsNat
  <2>5. From(e) \in o[m - 1]
    BY <2>1, <2>4
  <2>6. From(e) \in o[m]
    BY <1>4, <2>4, <2>5
  <2> QED
    BY <2>2, <2>6
<1>6. MaxOrigins \in 0..MaxOrigins /\ MaxHops <= MaxOrigins
  BY MaxHopsIsNat, MaxOriginsIsNat
<1>7. From(e) \in o[MaxOrigins]
  BY <1>5, <1>6
<1> QED
  BY <1>3, <1>7 DEF Reached, o

\* What a disabled node that it leads from is fed by is another.
LEMMA BypassedIsReached ==
  ASSUME NEW e, NEW g \in Drawn, Into(g)[1] = From(e)[1],
         NEW l \in levels, NEW m \in DOMAIN l.nodes,
         From(e)[1] = Append(l.prefix, m), l.nodes[m].disabled
  PROVE  From(g) \in Reached(e)
<1> DEFINE x == <<g.src, g.src_port>>
           k == MaxHops + 1
<1>1. /\ k \in 1..MaxOrigins /\ k \in 0..MaxOrigins /\ k - 1 = MaxHops
      /\ k + MaxHops \in 0..MaxOrigins /\ k + MaxHops = MaxOrigins
  BY MaxHopsIsNat, MaxOriginsIsNat
<1>2. x \in StandsFor(From(e))
  BY DEF StandsFor
<1>3. Origins(e)[k] = Origins(e)[k - 1] \cup UNION {StandsFor(y) : y \in Origins(e)[k - 1]}
  BY <1>1, OriginsWiden DEF Widens
<1>4. x \in Origins(e)[k]
  BY <1>1, <1>2, <1>3, FromIsReached
<1> HIDE DEF k
<1>5. From(g) \in Origins(e)[k + MaxHops]
  BY <1>1, <1>4, ResolvedIsReached DEF From
<1> QED
  BY <1>1, <1>5 DEF Reached

-----------------------------------------------------------------------------
(* GraphCompile: inlining *)

\* An id is a sequence, whatever of.
IsId(p) == \E S : p \in Seq(S)

\* Whether a node of a body is an instance to inline.
Opens(l, m) == l.nodes[m].type \in SubgraphTypes /\ ~l.nodes[m].disabled

\* Every body but the document's, and every node, is that of one node of one body
\* visited already, and the two are told apart by what that node is.
Inlined ==
  /\ todo \subseteq levels /\ \A l \in levels : IsId(l.prefix)
  /\ \A l, k \in levels : l.prefix = k.prefix => l = k
  /\ \A l \in levels : l.prefix # <<>> =>
       \E k \in levels \ todo : \E m \in DOMAIN k.nodes :
         l.prefix = Append(k.prefix, m) /\ Opens(k, m)
  /\ \A n \in DOMAIN nodes :
       \E k \in levels \ todo : \E m \in DOMAIN k.nodes :
         n = Append(k.prefix, m) /\ nodes[n] = k.nodes[m] /\ ~Opens(k, m)

\* The edges that end at an instance, and what becomes of the others.
Lost(e) == From(e)[1] \in Instances \/ Into(e)[1] \in Instances
Carried(e) == [id |-> e.id, src |-> From(e)[1], src_port |-> From(e)[2],
               dst |-> Into(e)[1], dst_port |-> Into(e)[2]]

\* All the edges drawn are there, or reported.
EdgesResolved ==
  stage = "bypass" =>
    /\ edges = {Carried(e) : e \in {d \in Drawn : ~Lost(d)}}
    /\ \A e \in Drawn : Lost(e) => <<e.dst, "unknown_port">> \in errors

\* Of a drawn edge: the node it leads to is out or at fault, or an edge is left that leads
\* there from where the drawn one comes; or the first of two instances had no such output.
Arriving ==
  stage \in {"types", "wire"} \cup SortStages =>
    \A e \in Drawn :
      \/ Into(e)[1] \notin DOMAIN nodes
      \/ Into(e)[1] \in Failed
      \/ {e.src, e.dst} \subseteq Instances /\ <<e.dst, "unknown_port">> \in errors
      \/ \E d \in edges : /\ d.dst = Into(e)[1] /\ d.dst_port = Into(e)[2]
                          /\ <<d.src, d.src_port>> \in Reached(e)

\* An edge that left no wire has made the node it leads to fail, or follows one that has.
Settled(d) ==
  \/ d.dst \notin DOMAIN nodes
  \/ d.dst \in Failed
  \/ /\ d.src \in upstream_failed[d.dst]
     /\ \/ d.src \in Failed
        \/ /\ d.dst_port \in DOMAIN wired[d.dst]
           /\ wired[d.dst][d.dst_port] = <<d.src, d.src_port>>

\* So it is of every edge the wiring has visited.
Delivered ==
  stage \in {"wire"} \cup SortStages =>
    /\ stage \in SortStages => unwired = {}
    /\ \A d \in edges \ unwired : Settled(d)

LEMMA AppendIsId ==
  ASSUME NEW p, IsId(p), NEW a
  PROVE  IsId(Append(p, a)) /\ Append(p, a) # <<>> /\ Append(p, a)[Len(Append(p, a))] = a
<1>1. PICK S : p \in Seq(S)
  BY DEF IsId
<1> DEFINE T == S \cup {a}
<1>2. p \in Seq(T) /\ a \in T
  BY <1>1
<1> HIDE DEF T
<1>3. /\ Append(p, a) \in Seq(T) /\ Len(Append(p, a)) = Len(p) + 1
      /\ Append(p, a)[Len(p) + 1] = a
  BY <1>2, AppendProperties
<1>4. Append(p, a) # <<>>
  BY <1>2, AppendProperties
<1> QED
  BY <1>3, <1>4 DEF IsId

LEMMA AppendsDiffer ==
  ASSUME NEW p, IsId(p), NEW q, IsId(q), NEW a, NEW b, Append(p, a) = Append(q, b)
  PROVE  p = q /\ a = b
<1>1. PICK S : p \in Seq(S)
  BY DEF IsId
<1>2. PICK T : q \in Seq(T)
  BY DEF IsId
<1> DEFINE U == (S \cup T) \cup {a, b}
<1>3. p \in Seq(U) /\ q \in Seq(U) /\ a \in U /\ b \in U
  BY <1>1, <1>2
<1> HIDE DEF U
<1>4. /\ Len(Append(p, a)) = Len(p) + 1 /\ Append(p, a)[Len(p) + 1] = a
      /\ \A i \in 1..Len(p) : Append(p, a)[i] = p[i]
  BY <1>3, AppendProperties
<1>5. /\ Len(Append(q, b)) = Len(q) + 1 /\ Append(q, b)[Len(q) + 1] = b
      /\ \A i \in 1..Len(q) : Append(q, b)[i] = q[i]
  BY <1>3, AppendProperties
<1>6. Len(p) \in Nat /\ Len(q) \in Nat
  BY <1>3, LenProperties
<1>7. Len(p) = Len(q)
  BY <1>4, <1>5, <1>6
<1>8. \A i \in 1..Len(p) : p[i] = q[i]
  BY <1>4, <1>5, <1>7
<1> QED
  BY <1>3, <1>4, <1>5, <1>7, <1>8, SeqEqual

\* No node is an instance.
LEMMA NodesAreNoInstances ==
  ASSUME Inlined, NEW n \in DOMAIN nodes
  PROVE  n \notin Instances
<1> SUFFICES ASSUME n \in Instances PROVE FALSE
  OBVIOUS
<1>1. PICK l \in levels : l.prefix = n /\ n # <<>>
  BY DEF Instances
<1>2. PICK k \in levels \ todo : \E m \in DOMAIN k.nodes : n = Append(k.prefix, m) /\ Opens(k, m)
  BY <1>1 DEF Inlined
<1>3. PICK m \in DOMAIN k.nodes : n = Append(k.prefix, m) /\ Opens(k, m)
  BY <1>2
<1>4. PICK j \in levels \ todo : \E i \in DOMAIN j.nodes : n = Append(j.prefix, i) /\ ~Opens(j, i)
  BY DEF Inlined
<1>5. PICK i \in DOMAIN j.nodes : n = Append(j.prefix, i) /\ ~Opens(j, i)
  BY <1>4
<1>6. IsId(j.prefix) /\ IsId(k.prefix) /\ Append(j.prefix, i) = Append(k.prefix, m)
  BY <1>3, <1>5 DEF Inlined
<1>7. j.prefix = k.prefix /\ i = m
  BY <1>6, AppendsDiffer
<1>8. j = k
  BY <1>7 DEF Inlined
<1> QED
  BY <1>3, <1>5, <1>7, <1>8

LEMMA FlattenKeepsInlined ==
  ASSUME Inlined, NEW level \in todo, Flatten(level)
  PROVE  Inlined'
<1> DEFINE here == DOMAIN level.nodes
           Full(n) == Append(level.prefix, n)
           Sg(n) == Subgraphs[level.nodes[n].type]
           instances == {n \in here : level.nodes[n].type \in SubgraphTypes /\ ~level.nodes[n].disabled}
           plain == {Full(n) : n \in here \ instances}
           unknown == {n \in instances : level.nodes[n].type \notin DOMAIN Subgraphs}
           tooDeep == IF Len(level.prefix) >= MAX_SUBGRAPH_DEPTH THEN instances \ unknown ELSE {}
           opened == instances \ (unknown \cup tooDeep)
           Body(n) == [prefix |-> Full(n), nodes |-> InstanceBody(Sg(n), level.nodes[n]),
                       edges |-> Sg(n).edges, inputs |-> InstanceInputs(Sg(n), level.nodes[n]),
                       outputs |-> Sg(n).outputs]
           inner == {Body(n) : n \in opened}
<1>1. /\ nodes' = [id \in plain \cup DOMAIN nodes |->
                     IF id \in plain THEN level.nodes[id[Len(id)]] ELSE nodes[id]]
      /\ levels' = levels \cup inner
      /\ todo' = (todo \ {level}) \cup inner
  BY DEF Flatten
<1>2. \A n \in opened : n \in here /\ Opens(level, n) /\ Body(n).prefix = Full(n)
  BY DEF Opens
<1>3. \A n \in here \ instances : ~Opens(level, n)
  BY DEF Opens
<1> HIDE DEF instances, unknown, tooDeep, opened, Sg
<1>4. /\ level \in levels /\ todo \subseteq levels /\ IsId(level.prefix)
      /\ \A l \in levels : IsId(l.prefix)
      /\ \A l, k \in levels : l.prefix = k.prefix => l = k
  BY DEF Inlined
<1>5. \A n \in here : IsId(Full(n)) /\ Full(n) # <<>> /\ Full(n)[Len(Full(n))] = n
  BY <1>4, AppendIsId
<1>6. \A n, m \in here : Full(n) = Full(m) => n = m
  BY <1>4, AppendsDiffer
\* What was inlined before is not inside of this body.
<1>7. ASSUME NEW k \in levels \ todo, NEW m, NEW n \in here, Append(k.prefix, m) = Full(n)
      PROVE  FALSE
  <2>1. k.prefix = level.prefix
    BY <1>4, <1>7, AppendsDiffer
  <2> QED
    BY <1>4, <1>7, <2>1
<1>8. ASSUME NEW l \in levels, NEW n \in here, l.prefix = Full(n)
      PROVE  FALSE
  <2>1. PICK k \in levels \ todo : \E m \in DOMAIN k.nodes : l.prefix = Append(k.prefix, m)
    BY <1>5, <1>8 DEF Inlined
  <2>2. PICK m \in DOMAIN k.nodes : l.prefix = Append(k.prefix, m)
    BY <2>1
  <2> QED
    BY <1>7, <1>8, <2>2
<1> HIDE DEF Full
<1>9. \A l \in inner : \E n \in opened : l = Body(n) /\ l.prefix = Full(n) /\ n \in here
  BY <1>2
<1>10. level \notin inner
  <2>1. \A n \in here : level.prefix # Full(n)
    BY <1>4, <1>8
  <2> QED
    BY <1>9, <2>1
<1>11. \A k \in levels \ todo : k \in levels' \ todo'
  <2>1. ASSUME NEW k \in levels \ todo PROVE k \notin inner
    BY <1>8, <1>9
  <2> QED
    BY <1>1, <2>1
<1>12. level \in levels' \ todo'
  BY <1>1, <1>4, <1>10
<1> HIDE DEF Body
<1>13. todo' \subseteq levels' /\ \A l \in levels' : IsId(l.prefix)
  BY <1>1, <1>4, <1>5, <1>9
<1>14. ASSUME NEW l \in levels', NEW k \in levels', l.prefix = k.prefix PROVE l = k
  <2>1. CASE l \in levels /\ k \in levels
    BY <1>4, <1>14, <2>1
  <2>2. CASE l \in levels /\ k \in inner
    BY <1>8, <1>9, <1>14, <2>2
  <2>3. CASE l \in inner /\ k \in levels
    BY <1>8, <1>9, <1>14, <2>3
  <2>4. CASE l \in inner /\ k \in inner
    <3>1. PICK n \in opened : l = Body(n) /\ l.prefix = Full(n) /\ n \in here
      BY <1>9, <2>4
    <3>2. PICK m \in opened : k = Body(m) /\ k.prefix = Full(m) /\ m \in here
      BY <1>9, <2>4
    <3>3. n = m
      BY <1>6, <1>14, <3>1, <3>2
    <3> QED
      BY <3>1, <3>2, <3>3
  <2> QED
    BY <1>1, <2>1, <2>2, <2>3, <2>4
<1> HIDE DEF inner
<1>15. ASSUME NEW l \in levels', l.prefix # <<>>
       PROVE  \E k \in levels' \ todo' : \E m \in DOMAIN k.nodes :
                l.prefix = Append(k.prefix, m) /\ Opens(k, m)
  <2>1. CASE l \in levels
    <3>1. \E k \in levels \ todo : \E m \in DOMAIN k.nodes :
            l.prefix = Append(k.prefix, m) /\ Opens(k, m)
      BY <1>15, <2>1 DEF Inlined
    <3> QED
      BY <1>11, <3>1
  <2>2. CASE l \in inner
    <3>1. PICK n \in opened : l.prefix = Full(n) /\ n \in here
      BY <1>9, <2>2
    <3>2. l.prefix = Append(level.prefix, n) /\ Opens(level, n)
      BY <1>2, <3>1 DEF Full
    <3> QED
      BY <1>12, <3>1, <3>2
  <2> QED
    BY <1>1, <2>1, <2>2
<1>16. ASSUME NEW n \in DOMAIN nodes'
       PROVE  \E k \in levels' \ todo' : \E m \in DOMAIN k.nodes :
                n = Append(k.prefix, m) /\ nodes'[n] = k.nodes[m] /\ ~Opens(k, m)
  <2>1. CASE n \in plain
    <3>1. PICK m \in here \ instances : n = Full(m)
      BY <2>1
    <3>2. nodes'[n] = level.nodes[m]
      BY <1>1, <1>5, <2>1, <3>1
    <3>3. n = Append(level.prefix, m) /\ ~Opens(level, m)
      BY <1>3, <3>1 DEF Full
    <3> QED
      BY <1>12, <3>1, <3>2, <3>3
  <2>2. CASE n \notin plain
    <3>1. n \in DOMAIN nodes /\ nodes'[n] = nodes[n]
      BY <1>1, <2>2
    <3>2. \E k \in levels \ todo : \E m \in DOMAIN k.nodes :
            n = Append(k.prefix, m) /\ nodes[n] = k.nodes[m] /\ ~Opens(k, m)
      BY <3>1 DEF Inlined
    <3> QED
      BY <1>11, <3>1, <3>2
  <2> QED
    BY <2>1, <2>2
<1>17. \A k, m : Opens(k, m)' <=> Opens(k, m)
  BY DEF Opens
<1> QED
  BY <1>13, <1>14, <1>15, <1>16 DEF Inlined, Opens

LEMMA InlinedKept ==
  ASSUME Inlined, UNCHANGED <<levels, todo>>, DOMAIN nodes' \subseteq DOMAIN nodes,
         \A n \in DOMAIN nodes' : nodes'[n] = nodes[n]
  PROVE  Inlined'
<1>1. \A k, m : Opens(k, m)' <=> Opens(k, m)
  BY DEF Opens
<1>2. ASSUME NEW n \in DOMAIN nodes'
      PROVE  \E k \in levels \ todo : \E m \in DOMAIN k.nodes :
               n = Append(k.prefix, m) /\ nodes'[n] = k.nodes[m] /\ ~Opens(k, m)
  BY DEF Inlined
<1> QED
  BY <1>1, <1>2 DEF Inlined

LEMMA InlinedStep ==
  ASSUME Inlined, [CompileNext]_compileVars
  PROVE  Inlined'
<1> USE DEF flat, wiring, sorting, result
<1>1. ASSUME NEW level \in todo, Flatten(level) PROVE Inlined'
  BY <1>1, FlattenKeepsInlined
<1>2. CASE ResolveEdges
  BY <1>2, InlinedKept DEF ResolveEdges
<1>3. CASE Bypass
  <2>1. UNCHANGED <<levels, todo>> /\ nodes' = [n \in DOMAIN nodes \ Disabled |-> nodes[n]]
    BY <1>3 DEF Bypass
  <2> QED
    BY <2>1, InlinedKept
<1>4. CASE FindTypes
  BY <1>4, InlinedKept DEF FindTypes
<1>5. ASSUME NEW e \in unwired, Dangle(e) \/ Wire(e) PROVE Inlined'
  BY <1>5, InlinedKept DEF Dangle, Wire
<1>6. CASE CheckInputs
  BY <1>6, InlinedKept DEF CheckInputs
<1>7. ASSUME NEW n \in visiting, Seed(n) \/ Release(n) PROVE Inlined'
  BY <1>7, InlinedKept DEF Seed, Release
<1>8. CASE Pop \/ EndSort
  BY <1>8, InlinedKept DEF Pop, EndSort
<1>9. CASE Admit \/ Return
  BY <1>9, InlinedKept DEF Admit, Return
<1>10. CASE UNCHANGED compileVars
  BY <1>10, InlinedKept DEF compileVars
<1> QED
  BY <1>1, <1>2, <1>3, <1>4, <1>5, <1>6, <1>7, <1>8, <1>9, <1>10 DEF CompileNext
-----------------------------------------------------------------------------
(* GraphCompile: the edges, from the drawing to the wires *)

LEMMA SameLevels ==
  ASSUME levels' = levels
  PROVE  /\ Instances' = Instances /\ Drawn' = Drawn
         /\ \A e : From(e)' = From(e) /\ Into(e)' = Into(e) /\ Reached(e)' = Reached(e)
<1>1. Instances' = Instances
  BY DEF Instances
<1>2. Drawn' = Drawn
  BY DEF Drawn
<1>3. \A x : Level(x)' = Level(x)
  BY DEF Level
<1>4. ASSUME NEW side, NEW x PROVE Resolve(side, x)' = Resolve(side, x)
  BY <1>1, <1>3 DEF Resolve
<1>5. \A e : From(e)' = From(e) /\ Into(e)' = Into(e)
  BY <1>4 DEF From, Into
<1>6. \A x : StandsFor(x)' = StandsFor(x)
  BY <1>2, <1>5 DEF StandsFor
<1>7. ASSUME NEW e PROVE Reached(e)' = Reached(e)
  BY DEF Reached, Origins, StandsFor, Drawn, Into, Resolve, Instances, Level
<1> QED
  BY <1>1, <1>2, <1>5, <1>7

LEMMA ResolveEdgesResolves ==
  ASSUME ResolveEdges
  PROVE  EdgesResolved'
<1>1. levels' = levels
  BY DEF ResolveEdges
<1>2. /\ edges' = {Carried(e) : e \in {d \in Drawn : ~Lost(d)}}
      /\ \A e \in Drawn : Lost(e) => <<e.dst, "unknown_port">> \in errors'
  BY DEF ResolveEdges, Carried, Lost
<1>3. Drawn' = Drawn /\ \A e : (Lost(e)' <=> Lost(e)) /\ Carried(e)' = Carried(e)
  BY <1>1, SameLevels DEF Lost, Carried
<1> QED
  BY <1>2, <1>3 DEF EdgesResolved

LEMMA PassedOnIsFed ==
  ASSUME NEW incoming, NEW n, NEW port, NEW f \in PassedOn(incoming, n, port)
  PROVE  f \in incoming /\ f.dst = n
<1> DEFINE spec == Registry[nodes[n].type]
           Fed(i) == {e \in incoming : e.dst = n /\ e.dst_port = spec.inputs[i].name}
           fits == {i \in DOMAIN spec.inputs :
                      Fed(i) # {} /\ IsCompatible(spec.inputs[i].type, spec.outputs[port])}
           all == UNION {Fed(i) : i \in {j \in fits : \A k \in fits : j <= k}}
<1>1. \A i : \A e \in Fed(i) : e \in incoming /\ e.dst = n
  OBVIOUS
<1>2. PassedOn(incoming, n, port) \in {{}, all}
  BY DEF PassedOn
<1> HIDE DEF Fed, fits
<1> QED
  BY <1>1, <1>2

LEMMA RewrittenEdge ==
  ASSUME NEW e, NEW s, NEW p
  PROVE  LET r == Carried(e)
             d == [r EXCEPT !.src = s, !.src_port = p]
         IN  d.dst = r.dst /\ d.dst_port = r.dst_port /\ d.src = s /\ d.src_port = p
BY DEF Carried

LEMMA BypassArrives ==
  ASSUME Inlined, EdgesResolved, Bypass
  PROVE  Arriving'
<1> USE DEF flat
<1> DEFINE kept == {e \in edges : e.dst \notin Disabled}
           cut == {e \in kept : e.src \in Disabled}
           Rewritten(e, f) == [e EXCEPT !.src = f.src, !.src_port = f.src_port]
<1>1. PICK incoming \in SUBSET {e \in edges : e.dst \in Disabled} :
        LET Via(e) == PassedOn(incoming, e.src, e.src_port)
        IN  /\ edges' = (kept \ cut) \cup UNION {{Rewritten(e, f) : f \in Via(e)} : e \in cut}
            /\ errors' = errors \cup {<<e.dst, "upstream_disabled">> : e \in {c \in cut : Via(c) = {}}}
  BY DEF Bypass
<1>2. ASSUME NEW x \in edges, x.dst \notin Disabled
      PROVE  /\ x.src \notin Disabled => x \in edges'
             /\ x.src \in Disabled =>
                  /\ \A f \in PassedOn(incoming, x.src, x.src_port) : Rewritten(x, f) \in edges'
                  /\ PassedOn(incoming, x.src, x.src_port) = {} =>
                       <<x.dst, "upstream_disabled">> \in errors'
  <2>1. x \in kept /\ (x \in cut <=> x.src \in Disabled)
    BY <1>2
  <2> HIDE DEF kept, cut, Rewritten
  <2>2. x \notin cut => x \in edges'
    BY <1>1, <2>1
  <2>3. x \in cut => \A f \in PassedOn(incoming, x.src, x.src_port) : Rewritten(x, f) \in edges'
    BY <1>1
  <2>4. x \in cut /\ PassedOn(incoming, x.src, x.src_port) = {} =>
          <<x.dst, "upstream_disabled">> \in errors'
    BY <1>1
  <2> QED
    BY <2>1, <2>2, <2>3, <2>4
<1> HIDE DEF kept, cut
<1>3. /\ stage = "bypass" /\ levels' = levels
      /\ nodes' = [n \in DOMAIN nodes \ Disabled |-> nodes[n]]
  BY DEF Bypass
<1>4. /\ Drawn' = Drawn /\ Instances' = Instances
      /\ \A e : From(e)' = From(e) /\ Into(e)' = Into(e) /\ Reached(e)' = Reached(e)
  BY <1>3, SameLevels
<1>5. /\ edges = {Carried(e) : e \in {d \in Drawn : ~Lost(d)}}
      /\ \A e \in Drawn : Lost(e) => <<e.dst, "unknown_port">> \in errors
  BY <1>3 DEF EdgesResolved
<1>6. errors \subseteq errors' /\ DOMAIN nodes' = DOMAIN nodes \ Disabled
  BY <1>1, <1>3
<1> SUFFICES ASSUME NEW e \in Drawn
             PROVE  \/ Into(e)[1] \notin DOMAIN nodes'
                    \/ Into(e)[1] \in Failed'
                    \/ {e.src, e.dst} \subseteq Instances /\ <<e.dst, "unknown_port">> \in errors'
                    \/ \E d \in edges' : /\ d.dst = Into(e)[1] /\ d.dst_port = Into(e)[2]
                                         /\ <<d.src, d.src_port>> \in Reached(e)
  BY <1>4 DEF Arriving
<1>7. CASE Lost(e)
  <2>1. <<e.dst, "unknown_port">> \in errors'
    BY <1>5, <1>6, <1>7
  <2>2. CASE Into(e)[1] \in Instances
    BY <1>6, <2>2, NodesAreNoInstances
  <2>3. CASE From(e)[1] \in Instances
    <3>1. e.src \in Instances
      <4>1. e.src \notin Instances => From(e) = <<e.src, e.src_port>>
        BY ResolveStays DEF From
      <4> QED
        BY <2>3, <4>1
    <3>2. CASE e.dst \in Instances
      BY <2>1, <3>1, <3>2
    <3>3. CASE e.dst \notin Instances
      <4>1. Into(e) = <<e.dst, e.dst_port>>
        BY <3>3, ResolveStays DEF Into
      <4>2. e.dst \in Failed'
        BY <2>1 DEF Failed
      <4> QED
        BY <4>1, <4>2
    <3> QED
      BY <3>2, <3>3
  <2> QED
    BY <1>7, <2>2, <2>3 DEF Lost
<1>8. CASE ~Lost(e)
  <2> DEFINE r == Carried(e)
  <2>1. /\ r \in edges /\ r.src = From(e)[1] /\ r.src_port = From(e)[2]
        /\ r.dst = Into(e)[1] /\ r.dst_port = Into(e)[2]
    BY <1>5, <1>8 DEF Carried
  <2>2. From(e) = <<From(e)[1], From(e)[2]>>
    BY ResolveIsPair DEF From
  <2>3. CASE r.dst \in Disabled
    BY <1>6, <2>1, <2>3
  <2>4. CASE r.dst \notin Disabled /\ r.src \notin Disabled
    <3>1. r \in edges'
      BY <1>2, <2>1, <2>4
    <3>2. From(e) \in Reached(e)
      BY FromIsReached
    <3> QED
      BY <2>1, <2>2, <3>1, <3>2
  <2>5. CASE r.dst \notin Disabled /\ r.src \in Disabled
    <3> DEFINE via == PassedOn(incoming, r.src, r.src_port)
    <3>1. CASE via = {}
      <4>1. <<r.dst, "upstream_disabled">> \in errors'
        BY <1>2, <2>1, <2>5, <3>1
      <4>2. r.dst \in Failed'
        BY <4>1 DEF Failed
      <4> QED
        BY <2>1, <4>2
    <3>2. CASE via # {}
      <4>1. PICK f \in via : TRUE
        BY <3>2
      <4> DEFINE d == [r EXCEPT !.src = f.src, !.src_port = f.src_port]
      <4>2. d \in edges'
        BY <1>2, <2>1, <2>5, <4>1
      <4>3. f \in edges /\ f.dst = r.src
        BY <4>1, PassedOnIsFed
      <4>4. PICK g \in Drawn : ~Lost(g) /\ f = Carried(g)
        BY <1>5, <4>3
      <4>5. f.src = From(g)[1] /\ f.src_port = From(g)[2] /\ Into(g)[1] = From(e)[1]
        BY <2>1, <4>3, <4>4 DEF Carried
      <4>6. r.src \in DOMAIN nodes /\ nodes[r.src].disabled
        BY <2>5 DEF Disabled
      <4>7. PICK l \in levels : \E m \in DOMAIN l.nodes :
              r.src = Append(l.prefix, m) /\ nodes[r.src] = l.nodes[m]
        BY <4>6 DEF Inlined
      <4>8. PICK m \in DOMAIN l.nodes : r.src = Append(l.prefix, m) /\ nodes[r.src] = l.nodes[m]
        BY <4>7
      <4>9. From(e)[1] = Append(l.prefix, m) /\ l.nodes[m].disabled
        BY <2>1, <4>6, <4>8
      <4>10. From(g) \in Reached(e)
        BY <4>5, <4>9, BypassedIsReached
      <4>11. From(g) = <<From(g)[1], From(g)[2]>>
        BY ResolveIsPair DEF From
      <4>12. d.dst = r.dst /\ d.dst_port = r.dst_port /\ d.src = f.src /\ d.src_port = f.src_port
        BY RewrittenEdge
      <4>13. d.dst = Into(e)[1] /\ d.dst_port = Into(e)[2] /\ <<d.src, d.src_port>> \in Reached(e)
        BY <2>1, <4>5, <4>10, <4>11, <4>12
      <4> QED
        BY <4>2, <4>13
    <3> QED
      BY <3>1, <3>2
  <2> QED
    BY <2>3, <2>4, <2>5
<1> QED
  BY <1>7, <1>8

LEMMA EdgesResolvedStep ==
  ASSUME EdgesResolved, [CompileNext]_compileVars
  PROVE  EdgesResolved'
<1>1. ASSUME NEW level \in todo, Flatten(level) PROVE EdgesResolved'
  BY <1>1 DEF Flatten, EdgesResolved
<1>2. CASE ResolveEdges
  BY <1>2, ResolveEdgesResolves
<1>3. CASE Bypass \/ FindTypes
  BY <1>3 DEF Bypass, FindTypes, EdgesResolved
<1>4. ASSUME NEW e \in unwired, Dangle(e) \/ Wire(e) PROVE EdgesResolved'
  BY <1>4 DEF Dangle, Wire, EdgesResolved
<1>5. CASE CheckInputs
  BY <1>5 DEF CheckInputs, EdgesResolved
<1>6. ASSUME NEW n \in visiting, Seed(n) \/ Release(n) PROVE EdgesResolved'
  BY <1>6 DEF Seed, Release, EdgesResolved
<1>7. CASE Pop \/ EndSort
  BY <1>7 DEF Pop, EndSort, EdgesResolved
<1>8. CASE Admit \/ Return
  BY <1>8 DEF Admit, Return, EdgesResolved
<1>9. CASE UNCHANGED compileVars
  <2>1. UNCHANGED <<stage, levels, edges, errors>>
    BY <1>9 DEF compileVars, flat
  <2>2. Drawn' = Drawn /\ \A e : (Lost(e)' <=> Lost(e)) /\ Carried(e)' = Carried(e)
    BY <2>1, SameLevels DEF Lost, Carried
  <2> QED
    BY <2>1, <2>2 DEF EdgesResolved
<1> QED
  BY <1>1, <1>2, <1>3, <1>4, <1>5, <1>6, <1>7, <1>8, <1>9 DEF CompileNext

LEMMA ArrivingKept ==
  ASSUME Arriving, stage \in {"types", "wire"} \cup SortStages,
         UNCHANGED <<levels, nodes, edges>>, errors \subseteq errors'
  PROVE  Arriving'
<1>1. /\ Drawn' = Drawn /\ Instances' = Instances
      /\ \A e : Into(e)' = Into(e) /\ Reached(e)' = Reached(e)
  BY SameLevels
<1>2. Failed \subseteq Failed'
  BY DEF Failed
<1> SUFFICES ASSUME NEW e \in Drawn
             PROVE  \/ Into(e)[1] \notin DOMAIN nodes
                    \/ Into(e)[1] \in Failed'
                    \/ {e.src, e.dst} \subseteq Instances /\ <<e.dst, "unknown_port">> \in errors'
                    \/ \E d \in edges : /\ d.dst = Into(e)[1] /\ d.dst_port = Into(e)[2]
                                        /\ <<d.src, d.src_port>> \in Reached(e)
  BY <1>1 DEF Arriving
<1>3. \/ Into(e)[1] \notin DOMAIN nodes
      \/ Into(e)[1] \in Failed
      \/ {e.src, e.dst} \subseteq Instances /\ <<e.dst, "unknown_port">> \in errors
      \/ \E d \in edges : /\ d.dst = Into(e)[1] /\ d.dst_port = Into(e)[2]
                          /\ <<d.src, d.src_port>> \in Reached(e)
  BY DEF Arriving
<1> QED
  BY <1>2, <1>3

LEMMA ArrivingStep ==
  ASSUME Untouched, Inlined, EdgesResolved, Arriving, [CompileNext]_compileVars
  PROVE  Arriving'
<1>0. errors \subseteq errors'
  BY FailedGrows
<1> USE DEF flat, wiring, sorting, result
<1>1. ASSUME NEW level \in todo, Flatten(level) PROVE Arriving'
  BY <1>1 DEF Flatten, Arriving, SortStages
<1>2. CASE ResolveEdges
  BY <1>2 DEF ResolveEdges, Arriving, SortStages
<1>3. CASE Bypass
  BY <1>3, BypassArrives
<1>4. CASE FindTypes
  BY <1>0, <1>4, ArrivingKept DEF FindTypes
<1>5. ASSUME NEW e \in unwired, Dangle(e) \/ Wire(e) PROVE Arriving'
  BY <1>0, <1>5, ArrivingKept DEF Dangle, Wire
<1>6. CASE CheckInputs
  BY <1>0, <1>6, ArrivingKept DEF CheckInputs
<1>7. ASSUME NEW n \in visiting, Seed(n) \/ Release(n) PROVE Arriving'
  BY <1>0, <1>7, ArrivingKept DEF Seed, Release, SortStages
<1>8. CASE Pop \/ EndSort
  BY <1>0, <1>8, ArrivingKept DEF Pop, EndSort, SortStages
<1>9. CASE Admit \/ Return
  BY <1>0, <1>9, ArrivingKept DEF Admit, Return, SortStages
<1>10. CASE UNCHANGED compileVars
  <2>1. UNCHANGED <<stage, levels, nodes, edges>>
    BY <1>10 DEF compileVars
  <2>2. CASE stage \in {"types", "wire"} \cup SortStages
    BY <1>0, <2>1, <2>2, ArrivingKept
  <2>3. CASE stage \notin {"types", "wire"} \cup SortStages
    BY <2>1, <2>3 DEF Arriving
  <2> QED
    BY <2>2, <2>3
<1> QED
  BY <1>1, <1>2, <1>3, <1>4, <1>5, <1>6, <1>7, <1>8, <1>9, <1>10 DEF CompileNext

LEMMA DeliveredKept ==
  ASSUME Delivered, stage \in {"wire"} \cup SortStages,
         stage' \in SortStages => stage \in SortStages \/ unwired = {},
         UNCHANGED <<nodes, edges, unwired, upstream_failed, wired>>, Failed \subseteq Failed'
  PROVE  Delivered'
<1>1. ASSUME NEW d \in edges \ unwired PROVE Settled(d)'
  <2>1. Settled(d)
    BY DEF Delivered, Settled
  <2> QED
    BY <2>1 DEF Settled
<1> QED
  BY <1>1 DEF Delivered, Settled

LEMMA DangleDelivers ==
  ASSUME Delivered, NEW e \in unwired, Dangle(e), Failed \subseteq Failed'
  PROVE  Delivered'
<1>1. /\ stage = "wire" /\ stage' = "wire" /\ unwired' = unwired \ {e}
      /\ UNCHANGED <<nodes, edges, upstream_failed, wired>>
      /\ {e.src, e.dst} \ DOMAIN nodes # {}
      /\ errors' = errors \cup {<<n, "dangling_edge">> : n \in {e.src, e.dst} \cap DOMAIN nodes}
  BY DEF Dangle, flat
<1>2. ASSUME NEW d \in edges \ unwired PROVE Settled(d)'
  <2>1. Settled(d)
    BY <1>1 DEF Delivered, Settled
  <2> QED
    BY <1>1, <2>1 DEF Settled
<1>3. Settled(e)'
  <2>1. CASE e.dst \notin DOMAIN nodes
    BY <1>1, <2>1 DEF Settled
  <2>2. CASE e.dst \in DOMAIN nodes
    <3>1. <<e.dst, "dangling_edge">> \in errors'
      BY <1>1, <2>2
    <3>2. e.dst \in Failed'
      BY <3>1 DEF Failed
    <3> QED
      BY <3>2 DEF Settled
  <2> QED
    BY <2>1, <2>2
<1>4. stage' \notin SortStages
  BY <1>1 DEF SortStages
<1>5. \A d \in edges' \ unwired' : Settled(d)'
  BY <1>1, <1>2, <1>3
<1> QED
  BY <1>4, <1>5 DEF Delivered, Settled

LEMMA WireDelivers ==
  ASSUME Wires, Delivered, NEW e \in unwired, Wire(e), Failed \subseteq Failed'
  PROVE  Delivered'
<1> DEFINE fits == {e.src, e.dst} \subseteq Defs /\ Issue(e) = "none"
           port == e.dst_port
           into == [p \in DOMAIN wired[e.dst] \cup {port} |->
                      IF p = port THEN <<e.src, e.src_port>> ELSE wired[e.dst][p]]
<1>1. /\ stage = "wire" /\ stage' = "wire" /\ unwired' = unwired \ {e}
      /\ UNCHANGED <<nodes, edges>>
      /\ e.src \in DOMAIN nodes /\ e.dst \in DOMAIN nodes
      /\ upstream_failed' = [upstream_failed EXCEPT ![e.dst] = @ \cup {e.src}]
  BY DEF Wire, flat
<1>2. /\ wired = [n \in DOMAIN nodes |-> wired[n]]
      /\ upstream_failed = [n \in DOMAIN nodes |-> upstream_failed[n]]
      /\ DOMAIN nodes \ Defs \subseteq Failed
  BY <1>1 DEF Wires
<1>3. \/ fits /\ wired' = [wired EXCEPT ![e.dst] = into]
      \/ ~fits /\ wired' = wired
  BY DEF Wire
<1>4. fits => port \notin DOMAIN wired[e.dst]
  BY DEF Issue
<1>5. /\ upstream_failed'[e.dst] = upstream_failed[e.dst] \cup {e.src}
      /\ \A n \in DOMAIN nodes : upstream_failed[n] \subseteq upstream_failed'[n]
  BY <1>1, <1>2
<1>6. CASE fits
  <2>1. /\ wired'[e.dst] = into
        /\ \A n \in DOMAIN nodes \ {e.dst} : wired'[n] = wired[n]
    BY <1>1, <1>2, <1>3, <1>6
  <2>2. DOMAIN into = DOMAIN wired[e.dst] \cup {port} /\ into[port] = <<e.src, e.src_port>>
    OBVIOUS
  <2>3. \A p \in DOMAIN wired[e.dst] : p \in DOMAIN into /\ into[p] = wired[e.dst][p]
    BY <1>4, <1>6
  <2> HIDE DEF into
  <2>4. ASSUME NEW d \in edges \ unwired PROVE Settled(d)'
    <3>1. Settled(d)
      BY <1>1 DEF Delivered, Settled
    <3>2. CASE d.dst \notin DOMAIN nodes \/ d.dst \in Failed
      BY <1>1, <3>2 DEF Settled
    <3>3. CASE d.dst \in DOMAIN nodes /\ d.dst \notin Failed
      <4>1. d.src \in upstream_failed'[d.dst]
        BY <1>5, <3>1, <3>3 DEF Settled
      <4>2. CASE d.src \in Failed
        BY <4>1, <4>2 DEF Settled
      <4>3. CASE d.src \notin Failed
        <5>1. /\ d.dst_port \in DOMAIN wired[d.dst]
              /\ wired[d.dst][d.dst_port] = <<d.src, d.src_port>>
          BY <3>1, <3>3, <4>3 DEF Settled
        <5>2. /\ d.dst_port \in DOMAIN wired'[d.dst]
              /\ wired'[d.dst][d.dst_port] = <<d.src, d.src_port>>
          <6>1. CASE d.dst = e.dst
            BY <2>1, <2>3, <5>1, <6>1
          <6>2. CASE d.dst # e.dst
            BY <2>1, <3>3, <5>1, <6>2
          <6> QED
            BY <6>1, <6>2
        <5> QED
          BY <4>1, <5>2 DEF Settled
      <4> QED
        BY <4>2, <4>3
    <3> QED
      BY <3>2, <3>3
  <2>5. Settled(e)'
    <3>1. e.src \in upstream_failed'[e.dst]
      BY <1>5
    <3>2. e.dst_port \in DOMAIN wired'[e.dst] /\ wired'[e.dst][e.dst_port] = <<e.src, e.src_port>>
      BY <2>1, <2>2
    <3> QED
      BY <3>1, <3>2 DEF Settled
  <2>6. \A d \in edges' \ unwired' : Settled(d)'
    BY <1>1, <2>4, <2>5
  <2>7. stage' \notin SortStages
    BY <1>1 DEF SortStages
  <2> QED
    BY <2>6, <2>7 DEF Delivered, Settled
<1>7. CASE ~fits
  <2>1. wired' = wired
    BY <1>3, <1>7
  <2>2. ASSUME NEW d \in edges \ unwired PROVE Settled(d)'
    <3>1. Settled(d)
      BY <1>1 DEF Delivered, Settled
    <3>2. CASE d.dst \notin DOMAIN nodes \/ d.dst \in Failed
      BY <1>1, <3>2 DEF Settled
    <3>3. CASE d.dst \in DOMAIN nodes /\ d.dst \notin Failed
      <4>1. d.src \in upstream_failed'[d.dst]
        BY <1>5, <3>1, <3>3 DEF Settled
      <4> QED
        BY <2>1, <3>1, <3>3, <4>1 DEF Settled
    <3> QED
      BY <3>2, <3>3
  <2>3. Settled(e)'
    <3>1. e.src \in upstream_failed'[e.dst]
      BY <1>5
    <3>2. CASE e.dst \notin Defs
      <4>1. e.dst \in Failed'
        BY <1>1, <1>2, <3>2
      <4> QED
        BY <4>1 DEF Settled
    <3>3. CASE e.src \notin Defs
      <4>1. e.src \in Failed'
        BY <1>1, <1>2, <3>3
      <4> QED
        BY <3>1, <4>1 DEF Settled
    <3>4. CASE {e.src, e.dst} \subseteq Defs
      <4>1. Issue(e) # "none"
        BY <1>7, <3>4
      <4>2. <<e.dst, Issue(e)>> \in errors'
        BY <3>4, <4>1 DEF Wire
      <4>3. e.dst \in Failed'
        BY <4>2 DEF Failed
      <4> QED
        BY <4>3 DEF Settled
    <3> QED
      BY <3>2, <3>3, <3>4
  <2>4. \A d \in edges' \ unwired' : Settled(d)'
    BY <1>1, <2>2, <2>3
  <2>5. stage' \notin SortStages
    BY <1>1 DEF SortStages
  <2> QED
    BY <2>4, <2>5 DEF Delivered, Settled
<1> QED
  BY <1>6, <1>7

LEMMA DeliveredStep ==
  ASSUME Untouched, Wires, Delivered, [CompileNext]_compileVars
  PROVE  Delivered'
<1>0. Failed \subseteq Failed'
  BY FailedGrows
<1> USE DEF flat, wiring, sorting, result
<1>1. ASSUME NEW level \in todo, Flatten(level) PROVE Delivered'
  BY <1>1 DEF Flatten, Delivered, SortStages
<1>2. CASE ResolveEdges \/ Bypass
  BY <1>2 DEF ResolveEdges, Bypass, Delivered, SortStages
<1>3. CASE FindTypes
  <2>1. stage' = "wire" /\ unwired' = edges /\ edges' = edges
    BY <1>3 DEF FindTypes
  <2> QED
    BY <2>1 DEF Delivered, SortStages
<1>4. ASSUME NEW e \in unwired, Dangle(e) PROVE Delivered'
  BY <1>0, <1>4, DangleDelivers
<1>5. ASSUME NEW e \in unwired, Wire(e) PROVE Delivered'
  BY <1>0, <1>5, WireDelivers
<1>6. CASE CheckInputs
  BY <1>0, <1>6, DeliveredKept DEF CheckInputs
<1>7. ASSUME NEW n \in visiting, Seed(n) \/ Release(n) PROVE Delivered'
  BY <1>0, <1>7, DeliveredKept DEF Seed, Release, SortStages
<1>8. CASE Pop \/ EndSort
  BY <1>0, <1>8, DeliveredKept DEF Pop, EndSort, SortStages
<1>9. CASE Admit \/ Return
  BY <1>0, <1>9, DeliveredKept DEF Admit, Return, SortStages
<1>10. CASE UNCHANGED compileVars
  <2>1. UNCHANGED <<stage, nodes, edges, unwired, upstream_failed, wired>>
    BY <1>10 DEF compileVars
  <2>2. CASE stage \in {"wire"} \cup SortStages
    BY <1>0, <2>1, <2>2, DeliveredKept
  <2>3. CASE stage \notin {"wire"} \cup SortStages
    BY <2>1, <2>3 DEF Delivered
  <2> QED
    BY <2>2, <2>3
<1> QED
  BY <1>1, <1>2, <1>3, <1>4, <1>5, <1>6, <1>7, <1>8, <1>9, <1>10 DEF CompileNext

LEMMA DeliveredMeansInputsArrive ==
  ASSUME Untouched, Wires, Sorting, OrderIsTopological, Assembly, Arriving, Delivered
  PROVE  InputsArrive
<1> SUFFICES ASSUME stage = "done", NEW e \in Drawn, Into(e)[1] \in Elements(graph),
                    ~({e.src, e.dst} \subseteq Instances /\ <<e.dst, "unknown_port">> \in errors)
             PROVE  /\ Into(e)[2] \in DOMAIN wired[Into(e)[1]]
                    /\ wired[Into(e)[1]][Into(e)[2]] \in {x \in Reached(e) : x[1] \in Elements(graph)}
  BY InputsArriveDef
<1> DEFINE n == Into(e)[1]
<1>1. stage \in SortStages
  BY DEF SortStages
<1>2. \A m \in Elements(graph) : m \in DOMAIN nodes
  <2>1. graph \in Seq(Defs)
    BY DEF Assembly, AfterSort
  <2> QED
    BY <2>1, ElementsAreEntries, ElementOfSeq, LenProperties DEF Defs, Elements
<1>3. n \in DOMAIN nodes
  BY <1>2
<1>4. \A m \in Elements(graph) : m \notin Failed /\ Leads(m) \subseteq Elements(graph)
  BY <1>2, AssembledIsWhatCanRun DEF GraphIsWhatCanRun
<1>5. n \notin Failed /\ Leads(n) \subseteq Elements(graph)
  BY <1>4
<1>6. PICK d \in edges : /\ d.dst = n /\ d.dst_port = Into(e)[2]
                         /\ <<d.src, d.src_port>> \in Reached(e)
  BY <1>1, <1>3, <1>5 DEF Arriving
<1>7. Settled(d)
  BY <1>1 DEF Delivered, Settled
<1> HIDE DEF n
<1>8. d.src \in upstream_failed[n]
  BY <1>3, <1>5, <1>6, <1>7 DEF Settled
<1>9. d.src \in Elements(graph) /\ d.src \notin Failed
  BY <1>4, <1>5, <1>8 DEF Leads
<1>10. Into(e)[2] \in DOMAIN wired[n] /\ wired[n][Into(e)[2]] = <<d.src, d.src_port>>
  BY <1>3, <1>5, <1>6, <1>7, <1>9 DEF Settled
<1> QED
  BY <1>6, <1>9, <1>10 DEF n

-----------------------------------------------------------------------------
(* GraphCompile: the theorems *)

CompileInv ==
  /\ Untouched /\ Wires /\ Sorting /\ OrderIsTopological /\ Assembly
  /\ Inlined /\ EdgesResolved /\ Arriving /\ Delivered

LEMMA CompileInvAlways == CompileSpec => []CompileInv
<1>1. CompileInit => CompileInv
  <2> SUFFICES ASSUME CompileInit PROVE CompileInv
    OBVIOUS
  <2> DEFINE root == [prefix |-> <<>>, nodes |-> doc.nodes, edges |-> doc.edges,
                      inputs |-> <<>>, outputs |-> <<>>]
  <2>1. /\ stage = "flatten" /\ queue = <<>> /\ order = <<>> /\ visiting = {}
        /\ admitted = 0 /\ graph = <<>> /\ blocked = {}
        /\ levels = {root} /\ todo = levels /\ nodes = <<>>
    BY DEF CompileInit
  <2>2. Untouched /\ Wires /\ Sorting /\ OrderIsTopological /\ Assembly
    BY <2>1 DEF Untouched, Wires, Sorting, OrderIsTopological, Assembly, SortStages, AfterSort
  <2>3. Inlined
    <3>1. IsId(<<>>)
      BY EmptySeq DEF IsId
    <3>2. \A l \in levels : l = root /\ l.prefix = <<>>
      BY <2>1
    <3>3. DOMAIN nodes = {}
      BY <2>1
    <3> HIDE DEF root
    <3> QED
      BY <2>1, <3>1, <3>2, <3>3 DEF Inlined
  <2>4. EdgesResolved /\ Arriving /\ Delivered
    BY <2>1 DEF EdgesResolved, Arriving, Delivered, SortStages
  <2> QED
    BY <2>2, <2>3, <2>4 DEF CompileInv
<1>2. CompileInv /\ [CompileNext]_compileVars => CompileInv'
  <2> SUFFICES ASSUME CompileInv, [CompileNext]_compileVars PROVE CompileInv'
    OBVIOUS
  <2>1. Untouched' /\ Wires' /\ Sorting'
    BY UntouchedStep, WiresStep, SortingStep DEF CompileInv
  <2>2. OrderIsTopological' /\ Assembly'
    BY <2>1, OrderStep, AssemblyStep DEF CompileInv
  <2>3. Inlined' /\ EdgesResolved'
    BY InlinedStep, EdgesResolvedStep DEF CompileInv
  <2>4. Arriving' /\ Delivered'
    BY ArrivingStep, DeliveredStep DEF CompileInv
  <2> QED
    BY <2>1, <2>2, <2>3, <2>4 DEF CompileInv
<1> QED
  BY <1>1, <1>2, PTL DEF CompileSpec

\* _topological: the order has every node once, and behind all the nodes its inputs come
\* from, at every step of the sort and whichever way the counters go down.
THEOREM OrderIsTopologicalAlways == CompileSpec => []OrderIsTopological
<1>1. CompileInv => OrderIsTopological
  BY DEF CompileInv
<1> QED
  BY <1>1, CompileInvAlways, PTL

\* _topological: what the sort leaves out is the largest set of nodes each of which is fed
\* by another, so "cycle" is reported of nothing else and of all of it.
THEOREM StuckIsCyclicAlways == CompileSpec => []StuckIsCyclic
<1>1. CompileInv => StuckIsCyclic
  BY SortedMeansStuckIsCyclic DEF CompileInv
<1> QED
  BY <1>1, CompileInvAlways, PTL

\* compile: a node is executable exactly when nothing is wrong with it and everything an
\* edge leads to it from is executable, and what is out for another's fault is blocked.
THEOREM GraphIsWhatCanRunAlways == CompileSpec => []GraphIsWhatCanRun
<1>1. CompileInv => GraphIsWhatCanRun
  BY AssembledIsWhatCanRun DEF CompileInv
<1> QED
  BY <1>1, CompileInvAlways, PTL

\* _flatten, _Flat.resolve, _bypass_disabled, compile: whatever edge somebody drew to an
\* input of a node that can run, the input has the value of an output that the edge comes
\* from, through any number of instances and past a disabled node; the one exception is an
\* edge between two instances of which the first has no such output, where an error is
\* reported of the second.
THEOREM InputsArriveAlways == CompileSpec => []InputsArrive
<1>1. CompileInv => InputsArrive
  BY DeliveredMeansInputsArrive DEF CompileInv
<1> QED
  BY <1>1, CompileInvAlways, PTL
=============================================================================
