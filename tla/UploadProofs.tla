---------------------------- MODULE UploadProofs ----------------------------
(***************************************************************************)
(* Proofs about an upload on its way from the connection to the transcoder: *)
(* SourceBody, for any requests, any bytes and any cutting of them into     *)
(* segments, blocks and reads, and IngestPipeline behind it, for any        *)
(* sources, any sizes of the tag header, the probe and the read buffer.     *)
(*                                                                         *)
(* What SourceBody's decoder reads is fixed by the layout of the request:   *)
(* where each size line, chunk and trailer stands in the bytes of the       *)
(* connection.  The layout is found by induction over the chunks (Offsets). *)
(* Decodes says where in it the decoder is; the lemmas DecodesByte to       *)
(* DecodesEnd say so again after each of its steps, and speak of no state.  *)
(* BodyInv adds the conversation, and the ...Fine lemmas take the actions   *)
(* one by one.  The proofs about IngestPipeline follow behind them.         *)
(***************************************************************************)
EXTENDS SourceBody, IngestPipeline, SequenceTheorems, WellFoundedInduction, TLAPS

-----------------------------------------------------------------------------
(* Induction, and the offsets of the parts of a flattened sequence.        *)

\* A set of naturals that holds 0 and, with each number, the next, holds all.
LEMMA Induction ==
  ASSUME NEW T, 0 \in T, \A n \in Nat : n \in T => n + 1 \in T
  PROVE  Nat \subseteq T
<1> SUFFICES ASSUME Nat \ T # {} PROVE FALSE
  OBVIOUS
<1>1. PICK x \in Nat \ T : \A y \in Nat \ T : ~ (<<y, x>> \in OpToRel(<, Nat))
  <2> DEFINE R == OpToRel(<, Nat)
  <2>1. IsWellFoundedOn(R, Nat)
    BY NatLessThanWellFounded
  <2> HIDE DEF R
  <2> QED
    BY <2>1, WFMin DEF R
<1>2. \A y \in Nat \ T : ~(y < x)
  BY <1>1 DEF OpToRel
<1>3. x # 0 /\ x - 1 \in Nat
  OBVIOUS
<1>4. x - 1 \in T
  BY <1>2, <1>3
<1> QED
  BY <1>3, <1>4

\* The recursive function of FlattenSeq, and its value on the first n parts.
Flattens(f, s, n) == f = [i \in 1..n |-> IF i = 1 THEN s[i] ELSE f[i - 1] \o s[i]]

\* The recursive function of FlattenSeq exists up to any length, by induction.
LEMMA FlattensExist ==
  ASSUME NEW s
  PROVE  \A n \in Nat : \E f : Flattens(f, s, n)
<1> DEFINE T == {n \in Nat : \E f : Flattens(f, s, n)}
<1>1. 0 \in T
  <2> DEFINE f == [i \in 1..0 |-> s[i]]
  <2>1. Flattens(f, s, 0)
    BY DEF Flattens
  <2> QED
    BY <2>1
<1>2. ASSUME NEW n \in Nat, n \in T
      PROVE  n + 1 \in T
  <2>1. PICK f : Flattens(f, s, n)
    BY <1>2
  <2> DEFINE last == IF n + 1 = 1 THEN s[n + 1] ELSE f[n] \o s[n + 1]
             g == [i \in 1..n + 1 |-> IF i = n + 1 THEN last ELSE f[i]]
  <2>2. \A i \in 1..n : g[i] = f[i]
    OBVIOUS
  <2>3. g[n + 1] = last
    OBVIOUS
  <2>4. \A i \in 1..n : f[i] = IF i = 1 THEN s[i] ELSE f[i - 1] \o s[i]
    BY <2>1 DEF Flattens
  <2> DEFINE h == [i \in 1..n + 1 |-> IF i = 1 THEN s[i] ELSE g[i - 1] \o s[i]]
  <2>5. ASSUME NEW i \in 1..n + 1
        PROVE  g[i] = h[i]
    <3>1. CASE i \in 1..n
      <4>1. i # 1 => i - 1 \in 1..n
        BY <3>1
      <4> HIDE DEF g
      <4> QED
        BY <3>1, <4>1, <2>2, <2>4
    <3>2. CASE i = n + 1
      <4>1. n # 0 => n \in 1..n
        OBVIOUS
      <4>2. n + 1 - 1 = n
        OBVIOUS
      <4> HIDE DEF g
      <4> QED
        BY <3>2, <4>1, <4>2, <2>2, <2>3
    <3> QED
      BY <3>1, <3>2
  <2>6. g = h
    <3>1. g = [i \in 1..n + 1 |-> g[i]]
      OBVIOUS
    <3>2. h = [i \in 1..n + 1 |-> h[i]]
      OBVIOUS
    <3> HIDE DEF g, h
    <3> QED
      BY <2>5, <3>1, <3>2
  <2>7. Flattens(g, s, n + 1)
    <3> HIDE DEF g
    <3> QED
      BY <2>6 DEF Flattens
  <2> HIDE DEF g
  <2> QED
    BY <2>7
<1> HIDE DEF T
<1>3. Nat \subseteq T
  BY <1>1, <1>2, Induction
<1> QED
  BY <1>3 DEF T

\* Its values: one more part at a time.
LEMMA FlattenedParts ==
  ASSUME NEW S, NEW s \in Seq(Seq(S))
  PROVE  \E f \in [0..Len(s) -> Seq(S)] :
           /\ f[0] = <<>> /\ f[Len(s)] = FlattenSeq(s)
           /\ \A i \in 1..Len(s) : f[i] = f[i - 1] \o s[i]
<1>1. CASE Len(s) = 0
  <2>1. s = <<>>
    BY <1>1, EmptySeq
  <2>2. FlattenSeq(s) = <<>>
    BY <1>1, <2>1 DEF FlattenSeq
  <2> DEFINE f == [i \in 0..Len(s) |-> <<>>]
  <2>3. f \in [0..Len(s) -> Seq(S)] /\ f[0] = <<>> /\ f[Len(s)] = <<>>
    BY <1>1, EmptySeq
  <2>4. \A i \in 1..Len(s) : FALSE
    BY <1>1
  <2> HIDE DEF f
  <2> QED
    BY <2>2, <2>3, <2>4
<1>2. CASE Len(s) # 0
  <2> DEFINE n == Len(s)
             g == CHOOSE g : Flattens(g, s, n)
  <2>1. n \in Nat \ {0} /\ \A i \in 1..n : s[i] \in Seq(S)
    BY <1>2, LenProperties, ElementOfSeq
  <2>2. Flattens(g, s, n)
    BY <2>1, FlattensExist
  <2>3. FlattenSeq(s) = g[n]
    BY <1>2 DEF FlattenSeq, Flattens
  <2> HIDE DEF g, n
  <2>4. \A i \in 1..n : g[i] = IF i = 1 THEN s[i] ELSE g[i - 1] \o s[i]
    BY <2>2 DEF Flattens
  <2> DEFINE f == [i \in 0..n |-> IF i = 0 THEN <<>> ELSE g[i]]
             T == {i \in Nat : i <= n => f[i] \in Seq(S)}
  <2>5. f[0] = <<>> /\ (\A i \in 1..n : f[i] = g[i]) /\ f = [i \in 0..n |-> f[i]]
    BY <2>1
  <2> HIDE DEF f
  <2>6. ASSUME NEW i \in 1..n, f[i - 1] \in Seq(S)
        PROVE  f[i] = f[i - 1] \o s[i] /\ f[i] \in Seq(S)
    <3>1. CASE i = 1
      <4>0. i - 1 = 0
        BY <3>1
      <4>1. f[i] = s[i] /\ f[i - 1] = <<>> /\ s[i] \in Seq(S)
        BY <3>1, <4>0, <2>1, <2>4, <2>5
      <4>2. <<>> \o s[i] = s[i]
        BY <4>1, ConcatEmptySeq
      <4> QED
        BY <4>1, <4>2
    <3>2. CASE i # 1
      <4>1. i - 1 \in 1..n
        BY <3>2, <2>1
      <4>2. f[i] = f[i - 1] \o s[i]
        BY <3>2, <4>1, <2>4, <2>5
      <4>3. s[i] \in Seq(S)
        BY <2>1
      <4> QED
        BY <4>2, <4>3, <2>6, ConcatProperties
    <3> QED
      BY <3>1, <3>2
  <2>7. 0 \in T
    BY <2>5, EmptySeq
  <2>8. \A i \in Nat : i \in T => i + 1 \in T
    <3> SUFFICES ASSUME NEW i \in Nat, i \in T, i + 1 <= n PROVE f[i + 1] \in Seq(S)
      OBVIOUS
    <3>1. i + 1 \in 1..n /\ (i + 1) - 1 = i /\ f[i] \in Seq(S)
      BY <2>1
    <3> QED
      BY <3>1, <2>6
  <2> HIDE DEF T
  <2>9. Nat \subseteq T
    BY <2>7, <2>8, Induction
  <2>10. \A i \in 0..n : f[i] \in Seq(S)
    BY <2>9, <2>1 DEF T
  <2>11. \A i \in 1..n : f[i] = f[i - 1] \o s[i]
    <3> SUFFICES ASSUME NEW i \in 1..n PROVE f[i] = f[i - 1] \o s[i]
      OBVIOUS
    <3>1. i - 1 \in 0..n
      BY <2>1
    <3> QED
      BY <3>1, <2>6, <2>10
  <2>12. f[n] = g[n]
    BY <2>1, <2>5
  <2> QED
    BY <2>3, <2>5, <2>10, <2>11, <2>12 DEF n
<1> QED
  BY <1>1, <1>2


Grown(f, s, n) ==
  /\ \A i \in 0..n : Len(f[i]) \in Nat
  /\ \A k \in 0..n - 1 :
       /\ Len(s[k + 1]) \in Nat
       /\ Len(f[k + 1]) = Len(f[k]) + Len(s[k + 1])
       /\ \A j \in 1..Len(s[k + 1]) : f[k + 1][Len(f[k]) + j] = s[k + 1][j]
  /\ \A i, k \in 0..n : i <= k =>
       Len(f[i]) <= Len(f[k]) /\ \A j \in 1..Len(f[i]) : f[k][j] = f[i][j]

\* Each value opens every later one.
LEMMA PartsExtend ==
  ASSUME NEW S, NEW s, NEW n \in Nat, NEW f \in [0..n -> Seq(S)],
         \A i \in 1..n : s[i] \in Seq(S) /\ f[i] = f[i - 1] \o s[i]
  PROVE  Grown(f, s, n)
<1>1. \A i \in 0..n : Len(f[i]) \in Nat
  BY LenProperties
<1>2. ASSUME NEW k \in 0..n - 1
      PROVE  /\ Len(s[k + 1]) \in Nat
             /\ Len(f[k + 1]) = Len(f[k]) + Len(s[k + 1])
             /\ \A j \in 1..Len(f[k]) : f[k + 1][j] = f[k][j]
             /\ \A j \in 1..Len(s[k + 1]) : f[k + 1][Len(f[k]) + j] = s[k + 1][j]
  <2>1. k + 1 \in 1..n /\ (k + 1) - 1 = k /\ k \in 0..n
    OBVIOUS
  <2> DEFINE a == f[k]  b == s[k + 1]
  <2>2. a \in Seq(S) /\ b \in Seq(S) /\ f[k + 1] = a \o b
    BY <2>1
  <2> HIDE DEF a, b
  <2>3. Len(a) \in Nat /\ Len(b) \in Nat
    BY <2>2, LenProperties
  <2>4. /\ Len(a \o b) = Len(a) + Len(b)
        /\ \A i \in 1..Len(a) + Len(b) : (a \o b)[i] = IF i <= Len(a) THEN a[i] ELSE b[i - Len(a)]
    BY <2>2, ConcatProperties
  <2> DEFINE c == a \o b
  <2> HIDE DEF c
  <2>5. /\ \A j \in 1..Len(a) : c[j] = a[j]
        /\ \A j \in 1..Len(b) : c[Len(a) + j] = b[j]
    BY <2>3, <2>4 DEF c
  <2> QED
    BY <2>2, <2>3, <2>4, <2>5 DEF a, b, c
<1> DEFINE Extends(i, k) == Len(f[i]) <= Len(f[k]) /\ \A j \in 1..Len(f[i]) : f[k][j] = f[i][j]
           T == {k \in Nat : k <= n => \A i \in 0..k : Extends(i, k)}
<1>3. \A i \in 0..n : Extends(i, i)
  BY <1>1
<1>4. \A k \in 0..n - 1 : \A i \in 0..k : Extends(i, k) => Extends(i, k + 1)
  <2> SUFFICES ASSUME NEW k \in 0..n - 1, NEW i \in 0..k, Extends(i, k)
               PROVE  Extends(i, k + 1)
    OBVIOUS
  <2>1. k \in 0..n /\ k + 1 \in 0..n /\ i \in 0..n
    OBVIOUS
  <2>2. Len(f[i]) \in Nat /\ Len(f[k]) \in Nat /\ Len(f[k + 1]) \in Nat
    BY <2>1, <1>1
  <2>3. Len(f[k]) <= Len(f[k + 1]) /\ \A j \in 1..Len(f[k]) : f[k + 1][j] = f[k][j]
    <3>1. Len(s[k + 1]) \in Nat /\ Len(f[k + 1]) = Len(f[k]) + Len(s[k + 1])
      BY <1>2
    <3>2. \A j \in 1..Len(f[k]) : f[k + 1][j] = f[k][j]
      BY <1>2
    <3>3. \A a, b \in Nat : a <= a + b
      OBVIOUS
    <3>4. Len(f[k]) <= Len(f[k + 1])
      BY <3>1, <3>3, <2>2
    <3> QED
      BY <3>2, <3>4
  <2>4. \A j \in 1..Len(f[i]) : j \in 1..Len(f[k])
    BY <2>2
  <2> QED
    BY <2>2, <2>3, <2>4
<1> HIDE DEF Extends
<1>5. 0 \in T
  <2>1. \A i \in 0..0 : i = 0 /\ 0 \in 0..n
    OBVIOUS
  <2> QED
    BY <2>1, <1>3
<1>6. ASSUME NEW k \in Nat, k \in T
      PROVE  k + 1 \in T
  <2> SUFFICES ASSUME k + 1 <= n, NEW i \in 0..k + 1 PROVE Extends(i, k + 1)
    OBVIOUS
  <2>1. CASE i = k + 1
    BY <2>1, <1>3
  <2>2. CASE i \in 0..k
    <3>1. k \in 0..n - 1 /\ k <= n
      OBVIOUS
    <3> QED
      BY <3>1, <2>2, <1>4, <1>6
  <2> QED
    BY <2>1, <2>2
<1> HIDE DEF T
<1>7. Nat \subseteq T
  BY <1>5, <1>6, Induction
<1>8. \A i, k \in 0..n : i <= k => Extends(i, k)
  BY <1>7 DEF T
<1> QED
  BY <1>1, <1>2, <1>8 DEF Extends, Grown

\* Where each part of a sequence of sequences begins once they are joined, and
\* where the last one ends: the number of elements before it.
IsOffsets(offs, s) ==
  /\ offs \in [1..Len(s) + 1 -> 0..Len(FlattenSeq(s))]
  /\ offs[1] = 0 /\ offs[Len(s) + 1] = Len(FlattenSeq(s))
  /\ \A i \in 1..Len(s) :
       /\ offs[i + 1] = offs[i] + Len(s[i])
       /\ \A j \in 1..Len(s[i]) : FlattenSeq(s)[offs[i] + j] = s[i][j]

\* The parts of a flattened sequence stand in it one behind the other.
LEMMA Offsets ==
  ASSUME NEW S, NEW s \in Seq(Seq(S))
  PROVE  FlattenSeq(s) \in Seq(S) /\ \E offs : IsOffsets(offs, s)
<1> DEFINE n == Len(s)
<1>1. n \in Nat /\ \A i \in 1..n : s[i] \in Seq(S)
  BY LenProperties, ElementOfSeq
<1>2. PICK f \in [0..n -> Seq(S)] : /\ f[0] = <<>> /\ f[n] = FlattenSeq(s)
                                    /\ \A i \in 1..n : f[i] = f[i - 1] \o s[i]
  BY FlattenedParts
<1> HIDE DEF n
<1>0. \A i \in 1..n : s[i] \in Seq(S) /\ f[i] = f[i - 1] \o s[i]
  BY <1>1, <1>2
<1>3. Grown(f, s, n)
  BY <1>0, <1>1, <1>2, PartsExtend
<1> DEFINE offs == [i \in 1..n + 1 |-> Len(f[i - 1])]
<1>4. \A k \in 0..n : offs[k + 1] = Len(f[k])
  <2> SUFFICES ASSUME NEW k \in 0..n PROVE offs[k + 1] = Len(f[k])
    OBVIOUS
  <2>1. k + 1 \in 1..n + 1 /\ (k + 1) - 1 = k
    BY <1>1
  <2> QED
    BY <2>1
<1>5. offs \in [1..n + 1 -> 0..Len(f[n])]
  <2> SUFFICES ASSUME NEW i \in 1..n + 1 PROVE Len(f[i - 1]) \in 0..Len(f[n])
    OBVIOUS
  <2>1. i - 1 \in 0..n /\ n \in 0..n /\ i - 1 <= n
    BY <1>1
  <2> QED
    BY <2>1, <1>3 DEF Grown
<1> HIDE DEF offs
<1>6. offs[1] = 0 /\ offs[n + 1] = Len(f[n])
  <2>1. 0 \in 0..n /\ n \in 0..n /\ 0 + 1 = 1 /\ Len(<<>>) = 0
    BY <1>1
  <2> QED
    BY <2>1, <1>2, <1>4
<1>7. ASSUME NEW i \in 1..n
      PROVE  /\ offs[i + 1] = offs[i] + Len(s[i])
             /\ \A j \in 1..Len(s[i]) : f[n][offs[i] + j] = s[i][j]
  <2> DEFINE k == i - 1
  <2>1. k \in 0..n - 1 /\ i = k + 1 /\ k \in 0..n /\ k + 1 \in 0..n /\ n \in 0..n /\ k + 1 <= n
    BY <1>1
  <2> HIDE DEF k
  <2>2. offs[k + 1] = Len(f[k]) /\ offs[(k + 1) + 1] = Len(f[k + 1])
    BY <2>1, <1>4
  <2>3. Len(f[k]) \in Nat /\ Len(f[k + 1]) = Len(f[k]) + Len(s[k + 1]) /\ Len(s[k + 1]) \in Nat
    BY <2>1, <1>3 DEF Grown
  <2>4. \A j \in 1..Len(s[k + 1]) : /\ Len(f[k]) + j \in 1..Len(f[k + 1])
                                     /\ f[k + 1][Len(f[k]) + j] = s[k + 1][j]
    <3>1. \A j \in 1..Len(s[k + 1]) : f[k + 1][Len(f[k]) + j] = s[k + 1][j]
      BY <2>1, <1>3 DEF Grown
    <3>2. \A a, b \in Nat : \A j \in 1..b : a + j \in 1..a + b
      OBVIOUS
    <3>3. \A j \in 1..Len(s[k + 1]) : Len(f[k]) + j \in 1..Len(f[k + 1])
      BY <2>3, <3>2
    <3> QED
      BY <3>1, <3>3
  <2>5. \A j \in 1..Len(f[k + 1]) : f[n][j] = f[k + 1][j]
    BY <2>1, <1>3 DEF Grown
  <2>6. \A j \in 1..Len(s[k + 1]) : f[n][Len(f[k]) + j] = s[k + 1][j]
    BY <2>4, <2>5
  <2> QED
    BY <2>1, <2>2, <2>3, <2>6
<1>8. IsOffsets(offs, s)
  BY <1>2, <1>5, <1>6, <1>7 DEF IsOffsets, n
<1>9. FlattenSeq(s) \in Seq(S)
  BY <1>1, <1>2
<1> QED
  BY <1>8, <1>9

-----------------------------------------------------------------------------
(* Texts in a wire.                                                        *)

\* Two sequences joined, element by element.
LEMMA Joined ==
  ASSUME NEW S, NEW s \in Seq(S), NEW t \in Seq(S)
  PROVE  /\ s \o t \in Seq(S) /\ Len(s) \in Nat /\ Len(t) \in Nat
         /\ Len(s \o t) = Len(s) + Len(t)
         /\ \A j \in 1..Len(s) : (s \o t)[j] = s[j]
         /\ \A j \in 1..Len(t) : (s \o t)[Len(s) + j] = t[j]
<1>1. Len(s) \in Nat /\ Len(t) \in Nat
  BY LenProperties
<1>2. /\ s \o t \in Seq(S) /\ Len(s \o t) = Len(s) + Len(t)
      /\ \A i \in 1..Len(s) + Len(t) : (s \o t)[i] = IF i <= Len(s) THEN s[i] ELSE t[i - Len(s)]
  BY ConcatProperties
<1> DEFINE u == s \o t
<1> HIDE DEF u
<1>3. \A j \in 1..Len(s) : u[j] = s[j]
  BY <1>1, <1>2 DEF u
<1>4. \A j \in 1..Len(t) : u[Len(s) + j] = t[j]
  BY <1>1, <1>2 DEF u
<1> QED
  BY <1>1, <1>2, <1>3, <1>4 DEF u

\* A text stands in a wire behind its first a bytes.
Stands(w, a, t) == \A j \in 1..Len(t) : w[a + j] = t[j]

\* A joined text stands where its two parts stand.
LEMMA StandsParts ==
  ASSUME NEW w, NEW a \in Nat, NEW s \in Seq(Bytes), NEW t \in Seq(Bytes)
  PROVE  Stands(w, a, s \o t) <=> Stands(w, a, s) /\ Stands(w, a + Len(s), t)
<1> DEFINE u == s \o t
<1>1. /\ Len(u) = Len(s) + Len(t) /\ Len(s) \in Nat /\ Len(t) \in Nat
      /\ \A j \in 1..Len(s) : u[j] = s[j]
      /\ \A j \in 1..Len(t) : u[Len(s) + j] = t[j]
  BY Joined
<1> HIDE DEF u
<1>2. ASSUME Stands(w, a, u)
      PROVE  Stands(w, a, s) /\ Stands(w, a + Len(s), t)
  <2>1. \A j \in 1..Len(s) : j \in 1..Len(u)
    BY <1>1
  <2>2. ASSUME NEW j \in 1..Len(t)
        PROVE  w[(a + Len(s)) + j] = t[j]
    <3>1. Len(s) + j \in 1..Len(u) /\ a + (Len(s) + j) = (a + Len(s)) + j
      BY <1>1
    <3> QED
      BY <3>1, <1>1, <1>2 DEF Stands
  <2> QED
    BY <2>1, <2>2, <1>1, <1>2 DEF Stands
<1>3. ASSUME Stands(w, a, s), Stands(w, a + Len(s), t)
      PROVE  Stands(w, a, u)
  <2> SUFFICES ASSUME NEW i \in 1..Len(u) PROVE w[a + i] = u[i]
    BY DEF Stands
  <2>1. CASE i \in 1..Len(s)
    BY <2>1, <1>1, <1>3 DEF Stands
  <2>2. CASE i \notin 1..Len(s)
    <3> DEFINE j == i - Len(s)
    <3>1. j \in 1..Len(t) /\ i = Len(s) + j /\ a + i = (a + Len(s)) + j
      BY <2>2, <1>1
    <3> HIDE DEF j
    <3> QED
      BY <3>1, <1>1, <1>3 DEF Stands
  <2> QED
    BY <2>1, <2>2
<1> QED
  BY <1>2, <1>3 DEF u

\* A text within a text that stands in a wire stands there too.
LEMMA StandsWithin ==
  ASSUME NEW w, NEW a \in Nat, NEW b \in Nat, NEW t, Len(t) \in Nat, Stands(w, a, t),
         NEW s, Len(s) \in Nat, Stands(t, b, s), b + Len(s) <= Len(t)
  PROVE  Stands(w, a + b, s)
<1> SUFFICES ASSUME NEW j \in 1..Len(s) PROVE w[(a + b) + j] = s[j]
  BY DEF Stands
<1>1. b + j \in 1..Len(t) /\ a + (b + j) = (a + b) + j
  OBVIOUS
<1>2. t[b + j] = s[j]
  BY DEF Stands
<1> QED
  BY <1>1, <1>2 DEF Stands

\* A line with its end, which comes once.
IsText(t) ==
  /\ t \in Seq(Bytes) /\ Len(t) >= 2
  /\ t[Len(t) - 1] = CR /\ t[Len(t)] = LF
  /\ \A j \in 1..Len(t) - 2 : ~(t[j] = CR /\ t[j + 1] = LF)

\* The lines the decoder gathers, and what it finds behind a payload.
TrailText(r, i) == IF i <= Len(r.trailers) THEN r.trailers[i] \o CRLF ELSE CRLF
PayloadEnd(r, k) == IF r.flaw = "crlf" /\ k = Len(r.chunks) THEN <<LF, CR>> ELSE CRLF

\* The bytes of line ends and of single bytes.
LEMMA ByteSeqs ==
  /\ CRLF \in Seq(Bytes) /\ Len(CRLF) = 2 /\ CRLF[1] = CR /\ CRLF[2] = LF
  /\ <<LF, CR>> \in Seq(Bytes) /\ Len(<<LF, CR>>) = 2
  /\ \A b \in Bytes : <<b>> \in Seq(Bytes) /\ Len(<<b>>) = 1 /\ <<b>>[1] = b
BY DEF CRLF, CR, LF, Bytes

\* A line and its end are a text.
LEMMA LineText ==
  ASSUME NEW s, OneLine(s)
  PROVE  /\ IsText(s \o CRLF) /\ Len(s \o CRLF) = Len(s) + 2 /\ Len(s) \in Nat
         /\ \A j \in 1..Len(s) : (s \o CRLF)[j] = s[j]
<1> DEFINE t == s \o CRLF
<1>1. /\ t \in Seq(Bytes) /\ Len(s) \in Nat /\ Len(t) = Len(s) + 2
      /\ \A j \in 1..Len(s) : t[j] = s[j]
      /\ \A j \in 1..2 : t[Len(s) + j] = CRLF[j]
  <2>1. s \in Seq(Bytes) /\ CRLF \in Seq(Bytes) /\ Len(CRLF) = 2
    BY ByteSeqs DEF OneLine
  <2> HIDE DEF t
  <2>2. /\ t \in Seq(Bytes) /\ Len(s) \in Nat /\ Len(t) = Len(s) + Len(CRLF)
        /\ \A j \in 1..Len(s) : t[j] = s[j]
        /\ \A j \in 1..Len(CRLF) : t[Len(s) + j] = CRLF[j]
    BY <2>1, Joined DEF t
  <2> QED
    BY <2>1, <2>2
<1> HIDE DEF t
<1>2. t[Len(s) + 1] = CR /\ t[Len(s) + 2] = LF
  BY <1>1, ByteSeqs
<1>3. ASSUME NEW j \in 1..Len(t) - 2
      PROVE  ~(t[j] = CR /\ t[j + 1] = LF)
  <2>1. CASE j \in 1..Len(s) - 1
    BY <2>1, <1>1 DEF OneLine
  <2>2. CASE j = Len(s)
    BY <2>2, <1>1, <1>2 DEF CR, LF
  <2> QED
    BY <2>1, <2>2, <1>1
<1>4. Len(t) - 1 = Len(s) + 1 /\ Len(t) >= 2
  BY <1>1
<1>5. IsText(t)
  BY <1>1, <1>2, <1>3, <1>4 DEF IsText
<1> QED
  BY <1>1, <1>5 DEF t

\* A size line is its size and its extension, and its end is the first there.
LEMMA SizeTexts ==
  ASSUME NEW r, RequestOk(r), NEW k \in 1..Len(r.chunks) + 1
  PROVE  /\ IsText(SizeLine(r, k)) /\ SizeLine(r, k) \in Seq(Bytes) /\ Len(SizeLine(r, k)) \in Nat
         /\ SizeLine(r, k) = (Size(r, k) \o r.exts[k]) \o CRLF
         /\ Size(r, k) \in Seq(Bytes) /\ r.exts[k] \in Seq(Bytes)
         /\ \A j \in 1..Len(Size(r, k)) : Size(r, k)[j] # SEMI
         /\ r.exts[k] # <<>> => r.exts[k][1] = SEMI
<1> DEFINE z == Size(r, k)
           e == r.exts[k]
           s == z \o e
<1>1. OneLine(e) /\ e \in Seq(Bytes) /\ (e # <<>> => e[1] = SEMI)
  BY DEF RequestOk, OneLine
<1>2. z \in Seq(Bytes) /\ \A j \in 1..Len(z) : z[j] \notin {SEMI, CR}
  <2>1. r.sizes[k] \in Seq(Bytes) /\ \A j \in 1..Len(r.sizes[k]) : r.sizes[k][j] \notin {SEMI, CR}
    BY DEF RequestOk
  <2>2. CASE z = <<>>
    BY <2>2, EmptySeq
  <2>3. CASE z = r.sizes[k]
    BY <2>1, <2>3
  <2> QED
    BY <2>2, <2>3 DEF Size
<1>3. SizeLine(r, k) = s \o CRLF
  BY Zenon DEF SizeLine
<1> HIDE DEF z, e
<1>4. /\ s \in Seq(Bytes) /\ Len(z) \in Nat /\ Len(e) \in Nat /\ Len(s) = Len(z) + Len(e)
      /\ \A j \in 1..Len(z) : s[j] = z[j]
      /\ \A j \in 1..Len(e) : s[Len(z) + j] = e[j]
  BY <1>1, <1>2, Joined
<1> HIDE DEF s
<1>6. OneLine(s)
  <2> SUFFICES ASSUME NEW i \in 1..Len(s) - 1, s[i] = CR, s[i + 1] = LF PROVE FALSE
    BY <1>4 DEF OneLine
  <2>1. CASE i <= Len(z)
    <3>1. i \in 1..Len(z)
      BY <2>1, <1>4
    <3> QED
      BY <3>1, <1>2, <1>4
  <2>2. CASE ~(i <= Len(z))
    <3> DEFINE j == i - Len(z)
    <3>1. j \in 1..Len(e) - 1 /\ j \in 1..Len(e) /\ j + 1 \in 1..Len(e) /\ i = Len(z) + j /\ i + 1 = Len(z) + (j + 1)
      BY <2>2, <1>4
    <3> HIDE DEF j
    <3> QED
      BY <3>1, <1>1, <1>4 DEF OneLine
  <2> QED
    BY <2>1, <2>2
<1>7. IsText(s \o CRLF) /\ s \o CRLF \in Seq(Bytes) /\ Len(s \o CRLF) \in Nat
  <2>1. IsText(s \o CRLF)
    BY <1>6, LineText
  <2> QED
    BY <2>1, LenProperties DEF IsText
<1>8. \A j \in 1..Len(z) : z[j] # SEMI
  BY <1>2
<1> QED
  BY <1>1, <1>2, <1>3, <1>7, <1>8 DEF z, e, s

-----------------------------------------------------------------------------
(* The layout of a chunked upload.                                         *)

\* Where the parts of a chunked upload stand in its bytes: the chunks, the
\* payload before each of them, and the trailer lines.
IsLayout(l, r) ==
  LET n == Len(r.chunks)
      m == Len(r.trailers)
  IN
  /\ l.at \in [1..n + 1 -> Nat] /\ l.line \in [1..m + 1 -> Nat]
  /\ IsOffsets(l.paid, r.chunks)
  /\ l.at[1] = r.head
  /\ \A k \in 1..n + 1 : Stands(Wire(r), l.at[k], SizeLine(r, k))
  /\ \A k \in 1..n :
       /\ l.at[k + 1] = l.at[k] + Len(SizeLine(r, k)) + Len(r.chunks[k]) + 2
       /\ Stands(Wire(r), l.at[k] + Len(SizeLine(r, k)), r.chunks[k])
       /\ Stands(Wire(r), l.at[k] + Len(SizeLine(r, k)) + Len(r.chunks[k]), PayloadEnd(r, k))
  /\ l.line[1] = l.at[n + 1] + Len(SizeLine(r, n + 1))
  /\ \A i \in 1..m + 1 : Stands(Wire(r), l.line[i], TrailText(r, i))
  /\ \A i \in 1..m : l.line[i + 1] = l.line[i] + Len(TrailText(r, i))

\* A chunk's frame is its size line, the chunk and the end of the payload.
LEMMA FrameParts ==
  ASSUME NEW r, RequestOk(r), NEW k \in 1..Len(r.chunks)
  PROVE  /\ Frame(r, k) \in Seq(Bytes) /\ SizeLine(r, k) \in Seq(Bytes) /\ r.chunks[k] \in Seq(Bytes)
         /\ Len(SizeLine(r, k)) \in Nat /\ Len(r.chunks[k]) \in Nat
         /\ PayloadEnd(r, k) \in Seq(Bytes) /\ Len(PayloadEnd(r, k)) = 2
         /\ Len(Frame(r, k)) = Len(SizeLine(r, k)) + Len(r.chunks[k]) + 2
         /\ Stands(Frame(r, k), 0, SizeLine(r, k))
         /\ Stands(Frame(r, k), Len(SizeLine(r, k)), r.chunks[k])
         /\ Stands(Frame(r, k), Len(SizeLine(r, k)) + Len(r.chunks[k]), PayloadEnd(r, k))
<1> DEFINE s == SizeLine(r, k)
           c == r.chunks[k]
           e == PayloadEnd(r, k)
<1>1. Len(r.chunks) \in Nat /\ c \in Seq(Bytes)
  BY LenProperties, ElementOfSeq DEF RequestOk
<1>2. s \in Seq(Bytes)
  BY <1>1, SizeTexts
<1>3. e \in Seq(Bytes) /\ Len(e) = 2
  BY ByteSeqs DEF PayloadEnd
<1>4. Frame(r, k) = (s \o c) \o e
  BY Zenon DEF Frame, PayloadEnd
<1> HIDE DEF s, c, e
<1> DEFINE d == s \o c
<1>5. d \in Seq(Bytes) /\ Len(d) = Len(s) + Len(c) /\ Len(s) \in Nat /\ Len(c) \in Nat
  BY <1>1, <1>2, Joined
<1>6. d \o e \in Seq(Bytes) /\ Len(d \o e) = Len(d) + Len(e)
  <2> HIDE DEF d
  <2> QED
    BY <1>3, <1>5, Joined
<1> DEFINE f == d \o e
<1>7. Stands(f, 0, f)
  BY <1>6, <1>5, <1>3 DEF Stands
<1>8. Stands(f, 0, d) /\ Stands(f, 0 + Len(d), e)
  <2> HIDE DEF d
  <2> QED
    BY <1>7, <1>5, <1>3, StandsParts
<1> HIDE DEF f
<1>9. Stands(f, 0, s) /\ Stands(f, 0 + Len(s), c)
  BY <1>8, <1>1, <1>2, StandsParts
<1>10. 0 + Len(s) = Len(s) /\ 0 + Len(d) = Len(s) + Len(c)
  BY <1>5
<1>11. Frame(r, k) = f
  BY <1>4 DEF f
<1> QED
  BY <1>1, <1>2, <1>3, <1>5, <1>6, <1>8, <1>9, <1>10, <1>11 DEF s, c, e, f

\* Where a frame stands its three parts stand.
LEMMA FrameStands ==
  ASSUME NEW r, RequestOk(r), NEW k \in 1..Len(r.chunks), NEW w, NEW q \in Nat,
         Stands(w, q, Frame(r, k))
  PROVE  /\ Stands(w, q, SizeLine(r, k))
         /\ Stands(w, q + Len(SizeLine(r, k)), r.chunks[k])
         /\ Stands(w, q + Len(SizeLine(r, k)) + Len(r.chunks[k]), PayloadEnd(r, k))
<1> DEFINE s == SizeLine(r, k)
           c == r.chunks[k]
           e == PayloadEnd(r, k)
           u == Frame(r, k)
<1>1. /\ Len(s) \in Nat /\ Len(c) \in Nat /\ Len(e) = 2
      /\ Len(u) = Len(s) + Len(c) + 2
      /\ Stands(u, 0, s) /\ Stands(u, Len(s), c) /\ Stands(u, Len(s) + Len(c), e)
  BY FrameParts
<1> HIDE DEF s, c, e, u
<1>2. Stands(w, q, u) /\ Len(u) \in Nat /\ Len(s) + Len(c) \in Nat /\ 0 \in Nat /\ Len(e) \in Nat
  BY <1>1 DEF u
<1>3. 0 + Len(s) <= Len(u) /\ Len(s) + Len(c) <= Len(u) /\ (Len(s) + Len(c)) + Len(e) <= Len(u)
  BY <1>1
<1>4. Stands(w, q + 0, s)
  BY <1>1, <1>2, <1>3, StandsWithin
<1>5. Stands(w, q + Len(s), c)
  BY <1>1, <1>2, <1>3, StandsWithin
<1>6. Stands(w, q + (Len(s) + Len(c)), e)
  BY <1>1, <1>2, <1>3, StandsWithin
<1>7. q + 0 = q /\ q + (Len(s) + Len(c)) = q + Len(s) + Len(c)
  BY <1>1
<1> QED
  BY <1>4, <1>5, <1>6, <1>7 DEF s, c, e

\* Where a flattened sequence stands each of its parts stands, at its offset.
LEMMA FlattenedStands ==
  ASSUME NEW s \in Seq(Seq(Bytes)), NEW offs, IsOffsets(offs, s), NEW w, NEW a \in Nat,
         Stands(w, a, FlattenSeq(s)), NEW k \in 1..Len(s)
  PROVE  /\ offs[k] \in Nat /\ Len(s[k]) \in Nat /\ offs[k + 1] = offs[k] + Len(s[k])
         /\ Stands(w, a + offs[k], s[k])
<1> DEFINE F == FlattenSeq(s)
           t == s[k]
<1>1. Len(s) \in Nat /\ t \in Seq(Bytes) /\ F \in Seq(Bytes)
  BY LenProperties, ElementOfSeq, Offsets
<1>2. Len(t) \in Nat /\ Len(F) \in Nat
  BY <1>1, LenProperties
<1>3. offs[k] \in 0..Len(F) /\ offs[k + 1] \in 0..Len(F)
  <2>1. k \in 1..Len(s) + 1 /\ k + 1 \in 1..Len(s) + 1
    BY <1>1
  <2> QED
    BY <2>1 DEF IsOffsets
<1>4. offs[k + 1] = offs[k] + Len(t) /\ Stands(F, offs[k], t)
  BY DEF IsOffsets, Stands
<1>5. Stands(w, a, F)
  OBVIOUS
<1> HIDE DEF F, t
<1>6. Stands(w, a + offs[k], t)
  <2> DEFINE b == offs[k]
  <2>1. b \in Nat /\ b + Len(t) <= Len(F) /\ Stands(F, b, t)
    BY <1>2, <1>3, <1>4
  <2> HIDE DEF b
  <2>2. Stands(w, a + b, t)
    BY <2>1, <1>2, <1>5, StandsWithin
  <2> QED
    BY <2>2 DEF b
<1> QED
  BY <1>2, <1>3, <1>4, <1>6 DEF t

\* The bytes of a chunked upload have a layout.
LEMMA LayoutExists ==
  ASSUME NEW r, RequestOk(r), r.chunked
  PROVE  Wire(r) \in Seq(Bytes) /\ r.head <= Len(Wire(r)) /\ \E l : IsLayout(l, r)
<1> DEFINE n == Len(r.chunks)
           m == Len(r.trailers)
           frames == [k \in 1..n |-> Frame(r, k)]
           lines == [i \in 1..m |-> r.trailers[i] \o CRLF]
           A == FlattenSeq(frames)
           B == FlattenSeq(lines)
           zeros == [i \in 1..r.head |-> 0]
           z == SizeLine(r, n + 1)
           c1 == A \o z
           c3 == c1 \o B
           c4 == c3 \o CRLF
           w == Wire(r)
<1>1. n \in Nat /\ m \in Nat /\ r.head \in Nat /\ r.chunks \in Seq(Seq(Bytes))
  BY LenProperties DEF RequestOk
<1>2. \A i \in 1..m : /\ IsText(r.trailers[i] \o CRLF)
                       /\ r.trailers[i] \o CRLF \in Seq(Bytes)
  BY LineText DEF RequestOk, IsText
<1>3. frames \in Seq(Seq(Bytes)) /\ Len(frames) = n /\ \A k \in 1..n : frames[k] = Frame(r, k)
  <2>1. \A k \in 1..n : Frame(r, k) \in Seq(Bytes)
    BY FrameParts
  <2> HIDE DEF n
  <2> QED
    BY <1>1, <2>1
<1>4. /\ lines \in Seq(Seq(Bytes)) /\ Len(lines) = m
      /\ \A i \in 1..m : lines[i] = r.trailers[i] \o CRLF
  <2> HIDE DEF m
  <2> QED
    BY <1>1, <1>2
<1>5. zeros \in Seq(Bytes) /\ Len(zeros) = r.head
  <2>1. 0 \in Bytes
    BY DEF Bytes
  <2> QED
    BY <2>1, <1>1
<1>6. w = zeros \o c4
  BY DEF Wire, Chunked
<1>0. \A k \in 1..n : Len(Frame(r, k)) = Len(SizeLine(r, k)) + Len(r.chunks[k]) + 2
  BY FrameParts
<1> HIDE DEF frames, lines, n, m
<1>7. A \in Seq(Bytes) /\ \E f : IsOffsets(f, frames)
  BY <1>3, Offsets
<1>8. B \in Seq(Bytes) /\ \E g : IsOffsets(g, lines)
  BY <1>4, Offsets
<1>9. \E p : IsOffsets(p, r.chunks)
  BY <1>1, Offsets
<1>10. PICK f, g, p : IsOffsets(f, frames) /\ IsOffsets(g, lines) /\ IsOffsets(p, r.chunks)
  BY <1>7, <1>8, <1>9
<1> DEFINE a == Len(A)
<1>11. Len(A) \in Nat /\ Len(B) \in Nat
  BY <1>7, <1>8, LenProperties
<1> HIDE DEF zeros, A, B
<1>12. /\ z \in Seq(Bytes) /\ Len(z) \in Nat
       /\ CRLF \in Seq(Bytes) /\ Len(CRLF) = 2
  <2>1. n + 1 \in 1..Len(r.chunks) + 1
    BY <1>1 DEF n
  <2>2. z \in Seq(Bytes) /\ Len(z) \in Nat
    BY <2>1, SizeTexts
  <2> QED
    BY <2>2, ByteSeqs
<1> HIDE DEF z
<1>13. c1 \in Seq(Bytes) /\ Len(c1) = a + Len(z)
  BY <1>7, <1>12, Joined
<1> HIDE DEF c1
<1>15. c3 \in Seq(Bytes) /\ Len(c3) = a + Len(z) + Len(B)
  <2>1. c3 \in Seq(Bytes) /\ Len(c3) = Len(c1) + Len(B)
    BY <1>8, <1>13, Joined
  <2> QED
    BY <2>1, <1>13
<1> HIDE DEF c3
<1>16. c4 \in Seq(Bytes)
  BY <1>12, <1>15, Joined
<1> HIDE DEF c4
<1>17. w \in Seq(Bytes) /\ r.head <= Len(w) /\ Stands(w, r.head, c4)
  <2>1. w \in Seq(Bytes) /\ r.head <= Len(w)
    <3> HIDE DEF w
    <3>1. zeros \o c4 \in Seq(Bytes) /\ Len(zeros \o c4) = Len(zeros) + Len(c4) /\ Len(c4) \in Nat
      BY <1>5, <1>16, Joined
    <3> QED
      BY <3>1, <1>1, <1>5, <1>6
  <2>2. Stands(w, 0, zeros \o c4)
    <3> HIDE DEF w
    <3>1. Stands(w, 0, w)
      BY <2>1, LenProperties DEF Stands
    <3> QED
      BY <3>1, <1>6
  <2> HIDE DEF w
  <2>3. Stands(w, 0 + Len(zeros), c4)
    BY <2>2, <1>5, <1>16, StandsParts
  <2> QED
    BY <2>1, <2>3, <1>1, <1>5
<1> HIDE DEF w
<1>18. Stands(w, r.head, c3) /\ Stands(w, r.head + Len(c3), CRLF)
  BY <1>17, <1>1, <1>12, <1>15, StandsParts DEF c4
<1>19. Stands(w, r.head, c1) /\ Stands(w, r.head + Len(c1), B)
  BY <1>18, <1>1, <1>8, <1>13, StandsParts DEF c3
<1>21. Stands(w, r.head, A) /\ Stands(w, r.head + a, z)
  BY <1>19, <1>1, <1>7, <1>12, StandsParts DEF c1
<1> DEFINE b == r.head + a + Len(z)
<1>23. b \in Nat /\ Stands(w, b, B) /\ Stands(w, b + Len(B), CRLF)
  <2>1. b \in Nat /\ r.head + Len(c1) = b /\ r.head + Len(c3) = b + Len(B)
    BY <1>1, <1>11, <1>12, <1>13, <1>15
  <2> HIDE DEF b
  <2> QED
    BY <2>1, <1>18, <1>19
<1> DEFINE l == [at |-> [k \in 1..n + 1 |-> r.head + f[k]], paid |-> p,
                 line |-> [i \in 1..m + 1 |-> b + g[i]]]
\* What the offsets of the chunks and of the trailers say.
<1>24. f \in [1..n + 1 -> Nat] /\ f[1] = 0 /\ f[n + 1] = a
  BY <1>3, <1>10, <1>11 DEF IsOffsets, A
<1>25. g \in [1..m + 1 -> Nat] /\ g[1] = 0 /\ g[m + 1] = Len(B)
  BY <1>4, <1>10, <1>11 DEF IsOffsets, B
<1> HIDE DEF a, b
<1>26. a \in Nat /\ a = Len(A) /\ b = r.head + a + Len(z)
  BY <1>11 DEF a, b
<1>27. /\ l.at \in [1..n + 1 -> Nat] /\ l.line \in [1..m + 1 -> Nat]
       /\ \A k \in 1..n + 1 : l.at[k] = r.head + f[k]
       /\ \A i \in 1..m + 1 : l.line[i] = b + g[i]
       /\ l.paid = p
  BY <1>1, <1>23, <1>24, <1>25
<1> HIDE DEF l
<1>28. ASSUME NEW k \in 1..n
       PROVE  /\ l.at[k + 1] = l.at[k] + Len(SizeLine(r, k)) + Len(r.chunks[k]) + 2
              /\ Stands(w, l.at[k], SizeLine(r, k))
              /\ Stands(w, l.at[k] + Len(SizeLine(r, k)), r.chunks[k])
              /\ Stands(w, l.at[k] + Len(SizeLine(r, k)) + Len(r.chunks[k]), PayloadEnd(r, k))
  <2>1. k \in 1..n + 1 /\ k + 1 \in 1..n + 1 /\ k \in 1..Len(frames) /\ k \in 1..Len(r.chunks)
    BY <1>1, <1>3 DEF n
  <2>2. l.at[k] = r.head + f[k] /\ l.at[k + 1] = r.head + f[k + 1]
    BY <2>1, <1>27
  <2>3. /\ f[k] \in Nat /\ f[k + 1] = f[k] + Len(frames[k])
        /\ Stands(w, r.head + f[k], frames[k])
    BY <2>1, <1>1, <1>3, <1>10, <1>21, FlattenedStands DEF A
  <2>4. frames[k] = Frame(r, k)
    BY <1>3
  <2> DEFINE q == l.at[k]
  <2>5. q \in Nat /\ Stands(w, q, Frame(r, k))
    BY <2>2, <2>3, <2>4, <1>1
  <2>6. Len(SizeLine(r, k)) \in Nat /\ Len(r.chunks[k]) \in Nat
    BY <2>1, FrameParts
  <2>7. l.at[k + 1] = l.at[k] + Len(SizeLine(r, k)) + Len(r.chunks[k]) + 2
    <3>1. /\ Len(frames[k]) = Len(SizeLine(r, k)) + Len(r.chunks[k]) + 2
          /\ l.at[k + 1] = r.head + (f[k] + Len(frames[k]))
      BY <2>2, <2>3, <2>4, <1>0
    <3>2. f[k] \in Nat /\ r.head \in Nat
      BY <2>3, <1>1
    <3>3. l.at[k + 1] = r.head + (f[k] + (Len(SizeLine(r, k)) + Len(r.chunks[k]) + 2))
      BY <3>1, Zenon
    <3>4. l.at[k + 1] = (r.head + f[k]) + Len(SizeLine(r, k)) + Len(r.chunks[k]) + 2
      BY <3>2, <3>3, <2>6
    <3> QED
      BY <3>4, <2>2, Zenon
  <2> HIDE DEF q
  <2>8. /\ Stands(w, q, SizeLine(r, k))
        /\ Stands(w, q + Len(SizeLine(r, k)), r.chunks[k])
        /\ Stands(w, q + Len(SizeLine(r, k)) + Len(r.chunks[k]), PayloadEnd(r, k))
    BY <2>1, <2>5, FrameStands
  <2> QED
    BY <2>7, <2>8 DEF q
<1>29. Stands(w, l.at[n + 1], SizeLine(r, n + 1)) /\ l.at[n + 1] = r.head + a
  <2>1. n + 1 \in 1..n + 1 /\ ~(n + 1 <= n)
    BY <1>1
  <2> QED
    BY <2>1, <1>21, <1>24, <1>27 DEF z
<1>30. ASSUME NEW i \in 1..m
       PROVE  /\ l.line[i + 1] = l.line[i] + Len(TrailText(r, i))
              /\ Stands(w, l.line[i], TrailText(r, i))
  <2>1. /\ i \in 1..m + 1 /\ i + 1 \in 1..m + 1 /\ i <= m /\ i \in 1..Len(lines)
    BY <1>1, <1>4
  <2>2. l.line[i] = b + g[i] /\ l.line[i + 1] = b + g[i + 1]
    BY <2>1, <1>27
  <2>3. TrailText(r, i) = lines[i]
    BY <2>1, <1>4 DEF TrailText, m
  <2>4. /\ g[i] \in Nat /\ Len(lines[i]) \in Nat /\ g[i + 1] = g[i] + Len(lines[i])
        /\ Stands(w, b + g[i], lines[i])
    BY <2>1, <1>4, <1>10, <1>23, FlattenedStands DEF B
  <2> QED
    BY <2>2, <2>3, <2>4, <1>23
<1>31. Stands(w, l.line[m + 1], TrailText(r, m + 1))
  <2>1. m + 1 \in 1..m + 1 /\ ~(m + 1 <= m)
    BY <1>1
  <2>2. TrailText(r, m + 1) = CRLF
    BY <2>1 DEF TrailText, m
  <2> QED
    BY <2>1, <2>2, <1>23, <1>25, <1>27
<1>32. l.at[1] = r.head /\ l.line[1] = l.at[n + 1] + Len(SizeLine(r, n + 1))
  <2>1. 1 \in 1..n + 1 /\ 1 \in 1..m + 1
    BY <1>1
  <2>2. l.at[1] = r.head + f[1] /\ l.line[1] = b + g[1]
    BY <2>1, <1>27
  <2>3. r.head + 0 = r.head /\ b + 0 = b
    BY <1>1, <1>23
  <2>4. b = l.at[n + 1] + Len(z)
    BY <1>26, <1>29, Zenon
  <2> QED
    BY <2>2, <2>3, <2>4, <1>24, <1>25, Zenon DEF z
<1>33. (\A k \in 1..n + 1 : k \in 1..n \/ k = n + 1) /\ \A i \in 1..m + 1 : i \in 1..m \/ i = m + 1
  BY <1>1
<1>34. \A k \in 1..n + 1 : Stands(w, l.at[k], SizeLine(r, k))
  BY <1>28, <1>29, <1>33
<1>35. \A i \in 1..m + 1 : Stands(w, l.line[i], TrailText(r, i))
  BY <1>30, <1>31, <1>33
<1>36. IsLayout(l, r)
  BY <1>10, <1>27, <1>28, <1>30, <1>32, <1>34, <1>35, Zenon DEF IsLayout, n, m, w
<1> QED
  BY <1>17, <1>36 DEF w

-----------------------------------------------------------------------------
(* Reading on, and the helpers of the decoder.                             *)

\* Reading on in step with a sequence.
InStep(w, u, P, p, n) == \A j \in 1..n : w[u + j] = P[p + j]

\* Reading on in step with a sequence.
LEMMA ReadOn ==
  ASSUME NEW S, NEW P \in Seq(S), NEW p \in Nat, NEW n \in Nat, p + n <= Len(P),
         NEW w, NEW u \in Nat, InStep(w, u, P, p, n)
  PROVE  SubSeq(P, 1, p) \o SubSeq(w, u + 1, u + n) = SubSeq(P, 1, p + n)
<1> DEFINE a == SubSeq(P, 1, p)
           b == SubSeq(w, u + 1, u + n)
           c == SubSeq(P, 1, p + n)
<1>0. Len(P) \in Nat /\ (\A i \in 1..Len(P) : P[i] \in S) /\ \A j \in 1..n : w[u + j] = P[p + j]
  BY LenProperties, ElementOfSeq DEF InStep
<1>1. a \in Seq(S) /\ Len(a) = p /\ \A i \in 1..p : a[i] = P[i]
  <2>1. \A i \in 1..p : P[i] \in S
    BY <1>0
  <2>2. /\ a \in Seq(S) /\ Len(a) = IF 1 <= p THEN p - 1 + 1 ELSE 0
        /\ \A i \in 1..p - 1 + 1 : a[i] = P[1 + i - 1]
    BY <2>1, SubSeqProperties
  <2> HIDE DEF a
  <2>3. p - 1 + 1 = p /\ \A i \in 1..p : 1 + i - 1 = i
    OBVIOUS
  <2> QED
    BY <2>2, <2>3
<1>2. c \in Seq(S) /\ Len(c) = p + n /\ \A i \in 1..p + n : c[i] = P[i]
  <2> DEFINE q == p + n
  <2>0. q \in Nat
    OBVIOUS
  <2> HIDE DEF q
  <2>1. \A i \in 1..q : P[i] \in S
    BY <1>0, <2>0 DEF q
  <2>2. /\ SubSeq(P, 1, q) \in Seq(S) /\ Len(SubSeq(P, 1, q)) = IF 1 <= q THEN q - 1 + 1 ELSE 0
        /\ \A i \in 1..q - 1 + 1 : SubSeq(P, 1, q)[i] = P[1 + i - 1]
    BY <2>0, <2>1, SubSeqProperties
  <2>3. q - 1 + 1 = q /\ \A i \in 1..q : 1 + i - 1 = i
    BY <2>0
  <2>4. c = SubSeq(P, 1, q)
    BY DEF q
  <2> HIDE DEF c
  <2> QED
    BY <2>0, <2>2, <2>3, <2>4 DEF q
<1>3. b \in Seq(S) /\ Len(b) = n /\ \A j \in 1..n : b[j] = P[p + j]
  <2>1. \A i \in u + 1..u + n : w[i] \in S
    <3> SUFFICES ASSUME NEW i \in u + 1..u + n PROVE w[i] \in S
      OBVIOUS
    <3> DEFINE j == i - u
    <3>1. j \in 1..n /\ i = u + j /\ p + j \in 1..Len(P)
      BY <1>0
    <3> HIDE DEF j
    <3> QED
      BY <3>1, <1>0
  <2>2. u + 1 \in Int /\ u + n \in Int /\ (u + n) - (u + 1) + 1 = n
    OBVIOUS
  <2> DEFINE x == u + 1
             y == u + n
  <2>3. /\ SubSeq(w, x, y) \in Seq(S) /\ Len(SubSeq(w, x, y)) = IF x <= y THEN y - x + 1 ELSE 0
        /\ \A i \in 1..y - x + 1 : SubSeq(w, x, y)[i] = w[x + i - 1]
    <3>1. x \in Int /\ y \in Int /\ \A i \in x..y : w[i] \in S
      BY <2>1
    <3> HIDE DEF x, y
    <3> QED
      BY <3>1, SubSeqProperties
  <2>4. y - x + 1 = n /\ (x <= y <=> 1 <= n) /\ b = SubSeq(w, x, y) /\ \A j \in 1..n : x + j - 1 = u + j
    BY <2>2
  <2> HIDE DEF x, y, b
  <2>5. b \in Seq(S) /\ Len(b) = n
    BY <2>3, <2>4
  <2>6. \A j \in 1..n : b[j] = w[u + j]
    BY <2>3, <2>4
  <2> QED
    BY <1>0, <2>5, <2>6
<1> HIDE DEF a, b, c
<1> DEFINE d == a \o b
<1>4. /\ d \in Seq(S) /\ Len(d) = Len(a) + Len(b)
      /\ \A j \in 1..Len(a) : d[j] = a[j]
      /\ \A j \in 1..Len(b) : d[Len(a) + j] = b[j]
  <2>1. a \in Seq(S) /\ b \in Seq(S)
    BY <1>1, <1>3
  <2> QED
    BY <2>1, Joined
<1> HIDE DEF d
<1>5. ASSUME NEW i \in 1..p + n
      PROVE  d[i] = c[i]
  <2>1. CASE i \in 1..p
    BY <2>1, <1>1, <1>2, <1>4
  <2>2. CASE i \notin 1..p
    <3> DEFINE j == i - p
    <3>1. j \in 1..n /\ i = p + j
      BY <2>2
    <3> HIDE DEF j
    <3> QED
      BY <3>1, <1>1, <1>2, <1>3, <1>4
  <2> QED
    BY <2>1, <2>2
<1>6. Len(d) = p + n
  BY <1>1, <1>3, <1>4
<1>7. d = c
  BY <1>2, <1>4, <1>5, <1>6, SeqEqual
<1> QED
  BY <1>7 DEF a, b, c, d

\* A part of the payload stands in both, y bytes of it read before.
LEMMA ReadPart ==
  ASSUME NEW P, NEW w, NEW c, Len(c) \in Nat, NEW q \in Nat, NEW a \in Nat,
         Stands(P, a, c), Stands(w, q, c),
         NEW y \in Nat, NEW x \in Nat, y + x <= Len(c)
  PROVE  InStep(w, q + y, P, a + y, x)
<1> SUFFICES ASSUME NEW j \in 1..x PROVE w[(q + y) + j] = P[(a + y) + j]
  BY DEF InStep
<1>1. y + j \in 1..Len(c) /\ (q + y) + j = q + (y + j) /\ (a + y) + j = a + (y + j)
  OBVIOUS
<1>2. w[q + (y + j)] = c[y + j] /\ P[a + (y + j)] = c[y + j]
  BY <1>1 DEF Stands
<1> QED
  BY <1>1, <1>2

\* What poll_fill_line looks for.
LEMMA EndsLine ==
  ASSUME NEW s \in Seq(Bytes), Len(s) >= 2
  PROVE  SubSeq(s, Len(s) - 1, Len(s)) = CRLF <=> s[Len(s) - 1] = CR /\ s[Len(s)] = LF
<1> DEFINE n == Len(s)
           m == n - 1
           e == SubSeq(s, m, n)
<1>1. n \in Nat /\ n >= 2 /\ \A i \in 1..n : s[i] \in Bytes
  BY LenProperties, ElementOfSeq
<1>2. e \in Seq(Bytes) /\ Len(e) = 2 /\ e[1] = s[m] /\ e[2] = s[n]
  <2> HIDE DEF n
  <2>1. m \in Int /\ n \in Int /\ m <= n /\ n - m + 1 = 2 /\ m + 1 - 1 = m /\ m + 2 - 1 = n
        /\ \A i \in m..n : s[i] \in Bytes
    BY <1>1
  <2> HIDE DEF m
  <2>2. /\ SubSeq(s, m, n) \in Seq(Bytes) /\ Len(SubSeq(s, m, n)) = IF m <= n THEN n - m + 1 ELSE 0
        /\ \A i \in 1..n - m + 1 : SubSeq(s, m, n)[i] = s[m + i - 1]
    BY <2>1, SubSeqProperties
  <2> HIDE DEF e
  <2>3. e = SubSeq(s, m, n)
    BY DEF e
  <2> QED
    BY <2>1, <2>2, <2>3
<1> HIDE DEF e
<1>3. e = CRLF <=> e[1] = CR /\ e[2] = LF
  <2>1. ASSUME e[1] = CR, e[2] = LF PROVE e = CRLF
    <3>1. \A i \in 1..Len(e) : e[i] = CRLF[i]
      BY <2>1, <1>2, ByteSeqs
    <3> QED
      BY <3>1, <1>2, ByteSeqs, SeqEqual
  <2> QED
    BY <2>1, ByteSeqs
<1> QED
  BY <1>2, <1>3 DEF e, m, n

\* The first k bytes of a line.
Gathered(s, k, t) == k \in 0..Len(t) /\ s = SubSeq(t, 1, k)

\* The first k elements of a sequence.
LEMMA Prefix ==
  ASSUME NEW S, NEW t \in Seq(S), NEW k \in 0..Len(t)
  PROVE  /\ SubSeq(t, 1, k) \in Seq(S) /\ Len(SubSeq(t, 1, k)) = k
         /\ \A i \in 1..k : SubSeq(t, 1, k)[i] = t[i]
<1>0. Len(t) \in Nat /\ \A i \in 1..Len(t) : t[i] \in S
  BY LenProperties, ElementOfSeq
<1>1. k \in Int /\ \A i \in 1..k : t[i] \in S
  BY <1>0
<1> DEFINE a == SubSeq(t, 1, k)
<1>2. /\ a \in Seq(S) /\ Len(a) = IF 1 <= k THEN k - 1 + 1 ELSE 0
      /\ \A i \in 1..k - 1 + 1 : a[i] = t[1 + i - 1]
  BY <1>1, SubSeqProperties
<1> HIDE DEF a
<1>3. k - 1 + 1 = k /\ \A i \in 1..k : 1 + i - 1 = i
  BY <1>0
<1> QED
  BY <1>0, <1>2, <1>3 DEF a

\* A line is complete when all of it has been gathered, and not before.
LEMMA GatheredEnds ==
  ASSUME NEW t, IsText(t), NEW s, NEW k, Gathered(s, k, t)
  PROVE  /\ s \in Seq(Bytes) /\ Len(s) = k /\ k \in Nat /\ Len(t) \in Nat
         /\ (Len(s) >= 2 /\ SubSeq(s, Len(s) - 1, Len(s)) = CRLF) <=> k = Len(t)
         /\ k = Len(t) => s = t
<1>0. Len(t) \in Nat /\ t \in Seq(Bytes)
  BY LenProperties DEF IsText
<1>1. /\ s \in Seq(Bytes) /\ Len(s) = k /\ k \in 0..Len(t)
      /\ \A i \in 1..k : s[i] = t[i]
  BY <1>0, Prefix DEF Gathered
<1>2. ASSUME k >= 2
      PROVE  SubSeq(s, Len(s) - 1, Len(s)) = CRLF <=> k = Len(t)
  <2>1. SubSeq(s, Len(s) - 1, Len(s)) = CRLF <=> s[Len(s) - 1] = CR /\ s[Len(s)] = LF
    BY <1>1, <1>2, EndsLine
  <2>2. s[Len(s) - 1] = t[k - 1] /\ s[Len(s)] = t[k]
    BY <1>0, <1>1, <1>2
  <2>3. CASE k = Len(t)
    BY <2>1, <2>2, <2>3 DEF IsText
  <2>4. CASE k # Len(t)
    <3> DEFINE j == k - 1
    <3>1. j \in 1..Len(t) - 2 /\ k = j + 1 /\ k - 1 = j
      BY <2>4, <1>0, <1>1, <1>2
    <3> HIDE DEF j
    <3>2. ~(t[j] = CR /\ t[j + 1] = LF)
      BY <3>1 DEF IsText
    <3> QED
      BY <3>1, <3>2, <2>1, <2>2, <2>4
  <2> QED
    BY <2>3, <2>4
<1>3. Len(t) >= 2
  BY DEF IsText
<1>4. k = Len(t) => s = t
  BY <1>0, SubSeqFull DEF Gathered
<1> QED
  BY <1>0, <1>1, <1>2, <1>3, <1>4

\* The next byte of the wire is the next byte of the line.
LEMMA GatheredOn ==
  ASSUME NEW t, IsText(t), NEW s, NEW k, Gathered(s, k, t), k # Len(t),
         NEW w, NEW a \in Nat, Stands(w, a, t)
  PROVE  Gathered(s \o SubSeq(w, a + k + 1, a + k + 1), k + 1, t)
<1>0. Len(t) \in Nat /\ t \in Seq(Bytes) /\ k \in Nat /\ k + 1 <= Len(t)
  BY LenProperties DEF IsText, Gathered
<1> DEFINE u == a + k
<1>1. u \in Nat /\ \A j \in 1..1 : w[u + j] = t[k + j]
  <2>1. u \in Nat /\ k + 1 \in 1..Len(t) /\ u + 1 = a + (k + 1)
    BY <1>0
  <2>2. w[a + (k + 1)] = t[k + 1]
    BY <2>1 DEF Stands
  <2> QED
    BY <2>1, <2>2
<1> HIDE DEF u
<1>2. SubSeq(t, 1, k) \o SubSeq(w, u + 1, u + 1) = SubSeq(t, 1, k + 1)
  BY <1>0, <1>1, ReadOn DEF InStep
<1> QED
  BY <1>0, <1>2 DEF Gathered, u

\* The least of a set of naturals.
LEMMA LeastIs ==
  ASSUME NEW S, S \subseteq Nat, NEW x \in S, \A y \in S : x <= y
  PROVE  Least(S) = x
<1>1. Least(S) \in S /\ \A y \in S : Least(S) <= y
  BY DEF Least
<1>2. Least(S) \in Nat /\ x \in Nat /\ Least(S) <= x /\ x <= Least(S)
  BY <1>1
<1> HIDE DEF Least
<1> QED
  BY <1>2

\* The least of two and of three numbers.
LEMMA LeastOfThree ==
  ASSUME NEW a \in Nat, NEW b \in Nat, NEW c \in Nat
  PROVE  /\ Least({a, b}) \in {a, b} /\ Least({a, b}) <= a /\ Least({a, b}) <= b
         /\ Least({a, b, c}) \in {a, b, c}
         /\ Least({a, b, c}) <= a /\ Least({a, b, c}) <= b /\ Least({a, b, c}) <= c
<1>1. \E x \in {a, b} : \A y \in {a, b} : x <= y
  OBVIOUS
<1>2. \E x \in {a, b, c} : \A y \in {a, b, c} : x <= y
  OBVIOUS
<1> QED
  BY <1>1, <1>2 DEF Least

\* The first part of a joined sequence.
LEMMA FirstPart ==
  ASSUME NEW S, NEW a \in Seq(S), NEW b \in Seq(S)
  PROVE  SubSeq(a \o b, 1, Len(a)) = a
<1> DEFINE c == a \o b
           n == Len(a)
           d == SubSeq(c, 1, n)
<1>1. /\ c \in Seq(S) /\ n \in Nat /\ Len(b) \in Nat /\ Len(c) = n + Len(b)
      /\ \A j \in 1..n : c[j] = a[j]
  BY Joined
<1> HIDE DEF c
<1>2. n \in 0..Len(c)
  BY <1>1
<1>3. d \in Seq(S) /\ Len(d) = n /\ \A i \in 1..n : d[i] = c[i]
  <2> HIDE DEF n
  <2> QED
    BY <1>1, <1>2, Prefix
<1> HIDE DEF d
<1>4. d = a
  <2>1. \A i \in 1..Len(d) : d[i] = a[i]
    BY <1>1, <1>3
  <2> QED
    BY <2>1, <1>3, SeqEqual
<1> QED
  BY <1>4 DEF c, n, d

\* parse_chunk_size: what stands before an extension.
LEMMA DigitsOf ==
  ASSUME NEW z \in Seq(Bytes), \A j \in 1..Len(z) : z[j] # SEMI,
         NEW e \in Seq(Bytes), e # <<>> => e[1] = SEMI
  PROVE  BeforeSemi(z \o e) = z
<1> DEFINE s == z \o e
           n == Len(z)
           semis == {i \in 1..Len(s) : s[i] = SEMI}
<1>1. /\ s \in Seq(Bytes) /\ n \in Nat /\ Len(e) \in Nat /\ Len(s) = n + Len(e)
      /\ \A j \in 1..n : s[j] = z[j]
      /\ \A j \in 1..Len(e) : s[n + j] = e[j]
  BY Joined
<1>2. SubSeq(s, 1, n) = z
  BY FirstPart
<1> HIDE DEF s
<1>3. ToSet(s) = {s[i] : i \in 1..Len(s)}
  BY <1>1, LenProperties DEF ToSet
<1>4. CASE e = <<>>
  <2>1. Len(s) = n
    BY <1>1, <1>4, EmptySeq
  <2>2. SEMI \notin ToSet(s)
    BY <1>1, <1>3, <2>1
  <2>3. BeforeSemi(s) = s
    BY <2>2 DEF BeforeSemi
  <2>4. s = z
    BY <1>4, ConcatEmptySeq DEF s
  <2> QED
    BY <2>3, <2>4 DEF s
<1>5. CASE e # <<>>
  <2>1. Len(e) > 0 /\ e[1] = SEMI
    BY <1>1, <1>5, EmptySeq
  <2>2. n + 1 \in 1..Len(s) /\ s[n + 1] = SEMI
    BY <1>1, <2>1
  <2>3. SEMI \in ToSet(s)
    BY <1>3, <2>2
  <2>4. Least(semis) = n + 1
    <3>1. semis \subseteq Nat /\ n + 1 \in semis
      BY <1>1, <2>2
    <3>2. ASSUME NEW y \in semis PROVE n + 1 <= y
      <4>1. y \in 1..Len(s) /\ s[y] = SEMI /\ y \notin 1..n
        BY <3>2, <1>1
      <4> QED
        BY <4>1, <1>1
    <3> HIDE DEF semis, n
    <3> QED
      BY <3>1, <3>2, LeastIs
  <2>5. BeforeSemi(s) = SubSeq(s, 1, Least(semis) - 1)
    BY <2>3 DEF BeforeSemi
  <2> HIDE DEF semis
  <2>6. (n + 1) - 1 = n
    BY <1>1
  <2> QED
    BY <1>2, <2>4, <2>5, <2>6 DEF s
<1> QED
  BY <1>4, <1>5

-----------------------------------------------------------------------------
(* Where the decoder is, and where a step of it leads.                     *)

\* The layout of a chunked request.
Plan(r) == CHOOSE l : IsLayout(l, r)

\* Where the decoder is, having read u bytes of the connection, with s in its
\* scratch buffer, left bytes of a chunk to go and g given to the ingest.
AtSize(r, k, u, s, g) ==
  /\ k \in 1..Len(r.chunks) + 1
  /\ Gathered(s, u - Plan(r).at[k], SizeLine(r, k))
  /\ g = SubSeq(Payload(r), 1, Plan(r).paid[k])
AtPayload(r, k, u, n, g) ==
  /\ k \in 1..Len(r.chunks) /\ n \in 0..Len(r.chunks[k])
  /\ u = Plan(r).at[k] + Len(SizeLine(r, k)) + (Len(r.chunks[k]) - n)
  /\ g = SubSeq(Payload(r), 1, Plan(r).paid[k] + (Len(r.chunks[k]) - n))
AtTrailer(r, i, u, s) ==
  /\ i \in 1..Len(r.trailers) + 1
  /\ Gathered(s, u - Plan(r).line[i], TrailText(r, i))

Decodes(r, u, d, n, s, g) ==
  \/ d = "size" /\ \E k \in 1..Len(r.chunks) + 1 : AtSize(r, k, u, s, g)
  \/ d = "payload" /\ s = <<>> /\ \E k \in 1..Len(r.chunks) : AtPayload(r, k, u, n, g)
  \/ d = "cr" /\ s = <<>> /\ \E k \in 1..Len(r.chunks) : AtPayload(r, k, u, 0, g)
  \/ d = "lf" /\ s = <<>> /\ \E k \in 1..Len(r.chunks) : AtPayload(r, k, u - 1, 0, g)
  \/ d = "trailers" /\ g = Payload(r) /\ \E i \in 1..Len(r.trailers) + 1 : AtTrailer(r, i, u, s)
  \/ d = "done" /\ g = Payload(r)

\* What the layout says, with the types of what it speaks of.
LEMMA LayoutFacts ==
  ASSUME NEW r, RequestOk(r), r.chunked
  PROVE  LET l == Plan(r)
             n == Len(r.chunks)
             m == Len(r.trailers)
         IN
         /\ IsLayout(l, r)
         /\ n \in Nat /\ m \in Nat /\ r.head \in Nat
         /\ Wire(r) \in Seq(Bytes) /\ r.head <= Len(Wire(r))
         /\ Payload(r) \in Seq(Bytes) /\ Len(Payload(r)) \in Nat
         /\ l.at \in [1..n + 1 -> Nat] /\ l.at[1] = r.head
         /\ l.line \in [1..m + 1 -> Nat] /\ l.line[1] = l.at[n + 1] + Len(SizeLine(r, n + 1))
         /\ l.paid \in [1..n + 1 -> 0..Len(Payload(r))] /\ l.paid[1] = 0 /\ l.paid[n + 1] = Len(Payload(r))
         /\ \A k \in 1..n + 1 : /\ IsText(SizeLine(r, k)) /\ Len(SizeLine(r, k)) \in Nat
                                /\ Stands(Wire(r), l.at[k], SizeLine(r, k))
         /\ \A k \in 1..n :
              /\ Len(r.chunks[k]) \in Nat /\ Len(r.chunks[k]) # 0
              /\ l.at[k + 1] = l.at[k] + Len(SizeLine(r, k)) + Len(r.chunks[k]) + 2
              /\ l.paid[k + 1] = l.paid[k] + Len(r.chunks[k])
              /\ Stands(Payload(r), l.paid[k], r.chunks[k])
              /\ Stands(Wire(r), l.at[k] + Len(SizeLine(r, k)), r.chunks[k])
              /\ Stands(Wire(r), l.at[k] + Len(SizeLine(r, k)) + Len(r.chunks[k]), PayloadEnd(r, k))
         /\ \A i \in 1..m + 1 : /\ IsText(TrailText(r, i)) /\ Len(TrailText(r, i)) \in Nat
                                /\ Stands(Wire(r), l.line[i], TrailText(r, i))
         /\ \A i \in 1..m : /\ l.line[i + 1] = l.line[i] + Len(TrailText(r, i))
                            /\ Len(TrailText(r, i)) > 2
<1> DEFINE l == Plan(r)
           n == Len(r.chunks)
           m == Len(r.trailers)
<1>1. Wire(r) \in Seq(Bytes) /\ r.head <= Len(Wire(r)) /\ IsLayout(l, r)
  BY LayoutExists DEF Plan
<1>2. n \in Nat /\ m \in Nat /\ r.head \in Nat /\ r.chunks \in Seq(Seq(Bytes))
  BY LenProperties DEF RequestOk
<1>3. Payload(r) \in Seq(Bytes) /\ Len(Payload(r)) \in Nat
  BY <1>2, Offsets, LenProperties DEF Payload
<1>4. \A k \in 1..n + 1 : IsText(SizeLine(r, k)) /\ Len(SizeLine(r, k)) \in Nat
  BY SizeTexts
<1>5. ASSUME NEW i \in 1..m + 1
      PROVE  /\ IsText(TrailText(r, i)) /\ Len(TrailText(r, i)) \in Nat
             /\ i \in 1..m => Len(TrailText(r, i)) > 2
  <2>1. CASE i \in 1..m
    <3>0. i <= m
      BY <2>1, <1>2
    <3>1. OneLine(r.trailers[i]) /\ r.trailers[i] # <<>> /\ TrailText(r, i) = r.trailers[i] \o CRLF
      <4>1. OneLine(r.trailers[i]) /\ r.trailers[i] # <<>>
        BY <2>1 DEF RequestOk
      <4> QED
        BY <4>1, <3>0 DEF TrailText
    <3>2. Len(r.trailers[i]) > 0
      BY <3>1, EmptySeq DEF OneLine
    <3> QED
      BY <3>1, <3>2, LineText
  <2>2. CASE i \notin 1..m
    <3>1. TrailText(r, i) = CRLF
      BY <2>2, <1>2 DEF TrailText
    <3>2. IsText(CRLF)
      BY ByteSeqs DEF IsText
    <3> QED
      BY <3>1, <3>2, <2>2, ByteSeqs
  <2> QED
    BY <2>1, <2>2
<1>6. IsOffsets(l.paid, r.chunks)
  BY <1>1 DEF IsLayout
<1>7. /\ l.paid \in [1..n + 1 -> 0..Len(Payload(r))] /\ l.paid[1] = 0 /\ l.paid[n + 1] = Len(Payload(r))
      /\ \A k \in 1..n : l.paid[k + 1] = l.paid[k] + Len(r.chunks[k]) /\ Stands(Payload(r), l.paid[k], r.chunks[k])
  BY <1>6 DEF IsOffsets, Payload, Stands
<1>8. \A k \in 1..n : Len(r.chunks[k]) \in Nat /\ Len(r.chunks[k]) # 0
  <2> SUFFICES ASSUME NEW k \in 1..n PROVE Len(r.chunks[k]) \in Nat /\ Len(r.chunks[k]) # 0
    OBVIOUS
  <2>1. r.chunks[k] \in Seq(Bytes) /\ r.chunks[k] # <<>>
    BY <1>2, ElementOfSeq DEF RequestOk
  <2> QED
    BY <2>1, LenProperties, EmptySeq
<1>9. \A i \in 1..m : i \in 1..m + 1
  BY <1>2
<1> HIDE DEF l
<1>10. /\ l.at \in [1..n + 1 -> Nat] /\ l.at[1] = r.head
       /\ l.line \in [1..m + 1 -> Nat] /\ l.line[1] = l.at[n + 1] + Len(SizeLine(r, n + 1))
       /\ \A k \in 1..n + 1 : Stands(Wire(r), l.at[k], SizeLine(r, k))
       /\ \A k \in 1..n :
              /\ l.at[k + 1] = l.at[k] + Len(SizeLine(r, k)) + Len(r.chunks[k]) + 2
              /\ Stands(Wire(r), l.at[k] + Len(SizeLine(r, k)), r.chunks[k])
              /\ Stands(Wire(r), l.at[k] + Len(SizeLine(r, k)) + Len(r.chunks[k]), PayloadEnd(r, k))
       /\ \A i \in 1..m + 1 : Stands(Wire(r), l.line[i], TrailText(r, i))
       /\ \A i \in 1..m : l.line[i + 1] = l.line[i] + Len(TrailText(r, i))
  BY <1>1, Zenon DEF IsLayout
<1> HIDE DEF n, m
<1>11. \A i \in 1..m : Len(TrailText(r, i)) > 2
  BY <1>5, <1>9
<1> QED
  BY <1>1, <1>2, <1>3, <1>4, <1>5, <1>7, <1>8, <1>10, <1>11, Zenon DEF l, n, m

\* The places of the layout, one at a time.
LEMMA Places ==
  ASSUME NEW r, RequestOk(r), r.chunked
  PROVE  /\ Len(r.chunks) \in Nat /\ Len(r.trailers) \in Nat
         /\ \A k \in 1..Len(r.chunks) + 1 :
              Plan(r).at[k] \in Nat /\ Plan(r).paid[k] \in Nat /\ Plan(r).paid[k] <= Len(Payload(r))
         /\ \A k \in 1..Len(r.chunks) :
              /\ k \in 1..Len(r.chunks) + 1 /\ k + 1 \in 1..Len(r.chunks) + 1
              /\ Len(r.chunks[k]) \in Nat /\ Len(r.chunks[k]) # 0
         /\ \A i \in 1..Len(r.trailers) + 1 : Plan(r).line[i] \in Nat
<1> DEFINE n == Len(r.chunks)
           m == Len(r.trailers)
           at == Plan(r).at
           paid == Plan(r).paid
           line == Plan(r).line
           p == Len(Payload(r))
<1>1. /\ n \in Nat /\ m \in Nat /\ p \in Nat
      /\ at \in [1..n + 1 -> Nat] /\ paid \in [1..n + 1 -> 0..p] /\ line \in [1..m + 1 -> Nat]
  BY LayoutFacts
<1>2. \A k \in 1..n : Len(r.chunks[k]) \in Nat /\ Len(r.chunks[k]) # 0
  BY LayoutFacts
<1> HIDE DEF n, m, at, paid, line, p
<1>3. (\A k \in 1..n + 1 : at[k] \in Nat /\ paid[k] \in Nat /\ paid[k] <= p) /\ \A i \in 1..m + 1 : line[i] \in Nat
  BY <1>1
<1>4. \A k \in 1..n : k \in 1..n + 1 /\ k + 1 \in 1..n + 1
  BY <1>1
<1> QED
  BY <1>1, <1>2, <1>3, <1>4, Zenon DEF n, m, at, paid, line, p

\* What LineComplete says of the scratch buffer.
Whole(s) == Len(s) >= 2 /\ SubSeq(s, Len(s) - 1, Len(s)) = CRLF

\* Another byte of a line.
LEMMA DecodesByte ==
  ASSUME NEW r, RequestOk(r), r.chunked,
         NEW u \in Nat, NEW d \in {"size", "trailers"}, NEW n, NEW s, NEW g,
         Decodes(r, u, d, n, s, g), ~Whole(s)
  PROVE  Decodes(r, u + 1, d, n, s \o SubSeq(Wire(r), u + 1, u + 1), g)
<1> DEFINE l == Plan(r)
<1>0. /\ \A k \in 1..Len(r.chunks) + 1 : l.at[k] \in Nat
      /\ \A k \in 1..Len(r.trailers) + 1 : l.line[k] \in Nat
      /\ \A k \in 1..Len(r.chunks) + 1 : IsText(SizeLine(r, k)) /\ Stands(Wire(r), l.at[k], SizeLine(r, k))
      /\ \A i \in 1..Len(r.trailers) + 1 : IsText(TrailText(r, i)) /\ Stands(Wire(r), l.line[i], TrailText(r, i))
  BY LayoutFacts
<1> HIDE DEF l
<1>1. ASSUME NEW a \in Nat, NEW t, IsText(t), Stands(Wire(r), a, t), Gathered(s, u - a, t)
      PROVE  Gathered(s \o SubSeq(Wire(r), u + 1, u + 1), (u + 1) - a, t)
  <2> DEFINE k == u - a
  <2>1. a + k = u /\ k + 1 = (u + 1) - a
    BY <1>1
  <2>2. Gathered(s, k, t)
    BY <1>1
  <2> HIDE DEF k
  <2>3. k # Len(t)
    BY <1>1, <2>2, GatheredEnds DEF Whole
  <2>4. Gathered(s \o SubSeq(Wire(r), a + k + 1, a + k + 1), k + 1, t)
    BY <1>1, <2>2, <2>3, GatheredOn
  <2> QED
    BY <2>1, <2>4
<1>2. CASE d = "size"
  <2>1. PICK k \in 1..Len(r.chunks) + 1 : AtSize(r, k, u, s, g)
    BY <1>2 DEF Decodes
  <2>2. AtSize(r, k, u + 1, s \o SubSeq(Wire(r), u + 1, u + 1), g)
    BY <2>1, <1>0, <1>1 DEF AtSize, l
  <2> QED
    BY <1>2, <2>2, Zenon DEF Decodes
<1>3. CASE d = "trailers"
  <2>1. PICK i \in 1..Len(r.trailers) + 1 : AtTrailer(r, i, u, s)
    BY <1>3 DEF Decodes
  <2>2. AtTrailer(r, i, u + 1, s \o SubSeq(Wire(r), u + 1, u + 1))
    BY <2>1, <1>0, <1>1 DEF AtTrailer, l
  <2>3. g = Payload(r)
    BY <1>3 DEF Decodes
  <2> QED
    BY <1>3, <2>2, <2>3, Zenon DEF Decodes
<1> QED
  BY <1>2, <1>3

\* A line that does not end within its limit is longer than the limit.
LEMMA LineFits ==
  ASSUME NEW r, RequestOk(r), r.chunked, WellFramed(r), MaxSizeLine \in Nat, MaxTrailer \in Nat,
         MaxTrailer >= 2,
         NEW u \in Nat, NEW d \in {"size", "trailers"}, NEW n, NEW s, NEW g,
         Decodes(r, u, d, n, s, g), ~Whole(s)
  PROVE  Len(s) \in Nat /\ Len(s) < (IF d = "size" THEN MaxSizeLine ELSE MaxTrailer)
<1> DEFINE l == Plan(r)
<1>0. /\ Len(r.chunks) \in Nat /\ Len(r.trailers) \in Nat
      /\ \A k \in 1..Len(r.chunks) + 1 : IsText(SizeLine(r, k))
      /\ \A i \in 1..Len(r.trailers) + 1 : IsText(TrailText(r, i))
  BY LayoutFacts
<1>1. ASSUME NEW t, IsText(t), NEW k, Gathered(s, k, t)
      PROVE  Len(t) \in Nat /\ Len(s) \in Nat /\ Len(s) < Len(t)
  <2>1. Len(s) = k /\ k \in Nat /\ Len(t) \in Nat /\ k # Len(t)
    BY <1>1, GatheredEnds DEF Whole
  <2> QED
    BY <2>1, <1>1 DEF Gathered
<1>2. CASE d = "size"
  <2>1. PICK k \in 1..Len(r.chunks) + 1 : AtSize(r, k, u, s, g)
    BY <1>2 DEF Decodes
  <2>2. Len(SizeLine(r, k)) \in Nat /\ Len(s) \in Nat /\ Len(s) < Len(SizeLine(r, k))
    BY <2>1, <1>0, <1>1 DEF AtSize
  <2>3. Len(SizeLine(r, k)) <= MaxSizeLine
    BY DEF WellFramed
  <2> QED
    BY <1>2, <2>2, <2>3
<1>3. CASE d = "trailers"
  <2>1. PICK i \in 1..Len(r.trailers) + 1 : AtTrailer(r, i, u, s)
    BY <1>3 DEF Decodes
  <2>2. Len(TrailText(r, i)) \in Nat /\ Len(s) \in Nat /\ Len(s) < Len(TrailText(r, i))
    BY <2>1, <1>0, <1>1 DEF AtTrailer
  <2>3. Len(TrailText(r, i)) <= MaxTrailer
    <3>1. CASE i \in 1..Len(r.trailers)
      <4>1. Len(r.trailers[i]) + 2 <= MaxTrailer
        BY <3>1 DEF WellFramed
      <4>2. OneLine(r.trailers[i])
        BY <3>1 DEF RequestOk
      <4>3. TrailText(r, i) = r.trailers[i] \o CRLF
        BY <3>1, <1>0 DEF TrailText
      <4> QED
        BY <4>1, <4>2, <4>3, LineText
    <3>2. CASE i \notin 1..Len(r.trailers)
      <4>1. TrailText(r, i) = CRLF
        BY <3>2, <1>0 DEF TrailText
      <4> QED
        BY <4>1, ByteSeqs
    <3> QED
      BY <3>1, <3>2
  <2> QED
    BY <1>3, <2>2, <2>3
<1> QED
  BY <1>2, <1>3

\* A size line is parsed to the size of its chunk, or to none.
LEMMA ParsedSize ==
  ASSUME NEW r, RequestOk(r), NEW k \in 1..Len(r.chunks) + 1,
         NEW s, s = SizeLine(r, k)
  PROVE  LET digits == Digits(SubSeq(s, 1, Len(s) - 2)) IN
         /\ ~IsHex(digits) => r.flaw = "size"
         /\ IsHex(digits) => Hex(digits) = IF k <= Len(r.chunks) THEN Len(r.chunks[k]) ELSE 0
<1> DEFINE z == Size(r, k)
           e == r.exts[k]
           t == z \o e
<1>1. /\ z \in Seq(Bytes) /\ e \in Seq(Bytes) /\ s = t \o CRLF
      /\ \A j \in 1..Len(z) : z[j] # SEMI
      /\ e # <<>> => e[1] = SEMI
  BY SizeTexts
<1> HIDE DEF z, e
<1>2. Digits(t) = Number(z)
  BY <1>1, DigitsOf DEF Digits
<1>3. t \in Seq(Bytes) /\ Len(t) \in Nat /\ Len(s) = Len(t) + 2 /\ SubSeq(s, 1, Len(t)) = t
  <2>1. t \in Seq(Bytes)
    BY <1>1, Joined
  <2> HIDE DEF t
  <2>2. CRLF \in Seq(Bytes) /\ Len(CRLF) = 2 /\ s = t \o CRLF
    BY <1>1, ByteSeqs
  <2>3. SubSeq(t \o CRLF, 1, Len(t)) = t
    BY <2>1, <2>2, FirstPart
  <2>4. Len(t) \in Nat /\ Len(t \o CRLF) = Len(t) + Len(CRLF)
    BY <2>1, <2>2, Joined
  <2> QED
    BY <2>1, <2>2, <2>3, <2>4
<1> HIDE DEF t
<1>4. Len(s) - 2 = Len(t)
  BY <1>3
<1>5. Digits(SubSeq(s, 1, Len(s) - 2)) = Number(z)
  BY <1>2, <1>3, <1>4
<1>6. /\ ~IsHex(Number(z)) => r.flaw = "size"
      /\ IsHex(Number(z)) => Hex(Number(z)) = IF k <= Len(r.chunks) THEN Len(r.chunks[k]) ELSE 0
  <2>1. /\ IsHex(Number(r.sizes[k]))
        /\ Hex(Number(r.sizes[k])) = IF k <= Len(r.chunks) THEN Len(r.chunks[k]) ELSE 0
    BY DEF RequestOk
  <2>2. ~IsHex(Number(<<>>))
    <3>1. {i \in 1..Len(<<>>) : <<>>[i] \notin Blanks} = {}
      <4>1. Len(<<>>) = 0
        OBVIOUS
      <4>2. 1..0 = {}
        OBVIOUS
      <4> QED
        BY <4>1, <4>2
    <3>2. Trim(<<>>) = <<>>
      BY <3>1, Zenon DEF Trim
    <3>3. Number(<<>>) = <<>>
      BY <3>2, Zenon DEF Number, Unsigned
    <3> QED
      BY <3>3, Zenon DEF IsHex
  <2> QED
    BY <2>1, <2>2, Zenon DEF z, Size
<1> QED
  BY <1>5, <1>6, Zenon

\* A complete size line: the payload or the trailers follow.
LEMMA DecodesSize ==
  ASSUME NEW r, RequestOk(r), r.chunked,
         NEW u \in Nat, NEW n, NEW s, NEW g,
         Decodes(r, u, "size", n, s, g), Whole(s)
  PROVE  LET digits == Digits(SubSeq(s, 1, Len(s) - 2)) IN
         /\ ~IsHex(digits) => ~WellFramed(r)
         /\ IsHex(digits) => /\ Hex(digits) \in Nat
                             /\ Decodes(r, u, IF Hex(digits) = 0 THEN "trailers" ELSE "payload",
                                        Hex(digits), <<>>, g)
<1> DEFINE l == Plan(r)
           digits == Digits(SubSeq(s, 1, Len(s) - 2))
<1>0. /\ Len(r.chunks) \in Nat /\ Len(r.trailers) \in Nat
      /\ \A k \in 1..Len(r.chunks) + 1 : /\ IsText(SizeLine(r, k)) /\ Len(SizeLine(r, k)) \in Nat
                                         /\ l.at[k] \in Nat /\ l.paid[k] \in Nat
      /\ l.line[1] = l.at[Len(r.chunks) + 1] + Len(SizeLine(r, Len(r.chunks) + 1))
      /\ l.paid[Len(r.chunks) + 1] = Len(Payload(r)) /\ Payload(r) \in Seq(Bytes)
      /\ \A i \in 1..Len(r.trailers) + 1 : IsText(TrailText(r, i))
  <2>1. \A k \in 1..Len(r.chunks) + 1 : l.at[k] \in Nat /\ l.paid[k] \in Nat
    BY Places
  <2> HIDE DEF l
  <2> QED
    BY <2>1, LayoutFacts DEF l
<1>1. PICK k \in 1..Len(r.chunks) + 1 : AtSize(r, k, u, s, g)
  BY DEF Decodes
<1> HIDE DEF l
<1>2. s = SizeLine(r, k) /\ u = l.at[k] + Len(SizeLine(r, k))
  <2>1. Gathered(s, u - l.at[k], SizeLine(r, k))
    BY <1>1 DEF AtSize, l
  <2>2. u - l.at[k] = Len(SizeLine(r, k)) /\ s = SizeLine(r, k)
    BY <2>1, <1>0, GatheredEnds DEF Whole
  <2> QED
    BY <2>2, <1>0
<1>3. /\ ~IsHex(digits) => r.flaw = "size"
      /\ IsHex(digits) => Hex(digits) = IF k <= Len(r.chunks) THEN Len(r.chunks[k]) ELSE 0
  BY <1>2, ParsedSize
<1> HIDE DEF digits
<1>4. ~IsHex(digits) => ~WellFramed(r)
  BY <1>3 DEF WellFramed
<1>5. ASSUME IsHex(digits), k <= Len(r.chunks)
      PROVE  Hex(digits) \in Nat /\ Hex(digits) # 0 /\ Decodes(r, u, "payload", Hex(digits), <<>>, g)
  <2> DEFINE n1 == Hex(digits)
  <2>1. n1 = Len(r.chunks[k]) /\ n1 \in Nat /\ n1 # 0 /\ k \in 1..Len(r.chunks)
    <3>1. k \in 1..Len(r.chunks)
      BY <1>0, <1>5
    <3>2. Len(r.chunks[k]) \in Nat /\ Len(r.chunks[k]) # 0
      BY <3>1, Places
    <3> QED
      BY <3>1, <3>2, <1>3, <1>5
  <2> HIDE DEF n1
  <2>2. g = SubSeq(Payload(r), 1, l.paid[k])
    BY <1>1 DEF AtSize, l
  <2>3. l.paid[k] + (Len(r.chunks[k]) - n1) = l.paid[k]
        /\ l.at[k] + Len(SizeLine(r, k)) + (Len(r.chunks[k]) - n1) = u
        /\ n1 \in 0..Len(r.chunks[k])
    BY <2>1, <1>0, <1>2
  <2>4. AtPayload(r, k, u, n1, g)
    BY <2>1, <2>2, <2>3 DEF AtPayload, l
  <2>5. Decodes(r, u, "payload", n1, <<>>, g)
    BY <2>1, <2>4, Zenon DEF Decodes
  <2> QED
    BY <2>1, <2>5, Zenon DEF n1
<1>6. ASSUME IsHex(digits), ~(k <= Len(r.chunks))
      PROVE  Hex(digits) = 0 /\ Decodes(r, u, "trailers", Hex(digits), <<>>, g)
  <2>1. Hex(digits) = 0 /\ k = Len(r.chunks) + 1
    BY <1>0, <1>3, <1>6
  <2>2. g = Payload(r)
    BY <2>1, <1>0, <1>1, SubSeqFull DEF AtSize, l
  <2>3. u = l.line[1]
    BY <2>1, <1>0, <1>2
  <2>4. AtTrailer(r, 1, u, <<>>)
    <3>1. 1 \in 1..Len(r.trailers) + 1 /\ IsText(TrailText(r, 1)) /\ u - l.line[1] = 0
      BY <2>3, <1>0
    <3>2. TrailText(r, 1) \in Seq(Bytes) /\ Len(TrailText(r, 1)) \in Nat
      BY <3>1, LenProperties DEF IsText
    <3>3. Gathered(<<>>, 0, TrailText(r, 1))
      BY <3>2, SubSeqEmpty DEF Gathered
    <3> QED
      BY <3>1, <3>3 DEF AtTrailer, l
  <2>5. \E i \in 1..Len(r.trailers) + 1 : AtTrailer(r, i, u, <<>>)
    BY <2>4, <1>0
  <2> QED
    BY <2>1, <2>2, <2>5, Zenon DEF Decodes
<1>7. 0 \in Nat
  OBVIOUS
<1> QED
  BY <1>4, <1>5, <1>6, <1>7, Zenon DEF digits

\* A complete trailer line: another one or the end.
LEMMA DecodesTrailer ==
  ASSUME NEW r, RequestOk(r), r.chunked,
         NEW u \in Nat, NEW n, NEW s, NEW g,
         Decodes(r, u, "trailers", n, s, g), Whole(s)
  PROVE  Decodes(r, u, IF SubSeq(s, 1, Len(s) - 2) = <<>> THEN "done" ELSE "trailers", n, <<>>, g)
<1> DEFINE l == Plan(r)
           m == Len(r.trailers)
<1>0. /\ m \in Nat
      /\ \A i \in 1..m + 1 : IsText(TrailText(r, i)) /\ Len(TrailText(r, i)) \in Nat /\ l.line[i] \in Nat
      /\ \A i \in 1..m : /\ l.line[i + 1] = l.line[i] + Len(TrailText(r, i))
                         /\ Len(TrailText(r, i)) > 2
  BY LayoutFacts
<1>1. PICK i \in 1..m + 1 : AtTrailer(r, i, u, s)
  BY DEF Decodes
<1> HIDE DEF l
<1>2. s = TrailText(r, i) /\ u = l.line[i] + Len(TrailText(r, i)) /\ s \in Seq(Bytes) /\ Len(s) >= 2
  <2>1. Gathered(s, u - l.line[i], TrailText(r, i))
    BY <1>1 DEF AtTrailer, l
  <2>2. u - l.line[i] = Len(TrailText(r, i)) /\ s = TrailText(r, i) /\ s \in Seq(Bytes)
    BY <2>1, <1>0, GatheredEnds DEF Whole
  <2> QED
    BY <2>2, <1>0 DEF Whole
<1>3. g = Payload(r)
  BY DEF Decodes
<1>4. SubSeq(s, 1, Len(s) - 2) = <<>> <=> Len(s) = 2
  <2> DEFINE j == Len(s) - 2
  <2>1. j \in 0..Len(s) /\ (j = 0 <=> Len(s) = 2)
    BY <1>0, <1>2
  <2> HIDE DEF j
  <2>2. SubSeq(s, 1, j) \in Seq(Bytes) /\ Len(SubSeq(s, 1, j)) = j
    BY <1>2, <2>1, Prefix
  <2>3. SubSeq(s, 1, j) = <<>> <=> j = 0
    BY <2>1, <2>2, EmptySeq
  <2> QED
    BY <2>1, <2>3 DEF j
<1>5. CASE i \in 1..m
  <2>1. i + 1 \in 1..m + 1 /\ u = l.line[i + 1] /\ Len(s) # 2
    <3>1. l.line[i + 1] = l.line[i] + Len(TrailText(r, i)) /\ Len(TrailText(r, i)) > 2
      BY <1>0, <1>5
    <3>2. i + 1 \in 1..m + 1
      BY <1>0, <1>5
    <3>3. \A x \in Nat : x > 2 => x # 2
      OBVIOUS
    <3>4. Len(s) \in Nat /\ Len(s) = Len(TrailText(r, i))
      BY <1>0, <1>2
    <3> QED
      BY <3>1, <3>2, <3>3, <3>4, <1>2, Zenon
  <2>2. AtTrailer(r, i + 1, u, <<>>)
    <3>1. IsText(TrailText(r, i + 1)) /\ u - l.line[i + 1] = 0
      BY <2>1, <1>0
    <3>2. TrailText(r, i + 1) \in Seq(Bytes) /\ Len(TrailText(r, i + 1)) \in Nat
      BY <3>1, LenProperties DEF IsText
    <3>3. Gathered(<<>>, 0, TrailText(r, i + 1))
      BY <3>2, SubSeqEmpty DEF Gathered
    <3> QED
      BY <3>1, <3>3, <2>1 DEF AtTrailer, l
  <2>3. Decodes(r, u, "trailers", n, <<>>, g)
    BY <2>1, <2>2, <1>3, Zenon DEF Decodes
  <2> QED
    BY <2>1, <2>3, <1>4
<1>6. CASE i \notin 1..m
  <2>1. TrailText(r, i) = CRLF
    BY <1>0, <1>6 DEF TrailText
  <2>2. Len(s) = 2
    BY <2>1, <1>2, ByteSeqs
  <2>3. Decodes(r, u, "done", n, <<>>, g)
    BY <1>3, Zenon DEF Decodes
  <2> QED
    BY <2>2, <2>3, <1>4
<1> QED
  BY <1>5, <1>6

\* x more bytes of the payload have been given.
Gives(r, x, g, h) ==
  \E p \in Nat : /\ p + x <= Len(Payload(r)) /\ g = SubSeq(Payload(r), 1, p)
                 /\ h = SubSeq(Payload(r), 1, p + x)

\* A read of a payload: the bytes are the payload's, and they were not yet given.
LEMMA DecodesRead ==
  ASSUME NEW r, RequestOk(r), r.chunked,
         NEW u \in Nat, NEW n \in Nat, NEW x \in 1..n, NEW s, NEW g,
         Decodes(r, u, "payload", n, s, g)
  PROVE  /\ Decodes(r, u + x, "payload", n - x, s, g \o SubSeq(Wire(r), u + 1, u + x))
         /\ Gives(r, x, g, g \o SubSeq(Wire(r), u + 1, u + x))
<1> DEFINE l == Plan(r)
           P == Payload(r)
           w == Wire(r)
<1>1. s = <<>> /\ \E k \in 1..Len(r.chunks) : AtPayload(r, k, u, n, g)
  BY DEF Decodes
<1>2. PICK k \in 1..Len(r.chunks) : AtPayload(r, k, u, n, g)
  BY <1>1
<1> DEFINE c == r.chunks[k]
           q == l.at[k] + Len(SizeLine(r, k))
           a == l.paid[k]
           y == Len(c) - n
<1>3. /\ Len(c) \in Nat /\ q \in Nat /\ a \in Nat /\ a + Len(c) <= Len(P)
      /\ P \in Seq(Bytes) /\ Len(P) \in Nat
      /\ Stands(P, a, c) /\ Stands(w, q, c)
  <2>1. /\ k \in 1..Len(r.chunks) + 1 /\ k + 1 \in 1..Len(r.chunks) + 1
        /\ l.at[k] \in Nat /\ l.paid[k] \in Nat /\ l.paid[k + 1] <= Len(P) /\ Len(c) \in Nat
    BY Places
  <2>2. /\ Len(P) \in Nat /\ P \in Seq(Bytes)
        /\ l.paid[k + 1] = l.paid[k] + Len(c)
        /\ Stands(P, l.paid[k], c) /\ Stands(w, l.at[k] + Len(SizeLine(r, k)), c)
    BY LayoutFacts
  <2>3. Len(SizeLine(r, k)) \in Nat
    BY <2>1, LayoutFacts
  <2> HIDE DEF l, P, w, c
  <2>4. q \in Nat
    <3>1. \A i, j \in Nat : i + j \in Nat
      OBVIOUS
    <3> QED
      BY <2>1, <2>3, <3>1, Zenon
  <2>5. a + Len(c) <= Len(P)
    BY <2>1, <2>2
  <2> QED
    BY <2>1, <2>2, <2>4, <2>5, Zenon
<1>4. n \in 0..Len(c) /\ u = q + y /\ g = SubSeq(P, 1, a + y)
  BY <1>2 DEF AtPayload
<1> HIDE DEF l, P, w, c, q, a
<1>5. y \in Nat /\ y + x <= Len(c) /\ Len(c) - (n - x) = y + x /\ n - x \in 0..Len(c)
  BY <1>3, <1>4
<1> DEFINE p == a + y
<1>6. p \in Nat /\ p + x = a + (y + x) /\ u + x = q + (y + x) /\ x \in Nat
  <2> HIDE DEF y
  <2> QED
    BY <1>3, <1>4, <1>5
<1> HIDE DEF y, p
<1>7. p = a + y
  BY DEF p
<1>9. p + x <= Len(P) /\ SubSeq(P, 1, p) \o SubSeq(w, u + 1, u + x) = SubSeq(P, 1, p + x)
  <2>1. InStep(w, q + y, P, a + y, x)
    BY <1>3, <1>5, <1>6, ReadPart
  <2>2. InStep(w, u, P, p, x)
    BY <2>1, <1>4, <1>7
  <2>3. p + x <= Len(P)
    BY <1>3, <1>5, <1>6
  <2> QED
    BY <2>2, <2>3, <1>3, <1>6, ReadOn
<1>10. g = SubSeq(P, 1, p)
  BY <1>4 DEF p
<1>11. AtPayload(r, k, u + x, n - x, g \o SubSeq(w, u + 1, u + x))
  <2> DEFINE n1 == n - x
             u1 == u + x
             g1 == g \o SubSeq(w, u + 1, u + x)
  <2>1. n1 \in 0..Len(c) /\ u1 = q + (Len(c) - n1) /\ g1 = SubSeq(P, 1, a + (Len(c) - n1))
    BY <1>5, <1>6, <1>9, <1>10 DEF y
  <2> HIDE DEF n1, u1, g1
  <2>2. AtPayload(r, k, u1, n1, g1)
    BY <2>1 DEF AtPayload, c, q, a, l, P
  <2> QED
    BY <2>2 DEF n1, u1, g1
<1>12. Decodes(r, u + x, "payload", n - x, s, g \o SubSeq(w, u + 1, u + x))
  BY <1>1, <1>11, Zenon DEF Decodes
<1> QED
  BY <1>6, <1>9, <1>10, <1>12, Zenon DEF Gives, P, w

\* A payload that is over is followed by its end.
LEMMA DecodesOver ==
  ASSUME NEW r, NEW u, NEW s, NEW g, Decodes(r, u, "payload", 0, s, g)
  PROVE  Decodes(r, u, "cr", 0, s, g)
BY Zenon DEF Decodes

\* What follows a payload is its end, and then the next size line.
LEMMA DecodesEnd ==
  ASSUME NEW r, RequestOk(r), r.chunked,
         NEW u \in Nat, NEW d \in {"cr", "lf"}, NEW n, NEW s, NEW g,
         Decodes(r, u, d, n, s, g)
  PROVE  LET b == SubSeq(Wire(r), u + 1, u + 1)
             x == IF d = "cr" THEN <<CR>> ELSE <<LF>>
         IN
         /\ b # x => ~WellFramed(r)
         /\ b = x => Decodes(r, u + 1, IF d = "cr" THEN "lf" ELSE "size", n, s, g)
<1> DEFINE l == Plan(r)
           w == Wire(r)
           b == SubSeq(w, u + 1, u + 1)
<1>1. s = <<>>
  BY DEF Decodes
<1>0. /\ \A k \in 1..Len(r.chunks) :
           /\ l.at[k + 1] = l.at[k] + Len(SizeLine(r, k)) + Len(r.chunks[k]) + 2
           /\ l.paid[k + 1] = l.paid[k] + Len(r.chunks[k])
           /\ Stands(w, l.at[k] + Len(SizeLine(r, k)) + Len(r.chunks[k]), PayloadEnd(r, k))
      /\ \A k \in 1..Len(r.chunks) + 1 : IsText(SizeLine(r, k)) /\ Len(SizeLine(r, k)) \in Nat
  BY LayoutFacts
<1>10. /\ \A k \in 1..Len(r.chunks) + 1 : l.at[k] \in Nat /\ l.paid[k] \in Nat
      /\ \A k \in 1..Len(r.chunks) :
            k \in 1..Len(r.chunks) + 1 /\ k + 1 \in 1..Len(r.chunks) + 1 /\ Len(r.chunks[k]) \in Nat
  BY Places
<1> HIDE DEF l, w
\* The byte that is read, when it is one of the payload's end.
<1>2. ASSUME NEW v \in Bytes, w[u + 1] = v
      PROVE  b = <<v>>
  <2>1. u + 1 \in Int /\ \A i \in u + 1..u + 1 : w[i] \in Bytes
    BY <1>2
  <2> DEFINE z == u + 1
  <2>2. z \in Int /\ z - z + 1 = 1 /\ z + 1 - 1 = z /\ z <= z
    BY <2>1
  <2> HIDE DEF z
  <2>3. /\ SubSeq(w, z, z) \in Seq(Bytes) /\ Len(SubSeq(w, z, z)) = IF z <= z THEN z - z + 1 ELSE 0
        /\ \A i \in 1..z - z + 1 : SubSeq(w, z, z)[i] = w[z + i - 1]
    BY <2>1, <2>2, SubSeqProperties DEF z
  <2>4. b = SubSeq(w, z, z)
    BY DEF z
  <2> HIDE DEF b
  <2>5. b \in Seq(Bytes) /\ Len(b) = 1 /\ b[1] = v
    <3>1. Len(b) = 1 /\ b \in Seq(Bytes)
      BY <2>2, <2>3, <2>4
    <3>2. b[1] = w[z + 1 - 1]
      BY <2>2, <2>3, <2>4
    <3>3. w[z] = v
      BY <1>2 DEF z
    <3> QED
      BY <2>2, <3>1, <3>2, <3>3
  <2> DEFINE e == <<v>>
  <2>6. e \in Seq(Bytes) /\ Len(e) = 1 /\ e[1] = v
    BY ByteSeqs
  <2> HIDE DEF e
  <2>7. b = e
    BY <2>5, <2>6, SeqEqual
  <2> QED
    BY <2>7 DEF e
<1>3. CR \in Bytes /\ LF \in Bytes /\ <<CR>> # <<LF>>
  BY DEF CR, LF, Bytes
<1> HIDE DEF b
<1>4. ASSUME NEW k \in 1..Len(r.chunks), NEW j \in 1..2,
             u + 1 = l.at[k] + Len(SizeLine(r, k)) + Len(r.chunks[k]) + j
      PROVE  \/ b = (IF j = 1 THEN <<CR>> ELSE <<LF>>)
             \/ ~WellFramed(r)
  <2> DEFINE q == l.at[k] + Len(SizeLine(r, k)) + Len(r.chunks[k])
  <2>1. q \in Nat /\ u + 1 = q + j
    <3>1. l.at[k] \in Nat /\ Len(SizeLine(r, k)) \in Nat /\ Len(r.chunks[k]) \in Nat
      BY <1>0, <1>10
    <3>2. \A x, y, z \in Nat : x + y + z \in Nat
      OBVIOUS
    <3>3. q \in Nat
      BY <3>1, <3>2, Zenon
    <3> QED
      BY <3>3, <1>4
  <2>2. Stands(w, q, PayloadEnd(r, k))
    BY <1>0
  <2> HIDE DEF q
  <2>3. CASE WellFramed(r)
    <3>1. PayloadEnd(r, k) = CRLF
      BY <2>3 DEF PayloadEnd, WellFramed
    <3>2. w[q + j] = CRLF[j]
      BY <3>1, <2>2, ByteSeqs DEF Stands
    <3>3. w[u + 1] = IF j = 1 THEN CR ELSE LF
      BY <3>2, <2>1, ByteSeqs
    <3> QED
      BY <3>3, <1>2, <1>3
  <2> QED
    BY <2>3
<1>5. CASE d = "cr"
  <2>1. PICK k \in 1..Len(r.chunks) : AtPayload(r, k, u, 0, g)
    BY <1>5 DEF Decodes
  <2>2. u + 1 = l.at[k] + Len(SizeLine(r, k)) + Len(r.chunks[k]) + 1
    <3>1. l.at[k] \in Nat /\ Len(SizeLine(r, k)) \in Nat /\ Len(r.chunks[k]) \in Nat
      BY <1>0, <1>10
    <3> QED
      BY <3>1, <2>1 DEF AtPayload, l
  <2>3. b = <<CR>> \/ ~WellFramed(r)
    BY <2>2, <1>4
  <2>4. AtPayload(r, k, (u + 1) - 1, 0, g)
    <3>1. (u + 1) - 1 = u
      OBVIOUS
    <3> QED
      BY <3>1, <2>1
  <2>5. Decodes(r, u + 1, "lf", n, s, g)
    BY <2>4, <1>1, Zenon DEF Decodes
  <2> QED
    BY <2>3, <2>5, <1>5 DEF b, w
<1>6. CASE d = "lf"
  <2>1. PICK k \in 1..Len(r.chunks) : AtPayload(r, k, u - 1, 0, g)
    BY <1>6 DEF Decodes
  <2>2. /\ l.at[k] \in Nat /\ Len(SizeLine(r, k)) \in Nat /\ Len(r.chunks[k]) \in Nat
        /\ k \in 1..Len(r.chunks) + 1 /\ k + 1 \in 1..Len(r.chunks) + 1 /\ l.paid[k] \in Nat
    BY <1>0, <1>10
  <2>3. u - 1 = l.at[k] + Len(SizeLine(r, k)) + Len(r.chunks[k])
        /\ g = SubSeq(Payload(r), 1, l.paid[k] + Len(r.chunks[k]))
    BY <2>1, <2>2 DEF AtPayload, l
  <2>4. b = <<LF>> \/ ~WellFramed(r)
    <3>1. u + 1 = l.at[k] + Len(SizeLine(r, k)) + Len(r.chunks[k]) + 2
      BY <2>2, <2>3
    <3> QED
      BY <3>1, <1>4
  <2>5. (u + 1) - l.at[k + 1] = 0
    <3>1. l.at[k + 1] = l.at[k] + Len(SizeLine(r, k)) + Len(r.chunks[k]) + 2
      BY <1>0
    <3> QED
      BY <3>1, <2>2, <2>3
  <2>6. AtSize(r, k + 1, u + 1, <<>>, g)
    <3>1. IsText(SizeLine(r, k + 1)) /\ Len(SizeLine(r, k + 1)) \in Nat
      BY <2>2, <1>0
    <3>2. Gathered(<<>>, 0, SizeLine(r, k + 1))
      BY <3>1, SubSeqEmpty DEF Gathered, IsText
    <3>3. g = SubSeq(Payload(r), 1, l.paid[k + 1])
      BY <2>3, <1>0
    <3> QED
      BY <2>2, <2>5, <3>2, <3>3 DEF AtSize, l
  <2>7. Decodes(r, u + 1, "size", n, s, g)
    BY <2>2, <2>6, <1>1, Zenon DEF Decodes
  <2> QED
    BY <2>4, <2>7, <1>3, <1>6 DEF b, w
<1> QED
  BY <1>5, <1>6

\* Where the decoder begins.
LEMMA DecodesFirst ==
  ASSUME NEW r, RequestOk(r), r.chunked, NEW n
  PROVE  Decodes(r, r.head, "size", n, <<>>, <<>>)
<1>0. /\ Len(r.chunks) \in Nat /\ r.head \in Nat
      /\ Plan(r).at[1] = r.head /\ Plan(r).paid[1] = 0 /\ Payload(r) \in Seq(Bytes)
      /\ \A k \in 1..Len(r.chunks) + 1 : IsText(SizeLine(r, k)) /\ Len(SizeLine(r, k)) \in Nat
  BY LayoutFacts
<1>1. 1 \in 1..Len(r.chunks) + 1 /\ r.head - Plan(r).at[1] = 0
  BY <1>0
<1>2. Gathered(<<>>, 0, SizeLine(r, 1))
  BY <1>0, <1>1, SubSeqEmpty DEF Gathered, IsText
<1>3. <<>> = SubSeq(Payload(r), 1, Plan(r).paid[1])
  BY <1>0, SubSeqEmpty
<1>4. AtSize(r, 1, r.head, <<>>, <<>>)
  BY <1>1, <1>2, <1>3 DEF AtSize
<1> QED
  BY <1>1, <1>4, Zenon DEF Decodes

-----------------------------------------------------------------------------
(* An upload without chunks.                                               *)

\* An upload without chunks, u bytes of its connection read and g given.
Reads(r, u, n, g) ==
  /\ u >= r.head /\ u <= Len(Wire(r))
  /\ g = SubSeq(Payload(r), 1, u - r.head)
  /\ r.length => n = Len(Wire(r)) - u

\* The bytes of an upload without chunks are its head and its payload.
LEMMA PlainFacts ==
  ASSUME NEW r, RequestOk(r), ~r.chunked
  PROVE  /\ r.head \in Nat /\ Payload(r) \in Seq(Bytes) /\ Len(Payload(r)) \in Nat
         /\ Wire(r) \in Seq(Bytes)
         /\ Len(Wire(r)) = r.head + Len(Payload(r))
         /\ Stands(Wire(r), r.head, Payload(r))
<1> DEFINE zeros == [i \in 1..r.head |-> 0]
           P == Payload(r)
<1>1. r.head \in Nat /\ P \in Seq(Bytes)
  BY Offsets DEF RequestOk, Payload
<1>2. zeros \in Seq(Bytes) /\ Len(zeros) = r.head
  <2>1. 0 \in Bytes
    BY DEF Bytes
  <2> QED
    BY <2>1, <1>1
<1>3. Wire(r) = zeros \o P
  BY DEF Wire
<1> HIDE DEF zeros, P
<1>6. zeros \in Seq(Bytes) /\ P \in Seq(Bytes)
  BY <1>1, <1>2
<1> DEFINE w == zeros \o P
<1>4. /\ w \in Seq(Bytes) /\ Len(w) = Len(zeros) + Len(P) /\ Len(P) \in Nat
      /\ \A j \in 1..Len(P) : w[Len(zeros) + j] = P[j]
  BY <1>6, Joined
<1> HIDE DEF w
<1>5. Wire(r) = w
  BY <1>3 DEF w
<1> QED
  BY <1>1, <1>2, <1>4, <1>5 DEF P, Stands

\* A read of an upload without chunks gives the payload's next bytes.
LEMMA ReadsRead ==
  ASSUME NEW r, RequestOk(r), ~r.chunked,
         NEW u \in Nat, NEW n, NEW m \in Nat, NEW x \in Nat, NEW g, Reads(r, u, n, g),
         u + x <= Len(Wire(r)), r.length => m = n - x
  PROVE  /\ Reads(r, u + x, m, g \o SubSeq(Wire(r), u + 1, u + x))
         /\ Gives(r, x, g, g \o SubSeq(Wire(r), u + 1, u + x))
<1> DEFINE P == Payload(r)
           w == Wire(r)
           h == r.head
           p == u - h
<1>1. /\ h \in Nat /\ P \in Seq(Bytes) /\ Len(P) \in Nat
      /\ Len(w) = h + Len(P) /\ Stands(w, h, P)
  BY PlainFacts
<1>2. u >= h /\ g = SubSeq(P, 1, p) /\ u + x <= Len(w) /\ (r.length => n = Len(w) - u)
  BY DEF Reads
<1> HIDE DEF P, w, h
<1>3. p \in Nat /\ p + x <= Len(P) /\ (u + x) - h = p + x /\ u + x >= h
  BY <1>1, <1>2
<1>5. r.length => m = Len(w) - (u + x)
  <2>1. Len(w) \in Nat
    BY <1>1
  <2> QED
    BY <2>1, <1>2
<1> HIDE DEF p
<1>6. SubSeq(P, 1, p) \o SubSeq(w, u + 1, u + x) = SubSeq(P, 1, p + x)
  <2>1. Stands(P, 0, P) /\ 0 + p = p /\ u = h + p
    <3>1. p \in Nat /\ u = h + p
      BY <1>1, <1>2 DEF p
    <3>2. Stands(P, 0, P)
      BY DEF Stands
    <3> QED
      BY <3>1, <3>2
  <2>2. 0 + Len(P) <= Len(P) /\ p + x <= Len(P) /\ 0 \in Nat
    BY <1>1, <1>3
  <2>3. InStep(w, h + p, P, 0 + p, x)
    BY <1>1, <1>3, <2>1, <2>2, ReadPart
  <2>4. InStep(w, u, P, p, x)
    BY <2>1, <2>3
  <2> QED
    BY <1>1, <1>3, <2>4, ReadOn
<1> DEFINE g1 == g \o SubSeq(w, u + 1, u + x)
           u1 == u + x
<1>7. u1 >= h /\ u1 <= Len(w) /\ g1 = SubSeq(P, 1, u1 - h) /\ (r.length => m = Len(w) - u1)
  BY <1>2, <1>3, <1>5, <1>6
<1> HIDE DEF u1, g1
<1>8. Reads(r, u1, m, g1)
  BY <1>7 DEF Reads, P, w, h
<1> QED
  BY <1>2, <1>3, <1>6, <1>8, Zenon DEF Gives, u1, g1, P, w

\* Where the body of an upload without chunks begins.
LEMMA ReadsFirst ==
  ASSUME NEW r, RequestOk(r), ~r.chunked
  PROVE  Reads(r, r.head, Len(Payload(r)), <<>>)
<1>1. /\ r.head \in Nat /\ Payload(r) \in Seq(Bytes) /\ Len(Payload(r)) \in Nat
      /\ Len(Wire(r)) = r.head + Len(Payload(r))
  BY PlainFacts
<1>2. r.head - r.head = 0 /\ SubSeq(Payload(r), 1, 0) = <<>>
  BY <1>1, SubSeqEmpty
<1> QED
  BY <1>1, <1>2 DEF Reads

\* All of the connection is all of the payload.
LEMMA ReadsAll ==
  ASSUME NEW r, RequestOk(r), ~r.chunked, NEW u, NEW n, NEW g, Reads(r, u, n, g), u = Len(Wire(r))
  PROVE  g = Payload(r)
<1>1. /\ r.head \in Nat /\ Payload(r) \in Seq(Bytes) /\ Len(Payload(r)) \in Nat
      /\ Len(Wire(r)) = r.head + Len(Payload(r))
  BY PlainFacts
<1>2. u - r.head = Len(Payload(r))
  BY <1>1
<1> QED
  BY <1>1, <1>2, SubSeqFull DEF Reads

-----------------------------------------------------------------------------
(* The invariant.                                                          *)

\* The types and bounds of one connection.
Sizes ==
  /\ BodyTypeOK
  /\ req \in Requests /\ fault \in Faults
  /\ sent \in Nat /\ fetched \in Nat /\ used \in Nat
  /\ broken \in BOOLEAN /\ closed \in BOOLEAN

\* What has been answered, by where the handler is.
Answers == {<<>>, <<"100">>, <<"200">>, <<"400">>, <<"405">>, <<"100", "200">>}
           \cup {<<status>> : status \in Refusals}
Talk ==
  /\ pc \in {"accept", "head", "refuse", "upfront"} => replies = <<>>
  /\ pc = "hyper" => replies \in {<<>>, <<"400">>, <<"405">>}
  /\ pc = "body" => replies = UpfrontReply
  /\ pc = "closed" => replies \in Answers

\* A client that closes early is broken, or has sent all of an unframed stream.
Closing ==
  closed /\ ~broken /\ pc \notin {"hyper", "closed"} => Unframed /\ sent = Len(Wire(req))

\* Nothing of the body happens before it.
Fresh ==
  /\ pc \in {"accept", "hyper", "head", "refuse", "upfront"} => outcome = "none"
  /\ pc \in {"accept", "head"} => given = <<>> /\ dec = "size" /\ scratch = <<>>

\* What was read so far, and what the ingest was given of it.
Flow ==
  pc \in {"upfront", "body"} /\ outcome = "none" =>
    IF req.chunked THEN Decodes(req, used, dec, left, scratch, given)
    ELSE Reads(req, used, left, given)

BodyInv == Sizes /\ Talk /\ Closing /\ Fresh /\ Flow

\* A step keeps the invariant and is a step of the promise.
Fine == BodyInv' /\ [Upload!UploadNext]_(Upload!uvars)

\* What the assumptions say of a request and of the limits.
LEMMA Requested ==
  ASSUME NEW r \in Requests
  PROVE  /\ RequestOk(r) /\ Wire(r) \in Seq(Bytes) /\ Len(Wire(r)) \in Nat
         /\ Payload(r) \in Seq(Bytes) /\ Len(Payload(r)) \in Nat
         /\ r.head \in Nat /\ r.head <= Len(Wire(r))
         /\ VerbLen \in Nat /\ BlockSize \in Nat /\ MaxSizeLine \in Nat /\ MaxTrailer \in Nat
         /\ ReadSize \in Nat /\ ReadSize > 0 /\ BlockSize > 0 /\ MaxTrailer >= 2
<1>1. RequestOk(r)
  BY BodyAssumption
<1>2. /\ VerbLen \in Nat /\ BlockSize \in Nat /\ MaxSizeLine \in Nat /\ MaxTrailer \in Nat
      /\ ReadSize \in Nat /\ ReadSize > 0 /\ BlockSize > 0 /\ MaxTrailer >= 2
  BY BodyAssumption
<1>3. Wire(r) \in Seq(Bytes) /\ Payload(r) \in Seq(Bytes) /\ r.head \in Nat /\ r.head <= Len(Wire(r))
  <2>1. CASE r.chunked
    BY <1>1, <2>1, LayoutFacts
  <2>2. CASE ~r.chunked
    <3>1. \A x, y \in Nat : x <= x + y
      OBVIOUS
    <3> QED
      BY <1>1, <2>2, <3>1, PlainFacts
  <2> QED
    BY <2>1, <2>2
<1>4. Len(Wire(r)) \in Nat /\ Len(Payload(r)) \in Nat
  BY <1>3, LenProperties
<1> QED
  BY <1>1, <1>2, <1>3, <1>4

-----------------------------------------------------------------------------
(* The steps of the client and those before the body.                      *)

\* The initial states.
LEMMA BodyInitInv == BodyInit => BodyInv /\ Upload!UploadInit
<1> SUFFICES ASSUME BodyInit PROVE BodyInv /\ Upload!UploadInit
  OBVIOUS
<1>1. req \in Requests
  BY DEF BodyInit
<1>2. Len(Wire(req)) \in Nat /\ MaxSizeLine \in Nat
  BY <1>1, Requested
<1> USE DEF BodyInit
<1>3. Sizes
  <2>1. Len(scratch) = 0
    BY EmptySeq
  <2>2. BodyTypeOK
    BY <1>2, <2>1 DEF BodyTypeOK
  <2>3. broken \in BOOLEAN /\ closed \in BOOLEAN
    OBVIOUS
  <2> QED
    BY <1>1, <2>2, <2>3 DEF Sizes
<1>4. Talk /\ Closing /\ Fresh /\ Flow
  BY DEF Talk, Closing, Fresh, Flow
<1>5. Upload!UploadInit
  BY DEF Upload!UploadInit, Ended, WellFramed
<1> QED
  BY <1>3, <1>4, <1>5 DEF BodyInv

\* Where nothing of the body moves, its part of the invariant stands.
LEMMA FlowKept ==
  ASSUME BodyInv, UNCHANGED <<req, used, dec, left, scratch, given, outcome>>,
         pc' \in {"upfront", "body"} /\ outcome = "none" => pc \in {"upfront", "body"}
  PROVE  Flow'
<1>1. Flow
  BY DEF BodyInv
<1> QED
  BY <1>1 DEF Flow

\* Where nothing of the body moves, the promise stutters or breaks.
LEMMA PromiseKept ==
  ASSUME UNCHANGED <<req, given, outcome>>, broken' = TRUE \/ broken' = broken
  PROVE  [Upload!UploadNext]_(Upload!uvars)
<1>1. Payload(req)' = Payload(req) /\ Ended' = Ended
  BY DEF Ended
<1>2. CASE broken' = TRUE
  BY <1>1, <1>2 DEF Upload!UploadNext, Upload!Break
<1>3. CASE broken' = broken
  BY <1>1, <1>3 DEF Upload!uvars, WellFramed
<1> QED
  BY <1>2, <1>3

\* The client sends some more bytes.
LEMMA SendsFine == BodyInv /\ ClientSends => Fine
<1> SUFFICES ASSUME BodyInv, ClientSends PROVE Fine
  OBVIOUS
<1> USE DEF ClientSends, server
<1>1. Len(Wire(req)) \in Nat /\ req.head \in Nat /\ req.head <= Len(Wire(req))
  BY Requested DEF BodyInv, Sizes
<1>2. PICK n \in (sent + 1)..Limit : sent' = n
  OBVIOUS
<1>3. n \in Nat /\ n > sent /\ n <= Len(Wire(req))
  BY <1>1, <1>2 DEF Limit, BodyInv, Sizes
<1>4. Sizes'
  BY <1>2, <1>3 DEF BodyInv, Sizes, BodyTypeOK
<1>5. Flow'
  BY FlowKept
<1>6. Talk'
  BY DEF BodyInv, Talk, UpfrontReply, Classic
<1>7. Closing' /\ Fresh'
  BY DEF BodyInv, Closing, Silent, Fresh
<1>8. [Upload!UploadNext]_(Upload!uvars)
  BY PromiseKept
<1> QED
  BY <1>4, <1>5, <1>6, <1>7, <1>8 DEF Fine, BodyInv

\* The client closes: an answered one, or one that has sent all of its stream.
LEMMA ClosesFine == BodyInv /\ ClientCloses => Fine
<1> SUFFICES ASSUME BodyInv, ClientCloses PROVE Fine
  OBVIOUS
<1> USE DEF ClientCloses, server
<1>1. Sizes'
  BY DEF BodyInv, Sizes, BodyTypeOK
<1>2. Flow'
  BY FlowKept
<1>3. Talk' /\ Fresh'
  BY DEF BodyInv, Talk, UpfrontReply, Classic, Fresh
<1>4. Closing'
  <2> SUFFICES ASSUME pc \notin {"hyper", "closed"} PROVE Unframed /\ sent = Len(Wire(req))
    BY DEF Closing, Unframed
  <2>1. replies \in {<<>>, <<"100">>, <<"200">>}
    BY DEF BodyInv, Talk, UpfrontReply, Sizes, BodyTypeOK
  <2>2. ~Refused
    BY <2>1 DEF Refused, Final, Refusals
  <2> QED
    BY <2>2
<1>5. [Upload!UploadNext]_(Upload!uvars)
  BY PromiseKept
<1> QED
  BY <1>1, <1>2, <1>3, <1>4, <1>5 DEF Fine, BodyInv

\* The client leaves or stalls.
LEMMA BreaksFine == BodyInv /\ (ClientLeaves \/ ClientStalls) => Fine
<1> SUFFICES ASSUME BodyInv, ClientLeaves \/ ClientStalls PROVE Fine
  OBVIOUS
<1> USE DEF ClientLeaves, ClientStalls, server
<1>1. Sizes'
  BY DEF BodyInv, Sizes, BodyTypeOK
<1>2. Flow'
  BY FlowKept
<1>3. Talk' /\ Fresh'
  BY DEF BodyInv, Talk, UpfrontReply, Classic, Fresh
<1>4. Closing'
  BY DEF Closing
<1>5. [Upload!UploadNext]_(Upload!uvars)
  BY PromiseKept
<1> QED
  BY <1>1, <1>2, <1>3, <1>4, <1>5 DEF Fine, BodyInv

\* A status line written to a client that has had at most one.
Statuses == {"100", "200", "400", "405"} \cup Refusals

\* A status line behind at most one other.
LEMMA StatusSaid ==
  ASSUME NEW a \in Statuses, NEW x \in Statuses
  PROVE  /\ Append(<<>>, x) = <<x>> /\ Append(<<a>>, x) = <<a, x>>
         /\ <<>> \o <<x>> = <<x>> /\ <<>> \o <<>> = <<>>
<1>1. /\ <<>> \in Seq(Statuses) /\ <<x>> \in Seq(Statuses)
      /\ <<a>> \in Seq(Statuses) /\ <<a, x>> \in Seq(Statuses)
  OBVIOUS
<1>2. Append(<<>>, x) = <<x>>
  OBVIOUS
<1>3. Append(<<a>>, x) = <<a, x>>
  <2> DEFINE p == <<a>>
             q == Append(p, x)
             z == <<a, x>>
  <2>1. p \in Seq(Statuses) /\ Len(p) = 1 /\ p[1] = a
    OBVIOUS
  <2> HIDE DEF p
  <2>2. q \in Seq(Statuses) /\ Len(q) = Len(p) + 1 /\ q[1] = p[1]
    BY <2>1
  <2>3. q[Len(p) + 1] = x
    BY <2>1, AppendProperties
  <2>4. z \in Seq(Statuses) /\ Len(z) = 2 /\ z[1] = a /\ z[2] = x
    OBVIOUS
  <2> HIDE DEF q, z
  <2>5. q = z
    BY <2>1, <2>2, <2>3, <2>4, SeqEqual
  <2> QED
    BY <2>5 DEF p, q, z
<1>4. <<>> \o <<x>> = <<x>> /\ <<>> \o <<>> = <<>>
  BY <1>1, ConcatEmptySeq
<1> QED
  BY <1>2, <1>3, <1>4

\* The steps before the body: the dispatcher, the head and the reply.
LEMMA DispatchFine == BodyInv /\ (Dispatch \/ HyperHangsUp) => Fine
<1> SUFFICES ASSUME BodyInv, Dispatch \/ HyperHangsUp PROVE Fine
  OBVIOUS
<1>0. Append(<<>>, "405") = <<"405">> /\ Append(<<>>, "400") = <<"400">>
  BY StatusSaid DEF Statuses
<1> USE DEF Dispatch, Classify, ClassifyTimeout, HyperAnswers, HyperEnds, HyperHangsUp,
            Move, KeepBody, Reply, client
<1>1. Sizes'
  BY DEF BodyInv, Sizes, BodyTypeOK
<1>2. Flow'
  BY FlowKept
<1>3. Talk'
  BY <1>0 DEF BodyInv, Talk, UpfrontReply, Classic, Answers
<1>4. Closing' /\ Fresh'
  BY DEF BodyInv, Closing, Unframed, Fresh
<1>5. [Upload!UploadNext]_(Upload!uvars)
  BY PromiseKept
<1> QED
  BY <1>1, <1>2, <1>3, <1>4, <1>5 DEF Fine, BodyInv

\* The head is read, and where it ends the body begins; or it is refused.
LEMMA HeadFine == BodyInv /\ RequestHead => Fine
<1> SUFFICES ASSUME BodyInv, RequestHead PROVE Fine
  OBVIOUS
<1>1. CASE HeadMalformed \/ HeadEnds \/ HeadTimeout \/ Refuse
  <2> USE <1>1 DEF HeadMalformed, HeadEnds, HeadTimeout, Refuse, Move, KeepBody, Reply, client
  <2>1. Sizes'
    <3>1. BlockSize \in Nat
      BY Requested DEF BodyInv, Sizes
    <3> QED
      BY <3>1 DEF BodyInv, Sizes, BodyTypeOK, Block, Arrived
  <2>2. Flow'
    BY FlowKept
  <2>0. Append(<<>>, "400") = <<"400">>
    BY StatusSaid DEF Statuses
  <2>3. Talk' /\ Fresh'
    BY <2>0 DEF BodyInv, Talk, UpfrontReply, Classic, Fresh, Answers
  <2>4. Closing'
    BY DEF BodyInv, Closing, Unframed
  <2>5. [Upload!UploadNext]_(Upload!uvars)
    BY PromiseKept
  <2> QED
    BY <2>1, <2>2, <2>3, <2>4, <2>5 DEF Fine, BodyInv
<1>2. CASE HeadRead
  <2> USE <1>2 DEF HeadRead, Move, client
  <2> DEFINE n == Block
  <2>1. /\ RequestOk(req) /\ req.head \in Nat /\ Len(Payload(req)) \in Nat /\ BlockSize \in Nat
        /\ Payload(req) \in Seq(Bytes) /\ Len(Wire(req)) \in Nat
    BY Requested DEF BodyInv, Sizes
  <2>2. n \in Nat /\ n <= sent /\ used <= n
    BY <2>1 DEF Block, Arrived, BodyInv, Sizes, BodyTypeOK
  <2>3. /\ fetched' = n /\ pc' \in {"refuse", "head", "upfront"}
        /\ \/ pc' # "upfront" /\ used' = used /\ left' = left
           \/ /\ pc' = "upfront" /\ used' = req.head /\ req.head <= n
              /\ left' = IF req.chunked THEN 0 ELSE Len(Payload(req))
    BY <2>1, <2>2
  <2>4. UNCHANGED <<req, fault, sent, broken, closed, replies, dec, scratch, given, outcome>>
    OBVIOUS
  <2>5. pc = "head"
    OBVIOUS
  <2> HIDE DEF HeadRead, Move, client, n
  <2> HIDE <1>2
  <2>6. Sizes'
    BY <2>1, <2>2, <2>3, <2>4 DEF BodyInv, Sizes, BodyTypeOK
  <2>7. Talk' /\ Fresh' /\ Closing'
    BY <2>3, <2>4, <2>5 DEF BodyInv, Talk, UpfrontReply, Classic, Fresh, Closing, Unframed
  <2>8. Flow'
    <3> SUFFICES ASSUME pc' = "upfront"
                 PROVE  IF req.chunked THEN Decodes(req, used', dec', left', scratch', given')
                        ELSE Reads(req, used', left', given')
      BY <2>3, <2>4 DEF Flow
    <3>1. given' = <<>> /\ dec' = "size" /\ scratch' = <<>> /\ used' = req.head
      BY <2>3, <2>4, <2>5 DEF BodyInv, Fresh
    <3>2. CASE req.chunked
      BY <3>1, <3>2, <2>1, DecodesFirst
    <3>3. CASE ~req.chunked
      BY <3>1, <3>3, <2>1, <2>3, ReadsFirst
    <3> QED
      BY <3>2, <3>3
  <2>9. [Upload!UploadNext]_(Upload!uvars)
    BY <2>4, PromiseKept
  <2> QED
    BY <2>6, <2>7, <2>8, <2>9 DEF Fine, BodyInv
<1> QED
  BY <1>1, <1>2 DEF RequestHead

\* The reply before the body, and the start of the ingest.
LEMMA StartFine == BodyInv /\ Start => Fine
<1> SUFFICES ASSUME BodyInv, Start PROVE Fine
  OBVIOUS
<1>0. req.expect \in BOOLEAN
  BY Requested DEF BodyInv, Sizes, RequestOk
<1>1. CASE Upfront \/ UpfrontFails \/ Rejects
  <2> USE <1>1 DEF Upfront, UpfrontFails, Rejects, Move, KeepBody, client
  <2>1. Sizes'
    BY DEF BodyInv, Sizes, BodyTypeOK
  <2>2. Flow'
    BY FlowKept
  <2>3. Talk'
    <3>1. CASE Upfront
      <4>1. replies = <<>> /\ pc' = "body" /\ replies' = replies \o UpfrontReply
        BY <3>1 DEF BodyInv, Talk
      <4>2. <<>> \o <<"100">> = <<"100">> /\ <<>> \o <<"200">> = <<"200">> /\ <<>> \o <<>> = <<>>
        BY StatusSaid DEF Statuses
      <4>3. <<>> \o UpfrontReply = UpfrontReply
        BY <4>2 DEF UpfrontReply
      <4>4. UpfrontReply' = UpfrontReply
        BY DEF UpfrontReply, Classic
      <4> QED
        BY <4>1, <4>3, <4>4 DEF Talk
    <3>2. CASE UpfrontFails
      BY <3>2 DEF BodyInv, Talk, Answers
    <3>3. CASE Rejects
      <4>1. PICK status \in Refusals : replies' = Append(<<>>, status)
        BY <3>3 DEF BodyInv, Talk, Reply
      <4>2. replies' = <<status>> /\ pc' = "closed"
        BY <3>3, <4>1, StatusSaid DEF Statuses
      <4> QED
        BY <4>2 DEF Talk, Answers
    <3> QED
      BY <1>1, <3>1, <3>2, <3>3
  <2>4. Fresh'
    BY DEF BodyInv, Fresh
  <2>5. Closing'
    BY DEF BodyInv, Closing, Unframed
  <2>6. [Upload!UploadNext]_(Upload!uvars)
    BY PromiseKept
  <2> QED
    BY <2>1, <2>2, <2>3, <2>4, <2>5, <2>6 DEF Fine, BodyInv
<1> QED
  BY <1>1 DEF Start

-----------------------------------------------------------------------------
(* The steps of the body.                                                  *)

\* What the reader of the body may take: nothing that has not arrived.
LEMMA Consumed ==
  ASSUME BodyInv, NEW n \in Nat, n <= Ready, Consume(n), UNCHANGED <<req, sent>>
  PROVE  /\ Ready \in Nat /\ used \in Nat /\ used' = used + n /\ used' \in Nat /\ fetched' \in Nat
         /\ used' <= fetched' /\ fetched' <= sent' /\ used + n <= Len(Wire(req))
<1>1. used \in Nat /\ fetched \in Nat /\ sent \in Nat /\ used <= fetched /\ fetched <= sent
      /\ sent <= Len(Wire(req)) /\ Len(Wire(req)) \in Nat
  BY Requested DEF BodyInv, Sizes, BodyTypeOK
<1> QED
  BY <1>1 DEF Consume, Ready, Buffered, Arrived

\* A step of the body leaves the conversation alone.
LEMMA BodyQuiet ==
  ASSUME BodyInv, Body, KeepTalk
  PROVE  Talk' /\ Closing' /\ Fresh'
BY DEF BodyInv, Body, KeepTalk, client, Talk, Closing, Fresh, UpfrontReply, Classic, Unframed

\* What a step of the body needs for the sizes.
LEMMA BodySizes ==
  ASSUME BodyInv, KeepTalk,
         used' \in Nat, fetched' \in Nat, used' <= fetched', fetched' <= sent,
         dec' \in {"size", "payload", "cr", "lf", "trailers", "done", "errored"},
         outcome' \in {"none", "eof", "error"}, left' \in Nat,
         Len(scratch') <= (IF dec' = "size" THEN MaxSizeLine ELSE MaxTrailer) \/ dec' = "errored"
  PROVE  Sizes'
BY DEF BodyInv, Sizes, BodyTypeOK, KeepTalk, client

\* The end of the body keeps the sizes.
LEMMA EndSizes ==
  ASSUME BodyInv, KeepTalk, UNCHANGED <<fetched, used, left, scratch>>,
         dec' \in {dec, "errored"}, outcome' \in {"eof", "error"}
  PROVE  Sizes'
BY DEF BodyInv, Sizes, BodyTypeOK, KeepTalk, client

\* The body ends with all of the payload, or a broken upload.
LEMMA EndFine ==
  ASSUME BodyInv, Body, KeepTalk, Sizes', given' = given, outcome' \in {"eof", "error"},
         outcome' = "error" => broken \/ ~WellFramed(req),
         outcome' = "eof" => given = Payload(req) \/ (~req.chunked /\ broken)
  PROVE  Fine
<1> USE DEF KeepTalk, client
<1>1. Sizes'
  OBVIOUS
<1>2. Talk' /\ Closing' /\ Fresh'
  BY BodyQuiet
<1>3. Flow'
  BY DEF Flow
<1>4. Ended = "no" /\ Payload(req)' = Payload(req)
  BY DEF Ended, Body
<1>5. CASE outcome' = "error"
  <2>1. Ended' = "cut"
    BY <1>5 DEF Ended
  <2>2. Upload!CutShort
    BY <1>4, <1>5, <2>1 DEF Upload!CutShort
  <2> QED
    BY <1>1, <1>2, <1>3, <2>2 DEF Fine, BodyInv, Upload!UploadNext
<1>6. CASE outcome' = "eof"
  <2>1. CASE given = Payload(req)
    <3>1. Ended' = "complete"
      BY <1>6, <2>1 DEF Ended
    <3>2. Upload!Complete
      BY <1>4, <2>1, <3>1 DEF Upload!Complete, WellFramed
    <3> QED
      BY <1>1, <1>2, <1>3, <3>2 DEF Fine, BodyInv, Upload!UploadNext
  <2>2. CASE given # Payload(req)
    <3>1. Ended' = "cut" /\ broken
      BY <1>6, <2>2 DEF Ended
    <3>2. Upload!CutShort
      BY <1>4, <3>1 DEF Upload!CutShort
    <3> QED
      BY <1>1, <1>2, <1>3, <3>2 DEF Fine, BodyInv, Upload!UploadNext
  <2> QED
    BY <2>1, <2>2
<1> QED
  BY <1>5, <1>6

\* What is read of the payload is given.
LEMMA GiveFine ==
  ASSUME BodyInv, Body, KeepTalk, UNCHANGED outcome, Sizes', Flow',
         NEW x \in Nat, x > 0, Gives(req, x, given, given')
  PROVE  Fine
<1>0. PICK p \in Nat : /\ p + x <= Len(Payload(req)) /\ given = SubSeq(Payload(req), 1, p)
                       /\ given' = SubSeq(Payload(req), 1, p + x)
  BY DEF Gives
<1>1. Talk' /\ Closing' /\ Fresh'
  BY BodyQuiet
<1>2. Ended = "no" /\ Ended' = "no" /\ Payload(req)' = Payload(req) /\ broken' = broken /\ req' = req
  BY DEF Ended, Body, KeepTalk, client
<1>3. Payload(req) \in Seq(Bytes) /\ Len(Payload(req)) \in Nat
  BY Requested DEF BodyInv, Sizes
<1>4. Len(given) = p
  <2>1. p \in 0..Len(Payload(req))
    BY <1>0, <1>3
  <2> QED
    BY <1>0, <1>3, <2>1, Prefix
<1>5. p + x \in (Len(given) + 1)..Len(Payload(req))
  BY <1>0, <1>3, <1>4
<1>6. Upload!Give
  BY <1>0, <1>2, <1>5 DEF Upload!Give, WellFramed
<1> QED
  BY <1>1, <1>6 DEF Fine, BodyInv, Upload!UploadNext

\* A step inside the framing gives nothing.
LEMMA FrameFine ==
  ASSUME BodyInv, Body, KeepTalk, UNCHANGED <<given, outcome>>, Sizes', Flow'
  PROVE  Fine
<1>1. Talk' /\ Closing' /\ Fresh'
  BY BodyQuiet
<1>2. [Upload!UploadNext]_(Upload!uvars)
  BY PromiseKept DEF KeepTalk, client
<1> QED
  BY <1>1, <1>2 DEF Fine, BodyInv

\* A reader at the end of a connection that is not broken has read all of it.
LEMMA EndReached ==
  ASSUME BodyInv, Body, ReaderEnded, ~broken
  PROVE  Unframed /\ used = Len(Wire(req))
<1>1. used \in Nat /\ fetched \in Nat /\ sent \in Nat /\ used <= fetched /\ fetched <= sent
  BY DEF BodyInv, Sizes, BodyTypeOK
<1>2. closed /\ used = sent
  BY <1>1 DEF ReaderEnded, SocketEnded, Buffered, Arrived
<1> QED
  BY <1>2 DEF BodyInv, Closing, Body

\* Without chunks: up to the end of the connection or a declared length.
LEMMA PlainReadFine ==
  ASSUME BodyInv, RawRead \/ LengthRead
  PROVE  Fine
<1>1. /\ Body /\ ~req.chunked /\ KeepTalk /\ UNCHANGED <<dec, scratch, outcome>> /\ Ready > 0
      /\ (req.length \/ left' = left) /\ (req.length => left > 0)
      /\ \E n : /\ n = (IF req.length THEN Least({Ready, ReadSize, left}) ELSE Least({Ready, ReadSize}))
                /\ Consume(n) /\ given' = given \o NextBytes(n) /\ (req.length => left' = left - n)
  BY Requested DEF RawRead, LengthRead, Unframed, BodyInv, Sizes, RequestOk
<1>2. PICK n : /\ n = (IF req.length THEN Least({Ready, ReadSize, left}) ELSE Least({Ready, ReadSize}))
               /\ Consume(n) /\ given' = given \o NextBytes(n) /\ (req.length => left' = left - n)
  BY <1>1
<1>3. Ready \in Nat /\ left \in Nat /\ ReadSize \in Nat /\ ReadSize > 0
  BY Requested DEF BodyInv, Sizes, BodyTypeOK, Ready, Buffered, Arrived
<1>4. n \in Nat /\ n > 0 /\ n <= Ready /\ (req.length => n <= left)
  <2>1. CASE req.length
    <3>1. /\ n \in {Ready, ReadSize, left} /\ n <= Ready /\ n <= left /\ left > 0
      BY <2>1, <1>1, <1>2, <1>3, LeastOfThree
    <3> QED
      BY <3>1, <1>1, <1>3
  <2>2. CASE ~req.length
    <3>1. n \in {Ready, ReadSize} /\ n <= Ready
      BY <2>2, <1>2, <1>3, LeastOfThree
    <3> QED
      BY <2>2, <3>1, <1>1, <1>3
  <2> QED
    BY <2>1, <2>2
<1>5. UNCHANGED <<req, sent>>
  BY <1>1 DEF KeepTalk, client
<1>6. /\ used \in Nat /\ used' = used + n /\ used' \in Nat /\ fetched' \in Nat
      /\ used' <= fetched' /\ fetched' <= sent /\ used + n <= Len(Wire(req))
  BY <1>2, <1>4, <1>5, Consumed
<1>7. left' \in Nat
  BY <1>1, <1>2, <1>3, <1>4
<1>8. Sizes'
  <2>1. /\ dec \in {"size", "payload", "cr", "lf", "trailers", "done", "errored"}
        /\ Len(scratch) <= (IF dec = "size" THEN MaxSizeLine ELSE MaxTrailer) \/ dec = "errored"
    BY DEF BodyInv, Sizes, BodyTypeOK
  <2>2. outcome' \in {"none", "eof", "error"} /\ dec' = dec /\ scratch' = scratch
    BY <1>1 DEF Body
  <2> QED
    BY <1>1, <1>6, <1>7, <2>1, <2>2, BodySizes
<1>9. RequestOk(req) /\ Reads(req, used, left, given)
  BY <1>1, Requested DEF BodyInv, Sizes, Flow, Body
<1>10. Reads(req, used + n, left', given') /\ Gives(req, n, given, given')
  <2>1. req.length => left' = left - n
    BY <1>2
  <2>2. n \in Nat /\ ~req.chunked
    BY <1>1, <1>4
  <2>3. /\ Reads(req, used + n, left', given \o SubSeq(Wire(req), used + 1, used + n))
        /\ Gives(req, n, given, given \o SubSeq(Wire(req), used + 1, used + n))
    BY <2>1, <2>2, <1>6, <1>7, <1>9, ReadsRead
  <2>4. given' = given \o SubSeq(Wire(req), used + 1, used + n)
    BY <1>2 DEF NextBytes
  <2> QED
    BY <2>3, <2>4
<1>11. Flow'
  BY <1>1, <1>5, <1>6, <1>10 DEF Flow
<1> QED
  BY <1>1, <1>4, <1>8, <1>10, <1>11, GiveFine

\* An upload without chunks ends: all of it was given, or it is broken.
LEMMA PlainEndFine ==
  ASSUME BodyInv, RawEnds \/ LengthEnds
  PROVE  Fine
<1>1. /\ Body /\ ~req.chunked /\ BodyEnds("eof")
      /\ ReaderEnded \/ (req.length /\ left = 0)
  BY DEF RawEnds, LengthEnds, Unframed
<1>2. RequestOk(req) /\ Reads(req, used, left, given) /\ Len(Wire(req)) \in Nat /\ used \in Nat
  BY <1>1, Requested DEF BodyInv, Sizes, Flow, Body
<1>3. given = Payload(req) \/ broken
  <2>1. CASE ReaderEnded /\ ~broken
    BY <1>1, <1>2, <2>1, EndReached, ReadsAll
  <2>2. CASE req.length /\ left = 0
    <3>1. used = Len(Wire(req))
      BY <1>2, <2>2 DEF Reads
    <3> QED
      BY <1>1, <1>2, <3>1, ReadsAll
  <2> QED
    BY <1>1, <2>1, <2>2
<1>4. KeepTalk /\ UNCHANGED <<fetched, used, left, scratch, given>> /\ dec' = dec /\ outcome' = "eof"
  BY <1>1 DEF BodyEnds
<1>5. Sizes' /\ given' = given /\ KeepTalk /\ Body
  BY <1>1, <1>4, EndSizes
<1>6. outcome' \in {"eof", "error"} /\ outcome' # "error"
  BY <1>4
<1>7. outcome' = "eof" => given = Payload(req) \/ (~req.chunked /\ broken)
  BY <1>1, <1>3, Zenon
<1> QED
  BY <1>5, <1>6, <1>7, EndFine, Zenon

\* The facts a step of the decoder starts from.
LEMMA DecoderFacts ==
  ASSUME BodyInv, NEW states, Decoding(states)
  PROVE  /\ Body /\ req.chunked /\ dec \in states /\ RequestOk(req) /\ outcome = "none"
         /\ Decodes(req, used, dec, left, scratch, given)
         /\ used \in Nat /\ fetched \in Nat /\ used <= fetched /\ fetched <= sent
         /\ left \in Nat /\ Ready \in Nat
         /\ MaxSizeLine \in Nat /\ MaxTrailer \in Nat /\ ReadSize \in Nat /\ ReadSize > 0
         /\ MaxTrailer >= 2
         /\ Len(scratch) <= (IF dec = "size" THEN MaxSizeLine ELSE MaxTrailer) \/ dec = "errored"
BY Requested DEF Decoding, Body, BodyInv, Sizes, BodyTypeOK, Flow, Ready, Buffered, Arrived

\* The scratch buffer grows by the byte that is read.
LEMMA LineGrows ==
  ASSUME NEW r, RequestOk(r), r.chunked, NEW u \in Nat, NEW d \in {"size", "trailers"}, NEW n, NEW s, NEW g,
         Decodes(r, u, d, n, s, g), u + 1 <= Len(Wire(r))
  PROVE  Len(s \o SubSeq(Wire(r), u + 1, u + 1)) = Len(s) + 1 /\ Len(s) \in Nat
<1> DEFINE w == Wire(r)
           z == u + 1
           b == SubSeq(w, z, z)
<1>1. s \in Seq(Bytes)
  <2>1. CASE d = "size"
    <3>1. PICK k \in 1..Len(r.chunks) + 1 : AtSize(r, k, u, s, g)
      BY <2>1 DEF Decodes
    <3>2. IsText(SizeLine(r, k))
      BY LayoutFacts
    <3> QED
      BY <3>1, <3>2, GatheredEnds DEF AtSize
  <2>2. CASE d = "trailers"
    <3>1. PICK i \in 1..Len(r.trailers) + 1 : AtTrailer(r, i, u, s)
      BY <2>2 DEF Decodes
    <3>2. IsText(TrailText(r, i))
      BY LayoutFacts
    <3> QED
      BY <3>1, <3>2, GatheredEnds DEF AtTrailer
  <2> QED
    BY <2>1, <2>2
<1>2. w \in Seq(Bytes)
  BY LayoutFacts
<1>3. z \in Int /\ z <= z /\ z - z + 1 = 1 /\ z \in 1..Len(w)
  BY <1>2, LenProperties
<1>4. \A i \in z..z : w[i] \in Bytes
  BY <1>2, <1>3, ElementOfSeq
<1> HIDE DEF w, z
<1>5. b \in Seq(Bytes) /\ Len(b) = IF z <= z THEN z - z + 1 ELSE 0
  BY <1>3, <1>4, SubSeqProperties
<1> HIDE DEF b
<1>6. Len(s \o b) = Len(s) + Len(b) /\ Len(s) \in Nat
  BY <1>1, <1>5, Joined
<1> QED
  BY <1>3, <1>5, <1>6 DEF b, w, z

\* A byte of a line.
LEMMA FillFine ==
  ASSUME BodyInv, FillByte
  PROVE  Fine
<1>1. /\ Decoding({"size", "trailers"}) /\ ~LineComplete /\ Len(scratch) < MaxLine /\ Ready > 0
      /\ Consume(1) /\ scratch' = scratch \o NextBytes(1)
      /\ KeepTalk /\ UNCHANGED <<dec, left, given, outcome>>
  BY DEF FillByte
<1>2. /\ Body /\ req.chunked /\ dec \in {"size", "trailers"} /\ RequestOk(req)
      /\ Decodes(req, used, dec, left, scratch, given) /\ used \in Nat /\ left \in Nat /\ Ready \in Nat
  BY <1>1, DecoderFacts
<1>3. UNCHANGED <<req, sent>>
  BY <1>1 DEF KeepTalk, client
<1>4. /\ used' = used + 1 /\ used' \in Nat /\ fetched' \in Nat /\ used' <= fetched' /\ fetched' <= sent
      /\ used + 1 <= Len(Wire(req))
  BY <1>1, <1>2, <1>3, Consumed
<1>5. Decodes(req, used + 1, dec, left, scratch', given)
  <2>1. ~Whole(scratch)
    BY <1>1 DEF LineComplete, Whole
  <2> QED
    BY <1>1, <1>2, <2>1, DecodesByte DEF NextBytes
<1>6. Flow'
  BY <1>1, <1>2, <1>3, <1>4, <1>5 DEF Flow
<1>7. Len(scratch') = Len(scratch) + 1 /\ Len(scratch) \in Nat
  BY <1>1, <1>2, <1>4, LineGrows DEF NextBytes
<1>8. Sizes'
  BY <1>1, <1>2, <1>4, <1>7, BodySizes, Requested DEF MaxLine, Body, BodyInv, Sizes
<1> QED
  BY <1>1, <1>2, <1>6, <1>8, FrameFine

\* A framing that is not what it should be, or a connection that ends inside it.
LEMMA ErrorFine ==
  ASSUME BodyInv, Body, KeepTalk, Sizes', given' = given, outcome' = "error",
         broken \/ ~WellFramed(req)
  PROVE  Fine
<1>1. outcome' \in {"eof", "error"} /\ outcome' # "eof"
  OBVIOUS
<1> QED
  BY <1>1, EndFine, Zenon

\* A line that is too long is not well framed.
LEMMA TooLongFine ==
  ASSUME BodyInv, LineTooLong
  PROVE  Fine
<1>1. /\ Decoding({"size", "trailers"}) /\ ~LineComplete /\ Len(scratch) >= MaxLine
      /\ Error /\ UNCHANGED <<fetched, used, left, scratch, given>>
  BY DEF LineTooLong
<1>2. /\ Body /\ req.chunked /\ dec \in {"size", "trailers"} /\ RequestOk(req)
      /\ Decodes(req, used, dec, left, scratch, given) /\ used \in Nat
      /\ MaxSizeLine \in Nat /\ MaxTrailer \in Nat /\ MaxTrailer >= 2
  BY <1>1, DecoderFacts
<1>3. ~WellFramed(req)
  <2> SUFFICES ASSUME WellFramed(req) PROVE FALSE
    OBVIOUS
  <2>1. ~Whole(scratch)
    BY <1>1 DEF LineComplete, Whole
  <2>2. Len(scratch) < (IF dec = "size" THEN MaxSizeLine ELSE MaxTrailer)
    BY <1>2, <2>1, LineFits
  <2>3. Len(scratch) \in Nat
    BY <1>2, <2>1, LineFits
  <2> QED
    BY <1>1, <1>2, <2>2, <2>3 DEF MaxLine
<1>4. KeepTalk /\ dec' = "errored" /\ outcome' = "error"
  BY <1>1 DEF Error, Decode
<1>5. Sizes'
  BY <1>1, <1>4, EndSizes
<1> QED
  BY <1>1, <1>2, <1>3, <1>4, <1>5, ErrorFine

\* The connection ends inside the framing: the client is gone.
LEMMA CutFine ==
  ASSUME BodyInv, LineCut \/ PayloadCut
  PROVE  Fine
<1>1. /\ Body /\ req.chunked /\ ReaderEnded /\ KeepTalk
      /\ UNCHANGED <<fetched, used, left, scratch, given>>
      /\ outcome' = "error" /\ dec' \in {dec, "errored"}
  BY DEF LineCut, PayloadCut, BodyEnds, Error, Decode, Decoding
<1>2. broken
  BY <1>1, EndReached DEF Unframed
<1>3. Sizes'
  BY <1>1, EndSizes
<1> QED
  BY <1>1, <1>2, <1>3, ErrorFine

\* A size line.
LEMMA SizeFine ==
  ASSUME BodyInv, SizeParsed
  PROVE  Fine
<1> DEFINE s == Digits(Line)
<1>1. /\ Decoding({"size"}) /\ LineComplete /\ scratch' = <<>>
      /\ \/ ~IsHex(s) /\ Error /\ left' = left
         \/ /\ IsHex(s) /\ Decode(IF Hex(s) = 0 THEN "trailers" ELSE "payload")
            /\ left' = Hex(s) /\ outcome' = outcome
      /\ UNCHANGED <<fetched, used, given>>
  BY DEF SizeParsed
<1>2. /\ Body /\ req.chunked /\ dec = "size" /\ RequestOk(req) /\ outcome = "none"
      /\ Decodes(req, used, dec, left, scratch, given) /\ used \in Nat /\ left \in Nat
      /\ fetched \in Nat /\ used <= fetched /\ fetched <= sent
      /\ MaxSizeLine \in Nat /\ MaxTrailer \in Nat
  BY <1>1, DecoderFacts
<1>3. /\ ~IsHex(s) => ~WellFramed(req)
      /\ IsHex(s) => /\ Hex(s) \in Nat
                     /\ Decodes(req, used, IF Hex(s) = 0 THEN "trailers" ELSE "payload", Hex(s), <<>>, given)
  <2>1. Whole(scratch)
    BY <1>1 DEF LineComplete, Whole
  <2> QED
    BY <1>2, <2>1, DecodesSize DEF Line
<1> HIDE DEF s
<1>4. Len(scratch') = 0
  BY <1>1, EmptySeq
<1>5. CASE ~IsHex(s)
  <2>1. KeepTalk /\ dec' = "errored" /\ outcome' = "error" /\ left' \in Nat
    BY <1>1, <1>2, <1>5 DEF Error, Decode
  <2>2. Sizes'
    BY <1>1, <1>2, <2>1, BodySizes
  <2>3. ~WellFramed(req)
    BY <1>3, <1>5
  <2> QED
    BY <1>1, <1>2, <2>1, <2>2, <2>3, ErrorFine
<1>6. CASE IsHex(s)
  <2>1. /\ KeepTalk /\ dec' \in {"trailers", "payload"} /\ left' \in Nat /\ outcome' = "none"
        /\ Decodes(req, used, dec', left', scratch', given)
    BY <1>1, <1>2, <1>3, <1>6 DEF Decode
  <2>2. Sizes'
    BY <1>1, <1>2, <1>4, <2>1, BodySizes
  <2>3. Flow'
    BY <1>1, <1>2, <2>1 DEF Flow, KeepTalk, client
  <2> QED
    BY <1>1, <1>2, <2>1, <2>2, <2>3, FrameFine
<1> QED
  BY <1>5, <1>6

\* A read of a payload.
LEMMA PayloadFine ==
  ASSUME BodyInv, PayloadRead
  PROVE  Fine
<1> DEFINE n == Least({Ready, ReadSize, left})
<1>1. /\ Decoding({"payload"}) /\ left > 0 /\ Ready > 0
      /\ Consume(n) /\ left' = left - n /\ given' = given \o NextBytes(n)
      /\ KeepTalk /\ UNCHANGED <<dec, scratch, outcome>>
  BY DEF PayloadRead
<1>2. /\ Body /\ req.chunked /\ dec = "payload" /\ RequestOk(req) /\ outcome = "none"
      /\ Decodes(req, used, dec, left, scratch, given) /\ used \in Nat /\ left \in Nat
      /\ Ready \in Nat /\ ReadSize \in Nat /\ ReadSize > 0
      /\ Len(scratch) <= (IF dec = "size" THEN MaxSizeLine ELSE MaxTrailer) \/ dec = "errored"
  BY <1>1, DecoderFacts
<1>3. n \in Nat /\ n > 0 /\ n <= Ready /\ n \in 1..left /\ left - n \in Nat
  <2>1. n \in Nat /\ n > 0 /\ n <= Ready /\ n <= left
    <3>1. n \in {Ready, ReadSize, left} /\ n <= Ready /\ n <= left
      BY <1>2, LeastOfThree
    <3> HIDE DEF n
    <3> QED
      BY <3>1, <1>1, <1>2
  <2> HIDE DEF n
  <2> QED
    BY <1>2, <2>1
<1> HIDE DEF n
<1>4. UNCHANGED <<req, sent>>
  BY <1>1 DEF KeepTalk, client
<1>5. /\ used' = used + n /\ used' \in Nat /\ fetched' \in Nat /\ used' <= fetched' /\ fetched' <= sent
  BY <1>1, <1>3, <1>4, Consumed
<1>6. /\ Decodes(req, used + n, "payload", left - n, scratch, given \o SubSeq(Wire(req), used + 1, used + n))
      /\ Gives(req, n, given, given \o SubSeq(Wire(req), used + 1, used + n))
  BY <1>2, <1>3, DecodesRead
<1>7. given' = given \o SubSeq(Wire(req), used + 1, used + n)
  BY <1>1 DEF NextBytes
<1>8. Sizes'
  <2>1. left' \in Nat /\ outcome' = "none" /\ dec' = "payload" /\ scratch' = scratch
    BY <1>1, <1>2, <1>3
  <2>2. Len(scratch') <= (IF dec' = "size" THEN MaxSizeLine ELSE MaxTrailer) \/ dec' = "errored"
    BY <1>2, <2>1
  <2> QED
    BY <1>1, <1>5, <2>1, <2>2, BodySizes
<1>9. Flow'
  BY <1>1, <1>2, <1>4, <1>5, <1>6, <1>7 DEF Flow
<1>10. Gives(req, n, given, given')
  BY <1>6, <1>7
<1> QED
  BY <1>1, <1>2, <1>3, <1>8, <1>9, <1>10, GiveFine

\* The end of a payload.
LEMMA OverFine ==
  ASSUME BodyInv, PayloadOver
  PROVE  Fine
<1>1. /\ Decoding({"payload"}) /\ left = 0 /\ dec' = "cr" /\ KeepTalk
      /\ UNCHANGED <<fetched, used, left, scratch, given, outcome>>
  BY DEF PayloadOver, Decode
<1>2. /\ Body /\ req.chunked /\ dec = "payload" /\ RequestOk(req) /\ outcome = "none"
      /\ Decodes(req, used, dec, left, scratch, given) /\ used \in Nat /\ fetched \in Nat
      /\ used <= fetched /\ fetched <= sent
      /\ Len(scratch) <= (IF dec = "size" THEN MaxSizeLine ELSE MaxTrailer) \/ dec = "errored"
  BY <1>1, DecoderFacts
<1>3. Decodes(req, used, "cr", 0, scratch, given)
  BY <1>1, <1>2, DecodesOver
<1>4. Flow'
  BY <1>1, <1>2, <1>3 DEF Flow, KeepTalk, client
<1>5. Sizes'
  BY <1>1, <1>2, BodySizes
<1> QED
  BY <1>1, <1>2, <1>4, <1>5, FrameFine

\* The CRLF behind a payload.
LEMMA AfterFine ==
  ASSUME BodyInv, AfterPayload
  PROVE  Fine
<1> DEFINE b == NextBytes(1)
           e == IF dec = "cr" THEN <<CR>> ELSE <<LF>>
<1>1. /\ Decoding({"cr", "lf"}) /\ Ready > 0 /\ Consume(1)
      /\ \/ b # e /\ Error
         \/ b = e /\ Decode(IF dec = "cr" THEN "lf" ELSE "size") /\ outcome' = outcome
      /\ UNCHANGED <<left, scratch, given>>
  BY DEF AfterPayload
<1>2. /\ Body /\ req.chunked /\ dec \in {"cr", "lf"} /\ RequestOk(req) /\ outcome = "none"
      /\ Decodes(req, used, dec, left, scratch, given) /\ used \in Nat /\ left \in Nat
      /\ Ready \in Nat /\ MaxSizeLine \in Nat /\ MaxTrailer \in Nat
  BY <1>1, DecoderFacts
<1>3. KeepTalk
  BY <1>1 DEF Error, Decode
<1>4. UNCHANGED <<req, sent>>
  BY <1>3 DEF KeepTalk, client
<1>5. used' = used + 1 /\ used' \in Nat /\ fetched' \in Nat /\ used' <= fetched' /\ fetched' <= sent
  BY <1>1, <1>2, <1>4, Consumed
<1>6. /\ b # e => ~WellFramed(req)
      /\ b = e => Decodes(req, used + 1, IF dec = "cr" THEN "lf" ELSE "size", left, scratch, given)
  BY <1>2, DecodesEnd DEF NextBytes
<1>7. scratch = <<>> /\ Len(scratch') = 0
  BY <1>1, <1>2, EmptySeq DEF Decodes
<1> HIDE DEF b, e
<1>8. CASE b # e
  <2>1. dec' = "errored" /\ outcome' = "error" /\ left' \in Nat
    BY <1>1, <1>2, <1>8 DEF Error, Decode
  <2>2. Sizes'
    BY <1>3, <1>5, <2>1, BodySizes
  <2> QED
    BY <1>1, <1>2, <1>3, <1>6, <1>8, <2>1, <2>2, ErrorFine
<1>9. CASE b = e
  <2>1. dec' = (IF dec = "cr" THEN "lf" ELSE "size") /\ outcome' = "none" /\ left' \in Nat
    BY <1>1, <1>2, <1>9 DEF Decode
  <2>2. Sizes'
    BY <1>2, <1>3, <1>5, <1>7, <2>1, BodySizes
  <2>3. Decodes(req, used', dec', left', scratch', given')
    BY <1>1, <1>5, <1>6, <1>9, <2>1
  <2>4. Flow'
    BY <1>2, <1>4, <2>3 DEF Flow
  <2> QED
    BY <1>1, <1>2, <1>3, <2>1, <2>2, <2>4, FrameFine
<1> QED
  BY <1>8, <1>9

\* A trailer line.
LEMMA TrailerFine ==
  ASSUME BodyInv, TrailerLine
  PROVE  Fine
<1>1. /\ Decoding({"trailers"}) /\ LineComplete /\ scratch' = <<>>
      /\ dec' = (IF Line = <<>> THEN "done" ELSE "trailers") /\ KeepTalk
      /\ UNCHANGED <<fetched, used, left, given, outcome>>
  BY DEF TrailerLine, Decode
<1>2. /\ Body /\ req.chunked /\ dec = "trailers" /\ RequestOk(req) /\ outcome = "none"
      /\ Decodes(req, used, dec, left, scratch, given) /\ used \in Nat /\ left \in Nat
      /\ fetched \in Nat /\ used <= fetched /\ fetched <= sent /\ MaxTrailer \in Nat
  BY <1>1, DecoderFacts
<1>3. Decodes(req, used, dec', left, scratch', given)
  <2>1. Whole(scratch)
    BY <1>1 DEF LineComplete, Whole
  <2>2. Decodes(req, used, IF SubSeq(scratch, 1, Len(scratch) - 2) = <<>> THEN "done" ELSE "trailers",
                left, <<>>, given)
    BY <1>2, <2>1, DecodesTrailer
  <2> QED
    BY <1>1, <2>2 DEF Line
<1>4. Flow'
  BY <1>1, <1>2, <1>3 DEF Flow, KeepTalk, client
<1>5. Sizes'
  <2>1. Len(scratch') = 0
    BY <1>1, EmptySeq
  <2> QED
    BY <1>1, <1>2, <2>1, BodySizes
<1> QED
  BY <1>1, <1>2, <1>4, <1>5, FrameFine

\* The end of the trailers: all of the payload was given.
LEMMA DoneFine ==
  ASSUME BodyInv, DecoderDone
  PROVE  Fine
<1>1. Decoding({"done"}) /\ BodyEnds("eof")
  BY DEF DecoderDone
<1>2. /\ Body /\ dec = "done" /\ Decodes(req, used, dec, left, scratch, given)
  BY <1>1, DecoderFacts
<1>3. given = Payload(req)
  BY <1>2 DEF Decodes
<1>4. KeepTalk /\ UNCHANGED <<fetched, used, left, scratch, given>> /\ dec' = dec /\ outcome' = "eof"
  BY <1>1 DEF BodyEnds
<1>5. Sizes'
  BY <1>4, EndSizes
<1>6. outcome' \in {"eof", "error"} /\ outcome' # "error" /\ given' = given
  BY <1>4
<1> QED
  BY <1>2, <1>3, <1>4, <1>5, <1>6, EndFine, Zenon

-----------------------------------------------------------------------------
(* The end of the body, and the theorems.                                  *)

\* A kick cuts the upload.
LEMMA KickFine == BodyInv /\ Kick => Fine
<1> SUFFICES ASSUME BodyInv, Kick PROVE Fine
  OBVIOUS
<1> USE DEF Kick
<1>1. Sizes'
  BY DEF BodyInv, Sizes, BodyTypeOK
<1>2. Flow' /\ Closing' /\ Fresh'
  BY DEF Flow, Closing, Fresh, Body
<1>3. Talk'
  BY DEF BodyInv, Talk, UpfrontReply, Classic, Body
<1>4. Upload!CutShort
  BY DEF Upload!CutShort, Ended, Body
<1> QED
  BY <1>1, <1>2, <1>3, <1>4 DEF Fine, BodyInv, Upload!UploadNext

\* The terminal status.
LEMMA FinishFine == BodyInv /\ Finish => Fine
<1> SUFFICES ASSUME BodyInv, Finish PROVE Fine
  OBVIOUS
<1> USE DEF Finish, Move, KeepBody, client
<1>1. Sizes'
  BY DEF BodyInv, Sizes, BodyTypeOK
<1>2. Flow' /\ Closing' /\ Fresh'
  BY DEF Flow, Closing, Fresh
<1>3. Talk'
  <2>1. replies = UpfrontReply /\ replies' = IF Classic THEN replies ELSE Append(replies, "200")
    BY DEF BodyInv, Talk
  <2>2. Append(<<"100">>, "200") = <<"100", "200">> /\ Append(<<>>, "200") = <<"200">>
    BY StatusSaid DEF Statuses
  <2>3. replies' \in Answers
    <3>1. CASE Classic
      BY <2>1, <3>1 DEF UpfrontReply, Classic, Answers
    <3>2. CASE ~Classic
      <4>1. replies' = Append(<<"100">>, "200") \/ replies' = Append(<<>>, "200")
        BY <2>1, <3>2 DEF UpfrontReply
      <4> QED
        BY <4>1, <2>2 DEF Answers
    <3> QED
      BY <3>1, <3>2
  <2> QED
    BY <2>3 DEF Talk
<1>4. [Upload!UploadNext]_(Upload!uvars)
  BY PromiseKept
<1> QED
  BY <1>1, <1>2, <1>3, <1>4 DEF Fine, BodyInv

\* Every step.
LEMMA BodyStep == BodyInv /\ [BodyNext]_bodyVars => Fine
<1> SUFFICES ASSUME BodyInv, [BodyNext]_bodyVars PROVE Fine
  OBVIOUS
<1>1. CASE ClientStep \/ ClientLeaves \/ ClientStalls
  BY <1>1, SendsFine, ClosesFine, BreaksFine DEF ClientStep
<1>2. CASE Dispatch \/ HyperHangsUp \/ RequestHead \/ Start
  BY <1>2, DispatchFine, HeadFine, StartFine
<1>3. CASE Plain
  BY <1>3, PlainReadFine, PlainEndFine DEF Plain
<1>4. CASE Decoder
  BY <1>4, FillFine, TooLongFine, CutFine, SizeFine, PayloadFine, OverFine, AfterFine,
     TrailerFine, DoneFine DEF Decoder
<1>5. CASE Kick \/ Finish
  BY <1>5, KickFine, FinishFine
<1>6. CASE UNCHANGED bodyVars
  <2> USE <1>6 DEF bodyVars, client, server
  <2>1. Sizes'
    BY DEF BodyInv, Sizes, BodyTypeOK
  <2>2. Flow'
    BY FlowKept
  <2>3. Talk' /\ Fresh' /\ Closing'
    BY DEF BodyInv, Talk, UpfrontReply, Classic, Fresh, Closing, Unframed
  <2>4. [Upload!UploadNext]_(Upload!uvars)
    BY PromiseKept
  <2> QED
    BY <2>1, <2>2, <2>3, <2>4 DEF Fine, BodyInv
<1> QED
  BY <1>1, <1>2, <1>3, <1>4, <1>5, <1>6 DEF BodyNext, ServerStep

\* The conversation, the framing and the positions agree in every state.
THEOREM BodyInvariant == BodySpec => []BodyInv
<1>1. BodyInit => BodyInv
  BY BodyInitInv
<1>2. BodyInv /\ [BodyNext]_bodyVars => BodyInv'
  BY BodyStep DEF Fine
<1> QED
  BY <1>1, <1>2, PTL DEF BodySpec

\* The buffers keep their bounds: the scratch buffer of the decoder never holds
\* more than a line may have (chunked.rs:33-34), and nothing is read before it
\* was sent.
THEOREM BodyTypes == BodySpec => []BodyTypeOK
<1>1. BodyInv => BodyTypeOK
  BY DEF BodyInv, Sizes
<1> QED
  BY <1>1, BodyInvariant, PTL

\* Whatever happens to a connection, its client reads one final status
\* (source_protocol.rs:244-247).
THEOREM OneFinalTheorem == BodySpec => []OneFinalStatus
<1>1. BodyInv => OneFinalStatus
  <2> SUFFICES ASSUME BodyInv
               PROVE  \A i, j \in 1..Len(replies) : replies[i] \in Final /\ replies[j] \in Final => i = j
    BY DEF OneFinalStatus
  <2>1. replies \in Answers
    BY DEF BodyInv, Talk, UpfrontReply, Answers, Sizes, BodyTypeOK
  <2>2. CASE replies \in {<<>>, <<"100">>, <<"200">>, <<"400">>, <<"405">>, <<"100", "200">>}
    BY <2>2 DEF Final, Refusals
  <2>3. ASSUME NEW status \in Refusals, replies = <<status>>
        PROVE  \A i, j \in 1..Len(replies) : i = j
    <3>1. Len(replies) = 1
      BY <2>3
    <3> QED
      BY <3>1
  <2> QED
    BY <2>1, <2>2, <2>3 DEF Answers
<1> QED
  BY <1>1, BodyInvariant, PTL

\* However the connection is cut into segments, blocks, chunks and reads, the
\* ingest is given the payload from its first byte on, in order and without
\* framing; it is told of the end only after all of it; and a well-framed
\* upload fails only if it is broken (chunked.rs:17-19).
THEOREM StreamTheorem == BodySpec => UploadIsStream
<1>1. BodyInit => Upload!UploadInit
  BY BodyInitInv
<1>2. BodyInv /\ [BodyNext]_bodyVars => [Upload!UploadNext]_(Upload!uvars)
  BY BodyStep DEF Fine
<1> QED
  BY <1>1, <1>2, BodyInvariant, PTL DEF BodySpec, UploadIsStream, Upload!UploadSpec

-----------------------------------------------------------------------------
(* The ingest: the steps that queue a chunk go through QueueAudio; the     *)
(* others leave the chunks alone (ReaderQuiet, PublisherQuiet).            *)

\* What depends on the source and the chunks alone does not change with the
\* rest.
LEMMA SourceStable ==
  ASSUME src' = src
  PROVE  AudioStart' = AudioStart /\ TagEnd' = TagEnd /\ Chunk' = Chunk
BY DEF AudioStart, TagEnd, FrameEnd, Chunk

LEMMA ChunksStable ==
  ASSUME taken' = taken, chan' = chan
  PROVE  Forwarded' = Forwarded
BY DEF Forwarded

LEMMA SourceTyped ==
  ASSUME TypeOK
  PROVE  /\ src.mp3 \in BOOLEAN /\ src.len \in Nat /\ src.id3 \in Nat /\ src.xing \in Nat
         /\ src.transcode \in BOOLEAN
         /\ src.id3 = 0 \/ src.id3 >= TagHead
         /\ pos \in Nat /\ base \in Nat /\ base <= pos /\ pos <= src.len
         /\ TagHead \in Nat \ {0} /\ Probe \in Nat \ {0} /\ Buffer \in Nat \ {0}
         /\ Len(taken) \in Nat
<1>1. src \in SourceSet /\ (src.id3 = 0 \/ src.id3 >= TagHead)
  BY IngestAssumption DEF TypeOK
<1>2. Len(taken) \in Nat
  BY LenProperties DEF TypeOK
<1> QED
  BY <1>1, <1>2, IngestAssumption DEF TypeOK, SourceSet

\* The stream of chunks is typed; a chunk taken out stays in it.
LEMMA ForwardedTyped ==
  ASSUME TypeOK
  PROVE  Forwarded \in Seq(Chunk) /\ Len(Forwarded) \in Nat
         /\ (Forwarded = <<>> <=> taken = <<>> /\ chan = <<>>)
<1>1. taken \in Seq(Chunk) /\ chan \in Seq(Chunk)
  BY DEF TypeOK
<1> QED
  BY <1>1, ConcatProperties, ConcatEqualIffEmpty, LenProperties DEF Forwarded

LEMMA TakeKeeps ==
  ASSUME TypeOK, chan # <<>>, taken' = Append(taken, chan[1]), chan' = Tail(chan)
  PROVE  Forwarded' = Forwarded /\ taken' \in Seq(Chunk) /\ chan' \in Seq(Chunk)
         /\ Len(taken') = Len(taken) + 1
<1>1. taken \in Seq(Chunk) /\ chan \in Seq(Chunk)
  BY DEF TypeOK
<1>2. Len(chan) \in Nat \ {0} /\ chan[1] \in Chunk
  BY <1>1, EmptySeq, ElementOfSeq
<1>3. /\ taken' \in Seq(Chunk) /\ Len(taken') = Len(taken) + 1
      /\ \A i \in 1..Len(taken) + 1 : taken'[i] = IF i <= Len(taken) THEN taken[i] ELSE chan[1]
  BY <1>1, <1>2, AppendProperties, LenProperties
<1>4. /\ chan' \in Seq(Chunk) /\ Len(chan') = Len(chan) - 1
      /\ \A i \in 1..Len(chan) - 1 : chan'[i] = chan[i + 1]
  BY <1>1, <1>2, HeadTailProperties
<1>5. taken' \o chan' = taken \o chan
  <2>1. Len(taken) \in Nat
    BY <1>1, LenProperties
  <2>2. /\ taken \o chan \in Seq(Chunk) /\ Len(taken \o chan) = Len(taken) + Len(chan)
        /\ \A i \in 1..Len(taken) + Len(chan) :
             (taken \o chan)[i] = IF i <= Len(taken) THEN taken[i] ELSE chan[i - Len(taken)]
    BY <1>1, ConcatProperties, Zenon
  <2>3. /\ taken' \o chan' \in Seq(Chunk) /\ Len(taken' \o chan') = Len(taken') + Len(chan')
        /\ \A i \in 1..Len(taken') + Len(chan') :
             (taken' \o chan')[i] = IF i <= Len(taken') THEN taken'[i] ELSE chan'[i - Len(taken')]
    <3>1. taken' \in Seq(Chunk) /\ chan' \in Seq(Chunk)
      BY <1>3, <1>4
    <3> QED
      BY <3>1, ConcatProperties, Zenon
  <2>4. \A i \in 1..Len(taken \o chan) : (taken' \o chan')[i] = (taken \o chan)[i]
    BY <1>2, <1>3, <1>4, <2>1, <2>2, <2>3
  <2> QED
    BY <1>2, <1>3, <1>4, <2>1, <2>2, <2>3, <2>4, SeqEqual
<1> QED
  BY <1>3, <1>4, <1>5 DEF Forwarded

\* A chunk that is queued extends the stream at its end.
LEMMA QueueExtends ==
  ASSUME TypeOK, src' = src, taken' = taken, result = None, NEW a \in Nat, NEW b \in Nat,
         a < b, b <= src.len, Queue(a, b)
  PROVE  /\ Forwarded' = Append(Forwarded, <<a, b>>)
         /\ <<a, b>> \in Chunk /\ chan' \in Seq(Chunk)
<1>1. taken \in Seq(Chunk) /\ chan \in Seq(Chunk)
  BY DEF TypeOK
<1>2. <<a, b>> \in Chunk
  BY SourceTyped DEF Chunk
<1>3. chan' = Append(chan, <<a, b>>)
  BY DEF Queue
<1>4. chan' \in Seq(Chunk) /\ chan' = chan \o <<<<a, b>>>>
  BY <1>1, <1>2, <1>3, AppendProperties, AppendIsConcat
<1>5. <<<<a, b>>>> \in Seq(Chunk)
  BY <1>2
<1>6. taken \o (chan \o <<<<a, b>>>>) = (taken \o chan) \o <<<<a, b>>>>
  BY <1>1, <1>5, ConcatAssociative
<1>7. (taken \o chan) \o <<<<a, b>>>> = Append(taken \o chan, <<a, b>>)
  BY <1>1, <1>2, ConcatProperties, AppendIsConcat
<1> QED
  BY <1>2, <1>4, <1>6, <1>7 DEF Forwarded

-----------------------------------------------------------------------------
(* Steps that leave the chunks alone.                                      *)

\* What the audio properties say of the chunks is kept.
LEMMA AudioQuiet ==
  ASSUME AudioOnly, UNCHANGED <<src, taken, chan>>
  PROVE  AudioOnly'
BY SourceStable, ChunksStable DEF AudioOnly

LEMMA ReaderQuiet ==
  ASSUME IngestInv,
         PollReader \/ ReaderStops \/ ReadFails \/ SetSlot \/ CancelAbort \/ ReaderReturns
  PROVE  IngestInv'
<1> USE DEF IngestInv, PollReader, ReaderStops, ReadFails, SetSlot, CancelAbort, ReaderReturns,
           Mark
<1>0. UNCHANGED <<src, taken, chan, ppc, result, pos, base, held, lost>>
  OBVIOUS
<1>1. TypeOK'
  BY <1>0, SourceStable, SourceTyped DEF TypeOK
<1>2. PrefixExact'
  BY <1>0, ChunksStable DEF PrefixExact, TypeOK
<1>3. StreamExact'
  BY <1>0, SourceStable, ChunksStable DEF StreamExact, TokensExact, TypeOK
<1>4. TokensExact'
  <2>1. CASE PollReader \/ ReaderStops \/ ReadFails
    BY <1>0, <2>1 DEF TokensExact, AtRead, ProbeFull, Reading
  <2>2. CASE SetSlot
    BY <1>0, <2>2 DEF TokensExact, AtRead, ProbeFull, Reading
  <2>3. CASE CancelAbort
    <3>1. mark' # None
      BY <2>3, SourceTyped, IngestAssumption
    <3> QED
      BY <1>0, <2>3, <3>1 DEF TokensExact, AtRead, ProbeFull, Reading
  <2>4. CASE ReaderReturns
    BY <1>0, <2>4 DEF TokensExact, AtRead, ProbeFull, Reading
  <2> QED
    BY <2>1, <2>2, <2>3, <2>4
<1>5. Leaving' /\ StopsPromptly'
  BY <1>0, SourceTyped DEF Leaving, StopsPromptly, TypeOK
<1>6. AudioOnly'
  BY <1>0, AudioQuiet
<1>7. OkIsComplete' /\ ErrorBeforeAbort'
  BY <1>0, SourceStable DEF OkIsComplete, ErrorBeforeAbort, TypeOK
<1> QED
  BY <1>1, <1>2, <1>3, <1>4, <1>5, <1>6, <1>7

LEMMA PublisherQuiet ==
  ASSUME IngestInv, PollCancel \/ PollAbort \/ Suspend \/ Wake \/ PaceOver
  PROVE  IngestInv'
<1> USE DEF IngestInv, PollCancel, PollAbort, Suspend, Wake, PaceOver, Goto, Break, readerVars
<1>0. UNCHANGED <<src, taken, chan, rpc, pos, base, polled, aborted, cancelled, mark, held, lost>>
  OBVIOUS
<1>1. TypeOK'
  BY <1>0, SourceStable, SourceTyped DEF TypeOK, TokensExact
<1>2. PrefixExact'
  BY <1>0, ChunksStable DEF PrefixExact
<1>3. StreamExact'
  BY <1>0, SourceStable, ChunksStable DEF StreamExact, TokensExact
<1>4. TokensExact'
  BY <1>0, SourceTyped, IngestAssumption DEF TokensExact, TypeOK, AtRead, ProbeFull, Reading
<1>5. Leaving' /\ StopsPromptly'
  BY <1>0, SourceTyped DEF Leaving, StopsPromptly, TokensExact, TypeOK
<1>6. AudioOnly'
  BY <1>0, AudioQuiet
<1>7. OkIsComplete' /\ ErrorBeforeAbort'
  BY <1>0, SourceStable DEF OkIsComplete, ErrorBeforeAbort, TokensExact
<1> QED
  BY <1>1, <1>2, <1>3, <1>4, <1>5, <1>6, <1>7

LEMMA CancelInv == ASSUME IngestInv, Cancel PROVE IngestInv'
<1> USE DEF IngestInv, Cancel, Mark, readerVars
<1>0. UNCHANGED <<src, taken, chan, rpc, pos, base, polled, slot, aborted, ppc, held, lost, result>>
  OBVIOUS
<1>1. TypeOK'
  BY <1>0, SourceStable, SourceTyped DEF TypeOK
<1>2. PrefixExact'
  BY <1>0, ChunksStable DEF PrefixExact
<1>3. StreamExact'
  BY <1>0, SourceStable, ChunksStable, SourceTyped, IngestAssumption DEF StreamExact
<1>4. TokensExact'
  BY <1>0, SourceTyped, IngestAssumption DEF TokensExact, TypeOK, AtRead, ProbeFull, Reading
<1>5. Leaving' /\ StopsPromptly'
  BY <1>0, SourceTyped, IngestAssumption DEF Leaving, StopsPromptly, TokensExact, TypeOK
<1>6. AudioOnly'
  BY <1>0, AudioQuiet
<1>7. OkIsComplete' /\ ErrorBeforeAbort'
  BY <1>0, SourceStable, SourceTyped, IngestAssumption DEF OkIsComplete, ErrorBeforeAbort
<1> QED
  BY <1>1, <1>2, <1>3, <1>4, <1>5, <1>6, <1>7

\* The channel is empty, so what was taken is all that was queued.
LEMMA SourceEndedInv == ASSUME IngestInv, SourceEnded PROVE IngestInv'
<1> USE DEF IngestInv, SourceEnded, Flush, Closed, Break, readerVars
<1>0. /\ UNCHANGED <<src, taken, chan, rpc, pos, base, polled, slot, aborted, cancelled, mark>>
      /\ ppc = "poll_recv" /\ ppc' = "over" /\ result' = "Ok" /\ rpc = "done"
  OBVIOUS
<1>1. TypeOK'
  BY <1>0, SourceStable, SourceTyped DEF TypeOK
<1>2. PrefixExact'
  BY <1>0, ChunksStable DEF PrefixExact
<1>3. StreamExact'
  BY <1>0, IngestAssumption DEF StreamExact
<1>4. TokensExact'
  BY <1>0, IngestAssumption DEF TokensExact, AtRead, ProbeFull, Reading
<1>5. Leaving' /\ StopsPromptly'
  BY <1>0 DEF Leaving, StopsPromptly
<1>6. AudioOnly'
  BY <1>0, AudioQuiet
<1>7. Forwarded = taken
  BY <1>0, ConcatEmptySeq DEF Forwarded, TypeOK
<1>8. result = None
  BY <1>0 DEF TokensExact
<1>9. OkIsComplete'
  <2>1. SUFFICES ASSUME mark = None
                 PROVE  /\ pos = src.len
                        /\ pos > AudioStart => taken # <<>> /\ taken[Len(taken)][2] = src.len
                        /\ held' => lost'
    BY <1>0, SourceStable DEF OkIsComplete
  <2>2. pos = src.len /\ (taken # <<>> => taken[Len(taken)][2] = pos)
        /\ (taken = <<>> => pos <= AudioStart)
    BY <1>0, <1>7, <1>8, <2>1 DEF StreamExact
  <2>3. AudioStart \in Int
    BY SourceTyped DEF AudioStart, TagEnd, FrameEnd
  <2> QED
    BY <2>2, <2>3, SourceTyped DEF TypeOK
<1>10. ErrorBeforeAbort'
  BY <1>0 DEF ErrorBeforeAbort
<1> QED
  BY <1>1, <1>2, <1>3, <1>4, <1>5, <1>6, <1>9, <1>10

LEMMA TakeInv == ASSUME IngestInv, Take PROVE IngestInv'
<1> USE DEF IngestInv, Take, readerVars
<1>0. /\ UNCHANGED <<src, rpc, pos, base, polled, slot, aborted, cancelled, mark, result>>
      /\ ppc = "poll_recv" /\ ppc' \in {"poll_cancel", "pace_cancel"}
      /\ result = None
  BY DEF TokensExact
<1>1. /\ Forwarded' = Forwarded
      /\ taken' \in Seq(Chunk) /\ chan' \in Seq(Chunk)
      /\ Len(taken') = Len(taken) + 1
  BY TakeKeeps
<1>2. TypeOK'
  BY <1>0, <1>1, SourceStable DEF TypeOK, Transcode
<1>3. PrefixExact'
  BY <1>0, <1>1 DEF PrefixExact
<1>4. StreamExact'
  BY <1>0, <1>1, SourceStable DEF StreamExact
<1>5. TokensExact'
  BY <1>0 DEF TokensExact, AtRead, ProbeFull, Reading
<1>6. Leaving' /\ StopsPromptly'
  BY <1>0, <1>1, SourceTyped DEF Leaving, StopsPromptly, TypeOK
<1>7. AudioOnly'
  BY <1>0, <1>1, SourceStable DEF AudioOnly
<1>8. OkIsComplete' /\ ErrorBeforeAbort'
  BY <1>0, IngestAssumption DEF OkIsComplete, ErrorBeforeAbort
<1> QED
  BY <1>2, <1>3, <1>4, <1>5, <1>6, <1>7, <1>8
-----------------------------------------------------------------------------
(* Steps that queue a chunk.                                               *)

\* The reader moves only its own variables and the channel.
LEMMA ReaderTyped ==
  ASSUME TypeOK, polled' = FALSE,
         UNCHANGED <<src, taken, slot, aborted, cancelled, ppc, held, lost, mark, result>>,
         rpc' \in Reading \cup {"done"}, chan' \in Seq(Chunk),
         pos' \in 0..src.len, base' \in 0..pos'
  PROVE  TypeOK'
<1>1. src' \in Sources /\ chan' \in Seq(Chunk') /\ taken' \in Seq(Chunk')
  BY SourceStable DEF TypeOK
<1>2. {polled', slot', aborted', cancelled', held', lost'} \subseteq BOOLEAN
  BY Zenon DEF TypeOK
<1>3. pos' \in 0..src'.len /\ base' \in 0..pos'
  OBVIOUS
<1>4. rpc' \in Reading \cup {"set_slot", "cancel_abort", "return", "done"}
  OBVIOUS
<1> QED
  BY <1>1, <1>2, <1>3, <1>4 DEF TypeOK, Reading

\* The reader is through with the prefix, or was before.  What it queues
\* starts where the last chunk ends; the first chunk starts with the audio.
LEMMA QueueAudio ==
  ASSUME IngestInv, rpc \in Reading, rpc' \in {"stream", "done"},
         UNCHANGED <<src, taken, slot, aborted, cancelled, ppc, held, lost, mark, result>>,
         NEW a \in Nat, NEW b \in Nat, a <= b, b <= src.len, Queue(a, b),
         pos' = b, base' = b, polled' = FALSE,
         result = None /\ Forwarded # <<>> => a = Forwarded[Len(Forwarded)][2],
         result = None /\ Forwarded = <<>> /\ a < b => a = AudioStart \/ (src.xing > Probe /\ a = TagEnd),
         result = None /\ Forwarded = <<>> /\ a = b =>
           b <= AudioStart /\ (b = AudioStart \/ b = src.len),
         rpc' = "done" => b = src.len
  PROVE  IngestInv'
<1> USE DEF IngestInv
<1>0. Forwarded \in Seq(Chunk) /\ Len(Forwarded) \in Nat
  BY ForwardedTyped
<1>x. pos' \in 0..src.len /\ base' \in 0..pos' /\ rpc' \in Reading \cup {"done"}
  BY SourceTyped DEF Reading
<1>1. CASE a < b /\ result = None
  <2>1. Forwarded' = Append(Forwarded, <<a, b>>) /\ <<a, b>> \in Chunk /\ chan' \in Seq(Chunk)
    BY <1>1, QueueExtends
  <2>2. /\ Len(Forwarded') = Len(Forwarded) + 1
        /\ \A i \in 1..Len(Forwarded) : Forwarded'[i] = Forwarded[i]
        /\ Forwarded'[Len(Forwarded) + 1] = <<a, b>>
    BY <1>0, <2>1, AppendProperties
  <2>3. Forwarded' # <<>>
    BY <1>0, <2>2
  <2>4. Forwarded # <<>> => Len(Forwarded) \in Nat \ {0}
    BY <1>0, EmptySeq
  <2>5. TypeOK'
    BY <2>1, <1>x, ReaderTyped
  <2>6. StreamExact'
    BY <1>0, <2>2, <2>3 DEF StreamExact
  <2>7. AudioOnly'
    <3>1. \A i \in 1..Len(Forwarded) : Forwarded'[i][2] = Forwarded'[i + 1][1]
      <4> SUFFICES ASSUME NEW i \in 1..Len(Forwarded)
                   PROVE  Forwarded'[i][2] = Forwarded'[i + 1][1]
        OBVIOUS
      <4>1. CASE i < Len(Forwarded)
        <5>1. i \in 1..Len(Forwarded) - 1 /\ i + 1 \in 1..Len(Forwarded)
          BY <1>0, <4>1
        <5> QED
          BY <5>1, <2>2 DEF AudioOnly
      <4>2. CASE i = Len(Forwarded)
        <5>1. Forwarded # <<>> /\ Forwarded'[i + 1][1] = a
          BY <4>2, <2>2, <1>0
        <5> QED
          BY <4>2, <5>1, <2>2, <1>1
      <4> QED
        BY <1>0, <4>1, <4>2
    <3>2. \/ Forwarded'[1][1] = AudioStart
          \/ src.xing > Probe /\ Forwarded'[1][1] = TagEnd
      <4>1. CASE Forwarded = <<>>
        BY <4>1, <1>0, <1>1, <2>2
      <4>2. CASE Forwarded # <<>>
        BY <4>2, <1>0, <2>2, <2>4 DEF AudioOnly
      <4> QED
        BY <4>1, <4>2
    <3> QED
      BY <1>0, <2>2, <3>1, <3>2, SourceStable DEF AudioOnly
  <2> QED
    BY <2>5, <2>6, <2>7, <1>1, IngestAssumption
       DEF PrefixExact, TokensExact, Reading, AtRead, ProbeFull, Leaving, StopsPromptly,
           OkIsComplete, ErrorBeforeAbort
<1>2. CASE ~(a < b /\ result = None)
  <2>1. chan' = chan
    BY <1>2 DEF Queue
  <2>2. Forwarded' = Forwarded
    BY <2>1, ChunksStable
  <2>3. TypeOK'
    <3>1. chan' \in Seq(Chunk)
      BY <2>1 DEF TypeOK
    <3> QED
      BY <3>1, <1>x, ReaderTyped
  <2>4. StreamExact'
    BY <1>2, <2>2, SourceStable DEF StreamExact
  <2>5. AudioOnly'
    BY <2>1, AudioQuiet
  <2> QED
    BY <2>3, <2>4, <2>5
       DEF PrefixExact, TokensExact, Reading, AtRead, ProbeFull, Leaving, StopsPromptly,
           OkIsComplete, ErrorBeforeAbort
<1> QED
  BY <1>1, <1>2

\* Where the audio starts, once it is known that a tag can be told.
LEMMA AudioStartBehindTag ==
  ASSUME TypeOK, src.mp3, pos >= TagHead
  PROVE  /\ TagEnd = src.id3 /\ AudioStart \in Nat /\ AudioStart >= TagEnd
         /\ src.xing <= src.len - src.id3 => AudioStart = src.id3 + src.xing
         /\ ~(src.xing <= src.len - src.id3) => AudioStart = src.id3
BY SourceTyped DEF TagEnd, FrameEnd, AudioStart

LEMMA AudioStartNoTag ==
  ASSUME TypeOK, src.len < TagHead \/ ~src.mp3
  PROVE  AudioStart = 0
BY SourceTyped DEF TagEnd, FrameEnd, AudioStart

\* More of the prefix: nothing is queued.
LEMMA ReadPrefixInv ==
  ASSUME IngestInv, NEW n \in 1..Buffer, polled, pos + n <= src.len,
         ReadPrefix(n) \/ ReadProbe, pos' = pos + n, polled' = FALSE,
         UNCHANGED <<src, slot, aborted, cancelled, ppc, taken, held, lost, mark, result>>
  PROVE  IngestInv'
<1> USE DEF IngestInv
<1>1. chan' = chan /\ rpc \in {"head", "skip", "probe"} /\ rpc' \in {"head", "skip", "probe"}
  BY DEF ReadPrefix, ReadProbe, Phase
<1>2. Forwarded' = Forwarded
  BY <1>1, ChunksStable
<1>3. n \in Nat /\ n > 0
  BY SourceTyped
<1>4. base' \in 0..pos'
  BY <1>3, SourceTyped DEF ReadPrefix, ReadProbe, KeptFrom, Phase
<1>5. TypeOK'
  <2>1. chan' \in Seq(Chunk) /\ pos' \in 0..src.len /\ rpc' \in Reading
    BY <1>1, <1>3, SourceTyped DEF TypeOK, Reading
  <2> QED
    BY <2>1, <1>4, ReaderTyped
<1>6. PrefixExact'
  BY <1>1, <1>2, <1>3, SourceTyped DEF PrefixExact, ReadPrefix, ReadProbe, KeptFrom, Phase
<1>7. AudioOnly'
  BY <1>1, AudioQuiet
<1>8. TokensExact'
  BY <1>1 DEF TokensExact
<1> QED
  BY <1>1, <1>5, <1>6, <1>7, <1>8
     DEF StreamExact, TokensExact, Reading, Leaving, StopsPromptly, OkIsComplete, ErrorBeforeAbort

LEMMA ReadInv == ASSUME IngestInv, NEW n \in 1..Buffer, ReadBytes(n) PROVE IngestInv'
<1>0. /\ UNCHANGED <<src, taken, slot, aborted, cancelled, ppc, held, lost, mark, result>>
      /\ polled /\ polled' = FALSE /\ pos' = pos + n /\ pos + n <= src.len
  BY DEF ReadBytes
<1>1. CASE ReadPrefix(n) \/ ReadProbe
  BY <1>0, <1>1, ReadPrefixInv
<1>2. CASE ReadStream(n)
  <2>1. n \in Nat /\ pos \in Nat /\ pos + n \in Nat /\ pos < pos + n
    BY SourceTyped DEF IngestInv
  <2>2. rpc = "stream" /\ rpc' = "stream" /\ Queue(pos, pos + n) /\ base' = pos + n
    BY <1>2 DEF ReadStream
  <2>3. result = None /\ Forwarded # <<>> => pos = Forwarded[Len(Forwarded)][2]
    BY <2>2 DEF IngestInv, StreamExact
  <2>4. result = None /\ Forwarded = <<>> => pos = AudioStart
    BY <1>0, <2>1, <2>2, SourceTyped DEF IngestInv, StreamExact
  <2>5. rpc \in Reading /\ rpc' \in {"stream", "done"} /\ rpc' # "done"
    BY <2>2 DEF Reading
  <2> DEFINE b == pos + n
  <2>6. b \in Nat /\ pos \in Nat /\ pos <= b /\ pos < b /\ pos # b /\ b <= src.len
    BY <1>0, <2>1
  <2>7. pos' = b /\ base' = b /\ Queue(pos, b)
    BY <1>0, <2>2
  <2> HIDE DEF b
  <2> QED
    BY <1>0, <2>3, <2>4, <2>5, <2>6, <2>7, QueueAudio
<1> QED
  BY <1>0, <1>1, <1>2 DEF ReadBytes

\* A frame is recognised only in bytes that hold all of it.
LEMMA XingFits == ASSUME NEW n \in Nat, TypeOK PROVE XingIn(n) \in Nat /\ XingIn(n) <= n
BY SourceTyped DEF XingIn

LEMMA StripInv == ASSUME IngestInv, Strip PROVE IngestInv'
<1>0. /\ UNCHANGED <<src, taken, slot, aborted, cancelled, ppc, held, lost, mark, result>>
      /\ pos' = pos /\ base' = pos /\ polled' = polled /\ rpc = "probe" /\ rpc' = "stream"
      /\ pos - base >= Probe
  BY DEF Strip, ProbeFull
<1>1. src.mp3 /\ Forwarded = <<>> /\ pos >= TagHead /\ base = src.id3
  BY <1>0 DEF IngestInv, PrefixExact
<1>2. polled' = FALSE
  BY <1>0 DEF IngestInv, TypeOK, TokensExact, AtRead, ProbeFull
<1> DEFINE a == base + XingIn(pos - base)
<1>3. a \in Nat /\ pos \in Nat /\ a <= pos /\ pos <= src.len /\ Queue(a, pos)
  <2>1. pos \in Nat /\ base \in Nat /\ pos - base \in Nat /\ pos <= src.len
    BY SourceTyped DEF IngestInv
  <2>2. XingIn(pos - base) \in Nat /\ XingIn(pos - base) <= pos - base
    BY <2>1, XingFits DEF IngestInv
  <2>3. Queue(a, pos)
    BY DEF Strip
  <2> QED
    BY <2>1, <2>2, <2>3
<1>4. /\ a < pos => a = AudioStart \/ (src.xing > Probe /\ a = TagEnd)
      /\ a = pos => pos <= AudioStart /\ pos = AudioStart
  <2>1. /\ pos \in Nat /\ base \in Nat /\ src.len \in Nat /\ src.xing \in Nat
        /\ Probe \in Nat \ {0} /\ pos <= src.len
    BY SourceTyped DEF IngestInv
  <2>2. /\ TagEnd = base /\ AudioStart \in Nat
        /\ src.xing <= src.len - base => AudioStart = base + src.xing
    BY <1>1, AudioStartBehindTag DEF IngestInv
  <2>3. CASE src.xing <= pos - base
    <3>1. a = AudioStart
      BY <2>1, <2>2, <2>3 DEF XingIn
    <3> QED
      BY <2>1, <3>1
  <2>4. CASE src.xing > pos - base
    <3>1. a = base /\ base < pos
      BY <1>0, <2>1, <2>4 DEF XingIn
    <3> QED
      BY <1>0, <2>1, <2>2, <2>4, <3>1
  <2> QED
    BY <2>1, <2>3, <2>4
<1>5. rpc \in Reading /\ rpc' \in {"stream", "done"} /\ rpc' # "done"
  BY <1>0 DEF Reading
<1> HIDE DEF a
<1> QED
  BY <1>0, <1>1, <1>2, <1>3, <1>4, <1>5, QueueAudio

LEMMA EofInv == ASSUME IngestInv, Eof PROVE IngestInv'
<1>0. /\ UNCHANGED <<src, taken, slot, aborted, cancelled, ppc, held, lost, mark, result>>
      /\ pos' = pos /\ base' = pos /\ polled' = FALSE /\ pos = src.len
      /\ pos \in Nat /\ pos <= src.len
      /\ rpc \in Reading /\ rpc' \in {"stream", "done"}
  BY SourceTyped DEF Eof, IngestInv, Reading
<1>1. CASE rpc = "head"
  <2>1. Forwarded = <<>> /\ AudioStart = 0
    BY <1>0, <1>1, AudioStartNoTag DEF IngestInv, PrefixExact
  <2> DEFINE a == 0
  <2>2. a \in Nat /\ a <= pos /\ a = AudioStart /\ Queue(a, pos)
    BY <1>0, <1>1, <2>1 DEF Eof
  <2> HIDE DEF a
  <2> QED
    BY <1>0, <2>1, <2>2, QueueAudio
<1>2. CASE rpc = "probe"
  <2>1. src.mp3 /\ Forwarded = <<>> /\ pos >= TagHead /\ base = src.id3
    BY <1>2 DEF IngestInv, PrefixExact
  <2> DEFINE a == base + XingIn(pos - base)
  <2>2. a \in Nat /\ a <= pos /\ Queue(a, pos)
    <3>1. base \in Nat /\ pos - base \in Nat
      BY SourceTyped DEF IngestInv
    <3>2. XingIn(pos - base) \in Nat /\ XingIn(pos - base) <= pos - base
      BY <3>1, XingFits DEF IngestInv
    <3>3. Queue(a, pos)
      BY <1>2 DEF Eof
    <3> QED
      BY <1>0, <3>1, <3>2, <3>3
  <2>3. a = AudioStart
    BY <1>0, <2>1, SourceTyped, AudioStartBehindTag DEF IngestInv, XingIn
  <2> HIDE DEF a
  <2> QED
    BY <1>0, <2>1, <2>2, <2>3, QueueAudio
<1>3. CASE rpc = "skip"
  <2>1. src.mp3 /\ Forwarded = <<>> /\ pos >= TagHead /\ pos < src.id3
    BY <1>3 DEF IngestInv, PrefixExact
  <2>2. pos <= AudioStart
    BY <1>0, <2>1, SourceTyped, AudioStartBehindTag DEF IngestInv
  <2> DEFINE a == pos
  <2>3. a \in Nat /\ a = pos /\ a <= pos /\ ~(a < pos) /\ Queue(a, pos)
    BY <1>0, <1>3 DEF Eof, Queue
  <2> HIDE DEF a
  <2> QED
    BY <1>0, <2>1, <2>2, <2>3, QueueAudio
<1>4. CASE rpc = "stream"
  <2>1. /\ result = None /\ Forwarded # <<>> => pos = Forwarded[Len(Forwarded)][2]
        /\ result = None /\ Forwarded = <<>> => pos <= AudioStart
    BY <1>4 DEF IngestInv, StreamExact
  <2> DEFINE a == pos
  <2>2. a \in Nat /\ a = pos /\ a <= pos /\ ~(a < pos) /\ Queue(a, pos)
    BY <1>0, <1>4 DEF Eof, Queue
  <2> HIDE DEF a
  <2> QED
    BY <1>0, <2>1, <2>2, QueueAudio
<1> QED
  BY <1>0, <1>1, <1>2, <1>3, <1>4 DEF Reading

-----------------------------------------------------------------------------
(* The invariant, and what it says.                                        *)

LEMMA InitInv == Init => IngestInv
<1> SUFFICES ASSUME Init PROVE IngestInv
  OBVIOUS
<1> USE DEF Init
<1>1. src \in SourceSet
  BY IngestAssumption
<1>2. Forwarded = <<>>
  BY ConcatEmptySeq DEF Forwarded
<1>3. chan \in Seq(Chunk) /\ taken \in Seq(Chunk) /\ Len(taken) = 0
  OBVIOUS
<1>4. TypeOK
  <2>1. {polled, slot, aborted, cancelled, held, lost} \subseteq BOOLEAN
    BY Zenon
  <2>2. pos \in 0..src.len /\ base \in 0..pos
    BY <1>1 DEF SourceSet
  <2> QED
    BY <1>3, <2>1, <2>2 DEF TypeOK, Reading
<1>5. PrefixExact
  BY <1>2, IngestAssumption DEF PrefixExact
<1>6. ~src.mp3 => AudioStart = 0
  BY <1>4, AudioStartNoTag
<1>7. StreamExact
  BY <1>2, <1>6 DEF StreamExact
<1>8. TokensExact
  BY IngestAssumption DEF TokensExact
<1>9. AudioOnly
  BY <1>2 DEF AudioOnly
<1> QED
  BY <1>3, <1>4, <1>5, <1>7, <1>8, <1>9, IngestAssumption
     DEF IngestInv, Leaving, OkIsComplete, ErrorBeforeAbort, StopsPromptly

LEMMA StepInv == IngestInv /\ [Next]_vars => IngestInv'
<1> SUFFICES ASSUME IngestInv, [Next]_vars PROVE IngestInv'
  OBVIOUS
<1>1. CASE ReaderStep
  BY <1>1, ReaderQuiet, StripInv DEF ReaderStep
<1>2. CASE NetworkStep
  BY <1>2, EofInv, ReaderQuiet, ReadInv DEF NetworkStep
<1>3. CASE PublisherStep
  BY <1>3, PublisherQuiet, TakeInv, SourceEndedInv DEF PublisherStep
<1>4. CASE Cancel
  BY <1>4, CancelInv
<1>5. CASE UNCHANGED vars
  <2> USE <1>5 DEF vars, IngestInv
  <2>1. TypeOK'
    BY SourceStable DEF TypeOK
  <2>2. PrefixExact' /\ StreamExact'
    BY SourceStable, ChunksStable DEF PrefixExact, StreamExact
  <2>3. AudioOnly'
    BY AudioQuiet
  <2>4. TokensExact' /\ Leaving'
    BY DEF TokensExact, Leaving, AtRead, ProbeFull
  <2>5. OkIsComplete' /\ ErrorBeforeAbort' /\ StopsPromptly'
    BY SourceStable DEF OkIsComplete, ErrorBeforeAbort, StopsPromptly
  <2> QED
    BY <2>1, <2>2, <2>3, <2>4, <2>5
<1> QED
  BY <1>1, <1>2, <1>3, <1>4, <1>5 DEF Next

\* The inductive invariant holds in every state: where reader and publisher
\* stand, and what has been queued by then (drain_reader, run).
THEOREM Invariance == SafetySpec => []IngestInv
BY InitInv, StepInv, PTL DEF SafetySpec

\* What listeners get is the source's audio without a gap, without a byte of
\* the tag or the metadata frame, however it is cut into reads
\* (strip_mp3_prefix).
THEOREM AudioIsWhole == SafetySpec => []AudioOnly
<1>1. IngestInv => AudioOnly
  BY DEF IngestInv
<1> QED
  BY Invariance, <1>1, PTL

\* run returns Ok for an ingest nobody cancelled only when all of the source
\* was published.
THEOREM OkComplete == SafetySpec => []OkIsComplete
<1>1. IngestInv => OkIsComplete
  BY DEF IngestInv
<1> QED
  BY Invariance, <1>1, PTL

\* run finds an error in the slot whenever the abort token is cancelled: its
\* expect never fails.
THEOREM NoPanic == SafetySpec => []ErrorBeforeAbort
<1>1. IngestInv => ErrorBeforeAbort
  BY DEF IngestInv
<1> QED
  BY Invariance, <1>1, PTL

\* After a cancellation or an I/O error at most one more chunk is published,
\* however many are queued.
THEOREM PromptStop == SafetySpec => []StopsPromptly
<1>1. IngestInv => StopsPromptly
  BY DEF IngestInv
<1> QED
  BY Invariance, <1>1, PTL
=============================================================================
