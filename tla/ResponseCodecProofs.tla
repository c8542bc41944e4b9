------------------------ MODULE ResponseCodecProofs ------------------------
(***************************************************************************)
(* Theorems about ResponseCodec: a response asks the questions of its      *)
(* query, can be read, and answers them, for every query and all sizes.    *)
(*                                                                         *)
(* The argument has four parts:                                            *)
(*   - what the model's recursive functions compute, part by part of a     *)
(*     name (LabelledFrom, SqueezedTo) and place by place of the packet    *)
(*     (FlattenSeq), by induction over the length;                         *)
(*   - no name that the server read has a part that is too long for a      *)
(*     label (Short), because its labels are not;                          *)
(*   - where the parts of the response are (Layout);                       *)
(*   - the inductive invariant of the client (Again): in a name, what is   *)
(*     read so far is the name up to some part (InName), and the rest of   *)
(*     what Encode() wrote is what comes next (NameGoesOn).                *)
(***************************************************************************)
EXTENDS ResponseCodec, PacketParserProofs, SequenceTheorems, FiniteSetTheorems

-----------------------------------------------------------------------------
(* Sequences of bytes                                                      *)

Octet == 0..255
Octets == Seq(Octet)

\* What SequenceTheorems says of concatenation, for parts that it has
LEMMA Joined ==
  ASSUME NEW S, NEW s \in Seq(S), NEW r \in Seq(S)
  PROVE  /\ s \o r \in Seq(S) /\ Len(s \o r) = Len(s) + Len(r)
         /\ Len(s) \in Nat /\ Len(r) \in Nat
         /\ \A k \in 1..Len(s) : (s \o r)[k] = s[k]
         /\ \A k \in 1..Len(r) : (s \o r)[Len(s) + k] = r[k]
<1>1. Len(s) \in Nat /\ Len(r) \in Nat
  BY LenProperties
<1>2. /\ s \o r \in Seq(S) /\ Len(s \o r) = Len(s) + Len(r)
      /\ \A k \in 1..(Len(s) + Len(r)) : (s \o r)[k] = IF k <= Len(s) THEN s[k] ELSE r[k - Len(s)]
  BY ConcatProperties
<1>3. \A k \in 1..Len(s) : k \in 1..(Len(s) + Len(r)) /\ k <= Len(s)
  BY <1>1
<1>4. \A k \in 1..Len(r) : /\ Len(s) + k \in 1..(Len(s) + Len(r))
                           /\ ~(Len(s) + k <= Len(s)) /\ (Len(s) + k) - Len(s) = k
  BY <1>1
<1> QED
  BY <1>1, <1>2, <1>3, <1>4

LEMMA SameSequence ==
  ASSUME NEW S, NEW T, NEW s \in Seq(S), NEW r \in Seq(T), Len(s) = Len(r),
         \A k \in 1..Len(s) : s[k] = r[k]
  PROVE  s = r
<1>1. s \in [1..Len(s) -> S] /\ r \in [1..Len(r) -> T]
  BY LenProperties
<1> QED
  BY <1>1

-----------------------------------------------------------------------------
(* encode_domain_name()                                                    *)

LEMMA PartEndIs ==
  ASSUME NEW s \in Octets, NEW i \in Nat, i <= Len(s) + 1
  PROVE  /\ PartEnd(s, i) \in i..(Len(s) + 1)
         /\ PartEnd(s, i) = Len(s) + 1 \/ s[PartEnd(s, i)] = Dot
         /\ \A k \in i..(PartEnd(s, i) - 1) : s[k] # Dot
<1> DEFINE l == Len(s)
           T == {e \in i..(l + 1) : e = l + 1 \/ s[e] = Dot}
<1>1. l \in Nat
  BY LenProperties DEF Octets
<1> HIDE DEF l
<1>2. T \subseteq Nat /\ l + 1 \in T
  BY <1>1 DEF l
<1>3. PICK e \in T : \A d \in T : e <= d
  <2> HIDE DEF T
  <2> QED
    BY <1>2, Least
<1>4. ASSUME NEW k \in i..(e - 1) PROVE s[k] # Dot
  <2>1. k \in i..(l + 1) /\ ~(e <= k)
    BY <1>1, <1>3
  <2> QED
    BY <1>3, <2>1
<1>5. \E d \in i..(l + 1) : /\ d = l + 1 \/ s[d] = Dot
                            /\ \A k \in i..(d - 1) : s[k] # Dot
  BY <1>3, <1>4
<1> QED
  BY <1>5 DEF PartEnd, l

\* One turn of the loop over the parts, with f for the rest of them
Part(s, i) == SubSeq(s, i, PartEnd(s, i) - 1)
PartBytes(p) == IF p = <<>> THEN <<>> ELSE <<Len(p)>> \o p
PartStep(f, s, i) == IF i > Len(s) THEN <<>> ELSE PartBytes(Part(s, i)) \o f[PartEnd(s, i) + 1]

LEMMA LabelledExists ==
  ASSUME NEW s \in Octets
  PROVE  \E f : f = [i \in Nat |-> PartStep(f, s, i)]
<1> DEFINE Right(f, k) == \A i \in Nat : i + k > Len(s) => f[i] = PartStep(f, s, i)
           G == {k \in Nat : \E f : Right(f, k)}
<1>0. Len(s) \in Nat
  BY LenProperties DEF Octets
<1>1. 0 \in G
  <2> DEFINE f == [i \in Nat |-> <<>>]
  <2>1. Right(f, 0)
    BY <1>0 DEF PartStep
  <2> QED
    BY <2>1
<1>9. \A i \in Nat : i <= Len(s) => PartEnd(s, i) + 1 \in Nat /\ PartEnd(s, i) + 1 > i
  BY <1>0, PartEndIs
<1>2. ASSUME NEW k \in Nat, k \in G PROVE k + 1 \in G
  <2>1. PICK f : Right(f, k)
    BY <1>2
  <2> DEFINE h == [i \in Nat |-> PartStep(f, s, i)]
  <2>2. \A i \in Nat : h[i] = PartStep(f, s, i)
    OBVIOUS
  <2> HIDE DEF h
  <2>3. ASSUME NEW i \in Nat, i + (k + 1) > Len(s) PROVE PartStep(f, s, i) = PartStep(h, s, i)
    <3>1. CASE i > Len(s)
      BY <3>1 DEF PartStep
    <3>2. CASE i <= Len(s)
      <4> DEFINE j == PartEnd(s, i) + 1
      <4>1. j \in Nat /\ j > i
        BY <1>9, <3>2
      <4> HIDE DEF j
      <4>2. j + k > Len(s)
        BY <1>0, <2>3, <4>1
      <4>3. f[j] = h[j]
        BY <2>1, <2>2, <4>1, <4>2
      <4> QED
        BY <4>3 DEF PartStep, j
    <3> QED
      BY <1>0, <3>1, <3>2
  <2>4. Right(h, k + 1)
    BY <2>2, <2>3
  <2> QED
    BY <2>4
<1> HIDE DEF G
<1>3. Len(s) + 1 \in G
  BY <1>0, <1>1, <1>2, NumberInduction
<1>4. PICK f : \A i \in Nat : f[i] = PartStep(f, s, i)
  BY <1>0, <1>3 DEF G
<1> DEFINE h == [i \in Nat |-> f[i]]
<1>5. ASSUME NEW i \in Nat PROVE PartStep(h, s, i) = PartStep(f, s, i)
  <2>1. CASE i > Len(s)
    BY <2>1 DEF PartStep
  <2>2. CASE i <= Len(s)
    BY <1>9, <2>2 DEF PartStep
  <2> QED
    BY <1>0, <2>1, <2>2
<1>6. h = [i \in Nat |-> PartStep(h, s, i)]
  BY <1>4, <1>5
<1> QED
  BY <1>6

LEMMA LabelledIs ==
  ASSUME NEW s \in Octets, NEW i \in Nat
  PROVE  LET f == LabelledFrom(s) IN
         /\ i > Len(s) => f[i] = <<>>
         /\ i <= Len(s) => f[i] = PartBytes(Part(s, i)) \o f[PartEnd(s, i) + 1]
<1> DEFINE f == LabelledFrom(s)
<1>1. f = CHOOSE g : g = [j \in Nat |-> PartStep(g, s, j)]
  BY DEF LabelledFrom, PartStep, PartBytes, Part
<1>2. f = [j \in Nat |-> PartStep(f, s, j)]
  BY <1>1, LabelledExists
<1>3. Len(s) \in Nat
  BY LenProperties DEF Octets
<1> HIDE DEF f
<1>4. f[i] = PartStep(f, s, i)
  BY <1>2
<1>5. i > Len(s) => f[i] = <<>>
  BY <1>4 DEF PartStep
<1>6. i <= Len(s) => f[i] = PartBytes(Part(s, i)) \o f[PartEnd(s, i) + 1]
  BY <1>3, <1>4 DEF PartStep
<1> QED
  BY <1>5, <1>6 DEF f

\* No part is as long as a pointer's first byte is great.
Short(s) == \A i \in 1..Len(s), j \in 1..Len(s) : (\A k \in i..j : s[k] # Dot) => j - i < 191

LEMMA PartIs ==
  ASSUME NEW s \in Octets, Short(s), NEW i \in 1..Len(s)
  PROVE  /\ PartEnd(s, i) \in i..(Len(s) + 1) /\ Part(s, i) \in Octets
         /\ Len(Part(s, i)) = PartEnd(s, i) - i /\ Len(Part(s, i)) \in 0..191
         /\ \A k \in 1..Len(Part(s, i)) : Part(s, i)[k] = s[i + k - 1] /\ i + k - 1 \in 1..Len(s)
         /\ s[i] = Dot => PartEnd(s, i) = i /\ Part(s, i) = <<>>
         /\ s[i] # Dot => PartEnd(s, i) > i /\ Part(s, i) # <<>>
<1> DEFINE e == PartEnd(s, i)
<1>1. Len(s) \in Nat /\ s \in Seq(Octet) /\ i \in Nat /\ i <= Len(s) + 1
  BY LenProperties DEF Octets
<1>2. /\ e \in i..(Len(s) + 1) /\ (e = Len(s) + 1 \/ s[e] = Dot)
      /\ \A k \in i..(e - 1) : s[k] # Dot
  BY <1>1, PartEndIs
<1> HIDE DEF e
<1>3. e \in Nat /\ e - 1 \in i - 1..Len(s)
  BY <1>1, <1>2
<1>4. /\ SubSeq(s, i, e - 1) \in Seq(Octet)
      /\ Len(SubSeq(s, i, e - 1)) = IF i <= e - 1 THEN (e - 1) - i + 1 ELSE 0
      /\ \A k \in 1..((e - 1) - i + 1) : SubSeq(s, i, e - 1)[k] = s[i + k - 1]
  BY <1>1, <1>2, <1>3, SubSeqProperties
<1>5. Len(SubSeq(s, i, e - 1)) = e - i
  BY <1>1, <1>2, <1>3, <1>4
<1>6. e - i <= 191
  <2>1. CASE e = i
    BY <1>1, <2>1
  <2>2. CASE e > i
    <3>1. e - 1 \in 1..Len(s)
      BY <1>1, <1>2, <2>2
    <3>2. (e - 1) - i < 191
      BY <1>2, <3>1 DEF Short
    <3> QED
      BY <1>1, <1>3, <3>2
  <2> QED
    BY <1>2, <2>1, <2>2
<1>7. s[i] = Dot => e = i
  <2> SUFFICES ASSUME s[i] = Dot, e # i PROVE FALSE
    OBVIOUS
  <2>1. i \in i..(e - 1)
    BY <1>1, <1>2
  <2> QED
    BY <1>2, <2>1
<1>8. s[i] # Dot => e > i
  BY <1>1, <1>2
<1>9. Part(s, i) = SubSeq(s, i, e - 1)
  BY DEF Part, e
<1>10. (e = i) <=> (Part(s, i) = <<>>)
  BY <1>1, <1>3, <1>4, <1>5, <1>9, EmptySeq
<1>11. \A k \in 1..Len(Part(s, i)) : Part(s, i)[k] = s[i + k - 1] /\ i + k - 1 \in 1..Len(s)
  BY <1>1, <1>2, <1>4, <1>5, <1>9
<1>12. Len(Part(s, i)) = e - i /\ Len(Part(s, i)) \in 0..191 /\ Part(s, i) \in Octets
  BY <1>1, <1>2, <1>4, <1>5, <1>6, <1>9 DEF Octets
<1> QED
  BY <1>2, <1>7, <1>8, <1>10, <1>11, <1>12, <1>1 DEF e

LEMMA PartBytesIs ==
  ASSUME NEW p \in Octets, Len(p) \in Octet
  PROVE  PartBytes(p) \in Octets
<1>1. CASE p = <<>>
  BY <1>1 DEF PartBytes, Octets
<1>2. CASE p # <<>>
  <2>1. <<Len(p)>> \in Seq(Octet)
    OBVIOUS
  <2> QED
    BY <1>2, <2>1, ConcatProperties DEF PartBytes, Octets
<1> QED
  BY <1>1, <1>2

LEMMA LabelledType ==
  ASSUME NEW s \in Octets, Short(s)
  PROVE  \A i \in Nat \ {0} : LabelledFrom(s)[i] \in Octets
<1> DEFINE f == LabelledFrom(s)
           G == {k \in Nat : \A i \in Nat \ {0} : i + k > Len(s) => f[i] \in Octets}
<1>0. /\ Len(s) \in Nat
      /\ \A i \in Nat : i > Len(s) => f[i] = <<>>
      /\ \A i \in Nat : i <= Len(s) => f[i] = PartBytes(Part(s, i)) \o f[PartEnd(s, i) + 1]
  BY LenProperties, LabelledIs DEF Octets
<1> HIDE DEF f
<1>1. \A i \in Nat : i > Len(s) => f[i] \in Octets
  BY <1>0, EmptySeq DEF Octets
<1>2. 0 \in G
  BY <1>1
<1>3. ASSUME NEW k \in Nat, k \in G PROVE k + 1 \in G
  <2> SUFFICES ASSUME NEW i \in Nat \ {0}, i + (k + 1) > Len(s), i <= Len(s)
               PROVE  f[i] \in Octets
    BY <1>0, <1>1
  <2> DEFINE j == PartEnd(s, i) + 1
             p == Part(s, i)
  <2>1. i \in 1..Len(s)
    BY <1>0
  <2>2. j \in Nat \ {0} /\ j > i /\ p \in Octets /\ Len(p) \in 0..191
    BY <1>0, <2>1, PartIs
  <2>3. f[i] = PartBytes(p) \o f[j]
    BY <1>0, <2>1
  <2> HIDE DEF j, p
  <2>4. j + k > Len(s)
    BY <1>0, <2>2
  <2>5. f[j] \in Octets
    BY <1>3, <2>2, <2>4
  <2>6. PartBytes(p) \in Octets
    BY <2>2, PartBytesIs DEF Octet
  <2> QED
    BY <2>3, <2>5, <2>6, ConcatProperties DEF Octets
<1> HIDE DEF G
<1>4. Len(s) \in G
  BY <1>0, <1>2, <1>3, NumberInduction
<1> QED
  BY <1>0, <1>4 DEF G, f

LEMMA NothingBefore == ASSUME NEW S, NEW r \in Seq(S) PROVE <<>> \o r = r
<1>1. <<>> \in Seq(S) /\ Len(<<>>) = 0
  BY EmptySeq
<1>2. /\ <<>> \o r \in Seq(S) /\ Len(<<>> \o r) = Len(r) /\ Len(r) \in Nat
      /\ \A k \in 1..Len(r) : (<<>> \o r)[0 + k] = r[k]
  BY <1>1, Joined
<1>3. \A k \in 1..Len(r) : 0 + k = k
  BY <1>2
<1> QED
  BY <1>2, <1>3, SameSequence

\* Dots before the next part make no difference.
LEMMA DotsSkipped ==
  ASSUME NEW s \in Octets, Short(s), NEW i \in 1..(Len(s) + 1), NEW j \in i..(Len(s) + 1),
         \A k \in i..(j - 1) : s[k] = Dot
  PROVE  LabelledFrom(s)[i] = LabelledFrom(s)[j]
<1> DEFINE f == LabelledFrom(s)
           G == {d \in Nat : i + d <= j => f[i] = f[i + d]}
<1>0. Len(s) \in Nat /\ i \in Nat /\ j \in Nat
  BY LenProperties DEF Octets
<1>8. \A m \in Nat : m <= Len(s) => f[m] = PartBytes(Part(s, m)) \o f[PartEnd(s, m) + 1]
  BY LabelledIs
<1>9. \A m \in Nat \ {0} : f[m] \in Octets
  BY LabelledType
<1> HIDE DEF f
<1>1. 0 \in G
  BY <1>0
<1>2. ASSUME NEW d \in Nat, d \in G PROVE d + 1 \in G
  <2> SUFFICES ASSUME i + (d + 1) <= j PROVE f[i] = f[i + (d + 1)]
    OBVIOUS
  <2> DEFINE m == i + d
  <2>1. m \in i..(j - 1) /\ m \in 1..Len(s) /\ m + 1 = i + (d + 1) /\ m + 1 \in Nat \ {0}
    BY <1>0
  <2>2. f[i] = f[m]
    BY <1>0, <1>2, <2>1
  <2> HIDE DEF m
  <2>3. PartEnd(s, m) = m /\ Part(s, m) = <<>>
    BY <2>1, PartIs
  <2>4. f[m] = <<>> \o f[m + 1]
    <3>1. m \in Nat /\ m <= Len(s) /\ PartBytes(<<>>) = <<>>
      BY <1>0, <2>1 DEF PartBytes
    <3> QED
      BY <1>8, <2>3, <3>1
  <2>5. f[m] = f[m + 1]
    BY <1>9, <2>1, <2>4, NothingBefore DEF Octets
  <2> QED
    BY <2>1, <2>2, <2>5
<1> HIDE DEF G
<1>3. \A d \in Nat : d \in G
  BY <1>1, <1>2, NumberInduction
<1>4. j - i \in Nat /\ i + (j - i) = j
  BY <1>0
<1>5. f[i] = f[i + (j - i)]
  <2>1. j - i \in G
    BY <1>3, <1>4
  <2>2. i + (j - i) <= j
    BY <1>0, <1>4
  <2> QED
    BY <2>1, <2>2 DEF G
<1> QED
  BY <1>4, <1>5 DEF f

\* What is still to be encoded from i on: nothing but dots, or the part at j and the rest
LEMMA NextPart ==
  ASSUME NEW s \in Octets, Short(s), NEW i \in 1..(Len(s) + 2)
  PROVE  \/ /\ LabelledFrom(s)[i] = <<>>
            /\ \A k \in i..Len(s) : s[k] = Dot
         \/ \E j \in i..Len(s) :
              /\ s[j] # Dot /\ \A k \in i..(j - 1) : s[k] = Dot
              /\ LabelledFrom(s)[i]
                   = (<<Len(Part(s, j))>> \o Part(s, j)) \o LabelledFrom(s)[PartEnd(s, j) + 1]
<1> DEFINE f == LabelledFrom(s)
           T == {k \in i..Len(s) : s[k] # Dot}
<1>0. Len(s) \in Nat /\ i \in Nat \ {0}
  BY LenProperties DEF Octets
<1>8. \A m \in Nat : m > Len(s) => f[m] = <<>>
  BY LabelledIs
<1>9. \A m \in Nat : m <= Len(s) => f[m] = PartBytes(Part(s, m)) \o f[PartEnd(s, m) + 1]
  BY LabelledIs
<1>1. CASE T = {}
  <2>1. \A k \in i..Len(s) : s[k] = Dot
    BY <1>1
  <2>2. CASE i > Len(s)
    <3>1. f[i] = <<>>
      BY <1>0, <1>8, <2>2
    <3> QED
      BY <2>1, <3>1
  <2>3. CASE i <= Len(s)
    <3>1. i \in 1..(Len(s) + 1) /\ Len(s) + 1 \in i..(Len(s) + 1) /\ (Len(s) + 1) - 1 = Len(s)
      BY <1>0, <2>3
    <3>2. f[i] = f[Len(s) + 1]
      BY <2>1, <3>1, DotsSkipped
    <3>3. f[Len(s) + 1] = <<>>
      BY <1>0, <1>8
    <3> QED
      BY <2>1, <3>2, <3>3
  <2>4. i > Len(s) \/ i <= Len(s)
    BY <1>0
  <2> QED
    BY <2>2, <2>3, <2>4
<1>2. CASE T # {}
  <2>1. T \subseteq Nat
    BY <1>0
  <2>2. PICK j \in T : \A m \in T : j <= m
    <3> HIDE DEF T
    <3> QED
      BY <1>2, <2>1, Least
  <2>3. j \in i..Len(s) /\ s[j] # Dot /\ j \in 1..Len(s) /\ i \in 1..(Len(s) + 1) /\ j \in i..(Len(s) + 1)
    BY <1>0
  <2>4. ASSUME NEW k \in i..(j - 1) PROVE s[k] = Dot
    <3>1. k \in i..Len(s) /\ ~(j <= k)
      BY <1>0, <2>3
    <3> QED
      BY <2>2, <3>1
  <2>5. f[i] = f[j]
    BY <2>3, <2>4, DotsSkipped
  <2>6. f[j] = PartBytes(Part(s, j)) \o f[PartEnd(s, j) + 1]
    BY <1>0, <1>9, <2>3
  <2>7. Part(s, j) # <<>>
    BY <2>3, PartIs
  <2>8. f[i] = (<<Len(Part(s, j))>> \o Part(s, j)) \o f[PartEnd(s, j) + 1]
    BY <2>5, <2>6, <2>7 DEF PartBytes
  <2> QED
    BY <2>3, <2>4, <2>8
<1> QED
  BY <1>1, <1>2

-----------------------------------------------------------------------------
(* Sequences put together from the left                                    *)

\* One step of it, with f for what there is already
GrowStep(f, first, a, g, n) == IF n = first THEN a ELSE f[n - 1] \o g[n]

LEMMA GrowExists ==
  ASSUME NEW first \in Nat, NEW last \in Nat, NEW a, NEW g
  PROVE  \E f : \A n \in first..last : f[n] = GrowStep(f, first, a, g, n)
<1> DEFINE D == first..last
           Right(f, k) == \A n \in D : n <= first + k => f[n] = GrowStep(f, first, a, g, n)
           G == {k \in Nat : \E f : Right(f, k)}
<1>1. 0 \in G
  <2> DEFINE f == [n \in D |-> a]
  <2>1. \A n \in D : n <= first + 0 => n = first
    OBVIOUS
  <2>2. \A n \in D : f[n] = a
    OBVIOUS
  <2> HIDE DEF f, D
  <2>3. Right(f, 0)
    BY <2>1, <2>2 DEF GrowStep
  <2> QED
    BY <2>3
<1>2. ASSUME NEW k \in Nat, k \in G PROVE k + 1 \in G
  <2>1. PICK f : Right(f, k)
    BY <1>2
  <2> DEFINE h == [n \in D |-> GrowStep(f, first, a, g, n)]
  <2>2. \A n \in D : h[n] = GrowStep(f, first, a, g, n)
    OBVIOUS
  <2> HIDE DEF h
  <2>3. ASSUME NEW n \in D, n <= first + (k + 1)
        PROVE  GrowStep(f, first, a, g, n) = GrowStep(h, first, a, g, n)
    <3>1. CASE n = first
      BY <3>1 DEF GrowStep
    <3>2. CASE n # first
      <4> DEFINE m == n - 1
      <4>1. m \in D /\ m <= first + k
        BY <2>3, <3>2
      <4> HIDE DEF m
      <4>2. f[m] = h[m]
        BY <2>1, <2>2, <4>1
      <4> QED
        BY <3>2, <4>2 DEF GrowStep, m
    <3> QED
      BY <3>1, <3>2
  <2>4. Right(h, k + 1)
    BY <2>2, <2>3
  <2> QED
    BY <2>4
<1> HIDE DEF G
<1>3. last \in G
  BY <1>1, <1>2, NumberInduction
<1>4. PICK f : \A n \in D : f[n] = GrowStep(f, first, a, g, n)
  <2>1. PICK f : Right(f, last)
    BY <1>3 DEF G
  <2>2. \A n \in D : n <= first + last
    OBVIOUS
  <2> QED
    BY <2>1, <2>2
<1> QED
  BY <1>4

-----------------------------------------------------------------------------
(* Names without their empty parts                                         *)

Bit(s, n) == IF n \in Kept(s) THEN <<s[n]>> ELSE <<>>

LEMMA SqueezedIs ==
  ASSUME NEW s \in Octets
  PROVE  /\ SqueezedTo(s)[0] = <<>>
         /\ \A n \in 1..Len(s) : SqueezedTo(s)[n] = SqueezedTo(s)[n - 1] \o Bit(s, n)
<1> DEFINE D == 0..Len(s)
           g == [n \in 1..Len(s) |-> Bit(s, n)]
           f == SqueezedTo(s)
<1>0. Len(s) \in Nat
  BY LenProperties DEF Octets
<1>1. \A h : \A n \in D : GrowStep(h, 0, <<>>, g, n) = IF n = 0 THEN <<>> ELSE h[n - 1] \o Bit(s, n)
  <2> SUFFICES ASSUME NEW h, NEW n \in D
               PROVE  GrowStep(h, 0, <<>>, g, n) = IF n = 0 THEN <<>> ELSE h[n - 1] \o Bit(s, n)
    OBVIOUS
  <2>1. n # 0 => n \in 1..Len(s)
    BY <1>0
  <2>2. n # 0 => g[n] = Bit(s, n)
    BY <2>1
  <2> HIDE DEF g
  <2> QED
    BY <2>2 DEF GrowStep
<1>2. PICK u : \A n \in 0..Len(s) : u[n] = GrowStep(u, 0, <<>>, g, n)
  <2> HIDE DEF g
  <2>1. 0 \in Nat
    OBVIOUS
  <2>2. \A last \in Nat : \A a, r : \E u : \A n \in 0..last : u[n] = GrowStep(u, 0, a, r, n)
    BY <2>1, GrowExists, Zenon
  <2>3. \A a, r : \E u : \A n \in 0..Len(s) : u[n] = GrowStep(u, 0, a, r, n)
    BY <1>0, <2>2, Zenon
  <2> QED
    BY <2>3, Zenon
<1> DEFINE h == [n \in D |-> u[n]]
<1>6. \A n \in D : h[n] = u[n] /\ (n # 0 => n - 1 \in D)
  BY <1>0
<1>7. h = [n \in D |-> h[n]]
  OBVIOUS
<1> HIDE DEF h
<1>8. \A n \in D : h[n] = IF n = 0 THEN <<>> ELSE h[n - 1] \o Bit(s, n)
  <2> SUFFICES ASSUME NEW n \in D PROVE h[n] = IF n = 0 THEN <<>> ELSE h[n - 1] \o Bit(s, n)
    OBVIOUS
  <2>1. h[n] = IF n = 0 THEN <<>> ELSE u[n - 1] \o Bit(s, n)
    <3>1. u[n] = GrowStep(u, 0, <<>>, g, n)
      BY <1>2
    <3> HIDE DEF D, g
    <3> QED
      BY <1>1, <1>6, <3>1
  <2>2. n # 0 => h[n - 1] = u[n - 1]
    BY <1>6
  <2> QED
    BY <2>1, <2>2
<1> HIDE DEF D
<1>3. h = [n \in D |-> IF n = 0 THEN <<>> ELSE h[n - 1] \o Bit(s, n)]
  BY <1>7, <1>8
<1> USE DEF D
<1>4. f = CHOOSE v : v = [n \in D |-> IF n = 0 THEN <<>> ELSE v[n - 1] \o Bit(s, n)]
  BY DEF SqueezedTo, Bit
<1>5. f = [n \in D |-> IF n = 0 THEN <<>> ELSE f[n - 1] \o Bit(s, n)]
  <2> HIDE DEF f, D, g
  <2> QED
    BY <1>3, <1>4
<1> HIDE DEF f
<1>9. 0 \in D /\ \A n \in 1..Len(s) : n \in D /\ n # 0
  BY <1>0
<1>10. f[0] = <<>>
  BY <1>5, <1>9
<1>11. \A n \in 1..Len(s) : f[n] = f[n - 1] \o Bit(s, n)
  <2> HIDE DEF D
  <2> QED
    BY <1>5, <1>9
<1> QED
  BY <1>10, <1>11 DEF f

LEMMA SqueezedType ==
  ASSUME NEW s \in Octets
  PROVE  \A n \in 0..Len(s) : SqueezedTo(s)[n] \in Octets
<1> DEFINE f == SqueezedTo(s)
           G == {n \in Nat : n <= Len(s) => f[n] \in Octets}
<1>0. /\ Len(s) \in Nat /\ f[0] = <<>> /\ \A n \in 1..Len(s) : f[n] = f[n - 1] \o Bit(s, n)
      /\ \A n \in 1..Len(s) : s[n] \in Octet
  BY LenProperties, SqueezedIs, ElementOfSeq DEF Octets
<1> HIDE DEF f
<1>1. 0 \in G
  BY <1>0, EmptySeq DEF Octets
<1>2. ASSUME NEW n \in Nat, n \in G PROVE n + 1 \in G
  <2> SUFFICES ASSUME n + 1 <= Len(s) PROVE f[n + 1] \in Octets
    OBVIOUS
  <2>1. n + 1 \in 1..Len(s) /\ (n + 1) - 1 = n /\ n <= Len(s)
    BY <1>0
  <2>2. f[n + 1] = f[n] \o Bit(s, n + 1)
    BY <1>0, <2>1
  <2>3. Bit(s, n + 1) \in Octets
    <3>1. s[n + 1] \in Octet
      BY <1>0, <2>1
    <3>2. <<s[n + 1]>> \in Seq(Octet) /\ <<>> \in Seq(Octet)
      BY <3>1, EmptySeq
    <3> QED
      BY <3>2 DEF Bit, Octets
  <2> QED
    BY <1>2, <2>1, <2>2, <2>3, ConcatProperties DEF Octets
<1> HIDE DEF G
<1>3. \A n \in Nat : n \in G
  BY <1>1, <1>2, NumberInduction
<1>4. \A n \in 0..Len(s) : n \in Nat /\ n \in G /\ n <= Len(s)
  BY <1>0, <1>3
<1> QED
  BY <1>4 DEF f, G

LEMMA NothingBehind == ASSUME NEW S, NEW r \in Seq(S) PROVE r \o <<>> = r
BY ConcatEmptySeq

LEMMA KeptNone ==
  ASSUME NEW s \in Octets, NEW a \in 0..Len(s), NEW b \in a..Len(s),
         \A k \in (a + 1)..b : k \notin Kept(s)
  PROVE  SqueezedTo(s)[b] = SqueezedTo(s)[a]
<1> DEFINE f == SqueezedTo(s)
           G == {d \in Nat : a + d <= b => f[a + d] = f[a]}
<1>0. /\ Len(s) \in Nat /\ \A n \in 1..Len(s) : f[n] = f[n - 1] \o Bit(s, n)
      /\ \A n \in 0..Len(s) : f[n] \in Octets
  BY LenProperties, SqueezedIs, SqueezedType DEF Octets
<1>1. 0 \in G
  <2>1. a + 0 = a
    BY <1>0
  <2> QED
    BY <2>1
<1> HIDE DEF f
<1>2. ASSUME NEW d \in Nat, d \in G PROVE d + 1 \in G
  <2> SUFFICES ASSUME a + (d + 1) <= b PROVE f[a + (d + 1)] = f[a]
    OBVIOUS
  <2> DEFINE n == a + (d + 1)
  <2>1. n \in 1..Len(s) /\ n - 1 = a + d /\ n \in (a + 1)..b /\ n - 1 \in 0..Len(s) /\ a + d <= b
    BY <1>0
  <2>2. Bit(s, n) = <<>>
    BY <2>1 DEF Bit
  <2>3. f[n] = f[n - 1] \o <<>>
    BY <1>0, <2>1, <2>2
  <2>4. f[n - 1] \in Seq(Octet)
    BY <1>0, <2>1 DEF Octets
  <2>5. f[n] = f[n - 1]
    BY <2>3, <2>4, NothingBehind
  <2>6. f[a + d] = f[a]
    BY <1>2, <2>1
  <2> QED
    BY <2>1, <2>5, <2>6
<1> HIDE DEF G
<1>3. \A d \in Nat : d \in G
  BY <1>1, <1>2, NumberInduction
<1>4. b - a \in Nat /\ a + (b - a) = b /\ a + (b - a) <= b
  BY <1>0
<1>5. b - a \in G
  BY <1>3, <1>4
<1> QED
  BY <1>4, <1>5 DEF G, f

LEMMA KeptAll ==
  ASSUME NEW s \in Octets, NEW a \in 0..Len(s), NEW b \in a..Len(s),
         \A k \in (a + 1)..b : k \in Kept(s)
  PROVE  SqueezedTo(s)[b] = SqueezedTo(s)[a] \o SubSeq(s, a + 1, b)
<1> DEFINE f == SqueezedTo(s)
           P(d) == a + d <= b => f[a + d] = f[a] \o SubSeq(s, a + 1, a + d)
           G == {d \in Nat : P(d)}
<1>0. /\ Len(s) \in Nat /\ \A n \in 1..Len(s) : f[n] = f[n - 1] \o Bit(s, n)
      /\ \A n \in 0..Len(s) : f[n] \in Octets
      /\ s \in Seq(Octet) /\ \A n \in 1..Len(s) : s[n] \in Octet
  BY LenProperties, SqueezedIs, SqueezedType, ElementOfSeq DEF Octets
<1>1. 0 \in G
  <2>1. a + 0 = a /\ a \in Int /\ a + 1 \in Int /\ a < a + 1 /\ a \in 0..Len(s)
    BY <1>0
  <2>2. SubSeq(s, a + 1, a) = <<>>
    BY <2>1, SubSeqEmpty
  <2> HIDE DEF f
  <2>3. f[a] \in Seq(Octet)
    BY <1>0 DEF Octets
  <2>4. f[a] \o <<>> = f[a]
    BY <2>3, NothingBehind
  <2> QED
    BY <2>1, <2>2, <2>4
<1> HIDE DEF f
<1>2. ASSUME NEW d \in Nat, d \in G PROVE d + 1 \in G
  <2> SUFFICES P(d + 1)
    <3> HIDE DEF P
    <3> QED
      OBVIOUS
  <2> SUFFICES ASSUME a + (d + 1) <= b PROVE f[a + (d + 1)] = f[a] \o SubSeq(s, a + 1, a + (d + 1))
    OBVIOUS
  <2> DEFINE n == a + (d + 1)
  <2>1. /\ n \in 1..Len(s) /\ n - 1 = a + d /\ n \in (a + 1)..b /\ a + d <= b
        /\ a + 1 \in 1..Len(s) /\ n \in (a + 1)..Len(s) /\ a + 1 \in Int /\ n - 1 \in Int
    BY <1>0
  <2> HIDE DEF n
  <2>2. Bit(s, n) = <<s[n]>>
    BY <2>1 DEF Bit
  <2>3. f[n] = f[n - 1] \o <<s[n]>>
    BY <1>0, <2>1, <2>2
  <2>4. f[n - 1] = f[a] \o SubSeq(s, a + 1, n - 1)
    BY <1>2, <2>1
  <2>5. SubSeq(s, a + 1, n) = SubSeq(s, a + 1, n - 1) \o <<s[n]>>
    BY <1>0, <2>1, SubSeqRecursiveSecond
  <2>6. SubSeq(s, a + 1, n - 1) \in Seq(Octet)
    <3>1. \A k \in (a + 1)..(n - 1) : k \in 1..Len(s)
      BY <1>0, <2>1
    <3>2. \A k \in (a + 1)..(n - 1) : s[k] \in Octet
      BY <1>0, <3>1
    <3> QED
      BY <2>1, <3>2, SubSeqProperties
  <2>7. f[a] \in Seq(Octet) /\ <<s[n]>> \in Seq(Octet)
    BY <1>0, <2>1 DEF Octets
  <2>9. \A u \in Seq(Octet) : (f[a] \o u) \o <<s[n]>> = f[a] \o (u \o <<s[n]>>)
    <3>1. \A x \in Seq(Octet), u \in Seq(Octet), y \in Seq(Octet) : (x \o u) \o y = x \o (u \o y)
      BY ConcatAssociative
    <3> DEFINE y == <<s[n]>>
    <3>2. f[a] \in Seq(Octet) /\ y \in Seq(Octet)
      BY <2>7
    <3> HIDE DEF y
    <3>3. \A u \in Seq(Octet) : (f[a] \o u) \o y = f[a] \o (u \o y)
      BY <3>1, <3>2
    <3> QED
      BY <3>3 DEF y
  <2>8. f[n] = f[a] \o SubSeq(s, a + 1, n)
    BY <2>3, <2>4, <2>5, <2>6, <2>9
  <2> QED
    BY <2>8 DEF n
<1> HIDE DEF G
<1>3. \A d \in Nat : d \in G
  BY <1>1, <1>2, NumberInduction
<1>4. b - a \in Nat /\ a + (b - a) = b /\ a + (b - a) <= b
  BY <1>0
<1>5. b - a \in G
  BY <1>3, <1>4
<1> QED
  BY <1>4, <1>5 DEF G, f

\* A place in a name behind a part and the dot that ends it, or the beginning, and
\* how far the name before it is done
AtCut(s, i) ==
  \/ i = 1
  \/ i \in 3..(Len(s) + 2) /\ s[i - 2] # Dot /\ (i - 1 <= Len(s) => s[i - 1] = Dot)
Done(i) == IF i = 1 THEN 0 ELSE i - 2
Gap(i) == IF i = 1 THEN <<>> ELSE <<Dot>>
Counted(s, i) == {p \in PartStarts(s) : p < i}

LEMMA NextSqueezed ==
  ASSUME NEW s \in Octets, Short(s), NEW i, AtCut(s, i), NEW j \in i..Len(s),
         s[j] # Dot, \A k \in i..(j - 1) : s[k] = Dot
  PROVE  /\ PartEnd(s, j) + 1 \in 3..(Len(s) + 2) /\ AtCut(s, PartEnd(s, j) + 1)
         /\ SqueezedTo(s)[Done(PartEnd(s, j) + 1)]
              = (SqueezedTo(s)[Done(i)] \o Gap(i)) \o Part(s, j)
<1> DEFINE e == PartEnd(s, j)
           f == SqueezedTo(s)
<1>0. Len(s) \in Nat /\ i \in Nat \ {0} /\ j \in 1..Len(s)
  <2>1. Len(s) \in Nat
    BY LenProperties DEF Octets
  <2>2. i \in Nat \ {0}
    BY <2>1 DEF AtCut
  <2> QED
    BY <2>1, <2>2
<1>1. /\ e \in (j + 1)..(Len(s) + 1) /\ (e = Len(s) + 1 \/ s[e] = Dot)
      /\ \A k \in j..(e - 1) : s[k] # Dot
  <2>1. j \in Nat /\ j <= Len(s) + 1
    BY <1>0
  <2>2. e \in j..(Len(s) + 1) /\ e > j
    BY <1>0, PartIs
  <2> QED
    BY <1>0, <2>1, <2>2, PartEndIs
<1> HIDE DEF e, f
<1>2. e + 1 \in 3..(Len(s) + 2) /\ AtCut(s, e + 1) /\ Done(e + 1) = e - 1
  <2>1. e + 1 \in 3..(Len(s) + 2) /\ (e + 1) - 2 = e - 1 /\ (e + 1) - 1 = e /\ e - 1 \in j..(e - 1)
        /\ e + 1 # 1
    BY <1>0, <1>1
  <2>2. s[e - 1] # Dot
    BY <1>1, <2>1
  <2>3. e <= Len(s) => s[e] = Dot
    BY <1>0, <1>1
  <2> QED
    BY <2>1, <2>2, <2>3 DEF AtCut, Done
<1>3. \A k \in j..(e - 1) : k \in 1..Len(s) /\ k \in Kept(s)
  <2>1. \A k \in j..(e - 1) : k \in 1..Len(s)
    BY <1>0, <1>1
  <2> QED
    BY <1>1, <2>1 DEF Kept
<1>4. f[e - 1] = f[j - 1] \o SubSeq(s, j, e - 1)
  <2>1. j - 1 \in 0..Len(s) /\ e - 1 \in (j - 1)..Len(s) /\ (j - 1) + 1 = j
    BY <1>0, <1>1
  <2> QED
    BY <1>3, <2>1, KeptAll DEF f
<1>5. Part(s, j) = SubSeq(s, j, e - 1)
  BY DEF Part, e
<1>6. f[j - 1] = f[Done(i)] \o Gap(i)
  <2>1. CASE i = 1
    <3>1. \A k \in (0 + 1)..(j - 1) : k \notin Kept(s)
      <4> SUFFICES ASSUME NEW k \in 1..(j - 1) PROVE k \notin Kept(s)
        OBVIOUS
      <4>1. k \in i..(j - 1) /\ (k > 1 => k - 1 \in i..(j - 1))
        BY <1>0, <2>1
      <4>2. s[k] = Dot /\ (k > 1 => s[k - 1] = Dot)
        BY <4>1
      <4> QED
        BY <4>2 DEF Kept
    <3>2. 0 \in 0..Len(s) /\ j - 1 \in 0..Len(s)
      BY <1>0
    <3>3. f[j - 1] = f[0]
      BY <3>1, <3>2, KeptNone DEF f
    <3>4. f[0] \in Seq(Octet)
      BY <3>2, SqueezedType DEF Octets, f
    <3>5. f[0] \o <<>> = f[0]
      BY <3>4, NothingBehind
    <3> QED
      BY <2>1, <3>3, <3>5 DEF Done, Gap
  <2>2. CASE i # 1
    <3>1. /\ i \in 3..(Len(s) + 2) /\ i - 1 \in 1..Len(s) /\ i - 2 \in 1..Len(s)
          /\ s[i - 2] # Dot /\ s[i - 1] = Dot /\ j - 1 \in (i - 1)..Len(s)
      BY <1>0, <2>2 DEF AtCut
    <3>2. \A k \in ((i - 1) + 1)..(j - 1) : k \notin Kept(s)
      <4> SUFFICES ASSUME NEW k \in i..(j - 1) PROVE k \notin Kept(s)
        BY <1>0
      <4>1. k - 1 = i - 1 \/ k - 1 \in i..(j - 1)
        BY <1>0
      <4>2. s[k] = Dot /\ s[k - 1] = Dot
        BY <3>1, <4>1
      <4> QED
        BY <4>2 DEF Kept
    <3>3. f[j - 1] = f[i - 1]
      <4>1. i - 1 \in 0..Len(s)
        BY <1>0, <3>1
      <4> QED
        BY <3>1, <3>2, <4>1, KeptNone DEF f
    <3>4. i - 1 \in Kept(s)
      <4>1. (i - 1) - 1 = i - 2 /\ i - 1 > 1 /\ j \in (i - 1)..Len(s)
        BY <1>0, <3>1
      <4> QED
        BY <3>1, <4>1 DEF Kept
    <3>5. f[i - 1] = f[(i - 1) - 1] \o Bit(s, i - 1)
      BY <3>1, SqueezedIs DEF f
    <3>6. (i - 1) - 1 = i - 2 /\ Done(i) = i - 2
      BY <1>0, <2>2 DEF Done
    <3>7. Bit(s, i - 1) = <<Dot>>
      BY <3>1, <3>4 DEF Bit
    <3> QED
      BY <2>2, <3>3, <3>5, <3>6, <3>7 DEF Gap
  <2> QED
    BY <2>1, <2>2
<1>7. f[Done(e + 1)] = (f[Done(i)] \o Gap(i)) \o Part(s, j)
  BY <1>2, <1>4, <1>5, <1>6
<1> QED
  BY <1>2, <1>7 DEF e, f

LEMMA RestSqueezed ==
  ASSUME NEW s \in Octets, NEW i, AtCut(s, i), \A k \in i..Len(s) : s[k] = Dot
  PROVE  Squeezed(s) = SqueezedTo(s)[Done(i)]
<1>0. Len(s) \in Nat /\ i \in Nat \ {0}
  <2>1. Len(s) \in Nat
    BY LenProperties DEF Octets
  <2> QED
    BY <2>1 DEF AtCut
<1>1. Done(i) \in 0..Len(s) /\ Len(s) \in Done(i)..Len(s)
  BY <1>0 DEF AtCut, Done
<1>2. \A k \in (Done(i) + 1)..Len(s) : k \notin Kept(s)
  <2> SUFFICES ASSUME NEW k \in (Done(i) + 1)..Len(s), k \in Kept(s) PROVE FALSE
    OBVIOUS
  <2>1. CASE i = 1
    <3>1. k \in i..Len(s) /\ (k > 1 => k - 1 \in i..Len(s))
      BY <1>0, <2>1 DEF Done
    <3> QED
      BY <3>1 DEF Kept
  <2>2. CASE i # 1
    <3>1. k \in (i - 1)..Len(s) /\ i \in 3..(Len(s) + 2) /\ i - 1 \in Nat
      BY <1>0, <1>1, <2>2 DEF Done, AtCut
    <3>2. k = i - 1 \/ (k \in i..Len(s) /\ (k - 1 = i - 1 \/ k - 1 \in i..Len(s)))
      BY <1>0, <3>1
    <3>3. CASE k = i - 1
      <4>1. s[k] = Dot
        BY <1>0, <2>2, <3>1, <3>3 DEF AtCut
      <4>2. PICK j \in k..Len(s) : s[j] # Dot
        BY <4>1 DEF Kept
      <4>3. j = k \/ j \in i..Len(s)
        BY <1>0, <3>3
      <4> QED
        BY <4>1, <4>2, <4>3
    <3>4. CASE k \in i..Len(s) /\ (k - 1 = i - 1 \/ k - 1 \in i..Len(s))
      <4>1. s[k] = Dot /\ s[k - 1] = Dot
        BY <1>0, <2>2, <3>1, <3>4 DEF AtCut
      <4> QED
        BY <4>1 DEF Kept
    <3> QED
      BY <3>2, <3>3, <3>4
  <2> QED
    BY <2>1, <2>2
<1>3. SqueezedTo(s)[Len(s)] = SqueezedTo(s)[Done(i)]
  BY <1>1, <1>2, KeptNone
<1> QED
  BY <1>3 DEF Squeezed

LEMMA PartsAreFinite ==
  ASSUME NEW s \in Octets, NEW i
  PROVE  /\ IsFiniteSet(Counted(s, i))
         /\ Cardinality(Counted(s, i)) \in Nat /\ Cardinality(PartStarts(s)) \in Nat
         /\ Cardinality(Counted(s, i)) <= Cardinality(PartStarts(s))
<1>1. Len(s) \in Nat
  BY LenProperties DEF Octets
<1>2. IsFiniteSet(1..Len(s))
  BY <1>1, FS_Interval
<1>3. PartStarts(s) \in SUBSET (1..Len(s)) /\ Counted(s, i) \in SUBSET PartStarts(s)
  BY DEF PartStarts, Counted
<1>4. IsFiniteSet(PartStarts(s))
  BY <1>2, <1>3, FS_Subset
<1>5. IsFiniteSet(Counted(s, i)) /\ Cardinality(Counted(s, i)) <= Cardinality(PartStarts(s))
  BY <1>3, <1>4, FS_Subset
<1> QED
  BY <1>4, <1>5, FS_CardinalityType

LEMMA PartCounted ==
  ASSUME NEW s \in Octets, Short(s), NEW i, AtCut(s, i), NEW j \in i..Len(s),
         s[j] # Dot, \A k \in i..(j - 1) : s[k] = Dot
  PROVE  Cardinality(Counted(s, i)) + 1 <= Cardinality(Counted(s, PartEnd(s, j) + 1))
<1> DEFINE e == PartEnd(s, j)
           S == Counted(s, i)
           T == Counted(s, e + 1)
<1>0. Len(s) \in Nat /\ i \in Nat \ {0} /\ j \in 1..Len(s)
  <2>1. Len(s) \in Nat
    BY LenProperties DEF Octets
  <2>2. i \in Nat \ {0}
    BY <2>1 DEF AtCut
  <2> QED
    BY <2>1, <2>2
<1>1. e \in (j + 1)..(Len(s) + 1)
  <2>1. e \in j..(Len(s) + 1) /\ e > j
    BY <1>0, PartIs
  <2> QED
    BY <1>0, <2>1
<1>2. j \in PartStarts(s)
  <2>1. j = 1 \/ s[j - 1] = Dot
    <3>1. j = i \/ j - 1 \in i..(j - 1)
      BY <1>0
    <3>2. CASE j = i
      BY <1>0, <3>2 DEF AtCut
    <3> QED
      BY <3>1, <3>2
  <2> QED
    BY <1>0, <2>1 DEF PartStarts
<1>3. S \cup {j} \in SUBSET T /\ j \notin S
  <2>1. \A p \in PartStarts(s) : p \in Nat
    BY <1>0 DEF PartStarts
  <2>2. \A p \in PartStarts(s) : p < i => p < e + 1
    BY <1>0, <1>1, <2>1
  <2>3. j < e + 1 /\ ~(j < i)
    BY <1>0, <1>1
  <2> HIDE DEF e
  <2> QED
    BY <1>2, <2>2, <2>3 DEF Counted
<1>4. IsFiniteSet(S) /\ IsFiniteSet(T)
  BY PartsAreFinite
<1> HIDE DEF S, T
<1>5. Cardinality(S \cup {j}) = Cardinality(S) + 1
  BY <1>3, <1>4, FS_AddElement
<1>6. Cardinality(S \cup {j}) <= Cardinality(T)
  BY <1>3, <1>4, FS_Subset
<1> QED
  BY <1>5, <1>6 DEF S, T, e

-----------------------------------------------------------------------------
(* Sequences of sequences                                                  *)

\* The first n of them, one behind the other
Flat(r) == LET f[n \in 1..Len(r)] == IF n = 1 THEN r[n] ELSE f[n - 1] \o r[n] IN f
Upto(r, n) == IF n = 0 THEN <<>> ELSE Flat(r)[n]

LEMMA FlatIs ==
  ASSUME NEW r \in Seq(Octets), Len(r) # 0
  PROVE  \A n \in 1..Len(r) : Flat(r)[n] = IF n = 1 THEN r[n] ELSE Flat(r)[n - 1] \o r[n]
<1> DEFINE D == 1..Len(r)
           a == r[1]
           f == Flat(r)
<1>0. Len(r) \in Nat
  BY LenProperties
<1>1. \A h : \A n \in D : GrowStep(h, 1, a, r, n) = IF n = 1 THEN r[n] ELSE h[n - 1] \o r[n]
  BY DEF GrowStep
<1>2. PICK u : \A n \in 1..Len(r) : u[n] = GrowStep(u, 1, a, r, n)
  <2> HIDE DEF a
  <2>1. 1 \in Nat
    OBVIOUS
  <2>2. \A last \in Nat : \A b, g : \E u : \A n \in 1..last : u[n] = GrowStep(u, 1, b, g, n)
    BY <2>1, GrowExists, Zenon
  <2>3. \A b, g : \E u : \A n \in 1..Len(r) : u[n] = GrowStep(u, 1, b, g, n)
    BY <1>0, <2>2, Zenon
  <2> QED
    BY <2>3, Zenon
<1> DEFINE h == [n \in D |-> u[n]]
<1>3. \A n \in D : h[n] = u[n] /\ (n # 1 => n - 1 \in D)
  BY <1>0
<1>4. h = [n \in D |-> h[n]]
  OBVIOUS
<1> HIDE DEF h
<1>5. \A n \in D : h[n] = IF n = 1 THEN r[n] ELSE h[n - 1] \o r[n]
  <2> SUFFICES ASSUME NEW n \in D PROVE h[n] = IF n = 1 THEN r[n] ELSE h[n - 1] \o r[n]
    OBVIOUS
  <2>1. h[n] = IF n = 1 THEN r[n] ELSE u[n - 1] \o r[n]
    <3>1. u[n] = GrowStep(u, 1, a, r, n)
      BY <1>2
    <3> HIDE DEF D, a
    <3> QED
      BY <1>1, <1>3, <3>1
  <2>2. n # 1 => h[n - 1] = u[n - 1]
    BY <1>3
  <2> QED
    BY <2>1, <2>2
<1> HIDE DEF D
<1>6. h = [n \in D |-> IF n = 1 THEN r[n] ELSE h[n - 1] \o r[n]]
  BY <1>4, <1>5
<1>7. f = CHOOSE v : v = [n \in D |-> IF n = 1 THEN r[n] ELSE v[n - 1] \o r[n]]
  BY DEF Flat, D
<1> HIDE DEF f
<1>8. f = [n \in D |-> IF n = 1 THEN r[n] ELSE f[n - 1] \o r[n]]
  BY <1>6, <1>7
<1>9. \A n \in D : f[n] = IF n = 1 THEN r[n] ELSE f[n - 1] \o r[n]
  BY <1>8
<1> QED
  BY <1>9 DEF D, f

LEMMA UptoIs ==
  ASSUME NEW r \in Seq(Octets)
  PROVE  /\ FlattenSeq(r) = Upto(r, Len(r))
         /\ Upto(r, 0) = <<>>
         /\ \A n \in 1..Len(r) : Upto(r, n) = Upto(r, n - 1) \o r[n]
         /\ \A n \in 0..Len(r) : Upto(r, n) \in Octets
<1>0. Len(r) \in Nat /\ \A n \in 1..Len(r) : r[n] \in Octets
  BY LenProperties, ElementOfSeq
<1>1. Upto(r, 0) = <<>>
  BY DEF Upto
<1>2. FlattenSeq(r) = Upto(r, Len(r))
  <2>1. CASE Len(r) = 0
    <3>1. r = <<>>
      BY <2>1, EmptySeq
    <3> QED
      BY <2>1, <3>1 DEF FlattenSeq, Upto
  <2>2. CASE Len(r) # 0
    <3>1. FlattenSeq(r) = Flat(r)[Len(r)]
      BY <2>2 DEF FlattenSeq, Flat
    <3> QED
      BY <2>2, <3>1 DEF Upto
  <2> QED
    BY <2>1, <2>2
<1>3. ASSUME NEW n \in 1..Len(r) PROVE Upto(r, n) = Upto(r, n - 1) \o r[n]
  <2>1. n # 0 /\ Len(r) # 0 /\ (n # 1 => n - 1 # 0)
    BY <1>0
  <2>2. Flat(r)[n] = IF n = 1 THEN r[n] ELSE Flat(r)[n - 1] \o r[n]
    BY <2>1, FlatIs
  <2>3. <<>> \o r[n] = r[n]
    BY <1>0, NothingBefore DEF Octets
  <2>4. CASE n = 1
    <3>1. Upto(r, n) = r[n] /\ Upto(r, n - 1) = <<>>
      BY <2>1, <2>2, <2>4 DEF Upto
    <3> QED
      BY <2>3, <3>1
  <2>5. CASE n # 1
    <3>1. Upto(r, n) = Flat(r)[n - 1] \o r[n] /\ Upto(r, n - 1) = Flat(r)[n - 1]
      BY <2>1, <2>2, <2>5 DEF Upto
    <3> QED
      BY <3>1
  <2> QED
    BY <2>4, <2>5
<1>4. \A n \in 0..Len(r) : Upto(r, n) \in Octets
  <2> DEFINE f(n) == Upto(r, n)
             G == {n \in Nat : n <= Len(r) => f(n) \in Octets}
  <2>1. f(0) = <<>> /\ \A n \in 1..Len(r) : f(n) = f(n - 1) \o r[n]
    BY <1>1, <1>3
  <2> HIDE DEF f
  <2>2. 0 \in G
    BY <2>1, EmptySeq DEF Octets
  <2>3. ASSUME NEW n \in Nat, n \in G PROVE n + 1 \in G
    <3> SUFFICES ASSUME n + 1 <= Len(r) PROVE f(n + 1) \in Octets
      OBVIOUS
    <3>1. n + 1 \in 1..Len(r) /\ (n + 1) - 1 = n /\ n <= Len(r)
      BY <1>0
    <3>2. f(n + 1) = f(n) \o r[n + 1]
      BY <2>1, <3>1
    <3>3. f(n) \in Octets /\ r[n + 1] \in Octets
      BY <1>0, <2>3, <3>1
    <3> QED
      BY <3>2, <3>3, ConcatProperties DEF Octets
  <2> HIDE DEF G
  <2>4. \A n \in Nat : n \in G
    BY <2>2, <2>3, NumberInduction
  <2>5. \A n \in 0..Len(r) : n \in G /\ n <= Len(r)
    BY <1>0, <2>4
  <2> QED
    BY <2>5 DEF f, G
<1> QED
  BY <1>1, <1>2, <1>3, <1>4

LEMMA UptoSame ==
  ASSUME NEW r \in Seq(Octets), NEW t \in Seq(Octets), NEW m \in 0..Len(r), m <= Len(t),
         \A n \in 1..m : r[n] = t[n]
  PROVE  Upto(r, m) = Upto(t, m)
<1> DEFINE G == {n \in Nat : n <= m => Upto(r, n) = Upto(t, n)}
<1>0. Len(r) \in Nat /\ Len(t) \in Nat
  BY LenProperties
<1>1. 0 \in G
  BY UptoIs
<1>2. ASSUME NEW n \in Nat, n \in G PROVE n + 1 \in G
  <2> SUFFICES ASSUME n + 1 <= m PROVE Upto(r, n + 1) = Upto(t, n + 1)
    OBVIOUS
  <2>1. n + 1 \in 1..m /\ n + 1 \in 1..Len(r) /\ n + 1 \in 1..Len(t) /\ (n + 1) - 1 = n /\ n <= m
    BY <1>0
  <2>2. Upto(r, n + 1) = Upto(r, (n + 1) - 1) \o r[n + 1]
    BY <2>1, UptoIs
  <2>3. Upto(t, n + 1) = Upto(t, (n + 1) - 1) \o t[n + 1]
    BY <2>1, UptoIs
  <2>4. Upto(r, n) = Upto(t, n)
    BY <1>2, <2>1
  <2> QED
    BY <2>1, <2>2, <2>3, <2>4
<1> HIDE DEF G
<1>3. m \in G
  BY <1>0, <1>1, <1>2, NumberInduction
<1> QED
  BY <1>0, <1>3 DEF G

-----------------------------------------------------------------------------
(* Bytes of the packet                                                     *)

\* The packet has the bytes b at this place.
Holds(at, b) == at + Len(b) <= length /\ \A k \in 1..Len(b) : data[at + k - 1] = b[k]

LEMMA HoldsBoth ==
  ASSUME WalkOK, NEW at \in Nat, NEW b \in Octets, NEW c \in Octets, Holds(at, b \o c)
  PROVE  /\ Holds(at, b) /\ Holds(at + Len(b), c) /\ at + Len(b) \in Nat
         /\ Len(b \o c) = Len(b) + Len(c)
<1>1. /\ Len(b \o c) = Len(b) + Len(c) /\ Len(b) \in Nat /\ Len(c) \in Nat
      /\ \A k \in 1..Len(b) : (b \o c)[k] = b[k]
      /\ \A k \in 1..Len(c) : (b \o c)[Len(b) + k] = c[k]
  BY Joined DEF Octets
<1>2. length \in Nat
  BY DEF WalkOK
<1>3. /\ at + (Len(b) + Len(c)) <= length
      /\ \A k \in 1..(Len(b) + Len(c)) : data[at + k - 1] = (b \o c)[k]
  BY <1>1 DEF Holds
<1>4. Holds(at, b)
  <2>1. at + Len(b) <= length
    BY <1>1, <1>2, <1>3
  <2>2. \A k \in 1..Len(b) : k \in 1..(Len(b) + Len(c))
    BY <1>1
  <2> QED
    BY <1>1, <1>3, <2>1, <2>2 DEF Holds
<1>5. Holds(at + Len(b), c)
  <2>1. (at + Len(b)) + Len(c) <= length
    BY <1>1, <1>2, <1>3
  <2>2. \A k \in 1..Len(c) : /\ Len(b) + k \in 1..(Len(b) + Len(c))
                             /\ at + (Len(b) + k) - 1 = (at + Len(b)) + k - 1
    BY <1>1
  <2>3. ASSUME NEW k \in 1..Len(c) PROVE data[(at + Len(b)) + k - 1] = c[k]
    <3>1. data[at + (Len(b) + k) - 1] = (b \o c)[Len(b) + k]
      BY <1>3, <2>2
    <3> QED
      BY <1>1, <2>2, <3>1
  <2> QED
    BY <2>1, <2>3 DEF Holds
<1> QED
  BY <1>1, <1>4, <1>5

LEMMA HoldsUpto ==
  ASSUME WalkOK, NEW at \in Nat, NEW r \in Seq(Octets), Holds(at, FlattenSeq(r))
  PROVE  \A n \in 1..Len(r) : Holds(at + Len(Upto(r, n - 1)), r[n])
<1> DEFINE l == Len(r)
           f(n) == Upto(r, n)
           G == {d \in Nat : d <= l => Holds(at, f(l - d))}
<1>0. /\ l \in Nat /\ \A n \in 1..l : r[n] \in Octets
      /\ \A n \in 0..l : f(n) \in Octets
      /\ \A n \in 1..l : f(n) = f(n - 1) \o r[n]
      /\ FlattenSeq(r) = f(l)
  BY LenProperties, ElementOfSeq, UptoIs
<1> HIDE DEF l, f
<1>8. \A n \in 1..l : Holds(at, f(n)) => Holds(at, f(n - 1)) /\ Holds(at + Len(f(n - 1)), r[n])
  <2> SUFFICES ASSUME NEW n \in 1..l, Holds(at, f(n))
               PROVE  Holds(at, f(n - 1)) /\ Holds(at + Len(f(n - 1)), r[n])
    OBVIOUS
  <2>1. n - 1 \in 0..l
    BY <1>0
  <2>2. f(n - 1) \in Octets /\ r[n] \in Octets /\ f(n) = f(n - 1) \o r[n]
    BY <1>0, <2>1
  <2> QED
    BY <2>2, HoldsBoth
<1>1. 0 \in G
  <2>1. l - 0 = l
    BY <1>0
  <2> QED
    BY <1>0, <2>1
<1>2. ASSUME NEW d \in Nat, d \in G PROVE d + 1 \in G
  <2> SUFFICES ASSUME d + 1 <= l PROVE Holds(at, f(l - (d + 1)))
    OBVIOUS
  <2>1. l - d \in 1..l /\ (l - d) - 1 = l - (d + 1) /\ d <= l
    BY <1>0
  <2>2. Holds(at, f(l - d))
    BY <1>2, <2>1
  <2>3. Holds(at, f((l - d) - 1))
    BY <1>8, <2>1, <2>2
  <2> QED
    BY <2>1, <2>3
<1> HIDE DEF G
<1>3. \A d \in Nat : d \in G
  BY <1>1, <1>2, NumberInduction
<1>4. ASSUME NEW n \in 1..l PROVE Holds(at, f(n))
  <2>1. l - n \in Nat /\ l - n <= l /\ l - (l - n) = n
    BY <1>0
  <2>2. l - n \in G
    BY <1>3, <2>1
  <2>3. Holds(at, f(l - (l - n)))
    BY <2>1, <2>2 DEF G
  <2> QED
    BY <2>1, <2>3
<1>5. \A n \in 1..l : Holds(at + Len(f(n - 1)), r[n])
  BY <1>4, <1>8
<1> QED
  BY <1>5 DEF l, f

LEMMA BytesAtType ==
  ASSUME WalkOK, NEW at \in Nat, NEW size \in Nat, at + size <= length
  PROVE  BytesAt(at, size) \in Octets /\ Len(BytesAt(at, size)) = size
<1>1. length \in Nat
  BY DEF WalkOK
<1>2. ASSUME NEW i \in 1..size PROVE data[at + i - 1] \in Octet
  <2>1. at + i - 1 \in Nat /\ at + i - 1 < length
    BY <1>1
  <2> QED
    BY <2>1, ByteAt DEF Octet
<1>3. BytesAt(at, size) \in [1..size -> Octet]
  BY <1>2 DEF BytesAt
<1> QED
  BY <1>3 DEF Octets

LEMMA BytesHeld ==
  ASSUME WalkOK, NEW at \in Nat, NEW b \in Octets, Holds(at, b)
  PROVE  BytesAt(at, Len(b)) = b
<1>1. Len(b) \in Nat /\ at + Len(b) <= length /\ \A k \in 1..Len(b) : data[at + k - 1] = b[k]
  BY LenProperties DEF Octets, Holds
<1>2. BytesAt(at, Len(b)) \in Seq(Octet) /\ Len(BytesAt(at, Len(b))) = Len(b) /\ b \in Seq(Octet)
  BY <1>1, BytesAtType DEF Octets
<1>3. \A k \in 1..Len(b) : BytesAt(at, Len(b))[k] = b[k]
  BY <1>1 DEF BytesAt
<1> QED
  BY <1>2, <1>3, SameSequence

-----------------------------------------------------------------------------
(* The string of a name                                                    *)

\* What separates a label from those before it, if there are any
Separator(none) == IF none THEN <<>> ELSE <<Dot>>
Pieces(name) ==
  [i \in 1..Len(name) |-> Separator(i = 1) \o BytesAt(name[i].at, name[i].size)]

\* A name with its labels in the packet
Fits(name) == /\ name \in Seq(LabelPlace)
              /\ \A i \in 1..Len(name) : name[i].at + name[i].size <= length

LEMMA TextIsFlat == ASSUME NEW name PROVE Text(name) = FlattenSeq(Pieces(name))
BY DEF Text, Pieces, Separator

LEMMA SeparatorType == \A none \in BOOLEAN : Separator(none) \in Octets
<1>1. <<Dot>> \in Seq(Octet) /\ <<>> \in Seq(Octet)
  BY DEF Dot, Octet
<1> QED
  BY <1>1 DEF Separator, Octets

LEMMA LabelBytes ==
  ASSUME WalkOK, NEW p \in LabelPlace, p.at + p.size <= length
  PROVE  /\ BytesAt(p.at, p.size) \in Octets
         /\ Len(BytesAt(p.at, p.size)) = p.size /\ p.size \in 1..191
<1>1. p.at \in Nat /\ p.size \in 1..191 /\ p.size \in Nat
  BY DEF LabelPlace
<1> QED
  BY <1>1, BytesAtType

LEMMA PiecesType ==
  ASSUME WalkOK, NEW name, Fits(name)
  PROVE  Pieces(name) \in Seq(Octets) /\ Len(Pieces(name)) = Len(name) /\ Len(name) \in Nat
<1>1. Len(name) \in Nat /\ \A i \in 1..Len(name) : name[i] \in LabelPlace
  BY LenProperties, ElementOfSeq DEF Fits
<1>2. ASSUME NEW i \in 1..Len(name)
      PROVE  Separator(i = 1) \o BytesAt(name[i].at, name[i].size) \in Octets
  <2>1. BytesAt(name[i].at, name[i].size) \in Octets
    BY <1>1, LabelBytes DEF Fits
  <2>2. Separator(i = 1) \in Octets
    BY SeparatorType
  <2> QED
    BY <2>1, <2>2, ConcatProperties DEF Octets
<1>3. Pieces(name) \in [1..Len(name) -> Octets]
  BY <1>2 DEF Pieces
<1> QED
  BY <1>1, <1>3

LEMMA TextType ==
  ASSUME WalkOK, NEW name, Fits(name)
  PROVE  Text(name) \in Octets
<1>1. Pieces(name) \in Seq(Octets) /\ Len(Pieces(name)) \in Nat
  BY PiecesType
<1>2. Len(Pieces(name)) \in 0..Len(Pieces(name))
  BY <1>1
<1> QED
  BY <1>1, <1>2, UptoIs, TextIsFlat

LEMMA TextOfNone == Text(<<>>) = <<>>
<1>1. Len(<<>>) = 0 /\ 1..0 = {}
  OBVIOUS
<1>2. Len(Pieces(<<>>)) = 0 /\ Pieces(<<>>) = <<>>
  BY <1>1 DEF Pieces
<1>3. FlattenSeq(Pieces(<<>>)) = Pieces(<<>>)
  BY <1>2 DEF FlattenSeq
<1> QED
  BY <1>2, <1>3, TextIsFlat

LEMMA TextAppend ==
  ASSUME WalkOK, NEW name, Fits(name), NEW p \in LabelPlace, p.at + p.size <= length
  PROVE  /\ Fits(Append(name, p))
         /\ Text(Append(name, p))
              = (Text(name) \o Separator(name = <<>>)) \o BytesAt(p.at, p.size)
<1> DEFINE l == Len(name)
           longer == Append(name, p)
           r == Pieces(name)
           t == Pieces(longer)
<1>1. /\ name \in Seq(LabelPlace) /\ l \in Nat /\ Len(longer) = l + 1
      /\ longer \in Seq(LabelPlace)
      /\ (\A i \in 1..l : longer[i] = name[i]) /\ longer[l + 1] = p
  BY AppendProperties, LenProperties DEF Fits
<1>2. Fits(longer)
  <2>1. ASSUME NEW i \in 1..(l + 1) PROVE longer[i].at + longer[i].size <= length
    <3>1. i \in 1..l \/ i = l + 1
      BY <1>1
    <3>2. CASE i \in 1..l
      <4>1. longer[i] = name[i]
        BY <1>1, <3>2
      <4> QED
        BY <3>2, <4>1 DEF Fits
    <3>3. CASE i = l + 1
      <4>1. longer[i] = p
        BY <1>1, <3>3
      <4> QED
        BY <4>1
    <3> QED
      BY <3>1, <3>2, <3>3
  <2> QED
    BY <1>1, <2>1 DEF Fits
<1>3. r \in Seq(Octets) /\ t \in Seq(Octets) /\ Len(r) = l /\ Len(t) = l + 1
  BY <1>1, <1>2, PiecesType
<1>4. \A n \in 1..l : r[n] = t[n]
  BY <1>1 DEF Pieces
<1>5. t[l + 1] = Separator(name = <<>>) \o BytesAt(p.at, p.size)
  <2>1. (l + 1 = 1) <=> (name = <<>>)
    BY <1>1, EmptySeq
  <2>2. l + 1 \in 1..Len(longer)
    BY <1>1
  <2>3. t[l + 1] = Separator(l + 1 = 1) \o BytesAt(longer[l + 1].at, longer[l + 1].size)
    BY <2>2 DEF Pieces
  <2>4. Separator(l + 1 = 1) = Separator(name = <<>>)
    BY <2>1 DEF Separator
  <2> QED
    BY <1>1, <2>3, <2>4
<1> HIDE DEF r, t, longer, l
<1>6. Upto(r, l) = Upto(t, l)
  BY <1>1, <1>3, <1>4, UptoSame
<1>7. Text(longer) = Upto(t, l) \o t[l + 1]
  <2>1. Text(longer) = Upto(t, l + 1)
    BY <1>3, TextIsFlat, UptoIs DEF t
  <2>2. l + 1 \in 1..Len(t) /\ (l + 1) - 1 = l
    BY <1>1, <1>3
  <2>3. Upto(t, l + 1) = Upto(t, (l + 1) - 1) \o t[l + 1]
    BY <1>3, <2>2, UptoIs
  <2> QED
    BY <2>1, <2>2, <2>3
<1>8. Text(name) = Upto(r, l)
  BY <1>3, TextIsFlat, UptoIs DEF r
<1>9. /\ Text(name) \in Seq(Octet) /\ Separator(name = <<>>) \in Seq(Octet)
      /\ BytesAt(p.at, p.size) \in Seq(Octet)
  BY TextType, SeparatorType, LabelBytes DEF Octets
<1>10. \A x \in Seq(Octet), y \in Seq(Octet), z \in Seq(Octet) : (x \o y) \o z = x \o (y \o z)
  BY ConcatAssociative
<1>11. Text(longer) = (Text(name) \o Separator(name = <<>>)) \o BytesAt(p.at, p.size)
  BY <1>5, <1>6, <1>7, <1>8, <1>9, <1>10
<1> QED
  BY <1>2, <1>11 DEF longer

\* A label more, separated by a dot: no part becomes too long.
LEMMA StaysShort ==
  ASSUME NEW t \in Octets, Short(t), NEW b \in Octets, Len(b) \in 0..191, NEW sep,
         sep = <<Dot>> \/ (sep = <<>> /\ t = <<>>)
  PROVE  Short((t \o sep) \o b)
<1>0. Len(b) <= 191 /\ Len(b) \in Nat
  <2>1. \A n \in 0..191 : n <= 191 /\ n \in Nat
    OBVIOUS
  <2> QED
    BY <2>1
<1> DEFINE m == Len(t)
           d == t \o sep
           u == d \o b
<1>1. /\ m \in Nat /\ Len(b) \in Nat /\ sep \in Octets
      /\ d \in Octets /\ u \in Octets
      /\ Len(d) = m + Len(sep) /\ Len(u) = Len(d) + Len(b)
      /\ \A k \in 1..m : d[k] = t[k]
      /\ \A k \in 1..Len(sep) : d[m + k] = sep[k]
      /\ \A k \in 1..Len(d) : u[k] = d[k]
  <2>1. <<Dot>> \in Seq(Octet) /\ <<>> \in Seq(Octet)
    BY DEF Dot, Octet
  <2>2. sep \in Seq(Octet) /\ t \in Seq(Octet) /\ b \in Seq(Octet)
    BY <2>1 DEF Octets
  <2>3. d \in Seq(Octet)
    BY <2>2, Joined
  <2> HIDE DEF d
  <2> QED
    BY <2>2, <2>3, Joined DEF Octets, d
<1>2. ASSUME NEW i \in 1..Len(u), NEW j \in 1..Len(u), \A k \in i..j : u[k] # Dot
      PROVE  j - i < 191
  <2>1. CASE sep = <<>> /\ t = <<>>
    <3>1. m = 0 /\ Len(sep) = 0
      BY <2>1, EmptySeq
    <3>2. Len(u) = Len(b)
      BY <1>1, <3>1
    <3> HIDE DEF u, m, d
    <3>3. i \in 1..Len(b) /\ j \in 1..Len(b)
      BY <3>2
    <3> QED
      BY <1>0, <3>3
  <2>2. CASE sep = <<Dot>>
    <3>2. Len(<<Dot>>) = 1 /\ <<Dot>>[1] = Dot
      OBVIOUS
    <3>3. Len(d) = m + 1 /\ d[m + 1] = Dot /\ Len(u) = (m + 1) + Len(b)
      BY <1>1, <2>2, <3>2
    <3>4. u[m + 1] = Dot
      <4>1. m + 1 \in 1..Len(d)
        BY <1>1, <3>3
      <4> QED
        BY <1>1, <3>3, <4>1
    <3>5. \A k \in 1..m : u[k] = t[k]
      <4>1. \A k \in 1..m : k \in 1..Len(d)
        BY <1>1, <3>3
      <4> QED
        BY <1>1, <4>1
    <3> HIDE DEF u, m, d
    <3>6. i \in Nat /\ j \in Nat
      BY <1>1, <3>3
    <3>7. CASE j <= m
      <4>1. CASE i <= m
        <5>1. i \in 1..m /\ j \in 1..m
          BY <3>6, <3>7, <4>1
        <5>2. \A k \in i..j : k \in 1..m
          BY <1>1, <3>6, <5>1
        <5>3. \A k \in i..j : t[k] # Dot
          BY <1>2, <3>5, <5>2
        <5> QED
          BY <5>1, <5>3 DEF Short, m
      <4>2. CASE ~(i <= m)
        BY <1>1, <3>6, <3>7, <4>2
      <4> QED
        BY <4>1, <4>2
    <3>8. CASE i > m + 1
      <4>1. j \in 1..((m + 1) + Len(b))
        BY <3>3
      <4> QED
        BY <1>0, <1>1, <3>6, <3>8, <4>1
    <3>9. CASE ~(j <= m) /\ ~(i > m + 1)
      <4>1. m + 1 \in i..j
        BY <1>1, <3>6, <3>9
      <4> QED
        BY <1>2, <3>4, <4>1
    <3> QED
      BY <3>7, <3>8, <3>9
  <2> QED
    BY <2>1, <2>2
<1>3. Short(u)
  BY <1>2 DEF Short
<1> QED
  BY <1>3

LEMMA TextExtended ==
  ASSUME WalkOK, NEW name, Fits(name), Short(Text(name)),
         NEW p \in LabelPlace, p.at + p.size <= length
  PROVE  Short(Text(Append(name, p)))
<1>1. Text(Append(name, p)) = (Text(name) \o Separator(name = <<>>)) \o BytesAt(p.at, p.size)
  BY TextAppend
<1>2. Text(name) \in Octets /\ BytesAt(p.at, p.size) \in Octets
  BY TextType, LabelBytes
<1>3. Len(BytesAt(p.at, p.size)) \in 0..191
  <2>1. Len(BytesAt(p.at, p.size)) \in 1..191
    BY LabelBytes
  <2>2. \A n \in 1..191 : n \in 0..191
    OBVIOUS
  <2> QED
    BY <2>1, <2>2
<1> DEFINE sep == Separator(name = <<>>)
<1>4. sep = <<Dot>> \/ (sep = <<>> /\ Text(name) = <<>>)
  BY TextOfNone DEF Separator
<1> HIDE DEF sep
<1>5. Short((Text(name) \o sep) \o BytesAt(p.at, p.size))
  BY <1>2, <1>3, <1>4, StaysShort
<1> QED
  BY <1>1, <1>5 DEF sep

LEMMA NothingIsShort == Short(<<>>)
<1>1. Len(<<>>) = 0 /\ 1..0 = {}
  OBVIOUS
<1> QED
  BY <1>1 DEF Short

-----------------------------------------------------------------------------
(* The bytes of the response                                               *)

\* A list of questions that the server may have read
Asking(a) ==
  /\ a \in Seq([name : Octets, field : Octets]) /\ a # <<>>
  /\ \A q \in 1..Len(a) : Short(a[q].name) /\ Len(a[q].field) = FieldSize

QuestionBytes(a) == [q \in 1..Len(a) |-> Encode(a[q].name) \o a[q].field]

\* Where question q begins, or what follows the questions
Place(a, q) == HeaderSize + Len(Upto(QuestionBytes(a), q - 1))

LEMMA AskingIs ==
  ASSUME NEW a, Asking(a)
  PROVE  /\ Len(a) \in Nat \ {0}
         /\ \A q \in 1..Len(a) : /\ a[q] \in [name : Octets, field : Octets]
                                 /\ a[q].name \in Octets /\ a[q].field \in Octets
                                 /\ Short(a[q].name) /\ Len(a[q].field) = FieldSize
<1>1. a \in Seq([name : Octets, field : Octets]) /\ a # <<>>
  BY DEF Asking
<1>2. Len(a) \in Nat \ {0} /\ \A q \in 1..Len(a) : a[q] \in [name : Octets, field : Octets]
  BY <1>1, EmptySeq, ElementOfSeq
<1> QED
  BY <1>2 DEF Asking

LEMMA EncodeIs ==
  ASSUME NEW s \in Octets, Short(s)
  PROVE  /\ Labelled(s) \in Octets /\ <<0>> \in Octets /\ Encode(s) \in Octets
         /\ Encode(s) = Labelled(s) \o <<0>>
         /\ Len(Encode(s)) = Len(Labelled(s)) + 1 /\ Len(Labelled(s)) \in Nat
<1>1. 1 \in Nat \ {0}
  OBVIOUS
<1>2. LabelledFrom(s)[1] \in Octets
  BY <1>1, LabelledType
<1>3. <<0>> \in Seq(Octet) /\ Len(<<0>>) = 1
  BY DEF Octet
<1>4. Labelled(s) \in Seq(Octet)
  BY <1>2 DEF Labelled, Octets
<1> QED
  BY <1>3, <1>4, Joined DEF Encode, Octets

LEMMA QuestionBytesType ==
  ASSUME NEW a, Asking(a)
  PROVE  /\ QuestionBytes(a) \in Seq(Octets) /\ Len(QuestionBytes(a)) = Len(a)
         /\ \A q \in 1..Len(a) : QuestionBytes(a)[q] = Encode(a[q].name) \o a[q].field
<1>1. Len(a) \in Nat
  BY AskingIs
<1>2. ASSUME NEW q \in 1..Len(a) PROVE Encode(a[q].name) \o a[q].field \in Octets
  <2>1. Encode(a[q].name) \in Octets /\ a[q].field \in Octets
    BY AskingIs, EncodeIs
  <2> QED
    BY <2>1, ConcatProperties DEF Octets
<1>3. QuestionBytes(a) \in [1..Len(a) -> Octets]
  BY <1>2 DEF QuestionBytes
<1>4. QuestionBytes(a) \in Seq(Octets)
  BY <1>1, <1>3
<1>5. Len(QuestionBytes(a)) = Len(a)
  BY <1>1 DEF QuestionBytes
<1>6. \A q \in 1..Len(a) : QuestionBytes(a)[q] = Encode(a[q].name) \o a[q].field
  BY DEF QuestionBytes
<1> QED
  BY <1>4, <1>5, <1>6

LEMMA Times ==
  ASSUME NEW w \in Nat, NEW k \in Nat
  PROVE  /\ k * w \in Nat /\ (k + 1) * w = k * w + w
         /\ \A b \in Nat : b < k => b * w + w <= k * w
<1>1. k * w \in Nat /\ (k + 1) * w = k * w + w
  OBVIOUS
<1>2. ASSUME NEW b \in Nat, b < k PROVE b * w + w <= k * w
  <2> DEFINE d == k - (b + 1)
  <2>1. d \in Nat /\ k = (b + 1) + d
    BY <1>2
  <2> HIDE DEF d
  <2>2. k * w = (b * w + w) + d * w
    BY <2>1
  <2>3. d * w \in Nat /\ b * w \in Nat
    BY <2>1
  <2> QED
    BY <2>2, <2>3
<1> QED
  BY <1>1, <1>2

\* So many records of one size, each beginning with a pointer
Pointers(b, number, type, size) ==
  /\ b \in Octets /\ number \in Nat /\ Len(b) = number * (2 + size)
  /\ \A m \in 0..(number - 1) : /\ b[m * (2 + size) + 1] = 192
                                /\ b[m * (2 + size) + 2] = HeaderSize
                                /\ b[m * (2 + size) + 3] = type

LEMMA RecordsIs ==
  ASSUME NEW number \in Nat, NEW type \in Octet, NEW size \in Nat \ {0}
  PROVE  Pointers(Records(number, type, size).bytes, number, type, size)
<1> USE CodecAssumption
<1> DEFINE rec == <<192, HeaderSize, type>> \o [i \in 1..(size - 1) |-> 0]
           w == 2 + size
           r == [q \in 1..number |-> rec]
           f(k) == Upto(r, k)
           P(k) == k <= number => Pointers(f(k), k, type, size)
           G == {k \in Nat : P(k)}
<1>1. /\ rec \in Octets /\ Len(rec) = w /\ rec[1] = 192 /\ rec[2] = HeaderSize /\ rec[3] = type
      /\ w \in Nat /\ w >= 3
  <2> DEFINE h == <<192, HeaderSize, type>>
             z == [i \in 1..(size - 1) |-> 0]
  <2>1. h \in Seq(Octet) /\ Len(h) = 3 /\ h[1] = 192 /\ h[2] = HeaderSize /\ h[3] = type
    BY DEF Octet
  <2>2. z \in Seq(Octet) /\ Len(z) = size - 1
    <3>1. z \in [1..(size - 1) -> Octet] /\ size - 1 \in Nat
      BY DEF Octet
    <3> QED
      BY <3>1
  <2> HIDE DEF h, z
  <2>3. 1 \in 1..3 /\ 2 \in 1..3 /\ 3 \in 1..3
    OBVIOUS
  <2>4. /\ h \o z \in Seq(Octet) /\ Len(h \o z) = 2 + size
        /\ (h \o z)[1] = 192 /\ (h \o z)[2] = HeaderSize /\ (h \o z)[3] = type
    <3>1. /\ h \o z \in Seq(Octet) /\ Len(h \o z) = Len(h) + Len(z)
          /\ \A k \in 1..Len(h) : (h \o z)[k] = h[k]
      <4>1. h \in Seq(Octet) /\ z \in Seq(Octet)
        BY <2>1, <2>2
      <4> QED
        BY <4>1, Joined
    <3>2. (h \o z)[1] = h[1] /\ (h \o z)[2] = h[2] /\ (h \o z)[3] = h[3]
      BY <2>1, <2>3, <3>1
    <3>3. 3 + (size - 1) = 2 + size
      OBVIOUS
    <3> QED
      BY <2>1, <2>2, <3>1, <3>2, <3>3
  <2> QED
    BY <2>4 DEF h, z, Octets
<1>2. Records(number, type, size).bytes = FlattenSeq(r)
  BY DEF Records
<1> HIDE DEF rec
<1>3. r \in Seq(Octets) /\ Len(r) = number /\ \A q \in 1..number : r[q] = rec
  <2>1. r \in [1..number -> Octets]
    BY <1>1
  <2> QED
    BY <2>1
<1> HIDE DEF r
<1>4. /\ FlattenSeq(r) = f(number) /\ f(0) = <<>>
      /\ \A k \in 1..number : f(k) = f(k - 1) \o rec
  BY <1>3, UptoIs
<1> HIDE DEF f
<1>5. 0 \in G
  <2>1. Len(<<>>) = 0 /\ 0 * w = 0 /\ <<>> \in Octets /\ 0..(0 - 1) = {}
    BY <1>1, EmptySeq DEF Octets
  <2>2. Pointers(<<>>, 0, type, size)
    BY <2>1 DEF Pointers
  <2> QED
    BY <1>4, <2>2
<1>6. ASSUME NEW k \in Nat, k \in G PROVE k + 1 \in G
  <2> SUFFICES P(k + 1)
    <3> HIDE DEF P
    <3> QED
      OBVIOUS
  <2> SUFFICES ASSUME k + 1 <= number PROVE Pointers(f(k + 1), k + 1, type, size)
    OBVIOUS
  <2> DEFINE b == f(k)
             c == f(k + 1)
  <2>1. k + 1 \in 1..number /\ (k + 1) - 1 = k /\ k <= number
    OBVIOUS
  <2>2. c = b \o rec
    BY <1>4, <2>1
  <2>3. Pointers(b, k, type, size)
    BY <1>6, <2>1
  <2> HIDE DEF b, c
  <2>4. /\ b \in Seq(Octet) /\ Len(b) = k * w
        /\ \A m \in 0..(k - 1) : b[m * w + 1] = 192 /\ b[m * w + 2] = HeaderSize /\ b[m * w + 3] = type
    BY <2>3 DEF Pointers, Octets
  <2>5. /\ c \in Seq(Octet) /\ Len(c) = Len(b) + w
        /\ \A i \in 1..Len(b) : c[i] = b[i]
        /\ \A i \in 1..w : c[Len(b) + i] = rec[i]
    <3>1. rec \in Seq(Octet)
      BY <1>1 DEF Octets
    <3>2. /\ c \in Seq(Octet) /\ Len(c) = Len(b) + Len(rec)
          /\ \A i \in 1..Len(b) : c[i] = b[i]
          /\ \A i \in 1..Len(rec) : c[Len(b) + i] = rec[i]
      <4>1. /\ b \o rec \in Seq(Octet) /\ Len(b \o rec) = Len(b) + Len(rec)
            /\ \A i \in 1..Len(b) : (b \o rec)[i] = b[i]
            /\ \A i \in 1..Len(rec) : (b \o rec)[Len(b) + i] = rec[i]
        <5>1. b \in Seq(Octet)
          BY <2>4
        <5> QED
          BY <3>1, <5>1, Joined
      <4> QED
        BY <2>2, <4>1
    <3> QED
      BY <1>1, <3>2
  <2>6. /\ k * w \in Nat /\ (k + 1) * w = k * w + w
        /\ \A m \in Nat : m < k => m * w + w <= k * w
    BY <1>1, Times
  <2>7. c[k * w + 1] = 192 /\ c[k * w + 2] = HeaderSize /\ c[k * w + 3] = type
    <3>1. 1 \in 1..w /\ 2 \in 1..w /\ 3 \in 1..w
      BY <1>1
    <3> QED
      BY <1>1, <2>4, <2>5, <3>1
  <2>8. ASSUME NEW m \in 0..(k - 1) PROVE c[m * w + 1] = 192 /\ c[m * w + 2] = HeaderSize /\ c[m * w + 3] = type
    <3>1. m \in Nat /\ m < k
      OBVIOUS
    <3>2. m * w \in Nat /\ m * w + w <= k * w
      BY <1>1, <2>6, <3>1, Times
    <3>3. /\ m * w + 1 \in 1..Len(b) /\ m * w + 2 \in 1..Len(b)
          /\ m * w + 3 \in 1..Len(b)
      BY <1>1, <2>4, <2>6, <3>2
    <3>4. b[m * w + 1] = 192 /\ b[m * w + 2] = HeaderSize /\ b[m * w + 3] = type
      BY <2>4
    <3>5. /\ c[m * w + 1] = b[m * w + 1] /\ c[m * w + 2] = b[m * w + 2]
          /\ c[m * w + 3] = b[m * w + 3]
      BY <2>5, <3>3
    <3> QED
      BY <3>4, <3>5
  <2>9. \A m \in 0..((k + 1) - 1) : m \in 0..(k - 1) \/ m = k
    OBVIOUS
  <2>10. ASSUME NEW m \in 0..((k + 1) - 1)
         PROVE  c[m * w + 1] = 192 /\ c[m * w + 2] = HeaderSize /\ c[m * w + 3] = type
    <3>1. CASE m \in 0..(k - 1)
      BY <2>8, <3>1
    <3>2. CASE m = k
      BY <2>7, <3>2
    <3> QED
      BY <2>9, <3>1, <3>2
  <2>11. Len(c) = (k + 1) * w /\ c \in Octets
    BY <2>4, <2>5, <2>6 DEF Octets
  <2>12. Pointers(c, k + 1, type, size)
    BY <2>10, <2>11 DEF Pointers
  <2> QED
    BY <2>12 DEF c
<1> HIDE DEF G
<1>7. number \in G
  BY <1>5, <1>6, NumberInduction
<1>8. P(number)
  BY <1>7 DEF G
<1> QED
  BY <1>2, <1>4, <1>8

LEMMA AnswersIs ==
  ASSUME NEW a, Asking(a)
  PROVE  LET asks == a[1].field[1]
             b == Answers(a) IN
         /\ b.bytes \in Octets
         /\ b.number = IF asks \in {TypeA, TypeAAAA} THEN Len(a) ELSE 0
         /\ \E type \in {TypeA, TypeAAAA} :
              /\ Pointers(b.bytes, b.number, type, SizeOf(type))
              /\ b.number # 0 => type = asks
<1> USE CodecAssumption
<1> DEFINE asks == a[1].field[1]
           b == Answers(a)
<1>1. Len(a) \in Nat /\ TypeA \in Octet /\ TypeAAAA \in Octet
  BY AskingIs DEF Octet
<1>2. \A n, t, m : Records(n, t, m).number = n
  BY DEF Records
<1>3. CASE asks \in {TypeA, TypeAAAA}
  <2>1. b = Records(Len(a), asks, SizeOf(asks))
    BY <1>3 DEF Answers, SizeOf
  <2>2. Pointers(Records(Len(a), asks, SizeOf(asks)).bytes, Len(a), asks, SizeOf(asks))
    <3>1. SizeOf(asks) \in Nat \ {0} /\ asks \in Octet
      BY <1>1, <1>3 DEF SizeOf
    <3> HIDE DEF asks
    <3> QED
      BY <1>1, <3>1, RecordsIs
  <2> HIDE DEF asks, b
  <2>3. b.number = Len(a) /\ Pointers(b.bytes, b.number, asks, SizeOf(asks))
    BY <1>2, <2>1, <2>2
  <2>4. b.bytes \in Octets
    BY <2>3 DEF Pointers
  <2> QED
    BY <1>3, <2>3, <2>4 DEF asks, b
<1>4. CASE asks \notin {TypeA, TypeAAAA}
  <2>1. b.number = 0 /\ b.bytes = <<>>
    BY <1>4 DEF Answers
  <2>2. <<>> \in Octets /\ Len(<<>>) = 0
    BY EmptySeq DEF Octets
  <2>3. 0 * (2 + SizeOf(TypeA)) = 0 /\ 0..(0 - 1) = {}
    BY DEF SizeOf
  <2> HIDE DEF asks, b
  <2>4. Pointers(b.bytes, b.number, TypeA, SizeOf(TypeA))
    BY <2>1, <2>2, <2>3 DEF Pointers
  <2> QED
    BY <1>4, <2>1, <2>2, <2>4 DEF asks, b
<1> QED
  BY <1>3, <1>4

\* The packet is the response to these questions.
Sent == length = Len(Response(asked)) /\ Holds(0, Response(asked))

\* Where the root of question q's name is
RootAt(a, q) == Place(a, q) + Len(Labelled(a[q].name))

LEMMA ResponseType ==
  ASSUME NEW a, Asking(a)
  PROVE  /\ [i \in 1..HeaderSize |-> 0] \in Octets /\ Len([i \in 1..HeaderSize |-> 0]) = HeaderSize
         /\ FlattenSeq(QuestionBytes(a)) \in Octets
         /\ FlattenSeq(QuestionBytes(a)) = Upto(QuestionBytes(a), Len(a))
         /\ Response(a) = ([i \in 1..HeaderSize |-> 0] \o FlattenSeq(QuestionBytes(a)))
                            \o Answers(a).bytes
         /\ [i \in 1..HeaderSize |-> 0] \o FlattenSeq(QuestionBytes(a)) \in Octets
         /\ Response(a) \in Octets
<1> DEFINE h == [i \in 1..HeaderSize |-> 0]
           r == QuestionBytes(a)
           f == FlattenSeq(r)
           b == Answers(a).bytes
<1>1. h \in Seq(Octet) /\ Len(h) = HeaderSize
  <2>1. HeaderSize \in Nat
    BY ParserAssumption
  <2>2. h \in [1..HeaderSize -> Octet]
    BY DEF Octet
  <2> QED
    BY <2>1, <2>2
<1>2. r \in Seq(Octets) /\ Len(r) = Len(a) /\ Len(a) \in Nat
  BY QuestionBytesType, AskingIs
<1>3. f = Upto(r, Len(a)) /\ f \in Seq(Octet)
  <2>1. Len(r) \in 0..Len(r)
    BY <1>2
  <2> HIDE DEF r
  <2> QED
    BY <1>2, <2>1, UptoIs DEF Octets
<1>4. b \in Seq(Octet)
  BY AnswersIs DEF Octets
<1>5. Response(a) = (h \o f) \o b
  BY DEF Response, QuestionBytes
<1> HIDE DEF h, f, b
<1>6. h \o f \in Seq(Octet)
  BY <1>1, <1>3, Joined
<1>7. (h \o f) \o b \in Seq(Octet)
  BY <1>4, <1>6, Joined
<1> QED
  BY <1>1, <1>3, <1>5, <1>6, <1>7 DEF h, f, b, Octets

LEMMA PlaceIs ==
  ASSUME NEW a, Asking(a)
  PROVE  /\ Place(a, 1) = HeaderSize
         /\ \A q \in 1..(Len(a) + 1) : Place(a, q) \in Nat
         /\ \A q \in 1..Len(a) : /\ RootAt(a, q) \in Nat
                                 /\ Place(a, q + 1) = RootAt(a, q) + 1 + FieldSize
<1> USE ParserAssumption
<1> DEFINE r == QuestionBytes(a)
<1>1. /\ r \in Seq(Octets) /\ Len(r) = Len(a) /\ Len(a) \in Nat
      /\ \A q \in 1..Len(a) : r[q] = Encode(a[q].name) \o a[q].field
  BY QuestionBytesType, AskingIs
<1> HIDE DEF r
<1>2. /\ Upto(r, 0) = <<>>
      /\ \A q \in 1..Len(a) : Upto(r, q) = Upto(r, q - 1) \o r[q]
      /\ \A q \in 0..Len(a) : Upto(r, q) \in Octets
  BY <1>1, UptoIs
<1>3. Place(a, 1) = HeaderSize
  <2>1. 1 - 1 = 0 /\ Len(<<>>) = 0
    OBVIOUS
  <2> QED
    BY <1>2, <2>1 DEF Place, r
<1>4. ASSUME NEW q \in 1..(Len(a) + 1) PROVE Place(a, q) \in Nat
  <2>1. q - 1 \in 0..Len(a)
    BY <1>1
  <2>2. Upto(r, q - 1) \in Seq(Octet)
    BY <1>2, <2>1 DEF Octets
  <2>3. Len(Upto(r, q - 1)) \in Nat
    BY <2>2, LenProperties
  <2> QED
    BY <2>3 DEF Place, r
<1>5. ASSUME NEW q \in 1..Len(a)
      PROVE  RootAt(a, q) \in Nat /\ Place(a, q + 1) = RootAt(a, q) + 1 + FieldSize
  <2> DEFINE s == a[q].name
             u == Upto(r, q - 1)
             e == Encode(s)
  <2>1. /\ s \in Octets /\ Short(s) /\ a[q].field \in Octets /\ Len(a[q].field) = FieldSize
    BY AskingIs
  <2>2. e \in Octets /\ Len(e) = Len(Labelled(s)) + 1 /\ Len(Labelled(s)) \in Nat
    BY <2>1, EncodeIs
  <2>3. q - 1 \in 0..Len(a) /\ (q + 1) - 1 = q /\ q \in 1..(Len(a) + 1)
    BY <1>1
  <2>4. u \in Seq(Octet) /\ r[q] \in Seq(Octet) /\ Upto(r, q) = u \o r[q]
    BY <1>1, <1>2, <2>3, ElementOfSeq DEF Octets
  <2>5. Len(r[q]) = Len(e) + FieldSize
    <3>1. r[q] = e \o a[q].field
      BY <1>1
    <3> HIDE DEF e
    <3> QED
      <4>1. e \in Seq(Octet) /\ a[q].field \in Seq(Octet)
        BY <2>1, <2>2 DEF Octets
      <4>2. Len(e \o a[q].field) = Len(e) + Len(a[q].field)
        BY <4>1, Joined
      <4> QED
        BY <2>1, <3>1, <4>2
  <2>6. Len(Upto(r, q)) = Len(u) + Len(r[q]) /\ Len(u) \in Nat
    <3> HIDE DEF u
    <3>1. Len(u \o r[q]) = Len(u) + Len(r[q]) /\ Len(u) \in Nat
      BY <2>4, Joined
    <3> QED
      BY <2>4, <3>1
  <2>7. Place(a, q + 1) = HeaderSize + Len(Upto(r, q))
    BY <2>3 DEF Place, r
  <2>8. RootAt(a, q) = (HeaderSize + Len(u)) + Len(Labelled(s))
    BY DEF RootAt, Place, r
  <2> HIDE DEF u, e, s
  <2> QED
    BY <2>2, <2>5, <2>6, <2>7, <2>8
<1> QED
  BY <1>3, <1>4, <1>5

\* Where the client finds what of the questions
LEMMA Layout ==
  ASSUME WalkOK, Asking(asked), Sent
  PROVE  /\ \A q \in 1..Len(asked) :
              /\ Holds(Place(asked, q), LabelledFrom(asked[q].name)[1])
              /\ RootAt(asked, q) + 1 + FieldSize <= length
              /\ data[RootAt(asked, q)] = 0
              /\ BytesAt(RootAt(asked, q) + 1, FieldSize) = asked[q].field
         /\ HeaderSize <= length
         /\ length = Place(asked, Len(asked) + 1) + Len(Answers(asked).bytes)
         /\ Holds(Place(asked, Len(asked) + 1), Answers(asked).bytes)
<1> USE ParserAssumption
<1> DEFINE h == [i \in 1..HeaderSize |-> 0]
           r == QuestionBytes(asked)
           f == FlattenSeq(r)
           b == Answers(asked).bytes
           n == Len(asked)
<1>1. /\ h \in Octets /\ f \in Octets /\ h \o f \in Octets /\ b \in Octets /\ Len(h) = HeaderSize
      /\ Response(asked) = (h \o f) \o b /\ f = Upto(r, n)
  BY ResponseType, AnswersIs
<1>2. /\ r \in Seq(Octets) /\ Len(r) = n /\ n \in Nat \ {0}
      /\ \A q \in 1..n : r[q] = Encode(asked[q].name) \o asked[q].field
  BY QuestionBytesType, AskingIs
<1>3. length = Len((h \o f) \o b) /\ Holds(0, (h \o f) \o b)
  BY <1>1 DEF Sent
<1> HIDE DEF h, r, f, b, n
<1>4. /\ Holds(0, h \o f) /\ Holds(0 + Len(h \o f), b)
      /\ Len((h \o f) \o b) = Len(h \o f) + Len(b)
  <2> DEFINE x == h \o f
  <2>1. x \in Octets /\ b \in Octets /\ Holds(0, x \o b) /\ 0 \in Nat
    BY <1>1, <1>3
  <2> HIDE DEF x
  <2>2. Holds(0, x) /\ Holds(0 + Len(x), b) /\ Len(x \o b) = Len(x) + Len(b)
    BY <2>1, HoldsBoth
  <2> QED
    BY <2>2 DEF x
<1>5. Holds(0, h) /\ Holds(0 + Len(h), f) /\ Len(h \o f) = Len(h) + Len(f)
  <2>1. 0 \in Nat /\ h \in Octets /\ f \in Octets /\ Holds(0, h \o f)
    BY <1>1, <1>4
  <2> QED
    BY <2>1, HoldsBoth
<1>6. Len(f) \in Nat /\ Len(b) \in Nat /\ HeaderSize \in Nat /\ length \in Nat
  BY <1>1, LenProperties DEF Octets, WalkOK
<1>7. Place(asked, n + 1) = HeaderSize + Len(f)
  <2>1. (n + 1) - 1 = n
    BY <1>2
  <2> QED
    BY <1>1, <2>1 DEF Place, r
<1>8. length = Place(asked, n + 1) + Len(b) /\ Holds(Place(asked, n + 1), b) /\ HeaderSize <= length
  BY <1>1, <1>3, <1>4, <1>5, <1>6, <1>7
<1>9. Holds(HeaderSize, f)
  BY <1>1, <1>5, <1>6
<1>10. ASSUME NEW q \in 1..n
       PROVE  /\ Holds(Place(asked, q), LabelledFrom(asked[q].name)[1])
              /\ RootAt(asked, q) + 1 + FieldSize <= length
              /\ data[RootAt(asked, q)] = 0
              /\ BytesAt(RootAt(asked, q) + 1, FieldSize) = asked[q].field
  <2> DEFINE s == asked[q].name
             at == Place(asked, q)
             g == asked[q].field
             e == Encode(s)
             v == Labelled(s)
  <2>1. s \in Octets /\ Short(s) /\ g \in Octets /\ Len(g) = FieldSize
    BY AskingIs DEF n
  <2>2. /\ e \in Octets /\ v \in Octets /\ <<0>> \in Octets /\ e = v \o <<0>>
        /\ Len(v) \in Nat /\ Len(e) = Len(v) + 1
    BY <2>1, EncodeIs
  <2>3. at \in Nat
    <3>1. q \in 1..(Len(asked) + 1)
      BY <1>2 DEF n
    <3> QED
      BY <3>1, PlaceIs
  <2>4. Holds(at, r[q])
    <3>1. HeaderSize \in Nat /\ Holds(HeaderSize, FlattenSeq(r))
      BY <1>6, <1>9 DEF f
    <3>2. Holds(HeaderSize + Len(Upto(r, q - 1)), r[q])
      BY <1>2, <3>1, HoldsUpto
    <3> QED
      BY <3>2 DEF Place, r
  <2>5. r[q] = e \o g /\ RootAt(asked, q) = at + Len(v) /\ v = LabelledFrom(s)[1]
    BY <1>2 DEF RootAt, Labelled
  <2> HIDE DEF s, at, g, e, v
  <2>6. Holds(at, e) /\ Holds(at + Len(e), g)
    <3>1. Holds(at, e \o g)
      BY <2>4, <2>5
    <3> QED
      BY <2>1, <2>2, <2>3, <3>1, HoldsBoth
  <2>7. Holds(at, v) /\ Holds(at + Len(v), <<0>>)
    BY <2>2, <2>3, <2>6, HoldsBoth
  <2>8. data[at + Len(v)] = 0
    <3>1. 1 \in 1..Len(<<0>>) /\ <<0>>[1] = 0 /\ (at + Len(v)) + 1 - 1 = at + Len(v)
      BY <2>2, <2>3
    <3>2. data[(at + Len(v)) + 1 - 1] = <<0>>[1]
      BY <2>7, <3>1 DEF Holds
    <3> QED
      BY <3>1, <3>2
  <2>9. at + Len(e) = (at + Len(v)) + 1 /\ at + Len(e) \in Nat
    BY <2>2, <2>3
  <2>10. BytesAt((at + Len(v)) + 1, FieldSize) = g
    BY <2>1, <2>6, <2>9, BytesHeld
  <2>11. (at + Len(v)) + 1 + FieldSize <= length
    BY <2>1, <2>6, <2>9 DEF Holds
  <2>12. Holds(at, LabelledFrom(s)[1])
    BY <2>5, <2>7
  <2> QED
    BY <2>5, <2>8, <2>10, <2>11, <2>12 DEF s, at, g
<1> QED
  BY <1>8, <1>10 DEF n, b

-----------------------------------------------------------------------------
(* The client in a name                                                    *)

\* The same of a packet with these bytes and of this length
BytesIn(d, at, size) == [i \in 1..size |-> d[at + i - 1]]
TextIn(d, name) ==
  FlattenSeq([i \in 1..Len(name) |->
                (IF i = 1 THEN <<>> ELSE <<Dot>>) \o BytesIn(d, name[i].at, name[i].size)])
HoldsIn(d, l, at, b) == at + Len(b) <= l /\ \A k \in 1..Len(b) : d[at + k - 1] = b[k]

LEMMA SameIn ==
  /\ \A at, size : BytesAt(at, size) = BytesIn(data, at, size)
  /\ \A name : Text(name) = TextIn(data, name)
  /\ \A at, b : Holds(at, b) <=> HoldsIn(data, length, at, b)
BY DEF BytesAt, BytesIn, Text, TextIn, Holds, HoldsIn

\* The labels read so far are those of the name s before i, with no passes more than
\* parts, and what Encode() writes from i on is at the offset, in front of the root.
InName(d, l, s, root, at, name, passes) ==
  \E i : /\ AtCut(s, i)
         /\ HoldsIn(d, l, at, LabelledFrom(s)[i])
         /\ at + Len(LabelledFrom(s)[i]) = root
         /\ TextIn(d, name) = SqueezedTo(s)[Done(i)]
         /\ name = <<>> <=> i = 1
         /\ passes <= Cardinality(Counted(s, i))

LEMMA AtCutIs == ASSUME NEW s \in Octets, NEW i, AtCut(s, i) PROVE i \in 1..(Len(s) + 2) /\ i \in Nat \ {0}
<1>1. Len(s) \in Nat
  BY LenProperties DEF Octets
<1> QED
  BY <1>1 DEF AtCut

LEMMA NameBegins ==
  ASSUME WalkOK, NEW s \in Octets, Short(s), NEW at \in Nat, NEW root,
         Holds(at, LabelledFrom(s)[1]), at + Len(LabelledFrom(s)[1]) = root
  PROVE  InName(data, length, s, root, at, <<>>, 0)
<1>1. AtCut(s, 1) /\ Done(1) = 0
  BY DEF AtCut, Done
<1>2. TextIn(data, <<>>) = <<>>
  BY SameIn, TextOfNone
<1>3. SqueezedTo(s)[0] = <<>>
  BY SqueezedIs
<1>4. 0 <= Cardinality(Counted(s, 1))
  BY PartsAreFinite
<1>5. HoldsIn(data, length, at, LabelledFrom(s)[1])
  BY SameIn
<1> QED
  BY <1>1, <1>2, <1>3, <1>4, <1>5 DEF InName

\* Either the root is next, and the name is complete, or the next part is.
LEMMA NameGoesOn ==
  ASSUME WalkOK, Fits(domain), NEW s \in Octets, Short(s),
         NEW root \in Nat, root < length, data[root] = 0,
         InName(data, length, s, root, offset, domain, iterations)
  PROVE  /\ offset < length /\ iterations <= Cardinality(PartStarts(s))
         /\ \/ /\ data[offset] = 0 /\ offset = root
               /\ TextIn(data, domain) = Squeezed(s)
            \/ /\ data[offset] \in 1..191
               /\ offset + 1 + data[offset] <= length
               /\ InName(data, length, s, root, offset + 1 + data[offset],
                         Append(domain, [at |-> offset + 1, size |-> data[offset]]),
                         iterations + 1)
<1>1. PICK i : /\ AtCut(s, i)
               /\ Holds(offset, LabelledFrom(s)[i])
               /\ offset + Len(LabelledFrom(s)[i]) = root
               /\ Text(domain) = SqueezedTo(s)[Done(i)]
               /\ domain = <<>> <=> i = 1
               /\ iterations <= Cardinality(Counted(s, i))
  BY SameIn DEF InName
<1>2. i \in 1..(Len(s) + 2) /\ i \in Nat \ {0} /\ Len(s) \in Nat
  BY <1>1, AtCutIs, LenProperties DEF Octets
<1>3. offset \in Nat /\ length \in Nat /\ iterations \in Nat
  BY DEF WalkOK
<1>4. LabelledFrom(s)[i] \in Octets /\ Len(LabelledFrom(s)[i]) \in Nat
  <2>1. LabelledFrom(s)[i] \in Octets
    BY <1>2, LabelledType
  <2> QED
    BY <2>1, LenProperties DEF Octets
<1>5. offset < length
  BY <1>1, <1>3, <1>4
<1>6. iterations <= Cardinality(PartStarts(s))
  <2>1. /\ Cardinality(Counted(s, i)) \in Nat /\ Cardinality(PartStarts(s)) \in Nat
        /\ Cardinality(Counted(s, i)) <= Cardinality(PartStarts(s))
    BY PartsAreFinite
  <2> QED
    BY <1>1, <1>3, <2>1
<1>7. CASE LabelledFrom(s)[i] = <<>> /\ \A k \in i..Len(s) : s[k] = Dot
  <2>1. offset = root
    BY <1>1, <1>3, <1>7
  <2>2. Text(domain) = Squeezed(s)
    BY <1>1, <1>7, RestSqueezed
  <2> QED
    BY <1>5, <1>6, <2>1, <2>2, SameIn
<1>8. ASSUME NEW j \in i..Len(s), s[j] # Dot, \A k \in i..(j - 1) : s[k] = Dot,
             LabelledFrom(s)[i]
               = (<<Len(Part(s, j))>> \o Part(s, j)) \o LabelledFrom(s)[PartEnd(s, j) + 1]
      PROVE  /\ data[offset] \in 1..191
             /\ offset + 1 + data[offset] <= length
             /\ InName(data, length, s, root, offset + 1 + data[offset],
                       Append(domain, [at |-> offset + 1, size |-> data[offset]]),
                       iterations + 1)
  <2> DEFINE p == Part(s, j)
             z == <<Len(p)>>
             e == PartEnd(s, j) + 1
             f == LabelledFrom(s)[e]
  <2>1. p \in Octets /\ Len(p) \in 1..191
    <3>1. j \in 1..Len(s)
      BY <1>2
    <3>2. p \in Octets /\ Len(p) \in 0..191 /\ p # <<>>
      BY <1>8, <3>1, PartIs
    <3>3. Len(p) # 0
      <4> HIDE DEF p
      <4> QED
        BY <3>2, EmptySeq DEF Octets
    <3>4. \A n \in 0..191 : n # 0 => n \in 1..191
      OBVIOUS
    <3> QED
      BY <3>2, <3>3, <3>4
  <2>2. e \in 3..(Len(s) + 2) /\ AtCut(s, e) /\ e # 1
    <3>1. e \in 3..(Len(s) + 2) /\ AtCut(s, e)
      BY <1>1, <1>8, NextSqueezed
    <3> QED
      BY <1>2, <3>1
  <2>3. SqueezedTo(s)[Done(e)] = (SqueezedTo(s)[Done(i)] \o Gap(i)) \o p
    BY <1>1, <1>8, NextSqueezed
  <2>4. Cardinality(Counted(s, i)) + 1 <= Cardinality(Counted(s, e))
    BY <1>1, <1>8, PartCounted
  <2>5. f \in Octets
    <3>1. e \in Nat \ {0}
      BY <1>2, <2>2
    <3> QED
      BY <3>1, LabelledType
  <2>6. LabelledFrom(s)[i] = (z \o p) \o f
    BY <1>8
  <2>7. z \in Seq(Octet) /\ Len(z) = 1 /\ z[1] = Len(p)
    <3>1. \A n \in 1..191 : n \in Octet
      BY DEF Octet
    <3>2. Len(p) \in Octet
      BY <2>1, <3>1
    <3> HIDE DEF p
    <3> QED
      BY <3>2
  <2> HIDE DEF p, z, e, f
  <2>8. z \in Octets /\ p \in Octets /\ f \in Octets /\ z \o p \in Octets
    <3>1. z \o p \in Seq(Octet)
      BY <2>1, <2>7, ConcatProperties DEF Octets
    <3> QED
      BY <2>1, <2>5, <2>7, <3>1 DEF Octets
  <2>9. /\ Holds(offset, z \o p) /\ Holds(offset + Len(z \o p), f)
        /\ Len((z \o p) \o f) = Len(z \o p) + Len(f)
    <3> DEFINE x == z \o p
    <3>1. Holds(offset, x \o f) /\ x \in Octets
      BY <1>1, <2>6, <2>8
    <3> HIDE DEF x
    <3>2. Holds(offset, x) /\ Holds(offset + Len(x), f) /\ Len(x \o f) = Len(x) + Len(f)
      BY <1>3, <2>8, <3>1, HoldsBoth
    <3> QED
      BY <3>2 DEF x
  <2>10. Holds(offset, z) /\ Holds(offset + Len(z), p) /\ Len(z \o p) = Len(z) + Len(p)
    BY <1>3, <2>8, <2>9, HoldsBoth
  <2>11. data[offset] = Len(p)
    <3>1. 1 \in 1..Len(z) /\ offset + 1 - 1 = offset
      BY <1>3, <2>7
    <3>2. data[offset + 1 - 1] = z[1]
      BY <2>10, <3>1 DEF Holds
    <3> QED
      BY <2>7, <3>1, <3>2
  <2> DEFINE n == Len(p)
             label == [at |-> offset + 1, size |-> n]
  <2>12. n \in Nat /\ n \in 1..191 /\ offset + 1 \in Nat /\ Len(f) \in Nat
    <3>1. \A m \in 1..191 : m \in Nat
      OBVIOUS
    <3>2. Len(f) \in Nat
      BY <2>8, LenProperties DEF Octets
    <3> QED
      BY <1>3, <2>1, <3>1, <3>2
  <2>13. Holds(offset + 1, p) /\ Holds((offset + 1) + n, f)
    <3>1. offset + Len(z) = offset + 1 /\ offset + Len(z \o p) = (offset + 1) + n
      BY <1>3, <2>7, <2>10, <2>12
    <3> QED
      BY <2>9, <2>10, <3>1
  <2>14. ((offset + 1) + n) + Len(f) = root
    <3>1. Len(LabelledFrom(s)[i]) = (1 + n) + Len(f)
      BY <2>6, <2>7, <2>9, <2>10
    <3> HIDE DEF n
    <3> QED
      BY <1>1, <1>3, <2>12, <3>1
  <2>15. (offset + 1) + n <= length
    <3> HIDE DEF n
    <3> QED
      BY <1>3, <2>12, <2>14
  <2>16. BytesAt(offset + 1, n) = p
    BY <2>8, <2>12, <2>13, BytesHeld
  <2>17. label \in LabelPlace /\ label.at = offset + 1 /\ label.size = n
    BY <2>12 DEF LabelPlace
  <2> HIDE DEF n, label
  <2>18. Text(Append(domain, label)) = (Text(domain) \o Separator(domain = <<>>)) \o p
    <3>1. label.at + label.size <= length
      BY <2>15, <2>17
    <3> QED
      BY <2>16, <2>17, <3>1, TextAppend
  <2>19. Separator(domain = <<>>) = Gap(i)
    BY <1>1 DEF Separator, Gap
  <2>20. Text(Append(domain, label)) = SqueezedTo(s)[Done(e)]
    BY <1>1, <2>3, <2>18, <2>19
  <2>21. Append(domain, label) # <<>>
    BY <2>17, AppendProperties DEF Fits
  <2>22. iterations + 1 <= Cardinality(Counted(s, e))
    <3>1. Cardinality(Counted(s, i)) \in Nat /\ Cardinality(Counted(s, e)) \in Nat
      BY PartsAreFinite
    <3> QED
      BY <1>1, <1>3, <2>4, <3>1
  <2>23. InName(data, length, s, root, (offset + 1) + n, Append(domain, label), iterations + 1)
    <3>1. HoldsIn(data, length, (offset + 1) + n, LabelledFrom(s)[e])
      BY <2>13, SameIn DEF f
    <3>2. ((offset + 1) + n) + Len(LabelledFrom(s)[e]) = root
      BY <2>14 DEF f
    <3>3. TextIn(data, Append(domain, label)) = SqueezedTo(s)[Done(e)]
      BY <2>20, SameIn
    <3> QED
      BY <2>2, <2>21, <2>22, <3>1, <3>2, <3>3 DEF InName
  <2>24. data[offset] = n
    BY <2>11 DEF n
  <2> QED
    BY <2>12, <2>15, <2>23, <2>24 DEF label
<1> QED
  BY <1>2, <1>5, <1>6, <1>7, <1>8, NextPart

-----------------------------------------------------------------------------
(* The invariant                                                           *)

\* Of either side: the fields of the questions are in the packet and no name has a
\* part that is too long for a label.
Read ==
  /\ fields \in Seq(Nat) /\ Len(fields) = Len(questions)
  /\ \A q \in 1..Len(questions) : fields[q] + FieldSize <= length
  /\ Short(TextIn(data, domain))
  /\ \A q \in 1..Len(questions) : Short(TextIn(data, questions[q]))
  /\ pc = "header" => questions = <<>>
  /\ pc \in {"name", "fields"} => Len(questions) < qd_count /\ qd_count < MaxQuestions
  /\ pc = "done" => Len(questions) = qd_count /\ qd_count < MaxQuestions

\* Of the client: the packet is the response to the questions asked, ...
Answered ==
  /\ Asking(asked) /\ length = Len(Response(asked)) /\ HoldsIn(data, length, 0, Response(asked))
  /\ qd_count = Len(asked) /\ Len(asked) < MaxQuestions /\ an_count = Answers(asked).number

\* ... and what it has read so far is what was asked.
Current == Len(questions) + 1
Again ==
  /\ \A q \in 1..Len(questions) : /\ TextIn(data, questions[q]) = Squeezed(asked[q].name)
                                  /\ BytesIn(data, fields[q], FieldSize) = asked[q].field
  /\ pc = "name" =>
       /\ ~jumped
       /\ InName(data, length, asked[Current].name, RootAt(asked, Current), offset, domain,
                 iterations)
  /\ pc = "fields" => /\ TextIn(data, domain) = Squeezed(asked[Current].name)
                      /\ offset = RootAt(asked, Current) + 1
  /\ pc = "done" => offset = Place(asked, Len(asked) + 1)
  /\ pc = "failed" => \E q \in 1..Len(asked) : Cardinality(PartStarts(asked[q].name)) >= MaxIterations

CInv ==
  /\ IInv /\ Resumes /\ side \in {"server", "client"}
  /\ Read
  /\ side = "client" => Answered /\ Again

LEMMA NamesFit ==
  ASSUME IInv
  PROVE  Fits(domain) /\ \A q \in 1..Len(questions) : Fits(questions[q])
<1>1. domain \in Seq(LabelPlace) /\ Within(domain, length)
  BY DEF IInv, WalkOK, NamesInPacket
<1>2. \A q \in 1..Len(questions) : questions[q] \in Seq(LabelPlace) /\ Within(questions[q], length)
  <2>1. questions \in Seq(Seq(LabelPlace))
    BY DEF IInv, WalkOK
  <2> QED
    BY <2>1, ElementOfSeq DEF IInv, NamesInPacket
<1> QED
  BY <1>1, <1>2 DEF Fits, Within

LEMMA NoLabels == \A d : TextIn(d, <<>>) = <<>> /\ Short(TextIn(d, <<>>))
<1> SUFFICES ASSUME NEW d PROVE TextIn(d, <<>>) = <<>>
  BY NothingIsShort
<1>1. Len(<<>>) = 0 /\ 1..0 = {}
  OBVIOUS
<1> DEFINE r == [i \in 1..Len(<<>>) |->
                   (IF i = 1 THEN <<>> ELSE <<Dot>>) \o BytesIn(d, <<>>[i].at, <<>>[i].size)]
<1>2. Len(r) = 0 /\ r = <<>>
  BY <1>1
<1>3. TextIn(d, <<>>) = FlattenSeq(r)
  BY DEF TextIn
<1> HIDE DEF r
<1> QED
  BY <1>2, <1>3 DEF FlattenSeq

LEMMA ReadInitially == CodecInit => Read
<1> SUFFICES ASSUME CodecInit PROVE Read
  OBVIOUS
<1>1. /\ fields = <<>> /\ questions = <<>> /\ domain = <<>> /\ pc = "header"
  BY DEF CodecInit, Init
<1>2. <<>> \in Seq(Nat) /\ Len(<<>>) = 0 /\ 1..0 = {}
  OBVIOUS
<1>3. Short(TextIn(data, <<>>))
  BY NoLabels
<1> QED
  BY <1>1, <1>2, <1>3 DEF Read

LEMMA CodecInitially == CodecInit => CInv
<1>1. CodecInit => IInv /\ Resumes
  BY Initially, ResumesInitially DEF CodecInit
<1> QED
  BY <1>1, ReadInitially DEF CodecInit, CInv

\* The steps that leave the questions and the current name as they are, or begin a name
LEMMA ReadQuiet ==
  ASSUME IInv, Read, UNCHANGED packet, UNCHANGED questions, UNCHANGED fields,
         UNCHANGED domain \/ domain' = <<>>,
         pc' # "header",
         pc' \in {"name", "fields"} => Len(questions) < qd_count /\ qd_count < MaxQuestions,
         pc' = "done" => Len(questions) = qd_count /\ qd_count < MaxQuestions
  PROVE  Read'
<1>1. /\ length' = length /\ data' = data /\ qd_count' = qd_count /\ questions' = questions
      /\ fields' = fields
  BY DEF packet
<1>2. Short(TextIn(data', domain'))
  <2>1. CASE UNCHANGED domain
    BY <1>1, <2>1 DEF Read
  <2>2. CASE domain' = <<>>
    BY <2>2, NoLabels
  <2> QED
    BY <2>1, <2>2
<1>3. /\ fields' \in Seq(Nat) /\ Len(fields') = Len(questions')
      /\ \A q \in 1..Len(questions') : fields'[q] + FieldSize <= length'
      /\ \A q \in 1..Len(questions') : Short(TextIn(data', questions'[q]))
  BY <1>1 DEF Read
<1>4. /\ pc' \in {"name", "fields"} => Len(questions') < qd_count' /\ qd_count' < MaxQuestions
      /\ pc' = "done" => Len(questions') = qd_count' /\ qd_count' < MaxQuestions
  BY <1>1
<1> QED
  BY <1>2, <1>3, <1>4 DEF Read

LEMMA ReadStep == ASSUME IInv, Read, Parse PROVE Read'
<1>0. UNCHANGED packet /\ Step
  BY StepKeepsPacket DEF Parse
<1>1. /\ length \in Nat /\ offset \in Nat /\ qd_count \in Nat
      /\ data' = data /\ length' = length /\ qd_count' = qd_count
  BY <1>0 DEF IInv, WalkOK, packet
<1>2. CASE HeaderFails \/ TooManyIterations \/ PointerFails \/ LabelFails \/ FieldsFail
  <2>1. pc' = "failed" /\ UNCHANGED questions /\ UNCHANGED domain
    BY <1>2 DEF HeaderFails, TooManyIterations, PointerFails, LabelFails, FieldsFail, Fail, locals
  <2>2. fields' = fields
    BY <2>1 DEF Parse
  <2> QED
    BY <1>0, <2>1, <2>2, ReadQuiet
<1>3. CASE Header
  <2>1. questions = <<>> /\ Len(questions) = 0
    BY <1>3 DEF Header, Read
  <2>2. fields' = fields /\ UNCHANGED questions
    BY <1>3 DEF Header, Parse
  <2>3. CASE qd_count > 0
    <3>1. pc' = "name" /\ domain' = <<>> /\ qd_count < MaxQuestions
      BY <1>3, <2>3 DEF Header, CallName
    <3>2. Len(questions) < qd_count
      BY <1>1, <2>1, <2>3
    <3> QED
      BY <1>0, <2>2, <3>1, <3>2, ReadQuiet
  <2>4. CASE ~(qd_count > 0)
    <3>1. pc' = "done" /\ UNCHANGED domain /\ qd_count < MaxQuestions
      BY <1>3, <2>4 DEF Header, locals
    <3>2. Len(questions) = qd_count
      BY <1>1, <2>1, <2>4
    <3> QED
      BY <1>0, <2>2, <3>1, <3>2, ReadQuiet
  <2> QED
    BY <2>3, <2>4
<1>4. CASE RunsOff \/ Root \/ Pointer
  <2>1. pc = "name" /\ pc' \in {"name", "fields"} /\ UNCHANGED questions /\ UNCHANGED domain
    BY <1>4 DEF RunsOff, Root, Pass, Pointer, Return, locals
  <2>2. fields' = fields
    BY <2>1 DEF Parse
  <2>3. Len(questions) < qd_count /\ qd_count < MaxQuestions
    BY <2>1 DEF Read
  <2> QED
    BY <1>0, <2>1, <2>2, <2>3, ReadQuiet
<1>5. CASE Label
  <2> DEFINE p == [at |-> offset + 1, size |-> data[offset]]
  <2>1. /\ pc = "name" /\ pc' = "name" /\ questions' = questions /\ domain' = Append(domain, p)
    BY <1>5 DEF Label, Pass
  <2>2. fields' = fields
    BY <2>1 DEF Parse
  <2>3. p \in LabelPlace /\ p.at + p.size <= length
    <3>1. data[offset] \in 0..255 /\ data[offset] # 0 /\ ~(data[offset] >= 192)
      BY <1>1, <1>5, ByteAt DEF Label, Pass, IsLabel, IsPointer, IInv
    <3>2. data[offset] \in 1..191
      BY <3>1
    <3>3. offset + 1 + data[offset] <= length
      BY <1>5 DEF Label
    <3> QED
      BY <1>1, <3>2, <3>3 DEF LabelPlace
  <2> HIDE DEF p
  <2>4. Short(TextIn(data', domain'))
    <3>1. Fits(domain) /\ Short(Text(domain)) /\ WalkOK
      BY NamesFit, SameIn DEF Read, IInv
    <3>2. Short(Text(Append(domain, p)))
      BY <2>3, <3>1, TextExtended
    <3> QED
      BY <1>1, <2>1, <3>2, SameIn
  <2>5. /\ fields' \in Seq(Nat) /\ Len(fields') = Len(questions')
        /\ \A q \in 1..Len(questions') : fields'[q] + FieldSize <= length'
        /\ \A q \in 1..Len(questions') : Short(TextIn(data', questions'[q]))
    BY <1>1, <2>1, <2>2 DEF Read
  <2>6. Len(questions') < qd_count' /\ qd_count' < MaxQuestions
    BY <1>1, <2>1 DEF Read
  <2> QED
    BY <2>1, <2>4, <2>5, <2>6 DEF Read
<1>6. CASE Fields
  <2>1. /\ pc = "fields" /\ questions' = Append(questions, domain) /\ pc' # "failed"
        /\ offset + FieldSize <= length
    BY <1>6 DEF Fields, CallName
  <2>2. fields' = Append(fields, offset)
    BY <2>1 DEF Parse
  <2>3. /\ questions \in Seq(Seq(LabelPlace)) /\ domain \in Seq(LabelPlace) /\ fields \in Seq(Nat)
        /\ Len(fields) = Len(questions) /\ Len(questions) \in Nat
    BY LenProperties DEF IInv, WalkOK, Read
  <2>4. /\ Len(questions') = Len(questions) + 1 /\ questions'[Len(questions) + 1] = domain
        /\ \A q \in 1..Len(questions) : questions'[q] = questions[q]
    BY <2>1, <2>3, AppendProperties
  <2>5. /\ fields' \in Seq(Nat) /\ Len(fields') = Len(questions) + 1
        /\ fields'[Len(questions) + 1] = offset
        /\ \A q \in 1..Len(questions) : fields'[q] = fields[q]
    BY <1>1, <2>2, <2>3, AppendProperties
  <2>6. \A q \in 1..(Len(questions) + 1) : q \in 1..Len(questions) \/ q = Len(questions) + 1
    BY <2>3
  <2>7. \A q \in 1..Len(questions') : fields'[q] + FieldSize <= length'
    <3> SUFFICES ASSUME NEW q \in 1..(Len(questions) + 1) PROVE fields'[q] + FieldSize <= length
      BY <1>1, <2>4
    <3>1. CASE q \in 1..Len(questions)
      BY <2>5, <3>1 DEF Read
    <3>2. CASE q = Len(questions) + 1
      BY <2>1, <2>5, <3>2
    <3> QED
      BY <2>6, <3>1, <3>2
  <2>8. \A q \in 1..Len(questions') : Short(TextIn(data', questions'[q]))
    <3> SUFFICES ASSUME NEW q \in 1..(Len(questions) + 1) PROVE Short(TextIn(data, questions'[q]))
      BY <1>1, <2>4
    <3>1. CASE q \in 1..Len(questions)
      BY <2>4, <3>1 DEF Read
    <3>2. CASE q = Len(questions) + 1
      BY <2>4, <3>2 DEF Read
    <3> QED
      BY <2>6, <3>1, <3>2
  <2>9. Len(questions) < qd_count /\ qd_count < MaxQuestions
    BY <2>1 DEF Read
  <2>10. CASE Len(questions) + 1 < qd_count
    <3>1. pc' = "name" /\ domain' = <<>>
      BY <1>6, <2>10 DEF Fields, CallName
    <3>2. Short(TextIn(data', domain'))
      BY <3>1, NoLabels
    <3> QED
      BY <1>1, <2>4, <2>5, <2>7, <2>8, <2>9, <2>10, <3>1, <3>2 DEF Read
  <2>11. CASE ~(Len(questions) + 1 < qd_count)
    <3>1. pc' = "done" /\ domain' = domain
      BY <1>6, <2>11 DEF Fields, locals
    <3>2. Short(TextIn(data', domain'))
      BY <1>1, <3>1 DEF Read
    <3>3. Len(questions) + 1 = qd_count
      BY <1>1, <2>3, <2>9, <2>11
    <3> QED
      BY <1>1, <2>4, <2>5, <2>7, <2>8, <2>9, <3>1, <3>2, <3>3 DEF Read
  <2> QED
    BY <2>10, <2>11
<1> QED
  BY <1>0, <1>2, <1>3, <1>4, <1>5, <1>6 DEF Step

-----------------------------------------------------------------------------
(* The client's steps                                                      *)

\* What the client is reading, when it reads a question
LEMMA TheQuestion ==
  ASSUME IInv, Read, Answered, pc \in {"name", "fields"}
  PROVE  /\ Current \in 1..Len(asked) /\ Asking(asked)
         /\ asked[Current].name \in Octets /\ Short(asked[Current].name)
         /\ RootAt(asked, Current) \in Nat
         /\ RootAt(asked, Current) + 1 + FieldSize <= length
         /\ data[RootAt(asked, Current)] = 0
         /\ BytesIn(data, RootAt(asked, Current) + 1, FieldSize) = asked[Current].field
         /\ Place(asked, Current + 1) = RootAt(asked, Current) + 1 + FieldSize
<1>1. Asking(asked) /\ Sent /\ WalkOK
  BY SameIn DEF Answered, Sent, IInv
<1>2. Current \in 1..Len(asked)
  <2>1. Len(questions) < Len(asked)
    BY DEF Read, Answered
  <2>2. Len(questions) \in Nat /\ Len(asked) \in Nat
    <3>1. questions \in Seq(Seq(LabelPlace))
      BY <1>1 DEF WalkOK
    <3> QED
      BY <1>1, <3>1, AskingIs, LenProperties
  <2> QED
    BY <2>1, <2>2 DEF Current
<1> DEFINE c == Current
<1> HIDE DEF c
<1>3. c \in 1..Len(asked)
  BY <1>2 DEF c
<1>4. asked[c].name \in Octets /\ Short(asked[c].name)
  BY <1>1, <1>3, AskingIs
<1>5. RootAt(asked, c) \in Nat /\ Place(asked, c + 1) = RootAt(asked, c) + 1 + FieldSize
  BY <1>1, <1>3, PlaceIs
<1>6. /\ RootAt(asked, c) + 1 + FieldSize <= length
      /\ data[RootAt(asked, c)] = 0
      /\ BytesIn(data, RootAt(asked, c) + 1, FieldSize) = asked[c].field
  BY <1>1, <1>3, Layout, SameIn
<1> QED
  BY <1>1, <1>3, <1>4, <1>5, <1>6 DEF c

\* A question's name begins where the client goes on.
LEMMA NextName ==
  ASSUME IInv, Answered, NEW q \in 1..Len(asked)
  PROVE  InName(data, length, asked[q].name, RootAt(asked, q), Place(asked, q), <<>>, 0)
<1>1. Asking(asked) /\ Sent /\ WalkOK
  BY SameIn DEF Answered, Sent, IInv
<1>2. asked[q].name \in Octets /\ Short(asked[q].name)
  BY <1>1, AskingIs
<1>3. Place(asked, q) \in Nat
  <2>1. q \in 1..(Len(asked) + 1)
    BY <1>1, AskingIs
  <2> QED
    BY <1>1, <2>1, PlaceIs
<1>4. Holds(Place(asked, q), LabelledFrom(asked[q].name)[1])
  BY <1>1, Layout
<1>5. Place(asked, q) + Len(LabelledFrom(asked[q].name)[1]) = RootAt(asked, q)
  BY DEF RootAt, Labelled
<1> QED
  BY <1>1, <1>2, <1>3, <1>4, <1>5, NameBegins

\* What the client finds next in a name
LEMMA WhatIsNext ==
  ASSUME IInv, Read, Answered, Again, pc = "name"
  PROVE  /\ ~jumped /\ offset < length
         /\ iterations <= Cardinality(PartStarts(asked[Current].name))
         /\ \/ /\ data[offset] = 0 /\ offset = RootAt(asked, Current)
               /\ TextIn(data, domain) = Squeezed(asked[Current].name)
            \/ /\ data[offset] \in 1..191
               /\ offset + 1 + data[offset] <= length
               /\ InName(data, length, asked[Current].name, RootAt(asked, Current),
                         offset + 1 + data[offset],
                         Append(domain, [at |-> offset + 1, size |-> data[offset]]),
                         iterations + 1)
<1> DEFINE s == asked[Current].name
           root == RootAt(asked, Current)
<1>1. /\ s \in Octets /\ Short(s) /\ root \in Nat /\ root + 1 + FieldSize <= length
      /\ data[root] = 0
  BY TheQuestion
<1>2. ~jumped /\ InName(data, length, s, root, offset, domain, iterations)
  BY DEF Again
<1>3. WalkOK /\ Fits(domain)
  BY NamesFit DEF IInv
<1> HIDE DEF s, root
<1>4. root < length
  BY <1>1, <1>3, ParserAssumption DEF WalkOK
<1>5. /\ offset < length /\ iterations <= Cardinality(PartStarts(s))
      /\ \/ /\ data[offset] = 0 /\ offset = root
            /\ TextIn(data, domain) = Squeezed(s)
         \/ /\ data[offset] \in 1..191
            /\ offset + 1 + data[offset] <= length
            /\ InName(data, length, s, root, offset + 1 + data[offset],
                      Append(domain, [at |-> offset + 1, size |-> data[offset]]),
                      iterations + 1)
  BY <1>1, <1>2, <1>3, <1>4, NameGoesOn
<1> QED
  BY <1>2, <1>5 DEF s, root

LEMMA AgainStep ==
  ASSUME IInv, Read, Answered, Again, Parse
  PROVE  Again'
<1> USE ParserAssumption
<1>0. UNCHANGED packet /\ Step
  BY StepKeepsPacket DEF Parse
<1>1. /\ length \in Nat /\ offset \in Nat /\ qd_count \in Nat /\ iterations \in Nat
      /\ data' = data /\ length' = length /\ qd_count' = qd_count /\ asked' = asked
      /\ questions \in Seq(Seq(LabelPlace)) /\ Len(questions) \in Nat
  BY <1>0, LenProperties DEF IInv, WalkOK, packet, Parse
<1>2. Asking(asked) /\ Sent /\ Len(asked) \in Nat \ {0} /\ HeaderSize <= length
  BY Layout, AskingIs, SameIn DEF Answered, Sent, IInv
<1>3. CASE HeaderFails
  BY <1>1, <1>2, <1>3 DEF HeaderFails, Answered
<1>4. CASE Header
  <2>1. questions = <<>> /\ Len(questions) = 0
    BY <1>4 DEF Header, Read
  <2>2. CallName(HeaderSize) /\ questions' = questions
    BY <1>2, <1>4 DEF Header, Answered
  <2>3. pc' = "name" /\ offset' = HeaderSize /\ jumped' = FALSE /\ iterations' = 0 /\ domain' = <<>>
    BY <2>2 DEF CallName
  <2>4. Current' = 1 /\ Place(asked, 1) = HeaderSize /\ 1 \in 1..Len(asked)
    BY <1>2, <2>1, <2>2, PlaceIs DEF Current
  <2>5. InName(data, length, asked[1].name, RootAt(asked, 1), HeaderSize, <<>>, 0)
    BY <2>4, NextName
  <2>6. \A q \in 1..Len(questions') : q \in {}
    BY <2>1, <2>2
  <2> QED
    BY <1>1, <2>3, <2>4, <2>5, <2>6 DEF Again
<1>5. CASE RunsOff
  BY <1>1, <1>5, WhatIsNext DEF RunsOff
<1>6. CASE TooManyIterations
  <2>1. /\ pc = "name" /\ pc' = "failed" /\ iterations >= MaxIterations /\ questions' = questions
    BY <1>6 DEF TooManyIterations, Pass, Fail
  <2>2. Current \in 1..Len(asked)
    BY <2>1, TheQuestion
  <2>3. iterations <= Cardinality(PartStarts(asked[Current].name))
    BY <2>1, WhatIsNext
  <2>4. Cardinality(PartStarts(asked[Current].name)) \in Nat
    <3>1. asked[Current].name \in Octets
      BY <2>1, TheQuestion
    <3> QED
      BY <3>1, PartsAreFinite
  <2>5. Cardinality(PartStarts(asked[Current].name)) >= MaxIterations
    BY <1>1, <2>1, <2>3, <2>4
  <2>6. fields' = fields
    BY <2>1 DEF Parse
  <2> QED
    BY <1>1, <2>1, <2>2, <2>5, <2>6 DEF Again
<1>7. CASE Root
  <2>1. /\ pc = "name" /\ data[offset] = 0 /\ pc' = "fields" /\ questions' = questions
        /\ offset' = (IF jumped THEN original_offset ELSE offset + 1) /\ domain' = domain
    BY <1>7 DEF Root, Pass, Return, locals
  <2>2. ~jumped /\ offset = RootAt(asked, Current) /\ TextIn(data, domain) = Squeezed(asked[Current].name)
    <3>1. ~(0 \in 1..191)
      OBVIOUS
    <3> QED
      BY <2>1, <3>1, WhatIsNext
  <2>3. fields' = fields
    BY <2>1 DEF Parse
  <2>4. Current' = Current
    BY <2>1 DEF Current
  <2> QED
    BY <1>1, <2>1, <2>2, <2>3, <2>4 DEF Again
<1>8. CASE PointerFails \/ Pointer
  <2>1. pc = "name" /\ data[offset] >= 192
    BY <1>8 DEF PointerFails, Pointer, Pass, IsPointer
  <2>2. data[offset] = 0 \/ data[offset] \in 1..191
    BY <2>1, WhatIsNext
  <2>3. ~(0 >= 192) /\ \A b \in 1..191 : ~(b >= 192)
    OBVIOUS
  <2> QED
    BY <2>1, <2>2, <2>3
<1>9. CASE LabelFails
  <2>1. pc = "name" /\ data[offset] # 0 /\ offset + 1 + data[offset] > length
    BY <1>9 DEF LabelFails, Pass, IsLabel
  <2>2. data[offset] \in 1..191 /\ offset + 1 + data[offset] <= length
    BY <2>1, WhatIsNext
  <2>3. \A b \in 1..191 : b \in Nat
    OBVIOUS
  <2>4. data[offset] \in Nat
    BY <2>2, <2>3
  <2> QED
    BY <1>1, <2>1, <2>2, <2>4
<1>10. CASE Label
  <2>1. /\ pc = "name" /\ pc' = "name" /\ data[offset] # 0 /\ questions' = questions
        /\ offset' = offset + 1 + data[offset] /\ iterations' = iterations + 1
        /\ domain' = Append(domain, [at |-> offset + 1, size |-> data[offset]])
        /\ jumped' = jumped
    BY <1>10 DEF Label, Pass, IsLabel
  <2>2. /\ ~jumped
        /\ InName(data, length, asked[Current].name, RootAt(asked, Current),
                  offset + 1 + data[offset],
                  Append(domain, [at |-> offset + 1, size |-> data[offset]]),
                  iterations + 1)
    BY <2>1, WhatIsNext
  <2>3. fields' = fields
    BY <2>1 DEF Parse
  <2>4. Current' = Current
    BY <2>1 DEF Current
  <2> QED
    BY <1>1, <2>1, <2>2, <2>3, <2>4 DEF Again
<1>11. CASE FieldsFail
  <2>1. pc = "fields" /\ offset + FieldSize > length
    BY <1>11 DEF FieldsFail
  <2>2. offset = RootAt(asked, Current) + 1
    BY <2>1 DEF Again
  <2>3. RootAt(asked, Current) \in Nat /\ RootAt(asked, Current) + 1 + FieldSize <= length
    BY <2>1, TheQuestion
  <2> QED
    BY <1>1, <2>1, <2>2, <2>3
<1>12. CASE Fields
  <2> DEFINE n == Len(questions)
             c == n + 1
  <2>1. pc = "fields" /\ questions' = Append(questions, domain) /\ pc' # "failed"
    BY <1>12 DEF Fields, CallName
  <2>2. fields' = Append(fields, offset) /\ fields \in Seq(Nat) /\ Len(fields) = n
    BY <2>1 DEF Parse, Read
  <2>3. /\ TextIn(data, domain) = Squeezed(asked[c].name) /\ offset = RootAt(asked, c) + 1
    BY <2>1 DEF Again, Current
  <2>4. /\ c \in 1..Len(asked) /\ RootAt(asked, c) \in Nat
        /\ BytesIn(data, offset, FieldSize) = asked[c].field
        /\ Place(asked, c + 1) = RootAt(asked, c) + 1 + FieldSize
    BY <2>1, <2>3, TheQuestion DEF Current
  <2>5. domain \in Seq(LabelPlace)
    BY DEF IInv, WalkOK
  <2>6. /\ Len(questions') = c /\ questions'[c] = domain
        /\ \A q \in 1..n : questions'[q] = questions[q]
    BY <1>1, <2>1, <2>5, AppendProperties
  <2>7. fields'[c] = offset /\ \A q \in 1..n : fields'[q] = fields[q]
    BY <1>1, <2>2, AppendProperties
  <2>8. \A q \in 1..Len(questions') :
          /\ TextIn(data', questions'[q]) = Squeezed(asked'[q].name)
          /\ BytesIn(data', fields'[q], FieldSize) = asked'[q].field
    <3> SUFFICES ASSUME NEW q \in 1..c
                 PROVE  /\ TextIn(data, questions'[q]) = Squeezed(asked[q].name)
                        /\ BytesIn(data, fields'[q], FieldSize) = asked[q].field
      BY <1>1, <2>6
    <3>1. q \in 1..n \/ q = c
      BY <1>1
    <3>2. CASE q \in 1..n
      BY <2>6, <2>7, <3>2 DEF Again
    <3>3. CASE q = c
      BY <2>3, <2>4, <2>6, <2>7, <3>3
    <3> QED
      BY <3>1, <3>2, <3>3
  <2>9. offset + FieldSize = Place(asked, c + 1)
    BY <2>3, <2>4
  <2>10. qd_count = Len(asked)
    BY DEF Answered
  <2>11. CASE c < qd_count
    <3>1. CallName(offset + FieldSize)
      BY <1>12, <2>11 DEF Fields
    <3>2. /\ pc' = "name" /\ offset' = Place(asked, c + 1) /\ jumped' = FALSE /\ iterations' = 0
          /\ domain' = <<>>
      BY <2>9, <3>1 DEF CallName
    <3>3. c + 1 \in 1..Len(asked) /\ Current' = c + 1
      BY <1>1, <1>2, <2>6, <2>10, <2>11 DEF Current
    <3>4. InName(data, length, asked[c + 1].name, RootAt(asked, c + 1), Place(asked, c + 1), <<>>, 0)
      BY <3>3, NextName
    <3> HIDE DEF c
    <3> QED
      BY <1>1, <2>8, <3>2, <3>3, <3>4 DEF Again
  <2>12. CASE ~(c < qd_count)
    <3>1. pc' = "done" /\ offset' = offset + FieldSize
      BY <1>12, <2>12 DEF Fields
    <3>2. c = Len(asked)
      BY <1>1, <1>2, <2>4, <2>10, <2>12
    <3> QED
      BY <1>1, <2>8, <2>9, <3>1, <3>2 DEF Again
  <2> QED
    BY <2>11, <2>12
<1> QED
  BY <1>0, <1>3, <1>4, <1>5, <1>6, <1>7, <1>8, <1>9, <1>10, <1>11, <1>12 DEF Step

-----------------------------------------------------------------------------
(* The response is made                                                    *)

\* What the server read can be asked again.
LEMMA QuestionsAsked ==
  ASSUME IInv, Read, questions # <<>>
  PROVE  Asking(Questions) /\ Len(Questions) = Len(questions)
<1> DEFINE n == Len(questions)
           T == [name : Octets, field : Octets]
<1>1. WalkOK /\ questions \in Seq(Seq(LabelPlace)) /\ n \in Nat \ {0}
  <2>1. WalkOK /\ questions \in Seq(Seq(LabelPlace))
    BY DEF IInv, WalkOK
  <2> QED
    BY <2>1, EmptySeq
<1>2. FieldSize \in Nat
  BY ParserAssumption
<1>3. ASSUME NEW q \in 1..n
      PROVE  /\ Text(questions[q]) \in Octets /\ Short(Text(questions[q]))
             /\ BytesAt(fields[q], FieldSize) \in Octets
             /\ Len(BytesAt(fields[q], FieldSize)) = FieldSize
  <2>1. Fits(questions[q])
    BY NamesFit
  <2>2. Text(questions[q]) \in Octets
    BY <1>1, <2>1, TextType
  <2>3. Short(Text(questions[q]))
    BY SameIn DEF Read
  <2>4. fields[q] \in Nat /\ fields[q] + FieldSize <= length
    <3>1. fields \in Seq(Nat) /\ Len(fields) = n
      BY DEF Read
    <3> QED
      BY <3>1, ElementOfSeq DEF Read
  <2> QED
    BY <1>1, <1>2, <2>2, <2>3, <2>4, BytesAtType
<1>4. /\ \A q \in 1..n : Questions[q] = [name |-> Text(questions[q]),
                                         field |-> BytesAt(fields[q], FieldSize)]
      /\ Questions = [q \in 1..n |-> Questions[q]]
  BY DEF Questions
<1>5. \A q \in 1..n : Questions[q] \in T
  BY <1>3, <1>4
<1> DEFINE a == Questions
<1> HIDE DEF a
<1>6. a \in [1..n -> T]
  BY <1>4, <1>5 DEF a
<1>7. a \in Seq(T) /\ Len(a) = n
  <2> HIDE DEF T, n
  <2> QED
    BY <1>1, <1>6
<1>8. a # <<>>
  BY <1>1, <1>7, EmptySeq
<1>9. \A q \in 1..n : Short(a[q].name) /\ Len(a[q].field) = FieldSize
  BY <1>3, <1>4 DEF a
<1> QED
  BY <1>7, <1>8, <1>9 DEF Asking, a

LEMMA RespondStep ==
  ASSUME CInv, Respond
  PROVE  CInv'
<1> USE ParserAssumption
<1>1. IInv /\ Read /\ pc = "done" /\ questions # <<>>
  BY DEF CInv, Respond
<1>2. PICK a : a = Questions
  OBVIOUS
<1>3. Asking(a) /\ Len(a) = Len(questions) /\ qd_count = Len(a) /\ Len(a) < MaxQuestions
      /\ Len(a) \in Nat
  <2>1. Asking(a) /\ Len(a) = Len(questions)
    BY <1>1, <1>2, QuestionsAsked
  <2> QED
    BY <1>1, <2>1, AskingIs DEF Read
<1> DEFINE b == Response(a)
<1>4. b \in Seq(0..255) /\ Len(b) \in Nat /\ \A k \in 1..Len(b) : b[k] \in 0..255
  <2>1. b \in Seq(0..255)
    BY <1>3, ResponseType DEF Octets, Octet
  <2> HIDE DEF b
  <2> QED
    BY <2>1, LenProperties, ElementOfSeq
<1>5. /\ side' = "client" /\ asked' = a /\ an_count' = Answers(a).number
      /\ data' = [i \in 0..(Len(b) - 1) |-> b[i + 1]] /\ length' = Len(b)
      /\ qd_count' = Len(a)
  BY <1>2, <1>3 DEF Respond
<1>6. /\ pc' = "header" /\ offset' = 0 /\ start' = 0 /\ touched' = 0
      /\ jumped' = FALSE /\ original_offset' = 0 /\ iterations' = 0 /\ domain' = <<>>
      /\ questions' = <<>> /\ fields' = <<>>
  BY DEF Respond
<1> HIDE DEF b
<1>7. data' \in [0..(length' - 1) -> 0..255] /\ \A k \in 1..Len(b) : data'[0 + k - 1] = b[k]
  <2>1. ASSUME NEW i \in 0..(Len(b) - 1) PROVE b[i + 1] \in 0..255
    <3>1. i + 1 \in 1..Len(b)
      BY <1>4
    <3> QED
      BY <1>4, <3>1
  <2>2. data' \in [0..(length' - 1) -> 0..255]
    BY <1>5, <2>1
  <2>3. \A k \in 1..Len(b) : 0 + k - 1 \in 0..(Len(b) - 1) /\ (0 + k - 1) + 1 = k
    BY <1>4
  <2>4. \A i \in 0..(Len(b) - 1) : data'[i] = b[i + 1]
    BY <1>5
  <2> QED
    BY <2>2, <2>3, <2>4
<1>8. <<>> \in Seq(LabelPlace) /\ <<>> \in Seq(Seq(LabelPlace)) /\ <<>> \in Seq(Nat) /\ Len(<<>>) = 0
      /\ 1..0 = {}
  OBVIOUS
<1>9. IInv'
  <2>1. WalkOK'
    BY <1>3, <1>4, <1>5, <1>6, <1>7, <1>8 DEF WalkOK
  <2>2. NoReadPastEnd'
    BY <1>4, <1>5, <1>6 DEF NoReadPastEnd
  <2>3. NamesInPacket'
    BY <1>6, <1>8, EmptyName DEF NamesInPacket
  <2>4. (Len(domain) <= iterations)'
    BY <1>6, <1>8
  <2> QED
    BY <2>1, <2>2, <2>3, <2>4 DEF IInv
<1>10. Resumes'
  BY <1>6 DEF Resumes
<1>11. Read'
  <2>1. Short(TextIn(data', domain'))
    BY <1>6, NoLabels
  <2> QED
    BY <1>6, <1>8, <2>1 DEF Read
<1>12. Answered'
  <2>1. length' = Len(Response(a)) /\ HoldsIn(data', length', 0, Response(a))
    BY <1>4, <1>5, <1>7 DEF HoldsIn, b
  <2> QED
    BY <1>3, <1>5, <2>1 DEF Answered
<1>13. Again'
  BY <1>6, <1>8 DEF Again
<1> QED
  BY <1>5, <1>9, <1>10, <1>11, <1>12, <1>13 DEF CInv

LEMMA ParseStep ==
  ASSUME CInv, Parse
  PROVE  CInv'
<1>1. IInv /\ Resumes /\ Read /\ WalkOK /\ Step
  BY DEF CInv, IInv, Parse
<1>2. IInv' /\ Resumes' /\ Read'
  BY <1>1, Inductive, ResumesStep, ReadStep
<1>3. UNCHANGED packet /\ side' = side /\ an_count' = an_count /\ asked' = asked
  BY <1>1, StepKeepsPacket DEF Parse
<1>4. ASSUME side = "client" PROVE Answered' /\ Again'
  <2>1. Answered /\ Again
    BY <1>4 DEF CInv
  <2>2. Answered'
    BY <1>3, <2>1 DEF Answered, packet
  <2> QED
    BY <1>1, <2>1, <2>2, AgainStep
<1> QED
  BY <1>2, <1>3, <1>4 DEF CInv

-----------------------------------------------------------------------------
(* The theorems                                                            *)

LEMMA StuttersIn == CInv /\ UNCHANGED allVars => CInv'
<1> SUFFICES ASSUME CInv, UNCHANGED allVars PROVE CInv'
  OBVIOUS
<1>1. /\ UNCHANGED vars /\ UNCHANGED packet
      /\ side' = side /\ fields' = fields /\ an_count' = an_count /\ asked' = asked
  BY DEF allVars, vars, codecVars, packet
<1>2. IInv'
  BY <1>1, Inductive DEF CInv
<1>3. Resumes'
  <2>1. EndsAt' = EndsAt
    BY <1>1, EndsStay
  <2> QED
    BY <1>1, <2>1 DEF CInv, vars, Resumes
<1>4. Read'
  BY <1>1 DEF CInv, vars, Read
<1>5. side = "client" => Answered' /\ Again'
  <2>1. Answered => Answered'
    BY <1>1 DEF Answered, vars
  <2>2. Current' = Current
    BY <1>1 DEF Current, vars
  <2>3. Again => Again'
    BY <1>1, <2>2 DEF Again, vars
  <2> QED
    BY <2>1, <2>3 DEF CInv
<1> QED
  BY <1>1, <1>2, <1>3, <1>4, <1>5 DEF CInv

\* The inductive invariant holds in every state.
THEOREM CodecInvariant == CodecSpec => []CInv
<1>1. CInv /\ [CodecNext]_allVars => CInv'
  BY ParseStep, RespondStep, StuttersIn DEF CodecNext, CodecEnded
<1> QED
  BY <1>1, CodecInitially, PTL DEF CodecSpec

\* The parser reads no byte behind the end of a query, nor of the response it is sent.
THEOREM CodecStaysInPacket == CodecSpec => []NoReadPastEnd
<1>1. CInv => NoReadPastEnd
  BY DEF CInv, IInv
<1> QED
  BY <1>1, CodecInvariant, PTL

\* The labels of every name lie in the packet that is parsed and are at most
\* MAX_ITERATIONS, on both sides.
THEOREM CodecNamesInPacket == CodecSpec => []NamesInPacket
<1>1. CInv => NamesInPacket
  BY DEF CInv, IInv
<1> QED
  BY <1>1, CodecInvariant, PTL

\* On both sides the parser goes on behind the name or its first pointer.
THEOREM CodecGoesOnBehindName == CodecSpec => []ResumesAfterName
<1>1. CInv => ResumesAfterName
  BY DEF CInv, Resumes, ResumesAfterName
<1> QED
  BY <1>1, CodecInvariant, PTL

LEMMA QuestionsComeBack == CInv => SameQuestions
<1> SUFFICES ASSUME CInv, side = "client", pc = "done"
             PROVE  Questions = [q \in 1..Len(asked) |-> [asked[q] EXCEPT !.name = Squeezed(@)]]
  BY DEF SameQuestions
<1>1. /\ Len(questions) = Len(asked) /\ Asking(asked)
      /\ \A q \in 1..Len(questions) : /\ TextIn(data, questions[q]) = Squeezed(asked[q].name)
                                      /\ BytesIn(data, fields[q], FieldSize) = asked[q].field
  BY DEF CInv, Read, Answered, Again
<1>2. ASSUME NEW q \in 1..Len(asked)
      PROVE  [name |-> Text(questions[q]), field |-> BytesAt(fields[q], FieldSize)]
               = [asked[q] EXCEPT !.name = Squeezed(@)]
  <2>1. asked[q] \in [name : Octets, field : Octets]
    BY <1>1, AskingIs
  <2>2. /\ Text(questions[q]) = Squeezed(asked[q].name)
        /\ BytesAt(fields[q], FieldSize) = asked[q].field
    BY <1>1, SameIn
  <2> DEFINE r == asked[q]
             x == Squeezed(r.name)
  <2>3. \A t \in [name : Octets, field : Octets] : \A y :
          [name |-> y, field |-> t.field] = [t EXCEPT !.name = y]
    OBVIOUS
  <2> HIDE DEF x
  <2>4. [name |-> x, field |-> r.field] = [r EXCEPT !.name = x]
    BY <2>1, <2>3
  <2> QED
    BY <2>2, <2>4 DEF x
<1> QED
  BY <1>1, <1>2 DEF Questions

\* The questions of the response are those of the query: the same names without the
\* empty parts that a dot inside of a label makes, and the same types, for every
\* query (dns_packet.cpp, lines 77-92, 195-200, 283-287).
THEOREM SameQuestionsAsked == CodecSpec => []SameQuestions
BY QuestionsComeBack, CodecInvariant, PTL

\* A response cannot be read only if dots inside of a label make a name of more
\* labels than the parser takes.
THEOREM ReadableResponse == CodecSpec => []ResponseReadable
<1>1. CInv => ResponseReadable
  BY DEF CInv, Again, ResponseReadable
<1> QED
  BY <1>1, CodecInvariant, PTL

LEMMA AnswersBehind == CInv => AnswersFit
<1> SUFFICES ASSUME CInv, side = "client", pc = "done" PROVE AnswersFit
  BY DEF AnswersFit
<1> USE CodecAssumption
<1> DEFINE b == Answers(asked).bytes
           asks == Questions[1].field[1]
<1>1. /\ IInv /\ Asking(asked) /\ Sent /\ an_count = Answers(asked).number
      /\ offset = Place(asked, Len(asked) + 1) /\ WalkOK
  BY SameIn DEF CInv, Answered, Again, Sent, IInv
<1>0. Len(questions) = Len(asked)
  BY DEF CInv, Read, Answered, Again
<1>2. length = offset + Len(b) /\ Holds(offset, b)
  BY <1>1, Layout
<1>3. asks = asked[1].field[1]
  <2>1. Questions = [q \in 1..Len(asked) |-> [asked[q] EXCEPT !.name = Squeezed(@)]]
    BY QuestionsComeBack DEF SameQuestions
  <2>2. 1 \in 1..Len(asked) /\ asked[1] \in [name : Octets, field : Octets]
    BY <1>1, AskingIs
  <2>3. \A t \in [name : Octets, field : Octets] : \A y : [t EXCEPT !.name = y].field = t.field
    OBVIOUS
  <2> QED
    BY <2>1, <2>2, <2>3
<1>4. an_count = IF asks \in {TypeA, TypeAAAA} THEN Len(questions) ELSE 0
  BY <1>0, <1>1, <1>3, AnswersIs
<1>5. PICK type \in {TypeA, TypeAAAA} : /\ Pointers(b, an_count, type, SizeOf(type))
                                        /\ an_count # 0 => type = asks
  BY <1>1, <1>3, AnswersIs
<1> HIDE DEF b, asks
<1>6. offset \in Nat /\ 2 + SizeOf(type) \in Nat /\ 2 + SizeOf(type) >= 3
  BY <1>1 DEF WalkOK, SizeOf
<1> DEFINE w == 2 + SizeOf(type)
<1>7. /\ an_count \in Nat /\ Len(b) = an_count * w
      /\ \A m \in 0..(an_count - 1) : /\ b[m * w + 1] = 192 /\ b[m * w + 2] = HeaderSize
                                      /\ b[m * w + 3] = type
  BY <1>5 DEF Pointers
<1>8. ASSUME NEW m \in 0..(an_count - 1)
      PROVE  /\ IsPointer(data[offset + m * w])
             /\ Target(data[offset + m * w], data[offset + m * w + 1]) = HeaderSize
             /\ data[offset + m * w + 2] = type
  <2>1. m \in Nat /\ m < an_count
    BY <1>7
  <2>2. m * w \in Nat /\ m * w + w <= an_count * w /\ an_count * w \in Nat /\ w >= 3
    BY <1>6, <1>7, <2>1, Times
  <2> DEFINE x == m * w
  <2>3. b[x + 1] = 192 /\ b[x + 2] = HeaderSize /\ b[x + 3] = type
    BY <1>7
  <2>4. x \in Nat /\ x + 1 \in 1..Len(b) /\ x + 2 \in 1..Len(b) /\ x + 3 \in 1..Len(b)
    <3>1. x \in Nat /\ x + w <= Len(b) /\ Len(b) \in Nat /\ w \in Nat /\ w >= 3
      BY <1>6, <1>7, <2>2
    <3> HIDE DEF x, w
    <3> QED
      BY <3>1
  <2> HIDE DEF x
  <2>5. /\ data[offset + (x + 1) - 1] = 192 /\ data[offset + (x + 2) - 1] = HeaderSize
        /\ data[offset + (x + 3) - 1] = type
    BY <1>2, <2>3, <2>4 DEF Holds
  <2>6. /\ offset + (x + 1) - 1 = offset + x /\ offset + (x + 2) - 1 = offset + x + 1
        /\ offset + (x + 3) - 1 = offset + x + 2
    BY <1>6, <2>4
  <2>7. data[offset + x] = 192 /\ data[offset + x + 1] = HeaderSize /\ data[offset + x + 2] = type
    BY <2>5, <2>6
  <2>8. IsPointer(192) /\ Target(192, HeaderSize) = HeaderSize
    BY DEF IsPointer, Target
  <2> QED
    BY <2>7, <2>8 DEF x
<1>9. an_count = 1 => /\ IsPointer(data[offset])
                      /\ Target(data[offset], data[offset + 1]) = HeaderSize
  <2> SUFFICES ASSUME an_count = 1
               PROVE  IsPointer(data[offset]) /\ Target(data[offset], data[offset + 1]) = HeaderSize
    OBVIOUS
  <2>1. 0 \in 0..(an_count - 1) /\ 0 * w = 0
    BY <1>6
  <2> HIDE DEF w
  <2>2. offset + 0 * w = offset
    BY <1>6, <2>1
  <2> QED
    BY <1>8, <2>1, <2>2
<1>10. /\ length = offset + an_count * w
       /\ \A m \in 0..(an_count - 1) : data[offset + m * w + 2] = type
       /\ an_count = 1 => type = asks
  BY <1>2, <1>5, <1>7, <1>8
<1> QED
  BY <1>4, <1>9, <1>10 DEF AnswersFit, asks

\* Behind the questions of a response are as many answers as ANCOUNT says and nothing
\* else, one for each question or none, all of one type and its length; a single question
\* is answered by its name and type (lines 190, 203-230, 247-300).
THEOREM AnswersBehindQuestions == CodecSpec => []AnswersFit
BY AnswersBehind, CodecInvariant, PTL

\* On both sides each step of the parser takes one of the bounded number that is left
\* (WorkIsBounded of PacketParserProofs), also when the server's response is parsed:
\* the number that it announces is that of the questions read.
THEOREM ReadingIsBounded ==
  CodecSpec => [](StepsLeft \in Nat) /\ [][Parse => StepsLeft' < StepsLeft]_allVars
<1>1. CodecInit => PassesCounted
  BY DEF CodecInit, Init, PassesCounted
<1>2. CInv => WalkOK
  BY DEF CInv, IInv
<1>3. WalkOK /\ PassesCounted /\ Parse => PassesCounted' /\ StepsLeft' < StepsLeft
  BY PassesCountedStep, StepTakesOne DEF Parse
<1>4. WalkOK /\ Respond => PassesCounted'
  <2> SUFFICES ASSUME WalkOK, Respond PROVE PassesCounted'
    OBVIOUS
  <2>1. Len(questions) \in Nat /\ qd_count' = Len(questions) /\ questions' = <<>> /\ pc' = "header"
    BY LenProperties DEF WalkOK, Respond
  <2>2. Len(questions') = 0
    BY <2>1
  <2> QED
    BY <2>1, <2>2 DEF PassesCounted
<1>5. PassesCounted /\ UNCHANGED allVars => PassesCounted'
  BY DEF PassesCounted, allVars, vars
<1>6. CodecSpec => []PassesCounted
  <2>1. CInv /\ PassesCounted /\ [CodecNext]_allVars => PassesCounted'
    BY <1>2, <1>3, <1>4, <1>5 DEF CodecNext, CodecEnded
  <2> QED
    BY <1>1, <2>1, CodecInvariant, PTL DEF CodecSpec
<1>7. CInv /\ PassesCounted /\ [CodecNext]_allVars => [Parse => StepsLeft' < StepsLeft]_allVars
  BY <1>2, <1>3
<1>8. CInv /\ PassesCounted => StepsLeft \in Nat
  BY <1>2, StepsLeftIs
<1> QED
  BY <1>6, <1>7, <1>8, CodecInvariant, PTL DEF CodecSpec
=============================================================================
