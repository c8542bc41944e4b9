------------------------- MODULE PacketParserProofs -------------------------
(***************************************************************************)
(* The parser keeps inside the packet and finds its way back behind every  *)
(* name, for every packet and all sizes.                                   *)
(*                                                                         *)
(* The inductive invariant adds to the type invariant that a name never    *)
(* has more labels than passes of the loop were counted: the guard on the  *)
(* passes then bounds the labels, also where pointers form a cycle.        *)
(***************************************************************************)
EXTENDS PacketParser, WellFoundedInduction, TLAPS

\* The type invariant for a packet of any length and any number of questions
WalkOK ==
  /\ length \in Nat /\ data \in [0..(length - 1) -> 0..255] /\ qd_count \in Nat
  /\ pc \in {"header", "name", "fields", "done", "failed"}
  /\ offset \in Nat /\ jumped \in BOOLEAN /\ original_offset \in Nat
  /\ iterations \in Nat
  /\ domain \in Seq(LabelPlace) /\ questions \in Seq(Seq(LabelPlace))
  /\ start \in Nat /\ touched \in Nat

\* Until a pointer is followed, the name still ends where it did; then its end is kept.
Resumes ==
  /\ pc = "name" /\ ~jumped => EndsAt[offset] = EndsAt[start]
  /\ pc = "name" /\ jumped => original_offset = EndsAt[start]
  /\ pc = "fields" => offset = EndsAt[start]

IInv == WalkOK /\ NoReadPastEnd /\ NamesInPacket /\ Len(domain) <= iterations

\* A byte that is used as an index or a size is a small number.
LEMMA ByteAt ==
  ASSUME WalkOK, NEW i \in Nat, i < length
  PROVE  data[i] \in 0..255
<1>1. length \in Nat /\ i \in 0..(length - 1)  BY DEF WalkOK
<1> QED  BY <1>1 DEF WalkOK

LEMMA TargetIsOffset ==
  ASSUME NEW b \in 0..255, NEW c \in 0..255
  PROVE  Target(b, c) \in Nat
<1>1. b % 64 \in 0..63  OBVIOUS
<1> QED  BY <1>1 DEF Target

\* A name may be extended by a label of the packet.
LEMMA ExtendName ==
  ASSUME NEW name \in Seq(LabelPlace), Within(name, length), Len(name) < MaxIterations,
         NEW l \in LabelPlace, l.at + l.size <= length
  PROVE  Within(Append(name, l), length) /\ Append(name, l) \in Seq(LabelPlace)
<1>1. Append(name, l) \in Seq(LabelPlace) /\ Len(Append(name, l)) = Len(name) + 1
  OBVIOUS
<1>2. \A i \in 1..Len(name) : Append(name, l)[i] = name[i]  OBVIOUS
<1>3. Append(name, l)[Len(name) + 1] = l  OBVIOUS
<1>4. ASSUME NEW i \in 1..(Len(name) + 1)
      PROVE  Append(name, l)[i].at + Append(name, l)[i].size <= length
  <2>1. CASE i \in 1..Len(name)  BY <1>2, <2>1 DEF Within
  <2>2. CASE i = Len(name) + 1  BY <1>3, <2>2
  <2> QED  BY <2>1, <2>2
<1>5. Len(name) + 1 <= MaxIterations  BY ParserAssumption
<1> QED  BY <1>1, <1>4, <1>5 DEF Within

LEMMA EmptyName == <<>> \in Seq(LabelPlace) /\ \A n : Within(<<>>, n)
<1>1. Len(<<>>) = 0 /\ 1..0 = {}  OBVIOUS
<1> QED  BY <1>1, ParserAssumption DEF Within

LEMMA Initially == Init => IInv
<1> SUFFICES ASSUME Init PROVE IInv  OBVIOUS
<1>1. WalkOK
  <2>1. <<>> \in Seq(LabelPlace) /\ <<>> \in Seq(Seq(LabelPlace))  OBVIOUS
  <2>2. length \in Nat /\ data \in [0..(length - 1) -> 0..255]
    <3>1. length \in 0..MaxLength /\ data \in [0..(length - 1) -> Byte]  BY DEF Init
    <3>2. Byte \subseteq 0..255 /\ MaxLength \in Nat  BY ParserAssumption
    <3>3. length \in Nat  BY <3>1, <3>2
    <3>4. data \in [0..(length - 1) -> 0..255]
      <4> DEFINE D == 0..(length - 1)
      <4>1. data \in [D -> Byte]  BY <3>1
      <4> HIDE DEF D
      <4>2. data \in [D -> 0..255]  BY <3>2, <4>1
      <4> QED  BY <4>2 DEF D
    <3> QED  BY <3>3, <3>4
  <2>3. pc = "header" /\ qd_count \in Nat /\ jumped = FALSE
    BY ParserAssumption DEF Init
  <2>4. domain = <<>> /\ questions = <<>>  BY DEF Init
  <2>5. offset = 0 /\ original_offset = 0 /\ iterations = 0 /\ start = 0 /\ touched = 0
    BY DEF Init
  <2>6. domain \in Seq(LabelPlace) /\ questions \in Seq(Seq(LabelPlace))  BY <2>1, <2>4
  <2> QED  BY <2>2, <2>3, <2>5, <2>6 DEF WalkOK
<1>2. NoReadPastEnd  BY DEF Init, NoReadPastEnd
<1>3. NamesInPacket  BY EmptyName DEF Init, NamesInPacket
<1>4. Len(domain) <= iterations  BY DEF Init
<1> QED  BY <1>1, <1>2, <1>3, <1>4 DEF IInv

\* What the steps have in common: the packet stays, and the names stay or are new.
LEMMA SameNames ==
  ASSUME IInv, UNCHANGED packet, UNCHANGED questions,
         UNCHANGED domain \/ domain' = <<>>
  PROVE  NamesInPacket'
<1>1. length' = length /\ questions' = questions  BY DEF packet
<1>2. Within(domain', length')
  <2>1. CASE UNCHANGED domain  BY <1>1, <2>1 DEF IInv, NamesInPacket
  <2>2. CASE domain' = <<>>  BY <2>2, EmptyName
  <2> QED  BY <2>1, <2>2
<1>3. \A q \in 1..Len(questions') : Within(questions'[q], length')
  BY <1>1 DEF IInv, NamesInPacket
<1> QED  BY <1>2, <1>3 DEF NamesInPacket

LEMMA TouchInPacket ==
  ASSUME IInv, UNCHANGED packet, NEW n \in Nat, n <= length, Touch(n)
  PROVE  NoReadPastEnd' /\ touched' \in Nat
<1>1. length' = length /\ touched <= length /\ touched \in Nat
  BY DEF packet, IInv, NoReadPastEnd, WalkOK
<1> QED  BY <1>1 DEF Touch, NoReadPastEnd

-----------------------------------------------------------------------------
LEMMA Inductive == IInv /\ [Step]_vars => IInv'
<1> SUFFICES ASSUME IInv, [Step]_vars PROVE IInv'  OBVIOUS
<1> USE ParserAssumption
<1>t. WalkOK /\ length \in Nat /\ offset \in Nat /\ iterations \in Nat /\ touched \in Nat
      /\ touched <= length /\ Len(domain) <= iterations /\ Len(domain) \in Nat
      /\ HeaderSize \in Nat /\ FieldSize \in Nat /\ MaxIterations \in Nat
  BY DEF IInv, WalkOK, NoReadPastEnd
<1>1. CASE HeaderFails
  <2>1. WalkOK'  BY <1>t, <1>1 DEF WalkOK, HeaderFails, Fail, packet, locals
  <2>2. NoReadPastEnd'  BY <1>t, <1>1 DEF HeaderFails, Fail, packet, NoReadPastEnd
  <2>3. NamesInPacket'  BY <1>1, SameNames DEF HeaderFails, Fail, packet, locals
  <2>4. (Len(domain) <= iterations)'  BY <1>t, <1>1 DEF HeaderFails, Fail, locals
  <2> QED  BY <2>1, <2>2, <2>3, <2>4 DEF IInv
<1>2. CASE Header
  <2>1. WalkOK'
    <3>1. touched' \in Nat /\ UNCHANGED <<length, data, qd_count, questions>>
      BY <1>t, <1>2 DEF Header, packet
    <3>2. CASE qd_count > 0
      <4>1. CallName(HeaderSize)  BY <1>2, <3>2 DEF Header
      <4>2. domain' \in Seq(LabelPlace)  BY <4>1, EmptyName DEF CallName
      <4> QED  BY <1>t, <3>1, <4>1, <4>2 DEF WalkOK, CallName
    <3>3. CASE ~(qd_count > 0)
      <4>1. /\ pc' = "done" /\ offset' = HeaderSize
            /\ UNCHANGED <<locals, iterations, start>>
        BY <1>2, <3>3 DEF Header
      <4> QED  BY <1>t, <3>1, <4>1 DEF WalkOK, locals
    <3> QED  BY <3>2, <3>3
  <2>2. NoReadPastEnd'  BY <1>t, <1>2 DEF Header, packet, NoReadPastEnd
  <2>3. NamesInPacket'  BY <1>2, SameNames DEF Header, CallName, packet, locals
  <2>4. (Len(domain) <= iterations)'  BY <1>t, <1>2 DEF Header, CallName, locals
  <2> QED  BY <2>1, <2>2, <2>3, <2>4 DEF IInv
<1>3. CASE RunsOff
  <2>1. WalkOK'  BY <1>t, <1>3 DEF WalkOK, RunsOff, Return, packet, locals
  <2>2. NoReadPastEnd'  BY <1>t, <1>3 DEF RunsOff, Return, packet, NoReadPastEnd
  <2>3. NamesInPacket'  BY <1>3, SameNames DEF RunsOff, Return, packet, locals
  <2>4. (Len(domain) <= iterations)'  BY <1>t, <1>3 DEF RunsOff, Return, locals
  <2> QED  BY <2>1, <2>2, <2>3, <2>4 DEF IInv
<1>4. CASE TooManyIterations
  <2>1. WalkOK'  BY <1>t, <1>4 DEF WalkOK, TooManyIterations, Pass, Fail, packet, locals
  <2>2. NoReadPastEnd'  BY <1>t, <1>4 DEF TooManyIterations, Fail, packet, NoReadPastEnd
  <2>3. NamesInPacket'  BY <1>4, SameNames DEF TooManyIterations, Fail, packet, locals
  <2>4. (Len(domain) <= iterations)'  BY <1>t, <1>4 DEF TooManyIterations, Pass, Fail, locals
  <2> QED  BY <2>1, <2>2, <2>3, <2>4 DEF IInv
<1>5. CASE Root
  <2>0. offset + 1 <= length /\ offset + 1 \in Nat  BY <1>t, <1>5 DEF Root, Pass
  <2>1. NoReadPastEnd' /\ touched' \in Nat
    BY <1>5, <2>0, TouchInPacket DEF Root, Return
  <2>2. WalkOK'  BY <1>t, <1>5, <2>0, <2>1 DEF WalkOK, Root, Pass, Return, packet, locals
  <2>3. NamesInPacket'  BY <1>5, SameNames DEF Root, Return, packet, locals
  <2>4. (Len(domain) <= iterations)'  BY <1>t, <1>5 DEF Root, Pass, Return, locals
  <2> QED  BY <2>1, <2>2, <2>3, <2>4 DEF IInv
<1>6. CASE PointerFails
  <2>0. offset + 1 <= length /\ offset + 1 \in Nat  BY <1>t, <1>6 DEF PointerFails, Pass
  <2>1. NoReadPastEnd' /\ touched' \in Nat
    BY <1>6, <2>0, TouchInPacket DEF PointerFails, Fail
  <2>2. WalkOK'  BY <1>t, <1>6, <2>1 DEF WalkOK, PointerFails, Pass, Fail, packet, locals
  <2>3. NamesInPacket'  BY <1>6, SameNames DEF PointerFails, Fail, packet, locals
  <2>4. (Len(domain) <= iterations)'  BY <1>t, <1>6 DEF PointerFails, Pass, Fail, locals
  <2> QED  BY <2>1, <2>2, <2>3, <2>4 DEF IInv
<1>7. CASE Pointer
  <2>0. offset + 2 <= length /\ offset + 2 \in Nat /\ offset + 1 < length /\ offset < length
        /\ offset + 1 \in Nat
    BY <1>t, <1>7 DEF Pointer, Pass
  <2>1. NoReadPastEnd' /\ touched' \in Nat
    BY <1>7, <2>0, TouchInPacket DEF Pointer
  <2>5. offset' \in Nat
    <3>1. data[offset] \in 0..255 /\ data[offset + 1] \in 0..255  BY <1>t, <2>0, ByteAt
    <3> QED  BY <1>7, <3>1, TargetIsOffset DEF Pointer
  <2>2. WalkOK'  BY <1>t, <1>7, <2>0, <2>1, <2>5 DEF WalkOK, Pointer, Pass, packet
  <2>3. NamesInPacket'  BY <1>7, SameNames DEF Pointer
  <2>4. (Len(domain) <= iterations)'  BY <1>t, <1>7 DEF Pointer, Pass
  <2> QED  BY <2>1, <2>2, <2>3, <2>4 DEF IInv
<1>8. CASE LabelFails
  <2>0. offset + 1 <= length /\ offset + 1 \in Nat  BY <1>t, <1>8 DEF LabelFails, Pass
  <2>1. NoReadPastEnd' /\ touched' \in Nat
    BY <1>8, <2>0, TouchInPacket DEF LabelFails, Fail
  <2>2. WalkOK'  BY <1>t, <1>8, <2>1 DEF WalkOK, LabelFails, Pass, Fail, packet, locals
  <2>3. NamesInPacket'  BY <1>8, SameNames DEF LabelFails, Fail, packet, locals
  <2>4. (Len(domain) <= iterations)'  BY <1>t, <1>8 DEF LabelFails, Pass, Fail, locals
  <2> QED  BY <2>1, <2>2, <2>3, <2>4 DEF IInv
<1>9. CASE Label
  <2> DEFINE n == data[offset]
             l == [at |-> offset + 1, size |-> n]
  <2>0. n \in 0..255 /\ n # 0 /\ ~(n >= 192)
    BY <1>t, <1>9, ByteAt DEF Label, Pass, IsLabel, IsPointer
  <2>1. l \in LabelPlace /\ l.at + l.size <= length /\ offset + 1 + n \in Nat
    <3>1. n \in 1..191 /\ n \in Nat  BY <2>0
    <3>2. offset + 1 + n <= length  BY <1>9 DEF Label
    <3>3. offset + 1 \in Nat  BY <1>t
    <3>4. l.at = offset + 1 /\ l.size = n  OBVIOUS
    <3>5. l \in LabelPlace  BY <3>1, <3>3 DEF LabelPlace
    <3> HIDE DEF l, n
    <3> QED  BY <1>t, <3>1, <3>2, <3>4, <3>5
  <2>2. NoReadPastEnd' /\ touched' \in Nat
    BY <1>t, <1>9, <2>1, TouchInPacket DEF Label
  <2>3. domain \in Seq(LabelPlace) /\ Within(domain, length) /\ Len(domain) < MaxIterations
    BY <1>t, <1>9 DEF IInv, WalkOK, NamesInPacket, Label, Pass
  <2>4. domain' = Append(domain, l) /\ length' = length /\ questions' = questions
    BY <1>9 DEF Label, packet
  <2>5. Within(domain', length) /\ domain' \in Seq(LabelPlace)  BY <2>1, <2>3, <2>4, ExtendName
  <2>6. WalkOK'  BY <1>t, <1>9, <2>1, <2>2, <2>5 DEF WalkOK, Label, Pass, packet
  <2>7. NamesInPacket'  BY <2>4, <2>5 DEF IInv, NamesInPacket
  <2>8. (Len(domain) <= iterations)'
    <3>1. Len(domain') = Len(domain) + 1  BY <2>3, <2>4
    <3> QED  BY <1>t, <1>9, <3>1 DEF Label, Pass
  <2> QED  BY <2>2, <2>6, <2>7, <2>8 DEF IInv
<1>10. CASE FieldsFail
  <2>1. WalkOK'  BY <1>t, <1>10 DEF WalkOK, FieldsFail, Fail, packet, locals
  <2>2. NoReadPastEnd'  BY <1>t, <1>10 DEF FieldsFail, Fail, packet, NoReadPastEnd
  <2>3. NamesInPacket'  BY <1>10, SameNames DEF FieldsFail, Fail, packet, locals
  <2>4. (Len(domain) <= iterations)'  BY <1>t, <1>10 DEF FieldsFail, Fail, locals
  <2> QED  BY <2>1, <2>2, <2>3, <2>4 DEF IInv
<1>11. CASE Fields
  <2>0. offset + FieldSize <= length /\ offset + FieldSize \in Nat  BY <1>t, <1>11 DEF Fields
  <2>1. NoReadPastEnd' /\ touched' \in Nat
    BY <1>11, <2>0, TouchInPacket DEF Fields
  <2>2. /\ domain \in Seq(LabelPlace) /\ questions \in Seq(Seq(LabelPlace))
        /\ Within(domain, length) /\ \A q \in 1..Len(questions) : Within(questions[q], length)
    BY DEF IInv, WalkOK, NamesInPacket
  <2>3. questions' = Append(questions, domain) /\ length' = length
    BY <1>11 DEF Fields, packet
  <2>4. questions' \in Seq(Seq(LabelPlace))  BY <2>2, <2>3
  <2>5. domain' = domain \/ domain' = <<>>  BY <1>11 DEF Fields, CallName, locals
  <2>6. domain' \in Seq(LabelPlace) /\ Within(domain', length)  BY <2>2, <2>5, EmptyName
  <2>7. WalkOK'
    <3>1. UNCHANGED <<length, data, qd_count>>  BY <1>11 DEF Fields, packet
    <3>2. CASE CallName(offset + FieldSize)
      BY <1>t, <2>0, <2>1, <2>4, <2>6, <3>1, <3>2 DEF WalkOK, CallName
    <3>3. CASE pc' = "done" /\ offset' = offset + FieldSize
               /\ UNCHANGED <<locals, iterations, start>>
      BY <1>t, <2>0, <2>1, <2>4, <2>6, <3>1, <3>3 DEF WalkOK, locals
    <3> QED  BY <1>11, <3>2, <3>3 DEF Fields
  <2>8. \A q \in 1..Len(questions') : Within(questions'[q], length)
    <3>1. Len(questions') = Len(questions) + 1  BY <2>2, <2>3
    <3>2. questions'[Len(questions) + 1] = domain  BY <2>2, <2>3
    <3>3. \A q \in 1..Len(questions) : questions'[q] = questions[q]  BY <2>2, <2>3
    <3> QED  BY <2>2, <3>1, <3>2, <3>3
  <2>9. NamesInPacket'  BY <2>3, <2>6, <2>8 DEF NamesInPacket
  <2>10. (Len(domain) <= iterations)'
    BY <1>t, <1>11, <2>5 DEF Fields, CallName, locals
  <2> QED  BY <2>1, <2>7, <2>9, <2>10 DEF IInv
<1>12. CASE UNCHANGED vars
  <2>1. WalkOK'  BY <1>t, <1>12 DEF WalkOK, vars
  <2>2. NoReadPastEnd'  BY <1>t, <1>12 DEF vars, NoReadPastEnd
  <2>3. NamesInPacket'  BY <1>12, SameNames DEF vars, packet
  <2>4. (Len(domain) <= iterations)'  BY <1>t, <1>12 DEF vars
  <2> QED  BY <2>1, <2>2, <2>3, <2>4 DEF IInv
<1> QED
  BY <1>1, <1>2, <1>3, <1>4, <1>5, <1>6, <1>7, <1>8, <1>9, <1>10, <1>11, <1>12
  DEF Step


-----------------------------------------------------------------------------
(* Where a name ends                                                       *)

LEMMA Least ==
  ASSUME NEW T, T \subseteq Nat, T # {}
  PROVE  \E x \in T : \A y \in T : x <= y
<1>1. PICK x \in T : \A y \in T : <<y, x>> \notin OpToRel(<, Nat)
  BY WFMin, NatLessThanWellFounded
<1>2. \A y \in T : ~(y < x)  BY <1>1 DEF OpToRel
<1> QED  BY <1>2

\* Induction over the natural numbers, for the set G of those with a property
LEMMA NumberInduction ==
  ASSUME NEW G, 0 \in G, \A n \in Nat : n \in G => n + 1 \in G
  PROVE  \A n \in Nat : n \in G
<1> SUFFICES ASSUME Nat \ G # {} PROVE FALSE  OBVIOUS
<1>1. PICK n \in Nat \ G : \A m \in Nat \ G : n <= m  BY Least
<1>2. n # 0 /\ n - 1 \in Nat /\ (n - 1) + 1 = n /\ ~(n <= n - 1)  BY <1>1
<1> QED  BY <1>1, <1>2

\* One step of the walk to the end, with f for the rest of it
WalkStep(f, i) ==
  IF i >= length THEN i
  ELSE IF data[i] = 0 THEN i + 1
  ELSE IF IsPointer(data[i]) THEN i + 2
  ELSE f[i + 1 + data[i]]

\* The recursion defines a function: one that is right for the last k bytes of the
\* packet becomes right for the last k + 1 by one more step.
LEMMA WalkExists ==
  ASSUME length \in Nat, \A i \in Nat : i < length => data[i] \in Nat
  PROVE  \E f : f = [i \in Nat |-> WalkStep(f, i)]
<1> DEFINE Right(f, k) == \A i \in Nat : i + k >= length => f[i] = WalkStep(f, i)
           G == {k \in Nat : \E f : Right(f, k)}
<1>1. 0 \in G
  <2> DEFINE f == [i \in Nat |-> i]
  <2>1. Right(f, 0)  BY DEF WalkStep
  <2> QED  BY <2>1
<1>2. ASSUME NEW k \in Nat, k \in G PROVE k + 1 \in G
  <2>1. PICK f : Right(f, k)  BY <1>2
  <2> DEFINE h == [i \in Nat |-> WalkStep(f, i)]
  <2>2. \A i \in Nat : h[i] = WalkStep(f, i)  OBVIOUS
  <2> HIDE DEF h
  <2>3. ASSUME NEW i \in Nat, i + (k + 1) >= length PROVE WalkStep(f, i) = WalkStep(h, i)
    <3>1. CASE i >= length  BY <3>1 DEF WalkStep
    <3>2. CASE i < length
      <4> DEFINE j == i + 1 + data[i]
      <4>1. data[i] \in Nat /\ j \in Nat  BY <3>2
      <4>2. j + k >= length  BY <2>3, <4>1
      <4>3. f[j] = h[j]  BY <2>1, <2>2, <4>1, <4>2
      <4> QED  BY <4>3 DEF WalkStep
    <3> QED  BY <3>1, <3>2
  <2>4. Right(h, k + 1)  BY <2>2, <2>3
  <2> QED  BY <2>4
<1> HIDE DEF G
<1>3. length \in G  BY <1>1, <1>2, NumberInduction
<1>4. PICK f : \A i \in Nat : f[i] = WalkStep(f, i)  BY <1>3 DEF G
<1> DEFINE h == [i \in Nat |-> f[i]]
<1>5. \A i \in Nat : WalkStep(h, i) = WalkStep(f, i)
  <2> SUFFICES ASSUME NEW i \in Nat PROVE WalkStep(h, i) = WalkStep(f, i)  OBVIOUS
  <2>1. CASE i >= length  BY <2>1 DEF WalkStep
  <2>2. CASE i < length
    <3>1. i + 1 + data[i] \in Nat  BY <2>2
    <3> QED  BY <3>1 DEF WalkStep
  <2> QED  BY <2>1, <2>2
<1>6. h = [i \in Nat |-> WalkStep(h, i)]  BY <1>4, <1>5
<1> QED  BY <1>6

LEMMA EndsAtIs ==
  ASSUME WalkOK
  PROVE  \A i \in Nat : EndsAt[i] = WalkStep(EndsAt, i)
<1>1. \A i \in Nat : i < length => data[i] \in Nat  BY ByteAt
<1>2. \E f : f = [i \in Nat |-> WalkStep(f, i)]  BY <1>1, WalkExists DEF WalkOK
<1>3. EndsAt = CHOOSE f : f = [i \in Nat |-> WalkStep(f, i)]  BY DEF EndsAt, WalkStep
<1>4. EndsAt = [i \in Nat |-> WalkStep(EndsAt, i)]  BY <1>2, <1>3
<1> QED  BY <1>4

\* The packet does not change, and so the ends of names do not.
LEMMA EndsStay == UNCHANGED packet => EndsAt' = EndsAt
BY DEF packet, EndsAt

LEMMA StepKeepsPacket == Step => UNCHANGED packet
BY DEF Step, HeaderFails, Fail, Header, RunsOff, TooManyIterations, Root, PointerFails, Pointer,
       LabelFails, Label, FieldsFail, Fields, Return

LEMMA ResumesInitially == Init => Resumes
BY DEF Init, Resumes

LEMMA ResumesStep == ASSUME WalkOK, Resumes, Step PROVE Resumes'
<1>1. UNCHANGED packet  BY StepKeepsPacket
<1>2. EndsAt' = EndsAt  BY <1>1, EndsStay
<1>3. /\ offset \in Nat /\ start \in Nat /\ length \in Nat
      /\ \A i \in Nat : i < length => data[i] \in 0..255
      /\ EndsAt[offset] = WalkStep(EndsAt, offset)
  BY ByteAt, EndsAtIs DEF WalkOK
<1>4. CASE HeaderFails \/ TooManyIterations \/ PointerFails \/ LabelFails \/ FieldsFail
  BY <1>4 DEF HeaderFails, TooManyIterations, PointerFails, LabelFails, FieldsFail, Fail, Resumes
<1>5. CASE Header
  BY <1>2, <1>5 DEF Header, CallName, Resumes
<1>6. CASE Fields
  BY <1>2, <1>6 DEF Fields, CallName, Resumes
<1>7. CASE RunsOff
  <2>1. EndsAt[offset] = offset  BY <1>3, <1>7 DEF RunsOff, WalkStep
  <2> QED  BY <1>2, <1>7, <2>1 DEF RunsOff, Return, Resumes, locals
<1>8. CASE Root
  <2>1. EndsAt[offset] = offset + 1  BY <1>3, <1>8 DEF Root, Pass, WalkStep
  <2> QED  BY <1>2, <1>8, <2>1 DEF Root, Pass, Return, Resumes, locals
<1>9. CASE Pointer
  <2>1. data[offset] # 0  BY <1>9 DEF Pointer, IsPointer
  <2>2. EndsAt[offset] = offset + 2  BY <1>3, <1>9, <2>1 DEF Pointer, Pass, WalkStep
  <2> QED  BY <1>2, <1>9, <2>2 DEF Pointer, Pass, Resumes
<1>10. CASE Label
  <2>1. EndsAt[offset] = EndsAt[offset + 1 + data[offset]]
    BY <1>3, <1>10 DEF Label, Pass, IsLabel, WalkStep
  <2> QED  BY <1>2, <1>10, <2>1 DEF Label, Pass, Resumes
<1> QED
  BY <1>4, <1>5, <1>6, <1>7, <1>8, <1>9, <1>10 DEF Step

-----------------------------------------------------------------------------
(* The theorems                                                            *)

\* What the type invariant says of the packet besides
Bounded ==
  /\ length \in 0..MaxLength /\ data \in [0..(length - 1) -> Byte]
  /\ qd_count \in 0..MaxQuestions

\* The inductive invariant holds in every state.
THEOREM Invariant == Spec => [](IInv /\ Resumes /\ Bounded)
<1>1. Init => IInv /\ Resumes /\ Bounded
  BY Initially, ResumesInitially DEF Init, Bounded
<1>2. IInv /\ Resumes /\ Bounded /\ [Next]_vars => (IInv /\ Resumes /\ Bounded)'
  <2> SUFFICES ASSUME IInv, Resumes, Bounded, [Next]_vars
               PROVE  (IInv /\ Resumes /\ Bounded)'
    OBVIOUS
  <2>1. [Step]_vars  BY DEF Next, Ended
  <2>2. IInv'  BY <2>1, Inductive
  <2>3. UNCHANGED packet  BY <2>1, StepKeepsPacket DEF vars, packet
  <2>4. Bounded'  BY <2>3 DEF Bounded, packet
  <2>5. Resumes'
    <3>1. CASE Step  BY <3>1, ResumesStep DEF IInv
    <3>2. CASE UNCHANGED vars
      <4>1. EndsAt' = EndsAt  BY <2>3, EndsStay
      <4> QED  BY <3>2, <4>1 DEF vars, Resumes
    <3> QED  BY <2>1, <3>1, <3>2
  <2> QED  BY <2>2, <2>4, <2>5
<1> QED  BY <1>1, <1>2, PTL DEF Spec

\* Every variable keeps its type: offsets, which pointers set freely, stay
\* natural numbers and labels have 1 to 191 bytes.
THEOREM TypeCorrect == Spec => []TypeOK
<1>1. IInv /\ Bounded => TypeOK  BY DEF IInv, WalkOK, Bounded, TypeOK
<1> QED  BY <1>1, Invariant, PTL

\* parse_packet() reads no byte behind the end of the datagram, whatever it holds.
THEOREM StaysInPacket == Spec => []NoReadPastEnd
<1>1. IInv => NoReadPastEnd  BY DEF IInv
<1> QED  BY <1>1, Invariant, PTL

\* The labels of every name lie in the packet and are at most MAX_ITERATIONS.
THEOREM NamesAreInPacket == Spec => []NamesInPacket
<1>1. IInv => NamesInPacket  BY DEF IInv
<1> QED  BY <1>1, Invariant, PTL

\* However many pointers a name follows, and wherever they lead: parse_packet() goes
\* on behind the name or its first pointer (dns_packet.cpp, lines 15, 44-49, 64-67).
THEOREM GoesOnBehindName == Spec => []ResumesAfterName
<1>1. Resumes => ResumesAfterName  BY DEF Resumes, ResumesAfterName
<1> QED  BY <1>1, Invariant, PTL

-----------------------------------------------------------------------------
(* How much work a datagram can cause                                      *)

\* The steps that a question can take: a pass per iteration, the return, the fields
PerQuestion == MaxIterations + 3
ToParse == qd_count - Len(questions)

\* More than the steps that are left
StepsLeft ==
  CASE pc = "header" -> ToParse * PerQuestion + 1
    [] pc = "name" -> ToParse * PerQuestion - iterations
    [] pc = "fields" -> ToParse * PerQuestion - (MaxIterations + 1)
    [] pc \in {"done", "failed"} -> 0

\* There is a question to parse while one is parsed, and the passes are counted.
PassesCounted ==
  /\ Len(questions) <= qd_count /\ (pc = "header" => Len(questions) = 0)
  /\ pc \in {"name", "fields"} => Len(questions) < qd_count
  /\ pc = "name" => iterations <= MaxIterations

LEMMA PassesCountedStep ==
  ASSUME WalkOK, PassesCounted, Step
  PROVE  PassesCounted'
<1>1. /\ qd_count \in Nat /\ qd_count' = qd_count /\ Len(questions) \in Nat
      /\ iterations \in Nat /\ MaxIterations \in Nat
  BY StepKeepsPacket, ParserAssumption DEF WalkOK, packet
<1>2. CASE HeaderFails \/ TooManyIterations \/ PointerFails \/ LabelFails \/ FieldsFail
  BY <1>1, <1>2 DEF HeaderFails, TooManyIterations, PointerFails, LabelFails, FieldsFail, Fail, PassesCounted
<1>3. CASE Header
  BY <1>1, <1>3 DEF Header, CallName, PassesCounted
<1>4. CASE RunsOff \/ Root
  BY <1>1, <1>4 DEF RunsOff, Root, Pass, Return, PassesCounted
<1>5. CASE Pointer \/ Label
  BY <1>1, <1>5 DEF Pointer, Label, Pass, PassesCounted
<1>6. CASE Fields
  <2>1. Len(questions') = Len(questions) + 1  BY <1>6 DEF Fields, WalkOK
  <2> QED  BY <1>1, <1>6, <2>1 DEF Fields, CallName, PassesCounted
<1> QED
  BY <1>2, <1>3, <1>4, <1>5, <1>6 DEF Step

\* Each question of n that are left is worth k steps.
LEMMA Worth ==
  ASSUME NEW n \in Nat, NEW k \in Nat
  PROVE  n * k \in Nat /\ (n > 0 => (n - 1) * k \in Nat /\ n * k = (n - 1) * k + k)
<1>1. n > 0 => n - 1 \in Nat  OBVIOUS
<1>2. n * k \in Nat  OBVIOUS
<1>3. n > 0 => (n - 1) * k \in Nat  BY <1>1
<1>4. n * k = (n - 1) * k + k  OBVIOUS
<1> QED  BY <1>2, <1>3, <1>4

LEMMA StepsLeftIs ==
  ASSUME WalkOK, PassesCounted
  PROVE  /\ StepsLeft \in Nat /\ (pc \in {"header", "name", "fields"} => StepsLeft > 0)
         /\ pc \in {"name", "fields"} => ToParse * PerQuestion >= PerQuestion
<1> DEFINE k == PerQuestion
           n == qd_count - Len(questions)
           worth == n * k
<1>1. /\ qd_count \in Nat /\ Len(questions) \in Nat
      /\ iterations \in Nat /\ MaxIterations \in Nat
  BY ParserAssumption DEF WalkOK
<1>2. k \in Nat /\ k = MaxIterations + 3 /\ n \in Nat  BY <1>1 DEF PerQuestion, PassesCounted
<1> HIDE DEF k, n
<1>3. worth \in Nat /\ (n > 0 => (n - 1) * k \in Nat /\ worth = (n - 1) * k + k)  BY <1>2, Worth
<1>4. ToParse * PerQuestion = worth  BY DEF ToParse, k, n
<1>5. pc \in {"name", "fields"} => n > 0  BY <1>1 DEF PassesCounted, n
<1> HIDE DEF worth
<1>7. pc \in {"name", "fields"} => worth >= k
  <2> SUFFICES ASSUME pc \in {"name", "fields"} PROVE worth >= k  OBVIOUS
  <2> DEFINE rest == (n - 1) * k
  <2>1. rest \in Nat /\ worth = rest + k  BY <1>3, <1>5
  <2> HIDE DEF rest
  <2> QED  BY <1>2, <2>1
<1>8. StepsLeft \in Nat /\ (pc \in {"header", "name", "fields"} => StepsLeft > 0)
  <2>1. CASE pc = "header"
    <3>1. StepsLeft = worth + 1  BY <1>4, <2>1 DEF StepsLeft
    <3> QED  BY <1>3, <3>1
  <2>2. CASE pc = "name"
    <3>1. StepsLeft = worth - iterations /\ iterations <= MaxIterations
      BY <1>4, <2>2 DEF StepsLeft, PassesCounted
    <3> QED  BY <1>1, <1>2, <1>3, <1>7, <2>2, <3>1
  <2>3. CASE pc = "fields"
    <3>1. StepsLeft = worth - (MaxIterations + 1)  BY <1>4, <2>3 DEF StepsLeft
    <3> QED  BY <1>1, <1>2, <1>3, <1>7, <2>3, <3>1
  <2>4. CASE pc \in {"done", "failed"}
    BY <2>4 DEF StepsLeft
  <2> QED  BY <2>1, <2>2, <2>3, <2>4 DEF WalkOK
<1> QED
  BY <1>4, <1>7, <1>8 DEF k

LEMMA StepTakesOne ==
  ASSUME WalkOK, PassesCounted, Step
  PROVE  StepsLeft \in Nat /\ StepsLeft' \in Nat /\ StepsLeft' < StepsLeft
<1> DEFINE k == PerQuestion
           n == qd_count - Len(questions)
           worth == n * k
<1>1. /\ qd_count \in Nat /\ qd_count' = qd_count /\ Len(questions) \in Nat
      /\ iterations \in Nat /\ MaxIterations \in Nat
  BY StepKeepsPacket, ParserAssumption DEF WalkOK, packet
<1>2. k \in Nat /\ k = MaxIterations + 3 /\ n \in Nat  BY <1>1 DEF PerQuestion, PassesCounted
<1> HIDE DEF k, n
<1>3. worth \in Nat /\ (n > 0 => (n - 1) * k \in Nat /\ worth = (n - 1) * k + k)  BY <1>2, Worth
<1>4. ToParse * PerQuestion = worth  BY DEF ToParse, k, n
<1>5. pc \in {"name", "fields"} => n > 0  BY <1>1 DEF PassesCounted, n
<1> HIDE DEF worth
<1>6. UNCHANGED questions => (ToParse * PerQuestion)' = worth  BY <1>1, <1>4 DEF ToParse, PerQuestion
<1>7. pc \in {"name", "fields"} => worth >= k  BY <1>4, StepsLeftIs DEF k
<1>8. StepsLeft \in Nat /\ (pc \in {"header", "name", "fields"} => StepsLeft > 0)
  BY StepsLeftIs
<1>9. CASE HeaderFails \/ TooManyIterations \/ PointerFails \/ LabelFails \/ FieldsFail
  BY <1>8, <1>9 DEF HeaderFails, TooManyIterations, PointerFails, LabelFails, FieldsFail, Fail,
                    Pass, StepsLeft
<1>10. CASE Header
  <2>1. pc = "header" /\ UNCHANGED questions  BY <1>10 DEF Header
  <2>2. StepsLeft = worth + 1  BY <1>4, <2>1 DEF StepsLeft
  <2>3. CASE pc' = "done"  BY <1>8, <2>1, <2>3 DEF StepsLeft
  <2>4. CASE pc' = "name" /\ iterations' = 0
    <3>1. StepsLeft' = worth - 0  BY <1>6, <2>1, <2>4 DEF StepsLeft
    <3> QED  BY <1>3, <2>2, <3>1
  <2> QED  BY <1>10, <2>3, <2>4 DEF Header, CallName
<1>11. CASE RunsOff \/ Root
  <2>1. pc = "name" /\ pc' = "fields" /\ UNCHANGED questions
    BY <1>11 DEF RunsOff, Root, Pass, Return
  <2>2. StepsLeft = worth - iterations /\ StepsLeft' = worth - (MaxIterations + 1)
    BY <1>4, <1>6, <2>1 DEF StepsLeft
  <2>3. iterations <= MaxIterations  BY <2>1 DEF PassesCounted
  <2> QED  BY <1>1, <1>2, <1>3, <1>7, <2>1, <2>2, <2>3
<1>12. CASE Pointer \/ Label
  <2>1. /\ pc = "name" /\ pc' = "name" /\ UNCHANGED questions
        /\ iterations' = iterations + 1 /\ iterations < MaxIterations
    BY <1>12 DEF Pointer, Label, Pass
  <2>2. StepsLeft = worth - iterations /\ StepsLeft' = worth - (iterations + 1)
    BY <1>4, <1>6, <2>1 DEF StepsLeft
  <2> QED  BY <1>1, <1>2, <1>3, <1>7, <2>1, <2>2
<1>13. CASE Fields
  <2>1. pc = "fields"  BY <1>13 DEF Fields
  <2>2. StepsLeft = worth - (MaxIterations + 1)  BY <1>4, <2>1 DEF StepsLeft
  <2>3. CASE pc' = "done"  BY <1>8, <2>1, <2>3 DEF StepsLeft
  <2>4. CASE pc' = "name" /\ iterations' = 0
    <3> DEFINE rest == (n - 1) * k
    <3>1. rest \in Nat /\ worth = rest + k  BY <1>3, <1>5, <2>1
    <3>2. Len(questions') = Len(questions) + 1  BY <1>13 DEF Fields, WalkOK
    <3>3. ToParse' = n - 1  BY <1>1, <3>2 DEF ToParse, n
    <3>4. (ToParse * PerQuestion)' = rest  BY <3>3 DEF PerQuestion, k
    <3> HIDE DEF rest
    <3>5. StepsLeft' = rest - 0  BY <2>4, <3>4 DEF StepsLeft
    <3> QED  BY <1>1, <1>2, <2>2, <3>1, <3>5
  <2> QED  BY <1>13, <2>3, <2>4 DEF Fields, CallName
<1> QED
  BY <1>8, <1>9, <1>10, <1>11, <1>12, <1>13 DEF Step

\* At most this many steps, MaxQuestions bounding what the header may announce
MostSteps == MaxQuestions * PerQuestion + 1

\* Every step of the parser takes one of a number of steps that the limits bound, not
\* the bytes of the datagram: this is why a cycle of pointers cannot keep it going
\* (dns_packet.cpp, lines 21-26 and 122-124).
THEOREM WorkIsBounded ==
  Spec => /\ [](StepsLeft \in 0..MostSteps)
          /\ [][StepsLeft' < StepsLeft]_vars
<1>1. Init => PassesCounted
  BY DEF Init, PassesCounted
<1>2. WalkOK /\ PassesCounted /\ [Next]_vars => PassesCounted' /\ [StepsLeft' < StepsLeft]_vars
  <2>1. WalkOK /\ PassesCounted /\ Step => PassesCounted' /\ StepsLeft' < StepsLeft
    BY PassesCountedStep, StepTakesOne
  <2>2. UNCHANGED vars /\ PassesCounted => PassesCounted'  BY DEF vars, PassesCounted
  <2> QED  BY <2>1, <2>2 DEF Next, Ended
<1>3. IInv => WalkOK  BY DEF IInv
<1>4. WalkOK /\ PassesCounted /\ Bounded => StepsLeft \in 0..MostSteps
  <2> SUFFICES ASSUME WalkOK, PassesCounted, Bounded PROVE StepsLeft \in 0..MostSteps  OBVIOUS
  <2> DEFINE k == PerQuestion
             n == ToParse
             worth == n * k
             most == MaxQuestions * k
  <2>1. /\ Len(questions) \in Nat /\ iterations \in Nat /\ MaxIterations \in Nat /\ MaxQuestions \in Nat
        /\ qd_count \in 0..MaxQuestions
    BY ParserAssumption DEF WalkOK, Bounded
  <2>2. k \in Nat /\ k = MaxIterations + 3 /\ n \in Nat /\ n <= MaxQuestions
        /\ (pc \in {"name", "fields"} => n > 0)
    BY <2>1 DEF PerQuestion, ToParse, PassesCounted
  <2> HIDE DEF k, n
  <2>3. worth \in Nat /\ (n > 0 => (n - 1) * k \in Nat /\ worth = (n - 1) * k + k)  BY <2>2, Worth
  <2>4. worth <= most /\ most \in Nat
    <3>1. PICK m \in Nat : MaxQuestions = n + m
      <4>1. MaxQuestions - n \in Nat /\ MaxQuestions = n + (MaxQuestions - n)  BY <2>1, <2>2
      <4> QED  BY <4>1
    <3>2. most = n * k + m * k  BY <2>2, <3>1
    <3>3. m * k \in Nat  BY <2>2, <3>1
    <3> DEFINE x == n * k
               y == m * k
    <3>4. x \in Nat /\ y \in Nat /\ most = x + y /\ worth = x  BY <2>3, <3>2, <3>3
    <3> HIDE DEF x, y, most, worth
    <3> QED  BY <3>4
  <2>5. ToParse * PerQuestion = worth  BY DEF n, k
  <2>6. MostSteps = most + 1  BY DEF MostSteps, k
  <2> HIDE DEF worth, most
  <2>7. StepsLeft \in Nat  BY StepsLeftIs
  <2>8. StepsLeft <= worth + 1
    <3>1. pc = "name" => StepsLeft = worth - iterations  BY <2>5 DEF StepsLeft
    <3>2. pc = "fields" => StepsLeft = worth - (MaxIterations + 1)  BY <2>5 DEF StepsLeft
    <3>3. pc = "header" => StepsLeft = worth + 1  BY <2>5 DEF StepsLeft
    <3>4. pc \in {"done", "failed"} => StepsLeft = 0  BY DEF StepsLeft
    <3> QED  BY <2>1, <2>3, <3>1, <3>2, <3>3, <3>4 DEF WalkOK
  <2> QED  BY <2>3, <2>4, <2>6, <2>7, <2>8
<1>5. Spec => []PassesCounted
  BY <1>1, <1>2, <1>3, Invariant, PTL DEF Spec
<1> QED
  BY <1>2, <1>3, <1>4, <1>5, Invariant, PTL DEF Spec
=============================================================================
