---------------------------- MODULE PacketParser ----------------------------
(***************************************************************************)
(* parse_packet() and parse_domain_name() of src/dns/dns_packet.cpp: the   *)
(* walk over the bytes of one datagram.  A pass of the loop over the name  *)
(* is a step, a throw ends the walk as "failed".  A name is the sequence   *)
(* of its labels, each given by its place in the packet.                   *)
(*                                                                         *)
(* The sizes of the header and of a question's fields are constants, so    *)
(* that a small packet can hold several questions.                         *)
(***************************************************************************)
EXTENDS Naturals, Sequences

CONSTANTS Byte,            \* the values of a byte
          MaxLength,       \* bound on a packet's length: 4096, the receive buffer
          HeaderSize,      \* 12
          FieldSize,       \* 4: QTYPE and QCLASS
          MaxQuestions,    \* 100: qd_count must be less
          MaxIterations    \* MAX_ITERATIONS: 256

ASSUME ParserAssumption ==
  /\ Byte \subseteq 0..255
  /\ MaxLength \in Nat /\ HeaderSize \in Nat /\ FieldSize \in Nat
  /\ MaxQuestions \in Nat /\ MaxIterations \in Nat

VARIABLES length, data,    \* the datagram
          qd_count,        \* its header field
          pc,
          offset,
          jumped, original_offset, iterations, domain,   \* locals of parse_domain_name
          questions,       \* names of the questions parsed so far
          start,           \* history: where the current name begins
          touched          \* history: how far into the packet bytes were read

vars == <<length, data, qd_count, pc, offset, jumped, original_offset, iterations,
          domain, questions, start, touched>>
packet == <<length, data, qd_count>>
locals == <<jumped, original_offset, domain>>

Touch(n) == touched' = IF n > touched THEN n ELSE touched
Fail == pc' = "failed" /\ UNCHANGED <<packet, offset, locals, questions, start>>

\* The pointer bits 11, and the 14 bits of a pointer
IsPointer(b) == b >= 192
Target(b, c) == (b % 64) * 256 + c

-----------------------------------------------------------------------------
\* Any datagram of at most MaxLength bytes.  What the header says is free of what
\* the bytes of the header are to a pointer that leads there.
Init ==
  /\ length \in 0..MaxLength
  /\ data \in [0..(length - 1) -> Byte]
  /\ qd_count \in 0..MaxQuestions
  /\ pc = "header" /\ offset = 0
  /\ jumped = FALSE /\ original_offset = 0 /\ iterations = 0 /\ domain = <<>>
  /\ questions = <<>> /\ start = 0 /\ touched = 0

HeaderFails ==
  /\ pc = "header" /\ (length < HeaderSize \/ qd_count >= MaxQuestions)
  /\ touched' = IF length < HeaderSize THEN 0 ELSE HeaderSize
  /\ UNCHANGED iterations
  /\ Fail

\* parse_domain_name() is called: its locals are new.
CallName(at) ==
  /\ pc' = "name" /\ offset' = at /\ start' = at
  /\ jumped' = FALSE /\ original_offset' = 0 /\ iterations' = 0 /\ domain' = <<>>

Header ==
  /\ pc = "header" /\ length >= HeaderSize /\ qd_count < MaxQuestions
  /\ touched' = HeaderSize
  /\ IF qd_count > 0 THEN CallName(HeaderSize)
     ELSE /\ pc' = "done" /\ offset' = HeaderSize
          /\ UNCHANGED <<locals, iterations, start>>
  /\ UNCHANGED <<packet, questions>>

-----------------------------------------------------------------------------
\* Faulty variants of some steps: with one of them in place of the step it is
\* named after, TLC finds a property violated (PROJECT.json says which).

\* The cycle guard goes on with the loop.
TooManyIgnored ==
  /\ pc = "name" /\ offset < length /\ iterations >= MaxIterations
  /\ UNCHANGED vars

\* original_offset is set at every pointer.
PointerOverwrites ==
  /\ pc = "name" /\ offset < length /\ iterations < MaxIterations
  /\ IsPointer(data[offset]) /\ offset + 1 < length
  /\ iterations' = iterations + 1
  /\ Touch(offset + 2)
  /\ original_offset' = offset + 2
  /\ jumped' = TRUE
  /\ offset' = Target(data[offset], data[offset + 1])
  /\ UNCHANGED <<packet, pc, domain, questions, start>>

\* The passes are counted from the last pointer on.
PointerRestartsCount ==
  /\ pc = "name" /\ offset < length /\ iterations < MaxIterations
  /\ IsPointer(data[offset]) /\ offset + 1 < length
  /\ iterations' = 0
  /\ Touch(offset + 2)
  /\ original_offset' = IF jumped THEN original_offset ELSE offset + 2
  /\ jumped' = TRUE
  /\ offset' = Target(data[offset], data[offset + 1])
  /\ UNCHANGED <<packet, pc, domain, questions, start>>

\* The length byte itself is not counted.
LabelOffByOne ==
  LET n == data[offset] IN
  /\ pc = "name" /\ offset < length /\ iterations < MaxIterations
  /\ n # 0 /\ ~IsPointer(n)
  /\ offset + n <= length
  /\ iterations' = iterations + 1
  /\ Touch(offset + 1 + n)
  /\ domain' = Append(domain, [at |-> offset + 1, size |-> n])
  /\ offset' = offset + 1 + n
  /\ UNCHANGED <<packet, pc, jumped, original_offset, questions, start>>

-----------------------------------------------------------------------------
\* The loop of parse_domain_name()

\* It returns: after a jump the caller goes on behind the first pointer.
Return(at) ==
  /\ pc' = "fields"
  /\ offset' = IF jumped THEN original_offset ELSE at
  /\ UNCHANGED <<packet, locals, questions, start>>

RunsOff ==
  /\ pc = "name" /\ offset >= length
  /\ Return(offset)
  /\ UNCHANGED <<iterations, touched>>

Pass == pc = "name" /\ offset < length /\ iterations' = iterations + 1

TooManyIterations ==
  /\ Pass /\ iterations >= MaxIterations
  /\ Fail
  /\ UNCHANGED touched

Root ==
  /\ Pass /\ iterations < MaxIterations /\ data[offset] = 0
  /\ Touch(offset + 1)
  /\ Return(offset + 1)

PointerFails ==
  /\ Pass /\ iterations < MaxIterations /\ IsPointer(data[offset])
  /\ offset + 1 >= length
  /\ Touch(offset + 1)
  /\ Fail

Pointer ==
  /\ Pass /\ iterations < MaxIterations /\ IsPointer(data[offset])
  /\ offset + 1 < length
  /\ Touch(offset + 2)
  /\ original_offset' = IF jumped THEN original_offset ELSE offset + 2
  /\ jumped' = TRUE
  /\ offset' = Target(data[offset], data[offset + 1])
  /\ UNCHANGED <<packet, pc, domain, questions, start>>

IsLabel(b) == b # 0 /\ ~IsPointer(b)

LabelFails ==
  /\ Pass /\ iterations < MaxIterations /\ IsLabel(data[offset])
  /\ offset + 1 + data[offset] > length
  /\ Touch(offset + 1)
  /\ Fail

Label ==
  LET n == data[offset] IN
  /\ Pass /\ iterations < MaxIterations /\ IsLabel(n)
  /\ offset + 1 + n <= length
  /\ Touch(offset + 1 + n)
  /\ domain' = Append(domain, [at |-> offset + 1, size |-> n])
  /\ offset' = offset + 1 + n
  /\ UNCHANGED <<packet, pc, jumped, original_offset, questions, start>>

-----------------------------------------------------------------------------
\* Back in parse_packet()

FieldsFail ==
  /\ pc = "fields" /\ offset + FieldSize > length
  /\ Fail
  /\ UNCHANGED <<iterations, touched>>

Fields ==
  /\ pc = "fields" /\ offset + FieldSize <= length
  /\ Touch(offset + FieldSize)
  /\ questions' = Append(questions, domain)
  /\ IF Len(questions) + 1 < qd_count THEN CallName(offset + FieldSize)
     ELSE /\ pc' = "done" /\ offset' = offset + FieldSize
          /\ UNCHANGED <<locals, iterations, start>>
  /\ UNCHANGED packet

Ended == pc \in {"done", "failed"} /\ UNCHANGED vars

Step == \/ HeaderFails \/ Header
        \/ RunsOff \/ TooManyIterations \/ Root
        \/ PointerFails \/ Pointer \/ LabelFails \/ Label
        \/ FieldsFail \/ Fields

Next == Step \/ Ended

Spec == Init /\ [][Next]_vars /\ WF_vars(Step)

-----------------------------------------------------------------------------
\* The type of every variable.
LabelPlace == [at : Nat, size : 1..191]

TypeOK ==
  /\ length \in 0..MaxLength /\ data \in [0..(length - 1) -> Byte]
  /\ qd_count \in 0..MaxQuestions
  /\ pc \in {"header", "name", "fields", "done", "failed"}
  /\ offset \in Nat /\ jumped \in BOOLEAN /\ original_offset \in Nat
  /\ iterations \in Nat
  /\ domain \in Seq(LabelPlace) /\ questions \in Seq(Seq(LabelPlace))
  /\ start \in Nat /\ touched \in Nat

\* No byte behind the end of the packet is read, wherever labels and pointers
\* lead (dns_packet.cpp, lines 23, 40, 53 and 132).
NoReadPastEnd == touched <= length

\* Every label of a name lies in the packet, and a name has at most
\* MAX_ITERATIONS labels, also when pointers form a cycle.
Within(name, size) ==
  /\ Len(name) <= MaxIterations
  /\ \A i \in 1..Len(name) : name[i].at + name[i].size <= size

NamesInPacket ==
  /\ Within(domain, length)
  /\ \A q \in 1..Len(questions) : Within(questions[q], length)

\* Where the name that begins at i ends when no pointer is followed
EndsAt[i \in Nat] ==
  IF i >= length THEN i
  ELSE IF data[i] = 0 THEN i + 1
  ELSE IF IsPointer(data[i]) THEN i + 2
  ELSE EndsAt[i + 1 + data[i]]

\* After a name "offset points to the byte just after the name (or pointer)"
\* (dns_packet.cpp, line 15), however many pointers were followed, so that the
\* fields and the next question are read where they are.
ResumesAfterName == pc = "fields" => offset = EndsAt[start]

\* The parser ends on every packet, pointer cycles included.
Terminates == <>(pc \in {"done", "failed"})
=============================================================================
