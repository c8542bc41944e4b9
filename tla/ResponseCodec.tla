--------------------------- MODULE ResponseCodec ---------------------------
(***************************************************************************)
(* build_blocked_response(), build_response() and encode_domain_name() of  *)
(* src/dns/dns_packet.cpp, between two runs of the parser: the server      *)
(* parses a query with PacketParser.tla, builds the response, and whoever  *)
(* gets it (the tests) parses it with the same parser.                     *)
(*                                                                         *)
(* A name as a string is the sequence of its bytes.  The header and the    *)
(* fields of a question keep the sizes PacketParser gives them; the type   *)
(* of a question is the first byte of its fields, that of an answer the    *)
(* first byte behind its name.                                             *)
(***************************************************************************)
EXTENDS PacketParser, SequencesExt, FiniteSets

CONSTANTS TypeA, TypeAAAA,   \* QTYPE_A and QTYPE_AAAA
          RecordSizeA,       \* bytes of an answer behind its name: 14
          RecordSizeAAAA     \* 26

ASSUME CodecAssumption ==
  /\ TypeA \in 0..255 /\ TypeAAAA \in 0..255 /\ TypeA # TypeAAAA /\ FieldSize >= 1
  /\ HeaderSize \in 0..255                     \* the second byte of a pointer
  /\ RecordSizeA \in Nat \ {0} /\ RecordSizeAAAA \in Nat \ {0}

VARIABLES side,          \* who runs the parser: "server" or "client"
          fields,        \* where the fields of the questions parsed so far are
          an_count,      \* ANCOUNT of the response
          asked          \* history: the questions of the query, as the server read them

codecVars == <<side, fields, an_count, asked>>
allVars == <<vars, codecVars>>

Dot == 46

BytesAt(at, size) == [i \in 1..size |-> data[at + i - 1]]

\* The string that parse_domain_name() returns: the labels, joined by dots.  A
\* label may itself hold the byte of a dot.
Text(name) ==
  FlattenSeq([i \in 1..Len(name) |->
                (IF i = 1 THEN <<>> ELSE <<Dot>>) \o BytesAt(name[i].at, name[i].size)])

Questions == [q \in 1..Len(questions) |-> [name |-> Text(questions[q]),
                                           field |-> BytesAt(fields[q], FieldSize)]]

-----------------------------------------------------------------------------
\* Where the part of a string that begins at i ends: at a dot or behind the string
PartEnd(s, i) ==
  CHOOSE e \in i..(Len(s) + 1) : /\ e = Len(s) + 1 \/ s[e] = Dot
                                 /\ \A k \in i..(e - 1) : s[k] # Dot

\* getline() takes the parts of a string one after the other; empty ones are skipped.
LabelledFrom(s) ==
  LET from[i \in Nat] ==
        IF i > Len(s) THEN <<>>
        ELSE LET part == SubSeq(s, i, PartEnd(s, i) - 1) IN
             (IF part = <<>> THEN <<>> ELSE <<Len(part)>> \o part) \o from[PartEnd(s, i) + 1]
  IN from

Labelled(s) == LabelledFrom(s)[1]

\* Faulty variants: getline()'s empty parts are not skipped; the terminator is
\* forgotten; there is one answer whatever the number of questions.
EncodeEmptyParts(s) ==
  LET cuts == SetToSortSeq({0, Len(s) + 1} \cup {i \in 1..Len(s) : s[i] = Dot}, <) IN
  FlattenSeq([n \in 1..(Len(cuts) - 1) |->
                <<cuts[n + 1] - cuts[n] - 1>> \o SubSeq(s, cuts[n] + 1, cuts[n + 1] - 1)]) \o <<0>>
EncodeNoRoot(s) == Labelled(s)
AnswersOne(asking) ==
  [number |-> Len(asking),
   bytes |-> <<192, HeaderSize, TypeA>> \o [i \in 1..(RecordSizeA - 1) |-> 0]]

\* encode_domain_name()
Encode(s) == Labelled(s) \o <<0>>

\* So many answers of a type, each with a pointer to the first question's name
Records(number, type, size) ==
  [number |-> number,
   bytes |-> FlattenSeq([q \in 1..number |->
                           <<192, HeaderSize, type>> \o [i \in 1..(size - 1) |-> 0]])]

\* An answer for each question, of the first question's type; none for other types
\* than A and AAAA.
Answers(asking) ==
  CASE asking[1].field[1] = TypeA -> Records(Len(asking), TypeA, RecordSizeA)
    [] asking[1].field[1] = TypeAAAA -> Records(Len(asking), TypeAAAA, RecordSizeAAAA)
    [] OTHER -> [number |-> 0, bytes |-> <<>>]

Response(asking) ==
  [i \in 1..HeaderSize |-> 0]
    \o FlattenSeq([q \in 1..Len(asking) |-> Encode(asking[q].name) \o asking[q].field])
    \o Answers(asking).bytes

-----------------------------------------------------------------------------
CodecInit ==
  /\ Init
  /\ side = "server" /\ fields = <<>> /\ an_count = 0 /\ asked = <<>>

\* A step of the parser
Parse ==
  /\ Step
  /\ fields' = IF pc = "fields" /\ pc' # "failed" THEN Append(fields, offset) ELSE fields
  /\ UNCHANGED <<side, an_count, asked>>

\* handle_query() goes no further without a domain; whether it is blocked is left
\* open.
Respond ==
  LET bytes == Response(Questions) IN
  /\ side = "server" /\ pc = "done"
  /\ questions # <<>> /\ Text(questions[1]) # <<>>
  /\ side' = "client" /\ asked' = Questions /\ an_count' = Answers(Questions).number
  /\ data' = [i \in 0..(Len(bytes) - 1) |-> bytes[i + 1]] /\ length' = Len(bytes)
  /\ qd_count' = Len(questions)
  /\ pc' = "header" /\ offset' = 0 /\ start' = 0 /\ touched' = 0
  /\ jumped' = FALSE /\ original_offset' = 0 /\ iterations' = 0 /\ domain' = <<>>
  /\ questions' = <<>> /\ fields' = <<>>

CodecEnded == pc \in {"done", "failed"} /\ UNCHANGED allVars

CodecNext == Parse \/ Respond \/ CodecEnded

CodecSpec == CodecInit /\ [][CodecNext]_allVars /\ WF_allVars(Parse)

-----------------------------------------------------------------------------
\* Where the non-empty parts of a name begin
PartStarts(s) == {i \in 1..Len(s) : s[i] # Dot /\ (i = 1 \/ s[i - 1] = Dot)}

\* What is left of a name without the dots that begin or end it or follow a dot
Kept(s) == {i \in 1..Len(s) : \/ s[i] # Dot
                              \/ i > 1 /\ s[i - 1] # Dot /\ \E j \in i..Len(s) : s[j] # Dot}
SqueezedTo(s) ==
  LET upto[n \in 0..Len(s)] ==
        IF n = 0 THEN <<>>
        ELSE upto[n - 1] \o (IF n \in Kept(s) THEN <<s[n]>> ELSE <<>>)
  IN upto
Squeezed(s) == SqueezedTo(s)[Len(s)]

\* The response to a query that could be read asks the same questions: the same
\* names, up to empty parts that a dot inside of a label makes, of the same types
\* (dns_packet.cpp, lines 195-200, 283-287, 315-319).
SameQuestions ==
  side = "client" /\ pc = "done" =>
    Questions = [q \in 1..Len(asked) |-> [asked[q] EXCEPT !.name = Squeezed(@)]]

\* Such a response can be read, pointers and cut names of the query or not; the
\* one exception is a name of which dots inside of labels make more labels than
\* the parser takes.
ResponseReadable ==
  side = "client" /\ pc = "failed" =>
    \E q \in 1..Len(asked) : Cardinality(PartStarts(asked[q].name)) >= MaxIterations

\* How long an answer of a type is behind its name
SizeOf(type) == IF type = TypeA THEN RecordSizeA ELSE RecordSizeAAAA

\* Behind the questions are as many answers as ANCOUNT says and nothing else, all
\* of one type and as long as that type has it: one for each question when the first
\* asks for an address, or none.  The answer to a single question is about its name
\* and of its type (lines 190, 203-230, 247-300).  Which of several questions an
\* answer is about is not said here: README, section 4.
AnswersFit ==
  side = "client" /\ pc = "done" =>
    LET asks == Questions[1].field[1] IN
    \E type \in {TypeA, TypeAAAA} :
      LET At(a) == offset + a * (2 + SizeOf(type)) IN
      /\ an_count = IF asks \in {TypeA, TypeAAAA} THEN Len(questions) ELSE 0
      /\ length = At(an_count)
      /\ \A a \in 0..(an_count - 1) : data[At(a) + 2] = type
      /\ an_count = 1 =>
           /\ type = asks
           /\ IsPointer(data[offset]) /\ Target(data[offset], data[offset + 1]) = HeaderSize
=============================================================================
