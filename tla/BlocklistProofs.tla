-------------------------- MODULE BlocklistProofs --------------------------
(***************************************************************************)
(* Theorems about Blocklist, for any names, arguments and files.           *)
(***************************************************************************)
EXTENDS Blocklist, SequenceTheorems, WellFoundedInduction, TLAPS

-----------------------------------------------------------------------------
(* Text.                                                                   *)

LEMMA Least ==
  ASSUME NEW T, T \subseteq Nat, T # {}
  PROVE  \E x \in T : \A y \in T : x <= y
<1>1. PICK x \in T : \A y \in T : <<y, x>> \notin OpToRel(<, Nat)
  BY WFMin, NatLessThanWellFounded
<1>2. \A y \in T : ~(y < x)
  BY <1>1 DEF OpToRel
<1> QED
  BY <1>2

LEMMA Greatest ==
  ASSUME NEW n \in Nat, NEW T, T \subseteq 0..n, T # {}
  PROVE  \E x \in T : \A y \in T : x >= y
<1> DEFINE U == {n - x : x \in T}
<1>1. PICK u \in U : \A v \in U : u <= v
  <2>1. \A x \in T : n - x \in Nat
    OBVIOUS
  <2>2. U \subseteq Nat /\ U # {}
    BY <2>1
  <2> HIDE DEF U
  <2> QED
    BY <2>2, Least
<1>2. PICK x \in T : u = n - x
  OBVIOUS
<1>3. \A y \in T : n - x <= n - y
  BY <1>1, <1>2
<1> QED
  BY <1>3

\* Trim keeps a text a text.
LEMMA TrimText ==
  ASSUME NEW s \in Text
  PROVE  Trim(s) \in Text
<1> DEFINE ink == {i \in 1..Len(s) : s[i] # " "}
           m == CHOOSE i \in ink : \A j \in ink : i <= j
           n == CHOOSE i \in ink : \A j \in ink : i >= j
<1>1. Len(s) \in Nat /\ \A i \in 1..Len(s) : s[i] \in Char
  BY LenProperties, ElementOfSeq DEF Text
<1>2. CASE ink = {}
  BY <1>2, EmptySeq DEF Trim, Text
<1>3. CASE ink # {}
  <2>1. ink \subseteq 1..Len(s)
    OBVIOUS
  <2>6. 1..Len(s) \subseteq Nat /\ 1..Len(s) \subseteq 0..Len(s)
    BY <1>1
  <2>2. Trim(s) = SubSeq(s, m, n)
    BY <1>3 DEF Trim
  <2> HIDE DEF ink
  <2>3. m \in ink
    <3>1. \E i \in ink : \A j \in ink : i <= j
      BY <1>3, <2>1, <2>6, Least
    <3> QED
      BY <3>1
  <2>4. n \in ink
    <3>1. \E i \in ink : \A j \in ink : i >= j
      BY <1>1, <1>3, <2>1, <2>6, Greatest
    <3> QED
      BY <3>1
  <2> HIDE DEF m, n
  <2>5. m \in Int /\ n \in Int /\ \A i \in m..n : s[i] \in Char
    BY <1>1, <2>1, <2>3, <2>4
  <2> QED
    BY <2>2, <2>5, SubSeqProperties DEF Text
<1> QED
  BY <1>2, <1>3

LEMMA LowerOnce ==
  ASSUME NEW c \in Char
  PROVE  Lower(c) \in Char /\ Lower(Lower(c)) = Lower(c) /\ (Lower(c) = "*" <=> c = "*")
<1>1. /\ DOMAIN Capital = {"A", "B"}
      /\ Capital["A"] = "a" /\ Capital["B"] = "b"
  BY DEF Capital
<1> QED
  BY <1>1, BlocklistAssumption DEF Lower

\* A normalized text is a text that another normalization does not change, and
\* has its stars where they were.
LEMMA NormalizeOnce ==
  ASSUME NEW s \in Text
  PROVE  /\ normalize(s) \in Text /\ normalize(normalize(s)) = normalize(s)
         /\ IsWildcard(normalize(s)) <=> IsWildcard(s)
<1> DEFINE t == normalize(s)
<1>1. Len(s) \in Nat /\ \A i \in 1..Len(s) : s[i] \in Char
  BY LenProperties, ElementOfSeq DEF Text
<1>2. t = [i \in 1..Len(s) |-> Lower(s[i])]
  BY DEF normalize
<1>3. t \in Text
  <2>1. t \in [1..Len(s) -> Char]
    BY <1>1, <1>2, LowerOnce
  <2> HIDE DEF t
  <2> QED
    BY <1>1, <2>1, SeqDef DEF Text
<1>4. Len(t) = Len(s)
  BY <1>1, <1>2, <1>3, LenProperties DEF Text
<1> HIDE DEF t
<1>5. normalize(t) = t
  BY <1>1, <1>2, <1>4, LowerOnce DEF normalize
<1>6. IsWildcard(t) <=> IsWildcard(s)
  BY <1>1, <1>2, <1>4, LowerOnce DEF IsWildcard
<1> QED
  BY <1>3, <1>5, <1>6 DEF t

\* The loop that cuts a name at its dots meets exactly the domains that the name
\* is or lies under.
LEMMA ParentsAreEndings ==
  ASSUME NEW s \in Text, NEW d \in Text
  PROVE  d \in Parents(s) <=> IsOrIsUnder(s, d)
<1> DEFINE e == <<".">> \o d
<1>1. /\ Len(s) \in Nat /\ Len(d) \in Nat
      /\ \A i \in 1..Len(s) : s[i] \in Char
      /\ d = [i \in 1..Len(d) |-> d[i]]
  BY LenProperties, ElementOfSeq DEF Text
<1>2. /\ Len(e) = Len(d) + 1 /\ e[1] = "."
      /\ \A k \in 1..Len(d) : e[k + 1] = d[k]
  <2> DEFINE dot == <<".">>
  <2>1. "." \in Char /\ Len(dot) = 1 /\ dot[1] = "."
    BY BlocklistAssumption
  <2>2. dot \in Seq(Char)
    BY <2>1
  <2> HIDE DEF dot
  <2>3. /\ Len(dot \o d) = 1 + Len(d)
        /\ \A i \in 1..(1 + Len(d)) : (dot \o d)[i] = IF i <= 1 THEN dot[i] ELSE d[i - 1]
    <3>1. /\ Len(dot \o d) = Len(dot) + Len(d)
          /\ \A i \in 1..(Len(dot) + Len(d)) :
               (dot \o d)[i] = IF i <= Len(dot) THEN dot[i] ELSE d[i - Len(dot)]
      BY <2>2, ConcatProperties DEF Text
    <3> QED
      BY <2>1, <3>1
  <2> QED
    BY <1>1, <2>1, <2>2, <2>3 DEF dot
<1> HIDE DEF e
<1> DEFINE rest(i) == SubSeq(s, i + 1, Len(s))
<1>3. ASSUME NEW i \in 1..Len(s)
      PROVE  /\ rest(i) \in Seq(Char) /\ Len(rest(i)) = Len(s) - i
             /\ \A k \in 1..(Len(s) - i) : rest(i)[k] = s[i + k]
  <2>1. i + 1 \in Int /\ Len(s) \in Int /\ \A k \in (i + 1)..Len(s) : s[k] \in Char
    BY <1>1
  <2>2. /\ rest(i) \in Seq(Char)
        /\ Len(rest(i)) = IF i + 1 <= Len(s) THEN Len(s) - (i + 1) + 1 ELSE 0
        /\ \A k \in 1..(Len(s) - (i + 1) + 1) : rest(i)[k] = s[i + 1 + k - 1]
    BY <2>1, SubSeqProperties
  <2> HIDE DEF rest
  <2> QED
    BY <1>1, <2>2
<1> HIDE DEF rest
<1>4. ASSUME NEW i \in 1..Len(s), s[i] = ".", d = rest(i)
      PROVE  EndsWith(s, e)
  <2>1. Len(d) = Len(s) - i /\ \A k \in 1..Len(d) : d[k] = s[i + k]
    BY <1>3, <1>4
  <2>2. Len(s) - Len(e) = i - 1
    BY <1>1, <1>2, <2>1
  <2>3. ASSUME NEW k \in 1..Len(e) PROVE s[i - 1 + k] = e[k]
    <3>1. CASE k = 1
      BY <1>2, <1>4, <3>1
    <3>2. CASE k # 1
      <4>1. k - 1 \in 1..Len(d)
        BY <1>1, <1>2, <3>2
      <4>2. e[k] = d[k - 1] /\ d[k - 1] = s[i + (k - 1)]
        BY <1>2, <2>1, <4>1
      <4> QED
        BY <4>2
    <3> QED
      BY <3>1, <3>2
  <2> QED
    BY <1>1, <1>2, <2>1, <2>2, <2>3 DEF EndsWith
<1>5. ASSUME EndsWith(s, e)
      PROVE  \E i \in 1..Len(s) : s[i] = "." /\ d = rest(i)
  <2> DEFINE i == Len(s) - Len(d)
  <2>1. i \in 1..Len(s) /\ \A k \in 1..(Len(d) + 1) : s[i - 1 + k] = e[k]
    BY <1>1, <1>2, <1>5 DEF EndsWith
  <2>2. s[i] = "."
    BY <1>1, <1>2, <2>1
  <2>3. Len(rest(i)) = Len(d) /\ rest(i) \in Seq(Char)
    BY <1>1, <1>3, <2>1
  <2>4. ASSUME NEW k \in 1..Len(d) PROVE rest(i)[k] = d[k]
    <3>1. rest(i)[k] = s[i + k]
      BY <1>1, <1>3, <2>1, Len(s) - i = Len(d)
    <3>2. s[i - 1 + (k + 1)] = e[k + 1]
      BY <1>1, <2>1
    <3> QED
      BY <1>1, <1>2, <3>1, <3>2
  <2>5. rest(i) = d
    BY <2>3, <2>4, SeqEqual DEF Text
  <2> QED
    BY <2>1, <2>2, <2>5
<1>6. d \in Parents(s) <=> d = s \/ \E i \in 1..Len(s) : s[i] = "." /\ d = rest(i)
  BY DEF Parents, rest
<1> QED
  BY <1>4, <1>5, <1>6 DEF IsOrIsUnder, e

-----------------------------------------------------------------------------
(* Lists.                                                                  *)

\* The exact domains of a list are normalized and have no stars, its wildcards
\* have one.
ExactOnly(domains) == \A d \in domains : d \in Text /\ ~IsWildcard(d) /\ normalize(d) = d
WildOnly(wildcards) == \A p \in wildcards : p \in Text /\ IsWildcard(p)

\* The two loops find what an entry of the list covers.
LEMMA OnListMeaning ==
  ASSUME NEW domains, NEW wildcards, ExactOnly(domains), WildOnly(wildcards), NEW n \in Text
  PROVE  OnList(normalize(n), domains, wildcards) <=>
           \E e \in domains \cup wildcards : CoveredBy(e, n)
<1>1. normalize(n) \in Text
  BY NormalizeOnce
<1>2. ASSUME NEW d \in domains
      PROVE  CoveredBy(d, n) <=> d \in Parents(normalize(n))
  BY <1>1, <1>2, ParentsAreEndings DEF ExactOnly, CoveredBy
<1>3. ASSUME NEW p \in wildcards
      PROVE  CoveredBy(p, n) <=> Matches(p, normalize(n))
  BY <1>3 DEF WildOnly, CoveredBy
<1>4. Parents(normalize(n)) \cap domains # {} <=> \E d \in domains : d \in Parents(normalize(n))
  OBVIOUS
<1> QED
  BY <1>2, <1>3, <1>4 DEF OnList

\* What is loaded from a file, or added by a call, is put on a list in two parts
\* that cover the same names.
LEMMA PartsCover ==
  ASSUME NEW entries, entries \subseteq Text
  PROVE  /\ ExactOnly(Exact(entries)) /\ WildOnly(Wildcards(entries))
         /\ \A n : (\E e \in Exact(entries) \cup Wildcards(entries) : CoveredBy(e, n)) <=>
                     \E e \in entries : CoveredBy(e, n)
<1>1. ASSUME NEW e \in entries, ~IsWildcard(e)
      PROVE  /\ normalize(e) \in Text /\ ~IsWildcard(normalize(e))
             /\ normalize(normalize(e)) = normalize(e)
             /\ \A n : CoveredBy(normalize(e), n) <=> CoveredBy(e, n)
  <2>1. e \in Text
    OBVIOUS
  <2>2. /\ normalize(e) \in Text /\ ~IsWildcard(normalize(e))
        /\ normalize(normalize(e)) = normalize(e)
    BY <1>1, <2>1, NormalizeOnce
  <2> QED
    BY <1>1, <2>2 DEF CoveredBy
<1>2. ExactOnly(Exact(entries))
  BY <1>1 DEF ExactOnly, Exact
<1>3. WildOnly(Wildcards(entries))
  BY DEF WildOnly, Wildcards
<1>4. ASSUME NEW n
      PROVE  (\E e \in Exact(entries) \cup Wildcards(entries) : CoveredBy(e, n)) <=>
               \E e \in entries : CoveredBy(e, n)
  BY <1>1 DEF Exact, Wildcards
<1> QED
  BY <1>2, <1>3, <1>4

LEMMA LoadedText ==
  ASSUME NEW file \in Seq(Text) \cup {NoFile}
  PROVE  Loaded(file) \subseteq Text
<1>1. CASE file = NoFile
  BY <1>1 DEF Loaded
<1>2. CASE file # NoFile
  <2>1. file \in Seq(Text)
    BY <1>2
  <2>2. \A i \in 1..Len(file) : Trim(file[i]) \in Text
    BY <2>1, TrimText, ElementOfSeq
  <2> QED
    BY <1>2, <2>2 DEF Loaded
<1> QED
  BY <1>1, <1>2

\* Nothing of a file is left out that can be loaded.
LEMMA LoadedAll ==
  ASSUME NEW file \in Seq(Text) \cup {NoFile}, ~Throws(file)
  PROVE  Loaded(file) = InFile(file)
<1>1. CASE file = NoFile
  BY <1>1 DEF Loaded, InFile
<1>2. CASE file # NoFile
  <2>1. Len(file) \in Nat
    BY <1>2, LenProperties
  <2>2. \A i \in 1..Len(file) : ~Rejected(Trim(file[i]))
    BY <1>2 DEF Throws
  <2>3. {k \in 1..Len(file) : \A j \in 1..k : ~Rejected(Trim(file[j]))} = 1..Len(file)
    BY <2>1, <2>2
  <2>4. Loaded(file) = {l \in {Trim(file[i]) : i \in 1..Len(file)} : ~Skipped(l)}
    BY <1>2, <2>3 DEF Loaded
  <2>5. InFile(file) = {Trim(file[i]) : i \in {k \in 1..Len(file) : ~Skipped(Trim(file[k]))}}
    BY <1>2 DEF InFile
  <2> QED
    BY <2>4, <2>5
<1> QED
  BY <1>1, <1>2

-----------------------------------------------------------------------------
(* The invariant.                                                          *)

Kept ==
  /\ ExactOnly(blocked_domains) /\ WildOnly(blocked_wildcards)
  /\ ExactOnly(whitelisted_domains) /\ WildOnly(whitelisted_wildcards)

\* A list is what a file holds.
Holds(file, domains, wildcards) ==
  /\ ~Throws(file)
  /\ domains = Exact(Loaded(file)) /\ wildcards = Wildcards(Loaded(file))

\* How far a reload has come, when nobody else changes the lists.
Reloaded ==
  ~touched =>
    /\ rpc = "load" => blocked_domains = {} /\ blocked_wildcards = {}
    /\ rpc \in {"load", "load_whitelist"} => whitelisted_domains = {} /\ whitelisted_wildcards = {}
    /\ rpc \in {"load_whitelist", "idle"} => Holds(read.block, blocked_domains, blocked_wildcards)
    /\ rpc = "idle" => Holds(read.white, whitelisted_domains, whitelisted_wildcards)

Control ==
  /\ rpc \in {"load", "load_whitelist", "idle", "terminated"}
  /\ read \in [block : BlockFiles \cup {NoFile}, white : WhiteFiles \cup {NoFile}]
  /\ touched \in BOOLEAN

IInv == Control /\ Kept /\ Reloaded

LEMMA Files ==
  /\ \A file \in BlockFiles \cup {NoFile} : file \in Seq(Text) \cup {NoFile}
  /\ \A file \in WhiteFiles \cup {NoFile} : file \in Seq(Text) \cup {NoFile}
BY BlocklistAssumption

LEMMA InitInvariant == Init => IInv
<1> SUFFICES ASSUME Init PROVE IInv
  OBVIOUS
<1>1. Control
  BY DEF Init, Control
<1>2. Kept
  BY DEF Init, Kept, ExactOnly, WildOnly
<1>3. Reloaded
  BY DEF Init, Reloaded
<1> QED
  BY <1>1, <1>2, <1>3 DEF IInv

LEMMA ClearInvariant == IInv /\ Clear => IInv'
<1> SUFFICES ASSUME IInv, Clear PROVE IInv'
  OBVIOUS
<1>1. Control'
  BY DEF Clear, Control
<1>2. Kept'
  BY DEF Clear, Kept, ExactOnly, WildOnly
<1>3. Reloaded'
  BY DEF Clear, Reloaded
<1> QED
  BY <1>1, <1>2, <1>3 DEF IInv

LEMMA LoadInvariant ==
  ASSUME IInv, NEW file \in BlockFiles \cup {NoFile}, Load(file)
  PROVE  IInv'
<1> USE DEF IInv, Load, whitelist
<1>1. (rpc' = "load_whitelist" /\ ~Throws(file)) \/ rpc' = "terminated"
  BY DEF After
<1>2. Control'
  BY <1>1 DEF Control
<1>3. ExactOnly(Exact(Loaded(file))) /\ WildOnly(Wildcards(Loaded(file)))
  BY Files, LoadedText, PartsCover
<1>4. Kept'
  BY <1>3 DEF Kept, ExactOnly, WildOnly
<1>5. read'.block = file /\ read'.white = read.white
  BY DEF Control
<1>6. Reloaded'
  BY <1>1, <1>5 DEF Reloaded, Holds, Control
<1> QED
  BY <1>2, <1>4, <1>6

LEMMA LoadWhitelistInvariant ==
  ASSUME IInv, NEW file \in WhiteFiles \cup {NoFile}, LoadWhitelist(file)
  PROVE  IInv'
<1> USE DEF IInv, LoadWhitelist, blocklist
<1>1. (rpc' = "idle" /\ ~Throws(file)) \/ rpc' = "terminated"
  BY DEF After
<1>2. Control'
  BY <1>1 DEF Control
<1>3. ExactOnly(Exact(Loaded(file))) /\ WildOnly(Wildcards(Loaded(file)))
  BY Files, LoadedText, PartsCover
<1>4. Kept'
  BY <1>3 DEF Kept, ExactOnly, WildOnly
<1>5. read'.white = file /\ read'.block = read.block
  BY DEF Control
<1>6. Reloaded'
  BY <1>1, <1>5 DEF Reloaded, Holds, Control
<1> QED
  BY <1>2, <1>4, <1>6

\* The calls of the rest of the interface: they mark the lists as touched.
LEMMA CallInvariant ==
  ASSUME IInv, NEW e \in Argument,
         \/ AddDomain(e) \/ AddWildcard(e) \/ Remove(e)
         \/ WhitelistDomain(e) \/ WhitelistWildcard(e) \/ Unwhitelist(e)
  PROVE  IInv'
<1> USE DEF IInv
<1>1. e \in Text /\ (~IsWildcard(e) => ~IsWildcard(normalize(e)))
      /\ normalize(e) \in Text /\ normalize(normalize(e)) = normalize(e)
  BY BlocklistAssumption, NormalizeOnce
<1>2. Touch
  BY DEF AddDomain, AddWildcard, Remove, WhitelistDomain, WhitelistWildcard, Unwhitelist
<1>3. Control' /\ Reloaded'
  BY <1>2 DEF Touch, Control, Reloaded
<1>4. Kept'
  <2> USE <1>1 DEF Kept, ExactOnly, WildOnly, blocklist, whitelist
  <2>1. CASE AddDomain(e)
    BY <2>1 DEF AddDomain
  <2>2. CASE AddWildcard(e)
    BY <2>2 DEF AddWildcard
  <2>3. CASE Remove(e)
    BY <2>3 DEF Remove
  <2>4. CASE WhitelistDomain(e)
    BY <2>4 DEF WhitelistDomain
  <2>5. CASE WhitelistWildcard(e)
    BY <2>5 DEF WhitelistWildcard
  <2>6. CASE Unwhitelist(e)
    BY <2>6 DEF Unwhitelist
  <2> QED
    BY <2>1, <2>2, <2>3, <2>4, <2>5, <2>6
<1> QED
  BY <1>3, <1>4

LEMMA StepInvariant == IInv /\ [Next]_vars => IInv'
<1> SUFFICES ASSUME IInv, [Next]_vars PROVE IInv'
  OBVIOUS
<1>1. CASE Terminated \/ UNCHANGED vars
  BY <1>1 DEF Terminated, vars, blocklist, whitelist, history, IInv, Control, Kept, Reloaded
<1> QED
  BY <1>1, ClearInvariant, LoadInvariant, LoadWhitelistInvariant, CallInvariant DEF Next

LEMMA Invariant == Spec => []IInv
BY InitInvariant, StepInvariant, PTL DEF Spec

-----------------------------------------------------------------------------
\* Every variable keeps its type (blocklist.hpp, lines 56-61).
THEOREM TypeCorrect == Spec => []TypeOK
<1>1. IInv => TypeOK
  BY DEF IInv, Control, Kept, ExactOnly, WildOnly, TypeOK
<1> QED
  BY <1>1, Invariant, PTL

LEMMA Verdict ==
  ASSUME IInv
  PROVE  VerdictIsRight
<1> SUFFICES ASSUME NEW name \in Domain
             PROVE  is_blocked(name) <=>
                      Blocks(blocked_domains \cup blocked_wildcards,
                             whitelisted_domains \cup whitelisted_wildcards, name)
  BY DEF VerdictIsRight
<1>1. name \in Text
  BY BlocklistAssumption
<1> QED
  BY <1>1, OnListMeaning DEF IInv, Kept, is_blocked, Blocks

\* Whatever is added, removed and reloaded, a name is blocked when it is a blocked
\* domain, lies under one or matches a wildcard, and is not on the whitelist in
\* the same way (blocklist.cpp, lines 101-142).
THEOREM VerdictsAreRight == Spec => []VerdictIsRight
BY Verdict, Invariant, PTL

LEMMA FilesDecide ==
  ASSUME IInv, rpc = "idle", ~touched
  PROVE  \A name \in Domain :
           is_blocked(name) <=> Blocks(InFile(read.block), InFile(read.white), name)
<1> SUFFICES ASSUME NEW name \in Domain
             PROVE  is_blocked(name) <=> Blocks(InFile(read.block), InFile(read.white), name)
  OBVIOUS
<1>1. /\ Holds(read.block, blocked_domains, blocked_wildcards)
      /\ Holds(read.white, whitelisted_domains, whitelisted_wildcards)
  BY DEF IInv, Reloaded
<1>2. read.block \in Seq(Text) \cup {NoFile} /\ read.white \in Seq(Text) \cup {NoFile}
  BY Files DEF IInv, Control
<1>3. (\E e \in blocked_domains \cup blocked_wildcards : CoveredBy(e, name)) <=>
        \E e \in InFile(read.block) : CoveredBy(e, name)
  BY <1>1, <1>2, LoadedText, LoadedAll, PartsCover DEF Holds
<1>4. (\E e \in whitelisted_domains \cup whitelisted_wildcards : CoveredBy(e, name)) <=>
        \E e \in InFile(read.white) : CoveredBy(e, name)
  BY <1>1, <1>2, LoadedText, LoadedAll, PartsCover DEF Holds
<1>5. is_blocked(name) <=>
        Blocks(blocked_domains \cup blocked_wildcards,
               whitelisted_domains \cup whitelisted_wildcards, name)
  BY Verdict DEF VerdictIsRight
<1> QED
  BY <1>3, <1>4, <1>5 DEF Blocks

\* A reload leaves the two files' entries on the lists and nothing else
\* (blocklist.cpp, lines 40-96; main.cpp, lines 26-35).
THEOREM ReloadsAreComplete == Spec => []ReloadIsComplete
<1>1. IInv => ReloadIsComplete
  BY FilesDecide DEF ReloadIsComplete
<1> QED
  BY <1>1, Invariant, PTL

\* What every version of the whitelist covers is refused only inside a reload, or
\* after one that found no whitelist (main.cpp, lines 29-31).
THEOREM ReloadWindowOnly == Spec => []ReloadWindow
<1>1. IInv => ReloadWindow
  <2> SUFFICES ASSUME IInv, ~touched, rpc \notin {"load_whitelist", "terminated"},
                      NEW name \in Domain,
                      \A file \in WhiteFiles : \E e \in InFile(file) : CoveredBy(e, name),
                      is_blocked(name)
               PROVE  rpc = "idle" /\ read.white = NoFile
    BY DEF ReloadWindow
  <2>1. CASE rpc = "load"
    <3>1. blocked_domains = {} /\ blocked_wildcards = {}
      BY <2>1 DEF IInv, Reloaded
    <3> QED
      BY <3>1 DEF is_blocked, OnList
  <2>2. CASE rpc = "idle"
    <3>1. ~\E e \in InFile(read.white) : CoveredBy(e, name)
      BY <2>2, FilesDecide DEF Blocks
    <3> QED
      BY <2>2, <3>1 DEF IInv, Control
  <2> QED
    BY <2>1, <2>2 DEF IInv, Control
<1> QED
  BY <1>1, Invariant, PTL

-----------------------------------------------------------------------------
(* The lists implement NameLists.                                          *)

LEMMA EntryText == Entry \subseteq Text
<1>1. \A f \in BlockFiles \cup WhiteFiles : Loaded(f) \subseteq Text
  BY Files, LoadedText
<1> QED
  BY <1>1, BlocklistAssumption DEF Entry

LEMMA CoveredMeaning ==
  ASSUME NEW domains, NEW wildcards, ExactOnly(domains), WildOnly(wildcards), NEW n \in Domain
  PROVE  n \in Covered(domains, wildcards) <=> \E e \in domains \cup wildcards : CoveredBy(e, n)
BY OnListMeaning, BlocklistAssumption DEF Covered

\* Entries put on a list bring all the names they cover and no others.
LEMMA Gains ==
  ASSUME NEW domains, NEW wildcards, ExactOnly(domains), WildOnly(wildcards),
         NEW entries, entries \subseteq Entry
  PROVE  Lists!Extends(Covered(domains, wildcards),
                       Covered(domains \cup Exact(entries), wildcards \cup Wildcards(entries)))
<1> DEFINE moreDomains == domains \cup Exact(entries)
           moreWildcards == wildcards \cup Wildcards(entries)
<1>1. entries \subseteq Text
  BY EntryText
<1>2. /\ ExactOnly(Exact(entries)) /\ WildOnly(Wildcards(entries))
      /\ \A n : (\E e \in Exact(entries) \cup Wildcards(entries) : CoveredBy(e, n)) <=>
                  \E e \in entries : CoveredBy(e, n)
  BY <1>1, PartsCover
<1>3. ExactOnly(moreDomains) /\ WildOnly(moreWildcards)
  BY <1>2 DEF ExactOnly, WildOnly
<1>4. \A n \in Domain :
        n \in Covered(moreDomains, moreWildcards) <=>
          n \in Covered(domains, wildcards) \/ \E e \in entries : CoveredBy(e, n)
  <2> SUFFICES ASSUME NEW n \in Domain
               PROVE  n \in Covered(moreDomains, moreWildcards) <=>
                        n \in Covered(domains, wildcards) \/ \E e \in entries : CoveredBy(e, n)
    OBVIOUS
  <2>1. n \in Covered(domains, wildcards) <=> \E e \in domains \cup wildcards : CoveredBy(e, n)
    BY CoveredMeaning
  <2> HIDE DEF moreDomains, moreWildcards
  <2>2. n \in Covered(moreDomains, moreWildcards) <=>
          \E e \in moreDomains \cup moreWildcards : CoveredBy(e, n)
    BY <1>3, CoveredMeaning
  <2> QED
    BY <1>2, <2>1, <2>2 DEF moreDomains, moreWildcards
<1> HIDE DEF moreDomains, moreWildcards
<1>5. \A d, w : Covered(d, w) \subseteq Domain
  BY DEF Covered
<1>6. Covered(domains, wildcards) \subseteq Covered(moreDomains, moreWildcards)
  BY <1>4, <1>5
<1>7. ASSUME NEW n \in Covered(moreDomains, moreWildcards) \ Covered(domains, wildcards)
      PROVE  \E e \in Entry : /\ n \in Covers[e]
                              /\ Covers[e] \subseteq Covered(moreDomains, moreWildcards)
  <2>1. PICK e \in entries : CoveredBy(e, n)
    BY <1>4, <1>5
  <2>2. e \in Entry /\ Covers[e] = {m \in Domain : CoveredBy(e, m)}
    BY DEF Covers
  <2> QED
    BY <1>4, <1>5, <2>1, <2>2
<1> QED
  BY <1>6, <1>7 DEF Lists!Extends, moreDomains, moreWildcards

\* A domain taken from a list takes only names with it that it covers.
LEMMA Loses ==
  ASSUME NEW domains, NEW wildcards, ExactOnly(domains), WildOnly(wildcards),
         NEW e \in Argument
  PROVE  Lists!Shrinks(Covered(domains, wildcards),
                       Covered(domains \ {normalize(e)}, wildcards), e)
<1> DEFINE less == domains \ {normalize(e)}
<1>1. ExactOnly(less)
  BY DEF ExactOnly
<1> HIDE DEF less
<1>2. ASSUME NEW n \in Domain
      PROVE  /\ n \in Covered(domains, wildcards) <=>
                  \E x \in domains \cup wildcards : CoveredBy(x, n)
             /\ n \in Covered(less, wildcards) <=>
                  \E x \in less \cup wildcards : CoveredBy(x, n)
  BY <1>1, CoveredMeaning
<1>3. e \in Text /\ e \in Entry /\ Covers[e] = {m \in Domain : CoveredBy(e, m)}
  BY BlocklistAssumption DEF Entry, Covers
<1>4. normalize(e) \in domains => \A n : CoveredBy(normalize(e), n) => CoveredBy(e, n)
  BY <1>3, NormalizeOnce DEF ExactOnly, CoveredBy
<1>5. \A d, w : Covered(d, w) \subseteq Domain
  BY DEF Covered
<1>6. Covered(less, wildcards) \subseteq Covered(domains, wildcards)
  BY <1>2, <1>5 DEF less
<1>7. ASSUME NEW n \in Covered(domains, wildcards) \ Covered(less, wildcards)
      PROVE  n \in Covers[e]
  <2>1. n \in Domain
    BY <1>5
  <2>2. normalize(e) \in domains /\ CoveredBy(normalize(e), n)
    BY <1>2, <2>1 DEF less
  <2> QED
    BY <1>3, <1>4, <2>1, <2>2
<1> QED
  BY <1>6, <1>7 DEF Lists!Shrinks, less

LEMMA OneEntry ==
  ASSUME NEW e
  PROVE  /\ ~IsWildcard(e) => Exact({e}) = {normalize(e)} /\ Wildcards({e}) = {}
         /\ IsWildcard(e) => Exact({e}) = {} /\ Wildcards({e}) = {e}
BY DEF Exact, Wildcards

LEMMA InitImplements == Init => Lists!Init
BY DEF Init, Lists!Init, Covered, OnList

\* A load puts the entries it gets to on the list; a missing file has none.
LEMMA LoadsImplement ==
  ASSUME IInv,
         \/ \E file \in BlockFiles \cup {NoFile} : Load(file)
         \/ \E file \in WhiteFiles \cup {NoFile} : LoadWhitelist(file)
  PROVE  Lists!Next
<1>1. \A file \in BlockFiles \cup WhiteFiles \cup {NoFile} : Loaded(file) \subseteq Entry
  BY DEF Loaded, Entry
<1>2. CASE \E file \in BlockFiles \cup {NoFile} : Load(file)
  <2>1. PICK file \in BlockFiles \cup {NoFile} : Load(file)
    BY <1>2
  <2>2. Lists!Extends(Covered(blocked_domains, blocked_wildcards),
                     Covered(blocked_domains', blocked_wildcards'))
    BY <1>1, <2>1, Gains DEF Load, IInv, Kept
  <2>3. UNCHANGED Covered(whitelisted_domains, whitelisted_wildcards)
    BY <2>1 DEF Load, whitelist, Covered
  <2>4. Lists!Block
    BY <2>2, <2>3 DEF Lists!Block, Covered
  <2> QED
    BY <2>4 DEF Lists!Next
<1>3. CASE \E file \in WhiteFiles \cup {NoFile} : LoadWhitelist(file)
  <2>1. PICK file \in WhiteFiles \cup {NoFile} : LoadWhitelist(file)
    BY <1>3
  <2>2. Lists!Extends(Covered(whitelisted_domains, whitelisted_wildcards),
                     Covered(whitelisted_domains', whitelisted_wildcards'))
    BY <1>1, <2>1, Gains DEF LoadWhitelist, IInv, Kept
  <2>3. UNCHANGED Covered(blocked_domains, blocked_wildcards)
    BY <2>1 DEF LoadWhitelist, blocklist, Covered
  <2>4. Lists!Allow
    BY <2>2, <2>3 DEF Lists!Allow, Covered
  <2> QED
    BY <2>4 DEF Lists!Next
<1> QED
  BY <1>2, <1>3

LEMMA CallsImplement ==
  ASSUME IInv, NEW e \in Argument,
         \/ AddDomain(e) \/ AddWildcard(e) \/ Remove(e)
         \/ WhitelistDomain(e) \/ WhitelistWildcard(e) \/ Unwhitelist(e)
  PROVE  Lists!Next
<1>1. e \in Entry /\ {e} \subseteq Entry
  BY DEF Entry
<1> USE DEF IInv, Kept, blocklist, whitelist
<1>2. CASE AddDomain(e) \/ AddWildcard(e)
  <2>1. /\ blocked_domains' = blocked_domains \cup Exact({e})
        /\ blocked_wildcards' = blocked_wildcards \cup Wildcards({e})
        /\ UNCHANGED whitelist
    BY <1>2, OneEntry DEF AddDomain, AddWildcard
  <2>2. Lists!Extends(Covered(blocked_domains, blocked_wildcards),
                     Covered(blocked_domains', blocked_wildcards'))
    BY <1>1, <2>1, Gains
  <2>3. UNCHANGED Covered(whitelisted_domains, whitelisted_wildcards)
    BY <2>1 DEF Covered
  <2>4. Lists!Block
    BY <2>2, <2>3 DEF Lists!Block, Covered
  <2> QED
    BY <2>4 DEF Lists!Next
<1>3. CASE WhitelistDomain(e) \/ WhitelistWildcard(e)
  <2>1. /\ whitelisted_domains' = whitelisted_domains \cup Exact({e})
        /\ whitelisted_wildcards' = whitelisted_wildcards \cup Wildcards({e})
        /\ UNCHANGED blocklist
    BY <1>3, OneEntry DEF WhitelistDomain, WhitelistWildcard
  <2>2. Lists!Extends(Covered(whitelisted_domains, whitelisted_wildcards),
                     Covered(whitelisted_domains', whitelisted_wildcards'))
    BY <1>1, <2>1, Gains
  <2>3. UNCHANGED Covered(blocked_domains, blocked_wildcards)
    BY <2>1 DEF Covered
  <2>4. Lists!Allow
    BY <2>2, <2>3 DEF Lists!Allow, Covered
  <2> QED
    BY <2>4 DEF Lists!Next
<1>4. CASE Remove(e)
  <2>1. Lists!Unblock
    BY <1>1, <1>4, Loses DEF Remove, Lists!Unblock, Covered
  <2> QED
    BY <2>1 DEF Lists!Next
<1>5. CASE Unwhitelist(e)
  <2>1. Lists!Disallow
    BY <1>1, <1>5, Loses DEF Unwhitelist, Lists!Disallow, Covered
  <2> QED
    BY <2>1 DEF Lists!Next
<1> QED
  BY <1>2, <1>3, <1>4, <1>5

LEMMA StepImplements ==
  ASSUME IInv, [Next]_vars
  PROVE  [Lists!Next]_<<Covered(blocked_domains, blocked_wildcards),
                        Covered(whitelisted_domains, whitelisted_wildcards)>>
<1>1. CASE Clear
  <2>1. Lists!Clear
    BY <1>1 DEF Clear, Lists!Clear, Covered, OnList
  <2> QED
    BY <2>1 DEF Lists!Next
<1>2. CASE Terminated \/ UNCHANGED vars
  BY <1>2 DEF Terminated, vars, blocklist, whitelist, Covered
<1> QED
  BY <1>1, <1>2, LoadsImplement, CallsImplement DEF Next

\* The containers with their exact, parent and wildcard matching implement two
\* sets of names that entries are added to and taken from (blocklist.hpp, lines
\* 14-54).
THEOREM Refinement == Spec => ImplementsNameLists
BY InitImplements, StepImplements, Invariant, PTL DEF ImplementsNameLists, Lists!Spec, Spec
=============================================================================
