----------------------------- MODULE Blocklist -----------------------------
(***************************************************************************)
(* src/blocker/blocklist.cpp: the blocklist and the whitelist, each a set  *)
(* of exact domains and a vector of compiled wildcards, which is the set   *)
(* of their patterns here; and the two places of src/main.cpp that fill    *)
(* them, main() and reload_handler().                                      *)
(*                                                                         *)
(* Every call holds the mutex and is one step; a reload is three of them.  *)
(* A name is a sequence of characters, because where its dots and its      *)
(* stars are decides what matches.  Of the characters that have a meaning  *)
(* in a regular expression only "[" is kept, which std::regex rejects when *)
(* nothing closes it.                                                      *)
(***************************************************************************)
EXTENDS Naturals, Sequences

CONSTANTS Char,         \* the characters of names and lines
          Domain,       \* the names that are asked for
          Argument,     \* what add(), remove(), whitelist() and unwhitelist() are called with
          BlockFiles,   \* what blocklist.txt may hold, a sequence of lines
          WhiteFiles,   \* what whitelist.txt may hold
          NoFile        \* a file that cannot be opened

Text == Seq(Char)

ASSUME BlocklistAssumption ==
  /\ {".", "a", "b"} \subseteq Char
  /\ Domain \subseteq Text /\ Argument \subseteq Text
  /\ BlockFiles \subseteq Seq(Text) /\ WhiteFiles \subseteq Seq(Text)
  /\ NoFile \notin Seq(Text)

VARIABLES blocked_domains,       \* blocked_domains_
          blocked_wildcards,     \* blocked_wildcards_, the patterns it was compiled from
          whitelisted_domains,   \* whitelisted_domains_
          whitelisted_wildcards, \* whitelisted_wildcards_
          rpc,                   \* what main() or reload_handler() does next
          read,                  \* history: what the two files held when they were last read
          touched                \* history: has one of the lists been changed since the last
                                 \* clear() by another call than a load?

blocklist == <<blocked_domains, blocked_wildcards>>
whitelist == <<whitelisted_domains, whitelisted_wildcards>>
history == <<read, touched>>
vars == <<blocklist, whitelist, rpc, history>>

-----------------------------------------------------------------------------
\* Text

\* std::tolower(), for the letters of the instances
Capital == [A |-> "a", B |-> "b"]
Lower(c) == IF c \in DOMAIN Capital THEN Capital[c] ELSE c

normalize(s) == [i \in 1..Len(s) |-> Lower(s[i])]

\* A line without the blanks around it
Trim(s) ==
  LET ink == {i \in 1..Len(s) : s[i] # " "} IN
  IF ink = {} THEN <<>>
  ELSE SubSeq(s, CHOOSE i \in ink : \A j \in ink : i <= j,
                 CHOOSE i \in ink : \A j \in ink : i >= j)

IsWildcard(s) == \E i \in 1..Len(s) : s[i] = "*"
Compiles(s) == \A i \in 1..Len(s) : s[i] # "["

\* regex_match() of a compiled wildcard: a star stands for any characters, dots
\* included, any other character for itself in either case.
Matches(pattern, s) ==
  LET from[i \in 1..(Len(pattern) + 1), j \in 1..(Len(s) + 1)] ==
        IF i > Len(pattern) THEN j > Len(s)
        ELSE IF pattern[i] = "*" THEN from[i + 1, j] \/ (j <= Len(s) /\ from[i, j + 1])
        ELSE j <= Len(s) /\ Lower(pattern[i]) = Lower(s[j]) /\ from[i + 1, j + 1]
  IN from[1, 1]

\* A faulty variant: the end of a name is compared without regard to its dots.
Endings(s) == {SubSeq(s, i, Len(s)) : i \in 1..Len(s)}

\* The name and what is left of it behind each of its dots
Parents(s) ==
  {s} \cup {SubSeq(s, i + 1, Len(s)) : i \in {j \in 1..Len(s) : s[j] = "."}}

\* The two loops over the wildcards and over the parents
OnList(check, domains, wildcards) ==
  \/ \E p \in wildcards : Matches(p, check)
  \/ Parents(check) \cap domains # {}

is_blocked(domain) ==
  LET check == normalize(domain) IN
  /\ ~OnList(check, whitelisted_domains, whitelisted_wildcards)
  /\ OnList(check, blocked_domains, blocked_wildcards)

-----------------------------------------------------------------------------
\* load_domains()

Skipped(line) == line = <<>> \/ line[1] = "#"
Rejected(line) == ~Skipped(line) /\ IsWildcard(line) /\ ~Compiles(line)
Throws(file) == file # NoFile /\ \E i \in 1..Len(file) : Rejected(Trim(file[i]))

\* The entries of the lines up to the first one that makes compile_wildcard() throw
Loaded(file) ==
  IF file = NoFile THEN {}
  ELSE {l \in {Trim(file[i]) : i \in {k \in 1..Len(file) : \A j \in 1..k : ~Rejected(Trim(file[j]))}} :
          ~Skipped(l)}

Exact(entries) == {normalize(e) : e \in {x \in entries : ~IsWildcard(x)}}
Wildcards(entries) == {e \in entries : IsWildcard(e)}

-----------------------------------------------------------------------------
Init ==
  /\ blocked_domains = {} /\ blocked_wildcards = {}
  /\ whitelisted_domains = {} /\ whitelisted_wildcards = {}
  /\ rpc = "load"           \* main() loads both lists first
  /\ read = [block |-> NoFile, white |-> NoFile] /\ touched = FALSE

-----------------------------------------------------------------------------
\* Faulty variants of some steps: with one of them in place of the operation it is named
\* after, TLC finds a property violated (PROJECT.json says which).

\* clear() was not extended when the wildcards were added.
ClearDomains ==
  /\ rpc = "idle" /\ rpc' = "load"
  /\ blocked_domains' = {} /\ whitelisted_domains' = {}
  /\ read' = [block |-> NoFile, white |-> NoFile] /\ touched' = FALSE
  /\ UNCHANGED <<blocked_wildcards, whitelisted_wildcards>>

\* The blocklist is kept until the new one is read.
ClearWhitelist ==
  /\ rpc = "idle" /\ rpc' = "load"
  /\ whitelisted_domains' = {} /\ whitelisted_wildcards' = {}
  /\ read' = [block |-> NoFile, white |-> NoFile] /\ touched' = FALSE
  /\ UNCHANGED blocklist

\* A domain that is added is taken from the whitelist.
AddUnwhitelists(e) ==
  /\ ~IsWildcard(e)
  /\ blocked_domains' = blocked_domains \cup {normalize(e)}
  /\ whitelisted_domains' = whitelisted_domains \ {normalize(e)}
  /\ rpc # "terminated" /\ touched' = TRUE
  /\ UNCHANGED <<rpc, read, blocked_wildcards, whitelisted_wildcards>>

-----------------------------------------------------------------------------
\* reload_handler(), on SIGHUP
Clear ==
  /\ rpc = "idle" /\ rpc' = "load"
  /\ blocked_domains' = {} /\ blocked_wildcards' = {}
  /\ whitelisted_domains' = {} /\ whitelisted_wildcards' = {}
  /\ read' = [block |-> NoFile, white |-> NoFile] /\ touched' = FALSE

\* The result of load() is looked at for a warning only.  An exception leaves
\* main() or the signal handler and ends the process.
After(file, next) == IF Throws(file) THEN "terminated" ELSE next

Load(file) ==
  /\ rpc = "load" /\ rpc' = After(file, "load_whitelist")
  /\ blocked_domains' = blocked_domains \cup Exact(Loaded(file))
  /\ blocked_wildcards' = blocked_wildcards \cup Wildcards(Loaded(file))
  /\ read' = [read EXCEPT !.block = file]
  /\ UNCHANGED <<whitelist, touched>>

LoadWhitelist(file) ==
  /\ rpc = "load_whitelist" /\ rpc' = After(file, "idle")
  /\ whitelisted_domains' = whitelisted_domains \cup Exact(Loaded(file))
  /\ whitelisted_wildcards' = whitelisted_wildcards \cup Wildcards(Loaded(file))
  /\ read' = [read EXCEPT !.white = file]
  /\ UNCHANGED <<blocklist, touched>>

\* The rest of the public interface, which the tests call and the server does not.
\* (A wildcard that does not compile throws before the vector is touched.)
Touch == rpc # "terminated" /\ touched' = TRUE /\ UNCHANGED <<rpc, read>>

AddDomain(e) ==
  /\ ~IsWildcard(e)
  /\ blocked_domains' = blocked_domains \cup {normalize(e)}
  /\ Touch /\ UNCHANGED <<blocked_wildcards, whitelist>>

AddWildcard(e) ==
  /\ IsWildcard(e) /\ Compiles(e)
  /\ blocked_wildcards' = blocked_wildcards \cup {e}
  /\ Touch /\ UNCHANGED <<blocked_domains, whitelist>>

\* Wildcards are never removed.
Remove(e) ==
  /\ blocked_domains' = blocked_domains \ {normalize(e)}
  /\ Touch /\ UNCHANGED <<blocked_wildcards, whitelist>>

WhitelistDomain(e) ==
  /\ ~IsWildcard(e)
  /\ whitelisted_domains' = whitelisted_domains \cup {normalize(e)}
  /\ Touch /\ UNCHANGED <<blocklist, whitelisted_wildcards>>

WhitelistWildcard(e) ==
  /\ IsWildcard(e) /\ Compiles(e)
  /\ whitelisted_wildcards' = whitelisted_wildcards \cup {e}
  /\ Touch /\ UNCHANGED <<blocklist, whitelisted_domains>>

Unwhitelist(e) ==
  /\ whitelisted_domains' = whitelisted_domains \ {normalize(e)}
  /\ Touch /\ UNCHANGED <<blocklist, whitelisted_wildcards>>

Terminated == rpc = "terminated" /\ UNCHANGED vars

Next ==
  \/ Clear
  \/ \E file \in BlockFiles \cup {NoFile} : Load(file)
  \/ \E file \in WhiteFiles \cup {NoFile} : LoadWhitelist(file)
  \/ \E e \in Argument : \/ AddDomain(e) \/ AddWildcard(e) \/ Remove(e)
                         \/ WhitelistDomain(e) \/ WhitelistWildcard(e) \/ Unwhitelist(e)
  \/ Terminated

Spec == Init /\ [][Next]_vars

-----------------------------------------------------------------------------
\* The type of every variable.
TypeOK ==
  /\ blocked_domains \subseteq Text /\ whitelisted_domains \subseteq Text
  /\ blocked_wildcards \subseteq Text /\ whitelisted_wildcards \subseteq Text
  /\ rpc \in {"load", "load_whitelist", "idle", "terminated"}
  /\ read \in [block : BlockFiles \cup {NoFile}, white : WhiteFiles \cup {NoFile}]
  /\ touched \in BOOLEAN

\* What the header says of the lists: "if doubleclick.net is blocked,
\* ad.doubleclick.net is also blocked" (blocklist.hpp, line 31), and a wildcard
\* covers what it matches.
EndsWith(s, suffix) ==
  /\ Len(s) >= Len(suffix)
  /\ \A i \in 1..Len(suffix) : s[Len(s) - Len(suffix) + i] = suffix[i]
IsOrIsUnder(s, domain) == s = domain \/ EndsWith(s, <<".">> \o domain)

CoveredBy(entry, name) ==
  IF IsWildcard(entry) THEN Matches(entry, normalize(name))
  ELSE IsOrIsUnder(normalize(name), normalize(entry))

Blocks(black, allow, name) ==
  (\E e \in black : CoveredBy(e, name)) /\ ~(\E e \in allow : CoveredBy(e, name))

\* The loop over the dots of a name finds exactly the domains that the name is or
\* lies under, in any case of letters, never one that merely ends the same way,
\* and the whitelist wins (blocklist.cpp, lines 101-142).
VerdictIsRight ==
  \A name \in Domain :
    is_blocked(name) <=> Blocks(blocked_domains \cup blocked_wildcards,
                                whitelisted_domains \cup whitelisted_wildcards, name)

\* After a reload the verdicts are those of the two files, of each entry on a
\* line of its own with blanks around it or not, and nothing is left of what was
\* on the lists before, unless somebody has changed them since clear().
InFile(file) ==
  IF file = NoFile THEN {} ELSE {Trim(file[i]) : i \in {k \in 1..Len(file) : ~Skipped(Trim(file[k]))}}

ReloadIsComplete ==
  rpc = "idle" /\ ~touched =>
    \A name \in Domain :
      is_blocked(name) <=> Blocks(InFile(read.block), InFile(read.white), name)

\* A name that every version of the whitelist file covers is blocked only between
\* the load of the blocklist and that of the whitelist, or when the whitelist
\* could not be opened (main.cpp, lines 29-31).
ReloadWindow ==
  ~touched /\ rpc \notin {"load_whitelist", "terminated"} =>
    \A name \in Domain :
      (\A file \in WhiteFiles : \E e \in InFile(file) : CoveredBy(e, name)) /\ is_blocked(name) =>
        rpc = "idle" /\ read.white = NoFile

\* The lists implement sets of names that entries are added to and taken from.
Covered(domains, wildcards) == {n \in Domain : OnList(normalize(n), domains, wildcards)}

Entry == Argument \cup UNION {Loaded(f) : f \in BlockFiles \cup WhiteFiles}
Covers == [e \in Entry |-> {n \in Domain : CoveredBy(e, n)}]

Lists == INSTANCE NameLists WITH
  blocked <- Covered(blocked_domains, blocked_wildcards),
  white <- Covered(whitelisted_domains, whitelisted_wildcards)

ImplementsNameLists == Lists!Spec
=============================================================================
