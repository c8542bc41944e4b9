----------------------------- MODULE NameLists -----------------------------
(***************************************************************************)
(* What the blocklist promises to the query pipeline: two sets of names,   *)
(* the blocked and the allowed ones.  Entries are added to a list and with *)
(* each the names it covers, taken from a list, or both are emptied.  A    *)
(* name is refused when it is blocked and not allowed.                     *)
(***************************************************************************)
CONSTANTS Domain,      \* the names that are asked for
          Entry,       \* what can be put on a list
          Covers       \* the names each entry covers, a function on Entry

VARIABLES blocked, white

Init == blocked = {} /\ white = {}

\* Some entries are put on a list: each name it gains comes with an entry, and
\* with all that this entry covers.
Extends(list, after) ==
  /\ list \subseteq after
  /\ \A n \in after \ list : \E e \in Entry : n \in Covers[e] /\ Covers[e] \subseteq after

\* An entry is taken away; other entries may go on covering some of its names.
Shrinks(list, after, e) == after \subseteq list /\ list \ after \subseteq Covers[e]

Block == Extends(blocked, blocked') /\ UNCHANGED white
Allow == Extends(white, white') /\ UNCHANGED blocked
Unblock == \E e \in Entry : Shrinks(blocked, blocked', e) /\ UNCHANGED white
Disallow == \E e \in Entry : Shrinks(white, white', e) /\ UNCHANGED blocked
Clear == blocked' = {} /\ white' = {}

Next == Block \/ Allow \/ Unblock \/ Disallow \/ Clear

Spec == Init /\ [][Next]_<<blocked, white>>
=============================================================================
