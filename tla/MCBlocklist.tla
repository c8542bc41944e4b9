---------------------------- MODULE MCBlocklist ----------------------------
(* Blocklist with a few names, entries and files, for TLC. *)
EXTENDS Blocklist

\* b, a.b and its two subdomains, one with capitals; aa.b only ends like a.b.
Names == {<<"b">>, <<"a", ".", "b">>, <<"a", ".", "a", ".", "b">>,
          <<"A", ".", "a", ".", "B">>, <<"a", "a", ".", "b">>}

DomainAB == <<"A", ".", "b">>
StarB == <<"*", ".", "b">>
StarAB == <<"*", "a", ".", "B">>
Bad == <<"*", "[">>

Arguments == {DomainAB, <<"b">>, StarB, Bad}

\* A comment, a blank line, a domain between blanks; a wildcard; a wildcard that
\* does not compile behind a domain that is kept.
Lines1 == <<<<"#", "a">>, <<" ">>, <<" ", "A", ".", "b", " ">>>>
Lines2 == <<<<"b">>, StarAB>>
Lines3 == <<<<"b">>, Bad, DomainAB>>

BlockLines == {Lines1, Lines2, Lines3}
WhiteLines == {<<<<"a", ".", "a", ".", "b">>>>, <<<<"a", "*", "a", ".", "b">>>>}
=============================================================================
