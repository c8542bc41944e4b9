-------------------------- MODULE MCResponseCodec --------------------------
(* ResponseCodec on all short packets and on some longer ones, for TLC. *)
EXTENDS ResponseCodec

CONSTANTS ShortLength, ShortByte     \* every packet of up to so many of these bytes

\* Names with dots inside of labels, with pointers to the first name and behind
\* the packet, and the root
Name == {<<1, 1, 0>>, <<1, 46, 0>>, <<3, 1, 46, 2, 1, 3, 0>>, <<3, 46, 46, 2, 192, 46>>,
         <<2, 1, 46, 192, 1>>, <<0>>}
LongName == {<<7, 1, 46, 1, 46, 1, 46, 1, 0>>}

Question(names) == {n \o <<t>> : n \in names, t \in {1, 2, 3}}
Long == {<<0>> \o q : q \in Question(LongName)}
          \cup {<<0>> \o q \o r : q \in Question(Name), r \in Question(Name)}

MCInit ==
  \/ length \in 0..ShortLength /\ data \in [0..(length - 1) -> ShortByte] /\ CodecInit
  \/ /\ \E p \in Long : length = Len(p) /\ data = [i \in 0..(Len(p) - 1) |-> p[i + 1]]
     /\ CodecInit

MCSpec == MCInit /\ [][CodecNext]_allVars /\ WF_allVars(Parse)
=============================================================================
