------------------------------ MODULE HostToolsMC ------------------------------
(* Instances of HostTools: the attributes at the ends of their ranges.       *)
EXTENDS HostTools, SequencesExt

MCAttributes == {0, 14, 15} \X {0, 1, 7} \X {0, 1}

MCLists == {a \o b : a \in MCAttributes, b \in MCAttributes}

\* A list with one token replaced, one put in front, and one token less or more.
MCTokenLists ==
  MCLists
  \cup {[Good EXCEPT ![k] = t] : k \in 1..6, t \in {-1, 2, 8, 16, NaN, Empty}}
  \cup {<<Empty>> \o Good, <<0>> \o Good, Good \o <<0>>, Good \o <<NaN>>, SubSeq(Good, 1, 5), <<>>}

MCEarlier == {Absent, make_metadata_image(TRUE, write_ab_metadata(None \o Confirmed(9)))}

\* Code points at both ends of every length of encoding.
MCPoints == {1, 127, 128, 2047, 2048, 65535, 65536}

MCEncoded(points) == FlattenSeq([k \in DOMAIN points |-> Encoded(points[k])])

MCName(points) ==
  [points |-> points, bytes |-> MCEncoded(points) \o <<0>>,
   starts |-> [k \in 1..Len(points) + 1 |-> Len(MCEncoded(SubSeq(points, 1, k - 1)))]]

MCNames ==
  {MCName(<<>>)} \cup {MCName(<<c>>) : c \in MCPoints}
  \cup {MCName(<<c, d>>) : c, d \in MCPoints} \cup {MCName(<<c, d, e>>) : c, d, e \in MCPoints}

\* ASCII, zeros, the middle of a character, the start of one, and of a long one.
MCBehind == {<<37, 115, 0, 0>>, <<0, 0, 0, 0>>, <<128, 0, 0, 0>>, <<195, 166, 0, 0>>, <<65, 240, 0, 0>>}
================================================================================
