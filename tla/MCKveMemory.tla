---------------------------- MODULE MCKveMemory ----------------------------
(* Small partitions, keys and values for KveMemory. *)
EXTENDS KveMemory

\* Two keys, one a prefix of the other.
MCKey == {<<1>>, <<1, 2>>}

\* With a third one, two entries can follow a hole and are moved together, in
\* several chunks.  All of them fit the buffer of a foreach.
ThreeKeys == MCKey \cup {<<3>>}

\* Two values of different lengths, one of them the byte that marks a hole.
TwoValues == {<<0>>, <<7, 9>>}

\* Two of one length as well.
MCValue == {<<7>>, <<0>>, <<0, 9>>}
=============================================================================
