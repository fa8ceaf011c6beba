--------------------------- MODULE MCConfigBlock ---------------------------
(* Bytes modulo 3, pages of six of them, of which a byte names two of three: a *)
(* block is one page, as in the code; a client's write may cross into the next *)
(* one, or lie where it is taken for one to the block.                         *)
EXTENDS ConfigBlock

MCDefault == <<0, 1>>

\* Cells that hold the bytes, and ones.
Holding(bytes) == [a \in Address |-> IF a < Len(bytes) THEN bytes[a + 1] ELSE 1]

Old(c) == LET bytes == <<Magic, 0, c>> IN Append(bytes, Checksum(bytes))

\* Of the new version, of the old one, spoilt, of a later version, and none.
MCInitial ==
  {Holding(Written(<<2, 2>>)), Holding(Old(2)),
   Holding([Written(<<2, 2>>) EXCEPT ![3] = 1]), Holding(<<Magic, 2>>), Holding(<<>>)}

MCWrites ==
  {[address |-> 0, bytes |-> Written(<<1, 2>>)],
   [address |-> 5, bytes |-> <<0, 0>>],
   [address |-> EepromSize - 2, bytes |-> <<0, 0>>],
   [address |-> EepromSize - 1, bytes |-> <<0, 0>>],
   [address |-> 3, bytes |-> <<>>]}
=============================================================================
