------------------------------- MODULE MCI2c -------------------------------
(* A byte of two bits, of which one thread writes one; the other's lists are *)
(* gathered, too long, in flash or of ten-bit addresses.                     *)
EXTENDS I2cDev

CONSTANTS sensors, deck

\* Two reads, gathered, after a write from flash.
Reads ==
  <<[Part(FALSE, TRUE, FALSE, <<Reg>>, 1) EXCEPT !.flash = TRUE],
    Part(TRUE, FALSE, TRUE, <<>>, 1), Part(TRUE, TRUE, FALSE, <<>>, 1)>>

Long  == <<Part(TRUE, FALSE, FALSE, <<>>, 1), Part(TRUE, TRUE, FALSE, <<>>, 2)>>
Flash == <<[Part(FALSE, TRUE, FALSE, <<Reg, Reg>>, 2) EXCEPT !.flash = TRUE]>>
Ten   == <<[Part(FALSE, TRUE, FALSE, <<Reg>>, 1) EXCEPT !.ten = TRUE]>>

MCList    == {Reads, Long, Flash, Ten}
MCListing == MCList \cup {BurstRead} \cup {BurstWrite(v) : v \in Byte}
MCMessage == UNION {{msgs[k] : k \in DOMAIN msgs} : msgs \in MCListing}
MCCallLimit == [t \in Thread |-> IF t = sensors THEN 2 ELSE 1]

MCJobs ==
  [t \in Thread |->
     IF t = sensors THEN {WriteBits([first |-> 0, length |-> 1], {0}), WriteBit(0, {})}
     ELSE {ReadReg, WriteReg(Bit)} \cup {Transact(msgs) : msgs \in MCList}]
=============================================================================
