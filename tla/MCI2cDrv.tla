------------------------------ MODULE MCI2cDrv ------------------------------
(* Registers of the sensors, of the EEPROM, and none. *)
EXTENDS I2cDrv

CONSTANTS sensors, deck

MCCallLimit == [t \in Thread |-> IF t = sensors THEN 2 ELSE 1]

MCMessage ==
  {[read |-> FALSE, address |-> 1, length |-> 2],
   [read |-> FALSE, address |-> 0, length |-> 2],
   [read |-> TRUE,  address |-> 2, length |-> 1],
   [read |-> TRUE,  address |-> 0, length |-> 2]}
=============================================================================
