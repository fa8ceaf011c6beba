----------------------------- MODULE MCFirmware -----------------------------
(* Two threads of the application, and the stabilizer's, which is less      *)
(* urgent than the system task as the kernel reads the priorities of        *)
(* config.h.                                                                *)
EXTENDS Firmware

CONSTANTS reader, writer, stabilizer

MCCreator == [t \in Thread |-> IF t = stabilizer THEN "stabilizer" ELSE "app"]

\* All is well; the storage is bad; the LED sequences are.
MCFaults == {{}, {"storage"}, {"ledseq"}}
=============================================================================
