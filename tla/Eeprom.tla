------------------------------- MODULE Eeprom -------------------------------
(***************************************************************************)
(* The driver of the EEPROM, eeprom.c.  A buffer is written page by page:  *)
(* a page is sent again while the device refuses it, then the device is    *)
(* asked until it answers, which it does when it has written the page.     *)
(* The waits of 6 and 1 ms between two attempts are statements K_MSEC(n),  *)
(* which wait for nothing: the attempts may be used up while the device is *)
(* at work still.                                                          *)
(*                                                                         *)
(* i2cdevWriteReg16, i2cdevInit.c, takes and sends an address of one byte. *)
(* The device is external, and one that takes such an address: one that    *)
(* takes two bytes would take a byte of the data for the second. What lies *)
(* beyond what a byte can name is written at the beginning of the device,  *)
(* unnoticed: line 164 tests EEPROM_SIZE only. The device takes a page's   *)
(* bytes modulo the page, and writes them when it has them; a page that    *)
(* was cut short it may write, too. Power that fails in the meantime       *)
(* leaves any part of them written.                                        *)
(***************************************************************************)
EXTENDS Integers, Sequences

CONSTANTS
  Values,     \* how many values a byte has, 256
  Cells,      \* how many bytes the device has
  EepromSize, \* EEPROM_SIZE, one less
  PageSize,   \* 32 in the code
  Numbers,    \* how many addresses i2cdevWrite16 can name, 256
  MaxTries,   \* how often a page is sent, 10
  MaxPolls    \* how often its end is asked for, 30

ASSUME EepromAssumption ==
  /\ {Cells, EepromSize} \subseteq Nat /\ EepromSize <= Cells
  /\ {PageSize, MaxTries, MaxPolls, Numbers, Values} \subseteq Nat \ {0}
  /\ Numbers % PageSize = 0 /\ Numbers <= Cells

VARIABLES
  cells,   \* what the device holds
  cycle,   \* what it is writing, from addresses to bytes
  job,     \* the call of eepromWriteBuffer
  allowed  \* history: the addresses that the jobs at work were given

eepromVars == <<cells, cycle, job, allowed>>

Address == 0 .. Cells - 1
Byte == 0 .. Values - 1

\* Functions from no address, and f where it is defined over g.
Nothing == [a \in {} |-> 0]
Over(f, g) == [a \in DOMAIN g |-> IF a \in DOMAIN f THEN f[a] ELSE g[a]]
Part(f, S) == [a \in S |-> f[a]]

NoJob == [at |-> "none", address |-> 0, bytes |-> <<>>, done |-> 0, tries |-> 0,
          polls |-> 0, ok |-> FALSE]

At(place) == job.at = place
Busy == cycle # Nothing

-----------------------------------------------------------------------------
(* Pages                                                                   *)

Current == job.address + job.done
Left == Len(job.bytes) - job.done

\* Mutant: a page's worth from wherever it begins.
WholePage == IF PageSize < Left THEN PageSize ELSE Left

\* pageIndex: up to the end of the buffer or of the page.
PageIndex ==
  LET toEnd == PageSize - (Current % PageSize)
  IN  IF toEnd < Left THEN toEnd ELSE Left

\* What is left of an address, and where the device puts byte j of the page: it
\* counts addresses within the page only.
Named(a) == a % Numbers
Sent8 == Named(Current)
Placed(j) == (Sent8 - (Sent8 % PageSize)) + ((Sent8 + j - 1) % PageSize)

\* What the device does with the first n bytes of the page.
Page(n) ==
  [a \in {Placed(j) : j \in 1 .. n} |->
     job.bytes[job.done + (CHOOSE j \in 1 .. n : Placed(j) = a)]]

-----------------------------------------------------------------------------
(* eepromWriteBuffer                                                       *)

\* Where a buffer goes: from EEPROM_SIZE down to what a byte can name, addresses of
\* the buffer are those of the first bytes of the device.
Region(address, bytes) == {Named(a) : a \in address .. address + Len(bytes) - 1}

\* What it returns for an empty buffer is never assigned.
Begin(address, bytes) ==
  LET new == [NoJob EXCEPT !.address = address, !.bytes = bytes]
  IN  /\ At("none")
      /\ allowed' = Region(address, bytes) \cup (IF Busy THEN allowed ELSE {})
      /\ IF address + Len(bytes) > EepromSize
           THEN job' = [new EXCEPT !.at = "ended"]
         ELSE IF bytes = <<>>
           THEN \E status \in BOOLEAN : job' = [new EXCEPT !.at = "ended", !.ok = status]
         ELSE job' = [new EXCEPT !.at = "sending"]

Sent ==
  /\ At("sending") /\ ~Busy
  /\ cycle' = Page(PageIndex)
  /\ job' = [job EXCEPT !.at = "asking", !.polls = 0]
  /\ UNCHANGED <<cells, allowed>>

\* It is busy, or the transfer fails at some byte.
Refused ==
  /\ At("sending")
  /\ cycle' \in IF Busy THEN {cycle} ELSE {Page(n) : n \in 0 .. PageIndex - 1}
  /\ job' = [job EXCEPT !.tries = @ + 1,
                        !.at = IF job.tries + 1 = MaxTries THEN "ended" ELSE @]
  /\ UNCHANGED <<cells, allowed>>

\* Mutant: the first poll will do.
AnsweredAtOnce == TRUE

Answers == ~Busy

Answered ==
  /\ At("asking") /\ Answers
  /\ LET done == job.done + PageIndex
         all  == done = Len(job.bytes)
     IN  job' = [job EXCEPT !.done = IF all THEN @ ELSE done,
                            !.tries = 0,
                            !.at = IF all THEN "ended" ELSE "sending",
                            !.ok = all]
  /\ UNCHANGED <<cells, cycle, allowed>>

\* Mutant: it is asked for ever.
AskedAgain == job

Counted ==
  [job EXCEPT !.polls = @ + 1,
              !.at = IF job.polls + 1 = MaxPolls THEN "ended" ELSE @]

Unanswered ==
  /\ At("asking")
  /\ job' = Counted
  /\ UNCHANGED <<cells, cycle, allowed>>

-----------------------------------------------------------------------------
(* The device                                                              *)

EndOfCycle ==
  /\ Busy
  /\ cells' = Over(cycle, cells)
  /\ cycle' = Nothing
  /\ UNCHANGED <<job, allowed>>

\* Power fails, and whatever was being written is written in part.
Torn ==
  /\ \E S \in SUBSET DOMAIN cycle : cells' = Over(Part(cycle, S), cells)
  /\ cycle' = Nothing
  /\ job' = NoJob
  /\ allowed' = allowed

Ended == At("ended") /\ job' = NoJob

Working == Sent \/ Refused \/ Answered \/ Unanswered

-----------------------------------------------------------------------------
(* Properties                                                              *)

EepromTypeOK ==
  /\ cells \in [Address -> Byte]
  /\ DOMAIN cycle \subseteq Address /\ \A a \in DOMAIN cycle : cycle[a] \in Byte
  /\ job.at \in {"none", "sending", "asking", "ended"}
  /\ job.bytes \in Seq(Byte) /\ job.done \in 0 .. Len(job.bytes)
  /\ job.tries \in 0 .. MaxTries /\ job.polls \in 0 .. MaxPolls
  /\ allowed \subseteq Nat

\* No byte changes but those that the addresses of a write name, whatever fails,
\* although the device wraps at the end of a page: a page never passes it (line 178).
OutsideKept ==
  [][\A a \in Address : cells'[a] # cells[a] => a \in allowed]_eepromVars

\* A write that reports success has written all its bytes where its addresses name
\* them, although pages were refused or cut short and sent again (181-205).
WriteIsWhole ==
  At("ended") /\ job.ok =>
    \A j \in 1 .. Len(job.bytes) : cells[Named(job.address + j - 1)] = job.bytes[j]
=============================================================================
