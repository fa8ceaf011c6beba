----------------------------- MODULE ConfigBlock -----------------------------
(***************************************************************************)
(* The configuration block at the start of the EEPROM, configblockeeprom.c *)
(* It is read when the program starts; one of the old version is written   *)
(* in the new one, one that does not verify is replaced by the defaults.   *)
(* Later the client may write the EEPROM through the memory handler, and   *)
(* power may fail at any point.                                            *)
(*                                                                         *)
(* A block is a magic number, a version, the content and a checksum, the   *)
(* sum of the bytes.  Content that both versions have is one byte, that of *)
(* the new one another.                                                    *)
(***************************************************************************)
EXTENDS Eeprom

CONSTANTS
  Magic,          \* MAGIC
  DefaultContent, \* RADIO_CHANNEL and RADIO_ADDRESS
  Initial,        \* what the device may hold at first
  ClientWrites,   \* what clients write, from an address
  ClientLimit,    \* how often they do
  PowerLimit      \* how often power fails

ASSUME ConfigAssumption ==
  /\ {Magic, 1} \subseteq Byte /\ DefaultContent \in [1 .. 2 -> Byte]
  /\ Initial \subseteq [Address -> Byte]
  /\ \A write \in ClientWrites :
       /\ write.address \in Nat /\ write.bytes \in Seq(Byte)
       /\ Len(write.bytes) <= Numbers  \* handleMemWrite takes its length in a byte
  /\ {ClientLimit, PowerLimit} \subseteq Nat

VARIABLES
  phase,   \* where configblockInit is
  block,   \* the content of configblock
  cbOk,    \* cb_ok
  boot,    \* history: the content that was found at this start
  excuse,  \* history: has a transfer of this start failed?
  changed, \* history: has a client written since?
  clients, failures  \* how often clients wrote, and power failed

configVars == <<phase, block, cbOk, boot, excuse, changed, clients, failures>>
blockVars  == <<eepromVars, configVars>>

Version == 1

-----------------------------------------------------------------------------
(* Blocks                                                                  *)

\* calculate_cksum
Checksum(bytes) ==
  LET sum[j \in 0 .. Len(bytes)] == IF j = 0 THEN 0 ELSE sum[j - 1] + bytes[j]
  IN  sum[Len(bytes)] % Values

\* Magic number and version, one or two bytes, and the checksum.
Size(version) == 3 + version + 1

\* A block fits into the device, and what it is addressed with.
ASSUME BlockAssumption == Size(Version) <= EepromSize /\ Size(Version) <= Numbers

Read(n) == [j \in 1 .. n |-> cells[j - 1]]

\* configblockCheckChecksum and configblockCheckDataIntegrity
Verifies(version) ==
  cells[Size(version) - 1] = Checksum(Read(Size(version) - 1))

Written(content) ==
  LET bytes == <<Magic, Version>> \o content
  IN  Append(bytes, Checksum(bytes))

\* configblockCopyToNewVersion: what the old version has, and the defaults' rest.
Upgraded == <<cells[2], DefaultContent[2]>>

IsBlock == cells[0] = Magic
IsNew   == IsBlock /\ cells[1] = Version /\ Verifies(Version)
IsOld   == IsBlock /\ cells[1] = 0 /\ Verifies(0)

\* What a start uses that meets no failure.
Loads == CASE IsNew -> <<cells[2], cells[3]>>
           [] IsOld -> <<cells[2], DefaultContent[2]>>
           [] OTHER -> DefaultContent

-----------------------------------------------------------------------------
(* configblockInit                                                         *)

PowerOn ==
  /\ phase = "off"
  /\ phase' = "testing"
  /\ boot' = Loads
  /\ excuse' = FALSE /\ changed' = FALSE
  /\ UNCHANGED <<eepromVars, block, cbOk, clients, failures>>

\* The device does not answer, or not all of the block is read.
Unread ==
  /\ phase = "testing"
  /\ phase' = "default"
  /\ excuse' = TRUE
  /\ UNCHANGED <<eepromVars, block, cbOk, boot, changed, clients, failures>>

ReadNew ==
  /\ phase = "testing" /\ IsNew
  /\ block' = <<cells[2], cells[3]>>
  /\ cbOk' = TRUE
  /\ phase' = "running"
  /\ UNCHANGED <<eepromVars, boot, excuse, changed, clients, failures>>

ReadOld ==
  /\ phase = "testing" /\ IsOld
  /\ block' = Upgraded
  /\ phase' = "upgrade"
  /\ Begin(0, Written(Upgraded))
  /\ UNCHANGED <<cells, cycle, cbOk, boot, excuse, changed, clients, failures>>

ReadBad ==
  /\ phase = "testing" /\ ~IsNew /\ ~IsOld
  /\ phase' = "default"
  /\ UNCHANGED <<eepromVars, block, cbOk, boot, excuse, changed, clients, failures>>

UpgradeEnds ==
  /\ phase = "upgrade" /\ Ended
  /\ cbOk' = job.ok
  /\ phase' = IF job.ok THEN "running" ELSE "default"
  /\ excuse' = (excuse \/ ~job.ok)
  /\ UNCHANGED <<cells, cycle, allowed, block, boot, changed, clients, failures>>

DefaultBlock == DefaultContent

\* Defaults are used, and written over what could not be read or written.
Default ==
  /\ phase = "default"
  /\ block' = DefaultBlock
  /\ phase' = "defaulting"
  /\ Begin(0, Written(DefaultContent))
  /\ UNCHANGED <<cells, cycle, cbOk, boot, excuse, changed, clients, failures>>

DefaultEnds ==
  /\ phase = "defaulting" /\ Ended
  /\ cbOk' = job.ok
  /\ phase' = IF job.ok THEN "running" ELSE "failed"
  /\ excuse' = (excuse \/ ~job.ok)
  /\ UNCHANGED <<cells, cycle, allowed, block, boot, changed, clients, failures>>

-----------------------------------------------------------------------------
(* The memory handler and power                                            *)

Started == phase \in {"running", "failed"}

\* handleMemWrite
ClientWrite(write) ==
  /\ Started /\ clients < ClientLimit
  /\ Begin(write.address, write.bytes)
  /\ changed' = TRUE
  /\ clients' = clients + 1
  /\ UNCHANGED <<cells, cycle, phase, block, cbOk, boot, excuse, failures>>

ClientEnds ==
  /\ Started /\ Ended
  /\ UNCHANGED <<cells, cycle, allowed, configVars>>

PowerFails ==
  /\ phase # "off" /\ failures < PowerLimit
  /\ Torn
  /\ phase' = "off"
  /\ block' = DefaultContent /\ cbOk' = FALSE
  /\ failures' = failures + 1
  /\ UNCHANGED <<boot, excuse, changed, clients>>

-----------------------------------------------------------------------------
BlockInit ==
  /\ cells \in Initial
  /\ cycle = Nothing
  /\ job = NoJob
  /\ allowed = {}
  /\ phase = "off"
  /\ block = DefaultContent
  /\ cbOk = FALSE
  /\ boot = DefaultContent
  /\ excuse = FALSE /\ changed = FALSE
  /\ clients = 0 /\ failures = 0

Start ==
  \/ PowerOn
  \/ Unread
  \/ ReadNew
  \/ ReadOld
  \/ ReadBad
  \/ UpgradeEnds
  \/ Default
  \/ DefaultEnds

Work == Working /\ UNCHANGED configVars

BlockNext ==
  \/ Start
  \/ Work
  \/ EndOfCycle /\ UNCHANGED configVars
  \/ \E write \in ClientWrites : ClientWrite(write)
  \/ ClientEnds
  \/ PowerFails

BlockSpec == BlockInit /\ [][BlockNext]_blockVars

\* The task runs.  Nothing is asked of the device.
FairBlockSpec == BlockSpec /\ WF_blockVars(Start \/ Work \/ ClientEnds)

-----------------------------------------------------------------------------
(* Properties                                                              *)

TypeOK ==
  /\ EepromTypeOK
  /\ phase \in {"off", "testing", "upgrade", "default", "defaulting", "running", "failed"}
  /\ {block, boot} \subseteq [1 .. 2 -> Byte]
  /\ {cbOk, excuse, changed} \subseteq BOOLEAN
  /\ clients \in 0 .. ClientLimit /\ failures \in 0 .. PowerLimit

\* What the accessors return.
InUse == IF cbOk THEN block ELSE DefaultContent

\* A start that meets no failure uses what it found, of either version; the
\* defaults replace nothing that verifies (lines 111-171).
StartUsesSaved == Started /\ ~excuse => InUse = boot

\* What a start uses that reports success, the next start will use, too: an
\* upgraded block and the defaults are stored as they are used (142, 163).
StartIsStored == phase = "running" /\ ~changed => Loads = InUse

\* The block that is used is the one that is stored: it was found, or written as a
\* whole, before a start reported success.
BlockIsSound == TypeOK /\ WriteIsWhole /\ StartUsesSaved /\ StartIsStored

\* Every start ends, whatever the device does, unless power fails.
StartEnds == phase = "testing" ~> Started \/ phase = "off"
=============================================================================
