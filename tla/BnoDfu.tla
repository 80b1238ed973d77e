------------------------------- MODULE BnoDfu -------------------------------
(***************************************************************************)
(* The firmware update of a BNO08x (BnoDfu.cpp): stop and wait.  The size  *)
(* of the application, the packet length and then every packet are sent by *)
(* dfuSend, which waits for a one-byte acknowledgement and tries up to     *)
(* DFU_MAX_ATTEMPTS times.  Neither a message nor an acknowledgement has a *)
(* sequence number and nothing is flushed between two attempts.            *)
(*                                                                         *)
(* The HALs differ where it matters (hal/bno_dfu_hal_Linux.c and _Win.c):  *)
(* dfu_hal_read polls on Windows, and on Linux it does not return before a *)
(* byte has arrived.                                                       *)
(*                                                                         *)
(* The bootloader is outside src/.  It is told apart by position only: the *)
(* first message it accepts is the size, the second the packet length, and *)
(* the rest is appended to the flash until the size is reached.            *)
(***************************************************************************)
EXTENDS Integers, Sequences

CONSTANTS
    Firmwares,     \* files: [opens, metaOk : BOOLEAN, appLen, packetLen : Nat]
    MinAppLen,     \* shortest believable application, in bytes (1024)
    MaxPacketLen,  \* MAX_PACKET_LEN (64)
    LenMod,        \* run() keeps the packet length in a uint8_t: 2^8
    MaxAttempts,   \* DFU_MAX_ATTEMPTS (5)
    SendTimeout,   \* DFU_SEND_TIMEOUT_US, in ticks
    Platforms,     \* subset of {"linux", "windows"}
    FaultSets,     \* what may go wrong, a subset of Faults per behaviour
    MaxNoise       \* bound on the messages damaged on the line

(* noport: the device cannot be opened    deadport: writing fails          *)
(* badread: reading fails                                                  *)
(* noise: a message arrives damaged       loss: a message is lost          *)
(* late: time passes while the hub or the line still has something to do   *)
(* slow: time passes while the host writes                                 *)
Faults == {"noport", "deadport", "badread", "noise", "loss", "late", "slow"}

ASSUME FirmwareAssumption ==
    Firmwares \subseteq [opens: BOOLEAN, metaOk: BOOLEAN, appLen: Nat, packetLen: Nat]
ASSUME SizeAssumption ==
    /\ MinAppLen \in Nat \ {0}
    /\ MaxPacketLen \in Nat \ {0}
    /\ LenMod \in Nat \ {0}
    /\ MaxAttempts \in Nat \ {0}
    /\ SendTimeout \in Nat \ {0}
ASSUME FaultAssumption ==
    /\ Platforms \subseteq {"linux", "windows"}
    /\ FaultSets \subseteq SUBSET Faults
    /\ MaxNoise \in Nat

VARIABLES
    platform, faults, firmware,   \* constant in a behaviour
    pc,         \* "validate", "open", "write", "read", "blocked", "close", "returned"
    status,     \* status of run()
    msg,        \* what dfuSend is sending
    retries,    \* attempts of dfuSend that have failed
    elapsed,    \* now - start of the attempt, in ticks
    toHub,      \* messages on their way to the hub
    fromHub,    \* acknowledgements on their way to the host
    hubStage,   \* what the hub expects: "off", "appSize", "pktSize", "data", "done"
    flash,      \* for each byte programmed, its offset in the application
    erased,     \* TRUE once the hub has given up the old application
    noise       \* messages damaged so far

constVars == <<platform, faults, firmware>>
hostVars  == <<pc, status, msg, retries, elapsed>>
hubVars   == <<hubStage, flash, erased>>
vars      == <<constVars, hostVars, toHub, fromHub, hubVars, noise>>

-----------------------------------------------------------------------------
Statuses == {"SH2_OK", "SH2_ERR", "SH2_ERR_BAD_PARAM", "SH2_ERR_IO",
             "SH2_ERR_HUB", "SH2_ERR_TIMEOUT"}

AppSize        == [kind |-> "appSize", off |-> 0, len |-> 0]
PktSize        == [kind |-> "pktSize", off |-> 0, len |-> 0]
Pkt(off, len)  == [kind |-> "data", off |-> off, len |-> len]
Messages       == [kind: {"appSize", "pktSize", "data"}, off: Nat, len: Nat]
Acks           == {"ACK", "NAK"}

Least(a, b) == IF a < b THEN a ELSE b

\* Faulty variant: a packet length that is too large is not noticed.
packetLen_Unbounded ==
    LET len == firmware.packetLen % LenMod IN IF len = 0 THEN MaxPacketLen ELSE len

\* The packet length run() settles for: that of the file, in 8 bits, if there is one
\* and it is not too large.
packetLen ==
    LET len == firmware.packetLen % LenMod
    IN  IF len = 0 \/ len > MaxPacketLen THEN MaxPacketLen ELSE len

Init ==
    /\ platform \in Platforms
    /\ faults \in FaultSets
    /\ firmware \in Firmwares
    /\ pc = "validate"
    /\ status = "SH2_OK"
    /\ msg = AppSize
    /\ retries = 0
    /\ elapsed = 0
    /\ toHub = <<>>
    /\ fromHub = <<>>
    /\ hubStage = "off"
    /\ flash = <<>>
    /\ erased = FALSE
    /\ noise = 0

-----------------------------------------------------------------------------
(* run().                                                                  *)

FirmwareStatus ==
    IF ~firmware.opens THEN "SH2_ERR"
    ELSE IF ~firmware.metaOk \/ firmware.appLen < MinAppLen
         THEN "SH2_ERR_BAD_PARAM"
         ELSE "SH2_OK"

\* A file that did not open is not closed either: run() returns at once.
Validate ==
    /\ pc = "validate"
    /\ status' = FirmwareStatus
    /\ pc' = IF ~firmware.opens THEN "returned"
             ELSE IF FirmwareStatus = "SH2_OK" THEN "open" ELSE "close"
    /\ UNCHANGED <<constVars, msg, retries, elapsed, toHub, fromHub, hubVars, noise>>

\* Opening the HAL resets the hub into its bootloader.
Open ==
    /\ pc = "open"
    /\ pc' = "write"
    /\ hubStage' = "appSize"
    /\ UNCHANGED <<constVars, status, msg, retries, elapsed, toHub, fromHub,
                   flash, erased, noise>>

OpenFails ==
    /\ pc = "open"
    /\ "noport" \in faults
    /\ status' = "SH2_ERR_IO"
    /\ pc' = "close"
    /\ UNCHANGED <<constVars, msg, retries, elapsed, toHub, fromHub, hubVars, noise>>

\* What run() sends after the message `m'; the packet at the end is empty.
NextMessage(m) ==
    CASE m.kind = "appSize" -> PktSize
      [] m.kind = "pktSize" -> Pkt(0, Least(packetLen, firmware.appLen))
      [] m.kind = "data"    -> LET off == m.off + m.len
                               IN  Pkt(off, Least(packetLen, firmware.appLen - off))

\* pHal->close resets the hub, out of its bootloader.
Close ==
    /\ pc = "close"
    /\ pc' = "returned"
    /\ hubStage' = "off"
    /\ toHub' = <<>>
    /\ fromHub' = <<>>
    /\ UNCHANGED <<constVars, status, msg, retries, elapsed, flash, erased, noise>>

-----------------------------------------------------------------------------
(* dfuSend().                                                              *)

\* Faulty variants: the attempts are not counted; one too few is made; giving up
\* does not set the status; attempts are counted to the end and beyond.
AttemptFails_Uncounted(s) ==
    /\ elapsed' = 0
    /\ pc' = "write"
    /\ UNCHANGED <<status, msg, retries>>

AttemptFails_TooFew(s) ==
    /\ retries' = retries + 1
    /\ elapsed' = 0
    /\ IF retries' < MaxAttempts - 1
       THEN pc' = "write" /\ UNCHANGED status
       ELSE pc' = "close" /\ status' = s
    /\ UNCHANGED msg

AttemptFails_KeepsStatus(s) ==
    /\ retries' = retries + 1
    /\ elapsed' = 0
    /\ pc' = IF retries' < MaxAttempts THEN "write" ELSE "close"
    /\ UNCHANGED <<status, msg>>

AttemptFails_Endless(s) ==
    /\ retries' = retries + 1
    /\ elapsed' = 0
    /\ pc' = "write"
    /\ UNCHANGED <<status, msg>>

\* The attempt failed with `s': another one, or dfuSend and run() give up.
AttemptFails(s) ==
    /\ retries' = retries + 1
    /\ elapsed' = 0
    /\ IF retries' < MaxAttempts
       THEN pc' = "write" /\ UNCHANGED status
       ELSE pc' = "close" /\ status' = s
    /\ UNCHANGED msg

\* A good acknowledgement: run() sends what comes next.
AttemptSucceeds ==
    /\ msg' = NextMessage(msg)
    /\ pc' = IF msg'.kind = "data" /\ msg'.len = 0 THEN "close" ELSE "write"
    /\ retries' = 0
    /\ elapsed' = 0
    /\ UNCHANGED status

\* The HALs write the whole message before they return.
Write ==
    /\ pc = "write"
    /\ toHub' = Append(toHub, msg)
    /\ pc' = "read"
    /\ UNCHANGED <<constVars, status, msg, retries, elapsed, fromHub, hubVars, noise>>

\* The port is dead: write returns 0 until the attempt is over.
WriteTimesOut ==
    /\ pc = "write"
    /\ "deadport" \in faults
    /\ AttemptFails("SH2_ERR_TIMEOUT")
    /\ UNCHANGED <<constVars, toHub, fromHub, hubVars, noise>>

\* The port fails in the middle of a message: what write has written by then is
\* enough for dfuSend, and no message to the hub.
WritePart ==
    /\ pc = "write"
    /\ "deadport" \in faults
    /\ pc' = "read"
    /\ UNCHANGED <<constVars, status, msg, retries, elapsed, toHub, fromHub,
                   hubVars, noise>>

\* On Linux the HAL keeps reading until the byte is there, whatever the time.
ReadBlocks ==
    /\ pc = "read"
    /\ platform = "linux"
    /\ elapsed < SendTimeout
    /\ pc' = "blocked"
    /\ UNCHANGED <<constVars, status, msg, retries, elapsed, toHub, fromHub,
                   hubVars, noise>>

\* Faulty variant: any byte is a good acknowledgement.
ReadAck_AnyByte ==
    /\ \/ pc = "read" /\ platform = "windows" /\ elapsed < SendTimeout
       \/ pc = "blocked"
    /\ fromHub # <<>>
    /\ fromHub' = Tail(fromHub)
    /\ AttemptSucceeds
    /\ UNCHANGED <<constVars, toHub, hubVars, noise>>

\* One acknowledgement is taken off the line; nothing tells which attempt, or
\* which message, it is for.
ReadAck ==
    /\ \/ pc = "read" /\ platform = "windows" /\ elapsed < SendTimeout
       \/ pc = "blocked"
    /\ fromHub # <<>>
    /\ fromHub' = Tail(fromHub)
    /\ IF Head(fromHub) = "ACK" THEN AttemptSucceeds ELSE AttemptFails("SH2_ERR_HUB")
    /\ UNCHANGED <<constVars, toHub, hubVars, noise>>

\* Only an error of the port ends dfu_hal_read's loop without a byte; dfuSend then
\* looks at the time.
ReadFails ==
    /\ pc = "blocked"
    /\ "badread" \in faults
    /\ pc' = "read"
    /\ UNCHANGED <<constVars, status, msg, retries, elapsed, toHub, fromHub,
                   hubVars, noise>>

\* dfu_hal_read polls the line for as long as it takes.
Polling == pc = "blocked" /\ fromHub = <<>> /\ UNCHANGED vars

ReadTimesOut ==
    /\ pc = "read"
    /\ elapsed >= SendTimeout
    /\ AttemptFails("SH2_ERR_TIMEOUT")
    /\ UNCHANGED <<constVars, toHub, fromHub, hubVars, noise>>

-----------------------------------------------------------------------------
(* The hub's bootloader, the line and the clock.                           *)

Answer(ack) == fromHub' = Append(fromHub, ack)

\* What the hub makes of an undamaged message: it has to be what it expects.
Expected(m) ==
    /\ m.kind = hubStage
    /\ m.kind = "data" => m.len = Least(packetLen, firmware.appLen - Len(flash))

\* Once the size is reached the hub is busy with the image and answers nothing.
HubTakes ==
    /\ hubStage # "off"
    /\ toHub # <<>>
    /\ toHub' = Tail(toHub)
    /\ LET m == Head(toHub)
       IN  \/ /\ Expected(m)
              /\ Answer("ACK")
              /\ erased' = TRUE
              /\ flash' = flash \o [i \in 1 .. m.len |-> m.off + i - 1]
              /\ hubStage' = IF m.kind = "appSize" THEN "pktSize"
                             ELSE IF Len(flash') < firmware.appLen THEN "data" ELSE "done"
           \/ /\ ~Expected(m) /\ hubStage # "done"
              /\ Answer("NAK")
              /\ UNCHANGED hubVars
           \/ /\ hubStage = "done"
              /\ UNCHANGED <<fromHub, hubVars>>
    /\ UNCHANGED <<constVars, hostVars, noise>>

\* The message arrived with a wrong CRC.
HubRejects ==
    /\ "noise" \in faults
    /\ noise < MaxNoise
    /\ hubStage \notin {"off", "done"}
    /\ toHub # <<>>
    /\ toHub' = Tail(toHub)
    /\ noise' = noise + 1
    /\ Answer("NAK")
    /\ UNCHANGED <<constVars, hostVars, hubVars>>

Lose ==
    /\ "loss" \in faults
    /\ \/ toHub # <<>> /\ toHub' = Tail(toHub) /\ UNCHANGED fromHub
       \/ fromHub # <<>> /\ fromHub' = Tail(fromHub) /\ UNCHANGED toHub
    /\ UNCHANGED <<constVars, hostVars, hubVars, noise>>

\* dfuSend waits for an acknowledgement: inside the HAL's read or, where that
\* comes back without one, between two of them.
Waiting ==
    \/ pc = "blocked"
    \/ pc = "read" /\ (platform = "windows" \/ "badread" \in faults)

Tick ==
    /\ \/ pc = "write" /\ "slow" \in faults
       \/ /\ Waiting
          /\ faults \cap {"late", "badread"} # {} \/ toHub \o fromHub = <<>>
    /\ elapsed < SendTimeout
    /\ elapsed' = elapsed + 1
    /\ UNCHANGED <<constVars, pc, status, msg, retries, toHub, fromHub, hubVars, noise>>

-----------------------------------------------------------------------------
Host == \/ Validate \/ Open \/ OpenFails \/ Close
        \/ Write \/ WritePart \/ WriteTimesOut \/ ReadBlocks \/ ReadAck \/ ReadTimesOut

Hub == HubTakes \/ HubRejects

Finished == pc = "returned" /\ UNCHANGED vars

Next == Host \/ Polling \/ ReadFails \/ Hub \/ Lose \/ Tick \/ Finished

Spec == Init /\ [][Next]_vars

(* run() keeps running, the hub takes what reaches it and time passes.     *)
Fairness == WF_vars(Host) /\ WF_vars(Hub) /\ WF_vars(Tick)

FairSpec == Spec /\ Fairness

-----------------------------------------------------------------------------
(* Properties.                                                             *)

TypeOK ==
    /\ platform \in Platforms /\ faults \in FaultSets /\ firmware \in Firmwares
    /\ pc \in {"validate", "open", "write", "read", "blocked", "close", "returned"}
    /\ status \in Statuses
    /\ msg \in Messages
    /\ retries \in 0 .. MaxAttempts
    /\ elapsed \in 0 .. SendTimeout
    /\ toHub \in Seq(Messages)
    /\ fromHub \in Seq(Acks)
    /\ hubStage \in {"off", "appSize", "pktSize", "data", "done"}
    /\ flash \in Seq(Nat)
    /\ erased \in BOOLEAN
    /\ noise \in 0 .. MaxNoise

\* Every byte of the application, in order and once.
Exact == flash = [i \in 1 .. firmware.appLen |-> i - 1]

\* run() returns true only if the hub has the application, whole and in order.
SuccessMeansInstalled ==
    pc \in {"close", "returned"} /\ status = "SH2_OK" => Exact

\* No attempt is given up while its acknowledgement is still to come: writing is
\* fast, reading works and, where read polls, the hub is fast, too.
Prompt ==
    /\ faults \cap {"slow", "badread"} = {}
    /\ platform = "linux" \/ "late" \notin faults

\* So it is as long as acknowledgements come in time, whatever is damaged or
\* lost (dfuSend, run).
PromptSuccess == Prompt => SuccessMeansInstalled

\* In time and without losses, the hub is never more than the packet under way
\* ahead of the host, and never behind: no retry duplicates a packet.
InStep ==
    Prompt /\ "loss" \notin faults /\ msg.kind = "data" =>
        Len(flash) \in {msg.off, msg.off + msg.len}

\* dfuBuff holds MAX_PACKET_LEN bytes and the CRC, and no packet is empty.
PacketsFit ==
    \A i \in DOMAIN toHub :
        toHub[i].kind = "data" => toHub[i].len \in 1 .. MaxPacketLen

\* Packet by packet: what a retry sends is what the hub is waiting for, and fits
\* the buffer (dfuSend, run).
PacketsInStep == InStep /\ PacketsFit

phase ==
    IF pc \in {"validate", "open"} THEN "idle"
    ELSE IF pc \in {"write", "read", "blocked"} THEN "updating"
    ELSE IF status = "SH2_OK" THEN "succeeded" ELSE "failed"

image == IF ~erased THEN "old" ELSE IF Exact THEN "new" ELSE "mixed"

Abstract == INSTANCE FirmwareUpdate WITH phase <- phase, image <- image

\* As long as acknowledgements come in time the update is an update as
\* FirmwareUpdate promises it.
Implements == /\ Prompt => Abstract!Init
              /\ [][Prompt => Abstract!Next]_<<phase, image>>

\* run() returns, whatever is lost, damaged or late, with one exception: on Linux
\* dfu_hal_read waits for ever for the acknowledgement of a message that was lost,
\* broken off or overtaken by a repetition, and never for any other (dfuSend).
Terminates ==
    \/ <>(pc = "returned")
    \/ /\ platform = "linux" /\ faults \cap {"loss", "slow", "deadport", "badread"} # {}
       /\ <>[](pc = "blocked" /\ toHub = <<>> /\ fromHub = <<>>)

\* Fewer damaged messages than attempts are overcome by trying again.
OvercomesNoise ==
    /\ faults \subseteq {"noise"}
    /\ MaxNoise < MaxAttempts
    /\ FirmwareStatus = "SH2_OK"
    => <>(pc = "returned" /\ status = "SH2_OK")
=============================================================================
