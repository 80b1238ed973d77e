--------------------------- MODULE FirmwareUpdate ---------------------------
(***************************************************************************)
(* What the two firmware-update commands, dfu-fsp200 and dfu-bno, promise  *)
(* to whoever runs them, whatever protocol carries the image:              *)
(*                                                                         *)
(*   - a firmware file that fails validation leaves the device untouched;  *)
(*   - the old application is destroyed before the new one is programmed,  *)
(*     so the device goes through a state in which it holds neither;       *)
(*   - success is reported only if the device holds the new application;   *)
(*   - once the command has reported, it does not touch the device again.  *)
(*                                                                         *)
(* FspDfu and BnoDfu are shown to implement this module.                   *)
(***************************************************************************)
VARIABLES
    phase,    \* "idle", "updating", "succeeded" or "failed"
    image     \* application in the device's flash: "old", "mixed" or "new"

vars == <<phase, image>>

Phases == {"idle", "updating", "succeeded", "failed"}
Images == {"old", "mixed", "new"}

Init == phase = "idle" /\ image = "old"

\* The file is no good, or the device cannot be opened.
Refuse == phase = "idle" /\ phase' = "failed" /\ UNCHANGED image

\* The device is open and the protocol starts.
Begin == phase = "idle" /\ phase' = "updating" /\ UNCHANGED image

\* The device erases its flash, for the first time or again.
Erase == phase = "updating" /\ image' = "mixed" /\ UNCHANGED phase

\* The device has programmed and verified the last of the new application.
Complete == /\ phase = "updating"
            /\ image = "mixed"
            /\ image' = "new"
            /\ UNCHANGED phase

Succeed == /\ phase = "updating"
           /\ image = "new"
           /\ phase' = "succeeded"
           /\ UNCHANGED image

Fail == phase = "updating" /\ phase' = "failed" /\ UNCHANGED image

Next == Refuse \/ Begin \/ Erase \/ Complete \/ Succeed \/ Fail

Spec == Init /\ [][Next]_vars
=============================================================================
