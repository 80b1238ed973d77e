------------------------------- MODULE HalPort -------------------------------
(***************************************************************************)
(* How the HALs open, use and close the port of the sensor hub             *)
(* (hal/bno_dfu_hal_Linux.c, hal/bno_dfu_hal_Win.c, hal/ftdi_hal.c).       *)
(* RESETN and BOOTN hang on the modem control lines of the port: open and  *)
(* close pull the hub through a reset with these two lines, and wait by    *)
(* the clock, never for an answer, until the hub must be up again.         *)
(*                                                                         *)
(* The three sources have the same steps; where they differ (what a failed *)
(* open leaves behind, whether close ends the reset, how much one write    *)
(* takes) the operators say which.                                         *)
(*                                                                         *)
(* A run of the program is one process: it opens the port at most once and *)
(* may be killed at any step.  The next process, of any kind that fits the *)
(* hub, finds the hub the way the last one left it.  The hub and the       *)
(* operating system's part of the port are outside src/.                   *)
(***************************************************************************)
EXTENDS Integers, Sequences

CONSTANTS
    Ports,           \* [chip: {"bno", "fsp"}, os: {"linux", "windows"}, hangsUp: BOOLEAN]
    RESET_DELAY,     \* RESET_DELAY_US, DFU_BOOT_DELAY_US and
    DFU_BOOT_DELAY,  \* SH2_BOOT_DELAY_US, in ticks
    SH2_BOOT_DELAY,
    ResetTime,       \* the hub notices a reset that lasts this long, and
    BootTime,        \* boots its bootloader or its application in this time
    ClockMod,        \* times are uint32_t: 2^32 us
    MaxLen,          \* longest write
    MaxRuns          \* bound on the processes of a behaviour

Chips   == {"bno", "fsp"}
Systems == {"linux", "windows"}
Modes   == {"bootloader", "application"}

ASSUME PortAssumption == Ports \subseteq [chip: Chips, os: Systems, hangsUp: BOOLEAN]
\* The delays are long enough for the hub: what open and close rely on.
ASSUME DelayAssumption ==
    /\ ResetTime \in Nat \ {0} /\ RESET_DELAY \in Nat /\ ResetTime <= RESET_DELAY
    /\ BootTime \in [Modes -> Nat \ {0}]
    /\ DFU_BOOT_DELAY \in Nat /\ BootTime["bootloader"] <= DFU_BOOT_DELAY
    /\ SH2_BOOT_DELAY \in Nat /\ BootTime["application"] <= SH2_BOOT_DELAY
ASSUME ClockAssumption ==
    /\ ClockMod \in Nat
    /\ \A d \in {RESET_DELAY, DFU_BOOT_DELAY, SH2_BOOT_DELAY} : d + 1 < ClockMod
ASSUME BoundAssumption == MaxLen \in Nat /\ MaxRuns \in Nat

VARIABLES
    port,       \* what the program runs on (never changes)
    program,    \* "bno_dfu", "fsp_dfu" or "log"
    pc,         \* where the process is
    is_open,
    handle,     \* fd or ftHandle: "unset", "bad", "open" or "closed"
    lines,      \* the control lines that are asserted: "RESETN", "BOOTN"
    device,     \* what the hub runs and its phase: "up", "booting" or "held"
    age,        \* ticks since a line changed or the boot began
    now,        \* time32_now_us
    start,      \* local of delay_us
    len,        \* argument of write
    wrote,      \* local of write
    wire,       \* what this write has put on the line: positions in pBuffer
    answer,     \* what write has returned
    runs        \* processes so far

procVars  == <<program, runs>>
halVars   == <<is_open, handle>>
hubVars   == <<lines, device, age>>
clockVars == <<now, start>>
writeVars == <<len, wrote, wire, answer>>
vars      == <<port, procVars, pc, halVars, hubVars, clockVars, writeVars>>

-----------------------------------------------------------------------------
\* The HAL a program takes, and the mode it wants the hub in.
IsBno == program = "bno_dfu"
dfu   == program # "log"
Asked == IF dfu THEN "bootloader" ELSE "application"

ProgramsFor(chip) == IF chip = "bno" THEN {"bno_dfu", "log"} ELSE {"fsp_dfu", "log"}

SH2_ERR_IO == -2   \* stands for any negative status

Init ==
    /\ port \in Ports
    /\ program = "log"
    /\ pc = "gone"
    /\ is_open = FALSE
    /\ handle = "unset"
    /\ lines = {}
    /\ device \in [mode: Modes, phase: {"up"}]
    /\ age = 0
    /\ now = 0
    /\ start = 0
    /\ len = 0
    /\ wrote = 0
    /\ wire = <<>>
    /\ answer = 0
    /\ runs = 0

-----------------------------------------------------------------------------
(* The hub.  It samples BOOTN when the reset ends.  A reset that is too    *)
(* short may go unnoticed.                                                 *)

ModeFor(ls) == IF "BOOTN" \in ls THEN "bootloader" ELSE "application"

\* What becomes of the hub when the lines change from `old' to `new'.  When
\* both change at once nobody can say which one the hub sees first.
Reactions(old, new) ==
    LET boots == {[mode |-> ModeFor(ls), phase |-> "booting"] : ls \in {old, new}}
    IN  IF "RESETN" \in old /\ "RESETN" \notin new
        THEN IF device.phase = "held" THEN boots ELSE boots \cup {device}
        ELSE {device}

SetLines(new) ==
    /\ lines' = new
    /\ device' \in Reactions(lines, new)
    /\ age' = IF ("RESETN" \in lines) = ("RESETN" \in new) THEN age ELSE 0

\* Through a port that is not open the lines cannot be reached.
Drive(new) == IF handle = "open" THEN SetLines(new) ELSE UNCHANGED hubVars

\* The logic level is inverted: a line that is asserted is low.
setResetN(state) == Drive(IF state THEN lines \ {"RESETN"} ELSE lines \cup {"RESETN"})
setBootN(state)  == Drive(IF state THEN lines \ {"BOOTN"} ELSE lines \cup {"BOOTN"})

Booted ==
    /\ device.phase = "booting"
    /\ device' = [device EXCEPT !.phase = "up"]
    /\ age' = IF "RESETN" \in lines THEN age ELSE 0
    /\ UNCHANGED <<port, procVars, pc, halVars, lines, clockVars, writeVars>>

-----------------------------------------------------------------------------
(* The clock.                                                              *)

\* Faulty variant: the difference is not taken modulo 2^32.
Elapsed_Signed == now - start

\* (now - start), as uint32_t.
Elapsed == (now - start) % ClockMod

\* delay_us(t) is over.
Delayed(t) == Elapsed > t

Waiting == pc \in {"open_held", "open_up", "close_held", "close_up"}

\* A tick never overtakes the hub's boot, nor does the process stand still
\* for a whole turn of the clock.
Tick ==
    /\ "RESETN" \in lines \/ device.phase # "booting" \/ age < BootTime[device.mode]
    /\ Waiting => (now - start) % ClockMod < ClockMod - 1
    /\ now' = (now + 1) % ClockMod
    /\ CASE "RESETN" \in lines /\ device.phase # "held" ->
              /\ age' = age + 1
              /\ device' = IF age' < ResetTime THEN device ELSE [device EXCEPT !.phase = "held"]
         [] "RESETN" \notin lines /\ device.phase = "booting" ->
              age' = age + 1 /\ UNCHANGED device
         [] OTHER -> UNCHANGED <<age, device>>
    /\ UNCHANGED <<port, procVars, pc, halVars, lines, start, writeVars>>

-----------------------------------------------------------------------------
(* The operating system.                                                   *)

\* Linux raises both lines when a port is opened; the Windows driver leaves
\* them alone or clears them.
LinesOnOpen == IF port.os = "linux" THEN {{"RESETN", "BOOTN"}} ELSE {lines, {}}

\* A port that hangs up drops both lines when it is closed.
Release ==
    IF handle = "open" /\ port.hangsUp THEN SetLines({}) ELSE UNCHANGED hubVars

-----------------------------------------------------------------------------
(* open.                                                                   *)

\* A process starts and asks for its HAL.
InitHal ==
    /\ pc \in {"gone", "closed"}
    /\ runs < MaxRuns
    /\ runs' = runs + 1
    /\ program' \in ProgramsFor(port.chip)
    /\ pc' = "idle"
    /\ is_open' = FALSE
    /\ handle' = "unset"
    /\ now' = 0
    /\ start' = 0
    /\ len' = 0 /\ wrote' = 0 /\ wire' = <<>> /\ answer' = 0
    /\ UNCHANGED <<port, hubVars>>

Open ==
    /\ pc = "idle"
    /\ ~is_open
    /\ is_open' = TRUE
    /\ pc' = "open_port"
    /\ UNCHANGED <<port, procVars, handle, hubVars, clockVars, writeVars>>

OpenPort ==
    /\ pc = "open_port"
    /\ pc' = "setup"
    /\ handle' = "open"
    /\ \E ls \in LinesOnOpen : SetLines(ls)
    /\ UNCHANGED <<port, procVars, is_open, clockVars, writeVars>>

\* On Windows the HAL believes itself open after this.
OpenPortFails ==
    /\ pc = "open_port"
    /\ pc' = "failed"
    /\ is_open' = (port.os = "windows")
    /\ handle' = "bad"
    /\ UNCHANGED <<port, procVars, hubVars, clockVars, writeVars>>

\* The port cannot be set up: Linux closes it again, Windows does not.
SetupFails ==
    /\ pc = "setup"
    /\ pc' = "failed"
    /\ IF port.os = "linux"
       THEN is_open' = FALSE /\ handle' = "bad" /\ Release
       ELSE UNCHANGED <<halVars, hubVars>>
    /\ UNCHANGED <<port, procVars, clockVars, writeVars>>

OpenAssertsReset ==
    /\ pc = "setup"
    /\ setResetN(FALSE)
    /\ pc' = "open_boot"
    /\ UNCHANGED <<port, procVars, halVars, clockVars, writeVars>>

OpenSetsBootN ==
    /\ pc = "open_boot"
    /\ setBootN(~dfu)
    /\ start' = now
    /\ pc' = "open_held"
    /\ UNCHANGED <<port, procVars, halVars, now, writeVars>>

\* Faulty variant: the reset is not held.
OpenReleasesReset_TooSoon ==
    /\ pc = "open_held"
    /\ setResetN(TRUE)
    /\ start' = now
    /\ pc' = "open_up"
    /\ UNCHANGED <<port, procVars, halVars, now, writeVars>>

OpenReleasesReset ==
    /\ pc = "open_held"
    /\ Delayed(RESET_DELAY)
    /\ setResetN(TRUE)
    /\ start' = now
    /\ pc' = "open_up"
    /\ UNCHANGED <<port, procVars, halVars, now, writeVars>>

\* SH2_OK: the hub must be up.
OpenReturns ==
    /\ pc = "open_up"
    /\ Delayed(IF dfu THEN DFU_BOOT_DELAY ELSE SH2_BOOT_DELAY)
    /\ pc' = "using"
    /\ UNCHANGED <<port, procVars, halVars, hubVars, clockVars, writeVars>>

-----------------------------------------------------------------------------
(* close.  BnoDfu::run also calls it when open has failed and when it has  *)
(* never been called; the users of the FTDI HAL do not.                    *)

MayClose ==
    pc = "using" \/ (IsBno /\ pc = "failed") \/ (IsBno /\ pc = "idle")

Close ==
    /\ MayClose
    /\ setResetN(FALSE)
    /\ pc' = "close_boot"
    /\ UNCHANGED <<port, procVars, halVars, clockVars, writeVars>>

CloseSetsBootN ==
    /\ pc = "close_boot"
    /\ setBootN(TRUE)
    /\ start' = now
    /\ pc' = "close_held"
    /\ UNCHANGED <<port, procVars, halVars, now, writeVars>>

\* Only the HALs of the BNO end the reset themselves, and wait.
CloseReleasesReset ==
    /\ pc = "close_held"
    /\ IsBno
    /\ Delayed(RESET_DELAY)
    /\ setResetN(TRUE)
    /\ start' = now
    /\ pc' = "close_up"
    /\ UNCHANGED <<port, procVars, halVars, now, writeVars>>

ClosePort ==
    /\ \/ IsBno /\ pc = "close_up" /\ Delayed(SH2_BOOT_DELAY)
       \/ ~IsBno /\ pc = "close_held" /\ Delayed(RESET_DELAY)
    /\ is_open' = FALSE
    /\ handle' = IF handle = "open" THEN "closed" ELSE handle
    /\ Release
    /\ pc' = "closed"
    /\ UNCHANGED <<port, procVars, clockVars, writeVars>>

\* The users of the FTDI HAL give up when it cannot be opened.
GiveUp ==
    /\ pc = "failed"
    /\ ~IsBno
    /\ pc' = "gone"
    /\ Release
    /\ handle' = "bad"
    /\ UNCHANGED <<port, procVars, is_open, clockVars, writeVars>>

\* The process is killed, or crashes; the system closes its port.
Kill ==
    /\ pc \notin {"gone", "closed"}
    /\ pc' = "gone"
    /\ Release
    /\ handle' = "bad"
    /\ UNCHANGED <<port, procVars, is_open, clockVars, writeVars>>

-----------------------------------------------------------------------------
(* write.                                                                  *)

Write ==
    /\ pc = "using"
    /\ len' \in 1 .. MaxLen
    /\ wrote' = 0
    /\ wire' = <<>>
    /\ pc' = "writing"
    /\ UNCHANGED <<port, procVars, halVars, hubVars, clockVars, answer>>

\* Faulty variant: the length is not reduced by what has been written.
Portions_Whole == IF IsBno THEN 1 .. len ELSE {1}

\* What one call of the system's write takes: the FTDI HAL hands over the
\* bytes one at a time, the others as many as are left.
Portions == IF IsBno THEN 1 .. (len - wrote) ELSE {1}

\* Faulty variant: the pointer into the buffer does not move.
WriteSome_SameStart ==
    /\ pc = "writing"
    /\ wrote < len
    /\ \E n \in Portions :
          /\ wrote' = wrote + n
          /\ wire' = wire \o [i \in 1 .. n |-> i]
    /\ UNCHANGED <<port, procVars, pc, halVars, hubVars, clockVars, len, answer>>

WriteSome ==
    /\ pc = "writing"
    /\ wrote < len
    /\ \E n \in Portions :
          /\ wrote' = wrote + n
          /\ wire' = wire \o [i \in 1 .. n |-> wrote + i]
    /\ UNCHANGED <<port, procVars, pc, halVars, hubVars, clockVars, len, answer>>

\* An error ends the loop: the HALs of the BNO return what has been written
\* (0 looks like a device that is busy), the FTDI HAL an error.
WriteBreaks ==
    /\ pc = "writing"
    /\ wrote < len
    /\ answer' = IF IsBno THEN wrote ELSE SH2_ERR_IO
    /\ pc' = "using"
    /\ UNCHANGED <<port, procVars, halVars, hubVars, clockVars, len, wrote, wire>>

WriteReturns ==
    /\ pc = "writing"
    /\ wrote = len
    /\ answer' = len
    /\ pc' = "using"
    /\ UNCHANGED <<port, procVars, halVars, hubVars, clockVars, len, wrote, wire>>

-----------------------------------------------------------------------------
OpenStep  == \/ OpenPort \/ OpenAssertsReset \/ OpenSetsBootN
             \/ OpenReleasesReset \/ OpenReturns
CloseStep == CloseSetsBootN \/ CloseReleasesReset \/ ClosePort
WriteStep == WriteSome \/ WriteReturns
Failure   == OpenPortFails \/ SetupFails \/ WriteBreaks \/ Kill

Next ==
    \/ InitHal \/ Open \/ Close \/ GiveUp \/ Write
    \/ OpenStep \/ CloseStep \/ WriteStep
    \/ Failure
    \/ Booted \/ Tick

Spec == Init /\ [][Next]_vars

\* The process runs, the clock runs and the hub boots in time.
Fairness ==
    /\ WF_vars(OpenStep) /\ WF_vars(CloseStep) /\ WF_vars(WriteStep)
    /\ WF_vars(Tick) /\ WF_vars(Booted)

FairSpec == Spec /\ Fairness

-----------------------------------------------------------------------------
(* Properties.                                                             *)

\* The types of all variables.
TypeOK ==
    /\ port \in Ports
    /\ program \in {"bno_dfu", "fsp_dfu", "log"}
    /\ pc \in {"gone", "idle", "open_port", "setup", "failed", "open_boot", "open_held",
               "open_up", "using", "writing", "close_boot", "close_held", "close_up",
               "closed"}
    /\ is_open \in BOOLEAN
    /\ handle \in {"unset", "bad", "open", "closed"}
    /\ lines \in SUBSET {"RESETN", "BOOTN"}
    /\ device \in [mode: Modes, phase: {"up", "booting", "held"}]
    /\ age \in Nat
    /\ now \in 0 .. ClockMod - 1
    /\ start \in 0 .. ClockMod - 1
    /\ len \in 0 .. MaxLen
    /\ wrote \in 0 .. len
    /\ wire \in Seq(1 .. MaxLen)
    /\ answer \in (0 .. MaxLen) \cup {SH2_ERR_IO}
    /\ runs \in 0 .. MaxRuns

\* Once open has answered SH2_OK and until close is called, the hub has
\* booted, in the mode the program needs.
UpAsAsked ==
    pc \in {"using", "writing"} => device = [mode |-> Asked, phase |-> "up"]

\* "Reset into normal SHTP mode": close never leaves the hub in its
\* bootloader.  The BNO's HALs return with the application up; the FTDI HAL
\* leaves the hub to the system's closing of the port, and in reset, though
\* with BOOTN released, if the lines stay as they are.
BackToNormal ==
    (pc = "closed" /\ handle = "closed") =>
        /\ "BOOTN" \notin lines
        /\ IF program = "bno_dfu" THEN device = [mode |-> "application", phase |-> "up"]
           ELSE IF port.hangsUp THEN device.mode = "application" /\ device.phase # "held"
           ELSE device.phase = "held"

\* RESETN, BOOTN and waiting by the clock are enough: between open and close
\* the hub runs what the program needs, and after close it is out of its
\* bootloader - whatever the processes before, killed at any step, have made
\* of the hub and of the lines (see the two operators).
ModeAsAsked == UpAsAsked /\ BackToNormal

\* What write reports has reached the line, in the order of the buffer and
\* without a gap; after an error of the FTDI HAL, at least no more than that.
WrittenInOrder ==
    pc = "using" => /\ wire = [i \in 1 .. Len(wire) |-> i]
                    /\ answer # SH2_ERR_IO => answer = Len(wire)

\* Opening, closing and writing come to an end: by the clock, not by the
\* hub's answer.
CallsReturn ==
    pc \in {"open_port", "close_boot", "writing"} ~> pc \in {"using", "failed", "closed", "gone"}
=============================================================================
