------------------------------ MODULE HalProofs -----------------------------
(***************************************************************************)
(* Proofs about the HALs: the port of the sensor hub (HalPort) and the     *)
(* framing of what goes through it (Rfc1662).                              *)
(*                                                                         *)
(* The port, for every set of ports, every length of the delays, of the    *)
(* clock and of a write, and any number of processes that fail or are      *)
(* killed at any step.  The argument: a phase of the hub is over when a    *)
(* delay is over, because the hub has been in its phase at least as long   *)
(* as the delay has run.  While the process holds RESETN, a hub that has   *)
(* not noticed yet is in reset for `age' ticks, at least as many as have   *)
(* elapsed; while it waits for the boot, a hub that is not up yet has      *)
(* booted for `age' ticks.  What the hub was before does not matter.       *)
(*                                                                         *)
(* The framing, for transfers of any bytes and any length, buffers of any  *)
(* size and any number of frames.  A frame no damage concerns is followed  *)
(* byte by byte: what is left of it on the line says how much of it the    *)
(* receiver has (InFrame).  After a damaged frame nothing is known of the  *)
(* receiver but that the frame after it cannot leave it inside an escape,  *)
(* so that its last flag, whether it is taken for an end or for a start,   *)
(* brings it back (AfterDamage).                                           *)
(***************************************************************************)
EXTENDS HalPort, Rfc1662, SequenceTheorems, WellFoundedInduction, TLAPS


\* The hub's own part: it notices a reset in time, boots in time, and is not
\* held once the reset is over.
HubInv ==
    /\ "RESETN" \in lines /\ device.phase # "held" => age < ResetTime
    /\ "RESETN" \notin lines =>
          /\ device.phase # "held"
          /\ device.phase = "booting" => age <= BootTime[device.mode]

\* The process holds the hub in reset, with BOOTN set or not.
InReset(bootn) ==
    /\ "RESETN" \in lines
    /\ "BOOTN" \in lines <=> bootn
    /\ device.phase # "held" => Elapsed <= age

\* The process waits for the hub to boot in a mode.
InBoot(mode) ==
    /\ "RESETN" \notin lines
    /\ device.mode = mode
    /\ device.phase = "booting" => Elapsed <= age

\* How far open has come.
OpenInv ==
    /\ pc \in {"setup", "open_boot", "open_held", "open_up", "using", "writing"} => handle = "open"
    /\ pc = "open_boot" => "RESETN" \in lines
    /\ pc = "open_held" => InReset(dfu)
    /\ pc = "open_up" => InBoot(Asked)
    /\ pc \in {"using", "writing"} =>
          "RESETN" \notin lines /\ device = [mode |-> Asked, phase |-> "up"]

\* How far close has come, unless it works on a port that is not open.
CloseInv ==
    /\ handle = "closed" => pc = "closed"
    /\ handle = "open" =>
          /\ pc = "close_boot" => "RESETN" \in lines
          /\ pc = "close_held" => InReset(FALSE)
          /\ pc = "close_up" => IsBno /\ "BOOTN" \notin lines /\ InBoot("application")
    /\ handle = "closed" =>
          /\ BackToNormal
          /\ IsBno \/ port.hangsUp => "RESETN" \notin lines
          /\ ~IsBno /\ ~port.hangsUp => "RESETN" \in lines

PortInv == HubInv /\ OpenInv /\ CloseInv

-----------------------------------------------------------------------------
(* The clock.                                                              *)

\* The remainder of a number that is less than twice the divisor away from 0.
LEMMA SmallModulus ==
    ASSUME NEW n \in Nat \ {0}, NEW a \in Int
    PROVE  /\ a % n \in 0 .. n - 1
           /\ 0 <= a /\ a < n => a % n = a
           /\ -n <= a /\ a < 0 => a % n = a + n
           /\ n <= a /\ a < n + n => a % n = a - n
  BY SMT

\* Differences and ticks of a clock.
LEMMA ClockArithmetic ==
    ASSUME NEW n \in Nat \ {0}, NEW a \in 0 .. n - 1, NEW b \in 0 .. n - 1
    PROVE  /\ (a - b) % n = IF b <= a THEN a - b ELSE a - b + n
           /\ (a + 1) % n = IF a = n - 1 THEN 0 ELSE a + 1
  <1>1. a - b \in Int /\ a + 1 \in Int
    OBVIOUS
  <1>2. (a - b) % n = IF b <= a THEN a - b ELSE a - b + n
    <2>1. /\ 0 <= a - b /\ a - b < n => (a - b) % n = a - b
          /\ -n <= a - b /\ a - b < 0 => (a - b) % n = a - b + n
      BY <1>1, SmallModulus
    <2> QED
      BY <2>1
  <1>3. (a + 1) % n = IF a = n - 1 THEN 0 ELSE a + 1
    <2>1. \A c \in Int : /\ 0 <= c /\ c < n => c % n = c
                        /\ n <= c /\ c < n + n => c % n = c - n
      BY SmallModulus
    <2> QED
      BY <1>1, <2>1
  <1> QED
    BY <1>2, <1>3

\* The delays are shorter than a turn of the clock.
LEMMA Clock == ClockMod \in Nat \ {0}
  BY DelayAssumption, ClockAssumption

\* Elapsed is a time of the clock, 0 when a delay starts.
LEMMA ElapsedTyped ==
    ASSUME TypeOK
    PROVE  /\ Elapsed \in 0 .. ClockMod - 1
           /\ now = start => Elapsed = 0
  <1>1. (now - start) % ClockMod = IF start <= now THEN now - start ELSE now - start + ClockMod
    BY Clock, ClockArithmetic DEF TypeOK
  <1> QED
    BY <1>1, Clock DEF TypeOK, Elapsed

\* While a delay runs every tick counts.
LEMMA ElapsedCounts ==
    ASSUME TypeOK, Elapsed < ClockMod - 1, now' = (now + 1) % ClockMod, start' = start
    PROVE  Elapsed' = Elapsed + 1
  <1>1. now \in 0 .. ClockMod - 1 /\ start \in 0 .. ClockMod - 1 /\ ClockMod \in Nat \ {0}
    BY Clock DEF TypeOK
  <1>2. Elapsed = IF start <= now THEN now - start ELSE now - start + ClockMod
    BY <1>1, ClockArithmetic DEF Elapsed
  <1>3. now' = IF now = ClockMod - 1 THEN 0 ELSE now + 1
    BY <1>1, ClockArithmetic
  <1>4. now' \in 0 .. ClockMod - 1
    BY <1>1, <1>3
  <1>5. Elapsed' = IF start <= now' THEN now' - start ELSE now' - start + ClockMod
    <2>1. Elapsed' = (now' - start) % ClockMod
      BY DEF Elapsed
    <2>2. (now' - start) % ClockMod = IF start <= now' THEN now' - start ELSE now' - start + ClockMod
      BY <1>1, <1>4, ClockArithmetic
    <2> QED
      BY <2>1, <2>2
  <1> QED
    BY <1>1, <1>2, <1>3, <1>5

-----------------------------------------------------------------------------
(* The control lines.                                                      *)

\* What a change of the lines does to a hub.
LEMMA LinesChange ==
    ASSUME TypeOK, NEW new \in SUBSET {"RESETN", "BOOTN"}, SetLines(new)
    PROVE  /\ lines' = new
           /\ device' \in [mode: Modes, phase: {"up", "booting", "held"}]
           /\ age' \in Nat
           /\ ("RESETN" \in lines <=> "RESETN" \in new) => device' = device /\ age' = age
           /\ "RESETN" \notin lines => device' = device
           /\ ~("RESETN" \in lines <=> "RESETN" \in new) => age' = 0
           /\ "RESETN" \in lines /\ "RESETN" \notin new =>
                 \/ device' = device /\ device.phase # "held"
                 \/ /\ device'.phase = "booting"
                    /\ device'.mode \in {ModeFor(lines), ModeFor(new)}
  <1>1. \A ls : [mode |-> ModeFor(ls), phase |-> "booting"]
                   \in [mode: Modes, phase: {"up", "booting", "held"}]
    BY DEF ModeFor, Modes
  <1>2. CASE "RESETN" \in lines /\ "RESETN" \notin new
    <2>1. \/ device' = device /\ device.phase # "held"
          \/ \E ls \in {lines, new} : device' = [mode |-> ModeFor(ls), phase |-> "booting"]
      BY <1>2 DEF SetLines, Reactions
    <2> QED
      BY <1>1, <1>2, <2>1 DEF SetLines, TypeOK
  <1>3. CASE ~("RESETN" \in lines /\ "RESETN" \notin new)
    <2>1. device' = device
      BY <1>3 DEF SetLines, Reactions
    <2> QED
      BY <1>3, <2>1 DEF SetLines, TypeOK
  <1> QED
    BY <1>2, <1>3

\* A change of the lines keeps the hub's part of the invariant.
LEMMA LinesKeepHub ==
    ASSUME TypeOK, HubInv, NEW new \in SUBSET {"RESETN", "BOOTN"}, SetLines(new)
    PROVE  HubInv'
  <1>1. CASE "RESETN" \in lines <=> "RESETN" \in new
    BY <1>1, LinesChange DEF HubInv
  <1>2. CASE "RESETN" \notin lines /\ "RESETN" \in new
    BY <1>2, LinesChange, DelayAssumption DEF HubInv
  <1>3. CASE "RESETN" \in lines /\ "RESETN" \notin new
    <2>1. device'.phase # "held" /\ age' = 0 /\ BootTime[device'.mode] \in Nat
      BY <1>3, LinesChange, DelayAssumption DEF HubInv
    <2> QED
      BY <1>3, <2>1, LinesChange DEF HubInv
  <1> QED
    BY <1>1, <1>2, <1>3

\* The lines that the actions ask for are lines.
LEMMA LinesAsked ==
    ASSUME TypeOK
    PROVE  /\ lines \ {"RESETN"} \in SUBSET {"RESETN", "BOOTN"}
           /\ lines \cup {"RESETN"} \in SUBSET {"RESETN", "BOOTN"}
           /\ lines \ {"BOOTN"} \in SUBSET {"RESETN", "BOOTN"}
           /\ lines \cup {"BOOTN"} \in SUBSET {"RESETN", "BOOTN"}
           /\ {} \in SUBSET {"RESETN", "BOOTN"}
           /\ LinesOnOpen \subseteq SUBSET {"RESETN", "BOOTN"}
  BY DEF TypeOK, LinesOnOpen

-----------------------------------------------------------------------------
(* Type correctness.                                                       *)

\* The types of what an action of the hub changes.
HubTyped ==
    /\ lines \in SUBSET {"RESETN", "BOOTN"}
    /\ device \in [mode: Modes, phase: {"up", "booting", "held"}]
    /\ age \in Nat

\* Every way to the lines keeps the types.
LEMMA HubTypes ==
    ASSUME TypeOK
    PROVE  /\ \A state \in BOOLEAN : setResetN(state) \/ setBootN(state) => HubTyped'
           /\ \A new \in LinesOnOpen : SetLines(new) => HubTyped'
           /\ Release => HubTyped'
  <1>1. UNCHANGED hubVars => HubTyped'
    BY DEF TypeOK, HubTyped, hubVars
  <1>2. \A new \in SUBSET {"RESETN", "BOOTN"} : SetLines(new) => HubTyped'
    BY LinesChange DEF HubTyped
  <1> QED
    BY <1>1, <1>2, LinesAsked DEF setResetN, setBootN, Drive, Release

\* A tick and the end of a boot keep the types.
LEMMA TickTyped == TypeOK /\ (Tick \/ Booted) => TypeOK'
  <1> SUFFICES ASSUME TypeOK, Tick \/ Booted PROVE TypeOK'
    OBVIOUS
  <1>1. CASE Tick
    <2>1. now' \in 0 .. ClockMod - 1
      <3>1. (now + 1) % ClockMod = IF now = ClockMod - 1 THEN 0 ELSE now + 1
        BY Clock, ClockArithmetic DEF TypeOK
      <3> QED
        BY <1>1, <3>1, Clock DEF TypeOK, Tick
    <2>2. HubTyped'
      <3>1. age' \in Nat
        BY <1>1 DEF TypeOK, Tick
      <3>2. device' \in {device, [device EXCEPT !.phase = "held"]}
        BY <1>1 DEF Tick
      <3> QED
        BY <1>1, <3>1, <3>2 DEF TypeOK, Tick, HubTyped
    <2> QED
      BY <1>1, <2>1, <2>2 DEF TypeOK, Tick, HubTyped, procVars, halVars, writeVars
  <1>2. CASE Booted
    BY <1>2 DEF TypeOK, Booted, procVars, halVars, clockVars, writeVars
  <1> QED
    BY <1>1, <1>2

\* A write never counts, nor sends, more than it was given.
LEMMA WriteTyped == TypeOK /\ (Write \/ WriteStep \/ WriteBreaks) => TypeOK'
  <1> SUFFICES ASSUME TypeOK, Write \/ WriteStep \/ WriteBreaks PROVE TypeOK'
    OBVIOUS
  <1> USE DEF procVars, halVars, hubVars, clockVars
  <1>1. CASE Write
    BY <1>1, EmptySeq DEF TypeOK, Write
  <1>2. CASE WriteSome
    <2>1. PICK n \in Portions : wrote' = wrote + n /\ wire' = wire \o [i \in 1 .. n |-> wrote + i]
      BY <1>2 DEF WriteSome
    <2>2. n \in Nat /\ wrote + n <= len /\ len <= MaxLen /\ wrote \in Nat /\ len \in Nat
      BY <1>2, <2>1, BoundAssumption DEF TypeOK, WriteSome, Portions
    <2>3. [i \in 1 .. n |-> wrote + i] \in Seq(1 .. MaxLen)
      <3>1. [i \in 1 .. n |-> wrote + i] \in [1 .. n -> 1 .. MaxLen]
        <4>1. \A i \in 1 .. n : wrote + i \in 1 .. MaxLen
          BY <2>2, BoundAssumption
        <4> QED
          BY <4>1
      <3> QED
        BY <2>2, <3>1, SeqDef
    <2>4. wire' \in Seq(1 .. MaxLen)
      BY <2>1, <2>3, ConcatProperties DEF TypeOK
    <2> QED
      BY <1>2, <2>1, <2>2, <2>4 DEF TypeOK, WriteSome
  <1>3. CASE WriteReturns \/ WriteBreaks
    <2>1. answer' \in {len, wrote, SH2_ERR_IO} /\ len \in 0 .. MaxLen /\ wrote \in 0 .. MaxLen
      BY <1>3, BoundAssumption DEF TypeOK, WriteReturns, WriteBreaks
    <2> QED
      BY <1>3, <2>1 DEF TypeOK, WriteReturns, WriteBreaks
  <1> QED
    BY <1>1, <1>2, <1>3 DEF WriteStep

LEMMA InitTyped == Init => TypeOK
  <1>1. 0 \in 0 .. ClockMod - 1 /\ MaxLen \in Nat /\ MaxRuns \in Nat
    BY Clock, BoundAssumption
  <1>2. <<>> \in Seq(1 .. MaxLen)
    BY EmptySeq
  <1>3. ASSUME Init PROVE device \in [mode: Modes, phase: {"up", "booting", "held"}]
    BY <1>3 DEF Init
  <1>4. 0 \in 0 .. 0 /\ 0 \in Nat /\ 0 \in 0 .. MaxLen /\ 0 \in 0 .. MaxRuns
    BY <1>1
  <1>5. ASSUME Init PROVE /\ len \in 0 .. MaxLen /\ wrote \in 0 .. len /\ age \in Nat
                          /\ runs \in 0 .. MaxRuns /\ answer \in 0 .. MaxLen
    BY <1>4, <1>5 DEF Init
  <1> QED
    BY <1>1, <1>2, <1>3, <1>5 DEF Init, TypeOK

LEMMA NextTyped == TypeOK /\ [Next]_vars => TypeOK'
  <1> SUFFICES ASSUME TypeOK, [Next]_vars PROVE TypeOK'
    OBVIOUS
  <1> USE DEF procVars, halVars, clockVars, writeVars
  <1>1. CASE InitHal
    <2>1. 0 \in 0 .. ClockMod - 1 /\ <<>> \in Seq(1 .. MaxLen) /\ MaxLen \in Nat
      BY Clock, BoundAssumption, EmptySeq
    <2> QED
      <3>1. program' \in {"bno_dfu", "fsp_dfu", "log"}
        BY <1>1 DEF InitHal, ProgramsFor
      <3>2. runs' \in 0 .. MaxRuns
        BY <1>1, BoundAssumption DEF TypeOK, InitHal
      <3>3. /\ len' \in 0 .. MaxLen /\ wrote' \in 0 .. len' /\ answer' \in 0 .. MaxLen
            /\ now' \in 0 .. ClockMod - 1 /\ start' \in 0 .. ClockMod - 1
        BY <1>1, <2>1 DEF InitHal
      <3>4. HubTyped' /\ port' \in Ports
        BY <1>1 DEF TypeOK, HubTyped, InitHal, hubVars
      <3> QED
        BY <1>1, <2>1, <3>1, <3>2, <3>3, <3>4 DEF TypeOK, HubTyped, InitHal
  <1>2. CASE Open \/ OpenPortFails \/ OpenReturns
    BY <1>2 DEF TypeOK, Open, OpenPortFails, OpenReturns, hubVars
  <1>3. CASE \/ OpenAssertsReset \/ OpenSetsBootN \/ OpenReleasesReset
             \/ Close \/ CloseSetsBootN \/ CloseReleasesReset
    <2>1. HubTyped'
      BY <1>3, HubTypes DEF OpenAssertsReset, OpenSetsBootN, OpenReleasesReset,
                            Close, CloseSetsBootN, CloseReleasesReset, dfu
    <2> QED
      BY <1>3, <2>1 DEF TypeOK, HubTyped, OpenAssertsReset, OpenSetsBootN, OpenReleasesReset,
                        Close, CloseSetsBootN, CloseReleasesReset
  <1>4. CASE OpenPort
    BY <1>4, HubTypes DEF TypeOK, HubTyped, OpenPort
  <1>5. CASE SetupFails
    <2>1. HubTyped'
      BY <1>5, HubTypes DEF SetupFails, TypeOK, HubTyped, hubVars
    <2> QED
      BY <1>5, <2>1 DEF TypeOK, HubTyped, SetupFails
  <1>6. CASE ClosePort \/ GiveUp \/ Kill
    <2>1. HubTyped'
      BY <1>6, HubTypes DEF ClosePort, GiveUp, Kill
    <2> QED
      BY <1>6, <2>1 DEF TypeOK, HubTyped, ClosePort, GiveUp, Kill
  <1>7. CASE Write \/ WriteStep \/ WriteBreaks
    BY <1>7, WriteTyped
  <1>8. CASE Tick \/ Booted
    BY <1>8, TickTyped
  <1>9. CASE UNCHANGED vars
    BY <1>9 DEF TypeOK, vars, hubVars
  <1> QED
    BY <1>1, <1>2, <1>3, <1>4, <1>5, <1>6, <1>7, <1>8, <1>9
    DEF Next, OpenStep, CloseStep, Failure

\* The variables keep their types, whatever fails and whenever the program is
\* killed: a process, a port and a hub that are in the states the code knows.
THEOREM TypeCorrect == Spec => []TypeOK
  BY InitTyped, NextTyped, PTL DEF Spec

-----------------------------------------------------------------------------
(* The modes of the hub.                                                   *)

LEMMA InitPort == Init => PortInv
  BY DEF Init, PortInv, HubInv, OpenInv, CloseInv

\* The hub's part.
LEMMA NextHub == TypeOK /\ HubInv /\ [Next]_vars => HubInv'
  <1> SUFFICES ASSUME TypeOK, HubInv, [Next]_vars PROVE HubInv'
    OBVIOUS
  <1>0. UNCHANGED hubVars => HubInv'
    BY DEF HubInv, hubVars
  <1>1. \A new \in SUBSET {"RESETN", "BOOTN"} : SetLines(new) => HubInv'
    BY LinesKeepHub
  <1>2. CASE Tick
    <2>1. ResetTime \in Nat /\ BootTime[device.mode] \in Nat /\ age \in Nat
      BY DelayAssumption DEF TypeOK
    <2>2. CASE "RESETN" \in lines
      BY <1>2, <2>1, <2>2 DEF Tick, HubInv, TypeOK
    <2>3. CASE "RESETN" \notin lines
      BY <1>2, <2>1, <2>3 DEF Tick, HubInv, TypeOK
    <2> QED
      BY <2>2, <2>3
  <1>3. CASE Booted
    BY <1>3 DEF Booted, HubInv, TypeOK
  <1>4. CASE \/ OpenPort \/ SetupFails \/ ClosePort \/ GiveUp \/ Kill
             \/ OpenAssertsReset \/ OpenSetsBootN \/ OpenReleasesReset
             \/ Close \/ CloseSetsBootN \/ CloseReleasesReset
    BY <1>0, <1>1, <1>4, LinesAsked
    DEF OpenPort, SetupFails, ClosePort, GiveUp, Kill, OpenAssertsReset, OpenSetsBootN,
        OpenReleasesReset, Close, CloseSetsBootN, CloseReleasesReset,
        setResetN, setBootN, Drive, Release
  <1>5. CASE UNCHANGED vars
    BY <1>0, <1>5 DEF vars
  <1> QED
    BY <1>0, <1>2, <1>3, <1>4, <1>5
    DEF Next, OpenStep, CloseStep, WriteStep, Failure, InitHal, Open, OpenPortFails, OpenReturns,
        Write, WriteSome, WriteReturns, WriteBreaks

\* What a step on the lines does when the port is open, and when it is not.
LEMMA DriveEffect ==
    ASSUME TypeOK, HubInv
    PROVE  /\ handle # "open" => \A state \in BOOLEAN :
                 setResetN(state) \/ setBootN(state) => UNCHANGED hubVars
           /\ handle = "open" /\ setResetN(FALSE) => "RESETN" \in lines'
           /\ handle = "open" /\ setResetN(TRUE) =>
                 /\ "RESETN" \notin lines'
                 /\ "BOOTN" \in lines' <=> "BOOTN" \in lines
                 /\ age' = 0 \/ (device' = device /\ age' = age)
                 /\ "RESETN" \in lines /\ device.phase = "held" =>
                       /\ device'.mode = IF "BOOTN" \in lines THEN "bootloader" ELSE "application"
                       /\ age' = 0
           /\ handle = "open" => \A state \in BOOLEAN : setBootN(state) =>
                 /\ "RESETN" \in lines' <=> "RESETN" \in lines
                 /\ "BOOTN" \in lines' <=> ~state
                 /\ device' = device /\ age' = age
  <1>1. ASSUME handle # "open", NEW state \in BOOLEAN, setResetN(state) \/ setBootN(state)
        PROVE  UNCHANGED hubVars
    BY <1>1 DEF setResetN, setBootN, Drive
  <1>2. ASSUME handle = "open", setResetN(FALSE) PROVE "RESETN" \in lines'
    BY <1>2, LinesAsked, LinesChange DEF setResetN, Drive
  <1>3. ASSUME handle = "open", setResetN(TRUE)
        PROVE  /\ "RESETN" \notin lines'
               /\ "BOOTN" \in lines' <=> "BOOTN" \in lines
               /\ age' = 0 \/ (device' = device /\ age' = age)
               /\ "RESETN" \in lines /\ device.phase = "held" =>
                     /\ device'.mode = IF "BOOTN" \in lines THEN "bootloader" ELSE "application"
                     /\ age' = 0
    <2>1. SetLines(lines \ {"RESETN"})
      BY <1>3 DEF setResetN, Drive
    <2> QED
      BY <2>1, LinesAsked, LinesChange DEF ModeFor
  <1>4. ASSUME handle = "open", NEW state \in BOOLEAN, setBootN(state)
        PROVE  /\ "RESETN" \in lines' <=> "RESETN" \in lines
               /\ "BOOTN" \in lines' <=> ~state
               /\ device' = device /\ age' = age
    <2>1. SetLines(IF state THEN lines \ {"BOOTN"} ELSE lines \cup {"BOOTN"})
      BY <1>4 DEF setBootN, Drive
    <2> QED
      BY <2>1, LinesAsked, LinesChange
  <1> QED
    BY <1>1, <1>2, <1>3, <1>4

\* A tick: the hub's phase is as old as the delay.
LEMMA TickKeeps ==
    TypeOK /\ PortInv /\ Tick => OpenInv' /\ CloseInv'
  <1> SUFFICES ASSUME TypeOK, PortInv, Tick PROVE OpenInv' /\ CloseInv'
    OBVIOUS
  <1>1. UNCHANGED <<port, procVars, pc, halVars, lines>> /\ device'.mode = device.mode
    BY DEF Tick, TypeOK
  <1>2. UNCHANGED <<program, runs, is_open, handle>>
    BY <1>1 DEF procVars, halVars
  <1>3. Waiting => Elapsed \in Nat /\ Elapsed' = Elapsed + 1
    <2>1. Waiting => Elapsed < ClockMod - 1
      BY DEF Tick, Elapsed
    <2> QED
      BY <2>1, ElapsedCounts, ElapsedTyped, Clock DEF Tick
  <1>4. "RESETN" \in lines =>
          \/ device' = device /\ age' = age /\ device.phase = "held"
          \/ device'.phase = "held"
          \/ device' = device /\ age' = age + 1
    BY DEF Tick, TypeOK
  <1>5. "RESETN" \notin lines =>
          device' = device /\ (device.phase = "booting" => age' = age + 1)
    BY DEF Tick
  <1>6. age \in Nat
    BY DEF TypeOK
  <1>7. \A b \in BOOLEAN : Waiting /\ InReset(b) => InReset(b)'
    BY <1>1, <1>3, <1>4, <1>6 DEF InReset
  <1>8. \A m \in Modes : Waiting /\ InBoot(m) => InBoot(m)'
    BY <1>1, <1>3, <1>5, <1>6 DEF InBoot
  <1>9. OpenInv'
    BY <1>1, <1>2, <1>5, <1>7, <1>8 DEF PortInv, OpenInv, Waiting, dfu, Asked, Modes
  <1>10. CloseInv'
    <2>1. handle = "closed" => pc = "closed" /\ BackToNormal'
      BY <1>1, <1>2, <1>4, <1>5 DEF PortInv, HubInv, CloseInv, BackToNormal, IsBno
    <2> QED
      BY <1>1, <1>2, <1>7, <1>8, <2>1 DEF PortInv, CloseInv, Waiting, IsBno, Modes
  <1> QED
    BY <1>9, <1>10

\* The end of a boot: nothing that was so far is lost.
LEMMA BootedKeeps ==
    TypeOK /\ PortInv /\ Booted => OpenInv' /\ CloseInv'
  <1> SUFFICES ASSUME TypeOK, PortInv, Booted PROVE OpenInv' /\ CloseInv'
    OBVIOUS
  <1>1. /\ UNCHANGED <<port, program, pc, handle, lines, now, start>>
        /\ device.phase = "booting"
        /\ device'.mode = device.mode /\ device'.phase = "up"
        /\ "RESETN" \in lines => age' = age
    BY DEF Booted, TypeOK, procVars, halVars, clockVars
  <1>2. Elapsed' = Elapsed
    BY <1>1 DEF Elapsed
  <1>3. \A b \in BOOLEAN : InReset(b) => InReset(b)'
    BY <1>1, <1>2 DEF InReset
  <1>4. \A m \in Modes : InBoot(m) => InBoot(m)'
    BY <1>1, <1>2 DEF InBoot
  <1>5. OpenInv'
    <2>1. pc \notin {"using", "writing"}
      BY <1>1 DEF PortInv, OpenInv
    <2>2. pc = "open_held" => InReset(dfu)'
      BY <1>1, <1>3 DEF PortInv, OpenInv, dfu
    <2>3. pc = "open_up" => InBoot(Asked)'
      BY <1>1, <1>4 DEF PortInv, OpenInv, dfu, Asked, Modes
    <2> QED
      BY <1>1, <2>1, <2>2, <2>3 DEF PortInv, OpenInv
  <1>6. CloseInv'
    <2>1. handle = "closed" => pc = "closed" /\ BackToNormal'
      BY <1>1 DEF PortInv, CloseInv, BackToNormal, IsBno
    <2> QED
      BY <1>1, <1>3, <1>4, <2>1 DEF PortInv, CloseInv, IsBno, Modes
  <1> QED
    BY <1>5, <1>6

\* The steps of open.
LEMMA OpenKeeps ==
    TypeOK /\ PortInv /\ OpenStep => OpenInv' /\ CloseInv'
  <1> SUFFICES ASSUME TypeOK, PortInv, OpenStep PROVE OpenInv' /\ CloseInv'
    OBVIOUS
  <1> USE DEF procVars, halVars
  <1>0. HubInv
    BY DEF PortInv
  <1>1. CASE OpenPort
    BY <1>1 DEF OpenPort, OpenInv, CloseInv
  <1>2. CASE OpenAssertsReset
    BY <1>0, <1>2, DriveEffect DEF OpenAssertsReset, PortInv, OpenInv, CloseInv
  <1>3. CASE OpenSetsBootN
    <2>1. handle = "open" /\ "RESETN" \in lines /\ setBootN(~dfu)
      BY <1>3 DEF OpenSetsBootN, PortInv, OpenInv
    <2>2. "RESETN" \in lines' /\ ("BOOTN" \in lines' <=> dfu) /\ age' \in Nat
      <3>1. (~dfu) \in BOOLEAN
        BY DEF dfu
      <3>2. \A state \in BOOLEAN : setBootN(state) =>
               /\ "RESETN" \in lines' <=> "RESETN" \in lines
               /\ "BOOTN" \in lines' <=> ~state
               /\ age' = age
        BY <1>0, <2>1, DriveEffect
      <3>3. ("RESETN" \in lines' <=> "RESETN" \in lines) /\ ("BOOTN" \in lines' <=> dfu) /\ age' = age
        BY <2>1, <3>1, <3>2, Zenon
      <3> QED
        BY <2>1, <3>3 DEF TypeOK
    <2>3. Elapsed' = 0
      <3>1. now \in 0 .. ClockMod - 1 /\ now' = now /\ start' = now
        BY <1>3 DEF OpenSetsBootN, TypeOK
      <3>2. (now - now) % ClockMod = IF now <= now THEN now - now ELSE now - now + ClockMod
        BY <3>1, Clock, ClockArithmetic
      <3> QED
        BY <3>1, <3>2 DEF Elapsed
    <2>4. InReset(dfu)'
      BY <1>3, <2>2, <2>3 DEF InReset, OpenSetsBootN, dfu
    <2> QED
      BY <1>3, <2>1, <2>4 DEF OpenSetsBootN, OpenInv, CloseInv
  <1>4. CASE OpenReleasesReset
    <2>1. handle = "open" /\ InReset(dfu) /\ setResetN(TRUE)
      BY <1>4 DEF OpenReleasesReset, PortInv, OpenInv
    <2>2. device.phase = "held"
      <3>1. Elapsed > RESET_DELAY /\ Elapsed \in Nat /\ age \in Nat
        BY <1>4, ElapsedTyped, Clock DEF OpenReleasesReset, Delayed, TypeOK
      <3> QED
        BY <2>1, <3>1, DelayAssumption DEF InReset, PortInv, HubInv
    <2>3. "RESETN" \notin lines' /\ device'.mode = Asked /\ age' = 0
      BY <1>0, <2>1, <2>2, DriveEffect DEF InReset, Asked
    <2>4. Elapsed' = 0
      <3>1. now \in 0 .. ClockMod - 1 /\ now' = now /\ start' = now
        BY <1>4 DEF OpenReleasesReset, TypeOK
      <3>2. (now - now) % ClockMod = IF now <= now THEN now - now ELSE now - now + ClockMod
        BY <3>1, Clock, ClockArithmetic
      <3> QED
        BY <3>1, <3>2 DEF Elapsed
    <2>5. InBoot(Asked)'
      BY <1>4, <2>3, <2>4 DEF InBoot, Asked, dfu, OpenReleasesReset
    <2> QED
      BY <1>4, <2>1, <2>5 DEF OpenReleasesReset, OpenInv, CloseInv
  <1>5. CASE OpenReturns
    <2>1. handle = "open" /\ InBoot(Asked) /\ Asked \in Modes
      BY <1>5 DEF OpenReturns, PortInv, OpenInv, Asked, Modes
    <2>2. device = [mode |-> Asked, phase |-> "up"]
      <3>1. Elapsed > BootTime[Asked] /\ Elapsed \in Nat /\ age \in Nat /\ BootTime[Asked] \in Nat
        BY <1>5, ElapsedTyped, Clock, DelayAssumption
        DEF OpenReturns, Delayed, Asked, TypeOK, Modes
      <3>2. device.phase = "up" /\ device.mode = Asked
        BY <2>1, <3>1 DEF InBoot, PortInv, HubInv, TypeOK
      <3> QED
        BY <3>2 DEF TypeOK
    <2> QED
      BY <1>5, <2>1, <2>2 DEF OpenReturns, OpenInv, CloseInv, InBoot, Asked, dfu, hubVars
  <1> QED
    BY <1>1, <1>2, <1>3, <1>4, <1>5 DEF OpenStep

\* The steps of close, and what leaves a port without them.
LEMMA CloseKeeps ==
    TypeOK /\ PortInv /\ (Close \/ CloseStep) => OpenInv' /\ CloseInv'
  <1> SUFFICES ASSUME TypeOK, PortInv, Close \/ CloseStep PROVE OpenInv' /\ CloseInv'
    OBVIOUS
  <1> USE DEF procVars, halVars
  <1>0. HubInv /\ CloseInv
    BY DEF PortInv
  <1>1. CASE Close
    <2>1. handle # "closed"
      BY <1>0, <1>1 DEF Close, MayClose, CloseInv
    <2> QED
      BY <1>0, <1>1, <2>1, DriveEffect DEF Close, OpenInv, CloseInv
  <1>2. CASE CloseSetsBootN
    <2>1. handle # "closed" /\ pc' = "close_held" /\ handle' = handle
      BY <1>0, <1>2 DEF CloseSetsBootN, CloseInv
    <2>2. handle = "open" => "RESETN" \in lines' /\ "BOOTN" \notin lines' /\ age' \in Nat
      BY <1>0, <1>2, DriveEffect DEF CloseSetsBootN, CloseInv, TypeOK
    <2>3. Elapsed' = 0
      <3>1. now \in 0 .. ClockMod - 1 /\ now' = now /\ start' = now
        BY <1>2 DEF CloseSetsBootN, TypeOK
      <3>2. (now - now) % ClockMod = IF now <= now THEN now - now ELSE now - now + ClockMod
        BY <3>1, Clock, ClockArithmetic
      <3> QED
        BY <3>1, <3>2 DEF Elapsed
    <2>4. handle = "open" => InReset(FALSE)'
      BY <2>2, <2>3 DEF InReset
    <2> QED
      BY <2>1, <2>4 DEF OpenInv, CloseInv
  <1>3. CASE CloseReleasesReset
    <2>1. handle # "closed" /\ pc' = "close_up" /\ handle' = handle /\ IsBno'
      BY <1>0, <1>3 DEF CloseReleasesReset, CloseInv, IsBno
    <2>2. ASSUME handle = "open" PROVE "BOOTN" \notin lines' /\ InBoot("application")'
      <3>1. InReset(FALSE) /\ setResetN(TRUE)
        BY <1>0, <1>3, <2>2 DEF CloseReleasesReset, CloseInv
      <3>2. device.phase = "held"
        <4>1. Elapsed > RESET_DELAY /\ Elapsed \in Nat /\ age \in Nat
          BY <1>3, ElapsedTyped, Clock DEF CloseReleasesReset, Delayed, TypeOK
        <4> QED
          BY <1>0, <3>1, <4>1, DelayAssumption DEF InReset, HubInv
      <3>3. "BOOTN" \notin lines' /\ "RESETN" \notin lines' /\ device'.mode = "application" /\ age' = 0
        BY <1>0, <2>2, <3>1, <3>2, DriveEffect DEF InReset
      <3>4. Elapsed' = 0
        <4>1. now \in 0 .. ClockMod - 1 /\ now' = now /\ start' = now
          BY <1>3 DEF CloseReleasesReset, TypeOK
        <4>2. (now - now) % ClockMod = IF now <= now THEN now - now ELSE now - now + ClockMod
          BY <4>1, Clock, ClockArithmetic
        <4> QED
          BY <4>1, <4>2 DEF Elapsed
      <3> QED
        BY <3>3, <3>4 DEF InBoot
    <2> QED
      BY <2>1, <2>2 DEF OpenInv, CloseInv
  <1>4. CASE ClosePort
    <2>1. /\ pc' = "closed" /\ program' = program /\ port' = port /\ Release
          /\ handle' = IF handle = "open" THEN "closed" ELSE handle
      BY <1>4 DEF ClosePort
    <2>2. CASE handle # "open"
      BY <1>0, <1>4, <2>1, <2>2 DEF ClosePort, OpenInv, CloseInv
    <2>3. CASE handle = "open" /\ IsBno
      <3>1. "BOOTN" \notin lines /\ InBoot("application")
        BY <1>0, <1>4, <2>3 DEF ClosePort, CloseInv
      <3>2. device = [mode |-> "application", phase |-> "up"]
        <4>1. /\ Elapsed > BootTime["application"] /\ Elapsed \in Nat /\ age \in Nat
              /\ BootTime["application"] \in Nat
          BY <1>4, <2>3, ElapsedTyped, Clock, DelayAssumption DEF ClosePort, Delayed, TypeOK, Modes
        <4>2. device.phase = "up" /\ device.mode = "application"
          BY <1>0, <3>1, <4>1 DEF InBoot, HubInv, TypeOK
        <4> QED
          BY <4>2 DEF TypeOK
      <3>3. "RESETN" \notin lines' /\ "BOOTN" \notin lines' /\ device' = device
        BY <2>1, <3>1, LinesAsked, LinesChange DEF Release, InBoot, hubVars
      <3> QED
        BY <2>1, <2>3, <3>2, <3>3 DEF OpenInv, CloseInv, BackToNormal, IsBno
    <2>4. CASE handle = "open" /\ ~IsBno
      <3>1. InReset(FALSE)
        BY <1>0, <1>4, <2>4 DEF ClosePort, CloseInv
      <3>2. device.phase = "held"
        <4>1. Elapsed > RESET_DELAY /\ Elapsed \in Nat /\ age \in Nat
          BY <1>4, <2>4, ElapsedTyped, Clock DEF ClosePort, Delayed, TypeOK
        <4> QED
          BY <1>0, <3>1, <4>1, DelayAssumption DEF InReset, HubInv
      <3>3. port.hangsUp => /\ "RESETN" \notin lines' /\ "BOOTN" \notin lines'
                            /\ device'.mode = "application" /\ device'.phase = "booting"
        BY <2>1, <2>4, <3>1, <3>2, LinesAsked, LinesChange DEF Release, InReset, ModeFor
      <3>4. ~port.hangsUp => UNCHANGED hubVars
        BY <2>1 DEF Release
      <3> QED
        BY <2>1, <2>4, <3>1, <3>2, <3>3, <3>4
        DEF OpenInv, CloseInv, BackToNormal, IsBno, InReset, hubVars
    <2> QED
      BY <2>2, <2>3, <2>4
  <1> QED
    BY <1>1, <1>2, <1>3, <1>4 DEF CloseStep

LEMMA NextPort == TypeOK /\ PortInv /\ [Next]_vars => PortInv'
  <1> SUFFICES ASSUME TypeOK, PortInv, [Next]_vars PROVE OpenInv' /\ CloseInv'
    BY NextHub DEF PortInv
  <1> USE DEF procVars, halVars, clockVars, writeVars
  <1>1. CASE InitHal
    BY <1>1 DEF InitHal, OpenInv, CloseInv
  <1>2. CASE Open \/ OpenPortFails \/ SetupFails \/ GiveUp \/ Kill
    BY <1>2 DEF Open, OpenPortFails, SetupFails, GiveUp, Kill, PortInv, OpenInv, CloseInv
  <1>3. CASE Write \/ WriteStep \/ WriteBreaks
    BY <1>3 DEF Write, WriteStep, WriteSome, WriteReturns, WriteBreaks, hubVars,
                PortInv, OpenInv, CloseInv, Asked, dfu
  <1>4. CASE OpenStep
    BY <1>4, OpenKeeps
  <1>5. CASE Close \/ CloseStep
    BY <1>5, CloseKeeps
  <1>6. CASE Tick
    BY <1>6, TickKeeps
  <1>7. CASE Booted
    BY <1>7, BootedKeeps
  <1>8. CASE UNCHANGED vars
    BY <1>8 DEF vars, hubVars, PortInv, OpenInv, CloseInv, InReset, InBoot, Elapsed,
                BackToNormal, IsBno, Asked, dfu
  <1> QED
    BY <1>1, <1>2, <1>3, <1>4, <1>5, <1>6, <1>7, <1>8 DEF Next, Failure

\* RESETN, BOOTN and waiting by the clock are enough, if only the delays are
\* as long as the hub needs: whoever has opened the port talks to a hub that
\* runs what it must, and whoever has closed it leaves a hub that is out of
\* its bootloader, whatever the processes before have left behind.
THEOREM ModeIsAsAsked == Spec => []ModeAsAsked
  <1>1. PortInv => ModeAsAsked
    <2>1. PortInv => UpAsAsked
      BY DEF PortInv, OpenInv, UpAsAsked
    <2>2. PortInv => BackToNormal
      BY DEF PortInv, CloseInv, BackToNormal
    <2> QED
      BY <2>1, <2>2 DEF ModeAsAsked
  <1>2. Init => TypeOK /\ PortInv
    BY InitTyped, InitPort
  <1>3. TypeOK /\ PortInv /\ [Next]_vars => (TypeOK /\ PortInv)'
    BY NextTyped, NextPort
  <1> QED
    BY <1>1, <1>2, <1>3, PTL DEF Spec

-----------------------------------------------------------------------------
(* Writes.                                                                 *)

\* The line has the bytes that were counted; before the first write there are
\* none, and after one its answer is the count, or an error.
WriteInv ==
    /\ Len(wire) = wrote
    /\ \A i \in 1 .. wrote : wire[i] = i
    /\ pc \in {"idle", "open_port", "setup", "open_boot", "open_held", "open_up"} =>
          wrote = 0 /\ answer = 0
    /\ pc = "using" => answer \in {wrote, SH2_ERR_IO}

LEMMA InitWrite == Init => WriteInv
  BY DEF Init, WriteInv

LEMMA NextWrite == TypeOK /\ WriteInv /\ [Next]_vars => WriteInv'
  <1> SUFFICES ASSUME TypeOK, WriteInv, [Next]_vars PROVE WriteInv'
    OBVIOUS
  <1> USE DEF WriteInv, writeVars
  <1>1. CASE InitHal
    BY <1>1 DEF InitHal
  <1>2. CASE Write
    BY <1>2 DEF Write
  <1>3. CASE WriteSome
    <2>1. PICK n \in Portions : wrote' = wrote + n /\ wire' = wire \o [i \in 1 .. n |-> wrote + i]
      BY <1>3 DEF WriteSome
    <2>2. n \in Nat /\ wrote \in Nat
      BY <1>3, <2>1, BoundAssumption DEF TypeOK, WriteSome, Portions
    <2> DEFINE more == [i \in 1 .. n |-> wrote + i]
    <2>3. more \in Seq(Int) /\ Len(more) = n /\ \A i \in 1 .. n : more[i] = wrote + i
      BY <2>2
    <2>4. wire \in Seq(Int)
      BY SeqMonotonic DEF TypeOK
    <2> HIDE DEF more
    <2>5. Len(wire') = wrote' /\ \A i \in 1 .. wrote' : wire'[i] = i
      <3>1. wire' = wire \o more
        BY <2>1 DEF more
      <3>2. /\ Len(wire \o more) = wrote + n
            /\ \A i \in 1 .. wrote + n :
                  (wire \o more)[i] = IF i <= wrote THEN wire[i] ELSE more[i - wrote]
        BY <2>2, <2>3, <2>4, ConcatProperties
      <3>3. \A i \in 1 .. wrote + n : (wire \o more)[i] = i
        <4> SUFFICES ASSUME NEW i \in 1 .. wrote + n PROVE (wire \o more)[i] = i
          OBVIOUS
        <4>1. CASE i <= wrote
          BY <2>2, <3>2, <4>1
        <4>2. CASE ~(i <= wrote)
          <5>1. i - wrote \in 1 .. n
            BY <2>2, <4>2
          <5>2. more[i - wrote] = wrote + (i - wrote)
            BY <2>3, <5>1
          <5> QED
            BY <2>2, <3>2, <4>2, <5>2
        <4> QED
          BY <4>1, <4>2
      <3> QED
        BY <2>1, <3>1, <3>2, <3>3
    <2> QED
      BY <1>3, <2>5 DEF WriteSome
  <1>4. CASE WriteReturns \/ WriteBreaks
    BY <1>4 DEF WriteReturns, WriteBreaks
  <1>5. CASE \/ Open \/ OpenStep \/ OpenPortFails \/ SetupFails \/ GiveUp \/ Kill
             \/ Close \/ CloseStep \/ Booted \/ Tick \/ UNCHANGED vars
    BY <1>5 DEF Open, OpenStep, OpenPort, OpenAssertsReset, OpenSetsBootN, OpenReleasesReset,
                OpenReturns, OpenPortFails, SetupFails, GiveUp, Kill, Close, CloseStep,
                CloseSetsBootN, CloseReleasesReset, ClosePort, Booted, Tick, vars
  <1> QED
    BY <1>1, <1>2, <1>3, <1>4, <1>5 DEF Next, WriteStep, Failure

\* However the system cuts a write into pieces, and wherever it fails, the
\* bytes reach the line in order and without a gap, as many as write reports.
THEOREM WritesKeepOrder == Spec => []WrittenInOrder
  <1>1. TypeOK /\ WriteInv => WrittenInOrder
    <2> SUFFICES ASSUME TypeOK, WriteInv, pc = "using"
                 PROVE  /\ wire = [i \in 1 .. Len(wire) |-> i]
                        /\ answer # SH2_ERR_IO => answer = Len(wire)
      BY DEF WrittenInOrder
    <2>1. wire \in Seq(1 .. MaxLen) /\ DOMAIN wire = 1 .. Len(wire)
      BY DEF TypeOK
    <2>2. wire = [i \in 1 .. Len(wire) |-> wire[i]]
      BY <2>1
    <2> QED
      BY <2>1, <2>2 DEF WriteInv
  <1>2. Init => TypeOK /\ WriteInv
    BY InitTyped, InitWrite
  <1>3. TypeOK /\ WriteInv /\ [Next]_vars => (TypeOK /\ WriteInv)'
    BY NextTyped, NextWrite
  <1> QED
    BY <1>1, <1>2, <1>3, PTL DEF Spec

-----------------------------------------------------------------------------
(* The framing: the invariant.                                             *)


ProtocolOf(kind) == IF kind = "shtp" THEN PROTOCOL_SHTP ELSE PROTOCOL_CONTROL

\* Receiver r waits for the start of a frame, or takes a flag for one.
AwaitsStart(r) == r.state = "OUTSIDE_FRAME" \/ (r.state = "INSIDE_FRAME" /\ r.len = 0)

\* Receiver r has the protocol id of frame f and its data before the k-th byte, as
\* far as there is room.
HasUpTo(r, f, k) ==
    /\ r.len = k
    /\ r.frame[0] = ProtocolOf(f.kind)
    /\ \A i \in 1 .. k - 1 : i < RxMax => r.frame[i] = f.data[i]

\* Bytes b are what is left on the line of frame f, from its protocol id on, from
\* the k-th byte of its data on, or from behind the escape of that byte.
FromProtocol(b, f) == b = <<ProtocolOf(f.kind)>> \o Rest(f.data)[1]
FromByte(b, f, k)  == b = Rest(f.data)[k]
FromEscaped(b, f, k) ==
    /\ f.data[k] \in {RFC1662_FLAG, RFC1662_ESCAPE}
    /\ b = <<Flip(f.data[k])>> \o Rest(f.data)[k + 1]

InFrame(b, r, f) ==
    \/ b = <<>> /\ r.state = "OUTSIDE_FRAME"
    \/ b = Encoded(ProtocolOf(f.kind), f.data) /\ AwaitsStart(r)
    \/ FromProtocol(b, f) /\ r.state = "INSIDE_FRAME" /\ r.len = 0
    \/ \E k \in 1 .. Len(f.data) + 1 :
          FromByte(b, f, k) /\ r.state = "INSIDE_FRAME" /\ HasUpTo(r, f, k)
    \/ \E k \in 1 .. Len(f.data) :
          FromEscaped(b, f, k) /\ r.state = "ESCAPED" /\ HasUpTo(r, f, k)

AfterDamage(b, r, f) ==
    \/ b = <<>> /\ AwaitsStart(r)
    \/ b = Encoded(ProtocolOf(f.kind), f.data)
    \/ FromProtocol(b, f) /\ r.state # "ESCAPED"
    \/ \E k \in 1 .. Len(f.data) + 1 : FromByte(b, f, k) /\ r.state # "ESCAPED"
    \/ \E k \in 1 .. Len(f.data) : FromEscaped(b, f, k) /\ r.state # "INSIDE_FRAME"

Phase ==
    /\ sent = <<>> => line = <<>> /\ rx.state = "OUTSIDE_FRAME"
    /\ Len(sent) > 0 /\ Len(sent) \notin Disturbed => InFrame(line, rx, sent[Len(sent)])
    /\ damaged > 0 /\ Len(sent) = damaged + 1 => AfterDamage(line, rx, sent[Len(sent)])

\* A control frame holds two bytes.
Sized == \A j \in DOMAIN sent : sent[j].kind = "bsn" => Len(sent[j].data) = 2

Given(j) == [frame |-> j, len |-> Len(sent[j].data) + 1, data |-> sent[j].data]

\* What was delivered, with what disturbed frames brought.
Delivery ==
    /\ \A i \in DOMAIN delivered :
          /\ delivered[i].frame \in 1 .. Len(sent)
          /\ delivered[i].frame \notin Disturbed =>
                delivered[i].frame \in Due /\ delivered[i] = Given(delivered[i].frame)
    /\ \A i, j \in DOMAIN delivered : i < j =>
          /\ delivered[i].frame <= delivered[j].frame
          /\ delivered[i].frame \notin Disturbed => delivered[i].frame < delivered[j].frame
    /\ \A j \in Due : \E i \in DOMAIN delivered : delivered[i].frame = j

FrameInv == FrameTypeOK /\ Sized /\ Phase /\ Delivery /\ BsnExact

-----------------------------------------------------------------------------
(* Induction, over sets of numbers.                                        *)

LEMMA LeastNumber ==
    ASSUME NEW T \in SUBSET Nat, T # {}
    PROVE  \E n \in T : \A m \in T : n <= m
  <1>1. PICK n \in T : \A m \in T : ~(<<m, n>> \in OpToRel(<, Nat))
    BY NatLessThanWellFounded, WFMin, Zenon
  <1>2. ASSUME NEW m \in T
        PROVE  n <= m
    <2>1. m \in Nat /\ n \in Nat
      OBVIOUS
    <2>2. m < n => <<m, n>> \in OpToRel(<, Nat)
      BY <2>1 DEF OpToRel
    <2>3. ~(m < n)
      BY <1>1, <2>2, Zenon
    <2> QED
      BY <2>1, <2>3
  <1> QED
    BY <1>2

LEMMA Induction ==
    ASSUME NEW S, 0 \in S, \A n \in Nat : n \in S => n + 1 \in S
    PROVE  \A n \in Nat : n \in S
  <1> SUFFICES ASSUME Nat \ S # {} PROVE FALSE
    OBVIOUS
  <1>1. PICK n \in Nat \ S : \A m \in Nat \ S : n <= m
    BY LeastNumber
  <1>2. n # 0 /\ n - 1 \in Nat
    OBVIOUS
  <1>3. n - 1 \in S
    BY <1>1, <1>2
  <1>4. (n - 1) + 1 = n
    OBVIOUS
  <1> QED
    BY <1>2, <1>3, <1>4

-----------------------------------------------------------------------------
(* What is on the line of a frame.                                         *)

Special == {RFC1662_FLAG, RFC1662_ESCAPE}

LEMMA Flips ==
    /\ \A c \in Byte : Flip(c) \in Byte
    /\ \A c \in Special : Flip(c) \in Byte \ Special /\ Flip(Flip(c)) = c
  BY DEF Flip, Byte, Special, RFC1662_FLAG, RFC1662_ESCAPE

\* The recursion of Rest, from the m-th byte on.
IsRest(g, data, m) ==
    g = [i \in m .. Len(data) + 1 |->
            IF i > Len(data) THEN <<RFC1662_FLAG>> ELSE Escaped(data[i]) \o g[i + 1]]

LEMMA OneByteMore ==
    ASSUME NEW data \in Seq(Byte), NEW m \in 2 .. Len(data) + 1, NEW g, IsRest(g, data, m)
    PROVE  \E h : IsRest(h, data, m - 1)
  <1> DEFINE L == Len(data)
             h == [i \in m - 1 .. L + 1 |->
                      IF i = m - 1 THEN Escaped(data[i]) \o g[m] ELSE g[i]]
  <1>1. L \in Nat /\ m - 1 \in 1 .. L /\ m # m - 1 /\ m \in m - 1 .. L + 1
    OBVIOUS
  <1>2. h[m] = g[m]
    BY <1>1
  <1>3. ASSUME NEW i \in m - 1 .. L + 1
        PROVE  h[i] = IF i > L THEN <<RFC1662_FLAG>> ELSE Escaped(data[i]) \o h[i + 1]
    <2>1. CASE i = m - 1
      <3>1. ~(i > L) /\ i + 1 = m
        BY <1>1, <2>1
      <3>2. h[i] = Escaped(data[i]) \o g[m]
        BY <2>1
      <3> HIDE DEF h
      <3> QED
        BY <1>2, <3>1, <3>2
    <2>2. CASE i # m - 1
      <3>1. i \in m .. L + 1 /\ h[i] = g[i]
        BY <1>1, <2>2
      <3>2. ~(i > L) => i + 1 \in m - 1 .. L + 1 /\ i + 1 # m - 1
        BY <1>1, <3>1
      <3>3. ~(i > L) => h[i + 1] = g[i + 1]
        BY <3>2
      <3>4. g[i] = IF i > L THEN <<RFC1662_FLAG>> ELSE Escaped(data[i]) \o g[i + 1]
        BY <3>1 DEF IsRest
      <3> HIDE DEF h
      <3> QED
        BY <3>1, <3>3, <3>4
    <2> QED
      BY <2>1, <2>2
  <1>4. h = [i \in m - 1 .. L + 1 |->
                IF i > L THEN <<RFC1662_FLAG>> ELSE Escaped(data[i]) \o h[i + 1]]
    BY <1>3
  <1>5. IsRest(h, data, m - 1)
    BY <1>4 DEF IsRest
  <1> QED
    BY <1>5

\* The recursive function Rest exists: it is built from its end.
LEMMA RestIs ==
    ASSUME NEW data \in Seq(Byte)
    PROVE  Rest(data) = [i \in 1 .. Len(data) + 1 |->
               IF i > Len(data) THEN <<RFC1662_FLAG>> ELSE Escaped(data[i]) \o Rest(data)[i + 1]]
  <1> DEFINE L == Len(data)
             S == {n \in Nat : n <= L => \E g : IsRest(g, data, (L + 1) - n)}
  <1>1. L \in Nat
    OBVIOUS
  <1>2. 0 \in S
    <2> DEFINE g == [i \in L + 1 .. L + 1 |-> <<RFC1662_FLAG>>]
    <2>2. (L + 1) - 0 = L + 1 /\ \A i \in L + 1 .. L + 1 : i > L
      BY <1>1
    <2>1. g = [i \in L + 1 .. L + 1 |->
                  IF i > L THEN <<RFC1662_FLAG>> ELSE Escaped(data[i]) \o g[i + 1]]
      BY <2>2, Zenon
    <2>3. IsRest(g, data, (L + 1) - 0)
      BY <2>1, <2>2 DEF IsRest
    <2> QED
      BY <2>3
  <1>3. ASSUME NEW n \in Nat, n \in S
        PROVE  n + 1 \in S
    <2>1. ASSUME n + 1 <= L
          PROVE  \E g : IsRest(g, data, (L + 1) - (n + 1))
      <3>1. (L + 1) - n \in 2 .. L + 1 /\ (L + 1) - (n + 1) = ((L + 1) - n) - 1 /\ n <= L
        BY <1>1, <2>1
      <3>2. PICK g : IsRest(g, data, (L + 1) - n)
        BY <1>3, <3>1
      <3> QED
        BY <3>1, <3>2, OneByteMore
    <2> QED
      BY <2>1
  <1>4. \A n \in Nat : n \in S
    <2> HIDE DEF S
    <2> QED
      BY <1>2, <1>3, Induction
  <1>5. \E g : IsRest(g, data, 1)
    <2>1. L \in S /\ (L + 1) - L = 1 /\ L <= L
      BY <1>1, <1>4
    <2> QED
      BY <2>1
  <1>6. Rest(data) = CHOOSE g : IsRest(g, data, 1)
    BY DEF Rest, IsRest
  <1>7. IsRest(Rest(data), data, 1)
    BY <1>5, <1>6
  <1> QED
    BY <1>7 DEF IsRest

\* What is left of a frame begins with the next byte, escaped, or with the last flag.
LEMMA RestBytes ==
    ASSUME NEW data \in Seq(Byte)
    PROVE  /\ \A i \in 1 .. Len(data) + 1 : Rest(data)[i] \in Seq(Byte) \ {<<>>}
           /\ Rest(data)[Len(data) + 1] = <<RFC1662_FLAG>>
           /\ \A i \in 1 .. Len(data) :
                 Rest(data)[i] = IF data[i] \in Special
                                 THEN <<RFC1662_ESCAPE, Flip(data[i])>> \o Rest(data)[i + 1]
                                 ELSE <<data[i]>> \o Rest(data)[i + 1]
  <1> DEFINE L == Len(data)
             R == Rest(data)
             S == {n \in Nat : n <= L => R[(L + 1) - n] \in Seq(Byte) \ {<<>>}}
  <1>1. L \in Nat
    OBVIOUS
  <1>0. \A i \in 1 .. L + 1 :
           R[i] = IF i > L THEN <<RFC1662_FLAG>> ELSE Escaped(data[i]) \o R[i + 1]
    <2>1. R = [i \in 1 .. L + 1 |->
                  IF i > L THEN <<RFC1662_FLAG>> ELSE Escaped(data[i]) \o R[i + 1]]
      BY RestIs, Zenon
    <2> HIDE DEF R, L
    <2> QED
      BY <2>1, Zenon
  <1>2. R[L + 1] = <<RFC1662_FLAG>>
    <2> HIDE DEF R
    <2> QED
      BY <1>0, <1>1
  <1>3. ASSUME NEW i \in 1 .. L
        PROVE  R[i] = IF data[i] \in Special
                      THEN <<RFC1662_ESCAPE, Flip(data[i])>> \o R[i + 1]
                      ELSE <<data[i]>> \o R[i + 1]
    <2>1. R[i] = Escaped(data[i]) \o R[i + 1]
      <3>1. i \in 1 .. L + 1 /\ ~(i > L)
        BY <1>1
      <3> HIDE DEF R, L
      <3> QED
        BY <1>0, <3>1, Zenon
    <2> QED
      BY <2>1 DEF Escaped, Special
  <1>4. RFC1662_FLAG \in Byte /\ RFC1662_ESCAPE \in Byte
    BY DEF RFC1662_FLAG, RFC1662_ESCAPE, Byte
  <1>5. 0 \in S
    <2>1. (L + 1) - 0 = L + 1 /\ <<RFC1662_FLAG>> \in Seq(Byte) \ {<<>>}
      BY <1>1, <1>4
    <2> QED
      BY <1>2, <2>1
  <1>6. ASSUME NEW n \in Nat, n \in S
        PROVE  n + 1 \in S
    <2>0. SUFFICES ASSUME n + 1 <= L
                   PROVE  R[(L + 1) - (n + 1)] \in Seq(Byte) \ {<<>>}
      <3> HIDE DEF R
      <3> QED
        OBVIOUS
    <2> DEFINE i == (L + 1) - (n + 1)
    <2>2. i \in 1 .. L /\ i + 1 = (L + 1) - n /\ n <= L
      BY <1>1, <2>0
    <2>3. R[i + 1] \in Seq(Byte)
      <3> HIDE DEF R
      <3> QED
        BY <1>6, <2>2
    <2> HIDE DEF R, S, i
    <2>4. data[i] \in Byte /\ Flip(data[i]) \in Byte
      BY <2>2, Flips
    <2>5. <<RFC1662_ESCAPE, Flip(data[i])>> \o R[i + 1] \in Seq(Byte) \ {<<>>}
      <3>1. <<RFC1662_ESCAPE, Flip(data[i])>> \in Seq(Byte)
        BY <1>4, <2>4
      <3> QED
        BY <2>3, <3>1, ConcatProperties, EmptySeq
    <2>6. <<data[i]>> \o R[i + 1] \in Seq(Byte) \ {<<>>}
      <3>1. <<data[i]>> \in Seq(Byte)
        BY <2>4
      <3> QED
        BY <2>3, <3>1, ConcatProperties, EmptySeq
    <2>7. R[i] \in Seq(Byte) \ {<<>>}
      BY <1>3, <2>2, <2>5, <2>6
    <2> QED
      BY <2>7 DEF i
  <1>7. \A n \in Nat : n \in S
    <2> HIDE DEF S
    <2> QED
      BY <1>5, <1>6, Induction
  <1>8. ASSUME NEW i \in 1 .. L + 1
        PROVE  R[i] \in Seq(Byte) \ {<<>>}
    <2>1. (L + 1) - i \in Nat /\ (L + 1) - i <= L /\ (L + 1) - ((L + 1) - i) = i
      BY <1>1
    <2>2. (L + 1) - i \in S
      BY <1>7, <2>1
    <2> QED
      BY <2>1, <2>2
  <1> QED
    BY <1>2, <1>3, <1>8


-----------------------------------------------------------------------------
(* Types.                                                                  *)

LEMMA Stored ==
    ASSUME NEW r \in Receiver, NEW b \in Byte
    PROVE  /\ Store(r, b) \in Receiver
           /\ Store(r, b).state = "INSIDE_FRAME"
           /\ Store(r, b).len = r.len + 1
           /\ Store(r, b).ready = r.ready
           /\ \A i \in 0 .. RxMax - 1 :
                 Store(r, b).frame[i] = IF i = r.len THEN b ELSE r.frame[i]
  <1> DEFINE f == IF r.len < RxMax THEN [r.frame EXCEPT ![r.len] = b] ELSE r.frame
  <1>1. RxMax \in Nat
    BY BufferAssumption
  <1>2. f \in [0 .. RxMax - 1 -> Byte]
    <2>1. r.len \in Nat /\ r.frame \in [0 .. RxMax - 1 -> Byte]
      BY DEF Receiver
    <2>2. r.len < RxMax => r.len \in 0 .. RxMax - 1
      BY <1>1, <2>1
    <2> QED
      BY <2>1, <2>2
  <1>3. \A i \in 0 .. RxMax - 1 : f[i] = IF i = r.len THEN b ELSE r.frame[i]
    <2>1. r.len \in Nat /\ r.frame \in [0 .. RxMax - 1 -> Byte]
      BY DEF Receiver
    <2> QED
      BY <1>1, <2>1
  <1>4. Store(r, b) = [state |-> "INSIDE_FRAME", len |-> r.len + 1, ready |-> r.ready,
                       frame |-> f]
    <2>1. Store(r, b) = [r EXCEPT !.frame = f, !.len = r.len + 1, !.state = "INSIDE_FRAME"]
      BY DEF Store, Receiver
    <2> HIDE DEF f
    <2> QED
      BY <2>1 DEF Receiver
  <1>5. r.len + 1 \in Nat /\ r.ready \in BOOLEAN
    BY DEF Receiver
  <1> HIDE DEF f
  <1> QED
    BY <1>2, <1>3, <1>4, <1>5 DEF Receiver

\* What a byte does to the receiver; a frame is only ready at a flag.
LEMMA Decodes ==
    ASSUME NEW r \in Receiver, ~r.ready, NEW c \in Byte
    PROVE  /\ Decode(r, c) \in Receiver
           /\ Decode(r, c).ready =>
                 /\ Decode(r, c) = [r EXCEPT !.ready = TRUE, !.state = "OUTSIDE_FRAME"]
                 /\ r.state = "INSIDE_FRAME" /\ c = RFC1662_FLAG /\ r.len > 0
  <1>1. CASE r.state = "OUTSIDE_FRAME"
    BY <1>1 DEF Decode, Receiver
  <1>2. CASE r.state = "INSIDE_FRAME"
    BY <1>2, Stored DEF Decode, Receiver
  <1>3. CASE r.state = "ESCAPED"
    <2>1. Decode(r, c) = Store(r, Flip(c))
      BY <1>3 DEF Decode
    <2>2. Flip(c) \in Byte
      BY Flips
    <2> QED
      BY <2>1, <2>2, Stored
  <1> QED
    BY <1>1, <1>2, <1>3 DEF Receiver

Frames     == [kind: {"shtp", "bsn"}, data: Seq(Byte)]
Deliveries == [frame: Nat \ {0}, len: Nat \ {0}, data: Seq(Byte)]

LEMMA Types ==
    FrameTypeOK <=> /\ sent \in Seq(Frames)
                    /\ rejected \in BOOLEAN
                    /\ line \in Seq(Byte)
                    /\ damaged \in Nat /\ damaged <= Len(sent)
                    /\ rx \in Receiver /\ ~rx.ready
                    /\ lastBsn \in Word
                    /\ delivered \in Seq(Deliveries)
  <1>1. sent \in Seq(Frames) =>
           (damaged \in 0 .. Len(sent) <=> damaged \in Nat /\ damaged <= Len(sent))
    BY LenProperties
  <1> QED
    BY <1>1, Zenon DEF FrameTypeOK, Frames, Deliveries

LEMMA TypesNext ==
    /\ sent' \in Seq(Frames)
    /\ rejected' \in BOOLEAN
    /\ line' \in Seq(Byte)
    /\ damaged' \in Nat /\ damaged' <= Len(sent')
    /\ rx' \in Receiver /\ ~rx'.ready
    /\ lastBsn' \in Word
    /\ delivered' \in Seq(Deliveries)
    => FrameTypeOK'
  <1>1. sent' \in Seq(Frames) /\ damaged' \in Nat /\ damaged' <= Len(sent')
        => damaged' \in 0 .. Len(sent')
    BY LenProperties
  <1> QED
    BY <1>1, Zenon DEF FrameTypeOK, Frames, Deliveries

LEMMA EncodedBytes ==
    ASSUME NEW data \in Seq(Byte), NEW protocol \in {PROTOCOL_CONTROL, PROTOCOL_SHTP}
    PROVE  Encoded(protocol, data) \in Seq(Byte) \ {<<>>}
  <1>1. <<RFC1662_FLAG, protocol>> \in Seq(Byte)
    BY DEF RFC1662_FLAG, PROTOCOL_CONTROL, PROTOCOL_SHTP, Byte
  <1>2. Rest(data)[1] \in Seq(Byte)
    BY RestBytes
  <1> QED
    BY <1>1, <1>2, ConcatProperties, EmptySeq DEF Encoded

\* Either sender, seen as what it sends.
SendsFrame ==
    \E f \in Frames :
        /\ line = <<>> /\ line' = Encoded(ProtocolOf(f.kind), f.data)
        /\ sent' = Append(sent, f)
        /\ f.kind = "bsn" => Len(f.data) = 2
        /\ UNCHANGED <<damaged, rx, lastBsn, delivered>>

LEMMA TwoBytes ==
    ASSUME NEW n \in Word
    PROVE  n % 256 \in Byte /\ n \div 256 \in Byte /\ n = (n % 256) + (256 * (n \div 256))
  BY SMT DEF Byte, Word

LEMMA SendersSend ==
    ASSUME WriteTransfer \/ SendBsn
    PROVE  /\ SendsFrame \/ UNCHANGED <<sent, line, damaged, rx, lastBsn, delivered>>
           /\ rejected \in BOOLEAN => rejected' \in BOOLEAN
  <1>1. CASE WriteTransfer
    <2>1. PICK data \in Payloads :
              IF Len(Encoded(PROTOCOL_SHTP, data)) > TxMax
              THEN ~rejected /\ rejected' = TRUE
                   /\ UNCHANGED <<sent, line, damaged, rx, lastBsn, delivered>>
              ELSE Sends("shtp", PROTOCOL_SHTP, data) /\ UNCHANGED rejected
      BY <1>1 DEF WriteTransfer
    <2>2. data \in Seq(Byte)
      BY DataAssumption
    <2>4. \/ rejected' = TRUE /\ UNCHANGED <<sent, line, damaged, rx, lastBsn, delivered>>
          \/ Sends("shtp", PROTOCOL_SHTP, data) /\ UNCHANGED rejected
      BY <2>1
    <2>3. CASE Sends("shtp", PROTOCOL_SHTP, data) /\ UNCHANGED rejected
      <3> DEFINE f == [kind |-> "shtp", data |-> data]
      <3>1. f \in Frames /\ f.kind = "shtp" /\ f.data = data
        BY <2>2 DEF Frames
      <3>2. ProtocolOf("shtp") = PROTOCOL_SHTP
        BY DEF ProtocolOf
      <3>3. line = <<>>
        BY <1>1 DEF WriteTransfer, CanSend
      <3> QED
        BY <2>3, <3>1, <3>2, <3>3 DEF SendsFrame, Sends
    <2> QED
      BY <2>3, <2>4, Zenon
  <1>2. CASE SendBsn
    <2>1. PICK bsn \in Bsns : Sends("bsn", PROTOCOL_CONTROL, <<bsn % 256, bsn \div 256>>)
      BY <1>2 DEF SendBsn
    <2>2. bsn \in Word
      BY DataAssumption, Zenon
    <2>3. bsn % 256 \in Byte /\ bsn \div 256 \in Byte
      BY <2>2, TwoBytes
    <2> DEFINE data == <<bsn % 256, bsn \div 256>>
               f    == [kind |-> "bsn", data |-> data]
    <2>4. data \in Seq(Byte) /\ Len(data) = 2
      BY <2>3
    <2> HIDE DEF data
    <2>5. f \in Frames /\ f.kind = "bsn" /\ f.data = data
      BY <2>4 DEF Frames
    <2>6. ProtocolOf("bsn") = PROTOCOL_CONTROL
      BY DEF ProtocolOf
    <2>7. line = <<>> /\ UNCHANGED rejected
      BY <1>2 DEF SendBsn, CanSend
    <2> QED
      BY <2>1, <2>4, <2>5, <2>6, <2>7 DEF SendsFrame, Sends, data
  <1> QED
    BY <1>1, <1>2

LEMMA SendTyped ==
    ASSUME FrameTypeOK, SendsFrame, rejected' \in BOOLEAN
    PROVE  FrameTypeOK'
  <1>1. PICK f \in Frames :
            /\ line' = Encoded(ProtocolOf(f.kind), f.data)
            /\ sent' = Append(sent, f)
            /\ UNCHANGED <<damaged, rx, lastBsn, delivered>>
    BY DEF SendsFrame
  <1>2. line' \in Seq(Byte)
    <2>1. f.data \in Seq(Byte) /\ ProtocolOf(f.kind) \in {PROTOCOL_CONTROL, PROTOCOL_SHTP}
      BY DEF Frames, ProtocolOf
    <2> QED
      BY <1>1, <2>1, EncodedBytes, Zenon
  <1>3. sent \in Seq(Frames) /\ damaged \in Nat /\ damaged <= Len(sent)
    BY Types, Zenon
  <1>4. sent' \in Seq(Frames) /\ Len(sent') = Len(sent) + 1 /\ Len(sent) \in Nat
    BY <1>1, <1>3, AppendProperties, LenProperties
  <1>5. damaged' \in Nat /\ damaged' <= Len(sent')
    BY <1>1, <1>3, <1>4
  <1>6. rx' \in Receiver /\ ~rx'.ready /\ lastBsn' \in Word
        /\ delivered' \in Seq(Deliveries)
    BY <1>1, Types, Zenon
  <1> QED
    BY <1>2, <1>4, <1>5, <1>6, TypesNext, Zenon

LEMMA DisturbTyped ==
    ASSUME FrameTypeOK, Disturb
    PROVE  FrameTypeOK'
  <1>1. line \in Seq(Byte) /\ line # <<>> /\ Noise \subseteq Byte
    BY DataAssumption, Types DEF Disturb
  <1>2. Tail(line) \in Seq(Byte)
    BY <1>1, HeadTailProperties
  <1>3. ASSUME NEW c \in Noise PROVE <<c>> \o Tail(line) \in Seq(Byte)
    <2>1. <<c>> \in Seq(Byte)
      BY <1>1
    <2> QED
      BY <1>2, <2>1, ConcatProperties
  <1>4. line' \in Seq(Byte)
    BY <1>2, <1>3, Zenon DEF Disturb
  <1>5. damaged' = Len(sent) /\ UNCHANGED <<sent, rejected, rx, lastBsn, delivered>>
    BY DEF Disturb
  <1>6. sent' \in Seq(Frames) /\ damaged' \in Nat /\ damaged' <= Len(sent')
    BY <1>5, Types, LenProperties
  <1> QED
    BY <1>4, <1>5, <1>6, Types, TypesNext, Zenon

LEMMA SetReadyState ==
    ASSUME NEW r \in Receiver, NEW b, NEW s
    PROVE  [r EXCEPT !.ready = b, !.state = s]
           = [state |-> s, len |-> r.len, ready |-> b, frame |-> r.frame]
  <1> DEFINE q == [r EXCEPT !.ready = b]
  <1>1. q = [state |-> r.state, len |-> r.len, ready |-> b, frame |-> r.frame]
    BY DEF Receiver
  <1> HIDE DEF q
  <1>2. [q EXCEPT !.state = s] = [state |-> s, len |-> r.len, ready |-> b, frame |-> r.frame]
    BY <1>1
  <1> QED
    BY <1>2 DEF q

LEMMA SetLenReadyState ==
    ASSUME NEW r \in Receiver, NEW n, NEW b, NEW s
    PROVE  [r EXCEPT !.len = n, !.ready = b, !.state = s]
           = [state |-> s, len |-> n, ready |-> b, frame |-> r.frame]
  <1> DEFINE p == [r EXCEPT !.len = n]
             q == [p EXCEPT !.ready = b]
  <1>1. p = [state |-> r.state, len |-> n, ready |-> r.ready, frame |-> r.frame]
    BY DEF Receiver
  <1> HIDE DEF p
  <1>2. q = [state |-> r.state, len |-> n, ready |-> b, frame |-> r.frame]
    BY <1>1
  <1> HIDE DEF q
  <1>3. [q EXCEPT !.state = s] = [state |-> s, len |-> n, ready |-> b, frame |-> r.frame]
    BY <1>2
  <1> QED
    BY <1>3 DEF p, q

\* A frame that has ended, and the receiver after it.
LEMMA Ended ==
    ASSUME NEW r \in Receiver
    PROVE  LET e == [r EXCEPT !.ready = TRUE, !.state = "OUTSIDE_FRAME"]
           IN  /\ e.len = r.len /\ e.frame = r.frame
               /\ Reset(e) \in Receiver /\ ~Reset(e).ready
               /\ Reset(e).state = "OUTSIDE_FRAME"
  <1> DEFINE e == [r EXCEPT !.ready = TRUE, !.state = "OUTSIDE_FRAME"]
  <1>1. e = [state |-> "OUTSIDE_FRAME", len |-> r.len, ready |-> TRUE, frame |-> r.frame]
    BY SetReadyState, Zenon
  <1>2. r.len \in Nat /\ r.frame \in [0 .. RxMax - 1 -> Byte]
    BY DEF Receiver
  <1> HIDE DEF e
  <1>3. e \in Receiver /\ e.len = r.len /\ e.frame = r.frame
    BY <1>1, <1>2 DEF Receiver
  <1>4. Reset(e)
        = [state |-> "OUTSIDE_FRAME", len |-> 0, ready |-> FALSE, frame |-> e.frame]
    <2>1. e \in Receiver
      BY <1>3
    <2>2. \A n, b, s : [e EXCEPT !.len = n, !.ready = b, !.state = s]
                       = [state |-> s, len |-> n, ready |-> b, frame |-> e.frame]
      BY <2>1, SetLenReadyState, Zenon
    <2> QED
      BY <2>2, Zenon DEF Reset
  <1>5. Reset(e) \in Receiver /\ ~Reset(e).ready /\ Reset(e).state = "OUTSIDE_FRAME"
    BY <1>2, <1>3, <1>4 DEF Receiver
  <1> QED
    BY <1>3, <1>5 DEF e

\* The end of a frame, by what becomes of it: a notification, a frame that is too
\* long for the receiver or the caller, and one that is handed over.
EndsFrame ==
    /\ Head(line) = RFC1662_FLAG
    /\ rx.state = "INSIDE_FRAME" /\ rx.len > 0
    /\ rx' \in Receiver /\ ~rx'.ready /\ rx'.state = "OUTSIDE_FRAME"
    /\ \/ /\ rx.frame[0] = PROTOCOL_CONTROL
          /\ lastBsn' = rx.frame[2] * 256 + rx.frame[1]
          /\ UNCHANGED delivered
       \/ /\ rx.frame[0] # PROTOCOL_CONTROL
          /\ rx.len > RxMax \/ rx.len > ClientLen
          /\ UNCHANGED <<lastBsn, delivered>>
       \/ /\ rx.frame[0] # PROTOCOL_CONTROL
          /\ rx.len <= RxMax /\ rx.len <= ClientLen
          /\ delivered' = Append(delivered,
                [frame |-> Len(sent), len |-> rx.len,
                 data |-> [i \in 1 .. rx.len - 1 |-> rx.frame[i]]])
          /\ UNCHANGED lastBsn

LEMMA ReadCases ==
    ASSUME FrameTypeOK, ReadByte
    PROVE  /\ Head(line) \in Byte /\ line' = Tail(line) /\ line' \in Seq(Byte)
           /\ UNCHANGED <<sent, rejected, damaged>>
           /\ rx' \in Receiver /\ ~rx'.ready
           /\ \/ rx' = Decode(rx, Head(line)) /\ UNCHANGED <<lastBsn, delivered>>
              \/ EndsFrame
  <1> DEFINE c == Head(line)
             r == Decode(rx, c)
             e == [rx EXCEPT !.ready = TRUE, !.state = "OUTSIDE_FRAME"]
  <1>1. c \in Byte /\ line' = Tail(line) /\ line' \in Seq(Byte)
    BY DEF FrameTypeOK, ReadByte
  <1>2. rx \in Receiver /\ ~rx.ready
    BY DEF FrameTypeOK
  <1>3. r \in Receiver /\ (r.ready => /\ r = e /\ rx.state = "INSIDE_FRAME"
                                       /\ c = RFC1662_FLAG /\ rx.len > 0)
    BY <1>1, <1>2, Decodes, Zenon
  <1>6. UNCHANGED <<sent, rejected, damaged>>
    BY DEF ReadByte
  <1>7. /\ e.len = rx.len /\ e.frame = rx.frame
        /\ Reset(e) \in Receiver /\ ~Reset(e).ready
        /\ Reset(e).state = "OUTSIDE_FRAME"
    BY <1>2, Ended, Zenon
  <1> HIDE DEF e
  <1>4. CASE ~r.ready
    <2>1. rx' = r /\ UNCHANGED <<lastBsn, delivered>>
      BY <1>4, Zenon DEF ReadByte
    <2> HIDE DEF c
    <2> QED
      BY <1>1, <1>3, <1>4, <1>6, <2>1, Zenon DEF c
  <1>5. CASE r.ready
    <2>1. r = e /\ rx.state = "INSIDE_FRAME" /\ c = RFC1662_FLAG /\ rx.len > 0
      BY <1>3, <1>5
    <2> HIDE DEF r
    <2>4. /\ rx' = Reset(r)
          /\ \/ IsControl(r) /\ lastBsn' = r.frame[2] * 256 + r.frame[1] /\ UNCHANGED delivered
             \/ /\ ~IsControl(r) /\ (r.len > RxMax \/ r.len > ClientLen)
                /\ UNCHANGED <<lastBsn, delivered>>
             \/ /\ ~IsControl(r) /\ r.len <= RxMax /\ r.len <= ClientLen
                /\ delivered' = Append(delivered,
                       [frame |-> Len(sent), len |-> r.len,
                        data |-> [i \in 1 .. r.len - 1 |-> r.frame[i]]])
                /\ UNCHANGED lastBsn
      BY <1>5, Zenon DEF ReadByte, r
    <2>5. IsControl(r) <=> rx.frame[0] = PROTOCOL_CONTROL
      BY <1>7, <2>1 DEF IsControl
    <2>6. rx' \in Receiver /\ ~rx'.ready /\ rx'.state = "OUTSIDE_FRAME"
      BY <1>7, <2>1, <2>4
    <2>7. r.len = rx.len /\ r.frame = rx.frame
      BY <1>7, <2>1
    <2>8. EndsFrame
      BY <2>1, <2>4, <2>5, <2>6, <2>7 DEF EndsFrame
    <2> QED
      BY <1>1, <1>6, <2>6, <2>8, Zenon
  <1> QED
    BY <1>4, <1>5, Zenon

-----------------------------------------------------------------------------
(* A frame, byte by byte.                                                  *)

LEMMA DecodeCases ==
    ASSUME NEW r \in Receiver, NEW c \in Byte
    PROVE  LET d == Decode(r, c)
           IN  /\ r.state = "OUTSIDE_FRAME" /\ c = RFC1662_FLAG =>
                     d.state = "INSIDE_FRAME" /\ d.len = 0
               /\ r.state = "OUTSIDE_FRAME" /\ c # RFC1662_FLAG => d = r
               /\ r.state = "INSIDE_FRAME" /\ c = RFC1662_FLAG =>
                     IF r.len > 0 THEN d.ready ELSE d = r
               /\ r.state = "INSIDE_FRAME" /\ c = RFC1662_ESCAPE =>
                     d.state = "ESCAPED" /\ d.len = r.len /\ d.frame = r.frame
               /\ r.state = "INSIDE_FRAME" /\ c \notin Special => d = Store(r, c)
               /\ r.state = "ESCAPED" => d = Store(r, Flip(c))
  <1> DEFINE d == Decode(r, c)
  <1>1. ASSUME r.state = "OUTSIDE_FRAME", c = RFC1662_FLAG
        PROVE  d.state = "INSIDE_FRAME" /\ d.len = 0
    <2>1. d = [r EXCEPT !.len = 0, !.ready = FALSE, !.state = "INSIDE_FRAME"]
      BY <1>1 DEF Decode
    <2>2. \A n, b, s : [r EXCEPT !.len = n, !.ready = b, !.state = s]
                       = [state |-> s, len |-> n, ready |-> b, frame |-> r.frame]
      BY SetLenReadyState, Zenon
    <2>3. d = [state |-> "INSIDE_FRAME", len |-> 0, ready |-> FALSE, frame |-> r.frame]
      BY <2>1, <2>2, Zenon
    <2> HIDE DEF d
    <2> QED
      BY <2>3
  <1>3. r.state = "OUTSIDE_FRAME" /\ c # RFC1662_FLAG => d = r
    BY DEF Decode
  <1>4. r.state = "INSIDE_FRAME" /\ c = RFC1662_FLAG /\ r.len > 0 => d.ready
    BY DEF Decode, Receiver
  <1>5. r.state = "INSIDE_FRAME" /\ c = RFC1662_FLAG /\ ~(r.len > 0) => d = r
    BY DEF Decode
  <1>6. r.state = "INSIDE_FRAME" /\ c = RFC1662_ESCAPE =>
           d.state = "ESCAPED" /\ d.len = r.len /\ d.frame = r.frame
    BY DEF Decode, Receiver, RFC1662_FLAG, RFC1662_ESCAPE
  <1>7. r.state = "INSIDE_FRAME" /\ c \notin Special => d = Store(r, c)
    BY DEF Decode, Special
  <1>8. r.state = "ESCAPED" => d = Store(r, Flip(c))
    BY DEF Decode
  <1> HIDE DEF d
  <1> QED
    BY <1>1, <1>3, <1>4, <1>5, <1>6, <1>7, <1>8 DEF d

LEMMA OneAhead ==
    ASSUME NEW x \in Byte, NEW t \in Seq(Byte)
    PROVE  /\ <<x>> \o t \in Seq(Byte) \ {<<>>}
           /\ Head(<<x>> \o t) = x /\ Tail(<<x>> \o t) = t
  <1> DEFINE s == <<x>> \o t
  <1>1. s \in Seq(Byte) /\ Len(s) = 1 + Len(t) /\ Len(t) \in Nat
    OBVIOUS
  <1>2. s[1] = x
    OBVIOUS
  <1>3. \A i \in 1 .. Len(t) : s[i + 1] = t[i]
    OBVIOUS
  <1>4. s # <<>>
    BY <1>1
  <1> HIDE DEF s
  <1>5. Head(s) = x
    BY <1>1, <1>2, <1>4
  <1>6. /\ Tail(s) \in Seq(Byte) /\ Len(Tail(s)) = Len(t)
        /\ \A i \in 1 .. Len(t) : Tail(s)[i] = s[i + 1]
    BY <1>1, <1>4, HeadTailProperties
  <1>7. Tail(s) = t
    BY <1>1, <1>3, <1>6, SeqEqual
  <1> QED
    BY <1>1, <1>4, <1>5, <1>7 DEF s

LEMMA TwoAhead ==
    ASSUME NEW x \in Byte, NEW y \in Byte, NEW t \in Seq(Byte)
    PROVE  <<x, y>> \o t = <<x>> \o (<<y>> \o t)
  <1>1. <<x>> \in Seq(Byte) /\ <<y>> \in Seq(Byte)
    OBVIOUS
  <1>2. <<x, y>> = <<x>> \o <<y>>
    <2> DEFINE u == <<x>> \o <<y>>
               v == <<x, y>>
    <2>1. u \in Seq(Byte) /\ Len(u) = 2 /\ u[1] = x /\ u[2] = y
      BY <1>1
    <2>2. v \in Seq(Byte) /\ Len(v) = 2 /\ v[1] = x /\ v[2] = y
      OBVIOUS
    <2> HIDE DEF u, v
    <2>3. \A i \in 1 .. Len(u) : u[i] = v[i]
      BY <2>1, <2>2
    <2>4. u = v
      BY <2>1, <2>2, <2>3, SeqEqual
    <2> QED
      BY <2>4, Zenon DEF u, v
  <1> QED
    BY <1>1, <1>2, ConcatAssociative

\* The first byte of what is left of a frame, and the rest.
LEMMA FirstByte ==
    ASSUME NEW f \in Frames, NEW b \in Seq(Byte)
    PROVE  /\ b = Encoded(ProtocolOf(f.kind), f.data) =>
                 b # <<>> /\ Head(b) = RFC1662_FLAG /\ FromProtocol(Tail(b), f)
           /\ FromProtocol(b, f) =>
                 /\ b # <<>> /\ Head(b) = ProtocolOf(f.kind)
                 /\ FromByte(Tail(b), f, 1) /\ Tail(b) # <<>>
           /\ FromByte(b, f, Len(f.data) + 1) =>
                 b # <<>> /\ Head(b) = RFC1662_FLAG /\ Tail(b) = <<>>
           /\ \A k \in 1 .. Len(f.data) : FromByte(b, f, k) =>
                 /\ b # <<>> /\ Tail(b) # <<>>
                 /\ f.data[k] \in Special =>
                       Head(b) = RFC1662_ESCAPE /\ FromEscaped(Tail(b), f, k)
                 /\ f.data[k] \notin Special =>
                       Head(b) = f.data[k] /\ FromByte(Tail(b), f, k + 1)
           /\ \A k \in 1 .. Len(f.data) : FromEscaped(b, f, k) =>
                 /\ b # <<>> /\ Tail(b) # <<>>
                 /\ Head(b) = Flip(f.data[k]) /\ FromByte(Tail(b), f, k + 1)
  <1> DEFINE data == f.data
             protocol == ProtocolOf(f.kind)
             R == Rest(data)
  <1>1. data \in Seq(Byte) /\ Len(data) \in Nat
    BY LenProperties DEF Frames
  <1>2. protocol \in Byte
    BY DEF ProtocolOf, PROTOCOL_SHTP, PROTOCOL_CONTROL, Byte
  <1>3. RFC1662_FLAG \in Byte /\ RFC1662_ESCAPE \in Byte
    BY DEF RFC1662_FLAG, RFC1662_ESCAPE, Byte
  <1>4. \A k \in 1 .. Len(data) : data[k] \in Byte /\ Flip(data[k]) \in Byte
    BY <1>1, Flips
  <1>5. /\ \A i \in 1 .. Len(data) + 1 : R[i] \in Seq(Byte) \ {<<>>}
        /\ R[Len(data) + 1] = <<RFC1662_FLAG>>
        /\ \A i \in 1 .. Len(data) :
              R[i] = IF data[i] \in Special
                     THEN <<RFC1662_ESCAPE, Flip(data[i])>> \o R[i + 1]
                     ELSE <<data[i]>> \o R[i + 1]
    BY <1>1, RestBytes, Zenon
  <1> DEFINE Ahead(x, t) == <<x>> \o t
  <1>6. \A x \in Byte, t \in Seq(Byte) :
           Ahead(x, t) \in Seq(Byte) \ {<<>>} /\ Head(Ahead(x, t)) = x /\ Tail(Ahead(x, t)) = t
    BY OneAhead, Zenon
  <1>9. \A x, y \in Byte, t \in Seq(Byte) : <<x, y>> \o t = Ahead(x, Ahead(y, t))
    BY TwoAhead, Zenon
  <1>7. \A k \in 1 .. Len(data) : k + 1 \in 1 .. Len(data) + 1 /\ k \in 1 .. Len(data) + 1
    BY <1>1
  <1>8. 1 \in 1 .. Len(data) + 1
    BY <1>1
  <1>10. /\ Encoded(protocol, data) = <<RFC1662_FLAG, protocol>> \o R[1]
         /\ FromProtocol(b, f) <=> b = Ahead(protocol, R[1])
         /\ \A k : FromByte(b, f, k) <=> b = R[k]
         /\ \A k : FromEscaped(b, f, k) <=> data[k] \in Special /\ b = Ahead(Flip(data[k]), R[k + 1])
         /\ FromProtocol(Tail(b), f) <=> Tail(b) = Ahead(protocol, R[1])
         /\ \A k : FromByte(Tail(b), f, k) <=> Tail(b) = R[k]
         /\ \A k : FromEscaped(Tail(b), f, k)
                   <=> data[k] \in Special /\ Tail(b) = Ahead(Flip(data[k]), R[k + 1])
    BY Zenon DEF Encoded, FromProtocol, FromByte, FromEscaped, Special
  <1>11. \A i \in 1 .. Len(data) :
            R[i] = IF data[i] \in Special
                   THEN Ahead(RFC1662_ESCAPE, Ahead(Flip(data[i]), R[i + 1]))
                   ELSE Ahead(data[i], R[i + 1])
    <2>1. SUFFICES ASSUME NEW i \in 1 .. Len(data)
                   PROVE  R[i] = IF data[i] \in Special
                                 THEN Ahead(RFC1662_ESCAPE, Ahead(Flip(data[i]), R[i + 1]))
                                 ELSE Ahead(data[i], R[i + 1])
      OBVIOUS
    <2>2. R[i + 1] \in Seq(Byte) /\ Flip(data[i]) \in Byte
      BY <1>4, <1>5, <1>7
    <2> QED
      BY <1>3, <1>5, <1>9, <2>2, Zenon
  <1> HIDE DEF R, data, protocol, Ahead
  <1>12. ASSUME b = Encoded(protocol, data)
         PROVE  b # <<>> /\ Head(b) = RFC1662_FLAG /\ Tail(b) = Ahead(protocol, R[1])
    <2>1. R[1] \in Seq(Byte)
      BY <1>5, <1>8, Zenon
    <2>2. b = Ahead(RFC1662_FLAG, Ahead(protocol, R[1]))
      BY <1>2, <1>3, <1>9, <1>10, <1>12, <2>1
    <2>3. Ahead(protocol, R[1]) \in Seq(Byte)
      BY <1>2, <1>6, <2>1, Zenon
    <2> QED
      BY <1>3, <1>6, <2>2, <2>3, Zenon
  <1>13. ASSUME b = Ahead(protocol, R[1])
         PROVE  b # <<>> /\ Head(b) = protocol /\ Tail(b) = R[1] /\ Tail(b) # <<>>
    <2>1. R[1] \in Seq(Byte) \ {<<>>}
      BY <1>5, <1>8
    <2> QED
      BY <1>2, <1>6, <1>13, <2>1, Zenon
  <1>14. ASSUME b = R[Len(data) + 1]
         PROVE  b # <<>> /\ Head(b) = RFC1662_FLAG /\ Tail(b) = <<>>
    BY <1>3, <1>5, <1>14
  <1>15. ASSUME NEW k \in 1 .. Len(data), b = R[k]
         PROVE  /\ b # <<>> /\ Tail(b) # <<>>
                /\ data[k] \in Special =>
                      Head(b) = RFC1662_ESCAPE /\ Tail(b) = Ahead(Flip(data[k]), R[k + 1])
                /\ data[k] \notin Special => Head(b) = data[k] /\ Tail(b) = R[k + 1]
    <2>1. R[k + 1] \in Seq(Byte) \ {<<>>} /\ data[k] \in Byte /\ Flip(data[k]) \in Byte
      BY <1>4, <1>5, <1>7
    <2>2. CASE data[k] \in Special
      <3>1. b = Ahead(RFC1662_ESCAPE, Ahead(Flip(data[k]), R[k + 1]))
        BY <1>11, <1>15, <2>2
      <3>2. Ahead(Flip(data[k]), R[k + 1]) \in Seq(Byte) \ {<<>>}
        BY <1>6, <2>1, Zenon
      <3> QED
        BY <1>3, <1>6, <2>2, <3>1, <3>2, Zenon
    <2>3. CASE data[k] \notin Special
      <3>1. b = Ahead(data[k], R[k + 1])
        BY <1>11, <1>15, <2>3
      <3> QED
        BY <1>6, <2>1, <2>3, <3>1, Zenon
    <2> QED
      BY <2>2, <2>3, Zenon
  <1>16. ASSUME NEW k \in 1 .. Len(data), b = Ahead(Flip(data[k]), R[k + 1])
         PROVE  b # <<>> /\ Tail(b) # <<>> /\ Head(b) = Flip(data[k]) /\ Tail(b) = R[k + 1]
    <2>1. R[k + 1] \in Seq(Byte) \ {<<>>} /\ Flip(data[k]) \in Byte
      BY <1>4, <1>5, <1>7
    <2> QED
      BY <1>6, <1>16, <2>1, Zenon
  <1>17. b = Encoded(ProtocolOf(f.kind), f.data) =>
            b # <<>> /\ Head(b) = RFC1662_FLAG /\ FromProtocol(Tail(b), f)
    BY <1>10, <1>12, Zenon DEF data, protocol
  <1>18. FromProtocol(b, f) =>
            /\ b # <<>> /\ Head(b) = ProtocolOf(f.kind)
            /\ FromByte(Tail(b), f, 1) /\ Tail(b) # <<>>
    BY <1>10, <1>13, Zenon DEF protocol
  <1>19. FromByte(b, f, Len(f.data) + 1) => b # <<>> /\ Head(b) = RFC1662_FLAG /\ Tail(b) = <<>>
    BY <1>10, <1>14, Zenon DEF data
  <1>20. \A k \in 1 .. Len(f.data) : FromByte(b, f, k) =>
            /\ b # <<>> /\ Tail(b) # <<>>
            /\ f.data[k] \in Special =>
                  Head(b) = RFC1662_ESCAPE /\ FromEscaped(Tail(b), f, k)
            /\ f.data[k] \notin Special =>
                  Head(b) = f.data[k] /\ FromByte(Tail(b), f, k + 1)
    BY <1>10, <1>15, Zenon DEF data
  <1>21. \A k \in 1 .. Len(f.data) : FromEscaped(b, f, k) =>
            /\ b # <<>> /\ Tail(b) # <<>>
            /\ Head(b) = Flip(f.data[k]) /\ FromByte(Tail(b), f, k + 1)
    BY <1>10, <1>16, Zenon DEF data
  <1> QED
    BY <1>17, <1>18, <1>19, <1>20, <1>21, Zenon

LEMMA KindsDiffer ==
    /\ \A kind : ProtocolOf(kind) \in Byte \ Special
    /\ RFC1662_FLAG # RFC1662_ESCAPE
    /\ RFC1662_FLAG \in Special /\ RFC1662_ESCAPE \in Special
  BY DEF ProtocolOf, PROTOCOL_SHTP, PROTOCOL_CONTROL, Byte, Special, RFC1662_FLAG, RFC1662_ESCAPE

\* The last flag of a frame that was received whole.
LastFlag(b, r, f) ==
    /\ Head(b) = RFC1662_FLAG /\ Tail(b) = <<>>
    /\ r.state = "INSIDE_FRAME" /\ HasUpTo(r, f, Len(f.data) + 1)
    /\ Decode(r, Head(b)).ready

LEMMA NextHasUpTo ==
    ASSUME NEW f \in Frames, NEW r \in Receiver, NEW k \in 1 .. Len(f.data),
           f.data[k] \in Byte, HasUpTo(r, f, k)
    PROVE  LET d == Store(r, f.data[k])
           IN  d.state = "INSIDE_FRAME" /\ HasUpTo(d, f, k + 1)
  <1> DEFINE d == Store(r, f.data[k])
  <1>1. RxMax \in Nat /\ RxMax > 0
    BY BufferAssumption
  <1>2. r.len = k /\ r.frame[0] = ProtocolOf(f.kind)
    BY DEF HasUpTo
  <1>3. /\ d.state = "INSIDE_FRAME" /\ d.len = k + 1
        /\ \A i \in 0 .. RxMax - 1 : d.frame[i] = IF i = k THEN f.data[k] ELSE r.frame[i]
    BY <1>2, Stored
  <1> HIDE DEF d
  <1>4. d.frame[0] = ProtocolOf(f.kind)
    BY <1>1, <1>2, <1>3
  <1>5. ASSUME NEW i \in 1 .. (k + 1) - 1, i < RxMax
        PROVE  d.frame[i] = f.data[i]
    <2>1. i \in 0 .. RxMax - 1
      BY <1>1, <1>5
    <2>2. CASE i = k
      BY <1>3, <2>1, <2>2
    <2>3. CASE i # k
      <3>1. i \in 1 .. k - 1
        BY <1>5, <2>3
      <3>2. r.frame[i] = f.data[i]
        BY <1>5, <3>1 DEF HasUpTo
      <3> QED
        BY <1>3, <2>1, <2>3, <3>2
    <2> QED
      BY <2>2, <2>3
  <1>6. HasUpTo(d, f, k + 1)
    BY <1>3, <1>4, <1>5 DEF HasUpTo
  <1> QED
    BY <1>3, <1>6 DEF d

LEMMA CleanByte ==
    ASSUME NEW f \in Frames, NEW r \in Receiver, NEW b \in Seq(Byte), b # <<>>,
           InFrame(b, r, f)
    PROVE  LastFlag(b, r, f)
           \/ /\ InFrame(Tail(b), Decode(r, Head(b)), f) /\ Tail(b) # <<>>
              /\ ~(r.state = "INSIDE_FRAME" /\ Head(b) = RFC1662_FLAG /\ r.len > 0)
  <1> DEFINE c == Head(b)
             d == Decode(r, c)
             data == f.data
  <1>1. c \in Byte
    BY HeadTailProperties
  <1>2. r.len \in Nat /\ RxMax \in Nat /\ 0 \in 0 .. RxMax - 1
    BY BufferAssumption DEF Receiver
  <1>3. data \in Seq(Byte) /\ Len(data) \in Nat
    BY LenProperties DEF Frames
  <1>4. CASE b = Encoded(ProtocolOf(f.kind), data) /\ AwaitsStart(r)
    <2>1. c = RFC1662_FLAG /\ FromProtocol(Tail(b), f)
      BY <1>4, FirstByte, Zenon
    <2>2. d.state = "INSIDE_FRAME" /\ d.len = 0
      BY <1>1, <1>2, <1>4, <2>1, DecodeCases DEF AwaitsStart
    <2>3. Tail(b) \in Seq(Byte)
      BY HeadTailProperties
    <2>4. Tail(b) # <<>>
      BY <2>1, <2>3, FirstByte, Zenon
    <2>5. ~(r.state = "INSIDE_FRAME" /\ r.len > 0)
      BY <1>4 DEF AwaitsStart
    <2> QED
      BY <2>1, <2>2, <2>4, <2>5, Zenon DEF InFrame
  <1>5. CASE FromProtocol(b, f) /\ r.state = "INSIDE_FRAME" /\ r.len = 0
    <2>1. c = ProtocolOf(f.kind) /\ FromByte(Tail(b), f, 1) /\ Tail(b) # <<>>
      BY <1>5, FirstByte, Zenon
    <2>2. c \notin Special /\ c # RFC1662_FLAG
      BY <2>1, KindsDiffer
    <2>3. d = Store(r, c)
      BY <1>1, <1>5, <2>2, DecodeCases, Zenon
    <2>4. d.state = "INSIDE_FRAME" /\ d.len = 1 /\ d.frame[0] = c
      BY <1>1, <1>2, <1>5, <2>3, Stored
    <2>5. HasUpTo(d, f, 1)
      BY <2>1, <2>4 DEF HasUpTo
    <2>6. 1 \in 1 .. Len(data) + 1
      BY <1>3
    <2> QED
      BY <2>1, <2>2, <2>4, <2>5, <2>6, Zenon DEF InFrame
  <1>6. ASSUME NEW k \in 1 .. Len(data) + 1,
               FromByte(b, f, k), r.state = "INSIDE_FRAME", HasUpTo(r, f, k)
        PROVE  LastFlag(b, r, f)
               \/ /\ InFrame(Tail(b), d, f) /\ Tail(b) # <<>>
                  /\ ~(r.state = "INSIDE_FRAME" /\ c = RFC1662_FLAG /\ r.len > 0)
    <2>1. r.len = k /\ k > 0 /\ r.frame[0] = ProtocolOf(f.kind)
      BY <1>6 DEF HasUpTo
    <2>2. CASE k = Len(data) + 1
      <3>1. c = RFC1662_FLAG /\ Tail(b) = <<>>
        BY <1>6, <2>2, FirstByte, Zenon
      <3>2. d.ready
        BY <1>1, <1>6, <2>1, <3>1, DecodeCases
      <3> QED
        BY <1>6, <2>2, <3>1, <3>2, Zenon DEF LastFlag
    <2>3. CASE k # Len(data) + 1 /\ data[k] \in Special
      <3>1. k \in 1 .. Len(data)
        BY <1>3, <2>3
      <3>2. c = RFC1662_ESCAPE /\ FromEscaped(Tail(b), f, k) /\ Tail(b) # <<>>
        BY <1>6, <2>3, <3>1, FirstByte, Zenon
      <3>3. d.state = "ESCAPED" /\ d.len = r.len /\ d.frame = r.frame
        BY <1>1, <1>6, <3>2, DecodeCases, Zenon
      <3>4. HasUpTo(d, f, k)
        BY <1>6, <3>3 DEF HasUpTo
      <3>5. c # RFC1662_FLAG
        BY <3>2, KindsDiffer
      <3> QED
        BY <3>1, <3>2, <3>3, <3>4, <3>5, Zenon DEF InFrame
    <2>4. CASE k # Len(data) + 1 /\ data[k] \notin Special
      <3>1. k \in 1 .. Len(data)
        BY <1>3, <2>4
      <3>2. c = data[k] /\ FromByte(Tail(b), f, k + 1) /\ Tail(b) # <<>>
        BY <1>6, <2>4, <3>1, FirstByte, Zenon
      <3>6. c \notin Special /\ c # RFC1662_FLAG
        BY <2>4, <3>2, KindsDiffer
      <3>3. d = Store(r, c) /\ c # RFC1662_FLAG
        BY <1>1, <1>6, <3>6, DecodeCases, Zenon
      <3>4. d.state = "INSIDE_FRAME" /\ HasUpTo(d, f, k + 1)
        BY <1>1, <1>2, <1>6, <3>1, <3>2, <3>3, NextHasUpTo
      <3>5. k + 1 \in 1 .. Len(data) + 1
        BY <1>3, <3>1
      <3> QED
        BY <3>2, <3>3, <3>4, <3>5, Zenon DEF InFrame
    <2> QED
      BY <2>2, <2>3, <2>4, Zenon
  <1>7. ASSUME NEW k \in 1 .. Len(data),
               FromEscaped(b, f, k), r.state = "ESCAPED", HasUpTo(r, f, k)
        PROVE  InFrame(Tail(b), d, f) /\ Tail(b) # <<>> /\ r.state # "INSIDE_FRAME"
    <2>1. c = Flip(data[k]) /\ FromByte(Tail(b), f, k + 1) /\ Tail(b) # <<>>
      BY <1>7, FirstByte, Zenon
    <2>2. data[k] \in Special
      BY <1>7 DEF FromEscaped, Special
    <2>7. d = Store(r, Flip(c))
      BY <1>1, <1>7, DecodeCases, Zenon
    <2>3. d = Store(r, data[k])
      BY <2>1, <2>2, <2>7, Flips, Zenon
    <2>4. data[k] \in Byte
      BY <1>3
    <2>5. d.state = "INSIDE_FRAME" /\ HasUpTo(d, f, k + 1)
      BY <1>7, <2>3, <2>4, NextHasUpTo
    <2>6. k + 1 \in 1 .. Len(data) + 1
      BY <1>3
    <2> QED
      BY <1>7, <2>1, <2>5, <2>6, Zenon DEF InFrame
  <1> HIDE DEF c, d, data
  <1> QED
    BY <1>4, <1>5, <1>6, <1>7, Zenon DEF InFrame, c, d, data

\* The receiver after a byte: Decode's, or at the end of a frame outside.
After(b, r, s) ==
    \/ s = Decode(r, Head(b)) /\ ~s.ready
    \/ /\ Head(b) = RFC1662_FLAG /\ r.state = "INSIDE_FRAME" /\ r.len > 0
       /\ s.state = "OUTSIDE_FRAME"

LEMMA Flag ==
    ASSUME NEW r \in Receiver, NEW b \in Seq(Byte), b # <<>>, NEW s, After(b, r, s),
           Head(b) = RFC1662_FLAG
    PROVE  \/ s.state = "OUTSIDE_FRAME"
           \/ s.state = "INSIDE_FRAME" /\ (r.state = "ESCAPED" \/ s.len = 0)
  <1>1. r.state \in {"OUTSIDE_FRAME", "INSIDE_FRAME", "ESCAPED"} /\ r.len \in Nat
    BY DEF Receiver
  <1>2. Head(b) \in Byte
    BY HeadTailProperties
  <1>3. CASE s = Decode(r, Head(b)) /\ ~s.ready
    <2>1. CASE r.state = "OUTSIDE_FRAME"
      BY <1>2, <1>3, <2>1, DecodeCases, Zenon
    <2>2. CASE r.state = "INSIDE_FRAME"
      BY <1>1, <1>2, <1>3, <2>2, DecodeCases
    <2>3. CASE r.state = "ESCAPED"
      <3>1. Flip(Head(b)) \in Byte /\ s = Store(r, Flip(Head(b)))
        BY <1>2, <1>3, <2>3, DecodeCases, Flips, Zenon
      <3>2. s.state = "INSIDE_FRAME"
        BY <3>1, Stored
      <3> QED
        BY <2>3, <3>2
    <2> QED
      BY <1>1, <2>1, <2>2, <2>3
  <1> QED
    BY <1>3 DEF After

LEMMA NoFlag ==
    ASSUME NEW r \in Receiver, NEW b \in Seq(Byte), b # <<>>, NEW s, After(b, r, s),
           Head(b) # RFC1662_FLAG
    PROVE  /\ r.state = "OUTSIDE_FRAME" => s.state = "OUTSIDE_FRAME"
           /\ r.state = "ESCAPED" => s.state = "INSIDE_FRAME"
           /\ r.state = "INSIDE_FRAME" /\ Head(b) \notin Special => s.state = "INSIDE_FRAME"
           /\ r.state = "INSIDE_FRAME" /\ Head(b) = RFC1662_ESCAPE => s.state = "ESCAPED"
  <1>1. Head(b) \in Byte
    BY HeadTailProperties
  <1>2. s = Decode(r, Head(b))
    BY Zenon DEF After
  <1>3. r.state = "OUTSIDE_FRAME" => s.state = "OUTSIDE_FRAME"
    BY <1>1, <1>2, DecodeCases, Zenon
  <1>4. r.state = "ESCAPED" => s.state = "INSIDE_FRAME"
    <2>1. Flip(Head(b)) \in Byte
      BY <1>1, Flips, Zenon
    <2>2. r.state = "ESCAPED" => s = Store(r, Flip(Head(b)))
      BY <1>1, <1>2, DecodeCases, Zenon
    <2> QED
      BY <2>1, <2>2, Stored
  <1>5. r.state = "INSIDE_FRAME" /\ Head(b) \notin Special => s.state = "INSIDE_FRAME"
    BY <1>1, <1>2, DecodeCases, Stored
  <1>6. r.state = "INSIDE_FRAME" /\ Head(b) = RFC1662_ESCAPE => s.state = "ESCAPED"
    BY <1>1, <1>2, DecodeCases, Zenon
  <1> QED
    BY <1>3, <1>4, <1>5, <1>6

LEMMA DamagedByte ==
    ASSUME NEW f \in Frames, NEW r \in Receiver, NEW b \in Seq(Byte), b # <<>>,
           NEW s, After(b, r, s), AfterDamage(b, r, f)
    PROVE  AfterDamage(Tail(b), s, f)
  <1> DEFINE c == Head(b)
             d == Decode(r, c)
             data == f.data
  <1>1. c \in Byte
    BY HeadTailProperties
  <1>2. r.len \in Nat /\ r.state \in {"OUTSIDE_FRAME", "INSIDE_FRAME", "ESCAPED"}
    BY DEF Receiver
  <1>3. data \in Seq(Byte) /\ Len(data) \in Nat
    BY LenProperties DEF Frames
  <1>4. c = RFC1662_FLAG =>
           \/ s.state = "OUTSIDE_FRAME"
           \/ s.state = "INSIDE_FRAME" /\ (r.state = "ESCAPED" \/ s.len = 0)
    BY <1>1, <1>2, Flag
  <1>5. c # RFC1662_FLAG =>
           /\ r.state = "OUTSIDE_FRAME" => s.state = "OUTSIDE_FRAME"
           /\ r.state = "ESCAPED" => s.state = "INSIDE_FRAME"
           /\ r.state = "INSIDE_FRAME" /\ c \notin Special => s.state = "INSIDE_FRAME"
           /\ r.state = "INSIDE_FRAME" /\ c = RFC1662_ESCAPE => s.state = "ESCAPED"
    BY <1>1, NoFlag
  <1>6. CASE b = Encoded(ProtocolOf(f.kind), data)
    <2>1. c = RFC1662_FLAG /\ FromProtocol(Tail(b), f)
      BY <1>6, FirstByte, Zenon
    <2>2. s.state # "ESCAPED"
      BY <1>4, <2>1
    <2> QED
      BY <2>1, <2>2, Zenon DEF AfterDamage
  <1>7. CASE FromProtocol(b, f) /\ r.state # "ESCAPED"
    <2>1. c = ProtocolOf(f.kind) /\ FromByte(Tail(b), f, 1)
      BY <1>7, FirstByte, Zenon
    <2>2. c \notin Special /\ c # RFC1662_FLAG
      BY <2>1, KindsDiffer
    <2>3. s.state # "ESCAPED"
      BY <1>2, <1>5, <1>7, <2>2
    <2>4. 1 \in 1 .. Len(data) + 1
      BY <1>3
    <2> QED
      BY <2>1, <2>3, <2>4, Zenon DEF AfterDamage
  <1>8. ASSUME NEW k \in 1 .. Len(data) + 1, FromByte(b, f, k), r.state # "ESCAPED"
        PROVE  AfterDamage(Tail(b), s, f)
    <2>1. CASE k = Len(data) + 1
      <3>1. c = RFC1662_FLAG /\ Tail(b) = <<>>
        BY <1>8, <2>1, FirstByte, Zenon
      <3>2. AwaitsStart(s)
        BY <1>4, <1>8, <3>1 DEF AwaitsStart
      <3> QED
        BY <3>1, <3>2, Zenon DEF AfterDamage
    <2>2. CASE k # Len(data) + 1 /\ data[k] \in Special
      <3>1. k \in 1 .. Len(data)
        BY <1>3, <2>2
      <3>2. c = RFC1662_ESCAPE /\ FromEscaped(Tail(b), f, k)
        BY <1>8, <2>2, <3>1, FirstByte, Zenon
      <3>3. s.state # "INSIDE_FRAME"
        BY <1>2, <1>5, <1>8, <3>2, KindsDiffer
      <3> QED
        BY <3>1, <3>2, <3>3, Zenon DEF AfterDamage
    <2>3. CASE k # Len(data) + 1 /\ data[k] \notin Special
      <3>1. k \in 1 .. Len(data) /\ k + 1 \in 1 .. Len(data) + 1
        BY <1>3, <2>3
      <3>2. c = data[k] /\ FromByte(Tail(b), f, k + 1)
        BY <1>8, <2>3, <3>1, FirstByte, Zenon
      <3>3. c \notin Special /\ c # RFC1662_FLAG
        BY <2>3, <3>2, KindsDiffer
      <3>4. s.state # "ESCAPED"
        BY <1>2, <1>5, <1>8, <3>3
      <3> QED
        BY <3>1, <3>2, <3>4, Zenon DEF AfterDamage
    <2> QED
      BY <2>1, <2>2, <2>3, Zenon
  <1>9. ASSUME NEW k \in 1 .. Len(data), FromEscaped(b, f, k), r.state # "INSIDE_FRAME"
        PROVE  AfterDamage(Tail(b), s, f)
    <2>1. c = Flip(data[k]) /\ FromByte(Tail(b), f, k + 1)
      BY <1>9, FirstByte, Zenon
    <2>2. data[k] \in Special
      BY <1>9 DEF FromEscaped, Special
    <2>3. c # RFC1662_FLAG
      BY <2>1, <2>2, Flips, KindsDiffer
    <2>4. s.state # "ESCAPED"
      BY <1>2, <1>5, <1>9, <2>3
    <2>5. k + 1 \in 1 .. Len(data) + 1
      BY <1>3
    <2> QED
      BY <2>1, <2>4, <2>5, Zenon DEF AfterDamage
  <1> HIDE DEF c, d, data
  <1> QED
    BY <1>6, <1>7, <1>8, <1>9, Zenon DEF AfterDamage, data

-----------------------------------------------------------------------------
(* The steps.                                                              *)

\* The receiver between two frames.
LEMMA Between ==
    ASSUME FrameTypeOK, Phase, line = <<>>
    PROVE  /\ sent = <<>> \/ Len(sent) \notin Disturbed => rx.state = "OUTSIDE_FRAME"
           /\ damaged > 0 /\ Len(sent) = damaged + 1 => AwaitsStart(rx)
  <1>1. sent \in Seq(Frames) /\ Len(sent) \in Nat /\ (sent # <<>> => Len(sent) > 0)
    BY Types, LenProperties, EmptySeq
  <1>2. sent # <<>> => sent[Len(sent)] \in Frames
    BY <1>1
  <1>3. line \in Seq(Byte)
    BY Types
  <1>4. ASSUME NEW f \in Frames
        PROVE  /\ line # Encoded(ProtocolOf(f.kind), f.data) /\ ~FromProtocol(line, f)
               /\ \A k \in 1 .. Len(f.data) + 1 : ~FromByte(line, f, k)
               /\ \A k \in 1 .. Len(f.data) : ~FromEscaped(line, f, k)
    <2>1. /\ line # Encoded(ProtocolOf(f.kind), f.data) /\ ~FromProtocol(line, f)
          /\ ~FromByte(line, f, Len(f.data) + 1)
          /\ \A k \in 1 .. Len(f.data) : ~FromByte(line, f, k) /\ ~FromEscaped(line, f, k)
      BY <1>3, FirstByte, Zenon
    <2>2. Len(f.data) \in Nat
      BY LenProperties DEF Frames
    <2>3. \A k \in 1 .. Len(f.data) + 1 : k = Len(f.data) + 1 \/ k \in 1 .. Len(f.data)
      BY <2>2
    <2> QED
      BY <2>1, <2>3, Zenon
  <1>5. ASSUME NEW f \in Frames
        PROVE  /\ InFrame(line, rx, f) => rx.state = "OUTSIDE_FRAME"
               /\ AfterDamage(line, rx, f) => AwaitsStart(rx)
    BY <1>4, Zenon DEF InFrame, AfterDamage
  <1>6. sent = <<>> => rx.state = "OUTSIDE_FRAME"
    BY DEF Phase
  <1>7. sent # <<>> /\ Len(sent) \notin Disturbed => InFrame(line, rx, sent[Len(sent)])
    BY <1>1 DEF Phase
  <1>8. damaged > 0 /\ Len(sent) = damaged + 1 =>
           sent # <<>> /\ AfterDamage(line, rx, sent[Len(sent)])
    <2>1. damaged \in Nat
      BY Types
    <2> QED
      BY <1>1, <2>1 DEF Phase
  <1> QED
    BY <1>2, <1>5, <1>6, <1>7, <1>8, Zenon

LEMMA SendPhase ==
    ASSUME FrameTypeOK, Phase, SendsFrame
    PROVE  Phase'
  <1>1. PICK f \in Frames :
            /\ line = <<>> /\ line' = Encoded(ProtocolOf(f.kind), f.data)
            /\ sent' = Append(sent, f)
            /\ UNCHANGED <<damaged, rx>>
    BY Zenon DEF SendsFrame
  <1>2. sent \in Seq(Frames) /\ damaged \in Nat /\ damaged <= Len(sent)
    BY Types
  <1>3. /\ Len(sent) \in Nat /\ Len(sent') = Len(sent) + 1 /\ sent' # <<>>
        /\ sent'[Len(sent')] = f
    BY <1>1, <1>2, AppendProperties, LenProperties
  <1>4. Len(sent') \notin Disturbed' => AwaitsStart(rx)
    <2>1. SUFFICES ASSUME Len(sent') \notin Disturbed' PROVE AwaitsStart(rx)
      OBVIOUS
    <2>2. damaged = 0 \/ (Len(sent) + 1 # damaged /\ Len(sent) + 1 # damaged + 1)
      BY <1>1, <1>3, <2>1 DEF Disturbed
    <2>3. \/ Len(sent) \notin Disturbed
          \/ damaged > 0 /\ Len(sent) = damaged + 1
      BY <1>2, <1>3, <2>2 DEF Disturbed
    <2> QED
      BY <1>1, <2>3, Between DEF AwaitsStart
  <1>5. Len(sent') \notin Disturbed' => InFrame(line', rx', sent'[Len(sent')])
    BY <1>1, <1>3, <1>4, Zenon DEF InFrame
  <1>6. AfterDamage(line', rx', sent'[Len(sent')])
    BY <1>1, <1>3, Zenon DEF AfterDamage
  <1> QED
    BY <1>3, <1>5, <1>6 DEF Phase

LEMMA DisturbPhase ==
    ASSUME FrameTypeOK, Phase, Disturb
    PROVE  Phase'
  <1>1. sent \in Seq(Frames) /\ Len(sent) \in Nat /\ sent # <<>>
    BY Types, LenProperties DEF Disturb, Phase
  <1>2. damaged' = Len(sent) /\ sent' = sent /\ Len(sent) > 0
    BY <1>1, EmptySeq DEF Disturb
  <1>3. Len(sent') \in Disturbed'
    BY <1>2 DEF Disturbed
  <1>4. Len(sent') # damaged' + 1
    BY <1>1, <1>2
  <1> QED
    BY <1>1, <1>2, <1>3, <1>4 DEF Phase

LEMMA ReadAfter ==
    ASSUME FrameTypeOK, ReadByte
    PROVE  After(line, rx, rx')
  <1>1. /\ rx' \in Receiver /\ ~rx'.ready
        /\ \/ rx' = Decode(rx, Head(line)) /\ UNCHANGED <<lastBsn, delivered>>
           \/ EndsFrame
    BY ReadCases
  <1> QED
    BY <1>1, Zenon DEF After, EndsFrame

\* What becomes of frame f, received whole.
Outcome(f) ==
    IF f.kind = "bsn"
    THEN lastBsn' = f.data[1] + 256 * f.data[2] /\ UNCHANGED delivered
    ELSE /\ UNCHANGED lastBsn
         /\ delivered' = IF FitsBuffers(f.data)
                         THEN Append(delivered, [frame |-> Len(sent), len |-> Len(f.data) + 1,
                                                 data |-> f.data])
                         ELSE delivered

LEMMA WholeFrame ==
    ASSUME NEW f \in Frames, f.kind = "bsn" => Len(f.data) = 2,
           rx \in Receiver, HasUpTo(rx, f, Len(f.data) + 1), EndsFrame
    PROVE  Outcome(f)
  <1> DEFINE data == f.data
             got  == [i \in 1 .. rx.len - 1 |-> rx.frame[i]]
  <1>1. data \in Seq(Byte) /\ Len(data) \in Nat /\ f.kind \in {"shtp", "bsn"}
    BY LenProperties DEF Frames
  <1>2. RxMax \in Nat /\ RxMax >= 3 /\ ClientLen \in Nat
    BY BufferAssumption
  <1>3. /\ rx.len = Len(data) + 1
        /\ rx.frame[0] = ProtocolOf(f.kind)
        /\ \A i \in 1 .. Len(data) : i < RxMax => rx.frame[i] = data[i]
    <2>1. (Len(data) + 1) - 1 = Len(data)
      BY <1>1
    <2> QED
      BY <2>1 DEF HasUpTo
  <1>4. /\ f.kind = "bsn" => rx.frame[0] = PROTOCOL_CONTROL
        /\ f.kind # "bsn" => rx.frame[0] # PROTOCOL_CONTROL
    BY <1>1, <1>3 DEF ProtocolOf, PROTOCOL_SHTP, PROTOCOL_CONTROL
  <1>5. CASE f.kind = "bsn"
    <2>1. rx.frame[1] = data[1] /\ rx.frame[2] = data[2] /\ data[1] \in Nat /\ data[2] \in Nat
      <3>0. Len(data) = 2
        BY <1>5, Zenon
      <3> HIDE DEF data
      <3>1. 1 \in 1 .. Len(data) /\ 2 \in 1 .. Len(data) /\ 1 < RxMax /\ 2 < RxMax
        BY <1>2, <3>0
      <3>2. data[1] \in Byte /\ data[2] \in Byte
        BY <1>1, <3>1
      <3>3. data[1] \in Nat /\ data[2] \in Nat
        <4>1. \A x \in Byte : x \in Nat
          BY DEF Byte
        <4> QED
          BY <3>2, <4>1, Zenon
      <3>4. rx.frame[1] = data[1] /\ rx.frame[2] = data[2]
        BY <1>3, <3>1
      <3> QED
        BY <3>3, <3>4
    <2>2. lastBsn' = rx.frame[2] * 256 + rx.frame[1] /\ UNCHANGED delivered
      BY <1>4, <1>5, Zenon DEF EndsFrame
    <2>3. lastBsn' = data[1] + 256 * data[2]
      BY <2>1, <2>2
    <2> QED
      BY <1>5, <2>2, <2>3 DEF Outcome
  <1>6. CASE f.kind # "bsn" /\ ~FitsBuffers(data)
    <2>1. ~(rx.len <= RxMax /\ rx.len <= ClientLen)
      BY <1>3, <1>6 DEF FitsBuffers
    <2>2. UNCHANGED <<lastBsn, delivered>>
      BY <1>4, <1>6, <2>1 DEF EndsFrame
    <2> QED
      BY <1>6, <2>2 DEF Outcome
  <1>7. CASE f.kind # "bsn" /\ FitsBuffers(data)
    <2>1. rx.len <= RxMax /\ rx.len <= ClientLen
      BY <1>3, <1>7 DEF FitsBuffers
    <2>2. /\ UNCHANGED lastBsn
          /\ delivered' = Append(delivered, [frame |-> Len(sent), len |-> rx.len, data |-> got])
      <3>1. ~(rx.len > RxMax) /\ ~(rx.len > ClientLen)
        BY <1>1, <1>2, <1>3, <2>1
      <3> QED
        BY <1>4, <1>7, <3>1, Zenon DEF EndsFrame
    <2>3. got = data
      <3>1. rx.len - 1 = Len(data) /\ \A i \in 1 .. Len(data) : i < RxMax
        BY <1>1, <1>2, <1>3, <2>1
      <3>2. got = [i \in 1 .. Len(data) |-> data[i]]
        BY <1>3, <3>1
      <3>3. data = [i \in 1 .. Len(data) |-> data[i]]
        BY <1>1
      <3> QED
        BY <3>2, <3>3, Zenon
    <2> HIDE DEF got
    <2> QED
      BY <1>3, <1>7, <2>2, <2>3 DEF Outcome
  <1> QED
    BY <1>5, <1>6, <1>7

LEMMA CleanRead ==
    ASSUME FrameTypeOK, ReadByte, NEW f \in Frames, f.kind = "bsn" => Len(f.data) = 2,
           InFrame(line, rx, f)
    PROVE  /\ InFrame(line', rx', f)
           /\ IF line' = <<>> THEN Outcome(f) ELSE UNCHANGED <<lastBsn, delivered>>
  <1>1. /\ line \in Seq(Byte) /\ line # <<>> /\ line' = Tail(line)
        /\ rx \in Receiver /\ ~rx'.ready
        /\ \/ rx' = Decode(rx, Head(line)) /\ UNCHANGED <<lastBsn, delivered>>
           \/ EndsFrame
    <2>1. line # <<>>
      BY DEF ReadByte
    <2>2. line \in Seq(Byte) /\ rx \in Receiver
      BY Types
    <2> QED
      BY <2>1, <2>2, ReadCases, Zenon
  <1>2. CASE LastFlag(line, rx, f)
    <2>1. EndsFrame /\ line' = <<>>
      BY <1>1, <1>2, Zenon DEF LastFlag
    <2>2. InFrame(line', rx', f)
      BY <2>1, Zenon DEF InFrame, EndsFrame
    <2>3. Outcome(f)
      BY <1>1, <1>2, <2>1, WholeFrame DEF LastFlag
    <2> QED
      BY <2>1, <2>2, <2>3, Zenon
  <1>3. CASE /\ InFrame(Tail(line), Decode(rx, Head(line)), f) /\ Tail(line) # <<>>
             /\ ~(rx.state = "INSIDE_FRAME" /\ Head(line) = RFC1662_FLAG /\ rx.len > 0)
    <2>1. rx' = Decode(rx, Head(line)) /\ UNCHANGED <<lastBsn, delivered>>
      BY <1>1, <1>3, Zenon DEF EndsFrame
    <2> QED
      BY <1>1, <1>3, <2>1, Zenon
  <1> QED
    BY <1>1, <1>2, <1>3, CleanByte, Zenon

LEMMA ReadPhase ==
    ASSUME FrameTypeOK, Sized, Phase, ReadByte
    PROVE  Phase'
  <1>1. sent' = sent /\ damaged' = damaged /\ line # <<>>
    BY DEF ReadByte
  <1>2. sent \in Seq(Frames) /\ sent # <<>> /\ Len(sent) \in Nat \ {0}
    BY <1>1, Types, LenProperties, EmptySeq DEF Phase
  <1> DEFINE f == sent[Len(sent)]
  <1>3. f \in Frames /\ (f.kind = "bsn" => Len(f.data) = 2)
    <2>1. Len(sent) \in DOMAIN sent /\ f \in Frames
      BY <1>2
    <2> QED
      BY <2>1 DEF Sized
  <1>4. Len(sent) \notin Disturbed => InFrame(line', rx', f)
    <2>1. Len(sent) \notin Disturbed => InFrame(line, rx, f)
      BY <1>2 DEF Phase
    <2> HIDE DEF f
    <2> QED
      BY <1>3, <2>1, CleanRead, Zenon
  <1>5. damaged > 0 /\ Len(sent) = damaged + 1 => AfterDamage(line', rx', f)
    <2>1. damaged > 0 /\ Len(sent) = damaged + 1 => AfterDamage(line, rx, f)
      BY DEF Phase
    <2>2. line \in Seq(Byte) /\ rx \in Receiver /\ line' = Tail(line)
      BY Types DEF ReadByte
    <2>3. After(line, rx, rx')
      BY ReadAfter
    <2> HIDE DEF f
    <2> QED
      BY <1>1, <1>3, <2>1, <2>2, <2>3, DamagedByte, Zenon
  <1>6. Disturbed' = Disturbed
    BY <1>1 DEF Disturbed
  <1> QED
    BY <1>1, <1>2, <1>4, <1>5, <1>6, Zenon DEF Phase

LEMMA Joined ==
    ASSUME NEW x \in Byte, NEW y \in Byte
    PROVE  x * 256 + y \in Word
  <1>1. x \in Nat /\ x <= 255 /\ y \in Nat /\ y <= 255
    BY DEF Byte
  <1>2. x * 256 + y \in Nat /\ x * 256 + y < 65536
    BY <1>1
  <1> QED
    BY <1>2 DEF Word

LEMMA ReadTyped ==
    ASSUME FrameTypeOK, Phase, ReadByte
    PROVE  FrameTypeOK'
  <1>1. /\ line' \in Seq(Byte) /\ rx' \in Receiver /\ ~rx'.ready
        /\ UNCHANGED <<sent, rejected, damaged>>
        /\ UNCHANGED <<lastBsn, delivered>> \/ EndsFrame
    BY ReadCases, Zenon
  <1>2. /\ sent \in Seq(Frames) /\ rejected \in BOOLEAN /\ damaged \in Nat /\ damaged <= Len(sent)
        /\ lastBsn \in Word /\ delivered \in Seq(Deliveries) /\ rx \in Receiver
    BY Types, Zenon
  <1>3. Len(sent) \in Nat \ {0}
    BY <1>2, LenProperties, EmptySeq DEF Phase, ReadByte
  <1>4. rx.frame \in [0 .. RxMax - 1 -> Byte] /\ rx.len \in Nat
    BY <1>2 DEF Receiver
  <1>5. RxMax \in Nat /\ RxMax >= 3
    BY BufferAssumption
  <1>6. lastBsn' \in Word
    <2>1. rx.frame[1] \in Byte /\ rx.frame[2] \in Byte
      BY <1>4, <1>5
    <2>3. lastBsn' = lastBsn \/ lastBsn' = rx.frame[2] * 256 + rx.frame[1]
      BY <1>1, Zenon DEF EndsFrame
    <2> QED
      BY <1>2, <2>1, <2>3, Joined, Zenon
  <1>7. delivered' \in Seq(Deliveries)
    <2> DEFINE got == [i \in 1 .. rx.len - 1 |-> rx.frame[i]]
               d   == [frame |-> Len(sent), len |-> rx.len, data |-> got]
    <2>1. CASE EndsFrame /\ rx.len <= RxMax /\ delivered' = Append(delivered, d)
      <3>1. rx.len \in Nat \ {0}
        BY <1>4, <2>1 DEF EndsFrame
      <3>2. \A i \in 1 .. rx.len - 1 : rx.frame[i] \in Byte
        BY <1>4, <1>5, <2>1, <3>1
      <3>3. got \in Seq(Byte)
        BY <3>1, <3>2
      <3> HIDE DEF got
      <3>4. d \in Deliveries
        BY <1>3, <3>1, <3>3 DEF Deliveries
      <3> HIDE DEF d
      <3> QED
        BY <1>2, <2>1, <3>4, AppendProperties
    <2>2. delivered' = delivered \/ (EndsFrame /\ rx.len <= RxMax /\ delivered' = Append(delivered, d))
      BY <1>1, Zenon DEF EndsFrame
    <2> QED
      BY <1>2, <2>1, <2>2, Zenon
  <1> QED
    BY <1>1, <1>2, <1>6, <1>7, TypesNext, Zenon

LEMMA SendSized ==
    ASSUME FrameTypeOK, Sized, SendsFrame
    PROVE  Sized'
  <1>1. PICK f \in Frames : sent' = Append(sent, f) /\ (f.kind = "bsn" => Len(f.data) = 2)
    BY Zenon DEF SendsFrame
  <1>2. sent \in Seq(Frames)
    BY Types
  <1>3. /\ DOMAIN sent' = 1 .. Len(sent) + 1 /\ Len(sent) \in Nat
        /\ DOMAIN sent = 1 .. Len(sent)
        /\ sent'[Len(sent) + 1] = f
        /\ \A j \in 1 .. Len(sent) : sent'[j] = sent[j]
    BY <1>1, <1>2, AppendProperties, LenProperties
  <1>4. SUFFICES ASSUME NEW j \in DOMAIN sent', sent'[j].kind = "bsn"
                 PROVE  Len(sent'[j].data) = 2
    BY DEF Sized
  <1>5. CASE j = Len(sent) + 1
    BY <1>1, <1>3, <1>4, <1>5
  <1>6. CASE j # Len(sent) + 1
    <2>1. j \in DOMAIN sent /\ sent'[j] = sent[j]
      BY <1>3, <1>4, <1>6
    <2> QED
      BY <1>4, <2>1 DEF Sized
  <1> QED
    BY <1>5, <1>6

-----------------------------------------------------------------------------
(* What is delivered.                                                      *)

Kept(j) == sent'[j] = sent[j]

\* A step that delivers nothing and makes nothing due.
LEMMA NothingDue ==
    ASSUME FrameTypeOK, Delivery, Len(sent) \in Nat, Len(sent') \in Nat, Len(sent) <= Len(sent'),
           \A j \in 1 .. Len(sent) : Kept(j),
           delivered' = delivered, Due' = Due, Disturbed \subseteq Disturbed'
    PROVE  Delivery'
  <1>1. ASSUME NEW i \in DOMAIN delivered
        PROVE  /\ delivered[i].frame \in 1 .. Len(sent')
               /\ delivered[i].frame \notin Disturbed' =>
                     delivered[i].frame \in Due /\ delivered[i] = Given(delivered[i].frame)'
    <2> DEFINE n == delivered[i].frame
    <2>1. n \in 1 .. Len(sent)
      BY DEF Delivery
    <2>2. n \in 1 .. Len(sent')
      BY <2>1
    <2>3. n \notin Disturbed' => n \in Due /\ delivered[i] = Given(n)
      BY Zenon DEF Delivery
    <2>4. [frame |-> n, len |-> Len(sent'[n].data) + 1, data |-> sent'[n].data] = Given(n)
      BY <2>1 DEF Given, Kept
    <2>5. Given(n)' = [frame |-> n, len |-> Len(sent'[n].data) + 1, data |-> sent'[n].data]
      BY DEF Given
    <2> QED
      BY <2>2, <2>3, <2>4, <2>5, Zenon
  <1>2. \A i, j \in DOMAIN delivered : i < j =>
           /\ delivered[i].frame <= delivered[j].frame
           /\ delivered[i].frame \notin Disturbed' => delivered[i].frame < delivered[j].frame
    BY Zenon DEF Delivery
  <1>3. \A j \in Due : \E i \in DOMAIN delivered : delivered[i].frame = j
    BY Zenon DEF Delivery
  <1> QED
    BY <1>1, <1>2, <1>3 DEF Delivery

\* A delivery of the last frame: one that is due now, or one that was disturbed.
LEMMA OneDelivered ==
    ASSUME FrameTypeOK, Delivery, Len(sent) \in Nat \ {0}, sent' = sent,
           NEW d \in Deliveries, d.frame = Len(sent), delivered' = Append(delivered, d),
           Disturbed' = Disturbed, Len(sent) \notin Seen,
           \/ Len(sent) \in Disturbed /\ Due' = Due
           \/ Len(sent) \notin Disturbed /\ Due' = Due \cup {Len(sent)} /\ d = Given(Len(sent))
    PROVE  Delivery'
  <1> DEFINE n == Len(sent)
             m == Len(delivered)
  <1>1. delivered \in Seq(Deliveries) /\ m \in Nat /\ DOMAIN delivered = 1 .. m
    BY Types, LenProperties
  <1>2. /\ DOMAIN delivered' = 1 .. m + 1
        /\ delivered'[m + 1] = d
        /\ \A i \in 1 .. m : delivered'[i] = delivered[i]
    BY <1>1, AppendProperties, LenProperties
  <1>3. \A i \in 1 .. m :
           /\ delivered[i].frame \in 1 .. n
           /\ delivered[i].frame \notin Disturbed =>
                 /\ delivered[i].frame \in Due /\ delivered[i] = Given(delivered[i].frame)
                 /\ delivered[i].frame < n
    <2>1. \A j \in Due : j # n
      BY DEF Due
    <2>2. SUFFICES ASSUME NEW i \in 1 .. m
                   PROVE  /\ delivered[i].frame \in 1 .. n
                          /\ delivered[i].frame \notin Disturbed =>
                                /\ delivered[i].frame \in Due /\ delivered[i] = Given(delivered[i].frame)
                                /\ delivered[i].frame < n
      OBVIOUS
    <2>3. /\ delivered[i].frame \in 1 .. n
          /\ delivered[i].frame \notin Disturbed =>
                delivered[i].frame \in Due /\ delivered[i] = Given(delivered[i].frame)
      BY <1>1, Zenon DEF Delivery
    <2> QED
      BY <2>1, <2>3
  <1>5. Due \subseteq Due'
    BY Zenon
  <1>6. ASSUME NEW i \in DOMAIN delivered'
        PROVE  /\ delivered'[i].frame \in 1 .. Len(sent')
               /\ delivered'[i].frame \notin Disturbed' =>
                     /\ delivered'[i].frame \in Due'
                     /\ delivered'[i] = [frame |-> delivered'[i].frame,
                                         len |-> Len(sent'[delivered'[i].frame].data) + 1,
                                         data |-> sent'[delivered'[i].frame].data]
    <2>1. CASE i = m + 1
      <3>1. delivered'[i] = d /\ d.frame = n /\ n \in 1 .. n
        BY <1>2, <2>1
      <3>2. n \notin Disturbed => n \in Due' /\ d = Given(n)
        BY Zenon
      <3> QED
        BY <3>1, <3>2, Zenon DEF Given
    <2>2. CASE i # m + 1
      <3>1. i \in 1 .. m
        BY <1>1, <1>2, <2>2
      <3> QED
        BY <1>2, <1>3, <1>5, <3>1, Zenon DEF Given
    <2> QED
      BY <2>1, <2>2
  <1>7. ASSUME NEW i \in DOMAIN delivered', NEW j \in DOMAIN delivered', i < j
        PROVE  /\ delivered'[i].frame <= delivered'[j].frame
               /\ delivered'[i].frame \notin Disturbed' => delivered'[i].frame < delivered'[j].frame
    <2>1. i \in 1 .. m /\ j \in 1 .. m + 1
      BY <1>1, <1>2, <1>7
    <2>2. CASE j = m + 1
      <3>1. delivered'[i] = delivered[i] /\ delivered'[j].frame = n
        BY <1>2, <2>1, <2>2
      <3> QED
        BY <1>3, <2>1, <3>1
    <2>3. CASE j # m + 1
      <3>1. j \in 1 .. m
        BY <1>1, <2>1, <2>3
      <3> QED
        BY <1>1, <1>2, <1>7, <2>1, <3>1, Zenon DEF Delivery
    <2> QED
      BY <2>2, <2>3
  <1>8. ASSUME NEW j \in Due'
        PROVE  \E i \in DOMAIN delivered' : delivered'[i].frame = j
    <2>1. CASE j = n
      <3>1. m + 1 \in DOMAIN delivered'
        BY <1>1, <1>2
      <3> QED
        BY <1>2, <2>1, <3>1
    <2>2. CASE j # n
      <3>1. j \in Due
        BY <1>8, <2>2
      <3>2. PICK i \in 1 .. m : delivered[i].frame = j
        BY <1>1, <3>1, Zenon DEF Delivery
      <3>3. i \in DOMAIN delivered'
        BY <1>1, <1>2
      <3> QED
        BY <1>2, <3>2, <3>3
    <2> QED
      BY <2>1, <2>2
  <1> HIDE DEF n, m
  <1> QED
    BY <1>6, <1>7, <1>8, Zenon DEF Delivery, Given

LEMMA SendKeeps ==
    ASSUME FrameTypeOK, SendsFrame
    PROVE  /\ Len(sent) \in Nat /\ Len(sent') = Len(sent) + 1
           /\ \A j \in 1 .. Len(sent) : Kept(j)
           /\ Seen' = Seen /\ Seen = 1 .. Len(sent) /\ Disturbed' = Disturbed /\ Due' = Due
           /\ damaged' = damaged /\ lastBsn' = lastBsn /\ delivered' = delivered
  <1>1. PICK f \in Frames :
            /\ line = <<>> /\ line' = Encoded(ProtocolOf(f.kind), f.data)
            /\ sent' = Append(sent, f)
            /\ UNCHANGED <<damaged, lastBsn, delivered>>
    BY Zenon DEF SendsFrame
  <1>2. sent \in Seq(Frames)
    BY Types
  <1>3. /\ Len(sent) \in Nat /\ Len(sent') = Len(sent) + 1
        /\ \A j \in 1 .. Len(sent) : sent'[j] = sent[j]
    BY <1>1, <1>2, AppendProperties, LenProperties
  <1>4. line' # <<>>
    <2>1. f.data \in Seq(Byte) /\ ProtocolOf(f.kind) \in {PROTOCOL_CONTROL, PROTOCOL_SHTP}
      BY DEF Frames, ProtocolOf
    <2> QED
      BY <1>1, <2>1, EncodedBytes
  <1>5. Seen' = Seen /\ Seen = 1 .. Len(sent)
    <2>1. Len(sent') - 1 = Len(sent)
      BY <1>3
    <2>2. Seen = 1 .. Len(sent)
      BY <1>1, Zenon DEF Seen
    <2>3. Seen' = 1 .. Len(sent') - 1
      BY <1>4, Zenon DEF Seen
    <2> QED
      BY <2>1, <2>2, <2>3, Zenon
  <1>6. Disturbed' = Disturbed
    BY <1>1 DEF Disturbed
  <1>7. Due' = Due
    <2>1. Due' = {j \in Seen' \ Disturbed' : sent'[j].kind = "shtp" /\ FitsBuffers(sent'[j].data)}
      BY DEF Due, FitsBuffers
    <2>2. Due = {j \in Seen \ Disturbed : sent[j].kind = "shtp" /\ FitsBuffers(sent[j].data)}
      BY DEF Due
    <2>3. \A j \in Seen \ Disturbed : sent'[j] = sent[j]
      BY <1>3, <1>5
    <2> QED
      BY <1>5, <1>6, <2>1, <2>2, <2>3
  <1> QED
    BY <1>1, <1>3, <1>5, <1>6, <1>7 DEF Kept

LEMMA SendDelivery ==
    ASSUME FrameTypeOK, Delivery, BsnExact, SendsFrame
    PROVE  Delivery' /\ BsnExact'
  <1>1. Delivery'
    <2>1. Len(sent') \in Nat /\ Len(sent) <= Len(sent') /\ Disturbed \subseteq Disturbed'
      BY SendKeeps
    <2> QED
      BY <2>1, SendKeeps, NothingDue
  <1>2. \A j \in Seen : sent'[j] = sent[j]
    BY SendKeeps DEF Kept
  <1>3. Seen' = Seen /\ damaged' = damaged /\ lastBsn' = lastBsn
    BY SendKeeps
  <1>4. BsnExact'
    BY <1>2, <1>3 DEF BsnExact
  <1> QED
    BY <1>1, <1>4

LEMMA DisturbDelivery ==
    ASSUME FrameTypeOK, Delivery, Disturb
    PROVE  Delivery' /\ BsnExact'
  <1>1. /\ damaged = 0 /\ line # <<>> /\ damaged' = Len(sent)
        /\ UNCHANGED <<sent, delivered>>
    BY DEF Disturb
  <1>2. Len(sent) \in Nat
    BY Types, LenProperties
  <1>3. /\ Disturbed = {} /\ Seen = 1 .. Len(sent) - 1
        /\ Seen' \subseteq 1 .. Len(sent) /\ 1 .. Len(sent) - 1 \subseteq Seen'
    BY <1>1, <1>2 DEF Disturbed, Seen
  <1>4. Seen' \ Disturbed' = Seen \ Disturbed
    <2>1. Disturbed' = IF Len(sent) = 0 THEN {} ELSE {Len(sent), Len(sent) + 1}
      BY <1>1 DEF Disturbed
    <2>2. \A j : j \in Seen' \ Disturbed' <=> j \in Seen \ Disturbed
      <3>1. SUFFICES ASSUME NEW j
                     PROVE  j \in Seen' \ Disturbed' <=> j \in Seen \ Disturbed
        OBVIOUS
      <3>2. j \in Seen' => j \in 1 .. Len(sent)
        BY <1>3
      <3>3. j \in 1 .. Len(sent) - 1 => j \in Seen'
        BY <1>3
      <3>4. j \in Seen <=> j \in 1 .. Len(sent) - 1
        BY <1>3
      <3> QED
        BY <1>2, <1>3, <2>1, <3>2, <3>3, <3>4
    <2> QED
      BY <2>2
  <1>5. Due' = Due
    BY <1>1, <1>4 DEF Due, FitsBuffers
  <1>6. Delivery'
    BY <1>1, <1>2, <1>3, <1>5, NothingDue DEF Kept
  <1>7. BsnExact'
    <2>1. SUFFICES ASSUME NEW j \in Seen', damaged' = 0 \/ j > damaged' + 1
                   PROVE  FALSE
      BY Zenon DEF BsnExact
    <2>2. j \in 1 .. Len(sent)
      BY <1>3
    <2> QED
      BY <1>1, <1>2, <2>1, <2>2
  <1> QED
    BY <1>6, <1>7

LEMMA ReadSets ==
    ASSUME FrameTypeOK, Phase, ReadByte
    PROVE  /\ Len(sent) \in Nat \ {0} /\ sent' = sent /\ damaged' = damaged /\ Disturbed' = Disturbed
           /\ Seen = 1 .. Len(sent) - 1
           /\ Seen' = IF line' = <<>> THEN 1 .. Len(sent) ELSE Seen
           /\ Due' = IF /\ line' = <<>> /\ Len(sent) \notin Disturbed
                        /\ sent[Len(sent)].kind = "shtp" /\ FitsBuffers(sent[Len(sent)].data)
                     THEN Due \cup {Len(sent)} ELSE Due
  <1>1. sent' = sent /\ damaged' = damaged /\ line # <<>>
    BY DEF ReadByte
  <1>2. Len(sent) \in Nat \ {0}
    <2>1. sent \in Seq(Frames)
      BY Types
    <2> QED
      BY <1>1, <2>1, LenProperties, EmptySeq DEF Phase
  <1>3. Disturbed' = Disturbed
    BY <1>1 DEF Disturbed
  <1>4. Seen = 1 .. Len(sent) - 1 /\ Seen' = IF line' = <<>> THEN 1 .. Len(sent) ELSE Seen
    BY <1>1 DEF Seen
  <1> DEFINE Wanted(j) == sent[j].kind = "shtp" /\ FitsBuffers(sent[j].data)
             n == Len(sent)
  <1>5. Due = {j \in Seen \ Disturbed : Wanted(j)} /\ Due' = {j \in Seen' \ Disturbed : Wanted(j)}
    BY <1>1, <1>3 DEF Due, FitsBuffers
  <1>6. Due' = IF line' = <<>> /\ n \notin Disturbed /\ Wanted(n) THEN Due \cup {n} ELSE Due
    <2> HIDE DEF Wanted
    <2>1. CASE line' = <<>>
      <3>1. \A j : j \in Seen' <=> j \in Seen \/ j = n
        BY <1>2, <1>4, <2>1
      <3> QED
        BY <1>5, <2>1, <3>1
    <2>2. CASE line' # <<>>
      BY <1>4, <1>5, <2>2
    <2> QED
      BY <2>1, <2>2
  <1> QED
    BY <1>1, <1>2, <1>3, <1>4, <1>6, Zenon

LEMMA ReadDelivery ==
    ASSUME FrameInv, ReadByte
    PROVE  Delivery' /\ BsnExact'
  <1> DEFINE n == Len(sent)
             f == sent[n]
  <1>0. FrameTypeOK /\ Sized /\ Phase /\ Delivery /\ BsnExact
    BY DEF FrameInv
  <1>1. /\ n \in Nat \ {0} /\ sent' = sent /\ damaged' = damaged /\ Disturbed' = Disturbed
        /\ Seen = 1 .. n - 1
        /\ Seen' = IF line' = <<>> THEN 1 .. n ELSE Seen
        /\ Due' = IF /\ line' = <<>> /\ n \notin Disturbed
                     /\ f.kind = "shtp" /\ FitsBuffers(f.data)
                  THEN Due \cup {n} ELSE Due
    BY <1>0, ReadSets, Zenon
  <1>2. n \notin Seen /\ \A j \in 1 .. n : Kept(j)
    BY <1>1 DEF Kept
  <1>3. damaged \in Nat /\ damaged <= n /\ sent \in Seq(Frames) /\ delivered \in Seq(Deliveries)
    BY <1>0, Types
  <1>4. delivered' \in Seq(Deliveries)
    <2>1. FrameTypeOK'
      BY <1>0, ReadTyped
    <2> QED
      BY <2>1, Zenon DEF FrameTypeOK, Deliveries
  <1>5. f \in Frames /\ (f.kind = "bsn" => Len(f.data) = 2)
    <2>1. n \in DOMAIN sent /\ f \in Frames
      BY <1>1, <1>3
    <2> QED
      BY <1>0, <2>1 DEF Sized
  <1>6. CASE n \in Disturbed
    <2>1. Due' = Due
      BY <1>1, <1>6, Zenon
    <2>2. Delivery'
      <3>1. CASE delivered' = delivered
        BY <1>0, <1>1, <1>2, <2>1, <3>1, NothingDue
      <3>2. CASE delivered' # delivered
        <4>1. PICK d : delivered' = Append(delivered, d) /\ d.frame = n
          <5>1. \E got : delivered' = Append(delivered, [frame |-> n, len |-> rx.len, data |-> got])
            BY <1>0, <3>2, ReadCases, Zenon DEF EndsFrame
          <5>2. PICK got : delivered' = Append(delivered, [frame |-> n, len |-> rx.len, data |-> got])
            BY <5>1, Zenon
          <5> QED
            BY <5>2
        <4>2. d \in Deliveries
          <5>1. d = delivered'[Len(delivered) + 1] /\ Len(delivered) + 1 \in 1 .. Len(delivered')
            BY <1>3, <4>1, AppendProperties, LenProperties
          <5> QED
            BY <1>4, <5>1
        <4> QED
          BY <1>0, <1>1, <1>2, <1>6, <2>1, <4>1, <4>2, OneDelivered
      <3> QED
        BY <3>1, <3>2
    <2>3. BsnExact'
      <3>1. SUFFICES ASSUME NEW j \in Seen', damaged' = 0 \/ j > damaged' + 1
                     PROVE  FALSE
        BY Zenon DEF BsnExact
      <3>2. damaged # 0 /\ n <= damaged + 1
        BY <1>1, <1>3, <1>6 DEF Disturbed
      <3>3. j \in 1 .. n
        BY <1>1, <3>1
      <3> QED
        BY <1>1, <1>3, <3>1, <3>2, <3>3
    <2> QED
      BY <2>2, <2>3
  <1>7. CASE n \notin Disturbed /\ line' # <<>>
    <2>1. UNCHANGED <<lastBsn, delivered>>
      BY <1>0, <1>1, <1>5, <1>7, CleanRead DEF Phase
    <2>2. Due' = Due /\ Seen' = Seen
      BY <1>1, <1>7
    <2>3. Delivery'
      BY <1>0, <1>1, <1>2, <2>1, <2>2, NothingDue
    <2>4. BsnExact'
      BY <1>0, <1>1, <2>1, <2>2 DEF BsnExact
    <2> QED
      BY <2>3, <2>4
  <1>8. CASE n \notin Disturbed /\ line' = <<>>
    <2>1. Outcome(f)
      <3>1. InFrame(line, rx, f)
        BY <1>0, <1>1, <1>8 DEF Phase
      <3> HIDE DEF f
      <3> QED
        BY <1>0, <1>5, <1>8, <3>1, CleanRead, Zenon
    <2>2. Seen' = 1 .. n
      BY <1>1, <1>8
    <2>3. CASE f.kind = "bsn"
      <3>1. lastBsn' = f.data[1] + 256 * f.data[2] /\ delivered' = delivered
        BY <2>1, <2>3 DEF Outcome
      <3>2. Due' = Due
        BY <1>1, <2>3
      <3>3. Delivery'
        BY <1>0, <1>1, <1>2, <3>1, <3>2, NothingDue
      <3>4. BsnExact'
        <4>1. SUFFICES ASSUME NEW j \in Seen', \A k \in Seen' : sent'[k].kind = "bsn" => k <= j
                       PROVE  lastBsn' = sent'[j].data[1] + 256 * sent'[j].data[2]
          BY Zenon DEF BsnExact
        <4>2. n \in Seen' /\ sent'[n].kind = "bsn"
          BY <1>1, <2>2, <2>3
        <4>3. j = n
          BY <1>1, <2>2, <4>1, <4>2
        <4> QED
          BY <1>1, <3>1, <4>3
      <3> QED
        BY <3>3, <3>4
    <2>4. CASE f.kind = "shtp"
      <3>1. BsnExact'
        <4>1. lastBsn' = lastBsn
          BY <2>1, <2>4 DEF Outcome
        <4>2. {j \in Seen' : sent'[j].kind = "bsn"} = {j \in Seen : sent[j].kind = "bsn"}
          <5>1. \A j : j \in Seen' <=> j \in Seen \/ j = n
            BY <1>1, <2>2
          <5> QED
            BY <1>1, <2>4, <5>1
        <4>3. SUFFICES ASSUME NEW j \in Seen', sent'[j].kind = "bsn",
                              \A k \in Seen' : sent'[k].kind = "bsn" => k <= j,
                              damaged' = 0 \/ j > damaged' + 1
                       PROVE  lastBsn' = sent'[j].data[1] + 256 * sent'[j].data[2]
          BY Zenon DEF BsnExact
        <4>4. /\ j \in {i \in Seen : sent[i].kind = "bsn"}
              /\ \A k \in {i \in Seen : sent[i].kind = "bsn"} : k <= j
          BY <4>2, <4>3
        <4>5. damaged = 0 \/ j > damaged + 1
          BY <1>1, <4>3
        <4>6. lastBsn = sent[j].data[1] + 256 * sent[j].data[2]
          BY <1>0, <4>4, <4>5, Zenon DEF BsnExact
        <4> QED
          BY <1>1, <4>1, <4>6
      <3>2. CASE FitsBuffers(f.data)
        <4>1. Due' = Due \cup {n}
          BY <1>1, <1>8, <2>4, <3>2
        <4>2. delivered' = Append(delivered, Given(n))
          BY <2>1, <2>4, <3>2 DEF Outcome, Given
        <4>3. Given(n) \in Deliveries /\ Given(n).frame = n
          <5>1. f.data \in Seq(Byte) /\ Len(f.data) \in Nat
            BY <1>5, LenProperties DEF Frames
          <5> QED
            BY <1>1, <5>1 DEF Given, Deliveries
        <4>4. Delivery'
          BY <1>0, <1>1, <1>2, <1>8, <4>1, <4>2, <4>3, OneDelivered
        <4> QED
          BY <3>1, <4>4
      <3>3. CASE ~FitsBuffers(f.data)
        <4>1. Due' = Due
          BY <1>1, <3>3
        <4>2. delivered' = delivered
          BY <2>1, <2>4, <3>3 DEF Outcome
        <4>3. Delivery'
          BY <1>0, <1>1, <1>2, <4>1, <4>2, NothingDue
        <4> QED
          BY <3>1, <4>3
      <3> QED
        BY <3>2, <3>3
    <2> QED
      BY <1>5, <2>3, <2>4 DEF Frames
  <1> QED
    BY <1>6, <1>7, <1>8

-----------------------------------------------------------------------------
(* The theorems.                                                           *)

LEMMA FrameInitInv == FrameInit => FrameInv
  <1> SUFFICES ASSUME FrameInit PROVE FrameInv
    OBVIOUS
  <1>1. FrameTypeOK
    <2>1. /\ sent \in Seq(Frames) /\ line \in Seq(Byte) /\ delivered \in Seq(Deliveries)
          /\ damaged \in Nat /\ damaged <= Len(sent) /\ rejected \in BOOLEAN /\ lastBsn \in Word
      <3>1. sent = <<>> /\ line = <<>> /\ delivered = <<>> /\ damaged = 0 /\ lastBsn = 0
        BY DEF FrameInit
      <3>5. rejected \in BOOLEAN
        BY Zenon DEF FrameInit
      <3>2. Len(sent) = 0 /\ 0 \in Word
        BY <3>1 DEF Word
      <3>3. \A S : <<>> \in Seq(S)
        BY EmptySeq, Zenon
      <3>4. damaged \in Nat /\ damaged <= Len(sent)
        BY <3>1, <3>2
      <3> QED
        BY <3>1, <3>2, <3>3, <3>4, <3>5, Zenon
    <2>2. rx \in Receiver /\ ~rx.ready
      <3> DEFINE zeroes == [i \in 0 .. RxMax - 1 |-> 0]
      <3>1. zeroes \in [0 .. RxMax - 1 -> Byte]
        BY DEF Byte
      <3>2. rx = [state |-> "OUTSIDE_FRAME", len |-> 0, ready |-> FALSE, frame |-> zeroes]
        BY DEF FrameInit
      <3> HIDE DEF zeroes
      <3> QED
        BY <3>1, <3>2 DEF Receiver
    <2> QED
      BY <2>1, <2>2, Types, Zenon
  <1>2. Sized /\ Delivery /\ BsnExact
    BY DEF FrameInit, Sized, Delivery, BsnExact, Due, Seen
  <1>3. Phase
    BY DEF FrameInit, Phase
  <1> QED
    BY <1>1, <1>2, <1>3 DEF FrameInv

LEMMA FrameStep == FrameInv /\ [FrameNext]_frameVars => FrameInv'
  <1> SUFFICES ASSUME FrameInv, [FrameNext]_frameVars PROVE FrameInv'
    OBVIOUS
  <1>0. FrameTypeOK /\ Sized /\ Phase /\ Delivery /\ BsnExact
    BY DEF FrameInv
  <1>1. CASE SendsFrame /\ rejected' \in BOOLEAN
    BY <1>0, <1>1, SendTyped, SendSized, SendPhase, SendDelivery DEF FrameInv
  <1>2. CASE /\ UNCHANGED <<sent, line, damaged, rx, lastBsn, delivered>>
             /\ rejected' \in BOOLEAN
    <2>1. FrameTypeOK'
      BY <1>0, <1>2, Types, TypesNext
    <2>2. Sized' /\ Phase' /\ BsnExact'
      BY <1>0, <1>2 DEF Sized, Phase, Disturbed, BsnExact, Seen
    <2>3. Delivery'
      BY <1>0, <1>2 DEF Delivery, Due, Seen, Disturbed, Given, FitsBuffers
    <2> QED
      BY <2>1, <2>2, <2>3 DEF FrameInv
  <1>3. CASE WriteTransfer \/ SendBsn
    BY <1>0, <1>1, <1>2, <1>3, SendersSend, Types, Zenon
  <1>4. CASE Disturb
    <2>1. Sized'
      BY <1>0, <1>4 DEF Sized, Disturb
    <2> QED
      BY <1>0, <1>4, <2>1, DisturbTyped, DisturbPhase, DisturbDelivery DEF FrameInv
  <1>5. CASE ReadByte
    <2>1. Sized'
      BY <1>0, <1>5 DEF Sized, ReadByte
    <2> QED
      BY <1>0, <1>5, <2>1, ReadTyped, ReadPhase, ReadDelivery DEF FrameInv
  <1>6. CASE UNCHANGED frameVars
    <2>1. rejected \in BOOLEAN
      BY <1>0, Types, Zenon
    <2> QED
      BY <1>2, <1>6, <2>1 DEF frameVars
  <1> QED
    BY <1>3, <1>4, <1>5, <1>6 DEF FrameNext, Finished

THEOREM FrameInvariant == FrameSpec => []FrameInv
  BY FrameInitInv, FrameStep, PTL DEF FrameSpec

\* Nothing is stored behind the end of the receiver's buffer, and what it holds and
\* hands over are bytes (rfc1662_decode, ftdi_hal_read).
THEOREM FramesTyped == FrameSpec => []FrameTypeOK
  <1>1. FrameInv => FrameTypeOK
    BY DEF FrameInv
  <1> QED
    BY <1>1, FrameInvariant, PTL

LEMMA Received == Delivery => DeliveredExactly
  <1> SUFFICES ASSUME Delivery PROVE DeliveredExactly
    OBVIOUS
  <1> DEFINE clean == {i \in DOMAIN delivered : delivered[i].frame \notin Disturbed}
  <1>1. \A i \in clean : delivered[i].frame \in Due /\ delivered[i] = Given(delivered[i].frame)
    BY Zenon DEF Delivery
  <1>2. \A j \in Due : j \notin Disturbed /\ \E i \in DOMAIN delivered : delivered[i].frame = j
    BY DEF Delivery, Due
  <1>3. {delivered[i].frame : i \in clean} = Due
    BY <1>1, <1>2
  <1>4. \A i, j \in clean : i < j => delivered[i].frame < delivered[j].frame
    BY Zenon DEF Delivery
  <1>5. ASSUME NEW i \in clean
        PROVE  LET data == sent[delivered[i].frame].data
               IN  delivered[i].data = data /\ delivered[i].len = Len(data) + 1
    BY <1>1 DEF Given
  <1> QED
    BY <1>3, <1>4, <1>5 DEF DeliveredExactly

\* Both kinds of frames come through as they were sent, whatever bytes they are made
\* of; a damaged byte costs its frame and the next one at most.
THEOREM Reception == FrameSpec => []ReceivedAsSent
  <1>1. FrameInv => ReceivedAsSent
    BY Received DEF FrameInv, ReceivedAsSent
  <1> QED
    BY <1>1, FrameInvariant, PTL

\* Between two frames the receiver is outside a frame, at the latest two frames after
\* a disturbance.
THEOREM Synchronised == FrameSpec => []InPhase
  <1>1. FrameInv => InPhase
    BY Between DEF FrameInv, InPhase
  <1> QED
    BY <1>1, FrameInvariant, PTL
=============================================================================
