------------------------ MODULE LoggerSessionProofs ------------------------
(***************************************************************************)
(* Proofs about logging sessions, for every set of sensors, every input of *)
(* wheel data, any clocks, and SIGINT, callbacks and restarts of the hub   *)
(* at any time.                                                            *)
(*                                                                         *)
(* First what the session has opened and closed at each place, which is    *)
(* what makes callbacks safe and an end clean.  Then the way of a line     *)
(* from the input through the reader and its queue into a report.  The     *)
(* parts of all lines have their places one after the other; what is in    *)
(* the queue lies without a gap before what is read next, and every good   *)
(* line between it and the last report was cut in two.                     *)
(***************************************************************************)
EXTENDS LoggerSession, SequenceTheorems, TLAPS

Items == [line: 1 .. Len(script), part: Parts]

-----------------------------------------------------------------------------
(* Types.                                                                  *)

\* Times of the hub's clock are numbers of 32 bits.
LEMMA ClockTimes ==
    ASSUME NEW t \in Int
    PROVE  /\ hubOrigin \in Int => HubClock(t) \in HubTimes
           /\ t % HubTimeMod \in HubTimes
  <1>1. HubTimeMod \in Nat \ {0} /\ (hubOrigin \in Int => HubStart + (t - hubOrigin) \in Int)
    BY WheelAssumption
  <1>2. \A a \in Int : a % HubTimeMod \in HubTimes
    BY <1>1 DEF HubTimes
  <1> QED
    BY <1>1, <1>2 DEF HubClock

\* A session changes the wheel source by these steps.
WheelStep ==
    \/ WriteLine \/ EndInput \/ Tick
    \/ ReaderTests \/ ReaderReads \/ ReaderPushes
    \/ pc = "makeWheel" /\ Construct
    \/ ServiceWheel \/ CloseInput \/ StopReader \/ Join \/ ClockRestarts
    \/ \E delay \in 0 .. MaxDelay : ReportModuleTime(HubClock(now - delay), TRUE)
    \/ \E time \in HubTimes : ReportModuleTime(time, FALSE)

\* The types of what a wheel step may change.
WheelTypes ==
    /\ WheelTypeOK
    /\ [kind |-> kind, script |-> script] \in Inputs
    /\ half => written < Len(script)
    /\ reader = "push" => tmp \in Items
    /\ lastWheelSN_ \in Int

LEMMA ItemTypes ==
    ASSUME WheelTypes
    PROVE  /\ unread \in Seq(Items) /\ q_ \in Seq(Items)
           /\ script \in Seq(Line) /\ Len(script) \in Nat
           /\ \A k \in 1 .. Len(script) : script[k].sn \in Nat
           /\ kind \in {"none", "file", "stream"}
  <1>1. [kind |-> kind, script |-> script] \in Input
    BY WheelAssumption DEF WheelTypes
  <1>2. script \in Seq(Line) /\ kind \in {"none", "file", "stream"}
    BY <1>1 DEF Input
  <1>3. \A k \in 1 .. Len(script) : script[k] \in Line
    BY <1>2
  <1> QED
    BY <1>2, <1>3 DEF WheelTypes, WheelTypeOK, Items, Line

LEMMA WriterTypes == WheelTypes /\ (WriteLine \/ EndInput \/ Tick) => WheelTypes'
  <1> SUFFICES ASSUME WheelTypes, WriteLine \/ EndInput \/ Tick PROVE WheelTypes'
    OBVIOUS
  <1> USE DEF readerVars, mappingVars, ownerVars, reportVars
  <1>1. CASE WriteLine
    <2>1. /\ unread \in Seq(Items) /\ Len(script) \in Nat /\ written \in 0 .. Len(script)
          /\ written < Len(script) /\ written + 1 \in 1 .. Len(script)
      BY <1>1, ItemTypes DEF WheelTypes, WheelTypeOK, WriteLine
    <2>2. \A part \in Parts : Write(part) => unread' \in Seq(Items)
      BY <2>1 DEF Write, Items
    <2>3. unread' \in Seq(Items)
      BY <1>1, <2>2 DEF WriteLine, Parts
    <2>4. written' \in 0 .. Len(script) /\ half' \in BOOLEAN /\ (half' => written' < Len(script))
      <3>1. half \in BOOLEAN
        BY DEF WheelTypes, WheelTypeOK
      <3>2. CASE ~half /\ written' = written + 1 /\ UNCHANGED half
        <4>1. written' \in 0 .. Len(script)
          BY <2>1, <3>2
        <4>2. ~half' /\ half' \in BOOLEAN
          BY <3>1, <3>2
        <4> QED
          BY <4>1, <4>2
      <3>3. CASE half' = TRUE /\ UNCHANGED written
        BY <2>1, <3>3
      <3>4. CASE half' = FALSE /\ written' = written + 1
        <4>1. written' \in 0 .. Len(script)
          BY <2>1, <3>4
        <4> QED
          BY <3>4, <4>1
      <3>5. UNCHANGED script
        BY <1>1 DEF WriteLine
      <3> QED
        BY <1>1, <2>1, <3>1, <3>2, <3>3, <3>4, <3>5 DEF WriteLine
    <2>5. UNCHANGED <<kind, script, now, reader, tmp, q_, running_, ready_, inputOpen, hubTime_,
                      lastHub_, lastHost_, hubOrigin, mapped, wheel, lastWheelSN_>>
      BY <1>1 DEF WriteLine
    <2> QED
      BY <2>3, <2>4, <2>5 DEF WheelTypes, WheelTypeOK, Items, HubTimes
  <1>2. CASE EndInput
    <2>1. UNCHANGED <<kind, script, now, reader, tmp, q_, running_, ready_, inputOpen, hubTime_,
                      lastHub_, lastHost_, hubOrigin, mapped, wheel, lastWheelSN_, written, half,
                      unread>>
      BY <1>2 DEF EndInput
    <2> QED
      BY <2>1 DEF WheelTypes, WheelTypeOK, Items, HubTimes
  <1>3. CASE Tick
    <2>1. UNCHANGED <<kind, script, reader, tmp, q_, running_, ready_, inputOpen, hubTime_,
                      lastHub_, lastHost_, hubOrigin, mapped, wheel, lastWheelSN_, written, half,
                      unread>>
          /\ now < MaxTime /\ now' = now + 1
      BY <1>3 DEF Tick
    <2>2. now' \in 0 .. MaxTime /\ lastHost_' \in 0 .. now' /\ hubOrigin' \in 0 .. now'
      BY <2>1, WheelAssumption DEF WheelTypes, WheelTypeOK
    <2> QED
      BY <2>1, <2>2 DEF WheelTypes, WheelTypeOK, Items, HubTimes
  <1> QED
    BY <1>1, <1>2, <1>3

\* What getline() makes of the input.
LEMMA HeadTypes ==
    ASSUME WheelTypes, unread # <<>>
    PROVE  /\ Head(unread) \in Items /\ FullLine \in Items
           /\ Head(unread) = unread[1] /\ Len(unread) \in Nat \ {0}
           /\ Tail(unread) \in Seq(Items)
           /\ FullLine.line = unread[1].line
           /\ FullLine.part = IF unread[1].part = "front" THEN "whole" ELSE unread[1].part
  <1>1. unread \in Seq(Items) /\ Head(unread) \in Items /\ Head(unread) = unread[1]
        /\ Len(unread) \in Nat \ {0} /\ Tail(unread) \in Seq(Items)
    BY ItemTypes
  <1>2. [Head(unread) EXCEPT !.part = "whole"] \in Items
        /\ [Head(unread) EXCEPT !.part = "whole"].line = unread[1].line
        /\ [Head(unread) EXCEPT !.part = "whole"].part = "whole"
    BY <1>1 DEF Items, Parts
  <1> QED
    BY <1>1, <1>2 DEF FullLine, HeadIsFront

LEMMA ReaderTypes == WheelTypes /\ Reader => WheelTypes'
  <1> SUFFICES ASSUME WheelTypes, Reader PROVE WheelTypes'
    OBVIOUS
  <1> USE DEF inputVars, mappingVars, ownerVars, reportVars
  <1>1. CASE ReaderTests
    <2>1. UNCHANGED <<kind, script, written, half, unread, now, tmp, q_, running_, ready_,
                      inputOpen, hubTime_, lastHub_, lastHost_, hubOrigin, mapped, wheel,
                      lastWheelSN_>>
          /\ reader' \in {"read", "gone"}
      BY <1>1 DEF ReaderTests
    <2> QED
      BY <2>1 DEF WheelTypes, WheelTypeOK, Items, HubTimes
  <1>2. CASE ReaderReads
    <2>1. UNCHANGED <<kind, script, written, half, now, q_, running_, ready_,
                      inputOpen, hubTime_, lastHub_, lastHost_, hubOrigin, mapped, wheel,
                      lastWheelSN_>>
      BY <1>2 DEF ReaderReads
    <2>2. ASSUME NEW item, Got(item), item = NoLine \/ item \in Items
          PROVE  reader' \in {"test", "push"} /\ (reader' = "push" => tmp' \in Items)
      BY <2>2 DEF Got, Blank
    <2>3. unread' \in Seq(Items) /\ reader' \in {"test", "push"}
          /\ (reader' = "push" => tmp' \in Items)
      <3>1. unread \in Seq(Items)
        BY ItemTypes
      <3>2. CASE EndOfLine /\ Got(FullLine) /\ unread' = SubSeq(unread, Lines + 1, Len(unread))
        <4>1. unread # <<>>
          BY <3>2 DEF EndOfLine
        <4>2. Lines + 1 \in 1 .. Len(unread) + 1
          BY <3>2, <4>1, HeadTypes DEF EndOfLine, Lines
        <4>3. SubSeq(unread, Lines + 1, Len(unread)) \in Seq(Items)
          BY <3>1, <4>2
        <4> QED
          BY <2>2, <3>2, <4>1, <4>3, HeadTypes
      <3>3. CASE Got(IF unread = <<>> THEN NoLine ELSE Head(unread)) /\ unread' = <<>>
        <4>1. <<>> \in Seq(Items)
          OBVIOUS
        <4> QED
          BY <2>2, <3>3, <4>1, HeadTypes
      <3>4. CASE Got(NoLine) /\ UNCHANGED unread
        BY <2>2, <3>1, <3>4
      <3> QED
        BY <1>2, <3>2, <3>3, <3>4 DEF ReaderReads
    <2> QED
      BY <2>1, <2>3 DEF WheelTypes, WheelTypeOK, Items, HubTimes
  <1>3. CASE ReaderPushes
    <2>1. UNCHANGED <<kind, script, written, half, unread, now, running_, ready_,
                      inputOpen, hubTime_, lastHub_, lastHost_, hubOrigin, mapped, wheel,
                      lastWheelSN_>>
          /\ reader = "push" /\ reader' = "test" /\ q_' = Append(q_, tmp)
      BY <1>3 DEF ReaderPushes
    <2>2. q_' \in Seq(Items)
      BY <2>1, ItemTypes DEF WheelTypes
    <2> QED
      BY <2>1, <2>2 DEF WheelTypes, WheelTypeOK, Items, HubTimes
  <1> QED
    BY <1>1, <1>2, <1>3 DEF Reader

\* What is estimated is a time, whatever the cast does.
LEMMA ServiceTypes == WheelTypes /\ ServiceWheel => WheelTypes'
  <1> SUFFICES ASSUME WheelTypes, ServiceWheel PROVE WheelTypes'
    OBVIOUS
  <1>1. UNCHANGED <<kind, script, written, half, unread, now, reader, tmp, running_, ready_,
                    inputOpen, lastHub_, lastHost_, hubOrigin, mapped, wheel>>
    BY DEF ServiceWheel, inputVars, mappingVars, ownerVars
  <1>2. CASE q_ = <<>>
    <2>1. UNCHANGED <<q_, lastWheelSN_, hubTime_>>
      BY <1>2 DEF ServiceWheel, reportVars
    <2> QED
      BY <1>1, <2>1 DEF WheelTypes, WheelTypeOK, Items, HubTimes
  <1>3. CASE q_ # <<>>
    <2>1. Head(q_) \in Items /\ Tail(q_) \in Seq(Items) /\ q_' = Tail(q_)
      BY <1>3, ItemTypes DEF ServiceWheel
    <2>2. SN(Head(q_)) \in Int
      <3>1. script[Head(q_).line].sn \in Nat
        BY <2>1, ItemTypes DEF Items
      <3> QED
        BY <3>1 DEF SN
    <2>3. EstimateHubTime \subseteq HubTimes
      <3>1. lastHub_ + (now - lastHost_) \in Int
        BY WheelAssumption DEF WheelTypes, WheelTypeOK, HubTimes
      <3> QED
        BY <3>1, ClockTimes DEF EstimateHubTime
    <2>4. lastWheelSN_' \in Int /\ hubTime_' \in HubTimes
      BY <1>3, <2>2, <2>3 DEF ServiceWheel, reportVars, WheelTypes, WheelTypeOK
    <2> QED
      BY <1>1, <2>1, <2>4 DEF WheelTypes, WheelTypeOK, Items, HubTimes
  <1> QED
    BY <1>2, <1>3

LEMMA OwnerTypes ==
    ASSUME WheelTypes,
           \/ Construct \/ CloseInput \/ StopReader \/ Join
           \/ ClockRestarts
           \/ \E delay \in 0 .. MaxDelay : ReportModuleTime(HubClock(now - delay), TRUE)
           \/ \E time \in HubTimes : ReportModuleTime(time, FALSE)
    PROVE  WheelTypes'
  <1>1. CASE Construct
    <2>1. UNCHANGED <<kind, script, written, half, unread, now, tmp, q_, running_, ready_,
                      hubTime_, lastHub_, lastHost_, hubOrigin, mapped, lastWheelSN_>>
          /\ reader' = "test" /\ wheel' = "alive" /\ inputOpen' \in BOOLEAN
      BY <1>1 DEF Construct, inputVars, mappingVars, reportVars
    <2> QED
      BY <2>1 DEF WheelTypes, WheelTypeOK, Items, HubTimes
  <1>2. CASE CloseInput \/ StopReader \/ Join
    <2>1. UNCHANGED <<kind, script, written, half, unread, now, reader, tmp, q_, ready_,
                      hubTime_, lastHub_, lastHost_, hubOrigin, mapped, lastWheelSN_>>
          /\ wheel' \in {"closed", "stopped", "deleted"}
          /\ (inputOpen' = FALSE \/ inputOpen' = inputOpen)
          /\ (running_' = FALSE \/ running_' = running_)
      BY <1>2 DEF CloseInput, StopReader, Join, inputVars, readerVars, mappingVars, reportVars
    <2> QED
      BY <2>1 DEF WheelTypes, WheelTypeOK, Items, HubTimes
  <1>3. ASSUME NEW time \in HubTimes, NEW isPresent \in BOOLEAN, ReportModuleTime(time, isPresent)
        PROVE  WheelTypes'
    <2>1. UNCHANGED <<kind, script, written, half, unread, now, reader, tmp, q_, running_,
                      inputOpen, hubTime_, hubOrigin, wheel, lastWheelSN_>>
          /\ ready_' = TRUE /\ lastHub_' = time /\ lastHost_' = now /\ mapped' = isPresent
      BY <1>3 DEF ReportModuleTime, inputVars, readerVars, ownerVars, reportVars
    <2>2. now \in Nat
      BY WheelAssumption DEF WheelTypes, WheelTypeOK
    <2>3. lastHub_' \in HubTimes /\ lastHost_' \in 0 .. now'
      BY <2>1, <2>2
    <2> QED
      BY <2>1, <2>3 DEF WheelTypes, WheelTypeOK, Items, HubTimes
  <1>4. \A delay \in 0 .. MaxDelay : HubClock(now - delay) \in HubTimes
    <2>1. \A delay \in 0 .. MaxDelay : now - delay \in Int
      BY WheelAssumption DEF WheelTypes, WheelTypeOK
    <2>2. hubOrigin \in Int
      BY DEF WheelTypes, WheelTypeOK
    <2> QED
      BY <2>1, <2>2, ClockTimes
  <1>5. CASE ClockRestarts
    <2>1. UNCHANGED <<kind, script, written, half, unread, now, reader, tmp, q_, running_, ready_,
                      inputOpen, hubTime_, lastHub_, lastHost_, wheel, lastWheelSN_>>
          /\ hubOrigin' = now /\ mapped' = FALSE
      BY <1>5 DEF ClockRestarts, inputVars, readerVars, ownerVars, reportVars
    <2>2. hubOrigin' \in 0 .. now'
      BY <2>1, WheelAssumption DEF WheelTypes, WheelTypeOK
    <2> QED
      BY <2>1, <2>2 DEF WheelTypes, WheelTypeOK, Items, HubTimes
  <1> QED
    BY <1>1, <1>2, <1>3, <1>4, <1>5

LEMMA WheelStepTypes == WheelTypes /\ WheelStep => WheelTypes'
  BY WriterTypes, ReaderTypes, ServiceTypes, OwnerTypes DEF WheelStep, Reader

LEMMA WheelUnchanged == WheelTypes /\ UNCHANGED wheelVars => WheelTypes'
  BY DEF WheelTypes, WheelTypeOK, Items, HubTimes, wheelVars, inputVars, readerVars, mappingVars,
         ownerVars, reportVars

-----------------------------------------------------------------------------
(* The session.                                                            *)

Early  == {"configure", "begin", "openLog", "makeWheel"}
Middle == Calls \cup {"openHal", "loop", "finishLog"}

\* What is open, by where do_logging is.
Opened ==
    /\ pc \in Early => wheel = "none"
    /\ pc \in Middle \cup {"makeWheel"} => logOpen
    /\ pc \in Middle => wheel = (IF kind = "none" THEN "none" ELSE "alive")
    /\ pc = "deleteWheel" => ~logOpen
    /\ pc \in {"finishLog", "deleteWheel"} => ~sessionOpen
    /\ wheel = "none" => reader = "none"
    /\ wheel = "deleted" => reader = "gone"

\* Which sensors are on at its end.
TurnedOff ==
    /\ pc = "disable" => lost \/ hubOn \subseteq todo
    /\ pc \in {"sh2_saveDcdNow", "sh2_close", "finishLog", "deleteWheel"} =>
          lost \/ hubOn = {}

Ended == exit # "none" => pc = "ended"

SessionInv == WheelTypes /\ TypeOK /\ Opened /\ TurnedOff /\ Ended /\ CleanEnd

LEMMA InitSession == Init => SessionInv
  <1> SUFFICES ASSUME Init PROVE SessionInv
    OBVIOUS
  <1>1. PICK i \in Inputs : kind = i.kind /\ script = i.script
    BY DEF Init, WheelInit
  <1>2. i \in Input /\ i = [kind |-> kind, script |-> script] /\ script \in Seq(Line)
    BY <1>1, WheelAssumption DEF Input
  <1>3. 0 \in 0 .. Len(script) /\ 0 \in 0 .. MaxTime /\ 0 \in HubTimes
    BY <1>2, WheelAssumption DEF HubTimes
  <1>4. <<>> \in Seq([line: 1 .. Len(script), part: Parts])
    OBVIOUS
  <1>5. WheelTypes
    <2>1. WheelTypeOK
      <3>1. /\ written = 0 /\ half = FALSE /\ unread = <<>> /\ now = 0
            /\ reader = "none" /\ q_ = <<>>
            /\ running_ = TRUE /\ hubTime_ = 0
            /\ ready_ = FALSE /\ lastHub_ = 0 /\ lastHost_ = 0
            /\ inputOpen = FALSE /\ wheel = "none" /\ hubOrigin = 0 /\ mapped = FALSE
        BY DEF Init, WheelInit
      <3>2. 0 \in 0 .. now
        BY <3>1
      <3> QED
        BY <1>3, <1>4, <3>1, <3>2 DEF WheelTypeOK
    <2>2. [kind |-> kind, script |-> script] \in Inputs
      BY <1>2
    <2>3. ~half /\ reader # "push" /\ lastWheelSN_ \in Int
      BY DEF Init, WheelInit
    <2> QED
      BY <2>1, <2>2, <2>3 DEF WheelTypes
  <1>6. TypeOK
    BY <1>5 DEF Init, TypeOK, WheelTypes, Calls, Checked
  <1>7. Opened /\ TurnedOff /\ Ended /\ CleanEnd
    BY DEF Init, WheelInit, Opened, TurnedOff, Ended, CleanEnd, Early, Middle, Calls, Checked
  <1> QED
    BY <1>5, <1>6, <1>7 DEF SessionInv

\* Every step changes the wheel source by one of its own, or leaves it alone.
LEMMA StepsOfTheWheel == TypeOK /\ [Next]_vars => WheelStep \/ UNCHANGED wheelVars
  <1> SUFFICES ASSUME TypeOK, [Next]_vars PROVE WheelStep \/ UNCHANGED wheelVars
    OBVIOUS
  <1>1. ASSUME Host PROVE WheelStep \/ UNCHANGED wheelVars
    BY <1>1 DEF Host, WheelStep, Configure, Begin, OpenLog, MakeWheel, OpenHal, CheckedCall,
       Clear, HubRestarts, LogFrs, Enable, InitEnds, Loop, WheelService, Service, Disable, TurnOff,
       SaveDcd, CloseSession, FinishLog, DeleteWheel, Return
  <1>2. ASSUME ReaderThread \/ WheelData PROVE WheelStep
    BY <1>2 DEF ReaderThread, WheelData, Reader, WheelStep
  <1>3. ASSUME NEW delay \in 0 .. MaxDelay, SensorCallback(delay) PROVE WheelStep
    BY <1>3 DEF SensorCallback, WheelStep
  <1>4. ASSUME StrayCallback PROVE WheelStep
    BY <1>4 DEF StrayCallback, WheelStep, TypeOK
  <1>5. ASSUME HubResets PROVE WheelStep
    BY <1>5 DEF HubResets, HubRestarts, WheelStep
  <1>6. ASSUME ResetCallback \/ Interrupt \/ Finished \/ UNCHANGED vars
        PROVE  UNCHANGED wheelVars
    BY <1>6 DEF ResetCallback, Interrupt, Finished, vars
  <1> QED
    BY <1>1, <1>2, <1>3, <1>4, <1>5, <1>6 DEF Next

LEMMA TypesKept == SessionInv /\ [Next]_vars => WheelTypes'
  BY StepsOfTheWheel, WheelStepTypes, WheelUnchanged DEF SessionInv

\* The steps of others leave alone what the session has opened.
LEMMA OthersKeep ==
    ASSUME SessionInv, ReaderThread \/ WheelData \/ StrayCallback
           \/ \E delay \in 0 .. MaxDelay : SensorCallback(delay)
    PROVE  /\ UNCHANGED <<hubVars, pc, sessionVars>>
           /\ UNCHANGED <<wheel, kind>>
           /\ reader' = reader \/ (wheel \notin {"none", "deleted"} /\ pc # "ended")
  <1>1. CASE ReaderThread
    <2>1. /\ UNCHANGED <<hubVars, pc, sessionVars>> /\ pc # "ended"
          /\ reader \in {"test", "read", "push"} /\ UNCHANGED <<wheel, kind>>
      BY <1>1 DEF ReaderThread, Reader, ReaderTests, ReaderReads, ReaderPushes, inputVars, ownerVars
    <2>2. wheel # "none" /\ wheel # "deleted"
      BY <2>1 DEF SessionInv, Opened
    <2> QED
      BY <2>1, <2>2
  <1>2. CASE WheelData
    BY <1>2 DEF WheelData, WriteLine, EndInput, Tick, readerVars, ownerVars
  <1>3. ASSUME NEW delay \in 0 .. MaxDelay, SensorCallback(delay)
        PROVE  UNCHANGED <<hubVars, pc, sessionVars, wheel, kind, reader>>
    BY <1>3 DEF SensorCallback, ReportModuleTime, inputVars, readerVars, ownerVars
  <1>4. CASE StrayCallback
    BY <1>4 DEF StrayCallback, ReportModuleTime, inputVars, readerVars, ownerVars
  <1> QED
    BY <1>1, <1>2, <1>3, <1>4

LEMMA OthersSession ==
    ASSUME SessionInv, WheelTypes', ReaderThread \/ WheelData \/ StrayCallback
           \/ \E delay \in 0 .. MaxDelay : SensorCallback(delay)
    PROVE  SessionInv'
  <1>1. /\ UNCHANGED <<hubOn, strays, pc, exit, runApp_, state_, todo, logOpen, sessionOpen, lost>>
        /\ UNCHANGED <<wheel, kind>>
        /\ reader' = reader \/ (wheel \notin {"none", "deleted"} /\ pc # "ended")
    BY OthersKeep DEF hubVars, sessionVars
  <1>2. TypeOK'
    BY <1>1 DEF SessionInv, TypeOK, WheelTypes, HubTimes
  <1>3. Opened' /\ TurnedOff' /\ Ended'
    BY <1>1 DEF SessionInv, Opened, TurnedOff, Ended
  <1>4. CleanEnd'
    BY <1>1 DEF SessionInv, CleanEnd, Ended
  <1> QED
    BY <1>2, <1>3, <1>4 DEF SessionInv

\* What the hub has sent when it restarts has times.
LEMMA HubTyped ==
    ASSUME SessionInv, HubRestarts
    PROVE  strays' \subseteq HubTimes
  <1>1. now \in Int /\ hubOrigin \in Int /\ strays \subseteq HubTimes
    BY DEF SessionInv, TypeOK, WheelTypes, WheelTypeOK
  <1>2. HubClock(now) \in HubTimes
    BY <1>1, ClockTimes
  <1> QED
    BY <1>1, <1>2 DEF HubRestarts

\* The hub and SIGINT.
LEMMA HubSession ==
    ASSUME SessionInv, WheelTypes', ResetCallback \/ HubResets \/ Interrupt
           \/ Finished \/ UNCHANGED vars
    PROVE  SessionInv'
  <1>1. /\ UNCHANGED <<wheel, kind, reader, todo, logOpen, sessionOpen, lost>>
        /\ hubOn' = hubOn \/ (hubOn' = {} /\ pc # "ended")
        /\ runApp_' \in BOOLEAN /\ state_' \in {"Idle", "Reset", "Startup", "Run"}
        /\ strays' \subseteq HubTimes
        /\ \/ UNCHANGED <<pc, exit>>
           \/ pc # "ended" /\ pc' = "ended" /\ exit' = "forced"
    BY HubTyped DEF ResetCallback, HubResets, HubRestarts, ClockRestarts, Interrupt, Finished, vars,
       hubVars, sessionVars, wheelVars, inputVars, readerVars, ownerVars, SessionInv, TypeOK
  <1>2. TypeOK'
    BY <1>1 DEF SessionInv, TypeOK, WheelTypes, HubTimes
  <1>3. Opened' /\ TurnedOff' /\ Ended'
    BY <1>1 DEF SessionInv, Opened, TurnedOff, Ended, Early, Middle, Calls, Checked
  <1>4. CleanEnd'
    BY <1>1 DEF SessionInv, CleanEnd, Ended
  <1> QED
    BY <1>2, <1>3, <1>4 DEF SessionInv

\* do_logging until the loop.
LEMMA StartSession ==
    ASSUME SessionInv, WheelTypes', Configure \/ Begin \/ OpenLog \/ MakeWheel \/ OpenHal
    PROVE  SessionInv'
  <1>1. WheelTypes /\ kind \in {"none", "file", "stream"} /\ pc # "ended" /\ exit = "none"
    BY ItemTypes DEF SessionInv, Ended, Configure, Begin, OpenLog, MakeWheel, OpenHal
  <1>2. CASE Fail /\ UNCHANGED <<wheelVars, hubVars>>
    <2>1. /\ UNCHANGED <<wheel, reader, kind, hubOn, strays, runApp_, state_, todo, sessionOpen,
                        lost>>
          /\ pc' = "ended" /\ exit' = "-1" /\ logOpen' = FALSE
      BY <1>2 DEF Fail, wheelVars, hubVars, inputVars, readerVars, ownerVars
    <2>2. TypeOK'
      BY <2>1 DEF SessionInv, TypeOK, WheelTypes, HubTimes
    <2> QED
      BY <2>1, <2>2 DEF SessionInv, Opened, TurnedOff, Ended, CleanEnd, Early, Middle, Calls, Checked
  <1>3. CASE MakeWheel
    <2>1. /\ UNCHANGED <<kind, hubOn, strays, runApp_, exit, state_, todo, logOpen, sessionOpen,
                        lost>>
          /\ pc = "makeWheel" /\ pc' = "openHal"
          /\ IF kind = "none" THEN UNCHANGED <<wheel, reader>> ELSE wheel' = "alive"
      BY <1>3 DEF MakeWheel, Construct, wheelVars, hubVars, sessionVars, inputVars, readerVars,
         ownerVars
    <2>2. TypeOK'
      BY <2>1 DEF SessionInv, TypeOK, WheelTypes, HubTimes, Calls, Checked
    <2> QED
      BY <1>1, <2>1, <2>2
      DEF SessionInv, Opened, TurnedOff, Ended, CleanEnd, Early, Middle, Calls, Checked
  <1>4. CASE ~Fail /\ (Configure \/ Begin \/ OpenLog \/ OpenHal)
    <2>1. /\ UNCHANGED <<wheel, reader, kind, hubOn, strays, todo, sessionOpen, lost>>
          /\ runApp_' \in BOOLEAN /\ state_' \in {"Idle", "Reset", "Startup", "Run"}
          /\ \/ pc = "configure" /\ pc' = "begin" /\ UNCHANGED <<exit, logOpen>>
             \/ pc = "begin" /\ pc' = "ended" /\ exit' = "-1" /\ UNCHANGED logOpen
             \/ pc = "begin" /\ pc' = "openLog" /\ UNCHANGED <<exit, logOpen>>
             \/ pc = "openLog" /\ pc' = "makeWheel" /\ logOpen' = TRUE /\ UNCHANGED exit
             \/ pc = "openHal" /\ pc' = "sh2_open" /\ UNCHANGED <<exit, logOpen>>
      BY <1>4 DEF Configure, Begin, OpenLog, OpenHal, wheelVars, hubVars, sessionVars, inputVars,
         readerVars, ownerVars, SessionInv, TypeOK
    <2>2. TypeOK'
      BY <2>1 DEF SessionInv, TypeOK, WheelTypes, HubTimes, Calls, Checked
    <2> QED
      BY <2>1, <2>2
      DEF SessionInv, Opened, TurnedOff, Ended, CleanEnd, Early, Middle, Calls, Checked
  <1> QED
    BY <1>2, <1>3, <1>4 DEF Configure, Begin, OpenLog, OpenHal

\* LoggerApp::init.
LEMMA InitSteps ==
    ASSUME SessionInv, WheelTypes', CheckedCall \/ Clear \/ LogFrs \/ Enable \/ InitEnds
    PROVE  SessionInv'
  <1>1. /\ UNCHANGED <<wheel, reader, kind, lost>> /\ pc \in Calls /\ exit = "none"
    BY DEF CheckedCall, Fail, Clear, HubRestarts, ClockRestarts, LogFrs, Enable, InitEnds, wheelVars,
       inputVars, readerVars, ownerVars, SessionInv, Ended, Calls, Checked
  <1>2. CASE CheckedCall /\ Fail
    <2>1. /\ UNCHANGED <<hubOn, strays, runApp_, state_, todo, sessionOpen>>
          /\ pc' = "ended" /\ exit' = "-1" /\ logOpen' = FALSE
      BY <1>2 DEF CheckedCall, Fail, hubVars
    <2>2. TypeOK'
      BY <1>1, <2>1 DEF SessionInv, TypeOK, WheelTypes, HubTimes
    <2> QED
      BY <1>1, <2>1, <2>2
      DEF SessionInv, Opened, TurnedOff, Ended, CleanEnd, Early, Middle, Calls, Checked
  <1>3. CASE ~Fail
    <2>1. /\ UNCHANGED <<exit, runApp_, logOpen>>
          /\ pc \notin {"disable", "sh2_saveDcdNow", "sh2_close", "sh2_service"}
          /\ pc' \in (Calls \cup {"loop"}) \ {"disable", "sh2_saveDcdNow", "sh2_close"}
          /\ state_' \in {"Idle", "Reset", "Startup", "Run"}
          /\ todo' \subseteq Sensors /\ sessionOpen' \in BOOLEAN /\ hubOn' \subseteq Sensors
          /\ strays' \subseteq HubTimes
      <3>1. /\ runApp_ \in BOOLEAN /\ state_ \in {"Idle", "Reset", "Startup", "Run"}
            /\ todo \subseteq Sensors /\ sessionOpen \in BOOLEAN /\ hubOn \subseteq Sensors
            /\ strays \subseteq HubTimes
        BY DEF SessionInv, TypeOK
      <3>2. CASE CheckedCall
        <4>1. /\ pc \in Checked /\ pc' = After[pc] /\ sessionOpen' = TRUE
              /\ UNCHANGED <<exit, runApp_, logOpen, state_, todo, hubOn, strays>>
          BY <1>3, <3>2 DEF CheckedCall, hubVars
        <4>2. pc' \in {"sh2_setSensorCallback", "clear", "sh2_setDcdAutoSave",
                       "sh2_setCalConfig", "sh2_getFrs"}
          BY <4>1 DEF Checked, After
        <4> QED
          BY <3>1, <4>1, <4>2 DEF Calls, Checked
      <3>3. CASE Clear \/ LogFrs \/ Enable \/ InitEnds
        BY <3>1, <3>3, HubTyped
        DEF Clear, HubRestarts, LogFrs, Enable, InitEnds, hubVars, Calls, Checked
      <3> QED
        BY <3>2, <3>3
    <2>2. TypeOK'
      BY <1>1, <2>1 DEF SessionInv, TypeOK, WheelTypes, HubTimes
    <2> QED
      BY <1>1, <2>1, <2>2
      DEF SessionInv, Opened, TurnedOff, Ended, CleanEnd, Early, Middle, Calls, Checked
  <1> QED
    BY <1>2, <1>3 DEF Clear, LogFrs, Enable, InitEnds, Fail

\* The loop.
LEMMA LoopSteps ==
    ASSUME SessionInv, WheelTypes', Loop \/ WheelService \/ Service
    PROVE  SessionInv'
  <1>1. /\ UNCHANGED <<wheel, reader, kind, hubOn, strays, exit, runApp_, state_, logOpen, sessionOpen,
                    lost>>
        /\ \/ pc = "loop" /\ pc' = "wheelService" /\ UNCHANGED todo
           \/ pc = "loop" /\ pc' = "disable" /\ todo' = Sensors
           \/ pc = "wheelService" /\ pc' = "sh2_service" /\ UNCHANGED todo
           \/ pc = "sh2_service" /\ pc' = "loop" /\ UNCHANGED todo
    BY DEF Loop, WheelService, ServiceWheel, Service, wheelVars, hubVars, sessionVars, inputVars,
       readerVars, ownerVars
  <1>2. TypeOK'
    BY <1>1 DEF SessionInv, TypeOK, WheelTypes, HubTimes, Calls, Checked
  <1>3. hubOn \subseteq Sensors
    BY DEF SessionInv, TypeOK
  <1> QED
    BY <1>1, <1>2, <1>3
    DEF SessionInv, Opened, TurnedOff, Ended, CleanEnd, Early, Middle, Calls, Checked

\* LoggerApp::finish, and what follows.
LEMMA EndSteps ==
    ASSUME SessionInv, WheelTypes',
           Disable \/ SaveDcd \/ CloseSession \/ FinishLog \/ DeleteWheel \/ Return
    PROVE  SessionInv'
  <1>1. exit = "none" /\ UNCHANGED <<kind, state_, runApp_>>
    BY DEF Disable, TurnOff, SaveDcd, CloseSession, FinishLog, DeleteWheel, CloseInput, StopReader,
       Join, Return, wheelVars, inputVars, sessionVars, SessionInv, Ended
  <1>2. CASE Disable
    <2>1. PICK s \in todo : TurnOff(s, hubOn \ {s})
      BY <1>2 DEF Disable
    <2>2. /\ UNCHANGED <<wheel, reader, strays, pc, exit, logOpen, sessionOpen>> /\ pc = "disable"
          /\ todo' = todo \ {s}
          /\ \/ hubOn' = hubOn \ {s} /\ UNCHANGED lost
             \/ lost' = TRUE /\ UNCHANGED hubOn
      BY <1>2, <2>1 DEF Disable, TurnOff, wheelVars, readerVars, ownerVars
    <2>3. TypeOK'
      BY <1>1, <2>2 DEF SessionInv, TypeOK, WheelTypes, HubTimes
    <2> QED
      BY <1>1, <2>2, <2>3
      DEF SessionInv, Opened, TurnedOff, Ended, CleanEnd, Early, Middle, Calls, Checked
  <1>3. CASE SaveDcd \/ CloseSession \/ FinishLog
    <2>1. /\ UNCHANGED <<wheel, reader, hubOn, strays, todo, exit, lost>>
          /\ \/ pc = "disable" /\ todo = {} /\ pc' = "sh2_saveDcdNow"
                   /\ UNCHANGED <<logOpen, sessionOpen>>
             \/ pc = "sh2_saveDcdNow" /\ pc' = "sh2_close" /\ UNCHANGED <<logOpen, sessionOpen>>
             \/ pc = "sh2_close" /\ pc' = "finishLog" /\ sessionOpen' = FALSE /\ UNCHANGED logOpen
             \/ pc = "finishLog" /\ pc' = "deleteWheel" /\ logOpen' = FALSE /\ UNCHANGED sessionOpen
      BY <1>3 DEF SaveDcd, CloseSession, FinishLog, wheelVars, hubVars, sessionVars, readerVars,
         ownerVars
    <2>2. TypeOK'
      BY <1>1, <2>1 DEF SessionInv, TypeOK, WheelTypes, HubTimes, Calls, Checked
    <2> QED
      BY <1>1, <2>1, <2>2
      DEF SessionInv, Opened, TurnedOff, Ended, CleanEnd, Early, Middle, Calls, Checked
  <1>4. CASE DeleteWheel
    <2>1. /\ UNCHANGED <<reader, hubOn, strays, todo, exit, lost, pc, logOpen, sessionOpen>>
          /\ pc = "deleteWheel" /\ wheel' \in {"closed", "stopped", "deleted"}
          /\ (wheel' = "deleted" => reader = "gone")
      BY <1>4 DEF DeleteWheel, CloseInput, StopReader, Join, hubVars, sessionVars, readerVars
    <2>2. TypeOK'
      BY <1>1, <2>1 DEF SessionInv, TypeOK, WheelTypes, HubTimes
    <2> QED
      BY <1>1, <2>1, <2>2
      DEF SessionInv, Opened, TurnedOff, Ended, CleanEnd, Early, Middle, Calls, Checked
  <1>5. CASE Return
    <2>1. /\ UNCHANGED <<wheel, reader, hubOn, strays, todo, lost, logOpen, sessionOpen>>
          /\ pc = "deleteWheel" /\ wheel \in {"none", "deleted"} /\ pc' = "ended" /\ exit' = "0"
      BY <1>5 DEF Return, wheelVars, hubVars, readerVars, ownerVars
    <2>2. TypeOK'
      BY <1>1, <2>1 DEF SessionInv, TypeOK, WheelTypes, HubTimes
    <2> QED
      BY <1>1, <2>1, <2>2
      DEF SessionInv, Opened, TurnedOff, Ended, CleanEnd, Early, Middle, Calls, Checked
  <1> QED
    BY <1>2, <1>3, <1>4, <1>5

LEMMA NextSession == SessionInv /\ [Next]_vars => SessionInv'
  BY TypesKept, OthersSession, HubSession, StartSession, InitSteps, LoopSteps, EndSteps
  DEF Next, Host

LEMMA SessionHolds == Spec => []SessionInv
  BY InitSession, NextSession, PTL DEF Spec

\* Every state of a session and its wheel source is well typed.
THEOREM TypeCorrect == Spec => []TypeOK
  <1>1. SessionInv => TypeOK
    BY DEF SessionInv
  <1> QED
    BY <1>1, SessionHolds, PTL

\* The callbacks find log and wheel source alive in every call of the library that
\* may make them, whatever fails, restarts or is interrupted before.
THEOREM CallbacksAreSafe == Spec => []CallbacksAlive
  <1>1. SessionInv => CallbacksAlive
    BY DEF SessionInv, Opened, Middle, CallbacksAlive
  <1> QED
    BY <1>1, SessionHolds, PTL

\* A session that returns 0 has closed the hub's session and the log, joined the
\* reader, and turned every sensor off, or failed to.
THEOREM EndsAreClean == Spec => []CleanEnd
  <1>1. SessionInv => CleanEnd
    BY DEF SessionInv
  <1> QED
    BY <1>1, SessionHolds, PTL

-----------------------------------------------------------------------------
(* The way of a line.                                                      *)

\* What has been read and not been served, in its order.
Pipe == IF reader = "push" THEN Append(q_, tmp) ELSE q_

\* The first and the last place of an item, if each line has two of them.
Lo(item) == IF item.part = "back" THEN 2 * item.line ELSE 2 * item.line - 1
Hi(item) == IF item.part = "front" THEN 2 * item.line - 1 ELSE 2 * item.line

\* The place that is read next, and the last one that was served.
NextPlace ==
    IF unread = <<>> THEN IF half THEN 2 * written + 2 ELSE 2 * written + 1
    ELSE Lo(unread[1])

Served == (IF Pipe = <<>> THEN NextPlace ELSE Lo(Pipe[1])) - 1

\* b comes after a, but for the end of a line.
Adjacent(a, b) ==
    \/ b = a + 1
    \/ b = a + 2 /\ \E k \in 1 .. Len(script) : a + 1 = 2 * k /\ script[k].cut = "end"

Follows(a, b) ==
    IF a.part = "front" THEN b.part = "back" /\ b.line = a.line
    ELSE b.part # "back" /\ b.line = a.line + 1

\* What is unread are the lines up to the last one written.
Unread ==
    /\ \A i \in 1 .. Len(unread) - 1 : Follows(unread[i], unread[i + 1])
    /\ unread # <<>> =>
          IF half THEN unread[Len(unread)].part = "front" /\ unread[Len(unread)].line = written + 1
          ELSE unread[Len(unread)].part # "front" /\ unread[Len(unread)].line = written
    /\ \A i \in 1 .. Len(unread) :
          /\ unread[i].part # "whole" => script[unread[i].line].cut # "no"
          /\ unread[i].line <= written + 1
          /\ unread[i].part # "front" => unread[i].line <= written
    /\ half => script[written + 1].cut # "no"
    /\ kind = "stream" => IF unread = <<>> THEN half => inputEnded ELSE unread[1].part # "back"
    /\ kind = "none" => unread = <<>>

\* A part that is read by itself is one of a line that may be cut there.
Cut(item) ==
    /\ item.part = "back" => kind = "file" /\ script[item.line].cut \notin {"no", "end"}
    /\ item.part = "front" => script[item.line].cut # "no"

\* What waits to be served is without a gap.
Piped ==
    /\ \A i \in 1 .. Len(Pipe) - 1 : Adjacent(Hi(Pipe[i]), Lo(Pipe[i + 1]))
    /\ Pipe # <<>> => Adjacent(Hi(Pipe[Len(Pipe)]), NextPlace)
    /\ \A i \in 1 .. Len(Pipe) : Cut(Pipe[i])

Report == [line: 1 .. Len(script), part: Parts, sn: Nat, time: HubTimes, hub: HubTimes,
           known: BOOLEAN]

\* All of line k was served that is needed to report it.
Passed(k) == 2 * k <= Served \/ (2 * k - 1 <= Served /\ script[k].cut = "end")

\* The last report, after which nothing was left out but what was cut in two.
LastReport ==
    LET last == reports[Len(reports)]
    IN  /\ ready_
        /\ Hi(last) <= Served
        /\ last.part = "front" => script[last.line].cut = "end"
        /\ \A k \in last.line + 1 .. Len(script) : script[k].good /\ Passed(k) => MayBeLost(k)
        /\ lastWheelSN_ = last.sn
        /\ hubTime_ = last.time

\* The mapping is what the hub's clock says.
Mapped == mapped => \E delay \in 0 .. MaxDelay : lastHub_ = HubClock(lastHost_ - delay)

Reported ==
    /\ reports \in Seq(Report)
    /\ reports = <<>> => lastWheelSN_ = -1
    /\ reports # <<>> => LastReport
    /\ WheelReports

Order == Unread /\ Piped /\ Reported /\ Mapped

LEMMA Lengths ==
    ASSUME WheelTypes
    PROVE  /\ Len(unread) \in Nat /\ unread \in Seq(Items)
           /\ \A i \in 1 .. Len(unread) : unread[i] \in Items /\ unread[i].line \in 1 .. Len(script)
           /\ unread = <<>> <=> Len(unread) = 0
           /\ Pipe \in Seq(Items) /\ Len(Pipe) \in Nat
           /\ \A i \in 1 .. Len(Pipe) : Pipe[i] \in Items /\ Pipe[i].line \in 1 .. Len(script)
           /\ Len(script) \in Nat /\ written \in Nat /\ written <= Len(script)
           /\ NextPlace \in Nat /\ Served \in Int
           /\ half \in BOOLEAN
  <1>1. unread \in Seq(Items) /\ q_ \in Seq(Items) /\ Len(script) \in Nat
    BY ItemTypes
  <1>2. Pipe \in Seq(Items)
    BY <1>1 DEF Pipe, WheelTypes
  <1>3. written \in Nat /\ written <= Len(script) /\ half \in BOOLEAN
    BY <1>1 DEF WheelTypes, WheelTypeOK
  <1>0. \A x \in Items : x.line \in 1 .. Len(script)
    BY DEF Items
  <1>4. \A i \in 1 .. Len(unread) : unread[i] \in Items /\ unread[i].line \in 1 .. Len(script)
    <2>1. \A i \in 1 .. Len(unread) : unread[i] \in Items
      BY <1>1
    <2> QED
      BY <1>0, <2>1
  <1>5. \A i \in 1 .. Len(Pipe) : Pipe[i] \in Items /\ Pipe[i].line \in 1 .. Len(script)
    <2>1. \A i \in 1 .. Len(Pipe) : Pipe[i] \in Items
      BY <1>2
    <2> QED
      BY <1>0, <2>1
  <1>6. Len(unread) \in Nat /\ (unread = <<>> <=> Len(unread) = 0)
    BY <1>1
  <1>7. \A x : x.line \in Nat \ {0} => Lo(x) \in Nat /\ Hi(x) \in Nat /\ Lo(x) <= Hi(x)
    BY DEF Lo, Hi
  <1>8. NextPlace \in Nat
    <2>1. CASE unread = <<>>
      BY <1>3, <2>1 DEF NextPlace
    <2>2. CASE unread # <<>>
      <3>1. unread[1].line \in Nat \ {0}
        BY <1>1, <1>4, <1>6, <2>2
      <3> QED
        BY <1>7, <2>2, <3>1 DEF NextPlace
    <2> QED
      BY <2>1, <2>2
  <1>9. Served \in Int
    <2>1. CASE Pipe = <<>>
      BY <1>8, <2>1 DEF Served
    <2>2. CASE Pipe # <<>>
      <3>1. Pipe[1].line \in Nat \ {0}
        BY <1>1, <1>2, <1>5, <2>2
      <3> QED
        BY <1>7, <2>2, <3>1 DEF Served
    <2> QED
      BY <2>1, <2>2
  <1> QED
    BY <1>1, <1>2, <1>3, <1>4, <1>5, <1>6, <1>8, <1>9

LEMMA Places ==
    ASSUME NEW item \in Items
    PROVE  /\ item.line \in Nat \ {0} /\ Lo(item) \in Nat /\ Hi(item) \in Nat
           /\ item.part = "whole" => Lo(item) = 2 * item.line - 1 /\ Hi(item) = 2 * item.line
           /\ item.part = "front" => Lo(item) = 2 * item.line - 1 /\ Hi(item) = 2 * item.line - 1
           /\ item.part = "back" => Lo(item) = 2 * item.line /\ Hi(item) = 2 * item.line
           /\ item.part \in {"whole", "front", "back"}
  <1>1. item.line \in Nat \ {0} /\ item.part \in {"whole", "front", "back"}
    BY DEF Items, Parts
  <1> QED
    BY <1>1 DEF Lo, Hi

\* As long as the same is read and served, the order stays.
LEMMA OrderStays ==
    ASSUME Piped, Reported, Pipe' = Pipe, NextPlace' = NextPlace,
           UNCHANGED <<kind, script, reports, lastWheelSN_, hubTime_>>, ready_ => ready_'
    PROVE  Piped' /\ Reported'
  <1>1. Served' = Served
    BY DEF Served
  <1>2. Piped'
    BY DEF Piped, Adjacent, Cut, Hi, Lo
  <1>3. WheelReports'
    BY DEF Reported, WheelReports, ReportsAreLines, TimesAreTheHubs, MayBeLost
  <1>4. LastReport => LastReport'
    BY <1>1 DEF LastReport, Passed, MayBeLost, Hi
  <1>5. Report' = Report
    BY DEF Report, HubTimes
  <1> QED
    BY <1>2, <1>3, <1>4, <1>5 DEF Reported

LEMMA MappedStays ==
    ASSUME Mapped, UNCHANGED <<mapped, lastHub_, lastHost_, hubOrigin>>
    PROVE  Mapped'
  BY DEF Mapped, HubClock

\* To write puts a part behind what is unread.
LEMMA WriterOrder ==
    ASSUME WheelTypes, Order, WriteLine
    PROVE  Unread' /\ NextPlace' = NextPlace
  <1>1. PICK part \in Parts :
            /\ unread' = Append(unread, [line |-> written + 1, part |-> part])
            /\ kind # "none" /\ ~inputEnded /\ written < Len(script)
            /\ UNCHANGED <<kind, script, inputEnded>>
            /\ \/ part = "whole" /\ ~half /\ ~half' /\ written' = written + 1
               \/ part = "front" /\ ~half /\ script[written + 1].cut # "no" /\ half' /\ written' = written
               \/ part = "back" /\ half /\ ~half' /\ written' = written + 1
    BY DEF WriteLine, Write, Parts
  <1> DEFINE new == [line |-> written + 1, part |-> part]
             n   == Len(unread)
  <1>2. /\ n \in Nat /\ unread \in Seq(Items) /\ written \in Nat /\ Unread
        /\ \A i \in 1 .. n : unread[i].line \in Nat
        /\ unread = <<>> <=> n = 0
    BY Lengths DEF Order
  <1>3. new.line = written + 1 /\ new.part = part
    OBVIOUS
  <1>4. /\ Len(unread') = n + 1 /\ unread'[n + 1] = new
        /\ \A i \in 1 .. n : unread'[i] = unread[i]
        /\ unread' # <<>>
    BY <1>1, <1>2
  <1> HIDE DEF new
  <1>5. \A i \in 1 .. Len(unread') - 1 : Follows(unread'[i], unread'[i + 1])
    <2> SUFFICES ASSUME NEW i \in 1 .. n PROVE Follows(unread'[i], unread'[i + 1])
      BY <1>2, <1>4
    <2>1. CASE i < n
      <3>1. i \in 1 .. n - 1 /\ i + 1 \in 1 .. n
        BY <1>2, <2>1
      <3>2. Follows(unread[i], unread[i + 1])
        BY <1>2, <3>1 DEF Unread
      <3>3. unread'[i] = unread[i] /\ unread'[i + 1] = unread[i + 1]
        BY <1>4, <3>1
      <3> QED
        BY <3>2, <3>3
    <2>2. CASE i = n
      <3>1. IF half THEN unread[n].part = "front" /\ unread[n].line = written + 1
            ELSE unread[n].part # "front" /\ unread[n].line = written
        BY <1>2, <2>2 DEF Unread
      <3> QED
        BY <1>1, <1>2, <1>3, <1>4, <2>2, <3>1 DEF Follows
    <2> QED
      BY <1>2, <2>1, <2>2
  <1>6. IF half' THEN unread'[Len(unread')].part = "front"
                      /\ unread'[Len(unread')].line = written' + 1
        ELSE unread'[Len(unread')].part # "front" /\ unread'[Len(unread')].line = written'
    BY <1>1, <1>3, <1>4
  <1>7. ASSUME NEW i \in 1 .. Len(unread')
        PROVE  /\ unread'[i].part # "whole" => script[unread'[i].line].cut # "no"
               /\ unread'[i].line <= written' + 1
               /\ unread'[i].part # "front" => unread'[i].line <= written'
    <2>1. CASE i \in 1 .. n
      <3>1. /\ unread[i].part # "whole" => script[unread[i].line].cut # "no"
            /\ unread[i].line <= written + 1
            /\ unread[i].part # "front" => unread[i].line <= written
        BY <1>2, <2>1 DEF Unread
      <3>2. written' = written \/ written' = written + 1
        BY <1>1
      <3> QED
        BY <1>2, <1>4, <2>1, <3>1, <3>2
    <2>2. CASE i = n + 1
      <3>1. part # "whole" => script[written + 1].cut # "no"
        BY <1>1, <1>2 DEF Unread
      <3> QED
        BY <1>1, <1>2, <1>3, <1>4, <2>2, <3>1
    <2> QED
      BY <1>2, <1>4, <2>1, <2>2
  <1>8. half' => script'[written' + 1].cut # "no"
    BY <1>1
  <1>9. kind = "stream" => unread'[1].part # "back"
    <2>1. CASE n = 0
      <3>1. unread = <<>> /\ unread'[1] = new
        BY <1>2, <1>4, <2>1
      <3> QED
        BY <1>1, <1>2, <1>3, <3>1 DEF Unread
    <2>2. CASE n # 0
      <3>1. unread # <<>> /\ unread'[1] = unread[1]
        BY <1>2, <1>4, <2>2
      <3> QED
        BY <1>2, <3>1 DEF Unread
    <2> QED
      BY <2>1, <2>2
  <1>10. Unread'
    BY <1>1, <1>4, <1>5, <1>6, <1>7, <1>8, <1>9 DEF Unread, Follows
  <1>11. NextPlace' = NextPlace
    <2>1. CASE n = 0
      <3>1. unread = <<>> /\ unread'[1] = new
        BY <1>2, <1>4, <2>1
      <3> QED
        BY <1>1, <1>2, <1>3, <1>4, <3>1 DEF NextPlace, Lo
    <2>2. CASE n # 0
      <3>1. unread # <<>> /\ unread'[1] = unread[1]
        BY <1>2, <1>4, <2>2
      <3> QED
        BY <1>4, <3>1 DEF NextPlace, Lo
    <2> QED
      BY <2>1, <2>2
  <1> QED
    BY <1>10, <1>11

\* To read up to the end of a line leaves the lines behind it.
LEMMA RestUnread ==
    ASSUME WheelTypes, Unread,
           NEW m \in 1 .. Len(unread), unread[m].part # "front",
           unread' = SubSeq(unread, m + 1, Len(unread)),
           UNCHANGED <<kind, script, written, half, inputEnded>>
    PROVE  Unread' /\ NextPlace' = 2 * unread[m].line + 1
  <1> DEFINE n == Len(unread)
  <1>1. /\ n \in Nat /\ m \in Nat /\ m <= n /\ unread \in Seq(Items) /\ written \in Nat
        /\ \A i \in 1 .. n : unread[i].line \in Nat
        /\ half \in BOOLEAN
    BY Lengths
  <1>2. /\ Len(unread') = n - m
        /\ \A i \in 1 .. n - m : unread'[i] = unread[m + i]
        /\ unread' = <<>> <=> n = m
        /\ unread' \in Seq(Items)
    <2>1. /\ Len(unread') = n - m
          /\ \A i \in 1 .. n - m : unread'[i] = unread[m + i]
          /\ unread' \in Seq(Items)
      <3>1. m + 1 \in Int /\ n \in Int /\ \A i \in m + 1 .. n : unread[i] \in Items
        BY <1>1
      <3>2. /\ unread' \in Seq(Items)
            /\ Len(unread') = IF m + 1 <= n THEN n - (m + 1) + 1 ELSE 0
            /\ \A i \in 1 .. n - (m + 1) + 1 : unread'[i] = unread[(m + 1) + i - 1]
        BY <3>1, SubSeqProperties
      <3>3. n - (m + 1) + 1 = n - m /\ \A i \in Int : (m + 1) + i - 1 = m + i
        BY <1>1
      <3>4. Len(unread') = n - m
        BY <1>1, <3>2
      <3>5. \A i \in 1 .. n - m : unread'[i] = unread[m + i]
        <4>1. \A i \in 1 .. n - m : i \in Int
          BY <1>1
        <4> QED
          BY <3>2, <3>3, <4>1
      <3> QED
        BY <3>2, <3>4, <3>5
    <2>2. \A s \in Seq(Items) : s = <<>> <=> Len(s) = 0
      OBVIOUS
    <2>3. n - m = 0 <=> n = m
      BY <1>1
    <2> QED
      BY <2>1, <2>2, <2>3
  <1>3. CASE m = n
    <2>1. ~half /\ unread[m].line = written
      BY <1>1, <1>3 DEF Unread
    <2>2. unread' = <<>> /\ Len(unread') = 0
      BY <1>1, <1>2, <1>3
    <2>3. Unread'
      <3>1. 1 .. Len(unread') - 1 = {} /\ 1 .. Len(unread') = {}
        BY <2>2
      <3> QED
        BY <2>1, <2>2, <3>1 DEF Unread
    <2> QED
      BY <2>1, <2>2, <2>3 DEF NextPlace, Lo
  <1>4. CASE m < n
    <2>1. m \in 1 .. n - 1
      BY <1>1, <1>4
    <2>2. Follows(unread[m], unread[m + 1])
      BY <2>1 DEF Unread
    <2>3. unread[m + 1].part # "back" /\ unread[m + 1].line = unread[m].line + 1
      BY <2>2 DEF Follows
    <2>4. 1 \in 1 .. n - m /\ n - m \in 1 .. n - m /\ m + (n - m) = n
      BY <1>1, <1>4
    <2>5. unread' # <<>> /\ unread'[1] = unread[m + 1] /\ unread'[Len(unread')] = unread[n]
      <3>1. unread'[1] = unread[m + 1] /\ unread'[n - m] = unread[m + (n - m)]
        BY <1>2, <2>4
      <3>2. m + (n - m) = n /\ n # m
        BY <1>1, <1>4
      <3> QED
        BY <1>2, <3>1, <3>2
    <2>6. ASSUME NEW i \in 1 .. Len(unread') - 1
          PROVE  Follows(unread'[i], unread'[i + 1])
      <3>1. m + i \in 1 .. n - 1 /\ i \in 1 .. n - m /\ i + 1 \in 1 .. n - m
        BY <1>1, <1>2
      <3>2. \A k \in 1 .. n - 1 : Follows(unread[k], unread[k + 1])
        BY DEF Unread
      <3>3. Follows(unread[m + i], unread[(m + i) + 1])
        BY <3>1, <3>2
      <3>4. (m + i) + 1 = m + (i + 1)
        BY <1>1
      <3>5. unread'[i] = unread[m + i] /\ unread'[i + 1] = unread[m + (i + 1)]
        BY <1>2, <3>1
      <3> QED
        BY <3>3, <3>4, <3>5
    <2>7. ASSUME NEW i \in 1 .. Len(unread')
          PROVE  /\ unread'[i].part # "whole" => script[unread'[i].line].cut # "no"
                 /\ unread'[i].line <= written + 1
                 /\ unread'[i].part # "front" => unread'[i].line <= written
      <3>1. i \in 1 .. n - m
        BY <1>2, <2>7
      <3>2. m + i \in 1 .. n
        BY <1>1, <3>1
      <3>3. unread'[i] = unread[m + i]
        BY <1>2, <3>1
      <3> QED
        BY <3>2, <3>3 DEF Unread
    <2>8. Unread'
      <3>1. \A i \in 1 .. Len(unread') - 1 : Follows(unread'[i], unread'[i + 1])
        BY <2>6
      <3>2. unread # <<>>
        BY <1>1
      <3> QED
        BY <2>3, <2>5, <2>7, <3>1, <3>2 DEF Unread, Follows
    <2>9. NextPlace' = 2 * unread'[1].line - 1
      BY <2>3, <2>5 DEF NextPlace, Lo
    <2>10. unread[m].line \in Nat
      BY <1>1
    <2> QED
      BY <2>3, <2>5, <2>8, <2>9, <2>10
  <1> QED
    BY <1>1, <1>3, <1>4

\* What is read is the next in the queue, or it waits to be put there.
LEMMA ItemRead ==
    ASSUME WheelTypes, Piped, Reported,
           NEW item \in Items, Lo(item) = NextPlace, Cut(item),
           Adjacent(Hi(item), NextPlace'), Pipe' = Append(Pipe, item),
           UNCHANGED <<kind, script, reports, ready_, lastWheelSN_, hubTime_>>
    PROVE  Piped' /\ Reported'
  <1> DEFINE n == Len(Pipe)
  <1>1. Pipe \in Seq(Items) /\ n \in Nat /\ (Pipe = <<>> <=> n = 0)
    BY Lengths
  <1>2. /\ Len(Pipe') = n + 1 /\ Pipe'[n + 1] = item /\ Pipe' # <<>>
        /\ \A i \in 1 .. n : Pipe'[i] = Pipe[i]
    BY <1>1
  <1>3. Served' = Served
    <2>1. CASE n = 0
      BY <1>1, <1>2, <2>1 DEF Served, Lo
    <2>2. CASE n # 0
      <3>1. Pipe'[1] = Pipe[1] /\ Pipe # <<>>
        BY <1>1, <1>2, <2>2
      <3> QED
        BY <1>2, <3>1 DEF Served, Lo
    <2> QED
      BY <2>1, <2>2
  <1>4. ASSUME NEW i \in 1 .. n
        PROVE  Adjacent(Hi(Pipe'[i]), Lo(Pipe'[i + 1]))
    <2>1. CASE i < n
      <3>1. i \in 1 .. n - 1 /\ i \in 1 .. n /\ i + 1 \in 1 .. n
        BY <1>1, <2>1
      <3>2. Adjacent(Hi(Pipe[i]), Lo(Pipe[i + 1]))
        BY <3>1 DEF Piped
      <3> QED
        BY <1>2, <3>1, <3>2
    <2>2. CASE i = n
      <3>1. Pipe # <<>>
        BY <1>1, <2>2
      <3>2. Adjacent(Hi(Pipe[n]), Lo(item))
        BY <3>1 DEF Piped
      <3> QED
        BY <1>2, <2>2, <3>2
    <2> QED
      BY <1>1, <2>1, <2>2
  <1>5. ASSUME NEW i \in 1 .. n + 1
        PROVE  Cut(Pipe'[i])
    <2>1. CASE i \in 1 .. n
      BY <1>2, <2>1 DEF Piped
    <2>2. CASE i = n + 1
      BY <1>2, <2>2
    <2> QED
      BY <1>1, <2>1, <2>2
  <1>6. Piped'
    <2>1. Len(Pipe') - 1 = n
      BY <1>1, <1>2
    <2> QED
      BY <1>2, <1>4, <1>5, <2>1 DEF Piped, Adjacent, Cut, Hi, Lo
  <1>7. WheelReports'
    BY DEF Reported, WheelReports, ReportsAreLines, TimesAreTheHubs, MayBeLost
  <1>8. LastReport => LastReport'
    BY <1>3 DEF LastReport, Passed, MayBeLost, Hi
  <1>9. Report' = Report
    BY DEF Report, HubTimes
  <1> QED
    BY <1>6, <1>7, <1>8, <1>9 DEF Reported

\* The end of a line is read by itself, and leaves nothing.
LEMMA EndRead ==
    ASSUME WheelTypes, Piped, Reported,
           NEW k \in 1 .. Len(script), script[k].cut = "end",
           NextPlace = 2 * k, NextPlace' = 2 * k + 1, Pipe' = Pipe,
           UNCHANGED <<kind, script, reports, ready_, lastWheelSN_, hubTime_>>
    PROVE  Piped' /\ Reported'
  <1>1. k \in Nat /\ Len(script) \in Nat /\ Len(Pipe) \in Nat /\ Pipe \in Seq(Items)
    BY Lengths
  <1>2. ASSUME Pipe # <<>>
        PROVE  Adjacent(Hi(Pipe[Len(Pipe)]), NextPlace')
    <2> DEFINE a == Hi(Pipe[Len(Pipe)])
    <2>1. a \in Nat
      <3>1. Len(Pipe) \in 1 .. Len(Pipe)
        BY <1>1, <1>2
      <3> QED
        BY <1>1, <3>1, Places
    <2>2. Adjacent(a, 2 * k)
      BY <1>2 DEF Piped
    <2> HIDE DEF a
    <2>3. 2 * k = a + 1
      <3>1. CASE 2 * k = a + 2
        <4>1. PICK j \in 1 .. Len(script) : a + 1 = 2 * j
          BY <2>1, <2>2, <3>1 DEF Adjacent
        <4>2. j \in Int
          BY <1>1
        <4> QED
          BY <1>1, <2>1, <3>1, <4>1, <4>2
      <3> QED
        BY <2>2, <3>1 DEF Adjacent
    <2>4. NextPlace' = a + 2
      BY <1>1, <2>1, <2>3
    <2> QED
      BY <2>3, <2>4 DEF Adjacent, a
  <1>3. Piped'
    BY <1>2 DEF Piped, Adjacent, Cut, Hi, Lo
  <1>4. WheelReports'
    BY DEF Reported, WheelReports, ReportsAreLines, TimesAreTheHubs, MayBeLost
  <1>5. Served' = Served \/ (Served = 2 * k - 1 /\ Served' = 2 * k)
    <2>1. CASE Pipe = <<>>
      <3>1. Served = 2 * k - 1 /\ Served' = (2 * k + 1) - 1
        BY <2>1 DEF Served
      <3> QED
        BY <1>1, <3>1
    <2>2. CASE Pipe # <<>>
      BY <2>2 DEF Served, Lo
    <2> QED
      BY <2>1, <2>2
  <1>6. Served \in Int
    BY Lengths
  <1>7. ASSUME NEW j \in Int, Passed(j)'
        PROVE  Passed(j)
    BY <1>1, <1>5, <1>6, <1>7 DEF Passed
  <1>8. ASSUME reports # <<>>
        PROVE  LastReport'
    <2> DEFINE last == reports[Len(reports)]
    <2>1. LastReport
      BY <1>8 DEF Reported
    <2>2. last.line \in Nat /\ Hi(last) \in Int
      <3>1. reports \in Seq(Report)
        BY DEF Reported
      <3>2. last \in Report
        BY <1>8, <3>1
      <3>3. last.line \in Nat
        BY <1>1, <3>2 DEF Report
      <3> QED
        BY <3>3 DEF Hi
    <2>3. Hi(last) <= Served'
      BY <1>1, <1>5, <1>6, <2>1, <2>2 DEF LastReport
    <2>4. \A j \in last.line + 1 .. Len(script) :
             script[j].good /\ Passed(j)' => MayBeLost(j)
      <3>1. \A j \in last.line + 1 .. Len(script) : j \in Int
        BY <1>1, <2>2
      <3> QED
        BY <1>7, <2>1, <3>1 DEF LastReport
    <2> QED
      BY <2>1, <2>3, <2>4 DEF LastReport, MayBeLost, Hi, Passed
  <1>9. Report' = Report
    BY DEF Report, HubTimes
  <1> QED
    BY <1>3, <1>4, <1>8, <1>9 DEF Reported

\* What getline() brings goes into the queue.
LEMMA GotOrder ==
    ASSUME WheelTypes, reader = "read", UNCHANGED q_, NEW item, Got(item)
    PROVE  Pipe' = IF Blank(item) THEN Pipe ELSE Append(Pipe, item)
  BY DEF Got, Pipe

\* The reader takes the next line or part of one, or none.
LEMMA ReadOrder ==
    ASSUME WheelTypes, Order, ReaderReads
    PROVE  Order'
  <1> DEFINE n == Len(unread)
  <1>1. /\ n \in Nat /\ unread \in Seq(Items) /\ written \in Nat
        /\ \A i \in 1 .. n : unread[i] \in Items /\ unread[i].line \in 1 .. Len(script)
        /\ unread = <<>> <=> n = 0
        /\ half \in BOOLEAN /\ Len(script) \in Nat
    BY Lengths
  <1>2. /\ reader = "read" /\ UNCHANGED q_
        /\ UNCHANGED <<kind, script, written, half, inputEnded, reports, ready_, lastHub_,
                       lastHost_, mapped, hubOrigin, lastWheelSN_, hubTime_>>
    BY DEF ReaderReads, mappingVars, reportVars
  <1>3. Mapped'
    BY <1>2, MappedStays DEF Order
  <1>4. ASSUME NEW i \in 1 .. n
        PROVE  unread[i] # NoLine
    BY <1>1, <1>4 DEF NoLine
  <1>5. ASSUME NEW item \in Items, NEW k \in Nat, Hi(item) = 2 * k, NextPlace' = 2 * k + 1
        PROVE  Adjacent(Hi(item), NextPlace')
    BY <1>5 DEF Adjacent
  <1>6. CASE EndOfLine /\ Got(FullLine) /\ unread' = SubSeq(unread, Lines + 1, n)
    <2>1. n # 0 /\ 1 \in 1 .. n /\ Head(unread) = unread[1] /\ unread # <<>>
          /\ unread[1] \in Items
      BY <1>1, <1>6 DEF EndOfLine
    <2>2. NextPlace = Lo(unread[1])
      BY <2>1 DEF NextPlace
    <2>3. CASE unread[1].part = "whole"
      <3>1. Lines = 1 /\ FullLine = unread[1]
        BY <2>1, <2>3 DEF Lines, FullLine, HeadIsFront
      <3>2. Unread' /\ NextPlace' = 2 * unread[1].line + 1
        BY <1>2, <1>6, <2>1, <2>3, <3>1, RestUnread DEF Order
      <3>3. Hi(unread[1]) = 2 * unread[1].line /\ unread[1].line \in Nat
        BY <2>1, <2>3, Places
      <3>4. Pipe' = Append(Pipe, unread[1])
        <4>1. ~Blank(unread[1])
          BY <1>4, <2>1, <2>3 DEF Blank
        <4> QED
          BY <1>2, <1>6, <3>1, <4>1, GotOrder
      <3>5. Cut(unread[1])
        BY <2>3 DEF Cut
      <3> QED
        BY <1>2, <1>3, <1>5, <2>1, <2>2, <3>2, <3>3, <3>4, <3>5, ItemRead DEF Order
    <2>4. CASE unread[1].part = "front"
      <3>1. n > 1 /\ Lines = 2
        BY <1>6, <2>1, <2>4 DEF Lines, HeadIsFront, EndOfLine
      <3>2. 1 \in 1 .. n - 1 /\ 2 \in 1 .. n
        BY <1>1, <3>1
      <3>3. Follows(unread[1], unread[1 + 1])
        BY <3>2 DEF Order, Unread
      <3>4. unread[2].part = "back" /\ unread[2].line = unread[1].line
        BY <2>4, <3>3 DEF Follows
      <3>5. Unread' /\ NextPlace' = 2 * unread[1].line + 1
        BY <1>2, <1>6, <3>1, <3>2, <3>4, RestUnread DEF Order
      <3>6. FullLine \in Items /\ FullLine.line = unread[1].line /\ FullLine.part = "whole"
        BY <1>1, <2>1, <2>4, HeadTypes
      <3>7. Lo(FullLine) = NextPlace /\ Hi(FullLine) = 2 * unread[1].line
            /\ unread[1].line \in Nat
        BY <2>1, <2>2, <2>4, <3>6, Places
      <3>8. Pipe' = Append(Pipe, FullLine)
        <4>1. ~Blank(FullLine)
          BY <1>1, <2>1, <3>6 DEF Blank, NoLine
        <4> QED
          BY <1>2, <1>6, <4>1, GotOrder
      <3>9. Cut(FullLine)
        BY <3>6 DEF Cut
      <3> QED
        BY <1>2, <1>3, <1>5, <3>5, <3>6, <3>7, <3>8, <3>9, ItemRead DEF Order
    <2>5. CASE unread[1].part = "back"
      <3>1. Lines = 1 /\ FullLine = unread[1]
        BY <2>1, <2>5 DEF Lines, FullLine, HeadIsFront
      <3>2. Unread' /\ NextPlace' = 2 * unread[1].line + 1
        BY <1>2, <1>6, <2>1, <2>5, <3>1, RestUnread DEF Order
      <3>3. Hi(unread[1]) = 2 * unread[1].line /\ unread[1].line \in Nat
            /\ NextPlace = 2 * unread[1].line
        BY <2>1, <2>2, <2>5, Places
      <3>4. kind = "file" /\ script[unread[1].line].cut # "no"
        BY <1>1, <2>1, <2>5, ItemTypes DEF Order, Unread
      <3>5. CASE script[unread[1].line].cut = "end"
        <4>1. Pipe' = Pipe
          <5>1. Blank(unread[1])
            BY <2>5, <3>5 DEF Blank
          <5> QED
            BY <1>2, <1>6, <3>1, <5>1, GotOrder
        <4>2. unread[1].line \in 1 .. Len(script)
          BY <1>1, <2>1
        <4> QED
          BY <1>2, <1>3, <3>2, <3>3, <3>5, <4>1, <4>2, EndRead DEF Order
      <3>6. CASE script[unread[1].line].cut # "end"
        <4>1. Pipe' = Append(Pipe, unread[1])
          <5>1. ~Blank(unread[1])
            BY <1>4, <2>1, <3>6 DEF Blank
          <5> QED
            BY <1>2, <1>6, <3>1, <5>1, GotOrder
        <4>2. Cut(unread[1])
          BY <2>5, <3>4, <3>6 DEF Cut
        <4> QED
          BY <1>2, <1>3, <1>5, <2>1, <2>2, <3>2, <3>3, <4>1, <4>2, ItemRead DEF Order
      <3> QED
        BY <3>5, <3>6
    <2> QED
      BY <2>1, <2>3, <2>4, <2>5, Places
  <1>7. CASE Got(NoLine) /\ (unread' = unread \/ (unread = <<>> /\ unread' = <<>>))
    <2>1. Pipe' = Pipe
      <3>1. Blank(NoLine)
        BY DEF Blank
      <3> QED
        BY <1>2, <1>7, <3>1, GotOrder
    <2>2. unread' = unread
      BY <1>7
    <2>3. NextPlace' = NextPlace
      BY <1>2, <2>2 DEF NextPlace, Lo
    <2>4. Unread'
      BY <1>2, <2>2 DEF Order, Unread, Follows
    <2> QED
      BY <1>2, <1>3, <2>1, <2>3, <2>4, OrderStays DEF Order
  <1>8. CASE /\ ~EndOfLine /\ unread # <<>> /\ (kind = "file" \/ inputEnded)
             /\ Got(Head(unread)) /\ unread' = <<>>
    <2>1. n = 1 /\ Head(unread) = unread[1] /\ unread[1].part = "front" /\ 1 \in 1 .. n
      <3>1. unread[1].part = "front" /\ ~(n > 1) /\ Head(unread) = unread[1]
        BY <1>1, <1>8 DEF EndOfLine, HeadIsFront
      <3>2. n # 0
        BY <1>1, <1>8
      <3>3. n \in Nat
        BY <1>1
      <3>4. n = 1
        <4>1. \A k \in Nat : k # 0 /\ ~(k > 1) => k = 1
          OBVIOUS
        <4> QED
          BY <3>1, <3>2, <3>3, <4>1
      <3> QED
        BY <3>1, <3>4
    <2>2. half /\ unread[1].line = written + 1
      BY <1>8, <2>1 DEF Order, Unread
    <2>3. unread[1] \in Items /\ Lo(unread[1]) = NextPlace /\ Hi(unread[1]) = 2 * written + 1
      <3>1. unread[1] \in Items
        BY <1>1, <2>1
      <3>2. Hi(unread[1]) = 2 * (written + 1) - 1
        BY <2>1, <2>2, <3>1, Places
      <3> QED
        BY <1>1, <1>8, <3>1, <3>2 DEF NextPlace
    <2>4. NextPlace' = 2 * written + 2
      BY <1>2, <1>8, <2>2 DEF NextPlace
    <2>5. Adjacent(Hi(unread[1]), NextPlace')
      BY <1>1, <2>3, <2>4 DEF Adjacent
    <2>6. Pipe' = Append(Pipe, unread[1])
      <3>1. ~Blank(unread[1])
        BY <1>4, <2>1 DEF Blank
      <3> QED
        BY <1>2, <1>8, <2>1, <3>1, GotOrder
    <2>7. Cut(unread[1])
      <3>1. script[unread[1].line].cut # "no"
        BY <2>1 DEF Order, Unread
      <3> QED
        BY <2>1, <3>1 DEF Cut
    <2>8. Unread'
      <3>1. Len(unread') = 0
        BY <1>8
      <3>2. half => script[written + 1].cut # "no"
        BY DEF Order, Unread
      <3>3. kind = "stream" => inputEnded
        BY <1>8
      <3> QED
        BY <1>2, <1>8, <3>1, <3>2, <3>3 DEF Unread
    <2> QED
      BY <1>2, <1>3, <2>3, <2>5, <2>6, <2>7, <2>8, ItemRead DEF Order
  <1> QED
    BY <1>6, <1>7, <1>8 DEF ReaderReads

\* What is read and served does not change by what happens to anything else.
LEMMA SameOrder ==
    ASSUME WheelTypes, Order,
           UNCHANGED <<kind, script, written, half, unread, reports, lastWheelSN_, hubTime_>>,
           Pipe' = Pipe, inputEnded => inputEnded', ready_ => ready_'
    PROVE  Unread' /\ Piped' /\ Reported'
  <1>1. NextPlace' = NextPlace
    BY DEF NextPlace, Lo
  <1>2. Unread'
    BY DEF Order, Unread, Follows
  <1> QED
    BY <1>1, <1>2, OrderStays DEF Order

-----------------------------------------------------------------------------
(* The times of reports.                                                   *)

LEMMA RemainderOf ==
    ASSUME NEW a \in Int, NEW m \in Nat \ {0}, NEW q \in Int, NEW r \in 0 .. m - 1,
           a = m * q + r
    PROVE  a % m = r
  <1> DEFINE p == a \div m
             t == a % m
  <1>1. p \in Int /\ t \in 0 .. m - 1 /\ a = m * p + t
    OBVIOUS
  <1> HIDE DEF p, t
  <1>2. CASE p = q
    <2>1. m * p = m * q /\ m * q \in Int
      BY <1>2
    <2>2. t = r
      BY <1>1, <2>1
    <2> QED
      BY <2>2 DEF t
  <1>3. CASE p >= q + 1
    <2>1. PICK d \in Nat : p = q + 1 + d
      BY <1>1, <1>3
    <2>2. m * p = m * q + m + m * d /\ m * d \in Nat /\ m * q \in Int
      BY <1>1, <2>1
    <2> QED
      BY <1>1, <2>2
  <1>4. CASE q >= p + 1
    <2>1. PICK d \in Nat : q = p + 1 + d
      BY <1>1, <1>4
    <2>2. m * q = m * p + m + m * d /\ m * d \in Nat /\ m * p \in Int
      BY <1>1, <2>1
    <2> QED
      BY <1>1, <2>2
  <1> QED
    BY <1>1, <1>2, <1>3, <1>4 DEF t

\* A sum is the same whether the first number is cut to the clock's width or not.
LEMMA RemainderOfSum ==
    ASSUME NEW a \in Int, NEW b \in Int, NEW m \in Nat \ {0}
    PROVE  ((a % m) + b) % m = (a + b) % m
  <1> DEFINE p == a \div m
             t == a % m
             q == (t + b) \div m
             r == (t + b) % m
  <1>1. p \in Int /\ t \in 0 .. m - 1 /\ a = m * p + t
    OBVIOUS
  <1> HIDE DEF p, t
  <1>2. q \in Int /\ r \in 0 .. m - 1 /\ t + b = m * q + r
    BY <1>1
  <1> HIDE DEF q, r
  <1>3. m * (p + q) = m * p + m * q /\ m * p \in Int /\ m * q \in Int
    BY <1>1, <1>2
  <1>4. a + b = m * (p + q) + r /\ p + q \in Int /\ a + b \in Int
    BY <1>1, <1>2, <1>3
  <1>5. (a + b) % m = r
    BY <1>2, <1>4, RemainderOf
  <1> QED
    BY <1>5 DEF r, t

\* If the mapping is of the hub's clock and recent, what is estimated is what the clock
\* shows, less the age of the sample.
LEMMA Estimates ==
    ASSUME WheelTypes, Mapped, mapped, InSpan, NEW time \in EstimateHubTime
    PROVE  \E delay \in 0 .. MaxDelay : time = (HubClock(now) - delay) % HubTimeMod
  <1>1. PICK delay \in 0 .. MaxDelay : lastHub_ = HubClock(lastHost_ - delay)
    BY DEF Mapped
  <1> DEFINE a == HubStart + ((lastHost_ - delay) - hubOrigin)
             b == now - lastHost_
             c == HubStart + (now - hubOrigin)
  <1>2. HubTimeMod \in Nat \ {0} /\ HubStart \in Nat /\ delay \in Int
    BY WheelAssumption
  <1>3. now \in Int /\ lastHost_ \in Int /\ hubOrigin \in Int
    BY WheelAssumption DEF WheelTypes, WheelTypeOK
  <1>4. a \in Int /\ b \in Int /\ c \in Int /\ -delay \in Int /\ a + b = c + (-delay)
    BY <1>2, <1>3
  <1>5. lastHub_ = a % HubTimeMod /\ HubClock(now) = c % HubTimeMod
    BY <1>1 DEF HubClock
  <1>6. HubClock(now) - delay = (c % HubTimeMod) + (-delay)
    <2>1. c % HubTimeMod \in Int
      BY <1>2, <1>4
    <2> QED
      BY <1>2, <1>5, <2>1
  <1> HIDE DEF a, c
  <1>7. time = ((a % HubTimeMod) + b) % HubTimeMod
    BY <1>5 DEF EstimateHubTime
  <1> HIDE DEF b
  <1>8. time = (a + b) % HubTimeMod
    BY <1>2, <1>4, <1>7, RemainderOfSum
  <1>9. ((c % HubTimeMod) + (-delay)) % HubTimeMod = (c + (-delay)) % HubTimeMod
    BY <1>2, <1>4, RemainderOfSum
  <1> QED
    BY <1>4, <1>6, <1>8, <1>9

\* A raw sample of the hub's clock sets the mapping; one of a clock that is gone, or a
\* restart of the clock, leaves none.
LEMMA ClockOrder ==
    ASSUME WheelTypes, Order,
           \/ ClockRestarts
           \/ \E delay \in 0 .. MaxDelay : ReportModuleTime(HubClock(now - delay), TRUE)
           \/ \E time \in HubTimes : ReportModuleTime(time, FALSE)
    PROVE  Order'
  <1>1. UNCHANGED <<kind, script, written, half, unread, inputEnded, now, reports, lastWheelSN_,
                    hubTime_, reader, tmp, q_>> /\ (ready_ => ready_')
    BY DEF ClockRestarts, ReportModuleTime, inputVars, readerVars, reportVars
  <1>2. Pipe' = Pipe
    BY <1>1 DEF Pipe
  <1>3. Unread' /\ Piped' /\ Reported'
    BY <1>1, <1>2, SameOrder
  <1>4. Mapped'
    <2>1. ASSUME NEW delay \in 0 .. MaxDelay, ReportModuleTime(HubClock(now - delay), TRUE)
          PROVE  Mapped'
      BY <2>1 DEF ReportModuleTime, Mapped, HubClock
    <2>2. CASE ClockRestarts
      BY <2>2 DEF ClockRestarts, Mapped
    <2>3. ASSUME NEW time, ReportModuleTime(time, FALSE) PROVE Mapped'
      BY <2>3 DEF ReportModuleTime, Mapped
    <2> QED
      BY <2>1, <2>2, <2>3
  <1> QED
    BY <1>3, <1>4 DEF Order

-----------------------------------------------------------------------------
(* Lines are served.                                                       *)

\* What is served has the next place.
LEMMA NextServed ==
    ASSUME WheelTypes, Order, ServiceWheel, q_ # <<>>
    PROVE  /\ Head(q_) \in Items /\ Lo(Head(q_)) = Served + 1 /\ Cut(Head(q_))
           /\ Adjacent(Hi(Head(q_)), Served' + 1)
           /\ Unread' /\ Piped' /\ Mapped'
           /\ Served \in Int /\ Served' \in Int
  <1> DEFINE n == Len(Pipe)
  <1>1. /\ UNCHANGED <<kind, script, written, half, unread, inputEnded, now, reader, tmp>>
        /\ UNCHANGED <<mapped, lastHub_, lastHost_, hubOrigin>>
        /\ q_' = Tail(q_)
    BY DEF ServiceWheel, inputVars, mappingVars
  <1>2. Pipe \in Seq(Items) /\ n \in Nat /\ NextPlace \in Nat /\ Served \in Int
    BY Lengths
  <1>3. q_ \in Seq(Items) /\ (reader = "push" => tmp \in Items)
    BY ItemTypes DEF WheelTypes
  <1>4. Pipe # <<>> /\ Head(Pipe) = Head(q_) /\ Pipe' = Tail(Pipe)
    <2>1. CASE reader = "push"
      <3>1. Pipe = Append(q_, tmp) /\ Pipe' = Append(Tail(q_), tmp)
        BY <1>1, <2>1 DEF Pipe
      <3>2. Append(q_, tmp) # <<>> /\ Head(Append(q_, tmp)) = Head(q_)
            /\ Tail(Append(q_, tmp)) = Append(Tail(q_), tmp)
        BY <1>3, <2>1
      <3> QED
        BY <3>1, <3>2
    <2>2. CASE reader # "push"
      BY <1>1, <2>2 DEF Pipe
    <2> QED
      BY <2>1, <2>2
  <1>5. /\ n # 0 /\ Head(Pipe) = Pipe[1] /\ 1 \in 1 .. n
        /\ Len(Pipe') = n - 1
        /\ \A i \in 1 .. n - 1 : Pipe'[i] = Pipe[i + 1]
        /\ Pipe' = <<>> <=> n = 1
    <2>1. n # 0
      BY <1>2, <1>4
    <2>2. /\ Head(Pipe) = Pipe[1] /\ 1 \in 1 .. n
          /\ Len(Pipe') = n - 1
          /\ \A i \in 1 .. n - 1 : Pipe'[i] = Pipe[i + 1]
      BY <1>2, <1>4, <2>1
    <2>3. Pipe' = <<>> <=> n - 1 = 0
      <3>1. Pipe' \in Seq(Items)
        BY <1>2, <1>4
      <3>2. \A s \in Seq(Items) : s = <<>> <=> Len(s) = 0
        OBVIOUS
      <3> QED
        BY <2>2, <3>1, <3>2
    <2>4. n - 1 = 0 <=> n = 1
      BY <1>2
    <2> QED
      BY <2>1, <2>2, <2>3, <2>4
  <1>6. Pipe[1] \in Items /\ Lo(Pipe[1]) = Served + 1 /\ Cut(Pipe[1])
    <2>1. Pipe[1] \in Items /\ Cut(Pipe[1])
      BY <1>5, Lengths DEF Order, Piped
    <2>2. Lo(Pipe[1]) \in Nat
      BY <2>1, Places
    <2>3. Served = Lo(Pipe[1]) - 1
      BY <1>4 DEF Served
    <2> QED
      BY <2>1, <2>2, <2>3
  <1>7. NextPlace' = NextPlace
    BY <1>1 DEF NextPlace, Lo
  <1>8. \A a, b : Adjacent(a, b) => (Adjacent(a, b))'
    BY <1>1 DEF Adjacent
  <1>9. Unread'
    BY <1>1 DEF Order, Unread, Follows
  <1>10. Adjacent(Hi(Pipe[1]), Served' + 1) /\ Served' \in Int
    <2>1. CASE n = 1
      <3>1. Served' = NextPlace - 1
        BY <1>5, <1>7, <2>1 DEF Served
      <3>2. Served' + 1 = NextPlace /\ Served' \in Int
        BY <1>2, <3>1
      <3>3. Adjacent(Hi(Pipe[1]), NextPlace)
        BY <1>4, <2>1 DEF Order, Piped
      <3> QED
        BY <3>2, <3>3
    <2>2. CASE n # 1
      <3>1. 1 \in 1 .. n - 1 /\ 2 \in 1 .. n /\ 1 + 1 = 2
        BY <1>2, <1>5, <2>2
      <3>2. Pipe'[1] = Pipe[2] /\ Pipe' # <<>>
        BY <1>5, <2>2, <3>1
      <3>3. Served' = Lo(Pipe[2]) - 1
        BY <3>2 DEF Served, Lo
      <3>4. Lo(Pipe[2]) \in Nat
        BY <3>1, Lengths, Places
      <3>5. Adjacent(Hi(Pipe[1]), Lo(Pipe[1 + 1]))
        BY <3>1 DEF Order, Piped
      <3>6. Served' + 1 = Lo(Pipe[2]) /\ Served' \in Int
        BY <3>3, <3>4
      <3> QED
        BY <3>1, <3>5, <3>6
    <2> QED
      BY <2>1, <2>2
  <1>11. Piped'
    <2>1. ASSUME NEW i \in 1 .. Len(Pipe') - 1
          PROVE  Adjacent(Hi(Pipe'[i]), Lo(Pipe'[i + 1]))
      <3>1. i \in 1 .. n - 1 /\ i + 1 \in 1 .. n - 1 /\ i + 1 + 1 \in 1 .. n
        BY <1>2, <1>5
      <3>2. Pipe'[i] = Pipe[i + 1] /\ Pipe'[i + 1] = Pipe[i + 1 + 1]
        BY <1>5, <3>1
      <3>3. Adjacent(Hi(Pipe[i + 1]), Lo(Pipe[i + 1 + 1]))
        BY <3>1 DEF Order, Piped
      <3> QED
        BY <3>2, <3>3
    <2>2. ASSUME Pipe' # <<>>
          PROVE  Adjacent(Hi(Pipe'[Len(Pipe')]), NextPlace)
      <3>1. n # 1
        BY <1>5, <2>2
      <3>2. n - 1 \in 1 .. n - 1 /\ (n - 1) + 1 = n
        BY <1>2, <1>5, <3>1
      <3>3. Pipe'[Len(Pipe')] = Pipe[n]
        BY <1>5, <3>2
      <3> QED
        BY <1>4, <3>3 DEF Order, Piped
    <2>3. ASSUME NEW i \in 1 .. Len(Pipe')
          PROVE  Cut(Pipe'[i])
      <3>1. i \in 1 .. n - 1 /\ i + 1 \in 1 .. n
        BY <1>2, <1>5
      <3> QED
        BY <1>5, <3>1 DEF Order, Piped
    <2> QED
      BY <1>1, <1>7, <2>1, <2>2, <2>3 DEF Piped, Adjacent, Cut, Hi, Lo
  <1>12. Mapped'
    BY <1>1, MappedStays DEF Order
  <1> QED
    BY <1>2, <1>4, <1>5, <1>6, <1>9, <1>10, <1>11, <1>12

\* How far a line has been served then.
LEMMA ServedThen ==
    ASSUME NEW item \in Items, NEW s \in Int, NEW t \in Int, Lo(item) = s + 1,
           Adjacent(Hi(item), t + 1), Len(script) \in Nat
    PROVE  /\ item.part = "whole" => s = 2 * item.line - 2 /\ t = 2 * item.line
           /\ item.part = "front" =>
                 /\ s = 2 * item.line - 2
                 /\ \/ t = 2 * item.line - 1
                    \/ t = 2 * item.line /\ script[item.line].cut = "end"
           /\ item.part = "back" => s = 2 * item.line - 1 /\ t = 2 * item.line
           /\ item.line \in Nat \ {0} /\ t <= 2 * item.line /\ s < t
  <1> DEFINE l == item.line
  <1>1. /\ l \in Nat \ {0} /\ Lo(item) \in Nat /\ Hi(item) \in Nat
        /\ item.part = "whole" => Lo(item) = 2 * l - 1 /\ Hi(item) = 2 * l
        /\ item.part = "front" => Lo(item) = 2 * l - 1 /\ Hi(item) = 2 * l - 1
        /\ item.part = "back" => Lo(item) = 2 * l /\ Hi(item) = 2 * l
        /\ item.part \in {"whole", "front", "back"}
    BY Places
  <1> HIDE DEF l
  <1>2. t = Hi(item) \/ (t = Hi(item) + 1 /\ \E k \in 1 .. Len(script) :
                            Hi(item) + 1 = 2 * k /\ script[k].cut = "end")
    BY <1>1 DEF Adjacent
  <1>3. \A k \in 1 .. Len(script) : k \in Int
    OBVIOUS
  <1>4. CASE item.part \in {"whole", "back"}
    <2>1. Hi(item) = 2 * l
      BY <1>1, <1>4
    <2>2. \A k \in Int : 2 * l + 1 # 2 * k
      BY <1>1
    <2>3. t = 2 * l
      BY <1>2, <1>3, <2>1, <2>2
    <2> QED
      BY <1>1, <1>4, <2>3 DEF l
  <1>5. CASE item.part = "front"
    <2>1. Hi(item) = 2 * l - 1 /\ s = 2 * l - 2
      BY <1>1, <1>5
    <2>2. CASE t = Hi(item) + 1 /\ \E k \in 1 .. Len(script) :
                            Hi(item) + 1 = 2 * k /\ script[k].cut = "end"
      <3>1. PICK k \in 1 .. Len(script) : Hi(item) + 1 = 2 * k /\ script[k].cut = "end"
        BY <2>2
      <3>2. k = l
        BY <1>1, <1>3, <2>1, <3>1
      <3>3. t = 2 * l /\ s < t
        BY <1>1, <2>1, <2>2
      <3>4. script[l].cut = "end"
        BY <3>1, <3>2
      <3> QED
        BY <1>1, <1>5, <2>1, <3>3, <3>4 DEF l
    <2>3. CASE t = Hi(item)
      BY <1>1, <1>5, <2>1, <2>3 DEF l
    <2> QED
      BY <1>2, <2>2, <2>3
  <1> QED
    BY <1>1, <1>4, <1>5

LEMMA ReportTypes ==
    ASSUME WheelTypes, Reported, reports # <<>>
    PROVE  /\ Len(reports) \in Nat \ {0} /\ Len(reports) \in 1 .. Len(reports)
           /\ reports[Len(reports)] \in Report
           /\ reports[Len(reports)].line \in Nat \ {0}
           /\ reports[Len(reports)].part \in {"whole", "front", "back"}
           /\ Hi(reports[Len(reports)]) \in Int
  <1>1. reports \in Seq(Report) /\ Len(script) \in Nat
    BY ItemTypes DEF Reported
  <1>2. Len(reports) \in Nat \ {0} /\ Len(reports) \in 1 .. Len(reports)
        /\ reports[Len(reports)] \in Report
    BY <1>1
  <1>3. reports[Len(reports)].line \in Nat \ {0}
        /\ reports[Len(reports)].part \in {"whole", "front", "back"}
    BY <1>1, <1>2 DEF Report, Parts
  <1> QED
    BY <1>2, <1>3 DEF Hi

\* What is served and not reported is no report, or a part of a line that may be lost.
LEMMA NothingReported ==
    ASSUME WheelTypes, Order, ServiceWheel, q_ # <<>>, UNCHANGED reportVars,
           ~(IsReport(Head(q_)) /\ ready_)
    PROVE  Order'
  <1> DEFINE item == Head(q_)
             l    == item.line
             last == reports[Len(reports)]
  <1>1. UNCHANGED <<kind, script, ready_, reports, lastWheelSN_, hubTime_>>
    BY DEF ServiceWheel, inputVars, mappingVars, reportVars
  <1>2. /\ item \in Items /\ Lo(item) = Served + 1 /\ Cut(item)
        /\ Adjacent(Hi(item), Served' + 1)
        /\ Unread' /\ Piped' /\ Mapped' /\ Served \in Int /\ Served' \in Int
    BY NextServed
  <1>3. Len(script) \in Nat
    BY ItemTypes
  <1>4. /\ item.part = "whole" => Served = 2 * l - 2 /\ Served' = 2 * l
        /\ item.part = "front" =>
              /\ Served = 2 * l - 2
              /\ \/ Served' = 2 * l - 1
                 \/ Served' = 2 * l /\ script[l].cut = "end"
        /\ item.part = "back" => Served = 2 * l - 1 /\ Served' = 2 * l
        /\ l \in Nat \ {0} /\ Served' <= 2 * l /\ Served < Served'
        /\ item.part \in {"whole", "front", "back"}
    BY <1>2, <1>3, ServedThen, Places
  <1> HIDE DEF item, l
  <1>5. ASSUME ready_, NEW k \in Int, script[k].good, Passed(k)'
        PROVE  Passed(k) \/ MayBeLost(k)
    <2>1. ~IsReport(item)
      BY <1>5 DEF item
    <2>2. 2 * k <= Served' \/ (2 * k - 1 <= Served' /\ script[k].cut = "end")
      BY <1>1, <1>5 DEF Passed
    <2>3. CASE k = l
      <3>1. script[item.line].good
        BY <1>5, <2>3 DEF l
      <3>2. CASE item.part = "whole"
        BY <2>1, <3>1, <3>2 DEF IsReport
      <3>3. CASE item.part = "front"
        <4>1. script[l].cut # "end"
          BY <2>1, <3>1, <3>3 DEF IsReport, l
        <4>2. Served' = 2 * l - 1
          BY <1>4, <3>3, <4>1
        <4> QED
          BY <1>4, <2>2, <2>3, <4>1, <4>2
      <3>4. CASE item.part = "back"
        <4>1. script[l].cut # "number"
          BY <2>1, <3>1, <3>4 DEF IsReport, l
        <4>2. kind = "file" /\ script[l].cut \notin {"no", "end"}
          BY <1>2, <3>4 DEF Cut, l
        <4>3. script[l].cut \in {"no", "number", "middle", "end"}
          <5>1. l \in 1 .. Len(script) /\ script \in Seq(Line)
            BY <1>2, ItemTypes DEF Items, l
          <5>2. script[l] \in Line
            BY <5>1
          <5> QED
            BY <5>2 DEF Line
        <4> QED
          BY <2>3, <4>1, <4>2, <4>3 DEF MayBeLost
      <3> QED
        BY <1>4, <3>2, <3>3, <3>4
    <2>4. CASE k < l
      <3>1. k \in Int /\ Served >= 2 * l - 2
        BY <1>2, <1>4
      <3>2. 2 * k <= Served
        BY <1>2, <1>4, <2>4, <3>1
      <3> QED
        BY <3>2 DEF Passed
    <2>5. CASE k > l
      BY <1>2, <1>4, <2>2, <2>5
    <2> QED
      BY <1>4, <2>3, <2>4, <2>5
  <1>6. WheelReports'
    BY <1>1 DEF Order, Reported, WheelReports, ReportsAreLines, TimesAreTheHubs, MayBeLost
  <1>7. ASSUME reports # <<>>
        PROVE  LastReport'
    <2>1. LastReport
      BY <1>7 DEF Order, Reported
    <2>2. last.line \in Nat /\ Hi(last) \in Int
      BY <1>7, ReportTypes DEF Order
    <2>3. ready_ /\ Hi(last) <= Served'
      <3>1. ready_ /\ Hi(last) <= Served
        BY <2>1 DEF LastReport
      <3> HIDE DEF last
      <3> QED
        BY <1>2, <1>4, <2>2, <3>1
    <2>4. \A k \in last.line + 1 .. Len(script) : script[k].good /\ Passed(k)' => MayBeLost(k)
      <3>1. \A k \in last.line + 1 .. Len(script) : k \in Int
        BY <1>3, <2>2
      <3> QED
        BY <1>5, <2>1, <2>3, <3>1 DEF LastReport
    <2> QED
      BY <1>1, <2>1, <2>3, <2>4 DEF LastReport, Passed, MayBeLost, Hi
  <1>8. Report' = Report
    BY <1>1 DEF Report, HubTimes
  <1>9. Reported'
    BY <1>1, <1>6, <1>7, <1>8 DEF Order, Reported
  <1> QED
    BY <1>2, <1>9 DEF Order

\* What is reported goes on after the last report.
LEMMA NextReport ==
    ASSUME WheelTypes, Order, ServiceWheel, q_ # <<>>, IsReport(Head(q_)), reports # <<>>
    PROVE  /\ reports[Len(reports)].line < Head(q_).line
           /\ \A i \in reports[Len(reports)].line + 1 .. Head(q_).line - 1 :
                 script[i].good => MayBeLost(i)
  <1> DEFINE item == Head(q_)
             l    == item.line
             last == reports[Len(reports)]
             m    == last.line
  <1>1. /\ item \in Items /\ Lo(item) = Served + 1 /\ Adjacent(Hi(item), Served' + 1)
        /\ Served \in Int /\ Served' \in Int
    BY NextServed
  <1>2. l \in 1 .. Len(script) /\ Len(script) \in Nat
    BY <1>1, ItemTypes DEF Items
  <1>3. /\ item.part \in {"whole", "front", "back"}
        /\ item.part \in {"whole", "front"} => Served = 2 * l - 2
        /\ item.part = "back" => Served = 2 * l - 1
    BY <1>1, <1>2, ServedThen, Places
  <1>4. m \in Nat \ {0} /\ Hi(last) \in Int /\ last.part \in {"whole", "front", "back"}
    BY ReportTypes DEF Order
  <1>5. /\ last.part = "front" => Hi(last) = 2 * m - 1 /\ script[m].cut = "end"
        /\ last.part # "front" => Hi(last) = 2 * m
        /\ Hi(last) <= Served
        /\ \A k \in m + 1 .. Len(script) : script[k].good /\ Passed(k) => MayBeLost(k)
    <2>1. LastReport
      BY DEF Order, Reported
    <2> QED
      BY <2>1 DEF LastReport, Hi
  <1>6. item.part = "back" => script[l].cut = "number"
    BY DEF IsReport
  <1> HIDE DEF l, m, last, item
  <1>7. m < l
    <2>1. 2 * m - 1 <= Served /\ (last.part # "front" => 2 * m <= Served)
      BY <1>1, <1>4, <1>5
    <2>2. CASE item.part \in {"whole", "front"}
      BY <1>1, <1>2, <1>3, <1>4, <2>1, <2>2
    <2>3. CASE item.part = "back" /\ last.part # "front"
      BY <1>1, <1>2, <1>3, <1>4, <2>1, <2>3
    <2>4. CASE item.part = "back" /\ last.part = "front"
      <3>1. m # l
        BY <1>5, <1>6, <2>4
      <3> QED
        BY <1>1, <1>2, <1>3, <1>4, <2>1, <2>4, <3>1
    <2> QED
      BY <1>3, <2>2, <2>3, <2>4
  <1>8. ASSUME NEW i \in m + 1 .. l - 1, script[i].good
        PROVE  MayBeLost(i)
    <2>1. i \in m + 1 .. Len(script) /\ i \in Int /\ i <= l - 1
      BY <1>2, <1>4
    <2>2. Served >= 2 * l - 2
      BY <1>1, <1>2, <1>3
    <2>3. 2 * i <= Served
      BY <1>1, <1>2, <2>1, <2>2
    <2> QED
      BY <1>5, <1>8, <2>1, <2>3 DEF Passed
  <1> QED
    BY <1>7, <1>8 DEF l, m, last, item

\* A line that is reported goes on where the last report was, at the right time.
LEMMA LineReported ==
    ASSUME WheelTypes, Order, ServiceWheel, q_ # <<>>, IsReport(Head(q_)), ready_
    PROVE  Order'
  <1> DEFINE item == Head(q_)
             l    == item.line
             n    == Len(reports)
             sn   == SN(item)
             time == hubTime_'
             new  == ReportOf(item, time)
  <1>1. UNCHANGED <<kind, script, ready_>> /\ reports' = Append(reports, new)
        /\ lastWheelSN_' = sn
        /\ IF sn # lastWheelSN_ THEN time \in EstimateHubTime ELSE time = hubTime_
    BY DEF ServiceWheel, inputVars, mappingVars
  <1>2. /\ item \in Items /\ Lo(item) = Served + 1 /\ Cut(item)
        /\ Adjacent(Hi(item), Served' + 1)
        /\ Unread' /\ Piped' /\ Mapped' /\ Served \in Int /\ Served' \in Int
    BY NextServed
  <1>3. reports \in Seq(Report) /\ n \in Nat /\ l \in 1 .. Len(script) /\ Len(script) \in Nat
        /\ item.part \in Parts
    BY <1>2, ItemTypes DEF Order, Reported, Items
  <1>4. sn \in Nat
    <2>1. script[item.line].sn \in Nat
      BY <1>3, ItemTypes
    <2>2. \A a \in Nat : a % 10 \in Nat
      OBVIOUS
    <2> QED
      BY <2>1, <2>2 DEF SN
  <1>5. time \in HubTimes
    <2>1. WheelTypes'
      BY ServiceTypes
    <2> QED
      BY <2>1 DEF WheelTypes, WheelTypeOK, HubTimes
  <1>6. /\ new.line = l /\ new.part = item.part /\ new.sn = sn /\ new.time = time
        /\ new.hub = HubClock(now) /\ new.known = (mapped /\ InSpan)
    BY DEF ReportOf
  <1>7. new \in Report
    <2>1. HubClock(now) \in HubTimes
      <3>1. now \in Int /\ hubOrigin \in Int
        BY DEF WheelTypes, WheelTypeOK
      <3> QED
        BY <3>1, ClockTimes
    <2>2. (mapped /\ InSpan) \in BOOLEAN
      OBVIOUS
    <2> QED
      BY <1>3, <1>4, <1>5, <2>1, <2>2 DEF Report, ReportOf
  <1>8. /\ script[l].good
        /\ sn = script[l].sn \/ (kind = "file" /\ script[l].cut = "number" /\ item.part = "back")
        /\ item.part = "front" => script[l].cut = "end"
    BY <1>2 DEF IsReport, SN, Cut
  <1>9. new.known => \E delay \in 0 .. MaxDelay : HubClock(now) - delay \in Int /\
           (time \in EstimateHubTime => time = (new.hub - delay) % HubTimeMod)
    <2>1. HubClock(now) \in Int
      BY <1>6, <1>7 DEF Report, HubTimes
    <2>2. 0 \in 0 .. MaxDelay
      BY WheelAssumption
    <2>3. CASE time \in EstimateHubTime /\ new.known
      <3>1. mapped /\ InSpan /\ Mapped
        BY <1>6, <2>3 DEF Order
      <3>2. PICK delay \in 0 .. MaxDelay : time = (HubClock(now) - delay) % HubTimeMod
        BY <2>3, <3>1, Estimates
      <3>3. delay \in Int
        BY WheelAssumption
      <3> QED
        BY <1>6, <2>1, <3>2, <3>3
    <2> QED
      BY <2>1, <2>2, <2>3
  <1> HIDE DEF new, sn, time, item, l
  <1>10. /\ reports' \in Seq(Report) /\ Len(reports') = n + 1 /\ reports'[n + 1] = new
         /\ \A j \in 1 .. n : reports'[j] = reports[j]
         /\ reports' # <<>> /\ DOMAIN reports' = 1 .. n + 1 /\ DOMAIN reports = 1 .. n
    BY <1>1, <1>3, <1>7
  <1>11. ASSUME NEW j \in 1 .. n + 1
         PROVE  LET i == reports'[j].line
                IN  /\ script[i].good
                    /\ \/ reports'[j].sn = script[i].sn
                       \/ kind = "file" /\ script[i].cut = "number" /\ reports'[j].part = "back"
    <2>1. CASE j \in 1 .. n
      BY <1>10, <2>1 DEF Order, Reported, WheelReports, ReportsAreLines
    <2>2. CASE j = n + 1
      BY <1>6, <1>8, <1>10, <2>2
    <2> QED
      BY <1>3, <2>1, <2>2
  <1>12. ASSUME NEW j \in 2 .. n + 1
         PROVE  /\ reports'[j - 1].line < reports'[j].line
                /\ \A i \in reports'[j - 1].line + 1 .. reports'[j].line - 1 :
                      script[i].good => MayBeLost(i)
    <2>1. CASE j <= n
      <3>1. j \in 2 .. n /\ j \in 1 .. n /\ j - 1 \in 1 .. n
        BY <1>3, <2>1
      <3>2. /\ reports[j - 1].line < reports[j].line
            /\ \A i \in reports[j - 1].line + 1 .. reports[j].line - 1 :
                  script[i].good => MayBeLost(i)
        BY <3>1 DEF Order, Reported, WheelReports, ReportsAreLines
      <3> QED
        BY <1>10, <3>1, <3>2
    <2>2. CASE j = n + 1
      <3>1. n # 0 /\ j - 1 = n /\ n \in 1 .. n /\ reports # <<>>
        BY <1>3, <2>2
      <3>2. reports'[j - 1] = reports[n] /\ reports'[j] = new
        BY <1>10, <2>2, <3>1
      <3>3. /\ reports[n].line < l
            /\ \A i \in reports[n].line + 1 .. l - 1 : script[i].good => MayBeLost(i)
        BY <3>1, NextReport DEF l, item
      <3> QED
        BY <1>6, <3>2, <3>3
    <2> QED
      BY <1>3, <2>1, <2>2
  <1>13. ASSUME NEW j \in 1 .. n + 1
         PROVE  IF j > 1 /\ reports'[j - 1].sn = reports'[j].sn
                THEN reports'[j].time = reports'[j - 1].time
                ELSE reports'[j].known =>
                        \E delay \in 0 .. MaxDelay :
                            reports'[j].time = (reports'[j].hub - delay) % HubTimeMod
    <2>1. CASE j <= n
      <3>1. j \in 1 .. n /\ (j > 1 => j - 1 \in 1 .. n) /\ j \in DOMAIN reports
        BY <1>3, <1>10, <2>1
      <3>2. IF j > 1 /\ reports[j - 1].sn = reports[j].sn
            THEN reports[j].time = reports[j - 1].time
            ELSE reports[j].known =>
                    \E delay \in 0 .. MaxDelay :
                        reports[j].time = (reports[j].hub - delay) % HubTimeMod
        BY <3>1 DEF Order, Reported, WheelReports, TimesAreTheHubs
      <3> QED
        BY <1>10, <3>1, <3>2
    <2>2. CASE j = n + 1
      <3>1. reports'[j] = new
        BY <1>10, <2>2
      <3>2. CASE n = 0
        <4>1. lastWheelSN_ = -1
          BY <1>3, <3>2 DEF Order, Reported
        <4>2. time \in EstimateHubTime
          BY <1>1, <1>4, <4>1
        <4>3. ~(j > 1)
          BY <2>2, <3>2
        <4> QED
          BY <1>6, <1>9, <3>1, <4>2, <4>3
      <3>3. CASE n # 0
        <4>1. j - 1 = n /\ n \in 1 .. n /\ j > 1 /\ reports # <<>>
          BY <1>3, <2>2, <3>3
        <4>2. reports'[j - 1] = reports[n]
          BY <1>10, <4>1
        <4>3. lastWheelSN_ = reports[n].sn /\ hubTime_ = reports[n].time
          BY <4>1 DEF Order, Reported, LastReport
        <4>4. CASE reports[n].sn = sn
          BY <1>1, <1>6, <3>1, <4>1, <4>2, <4>3, <4>4
        <4>5. CASE reports[n].sn # sn
          BY <1>1, <1>6, <1>9, <3>1, <4>1, <4>2, <4>3, <4>5
        <4> QED
          BY <4>4, <4>5
      <3> QED
        BY <3>2, <3>3
    <2> QED
      BY <1>3, <2>1, <2>2
  <1>14. WheelReports'
    <2>1. ReportsAreLines'
      BY <1>1, <1>10, <1>11, <1>12 DEF ReportsAreLines, MayBeLost
    <2>2. TimesAreTheHubs'
      BY <1>10, <1>13 DEF TimesAreTheHubs
    <2> QED
      BY <2>1, <2>2 DEF WheelReports
  <1>15. LastReport'
    <2>1. /\ reports'[Len(reports')] = new /\ lastWheelSN_' = new.sn /\ hubTime_' = new.time
          /\ ready_' /\ (new.part = "front" => script[new.line].cut = "end")
      BY <1>1, <1>6, <1>8, <1>10 DEF time
    <2>2. l \in Nat \ {0} /\ Served' <= 2 * l /\ Hi(item) <= Served'
      <3>1. l \in Nat \ {0} /\ Served' <= 2 * l
        BY <1>2, <1>3, ServedThen DEF l
      <3>2. Hi(item) \in Nat
        BY <1>2, Places
      <3>3. Served' + 1 = Hi(item) + 1 \/ Served' + 1 = Hi(item) + 2
        BY <1>2 DEF Adjacent
      <3> QED
        BY <1>2, <3>1, <3>2, <3>3
    <2>3. Hi(new) = Hi(item)
      BY <1>6 DEF Hi, l
    <2>4. \A k \in l + 1 .. Len(script) : ~Passed(k)'
      <3> SUFFICES ASSUME NEW k \in l + 1 .. Len(script) PROVE ~Passed(k)'
        OBVIOUS
      <3>1. k \in Int /\ k >= l + 1
        BY <2>2
      <3>2. ~(2 * k <= Served') /\ ~(2 * k - 1 <= Served')
        BY <1>2, <2>2, <3>1
      <3> QED
        BY <3>2 DEF Passed
    <2> QED
      BY <1>1, <1>6, <2>1, <2>2, <2>3, <2>4 DEF LastReport, Hi
  <1>16. Report' = Report
    BY <1>1 DEF Report, HubTimes
  <1>17. Reported'
    BY <1>10, <1>14, <1>15, <1>16 DEF Reported
  <1> QED
    BY <1>2, <1>17 DEF Order

LEMMA ServiceOrder == WheelTypes /\ Order /\ ServiceWheel => Order'
  <1> SUFFICES ASSUME WheelTypes, Order, ServiceWheel PROVE Order'
    OBVIOUS
  <1>1. CASE q_ = <<>>
    <2>1. /\ UNCHANGED <<kind, script, written, half, unread, reports, lastWheelSN_, hubTime_>>
          /\ UNCHANGED <<ready_, lastHub_, lastHost_, mapped, hubOrigin, inputEnded>>
          /\ UNCHANGED <<q_, reader, tmp>>
      BY <1>1 DEF ServiceWheel, inputVars, mappingVars, reportVars
    <2>2. Pipe' = Pipe
      BY <2>1 DEF Pipe
    <2> QED
      BY <2>1, <2>2, SameOrder, MappedStays DEF Order
  <1>2. CASE q_ # <<>> /\ IsReport(Head(q_)) /\ ready_
    BY <1>2, LineReported
  <1>3. CASE q_ # <<>> /\ ~(IsReport(Head(q_)) /\ ready_)
    <2>1. UNCHANGED reportVars
      BY <1>3 DEF ServiceWheel
    <2> QED
      BY <1>3, <2>1, NothingReported
  <1> QED
    BY <1>1, <1>2, <1>3

\* Every step keeps the order.
LEMMA StepOrder ==
    ASSUME SessionInv, Order, [Next]_vars
    PROVE  Order'
  <1> USE DEF readerVars, mappingVars, ownerVars, reportVars, inputVars
  <1>1. WheelTypes /\ TypeOK /\ (pc = "makeWheel" => reader = "none")
    BY DEF SessionInv, Opened, Early
  <1>2. CASE WriteLine
    <2>1. Unread' /\ NextPlace' = NextPlace
      BY <1>1, <1>2, WriterOrder
    <2>2. /\ UNCHANGED <<kind, script, reports, ready_, lastHub_, lastHost_, mapped, hubOrigin>>
          /\ UNCHANGED <<reader, tmp, q_, lastWheelSN_, hubTime_>>
      BY <1>2 DEF WriteLine
    <2>3. Pipe' = Pipe
      BY <2>2 DEF Pipe
    <2> QED
      BY <2>1, <2>2, <2>3, OrderStays, MappedStays DEF Order
  <1>3. ASSUME Pipe' = Pipe, inputEnded => inputEnded',
               UNCHANGED <<kind, script, written, half, unread, reports, lastWheelSN_, hubTime_>>,
               UNCHANGED <<ready_, lastHub_, lastHost_, mapped, hubOrigin>>
        PROVE  Order'
    BY <1>1, <1>3, SameOrder, MappedStays DEF Order
  <1>4. CASE EndInput \/ Tick
    <2>1. /\ UNCHANGED <<kind, script, written, half, unread, reports, lastWheelSN_, hubTime_>>
          /\ UNCHANGED <<ready_, lastHub_, lastHost_, mapped, hubOrigin, reader, tmp, q_>>
          /\ inputEnded => inputEnded'
      BY <1>4 DEF EndInput, Tick
    <2>2. Pipe' = Pipe
      BY <2>1 DEF Pipe
    <2> QED
      BY <1>3, <2>1, <2>2
  <1>5. CASE ReaderTests \/ ReaderPushes
    <2>1. /\ UNCHANGED <<kind, script, written, half, unread, reports, lastWheelSN_, hubTime_>>
          /\ UNCHANGED <<ready_, lastHub_, lastHost_, mapped, hubOrigin, inputEnded>>
      BY <1>5 DEF ReaderTests, ReaderPushes
    <2>2. Pipe' = Pipe
      <3>1. CASE ReaderTests
        BY <3>1 DEF ReaderTests, Pipe
      <3>2. CASE ReaderPushes
        <4>1. reader = "push" /\ reader' = "test" /\ q_' = Append(q_, tmp)
          BY <3>2 DEF ReaderPushes
        <4> QED
          BY <4>1 DEF Pipe
      <3> QED
        BY <1>5, <3>1, <3>2
    <2> QED
      BY <1>3, <2>1, <2>2
  <1>6. CASE ReaderReads
    BY <1>1, <1>6, ReadOrder
  <1>7. CASE pc = "makeWheel" /\ Construct
    <2>1. /\ UNCHANGED <<kind, script, written, half, unread, reports, lastWheelSN_, hubTime_>>
          /\ UNCHANGED <<ready_, lastHub_, lastHost_, mapped, hubOrigin, inputEnded, q_>>
          /\ reader = "none" /\ reader' = "test"
      BY <1>1, <1>7 DEF Construct
    <2>2. Pipe' = Pipe
      BY <2>1 DEF Pipe
    <2> QED
      BY <1>3, <2>1, <2>2
  <1>8. CASE ServiceWheel
    BY <1>1, <1>8, ServiceOrder
  <1>9. CASE CloseInput \/ StopReader \/ Join
    <2>1. /\ UNCHANGED <<kind, script, written, half, unread, reports, lastWheelSN_, hubTime_>>
          /\ UNCHANGED <<ready_, lastHub_, lastHost_, mapped, hubOrigin, inputEnded>>
          /\ UNCHANGED <<reader, tmp, q_>>
      BY <1>9 DEF CloseInput, StopReader, Join
    <2>2. Pipe' = Pipe
      BY <2>1 DEF Pipe
    <2> QED
      BY <1>3, <2>1, <2>2
  <1>10. CASE \/ ClockRestarts
              \/ \E delay \in 0 .. MaxDelay : ReportModuleTime(HubClock(now - delay), TRUE)
              \/ \E time \in HubTimes : ReportModuleTime(time, FALSE)
    BY <1>1, <1>10, ClockOrder
  <1>11. CASE UNCHANGED wheelVars
    <2>1. /\ UNCHANGED <<kind, script, written, half, unread, reports, lastWheelSN_, hubTime_>>
          /\ UNCHANGED <<ready_, lastHub_, lastHost_, mapped, hubOrigin, inputEnded>>
          /\ UNCHANGED <<reader, tmp, q_>>
      BY <1>11 DEF wheelVars
    <2>2. Pipe' = Pipe
      BY <2>1 DEF Pipe
    <2> QED
      BY <1>3, <2>1, <2>2
  <1>12. WheelStep \/ UNCHANGED wheelVars
    BY <1>1, StepsOfTheWheel
  <1> QED
    BY <1>2, <1>4, <1>5, <1>6, <1>7, <1>8, <1>9, <1>10, <1>11, <1>12 DEF WheelStep

\* Nothing is written or read at first.
LEMMA FirstOrder == Init => Order
  <1> SUFFICES ASSUME Init PROVE Order
    OBVIOUS
  <1>1. /\ half = FALSE /\ unread = <<>> /\ written = 0 /\ q_ = <<>> /\ reader = "none"
        /\ reports = <<>> /\ lastWheelSN_ = -1 /\ mapped = FALSE
    BY DEF Init, WheelInit
  <1>2. Len(unread) = 0 /\ Len(reports) = 0 /\ DOMAIN reports = {}
    BY <1>1
  <1>3. Unread
    <2>1. 1 .. Len(unread) = {} /\ 1 .. Len(unread) - 1 = {}
      BY <1>2
    <2> QED
      BY <1>1, <2>1 DEF Unread
  <1>4. Piped
    <2>1. Pipe = <<>>
      BY <1>1 DEF Pipe
    <2>2. 1 .. Len(Pipe) = {} /\ 1 .. Len(Pipe) - 1 = {}
      BY <2>1
    <2> QED
      BY <2>1, <2>2 DEF Piped
  <1>5. WheelReports
    <2>1. 2 .. Len(reports) = {}
      BY <1>2
    <2> QED
      BY <1>2, <2>1 DEF WheelReports, ReportsAreLines, TimesAreTheHubs
  <1>6. Reported
    <2>1. reports \in Seq(Report)
      BY <1>1
    <2> QED
      BY <1>1, <1>5, <2>1 DEF Reported
  <1>7. Mapped
    BY <1>1 DEF Mapped
  <1> QED
    BY <1>3, <1>4, <1>6, <1>7 DEF Order

\* Wheel lines are reported once and in order, and none is left out but one of a file that
\* was read in two parts; reports that belong together have one time, and any other has
\* the hub's, if the host has heard of the hub's present clock within the span of the
\* cast.  That is so for every input, clock and span, however the writer, the reader, the
\* session and the hub take turns, and whenever the hub restarts.
THEOREM LinesAreReported == Spec => []WheelReports
  <1> DEFINE Inv == SessionInv /\ Order
  <1>1. Init => Inv
    BY InitSession, FirstOrder
  <1>2. Inv /\ [Next]_vars => Inv'
    BY NextSession, StepOrder
  <1>3. Inv => WheelReports
    BY DEF Order, Reported
  <1> QED
    BY <1>1, <1>2, <1>3, PTL DEF Spec
=============================================================================
