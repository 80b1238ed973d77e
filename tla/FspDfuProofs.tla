---------------------------- MODULE FspDfuProofs ----------------------------
(***************************************************************************)
(* Proofs about the FSP200 update, for every firmware file, block size,    *)
(* offset width, timeout, set of faults and number of restarts.            *)
(*                                                                         *)
(* The argument: until the hub restarts, the exchange between the host and *)
(* the hub goes through six stages, one for each state of the DFU state    *)
(* machine.  A stage says what the line may hold and how far the hub is.   *)
(* That is the inductive invariant; the safety properties follow from it.  *)
(***************************************************************************)
EXTENDS FspDfu, SequenceTheorems, TLAPS

\* A file run() goes on with is one openFirmware accepted, and its length is known.
Accepted == pc \in {"openShtp", "service"} =>
                FirmwareStatus = "SH2_OK" /\ m_appLen = firmware.appLen

\* Before the service loop, and after it, there is nothing on the line.
Idle == pc # "service" => /\ stack = <<>> /\ toHub = <<>> /\ fromHub = <<>>
                          /\ hubMode = "off"

\* Before the service loop nothing has happened to the hub.
Fresh == pc \in {"openFirmware", "openShtp"} =>
             m_state = "INIT" /\ image = "old" /\ stored = 0

Upgrade == OpModeReq("UPGRADE")
Launch  == OpModeReq("APPLICATION")
Write   == WriteReq(m_wordOffset, m_writeLen)
Frame(req, next) == [req |-> req, next |-> next]

Line(s, t, f) == stack = s /\ toHub = t /\ fromHub = f

\* The line is empty but for at most one response of the kind `id'.
AtMostResponse(id) ==
    /\ stack = <<>> /\ toHub = <<>>
    /\ \/ fromHub = <<>>
       \/ Len(fromHub) = 1 /\ fromHub[1].id = id

\* The block under way is the next one.
Block == /\ m_wordOffset + m_writeLen <= Words
         /\ m_writeLen > 0

InitStage ==
    /\ m_state = "INIT"
    /\ hubMode = "boot" /\ image = "old" /\ stored = 0
    /\ \/ AtMostResponse("STATUS_RESP")
       \/ Line(<<Frame(Upgrade, "SETTING_MODE")>>, <<>>, <<>>)

SettingStage ==
    /\ m_state = "SETTING_MODE"
    /\ stored = 0
    /\ \/ /\ hubMode = "boot" /\ Line(<<>>, <<Upgrade>>, <<>>)
       \/ /\ hubMode \in {"boot", "upgrade"} /\ Line(<<>>, <<>>, <<>>)
       \/ /\ hubMode = "boot"
          /\ Line(<<>>, <<>>, <<OpModeResp("UPGRADE", FALSE)>>)
       \/ /\ hubMode = "upgrade" /\ image = "mixed"
          /\ Line(<<>>, <<>>, <<OpModeResp("UPGRADE", TRUE)>>)
       \/ /\ hubMode = "upgrade" /\ image = "mixed"
          /\ m_wordOffset = 0 /\ Block
          /\ Line(<<Frame(Write, "SENDING_DATA")>>, <<>>, <<>>)

SendingStage ==
    /\ m_state = "SENDING_DATA"
    /\ Block
    /\ image # "old"
    /\ hubMode \in {"boot", "upgrade"}
    /\ hubMode = "boot" => m_wordOffset + m_writeLen = Words
    /\ \/ /\ hubMode = "upgrade" /\ stored = m_wordOffset
          /\ image = "mixed"
          /\ \/ Line(<<Frame(Write, "SENDING_DATA")>>, <<>>, <<>>)
             \/ Line(<<>>, <<Write>>, <<>>)
             \/ Line(<<>>, <<>>, <<>>)
             \/ Line(<<>>, <<>>, <<WriteResp(m_wordOffset, FALSE)>>)
       \/ /\ stored = m_wordOffset + m_writeLen
          /\ hubMode = "upgrade" => image = "mixed"
          /\ \/ hubMode = "upgrade" /\ Line(<<>>, <<>>, <<>>)
             \/ /\ hubMode = "upgrade"
                /\ Line(<<>>, <<>>, <<WriteResp(m_wordOffset, TRUE)>>)
             \/ /\ hubMode = "boot" /\ AtMostResponse("STATUS_RESP")
                /\ Len(fromHub) = 1 => (fromHub[1].appValid => image = "new")
             \/ /\ hubMode = "boot"
                /\ stack = <<>> /\ toHub = <<>> /\ Len(fromHub) = 2
                /\ fromHub[1] = WriteResp(m_wordOffset, TRUE)
                /\ fromHub[2].id = "STATUS_RESP"
                /\ fromHub[2].appValid => image = "new"

WaitStage ==
    /\ m_state = "WAIT_COMPLETION"
    /\ stored = Words
    /\ hubMode = "upgrade" => image = "mixed"
    /\ \/ hubMode \in {"boot", "upgrade"} /\ Line(<<>>, <<>>, <<>>)
       \/ /\ hubMode = "boot" /\ AtMostResponse("STATUS_RESP")
          /\ Len(fromHub) = 1 => (fromHub[1].appValid => image = "new")
       \/ /\ hubMode = "boot" /\ image = "new"
          /\ Line(<<Frame(Launch, "LAUNCHING")>>, <<>>, <<>>)

LaunchStage ==
    /\ m_state = "LAUNCHING"
    /\ image = "new"
    /\ hubMode \in {"boot", "app"}
    /\ \/ hubMode = "boot" /\ Line(<<>>, <<Launch>>, <<>>)
       \/ AtMostResponse("OPMODE_RESP")

\* Whatever the hub still sends, nobody asks it for anything.
FinishedStage ==
    /\ m_state = "FINISHED"
    /\ stack = <<>> /\ toHub = <<>>
    /\ m_status = "SH2_OK" => image = "new" /\ hubMode # "upgrade"

Stages == \/ InitStage \/ SettingStage \/ SendingStage
          \/ WaitStage \/ LaunchStage \/ FinishedStage

InStage == Calm /\ pc = "service" => Stages

\* What LeaveLoop leaves behind.
Reported == restarts = 0 => SuccessMeansInstalled

\* If the offsets wrap, the state machine never gets to WAIT_COMPLETION.
Wraps ==
    ~Fits => /\ m_state \notin {"WAIT_COMPLETION", "LAUNCHING"}
             /\ \A i \in DOMAIN stack : stack[i].next # "LAUNCHING"
             /\ m_state = "FINISHED" => m_status # "SH2_OK"

\* Upgrade mode is entered by erasing the application.
Erased == hubMode = "upgrade" => image = "mixed"

Inv == TypeOK /\ Accepted /\ Idle /\ Fresh /\ Erased /\ Wraps /\ InStage /\ Reported

-----------------------------------------------------------------------------
(* Sequences and messages.                                                 *)

\* Pushing a frame.
LEMMA PushProperties ==
    ASSUME NEW S, NEW s \in Seq(S), NEW e \in S
    PROVE  /\ <<e>> \o s \in Seq(S)
           /\ s = <<>> => <<e>> \o s = <<e>>
           /\ \A i \in DOMAIN (<<e>> \o s) :
                 (<<e>> \o s)[i] = e \/ \E j \in DOMAIN s : (<<e>> \o s)[i] = s[j]
<1>1. <<e>> \in Seq(S) /\ Len(<<e>>) = 1 /\ <<e>>[1] = e
  OBVIOUS
<1>2. /\ <<e>> \o s \in Seq(S)
      /\ Len(<<e>> \o s) = 1 + Len(s)
      /\ \A i \in 1 .. 1 + Len(s) : (<<e>> \o s)[i] = IF i <= 1 THEN e ELSE s[i - 1]
  BY <1>1, ConcatProperties
<1>3. s = <<>> => <<e>> \o s = <<e>>
  BY <1>1, ConcatEmptySeq
<1>4. ASSUME NEW i \in DOMAIN (<<e>> \o s)
      PROVE  (<<e>> \o s)[i] = e \/ \E j \in DOMAIN s : (<<e>> \o s)[i] = s[j]
  <2>1. i \in 1 .. 1 + Len(s) /\ Len(s) \in Nat
    BY <1>2
  <2>2. CASE i <= 1
    BY <1>2, <2>1, <2>2
  <2>3. CASE i > 1
    <3>1. i - 1 \in DOMAIN s
      BY <2>1, <2>3
    <3> QED BY <1>2, <2>1, <2>3, <3>1
  <2> QED BY <2>1, <2>2, <2>3
<1> QED BY <1>2, <1>3, <1>4

LEMMA TailProperties ==
    ASSUME NEW S, NEW s \in Seq(S), s # <<>>
    PROVE  /\ Tail(s) \in Seq(S)
           /\ Head(s) \in S /\ Head(s) = s[1] /\ 1 \in DOMAIN s
           /\ Len(Tail(s)) = Len(s) - 1
           /\ \A i \in DOMAIN Tail(s) : i + 1 \in DOMAIN s /\ Tail(s)[i] = s[i + 1]
           /\ Len(s) = 1 => Tail(s) = <<>>
<1>1. Len(s) \in Nat /\ DOMAIN s = 1 .. Len(s) /\ Len(s) # 0
  BY EmptySeq
<1>2. /\ Tail(s) \in Seq(S) /\ Head(s) \in S /\ Len(Tail(s)) = Len(s) - 1
      /\ \A i \in 1 .. Len(Tail(s)) : Tail(s)[i] = s[i + 1]
  BY HeadTailProperties
<1>3. Head(s) = s[1] /\ 1 \in DOMAIN s
  BY <1>1
<1>4. \A i \in DOMAIN Tail(s) : i + 1 \in DOMAIN s /\ Tail(s)[i] = s[i + 1]
  BY <1>1, <1>2
<1>5. ASSUME Len(s) = 1
      PROVE  Tail(s) = <<>>
  <2>1. Len(Tail(s)) = 0 /\ Tail(s) \in Seq(S)
    BY <1>1, <1>2, <1>5
  <2>2. \A t \in Seq(S) : t # <<>> => Len(t) \in Nat \ {0}
    BY EmptySeq
  <2> QED BY <2>1, <2>2
<1> QED BY <1>2, <1>3, <1>4, <1>5

LEMMA MessageTypes ==
    /\ \A mode \in OpModes : OpModeReq(mode) \in Requests
    /\ \A off, len \in Nat : WriteReq(off, len) \in Requests
    /\ \A mode \in OpModes, ok \in BOOLEAN : OpModeResp(mode, ok) \in Responses
    /\ \A off \in Nat, ok \in BOOLEAN : WriteResp(off, ok) \in Responses
    /\ \A boot, valid, err \in BOOLEAN : StatusResp(boot, valid, err) \in Responses
  BY DEF OpModes, OpModeReq, WriteReq, OpModeResp, WriteResp, StatusResp,
         Requests, Responses

-----------------------------------------------------------------------------
(* Type correctness.                                                       *)

USE DEF constVars, dfuVars, runVars, lineVars, hubVars

LEMMA TypeInit == Init => TypeOK
<1> SUFFICES ASSUME Init PROVE TypeOK
  OBVIOUS
<1>1. /\ m_wordOffset \in 0 .. OffsetMod - 1 /\ m_writeLen \in 0 .. BlockWords
      /\ elapsed \in 0 .. DfuTimeout /\ restarts \in 0 .. MaxRestarts
  BY SizeAssumption, FaultAssumption DEF Init
<1>2. stack \in Seq(Frames) /\ toHub \in Seq(Requests) /\ fromHub \in Seq(Responses)
  BY EmptySeq DEF Init
<1> QED BY <1>1, <1>2 DEF Init, TypeOK, Statuses, States

LEMMA RequestWriteType ==
    ASSUME TypeOK, NEW off \in 0 .. OffsetMod - 1, RequestWrite(off)
    PROVE  /\ m_wordOffset' \in 0 .. OffsetMod - 1
           /\ m_writeLen' \in 0 .. BlockWords
           /\ stack' \in Seq(Frames)
           /\ m_status' = m_status /\ m_state' = m_state
<1> DEFINE left == (m_appLen \div 4) - off
           len  == IF left < 0 \/ left > BlockWords THEN BlockWords ELSE left
<1>1. left \in Int /\ len \in 0 .. BlockWords
  BY SizeAssumption DEF TypeOK
<1>2. /\ m_wordOffset' = off /\ m_writeLen' = len
      /\ stack' = <<[req |-> WriteReq(off, len), next |-> "SENDING_DATA"]>> \o stack
      /\ m_status' = m_status /\ m_state' = m_state
  BY DEF RequestWrite, Send
<1>3. WriteReq(off, len) \in Requests
  BY <1>1, SizeAssumption, MessageTypes
<1>4. [req |-> WriteReq(off, len), next |-> "SENDING_DATA"] \in Frames
  BY <1>3 DEF Frames
<1>5. stack' \in Seq(Frames)
  BY <1>2, <1>4, PushProperties DEF TypeOK
<1> QED BY <1>1, <1>2, <1>5

LEMMA OpModeSendType ==
    ASSUME TypeOK, NEW mode \in OpModes, NEW next \in {"SETTING_MODE", "LAUNCHING"},
           Send(OpModeReq(mode), next)
    PROVE  stack' \in Seq(Frames) /\ m_status' = m_status /\ m_state' = m_state
<1>1. [req |-> OpModeReq(mode), next |-> next] \in Frames
  BY MessageTypes DEF Frames
<1> QED BY <1>1, PushProperties DEF Send, TypeOK

LEMMA ReceiveType ==
    ASSUME TypeOK, NEW id, Receive(id)
    PROVE  /\ fromHub' \in Seq(Responses)
           /\ Head(fromHub) \in Responses /\ Head(fromHub).id = id
  BY TailProperties DEF Receive, TypeOK

LEMMA AnswerType ==
    ASSUME TypeOK, NEW resp \in Responses, Answer(resp)
    PROVE  fromHub' \in Seq(Responses)
  BY AppendProperties DEF Answer, TypeOK

LEMMA TypeNext == TypeOK /\ [Next]_vars => TypeOK'
<1> SUFFICES ASSUME TypeOK, [Next]_vars PROVE TypeOK'
  OBVIOUS
<1>1. CASE OpenFirmware
  <2>1. firmware.appLen \in Nat /\ firmware.opens \in BOOLEAN
    BY FirmwareAssumption DEF TypeOK
  <2>2. FirmwareStatus \in Statuses
    BY DEF FirmwareStatus, Statuses
  <2> QED BY <1>1, <2>1, <2>2 DEF OpenFirmware, TypeOK
<1>2. CASE OpenShtp
  <2>1. \A boot \in BOOLEAN : BootStatus(boot) \in Responses
    BY MessageTypes DEF BootStatus
  <2>2. fromHub' \in Seq(Responses)
    BY <1>2, <2>1 DEF OpenShtp
  <2> QED BY <1>2, <2>2 DEF OpenShtp, TypeOK
<1>3. CASE OpenShtpFails
  BY <1>3 DEF OpenShtpFails, TypeOK, Statuses
<1>4. CASE LeaveLoop
  BY <1>4, EmptySeq DEF LeaveLoop, TypeOK, Statuses
<1>5. CASE Fin
  BY <1>5 DEF Fin, TypeOK
<1>6. CASE HandleInitStatus
  <2>1. stack' \in Seq(Frames) /\ m_status' \in Statuses /\ m_state' \in States
    BY <1>6, OpModeSendType DEF HandleInitStatus, Finish, OpModes, TypeOK, Statuses, States
  <2> QED BY <1>6, <2>1, ReceiveType DEF HandleInitStatus, TypeOK
<1>7. CASE HandleModeResponse
  <2>1. 0 \in 0 .. OffsetMod - 1
    BY SizeAssumption
  <2>2. /\ stack' \in Seq(Frames) /\ m_status' \in Statuses /\ m_state' \in States
        /\ m_wordOffset' \in 0 .. OffsetMod - 1 /\ m_writeLen' \in 0 .. BlockWords
    BY <1>7, <2>1, RequestWriteType
       DEF HandleModeResponse, Finish, TypeOK, Statuses, States
  <2> QED BY <1>7, <2>2, ReceiveType DEF HandleModeResponse, TypeOK
<1>8. CASE HandleWriteResponse
  <2> DEFINE off == (m_wordOffset + m_writeLen) % OffsetMod
  <2>1. off \in 0 .. OffsetMod - 1
    BY SizeAssumption DEF TypeOK
  <2>2. /\ stack' \in Seq(Frames) /\ m_status' \in Statuses /\ m_state' \in States
        /\ m_wordOffset' \in 0 .. OffsetMod - 1 /\ m_writeLen' \in 0 .. BlockWords
    BY <1>8, <2>1, RequestWriteType
       DEF HandleWriteResponse, Finish, TypeOK, Statuses, States
  <2> QED BY <1>8, <2>2, ReceiveType DEF HandleWriteResponse, TypeOK
<1>9. CASE HandleFinalStatus
  <2>1. stack' \in Seq(Frames) /\ m_status' \in Statuses /\ m_state' \in States
    BY <1>9, OpModeSendType DEF HandleFinalStatus, Finish, OpModes, TypeOK, Statuses, States
  <2> QED BY <1>9, <2>1, ReceiveType DEF HandleFinalStatus, TypeOK
<1>10. CASE HandleLaunchResp
  BY <1>10, ReceiveType DEF HandleLaunchResp, Finish, TypeOK, Statuses, States
<1>11. CASE IgnoreResponse
  BY <1>11, ReceiveType DEF IgnoreResponse, TypeOK
<1>12. CASE SendDone
  <2>1. Head(stack) \in Frames /\ Tail(stack) \in Seq(Frames)
    BY <1>12, TailProperties DEF SendDone, TypeOK
  <2>2. Head(stack).req \in Requests /\ Head(stack).next \in States
    BY <2>1 DEF Frames, States
  <2>3. toHub' \in Seq(Requests)
    BY <1>12, <2>2, AppendProperties DEF SendDone, TypeOK
  <2> QED BY <1>12, <2>1, <2>2, <2>3 DEF SendDone, TypeOK, Statuses
<1>13. CASE HubUpgrade
  <2>1. toHub' \in Seq(Requests)
    BY <1>13, TailProperties DEF HubUpgrade, HubTakes, TypeOK
  <2>2. fromHub' \in Seq(Responses)
    BY <1>13, AnswerType, MessageTypes DEF HubUpgrade, OpModes, TypeOK
  <2>3. hubMode' \in {"off", "boot", "upgrade", "app"} /\ stored' \in Nat
        /\ image' \in {"old", "mixed", "new"}
    <3>1. \/ hubMode' = "upgrade" /\ stored' = 0 /\ image' = "mixed"
          \/ UNCHANGED <<hubMode, stored, image>>
      BY <1>13, Zenon DEF HubUpgrade
    <3> QED BY <3>1 DEF TypeOK
  <2> QED BY <1>13, <2>1, <2>2, <2>3 DEF HubUpgrade, TypeOK
<1>14. CASE HubLaunch
  <2>1. toHub' \in Seq(Requests)
    BY <1>14, TailProperties DEF HubLaunch, HubTakes, TypeOK
  <2>2. fromHub' \in Seq(Responses)
    BY <1>14, AnswerType, MessageTypes DEF HubLaunch, OpModes, TypeOK
  <2> QED BY <1>14, <2>1, <2>2 DEF HubLaunch, TypeOK
<1>15. CASE HubWrite
  <2>1. toHub' \in Seq(Requests) /\ Head(toHub) \in Requests /\ Head(toHub).id = "WRITE_REQ"
    BY <1>15, TailProperties DEF HubWrite, HubTakes, TypeOK
  <2>2. Head(toHub).off \in Nat /\ Head(toHub).len \in Nat
    BY <2>1 DEF Requests
  <2>3. fromHub' \in Seq(Responses)
    BY <1>15, <2>2, AnswerType, MessageTypes DEF HubWrite, TypeOK
  <2>4. stored' \in Nat
    <3>1. stored' = stored + Head(toHub).len \/ stored' = stored
      BY <1>15, Zenon DEF HubWrite
    <3> QED BY <2>2, <3>1 DEF TypeOK
  <2> QED BY <1>15, <2>1, <2>3, <2>4 DEF HubWrite, TypeOK
<1>16. CASE HubReport
  <2>1. fromHub' \in Seq(Responses)
    BY <1>16, AnswerType, MessageTypes DEF HubReport
  <2> QED BY <1>16, <2>1 DEF HubReport, TypeOK
<1>17. CASE HubRestart
  <2>1. BootStatus(TRUE) \in Responses
    BY MessageTypes DEF BootStatus
  <2>2. fromHub' \in Seq(Responses)
    BY <1>17, <2>1, AnswerType DEF HubRestart
  <2> QED BY <1>17, <2>2, FaultAssumption DEF HubRestart, TypeOK
<1>18. CASE Lose
  <2>1. toHub \in Seq(Requests) /\ fromHub \in Seq(Responses)
    BY DEF TypeOK
  <2>2. /\ (toHub # <<>> /\ toHub' = Tail(toHub)) \/ toHub' = toHub
        /\ (fromHub # <<>> /\ fromHub' = Tail(fromHub)) \/ fromHub' = fromHub
    BY <1>18 DEF Lose
  <2>3. toHub' \in Seq(Requests) /\ fromHub' \in Seq(Responses)
    BY <2>1, <2>2, TailProperties
  <2> QED BY <1>18, <2>3 DEF Lose, TypeOK
<1>19. CASE Tick
  BY <1>19, SizeAssumption DEF Tick, TypeOK
<1>20. CASE UNCHANGED vars
  BY <1>20 DEF vars, TypeOK
<1> QED BY <1>1, <1>2, <1>3, <1>4, <1>5, <1>6, <1>7, <1>8, <1>9, <1>10, <1>11,
           <1>12, <1>13, <1>14, <1>15, <1>16, <1>17, <1>18, <1>19, <1>20
        DEF Next, Host, Running, Listener, Hub, Finished

\* Every variable keeps its type, for every value of the constants.
THEOREM TypeCorrect == Spec => []TypeOK
  BY TypeInit, TypeNext, PTL DEF Spec

-----------------------------------------------------------------------------
(* The inductive invariant: the parts that do not depend on the stage.     *)

\* Everything but the run() actions happens in the service loop.
Serving == Listener \/ SendDone \/ Hub \/ HubRestart \/ Lose \/ Tick

LEMMA ServingStep ==
    ASSUME Idle, Serving
    PROVE  /\ pc = "service" /\ pc' = "service"
           /\ m_appLen' = m_appLen /\ UNCHANGED constVars
<1>1. CASE Listener
  BY <1>1 DEF Listener, HandleInitStatus, HandleModeResponse, HandleWriteResponse,
              HandleFinalStatus, HandleLaunchResp, IgnoreResponse, Receive
<1>2. CASE SendDone
  BY <1>2 DEF SendDone
<1>3. CASE Hub
  BY <1>3 DEF Hub, HubUpgrade, HubLaunch, HubWrite, HubReport, HubTakes,
              ReportDue, Idle
<1>4. CASE HubRestart \/ Lose \/ Tick
  BY <1>4 DEF HubRestart, Lose, Tick, Idle
<1> QED BY <1>1, <1>2, <1>3, <1>4 DEF Serving

LEMMA NextCases ==
    ASSUME [Next]_vars
    PROVE  \/ OpenFirmware \/ OpenShtp \/ OpenShtpFails \/ LeaveLoop \/ Fin
           \/ Serving \/ UNCHANGED vars
  BY DEF Next, Host, Running, Serving, Finished

LEMMA FrameInit == Init => Accepted /\ Idle /\ Fresh /\ Wraps /\ InStage /\ Reported
  BY EmptySeq DEF Init, Accepted, Idle, Fresh, Wraps, InStage, Reported,
                  SuccessMeansInstalled

LEMMA FrameNext ==
    ASSUME TypeOK, Accepted, Idle, Fresh, [Next]_vars
    PROVE  Accepted' /\ Idle' /\ Fresh'
<1>1. CASE OpenFirmware
  BY <1>1 DEF OpenFirmware, FirmwareStatus, Accepted, Idle, Fresh
<1>2. CASE OpenShtp
  BY <1>2 DEF OpenShtp, FirmwareStatus, Accepted, Idle, Fresh
<1>3. CASE OpenShtpFails \/ LeaveLoop \/ Fin
  BY <1>3 DEF OpenShtpFails, LeaveLoop, Fin, Accepted, Idle, Fresh
<1>4. CASE Serving
  BY <1>4, ServingStep DEF FirmwareStatus, Accepted, Idle, Fresh
<1>5. CASE UNCHANGED vars
  BY <1>5 DEF vars, FirmwareStatus, Accepted, Idle, Fresh
<1> QED BY <1>1, <1>2, <1>3, <1>4, <1>5, NextCases

\* The length of an accepted file is Words whole words.
LEMMA WholeWords ==
    ASSUME TypeOK, Accepted, pc = "service"
    PROVE  Words \in Nat \ {0} /\ m_appLen = 4 * Words /\ m_appLen \div 4 = Words
<1>1. firmware.appLen \in Nat /\ MinAppLen \in Nat \ {0}
  BY FirmwareAssumption, SizeAssumption DEF TypeOK
<1>2. FirmwareStatus = "SH2_OK" /\ m_appLen = firmware.appLen
  BY DEF Accepted
<1>3. ~(firmware.appLen < MinAppLen) /\ firmware.appLen % 4 = 0
  BY <1>2 DEF FirmwareStatus
<1> QED BY <1>1, <1>2, <1>3 DEF Words

\* If the offsets wrap, no offset is ever the last one.
LEMMA WrapsNext ==
    ASSUME TypeOK, Accepted, Idle, Fresh, Wraps, [Next]_vars
    PROVE  Wraps'
<1> SUFFICES ASSUME ~Fits
             PROVE  /\ m_state' \notin {"WAIT_COMPLETION", "LAUNCHING"}
                    /\ \A i \in DOMAIN stack' : stack'[i].next # "LAUNCHING"
                    /\ m_state' = "FINISHED" => m_status' # "SH2_OK"
  <2>1. constVars' = constVars
    BY NextCases, ServingStep
       DEF OpenFirmware, OpenShtp, OpenShtpFails, LeaveLoop, Fin, vars
  <2>2. Fits' = Fits
    BY <2>1 DEF Fits, Words
  <2> QED BY <2>2 DEF Wraps
<1>0. /\ m_state \notin {"WAIT_COMPLETION", "LAUNCHING"}
      /\ \A i \in DOMAIN stack : stack[i].next # "LAUNCHING"
      /\ m_state = "FINISHED" => m_status # "SH2_OK"
  BY DEF Wraps
<1>1. CASE OpenFirmware \/ OpenShtp \/ OpenShtpFails \/ Fin
  BY <1>0, <1>1 DEF OpenFirmware, OpenShtp, OpenShtpFails, Fin, Fresh
<1>2. CASE LeaveLoop
  BY <1>0, <1>2 DEF LeaveLoop
<1>3. CASE Listener
  <2>1. ASSUME NEW req \in Requests, NEW next \in {"SETTING_MODE", "SENDING_DATA"},
               Send(req, next)
        PROVE  /\ \A i \in DOMAIN stack' : stack'[i].next # "LAUNCHING"
               /\ m_state' = m_state /\ m_status' = m_status
    <3>1. [req |-> req, next |-> next] \in Frames
      BY DEF Frames
    <3> QED BY <1>0, <2>1, <3>1, PushProperties DEF Send, TypeOK
  <2>2. ASSUME NEW off \in 0 .. OffsetMod - 1, RequestWrite(off)
        PROVE  /\ \A i \in DOMAIN stack' : stack'[i].next # "LAUNCHING"
               /\ m_state' = m_state /\ m_status' = m_status
    <3> DEFINE left == (m_appLen \div 4) - off
               len  == IF left < 0 \/ left > BlockWords THEN BlockWords ELSE left
    <3>1. WriteReq(off, len) \in Requests
      BY MessageTypes, SizeAssumption DEF TypeOK
    <3>2. Send(WriteReq(off, len), "SENDING_DATA")
      BY <2>2 DEF RequestWrite
    <3> QED BY <2>1, <3>1, <3>2
  <2>3. CASE HandleInitStatus
    <3>1. OpModeReq("UPGRADE") \in Requests
      BY MessageTypes DEF OpModes
    <3> QED BY <1>0, <2>1, <2>3, <3>1 DEF HandleInitStatus, Finish
  <2>4. CASE HandleModeResponse
    <3>1. 0 \in 0 .. OffsetMod - 1
      BY SizeAssumption
    <3> QED BY <1>0, <2>2, <2>4, <3>1 DEF HandleModeResponse, Finish
  <2>5. CASE HandleWriteResponse
    <3> DEFINE off == (m_wordOffset + m_writeLen) % OffsetMod
    <3>1. off \in 0 .. OffsetMod - 1
      BY SizeAssumption DEF TypeOK
    <3>2. pc = "service"
      BY <2>5 DEF HandleWriteResponse, Receive
    <3>3. off * 4 # m_appLen
      BY <3>1, <3>2, WholeWords, SizeAssumption DEF Fits
    <3> QED BY <1>0, <2>2, <2>5, <3>1, <3>3 DEF HandleWriteResponse, Finish
  <2>6. CASE HandleFinalStatus \/ HandleLaunchResp
    BY <1>0, <2>6 DEF HandleFinalStatus, HandleLaunchResp
  <2>7. CASE IgnoreResponse
    BY <1>0, <2>7 DEF IgnoreResponse
  <2> QED BY <1>3, <2>3, <2>4, <2>5, <2>6, <2>7 DEF Listener
<1>4. CASE SendDone
  <2>1. /\ Head(stack) = stack[1] /\ 1 \in DOMAIN stack /\ Head(stack) \in Frames
        /\ \A i \in DOMAIN Tail(stack) :
              i + 1 \in DOMAIN stack /\ Tail(stack)[i] = stack[i + 1]
    BY <1>4, TailProperties DEF SendDone, TypeOK
  <2>2. Head(stack).next \in {"SETTING_MODE", "SENDING_DATA"}
    BY <1>0, <2>1 DEF Frames
  <2> QED BY <1>0, <1>4, <2>1, <2>2 DEF SendDone
<1>5. CASE Hub \/ HubRestart \/ Lose \/ Tick
  BY <1>0, <1>5 DEF Hub, HubUpgrade, HubLaunch, HubWrite, HubReport, HubRestart,
                    Lose, Tick
<1>6. CASE UNCHANGED vars
  BY <1>0, <1>6 DEF vars
<1> QED BY <1>1, <1>2, <1>3, <1>4, <1>5, <1>6, NextCases DEF Serving

-----------------------------------------------------------------------------
(* The inductive invariant: the stages.                                    *)

LEMMA Singletons ==
    ASSUME NEW x
    PROVE  /\ <<x>> # <<>> /\ Len(<<x>>) = 1 /\ <<x>>[1] = x
           /\ Head(<<x>>) = x /\ Tail(<<x>>) = <<>>
           /\ Append(<<>>, x) = <<x>> /\ <<x>> \o <<>> = <<x>>
<1>1. <<x>> \in Seq({x}) /\ <<>> \in Seq({x}) /\ x \in {x}
  OBVIOUS
<1>2. <<x>> # <<>> /\ Len(<<x>>) = 1 /\ <<x>>[1] = x
  OBVIOUS
<1>3. Head(<<x>>) = x /\ Tail(<<x>>) = <<>>
  BY <1>1, <1>2, TailProperties
<1>4. <<x>> \o <<>> = <<x>>
  BY <1>1, PushProperties
<1>5. Append(<<>>, x) = <<x>>
  OBVIOUS
<1> QED BY <1>2, <1>3, <1>4, <1>5

\* Removing the first response, and adding one more.
LEMMA ShortLines ==
    ASSUME NEW S, NEW s \in Seq(S), NEW e \in S
    PROVE  /\ Len(s) = 1 => s # <<>> /\ Head(s) = s[1] /\ Tail(s) = <<>>
           /\ Len(s) = 2 => /\ s # <<>> /\ Head(s) = s[1]
                            /\ Len(Tail(s)) = 1 /\ Tail(s)[1] = s[2]
           /\ Len(s) = 1 => /\ Len(Append(s, e)) = 2
                            /\ Append(s, e)[1] = s[1] /\ Append(s, e)[2] = e
<1>1. Len(<<>>) = 0 /\ Len(s) \in Nat
  OBVIOUS
<1>2. Len(s) = 1 => s # <<>> /\ Head(s) = s[1] /\ Tail(s) = <<>>
  BY <1>1, TailProperties
<1>3. ASSUME Len(s) = 2
      PROVE  s # <<>> /\ Head(s) = s[1] /\ Len(Tail(s)) = 1 /\ Tail(s)[1] = s[2]
  <2>1. s # <<>>
    <3>1. s = <<>> => Len(s) = 0
      OBVIOUS
    <3> QED BY <1>3, <3>1
  <2>2. /\ Head(s) = s[1] /\ Len(Tail(s)) = 2 - 1
        /\ \A i \in 1 .. Len(Tail(s)) : Tail(s)[i] = s[i + 1]
    BY <1>3, <2>1, HeadTailProperties, TailProperties
  <2>3. Len(Tail(s)) = 1 /\ Tail(s)[1] = s[2]
    BY <2>2
  <2> QED BY <2>1, <2>2, <2>3
<1>4. ASSUME Len(s) = 1
      PROVE  /\ Len(Append(s, e)) = 2
             /\ Append(s, e)[1] = s[1] /\ Append(s, e)[2] = e
  <2>1. Len(Append(s, e)) = Len(s) + 1 /\ Append(s, e)[Len(s) + 1] = e
    BY AppendProperties
  <2>2. \A i \in 1 .. Len(s) : Append(s, e)[i] = s[i]
    BY AppendProperties
  <2> QED BY <1>4, <2>1, <2>2
<1> QED BY <1>2, <1>3, <1>4

LEMMA SmallModulus == \A n \in Nat \ {0} : \A a \in 0 .. n - 1 : a % n = a
  OBVIOUS

\* What requestWrite sends is the next block.
LEMMA NextBlock ==
    ASSUME TypeOK, Accepted, pc = "service", UNCHANGED <<firmware>>,
           NEW off \in 0 .. Words - 1, stack = <<>>, RequestWrite(off)
    PROVE  /\ m_wordOffset' = off /\ Block'
           /\ stack' = <<Frame(Write', "SENDING_DATA")>>
           /\ UNCHANGED <<m_status, m_state>>
<1> DEFINE left == (m_appLen \div 4) - off
           len  == IF left < 0 \/ left > BlockWords THEN BlockWords ELSE left
<1>1. /\ m_wordOffset' = off /\ m_writeLen' = len
      /\ Send(WriteReq(off, len), "SENDING_DATA")
  BY DEF RequestWrite
<1>2. left = Words - off /\ Words \in Nat \ {0} /\ BlockWords \in Nat \ {0}
  BY WholeWords, SizeAssumption
<1>3. len > 0 /\ off + len <= Words
  BY <1>2
<1>4. Block'
  BY <1>1, <1>3 DEF Block, Words
<1> QED BY <1>1, <1>4, Singletons DEF Send, Frame, Write

\* Each state of the machine has its stage.
LEMMA StageOf ==
    ASSUME Stages
    PROVE  /\ m_state = "INIT"            => InitStage
           /\ m_state = "SETTING_MODE"    => SettingStage
           /\ m_state = "SENDING_DATA"    => SendingStage
           /\ m_state = "WAIT_COMPLETION" => WaitStage
           /\ m_state = "LAUNCHING"       => LaunchStage
           /\ m_state = "FINISHED"        => FinishedStage
  BY DEF Stages, InitStage, SettingStage, SendingStage, WaitStage, LaunchStage,
         FinishedStage

\* In the service loop, a handler runs in its stage and leads to the next.
LEMMA ListenerStage ==
    ASSUME TypeOK, Accepted, Calm, Stages, Listener
    PROVE  Stages'
<1>1. /\ pc = "service" /\ fromHub # <<>> /\ fromHub' = Tail(fromHub)
      /\ UNCHANGED <<hubMode, image, stored, toHub, firmware>>
  BY DEF Listener, HandleInitStatus, HandleModeResponse, HandleWriteResponse,
         HandleFinalStatus, HandleLaunchResp, IgnoreResponse, Receive
<1>2. Words' = Words
  BY <1>1 DEF Words
<1>3. /\ Len(fromHub) = 1 => Head(fromHub) = fromHub[1] /\ fromHub' = <<>>
      /\ Len(fromHub) = 2 => /\ Head(fromHub) = fromHub[1]
                             /\ Len(fromHub') = 1 /\ fromHub'[1] = fromHub[2]
  BY <1>1, ShortLines, TailProperties DEF TypeOK
<1>4. ASSUME stack = <<>>, NEW req, NEW next, Send(req, next)
      PROVE  stack' = <<Frame(req, next)>> /\ UNCHANGED <<m_status, m_state>>
  BY <1>4, Singletons DEF Send, Frame
<1>5. CASE HandleInitStatus
  <2>1. InitStage /\ m_state = "INIT"
    BY <1>5, StageOf DEF HandleInitStatus
  <2>2. Len(fromHub) = 1 /\ stack = <<>> /\ toHub = <<>>
    BY <1>1, <2>1 DEF InitStage, AtMostResponse, Line
  <2>3. CASE Send(OpModeReq("UPGRADE"), "SETTING_MODE")
    <3>1. InitStage'
      BY <1>1, <1>3, <1>4, <2>1, <2>2, <2>3 DEF InitStage, Line, Upgrade
    <3> QED BY <3>1 DEF Stages
  <2>4. CASE Finish("SH2_ERR_HUB")
    BY <1>1, <2>2, <2>4 DEF Finish, Stages, FinishedStage
  <2> QED BY <1>5, <2>3, <2>4 DEF HandleInitStatus
<1>6. CASE HandleModeResponse
  <2>1. SettingStage /\ m_state = "SETTING_MODE"
    BY <1>6, StageOf DEF HandleModeResponse
  <2>2. /\ stack = <<>> /\ toHub = <<>> /\ stored = 0
        /\ \/ fromHub = <<OpModeResp("UPGRADE", FALSE)>>
           \/ /\ fromHub = <<OpModeResp("UPGRADE", TRUE)>>
              /\ hubMode = "upgrade" /\ image = "mixed"
    BY <1>1, <2>1 DEF SettingStage, Line
  <2>3. Len(fromHub) = 1 /\ fromHub' = <<>>
    BY <1>3, <2>2, Singletons
  <2>4. CASE Finish("SH2_ERR_HUB")
    BY <1>1, <2>2, <2>4 DEF Finish, Stages, FinishedStage
  <2>5. CASE Head(fromHub).ok /\ RequestWrite(0)
    <3>1. hubMode = "upgrade" /\ image = "mixed"
      BY <2>2, <2>5, Singletons DEF OpModeResp
    <3>2. 0 \in 0 .. Words - 1
      BY <1>1, WholeWords
    <3>3. /\ m_wordOffset' = 0 /\ Block'
          /\ stack' = <<Frame(Write', "SENDING_DATA")>>
          /\ m_state' = "SETTING_MODE"
      BY <1>1, <2>1, <2>2, <2>5, <3>2, NextBlock
    <3>4. SettingStage'
      BY <1>1, <2>2, <2>3, <3>1, <3>3 DEF SettingStage, Line, Frame, Write
    <3> QED BY <3>4 DEF Stages
  <2> QED BY <1>6, <2>4, <2>5 DEF HandleModeResponse
<1>7. CASE HandleWriteResponse
  <2> DEFINE off == (m_wordOffset + m_writeLen) % OffsetMod
  <2>1. SendingStage /\ m_state = "SENDING_DATA" /\ Head(fromHub).id = "WRITE_RESP"
    BY <1>7, StageOf DEF HandleWriteResponse, Receive
  <2>2. Block /\ off = m_wordOffset + m_writeLen
    <3>1. Block /\ Words < OffsetMod
      BY <2>1 DEF SendingStage, Calm, Fits
    <3>2. m_wordOffset + m_writeLen \in 0 .. OffsetMod - 1
      BY <3>1, SizeAssumption, WholeWords, <1>1 DEF Block, TypeOK
    <3> QED BY <3>1, <3>2, SmallModulus, SizeAssumption
  <2>3. stack = <<>> /\ toHub = <<>>
    BY <1>1, <2>1 DEF SendingStage, Line, AtMostResponse
  <2>4. CASE ~Head(fromHub).ok /\ Finish("SH2_ERR_HUB")
    BY <1>1, <2>3, <2>4 DEF Finish, Stages, FinishedStage
  <2>5. ASSUME Head(fromHub).ok
        PROVE  /\ stored = off
               /\ hubMode \in {"boot", "upgrade"} /\ image # "old"
               /\ hubMode = "upgrade" => image = "mixed" /\ fromHub' = <<>>
               /\ hubMode = "boot" =>
                    /\ off = Words /\ Len(fromHub') = 1
                    /\ fromHub'[1].id = "STATUS_RESP"
                    /\ fromHub'[1].appValid => image = "new"
    <3>1. fromHub # <<WriteResp(m_wordOffset, FALSE)>>
      BY <2>5, Singletons DEF WriteResp
    <3>2. Len(fromHub) = 1 => fromHub[1].id # "STATUS_RESP"
      BY <1>3, <2>1
    <3>3. /\ stored = m_wordOffset + m_writeLen
          /\ \/ /\ hubMode = "upgrade" /\ image = "mixed"
                /\ fromHub = <<WriteResp(m_wordOffset, TRUE)>>
             \/ /\ hubMode = "boot" /\ Len(fromHub) = 2
                /\ fromHub[2].id = "STATUS_RESP"
                /\ fromHub[2].appValid => image = "new"
      BY <1>1, <2>1, <3>1, <3>2 DEF SendingStage, Line, AtMostResponse
    <3>4. hubMode = "boot" => off = Words /\ image # "old"
      BY <2>1, <2>2 DEF SendingStage
    <3> QED BY <1>3, <2>2, <3>3, <3>4, Singletons
  <2>6. CASE /\ Head(fromHub).ok /\ off * 4 = m_appLen
             /\ m_state' = "WAIT_COMPLETION" /\ stack' = stack
    <3>1. off = Words
      <4>1. Words \in Nat /\ m_appLen = 4 * Words
        BY <1>1, WholeWords
      <4>2. off \in Nat /\ off * 4 = m_appLen
        BY <2>2, <2>6 DEF TypeOK
      <4> QED BY <4>1, <4>2
    <3>2. WaitStage'
      BY <1>1, <1>2, <2>3, <2>5, <2>6, <3>1 DEF WaitStage, Line, AtMostResponse
    <3> QED BY <3>2 DEF Stages
  <2>7. CASE Head(fromHub).ok /\ off * 4 # m_appLen /\ RequestWrite(off)
    <3>1. off \in 0 .. Words - 1
      <4>1. m_wordOffset + m_writeLen \in 0 .. Words /\ Words \in Nat /\ m_appLen = 4 * Words
        BY <1>1, <2>2, WholeWords, SizeAssumption DEF Block, TypeOK
      <4>2. (m_wordOffset + m_writeLen) * 4 # m_appLen
        BY <2>2, <2>7
      <4>3. m_wordOffset + m_writeLen \in 0 .. Words - 1
        BY <4>1, <4>2
      <4> QED BY <2>2, <4>3
    <3>2. hubMode = "upgrade"
      BY <2>5, <2>7, <3>1, WholeWords, <1>1
    <3>3. /\ m_wordOffset' = off /\ Block'
          /\ stack' = <<Frame(Write', "SENDING_DATA")>>
          /\ m_state' = "SENDING_DATA"
      BY <1>1, <2>1, <2>3, <2>7, <3>1, NextBlock
    <3>4. SendingStage'
      BY <1>1, <2>3, <2>5, <2>7, <3>2, <3>3 DEF SendingStage, Line, Frame, Write
    <3> QED BY <3>4 DEF Stages
  <2> QED BY <1>7, <2>4, <2>6, <2>7 DEF HandleWriteResponse
<1>8. CASE HandleFinalStatus
  <2>1. WaitStage /\ m_state = "WAIT_COMPLETION"
    BY <1>8, StageOf DEF HandleFinalStatus
  <2>2. /\ Len(fromHub) = 1 /\ stack = <<>> /\ toHub = <<>>
        /\ hubMode = "boot" /\ stored = Words
        /\ fromHub[1].appValid => image = "new"
    BY <1>1, <2>1 DEF WaitStage, AtMostResponse, Line
  <2>3. CASE Head(fromHub).appValid /\ Send(OpModeReq("APPLICATION"), "LAUNCHING")
    <3>1. WaitStage'
      BY <1>1, <1>2, <1>3, <1>4, <2>1, <2>2, <2>3 DEF WaitStage, Line, Launch
    <3> QED BY <3>1 DEF Stages
  <2>4. CASE Finish("SH2_ERR_HUB")
    BY <1>1, <2>2, <2>4 DEF Finish, Stages, FinishedStage
  <2> QED BY <1>8, <2>3, <2>4 DEF HandleFinalStatus
<1>9. CASE HandleLaunchResp
  <2>1. LaunchStage
    BY <1>9, StageOf DEF HandleLaunchResp
  <2>2. stack = <<>> /\ toHub = <<>> /\ image = "new" /\ hubMode # "upgrade"
    BY <1>1, <2>1 DEF LaunchStage, AtMostResponse, Line
  <2> QED BY <1>1, <1>9, <2>2 DEF HandleLaunchResp, Finish, Stages, FinishedStage
<1>10. CASE IgnoreResponse
  <2>1. UNCHANGED dfuVars /\ stack' = stack
    BY <1>10 DEF IgnoreResponse
  <2>2. Head(fromHub).id # Awaited(m_state)
    BY <1>10 DEF IgnoreResponse, Receive
  <2>3. CASE FinishedStage
    BY <1>1, <2>1, <2>3 DEF FinishedStage, Stages
  <2>4. CASE SendingStage
    <3>1. Head(fromHub).id # "WRITE_RESP" /\ m_state = "SENDING_DATA"
      BY <2>2, <2>4 DEF SendingStage, Awaited
    <3>2. /\ stack = <<>> /\ toHub = <<>> /\ Len(fromHub) = 1 /\ hubMode = "boot"
          /\ stored = m_wordOffset + m_writeLen
      BY <1>1, <1>3, <2>4, <3>1, Singletons
         DEF SendingStage, Line, AtMostResponse, WriteResp
    <3>3. SendingStage'
      BY <1>1, <1>2, <1>3, <2>1, <2>4, <3>2 DEF SendingStage, Block, AtMostResponse
    <3> QED BY <3>3 DEF Stages
  <2>5. CASE InitStage
    BY <1>1, <1>3, <2>2, <2>5 DEF InitStage, AtMostResponse, Line, Awaited
  <2>6. CASE SettingStage
    BY <1>1, <1>3, <2>2, <2>6, Singletons DEF SettingStage, Line, OpModeResp, Awaited
  <2>7. CASE WaitStage
    BY <1>1, <1>3, <2>2, <2>7 DEF WaitStage, AtMostResponse, Line, Awaited
  <2>8. CASE LaunchStage
    BY <1>1, <1>3, <2>2, <2>8 DEF LaunchStage, AtMostResponse, Line, Awaited
  <2> QED BY <2>3, <2>4, <2>5, <2>6, <2>7, <2>8 DEF Stages
<1> QED BY <1>5, <1>6, <1>7, <1>8, <1>9, <1>10 DEF Listener

\* A request that has left shtp_send is on the line and its state is assigned.
LEMMA SendStage ==
    ASSUME TypeOK, Calm, Stages, SendDone
    PROVE  Stages'
<1>1. UNCHANGED <<m_wordOffset, m_writeLen, fromHub, hubMode, image, stored, firmware>>
  BY DEF SendDone
<1>2. Words' = Words /\ (Block <=> Block') /\ Write' = Write
  BY <1>1 DEF Words, Block, Write
<1>3. ASSUME NEW req, NEW next, stack = <<Frame(req, next)>>, toHub = <<>>
      PROVE  stack' = <<>> /\ toHub' = <<req>> /\ m_state' = next
  BY <1>3, Singletons DEF SendDone, Frame
<1>4. stack # <<>>
  BY DEF SendDone
<1>5. CASE InitStage
  <2>1. /\ Line(<<Frame(Upgrade, "SETTING_MODE")>>, <<>>, <<>>)
        /\ hubMode = "boot" /\ stored = 0
    BY <1>4, <1>5 DEF InitStage, AtMostResponse
  <2>2. SettingStage'
    BY <1>1, <1>3, <2>1 DEF SettingStage, Line
  <2> QED BY <2>2 DEF Stages
<1>6. CASE SettingStage \/ SendingStage
  <2>1. /\ Line(<<Frame(Write, "SENDING_DATA")>>, <<>>, <<>>)
        /\ hubMode = "upgrade" /\ stored = m_wordOffset /\ Block
        /\ image = "mixed"
    BY <1>4, <1>6 DEF SettingStage, SendingStage, Line, AtMostResponse
  <2>2. SendingStage'
    BY <1>1, <1>2, <1>3, <2>1 DEF SendingStage, Line
  <2> QED BY <2>2 DEF Stages
<1>7. CASE WaitStage
  <2>1. /\ Line(<<Frame(Launch, "LAUNCHING")>>, <<>>, <<>>)
        /\ hubMode = "boot" /\ image = "new"
    BY <1>4, <1>7 DEF WaitStage, Line, AtMostResponse
  <2>2. LaunchStage'
    BY <1>1, <1>3, <2>1 DEF LaunchStage, Line
  <2> QED BY <2>2 DEF Stages
<1>8. CASE LaunchStage \/ FinishedStage
  BY <1>4, <1>8 DEF LaunchStage, FinishedStage, Line, AtMostResponse
<1> QED BY <1>5, <1>6, <1>7, <1>8 DEF Stages

\* The hub tells the requests apart.
LEMMA RequestHeads ==
    /\ Head(<<Upgrade>>).id = "OPMODE_REQ" /\ Head(<<Upgrade>>).opMode = "UPGRADE"
    /\ Head(<<Launch>>).id = "OPMODE_REQ" /\ Head(<<Launch>>).opMode = "APPLICATION"
    /\ Head(<<Write>>).id = "WRITE_REQ"
<1>1. /\ Head(<<Upgrade>>) = Upgrade /\ Head(<<Launch>>) = Launch
      /\ Head(<<Write>>) = Write
  BY Singletons
<1> QED BY <1>1 DEF Upgrade, Launch, Write, OpModeReq, WriteReq

\* The hub answers the request on the line, or reports.
LEMMA HubStage ==
    ASSUME TypeOK, Accepted, Idle, Calm, Stages, Hub
    PROVE  Stages'
<1>1. /\ pc = "service"
      /\ UNCHANGED <<m_status, m_state, m_wordOffset, m_writeLen, stack, firmware>>
  BY ServingStep DEF Hub, HubUpgrade, HubLaunch, HubWrite, HubReport, Serving
<1>2. Words' = Words /\ (Block <=> Block') /\ Words \in Nat \ {0}
  BY <1>1, WholeWords DEF Words, Block
<1>3. ASSUME NEW req, toHub = <<req>>, NEW id, HubTakes(id)
      PROVE  toHub' = <<>> /\ Head(toHub) = req /\ req.id = id
  BY <1>3, Singletons DEF HubTakes
<1>4. ASSUME NEW resp, fromHub = <<>>, Answer(resp)
      PROVE  fromHub' = <<resp>>
  BY <1>4, Singletons DEF Answer
<1>5. CASE HubUpgrade
  <2>1. toHub # <<>> /\ Head(toHub) .id = "OPMODE_REQ" /\ Head(toHub).opMode = "UPGRADE"
    BY <1>5 DEF HubUpgrade, HubTakes
  <2>2. ~WaitStage /\ ~FinishedStage /\ ~InitStage
    BY <2>1 DEF WaitStage, FinishedStage, InitStage, Line, AtMostResponse
  <2>3. ~SendingStage /\ ~LaunchStage
    BY <2>1, RequestHeads DEF SendingStage, LaunchStage, Line, AtMostResponse
  <2>4. SettingStage
    BY <2>2, <2>3 DEF Stages
  <2>5. Line(<<>>, <<Upgrade>>, <<>>) /\ hubMode = "boot" /\ m_state = "SETTING_MODE"
        /\ stored = 0
    BY <2>1, <2>4 DEF SettingStage, Line
  <2>6. toHub' = <<>>
    BY <1>3, <1>5, <2>5 DEF HubUpgrade, Line
  <2>7. CASE /\ hubMode' = "upgrade" /\ stored' = 0 /\ image' = "mixed"
             /\ Answer(OpModeResp("UPGRADE", TRUE))
    <3>1. SettingStage'
      BY <1>1, <1>4, <2>5, <2>6, <2>7 DEF SettingStage, Line
    <3> QED BY <3>1 DEF Stages
  <2>8. CASE /\ Answer(OpModeResp("UPGRADE", FALSE))
             /\ UNCHANGED <<hubMode, stored, image>>
    <3>1. SettingStage'
      BY <1>1, <1>4, <2>5, <2>6, <2>8 DEF SettingStage, Line
    <3> QED BY <3>1 DEF Stages
  <2> QED BY <1>5, <2>5, <2>7, <2>8 DEF HubUpgrade
<1>6. CASE HubLaunch
  <2>1. /\ toHub # <<>> /\ Head(toHub) .id = "OPMODE_REQ"
        /\ Head(toHub).opMode = "APPLICATION"
    BY <1>6 DEF HubLaunch, HubTakes
  <2>2. ~WaitStage /\ ~FinishedStage /\ ~InitStage
    BY <2>1 DEF WaitStage, FinishedStage, InitStage, Line, AtMostResponse
  <2>3. ~SendingStage /\ ~SettingStage
    BY <2>1, RequestHeads DEF SendingStage, SettingStage, Line, AtMostResponse
  <2>4. LaunchStage
    BY <2>2, <2>3 DEF Stages
  <2>5. /\ Line(<<>>, <<Launch>>, <<>>) /\ hubMode = "boot"
        /\ m_state = "LAUNCHING" /\ image = "new"
    BY <2>1, <2>4 DEF LaunchStage, Line, AtMostResponse
  <2>6. toHub' = <<>>
    BY <1>3, <1>6, <2>5 DEF HubLaunch, Line
  <2>7. \E ok \in BOOLEAN : fromHub' = <<OpModeResp("APPLICATION", ok)>>
    BY <1>4, <1>6, <2>5 DEF HubLaunch, Line
  <2>8. Len(fromHub') = 1 /\ fromHub'[1].id = "OPMODE_RESP"
    BY <2>7, Singletons DEF OpModeResp
  <2>9. hubMode' \in {"boot", "app"} /\ image' = image
    BY <1>6, <2>5 DEF HubLaunch
  <2>10. LaunchStage'
    BY <1>1, <2>5, <2>6, <2>8, <2>9 DEF LaunchStage, Line, AtMostResponse
  <2> QED BY <2>10 DEF Stages
<1>7. CASE HubWrite
  <2>1. toHub # <<>> /\ Head(toHub) .id = "WRITE_REQ"
    BY <1>7 DEF HubWrite, HubTakes
  <2>2. ~WaitStage /\ ~FinishedStage /\ ~InitStage
    BY <2>1 DEF WaitStage, FinishedStage, InitStage, Line, AtMostResponse
  <2>3. ~LaunchStage /\ ~SettingStage
    BY <2>1, RequestHeads DEF LaunchStage, SettingStage, Line, AtMostResponse
  <2>4. SendingStage
    BY <2>2, <2>3 DEF Stages
  <2>5. /\ Line(<<>>, <<Write>>, <<>>) /\ hubMode = "upgrade"
        /\ stored = m_wordOffset /\ m_state = "SENDING_DATA"
        /\ image = "mixed" /\ Block
    BY <2>1, <2>4 DEF SendingStage, Line, AtMostResponse
  <2>6. toHub' = <<>> /\ Head(toHub).off = m_wordOffset /\ Head(toHub).len = m_writeLen
    BY <1>3, <1>7, <2>5, Singletons DEF HubWrite, Line, Write, WriteReq
  <2>7. UNCHANGED <<hubMode, image>>
    BY <1>7 DEF HubWrite
  <2>8. \/ /\ stored' = m_wordOffset + m_writeLen
           /\ fromHub' = <<WriteResp(m_wordOffset, TRUE)>>
        \/ /\ stored' = stored
           /\ fromHub' = <<WriteResp(m_wordOffset, FALSE)>>
    BY <1>4, <1>7, <2>5, <2>6 DEF HubWrite, Line
  <2>9. SendingStage'
    BY <1>1, <1>2, <2>5, <2>6, <2>7, <2>8 DEF SendingStage, Line
  <2> QED BY <2>9 DEF Stages
<1>8. CASE HubReport
  <2>1. hubMode = "upgrade" /\ stored = Words /\ hubMode' = "boot"
        /\ UNCHANGED <<toHub, stored>>
    BY <1>8 DEF HubReport, ReportDue
  <2>2. PICK valid \in BOOLEAN : /\ image' = (IF valid THEN "new" ELSE "mixed")
                                 /\ Answer(StatusResp(TRUE, valid, ~valid))
    BY <1>8 DEF HubReport
  <2> DEFINE r == StatusResp(TRUE, valid, ~valid)
  <2>3. r.id = "STATUS_RESP" /\ (r.appValid => image' = "new") /\ image' # "old"
        /\ r \in Responses
    BY <2>2, MessageTypes DEF StatusResp
  <2>4. ~InitStage /\ ~SettingStage /\ ~LaunchStage
    BY <1>2, <2>1 DEF InitStage, SettingStage, LaunchStage
  <2> HIDE DEF r
  <2>5. CASE SendingStage
    <3>1. /\ stack = <<>> /\ toHub = <<>> /\ Block /\ m_state = "SENDING_DATA"
          /\ stored = m_wordOffset + m_writeLen
          /\ fromHub \in {<<>>, <<WriteResp(m_wordOffset, TRUE)>>}
      <4>1. Block => stored # m_wordOffset
        BY <2>1, SizeAssumption DEF Block, TypeOK
      <4> QED BY <2>1, <2>5, <4>1 DEF SendingStage, Line
    <3>2. CASE fromHub = <<>>
      <4>1. fromHub' = <<r>>
        BY <1>4, <2>2, <3>2 DEF r
      <4>2. Len(fromHub') = 1 /\ fromHub'[1] = r
        BY <4>1, Singletons
      <4>3. SendingStage'
        BY <1>1, <1>2, <2>1, <2>3, <3>1, <4>2 DEF SendingStage, AtMostResponse
      <4> QED BY <4>3 DEF Stages
    <3>3. CASE fromHub = <<WriteResp(m_wordOffset, TRUE)>>
      <4>1. Len(fromHub) = 1 /\ fromHub[1] = WriteResp(m_wordOffset, TRUE)
        BY <3>3, Singletons
      <4>2. Len(fromHub') = 2 /\ fromHub'[1] = fromHub[1] /\ fromHub'[2] = r
        <5>1. fromHub' = Append(fromHub, r) /\ fromHub \in Seq(Responses)
          BY <2>2 DEF Answer, TypeOK, r
        <5>2. r \in Responses
          BY <2>3
        <5>3. /\ Len(Append(fromHub, r)) = 2
              /\ Append(fromHub, r)[1] = fromHub[1] /\ Append(fromHub, r)[2] = r
          <6>1. fromHub \in Seq(Responses) /\ Len(fromHub) = 1
            BY <4>1, <5>1
          <6> QED BY <6>1, <5>2, ShortLines
        <5> QED BY <5>1, <5>3
      <4>3. SendingStage'
        BY <1>1, <1>2, <2>1, <2>3, <3>1, <4>1, <4>2 DEF SendingStage
      <4> QED BY <4>3 DEF Stages
    <3> QED BY <3>1, <3>2, <3>3
  <2>6. CASE WaitStage
    <3>1. Line(<<>>, <<>>, <<>>) /\ m_state = "WAIT_COMPLETION"
      BY <2>1, <2>6 DEF WaitStage
    <3>2. fromHub' = <<r>>
      BY <1>4, <2>2, <3>1 DEF r, Line
    <3>3. Len(fromHub') = 1 /\ fromHub'[1] = r
      BY <3>2, Singletons
    <3>4. WaitStage'
      BY <1>1, <1>2, <2>1, <2>3, <3>1, <3>3 DEF WaitStage, Line, AtMostResponse
    <3> QED BY <3>4 DEF Stages
  <2>7. CASE FinishedStage
    BY <1>1, <2>1, <2>7 DEF FinishedStage, Stages
  <2> QED BY <2>4, <2>5, <2>6, <2>7 DEF Stages
<1> QED BY <1>5, <1>6, <1>7, <1>8 DEF Hub

\* A lost request or response leaves the stage where it is.
LEMMA LoseStage ==
    ASSUME TypeOK, Calm, Stages, Lose
    PROVE  Stages'
<1>1. UNCHANGED <<m_status, m_state, m_wordOffset, m_writeLen, stack, hubMode, image,
                  stored, firmware>>
  BY DEF Lose
<1>2. Words' = Words /\ (Block <=> Block') /\ Write' = Write
  BY <1>1 DEF Words, Block, Write
<1>3. CASE toHub # <<>> /\ toHub' = Tail(toHub) /\ UNCHANGED fromHub
  <2>1. ~InitStage /\ ~WaitStage /\ ~FinishedStage
    BY <1>3 DEF InitStage, WaitStage, FinishedStage, Line, AtMostResponse
  <2>2. stack = <<>> /\ fromHub = <<>> /\ \E req : toHub = <<req>>
    BY <1>3, <2>1 DEF Stages, SettingStage, SendingStage, LaunchStage, Line,
                      AtMostResponse
  <2>3. toHub' = <<>>
    BY <1>3, <2>2, Singletons
  <2>4. CASE SettingStage
    <3>1. SettingStage'
      BY <1>1, <1>3, <2>2, <2>3, <2>4 DEF SettingStage, Line
    <3> QED BY <3>1 DEF Stages
  <2>5. CASE SendingStage
    <3>1. SendingStage'
      BY <1>1, <1>2, <1>3, <2>2, <2>3, <2>5 DEF SendingStage, Line, AtMostResponse
    <3> QED BY <3>1 DEF Stages
  <2>6. CASE LaunchStage
    <3>1. LaunchStage'
      BY <1>1, <1>3, <2>2, <2>3, <2>6 DEF LaunchStage, Line, AtMostResponse
    <3> QED BY <3>1 DEF Stages
  <2> QED BY <2>1, <2>4, <2>5, <2>6 DEF Stages
<1>4. CASE fromHub # <<>> /\ fromHub' = Tail(fromHub) /\ UNCHANGED toHub
  <2>1. /\ Len(fromHub) = 1 => fromHub' = <<>>
        /\ Len(fromHub) = 2 => Len(fromHub') = 1 /\ fromHub'[1] = fromHub[2]
    BY <1>4, ShortLines, TailProperties DEF TypeOK
  <2>2. \A r : fromHub = <<r>> => fromHub' = <<>>
    BY <2>1, Singletons
  <2>3. CASE InitStage
    <3>1. InitStage'
      BY <1>1, <1>4, <2>1, <2>3 DEF InitStage, Line, AtMostResponse
    <3> QED BY <3>1 DEF Stages
  <2>4. CASE SettingStage
    <3>1. SettingStage'
      BY <1>1, <1>4, <2>2, <2>4 DEF SettingStage, Line
    <3> QED BY <3>1 DEF Stages
  <2>5. CASE SendingStage
    <3>1. SendingStage'
      BY <1>1, <1>2, <1>4, <2>1, <2>2, <2>5 DEF SendingStage, Line, AtMostResponse
    <3> QED BY <3>1 DEF Stages
  <2>6. CASE WaitStage
    <3>1. WaitStage'
      BY <1>1, <1>2, <1>4, <2>1, <2>6 DEF WaitStage, Line, AtMostResponse
    <3> QED BY <3>1 DEF Stages
  <2>7. CASE LaunchStage
    <3>1. LaunchStage'
      BY <1>1, <1>4, <2>1, <2>7 DEF LaunchStage, Line, AtMostResponse
    <3> QED BY <3>1 DEF Stages
  <2>8. CASE FinishedStage
    BY <1>1, <1>4, <2>8 DEF FinishedStage, Stages
  <2> QED BY <2>3, <2>4, <2>5, <2>6, <2>7, <2>8 DEF Stages
<1> QED BY <1>3, <1>4 DEF Lose

LEMMA StagesStutter ==
    ASSUME UNCHANGED <<firmware, dfuVars, lineVars, hubVars>>, Stages
    PROVE  Stages'
<1>1. Words' = Words /\ (Block <=> Block') /\ Write' = Write
  BY DEF Words, Block, Write
<1>2. CASE InitStage
  BY <1>2 DEF InitStage, Line, AtMostResponse, Stages
<1>3. CASE SettingStage
  BY <1>1, <1>3 DEF SettingStage, Line, Stages
<1>4. CASE SendingStage
  <2>1. SendingStage'
    BY <1>1, <1>4 DEF SendingStage, Line, AtMostResponse
  <2> QED BY <2>1 DEF Stages
<1>5. CASE WaitStage
  BY <1>1, <1>5 DEF WaitStage, Line, AtMostResponse, Stages
<1>6. CASE LaunchStage
  BY <1>6 DEF LaunchStage, Line, AtMostResponse, Stages
<1>7. CASE FinishedStage
  BY <1>7 DEF FinishedStage, Stages
<1> QED BY <1>2, <1>3, <1>4, <1>5, <1>6, <1>7 DEF Stages

LEMMA StageNext ==
    ASSUME TypeOK, Accepted, Idle, Fresh, InStage, [Next]_vars
    PROVE  InStage'
<1> SUFFICES ASSUME Calm', pc' = "service" PROVE Stages'
  BY DEF InStage
<1>1. Calm
  <2>1. restarts' \in {restarts, restarts + 1} /\ firmware' = firmware
    BY DEF Next, Host, Running, Listener, Hub, Finished, OpenFirmware, OpenShtp, OpenShtpFails,
           LeaveLoop, Fin, HandleInitStatus, HandleModeResponse, HandleWriteResponse,
           HandleFinalStatus, HandleLaunchResp, IgnoreResponse, SendDone, HubUpgrade,
           HubLaunch, HubWrite, HubReport, HubRestart, Lose, Tick, vars
  <2>2. Fits' = Fits
    BY <2>1 DEF Fits, Words
  <2> QED BY <2>1, <2>2 DEF Calm, TypeOK
<1>2. CASE OpenShtp
  <2>1. /\ m_state' = "INIT" /\ hubMode' = "boot" /\ image' = "old" /\ stored' = 0
        /\ stack' = <<>> /\ toHub' = <<>>
    BY <1>2 DEF OpenShtp, Fresh, Idle
  <2>2. \E boot \in BOOLEAN : fromHub' = <<BootStatus(boot)>>
    BY <1>2 DEF OpenShtp
  <2>3. Len(fromHub') = 1 /\ fromHub'[1].id = "STATUS_RESP"
    BY <2>2, Singletons DEF BootStatus, StatusResp
  <2> QED BY <2>1, <2>3 DEF Stages, InitStage, AtMostResponse
<1>3. CASE OpenFirmware \/ OpenShtpFails \/ LeaveLoop \/ Fin
  BY <1>3 DEF OpenFirmware, OpenShtpFails, LeaveLoop, Fin
<1>4. CASE Serving
  <2>1. Stages
    BY <1>1, <1>4, ServingStep DEF InStage
  <2>2. CASE HubRestart
    BY <1>1, <2>2 DEF HubRestart, Calm
  <2>3. CASE Tick
    BY <2>1, <2>3, StagesStutter DEF Tick
  <2> QED BY <1>1, <1>4, <2>1, <2>2, <2>3, ListenerStage, SendStage, HubStage, LoseStage
          DEF Serving
<1>5. CASE UNCHANGED vars
  BY <1>1, <1>5, StagesStutter DEF vars, InStage
<1> QED BY <1>2, <1>3, <1>4, <1>5, NextCases

LEMMA ReportedNext ==
    ASSUME TypeOK, Idle, Wraps, InStage, Reported, [Next]_vars
    PROVE  Reported'
<1> SUFFICES ASSUME restarts' = 0, pc' \in {"fin", "returned"}, m_status' = "SH2_OK"
             PROVE  image' = "new"
  BY DEF Reported, SuccessMeansInstalled
<1>1. CASE OpenFirmware
  BY <1>1 DEF OpenFirmware
<1>2. CASE OpenShtp \/ OpenShtpFails
  BY <1>2 DEF OpenShtp, OpenShtpFails
<1>3. CASE LeaveLoop
  <2>1. pc = "service" /\ m_state = "FINISHED" /\ m_status = "SH2_OK"
        /\ restarts = 0 /\ image' = image
    BY <1>3 DEF LeaveLoop
  <2>2. Calm
    BY <2>1 DEF Wraps, Calm
  <2> QED BY <2>1, <2>2, StageOf DEF InStage, FinishedStage
<1>4. CASE Fin
  BY <1>4 DEF Fin, Reported, SuccessMeansInstalled
<1>5. CASE Serving
  BY <1>5, ServingStep
<1>6. CASE UNCHANGED vars
  BY <1>6 DEF vars, Reported, SuccessMeansInstalled
<1> QED BY <1>1, <1>2, <1>3, <1>4, <1>5, <1>6, NextCases

LEMMA ErasedNext ==
    ASSUME Erased, [Next]_vars
    PROVE  Erased'
<1>1. CASE Host
  BY <1>1 DEF Host, Running, OpenFirmware, OpenShtp, OpenShtpFails, LeaveLoop, Fin, Listener,
              HandleInitStatus, HandleModeResponse, HandleWriteResponse,
              HandleFinalStatus, HandleLaunchResp, IgnoreResponse, SendDone, Erased
<1>2. CASE Hub
  BY <1>2 DEF Hub, HubUpgrade, HubLaunch, HubWrite, HubReport, Erased
<1>3. CASE HubRestart \/ Lose \/ Tick \/ UNCHANGED vars
  BY <1>3 DEF HubRestart, Lose, Tick, vars, Erased
<1> QED BY <1>1, <1>2, <1>3 DEF Next, Finished

\* The inductive invariant.
THEOREM InvariantHolds == Spec => []Inv
<1>1. Init => Inv
  <2>1. Init => Erased
    BY DEF Init, Erased
  <2> QED BY <2>1, TypeInit, FrameInit DEF Inv
<1>2. Inv /\ [Next]_vars => Inv'
  BY TypeNext, FrameNext, ErasedNext, WrapsNext, StageNext, ReportedNext DEF Inv
<1> QED BY <1>1, <1>2, PTL DEF Spec

-----------------------------------------------------------------------------
(* What follows from it.                                                   *)

\* While the hub has not restarted, run() returns true only if the hub holds
\* the complete new application: with any loss, refusal or delay, and also
\* for a file whose word offsets wrap.
THEOREM SuccessIsTrue == Spec => [](restarts = 0 => SuccessMeansInstalled)
<1>1. Inv => (restarts = 0 => SuccessMeansInstalled)
  BY DEF Inv, Reported
<1> QED BY <1>1, InvariantHolds, PTL

LEMMA InvStages == Inv /\ Calm => Stages \/ pc # "service"
  BY DEF Inv, InStage

\* A handler waiting inside shtp_send is never interrupted by another one.
THEOREM HandlersDoNotNest == Spec => []NoNesting
<1>1. ASSUME Inv, Calm, stack # <<>>
      PROVE  Len(stack) = 1 /\ toHub = <<>> /\ fromHub = <<>> /\ ~ReportDue
  <2>1. pc = "service" /\ Stages
    BY <1>1, InvStages DEF Inv, Idle
  <2>2. Words \in Nat \ {0}
    BY <1>1, <2>1, WholeWords DEF Inv
  <2>3. /\ toHub = <<>> /\ fromHub = <<>> /\ \E f : stack = <<f>>
    BY <1>1, <2>1 DEF Stages, InitStage, SettingStage, SendingStage, WaitStage, LaunchStage,
                      FinishedStage, Line, AtMostResponse
  <2>4. hubMode = "upgrade" => stored = m_wordOffset /\ Block
    BY <1>1, <2>1 DEF Stages, InitStage, SettingStage, SendingStage, WaitStage, LaunchStage,
                      FinishedStage, Line, AtMostResponse
  <2>5. ~ReportDue
    BY <1>1, <2>2, <2>4, SizeAssumption DEF ReportDue, Block, Inv, TypeOK
  <2> QED BY <2>3, <2>5, Singletons
<1>2. Inv => NoNesting
  BY <1>1 DEF NoNesting
<1> QED BY <1>2, InvariantHolds, PTL

\* The acknowledgement whose offset nobody checks is that of the last request.
THEOREM AcknowledgementsMatch == Spec => []UncheckedOffsetMatches
<1>1. ASSUME Inv, Calm, m_state = "SENDING_DATA", NEW i \in DOMAIN fromHub,
             fromHub[i].id = "WRITE_RESP"
      PROVE  fromHub[i].off = m_wordOffset
  <2>1. fromHub # <<>>
    BY <1>1
  <2>2. SendingStage
    BY <1>1, <2>1, InvStages, StageOf DEF Inv, Idle
  <2>3. fromHub \in Seq(Responses) /\ i \in 1 .. Len(fromHub)
    BY <1>1 DEF Inv, TypeOK
  <2>4. \A ok \in BOOLEAN : /\ WriteResp(m_wordOffset, ok).off = m_wordOffset
                            /\ WriteResp(m_wordOffset, ok).id = "WRITE_RESP"
    BY DEF WriteResp
  <2>5. CASE \E ok \in BOOLEAN : fromHub = <<WriteResp(m_wordOffset, ok)>>
    <3>1. i = 1 /\ \E ok \in BOOLEAN : fromHub[1] = WriteResp(m_wordOffset, ok)
      BY <2>3, <2>5, Singletons
    <3> QED BY <2>4, <3>1
  <2>6. CASE Len(fromHub) = 1 /\ fromHub[1].id = "STATUS_RESP"
    <3>1. i = 1
      BY <2>3, <2>6
    <3> QED BY <1>1, <2>6, <3>1
  <2>7. CASE /\ Len(fromHub) = 2 /\ fromHub[1] = WriteResp(m_wordOffset, TRUE)
             /\ fromHub[2].id = "STATUS_RESP"
    <3>1. i \in {1, 2}
      BY <2>3, <2>7
    <3> QED BY <1>1, <2>4, <2>7, <3>1
  <2> QED BY <2>1, <2>2, <2>5, <2>6, <2>7 DEF SendingStage, Line, AtMostResponse
<1>2. Inv => UncheckedOffsetMatches
  BY <1>1 DEF UncheckedOffsetMatches
<1> QED BY <1>2, InvariantHolds, PTL

\* What is programmed is what the host has counted.
THEOREM OffsetsAgree == Spec => []OffsetTracksHub
<1>1. ASSUME Inv, Calm, m_state = "SENDING_DATA", hubMode = "upgrade"
      PROVE  stored \in {m_wordOffset, m_wordOffset + m_writeLen}
  <2>1. SendingStage
    BY <1>1, InvStages, StageOf DEF Inv, Idle
  <2> QED BY <2>1 DEF SendingStage
<1>2. Inv => OffsetTracksHub
  BY <1>1 DEF OffsetTracksHub
<1> QED BY <1>2, InvariantHolds, PTL

\* Every write request is a part of the application.
THEOREM WritesStayInside == Spec => []WriteInsideImage
<1>1. ASSUME Inv, Calm, stack # <<>> \/ toHub # <<>>
      PROVE  \/ Block /\ stack = <<Frame(Write, "SENDING_DATA")>> /\ toHub = <<>>
             \/ Block /\ stack = <<>> /\ toHub = <<Write>>
             \/ \E mode \in OpModes, next \in States :
                   \/ stack = <<Frame(OpModeReq(mode), next)>> /\ toHub = <<>>
                   \/ stack = <<>> /\ toHub = <<OpModeReq(mode)>>
  BY <1>1, InvStages DEF Inv, Idle, Stages, InitStage, SettingStage, SendingStage,
     WaitStage, LaunchStage, FinishedStage, Line, AtMostResponse, Upgrade, Launch,
     OpModes, States
<1>2. ASSUME Inv, Calm,
             NEW req \in {stack[i].req : i \in DOMAIN stack}
                         \cup {toHub[i] : i \in DOMAIN toHub},
             req.id = "WRITE_REQ"
      PROVE  req.len > 0 /\ req.off + req.len <= Words
  <2>1. DOMAIN stack = 1 .. Len(stack) /\ DOMAIN toHub = 1 .. Len(toHub)
    BY <1>2 DEF Inv, TypeOK
  <2>2. DOMAIN <<>> = {} /\ \A x : DOMAIN <<x>> = {1}
    OBVIOUS
  <2>3. /\ \A mode : OpModeReq(mode).id # "WRITE_REQ"
        /\ Write.off = m_wordOffset /\ Write.len = m_writeLen
        /\ \A r, next : Frame(r, next).req = r
    BY DEF OpModeReq, Write, WriteReq, Frame
  <2>4. stack # <<>> \/ toHub # <<>>
    BY <1>2, <2>2
  <2>5. CASE Block /\ stack = <<Frame(Write, "SENDING_DATA")>> /\ toHub = <<>>
    <3>1. req = Write
      BY <1>2, <2>2, <2>3, <2>5, Singletons
    <3> QED BY <2>3, <2>5, <3>1 DEF Block
  <2>6. CASE Block /\ stack = <<>> /\ toHub = <<Write>>
    <3>1. req = Write
      BY <1>2, <2>2, <2>6, Singletons
    <3> QED BY <2>3, <2>6, <3>1 DEF Block
  <2>7. CASE \E mode \in OpModes, next \in States :
                 \/ stack = <<Frame(OpModeReq(mode), next)>> /\ toHub = <<>>
                 \/ stack = <<>> /\ toHub = <<OpModeReq(mode)>>
    <3>1. \E mode : req = OpModeReq(mode)
      BY <1>2, <2>2, <2>3, <2>7, Singletons
    <3> QED BY <1>2, <2>3, <3>1
  <2> QED BY <1>1, <1>2, <2>4, <2>5, <2>6, <2>7
<1>3. Inv => WriteInsideImage
  BY <1>2 DEF WriteInsideImage
<1> QED BY <1>3, InvariantHolds, PTL

\* Host, messages and hub agree about offsets, although nothing compares them.
THEOREM OffsetsAlwaysMatch == Spec => []OffsetsMatch
<1>1. UncheckedOffsetMatches /\ WriteInsideImage /\ OffsetTracksHub => OffsetsMatch
  BY DEF OffsetsMatch
<1> QED BY <1>1, AcknowledgementsMatch, WritesStayInside, OffsetsAgree, PTL

\* The state machine never goes back.
THEOREM StatesAdvance == Spec => StateNeverGoesBack
<1>1. ASSUME Inv, [Next]_vars, Calm
      PROVE  Rank(m_state) <= Rank(m_state')
  <2>1. m_state \in States
    BY <1>1 DEF Inv, TypeOK
  <2>2. CASE m_state' = m_state
    BY <2>1, <2>2 DEF Rank, States
  <2>3. CASE m_state' = "FINISHED"
    BY <2>1, <2>3 DEF Rank, States
  <2>4. CASE HandleWriteResponse /\ m_state' = "WAIT_COMPLETION"
    BY <2>4 DEF HandleWriteResponse, Rank
  <2>5. CASE SendDone
    <3>1. Stages /\ stack # <<>> /\ m_state' = Head(stack).next
      BY <1>1, <2>5, InvStages DEF SendDone
    <3>2. \/ m_state = "INIT" /\ stack = <<Frame(Upgrade, "SETTING_MODE")>>
          \/ /\ m_state \in {"SETTING_MODE", "SENDING_DATA"}
             /\ stack = <<Frame(Write, "SENDING_DATA")>>
          \/ m_state = "WAIT_COMPLETION" /\ stack = <<Frame(Launch, "LAUNCHING")>>
      BY <3>1 DEF Stages, InitStage, SettingStage, SendingStage, WaitStage, LaunchStage,
                  FinishedStage, Line, AtMostResponse
    <3>3. \A req, next : Head(<<Frame(req, next)>>).next = next
      BY Singletons DEF Frame
    <3> QED BY <3>1, <3>2, <3>3 DEF Rank
  <2>6. \/ m_state' \in {m_state, "FINISHED"} \/ SendDone
        \/ HandleWriteResponse /\ m_state' = "WAIT_COMPLETION"
    <3>1. CASE Listener
      BY <3>1 DEF Listener, HandleInitStatus, HandleModeResponse, HandleWriteResponse,
                  HandleFinalStatus, HandleLaunchResp, IgnoreResponse, RequestWrite,
                  Send, Finish
    <3>2. CASE Hub \/ HubRestart \/ Lose \/ Tick
      BY <3>2 DEF Hub, HubUpgrade, HubLaunch, HubWrite, HubReport, HubRestart, Lose, Tick
    <3>3. CASE OpenFirmware \/ OpenShtp \/ OpenShtpFails \/ LeaveLoop \/ Fin
      BY <3>3 DEF OpenFirmware, OpenShtp, OpenShtpFails, LeaveLoop, Fin
    <3> QED BY <1>1, <3>1, <3>2, <3>3, NextCases DEF Serving, vars
  <2> QED BY <2>2, <2>3, <2>4, <2>5, <2>6
<1>2. Inv /\ [Next]_vars => [Calm => Rank(m_state) <= Rank(m_state')]_vars
  BY <1>1
<1> QED BY <1>2, InvariantHolds, PTL DEF Spec, StateNeverGoesBack

-----------------------------------------------------------------------------
(* Refinement.                                                             *)

Unrestarted == "restart" \notin faults => restarts = 0

\* Unless the hub restarts by itself, an update of an FSP200 is an update as
\* FirmwareUpdate promises it.
THEOREM Refinement == Spec => Implements
<1> DEFINE Inv0 == Inv /\ Unrestarted
<1>1. Init => Unrestarted
  BY DEF Init, Unrestarted
<1>2. ASSUME Inv0, [Next]_vars
      PROVE  Unrestarted'
  BY <1>2
      DEF Unrestarted, Next, Host, Running, Listener, Hub, Finished, OpenFirmware, OpenShtp,
          OpenShtpFails, LeaveLoop, Fin, HandleInitStatus, HandleModeResponse,
          HandleWriteResponse, HandleFinalStatus, HandleLaunchResp, IgnoreResponse, SendDone,
          HubUpgrade, HubLaunch, HubWrite, HubReport, HubRestart, Lose, Tick, vars, constVars
<1>3. Init => ("restart" \notin faults => Abstract!Init)
  BY DEF Init, Abstract!Init, phase
<1>4. ASSUME Inv0, [Next]_vars, Inv0', "restart" \notin faults
      PROVE  [Abstract!Next]_<<phase, image>>
  <2> USE DEF Abstract!Next, phase
  <2>1. CASE OpenFirmware
    BY <2>1 DEF OpenFirmware, Abstract!Refuse
  <2>2. CASE OpenShtp
    BY <2>2 DEF OpenShtp, Abstract!Begin
  <2>3. CASE OpenShtpFails
    BY <2>3 DEF OpenShtpFails, Abstract!Refuse
  <2>4. CASE LeaveLoop
    <3>1. m_status' = "SH2_OK" => image' = "new"
      BY <1>4, <2>4 DEF LeaveLoop, Unrestarted, Inv, Reported, SuccessMeansInstalled
    <3> QED BY <2>4, <3>1 DEF LeaveLoop, Abstract!Succeed, Abstract!Fail
  <2>5. CASE Fin
    BY <2>5 DEF Fin
  <2>6. CASE Serving
    <3>1. phase = "updating" /\ phase' = "updating"
      BY <1>4, <2>6, ServingStep DEF Inv
    <3>2. \/ image' = image
          \/ image' = "mixed"
          \/ image = "mixed" /\ image' = "new"
      BY <1>4, <2>6 DEF Serving, Listener, HandleInitStatus, HandleModeResponse,
         HandleWriteResponse, HandleFinalStatus, HandleLaunchResp, IgnoreResponse,
         SendDone, Hub, HubUpgrade, HubLaunch, HubWrite, HubReport, ReportDue, HubRestart,
         Lose, Tick, Inv, Erased
    <3> HIDE DEF phase
    <3> QED BY <3>1, <3>2 DEF Abstract!Erase, Abstract!Complete
  <2>7. CASE UNCHANGED vars
    BY <2>7 DEF vars
  <2> QED BY <1>4, <2>1, <2>2, <2>3, <2>4, <2>5, <2>6, <2>7, NextCases
<1>5. Spec => []Inv0
  <2>1. Inv /\ Unrestarted /\ [Next]_vars => Unrestarted'
    BY <1>2
  <2> QED BY <1>1, <2>1, InvariantHolds, PTL DEF Spec
<1>6. Inv0 /\ [Next]_vars /\ Inv0'
        => [("restart" \notin faults) => Abstract!Next]_<<phase, image>>
  BY <1>4
<1> QED BY <1>3, <1>5, <1>6, PTL DEF Spec, Implements
=============================================================================
