------------------------------- MODULE FspDfu -------------------------------
(***************************************************************************)
(* The firmware update of an FSP200 (FspDfu.cpp): a state machine driven   *)
(* by the bootloader's responses, together with the sensor hub's           *)
(* bootloader and the two byte streams between them.                       *)
(*                                                                         *)
(* A handler sends its request with shtp_send BEFORE the state it returns  *)
(* is assigned to m_state.  shtp_send cannot finish before the HAL has     *)
(* READ a buffer status from the hub (ftdi_hal_write returns 0 until       *)
(* then), so it services incoming transfers while it waits and a second    *)
(* handler may run inside the first one, with the old m_state.  `stack'    *)
(* holds the handlers that are inside shtp_send, the innermost first.      *)
(*                                                                         *)
(* The bootloader, SHTP and the serial line are outside src/: they are     *)
(* modelled by what FspDfu.cpp relies on.                                  *)
(***************************************************************************)
EXTENDS Integers, Sequences

CONSTANTS
    Firmwares,    \* firmware files: [opens, metaOk : BOOLEAN, appLen : Nat]
    MinAppLen,    \* shortest believable application, in bytes (1024)
    BlockWords,   \* words carried by one write request (16)
    OffsetMod,    \* word offsets are uint16_t: 2^16
    DfuTimeout,   \* DFU_TIMEOUT_US, in ticks of the model's clock
    FaultSets,    \* what may go wrong, a subset of Faults per behaviour
    MaxRestarts   \* bound on spontaneous restarts of the hub

(* noport: the device cannot be opened     reject: the hub refuses         *)
(* loss: a transfer is lost                restart: the hub restarts       *)
(* slow: time may pass while somebody still has something to do            *)
(* mute: buffer statuses stop coming, so that a send may never finish      *)
Faults == {"noport", "reject", "loss", "restart", "slow", "mute"}

ASSUME FirmwareAssumption ==
    Firmwares \subseteq [opens: BOOLEAN, metaOk: BOOLEAN, appLen: Nat]
ASSUME SizeAssumption ==
    /\ MinAppLen \in Nat \ {0}
    /\ BlockWords \in Nat \ {0}
    /\ OffsetMod \in Nat \ {0}
    /\ DfuTimeout \in Nat \ {0}
ASSUME FaultAssumption == FaultSets \subseteq SUBSET Faults /\ MaxRestarts \in Nat

VARIABLES
    faults,       \* the faults of this behaviour (never changes)
    firmware,     \* the firmware file (never changes)
    pc,           \* where run() is
    elapsed,      \* now_us - start_us, in ticks
    m_status,     \* SH2 status code
    m_state,      \* state of the DFU state machine
    m_firmwareOpened,
    m_pShtp,      \* TRUE while an SHTP instance is open
    m_appLen,
    m_wordOffset,
    m_writeLen,
    stack,        \* handlers inside shtp_send: [req, next], innermost first
    toHub,        \* requests on their way to the hub
    fromHub,      \* responses on their way to the host
    hubMode,      \* what the hub runs: "off", "boot", "upgrade" or "app"
    stored,       \* words programmed since the flash was erased
    image,        \* application in flash: "old", "mixed" or "new"
    restarts      \* restarts of the hub so far

constVars == <<faults, firmware>>
dfuVars   == <<m_status, m_state, m_appLen, m_wordOffset, m_writeLen>>
runVars   == <<pc, elapsed, m_firmwareOpened, m_pShtp>>
lineVars  == <<stack, toHub, fromHub>>
hubVars   == <<hubMode, stored, image, restarts>>
vars      == <<constVars, dfuVars, runVars, lineVars, hubVars>>

-----------------------------------------------------------------------------
(* Messages and states.                                                    *)

States == {"INIT", "SETTING_MODE", "SENDING_DATA", "WAIT_COMPLETION",
           "LAUNCHING", "FINISHED"}
Statuses == {"SH2_OK", "SH2_ERR", "SH2_ERR_BAD_PARAM", "SH2_ERR_HUB",
             "SH2_ERR_TIMEOUT"}
OpModes == {"UPGRADE", "APPLICATION"}

OpModeReq(mode)     == [id |-> "OPMODE_REQ", opMode |-> mode]
WriteReq(off, len)  == [id |-> "WRITE_REQ", off |-> off, len |-> len]
Requests == [id: {"OPMODE_REQ"}, opMode: OpModes]
            \cup [id: {"WRITE_REQ"}, off: Nat, len: Nat]

OpModeResp(mode, ok) == [id |-> "OPMODE_RESP", opMode |-> mode, ok |-> ok]
WriteResp(off, ok)   == [id |-> "WRITE_RESP", off |-> off, ok |-> ok]
StatusResp(boot, valid, err) ==
    [id |-> "STATUS_RESP", launchBootloader |-> boot,
     appValid |-> valid, error |-> err]
Responses == [id: {"OPMODE_RESP"}, opMode: OpModes, ok: BOOLEAN]
             \cup [id: {"WRITE_RESP"}, off: Nat, ok: BOOLEAN]
             \cup [id: {"STATUS_RESP"}, launchBootloader: BOOLEAN,
                   appValid: BOOLEAN, error: BOOLEAN]

Frames == [req: Requests, next: {"SETTING_MODE", "SENDING_DATA", "LAUNCHING"}]

Words == firmware.appLen \div 4

\* dfuStateTransition: the one response each state waits for.
Awaited(state) ==
    CASE state = "INIT"            -> "STATUS_RESP"
      [] state = "SETTING_MODE"    -> "OPMODE_RESP"
      [] state = "SENDING_DATA"    -> "WRITE_RESP"
      [] state = "WAIT_COMPLETION" -> "STATUS_RESP"
      [] state = "LAUNCHING"       -> "OPMODE_RESP"
      [] OTHER                     -> "none"

-----------------------------------------------------------------------------
Init ==
    /\ faults \in FaultSets
    /\ firmware \in Firmwares
    /\ pc = "openFirmware"
    /\ elapsed = 0
    /\ m_status = "SH2_OK"
    /\ m_state = "INIT"
    /\ m_firmwareOpened = FALSE
    /\ m_pShtp = FALSE
    /\ m_appLen = 0
    /\ m_wordOffset \in {0, OffsetMod - 1}   \* not initialised by the code
    /\ m_writeLen \in {0, BlockWords}        \* not initialised by the code
    /\ stack = <<>>
    /\ toHub = <<>>
    /\ fromHub = <<>>
    /\ hubMode = "off"
    /\ stored = 0
    /\ image = "old"
    /\ restarts = 0

-----------------------------------------------------------------------------
(* run(): before, around and after the service loop.                       *)

\* What openFirmware makes of the file; the length counts once it was read.
FirmwareStatus ==
    IF ~firmware.opens THEN "SH2_ERR"
    ELSE IF \/ ~firmware.metaOk
            \/ firmware.appLen < MinAppLen
            \/ firmware.appLen % 4 # 0
         THEN "SH2_ERR_BAD_PARAM"
         ELSE "SH2_OK"

OpenFirmware ==
    /\ pc = "openFirmware"
    /\ m_status' = FirmwareStatus
    /\ m_firmwareOpened' = firmware.opens
    /\ m_appLen' = IF firmware.opens /\ firmware.metaOk
                   THEN firmware.appLen ELSE m_appLen
    /\ pc' = IF FirmwareStatus = "SH2_OK" THEN "openShtp" ELSE "fin"
    /\ UNCHANGED <<constVars, elapsed, m_pShtp, m_state, m_wordOffset,
                   m_writeLen, lineVars, hubVars>>

\* The bootloader announces itself; any application in flash is declared valid.
BootStatus(boot) == StatusResp(boot, image # "mixed", FALSE)

\* Opening the HAL resets the hub into its bootloader.
OpenShtp ==
    /\ pc = "openShtp"
    /\ m_pShtp' = TRUE
    /\ pc' = "service"
    /\ hubMode' = "boot"
    /\ \E boot \in BOOLEAN :
          /\ boot \/ "reject" \in faults
          /\ fromHub' = <<BootStatus(boot)>>
    /\ UNCHANGED <<constVars, dfuVars, elapsed, m_firmwareOpened, stack, toHub,
                   stored, image, restarts>>

OpenShtpFails ==
    /\ pc = "openShtp"
    /\ "noport" \in faults
    /\ m_status' = "SH2_ERR"
    /\ pc' = "fin"
    /\ UNCHANGED <<constVars, elapsed, m_firmwareOpened, m_pShtp, m_state,
                   m_appLen, m_wordOffset, m_writeLen, lineVars, hubVars>>

\* Faulty variant: the loop does not look at the time.
InLoop_Untimed == m_state # "FINISHED"

InLoop == elapsed < DfuTimeout /\ m_state # "FINISHED"

\* Faulty variant: running out of time is not recorded.
LeaveLoop_KeepsStatus ==
    /\ pc = "service"
    /\ stack = <<>>
    /\ ~InLoop
    /\ m_pShtp' = FALSE
    /\ pc' = "fin"
    /\ hubMode' = "off"
    /\ toHub' = <<>>
    /\ fromHub' = <<>>
    /\ UNCHANGED <<constVars, dfuVars, elapsed, m_firmwareOpened, stack, stored,
                   image, restarts>>

\* The loop ends, shtp_close closes the HAL and the HAL leaves the hub in reset.
LeaveLoop ==
    /\ pc = "service"
    /\ stack = <<>>
    /\ ~InLoop
    /\ m_status' = IF m_state # "FINISHED" THEN "SH2_ERR_TIMEOUT" ELSE m_status
    /\ m_pShtp' = FALSE
    /\ pc' = "fin"
    /\ hubMode' = "off"
    /\ toHub' = <<>>
    /\ fromHub' = <<>>
    /\ UNCHANGED <<constVars, elapsed, m_firmwareOpened, m_state, m_appLen,
                   m_wordOffset, m_writeLen, stack, stored, image, restarts>>

Fin ==
    /\ pc = "fin"
    /\ m_firmwareOpened' = FALSE
    /\ pc' = "returned"
    /\ UNCHANGED <<constVars, dfuVars, elapsed, m_pShtp, lineVars, hubVars>>

-----------------------------------------------------------------------------
(* The channel listener, run from the service loop or inside a shtp_send.  *)

\* hdlr is called with the oldest response, whose report id is `id'.
Receive(id) ==
    /\ pc = "service"
    /\ stack # <<>> \/ InLoop
    /\ fromHub # <<>>
    /\ Head(fromHub).id = id
    /\ fromHub' = Tail(fromHub)

\* The handler calls shtp_send; it will return the state `next' afterwards.
Send(req, next) ==
    /\ stack' = <<[req |-> req, next |-> next]>> \o stack
    /\ UNCHANGED <<m_status, m_state>>

\* The handler sends nothing and ends the state machine.
Finish(status) ==
    /\ m_status' = status
    /\ m_state' = "FINISHED"
    /\ UNCHANGED stack

\* Faulty variants: a block is not cut to the room in a request; the last
\* block is not cut to the words that are left.
RequestWrite_Uncut(off) ==
    /\ m_wordOffset' = off
    /\ m_writeLen' = (m_appLen \div 4) - off
    /\ Send(WriteReq(off, (m_appLen \div 4) - off), "SENDING_DATA")

RequestWrite_WholeBlocks(off) ==
    /\ m_wordOffset' = off
    /\ m_writeLen' = BlockWords
    /\ Send(WriteReq(off, BlockWords), "SENDING_DATA")

\* requestWrite, once m_wordOffset has the value `off'.
RequestWrite(off) ==
    LET left == (m_appLen \div 4) - off      \* uint32_t: negative is huge
        len  == IF left < 0 \/ left > BlockWords THEN BlockWords ELSE left
    IN  /\ m_wordOffset' = off
        /\ m_writeLen' = len
        /\ Send(WriteReq(off, len), "SENDING_DATA")

\* Faulty variant: a boot status starts the protocol in every state.
HandleInitStatus_AnyState ==
    /\ Receive("STATUS_RESP")
    /\ IF Head(fromHub).launchBootloader
       THEN Send(OpModeReq("UPGRADE"), "SETTING_MODE")
       ELSE Finish("SH2_ERR_HUB")
    /\ UNCHANGED <<constVars, runVars, m_appLen, m_wordOffset, m_writeLen,
                   toHub, hubVars>>

HandleInitStatus ==
    /\ m_state = "INIT"
    /\ Receive("STATUS_RESP")
    /\ IF Head(fromHub).launchBootloader
       THEN Send(OpModeReq("UPGRADE"), "SETTING_MODE")
       ELSE Finish("SH2_ERR_HUB")
    /\ UNCHANGED <<constVars, runVars, m_appLen, m_wordOffset, m_writeLen,
                   toHub, hubVars>>

HandleModeResponse ==
    /\ m_state = "SETTING_MODE"
    /\ Receive("OPMODE_RESP")
    /\ IF Head(fromHub).opMode = "UPGRADE" /\ Head(fromHub).ok
       THEN RequestWrite(0)
       ELSE Finish("SH2_ERR_HUB") /\ UNCHANGED <<m_wordOffset, m_writeLen>>
    /\ UNCHANGED <<constVars, runVars, m_appLen, toHub, hubVars>>

\* Faulty variants: the end of the image is not recognised; a refusal is taken
\* for an acknowledgement.
HandleWriteResponse_NoEnd ==
    /\ m_state = "SENDING_DATA"
    /\ Receive("WRITE_RESP")
    /\ IF Head(fromHub).ok
       THEN RequestWrite((m_wordOffset + m_writeLen) % OffsetMod)
       ELSE Finish("SH2_ERR_HUB") /\ UNCHANGED <<m_wordOffset, m_writeLen>>
    /\ UNCHANGED <<constVars, runVars, m_appLen, toHub, hubVars>>

HandleWriteResponse_IgnoresRefusal ==
    /\ m_state = "SENDING_DATA"
    /\ Receive("WRITE_RESP")
    /\ LET off == (m_wordOffset + m_writeLen) % OffsetMod
       IN  IF off * 4 = m_appLen
           THEN /\ m_wordOffset' = off
                /\ m_state' = "WAIT_COMPLETION"
                /\ UNCHANGED <<m_status, m_writeLen, stack>>
           ELSE RequestWrite(off)
    /\ UNCHANGED <<constVars, runVars, m_appLen, toHub, hubVars>>

\* The offset the response carries is read and never looked at.
HandleWriteResponse ==
    /\ m_state = "SENDING_DATA"
    /\ Receive("WRITE_RESP")
    /\ LET off == (m_wordOffset + m_writeLen) % OffsetMod
       IN  \/ /\ Head(fromHub).ok
              /\ off * 4 = m_appLen
              /\ m_wordOffset' = off
              /\ m_state' = "WAIT_COMPLETION"
              /\ UNCHANGED <<m_status, m_writeLen, stack>>
           \/ /\ Head(fromHub).ok
              /\ off * 4 # m_appLen
              /\ RequestWrite(off)
           \/ /\ ~Head(fromHub).ok
              /\ Finish("SH2_ERR_HUB")
              /\ UNCHANGED <<m_wordOffset, m_writeLen>>
    /\ UNCHANGED <<constVars, runVars, m_appLen, toHub, hubVars>>

HandleFinalStatus ==
    /\ m_state = "WAIT_COMPLETION"
    /\ Receive("STATUS_RESP")
    /\ IF Head(fromHub).appValid /\ ~Head(fromHub).error
       THEN Send(OpModeReq("APPLICATION"), "LAUNCHING")
       ELSE Finish("SH2_ERR_HUB")
    /\ UNCHANGED <<constVars, runVars, m_appLen, m_wordOffset, m_writeLen,
                   toHub, hubVars>>

HandleLaunchResp ==
    /\ m_state = "LAUNCHING"
    /\ Receive("OPMODE_RESP")
    /\ Finish(IF Head(fromHub).opMode = "APPLICATION" /\ Head(fromHub).ok
              THEN "SH2_OK" ELSE "SH2_ERR_HUB")
    /\ UNCHANGED <<constVars, runVars, m_appLen, m_wordOffset, m_writeLen,
                   toHub, hubVars>>

\* findTransition has no entry for this state and report id.
IgnoreResponse ==
    /\ \E id \in {"STATUS_RESP", "OPMODE_RESP", "WRITE_RESP"} \ {Awaited(m_state)} :
          Receive(id)
    /\ UNCHANGED <<constVars, dfuVars, runVars, stack, toHub, hubVars>>

\* The innermost shtp_send hands its transfer to the line and its handler
\* returns; handleFinalStatus also sets the status, between the two.
SendDone ==
    /\ pc = "service"
    /\ stack # <<>>
    /\ toHub' = Append(toHub, Head(stack).req)
    /\ m_state' = Head(stack).next
    /\ m_status' = IF Head(stack).next = "LAUNCHING" THEN "SH2_OK" ELSE m_status
    /\ stack' = Tail(stack)
    /\ UNCHANGED <<constVars, runVars, m_appLen, m_wordOffset, m_writeLen,
                   fromHub, hubVars>>

-----------------------------------------------------------------------------
(* The hub's bootloader, the line and the clock.                           *)

Answer(resp) == fromHub' = Append(fromHub, resp)

HubTakes(id) ==
    /\ hubMode # "off"
    /\ toHub # <<>>
    /\ Head(toHub).id = id
    /\ toHub' = Tail(toHub)

\* Upgrade mode: the application is erased before the mode is confirmed.
HubUpgrade ==
    /\ HubTakes("OPMODE_REQ")
    /\ Head(toHub).opMode = "UPGRADE"
    /\ \/ /\ hubMode \in {"boot", "upgrade"}
          /\ hubMode' = "upgrade"
          /\ stored' = 0
          /\ image' = "mixed"
          /\ Answer(OpModeResp("UPGRADE", TRUE))
       \/ /\ hubMode \in {"boot", "upgrade"}
          /\ "reject" \in faults
          /\ Answer(OpModeResp("UPGRADE", FALSE))
          /\ UNCHANGED <<hubMode, stored, image>>
       \/ /\ hubMode = "app"          \* the application does not know the request
          /\ UNCHANGED <<fromHub, hubMode, stored, image>>
    /\ UNCHANGED <<constVars, dfuVars, runVars, stack, restarts>>

\* The bootloader starts an application it finds valid.
HubLaunch ==
    /\ HubTakes("OPMODE_REQ")
    /\ Head(toHub).opMode = "APPLICATION"
    /\ \/ /\ hubMode = "boot"
          /\ image # "mixed"
          /\ hubMode' = "app"
          /\ Answer(OpModeResp("APPLICATION", TRUE))
       \/ /\ \/ hubMode = "boot" /\ (image = "mixed" \/ "reject" \in faults)
             \/ hubMode = "upgrade"
          /\ Answer(OpModeResp("APPLICATION", FALSE))
          /\ UNCHANGED hubMode
       \/ /\ hubMode = "app"
          /\ UNCHANGED <<fromHub, hubMode>>
    /\ UNCHANGED <<constVars, dfuVars, runVars, stack, stored, image, restarts>>

\* Words are programmed in order (DFU_INVALID_DATA_OFFSET otherwise).
HubWrite ==
    /\ HubTakes("WRITE_REQ")
    /\ LET req == Head(toHub)
           inOrder == hubMode = "upgrade" /\ req.off = stored
       IN  \/ /\ inOrder
              /\ stored' = stored + req.len
              /\ Answer(WriteResp(req.off, TRUE))
           \/ /\ hubMode # "app"
              /\ ~inOrder \/ "reject" \in faults
              /\ Answer(WriteResp(req.off, FALSE))
              /\ UNCHANGED stored
           \/ /\ hubMode = "app"
              /\ UNCHANGED <<fromHub, stored>>
    /\ UNCHANGED <<constVars, dfuVars, runVars, stack, hubMode, image, restarts>>

\* All words are there: the hub verifies the image and reports.
ReportDue == hubMode = "upgrade" /\ stored = Words

HubReport ==
    /\ ReportDue
    /\ hubMode' = "boot"
    /\ \E valid \in BOOLEAN :
          /\ valid \/ "reject" \in faults
          /\ image' = IF valid THEN "new" ELSE "mixed"
          /\ Answer(StatusResp(TRUE, valid, ~valid))
    /\ UNCHANGED <<constVars, dfuVars, runVars, stack, toHub, stored, restarts>>

\* The hub restarts, for whatever reason, and its bootloader comes up again.
HubRestart ==
    /\ "restart" \in faults
    /\ hubMode # "off"
    /\ restarts < MaxRestarts
    /\ restarts' = restarts + 1
    /\ hubMode' = "boot"
    /\ stored' = 0
    /\ Answer(BootStatus(TRUE))
    /\ UNCHANGED <<constVars, dfuVars, runVars, stack, toHub, image>>

\* A transfer does not arrive, or shtp_send failed and nobody looked.
Lose ==
    /\ "loss" \in faults
    /\ \/ toHub # <<>> /\ toHub' = Tail(toHub) /\ UNCHANGED fromHub
       \/ fromHub # <<>> /\ fromHub' = Tail(fromHub) /\ UNCHANGED toHub
    /\ UNCHANGED <<constVars, dfuVars, runVars, stack, hubVars>>

Quiescent == stack = <<>> /\ toHub = <<>> /\ fromHub = <<>> /\ ~ReportDue

Tick ==
    /\ pc = "service"
    /\ elapsed < DfuTimeout
    /\ Quiescent \/ "slow" \in faults
    /\ elapsed' = elapsed + 1
    /\ UNCHANGED <<constVars, dfuVars, pc, m_firmwareOpened, m_pShtp, lineVars,
                   hubVars>>

-----------------------------------------------------------------------------
Listener == \/ HandleInitStatus
            \/ HandleModeResponse
            \/ HandleWriteResponse
            \/ HandleFinalStatus
            \/ HandleLaunchResp
            \/ IgnoreResponse

Running == \/ OpenFirmware
           \/ OpenShtp
           \/ OpenShtpFails
           \/ LeaveLoop
           \/ Fin
           \/ Listener

Host == Running \/ SendDone

Hub == HubUpgrade \/ HubLaunch \/ HubWrite \/ HubReport

Finished == pc = "returned" /\ UNCHANGED vars

Next == Host \/ Hub \/ HubRestart \/ Lose \/ Tick \/ Finished

Spec == Init /\ [][Next]_vars

(* run() keeps running, the hub answers what reaches it and time passes.   *)
(* shtp_send ends when a buffer status was read: it has no time limit, and *)
(* a mute hub may keep it waiting for ever.  Faults are never forced.      *)
Fairness == /\ WF_vars(Running)
            /\ WF_vars("mute" \notin faults /\ SendDone)
            /\ WF_vars(Hub)
            /\ WF_vars(Tick)

FairSpec == Spec /\ Fairness

-----------------------------------------------------------------------------
(* Properties.                                                             *)

TypeOK ==
    /\ faults \in FaultSets
    /\ firmware \in Firmwares
    /\ pc \in {"openFirmware", "openShtp", "service", "fin", "returned"}
    /\ elapsed \in 0 .. DfuTimeout
    /\ m_status \in Statuses
    /\ m_state \in States
    /\ m_firmwareOpened \in BOOLEAN
    /\ m_pShtp \in BOOLEAN
    /\ m_appLen \in Nat
    /\ m_wordOffset \in 0 .. OffsetMod - 1
    /\ m_writeLen \in 0 .. BlockWords
    /\ stack \in Seq(Frames)
    /\ toHub \in Seq(Requests)
    /\ fromHub \in Seq(Responses)
    /\ hubMode \in {"off", "boot", "upgrade", "app"}
    /\ stored \in Nat
    /\ image \in {"old", "mixed", "new"}
    /\ restarts \in 0 .. MaxRestarts

\* openFirmware does not check that every word offset fits a uint16_t.
Fits == Words < OffsetMod

\* The hub has not restarted, and the offsets do not wrap.
Calm == restarts = 0 /\ Fits

\* What run() is used for: if it is about to return, or has returned, true, the
\* hub holds the complete and verified new application.  handleModeResponse is
\* to "make sure transition to upgrade mode succeeded", handleFinalStatus that
\* the application is valid.  A hub that restarts often enough breaks it: its
\* answers to requests of before a restart are taken for later ones.
SuccessMeansInstalled ==
    pc \in {"fin", "returned"} /\ m_status = "SH2_OK" => image = "new"

\* Until the hub restarts, nothing can arrive while a handler waits inside
\* shtp_send: no handler runs inside another, so m_state is never stale when
\* bootloader_ctrl_hdlr reads it.
NoNesting ==
    Calm /\ stack # <<>> => /\ Len(stack) = 1
                            /\ toHub = <<>> /\ fromHub = <<>>
                            /\ ~ReportDue

\* handleWriteResponse does not look at the offset an acknowledgement carries;
\* until the hub restarts, it could only be the offset of the last request.
UncheckedOffsetMatches ==
    Calm /\ m_state = "SENDING_DATA" =>
        \A i \in DOMAIN fromHub :
            fromHub[i].id = "WRITE_RESP" => fromHub[i].off = m_wordOffset

\* Until the hub restarts, every write request stays inside the application, so
\* that the result of getAppData, which requestWrite ignores, cannot be a failure.
WriteInsideImage ==
    Calm => \A req \in {stack[i].req : i \in DOMAIN stack}
                       \cup {toHub[i] : i \in DOMAIN toHub} :
        req.id = "WRITE_REQ" => req.len > 0 /\ req.off + req.len <= Words

\* What is programmed is what the host has counted, up to the last block.
OffsetTracksHub ==
    Calm /\ m_state = "SENDING_DATA" /\ hubMode = "upgrade"
         => stored \in {m_wordOffset, m_wordOffset + m_writeLen}

\* Offsets mean the same to the host, the messages and the hub, although nothing
\* compares them: acknowledgements are those of the last request, requests stay
\* inside the application, and the hub has programmed what the host has counted
\* (handleWriteResponse, requestWrite).
OffsetsMatch == UncheckedOffsetMatches /\ WriteInsideImage /\ OffsetTracksHub

Rank(state) == CASE state = "INIT"            -> 0
                 [] state = "SETTING_MODE"    -> 1
                 [] state = "SENDING_DATA"    -> 2
                 [] state = "WAIT_COMPLETION" -> 3
                 [] state = "LAUNCHING"       -> 4
                 [] state = "FINISHED"        -> 5

\* Until the hub restarts, the state machine never goes back: in particular
\* the state an outer handler returns never overwrites a later one.
StateNeverGoesBack == [][Calm => Rank(m_state) <= Rank(m_state')]_vars

\* Where the hub is, for the caller of run().
phase ==
    IF pc \in {"openFirmware", "openShtp"} THEN "idle"
    ELSE IF pc = "service" THEN "updating"
    ELSE IF m_status = "SH2_OK" THEN "succeeded" ELSE "failed"

Abstract == INSTANCE FirmwareUpdate WITH phase <- phase, image <- image

\* Unless the hub restarts by itself, the update is one as FirmwareUpdate
\* promises it, whatever is lost, refused or late: the flash is erased before it
\* is written, and run() returns true only over the complete, verified image.
Implements ==
    /\ "restart" \notin faults => Abstract!Init
    /\ [][("restart" \notin faults) => Abstract!Next]_<<phase, image>>

\* run() returns if every shtp_send it makes does, whatever is lost, refused or
\* restarted: DFU_TIMEOUT_US ends the loop, although it is only looked at while
\* no handler is sending.  With a hub that stays mute inside a send it need not.
Terminates == ([]<>(stack = <<>>)) => <>(pc = "returned")

Acceptable == FirmwareStatus = "SH2_OK" /\ Fits

\* If nothing goes wrong, an acceptable file is installed: the last, shorter
\* block and the 16-bit offset included.
CompletesWhenHealthy ==
    faults = {} /\ Acceptable => <>(pc = "returned" /\ m_status = "SH2_OK")
=============================================================================
