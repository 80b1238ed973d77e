--------------------------- MODULE LoggerSession ----------------------------
(***************************************************************************)
(* A logging session: Sh2Logger::do_logging and breakHandler               *)
(* (sh2_logger.cpp) with LoggerApp (LoggerApp.cpp), over the wheel source. *)
(*                                                                         *)
(* A call into the sh2 library takes a while, in which the library calls   *)
(* back with samples and events, and may fail.  SIGINT may come at any     *)
(* time.  What a log contains is the subject of DsfLog.                    *)
(***************************************************************************)
EXTENDS WheelSource

CONSTANTS
    Sensors,      \* pSensorsToEnable
    MaxResets     \* bound: restarts of the hub

ASSUME SessionAssumption == MaxResets \in Nat

VARIABLES
    pc,             \* where do_logging is
    exit,           \* how the process ended
    runApp_,
    state_,
    todo,           \* sensors that a loop over the list has still to visit
    logOpen,        \* dsfLogger has its file open
    sessionOpen,    \* sh2_open succeeded, and sh2_close was not called
    hubOn,          \* sensors that are enabled at the hub
    resetPending,   \* the hub has restarted, and the host has not been told
    strays,         \* times of samples of before the restart, still on their way
    lost,           \* a sensor could not be turned off
    resets          \* counts restarts of the hub

hubVars     == <<hubOn, resetPending, strays, resets>>
sessionVars == <<exit, runApp_, state_, todo, logOpen, sessionOpen, lost>>
vars        == <<wheelVars, hubVars, pc, sessionVars>>

\* The calls of init() that end it if they fail.
Checked == {"sh2_open", "sh2_setSensorCallback", "sh2_getProdIds", "sh2_setDcdAutoSave",
            "sh2_setCalConfig"}

\* Where the library may call back; the wheel source's service() calls
\* sh2_reportWheelEncoder.
Calls == Checked \cup {"clear", "sh2_getFrs", "enable", "wheelService", "sh2_service",
                       "disable", "sh2_saveDcdNow", "sh2_close"}

After == [sh2_open |-> "sh2_setSensorCallback", sh2_setSensorCallback |-> "clear",
          sh2_getProdIds |-> "sh2_setDcdAutoSave", sh2_setDcdAutoSave |-> "sh2_setCalConfig",
          sh2_setCalConfig |-> "sh2_getFrs"]

Init ==
    /\ WheelInit
    /\ pc = "configure"
    /\ exit = "none"
    /\ runApp_ = TRUE
    /\ state_ = "Idle"
    /\ todo = {}
    /\ logOpen = FALSE /\ sessionOpen = FALSE
    /\ hubOn = {} /\ resetPending = FALSE /\ strays = {} /\ resets = 0
    /\ lost = FALSE

-----------------------------------------------------------------------------
(* do_logging up to init().                                                *)

\* main returns -1: the destructor of dsfLogger closes its file, and nothing else is
\* undone.
Fail ==
    /\ pc' = "ended"
    /\ exit' = "-1"
    /\ logOpen' = FALSE
    /\ UNCHANGED <<runApp_, state_, todo, sessionOpen, lost>>

\* Options and the JSON file.
Configure ==
    /\ pc = "configure"
    /\ \/ pc' = "begin" /\ UNCHANGED sessionVars
       \/ Fail
    /\ UNCHANGED <<wheelVars, hubVars>>

Begin ==
    /\ pc = "begin"
    /\ IF Sensors = {}
       THEN /\ pc' = "ended" /\ exit' = "-1"
       ELSE /\ pc' = "openLog" /\ UNCHANGED exit
    /\ runApp_' = TRUE
    /\ UNCHANGED <<wheelVars, hubVars, state_, todo, logOpen, sessionOpen, lost>>

OpenLog ==
    /\ pc = "openLog"
    /\ \/ /\ pc' = "makeWheel"
          /\ logOpen' = TRUE
          /\ UNCHANGED <<exit, runApp_, state_, todo, sessionOpen, lost>>
       \/ Fail
    /\ UNCHANGED <<wheelVars, hubVars>>

MakeWheel ==
    /\ pc = "makeWheel"
    /\ pc' = "openHal"
    /\ IF kind = "none" THEN UNCHANGED wheelVars ELSE Construct
    /\ UNCHANGED <<hubVars, sessionVars>>

\* init() begins: it waits for a reset in name only.
OpenHal ==
    /\ pc = "openHal"
    /\ \/ /\ pc' = "sh2_open"
          /\ state_' = "Reset"
          /\ UNCHANGED <<exit, runApp_, todo, logOpen, sessionOpen, lost>>
       \/ Fail
    /\ UNCHANGED <<wheelVars, hubVars>>

-----------------------------------------------------------------------------
(* LoggerApp::init.                                                        *)

CheckedCall ==
    /\ pc \in Checked
    /\ \/ /\ pc' = After[pc]
          /\ sessionOpen' = TRUE
          /\ UNCHANGED <<exit, runApp_, state_, todo, logOpen, lost>>
       \/ Fail
    /\ UNCHANGED <<wheelVars, hubVars>>

\* The hub forgets its sensors and its clock; what it has sent before is on its way.
HubRestarts ==
    /\ hubOn' = {}
    /\ resetPending' = TRUE
    /\ strays' = strays \cup {HubClock(now) : s \in hubOn}
    /\ resets' = resets + 1
    /\ ClockRestarts

\* Calibration data is cleared, or it is not; only clearDcd restarts the hub.
Clear ==
    /\ pc = "clear"
    /\ pc' = "sh2_getProdIds"
    /\ \/ UNCHANGED <<state_, hubVars, wheelVars>>
       \/ /\ state_' = "Reset"
          /\ \/ resets < MaxResets /\ HubRestarts
             \/ UNCHANGED <<hubVars, wheelVars>>
    /\ UNCHANGED <<exit, runApp_, todo, logOpen, sessionOpen, lost>>

LogFrs ==
    /\ pc = "sh2_getFrs"
    /\ pc' = "enable"
    /\ todo' = Sensors
    /\ UNCHANGED <<wheelVars, hubVars, exit, runApp_, state_, logOpen, sessionOpen, lost>>

\* sh2_setSensorConfig, the status of which nobody looks at.
Enable ==
    /\ pc = "enable"
    /\ \E s \in todo :
          /\ todo' = todo \ {s}
          /\ hubOn' = hubOn \cup {s} \/ UNCHANGED hubOn
    /\ UNCHANGED <<wheelVars, pc, exit, runApp_, state_, logOpen, sessionOpen, lost,
                   resetPending, strays, resets>>

InitEnds ==
    /\ pc = "enable" /\ todo = {}
    /\ pc' = "loop"
    /\ state_' = "Run"
    /\ UNCHANGED <<wheelVars, hubVars, exit, runApp_, todo, logOpen, sessionOpen, lost>>

-----------------------------------------------------------------------------
(* The loop, LoggerApp::finish, and what follows.                          *)

Loop ==
    /\ pc = "loop"
    /\ IF runApp_ THEN pc' = "wheelService" /\ UNCHANGED todo
                  ELSE pc' = "disable" /\ todo' = Sensors
    /\ UNCHANGED <<wheelVars, hubVars, exit, runApp_, state_, logOpen, sessionOpen, lost>>

WheelService ==
    /\ pc = "wheelService"
    /\ pc' = "sh2_service"
    /\ IF kind = "none" THEN UNCHANGED wheelVars ELSE ServiceWheel
    /\ UNCHANGED <<hubVars, sessionVars>>

Service ==
    /\ pc = "sh2_service"
    /\ pc' = "loop"
    /\ UNCHANGED <<wheelVars, hubVars, sessionVars>>

\* Turning off s leaves `on' enabled, or fails and nobody looks.
TurnOff(s, on) ==
    /\ todo' = todo \ {s}
    /\ \/ hubOn' = on /\ UNCHANGED lost
       \/ lost' = TRUE /\ UNCHANGED hubOn
    /\ UNCHANGED <<wheelVars, pc, exit, runApp_, state_, logOpen, sessionOpen, resetPending,
                   strays, resets>>

\* Faulty variant: the last sensor of the list is left on.
Disable_SkipsOne ==
    /\ pc = "disable"
    /\ \E s \in todo : TurnOff(s, IF todo = {s} THEN hubOn ELSE hubOn \ {s})

Disable ==
    /\ pc = "disable"
    /\ \E s \in todo : TurnOff(s, hubOn \ {s})

\* Faulty variant: the log is closed before the session with the hub.
SaveDcd_ClosesLog ==
    /\ \/ pc = "disable" /\ todo = {} /\ pc' = "sh2_saveDcdNow"
       \/ pc = "sh2_saveDcdNow" /\ pc' = "sh2_close"
    /\ logOpen' = FALSE
    /\ UNCHANGED <<wheelVars, hubVars, exit, runApp_, state_, todo, sessionOpen, lost>>

SaveDcd ==
    /\ \/ pc = "disable" /\ todo = {} /\ pc' = "sh2_saveDcdNow"
       \/ pc = "sh2_saveDcdNow" /\ pc' = "sh2_close"
    /\ UNCHANGED <<wheelVars, hubVars, sessionVars>>

CloseSession ==
    /\ pc = "sh2_close"
    /\ pc' = "finishLog"
    /\ sessionOpen' = FALSE
    /\ UNCHANGED <<wheelVars, hubVars, exit, runApp_, state_, todo, logOpen, lost>>

FinishLog ==
    /\ pc = "finishLog"
    /\ pc' = "deleteWheel"
    /\ logOpen' = FALSE
    /\ UNCHANGED <<wheelVars, hubVars, exit, runApp_, state_, todo, sessionOpen, lost>>

DeleteWheel ==
    /\ pc = "deleteWheel"
    /\ CloseInput \/ StopReader \/ Join
    /\ UNCHANGED <<hubVars, pc, sessionVars>>

Return ==
    /\ pc = "deleteWheel" /\ wheel \in {"none", "deleted"}
    /\ pc' = "ended"
    /\ exit' = "0"
    /\ UNCHANGED <<wheelVars, hubVars, runApp_, state_, todo, logOpen, sessionOpen, lost>>

-----------------------------------------------------------------------------
(* What comes in between.                                                  *)

\* mySensorCallback, with a raw sample that is `delay' old.
SensorCallback(delay) ==
    /\ pc \in Calls
    /\ sessionOpen /\ hubOn # {} /\ ~resetPending /\ kind # "none"
    /\ hubOrigin <= now - delay
    /\ ReportModuleTime(HubClock(now - delay), TRUE)
    /\ UNCHANGED <<hubVars, pc, sessionVars>>

\* mySensorCallback, with a raw sample of before a restart of the hub.
StrayCallback ==
    /\ pc \in Calls
    /\ sessionOpen /\ kind # "none"
    /\ \E time \in strays : ReportModuleTime(time, FALSE)
    /\ UNCHANGED <<hubVars, pc, sessionVars>>

\* myEventCallback tells of a reset.
ResetCallback ==
    /\ pc \in Calls
    /\ resetPending
    /\ resetPending' = FALSE
    /\ strays' = {}
    /\ state_' = IF state_ = "Reset" THEN "Startup" ELSE state_
    /\ UNCHANGED <<wheelVars, hubOn, resets, pc, exit, runApp_, todo, logOpen, sessionOpen,
                   lost>>

\* Nothing is lost by a restart before the session is open.
HubResets ==
    /\ sessionOpen /\ pc # "ended"
    /\ resets < MaxResets
    /\ HubRestarts
    /\ UNCHANGED <<pc, sessionVars>>

\* breakHandler on SIGINT; the second time it ends the process with exit(0), which
\* does not run the destructor of dsfLogger.
Interrupt ==
    /\ pc # "ended"
    /\ IF runApp_
       THEN runApp_' = FALSE /\ UNCHANGED <<pc, exit>>
       ELSE pc' = "ended" /\ exit' = "forced" /\ UNCHANGED runApp_
    /\ UNCHANGED <<wheelVars, hubVars, state_, todo, logOpen, sessionOpen, lost>>

-----------------------------------------------------------------------------
Host == \/ Configure \/ Begin \/ OpenLog \/ MakeWheel \/ OpenHal
        \/ CheckedCall \/ Clear \/ LogFrs \/ Enable \/ InitEnds
        \/ Loop \/ WheelService \/ Service
        \/ Disable \/ SaveDcd \/ CloseSession \/ FinishLog \/ DeleteWheel \/ Return

\* What is written before the wheel source is there, it finds when it comes; nobody
\* measures the time before the first sample, or after the session.
WheelData ==
    /\ pc # "ended"
    /\ \/ wheel # "none" /\ (WriteLine \/ EndInput)
       \/ wheel = "alive" /\ ready_ /\ Tick
    /\ UNCHANGED <<hubVars, pc, sessionVars>>

ReaderThread ==
    /\ pc # "ended"
    /\ Reader
    /\ UNCHANGED <<hubVars, pc, sessionVars>>

Finished == pc = "ended" /\ UNCHANGED vars

Next == \/ Host \/ ReaderThread \/ WheelData
        \/ \E delay \in 0 .. MaxDelay : SensorCallback(delay)
        \/ StrayCallback \/ ResetCallback \/ HubResets \/ Interrupt
        \/ Finished

Spec == Init /\ [][Next]_vars

\* Calls come back, and threads run.
FairSpec == /\ Spec
            /\ WF_vars(Host)
            /\ WF_vars(ReaderThread)

-----------------------------------------------------------------------------
(* Properties.                                                             *)

\* The states of the session and of the wheel source are those the code has.
TypeOK ==
    /\ WheelTypeOK
    /\ pc \in Calls \cup {"configure", "begin", "openLog", "makeWheel", "openHal", "loop",
                          "finishLog", "deleteWheel", "ended"}
    /\ exit \in {"none", "0", "-1", "forced"}
    /\ runApp_ \in BOOLEAN /\ logOpen \in BOOLEAN /\ sessionOpen \in BOOLEAN
    /\ state_ \in {"Idle", "Reset", "Startup", "Run"}
    /\ todo \subseteq Sensors /\ hubOn \subseteq Sensors /\ strays \subseteq HubTimes

\* Whenever the library may call back, what the callbacks use is there: the log is
\* open and the wheel source is not being deleted (myEventCallback, mySensorCallback).
CallbacksAlive ==
    pc \in Calls => logOpen /\ wheel = (IF kind = "none" THEN "none" ELSE "alive")

\* A session that returns 0 has undone everything: the session with the hub and the
\* log are closed, the reader has ended, and the sensors are off unless that failed
\* (do_logging, finish).
CleanEnd ==
    exit = "0" => /\ ~sessionOpen /\ ~logOpen
                  /\ reader \in {"none", "gone"} /\ wheel \in {"none", "deleted"}
                  /\ lost \/ hubOn = {}

\* The session was told to stop after runApp_ was set.
Stopping == ~runApp_ /\ pc \notin {"configure", "begin"}

\* join() waits for a reader that waits for a line, and the stream does not bring one.
HeldUp ==
    /\ pc = "deleteWheel" /\ wheel = "stopped"
    /\ reader = "read" /\ kind = "stream" /\ ~inputEnded /\ ~EndOfLine

=============================================================================
