---------------------------- MODULE ConfiguredLog ----------------------------
(***************************************************************************)
(* From the command line and the configuration file to the requests to the *)
(* hub and to the log: the dispatch of Sh2Logger::run, the template,       *)
(* do_logging, LoggerApp::init and finish, and the DSF logger behind them. *)
(*                                                                         *)
(* LoggerSession has the same calls with signals and callbacks at any time *)
(* and leaves out what they carry; here it is the other way round.  When a *)
(* channel is defined, and the head of a record, are the subject of        *)
(* DsfLog.                                                                 *)
(***************************************************************************)
EXTENDS BatchConfig, DsfColumns

CONSTANTS
    Inputs,         \* a command line and a configuration file somebody wrote
    Edits,          \* rates somebody may put into the template, by name,
    Orientations,   \* and orientations
    Records,        \* calibration records a hub may have
    Attitudes,      \* attitudes of the hub, as quaternions of integers
    MaxSamples      \* bound on the samples of a log

\* Whether an option is there, or which value it has.
ASSUME InputAssumption ==
    \A input \in Inputs :
        input.options \in [cmd: {"log", "dfu-bno", "dfu-fsp200", "template", "?"},
                          in: BOOLEAN, out: BOOLEAN, device: BOOLEAN,
                          clearDcd: {"unset", "0", "1"}, clearOfCal: {"unset", "0", "1"}]
ASSUME FileAssumption ==
    /\ \A input \in Inputs : IsFile(input.file)
    /\ \A edit \in Edits : \A n \in DOMAIN edit : IsEntry(edit[n])
    /\ \A orientation \in Orientations : IsValue(orientation) /\ orientation.type = "string"
ASSUME HubAssumption ==
    /\ Records \subseteq SUBSET {"scd", "nominal_scd", "dcd"}
    /\ Attitudes \subseteq [1 .. 4 -> Int]
    /\ MaxSamples \in Nat

VARIABLES
    options,    \* the command line
    file,       \* the configuration file
    saturates,  \* how this build converts a number that is too large
    hub,        \* [records, attitude] of the hub (never changes)
    pc,         \* where the program is
    exit,       \* how it ended
    appConfig,
    todo,       \* sensors of the list that are still to be enabled
    requests,   \* what the hub has been asked, in order
    defined,    \* sensors whose extender is not empty
    samples,    \* samples so far
    log         \* the .dsf file: records, or "old" before it is opened

inputVars == <<options, file, saturates, hub>>
vars      == <<inputVars, pc, exit, appConfig, todo, requests, defined, samples, log>>

-----------------------------------------------------------------------------
Init ==
    /\ \E input \in Inputs : options = input.options /\ file = input.file
    /\ saturates \in BOOLEAN
    /\ hub \in [records: Records, attitude: Attitudes]
    /\ pc = "start"
    /\ exit = "none"
    /\ appConfig = DefaultConfig
    /\ todo = <<>>
    /\ requests = <<>>
    /\ defined = {}
    /\ samples = 0
    /\ log = <<[kind |-> "old"]>>

End(code) == pc' = "ended" /\ exit' = code

-----------------------------------------------------------------------------
(* The command line.                                                       *)

\* The parser of the command line ends the program itself.
parseArgs ==
    /\ pc = "start"
    /\ IF options.cmd = "?" THEN End("usage") ELSE pc' = "run" /\ UNCHANGED exit
    /\ UNCHANGED <<inputVars, appConfig, todo, requests, defined, samples, log>>

\* Whether the file could be written is not looked at.
do_template ==
    /\ pc = "run" /\ options.cmd = "template"
    /\ IF options.out THEN End("0") /\ file' = Template ELSE End("-1") /\ UNCHANGED file
    /\ UNCHANGED <<options, saturates, hub, appConfig, todo, requests, defined, samples, log>>

\* The members of a list, some of them written anew.
Rewritten(members, edit) ==
    [n \in DOMAIN members \cup DOMAIN edit |->
        IF n \in DOMAIN edit THEN edit[n] ELSE members[n]]

\* The user puts rates and an orientation into the template, and starts the
\* program again, to log.
EditTemplate ==
    /\ pc = "ended" /\ options.cmd = "template" /\ exit = "0"
    /\ \E edit \in Edits, orientation \in Orientations :
          file' = [file EXCEPT !.members["sensorList"].members = Rewritten(@, edit),
                               !.members["orientation"] = orientation]
    /\ options' = [options EXCEPT !.cmd = "log", !.in = TRUE, !.device = TRUE]
    /\ pc' = "start"
    /\ exit' = "none"
    /\ UNCHANGED <<saturates, hub, appConfig, todo, requests, defined, samples, log>>

\* The update itself is the subject of BnoDfu and FspDfu.
do_dfu ==
    /\ pc = "run" /\ options.cmd \in {"dfu-bno", "dfu-fsp200"}
    /\ \/ options.in /\ options.device /\ End("0")
       \/ End("-1")
    /\ UNCHANGED <<inputVars, appConfig, todo, requests, defined, samples, log>>

-----------------------------------------------------------------------------
(* do_logging.                                                             *)

\* A parameter of the command line overrides that of the file.
Override(set, value) == IF set = "unset" THEN value ELSE set = "1"

Configured ==
    LET c == AppConfig(file, saturates)
    IN  [c EXCEPT !.clearDcd = Override(options.clearDcd, @),
                  !.clearOfCal = Override(options.clearOfCal, @)]

\* The log is not opened before the configuration has proved good; without a
\* sensor, or if it cannot be opened, this is the end.
do_logging ==
    /\ pc = "run" /\ options.cmd = "log"
    /\ IF ~(options.in /\ options.out /\ options.device)
       THEN End("-1") /\ UNCHANGED <<appConfig, todo, log>>
       ELSE \/ /\ ParseJsonBatchFile(file) = "throws"
               /\ End("aborted")
               /\ UNCHANGED <<appConfig, todo, log>>
            \/ /\ ParseJsonBatchFile(file) = "false"
               /\ End("-1")
               /\ UNCHANGED <<appConfig, todo, log>>
            \/ /\ ParseJsonBatchFile(file) = "true"
               /\ appConfig' = Configured
               /\ todo' = appConfig'.pSensorsToEnable
               /\ \/ todo' # <<>> /\ pc' = "clear" /\ log' = <<>> /\ UNCHANGED exit
                  \/ End("-1") /\ UNCHANGED log
    /\ UNCHANGED <<inputVars, requests, defined, samples>>

\* A call of init() fails.
Fail ==
    /\ pc \in {"clear", "prodIds", "dcdAutoSave", "calConfig"}
    /\ End("-1")
    /\ UNCHANGED <<inputVars, appConfig, todo, requests, defined, samples, log>>

-----------------------------------------------------------------------------
(* LoggerApp::init.                                                        *)

Ask(r) == requests' = requests \o r

\* Clearing calibration data needs a reset of one kind or the other.
Clear ==
    /\ pc = "clear"
    /\ Ask((IF appConfig.clearOfCal THEN <<[kind |-> "erase", what |-> "DR_CAL"]>> ELSE <<>>)
           \o (IF appConfig.clearDcd
               THEN <<[kind |-> "erase", what |-> "DYNAMIC_CALIBRATION"],
                      [kind |-> "clearDcdAndReset"]>>
               ELSE IF appConfig.clearOfCal THEN <<[kind |-> "reinitialize"]>> ELSE <<>>))
    /\ pc' = "prodIds"
    /\ UNCHANGED <<inputVars, exit, appConfig, todo, defined, samples, log>>

GetProdIds ==
    /\ pc = "prodIds"
    /\ log' = Append(log, [kind |-> "product"])
    /\ pc' = "dcdAutoSave"
    /\ UNCHANGED <<inputVars, exit, appConfig, todo, requests, defined, samples>>

SetDcdAutoSave ==
    /\ pc = "dcdAutoSave"
    /\ Ask(<<[kind |-> "dcdAutoSave", is |-> appConfig.dcdAutoSave]>>)
    /\ pc' = "calConfig"
    /\ UNCHANGED <<inputVars, exit, appConfig, todo, defined, samples, log>>

SetCalConfig ==
    /\ pc = "calConfig"
    /\ Ask(<<[kind |-> "calConfig", mask |-> appConfig.calEnableMask]>>)
    /\ pc' = "frs"
    /\ UNCHANGED <<inputVars, exit, appConfig, todo, defined, samples, log>>

\* LogFrsRecord: a record the hub does not have, or that is empty, is left out.
LogFrsRecord(record, name) ==
    IF record \in hub.records
    THEN <<[kind |-> "frs", record |-> record, name |-> name]>> ELSE <<>>

LogAllFrsRecords ==
    /\ pc = "frs"
    /\ LET scd == LogFrsRecord("scd", "scd")
       IN  log' = log
               \o (IF scd # <<>> THEN scd
                   ELSE <<[kind |-> "message"]>> \o LogFrsRecord("nominal_scd", "scd"))
               \o FlattenSeq([i \in DOMAIN Sh2FrsRecords |->
                      LogFrsRecord(Sh2FrsRecords[i], Sh2FrsRecords[i])])
    /\ pc' = "enable"
    /\ UNCHANGED <<inputVars, exit, appConfig, todo, requests, defined, samples>>

\* What sh2_setSensorConfig is asked for a member of the list: the default
\* configuration of the sensor, three members of which the list overwrites.
SensorConfig(c) ==
    [kind            |-> "sensor",
     sensorId        |-> c.sensorId,
     onChange        |-> c.sensorId \in changeSensitivityEnabled,
     relative        |-> c.sensorId \in changeSensitivityRelative,
     wakeup          |-> c.sensorId \in wakeupEnabled,
     alwaysOn        |-> c.sensorId \in alwaysOnEnabled,
     sensitivity     |-> changeSensitivity(c.sensorId),
     interval        |-> c.reportInterval_us,
     sensorSpecific  |-> c.sensorSpecific,
     sniffEnabled    |-> c.sniffEnabled # 0]

EnableSensor ==
    /\ pc = "enable"
    /\ todo # <<>>
    /\ Ask(<<SensorConfig(Head(todo))>>)
    /\ todo' = Tail(todo)
    /\ pc' = IF todo' = <<>> THEN "log" ELSE "enable"
    /\ UNCHANGED <<inputVars, exit, appConfig, defined, samples, log>>

-----------------------------------------------------------------------------
(* Logging, and LoggerApp::finish.                                         *)

SensorRequests == {i \in DOMAIN requests : requests[i].kind = "sensor"}
Enabled        == {requests[i].sensorId : i \in SensorRequests}

\* A rotation by a quaternion of integers, times the square of its length.
Rotate(q, v) ==
    LET w == q[1]  x == q[2]  y == q[3]  z == q[4]
    IN  << (w*w + x*x - y*y - z*z) * v[1] + 2*(x*y - w*z) * v[2] + 2*(x*z + w*y) * v[3],
           2*(x*y + w*z) * v[1] + (w*w - x*x + y*y - z*z) * v[2] + 2*(y*z - w*x) * v[3],
           2*(x*z - w*y) * v[1] + 2*(y*z + w*x) * v[2] + (w*w - x*x - y*y + z*z) * v[3] >>

\* The hub reports its attitude in ENU, and the vertical as it is seen by the
\* hub in that attitude.
HubSample ==
    LET q == hub.attitude
    IN  [rotation |-> q, vector |-> Rotate(<<q[1], -q[2], -q[3], -q[4]>>, <<0, 0, 1>>)]

\* mySensorCallback with logSensorValue.
LogSample ==
    /\ pc \in {"enable", "log"}
    /\ samples < MaxSamples
    /\ \E id \in Enabled :
          /\ HasChannel(id)
          /\ defined' = defined \cup {id}
          /\ log' = log
                 \o (IF id \in defined THEN <<>>
                     ELSE <<[kind |-> "definition", sensor |-> id,
                             is |-> ChannelDefinition(id, appConfig.orientationNed)]>>)
                 \o <<[kind |-> "sample", sensor |-> id,
                       fields |-> LoggedFields(id, HubSample, appConfig.orientationNed)]>>
    /\ samples' = samples + 1
    /\ UNCHANGED <<inputVars, pc, exit, appConfig, todo, requests>>

\* Every sensor of the list is turned off.
Finish ==
    /\ pc = "log"
    /\ Ask([i \in DOMAIN appConfig.pSensorsToEnable |->
               [kind |-> "off", sensorId |-> appConfig.pSensorsToEnable[i].sensorId]]
           \o <<[kind |-> "saveDcd"]>>)
    /\ End("0")
    /\ UNCHANGED <<inputVars, appConfig, todo, defined, samples, log>>

Next ==
    \/ parseArgs \/ do_template \/ EditTemplate \/ do_dfu \/ do_logging
    \/ Fail \/ Clear \/ GetProdIds \/ SetDcdAutoSave \/ SetCalConfig \/ LogAllFrsRecords
    \/ EnableSensor \/ LogSample \/ Finish

Spec == Init /\ [][Next]_vars

-----------------------------------------------------------------------------
(* Properties.                                                             *)

IntVectors == [1 .. 3 -> Int]

Requests ==
    [kind: {"erase"}, what: {"DR_CAL", "DYNAMIC_CALIBRATION"}]
    \cup [kind: {"clearDcdAndReset", "reinitialize", "saveDcd"}]
    \cup [kind: {"dcdAutoSave"}, is: BOOLEAN]
    \cup [kind: {"calConfig"}, mask: 0 .. 255]
    \cup [kind: {"sensor"}, sensorId: SensorIds, onChange: BOOLEAN, relative: BOOLEAN,
          wakeup: BOOLEAN, alwaysOn: BOOLEAN, sensitivity: Nat, interval: 1 .. Word - 1,
          sensorSpecific: 0 .. Word - 1, sniffEnabled: BOOLEAN]
    \cup [kind: {"off"}, sensorId: SensorIds]

\* The types of all variables that change.
TypeOK ==
    /\ pc \in {"start", "run", "clear", "prodIds", "dcdAutoSave", "calConfig", "frs",
               "enable", "log", "ended"}
    /\ exit \in {"none", "usage", "0", "-1", "aborted"}
    /\ appConfig.calEnableMask \in 0 .. 255
    /\ \A k \in Flags : appConfig[k] \in BOOLEAN
    /\ appConfig.orientationNed \in BOOLEAN
    /\ \A i \in DOMAIN requests : requests[i] \in Requests
    /\ defined \subseteq SensorIds
    /\ samples \in 0 .. MaxSamples
    /\ \A i \in DOMAIN log :
          log[i].kind \in {"old", "product", "message", "frs", "definition", "sample"}

\* What the configuration file asks for, sensor by sensor.
Listed(id) ==
    /\ NameOf(id) \in Keys(file.members["sensorList"])
    /\ \A lower \in 0 .. id - 1 : NameOf(lower) # NameOf(id)
Entry(id) == file.members["sensorList"].members[NameOf(id)]

\* The period that belongs to the rate of a sensor: from half a unit on, and
\* below what a period can hold.
TooFast(id) == RateOf(Entry(id)).num > 2 * Second * RateOf(Entry(id)).den
TooSlow(id) == Second * RateOf(Entry(id)).den > (Word - 1) * RateOf(Entry(id)).num
Wanted == {id \in SensorIds : Listed(id) /\ RateOf(Entry(id)).num > 0 /\ ~TooFast(id)}

Distance(a, b) == IF a < b THEN b - a ELSE a - b

\* No other period is nearer to the rate.
Nearest(interval, rate) ==
    LET error(p) == Distance(p * rate.num, Second * rate.den)
    IN  error(interval) <= error(interval + 1) /\ error(interval) <= error(interval - 1)

Erased(what) == \E i \in DOMAIN requests : requests[i] = [kind |-> "erase", what |-> what]
SaysTrue(k)  == k \in Keys(file) /\ file.members[k] = Boolean(TRUE)

\* Sensors of which the repository says one thing and the code does another,
\* so that nothing is demanded: one with `sniffEnabled' is configured although
\* README.md:199-201 says that it is not, and "Reserved" is the name of id 0,
\* which passes for a valid id (sh2_logger.cpp:650).
Contested == {0} \cup {id \in SensorIds :
                         Listed(id) /\ OptionValue(Entry(id), "sniffEnabled") # 0}

\* Once all sensors are enabled they are the ones the configuration file
\* gives a rate, whatever else it has, in the order of their ids, each with
\* the period nearest to its rate, as a float holds it, and its own options.
SensorsAsConfigured ==
    /\ Enabled \ ({id \in Wanted : TooSlow(id)} \cup Contested)
          = {id \in Wanted : ~TooSlow(id)} \ Contested
    /\ \A i, j \in SensorRequests : i < j => requests[i].sensorId < requests[j].sensorId
    /\ \A i \in SensorRequests :
          LET id == requests[i].sensorId
          IN  /\ TooSlow(id) \/ Nearest(requests[i].interval, RateOf(Entry(id)))
              /\ requests[i].sensorSpecific = OptionValue(Entry(id), "sensorSpecific")
              /\ requests[i].sniffEnabled = (OptionValue(Entry(id), "sniffEnabled") # 0)

\* Calibration data is erased when the command line says so, or when it says
\* nothing and the file says so; the hub restarts after it and before a sensor
\* is enabled.
ErasedAsConfigured ==
    /\ Erased("DYNAMIC_CALIBRATION")
          = (options.clearDcd = "1" \/ (options.clearDcd = "unset" /\ SaysTrue("clearDcd")))
    /\ Erased("DR_CAL")
          = (options.clearOfCal = "1" \/ (options.clearOfCal = "unset" /\ SaysTrue("clearOfCal")))
    /\ \A i \in DOMAIN requests :
          requests[i].kind = "erase" =>
              \E j \in i + 1 .. Len(requests) :
                  /\ requests[j].kind \in {"clearDcdAndReset", "reinitialize"}
                  /\ \A k \in DOMAIN requests : requests[k].kind = "sensor" => j < k

\* From the command line and the file to the hub: what is running is what was
\* asked for (see the two operators), and an existing log is given up only for
\* a configuration that enables a sensor.
AsConfigured ==
    /\ pc = "log" =>
          /\ SensorsAsConfigured
          /\ ErasedAsConfigured
          /\ [kind |-> "dcdAutoSave", is |-> SaysTrue("dcdAutoSave")] \in ToSet(requests)
    /\ log # <<[kind |-> "old"]>> =>
          exit # "aborted" /\ options.in /\ options.out /\ options.device /\ Wanted # {}

\* Every sample has a value for each column of the channel that is defined
\* before it, with as many fields as the column has letters, and nothing after
\* the last comma.  (The personal activity classifier has a comma more than
\* columns.)  Its coordinates have a frame if and only if they were not left
\* raw.
SamplesFit ==
    \A i \in DOMAIN log : log[i].kind = "sample" =>
        \E j \in 1 .. i - 1 :
            /\ log[j].kind = "definition" /\ log[j].sensor = log[i].sensor
            /\ LET id == log[i].sensor  columns == log[j].is.widths  values == log[i].fields
               IN  /\ DOMAIN columns \subseteq DOMAIN values
                   /\ \A c \in DOMAIN values :
                         Len(values[c]) = IF c \in DOMAIN columns THEN columns[c] ELSE 0
                   /\ Has(id, "vector") \/ Has(id, "rotation") => log[j].is.frame # "none"
                   /\ Has(id, "raw") => log[j].is.frame = "none"

\* A log describes itself: its samples fit their channels, and it has one
\* record `scd', the static calibration if the hub has one and else the
\* nominal one, with a message that says so.
LogDescribes ==
    /\ SamplesFit
    /\ pc \in {"enable", "log"} =>
          LET scd == {i \in DOMAIN log : log[i].kind = "frs" /\ log[i].name = "scd"}
          IN  /\ Cardinality(scd) = IF hub.records \cap {"scd", "nominal_scd"} = {} THEN 0 ELSE 1
              /\ \A i \in scd : log[i].record = "scd" <=> "scd" \in hub.records
              /\ (\E i \in DOMAIN log : log[i].kind = "message") <=> "scd" \notin hub.records

Samples == {i \in DOMAIN log : log[i].kind = "sample"}

\* d defines the channel of sample i; its column c has that many letters, and
\* it declares a frame.
Declares(d, i, c, letters) ==
    /\ log[d].kind = "definition" /\ log[d].sensor = log[i].sensor
    /\ log[d].is.frame # "none"
    /\ c \in DOMAIN log[d].is.widths /\ log[d].is.widths[c] = letters

\* All coordinates of a log are in one frame, the one its channels declare:
\* every x, y, z, turned by every w, x, y, z of the same log, gives what it was
\* in the world.  Here it was the vertical, which is (0, 0, 1) in ENU; of z in
\* NED README.md:195-196 says that it points up as well, and the code that it
\* points down: either will do, if it does so in the whole log.
OneFrame ==
    \E up \in {1, -1} :
        \A i, j \in Samples, d, e \in DOMAIN log :
            \A c \in DOMAIN log[i].fields, k \in DOMAIN log[j].fields :
                Declares(d, i, c, 3) /\ Declares(e, j, k, 4) =>
                    LET q == log[j].fields[k]
                        n == q[1]*q[1] + q[2]*q[2] + q[3]*q[3] + q[4]*q[4]
                    IN  /\ Rotate(q, log[i].fields[c]) = <<0, 0, up * (n * n)>>
                        /\ log[d].is.frame = log[e].is.frame
                        /\ log[d].is.frame = "ENU" => up = 1
=============================================================================
