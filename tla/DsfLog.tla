------------------------------- MODULE DsfLog -------------------------------
(***************************************************************************)
(* What the DSF logger writes to its file, as the callbacks of the logger  *)
(* application make it: channel definitions, the time offset, samples with *)
(* their extended ids, sensor periods and resets.                          *)
(*                                                                         *)
(* A sample carries 8 bits of its number; SampleIdExtender makes up the    *)
(* rest from the order of arrival.  Samples may be lost on their way to    *)
(* the callback, the first ones may come out of order, and a reset makes   *)
(* the hub count from 0 again.  The hub and the sh2 library are outside    *)
(* src/.  The columns of a sample are left out.                            *)
(***************************************************************************)
EXTENDS Integers, Sequences

CONSTANTS
    Sensors,     \* sensor ids that have columns in SensorDsfHeader
    SeqMod,      \* sequence numbers are uint8_t: 256
    FaultSets,   \* what may go wrong, a subset of Faults per behaviour
    MaxCount,    \* bound on the number of a sample
    MaxResets,   \* bound on the resets of the hub
    MaxRecords   \* bound on the records in the file

(* loss: fewer than SeqMod - 1 samples of a sensor in a row are lost       *)
(* burst: any number of samples in a row are lost                          *)
(* early: samples come out of order, soon after the first one              *)
(* reset: the hub resets                                                   *)
Faults == {"loss", "burst", "early", "reset"}

ASSUME SizeAssumption ==
    SeqMod \in Nat \ {0, 1} /\ MaxCount \in Nat /\ MaxResets \in Nat /\ MaxRecords \in Nat
ASSUME FaultAssumption == FaultSets \subseteq SUBSET Faults

VARIABLES
    faults,     \* the faults of this behaviour (never changes)
    newest,     \* number of the newest sample of each sensor that arrived, or -1
    epoch,      \* resets of the hub so far
    started,    \* the sensor callback has been called
    late,       \* FLUSH_TIMEOUT has passed since then
    ready,      \* samples are logged
    extenders,  \* for each sensor: [empty, seqMsb, seqLsb]
    posix,      \* the time offset was written (posixOffset_ # 0)
    file        \* the records written

hubVars  == <<newest, epoch>>
appVars  == <<started, late, ready>>
vars     == <<faults, hubVars, appVars, extenders, posix, file>>

-----------------------------------------------------------------------------
(* Records.  A sample record also says which sample it is: `number' and    *)
(* `epoch' are not in the file.                                            *)

Definition(s)     == [kind |-> "definition", sensor |-> s]
Sample(s, id, n)  == [kind |-> "sample", sensor |-> s, id |-> id, number |-> n, epoch |-> epoch]
Period(s)         == [kind |-> "period", sensor |-> s]
PosixOffset       == [kind |-> "posix"]
ResetMark         == [kind |-> "reset"]

Init ==
    /\ faults \in FaultSets
    /\ newest = [s \in Sensors |-> -1]
    /\ epoch = 0
    /\ started = FALSE /\ late = FALSE /\ ready = FALSE
    /\ extenders = [s \in Sensors |-> [empty |-> TRUE, seqMsb |-> 0, seqLsb |-> 0]]
    /\ posix = FALSE
    /\ file = <<>>

-----------------------------------------------------------------------------
(* SampleIdExtender.                                                       *)

Extend(e, seq) ==
    [empty |-> FALSE,
     seqMsb |-> IF seq < e.seqLsb THEN e.seqMsb + 1 ELSE e.seqMsb,
     seqLsb |-> seq]

Id(e) == e.seqMsb * SeqMod + e.seqLsb

-----------------------------------------------------------------------------
(* The callbacks.                                                          *)

\* The definition of a channel is written before anything else about it.
DefinitionIfNew(s) == IF extenders[s].empty THEN <<Definition(s)>> ELSE <<>>

OffsetIfNew == IF posix THEN <<>> ELSE <<PosixOffset>>

\* Faulty variant: the number is not cut to 8 bits.
LogSample_Wide(s, n) ==
    LET e == Extend(extenders[s], n)
    IN  /\ file' = file \o DefinitionIfNew(s) \o OffsetIfNew \o <<Sample(s, Id(e), n)>>
        /\ extenders' = [extenders EXCEPT ![s] = e]
        /\ posix' = TRUE

\* logSensorValue with WriteSensorReportHeader; the time stamp is not 0.
LogSample(s, n) ==
    LET e == Extend(extenders[s], n % SeqMod)
    IN  /\ file' = file \o DefinitionIfNew(s) \o OffsetIfNew \o <<Sample(s, Id(e), n)>>
        /\ extenders' = [extenders EXCEPT ![s] = e]
        /\ posix' = TRUE

\* Which sample arrives after the newest one.
Arrives(s, n) ==
    \/ n = newest[s] + 1
    \/ "loss" \in faults /\ n \in newest[s] + 1 .. newest[s] + SeqMod - 1
    \/ "burst" \in faults /\ n > newest[s]
    \/ "early" \in faults /\ ~late /\ n <= newest[s]

\* Faulty variant: the first samples are logged.
SensorCallback_NoFlush(s) ==
    \E n \in 0 .. MaxCount :
        /\ Len(file) < MaxRecords
        /\ Arrives(s, n)
        /\ newest' = [newest EXCEPT ![s] = IF n > @ THEN n ELSE @]
        /\ started' = TRUE
        /\ ready' = TRUE
        /\ LogSample(s, n)
        /\ UNCHANGED <<faults, epoch, late>>

\* mySensorCallback: nothing is logged during the first FLUSH_TIMEOUT.
SensorCallback(s) ==
    \E n \in 0 .. MaxCount :
        /\ Len(file) < MaxRecords
        /\ Arrives(s, n)
        /\ newest' = [newest EXCEPT ![s] = IF n > @ THEN n ELSE @]
        /\ started' = TRUE
        /\ ready' = (ready \/ late)
        /\ IF ready'
           THEN LogSample(s, n)
           ELSE UNCHANGED <<file, extenders, posix>>
        /\ UNCHANGED <<faults, epoch, late>>

\* A sample that cannot be decoded, or of an id without columns, counts as a
\* call and no more.
UnloggedCallback ==
    /\ started' = TRUE
    /\ ready' = (ready \/ late)
    /\ UNCHANGED <<faults, hubVars, late, extenders, posix, file>>

\* Faulty variant: a response leaves the extender as it is.
FeatureResponse_NoExtend(s) ==
    /\ Len(file) < MaxRecords
    /\ file' = file \o DefinitionIfNew(s) \o <<Period(s)>>
    /\ UNCHANGED <<faults, hubVars, appVars, extenders, posix>>

\* logAsyncEvent, SH2_GET_FEATURE_RESP.  (For an id without columns, nothing happens.)
FeatureResponse(s) ==
    /\ Len(file) < MaxRecords
    /\ file' = file \o DefinitionIfNew(s) \o <<Period(s)>>
    /\ extenders' = [extenders EXCEPT ![s] = IF @.empty THEN Extend(@, 0) ELSE @]
    /\ UNCHANGED <<faults, hubVars, appVars, posix>>

\* logAsyncEvent, SH2_RESET: the extenders go on.
HubResets ==
    /\ "reset" \in faults
    /\ epoch < MaxResets
    /\ Len(file) < MaxRecords
    /\ epoch' = epoch + 1
    /\ newest' = [s \in Sensors |-> -1]
    /\ file' = Append(file, ResetMark)
    /\ UNCHANGED <<faults, appVars, extenders, posix>>

FlushTimeout ==
    /\ started /\ ~late
    /\ late' = TRUE
    /\ UNCHANGED <<faults, hubVars, started, ready, extenders, posix, file>>

Next ==
    \/ \E s \in Sensors : SensorCallback(s) \/ FeatureResponse(s)
    \/ UnloggedCallback \/ HubResets \/ FlushTimeout

Spec == Init /\ [][Next]_vars

-----------------------------------------------------------------------------
(* Properties.                                                             *)

Extenders == [empty: BOOLEAN, seqMsb: Nat, seqLsb: 0 .. SeqMod - 1]

Records == [kind: {"definition", "period"}, sensor: Sensors]
           \cup [kind: {"sample"}, sensor: Sensors, id: Nat, number: Nat, epoch: Nat]
           \cup [kind: {"posix", "reset"}]

TypeOK ==
    /\ faults \in FaultSets
    /\ newest \in [Sensors -> Nat \cup {-1}]
    /\ epoch \in 0 .. MaxResets
    /\ started \in BOOLEAN /\ late \in BOOLEAN /\ ready \in BOOLEAN
    /\ extenders \in [Sensors -> Extenders]
    /\ posix \in BOOLEAN
    /\ file \in Seq(Records)

Samples(s) == {i \in DOMAIN file : file[i].kind = "sample" /\ file[i].sensor = s}

Definitions(s) == {i \in DOMAIN file : file[i].kind = "definition" /\ file[i].sensor = s}

\* Whatever comes first of a sensor, a sample or the answer to its enabling:
\* its channel is defined before, and once (WriteChannelDefinition).
DefinedOnceBefore ==
    \A s \in Sensors :
        /\ \A i, j \in Definitions(s) : i = j
        /\ \A i \in DOMAIN file :
              file[i].kind \in {"sample", "period"} /\ file[i].sensor = s
                  => \E j \in Definitions(s) : j < i

\* The time offset is written before the first sample, and once.
OffsetOnceBefore ==
    LET offsets == {i \in DOMAIN file : file[i].kind = "posix"}
    IN  /\ \A i, j \in offsets : i = j
        /\ \A i \in DOMAIN file :
              file[i].kind = "sample" => \E j \in offsets : j < i

\* A reader that goes through the file once knows channel and offset of every
\* sample it meets.
DescribedBefore == DefinedOnceBefore /\ OffsetOnceBefore

\* Sample ids never go back, whatever is lost and however often the hub resets
\* (SampleIdExtender).
IdsNeverGoBack ==
    \A s \in Sensors : \A i, j \in Samples(s) :
        i < j => file[i].id <= file[j].id

\* As long as no more than SeqMod - 2 samples in a row are lost, sample ids tell
\* exactly how many samples lie between two of them, unless the hub reset in
\* between: the 8-bit counter turns over, the first samples come out of order
\* and the extender may have been set up by the answer to the enabling.
IdsExact ==
    "burst" \notin faults =>
        \A s \in Sensors : \A i, j \in Samples(s) :
            file[i].epoch = file[j].epoch
                => file[j].id - file[i].id = file[j].number - file[i].number

\* The ids of a log count the samples the hub made of a sensor: exactly where
\* that can be told, and never backwards (SampleIdExtender, mySensorCallback).
IdsCount == IdsNeverGoBack /\ IdsExact
=============================================================================
