---------------------------- MODULE WheelSource -----------------------------
(***************************************************************************)
(* The source of wheel data (WheelSource.cpp, FileWheelSource.cpp): a      *)
(* thread that reads lines, a queue, and what the logging session calls.   *)
(* LoggerSession says when it calls it.                                    *)
(*                                                                         *)
(* The program that writes the lines writes each of them at once or in two *)
(* parts.  At the end of a file a part is read as if it were a line, which *)
(* the format (FileWheelSource.h:31) does not provide for; from a stream   *)
(* (the standard input, a pipe) the reader waits for the rest.             *)
(***************************************************************************)
EXTENDS Integers, Sequences

CONSTANTS
    Inputs,      \* kinds of input, with what is written to them: see Input
    MaxTime,     \* bound: the host's clock
    MaxDelay,    \* bound: the age of a raw sample
    HubTimeMod,  \* 2^32
    HostSpan,    \* 2^31: the microseconds that an int32_t can hold
    HubStart     \* the hub's clock when it starts

(* good: the line has four numbers, the first of which is sn.  cut: where  *)
(* it may be divided: not at all, within its first number, in the middle,  *)
(* or before the end of line.                                              *)
Line == [sn: Nat, good: BOOLEAN, cut: {"no", "number", "middle", "end"}]

Input == [kind: {"none", "file", "stream"}, script: Seq(Line)]

\* The parts of a line; "whole" is both.
Parts == {"whole", "front", "back"}

ASSUME WheelAssumption ==
    /\ Inputs \subseteq Input
    /\ \A i \in Inputs : i.kind = "none" => i.script = <<>>
    /\ MaxTime \in Nat /\ MaxDelay \in Nat
    /\ HubTimeMod \in Nat \ {0} /\ HubStart \in Nat /\ HostSpan \in Nat

VARIABLES
    kind, script,          \* the input (never change)
    written,               \* lines written
    half,                  \* the front of the next line is written too
    unread,                \* what is written and not read
    inputEnded,            \* the writer of a stream has gone
    now,                   \* the host's clock
    hubOrigin,             \* when the hub's clock has started
    reader,                \* where the reader thread is
    tmp,
    q_, running_, lastWheelSN_, hubTime_, ready_, lastHub_, lastHost_,
    mapped,                \* lastHub_ is a time of the hub's present clock
    inputOpen,             \* inputFile_ is open
    wheel,                 \* what became of the object
    reports                \* what was reported to the hub

inputVars  == <<kind, script, written, half, unread, inputEnded, now>>
readerVars == <<reader, tmp, q_>>
mappingVars == <<ready_, lastHub_, lastHost_, mapped, hubOrigin>>
ownerVars  == <<running_, inputOpen, wheel>>
reportVars == <<lastWheelSN_, hubTime_, reports>>
wheelVars  == <<inputVars, readerVars, mappingVars, ownerVars, reportVars>>

NoLine == [line |-> 0, part |-> "whole"]

WheelInit ==
    /\ \E i \in Inputs : kind = i.kind /\ script = i.script
    /\ written = 0 /\ half = FALSE /\ unread = <<>> /\ inputEnded = FALSE
    /\ now = 0
    /\ reader = "none" /\ tmp = NoLine /\ q_ = <<>>
    /\ running_ = TRUE /\ lastWheelSN_ = -1 /\ hubTime_ = 0
    /\ ready_ = FALSE /\ lastHub_ = 0 /\ lastHost_ = 0
    /\ hubOrigin = 0 /\ mapped = FALSE
    /\ inputOpen = FALSE
    /\ wheel = "none"
    /\ reports = <<>>

-----------------------------------------------------------------------------
(* The writer and the clock.                                               *)

Write(part) == unread' = Append(unread, [line |-> written + 1, part |-> part])

WriteLine ==
    /\ kind # "none" /\ written < Len(script) /\ ~inputEnded
    /\ \/ /\ ~half
          /\ Write("whole")
          /\ written' = written + 1
          /\ UNCHANGED half
       \/ /\ ~half
          /\ script[written + 1].cut # "no"
          /\ Write("front")
          /\ half' = TRUE
          /\ UNCHANGED written
       \/ /\ half
          /\ Write("back")
          /\ half' = FALSE
          /\ written' = written + 1
    /\ UNCHANGED <<kind, script, inputEnded, now, readerVars, mappingVars, ownerVars,
                   reportVars>>

EndInput ==
    /\ kind = "stream" /\ ~inputEnded
    /\ inputEnded' = TRUE
    /\ UNCHANGED <<kind, script, written, half, unread, now, readerVars, mappingVars,
                   ownerVars, reportVars>>

Tick ==
    /\ now < MaxTime
    /\ now' = now + 1
    /\ UNCHANGED <<kind, script, written, half, unread, inputEnded, readerVars, mappingVars,
                   ownerVars, reportVars>>

-----------------------------------------------------------------------------
(* The reader thread.                                                      *)

ReaderTests ==
    /\ reader = "test"
    /\ reader' = IF running_ THEN "read" ELSE "gone"
    /\ UNCHANGED <<inputVars, tmp, q_, mappingVars, ownerVars, reportVars>>

\* What is there up to an end of line, and how many of the parts that is.
HeadIsFront == unread # <<>> /\ Head(unread).part = "front"
EndOfLine   == unread # <<>> /\ (HeadIsFront => Len(unread) > 1)
Lines       == IF HeadIsFront THEN 2 ELSE 1
FullLine    == IF HeadIsFront THEN [Head(unread) EXCEPT !.part = "whole"] ELSE Head(unread)

\* The back of a line that is the end of line alone leaves nothing to push.
Blank(item) == item = NoLine \/ (item.part = "back" /\ script[item.line].cut = "end")

Got(item) ==
    /\ tmp' = item
    /\ reader' = IF Blank(item) THEN "test" ELSE "push"

\* getline() comes back with a line, or with what there is at the end of the input;
\* from a stream that has not ended it does not come back otherwise.  At the end the
\* state of the input is cleared, and the thread sleeps.
ReaderReads ==
    /\ reader = "read"
    /\ LET open == kind = "stream" \/ inputOpen
       IN  \/ /\ open /\ EndOfLine
              /\ Got(FullLine)
              /\ unread' = SubSeq(unread, Lines + 1, Len(unread))
           \/ /\ open /\ ~EndOfLine
              /\ kind = "file" \/ inputEnded
              /\ Got(IF unread = <<>> THEN NoLine ELSE Head(unread))
              /\ unread' = <<>>
           \/ /\ ~open
              /\ Got(NoLine)
              /\ UNCHANGED unread
    /\ UNCHANGED <<kind, script, written, half, inputEnded, now, q_, mappingVars, ownerVars,
                   reportVars>>

\* Faulty variant: the line goes to the wrong end of the queue.
ReaderPushes_Front ==
    /\ reader = "push"
    /\ q_' = <<tmp>> \o q_
    /\ tmp' = NoLine
    /\ reader' = "test"
    /\ UNCHANGED <<inputVars, mappingVars, ownerVars, reportVars>>

ReaderPushes ==
    /\ reader = "push"
    /\ q_' = Append(q_, tmp)
    /\ tmp' = NoLine
    /\ reader' = "test"
    /\ UNCHANGED <<inputVars, mappingVars, ownerVars, reportVars>>

Reader == ReaderTests \/ ReaderReads \/ ReaderPushes

-----------------------------------------------------------------------------
(* What the session calls.                                                 *)

\* FileWheelSource(): the file is opened here, not by the reader.  If that fails nobody
\* is told; getline() gives nothing then, and no end of file to wait at.
Construct ==
    /\ kind # "none"
    /\ wheel' = "alive"
    /\ inputOpen' \in {kind = "file", FALSE}
    /\ reader' = "test"
    /\ UNCHANGED <<inputVars, tmp, q_, mappingVars, running_, reportVars>>

HubTimes == 0 .. HubTimeMod - 1

\* What the hub's clock shows, which the host does not see.
HubClock(time) == (HubStart + (time - hubOrigin)) % HubTimeMod

ClockRestarts ==
    /\ hubOrigin' = now
    /\ mapped' = FALSE
    /\ UNCHANGED <<inputVars, readerVars, ownerVars, reportVars, ready_, lastHub_, lastHost_>>

\* reportModuleTime for a raw sample with the hub's time `time'.
ReportModuleTime(time, isPresent) ==
    /\ ready_' = TRUE
    /\ lastHub_' = time
    /\ lastHost_' = now
    /\ mapped' = isPresent
    /\ UNCHANGED <<inputVars, readerVars, ownerVars, reportVars, hubOrigin>>

\* The time since the last sample fits an int32_t.
InSpan == now - lastHost_ < HostSpan

\* Faulty variant: the sum is not cut to 32 bits.
EstimateHubTime_Wide == IF InSpan THEN {lastHub_ + (now - lastHost_)} ELSE HubTimes

\* What estimateHubTime() may return: the cast to int32_t is undefined once the time
\* since the last sample does not fit.
EstimateHubTime ==
    IF InSpan THEN {(lastHub_ + (now - lastHost_)) % HubTimeMod} ELSE HubTimes

\* The number sscanf finds first; of a back, what is left of the number.
SN(item) == IF item.part = "back" THEN script[item.line].sn % 10 ELSE script[item.line].sn

\* sscanf finds four numbers.
IsReport(item) ==
    LET line == script[item.line]
    IN  line.good /\ CASE item.part = "whole" -> TRUE
                       [] item.part = "front" -> line.cut = "end"
                       [] item.part = "back"  -> line.cut = "number"

\* What goes to the hub, with what the hub's clock shows by then, and whether the host
\* knows of a recent sample by that clock.
ReportOf(item, time) ==
    [line |-> item.line, part |-> item.part, sn |-> SN(item), time |-> time,
     hub |-> HubClock(now), known |-> mapped /\ InSpan]

\* service(): one line of the queue.
ServiceWheel ==
    /\ IF q_ = <<>>
       THEN UNCHANGED <<q_, reportVars>>
       ELSE LET item == Head(q_)
            IN  /\ q_' = Tail(q_)
                /\ IF IsReport(item) /\ ready_
                   THEN /\ IF SN(item) # lastWheelSN_
                           THEN hubTime_' \in EstimateHubTime ELSE UNCHANGED hubTime_
                        /\ lastWheelSN_' = SN(item)
                        /\ reports' = Append(reports, ReportOf(item, hubTime_'))
                   ELSE UNCHANGED reportVars
    /\ UNCHANGED <<inputVars, reader, tmp, mappingVars, ownerVars>>

\* ~FileWheelSource(), in three steps.
CloseInput ==
    /\ wheel = "alive"
    /\ wheel' = "closed"
    /\ inputOpen' = FALSE
    /\ UNCHANGED <<inputVars, readerVars, mappingVars, running_, reportVars>>


StopReader ==
    /\ wheel = "closed"
    /\ wheel' = "stopped"
    /\ running_' = FALSE
    /\ UNCHANGED <<inputVars, readerVars, mappingVars, inputOpen, reportVars>>

\* join() waits for the reader.
Join ==
    /\ wheel = "stopped"
    /\ reader = "gone"
    /\ wheel' = "deleted"
    /\ UNCHANGED <<inputVars, readerVars, mappingVars, running_, inputOpen, reportVars>>

-----------------------------------------------------------------------------
(* Properties.                                                             *)

WheelTypeOK ==
    /\ written \in 0 .. Len(script) /\ half \in BOOLEAN
    /\ unread \in Seq([line: 1 .. Len(script), part: Parts])
    /\ now \in 0 .. MaxTime
    /\ reader \in {"none", "test", "read", "push", "gone"}
    /\ q_ \in Seq([line: 1 .. Len(script), part: Parts])
    /\ running_ \in BOOLEAN /\ ready_ \in BOOLEAN /\ inputOpen \in BOOLEAN
    /\ hubTime_ \in HubTimes /\ lastHub_ \in HubTimes
    /\ lastHost_ \in 0 .. now /\ hubOrigin \in 0 .. now /\ mapped \in BOOLEAN
    /\ wheel \in {"none", "alive", "closed", "stopped", "deleted"}

\* A line of a file that was cut where neither part is a report by itself.
MayBeLost(i) == kind = "file" /\ script[i].cut = "middle"

\* Every report is that of a good line, with its number unless a file's line was cut in
\* the middle of it; no line is reported twice, or before one that was written earlier,
\* and none is left out once there was a report, but one of a file that was cut in two.
ReportsAreLines ==
    /\ \A j \in DOMAIN reports :
          LET i == reports[j].line
          IN  /\ script[i].good
              /\ \/ reports[j].sn = script[i].sn
                 \/ kind = "file" /\ script[i].cut = "number" /\ reports[j].part = "back"
    /\ \A j \in 2 .. Len(reports) :
          /\ reports[j - 1].line < reports[j].line
          /\ \A i \in reports[j - 1].line + 1 .. reports[j].line - 1 :
                script[i].good => MayBeLost(i)

\* Reports with the same number that follow each other have the same time, and any other
\* has the hub's time of its report, as late as the last sample was, if that sample is of
\* the hub's present clock and less than HostSpan old.
TimesAreTheHubs ==
    \A j \in DOMAIN reports :
        IF j > 1 /\ reports[j - 1].sn = reports[j].sn
        THEN reports[j].time = reports[j - 1].time
        ELSE reports[j].known =>
                \E delay \in 0 .. MaxDelay :
                    reports[j].time = (reports[j].hub - delay) % HubTimeMod

\* Wheel lines become reports once and in order, at one time for those that belong
\* together and at the hub's time for each that begins a new one, whatever the writer,
\* the reader, the session and the hub do in between (service, FileWheelSource.cpp:82-93;
\* estimateHubTime).
WheelReports == ReportsAreLines /\ TimesAreTheHubs
=============================================================================
