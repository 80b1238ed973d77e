---------------------------- MODULE BatchConfig -----------------------------
(***************************************************************************)
(* What ParseJsonBatchFile (sh2_logger.cpp) makes of a configuration file. *)
(*                                                                         *)
(* The JSON library is outside the program's own sources.  A value is a    *)
(* record with its type; asking a value for what it is not throws, nothing *)
(* but the parser's own exceptions is caught, and the program aborts.      *)
(* A number is a fraction, the one that the library has made of its text.  *)
(* A rate is kept in a float, which holds a multiple of a step that depends *)
(* on its size; periods are in a unit of 1 / Second and counted modulo     *)
(* Word.  The division that makes a period of a rate is one of doubles and *)
(* taken for exact.                                                        *)
(***************************************************************************)
EXTENDS SensorTables, SequencesExt

CONSTANTS
    Second,     \* microseconds in a second (10^6)
    Word,       \* a period is a uint32_t: 2^32
    Precision,  \* a float has fewer steps below its value: 2^24
    Steps       \* the steps of floats, fractions: the powers of 2 from 2^-149 on

ASSUME UnitAssumption == Second \in Nat \ {0} /\ Word \in Nat \ {0}
ASSUME FloatAssumption ==
    /\ Precision \in Nat \ {0}
    /\ \A step \in Steps : step.num \in Nat \ {0} /\ step.den \in Nat \ {0}

-----------------------------------------------------------------------------
(* JSON values.                                                            *)

Number(num, den) == [type |-> "number", num |-> num, den |-> den]
Boolean(b)       == [type |-> "boolean", is |-> b]
String(s, hex)   == [type |-> "string", text |-> s, hex |-> hex]
Object(members)  == [type |-> "object", members |-> members]
Array(n)         == [type |-> "array", size |-> n]
Null             == [type |-> "null"]
NotJson          == [type |-> "unreadable"]

\* A conversion to a number takes a boolean, too.
ToNumber(v) == IF v.type = "boolean" THEN Number(IF v.is THEN 1 ELSE 0, 1) ELSE v
IsArithmetic(v) == v.type \in {"number", "boolean"}

\* What the library hands over has its parts: a fraction, a truth value, what
\* strtoul makes of a text.
IsValue(v) ==
    /\ v.type = "number"  => v.num \in Int /\ v.den \in Nat \ {0}
    /\ v.type = "boolean" => v \in {Boolean(TRUE), Boolean(FALSE)}
    /\ v.type = "string"  => v.hex \in Nat

\* A loop over these has no turn; over others that are no object, key() throws.
IsEmpty(v) == v.type = "null" \/ (v.type = "array" /\ v.size = 0)
Keys(v)    == IF v.type = "object" THEN DOMAIN v.members ELSE {}

\* A member of the list, and a file, with everything in them that is looked at.
IsEntry(v)   == IsValue(v) /\ \A o \in Keys(v) : IsValue(v.members[o])
IsFile(file) ==
    \A k \in Keys(file) :
        /\ IsValue(file.members[k])
        /\ \A n \in Keys(file.members[k]) : IsEntry(file.members[k].members[n])

-----------------------------------------------------------------------------
(* One member of "sensorList".                                             *)

Options == {"rate", "sensorSpecific", "sniffEnabled"}

EntryThrows(v) ==
    v.type = "object" /\ \E k \in Keys(v) \cap Options : ~IsArithmetic(v.members[k])

Option(v, k) ==
    IF k \in Keys(v) THEN ToNumber(v.members[k]) ELSE Number(0, 1)

\* The rate that is written in the file.
WrittenRate(v) ==
    CASE v.type = "number" -> v
      [] v.type = "object" -> Option(v, "rate")
      [] OTHER             -> Number(0, 1)

\* The whole number nearest to num / den, of two the even one.
Rounded(num, den) ==
    LET up == (2 * num + den) \div (2 * den)
    IN  IF (2 * num + den) % (2 * den) = 0 /\ up % 2 = 1 THEN up - 1 ELSE up

\* The finest steps with which a rate is within the precision of a float.
Finest(rate) ==
    LET fits == {step \in Steps : rate.num * step.den < Precision * step.num * rate.den}
    IN  {step \in fits : \A other \in fits : step.num * other.den <= other.num * step.den}

\* A rate as a float holds it.  (One that is too large for every step is too
\* fast for a period in any case.)
Float(rate) ==
    IF rate.num <= 0 \/ Finest(rate) = {} THEN rate
    ELSE LET step == CHOOSE s \in Finest(rate) : TRUE
         IN  Number(Rounded(rate.num * step.den, rate.den * step.num) * step.num, step.den)

\* `rate'.
RateOf(v) == Float(WrittenRate(v))

\* An option becomes a uint32_t; one that is written is a whole number.
OptionValue(v, k) == Option(v, k).num % Word

\* Faulty variant: the quotient is not rounded.
Period_CutOff(rate) == (Second * rate.den) \div rate.num

\* 1e6 / rate + 0.5, cut off.
Period(rate) == (2 * Second * rate.den + rate.num) \div (2 * rate.num)

\* Faulty variant: a period that does not fit is kept.
Interval_Wide(rate, saturates) == IF rate.num <= 0 THEN 0 ELSE Period(rate)

\* reportInterval_us.  The conversion of a period that does not fit is
\* undefined: a build cuts it to 32 bits, or takes the largest number.
Interval(rate, saturates) ==
    IF rate.num <= 0 THEN 0
    ELSE IF Period(rate) < Word THEN Period(rate)
    ELSE IF saturates THEN Word - 1 ELSE Period(rate) % Word

\* What an entry becomes.
Config(name, v, saturates) ==
    [sensorId          |-> findSensorIdByName(name),
     reportInterval_us |-> Interval(RateOf(v), saturates),
     sensorSpecific    |-> OptionValue(v, "sensorSpecific"),
     sniffEnabled      |-> OptionValue(v, "sniffEnabled")]

\* An entry that is kept; the others are dropped without a word.
Accepted(c) == c.sensorId <= SH2_MAX_SENSOR_ID /\ c.reportInterval_us > 0

\* sort(), by sensorId; no two entries have the same, and unique() drops none.
Sorted(configs) ==
    CHOOSE list \in [1 .. Cardinality(configs) -> configs] :
        /\ \A c \in configs : \E i \in DOMAIN list : list[i] = c
        /\ \A i, j \in DOMAIN list : i < j => list[i].sensorId < list[j].sensorId

\* sensorsToEnable_.
SensorList(list, saturates) ==
    Sorted({c \in {Config(k, list.members[k], saturates) : k \in Keys(list)} : Accepted(c)})

-----------------------------------------------------------------------------
(* The whole file.                                                         *)

\* appConfig_s as it is constructed.
DefaultConfig ==
    [calEnableMask |-> 0, clearDcd |-> FALSE, clearOfCal |-> FALSE, dcdAutoSave |-> FALSE,
     orientationNed |-> TRUE, pSensorsToEnable |-> <<>>]

Flags   == {"clearDcd", "clearOfCal", "dcdAutoSave"}
Strings == {"calEnable", "orientation"}

ListThrows(list) ==
    IF list.type = "object" THEN \E k \in Keys(list) : EntryThrows(list.members[k])
    ELSE ~IsEmpty(list)

FileThrows(file) ==
    IF file.type # "object" THEN ~IsEmpty(file)
    ELSE \/ \E k \in Keys(file) \cap Flags : file.members[k].type # "boolean"
         \/ \E k \in Keys(file) \cap Strings : file.members[k].type # "string"
         \/ "sensorList" \in Keys(file) /\ ListThrows(file.members["sensorList"])

Flag(file, k) == k \in Keys(file) /\ file.members[k].is

\* What ParseJsonBatchFile makes of appConfig; unknown members count for
\* nothing, and every orientation but "enu" is taken for NED.
AppConfig(file, saturates) ==
    [DefaultConfig EXCEPT
        !.calEnableMask = IF "calEnable" \in Keys(file)
                          THEN file.members["calEnable"].hex % 256 ELSE @,
        !.clearDcd = Flag(file, "clearDcd"),
        !.clearOfCal = Flag(file, "clearOfCal"),
        !.dcdAutoSave = Flag(file, "dcdAutoSave"),
        !.orientationNed = IF "orientation" \in Keys(file)
                           THEN file.members["orientation"].text # "enu" ELSE @,
        !.pSensorsToEnable = SensorList(file.members["sensorList"], saturates)]

\* ParseJsonBatchFile returns, with or without success, or throws.
ParseJsonBatchFile(file) ==
    IF file.type = "unreadable" THEN "false"
    ELSE IF FileThrows(file) THEN "throws"
    ELSE IF "sensorList" \in Keys(file) THEN "true" ELSE "false"

-----------------------------------------------------------------------------
\* templateContents.
Template ==
    Object([k \in {"calEnable", "clearDcd", "clearOfCal", "dcdAutoSave", "orientation",
                   "sensorList"} |->
        CASE k = "calEnable"   -> String("0x08", 8)
          [] k = "dcdAutoSave" -> Boolean(TRUE)
          [] k = "orientation" -> String("ned", 0)
          [] k = "sensorList"  ->
               Object([n \in TemplateNames |->
                   IF n = "Raw Optical Flow" THEN Object([o \in Options |-> Number(0, 1)])
                   ELSE Number(0, 1)])
          [] OTHER             -> Boolean(FALSE)])
=============================================================================
