----------------------------- MODULE DsfColumns -----------------------------
(***************************************************************************)
(* The columns of a DSF log (DsfLogger.cpp): what logSensorValue writes    *)
(* for a sample of each sensor, what WriteChannelDefinition says of them,  *)
(* and the change from the hub's frame (ENU) to the frame of the log.      *)
(*                                                                         *)
(* A sample is the sequence of its values, each with the fields that are   *)
(* written for it.  What the hub reports is abstracted to a direction and  *)
(* an attitude: a value with an x, y and z is the one, a value with a real,*)
(* i, j and k the other, and every other number is 0.                      *)
(***************************************************************************)
EXTENDS SensorTables

-----------------------------------------------------------------------------
(* Frames.  ENU: x east, y north, z up.  NED: x north, y east, z down.     *)

\* An x, y, z as it is written in a log in NED.
VectorToNed(v) == <<v[2], v[1], -v[3]>>

\* A real, i, j, k as it is written in a log in NED.
RotationToNed(q) == <<q[1], q[3], q[2], -q[4]>>

-----------------------------------------------------------------------------
(* logSensorValue: the parts of a sample, in the order of its values.      *)

Plain(n) == [i \in 1 .. n |-> "plain"]

\* Faulty variant: the bias of the magnetometer is left as the hub reports it.
InertialParts_Bias(id) ==
    CASE id \in {20, 22}      -> <<"raw", "plain">>
      [] id = 21              -> <<"raw", "plain", "plain">>
      [] id \in {1, 2, 3, 4, 6} -> <<"vector">>
      [] id = 7               -> <<"vector", "vector">>
      [] id = 15              -> <<"vector", "raw">>

\* Accelerometers, gyroscopes and magnetometers; raw values are never converted.
InertialParts(id) ==
    CASE id \in {20, 22}      -> <<"raw", "plain">>
      [] id = 21              -> <<"raw", "plain", "plain">>
      [] id \in {1, 2, 3, 4, 6} -> <<"vector">>
      [] id \in {7, 15}       -> <<"vector", "vector">>

\* Rotation vectors, with the accuracy unless it is the one for games.
RotationParts(id) ==
    CASE id \in {5, 9} -> <<"rotation", "plain">>
      [] id = 8        -> <<"rotation">>

\* Environment, steps, detectors and classifiers.  A comma follows the last of
\* the confidences of the personal activity classifier.
EventParts(id) ==
    CASE id = 17 -> Plain(2)
      [] id = 30 -> <<"plain", "confidences", "empty">>
      [] OTHER   -> Plain(1)

\* Faulty variant: the pose is written without its time.
FusionParts_NoTime(id) ==
    CASE id = 40 -> <<"rotation", "plain">>
      [] id = 41 -> <<"rotation">>
      [] id = 42 -> <<"rotation", "vector">>
      [] id = 43 -> Plain(2)
      [] id = 44 -> <<"plain", "plain", "pair", "plain", "pair",
                         "plain", "plain", "plain", "plain", "plain", "plain">>
      [] id = 45 -> <<"vector", "rotation", "vector", "vector">>
      [] id = 46 -> Plain(4)

\* Stabilized rotations, motion requests, optical flow, the pose and wheels.
FusionParts(id) ==
    CASE id = 40 -> <<"rotation", "plain">>
      [] id = 41 -> <<"rotation">>
      [] id = 42 -> <<"rotation", "vector">>
      [] id = 43 -> Plain(2)
      [] id = 44 -> <<"plain", "plain", "pair", "plain", "pair",
                         "plain", "plain", "plain", "plain", "plain", "plain">>
      [] id = 45 -> <<"vector", "rotation", "vector", "vector", "plain">>
      [] id = 46 -> Plain(4)

LoggedParts(id) ==
    CASE id \in {1, 2, 3, 4, 6, 7, 15, 20, 21, 22} -> InertialParts(id)
      [] id \in {5, 8, 9}                          -> RotationParts(id)
      [] id \in 40 .. 46                           -> FusionParts(id)
      [] OTHER                                     -> EventParts(id)

\* The fields of one part; the field after the last comma has nothing in it.
PartFields(part, sample, ned) ==
    CASE part = "vector"      -> IF ned THEN VectorToNed(sample.vector) ELSE sample.vector
      [] part = "rotation"    -> IF ned THEN RotationToNed(sample.rotation) ELSE sample.rotation
      [] part = "raw"         -> sample.vector
      [] part = "plain"       -> <<0>>
      [] part = "pair"        -> <<0, 0>>
      [] part = "confidences" -> [k \in 1 .. 10 |-> 0]
      [] part = "empty"       -> <<>>

\* The values of a sample, after the header that WriteSensorReportHeader writes.
LoggedFields(id, sample, ned) ==
    [i \in DOMAIN LoggedParts(id) |-> PartFields(LoggedParts(id)[i], sample, ned)]

Has(id, part) == \E i \in DOMAIN LoggedParts(id) : LoggedParts(id)[i] = part

-----------------------------------------------------------------------------
(* WriteChannelDefinition.                                                 *)

\* The sensors that get no coordinate_system.
NoCoordinateSystem == {20, 21, 22, 44, 46}

\* The definition of a channel: its columns and its frame, if it has one.
ChannelDefinition(id, ned) ==
    [widths |-> sensorColumns(id),
     frame  |-> IF id \in NoCoordinateSystem THEN "none" ELSE IF ned THEN "NED" ELSE "ENU"]
=============================================================================
