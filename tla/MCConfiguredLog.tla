--------------------------- MODULE MCConfiguredLog ---------------------------
(* A second of 1000 units, periods of 12 bits and floats of 11; the        *)
(* template with every sensor in turn, and files that are wrong or odd in  *)
(* one respect.                                                            *)
EXTENDS ConfiguredLog

Line(cmd) == [cmd |-> cmd, in |-> TRUE, out |-> TRUE, device |-> TRUE,
              clearDcd |-> "unset", clearOfCal |-> "unset"]
MCCommandLines ==
    {Line(cmd) : cmd \in {"log", "dfu-bno", "dfu-fsp200", "template", "?"}}
    \cup {[Line("log") EXCEPT !.in = FALSE], [Line("log") EXCEPT !.out = FALSE],
          [Line("dfu-bno") EXCEPT !.device = FALSE], [Line("template") EXCEPT !.out = FALSE]}
    \cup {[Line("log") EXCEPT !.clearDcd = a, !.clearOfCal = b] :
              a \in {"0", "1"}, b \in {"unset", "0", "1"}}

MCRates == {Number(1, 1), Number(3, 1), Number(1, 4), Number(1, 5), Number(2000, 1),
            Number(2001, 1), Number(667, 1), Number(-5, 1), Number(2049, 8192), Number(1, 3)}
Attitude == {"Rotation Vector", "Game Rotation Vector", "Geomagnetic Rotation Vector",
             "ARVR Stabilized Rotation Vector", "ARVR Stabilized GameRotation Vector",
             "Gyro Rotation Vector", "Dead Reckoning Pose"}
Directions == {"Gyroscope", "Magnetic Field", "Linear Acceleration", "Gravity",
               "Uncalibrated Gyroscope", "Uncalibrated MagneticField"}
Flow == Object("rate" :> Number(50, 1) @@ "sensorSpecific" :> Number(7, 1)
               @@ "sniffEnabled" :> Number(1, 1))
MCEdits ==
    {n :> Number(100, 1) : n \in TemplateNames}
    \cup {"Accelerometer" :> r : r \in MCRates}
    \cup {"Accelerometer" :> Number(100, 1) @@ n :> Number(50, 1) : n \in Attitude}
    \cup {n :> Number(100, 1) @@ "Rotation Vector" :> Number(50, 1) : n \in Directions}
    \cup {"Raw Optical Flow" :> Flow}
MCOrientations == {String(t, 0) : t \in {"ned", "enu"}}

List(v)  == Object("sensorList" :> v)
Gyro(v)  == List(Object("Gyroscope" :> v @@ "Magnetic Field" :> Number(20, 1)))
With(k, v) == Object("sensorList" :> Object("Gyroscope" :> Number(100, 1)) @@ k :> v)
MCFiles ==
    {NotJson, Null, Array(0), Array(1), Number(1, 1), Object("clearDcd" :> Boolean(TRUE))}
    \cup {List(v) : v \in {Null, Array(0), Array(2), Number(1, 1), Object(<<>>)}}
    \cup {Gyro(v) : v \in {Null, Number(0, 1), Number(3, 2), Boolean(TRUE), String("50", 80),
                           Object("rate" :> Number(4, 1)), Object("rate" :> Boolean(TRUE)),
                           Object("rate" :> Null), Object("Rate" :> Number(4, 1)), Flow,
                           Object("rate" :> Number(4, 1) @@ "sniffEnabled" :> String("1", 1))}}
    \cup {List(Object("gyroscope" :> Number(100, 1))), List(Object("Reserved" :> Number(5, 1)))}
    \cup {With("clearDcd", v) : v \in {Boolean(TRUE), Boolean(FALSE), Number(1, 1)}}
    \cup {With("clearOfCal", Boolean(TRUE)), With("dcdAutoSave", Boolean(TRUE)),
          With("calEnable", String("0x00", 0)), With("calEnable", String("10f", 271)),
          With("calEnable", Number(8, 1)), With("orientation", String("ENU", 0)),
          With("rawSampleTime", Boolean(FALSE))}

MCInputs == [options: {Line("log")}, file: MCFiles]
            \cup [options: MCCommandLines, file: {With("clearDcd", Boolean(TRUE))}]

MCSteps == {Number(1, 2^i) : i \in 0 .. 13} \cup {Number(2, 1), Number(4, 1)}

MCRecords   == {{}, {"scd"}, {"nominal_scd", "dcd"}, {"scd", "nominal_scd", "dcd"}}
MCAttitudes == {<<1, 2, 3, 4>>, <<3, -1, 2, 0>>}
=============================================================================
