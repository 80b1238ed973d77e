---------------------------- MODULE SensorTables ----------------------------
(***************************************************************************)
(* The constant tables that a configured log goes through: names and       *)
(* default configurations of the sensors (LoggerUtil.h), the columns their *)
(* channels declare (SensorDsfHeader in DsfLogger.cpp), and the names that *)
(* the configuration template offers (do_template in sh2_logger.cpp).      *)
(*                                                                         *)
(* Nothing in the program keeps the tables in step but the position of a   *)
(* row and the spelling of a name.                                         *)
(***************************************************************************)
EXTENDS Integers, Sequences, FiniteSets

SH2_MAX_SENSOR_ID == 46
SensorIds         == 0 .. SH2_MAX_SENSOR_ID

-----------------------------------------------------------------------------
(* LoggerUtil.h.                                                           *)

\* The names of SensorSpec, from id 0x00 on.
SensorNames == <<
    "Reserved", "Accelerometer", "Gyroscope", "Magnetic Field", "Linear Acceleration",
    "Rotation Vector", "Gravity", "Uncalibrated Gyroscope", "Game Rotation Vector",
    "Geomagnetic Rotation Vector", "Pressure", "Ambient Light", "Humidity", "Proximity",
    "Temperature", "Uncalibrated MagneticField", "Tap Detector", "Step Counter",
    "Significant Motion", "Stability Classifier", "Raw Accelerometer", "Raw Gyroscope",
    "Raw Magnetometer", "Reserved", "Step Detector", "Shake Detector", "Flip Detector",
    "Pickup Detector", "Stability Detector", "Reserved", "Personal Activity Classifier",
    "Sleep Detector", "Tilt Detector", "Pocket Detector", "Circle Detector",
    "Heart Rate Monitor", "Reserved", "Reserved", "Reserved", "Reserved",
    "ARVR Stabilized Rotation Vector", "ARVR Stabilized GameRotation Vector",
    "Gyro Rotation Vector", "IZRO Motion Request", "Raw Optical Flow",
    "Dead Reckoning Pose", "Wheel Encoder" >>

\* SensorSpec[id].name.
NameOf(id) == SensorNames[id + 1]

\* The first sensor of that name; an invalid id if there is none.
findSensorIdByName(name) ==
    LET ids == {i \in SensorIds : NameOf(i) = name}
    IN  IF ids = {} THEN SH2_MAX_SENSOR_ID + 1
        ELSE CHOOSE i \in ids : \A j \in ids : i <= j

\* The members of the sh2_SensorConfig_t that SensorSpec[id].config sets.  (The
\* sensitivities are written with 2 ^ n, which is an exclusive or in C++.)
changeSensitivityEnabled ==
    {11, 12, 13, 14, 16, 17, 19, 24, 25, 26, 28, 31, 32, 33, 34}
changeSensitivityRelative == {11, 12, 13, 14, 19, 31}
wakeupEnabled             == {13, 25, 26, 31, 32, 33, 34}
alwaysOnEnabled           == wakeupEnabled
changeSensitivity(id)     == CASE id = 12 -> 1 [] id = 13 -> 6 [] OTHER -> 0
DefaultSpecific(id)       == IF id = 30 THEN 511 ELSE 0

\* Sh2FrsRecords: the records that are logged, by their names in the log.
Sh2FrsRecords == <<
    "nominal_scd", "dcd", "sra_scd", "sra_nominal_scd", "motion_engine_power_management",
    "system_orientation", "accelerometer_orientation", "sra_accelerometer_orientation",
    "gyroscope_orientation", "magnetometer_orientation", "arvr_rotation_vector",
    "arvr_game_rotation_vector", "significant_motion_detector_configuration",
    "shake_detector_configuration", "maximum_fusion_period", "serial_number",
    "pressure_calibration", "temperature_calibration", "humidity_calibration",
    "ambient_light_calibration", "proximity_calibration",
    "ambient_light_special_calibration", "proximity_special_calibration",
    "pickup_detector_configuration", "flip_detector_configuration",
    "stability_detector_configuration", "activity_tracker_configuration",
    "sleep_detector_configuration", "tilt_detector_configuration",
    "pocket_detector_configuration", "circle_detector_configuration", "user_record",
    "motion_engine_time_source_selection", "uart_output_format_selection",
    "gyro_integrated_rotation_vector_configuration",
    "dead_reckoning_optical_flow_sensor_configuration",
    "dead_reckoning_wheel_encoder_configuration", "dead_reckoning_imu_configuration",
    "dead_reckoning_velocity_estimator_configuration",
    "dead_reckoning_synchronizer_configuration",
    "dead_reckoning_quality_detector_configuration",
    "dead_reckoning_calibration_configuration", "dead_reckoning_fusion_configuration",
    "dead_reckoning_light_recommendation_configuration",
    "dead_reckoning_dynamic_calibration", "dead_reckoning_wheel_mode_selection" >>

-----------------------------------------------------------------------------
(* SensorDsfHeader.                                                        *)

\* The columns of a channel: for each name in sensorColumns, how many letters
\* its brackets hold, or 1 without brackets.
sensorColumns(id) ==
    CASE id \in {0, 23, 29} \cup 36 .. 39 -> <<>>
      [] id \in {1, 2, 3, 4, 6}           -> <<3>>
      [] id \in {7, 15}                   -> <<3, 3>>
      [] id \in {5, 9, 40}                -> <<4, 1>>
      [] id \in {8, 41}                   -> <<4>>
      [] id \in {17, 43}                  -> <<1, 1>>
      [] id \in {20, 22}                  -> <<3, 1>>
      [] id = 21                          -> <<3, 1, 1>>
      [] id = 30                          -> <<1, 10>>
      [] id = 42                          -> <<4, 3>>
      [] id = 44                          -> <<1, 1, 2, 1, 2, 1, 1, 1, 1, 1, 1>>
      [] id = 45                          -> <<3, 4, 3, 3, 1>>
      [] id = 46                          -> <<1, 1, 1, 1>>
      [] OTHER                            -> <<1>>

\* An extender is made for these: samples of the others are not logged.
HasChannel(id) == sensorColumns(id) # <<>>

-----------------------------------------------------------------------------
(* The template.                                                           *)

\* The sensors of templateContents, all of them with the rate 0.
TemplateNames == {
    "Accelerometer", "Gyroscope", "Magnetic Field", "Linear Acceleration",
    "Rotation Vector", "Gravity", "Uncalibrated Gyroscope", "Game Rotation Vector",
    "Geomagnetic Rotation Vector", "Pressure", "Ambient Light", "Humidity", "Proximity",
    "Temperature", "Uncalibrated MagneticField", "Tap Detector", "Step Counter",
    "Significant Motion", "Stability Classifier", "Raw Accelerometer", "Raw Gyroscope",
    "Raw Magnetometer", "Step Detector", "Shake Detector", "Flip Detector",
    "Pickup Detector", "Stability Detector", "Personal Activity Classifier",
    "Sleep Detector", "Tilt Detector", "Pocket Detector", "Circle Detector",
    "Heart Rate Monitor", "ARVR Stabilized Rotation Vector",
    "ARVR Stabilized GameRotation Vector", "Gyro Rotation Vector", "IZRO Motion Request",
    "Raw Optical Flow", "Dead Reckoning Pose", "Wheel Encoder"}
=============================================================================
