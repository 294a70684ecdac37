CONSTANTS
  Object = {"robot1", "box"}
  SensorName = {"external_1", "external_2"}
  Kind = {"angle", "force3d"}
  MaxCalls = 6
SPECIFICATION SensorSpec
INVARIANTS
  SensorTypeOK
  SensorReadersReturnWhatWasSaid
  CrashOnlyBeforeFirstObject
CHECK_DEADLOCK FALSE
