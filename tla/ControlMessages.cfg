CONSTANTS
  Object = {"robot1", "robot2"}
  Event = {"gripper"}
  MaxCalls = 6
SPECIFICATION ControlSpec
INVARIANTS
  ControlTypeOK
  ControlReadersReturnWhatWasSaid
  ControlTypesKeepFromCrashing
CHECK_DEADLOCK FALSE
