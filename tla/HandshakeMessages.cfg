CONSTANTS
  Object = {"robot1", "robot2"}
  RobotSensor = {"sensor1"}
  RobotEvent = {"gripper1"}
  MaxCalls = 5
SPECIFICATION HandshakeSpec
INVARIANTS
  HandshakeTypeOK
  HandshakeReadersReturnWhatWasSaid
  HandshakeTypesKeepFromCrashing
CHECK_DEADLOCK FALSE
