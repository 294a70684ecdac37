SPECIFICATION Spec
CONSTANTS
  Utf8 = {"arm", "leg"}
  NotUtf8 = {"bad"}
  TextSize = 3
  Numbers = {0, 1}
  SensorCases = {9, 48, 34, 106}
  MaxEdits = 2
  Garbage = {0, 1, 3, 9}
INVARIANTS
  TypeOK
  ReadsWhatWasSent
  KindSurvives
  NoHalfObject
  SizesAgree
  MergeIsParse
  CheckedCastIsDefined
CHECK_DEADLOCK FALSE
