----------------------------- MODULE Messaging -----------------------------
(***************************************************************************)
(* The classes protoc generated from Messaging.proto: Messaging.pb.h and   *)
(* Messaging.pb.cc.  Of each class X                                       *)
(*   NewX is a message as its constructor makes it, and Clear() again;     *)
(*   ParseX is one turn of the loop of _InternalParse();                   *)
(*   WriteX is _InternalSerialize();                                       *)
(*   SizeX is ByteSizeLong(), which is what the lengths on the wire and    *)
(*   the buffer SerializeAsString() writes into are taken from;            *)
(*   MergeX is MergeImpl(), with a new message CopyFrom() and the copy     *)
(*   constructor, which the readers and MessageFactory call;               *)
(*   EditsX are the messages one call of an accessor away.                 *)
(* Doubles are natural numbers of which only 0 is special.                 *)
(***************************************************************************)
EXTENDS Wire, FiniteSets

CONSTANT SensorCases  \* tags of the fields of a Sensor that programs set; each kind is enough

SizeNumber(x) == VarintSize(x)
------------------------------------------------------------------------------
(* What fromBytes() looks for the type with.  It is never written. *)
NewMessage == [messageType |-> 0, id |-> 0, unknown |-> <<>>]

ParseMessage(m, it) ==
  CASE it.tag = 8  -> SetNumber(m, "messageType", it)
    [] it.tag = 16 -> SetNumber(m, "id", it)
    [] OTHER       -> Unknown(m, it)
------------------------------------------------------------------------------
NewHandshakeInitMessage == [messageType |-> 0, version |-> 0, unknown |-> <<>>]

ParseHandshakeInitMessage(m, it) ==
  CASE it.tag = 8  -> SetNumber(m, "messageType", it)
    [] it.tag = 16 -> SetNumber(m, "version", it)
    [] OTHER       -> Unknown(m, it)

WriteHandshakeInitMessage(m) ==
  If(m.messageType # 0, WriteVarint(8, m.messageType))
    \o If(m.version # 0, WriteVarint(16, m.version)) \o m.unknown

SizeHandshakeInitMessage(m) ==
  SizeIf(m.messageType # 0, VarintSize(m.messageType))
    + SizeIf(m.version # 0, VarintSize(m.version)) + Bytes(m.unknown)

MergeHandshakeInitMessage(to, from) ==
  [messageType |-> MergeNumber(to.messageType, from.messageType),
   version     |-> MergeNumber(to.version, from.version),
   unknown     |-> to.unknown \o from.unknown]
------------------------------------------------------------------------------
(* SensorRequestMessage and ResetMessage: a type and nothing else. *)
NewSensorRequestMessage == [messageType |-> 0, unknown |-> <<>>]

ParseSensorRequestMessage(m, it) ==
  IF it.tag = 8 THEN SetNumber(m, "messageType", it) ELSE Unknown(m, it)

WriteSensorRequestMessage(m) ==
  If(m.messageType # 0, WriteVarint(8, m.messageType)) \o m.unknown

SizeSensorRequestMessage(m) ==
  SizeIf(m.messageType # 0, VarintSize(m.messageType)) + Bytes(m.unknown)

MergeSensorRequestMessage(to, from) ==
  [messageType |-> MergeNumber(to.messageType, from.messageType),
   unknown     |-> to.unknown \o from.unknown]

NewResetMessage == [messageType |-> 0, unknown |-> <<>>]

ParseResetMessage(m, it) ==
  IF it.tag = 8 THEN SetNumber(m, "messageType", it) ELSE Unknown(m, it)

WriteResetMessage(m) == If(m.messageType # 0, WriteVarint(8, m.messageType)) \o m.unknown

SizeResetMessage(m) == SizeIf(m.messageType # 0, VarintSize(m.messageType)) + Bytes(m.unknown)

MergeResetMessage(to, from) ==
  [messageType |-> MergeNumber(to.messageType, from.messageType),
   unknown     |-> to.unknown \o from.unknown]
------------------------------------------------------------------------------
NewErrorMessage == [messageType |-> 0, error |-> 0, errormessage |-> "", unknown |-> <<>>]

ParseErrorMessage(m, it) ==
  CASE it.tag = 8  -> SetNumber(m, "messageType", it)
    [] it.tag = 16 -> SetNumber(m, "error", it)
    [] it.tag = 26 -> SetString(m, "errormessage", it)
    [] OTHER       -> Unknown(m, it)

WriteErrorMessage(m) ==
  If(m.messageType # 0, WriteVarint(8, m.messageType)) \o If(m.error # 0, WriteVarint(16, m.error))
    \o If(m.errormessage # "", WriteString(26, m.errormessage)) \o m.unknown

SizeErrorMessage(m) ==
  SizeIf(m.messageType # 0, VarintSize(m.messageType)) + SizeIf(m.error # 0, VarintSize(m.error))
    + SizeIf(m.errormessage # "", StringSize(m.errormessage)) + Bytes(m.unknown)

MergeErrorMessage(to, from) ==
  [messageType  |-> MergeNumber(to.messageType, from.messageType),
   error        |-> MergeNumber(to.error, from.error),
   errormessage |-> IF from.errormessage # "" THEN from.errormessage ELSE to.errormessage,
   unknown      |-> to.unknown \o from.unknown]

EditsErrorMessage(m) == SetTo(m, "error", Numbers) \cup SetTo(m, "errormessage", Text)
------------------------------------------------------------------------------
NewHandshakeMessage_Sensors == [types |-> <<>>, unknown |-> <<>>]

ParseHandshakeMessage_Sensors(m, it) ==
  IF it.tag \in {10, 8} THEN AddNumbers(m, "types", it) ELSE Unknown(m, it)

WriteHandshakeMessage_Sensors(m) == WritePacked(10, m.types, SizeNumber) \o m.unknown

SizeHandshakeMessage_Sensors(m) == SizePacked(m.types, SizeNumber) + Bytes(m.unknown)

MergeHandshakeMessage_Sensors(to, from) ==
  [types |-> to.types \o from.types, unknown |-> to.unknown \o from.unknown]

EditsHandshakeMessage_Sensors(m) == Add(m, "types", Numbers)
------------------------------------------------------------------------------
NewHandshakeMessage_Object ==
  [controlsInOrder |-> <<>>, jointSensors |-> <<>>, controlEvents |-> NoEntries,
   sensors |-> NoEntries, objectSensors |-> <<>>, jointSensorsInOrder |-> <<>>,
   controlTypesInOrder |-> <<>>, unknown |-> <<>>]

ParseHandshakeMessage_Object(m, it) ==
  CASE it.tag = 10         -> AddString(m, "controlsInOrder", it)
    [] it.tag \in {18, 16} -> AddNumbers(m, "jointSensors", it)
    [] it.tag = 26         -> ParseEntry(m, "controlEvents", 0, NumberValue, it)
    [] it.tag = 34         -> ParseEntry(m, "sensors", NewHandshakeMessage_Sensors,
                                LAMBDA e, x : MessageValue(ParseHandshakeMessage_Sensors, e, x), it)
    [] it.tag \in {50, 48} -> AddNumbers(m, "objectSensors", it)
    [] it.tag = 58         -> AddString(m, "jointSensorsInOrder", it)
    [] it.tag \in {66, 64} -> AddNumbers(m, "controlTypesInOrder", it)
    [] OTHER               -> Unknown(m, it)

WriteHandshakeMessage_Object(m, order) ==
  WriteStrings(10, m.controlsInOrder)
    \o WritePacked(18, m.jointSensors, SizeNumber)
    \o WriteMap(26, m.controlEvents, order, LAMBDA v : WriteVarint(16, v))
    \o WriteMap(34, m.sensors, order, LAMBDA v : WriteSub(18, WriteHandshakeMessage_Sensors(v)))
    \o WritePacked(50, m.objectSensors, SizeNumber)
    \o WriteStrings(58, m.jointSensorsInOrder)
    \o WritePacked(66, m.controlTypesInOrder, SizeNumber)
    \o m.unknown

SizeHandshakeMessage_Object(m) ==
  SizeStrings(m.controlsInOrder) + SizePacked(m.jointSensors, SizeNumber)
    + SizeMap(m.controlEvents, VarintSize)
    + SizeMap(m.sensors, LAMBDA v : LengthDelimitedSize(SizeHandshakeMessage_Sensors(v)))
    + SizePacked(m.objectSensors, SizeNumber) + SizeStrings(m.jointSensorsInOrder)
    + SizePacked(m.controlTypesInOrder, SizeNumber) + Bytes(m.unknown)

MergeHandshakeMessage_Object(to, from) ==
  [controlsInOrder     |-> to.controlsInOrder \o from.controlsInOrder,
   jointSensors        |-> to.jointSensors \o from.jointSensors,
   controlEvents       |-> MergeMap(to.controlEvents, from.controlEvents),
   sensors             |-> MergeMap(to.sensors, from.sensors),
   objectSensors       |-> to.objectSensors \o from.objectSensors,
   jointSensorsInOrder |-> to.jointSensorsInOrder \o from.jointSensorsInOrder,
   controlTypesInOrder |-> to.controlTypesInOrder \o from.controlTypesInOrder,
   unknown             |-> to.unknown \o from.unknown]

EditsHandshakeMessage_Object(m) ==
  (UNION {Add(m, f, Numbers) : f \in {"jointSensors", "objectSensors", "controlTypesInOrder"}})
    \cup Add(m, "controlsInOrder", Text) \cup Add(m, "jointSensorsInOrder", Text)
    \cup SetEntry(m, "controlEvents", Numbers)
    \cup EditEntry(m, "sensors", NewHandshakeMessage_Sensors, EditsHandshakeMessage_Sensors)
------------------------------------------------------------------------------
NewHandshakeMessage_SimulationSettings == [timeStep |-> 0, unknown |-> <<>>]

ParseHandshakeMessage_SimulationSettings(m, it) ==
  IF it.tag = 9 THEN SetNumber(m, "timeStep", it) ELSE Unknown(m, it)

WriteHandshakeMessage_SimulationSettings(m) ==
  If(m.timeStep # 0, WriteDouble(9, m.timeStep)) \o m.unknown

SizeHandshakeMessage_SimulationSettings(m) == SizeIf(m.timeStep # 0, 8) + Bytes(m.unknown)

MergeHandshakeMessage_SimulationSettings(to, from) ==
  [timeStep |-> MergeNumber(to.timeStep, from.timeStep), unknown |-> to.unknown \o from.unknown]

EditsHandshakeMessage_SimulationSettings(m) == SetTo(m, "timeStep", Numbers)
------------------------------------------------------------------------------
NewHandshakeMessage ==
  [messageType |-> 0, version |-> 0, controlType |-> 0, objects |-> NoEntries,
   simSettings |-> <<>>, unknown |-> <<>>]

ParseHandshakeMessage(m, it) ==
  CASE it.tag = 8  -> SetNumber(m, "messageType", it)
    [] it.tag = 16 -> SetNumber(m, "version", it)
    [] it.tag = 24 -> SetNumber(m, "controlType", it)
    [] it.tag = 34 -> ParseEntry(m, "objects", NewHandshakeMessage_Object,
                        LAMBDA e, x : MessageValue(ParseHandshakeMessage_Object, e, x), it)
    [] it.tag = 42 -> SetMessage(m, "simSettings", NewHandshakeMessage_SimulationSettings,
                                 ParseHandshakeMessage_SimulationSettings, it)
    [] OTHER       -> Unknown(m, it)

WriteHandshakeMessage(m, order) ==
  If(m.messageType # 0, WriteVarint(8, m.messageType))
    \o If(m.version # 0, WriteVarint(16, m.version))
    \o If(m.controlType # 0, WriteVarint(24, m.controlType))
    \o WriteMap(34, m.objects, order,
                LAMBDA v : WriteSub(18, WriteHandshakeMessage_Object(v, order)))
    \o [i \in DOMAIN m.simSettings |->
          WriteSub(42, WriteHandshakeMessage_SimulationSettings(m.simSettings[i]))]
    \o m.unknown

SizeHandshakeMessage(m) ==
  SizeMap(m.objects, LAMBDA v : LengthDelimitedSize(SizeHandshakeMessage_Object(v)))
    + Sum(LAMBDA v : 1 + LengthDelimitedSize(SizeHandshakeMessage_SimulationSettings(v)), m.simSettings)
    + SizeIf(m.messageType # 0, VarintSize(m.messageType))
    + SizeIf(m.version # 0, VarintSize(m.version))
    + SizeIf(m.controlType # 0, VarintSize(m.controlType)) + Bytes(m.unknown)

MergeHandshakeMessage(to, from) ==
  [messageType |-> MergeNumber(to.messageType, from.messageType),
   version     |-> MergeNumber(to.version, from.version),
   controlType |-> MergeNumber(to.controlType, from.controlType),
   objects     |-> MergeMap(to.objects, from.objects),
   simSettings |-> MergeSub(to.simSettings, from.simSettings, NewHandshakeMessage_SimulationSettings,
                            MergeHandshakeMessage_SimulationSettings),
   unknown     |-> to.unknown \o from.unknown]

EditsHandshakeMessage(m) ==
  SetTo(m, "controlType", Numbers)
    \cup EditEntry(m, "objects", NewHandshakeMessage_Object, EditsHandshakeMessage_Object)
    \cup EditMessage(m, "simSettings", NewHandshakeMessage_SimulationSettings,
                     EditsHandshakeMessage_SimulationSettings)
------------------------------------------------------------------------------
NewControlMessage_Object ==
  [angles |-> <<>>, angularVelocities |-> <<>>, torques |-> <<>>, controlEvents |-> NoEntries,
   values |-> <<>>, unknown |-> <<>>]

(* Mutant: torques are read into the velocities. *)
ParseControlMessage_ObjectMixed(m, it) ==
  CASE it.tag \in {10, 9}  -> AddNumbers(m, "angles", it)
    [] it.tag \in {18, 17, 26, 25} -> AddNumbers(m, "angularVelocities", it)
    [] it.tag = 34         -> ParseEntry(m, "controlEvents", 0, NumberValue, it)
    [] it.tag \in {42, 41} -> AddNumbers(m, "values", it)
    [] OTHER               -> Unknown(m, it)

ParseControlMessage_Object(m, it) ==
  CASE it.tag \in {10, 9}  -> AddNumbers(m, "angles", it)
    [] it.tag \in {18, 17} -> AddNumbers(m, "angularVelocities", it)
    [] it.tag \in {26, 25} -> AddNumbers(m, "torques", it)
    [] it.tag = 34         -> ParseEntry(m, "controlEvents", 0, NumberValue, it)
    [] it.tag \in {42, 41} -> AddNumbers(m, "values", it)
    [] OTHER               -> Unknown(m, it)

WriteControlMessage_Object(m, order) ==
  WritePacked(10, m.angles, EightBytes) \o WritePacked(18, m.angularVelocities, EightBytes)
    \o WritePacked(26, m.torques, EightBytes)
    \o WriteMap(34, m.controlEvents, order, LAMBDA v : WriteVarint(16, v))
    \o WritePacked(42, m.values, EightBytes) \o m.unknown

SizeControlMessage_Object(m) ==
  SizePacked(m.angles, EightBytes) + SizePacked(m.angularVelocities, EightBytes)
    + SizePacked(m.torques, EightBytes) + SizeMap(m.controlEvents, VarintSize)
    + SizePacked(m.values, EightBytes) + Bytes(m.unknown)

MergeControlMessage_Object(to, from) ==
  [angles            |-> to.angles \o from.angles,
   angularVelocities |-> to.angularVelocities \o from.angularVelocities,
   torques           |-> to.torques \o from.torques,
   controlEvents     |-> MergeMap(to.controlEvents, from.controlEvents),
   values            |-> to.values \o from.values,
   unknown           |-> to.unknown \o from.unknown]

EditsControlMessage_Object(m) ==
  (UNION {Add(m, f, Numbers) : f \in {"angles", "angularVelocities", "torques", "values"}})
    \cup SetEntry(m, "controlEvents", Numbers)
------------------------------------------------------------------------------
NewControlMessage == [messageType |-> 0, objects |-> NoEntries, unknown |-> <<>>]

ParseControlMessage(m, it) ==
  CASE it.tag = 8  -> SetNumber(m, "messageType", it)
    [] it.tag = 18 -> ParseEntry(m, "objects", NewControlMessage_Object,
                        LAMBDA e, x : MessageValue(ParseControlMessage_Object, e, x), it)
    [] OTHER       -> Unknown(m, it)

(* Mutant: the type is written behind the objects. *)
WriteControlMessageTypeLast(m, order) ==
  WriteMap(18, m.objects, order, LAMBDA v : WriteSub(18, WriteControlMessage_Object(v, order)))
    \o If(m.messageType # 0, WriteVarint(8, m.messageType)) \o m.unknown

WriteControlMessage(m, order) ==
  If(m.messageType # 0, WriteVarint(8, m.messageType))
    \o WriteMap(18, m.objects, order,
                LAMBDA v : WriteSub(18, WriteControlMessage_Object(v, order)))
    \o m.unknown

SizeControlMessage(m) ==
  SizeMap(m.objects, LAMBDA v : LengthDelimitedSize(SizeControlMessage_Object(v)))
    + SizeIf(m.messageType # 0, VarintSize(m.messageType)) + Bytes(m.unknown)

MergeControlMessage(to, from) ==
  [messageType |-> MergeNumber(to.messageType, from.messageType),
   objects     |-> MergeMap(to.objects, from.objects),
   unknown     |-> to.unknown \o from.unknown]

EditsControlMessage(m) ==
  EditEntry(m, "objects", NewControlMessage_Object, EditsControlMessage_Object)
------------------------------------------------------------------------------
NewSensorMessage_Vec3 == [arr |-> <<>>, unknown |-> <<>>]

ParseSensorMessage_Vec3(m, it) ==
  IF it.tag \in {10, 9} THEN AddNumbers(m, "arr", it) ELSE Unknown(m, it)

WriteSensorMessage_Vec3(m) == WritePacked(10, m.arr, EightBytes) \o m.unknown

SizeSensorMessage_Vec3(m) == SizePacked(m.arr, EightBytes) + Bytes(m.unknown)

MergeSensorMessage_Vec3(to, from) ==
  [arr |-> to.arr \o from.arr, unknown |-> to.unknown \o from.unknown]

EditsSensorMessage_Vec3(m) == Add(m, "arr", Numbers)
------------------------------------------------------------------------------
(* The oneof: "case" is the tag of the field that is set, 0 if none is.    *)
DoubleCases == {9, 17, 25, 113}

BoolCase == 48

Vec3Cases == {34, 42, 58, 66, 74, 82, 98, 106}

NewSensorMessage_Sensor ==
  [case |-> 0, num |-> 0, vec |-> NewSensorMessage_Vec3, unknown |-> <<>>]

(* Whatever is not 0 is true, and true is 1. *)
Truth(x) == IF x = 0 THEN 0 ELSE 1

(* Setting one field unsets the other ones. *)
SetScalar(m, case, x) ==
  [m EXCEPT !.case = case, !.num = IF case = BoolCase THEN Truth(x) ELSE x,
            !.vec = NewSensorMessage_Vec3]

MutableVec3(m, case) == IF m.case = case THEN m.vec ELSE NewSensorMessage_Vec3

SetVec3(m, case, vec) == [m EXCEPT !.case = case, !.num = 0, !.vec = vec]

ParseSensorMessage_Sensor(m, it) ==
  CASE it.tag \in DoubleCases \cup {BoolCase} -> Parsed(SetScalar(m, it.tag, it.num[1]), it.whole)
    [] it.tag \in Vec3Cases ->
         LET r == ParseItems(ParseSensorMessage_Vec3, MutableVec3(m, it.tag), it.sub)
         IN  Parsed(SetVec3(m, it.tag, r.msg), r.ok /\ it.whole)
    [] OTHER -> Unknown(m, it)

WriteSensorMessage_Sensor(m) ==
  If(m.case \in DoubleCases, WriteDouble(m.case, m.num))
    \o If(m.case = BoolCase, WriteVarint(BoolCase, m.num))
    \o If(m.case \in Vec3Cases, WriteSub(m.case, WriteSensorMessage_Vec3(m.vec)))
    \o m.unknown

(* Mutant: a truth value takes as much room as a double. *)
SizeSensorMessage_SensorEight(m) ==
  SizeIf(m.case \in DoubleCases \cup {BoolCase}, 8)
    + SizeIf(m.case \in Vec3Cases, LengthDelimitedSize(SizeSensorMessage_Vec3(m.vec)))
    + Bytes(m.unknown)

SizeSensorMessage_Sensor(m) ==
  SizeIf(m.case \in DoubleCases, 8) + SizeIf(m.case = BoolCase, 1)
    + SizeIf(m.case \in Vec3Cases, LengthDelimitedSize(SizeSensorMessage_Vec3(m.vec)))
    + Bytes(m.unknown)

(* Mutant: a vector is replaced, not extended. *)
MergeSensorMessage_SensorReplaced(to, from) ==
  IF from.case \in Vec3Cases THEN [SetVec3(to, from.case, from.vec) EXCEPT !.unknown = @ \o from.unknown]
  ELSE IF from.case = 0 THEN [to EXCEPT !.unknown = @ \o from.unknown]
  ELSE [SetScalar(to, from.case, from.num) EXCEPT !.unknown = @ \o from.unknown]

MergeSensorMessage_Sensor(to, from) ==
  LET merged == CASE from.case = 0 -> to
                  [] from.case \in DoubleCases \cup {BoolCase} -> SetScalar(to, from.case, from.num)
                  [] from.case \in Vec3Cases ->
                       SetVec3(to, from.case, MergeSensorMessage_Vec3(MutableVec3(to, from.case), from.vec))
  IN  [merged EXCEPT !.unknown = @ \o from.unknown]

EditsSensorMessage_Sensor(m) ==
  {SetScalar(m, case, x) : case \in SensorCases \cap (DoubleCases \cup {BoolCase}), x \in Numbers}
    \cup UNION {{SetVec3(m, case, v) : v \in EditsSensorMessage_Vec3(MutableVec3(m, case))}
                : case \in SensorCases \cap Vec3Cases}
------------------------------------------------------------------------------
NewSensorMessage_Sensors == [sensor |-> <<>>, unknown |-> <<>>]

ParseSensorMessage_Sensors(m, it) ==
  IF it.tag = 10 THEN AddMessage(m, "sensor", NewSensorMessage_Sensor, ParseSensorMessage_Sensor, it)
  ELSE Unknown(m, it)

WriteSensors(tag, ss) == [i \in DOMAIN ss |-> WriteSub(tag, WriteSensorMessage_Sensor(ss[i]))]

WriteSensorMessage_Sensors(m) == WriteSensors(10, m.sensor) \o m.unknown

SizeSensors(ss) == Sum(LAMBDA s : 1 + LengthDelimitedSize(SizeSensorMessage_Sensor(s)), ss)

SizeSensorMessage_Sensors(m) == SizeSensors(m.sensor) + Bytes(m.unknown)

MergeSensorMessage_Sensors(to, from) ==
  [sensor |-> to.sensor \o from.sensor, unknown |-> to.unknown \o from.unknown]

EditsSensorMessage_Sensors(m) ==
  Add(m, "sensor", EditsSensorMessage_Sensor(NewSensorMessage_Sensor))
------------------------------------------------------------------------------
NewSensorMessage_Object ==
  [angleSensors |-> <<>>, angularVelocitySensors |-> <<>>, torqueSensors |-> <<>>,
   objectSensors |-> <<>>, forceSensors |-> <<>>, sensors |-> NoEntries, unknown |-> <<>>]

ParseSensorMessage_Object(m, it) ==
  CASE it.tag \in {10, 9}  -> AddNumbers(m, "angleSensors", it)
    [] it.tag \in {18, 17} -> AddNumbers(m, "angularVelocitySensors", it)
    [] it.tag \in {26, 25} -> AddNumbers(m, "torqueSensors", it)
    [] it.tag = 34 -> AddMessage(m, "objectSensors", NewSensorMessage_Sensor, ParseSensorMessage_Sensor, it)
    [] it.tag = 42 -> AddMessage(m, "forceSensors", NewSensorMessage_Vec3, ParseSensorMessage_Vec3, it)
    [] it.tag = 50 -> ParseEntry(m, "sensors", NewSensorMessage_Sensors,
                        LAMBDA e, x : MessageValue(ParseSensorMessage_Sensors, e, x), it)
    [] OTHER       -> Unknown(m, it)

WriteSensorMessage_Object(m, order) ==
  WritePacked(10, m.angleSensors, EightBytes) \o WritePacked(18, m.angularVelocitySensors, EightBytes)
    \o WritePacked(26, m.torqueSensors, EightBytes)
    \o WriteSensors(34, m.objectSensors)
    \o [i \in DOMAIN m.forceSensors |-> WriteSub(42, WriteSensorMessage_Vec3(m.forceSensors[i]))]
    \o WriteMap(50, m.sensors, order, LAMBDA v : WriteSub(18, WriteSensorMessage_Sensors(v)))
    \o m.unknown

SizeSensorMessage_Object(m) ==
  SizePacked(m.angleSensors, EightBytes) + SizePacked(m.angularVelocitySensors, EightBytes)
    + SizePacked(m.torqueSensors, EightBytes)
    + SizeSensors(m.objectSensors)
    + Sum(LAMBDA v : 1 + LengthDelimitedSize(SizeSensorMessage_Vec3(v)), m.forceSensors)
    + SizeMap(m.sensors, LAMBDA v : LengthDelimitedSize(SizeSensorMessage_Sensors(v)))
    + Bytes(m.unknown)

MergeSensorMessage_Object(to, from) ==
  [angleSensors           |-> to.angleSensors \o from.angleSensors,
   angularVelocitySensors |-> to.angularVelocitySensors \o from.angularVelocitySensors,
   torqueSensors          |-> to.torqueSensors \o from.torqueSensors,
   objectSensors          |-> to.objectSensors \o from.objectSensors,
   forceSensors           |-> to.forceSensors \o from.forceSensors,
   sensors                |-> MergeMap(to.sensors, from.sensors),
   unknown                |-> to.unknown \o from.unknown]

EditsSensorMessage_Object(m) ==
  (UNION {Add(m, f, Numbers) : f \in {"angleSensors", "angularVelocitySensors", "torqueSensors"}})
    \cup Add(m, "objectSensors", EditsSensorMessage_Sensor(NewSensorMessage_Sensor))
    \cup Add(m, "forceSensors", {NewSensorMessage_Vec3} \cup EditsSensorMessage_Vec3(NewSensorMessage_Vec3))
    \cup EditEntry(m, "sensors", NewSensorMessage_Sensors, EditsSensorMessage_Sensors)
------------------------------------------------------------------------------
NewSensorMessage_SimulationVariables == [simulatedTime |-> 0, unknown |-> <<>>]

ParseSensorMessage_SimulationVariables(m, it) ==
  IF it.tag = 9 THEN SetNumber(m, "simulatedTime", it) ELSE Unknown(m, it)

WriteSensorMessage_SimulationVariables(m) ==
  If(m.simulatedTime # 0, WriteDouble(9, m.simulatedTime)) \o m.unknown

SizeSensorMessage_SimulationVariables(m) == SizeIf(m.simulatedTime # 0, 8) + Bytes(m.unknown)

MergeSensorMessage_SimulationVariables(to, from) ==
  [simulatedTime |-> MergeNumber(to.simulatedTime, from.simulatedTime),
   unknown       |-> to.unknown \o from.unknown]

EditsSensorMessage_SimulationVariables(m) == SetTo(m, "simulatedTime", Numbers)
------------------------------------------------------------------------------
NewSensorMessage ==
  [messageType |-> 0, objects |-> NoEntries, simVars |-> <<>>, unknown |-> <<>>]

ParseSensorMessage(m, it) ==
  CASE it.tag = 8  -> SetNumber(m, "messageType", it)
    [] it.tag = 26 -> ParseEntry(m, "objects", NewSensorMessage_Object,
                        LAMBDA e, x : MessageValue(ParseSensorMessage_Object, e, x), it)
    [] it.tag = 34 -> SetMessage(m, "simVars", NewSensorMessage_SimulationVariables,
                                 ParseSensorMessage_SimulationVariables, it)
    [] OTHER       -> Unknown(m, it)

WriteSensorMessage(m, order) ==
  If(m.messageType # 0, WriteVarint(8, m.messageType))
    \o WriteMap(26, m.objects, order,
                LAMBDA v : WriteSub(18, WriteSensorMessage_Object(v, order)))
    \o [i \in DOMAIN m.simVars |->
          WriteSub(34, WriteSensorMessage_SimulationVariables(m.simVars[i]))]
    \o m.unknown

SizeSensorMessage(m) ==
  SizeMap(m.objects, LAMBDA v : LengthDelimitedSize(SizeSensorMessage_Object(v)))
    + Sum(LAMBDA v : 1 + LengthDelimitedSize(SizeSensorMessage_SimulationVariables(v)), m.simVars)
    + SizeIf(m.messageType # 0, VarintSize(m.messageType)) + Bytes(m.unknown)

MergeSensorMessage(to, from) ==
  [messageType |-> MergeNumber(to.messageType, from.messageType),
   objects     |-> MergeMap(to.objects, from.objects),
   simVars     |-> MergeSub(to.simVars, from.simVars, NewSensorMessage_SimulationVariables,
                            MergeSensorMessage_SimulationVariables),
   unknown     |-> to.unknown \o from.unknown]

EditsSensorMessage(m) ==
  EditEntry(m, "objects", NewSensorMessage_Object, EditsSensorMessage_Object)
    \cup EditMessage(m, "simVars", NewSensorMessage_SimulationVariables,
                     EditsSensorMessage_SimulationVariables)
==============================================================================
