--------------------------- MODULE SensorMessages ---------------------------
(***************************************************************************)
(* The C++ library's SensorMessage: the builder a simulation makes it with *)
(* and the readers a controller takes it apart with.  A vector, a Vec3 or  *)
(* a number is represented by the number of the call that gave it, 0 by    *)
(* the empty or default one.                                               *)
(***************************************************************************)
EXTENDS Builder

CONSTANTS SensorName,
          Kind           \* bound of the model: the kinds of reading the caller has

(* The fields of the oneof. *)
SensorValue == {"angle", "angularVelocity1d", "torque1d", "force1d", "position", "rpy",
                "acceleration3d", "force3d", "torque3d", "angularAcceleration3d",
                "velocity3d", "angularVelocity3d", "activated"}

ASSUME KindAssumption == Kind \subseteq SensorValue

VARIABLES
  currSensor, \* the object and name of the list m_curr_sensor points to, or none
  time        \* simVars.simulatedTime

sensorVars == <<held, current, currSensor, message, time, status, calls>>

SensorInterface == {"SensorMessageBuilder", "AddSensorValuesBuilder", "AddSensorBuilder"}

Vector == {"angles", "angularVelocities", "torques"}

ObjectSensor == {"position", "rpy"}

NewSensorObject ==
  [vectors |-> [v \in Vector |-> 0], objectSensors |-> <<>>, sensors |-> EmptyMap]

(* Mutant: builder() returns the interface that has the values. *)
sensorBuilder_too_much == {"SensorMessageBuilder", "AddSensorValuesBuilder"}

sensorBuilder == {"SensorMessageBuilder"}

SensorInit == Fresh(sensorBuilder) /\ currSensor = {} /\ time = 0
------------------------------------------------------------------------------
(* Mutant: m_curr_sensor goes along to the object named last. *)
sensorObject_movesSensor(name) ==
  /\ \E interface \in SensorInterface : May(interface)
  /\ Get("AddSensorValuesBuilder") /\ Called("object", name)
  /\ Name(name, NewSensorObject)
  /\ currSensor' = {[s EXCEPT !.object = name] : s \in currSensor} /\ UNCHANGED time

(* object(), in each of the three interfaces. *)
sensorObject(name) ==
  /\ \E interface \in SensorInterface : May(interface)
  /\ Get("AddSensorValuesBuilder") /\ Called("object", name)
  /\ Name(name, NewSensorObject) /\ UNCHANGED <<currSensor, time>>

(* It returns the interface of an object although there may be none.       *)
withSimulatedTime ==
  /\ May("SensorMessageBuilder") /\ Get("AddSensorValuesBuilder")
  /\ Called("simulatedTime", "")
  /\ IF status = "building"
       THEN time' = Now /\ UNCHANGED <<current, currSensor, message, status>>
       ELSE Crash /\ UNCHANGED <<currSensor, time>>

(* withAngles(), withAngularVelocities(), withTorques(): replace. *)
withVector(vector) ==
  /\ May("AddSensorValuesBuilder") /\ Get("AddSensorValuesBuilder")
  /\ Called(vector, "")
  /\ Write(LAMBDA o : [o EXCEPT !.vectors = Put(@, vector, Now)]) /\ UNCHANGED <<currSensor, time>>

(* withPosition(), withRPY(): append. *)
withPose(kind) ==
  /\ May("AddSensorValuesBuilder") /\ Get("AddSensorValuesBuilder")
  /\ Called("pose", kind)
  /\ Write(LAMBDA o : [o EXCEPT !.objectSensors = Append(@, [kind |-> kind, value |-> Now])])
  /\ UNCHANGED <<currSensor, time>>

(* Mutant: a list of that name is taken up again, not emptied. *)
withSensor_again(name) ==
  /\ May("AddSensorValuesBuilder") /\ Get("AddSensorBuilder")
  /\ Called("sensor", name)
  /\ Write(LAMBDA o : [o EXCEPT !.sensors = Allocate(@, name, <<>>)])
  /\ currSensor' = IF status' = "crashed" THEN currSensor
                   ELSE {[object |-> o, name |-> name] : o \in current}
  /\ UNCHANGED time

(* A list of that name is emptied. *)
withSensor(name) ==
  /\ May("AddSensorValuesBuilder") /\ Get("AddSensorBuilder")
  /\ Called("sensor", name)
  /\ Write(LAMBDA o : [o EXCEPT !.sensors = Put(@, name, <<>>)])
  /\ currSensor' = IF status' = "crashed" THEN currSensor
                   ELSE {[object |-> o, name |-> name] : o \in current}
  /\ UNCHANGED time

(* withAngle(), ..., withAngularVelocity3d(): one more reading in the list *)
(* withSensor() gave last, also when another object was named since.       *)
withReading(kind) ==
  /\ May("AddSensorBuilder") /\ Get("AddSensorBuilder")
  /\ Called("reading", kind)
  /\ \/ \E s \in currSensor :
          Update(s.object, LAMBDA o : [o EXCEPT !.sensors =
            Put(@, s.name, Append(@[s.name], [kind |-> kind, value |-> Now]))])
     \/ status = "built" /\ Crash
  /\ UNCHANGED <<currSensor, time>>

buildSensor ==
  (May("AddSensorValuesBuilder") \/ May("AddSensorBuilder")) /\ Build /\ UNCHANGED <<currSensor, time>>

SensorNext ==
  \/ \E name \in Object : sensorObject(name)
  \/ withSimulatedTime
  \/ \E vector \in Vector : withVector(vector)
  \/ \E kind \in ObjectSensor : withPose(kind)
  \/ \E name \in SensorName : withSensor(name)
  \/ \E kind \in Kind : withReading(kind)
  \/ buildSensor

SensorSpec == SensorInit /\ [][SensorNext]_sensorVars
------------------------------------------------------------------------------
(* The readers: each is the set of what it returns, empty where it throws, *)
(* as at() of a map or a list does on what is not there.                   *)

has(name) == name \in DOMAIN message

hasSensor(name, s) == has(name) /\ s \in DOMAIN message[name].sensors

readVector(vector, name) == IF has(name) THEN {message[name].vectors[vector]} ELSE {}

(* objectPosition(), objectRPY(): the first of its kind. *)
objectPose(kind, name) ==
  IF has(name)
    THEN LET poses == message[name].objectSensors
         IN {poses[i].value : i \in FirstOf({i \in DOMAIN poses : poses[i].kind = kind})}
    ELSE {}

sensor(name, s) == IF hasSensor(name, s) THEN {message[name].sensors[s]} ELSE {}

simulatedTime == time
------------------------------------------------------------------------------
Reading == [kind : Kind \cup ObjectSensor, value : 1..MaxCalls]

SensorContent(names) == [vectors : [Vector -> 0..MaxCalls],
                         objectSensors : Seq(Reading),
                         sensors : [names -> Seq(Reading)]]

(* Beside the types: the two pointers point into the message. *)
SensorTypeOK ==
  /\ held \subseteq SensorInterface
  /\ current \subseteq DOMAIN message /\ \A a, b \in current : a = b
  /\ \A s \in currSensor : hasSensor(s.object, s.name)
  /\ \A a, b \in currSensor : a = b
  /\ DOMAIN message \subseteq Object
  /\ \A name \in DOMAIN message :
       \E names \in SUBSET SensorName : message[name] \in SensorContent(names)
  /\ time \in 0..MaxCalls
  /\ status \in Status

(* The readings that were given while the pointer of the last withSensor() *)
(* was the one of that call.                                               *)
Since(list) == {i \in All("reading") : list \in LastOf(Until(All("sensor"), i))}

(* The readings of a list are these calls, in their order. *)
Holds(list, S) ==
  /\ InOrder([i \in DOMAIN list |-> list[i].value], S)
  /\ \A i \in DOMAIN list : list[i].kind = calls[list[i].value].arg

(* A reader returns what was said of that object, in whatever order        *)
(* objects and sensors were named, left and named again, and whichever     *)
(* pointers were used: the last vector, the first pose, and all readings   *)
(* since the sensor was named last.                                        *)
SensorReadersReturnWhatWasSaid ==
  status \in {"building", "built"} =>
    /\ {simulatedTime} = LastOf({0} \cup All("simulatedTime"))
    /\ \A name \in Object :
         /\ has(name) <=> Said("object", name) # {}
         /\ \A vector \in Vector :
              readVector(vector, name) =
                IF has(name) THEN LastOf({0} \cup Said(vector, name)) ELSE {}
         /\ \A kind \in ObjectSensor :
              objectPose(kind, name) = FirstOf(SaidOf("pose", name, kind))
         /\ \A s \in SensorName :
              /\ hasSensor(name, s) <=> SaidOf("sensor", name, s) # {}
              /\ \A list \in sensor(name, s) :
                   Holds(list, UNION {Since(i) : i \in LastOf(SaidOf("sensor", name, s))})

(* Until build() a crash takes withSimulatedTime() without an object: no   *)
(* other sequence of calls that the types allow goes through a pointer to  *)
(* nothing.                                                                *)
CrashOnlyBeforeFirstObject ==
  status = "crashed" =>
    All("build") # {} \/ (All("object") = {} /\ All("simulatedTime") # {})

==============================================================================
