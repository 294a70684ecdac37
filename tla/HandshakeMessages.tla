-------------------------- MODULE HandshakeMessages --------------------------
(***************************************************************************)
(* The C++ library's HandshakeMessage, in which a simulation announces     *)
(* what its control and sensor messages hold, and in which order.  The     *)
(* objects are its robots.  A list of names or types is represented by the *)
(* number of the call that gave it; what is appended to, by a sequence of  *)
(* such numbers.                                                           *)
(***************************************************************************)
EXTENDS Builder

CONSTANTS RobotSensor, RobotEvent

VARIABLES
  currTypes,  \* the robot and name of the sensor m_curr_sensor points to, or none
  scene       \* the two fields of the whole scene

handshakeVars == <<held, current, currTypes, message, scene, status, calls>>

HandshakeInterface == {"HandshakeMessageBuilder", "AddRobotBuilder", "AddHandshakeSensorBuilder"}

Scene == {"simSettings", "controlType"}

Assigned == {"controlsInOrder", "jointSensorsInOrder"}

Appended == {"controlTypesInOrder", "jointSensors", "objectSensors"}

NewRobot == [lists |-> [f \in Assigned \cup Appended |-> <<>>],
             events |-> EmptyMap, sensors |-> EmptyMap]

(* Mutant: builder() returns the interface that has the robot's fields. *)
handshakeBuilder_too_much == {"HandshakeMessageBuilder", "AddRobotBuilder"}

handshakeBuilder == {"HandshakeMessageBuilder"}

HandshakeInit == Fresh(handshakeBuilder) /\ currTypes = {} /\ scene = [f \in Scene |-> 0]
------------------------------------------------------------------------------
(* withSimulationSettings(), withControlType(). *)
withScene(field) ==
  /\ May("HandshakeMessageBuilder") /\ UNCHANGED held
  /\ Called(field, "")
  /\ IF status = "building"
       THEN scene' = [scene EXCEPT ![field] = Now] /\ UNCHANGED <<current, currTypes, message, status>>
       ELSE Crash /\ UNCHANGED <<currTypes, scene>>

(* Mutant: the robot is looked up and not allocated. *)
withRobot_unallocated(name) ==
  /\ May("HandshakeMessageBuilder") \/ May("AddRobotBuilder")
  /\ Get("AddRobotBuilder") /\ Called("object", name)
  /\ current' = {name} /\ UNCHANGED <<currTypes, message, scene, status>>

withRobot(name) ==
  /\ May("HandshakeMessageBuilder") \/ May("AddRobotBuilder")
  /\ Get("AddRobotBuilder") /\ Called("object", name)
  /\ Name(name, NewRobot) /\ UNCHANGED <<currTypes, scene>>

(* withControlsInOrder() and withJointSensorsInOrder() replace the list,   *)
(* withControlTypesInOrder(), withJointSensors() and withObjectSensors()   *)
(* add to it.                                                              *)
withList(field) ==
  /\ May("AddRobotBuilder") /\ UNCHANGED held
  /\ Called(field, "")
  /\ Write(LAMBDA r : [r EXCEPT !.lists =
                         Put(@, field, IF field \in Assigned THEN <<Now>> ELSE Append(@[field], Now))])
  /\ UNCHANGED <<currTypes, scene>>

(* withControlEvent(). *)
withRobotEvent(event) ==
  /\ May("AddRobotBuilder") /\ UNCHANGED held
  /\ Called("event", event)
  /\ Write(LAMBDA r : [r EXCEPT !.events = Put(@, event, Now)]) /\ UNCHANGED <<currTypes, scene>>

(* Mutant: a sensor of that name is made anew, as SensorMessageBuilder does. *)
withRobotSensor_anew(name) ==
  /\ May("AddRobotBuilder") /\ Get("AddHandshakeSensorBuilder")
  /\ Called("sensor", name)
  /\ Write(LAMBDA r : [r EXCEPT !.sensors = Put(@, name, <<>>)])
  /\ currTypes' = IF status' = "crashed" THEN currTypes
                   ELSE {[object |-> r, name |-> name] : r \in current}
  /\ UNCHANGED scene

(* withSensor(). *)
withRobotSensor(name) ==
  /\ May("AddRobotBuilder") /\ Get("AddHandshakeSensorBuilder")
  /\ Called("sensor", name)
  /\ Write(LAMBDA r : [r EXCEPT !.sensors = Allocate(@, name, <<>>)])
  /\ currTypes' = IF status' = "crashed" THEN currTypes
                   ELSE {[object |-> r, name |-> name] : r \in current}
  /\ UNCHANGED scene

withTypesInOrder ==
  /\ May("AddHandshakeSensorBuilder") /\ Get("AddRobotBuilder")
  /\ Called("types", "")
  /\ \/ \E s \in currTypes :
          Update(s.object, LAMBDA r : [r EXCEPT !.sensors =
            Put(@, s.name, Append(@[s.name], Now))])
     \/ status = "built" /\ Crash
  /\ UNCHANGED <<currTypes, scene>>

buildHandshake ==
  (\E interface \in HandshakeInterface : May(interface)) /\ Build /\ UNCHANGED <<currTypes, scene>>

HandshakeNext ==
  \/ \E field \in Scene : withScene(field)
  \/ \E name \in Object : withRobot(name)
  \/ \E field \in Assigned \cup Appended : withList(field)
  \/ \E event \in RobotEvent : withRobotEvent(event)
  \/ \E name \in RobotSensor : withRobotSensor(name)
  \/ withTypesInOrder
  \/ buildHandshake

HandshakeSpec == HandshakeInit /\ [][HandshakeNext]_handshakeVars
------------------------------------------------------------------------------
(* The readers: each is the set of what it returns, empty where it throws. *)

objects == DOMAIN message

readList(field, name) == IF name \in objects THEN {message[name].lists[field]} ELSE {}

controlEvents(name) == IF name \in objects THEN {DOMAIN message[name].events} ELSE {}

robotEvent(name, event) ==
  {message[r].events[event] : r \in {o \in objects \cap {name} : event \in DOMAIN message[o].events}}

sensors(name, s) ==
  {message[r].sensors[s] : r \in {o \in objects \cap {name} : s \in DOMAIN message[o].sensors}}
------------------------------------------------------------------------------
HandshakeContent(events, names) == [lists : [Assigned \cup Appended -> Seq(1..MaxCalls)],
                                    events : [events -> 1..MaxCalls],
                                    sensors : [names -> Seq(1..MaxCalls)]]

(* Beside the types: the two pointers point into the message. *)
HandshakeTypeOK ==
  /\ held \subseteq HandshakeInterface
  /\ current \subseteq objects /\ \A a, b \in current : a = b
  /\ \A s \in currTypes : s.object \in objects /\ s.name \in DOMAIN message[s.object].sensors
  /\ \A a, b \in currTypes : a = b
  /\ objects \subseteq Object
  /\ \A name \in objects : \E events \in SUBSET RobotEvent, names \in SUBSET RobotSensor :
       message[name] \in HandshakeContent(events, names)
  /\ scene \in [Scene -> 0..MaxCalls]
  /\ status \in Status

(* The calls of withTypesInOrder() while the pointer was that sensor's.    *)
SaidTypes(name, s) ==
  {i \in All("types") : \E j \in LastOf(Until(All("sensor"), i)) : j \in SaidOf("sensor", name, s)}

(* A reader returns what was said of that robot, in whatever order robots  *)
(* and sensors were named, left and named again, and whichever pointers    *)
(* were used: the last list of names, and all types in the order they were *)
(* said.                                                                   *)
HandshakeReadersReturnWhatWasSaid ==
  status \in {"building", "built"} =>
    /\ \A field \in Scene : {scene[field]} = LastOf({0} \cup All(field))
    /\ objects = {calls[i].arg : i \in All("object")}
    /\ \A name \in objects :
         /\ \A field \in Appended :
              \A list \in readList(field, name) : InOrder(list, Said(field, name))
         /\ \A field \in Assigned :
              \A list \in readList(field, name) : InOrder(list, LastOf(Said(field, name)))
         /\ controlEvents(name) = {{calls[i].arg : i \in Said("event", name)}}
         /\ \A event \in RobotEvent :
              robotEvent(name, event) = LastOf(SaidOf("event", name, event))
         /\ \A s \in RobotSensor :
              /\ sensors(name, s) # {} <=> SaidOf("sensor", name, s) # {}
              /\ \A list \in sensors(name, s) : InOrder(list, SaidTypes(name, s))

(* Until build() no sequence of calls that the types allow goes through an *)
(* indeterminate pointer or a null message.                                *)
HandshakeTypesKeepFromCrashing == status = "crashed" => All("build") # {}
==============================================================================
