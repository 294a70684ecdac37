--------------------------- MODULE ControlMessages ---------------------------
(***************************************************************************)
(* The C++ library's ControlMessage: the builder a controller makes it     *)
(* with and the readers a simulation takes it apart with.  A vector of     *)
(* doubles is represented by the number of the call that gave it, 0 by the *)
(* empty one.                                                              *)
(***************************************************************************)
EXTENDS Builder

CONSTANT Event

controlVars == <<held, current, message, status, calls>>

ControlInterface == {"ControlMessageBuilder", "AddControlBuilder", "AddControlEventBuilder"}

Control == {"angles", "values", "angularVelocities", "torques"}

NewControlObject == [controls |-> [c \in Control |-> 0], events |-> EmptyMap]

(* Mutant: builder() returns the interface that has the controls. *)
controlBuilder_too_much == {"ControlMessageBuilder", "AddControlBuilder"}

controlBuilder == {"ControlMessageBuilder"}

ControlInit == Fresh(controlBuilder)
------------------------------------------------------------------------------
(* Mutant: an object that is named again is made anew. *)
controlObject_anew(name) ==
  /\ \E interface \in {"ControlMessageBuilder", "AddControlEventBuilder"} : May(interface)
  /\ Get("AddControlBuilder") /\ Called("object", name)
  /\ message' = Put(message, name, NewControlObject) /\ current' = {name} /\ UNCHANGED status

(* Mutant: the object is looked up and not allocated. *)
controlObject_unallocated(name) ==
  /\ \E interface \in {"ControlMessageBuilder", "AddControlEventBuilder"} : May(interface)
  /\ Get("AddControlBuilder") /\ Called("object", name)
  /\ current' = {name} /\ UNCHANGED <<message, status>>

(* object(). *)
controlObject(name) ==
  /\ \E interface \in {"ControlMessageBuilder", "AddControlEventBuilder"} : May(interface)
  /\ Get("AddControlBuilder") /\ Called("object", name)
  /\ Name(name, NewControlObject)

(* withAngles(), withValues(), withAngularVelocities(), withTorques(). *)
withControl(control) ==
  /\ May("AddControlBuilder") /\ Get("AddControlEventBuilder")
  /\ Called(control, "")
  /\ Write(LAMBDA o : [o EXCEPT !.controls = Put(@, control, Now)])

withControlEvent(event, activated) ==
  /\ May("AddControlEventBuilder") /\ Get("AddControlEventBuilder")
  /\ Called("event", [event |-> event, activated |-> activated])
  /\ Write(LAMBDA o : [o EXCEPT !.events = Put(@, event, activated)])

buildControl == (May("AddControlBuilder") \/ May("AddControlEventBuilder")) /\ Build

ControlNext ==
  \/ \E name \in Object : controlObject(name)
  \/ \E control \in Control : withControl(control)
  \/ \E event \in Event, activated \in BOOLEAN : withControlEvent(event, activated)
  \/ buildControl

ControlSpec == ControlInit /\ [][ControlNext]_controlVars
------------------------------------------------------------------------------
(* The readers: each is the set of what it returns, empty where it throws, *)
(* as at() of a map does on a missing key.                                 *)

has_object(name) == name \in DOMAIN message

readControl(control, name) ==
  IF has_object(name) THEN {message[name].controls[control]} ELSE {}

hasControlEvent(name, event) == has_object(name) /\ event \in DOMAIN message[name].events

controlEvent(name, event) ==
  IF hasControlEvent(name, event) THEN {message[name].events[event]} ELSE {}
------------------------------------------------------------------------------
ControlContent(events) == [controls : [Control -> 0..MaxCalls], events : [events -> BOOLEAN]]

(* Beside the types: currObject points into the message. *)
ControlTypeOK ==
  /\ held \subseteq ControlInterface
  /\ current \subseteq DOMAIN message /\ \A a, b \in current : a = b
  /\ DOMAIN message \subseteq Object
  /\ \A name \in DOMAIN message :
       \E events \in SUBSET Event : message[name] \in ControlContent(events)
  /\ status \in Status

SaidEvent(name, event) == {i \in Said("event", name) : calls[i].arg.event = event}

(* A reader returns what was last said of that object, in whatever order   *)
(* objects were named, left and named again, and whichever pointers were   *)
(* used; it throws on exactly what was never said.                         *)
ControlReadersReturnWhatWasSaid ==
  status \in {"building", "built"} =>
    \A name \in Object :
      /\ has_object(name) <=> Said("object", name) # {}
      /\ \A control \in Control :
           readControl(control, name) =
             IF has_object(name) THEN LastOf({0} \cup Said(control, name)) ELSE {}
      /\ \A event \in Event :
           controlEvent(name, event) = {calls[i].arg.activated : i \in LastOf(SaidEvent(name, event))}

(* Until build() no sequence of calls that the types allow goes through an *)
(* indeterminate currObject or a null message.                             *)
ControlTypesKeepFromCrashing == status = "crashed" => All("build") # {}
==============================================================================
