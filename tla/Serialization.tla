--------------------------- MODULE Serialization ---------------------------
(***************************************************************************)
(* From a message to bytes and back: builders and factories, the message   *)
(* classes' serializeToBytes(), MessageSerializer of both libraries, and   *)
(* the casts toSensorMessage() and toHandshakeMessage().  ZeroMQ delivers  *)
(* a frame as it was or not at all; files, and bytes the caller passed on, *)
(* may end too soon or be padded.                                          *)
(***************************************************************************)
EXTENDS Messaging

CONSTANTS MaxEdits,  \* accessor calls on one message
          Garbage    \* what may stand in a buffer behind the end of the bytes

ASSUME SerializationAssumption == MaxEdits \in Nat

VARIABLES
  kind,     \* the class of the message made, NoKind before there is one
  pm,       \* the protobuf message
  edits,    \* accessor calls made
  frame,    \* its bytes, NoFrame before they are written
  damaged,  \* whether they are still what was written
  got       \* what a reader made of them, NoMessage before that

vars == <<kind, pm, edits, frame, damaged, got>>

TypeNumber == [HandshakeInitMessage |-> 0, HandshakeMessage |-> 1, ControlMessage |-> 2,
               SensorMessage |-> 3, ResetMessage |-> 4, ErrorMessage |-> 5,
               SensorRequestMessage |-> 6]

Kinds == DOMAIN TypeNumber

CurrentVersion == 1

NoKind == "none"

NoFrame == <<Item(1, <<>>, "", <<>>, 0)>>

NoMessage == [from |-> "nothing", kind |-> NoKind, msg |-> <<>>, ok |-> FALSE, cast |-> NoKind]

Raised(from) == [NoMessage EXCEPT !.from = from]
------------------------------------------------------------------------------
(* The classes of messages. *)
New(k) ==
  CASE k = "Message"              -> NewMessage
    [] k = "HandshakeInitMessage" -> NewHandshakeInitMessage
    [] k = "HandshakeMessage"     -> NewHandshakeMessage
    [] k = "ControlMessage"       -> NewControlMessage
    [] k = "SensorMessage"        -> NewSensorMessage
    [] k = "ResetMessage"         -> NewResetMessage
    [] k = "ErrorMessage"         -> NewErrorMessage
    [] k = "SensorRequestMessage" -> NewSensorRequestMessage

(* One turn of the loop of a class's parser; Message is the class that all *)
(* bytes are parsed as first, for their type.                              *)
Turn(k, m, it) ==
  CASE k = "Message"              -> ParseMessage(m, it)
    [] k = "HandshakeInitMessage" -> ParseHandshakeInitMessage(m, it)
    [] k = "HandshakeMessage"     -> ParseHandshakeMessage(m, it)
    [] k = "ControlMessage"       -> ParseControlMessage(m, it)
    [] k = "SensorMessage"        -> ParseSensorMessage(m, it)
    [] k = "ResetMessage"         -> ParseResetMessage(m, it)
    [] k = "ErrorMessage"         -> ParseErrorMessage(m, it)
    [] k = "SensorRequestMessage" -> ParseSensorRequestMessage(m, it)

Parse(k, m, items) == ParseItems(LAMBDA x, it : Turn(k, x, it), m, items)

Write(k, m, order) ==
  CASE k = "HandshakeInitMessage" -> WriteHandshakeInitMessage(m)
    [] k = "HandshakeMessage"     -> WriteHandshakeMessage(m, order)
    [] k = "ControlMessage"       -> WriteControlMessage(m, order)
    [] k = "SensorMessage"        -> WriteSensorMessage(m, order)
    [] k = "ResetMessage"         -> WriteResetMessage(m)
    [] k = "ErrorMessage"         -> WriteErrorMessage(m)
    [] k = "SensorRequestMessage" -> WriteSensorRequestMessage(m)

ByteSize(k, m) ==
  CASE k = "HandshakeInitMessage" -> SizeHandshakeInitMessage(m)
    [] k = "HandshakeMessage"     -> SizeHandshakeMessage(m)
    [] k = "ControlMessage"       -> SizeControlMessage(m)
    [] k = "SensorMessage"        -> SizeSensorMessage(m)
    [] k = "ResetMessage"         -> SizeResetMessage(m)
    [] k = "ErrorMessage"         -> SizeErrorMessage(m)
    [] k = "SensorRequestMessage" -> SizeSensorRequestMessage(m)

Merge(k, to, from) ==
  CASE k = "HandshakeInitMessage" -> MergeHandshakeInitMessage(to, from)
    [] k = "HandshakeMessage"     -> MergeHandshakeMessage(to, from)
    [] k = "ControlMessage"       -> MergeControlMessage(to, from)
    [] k = "SensorMessage"        -> MergeSensorMessage(to, from)
    [] k = "ResetMessage"         -> MergeResetMessage(to, from)
    [] k = "ErrorMessage"         -> MergeErrorMessage(to, from)
    [] k = "SensorRequestMessage" -> MergeSensorRequestMessage(to, from)

Edits(k, m) ==
  CASE k = "HandshakeMessage" -> EditsHandshakeMessage(m)
    [] k = "ControlMessage"   -> EditsControlMessage(m)
    [] k = "SensorMessage"    -> EditsSensorMessage(m)
    [] k = "ErrorMessage"     -> EditsErrorMessage(m)
    [] OTHER                  -> {}
------------------------------------------------------------------------------
Init == /\ kind = NoKind /\ pm = <<>> /\ edits = 0
        /\ frame = NoFrame /\ damaged = FALSE /\ got = NoMessage

(* The builder() functions of C++. *)
HandshakeInitMessageBuilder ==
  [NewHandshakeInitMessage EXCEPT !.messageType = TypeNumber["HandshakeInitMessage"],
                                  !.version = CurrentVersion]

HandshakeMessageBuilder ==
  [NewHandshakeMessage EXCEPT !.messageType = TypeNumber["HandshakeMessage"],
                              !.version = CurrentVersion]

ControlMessageBuilder == [NewControlMessage EXCEPT !.messageType = TypeNumber["ControlMessage"]]

SensorMessageBuilder == [NewSensorMessage EXCEPT !.messageType = TypeNumber["SensorMessage"]]

ResetMessageBuilder == [NewResetMessage EXCEPT !.messageType = TypeNumber["ResetMessage"]]

ErrorMessageBuilder == [NewErrorMessage EXCEPT !.messageType = TypeNumber["ErrorMessage"]]

SensorRequestMessageBuilder ==
  [NewSensorRequestMessage EXCEPT !.messageType = TypeNumber["SensorRequestMessage"]]

Builder(k) ==
  CASE k = "HandshakeInitMessage" -> HandshakeInitMessageBuilder
    [] k = "HandshakeMessage"     -> HandshakeMessageBuilder
    [] k = "ControlMessage"       -> ControlMessageBuilder
    [] k = "SensorMessage"        -> SensorMessageBuilder
    [] k = "ResetMessage"         -> ResetMessageBuilder
    [] k = "ErrorMessage"         -> ErrorMessageBuilder
    [] k = "SensorRequestMessage" -> SensorRequestMessageBuilder

(* _create_message() of Python asks each class whether it has a version.   *)
CreateMessage(k) ==
  LET versioned == IF "version" \in DOMAIN New(k) THEN [New(k) EXCEPT !.version = CurrentVersion]
                   ELSE New(k)
  IN  [versioned EXCEPT !.messageType = TypeNumber[k]]

Create(k) == /\ kind = NoKind
             /\ kind' = k
             /\ pm' \in {Builder(k), CreateMessage(k)}
             /\ UNCHANGED <<edits, frame, damaged, got>>

(* One call of the classes the builders are made of. *)
Edit == /\ kind # NoKind /\ frame = NoFrame
        /\ edits < MaxEdits
        /\ pm' \in Edits(kind, pm)
        /\ edits' = edits + 1
        /\ UNCHANGED <<kind, frame, damaged, got>>

SerializeToBytes(order) == /\ kind # NoKind /\ frame = NoFrame
                           /\ frame' = Write(kind, pm, order)
                           /\ UNCHANGED <<kind, pm, edits, damaged, got>>

Damage == /\ frame # NoFrame /\ ~damaged /\ got = NoMessage
          /\ frame' \in Cuts(frame, Garbage) \cup {Padded(frame)}
          /\ damaged' = TRUE
          /\ UNCHANGED <<kind, pm, edits, got>>
------------------------------------------------------------------------------
(* The types one may find at the head of the bytes.  A type that is cut    *)
(* short is read out of the buffer each time anew.                         *)
PeekedTypes(bytes) ==
  IF bytes # <<>> /\ bytes[1].tag = 8 /\ ~bytes[1].whole THEN Garbage
  ELSE {Parse("Message", New("Message"), bytes).msg.messageType}

(* Mutant: two cases of the switch make each other's message. *)
KindsOfSwapped(type) ==
  {k \in Kinds : TypeNumber[k] = IF type = 1 THEN 3 ELSE IF type = 3 THEN 1 ELSE type}

KindsOf(type) == {k \in Kinds : TypeNumber[k] = type}

(* Mutant: the message that was parsed for its type is what is wrapped. *)
ReceivedPeeked(from, k, bytes) ==
  LET r == Parse("Message", New("Message"), bytes)
  IN  [from |-> from, kind |-> k, msg |-> r.msg, ok |-> r.ok, cast |-> NoKind]

Received(from, k, bytes) ==
  LET r == Parse(k, New(k), bytes)
  IN  [from |-> from, kind |-> k, msg |-> r.msg, ok |-> r.ok, cast |-> NoKind]

Unread == frame # NoFrame /\ got = NoMessage /\ UNCHANGED <<kind, pm, edits, frame, damaged>>

(* Whether ParseFromString() succeeded is not looked at; a type nobody     *)
(* knows throws.                                                           *)
CppFromBytes == /\ Unread
                /\ \E type \in PeekedTypes(frame) :
                     IF KindsOf(type) = {} THEN got' = Raised("cpp")
                     ELSE \E k \in KindsOf(type) : got' = Received("cpp", k, frame)

(* ParseFromString() of Python raises where that of C++ returns false, and *)
(* so does a type that is not in _mdict.                                   *)
PyFromBytes ==
  /\ Unread
  /\ LET peeked == Parse("Message", New("Message"), frame)
         kinds  == {k \in KindsOf(peeked.msg.messageType) : Parse(k, New(k), frame).ok}
     IN  IF peeked.ok /\ kinds # {} THEN \E k \in kinds : got' = Received("py", k, frame)
         ELSE got' = Raised("py")

(* Of the files that are not what they are read as, only whole ones.       *)
FromIStream(k) == /\ Unread
                  /\ k = kind \/ (~damaged /\ kind \in {"SensorMessage", "HandshakeMessage"})
                  /\ got' = Received("stream", k, frame)

SensorMessageFromIStream == FromIStream("SensorMessage")

HandshakeMessageFromIStream == FromIStream("HandshakeMessage")

(* toSensorMessage() and toHandshakeMessage() look at nothing; a caller    *)
(* that asks messageType() first relies on its answer.                     *)
Cast(k) == /\ got.from \in {"cpp", "stream"} /\ got.kind # NoKind /\ got.cast = NoKind
           /\ got.msg.messageType = TypeNumber[k]
           /\ got' = [got EXCEPT !.cast = k]
           /\ UNCHANGED <<kind, pm, edits, frame, damaged>>

ToSensorMessage == Cast("SensorMessage")

ToHandshakeMessage == Cast("HandshakeMessage")

Next == \/ \E k \in Kinds : Create(k)
        \/ Edit
        \/ \E order \in Orders : SerializeToBytes(order)
        \/ Damage
        \/ CppFromBytes \/ PyFromBytes
        \/ SensorMessageFromIStream \/ HandshakeMessageFromIStream
        \/ ToSensorMessage \/ ToHandshakeMessage

Spec == Init /\ [][Next]_vars
------------------------------------------------------------------------------
(* Every variable keeps its type: a message is one that its class can be,  *)
(* and a reader was given bytes.                                           *)
TypeOK ==
  /\ kind \in Kinds \cup {NoKind} /\ edits \in 0..MaxEdits /\ damaged \in BOOLEAN
  /\ kind # NoKind => DOMAIN pm = DOMAIN New(kind) /\ pm.unknown = <<>>
  /\ got.from \in {"nothing", "cpp", "py", "stream"} /\ got.cast \in Kinds \cup {NoKind}
  /\ got.kind # NoKind => DOMAIN got.msg = DOMAIN New(got.kind) /\ frame # NoFrame
  /\ damaged => frame # NoFrame

(* The strings in a frame, at whatever depth Messaging.proto nests them.   *)
Nesting == 6

Strings(items) ==
  LET level[n \in 0..Nesting] ==
        IF n = 0 THEN Range(items) ELSE UNION {Range(it.sub) : it \in level[n - 1]}
  IN  {it.str : it \in UNION {level[n] : n \in 0..Nesting}}

(* Whatever is built, in either library, is what either library reads: no  *)
(* field is lost, misplaced or taken for another one, whatever order its   *)
(* maps are written in, provided that all strings in it are UTF-8.         *)
ReadsWhatWasSent ==
  got.from \in {"cpp", "py"} /\ ~damaged /\ Strings(frame) \cap NotUtf8 = {}
    => got.kind = kind /\ got.msg = pm

(* What is read, also of bytes that are damaged or whose strings are not   *)
(* UTF-8, is of the kind that was sent, if only the type arrived.  The     *)
(* HandshakeInitMessage, whose type is the default, cannot be cut so that  *)
(* it is taken for another.                                                *)
TypeArrived == kind = "HandshakeInitMessage" \/ (frame # <<>> /\ frame[1].whole)

KindSurvives ==
  /\ got.from = "cpp" /\ TypeArrived => got.kind = kind
  /\ got.from = "py" => got.kind \in {kind, NoKind} \/ ~TypeArrived

(* ParseFromString() may stop anywhere without anybody noticing, but never *)
(* leaves a robot with half of its values: an object is as it was sent, or *)
(* it has nothing in it.                                                   *)
NoHalfObject ==
  got.kind = kind /\ "objects" \in DOMAIN pm
    => \A name \in DOMAIN got.msg.objects :
         \/ name \in DOMAIN pm.objects /\ got.msg.objects[name] = pm.objects[name]
         \/ damaged /\ \A f \in DOMAIN got.msg.objects[name] : DOMAIN got.msg.objects[name][f] = {}

(* ByteSizeLong(), which the lengths in front of nested messages and the   *)
(* size of the buffer come from, is what is then written, for messages     *)
(* that were made and for messages that were read.                         *)
SizesAgree ==
  \A order \in Orders :
    /\ kind # NoKind /\ frame = NoFrame => ByteSize(kind, pm) = Bytes(Write(kind, pm, order))
    /\ got.from = "stream" => ByteSize(got.kind, got.msg) = Bytes(Write(got.kind, got.msg, order))

(* To parse the bytes of one message into another is to merge the two, and *)
(* a copy, which is a merge with a new message, has everything the         *)
(* original has: of the message and of every message within it.            *)
Merges(messages, Step(_, _), Bytes_(_), Merge_(_, _)) ==
  \A to, from \in messages : LET r == ParseItems(Step, to, Bytes_(from))
                             IN  r.ok => r.msg = Merge_(to, from)

MergeIsParse ==
  LET order     == CHOOSE o \in Orders : TRUE
      Objects   == Range(pm.objects)
      Lists     == UNION {Range(o.sensors) : o \in Objects}
      Sensors   == (UNION {Range(o.objectSensors) : o \in Objects})
                     \cup UNION {Range(list.sensor) : list \in Lists}
      Messages  == {New(kind), pm} \cup Edits(kind, New(kind))
      OfSensor  ==
        /\ Merges({NewSensorMessage_Object} \cup Objects, ParseSensorMessage_Object,
                  LAMBDA m : WriteSensorMessage_Object(m, order), MergeSensorMessage_Object)
        /\ Merges({NewSensorMessage_Sensors} \cup Lists, ParseSensorMessage_Sensors,
                  WriteSensorMessage_Sensors, MergeSensorMessage_Sensors)
        /\ Merges({NewSensorMessage_Sensor} \cup Sensors, ParseSensorMessage_Sensor,
                  WriteSensorMessage_Sensor, MergeSensorMessage_Sensor)
        /\ Merges({NewSensorMessage_Vec3} \cup {sensor.vec : sensor \in Sensors}
                    \cup UNION {Range(o.forceSensors) : o \in Objects},
                  ParseSensorMessage_Vec3, WriteSensorMessage_Vec3, MergeSensorMessage_Vec3)
      OfHandshake ==
        /\ Merges({NewHandshakeMessage_Object} \cup Objects, ParseHandshakeMessage_Object,
                  LAMBDA m : WriteHandshakeMessage_Object(m, order), MergeHandshakeMessage_Object)
        /\ Merges({NewHandshakeMessage_Sensors} \cup Lists, ParseHandshakeMessage_Sensors,
                  WriteHandshakeMessage_Sensors, MergeHandshakeMessage_Sensors)
      OfControl ==
        Merges({NewControlMessage_Object} \cup Objects, ParseControlMessage_Object,
               LAMBDA m : WriteControlMessage_Object(m, order), MergeControlMessage_Object)
  IN  kind # NoKind /\ frame = NoFrame =>
        /\ kind = "SensorMessage"    => OfSensor
        /\ kind = "HandshakeMessage" => OfHandshake
        /\ kind = "ControlMessage"   => OfControl
        /\ \A to \in IF edits <= 1 THEN Messages ELSE {New(kind), pm} :
             LET r == Parse(kind, to, Write(kind, pm, order))
             IN  r.ok => r.msg = Merge(kind, to, pm)

(* A caller that asks messageType() before it casts has an object of that  *)
(* class in its hands, unless the bytes ended within the type.             *)
CheckedCastIsDefined ==
  got.from = "cpp" /\ got.cast # NoKind /\ TypeArrived => got.kind = got.cast
==============================================================================
