------------------------ MODULE SerializationProofs ------------------------
(***************************************************************************)
(* Theorems about Serialization, for all messages, of whatever length and  *)
(* with whatever in them.  What a class writes has its type in front and   *)
(* nowhere else, and damage moves no type to where there was none; what a  *)
(* parser makes of its items is found by induction over them.  The second  *)
(* half is the round trip: kind of field by kind of field, then class by   *)
(* class, what was written leads the parser to what it was written from.   *)
(***************************************************************************)
EXTENDS Serialization, FiniteSetTheorems, TLAPS

(* Messages that were made. *)

(* Classes that have objects. *)
HasObjects == {"HandshakeMessage", "ControlMessage", "SensorMessage"}

(* All that is needed of a sequence: what its domain is. *)
IsSequence(s) == \E n \in Nat : DOMAIN s = 1..n

(* What is true of a message that was made and edited. *)
Made(k, m) ==
  /\ DOMAIN m = DOMAIN New(k) /\ m.unknown = <<>> /\ m.messageType = TypeNumber[k]
  /\ k \in HasObjects => IsFiniteSet(DOMAIN m.objects)
  /\ k = "HandshakeMessage" => IsSequence(m.simSettings)
  /\ k = "SensorMessage" => IsSequence(m.simVars)

(* Builders and factories make such messages. *)
LEMMA CreateMade ==
  ASSUME NEW k \in Kinds
  PROVE  \A m \in {Builder(k), CreateMessage(k)} : Made(k, m)
<1> USE FS_EmptySet DEF Made, IsSequence, HasObjects, Kinds, TypeNumber, CurrentVersion, NoEntries
<1>1. Made(k, Builder(k))
  <2> USE DEF Builder, New
  <2>1. CASE k = "HandshakeInitMessage"
    BY <2>1 DEF HandshakeInitMessageBuilder, NewHandshakeInitMessage
  <2>2. CASE k = "HandshakeMessage"
    <3>1. Builder(k) = [NewHandshakeMessage EXCEPT !.messageType = 1, !.version = 1]
      BY <2>2 DEF HandshakeMessageBuilder
    <3>2. Builder(k) = [messageType |-> 1, version |-> 1, controlType |-> 0, objects |-> NoEntries,
                       simSettings |-> <<>>, unknown |-> <<>>]
      BY <3>1 DEF NewHandshakeMessage
    <3>3. IsSequence(<<>>)
      OBVIOUS
    <3>4. IsSequence(Builder(k).simSettings)
      BY <3>2, <3>3
    <3> HIDE DEF IsSequence
    <3> QED BY <2>2, <3>2, <3>4 DEF NewHandshakeMessage
  <2>3. CASE k = "ControlMessage"
    BY <2>3 DEF ControlMessageBuilder, NewControlMessage
  <2>4. CASE k = "SensorMessage"
    BY <2>4 DEF SensorMessageBuilder, NewSensorMessage
  <2>5. CASE k = "ResetMessage"
    BY <2>5 DEF ResetMessageBuilder, NewResetMessage
  <2>6. CASE k = "ErrorMessage"
    BY <2>6 DEF ErrorMessageBuilder, NewErrorMessage
  <2>7. CASE k = "SensorRequestMessage"
    BY <2>7 DEF SensorRequestMessageBuilder, NewSensorRequestMessage
  <2> QED
    BY <2>1, <2>2, <2>3, <2>4, <2>5, <2>6, <2>7
<1>2. Made(k, CreateMessage(k))
  <2> USE DEF CreateMessage, New, NewHandshakeInitMessage, NewHandshakeMessage, NewControlMessage,
              NewSensorMessage, NewResetMessage, NewErrorMessage, NewSensorRequestMessage
  <2>1. CASE k = "HandshakeInitMessage"
    BY <2>1
  <2>2. CASE k = "HandshakeMessage"
    BY <2>2
  <2>3. CASE k = "ControlMessage"
    BY <2>3
  <2>4. CASE k = "SensorMessage"
    BY <2>4
  <2>5. CASE k \in {"ResetMessage", "ErrorMessage", "SensorRequestMessage"}
    BY <2>5
  <2> QED
    BY <2>1, <2>2, <2>3, <2>4, <2>5
<1> QED
  BY <1>1, <1>2

(* Which fields the classes have. *)
LEMMA FieldsOfNew ==
  ASSUME NEW k \in Kinds
  PROVE  /\ {"messageType", "unknown"} \subseteq DOMAIN New(k)
         /\ k \in HasObjects => "objects" \in DOMAIN New(k)
         /\ k = "HandshakeMessage" => "simSettings" \in DOMAIN New(k)
         /\ k = "SensorMessage" => "simVars" \in DOMAIN New(k)
BY DEF New, Kinds, TypeNumber, HasObjects, NewHandshakeInitMessage, NewHandshakeMessage,
   NewControlMessage, NewSensorMessage, NewResetMessage, NewErrorMessage, NewSensorRequestMessage

(* An assignment to a field that is not the type leaves one. *)
LEMMA FieldEdited ==
  ASSUME NEW k \in Kinds, NEW m, Made(k, m), NEW f, NEW x, NEW m2,
         f \notin {"messageType", "unknown"}, m2 = [m EXCEPT ![f] = x],
         f = "objects" => IsFiniteSet(DOMAIN x),
         f \in {"simSettings", "simVars"} => IsSequence(x)
  PROVE  Made(k, m2)
<1>1. DOMAIN m2 = DOMAIN m /\ \A g \in DOMAIN m : m2[g] = IF g = f THEN x ELSE m[g]
  OBVIOUS
<1> QED BY <1>1, FieldsOfNew DEF Made

(* Maps stay finite. *)
LEMMA EntryEdited ==
  ASSUME NEW map, IsFiniteSet(DOMAIN map), NEW key, NEW x
  PROVE  IsFiniteSet(DOMAIN (With(map, key, x)))
<1>1. DOMAIN (With(map, key, x)) = DOMAIN map \cup {key}
  BY DEF With
<1> QED BY <1>1, FS_AddElement

(* Accessor calls of the classes make such messages of such messages. *)
LEMMA EditsMade ==
  ASSUME NEW k \in Kinds, NEW m, Made(k, m), NEW m2 \in Edits(k, m)
  PROVE  Made(k, m2)
<1>1. ASSUME NEW new, NEW S, k \in HasObjects,
             m2 \in UNION {{[m EXCEPT !["objects"] = With(@, key, y)] : y \in S[key]} :
                            key \in Text}
      PROVE  Made(k, m2)
  <2>1. PICK key, y : m2 = [m EXCEPT !["objects"] = With(m["objects"], key, y)]
    BY <1>1
  <2>2. IsFiniteSet(DOMAIN m["objects"])
    BY <1>1 DEF Made
  <2>3. IsFiniteSet(DOMAIN With(m["objects"], key, y))
    BY <2>2, EntryEdited
  <2>4. "objects" \notin {"messageType", "unknown"} /\ "objects" \notin {"simSettings", "simVars"}
    OBVIOUS
  <2> QED BY <2>1, <2>3, <2>4, FieldEdited
<1>2. ASSUME NEW f \in {"simSettings", "simVars"}, NEW S, m2 \in {[m EXCEPT ![f] = <<y>>] : y \in S}
      PROVE  Made(k, m2)
  <2>1. PICK y : m2 = [m EXCEPT ![f] = <<y>>]
    BY <1>2
  <2>2. IsSequence(<<y>>)
    BY DEF IsSequence
  <2> QED BY <2>1, <2>2, FieldEdited
<1>3. CASE k = "HandshakeMessage"
  <2>1. CASE m2 \in SetTo(m, "controlType", Numbers)
    BY <2>1, FieldEdited DEF SetTo
  <2>2. CASE m2 \in EditEntry(m, "objects", NewHandshakeMessage_Object,
                               EditsHandshakeMessage_Object)
    <3> DEFINE X(key) == IF key \in DOMAIN m["objects"] THEN m["objects"][key]
                         ELSE NewHandshakeMessage_Object
               S == [key \in Text |-> {X(key)} \cup EditsHandshakeMessage_Object(X(key))]
    <3>1. m2 \in UNION {{[m EXCEPT !["objects"] = With(@, key, y)] : y \in S[key]} : key \in Text}
      BY <2>2 DEF EditEntry
    <3> HIDE DEF S
    <3> QED BY <1>1, <1>3, <3>1 DEF HasObjects
  <2>3. CASE m2 \in EditMessage(m, "simSettings", NewHandshakeMessage_SimulationSettings,
                     EditsHandshakeMessage_SimulationSettings)
    BY <1>2, <2>3 DEF EditMessage
  <2> QED BY <1>3, <2>1, <2>2, <2>3 DEF Edits, EditsHandshakeMessage
<1>4. CASE k = "ControlMessage"
  <2> DEFINE X(key) == IF key \in DOMAIN m["objects"] THEN m["objects"][key]
                       ELSE NewControlMessage_Object
             S == [key \in Text |-> {X(key)} \cup EditsControlMessage_Object(X(key))]
  <2>1. m2 \in UNION {{[m EXCEPT !["objects"] = With(@, key, y)] : y \in S[key]} : key \in Text}
    BY <1>4 DEF EditEntry, Edits, EditsControlMessage
  <2> HIDE DEF S
  <2> QED BY <1>1, <1>4, <2>1 DEF HasObjects
<1>5. CASE k = "SensorMessage"
  <2>1. CASE m2 \in EditEntry(m, "objects", NewSensorMessage_Object, EditsSensorMessage_Object)
    <3> DEFINE X(key) == IF key \in DOMAIN m["objects"] THEN m["objects"][key]
                         ELSE NewSensorMessage_Object
               S == [key \in Text |-> {X(key)} \cup EditsSensorMessage_Object(X(key))]
    <3>1. m2 \in UNION {{[m EXCEPT !["objects"] = With(@, key, y)] : y \in S[key]} : key \in Text}
      BY <2>1 DEF EditEntry
    <3> HIDE DEF S
    <3> QED BY <1>1, <1>5, <3>1 DEF HasObjects
  <2>2. CASE m2 \in EditMessage(m, "simVars", NewSensorMessage_SimulationVariables,
                     EditsSensorMessage_SimulationVariables)
    BY <1>2, <2>2 DEF EditMessage
  <2> QED BY <1>5, <2>1, <2>2 DEF Edits, EditsSensorMessage
<1>6. CASE k = "ErrorMessage"
  <2>1. PICK f, x : f \in {"error", "errormessage"} /\ m2 = [m EXCEPT ![f] = x]
    BY <1>6 DEF Edits, EditsErrorMessage, SetTo
  <2> QED BY <2>1, FieldEdited
<1>7. CASE k \notin {"HandshakeMessage", "ControlMessage", "SensorMessage", "ErrorMessage"}
  BY <1>7 DEF Edits
<1> QED BY <1>3, <1>4, <1>5, <1>6, <1>7
------------------------------------------------------------------------------
(* What is written. *)

(* Items have tags, and did or did not arrive as a whole. *)
IsItem(it) == {"tag", "whole"} \subseteq DOMAIN it

(* What stands behind the type of a message. *)
Behind(it) == IsItem(it) /\ it.tag \in Nat \ {0, 1, 8}

(* Sequences of items. *)
Items(s) == s \in Seq(Range(s))

(* What a class writes of a field that is not its type. *)
Tagged(s) == Items(s) /\ \A i \in DOMAIN s : Behind(s[i])

(* The type is at the head of a frame and nowhere else. *)
Headed(s, t) ==
  /\ Items(s)
  /\ IF t = 0 THEN \A i \in DOMAIN s : Behind(s[i])
     ELSE /\ 1 \in DOMAIN s /\ IsItem(s[1]) /\ s[1].tag = 8 /\ s[1].num = <<t>>
          /\ \A i \in DOMAIN s : i # 1 => Behind(s[i])

(* Functions on 1..n are sequences. *)
LEMMA ItemsOf ==
  ASSUME NEW s, NEW n \in Nat, s = [i \in 1..n |-> s[i]]
  PROVE  Items(s) /\ Len(s) = n
<1>1. s \in [1..n -> Range(s)]
  BY DEF Range
<1> QED BY <1>1 DEF Items

(* A finite set can be written in an order, whichever it is. *)
LEMMA OrderedDomain ==
  ASSUME NEW S, IsFiniteSet(S), NEW order
  PROVE  \E n \in Nat : DOMAIN Ordered(S, order) = 1..n
<1> DEFINE n == Cardinality(S)
<1>1. n \in Nat /\ \E f \in [1..n -> S] : IsInjective(f)
  BY FS_CardinalityType DEF ExistsBijection, Bijection, Injection
<1>2. SetToSeq(S) \in [1..n -> S]
  BY <1>1 DEF SetToSeq
<1>3. DOMAIN SetToSeq(S) = 1..n /\ Len(SetToSeq(S)) = n
  <2>1. SetToSeq(S) \in Seq(S)
    BY <1>1, <1>2
  <2> QED BY <1>1, <1>2, <2>1
<1>4. DOMAIN Reverse(SetToSeq(S)) = 1..n
  BY <1>3 DEF Reverse
<1> HIDE DEF n
<1> QED BY <1>1, <1>3, <1>4 DEF Ordered

(* What \o does, for sequences of anything. *)
LEMMA Concatenated ==
  ASSUME NEW s, NEW t, Items(s), Items(t)
  PROVE  /\ Items(s \o t) /\ Len(s) \in Nat /\ DOMAIN s = 1..Len(s)
         /\ Len(t) \in Nat /\ DOMAIN t = 1..Len(t)
         /\ DOMAIN (s \o t) = 1..(Len(s) + Len(t))
         /\ \A i \in 1..(Len(s) + Len(t)) :
              (s \o t)[i] = IF i <= Len(s) THEN s[i] ELSE t[i - Len(s)]
<1> DEFINE S == Range(s) \cup Range(t)
<1>1. s \in Seq(S) /\ t \in Seq(S)
  BY DEF Items
<1> HIDE DEF S
<1>2. s \o t \in Seq(S) /\ Len(s \o t) = Len(s) + Len(t)
  BY <1>1
<1>3. Len(s) \in Nat /\ Len(t) \in Nat /\ DOMAIN s = 1..Len(s) /\ DOMAIN t = 1..Len(t)
  BY <1>1
<1>4. DOMAIN (s \o t) = 1..(Len(s) + Len(t))
  BY <1>2, <1>3
<1>5. \A i \in 1..(Len(s) + Len(t)) : (s \o t)[i] = IF i <= Len(s) THEN s[i] ELSE t[i - Len(s)]
  BY <1>1, <1>3
<1>6. Items(s \o t)
  <2> DEFINE u == s \o t
             n == Len(s) + Len(t)
  <2>1. u \in Seq(S) /\ Len(u) = n
    BY <1>2
  <2> HIDE DEF u, n
  <2>2. n \in Nat /\ u = [i \in 1..n |-> u[i]]
    BY <2>1
  <2> QED BY <2>2, ItemsOf DEF u
<1> QED BY <1>3, <1>4, <1>5, <1>6

(* Writing another field leaves the type where it was. *)
LEMMA HeadedConcat ==
  ASSUME NEW s, NEW t, NEW type, Headed(s, type), Tagged(t)
  PROVE  Headed(s \o t, type)
<1> DEFINE u == s \o t
<1>1. Items(s) /\ Items(t)
  BY DEF Headed, Tagged
<1>2. /\ Items(u) /\ Len(s) \in Nat /\ DOMAIN s = 1..Len(s)
      /\ Len(t) \in Nat /\ DOMAIN t = 1..Len(t)
      /\ DOMAIN u = 1..(Len(s) + Len(t))
      /\ \A i \in 1..(Len(s) + Len(t)) : u[i] = IF i <= Len(s) THEN s[i] ELSE t[i - Len(s)]
  BY <1>1, Concatenated
<1>3. \A j \in 1..Len(t) : Behind(t[j])
  BY <1>2 DEF Tagged
<1>4. \A i \in DOMAIN u : i > Len(s) => Behind(u[i])
  <2> SUFFICES ASSUME NEW i \in DOMAIN u, i > Len(s) PROVE Behind(u[i])
    OBVIOUS
  <2>1. u[i] = t[i - Len(s)] /\ i - Len(s) \in 1..Len(t)
    BY <1>2
  <2> QED BY <1>3, <2>1
<1>5. \A i \in DOMAIN u : i <= Len(s) => u[i] = s[i] /\ i \in DOMAIN s
  BY <1>2
<1>6. DOMAIN u = 1..(Len(s) + Len(t)) /\ DOMAIN s \subseteq DOMAIN u
  BY <1>2
<1> SUFFICES Headed(u, type)
  OBVIOUS
<1> HIDE DEF u
<1>7. \A i \in DOMAIN u : i \in Nat
  BY <1>2
<1>8. CASE type = 0
  <2>1. \A i \in DOMAIN s : Behind(s[i])
    BY <1>8 DEF Headed
  <2>2. \A i \in DOMAIN u : Behind(u[i])
    BY <1>2, <1>4, <1>5, <1>7, <2>1
  <2> QED BY <1>2, <1>8, <2>2 DEF Headed
<1>9. CASE type # 0
  <2>1. 1 \in DOMAIN s /\ IsItem(s[1]) /\ s[1].tag = 8 /\ s[1].num = <<type>>
        /\ \A i \in DOMAIN s : i # 1 => Behind(s[i])
    BY <1>9 DEF Headed
  <2>2. 1 \in DOMAIN u /\ u[1] = s[1]
    BY <1>2, <1>5, <1>6, <2>1
  <2>3. \A i \in DOMAIN u : i # 1 => Behind(u[i])
    BY <1>2, <1>4, <1>5, <1>7, <2>1
  <2> QED BY <1>2, <1>9, <2>1, <2>2, <2>3 DEF Headed
<1> QED BY <1>8, <1>9

(* The first field written is the type; the default is not written. *)
LEMMA HeadedType ==
  ASSUME NEW t \in Nat
  PROVE  Headed(If(t # 0, WriteVarint(8, t)), t)
<1>1. CASE t = 0
  BY <1>1 DEF Headed, If, Items
<1>2. CASE t # 0
  <2> DEFINE s == <<WriteVarint(8, t)>>
  <2>1. IsItem(s[1]) /\ s[1].tag = 8 /\ s[1].num = <<t>>
    BY DEF IsItem, WriteVarint, Item
  <2>2. s = [i \in 1..1 |-> s[i]]
    OBVIOUS
  <2> HIDE DEF s
  <2>3. Items(s)
    BY <2>2, ItemsOf
  <2>4. DOMAIN s = {1}
    BY <2>2
  <2> QED BY <1>2, <2>1, <2>3, <2>4 DEF Headed, If, s
<1> QED BY <1>1, <1>2

(* A scalar field is written or not. *)
LEMMA TaggedIf ==
  ASSUME NEW c \in BOOLEAN, NEW it, Behind(it)
  PROVE  Tagged(If(c, it))
<1>1. CASE c
  <2> DEFINE s == <<it>>
  <2>1. s = [i \in 1..1 |-> s[i]] /\ s[1] = it
    OBVIOUS
  <2>2. DOMAIN s = {1}
    OBVIOUS
  <2> HIDE DEF s
  <2> QED BY <1>1, <2>1, <2>2, ItemsOf DEF Tagged, If, s
<1>2. CASE ~c
  BY <1>2 DEF Tagged, If, Items
<1> QED BY <1>1, <1>2

(* A repeated field is written item by item. *)
LEMMA TaggedEach ==
  ASSUME NEW s, NEW n \in Nat, s = [i \in 1..n |-> s[i]], \A i \in 1..n : Behind(s[i])
  PROVE  Tagged(s)
BY ItemsOf DEF Tagged

(* Nothing written disturbs nothing. *)
LEMMA TaggedNothing == Tagged(<<>>)
BY DEF Tagged, Items

(* What is nested stands behind the type. *)
LEMMA SubBehind ==
  ASSUME NEW tag \in {18, 26, 34, 42}, NEW s, NEW n \in Nat, s = [i \in 1..n |-> s[i]],
         \A i \in 1..n : \E items : s[i] = WriteSub(tag, items)
  PROVE  Tagged(s)
<1>1. \A items : Behind(WriteSub(tag, items))
  <2> TAKE items
  <2>1. WriteSub(tag, items).tag = tag /\ {"tag", "whole"} \subseteq DOMAIN WriteSub(tag, items)
    BY DEF WriteSub, Item
  <2>2. tag \in Nat \ {0, 1, 8}
    OBVIOUS
  <2> QED BY <2>1, <2>2 DEF Behind, IsItem
<1> QED BY <1>1, TaggedEach

(* Every class writes its type first, and only its type with that tag. *)
LEMMA WriteHeaded ==
  ASSUME NEW k \in Kinds, NEW m, Made(k, m), NEW order
  PROVE  Headed(Write(k, m, order), TypeNumber[k])
<1> DEFINE type == TypeNumber[k]
           head == If(m.messageType # 0, WriteVarint(8, m.messageType))
<1>1. m.messageType = type /\ m.unknown = <<>> /\ type \in Nat
  BY DEF Made, Kinds, TypeNumber
<1>2. Headed(head, type)
  BY <1>1, HeadedType
<1>3. \A tag \in {16, 24, 26} : \A x : /\ Tagged(If(x # 0, WriteVarint(tag, x)))
                                       /\ Tagged(If(x # "", WriteString(tag, x)))
  <2> TAKE tag \in {16, 24, 26}
  <2> TAKE x
  <2>1. Behind(WriteVarint(tag, x)) /\ Behind(WriteString(tag, x))
    BY DEF WriteVarint, WriteString, Item, IsItem, Behind
  <2>2. (x # 0) \in BOOLEAN /\ (x # "") \in BOOLEAN
    OBVIOUS
  <2> QED BY <2>1, <2>2, TaggedIf
<1>4. Headed(head \o m.unknown, type)
  BY <1>1, <1>2, TaggedNothing, HeadedConcat
<1> HIDE DEF type, head
<1>5. CASE k = "HandshakeInitMessage"
  <2>1. Tagged(If(m.version # 0, WriteVarint(16, m.version)))
    BY <1>3
  <2>2. Headed(head \o If(m.version # 0, WriteVarint(16, m.version)), type)
    BY <1>2, <2>1, HeadedConcat
  <2>3. Headed(head \o If(m.version # 0, WriteVarint(16, m.version)) \o m.unknown, type)
    BY <1>1, <2>2, TaggedNothing, HeadedConcat
  <2> QED BY <1>5, <2>3 DEF Write, WriteHandshakeInitMessage, type, head
<1>6. CASE k \in {"ResetMessage", "SensorRequestMessage"}
  BY <1>4, <1>6 DEF Write, WriteResetMessage, WriteSensorRequestMessage, type, head
<1>7. CASE k = "ErrorMessage"
  <2> DEFINE b == If(m.error # 0, WriteVarint(16, m.error))
             c == If(m.errormessage # "", WriteString(26, m.errormessage))
  <2>1. Tagged(b) /\ Tagged(c)
    BY <1>3
  <2> HIDE DEF b, c
  <2>2. Headed(head \o b \o c \o m.unknown, type)
    BY <1>1, <1>2, <2>1, TaggedNothing, HeadedConcat
  <2> QED BY <1>7, <2>2 DEF Write, WriteErrorMessage, type, head, b, c
<1>8. CASE k = "ControlMessage"
  <2> DEFINE b == WriteMap(18, m.objects, order,
                           LAMBDA v : WriteSub(18, WriteControlMessage_Object(v, order)))
  <2>1. PICK n \in Nat : DOMAIN Ordered(DOMAIN m.objects, order) = 1..n
    BY <1>8, OrderedDomain DEF Made, HasObjects
  <2>2. b = [i \in 1..n |-> b[i]] /\ \A i \in 1..n : \E x : b[i] = WriteSub(18, x)
    BY <2>1 DEF WriteMap
  <2> HIDE DEF b
  <2>3. Tagged(b)
    BY <2>2, SubBehind
  <2>4. Headed(head \o b \o m.unknown, type)
    BY <1>1, <1>2, <2>3, TaggedNothing, HeadedConcat
  <2> QED BY <1>8, <2>4 DEF Write, WriteControlMessage, type, head, b
<1>9. CASE k = "SensorMessage"
  <2> DEFINE b == WriteMap(26, m.objects, order,
                           LAMBDA v : WriteSub(18, WriteSensorMessage_Object(v, order)))
             c == [i \in DOMAIN m.simVars |->
                     WriteSub(34, WriteSensorMessage_SimulationVariables(m.simVars[i]))]
  <2>1. PICK n \in Nat : DOMAIN Ordered(DOMAIN m.objects, order) = 1..n
    BY <1>9, OrderedDomain DEF Made, HasObjects
  <2>2. b = [i \in 1..n |-> b[i]] /\ \A i \in 1..n : \E x : b[i] = WriteSub(26, x)
    BY <2>1 DEF WriteMap
  <2>3. PICK l \in Nat : DOMAIN m.simVars = 1..l
    BY <1>9 DEF Made, IsSequence
  <2>4. c = [i \in 1..l |-> c[i]] /\ \A i \in 1..l : \E x : c[i] = WriteSub(34, x)
    BY <2>3
  <2> HIDE DEF b, c
  <2>5. Tagged(b) /\ Tagged(c)
    BY <2>2, <2>4, SubBehind
  <2>6. Headed(head \o b \o c \o m.unknown, type)
    BY <1>1, <1>2, <2>5, TaggedNothing, HeadedConcat
  <2> QED BY <1>9, <2>6 DEF Write, WriteSensorMessage, type, head, b, c
<1>10. CASE k = "HandshakeMessage"
  <2> DEFINE a == If(m.version # 0, WriteVarint(16, m.version))
             z == If(m.controlType # 0, WriteVarint(24, m.controlType))
             b == WriteMap(34, m.objects, order,
                           LAMBDA v : WriteSub(18, WriteHandshakeMessage_Object(v, order)))
             c == [i \in DOMAIN m.simSettings |->
                     WriteSub(42, WriteHandshakeMessage_SimulationSettings(m.simSettings[i]))]
  <2>0. Tagged(a) /\ Tagged(z)
    BY <1>3
  <2>1. PICK n \in Nat : DOMAIN Ordered(DOMAIN m.objects, order) = 1..n
    BY <1>10, OrderedDomain DEF Made, HasObjects
  <2>2. b = [i \in 1..n |-> b[i]] /\ \A i \in 1..n : \E x : b[i] = WriteSub(34, x)
    BY <2>1 DEF WriteMap
  <2>3. PICK l \in Nat : DOMAIN m.simSettings = 1..l
    BY <1>10 DEF Made, IsSequence
  <2>4. c = [i \in 1..l |-> c[i]] /\ \A i \in 1..l : \E x : c[i] = WriteSub(42, x)
    BY <2>3
  <2> HIDE DEF a, z, b, c
  <2>5. Tagged(b) /\ Tagged(c)
    BY <2>2, <2>4, SubBehind
  <2>6. Headed(head \o a \o z, type)
    BY <1>2, <2>0, HeadedConcat
  <2>7. Headed(head \o a \o z \o b \o c, type)
    BY <2>5, <2>6, HeadedConcat
  <2>8. Headed(head \o a \o z \o b \o c \o m.unknown, type)
    BY <1>1, <2>7, TaggedNothing, HeadedConcat
  <2> QED BY <1>10, <2>8 DEF Write, WriteHandshakeMessage, type, head, a, z, b, c
<1> QED BY <1>5, <1>6, <1>7, <1>8, <1>9, <1>10 DEF Kinds, TypeNumber, type
------------------------------------------------------------------------------
(* What arrives. *)

(* Bytes of a message of that type, whole or damaged: the type is their    *)
(* first item, if they have one, and is not elsewhere.                     *)
Framed(s, type) ==
  /\ Items(s)
  /\ \A i \in DOMAIN s :
       IsItem(s[i]) /\ s[i].tag # 1 /\ (s[i].tag = 8 => i = 1 /\ type # 0)
  /\ type # 0 /\ s # <<>> => s[1].tag = 8 /\ (s[1].whole => s[1].num = <<type>>)

(* Items are numbered from 1. *)
LEMMA ItemsDomain ==
  ASSUME NEW s, Items(s)
  PROVE  Len(s) \in Nat /\ DOMAIN s = 1..Len(s) /\ (s # <<>> => 1 \in DOMAIN s)
<1> DEFINE S == Range(s)
<1>1. s \in Seq(S)
  BY DEF Items
<1> HIDE DEF S
<1> QED BY <1>1

(* Items may be missing at the end, and the last may have been cut. *)
LEMMA ShortenedFramed ==
  ASSUME NEW s, NEW type, Headed(s, type), NEW u, Items(u),
         NEW n \in Nat, DOMAIN u = 1..n, n <= Len(s),
         \A i \in 1..n : u[i] = s[i] \/ (IsItem(u[i]) /\ u[i].tag = s[i].tag /\ u[i].whole = FALSE)
  PROVE  Framed(u, type)
<1>1. DOMAIN s = 1..Len(s) /\ Len(s) \in Nat
  BY ItemsDomain DEF Headed
<1>2. \A i \in DOMAIN s : \/ Behind(s[i])
                          \/ /\ i = 1 /\ type # 0
                             /\ IsItem(s[1]) /\ s[1].tag = 8 /\ s[1].num = <<type>>
  BY DEF Headed
<1>3. \A i \in 1..n : i \in DOMAIN s
  BY <1>1
<1>4. \A i \in 1..n : IsItem(u[i]) /\ u[i].tag = s[i].tag
  BY <1>2, <1>3 DEF Behind
<1>5. \A i \in 1..n : u[i].tag # 1 /\ (u[i].tag = 8 => i = 1 /\ type # 0)
  BY <1>2, <1>3, <1>4 DEF Behind
<1>6. ASSUME type # 0, u # <<>>
      PROVE  u[1].tag = 8 /\ (u[1].whole => u[1].num = <<type>>)
  <2>1. 1 \in 1..n
    BY <1>6, ItemsDomain
  <2>2. s[1].tag = 8 /\ s[1].num = <<type>>
    BY <1>6 DEF Headed
  <2> QED BY <1>4, <2>1, <2>2
<1> QED BY <1>4, <1>5, <1>6 DEF Framed

(* Bytes that are not damaged. *)
LEMMA HeadedFramed ==
  ASSUME NEW s, NEW type, Headed(s, type)
  PROVE  Framed(s, type)
<1>1. Items(s) /\ DOMAIN s = 1..Len(s) /\ Len(s) \in Nat
  BY ItemsDomain DEF Headed
<1> DEFINE n == Len(s)
<1>2. n \in Nat /\ DOMAIN s = 1..n /\ n <= Len(s) /\ \A i \in 1..n : s[i] = s[i]
  BY <1>1
<1> HIDE DEF n
<1> QED BY <1>1, <1>2, ShortenedFramed

(* What SubSeq() does. *)
LEMMA Prefix ==
  ASSUME NEW s, Items(s), NEW n \in 0..Len(s)
  PROVE  /\ Items(SubSeq(s, 1, n)) /\ n \in Nat /\ DOMAIN SubSeq(s, 1, n) = 1..n
         /\ \A i \in 1..n : SubSeq(s, 1, n)[i] = s[i]
<1> DEFINE u == SubSeq(s, 1, n)
           S == Range(s)
<1>1. Len(s) \in Nat /\ n \in Nat
  BY ItemsDomain
<1>2. s \in Seq(S)
  BY DEF Items
<1> HIDE DEF S
<1>3. u \in Seq(S) /\ Len(u) = n /\ \A i \in 1..n : u[i] = s[i]
  BY <1>1, <1>2
<1> HIDE DEF u
<1>4. DOMAIN u = 1..n /\ u = [i \in 1..n |-> u[i]]
  BY <1>3
<1>5. Items(u)
  BY <1>1, <1>4, ItemsOf
<1> QED BY <1>1, <1>3, <1>4, <1>5 DEF u

(* What Append() does. *)
LEMMA Appended ==
  ASSUME NEW s, Items(s), NEW n \in Nat, DOMAIN s = 1..n, NEW x
  PROVE  /\ Items(Append(s, x)) /\ DOMAIN Append(s, x) = 1..(n + 1)
         /\ \A i \in 1..n : Append(s, x)[i] = s[i]
         /\ Append(s, x)[n + 1] = x
<1> DEFINE u == Append(s, x)
           S == Range(s) \cup {x}
<1>1. s \in Seq(S)
  BY DEF Items
<1> HIDE DEF S
<1>2. x \in S
  BY DEF S
<1>3. Len(s) = n
  BY <1>1
<1>4. u \in Seq(S) /\ Len(u) = n + 1 /\ (\A i \in 1..n : u[i] = s[i]) /\ u[n + 1] = x
  BY <1>1, <1>2, <1>3
<1> HIDE DEF u
<1>5. DOMAIN u = 1..(n + 1) /\ u = [i \in 1..(n + 1) |-> u[i]] /\ n + 1 \in Nat
  BY <1>4
<1>6. Items(u)
  BY <1>5, ItemsOf
<1> QED BY <1>4, <1>5, <1>6 DEF u

(* Bytes that end too soon or are padded keep the type where it was. *)
LEMMA DamagedFramed ==
  ASSUME NEW s, NEW type, Headed(s, type),
         NEW u \in Cuts(s, Garbage) \cup {Padded(s)}
  PROVE  Framed(u, type)
<1>1. Items(s) /\ DOMAIN s = 1..Len(s) /\ Len(s) \in Nat
  BY ItemsDomain DEF Headed
<1>2. CASE u \in Prefixes0(s)
  <2>1. PICK n \in 0..(Len(s) - 1) : u = SubSeq(s, 1, n)
    BY <1>2 DEF Prefixes0
  <2>2. n \in 0..Len(s) /\ n <= Len(s)
    BY <1>1, <2>1
  <2> QED BY <1>1, <2>1, <2>2, Prefix, ShortenedFramed
<1>3. ASSUME NEW n \in DOMAIN s, NEW subs, NEW x \in CutShort(s[n], subs, Garbage),
             u = Append(SubSeq(s, 1, n - 1), x)
      PROVE  Framed(u, type)
  <2> DEFINE v == SubSeq(s, 1, n - 1)
  <2>1. n \in Nat \ {0} /\ n - 1 \in Nat /\ n - 1 \in 0..Len(s) /\ n <= Len(s) /\ (n - 1) + 1 = n
    BY <1>1
  <2>2. PICK num, sub : x = Cut(s[n], num, sub)
    BY <1>3 DEF CutShort
  <2>4. IsItem(x) /\ x.tag = s[n].tag /\ x.whole = FALSE
    BY <2>2 DEF IsItem, Cut
  <2>5. Items(v) /\ DOMAIN v = 1..(n - 1) /\ \A i \in 1..(n - 1) : v[i] = s[i]
    BY <1>1, <2>1, Prefix
  <2> HIDE DEF v
  <2>6. Items(u) /\ DOMAIN u = 1..n /\ (\A i \in 1..(n - 1) : u[i] = v[i]) /\ u[n] = x
    <3> DEFINE m == n - 1
    <3>1. m \in Nat /\ DOMAIN v = 1..m /\ u = Append(v, x)
      BY <1>3, <2>1, <2>5 DEF v
    <3>2. m + 1 = n
      BY <2>1
    <3> HIDE DEF m
    <3>3. /\ Items(u) /\ DOMAIN u = 1..(m + 1)
          /\ (\A i \in 1..m : u[i] = v[i]) /\ u[m + 1] = x
      BY <2>5, <3>1, Appended
    <3> QED BY <3>2, <3>3 DEF m
  <2>7. \A i \in 1..n : i \in 1..(n - 1) \/ i = n
    BY <2>1
  <2>8. \A i \in 1..n : u[i] = s[i] \/ (IsItem(u[i]) /\ u[i].tag = s[i].tag /\ u[i].whole = FALSE)
    BY <2>4, <2>5, <2>6, <2>7
  <2> QED BY <2>1, <2>6, <2>8, ShortenedFramed
<1>4. CASE u = Padded(s)
  <2> DEFINE x == Item(0, <<>>, "", <<>>, 0)
             n == Len(s)
  <2>1. IsItem(x) /\ x.tag = 0
    BY DEF Item, IsItem
  <2>2. u = Append(s, x)
    BY <1>4 DEF Padded
  <2> HIDE DEF x
  <2>3. Items(u) /\ DOMAIN u = 1..(n + 1) /\ (\A i \in 1..n : u[i] = s[i]) /\ u[n + 1] = x
    BY <1>1, <2>2, Appended
  <2>4. \A i \in 1..(n + 1) : i \in 1..n \/ i = n + 1
    BY <1>1
  <2>5. Framed(s, type)
    BY HeadedFramed
  <2>6. \A i \in DOMAIN u : IsItem(u[i]) /\ u[i].tag # 1 /\ (u[i].tag = 8 => i = 1 /\ type # 0)
    BY <1>1, <2>1, <2>3, <2>4, <2>5 DEF Framed
  <2>7. ASSUME type # 0
        PROVE  u[1].tag = 8 /\ u[1].num = <<type>>
    <3>1. 1 \in DOMAIN s /\ s[1].tag = 8 /\ s[1].num = <<type>>
      BY <2>7 DEF Headed
    <3> QED BY <1>1, <2>3, <3>1
  <2> QED BY <2>3, <2>6, <2>7 DEF Framed
<1>5. CASE u \in Cuts(s, Garbage) /\ u \notin Prefixes0(s)
  <2>1. PICK n \in DOMAIN s :
          u \in {Append(SubSeq(s, 1, n - 1), cut) :
                   cut \in CutShort(s[n], {<<>>} \cup CutInside(s[n].sub, Garbage), Garbage)}
    BY <1>5 DEF Cuts, CutBetween
  <2> QED BY <1>3, <2>1
<1> QED BY <1>2, <1>4, <1>5
------------------------------------------------------------------------------
(* What is read. *)

(* What ParseItems() does with one item. *)
On(k, r, it) ==
  IF ~r.ok THEN r ELSE IF EndsMessage(it) THEN Parsed(r.msg, FALSE) ELSE Turn(k, r.msg, it)

(* Parsers are folds of this. *)
Reading == INSTANCE Folding WITH Step <- On

(* This is how. *)
LEMMA ParseFolds ==
  ASSUME NEW k, NEW m, NEW items
  PROVE  Parse(k, m, items) = Reading!Fold(k, Parsed(m, TRUE), items)
BY DEF Parse, ParseItems, On, FoldLeft, Reading!Fold, Reading!FoldLeft,
       MapThenFoldSet, Reading!MapThenFoldSet, Max, Reading!Max

(* A parser goes from item to item. *)
LEMMA ParseReads ==
  ASSUME NEW k, NEW m, NEW items, NEW n \in Nat, DOMAIN items = 1..n
  PROVE  \E read : /\ read[0] = [msg |-> m, ok |-> TRUE]
                   /\ \A i \in 1..n : read[i] = On(k, read[i - 1], items[i])
                   /\ Parse(k, m, items) = read[n]
<1>1. PICK read :
        /\ Reading!Folds(k, Parsed(m, TRUE), items, n, read)
        /\ Reading!Fold(k, Parsed(m, TRUE), items) = read[n]
  BY Reading!FoldReads
<1>2. Parse(k, m, items)
        = Reading!Fold(k, Parsed(m, TRUE), items)
  BY ParseFolds
<1>3. \A i \in 0..n :
        read[i] = IF i = 0 THEN [msg |-> m, ok |-> TRUE] ELSE On(k, read[i - 1], items[i])
  BY <1>1 DEF Reading!Folds, Parsed
<1>4. read[0] = [msg |-> m, ok |-> TRUE] /\ \A i \in 1..n : read[i] = On(k, read[i - 1], items[i])
  <2>1. 0 \in 0..n /\ \A i \in 1..n : i \in 0..n /\ i # 0
    OBVIOUS
  <2> QED BY <1>3, <2>1
<1> QED BY <1>1, <1>2, <1>4

(* A message that changes, but not in its type. *)
Keeps(m, m2) == DOMAIN m2 = DOMAIN m /\ m2.messageType = m.messageType

(* Setting another field. *)
LEMMA FieldSet ==
  ASSUME NEW m, NEW f, NEW x, NEW m2, m2 = [m EXCEPT ![f] = x], f # "messageType"
  PROVE  Keeps(m, m2)
BY DEF Keeps

(* Keeping an item nobody recognised. *)
LEMMA UnknownRead ==
  ASSUME NEW m, NEW it
  PROVE  Keeps(m, Unknown(m, it).msg)
<1>1. Unknown(m, it).msg = m \/ \E x : Unknown(m, it).msg = [m EXCEPT !["unknown"] = x]
  BY DEF Unknown, Parsed
<1>2. Keeps(m, m)
  BY DEF Keeps
<1> QED BY <1>1, <1>2, FieldSet

(* Reading another field. *)
LEMMA FieldRead ==
  ASSUME NEW m, NEW it, NEW f, f # "messageType"
  PROVE  /\ Keeps(m, SetNumber(m, f, it).msg)
         /\ Keeps(m, SetString(m, f, it).msg)
         /\ \A r : Keeps(m, Entry(m, f, r, it.whole).msg)
<1>1. Keeps(m, m)
  BY DEF Keeps
<1>2. SetNumber(m, f, it).msg = [m EXCEPT ![f] = it.num[1]]
  BY DEF SetNumber, Parsed
<1>3. SetString(m, f, it).msg = [m EXCEPT ![f] = it.str]
  BY DEF SetString, Parsed
<1>5. \A r : Entry(m, f, r, it.whole).msg = m
               \/ \E x : Entry(m, f, r, it.whole).msg = [m EXCEPT ![f] = x]
  BY DEF Entry, Parsed
<1>7. Keeps(m, SetNumber(m, f, it).msg) /\ Keeps(m, SetString(m, f, it).msg)
  BY <1>2, <1>3, FieldSet
<1>8. \A r : Keeps(m, Entry(m, f, r, it.whole).msg)
  BY <1>1, <1>5, FieldSet
<1> QED BY <1>7, <1>8

(* Reading the type. *)
LEMMA TypeRead ==
  ASSUME NEW m, NEW it, "messageType" \in DOMAIN m
  PROVE  /\ DOMAIN SetNumber(m, "messageType", it).msg = DOMAIN m
         /\ SetNumber(m, "messageType", it).msg.messageType = it.num[1]
BY DEF SetNumber, Parsed

(* One turn of any class changes the type if the item is one, else not. *)
LEMMA TurnKeeps ==
  ASSUME NEW k \in Kinds \cup {"Message"}, NEW m, "messageType" \in DOMAIN m, NEW it
  PROVE  /\ DOMAIN Turn(k, m, it).msg = DOMAIN m
         /\ Turn(k, m, it).msg.messageType = IF it.tag = 8 THEN it.num[1] ELSE m.messageType
<1>1. CASE it.tag = 8
  <2>1. Turn(k, m, it) = SetNumber(m, "messageType", it)
    BY <1>1 DEF Turn, Kinds, TypeNumber, ParseMessage, ParseHandshakeInitMessage,
       ParseHandshakeMessage, ParseControlMessage, ParseSensorMessage, ParseResetMessage,
       ParseErrorMessage, ParseSensorRequestMessage
  <2> QED BY <1>1, <2>1, TypeRead
<1>2. CASE it.tag # 8
  <2> SUFFICES Keeps(m, Turn(k, m, it).msg)
    BY <1>2 DEF Keeps
  <2>1. Keeps(m, Unknown(m, it).msg)
    BY UnknownRead
  <2>2. CASE k = "Message"
    BY <1>2, <2>1, <2>2, FieldRead DEF Turn, ParseMessage
  <2>3. CASE k = "HandshakeInitMessage"
    BY <1>2, <2>1, <2>3, FieldRead DEF Turn, ParseHandshakeInitMessage
  <2>4. CASE k = "HandshakeMessage"
    <3> DEFINE entry == ParseEntry(m, "objects", NewHandshakeMessage_Object,
                          LAMBDA e, x : MessageValue(ParseHandshakeMessage_Object, e, x), it)
               settings == SetMessage(m, "simSettings", NewHandshakeMessage_SimulationSettings,
                                 ParseHandshakeMessage_SimulationSettings, it)
    <3>1. \E r : entry = Entry(m, "objects", r, it.whole)
      BY DEF ParseEntry
    <3>2. \E x : settings.msg = [m EXCEPT !["simSettings"] = x]
      BY DEF SetMessage, Parsed
    <3> HIDE DEF entry, settings
    <3>3. Keeps(m, entry.msg) /\ Keeps(m, settings.msg)
      BY <3>1, <3>2, FieldRead, FieldSet
    <3>4. \A f \in {"version", "controlType"} : Keeps(m, SetNumber(m, f, it).msg)
      BY FieldRead
    <3>5. ParseHandshakeMessage(m, it) = CASE it.tag = 8  -> SetNumber(m, "messageType", it)
                                           [] it.tag = 16 -> SetNumber(m, "version", it)
                                           [] it.tag = 24 -> SetNumber(m, "controlType", it)
                                           [] it.tag = 34 -> entry
                                           [] it.tag = 42 -> settings
                                           [] OTHER       -> Unknown(m, it)
      BY DEF ParseHandshakeMessage, entry, settings
    <3>6. Turn(k, m, it) = ParseHandshakeMessage(m, it)
      BY <2>4 DEF Turn
    <3> QED BY <1>2, <2>1, <3>3, <3>4, <3>5, <3>6
  <2>5. CASE k = "ControlMessage"
    <3> DEFINE entry == ParseEntry(m, "objects", NewControlMessage_Object,
                          LAMBDA e, x : MessageValue(ParseControlMessage_Object, e, x), it)
    <3>1. \E r : entry = Entry(m, "objects", r, it.whole)
      BY DEF ParseEntry
    <3> HIDE DEF entry
    <3>3. Keeps(m, entry.msg)
      BY <3>1, FieldRead
    <3>5. ParseControlMessage(m, it) = CASE it.tag = 8  -> SetNumber(m, "messageType", it)
                                         [] it.tag = 18 -> entry
                                         [] OTHER       -> Unknown(m, it)
      BY DEF ParseControlMessage, entry
    <3>6. Turn(k, m, it) = ParseControlMessage(m, it)
      BY <2>5 DEF Turn
    <3> QED BY <1>2, <2>1, <3>3, <3>5, <3>6
  <2>6. CASE k = "SensorMessage"
    <3> DEFINE entry == ParseEntry(m, "objects", NewSensorMessage_Object,
                          LAMBDA e, x : MessageValue(ParseSensorMessage_Object, e, x), it)
               variables == SetMessage(m, "simVars", NewSensorMessage_SimulationVariables,
                                 ParseSensorMessage_SimulationVariables, it)
    <3>1. \E r : entry = Entry(m, "objects", r, it.whole)
      BY DEF ParseEntry
    <3>2. \E x : variables.msg = [m EXCEPT !["simVars"] = x]
      BY DEF SetMessage, Parsed
    <3> HIDE DEF entry, variables
    <3>3. Keeps(m, entry.msg) /\ Keeps(m, variables.msg)
      BY <3>1, <3>2, FieldRead, FieldSet
    <3>5. ParseSensorMessage(m, it) = CASE it.tag = 8  -> SetNumber(m, "messageType", it)
                                        [] it.tag = 26 -> entry
                                        [] it.tag = 34 -> variables
                                        [] OTHER       -> Unknown(m, it)
      BY DEF ParseSensorMessage, entry, variables
    <3>6. Turn(k, m, it) = ParseSensorMessage(m, it)
      BY <2>6 DEF Turn
    <3> QED BY <1>2, <2>1, <3>3, <3>5, <3>6
  <2>7. CASE k \in {"ResetMessage", "SensorRequestMessage"}
    BY <1>2, <2>1, <2>7 DEF Turn, ParseResetMessage, ParseSensorRequestMessage
  <2>8. CASE k = "ErrorMessage"
    BY <1>2, <2>1, <2>8, FieldRead DEF Turn, ParseErrorMessage
  <2> QED BY <2>2, <2>3, <2>4, <2>5, <2>6, <2>7, <2>8 DEF Kinds, TypeNumber
<1> QED BY <1>1, <1>2

(* New messages have the type 0. *)
LEMMA NewType ==
  ASSUME NEW k \in Kinds \cup {"Message"}
  PROVE  "messageType" \in DOMAIN New(k) /\ New(k).messageType = 0
BY DEF New, Kinds, TypeNumber, NewMessage, NewHandshakeInitMessage, NewHandshakeMessage,
   NewControlMessage, NewSensorMessage, NewResetMessage, NewErrorMessage, NewSensorRequestMessage

(* Whatever the bytes, a parser makes a message of its own class. *)
LEMMA ParseKeepsFields ==
  ASSUME NEW k \in Kinds \cup {"Message"}, NEW s, Items(s)
  PROVE  DOMAIN Parse(k, New(k), s).msg = DOMAIN New(k)
<1> DEFINE n == Len(s)
           D == DOMAIN New(k)
<1>1. n \in Nat /\ DOMAIN s = 1..n
  BY ItemsDomain
<1>2. "messageType" \in D
  BY NewType
<1> HIDE DEF n
<1> DEFINE m == New(k)
<1> HIDE DEF m
<1>3. PICK read : /\ read[0] = [msg |-> m, ok |-> TRUE]
                  /\ \A i \in 1..n : read[i] = On(k, read[i - 1], s[i])
                  /\ Parse(k, m, s) = read[n]
  BY <1>1, ParseReads
<1> USE DEF m
<1> DEFINE T == {i \in Nat : i <= n => DOMAIN read[i].msg = D}
<1>5. 0 \in T
  BY <1>3 DEF Parsed
<1>6. ASSUME NEW i \in Nat, i \in T
      PROVE  i + 1 \in T
  <2> SUFFICES ASSUME i + 1 <= n PROVE DOMAIN read[i + 1].msg = D
    OBVIOUS
  <2>1. DOMAIN read[i].msg = D
    BY <1>1, <1>6
  <2>2. read[i + 1] = On(k, read[i], s[i + 1])
    <3>1. i + 1 \in 1..n /\ (i + 1) - 1 = i
      BY <1>1
    <3> QED BY <1>3, <3>1
  <2>3. DOMAIN Turn(k, read[i].msg, s[i + 1]).msg = DOMAIN read[i].msg
    BY <1>2, <2>1, TurnKeeps
  <2> HIDE DEF T
  <2> QED BY <2>1, <2>2, <2>3 DEF On, Parsed
<1> HIDE DEF T
<1>7. T = Nat
  BY <1>5, <1>6, Reading!NatInherits DEF T
<1> QED BY <1>1, <1>3, <1>7 DEF T

(* Every parser finds the type that is in front, also that of another     *)
(* class; a type that is not written is 0.                                 *)
LEMMA ParseReadsType ==
  ASSUME NEW k \in Kinds \cup {"Message"}, NEW s, NEW type \in Nat, Framed(s, type),
         type = 0 \/ (s # <<>> /\ s[1].whole)
  PROVE  Parse(k, New(k), s).msg.messageType = type
<1> DEFINE n == Len(s)
           D == DOMAIN New(k)
           Good(r, i) == /\ DOMAIN r.msg = D
                         /\ r.msg.messageType = IF i = 0 THEN 0 ELSE type
                         /\ i = 0 => r.ok
<1>1. n \in Nat /\ DOMAIN s = 1..n /\ (type # 0 => n # 0)
  BY ItemsDomain DEF Framed
<1>2. "messageType" \in D /\ New(k).messageType = 0
  BY NewType
<1> HIDE DEF n
<1> DEFINE m == New(k)
<1> HIDE DEF m
<1>3. PICK read : /\ read[0] = [msg |-> m, ok |-> TRUE]
                  /\ \A i \in 1..n : read[i] = On(k, read[i - 1], s[i])
                  /\ Parse(k, m, s) = read[n]
  BY <1>1, ParseReads
<1> USE DEF m
<1> DEFINE T == {i \in Nat : i <= n => Good(read[i], i)}
<1>5. 0 \in T
  <2>1. read[0] = [msg |-> New(k), ok |-> TRUE]
    BY <1>3
  <2> QED BY <1>2, <2>1 DEF Parsed
<1>6. ASSUME NEW i \in Nat, i \in T
      PROVE  i + 1 \in T
  <2> DEFINE r == read[i]
             it == s[i + 1]
  <2> SUFFICES ASSUME i + 1 <= n PROVE Good(read[i + 1], i + 1)
    OBVIOUS
  <2>1. Good(r, i)
    BY <1>1, <1>6
  <2>2. read[i + 1] = On(k, r, it) /\ i + 1 \in DOMAIN s
    <3>1. i + 1 \in 1..n /\ (i + 1) - 1 = i /\ i + 1 \in 1..n
      BY <1>1
    <3> QED BY <1>1, <1>3, <3>1
  <2> HIDE DEF T, r, it
  <2>3. /\ DOMAIN Turn(k, r.msg, it).msg = DOMAIN r.msg
        /\ Turn(k, r.msg, it).msg.messageType = IF it.tag = 8 THEN it.num[1] ELSE r.msg.messageType
    BY <1>2, <2>1, TurnKeeps
  <2>4. it.tag = 8 => i = 0 /\ type # 0
    BY <2>2 DEF Framed, it
  <2>5. CASE i = 0 /\ type # 0
    <3>1. s # <<>> /\ s[1].whole
      BY <2>5
    <3>2. s[1].tag = 8 /\ s[1].num = <<type>>
      BY <2>5, <3>1 DEF Framed
    <3>3. it.tag = 8 /\ it.num[1] = type
      BY <2>5, <3>2 DEF it
    <3>4. ~EndsMessage(it)
      BY <3>3 DEF EndsMessage
    <3>5. On(k, r, it) = Turn(k, r.msg, it)
      BY <2>1, <2>5, <3>4 DEF On
    <3> QED BY <2>1, <2>2, <2>3, <2>5, <3>3, <3>5
  <2>6. CASE ~(i = 0 /\ type # 0)
    <3>1. it.tag # 8 /\ r.msg.messageType = type
      BY <2>1, <2>4, <2>6
    <3>2. On(k, r, it).msg = r.msg \/ On(k, r, it).msg = Turn(k, r.msg, it).msg
      BY DEF On, Parsed
    <3> QED BY <2>1, <2>2, <2>3, <3>1, <3>2
  <2> QED BY <2>5, <2>6
<1> HIDE DEF T
<1>7. T = Nat
  BY <1>5, <1>6, Reading!NatInherits DEF T
<1>8. Good(read[n], n)
  BY <1>1, <1>7 DEF T
<1> QED BY <1>1, <1>3, <1>8
------------------------------------------------------------------------------
(* The invariant. *)
(* What a reader can have made of some bytes, *)
GotOK(g) ==
  /\ g.from \in {"nothing", "cpp", "py", "stream"}
  /\ g.kind \in Kinds \cup {NoKind} /\ g.cast \in Kinds \cup {NoKind}
  /\ g.kind # NoKind => DOMAIN g.msg = DOMAIN New(g.kind)

(* and of some that hold the type of a k. *)
RightKind(g, k) ==
  /\ g.from = "cpp" => /\ g.kind = k /\ g.msg.messageType = TypeNumber[k]
                       /\ g.cast \in {k, NoKind}
  /\ g.from = "py" => g.kind \in {k, NoKind}

(* The inductive invariant: messages were made, frames have the type of    *)
(* their message in front, and what readers made of them fits.             *)
IInv ==
  /\ kind \in Kinds \cup {NoKind} /\ edits \in 0..MaxEdits /\ damaged \in BOOLEAN
  /\ kind # NoKind => Made(kind, pm)
  /\ frame # NoFrame => kind # NoKind /\ Framed(frame, TypeNumber[kind])
  /\ frame # NoFrame /\ ~damaged => Headed(frame, TypeNumber[kind])
  /\ damaged \/ got # NoMessage => frame # NoFrame
  /\ GotOK(got) /\ (TypeArrived => RightKind(got, kind))

(* Nothing was read yet. *)
LEMMA NothingGot == GotOK(NoMessage) /\ \A k : RightKind(NoMessage, k)
BY DEF GotOK, RightKind, NoMessage, NoKind

(* No two classes have the same number. *)
LEMMA KindsDiffer ==
  /\ NoKind \notin Kinds
  /\ \A k \in Kinds : TypeNumber[k] \in Nat /\ (TypeNumber[k] = 0 <=> k = "HandshakeInitMessage")
  /\ \A k, l \in Kinds : TypeNumber[k] = TypeNumber[l] => k = l
BY DEF NoKind, Kinds, TypeNumber

(* Readers make messages of the class they chose. *)
LEMMA ReceivedOK ==
  ASSUME NEW k \in Kinds, NEW from \in {"cpp", "py", "stream"}, NEW s, Items(s),
         NEW g, g = Received(from, k, s)
  PROVE  /\ GotOK(g) /\ g.from = from /\ g.kind = k /\ g.cast = NoKind
         /\ g.msg = Parse(k, New(k), s).msg
<1>1. /\ g.from = from /\ g.kind = k /\ g.cast = NoKind
      /\ g.msg = Parse(k, New(k), s).msg
  BY DEF Received
<1>2. DOMAIN g.msg = DOMAIN New(k)
  BY <1>1, ParseKeepsFields
<1> QED BY <1>1, <1>2 DEF GotOK

(* Readers that raise make none. *)
LEMMA RaisedOK ==
  ASSUME NEW from \in {"cpp", "py"}, NEW g, g = Raised(from)
  PROVE  GotOK(g) /\ g.from = from /\ g.kind = NoKind
<1>1. g.from = from /\ g.kind = NoKind /\ g.cast = NoKind
  BY DEF Raised, NoMessage
<1> QED BY <1>1 DEF GotOK

(* It holds at the start. *)
LEMMA InitIInv == Init => IInv
<1> SUFFICES ASSUME Init PROVE IInv
  OBVIOUS
<1>1. GotOK(got) /\ RightKind(got, kind)
  BY NothingGot DEF Init
<1>2. 0 \in 0..MaxEdits
  BY SerializationAssumption
<1> QED BY <1>1, <1>2 DEF Init, IInv

(* The type that arrived is what any class reads. *)
LEMMA ArrivedType ==
  ASSUME kind \in Kinds, Framed(frame, TypeNumber[kind]), TypeArrived,
         NEW k \in Kinds \cup {"Message"}
  PROVE  Parse(k, New(k), frame).msg.messageType = TypeNumber[kind]
<1>1. TypeNumber[kind] \in Nat /\ (TypeNumber[kind] = 0 \/ (frame # <<>> /\ frame[1].whole))
  BY KindsDiffer DEF TypeArrived
<1> QED BY <1>1, ParseReadsType

(* No message has the bytes that stand for none. *)
LEMMA FrameMade ==
  ASSUME NEW s, NEW type, Framed(s, type)
  PROVE  s # NoFrame
<1> DEFINE it == Item(1, <<>>, "", <<>>, 0)
<1>1. it.tag = 1
  BY DEF Item
<1> HIDE DEF it
<1>2. 1 \in DOMAIN <<it>> /\ <<it>>[1] = it
  OBVIOUS
<1>3. NoFrame = <<it>>
  BY DEF NoFrame, it
<1> QED BY <1>1, <1>2, <1>3 DEF Framed

(* Every step keeps it. *)
LEMMA NextIInv == IInv /\ [Next]_vars => IInv'
<1> SUFFICES ASSUME IInv, [Next]_vars PROVE IInv'
  OBVIOUS
<1> USE DEF IInv
<1>1. CASE UNCHANGED vars
  BY <1>1 DEF vars, TypeArrived
<1>2. ASSUME NEW k \in Kinds, Create(k)
      PROVE  IInv'
  <2>1. kind' = k /\ frame = NoFrame /\ got = NoMessage /\ ~damaged
        /\ UNCHANGED <<edits, frame, damaged, got>>
    BY <1>2 DEF Create
  <2>2. Made(k, pm')
    BY <1>2, CreateMade DEF Create
  <2> QED BY <2>1, <2>2, NothingGot
<1>3. CASE Edit
  <2>1. kind \in Kinds /\ frame = NoFrame /\ got = NoMessage /\ ~damaged
        /\ edits' \in 0..MaxEdits /\ UNCHANGED <<kind, frame, damaged, got>>
    BY <1>3, SerializationAssumption DEF Edit
  <2>2. Made(kind, pm')
    BY <1>3, <2>1, EditsMade, KindsDiffer DEF Edit
  <2> QED BY <2>1, <2>2, NothingGot
<1>4. ASSUME NEW order \in Orders, SerializeToBytes(order)
      PROVE  IInv'
  <2>1. kind \in Kinds /\ frame = NoFrame /\ got = NoMessage /\ ~damaged
        /\ frame' = Write(kind, pm, order)
        /\ UNCHANGED <<kind, pm, edits, damaged, got>>
    BY <1>4 DEF SerializeToBytes
  <2>2. Headed(frame', TypeNumber[kind])
    BY <2>1, WriteHeaded, KindsDiffer
  <2>3. Framed(frame', TypeNumber[kind])
    BY <2>2, HeadedFramed
  <2> QED BY <2>1, <2>2, <2>3, NothingGot, KindsDiffer
<1>5. CASE Damage
  <2>1. kind \in Kinds /\ got = NoMessage /\ Headed(frame, TypeNumber[kind])
        /\ damaged' = TRUE /\ UNCHANGED <<kind, pm, edits, got>>
    BY <1>5 DEF Damage
  <2>2. Framed(frame', TypeNumber[kind])
    BY <1>5, <2>1, DamagedFramed DEF Damage
  <2> QED BY <2>1, <2>2, FrameMade, NothingGot, KindsDiffer
<1>6. ASSUME Unread, GotOK(got'), TypeArrived => RightKind(got', kind)
      PROVE  IInv'
  BY <1>6 DEF Unread, TypeArrived
<1>7. ASSUME Unread
      PROVE  kind \in Kinds /\ Framed(frame, TypeNumber[kind]) /\ Items(frame)
  BY <1>7 DEF Unread, Framed
<1>8. ASSUME Unread, TypeArrived, NEW type,
             type = Parse("Message", New("Message"), frame).msg.messageType
      PROVE  KindsOf(type) = {kind}
  <2>1. type = TypeNumber[kind]
    BY <1>7, <1>8, ArrivedType
  <2> QED BY <1>7, <1>8, <2>1, KindsDiffer DEF KindsOf
<1>9. CASE CppFromBytes
  <2>1. Unread
    BY <1>9 DEF CppFromBytes
  <2>2. PICK type \in PeekedTypes(frame) :
          IF KindsOf(type) = {} THEN got' = Raised("cpp")
          ELSE \E k \in KindsOf(type) : got' = Received("cpp", k, frame)
    BY <1>9 DEF CppFromBytes
  <2>3. ASSUME TypeArrived PROVE KindsOf(type) = {kind}
    <3>1. ~(frame # <<>> /\ frame[1].tag = 8 /\ ~frame[1].whole)
      BY <1>7, <2>1, <2>3, KindsDiffer, ItemsDomain DEF Framed, TypeArrived
    <3>2. type = Parse("Message", New("Message"), frame).msg.messageType
      BY <2>2, <3>1 DEF PeekedTypes
    <3> QED BY <1>8, <2>1, <2>3, <3>2
  <2>4. CASE KindsOf(type) = {}
    <3>1. got' = Raised("cpp") /\ ~TypeArrived
      BY <2>2, <2>3, <2>4
    <3>2. GotOK(got')
      BY <3>1, RaisedOK
    <3> QED BY <1>6, <2>1, <3>1, <3>2
  <2>5. ASSUME NEW k \in KindsOf(type), got' = Received("cpp", k, frame)
        PROVE  IInv'
    <3>0. k \in Kinds
      BY DEF KindsOf
    <3>1. /\ GotOK(got') /\ got'.from = "cpp" /\ got'.kind = k /\ got'.cast = NoKind
          /\ got'.msg = Parse(k, New(k), frame).msg
      BY <1>7, <2>1, <2>5, <3>0, ReceivedOK
    <3>2. TypeArrived => k = kind /\ got'.msg.messageType = TypeNumber[kind]
      BY <1>7, <2>1, <2>3, <3>0, <3>1, ArrivedType
    <3>3. TypeArrived => RightKind(got', kind)
      BY <3>1, <3>2 DEF RightKind
    <3> QED BY <1>6, <2>1, <3>1, <3>3
  <2> QED BY <2>2, <2>4, <2>5
<1>10. CASE PyFromBytes
  <2> DEFINE peeked == Parse("Message", New("Message"), frame)
             kinds == {k \in KindsOf(peeked.msg.messageType) : Parse(k, New(k), frame).ok}
  <2>1. Unread /\ IF peeked.ok /\ kinds # {} THEN \E k \in kinds : got' = Received("py", k, frame)
                  ELSE got' = Raised("py")
    BY <1>10 DEF PyFromBytes
  <2>2. TypeArrived => KindsOf(peeked.msg.messageType) = {kind}
    BY <1>8, <2>1
  <2>3. \A k \in kinds : k \in Kinds /\ (TypeArrived => k = kind)
    BY <2>2 DEF KindsOf
  <2> HIDE DEF kinds, peeked
  <2>4. CASE got' = Raised("py")
    <3>1. GotOK(got') /\ got'.from = "py" /\ got'.kind = NoKind
      BY <2>4, RaisedOK
    <3> QED BY <1>6, <2>1, <3>1 DEF RightKind
  <2>5. ASSUME NEW k \in kinds, got' = Received("py", k, frame)
        PROVE  IInv'
    <3>1. GotOK(got') /\ got'.from = "py" /\ got'.kind = k
      BY <1>7, <2>1, <2>3, <2>5, ReceivedOK
    <3>2. TypeArrived => RightKind(got', kind)
      BY <2>3, <3>1 DEF RightKind
    <3> QED BY <1>6, <2>1, <3>1, <3>2
  <2> QED BY <2>1, <2>4, <2>5
<1>11. ASSUME NEW k \in Kinds, FromIStream(k)
       PROVE  IInv'
  <2>1. Unread /\ got' = Received("stream", k, frame)
    BY <1>11 DEF FromIStream
  <2>2. GotOK(got') /\ got'.from = "stream"
    BY <1>7, <2>1, ReceivedOK
  <2> QED BY <1>6, <2>1, <2>2 DEF RightKind
<1>12. ASSUME NEW k \in Kinds, Cast(k)
       PROVE  IInv'
  <2>1. /\ got.from \in {"cpp", "stream"} /\ got.kind # NoKind
        /\ got.msg.messageType = TypeNumber[k]
        /\ got' = [got EXCEPT !.cast = k] /\ UNCHANGED <<kind, pm, edits, frame, damaged>>
    BY <1>12 DEF Cast
  <2>2. /\ got'.from = got.from /\ got'.kind = got.kind /\ got'.msg = got.msg
        /\ got'.cast = k \/ got'.cast = got.cast
    BY <2>1
  <2>3. GotOK(got')
    BY <2>2 DEF GotOK
  <2>4. got # NoMessage /\ frame # NoFrame /\ kind \in Kinds
    BY <2>1 DEF NoMessage
  <2>5. TypeArrived => RightKind(got', kind)
    BY <2>1, <2>2, <2>4, KindsDiffer DEF RightKind
  <2> QED BY <2>1, <2>3, <2>4, <2>5 DEF TypeArrived
<1>13. "SensorMessage" \in Kinds /\ "HandshakeMessage" \in Kinds
  BY DEF Kinds, TypeNumber
<1> QED
  BY <1>1, <1>2, <1>3, <1>4, <1>5, <1>9, <1>10, <1>11, <1>12, <1>13
  DEF Next, SensorMessageFromIStream, HandshakeMessageFromIStream,
      ToSensorMessage, ToHandshakeMessage

(* Hence it always holds. *)
LEMMA Invariant == Spec => []IInv
BY InitIInv, NextIInv, PTL DEF Spec

(* Type correctness: whatever bytes a reader is given, damaged ones        *)
(* included, what it makes of them is a message of the class it chose.     *)
THEOREM SerializationTypes == Spec => []TypeOK
<1>1. IInv => TypeOK
  <2> SUFFICES ASSUME IInv PROVE TypeOK
    OBVIOUS
  <2>1. got.kind # NoKind => got # NoMessage
    BY DEF NoMessage
  <2> QED BY <2>1 DEF IInv, TypeOK, GotOK, Made
<1> QED BY <1>1, Invariant, PTL

(* Whatever a message holds, however long it is and whatever happens to    *)
(* the bytes behind its type, fromBytes() of neither library makes a       *)
(* message of another kind of it.                                          *)
THEOREM KindsSurvive == Spec => []KindSurvives
<1>1. IInv => KindSurvives
  BY DEF IInv, KindSurvives, RightKind
<1> QED BY <1>1, Invariant, PTL

(* A caller of the C++ library that asks messageType() before it casts has *)
(* an object of the class it casts to, under the same condition.           *)
THEOREM CastsAreDefined == Spec => []CheckedCastIsDefined
<1>1. IInv => CheckedCastIsDefined
  BY DEF IInv, CheckedCastIsDefined, RightKind
<1> QED BY <1>1, Invariant, PTL
------------------------------------------------------------------------------
(* What a message is that was made: nested messages included. *)

(* A map of the generated code. *)
IsMap(map) == IsFiniteSet(DOMAIN map) /\ map = [k \in DOMAIN map |-> map[k]]

(* One turn of the parser of any class, nested ones included. *)
TurnOf(c, m, it) ==
  CASE c = "HandshakeMessage_Sensors"            -> ParseHandshakeMessage_Sensors(m, it)
    [] c = "HandshakeMessage_Object"             -> ParseHandshakeMessage_Object(m, it)
    [] c = "HandshakeMessage_SimulationSettings" -> ParseHandshakeMessage_SimulationSettings(m, it)
    [] c = "ControlMessage_Object"               -> ParseControlMessage_Object(m, it)
    [] c = "SensorMessage_Vec3"                  -> ParseSensorMessage_Vec3(m, it)
    [] c = "SensorMessage_Sensor"                -> ParseSensorMessage_Sensor(m, it)
    [] c = "SensorMessage_Sensors"               -> ParseSensorMessage_Sensors(m, it)
    [] c = "SensorMessage_Object"                -> ParseSensorMessage_Object(m, it)
    [] c = "SensorMessage_SimulationVariables"   -> ParseSensorMessage_SimulationVariables(m, it)
    [] OTHER                                     -> Turn(c, m, it)

(* The items in s take a parser of class c from message m to m2 without an *)
(* error.                                                                  *)
Leads(c, m, s, m2) ==
  /\ Items(s)
  /\ \E path : /\ path[0] = m /\ path[Len(s)] = m2
               /\ \A i \in 1..Len(s) : /\ ~EndsMessage(s[i])
                                       /\ TurnOf(c, path[i - 1], s[i]) = [msg |-> path[i],
                                                                          ok |-> TRUE]

(* No items, no change. *)
LEMMA LeadsNowhere ==
  ASSUME NEW c, NEW m
  PROVE  Leads(c, m, <<>>, m)
<1>1. Items(<<>>) /\ Len(<<>>) = 0
  BY DEF Items
<1> DEFINE path == [i \in {0} |-> m]
<1>2. path[0] = m /\ path[Len(<<>>)] = m
  BY <1>1
<1>3. \A i \in 1..Len(<<>>) : FALSE
  BY <1>1
<1> HIDE DEF path
<1> QED BY <1>1, <1>2, <1>3 DEF Leads

(* One item. *)
LEMMA LeadsOne ==
  ASSUME NEW c, NEW m, NEW it, NEW m2, ~EndsMessage(it),
         TurnOf(c, m, it) = [msg |-> m2, ok |-> TRUE]
  PROVE  Leads(c, m, <<it>>, m2)
<1> DEFINE s == <<it>>
           path == [i \in {0, 1} |-> IF i = 0 THEN m ELSE m2]
<1>1. s = [i \in 1..1 |-> s[i]] /\ s[1] = it
  OBVIOUS
<1> HIDE DEF s
<1>2. Items(s) /\ Len(s) = 1
  BY <1>1, ItemsOf
<1>3. path[0] = m /\ path[1] = m2
  OBVIOUS
<1> HIDE DEF path
<1>4. \A i \in 1..Len(s) : i = 1 /\ i - 1 = 0
  BY <1>2
<1>5. \A i \in 1..Len(s) : ~EndsMessage(s[i]) /\ TurnOf(c, path[i - 1], s[i]) = [msg |-> path[i],
                                                                                 ok |-> TRUE]
  BY <1>1, <1>3, <1>4
<1>6. Leads(c, m, s, m2)
  BY <1>2, <1>3, <1>5 DEF Leads
<1> QED BY <1>6 DEF s

(* One field after the other. *)
LEMMA LeadsOn ==
  ASSUME NEW c, NEW m, NEW s, NEW m2, NEW t, NEW m3, Leads(c, m, s, m2), Leads(c, m2, t, m3)
  PROVE  Leads(c, m, s \o t, m3)
<1> DEFINE u == s \o t
           n == Len(s)
           l == Len(t)
<1>1. Items(s) /\ Items(t)
  BY DEF Leads
<1>2. /\ Items(u) /\ n \in Nat /\ l \in Nat /\ DOMAIN u = 1..(n + l)
      /\ \A i \in 1..(n + l) : u[i] = IF i <= n THEN s[i] ELSE t[i - n]
  BY <1>1, Concatenated
<1>3. PICK p : /\ p[0] = m /\ p[n] = m2
               /\ \A i \in 1..n : /\ ~EndsMessage(s[i])
                                  /\ TurnOf(c, p[i - 1], s[i]) = [msg |-> p[i], ok |-> TRUE]
  BY DEF Leads
<1>4. PICK q : /\ q[0] = m2 /\ q[l] = m3
               /\ \A i \in 1..l : /\ ~EndsMessage(t[i])
                                  /\ TurnOf(c, q[i - 1], t[i]) = [msg |-> q[i], ok |-> TRUE]
  BY DEF Leads
<1>5. Len(u) = n + l
  <2>1. Len(u) \in Nat /\ DOMAIN u = 1..Len(u)
    BY <1>2, ItemsDomain
  <2> QED BY <1>2, <2>1
<1> HIDE DEF u, n, l
<1> DEFINE path == [i \in 0..(n + l) |-> IF i <= n THEN p[i] ELSE q[i - n]]
<1>6. path[0] = m /\ path[n + l] = m3
  <2>1. 0 \in 0..(n + l) /\ n + l \in 0..(n + l) /\ 0 <= n
    BY <1>2
  <2>2. path[0] = m
    BY <1>3, <2>1
  <2>3. CASE l = 0
    BY <1>2, <1>3, <1>4, <2>1, <2>3
  <2>4. CASE l # 0
    <3>1. ~(n + l <= n) /\ (n + l) - n = l
      BY <1>2, <2>4
    <3> QED BY <1>4, <2>1, <2>2, <3>1
  <2> QED BY <2>3, <2>4
<1>7. ASSUME NEW i \in 1..(n + l)
      PROVE  ~EndsMessage(u[i]) /\ TurnOf(c, path[i - 1], u[i]) = [msg |-> path[i], ok |-> TRUE]
  <2>1. i \in 0..(n + l) /\ i - 1 \in 0..(n + l)
    BY <1>2
  <2>2. CASE i <= n
    <3>1. i \in 1..n /\ u[i] = s[i] /\ path[i] = p[i] /\ path[i - 1] = p[i - 1]
      BY <1>2, <2>1, <2>2
    <3> HIDE DEF path
    <3> QED BY <1>3, <3>1
  <2>3. CASE i = n + 1
    <3>1. 1 \in 1..l /\ u[i] = t[1] /\ path[i] = q[1] /\ path[i - 1] = p[n] /\ 1 - 1 = 0
      BY <1>2, <2>1, <2>3
    <3> HIDE DEF path
    <3> QED BY <1>3, <1>4, <3>1
  <2>4. CASE i > n + 1
    <3>1. /\ i - n \in 1..l /\ u[i] = t[i - n] /\ path[i] = q[i - n]
          /\ path[i - 1] = q[(i - n) - 1]
      BY <1>2, <2>1, <2>4
    <3> HIDE DEF path
    <3> QED BY <1>4, <3>1
  <2> QED BY <1>2, <2>2, <2>3, <2>4
<1> HIDE DEF path
<1>8. Leads(c, m, u, m3)
  BY <1>2, <1>5, <1>6, <1>7 DEF Leads
<1> QED BY <1>8 DEF u

(* What such a parser does with an item. *)
At(c, r, it) ==
  IF ~r.ok THEN r
  ELSE IF EndsMessage(it) THEN [msg |-> r.msg, ok |-> FALSE]
  ELSE TurnOf(c, r.msg, it)

(* Its way, if it gets from m to m2. *)
Way(c, m, s, m2, path) ==
  /\ path[0] = [msg |-> m, ok |-> TRUE]
  /\ path[Len(s)] = [msg |-> m2, ok |-> TRUE]
  /\ \A i \in 1..Len(s) : path[i] = At(c, path[i - 1], s[i])

(* A parser that is led somewhere gets there. *)
LEMMA LeadsThere ==
  ASSUME NEW c, NEW m, NEW s, NEW m2, Leads(c, m, s, m2)
  PROVE  Len(s) \in Nat /\ DOMAIN s = 1..Len(s) /\ \E path : Way(c, m, s, m2, path)
<1> DEFINE n == Len(s)
<1>1. n \in Nat /\ DOMAIN s = 1..n
  BY ItemsDomain DEF Leads
<1>2. PICK p : /\ p[0] = m /\ p[n] = m2
               /\ \A i \in 1..n : /\ ~EndsMessage(s[i])
                                  /\ TurnOf(c, p[i - 1], s[i]) = [msg |-> p[i], ok |-> TRUE]
  BY DEF Leads
<1> HIDE DEF n
<1> DEFINE path == [i \in 0..n |-> [msg |-> p[i], ok |-> TRUE]]
<1>3. \A i \in 0..n : path[i] = [msg |-> p[i], ok |-> TRUE]
  OBVIOUS
<1>4. 0 \in 0..n /\ n \in 0..n /\ \A i \in 1..n : i \in 0..n /\ i - 1 \in 0..n
  BY <1>1
<1> HIDE DEF path
<1>5. ASSUME NEW i \in 1..n PROVE path[i] = At(c, path[i - 1], s[i])
  <2>1. path[i - 1] = [msg |-> p[i - 1], ok |-> TRUE] /\ path[i] = [msg |-> p[i], ok |-> TRUE]
    BY <1>3, <1>4
  <2>2. path[i - 1].ok = TRUE /\ path[i - 1].msg = p[i - 1]
    BY <2>1
  <2>3. ~EndsMessage(s[i]) /\ TurnOf(c, p[i - 1], s[i]) = path[i]
    BY <1>2, <2>1
  <2> QED BY <2>2, <2>3 DEF At
<1>6. path[0] = [msg |-> m, ok |-> TRUE] /\ path[n] = [msg |-> m2, ok |-> TRUE]
  BY <1>2, <1>3, <1>4
<1> QED BY <1>1, <1>5, <1>6 DEF n, Way

(* Fields one by one. *)

(* Messages are records. *)
IsRecord(m) == m = [f \in DOMAIN m |-> m[f]]

(* A field that is written only if it is not the default. *)
LEMMA LeadsIf ==
  ASSUME NEW c, NEW m, NEW it, NEW condition \in BOOLEAN, NEW m2,
         condition => ~EndsMessage(it) /\ TurnOf(c, m, it) = [msg |-> m2, ok |-> TRUE],
         ~condition => m2 = m
  PROVE  Leads(c, m, If(condition, it), m2)
<1>1. CASE condition
  <2>1. Leads(c, m, <<it>>, m2)
    BY <1>1, LeadsOne
  <2> QED BY <1>1, <2>1 DEF If
<1>2. CASE ~condition
  <2>1. Leads(c, m, <<>>, m)
    BY LeadsNowhere
  <2> QED BY <1>2, <2>1 DEF If
<1> QED BY <1>1, <1>2

(* An assignment of what is there already. *)
LEMMA SetAgain ==
  ASSUME NEW m, IsRecord(m), NEW f, NEW x, f \in DOMAIN m => m[f] = x
  PROVE  [m EXCEPT ![f] = x] = m
BY DEF IsRecord

(* A number. *)
LEMMA LeadsNumber ==
  ASSUME NEW c, NEW m, IsRecord(m), NEW f, m[f] = 0, NEW x, NEW it, it.num = <<x>>, it.whole = TRUE,
         ~EndsMessage(it), TurnOf(c, m, it) = SetNumber(m, f, it),
         NEW m2, m2 = [m EXCEPT ![f] = x]
  PROVE  Leads(c, m, If(x # 0, it), m2)
<1>1. it.num[1] = x
  OBVIOUS
<1>2. SetNumber(m, f, it) = [msg |-> m2, ok |-> TRUE]
  BY <1>1 DEF SetNumber, Parsed
<1>3. x = 0 => m2 = m
  BY SetAgain
<1>4. (x # 0) \in BOOLEAN
  OBVIOUS
<1> QED BY <1>2, <1>3, <1>4, LeadsIf

(* A string. *)
LEMMA LeadsString ==
  ASSUME NEW c, NEW m, IsRecord(m), NEW f, m[f] = "", NEW x, NEW it, it.str = x, it.whole = TRUE,
         x # "" => x \notin NotUtf8,
         ~EndsMessage(it), TurnOf(c, m, it) = SetString(m, f, it),
         NEW m2, m2 = [m EXCEPT ![f] = x]
  PROVE  Leads(c, m, If(x # "", it), m2)
<1>2. x # "" => SetString(m, f, it) = [msg |-> m2, ok |-> TRUE]
  BY DEF SetString, Parsed
<1>3. x = "" => m2 = m
  BY SetAgain
<1>4. (x # "") \in BOOLEAN
  OBVIOUS
<1> QED BY <1>2, <1>3, <1>4, LeadsIf

(* Packed numbers. *)
LEMMA LeadsPacked ==
  ASSUME NEW c, NEW m, IsRecord(m), NEW f \in DOMAIN m, m[f] = <<>>, NEW xs, Items(xs),
         NEW it, it.num = xs, it.whole = TRUE,
         ~EndsMessage(it), TurnOf(c, m, it) = AddNumbers(m, f, it),
         NEW m2, m2 = [m EXCEPT ![f] = xs]
  PROVE  Leads(c, m, If(xs # <<>>, it), m2)
<1>1. <<>> \o xs = xs
  <2> DEFINE S == Range(xs)
  <2>1. xs \in Seq(S)
    BY DEF Items
  <2> HIDE DEF S
  <2> QED BY <2>1
<1>2. AddNumbers(m, f, it) = [msg |-> m2, ok |-> TRUE]
  <2>1. m[f] \o it.num = xs
    BY <1>1
  <2>2. [m EXCEPT ![f] = @ \o it.num] = m2
    BY <2>1
  <2> QED BY <2>2 DEF AddNumbers, Parsed
<1>3. xs = <<>> => m2 = m
  BY SetAgain
<1>4. (xs # <<>>) \in BOOLEAN
  OBVIOUS
<1> QED BY <1>2, <1>3, <1>4, LeadsIf

(* The first elements of a sequence, one by one. *)
LEMMA FirstOnes ==
  ASSUME NEW xs, Items(xs)
  PROVE  \E first : /\ first[0] = <<>> /\ first[Len(xs)] = xs
                    /\ \A i \in 1..Len(xs) : Append(first[i - 1], xs[i]) = first[i]
<1> DEFINE n == Len(xs)
           first == [i \in 0..n |-> SubSeq(xs, 1, i)]
<1>1. n \in Nat /\ DOMAIN xs = 1..n
  BY ItemsDomain
<1>3. first[0] = <<>> /\ first[n] = xs
  <2> DEFINE S == Range(xs)
  <2>1. xs \in Seq(S)
    BY DEF Items
  <2> HIDE DEF S
  <2>2. SubSeq(xs, 1, 0) = <<>> /\ SubSeq(xs, 1, n) = xs
    BY <2>1
  <2> QED BY <1>1, <2>2
<1>4. \A i \in 1..n : Append(first[i - 1], xs[i]) = first[i]
  <2> TAKE i \in 1..n
  <2> DEFINE l == i - 1
             a == SubSeq(xs, 1, l)
             b == SubSeq(xs, 1, i)
             d == Append(a, xs[i])
  <2> HIDE DEF n
  <2>1. l \in 0..n /\ i \in 0..n /\ l \in Nat /\ i = l + 1
    BY <1>1
  <2>2. first[i] = b /\ first[l] = a
    BY <2>1
  <2>3. Items(a) /\ DOMAIN a = 1..l /\ \A j \in 1..l : a[j] = xs[j]
    BY <2>1, Prefix DEF n
  <2>4. Items(b) /\ DOMAIN b = 1..i /\ \A j \in 1..i : b[j] = xs[j]
    BY <2>1, Prefix DEF n
  <2> HIDE DEF a, b, l, first
  <2>5. Items(d) /\ DOMAIN d = 1..(l + 1) /\ (\A j \in 1..l : d[j] = a[j]) /\ d[l + 1] = xs[i]
    BY <2>1, <2>3, Appended
  <2> HIDE DEF d
  <2>6. \A j \in 1..i : j \in 1..l \/ j = i
    BY <2>1
  <2>7. \A j \in 1..i : d[j] = b[j]
    BY <2>1, <2>3, <2>4, <2>5, <2>6
  <2>8. d = [j \in 1..i |-> d[j]] /\ b = [j \in 1..i |-> b[j]]
    <3> DEFINE S == Range(d)
               U == Range(b)
    <3>1. d \in Seq(S) /\ b \in Seq(U)
      BY <2>4, <2>5 DEF Items
    <3> HIDE DEF S, U
    <3> QED BY <2>1, <2>4, <2>5, <3>1
  <2>9. d = b
    BY <2>7, <2>8
  <2> QED BY <2>2, <2>9 DEF d, l
<1> HIDE DEF first, n
<1>5. \E f : f[0] = <<>> /\ f[n] = xs /\ \A i \in 1..n : Append(f[i - 1], xs[i]) = f[i]
  BY <1>3, <1>4
<1> QED BY <1>5 DEF n

(* Each item in s appends one of xs to field f. *)
Appends(c, f, xs, s) ==
  /\ Items(xs) /\ s = [i \in DOMAIN xs |-> s[i]]
  /\ \A i \in DOMAIN xs :
       /\ ~EndsMessage(s[i])
       /\ \A x : TurnOf(c, x, s[i]) = [msg |-> [x EXCEPT ![f] = Append(x[f], xs[i])], ok |-> TRUE]

(* Strings, or messages, of which there may be several. *)
LEMMA LeadsEach ==
  ASSUME NEW c, NEW m, IsRecord(m), NEW f \in DOMAIN m, m[f] = <<>>, NEW xs,
         NEW s, Appends(c, f, xs, s),
         NEW m2, m2 = [m EXCEPT ![f] = xs]
  PROVE  Leads(c, m, s, m2)
<1> DEFINE n == Len(xs)
<1>1. Items(xs) /\ n \in Nat /\ DOMAIN xs = 1..n
  BY ItemsDomain DEF Appends
<1>2. Items(s) /\ Len(s) = n
  <2>1. s = [i \in 1..n |-> s[i]]
    BY <1>1 DEF Appends
  <2> HIDE DEF n
  <2> QED BY <1>1, <2>1, ItemsOf
<1>3. PICK first : /\ first[0] = <<>> /\ first[n] = xs
                   /\ \A i \in 1..n : Append(first[i - 1], xs[i]) = first[i]
  BY <1>1, FirstOnes
<1> HIDE DEF n
<1> DEFINE path == [i \in 0..n |-> [m EXCEPT ![f] = first[i]]]
<1>4. \A i \in 0..n : path[i] = [m EXCEPT ![f] = first[i]]
  OBVIOUS
<1>5. 0 \in 0..n /\ n \in 0..n /\ \A i \in 1..n : i \in 0..n /\ i - 1 \in 0..n /\ i \in DOMAIN xs
  BY <1>1
<1> HIDE DEF path
<1>6. path[0] = m
  <2>1. path[0] = [m EXCEPT ![f] = <<>>]
    BY <1>3, <1>4, <1>5
  <2> QED BY <2>1, SetAgain
<1>7. path[n] = m2
  BY <1>3, <1>4, <1>5
<1>8. ASSUME NEW i \in 1..n
      PROVE  ~EndsMessage(s[i]) /\ TurnOf(c, path[i - 1], s[i]) = [msg |-> path[i], ok |-> TRUE]
  <2> DEFINE p == path[i - 1]
             q == path[i]
             a == first[i - 1]
             b == first[i]
  <2>1. p = [m EXCEPT ![f] = a] /\ q = [m EXCEPT ![f] = b] /\ Append(a, xs[i]) = b
    BY <1>3, <1>4, <1>5
  <2>2. /\ ~EndsMessage(s[i])
        /\ TurnOf(c, p, s[i]) = [msg |-> [p EXCEPT ![f] = Append(p[f], xs[i])], ok |-> TRUE]
    BY <1>5 DEF Appends
  <2> HIDE DEF p, q, a, b
  <2>3. [p EXCEPT ![f] = Append(p[f], xs[i])] = q
    BY <2>1
  <2>4. ~EndsMessage(s[i]) /\ TurnOf(c, p, s[i]) = [msg |-> q, ok |-> TRUE]
    BY <2>2, <2>3
  <2> QED BY <2>4 DEF p, q
<1> QED BY <1>2, <1>6, <1>7, <1>8 DEF Leads

(* A set that is put in order has the same elements. *)
LEMMA OrderedRange ==
  ASSUME NEW S, IsFiniteSet(S), NEW order
  PROVE  \E n \in Nat : /\ DOMAIN Ordered(S, order) = 1..n
                        /\ \A i \in 1..n : Ordered(S, order)[i] \in S
                        /\ \A x \in S : \E i \in 1..n : Ordered(S, order)[i] = x
<1> DEFINE n == Cardinality(S)
           f == SetToSeq(S)
<1>1. n \in Nat /\ \E g \in [1..n -> S] : IsInjective(g)
  BY FS_CardinalityType DEF ExistsBijection, Bijection, Injection
<1>2. f \in [1..n -> S] /\ IsInjective(f)
  BY <1>1 DEF SetToSeq
<1>3. f \in Injection(1..n, S)
  BY <1>2 DEF Injection
<1>4. IsFiniteSet(1..n) /\ Cardinality(1..n) = n
  BY <1>1, FS_Interval
<1>5. f \in Surjection(1..n, S)
  BY <1>3, <1>4, FS_Injection
<1>6. \A x \in S : \E i \in 1..n : f[i] = x
  BY <1>5 DEF Surjection
<1>7. DOMAIN f = 1..n /\ Len(f) = n /\ \A i \in 1..n : f[i] \in S
  <2>1. f \in Seq(S)
    BY <1>1, <1>2
  <2> QED BY <1>1, <1>2, <2>1
<1> HIDE DEF f, n
<1>8. CASE order = "forth"
  <2>1. Ordered(S, order) = f
    BY <1>8 DEF Ordered, f
  <2> QED BY <1>1, <1>6, <1>7, <2>1
<1>9. CASE order # "forth"
  <2> DEFINE g == [i \in 1..n |-> f[(n - i) + 1]]
  <2>1. Ordered(S, order) = g
    BY <1>7, <1>9 DEF Ordered, Reverse, f
  <2>2. \A i \in 1..n : (n - i) + 1 \in 1..n /\ (n - ((n - i) + 1)) + 1 = i
    BY <1>1
  <2>3. \A i \in 1..n : g[(n - i) + 1] = f[i] /\ g[i] \in S
    BY <1>7, <2>2
  <2>4. DOMAIN g = 1..n
    OBVIOUS
  <2> HIDE DEF g
  <2>5. \A x \in S : \E i \in 1..n : g[i] = x
    BY <1>6, <2>2, <2>3
  <2> QED BY <1>1, <2>1, <2>3, <2>4, <2>5
<1> QED BY <1>8, <1>9

(* Each item in s puts an entry of map into field f, in the order of keys. *)
Puts(c, f, map, keys, s) ==
  /\ s = [i \in DOMAIN keys |-> s[i]]
  /\ \A i \in DOMAIN keys :
       /\ ~EndsMessage(s[i])
       /\ \A x : TurnOf(c, x, s[i])
                   = [msg |-> [x EXCEPT ![f] = With(x[f], keys[i], map[keys[i]])], ok |-> TRUE]

(* The first entries of a map, one by one. *)
LEMMA FirstEntries ==
  ASSUME NEW map, IsMap(map), NEW order, NEW keys, keys = Ordered(DOMAIN map, order),
         NEW n \in Nat, DOMAIN keys = 1..n
  PROVE  \E first : /\ first[0] = NoEntries /\ first[n] = map
                    /\ \A i \in 1..n : With(first[i - 1], keys[i], map[keys[i]]) = first[i]
<1> DEFINE K(i) == {keys[j] : j \in 1..i}
           first == [i \in 0..n |-> [k \in K(i) |-> map[k]]]
<1>1. (\A i \in 1..n : keys[i] \in DOMAIN map) /\ \A k \in DOMAIN map : \E i \in 1..n : keys[i] = k
  <2>1. IsFiniteSet(DOMAIN map)
    BY DEF IsMap
  <2>2. PICK l \in Nat : /\ DOMAIN keys = 1..l
                         /\ \A i \in 1..l : keys[i] \in DOMAIN map
                         /\ \A x \in DOMAIN map : \E i \in 1..l : keys[i] = x
    BY <2>1, OrderedRange
  <2>3. 1..l = 1..n
    BY <2>2
  <2> QED BY <2>2, <2>3
<1>2. first[0] = NoEntries
  <2>1. K(0) = {} /\ 0 \in 0..n
    OBVIOUS
  <2> QED BY <2>1 DEF NoEntries
<1>3. first[n] = map
  <2>1. K(n) \subseteq DOMAIN map /\ DOMAIN map \subseteq K(n)
    BY <1>1
  <2>0. K(n) = DOMAIN map /\ n \in 0..n
    <3> HIDE DEF K
    <3> QED BY <2>1
  <2>2. first[n] = [k \in DOMAIN map |-> map[k]]
    BY <2>0
  <2> HIDE DEF first
  <2> QED BY <2>2 DEF IsMap
<1>4. \A i \in 1..n : With(first[i - 1], keys[i], map[keys[i]]) = first[i]
  <2> TAKE i \in 1..n
  <2>1. i \in 0..n /\ i - 1 \in 0..n /\ i \in Nat
    OBVIOUS
  <2>2. K(i) = K(i - 1) \cup {keys[i]}
    <3>1. \A j \in 1..i : j \in 1..(i - 1) \/ j = i
      BY <2>1
    <3>2. \A j \in 1..(i - 1) : j \in 1..i
      BY <2>1
    <3>3. i \in 1..i
      BY <2>1
    <3> QED BY <3>1, <3>2, <3>3
  <2> DEFINE a == first[i - 1]
             b == first[i]
  <2>3. a = [k \in K(i - 1) |-> map[k]] /\ b = [k \in K(i) |-> map[k]]
    BY <2>1
  <2> HIDE DEF first, K, a, b
  <2>4. DOMAIN a = K(i - 1) /\ \A k \in K(i - 1) : a[k] = map[k]
    BY <2>3
  <2>5. With(a, keys[i], map[keys[i]]) = [k \in K(i) |-> map[k]]
    BY <2>2, <2>4 DEF With
  <2> QED BY <2>3, <2>5 DEF a, b
<1> HIDE DEF first
<1> QED BY <1>2, <1>3, <1>4

(* A map. *)
LEMMA LeadsMap ==
  ASSUME NEW c, NEW m, IsRecord(m), NEW f \in DOMAIN m, m[f] = NoEntries,
         NEW map, IsMap(map), NEW order, NEW s, Puts(c, f, map, Ordered(DOMAIN map, order), s),
         NEW m2, m2 = [m EXCEPT ![f] = map]
  PROVE  Leads(c, m, s, m2)
<1> DEFINE keys == Ordered(DOMAIN map, order)
<1>0. IsFiniteSet(DOMAIN map)
  BY DEF IsMap
<1>1. PICK n \in Nat : DOMAIN keys = 1..n
  BY <1>0, OrderedDomain
<1>2. Items(s) /\ Len(s) = n
  <2>1. s = [i \in 1..n |-> s[i]]
    BY <1>1 DEF Puts
  <2> QED BY <2>1, ItemsOf
<1>4. PICK first : /\ first[0] = NoEntries /\ first[n] = map
                   /\ \A i \in 1..n : With(first[i - 1], keys[i], map[keys[i]]) = first[i]
  BY <1>1, FirstEntries
<1> DEFINE path == [i \in 0..n |-> [m EXCEPT ![f] = first[i]]]
<1>5. \A i \in 0..n : path[i] = [m EXCEPT ![f] = first[i]]
  OBVIOUS
<1>6. 0 \in 0..n /\ n \in 0..n
      /\ \A i \in 1..n : i \in 0..n /\ i - 1 \in 0..n /\ i \in DOMAIN keys
  BY <1>1
<1>7. \A i \in DOMAIN keys :
       /\ ~EndsMessage(s[i])
       /\ \A x : TurnOf(c, x, s[i])
                   = [msg |-> [x EXCEPT ![f] = With(x[f], keys[i], map[keys[i]])], ok |-> TRUE]
  BY DEF Puts
<1> HIDE DEF path, keys
<1>8. path[0] = m
  <2>1. path[0] = [m EXCEPT ![f] = NoEntries]
    BY <1>4, <1>5, <1>6
  <2> QED BY <2>1, SetAgain
<1>9. path[n] = m2
  BY <1>4, <1>5, <1>6
<1>10. ASSUME NEW i \in 1..n
       PROVE  ~EndsMessage(s[i]) /\ TurnOf(c, path[i - 1], s[i]) = [msg |-> path[i], ok |-> TRUE]
  <2> DEFINE p == path[i - 1]
             q == path[i]
             a == first[i - 1]
             b == first[i]
             x == map[keys[i]]
             k == keys[i]
  <2>1. p = [m EXCEPT ![f] = a] /\ q = [m EXCEPT ![f] = b] /\ With(a, k, x) = b
    BY <1>4, <1>5, <1>6
  <2>2. /\ ~EndsMessage(s[i])
        /\ TurnOf(c, p, s[i]) = [msg |-> [p EXCEPT ![f] = With(p[f], k, x)], ok |-> TRUE]
    BY <1>6, <1>7
  <2> HIDE DEF p, q, a, b, x, k
  <2>3. [p EXCEPT ![f] = With(p[f], k, x)] = q
    BY <2>1
  <2>4. ~EndsMessage(s[i]) /\ TurnOf(c, p, s[i]) = [msg |-> q, ok |-> TRUE]
    BY <2>2, <2>3
  <2> QED BY <2>4 DEF p, q
<1> QED BY <1>2, <1>8, <1>9, <1>10 DEF Leads
------------------------------------------------------------------------------
(* Messages in messages. *)

(* Parsers are folds of At(). *)
Every == INSTANCE Folding WITH Step <- At

(* The nested classes' parsers are such folds: of HandshakeMessage, *)
LEMMA HandshakeMessage_SensorsParses ==
  ASSUME NEW m, NEW s
  PROVE  ParseItems(ParseHandshakeMessage_Sensors, m, s)
           = Every!Fold("HandshakeMessage_Sensors", Parsed(m, TRUE), s)
<1> DEFINE base == Parsed(m, TRUE)
           Went(r, it) == IF ~r.ok THEN r ELSE IF EndsMessage(it) THEN Parsed(r.msg, FALSE)
                        ELSE ParseHandshakeMessage_Sensors(r.msg, it)
           Own(iter) == iter = [t \in SUBSET DOMAIN s |->
             IF t = {} THEN base ELSE Went(iter[t \ {Max(t)}], s[Max(t)])]
           All(iter) == iter = [t \in SUBSET DOMAIN s |->
             IF t = {} THEN base
             ELSE At("HandshakeMessage_Sensors", iter[t \ {Max(t)}], s[Max(t)])]
<1>1. ParseItems(ParseHandshakeMessage_Sensors, m, s)
        = (CHOOSE iter : Own(iter))[DOMAIN s]
  BY Zenon DEF ParseItems, FoldLeft, MapThenFoldSet, Max
<1>2. Every!Fold("HandshakeMessage_Sensors", base, s)
        = (CHOOSE iter : All(iter))[DOMAIN s]
  BY Zenon DEF Every!Fold, Every!FoldLeft, Every!MapThenFoldSet, Every!Max, Max
<1>3. \A r, it : Went(r, it) = At("HandshakeMessage_Sensors", r, it)
  BY DEF At, TurnOf, Parsed
<1> HIDE DEF Went, base
<1>4. \A iter : Own(iter) <=> All(iter)
  BY <1>3
<1> HIDE DEF Own, All
<1>5. (CHOOSE iter : Own(iter)) = (CHOOSE iter : All(iter))
  BY <1>4
<1> QED BY Zenon, <1>1, <1>2, <1>5 DEF base

(* its settings, *)
LEMMA HandshakeMessage_SimulationSettingsParses ==
  ASSUME NEW m, NEW s
  PROVE  ParseItems(ParseHandshakeMessage_SimulationSettings, m, s)
           = Every!Fold("HandshakeMessage_SimulationSettings", Parsed(m, TRUE), s)
<1> DEFINE base == Parsed(m, TRUE)
           Went(r, it) == IF ~r.ok THEN r ELSE IF EndsMessage(it) THEN Parsed(r.msg, FALSE)
                        ELSE ParseHandshakeMessage_SimulationSettings(r.msg, it)
           Own(iter) == iter = [t \in SUBSET DOMAIN s |->
             IF t = {} THEN base ELSE Went(iter[t \ {Max(t)}], s[Max(t)])]
           All(iter) == iter = [t \in SUBSET DOMAIN s |->
             IF t = {} THEN base
             ELSE At("HandshakeMessage_SimulationSettings", iter[t \ {Max(t)}], s[Max(t)])]
<1>1. ParseItems(ParseHandshakeMessage_SimulationSettings, m, s)
        = (CHOOSE iter : Own(iter))[DOMAIN s]
  BY Zenon DEF ParseItems, FoldLeft, MapThenFoldSet, Max
<1>2. Every!Fold("HandshakeMessage_SimulationSettings", base, s)
        = (CHOOSE iter : All(iter))[DOMAIN s]
  BY Zenon DEF Every!Fold, Every!FoldLeft, Every!MapThenFoldSet, Every!Max, Max
<1>3. \A r, it : Went(r, it) = At("HandshakeMessage_SimulationSettings", r, it)
  BY DEF At, TurnOf, Parsed
<1> HIDE DEF Went, base
<1>4. \A iter : Own(iter) <=> All(iter)
  BY <1>3
<1> HIDE DEF Own, All
<1>5. (CHOOSE iter : Own(iter)) = (CHOOSE iter : All(iter))
  BY <1>4
<1> QED BY Zenon, <1>1, <1>2, <1>5 DEF base

(* and its objects; *)
LEMMA HandshakeMessage_ObjectParses ==
  ASSUME NEW m, NEW s
  PROVE  ParseItems(ParseHandshakeMessage_Object, m, s)
           = Every!Fold("HandshakeMessage_Object", Parsed(m, TRUE), s)
<1> DEFINE base == Parsed(m, TRUE)
           Went(r, it) == IF ~r.ok THEN r ELSE IF EndsMessage(it) THEN Parsed(r.msg, FALSE)
                        ELSE ParseHandshakeMessage_Object(r.msg, it)
           Own(iter) == iter = [t \in SUBSET DOMAIN s |->
             IF t = {} THEN base ELSE Went(iter[t \ {Max(t)}], s[Max(t)])]
           All(iter) == iter = [t \in SUBSET DOMAIN s |->
             IF t = {} THEN base
             ELSE At("HandshakeMessage_Object", iter[t \ {Max(t)}], s[Max(t)])]
<1>1. ParseItems(ParseHandshakeMessage_Object, m, s)
        = (CHOOSE iter : Own(iter))[DOMAIN s]
  BY Zenon DEF ParseItems, FoldLeft, MapThenFoldSet, Max
<1>2. Every!Fold("HandshakeMessage_Object", base, s)
        = (CHOOSE iter : All(iter))[DOMAIN s]
  BY Zenon DEF Every!Fold, Every!FoldLeft, Every!MapThenFoldSet, Every!Max, Max
<1>3. \A r, it : Went(r, it) = At("HandshakeMessage_Object", r, it)
  BY DEF At, TurnOf, Parsed
<1> HIDE DEF Went, base
<1>4. \A iter : Own(iter) <=> All(iter)
  BY <1>3
<1> HIDE DEF Own, All
<1>5. (CHOOSE iter : Own(iter)) = (CHOOSE iter : All(iter))
  BY <1>4
<1> QED BY Zenon, <1>1, <1>2, <1>5 DEF base

(* of ControlMessage; *)
LEMMA ControlMessage_ObjectParses ==
  ASSUME NEW m, NEW s
  PROVE  ParseItems(ParseControlMessage_Object, m, s)
           = Every!Fold("ControlMessage_Object", Parsed(m, TRUE), s)
<1> DEFINE base == Parsed(m, TRUE)
           Went(r, it) == IF ~r.ok THEN r ELSE IF EndsMessage(it) THEN Parsed(r.msg, FALSE)
                        ELSE ParseControlMessage_Object(r.msg, it)
           Own(iter) == iter = [t \in SUBSET DOMAIN s |->
             IF t = {} THEN base ELSE Went(iter[t \ {Max(t)}], s[Max(t)])]
           All(iter) == iter = [t \in SUBSET DOMAIN s |->
             IF t = {} THEN base
             ELSE At("ControlMessage_Object", iter[t \ {Max(t)}], s[Max(t)])]
<1>1. ParseItems(ParseControlMessage_Object, m, s)
        = (CHOOSE iter : Own(iter))[DOMAIN s]
  BY Zenon DEF ParseItems, FoldLeft, MapThenFoldSet, Max
<1>2. Every!Fold("ControlMessage_Object", base, s)
        = (CHOOSE iter : All(iter))[DOMAIN s]
  BY Zenon DEF Every!Fold, Every!FoldLeft, Every!MapThenFoldSet, Every!Max, Max
<1>3. \A r, it : Went(r, it) = At("ControlMessage_Object", r, it)
  BY DEF At, TurnOf, Parsed
<1> HIDE DEF Went, base
<1>4. \A iter : Own(iter) <=> All(iter)
  BY <1>3
<1> HIDE DEF Own, All
<1>5. (CHOOSE iter : Own(iter)) = (CHOOSE iter : All(iter))
  BY <1>4
<1> QED BY Zenon, <1>1, <1>2, <1>5 DEF base

(* of SensorMessage its vectors, *)
LEMMA SensorMessage_Vec3Parses ==
  ASSUME NEW m, NEW s
  PROVE  ParseItems(ParseSensorMessage_Vec3, m, s)
           = Every!Fold("SensorMessage_Vec3", Parsed(m, TRUE), s)
<1> DEFINE base == Parsed(m, TRUE)
           Went(r, it) == IF ~r.ok THEN r ELSE IF EndsMessage(it) THEN Parsed(r.msg, FALSE)
                        ELSE ParseSensorMessage_Vec3(r.msg, it)
           Own(iter) == iter = [t \in SUBSET DOMAIN s |->
             IF t = {} THEN base ELSE Went(iter[t \ {Max(t)}], s[Max(t)])]
           All(iter) == iter = [t \in SUBSET DOMAIN s |->
             IF t = {} THEN base
             ELSE At("SensorMessage_Vec3", iter[t \ {Max(t)}], s[Max(t)])]
<1>1. ParseItems(ParseSensorMessage_Vec3, m, s)
        = (CHOOSE iter : Own(iter))[DOMAIN s]
  BY Zenon DEF ParseItems, FoldLeft, MapThenFoldSet, Max
<1>2. Every!Fold("SensorMessage_Vec3", base, s)
        = (CHOOSE iter : All(iter))[DOMAIN s]
  BY Zenon DEF Every!Fold, Every!FoldLeft, Every!MapThenFoldSet, Every!Max, Max
<1>3. \A r, it : Went(r, it) = At("SensorMessage_Vec3", r, it)
  BY DEF At, TurnOf, Parsed
<1> HIDE DEF Went, base
<1>4. \A iter : Own(iter) <=> All(iter)
  BY <1>3
<1> HIDE DEF Own, All
<1>5. (CHOOSE iter : Own(iter)) = (CHOOSE iter : All(iter))
  BY <1>4
<1> QED BY Zenon, <1>1, <1>2, <1>5 DEF base

(* sensors, *)
LEMMA SensorMessage_SensorParses ==
  ASSUME NEW m, NEW s
  PROVE  ParseItems(ParseSensorMessage_Sensor, m, s)
           = Every!Fold("SensorMessage_Sensor", Parsed(m, TRUE), s)
<1> DEFINE base == Parsed(m, TRUE)
           Went(r, it) == IF ~r.ok THEN r ELSE IF EndsMessage(it) THEN Parsed(r.msg, FALSE)
                        ELSE ParseSensorMessage_Sensor(r.msg, it)
           Own(iter) == iter = [t \in SUBSET DOMAIN s |->
             IF t = {} THEN base ELSE Went(iter[t \ {Max(t)}], s[Max(t)])]
           All(iter) == iter = [t \in SUBSET DOMAIN s |->
             IF t = {} THEN base
             ELSE At("SensorMessage_Sensor", iter[t \ {Max(t)}], s[Max(t)])]
<1>1. ParseItems(ParseSensorMessage_Sensor, m, s)
        = (CHOOSE iter : Own(iter))[DOMAIN s]
  BY Zenon DEF ParseItems, FoldLeft, MapThenFoldSet, Max
<1>2. Every!Fold("SensorMessage_Sensor", base, s)
        = (CHOOSE iter : All(iter))[DOMAIN s]
  BY Zenon DEF Every!Fold, Every!FoldLeft, Every!MapThenFoldSet, Every!Max, Max
<1>3. \A r, it : Went(r, it) = At("SensorMessage_Sensor", r, it)
  BY DEF At, TurnOf, Parsed
<1> HIDE DEF Went, base
<1>4. \A iter : Own(iter) <=> All(iter)
  BY <1>3
<1> HIDE DEF Own, All
<1>5. (CHOOSE iter : Own(iter)) = (CHOOSE iter : All(iter))
  BY <1>4
<1> QED BY Zenon, <1>1, <1>2, <1>5 DEF base

(* lists of them, *)
LEMMA SensorMessage_SensorsParses ==
  ASSUME NEW m, NEW s
  PROVE  ParseItems(ParseSensorMessage_Sensors, m, s)
           = Every!Fold("SensorMessage_Sensors", Parsed(m, TRUE), s)
<1> DEFINE base == Parsed(m, TRUE)
           Went(r, it) == IF ~r.ok THEN r ELSE IF EndsMessage(it) THEN Parsed(r.msg, FALSE)
                        ELSE ParseSensorMessage_Sensors(r.msg, it)
           Own(iter) == iter = [t \in SUBSET DOMAIN s |->
             IF t = {} THEN base ELSE Went(iter[t \ {Max(t)}], s[Max(t)])]
           All(iter) == iter = [t \in SUBSET DOMAIN s |->
             IF t = {} THEN base
             ELSE At("SensorMessage_Sensors", iter[t \ {Max(t)}], s[Max(t)])]
<1>1. ParseItems(ParseSensorMessage_Sensors, m, s)
        = (CHOOSE iter : Own(iter))[DOMAIN s]
  BY Zenon DEF ParseItems, FoldLeft, MapThenFoldSet, Max
<1>2. Every!Fold("SensorMessage_Sensors", base, s)
        = (CHOOSE iter : All(iter))[DOMAIN s]
  BY Zenon DEF Every!Fold, Every!FoldLeft, Every!MapThenFoldSet, Every!Max, Max
<1>3. \A r, it : Went(r, it) = At("SensorMessage_Sensors", r, it)
  BY DEF At, TurnOf, Parsed
<1> HIDE DEF Went, base
<1>4. \A iter : Own(iter) <=> All(iter)
  BY <1>3
<1> HIDE DEF Own, All
<1>5. (CHOOSE iter : Own(iter)) = (CHOOSE iter : All(iter))
  BY <1>4
<1> QED BY Zenon, <1>1, <1>2, <1>5 DEF base

(* objects *)
LEMMA SensorMessage_ObjectParses ==
  ASSUME NEW m, NEW s
  PROVE  ParseItems(ParseSensorMessage_Object, m, s)
           = Every!Fold("SensorMessage_Object", Parsed(m, TRUE), s)
<1> DEFINE base == Parsed(m, TRUE)
           Went(r, it) == IF ~r.ok THEN r ELSE IF EndsMessage(it) THEN Parsed(r.msg, FALSE)
                        ELSE ParseSensorMessage_Object(r.msg, it)
           Own(iter) == iter = [t \in SUBSET DOMAIN s |->
             IF t = {} THEN base ELSE Went(iter[t \ {Max(t)}], s[Max(t)])]
           All(iter) == iter = [t \in SUBSET DOMAIN s |->
             IF t = {} THEN base
             ELSE At("SensorMessage_Object", iter[t \ {Max(t)}], s[Max(t)])]
<1>1. ParseItems(ParseSensorMessage_Object, m, s)
        = (CHOOSE iter : Own(iter))[DOMAIN s]
  BY Zenon DEF ParseItems, FoldLeft, MapThenFoldSet, Max
<1>2. Every!Fold("SensorMessage_Object", base, s)
        = (CHOOSE iter : All(iter))[DOMAIN s]
  BY Zenon DEF Every!Fold, Every!FoldLeft, Every!MapThenFoldSet, Every!Max, Max
<1>3. \A r, it : Went(r, it) = At("SensorMessage_Object", r, it)
  BY DEF At, TurnOf, Parsed
<1> HIDE DEF Went, base
<1>4. \A iter : Own(iter) <=> All(iter)
  BY <1>3
<1> HIDE DEF Own, All
<1>5. (CHOOSE iter : Own(iter)) = (CHOOSE iter : All(iter))
  BY <1>4
<1> QED BY Zenon, <1>1, <1>2, <1>5 DEF base

(* and variables. *)
LEMMA SensorMessage_SimulationVariablesParses ==
  ASSUME NEW m, NEW s
  PROVE  ParseItems(ParseSensorMessage_SimulationVariables, m, s)
           = Every!Fold("SensorMessage_SimulationVariables", Parsed(m, TRUE), s)
<1> DEFINE base == Parsed(m, TRUE)
           Went(r, it) == IF ~r.ok THEN r ELSE IF EndsMessage(it) THEN Parsed(r.msg, FALSE)
                        ELSE ParseSensorMessage_SimulationVariables(r.msg, it)
           Own(iter) == iter = [t \in SUBSET DOMAIN s |->
             IF t = {} THEN base ELSE Went(iter[t \ {Max(t)}], s[Max(t)])]
           All(iter) == iter = [t \in SUBSET DOMAIN s |->
             IF t = {} THEN base
             ELSE At("SensorMessage_SimulationVariables", iter[t \ {Max(t)}], s[Max(t)])]
<1>1. ParseItems(ParseSensorMessage_SimulationVariables, m, s)
        = (CHOOSE iter : Own(iter))[DOMAIN s]
  BY Zenon DEF ParseItems, FoldLeft, MapThenFoldSet, Max
<1>2. Every!Fold("SensorMessage_SimulationVariables", base, s)
        = (CHOOSE iter : All(iter))[DOMAIN s]
  BY Zenon DEF Every!Fold, Every!FoldLeft, Every!MapThenFoldSet, Every!Max, Max
<1>3. \A r, it : Went(r, it) = At("SensorMessage_SimulationVariables", r, it)
  BY DEF At, TurnOf, Parsed
<1> HIDE DEF Went, base
<1>4. \A iter : Own(iter) <=> All(iter)
  BY <1>3
<1> HIDE DEF Own, All
<1>5. (CHOOSE iter : Own(iter)) = (CHOOSE iter : All(iter))
  BY <1>4
<1> QED BY Zenon, <1>1, <1>2, <1>5 DEF base

(* A parser that is led somewhere gets there. *)
LEMMA FoldLeads ==
  ASSUME NEW c, NEW m, NEW s, NEW m2, Leads(c, m, s, m2)
  PROVE  Every!Fold(c, [msg |-> m, ok |-> TRUE], s) = [msg |-> m2, ok |-> TRUE]
<1>1. PICK path : Way(c, m, s, m2, path)
  BY LeadsThere
<1>2. Every!Follows(c, s, Len(s), path)
  BY <1>1 DEF Way, Every!Follows
<1>3. Every!Fold(c, path[0], s) = path[Len(s)]
  BY <1>2, LeadsThere, Every!FoldFollows
<1> QED BY <1>1, <1>3 DEF Way

(* The default of strings. *)
NoText == ""

(* An entry before anything was read of it. *)
Base(new) == Parsed([key |-> NoText, value |-> new], TRUE)

(* What is made of the value of an entry, *)
ValueOf(c, e, x) ==
  IF c = "Number" THEN NumberValue(e, x)
  ELSE IF x.tag = 18 THEN LET r == Every!Fold(c, Parsed(e.value, TRUE), x.sub)
                          IN  Parsed([e EXCEPT !.value = r.msg], r.ok /\ x.whole)
  ELSE Parsed(e, x.whole)

(* and of each of its parts. *)
AtEntry(c, r, it) ==
  IF ~r.ok THEN r ELSE IF EndsMessage(it) THEN Parsed(r.msg, FALSE)
  ELSE IF it.tag = 10 THEN SetString(r.msg, "key", it) ELSE ValueOf(c, r.msg, it)

(* Entries are parsed by folds of their own. *)
Entries == INSTANCE Folding WITH Step <- AtEntry

(* Class c reads an item with this tag as an entry of its field f. *)
ReadsEntries(c, f, tag, v, new) ==
  \A m, it : it.tag = tag =>
    TurnOf(c, m, it) = Entry(m, f, Entries!Fold(v, Base(new), it.sub), it.whole)

(* The maps of the classes: controlEvents of HandshakeMessage.Object, *)
LEMMA HandshakeMessage_Object_ControlEventsEntry ==
  ReadsEntries("HandshakeMessage_Object", "controlEvents", 26,
               "Number", 0)
<1> SUFFICES ASSUME NEW m, NEW it, it.tag = 26
             PROVE  TurnOf("HandshakeMessage_Object", m, it)
                      = Entry(m, "controlEvents", Entries!Fold("Number",
                                Base(0), it.sub), it.whole)
  BY DEF ReadsEntries
<1> DEFINE base == Base(0)
           s == it.sub
           Went(r, x) == IF ~r.ok THEN r ELSE IF EndsMessage(x) THEN Parsed(r.msg, FALSE)
                       ELSE IF x.tag = 10 THEN SetString(r.msg, "key", x)
                       ELSE NumberValue(r.msg, x)
           Own(iter) == iter = [t \in SUBSET DOMAIN s |->
             IF t = {} THEN base ELSE Went(iter[t \ {Max(t)}], s[Max(t)])]
           All(iter) == iter = [t \in SUBSET DOMAIN s |->
             IF t = {} THEN base
             ELSE AtEntry("Number", iter[t \ {Max(t)}], s[Max(t)])]
<1>0. it.tag \notin {10, 18, 16, 34, 50, 48, 58, 66, 64}
  OBVIOUS
<1>1. ParseHandshakeMessage_Object(m, it)
        = Entry(m, "controlEvents", (CHOOSE iter : Own(iter))[DOMAIN s], it.whole)
  BY Zenon, <1>0 DEF ParseHandshakeMessage_Object, ParseEntry, ParseItems, FoldLeft,
     MapThenFoldSet, Max, Base, NoText
<1>2. Entries!Fold("Number", base, s) = (CHOOSE iter : All(iter))[DOMAIN s]
  BY Zenon DEF Entries!Fold, Entries!FoldLeft, Entries!MapThenFoldSet, Entries!Max, Max
<1>3. \A e, x : NumberValue(e, x) = ValueOf("Number", e, x)
  BY Zenon DEF ValueOf
<1>4. \A r, x : Went(r, x) = AtEntry("Number", r, x)
  BY Zenon, <1>3 DEF AtEntry
<1> HIDE DEF Went, base, s
<1>5. \A iter : Own(iter) <=> All(iter)
  BY <1>4
<1> HIDE DEF Own, All
<1>6. (CHOOSE iter : Own(iter)) = (CHOOSE iter : All(iter))
  BY <1>5
<1>7. TurnOf("HandshakeMessage_Object", m, it) = ParseHandshakeMessage_Object(m, it)
  BY DEF TurnOf
<1> QED BY Zenon, <1>1, <1>2, <1>6, <1>7 DEF base, s

(* its sensors, *)
LEMMA HandshakeMessage_Object_SensorsEntry ==
  ReadsEntries("HandshakeMessage_Object", "sensors", 34,
               "HandshakeMessage_Sensors", NewHandshakeMessage_Sensors)
<1> SUFFICES ASSUME NEW m, NEW it, it.tag = 34
             PROVE  TurnOf("HandshakeMessage_Object", m, it)
                      = Entry(m, "sensors", Entries!Fold("HandshakeMessage_Sensors",
                                Base(NewHandshakeMessage_Sensors), it.sub), it.whole)
  BY DEF ReadsEntries
<1> DEFINE base == Base(NewHandshakeMessage_Sensors)
           s == it.sub
           Went(r, x) == IF ~r.ok THEN r ELSE IF EndsMessage(x) THEN Parsed(r.msg, FALSE)
                       ELSE IF x.tag = 10 THEN SetString(r.msg, "key", x)
                       ELSE MessageValue(ParseHandshakeMessage_Sensors, r.msg, x)
           Own(iter) == iter = [t \in SUBSET DOMAIN s |->
             IF t = {} THEN base ELSE Went(iter[t \ {Max(t)}], s[Max(t)])]
           All(iter) == iter = [t \in SUBSET DOMAIN s |->
             IF t = {} THEN base
             ELSE AtEntry("HandshakeMessage_Sensors", iter[t \ {Max(t)}], s[Max(t)])]
<1>0. it.tag \notin {10, 18, 16, 26, 50, 48, 58, 66, 64}
  OBVIOUS
<1>1. ParseHandshakeMessage_Object(m, it)
        = Entry(m, "sensors", (CHOOSE iter : Own(iter))[DOMAIN s], it.whole)
  BY Zenon, <1>0 DEF ParseHandshakeMessage_Object, ParseEntry, ParseItems, FoldLeft,
     MapThenFoldSet, Max, Base, NoText
<1>2. Entries!Fold("HandshakeMessage_Sensors", base, s) = (CHOOSE iter : All(iter))[DOMAIN s]
  BY Zenon DEF Entries!Fold, Entries!FoldLeft, Entries!MapThenFoldSet, Entries!Max, Max
<1>3. \A e, x : MessageValue(ParseHandshakeMessage_Sensors, e, x)
                   = ValueOf("HandshakeMessage_Sensors", e, x)
  <2>1. "HandshakeMessage_Sensors" # "Number"
    OBVIOUS
  <2> QED BY Zenon, <2>1, HandshakeMessage_SensorsParses DEF MessageValue, ValueOf
<1>4. \A r, x : Went(r, x) = AtEntry("HandshakeMessage_Sensors", r, x)
  BY Zenon, <1>3 DEF AtEntry
<1> HIDE DEF Went, base, s
<1>5. \A iter : Own(iter) <=> All(iter)
  BY <1>4
<1> HIDE DEF Own, All
<1>6. (CHOOSE iter : Own(iter)) = (CHOOSE iter : All(iter))
  BY <1>5
<1>7. TurnOf("HandshakeMessage_Object", m, it) = ParseHandshakeMessage_Object(m, it)
  BY DEF TurnOf
<1> QED BY Zenon, <1>1, <1>2, <1>6, <1>7 DEF base, s

(* objects of HandshakeMessage, *)
LEMMA HandshakeMessage_ObjectsEntry ==
  ReadsEntries("HandshakeMessage", "objects", 34,
               "HandshakeMessage_Object", NewHandshakeMessage_Object)
<1> SUFFICES ASSUME NEW m, NEW it, it.tag = 34
             PROVE  TurnOf("HandshakeMessage", m, it)
                      = Entry(m, "objects", Entries!Fold("HandshakeMessage_Object",
                                Base(NewHandshakeMessage_Object), it.sub), it.whole)
  BY DEF ReadsEntries
<1> DEFINE base == Base(NewHandshakeMessage_Object)
           s == it.sub
           Went(r, x) == IF ~r.ok THEN r ELSE IF EndsMessage(x) THEN Parsed(r.msg, FALSE)
                       ELSE IF x.tag = 10 THEN SetString(r.msg, "key", x)
                       ELSE MessageValue(ParseHandshakeMessage_Object, r.msg, x)
           Own(iter) == iter = [t \in SUBSET DOMAIN s |->
             IF t = {} THEN base ELSE Went(iter[t \ {Max(t)}], s[Max(t)])]
           All(iter) == iter = [t \in SUBSET DOMAIN s |->
             IF t = {} THEN base
             ELSE AtEntry("HandshakeMessage_Object", iter[t \ {Max(t)}], s[Max(t)])]
<1>0. it.tag \notin {8, 16, 24, 42}
  OBVIOUS
<1>1. ParseHandshakeMessage(m, it)
        = Entry(m, "objects", (CHOOSE iter : Own(iter))[DOMAIN s], it.whole)
  BY Zenon, <1>0 DEF ParseHandshakeMessage, ParseEntry, ParseItems, FoldLeft,
     MapThenFoldSet, Max, Base, NoText
<1>2. Entries!Fold("HandshakeMessage_Object", base, s) = (CHOOSE iter : All(iter))[DOMAIN s]
  BY Zenon DEF Entries!Fold, Entries!FoldLeft, Entries!MapThenFoldSet, Entries!Max, Max
<1>3. \A e, x : MessageValue(ParseHandshakeMessage_Object, e, x)
                   = ValueOf("HandshakeMessage_Object", e, x)
  <2>1. "HandshakeMessage_Object" # "Number"
    OBVIOUS
  <2> QED BY Zenon, <2>1, HandshakeMessage_ObjectParses DEF MessageValue, ValueOf
<1>4. \A r, x : Went(r, x) = AtEntry("HandshakeMessage_Object", r, x)
  BY Zenon, <1>3 DEF AtEntry
<1> HIDE DEF Went, base, s
<1>5. \A iter : Own(iter) <=> All(iter)
  BY <1>4
<1> HIDE DEF Own, All
<1>6. (CHOOSE iter : Own(iter)) = (CHOOSE iter : All(iter))
  BY <1>5
<1>7. TurnOf("HandshakeMessage", m, it) = ParseHandshakeMessage(m, it)
  BY DEF TurnOf, Turn
<1> QED BY Zenon, <1>1, <1>2, <1>6, <1>7 DEF base, s

(* controlEvents of ControlMessage.Object, *)
LEMMA ControlMessage_Object_ControlEventsEntry ==
  ReadsEntries("ControlMessage_Object", "controlEvents", 34,
               "Number", 0)
<1> SUFFICES ASSUME NEW m, NEW it, it.tag = 34
             PROVE  TurnOf("ControlMessage_Object", m, it)
                      = Entry(m, "controlEvents", Entries!Fold("Number",
                                Base(0), it.sub), it.whole)
  BY DEF ReadsEntries
<1> DEFINE base == Base(0)
           s == it.sub
           Went(r, x) == IF ~r.ok THEN r ELSE IF EndsMessage(x) THEN Parsed(r.msg, FALSE)
                       ELSE IF x.tag = 10 THEN SetString(r.msg, "key", x)
                       ELSE NumberValue(r.msg, x)
           Own(iter) == iter = [t \in SUBSET DOMAIN s |->
             IF t = {} THEN base ELSE Went(iter[t \ {Max(t)}], s[Max(t)])]
           All(iter) == iter = [t \in SUBSET DOMAIN s |->
             IF t = {} THEN base
             ELSE AtEntry("Number", iter[t \ {Max(t)}], s[Max(t)])]
<1>0. it.tag \notin {10, 9, 18, 17, 26, 25, 42, 41}
  OBVIOUS
<1>1. ParseControlMessage_Object(m, it)
        = Entry(m, "controlEvents", (CHOOSE iter : Own(iter))[DOMAIN s], it.whole)
  BY Zenon, <1>0 DEF ParseControlMessage_Object, ParseEntry, ParseItems, FoldLeft,
     MapThenFoldSet, Max, Base, NoText
<1>2. Entries!Fold("Number", base, s) = (CHOOSE iter : All(iter))[DOMAIN s]
  BY Zenon DEF Entries!Fold, Entries!FoldLeft, Entries!MapThenFoldSet, Entries!Max, Max
<1>3. \A e, x : NumberValue(e, x) = ValueOf("Number", e, x)
  BY Zenon DEF ValueOf
<1>4. \A r, x : Went(r, x) = AtEntry("Number", r, x)
  BY Zenon, <1>3 DEF AtEntry
<1> HIDE DEF Went, base, s
<1>5. \A iter : Own(iter) <=> All(iter)
  BY <1>4
<1> HIDE DEF Own, All
<1>6. (CHOOSE iter : Own(iter)) = (CHOOSE iter : All(iter))
  BY <1>5
<1>7. TurnOf("ControlMessage_Object", m, it) = ParseControlMessage_Object(m, it)
  BY DEF TurnOf
<1> QED BY Zenon, <1>1, <1>2, <1>6, <1>7 DEF base, s

(* objects of ControlMessage, *)
LEMMA ControlMessage_ObjectsEntry ==
  ReadsEntries("ControlMessage", "objects", 18,
               "ControlMessage_Object", NewControlMessage_Object)
<1> SUFFICES ASSUME NEW m, NEW it, it.tag = 18
             PROVE  TurnOf("ControlMessage", m, it)
                      = Entry(m, "objects", Entries!Fold("ControlMessage_Object",
                                Base(NewControlMessage_Object), it.sub), it.whole)
  BY DEF ReadsEntries
<1> DEFINE base == Base(NewControlMessage_Object)
           s == it.sub
           Went(r, x) == IF ~r.ok THEN r ELSE IF EndsMessage(x) THEN Parsed(r.msg, FALSE)
                       ELSE IF x.tag = 10 THEN SetString(r.msg, "key", x)
                       ELSE MessageValue(ParseControlMessage_Object, r.msg, x)
           Own(iter) == iter = [t \in SUBSET DOMAIN s |->
             IF t = {} THEN base ELSE Went(iter[t \ {Max(t)}], s[Max(t)])]
           All(iter) == iter = [t \in SUBSET DOMAIN s |->
             IF t = {} THEN base
             ELSE AtEntry("ControlMessage_Object", iter[t \ {Max(t)}], s[Max(t)])]
<1>0. it.tag \notin {8}
  OBVIOUS
<1>1. ParseControlMessage(m, it)
        = Entry(m, "objects", (CHOOSE iter : Own(iter))[DOMAIN s], it.whole)
  BY Zenon, <1>0 DEF ParseControlMessage, ParseEntry, ParseItems, FoldLeft,
     MapThenFoldSet, Max, Base, NoText
<1>2. Entries!Fold("ControlMessage_Object", base, s) = (CHOOSE iter : All(iter))[DOMAIN s]
  BY Zenon DEF Entries!Fold, Entries!FoldLeft, Entries!MapThenFoldSet, Entries!Max, Max
<1>3. \A e, x : MessageValue(ParseControlMessage_Object, e, x)
                   = ValueOf("ControlMessage_Object", e, x)
  <2>1. "ControlMessage_Object" # "Number"
    OBVIOUS
  <2> QED BY Zenon, <2>1, ControlMessage_ObjectParses DEF MessageValue, ValueOf
<1>4. \A r, x : Went(r, x) = AtEntry("ControlMessage_Object", r, x)
  BY Zenon, <1>3 DEF AtEntry
<1> HIDE DEF Went, base, s
<1>5. \A iter : Own(iter) <=> All(iter)
  BY <1>4
<1> HIDE DEF Own, All
<1>6. (CHOOSE iter : Own(iter)) = (CHOOSE iter : All(iter))
  BY <1>5
<1>7. TurnOf("ControlMessage", m, it) = ParseControlMessage(m, it)
  BY DEF TurnOf, Turn
<1> QED BY Zenon, <1>1, <1>2, <1>6, <1>7 DEF base, s

(* sensors of SensorMessage.Object *)
LEMMA SensorMessage_Object_SensorsEntry ==
  ReadsEntries("SensorMessage_Object", "sensors", 50,
               "SensorMessage_Sensors", NewSensorMessage_Sensors)
<1> SUFFICES ASSUME NEW m, NEW it, it.tag = 50
             PROVE  TurnOf("SensorMessage_Object", m, it)
                      = Entry(m, "sensors", Entries!Fold("SensorMessage_Sensors",
                                Base(NewSensorMessage_Sensors), it.sub), it.whole)
  BY DEF ReadsEntries
<1> DEFINE base == Base(NewSensorMessage_Sensors)
           s == it.sub
           Went(r, x) == IF ~r.ok THEN r ELSE IF EndsMessage(x) THEN Parsed(r.msg, FALSE)
                       ELSE IF x.tag = 10 THEN SetString(r.msg, "key", x)
                       ELSE MessageValue(ParseSensorMessage_Sensors, r.msg, x)
           Own(iter) == iter = [t \in SUBSET DOMAIN s |->
             IF t = {} THEN base ELSE Went(iter[t \ {Max(t)}], s[Max(t)])]
           All(iter) == iter = [t \in SUBSET DOMAIN s |->
             IF t = {} THEN base
             ELSE AtEntry("SensorMessage_Sensors", iter[t \ {Max(t)}], s[Max(t)])]
<1>0. it.tag \notin {10, 9, 18, 17, 26, 25, 34, 42}
  OBVIOUS
<1>1. ParseSensorMessage_Object(m, it)
        = Entry(m, "sensors", (CHOOSE iter : Own(iter))[DOMAIN s], it.whole)
  BY Zenon, <1>0 DEF ParseSensorMessage_Object, ParseEntry, ParseItems, FoldLeft,
     MapThenFoldSet, Max, Base, NoText
<1>2. Entries!Fold("SensorMessage_Sensors", base, s) = (CHOOSE iter : All(iter))[DOMAIN s]
  BY Zenon DEF Entries!Fold, Entries!FoldLeft, Entries!MapThenFoldSet, Entries!Max, Max
<1>3. \A e, x : MessageValue(ParseSensorMessage_Sensors, e, x)
                   = ValueOf("SensorMessage_Sensors", e, x)
  <2>1. "SensorMessage_Sensors" # "Number"
    OBVIOUS
  <2> QED BY Zenon, <2>1, SensorMessage_SensorsParses DEF MessageValue, ValueOf
<1>4. \A r, x : Went(r, x) = AtEntry("SensorMessage_Sensors", r, x)
  BY Zenon, <1>3 DEF AtEntry
<1> HIDE DEF Went, base, s
<1>5. \A iter : Own(iter) <=> All(iter)
  BY <1>4
<1> HIDE DEF Own, All
<1>6. (CHOOSE iter : Own(iter)) = (CHOOSE iter : All(iter))
  BY <1>5
<1>7. TurnOf("SensorMessage_Object", m, it) = ParseSensorMessage_Object(m, it)
  BY DEF TurnOf
<1> QED BY Zenon, <1>1, <1>2, <1>6, <1>7 DEF base, s

(* and objects of SensorMessage. *)
LEMMA SensorMessage_ObjectsEntry ==
  ReadsEntries("SensorMessage", "objects", 26,
               "SensorMessage_Object", NewSensorMessage_Object)
<1> SUFFICES ASSUME NEW m, NEW it, it.tag = 26
             PROVE  TurnOf("SensorMessage", m, it)
                      = Entry(m, "objects", Entries!Fold("SensorMessage_Object",
                                Base(NewSensorMessage_Object), it.sub), it.whole)
  BY DEF ReadsEntries
<1> DEFINE base == Base(NewSensorMessage_Object)
           s == it.sub
           Went(r, x) == IF ~r.ok THEN r ELSE IF EndsMessage(x) THEN Parsed(r.msg, FALSE)
                       ELSE IF x.tag = 10 THEN SetString(r.msg, "key", x)
                       ELSE MessageValue(ParseSensorMessage_Object, r.msg, x)
           Own(iter) == iter = [t \in SUBSET DOMAIN s |->
             IF t = {} THEN base ELSE Went(iter[t \ {Max(t)}], s[Max(t)])]
           All(iter) == iter = [t \in SUBSET DOMAIN s |->
             IF t = {} THEN base
             ELSE AtEntry("SensorMessage_Object", iter[t \ {Max(t)}], s[Max(t)])]
<1>0. it.tag \notin {8, 34}
  OBVIOUS
<1>1. ParseSensorMessage(m, it)
        = Entry(m, "objects", (CHOOSE iter : Own(iter))[DOMAIN s], it.whole)
  BY Zenon, <1>0 DEF ParseSensorMessage, ParseEntry, ParseItems, FoldLeft,
     MapThenFoldSet, Max, Base, NoText
<1>2. Entries!Fold("SensorMessage_Object", base, s) = (CHOOSE iter : All(iter))[DOMAIN s]
  BY Zenon DEF Entries!Fold, Entries!FoldLeft, Entries!MapThenFoldSet, Entries!Max, Max
<1>3. \A e, x : MessageValue(ParseSensorMessage_Object, e, x)
                   = ValueOf("SensorMessage_Object", e, x)
  <2>1. "SensorMessage_Object" # "Number"
    OBVIOUS
  <2> QED BY Zenon, <2>1, SensorMessage_ObjectParses DEF MessageValue, ValueOf
<1>4. \A r, x : Went(r, x) = AtEntry("SensorMessage_Object", r, x)
  BY Zenon, <1>3 DEF AtEntry
<1> HIDE DEF Went, base, s
<1>5. \A iter : Own(iter) <=> All(iter)
  BY <1>4
<1> HIDE DEF Own, All
<1>6. (CHOOSE iter : Own(iter)) = (CHOOSE iter : All(iter))
  BY <1>5
<1>7. TurnOf("SensorMessage", m, it) = ParseSensorMessage(m, it)
  BY DEF TurnOf, Turn
<1> QED BY Zenon, <1>1, <1>2, <1>6, <1>7 DEF base, s

(* What stands after each part of an entry. *)
EntryWay(new, key, x) ==
  [i \in 0..2 |-> [msg |-> [key   |-> IF i = 0 THEN NoText ELSE key,
                           value |-> IF i = 2 THEN x ELSE new], ok |-> TRUE]]

(* The bytes of an entry. *)
IsEntry(it, tag, key, value) ==
  /\ it.tag = tag /\ it.whole = TRUE /\ DOMAIN it.sub = 1..2
  /\ it.sub[1].tag = 10 /\ it.sub[1].str = key /\ it.sub[1].whole = TRUE
  /\ it.sub[2] = value

(* They are written like this. *)
LEMMA EntryParts ==
  ASSUME NEW tag, NEW key, NEW value
  PROVE  IsEntry(WriteSub(tag, <<WriteString(10, key), value>>), tag, key, value)
<1> DEFINE a == WriteString(10, key)
           s == <<a, value>>
           it == WriteSub(tag, s)
<1>1. a.tag = 10 /\ a.str = key /\ a.whole = TRUE
  BY DEF WriteString, Item
<1> HIDE DEF a
<1>2. DOMAIN s = 1..2 /\ s[1] = a /\ s[2] = value
  OBVIOUS
<1> HIDE DEF s
<1>3. it.tag = tag /\ it.whole = TRUE /\ it.sub = s
  BY DEF WriteSub, Item
<1> HIDE DEF it
<1>4. IsEntry(it, tag, key, value)
  BY <1>1, <1>2, <1>3 DEF IsEntry
<1> QED BY <1>4 DEF it, s, a

(* The bytes of a value. *)
IsValue(c, new, it, x) ==
  /\ it.whole = TRUE
  /\ IF c = "Number" THEN it.tag = 16 /\ it.num[1] = x
     ELSE it.tag = 18 /\ Leads(c, new, it.sub, x)

(* The item in front has the key: *)
KeyRead(c, new, key, x, it) ==
  AtEntry(c, EntryWay(new, key, x)[0], it.sub[1]) = EntryWay(new, key, x)[1]

(* the key comes first, *)
LEMMA EntryKey ==
  ASSUME NEW c, NEW new, NEW key, key \notin NotUtf8, NEW x, NEW it, NEW tag, NEW value,
         IsEntry(it, tag, key, value)
  PROVE  KeyRead(c, new, key, x, it)
<1> DEFINE e == [key |-> NoText, value |-> new]
           f == [key |-> key, value |-> new]
           p == EntryWay(new, key, x)
<1>1. p[0] = [msg |-> e, ok |-> TRUE] /\ p[1] = [msg |-> f, ok |-> TRUE]
  BY DEF EntryWay
<1>2. [e EXCEPT !["key"] = key] = f
  OBVIOUS
<1> HIDE DEF e, f
<1>3. SetString(e, "key", it.sub[1]) = [msg |-> f, ok |-> TRUE]
  BY <1>2 DEF SetString, Parsed, IsEntry
<1>4. ~EndsMessage(it.sub[1]) /\ it.sub[1].tag = 10
  BY DEF EndsMessage, IsEntry
<1> HIDE DEF p
<1>5. p[0].ok = TRUE /\ p[0].msg = e
  BY <1>1
<1>6. AtEntry(c, p[0], it.sub[1]) = p[1]
  BY <1>1, <1>3, <1>4, <1>5 DEF AtEntry
<1> QED BY <1>6 DEF p, KeyRead

(* and then the value. *)
LEMMA EntryValue ==
  ASSUME NEW c, NEW new, NEW key, NEW x, NEW value, IsValue(c, new, value, x)
  PROVE  AtEntry(c, EntryWay(new, key, x)[1], value) = EntryWay(new, key, x)[2]
<1> DEFINE e == [key |-> key, value |-> new]
           f == [key |-> key, value |-> x]
           p == EntryWay(new, key, x)
<1>1. p[1] = [msg |-> e, ok |-> TRUE] /\ p[2] = [msg |-> f, ok |-> TRUE]
  BY DEF EntryWay
<1>2. [e EXCEPT !.value = x] = f /\ e.value = new
  OBVIOUS
<1> HIDE DEF e, f
<1>3. ValueOf(c, e, value) = [msg |-> f, ok |-> TRUE]
  <2>1. CASE c = "Number"
    <3>1. value.tag = 16 /\ value.num[1] = x
      BY <2>1 DEF IsValue
    <3>2. ValueOf(c, e, value) = NumberValue(e, value)
      BY <2>1 DEF ValueOf
    <3>3. NumberValue(e, value) = [msg |-> f, ok |-> TRUE]
      BY <1>2, <3>1 DEF NumberValue, Parsed
    <3> QED BY <3>2, <3>3
  <2>2. CASE c # "Number"
    <3>1. value.tag = 18 /\ value.whole = TRUE /\ Leads(c, new, value.sub, x)
      BY <2>2 DEF IsValue
    <3> DEFINE r == Every!Fold(c, Parsed(e.value, TRUE), value.sub)
    <3>2. r = [msg |-> x, ok |-> TRUE]
      BY <1>2, <3>1, FoldLeads DEF Parsed
    <3>3. ValueOf(c, e, value) = Parsed([e EXCEPT !.value = r.msg], r.ok /\ value.whole)
      BY <2>2, <3>1 DEF ValueOf
    <3> HIDE DEF r
    <3>4. r.msg = x /\ (r.ok /\ value.whole) = TRUE
      BY <3>1, <3>2
    <3> QED BY <1>2, <3>3, <3>4 DEF Parsed
  <2> QED BY <2>1, <2>2
<1>4. ~EndsMessage(value) /\ value.tag # 10
  BY DEF EndsMessage, IsValue
<1> HIDE DEF p
<1>5. p[1].ok = TRUE /\ p[1].msg = e
  BY <1>1
<1>6. AtEntry(c, p[1], value) = p[2]
  BY <1>1, <1>3, <1>4, <1>5 DEF AtEntry
<1> QED BY <1>6 DEF p

(* So that the entry is what was written. *)
LEMMA EntryGets ==
  ASSUME NEW c, NEW new, NEW key, key \notin NotUtf8, NEW x, NEW it, NEW tag, NEW value,
         IsEntry(it, tag, key, value), IsValue(c, new, value, x)
  PROVE  Entries!Fold(c, Base(new), it.sub) = [msg |-> [key |-> key, value |-> x], ok |-> TRUE]
<1>a. KeyRead(c, new, key, x, it)
  BY EntryKey
<1>b. AtEntry(c, EntryWay(new, key, x)[1], value) = EntryWay(new, key, x)[2]
  BY EntryValue
<1> DEFINE n == 2
           s == it.sub
           path == EntryWay(new, key, x)
<1>1. /\ path[0] = Base(new)
      /\ path[2] = [msg |-> [key |-> key, value |-> x], ok |-> TRUE]
  BY DEF EntryWay, Base, Parsed
<1> HIDE DEF path
<1>2. n \in Nat /\ DOMAIN s = 1..n /\ s[2] = value
  BY DEF IsEntry
<1> HIDE DEF s
<1>3. AtEntry(c, path[0], s[1]) = path[1] /\ AtEntry(c, path[1], s[2]) = path[2]
  BY <1>a, <1>b, <1>2 DEF path, s, KeyRead
<1>4. \A i \in 1..n : (i = 1 /\ i - 1 = 0) \/ (i = 2 /\ i - 1 = 1)
  OBVIOUS
<1> HIDE DEF n
<1>5. Entries!Follows(c, s, n, path)
  BY <1>3, <1>4 DEF Entries!Follows
<1>6. Entries!Fold(c, path[0], s) = path[n]
  BY <1>2, <1>5, Entries!FoldFollows
<1> QED BY <1>1, <1>6 DEF n, s

(* Each item in s is an entry of map, in the order of keys, with a value   *)
(* of class v.                                                             *)
Written(s, tag, v, new, map, keys) ==
  /\ s = [i \in DOMAIN keys |-> s[i]]
  /\ \A i \in DOMAIN keys :
       /\ keys[i] \notin NotUtf8
       /\ \E value : IsEntry(s[i], tag, keys[i], value) /\ IsValue(v, new, value, map[keys[i]])

(* Parsers put such entries into their map. *)
LEMMA EntriesPut ==
  ASSUME NEW c, NEW f, NEW tag \in {18, 26, 34, 50}, NEW v, NEW new, NEW map, NEW keys, NEW s,
         ReadsEntries(c, f, tag, v, new), Written(s, tag, v, new, map, keys)
  PROVE  Puts(c, f, map, keys, s)
<1>1. ASSUME NEW i \in DOMAIN keys
      PROVE  /\ ~EndsMessage(s[i])
             /\ \A x : TurnOf(c, x, s[i])
                        = [msg |-> [x EXCEPT ![f] = With(x[f], keys[i], map[keys[i]])], ok |-> TRUE]
  <2> DEFINE it == s[i]
             k == keys[i]
             y == map[k]
  <2>1. PICK value : IsEntry(it, tag, k, value) /\ IsValue(v, new, value, y)
    BY DEF Written
  <2>2. k \notin NotUtf8
    BY DEF Written
  <2> HIDE DEF it, k, y
  <2>3. Entries!Fold(v, Base(new), it.sub) = [msg |-> [key |-> k, value |-> y], ok |-> TRUE]
    BY <2>1, <2>2, EntryGets
  <2>4. it.tag = tag /\ it.whole = TRUE
    BY <2>1 DEF IsEntry
  <2>5. ~EndsMessage(it)
    BY <2>4 DEF EndsMessage
  <2>6. ASSUME NEW x
        PROVE  TurnOf(c, x, it) = [msg |-> [x EXCEPT ![f] = With(x[f], k, y)], ok |-> TRUE]
    <3> DEFINE r == Entries!Fold(v, Base(new), it.sub)
    <3>1. TurnOf(c, x, it) = Entry(x, f, r, it.whole)
      BY <2>4 DEF ReadsEntries
    <3>2. r.ok = TRUE /\ r.msg.key = k /\ r.msg.value = y
      BY <2>3
    <3> HIDE DEF r
    <3>3. Entry(x, f, r, it.whole) = [msg |-> [x EXCEPT ![f] = With(x[f], k, y)], ok |-> TRUE]
      BY <2>4, <3>2 DEF Entry, Parsed
    <3> QED BY <3>1, <3>3
  <2> QED BY <2>5, <2>6 DEF it, k, y
<1>2. s = [i \in DOMAIN keys |-> s[i]]
  BY DEF Written
<1> QED BY <1>1, <1>2 DEF Puts
------------------------------------------------------------------------------
(* Strings that can be read. *)

(* Of the items themselves, *)
Plain(s) == \A i \in DOMAIN s : s[i].str \notin NotUtf8

(* of an object's items and their entries, *)
CleanObject(it) == it.str \notin NotUtf8 /\ Plain(it.sub)

(* and of a message's, whose entries have objects. *)
CleanMessage(it) ==
  /\ it.str \notin NotUtf8 /\ Plain(it.sub)
  /\ \A j \in DOMAIN it.sub : \A i \in DOMAIN it.sub[j].sub : CleanObject(it.sub[j].sub[i])

(* Other messages have no strings. *)
CleanAs(d, it) == /\ d = "object" => CleanObject(it)
                  /\ d = "message" => CleanMessage(it)

(* A sequence of items whose strings can be read. *)
Clean(d, s) == \A i \in DOMAIN s : CleanAs(d, s[i])

(* The items in s are whole, and if one can read their strings, they lead  *)
(* from m to m2.                                                           *)
Reaches(d, c, m, s, m2) ==
  /\ Items(s) /\ \A i \in DOMAIN s : s[i].whole = TRUE
  /\ Clean(d, s) => Leads(c, m, s, m2)

(* One field after the other. *)
LEMMA ReachesOn ==
  ASSUME NEW d, NEW c, NEW m, NEW s, NEW m2, NEW t, NEW m3,
         Reaches(d, c, m, s, m2), Reaches(d, c, m2, t, m3)
  PROVE  Reaches(d, c, m, s \o t, m3)
<1>1. Items(s) /\ Items(t)
  BY DEF Reaches
<1> DEFINE u == s \o t
           n == Len(s)
           l == Len(t)
<1>2. /\ Items(u) /\ n \in Nat /\ DOMAIN s = 1..n /\ l \in Nat /\ DOMAIN t = 1..l
      /\ DOMAIN u = 1..(n + l)
      /\ \A i \in 1..(n + l) : u[i] = IF i <= n THEN s[i] ELSE t[i - n]
  BY <1>1, Concatenated
<1>3. Leads(c, m, s, m2) /\ Leads(c, m2, t, m3) => Leads(c, m, u, m3)
  BY LeadsOn
<1> HIDE DEF u, n, l
<1>4. \A i \in 1..n : i \in DOMAIN u /\ u[i] = s[i]
  BY <1>2
<1>5. \A i \in 1..l : n + i \in DOMAIN u /\ u[n + i] = t[i]
  <2> TAKE i \in 1..l
  <2>1. n + i \in 1..(n + l) /\ ~(n + i <= n) /\ (n + i) - n = i
    BY <1>2
  <2> QED BY <1>2, <2>1
<1>6. Clean(d, u) => Clean(d, s) /\ Clean(d, t)
  BY <1>2, <1>4, <1>5 DEF Clean
<1>7. \A i \in 1..(n + l) : u[i].whole = TRUE
  <2> TAKE i \in 1..(n + l)
  <2>1. CASE i <= n
    <3>1. i \in 1..n
      BY <1>2, <2>1
    <3> QED BY <1>2, <1>4, <3>1 DEF Reaches
  <2>2. CASE ~(i <= n)
    <3>1. i - n \in 1..l
      BY <1>2, <2>2
    <3> QED BY <1>2, <2>2, <3>1 DEF Reaches
  <2> QED BY <2>1, <2>2
<1>8. Reaches(d, c, m, u, m3)
  BY <1>2, <1>3, <1>6, <1>7 DEF Reaches
<1> QED BY <1>8 DEF u

(* Nothing written. *)
LEMMA ReachesNowhere ==
  ASSUME NEW d, NEW c, NEW m
  PROVE  Reaches(d, c, m, <<>>, m)
<1>1. Leads(c, m, <<>>, m)
  BY LeadsNowhere
<1>2. Items(<<>>) /\ \A i \in DOMAIN <<>> : FALSE
  BY DEF Items
<1> QED BY <1>1, <1>2 DEF Reaches

(* A message of which only the fields F were read. *)
Upto(m, new, F) == [f \in DOMAIN new |-> IF f \in F THEN m[f] ELSE new[f]]

(* A message that was made, with nothing nobody recognised. *)
IsA(m, new) == IsRecord(m) /\ DOMAIN m = DOMAIN new /\ m["unknown"] = <<>>

(* At the start and at the end. *)
LEMMA UptoEnds ==
  ASSUME NEW m, NEW new, IsA(new, new), IsA(m, new), NEW F, F \cup {"unknown"} = DOMAIN new
  PROVE  Upto(m, new, {}) = new /\ Upto(m, new, F) = m
<1>1. Upto(m, new, {}) = new
  BY DEF IsA, IsRecord, Upto
<1>2. \A f \in DOMAIN new : f \in F \/ (f \notin F /\ f = "unknown")
  OBVIOUS
<1>3. \A f \in DOMAIN new : (IF f \in F THEN m[f] ELSE new[f]) = m[f]
  BY <1>2 DEF IsA
<1>4. Upto(m, new, F) = [f \in DOMAIN new |-> m[f]]
  BY <1>3 DEF Upto
<1> QED BY <1>1, <1>4 DEF IsA, IsRecord

(* Messages that differ in one field. *)
Differ(a, b, f, x, y) == IsRecord(a) /\ f \in DOMAIN a /\ a[f] = x /\ b = [a EXCEPT ![f] = y]

(* In between. *)
LEMMA UptoNext ==
  ASSUME NEW m, NEW new, NEW F, NEW f \in DOMAIN new, f \notin F
  PROVE  Differ(Upto(m, new, F), Upto(m, new, F \cup {f}), f, new[f], m[f])
BY DEF IsRecord, Upto, Differ

(* What class c does with a tag. *)
ReadsNumber(c, f, tag) == \A m, it : it.tag = tag => TurnOf(c, m, it) = SetNumber(m, f, it)

(* Packed numbers, *)
ReadsNumbers(c, f, tag) == \A m, it : it.tag = tag => TurnOf(c, m, it) = AddNumbers(m, f, it)

(* a string, *)
ReadsString(c, f, tag) == \A m, it : it.tag = tag => TurnOf(c, m, it) = SetString(m, f, it)

(* one of several strings. *)
ReadsStrings(c, f, tag) == \A m, it : it.tag = tag => TurnOf(c, m, it) = AddString(m, f, it)

(* The tags there are; none of them ends a message. *)
Tags == {8, 9, 10, 16, 17, 18, 24, 25, 26, 34, 42, 48, 50, 58, 66, 74, 82, 98, 106, 113}

(* An item that was written. *)
IsWritten(it, tag) == it.tag = tag /\ it.whole = TRUE

(* It does not end a message. *)
LEMMA WrittenGoesOn ==
  ASSUME NEW tag \in Tags, NEW it, IsWritten(it, tag)
  PROVE  ~EndsMessage(it)
BY DEF Tags, IsWritten, EndsMessage

(* An item that may not be written. *)
LEMMA ReachesIf ==
  ASSUME NEW d, NEW c, NEW m, NEW it, it.whole = TRUE, NEW condition \in BOOLEAN, NEW m2,
         CleanAs(d, it) \/ ~condition => Leads(c, m, If(condition, it), m2)
  PROVE  Reaches(d, c, m, If(condition, it), m2)
<1>1. CASE condition
  <2> DEFINE s == <<it>>
  <2>1. s = [i \in 1..1 |-> s[i]] /\ s[1] = it /\ DOMAIN s = {1}
    OBVIOUS
  <2> HIDE DEF s
  <2>2. Items(s)
    BY <2>1, ItemsOf
  <2>3. If(condition, it) = s
    BY <1>1 DEF If, s
  <2>4. Clean(d, s) => CleanAs(d, it)
    BY <2>1 DEF Clean
  <2>5. Reaches(d, c, m, s, m2)
    BY <2>1, <2>2, <2>3, <2>4 DEF Reaches
  <2> QED BY <2>3, <2>5
<1>2. CASE ~condition
  <2>1. If(condition, it) = <<>>
    BY <1>2 DEF If
  <2>2. Items(<<>>) /\ \A i \in DOMAIN <<>> : FALSE
    BY DEF Items
  <2> QED BY <1>2, <2>1, <2>2 DEF Reaches
<1> QED BY <1>1, <1>2

(* A number. *)
LEMMA ReachesNumber ==
  ASSUME NEW d, NEW c, NEW m, NEW new, NEW F, NEW f \in DOMAIN new, f \notin F, new[f] = 0,
         NEW tag \in Tags, ReadsNumber(c, f, tag), NEW it, IsWritten(it, tag), it.num = <<m[f]>>
  PROVE  Reaches(d, c, Upto(m, new, F), If(m[f] # 0, it), Upto(m, new, F \cup {f}))
<1> DEFINE a == Upto(m, new, F)
           b == Upto(m, new, F \cup {f})
           x == m[f]
<1>0. Differ(a, b, f, new[f], m[f])
  BY UptoNext
<1> HIDE DEF a, b
<1>1. IsRecord(a) /\ a[f] = 0 /\ b = [a EXCEPT ![f] = x]
  BY <1>0 DEF Differ
<1>2. ~EndsMessage(it) /\ it.whole = TRUE /\ TurnOf(c, a, it) = SetNumber(a, f, it)
  BY WrittenGoesOn DEF ReadsNumber, IsWritten
<1> HIDE DEF a, b, x
<1>3. Leads(c, a, If(x # 0, it), b)
  BY <1>1, <1>2, LeadsNumber DEF x
<1>4. (x # 0) \in BOOLEAN
  OBVIOUS
<1>5. Reaches(d, c, a, If(x # 0, it), b)
  BY <1>2, <1>3, <1>4, ReachesIf
<1> QED BY <1>5 DEF a, b, x

(* A string. *)
LEMMA ReachesString ==
  ASSUME NEW d \in {"object", "message"}, NEW c, NEW m, NEW new, NEW F,
         NEW f \in DOMAIN new, f \notin F, new[f] = "",
         NEW tag \in Tags, ReadsString(c, f, tag), NEW it, IsWritten(it, tag), it.str = m[f]
  PROVE  Reaches(d, c, Upto(m, new, F), If(m[f] # "", it), Upto(m, new, F \cup {f}))
<1> DEFINE a == Upto(m, new, F)
           b == Upto(m, new, F \cup {f})
           x == m[f]
<1>0. Differ(a, b, f, new[f], m[f])
  BY UptoNext
<1> HIDE DEF a, b
<1>1. IsRecord(a) /\ a[f] = "" /\ b = [a EXCEPT ![f] = x]
  BY <1>0 DEF Differ
<1>2. ~EndsMessage(it) /\ it.whole = TRUE /\ TurnOf(c, a, it) = SetString(a, f, it)
  BY WrittenGoesOn DEF ReadsString, IsWritten
<1>3. CleanAs(d, it) => x \notin NotUtf8
  BY DEF CleanAs, CleanObject, CleanMessage
<1> HIDE DEF a, b, x
<1>4. CleanAs(d, it) \/ ~(x # "") => Leads(c, a, If(x # "", it), b)
  BY <1>1, <1>2, <1>3, LeadsString DEF x
<1>5. (x # "") \in BOOLEAN
  OBVIOUS
<1>6. Reaches(d, c, a, If(x # "", it), b)
  BY <1>2, <1>4, <1>5, ReachesIf
<1> QED BY <1>6 DEF a, b, x

(* Packed numbers as they are written. *)
Packed(s, tag, xs) == \E size : s = If(xs # <<>>, Item(tag, xs, "", <<>>, size))

(* A field of packed numbers is read as it was written. *)
LEMMA ReachesPacked ==
  ASSUME NEW d, NEW c, NEW m, NEW new, NEW F, NEW f \in DOMAIN new, f \notin F, new[f] = <<>>,
         Items(m[f]), NEW tag \in Tags, ReadsNumbers(c, f, tag), NEW s, Packed(s, tag, m[f])
  PROVE  Reaches(d, c, Upto(m, new, F), s, Upto(m, new, F \cup {f}))
<1> DEFINE a == Upto(m, new, F)
           b == Upto(m, new, F \cup {f})
           xs == m[f]
<1>0. Differ(a, b, f, new[f], m[f])
  BY UptoNext
<1> HIDE DEF a, b
<1>1. IsRecord(a) /\ a[f] = <<>> /\ f \in DOMAIN a /\ b = [a EXCEPT ![f] = xs]
  BY <1>0 DEF Differ
<1>2. PICK size : s = If(xs # <<>>, Item(tag, xs, "", <<>>, size))
  BY DEF Packed
<1> DEFINE it == Item(tag, xs, "", <<>>, size)
<1>3. IsWritten(it, tag) /\ it.num = xs
  BY DEF IsWritten, Item
<1> HIDE DEF a, b, xs, it
<1>4. ~EndsMessage(it) /\ it.whole = TRUE /\ TurnOf(c, a, it) = AddNumbers(a, f, it)
  BY <1>3, WrittenGoesOn DEF ReadsNumbers, IsWritten
<1>5. Leads(c, a, If(xs # <<>>, it), b)
  BY <1>1, <1>3, <1>4, LeadsPacked DEF xs
<1>6. (xs # <<>>) \in BOOLEAN
  OBVIOUS
<1>7. Reaches(d, c, a, If(xs # <<>>, it), b)
  BY <1>4, <1>5, <1>6, ReachesIf
<1> QED BY <1>2, <1>7 DEF a, b, xs, it

(* Several strings, or messages: what the parser does with each. *)
Each(d, c, f, xs, s) ==
  /\ Items(xs) /\ s = [i \in DOMAIN xs |-> s[i]]
  /\ \A i \in DOMAIN xs :
       /\ s[i].whole = TRUE /\ ~EndsMessage(s[i])
       /\ CleanAs(d, s[i]) =>
            \A x : TurnOf(c, x, s[i]) = [msg |-> [x EXCEPT ![f] = Append(x[f], xs[i])], ok |-> TRUE]

(* So is a field whose elements are appended one by one. *)
LEMMA ReachesEach ==
  ASSUME NEW d, NEW c, NEW m, NEW new, NEW F, NEW f \in DOMAIN new, f \notin F, new[f] = <<>>,
         NEW s, Each(d, c, f, m[f], s)
  PROVE  Reaches(d, c, Upto(m, new, F), s, Upto(m, new, F \cup {f}))
<1> DEFINE a == Upto(m, new, F)
           b == Upto(m, new, F \cup {f})
           xs == m[f]
<1>0. Differ(a, b, f, new[f], m[f])
  BY UptoNext
<1> HIDE DEF a, b
<1>1. IsRecord(a) /\ a[f] = <<>> /\ f \in DOMAIN a /\ b = [a EXCEPT ![f] = xs]
  BY <1>0 DEF Differ
<1> HIDE DEF a, b, xs
<1>2. Each(d, c, f, xs, s)
  BY DEF xs
<1>3. DOMAIN s = DOMAIN xs
  BY <1>2 DEF Each
<1>4. Items(s) /\ \A i \in DOMAIN s : s[i].whole = TRUE
  <2> DEFINE n == Len(xs)
  <2>1. n \in Nat /\ DOMAIN xs = 1..n
    BY <1>2, ItemsDomain DEF Each
  <2>2. s = [i \in 1..n |-> s[i]]
    BY <1>2, <2>1 DEF Each
  <2> HIDE DEF n
  <2> QED BY <1>2, <1>3, <2>1, <2>2, ItemsOf DEF Each
<1>5. Clean(d, s) => Appends(c, f, xs, s)
  BY <1>2, <1>3 DEF Each, Appends, Clean
<1>6. Appends(c, f, xs, s) => Leads(c, a, s, b)
  BY <1>1, LeadsEach
<1>7. Reaches(d, c, a, s, b)
  BY <1>4, <1>5, <1>6 DEF Reaches
<1> QED BY <1>7 DEF a, b

(* Several strings, *)
LEMMA ReachesStrings ==
  ASSUME NEW d \in {"object", "message"}, NEW c, NEW m, NEW new, NEW F,
         NEW f \in DOMAIN new, f \notin F, new[f] = <<>>,
         Items(m[f]), NEW tag \in Tags, ReadsStrings(c, f, tag)
  PROVE  Reaches(d, c, Upto(m, new, F), WriteStrings(tag, m[f]), Upto(m, new, F \cup {f}))
<1> DEFINE xs == m[f]
           s == WriteStrings(tag, xs)
<1>1. s = [i \in DOMAIN xs |-> WriteString(tag, xs[i])]
  BY DEF WriteStrings
<1> HIDE DEF s
<1>2. s = [i \in DOMAIN xs |-> s[i]]
  BY <1>1
<1>3. ASSUME NEW i \in DOMAIN xs
      PROVE  /\ s[i].whole = TRUE /\ ~EndsMessage(s[i])
             /\ CleanAs(d, s[i]) =>
                  \A x : TurnOf(c, x, s[i])
                           = [msg |-> [x EXCEPT ![f] = Append(x[f], xs[i])], ok |-> TRUE]
  <2> DEFINE it == s[i]
             y == xs[i]
  <2>1. IsWritten(it, tag) /\ it.str = y
    BY <1>1 DEF WriteString, Item, IsWritten
  <2> HIDE DEF it, y, xs
  <2>2. ~EndsMessage(it) /\ it.whole = TRUE /\ \A x : TurnOf(c, x, it) = AddString(x, f, it)
    BY <2>1, WrittenGoesOn DEF ReadsStrings, IsWritten
  <2>3. CleanAs(d, it) => y \notin NotUtf8
    BY <2>1 DEF CleanAs, CleanObject, CleanMessage
  <2>4. ASSUME CleanAs(d, it), NEW x
        PROVE  AddString(x, f, it) = [msg |-> [x EXCEPT ![f] = Append(x[f], y)], ok |-> TRUE]
    BY <2>1, <2>2, <2>3, <2>4 DEF AddString, Parsed
  <2>5. /\ it.whole = TRUE /\ ~EndsMessage(it)
        /\ CleanAs(d, it) =>
             \A x : TurnOf(c, x, it) = [msg |-> [x EXCEPT ![f] = Append(x[f], y)], ok |-> TRUE]
    BY <2>2, <2>4
  <2> QED BY <2>5 DEF it, y
<1>4. Each(d, c, f, xs, s)
  BY <1>2, <1>3 DEF Each
<1> HIDE DEF xs
<1>5. Reaches(d, c, Upto(m, new, F), s, Upto(m, new, F \cup {f}))
  BY <1>4, ReachesEach DEF xs
<1> QED BY <1>5 DEF s, xs

(* What AddMessage() does with a message that it can read. *)
Extended(m, f, x) == [msg |-> [m EXCEPT ![f] = Append(m[f], x)], ok |-> TRUE]

(* and several messages. *)
ReadsMessages(c, f, tag, v, new) ==
  \A m, it, x : IsWritten(it, tag) /\ Leads(v, new, it.sub, x)
                 => TurnOf(c, m, it) = Extended(m, f, x)

(* A field of several messages is read as it was written. *)
LEMMA ReachesMessages ==
  ASSUME NEW d, NEW c, NEW m, NEW new, NEW F, NEW f \in DOMAIN new, f \notin F, new[f] = <<>>,
         Items(m[f]), NEW tag \in Tags, NEW v, NEW newv, ReadsMessages(c, f, tag, v, newv),
         NEW s, s = [i \in DOMAIN m[f] |-> s[i]],
         \A i \in DOMAIN m[f] : IsWritten(s[i], tag) /\ Leads(v, newv, s[i].sub, m[f][i])
  PROVE  Reaches(d, c, Upto(m, new, F), s, Upto(m, new, F \cup {f}))
<1> DEFINE xs == m[f]
<1>3. ASSUME NEW i \in DOMAIN xs
      PROVE  /\ s[i].whole = TRUE /\ ~EndsMessage(s[i])
             /\ CleanAs(d, s[i]) =>
                  \A x : TurnOf(c, x, s[i])
                           = [msg |-> [x EXCEPT ![f] = Append(x[f], xs[i])], ok |-> TRUE]
  <2> DEFINE it == s[i]
             y == xs[i]
  <2>1. IsWritten(it, tag) /\ Leads(v, newv, it.sub, y)
    OBVIOUS
  <2> HIDE DEF it, y, xs
  <2>2. ~EndsMessage(it) /\ it.whole = TRUE /\ it.tag = tag
    BY <2>1, WrittenGoesOn DEF IsWritten
  <2>3. \A x : TurnOf(c, x, it) = [msg |-> [x EXCEPT ![f] = Append(x[f], y)], ok |-> TRUE]
    BY <2>1, <2>2 DEF ReadsMessages, Extended
  <2> QED BY <2>2, <2>3 DEF it, y
<1>4. Each(d, c, f, xs, s)
  BY <1>3 DEF Each
<1> QED BY <1>4, ReachesEach

(* The entries of a map as they are written, if one can read their strings. *)
Entering(d, s, tag, v, new, map, keys) ==
  /\ s = [i \in DOMAIN keys |-> s[i]]
  /\ \A i \in DOMAIN keys :
       \E value : /\ IsEntry(s[i], tag, keys[i], value)
                  /\ CleanAs(d, s[i]) => IsValue(v, new, value, map[keys[i]])

(* A map is read as it was written, in whatever order. *)
LEMMA ReachesMap ==
  ASSUME NEW d \in {"object", "message"}, NEW c, NEW m, NEW new, NEW F,
         NEW f \in DOMAIN new, f \notin F, new[f] = NoEntries, IsMap(m[f]),
         NEW tag \in {18, 26, 34, 50}, NEW v, NEW newv, ReadsEntries(c, f, tag, v, newv),
         NEW order, NEW s, Entering(d, s, tag, v, newv, m[f], Ordered(DOMAIN m[f], order))
  PROVE  Reaches(d, c, Upto(m, new, F), s, Upto(m, new, F \cup {f}))
<1> DEFINE a == Upto(m, new, F)
           b == Upto(m, new, F \cup {f})
           map == m[f]
           keys == Ordered(DOMAIN map, order)
<1>0. Differ(a, b, f, new[f], m[f])
  BY UptoNext
<1> HIDE DEF a, b
<1>1. IsRecord(a) /\ a[f] = NoEntries /\ f \in DOMAIN a /\ b = [a EXCEPT ![f] = map]
  BY <1>0 DEF Differ
<1>2. PICK n \in Nat : DOMAIN keys = 1..n
  BY OrderedDomain DEF IsMap
<1>3. IsMap(map) /\ Entering(d, s, tag, v, newv, map, keys)
  OBVIOUS
<1> HIDE DEF a, b, map, keys
<1>4. Items(s) /\ DOMAIN s = DOMAIN keys
  <2>1. s = [i \in 1..n |-> s[i]]
    BY <1>2, <1>3 DEF Entering
  <2> QED BY <1>2, <2>1, ItemsOf
<1>5. \A i \in DOMAIN s : s[i].whole = TRUE
  BY <1>3, <1>4 DEF Entering, IsEntry
<1>6. ASSUME Clean(d, s) PROVE Leads(c, a, s, b)
  <2>1. ASSUME NEW i \in DOMAIN keys
        PROVE  /\ keys[i] \notin NotUtf8
               /\ \E value : /\ IsEntry(s[i], tag, keys[i], value)
                              /\ IsValue(v, newv, value, map[keys[i]])
    <3>1. CleanAs(d, s[i])
      BY <1>4, <1>6 DEF Clean
    <3>2. PICK value : IsEntry(s[i], tag, keys[i], value) /\ IsValue(v, newv, value, map[keys[i]])
      BY <1>3, <3>1 DEF Entering
    <3>3. 1 \in DOMAIN s[i].sub /\ s[i].sub[1].str = keys[i]
      BY <3>2 DEF IsEntry
    <3>4. keys[i] \notin NotUtf8
      BY <3>1, <3>3 DEF CleanAs, CleanObject, CleanMessage, Plain
    <3> QED BY <3>2, <3>4
  <2>2. Written(s, tag, v, newv, map, keys)
    BY <1>3, <2>1 DEF Entering, Written
  <2>3. Puts(c, f, map, keys, s)
    BY <2>2, EntriesPut
  <2> QED BY <1>1, <1>3, <2>3, LeadsMap DEF keys
<1>7. Reaches(d, c, a, s, b)
  BY <1>4, <1>5, <1>6 DEF Reaches
<1> QED BY <1>7 DEF a, b
------------------------------------------------------------------------------
(* Class by class. *)

(* Packed numbers. *)
LEMMA PackedEight ==
  ASSUME NEW tag, NEW xs
  PROVE  Packed(WritePacked(tag, xs, EightBytes), tag, xs)
BY Zenon DEF Packed, WritePacked

(* Numbers of whatever size. *)
LEMMA PackedNumbers ==
  ASSUME NEW tag, NEW xs
  PROVE  Packed(WritePacked(tag, xs, SizeNumber), tag, xs)
BY Zenon DEF Packed, WritePacked

(* A scalar. *)
LEMMA WrittenScalar ==
  ASSUME NEW tag, NEW x
  PROVE  /\ IsWritten(WriteVarint(tag, x), tag) /\ WriteVarint(tag, x).num = <<x>>
         /\ IsWritten(WriteDouble(tag, x), tag) /\ WriteDouble(tag, x).num = <<x>>
         /\ IsWritten(WriteString(tag, x), tag) /\ WriteString(tag, x).str = x
         /\ IsWritten(WriteSub(tag, x), tag) /\ WriteSub(tag, x).sub = x
BY DEF IsWritten, WriteVarint, WriteDouble, WriteString, WriteSub, Item

(* A vector. *)
IsVec3(v) == IsA(v, NewSensorMessage_Vec3) /\ Items(v.arr)

(* It is read as it was written. *)
LEMMA Vec3Reached ==
  ASSUME NEW d, NEW v, IsVec3(v)
  PROVE  Reaches(d, "SensorMessage_Vec3", NewSensorMessage_Vec3, WriteSensorMessage_Vec3(v), v)
<1> DEFINE c == "SensorMessage_Vec3"
           new == NewSensorMessage_Vec3
           F == {} \cup {"arr"}
           s == WritePacked(10, v.arr, EightBytes)
<1>1. IsA(new, new) /\ DOMAIN new = {"arr", "unknown"} /\ new["arr"] = <<>>
  BY DEF NewSensorMessage_Vec3, IsA, IsRecord
<1>2. IsA(v, new) /\ Items(v["arr"]) /\ v.unknown = <<>>
  BY DEF IsVec3, IsA
<1>3. ReadsNumbers(c, "arr", 10)
  BY DEF ReadsNumbers, TurnOf, ParseSensorMessage_Vec3
<1>4. Packed(s, 10, v["arr"])
  BY PackedEight
<1>5. 10 \in Tags /\ "arr" \notin {}
  BY DEF Tags
<1> HIDE DEF c, new, s
<1>6. Reaches(d, c, Upto(v, new, {}), s, Upto(v, new, F))
  BY <1>1, <1>2, <1>3, <1>4, <1>5, ReachesPacked
<1>7. Upto(v, new, {}) = new /\ Upto(v, new, F) = v
  <2>1. F \cup {"unknown"} = DOMAIN new
    BY <1>1
  <2> HIDE DEF F
  <2> QED BY <1>1, <1>2, <2>1, UptoEnds
<1>8. Reaches(d, c, v, <<>>, v)
  BY ReachesNowhere
<1>9. Reaches(d, c, new, s \o <<>>, v)
  BY <1>6, <1>7, <1>8, ReachesOn
<1>10. WriteSensorMessage_Vec3(v) = s \o <<>>
  BY <1>2 DEF WriteSensorMessage_Vec3, s
<1> QED BY <1>9, <1>10 DEF c, new

(* A message that has one number. *)
LEMMA OneNumberReached ==
  ASSUME NEW d, NEW m, NEW c, NEW f, NEW new,
         \/ /\ c = "HandshakeMessage_SimulationSettings" /\ f = "timeStep"
            /\ new = NewHandshakeMessage_SimulationSettings
         \/ /\ c = "SensorMessage_SimulationVariables" /\ f = "simulatedTime"
            /\ new = NewSensorMessage_SimulationVariables,
         IsA(m, new)
  PROVE  Reaches(d, c, new, If(m[f] # 0, WriteDouble(9, m[f])) \o <<>>, m)
<1> DEFINE F == {} \cup {f}
           s == If(m[f] # 0, WriteDouble(9, m[f]))
<1>1. IsA(new, new) /\ DOMAIN new = {f, "unknown"} /\ new[f] = 0
  <2>1. CASE c = "HandshakeMessage_SimulationSettings"
    BY <2>1 DEF NewHandshakeMessage_SimulationSettings, IsA, IsRecord
  <2>2. CASE c = "SensorMessage_SimulationVariables"
    BY <2>2 DEF NewSensorMessage_SimulationVariables, IsA, IsRecord
  <2> QED BY <2>1, <2>2
<1>2. ReadsNumber(c, f, 9)
  BY DEF ReadsNumber, TurnOf, ParseHandshakeMessage_SimulationSettings,
         ParseSensorMessage_SimulationVariables
<1>3. 9 \in Tags /\ f \notin {}
  BY DEF Tags
<1>4. Reaches(d, c, Upto(m, new, {}), s, Upto(m, new, F))
  <2> DEFINE it == WriteDouble(9, m[f])
  <2>1. IsWritten(it, 9) /\ it.num = <<m[f]>>
    BY WrittenScalar
  <2> HIDE DEF it
  <2>2. Reaches(d, c, Upto(m, new, {}), If(m[f] # 0, it), Upto(m, new, F))
    BY <1>1, <1>2, <1>3, <2>1, ReachesNumber
  <2> QED BY <2>2 DEF it
<1> HIDE DEF s
<1>5. Upto(m, new, {}) = new /\ Upto(m, new, F) = m
  <2>1. F \cup {"unknown"} = DOMAIN new
    BY <1>1
  <2> HIDE DEF F
  <2> QED BY <1>1, <2>1, UptoEnds
<1>6. Reaches(d, c, m, <<>>, m)
  BY ReachesNowhere
<1>7. Reaches(d, c, new, s \o <<>>, m)
  BY <1>4, <1>5, <1>6, ReachesOn
<1> QED BY <1>7 DEF s

(* Types of sensors. *)
IsHandshakeSensors(m) == IsA(m, NewHandshakeMessage_Sensors) /\ Items(m.types)

(* They are read as they were written. *)
LEMMA HandshakeSensorsReached ==
  ASSUME NEW d, NEW m, IsHandshakeSensors(m)
  PROVE  Reaches(d, "HandshakeMessage_Sensors", NewHandshakeMessage_Sensors,
                 WriteHandshakeMessage_Sensors(m), m)
<1> DEFINE c == "HandshakeMessage_Sensors"
           new == NewHandshakeMessage_Sensors
           F == {} \cup {"types"}
           s == WritePacked(10, m.types, SizeNumber)
<1>1. IsA(new, new) /\ DOMAIN new = {"types", "unknown"} /\ new["types"] = <<>>
  BY DEF NewHandshakeMessage_Sensors, IsA, IsRecord
<1>2. IsA(m, new) /\ Items(m["types"]) /\ m.unknown = <<>>
  BY DEF IsHandshakeSensors, IsA
<1>3. ReadsNumbers(c, "types", 10)
  BY DEF ReadsNumbers, TurnOf, ParseHandshakeMessage_Sensors
<1>4. Packed(s, 10, m["types"])
  BY PackedNumbers
<1>5. 10 \in Tags /\ "types" \notin {}
  BY DEF Tags
<1> HIDE DEF c, new, s
<1>6. Reaches(d, c, Upto(m, new, {}), s, Upto(m, new, F))
  BY <1>1, <1>2, <1>3, <1>4, <1>5, ReachesPacked
<1>7. Upto(m, new, {}) = new /\ Upto(m, new, F) = m
  <2>1. F \cup {"unknown"} = DOMAIN new
    BY <1>1
  <2> HIDE DEF F
  <2> QED BY <1>1, <1>2, <2>1, UptoEnds
<1>8. Reaches(d, c, m, <<>>, m)
  BY ReachesNowhere
<1>9. Reaches(d, c, new, s \o <<>>, m)
  BY <1>6, <1>7, <1>8, ReachesOn
<1>10. WriteHandshakeMessage_Sensors(m) = s \o <<>>
  BY <1>2 DEF WriteHandshakeMessage_Sensors, s
<1> QED BY <1>9, <1>10 DEF c, new

(* A sensor: nothing, a number or a vector. *)
IsSensor(m) ==
  \/ m = NewSensorMessage_Sensor
  \/ \E case \in DoubleCases \cup {BoolCase} : \E x : m = SetScalar(NewSensorMessage_Sensor, case,
                                                                    x)
  \/ \E case \in Vec3Cases : \E v : IsVec3(v) /\ m = SetVec3(NewSensorMessage_Sensor, case, v)

(* Nested messages that can be read whatever stands in them. *)
LEMMA WhatIsReached ==
  ASSUME NEW c, NEW m, NEW s, NEW m2, Reaches("value", c, m, s, m2)
  PROVE  Leads(c, m, s, m2)
<1>1. Clean("value", s)
  BY DEF Clean, CleanAs
<1> QED BY <1>1 DEF Reaches

(* What a parser of sensors does with a number and with a vector. *)
LEMMA SensorTurns ==
  ASSUME NEW it, it.whole = TRUE
  PROVE  /\ \A x : it.tag \in DoubleCases \cup {BoolCase} /\ it.num = <<x>>
              => TurnOf("SensorMessage_Sensor", NewSensorMessage_Sensor, it)
                   = [msg |-> SetScalar(NewSensorMessage_Sensor, it.tag, x), ok |-> TRUE]
         /\ \A v : it.tag \in Vec3Cases
                   /\ Leads("SensorMessage_Vec3", NewSensorMessage_Vec3, it.sub, v)
              => TurnOf("SensorMessage_Sensor", NewSensorMessage_Sensor, it)
                   = [msg |-> SetVec3(NewSensorMessage_Sensor, it.tag, v), ok |-> TRUE]
<1> DEFINE c == "SensorMessage_Sensor"
           new == NewSensorMessage_Sensor
<1>1. ASSUME NEW x, it.tag \in DoubleCases \cup {BoolCase}, it.num = <<x>>
      PROVE  TurnOf(c, new, it) = [msg |-> SetScalar(new, it.tag, x), ok |-> TRUE]
  <2>1. it.tag \notin Vec3Cases /\ it.num[1] = x
    BY <1>1 DEF DoubleCases, BoolCase, Vec3Cases
  <2>2. ParseSensorMessage_Sensor(new, it) = Parsed(SetScalar(new, it.tag, it.num[1]), it.whole)
    BY <1>1, <2>1 DEF ParseSensorMessage_Sensor
  <2> HIDE DEF new
  <2>3. TurnOf(c, new, it) = ParseSensorMessage_Sensor(new, it)
    BY DEF TurnOf
  <2> QED BY <2>1, <2>2, <2>3 DEF Parsed
<1>2. ASSUME NEW v, it.tag \in Vec3Cases,
             Leads("SensorMessage_Vec3", NewSensorMessage_Vec3, it.sub, v)
      PROVE  TurnOf(c, new, it) = [msg |-> SetVec3(new, it.tag, v), ok |-> TRUE]
  <2>1. it.tag \notin DoubleCases \cup {BoolCase} /\ it.tag # 0
    BY <1>2 DEF DoubleCases, BoolCase, Vec3Cases
  <2>2. MutableVec3(new, it.tag) = NewSensorMessage_Vec3
    BY <2>1 DEF MutableVec3, NewSensorMessage_Sensor
  <2> DEFINE r == ParseItems(ParseSensorMessage_Vec3, NewSensorMessage_Vec3, it.sub)
             r2 == ParseItems(ParseSensorMessage_Vec3, MutableVec3(new, it.tag), it.sub)
  <2> HIDE DEF new
  <2>3. ParseSensorMessage_Sensor(new, it) = Parsed(SetVec3(new, it.tag, r2.msg), r2.ok /\ it.whole)
    BY Zenon, <1>2, <2>1 DEF ParseSensorMessage_Sensor
  <2>4. r2 = r
    BY Zenon, <2>2
  <2>5. r = [msg |-> v, ok |-> TRUE]
    <3>1. Every!Fold("SensorMessage_Vec3", [msg |-> NewSensorMessage_Vec3, ok |-> TRUE], it.sub)
            = [msg |-> v, ok |-> TRUE]
      BY <1>2, FoldLeads
    <3>2. r = Every!Fold("SensorMessage_Vec3", Parsed(NewSensorMessage_Vec3, TRUE), it.sub)
      BY SensorMessage_Vec3Parses
    <3> QED BY Zenon, <3>1, <3>2 DEF Parsed
  <2> HIDE DEF r, r2
  <2>6. TurnOf(c, new, it) = ParseSensorMessage_Sensor(new, it)
    BY DEF TurnOf
  <2>7. r2.msg = v /\ (r2.ok /\ it.whole) = TRUE
    BY <2>4, <2>5
  <2> QED BY <2>3, <2>6, <2>7 DEF Parsed
<1> QED BY <1>1, <1>2

(* Setting a number again to what it is. *)
LEMMA ScalarAgain ==
  ASSUME NEW case, NEW x, NEW m, m = SetScalar(NewSensorMessage_Sensor, case, x)
  PROVE  /\ m = [f \in DOMAIN m |-> m[f]] /\ DOMAIN m = {"case", "num", "vec", "unknown"}
         /\ m.case = case /\ m.vec = NewSensorMessage_Vec3 /\ m.unknown = <<>>
         /\ m = SetScalar(NewSensorMessage_Sensor, case, m.num)
<1> DEFINE new == NewSensorMessage_Sensor
           n == IF case = BoolCase THEN Truth(x) ELSE x
<1>1. n = IF case = BoolCase THEN Truth(n) ELSE n
  BY DEF Truth
<1>2. /\ new = [f \in DOMAIN new |-> new[f]] /\ DOMAIN new = {"case", "num", "vec", "unknown"}
      /\ new.unknown = <<>>
  BY DEF NewSensorMessage_Sensor
<1>3. m = [new EXCEPT !.case = case, !.num = n, !.vec = NewSensorMessage_Vec3]
  BY DEF SetScalar
<1> HIDE DEF new, n
<1>4. /\ m = [f \in DOMAIN m |-> m[f]] /\ DOMAIN m = {"case", "num", "vec", "unknown"}
      /\ m.case = case /\ m.num = n /\ m.vec = NewSensorMessage_Vec3 /\ m.unknown = <<>>
  BY <1>2, <1>3
<1>5. SetScalar(new, case, n) = m
  BY <1>1, <1>3 DEF SetScalar
<1> QED BY <1>4, <1>5 DEF new

(* A sensor is read as it was written. *)
LEMMA SensorReached ==
  ASSUME NEW d, NEW m, IsSensor(m)
  PROVE  Reaches(d, "SensorMessage_Sensor", NewSensorMessage_Sensor, WriteSensorMessage_Sensor(m),
                 m)
<1> DEFINE c == "SensorMessage_Sensor"
           new == NewSensorMessage_Sensor
           P == m.case \in DoubleCases
           Q == m.case = BoolCase
           R == m.case \in Vec3Cases
           p == WriteDouble(m.case, m.num)
           q == WriteVarint(BoolCase, m.num)
           r == WriteSub(m.case, WriteSensorMessage_Vec3(m.vec))
           x == IF P THEN m ELSE new
           y == IF P \/ Q THEN m ELSE new
<1>1. /\ m.unknown = <<>>
      /\ P \/ Q => m = SetScalar(new, m.case, m.num)
      /\ R => IsVec3(m.vec) /\ m = SetVec3(new, m.case, m.vec)
      /\ ~(P /\ Q) /\ ~(P /\ R) /\ ~(Q /\ R)
      /\ ~P /\ ~Q /\ ~R => m = new
  <2> USE DEF NewSensorMessage_Sensor, DoubleCases, BoolCase, Vec3Cases
  <2>1. CASE m = NewSensorMessage_Sensor
    BY <2>1
  <2>2. CASE \E case \in DoubleCases \cup {BoolCase} : \E z :
               m = SetScalar(NewSensorMessage_Sensor, case, z)
    <3>1. PICK case \in DoubleCases \cup {BoolCase} : \E z :
            m = SetScalar(NewSensorMessage_Sensor, case, z)
      BY <2>2
    <3>2. m.unknown = <<>> /\ m.case = case /\ m = SetScalar(NewSensorMessage_Sensor, case, m.num)
      BY <3>1, ScalarAgain
    <3> HIDE DEF NewSensorMessage_Sensor
    <3> QED BY <3>1, <3>2
  <2>3. CASE \E case \in Vec3Cases : \E v : IsVec3(v) /\ m = SetVec3(NewSensorMessage_Sensor, case,
                                                                     v)
    BY <2>3 DEF SetVec3
  <2> QED BY <2>1, <2>2, <2>3 DEF IsSensor
<1>2. /\ p.whole = TRUE /\ p.tag = m.case /\ p.num = <<m.num>>
      /\ q.whole = TRUE /\ q.tag = BoolCase /\ q.num = <<m.num>>
      /\ r.whole = TRUE /\ r.tag = m.case /\ r.sub = WriteSensorMessage_Vec3(m.vec)
  BY DEF WriteDouble, WriteVarint, WriteSub, Item
<1>3. /\ P => ~EndsMessage(p)
      /\ Q => ~EndsMessage(q)
      /\ R => ~EndsMessage(r)
  BY <1>2 DEF EndsMessage, DoubleCases, BoolCase, Vec3Cases
<1>4. R => Leads("SensorMessage_Vec3", NewSensorMessage_Vec3, r.sub, m.vec)
  BY <1>1, <1>2, Vec3Reached, WhatIsReached
<1> HIDE DEF c, new, p, q, r
<1>5. P => TurnOf(c, new, p) = [msg |-> m, ok |-> TRUE]
  BY <1>1, <1>2, SensorTurns, ZenonT(60) DEF c, new
<1>6. Q => TurnOf(c, new, q) = [msg |-> m, ok |-> TRUE]
  <2>1. Q => q.tag = m.case /\ m = SetScalar(new, q.tag, m.num)
    BY <1>1, <1>2
  <2>2. q.tag \in DoubleCases \cup {BoolCase}
    BY <1>2
  <2> QED BY <1>2, <2>1, <2>2, SensorTurns, ZenonT(60) DEF c, new
<1>7. R => TurnOf(c, new, r) = [msg |-> m, ok |-> TRUE]
  BY <1>1, <1>2, <1>4, SensorTurns, ZenonT(60) DEF c, new
<1> HIDE DEF P, Q, R
<1>8. P \in BOOLEAN /\ Q \in BOOLEAN /\ R \in BOOLEAN
  BY DEF P, Q, R
<1>9. Reaches(d, c, new, If(P, p), x)
  <2>1. Leads(c, new, If(P, p), x)
    BY <1>3, <1>5, <1>8, LeadsIf
  <2> HIDE DEF x
  <2> QED BY <1>2, <1>8, <2>1, ReachesIf
<1>10. Reaches(d, c, x, If(Q, q), y)
  <2>1. (Q => x = new /\ y = m) /\ (~Q => y = x)
    BY <1>1
  <2> HIDE DEF x, y
  <2>2. Leads(c, x, If(Q, q), y)
    BY <1>3, <1>6, <1>8, <2>1, LeadsIf
  <2> QED BY <1>2, <1>8, <2>2, ReachesIf
<1>11. Reaches(d, c, y, If(R, r), m)
  <2>1. (R => y = new) /\ (~R => m = y)
    BY <1>1
  <2> HIDE DEF y
  <2>2. Leads(c, y, If(R, r), m)
    BY <1>3, <1>7, <1>8, <2>1, LeadsIf
  <2> QED BY <1>2, <1>8, <2>2, ReachesIf
<1> HIDE DEF x, y
<1>12. Reaches(d, c, m, <<>>, m)
  BY ReachesNowhere
<1>13. Reaches(d, c, new, If(P, p) \o If(Q, q) \o If(R, r) \o <<>>, m)
  BY <1>9, <1>10, <1>11, <1>12, ReachesOn
<1>14. WriteSensorMessage_Sensor(m) = If(P, p) \o If(Q, q) \o If(R, r) \o <<>>
  BY <1>1 DEF WriteSensorMessage_Sensor, P, Q, R, p, q, r
<1> QED BY <1>13, <1>14 DEF c, new

(* Sensors in sequence: in SensorMessage.Sensors and SensorMessage.Object. *)
LEMMA SensorsWritten ==
  ASSUME NEW tag, NEW xs, \A i \in DOMAIN xs : IsSensor(xs[i])
  PROVE  /\ WriteSensors(tag, xs) = [i \in DOMAIN xs |-> WriteSensors(tag, xs)[i]]
         /\ \A i \in DOMAIN xs :
              /\ IsWritten(WriteSensors(tag, xs)[i], tag)
              /\ Leads("SensorMessage_Sensor", NewSensorMessage_Sensor,
                       WriteSensors(tag, xs)[i].sub, xs[i])
<1> DEFINE s == WriteSensors(tag, xs)
<1>1. s = [i \in DOMAIN xs |-> WriteSub(tag, WriteSensorMessage_Sensor(xs[i]))]
  BY DEF WriteSensors
<1> HIDE DEF s
<1>2. ASSUME NEW i \in DOMAIN xs
      PROVE  /\ IsWritten(s[i], tag)
             /\ Leads("SensorMessage_Sensor", NewSensorMessage_Sensor, s[i].sub, xs[i])
  <2> DEFINE x == xs[i]
             w == WriteSensorMessage_Sensor(x)
  <2>1. s[i] = WriteSub(tag, w) /\ IsSensor(x)
    BY <1>1
  <2>2. Leads("SensorMessage_Sensor", NewSensorMessage_Sensor, w, x)
    BY <2>1, SensorReached, WhatIsReached
  <2> HIDE DEF w, x
  <2>3. IsWritten(s[i], tag) /\ s[i].sub = w
    BY <2>1, WrittenScalar
  <2> QED BY <2>2, <2>3 DEF x
<1>3. s = [i \in DOMAIN xs |-> s[i]]
  BY <1>1
<1> QED BY <1>2, <1>3 DEF s

(* What AddMessage() does with a sensor it can read, *)
AddsSensor(m, f, new, it) == AddMessage(m, f, new, ParseSensorMessage_Sensor, it)

(* is to append it; *)
LEMMA SensorAdded ==
  ASSUME NEW new, NEW x, NEW it, NEW tag, IsWritten(it, tag), NEW m, NEW f,
         Leads("SensorMessage_Sensor", new, it.sub, x)
  PROVE  AddsSensor(m, f, new, it) = Extended(m, f, x)
<1> DEFINE Added(r) == Parsed([m EXCEPT ![f] = Append(@, r.msg)], r.ok /\ it.whole)
<1>1. ASSUME NEW r, r = [msg |-> x, ok |-> TRUE]
      PROVE  Added(r) = Extended(m, f, x)
  <2>1. r.msg = x /\ (r.ok /\ it.whole) = TRUE
    BY <1>1 DEF IsWritten
  <2> QED BY <2>1 DEF Parsed, Extended
<1>2. Every!Fold("SensorMessage_Sensor", Parsed(new, TRUE), it.sub) = [msg |-> x, ok |-> TRUE]
  BY FoldLeads DEF Parsed
<1>3. AddsSensor(m, f, new, it) = Added(ParseItems(ParseSensorMessage_Sensor, new, it.sub))
  BY Zenon DEF AddMessage, AddsSensor
<1> HIDE DEF Added
<1> QED BY Zenon, <1>1, <1>2, <1>3, SensorMessage_SensorParses

(* and with a vector. *)
AddsVector(m, f, new, it) == AddMessage(m, f, new, ParseSensorMessage_Vec3, it)

(* is to append that. *)
LEMMA VectorAdded ==
  ASSUME NEW new, NEW x, NEW it, NEW tag, IsWritten(it, tag), NEW m, NEW f,
         Leads("SensorMessage_Vec3", new, it.sub, x)
  PROVE  AddsVector(m, f, new, it) = Extended(m, f, x)
<1> DEFINE Added(r) == Parsed([m EXCEPT ![f] = Append(@, r.msg)], r.ok /\ it.whole)
<1>1. ASSUME NEW r, r = [msg |-> x, ok |-> TRUE]
      PROVE  Added(r) = Extended(m, f, x)
  <2>1. r.msg = x /\ (r.ok /\ it.whole) = TRUE
    BY <1>1 DEF IsWritten
  <2> QED BY <2>1 DEF Parsed, Extended
<1>2. Every!Fold("SensorMessage_Vec3", Parsed(new, TRUE), it.sub) = [msg |-> x, ok |-> TRUE]
  BY FoldLeads DEF Parsed
<1>3. AddsVector(m, f, new, it) = Added(ParseItems(ParseSensorMessage_Vec3, new, it.sub))
  BY Zenon DEF AddMessage, AddsVector
<1> HIDE DEF Added
<1> QED BY Zenon, <1>1, <1>2, <1>3, SensorMessage_Vec3Parses

(* Sensors of a kind. *)
IsSensors(m) ==
  /\ IsA(m, NewSensorMessage_Sensors) /\ Items(m.sensor)
  /\ \A i \in DOMAIN m.sensor : IsSensor(m.sensor[i])

(* One after the other is read, *)
LEMMA SensorsRead ==
  ReadsMessages("SensorMessage_Sensors", "sensor", 10, "SensorMessage_Sensor",
                NewSensorMessage_Sensor)
<1> SUFFICES ASSUME NEW m, NEW it, NEW x, IsWritten(it, 10),
                    Leads("SensorMessage_Sensor", NewSensorMessage_Sensor, it.sub, x)
             PROVE  TurnOf("SensorMessage_Sensors", m, it) = Extended(m, "sensor", x)
  BY DEF ReadsMessages
<1>1. ParseSensorMessage_Sensors(m, it)
        = AddsSensor(m, "sensor", NewSensorMessage_Sensor, it)
  BY Zenon DEF ParseSensorMessage_Sensors, AddsSensor, IsWritten
<1>2. TurnOf("SensorMessage_Sensors", m, it) = ParseSensorMessage_Sensors(m, it)
  BY DEF TurnOf
<1>3. AddsSensor(m, "sensor", NewSensorMessage_Sensor, it) = Extended(m, "sensor", x)
  BY SensorAdded
<1> QED BY <1>1, <1>2, <1>3

(* They are read as they were written. *)
LEMMA SensorsReached ==
  ASSUME NEW d, NEW m, IsSensors(m)
  PROVE  Reaches(d, "SensorMessage_Sensors", NewSensorMessage_Sensors,
                 WriteSensorMessage_Sensors(m), m)
<1> DEFINE c == "SensorMessage_Sensors"
           new == NewSensorMessage_Sensors
           F == {} \cup {"sensor"}
           s == WriteSensors(10, m.sensor)
           newv == NewSensorMessage_Sensor
           v == "SensorMessage_Sensor"
<1>1. IsA(new, new) /\ DOMAIN new = {"sensor", "unknown"} /\ new["sensor"] = <<>>
  BY DEF NewSensorMessage_Sensors, IsA, IsRecord
<1>2. /\ IsA(m, new) /\ Items(m["sensor"]) /\ m.unknown = <<>>
      /\ \A i \in DOMAIN m["sensor"] : IsSensor(m["sensor"][i])
  BY DEF IsSensors, IsA
<1>3. ReadsMessages(c, "sensor", 10, v, newv)
  BY SensorsRead
<1>4. /\ s = [i \in DOMAIN m["sensor"] |-> s[i]]
      /\ \A i \in DOMAIN m["sensor"] : /\ IsWritten(s[i], 10)
                                       /\ Leads(v, newv, s[i].sub, m["sensor"][i])
  BY <1>2, SensorsWritten
<1>5. 10 \in Tags /\ "sensor" \notin {}
  BY DEF Tags
<1> HIDE DEF c, new, s, v, newv
<1>6. Reaches(d, c, Upto(m, new, {}), s, Upto(m, new, F))
  BY <1>1, <1>2, <1>3, <1>4, <1>5, ReachesMessages
<1>7. Upto(m, new, {}) = new /\ Upto(m, new, F) = m
  <2>1. F \cup {"unknown"} = DOMAIN new
    BY <1>1
  <2> HIDE DEF F
  <2> QED BY <1>1, <1>2, <2>1, UptoEnds
<1>8. Reaches(d, c, m, <<>>, m)
  BY ReachesNowhere
<1>9. Reaches(d, c, new, s \o <<>>, m)
  BY <1>6, <1>7, <1>8, ReachesOn
<1>10. WriteSensorMessage_Sensors(m) = s \o <<>>
  BY <1>2 DEF WriteSensorMessage_Sensors, s
<1> QED BY <1>9, <1>10 DEF c, new

(* Entries whose values are numbers, *)
LEMMA NumbersEntering ==
  ASSUME NEW d, NEW tag, NEW map, NEW order
  PROVE  Entering(d, WriteMap(tag, map, order, LAMBDA v : WriteVarint(16, v)), tag, "Number", 0,
                  map, Ordered(DOMAIN map, order))
<1> DEFINE keys == Ordered(DOMAIN map, order)
           s == WriteMap(tag, map, order, LAMBDA v : WriteVarint(16, v))
<1>1. s = [i \in DOMAIN keys |->
            WriteSub(tag, <<WriteString(10, keys[i]), WriteVarint(16, map[keys[i]])>>)]
  BY Zenon DEF WriteMap
<1> HIDE DEF s, keys
<1>2. ASSUME NEW i \in DOMAIN keys
      PROVE  \E value : /\ IsEntry(s[i], tag, keys[i], value)
                        /\ IsValue("Number", 0, value, map[keys[i]])
  <2> DEFINE k == keys[i]
             x == map[k]
             value == WriteVarint(16, x)
  <2>1. value.tag = 16 /\ value.whole = TRUE /\ value.num[1] = x
    BY DEF WriteVarint, Item
  <2>2. s[i] = WriteSub(tag, <<WriteString(10, k), value>>)
    BY <1>1
  <2> HIDE DEF k, x, value
  <2>3. IsEntry(s[i], tag, k, value)
    BY <2>2, EntryParts
  <2>4. IsValue("Number", 0, value, x)
    BY <2>1 DEF IsValue
  <2> QED BY <2>3, <2>4 DEF k, x
<1>3. s = [i \in DOMAIN keys |-> s[i]]
  BY <1>1
<1>4. Entering(d, s, tag, "Number", 0, map, keys)
  BY <1>2, <1>3 DEF Entering
<1> QED BY <1>4 DEF s, keys

(* and whose values are messages, written into w. *)
LEMMA MessagesEntering ==
  ASSUME NEW d, NEW tag, NEW v, v # "Number", NEW new, NEW map, NEW keys, NEW s, NEW w,
         s = [i \in DOMAIN keys |-> WriteSub(tag,
                                             <<WriteString(10, keys[i]), WriteSub(18, w[i])>>)],
         \A i \in DOMAIN keys :
           Reaches(IF d = "message" THEN "object" ELSE "value", v, new, w[i], map[keys[i]])
  PROVE  Entering(d, s, tag, v, new, map, keys)
<1>1. ASSUME NEW i \in DOMAIN keys
      PROVE  \E value : /\ IsEntry(s[i], tag, keys[i], value)
                        /\ CleanAs(d, s[i]) => IsValue(v, new, value, map[keys[i]])
  <2> DEFINE k == keys[i]
             x == map[k]
             u == w[i]
             value == WriteSub(18, u)
             it == s[i]
             d2 == IF d = "message" THEN "object" ELSE "value"
  <2>1. value.tag = 18 /\ value.whole = TRUE /\ value.sub = u
    BY DEF WriteSub, Item
  <2>2. it = WriteSub(tag, <<WriteString(10, k), value>>) /\ Reaches(d2, v, new, u, x)
    OBVIOUS
  <2> HIDE DEF k, x, u, value, it
  <2>3. IsEntry(it, tag, k, value)
    BY <2>2, EntryParts
  <2>4. 2 \in DOMAIN it.sub /\ it.sub[2].sub = u
    BY <2>1, <2>3 DEF IsEntry
  <2>5. CleanAs(d, it) => Clean(d2, u)
    BY <2>4 DEF CleanAs, CleanMessage, Clean
  <2>6. CleanAs(d, it) => IsValue(v, new, value, x)
    BY <2>1, <2>2, <2>5 DEF Reaches, IsValue
  <2> QED BY <2>3, <2>6 DEF k, x, it
<1>2. s = [i \in DOMAIN keys |-> s[i]]
  OBVIOUS
<1> QED BY <1>1, <1>2 DEF Entering

(* What ControlMessage.Object can be. *)
IsControlObject(m) ==
  /\ IsA(m, NewControlMessage_Object) /\ IsMap(m.controlEvents)
  /\ \A f \in {"angles", "angularVelocities", "torques", "values"} : Items(m[f])

(* It is read as it was written. *)
LEMMA ControlObjectReached ==
  ASSUME NEW m, IsControlObject(m), NEW order
  PROVE  Reaches("object", "ControlMessage_Object", NewControlMessage_Object,
                 WriteControlMessage_Object(m, order), m)
<1> DEFINE c == "ControlMessage_Object"
           new == NewControlMessage_Object
           F0 == {}
           F1 == F0 \cup {"angles"}
           F2 == F1 \cup {"angularVelocities"}
           F3 == F2 \cup {"torques"}
           F4 == F3 \cup {"controlEvents"}
           F5 == F4 \cup {"values"}
           s1 == WritePacked(10, m["angles"], EightBytes)
           s2 == WritePacked(18, m["angularVelocities"], EightBytes)
           s3 == WritePacked(26, m["torques"], EightBytes)
           s4 == WriteMap(34, m["controlEvents"], order, LAMBDA v : WriteVarint(16, v))
           s5 == WritePacked(42, m["values"], EightBytes)
<1>1. IsA(new, new) /\ DOMAIN new = {"angles", "angularVelocities", "torques", "controlEvents",
                                     "values", "unknown"}
  BY DEF NewControlMessage_Object, IsA, IsRecord
<1>2. IsA(m, new) /\ m.unknown = <<>>
  BY DEF IsControlObject, IsA
<1>3. {10, 18, 26, 34, 42} \subseteq Tags
  BY DEF Tags
<1>4. Reaches("object", c, Upto(m, new, F0), s1, Upto(m, new, F1))
  <2>1. "angles" \in DOMAIN new /\ new["angles"] = <<>> /\ "angles" \notin F0
    BY DEF NewControlMessage_Object
  <2>2. Items(m["angles"])
    BY DEF IsControlObject
  <2>3. ReadsNumbers(c, "angles", 10)
    BY DEF ReadsNumbers, TurnOf, ParseControlMessage_Object
  <2>4. Packed(s1, 10, m["angles"])
    BY PackedEight
  <2> HIDE DEF c, new, F0, s1
  <2> QED BY <1>3, <2>1, <2>2, <2>3, <2>4, ReachesPacked
<1>5. Reaches("object", c, Upto(m, new, F1), s2, Upto(m, new, F2))
  <2>1. "angularVelocities" \in DOMAIN new /\ new["angularVelocities"] = <<>>
        /\ "angularVelocities" \notin F1
    BY DEF NewControlMessage_Object
  <2>2. Items(m["angularVelocities"])
    BY DEF IsControlObject
  <2>3. ReadsNumbers(c, "angularVelocities", 18)
    BY DEF ReadsNumbers, TurnOf, ParseControlMessage_Object
  <2>4. Packed(s2, 18, m["angularVelocities"])
    BY PackedEight
  <2> HIDE DEF c, new, F1, s2
  <2> QED BY <1>3, <2>1, <2>2, <2>3, <2>4, ReachesPacked
<1>6. Reaches("object", c, Upto(m, new, F2), s3, Upto(m, new, F3))
  <2>1. "torques" \in DOMAIN new /\ new["torques"] = <<>> /\ "torques" \notin F2
    BY DEF NewControlMessage_Object
  <2>2. Items(m["torques"])
    BY DEF IsControlObject
  <2>3. ReadsNumbers(c, "torques", 26)
    BY DEF ReadsNumbers, TurnOf, ParseControlMessage_Object
  <2>4. Packed(s3, 26, m["torques"])
    BY PackedEight
  <2> HIDE DEF c, new, F2, s3
  <2> QED BY <1>3, <2>1, <2>2, <2>3, <2>4, ReachesPacked
<1>7. Reaches("object", c, Upto(m, new, F3), s4, Upto(m, new, F4))
  <2>1. "controlEvents" \in DOMAIN new /\ new["controlEvents"] = NoEntries
        /\ "controlEvents" \notin F3
    BY DEF NewControlMessage_Object
  <2>2. IsMap(m["controlEvents"])
    BY DEF IsControlObject
  <2>3. ReadsEntries(c, "controlEvents", 34, "Number", 0)
    BY ControlMessage_Object_ControlEventsEntry
  <2>4. Entering("object", s4, 34, "Number", 0, m["controlEvents"],
                 Ordered(DOMAIN m["controlEvents"], order))
    BY NumbersEntering
  <2> HIDE DEF c, new, F3, s4
  <2> QED BY <2>1, <2>2, <2>3, <2>4, ReachesMap
<1>8. Reaches("object", c, Upto(m, new, F4), s5, Upto(m, new, F5))
  <2>1. "values" \in DOMAIN new /\ new["values"] = <<>> /\ "values" \notin F4
    BY DEF NewControlMessage_Object
  <2>2. Items(m["values"])
    BY DEF IsControlObject
  <2>3. ReadsNumbers(c, "values", 42)
    BY DEF ReadsNumbers, TurnOf, ParseControlMessage_Object
  <2>4. Packed(s5, 42, m["values"])
    BY PackedEight
  <2> HIDE DEF c, new, F4, s5
  <2> QED BY <1>3, <2>1, <2>2, <2>3, <2>4, ReachesPacked
<1>9. Upto(m, new, F0) = new /\ Upto(m, new, F5) = m
  <2>1. F5 \cup {"unknown"} = DOMAIN new
    BY <1>1
  <2> HIDE DEF new, F5
  <2> QED BY <1>1, <1>2, <2>1, UptoEnds
<1> HIDE DEF c, new, F1, s1, F2, s2, F3, s3, F4, s4, F5, s5
<1>10. Reaches("object", c, m, <<>>, m)
  BY ReachesNowhere
<1>11. Reaches("object", c, new, s1 \o s2 \o s3 \o s4 \o s5 \o <<>>, m)
  BY <1>4, <1>5, <1>6, <1>7, <1>8, <1>9, <1>10, ReachesOn
<1>12. WriteControlMessage_Object(m, order) = s1 \o s2 \o s3 \o s4 \o s5 \o <<>>
  BY Zenon, <1>2 DEF WriteControlMessage_Object, s1, s2, s3, s4, s5
<1> QED BY <1>11, <1>12 DEF c, new

(* What HandshakeMessage.Object can be. *)
IsHandshakeObject(m) ==
  /\ IsA(m, NewHandshakeMessage_Object) /\ IsMap(m.controlEvents)
  /\ IsMap(m.sensors) /\ \A k \in DOMAIN m.sensors : IsHandshakeSensors(m.sensors[k])
  /\ \A f \in {"controlsInOrder", "jointSensors", "objectSensors", "jointSensorsInOrder",
                "controlTypesInOrder"} : Items(m[f])

(* It is read as it was written. *)
LEMMA HandshakeObjectReached ==
  ASSUME NEW m, IsHandshakeObject(m), NEW order
  PROVE  Reaches("object", "HandshakeMessage_Object", NewHandshakeMessage_Object,
                 WriteHandshakeMessage_Object(m, order), m)
<1> DEFINE c == "HandshakeMessage_Object"
           new == NewHandshakeMessage_Object
           F0 == {}
           F1 == F0 \cup {"controlsInOrder"}
           F2 == F1 \cup {"jointSensors"}
           F3 == F2 \cup {"controlEvents"}
           F4 == F3 \cup {"sensors"}
           F5 == F4 \cup {"objectSensors"}
           F6 == F5 \cup {"jointSensorsInOrder"}
           F7 == F6 \cup {"controlTypesInOrder"}
           s1 == WriteStrings(10, m["controlsInOrder"])
           s2 == WritePacked(18, m["jointSensors"], SizeNumber)
           s3 == WriteMap(26, m["controlEvents"], order, LAMBDA v : WriteVarint(16, v))
           s4 == WriteMap(34, m["sensors"], order,
                        LAMBDA v : WriteSub(18, WriteHandshakeMessage_Sensors(v)))
           s5 == WritePacked(50, m["objectSensors"], SizeNumber)
           s6 == WriteStrings(58, m["jointSensorsInOrder"])
           s7 == WritePacked(66, m["controlTypesInOrder"], SizeNumber)
<1>1. IsA(new, new)
      /\ DOMAIN new = {"controlsInOrder", "jointSensors", "controlEvents", "sensors",
                       "objectSensors", "jointSensorsInOrder", "controlTypesInOrder", "unknown"}
  BY DEF NewHandshakeMessage_Object, IsA, IsRecord
<1>2. IsA(m, new) /\ m.unknown = <<>>
  BY DEF IsHandshakeObject, IsA
<1>3. {10, 18, 26, 34, 50, 58, 66} \subseteq Tags
  BY DEF Tags
<1>4. Reaches("object", c, Upto(m, new, F0), s1, Upto(m, new, F1))
  <2>1. "controlsInOrder" \in DOMAIN new /\ new["controlsInOrder"] = <<>>
        /\ "controlsInOrder" \notin F0
    BY DEF NewHandshakeMessage_Object
  <2>2. Items(m["controlsInOrder"])
    BY DEF IsHandshakeObject
  <2>3. ReadsStrings(c, "controlsInOrder", 10)
    BY DEF ReadsStrings, TurnOf, ParseHandshakeMessage_Object
  <2> HIDE DEF c, new, F0
  <2> QED BY <1>3, <2>1, <2>2, <2>3, ReachesStrings
<1>5. Reaches("object", c, Upto(m, new, F1), s2, Upto(m, new, F2))
  <2>1. "jointSensors" \in DOMAIN new /\ new["jointSensors"] = <<>> /\ "jointSensors" \notin F1
    BY DEF NewHandshakeMessage_Object
  <2>2. Items(m["jointSensors"])
    BY DEF IsHandshakeObject
  <2>3. ReadsNumbers(c, "jointSensors", 18)
    BY DEF ReadsNumbers, TurnOf, ParseHandshakeMessage_Object
  <2>4. Packed(s2, 18, m["jointSensors"])
    BY PackedNumbers
  <2> HIDE DEF c, new, F1, s2
  <2> QED BY <1>3, <2>1, <2>2, <2>3, <2>4, ReachesPacked
<1>6. Reaches("object", c, Upto(m, new, F2), s3, Upto(m, new, F3))
  <2>1. "controlEvents" \in DOMAIN new /\ new["controlEvents"] = NoEntries
        /\ "controlEvents" \notin F2
    BY DEF NewHandshakeMessage_Object
  <2>2. IsMap(m["controlEvents"])
    BY DEF IsHandshakeObject
  <2>3. ReadsEntries(c, "controlEvents", 26, "Number", 0)
    BY HandshakeMessage_Object_ControlEventsEntry
  <2>4. Entering("object", s3, 26, "Number", 0, m["controlEvents"],
                 Ordered(DOMAIN m["controlEvents"], order))
    BY NumbersEntering
  <2> HIDE DEF c, new, F2, s3
  <2> QED BY <2>1, <2>2, <2>3, <2>4, ReachesMap
<1>7. Reaches("object", c, Upto(m, new, F3), s4, Upto(m, new, F4))
  <2>1. "sensors" \in DOMAIN new /\ new["sensors"] = NoEntries /\ "sensors" \notin F3
    BY DEF NewHandshakeMessage_Object
  <2>2. IsMap(m["sensors"])
    BY DEF IsHandshakeObject
  <2>3. ReadsEntries(c, "sensors", 34, "HandshakeMessage_Sensors", NewHandshakeMessage_Sensors)
    BY HandshakeMessage_Object_SensorsEntry
  <2>4. Entering("object", s4, 34, "HandshakeMessage_Sensors", NewHandshakeMessage_Sensors,
                 m["sensors"],
                 Ordered(DOMAIN m["sensors"], order))
    <3> DEFINE map == m["sensors"]
               keys == Ordered(DOMAIN map, order)
               w == [i \in DOMAIN keys |-> WriteHandshakeMessage_Sensors(map[keys[i]])]
    <3>1. s4 = [i \in DOMAIN keys |->
                 WriteSub(34, <<WriteString(10, keys[i]), WriteSub(18, w[i])>>)]
      <4>1. s4 = [i \in DOMAIN keys |->
                   WriteSub(34, <<WriteString(10, keys[i]),
                      WriteSub(18, WriteHandshakeMessage_Sensors(map[keys[i]]))>>)]
        BY Zenon DEF WriteMap
      <4> HIDE DEF s4, keys, map
      <4> QED BY <4>1
    <3>2. \A k \in DOMAIN map : IsHandshakeSensors(map[k])
      BY DEF IsHandshakeObject
    <3>3. \A i \in DOMAIN keys : keys[i] \in DOMAIN map
      BY <2>2, OrderedRange DEF IsMap
    <3> HIDE DEF map, keys, s4
    <3>4. \A i \in DOMAIN keys : Reaches("value", "HandshakeMessage_Sensors",
                                         NewHandshakeMessage_Sensors, w[i], map[keys[i]])
      BY <3>2, <3>3, HandshakeSensorsReached
    <3> HIDE DEF w
    <3>5. Entering("object", s4, 34, "HandshakeMessage_Sensors", NewHandshakeMessage_Sensors, map,
                   keys)
      BY <3>1, <3>4, MessagesEntering
    <3> QED BY <3>5 DEF map, keys
  <2> HIDE DEF c, new, F3, s4
  <2> QED BY <2>1, <2>2, <2>3, <2>4, ReachesMap
<1>8. Reaches("object", c, Upto(m, new, F4), s5, Upto(m, new, F5))
  <2>1. "objectSensors" \in DOMAIN new /\ new["objectSensors"] = <<>> /\ "objectSensors" \notin F4
    BY DEF NewHandshakeMessage_Object
  <2>2. Items(m["objectSensors"])
    BY DEF IsHandshakeObject
  <2>3. ReadsNumbers(c, "objectSensors", 50)
    BY DEF ReadsNumbers, TurnOf, ParseHandshakeMessage_Object
  <2>4. Packed(s5, 50, m["objectSensors"])
    BY PackedNumbers
  <2> HIDE DEF c, new, F4, s5
  <2> QED BY <1>3, <2>1, <2>2, <2>3, <2>4, ReachesPacked
<1>9. Reaches("object", c, Upto(m, new, F5), s6, Upto(m, new, F6))
  <2>1. "jointSensorsInOrder" \in DOMAIN new /\ new["jointSensorsInOrder"] = <<>>
        /\ "jointSensorsInOrder" \notin F5
    BY DEF NewHandshakeMessage_Object
  <2>2. Items(m["jointSensorsInOrder"])
    BY DEF IsHandshakeObject
  <2>3. ReadsStrings(c, "jointSensorsInOrder", 58)
    BY DEF ReadsStrings, TurnOf, ParseHandshakeMessage_Object
  <2> HIDE DEF c, new, F5
  <2> QED BY <1>3, <2>1, <2>2, <2>3, ReachesStrings
<1>10. Reaches("object", c, Upto(m, new, F6), s7, Upto(m, new, F7))
  <2>1. "controlTypesInOrder" \in DOMAIN new /\ new["controlTypesInOrder"] = <<>>
        /\ "controlTypesInOrder" \notin F6
    BY DEF NewHandshakeMessage_Object
  <2>2. Items(m["controlTypesInOrder"])
    BY DEF IsHandshakeObject
  <2>3. ReadsNumbers(c, "controlTypesInOrder", 66)
    BY DEF ReadsNumbers, TurnOf, ParseHandshakeMessage_Object
  <2>4. Packed(s7, 66, m["controlTypesInOrder"])
    BY PackedNumbers
  <2> HIDE DEF c, new, F6, s7
  <2> QED BY <1>3, <2>1, <2>2, <2>3, <2>4, ReachesPacked
<1>11. Upto(m, new, F0) = new /\ Upto(m, new, F7) = m
  <2>1. F7 \cup {"unknown"} = DOMAIN new
    BY <1>1
  <2> HIDE DEF new, F7
  <2> QED BY <1>1, <1>2, <2>1, UptoEnds
<1> HIDE DEF c, new, F1, s1, F2, s2, F3, s3, F4, s4, F5, s5, F6, s6, F7, s7
<1>12. Reaches("object", c, m, <<>>, m)
  BY ReachesNowhere
<1>13. Reaches("object", c, new, s1 \o s2 \o s3 \o s4 \o s5 \o s6 \o s7 \o <<>>, m)
  BY <1>4, <1>5, <1>6, <1>7, <1>8, <1>9, <1>10, <1>11, <1>12, ReachesOn
<1>14. WriteHandshakeMessage_Object(m, order) = s1 \o s2 \o s3 \o s4 \o s5 \o s6 \o s7 \o <<>>
  BY Zenon, <1>2 DEF WriteHandshakeMessage_Object, s1, s2, s3, s4, s5, s6, s7
<1> QED BY <1>13, <1>14 DEF c, new

(* The repeated messages of SensorMessage.Object: sensors of the object *)
LEMMA ObjectSensorsRead ==
  ReadsMessages("SensorMessage_Object", "objectSensors", 34, "SensorMessage_Sensor",
                NewSensorMessage_Sensor)
<1> SUFFICES ASSUME NEW m, NEW it, NEW x, IsWritten(it, 34),
                    Leads("SensorMessage_Sensor", NewSensorMessage_Sensor, it.sub, x)
             PROVE  TurnOf("SensorMessage_Object", m, it) = Extended(m, "objectSensors", x)
  BY DEF ReadsMessages
<1>1. ParseSensorMessage_Object(m, it) = AddsSensor(m, "objectSensors", NewSensorMessage_Sensor, it)
  <2>1. it.tag = 34 /\ it.tag \notin {10, 9} /\ it.tag \notin {18, 17} /\ it.tag \notin {26, 25}
        /\ it.tag \notin {10, 9, 18, 17, 26, 25, 42, 50}
    BY DEF IsWritten
  <2> QED BY Zenon, <2>1 DEF ParseSensorMessage_Object, AddsSensor
<1>2. TurnOf("SensorMessage_Object", m, it) = ParseSensorMessage_Object(m, it)
  BY DEF TurnOf
<1>3. AddsSensor(m, "objectSensors", NewSensorMessage_Sensor, it) = Extended(m, "objectSensors", x)
  BY SensorAdded
<1> QED BY <1>1, <1>2, <1>3

(* and forces. *)
LEMMA ForceSensorsRead ==
  ReadsMessages("SensorMessage_Object", "forceSensors", 42, "SensorMessage_Vec3",
                NewSensorMessage_Vec3)
<1> SUFFICES ASSUME NEW m, NEW it, NEW x, IsWritten(it, 42),
                    Leads("SensorMessage_Vec3", NewSensorMessage_Vec3, it.sub, x)
             PROVE  TurnOf("SensorMessage_Object", m, it) = Extended(m, "forceSensors", x)
  BY DEF ReadsMessages
<1>1. ParseSensorMessage_Object(m, it) = AddsVector(m, "forceSensors", NewSensorMessage_Vec3, it)
  <2>1. it.tag = 42 /\ it.tag \notin {10, 9} /\ it.tag \notin {18, 17} /\ it.tag \notin {26, 25}
        /\ it.tag \notin {10, 9, 18, 17, 26, 25, 34, 50}
    BY DEF IsWritten
  <2> QED BY Zenon, <2>1 DEF ParseSensorMessage_Object, AddsVector
<1>2. TurnOf("SensorMessage_Object", m, it) = ParseSensorMessage_Object(m, it)
  BY DEF TurnOf
<1>3. AddsVector(m, "forceSensors", NewSensorMessage_Vec3, it) = Extended(m, "forceSensors", x)
  BY VectorAdded
<1> QED BY <1>1, <1>2, <1>3

(* Vectors in sequence. *)
LEMMA VectorsWritten ==
  ASSUME NEW xs, NEW s, s = [i \in DOMAIN xs |-> WriteSub(42, WriteSensorMessage_Vec3(xs[i]))],
         \A i \in DOMAIN xs : IsVec3(xs[i])
  PROVE  /\ s = [i \in DOMAIN xs |-> s[i]]
         /\ \A i \in DOMAIN xs :
              /\ IsWritten(s[i], 42)
              /\ Leads("SensorMessage_Vec3", NewSensorMessage_Vec3, s[i].sub, xs[i])
<1>1. ASSUME NEW i \in DOMAIN xs
      PROVE  /\ IsWritten(s[i], 42)
             /\ Leads("SensorMessage_Vec3", NewSensorMessage_Vec3, s[i].sub, xs[i])
  <2> DEFINE x == xs[i]
             w == WriteSensorMessage_Vec3(x)
  <2>1. s[i] = WriteSub(42, w) /\ IsVec3(x)
    OBVIOUS
  <2>2. Leads("SensorMessage_Vec3", NewSensorMessage_Vec3, w, x)
    BY <2>1, Vec3Reached, WhatIsReached
  <2> HIDE DEF w, x
  <2>3. IsWritten(s[i], 42) /\ s[i].sub = w
    BY <2>1, WrittenScalar
  <2> QED BY <2>2, <2>3 DEF x
<1>2. s = [i \in DOMAIN xs |-> s[i]]
  OBVIOUS
<1> QED BY <1>1, <1>2

(* What SensorMessage.Object can be. *)
IsSensorObject(m) ==
  /\ IsA(m, NewSensorMessage_Object)
  /\ \A f \in {"angleSensors", "angularVelocitySensors", "torqueSensors", "objectSensors",
                "forceSensors"} : Items(m[f])
  /\ \A i \in DOMAIN m.objectSensors : IsSensor(m.objectSensors[i])
  /\ \A i \in DOMAIN m.forceSensors : IsVec3(m.forceSensors[i])
  /\ IsMap(m.sensors) /\ \A k \in DOMAIN m.sensors : IsSensors(m.sensors[k])

(* It is read as it was written. *)
LEMMA SensorObjectReached ==
  ASSUME NEW m, IsSensorObject(m), NEW order
  PROVE  Reaches("object", "SensorMessage_Object", NewSensorMessage_Object,
                 WriteSensorMessage_Object(m, order), m)
<1> DEFINE c == "SensorMessage_Object"
           new == NewSensorMessage_Object
           F0 == {}
           F1 == F0 \cup {"angleSensors"}
           F2 == F1 \cup {"angularVelocitySensors"}
           F3 == F2 \cup {"torqueSensors"}
           F4 == F3 \cup {"objectSensors"}
           F5 == F4 \cup {"forceSensors"}
           F6 == F5 \cup {"sensors"}
           s1 == WritePacked(10, m["angleSensors"], EightBytes)
           s2 == WritePacked(18, m["angularVelocitySensors"], EightBytes)
           s3 == WritePacked(26, m["torqueSensors"], EightBytes)
           s4 == WriteSensors(34, m["objectSensors"])
           s5 == [i \in DOMAIN m["forceSensors"] |->
                    WriteSub(42, WriteSensorMessage_Vec3(m["forceSensors"][i]))]
           s6 == WriteMap(50, m["sensors"], order,
                          LAMBDA v : WriteSub(18, WriteSensorMessage_Sensors(v)))
<1>1. IsA(new, new) /\ DOMAIN new = {"angleSensors", "angularVelocitySensors", "torqueSensors",
                                     "objectSensors", "forceSensors", "sensors", "unknown"}
  BY DEF NewSensorMessage_Object, IsA, IsRecord
<1>2. IsA(m, new) /\ m.unknown = <<>>
  BY DEF IsSensorObject, IsA
<1>3. {10, 18, 26, 34, 42, 50} \subseteq Tags
  BY DEF Tags
<1>4. Reaches("object", c, Upto(m, new, F0), s1, Upto(m, new, F1))
  <2>1. "angleSensors" \in DOMAIN new /\ new["angleSensors"] = <<>> /\ "angleSensors" \notin F0
    BY DEF NewSensorMessage_Object
  <2>2. Items(m["angleSensors"])
    BY DEF IsSensorObject
  <2>3. ReadsNumbers(c, "angleSensors", 10)
    BY DEF ReadsNumbers, TurnOf, ParseSensorMessage_Object
  <2>4. Packed(s1, 10, m["angleSensors"])
    BY PackedEight
  <2> HIDE DEF c, new, F0, s1
  <2> QED BY <1>3, <2>1, <2>2, <2>3, <2>4, ReachesPacked
<1>5. Reaches("object", c, Upto(m, new, F1), s2, Upto(m, new, F2))
  <2>1. "angularVelocitySensors" \in DOMAIN new /\ new["angularVelocitySensors"] = <<>>
        /\ "angularVelocitySensors" \notin F1
    BY DEF NewSensorMessage_Object
  <2>2. Items(m["angularVelocitySensors"])
    BY DEF IsSensorObject
  <2>3. ReadsNumbers(c, "angularVelocitySensors", 18)
    BY DEF ReadsNumbers, TurnOf, ParseSensorMessage_Object
  <2>4. Packed(s2, 18, m["angularVelocitySensors"])
    BY PackedEight
  <2> HIDE DEF c, new, F1, s2
  <2> QED BY <1>3, <2>1, <2>2, <2>3, <2>4, ReachesPacked
<1>6. Reaches("object", c, Upto(m, new, F2), s3, Upto(m, new, F3))
  <2>1. "torqueSensors" \in DOMAIN new /\ new["torqueSensors"] = <<>> /\ "torqueSensors" \notin F2
    BY DEF NewSensorMessage_Object
  <2>2. Items(m["torqueSensors"])
    BY DEF IsSensorObject
  <2>3. ReadsNumbers(c, "torqueSensors", 26)
    BY DEF ReadsNumbers, TurnOf, ParseSensorMessage_Object
  <2>4. Packed(s3, 26, m["torqueSensors"])
    BY PackedEight
  <2> HIDE DEF c, new, F2, s3
  <2> QED BY <1>3, <2>1, <2>2, <2>3, <2>4, ReachesPacked
<1>7. Reaches("object", c, Upto(m, new, F3), s4, Upto(m, new, F4))
  <2>1. "objectSensors" \in DOMAIN new /\ new["objectSensors"] = <<>> /\ "objectSensors" \notin F3
    BY DEF NewSensorMessage_Object
  <2>2. Items(m["objectSensors"])
    BY DEF IsSensorObject
  <2>3. ReadsMessages(c, "objectSensors", 34, "SensorMessage_Sensor", NewSensorMessage_Sensor)
    BY ObjectSensorsRead
  <2>4. /\ s4 = [i \in DOMAIN m["objectSensors"] |-> s4[i]]
        /\ \A i \in DOMAIN m["objectSensors"] : /\ IsWritten(s4[i], 34)
                                      /\ Leads("SensorMessage_Sensor", NewSensorMessage_Sensor,
                                               s4[i].sub, m["objectSensors"][i])
    BY SensorsWritten DEF IsSensorObject
  <2> HIDE DEF c, new, F3, s4
  <2> QED BY <1>3, <2>1, <2>2, <2>3, <2>4, ReachesMessages
<1>8. Reaches("object", c, Upto(m, new, F4), s5, Upto(m, new, F5))
  <2>1. "forceSensors" \in DOMAIN new /\ new["forceSensors"] = <<>> /\ "forceSensors" \notin F4
    BY DEF NewSensorMessage_Object
  <2>2. Items(m["forceSensors"])
    BY DEF IsSensorObject
  <2>3. ReadsMessages(c, "forceSensors", 42, "SensorMessage_Vec3", NewSensorMessage_Vec3)
    BY ForceSensorsRead
  <2>4. /\ s5 = [i \in DOMAIN m["forceSensors"] |-> s5[i]]
        /\ \A i \in DOMAIN m["forceSensors"] : /\ IsWritten(s5[i], 42)
                                      /\ Leads("SensorMessage_Vec3", NewSensorMessage_Vec3,
                                               s5[i].sub, m["forceSensors"][i])
    BY VectorsWritten DEF IsSensorObject
  <2> HIDE DEF c, new, F4, s5
  <2> QED BY <1>3, <2>1, <2>2, <2>3, <2>4, ReachesMessages
<1>9. Reaches("object", c, Upto(m, new, F5), s6, Upto(m, new, F6))
  <2>1. "sensors" \in DOMAIN new /\ new["sensors"] = NoEntries /\ "sensors" \notin F5
    BY DEF NewSensorMessage_Object
  <2>2. IsMap(m["sensors"])
    BY DEF IsSensorObject
  <2>3. ReadsEntries(c, "sensors", 50, "SensorMessage_Sensors", NewSensorMessage_Sensors)
    BY SensorMessage_Object_SensorsEntry
  <2>4. Entering("object", s6, 50, "SensorMessage_Sensors", NewSensorMessage_Sensors, m["sensors"],
                 Ordered(DOMAIN m["sensors"], order))
    <3> DEFINE map == m["sensors"]
               keys == Ordered(DOMAIN map, order)
               w == [i \in DOMAIN keys |-> WriteSensorMessage_Sensors(map[keys[i]])]
    <3>1. s6 = [i \in DOMAIN keys |->
                 WriteSub(50, <<WriteString(10, keys[i]), WriteSub(18, w[i])>>)]
      <4>1. s6 = [i \in DOMAIN keys |->
                   WriteSub(50, <<WriteString(10, keys[i]),
                      WriteSub(18, WriteSensorMessage_Sensors(map[keys[i]]))>>)]
        BY Zenon DEF WriteMap
      <4> HIDE DEF s6, keys, map
      <4> QED BY <4>1
    <3>2. \A k \in DOMAIN map : IsSensors(map[k])
      BY DEF IsSensorObject
    <3>3. \A i \in DOMAIN keys : keys[i] \in DOMAIN map
      BY <2>2, OrderedRange DEF IsMap
    <3> HIDE DEF map, keys, s6
    <3>4. \A i \in DOMAIN keys : Reaches("value", "SensorMessage_Sensors", NewSensorMessage_Sensors,
                                         w[i], map[keys[i]])
      BY <3>2, <3>3, SensorsReached
    <3> HIDE DEF w
    <3>5. Entering("object", s6, 50, "SensorMessage_Sensors", NewSensorMessage_Sensors, map, keys)
      BY <3>1, <3>4, MessagesEntering
    <3> QED BY <3>5 DEF map, keys
  <2> HIDE DEF c, new, F5, s6
  <2> QED BY <2>1, <2>2, <2>3, <2>4, ReachesMap
<1>10. Upto(m, new, F0) = new /\ Upto(m, new, F6) = m
  <2>1. F6 \cup {"unknown"} = DOMAIN new
    BY <1>1
  <2> HIDE DEF new, F6
  <2> QED BY <1>1, <1>2, <2>1, UptoEnds
<1> HIDE DEF c, new, F1, s1, F2, s2, F3, s3, F4, s4, F5, s5, F6, s6
<1>11. Reaches("object", c, m, <<>>, m)
  BY ReachesNowhere
<1>12. Reaches("object", c, new, s1 \o s2 \o s3 \o s4 \o s5 \o s6 \o <<>>, m)
  BY <1>4, <1>5, <1>6, <1>7, <1>8, <1>9, <1>10, <1>11, ReachesOn
<1>13. WriteSensorMessage_Object(m, order) = s1 \o s2 \o s3 \o s4 \o s5 \o s6 \o <<>>
  BY Zenon, <1>2 DEF WriteSensorMessage_Object, s1, s2, s3, s4, s5, s6
<1> QED BY <1>12, <1>13 DEF c, new
------------------------------------------------------------------------------
(* What SetMessage() does with a message that it can read. *)
Given(m, f, x) == [msg |-> [m EXCEPT ![f] = <<x>>], ok |-> TRUE]

(* Class c does so with this tag, if there was no message before. *)
ReadsMessage(c, f, tag, v, new) ==
  \A m, it, x : m[f] = <<>> /\ IsWritten(it, tag) /\ Leads(v, new, it.sub, x)
                 => TurnOf(c, m, it) = Given(m, f, x)

(* A message that need not be there, and what is written of it. *)
Single(v, new, tag, s, xs) ==
  \/ xs = <<>> /\ s = <<>>
  \/ \E x, it : xs = <<x>> /\ s = <<it>> /\ IsWritten(it, tag) /\ Leads(v, new, it.sub, x)

(* Such a field is read as it was written. *)
LEMMA ReachesMessage ==
  ASSUME NEW d, NEW c, NEW m, NEW new, NEW F, NEW f \in DOMAIN new, f \notin F, new[f] = <<>>,
         NEW tag \in Tags, NEW v, NEW newv, ReadsMessage(c, f, tag, v, newv),
         NEW s, Single(v, newv, tag, s, m[f])
  PROVE  Reaches(d, c, Upto(m, new, F), s, Upto(m, new, F \cup {f}))
<1> DEFINE a == Upto(m, new, F)
           b == Upto(m, new, F \cup {f})
           xs == m[f]
<1>0. Differ(a, b, f, new[f], m[f])
  BY UptoNext
<1> HIDE DEF a, b
<1>1. IsRecord(a) /\ a[f] = <<>> /\ f \in DOMAIN a /\ b = [a EXCEPT ![f] = xs]
  BY <1>0 DEF Differ
<1>2. Single(v, newv, tag, s, xs)
  OBVIOUS
<1> HIDE DEF xs
<1>3. CASE xs = <<>> /\ s = <<>>
  <2>1. b = a
    BY <1>1, <1>3, SetAgain
  <2> QED BY <1>3, <2>1, ReachesNowhere DEF a, b
<1>4. ASSUME NEW x, NEW it, xs = <<x>>, s = <<it>>, IsWritten(it, tag), Leads(v, newv, it.sub, x)
      PROVE  Reaches(d, c, a, s, b)
  <2>1. ~EndsMessage(it) /\ it.whole = TRUE
    BY <1>4, WrittenGoesOn DEF IsWritten
  <2>2. TurnOf(c, a, it) = Given(a, f, x)
    BY <1>1, <1>4 DEF ReadsMessage
  <2>3. Given(a, f, x) = [msg |-> b, ok |-> TRUE]
    BY <1>1, <1>4 DEF Given
  <2>4. Leads(c, a, <<it>>, b)
    BY <2>1, <2>2, <2>3, LeadsOne
  <2>5. If(TRUE, it) = <<it>>
    BY DEF If
  <2>6. Reaches(d, c, a, If(TRUE, it), b)
    BY <2>1, <2>4, <2>5, ReachesIf
  <2> QED BY <1>4, <2>5, <2>6
<1>5. Reaches(d, c, a, s, b)
  <2>1. CASE xs = <<>> /\ s = <<>>
    BY <1>3, <2>1 DEF a, b
  <2>2. CASE ~(xs = <<>> /\ s = <<>>)
    BY <1>2, <1>4, <2>2 DEF Single
  <2> QED BY <2>1, <2>2
<1> QED BY <1>5 DEF a, b

(* A message of the simulation: settings or variables. *)
OneOf(xs, new) == xs = <<>> \/ \E x : xs = <<x>> /\ IsA(x, new)

(* HandshakeMessage reads its settings, *)
LEMMA SettingsRead ==
  ReadsMessage("HandshakeMessage", "simSettings", 42, "HandshakeMessage_SimulationSettings",
               NewHandshakeMessage_SimulationSettings)
<1> SUFFICES ASSUME NEW m, NEW it, NEW x, m["simSettings"] = <<>>, IsWritten(it, 42),
                    Leads("HandshakeMessage_SimulationSettings",
                          NewHandshakeMessage_SimulationSettings, it.sub, x)
             PROVE  TurnOf("HandshakeMessage", m, it) = Given(m, "simSettings", x)
  BY DEF ReadsMessage
<1> DEFINE new == NewHandshakeMessage_SimulationSettings
           Set(r) == Parsed([m EXCEPT !["simSettings"] = <<r.msg>>], r.ok /\ it.whole)
<1>1. ASSUME NEW r, r = [msg |-> x, ok |-> TRUE]
      PROVE  Set(r) = Given(m, "simSettings", x)
  <2>1. r.msg = x /\ (r.ok /\ it.whole) = TRUE
    BY <1>1 DEF IsWritten
  <2> QED BY <2>1 DEF Parsed, Given
<1>2. Every!Fold("HandshakeMessage_SimulationSettings", Parsed(new, TRUE), it.sub)
        = [msg |-> x, ok |-> TRUE]
  BY FoldLeads DEF Parsed
<1>3. ParseHandshakeMessage(m, it)
        = Set(ParseItems(ParseHandshakeMessage_SimulationSettings, Mutable(m["simSettings"], new),
                         it.sub))
  <2>1. it.tag = 42 /\ it.tag \notin {8, 16, 24, 34}
    BY DEF IsWritten
  <2> QED BY Zenon, <2>1 DEF ParseHandshakeMessage, SetMessage
<1>4. Mutable(m["simSettings"], new) = new
  BY DEF Mutable
<1>5. TurnOf("HandshakeMessage", m, it) = ParseHandshakeMessage(m, it)
  BY DEF TurnOf, Turn
<1> HIDE DEF Set, new
<1> QED BY Zenon, <1>1, <1>2, <1>3, <1>4, <1>5, HandshakeMessage_SimulationSettingsParses

(* SensorMessage its variables. *)
LEMMA VariablesRead ==
  ReadsMessage("SensorMessage", "simVars", 34, "SensorMessage_SimulationVariables",
               NewSensorMessage_SimulationVariables)
<1> SUFFICES ASSUME NEW m, NEW it, NEW x, m["simVars"] = <<>>, IsWritten(it, 34),
                    Leads("SensorMessage_SimulationVariables", NewSensorMessage_SimulationVariables,
                          it.sub, x)
             PROVE  TurnOf("SensorMessage", m, it) = Given(m, "simVars", x)
  BY DEF ReadsMessage
<1> DEFINE new == NewSensorMessage_SimulationVariables
           Set(r) == Parsed([m EXCEPT !["simVars"] = <<r.msg>>], r.ok /\ it.whole)
<1>1. ASSUME NEW r, r = [msg |-> x, ok |-> TRUE]
      PROVE  Set(r) = Given(m, "simVars", x)
  <2>1. r.msg = x /\ (r.ok /\ it.whole) = TRUE
    BY <1>1 DEF IsWritten
  <2> QED BY <2>1 DEF Parsed, Given
<1>2. Every!Fold("SensorMessage_SimulationVariables", Parsed(new, TRUE), it.sub)
        = [msg |-> x, ok |-> TRUE]
  BY FoldLeads DEF Parsed
<1>3. ParseSensorMessage(m, it)
        = Set(ParseItems(ParseSensorMessage_SimulationVariables, Mutable(m["simVars"], new),
                         it.sub))
  <2>1. it.tag = 34 /\ it.tag \notin {8, 26}
    BY DEF IsWritten
  <2> QED BY Zenon, <2>1 DEF ParseSensorMessage, SetMessage
<1>4. Mutable(m["simVars"], new) = new
  BY DEF Mutable
<1>5. TurnOf("SensorMessage", m, it) = ParseSensorMessage(m, it)
  BY DEF TurnOf, Turn
<1> HIDE DEF Set, new
<1> QED BY Zenon, <1>1, <1>2, <1>3, <1>4, <1>5, SensorMessage_SimulationVariablesParses

(* They are written like this. *)
LEMMA SettingsWritten ==
  ASSUME NEW xs, OneOf(xs, NewHandshakeMessage_SimulationSettings)
  PROVE  Single("HandshakeMessage_SimulationSettings", NewHandshakeMessage_SimulationSettings, 42,
                [i \in DOMAIN xs |-> WriteSub(42,
                                              WriteHandshakeMessage_SimulationSettings(xs[i]))], xs)
<1> DEFINE s == [i \in DOMAIN xs |-> WriteSub(42, WriteHandshakeMessage_SimulationSettings(xs[i]))]
           new == NewHandshakeMessage_SimulationSettings
<1>1. CASE xs = <<>>
  <2>1. DOMAIN xs = {}
    BY <1>1
  <2>2. s = <<>>
    BY <2>1
  <2> QED BY <1>1, <2>2 DEF Single
<1>2. ASSUME NEW x, xs = <<x>>, IsA(x, new)
      PROVE  Single("HandshakeMessage_SimulationSettings", new, 42, s, xs)
  <2> DEFINE w == WriteHandshakeMessage_SimulationSettings(x)
             it == WriteSub(42, w)
  <2>1. s = <<it>>
    <3>1. DOMAIN xs = {1} /\ xs[1] = x
      BY <1>2
    <3>2. s = [i \in {1} |-> it]
      BY <3>1
    <3> HIDE DEF it, s
    <3>3. <<it>> = [i \in {1} |-> it]
      <4> DEFINE u == <<it>>
      <4>1. u = [i \in 1..1 |-> u[i]] /\ u[1] = it
        OBVIOUS
      <4> HIDE DEF u
      <4>2. u = [i \in {1} |-> it]
        BY <4>1
      <4> QED BY <4>2 DEF u
    <3> QED BY <3>2, <3>3
  <2>2. x.unknown = <<>>
    BY <1>2 DEF IsA
  <2>3. w = If(x["timeStep"] # 0, WriteDouble(9, x["timeStep"])) \o <<>>
    BY <2>2 DEF WriteHandshakeMessage_SimulationSettings
  <2>4. Leads("HandshakeMessage_SimulationSettings", new, w, x)
    BY <1>2, <2>3, OneNumberReached, WhatIsReached
  <2> HIDE DEF w, new, s
  <2>5. IsWritten(it, 42) /\ it.sub = w
    BY WrittenScalar
  <2> HIDE DEF it
  <2>6. \E y, z : xs = <<y>> /\ s = <<z>> /\ IsWritten(z, 42)
                 /\ Leads("HandshakeMessage_SimulationSettings", new, z.sub, y)
    BY <1>2, <2>1, <2>4, <2>5
  <2> QED BY <2>6 DEF Single
<1> QED BY <1>1, <1>2 DEF OneOf

(* And so are these. *)
LEMMA VariablesWritten ==
  ASSUME NEW xs, OneOf(xs, NewSensorMessage_SimulationVariables)
  PROVE  Single("SensorMessage_SimulationVariables", NewSensorMessage_SimulationVariables, 34,
                [i \in DOMAIN xs |-> WriteSub(34,
                                              WriteSensorMessage_SimulationVariables(xs[i]))], xs)
<1> DEFINE s == [i \in DOMAIN xs |-> WriteSub(34, WriteSensorMessage_SimulationVariables(xs[i]))]
           new == NewSensorMessage_SimulationVariables
<1>1. CASE xs = <<>>
  <2>1. DOMAIN xs = {}
    BY <1>1
  <2>2. s = <<>>
    BY <2>1
  <2> QED BY <1>1, <2>2 DEF Single
<1>2. ASSUME NEW x, xs = <<x>>, IsA(x, new)
      PROVE  Single("SensorMessage_SimulationVariables", new, 34, s, xs)
  <2> DEFINE w == WriteSensorMessage_SimulationVariables(x)
             it == WriteSub(34, w)
  <2>1. s = <<it>>
    <3>1. DOMAIN xs = {1} /\ xs[1] = x
      BY <1>2
    <3>2. s = [i \in {1} |-> it]
      BY <3>1
    <3> HIDE DEF it, s
    <3>3. <<it>> = [i \in {1} |-> it]
      <4> DEFINE u == <<it>>
      <4>1. u = [i \in 1..1 |-> u[i]] /\ u[1] = it
        OBVIOUS
      <4> HIDE DEF u
      <4>2. u = [i \in {1} |-> it]
        BY <4>1
      <4> QED BY <4>2 DEF u
    <3> QED BY <3>2, <3>3
  <2>2. x.unknown = <<>>
    BY <1>2 DEF IsA
  <2>3. w = If(x["simulatedTime"] # 0, WriteDouble(9, x["simulatedTime"])) \o <<>>
    BY <2>2 DEF WriteSensorMessage_SimulationVariables
  <2>4. Leads("SensorMessage_SimulationVariables", new, w, x)
    BY <1>2, <2>3, OneNumberReached, WhatIsReached
  <2> HIDE DEF w, new, s
  <2>5. IsWritten(it, 34) /\ it.sub = w
    BY WrittenScalar
  <2> HIDE DEF it
  <2>6. \E y, z : xs = <<y>> /\ s = <<z>> /\ IsWritten(z, 34)
                 /\ Leads("SensorMessage_SimulationVariables", new, z.sub, y)
    BY <1>2, <2>1, <2>4, <2>5
  <2> QED BY <2>6 DEF Single
<1> QED BY <1>1, <1>2 DEF OneOf
------------------------------------------------------------------------------
(* The messages themselves: what they can be, and that they are read as    *)
(* they were written.                                                      *)
IsHandshakeInitMessage(m) == IsA(m, NewHandshakeInitMessage)

(* A first message. *)
LEMMA HandshakeInitMessageReached ==
  ASSUME NEW m, IsHandshakeInitMessage(m)
  PROVE  Reaches("message", "HandshakeInitMessage", NewHandshakeInitMessage,
                 WriteHandshakeInitMessage(m), m)
<1> DEFINE c == "HandshakeInitMessage"
           new == NewHandshakeInitMessage
           F0 == {}
           F1 == F0 \cup {"messageType"}
           F2 == F1 \cup {"version"}
           s1 == If(m["messageType"] # 0, WriteVarint(8, m["messageType"]))
           s2 == If(m["version"] # 0, WriteVarint(16, m["version"]))
<1>1. IsA(new, new) /\ DOMAIN new = {"messageType", "version", "unknown"}
  BY DEF NewHandshakeInitMessage, IsA, IsRecord
<1>2. IsA(m, new) /\ m.unknown = <<>>
  BY DEF IsHandshakeInitMessage, IsA
<1>3. {8, 16} \subseteq Tags
  BY DEF Tags
<1>4. Reaches("message", c, Upto(m, new, F0), s1, Upto(m, new, F1))
  <2>1. "messageType" \in DOMAIN new /\ new["messageType"] = 0 /\ "messageType" \notin F0
    BY DEF NewHandshakeInitMessage
  <2>2. ReadsNumber(c, "messageType", 8)
    BY DEF ReadsNumber, TurnOf, Turn, ParseHandshakeInitMessage
  <2> DEFINE it == WriteVarint(8, m["messageType"])
  <2>3. IsWritten(it, 8) /\ it.num = <<m["messageType"]>>
    BY WrittenScalar
  <2> HIDE DEF c, new, F0, it
  <2>4. Reaches("message", c, Upto(m, new, F0), If(m["messageType"] # 0, it), Upto(m, new, F1))
    BY <1>3, <2>1, <2>2, <2>3, ReachesNumber
  <2> QED BY <2>4 DEF it
<1>5. Reaches("message", c, Upto(m, new, F1), s2, Upto(m, new, F2))
  <2>1. "version" \in DOMAIN new /\ new["version"] = 0 /\ "version" \notin F1
    BY DEF NewHandshakeInitMessage
  <2>2. ReadsNumber(c, "version", 16)
    BY DEF ReadsNumber, TurnOf, Turn, ParseHandshakeInitMessage
  <2> DEFINE it == WriteVarint(16, m["version"])
  <2>3. IsWritten(it, 16) /\ it.num = <<m["version"]>>
    BY WrittenScalar
  <2> HIDE DEF c, new, F1, it
  <2>4. Reaches("message", c, Upto(m, new, F1), If(m["version"] # 0, it), Upto(m, new, F2))
    BY <1>3, <2>1, <2>2, <2>3, ReachesNumber
  <2> QED BY <2>4 DEF it
<1>6. Upto(m, new, F0) = new /\ Upto(m, new, F2) = m
  <2>1. F2 \cup {"unknown"} = DOMAIN new
    BY <1>1
  <2> HIDE DEF new, F2
  <2> QED BY <1>1, <1>2, <2>1, UptoEnds
<1> HIDE DEF c, new, F1, s1, F2, s2
<1>7. Reaches("message", c, m, <<>>, m)
  BY ReachesNowhere
<1>8. Reaches("message", c, new, s1 \o s2 \o <<>>, m)
  BY <1>4, <1>5, <1>6, <1>7, ReachesOn
<1>9. WriteHandshakeInitMessage(m) = s1 \o s2 \o <<>>
  BY Zenon, <1>2 DEF WriteHandshakeInitMessage, s1, s2
<1> QED BY <1>8, <1>9 DEF c, new

(* A reset. *)
IsResetMessage(m) == IsA(m, NewResetMessage)

(* It is read as it was written. *)
LEMMA ResetMessageReached ==
  ASSUME NEW m, IsResetMessage(m)
  PROVE  Reaches("message", "ResetMessage", NewResetMessage, WriteResetMessage(m), m)
<1> DEFINE c == "ResetMessage"
           new == NewResetMessage
           F0 == {}
           F1 == F0 \cup {"messageType"}
           s1 == If(m["messageType"] # 0, WriteVarint(8, m["messageType"]))
<1>1. IsA(new, new) /\ DOMAIN new = {"messageType", "unknown"}
  BY DEF NewResetMessage, IsA, IsRecord
<1>2. IsA(m, new) /\ m.unknown = <<>>
  BY DEF IsResetMessage, IsA
<1>3. {8} \subseteq Tags
  BY DEF Tags
<1>4. Reaches("message", c, Upto(m, new, F0), s1, Upto(m, new, F1))
  <2>1. "messageType" \in DOMAIN new /\ new["messageType"] = 0 /\ "messageType" \notin F0
    BY DEF NewResetMessage
  <2>2. ReadsNumber(c, "messageType", 8)
    BY DEF ReadsNumber, TurnOf, Turn, ParseResetMessage
  <2> DEFINE it == WriteVarint(8, m["messageType"])
  <2>3. IsWritten(it, 8) /\ it.num = <<m["messageType"]>>
    BY WrittenScalar
  <2> HIDE DEF c, new, F0, it
  <2>4. Reaches("message", c, Upto(m, new, F0), If(m["messageType"] # 0, it), Upto(m, new, F1))
    BY <1>3, <2>1, <2>2, <2>3, ReachesNumber
  <2> QED BY <2>4 DEF it
<1>5. Upto(m, new, F0) = new /\ Upto(m, new, F1) = m
  <2>1. F1 \cup {"unknown"} = DOMAIN new
    BY <1>1
  <2> HIDE DEF new, F1
  <2> QED BY <1>1, <1>2, <2>1, UptoEnds
<1> HIDE DEF c, new, F1, s1
<1>6. Reaches("message", c, m, <<>>, m)
  BY ReachesNowhere
<1>7. Reaches("message", c, new, s1 \o <<>>, m)
  BY <1>4, <1>5, <1>6, ReachesOn
<1>8. WriteResetMessage(m) = s1 \o <<>>
  BY Zenon, <1>2 DEF WriteResetMessage, s1
<1> QED BY <1>7, <1>8 DEF c, new

(* A request. *)
IsSensorRequestMessage(m) == IsA(m, NewSensorRequestMessage)

(* It is read as it was written. *)
LEMMA SensorRequestMessageReached ==
  ASSUME NEW m, IsSensorRequestMessage(m)
  PROVE  Reaches("message", "SensorRequestMessage", NewSensorRequestMessage,
                 WriteSensorRequestMessage(m), m)
<1> DEFINE c == "SensorRequestMessage"
           new == NewSensorRequestMessage
           F0 == {}
           F1 == F0 \cup {"messageType"}
           s1 == If(m["messageType"] # 0, WriteVarint(8, m["messageType"]))
<1>1. IsA(new, new) /\ DOMAIN new = {"messageType", "unknown"}
  BY DEF NewSensorRequestMessage, IsA, IsRecord
<1>2. IsA(m, new) /\ m.unknown = <<>>
  BY DEF IsSensorRequestMessage, IsA
<1>3. {8} \subseteq Tags
  BY DEF Tags
<1>4. Reaches("message", c, Upto(m, new, F0), s1, Upto(m, new, F1))
  <2>1. "messageType" \in DOMAIN new /\ new["messageType"] = 0 /\ "messageType" \notin F0
    BY DEF NewSensorRequestMessage
  <2>2. ReadsNumber(c, "messageType", 8)
    BY DEF ReadsNumber, TurnOf, Turn, ParseSensorRequestMessage
  <2> DEFINE it == WriteVarint(8, m["messageType"])
  <2>3. IsWritten(it, 8) /\ it.num = <<m["messageType"]>>
    BY WrittenScalar
  <2> HIDE DEF c, new, F0, it
  <2>4. Reaches("message", c, Upto(m, new, F0), If(m["messageType"] # 0, it), Upto(m, new, F1))
    BY <1>3, <2>1, <2>2, <2>3, ReachesNumber
  <2> QED BY <2>4 DEF it
<1>5. Upto(m, new, F0) = new /\ Upto(m, new, F1) = m
  <2>1. F1 \cup {"unknown"} = DOMAIN new
    BY <1>1
  <2> HIDE DEF new, F1
  <2> QED BY <1>1, <1>2, <2>1, UptoEnds
<1> HIDE DEF c, new, F1, s1
<1>6. Reaches("message", c, m, <<>>, m)
  BY ReachesNowhere
<1>7. Reaches("message", c, new, s1 \o <<>>, m)
  BY <1>4, <1>5, <1>6, ReachesOn
<1>8. WriteSensorRequestMessage(m) = s1 \o <<>>
  BY Zenon, <1>2 DEF WriteSensorRequestMessage, s1
<1> QED BY <1>7, <1>8 DEF c, new

(* An error. *)
IsErrorMessage(m) == IsA(m, NewErrorMessage)

(* It is read as it was written. *)
LEMMA ErrorMessageReached ==
  ASSUME NEW m, IsErrorMessage(m)
  PROVE  Reaches("message", "ErrorMessage", NewErrorMessage, WriteErrorMessage(m), m)
<1> DEFINE c == "ErrorMessage"
           new == NewErrorMessage
           F0 == {}
           F1 == F0 \cup {"messageType"}
           F2 == F1 \cup {"error"}
           F3 == F2 \cup {"errormessage"}
           s1 == If(m["messageType"] # 0, WriteVarint(8, m["messageType"]))
           s2 == If(m["error"] # 0, WriteVarint(16, m["error"]))
           s3 == If(m["errormessage"] # "", WriteString(26, m["errormessage"]))
<1>1. IsA(new, new) /\ DOMAIN new = {"messageType", "error", "errormessage", "unknown"}
  BY DEF NewErrorMessage, IsA, IsRecord
<1>2. IsA(m, new) /\ m.unknown = <<>>
  BY DEF IsErrorMessage, IsA
<1>3. {8, 16, 26} \subseteq Tags
  BY DEF Tags
<1>4. Reaches("message", c, Upto(m, new, F0), s1, Upto(m, new, F1))
  <2>1. "messageType" \in DOMAIN new /\ new["messageType"] = 0 /\ "messageType" \notin F0
    BY DEF NewErrorMessage
  <2>2. ReadsNumber(c, "messageType", 8)
    BY DEF ReadsNumber, TurnOf, Turn, ParseErrorMessage
  <2> DEFINE it == WriteVarint(8, m["messageType"])
  <2>3. IsWritten(it, 8) /\ it.num = <<m["messageType"]>>
    BY WrittenScalar
  <2> HIDE DEF c, new, F0, it
  <2>4. Reaches("message", c, Upto(m, new, F0), If(m["messageType"] # 0, it), Upto(m, new, F1))
    BY <1>3, <2>1, <2>2, <2>3, ReachesNumber
  <2> QED BY <2>4 DEF it
<1>5. Reaches("message", c, Upto(m, new, F1), s2, Upto(m, new, F2))
  <2>1. "error" \in DOMAIN new /\ new["error"] = 0 /\ "error" \notin F1
    BY DEF NewErrorMessage
  <2>2. ReadsNumber(c, "error", 16)
    BY DEF ReadsNumber, TurnOf, Turn, ParseErrorMessage
  <2> DEFINE it == WriteVarint(16, m["error"])
  <2>3. IsWritten(it, 16) /\ it.num = <<m["error"]>>
    BY WrittenScalar
  <2> HIDE DEF c, new, F1, it
  <2>4. Reaches("message", c, Upto(m, new, F1), If(m["error"] # 0, it), Upto(m, new, F2))
    BY <1>3, <2>1, <2>2, <2>3, ReachesNumber
  <2> QED BY <2>4 DEF it
<1>6. Reaches("message", c, Upto(m, new, F2), s3, Upto(m, new, F3))
  <2>1. "errormessage" \in DOMAIN new /\ new["errormessage"] = "" /\ "errormessage" \notin F2
    BY DEF NewErrorMessage
  <2>2. ReadsString(c, "errormessage", 26)
    BY DEF ReadsString, TurnOf, Turn, ParseErrorMessage
  <2> DEFINE it == WriteString(26, m["errormessage"])
  <2>3. IsWritten(it, 26) /\ it.str = m["errormessage"]
    BY WrittenScalar
  <2> HIDE DEF c, new, F2, it
  <2>4. Reaches("message", c, Upto(m, new, F2), If(m["errormessage"] # "", it), Upto(m, new, F3))
    BY <1>3, <2>1, <2>2, <2>3, ReachesString
  <2> QED BY <2>4 DEF it
<1>7. Upto(m, new, F0) = new /\ Upto(m, new, F3) = m
  <2>1. F3 \cup {"unknown"} = DOMAIN new
    BY <1>1
  <2> HIDE DEF new, F3
  <2> QED BY <1>1, <1>2, <2>1, UptoEnds
<1> HIDE DEF c, new, F1, s1, F2, s2, F3, s3
<1>8. Reaches("message", c, m, <<>>, m)
  BY ReachesNowhere
<1>9. Reaches("message", c, new, s1 \o s2 \o s3 \o <<>>, m)
  BY <1>4, <1>5, <1>6, <1>7, <1>8, ReachesOn
<1>10. WriteErrorMessage(m) = s1 \o s2 \o s3 \o <<>>
  BY Zenon, <1>2 DEF WriteErrorMessage, s1, s2, s3
<1> QED BY <1>9, <1>10 DEF c, new

(* Controls. *)
IsControlMessage(m) ==
  /\ IsA(m, NewControlMessage)
  /\ IsMap(m.objects) /\ \A k \in DOMAIN m.objects : IsControlObject(m.objects[k])

(* They are read as they were written. *)
LEMMA ControlMessageReached ==
  ASSUME NEW m, IsControlMessage(m), NEW order
  PROVE  Reaches("message", "ControlMessage", NewControlMessage, WriteControlMessage(m, order), m)
<1> DEFINE c == "ControlMessage"
           new == NewControlMessage
           F0 == {}
           F1 == F0 \cup {"messageType"}
           F2 == F1 \cup {"objects"}
           s1 == If(m["messageType"] # 0, WriteVarint(8, m["messageType"]))
           s2 == WriteMap(18, m["objects"], order,
                        LAMBDA v : WriteSub(18, WriteControlMessage_Object(v, order)))
<1>1. IsA(new, new) /\ DOMAIN new = {"messageType", "objects", "unknown"}
  BY DEF NewControlMessage, IsA, IsRecord
<1>2. IsA(m, new) /\ m.unknown = <<>>
  BY DEF IsControlMessage, IsA
<1>3. {8, 18} \subseteq Tags
  BY DEF Tags
<1>4. Reaches("message", c, Upto(m, new, F0), s1, Upto(m, new, F1))
  <2>1. "messageType" \in DOMAIN new /\ new["messageType"] = 0 /\ "messageType" \notin F0
    BY DEF NewControlMessage
  <2>2. ReadsNumber(c, "messageType", 8)
    BY DEF ReadsNumber, TurnOf, Turn, ParseControlMessage
  <2> DEFINE it == WriteVarint(8, m["messageType"])
  <2>3. IsWritten(it, 8) /\ it.num = <<m["messageType"]>>
    BY WrittenScalar
  <2> HIDE DEF c, new, F0, it
  <2>4. Reaches("message", c, Upto(m, new, F0), If(m["messageType"] # 0, it), Upto(m, new, F1))
    BY <1>3, <2>1, <2>2, <2>3, ReachesNumber
  <2> QED BY <2>4 DEF it
<1>5. Reaches("message", c, Upto(m, new, F1), s2, Upto(m, new, F2))
  <2>1. "objects" \in DOMAIN new /\ new["objects"] = NoEntries /\ "objects" \notin F1
    BY DEF NewControlMessage
  <2>2. IsMap(m["objects"])
    BY DEF IsControlMessage
  <2>3. ReadsEntries(c, "objects", 18, "ControlMessage_Object", NewControlMessage_Object)
    BY ControlMessage_ObjectsEntry
  <2>4. Entering("message", s2, 18, "ControlMessage_Object", NewControlMessage_Object, m["objects"],
                 Ordered(DOMAIN m["objects"], order))
    <3> DEFINE map == m["objects"]
               keys == Ordered(DOMAIN map, order)
               w == [i \in DOMAIN keys |-> WriteControlMessage_Object(map[keys[i]], order)]
    <3>1. s2 = [i \in DOMAIN keys |->
                 WriteSub(18, <<WriteString(10, keys[i]), WriteSub(18, w[i])>>)]
      <4>1. s2 = [i \in DOMAIN keys |->
                   WriteSub(18, <<WriteString(10, keys[i]),
                      WriteSub(18, WriteControlMessage_Object(map[keys[i]], order))>>)]
        BY Zenon DEF WriteMap
      <4> HIDE DEF s2, keys, map
      <4> QED BY <4>1
    <3>2. \A k \in DOMAIN map : IsControlObject(map[k])
      BY DEF IsControlMessage
    <3>3. \A i \in DOMAIN keys : keys[i] \in DOMAIN map
      BY <2>2, OrderedRange DEF IsMap
    <3> HIDE DEF map, keys, s2
    <3>4. \A i \in DOMAIN keys : Reaches("object", "ControlMessage_Object",
                                         NewControlMessage_Object, w[i], map[keys[i]])
      BY <3>2, <3>3, ControlObjectReached
    <3> HIDE DEF w
    <3>5. Entering("message", s2, 18, "ControlMessage_Object", NewControlMessage_Object, map, keys)
      BY <3>1, <3>4, MessagesEntering
    <3> QED BY <3>5 DEF map, keys
  <2> HIDE DEF c, new, F1, s2
  <2> QED BY <2>1, <2>2, <2>3, <2>4, ReachesMap
<1>6. Upto(m, new, F0) = new /\ Upto(m, new, F2) = m
  <2>1. F2 \cup {"unknown"} = DOMAIN new
    BY <1>1
  <2> HIDE DEF new, F2
  <2> QED BY <1>1, <1>2, <2>1, UptoEnds
<1> HIDE DEF c, new, F1, s1, F2, s2
<1>7. Reaches("message", c, m, <<>>, m)
  BY ReachesNowhere
<1>8. Reaches("message", c, new, s1 \o s2 \o <<>>, m)
  BY <1>4, <1>5, <1>6, <1>7, ReachesOn
<1>9. WriteControlMessage(m, order) = s1 \o s2 \o <<>>
  BY Zenon, <1>2 DEF WriteControlMessage, s1, s2
<1> QED BY <1>8, <1>9 DEF c, new

(* Sensors. *)
IsSensorMessage(m) ==
  /\ IsA(m, NewSensorMessage) /\ OneOf(m.simVars, NewSensorMessage_SimulationVariables)
  /\ IsMap(m.objects) /\ \A k \in DOMAIN m.objects : IsSensorObject(m.objects[k])

(* They are read as they were written. *)
LEMMA SensorMessageReached ==
  ASSUME NEW m, IsSensorMessage(m), NEW order
  PROVE  Reaches("message", "SensorMessage", NewSensorMessage, WriteSensorMessage(m, order), m)
<1> DEFINE c == "SensorMessage"
           new == NewSensorMessage
           F0 == {}
           F1 == F0 \cup {"messageType"}
           F2 == F1 \cup {"objects"}
           F3 == F2 \cup {"simVars"}
           s1 == If(m["messageType"] # 0, WriteVarint(8, m["messageType"]))
           s2 == WriteMap(26, m["objects"], order,
                        LAMBDA v : WriteSub(18, WriteSensorMessage_Object(v, order)))
           s3 == [i \in DOMAIN m["simVars"] |->
                    WriteSub(34, WriteSensorMessage_SimulationVariables(m["simVars"][i]))]
<1>1. IsA(new, new) /\ DOMAIN new = {"messageType", "objects", "simVars", "unknown"}
  BY DEF NewSensorMessage, IsA, IsRecord
<1>2. IsA(m, new) /\ m.unknown = <<>>
  BY DEF IsSensorMessage, IsA
<1>3. {8, 26, 34} \subseteq Tags
  BY DEF Tags
<1>4. Reaches("message", c, Upto(m, new, F0), s1, Upto(m, new, F1))
  <2>1. "messageType" \in DOMAIN new /\ new["messageType"] = 0 /\ "messageType" \notin F0
    BY DEF NewSensorMessage
  <2>2. ReadsNumber(c, "messageType", 8)
    BY DEF ReadsNumber, TurnOf, Turn, ParseSensorMessage
  <2> DEFINE it == WriteVarint(8, m["messageType"])
  <2>3. IsWritten(it, 8) /\ it.num = <<m["messageType"]>>
    BY WrittenScalar
  <2> HIDE DEF c, new, F0, it
  <2>4. Reaches("message", c, Upto(m, new, F0), If(m["messageType"] # 0, it), Upto(m, new, F1))
    BY <1>3, <2>1, <2>2, <2>3, ReachesNumber
  <2> QED BY <2>4 DEF it
<1>5. Reaches("message", c, Upto(m, new, F1), s2, Upto(m, new, F2))
  <2>1. "objects" \in DOMAIN new /\ new["objects"] = NoEntries /\ "objects" \notin F1
    BY DEF NewSensorMessage
  <2>2. IsMap(m["objects"])
    BY DEF IsSensorMessage
  <2>3. ReadsEntries(c, "objects", 26, "SensorMessage_Object", NewSensorMessage_Object)
    BY SensorMessage_ObjectsEntry
  <2>4. Entering("message", s2, 26, "SensorMessage_Object", NewSensorMessage_Object, m["objects"],
                 Ordered(DOMAIN m["objects"], order))
    <3> DEFINE map == m["objects"]
               keys == Ordered(DOMAIN map, order)
               w == [i \in DOMAIN keys |-> WriteSensorMessage_Object(map[keys[i]], order)]
    <3>1. s2 = [i \in DOMAIN keys |->
                 WriteSub(26, <<WriteString(10, keys[i]), WriteSub(18, w[i])>>)]
      <4>1. s2 = [i \in DOMAIN keys |->
                   WriteSub(26, <<WriteString(10, keys[i]),
                      WriteSub(18, WriteSensorMessage_Object(map[keys[i]], order))>>)]
        BY Zenon DEF WriteMap
      <4> HIDE DEF s2, keys, map
      <4> QED BY <4>1
    <3>2. \A k \in DOMAIN map : IsSensorObject(map[k])
      BY DEF IsSensorMessage
    <3>3. \A i \in DOMAIN keys : keys[i] \in DOMAIN map
      BY <2>2, OrderedRange DEF IsMap
    <3> HIDE DEF map, keys, s2
    <3>4. \A i \in DOMAIN keys : Reaches("object", "SensorMessage_Object", NewSensorMessage_Object,
                                         w[i], map[keys[i]])
      BY <3>2, <3>3, SensorObjectReached
    <3> HIDE DEF w
    <3>5. Entering("message", s2, 26, "SensorMessage_Object", NewSensorMessage_Object, map, keys)
      BY <3>1, <3>4, MessagesEntering
    <3> QED BY <3>5 DEF map, keys
  <2> HIDE DEF c, new, F1, s2
  <2> QED BY <2>1, <2>2, <2>3, <2>4, ReachesMap
<1>6. Reaches("message", c, Upto(m, new, F2), s3, Upto(m, new, F3))
  <2>1. "simVars" \in DOMAIN new /\ new["simVars"] = <<>> /\ "simVars" \notin F2
    BY DEF NewSensorMessage
  <2>2. ReadsMessage(c, "simVars", 34, "SensorMessage_SimulationVariables",
                     NewSensorMessage_SimulationVariables)
    BY VariablesRead
  <2>3. Single("SensorMessage_SimulationVariables", NewSensorMessage_SimulationVariables, 34, s3,
               m["simVars"])
    BY VariablesWritten DEF IsSensorMessage
  <2> HIDE DEF c, new, F2, s3
  <2> QED BY <1>3, <2>1, <2>2, <2>3, ReachesMessage
<1>7. Upto(m, new, F0) = new /\ Upto(m, new, F3) = m
  <2>1. F3 \cup {"unknown"} = DOMAIN new
    BY <1>1
  <2> HIDE DEF new, F3
  <2> QED BY <1>1, <1>2, <2>1, UptoEnds
<1> HIDE DEF c, new, F1, s1, F2, s2, F3, s3
<1>8. Reaches("message", c, m, <<>>, m)
  BY ReachesNowhere
<1>9. Reaches("message", c, new, s1 \o s2 \o s3 \o <<>>, m)
  BY <1>4, <1>5, <1>6, <1>7, <1>8, ReachesOn
<1>10. WriteSensorMessage(m, order) = s1 \o s2 \o s3 \o <<>>
  BY Zenon, <1>2 DEF WriteSensorMessage, s1, s2, s3
<1> QED BY <1>9, <1>10 DEF c, new

(* A handshake. *)
IsHandshakeMessage(m) ==
  /\ IsA(m, NewHandshakeMessage) /\ OneOf(m.simSettings, NewHandshakeMessage_SimulationSettings)
  /\ IsMap(m.objects) /\ \A k \in DOMAIN m.objects : IsHandshakeObject(m.objects[k])

(* It is read as it was written. *)
LEMMA HandshakeMessageReached ==
  ASSUME NEW m, IsHandshakeMessage(m), NEW order
  PROVE  Reaches("message", "HandshakeMessage", NewHandshakeMessage,
                 WriteHandshakeMessage(m, order), m)
<1> DEFINE c == "HandshakeMessage"
           new == NewHandshakeMessage
           F0 == {}
           F1 == F0 \cup {"messageType"}
           F2 == F1 \cup {"version"}
           F3 == F2 \cup {"controlType"}
           F4 == F3 \cup {"objects"}
           F5 == F4 \cup {"simSettings"}
           s1 == If(m["messageType"] # 0, WriteVarint(8, m["messageType"]))
           s2 == If(m["version"] # 0, WriteVarint(16, m["version"]))
           s3 == If(m["controlType"] # 0, WriteVarint(24, m["controlType"]))
           s4 == WriteMap(34, m["objects"], order,
                        LAMBDA v : WriteSub(18, WriteHandshakeMessage_Object(v, order)))
           s5 == [i \in DOMAIN m["simSettings"] |->
                    WriteSub(42, WriteHandshakeMessage_SimulationSettings(m["simSettings"][i]))]
<1>1. IsA(new, new)
      /\ DOMAIN new = {"messageType", "version", "controlType", "objects", "simSettings", "unknown"}
  BY DEF NewHandshakeMessage, IsA, IsRecord
<1>2. IsA(m, new) /\ m.unknown = <<>>
  BY DEF IsHandshakeMessage, IsA
<1>3. {8, 16, 24, 34, 42} \subseteq Tags
  BY DEF Tags
<1>4. Reaches("message", c, Upto(m, new, F0), s1, Upto(m, new, F1))
  <2>1. "messageType" \in DOMAIN new /\ new["messageType"] = 0 /\ "messageType" \notin F0
    BY DEF NewHandshakeMessage
  <2>2. ReadsNumber(c, "messageType", 8)
    BY DEF ReadsNumber, TurnOf, Turn, ParseHandshakeMessage
  <2> DEFINE it == WriteVarint(8, m["messageType"])
  <2>3. IsWritten(it, 8) /\ it.num = <<m["messageType"]>>
    BY WrittenScalar
  <2> HIDE DEF c, new, F0, it
  <2>4. Reaches("message", c, Upto(m, new, F0), If(m["messageType"] # 0, it), Upto(m, new, F1))
    BY <1>3, <2>1, <2>2, <2>3, ReachesNumber
  <2> QED BY <2>4 DEF it
<1>5. Reaches("message", c, Upto(m, new, F1), s2, Upto(m, new, F2))
  <2>1. "version" \in DOMAIN new /\ new["version"] = 0 /\ "version" \notin F1
    BY DEF NewHandshakeMessage
  <2>2. ReadsNumber(c, "version", 16)
    BY DEF ReadsNumber, TurnOf, Turn, ParseHandshakeMessage
  <2> DEFINE it == WriteVarint(16, m["version"])
  <2>3. IsWritten(it, 16) /\ it.num = <<m["version"]>>
    BY WrittenScalar
  <2> HIDE DEF c, new, F1, it
  <2>4. Reaches("message", c, Upto(m, new, F1), If(m["version"] # 0, it), Upto(m, new, F2))
    BY <1>3, <2>1, <2>2, <2>3, ReachesNumber
  <2> QED BY <2>4 DEF it
<1>6. Reaches("message", c, Upto(m, new, F2), s3, Upto(m, new, F3))
  <2>1. "controlType" \in DOMAIN new /\ new["controlType"] = 0 /\ "controlType" \notin F2
    BY DEF NewHandshakeMessage
  <2>2. ReadsNumber(c, "controlType", 24)
    BY DEF ReadsNumber, TurnOf, Turn, ParseHandshakeMessage
  <2> DEFINE it == WriteVarint(24, m["controlType"])
  <2>3. IsWritten(it, 24) /\ it.num = <<m["controlType"]>>
    BY WrittenScalar
  <2> HIDE DEF c, new, F2, it
  <2>4. Reaches("message", c, Upto(m, new, F2), If(m["controlType"] # 0, it), Upto(m, new, F3))
    BY <1>3, <2>1, <2>2, <2>3, ReachesNumber
  <2> QED BY <2>4 DEF it
<1>7. Reaches("message", c, Upto(m, new, F3), s4, Upto(m, new, F4))
  <2>1. "objects" \in DOMAIN new /\ new["objects"] = NoEntries /\ "objects" \notin F3
    BY DEF NewHandshakeMessage
  <2>2. IsMap(m["objects"])
    BY DEF IsHandshakeMessage
  <2>3. ReadsEntries(c, "objects", 34, "HandshakeMessage_Object", NewHandshakeMessage_Object)
    BY HandshakeMessage_ObjectsEntry
  <2>4. Entering("message", s4, 34, "HandshakeMessage_Object", NewHandshakeMessage_Object,
                 m["objects"],
                 Ordered(DOMAIN m["objects"], order))
    <3> DEFINE map == m["objects"]
               keys == Ordered(DOMAIN map, order)
               w == [i \in DOMAIN keys |-> WriteHandshakeMessage_Object(map[keys[i]], order)]
    <3>1. s4 = [i \in DOMAIN keys |->
                 WriteSub(34, <<WriteString(10, keys[i]), WriteSub(18, w[i])>>)]
      <4>1. s4 = [i \in DOMAIN keys |->
                   WriteSub(34, <<WriteString(10, keys[i]),
                      WriteSub(18, WriteHandshakeMessage_Object(map[keys[i]], order))>>)]
        BY Zenon DEF WriteMap
      <4> HIDE DEF s4, keys, map
      <4> QED BY <4>1
    <3>2. \A k \in DOMAIN map : IsHandshakeObject(map[k])
      BY DEF IsHandshakeMessage
    <3>3. \A i \in DOMAIN keys : keys[i] \in DOMAIN map
      BY <2>2, OrderedRange DEF IsMap
    <3> HIDE DEF map, keys, s4
    <3>4. \A i \in DOMAIN keys : Reaches("object", "HandshakeMessage_Object",
                                         NewHandshakeMessage_Object, w[i], map[keys[i]])
      BY <3>2, <3>3, HandshakeObjectReached
    <3> HIDE DEF w
    <3>5. Entering("message", s4, 34, "HandshakeMessage_Object", NewHandshakeMessage_Object, map,
                   keys)
      BY <3>1, <3>4, MessagesEntering
    <3> QED BY <3>5 DEF map, keys
  <2> HIDE DEF c, new, F3, s4
  <2> QED BY <2>1, <2>2, <2>3, <2>4, ReachesMap
<1>8. Reaches("message", c, Upto(m, new, F4), s5, Upto(m, new, F5))
  <2>1. "simSettings" \in DOMAIN new /\ new["simSettings"] = <<>> /\ "simSettings" \notin F4
    BY DEF NewHandshakeMessage
  <2>2. ReadsMessage(c, "simSettings", 42, "HandshakeMessage_SimulationSettings",
                     NewHandshakeMessage_SimulationSettings)
    BY SettingsRead
  <2>3. Single("HandshakeMessage_SimulationSettings", NewHandshakeMessage_SimulationSettings, 42,
               s5, m["simSettings"])
    BY SettingsWritten DEF IsHandshakeMessage
  <2> HIDE DEF c, new, F4, s5
  <2> QED BY <1>3, <2>1, <2>2, <2>3, ReachesMessage
<1>9. Upto(m, new, F0) = new /\ Upto(m, new, F5) = m
  <2>1. F5 \cup {"unknown"} = DOMAIN new
    BY <1>1
  <2> HIDE DEF new, F5
  <2> QED BY <1>1, <1>2, <2>1, UptoEnds
<1> HIDE DEF c, new, F1, s1, F2, s2, F3, s3, F4, s4, F5, s5
<1>10. Reaches("message", c, m, <<>>, m)
  BY ReachesNowhere
<1>11. Reaches("message", c, new, s1 \o s2 \o s3 \o s4 \o s5 \o <<>>, m)
  BY <1>4, <1>5, <1>6, <1>7, <1>8, <1>9, <1>10, ReachesOn
<1>12. WriteHandshakeMessage(m, order) = s1 \o s2 \o s3 \o s4 \o s5 \o <<>>
  BY Zenon, <1>2 DEF WriteHandshakeMessage, s1, s2, s3, s4, s5
<1> QED BY <1>11, <1>12 DEF c, new

(* What a message of class k can be. *)
Sound(k, m) ==
  CASE k = "HandshakeInitMessage" -> IsHandshakeInitMessage(m)
    [] k = "HandshakeMessage"     -> IsHandshakeMessage(m)
    [] k = "ControlMessage"       -> IsControlMessage(m)
    [] k = "SensorMessage"        -> IsSensorMessage(m)
    [] k = "ResetMessage"         -> IsResetMessage(m)
    [] k = "ErrorMessage"         -> IsErrorMessage(m)
    [] k = "SensorRequestMessage" -> IsSensorRequestMessage(m)

(* It is read as it was written. *)
LEMMA MessageReached ==
  ASSUME NEW k \in Kinds, NEW m, Sound(k, m), NEW order
  PROVE  Reaches("message", k, New(k), Write(k, m, order), m)
<1> USE DEF Sound, Write, New
<1>1. CASE k = "HandshakeInitMessage"
  BY <1>1, HandshakeInitMessageReached
<1>2. CASE k = "HandshakeMessage"
  BY <1>2, HandshakeMessageReached
<1>3. CASE k = "ControlMessage"
  BY <1>3, ControlMessageReached
<1>4. CASE k = "SensorMessage"
  BY <1>4, SensorMessageReached
<1>5. CASE k = "ResetMessage"
  BY <1>5, ResetMessageReached
<1>6. CASE k = "ErrorMessage"
  BY <1>6, ErrorMessageReached
<1>7. CASE k = "SensorRequestMessage"
  BY <1>7, SensorRequestMessageReached
<1> QED BY <1>1, <1>2, <1>3, <1>4, <1>5, <1>6, <1>7 DEF Kinds, TypeNumber
------------------------------------------------------------------------------
(* Edited messages are what messages can be. *)

(* An assignment to a field. *)
Changed(m, m2, f, x) ==
  /\ IsRecord(m2) /\ DOMAIN m2 = DOMAIN m /\ m2[f] = x
  /\ \A g \in DOMAIN m : g # f => m2[g] = m[g]

(* EXCEPT is one. *)
LEMMA FieldChanged ==
  ASSUME NEW m, NEW f \in DOMAIN m, NEW x, NEW m2, m2 = [m EXCEPT ![f] = x]
  PROVE  Changed(m, m2, f, x)
BY DEF Changed, IsRecord

(* It leaves the fields of the class, and no unknown ones. *)
LEMMA ChangedIsA ==
  ASSUME NEW m, NEW m2, NEW f \in DOMAIN m, NEW x, NEW new, Changed(m, m2, f, x),
         IsA(m, new), "unknown" \in DOMAIN new, f # "unknown"
  PROVE  IsA(m2, new)
BY DEF Changed, IsA

(* Sequences grow. *)
Grown(xs, x, ys) ==
  Items(ys) /\ \A i \in DOMAIN ys : ys[i] = x \/ (i \in DOMAIN xs /\ ys[i] = xs[i])

(* Append() makes them grow. *)
LEMMA ItemsGrow ==
  ASSUME NEW xs, Items(xs), NEW x
  PROVE  Grown(xs, x, Append(xs, x))
<1> DEFINE n == Len(xs)
           ys == Append(xs, x)
<1>1. n \in Nat /\ DOMAIN xs = 1..n
  BY ItemsDomain
<1> HIDE DEF n
<1>2. Items(ys) /\ DOMAIN ys = 1..(n + 1) /\ (\A i \in 1..n : ys[i] = xs[i]) /\ ys[n + 1] = x
  BY <1>1, Appended
<1>3. \A i \in 1..(n + 1) : i \in 1..n \/ i = n + 1
  BY <1>1
<1> HIDE DEF ys
<1>4. Grown(xs, x, ys)
  BY <1>1, <1>2, <1>3 DEF Grown
<1> QED BY <1>4 DEF ys

(* Maps grow. *)
LEMMA MapGrows ==
  ASSUME NEW map, IsMap(map), NEW key, NEW x, NEW map2, map2 = With(map, key, x)
  PROVE  /\ IsMap(map2)
         /\ \A k \in DOMAIN map2 : map2[k] = x \/ (k \in DOMAIN map /\ map2[k] = map[k])
<1>1. DOMAIN map2 = DOMAIN map \cup {key}
  BY DEF With
<1>2. map2 = [k \in DOMAIN map2 |-> map2[k]]
  BY DEF With
<1>3. IsFiniteSet(DOMAIN map2)
  BY <1>1, FS_AddElement DEF IsMap
<1>4. \A k \in DOMAIN map2 : map2[k] = x \/ (k \in DOMAIN map /\ map2[k] = map[k])
  BY DEF With
<1> QED BY <1>2, <1>3, <1>4 DEF IsMap

(* What one call of an accessor does: *)
LEMMA CallSets ==
  ASSUME NEW m, NEW f \in DOMAIN m, NEW values, NEW m2 \in SetTo(m, f, values)
  PROVE  \E x \in values : Changed(m, m2, f, x)
<1>1. PICK x \in values : m2 = [m EXCEPT ![f] = x]
  BY DEF SetTo
<1> QED BY <1>1, FieldChanged

(* a repeated field grows by one value; *)
LEMMA CallAdds ==
  ASSUME NEW m, NEW f \in DOMAIN m, NEW values, NEW m2 \in Add(m, f, values), Items(m[f])
  PROVE  /\ \E x : Changed(m, m2, f, x)
         /\ Items(m2[f])
         /\ \A i \in DOMAIN m2[f] :
              m2[f][i] \in values \/ (i \in DOMAIN m[f] /\ m2[f][i] = m[f][i])
<1>1. PICK x \in values : m2 = [m EXCEPT ![f] = Append(m[f], x)]
  BY DEF Add
<1> DEFINE xs == m[f]
           ys == Append(xs, x)
<1>2. Changed(m, m2, f, ys)
  BY <1>1, FieldChanged
<1>3. m2[f] = ys
  BY <1>2 DEF Changed
<1>4. Items(xs)
  OBVIOUS
<1>5. Grown(xs, x, ys)
  BY <1>4, ItemsGrow
<1> QED BY <1>2, <1>3, <1>5 DEF Grown

(* the entries of a map of numbers, *)
LEMMA CallSetsEntry ==
  ASSUME NEW m, NEW f \in DOMAIN m, NEW values, NEW m2 \in SetEntry(m, f, values), IsMap(m[f])
  PROVE  (\E x : Changed(m, m2, f, x)) /\ IsMap(m2[f])
<1>1. PICK k, x : m2 = [m EXCEPT ![f] = With(m[f], k, x)]
  BY DEF SetEntry
<1> DEFINE map == m[f]
           map2 == With(map, k, x)
<1>2. Changed(m, m2, f, map2)
  BY <1>1, FieldChanged
<1>3. m2[f] = map2
  BY <1>2 DEF Changed
<1>4. IsMap(map)
  OBVIOUS
<1> HIDE DEF map
<1>5. IsMap(map2)
  BY <1>4, MapGrows
<1> HIDE DEF map2
<1> QED BY <1>2, <1>3, <1>5

(* and of one of messages, which are edited as E says. *)
LEMMA EntrySet ==
  ASSUME NEW m, NEW f \in DOMAIN m, NEW k, NEW y, NEW m2, IsMap(m[f]),
         Changed(m, m2, f, With(m[f], k, y))
  PROVE  /\ IsMap(m2[f])
         /\ \A j \in DOMAIN m2[f] : m2[f][j] = y \/ (j \in DOMAIN m[f] /\ m2[f][j] = m[f][j])
<1> DEFINE map == m[f]
           map2 == With(map, k, y)
<1>3. m2[f] = map2
  BY DEF Changed
<1>4. IsMap(map)
  OBVIOUS
<1> HIDE DEF map
<1>5. IsMap(map2) /\ \A j \in DOMAIN map2 : map2[j] = y \/ (j \in DOMAIN map /\ map2[j] = map[j])
  BY <1>4, MapGrows
<1> HIDE DEF map2
<1> QED BY <1>3, <1>5 DEF map
------------------------------------------------------------------------------
(* Vectors. *)
LEMMA Vec3Edited ==
  ASSUME NEW m, IsVec3(m), NEW m2 \in EditsSensorMessage_Vec3(m)
  PROVE  IsVec3(m2)
<1>1. /\ "unknown" \in DOMAIN NewSensorMessage_Vec3 /\ "arr" \in DOMAIN m
      /\ IsA(m, NewSensorMessage_Vec3) /\ Items(m["arr"])
  BY DEF IsVec3, IsA, NewSensorMessage_Vec3
<1>2. (\E x : Changed(m, m2, "arr", x)) /\ Items(m2["arr"])
  BY <1>1, CallAdds DEF EditsSensorMessage_Vec3
<1>3. IsA(m2, NewSensorMessage_Vec3)
  BY <1>1, <1>2, ChangedIsA
<1> QED BY <1>2, <1>3 DEF IsVec3

(* A new one is one. *)
LEMMA NewVec3 == IsVec3(NewSensorMessage_Vec3)
BY DEF IsVec3, IsA, IsRecord, NewSensorMessage_Vec3, Items

(* Sensors. *)
LEMMA SensorMade ==
  ASSUME NEW m \in EditsSensorMessage_Sensor(NewSensorMessage_Sensor)
  PROVE  IsSensor(m)
<1> DEFINE new == NewSensorMessage_Sensor
<1>1. \A case \in Vec3Cases : MutableVec3(new, case) = NewSensorMessage_Vec3
  BY DEF MutableVec3, Vec3Cases, NewSensorMessage_Sensor
<1> HIDE DEF new
<1>2. \/ \E case \in DoubleCases \cup {BoolCase} : \E x : m = SetScalar(new, case, x)
      \/ \E case \in Vec3Cases : \E v \in EditsSensorMessage_Vec3(MutableVec3(new, case)) :
           m = SetVec3(new, case, v)
  <2> DEFINE A == {SetScalar(new, case, x) :
                     case \in SensorCases \cap (DoubleCases \cup {BoolCase}), x \in Numbers}
             C == UNION {{SetVec3(new, case,
                                  v) : v \in EditsSensorMessage_Vec3(MutableVec3(new, case))}
                          : case \in SensorCases \cap Vec3Cases}
  <2>1. m \in A \/ m \in C
    BY DEF EditsSensorMessage_Sensor, new
  <2>2. CASE m \in A
    <3>1. PICK case \in DoubleCases \cup {BoolCase}, x \in Numbers : m = SetScalar(new, case, x)
      BY <2>2
    <3> QED BY <3>1
  <2>3. CASE m \in C
    <3>1. PICK case \in Vec3Cases :
            m \in {SetVec3(new, case, v) : v \in EditsSensorMessage_Vec3(MutableVec3(new, case))}
      BY <2>3
    <3>2. PICK v \in EditsSensorMessage_Vec3(MutableVec3(new, case)) : m = SetVec3(new, case, v)
      BY <3>1
    <3> QED BY <3>2
  <2> HIDE DEF A, C
  <2> QED BY <2>1, <2>2, <2>3
<1>3. \A v \in EditsSensorMessage_Vec3(NewSensorMessage_Vec3) : IsVec3(v)
  BY NewVec3, Vec3Edited
<1>4. \/ \E case \in DoubleCases \cup {BoolCase} : \E x : m = SetScalar(new, case, x)
      \/ \E case \in Vec3Cases : \E v : IsVec3(v) /\ m = SetVec3(new, case, v)
  BY <1>1, <1>2, <1>3
<1> QED BY <1>4 DEF IsSensor, new

(* Sensors of a kind. *)
LEMMA SensorsEdited ==
  ASSUME NEW m, IsSensors(m), NEW m2 \in EditsSensorMessage_Sensors(m)
  PROVE  IsSensors(m2)
<1>1. /\ "unknown" \in DOMAIN NewSensorMessage_Sensors /\ "sensor" \in DOMAIN m
      /\ IsA(m, NewSensorMessage_Sensors) /\ Items(m["sensor"])
      /\ \A i \in DOMAIN m["sensor"] : IsSensor(m["sensor"][i])
  BY DEF IsSensors, IsA, NewSensorMessage_Sensors
<1> DEFINE E == EditsSensorMessage_Sensor(NewSensorMessage_Sensor)
<1> HIDE DEF E
<1>2. m2 \in Add(m, "sensor", E)
  BY DEF EditsSensorMessage_Sensors, E
<1>3. /\ \E x : Changed(m, m2, "sensor", x)
      /\ Items(m2["sensor"])
      /\ \A i \in DOMAIN m2["sensor"] :
           m2["sensor"][i] \in E \/ (i \in DOMAIN m["sensor"] /\ m2["sensor"][i] = m["sensor"][i])
  BY <1>1, <1>2, CallAdds
<1>4. \A x \in E : IsSensor(x)
  BY SensorMade DEF E
<1>5. IsA(m2, NewSensorMessage_Sensors)
  BY <1>1, <1>3, ChangedIsA
<1>6. \A i \in DOMAIN m2["sensor"] : IsSensor(m2["sensor"][i])
  BY <1>1, <1>3, <1>4
<1> QED BY <1>3, <1>5, <1>6 DEF IsSensors

(* Types of sensors. *)
LEMMA HandshakeSensorsEdited ==
  ASSUME NEW m, IsHandshakeSensors(m), NEW m2 \in EditsHandshakeMessage_Sensors(m)
  PROVE  IsHandshakeSensors(m2)
<1>1. /\ "unknown" \in DOMAIN NewHandshakeMessage_Sensors /\ "types" \in DOMAIN m
      /\ IsA(m, NewHandshakeMessage_Sensors) /\ Items(m["types"])
  BY DEF IsHandshakeSensors, IsA, NewHandshakeMessage_Sensors
<1>2. (\E x : Changed(m, m2, "types", x)) /\ Items(m2["types"])
  BY <1>1, CallAdds DEF EditsHandshakeMessage_Sensors
<1>3. IsA(m2, NewHandshakeMessage_Sensors)
  BY <1>1, <1>2, ChangedIsA
<1> QED BY <1>2, <1>3 DEF IsHandshakeSensors

(* Objects of a ControlMessage. *)
LEMMA ControlObjectEdited ==
  ASSUME NEW m, IsControlObject(m), NEW m2 \in EditsControlMessage_Object(m)
  PROVE  IsControlObject(m2)
<1> DEFINE new == NewControlMessage_Object
           L == {"angles", "angularVelocities", "torques", "values"}
<1>1. /\ "unknown" \in DOMAIN new /\ L \cup {"controlEvents"} \subseteq DOMAIN m
      /\ IsA(m, new) /\ IsMap(m["controlEvents"]) /\ \A f \in L : Items(m[f])
  BY DEF IsControlObject, IsA, NewControlMessage_Object
<1>2. "controlEvents" \notin L /\ "unknown" \notin L /\ "controlEvents" # "unknown"
  OBVIOUS
<1> SUFFICES IsA(m2, new) /\ IsMap(m2["controlEvents"]) /\ \A f \in L : Items(m2[f])
  BY DEF IsControlObject
<1>3. CASE m2 \in SetEntry(m, "controlEvents", Numbers)
  <2>1. (\E x : Changed(m, m2, "controlEvents", x)) /\ IsMap(m2["controlEvents"])
    BY <1>1, <1>3, CallSetsEntry
  <2> HIDE DEF L, new
  <2>2. IsA(m2, new)
    BY <1>1, <1>2, <2>1, ChangedIsA
  <2>3. \A f \in L : m2[f] = m[f]
    BY <1>1, <1>2, <2>1 DEF Changed
  <2> QED BY <1>1, <2>1, <2>2, <2>3
<1>4. ASSUME NEW g \in L, m2 \in Add(m, g, Numbers)
      PROVE  IsA(m2, new) /\ IsMap(m2["controlEvents"]) /\ \A f \in L : Items(m2[f])
  <2> HIDE DEF L, new
  <2>1. (\E x : Changed(m, m2, g, x)) /\ Items(m2[g])
    BY <1>1, <1>4, CallAdds
  <2>2. IsA(m2, new)
    BY <1>1, <1>2, <2>1, ChangedIsA
  <2>3. \A f \in L \cup {"controlEvents"} : f # g => m2[f] = m[f]
    BY <1>1, <1>2, <2>1 DEF Changed
  <2>4. \A f \in L : Items(m2[f])
    BY <1>1, <2>1, <2>3
  <2> QED BY <1>1, <1>2, <2>2, <2>3, <2>4
<1>5. m2 \in SetEntry(m, "controlEvents", Numbers) \/ \E g \in L : m2 \in Add(m, g, Numbers)
  BY DEF EditsControlMessage_Object
<1> QED BY <1>3, <1>4, <1>5
------------------------------------------------------------------------------
(* What a call on an entry of a map does: *)
LEMMA CallEdits ==
  ASSUME NEW m, NEW f \in DOMAIN m, IsMap(m[f]), NEW S, NEW m2,
         m2 \in UNION {{[m EXCEPT ![f] = With(@, key, y)] : y \in S[key]} : key \in Text}
  PROVE  /\ \E x : Changed(m, m2, f, x)
         /\ IsMap(m2[f])
         /\ \E key \in Text : \E y \in S[key] :
              \A j \in DOMAIN m2[f] : m2[f][j] = y \/ (j \in DOMAIN m[f] /\ m2[f][j] = m[f][j])
<1>1. PICK key \in Text :
        m2 \in {[m EXCEPT ![f] = With(@, key, y)] : y \in S[key]}
  OBVIOUS
<1>2. PICK y \in S[key] : m2 = [m EXCEPT ![f] = With(m[f], key, y)]
  BY <1>1
<1>3. Changed(m, m2, f, With(m[f], key, y))
  BY <1>2, FieldChanged
<1>4. /\ IsMap(m2[f])
      /\ \A j \in DOMAIN m2[f] : m2[f][j] = y \/ (j \in DOMAIN m[f] /\ m2[f][j] = m[f][j])
  BY <1>3, EntrySet
<1> QED BY <1>3, <1>4

(* New messages within messages. *)
LEMMA NewHandshakeSensors == IsHandshakeSensors(NewHandshakeMessage_Sensors)
BY DEF IsHandshakeSensors, IsA, IsRecord, NewHandshakeMessage_Sensors, Items

(* Nothing is in new sensors of a kind, *)
LEMMA NewSensors == IsSensors(NewSensorMessage_Sensors)
<1>1. Items(<<>>) /\ DOMAIN <<>> = {}
  BY DEF Items
<1> QED BY <1>1 DEF IsSensors, IsA, IsRecord, NewSensorMessage_Sensors

(* in a new map, *)
LEMMA NoEntriesIsMap == IsMap(NoEntries) /\ DOMAIN NoEntries = {}
<1>1. DOMAIN NoEntries = {} /\ NoEntries = [k \in DOMAIN NoEntries |-> NoEntries[k]]
  BY DEF NoEntries
<1> QED BY <1>1, FS_EmptySet DEF IsMap

(* in a new object of a ControlMessage, *)
LEMMA NewControlObject == IsControlObject(NewControlMessage_Object)
BY NoEntriesIsMap DEF IsControlObject, IsA, IsRecord, NewControlMessage_Object, Items

(* of a HandshakeMessage *)
LEMMA NewHandshakeObject == IsHandshakeObject(NewHandshakeMessage_Object)
BY NoEntriesIsMap DEF IsHandshakeObject, IsA, IsRecord, NewHandshakeMessage_Object, Items

(* and of a SensorMessage. *)
LEMMA NewSensorObject == IsSensorObject(NewSensorMessage_Object)
<1>1. Items(<<>>) /\ DOMAIN <<>> = {}
  BY DEF Items
<1> QED BY <1>1, NoEntriesIsMap DEF IsSensorObject, IsA, IsRecord, NewSensorMessage_Object

(* Edited entries: of types of sensors, *)
LEMMA HandshakeSensorsEntered ==
  ASSUME NEW m, "sensors" \in DOMAIN m, IsMap(m["sensors"]),
         \A k \in DOMAIN m["sensors"] : IsHandshakeSensors(m["sensors"][k]),
         NEW m2 \in EditEntry(m, "sensors", NewHandshakeMessage_Sensors,
                              EditsHandshakeMessage_Sensors)
  PROVE  /\ \E x : Changed(m, m2, "sensors", x)
         /\ IsMap(m2["sensors"])
         /\ \A k \in DOMAIN m2["sensors"] : IsHandshakeSensors(m2["sensors"][k])
<1> DEFINE X(key) == IF key \in DOMAIN m["sensors"] THEN m["sensors"][key]
                     ELSE NewHandshakeMessage_Sensors
           S == [key \in Text |-> {X(key)} \cup EditsHandshakeMessage_Sensors(X(key))]
<1>1. m2 \in UNION {{[m EXCEPT !["sensors"] = With(@, key, y)] : y \in S[key]} : key \in Text}
  BY DEF EditEntry
<1>2. ASSUME NEW key \in Text, NEW y \in S[key]
      PROVE  IsHandshakeSensors(y)
  <2>1. IsHandshakeSensors(X(key))
    BY NewHandshakeSensors
  <2>2. y = X(key) \/ y \in EditsHandshakeMessage_Sensors(X(key))
    OBVIOUS
  <2> HIDE DEF X, S
  <2> QED BY <2>1, <2>2, HandshakeSensorsEdited
<1> HIDE DEF S
<1>3. /\ \E x : Changed(m, m2, "sensors", x)
      /\ IsMap(m2["sensors"])
      /\ \E key \in Text : \E y \in S[key] :
           \A j \in DOMAIN m2["sensors"] :
             \/ m2["sensors"][j] = y
             \/ (j \in DOMAIN m["sensors"] /\ m2["sensors"][j] = m["sensors"][j])
  BY <1>1, CallEdits
<1>4. \A k \in DOMAIN m2["sensors"] : IsHandshakeSensors(m2["sensors"][k])
  BY <1>2, <1>3
<1> QED BY <1>3, <1>4

(* of sensors, *)
LEMMA SensorsEntered ==
  ASSUME NEW m, "sensors" \in DOMAIN m, IsMap(m["sensors"]),
         \A k \in DOMAIN m["sensors"] : IsSensors(m["sensors"][k]),
         NEW m2 \in EditEntry(m, "sensors", NewSensorMessage_Sensors,
                              EditsSensorMessage_Sensors)
  PROVE  /\ \E x : Changed(m, m2, "sensors", x)
         /\ IsMap(m2["sensors"])
         /\ \A k \in DOMAIN m2["sensors"] : IsSensors(m2["sensors"][k])
<1> DEFINE X(key) == IF key \in DOMAIN m["sensors"] THEN m["sensors"][key]
                     ELSE NewSensorMessage_Sensors
           S == [key \in Text |-> {X(key)} \cup EditsSensorMessage_Sensors(X(key))]
<1>1. m2 \in UNION {{[m EXCEPT !["sensors"] = With(@, key, y)] : y \in S[key]} : key \in Text}
  BY DEF EditEntry
<1>2. ASSUME NEW key \in Text, NEW y \in S[key]
      PROVE  IsSensors(y)
  <2>1. IsSensors(X(key))
    BY NewSensors
  <2>2. y = X(key) \/ y \in EditsSensorMessage_Sensors(X(key))
    OBVIOUS
  <2> HIDE DEF X, S
  <2> QED BY <2>1, <2>2, SensorsEdited
<1> HIDE DEF S
<1>3. /\ \E x : Changed(m, m2, "sensors", x)
      /\ IsMap(m2["sensors"])
      /\ \E key \in Text : \E y \in S[key] :
           \A j \in DOMAIN m2["sensors"] :
             \/ m2["sensors"][j] = y
             \/ (j \in DOMAIN m["sensors"] /\ m2["sensors"][j] = m["sensors"][j])
  BY <1>1, CallEdits
<1>4. \A k \in DOMAIN m2["sensors"] : IsSensors(m2["sensors"][k])
  BY <1>2, <1>3
<1> QED BY <1>3, <1>4

(* Objects of a HandshakeMessage. *)
LEMMA HandshakeObjectEdited ==
  ASSUME NEW m, IsHandshakeObject(m), NEW m2 \in EditsHandshakeMessage_Object(m)
  PROVE  IsHandshakeObject(m2)
<1> DEFINE new == NewHandshakeMessage_Object
           L == {"controlsInOrder", "jointSensors", "objectSensors", "jointSensorsInOrder",
                 "controlTypesInOrder"}
           M == {"controlEvents", "sensors"}
<1>1. /\ "unknown" \in DOMAIN new /\ L \cup M \subseteq DOMAIN m
      /\ IsA(m, new) /\ \A f \in M : IsMap(m[f])
      /\ \A k \in DOMAIN m["sensors"] : IsHandshakeSensors(m["sensors"][k])
      /\ \A f \in L : Items(m[f])
  BY DEF IsHandshakeObject, IsA, NewHandshakeMessage_Object
<1>2. /\ L \cap M = {} /\ "unknown" \notin L \cup M
      /\ "controlEvents" \in M /\ "sensors" \in M /\ "controlEvents" # "sensors"
  OBVIOUS
<1> DEFINE Good == /\ IsA(m2, new) /\ \A f \in M : IsMap(m2[f])
                   /\ \A k \in DOMAIN m2["sensors"] : IsHandshakeSensors(m2["sensors"][k])
                   /\ \A f \in L : Items(m2[f])
<1> SUFFICES Good
  BY DEF IsHandshakeObject
<1>3. M = {"controlEvents", "sensors"}
  OBVIOUS
<1>4. CASE m2 \in SetEntry(m, "controlEvents", Numbers)
  <2> HIDE DEF L, M, new
  <2>1. (\E x : Changed(m, m2, "controlEvents", x)) /\ IsMap(m2["controlEvents"])
    BY <1>1, <1>2, <1>4, CallSetsEntry
  <2>2. IsA(m2, new)
    BY <1>1, <1>2, <2>1, ChangedIsA
  <2>3. \A f \in L \cup M : f # "controlEvents" => m2[f] = m[f]
    BY <1>1, <1>2, <2>1 DEF Changed
  <2> QED BY <1>1, <1>2, <1>3, <2>1, <2>2, <2>3
<1>5. CASE m2 \in EditEntry(m, "sensors", NewHandshakeMessage_Sensors,
                            EditsHandshakeMessage_Sensors)
  <2> HIDE DEF L, M, new
  <2>1. /\ \E x : Changed(m, m2, "sensors", x)
        /\ IsMap(m2["sensors"])
        /\ \A k \in DOMAIN m2["sensors"] : IsHandshakeSensors(m2["sensors"][k])
    BY <1>1, <1>2, <1>5, HandshakeSensorsEntered
  <2>2. IsA(m2, new)
    BY <1>1, <1>2, <2>1, ChangedIsA
  <2>3. \A f \in L \cup M : f # "sensors" => m2[f] = m[f]
    BY <1>1, <1>2, <2>1 DEF Changed
  <2> QED BY <1>1, <1>2, <1>3, <2>1, <2>2, <2>3
<1>6. ASSUME NEW g \in L, NEW values, m2 \in Add(m, g, values)
      PROVE  Good
  <2> HIDE DEF L, M, new
  <2>1. (\E x : Changed(m, m2, g, x)) /\ Items(m2[g])
    BY <1>1, <1>6, CallAdds
  <2>2. IsA(m2, new)
    BY <1>1, <1>2, <2>1, ChangedIsA
  <2>3. \A f \in L \cup M : f # g => m2[f] = m[f]
    BY <1>1, <1>2, <2>1 DEF Changed
  <2>4. \A f \in L : Items(m2[f])
    BY <1>1, <2>1, <2>3
  <2> QED BY <1>1, <1>2, <2>2, <2>3, <2>4
<1>7. \/ \E g \in L : m2 \in Add(m, g, Numbers) \/ m2 \in Add(m, g, Text)
      \/ m2 \in SetEntry(m, "controlEvents", Numbers)
      \/ m2 \in EditEntry(m, "sensors", NewHandshakeMessage_Sensors,
                          EditsHandshakeMessage_Sensors)
  BY DEF EditsHandshakeMessage_Object
<1> QED BY <1>4, <1>5, <1>6, <1>7

(* Objects of a SensorMessage. *)
LEMMA SensorObjectEdited ==
  ASSUME NEW m, IsSensorObject(m), NEW m2 \in EditsSensorMessage_Object(m)
  PROVE  IsSensorObject(m2)
<1> DEFINE new == NewSensorMessage_Object
           L == {"angleSensors", "angularVelocitySensors", "torqueSensors", "objectSensors",
                 "forceSensors"}
           Good(x) == /\ IsA(x, new) /\ IsMap(x["sensors"])
                      /\ \A k \in DOMAIN x["sensors"] : IsSensors(x["sensors"][k])
                      /\ \A f \in L : Items(x[f])
                      /\ \A i \in DOMAIN x["objectSensors"] : IsSensor(x["objectSensors"][i])
                      /\ \A i \in DOMAIN x["forceSensors"] : IsVec3(x["forceSensors"][i])
<1>1. /\ "unknown" \in DOMAIN new /\ L \cup {"sensors"} \subseteq DOMAIN m
      /\ Good(m)
  BY DEF IsSensorObject, IsA, NewSensorMessage_Object
<1>2. /\ "sensors" \notin L /\ "unknown" \notin L \cup {"sensors"}
      /\ "objectSensors" \in L /\ "forceSensors" \in L
  OBVIOUS
<1> SUFFICES Good(m2)
  BY DEF IsSensorObject
<1>3. CASE m2 \in EditEntry(m, "sensors", NewSensorMessage_Sensors, EditsSensorMessage_Sensors)
  <2> HIDE DEF L, new
  <2>1. /\ \E x : Changed(m, m2, "sensors", x)
        /\ IsMap(m2["sensors"])
        /\ \A k \in DOMAIN m2["sensors"] : IsSensors(m2["sensors"][k])
    BY <1>1, <1>3, SensorsEntered
  <2>2. IsA(m2, new)
    BY <1>1, <1>2, <2>1, ChangedIsA
  <2>3. \A f \in L : m2[f] = m[f]
    BY <1>1, <1>2, <2>1 DEF Changed
  <2> QED BY <1>1, <1>2, <2>1, <2>2, <2>3
<1>4. ASSUME NEW g \in L, NEW values, m2 \in Add(m, g, values),
             (g = "objectSensors" => \A x \in values : IsSensor(x)),
             (g = "forceSensors" => \A x \in values : IsVec3(x))
      PROVE  Good(m2)
  <2> HIDE DEF L, new
  <2>1. /\ \E x : Changed(m, m2, g, x)
        /\ Items(m2[g])
        /\ \A i \in DOMAIN m2[g] : m2[g][i] \in values \/ (i \in DOMAIN m[g] /\ m2[g][i] = m[g][i])
    BY <1>1, <1>4, CallAdds
  <2>2. IsA(m2, new)
    BY <1>1, <1>2, <2>1, ChangedIsA
  <2>3. \A f \in L \cup {"sensors"} : f # g => m2[f] = m[f]
    BY <1>1, <1>2, <2>1 DEF Changed
  <2>4. \A f \in L : Items(m2[f])
    BY <1>1, <2>1, <2>3
  <2>5. \A i \in DOMAIN m2["objectSensors"] : IsSensor(m2["objectSensors"][i])
    <3>1. CASE g = "objectSensors"
      BY <1>1, <1>4, <2>1, <3>1
    <3>2. CASE g # "objectSensors"
      BY <1>1, <1>2, <2>3, <3>2
    <3> QED BY <3>1, <3>2
  <2>6. \A i \in DOMAIN m2["forceSensors"] : IsVec3(m2["forceSensors"][i])
    <3>1. CASE g = "forceSensors"
      BY <1>1, <1>4, <2>1, <3>1
    <3>2. CASE g # "forceSensors"
      BY <1>1, <1>2, <2>3, <3>2
    <3> QED BY <3>1, <3>2
  <2> QED BY <1>1, <1>2, <2>2, <2>3, <2>4, <2>5, <2>6
<1> DEFINE A == EditsSensorMessage_Sensor(NewSensorMessage_Sensor)
           B == {NewSensorMessage_Vec3} \cup EditsSensorMessage_Vec3(NewSensorMessage_Vec3)
<1>5. (\A x \in A : IsSensor(x)) /\ \A x \in B : IsVec3(x)
  BY SensorMade, NewVec3, Vec3Edited
<1>6. \/ \E g \in {"angleSensors", "angularVelocitySensors", "torqueSensors"} :
            m2 \in Add(m, g, Numbers)
      \/ m2 \in Add(m, "objectSensors", A)
      \/ m2 \in Add(m, "forceSensors", B)
      \/ m2 \in EditEntry(m, "sensors", NewSensorMessage_Sensors, EditsSensorMessage_Sensors)
  BY DEF EditsSensorMessage_Object
<1>7. /\ \A g \in {"angleSensors", "angularVelocitySensors", "torqueSensors"} :
            g \in L /\ g # "objectSensors" /\ g # "forceSensors"
      /\ "objectSensors" # "forceSensors"
  OBVIOUS
<1> HIDE DEF A, B, L, new
<1>8. CASE \E g \in {"angleSensors", "angularVelocitySensors", "torqueSensors"} :
             m2 \in Add(m, g, Numbers)
  BY <1>4, <1>7, <1>8
<1>9. CASE m2 \in Add(m, "objectSensors", A)
  BY <1>2, <1>4, <1>5, <1>7, <1>9
<1>10. CASE m2 \in Add(m, "forceSensors", B)
  BY <1>2, <1>4, <1>5, <1>7, <1>10
<1> QED BY <1>3, <1>6, <1>8, <1>9, <1>10

(* Edited objects, of a ControlMessage, *)
LEMMA ControlObjectsEntered ==
  ASSUME NEW m, "objects" \in DOMAIN m, IsMap(m["objects"]),
         \A k \in DOMAIN m["objects"] : IsControlObject(m["objects"][k]),
         NEW m2 \in EditEntry(m, "objects", NewControlMessage_Object,
                              EditsControlMessage_Object)
  PROVE  /\ \E x : Changed(m, m2, "objects", x)
         /\ IsMap(m2["objects"])
         /\ \A k \in DOMAIN m2["objects"] : IsControlObject(m2["objects"][k])
<1> DEFINE X(key) == IF key \in DOMAIN m["objects"] THEN m["objects"][key]
                     ELSE NewControlMessage_Object
           S == [key \in Text |-> {X(key)} \cup EditsControlMessage_Object(X(key))]
<1>1. m2 \in UNION {{[m EXCEPT !["objects"] = With(@, key, y)] : y \in S[key]} : key \in Text}
  BY DEF EditEntry
<1>2. ASSUME NEW key \in Text, NEW y \in S[key]
      PROVE  IsControlObject(y)
  <2>1. IsControlObject(X(key))
    BY NewControlObject
  <2>2. y = X(key) \/ y \in EditsControlMessage_Object(X(key))
    OBVIOUS
  <2> HIDE DEF X, S
  <2> QED BY <2>1, <2>2, ControlObjectEdited
<1> HIDE DEF S
<1>3. /\ \E x : Changed(m, m2, "objects", x)
      /\ IsMap(m2["objects"])
      /\ \E key \in Text : \E y \in S[key] :
           \A j \in DOMAIN m2["objects"] :
             \/ m2["objects"][j] = y
             \/ (j \in DOMAIN m["objects"] /\ m2["objects"][j] = m["objects"][j])
  BY <1>1, CallEdits
<1>4. \A k \in DOMAIN m2["objects"] : IsControlObject(m2["objects"][k])
  BY <1>2, <1>3
<1> QED BY <1>3, <1>4

(* a HandshakeMessage *)
LEMMA HandshakeObjectsEntered ==
  ASSUME NEW m, "objects" \in DOMAIN m, IsMap(m["objects"]),
         \A k \in DOMAIN m["objects"] : IsHandshakeObject(m["objects"][k]),
         NEW m2 \in EditEntry(m, "objects", NewHandshakeMessage_Object,
                              EditsHandshakeMessage_Object)
  PROVE  /\ \E x : Changed(m, m2, "objects", x)
         /\ IsMap(m2["objects"])
         /\ \A k \in DOMAIN m2["objects"] : IsHandshakeObject(m2["objects"][k])
<1> DEFINE X(key) == IF key \in DOMAIN m["objects"] THEN m["objects"][key]
                     ELSE NewHandshakeMessage_Object
           S == [key \in Text |-> {X(key)} \cup EditsHandshakeMessage_Object(X(key))]
<1>1. m2 \in UNION {{[m EXCEPT !["objects"] = With(@, key, y)] : y \in S[key]} : key \in Text}
  BY DEF EditEntry
<1>2. ASSUME NEW key \in Text, NEW y \in S[key]
      PROVE  IsHandshakeObject(y)
  <2>1. IsHandshakeObject(X(key))
    BY NewHandshakeObject
  <2>2. y = X(key) \/ y \in EditsHandshakeMessage_Object(X(key))
    OBVIOUS
  <2> HIDE DEF X, S
  <2> QED BY <2>1, <2>2, HandshakeObjectEdited
<1> HIDE DEF S
<1>3. /\ \E x : Changed(m, m2, "objects", x)
      /\ IsMap(m2["objects"])
      /\ \E key \in Text : \E y \in S[key] :
           \A j \in DOMAIN m2["objects"] :
             \/ m2["objects"][j] = y
             \/ (j \in DOMAIN m["objects"] /\ m2["objects"][j] = m["objects"][j])
  BY <1>1, CallEdits
<1>4. \A k \in DOMAIN m2["objects"] : IsHandshakeObject(m2["objects"][k])
  BY <1>2, <1>3
<1> QED BY <1>3, <1>4

(* and a SensorMessage. *)
LEMMA SensorObjectsEntered ==
  ASSUME NEW m, "objects" \in DOMAIN m, IsMap(m["objects"]),
         \A k \in DOMAIN m["objects"] : IsSensorObject(m["objects"][k]),
         NEW m2 \in EditEntry(m, "objects", NewSensorMessage_Object,
                              EditsSensorMessage_Object)
  PROVE  /\ \E x : Changed(m, m2, "objects", x)
         /\ IsMap(m2["objects"])
         /\ \A k \in DOMAIN m2["objects"] : IsSensorObject(m2["objects"][k])
<1> DEFINE X(key) == IF key \in DOMAIN m["objects"] THEN m["objects"][key]
                     ELSE NewSensorMessage_Object
           S == [key \in Text |-> {X(key)} \cup EditsSensorMessage_Object(X(key))]
<1>1. m2 \in UNION {{[m EXCEPT !["objects"] = With(@, key, y)] : y \in S[key]} : key \in Text}
  BY DEF EditEntry
<1>2. ASSUME NEW key \in Text, NEW y \in S[key]
      PROVE  IsSensorObject(y)
  <2>1. IsSensorObject(X(key))
    BY NewSensorObject
  <2>2. y = X(key) \/ y \in EditsSensorMessage_Object(X(key))
    OBVIOUS
  <2> HIDE DEF X, S
  <2> QED BY <2>1, <2>2, SensorObjectEdited
<1> HIDE DEF S
<1>3. /\ \E x : Changed(m, m2, "objects", x)
      /\ IsMap(m2["objects"])
      /\ \E key \in Text : \E y \in S[key] :
           \A j \in DOMAIN m2["objects"] :
             \/ m2["objects"][j] = y
             \/ (j \in DOMAIN m["objects"] /\ m2["objects"][j] = m["objects"][j])
  BY <1>1, CallEdits
<1>4. \A k \in DOMAIN m2["objects"] : IsSensorObject(m2["objects"][k])
  BY <1>2, <1>3
<1> QED BY <1>3, <1>4
------------------------------------------------------------------------------
(* What a call on a nested message does, which may be the first one. *)
LEMMA CallEditsMessage ==
  ASSUME NEW m, NEW f \in DOMAIN m, NEW S, NEW m2, m2 \in {[m EXCEPT ![f] = <<y>>] : y \in S}
  PROVE  \E y \in S : Changed(m, m2, f, <<y>>)
<1>1. PICK y \in S : m2 = [m EXCEPT ![f] = <<y>>]
  OBVIOUS
<1> QED BY <1>1, FieldChanged

(* Settings and variables of the simulation. *)
LEMMA SettingsEdited ==
  ASSUME NEW m, "simSettings" \in DOMAIN m,
         OneOf(m["simSettings"], NewHandshakeMessage_SimulationSettings),
         NEW m2 \in EditMessage(m, "simSettings", NewHandshakeMessage_SimulationSettings,
                                EditsHandshakeMessage_SimulationSettings)
  PROVE  /\ \E x : Changed(m, m2, "simSettings", x)
         /\ OneOf(m2["simSettings"], NewHandshakeMessage_SimulationSettings)
<1> DEFINE new == NewHandshakeMessage_SimulationSettings
           x == Mutable(m["simSettings"], new)
           S == {x} \cup EditsHandshakeMessage_SimulationSettings(x)
<1>1. m2 \in {[m EXCEPT !["simSettings"] = <<y>>] : y \in S}
  BY DEF EditMessage
<1>2. IsA(new, new) /\ "unknown" \in DOMAIN new /\ "timeStep" \in DOMAIN new
  BY DEF IsA, IsRecord, NewHandshakeMessage_SimulationSettings
<1>3. IsA(x, new)
  <2>1. CASE m["simSettings"] = <<>>
    BY <1>2, <2>1 DEF Mutable
  <2>2. CASE m["simSettings"] # <<>>
    <3>1. PICK z : m["simSettings"] = <<z>> /\ IsA(z, new)
      BY <2>2 DEF OneOf
    <3>2. m["simSettings"][1] = z
      BY <3>1
    <3>3. x = z
      BY <2>2, <3>2 DEF Mutable
    <3> QED BY <3>1, <3>3
  <2> QED BY <2>1, <2>2
<1>4. x \in S /\ \A y \in S : y = x \/ y \in EditsHandshakeMessage_SimulationSettings(x)
  OBVIOUS
<1> HIDE DEF x, S, new
<1>5. ASSUME NEW y \in S
      PROVE  IsA(y, new)
  <2>1. CASE y \in EditsHandshakeMessage_SimulationSettings(x)
    <3>1. "timeStep" \in DOMAIN x /\ "timeStep" # "unknown"
      BY <1>2, <1>3 DEF IsA
    <3>2. \E z \in Numbers : Changed(x, y, "timeStep", z)
      BY <2>1, <3>1, CallSets DEF EditsHandshakeMessage_SimulationSettings
    <3> QED BY <1>2, <1>3, <3>1, <3>2, ChangedIsA
  <2> QED BY <1>3, <1>4, <2>1
<1>6. PICK y \in S : Changed(m, m2, "simSettings", <<y>>)
  BY <1>1, CallEditsMessage
<1>7. m2["simSettings"] = <<y>>
  BY <1>6 DEF Changed
<1> QED BY <1>5, <1>6, <1>7 DEF OneOf, new

(* The variables of the simulation stay at most one such message. *)
LEMMA VariablesEdited ==
  ASSUME NEW m, "simVars" \in DOMAIN m,
         OneOf(m["simVars"], NewSensorMessage_SimulationVariables),
         NEW m2 \in EditMessage(m, "simVars", NewSensorMessage_SimulationVariables,
                                EditsSensorMessage_SimulationVariables)
  PROVE  /\ \E x : Changed(m, m2, "simVars", x)
         /\ OneOf(m2["simVars"], NewSensorMessage_SimulationVariables)
<1> DEFINE new == NewSensorMessage_SimulationVariables
           x == Mutable(m["simVars"], new)
           S == {x} \cup EditsSensorMessage_SimulationVariables(x)
<1>1. m2 \in {[m EXCEPT !["simVars"] = <<y>>] : y \in S}
  BY DEF EditMessage
<1>2. IsA(new, new) /\ "unknown" \in DOMAIN new /\ "simulatedTime" \in DOMAIN new
  BY DEF IsA, IsRecord, NewSensorMessage_SimulationVariables
<1>3. IsA(x, new)
  <2>1. CASE m["simVars"] = <<>>
    BY <1>2, <2>1 DEF Mutable
  <2>2. CASE m["simVars"] # <<>>
    <3>1. PICK z : m["simVars"] = <<z>> /\ IsA(z, new)
      BY <2>2 DEF OneOf
    <3>2. m["simVars"][1] = z
      BY <3>1
    <3>3. x = z
      BY <2>2, <3>2 DEF Mutable
    <3> QED BY <3>1, <3>3
  <2> QED BY <2>1, <2>2
<1>4. x \in S /\ \A y \in S : y = x \/ y \in EditsSensorMessage_SimulationVariables(x)
  OBVIOUS
<1> HIDE DEF x, S, new
<1>5. ASSUME NEW y \in S
      PROVE  IsA(y, new)
  <2>1. CASE y \in EditsSensorMessage_SimulationVariables(x)
    <3>1. "simulatedTime" \in DOMAIN x /\ "simulatedTime" # "unknown"
      BY <1>2, <1>3 DEF IsA
    <3>2. \E z \in Numbers : Changed(x, y, "simulatedTime", z)
      BY <2>1, <3>1, CallSets DEF EditsSensorMessage_SimulationVariables
    <3> QED BY <1>2, <1>3, <3>1, <3>2, ChangedIsA
  <2> QED BY <1>3, <1>4, <2>1
<1>6. PICK y \in S : Changed(m, m2, "simVars", <<y>>)
  BY <1>1, CallEditsMessage
<1>7. m2["simVars"] = <<y>>
  BY <1>6 DEF Changed
<1> QED BY <1>5, <1>6, <1>7 DEF OneOf, new

(* Messages. *)
LEMMA ControlMessageEdited ==
  ASSUME NEW m, IsControlMessage(m), NEW m2 \in EditsControlMessage(m)
  PROVE  IsControlMessage(m2)
<1>1. /\ "unknown" \in DOMAIN NewControlMessage /\ "objects" \in DOMAIN m
      /\ IsA(m, NewControlMessage) /\ IsMap(m["objects"])
      /\ \A k \in DOMAIN m["objects"] : IsControlObject(m["objects"][k])
  BY DEF IsControlMessage, IsA, NewControlMessage
<1>2. /\ \E x : Changed(m, m2, "objects", x)
      /\ IsMap(m2["objects"])
      /\ \A k \in DOMAIN m2["objects"] : IsControlObject(m2["objects"][k])
  BY <1>1, ControlObjectsEntered DEF EditsControlMessage
<1>3. IsA(m2, NewControlMessage)
  BY <1>1, <1>2, ChangedIsA
<1> QED BY <1>2, <1>3 DEF IsControlMessage

(* An edited SensorMessage is what a SensorMessage can be, *)
LEMMA SensorMessageEdited ==
  ASSUME NEW m, IsSensorMessage(m), NEW m2 \in EditsSensorMessage(m)
  PROVE  IsSensorMessage(m2)
<1>1. /\ "unknown" \in DOMAIN NewSensorMessage /\ "objects" \in DOMAIN m /\ "simVars" \in DOMAIN m
      /\ IsA(m, NewSensorMessage) /\ OneOf(m["simVars"], NewSensorMessage_SimulationVariables)
      /\ IsMap(m["objects"]) /\ \A k \in DOMAIN m["objects"] : IsSensorObject(m["objects"][k])
  BY DEF IsSensorMessage, IsA, NewSensorMessage
<1>2. CASE m2 \in EditEntry(m, "objects", NewSensorMessage_Object, EditsSensorMessage_Object)
  <2>1. /\ \E x : Changed(m, m2, "objects", x)
        /\ IsMap(m2["objects"])
        /\ \A k \in DOMAIN m2["objects"] : IsSensorObject(m2["objects"][k])
    BY <1>1, <1>2, SensorObjectsEntered
  <2>2. IsA(m2, NewSensorMessage)
    BY <1>1, <2>1, ChangedIsA
  <2>3. m2["simVars"] = m["simVars"]
    BY <1>1, <2>1 DEF Changed
  <2> QED BY <1>1, <2>1, <2>2, <2>3 DEF IsSensorMessage
<1>3. CASE m2 \in EditMessage(m, "simVars", NewSensorMessage_SimulationVariables,
                              EditsSensorMessage_SimulationVariables)
  <2>1. /\ \E x : Changed(m, m2, "simVars", x)
        /\ OneOf(m2["simVars"], NewSensorMessage_SimulationVariables)
    BY <1>1, <1>3, VariablesEdited
  <2>2. IsA(m2, NewSensorMessage)
    BY <1>1, <2>1, ChangedIsA
  <2>3. m2["objects"] = m["objects"]
    BY <1>1, <2>1 DEF Changed
  <2> QED BY <1>1, <2>1, <2>2, <2>3 DEF IsSensorMessage
<1> QED BY <1>2, <1>3 DEF EditsSensorMessage

(* an edited HandshakeMessage what that can be, *)
LEMMA HandshakeMessageEdited ==
  ASSUME NEW m, IsHandshakeMessage(m), NEW m2 \in EditsHandshakeMessage(m)
  PROVE  IsHandshakeMessage(m2)
<1>1. /\ "unknown" \in DOMAIN NewHandshakeMessage
      /\ {"objects", "simSettings", "controlType"} \subseteq DOMAIN m
      /\ IsA(m, NewHandshakeMessage)
      /\ OneOf(m["simSettings"], NewHandshakeMessage_SimulationSettings)
      /\ IsMap(m["objects"]) /\ \A k \in DOMAIN m["objects"] : IsHandshakeObject(m["objects"][k])
  BY DEF IsHandshakeMessage, IsA, NewHandshakeMessage
<1>2. CASE m2 \in EditEntry(m, "objects", NewHandshakeMessage_Object,
                            EditsHandshakeMessage_Object)
  <2>1. /\ \E x : Changed(m, m2, "objects", x)
        /\ IsMap(m2["objects"])
        /\ \A k \in DOMAIN m2["objects"] : IsHandshakeObject(m2["objects"][k])
    BY <1>1, <1>2, HandshakeObjectsEntered
  <2>2. IsA(m2, NewHandshakeMessage)
    BY <1>1, <2>1, ChangedIsA
  <2>3. m2["simSettings"] = m["simSettings"]
    BY <1>1, <2>1 DEF Changed
  <2> QED BY <1>1, <2>1, <2>2, <2>3 DEF IsHandshakeMessage
<1>3. CASE m2 \in EditMessage(m, "simSettings", NewHandshakeMessage_SimulationSettings,
                              EditsHandshakeMessage_SimulationSettings)
  <2>1. /\ \E x : Changed(m, m2, "simSettings", x)
        /\ OneOf(m2["simSettings"], NewHandshakeMessage_SimulationSettings)
    BY <1>1, <1>3, SettingsEdited
  <2>2. IsA(m2, NewHandshakeMessage)
    BY <1>1, <2>1, ChangedIsA
  <2>3. m2["objects"] = m["objects"]
    BY <1>1, <2>1 DEF Changed
  <2> QED BY <1>1, <2>1, <2>2, <2>3 DEF IsHandshakeMessage
<1>4. CASE m2 \in SetTo(m, "controlType", Numbers)
  <2>1. \E x : Changed(m, m2, "controlType", x)
    BY <1>1, <1>4, CallSets
  <2>2. IsA(m2, NewHandshakeMessage)
    BY <1>1, <2>1, ChangedIsA
  <2>3. m2["objects"] = m["objects"] /\ m2["simSettings"] = m["simSettings"]
    BY <1>1, <2>1 DEF Changed
  <2> QED BY <1>1, <2>1, <2>2, <2>3 DEF IsHandshakeMessage
<1> QED BY <1>2, <1>3, <1>4 DEF EditsHandshakeMessage

(* and so is an edited ErrorMessage. *)
LEMMA ErrorMessageEdited ==
  ASSUME NEW m, IsErrorMessage(m), NEW m2 \in EditsErrorMessage(m)
  PROVE  IsErrorMessage(m2)
<1>1. /\ "unknown" \in DOMAIN NewErrorMessage /\ {"error", "errormessage"} \subseteq DOMAIN m
      /\ IsA(m, NewErrorMessage)
  BY DEF IsErrorMessage, IsA, NewErrorMessage
<1>2. PICK f \in {"error", "errormessage"} : \E values : m2 \in SetTo(m, f, values)
  BY DEF EditsErrorMessage
<1>3. \E x : Changed(m, m2, f, x)
  BY <1>1, <1>2, CallSets
<1>4. f \in DOMAIN m /\ f # "unknown"
  BY <1>1
<1>5. IsA(m2, NewErrorMessage)
  BY <1>1, <1>3, <1>4, ChangedIsA
<1> QED BY <1>5 DEF IsErrorMessage

(* An accessor call on what a message can be makes what a message can be. *)
LEMMA EditsSound ==
  ASSUME NEW k \in Kinds, NEW m, Sound(k, m), NEW m2 \in Edits(k, m)
  PROVE  Sound(k, m2)
<1>1. CASE k = "HandshakeMessage"
  BY <1>1, HandshakeMessageEdited DEF Sound, Edits
<1>2. CASE k = "ControlMessage"
  BY <1>2, ControlMessageEdited DEF Sound, Edits
<1>3. CASE k = "SensorMessage"
  BY <1>3, SensorMessageEdited DEF Sound, Edits
<1>4. CASE k = "ErrorMessage"
  BY <1>4, ErrorMessageEdited DEF Sound, Edits
<1>5. CASE k \notin {"HandshakeMessage", "ControlMessage", "SensorMessage", "ErrorMessage"}
  BY <1>5 DEF Edits
<1> QED BY <1>1, <1>2, <1>3, <1>4, <1>5

(* So are the messages the factories make. *)
LEMMA FactoriesSound ==
  ASSUME NEW k \in Kinds
  PROVE  Sound(k, Builder(k)) /\ Sound(k, CreateMessage(k))
<1> USE NoEntriesIsMap
    DEF Sound, Builder, CreateMessage, New, TypeNumber, CurrentVersion, IsA, IsRecord
<1>1. CASE k = "HandshakeInitMessage"
  BY <1>1 DEF HandshakeInitMessageBuilder, NewHandshakeInitMessage, IsHandshakeInitMessage
<1>2. CASE k = "HandshakeMessage"
  BY <1>2 DEF HandshakeMessageBuilder, NewHandshakeMessage, IsHandshakeMessage, OneOf
<1>3. CASE k = "ControlMessage"
  BY <1>3 DEF ControlMessageBuilder, NewControlMessage, IsControlMessage
<1>4. CASE k = "SensorMessage"
  BY <1>4 DEF SensorMessageBuilder, NewSensorMessage, IsSensorMessage, OneOf
<1>5. CASE k = "ResetMessage"
  BY <1>5 DEF ResetMessageBuilder, NewResetMessage, IsResetMessage
<1>6. CASE k = "ErrorMessage"
  BY <1>6 DEF ErrorMessageBuilder, NewErrorMessage, IsErrorMessage
<1>7. CASE k = "SensorRequestMessage"
  BY <1>7 DEF SensorRequestMessageBuilder, NewSensorRequestMessage, IsSensorRequestMessage
<1> QED BY <1>1, <1>2, <1>3, <1>4, <1>5, <1>6, <1>7 DEF Kinds
------------------------------------------------------------------------------
(* The items within items. *)
Within(S) == UNION {Range(it.sub) : it \in S}

(* The levels that the strings of a frame stand on. *)
IsLevels(items, level) ==
  level = [n \in 0..Nesting |-> IF n = 0 THEN Range(items) ELSE Within(level[n - 1])]

(* There are such, *)
LEMMA SomeLevels ==
  ASSUME NEW items
  PROVE  \E level : IsLevels(items, level)
<1> DEFINE a == Range(items)
           b == Within(a)
           c == Within(b)
           d == Within(c)
           e == Within(d)
           f == Within(e)
           g == Within(f)
           level == [n \in 0..6 |-> IF n = 0 THEN a ELSE IF n = 1 THEN b ELSE IF n = 2 THEN c
                                    ELSE IF n = 3 THEN d ELSE IF n = 4 THEN e
                                    ELSE IF n = 5 THEN f ELSE g]
<1>1. /\ b = Within(a) /\ c = Within(b) /\ d = Within(c)
      /\ e = Within(d) /\ f = Within(e) /\ g = Within(f)
  OBVIOUS
<1> HIDE DEF a, b, c, d, e, f, g
<1>2. /\ level[0] = a /\ level[1] = b /\ level[2] = c /\ level[3] = d
      /\ level[4] = e /\ level[5] = f /\ level[6] = g
  OBVIOUS
<1>3. level = [n \in 0..6 |-> level[n]]
  OBVIOUS
<1> HIDE DEF level
<1>4. \A n \in 0..6 : level[n] = IF n = 0 THEN a ELSE Within(level[n - 1])
  <2> TAKE n \in 0..6
  <2>1. \/ n = 0 \/ (n = 1 /\ n - 1 = 0) \/ (n = 2 /\ n - 1 = 1) \/ (n = 3 /\ n - 1 = 2)
        \/ (n = 4 /\ n - 1 = 3) \/ (n = 5 /\ n - 1 = 4) \/ (n = 6 /\ n - 1 = 5)
    OBVIOUS
  <2> QED BY <1>1, <1>2, <2>1
<1>5. level = [n \in 0..6 |-> IF n = 0 THEN a ELSE Within(level[n - 1])]
  BY <1>3, <1>4
<1> QED BY <1>5 DEF IsLevels, Nesting, a

(* and it is them that Strings() goes through. *)
LEMMA StringsOnLevels ==
  ASSUME NEW items
  PROVE  \E level : /\ IsLevels(items, level)
                    /\ Strings(items) = {it.str : it \in UNION {level[n] : n \in 0..Nesting}}
<1> DEFINE level == CHOOSE l : IsLevels(items, l)
<1>1. IsLevels(items, level)
  BY SomeLevels
<1>2. Strings(items) = {it.str : it \in UNION {level[n] : n \in 0..Nesting}}
  BY Zenon DEF Strings, IsLevels, Within
<1> QED BY <1>1, <1>2

(* What stands on one of the first levels has a string of the frame. *)
LEMMA StringsDeep ==
  ASSUME NEW items
  PROVE  \A i \in DOMAIN items :
           /\ items[i].str \in Strings(items)
           /\ \A j \in DOMAIN items[i].sub :
                /\ items[i].sub[j].str \in Strings(items)
                /\ \A k \in DOMAIN items[i].sub[j].sub :
                     /\ items[i].sub[j].sub[k].str \in Strings(items)
                     /\ \A l \in DOMAIN items[i].sub[j].sub[k].sub :
                          items[i].sub[j].sub[k].sub[l].str \in Strings(items)
<1>1. PICK level : /\ IsLevels(items, level)
                   /\ Strings(items) = {it.str : it \in UNION {level[n] : n \in 0..Nesting}}
  BY StringsOnLevels
<1> DEFINE a == level[0]
           b == level[1]
           c == level[2]
           d == level[3]
<1>2. /\ 0 \in 0..Nesting /\ 1 \in 0..Nesting /\ 2 \in 0..Nesting /\ 3 \in 0..Nesting
      /\ 1 - 1 = 0 /\ 2 - 1 = 1 /\ 3 - 1 = 2
  BY DEF Nesting
<1>3. a = Range(items) /\ b = Within(a) /\ c = Within(b) /\ d = Within(c)
  BY <1>1, <1>2 DEF IsLevels
<1>4. \A x \in a \cup b \cup c \cup d : x.str \in Strings(items)
  BY <1>1, <1>2
<1> HIDE DEF a, b, c, d
<1>5. \A S, x : x \in S => \A i \in DOMAIN x.sub : x.sub[i] \in Within(S)
  BY DEF Within, Range
<1>6. \A i \in DOMAIN items : items[i] \in a
  BY <1>3 DEF Range
<1>7. \A x \in a : \A i \in DOMAIN x.sub : x.sub[i] \in b
  BY <1>3, <1>5
<1>8. \A x \in b : \A i \in DOMAIN x.sub : x.sub[i] \in c
  BY <1>3, <1>5
<1>9. \A x \in c : \A i \in DOMAIN x.sub : x.sub[i] \in d
  BY <1>3, <1>5
<1> QED BY <1>4, <1>6, <1>7, <1>8, <1>9

(* A frame whose strings are UTF-8 can be read. *)
LEMMA CleanFrame ==
  ASSUME NEW items, Strings(items) \cap NotUtf8 = {}
  PROVE  Clean("message", items)
<1>1. \A i \in DOMAIN items : CleanMessage(items[i])
  BY StringsDeep DEF CleanMessage, CleanObject, Plain
<1> QED BY <1>1 DEF Clean, CleanAs
------------------------------------------------------------------------------
(* A parser makes of a frame what the frame leads it to. *)
LEMMA ParseLeads ==
  ASSUME NEW k \in Kinds, NEW s, NEW m2, Leads(k, New(k), s, m2)
  PROVE  Parse(k, New(k), s) = [msg |-> m2, ok |-> TRUE]
<1> DEFINE m == New(k)
           n == Len(s)
<1>1. n \in Nat /\ DOMAIN s = 1..n
  BY LeadsThere
<1>2. PICK path : Way(k, m, s, m2, path)
  BY LeadsThere
<1>3. \A r, it : At(k, r, it) = On(k, r, it)
  <2>1. \A x, it : TurnOf(k, x, it) = Turn(k, x, it)
    BY DEF TurnOf, Kinds, TypeNumber
  <2> QED BY <2>1 DEF At, On, Parsed
<1>4. Reading!Follows(k, s, n, path)
  BY <1>2, <1>3 DEF Way, Reading!Follows
<1>5. Reading!Fold(k, path[0], s) = path[n]
  BY <1>1, <1>4, Reading!FoldFollows
<1>6. path[0] = Parsed(m, TRUE)
  BY <1>2 DEF Way, Parsed
<1>7. Parse(k, m, s) = Reading!Fold(k, Parsed(m, TRUE), s)
  BY ParseFolds
<1> QED BY <1>2, <1>5, <1>6, <1>7 DEF Way

(* Looking for the type succeeds if all items are whole. *)
LEMMA PeekSucceeds ==
  ASSUME NEW s, Items(s), \A i \in DOMAIN s : s[i].whole = TRUE /\ ~EndsMessage(s[i])
  PROVE  Parse("Message", New("Message"), s).ok
<1> DEFINE n == Len(s)
           m == New("Message")
<1>1. n \in Nat /\ DOMAIN s = 1..n
  BY ItemsDomain
<1> HIDE DEF n, m
<1>2. PICK read : /\ read[0] = [msg |-> m, ok |-> TRUE]
                  /\ \A i \in 1..n : read[i] = On("Message", read[i - 1], s[i])
                  /\ Parse("Message", m, s) = read[n]
  BY <1>1, ParseReads
<1> DEFINE Ok(r) == r.ok = TRUE
           T == {i \in Nat : i <= n => Ok(read[i])}
<1>3. 0 \in T
  BY <1>2
<1> HIDE DEF Ok
<1>4. ASSUME NEW i \in Nat, i \in T
      PROVE  i + 1 \in T
  <2> SUFFICES ASSUME i + 1 <= n PROVE Ok(read[i + 1])
    OBVIOUS
  <2>1. i + 1 \in 1..n /\ (i + 1) - 1 = i /\ read[i].ok = TRUE
    BY <1>1, <1>4 DEF Ok
  <2> DEFINE it == s[i + 1]
             r == read[i]
  <2>2. /\ read[i + 1] = On("Message", r, it) /\ r.ok = TRUE
        /\ it.whole = TRUE /\ ~EndsMessage(it)
    BY <1>1, <1>2, <2>1
  <2> HIDE DEF T, it, r
  <2>3. read[i + 1] = ParseMessage(r.msg, it)
    BY <2>2 DEF On, Turn
  <2>4. \A x : ParseMessage(x, it).ok = TRUE
    BY <2>2 DEF ParseMessage, SetNumber, Unknown, Parsed
  <2> QED BY <2>3, <2>4 DEF Ok
<1> HIDE DEF T
<1>5. T = Nat
  BY <1>3, <1>4, Reading!NatInherits DEF T
<1>6. read[n].ok = TRUE
  BY <1>1, <1>5 DEF T, Ok
<1> QED BY <1>2, <1>6 DEF m

(* A frame that is as it was written, and whose strings are UTF-8, is      *)
(* parsed for its type without an error, and to what it was written from.  *)
LEMMA FrameRead ==
  ASSUME NEW k \in Kinds, NEW m, Sound(k, m), NEW order, NEW s, s = Write(k, m, order),
         Strings(s) \cap NotUtf8 = {}
  PROVE  /\ \A i \in DOMAIN s : s[i].whole = TRUE
         /\ Parse("Message", New("Message"), s).ok
         /\ Parse(k, New(k), s) = [msg |-> m, ok |-> TRUE]
<1>1. Reaches("message", k, New(k), s, m)
  BY MessageReached
<1>2. Clean("message", s)
  BY CleanFrame
<1>3. Items(s) /\ Leads(k, New(k), s, m) /\ \A i \in DOMAIN s : s[i].whole = TRUE
  BY <1>1, <1>2 DEF Reaches
<1>4. \A i \in DOMAIN s : ~EndsMessage(s[i])
  BY <1>3, ItemsDomain DEF Leads
<1> QED BY <1>3, <1>4, ParseLeads, PeekSucceeds

(* The invariant of the round trip: messages are what messages can be, and *)
(* frames that nobody damaged what was written of them.                    *)
Sent ==
  /\ kind # NoKind => Sound(kind, pm)
  /\ frame # NoFrame /\ ~damaged => \E order : frame = Write(kind, pm, order)

(* Every step keeps it, *)
LEMMA NextSent == IInv /\ Sent /\ [Next]_vars => Sent'
<1> SUFFICES ASSUME IInv, Sent, [Next]_vars PROVE Sent'
  OBVIOUS
<1> USE DEF Sent
<1>1. CASE UNCHANGED <<kind, pm, frame, damaged>>
  BY <1>1
<1>2. ASSUME NEW k \in Kinds, Create(k)
      PROVE  Sent'
  <2>1. kind' = k /\ frame' = NoFrame /\ pm' \in {Builder(k), CreateMessage(k)}
    BY <1>2 DEF Create, IInv
  <2> QED BY <2>1, FactoriesSound
<1>3. CASE Edit
  <2>1. kind \in Kinds /\ kind' = kind /\ frame' = NoFrame /\ pm' \in Edits(kind, pm)
    BY <1>3 DEF Edit, IInv
  <2>2. kind # NoKind
    BY <1>3 DEF Edit
  <2>3. Sound(kind, pm')
    BY <2>1, <2>2, EditsSound
  <2> QED BY <2>1, <2>3
<1>4. ASSUME NEW order \in Orders, SerializeToBytes(order)
      PROVE  Sent'
  BY <1>4 DEF SerializeToBytes
<1>5. CASE Damage
  BY <1>5 DEF Damage
<1> QED
  BY <1>1, <1>2, <1>3, <1>4, <1>5
  DEF Next, vars, CppFromBytes, PyFromBytes, Unread, SensorMessageFromIStream,
      HandshakeMessageFromIStream, FromIStream, ToSensorMessage, ToHandshakeMessage, Cast

(* and every step that reads reads what was sent. *)
LEMMA NextReads ==
  IInv /\ IInv' /\ Sent /\ ReadsWhatWasSent /\ [Next]_vars => ReadsWhatWasSent'
<1> SUFFICES ASSUME IInv, IInv', Sent, ReadsWhatWasSent, [Next]_vars,
                    got'.from \in {"cpp", "py"}, ~damaged', Strings(frame') \cap NotUtf8 = {}
             PROVE  got'.kind = kind' /\ got'.msg = pm'
  BY DEF ReadsWhatWasSent
<1>1. CASE UNCHANGED vars
  BY <1>1 DEF vars, ReadsWhatWasSent
<1>2. ASSUME got' = NoMessage PROVE FALSE
  BY <1>2 DEF NoMessage
<1>3. ASSUME NEW k \in Kinds, Create(k)
      PROVE  FALSE
  <2>1. got' = NoMessage
    BY <1>3 DEF Create, IInv
  <2> QED BY <1>2, <2>1
<1>4. CASE Edit
  <2>1. got' = NoMessage
    BY <1>4 DEF Edit, IInv
  <2> QED BY <1>2, <2>1
<1>5. ASSUME NEW order \in Orders, SerializeToBytes(order)
      PROVE  FALSE
  <2>1. got' = NoMessage
    BY <1>5 DEF SerializeToBytes, IInv
  <2> QED BY <1>2, <2>1
<1>6. CASE Damage
  <2>1. got' = NoMessage
    BY <1>6 DEF Damage
  <2> QED BY <1>2, <2>1
<1>7. ASSUME Unread
      PROVE  /\ kind \in Kinds /\ UNCHANGED <<kind, pm, frame, damaged>> /\ TypeArrived
             /\ Framed(frame, TypeNumber[kind])
             /\ Parse("Message", New("Message"), frame).ok
             /\ Parse(kind, New(kind), frame) = [msg |-> pm, ok |-> TRUE]
  <2>1. /\ frame # NoFrame /\ kind \in Kinds /\ kind # NoKind /\ ~damaged
        /\ UNCHANGED <<kind, pm, frame, damaged>>
        /\ Framed(frame, TypeNumber[kind]) /\ Headed(frame, TypeNumber[kind])
    BY <1>7 DEF Unread, IInv
  <2>2. PICK order : frame = Write(kind, pm, order)
    BY <2>1 DEF Sent
  <2>3. /\ \A i \in DOMAIN frame : frame[i].whole = TRUE
        /\ Parse("Message", New("Message"), frame).ok
        /\ Parse(kind, New(kind), frame) = [msg |-> pm, ok |-> TRUE]
    BY <2>1, <2>2, FrameRead, ZenonT(60) DEF Sent
  <2>4. TypeArrived
    BY <2>1, <2>3, KindsDiffer DEF Headed, TypeArrived
  <2> QED BY <2>1, <2>3, <2>4
<1>8. CASE CppFromBytes
  <2>1. Unread /\ (got' = Raised("cpp") \/ \E k : got' = Received("cpp", k, frame))
    BY <1>8 DEF CppFromBytes
  <2>2. got'.from = "cpp"
    BY <2>1 DEF Raised, Received, NoMessage
  <2>3. TypeArrived'
    BY <1>7, <2>1 DEF TypeArrived
  <2>4. got'.kind = kind /\ kind # NoKind
    BY <1>7, <2>1, <2>2, <2>3, KindsDiffer DEF IInv, RightKind
  <2>5. got' # Raised("cpp")
    BY <2>4 DEF Raised, NoMessage
  <2>6. PICK k : got' = Received("cpp", k, frame)
    BY <2>1, <2>5
  <2>7. got'.kind = k /\ got'.msg = Parse(k, New(k), frame).msg
    BY <2>6 DEF Received
  <2> QED BY <1>7, <2>1, <2>4, <2>7
<1>9. CASE PyFromBytes
  <2> DEFINE peeked == Parse("Message", New("Message"), frame)
             kinds == {k \in KindsOf(peeked.msg.messageType) : Parse(k, New(k), frame).ok}
  <2>1. Unread /\ IF peeked.ok /\ kinds # {} THEN \E k \in kinds : got' = Received("py", k, frame)
                  ELSE got' = Raised("py")
    BY <1>9 DEF PyFromBytes
  <2>2. peeked.msg.messageType = TypeNumber[kind]
    BY <1>7, <2>1, ArrivedType
  <2>3. KindsOf(TypeNumber[kind]) = {kind}
    BY <1>7, <2>1, KindsDiffer DEF KindsOf
  <2>4. Parse(kind, New(kind), frame).ok /\ Parse(kind, New(kind), frame).msg = pm /\ peeked.ok
    BY <1>7, <2>1
  <2>5. kinds = {kind}
    BY <2>2, <2>3, <2>4
  <2> HIDE DEF kinds, peeked
  <2>6. got' = Received("py", kind, frame)
    BY <2>1, <2>4, <2>5
  <2>7. got'.kind = kind /\ got'.msg = Parse(kind, New(kind), frame).msg
    BY <2>6 DEF Received
  <2> QED BY <1>7, <2>1, <2>4, <2>7
<1>10. ASSUME NEW k \in Kinds, FromIStream(k)
       PROVE  FALSE
  BY <1>10 DEF FromIStream, Received
<1>11. ASSUME NEW k \in Kinds, Cast(k)
       PROVE  got'.kind = kind' /\ got'.msg = pm'
  <2>1. /\ got'.from = got.from /\ got'.kind = got.kind /\ got'.msg = got.msg
        /\ UNCHANGED <<kind, pm, frame, damaged>>
    BY <1>11 DEF Cast
  <2> QED BY <2>1 DEF ReadsWhatWasSent
<1>12. "SensorMessage" \in Kinds /\ "HandshakeMessage" \in Kinds
  BY DEF Kinds, TypeNumber
<1> QED
  BY <1>1, <1>3, <1>4, <1>5, <1>6, <1>8, <1>9, <1>10, <1>11, <1>12
  DEF Next, SensorMessageFromIStream, HandshakeMessageFromIStream,
      ToSensorMessage, ToHandshakeMessage

(* The round trip: whatever is built, however often and deep, and in       *)
(* whatever order its maps are written, is what fromBytes() of either      *)
(* library makes of the bytes, if they are undamaged and all strings in    *)
(* them are UTF-8.                                                         *)
THEOREM RoundTrips == Spec => []ReadsWhatWasSent
<1>1. Init => Sent /\ ReadsWhatWasSent
  BY DEF Init, Sent, ReadsWhatWasSent, NoMessage
<1>2. Spec => [](Sent /\ ReadsWhatWasSent)
  BY <1>1, Invariant, NextSent, NextReads, PTL DEF Spec
<1> QED BY <1>2, PTL
==============================================================================
