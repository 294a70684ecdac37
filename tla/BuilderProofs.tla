---------------------------- MODULE BuilderProofs ----------------------------
(***************************************************************************)
(* Proofs about the three message builders: ControlMessages,               *)
(* SensorMessages and HandshakeMessages.  Each builder's invariant says    *)
(* that its pointers are at what was named last and that every field of    *)
(* every object holds what the history says of it.  A call moves both the  *)
(* history and the message; the lemmas about Said and its like say how the *)
(* first moves, the step lemmas that the second follows.                   *)
(***************************************************************************)
EXTENDS ControlMessages, SensorMessages, HandshakeMessages, SequenceTheorems, TLAPS

(* The history is a sequence.                                              *)
History == \E C : calls \in Seq(C)

(* What one call does to the history, in the form the proofs use: the new  *)
(* entry has a number that is larger than all others, and the old entries  *)
(* stay.                                                                   *)
Grows(method, arg) ==
  /\ Now \in Nat /\ Now > 0 /\ Now \notin DOMAIN calls
  /\ Len(calls) < MaxCalls => Now \in 1..MaxCalls
  /\ DOMAIN calls' = DOMAIN calls \cup {Now}
  /\ \A i \in DOMAIN calls : i \in Nat /\ 0 < i /\ i < Now /\ calls'[i] = calls[i]
  /\ calls'[Now] = [method |-> method, arg |-> arg]

(* Every call of a builder grows the history so.                           *)
LEMMA HistoryGrows ==
  ASSUME History, NEW method, NEW arg, Called(method, arg)
  PROVE  History' /\ Grows(method, arg)
<1> DEFINE call == [method |-> method, arg |-> arg]
<1>1. PICK C : calls \in Seq(C)
  BY DEF History
<1>2. calls \in Seq(C \cup {call})
  <2>1. PICK n \in Nat : calls \in [1..n -> C]
    BY <1>1, SeqDef
  <2>2. calls \in [1..n -> C \cup {call}]
    BY <2>1
  <2> QED  BY <2>2, SeqDef
<1>3. calls' = Append(calls, call) /\ call \in C \cup {call}
  BY DEF Called
<1>4. /\ calls' \in Seq(C \cup {call})
      /\ DOMAIN calls' = 1..Len(calls) + 1 /\ DOMAIN calls = 1..Len(calls) /\ Len(calls) \in Nat
      /\ calls'[Len(calls) + 1] = call
      /\ \A i \in 1..Len(calls) : calls'[i] = calls[i]
  BY <1>2, <1>3
<1> QED  BY <1>4, MaxCallsAssumption DEF History, Grows, Now

(* The calls of one method, after one more call.                           *)
LEMMA AllGrows ==
  ASSUME NEW method, NEW arg, Grows(method, arg), NEW x
  PROVE  All(x)' = IF x = method THEN All(x) \cup {Now} ELSE All(x)
BY DEF Grows, All

(* The last of a set to which a larger number was added.                   *)
LEMMA LastIsNew ==
  ASSUME NEW S, NEW n \in Nat, \A i \in S : i \in Nat /\ i < n
  PROVE  LastOf(S \cup {n}) = {n}
BY DEF LastOf

(* The call just made is the last of its method.                           *)
LEMMA AllAdds ==
  ASSUME NEW method, NEW arg, Grows(method, arg)
  PROVE  /\ All(method)' = All(method) \cup {Now}
         /\ LastOf(All(method)') = {Now}
         /\ LastOf({0} \cup All(method)') = {Now}
<1>1. All(method)' = All(method) \cup {Now}
  BY AllGrows
<1>2. Now \in Nat /\ 0 < Now
  BY DEF Grows
<1>3. \A i \in All(method) : i \in Nat /\ i < Now
  BY DEF All, Grows
<1>4. \A i \in {0} \cup All(method) : i \in Nat /\ i < Now
  BY <1>2, <1>3
<1>5. {0} \cup All(method)' = ({0} \cup All(method)) \cup {Now}
  BY <1>1
<1>6. LastOf({0} \cup All(method)') = {Now}
  BY <1>2, <1>4, <1>5, LastIsNew
<1> QED  BY <1>1, <1>2, <1>3, <1>6, LastIsNew

(* The object that was named last, by what was said.                       *)
Named == {calls[j].arg : j \in LastOf(All("object"))}

(* Only object() names another one.                                        *)
LEMMA NamedGrows ==
  ASSUME NEW method, NEW arg, Grows(method, arg)
  PROVE  Named' = IF method = "object" THEN {arg} ELSE Named
<1>1. CASE method = "object"
  <2>1. LastOf(All("object")') = {Now}
    BY <1>1, AllAdds
  <2> QED  BY <1>1, <2>1 DEF Named, Grows
<1>2. CASE method # "object"
  <2>1. All("object")' = All("object")
    BY <1>2, AllGrows
  <2>2. \A j \in LastOf(All("object")) : calls'[j] = calls[j]
    BY DEF LastOf, All, Grows
  <2> QED  BY <1>2, <2>1, <2>2 DEF Named
<1> QED  BY <1>1, <1>2

(* What was said of an object grows by the call just made, if that object  *)
(* is the one named last, and is otherwise what it was: nothing that is    *)
(* said later goes back to an earlier object.                              *)
LEMMA SaidGrows ==
  ASSUME NEW method, NEW arg, Grows(method, arg), NEW x, NEW name
  PROVE  Said(x, name)' = IF x = method /\ name \in Named' THEN Said(x, name) \cup {Now}
                                                          ELSE Said(x, name)
<1> DEFINE At(i) == \E j \in LastOf(Until(All("object"), i)) : calls[j].arg = name
<1>1. ASSUME NEW i \in DOMAIN calls
      PROVE  (\E j \in LastOf(Until(All("object")', i)) : calls'[j].arg = name) <=> At(i)
  <2>1. Until(All("object")', i) = Until(All("object"), i)
    BY AllGrows DEF Until, Grows
  <2>2. \A j \in LastOf(Until(All("object"), i)) : calls'[j] = calls[j]
    BY DEF LastOf, Until, All, Grows
  <2> QED  BY <2>1, <2>2
<1>2. (\E j \in LastOf(Until(All("object")', Now)) : calls'[j].arg = name) <=> name \in Named'
  <2>1. Until(All("object")', Now) = All("object")'
    BY AllGrows DEF Until, All, Grows
  <2> QED  BY <2>1 DEF Named
<1>3. All(x)' = IF x = method THEN All(x) \cup {Now} ELSE All(x)
  BY AllGrows
<1>4. All(x) \subseteq DOMAIN calls
  BY DEF All
<1> QED  BY <1>1, <1>2, <1>3, <1>4 DEF Said

(* What was said of an object with any other method is untouched.          *)
LEMMA SaidStays ==
  ASSUME NEW method, NEW arg, Grows(method, arg), NEW x, NEW name, x # method \/ name \notin Named'
  PROVE  /\ Said(x, name)' = Said(x, name)
         /\ \A i \in Said(x, name) : calls'[i] = calls[i]
<1>1. \A i \in Said(x, name) : calls'[i] = calls[i]
  BY DEF Said, All, Grows
<1> QED  BY <1>1, SaidGrows

(* What is said of the object named last is the last that was said of it.  *)
LEMMA SaidAdds ==
  ASSUME NEW method, NEW arg, Grows(method, arg), NEW name, name \in Named'
  PROVE  /\ Said(method, name)' = Said(method, name) \cup {Now}
         /\ LastOf(Said(method, name)') = {Now}
         /\ LastOf({0} \cup Said(method, name)') = {Now}
         /\ \A i \in Said(method, name) : i \in Nat /\ i < Now /\ calls'[i] = calls[i]
         /\ calls'[Now] = [method |-> method, arg |-> arg]
<1>1. \A i \in Said(method, name) : i \in Nat /\ i < Now /\ calls'[i] = calls[i]
  BY DEF Said, All, Grows
<1>2. Said(method, name)' = Said(method, name) \cup {Now}
  BY SaidGrows
<1>3. {0} \cup Said(method, name)' = ({0} \cup Said(method, name)) \cup {Now}
  BY <1>2
<1>4. Now \in Nat /\ 0 < Now
  BY DEF Grows
<1>5. \A i \in {0} \cup Said(method, name) : i \in Nat /\ i < Now
  BY <1>1, <1>4
<1>6. LastOf({0} \cup Said(method, name)') = {Now}
  BY <1>3, <1>4, <1>5, LastIsNew
<1> QED  BY <1>1, <1>2, <1>4, <1>6, LastIsNew DEF Grows

(* The same for calls with an argument, and for those with another         *)
(* argument.                                                               *)
LEMMA SaidOfAdds ==
  ASSUME NEW method, NEW arg, Grows(method, arg), NEW name, name \in Named'
  PROVE  /\ {calls'[i].arg : i \in Said(method, name)'} = {calls[i].arg : i \in Said(method, name)} \cup {arg}
         /\ SaidOf(method, name, arg)' = SaidOf(method, name, arg) \cup {Now}
         /\ LastOf(SaidOf(method, name, arg)') = {Now}
         /\ \A v : v # arg => SaidOf(method, name, v)' = SaidOf(method, name, v)
<1>1. /\ Said(method, name)' = Said(method, name) \cup {Now}
      /\ \A i \in Said(method, name) : i \in Nat /\ i < Now /\ calls'[i] = calls[i]
      /\ calls'[Now].arg = arg
  <2>1. calls'[Now].arg = arg
    BY DEF Grows
  <2>2. /\ Said(method, name)' = Said(method, name) \cup {Now}
        /\ \A i \in Said(method, name) : i \in Nat /\ i < Now /\ calls'[i] = calls[i]
    BY SaidAdds
  <2> QED  BY <2>1, <2>2
<1>2. SaidOf(method, name, arg)' = SaidOf(method, name, arg) \cup {Now}
  BY <1>1 DEF SaidOf
<1>3. Now \in Nat /\ \A i \in SaidOf(method, name, arg) : i \in Nat /\ i < Now
  BY <1>1 DEF SaidOf, Grows
<1>4. LastOf(SaidOf(method, name, arg)') = {Now}
  BY <1>2, <1>3, LastIsNew
<1>5. \A v : v # arg => SaidOf(method, name, v)' = SaidOf(method, name, v)
  BY <1>1 DEF SaidOf
<1> QED  BY <1>1, <1>2, <1>4, <1>5
------------------------------------------------------------------------------
(* A builder or message that may still be asked.                           *)
Live == status \in {"building", "built"}

(* The pointer currObject is at the object named last, and the message has *)
(* the objects that were ever named.                                       *)
Follows ==
  /\ current = Named
  /\ \A name \in DOMAIN message : Said("object", name) # {}
  /\ \A method, name : Said(method, name) # {} => name \in DOMAIN message
  /\ DOMAIN message = {calls[i].arg : i \in All("object")}

(* It keeps up with every call: only object() moves the pointer, and the   *)
(* object is allocated if it is not there.                                 *)
LEMMA FollowsStep ==
  ASSUME NEW method, NEW arg, Grows(method, arg), Follows,
         current' = IF method = "object" THEN {arg} ELSE current,
         DOMAIN message' = IF method = "object" THEN DOMAIN message \cup {arg} ELSE DOMAIN message,
         current \subseteq DOMAIN message
  PROVE  Follows'
<1>1. current' = Named'
  BY NamedGrows DEF Follows
<1>2. \A x, name : Said(x, name)' = IF x = method /\ name \in Named' THEN Said(x, name) \cup {Now}
                                                                     ELSE Said(x, name)
  BY SaidGrows
<1>3. \A name \in DOMAIN message' : Said("object", name)' # {}
  BY <1>1, <1>2 DEF Follows
<1>4. \A x, name : Said(x, name)' # {} => name \in DOMAIN message'
  BY <1>1, <1>2 DEF Follows
<1>5. DOMAIN message' = {calls'[i].arg : i \in All("object")'}
  <2>1. \A i \in All("object") : calls'[i] = calls[i]
    BY DEF All, Grows
  <2>2. CASE method = "object"
    <3>1. All("object")' = All("object") \cup {Now}
      BY <2>2, AllGrows
    <3>2. calls'[Now].arg = arg
      BY DEF Grows
    <3> QED  BY <2>1, <2>2, <3>1, <3>2 DEF Follows
  <2>3. CASE method # "object"
    <3>1. All("object")' = All("object")
      BY <2>3, AllGrows
    <3> QED  BY <2>1, <2>3, <3>1 DEF Follows
  <2> QED  BY <2>2, <2>3
<1> QED  BY <1>1, <1>3, <1>4, <1>5 DEF Follows

(* A write through currObject changes the object named last, and no other. *)
LEMMA WriteStep ==
  ASSUME NEW method, NEW arg, Grows(method, arg), Follows,
         method # "object", current \subseteq DOMAIN message, \A a, b \in current : a = b,
         NEW name \in current, NEW value,
         message' = [message EXCEPT ![name] = value], UNCHANGED current
  PROVE  /\ Follows'
         /\ current' \subseteq DOMAIN message' /\ \A a, b \in current' : a = b
         /\ DOMAIN message' = DOMAIN message /\ message'[name] = value
         /\ \A n \in DOMAIN message : n # name => message'[n] = message[n]
         /\ \A n : n \in Named' <=> n = name
<1>1. Follows'
  BY FollowsStep
<1>2. current' = Named' /\ current' = {name}
  BY <1>1 DEF Follows
<1> QED  BY <1>1, <1>2

(* One object's fields hold what was last said of it.                      *)
ControlAgrees(name) ==
  /\ \A control \in Control : {message[name].controls[control]} = LastOf({0} \cup Said(control, name))
  /\ \A event \in Event :
       controlEvent(name, event) = {calls[i].arg.activated : i \in LastOf(SaidEvent(name, event))}

(* The inductive invariant of ControlMessage's builder. Beside the         *)
(* properties: a caller with a pointer to the interfaces that write has    *)
(* named an object before, so that currObject is never indeterminate for   *)
(* it.                                                                     *)
ControlInv ==
  /\ ControlTypeOK /\ History
  /\ ControlTypesKeepFromCrashing
  /\ status \in {"built", "hollow"} => All("build") # {}
  /\ Live => /\ Follows
             /\ held \cap {"AddControlBuilder", "AddControlEventBuilder"} # {} => current # {}
             /\ \A name \in DOMAIN message : ControlAgrees(name)

(* A new builder has nothing said and nothing in its message.              *)
LEMMA ControlInvInit == ControlInit => ControlInv
<1> SUFFICES ASSUME ControlInit PROVE ControlInv
  OBVIOUS
<1> USE DEF ControlInit, Fresh, controlBuilder
<1>1. ControlTypeOK
  BY DEF ControlTypeOK, ControlInterface, EmptyMap, Status
<1>2. \A method : All(method) = {}
  BY DEF All
<1>3. Follows
  BY <1>2 DEF Follows, Named, LastOf, EmptyMap, Said
<1> QED  BY <1>1, <1>3 DEF ControlInv, History, ControlTypesKeepFromCrashing, EmptyMap

(* object() keeps the invariant: it moves the pointer and leaves every     *)
(* object's fields, or crashes after build().                              *)
LEMMA ControlObjectStep ==
  ASSUME ControlInv, NEW name \in Object, controlObject(name)
  PROVE  ControlInv'
<1>1. History' /\ Grows("object", name)
  BY HistoryGrows DEF ControlInv, controlObject
<1>2. CASE status = "building"
  <2>1. /\ status' = "building" /\ current' = {name}
        /\ DOMAIN message' = DOMAIN message \cup {name}
        /\ \A n \in DOMAIN message : message'[n] = message[n]
        /\ name \notin DOMAIN message => message'[name] = NewControlObject
    BY <1>2 DEF controlObject, Name, Allocate, Put
  <2>2. Live
    BY <1>2 DEF Live
  <2>3. Follows'
    BY <1>1, <2>1, <2>2, FollowsStep DEF ControlInv, ControlTypeOK
  <2>4. ControlTypeOK'
    <3>1. held' \subseteq ControlInterface
      BY DEF controlObject, Get, ControlInv, ControlTypeOK, ControlInterface
    <3>2. NewControlObject \in ControlContent({})
      BY MaxCallsAssumption DEF NewControlObject, ControlContent, EmptyMap
    <3>3. \A n \in DOMAIN message' : \E events \in SUBSET Event : message'[n] \in ControlContent(events)
      BY <2>1, <3>2 DEF ControlInv, ControlTypeOK
    <3> QED  BY <2>1, <3>1, <3>3 DEF ControlInv, ControlTypeOK, Status
  <2>5. ASSUME NEW n \in DOMAIN message' PROVE ControlAgrees(n)'
    <3>1. \A x \in Control \cup {"event"} :
             /\ Said(x, n)' = Said(x, n)
             /\ \A i \in Said(x, n) : calls'[i] = calls[i]
      BY <1>1, SaidStays DEF Control
    <3>2. CASE n \in DOMAIN message
      <4>1. ControlAgrees(n)
        BY <2>2, <3>2 DEF ControlInv
      <4>2. \A e : SaidEvent(n, e)' = SaidEvent(n, e)
        BY <3>1 DEF SaidEvent
      <4>3. \A e : \A i \in LastOf(SaidEvent(n, e)) : calls'[i] = calls[i]
        BY <3>1 DEF SaidEvent, LastOf
      <4>4. \A e : controlEvent(n, e)' = controlEvent(n, e)
        BY <2>1, <3>2 DEF controlEvent, hasControlEvent, has_object
      <4> QED  BY <2>1, <3>1, <3>2, <4>1, <4>2, <4>3, <4>4 DEF ControlAgrees
    <3>3. CASE n \notin DOMAIN message
      <4>1. n = name /\ \A x : Said(x, n) = {}
        BY <2>1, <2>2, <3>3 DEF ControlInv, Follows
      <4>2. message'[n].controls = [c \in Control |-> 0] /\ DOMAIN message'[n].events = {}
        BY <2>1, <3>3, <4>1 DEF NewControlObject, EmptyMap
      <4>3. \A e : SaidEvent(n, e)' = {}
        BY <3>1, <4>1 DEF SaidEvent
      <4>4. LastOf({0}) = {0} /\ LastOf({}) = {}
        BY DEF LastOf
      <4>5. \A e : controlEvent(n, e)' = {}
        BY <4>2 DEF controlEvent, hasControlEvent
      <4>6. ASSUME NEW c \in Control
            PROVE  {(message'[n]).controls[c]} = LastOf({0} \cup Said(c, n)')
        BY <3>1, <4>1, <4>2, <4>4
      <4>7. ASSUME NEW e \in Event
            PROVE  controlEvent(n, e)'
                     = {calls'[i].arg.activated : i \in LastOf(SaidEvent(n, e)')}
        BY <4>3, <4>4, <4>5
      <4> QED  BY <4>6, <4>7 DEF ControlAgrees
    <3> QED  BY <3>2, <3>3
  <2> QED  BY <1>1, <2>1, <2>3, <2>4, <2>5 DEF ControlInv, ControlTypesKeepFromCrashing
<1>3. CASE status # "building"
  <2>1. status = "built" /\ status' = "crashed" /\ UNCHANGED <<current, message>>
    BY <1>3 DEF controlObject, May, Name, Crash
  <2>2. All("build") # {} /\ All("build")' = All("build")
    BY <1>1, <2>1, AllGrows DEF ControlInv
  <2>3. ControlTypeOK'
    BY <2>1 DEF ControlInv, ControlTypeOK, ControlInterface, controlObject, Get, Status
  <2> QED  BY <1>1, <2>1, <2>2, <2>3 DEF ControlInv, ControlTypesKeepFromCrashing, Live
<1> QED  BY <1>2, <1>3

(* A call that crashes came after build().                                 *)
LEMMA ControlCrashStep ==
  ASSUME ControlInv, NEW method, NEW arg, Called(method, arg), Crash, held' \subseteq ControlInterface,
         status = "built"
  PROVE  ControlInv'
<1>1. History' /\ Grows(method, arg)
  BY HistoryGrows DEF ControlInv
<1>2. All("build")' # {}
  BY <1>1, AllGrows DEF ControlInv
<1> QED  BY <1>1, <1>2 DEF ControlInv, ControlTypeOK, ControlTypesKeepFromCrashing, Live, Crash, Status

(* An object that is not written to, or of which nothing was said, agrees  *)
(* as before.                                                              *)
LEMMA ControlFrame ==
  ASSUME NEW method, NEW arg, Grows(method, arg), NEW name \in DOMAIN message,
         name \in DOMAIN message', message'[name] = message[name],
         name \notin Named' \/ method \notin Control \cup {"event"},
         ControlAgrees(name)
  PROVE  ControlAgrees(name)'
<1>1. \A x \in Control \cup {"event"} :
         /\ Said(x, name)' = Said(x, name)
         /\ \A i \in Said(x, name) : calls'[i] = calls[i]
  BY SaidStays
<1>2. \A e : SaidEvent(name, e)' = SaidEvent(name, e)
  BY <1>1 DEF SaidEvent
<1>3. \A e : \A i \in LastOf(SaidEvent(name, e)) : calls'[i] = calls[i]
  BY <1>1 DEF SaidEvent, LastOf
<1>4. \A e : controlEvent(name, e)' = controlEvent(name, e)
  BY DEF controlEvent, hasControlEvent, has_object
<1> QED  BY <1>1, <1>2, <1>3, <1>4 DEF ControlAgrees

(* withAngles() and its like keep the invariant.                           *)
LEMMA WithControlStep ==
  ASSUME ControlInv, NEW control \in Control, withControl(control)
  PROVE  ControlInv'
<1>1. History' /\ Grows(control, "")
  BY HistoryGrows DEF ControlInv, withControl
<1>2. held' \subseteq ControlInterface /\ current # {} /\ Live /\ Len(calls) < MaxCalls
  BY DEF withControl, May, Get, ControlInv, ControlTypeOK, ControlInterface, Live
<1>3. CASE status = "built" /\ Crash
  BY <1>2, <1>3, ControlCrashStep DEF withControl
<1>4. ASSUME NEW name \in current,
             message' = [message EXCEPT ![name] =
                           [message[name] EXCEPT !.controls = Put(message[name].controls, control, Now)]],
             UNCHANGED <<current, status>>
      PROVE  ControlInv'
  <2> DEFINE o == message[name]
             o2 == [o EXCEPT !.controls = Put(o.controls, control, Now)]
  <2>1. PICK events \in SUBSET Event : o \in ControlContent(events)
    BY DEF ControlInv, ControlTypeOK
  <2>2. Now \in 0..MaxCalls
    <3>1. Now \in 1..MaxCalls
      BY <1>1, <1>2 DEF Grows
    <3> QED  BY <3>1, MaxCallsAssumption
  <2>3. Put(o.controls, control, Now) \in [Control -> 0..MaxCalls]
    BY <2>1, <2>2 DEF Put, ControlContent
  <2>4. o2 \in ControlContent(events) /\ o2.controls = Put(o.controls, control, Now) /\ o2.events = o.events
    BY <2>1, <2>3 DEF ControlContent
  <2>5. control # "object"
    BY DEF Control
  <2> HIDE DEF o2
  <2>6. /\ Follows'
        /\ current' \subseteq DOMAIN message' /\ \A a, b \in current' : a = b
        /\ DOMAIN message' = DOMAIN message /\ message'[name] = o2
        /\ \A n \in DOMAIN message : n # name => message'[n] = message[n]
        /\ \A n : n \in Named' <=> n = name
    BY <1>1, <1>2, <1>4, <2>5, WriteStep DEF ControlInv, ControlTypeOK, o2
  <2>7. ControlTypeOK'
    BY <1>2, <1>4, <2>4, <2>6 DEF ControlInv, ControlTypeOK
  <2>8. ASSUME NEW n \in DOMAIN message' PROVE ControlAgrees(n)'
    <3>1. ControlAgrees(n)
      BY <1>2, <2>6 DEF ControlInv
    <3>2. CASE n # name
      BY <1>1, <2>6, <3>1, <3>2, ControlFrame
    <3>3. CASE n = name
      <4>1. ASSUME NEW c \in Control
            PROVE  {message'[n].controls[c]} = LastOf({0} \cup Said(c, n)')
        <5>1. CASE c = control
          <6>1. LastOf({0} \cup Said(c, n)') = {Now}
            BY <1>1, <2>6, <3>3, <5>1, SaidAdds
          <6>2. message'[n].controls[c] = Now
            BY <2>1, <2>4, <2>6, <3>3, <5>1 DEF Put, ControlContent
          <6> QED  BY <6>1, <6>2
        <5>2. CASE c # control
          <6>1. Said(c, n)' = Said(c, n)
            BY <1>1, <5>2, SaidStays
          <6>2. message'[n].controls[c] = message[n].controls[c]
            BY <2>1, <2>4, <2>6, <3>3, <5>2 DEF Put, ControlContent
          <6> QED  BY <3>1, <6>1, <6>2 DEF ControlAgrees
        <5> QED  BY <5>1, <5>2
      <4>2. ASSUME NEW e \in Event
            PROVE  controlEvent(n, e)' = {calls'[i].arg.activated : i \in LastOf(SaidEvent(n, e)')}
        <5>1. Said("event", n)' = Said("event", n) /\ \A i \in Said("event", n) : calls'[i] = calls[i]
          BY <1>1, SaidStays DEF Control
        <5>2. SaidEvent(n, e)' = SaidEvent(n, e) /\ \A i \in LastOf(SaidEvent(n, e)) : calls'[i] = calls[i]
          BY <5>1 DEF SaidEvent, LastOf
        <5>3. controlEvent(n, e)' = controlEvent(n, e)
          BY <2>4, <2>6, <3>3 DEF controlEvent, hasControlEvent, has_object
        <5> QED  BY <3>1, <5>2, <5>3 DEF ControlAgrees
      <4> QED  BY <4>1, <4>2 DEF ControlAgrees
    <3> QED  BY <3>2, <3>3
  <2>9. current' # {} /\ (status' \in {"built", "hollow"} => All("build")' # {}) /\ status' # "crashed"
    BY <1>1, <1>2, <1>4, AllGrows DEF ControlInv, Live
  <2> QED  BY <1>1, <2>6, <2>7, <2>8, <2>9 DEF ControlInv, ControlTypesKeepFromCrashing
<1> QED  BY <1>2, <1>3, <1>4 DEF withControl, Write, Update

(* withControlEvent() keeps the invariant.                                 *)
LEMMA WithControlEventStep ==
  ASSUME ControlInv, NEW event \in Event, NEW activated \in BOOLEAN, withControlEvent(event, activated)
  PROVE  ControlInv'
<1> DEFINE arg == [event |-> event, activated |-> activated]
<1>1. History' /\ Grows("event", arg)
  BY HistoryGrows DEF ControlInv, withControlEvent
<1>2. held' \subseteq ControlInterface /\ current # {} /\ Live /\ Called("event", arg)
  BY DEF withControlEvent, May, Get, ControlInv, ControlTypeOK, ControlInterface, Live
<1> HIDE DEF arg
<1>3. CASE status = "built" /\ Crash
  BY <1>2, <1>3, ControlCrashStep
<1>4. ASSUME NEW name \in current,
             message' = [message EXCEPT ![name] =
                           [message[name] EXCEPT !.events = Put(message[name].events, event, activated)]],
             UNCHANGED <<current, status>>
      PROVE  ControlInv'
  <2> DEFINE o == message[name]
             o2 == [o EXCEPT !.events = Put(o.events, event, activated)]
  <2>1. PICK events \in SUBSET Event : o \in ControlContent(events)
    BY DEF ControlInv, ControlTypeOK
  <2>2. Put(o.events, event, activated) \in [events \cup {event} -> BOOLEAN]
    BY <2>1 DEF Put, ControlContent
  <2>3. /\ o2 \in ControlContent(events \cup {event})
        /\ o2.controls = o.controls /\ o2.events = Put(o.events, event, activated)
    BY <2>1, <2>2 DEF ControlContent
  <2> HIDE DEF o2
  <2>4. /\ Follows'
        /\ current' \subseteq DOMAIN message' /\ \A a, b \in current' : a = b
        /\ DOMAIN message' = DOMAIN message /\ message'[name] = o2
        /\ \A n \in DOMAIN message : n # name => message'[n] = message[n]
        /\ \A n : n \in Named' <=> n = name
    BY <1>1, <1>2, <1>4, WriteStep DEF ControlInv, ControlTypeOK, o2
  <2>5. ControlTypeOK'
    BY <1>2, <1>4, <2>3, <2>4 DEF ControlInv, ControlTypeOK
  <2>6. ASSUME NEW n \in DOMAIN message' PROVE ControlAgrees(n)'
    <3>1. ControlAgrees(n)
      BY <1>2, <2>4 DEF ControlInv
    <3>2. CASE n # name
      BY <1>1, <2>4, <3>1, <3>2, ControlFrame
    <3>3. CASE n = name
      <4>1. ASSUME NEW c \in Control
            PROVE  {message'[n].controls[c]} = LastOf({0} \cup Said(c, n)')
        <5>1. Said(c, n)' = Said(c, n)
          BY <1>1, SaidStays DEF Control
        <5> QED  BY <2>3, <2>4, <3>1, <3>3, <5>1 DEF ControlAgrees
      <4>2. ASSUME NEW e \in Event
            PROVE  controlEvent(n, e)' = {calls'[i].arg.activated : i \in LastOf(SaidEvent(n, e)')}
        <5>1. /\ Said("event", n)' = Said("event", n) \cup {Now}
              /\ \A i \in Said("event", n) : i \in Nat /\ i < Now /\ calls'[i] = calls[i]
              /\ calls'[Now] = [method |-> "event", arg |-> arg]
          <6>1. n \in Named'
            BY <2>4, <3>3
          <6> QED  BY <1>1, <6>1, SaidAdds
        <5>2. calls'[Now].arg.event = event /\ calls'[Now].arg.activated = activated
          BY <5>1 DEF arg
        <5>3. CASE e = event
          <6>1. SaidEvent(n, e)' = SaidEvent(n, e) \cup {Now}
            BY <5>1, <5>2, <5>3 DEF SaidEvent
          <6>2. Now \in Nat /\ \A i \in SaidEvent(n, e) : i \in Nat /\ i < Now
            BY <1>1, <5>1 DEF SaidEvent, Grows
          <6>3. LastOf(SaidEvent(n, e)') = {Now}
            BY <6>1, <6>2, LastIsNew
          <6>4. controlEvent(n, e)' = {activated}
            BY <2>3, <2>4, <3>3, <5>3 DEF controlEvent, hasControlEvent, has_object, Put
          <6> QED  BY <5>2, <6>3, <6>4
        <5>4. CASE e # event
          <6>1. SaidEvent(n, e)' = SaidEvent(n, e)
            BY <5>1, <5>2, <5>4 DEF SaidEvent
          <6>2. \A i \in LastOf(SaidEvent(n, e)) : calls'[i] = calls[i]
            BY <5>1 DEF SaidEvent, LastOf
          <6>3. controlEvent(n, e)' = controlEvent(n, e)
            BY <2>3, <2>4, <3>3, <5>4 DEF controlEvent, hasControlEvent, has_object, Put
          <6> QED  BY <3>1, <6>1, <6>2, <6>3 DEF ControlAgrees
        <5> QED  BY <5>3, <5>4
      <4> QED  BY <4>1, <4>2 DEF ControlAgrees
    <3> QED  BY <3>2, <3>3
  <2>7. current' # {} /\ (status' \in {"built", "hollow"} => All("build")' # {}) /\ status' # "crashed"
    BY <1>1, <1>2, <1>4, AllGrows DEF ControlInv, Live
  <2> QED  BY <1>1, <2>4, <2>5, <2>6, <2>7 DEF ControlInv, ControlTypesKeepFromCrashing
<1> QED  BY <1>2, <1>3, <1>4 DEF withControlEvent, Write, Update

(* build() keeps the invariant.                                            *)
LEMMA BuildControlStep ==
  ASSUME ControlInv, buildControl
  PROVE  ControlInv'
<1>1. History' /\ Grows("build", "")
  BY HistoryGrows DEF ControlInv, buildControl, Build
<1>2. /\ Live /\ UNCHANGED <<held, current, message>>
      /\ status' = IF status = "building" THEN "built" ELSE "hollow"
  BY DEF buildControl, May, Build, Live
<1>3. Follows'
  BY <1>1, <1>2, FollowsStep DEF ControlInv, ControlTypeOK
<1>4. All("build")' # {}
  BY <1>1, AllGrows
<1>5. ASSUME NEW n \in DOMAIN message PROVE ControlAgrees(n)'
  <2>1. ControlAgrees(n) /\ n \in DOMAIN message' /\ message'[n] = message[n]
    BY <1>2 DEF ControlInv
  <2>2. "build" \notin Control \cup {"event"}
    BY DEF Control
  <2> QED  BY <1>1, <2>1, <2>2, ControlFrame
<1>6. ControlTypeOK'
  BY <1>2 DEF ControlInv, ControlTypeOK, Status
<1> QED  BY <1>1, <1>2, <1>3, <1>4, <1>5, <1>6 DEF ControlInv, ControlTypesKeepFromCrashing

(* The invariant holds in every behaviour of the builder, for any objects, *)
(* events and number of calls.                                             *)
THEOREM ControlInvariance == ControlSpec => []ControlInv
<1>1. ControlInv /\ [ControlNext]_controlVars => ControlInv'
  <2> SUFFICES ASSUME ControlInv, [ControlNext]_controlVars PROVE ControlInv'
    OBVIOUS
  <2>1. ASSUME NEW name \in Object, controlObject(name) PROVE ControlInv'
    BY <2>1, ControlObjectStep
  <2>2. ASSUME NEW control \in Control, withControl(control) PROVE ControlInv'
    BY <2>2, WithControlStep
  <2>3. ASSUME NEW event \in Event, NEW activated \in BOOLEAN, withControlEvent(event, activated)
        PROVE  ControlInv'
    BY <2>3, WithControlEventStep
  <2>4. CASE buildControl
    BY <2>4, BuildControlStep
  <2>5. CASE UNCHANGED controlVars
    <3> USE <2>5 DEF controlVars
    <3>1. \A x : All(x)' = All(x)
      BY DEF All
    <3>2. \A x, n : Said(x, n)' = Said(x, n)
      BY <3>1 DEF Said
    <3>3. \A n : ControlAgrees(n)' <=> ControlAgrees(n)
      <4>1. \A n, e : SaidEvent(n, e)' = SaidEvent(n, e)
        BY <3>2 DEF SaidEvent
      <4>2. \A n, e : controlEvent(n, e)' = controlEvent(n, e)
        BY DEF controlEvent, hasControlEvent, has_object
      <4> QED  BY <3>2, <4>1, <4>2 DEF ControlAgrees
    <3>4. Follows' <=> Follows
      BY <3>1, <3>2 DEF Follows, Named
    <3> QED  BY <3>1, <3>3, <3>4 DEF ControlInv, ControlTypeOK, History, Live, ControlTypesKeepFromCrashing
  <2> QED  BY <2>1, <2>2, <2>3, <2>4, <2>5 DEF ControlNext
<1> QED  BY <1>1, ControlInvInit, PTL DEF ControlSpec

(* Every variable keeps its type, and currObject points into the message   *)
(* (ControlMessageBuilder.cpp:18).                                         *)
THEOREM ControlTypeCorrect == ControlSpec => []ControlTypeOK
BY ControlInvariance, PTL DEF ControlInv

(* Before build() no sequence of calls that the interfaces allow goes      *)
(* through an indeterminate currObject or a null message.                  *)
THEOREM ControlNeverCrashes == ControlSpec => []ControlTypesKeepFromCrashing
BY ControlInvariance, PTL DEF ControlInv

(* The readers of ControlMessage return what was last said of each object, *)
(* and throw on what was never said.                                       *)
THEOREM ControlReaders == ControlSpec => []ControlReadersReturnWhatWasSaid
<1>1. ControlInv => ControlReadersReturnWhatWasSaid
  <2> SUFFICES ASSUME ControlInv, Live, NEW name \in Object
               PROVE  /\ has_object(name) <=> Said("object", name) # {}
                      /\ \A control \in Control :
                           readControl(control, name) =
                             IF has_object(name) THEN LastOf({0} \cup Said(control, name)) ELSE {}
                      /\ \A event \in Event :
                           controlEvent(name, event) =
                             {calls[i].arg.activated : i \in LastOf(SaidEvent(name, event))}
    BY DEF ControlReadersReturnWhatWasSaid, Live
  <2>1. CASE name \in DOMAIN message
    BY <2>1 DEF ControlInv, Follows, ControlAgrees, has_object, readControl
  <2>2. CASE name \notin DOMAIN message
    <3>1. \A x : Said(x, name) = {}
      BY <2>2 DEF ControlInv, Follows
    <3>2. \A event : LastOf(SaidEvent(name, event)) = {}
      BY <3>1 DEF SaidEvent, LastOf
    <3> QED  BY <2>2, <3>1, <3>2 DEF has_object, readControl, controlEvent, hasControlEvent
  <2> QED  BY <2>1, <2>2
<1> QED  BY <1>1, ControlInvariance, PTL
------------------------------------------------------------------------------
(* Nothing, in order.                                                      *)
LEMMA InOrderNone == InOrder(<<>>, {})
BY DEF InOrder

(* A list that was replaced has one element.                               *)
LEMMA InOrderOne ==
  ASSUME NEW n \in Nat
  PROVE  InOrder(<<n>>, {n})
BY DEF InOrder

(* To append the number of the call just made keeps a list in the order of *)
(* the calls.                                                              *)
LEMMA InOrderAppend ==
  ASSUME NEW T, NEW q \in Seq(T), NEW S, InOrder(q, S),
         NEW n \in Nat, \A i \in S : i \in Nat /\ i < n
  PROVE  InOrder(Append(q, n), S \cup {n})
<1> DEFINE r == Append(q, n)
<1>1. /\ DOMAIN q = 1..Len(q) /\ Len(q) \in Nat
      /\ DOMAIN r = 1..Len(q) + 1
      /\ \A i \in DOMAIN q : r[i] = q[i]
      /\ r[Len(q) + 1] = n
  <2>1. q \in Seq(T \cup {n})
    <3>1. PICK k \in Nat : q \in [1..k -> T]
      BY SeqDef
    <3>2. q \in [1..k -> T \cup {n}]
      BY <3>1
    <3> QED  BY <3>2, SeqDef
  <2> QED  BY <2>1
<1>2. \A i \in DOMAIN q : q[i] \in S
  BY DEF InOrder
<1>3. {r[i] : i \in DOMAIN r} = S \cup {n}
  <2>1. \A i \in DOMAIN r : r[i] \in S \cup {n}
    BY <1>1, <1>2
  <2>2. \A x \in S \cup {n} : \E i \in DOMAIN r : r[i] = x
    <3>1. \A x \in S : \E i \in DOMAIN q : q[i] = x
      BY DEF InOrder
    <3> QED  BY <1>1, <3>1
  <2> QED  BY <2>1, <2>2
<1>4. ASSUME NEW i \in DOMAIN r, NEW j \in DOMAIN r, i < j PROVE r[i] < r[j]
  <2>1. i \in DOMAIN q
    BY <1>1, <1>4
  <2>2. CASE j \in DOMAIN q
    BY <1>1, <1>4, <2>1, <2>2 DEF InOrder
  <2>3. CASE j \notin DOMAIN q
    <3>1. j = Len(q) + 1
      BY <1>1, <2>3
    <3> QED  BY <1>1, <1>2, <2>1, <3>1
  <2> QED  BY <2>2, <2>3
<1> QED  BY <1>3, <1>4 DEF InOrder

(* This sensor of this object is the one the last withSensor() gave.       *)
SensorNamed(name, s) == \E j \in LastOf(All("sensor")) : j \in SaidOf("sensor", name, s)

(* Only withSensor() names another sensor: to name another object does     *)
(* not.                                                                    *)
LEMMA SensorNamedGrows ==
  ASSUME NEW method, NEW arg, Grows(method, arg), NEW name, NEW s
  PROVE  SensorNamed(name, s)' <=> IF method = "sensor" THEN arg = s /\ name \in Named'
                                                        ELSE SensorNamed(name, s)
<1>1. CASE method = "sensor"
  <2>1. LastOf(All("sensor")') = {Now}
    BY <1>1, AllAdds
  <2>2. Now \in Said("sensor", name)' <=> name \in Named'
    <3>1. Now \notin Said("sensor", name)
      BY DEF Said, All, Grows
    <3> QED  BY <1>1, <3>1, SaidGrows
  <2>3. Now \in SaidOf("sensor", name, s)' <=> arg = s /\ name \in Named'
    BY <2>2 DEF SaidOf, Grows
  <2> QED  BY <1>1, <2>1, <2>3 DEF SensorNamed
<1>2. CASE method # "sensor"
  <2>1. All("sensor")' = All("sensor")
    BY <1>2, AllGrows
  <2>2. SaidOf("sensor", name, s)' = SaidOf("sensor", name, s)
    <3>1. /\ Said("sensor", name)' = Said("sensor", name)
          /\ \A i \in Said("sensor", name) : calls'[i] = calls[i]
      BY <1>2, SaidStays
    <3> QED  BY <3>1 DEF SaidOf
  <2> QED  BY <1>2, <2>1, <2>2 DEF SensorNamed
<1> QED  BY <1>1, <1>2

(* The types of a sensor grow by the call just made, if the sensor is the  *)
(* one named last, whatever robot was named since.                         *)
LEMMA SaidTypesGrows ==
  ASSUME NEW method, NEW arg, Grows(method, arg), NEW name, NEW s
  PROVE  SaidTypes(name, s)' = IF method = "types" /\ SensorNamed(name, s)'
                                 THEN SaidTypes(name, s) \cup {Now} ELSE SaidTypes(name, s)
<1>1. ASSUME NEW i \in DOMAIN calls
      PROVE  (\E j \in LastOf(Until(All("sensor")', i)) : j \in SaidOf("sensor", name, s)')
               <=> \E j \in LastOf(Until(All("sensor"), i)) : j \in SaidOf("sensor", name, s)
  <2>1. Until(All("sensor")', i) = Until(All("sensor"), i)
    BY AllGrows DEF Until, Grows
  <2>2. \A j \in DOMAIN calls : j \in SaidOf("sensor", name, s)' <=> j \in SaidOf("sensor", name, s)
    <3>1. Now \notin DOMAIN calls /\ \A j \in DOMAIN calls : calls'[j] = calls[j]
      BY DEF Grows
    <3>2. \A j \in DOMAIN calls : j \in Said("sensor", name)' <=> j \in Said("sensor", name)
      BY <3>1, SaidGrows
    <3> QED  BY <3>1, <3>2 DEF SaidOf
  <2>3. \A j \in LastOf(Until(All("sensor"), i)) : j \in DOMAIN calls
    BY DEF LastOf, Until, All
  <2> QED  BY <2>1, <2>2, <2>3
<1>2. (\E j \in LastOf(Until(All("sensor")', Now)) : j \in SaidOf("sensor", name, s)')
        <=> SensorNamed(name, s)'
  <2>1. Until(All("sensor")', Now) = All("sensor")'
    BY AllGrows DEF Until, All, Grows
  <2> QED  BY <2>1 DEF SensorNamed
<1>3. All("types")' = IF method = "types" THEN All("types") \cup {Now} ELSE All("types")
  BY AllGrows
<1>4. All("types") \subseteq DOMAIN calls
  BY DEF All
<1> QED  BY <1>1, <1>2, <1>3, <1>4 DEF SaidTypes

(* The lists of a robot.                                                   *)
RobotField == Assigned \cup Appended

(* A robot's lists hold what was said of it, all or the last of it.        *)
ListsAgree(name) ==
  /\ \A field \in Appended : InOrder(message[name].lists[field], Said(field, name))
  /\ \A field \in Assigned : InOrder(message[name].lists[field], LastOf(Said(field, name)))

(* Its control events are those that were said, with the last value of     *)
(* each.                                                                   *)
EventsAgree(name) ==
  /\ DOMAIN message[name].events = {calls[i].arg : i \in Said("event", name)}
  /\ \A event \in DOMAIN message[name].events :
       {message[name].events[event]} = LastOf(SaidOf("event", name, event))

(* Its sensors are those that were said, with the types of each in order.  *)
TypesAgree(name) ==
  /\ DOMAIN message[name].sensors = {calls[i].arg : i \in Said("sensor", name)}
  /\ \A s \in DOMAIN message[name].sensors :
       InOrder(message[name].sensors[s], SaidTypes(name, s))

(* The pointer m_curr_sensor is at the sensor named last.                  *)
SensorFollows(pointer) ==
  /\ \A t \in pointer : t = [object |-> t.object, name |-> t.name]
  /\ \A name, s : SensorNamed(name, s) <=> [object |-> name, name |-> s] \in pointer

(* The fields of the whole scene hold what was said last.                  *)
SceneAgrees == \A field \in Scene : {scene[field]} = LastOf({0} \cup All(field))

(* All of this, and who has a pointer to an interface has named what its   *)
(* methods write to.                                                       *)
HandshakeAgrees ==
  /\ Follows
  /\ SensorFollows(currTypes)
  /\ "AddRobotBuilder" \in held => current # {}
  /\ "AddHandshakeSensorBuilder" \in held => current # {} /\ currTypes # {}
  /\ SceneAgrees
  /\ \A name \in DOMAIN message : ListsAgree(name) /\ EventsAgree(name) /\ TypesAgree(name)

(* The inductive invariant of HandshakeMessage's builder.                  *)
HandshakeInv ==
  /\ HandshakeTypeOK /\ History
  /\ HandshakeTypesKeepFromCrashing
  /\ status \in {"built", "hollow"} => All("build") # {}
  /\ Live => HandshakeAgrees

(* A new builder has nothing said and nothing in its message.              *)
LEMMA HandshakeInvInit == HandshakeInit => HandshakeInv
<1> SUFFICES ASSUME HandshakeInit PROVE HandshakeInv
  OBVIOUS
<1> USE DEF HandshakeInit, Fresh, handshakeBuilder
<1>1. HandshakeTypeOK
  BY MaxCallsAssumption DEF HandshakeTypeOK, HandshakeInterface, EmptyMap, Status, objects
<1>2. \A method : All(method) = {}
  BY DEF All
<1>3. Follows
  BY <1>2 DEF Follows, Named, LastOf, EmptyMap, Said
<1>4. SensorFollows(currTypes)
  BY <1>2 DEF SensorFollows, SensorNamed, LastOf
<1>5. LastOf({0}) = {0}
  BY DEF LastOf
<1>6. SceneAgrees
  BY <1>2, <1>5 DEF SceneAgrees
<1> QED  BY <1>1, <1>3, <1>4, <1>6
         DEF HandshakeInv, HandshakeAgrees, History, HandshakeTypesKeepFromCrashing, EmptyMap

(* A call that crashes came after build().                                 *)
LEMMA HandshakeCrashStep ==
  ASSUME HandshakeInv, NEW method, NEW arg, Called(method, arg), Crash,
         held' \subseteq HandshakeInterface, UNCHANGED <<currTypes, scene>>, status = "built"
  PROVE  HandshakeInv'
<1>1. History' /\ Grows(method, arg)
  BY HistoryGrows DEF HandshakeInv
<1>2. All("build")' # {}
  BY <1>1, AllGrows DEF HandshakeInv
<1>3. HandshakeTypeOK'
  BY DEF HandshakeInv, HandshakeTypeOK, Crash, Status, objects
<1> QED  BY <1>1, <1>2, <1>3 DEF HandshakeInv, HandshakeTypesKeepFromCrashing, Live, Crash

(* A robot's lists agree as before if they are not written to.             *)
LEMMA ListsFrame ==
  ASSUME NEW method, NEW arg, Grows(method, arg), NEW name,
         message'[name].lists = message[name].lists, ListsAgree(name),
         name \notin Named' \/ method \notin RobotField
  PROVE  ListsAgree(name)'
<1>1. \A field \in RobotField : Said(field, name)' = Said(field, name)
  BY SaidStays
<1> QED  BY <1>1 DEF ListsAgree, RobotField

(* So do its control events.                                               *)
LEMMA EventsFrame ==
  ASSUME NEW method, NEW arg, Grows(method, arg), NEW name,
         message'[name].events = message[name].events, EventsAgree(name),
         name \notin Named' \/ method # "event"
  PROVE  EventsAgree(name)'
<1>1. /\ Said("event", name)' = Said("event", name)
      /\ \A i \in Said("event", name) : calls'[i] = calls[i]
  BY SaidStays
<1>2. \A event : SaidOf("event", name, event)' = SaidOf("event", name, event)
  BY <1>1 DEF SaidOf
<1> QED  BY <1>1, <1>2 DEF EventsAgree

(* So do its sensors.                                                      *)
LEMMA TypesFrame ==
  ASSUME NEW method, NEW arg, Grows(method, arg), NEW name,
         message'[name].sensors = message[name].sensors, TypesAgree(name),
         name \notin Named' \/ method # "sensor",
         method = "types" => \A s : ~ SensorNamed(name, s)'
  PROVE  TypesAgree(name)'
<1>1. /\ Said("sensor", name)' = Said("sensor", name)
      /\ \A i \in Said("sensor", name) : calls'[i] = calls[i]
  BY SaidStays
<1>2. \A s : SaidTypes(name, s)' = SaidTypes(name, s)
  BY SaidTypesGrows
<1> QED  BY <1>1, <1>2 DEF TypesAgree

(* The sensor named last stays that while none is named.                   *)
LEMMA SensorFollowsFrame ==
  ASSUME NEW method, NEW arg, Grows(method, arg), method # "sensor",
         SensorFollows(currTypes), UNCHANGED currTypes
  PROVE  SensorFollows(currTypes)'
<1>1. \A name, s : SensorNamed(name, s)' <=> SensorNamed(name, s)
  BY SensorNamedGrows
<1> QED  BY <1>1 DEF SensorFollows

(* The scene's fields agree as before if they are not written to.          *)
LEMMA SceneFrame ==
  ASSUME NEW method, NEW arg, Grows(method, arg), method \notin Scene, SceneAgrees, UNCHANGED scene
  PROVE  SceneAgrees'
<1>1. \A field \in Scene : All(field)' = All(field)
  BY AllGrows
<1> QED  BY <1>1 DEF SceneAgrees

(* withSimulationSettings() and withControlType() keep the invariant.      *)
LEMMA WithSceneStep ==
  ASSUME HandshakeInv, NEW field \in Scene, withScene(field)
  PROVE  HandshakeInv'
<1>1. History' /\ Grows(field, "")
  BY HistoryGrows DEF HandshakeInv, withScene
<1>2. /\ UNCHANGED held /\ held \subseteq HandshakeInterface
      /\ Live /\ Len(calls) < MaxCalls /\ Called(field, "")
  BY DEF withScene, May, Live, HandshakeInv, HandshakeTypeOK
<1>3. CASE status # "building"
  BY <1>2, <1>3, HandshakeCrashStep DEF withScene, Live
<1>4. CASE status = "building"
  <2>1. scene' = [scene EXCEPT ![field] = Now] /\ UNCHANGED <<current, currTypes, message, status>>
    BY <1>4 DEF withScene
  <2>2. field \notin RobotField \cup {"object", "event", "sensor", "types"}
    BY DEF Scene, RobotField, Assigned, Appended
  <2>3. HandshakeAgrees
    BY <1>2 DEF HandshakeInv
  <2>4. Follows'
    BY <1>1, <2>1, <2>2, <2>3, FollowsStep DEF HandshakeAgrees, HandshakeInv, HandshakeTypeOK, objects
  <2>5. SensorFollows(currTypes)'
    BY <1>1, <2>1, <2>2, <2>3, SensorFollowsFrame DEF HandshakeAgrees
  <2>6. ASSUME NEW n \in DOMAIN message PROVE ListsAgree(n)' /\ EventsAgree(n)' /\ TypesAgree(n)'
    <3>1. ListsAgree(n) /\ EventsAgree(n) /\ TypesAgree(n) /\ message'[n] = message[n]
      BY <2>1, <2>3 DEF HandshakeAgrees
    <3> QED  BY <1>1, <2>2, <3>1, ListsFrame, EventsFrame, TypesFrame
  <2>7. Now \in 0..MaxCalls /\ Now \in Nat /\ 0 < Now
    <3>1. Now \in 1..MaxCalls
      BY <1>1, <1>2 DEF Grows
    <3> QED  BY <3>1, MaxCallsAssumption
  <2>8. SceneAgrees'
    <3>1. ASSUME NEW f \in Scene PROVE {scene'[f]} = LastOf({0} \cup All(f)')
      <4>1. CASE f = field
        <5>1. LastOf({0} \cup All(f)') = {Now}
          BY <1>1, <4>1, AllAdds
        <5>2. scene'[f] = Now
          BY <2>1, <4>1 DEF HandshakeInv, HandshakeTypeOK
        <5> QED  BY <5>1, <5>2
      <4>2. CASE f # field
        <5>1. All(f)' = All(f)
          BY <1>1, <4>2, AllGrows
        <5> QED  BY <2>1, <2>3, <4>2, <5>1 DEF HandshakeAgrees, SceneAgrees, HandshakeInv, HandshakeTypeOK
      <4> QED  BY <4>1, <4>2
    <3> QED  BY <3>1 DEF SceneAgrees
  <2>9. HandshakeTypeOK'
    BY <1>2, <2>1, <2>7 DEF HandshakeInv, HandshakeTypeOK, objects
  <2> QED  BY <1>1, <1>2, <1>4, <2>1, <2>3, <2>4, <2>5, <2>6, <2>8, <2>9
           DEF HandshakeInv, HandshakeAgrees, HandshakeTypesKeepFromCrashing
<1> QED  BY <1>3, <1>4

(* withRobot() keeps the invariant: it moves currObject and leaves         *)
(* m_curr_sensor where it was.                                             *)
LEMMA WithRobotStep ==
  ASSUME HandshakeInv, NEW name \in Object, withRobot(name)
  PROVE  HandshakeInv'
<1>1. History' /\ Grows("object", name)
  BY HistoryGrows DEF HandshakeInv, withRobot
<1>2. held' \subseteq HandshakeInterface /\ Live /\ Called("object", name) /\ UNCHANGED <<currTypes, scene>>
  BY DEF withRobot, May, Get, Live, HandshakeInv, HandshakeTypeOK, HandshakeInterface
<1>3. CASE status # "building"
  BY <1>2, <1>3, HandshakeCrashStep DEF withRobot, Name, Live
<1>4. CASE status = "building"
  <2>1. /\ status' = "building" /\ current' = {name}
        /\ DOMAIN message' = DOMAIN message \cup {name}
        /\ \A n \in DOMAIN message : message'[n] = message[n]
        /\ name \notin DOMAIN message => message'[name] = NewRobot
    BY <1>4 DEF withRobot, Name, Allocate, Put
  <2>2. HandshakeAgrees
    BY <1>2 DEF HandshakeInv
  <2>3. Follows'
    BY <1>1, <2>1, <2>2, FollowsStep DEF HandshakeAgrees, HandshakeInv, HandshakeTypeOK, objects
  <2>4. SensorFollows(currTypes)'
    BY <1>1, <1>2, <2>2, SensorFollowsFrame DEF HandshakeAgrees
  <2>5. SceneAgrees'
    BY <1>1, <1>2, <2>2, SceneFrame DEF HandshakeAgrees, Scene
  <2>6. HandshakeTypeOK'
    <3>1. NewRobot \in HandshakeContent({}, {})
      BY DEF NewRobot, HandshakeContent, EmptyMap
    <3>2. \A n \in DOMAIN message' : \E events \in SUBSET RobotEvent, names \in SUBSET RobotSensor :
             message'[n] \in HandshakeContent(events, names)
      BY <2>1, <3>1 DEF HandshakeInv, HandshakeTypeOK, objects
    <3> QED  BY <1>2, <2>1, <3>2 DEF HandshakeInv, HandshakeTypeOK, objects, Status
  <2>7. ASSUME NEW n \in DOMAIN message' PROVE ListsAgree(n)' /\ EventsAgree(n)' /\ TypesAgree(n)'
    <3>1. "object" \notin RobotField \cup {"event", "sensor", "types"}
      BY DEF RobotField, Assigned, Appended
    <3>2. CASE n \in DOMAIN message
      <4>1. ListsAgree(n) /\ EventsAgree(n) /\ TypesAgree(n) /\ message'[n] = message[n]
        BY <2>1, <2>2, <3>2 DEF HandshakeAgrees
      <4> QED  BY <1>1, <3>1, <4>1, ListsFrame, EventsFrame, TypesFrame
    <3>3. CASE n \notin DOMAIN message
      <4>1. n = name /\ \A x : Said(x, n) = {}
        BY <2>1, <2>2, <3>3 DEF HandshakeAgrees, Follows
      <4>2. \A x : x # "object" => Said(x, n)' = {}
        BY <1>1, <4>1, SaidStays
      <4>3. /\ \A f \in RobotField : message'[n].lists[f] = <<>>
            /\ DOMAIN message'[n].events = {} /\ DOMAIN message'[n].sensors = {}
        BY <2>1, <3>3, <4>1 DEF NewRobot, EmptyMap, RobotField
      <4>4. LastOf({}) = {}
        BY DEF LastOf
      <4>5. ListsAgree(n)'
        BY <3>1, <4>2, <4>3, <4>4, InOrderNone DEF ListsAgree, RobotField
      <4>6. EventsAgree(n)' /\ TypesAgree(n)'
        BY <4>2, <4>3 DEF EventsAgree, TypesAgree
      <4> QED  BY <4>5, <4>6
    <3> QED  BY <3>2, <3>3
  <2>8. /\ current' # {}
        /\ "AddHandshakeSensorBuilder" \in held' => currTypes' # {}
    BY <1>2, <2>1, <2>2 DEF HandshakeAgrees, withRobot, Get
  <2> QED  BY <1>1, <2>1, <2>3, <2>4, <2>5, <2>6, <2>7, <2>8
           DEF HandshakeInv, HandshakeAgrees, HandshakeTypesKeepFromCrashing
<1> QED  BY <1>3, <1>4

(* What a write to one robot has to keep of it, so that the invariant      *)
(* holds: the other robots and the scene are as they were.                 *)
LEMMA HandshakeWriteStep ==
  ASSUME HandshakeInv, Live, NEW method, NEW arg, History', Grows(method, arg),
         method \notin Scene \cup {"object", "build"},
         NEW n \in DOMAIN message, DOMAIN message' = DOMAIN message,
         \A x \in DOMAIN message : x # n => message'[x] = message[x],
         \E events \in SUBSET RobotEvent, names \in SUBSET RobotSensor :
           message'[n] \in HandshakeContent(events, names),
         UNCHANGED <<current, status, scene>>,
         method = "types" \/ \A x : x \in Named' => x = n,
         method = "types" => \A x, s : SensorNamed(x, s)' => x = n,
         held' \subseteq HandshakeInterface,
         "AddRobotBuilder" \in held' => current # {},
         "AddHandshakeSensorBuilder" \in held' => current # {} /\ currTypes' # {},
         \A t \in currTypes' : t.object \in DOMAIN message' /\ t.name \in DOMAIN message'[t.object].sensors,
         \A a, b \in currTypes' : a = b,
         SensorFollows(currTypes)',
         ListsAgree(n)', EventsAgree(n)', TypesAgree(n)'
  PROVE  HandshakeInv'
<1>1. HandshakeAgrees
  BY DEF HandshakeInv
<1>2. Follows'
  BY <1>1, FollowsStep DEF HandshakeAgrees, HandshakeInv, HandshakeTypeOK, objects
<1>3. SceneAgrees'
  BY <1>1, SceneFrame DEF HandshakeAgrees
<1>4. HandshakeTypeOK'
  BY DEF HandshakeInv, HandshakeTypeOK, objects
<1>5. ASSUME NEW x \in DOMAIN message' PROVE ListsAgree(x)' /\ EventsAgree(x)' /\ TypesAgree(x)'
  <2>1. CASE x = n
    BY <2>1
  <2>2. CASE x # n
    <3>1. ListsAgree(x) /\ EventsAgree(x) /\ TypesAgree(x) /\ message'[x] = message[x]
      BY <1>1, <2>2 DEF HandshakeAgrees
    <3>2. "types" \notin RobotField
      BY DEF RobotField, Assigned, Appended
    <3>3. ListsAgree(x)' /\ EventsAgree(x)'
      BY <2>2, <3>1, <3>2, ListsFrame, EventsFrame
    <3>4. TypesAgree(x)'
      BY <2>2, <3>1, TypesFrame
    <3> QED  BY <3>3, <3>4
  <2> QED  BY <2>1, <2>2
<1>6. status' \in {"built", "hollow"} => All("build")' # {}
  BY AllGrows DEF HandshakeInv
<1> QED  BY <1>1, <1>2, <1>3, <1>4, <1>5, <1>6
         DEF HandshakeInv, HandshakeAgrees, HandshakeTypesKeepFromCrashing, Live

(* withControlsInOrder() and the other lists keep the invariant.           *)
LEMMA WithListStep ==
  ASSUME HandshakeInv, NEW field \in Assigned \cup Appended, withList(field)
  PROVE  HandshakeInv'
<1>1. History' /\ Grows(field, "") /\ field \in RobotField
  BY HistoryGrows DEF HandshakeInv, withList, RobotField
<1>2. /\ UNCHANGED <<held, currTypes, scene>> /\ held \subseteq HandshakeInterface
      /\ Live /\ Len(calls) < MaxCalls /\ Called(field, "") /\ "AddRobotBuilder" \in held
  BY DEF withList, May, Live, HandshakeInv, HandshakeTypeOK
<1>3. HandshakeAgrees /\ current # {}
  BY <1>2 DEF HandshakeInv, HandshakeAgrees
<1>4. CASE status = "built" /\ Crash
  BY <1>2, <1>4, HandshakeCrashStep
<1>5. ASSUME NEW n \in current,
             message' = [message EXCEPT ![n] =
                           [message[n] EXCEPT !.lists =
                              Put(message[n].lists, field,
                                  IF field \in Assigned THEN <<Now>>
                                  ELSE Append(message[n].lists[field], Now))]],
             UNCHANGED <<current, status>>
      PROVE  HandshakeInv'
  <2> DEFINE lists == message[n].lists
             list == IF field \in Assigned THEN <<Now>> ELSE Append(lists[field], Now)
             robot == [message[n] EXCEPT !.lists = Put(lists, field, list)]
  <2>1. n \in DOMAIN message
    BY DEF HandshakeInv, HandshakeTypeOK, objects
  <2>2. PICK events \in SUBSET RobotEvent, names \in SUBSET RobotSensor :
          message[n] \in HandshakeContent(events, names)
    BY <2>1 DEF HandshakeInv, HandshakeTypeOK, objects
  <2>3. Now \in 1..MaxCalls
    BY <1>1, <1>2 DEF Grows
  <2>4. lists \in [RobotField -> Seq(1..MaxCalls)]
    BY <2>2 DEF HandshakeContent, RobotField
  <2>5. list \in Seq(1..MaxCalls)
    <3>1. \A T : \A x \in T : \A q \in Seq(T) : <<x>> \in Seq(T) /\ Append(q, x) \in Seq(T)
      OBVIOUS
    <3>2. lists[field] \in Seq(1..MaxCalls)
      BY <1>1, <2>4
    <3> QED  BY <2>3, <3>1, <3>2
  <2> HIDE DEF list
  <2>6. Put(lists, field, list) \in [RobotField -> Seq(1..MaxCalls)]
    BY <1>1, <2>4, <2>5 DEF Put
  <2>7. /\ robot \in HandshakeContent(events, names) /\ robot.lists = Put(lists, field, list)
        /\ robot.events = message[n].events /\ robot.sensors = message[n].sensors
    BY <2>2, <2>6 DEF HandshakeContent, RobotField
  <2>8. message' = [message EXCEPT ![n] = robot]
    BY <1>5 DEF list
  <2> HIDE DEF robot
  <2>9. /\ DOMAIN message' = DOMAIN message /\ message'[n] = robot
        /\ \A x \in DOMAIN message : x # n => message'[x] = message[x]
    BY <2>1, <2>8
  <2>20. \E e \in SUBSET RobotEvent, s \in SUBSET RobotSensor : message'[n] \in HandshakeContent(e, s)
    BY <2>7, <2>9
  <2>10. \A x : x \in Named' <=> x = n
    BY <1>1, <1>3, <1>5, NamedGrows DEF HandshakeAgrees, Follows, HandshakeInv, HandshakeTypeOK,
                                        RobotField, Assigned, Appended
  <2>11. field \notin Scene \cup {"object", "build", "event", "sensor", "types"}
    BY <1>1 DEF Scene, RobotField, Assigned, Appended
  <2>12. ListsAgree(n) /\ EventsAgree(n) /\ TypesAgree(n)
    BY <1>3, <2>1 DEF HandshakeAgrees
  <2>13. EventsAgree(n)' /\ TypesAgree(n)'
    BY <1>1, <2>7, <2>9, <2>11, <2>12, EventsFrame, TypesFrame
  <2>14. ASSUME NEW f \in RobotField
         PROVE  /\ f \in Appended => InOrder(message'[n].lists[f], Said(f, n)')
                /\ f \in Assigned => InOrder(message'[n].lists[f], LastOf(Said(f, n)'))
    <3>1. CASE f = field
      <4>1. /\ Said(f, n)' = Said(f, n) \cup {Now} /\ LastOf(Said(f, n)') = {Now}
            /\ \A i \in Said(f, n) : i \in Nat /\ i < Now
        <5>1. n \in Named'
          BY <2>10
        <5> QED  BY <1>1, <3>1, <5>1, SaidAdds
      <4>2. message'[n].lists[f] = list
        BY <2>7, <2>9, <3>1 DEF Put
      <4>3. CASE f \in Assigned
        <5>1. list = <<Now>> /\ Now \in Nat /\ f \notin Appended
          BY <1>1, <3>1, <4>3 DEF list, Assigned, Appended, Grows
        <5> QED  BY <4>1, <4>2, <5>1, InOrderOne
      <4>4. CASE f \notin Assigned
        <5>1. list = Append(lists[f], Now) /\ Now \in Nat /\ lists[f] \in Seq(1..MaxCalls)
          BY <1>1, <2>4, <3>1, <4>4 DEF list, Grows
        <5>2. InOrder(lists[f], Said(f, n))
          BY <2>12, <4>4 DEF ListsAgree, RobotField
        <5> QED  BY <4>1, <4>2, <4>4, <5>1, <5>2, InOrderAppend
      <4> QED  BY <4>3, <4>4
    <3>2. CASE f # field
      <4>1. Said(f, n)' = Said(f, n)
        BY <1>1, <3>2, SaidStays
      <4>2. message'[n].lists[f] = lists[f]
        BY <2>4, <2>7, <2>9, <3>2 DEF Put
      <4> QED  BY <2>12, <4>1, <4>2 DEF ListsAgree
    <3> QED  BY <3>1, <3>2
  <2>15. ListsAgree(n)'
    BY <2>14 DEF ListsAgree, RobotField
  <2>16. SensorFollows(currTypes)'
    BY <1>1, <1>2, <1>3, <2>11, SensorFollowsFrame DEF HandshakeAgrees
  <2>17. \A t \in currTypes' : t.object \in DOMAIN message' /\ t.name \in DOMAIN message'[t.object].sensors
    BY <1>2, <2>7, <2>9 DEF HandshakeInv, HandshakeTypeOK, objects
  <2>18. \A a, b \in currTypes' : a = b
    BY <1>2 DEF HandshakeInv, HandshakeTypeOK
  <2>19. /\ "AddRobotBuilder" \in held' => current # {}
         /\ "AddHandshakeSensorBuilder" \in held' => current # {} /\ currTypes' # {}
    BY <1>2, <1>3 DEF HandshakeAgrees
  <2>21. /\ History' /\ Grows(field, "") /\ Live
         /\ field \notin Scene \cup {"object", "build"}
         /\ field = "types" \/ \A x : x \in Named' => x = n
         /\ field = "types" => \A x, s : SensorNamed(x, s)' => x = n
         /\ DOMAIN message' = DOMAIN message
         /\ \A x \in DOMAIN message : x # n => message'[x] = message[x]
         /\ UNCHANGED <<current, status, scene>> /\ held' \subseteq HandshakeInterface
    BY <1>1, <1>2, <1>5, <2>9, <2>10, <2>11
  <2> QED  BY <2>1, <2>13, <2>15, <2>16, <2>17, <2>18, <2>19, <2>20, <2>21, HandshakeWriteStep
<1> QED  BY <1>2, <1>3, <1>4, <1>5 DEF withList, Write, Update

(* withControlEvent() keeps the invariant.                                 *)
LEMMA WithRobotEventStep ==
  ASSUME HandshakeInv, NEW event \in RobotEvent, withRobotEvent(event)
  PROVE  HandshakeInv'
<1>1. History' /\ Grows("event", event)
  BY HistoryGrows DEF HandshakeInv, withRobotEvent
<1>2. /\ UNCHANGED <<held, currTypes, scene>> /\ held \subseteq HandshakeInterface
      /\ Live /\ Len(calls) < MaxCalls /\ Called("event", event) /\ "AddRobotBuilder" \in held
  BY DEF withRobotEvent, May, Live, HandshakeInv, HandshakeTypeOK
<1>3. HandshakeAgrees /\ current # {}
  BY <1>2 DEF HandshakeInv, HandshakeAgrees
<1>4. CASE status = "built" /\ Crash
  BY <1>2, <1>4, HandshakeCrashStep
<1>5. ASSUME NEW n \in current,
             message' = [message EXCEPT ![n] =
                           [message[n] EXCEPT !.events = Put(message[n].events, event, Now)]],
             UNCHANGED <<current, status>>
      PROVE  HandshakeInv'
  <2> DEFINE known == message[n].events
             robot == [message[n] EXCEPT !.events = Put(known, event, Now)]
  <2>1. n \in DOMAIN message
    BY DEF HandshakeInv, HandshakeTypeOK, objects
  <2>2. PICK events \in SUBSET RobotEvent, names \in SUBSET RobotSensor :
          message[n] \in HandshakeContent(events, names)
    BY <2>1 DEF HandshakeInv, HandshakeTypeOK, objects
  <2>3. Now \in 1..MaxCalls
    BY <1>1, <1>2 DEF Grows
  <2>4. known \in [events -> 1..MaxCalls]
    BY <2>2 DEF HandshakeContent
  <2>5. Put(known, event, Now) \in [events \cup {event} -> 1..MaxCalls]
    BY <2>3, <2>4 DEF Put
  <2>6. /\ robot \in HandshakeContent(events \cup {event}, names) /\ robot.events = Put(known, event, Now)
        /\ robot.lists = message[n].lists /\ robot.sensors = message[n].sensors
    BY <2>2, <2>5 DEF HandshakeContent
  <2>7. events \cup {event} \in SUBSET RobotEvent
    OBVIOUS
  <2> HIDE DEF robot
  <2>8. /\ DOMAIN message' = DOMAIN message /\ message'[n] = robot
        /\ \A x \in DOMAIN message : x # n => message'[x] = message[x]
    BY <1>5, <2>1 DEF robot
  <2>9. \A x : x \in Named' <=> x = n
    BY <1>1, <1>3, <1>5, NamedGrows DEF HandshakeAgrees, Follows, HandshakeInv, HandshakeTypeOK
  <2>10. "event" \notin Scene \cup {"object", "build", "sensor", "types"} \cup RobotField
    BY DEF Scene, RobotField, Assigned, Appended
  <2>11. ListsAgree(n) /\ EventsAgree(n) /\ TypesAgree(n)
    BY <1>3, <2>1 DEF HandshakeAgrees
  <2>12. ListsAgree(n)' /\ TypesAgree(n)'
    BY <1>1, <2>6, <2>8, <2>10, <2>11, ListsFrame, TypesFrame
  <2>13. EventsAgree(n)'
    <3>1. /\ {calls'[i].arg : i \in Said("event", n)'} = {calls[i].arg : i \in Said("event", n)} \cup {event}
          /\ LastOf(SaidOf("event", n, event)') = {Now}
          /\ \A v : v # event => SaidOf("event", n, v)' = SaidOf("event", n, v)
      <4>1. n \in Named'
        BY <2>9
      <4> QED  BY <1>1, <4>1, SaidOfAdds
    <3>2. /\ DOMAIN message'[n].events = DOMAIN known \cup {event}
          /\ message'[n].events[event] = Now
          /\ \A v \in DOMAIN known : v # event => message'[n].events[v] = known[v]
      BY <2>6, <2>8 DEF Put
    <3> QED  BY <2>11, <3>1, <3>2 DEF EventsAgree
  <2>14. SensorFollows(currTypes)'
    BY <1>1, <1>2, <1>3, <2>10, SensorFollowsFrame DEF HandshakeAgrees
  <2>15. \A t \in currTypes' : t.object \in DOMAIN message' /\ t.name \in DOMAIN message'[t.object].sensors
    BY <1>2, <2>6, <2>8 DEF HandshakeInv, HandshakeTypeOK, objects
  <2>16. \A a, b \in currTypes' : a = b
    BY <1>2 DEF HandshakeInv, HandshakeTypeOK
  <2>17. /\ "AddRobotBuilder" \in held' => current # {}
         /\ "AddHandshakeSensorBuilder" \in held' => current # {} /\ currTypes' # {}
    BY <1>2, <1>3 DEF HandshakeAgrees
  <2>18. \E e \in SUBSET RobotEvent, s \in SUBSET RobotSensor : message'[n] \in HandshakeContent(e, s)
    BY <2>6, <2>7, <2>8
  <2> QED  BY <1>1, <1>2, <1>5, <2>1, <2>8, <2>9, <2>10, <2>12, <2>13, <2>14, <2>15, <2>16, <2>17,
              <2>18, HandshakeWriteStep
<1> QED  BY <1>2, <1>3, <1>4, <1>5 DEF withRobotEvent, Write, Update

(* withSensor() keeps the invariant: a sensor that is there keeps its      *)
(* types.                                                                  *)
LEMMA WithRobotSensorStep ==
  ASSUME HandshakeInv, NEW name \in RobotSensor, withRobotSensor(name)
  PROVE  HandshakeInv'
<1>1. History' /\ Grows("sensor", name)
  BY HistoryGrows DEF HandshakeInv, withRobotSensor
<1>2. /\ held' = held \cup {"AddHandshakeSensorBuilder"} /\ held' \subseteq HandshakeInterface
      /\ UNCHANGED scene /\ Live /\ Called("sensor", name) /\ "AddRobotBuilder" \in held
      /\ currTypes' = IF status' = "crashed" THEN currTypes
                      ELSE {[object |-> r, name |-> name] : r \in current}
  BY DEF withRobotSensor, May, Get, Live, HandshakeInv, HandshakeTypeOK, HandshakeInterface
<1>3. HandshakeAgrees /\ current # {}
  BY <1>2 DEF HandshakeInv, HandshakeAgrees
<1>4. CASE status = "built" /\ Crash
  BY <1>2, <1>4, HandshakeCrashStep DEF Crash
<1>5. ASSUME NEW n \in current,
             message' = [message EXCEPT ![n] =
                           [message[n] EXCEPT !.sensors = Allocate(message[n].sensors, name, <<>>)]],
             UNCHANGED <<current, status>>
      PROVE  HandshakeInv'
  <2> DEFINE known == message[n].sensors
             robot == [message[n] EXCEPT !.sensors = Allocate(known, name, <<>>)]
  <2>1. n \in DOMAIN message
    BY DEF HandshakeInv, HandshakeTypeOK, objects
  <2>2. PICK events \in SUBSET RobotEvent, names \in SUBSET RobotSensor :
          message[n] \in HandshakeContent(events, names)
    BY <2>1 DEF HandshakeInv, HandshakeTypeOK, objects
  <2>3. known \in [names -> Seq(1..MaxCalls)]
    BY <2>2 DEF HandshakeContent
  <2>4. Allocate(known, name, <<>>) \in [names \cup {name} -> Seq(1..MaxCalls)]
    <3>1. <<>> \in Seq(1..MaxCalls)
      OBVIOUS
    <3>2. CASE name \in DOMAIN known
      <4>1. names \cup {name} = names
        BY <2>3, <3>2
      <4> QED  BY <2>3, <3>2, <4>1 DEF Allocate
    <3>3. CASE name \notin DOMAIN known
      BY <2>3, <3>1, <3>3 DEF Allocate, Put
    <3> QED  BY <3>2, <3>3
  <2>5. /\ robot \in HandshakeContent(events, names \cup {name})
        /\ robot.sensors = Allocate(known, name, <<>>)
        /\ robot.lists = message[n].lists /\ robot.events = message[n].events
    BY <2>2, <2>4 DEF HandshakeContent
  <2>6. names \cup {name} \in SUBSET RobotSensor
    OBVIOUS
  <2> HIDE DEF robot
  <2>7. /\ DOMAIN message' = DOMAIN message /\ message'[n] = robot
        /\ \A x \in DOMAIN message : x # n => message'[x] = message[x]
    BY <1>5, <2>1 DEF robot
  <2>8. \A x : x \in Named' <=> x = n
    BY <1>1, <1>3, <1>5, NamedGrows DEF HandshakeAgrees, Follows, HandshakeInv, HandshakeTypeOK
  <2>9. "sensor" \notin Scene \cup {"object", "build", "event", "types"} \cup RobotField
    BY DEF Scene, RobotField, Assigned, Appended
  <2>10. ListsAgree(n) /\ EventsAgree(n) /\ TypesAgree(n)
    BY <1>3, <2>1 DEF HandshakeAgrees
  <2>11. ListsAgree(n)' /\ EventsAgree(n)'
    BY <1>1, <2>5, <2>7, <2>9, <2>10, ListsFrame, EventsFrame
  <2>12. TypesAgree(n)'
    <3>1. {calls'[i].arg : i \in Said("sensor", n)'} = {calls[i].arg : i \in Said("sensor", n)} \cup {name}
      <4>1. n \in Named'
        BY <2>8
      <4> QED  BY <1>1, <4>1, SaidOfAdds
    <3>2. \A s : SaidTypes(n, s)' = SaidTypes(n, s)
      BY <1>1, SaidTypesGrows
    <3>3. DOMAIN message'[n].sensors = DOMAIN known \cup {name}
      BY <2>5, <2>7 DEF Allocate, Put
    <3>4. ASSUME NEW s \in DOMAIN message'[n].sensors
          PROVE  InOrder(message'[n].sensors[s], SaidTypes(n, s)')
      <4>1. CASE s \in DOMAIN known
        <5>1. message'[n].sensors[s] = known[s]
          BY <2>5, <2>7, <4>1 DEF Allocate, Put
        <5> QED  BY <2>10, <3>2, <4>1, <5>1 DEF TypesAgree
      <4>2. CASE s \notin DOMAIN known
        <5>1. message'[n].sensors[s] = <<>>
          BY <2>5, <2>7, <3>3, <4>2 DEF Allocate, Put
        <5>2. SaidTypes(n, s) = {}
          BY <2>10, <4>2 DEF TypesAgree, SaidTypes, SaidOf
        <5> QED  BY <3>2, <5>1, <5>2, InOrderNone
      <4> QED  BY <4>1, <4>2
    <3> QED  BY <2>10, <3>1, <3>3, <3>4 DEF TypesAgree
  <2>13. currTypes' = {[object |-> n, name |-> name]}
    <3>1. current = {n}
      BY DEF HandshakeInv, HandshakeTypeOK
    <3>2. status' # "crashed"
      BY <1>2, <1>5 DEF Live
    <3> QED  BY <1>2, <3>1, <3>2
  <2>14. SensorFollows(currTypes)'
    <3>1. \A x, s : SensorNamed(x, s)' <=> name = s /\ x = n
      BY <1>1, <2>8, SensorNamedGrows
    <3> QED  BY <2>13, <3>1 DEF SensorFollows
  <2>15. \A t \in currTypes' : t.object \in DOMAIN message' /\ t.name \in DOMAIN message'[t.object].sensors
    BY <2>1, <2>5, <2>7, <2>13 DEF Allocate, Put
  <2>16. (\A a, b \in currTypes' : a = b) /\ currTypes' # {}
    BY <2>13
  <2>17. \E e \in SUBSET RobotEvent, s \in SUBSET RobotSensor : message'[n] \in HandshakeContent(e, s)
    BY <2>5, <2>6, <2>7
  <2>18. /\ History' /\ Grows("sensor", name) /\ Live
         /\ "sensor" \notin Scene \cup {"object", "build"}
         /\ "sensor" = "types" \/ \A x : x \in Named' => x = n
         /\ "sensor" = "types" => \A x, s : SensorNamed(x, s)' => x = n
         /\ DOMAIN message' = DOMAIN message
         /\ \A x \in DOMAIN message : x # n => message'[x] = message[x]
         /\ UNCHANGED <<current, status, scene>> /\ held' \subseteq HandshakeInterface
         /\ current # {}
    BY <1>1, <1>2, <1>3, <1>5, <2>7, <2>8, <2>9
  <2> QED  BY <2>1, <2>11, <2>12, <2>14, <2>15, <2>16, <2>17, <2>18, HandshakeWriteStep
<1> QED  BY <1>2, <1>3, <1>4, <1>5 DEF withRobotSensor, Write, Update

(* withTypesInOrder() keeps the invariant, also when the sensor is not of  *)
(* the robot named last.                                                   *)
LEMMA WithTypesStep ==
  ASSUME HandshakeInv, withTypesInOrder
  PROVE  HandshakeInv'
<1>1. History' /\ Grows("types", "")
  BY HistoryGrows DEF HandshakeInv, withTypesInOrder
<1>2. /\ held' \subseteq HandshakeInterface /\ "AddHandshakeSensorBuilder" \in held
      /\ UNCHANGED <<currTypes, scene>> /\ Live /\ Called("types", "") /\ Len(calls) < MaxCalls
  BY DEF withTypesInOrder, May, Get, Live, HandshakeInv, HandshakeTypeOK, HandshakeInterface
<1>3. HandshakeAgrees /\ current # {} /\ currTypes # {}
  BY <1>2 DEF HandshakeInv, HandshakeAgrees
<1>4. CASE status = "built" /\ Crash
  BY <1>2, <1>4, HandshakeCrashStep
<1>5. ASSUME NEW t \in currTypes,
             message' = [message EXCEPT ![t.object] =
                           [message[t.object] EXCEPT !.sensors =
                              Put(message[t.object].sensors, t.name,
                                  Append(message[t.object].sensors[t.name], Now))]],
             UNCHANGED <<current, status>>
      PROVE  HandshakeInv'
  <2> DEFINE n == t.object
             known == message[n].sensors
             list == Append(known[t.name], Now)
             robot == [message[n] EXCEPT !.sensors = Put(known, t.name, list)]
  <2>1. n \in DOMAIN message /\ t.name \in DOMAIN known /\ currTypes = {t}
    BY DEF HandshakeInv, HandshakeTypeOK, objects
  <2>2. PICK events \in SUBSET RobotEvent, names \in SUBSET RobotSensor :
          message[n] \in HandshakeContent(events, names)
    BY <2>1 DEF HandshakeInv, HandshakeTypeOK, objects
  <2>3. Now \in 1..MaxCalls /\ Now \in Nat
    BY <1>1, <1>2 DEF Grows
  <2>4. known \in [names -> Seq(1..MaxCalls)]
    BY <2>2 DEF HandshakeContent
  <2>5. known[t.name] \in Seq(1..MaxCalls)
    BY <2>1, <2>4
  <2>6. list \in Seq(1..MaxCalls)
    <3>1. \A T : \A x \in T : \A q \in Seq(T) : Append(q, x) \in Seq(T)
      OBVIOUS
    <3> QED  BY <2>3, <2>5, <3>1
  <2> HIDE DEF list
  <2>7. Put(known, t.name, list) \in [names -> Seq(1..MaxCalls)]
    BY <2>1, <2>4, <2>6 DEF Put
  <2>8. /\ robot \in HandshakeContent(events, names) /\ robot.sensors = Put(known, t.name, list)
        /\ robot.lists = message[n].lists /\ robot.events = message[n].events
    BY <2>2, <2>7 DEF HandshakeContent
  <2>9. message' = [message EXCEPT ![n] = robot]
    BY <1>5 DEF list
  <2> HIDE DEF robot
  <2>10. /\ DOMAIN message' = DOMAIN message /\ message'[n] = robot
         /\ \A x \in DOMAIN message : x # n => message'[x] = message[x]
    BY <2>1, <2>9
  <2>11. "types" \notin Scene \cup {"object", "build", "sensor", "event"} \cup RobotField
    BY DEF Scene, RobotField, Assigned, Appended
  <2>12. ListsAgree(n) /\ EventsAgree(n) /\ TypesAgree(n)
    BY <1>3, <2>1 DEF HandshakeAgrees
  <2>13. ListsAgree(n)' /\ EventsAgree(n)'
    BY <1>1, <2>8, <2>10, <2>11, <2>12, ListsFrame, EventsFrame
  <2>14. \A x, s : SensorNamed(x, s)' <=> x = n /\ s = t.name
    <3>1. ASSUME NEW x, NEW s PROVE SensorNamed(x, s)' <=> SensorNamed(x, s)
      <4>1. Grows("types", "") /\ "types" # "sensor"
        BY <1>1
      <4> QED  BY <4>1, SensorNamedGrows
    <3>2. t = [object |-> n, name |-> t.name]
      BY <1>3 DEF HandshakeAgrees, SensorFollows
    <3>3. \A x, s : SensorNamed(x, s) <=> [object |-> x, name |-> s] = t
      BY <1>3, <2>1 DEF HandshakeAgrees, SensorFollows
    <3> HIDE DEF n
    <3>4. \A x, s : [object |-> x, name |-> s] = t <=> x = n /\ s = t.name
      BY <3>2
    <3>5. ASSUME NEW x, NEW s PROVE SensorNamed(x, s)' <=> x = n /\ s = t.name
      <4>1. SensorNamed(x, s)' <=> SensorNamed(x, s)
        BY <3>1
      <4>2. SensorNamed(x, s) <=> [object |-> x, name |-> s] = t
        BY <3>3
      <4> QED  BY <3>4, <4>1, <4>2
    <3> QED  BY <3>5
  <2>15. TypesAgree(n)'
    <3>1. /\ Said("sensor", n)' = Said("sensor", n)
          /\ \A i \in Said("sensor", n) : calls'[i] = calls[i]
      <4>1. ASSUME NEW x
            PROVE  /\ Said("sensor", x)' = Said("sensor", x)
                   /\ \A i \in Said("sensor", x) : calls'[i] = calls[i]
        <5>1. Grows("types", "") /\ "sensor" # "types"
          BY <1>1
        <5> QED  BY <5>1, SaidStays
      <4> QED  BY <4>1
    <3>2. DOMAIN message'[n].sensors = DOMAIN known
      BY <2>1, <2>8, <2>10 DEF Put
    <3>3. ASSUME NEW s \in DOMAIN known
          PROVE  InOrder(message'[n].sensors[s], SaidTypes(n, s)')
      <4>1. InOrder(known[s], SaidTypes(n, s))
        BY <2>12 DEF TypesAgree
      <4>2. CASE s = t.name
        <5>1. message'[n].sensors[s] = list
          BY <2>8, <2>10, <4>2 DEF Put
        <5>2. SaidTypes(n, s)' = SaidTypes(n, s) \cup {Now}
          BY <1>1, <2>14, <4>2, SaidTypesGrows
        <5>3. \A i \in SaidTypes(n, s) : i \in Nat /\ i < Now
          BY <1>1 DEF SaidTypes, All, Grows
        <5>4. list = Append(known[s], Now)
          BY <4>2 DEF list
        <5>5. InOrder(Append(known[s], Now), SaidTypes(n, s) \cup {Now})
          BY <2>3, <2>5, <4>1, <4>2, <5>3, InOrderAppend
        <5> QED  BY <5>1, <5>2, <5>4, <5>5
      <4>3. CASE s # t.name
        <5>1. message'[n].sensors[s] = known[s]
          BY <2>8, <2>10, <4>3 DEF Put
        <5>2. SaidTypes(n, s)' = SaidTypes(n, s)
          BY <1>1, <2>14, <4>3, SaidTypesGrows
        <5> QED  BY <4>1, <5>1, <5>2
      <4> QED  BY <4>2, <4>3
    <3> QED  BY <2>12, <3>1, <3>2, <3>3 DEF TypesAgree
  <2>16. SensorFollows(currTypes)'
    BY <1>1, <1>2, <1>3, SensorFollowsFrame DEF HandshakeAgrees
  <2>17. \A u \in currTypes' : u.object \in DOMAIN message' /\ u.name \in DOMAIN message'[u.object].sensors
    BY <1>2, <2>1, <2>8, <2>10 DEF Put
  <2>18. (\A a, b \in currTypes' : a = b) /\ currTypes' # {}
    BY <1>2, <1>3, <2>1
  <2>19. \E e \in SUBSET RobotEvent, s \in SUBSET RobotSensor : message'[n] \in HandshakeContent(e, s)
    BY <2>8, <2>10
  <2>20. /\ History' /\ Grows("types", "") /\ Live /\ n \in DOMAIN message
         /\ "types" \notin Scene \cup {"object", "build"}
         /\ \A x, s : SensorNamed(x, s)' => x = n
         /\ DOMAIN message' = DOMAIN message
         /\ \A x \in DOMAIN message : x # n => message'[x] = message[x]
         /\ UNCHANGED <<current, status, scene>> /\ held' \subseteq HandshakeInterface
         /\ current # {}
    BY <1>1, <1>2, <1>3, <1>5, <2>1, <2>10, <2>11, <2>14
  <2> QED  BY <2>13, <2>15, <2>16, <2>17, <2>18, <2>19, <2>20, HandshakeWriteStep
<1> QED  BY <1>2, <1>4, <1>5 DEF withTypesInOrder, Update

(* build() keeps the invariant.                                            *)
LEMMA BuildHandshakeStep ==
  ASSUME HandshakeInv, buildHandshake
  PROVE  HandshakeInv'
<1>1. History' /\ Grows("build", "")
  BY HistoryGrows DEF HandshakeInv, buildHandshake, Build
<1>2. /\ Live /\ UNCHANGED <<held, current, currTypes, message, scene>>
      /\ status' = IF status = "building" THEN "built" ELSE "hollow"
  BY DEF buildHandshake, May, Build, Live
<1>3. HandshakeAgrees
  BY <1>2 DEF HandshakeInv
<1>4. "build" \notin Scene \cup {"object", "sensor", "event", "types"} \cup RobotField
  BY DEF Scene, RobotField, Assigned, Appended
<1>5. Follows'
  BY <1>1, <1>2, <1>3, FollowsStep DEF HandshakeAgrees, HandshakeInv, HandshakeTypeOK, objects
<1>6. All("build")' # {}
  BY <1>1, AllGrows
<1>7. ASSUME NEW n \in DOMAIN message PROVE ListsAgree(n)' /\ EventsAgree(n)' /\ TypesAgree(n)'
  <2>1. ListsAgree(n) /\ EventsAgree(n) /\ TypesAgree(n) /\ message'[n] = message[n]
    BY <1>2, <1>3 DEF HandshakeAgrees
  <2> QED  BY <1>1, <1>4, <2>1, ListsFrame, EventsFrame, TypesFrame
<1>8. SensorFollows(currTypes)' /\ SceneAgrees'
  BY <1>1, <1>2, <1>3, <1>4, SensorFollowsFrame, SceneFrame DEF HandshakeAgrees
<1>9. HandshakeTypeOK'
  BY <1>2 DEF HandshakeInv, HandshakeTypeOK, Status, objects
<1> QED  BY <1>1, <1>2, <1>3, <1>5, <1>6, <1>7, <1>8, <1>9
         DEF HandshakeInv, HandshakeAgrees, HandshakeTypesKeepFromCrashing

(* The invariant holds in every behaviour of the builder, for any robots,  *)
(* sensors, events and number of calls.                                    *)
THEOREM HandshakeInvariance == HandshakeSpec => []HandshakeInv
<1>1. HandshakeInv /\ [HandshakeNext]_handshakeVars => HandshakeInv'
  <2> SUFFICES ASSUME HandshakeInv, [HandshakeNext]_handshakeVars PROVE HandshakeInv'
    OBVIOUS
  <2>1. ASSUME NEW field \in Scene, withScene(field) PROVE HandshakeInv'
    BY <2>1, WithSceneStep
  <2>2. ASSUME NEW name \in Object, withRobot(name) PROVE HandshakeInv'
    BY <2>2, WithRobotStep
  <2>3. ASSUME NEW field \in Assigned \cup Appended, withList(field) PROVE HandshakeInv'
    BY <2>3, WithListStep
  <2>4. ASSUME NEW event \in RobotEvent, withRobotEvent(event) PROVE HandshakeInv'
    BY <2>4, WithRobotEventStep
  <2>5. ASSUME NEW name \in RobotSensor, withRobotSensor(name) PROVE HandshakeInv'
    BY <2>5, WithRobotSensorStep
  <2>6. CASE withTypesInOrder
    BY <2>6, WithTypesStep
  <2>7. CASE buildHandshake
    BY <2>7, BuildHandshakeStep
  <2>8. CASE UNCHANGED handshakeVars
    <3> USE <2>8 DEF handshakeVars
    <3>1. \A x : All(x)' = All(x)
      BY DEF All
    <3>2. \A x, n : Said(x, n)' = Said(x, n)
      BY <3>1 DEF Said
    <3>3. \A x, n, v : SaidOf(x, n, v)' = SaidOf(x, n, v)
      BY <3>2 DEF SaidOf
    <3>4. \A n, s : SaidTypes(n, s)' = SaidTypes(n, s)
      BY <3>1, <3>3 DEF SaidTypes
    <3>5. \A n : ListsAgree(n)' <=> ListsAgree(n)
      BY <3>2 DEF ListsAgree
    <3>6. \A n : EventsAgree(n)' <=> EventsAgree(n)
      BY <3>2, <3>3 DEF EventsAgree
    <3>7. \A n : TypesAgree(n)' <=> TypesAgree(n)
      BY <3>2, <3>4 DEF TypesAgree
    <3>8. Follows' <=> Follows
      BY <3>1, <3>2 DEF Follows, Named
    <3>9. SensorFollows(currTypes)' <=> SensorFollows(currTypes)
      BY <3>1, <3>3 DEF SensorFollows, SensorNamed
    <3>10. SceneAgrees' <=> SceneAgrees
      BY <3>1 DEF SceneAgrees
    <3>11. HandshakeAgrees' <=> HandshakeAgrees
      BY <3>5, <3>6, <3>7, <3>8, <3>9, <3>10 DEF HandshakeAgrees
    <3>12. HandshakeTypeOK' <=> HandshakeTypeOK
      BY DEF HandshakeTypeOK, objects
    <3> QED  BY <3>1, <3>11, <3>12 DEF HandshakeInv, History, Live, HandshakeTypesKeepFromCrashing
  <2> QED  BY <2>1, <2>2, <2>3, <2>4, <2>5, <2>6, <2>7, <2>8 DEF HandshakeNext
<1> QED  BY <1>1, HandshakeInvInit, PTL DEF HandshakeSpec

(* Every variable keeps its type, and both pointers point into the         *)
(* message, also while its maps grow (HandshakeMessageBuilder.cpp:81).     *)
THEOREM HandshakeTypeCorrect == HandshakeSpec => []HandshakeTypeOK
BY HandshakeInvariance, PTL DEF HandshakeInv

(* Before build() no sequence of calls that the interfaces allow goes      *)
(* through an indeterminate pointer or a null message.                     *)
THEOREM HandshakeNeverCrashes == HandshakeSpec => []HandshakeTypesKeepFromCrashing
BY HandshakeInvariance, PTL DEF HandshakeInv

(* The readers of HandshakeMessage return what was said of each robot and  *)
(* sensor.                                                                 *)
THEOREM HandshakeReaders == HandshakeSpec => []HandshakeReadersReturnWhatWasSaid
<1>1. HandshakeInv => HandshakeReadersReturnWhatWasSaid
  <2> SUFFICES ASSUME HandshakeAgrees PROVE HandshakeReadersReturnWhatWasSaid
    BY DEF HandshakeInv, Live, HandshakeReadersReturnWhatWasSaid
  <2>1. objects = {calls[i].arg : i \in All("object")}
    BY DEF HandshakeAgrees, Follows, objects
  <2>2. ASSUME NEW name \in objects
        PROVE  /\ \A field \in Appended :
                    \A list \in readList(field, name) : InOrder(list, Said(field, name))
               /\ \A field \in Assigned :
                    \A list \in readList(field, name) : InOrder(list, LastOf(Said(field, name)))
               /\ controlEvents(name) = {{calls[i].arg : i \in Said("event", name)}}
    BY DEF HandshakeAgrees, ListsAgree, EventsAgree, readList, controlEvents, objects
  <2>3. ASSUME NEW name \in objects, NEW event
        PROVE  robotEvent(name, event) = LastOf(SaidOf("event", name, event))
    <3>1. EventsAgree(name)
      BY DEF HandshakeAgrees, objects
    <3>2. CASE event \in DOMAIN message[name].events
      <4>1. robotEvent(name, event) = {message[name].events[event]}
        BY <3>2 DEF robotEvent
      <4> QED  BY <3>1, <3>2, <4>1 DEF EventsAgree
    <3>3. CASE event \notin DOMAIN message[name].events
      <4>1. SaidOf("event", name, event) = {}
        BY <3>1, <3>3 DEF EventsAgree, SaidOf
      <4>2. robotEvent(name, event) = {}
        BY <3>3 DEF robotEvent
      <4> QED  BY <4>1, <4>2 DEF LastOf
    <3> QED  BY <3>2, <3>3
  <2>4. ASSUME NEW name \in objects, NEW s
        PROVE  /\ sensors(name, s) # {} <=> SaidOf("sensor", name, s) # {}
               /\ \A list \in sensors(name, s) : InOrder(list, SaidTypes(name, s))
    <3>1. TypesAgree(name)
      BY DEF HandshakeAgrees, objects
    <3>2. CASE s \in DOMAIN message[name].sensors
      <4>1. sensors(name, s) = {message[name].sensors[s]}
        BY <3>2 DEF sensors
      <4>2. SaidOf("sensor", name, s) # {}
        BY <3>1, <3>2 DEF TypesAgree, SaidOf
      <4> QED  BY <3>1, <3>2, <4>1, <4>2 DEF TypesAgree
    <3>3. CASE s \notin DOMAIN message[name].sensors
      <4>1. sensors(name, s) = {}
        BY <3>3 DEF sensors
      <4>2. SaidOf("sensor", name, s) = {}
        BY <3>1, <3>3 DEF TypesAgree, SaidOf
      <4> QED  BY <4>1, <4>2
    <3> QED  BY <3>2, <3>3
  <2>5. SceneAgrees
    BY DEF HandshakeAgrees
  <2> QED  BY <2>1, <2>2, <2>3, <2>4, <2>5 DEF HandshakeReadersReturnWhatWasSaid, SceneAgrees
<1> QED  BY <1>1, HandshakeInvariance, PTL
------------------------------------------------------------------------------
(* A list of readings has exactly these calls, in their order, each with   *)
(* the kind that was said.                                                 *)
Lists(said, list, S) ==
  /\ InOrder([i \in DOMAIN list |-> list[i].value], S)
  /\ \A i \in DOMAIN list : list[i].kind = said[list[i].value].arg

(* A list that was just made or emptied has none.                          *)
LEMMA ListsNone ==
  ASSUME NEW said
  PROVE  Lists(said, <<>>, {})
BY DEF Lists, InOrder

(* What a list has stays what was said, whatever is called.                *)
LEMMA ListsStays ==
  ASSUME NEW method, NEW arg, Grows(method, arg),
         NEW list, NEW S, S \subseteq DOMAIN calls, Lists(calls, list, S)
  PROVE  Lists(calls', list, S)
<1>1. \A i \in DOMAIN list : list[i].value \in S
  BY DEF Lists, InOrder
<1>2. \A i \in DOMAIN list : calls'[list[i].value] = calls[list[i].value]
  BY <1>1 DEF Grows
<1> QED  BY <1>2 DEF Lists

(* A reading that is appended comes last.                                  *)
LEMMA ListsAppend ==
  ASSUME NEW method, NEW arg, Grows(method, arg),
         NEW T, NEW list \in Seq(T), NEW S, S \subseteq DOMAIN calls, Lists(calls, list, S)
  PROVE  Lists(calls', Append(list, [kind |-> arg, value |-> Now]), S \cup {Now})
<1> DEFINE new == [kind |-> arg, value |-> Now]
           longer == Append(list, new)
           values(q) == [i \in DOMAIN q |-> q[i].value]
<1>1. /\ DOMAIN list = 1..Len(list) /\ Len(list) \in Nat
      /\ DOMAIN longer = 1..Len(list) + 1
      /\ \A i \in DOMAIN list : longer[i] = list[i]
      /\ longer[Len(list) + 1] = new
  <2>1. list \in Seq(T \cup {new})
    <3>1. PICK k \in Nat : list \in [1..k -> T]
      BY SeqDef
    <3>2. list \in [1..k -> T \cup {new}]
      BY <3>1
    <3> QED  BY <3>2, SeqDef
  <2> QED  BY <2>1
<1> HIDE DEF longer
<1>2. Now \in Nat /\ \A i \in S : i \in Nat /\ i < Now /\ calls'[i] = calls[i]
  BY DEF Grows
<1>3. \A i \in DOMAIN list : list[i].value \in S /\ list[i].kind = calls[list[i].value].arg
  BY DEF Lists, InOrder
<1>4. \A i \in DOMAIN longer : longer[i].kind = calls'[longer[i].value].arg
  <2>1. calls'[Now].arg = arg
    BY DEF Grows
  <2>2. \A i \in DOMAIN list : longer[i].kind = calls'[longer[i].value].arg
    BY <1>1, <1>2, <1>3
  <2>3. longer[Len(list) + 1].kind = calls'[longer[Len(list) + 1].value].arg
    BY <1>1, <2>1
  <2> QED  BY <1>1, <2>2, <2>3
<1>5. {values(longer)[i] : i \in DOMAIN values(longer)} = S \cup {Now}
  <2>1. \A i \in DOMAIN longer : longer[i].value \in S \cup {Now}
    BY <1>1, <1>3
  <2>2. \A x \in S \cup {Now} : \E i \in DOMAIN longer : longer[i].value = x
    <3>1. \A x \in S : \E i \in DOMAIN list : list[i].value = x
      BY DEF Lists, InOrder
    <3> QED  BY <1>1, <3>1
  <2> QED  BY <2>1, <2>2
<1>6. ASSUME NEW i \in DOMAIN longer, NEW j \in DOMAIN longer, i < j
      PROVE  longer[i].value < longer[j].value
  <2>1. i \in DOMAIN list
    BY <1>1, <1>6
  <2>2. CASE j \in DOMAIN list
    BY <1>1, <1>6, <2>1, <2>2 DEF Lists, InOrder
  <2>3. CASE j \notin DOMAIN list
    <3>1. j = Len(list) + 1
      BY <1>1, <2>3
    <3> QED  BY <1>1, <1>2, <1>3, <2>1, <3>1
  <2> QED  BY <2>2, <2>3
<1>7. InOrder(values(longer), S \cup {Now})
  BY <1>5, <1>6 DEF InOrder
<1> QED  BY <1>4, <1>7 DEF Lists, longer

(* The value of the first reading of this kind, as objectPosition() and    *)
(* objectRPY() look for it.                                                *)
FirstIn(list, kind) == {list[i].value : i \in FirstOf({i \in DOMAIN list : list[i].kind = kind})}

(* The first of these calls with this argument.                            *)
FirstWith(S, arg) == FirstOf({i \in S : calls[i].arg = arg})

(* The first in the list is the first that was said.                       *)
LEMMA FirstOfList ==
  ASSUME NEW T, NEW list \in Seq(T), NEW S, S \subseteq Nat, Lists(calls, list, S), NEW kind
  PROVE  FirstIn(list, kind) = FirstWith(S, kind)
<1> DEFINE I == {i \in DOMAIN list : list[i].kind = kind}
           J == {i \in S : calls[i].arg = kind}
<1>1. DOMAIN list \subseteq Nat
  OBVIOUS
<1>2. /\ \A i \in DOMAIN list : list[i].value \in S /\ list[i].kind = calls[list[i].value].arg
      /\ \A j \in S : \E i \in DOMAIN list : list[i].value = j
      /\ \A i, j \in DOMAIN list : i < j => list[i].value < list[j].value
  BY DEF Lists, InOrder
<1>3. /\ \A i \in I : list[i].value \in J
      /\ \A j \in J : \E i \in I : list[i].value = j
  BY <1>2
<1>4. ASSUME NEW i \in FirstOf(I) PROVE list[i].value \in FirstOf(J)
  <2>1. ASSUME NEW j \in J PROVE list[i].value <= j
    <3>1. PICK k \in I : list[k].value = j
      BY <1>3
    <3>2. i \in I /\ i <= k
      BY DEF FirstOf
    <3>3. list[i].value \in Nat /\ j \in Nat /\ i \in Nat /\ k \in Nat
      BY <1>1, <1>2, <3>1, <3>2
    <3> QED  BY <1>2, <3>1, <3>2, <3>3
  <2> QED  BY <1>3, <2>1 DEF FirstOf
<1>5. ASSUME NEW j \in FirstOf(J) PROVE \E i \in FirstOf(I) : list[i].value = j
  <2>1. PICK i \in I : list[i].value = j
    BY <1>3 DEF FirstOf
  <2>2. ASSUME NEW k \in I PROVE i <= k
    <3>1. list[i].value <= list[k].value
      BY <1>3, <2>1 DEF FirstOf
    <3>2. list[i].value \in Nat /\ list[k].value \in Nat /\ i \in Nat /\ k \in Nat
      BY <1>1, <1>2
    <3> QED  BY <1>2, <3>1, <3>2
  <2> QED  BY <2>1, <2>2 DEF FirstOf
<1> QED  BY <1>4, <1>5 DEF FirstIn, FirstWith

(* Readings are of the sensor that was named last.                         *)
LEMMA SinceGrows ==
  ASSUME NEW method, NEW arg, Grows(method, arg), NEW list
  PROVE  Since(list)' = IF method = "reading" /\ list \in LastOf(All("sensor"))
                          THEN Since(list) \cup {Now} ELSE Since(list)
<1>1. ASSUME NEW i \in DOMAIN calls
      PROVE  Until(All("sensor")', i) = Until(All("sensor"), i)
  BY AllGrows DEF Until, Grows
<1>2. method = "reading" => Until(All("sensor")', Now) = All("sensor")
  BY AllGrows DEF Until, All, Grows
<1>3. All("reading")' = IF method = "reading" THEN All("reading") \cup {Now} ELSE All("reading")
  BY AllGrows
<1>4. All("reading") \subseteq DOMAIN calls
  BY DEF All
<1> QED  BY <1>1, <1>2, <1>3, <1>4 DEF Since

(* The readings of a sensor since it was named last.                       *)
SaidReadings(name, s) == UNION {Since(i) : i \in LastOf(SaidOf("sensor", name, s))}

(* They were said.                                                         *)
LEMMA SaidReadingsOld ==
  ASSUME NEW method, NEW arg, Grows(method, arg), NEW name, NEW s
  PROVE  SaidReadings(name, s) \subseteq DOMAIN calls
BY DEF SaidReadings, Since, All

(* They grow by a reading if the sensor is the one named last, whatever    *)
(* object was named since, until the sensor is named again.                *)
LEMMA SaidReadingsGrows ==
  ASSUME NEW method, NEW arg, Grows(method, arg), NEW name, NEW s,
         ~ (method = "sensor" /\ arg = s /\ name \in Named')
  PROVE  SaidReadings(name, s)' = IF method = "reading" /\ SensorNamed(name, s)
                                    THEN SaidReadings(name, s) \cup {Now} ELSE SaidReadings(name, s)
<1>1. SaidOf("sensor", name, s)' = SaidOf("sensor", name, s)
  <2>1. CASE method = "sensor" /\ name \in Named'
    BY <2>1, SaidOfAdds
  <2>2. CASE method # "sensor" \/ name \notin Named'
    <3>1. /\ Said("sensor", name)' = Said("sensor", name)
          /\ \A i \in Said("sensor", name) : calls'[i] = calls[i]
      BY <2>2, SaidStays
    <3> QED  BY <3>1 DEF SaidOf
  <2> QED  BY <2>1, <2>2
<1>2. SensorNamed(name, s) <=> \E i \in LastOf(SaidOf("sensor", name, s)) : i \in LastOf(All("sensor"))
  BY DEF SensorNamed, LastOf, SaidOf, Said
<1>3. SaidReadings(name, s)' = UNION {Since(i)' : i \in LastOf(SaidOf("sensor", name, s))}
  BY <1>1 DEF SaidReadings
<1>4. \A i : Since(i)' = IF method = "reading" /\ i \in LastOf(All("sensor"))
                           THEN Since(i) \cup {Now} ELSE Since(i)
  BY SinceGrows
<1> QED  BY <1>2, <1>3, <1>4 DEF SaidReadings

(* A sensor that is just named has none.                                   *)
LEMMA SaidReadingsAnew ==
  ASSUME NEW arg, Grows("sensor", arg), NEW name, name \in Named'
  PROVE  SaidReadings(name, arg)' = {}
<1>1. LastOf(SaidOf("sensor", name, arg)') = {Now}
  BY SaidOfAdds
<1>2. ASSUME NEW i, i = Now PROVE Since(i)' = {}
  <2>1. Since(i) = {}
    BY <1>2 DEF Since, LastOf, Until, All, Grows
  <2>2. Since(i)' = Since(i)
    BY SinceGrows
  <2> QED  BY <2>1, <2>2
<1> QED  BY <1>1, <1>2 DEF SaidReadings

(* An object's vectors are those said last.                                *)
VectorsAgree(name) ==
  \A vector \in Vector : {message[name].vectors[vector]} = LastOf({0} \cup Said(vector, name))

(* Its poses are all that were said.                                       *)
PosesAgree(name) == Lists(calls, message[name].objectSensors, Said("pose", name))

(* Its sensors are those that were said, with the readings of each.        *)
ReadingsAgree(name) ==
  /\ DOMAIN message[name].sensors = {calls[i].arg : i \in Said("sensor", name)}
  /\ \A s \in DOMAIN message[name].sensors :
       Lists(calls, message[name].sensors[s], SaidReadings(name, s))

(* The simulated time is the one said last.                                *)
TimeAgrees == {time} = LastOf({0} \cup All("simulatedTime"))

(* All of this, and what a caller has done who has a pointer to an         *)
(* interface: for AddSensorValuesBuilder, either named an object or given  *)
(* the simulated time.                                                     *)
SensorAgrees ==
  /\ Follows
  /\ SensorFollows(currSensor)
  /\ current = {} => All("object") = {}
  /\ "AddSensorValuesBuilder" \in held => current # {} \/ All("simulatedTime") # {}
  /\ "AddSensorBuilder" \in held => current # {} /\ currSensor # {}
  /\ TimeAgrees
  /\ \A name \in DOMAIN message : VectorsAgree(name) /\ PosesAgree(name) /\ ReadingsAgree(name)

(* The inductive invariant of SensorMessage's builder.                     *)
SensorInv ==
  /\ SensorTypeOK /\ History
  /\ CrashOnlyBeforeFirstObject
  /\ status \in {"built", "hollow"} => All("build") # {}
  /\ Live => SensorAgrees

(* A new builder has nothing said and nothing in its message.              *)
LEMMA SensorInvInit == SensorInit => SensorInv
<1> SUFFICES ASSUME SensorInit PROVE SensorInv
  OBVIOUS
<1> USE DEF SensorInit, Fresh, sensorBuilder
<1>1. SensorTypeOK
  BY MaxCallsAssumption DEF SensorTypeOK, SensorInterface, EmptyMap, Status
<1>2. \A method : All(method) = {}
  BY DEF All
<1>3. Follows
  BY <1>2 DEF Follows, Named, LastOf, EmptyMap, Said
<1>4. SensorFollows(currSensor)
  BY <1>2 DEF SensorFollows, SensorNamed, LastOf
<1>5. LastOf({0}) = {0}
  BY DEF LastOf
<1>6. TimeAgrees
  BY <1>2, <1>5 DEF TimeAgrees
<1> QED  BY <1>1, <1>2, <1>3, <1>4, <1>6
         DEF SensorInv, SensorAgrees, History, CrashOnlyBeforeFirstObject, EmptyMap

(* A call that crashes came after build(), or after withSimulatedTime()    *)
(* with no object named.                                                   *)
LEMMA SensorCrashStep ==
  ASSUME SensorInv, NEW method, NEW arg, Called(method, arg), Crash,
         held' \subseteq SensorInterface, UNCHANGED <<currSensor, time>>,
         status = "built" \/ (method # "object" /\ All("object") = {} /\ All("simulatedTime") # {})
  PROVE  SensorInv'
<1>1. History' /\ Grows(method, arg)
  BY HistoryGrows DEF SensorInv
<1>2. All("build")' # {} \/ (All("object")' = {} /\ All("simulatedTime")' # {})
  BY <1>1, AllGrows DEF SensorInv
<1>3. SensorTypeOK'
  BY DEF SensorInv, SensorTypeOK, Crash, Status, hasSensor, has
<1> QED  BY <1>1, <1>2, <1>3 DEF SensorInv, CrashOnlyBeforeFirstObject, Live, Crash

(* An object's vectors agree as before if they are not written to.         *)
LEMMA VectorsFrame ==
  ASSUME NEW method, NEW arg, Grows(method, arg), NEW name,
         message'[name].vectors = message[name].vectors, VectorsAgree(name),
         name \notin Named' \/ method \notin Vector
  PROVE  VectorsAgree(name)'
<1>1. \A vector \in Vector : Said(vector, name)' = Said(vector, name)
  BY SaidStays
<1> QED  BY <1>1 DEF VectorsAgree

(* So do its poses.                                                        *)
LEMMA PosesFrame ==
  ASSUME NEW method, NEW arg, Grows(method, arg), NEW name,
         message'[name].objectSensors = message[name].objectSensors, PosesAgree(name),
         name \notin Named' \/ method # "pose"
  PROVE  PosesAgree(name)'
<1>1. Said("pose", name)' = Said("pose", name)
  BY SaidStays
<1>2. Said("pose", name) \subseteq DOMAIN calls
  BY DEF Said, All
<1> QED  BY <1>1, <1>2, ListsStays DEF PosesAgree

(* So do its sensors, unless one of them is the one named last and is      *)
(* given a reading.                                                        *)
LEMMA ReadingsFrame ==
  ASSUME NEW method, NEW arg, Grows(method, arg), NEW name,
         message'[name].sensors = message[name].sensors, ReadingsAgree(name),
         name \notin Named' \/ method # "sensor",
         method = "reading" => \A s : ~ SensorNamed(name, s)
  PROVE  ReadingsAgree(name)'
<1>1. /\ Said("sensor", name)' = Said("sensor", name)
      /\ \A i \in Said("sensor", name) : calls'[i] = calls[i]
  BY SaidStays
<1>2. ASSUME NEW s \in DOMAIN message[name].sensors
      PROVE  Lists(calls', message[name].sensors[s], SaidReadings(name, s)')
  <2>1. SaidReadings(name, s)' = SaidReadings(name, s)
    BY SaidReadingsGrows
  <2>2. Lists(calls, message[name].sensors[s], SaidReadings(name, s))
    BY DEF ReadingsAgree
  <2> QED  BY <2>1, <2>2, SaidReadingsOld, ListsStays
<1> QED  BY <1>1, <1>2 DEF ReadingsAgree

(* The sensor named last stays that while none is named.                   *)
LEMMA SensorPointerFrame ==
  ASSUME NEW method, NEW arg, Grows(method, arg), method # "sensor",
         SensorFollows(currSensor), UNCHANGED currSensor
  PROVE  SensorFollows(currSensor)'
<1>1. \A name, s : SensorNamed(name, s)' <=> SensorNamed(name, s)
  BY SensorNamedGrows
<1> QED  BY <1>1 DEF SensorFollows

(* The simulated time agrees as before if it is not given.                 *)
LEMMA TimeFrame ==
  ASSUME NEW method, NEW arg, Grows(method, arg), method # "simulatedTime", TimeAgrees, UNCHANGED time
  PROVE  TimeAgrees'
<1>1. All("simulatedTime")' = All("simulatedTime")
  BY AllGrows
<1> QED  BY <1>1 DEF TimeAgrees

(* object() keeps the invariant: it moves m_curr_object and leaves         *)
(* m_curr_sensor where it was.                                             *)
LEMMA SensorObjectStep ==
  ASSUME SensorInv, NEW name \in Object, sensorObject(name)
  PROVE  SensorInv'
<1>1. History' /\ Grows("object", name)
  BY HistoryGrows DEF SensorInv, sensorObject
<1>2. /\ held' = held \cup {"AddSensorValuesBuilder"} /\ held' \subseteq SensorInterface
      /\ Live /\ Called("object", name) /\ UNCHANGED <<currSensor, time>>
  BY DEF sensorObject, May, Get, Live, SensorInv, SensorTypeOK, SensorInterface
<1>3. CASE status # "building"
  BY <1>2, <1>3, SensorCrashStep DEF sensorObject, Name, Live
<1>4. CASE status = "building"
  <2>1. /\ status' = "building" /\ current' = {name}
        /\ DOMAIN message' = DOMAIN message \cup {name}
        /\ \A n \in DOMAIN message : message'[n] = message[n]
        /\ name \notin DOMAIN message => message'[name] = NewSensorObject
    BY <1>4 DEF sensorObject, Name, Allocate, Put
  <2>2. SensorAgrees
    BY <1>2 DEF SensorInv
  <2>3. Follows'
    BY <1>1, <2>1, <2>2, FollowsStep DEF SensorAgrees, SensorInv, SensorTypeOK
  <2>4. SensorFollows(currSensor)'
    BY <1>1, <1>2, <2>2, SensorPointerFrame DEF SensorAgrees
  <2>5. TimeAgrees'
    BY <1>1, <1>2, <2>2, TimeFrame DEF SensorAgrees
  <2>6. SensorTypeOK'
    <3>1. NewSensorObject \in SensorContent({})
      BY MaxCallsAssumption DEF NewSensorObject, SensorContent, EmptyMap
    <3>2. \A n \in DOMAIN message' : \E names \in SUBSET SensorName : message'[n] \in SensorContent(names)
      BY <2>1, <3>1 DEF SensorInv, SensorTypeOK
    <3>3. \A s \in currSensor' : s.object \in DOMAIN message' /\ s.name \in DOMAIN message'[s.object].sensors
      BY <1>2, <2>1 DEF SensorInv, SensorTypeOK, hasSensor, has
    <3> QED  BY <1>2, <2>1, <3>2, <3>3 DEF SensorInv, SensorTypeOK, hasSensor, has, Status
  <2>7. ASSUME NEW n \in DOMAIN message' PROVE VectorsAgree(n)' /\ PosesAgree(n)' /\ ReadingsAgree(n)'
    <3>1. "object" \notin Vector \cup {"pose", "sensor", "reading"}
      BY DEF Vector
    <3>2. CASE n \in DOMAIN message
      <4>1. VectorsAgree(n) /\ PosesAgree(n) /\ ReadingsAgree(n) /\ message'[n] = message[n]
        BY <2>1, <2>2, <3>2 DEF SensorAgrees
      <4> QED  BY <1>1, <3>1, <4>1, VectorsFrame, PosesFrame, ReadingsFrame
    <3>3. CASE n \notin DOMAIN message
      <4>1. n = name /\ \A x : Said(x, n) = {}
        BY <2>1, <2>2, <3>3 DEF SensorAgrees, Follows
      <4>2. \A x : x # "object" => Said(x, n)' = {}
        BY <1>1, <4>1, SaidStays
      <4>3. message'[n] = NewSensorObject
        BY <2>1, <3>3, <4>1
      <4>4. LastOf({0}) = {0}
        BY DEF LastOf
      <4>5. VectorsAgree(n)'
        <5>1. \A vector \in Vector : Said(vector, n)' = {}
          BY <3>1, <4>2
        <5>2. \A vector \in Vector : message'[n].vectors[vector] = 0
          BY <4>3 DEF NewSensorObject
        <5>3. {0} \cup {} = {0}
          OBVIOUS
        <5> QED  BY <4>4, <5>1, <5>2, <5>3 DEF VectorsAgree
      <4>6. PosesAgree(n)'
        BY <4>2, <4>3, ListsNone DEF PosesAgree, NewSensorObject
      <4>7. ReadingsAgree(n)'
        <5>1. DOMAIN message'[n].sensors = {}
          BY <4>3 DEF NewSensorObject, EmptyMap
        <5>2. Said("sensor", n)' = {}
          BY <4>2
        <5> QED  BY <5>1, <5>2 DEF ReadingsAgree
      <4> QED  BY <4>5, <4>6, <4>7
    <3> QED  BY <3>2, <3>3
  <2>8. current' # {} /\ ("AddSensorBuilder" \in held' => currSensor' # {})
    BY <1>2, <2>1, <2>2 DEF SensorAgrees
  <2> QED  BY <1>1, <2>1, <2>3, <2>4, <2>5, <2>6, <2>7, <2>8
           DEF SensorInv, SensorAgrees, CrashOnlyBeforeFirstObject
<1> QED  BY <1>3, <1>4

(* withSimulatedTime() keeps the invariant.                                *)
LEMMA SimulatedTimeStep ==
  ASSUME SensorInv, withSimulatedTime
  PROVE  SensorInv'
<1>1. History' /\ Grows("simulatedTime", "")
  BY HistoryGrows DEF SensorInv, withSimulatedTime
<1>2. /\ held' = held \cup {"AddSensorValuesBuilder"} /\ held' \subseteq SensorInterface
      /\ Live /\ Len(calls) < MaxCalls /\ Called("simulatedTime", "")
  BY DEF withSimulatedTime, May, Get, Live, SensorInv, SensorTypeOK, SensorInterface
<1>3. CASE status # "building"
  BY <1>2, <1>3, SensorCrashStep DEF withSimulatedTime, Live
<1>4. CASE status = "building"
  <2>1. time' = Now /\ UNCHANGED <<current, currSensor, message, status>>
    BY <1>4 DEF withSimulatedTime
  <2>2. SensorAgrees
    BY <1>2 DEF SensorInv
  <2>3. Follows'
    BY <1>1, <2>1, <2>2, FollowsStep DEF SensorAgrees, SensorInv, SensorTypeOK
  <2>4. SensorFollows(currSensor)'
    BY <1>1, <2>1, <2>2, SensorPointerFrame DEF SensorAgrees
  <2>5. TimeAgrees'
    BY <1>1, <2>1, AllAdds DEF TimeAgrees
  <2>6. SensorTypeOK'
    <3>1. Now \in 1..MaxCalls
      BY <1>1, <1>2 DEF Grows
    <3>2. Now \in 0..MaxCalls
      BY <3>1, MaxCallsAssumption
    <3> QED  BY <1>2, <2>1, <3>2 DEF SensorInv, SensorTypeOK, hasSensor, has
  <2>7. ASSUME NEW n \in DOMAIN message' PROVE VectorsAgree(n)' /\ PosesAgree(n)' /\ ReadingsAgree(n)'
    <3>1. "simulatedTime" \notin Vector \cup {"pose", "sensor", "reading"}
      BY DEF Vector
    <3>2. VectorsAgree(n) /\ PosesAgree(n) /\ ReadingsAgree(n) /\ message'[n] = message[n]
      BY <2>1, <2>2 DEF SensorAgrees
    <3> QED  BY <1>1, <3>1, <3>2, VectorsFrame, PosesFrame, ReadingsFrame
  <2>8. All("simulatedTime")' # {} /\ All("object")' = All("object")
    BY <1>1, AllGrows
  <2>9. "AddSensorBuilder" \in held' => current' # {} /\ currSensor' # {}
    BY <1>2, <2>1, <2>2 DEF SensorAgrees
  <2> QED  BY <1>1, <1>4, <2>1, <2>2, <2>3, <2>4, <2>5, <2>6, <2>7, <2>8, <2>9
           DEF SensorInv, SensorAgrees, CrashOnlyBeforeFirstObject
<1> QED  BY <1>3, <1>4

(* What a write to one object has to keep of it, so that the invariant     *)
(* holds: the other objects and the time are as they were.                 *)
LEMMA SensorWriteStep ==
  ASSUME SensorInv, Live, NEW method, NEW arg, History', Grows(method, arg),
         method \notin {"object", "build", "simulatedTime"},
         NEW n \in DOMAIN message, DOMAIN message' = DOMAIN message,
         \A x \in DOMAIN message : x # n => message'[x] = message[x],
         \E names \in SUBSET SensorName : message'[n] \in SensorContent(names),
         UNCHANGED <<current, status, time>>,
         method = "reading" \/ \A x : x \in Named' => x = n,
         method = "reading" => \A x, s : SensorNamed(x, s) => x = n,
         held' \subseteq SensorInterface,
         "AddSensorValuesBuilder" \in held' => current # {} \/ All("simulatedTime") # {},
         "AddSensorBuilder" \in held' => current # {} /\ currSensor' # {},
         \A s \in currSensor' : s.object \in DOMAIN message' /\ s.name \in DOMAIN message'[s.object].sensors,
         \A a, b \in currSensor' : a = b,
         SensorFollows(currSensor)',
         VectorsAgree(n)', PosesAgree(n)', ReadingsAgree(n)'
  PROVE  SensorInv'
<1>1. SensorAgrees
  BY DEF SensorInv
<1>2. Follows'
  BY <1>1, FollowsStep DEF SensorAgrees, SensorInv, SensorTypeOK
<1>3. TimeAgrees'
  BY <1>1, TimeFrame DEF SensorAgrees
<1>4. SensorTypeOK'
  BY DEF SensorInv, SensorTypeOK, hasSensor, has
<1>5. ASSUME NEW x \in DOMAIN message' PROVE VectorsAgree(x)' /\ PosesAgree(x)' /\ ReadingsAgree(x)'
  <2>1. CASE x = n
    BY <2>1
  <2>2. CASE x # n
    <3>1. VectorsAgree(x) /\ PosesAgree(x) /\ ReadingsAgree(x) /\ message'[x] = message[x]
      BY <1>1, <2>2 DEF SensorAgrees
    <3>2. "reading" \notin Vector
      BY DEF Vector
    <3>3. VectorsAgree(x)' /\ PosesAgree(x)'
      BY <2>2, <3>1, <3>2, VectorsFrame, PosesFrame
    <3>4. ReadingsAgree(x)'
      BY <2>2, <3>1, ReadingsFrame
    <3> QED  BY <3>3, <3>4
  <2> QED  BY <2>1, <2>2
<1>6. status' \in {"built", "hollow"} => All("build")' # {}
  BY AllGrows DEF SensorInv
<1>7. All("simulatedTime")' = All("simulatedTime") /\ All("object")' = All("object")
  BY AllGrows
<1>8. status' # "crashed"
  BY DEF Live
<1> QED  BY <1>1, <1>2, <1>3, <1>4, <1>5, <1>6, <1>7, <1>8
         DEF SensorInv, SensorAgrees, CrashOnlyBeforeFirstObject, Live

(* withAngles(), withAngularVelocities() and withTorques() keep the        *)
(* invariant.                                                              *)
LEMMA WithVectorStep ==
  ASSUME SensorInv, NEW vector \in Vector, withVector(vector)
  PROVE  SensorInv'
<1>1. History' /\ Grows(vector, "")
  BY HistoryGrows DEF SensorInv, withVector
<1>2. /\ UNCHANGED <<held, currSensor, time>> /\ held \subseteq SensorInterface
      /\ Live /\ Len(calls) < MaxCalls /\ Called(vector, "") /\ "AddSensorValuesBuilder" \in held
  BY DEF withVector, May, Get, Live, SensorInv, SensorTypeOK
<1>3. SensorAgrees
  BY <1>2 DEF SensorInv
<1>4. CASE (current = {} \/ status = "built") /\ Crash
  <2>1. current = {} => All("object") = {} /\ All("simulatedTime") # {}
    BY <1>2, <1>3 DEF SensorAgrees
  <2>2. vector # "object"
    BY DEF Vector
  <2> QED  BY <1>2, <1>4, <2>1, <2>2, SensorCrashStep
<1>5. ASSUME NEW n \in current,
             message' = [message EXCEPT ![n] =
                           [message[n] EXCEPT !.vectors = Put(message[n].vectors, vector, Now)]],
             UNCHANGED <<current, status>>
      PROVE  SensorInv'
  <2> DEFINE vectors == message[n].vectors
             object == [message[n] EXCEPT !.vectors = Put(vectors, vector, Now)]
  <2>1. n \in DOMAIN message
    BY DEF SensorInv, SensorTypeOK
  <2>2. PICK names \in SUBSET SensorName : message[n] \in SensorContent(names)
    BY <2>1 DEF SensorInv, SensorTypeOK
  <2>3. Now \in 0..MaxCalls
    <3>1. Now \in 1..MaxCalls
      BY <1>1, <1>2 DEF Grows
    <3> QED  BY <3>1, MaxCallsAssumption
  <2>4. vectors \in [Vector -> 0..MaxCalls]
    BY <2>2 DEF SensorContent
  <2>5. Put(vectors, vector, Now) \in [Vector -> 0..MaxCalls]
    BY <2>3, <2>4 DEF Put
  <2>6. /\ object \in SensorContent(names) /\ object.vectors = Put(vectors, vector, Now)
        /\ object.objectSensors = message[n].objectSensors /\ object.sensors = message[n].sensors
    BY <2>2, <2>5 DEF SensorContent
  <2> HIDE DEF object
  <2>7. /\ DOMAIN message' = DOMAIN message /\ message'[n] = object
        /\ \A x \in DOMAIN message : x # n => message'[x] = message[x]
    BY <1>5, <2>1 DEF object
  <2>8. vector \notin {"object", "build", "simulatedTime", "pose", "sensor", "reading"}
    BY DEF Vector
  <2>9. \A x : x \in Named' <=> x = n
    BY <1>1, <1>3, <1>5, <2>8, NamedGrows DEF SensorAgrees, Follows, SensorInv, SensorTypeOK
  <2>10. VectorsAgree(n) /\ PosesAgree(n) /\ ReadingsAgree(n)
    BY <1>3, <2>1 DEF SensorAgrees
  <2>11. PosesAgree(n)' /\ ReadingsAgree(n)'
    BY <1>1, <2>6, <2>7, <2>8, <2>10, PosesFrame, ReadingsFrame
  <2>12. VectorsAgree(n)'
    <3>1. LastOf({0} \cup Said(vector, n)') = {Now}
      <4>1. n \in Named'
        BY <2>9
      <4> QED  BY <1>1, <4>1, SaidAdds
    <3>2. \A v \in Vector : v # vector => Said(v, n)' = Said(v, n)
      BY <1>1, SaidStays
    <3>3. /\ message'[n].vectors[vector] = Now
          /\ \A v \in Vector : v # vector => message'[n].vectors[v] = vectors[v]
      BY <2>4, <2>6, <2>7 DEF Put
    <3> QED  BY <2>10, <3>1, <3>2, <3>3 DEF VectorsAgree
  <2>13. SensorFollows(currSensor)'
    BY <1>1, <1>2, <1>3, <2>8, SensorPointerFrame DEF SensorAgrees
  <2>14. /\ \A s \in currSensor' : /\ s.object \in DOMAIN message'
                                  /\ s.name \in DOMAIN message'[s.object].sensors
         /\ \A a, b \in currSensor' : a = b
    BY <1>2, <2>6, <2>7 DEF SensorInv, SensorTypeOK, hasSensor, has
  <2>15. /\ "AddSensorValuesBuilder" \in held' => current # {} \/ All("simulatedTime") # {}
         /\ "AddSensorBuilder" \in held' => current # {} /\ currSensor' # {}
    BY <1>2, <1>3 DEF SensorAgrees
  <2>16. /\ SensorInv /\ Live /\ History' /\ Grows(vector, "") /\ n \in DOMAIN message
         /\ vector \notin {"object", "build", "simulatedTime"} /\ vector # "reading"
         /\ UNCHANGED <<current, status, time>> /\ held' \subseteq SensorInterface
         /\ \A x : x \in Named' => x = n
         /\ message'[n] \in SensorContent(names)
    BY <1>1, <1>2, <1>5, <2>1, <2>6, <2>7, <2>8, <2>9
  <2> QED  BY <2>7, <2>11, <2>12, <2>13, <2>14, <2>15, <2>16, SensorWriteStep
<1> QED  BY <1>2, <1>4, <1>5 DEF withVector, Write, Update

(* withPosition() and withRPY() keep the invariant.                        *)
LEMMA WithPoseStep ==
  ASSUME SensorInv, NEW kind \in ObjectSensor, withPose(kind)
  PROVE  SensorInv'
<1>1. History' /\ Grows("pose", kind)
  BY HistoryGrows DEF SensorInv, withPose
<1>2. /\ UNCHANGED <<held, currSensor, time>> /\ held \subseteq SensorInterface
      /\ Live /\ Len(calls) < MaxCalls /\ Called("pose", kind) /\ "AddSensorValuesBuilder" \in held
  BY DEF withPose, May, Get, Live, SensorInv, SensorTypeOK
<1>3. SensorAgrees
  BY <1>2 DEF SensorInv
<1>4. CASE (current = {} \/ status = "built") /\ Crash
  <2>1. current = {} => All("object") = {} /\ All("simulatedTime") # {}
    BY <1>2, <1>3 DEF SensorAgrees
  <2> QED  BY <1>2, <1>4, <2>1, SensorCrashStep
<1>5. ASSUME NEW n \in current,
             message' = [message EXCEPT ![n] =
                           [message[n] EXCEPT !.objectSensors =
                              Append(message[n].objectSensors, [kind |-> kind, value |-> Now])]],
             UNCHANGED <<current, status>>
      PROVE  SensorInv'
  <2> DEFINE poses == message[n].objectSensors
             list == Append(poses, [kind |-> kind, value |-> Now])
             object == [message[n] EXCEPT !.objectSensors = list]
  <2>1. n \in DOMAIN message
    BY DEF SensorInv, SensorTypeOK
  <2>2. PICK names \in SUBSET SensorName : message[n] \in SensorContent(names)
    BY <2>1 DEF SensorInv, SensorTypeOK
  <2>3. [kind |-> kind, value |-> Now] \in Reading
    <3>1. Now \in 1..MaxCalls
      BY <1>1, <1>2 DEF Grows
    <3> QED  BY <3>1 DEF Reading
  <2>4. poses \in Seq(Reading)
    BY <2>2 DEF SensorContent
  <2>5. list \in Seq(Reading)
    <3>1. \A T : \A x \in T : \A q \in Seq(T) : Append(q, x) \in Seq(T)
      OBVIOUS
    <3> QED  BY <2>3, <2>4, <3>1
  <2>6. Lists(calls, poses, Said("pose", n))
    BY <1>3, <2>1 DEF SensorAgrees, PosesAgree
  <2>7. Lists(calls', list, Said("pose", n) \cup {Now})
    <3>1. Said("pose", n) \subseteq DOMAIN calls
      BY DEF Said, All
    <3> QED  BY <1>1, <2>4, <2>6, <3>1, ListsAppend
  <2> HIDE DEF list
  <2>8. /\ object \in SensorContent(names) /\ object.objectSensors = list
        /\ object.vectors = message[n].vectors /\ object.sensors = message[n].sensors
    BY <2>2, <2>5 DEF SensorContent
  <2>9. message' = [message EXCEPT ![n] = object]
    BY <1>5 DEF list
  <2> HIDE DEF object
  <2>10. /\ DOMAIN message' = DOMAIN message /\ message'[n] = object
         /\ \A x \in DOMAIN message : x # n => message'[x] = message[x]
    BY <2>1, <2>9
  <2>11. "pose" \notin {"object", "build", "simulatedTime", "sensor", "reading"} \cup Vector
    BY DEF Vector
  <2>12. \A x : x \in Named' <=> x = n
    BY <1>1, <1>3, <1>5, NamedGrows DEF SensorAgrees, Follows, SensorInv, SensorTypeOK
  <2>13. VectorsAgree(n)' /\ ReadingsAgree(n)'
    <3>1. VectorsAgree(n) /\ ReadingsAgree(n)
      BY <1>3, <2>1 DEF SensorAgrees
    <3> QED  BY <1>1, <2>8, <2>10, <2>11, <3>1, VectorsFrame, ReadingsFrame
  <2>14. PosesAgree(n)'
    <3>1. Said("pose", n)' = Said("pose", n) \cup {Now}
      <4>1. n \in Named'
        BY <2>12
      <4> QED  BY <1>1, <4>1, SaidAdds
    <3> QED  BY <2>7, <2>8, <2>10, <3>1 DEF PosesAgree
  <2>15. SensorFollows(currSensor)'
    BY <1>1, <1>2, <1>3, <2>11, SensorPointerFrame DEF SensorAgrees
  <2>16. /\ \A s \in currSensor' : /\ s.object \in DOMAIN message'
                                  /\ s.name \in DOMAIN message'[s.object].sensors
         /\ \A a, b \in currSensor' : a = b
    BY <1>2, <2>8, <2>10 DEF SensorInv, SensorTypeOK, hasSensor, has
  <2>17. /\ "AddSensorValuesBuilder" \in held' => current # {} \/ All("simulatedTime") # {}
         /\ "AddSensorBuilder" \in held' => current # {} /\ currSensor' # {}
    BY <1>2, <1>3 DEF SensorAgrees
  <2>18. /\ SensorInv /\ Live /\ History' /\ Grows("pose", kind) /\ n \in DOMAIN message
         /\ "pose" \notin {"object", "build", "simulatedTime"} /\ "pose" # "reading"
         /\ UNCHANGED <<current, status, time>> /\ held' \subseteq SensorInterface
         /\ \A x : x \in Named' => x = n
         /\ message'[n] \in SensorContent(names)
    BY <1>1, <1>2, <1>5, <2>1, <2>8, <2>10, <2>12
  <2> QED  BY <2>10, <2>13, <2>14, <2>15, <2>16, <2>17, <2>18, SensorWriteStep
<1> QED  BY <1>2, <1>4, <1>5 DEF withPose, Write, Update

(* withSensor() keeps the invariant: the sensor is emptied, and so is what *)
(* counts as said of it.                                                   *)
LEMMA WithSensorStep ==
  ASSUME SensorInv, NEW name \in SensorName, withSensor(name)
  PROVE  SensorInv'
<1>1. History' /\ Grows("sensor", name)
  BY HistoryGrows DEF SensorInv, withSensor
<1>2. /\ held' = held \cup {"AddSensorBuilder"} /\ held' \subseteq SensorInterface
      /\ UNCHANGED time /\ Live /\ Called("sensor", name) /\ "AddSensorValuesBuilder" \in held
      /\ currSensor' = IF status' = "crashed" THEN currSensor
                       ELSE {[object |-> o, name |-> name] : o \in current}
  BY DEF withSensor, May, Get, Live, SensorInv, SensorTypeOK, SensorInterface
<1>3. SensorAgrees
  BY <1>2 DEF SensorInv
<1>4. CASE (current = {} \/ status = "built") /\ Crash
  <2>1. current = {} => All("object") = {} /\ All("simulatedTime") # {}
    BY <1>2, <1>3 DEF SensorAgrees
  <2>2. UNCHANGED <<currSensor, time>>
    BY <1>2, <1>4 DEF Crash
  <2> QED  BY <1>2, <1>4, <2>1, <2>2, SensorCrashStep
<1>5. ASSUME NEW n \in current,
             message' = [message EXCEPT ![n] =
                           [message[n] EXCEPT !.sensors = Put(message[n].sensors, name, <<>>)]],
             UNCHANGED <<current, status>>
      PROVE  SensorInv'
  <2> DEFINE known == message[n].sensors
             object == [message[n] EXCEPT !.sensors = Put(known, name, <<>>)]
  <2>1. n \in DOMAIN message
    BY DEF SensorInv, SensorTypeOK
  <2>2. PICK names \in SUBSET SensorName : message[n] \in SensorContent(names)
    BY <2>1 DEF SensorInv, SensorTypeOK
  <2>3. known \in [names -> Seq(Reading)]
    BY <2>2 DEF SensorContent
  <2>4. Put(known, name, <<>>) \in [names \cup {name} -> Seq(Reading)]
    <3>1. <<>> \in Seq(Reading)
      OBVIOUS
    <3> QED  BY <2>3, <3>1 DEF Put
  <2>5. /\ object \in SensorContent(names \cup {name}) /\ object.sensors = Put(known, name, <<>>)
        /\ object.vectors = message[n].vectors /\ object.objectSensors = message[n].objectSensors
    BY <2>2, <2>4 DEF SensorContent
  <2>6. names \cup {name} \in SUBSET SensorName
    OBVIOUS
  <2> HIDE DEF object
  <2>7. /\ DOMAIN message' = DOMAIN message /\ message'[n] = object
        /\ \A x \in DOMAIN message : x # n => message'[x] = message[x]
    BY <1>5, <2>1 DEF object
  <2>8. \A x : x \in Named' <=> x = n
    BY <1>1, <1>3, <1>5, NamedGrows DEF SensorAgrees, Follows, SensorInv, SensorTypeOK
  <2>9. "sensor" \notin {"object", "build", "simulatedTime", "pose", "reading"} \cup Vector
    BY DEF Vector
  <2>10. VectorsAgree(n) /\ PosesAgree(n) /\ ReadingsAgree(n)
    BY <1>3, <2>1 DEF SensorAgrees
  <2>11. VectorsAgree(n)' /\ PosesAgree(n)'
    BY <1>1, <2>5, <2>7, <2>9, <2>10, VectorsFrame, PosesFrame
  <2>12. ReadingsAgree(n)'
    <3>1. n \in Named'
      BY <2>8
    <3>2. {calls'[i].arg : i \in Said("sensor", n)'} = {calls[i].arg : i \in Said("sensor", n)} \cup {name}
      BY <1>1, <3>1, SaidOfAdds
    <3>3. /\ DOMAIN message'[n].sensors = DOMAIN known \cup {name}
          /\ message'[n].sensors[name] = <<>>
          /\ \A s \in DOMAIN known : s # name => message'[n].sensors[s] = known[s]
      BY <2>5, <2>7 DEF Put
    <3>4. ASSUME NEW s \in DOMAIN message'[n].sensors
          PROVE  Lists(calls', message'[n].sensors[s], SaidReadings(n, s)')
      <4>1. CASE s = name
        <5>1. SaidReadings(n, name)' = {}
          BY <1>1, <3>1, SaidReadingsAnew
        <5> QED  BY <3>3, <4>1, <5>1, ListsNone
      <4>2. CASE s # name
        <5>1. SaidReadings(n, s)' = SaidReadings(n, s)
          BY <1>1, <4>2, SaidReadingsGrows
        <5>2. message'[n].sensors[s] = known[s] /\ Lists(calls, known[s], SaidReadings(n, s))
          BY <2>10, <3>3, <4>2 DEF ReadingsAgree
        <5>3. SaidReadings(n, s) \subseteq DOMAIN calls
          BY <1>1, SaidReadingsOld
        <5> QED  BY <1>1, <5>1, <5>2, <5>3, ListsStays
      <4> QED  BY <4>1, <4>2
    <3> QED  BY <2>10, <3>2, <3>3, <3>4 DEF ReadingsAgree
  <2>13. currSensor' = {[object |-> n, name |-> name]}
    <3>1. current = {n}
      BY DEF SensorInv, SensorTypeOK
    <3>2. status' # "crashed"
      BY <1>2, <1>5 DEF Live
    <3> QED  BY <1>2, <3>1, <3>2
  <2>14. SensorFollows(currSensor)'
    <3>1. \A x, s : SensorNamed(x, s)' <=> name = s /\ x = n
      BY <1>1, <2>8, SensorNamedGrows
    <3> QED  BY <2>13, <3>1 DEF SensorFollows
  <2>15. \A s \in currSensor' : s.object \in DOMAIN message' /\ s.name \in DOMAIN message'[s.object].sensors
    BY <2>1, <2>5, <2>7, <2>13 DEF Put
  <2>16. (\A a, b \in currSensor' : a = b) /\ currSensor' # {}
    BY <2>13
  <2>17. \E s \in SUBSET SensorName : message'[n] \in SensorContent(s)
    BY <2>5, <2>6, <2>7
  <2>18. /\ SensorInv /\ Live /\ History' /\ Grows("sensor", name) /\ n \in DOMAIN message
         /\ "sensor" \notin {"object", "build", "simulatedTime"} /\ "sensor" # "reading"
         /\ UNCHANGED <<current, status, time>> /\ held' \subseteq SensorInterface
         /\ \A x : x \in Named' => x = n
         /\ current # {}
    BY <1>1, <1>2, <1>5, <2>1, <2>8
  <2> QED  BY <2>7, <2>11, <2>12, <2>14, <2>15, <2>16, <2>17, <2>18, SensorWriteStep
<1> QED  BY <1>2, <1>4, <1>5 DEF withSensor, Write, Update

(* withAngle() to withAngularVelocity3d() keep the invariant, also when    *)
(* the sensor is not of the object named last.                             *)
LEMMA WithReadingStep ==
  ASSUME SensorInv, NEW kind \in Kind, withReading(kind)
  PROVE  SensorInv'
<1>1. History' /\ Grows("reading", kind)
  BY HistoryGrows DEF SensorInv, withReading
<1>2. /\ held' = held /\ held' \subseteq SensorInterface /\ "AddSensorBuilder" \in held
      /\ UNCHANGED <<currSensor, time>> /\ Live /\ Called("reading", kind) /\ Len(calls) < MaxCalls
  BY DEF withReading, May, Get, Live, SensorInv, SensorTypeOK
<1>3. SensorAgrees /\ current # {} /\ currSensor # {}
  BY <1>2 DEF SensorInv, SensorAgrees
<1>4. CASE status = "built" /\ Crash
  BY <1>2, <1>4, SensorCrashStep
<1>5. ASSUME NEW t \in currSensor,
             message' = [message EXCEPT ![t.object] =
                           [message[t.object] EXCEPT !.sensors =
                              Put(message[t.object].sensors, t.name,
                                  Append(message[t.object].sensors[t.name],
                                         [kind |-> kind, value |-> Now]))]],
             UNCHANGED <<current, status>>
      PROVE  SensorInv'
  <2> DEFINE n == t.object
             known == message[n].sensors
             list == Append(known[t.name], [kind |-> kind, value |-> Now])
             object == [message[n] EXCEPT !.sensors = Put(known, t.name, list)]
  <2>1. n \in DOMAIN message /\ t.name \in DOMAIN known /\ currSensor = {t}
    BY DEF SensorInv, SensorTypeOK, hasSensor, has
  <2>2. PICK names \in SUBSET SensorName : message[n] \in SensorContent(names)
    BY <2>1 DEF SensorInv, SensorTypeOK
  <2>3. [kind |-> kind, value |-> Now] \in Reading
    <3>1. Now \in 1..MaxCalls
      BY <1>1, <1>2 DEF Grows
    <3> QED  BY <3>1 DEF Reading
  <2>4. known \in [names -> Seq(Reading)]
    BY <2>2 DEF SensorContent
  <2>5. known[t.name] \in Seq(Reading)
    BY <2>1, <2>4
  <2>6. list \in Seq(Reading)
    <3>1. \A T : \A x \in T : \A q \in Seq(T) : Append(q, x) \in Seq(T)
      OBVIOUS
    <3> QED  BY <2>3, <2>5, <3>1
  <2>7. Lists(calls', list, SaidReadings(n, t.name) \cup {Now})
    <3>1. Lists(calls, known[t.name], SaidReadings(n, t.name))
      BY <1>3, <2>1 DEF SensorAgrees, ReadingsAgree
    <3>2. SaidReadings(n, t.name) \subseteq DOMAIN calls
      BY <1>1, SaidReadingsOld
    <3> QED  BY <1>1, <2>5, <3>1, <3>2, ListsAppend
  <2> HIDE DEF list
  <2>8. Put(known, t.name, list) \in [names -> Seq(Reading)]
    BY <2>1, <2>4, <2>6 DEF Put
  <2>9. /\ object \in SensorContent(names) /\ object.sensors = Put(known, t.name, list)
        /\ object.vectors = message[n].vectors /\ object.objectSensors = message[n].objectSensors
    BY <2>2, <2>8 DEF SensorContent
  <2>10. message' = [message EXCEPT ![n] = object]
    BY <1>5 DEF list
  <2> HIDE DEF object
  <2>11. /\ DOMAIN message' = DOMAIN message /\ message'[n] = object
         /\ \A x \in DOMAIN message : x # n => message'[x] = message[x]
    BY <2>1, <2>10
  <2>12. "reading" \notin {"object", "build", "simulatedTime", "pose", "sensor"} \cup Vector
    BY DEF Vector
  <2>13. VectorsAgree(n)' /\ PosesAgree(n)'
    <3>1. VectorsAgree(n) /\ PosesAgree(n)
      BY <1>3, <2>1 DEF SensorAgrees
    <3> QED  BY <1>1, <2>9, <2>11, <2>12, <3>1, VectorsFrame, PosesFrame
  <2>14. \A x, s : SensorNamed(x, s) <=> x = n /\ s = t.name
    <3>1. t = [object |-> n, name |-> t.name]
      BY <1>3 DEF SensorAgrees, SensorFollows
    <3>2. \A x, s : SensorNamed(x, s) <=> [object |-> x, name |-> s] = t
      BY <1>3, <2>1 DEF SensorAgrees, SensorFollows
    <3> HIDE DEF n
    <3>3. \A x, s : [object |-> x, name |-> s] = t <=> x = n /\ s = t.name
      BY <3>1
    <3> QED  BY <3>2, <3>3
  <2>15. ReadingsAgree(n)'
    <3>1. /\ Said("sensor", n)' = Said("sensor", n)
          /\ \A i \in Said("sensor", n) : calls'[i] = calls[i]
      <4> HIDE DEF n
      <4> QED  BY <1>1, <2>12, SaidStays
    <3>2. /\ DOMAIN message'[n].sensors = DOMAIN known
          /\ message'[n].sensors[t.name] = list
          /\ \A s \in DOMAIN known : s # t.name => message'[n].sensors[s] = known[s]
      BY <2>1, <2>9, <2>11 DEF Put
    <3>3. ReadingsAgree(n)
      BY <1>3, <2>1 DEF SensorAgrees
    <3>4. ASSUME NEW s \in DOMAIN known
          PROVE  Lists(calls', message'[n].sensors[s], SaidReadings(n, s)')
      <4>1. SaidReadings(n, s)' = IF s = t.name THEN SaidReadings(n, s) \cup {Now} ELSE SaidReadings(n, s)
        <5>1. \A x, v : SaidReadings(x, v)' = IF SensorNamed(x, v)
                                                THEN SaidReadings(x, v) \cup {Now} ELSE SaidReadings(x, v)
          BY <1>1, <2>12, SaidReadingsGrows
        <5> QED  BY <2>14, <5>1
      <4>2. CASE s = t.name
        BY <2>7, <3>2, <4>1, <4>2
      <4>3. CASE s # t.name
        <5>1. message'[n].sensors[s] = known[s] /\ Lists(calls, known[s], SaidReadings(n, s))
          BY <3>2, <3>3, <4>3 DEF ReadingsAgree
        <5>2. SaidReadings(n, s) \subseteq DOMAIN calls
          BY <1>1, SaidReadingsOld
        <5> QED  BY <1>1, <4>1, <4>3, <5>1, <5>2, ListsStays
      <4> QED  BY <4>2, <4>3
    <3> HIDE DEF n
    <3> QED  BY <3>1, <3>2, <3>3, <3>4 DEF ReadingsAgree
  <2>16. SensorFollows(currSensor)'
    BY <1>1, <1>2, <1>3, <2>12, SensorPointerFrame DEF SensorAgrees
  <2>17. /\ \A s \in currSensor' : /\ s.object \in DOMAIN message'
                                  /\ s.name \in DOMAIN message'[s.object].sensors
         /\ (\A a, b \in currSensor' : a = b) /\ currSensor' # {}
    <3>1. DOMAIN message'[n].sensors = DOMAIN known
      BY <2>1, <2>9, <2>11 DEF Put
    <3> QED  BY <1>2, <1>3, <2>1, <2>11, <3>1
  <2>18. /\ SensorInv /\ Live /\ History' /\ Grows("reading", kind) /\ n \in DOMAIN message
         /\ "reading" \notin {"object", "build", "simulatedTime"}
         /\ UNCHANGED <<current, status, time>> /\ held' \subseteq SensorInterface
         /\ \A x, s : SensorNamed(x, s) => x = n
         /\ message'[n] \in SensorContent(names)
         /\ current # {}
    BY <1>1, <1>2, <1>3, <1>5, <2>1, <2>9, <2>11, <2>14
  <2> HIDE DEF n
  <2> QED  BY <2>11, <2>13, <2>15, <2>16, <2>17, <2>18, SensorWriteStep
<1> QED  BY <1>2, <1>4, <1>5 DEF withReading, Update

(* build() keeps the invariant.                                            *)
LEMMA BuildSensorStep ==
  ASSUME SensorInv, buildSensor
  PROVE  SensorInv'
<1>1. History' /\ Grows("build", "")
  BY HistoryGrows DEF SensorInv, buildSensor, Build
<1>2. /\ Live /\ UNCHANGED <<held, current, currSensor, message, time>>
      /\ status' = IF status = "building" THEN "built" ELSE "hollow"
  BY DEF buildSensor, May, Build, Live
<1>3. SensorAgrees
  BY <1>2 DEF SensorInv
<1>4. "build" \notin {"object", "simulatedTime", "pose", "sensor", "reading"} \cup Vector
  BY DEF Vector
<1>5. Follows'
  BY <1>1, <1>2, <1>3, FollowsStep DEF SensorAgrees, SensorInv, SensorTypeOK
<1>6. /\ All("build")' # {} /\ All("object")' = All("object")
      /\ All("simulatedTime")' = All("simulatedTime")
  BY <1>1, AllGrows
<1>7. ASSUME NEW n \in DOMAIN message PROVE VectorsAgree(n)' /\ PosesAgree(n)' /\ ReadingsAgree(n)'
  <2>1. VectorsAgree(n) /\ PosesAgree(n) /\ ReadingsAgree(n) /\ message'[n] = message[n]
    BY <1>2, <1>3 DEF SensorAgrees
  <2> QED  BY <1>1, <1>4, <2>1, VectorsFrame, PosesFrame, ReadingsFrame
<1>8. SensorFollows(currSensor)' /\ TimeAgrees'
  BY <1>1, <1>2, <1>3, <1>4, SensorPointerFrame, TimeFrame DEF SensorAgrees
<1>9. SensorTypeOK'
  BY <1>2 DEF SensorInv, SensorTypeOK, hasSensor, has, Status
<1>10. SensorAgrees'
  BY <1>2, <1>3, <1>5, <1>6, <1>7, <1>8 DEF SensorAgrees
<1> QED  BY <1>1, <1>2, <1>6, <1>9, <1>10 DEF SensorInv, CrashOnlyBeforeFirstObject

(* The invariant holds in every behaviour of the builder, for any objects, *)
(* sensors, kinds of reading and number of calls.                          *)
THEOREM SensorInvariance == SensorSpec => []SensorInv
<1>1. SensorInv /\ [SensorNext]_sensorVars => SensorInv'
  <2> SUFFICES ASSUME SensorInv, [SensorNext]_sensorVars PROVE SensorInv'
    OBVIOUS
  <2>1. ASSUME NEW name \in Object, sensorObject(name) PROVE SensorInv'
    BY <2>1, SensorObjectStep
  <2>2. CASE withSimulatedTime
    BY <2>2, SimulatedTimeStep
  <2>3. ASSUME NEW vector \in Vector, withVector(vector) PROVE SensorInv'
    BY <2>3, WithVectorStep
  <2>4. ASSUME NEW kind \in ObjectSensor, withPose(kind) PROVE SensorInv'
    BY <2>4, WithPoseStep
  <2>5. ASSUME NEW name \in SensorName, withSensor(name) PROVE SensorInv'
    BY <2>5, WithSensorStep
  <2>6. ASSUME NEW kind \in Kind, withReading(kind) PROVE SensorInv'
    BY <2>6, WithReadingStep
  <2>7. CASE buildSensor
    BY <2>7, BuildSensorStep
  <2>8. CASE UNCHANGED sensorVars
    <3>1. UNCHANGED <<held, current, currSensor, message, time, status, calls>>
      BY <2>8 DEF sensorVars
    <3>2. /\ \A method : All(method)' = All(method)
          /\ \A method, name : Said(method, name)' = Said(method, name)
      BY <3>1 DEF All, Said, Until
    <3>3. \A name, s : SaidOf("sensor", name, s)' = SaidOf("sensor", name, s)
      BY <3>1, <3>2 DEF SaidOf
    <3>4. \A i : Since(i)' = Since(i)
      BY <3>2 DEF Since, Until
    <3>5. \A name, s : SaidReadings(name, s)' = SaidReadings(name, s)
      BY <3>3, <3>4 DEF SaidReadings
    <3>6. \A n : VectorsAgree(n)' <=> VectorsAgree(n)
      BY <3>1, <3>2 DEF VectorsAgree
    <3>7. \A n : PosesAgree(n)' <=> PosesAgree(n)
      BY <3>1, <3>2 DEF PosesAgree
    <3>8. \A n : ReadingsAgree(n)' <=> ReadingsAgree(n)
      BY <3>1, <3>2, <3>5 DEF ReadingsAgree
    <3>9. Follows' <=> Follows
      BY <3>1, <3>2 DEF Follows, Named
    <3>10. SensorFollows(currSensor)' <=> SensorFollows(currSensor)
      BY <3>1, <3>2, <3>3 DEF SensorFollows, SensorNamed
    <3>11. TimeAgrees' <=> TimeAgrees
      BY <3>1, <3>2 DEF TimeAgrees
    <3>12. SensorAgrees' <=> SensorAgrees
      BY <3>1, <3>2, <3>6, <3>7, <3>8, <3>9, <3>10, <3>11 DEF SensorAgrees
    <3>13. SensorTypeOK' <=> SensorTypeOK
      BY <3>1 DEF SensorTypeOK, hasSensor, has
    <3>14. CrashOnlyBeforeFirstObject' <=> CrashOnlyBeforeFirstObject
      BY <3>1, <3>2 DEF CrashOnlyBeforeFirstObject
    <3> QED  BY <3>1, <3>2, <3>12, <3>13, <3>14 DEF SensorInv, History, Live
  <2> QED  BY <2>1, <2>2, <2>3, <2>4, <2>5, <2>6, <2>7, <2>8 DEF SensorNext
<1> QED  BY <1>1, SensorInvInit, PTL DEF SensorSpec

(* Every variable keeps its type, and both pointers point into the message *)
(* (SensorMessageBuilder.cpp:54).                                          *)
THEOREM SensorTypeCorrect == SensorSpec => []SensorTypeOK
BY SensorInvariance, PTL DEF SensorInv

(* The one way into an indeterminate pointer before build() is the         *)
(* interface of an object that withSimulatedTime() returns                 *)
(* (SensorMessageBuilder.cpp:27).                                          *)
THEOREM SensorCrashes == SensorSpec => []CrashOnlyBeforeFirstObject
BY SensorInvariance, PTL DEF SensorInv

(* The readers of SensorMessage return what was said of each object: the   *)
(* last vectors, the first pose of each kind, and the readings of each     *)
(* sensor since it was named last.                                         *)
THEOREM SensorReaders == SensorSpec => []SensorReadersReturnWhatWasSaid
<1>1. SensorInv => SensorReadersReturnWhatWasSaid
  <2> SUFFICES ASSUME SensorAgrees, SensorTypeOK, History PROVE SensorReadersReturnWhatWasSaid
    BY DEF SensorInv, Live, SensorReadersReturnWhatWasSaid
  <2>1. {simulatedTime} = LastOf({0} \cup All("simulatedTime"))
    BY DEF SensorAgrees, TimeAgrees, simulatedTime
  <2>2. ASSUME NEW name
        PROVE  /\ has(name) <=> Said("object", name) # {}
               /\ ~ has(name) => \A method : Said(method, name) = {}
               /\ has(name) => VectorsAgree(name) /\ PosesAgree(name) /\ ReadingsAgree(name)
    BY DEF has, SensorAgrees, Follows
  <2>3. ASSUME NEW name, NEW vector \in Vector
        PROVE  readVector(vector, name) = IF has(name) THEN LastOf({0} \cup Said(vector, name)) ELSE {}
    BY <2>2 DEF readVector, VectorsAgree
  <2>4. ASSUME NEW name, NEW kind
        PROVE  objectPose(kind, name) = FirstOf(SaidOf("pose", name, kind))
    <3>1. CASE has(name)
      <4> DEFINE poses == message[name].objectSensors
      <4>1. Lists(calls, poses, Said("pose", name))
        BY <2>2, <3>1 DEF PosesAgree
      <4>2. poses \in Seq(Reading)
        BY <3>1 DEF has, SensorTypeOK, SensorContent
      <4>3. Said("pose", name) \subseteq Nat
        <5>1. DOMAIN calls \subseteq Nat
          BY DEF History
        <5> QED  BY <5>1 DEF Said, All
      <4>4. objectPose(kind, name) = FirstIn(poses, kind)
        BY <3>1 DEF objectPose, FirstIn
      <4>5. FirstWith(Said("pose", name), kind) = FirstOf(SaidOf("pose", name, kind))
        BY DEF FirstWith, SaidOf
      <4> HIDE DEF poses
      <4> QED  BY <4>1, <4>2, <4>3, <4>4, <4>5, FirstOfList
    <3>2. CASE ~ has(name)
      <4>1. SaidOf("pose", name, kind) = {}
        BY <2>2, <3>2 DEF SaidOf
      <4> QED  BY <3>2, <4>1 DEF objectPose, FirstOf
    <3> QED  BY <3>1, <3>2
  <2>5. ASSUME NEW name, NEW s
        PROVE  /\ hasSensor(name, s) <=> SaidOf("sensor", name, s) # {}
               /\ \A list \in sensor(name, s) :
                    Holds(list, UNION {Since(i) : i \in LastOf(SaidOf("sensor", name, s))})
    <3>1. hasSensor(name, s) <=> SaidOf("sensor", name, s) # {}
      BY <2>2 DEF hasSensor, ReadingsAgree, SaidOf, has
    <3>2. ASSUME NEW list \in sensor(name, s)
          PROVE  Holds(list, UNION {Since(i) : i \in LastOf(SaidOf("sensor", name, s))})
      <4>1. hasSensor(name, s) /\ list = message[name].sensors[s]
        BY DEF sensor
      <4>2. Lists(calls, list, SaidReadings(name, s))
        BY <2>2, <4>1 DEF hasSensor, ReadingsAgree
      <4> QED  BY <4>2 DEF Lists, Holds, SaidReadings
    <3> QED  BY <3>1, <3>2
  <2> QED  BY <2>1, <2>2, <2>3, <2>4, <2>5 DEF SensorReadersReturnWhatWasSaid
<1> QED  BY <1>1, SensorInvariance, PTL
==============================================================================
