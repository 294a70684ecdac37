------------------------------ MODULE Builder ------------------------------
(***************************************************************************)
(* What the three message builders of the C++ library have in common.  A   *)
(* builder is one object seen through several interfaces; every call       *)
(* returns the same object as another of them.  The caller may keep all    *)
(* the pointers it was given, as democlient.cpp does, so at each step any  *)
(* method of any interface it has seen is called.  Each builder fills a    *)
(* map of objects (robots, in a handshake) through a pointer to the one    *)
(* that was named last.                                                    *)
(***************************************************************************)
EXTENDS Naturals, Sequences

CONSTANTS Object,
          MaxCalls    \* bound of the model: calls on one builder

ASSUME MaxCallsAssumption == MaxCalls \in Nat

VARIABLES
  held,      \* the interfaces the caller has a pointer to
  current,   \* the object currObject points to: none before the first is named
  message,   \* the map of objects, also after build() has given it away
  status,    \* of the builder and its message
  calls      \* what was called, with what (a history variable)

Status == {"building", "built", "hollow", "crashed"}

EmptyMap == [k \in {} |-> 0]

(* The caller has a builder with these interfaces, and an empty message. *)
Fresh(interfaces) ==
  /\ held = interfaces
  /\ current = {} /\ message = EmptyMap
  /\ status = "building"
  /\ calls = <<>>
------------------------------------------------------------------------------
(* The next call is the Now-th.  A value that a call gave is represented   *)
(* by the number of that call.                                             *)
Now == Len(calls) + 1

May(interface) == interface \in held /\ status \in {"building", "built"} /\ Len(calls) < MaxCalls

Get(interface) == held' = held \cup {interface}

Called(method, arg) == calls' = Append(calls, [method |-> method, arg |-> arg])

(* map[key] = value, and the entry that map[key] makes where there is none.*)
Put(map, key, value) == [k \in DOMAIN map \cup {key} |-> IF k = key THEN value ELSE map[k]]

Allocate(map, key, value) == IF key \in DOMAIN map THEN map ELSE Put(map, key, value)

(* The call goes through a null or an indeterminate pointer, or one to a   *)
(* message that its owner has destroyed.                                   *)
Crash == status' = "crashed" /\ UNCHANGED <<current, message>>

(* A new object for what is not there yet.  After build() that goes        *)
(* through the null pointer that is left.                                  *)
Name(name, new) ==
  IF status = "building"
    THEN message' = Allocate(message, name, new) /\ current' = {name} /\ UNCHANGED status
    ELSE Crash

(* A write to the object of this name. *)
Update(name, update(_)) ==
  message' = [message EXCEPT ![name] = update(@)] /\ UNCHANGED <<current, status>>

(* A call that writes to *currObject.  Before the first object that is no  *)
(* object at all; after build() it is one of the message that was given    *)
(* away, which its owner may have destroyed.                               *)
Write(update(_)) ==
  \/ \E name \in current : Update(name, update)
  \/ (current = {} \/ status = "built") /\ Crash

(* The second build() gives a message without content. *)
Build == /\ Called("build", "")
         /\ status' = IF status = "building" THEN "built" ELSE "hollow"
         /\ UNCHANGED <<held, current, message>>
------------------------------------------------------------------------------
(* What the caller has said, for the references of the readers. *)

All(method) == {i \in DOMAIN calls : calls[i].method = method}

Until(S, i) == {j \in S : j <= i}

FirstOf(S) == {i \in S : \A j \in S : i <= j}
LastOf(S) == {i \in S : \A j \in S : j <= i}

(* The calls that came while the object was this one, and those of them    *)
(* with this argument.                                                     *)
Said(method, name) ==
  {i \in All(method) : \E j \in LastOf(Until(All("object"), i)) : calls[j].arg = name}

SaidOf(method, name, arg) == {i \in Said(method, name) : calls[i].arg = arg}

(* The sequence lists S in ascending order. *)
InOrder(q, S) ==
  /\ {q[i] : i \in DOMAIN q} = S
  /\ \A i, j \in DOMAIN q : i < j => q[i] < q[j]
=============================================================================
