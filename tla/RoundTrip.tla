------------------------------ MODULE RoundTrip ------------------------------
(***************************************************************************)
(* What Click promises its users, with no sockets in sight: "client and    *)
(* server take turn" (src/README.md).  A client asks one question at a     *)
(* time, the server works on one question at a time, and a question whose  *)
(* answer is lost is never asked again on the client's behalf.             *)
(***************************************************************************)
CONSTANT Client     \* the controllers; a restarted controller is another element

VARIABLE phase      \* where each client's current round trip stands

Phase == {"absent", "idle", "asked", "served", "answered", "lost", "gone"}

Init == phase = [c \in Client |-> "absent"]

Served == {c \in Client : phase[c] = "served"}

Step(c, from, to) == phase[c] \in from /\ phase' = [phase EXCEPT ![c] = to]

(* A controller shows up; from now on it may ask. *)
Join(c) == Step(c, {"absent"}, "idle")

(* It asks a question: only when the previous one was answered. *)
Ask(c) == Step(c, {"idle"}, "asked")

(* The server picks up a question: only when it owes nobody an answer. *)
Serve(c) == Served = {} /\ Step(c, {"asked"}, "served")

(* The server answers the question it works on. *)
Answer(c) == Step(c, {"served"}, "answered")

(* The client takes the answer and may ask again. *)
Take(c) == Step(c, {"answered"}, "idle")

(* The server or the network drops some questions or answers: a question   *)
(* that is lost stays so, nothing asks it again.                           *)
Lose(S) == /\ \A c \in S : phase[c] \in {"asked", "served", "answered"}
           /\ phase' = [c \in Client |-> IF c \in S THEN "lost" ELSE phase[c]]

(* A controller leaves, at any moment. *)
Leave(c) == Step(c, {"absent", "idle", "asked", "served", "answered", "lost"}, "gone")

Next == \/ \E c \in Client : \/ Join(c) \/ Ask(c) \/ Serve(c)
                             \/ Answer(c) \/ Take(c) \/ Leave(c)
        \/ \E S \in SUBSET Client : Lose(S)

Spec == Init /\ [][Next]_phase
==============================================================================
