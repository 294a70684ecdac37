------------------------------- MODULE CppDemo -------------------------------
(***************************************************************************)
(* The C++ demo: controllers and the stand-in for a simulation that        *)
(* demoserver.cpp is, a loop of receive, switch and send.  Whoever runs    *)
(* the demo starts it, interrupts it, and starts it again.                 *)
(***************************************************************************)
EXTENDS Controllers

vars == <<sockets, programs>>

(* The request the loop is handling: rep = "send". *)
Got(type) == \E e \in serving : e.body = type

Start == RepNew /\ UNCHANGED programs

Bind == RepBind /\ UNCHANGED programs

(* The non-blocking receive is called until it gives a message: the rounds *)
(* that find nothing change nothing.                                       *)
Serve == (\E e \in inbox : RepRecv(e)) /\ UNCHANGED programs

(* Mutant: a control message gets the handshake's answer. *)
HandleControlSwapped == Got("Control") /\ RepSend("Handshake") /\ UNCHANGED programs

(* Mutant: an error message is answered like any other, and the loop goes on. *)
HandleErrorGoesOn == Got("Error") /\ RepSend("Error") /\ UNCHANGED programs

HandleHandshakeInit == Got("HandshakeInit") /\ RepSend("Handshake") /\ UNCHANGED programs

HandleControl == Got("Control") /\ RepSend("Sensor") /\ UNCHANGED programs

(* main() returns without an answer, and ~Server closes the socket. *)
HandleError == Got("Error") /\ RepClose /\ UNCHANGED programs

HandleOther ==
  /\ rep = "send"
  /\ ~Got("HandshakeInit") /\ ~Got("Control") /\ ~Got("Error")
  /\ RepSend("Error") /\ UNCHANGED programs

End == RepExit /\ UNCHANGED programs

InterruptServer == RepCrash /\ UNCHANGED programs

Loop == \/ Bind \/ Serve
        \/ HandleHandshakeInit \/ HandleControl \/ HandleError \/ HandleOther
        \/ End

Init == SocketsInit /\ ControllersInit

Next == ControllersNext \/ Start \/ Loop \/ InterruptServer \/ NetworkNext

(* The server's process runs on once it is started. *)
Spec == Init /\ [][Next]_vars /\ ControllersFairness /\ WF_vars(Loop)
------------------------------------------------------------------------------
TypeOK == SocketsOK /\ ControllersOK
==============================================================================
