------------------------------- MODULE PyDemo -------------------------------
(***************************************************************************)
(* The Python demo: the same controllers, and server.py in the place of    *)
(* the simulation.  Its loop receives, answers the two messages it knows,  *)
(* and receives again whether it answered or not: on a REP socket that     *)
(* still owes an answer the second receive raises, and nothing catches it. *)
(***************************************************************************)
EXTENDS Controllers

VARIABLE turn       \* the loop is about to call recv(), or has a request to handle

pyDemoVars == <<sockets, programs, turn>>

PyGot(type) == \E e \in serving : e.body = type

PyStart == RepNew /\ turn' = "recv" /\ UNCHANGED programs

PyBind == RepBind /\ UNCHANGED <<programs, turn>>

(* recv() does not wait: the rounds that find nothing change nothing. *)
PyServe ==
  /\ turn = "recv" /\ bound
  /\ \E e \in inbox : RepRecv(e)
  /\ turn' = "handle" /\ UNCHANGED programs

(* Mutant: recv() takes every ZMQError for Again, and the loop spins. *)
RefusedReceiveSwallowed == turn = "recv" /\ rep = "send" /\ UNCHANGED pyDemoVars

(* The uncaught ZMQError: the process ends. *)
RefusedReceive ==
  /\ turn = "recv" /\ rep = "send"
  /\ RepCrash /\ UNCHANGED <<programs, turn>>

PyHandleHandshakeInit ==
  /\ turn = "handle" /\ PyGot("HandshakeInit")
  /\ RepSend("Handshake") /\ turn' = "recv" /\ UNCHANGED programs

(* Mutant: a control message gets the handshake's answer. *)
PyHandleControlSwapped ==
  /\ turn = "handle" /\ PyGot("Control")
  /\ RepSend("Handshake") /\ turn' = "recv" /\ UNCHANGED programs

PyHandleControl ==
  /\ turn = "handle" /\ PyGot("Control")
  /\ RepSend("Sensor") /\ turn' = "recv" /\ UNCHANGED programs

(* Mutant: what is not known is answered, the ErrorMessage too. *)
HandleOtherAnswers ==
  /\ turn = "handle" /\ rep = "send" /\ ~PyGot("HandshakeInit") /\ ~PyGot("Control")
  /\ RepSend("Error") /\ turn' = "recv" /\ UNCHANGED programs

(* Every other message, the ErrorMessage too, falls through both ifs. *)
PyHandleOther ==
  /\ turn = "handle" /\ rep = "send" /\ ~PyGot("HandshakeInit") /\ ~PyGot("Control")
  /\ turn' = "recv" /\ UNCHANGED <<sockets, programs>>

(* Control-C: os._exit, with whatever was unsent. *)
PyInterruptServer == RepCrash /\ UNCHANGED <<programs, turn>>

PyLoop == \/ PyBind \/ PyServe \/ RefusedReceive
        \/ PyHandleHandshakeInit \/ PyHandleControl \/ PyHandleOther

PyInit == SocketsInit /\ ControllersInit /\ turn = "recv"

PyNext == \/ (ControllersNext \/ NetworkNext) /\ UNCHANGED turn
        \/ PyStart \/ PyLoop \/ PyInterruptServer

PySpec == PyInit /\ [][PyNext]_pyDemoVars /\ ControllersFairness /\ WF_pyDemoVars(PyLoop)
------------------------------------------------------------------------------
PyTypeOK == SocketsOK /\ ControllersOK /\ turn \in {"recv", "handle"}
==============================================================================
