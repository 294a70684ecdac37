----------------------------- MODULE Controllers -----------------------------
(***************************************************************************)
(* The controller programs of the repository, each on a REQ socket of its  *)
(* own: democlient.cpp, and client.py with its command line.  A controller *)
(* connects, sends and receives in turn, and leaves; some send a last      *)
(* ErrorMessage, to which no server answers, to end the simulation.        *)
(*                                                                         *)
(* The module has no server: CppDemo and PyDemo add one each.              *)
(***************************************************************************)
EXTENDS ZmqReqRep

CONSTANT MaxRange      \* bound of the model: the largest --range

ASSUME MaxRangeAssumption == MaxRange \in Nat

VARIABLES
  pc,       \* where each controller is in its program
  args,     \* its program and command line
  left      \* how many more round trips its loop makes

programs == <<pc, args, left>>

MessageType == {"HandshakeInit", "Handshake", "Control", "Sensor",
                "Reset", "Error", "SensorRequest"}

ASSUME BodyAssumption == MessageType \subseteq Body

(* What is sent first and what is sent in the loop, --range, and whether   *)
(* an ErrorMessage follows.                                                *)
Cpp == [first : {"HandshakeInit"}, then : {"Control"}, range : 0..MaxRange, endWithError : {FALSE},
        stops : {TRUE}]

Python == {a \in [first : {"HandshakeInit", "Control", "Reset", "SensorRequest"},
                  then : {"HandshakeInit", "Control", "Reset", "SensorRequest"},
                  range : 0..MaxRange, endWithError : BOOLEAN, stops : {FALSE}] : a.then = a.first}

PythonError == [first : {"Error"}, then : {"Error"}, range : {0}, endWithError : {FALSE},
                stops : {TRUE}]

Args == Cpp \cup Python \cup PythonError

PC == {"off", "connect", "first", "loop", "recv", "end", "leave", "closing", "exited"}

Goto(c, label) == pc' = [pc EXCEPT ![c] = label]

ControllersOK == /\ pc \in [Client -> PC]
                 /\ args \in [Client -> Args]
                 /\ left \in [Client -> 0..MaxRange]

ControllersInit == /\ pc = [c \in Client |-> "off"]
                   /\ args \in [Client -> Args]
                   /\ left = [c \in Client |-> args[c].range]
------------------------------------------------------------------------------
Launch(c) ==
  /\ pc[c] = "off"
  /\ ReqNew(c) /\ Goto(c, "connect") /\ UNCHANGED <<args, left>>

(* Mutant: the program sends before it connects. *)
ConnectForgotten(c) ==
  /\ pc[c] = "connect" /\ Goto(c, "first") /\ UNCHANGED <<sockets, args, left>>

Connect(c) ==
  /\ pc[c] = "connect"
  /\ ReqConnect(c) /\ Goto(c, "first") /\ UNCHANGED <<args, left>>

(* An ErrorMessage sent first is not waited for: client.py stops at once.  *)
SendFirst(c) ==
  /\ pc[c] = "first"
  /\ ReqSend(c, args[c].first)
  /\ Goto(c, IF args[c].first = "Error" THEN "leave" ELSE "recv")
  /\ UNCHANGED <<args, left>>

SendNext(c) ==
  /\ pc[c] = "loop"
  /\ ReqSend(c, args[c].then)
  /\ left' = [left EXCEPT ![c] = @ - 1]
  /\ Goto(c, "recv") /\ UNCHANGED args

(* Mutant: the loop makes one more round. *)
ReceiveOnceMore(c) ==
  /\ pc[c] = "recv"
  /\ \E e \in From(replies, c) : ReqRecv(c, e)
  /\ Goto(c, IF left[c] >= 0 THEN "loop" ELSE "end") /\ UNCHANGED <<args, left>>

(* Whatever the answer is, it is taken for one: neither program looks at   *)
(* its type before going on.                                               *)
Receive(c) ==
  /\ pc[c] = "recv"
  /\ \E e \in From(replies, c) : ReqRecv(c, e)
  /\ Goto(c, IF left[c] > 0 THEN "loop" ELSE "end") /\ UNCHANGED <<args, left>>

(* --end-with-errormessage. *)
SendError(c) ==
  /\ pc[c] = "end" /\ args[c].endWithError
  /\ ReqSend(c, "Error")
  /\ Goto(c, "leave") /\ UNCHANGED <<args, left>>

EndLoop(c) ==
  /\ pc[c] = "end" /\ ~args[c].endWithError
  /\ Goto(c, "leave") /\ UNCHANGED <<args, left, sockets>>

(* Client::~Client and Client.stop() terminate the context.  client.py     *)
(* that ends without stop() leaves that to the interpreter's shutdown,     *)
(* which may terminate the context or drop what is unsent.                 *)
Leave(c) ==
  \/ /\ pc[c] = "leave"
     /\ ReqClose(c) /\ Goto(c, "closing") /\ UNCHANGED <<args, left>>
  \/ /\ pc[c] = "leave" /\ ~args[c].stops
     /\ ReqCrash(c) /\ Goto(c, "exited") /\ UNCHANGED <<args, left>>

Exit(c) ==
  /\ pc[c] = "closing"
  /\ ReqClosed(c) /\ Goto(c, "exited") /\ UNCHANGED <<args, left>>

(* Control-C or a kill, at any point: both end the process at once.        *)
Interrupt(c) ==
  /\ pc[c] \notin {"off", "exited"}
  /\ ReqCrash(c) /\ Goto(c, "exited") /\ UNCHANGED <<args, left>>

Program(c) == \/ Connect(c) \/ SendFirst(c) \/ SendNext(c) \/ Receive(c)
              \/ SendError(c) \/ EndLoop(c) \/ Leave(c) \/ Exit(c)

ControllersNext == \E c \in Client : Launch(c) \/ Program(c) \/ Interrupt(c)

NetworkNext == Network /\ UNCHANGED programs

(* A started program runs on, and ZeroMQ's threads move what can be moved. *)
(* Nobody has to start a program or to interrupt one.                      *)
ControllersFairness ==
  \A c \in Client :
    /\ WF_<<sockets, programs>>(Program(c))
    /\ WF_<<sockets, programs>>(\E e \in From(outbox, c) : Flush(e) /\ UNCHANGED programs)
------------------------------------------------------------------------------
(* What a controller sent last, while it waits for the answer. *)
Asked(c) == IF left[c] = args[c].range THEN args[c].first ELSE args[c].then

(* Where the documentation, the tests and both servers agree: the answer   *)
(* on its way to a controller is the one to what it last sent, whatever    *)
(* the server was asked by others in between and however servers came and  *)
(* went, and no answer is on its way to a controller that has ended its    *)
(* conversation with an ErrorMessage.  The integration tests assert the    *)
(* first two.                                                              *)
AnswersFit ==
  \A e \in replies :
    /\ Asked(e.client) = "HandshakeInit" => e.body = "Handshake"
    /\ Asked(e.client) = "Control" => e.body = "Sensor"
    /\ pc[e.client] = "recv"

(* If from some moment on there is a server, then every controller that    *)
(* was started gets through its program, however many servers came and     *)
(* went before, unless an earlier server took its request with it.         *)
ControllersFinish ==
  \A c \in Client : <>[]Up => (pc[c] # "off" ~> (pc[c] = "exited" \/ Stranded(c)))

(* An ErrorMessage whose sender terminates its context reaches the server  *)
(* that is there and ends the simulation: unless its sender is killed      *)
(* before, some server goes down.                                          *)
ErrorEndsSimulation ==
  \A c \in Client :
    pc[c] = "closing" /\ (\E e \in Traffic(c) : e.body = "Error") ~> ~Up \/ req[c] = "dead"
==============================================================================
