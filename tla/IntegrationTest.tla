--------------------------- MODULE IntegrationTest ---------------------------
(***************************************************************************)
(* The integration tests: pytest runs one test after the other, each       *)
(* starts a demoserver process of its own on the same port, talks to it    *)
(* with non-blocking calls on the socket of a pclick Client, and tells it  *)
(* to stop, or kills it, in the cleanup fixture.  The tests of the class   *)
(* all do what the one of test_click_integration.py does.                  *)
(*                                                                         *)
(* Time is not modelled: a test may run out of tries, and communicate() of *)
(* its second, whenever what they wait for has not come.  Popen succeeds,  *)
(* whether the port is free or not: a demoserver that finds it taken ends. *)
(*                                                                         *)
(* Nobody waits for a killed process.  From the signal on it runs none of  *)
(* its code, but its port is free only once the kernel has taken it down,  *)
(* which may be after the next test has started.  Until then what the next *)
(* test sends stays in its outbox: a kernel may still accept connections   *)
(* for the old socket, but nobody answers ZeroMQ's greeting on them.       *)
(***************************************************************************)
EXTENDS ZmqReqRep

VARIABLES
  pc,        \* where each test is; a Client is the client object of one test
  verdict,   \* what its body came to
  died,      \* whether some server has died without being told or killed (history)
  held       \* whether the port is still a process's that was killed or has died

tests == <<pc, verdict, died, held>>
vars == <<sockets, tests>>

(* demoserver.cpp; its actions leave alone what is not the sockets'. *)
Demo == INSTANCE CppDemo WITH args <- verdict, left <- died, MaxRange <- 0

ASSUME BodyAssumption == Demo!MessageType \subseteq Body

PC == {"waiting", "construct", "connect", "handshake", "handshaken", "control", "controlled",
       "cleanup", "stop", "stopping", "communicate", "kill", "done"}

Verdict == {"none", "passed", "AssertionError", "TimeoutError"}

Running(c) == pc[c] \notin {"waiting", "done"}

Goto(c, label) == pc' = [pc EXCEPT ![c] = label]

Judge(c, v) == verdict' = [verdict EXCEPT ![c] = v]

Init == /\ SocketsInit
        /\ pc = [c \in Client |-> "waiting"]
        /\ verdict = [c \in Client |-> "none"]
        /\ died = FALSE /\ held = FALSE
------------------------------------------------------------------------------
start_simulation(c) ==
  /\ pc[c] = "waiting" /\ \A d \in Client : ~Running(d)
  /\ RepNew /\ Goto(c, "construct") /\ UNCHANGED <<verdict, died, held>>

Construct(c) ==
  /\ pc[c] = "construct"
  /\ ReqNew(c) /\ Goto(c, "connect") /\ UNCHANGED <<verdict, died, held>>

Connect(c) ==
  /\ pc[c] = "connect"
  /\ ReqConnect(c) /\ Goto(c, "handshake") /\ UNCHANGED <<verdict, died, held>>

Ask(c, here, body, next) ==
  /\ pc[c] = here
  /\ ReqSend(c, body) /\ Goto(c, next) /\ UNCHANGED <<verdict, died, held>>

(* The poll that finds the answer, and the assertion on its type. *)
Poll(c, here, type, next, v) ==
  /\ pc[c] = here
  /\ \E e \in From(replies, c) :
       /\ ReqRecv(c, e)
       /\ IF e.body = type
          THEN Goto(c, next) /\ Judge(c, v)
          ELSE Goto(c, "cleanup") /\ Judge(c, "AssertionError")
  /\ UNCHANGED <<died, held>>

(* Mutant: the exception of the last try goes through. *)
GiveUpWithAgain(c) ==
  /\ pc[c] \in {"handshaken", "controlled"} /\ From(replies, c) = {}
  /\ Goto(c, "cleanup") /\ Judge(c, "Again") /\ UNCHANGED <<sockets, died, held>>

(* Not even after 1000 tries. *)
GiveUp(c) ==
  /\ pc[c] \in {"handshaken", "controlled"} /\ From(replies, c) = {}
  /\ Goto(c, "cleanup") /\ Judge(c, "TimeoutError") /\ UNCHANGED <<sockets, died, held>>

send_handshake(c) == \/ Ask(c, "handshake", "HandshakeInit", "handshaken")
                     \/ Poll(c, "handshaken", "Handshake", "control", "none")

send_control_message(c) == \/ Ask(c, "control", "Control", "controlled")
                           \/ Poll(c, "controlled", "Sensor", "cleanup", "passed")

send_stop_simulation(c) == Ask(c, "cleanup", "Error", "stop")

(* Mutant: the answer that is still due is waited for first. *)
StopAwaitsAnswer(c) ==
  /\ pc[c] = "cleanup"
  /\ \E e \in From(replies, c) : ReqRecv(c, e)
  /\ UNCHANGED tests

(* The socket still awaits an answer: the ErrorMessage is refused, and the *)
(* exception passes by client.stop(), so that the socket stays open.       *)
StopRefused(c) ==
  /\ pc[c] = "cleanup" /\ req[c] = "awaiting"
  /\ Goto(c, "communicate") /\ UNCHANGED <<sockets, verdict, died, held>>

Stop(c) ==
  /\ pc[c] = "stop"
  /\ ReqClose(c) /\ Goto(c, "stopping") /\ UNCHANGED <<verdict, died, held>>

(* Mutant: the context goes on closing in the background. *)
StoppedAtOnce(c) ==
  /\ pc[c] = "stopping"
  /\ Goto(c, "communicate") /\ UNCHANGED <<sockets, verdict, died, held>>

Stopped(c) ==
  /\ pc[c] = "stopping"
  /\ ReqClosed(c) /\ Goto(c, "communicate") /\ UNCHANGED <<verdict, died, held>>

(* communicate() returns at the end of the process or raises after a       *)
(* second, and kill() follows either way.                                  *)
Communicate(c) ==
  /\ pc[c] = "communicate"
  /\ Goto(c, "kill") /\ UNCHANGED <<sockets, verdict, died, held>>

(* Neither kill has an effect on a process that has ended; on one that has *)
(* not, both only send the signal.                                         *)
Kill(c) ==
  /\ pc[c] = "kill"
  /\ \/ RepCrash /\ held' = (held \/ bound)
     \/ rep = "down" /\ UNCHANGED <<sockets, held>>
  /\ Goto(c, "done") /\ UNCHANGED <<verdict, died>>

Test(c) == \/ start_simulation(c) \/ Construct(c) \/ Connect(c)
           \/ send_handshake(c) \/ send_control_message(c) \/ GiveUp(c)
           \/ send_stop_simulation(c) \/ StopRefused(c) \/ Stop(c) \/ Stopped(c)
           \/ Communicate(c) \/ Kill(c)

(* The port is one process's at a time. *)
Server == Demo!Loop /\ ~(held /\ bound') /\ UNCHANGED tests

(* zmq's bind() throws EADDRINUSE, and nothing in demoserver catches it. *)
BindRefused ==
  /\ held /\ rep = "recv" /\ ~bound
  /\ RepCrash /\ UNCHANGED tests

ServerDies == RepCrash /\ died' = TRUE /\ held' = (held \/ bound) /\ UNCHANGED <<pc, verdict>>

(* The kernel has taken the process down. *)
PortReleased == held /\ held' = FALSE /\ UNCHANGED <<sockets, pc, verdict, died>>

Deliver(c) == (\E e \in From(outbox, c) : Flush(e)) /\ UNCHANGED tests

Next == \/ \E c \in Client : Test(c) \/ Deliver(c)
        \/ Server \/ BindRefused \/ ServerDies \/ PortReleased
        \/ Loss /\ UNCHANGED tests

(* pytest goes on to the next test, the server's loop runs, and ZeroMQ's   *)
(* threads deliver what can be delivered.  The kernel may take its time.   *)
Spec == /\ Init /\ [][Next]_vars
        /\ WF_vars(Server)
        /\ \A c \in Client : WF_vars(Test(c)) /\ WF_vars(Deliver(c))
------------------------------------------------------------------------------
TypeOK == /\ SocketsOK
          /\ pc \in [Client -> PC]
          /\ verdict \in [Client -> Verdict]
          /\ died \in BOOLEAN /\ held \in BOOLEAN

(* What the tests assert of the answers holds whatever an earlier test has *)
(* left behind: slow servers, servers that die and requests of clients     *)
(* that were never stopped can make a test give up, never misread.         *)
AssertionsHold == \A c \in Client : verdict[c] # "AssertionError"

(* An ErrorMessage that cleanup sent to one test's server never reaches    *)
(* the next one's: wherever it is, its test is still in its cleanup, so    *)
(* the server it ends is the one that test has started.                    *)
ErrorsStayInTheirTest ==
  \A c \in Client :
    (\E e \in Traffic(c) : e.body = "Error") => pc[c] \in {"stop", "stopping", "communicate", "kill"}

(* "Make sure the process is killed so that next test is not blocked", and *)
(* "Really, make sure": no test's server is turned away from the port by   *)
(* what an earlier test started.                                           *)
NextTestIsNotBlocked == [][~BindRefused]_vars

(* A test that waits in client.stop() for a server that is gone: nobody    *)
(* starts another one, and the lines that kill the process are not reached.*)
Blocked(c) == pc[c] = "stopping" /\ rep = "down" /\ From(outbox, c) # {}

(* Every test gets done, however slow its server: the one thing that can   *)
(* block the run is a server that died by itself before it was told.       *)
TestsFinish == \A c \in Client : <>(pc[c] = "done" \/ (died /\ \E d \in Client : Blocked(d)))
==============================================================================
