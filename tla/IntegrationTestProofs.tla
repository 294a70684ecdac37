------------------------ MODULE IntegrationTestProofs ------------------------
(***************************************************************************)
(* The integration tests, for any number of tests in a row, on a network   *)
(* that loses messages or not, with servers that are slow or die: what a   *)
(* test leaves behind never makes a later one fail an assertion.           *)
(***************************************************************************)
EXTENDS IntegrationTest, ZmqReqRepProofs

(* Only a server that listens has accepted anything. *)
Shut == /\ bound => Up
        /\ inbox # {} => bound

(* pytest runs one test at a time. *)
OneTest == \A c, d \in Client : Running(c) /\ Running(d) => c = d

(* What a test asks, and what it may be told. *)
Asks == {"HandshakeInit", "Control", "Error"}
Told == {"Handshake", "Sensor"}

InCleanup == {"stop", "stopping", "communicate", "kill"}

(* What the one message of a test can be, by where the test is: a test     *)
(* that gave up leaves any of its questions, or the answer to it.          *)
May(label) == CASE label = "handshaken" -> {"HandshakeInit", "Handshake"}
                [] label = "controlled" -> {"Control", "Sensor"}
                [] label \in InCleanup  -> Asks \cup Told
                [] OTHER                -> (Asks \cup Told) \ {"Error"}

Messages == /\ \A e \in outbox \cup inbox \cup serving : e.body \in Asks
            /\ \A e \in replies : e.body \in Told
            /\ \A c \in Client : \A e \in Traffic(c) : e.body \in May(pc[c])

(* client.stop() returns only when the ErrorMessage has left. *)
ErrorsLeave == \A e \in outbox : e.body = "Error" => pc[e.client] \in {"stop", "stopping"}

(* What the proofs carry from step to step. *)
TestsInv == /\ SocketsInv /\ TypeOK /\ Shut
            /\ OneTest /\ Messages /\ ErrorsLeave /\ AssertionsHold
------------------------------------------------------------------------------
ServerStep == Server \/ BindRefused \/ ServerDies

(* Every message of the tests and the server is one that a frame can hold. *)
LEMMA BodiesSent ==
  {"HandshakeInit", "Handshake", "Control", "Sensor", "Error"} \subseteq Body
BY BodyAssumption DEF Demo!MessageType

(* The server, the tests and the network do nothing but make socket calls. *)
LEMMA ServerStepIsRepStep ==
  ASSUME ServerStep
  PROVE  RepStep
<1> USE DEF Demo!Bind, Demo!End, Demo!HandleError, Demo!Serve, Demo!HandleHandshakeInit,
            Demo!HandleControl, Demo!HandleOther, Demo!RepBind, Demo!RepExit, Demo!RepClose,
            Demo!RepStop, Demo!RepRecv, Demo!RepSend,
            Demo!Up, Up, RepBind, RepExit, RepClose, RepStop, RepRecv, RepSend
<1>1. CASE BindRefused \/ ServerDies
  BY <1>1 DEF BindRefused, ServerDies, RepStep
<1>2. CASE Demo!Bind \/ Demo!End \/ Demo!HandleError
  BY <1>2 DEF RepStep
<1>3. CASE Demo!Serve
  BY <1>3 DEF RepStep
<1>4. CASE Demo!HandleHandshakeInit \/ Demo!HandleControl \/ Demo!HandleOther
  BY <1>4, BodiesSent DEF RepStep
<1> QED
  BY <1>1, <1>2, <1>3, <1>4 DEF ServerStep, Server, Demo!Loop

LEMMA TestStepIsSocketStep ==
  ASSUME NEW c \in Client, Test(c) \/ Deliver(c)
  PROVE  SocketsNext \/ UNCHANGED sockets
<1> USE DEF SocketsNext, ReqStep, RepStep
<1>1. CASE start_simulation(c) \/ Construct(c) \/ Connect(c)
  BY <1>1 DEF start_simulation, Construct, Connect
<1>2. CASE send_handshake(c) \/ send_control_message(c) \/ send_stop_simulation(c)
  BY <1>2, BodiesSent
     DEF send_handshake, send_control_message, send_stop_simulation, Ask, Poll, From
<1>3. CASE GiveUp(c) \/ StopRefused(c) \/ Communicate(c)
  BY <1>3 DEF GiveUp, StopRefused, Communicate
<1>4. CASE Stop(c) \/ Stopped(c) \/ Kill(c)
  BY <1>4 DEF Stop, Stopped, Kill
<1>5. CASE Deliver(c)
  BY <1>5 DEF Deliver, Network, From
<1> QED
  BY <1>1, <1>2, <1>3, <1>4, <1>5 DEF Test

LEMMA StepIsSocketStep ==
  ASSUME Next
  PROVE  SocketsNext \/ UNCHANGED sockets
BY TestStepIsSocketStep, ServerStepIsRepStep
   DEF Next, ServerStep, SocketsNext, Network, PortReleased
------------------------------------------------------------------------------
(* Where a test goes. *)
LEMMA TypesStep ==
  ASSUME TestsInv, Next
  PROVE  /\ pc' \in [Client -> PC] /\ verdict' \in [Client -> Verdict]
         /\ died' \in BOOLEAN /\ held' \in BOOLEAN
         /\ AssertionsHold'
<1> USE DEF TestsInv, TypeOK, AssertionsHold
<1>1. ASSUME NEW c \in Client, Test(c)
      PROVE  /\ pc' \in [Client -> PC] /\ verdict' \in [Client -> Verdict]
             /\ died' = died /\ held' \in BOOLEAN
             /\ AssertionsHold'
  <2> USE DEF Goto, Judge, PC, Verdict
  <2>1. CASE start_simulation(c) \/ Construct(c) \/ Connect(c) \/ send_stop_simulation(c)
             \/ StopRefused(c) \/ Stop(c) \/ Stopped(c) \/ Communicate(c) \/ Kill(c)
    BY <2>1 DEF start_simulation, Construct, Connect, send_stop_simulation, StopRefused, Stop,
      Stopped, Communicate, Kill, Ask
  <2>2. CASE send_handshake(c)
    <3>1. ASSUME NEW e \in From(replies, c), pc[c] = "handshaken" PROVE e.body = "Handshake"
      BY <3>1 DEF Messages, May, InCleanup, Told, Traffic, From
    <3> QED
      BY <2>2, <3>1 DEF send_handshake, Ask, Poll
  <2>3. CASE send_control_message(c)
    <3>1. ASSUME NEW e \in From(replies, c), pc[c] = "controlled" PROVE e.body = "Sensor"
      BY <3>1 DEF Messages, May, InCleanup, Told, Traffic, From
    <3> QED
      BY <2>3, <3>1 DEF send_control_message, Ask, Poll
  <2>4. CASE GiveUp(c)
    BY <2>4 DEF GiveUp
  <2> QED
    BY <1>1, <2>1, <2>2, <2>3, <2>4 DEF Test
<1>2. CASE ~\E c \in Client : Test(c)
  <2>1. pc' = pc /\ verdict' = verdict /\ died' \in {died, TRUE} /\ held' \in BOOLEAN
    BY <1>2 DEF Next, Deliver, Server, BindRefused, ServerDies, PortReleased, tests,
      SocketsInv, SocketsOK
  <2> QED
    BY <2>1
<1> QED
  BY <1>1, <1>2

(* Fewer messages, of tests that are where they were or that may have the  *)
(* messages they have left.                                                *)
LEMMA FewerMessages ==
  ASSUME TestsInv,
         outbox' \subseteq outbox,
         outbox' \cup inbox' \cup serving' \subseteq outbox \cup inbox \cup serving,
         replies' \subseteq replies,
         \A d \in Client : \A e \in Traffic(d)' : e.body \in May(pc'[d]),
         \A e \in outbox' : e.body = "Error" => pc'[e.client] \in {"stop", "stopping"}
  PROVE  Messages' /\ ErrorsLeave'
BY DEF TestsInv, Messages, ErrorsLeave

(* A test's own steps. *)
LEMMA TestMessages ==
  ASSUME TestsInv, NEW c \in Client, Test(c)
  PROVE  Messages' /\ ErrorsLeave'
<1> USE DEF TestsInv, TypeOK
<1>0. \A e \in outbox \cup inbox \cup serving \cup replies : e.client \in Client
  BY DEF SocketsOK, Envelope
<1>1. ASSUME NEW here, NEW body \in Asks, NEW next, Ask(c, here, body, next),
             body \in May(next), body = "Error" => next = "stop"
      PROVE  Messages' /\ ErrorsLeave'
  <2> DEFINE q == [client |-> c, n |-> sent[c] + 1, body |-> body]
  <2>1. Traffic(c) = {}
    BY <1>1 DEF Ask, ReqSend, SocketsInv, OneOutstanding
  <2>2. /\ outbox' = outbox \cup {q} /\ UNCHANGED <<inbox, serving, replies>>
        /\ pc' = [pc EXCEPT ![c] = next]
    BY <1>1 DEF Ask, ReqSend, Goto
  <2>3. Traffic(c)' = {q} /\ \A d \in Client \ {c} : Traffic(d)' = Traffic(d)
    BY <2>1, <2>2 DEF Traffic, From
  <2>4. \A e \in outbox : e.client # c
    BY <2>1 DEF Traffic, From
  <2>5. Messages'
    BY <1>1, <2>2, <2>3 DEF Messages
  <2>6. ErrorsLeave'
    BY <1>0, <1>1, <2>2, <2>4 DEF ErrorsLeave
  <2> QED
    BY <2>5, <2>6
<1>2. ASSUME NEW label, Goto(c, label), outbox' = outbox, inbox' \subseteq inbox,
             serving' \subseteq serving, replies' \subseteq replies,
             \A e \in Traffic(c)' : e.body \in May(label),
             \A e \in From(outbox, c) : e.body = "Error" => label \in {"stop", "stopping"}
      PROVE  Messages' /\ ErrorsLeave'
  <2>1. pc' = [pc EXCEPT ![c] = label]
    BY <1>2 DEF Goto
  <2>2. \A d \in Client : Traffic(d)' \subseteq Traffic(d)
    BY <1>2 DEF Traffic, From
  <2>3. \A d \in Client : \A e \in Traffic(d)' : e.body \in May(pc'[d])
    BY <1>2, <2>1, <2>2 DEF Messages
  <2>4. \A e \in outbox' : e.body = "Error" => pc'[e.client] \in {"stop", "stopping"}
    BY <1>0, <1>2, <2>1 DEF ErrorsLeave, From
  <2> QED
    BY <1>2, <2>3, <2>4, FewerMessages
<1>3. \A e \in Traffic(c) : e.body \in May(pc[c])
  BY DEF Messages
<1> USE DEF May, InCleanup, Asks, Told
<1>4. CASE start_simulation(c) \/ Construct(c) \/ Connect(c)
  <2>1. PICK label \in {"construct", "connect", "handshake"} :
          Goto(c, label) /\ pc[c] \in {"waiting", "construct", "connect"}
    BY <1>4 DEF start_simulation, Construct, Connect
  <2>2. UNCHANGED <<outbox, inbox, serving, replies>>
    BY <1>4 DEF start_simulation, Construct, Connect, RepNew, ReqNew, ReqConnect
  <2>3. Traffic(c)' = Traffic(c)
    BY <2>2 DEF Traffic, From
  <2>4. \A e \in From(outbox, c) : e.body # "Error"
    BY <1>3, <2>1 DEF Traffic
  <2> QED
    BY <1>2, <1>3, <2>1, <2>2, <2>3, <2>4
<1>5. CASE \/ Ask(c, "handshake", "HandshakeInit", "handshaken")
           \/ Ask(c, "control", "Control", "controlled") \/ send_stop_simulation(c)
  BY <1>1, <1>5 DEF send_stop_simulation
<1>6. CASE \/ Poll(c, "handshaken", "Handshake", "control", "none")
           \/ Poll(c, "controlled", "Sensor", "cleanup", "passed")
  <2>1. PICK e \in From(replies, c) : ReqRecv(c, e)
    BY <1>6 DEF Poll
  <2>2. PICK label : Goto(c, label)
    BY <1>6 DEF Poll
  <2>3. Traffic(c)' = {}
    <3>1. \A f \in Traffic(c) : f = e
      BY <2>1 DEF SocketsInv, OneOutstanding, Traffic
    <3> QED
      BY <2>1, <3>1 DEF ReqRecv, Traffic, From, SocketsInv, OnePlace
  <2>4. From(outbox, c) = {}
    BY <2>1, <2>3 DEF ReqRecv, Traffic, From
  <2> QED
    BY <1>2, <2>1, <2>2, <2>3, <2>4 DEF ReqRecv
<1>7. CASE GiveUp(c) \/ StopRefused(c)
  <2>1. PICK label \in {"cleanup", "communicate"} :
          Goto(c, label) /\ pc[c] \in {"handshaken", "controlled", "cleanup"}
    BY <1>7 DEF GiveUp, StopRefused
  <2>2. UNCHANGED <<outbox, inbox, serving, replies>>
    BY <1>7 DEF GiveUp, StopRefused, sockets
  <2>3. Traffic(c)' = Traffic(c)
    BY <2>2 DEF Traffic, From
  <2>4. \A e \in From(outbox, c) : e.body # "Error"
    BY <1>3, <2>1 DEF Traffic
  <2> QED
    BY <1>2, <1>3, <2>1, <2>2, <2>3, <2>4
<1>8. CASE Stop(c) \/ Stopped(c) \/ Communicate(c)
  <2>1. PICK label \in {"stopping", "communicate", "kill"} :
          /\ Goto(c, label) /\ pc[c] \in {"stop", "stopping", "communicate"}
          /\ label # "stopping" => pc[c] \notin {"stop", "stopping"} \/ From(outbox, c) = {}
    BY <1>8 DEF Stop, Stopped, Communicate, ReqClosed
  <2>2. outbox' = outbox /\ inbox' = inbox /\ serving' = serving /\ replies' \subseteq replies
    BY <1>8 DEF Stop, Stopped, Communicate, ReqClose, ReqClosed, sockets
  <2>3. Traffic(c)' \subseteq Traffic(c)
    BY <2>2 DEF Traffic, From
  <2>4. \A e \in From(outbox, c) : e.body = "Error" => label \in {"stop", "stopping"}
    BY <2>1 DEF ErrorsLeave, From
  <2> QED
    BY <1>2, <1>3, <2>1, <2>2, <2>3, <2>4
<1>9. CASE Kill(c)
  <2>1. Goto(c, "done") /\ pc[c] = "kill"
    BY <1>9 DEF Kill
  <2>2. outbox' = outbox /\ inbox' = {} /\ serving' = {} /\ replies' \subseteq replies
    BY <1>9 DEF Kill, RepCrash, RepStop, SocketsInv, OneServed, Shut, Up, sockets
  <2>3. \A e \in From(outbox, c) : e.body # "Error"
    BY <2>1 DEF ErrorsLeave, From
  <2>4. \A e \in Traffic(c)' : e.body \in May("done")
    <3>1. Traffic(c)' \subseteq From(outbox, c) \cup From(replies, c)
      BY <2>2 DEF Traffic, From
    <3>2. \A e \in From(outbox, c) : e.body \in May("done")
      BY <2>3 DEF Messages, From
    <3>3. \A e \in From(replies, c) : e.body \in May("done")
      BY DEF Messages, From
    <3> QED
      BY <3>1, <3>2, <3>3
  <2> QED
    BY <1>2, <2>1, <2>2, <2>3, <2>4
<1> QED
  BY <1>4, <1>5, <1>6, <1>7, <1>8, <1>9 DEF Test, send_handshake, send_control_message

(* An answer of demoserver to the question it has in its hands. *)
LEMMA AnswerMessages ==
  ASSUME TestsInv, NEW question, NEW body,
         <<question, body>> \in {<<"HandshakeInit", "Handshake">>, <<"Control", "Sensor">>},
         \E e \in serving : e.body = question,
         rep = "send", rep' = "recv", serving' = {},
         replies' = replies \cup
           {[client |-> e.client, n |-> e.n, body |-> body] :
              e \in {s \in serving : req[s.client] = "awaiting"}},
         UNCHANGED <<outbox, inbox, pc>>
  PROVE  Messages' /\ ErrorsLeave'
<1> USE DEF TestsInv
<1>1. PICK s \in serving : serving = {s} /\ s.body = question
  BY DEF SocketsInv, OneServed
<1> DEFINE a == [client |-> s.client, n |-> s.n, body |-> body]
<1>2. replies' \subseteq replies \cup {a}
  BY <1>1
<1>3. s.client \in Client /\ s \in Traffic(s.client)
  BY <1>1 DEF SocketsInv, SocketsOK, Envelope, Traffic, From
<1>4. question \in May(pc[s.client])
  BY <1>1, <1>3 DEF Messages
<1>5. body \in May(pc[s.client]) /\ body \in Told
  BY <1>4 DEF May, InCleanup, Asks, Told
<1>6. ASSUME NEW d \in Client, NEW e \in Traffic(d)' PROVE e.body \in May(pc[d])
  <2>1. e \in Traffic(d) \/ (e = a /\ d = s.client)
    BY <1>2 DEF Traffic, From
  <2> QED
    BY <1>5, <2>1 DEF Messages
<1>7. Messages'
  BY <1>2, <1>5, <1>6 DEF Messages
<1> QED
  BY <1>7 DEF ErrorsLeave

(* The server's steps and the network's. *)
LEMMA OtherMessages ==
  ASSUME TestsInv, Next, ~\E c \in Client : Test(c)
  PROVE  Messages' /\ ErrorsLeave'
<1>0. UNCHANGED pc
  BY DEF Next, Deliver, Server, BindRefused, ServerDies, PortReleased, tests
<1>1. ASSUME outbox' \subseteq outbox, replies' \subseteq replies,
             outbox' \cup inbox' \cup serving' \subseteq outbox \cup inbox \cup serving
      PROVE  Messages' /\ ErrorsLeave'
  <2>1. \A d \in Client : Traffic(d)' \subseteq Traffic(d)
    BY <1>1 DEF Traffic, From
  <2>2. \A d \in Client : \A e \in Traffic(d)' : e.body \in May(pc'[d])
    BY <1>0, <2>1 DEF TestsInv, Messages
  <2>3. \A e \in outbox' : e.body = "Error" => pc'[e.client] \in {"stop", "stopping"}
    BY <1>0, <1>1 DEF TestsInv, ErrorsLeave
  <2> QED
    BY <1>1, <2>2, <2>3, FewerMessages
<1>2. CASE Loss \/ \E c \in Client : Deliver(c)
  <2>1. /\ outbox' \subseteq outbox /\ replies' \subseteq replies
        /\ outbox' \cup inbox' \cup serving' \subseteq outbox \cup inbox \cup serving
    BY <1>2 DEF Loss, Deliver, Flush, LoseRequest, LoseReply, From
  <2> QED
    BY <1>1, <2>1
<1>3. CASE \/ BindRefused \/ ServerDies \/ PortReleased
           \/ Demo!Bind \/ Demo!Serve \/ Demo!HandleError \/ Demo!End
  <2>1. /\ outbox' \subseteq outbox /\ replies' \subseteq replies
        /\ outbox' \cup inbox' \cup serving' \subseteq outbox \cup inbox \cup serving
    BY <1>3 DEF BindRefused, ServerDies, PortReleased, sockets, RepCrash, RepStop,
      Demo!Bind, Demo!RepBind, Demo!Serve, Demo!RepRecv,
      Demo!HandleError, Demo!RepClose, Demo!RepStop, Demo!End, Demo!RepExit
  <2> QED
    BY <1>1, <2>1
<1>4. CASE Demo!HandleHandshakeInit
  BY <1>0, <1>4, AnswerMessages DEF Demo!HandleHandshakeInit, Demo!Got, Demo!RepSend
<1>5. CASE Demo!HandleControl
  BY <1>0, <1>5, AnswerMessages DEF Demo!HandleControl, Demo!Got, Demo!RepSend
<1>6. ~Demo!HandleOther
  <2>1. ASSUME rep = "send" PROVE \E e \in serving : e.body \in Asks
    BY <2>1 DEF TestsInv, SocketsInv, OneServed, Messages
  <2> QED
    BY <2>1 DEF Demo!HandleOther, Demo!Got, Asks
<1> QED
  BY <1>2, <1>3, <1>4, <1>5, <1>6 DEF Next, Server, Demo!Loop
------------------------------------------------------------------------------
(* Whatever has accepted a request listens, and stops listening with it.   *)
LEMMA ShutStep ==
  ASSUME TestsInv, Next
  PROVE  Shut'
<1> USE DEF TestsInv, Shut, Up
<1>1. ASSUME NEW c \in Client, ReqStep(c) PROVE Shut'
  BY <1>1 DEF ReqStep, ReqNew, ReqConnect, ReqBlock, ReqSend, ReqRecv, ReqClose, ReqClosed, ReqCrash
<1>2. CASE RepNew \/ RepBind \/ (\E e \in inbox : RepRecv(e)) \/ \E body \in Body : RepSend(body)
  BY <1>2 DEF RepNew, RepBind, RepRecv, RepSend
<1>3. CASE RepClose \/ RepExit \/ RepCrash
  BY <1>3 DEF RepClose, RepExit, RepCrash, RepStop
<1>4. CASE Network
  BY <1>4 DEF Network, Loss, Flush, LoseRequest, LoseReply
<1>5. CASE UNCHANGED sockets
  BY <1>5 DEF sockets
<1> QED
  BY <1>1, <1>2, <1>3, <1>4, <1>5, StepIsSocketStep DEF SocketsNext, RepStep

(* A test starts when no other runs. *)
LEMMA SequenceStep ==
  ASSUME TestsInv, Next
  PROVE  OneTest'
<1> USE DEF TestsInv, TypeOK, OneTest, Running
<1>1. ASSUME NEW c \in Client, start_simulation(c) PROVE OneTest'
  BY <1>1 DEF start_simulation, Goto
<1>2. ASSUME NEW c \in Client, Test(c), ~start_simulation(c) PROVE OneTest'
  <2>1. PICK label \in PC : Goto(c, label) /\ pc[c] \notin {"waiting", "done"}
    <3>1. CASE send_handshake(c) \/ send_control_message(c) \/ send_stop_simulation(c)
      BY <3>1 DEF send_handshake, send_control_message, send_stop_simulation, Ask, Poll, PC
    <3>2. CASE \/ Construct(c) \/ Connect(c) \/ GiveUp(c) \/ StopRefused(c)
               \/ Stop(c) \/ Stopped(c) \/ Communicate(c) \/ Kill(c)
      BY <3>2 DEF Construct, Connect, GiveUp, StopRefused, Stop, Stopped, Communicate, Kill, PC
    <3> QED
      BY <1>2, <3>1, <3>2 DEF Test
  <2> QED
    BY <2>1 DEF Goto
<1>3. CASE ~\E c \in Client : Test(c)
  <2>1. pc' = pc
    BY <1>3 DEF Next, Deliver, Server, BindRefused, ServerDies, PortReleased, tests
  <2> QED
    BY <2>1
<1> QED
  BY <1>1, <1>2, <1>3
------------------------------------------------------------------------------
(* The inductive invariant of the integration tests. *)
THEOREM TestsInvariance == Spec => []TestsInv
<1>1. Init => TestsInv
  <2> SUFFICES ASSUME Init PROVE TestsInv
    OBVIOUS
  <2>1. SocketsInv
    BY InvInit DEF Init
  <2>2. TypeOK /\ AssertionsHold
    BY <2>1 DEF Init, TypeOK, SocketsInv, PC, Verdict, AssertionsHold
  <2>3. Shut /\ OneTest
    BY DEF Init, SocketsInit, Shut, OneTest, Running
  <2>4. Messages /\ ErrorsLeave
    BY DEF Init, SocketsInit, Messages, ErrorsLeave, Traffic, From
  <2> QED
    BY <2>1, <2>2, <2>3, <2>4 DEF TestsInv
<1>2. TestsInv /\ [Next]_vars => TestsInv'
  <2> SUFFICES ASSUME TestsInv, [Next]_vars PROVE TestsInv'
    OBVIOUS
  <2>1. CASE Next
    <3>1. SocketsInv'
      BY <2>1, StepIsSocketStep, InvStep DEF TestsInv
    <3>2. TypeOK' /\ AssertionsHold'
      BY <2>1, <3>1, TypesStep DEF TypeOK, SocketsInv
    <3>3. Messages' /\ ErrorsLeave'
      BY <2>1, TestMessages, OtherMessages
    <3> QED
      BY <2>1, <3>1, <3>2, <3>3, ShutStep, SequenceStep DEF TestsInv
  <2>2. CASE UNCHANGED vars
    <3>1. UNCHANGED <<sockets, pc, verdict, died, held>>
      BY <2>2 DEF vars, tests
    <3>2. SocketsInv'
      BY <3>1, InvStep DEF TestsInv
    <3> QED
      BY <3>1, <3>2 DEF sockets, TestsInv, TypeOK, SocketsInv, Shut, Up, OneTest, Running, Messages,
        Traffic, From, ErrorsLeave, AssertionsHold
  <2> QED
    BY <2>1, <2>2
<1> QED
  BY <1>1, <1>2, PTL DEF Spec

(* Types, for any number of tests. *)
THEOREM TestsTypeCorrect == Spec => []TypeOK
<1>1. TestsInv => TypeOK
  BY DEF TestsInv
<1> QED
  BY <1>1, TestsInvariance, PTL

(* What the tests assert of an answer holds whatever earlier tests left    *)
(* behind: no test takes the answer to another question for its own.       *)
THEOREM TestsNeverMisread == Spec => []AssertionsHold
<1>1. TestsInv => AssertionsHold
  BY DEF TestsInv
<1> QED
  BY <1>1, TestsInvariance, PTL

(* The ErrorMessage of a test's cleanup never ends another test's server.  *)
THEOREM ErrorsAreTheirTests == Spec => []ErrorsStayInTheirTest
<1>1. TestsInv => ErrorsStayInTheirTest
  BY DEF TestsInv, Messages, May, InCleanup, ErrorsStayInTheirTest
<1> QED
  BY <1>1, TestsInvariance, PTL

(* Whoever gives up, is killed or comes next, a test's client and the      *)
(* server of the moment take turns as RoundTrip says.                      *)
THEOREM TestsTakeTurns == Spec => RefinesRoundTrip
<1>1. Init => Abstract!Init
  BY RefinesInit DEF Init
<1>2. TestsInv /\ [Next]_vars => [Abstract!Next]_phase
  <2> SUFFICES ASSUME TestsInv, [Next]_vars PROVE [Abstract!Next]_phase
    OBVIOUS
  <2>1. [SocketsNext]_sockets
    BY StepIsSocketStep DEF vars
  <2> QED
    BY <2>1, RefinesStep DEF TestsInv
<1> QED
  BY <1>1, <1>2, TestsInvariance, PTL DEF Spec, RefinesRoundTrip, Abstract!Spec

(* What an earlier test left behind never strands a later one: it waits in *)
(* vain only once a frame was lost or its server is gone.                  *)
THEOREM TestsStranding ==
  Spec => [][\A c \in Client : Stranded(c)' /\ ~Stranded(c) => ~Up' \/ Loss]_vars
<1> DEFINE A == \A c \in Client : Stranded(c)' /\ ~Stranded(c) => ~Up' \/ Loss
<1>1. TestsInv /\ [Next]_vars => [A]_vars
  <2> SUFFICES ASSUME TestsInv, [Next]_vars PROVE A
    OBVIOUS
  <2>1. [SocketsNext]_sockets
    BY StepIsSocketStep DEF vars
  <2> QED
    BY <2>1, StrandedStep DEF TestsInv
<1> QED
  BY <1>1, TestsInvariance, PTL DEF Spec
==============================================================================
