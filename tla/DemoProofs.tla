----------------------------- MODULE DemoProofs -----------------------------
(***************************************************************************)
(* The two demos, for any number of controllers, command lines and rounds, *)
(* with servers that come and go and a network that loses messages or not. *)
(* What the controllers keep to, against any server, is proved once; of    *)
(* demoserver.cpp and of demo/server.py only their own steps are left.     *)
(***************************************************************************)
EXTENDS CppDemo, PyDemo, ZmqReqRepProofs

(* Where a controller is in its program says what its loop counter holds.  *)
Rounds ==
  \A c \in Client :
    /\ left[c] <= args[c].range
    /\ pc[c] \in {"off", "connect", "first"} => left[c] = args[c].range
    /\ pc[c] = "loop" => left[c] > 0

(* A question on its way is what its sender asked last. *)
Questions ==
  \A e \in outbox \cup inbox \cup serving : e.body \in {Asked(e.client), "Error"}

(* Whoever is owed an answer, and not because of an ErrorMessage, is       *)
(* waiting for it.                                                         *)
Awaited ==
  \A e \in outbox \cup inbox \cup serving :
    req[e.client] = "awaiting" /\ e.body # "Error" => pc[e.client] = "recv"

ProgramsInv == ControllersOK /\ Rounds /\ Questions /\ Awaited

(* What a command line sends is a message, and its range is within the     *)
(* bound.                                                                  *)
LEMMA ArgsSend ==
  ASSUME NEW a \in Args
  PROVE  a.first \in Body /\ a.then \in Body /\ "Error" \in Body /\ a.range \in 0..MaxRange
<1>1. 0 \in 0..MaxRange
  BY MaxRangeAssumption
<1> QED
  BY <1>1, BodyAssumption DEF Args, Cpp, Python, PythonError, MessageType

(* A controller does nothing to its socket but make socket calls. *)
LEMMA ControllerStepIsSocketStep ==
  ASSUME ControllersOK, ControllersNext
  PROVE  SocketsNext \/ UNCHANGED sockets
<1> SUFFICES ASSUME NEW c \in Client, Launch(c) \/ Program(c) \/ Interrupt(c)
             PROVE  ReqStep(c) \/ UNCHANGED sockets
  BY DEF ControllersNext, SocketsNext
<1> USE DEF ReqStep
<1>1. CASE Launch(c) \/ Connect(c) \/ Interrupt(c) \/ Exit(c) \/ Leave(c) \/ EndLoop(c)
  BY <1>1 DEF Launch, Connect, Interrupt, Exit, Leave, EndLoop
<1>2. CASE Receive(c)
  BY <1>2 DEF Receive, From
<1>3. CASE SendFirst(c) \/ SendNext(c) \/ SendError(c)
  <2>1. args[c] \in Args
    BY DEF ControllersOK
  <2> QED
    BY <1>3, <2>1, ArgsSend DEF SendFirst, SendNext, SendError
<1> QED
  BY <1>1, <1>2, <1>3 DEF Program

(* Labels and counters: only the loop counts, and only while there is      *)
(* something to count.                                                     *)
LEMMA RoundsStep ==
  ASSUME ControllersOK, Rounds, ControllersNext
  PROVE  ControllersOK' /\ Rounds'
<1> SUFFICES ASSUME NEW c \in Client, Launch(c) \/ Program(c) \/ Interrupt(c)
             PROVE  ControllersOK' /\ Rounds'
  BY DEF ControllersNext
<1> USE DEF ControllersOK, Rounds, Goto, PC
<1>0. \A d \in Client : args[d].range \in 0..MaxRange
  BY ArgsSend
<1>1. CASE SendNext(c)
  BY <1>0, <1>1, MaxRangeAssumption DEF SendNext
<1>2. CASE Receive(c)
  BY <1>2, MaxRangeAssumption DEF Receive
<1>3. CASE Launch(c) \/ Connect(c) \/ SendFirst(c)
  BY <1>3 DEF Launch, Connect, SendFirst
<1>4. CASE SendError(c) \/ EndLoop(c) \/ Leave(c) \/ Exit(c) \/ Interrupt(c)
  BY <1>4 DEF SendError, EndLoop, Leave, Exit, Interrupt
<1> QED
  BY <1>1, <1>2, <1>3, <1>4 DEF Program

(* A controller's step changes what it is waiting about only when it asks  *)
(* again, and then nothing of it is on its way.                            *)
LEMMA AskedMoves ==
  ASSUME SocketsInv, ProgramsInv, ControllersNext, NEW d \in Client, Traffic(d) # {}
  PROVE  Asked(d)' = Asked(d)
<1> PICK c \in Client : Launch(c) \/ Program(c) \/ Interrupt(c)
  BY DEF ControllersNext
<1>1. CASE SendNext(c)
  <2>1. Traffic(c) = {}
    BY <1>1 DEF SendNext, ReqSend, SocketsInv, OneOutstanding
  <2>2. d # c
    BY <2>1
  <2> QED
    BY <1>1, <2>2 DEF SendNext, Asked, ProgramsInv, ControllersOK
<1>2. CASE ~SendNext(c)
  BY <1>2 DEF Program, Launch, Connect, SendFirst, Receive, SendError, EndLoop, Leave, Exit,
    Interrupt, Asked
<1> QED
  BY <1>1, <1>2

(* Messages that stay where they are or only move on remain the question   *)
(* they were; a new one is the one its sender goes on to wait about.       *)
LEMMA QuestionsStep ==
  ASSUME SocketsInv, ProgramsInv, ControllersNext
  PROVE  Questions'
<1> PICK c \in Client : Launch(c) \/ Program(c) \/ Interrupt(c)
  BY DEF ControllersNext
<1>0. outbox \subseteq Envelope /\ inbox \subseteq Envelope /\ serving \subseteq Envelope
  BY DEF SocketsInv, SocketsOK
<1>1. \A e \in outbox \cup inbox \cup serving : e.body \in {Asked(e.client)', "Error"}
  <2> TAKE e \in outbox \cup inbox \cup serving
  <2>1. Traffic(e.client) # {} /\ e.client \in Client
    BY <1>0 DEF Traffic, From, Envelope
  <2>2. Asked(e.client)' = Asked(e.client)
    BY <2>1, AskedMoves
  <2> QED
    BY <2>2 DEF ProgramsInv, Questions
<1>2. CASE SendFirst(c) \/ SendNext(c) \/ SendError(c)
  <2> DEFINE body == IF SendFirst(c) THEN args[c].first
                     ELSE IF SendNext(c) THEN args[c].then ELSE "Error"
             q == [client |-> c, n |-> sent[c] + 1, body |-> body]
  <2>1. /\ outbox' = outbox \cup {q}
        /\ inbox' = inbox /\ serving' = serving
    BY <1>2 DEF SendFirst, SendNext, SendError, ReqSend
  <2>2. body \in {Asked(c)', "Error"}
    <3>1. CASE SendFirst(c)
      BY <3>1 DEF SendFirst, Asked, ProgramsInv, Rounds
    <3>2. CASE SendNext(c)
      <4>1. pc[c] = "loop" /\ pc[c] # "first"
        BY <3>2 DEF SendNext
      <4>2. left'[c] = left[c] - 1 /\ left[c] <= args[c].range /\ args' = args
        BY <3>2 DEF SendNext, ProgramsInv, ControllersOK, Rounds
      <4>3. left[c] \in Nat /\ args[c].range \in Nat
        BY ArgsSend DEF ProgramsInv, ControllersOK
      <4>4. left'[c] # args'[c].range
        BY <4>2, <4>3
      <4> QED
        BY <3>2, <4>1, <4>2, <4>4 DEF SendFirst, Asked
    <3>3. CASE ~SendFirst(c) /\ ~SendNext(c)
      BY <3>3
    <3> QED
      BY <3>1, <3>2, <3>3
  <2>3. q.body = body /\ q.client = c
    OBVIOUS
  <2> HIDE DEF body, q
  <2> QED
    BY <1>1, <2>1, <2>2, <2>3 DEF Questions
<1>3. CASE ~(SendFirst(c) \/ SendNext(c) \/ SendError(c))
  <2>1. outbox' \subseteq outbox /\ inbox' \subseteq inbox /\ serving' = serving
    BY <1>3 DEF Program, Launch, Connect, Receive, EndLoop, Leave, Exit, Interrupt, ReqNew,
      ReqConnect, ReqRecv, ReqClose, ReqClosed, ReqCrash, sockets
  <2> QED
    BY <1>1, <2>1 DEF Questions
<1> QED
  BY <1>2, <1>3

(* A controller that waits does nothing but take the answer or die, and    *)
(* what it sends, unless it is an ErrorMessage, it waits about.            *)
LEMMA AwaitedStep ==
  ASSUME SocketsInv, ProgramsInv, ControllersNext
  PROVE  Awaited'
<1> PICK c \in Client : Launch(c) \/ Program(c) \/ Interrupt(c)
  BY DEF ControllersNext
<1> USE DEF Goto
<1>0. /\ pc \in [Client -> PC] /\ req \in [Client -> ReqState]
      /\ \A e \in outbox \cup inbox \cup serving : e.client \in Client
  BY DEF ProgramsInv, ControllersOK, SocketsInv, SocketsOK, Envelope
<1>1. CASE SendFirst(c) \/ SendNext(c) \/ SendError(c)
  <2>1. PICK body : /\ ReqSend(c, body) /\ (body # "Error" => pc'[c] = "recv")
                    /\ \A d \in Client \ {c} : pc'[d] = pc[d]
    <3>1. CASE SendFirst(c)
      BY <1>0, <3>1 DEF SendFirst
    <3>2. CASE SendNext(c)
      BY <1>0, <3>2 DEF SendNext
    <3>3. CASE SendError(c)
      BY <1>0, <3>3 DEF SendError
    <3> QED
      BY <1>1, <3>1, <3>2, <3>3
  <2>2. Traffic(c) = {}
    BY <2>1 DEF ReqSend, SocketsInv, OneOutstanding
  <2>3. \A e \in outbox \cup inbox \cup serving : e.client \in Client \ {c}
    BY <1>0, <2>2 DEF Traffic, From
  <2> DEFINE q == [client |-> c, n |-> sent[c] + 1, body |-> body]
  <2>4. outbox' = outbox \cup {q} /\ inbox' = inbox /\ serving' = serving
    BY <2>1 DEF ReqSend
  <2>5. \A d \in Client \ {c} : req'[d] = req[d]
    BY <1>0, <2>1 DEF ReqSend
  <2>6. q.client = c /\ q.body = body
    OBVIOUS
  <2> HIDE DEF q
  <2> QED
    BY <2>1, <2>3, <2>4, <2>5, <2>6 DEF ProgramsInv, Awaited
<1>2. CASE ~(SendFirst(c) \/ SendNext(c) \/ SendError(c))
  <2>1. outbox' \subseteq outbox /\ inbox' \subseteq inbox /\ serving' = serving
    BY <1>2 DEF Program, Launch, Connect, Receive, EndLoop, Leave, Exit, Interrupt, ReqNew,
      ReqConnect, ReqRecv, ReqClose, ReqClosed, ReqCrash, sockets
  <2>2. \A d \in Client \ {c} : pc'[d] = pc[d] /\ req'[d] = req[d]
    BY <1>0, <1>2 DEF Program, Launch, Connect, Receive, EndLoop, Leave, Exit, Interrupt, ReqNew,
      ReqConnect, ReqRecv, ReqClose, ReqClosed, ReqCrash, sockets
  <2>3. CASE Launch(c) \/ Receive(c) \/ Leave(c) \/ Exit(c) \/ Interrupt(c)
    <3>1. req'[c] # "awaiting"
      BY <1>0, <2>3 DEF Launch, Receive, Leave, Exit, Interrupt, ReqNew, ReqRecv, ReqClose,
        ReqClosed, ReqCrash
    <3> QED
      BY <1>0, <2>1, <2>2, <3>1 DEF ProgramsInv, Awaited
  <2>4. CASE Connect(c) \/ EndLoop(c)
    <3>1. pc[c] # "recv" /\ req' = req
      BY <2>4 DEF Connect, EndLoop, ReqConnect, sockets
    <3> QED
      BY <1>0, <2>1, <2>2, <3>1 DEF ProgramsInv, Awaited
  <2> QED
    BY <1>2, <2>3, <2>4 DEF Program
<1> QED
  BY <1>1, <1>2

(* The server and the network make no questions. *)
LEMMA QuestionsKept ==
  ASSUME ProgramsInv, RepStep \/ Network, UNCHANGED programs
  PROVE  ProgramsInv'
<1>1. ControllersOK' /\ Rounds'
  BY DEF programs, ProgramsInv, ControllersOK, Rounds
<1>2. outbox' \cup inbox' \cup serving' \subseteq outbox \cup inbox \cup serving
  <2>1. CASE Network
    BY <2>1 DEF Network, Loss, Flush, LoseRequest, LoseReply
  <2>2. CASE RepStep
    BY <2>2 DEF RepStep, RepNew, RepBind, RepRecv, RepSend, RepClose, RepExit, RepCrash, RepStop
  <2> QED
    BY <2>1, <2>2
<1>3. \A e : Asked(e.client)' = Asked(e.client)
  BY DEF Asked, programs
<1>4. pc' = pc /\ req' = req
  BY DEF programs, Network, Loss, Flush, LoseRequest, LoseReply, RepStep, RepNew, RepBind, RepRecv,
    RepSend, RepClose, RepExit, RepCrash, RepStop
<1> QED
  BY <1>1, <1>2, <1>3, <1>4 DEF ProgramsInv, Questions, Awaited
------------------------------------------------------------------------------
(* An answer that fits the question the server has in its hands fits what  *)
(* its receiver is waiting about.                                          *)
LEMMA NewAnswerFits ==
  ASSUME ProgramsInv, AnswersFit, UNCHANGED programs, NEW body, RepSend(body),
         \A e \in serving : /\ e.body # "Error"
                            /\ e.body = "HandshakeInit" => body = "Handshake"
                            /\ e.body = "Control" => body = "Sensor"
  PROVE  AnswersFit'
<1>1. pc' = pc /\ \A c : Asked(c)' = Asked(c)
  BY DEF Asked, programs
<1>2. ASSUME NEW r \in replies'
      PROVE  /\ Asked(r.client) = "HandshakeInit" => r.body = "Handshake"
             /\ Asked(r.client) = "Control" => r.body = "Sensor"
             /\ pc[r.client] = "recv"
  <2>1. CASE r \in replies
    BY <2>1 DEF AnswersFit
  <2>2. CASE r \notin replies
    <3>1. PICK e \in serving : /\ r = [client |-> e.client, n |-> e.n, body |-> body]
                              /\ req[e.client] = "awaiting"
      BY <2>2 DEF RepSend
    <3>2. e.body = Asked(e.client) /\ pc[e.client] = "recv"
      BY <3>1 DEF ProgramsInv, Questions, Awaited
    <3> QED
      BY <3>1, <3>2
  <2> QED
    BY <2>1, <2>2
<1> QED
  BY <1>1, <1>2 DEF AnswersFit

(* Answers on their way are lost and otherwise left alone. *)
LEMMA AnswersKept ==
  ASSUME AnswersFit, replies' \subseteq replies, UNCHANGED programs
  PROVE  AnswersFit'
<1>1. pc' = pc /\ \A c : Asked(c)' = Asked(c)
  BY DEF Asked, programs
<1> QED
  BY <1>1 DEF AnswersFit

(* A controller with an answer on its way takes it or dies. *)
LEMMA ControllersKeepAnswers ==
  ASSUME SocketsInv, ProgramsInv, AnswersFit, ControllersNext
  PROVE  AnswersFit'
<1> PICK c \in Client : Launch(c) \/ Program(c) \/ Interrupt(c)
  BY DEF ControllersNext
<1>0. pc \in [Client -> PC] /\ \A e \in replies : e.client \in Client
  BY DEF ProgramsInv, ControllersOK, SocketsInv, SocketsOK, Envelope
<1>1. replies' \subseteq replies
  BY DEF Program, Launch, Connect, SendFirst, SendNext, Receive, SendError, EndLoop, Leave, Exit,
    Interrupt, ReqNew, ReqConnect, ReqSend, ReqRecv, ReqClose, ReqClosed, ReqCrash, sockets
<1>2. ASSUME NEW e \in replies' PROVE e.client # c
  <2>1. CASE pc[c] = "recv"
    <3>1. Receive(c) \/ Interrupt(c)
      BY <2>1 DEF Program, Launch, Connect, SendFirst, SendNext, SendError, EndLoop, Leave, Exit
    <3>2. CASE Receive(c)
      <4>1. PICK f \in From(replies, c) : ReqRecv(c, f)
        BY <3>2 DEF Receive
      <4>2. \A g \in From(replies, c) : g = f
        BY <4>1 DEF SocketsInv, OneOutstanding, Traffic
      <4> QED
        BY <1>2, <4>1, <4>2 DEF ReqRecv, From
    <3>3. CASE Interrupt(c)
      BY <1>2, <3>3 DEF Interrupt, ReqCrash, From
    <3> QED
      BY <3>1, <3>2, <3>3
  <2>2. CASE pc[c] # "recv"
    BY <1>1, <2>2 DEF AnswersFit
  <2> QED
    BY <2>1, <2>2
<1>3. \A d \in Client \ {c} : pc'[d] = pc[d]
  BY <1>0 DEF Goto, Program, Launch, Connect, SendFirst, SendNext, Receive, SendError, EndLoop,
    Leave, Exit, Interrupt
<1>4. ASSUME NEW e \in replies' PROVE Asked(e.client)' = Asked(e.client)
  <2>1. e.client \in Client /\ e \in Traffic(e.client)
    BY <1>0, <1>1 DEF Traffic, From
  <2> QED
    BY <2>1, AskedMoves
<1> QED
  BY <1>0, <1>1, <1>2, <1>3, <1>4 DEF AnswersFit
------------------------------------------------------------------------------
(* What the proofs carry from step to step. *)
DemoInv == SocketsInv /\ ProgramsInv /\ AnswersFit

(* The demo's server and network. *)
ServerStep == Start \/ Loop \/ InterruptServer

LEMMA ServerStepIsRepStep ==
  ASSUME ServerStep
  PROVE  RepStep /\ UNCHANGED programs
<1>1. MessageType \subseteq Body
  BY BodyAssumption
<1>2. "Handshake" \in Body /\ "Sensor" \in Body /\ "Error" \in Body
  BY <1>1 DEF MessageType
<1>3. CASE Start \/ Bind \/ End \/ InterruptServer \/ HandleError \/ Serve
  BY <1>3 DEF Start, Bind, End, InterruptServer, HandleError, Serve, RepStep
<1>4. CASE HandleHandshakeInit \/ HandleControl \/ HandleOther
  BY <1>2, <1>4 DEF HandleHandshakeInit, HandleControl, HandleOther, RepStep
<1> QED
  BY <1>3, <1>4 DEF ServerStep, Loop

LEMMA DemoStepIsSocketStep ==
  ASSUME ProgramsInv, Next
  PROVE  SocketsNext \/ UNCHANGED sockets
BY ServerStepIsRepStep, ControllerStepIsSocketStep
   DEF Next, ServerStep, NetworkNext, ProgramsInv, SocketsNext
------------------------------------------------------------------------------
(* demoserver.cpp answers everything but an ErrorMessage. *)
LEMMA AnswersStep ==
  ASSUME DemoInv, Next
  PROVE  AnswersFit'
<1> USE DEF DemoInv
<1>1. CASE ControllersNext
  BY <1>1, ControllersKeepAnswers
<1>2. CASE NetworkNext
  BY <1>2, AnswersKept DEF NetworkNext, Network, Loss, Flush, LoseRequest, LoseReply
<1>3. CASE Start \/ Bind \/ Serve \/ HandleError \/ End \/ InterruptServer
  BY <1>3, AnswersKept DEF Start, Bind, Serve, HandleError, End, InterruptServer, RepNew, RepBind,
    RepRecv, RepClose, RepExit, RepCrash, RepStop
<1>4. \A e, f \in serving : e = f
  BY DEF SocketsInv, OneServed
<1>5. CASE HandleHandshakeInit
  BY <1>4, <1>5, NewAnswerFits DEF HandleHandshakeInit, Got
<1>6. CASE HandleControl
  BY <1>4, <1>6, NewAnswerFits DEF HandleControl, Got
<1>7. CASE HandleOther
  BY <1>7, NewAnswerFits DEF HandleOther, Got
<1> QED
  BY <1>1, <1>2, <1>3, <1>5, <1>6, <1>7 DEF Next, Loop
------------------------------------------------------------------------------
(* The inductive invariant of the demo. *)
THEOREM DemoInvariance == Spec => []DemoInv
<1>1. Init => DemoInv
  <2> SUFFICES ASSUME Init PROVE DemoInv
    OBVIOUS
  <2>1. SocketsInv
    BY InvInit DEF Init
  <2>2. ControllersOK /\ Rounds
    BY ArgsSend DEF Init, ControllersInit, ControllersOK, Rounds, PC
  <2>3. Questions /\ Awaited /\ AnswersFit
    BY DEF Init, SocketsInit, Questions, Awaited, AnswersFit
  <2> QED
    BY <2>1, <2>2, <2>3 DEF DemoInv, ProgramsInv
<1>2. DemoInv /\ [Next]_vars => DemoInv'
  <2> SUFFICES ASSUME DemoInv, [Next]_vars PROVE DemoInv'
    OBVIOUS
  <2>1. CASE Next
    <3>1. SocketsInv'
      BY <2>1, DemoStepIsSocketStep, InvStep DEF DemoInv
    <3>2. ASSUME ControllersNext PROVE ProgramsInv'
      BY <3>2, RoundsStep, QuestionsStep, AwaitedStep DEF DemoInv, ProgramsInv
    <3>3. ASSUME ~ControllersNext PROVE ProgramsInv'
      <4>1. (RepStep \/ Network) /\ UNCHANGED programs
        BY <2>1, <3>3, ServerStepIsRepStep DEF Next, ServerStep, NetworkNext
      <4> QED
        BY <4>1, QuestionsKept DEF DemoInv
    <3> QED
      BY <2>1, <3>1, <3>2, <3>3, AnswersStep DEF DemoInv
  <2>2. CASE UNCHANGED vars
    <3>1. SocketsInv'
      BY <2>2, InvStep DEF vars, DemoInv
    <3> QED
      BY <2>2, <3>1 DEF vars, sockets, programs, DemoInv, ProgramsInv, ControllersOK, Rounds,
        Questions, Awaited, Asked, AnswersFit
  <2> QED
    BY <2>1, <2>2
<1> QED
  BY <1>1, <1>2, PTL DEF Spec

(* Types, for any number of controllers and rounds. *)
THEOREM DemoTypeCorrect == Spec => []TypeOK
<1>1. DemoInv => TypeOK
  BY DEF DemoInv, ProgramsInv, SocketsInv, TypeOK
<1> QED
  BY <1>1, DemoInvariance, PTL

(* Whatever others asked in between and however servers came and went, a   *)
(* handshake or a control message is answered by what the documentation    *)
(* lists, and nobody is answered who ended with an ErrorMessage.           *)
THEOREM AnswersFitQuestions == Spec => []AnswersFit
BY DemoInvariance, PTL DEF DemoInv

(* The demo's controllers and server take turns. *)
THEOREM DemoTakesTurns == Spec => RefinesRoundTrip
<1>1. Init => Abstract!Init
  BY RefinesInit DEF Init
<1>2. DemoInv /\ [Next]_vars => [Abstract!Next]_phase
  <2> SUFFICES ASSUME DemoInv, [Next]_vars PROVE [Abstract!Next]_phase
    OBVIOUS
  <2>1. [SocketsNext]_sockets
    BY DemoStepIsSocketStep DEF vars, DemoInv
  <2> QED
    BY <2>1, RefinesStep DEF DemoInv
<1> QED
  BY <1>1, <1>2, DemoInvariance, PTL DEF Spec, RefinesRoundTrip, Abstract!Spec

(* A controller of the demo waits for an answer nobody owes it only after  *)
(* a server that knew of its question ended, or the network lost a frame.  *)
THEOREM DemoStranding ==
  Spec => [][\A c \in Client : Stranded(c)' /\ ~Stranded(c) => ~Up' \/ Loss]_vars
<1> DEFINE A == \A c \in Client : Stranded(c)' /\ ~Stranded(c) => ~Up' \/ Loss
<1>1. DemoInv /\ [Next]_vars => [A]_vars
  <2> SUFFICES ASSUME DemoInv, [Next]_vars PROVE A
    OBVIOUS
  <2>1. [SocketsNext]_sockets
    BY DemoStepIsSocketStep DEF vars, DemoInv
  <2> QED
    BY <2>1, StrandedStep DEF DemoInv
<1> QED
  BY <1>1, DemoInvariance, PTL DEF Spec
------------------------------------------------------------------------------
(* What the proofs carry from step to step. *)
PyDemoInv == SocketsInv /\ ProgramsInv /\ turn \in {"recv", "handle"} /\ AnswersFit

PyServerStep == PyStart \/ PyLoop \/ PyInterruptServer

LEMMA PyServerStepIsRepStep ==
  ASSUME PyServerStep
  PROVE  (RepStep \/ UNCHANGED sockets) /\ UNCHANGED programs /\ turn' \in {turn, "recv", "handle"}
<1>1. "Handshake" \in Body /\ "Sensor" \in Body
  BY BodyAssumption DEF MessageType
<1>2. CASE PyStart \/ PyBind \/ PyServe \/ RefusedReceive \/ PyInterruptServer \/ PyHandleOther
  BY <1>2 DEF PyStart, PyBind, PyServe, RefusedReceive, PyInterruptServer, PyHandleOther, RepStep
<1>3. CASE PyHandleHandshakeInit \/ PyHandleControl
  BY <1>1, <1>3 DEF PyHandleHandshakeInit, PyHandleControl, RepStep
<1> QED
  BY <1>2, <1>3 DEF PyServerStep, PyLoop

LEMMA PyDemoStepIsSocketStep ==
  ASSUME ProgramsInv, PyNext
  PROVE  SocketsNext \/ UNCHANGED sockets
BY PyServerStepIsRepStep, ControllerStepIsSocketStep
   DEF PyNext, PyServerStep, NetworkNext, ProgramsInv, SocketsNext

(* Programs that stay where they are, while no question is added. *)
LEMMA ProgramsKept ==
  ASSUME ProgramsInv, UNCHANGED <<sockets, programs>>
  PROVE  ProgramsInv'
BY DEF ProgramsInv, ControllersOK, Rounds, Questions, Awaited, Asked, sockets, programs
------------------------------------------------------------------------------
(* demo/server.py answers two messages. *)
LEMMA PyAnswersStep ==
  ASSUME PyDemoInv, PyNext
  PROVE  AnswersFit'
<1> USE DEF PyDemoInv
<1>1. CASE ControllersNext
  BY <1>1, ControllersKeepAnswers
<1>2. CASE NetworkNext
  BY <1>2, AnswersKept DEF NetworkNext, Network, Loss, Flush, LoseRequest, LoseReply
<1>3. CASE PyStart \/ PyBind \/ PyServe \/ RefusedReceive \/ PyHandleOther \/ PyInterruptServer
  BY <1>3, AnswersKept DEF PyStart, PyBind, PyServe, RefusedReceive, PyHandleOther,
    PyInterruptServer, RepNew, RepBind, RepRecv, RepCrash, RepStop, sockets
<1>4. \A e, f \in serving : e = f
  BY DEF SocketsInv, OneServed
<1>5. CASE PyHandleHandshakeInit
  BY <1>4, <1>5, NewAnswerFits DEF PyHandleHandshakeInit, PyGot
<1>6. CASE PyHandleControl
  BY <1>4, <1>6, NewAnswerFits DEF PyHandleControl, PyGot
<1> QED
  BY <1>1, <1>2, <1>3, <1>5, <1>6 DEF PyNext, PyLoop
------------------------------------------------------------------------------
(* The inductive invariant of the Python demo. *)
THEOREM PyDemoInvariance == PySpec => []PyDemoInv
<1>1. PyInit => PyDemoInv
  <2> SUFFICES ASSUME PyInit PROVE PyDemoInv
    OBVIOUS
  <2>1. SocketsInv
    BY InvInit DEF PyInit
  <2>2. ControllersOK /\ Rounds
    BY ArgsSend DEF PyInit, ControllersInit, ControllersOK, Rounds, PC
  <2>3. Questions /\ Awaited /\ AnswersFit /\ turn = "recv"
    BY DEF PyInit, SocketsInit, Questions, Awaited, AnswersFit
  <2> QED
    BY <2>1, <2>2, <2>3 DEF PyDemoInv, ProgramsInv
<1>2. PyDemoInv /\ [PyNext]_pyDemoVars => PyDemoInv'
  <2> SUFFICES ASSUME PyDemoInv, [PyNext]_pyDemoVars PROVE PyDemoInv'
    OBVIOUS
  <2>1. CASE PyNext
    <3>1. SocketsInv'
      BY <2>1, PyDemoStepIsSocketStep, InvStep DEF PyDemoInv
    <3>2. ASSUME ControllersNext PROVE ProgramsInv'
      BY <3>2, RoundsStep, QuestionsStep, AwaitedStep DEF PyDemoInv, ProgramsInv
    <3>3. ASSUME ~ControllersNext PROVE ProgramsInv'
      <4>1. (RepStep \/ Network \/ UNCHANGED sockets) /\ UNCHANGED programs
        BY <2>1, <3>3, PyServerStepIsRepStep DEF PyNext, PyServerStep, NetworkNext
      <4> QED
        BY <4>1, QuestionsKept, ProgramsKept DEF PyDemoInv
    <3>4. turn' \in {"recv", "handle"}
      BY <2>1, PyServerStepIsRepStep DEF PyNext, PyServerStep, PyDemoInv
    <3> QED
      BY <2>1, <3>1, <3>2, <3>3, <3>4, PyAnswersStep DEF PyDemoInv
  <2>2. CASE UNCHANGED pyDemoVars
    <3>1. SocketsInv' /\ ProgramsInv'
      BY <2>2, InvStep, ProgramsKept DEF pyDemoVars, PyDemoInv
    <3> QED
      BY <2>2, <3>1 DEF pyDemoVars, sockets, programs, programs, PyDemoInv, Asked, AnswersFit
  <2> QED
    BY <2>1, <2>2
<1> QED
  BY <1>1, <1>2, PTL DEF PySpec

(* Types, for any number of controllers and rounds. *)
THEOREM PyDemoTypeCorrect == PySpec => []PyTypeOK
<1>1. PyDemoInv => PyTypeOK
  BY DEF PyDemoInv, ProgramsInv, SocketsInv, PyTypeOK
<1> QED
  BY <1>1, PyDemoInvariance, PTL

(* The same of the Python server, however often it ends on a receive out   *)
(* of turn and is started again.                                           *)
THEOREM PyAnswersFitQuestions == PySpec => []AnswersFit
<1>1. PyDemoInv => AnswersFit
  BY DEF PyDemoInv
<1> QED
  BY <1>1, PyDemoInvariance, PTL

(* The demo's controllers and server take turns, also where the server     *)
(* receives out of turn and ends.                                          *)
THEOREM PyDemoTakesTurns == PySpec => RefinesRoundTrip
<1>1. PyInit => Abstract!Init
  BY RefinesInit DEF PyInit
<1>2. PyDemoInv /\ [PyNext]_pyDemoVars => [Abstract!Next]_phase
  <2> SUFFICES ASSUME PyDemoInv, [PyNext]_pyDemoVars PROVE [Abstract!Next]_phase
    OBVIOUS
  <2>1. [SocketsNext]_sockets
    BY PyDemoStepIsSocketStep DEF pyDemoVars, PyDemoInv
  <2> QED
    BY <2>1, RefinesStep DEF PyDemoInv
<1> QED
  BY <1>1, <1>2, PyDemoInvariance, PTL DEF PySpec, RefinesRoundTrip, Abstract!Spec

(* A message that demo/server.py does not answer strands its sender only   *)
(* because the server ends on the receive after it.                        *)
THEOREM PyDemoStranding ==
  PySpec => [][\A c \in Client : Stranded(c)' /\ ~Stranded(c) => ~Up' \/ Loss]_pyDemoVars
<1> DEFINE A == \A c \in Client : Stranded(c)' /\ ~Stranded(c) => ~Up' \/ Loss
<1>1. PyDemoInv /\ [PyNext]_pyDemoVars => [A]_pyDemoVars
  <2> SUFFICES ASSUME PyDemoInv, [PyNext]_pyDemoVars PROVE A
    OBVIOUS
  <2>1. [SocketsNext]_sockets
    BY PyDemoStepIsSocketStep DEF pyDemoVars, PyDemoInv
  <2> QED
    BY <2>1, StrandedStep DEF PyDemoInv
<1> QED
  BY <1>1, PyDemoInvariance, PTL DEF PySpec
==============================================================================
