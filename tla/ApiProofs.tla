------------------------------ MODULE ApiProofs ------------------------------
(***************************************************************************)
(* What the two libraries guarantee to every set of controllers, whatever  *)
(* they call, whatever is in the frames and whenever they or the server    *)
(* die: the C++ library first, then the Python one, which takes turns in   *)
(* the same way, with or without a size collector.                         *)
(***************************************************************************)
EXTENDS ClickApi, PyApi, ZmqReqRepProofs

(* What the proofs carry from step to step: the sockets' inductive         *)
(* invariant, the types, and the flag.                                     *)
IInv == TypeOK /\ SocketsInv /\ FlagTracksSocket

(* The library does nothing to its sockets but make socket calls. *)
LEMMA ApiStepIsSocketStep == Next => [SocketsNext]_sockets
<1> SUFFICES ASSUME Next PROVE SocketsNext \/ UNCHANGED sockets
  OBVIOUS
<1> USE DEF SocketsNext
<1>1. ASSUME NEW c \in Client, ClientStep(c) PROVE ReqStep(c) \/ UNCHANGED sockets
  <2> USE DEF ReqStep
  <2>1. CASE ClientNew(c)
    BY <2>1 DEF ClientNew
  <2>2. CASE ClientConnect(c)
    BY <2>2 DEF ClientConnect
  <2>3. CASE ClientSendBytes(c) \/ ClientSendMessage(c)
    BY <2>3 DEF ClientSendBytes, ClientSendMessage, ClientSend, OutOfTurn
  <2>4. CASE ClientReceiveBytes(c)
    BY <2>4 DEF ClientReceiveBytes, OutOfTurn, From
  <2>5. CASE ClientBlockingReceive(c) \/ ClientReceive(c, FALSE)
    BY <2>5 DEF ClientBlockingReceive, ClientReceive, OutOfTurn, From
  <2>6. CASE ClientTerminate(c) \/ ClientTerminated(c) \/ ClientCrash(c)
    BY <2>6 DEF ClientTerminate, ClientTerminated, ClientCrash
  <2> QED
    BY <1>1, <2>1, <2>2, <2>3, <2>4, <2>5, <2>6 DEF ClientStep
<1>2. ASSUME ServerStep PROVE RepStep \/ UNCHANGED sockets
  <2> USE DEF RepStep
  <2>1. CASE ServerNew \/ ServerBind
    BY <2>1 DEF ServerNew, ServerBind
  <2>2. CASE ServerSendBytes \/ ServerSendMessage
    BY <2>2 DEF ServerSendBytes, ServerSendMessage, ServerSend, OutOfTurn
  <2>3. CASE ServerReceiveBytes
    BY <2>3 DEF ServerReceiveBytes, OutOfTurn
  <2>4. CASE ServerBlockingReceive \/ ServerReceive(FALSE)
    BY <2>4 DEF ServerBlockingReceive, ServerReceive, OutOfTurn
  <2>5. CASE ServerTerminate \/ ServerDestroy \/ ServerCrash
    BY <2>5 DEF ServerTerminate, ServerDestroy, ServerCrash
  <2> QED
    BY <1>2, <2>1, <2>2, <2>3, <2>4, <2>5 DEF ServerStep
<1>3. CASE NetworkStep
  BY <1>3 DEF NetworkStep
<1> QED
  BY <1>1, <1>2, <1>3 DEF Next

(* Every call returns something of the right kind. *)
LEMMA RetStep ==
  ASSUME IInv, Next
  PROVE  ret' \in Ret
<1> USE DEF IInv, TypeOK, Ends, Returns, OutOfTurn, Deliver
<1>0. outbox \subseteq Envelope /\ inbox \subseteq Envelope /\ replies \subseteq Envelope
  BY DEF SocketsOK
<1>1. ASSUME NEW c \in Client, ClientStep(c) PROVE ret' \in Ret
  <2> USE DEF Ret, Op, Outcome
  <2>1. CASE ClientNew(c) \/ ClientConnect(c)
    BY <2>1 DEF ClientNew, ClientConnect
  <2>2. CASE ClientSendBytes(c) \/ ClientSendMessage(c)
    BY <2>2 DEF ClientSendBytes, ClientSendMessage, ClientSend
  <2>3. CASE ClientReceiveBytes(c)
    BY <1>0, <2>3 DEF ClientReceiveBytes, From, Envelope
  <2>4. CASE ClientBlockingReceive(c) \/ ClientReceive(c, FALSE)
    BY <1>0, <2>4 DEF ClientBlockingReceive, ClientReceive, From, Envelope
  <2>5. CASE ClientTerminate(c) \/ ClientTerminated(c) \/ ClientCrash(c)
    BY <2>5 DEF ClientTerminate, ClientTerminated, ClientCrash
  <2> QED
    BY <1>1, <2>1, <2>2, <2>3, <2>4, <2>5 DEF ClientStep
<1>2. ASSUME ServerStep PROVE ret' \in Ret
  <2> USE DEF Ret, Op, Outcome, Server
  <2>1. CASE ServerNew \/ ServerBind
    BY <2>1 DEF ServerNew, ServerBind
  <2>2. CASE ServerSendBytes \/ ServerSendMessage
    BY <2>2 DEF ServerSendBytes, ServerSendMessage, ServerSend
  <2>3. CASE ServerReceiveBytes
    BY <1>0, <2>3 DEF ServerReceiveBytes, Envelope
  <2>4. CASE ServerBlockingReceive \/ ServerReceive(FALSE)
    BY <1>0, <2>4 DEF ServerBlockingReceive, ServerReceive, Envelope
  <2>5. CASE ServerTerminate \/ ServerDestroy \/ ServerCrash
    BY <2>5 DEF ServerTerminate, ServerDestroy, ServerCrash
  <2> QED
    BY <1>2, <2>1, <2>2, <2>3, <2>4, <2>5 DEF ServerStep
<1>3. CASE NetworkStep
  BY <1>3 DEF NetworkStep
<1> QED
  BY <1>1, <1>2, <1>3 DEF Next

(* The flag follows the socket through every call that moves either. *)
LEMMA FlagStep ==
  ASSUME IInv, Next
  PROVE  sendIsNext' \in BOOLEAN /\ FlagTracksSocket'
<1> USE DEF IInv, TypeOK, FlagTracksSocket, must_send, Up
<1>1. ASSUME NEW c \in Client, ClientStep(c) PROVE UNCHANGED <<rep, sendIsNext>>
  <2> USE DEF OutOfTurn, sockets
  <2>1. CASE ClientNew(c) \/ ClientConnect(c)
    BY <2>1 DEF ClientNew, ClientConnect, ReqNew, ReqConnect
  <2>2. CASE ClientSendBytes(c) \/ ClientSendMessage(c)
    BY <2>2 DEF ClientSendBytes, ClientSendMessage, ClientSend, ReqSend, ReqBlock
  <2>3. CASE ClientReceiveBytes(c)
    BY <2>3 DEF ClientReceiveBytes, ReqRecv
  <2>4. CASE ClientBlockingReceive(c) \/ ClientReceive(c, FALSE)
    BY <2>4 DEF ClientBlockingReceive, ClientReceive, ReqRecv
  <2>5. CASE ClientTerminate(c) \/ ClientTerminated(c) \/ ClientCrash(c)
    BY <2>5 DEF ClientTerminate, ClientTerminated, ClientCrash, ReqClose, ReqClosed, ReqCrash
  <2> QED
    BY <1>1, <2>1, <2>2, <2>3, <2>4, <2>5 DEF ClientStep
<1>2. ASSUME ServerStep PROVE FlagTracksSocket'
  <2> USE DEF OutOfTurn, sockets
  <2>1. CASE ServerNew \/ ServerBind
    BY <2>1 DEF ServerNew, ServerBind, RepNew, RepBind
  <2>2. CASE ServerSendBytes \/ ServerSendMessage
    BY <2>2 DEF ServerSendBytes, ServerSendMessage, ServerSend, RepSend
  <2>3. CASE ServerReceiveBytes
    BY <2>3 DEF ServerReceiveBytes, RepRecv
  <2>4. CASE ServerBlockingReceive \/ ServerReceive(FALSE)
    BY <2>4 DEF ServerBlockingReceive, ServerReceive, RepRecv
  <2>5. CASE ServerTerminate \/ ServerDestroy \/ ServerCrash
    BY <2>5 DEF ServerTerminate, ServerDestroy, ServerCrash, RepClose, RepExit, RepCrash, RepStop
  <2> QED
    BY <1>2, <2>1, <2>2, <2>3, <2>4, <2>5 DEF ServerStep
<1>3. ASSUME ServerStep PROVE sendIsNext' \in BOOLEAN
  BY <1>3 DEF ServerStep, ServerNew, ServerBind, ServerSendBytes, ServerSendMessage, ServerSend,
    ServerReceiveBytes, ServerBlockingReceive, ServerReceive, ServerTerminate, ServerDestroy,
    ServerCrash, OutOfTurn
<1>4. ASSUME NetworkStep PROVE UNCHANGED <<rep, sendIsNext>>
  BY <1>4 DEF NetworkStep, Network, Loss, Flush, LoseRequest, LoseReply
<1>5. (\E c \in Client : ClientStep(c)) \/ NetworkStep => UNCHANGED <<rep, sendIsNext>>
  BY <1>1, <1>4
<1> QED
  BY <1>2, <1>3, <1>5 DEF Next
------------------------------------------------------------------------------
(* The inductive invariant: the sockets' own, types, and the flag. *)
THEOREM Invariance == Spec => []IInv
<1>1. Init => IInv
  <2> SUFFICES ASSUME Init PROVE IInv
    OBVIOUS
  <2>1. SocketsInv
    BY InvInit DEF Init
  <2>2. ret \in Ret
    BY DEF Init, Ret, Outcome, Op, Server
  <2>3. sendIsNext \in BOOLEAN /\ FlagTracksSocket
    BY DEF Init, SocketsInit, FlagTracksSocket, Up
  <2> QED
    BY <2>1, <2>2, <2>3 DEF IInv, TypeOK, SocketsInv
<1>2. IInv /\ [Next]_apiVars => IInv'
  <2> SUFFICES ASSUME IInv, [Next]_apiVars PROVE IInv'
    OBVIOUS
  <2>1. CASE Next
    <3>1. SocketsInv'
      BY <2>1, ApiStepIsSocketStep, InvStep DEF IInv
    <3> QED
      BY <2>1, <3>1, RetStep, FlagStep DEF IInv, TypeOK, SocketsInv
  <2>2. CASE UNCHANGED apiVars
    <3>1. UNCHANGED sockets
      BY <2>2 DEF apiVars, sockets
    <3>2. SocketsInv'
      BY <3>1, InvStep DEF IInv
    <3> QED
      BY <2>2, <3>2 DEF apiVars, IInv, TypeOK, SocketsInv, FlagTracksSocket, Up, must_send
  <2> QED
    BY <2>1, <2>2
<1> QED
  BY <1>1, <1>2, PTL DEF Spec

(* Type correctness. *)
THEOREM TypeCorrect == Spec => []TypeOK
BY Invariance, PTL DEF IInv

(* At every moment of every execution m_send_is_next_action is right about *)
(* a live socket.                                                          *)
THEOREM FlagCorrect == Spec => []FlagTracksSocket
BY Invariance, PTL DEF IInv

(* No reply is ever taken for the answer to another request. *)
THEOREM ReplyIsTheAnswer == Spec => []OneOutstanding
BY Invariance, PTL DEF IInv, SocketsInv

(* A call refused as out of turn is one the flag advised against. *)
LEMMA AdviceStep ==
  ASSUME IInv, Next, ret' # ret, ret'.who = Server, ret'.out = "EFSM"
  PROVE  IF ret'.op = "send" THEN ~must_send ELSE ~must_recv
<1> USE DEF Ends, Returns, OutOfTurn, Deliver
<1>1. ASSUME NEW c \in Client, ClientStep(c) PROVE ret' = ret \/ ret'.who = c
  BY <1>1 DEF ClientStep, ClientNew, ClientConnect, ClientSendBytes, ClientSendMessage,
    ClientSend, ClientReceiveBytes, ClientBlockingReceive, ClientReceive, ClientTerminate,
    ClientTerminated, ClientCrash
<1>2. ~\E c \in Client : ClientStep(c)
  BY <1>1, ServerAssumption
<1>3. ServerStep
  BY <1>2 DEF Next, NetworkStep
<1> USE DEF IInv, FlagTracksSocket, Up, must_send, must_recv
<1>4. CASE ServerSendBytes \/ ServerSendMessage
  BY <1>4 DEF ServerSendBytes, ServerSendMessage, ServerSend
<1>5. CASE ServerReceiveBytes
  BY <1>5 DEF ServerReceiveBytes
<1>6. CASE ServerBlockingReceive \/ ServerReceive(FALSE)
  BY <1>6 DEF ServerBlockingReceive, ServerReceive
<1>7. CASE ServerNew \/ ServerBind \/ ServerTerminate \/ ServerDestroy \/ ServerCrash
  BY <1>7 DEF ServerNew, ServerBind, ServerTerminate, ServerDestroy, ServerCrash
<1> QED
  BY <1>3, <1>4, <1>5, <1>6, <1>7 DEF ServerStep

(* Following must_send() and must_recv() never meets EFSM. *)
THEOREM AdviceCorrect == Spec => AdviceIsSound
<1> DEFINE A == ret' # ret /\ ret'.who = Server /\ ret'.out = "EFSM"
                  => IF ret'.op = "send" THEN ~must_send ELSE ~must_recv
<1>1. IInv /\ [Next]_apiVars => [A]_apiVars
  BY AdviceStep
<1> QED
  BY <1>1, Invariance, PTL DEF Spec, AdviceIsSound

(* Taking turns: the library implements RoundTrip. *)
THEOREM TakesTurns == Spec => RefinesRoundTrip
<1>1. Init => Abstract!Init
  BY RefinesInit DEF Init
<1>2. IInv /\ [Next]_apiVars => [Abstract!Next]_phase
  <2> SUFFICES ASSUME IInv, [Next]_apiVars PROVE [Abstract!Next]_phase
    OBVIOUS
  <2>1. [SocketsNext]_sockets
    BY ApiStepIsSocketStep DEF apiVars, sockets
  <2> QED
    BY <2>1, RefinesStep DEF IInv
<1> QED
  BY <1>1, <1>2, Invariance, PTL DEF Spec, RefinesRoundTrip, Abstract!Spec

(* Only the network and the end of a server strand a controller. *)
THEOREM Stranding == Spec => StrandedOnlyByLoss
<1> DEFINE A == \A c \in Client : Stranded(c)' /\ ~Stranded(c) => ~Up' \/ Loss
<1>1. IInv /\ [Next]_apiVars => [A]_apiVars
  <2> SUFFICES ASSUME IInv, [Next]_apiVars PROVE A
    OBVIOUS
  <2>1. [SocketsNext]_sockets
    BY ApiStepIsSocketStep DEF apiVars, sockets
  <2> QED
    BY <2>1, StrandedStep DEF IInv
<1> QED
  BY <1>1, Invariance, PTL DEF Spec, StrandedOnlyByLoss
------------------------------------------------------------------------------
(* The library does nothing to its sockets but make socket calls: what the *)
(* collector and the parser refuse is refused before or after one.         *)
LEMMA PyStepIsSocketStep == PyNext => [SocketsNext]_sockets
<1> SUFFICES ASSUME PyNext PROVE SocketsNext \/ UNCHANGED sockets
  OBVIOUS
<1> USE DEF SocketsNext
<1>1. ASSUME NEW c \in Client, PyClientStep(c) PROVE ReqStep(c) \/ UNCHANGED sockets
  <2> USE DEF ReqStep
  <2>1. CASE PyClientNew(c) \/ PyClientConnect(c)
    BY <2>1 DEF PyClientNew, PyClientConnect
  <2>2. CASE PyClientSend(c)
    BY <2>2 DEF PyClientSend
  <2>3. CASE PyClientRecv(c, TRUE) \/ PyClientRecv(c, FALSE)
    BY <2>3 DEF PyClientRecv, From
  <2>4. CASE PyClientStop(c) \/ PyClientStopped(c) \/ PyClientCrash(c)
    BY <2>4 DEF PyClientStop, PyClientStopped, PyClientCrash
  <2> QED
    BY <1>1, <2>1, <2>2, <2>3, <2>4 DEF PyClientStep
<1>2. ASSUME PyServerStep PROVE RepStep \/ UNCHANGED sockets
  <2> USE DEF RepStep
  <2>1. CASE PyServerNew \/ PyServerBind
    BY <2>1 DEF PyServerNew, PyServerBind
  <2>2. CASE PyServerRecv \/ PyServerRecvBlocking
    BY <2>2 DEF PyServerRecv, PyServerRecvBlocking
  <2>3. CASE \E frame \in Body : PyServerSend(frame)
    BY <2>3 DEF PyServerSend
  <2>4. CASE IsUpdated
    BY <2>4 DEF IsUpdated
  <2>5. CASE PyServerStop \/ PyServerExit \/ PyServerCrash
    BY <2>5 DEF PyServerStop, PyServerExit, PyServerCrash
  <2> QED
    BY <1>2, <2>1, <2>2, <2>3, <2>4, <2>5 DEF PyServerStep
<1> QED
  BY <1>1, <1>2 DEF PyNext
------------------------------------------------------------------------------
(* The collector. *)

CollectorOK == /\ collecting \in BOOLEAN
               /\ seen \in [Direction -> {{}} \cup {{size} : size \in Sizes \ {0}}]
               /\ updated \in [Direction -> BOOLEAN]
               /\ changed \in BOOLEAN

(* What the proofs carry from step to step: the sockets' invariant, and a  *)
(* raised flag of either direction stands for a change.                    *)
PyInv == SocketsInv /\ PyTypeOK /\ NoFalseAlarm

(* Telling the collector of a frame it does not reject keeps its fields in *)
(* order, and raises a flag only with changed.                             *)
LEMMA CollectKeeps ==
  ASSUME CollectorOK, NoFalseAlarm, NEW d \in Direction, NEW frame \in Body,
         ~Asserts(frame), Collect(d, frame)
  PROVE  CollectorOK' /\ NoFalseAlarm'
<1> USE DEF CollectorOK
<1>1. CASE ~collecting
  BY <1>1 DEF Collect, collector, NoFalseAlarm, is_updated
<1>2. CASE collecting
  <2>1. /\ updated' = [updated EXCEPT ![d] = {Size[frame]} # seen[d]]
        /\ seen' = [seen EXCEPT ![d] = {Size[frame]}]
        /\ changed' = (changed \/ {Size[frame]} # seen[d])
        /\ collecting' = collecting
    BY <1>2 DEF Collect
  <2>2. Size[frame] \in Sizes \ {0}
    BY <1>2 DEF Asserts, Sizes
  <2>3. seen' \in [Direction -> {{}} \cup {{size} : size \in Sizes \ {0}}]
    BY <2>1, <2>2
  <2>4. updated' \in [Direction -> BOOLEAN] /\ changed' \in BOOLEAN
    BY <2>1
  <2>5. \A o \in Direction : updated'[o] => changed'
    <3>1. \A o \in Direction : updated[o] => changed
      BY DEF NoFalseAlarm, is_updated, Direction
    <3> QED
      BY <2>1, <3>1
  <2> QED
    BY <2>1, <2>3, <2>4, <2>5 DEF NoFalseAlarm, is_updated, Direction
<1> QED
  BY <1>1, <1>2

(* A new server's collector knows of nothing. *)
LEMMA NoCollectorKeeps ==
  ASSUME collecting' \in BOOLEAN, NoCollector
  PROVE  CollectorOK' /\ NoFalseAlarm'
BY DEF CollectorOK, NoCollector, NoFalseAlarm, is_updated, Direction

LEMMA CollectorStep ==
  ASSUME PyInv, PyNext
  PROVE  CollectorOK' /\ NoFalseAlarm'
<1>0. CollectorOK /\ NoFalseAlarm /\ inbox \subseteq Envelope
  BY DEF PyInv, PyTypeOK, CollectorOK, SocketsOK
<1>1. CASE UNCHANGED collector
  BY <1>0, <1>1 DEF collector, CollectorOK, NoFalseAlarm, is_updated
<1>2. ASSUME NEW c \in Client, PyClientStep(c) PROVE UNCHANGED collector
  BY <1>2 DEF PyClientStep, PyClientNew, PyClientConnect, PyClientSend, PyClientRecv, PyClientStop,
    PyClientStopped, PyClientCrash
<1>3. CASE PyServerStep
  <2>1. CASE PyServerNew
    BY <2>1, NoCollectorKeeps DEF PyServerNew
  <2>2. CASE PyServerExit \/ PyServerCrash
    BY <2>2, NoCollectorKeeps DEF PyServerExit, PyServerCrash
  <2>3. CASE PyServerRecv
    <3>1. UNCHANGED collector \/ \E e \in inbox : ~Asserts(e.body) /\ Collect("recv", e.body)
      BY <2>3 DEF PyServerRecv
    <3>2. \A e \in inbox : e.body \in Body
      BY <1>0 DEF Envelope
    <3> QED
      BY <1>0, <1>1, <3>1, <3>2, CollectKeeps DEF Direction
  <2>4. CASE \E frame \in Body : PyServerSend(frame)
    <3>1. UNCHANGED collector \/ \E frame \in Body : ~Asserts(frame) /\ Collect("send", frame)
      BY <2>4 DEF PyServerSend
    <3> QED
      BY <1>0, <1>1, <3>1, CollectKeeps DEF Direction
  <2>5. CASE IsUpdated
    BY <1>0, <2>5 DEF IsUpdated, CollectorOK, NoFalseAlarm, is_updated, Direction
  <2>6. CASE PyServerBind \/ PyServerRecvBlocking \/ PyServerStop
    BY <1>1, <2>6 DEF PyServerBind, PyServerRecvBlocking, PyServerStop
  <2> QED
    BY <1>3, <2>1, <2>2, <2>3, <2>4, <2>5, <2>6 DEF PyServerStep
<1> QED
  BY <1>1, <1>2, <1>3 DEF PyNext

(* Every call ends in one of the ways the module lists. *)
LEMMA PyRetStep ==
  ASSUME PyInv, PyNext
  PROVE  pyRet' \in [who : Client \cup {PyServer}, op : PyOp, out : PyOutcome]
<1> USE DEF PyInv, PyTypeOK, PyReturns, PyParsed, RecvName
<1>1. ASSUME NEW c \in Client, PyClientStep(c)
      PROVE  pyRet' \in [who : Client \cup {PyServer}, op : PyOp, out : PyOutcome]
  BY <1>1 DEF PyClientStep, PyClientNew, PyClientConnect, PyClientSend, PyClientRecv, PyClientStop,
    PyClientStopped, PyClientCrash, PyOp, PyOutcome
<1>2. ASSUME PyServerStep
      PROVE  pyRet' \in [who : Client \cup {PyServer}, op : PyOp, out : PyOutcome]
  BY <1>2 DEF PyServerStep, PyServerNew, PyServerBind, PyServerRecv, PyServerRecvBlocking,
    PyServerSend, IsUpdated, PyServerStop, PyServerExit, PyServerCrash, PyOp, PyOutcome, PyServer
<1> QED
  BY <1>1, <1>2 DEF PyNext
------------------------------------------------------------------------------
(* The inductive invariant. *)
THEOREM PyInvariance == PySpec => []PyInv
<1>1. PyInit => PyInv
  <2> SUFFICES ASSUME PyInit PROVE PyInv
    OBVIOUS
  <2>1. SocketsInv
    BY InvInit DEF PyInit
  <2>2. CollectorOK /\ NoFalseAlarm
    BY DEF PyInit, CollectorOK, NoFalseAlarm, is_updated, Direction
  <2>3. pyRet \in [who : Client \cup {PyServer}, op : PyOp, out : PyOutcome]
    BY DEF PyInit, PyOp, PyOutcome, PyServer
  <2> QED
    BY <2>1, <2>2, <2>3 DEF PyInv, PyTypeOK, CollectorOK, SocketsInv
<1>2. PyInv /\ [PyNext]_pyVars => PyInv'
  <2> SUFFICES ASSUME PyInv, [PyNext]_pyVars PROVE PyInv'
    OBVIOUS
  <2>1. [SocketsNext]_sockets
    BY PyStepIsSocketStep DEF pyVars, sockets
  <2>2. SocketsInv'
    BY <2>1, InvStep DEF PyInv
  <2>3. CASE PyNext
    BY <2>2, <2>3, CollectorStep, PyRetStep DEF PyInv, PyTypeOK, CollectorOK, SocketsInv
  <2>4. CASE UNCHANGED pyVars
    BY <2>2, <2>4 DEF pyVars, PyInv, PyTypeOK, SocketsInv, NoFalseAlarm, is_updated
  <2> QED
    BY <2>3, <2>4
<1> QED
  BY <1>1, <1>2, PTL DEF PySpec

(* Every variable keeps its type: a size the collector has taken is one of *)
(* a frame that is not empty.                                              *)
THEOREM PyTypeCorrect == PySpec => []PyTypeOK
BY PyInvariance, PTL DEF PyInv

(* is_updated reports no change where there was none. *)
THEOREM NoInventedChange == PySpec => []NoFalseAlarm
BY PyInvariance, PTL DEF PyInv

(* Taking turns: the Python library implements RoundTrip. *)
THEOREM PyTakesTurns == PySpec => RefinesRoundTrip
<1>1. PyInit => Abstract!Init
  BY RefinesInit DEF PyInit
<1>2. PyInv /\ [PyNext]_pyVars => [Abstract!Next]_phase
  <2> SUFFICES ASSUME PyInv, [PyNext]_pyVars PROVE [Abstract!Next]_phase
    OBVIOUS
  <2>1. [SocketsNext]_sockets
    BY PyStepIsSocketStep DEF pyVars, sockets
  <2> QED
    BY <2>1, RefinesStep DEF PyInv
<1> QED
  BY <1>1, <1>2, PyInvariance, PTL DEF PySpec, RefinesRoundTrip, Abstract!Spec

(* Neither the parser nor the collector strands a controller. *)
THEOREM PyStranding == PySpec => PyStrandedOnlyByLoss
<1> DEFINE A == \A c \in Client : Stranded(c)' /\ ~Stranded(c) => ~Up' \/ Loss
<1>1. PyInv /\ [PyNext]_pyVars => [A]_pyVars
  <2> SUFFICES ASSUME PyInv, [PyNext]_pyVars PROVE A
    OBVIOUS
  <2>1. [SocketsNext]_sockets
    BY PyStepIsSocketStep DEF pyVars, sockets
  <2> QED
    BY <2>1, StrandedStep DEF PyInv
<1> QED
  BY <1>1, PyInvariance, PTL DEF PySpec, PyStrandedOnlyByLoss
==============================================================================
