-------------------------------- MODULE PyApi --------------------------------
(***************************************************************************)
(* The Python library's Client and Server, and the size collector a Server *)
(* reports to.  As in ClickApi, any method is called at any time; the      *)
(* differences are the defaults (Server.recv() does not wait, Client.recv()*)
(* does), that there is no advice about whose turn it is, and that the     *)
(* collector is told of a frame before the socket or the parser has        *)
(* accepted it.                                                            *)
(***************************************************************************)
EXTENDS ZmqReqRep

CONSTANT Size       \* the length in bytes of a frame

PyMessageType == {"HandshakeInit", "Handshake", "Control", "Sensor",
                  "Reset", "Error", "SensorRequest"}

(* from_bytes makes a message of these frames; it takes the empty one for  *)
(* a HandshakeInitMessage and raises KeyError or DecodeError on all others. *)
PyParses(frame) == frame \in PyMessageType \cup {"Empty"}

ASSUME SizeAssumption ==
  Size \in [Body -> Nat] /\ \A frame \in Body : Size[frame] = 0 <=> frame = "Empty"

VARIABLES
  collecting,   \* the Server has a SizeCollectorChanges, not the SizeCollector that ignores all
  seen,         \* the last size the collector was told, per direction: at most one
  updated,      \* its send_updated and recv_updated
  changed,      \* whether any size differed from the one before it since the last is_updated
                \* (a history variable)
  pyRet         \* how the last call ended

pyVars == <<req, linked, sent, outbox, inbox, replies, rep, bound, serving,
            collecting, seen, updated, changed, pyRet>>

collector == <<collecting, seen, updated, changed>>

PyServer == "server"

Direction == {"send", "recv"}

PyOp == {"none", "construct", "connect", "send", "recv", "recv_noblock", "recv_blocking",
         "stop", "is_updated"}

PyOutcome == {"ok", "message", "None", "EFSM", "raises", "asserts", "True", "False"}

PyReturns(who, op, out) == pyRet' = [who |-> who, op |-> op, out |-> out]

Sizes == {Size[frame] : frame \in Body}

NoCollector == /\ seen' = [d \in Direction |-> {}]
               /\ updated' = [d \in Direction |-> FALSE]
               /\ changed' = FALSE

PyInit == /\ SocketsInit
          /\ collecting = FALSE
          /\ seen = [d \in Direction |-> {}]
          /\ updated = [d \in Direction |-> FALSE]
          /\ changed = FALSE
          /\ pyRet = [who |-> PyServer, op |-> "none", out |-> "ok"]
------------------------------------------------------------------------------
(* The collector. *)

(* Mutant: sizes are compared with those of the other direction. *)
CollectOther(d, frame) ==
  IF collecting
    THEN /\ updated' = [updated EXCEPT ![d] = \E o \in Direction \ {d} : {Size[frame]} # seen[o]]
         /\ seen' = [seen EXCEPT ![d] = {Size[frame]}]
         /\ changed' = (changed \/ {Size[frame]} # seen[d])
         /\ UNCHANGED collecting
    ELSE UNCHANGED collector

(* sendSize() and recvSize() after their assertion: the flag says whether  *)
(* this size is another than the last, not whether one of them was.        *)
Collect(d, frame) ==
  IF collecting
    THEN /\ updated' = [updated EXCEPT ![d] = {Size[frame]} # seen[d]]
         /\ seen' = [seen EXCEPT ![d] = {Size[frame]}]
         /\ changed' = (changed \/ {Size[frame]} # seen[d])
         /\ UNCHANGED collecting
    ELSE UNCHANGED collector

(* Mutant: the assertion is compiled away. *)
NeverAsserts(frame) == FALSE

(* Their assertion len > 0. *)
Asserts(frame) == collecting /\ Size[frame] = 0

is_updated == updated["send"] \/ updated["recv"]

IsUpdated ==
  /\ rep # "down" /\ collecting
  /\ PyReturns(PyServer, "is_updated", IF is_updated THEN "True" ELSE "False")
  /\ updated' = [d \in Direction |-> FALSE]
  /\ changed' = FALSE
  /\ UNCHANGED <<sockets, collecting, seen>>
------------------------------------------------------------------------------
(* Client *)

PyClientNew(c) == ReqNew(c) /\ PyReturns(c, "construct", "ok") /\ UNCHANGED collector

PyClientConnect(c) == ReqConnect(c) /\ PyReturns(c, "connect", "ok") /\ UNCHANGED collector

(* The frame is any message: or any bytes, of a peer of another version.   *)
PyClientSend(c) ==
  \/ \E frame \in Body : ReqSend(c, frame) /\ PyReturns(c, "send", "ok") /\ UNCHANGED collector
  \/ ReqBlock(c) /\ UNCHANGED <<collector, pyRet>>
  \/ /\ req[c] = "awaiting"
     /\ PyReturns(c, "send", "EFSM") /\ UNCHANGED <<sockets, collector>>

PyParsed(who, op, frame) == PyReturns(who, op, IF PyParses(frame) THEN "message" ELSE "raises")

RecvName(block) == IF block THEN "recv" ELSE "recv_noblock"

(* Mutant: a request that was not answered yet is sent again. *)
PyClientRecvRetries(c, block) ==
  \/ \E e \in From(replies, c) :
       ReqRecv(c, e) /\ PyParsed(c, RecvName(block), e.body) /\ UNCHANGED collector
  \/ /\ req[c] = "awaiting" /\ From(replies, c) = {} /\ ~block
     /\ \E frame \in Body :
          outbox' = outbox \cup {[client |-> c, n |-> sent[c], body |-> frame]}
     /\ PyReturns(c, "recv_noblock", "None")
     /\ UNCHANGED <<req, linked, sent, inbox, replies, rep, bound, serving, collector>>
  \/ /\ req[c] = "ready"
     /\ PyReturns(c, RecvName(block), "EFSM") /\ UNCHANGED <<sockets, collector>>

PyClientRecv(c, block) ==
  \/ \E e \in From(replies, c) :
       ReqRecv(c, e) /\ PyParsed(c, RecvName(block), e.body) /\ UNCHANGED collector
  \/ /\ req[c] = "awaiting" /\ From(replies, c) = {} /\ ~block
     /\ PyReturns(c, "recv_noblock", "None") /\ UNCHANGED <<sockets, collector>>
  \/ /\ req[c] = "ready"
     /\ PyReturns(c, RecvName(block), "EFSM") /\ UNCHANGED <<sockets, collector>>

(* stop() closes the socket and waits until it has nothing left to send.   *)
PyClientStop(c) == ReqClose(c) /\ UNCHANGED <<collector, pyRet>>

PyClientStopped(c) == ReqClosed(c) /\ PyReturns(c, "stop", "ok") /\ UNCHANGED collector

PyClientCrash(c) == ReqCrash(c) /\ UNCHANGED <<collector, pyRet>>
------------------------------------------------------------------------------
(* Server *)

(* The constructor makes the socket and binds it; its caller chooses the   *)
(* collector.                                                              *)
PyServerNew ==
  /\ RepNew
  /\ collecting' \in BOOLEAN
  /\ NoCollector /\ UNCHANGED pyRet

PyServerBind == RepBind /\ PyReturns(PyServer, "construct", "ok") /\ UNCHANGED collector

(* Mutant: a frame the parser does not take is dropped for the next one. *)
PyServerRecvSkips ==
  \/ \E e \in inbox :
       /\ PyParses(e.body) /\ ~Asserts(e.body)
       /\ RepRecv(e) /\ PyReturns(PyServer, "recv", "message") /\ Collect("recv", e.body)
  \/ /\ rep = "recv" /\ bound
     /\ inbox' = {e \in inbox : PyParses(e.body) /\ ~Asserts(e.body)}
     /\ PyReturns(PyServer, "recv", "None")
     /\ UNCHANGED <<req, linked, sent, outbox, replies, rep, bound, serving, collector>>
  \/ /\ rep = "send"
     /\ PyReturns(PyServer, "recv", "EFSM") /\ UNCHANGED <<sockets, collector>>

(* The collector is told between the socket's recv and the parser.         *)
PyServerRecv ==
  \/ \E e \in inbox :
       /\ RepRecv(e)
       /\ IF Asserts(e.body) THEN PyReturns(PyServer, "recv", "asserts") /\ UNCHANGED collector
                             ELSE PyParsed(PyServer, "recv", e.body) /\ Collect("recv", e.body)
  \/ /\ rep = "recv" /\ bound /\ inbox = {}
     /\ PyReturns(PyServer, "recv", "None") /\ UNCHANGED <<sockets, collector>>
  \/ /\ rep = "send"
     /\ PyReturns(PyServer, "recv", "EFSM") /\ UNCHANGED <<sockets, collector>>

(* The blocking variant does not tell the collector. *)
PyServerRecvBlocking ==
  \/ \E e \in inbox :
       RepRecv(e) /\ PyParsed(PyServer, "recv_blocking", e.body) /\ UNCHANGED collector
  \/ /\ rep = "send"
     /\ PyReturns(PyServer, "recv_blocking", "EFSM") /\ UNCHANGED <<sockets, collector>>

(* The collector is told before the socket is asked.                       *)
PyServerSend(frame) ==
  \/ /\ bound /\ Asserts(frame)
     /\ PyReturns(PyServer, "send", "asserts") /\ UNCHANGED <<sockets, collector>>
  \/ /\ ~Asserts(frame)
     /\ RepSend(frame) /\ PyReturns(PyServer, "send", "ok") /\ Collect("send", frame)
  \/ /\ bound /\ rep = "recv" /\ ~Asserts(frame)
     /\ PyReturns(PyServer, "send", "EFSM") /\ Collect("send", frame) /\ UNCHANGED sockets

PyServerStop == RepClose /\ PyReturns(PyServer, "stop", "ok") /\ UNCHANGED collector

PyServerExit == RepExit /\ collecting' = FALSE /\ NoCollector /\ UNCHANGED pyRet

PyServerCrash == RepCrash /\ collecting' = FALSE /\ NoCollector /\ UNCHANGED pyRet
------------------------------------------------------------------------------
PyClientStep(c) ==
  \/ PyClientNew(c) \/ PyClientConnect(c) \/ PyClientSend(c)
  \/ PyClientRecv(c, TRUE) \/ PyClientRecv(c, FALSE)
  \/ PyClientStop(c) \/ PyClientStopped(c) \/ PyClientCrash(c)

PyServerStep ==
  \/ PyServerNew \/ PyServerBind \/ PyServerRecv \/ PyServerRecvBlocking
  \/ \E frame \in Body : PyServerSend(frame)
  \/ IsUpdated \/ PyServerStop \/ PyServerExit \/ PyServerCrash

PyNext == \/ \E c \in Client : PyClientStep(c)
          \/ PyServerStep
          \/ Network /\ UNCHANGED <<collector, pyRet>>

PySpec == PyInit /\ [][PyNext]_pyVars
------------------------------------------------------------------------------
PyTypeOK ==
  /\ SocketsOK
  /\ collecting \in BOOLEAN
  /\ seen \in [Direction -> {{}} \cup {{size} : size \in Sizes \ {0}}]
  /\ updated \in [Direction -> BOOLEAN]
  /\ changed \in BOOLEAN
  /\ pyRet \in [who : Client \cup {PyServer}, op : PyOp, out : PyOutcome]

(* is_updated never reports a change that was not one: sizes that did not  *)
(* change since the last call are not reported, in whatever order sends,   *)
(* receives, refused calls and calls of is_updated came.                   *)
NoFalseAlarm == is_updated => changed

(* server.py:31, "Returns True if there is a change in send_size or        *)
(* recv_size": since the last call, says the line after it.                *)
NoMissedChange == collecting /\ changed => is_updated

(* Only a loss in the network or the end of the server leaves a controller *)
(* waiting for an answer nobody owes it: not a frame the parser or the     *)
(* collector rejects.                                                      *)
PyStrandedOnlyByLoss ==
  [][\A c \in Client : Stranded(c)' /\ ~Stranded(c) => ~Up' \/ Loss]_pyVars
==============================================================================
