------------------------------ MODULE ClickApi ------------------------------
(***************************************************************************)
(* The C++ library's click::Client and click::Server: one REQ socket each  *)
(* per controller, one REP socket for the simulation, and the server's     *)
(* must_send()/must_recv() advice about whose turn it is.                  *)
(*                                                                         *)
(* The module is the library under every caller: at each step any thread   *)
(* calls any method its object has, in turn or out of turn, and processes  *)
(* may die between two calls.  One action is one call that returns; a call *)
(* that waits is an action that is not enabled.  "ret" is what the last    *)
(* call told its caller.                                                   *)
(***************************************************************************)
EXTENDS ZmqReqRep

VARIABLES
  sendIsNext,   \* Server::m_send_is_next_action; meaningless while no Server exists
  ret           \* who called what last, how it ended, what it took and what it gave

apiVars == <<req, linked, sent, outbox, inbox, replies, rep, bound, serving,
             sendIsNext, ret>>

MessageType == {"HandshakeInit", "Handshake", "Control", "Sensor",
                "Reset", "Error", "SensorRequest"}

ASSUME BodyAssumption == "nothing" \notin Body

(* fromBytes makes a message of these frames and throws on all others.     *)
Parses(frame) == frame \in MessageType

(* must_send() and must_recv(). *)
must_send == sendIsNext
must_recv == ~sendIsNext

Server == "server"

ASSUME ServerAssumption == Server \notin Client

Outcome == {"true", "false", "message", "empty", "EFSM", "throw", "blocks"}

Op == {"none", "construct", "connect", "bind", "send", "receive", "receive_bytes", "terminate"}

(* "took" is the frame the socket gave up, "gave" what the caller got.     *)
Ret == [who : Client \cup {Server}, op : Op, out : Outcome,
        took : Body \cup {"nothing"}, gave : Body \cup {"nothing"}]

Returns(who, op, out, took, gave) ==
  ret' = [who |-> who, op |-> op, out |-> out, took |-> took, gave |-> gave]

(* A call that takes no frame off the socket. *)
Ends(who, op, out) == Returns(who, op, out, "nothing", "nothing")

(* The call out of turn: libzmq refuses it, zmq.hpp throws. *)
OutOfTurn(who, op) == Ends(who, op, "EFSM") /\ UNCHANGED <<sockets, sendIsNext>>

(* Mutant: an exception in fromBytes is swallowed and a null pointer returned. *)
DeliverSwallows(who, frame) ==
  Returns(who, "receive", IF Parses(frame) THEN "message" ELSE "nullptr", frame, frame)

(* A receive that took a frame: an object of the message, or an exception. *)
Deliver(who, frame) ==
  IF Parses(frame) THEN Returns(who, "receive", "message", frame, frame)
                   ELSE Returns(who, "receive", "throw", frame, "nothing")

Init == /\ SocketsInit
        /\ sendIsNext = FALSE
        /\ ret \in {[who |-> Server, op |-> "none", out |-> "true",
                     took |-> "nothing", gave |-> "nothing"]}
------------------------------------------------------------------------------
(* click::Client *)

ClientNew(c) ==
  /\ ReqNew(c)
  /\ Ends(c, "construct", "true") /\ UNCHANGED sendIsNext

ClientConnect(c) ==
  /\ ReqConnect(c)
  /\ Ends(c, "connect", "true") /\ UNCHANGED sendIsNext

(* Mutant: a REQ socket that lets a client ask again before it was answered. *)
ClientSendRelaxed(c, frame) ==
  \/ ReqSend(c, frame) /\ Ends(c, "send", "true") /\ UNCHANGED sendIsNext
  \/ ReqBlock(c) /\ Ends(c, "send", "blocks") /\ UNCHANGED sendIsNext
  \/ /\ req[c] = "awaiting" /\ sent[c] < MaxRequests
     /\ sent' = [sent EXCEPT ![c] = @ + 1]
     /\ outbox' = outbox \cup {[client |-> c, n |-> sent[c] + 1, body |-> frame]}
     /\ Ends(c, "send", "true")
     /\ UNCHANGED <<req, linked, inbox, replies, rep, bound, serving, sendIsNext>>

(* The socket is blocking: send() never says false. *)
ClientSend(c, frame) ==
  \/ ReqSend(c, frame) /\ Ends(c, "send", "true") /\ UNCHANGED sendIsNext
  \/ ReqBlock(c) /\ Ends(c, "send", "blocks") /\ UNCHANGED sendIsNext
  \/ req[c] = "awaiting" /\ OutOfTurn(c, "send")

ClientSendBytes(c) == \E frame \in Body : ClientSend(c, frame)

ClientSendMessage(c) == \E frame \in Body : Parses(frame) /\ ClientSend(c, frame)

(* The overload for raw bytes takes the reply into an empty buffer and     *)
(* copies from the caller's string, not to it.                             *)
ClientReceiveBytes(c) ==
  \/ \E e \in From(replies, c) :
       /\ ReqRecv(c, e)
       /\ Returns(c, "receive_bytes", "true", e.body, "nothing")
       /\ UNCHANGED sendIsNext
  \/ /\ req[c] = "awaiting" /\ From(replies, c) = {}
     /\ Ends(c, "receive_bytes", "false") /\ UNCHANGED <<sockets, sendIsNext>>
  \/ req[c] = "ready" /\ OutOfTurn(c, "receive_bytes")

(* Mutant: a receive that finds nothing sends the request once more. *)
ClientReceiveRetries(c, block) ==
  \/ \E e \in From(replies, c) :
       ReqRecv(c, e) /\ Deliver(c, e.body) /\ UNCHANGED sendIsNext
  \/ /\ req[c] = "awaiting" /\ From(replies, c) = {} /\ ~block
     /\ outbox' = outbox \cup {[client |-> c, n |-> sent[c], body |-> "Control"]}
     /\ Ends(c, "receive", "empty")
     /\ UNCHANGED <<req, linked, sent, inbox, replies, rep, bound, serving, sendIsNext>>
  \/ req[c] = "ready" /\ OutOfTurn(c, "receive")

(* A blocking receive with no reply to take is not enabled. *)
ClientReceive(c, block) ==
  \/ \E e \in From(replies, c) :
       ReqRecv(c, e) /\ Deliver(c, e.body) /\ UNCHANGED sendIsNext
  \/ /\ req[c] = "awaiting" /\ From(replies, c) = {} /\ ~block
     /\ Ends(c, "receive", "empty") /\ UNCHANGED <<sockets, sendIsNext>>
  \/ req[c] = "ready" /\ OutOfTurn(c, "receive")

ClientBlockingReceive(c) == ClientReceive(c, TRUE)

(* terminate() closes the socket and then waits for the context to close.  *)
(* The destructor calls it, and a second call finds nothing to do.         *)
ClientTerminate(c) ==
  /\ ReqClose(c)
  /\ UNCHANGED <<sendIsNext, ret>>

ClientTerminated(c) ==
  /\ ReqClosed(c)
  /\ Ends(c, "terminate", "true") /\ UNCHANGED sendIsNext

(* A process may die at any point; a call on a terminated Client, which    *)
(* goes through a null socket pointer, is one way to.                      *)
ClientCrash(c) == ReqCrash(c) /\ UNCHANGED <<sendIsNext, ret>>
------------------------------------------------------------------------------
(* click::Server *)

ServerNew ==
  /\ RepNew
  /\ sendIsNext' = FALSE
  /\ Ends(Server, "construct", "true")

ServerBind ==
  \/ RepBind /\ Ends(Server, "bind", "true") /\ UNCHANGED sendIsNext
  \/ Up /\ bound /\ Ends(Server, "bind", "throw") /\ UNCHANGED <<sockets, sendIsNext>>

(* Mutant: send() forgets to turn the flag back. *)
ServerSendKeepsFlag(frame) ==
  \/ RepSend(frame) /\ UNCHANGED sendIsNext /\ Ends(Server, "send", "true")
  \/ rep = "recv" /\ OutOfTurn(Server, "send")

ServerSend(frame) ==
  \/ RepSend(frame) /\ sendIsNext' = FALSE /\ Ends(Server, "send", "true")
  \/ rep = "recv" /\ OutOfTurn(Server, "send")

ServerSendBytes == \E frame \in Body : ServerSend(frame)

ServerSendMessage == \E frame \in Body : Parses(frame) /\ ServerSend(frame)

(* The frame is read into a message, and the caller's string is copied     *)
(* over it.                                                                *)
ServerReceiveBytes ==
  \/ \E e \in inbox :
       /\ RepRecv(e)
       /\ sendIsNext' = TRUE
       /\ Returns(Server, "receive_bytes", "true", e.body, "nothing")
  \/ /\ rep = "recv" /\ inbox = {}
     /\ Ends(Server, "receive_bytes", "false") /\ UNCHANGED <<sockets, sendIsNext>>
  \/ rep = "send" /\ OutOfTurn(Server, "receive_bytes")

(* Mutant: the flag is set after the bytes were parsed. *)
ServerReceiveFlagLast(block) ==
  \/ \E e \in inbox : /\ RepRecv(e) /\ Deliver(Server, e.body)
                      /\ sendIsNext' = (sendIsNext \/ Parses(e.body))
  \/ /\ rep = "recv" /\ inbox = {} /\ ~block
     /\ Ends(Server, "receive", "empty") /\ UNCHANGED <<sockets, sendIsNext>>
  \/ rep = "send" /\ OutOfTurn(Server, "receive")

(* Mutant: a request that does not parse is skipped as if nothing had come. *)
ServerReceiveSkips(block) ==
  \/ \E e \in inbox : Parses(e.body) /\ RepRecv(e) /\ sendIsNext' = TRUE
                                      /\ Deliver(Server, e.body)
  \/ /\ rep = "recv" /\ ~block
     /\ inbox' = {e \in inbox : Parses(e.body)}
     /\ Ends(Server, "receive", "empty")
     /\ UNCHANGED <<req, linked, sent, outbox, replies, rep, bound, serving, sendIsNext>>
  \/ rep = "send" /\ OutOfTurn(Server, "receive")

(* The flag is set before the bytes are parsed: also when that throws.     *)
ServerReceive(block) ==
  \/ \E e \in inbox : RepRecv(e) /\ sendIsNext' = TRUE /\ Deliver(Server, e.body)
  \/ /\ rep = "recv" /\ inbox = {} /\ ~block
     /\ Ends(Server, "receive", "empty") /\ UNCHANGED <<sockets, sendIsNext>>
  \/ rep = "send" /\ OutOfTurn(Server, "receive")

ServerBlockingReceive == ServerReceive(TRUE)

ServerTerminate ==
  /\ RepClose
  /\ Ends(Server, "terminate", "true") /\ UNCHANGED sendIsNext

(* The object is destroyed after terminate(), or its process dies.         *)
ServerDestroy == RepExit /\ sendIsNext' = FALSE /\ UNCHANGED ret

ServerCrash == RepCrash /\ sendIsNext' = FALSE /\ UNCHANGED ret
------------------------------------------------------------------------------
ClientStep(c) ==
  \/ ClientNew(c) \/ ClientConnect(c)
  \/ ClientSendBytes(c) \/ ClientSendMessage(c)
  \/ ClientReceiveBytes(c)
  \/ ClientBlockingReceive(c) \/ ClientReceive(c, FALSE)
  \/ ClientTerminate(c) \/ ClientTerminated(c) \/ ClientCrash(c)

ServerStep ==
  \/ ServerNew \/ ServerBind
  \/ ServerSendBytes \/ ServerSendMessage
  \/ ServerReceiveBytes
  \/ ServerBlockingReceive \/ ServerReceive(FALSE)
  \/ ServerTerminate \/ ServerDestroy \/ ServerCrash

NetworkStep == Network /\ UNCHANGED <<sendIsNext, ret>>

Next == (\E c \in Client : ClientStep(c)) \/ ServerStep \/ NetworkStep

Spec == Init /\ [][Next]_apiVars
------------------------------------------------------------------------------
(* Every variable holds what its comment says. *)
TypeOK == SocketsOK /\ sendIsNext \in BOOLEAN /\ ret \in Ret

(* While a Server object has its socket, m_send_is_next_action says which  *)
(* of send and recv the REP socket accepts, whatever was called before: in *)
(* particular after receive() has thrown on a frame it cannot parse, and   *)
(* in a server that was restarted.                                         *)
FlagTracksSocket == Up => (must_send <=> rep = "send")

(* A caller that follows must_send() and must_recv(), as Server.h tells it *)
(* to, never meets EFSM: the call the server advises is never refused.     *)
AdviceIsSound ==
  [][ret' # ret /\ ret'.who = Server /\ ret'.out = "EFSM"
       => IF ret'.op = "send" THEN ~must_send ELSE ~must_recv]_apiVars

(* A controller is stranded only by a loss in the network or by the end of *)
(* the server that had its request: not by a call out of turn, an          *)
(* exception, another controller that dies, or a frame that does not parse.*)
StrandedOnlyByLoss ==
  [][\A c \in Client : Stranded(c)' /\ ~Stranded(c) => ~Up' \/ Loss]_apiVars
------------------------------------------------------------------------------
(* What the documentation of the two headers says and the code does not.   *)

(* Server.h:45 and Client.h:49, "If there is a message ready then get it   *)
(* as a string".                                                           *)
ReceiveBytesDelivers ==
  ret.op = "receive_bytes" /\ ret.out = "true" => ret.gave = ret.took
==============================================================================
