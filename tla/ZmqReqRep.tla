------------------------------ MODULE ZmqReqRep ------------------------------
(***************************************************************************)
(* The ZeroMQ sockets under Click: any number of REQ sockets, one per      *)
(* client object, and the REP socket of one server endpoint.  ZeroMQ is    *)
(* not part of the repository; this module is the part of its behaviour    *)
(* that Click's two wrappers and its demos depend on:                      *)
(*                                                                         *)
(*   - a REQ socket alternates send and recv, a REP socket recv and send;  *)
(*     the call out of turn fails at once with EFSM and changes nothing;   *)
(*   - a REQ socket sends into a pipe that exists from connect() on, even  *)
(*     while nobody is bound (the outbox); before connect() a blocking     *)
(*     send waits for a pipe that nobody will ever make;                   *)
(*   - what a REP socket has accepted but not read dies with it, and an    *)
(*     answer to a peer that is gone is dropped without an error;          *)
(*   - closing waits (infinite linger) until the outbox is empty;          *)
(*   - nothing is ever sent twice: there is no retry.                      *)
(*                                                                         *)
(* A client has at most one message in the system, so pipes need no order: *)
(* the message media are sets.  The actions say what one socket call does  *)
(* when it succeeds; their guards are the cases in which it does.          *)
(***************************************************************************)
EXTENDS Naturals, FiniteSets

CONSTANTS
  Client,        \* client objects: each is constructed once, a restart is another one
  Body,          \* what a frame can hold
  MaxRequests,   \* bound of the model: requests per client object
  Lossy          \* whether the network may lose messages in flight

ASSUME MaxRequestsAssumption == MaxRequests \in Nat
ASSUME LossyAssumption == Lossy \in BOOLEAN

VARIABLES
  req,      \* state of each client's REQ socket
  linked,   \* the clients whose socket has been connected
  sent,     \* how many requests each client has sent (a history variable)
  outbox,   \* requests sent that have not reached the server
  inbox,    \* requests the server's socket has accepted and not read
  replies,  \* replies on their way to a client
  rep,      \* state of the server's REP socket
  bound,    \* whether the server's socket listens
  serving   \* the request read and not yet replied to: at most one

sockets == <<req, linked, sent, outbox, inbox, replies, rep, bound, serving>>

ReqState == {"absent", "ready", "awaiting", "stuck", "closing", "closed", "dead"}
RepState == {"down", "recv", "send", "closed"}

Envelope == [client : Client, n : 0..MaxRequests, body : Body]

Open(c) == req[c] \in {"ready", "awaiting"}     \* the socket is usable by its thread
Up == rep \in {"recv", "send"}

From(S, c) == {e \in S : e.client = c}

SocketsOK ==
  /\ req \in [Client -> ReqState]
  /\ linked \subseteq Client
  /\ sent \in [Client -> 0..MaxRequests]
  /\ outbox \subseteq Envelope
  /\ inbox \subseteq Envelope
  /\ replies \subseteq Envelope
  /\ rep \in RepState
  /\ bound \in BOOLEAN
  /\ serving \subseteq Envelope

SocketsInit ==
  /\ req = [c \in Client |-> "absent"]
  /\ linked = {}
  /\ sent = [c \in Client |-> 0]
  /\ outbox = {} /\ inbox = {} /\ replies = {}
  /\ rep = "down" /\ bound = FALSE /\ serving = {}
------------------------------------------------------------------------------
(* The REQ side. *)

ReqNew(c) ==
  /\ req[c] = "absent"
  /\ req' = [req EXCEPT ![c] = "ready"]
  /\ UNCHANGED <<linked, sent, outbox, inbox, replies, rep, bound, serving>>

(* A second connect() to the one endpoint of the model is ignored. *)
ReqConnect(c) ==
  /\ Open(c)
  /\ linked' = linked \cup {c}
  /\ UNCHANGED <<req, sent, outbox, inbox, replies, rep, bound, serving>>

ReqSend(c, body) ==
  /\ req[c] = "ready" /\ c \in linked /\ sent[c] < MaxRequests
  /\ req' = [req EXCEPT ![c] = "awaiting"]
  /\ sent' = [sent EXCEPT ![c] = @ + 1]
  /\ outbox' = outbox \cup {[client |-> c, n |-> sent[c] + 1, body |-> body]}
  /\ UNCHANGED <<linked, inbox, replies, rep, bound, serving>>

(* A blocking send on a socket that was never connected. *)
ReqBlock(c) ==
  /\ req[c] = "ready" /\ c \notin linked
  /\ req' = [req EXCEPT ![c] = "stuck"]
  /\ UNCHANGED <<linked, sent, outbox, inbox, replies, rep, bound, serving>>

ReqRecv(c, e) ==
  /\ req[c] = "awaiting" /\ e \in From(replies, c)
  /\ req' = [req EXCEPT ![c] = "ready"]
  /\ replies' = replies \ {e}
  /\ UNCHANGED <<linked, sent, outbox, inbox, rep, bound, serving>>

(* The socket is closed: what it has sent stays, what it was sent is lost. *)
ReqClose(c) ==
  /\ Open(c)
  /\ req' = [req EXCEPT ![c] = "closing"]
  /\ replies' = replies \ From(replies, c)
  /\ UNCHANGED <<linked, sent, outbox, inbox, rep, bound, serving>>

(* Closing the context returns once the socket has nothing left to send. *)
ReqClosed(c) ==
  /\ req[c] = "closing" /\ From(outbox, c) = {}
  /\ req' = [req EXCEPT ![c] = "closed"]
  /\ UNCHANGED <<linked, sent, outbox, inbox, replies, rep, bound, serving>>

(* The process dies, whatever it was doing: its pipes go with it, and what *)
(* the server has accepted from it may or may not be read any more.        *)
ReqCrash(c) ==
  /\ req[c] \notin {"absent", "dead"}
  /\ req' = [req EXCEPT ![c] = "dead"]
  /\ outbox' = outbox \ From(outbox, c)
  /\ inbox' \in {inbox, inbox \ From(inbox, c)}
  /\ replies' = replies \ From(replies, c)
  /\ UNCHANGED <<linked, sent, rep, bound, serving>>
------------------------------------------------------------------------------
(* The REP side. *)

RepNew ==
  /\ rep = "down"
  /\ rep' = "recv"
  /\ UNCHANGED <<req, linked, sent, outbox, inbox, replies, bound, serving>>

RepBind ==
  /\ Up /\ ~bound
  /\ bound' = TRUE
  /\ UNCHANGED <<req, linked, sent, outbox, inbox, replies, rep, serving>>

RepRecv(e) ==
  /\ rep = "recv" /\ e \in inbox
  /\ rep' = "send"
  /\ inbox' = inbox \ {e}
  /\ serving' = {e}
  /\ UNCHANGED <<req, linked, sent, outbox, replies, bound>>

(* The reply goes to the client whose request was read last, if it is      *)
(* still there to read it.                                                 *)
RepSend(body) ==
  /\ rep = "send"
  /\ rep' = "recv"
  /\ serving' = {}
  /\ replies' = replies \cup
       {[client |-> e.client, n |-> e.n, body |-> body] :
          e \in {s \in serving : req[s.client] = "awaiting"}}
  /\ UNCHANGED <<req, linked, sent, outbox, inbox, bound>>

(* The requests the socket holds are lost with it. *)
RepStop(state) ==
  /\ rep' = state /\ bound' = FALSE
  /\ inbox' = {} /\ serving' = {}
  /\ UNCHANGED <<req, linked, sent, outbox>>

(* Closing waits until the replies are on their way. *)
RepClose ==
  /\ Up
  /\ RepStop("closed")
  /\ UNCHANGED replies

(* The end of the process that owns the socket, closed or not.             *)
RepExit ==
  /\ rep = "closed"
  /\ rep' = "down"
  /\ UNCHANGED <<req, linked, sent, outbox, inbox, replies, bound, serving>>

(* The process dies with any of its replies still unsent. *)
RepCrash ==
  /\ rep # "down"
  /\ RepStop("down")
  /\ replies' \in SUBSET replies
------------------------------------------------------------------------------
(* The network. *)

(* The REQ sockets reconnect by themselves for as long as they live: what  *)
(* waits in an outbox reaches whichever server is bound at the time.       *)
Flush(e) ==
  /\ bound /\ e \in outbox
  /\ outbox' = outbox \ {e}
  /\ inbox' = inbox \cup {e}
  /\ UNCHANGED <<req, linked, sent, replies, rep, bound, serving>>

LoseRequest(e) ==
  /\ Lossy /\ bound /\ e \in outbox
  /\ outbox' = outbox \ {e}
  /\ UNCHANGED <<req, linked, sent, inbox, replies, rep, bound, serving>>

LoseReply(e) ==
  /\ Lossy /\ e \in replies
  /\ replies' = replies \ {e}
  /\ UNCHANGED <<req, linked, sent, outbox, inbox, rep, bound, serving>>

Loss == (\E e \in outbox : LoseRequest(e)) \/ (\E e \in replies : LoseReply(e))

Network == (\E e \in outbox : Flush(e)) \/ Loss
------------------------------------------------------------------------------
(* Everything the sockets can do, whoever makes the calls. *)
ReqStep(c) == \/ ReqNew(c) \/ ReqConnect(c) \/ ReqBlock(c)
              \/ \E body \in Body : ReqSend(c, body)
              \/ \E e \in replies : ReqRecv(c, e)
              \/ ReqClose(c) \/ ReqClosed(c) \/ ReqCrash(c)

RepStep == \/ RepNew \/ RepBind
           \/ \E e \in inbox : RepRecv(e)
           \/ \E body \in Body : RepSend(body)
           \/ RepClose \/ RepExit \/ RepCrash

SocketsNext == (\E c \in Client : ReqStep(c)) \/ RepStep \/ Network
------------------------------------------------------------------------------
(* The messages of one client anywhere between its send and its receive.   *)
Traffic(c) == From(outbox, c) \cup From(inbox, c) \cup From(serving, c) \cup From(replies, c)

(* A controller has at most one message in the whole system, it is the one *)
(* its last send was about, and while it may send there is none: no reply  *)
(* can be taken for the answer to another request.  This is what lets      *)
(* Client::receive() return whatever comes without matching it to a send.  *)
OneOutstanding ==
  \A c \in Client :
    /\ \A e, f \in Traffic(c) : e = f
    /\ \A e \in Traffic(c) : e.n = sent[c]
    /\ req[c] \in {"absent", "ready", "stuck"} => Traffic(c) = {}
    /\ From(replies, c) # {} => req[c] = "awaiting"

(* That message is in one place. *)
OnePlace ==
  /\ outbox \cap (inbox \cup serving \cup replies) = {}
  /\ inbox \cap (serving \cup replies) = {}
  /\ serving \cap replies = {}

(* The server owes an answer exactly while its socket is about to send, to *)
(* one client.                                                             *)
OneServed ==
  /\ serving # {} <=> rep = "send"
  /\ \A e, f \in serving : e = f

(* The inductive invariant of the sockets. *)
SocketsInv == SocketsOK /\ OneOutstanding /\ OnePlace /\ OneServed

(* A client that waits for something nobody is going to send. *)
Stranded(c) == req[c] = "awaiting" /\ Traffic(c) = {}
------------------------------------------------------------------------------
(* Where a client's round trip stands, for the abstract specification.     *)
TripStage(c) == IF From(outbox \cup inbox, c) # {} THEN "asked"
                ELSE IF From(serving, c) # {} THEN "served"
                ELSE IF From(replies, c) # {} THEN "answered"
                ELSE "lost"

Stage(c) == CASE req[c] = "absent" -> "absent"
              [] req[c] \in {"ready", "stuck"} -> "idle"
              [] req[c] = "awaiting" -> TripStage(c)
              [] OTHER -> "gone"

phase == [c \in Client |-> Stage(c)]

Abstract == INSTANCE RoundTrip WITH phase <- phase

(* The library keeps the promise of taking turns: every interleaving of    *)
(* calls, in turn or not, of crashes and of losses is one of RoundTrip's.  *)
RefinesRoundTrip == Abstract!Spec
==============================================================================
