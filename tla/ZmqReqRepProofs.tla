--------------------------- MODULE ZmqReqRepProofs ---------------------------
(***************************************************************************)
(* The sockets keep SocketsInv and implement RoundTrip, for any number of  *)
(* clients and requests, on a network that loses messages or not.  The     *)
(* theorems speak of SocketsNext, every socket call and network step there *)
(* is: a module that adds a wrapper around the calls only has to show that *)
(* its own steps are socket steps.                                         *)
(***************************************************************************)
EXTENDS ZmqReqRep, TLAPS

(* No sockets, no messages: the invariant holds. *)
THEOREM InvInit == SocketsInit => SocketsInv
<1> SUFFICES ASSUME SocketsInit PROVE SocketsInv
  OBVIOUS
<1> USE DEF SocketsInit
<1>1. SocketsOK
  <2>1. req \in [Client -> ReqState]
    BY DEF ReqState
  <2>2. sent \in [Client -> 0..MaxRequests]
    <3>1. 0 \in 0..MaxRequests
      BY MaxRequestsAssumption
    <3> QED
      BY <3>1
  <2>3. rep \in RepState /\ bound \in BOOLEAN
    BY DEF RepState
  <2> QED
    BY <2>1, <2>2, <2>3 DEF SocketsOK
<1>2. OneOutstanding
  BY DEF OneOutstanding, Traffic, From
<1>3. OnePlace /\ OneServed
  BY DEF OnePlace, OneServed
<1> QED
  BY <1>1, <1>2, <1>3 DEF SocketsInv

(* A client's own calls: only send adds a message, and only when that       *)
(* client has none; receive is the only one that lets it send again.        *)
LEMMA ReqStepInv ==
  ASSUME SocketsInv, NEW c \in Client, ReqStep(c)
  PROVE  SocketsInv'
<1> USE DEF SocketsInv, SocketsOK, OneOutstanding, OnePlace, OneServed, Traffic, From,
            ReqState, Envelope
<1>1. CASE ReqNew(c)
  BY <1>1 DEF ReqNew
<1>2. CASE ReqConnect(c)
  BY <1>2 DEF ReqConnect
<1>3. CASE ReqBlock(c)
  BY <1>3 DEF ReqBlock
<1>4. CASE \E body \in Body : ReqSend(c, body)
  <2> PICK body \in Body : ReqSend(c, body)
    BY <1>4
  <2> DEFINE e == [client |-> c, n |-> sent[c] + 1, body |-> body]
  <2>1. e \in Envelope /\ Traffic(c) = {}
    BY MaxRequestsAssumption DEF ReqSend
  <2>2. SocketsOK'
    BY <2>1, MaxRequestsAssumption DEF ReqSend
  <2>3. OnePlace' /\ OneServed'
    BY <2>1 DEF ReqSend
  <2>4. OneOutstanding'
    BY <2>1 DEF ReqSend
  <2> QED
    BY <2>2, <2>3, <2>4
<1>5. CASE \E e \in replies : ReqRecv(c, e)
  <2> PICK e \in replies : ReqRecv(c, e)
    BY <1>5
  <2>1. Traffic(c) = {e}
    BY DEF ReqRecv
  <2>2. Traffic(c)' = {}
    BY <2>1 DEF ReqRecv
  <2>3. OneOutstanding'
    BY <2>2 DEF ReqRecv
  <2> QED
    BY <2>3 DEF ReqRecv
<1>6. CASE ReqClose(c)
  BY <1>6 DEF ReqClose, Open
<1>7. CASE ReqClosed(c)
  BY <1>7 DEF ReqClosed
<1>8. CASE ReqCrash(c)
  BY <1>8 DEF ReqCrash
<1> QED
  BY <1>1, <1>2, <1>3, <1>4, <1>5, <1>6, <1>7, <1>8 DEF ReqStep

(* The server's calls move the one message of a client on, or drop it. *)
LEMMA RepStepInv ==
  ASSUME SocketsInv, RepStep
  PROVE  SocketsInv'
<1> USE DEF SocketsInv, SocketsOK, OneOutstanding, OnePlace, OneServed, Traffic, From,
            RepState, Envelope
<1>1. CASE RepNew
  BY <1>1 DEF RepNew
<1>2. CASE RepBind
  BY <1>2 DEF RepBind
<1>3. CASE \E e \in inbox : RepRecv(e)
  BY <1>3 DEF RepRecv
<1>4. CASE \E body \in Body : RepSend(body)
  <2> PICK body \in Body : RepSend(body)
    BY <1>4
  <2>1. PICK s \in serving : serving = {s}
    BY DEF RepSend
  <2> DEFINE e == [client |-> s.client, n |-> s.n, body |-> body]
  <2>2. Traffic(s.client) = {s}
    BY <2>1
  <2>3. replies' = IF req[s.client] = "awaiting" THEN replies \cup {e} ELSE replies
    BY <2>1 DEF RepSend
  <2>4. e \in Envelope
    BY <2>1
  <2>5. SocketsOK' /\ OneServed'
    BY <2>3, <2>4 DEF RepSend
  <2>6. OnePlace'
    BY <2>2, <2>3 DEF RepSend
  <2>7. OneOutstanding'
    BY <2>1, <2>2, <2>3 DEF RepSend
  <2> QED
    BY <2>5, <2>6, <2>7
<1>5. CASE RepClose
  <2> USE <1>5 DEF RepClose, RepStop
  <2>1. SocketsOK' /\ OnePlace' /\ OneServed'
    OBVIOUS
  <2>2. OneOutstanding'
    OBVIOUS
  <2> QED
    BY <2>1, <2>2
<1>6. CASE RepExit
  BY <1>6 DEF RepExit
<1>7. CASE RepCrash
  <2>1. /\ rep' = "down" /\ inbox' = {} /\ serving' = {} /\ replies' \subseteq replies
        /\ bound' = FALSE /\ UNCHANGED <<req, linked, sent, outbox>>
    BY <1>7 DEF RepCrash, RepStop
  <2>2. SocketsOK' /\ OnePlace' /\ OneServed'
    BY <2>1
  <2>3. OneOutstanding'
    BY <2>1
  <2> QED
    BY <2>2, <2>3
<1> QED
  BY <1>1, <1>2, <1>3, <1>4, <1>5, <1>6, <1>7 DEF RepStep

(* The network moves a request or drops a message. *)
LEMMA NetworkInv ==
  ASSUME SocketsInv, Network
  PROVE  SocketsInv'
<1> USE DEF SocketsInv, SocketsOK, OneOutstanding, OnePlace, OneServed, Traffic, From
<1>1. CASE \E e \in outbox : Flush(e)
  BY <1>1 DEF Flush
<1>2. CASE \E e \in outbox : LoseRequest(e)
  BY <1>2 DEF LoseRequest
<1>3. CASE \E e \in replies : LoseReply(e)
  BY <1>3 DEF LoseReply
<1> QED
  BY <1>1, <1>2, <1>3 DEF Network, Loss

(* SocketsInv is inductive over everything the sockets can do: whatever    *)
(* order callers, crashes and the network act in, a client has at most one *)
(* message in the system and the server owes at most one answer.           *)
THEOREM InvStep == SocketsInv /\ [SocketsNext]_sockets => SocketsInv'
<1> SUFFICES ASSUME SocketsInv, [SocketsNext]_sockets PROVE SocketsInv'
  OBVIOUS
<1>1. CASE SocketsNext
  BY <1>1, ReqStepInv, RepStepInv, NetworkInv DEF SocketsNext
<1>2. CASE UNCHANGED sockets
  BY <1>2 DEF sockets, SocketsInv, SocketsOK, OneOutstanding, OnePlace, OneServed, Traffic, From
<1> QED
  BY <1>1, <1>2
------------------------------------------------------------------------------
(* The empty system is RoundTrip's initial state. *)
THEOREM RefinesInit == SocketsInit => Abstract!Init
BY DEF SocketsInit, Abstract!Init, phase, Stage, TripStage

(* A client's stage depends on its socket and on where its message is. *)
LEMMA StageFrame ==
  ASSUME NEW d \in Client, req'[d] = req[d],
         From(outbox \cup inbox, d)' = From(outbox \cup inbox, d),
         From(serving, d)' = From(serving, d), From(replies, d)' = From(replies, d)
  PROVE  Stage(d)' = Stage(d)
BY DEF Stage, TripStage

(* A step that moves one client's round trip is a step of RoundTrip's form. *)
LEMMA OneMoves ==
  ASSUME NEW c \in Client, NEW x, NEW y, Stage(c) = x, Stage(c)' = y,
         \A d \in Client \ {c} : Stage(d)' = Stage(d)
  PROVE  phase[c] = x /\ phase' = [phase EXCEPT ![c] = y]
BY DEF phase

(* A step that keeps every stage is none of RoundTrip's business. *)
LEMMA NobodyMoves ==
  ASSUME \A d \in Client : Stage(d)' = Stage(d)
  PROVE  phase' = phase
BY DEF phase

LEMMA ReqStepRefines ==
  ASSUME SocketsInv, NEW c \in Client, ReqStep(c)
  PROVE  Abstract!Next \/ phase' = phase
<1> USE DEF SocketsInv, OneOutstanding, Traffic
<1>0. req \in [Client -> ReqState]
  BY DEF SocketsOK
<1>1. CASE ReqNew(c)
  <2>1. \A d \in Client \ {c} : Stage(d)' = Stage(d)
    BY <1>0, <1>1, StageFrame DEF ReqNew
  <2>2. Stage(c) = "absent" /\ Stage(c)' = "idle"
    BY <1>0, <1>1 DEF ReqNew, Stage, TripStage
  <2>3. Abstract!Join(c)
    BY <2>1, <2>2, OneMoves DEF Abstract!Join, Abstract!Step
  <2> QED
    BY <2>3 DEF Abstract!Next
<1>2. CASE ReqConnect(c)
  <2>1. \A d \in Client : Stage(d)' = Stage(d)
    BY <1>2 DEF ReqConnect, Stage, TripStage, From
  <2> QED
    BY <2>1, NobodyMoves
<1>3. CASE ReqBlock(c)
  <2>1. \A d \in Client \ {c} : Stage(d)' = Stage(d)
    BY <1>0, <1>3 DEF ReqBlock, Stage, TripStage, From
  <2>2. Stage(c)' = Stage(c)
    BY <1>0, <1>3 DEF ReqBlock, Stage, TripStage
  <2> QED
    BY <2>1, <2>2, NobodyMoves
<1>4. CASE \E body \in Body : ReqSend(c, body)
  <2> PICK body \in Body : ReqSend(c, body)
    BY <1>4
  <2>1. \A d \in Client \ {c} : Stage(d)' = Stage(d)
    BY <1>0, StageFrame DEF ReqSend, From
  <2>2. Stage(c) = "idle"
    BY DEF ReqSend, Stage, TripStage
  <2>3. From(outbox \cup inbox, c)' # {}
    <3> DEFINE e == [client |-> c, n |-> sent[c] + 1, body |-> body]
    <3>1. e \in outbox' /\ e.client = c
      BY DEF ReqSend
    <3> QED
      BY <3>1 DEF From
  <2>4. Stage(c)' = "asked"
    BY <1>0, <2>3 DEF ReqSend, Stage, TripStage
  <2>5. Abstract!Ask(c)
    BY <2>1, <2>2, <2>4, OneMoves DEF Abstract!Ask, Abstract!Step
  <2> QED
    BY <2>5 DEF Abstract!Next
<1>5. CASE \E e \in replies : ReqRecv(c, e)
  <2> PICK e \in replies : ReqRecv(c, e)
    BY <1>5
  <2>1. \A d \in Client \ {c} : Stage(d)' = Stage(d)
    BY <1>0, StageFrame DEF ReqRecv, From
  <2>2. Stage(c) = "answered"
    <3>1. e \in From(replies, c) /\ e \notin outbox \cup inbox \cup serving
      BY DEF ReqRecv, OnePlace, From
    <3>2. From(outbox \cup inbox, c) = {} /\ From(serving, c) = {}
      BY <3>1 DEF From
    <3> QED
      BY <3>1, <3>2 DEF ReqRecv, Stage, TripStage
  <2>3. Stage(c)' = "idle"
    BY <1>0 DEF ReqRecv, Stage, TripStage
  <2>4. Abstract!Take(c)
    BY <2>1, <2>2, <2>3, OneMoves DEF Abstract!Take, Abstract!Step
  <2> QED
    BY <2>4 DEF Abstract!Next
<1>6. CASE ReqClose(c)
  <2>1. \A d \in Client \ {c} : Stage(d)' = Stage(d)
    BY <1>0, <1>6, StageFrame DEF ReqClose, From
  <2>2. Stage(c) \in {"idle", "asked", "served", "answered", "lost"}
    BY <1>6 DEF ReqClose, Open, Stage, TripStage
  <2>3. Stage(c)' = "gone"
    BY <1>0, <1>6 DEF ReqClose, Stage, TripStage
  <2>4. Abstract!Leave(c)
    BY <2>1, <2>2, <2>3, OneMoves DEF Abstract!Leave, Abstract!Step
  <2> QED
    BY <2>4 DEF Abstract!Next
<1>7. CASE ReqClosed(c)
  <2>1. \A d \in Client \ {c} : Stage(d)' = Stage(d)
    BY <1>0, <1>7, StageFrame DEF ReqClosed, From
  <2>2. Stage(c)' = Stage(c)
    BY <1>0, <1>7 DEF ReqClosed, Stage, TripStage
  <2> QED
    BY <2>1, <2>2, NobodyMoves
<1>8. CASE ReqCrash(c)
  <2>1. \A d \in Client \ {c} : Stage(d)' = Stage(d)
    BY <1>0, <1>8, StageFrame DEF ReqCrash, From
  <2>2. Stage(c) \in {"idle", "asked", "served", "answered", "lost", "gone"}
    BY <1>0, <1>8 DEF ReqCrash, Stage, TripStage, ReqState
  <2>3. Stage(c)' = "gone"
    BY <1>0, <1>8 DEF ReqCrash, Stage, TripStage
  <2>4. CASE Stage(c) = "gone"
    BY <2>1, <2>3, <2>4, NobodyMoves
  <2>5. CASE Stage(c) # "gone"
    <3>1. Abstract!Leave(c)
      BY <2>1, <2>2, <2>3, <2>5, OneMoves DEF Abstract!Leave, Abstract!Step
    <3> QED
      BY <3>1 DEF Abstract!Next
  <2> QED
    BY <2>4, <2>5
<1> QED
  BY <1>1, <1>2, <1>3, <1>4, <1>5, <1>6, <1>7, <1>8 DEF ReqStep

KeptOrLost(d) == \/ Stage(d)' = Stage(d)
                 \/ Stage(d) \in {"asked", "served", "answered"} /\ Stage(d)' = "lost"

(* A step that loses some messages and moves no socket of a client loses   *)
(* their round trips, and leaves the others where they are.                *)
LEMMA SomeLost ==
  ASSUME \A d \in Client : KeptOrLost(d)
  PROVE  Abstract!Next
<1> DEFINE S == {d \in Client : Stage(d)' # Stage(d)}
<1>1. \A d \in S : phase[d] \in {"asked", "served", "answered"}
  BY DEF phase, KeptOrLost
<1>2. phase' = [d \in Client |-> IF d \in S THEN "lost" ELSE phase[d]]
  BY DEF phase, KeptOrLost
<1>3. Abstract!Lose(S)
  BY <1>1, <1>2 DEF Abstract!Lose
<1> QED
  BY <1>3 DEF Abstract!Next

LEMMA RepStepRefines ==
  ASSUME SocketsInv, RepStep
  PROVE  Abstract!Next \/ phase' = phase
<1> USE DEF SocketsInv, OneOutstanding, Traffic, OneServed
<1>0. /\ req \in [Client -> ReqState] /\ serving \subseteq Envelope
      /\ inbox \subseteq Envelope /\ outbox \subseteq Envelope
  BY DEF SocketsOK
<1>1. CASE RepNew
  BY <1>1, StageFrame, NobodyMoves DEF RepNew, From
<1>2. CASE RepBind
  BY <1>2, StageFrame, NobodyMoves DEF RepBind, From
<1>3. CASE \E e \in inbox : RepRecv(e)
  <2> PICK e \in inbox : RepRecv(e)
    BY <1>3
  <2> DEFINE c == e.client
  <2>1. c \in Client /\ e \in From(inbox, c)
    BY <1>0 DEF Envelope, From
  <2>2. \A d \in Client \ {c} : Stage(d)' = Stage(d)
    BY <1>0, StageFrame DEF RepRecv, From
  <2>3. serving = {} /\ From(outbox \cup inbox, c)' = {} /\ From(serving, c)' # {}
    BY <2>1 DEF RepRecv, From, OnePlace
  <2>4. CASE req[c] = "awaiting"
    <3>0. From(outbox \cup inbox, c) # {}
      BY <2>1 DEF From
    <3>1. Stage(c) = "asked" /\ Stage(c)' = "served"
      BY <2>3, <2>4, <3>0 DEF RepRecv, Stage, TripStage
    <3>2. Abstract!Served = {}
      BY <1>0, <2>3 DEF Abstract!Served, phase, Stage, TripStage, From
    <3>3. Abstract!Serve(c)
      BY <2>1, <2>2, <3>1, <3>2, OneMoves DEF Abstract!Serve, Abstract!Step
    <3> QED
      BY <2>1, <3>3 DEF Abstract!Next
  <2>5. CASE req[c] # "awaiting"
    <3>1. Stage(c)' = Stage(c)
      BY <1>0, <2>1, <2>5 DEF RepRecv, Stage, TripStage, ReqState
    <3> QED
      BY <2>2, <3>1, NobodyMoves
  <2> QED
    BY <2>4, <2>5
<1>4. CASE \E body \in Body : RepSend(body)
  <2> PICK body \in Body : RepSend(body)
    BY <1>4
  <2>1. PICK s \in serving : serving = {s}
    BY DEF RepSend
  <2> DEFINE c == s.client
             e == [client |-> c, n |-> s.n, body |-> body]
  <2>2. c \in Client
    BY <1>0 DEF Envelope
  <2>3. replies' = IF req[c] = "awaiting" THEN replies \cup {e} ELSE replies
    BY <2>1 DEF RepSend
  <2>4. \A d \in Client \ {c} : Stage(d)' = Stage(d)
    BY <2>1, <2>3, StageFrame DEF RepSend, From
  <2>5. CASE req[c] = "awaiting"
    <3>1. From(outbox \cup inbox, c) = {} /\ From(serving, c) = {s}
      BY <2>1, <2>2 DEF OnePlace, From
    <3>2. e \in From(replies, c)'
      BY <2>3, <2>5 DEF From
    <3>3. From(outbox \cup inbox, c)' = {} /\ From(serving, c)' = {} /\ req'[c] = "awaiting"
      BY <2>5, <3>1 DEF RepSend, From
    <3>5. Stage(c) = "served" /\ Stage(c)' = "answered"
      BY <2>5, <3>1, <3>2, <3>3 DEF Stage, TripStage
    <3>4. Abstract!Answer(c)
      BY <2>2, <2>4, <3>5, OneMoves DEF Abstract!Answer, Abstract!Step
    <3> QED
      BY <2>2, <3>4 DEF Abstract!Next
  <2>6. CASE req[c] # "awaiting"
    <3>1. Stage(c)' = Stage(c)
      BY <1>0, <2>2, <2>6 DEF RepSend, Stage, TripStage, ReqState
    <3> QED
      BY <2>4, <3>1, NobodyMoves
  <2> QED
    BY <2>5, <2>6
<1>5. CASE RepClose \/ RepCrash
  <2>1. /\ inbox' = {} /\ serving' = {} /\ replies' \subseteq replies
        /\ UNCHANGED <<req, outbox>>
    BY <1>5 DEF RepClose, RepCrash, RepStop
  <2>2. ASSUME NEW d \in Client PROVE KeptOrLost(d)
    <3> USE DEF KeptOrLost
    <3>1. CASE req[d] # "awaiting"
      BY <1>0, <2>1, <3>1 DEF Stage, TripStage, ReqState
    <3>2. CASE req[d] = "awaiting" /\ From(outbox, d) # {}
      <4>1. From(outbox \cup inbox, d) # {} /\ From(outbox \cup inbox, d)' # {}
        BY <2>1, <3>2 DEF From
      <4> QED
        BY <2>1, <3>2, <4>1 DEF Stage, TripStage
    <3>3. CASE req[d] = "awaiting" /\ From(outbox, d) = {} /\ From(replies, d)' # {}
      <4>1. From(replies, d) # {} /\ From(outbox \cup inbox, d) = {} /\ From(serving, d) = {}
        BY <2>1, <3>3 DEF From, OnePlace
      <4>2. From(outbox \cup inbox, d)' = {} /\ From(serving, d)' = {}
        BY <2>1, <3>3 DEF From
      <4> QED
        BY <2>1, <3>3, <4>1, <4>2 DEF Stage, TripStage
    <3>4. CASE req[d] = "awaiting" /\ From(outbox, d) = {} /\ From(replies, d)' = {}
      <4>1. Stage(d)' = "lost"
        BY <2>1, <3>4 DEF Stage, TripStage, From
      <4>2. Stage(d) \in {"asked", "served", "answered", "lost"}
        BY <3>4 DEF Stage, TripStage
      <4> QED
        BY <4>1, <4>2
    <3> QED
      BY <3>1, <3>2, <3>3, <3>4
  <2>3. \A d \in Client : KeptOrLost(d)
    BY <2>2
  <2> QED
    BY <2>3, SomeLost
<1>6. CASE RepExit
  BY <1>6, StageFrame, NobodyMoves DEF RepExit, From
<1> QED
  BY <1>1, <1>2, <1>3, <1>4, <1>5, <1>6 DEF RepStep

LEMMA NetworkRefines ==
  ASSUME SocketsInv, Network
  PROVE  Abstract!Next \/ phase' = phase
<1> USE DEF SocketsInv, OneOutstanding, Traffic
<1>0. /\ req \in [Client -> ReqState]
      /\ outbox \subseteq Envelope /\ replies \subseteq Envelope
  BY DEF SocketsOK
<1>1. CASE \E e \in outbox : Flush(e)
  BY <1>1, StageFrame, NobodyMoves DEF Flush, From
<1>2. CASE \E e \in outbox : LoseRequest(e)
  <2> PICK e \in outbox : LoseRequest(e)
    BY <1>2
  <2>1. e.client \in Client /\ e \in From(outbox, e.client)
    BY <1>0 DEF Envelope, From
  <2>2. \A d \in Client \ {e.client} : Stage(d)' = Stage(d)
    BY StageFrame DEF LoseRequest, From
  <2>3. CASE req[e.client] = "awaiting"
    <3>0. From(outbox \cup inbox, e.client) # {}
      BY <2>1 DEF From
    <3>1. Stage(e.client) = "asked"
      BY <2>3, <3>0 DEF Stage, TripStage
    <3>2. Stage(e.client)' = "lost"
      BY <2>1, <2>3 DEF LoseRequest, Stage, TripStage, From, OnePlace
    <3>3. \A d \in Client : KeptOrLost(d)
      BY <2>2, <3>1, <3>2 DEF KeptOrLost
    <3> QED
      BY <3>3, SomeLost
  <2>4. CASE req[e.client] # "awaiting"
    BY <1>0, <2>1, <2>2, <2>4, NobodyMoves DEF LoseRequest, Stage, TripStage, ReqState
  <2> QED
    BY <2>3, <2>4
<1>3. CASE \E e \in replies : LoseReply(e)
  <2> PICK e \in replies : LoseReply(e)
    BY <1>3
  <2>1. e.client \in Client /\ e \in From(replies, e.client)
    BY <1>0 DEF Envelope, From
  <2>2. \A d \in Client \ {e.client} : Stage(d)' = Stage(d)
    BY StageFrame DEF LoseReply, From
  <2>3. req[e.client] = "awaiting"
    BY <2>1
  <2>4. From(outbox \cup inbox, e.client) = {} /\ From(serving, e.client) = {}
    BY <2>1 DEF From, OnePlace
  <2>5. Stage(e.client) = "answered"
    BY <2>1, <2>3, <2>4 DEF Stage, TripStage
  <2>6. Stage(e.client)' = "lost"
    BY <2>1, <2>3, <2>4 DEF LoseReply, Stage, TripStage, From
  <2>7. \A d \in Client : KeptOrLost(d)
    BY <2>2, <2>5, <2>6 DEF KeptOrLost
  <2> QED
    BY <2>7, SomeLost
<1> QED
  BY <1>1, <1>2, <1>3 DEF Network, Loss

(* Every step of the sockets is one of RoundTrip's or leaves every round   *)
(* trip where it is.                                                       *)
THEOREM RefinesStep == SocketsInv /\ [SocketsNext]_sockets => [Abstract!Next]_phase
<1> SUFFICES ASSUME SocketsInv, [SocketsNext]_sockets PROVE Abstract!Next \/ phase' = phase
  OBVIOUS
<1>1. CASE SocketsNext
  BY <1>1, ReqStepRefines, RepStepRefines, NetworkRefines DEF SocketsNext
<1>2. CASE UNCHANGED sockets
  BY <1>2, StageFrame, NobodyMoves DEF sockets, From
<1> QED
  BY <1>1, <1>2
------------------------------------------------------------------------------
(* Only a loss in the network or the end of the server's socket leaves a   *)
(* client waiting for an answer nobody owes it.                            *)
THEOREM StrandedStep ==
  ASSUME SocketsInv, [SocketsNext]_sockets, ~Loss, NEW c \in Client,
         Stranded(c)', ~Stranded(c)
  PROVE  ~Up'
<1> USE DEF Stranded
<1>0. /\ req \in [Client -> ReqState] /\ serving \subseteq Envelope
  BY DEF SocketsInv, SocketsOK
<1>1. ASSUME NEW d \in Client, ReqStep(d) PROVE FALSE
  <2>1. CASE d = c
    <3>1. CASE \E body \in Body : ReqSend(c, body)
      <4> PICK body \in Body : ReqSend(c, body)
        BY <3>1
      <4> DEFINE e == [client |-> c, n |-> sent[c] + 1, body |-> body]
      <4>1. e \in From(outbox, c)'
        BY DEF ReqSend, From
      <4> QED
        BY <4>1 DEF Traffic
    <3>2. CASE ReqConnect(c)
      BY <3>2 DEF ReqConnect, Traffic, From
    <3> QED
      BY <1>0, <1>1, <2>1, <3>1, <3>2
         DEF ReqStep, ReqNew, ReqBlock, ReqRecv, ReqClose, ReqClosed, ReqCrash
  <2>2. CASE d # c
    <3>1. req'[c] = req[c] /\ Traffic(c)' = Traffic(c)
      BY <1>0, <1>1, <2>2 DEF ReqStep, ReqNew, ReqConnect, ReqBlock, ReqSend, ReqRecv, ReqClose,
        ReqClosed, ReqCrash, Traffic, From
    <3> QED
      BY <3>1
  <2> QED
    BY <2>1, <2>2
<1>2. ASSUME RepStep PROVE ~Up'
  <2>1. CASE RepClose \/ RepCrash
    BY <2>1 DEF RepClose, RepCrash, RepStop, Up
  <2>2. CASE RepNew \/ RepBind \/ RepExit
    BY <2>2 DEF RepNew, RepBind, RepExit, Traffic, From
  <2>3. CASE \E e \in inbox : RepRecv(e)
    <3> PICK e \in inbox : RepRecv(e)
      BY <2>3
    <3>1. serving = {}
      BY DEF RepRecv, SocketsInv, OneServed
    <3>2. Traffic(c)' = Traffic(c)
      BY <3>1 DEF RepRecv, Traffic, From
    <3> QED
      BY <3>2 DEF RepRecv
  <2>4. CASE \E body \in Body : RepSend(body)
    <3> PICK body \in Body : RepSend(body)
      BY <2>4
    <3>1. PICK e \in Traffic(c) : TRUE
      BY DEF RepSend
    <3>2. CASE e \in serving
      <4> DEFINE r == [client |-> e.client, n |-> e.n, body |-> body]
      <4>1. r \in From(replies, c)'
        BY <3>1, <3>2 DEF RepSend, Traffic, From
      <4> QED
        BY <4>1 DEF Traffic
    <3>3. CASE e \notin serving
      BY <3>1, <3>3 DEF RepSend, Traffic, From
    <3> QED
      BY <3>2, <3>3
  <2> QED
    BY <1>2, <2>1, <2>2, <2>3, <2>4 DEF RepStep
<1>3. ASSUME Network PROVE FALSE
  BY <1>3 DEF Network, Flush, Traffic, From
<1>4. CASE UNCHANGED sockets
  BY <1>4 DEF sockets, Traffic, From
<1> QED
  BY <1>1, <1>2, <1>3, <1>4 DEF SocketsNext
==============================================================================
