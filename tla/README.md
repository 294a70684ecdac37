# A TLA+ model of Click

Click connects robot controllers to a simulation. A controller owns a `Client`,
the simulation a `Server`; they exchange protobuf messages over a ZeroMQ
request/reply pair, and "client and server take turn" (`src/README.md:33`).
There is a C++ library, a Python library with the same wire format, a demo
client in each language and a demo server in each language.

This directory models all of that in TLA+: the two libraries under arbitrary
callers, the four demo programs together, the integration tests, the three
message kinds with their builders, and every message class on its way to bytes
and back. TLC checks small instances; TLAPS proves the sockets' invariant and
what follows from it, what the message builders promise, and what becomes of a
message on the wire, for every value of the constants. Paths starting with `src/`
are relative to the repository.

## 1. Inventory

| Component | State it keeps | Operations | Correct when | Status |
|---|---|---|---|---|
| `click::Client` (`src/cpp-src/click/src/Client.cpp`) | socket and context pointers | construct, connect, send (bytes, message), receive (bytes, message, blocking or not), terminate | never two requests outstanding, what it receives answers what it sent last | modelled |
| `click::Server` (`Server.cpp`) | the same, and `m_send_is_next_action` | construct, bind, send, receive_bytes, receive, terminate, must_send, must_recv | the flag says what the socket accepts | modelled |
| ZeroMQ (not in the repository) | sockets, pipes, queues | socket calls, reconnection, delivery | (assumed, section 3) | modelled as external |
| pclick `Client`, `Server`, `SizeCollectorChanges` (`src/python-src/src/pclick/`) | sockets; last size and update flag per direction | construct, connect, recv, recv_blocking, send, stop, is_updated | as C++; is_updated reports changes and only changes | modelled |
| Demo controllers (`democlient.cpp`, `demo/client.py`) | place in the program, rounds left | handshake or another first message, loop, last ErrorMessage | each gets through its program | partly: not the values of control messages |
| `demoserver.cpp` | its socket | receive, switch, send, end | the answer fits the question, an ErrorMessage ends it | modelled |
| `demo/server.py` | its socket | recv, two ifs, send | the same | modelled |
| `ControlMessage`, builder | protobuf message, current object | object, with..., build; readers | readers return what was said | modelled |
| `SensorMessage`, builder | message, current object and sensor | object, with..., build; readers, `toSensorMessage()` | the same; a checked cast is defined | modelled |
| `HandshakeMessage`, builder | message, current robot and sensor | withRobot, with..., build; readers, `toHandshakeMessage()` | the same | modelled |
| Serialization (`MessageSerializer`, `MessageFactory`) | none | bytes to message and back, files | what is read is what was sent, or visibly less | modelled |
| HandshakeInit, Error, Reset, SensorRequest messages | their protobuf message | build, read | the type survives | modelled |
| Generated protobuf code (`Messaging.pb.h`, `.pb.cc`) | the fields of each class | construct, set, parse, write, size, merge | sizes agree with bytes, merging with parsing | partly: not arenas, descriptors, swapping, reflection |
| Integration-test driver (`src/integration-tests/`) | its client, the server's process | start, poll for ten seconds, give up, clean up | no test makes the next one misread an answer, or ends its server | modelled |
| Build files, Docker, docs | | | | not modelled: no run-time behaviour |

How the parts interact. A `Client` holds a REQ socket, a `Server` a REP socket,
and nothing else connects them: there is no shared state, no callback and no
thread of Click's own. ZeroMQ's threads deliver frames and reconnect. A process
may be killed at any moment, a simulation restarted while controllers go on,
and several controllers may talk to one server.

What is hard. (a) The turn: ZeroMQ refuses a call out of turn (EFSM), and
exceptions, lost frames and restarts all happen between two turns. (b) Replies
carry no number: that a reply answers the last request rests on the socket
alone. (c) `recv` gives a frame up before anything looks at it: whatever fails
afterwards has already changed whose turn it is. (d) Closing: a last
ErrorMessage is waited for by nobody. (e) The builders keep raw pointers into
the message across calls. (f) The result of `ParseFromString()` is looked at by
nobody in C++, so a message may come without its tail. (g) Each class is written
by one generated function, measured by another, read by a third and copied by a
fourth. (h) A test that gives up leaves a socket and a server behind for the
next one. PROJECT.json lists these as hazards, each at its line.

## 2. Modules

    RoundTrip            what a user is promised: the abstract specification
    ZmqReqRep            REQ sockets, one REP endpoint, the network
    ├─ ClickApi          the C++ library under any caller      ── MCClickApi
    ├─ PyApi             the Python library under any caller   ── MCPyApi
    └─ Controllers       the demo controllers' programs
       ├─ CppDemo        with demoserver.cpp                   ── MCCppDemo
       └─ PyDemo         with demo/server.py                   ── MCPyDemo
    IntegrationTest      tests in a row, on ZmqReqRep and     ── MCIntegrationTest
                         an instance of CppDemo's server
    Builder              what the three message builders have in common
    ├─ ControlMessages   ControlMessage, its builder and its readers
    ├─ SensorMessages    SensorMessage, the same
    └─ HandshakeMessages HandshakeMessage, the same
    Wire                 what the generated code uses of the protobuf runtime
    └─ Messaging         the generated classes
       └─ Serialization  builders, bytes, both MessageSerializers, the casts
    ZmqReqRepProofs      proofs about the sockets alone
    ├─ ApiProofs         theorems about both libraries
    ├─ DemoProofs        theorems about the controllers and both demos
    └─ IntegrationTestProofs  theorems about the integration tests
    BuilderProofs        theorems about the three builders
    Folding              what a fold over a sequence computes, by induction
    SerializationProofs  messages on the wire: kinds, and the round trip
    └─ ContentProofs     the same: merging, damage, and sizes

**RoundTrip.** One variable, `phase`, says for each client whether it is idle,
has asked, is being served, has an answer waiting, lost its question, or left.
One question per client, one question in the server's hands, no repetition.

**ZmqReqRep.** One action per socket call that succeeds. `req`/`rep` are the
states of the two socket types, `outbox` is what a REQ socket has sent and
nobody received, `inbox` what the REP socket has accepted, `serving` the
request it owes an answer to, `replies` what is on its way back. An `Envelope`
is a frame with the client and the number of the request it belongs to. The
number is a history variable: neither ZeroMQ nor Click has one.

**ClickApi.** One action per method that returns, with every return value and
exception (`ret`), called in any order by anybody. A blocking call that has to
wait is an action that is not enabled. `sendIsNext` is `m_send_is_next_action`.
`Deliver` is `MessageSerializer::fromBytes`, reached after the socket has
changed: an exception leaves the request unanswered but the flag right.
`Client::terminate()` is two actions because the context waits, with infinite
linger, for the outbox to be empty. `must_send` and `must_recv` are the advice
of the two methods of that name.

**PyApi.** The same for pclick: `recv()` does not wait where C++'s does, the
constructor binds, and a `SizeCollectorChanges` may be attached. `seen` and
`updated` are its fields; `changed` remembers whether any size differed from
the one before it since `is_updated` was last read. `Asserts` is the collector's
`assert len > 0`, which fires after the socket gave the frame up and before the
parser saw it. The model takes Python to run with assertions. Definitions that
would have a name of ClickApi's start with `Py`, because ApiProofs extends both.

**Controllers.** `pc` runs through democlient.cpp or client.py. `args` is the
command line as far as it decides what is sent: the first message, the repeated
one, `--range`, `--end-with-errormessage`, and whether the program closes its
context. client.py without `--errormessage` never calls `stop()`; whether the
interpreter's shutdown then flushes the socket or drops what it holds is left
open (`Leave`).

**CppDemo, PyDemo.** The two servers' loops. A non-blocking receive that finds
nothing is a stuttering step. An unknown message gets an ErrorMessage from
demoserver.cpp; in demo/server.py it falls through both ifs, the next `recv()`
raises and the process ends (`RefusedReceive`). PyDemo's definitions start with
`Py` because DemoProofs extends both.

**Builder.** A message builder is one object that returns itself as one of
several interfaces, and a caller may keep each pointer it got, as democlient.cpp
does. So `held` is the set of interfaces the caller has, and any method of any
of them may be called next. `message` is the map of objects (robots, in a
handshake), `current` the one `currObject` points to. `Name`, `Write`, `Update`
and `Build` are what the methods do with them: create the object where there is
none, write through the pointer, give the message away. A vector, number or list
given to the builder is represented by the number of the call that gave it,
which makes every value distinguishable without modelling doubles. `calls`
records what was said, and `Said`, `SaidOf` and `InOrder` say what follows from
it. A call through an indeterminate or null pointer ends in `"crashed"`; a write
through a pointer into a message already built may do either, because its new
owner may have destroyed it. `build()` twice gives a message without content
(`"hollow"`).

**ControlMessages, SensorMessages, HandshakeMessages.** One action per builder
method, or per family of methods that differ in the field they write.
SensorMessages adds `currSensor` (`m_curr_sensor`) and the simulated time,
HandshakeMessages `currTypes` (its `m_curr_sensor`) and the scene's own fields. The
readers, all but the three that look one reading up, are operators: the set of
what they return, empty where they throw. The definitions of each carry the name of their message
because BuilderProofs extends all three.

**IntegrationTest.** pytest runs the tests one after the other; each is a
`Client`, because it makes one client object. `pc` goes through
`start_simulation`, `connect`, `send_handshake`, `send_control_message` and the
cleanup fixture. `Demo` is an instance of CppDemo, of which only the server's
actions are used; what CppDemo calls the programs' variables are the tests'.
Running out of tries and the one second of `communicate()` are steps that may
happen whenever what is waited for has not. A test that gave up cannot send its
ErrorMessage (the socket awaits an answer), so `client.stop()` is passed by and
its socket stays open, with whatever it has sent, while the next test runs.
Killing a server only sends it a signal, and nobody waits for the process: `held`
says that the port is still that process's, `PortReleased` that the kernel has
taken it down, at whatever time. A demoserver started before that is refused the
port and ends (`BindRefused`); `Popen` of the test has succeeded by then. Of the
operating system it is assumed that a killed process runs none of its code any
more; a kernel that still accepts connections for it gives nobody an answer, so
what the next test sends stays in its outbox until a server listens.

**Wire, Messaging, Serialization.** A frame is a sequence of items, each a tag
and what it announces: a number, a string, packed numbers, or the items of a
nested message. Of each generated class `X`, `NewX`, `ParseX`, `WriteX`,
`SizeX`, `MergeX` and `EditsX` are the constructor, one turn of
`_InternalParse()`, `_InternalSerialize()`, `ByteSizeLong()`, `MergeImpl()` and
the accessors. A truth value of the oneof is 0 or 1, whatever varint stood for it
(`Truth`). A singular message field is a sequence of at most one message, a
map a function, the oneof of a Sensor the tag of the field that is set and its
value. `Turn` is one turn of the parser of whichever class,
chosen where the code calls a virtual function. Serialization makes a message
with a builder or a factory, calls accessors on it, writes it in either of two
orders of its maps' keys (`Ordered`), lets the bytes be
cut or padded, and reads them with either library or as a file. `got` is what
the reader has, and what a caller then casts it to.

Names follow the source; where two overloads or a family of methods do the same
(`withAngles`, `withTorques`, ...) one action has the method as its parameter.

## 3. What is assumed of ZeroMQ

Click's behaviour is mostly the behaviour of two socket types; ZmqReqRep models
what libzmq documents and what the wrappers and demos can observe:

* REQ alternates send and recv, REP recv and send; the call out of turn fails
  at once and changes nothing.
* A connected REQ socket accepts a request although no server is bound, and
  reconnects by itself: what is in its outbox reaches whichever server is bound
  later. On a socket that was never connected a blocking send waits.
* What a REP socket has accepted dies with it. An answer to a peer that is gone
  is dropped silently. Nothing is ever sent twice.
* Closing a socket and its context waits until the outbox is empty, which is
  the default linger. A killed process loses its outbox, and the server may or
  may not still read what it had accepted from it.
* `Lossy = TRUE` also lets the network drop a request or a reply.

Of the protobuf runtime, Wire assumes what `Messaging.pb.cc` relies on:

* Items are read one after the other and what was read stays when a later one
  fails. A string that is not UTF-8 fails the parse; writing one only logs.
* A map entry is taken over as soon as its key and value could be read, with a
  default for what is not there; a message value that fails takes its entry with
  it. A number that is cut short is read out of whatever stands in the buffer.
* A tag of zero, and the end of a group, end a message before its bytes do, which
  is a failure too. What no class knows is kept as unknown and written again.
* Python's parser makes the same of the same bytes, and raises where
  `ParseFromString()` of C++ returns false.

Not modelled: high-water marks (a REQ socket has one frame, so they are never
reached), several endpoints, more than one thread on one socket.

## 4. Runs

| Run | What it asks | Instance |
|---|---|---|
| `api` | the C++ library under every caller | 2 clients, 2 requests each, a frame that parses and one that does not, lossy |
| `py_api` | the Python library under every caller | 2 clients, 1 request each, frames of two sizes, an empty and a broken one, lossy |
| `cpp_demo` | demo controllers and demoserver.cpp | 2 controllers, any command line, at most 1 extra round |
| `py_demo` | the same with demo/server.py | the same |
| `control_messages` | all sequences of 6 builder calls | 2 objects, 1 event |
| `sensor_messages` | all sequences of 6 builder calls | see the cfg |
| `handshake_messages` | all sequences of 5 builder calls | 2 robots, 1 sensor, 1 event |
| `serialization` | every message two accessor calls can make, whole, cut at any point and padded, in both libraries | 2 names that are UTF-8 and 1 that is not, numbers 0 and 1, one or two fields of each kind of the oneof |
| `integration` | three tests in a row | lossy, servers that die, killed servers that hold the port |
| `doc_...` (3 runs) | a sentence of the documentation that the code contradicts (section 7) | small |

What the properties say, beyond each module's type invariant:

* `FlagTracksSocket`, `AdviceIsSound`: a caller who follows `must_send()` and
  `must_recv()` never meets EFSM, also after an exception, after calls out of
  turn and in a restarted server.
* `OneOutstanding`: a client has at most one message in the system and
  it is about its last request; this is why `receive()` need not match a reply.
* `StrandedOnlyByLoss`, `PyStrandedOnlyByLoss`: a controller comes to wait for an answer nobody owes it
  only through a loss in the network or the end of the server; not because of a
  call out of turn, an exception, another controller or a broken frame.
* `RefinesRoundTrip`: every behaviour is one of RoundTrip's under the mapping
  `phase` of ZmqReqRep.
* `NoFalseAlarm`: the collector reports no change where none was. The converse
  does not hold (section 7). A frame that the socket then refuses to send counts
  as sent, in the property as in the collector.
* `AnswersFit`: the reply on its way to a controller is the one to what that
  controller asked last, whatever others asked in between, and none is on its way
  to a controller that has sent its closing ErrorMessage. It is stated of what
  `src/README.md:43-47` lists and both servers do; where they do otherwise see
  section 7.
* `ControllersFinish`: once there is a server that stays, every controller that
  was started gets through its program or was stranded by an earlier server.
* `ErrorEndsSimulation`: an ErrorMessage whose sender closes its context in
  order makes some server go down, also if the server starts only afterwards.
* `ControlReadersReturnWhatWasSaid`, `SensorReadersReturnWhatWasSaid`,
  `HandshakeReadersReturnWhatWasSaid`: compare every modelled reader with a reference
  computed from the history of calls: the last vector, the appended list, the
  right object after objects were named, left and named again.
* `ControlTypesKeepFromCrashing`, `HandshakeTypesKeepFromCrashing`,
  `CrashOnlyBeforeFirstObject`: the interfaces a call returns keep a caller from writing through an indeterminate pointer. For
  control and handshake messages they do, until `build()`; for sensor messages
  they do except after `withSimulatedTime()` before any object was named, which
  returns the interface of an object all the same.
* `ReadsWhatWasSent`: whatever either library builds is what either library
  reads, provided its strings are UTF-8. `KindSurvives`: bytes that end too soon
  are never read as a message of another class, unless they end within the type.
  `NoHalfObject`: an object (a robot with its vectors) arrives as it was sent,
  empty, or not at all, though nobody looks whether parsing succeeded.
* `SizesAgree`: the lengths written in front of nested messages are those of the
  bytes behind them. `MergeIsParse`: merging and copying (every by-value return
  of MessageFactory, every `auto vec = sensor.rpy()` of the readers) give what
  parsing the bytes into the target would, for each class.
* `CheckedCastIsDefined`: a caller of `fromBytes()` that looks at `messageType()`
  before `toSensorMessage()` has that class in its hands. It is not stated of
  files: `sensorMessageFromIStream()` on another message's file gives a
  SensorMessage whose `messageType()` says otherwise.
* `AssertionsHold`, `ErrorsStayInTheirTest`: what an earlier integration test
  left behind can make a later one give up, never misread an answer or lose its
  server to a foreign ErrorMessage. It can take the port from the next test's
  server (section 7). `TestsFinish`: every test gets done unless a server died by
  itself and its test waits in `client.stop()` (section 7); one whose server was
  refused the port gives up.

Why the bounds are enough. Two clients give every case in which one client's
traffic is taken for another's; the sockets treat clients alike, so a third
adds no new kind of step (and the proofs cover any number). Two requests give
every confusion of a reply with an earlier request. For the Python library one
request per client keeps the run short while four kinds of frame and refused
sends exercise the collector; the proofs lift the bound. One extra round
distinguishes the first message from the repeated one. Six calls are enough to
name two objects, return to the first and write through an old pointer, and the
proofs lift that bound too. Two accessor calls reach every field of every class, two names in a map, two numbers
in a list, and one field of the oneof set over another; `SensorCases` are two
fields of the oneof's two storages and the truth value, and all others are
treated by the same lines. The third integration test can be disturbed by two
earlier ones.

The demo runs have a loss-free network: the demos run on one machine, and with
losses `ControllersFinish` says nothing. `CHECK_DEADLOCK FALSE` stands where a
bounded sequence of builder or accessor calls ends by construction, and in
`integration`, which ends with the last test or blocks. Everywhere else
deadlock is checked.

## 5. Fairness

Liveness is stated of the demos and the integration tests only: a library does
not call itself. Weakly fair are each started controller's program, each test
(pytest goes on to the next), the server's loop once it is
started, and the delivery of an outbox to a bound server. The first two are
processes that the operating system schedules and that block only in socket
calls; the third is ZeroMQ's I/O thread and its reconnection timer. Nobody has
to start a program, restart a server, interrupt anybody, or lose a message, and
the kernel need never release a port.

## 6. Proofs

What is proved, for any set of clients, any number of requests and any kinds of
frame, on a lossless or a lossy network, and for any objects, sensors, events
and number of calls on a builder; and for messages of any class and length,
with any strings and numbers in them:

| Theorem | Says |
|---|---|
| `ApiProofs!Invariance`, `TypeCorrect`, `FlagCorrect`, `ReplyIsTheAnswer`, `AdviceCorrect` | C++: the inductive invariant and its parts |
| `ApiProofs!TakesTurns`, `Stranding` | C++: refinement of RoundTrip; `StrandedOnlyByLoss` |
| `ApiProofs!PyInvariance`, `PyTypeCorrect`, `NoInventedChange`, `PyTakesTurns`, `PyStranding` | the same of pclick, and `NoFalseAlarm` |
| `DemoProofs!DemoInvariance`, `DemoTypeCorrect`, `AnswersFitQuestions`, `DemoTakesTurns` | the C++ demo: handshakes and control messages are answered as documented, an ErrorMessage is not |
| `DemoProofs!PyDemoInvariance`, `PyDemoTypeCorrect`, `PyAnswersFitQuestions`, `PyDemoTakesTurns` | the same with demo/server.py, which ends on a refused receive |
| `IntegrationTestProofs!TestsInvariance`, `TestsTypeCorrect`, `TestsNeverMisread`, `ErrorsAreTheirTests` | any number of integration tests in a row, whatever holds the port in between: no assertion fails, no ErrorMessage strays |
| `IntegrationTestProofs!TestsTakeTurns`, `TestsStranding` | the tests refine RoundTrip too, and what one leaves behind strands no other |
| `DemoProofs!DemoStranding`, `DemoProofs!PyDemoStranding` | a controller of a demo waits in vain only after a loss or the end of a server |
| `BuilderProofs!ControlInvariance`, `ControlTypeCorrect`, `ControlNeverCrashes`, `ControlReaders` | ControlMessage: after any calls, in any order, through any interfaces handed out, no crash before `build()` and readers that return what was said |
| `BuilderProofs!HandshakeInvariance`, `HandshakeTypeCorrect`, `HandshakeNeverCrashes`, `HandshakeReaders` | HandshakeMessage: the same |
| `BuilderProofs!SensorInvariance`, `SensorTypeCorrect`, `SensorCrashes`, `SensorReaders` | SensorMessage: the same, with the one way to crash that its interfaces leave open |
| `SerializationProofs!SerializationTypes` | a message has the fields of its class, whoever made, edited, damaged or read it |
| `SerializationProofs!KindsSurvive` | bytes that end too soon, or are padded, are read as the class that was written, or refused, unless they end within the type |
| `SerializationProofs!CastsAreDefined` | a cast after a look at `messageType()` is to the class the object has |
| `SerializationProofs!RoundTrips` | what either library builds is what `fromBytes()` of either reads, with any number of objects, sensors and names, in whatever order the maps are written, if the strings are UTF-8 and the bytes undamaged |
| `ContentProofs!MergingIsParsing` | `MergeFrom()` and the copy constructor of every class, nested ones included, give what parsing the one message's bytes into the other gives, of any two messages that accessors can make |
| `ContentProofs!ObjectsAreWhole` | whatever bytes are missing at the end of a frame, garbled in its last item or padded, each object that is read is the one that was sent, or empty because the bytes are damaged |
| `ContentProofs!SizesHold` | what `ByteSizeLong()` says of a message is what `_InternalSerialize()` writes of it, in whatever order its maps are written: of every message that is made, and of whatever is read from a file, also one that ends too soon |
| `ZmqReqRepProofs!InvStep`, `RefinesStep`, `StrandedStep` | the sockets, whoever calls them |

**The argument.** Click's own code adds to the sockets, it does not go around
them. So each composed module has one lemma (`ApiStepIsSocketStep`,
`PyStepIsSocketStep`, `DemoStepIsSocketStep`, `StepIsSocketStep`) saying that every step of it is a
step of `SocketsNext` or leaves the sockets alone, and the facts about sockets
are proved once, in ZmqReqRepProofs: `InvStep` (the invariant), `RefinesStep`
(the step maps to a step or a stutter of RoundTrip) and `StrandedStep` (only a
loss or the end of a server strands anybody). ZeroMQ's part of the model is the
assumption; that the wrappers cannot disturb it is the result.

**The invariant.** `OneOutstanding` is what a user relies on and it is not
inductive. That a reply is to the client's last request needs the request to
have been alone and in one place before (`OnePlace`); that answering a request
does not leave a second copy needs the server to hold exactly one while it is
about to send and none otherwise (`OneServed`); and a frame has a number and a
client at all only by `SocketsOK`. Together they are `SocketsInv`.
`FlagTracksSocket` is inductive beside them because every path through
`Server.cpp`, also the ones that throw, moves the flag with the socket. For
pclick, `NoFalseAlarm` is inductive given the types. For the demo, `AnswersFit`
needs three more facts (`ProgramsInv`): `Questions`, that what is in an outbox, an
inbox or the server's hands is what its sender's program asked last, or the
closing ErrorMessage; `Awaited`, that who is owed an answer to anything else is
waiting for it; and `Rounds`, that a program has its full range left until
its loop begins and something left while it is in it, so `Asked`, which tells
the first message from the repeated one by what is left, does not change while
the answer is out. demo/server.py needs the same three.

For the integration tests `AssertionsHold` and `ErrorsStayInTheirTest` are not
inductive. What makes them so (`TestsInv`) is `Messages`, what the one message
of a test can be by where the test is (a test that gave up leaves a question or
its answer, a test that was told to stop may also have an ErrorMessage), and
that a reply is never an ErrorMessage, because demoserver ends on one without
answering; `ErrorsLeave`, that after `client.stop()` no ErrorMessage is left in
the outbox, from where it would reach the next test's server; `Shut`, that
killing a server takes what it had accepted with it; and `OneTest`.

**The builders.** A property of the readers compares the message with the whole
history of calls, and each is false of some unreachable state one call away: the
pointers matter. What makes them inductive (`ControlInv`, `HandshakeInv`,
`SensorInv`), while the message is still being built:

* `Follows`: `currObject` points to the object named last, and the message has
  exactly the objects that were named. Without it a write would land in one
  object while the history attributes it to another.
* `SensorFollows`: `m_curr_sensor` points to the sensor named last, which need
  not be of the object named last.
* An interface that writes is in the caller's hands only when there is something
  to write to. SensorMessage has no such fact for the interface of an object,
  which `withSimulatedTime()` hands out too; there it holds only unless the
  simulated time was given first, which is what `CrashOnlyBeforeFirstObject`
  leaves open.
* Every field of every object agrees with what was said of it, field by field:
  `ControlAgrees`; `ListsAgree`, `EventsAgree`, `TypesAgree`, `SceneAgrees`;
  `VectorsAgree`, `PosesAgree`, `ReadingsAgree`, `TimeAgrees`.
* A message that is built, or hollow, had `build()` called; this is how a crash
  after `build()` is told from one before.

The argument has three layers, and each is proved once for all three builders
where it can be. Lemmas about the history alone say what one more call adds to
what was said of whom (`HistoryGrows`, `NamedGrows`, `SaidGrows`, `SaidAdds`,
`SaidReadingsGrows`, ...). Frame lemmas say that a call leaves a kind of field
agreeing when neither the field nor what was said of it changes (`ControlFrame`,
`TypesFrame`, `ReadingsFrame`, ...). Then there is one lemma per method, split
into the write that happens and the one that crashes. The readings took the
longest: `withSensor` empties the list of a sensor that is named again, so what
a reader must return is not all that was said of it but what was said since.

**The wire.** `KindSurvives` compares what a reader made with what somebody wrote
three steps earlier, and both are computed by loops over items whose number
nothing bounds. What makes it inductive (`IInv` of SerializationProofs):

* `Made`: a message has its class's fields, its own type in `messageType`, no
  unknown items, finite maps and proper sequences; accessor calls keep that
  (`EditsMade`). Without it what is written would have no type to speak of.
* `Headed`: what a class writes has its type as first item, and no other item
  has that tag (`WriteHeaded`). A type of 0 is not written at all, and then no
  item has that tag.
* `Framed`: what is left of that in damaged bytes. Items are missing at the end,
  the last one is cut short at any depth, or one that ends the message follows,
  but no tag comes to stand where it did not (`DamagedFramed`).
* `RightKind`: what a reader made of a frame in which the type arrived.

`fromBytes()` parses the bytes as another class first, to find the type. That
every class's parser finds it (`ParseReadsType`) is an induction over the items:
after each, the type is 0 if none was read and else the one in front, whatever
the other items did to other fields and whether they could be read (`TurnKeeps`,
one case per class). The library's induction theorems take a predicate as
parameter, which the prover cannot instantiate; Folding gets induction from its
well-foundedness theorem (`WFMin` of the order of the natural numbers, which
takes a set), shows that the function by which `FoldLeft` is defined exists
(`IterExists`), and gives the intermediate results of a fold as a sequence that
a proof can speak of. It is instantiated with the step of the parsers.

**The round trip.** `ReadsWhatWasSent` says that reading is the inverse of writing,
for seven classes and the nine nested in them. Its proof goes from the innermost
class outwards:

* `Leads(c, m, s, m2)`: the items `s` take a parser of class `c` from `m` to `m2`
  without an error. It is a statement about every state the fold goes through, so
  two such sequences can be joined (`LeadsOn`), and whatever a sequence leads to is
  what the parser returns (`FoldLeads`).
* `Reaches` is `Leads` for items of which the strings can be read, and it is
  proved once per kind of field, not per field: a number, a string, packed numbers
  (`ReachesPacked`), several strings or messages (`ReachesEach`,
  `ReachesMessages`), a message that may be missing (`ReachesMessage`) and a map
  (`ReachesMap`), whose entries are read by a fold of their own, in an order about
  which nothing is assumed. `Upto(m, new, F)` is the message of which only the
  fields `F` have been read; each class's lemma (`Vec3Reached`, ...,
  `HandshakeMessageReached`) follows its writer field by field from `Upto` with no
  field to `Upto` with all.
* `FrameRead`: a frame of any class, as it was written, is read to what it was
  written from, and parsing it for its type succeeds (`PeekSucceeds`). That the
  strings anybody could stumble over are those that `Strings` collects from the
  frame's first six levels is `CleanFrame`.
* `Sent` is the inductive invariant beside `IInv`: a message is what its class can
  be, nested messages included (`Sound`, kept by every accessor: `EditsSound`), and
  an undamaged frame is what was written of it. `Sound` has to say of each map that
  it is a function on a finite set and of each repeated field that it is a sequence;
  else writing it in order would not mention every element.

**Merging.** `MergeIsParse` is the round trip once more, starting from a message
that is not new: where the round trip says that the items lead from the empty
message to the one they were written from, this says that they lead from `to` to
`Merge(to, from)`. There, everything is read without an error, since the strings
are UTF-8; here a string may be refused, and then nothing is claimed. So a path is
made of `Turned` (if the item is taken, this is what it makes of the message) where
it was made of `Leads`, and the lemmas come again per kind of field
(`MakesNumber`, `MakesPacked`, `MakesEach`, `MakesMessages`, `MakesMessage`,
`MakesMap`) and then per class (`SensorMessage_Vec3Makes`, ...,
`HandshakeMessageMakes`). Three facts decide it: a field that is 0 or empty is not
written and leaves what was there; an entry of a map replaces the old value whole,
so what is merged below it is merged with a new message; and a Sensor's oneof
extends the vector only if the same field is set in both (`SensorMerged`).

**Whole objects.** `NoHalfObject` follows from `Delivered`, which is inductive beside
`IInv` and `Sent`: each item of a frame that announces an object is the entry of an
object of the message (`Faithful`), except that in damaged bytes the last item may
have been cut, so that at most the key of its entry is left (`Arrived`,
`EntryShortened`); and what a reader has made of them is `Right`. A parser keeps
that item by item (`TurnRight`): an entry that is read to its end gives the object
that was sent, because reading one is the round trip of its class; one that is cut
gives an empty object or none; one that fails leaves the map as it was.

**Sizes.** `SizesAgree` speaks also of messages that a reader made of a file that
ends too soon, of which `Sound` is false: they may hold unknown items. What holds
of them, `Fits`, asks less: each field is of the form its writer needs, what is
unknown is `Proper`, which is to have a size that is a number and nothing inside
that has none, and a sensor's truth value is one. A parser keeps that item by item
(`KeepsFit`: per kind of field first, `KeepsNumbers`, ..., `KeepsEntries`, then per
class), and what is left of proper bytes is proper (`ProperDamaged`). `Measured`
adds both to the invariant. The rest has nothing to do with steps: `Weighs(s, n)`
says that the items `s` are proper and take `n` bytes, and each class's lemma
(`SensorMessage_Vec3Weighs`, ..., `ErrorMessageWeighs`) adds up its writer's fields
and its `ByteSizeLong()`'s. Maps need the one argument that is not bookkeeping:
nothing fixes the order in which their sizes are added up nor the one in which they
are written, so a sum over a set, whichever element is taken first, has to be the
sum along any sequence that mentions each element once (`SweepSums`, `PartTotal`).

**Assumptions on constants.** `MaxRequests` is a natural number and `Lossy` a
Boolean; `Server` is not a `Client` and `"nothing"` not a `Body` (ClickApi);
every frame has a size that is a natural number (PyApi); `MaxRange` is a natural
number and every demo message type a `Body` (Controllers, IntegrationTest);
`MaxCalls` is a natural number (Builder) and every `Kind` one of the oneof's
fields (SensorMessages); `MaxEdits` is a natural number (Serialization), `TextSize` a
positive one and `Numbers` natural numbers, and "" is among no set of names
(Wire).

**Only model-checked.** `ControllersFinish`, `ErrorEndsSimulation` and
`TestsFinish`: they rest on fairness, and with it on ENABLED, which the prover
does not handle. Every invariant that a passing run checks is a theorem.

## 7. Where the code and its documentation disagree

Each of these is a run that violates one property stating the sentence.

| Run | The documentation | The code |
|---|---|---|
| `doc_receive_bytes` | "If there is a message ready then get it as a string" (`Server.h:45`, `Client.h:49`) | both copy zero bytes into the caller's string and return true (`Server.cpp:37`, `Client.cpp:34`); the frame is gone |
| `doc_is_updated` | "Returns True if there is a change in send_size or recv_size" (`server.py:31`) | a repetition before the flag is read erases the change (`server.py:48`) |
| `doc_next_test_blocked` | "make sure the process is killed so that next test is not blocked" (`click_integration.py:68`, `:72`) | both kills only send a signal (`:69`, `:73`), nobody waits for the process, and the next test's server may find the port taken |

Read in the code but given no run, because they are wording, show at the first call
or two, or are outside the modelled part:

* `src/README.md:44` and `:46` list a SensorMessage as the response to a
  SensorRequestMessage and a ResetMessage as that to a ResetMessage; demoserver.cpp
  answers both with an ErrorMessage (`demoserver.cpp:151`).
* "Server loops over recv/send" (`src/README.md:37`): demo/server.py answers
  neither of the two (`demo/server.py:55`), receives again, is refused and ends.
  `AnswersFit` is silent on both questions for both servers: it claims only
  answers on which the table and the code agree.
* "The controlTypes of each control in controlsInorder in the same order"
  (`Messaging.proto:90`): the builder appends control types
  (`HandshakeMessageBuilder.cpp:59`) and replaces controls (`:52`), so a robot given
  both twice has more types than controls. The reference of
  `HandshakeReadersReturnWhatWasSaid` takes this as it is.
* force1d is a double, velocity3d and angularVelocity3d are Vec3
  (`SensorMessage.h:17-32`); `sensorDouble` and `sensorVec3` refuse them
  (`SensorMessage.cpp:161`, `:149`).
* The same comments of `click_integration.py`: when the server has died before it
  got the ErrorMessage, `client.stop()` at `:58` waits for ever and the `finally`
  is never reached. `TestsFinish` says that this is the only way for the run to
  stop.
* `send` returns "false if it would have blocked or it timed out" (`Client.h:63`);
  the send is blocking and has no timeout (`Client.cpp:42`): on a client that was
  never connected it waits for ever.
* `must_send()` (`Server.h:66`: "true if ok to send") goes on saying what it said
  after `terminate()`, when no call is accepted any more.
* The docstring of `recv` (`client.py:18`) says None is returned if `block` is
  True and nothing waits; it is returned if `block` is False.
* The comment at `Messaging.proto:128` and `src/README.md:103` call the controls
  of an object mutually exclusive; the builder lets several be set.
* `demo/client.py:76` compares a lower-case string with `"angularvelocity1D"`: the
  branch is never taken.
* A name that is not UTF-8 is accepted by every builder of C++
  (`ControlMessageBuilder.cpp:16`); the C++ reader stops there without a word, and
  the objects behind it are missing.

## 8. Not modelled, and the plan

Worth doing next: **control values** of client.py's `--controltype`, as arguments
of Controllers.

Not planned: `sensorVec3`, `sensorDouble` and `sensorBool`, look-ups of one reading that
`sensor` also returns; arenas, descriptors, swapping and reflection of the generated code,
which nothing in Click calls; build files, Docker and documentation. The
internals of ZeroMQ and of the protobuf runtime stay assumptions (section 3).
Liveness stays with TLC.
