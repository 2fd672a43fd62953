# A TLA+ model of rasta_s

rasta_s is a C implementation of the safety and retransmission layer of the
RaSTA protocol (Rail Safe Transport Application). Two endpoints, a client and a
server, open a connection over an unreliable network, exchange data and
heartbeats under sequence numbers and timestamps, and give the connection up
when something is missing or late. The protocol logic is in `safecom/`.

This directory holds TLA+ modules translated from that source, TLC
configurations that check them on small instances, and TLAPS proofs.
`PROJECT.json` lists components, runs, the mutants that show each property can
fail, the source lines behind each definition, findings, hazards and theorems.

## 1. The system

| Component | State | Operations |
|---|---|---|
| Connection state machine (`sm.c`) | `SmType`: state, installed handler, role, `snr`, `snt`, `cst`, `csr`, `tsr`, `ctsr`, times `Ti`, `Trtd` | `Sm_Init`, `Sm_HandleEvent`, six state handlers |
| PDU builders (`pdu.c`) | none of their own; they advance `snt` | `ConnReq`, `ConnResp`, `RetrReq`, `DiscReq`, `HB`, `Data` |
| Wire format (`pdu.c`) | the buffer `buff_to_send`, shared by all frames of a process | `serialize_pdu`, `deserialize_pdu`, `calculate_MD4`, `read_`/`write_uint16/32` |
| MD4 (`md4.c`) | a context: block buffer, counters, registers | `MD4_Init`, `MD4_Update`, `MD4_Final` |
| Services (`safecom_impl.c`) | the static pointer `sms` to the array of connections | initialise, open, close, send data, receive a frame |
| Time (`time_mon.c`, timer loop of `test_timeout.c`) | processor time | `GetCurrentTimestamp`; a loop that counts `Ti` down and raises the timer events |
| Instances (`rass.c`, `sic.c`, `safecom.c`) | one instance each, a stored configuration, an init flag | two init functions, forward to the services |
| `assert` (`common/`) | | prints and loops for ever when it fails |
| Logging, mocks, `main.c` | | not protocol logic |

How they interact. A service or the `ReceiveMsg` callback builds or decodes a
`PDU_S` and calls `Sm_HandleEvent`, which calls the handler installed for the
state. A handler changes the context, may fill the same PDU with an answer,
serialise it into `buff_to_send` and pass it to the `SendSpdu` callback.
`SafeCom_Main_Impl` is empty: the application runs the timers. The only loop in
the repository that does so is in `test/test_timeout/test_timeout.c`; it is the
one modelled. The heartbeat this test injects at second 5 is a stimulus of the
test and not part of the loop: `Endpoint` lets a heartbeat arrive at any time.

What is hard here:

* two processes whose calls interleave, a network that loses, duplicates and
  reorders, and connections that are closed and opened again with old frames
  still in transit;
* the monitoring time `Ti`, counted down by the timer loop, recalculated by the
  handlers, from timestamps of two different clocks;
* unsigned differences, an `int32_t` that is counted below zero, and a clock
  that starts again at 0 long before the arithmetic on it wraps;
* retransmission, which is half written: requests are sent and never answered;
* one buffer and one PDU reused for whatever comes next, and buffers whose size
  nobody compares with what is written to them;
* one static pointer for all instances and all connections of a process;
* callbacks that run in the middle of a call, when the state has changed and the
  handler of the new state is not installed yet;
* a decoder without a result, and assertions that stop the process.

What makes each component correct: the state machine takes in only consecutive
messages, never prolongs its monitoring time without news, and leaves every
state in which it waits (`Endpoint`); two of them agree on the numbers, deliver
data in order, and neither accepts nor waits for messages older than `Tmax`
(`Link`); a frame is read as it was written and never beyond its end (`Codec`),
and one of which only a part arrived does not stop the process (`Intake`); a
callback may call back (`Reentrant`); a service acts on the connection of its
instance and finds its callbacks set (`Process`); every byte of a message is
hashed once, in its place (`Md4`).

## 2. Modules

```
Pdu --- Sm --- SafeCom --+-- Endpoint --+-- MCEndpoint
                         |              +-- Intake --+-- MCIntake
                         |                           +-- EndpointProofs (*)
                         +-- Link ------+-- MCLink
                         |     |        +-- LinkProofs (*) --- DeliveryProofs
                         |     | (instance)
                         |     Pipe
                         +-- Process ---+-- MCProcess
                         |              +-- ProcessProofs (*)
                         +-- Reentrant -+-- MCReentrant
                         |              +-- ReentrantProofs (*)
                         +-- SmProofs, which the modules marked (*) extend
Codec --+-- MCCodec
        +-- CodecProofs
Md4 ------- Md4Proofs
```

**Pdu**: the fields of `PDU_S`, the arithmetic of their widths and the builders.
Sequence numbers are residues modulo `SeqCount` and timestamps modulo
`2 * TimeHalf`, both 2^32 in the code. The fields of `SmType` are `int32_t`, but
they are only tested for equality or enter unsigned differences, so only their
bits matter (`csr`, which `handle_down` sets to `snt - 1`, is never read at all;
`snt++` at 2^31 - 1 is formally undefined; compilers for this code
increment a word in memory, which wraps). A payload is told apart by what the
state machine does with it: a version, a reason, an application message.

**Sm**: `sm.c`. Each handler is an operator that returns the new context and the
frames it passed to `SendSpdu`. `Disconnect`, `ReceiveOrRequest` and similar
operators stand for runs of statements that the source repeats. `AnswerRetrReq`
keeps both branches of `unconfirmed_payload_available`, which returns `false`.

**SafeCom**: the services, the receive callback, `Tlocal()` and one pass of the
timer loop. `TimerPass` includes the order of the loop: decrement, `Th`, `Ti`;
and the PDU it reuses, whose last sequence number is the variable `scratch`.
The receive callback belongs to the application and is external. Those of the
tests raise only the events their test needs (`test_rass_server.c:177-184` those
of a request and a heartbeat, `test_rass_client.c` that of a response); the one
of the model raises, for each of the eight message types, the event that `sm.h`
has for it, because that is what the handlers of `sm.c` are written for.

**Endpoint**: one connection against an arbitrary environment. The user calls
anything at any time, and any frame of `Arriving` may arrive. What holds here
holds whatever the peer does. It starts in either role. The variable `wrapped` is history: it records that
`Tlocal()` started again during the present connection.

**Link**: a client and a server in two processes, and the network. `sub` and
`del` are history: the messages handed to `SendSpdu` and the messages taken in.
A frame counts as taken in when it is a regular receipt (`snr` moves); the code
hands nothing to the application itself. A failed `SendSpdu` is a lost frame.

**Pipe**: what the two applications may rely on, an in-order channel that may
lose its end. `Link` implements it: `InOrderDelivery` is `Pipe`'s specification
under the mapping that is the identity on `sub` and `del`.

**Intake**: an endpoint to which frames arrive whole or cut short behind the
header. `deserialize_pdu` then leaves the payload NULL and the callback raises
the event all the same. `Hang` is the loop of a failed `assert`, reached through
`check_version`. A data message that lost its data is taken in and confirmed.

**Process**: one process with the instances `Rass` and `Sic`. An application
initialises them through either function, again and in any order, and calls the
services of those it has initialised. `sms` is the static pointer every service
uses; `mem` holds the arrays the application allocated, of `MAX_CONNECTIONS`
elements, each with the two pointers that only initialisation sets. `fault` records that a null pointer
was followed, after which there is no process. The two files are the same code,
so each definition is mapped to one of them.

**Reentrant**: one endpoint whose `SendSpdu` callback calls back. A call of
`Sm_HandleEvent` is two steps, `Begin` up to `SendSpdu` and `Return` from it, and
other calls happen in between. This is faithful because `SendSpdu` is the last
statement of every path of every handler; only the installation of the next
handler follows.

**Codec**: the wire format byte by byte. A byte is a digit to the base `Radix`.
A PDU that was received holds offsets for its two pointers, as the code does.
`Send` is a builder, `calculate_MD4` and the handler's `serialize_pdu`:
`ScratchLength` is what the first serialisation writes into the 50-byte array
(with a safety code when the PDU has one from its previous use), and the safety
code that is sent is the digest or, the array being gone, one of `Leftovers`.

**Md4**: the digest as a stream. The registers are the sequence of blocks that
`body` was given; the buffer, `lo` and `hi`, the early return of `MD4_Update` and
the padding of `MD4_Final` are the code's. `Padded` is the reference (RFC 1320).
A cell stands for a byte, the last two cells of a block for the two words of the
length, so a block has 8 cells instead of 64.

**SmProofs**: what every proof about the state machine rests on, lemmas about
`Pdu`, `Sm` and `SafeCom`. **EndpointProofs**, **ReentrantProofs**,
**LinkProofs**, **ProcessProofs**, **CodecProofs**, **Md4Proofs**: the proofs about
the module each is named after; the first is also about `Intake`.
**DeliveryProofs**: what the sequence numbers of `Link` achieve, and that `Link`
implements `Pipe`.

Except in `Reentrant`, calls are atomic: the code is single-threaded ("we are in
a single threaded context", `rass.c:10`) and the callbacks of the repository only
print.
`Tlocal()` does not change during a call: it has a resolution of one second.

## 3. Runs

| Run | Instance | Result |
|---|---|---|
| `endpoint` | either role; every type of frame, every sequence number, several confirmed timestamps, both versions | pass |
| `reentrant` | either role, every type and number, calls three deep | pass |
| `intake_hang` | either role; every type of frame, whole and cut short | `VersionPresent` fails |
| `link_faults` | loses, duplicates, reorders; two messages | pass |
| `link_reopen` | in order, delivering; two opens each, either side sends a message | pass |
| `link_time` | in order; two opens each, six seconds, the clock starts again in the last | pass |
| `link_alive` | one open each, `Tmax` = 3, `Th` = 1 | `HeardIsAlive` fails |
| `process` | `Rass` the client with one connection or two, `Sic` the server, an array each | pass |
| `codec` | every length a builder produces, data of 22, 23 and `Radix + 1` bytes, every truncation, damaged lengths | pass |
| `codec_length` | as `codec` | `SafetyCodeArrived` fails |
| `codec_digest` | as `codec` | `SafetyCodeIsDigest` fails |
| `md4` | blocks of 8 cells, `lo` modulo 16, every message up to 50 bytes, cut in every way | pass |

What the passing runs show. Where the code keeps a promise only in part, the
property says exactly in which part, so that a change for the worse is noticed.

* `TiBalanced`: at any moment `Ti` is what `sm.c` would calculate if a message
  with the present confirmed timestamp arrived, so that old news never buys a
  second. It holds in every connection during which `Tlocal()` does not wrap.
  Opening does not set `Ti`, so the wait for a request or a response lasts as
  long as the previous connection left: after a timeout, until the next pass of
  the timer loop, which closes again. `TiBalanced` shows that nothing of this
  reaches into the connection once it is set up.
* `ConfirmsLastTaken`: `cst`, the "sequence number to be confirmed (which is
  transmitted at the next protocol data unit to be sent)" (`sm.h:59`), is the
  number taken in last on this connection, and 0 in a client that has taken in
  none. It holds while a connection is opened or up. The frame that ends one is
  the exception, against that comment: `close_connection` sets `cst` from the PDU
  that comes with the event, so a disconnection request confirms 0 when the user
  closes, a message of its own when one is sent too early, and what the timer
  loop sent last when `Ti` runs out. No receiver stores what it confirms.
* `NumbersStepByOne`, `CtsNeverRegresses`: no frame makes the numbers of a
  connection skip, or its confirmed timestamp go back or jump by `Tmax`.
* `WaitingEnds`: `STATE_DOWN`, `STATE_START` and `STATE_RETR_REQ` are left.
* `SilenceCloses`: once frames stop arriving, the connection is closed, however
  often it is opened again and whatever the application goes on sending.
* `HandlerOfState`, `CloseCloses`: with calls from callbacks, a connection that
  is closed is handled as closed at once. Closing has no effect in a single
  place, the callback of the client's connection request.
* `InOrderDelivery`, `GapIsFatal`: a connection is an in-order pipe over any
  network; its price is that a gap ends it, since no retransmission is ever
  granted.
* `NoNeedlessRequest`, `NumbersAgree`: if the network keeps the order, nobody
  asks for a retransmission, and with nothing in transit each side expects the
  number that the other sends next, also after connections were opened again.
* `HandshakeCompletes`: a request on its way to a listening server brings both
  sides up, or one of them is closed by its application or its timer; nothing
  sent meanwhile leaves one of them waiting.
* `MonitoringWithinTmax`: nobody monitors the other for longer than `Tmax`, up to
  `Lead`, the drift between the clocks, until `Tlocal()` starts again. `clock()`
  is truncated to 32 bits before it is divided, so this happens after 4294
  seconds, while differences are taken modulo 2^32: the next message then
  prolongs `Ti` by all the seconds skipped back, more than an hour.
* `LateIsNoticed`: a server never takes in a message older than `Tmax`. A client
  does, because it accepts any connection response, also that to a request it
  made before it closed and opened again; but then its `Ti` has run out and the
  next pass of the timer loop closes.
* `NoNullCall`, `OpenOpens`, `InitKeepsOpen`: on the first connection of each
  instance the services find callbacks and clock, the instance initialised last
  opens its own connection, and initialising again never touches an open one.
  What is excepted really fails: callbacks and `Tlocal` are stored in element 0
  only, so a second connection that sends calls through a null pointer (the
  tests are built with one); and both instances share the static `sms`, so the
  services of the first act on the array of the last. `NoNullCall` speaks of
  events; `Rass_Init(NULL)` as the very first call also follows a null pointer.
* `RoundTrip`: a whole frame is read as written. A message whose length does not
  fit in a byte is sent only in part: the length is narrowed to a `uint8_t`.
* `ReadsArrived`: a pointer is set only when a whole header has arrived, and if
  the length field is not below that of the fixed fields, the payload and all
  bytes of the safety code lie within what arrived. For the other lengths see
  `SafetyCodeArrived` below.
* `FitsBuffers`: every caller of `serialize_pdu` passes the length of the PDU for
  the size of the buffer, so data of more than 22 bytes overruns the 50 bytes of
  `calculate_MD4`. Nothing else does, and a connection response fills them to
  the last byte.
* `NothingLost`, `DigestOfMessage`: MD4 processes the padded message.

### What fails

Each of these properties states what a comment, an assertion or a test of the
repository says and is violated.

1. `HeardIsAlive`. Every builder copies its own `ctsr` into the confirmed
   timestamp instead of `tsr`. The two sides hand the time of the handshake to
   and fro, and every connection ends `Tmax` after it.
2. `VersionPresent`. A connection message of which only the header arrived
   reaches `check_version`, whose assertion fails, and the process loops.
3. `SafetyCodeArrived`. `PDU_FIXED_FIELDS_LENGTH` is `36U`: for a length field
   below 36 the payload length wraps at 2^32 and the assertion behind it ("Ensure
   payload length is valid", `pdu.c:212`) is about an unsigned number and cannot
   fail. With a `size_t` of 64 bits, which is what the build files lead to on a
   64-bit machine, `safety_code` points 4 GiB behind the buffer, and the next
   builder that uses this PDU reads it there.
4. `SafetyCodeIsDigest`. The safety code is read from a local array of a function
   that has returned.

### Bounds

`SeqCount` is 3 in `endpoint` and `intake_hang`: the expected number, one before it and one
after it, with the wrap inside. It is 16 in `Link`, where more numbers are drawn
than a run can use up, so that no frame is taken for one 16 numbers later.
`TimeHalf` and `LastSecond` keep the order of the real values,
`LastSecond + Tmax < TimeHalf`, so that the `int32_t` and the clock both wrap and
in the same way. `Tmax` is 2 or 3 and `Th` 1 or 2: a connection lives through at
least one heartbeat. The server of `Link` draws 0, whose predecessor wraps.

`MaxClock`, `MaxOpens`, `MaxSends`, `Cap` and the scripts bound `Link`. Two opens let a
frame of one connection meet the next; in `link_time` the clocks start at 0 and
pass five times, more than `Tmax` plus `Lead`, and the fifth pass is the one
with which `Tlocal()` starts again. `Cap` = 2 lets frames overtake each other
and 3 or 4 holds what a handshake, a message and a disconnection have in
transit. In `link_faults` and `link_reopen` the clock starts at `LastSecond`, so
that it wraps within the run. In `link_reopen` one of the two sends a message,
at any time: also while the handshake is under way.
In `endpoint` and `intake_hang` nothing is bounded but the constants.

In `Codec`, `Radix` = 32 keeps 32-bit numbers within TLC's integers (an unsigned
int wraps at 32^4, where the code's wraps at 256^4); the code
divides and multiplies by powers of the base only, and of a message type only
the last two decimal digits are kept. The numbers of the frame are one tuple in
which no two digits can be confused. Frames of all lengths are built over one
another in the same buffer. `Digest` is a stand-in that depends on the frame.

`MaxDepth` = 3 in `Reentrant` lets a callback of a callback call. In `Process`
time stands still, `SeqCount` is 2, and the peer sends what is needed to bring a
connection up; `MAX_CONNECTIONS` = 2 is one more than the connection that gets
the callbacks. In `Md4`, 50
bytes are more than six blocks and wrap `lo` three times; the code tests the
counters and the buffer only for what the scaled block keeps (a block's end, and
room for the length).

`CHECK_DEADLOCK FALSE` is used where a process may stop for good: in `Process`
after a null pointer was followed, in `Codec` after an overrun.

### Fairness

`WF_vars(Tick)` in `Endpoint`: the timer loop runs unconditionally while
the connection is not closed, and processor time passes while it does. Nothing
is assumed of the user, the peer or the network; `SilenceCloses` has the silence
of the peer as its premise. `DeliveringSpec` of `Link` has `WF_vars(Receive(r))`:
the assumption that the network delivers, under which `HandshakeCompletes` is
stated; nothing is assumed there of the timers. One pass stands for one second
of `Tlocal()`, as the busy wait in the loop intends. No run uses fairness for a
counterexample: the violated properties are all safety properties.

## 4. Proofs

All theorems hold for every value of the constants, under the assumptions named
in the modules. Each states a property that a run checks; TLC also checked each
inductive invariant (`Inv` of each module, `OrderedInv` and `DeliveryInv`) on the
instances of section 3. The bounds of the runs are arbitrary in the theorems: in
`Link` the number of opens, messages, seconds and frames in transit, in
`Reentrant` the depth, in `Md4` the length. The exceptions are in
`DeliveryProofs`, whose theorems have a hypothesis: `Ordered`, a network that
neither loses, duplicates nor reorders, or `OneConnection`, explained below.

| Module | Theorem | Property |
|---|---|---|
| `EndpointProofs` | `TypeCorrect` | `[]TypeOK` |
| | `MonitoringBalanced` | `[]TiBalanced` |
| | `ConfirmsItsOwn` | `[]ConfirmsLastTaken` |
| | `NumbersInStep` | `NumbersStepByOne` |
| | `CtsMonotonic` | `CtsNeverRegresses` |
| | `CutFramesBalanced` | `[]TiBalanced`, of `Intake` |
| | `CutFramesConfirmed` | `[]ConfirmsLastTaken`, of `Intake` |
| | `CutFramesInStep` | `NumbersStepByOne`, of `Intake` |
| | `CutFramesMonotonic` | `CtsNeverRegresses`, of `Intake` |
| `ReentrantProofs` | `HandlerSettled` | `[]HandlerOfState` |
| | `CloseTakesEffect` | `[]CloseCloses` |
| `LinkProofs` | `TypeCorrect` | `[]TypeOK` |
| | `MonitoringBounded` | `[]MonitoringWithinTmax` |
| | `LateMessagesNoticed` | `LateIsNoticed` |
| | `GapStaysFatal` | `GapIsFatal` |
| `DeliveryProofs` | `OneConnectionIsPipe` | `OneConnection` implies `InOrderDelivery` |
| | `RequestsAreNeeded` | `Ordered` implies `[]NoNeedlessRequest` |
| | `EndsAgree` | `Ordered` implies `[]NumbersAgree` |
| `ProcessProofs` | `FirstConnectionCallable` | `[]NoNullCall` |
| | `LastInstanceOpens` | `[]OpenOpens` |
| | `InitialisationIsSafe` | `InitKeepsOpen` |
| `CodecProofs` | `FramesReadAsWritten` | `[]RoundTrip` |
| | `NothingReadBeyond` | `[]ReadsArrived` |
| | `OnlyLongDataOverruns` | `[]FitsBuffers` |
| `Md4Proofs` | `DigestIsOfMessage` | `[]DigestOfMessage` |
| | `UpdateLosesNothing` | `[]NothingLost` |

**What the state machine may do (`SmProofs`).** `Outcome` lists the eleven things a
handler does: ignore, close, disconnect, pass the PDU on, listen, call, answer,
connect, receive, request, resume; each with the conditions under which it does
so. `HandledOutcome` shows, handler by handler and event by event, that there is
nothing else. The proofs about `Endpoint`, `Reentrant`, `Link` and `Process` go
through these cases instead of through the handlers. The constants: `SeqCount >=
2`, `TimeHalf >= 2`, `0 < Tmax < TimeHalf`, `Th > 0`, `LastSecond` below
`2 * TimeHalf`.

**Endpoint.** `Inv` is `TypeOK /\ HandlerInstalled /\ TiBalanced /\ Confirmed(sm)`.
`TiBalanced` is not inductive alone: a handler balances the times of the state it is written
for, so the handler installed must be the one of the state; and a supervised
state can be reached from an unsupervised one, where nothing is known of `Ti`, so
these steps must recalculate it. `Kept(old, new, now)` says what a call must
preserve between two contexts; `HandleEventKept` and `TimerPassKept` show that it
does. The decrement of the loop is matched by `MonitoringTimeCountsDown`: a
second that passes shortens the monitoring time by one, modulo the width of
`int32_t`, unless the clock starts again. `Confirmed` is `ConfirmsLastTaken` with
the fact that only a server listens: a context that answers a request in
`STATE_DOWN` is then supervised, and confirms the number of the request. Of the
eleven outcomes only answering, connecting and receiving move `snr`, and they move
`cst` with it (`OutcomeConfirmed`); calling sets `cst` to 0. A frame cut short is an event like any
other (`CutKept`), so the same holds of `Intake` until the process hangs: that
`deserialize_pdu` has no result costs data and the process, never the times or
the numbers.

**Reentrant.** Here a call may find any handler in any state, so `HandlerInstalled`
is false. What remains is `ClosedHandler`: a closed connection has the handler of
`STATE_CLOSED`, and that handler is found in no other state than that of a client
that is sending its connection request.

**Link.** The properties about time are about one endpoint, but depend on what is
in transit: a frame confirms a timestamp, and `ctsr`, from which `Ti` is reckoned,
is set from it. `Inv` therefore says of every frame in the network that the
timestamp it confirms is one that some clock has shown and is not ahead of its
own by more than `Lead`; of every context that its handler is the one of its
state, that its `ctsr` is such a timestamp, that `Ti` is bounded, and of a server's
that `Ti` is exactly what its own clock makes of it. The clocks are within `Lead`
of each other, which is what `Lead` means. `LinkAssumption` has
`LastSecond + Tmax < TimeHalf`, in the code 4294 + `Tmax` < 2^31: without it the
`int32_t` arithmetic could wrap before the clock starts again. `GapIsFatal` and
`LateIsNoticed` follow from what a call of either endpoint does and sends
(`OutcomeEffect`, `OutcomeCourse`, `TimerPassEffect`), and from what is therefore in
transit (`Lawful`): no retransmission response ever is.

**Numbers in order.** A server draws a new number whenever it opens, and frames of
one connection are still in transit when the next one begins. `Threaded` says of
one direction, queue and both ends, what remains true: every heartbeat and data
frame in the queue has the number after that of the frame before it, whatever
type that one has; the first has the number the receiver expects, if it is
connected; and a sender that is neither closed nor listening goes on with the
number after the last one in the queue, or with the one expected when the queue
is empty. It follows that the check of
a connected receiver never fails (`NoNeedlessRequest`) and, for empty queues, that
the numbers agree. It does not matter which numbers are drawn, whether they are
drawn twice or how often they come round: a frame of an old connection reaches a
receiver in the old connection, or one that is not connected and goes by its
type. What makes this inductive is that a connected endpoint ignores no frame
and that every path which closes also leaves the sender unable to send
(`SendDataIs`, `ThreadSendsData`), although `SafeCom_SendData_Impl` counts `snt`
before it knows whether the message is sent.

**A connection is a pipe.** On a network that loses, duplicates and reorders,
only the numbers tell what to take in. `Flow` relates one direction to the first
number of the connection, `base`: `Pos(base, n)` is the place of number n, and
`at` the increasing places of the messages in `sub`. Every data frame in transit
is the message of its place (`Placed`), and the receiver has taken in exactly the
messages before the place it expects (`Taken`). So the next message it takes in
is the next of `sub` (`Pipe`). The places are distinct because the last is at most
the seconds plus the calls of `SendData` plus the frames that changes of state add
(`LastPlace`, `Rank`), which `OneConnection` keeps below `SeqCount`.
Both halves of this hypothesis, `MaxOpens <= 1` and `MaxClock + MaxSends + 4 <
SeqCount`, are needed: a duplicate that is delayed until the numbers have come
round, or until a later connection has drawn the same ones, is taken in again.
The code has 2^32 numbers, so one connection has enough of them for as long as
it lasts; nothing guarantees that two connections draw different ones, and a
process that is started again draws the same. The constants of `link_faults` satisfy
`OneConnection` and those of `link_reopen` satisfy `Ordered`.

**Process.** `Inv` adds to the two invariants where `sms` points (`Reachable`: to the
array of the instance initialised last, whose first element has its callbacks
and its clock), that a stored configuration is one the application gave
(`Registered`), and that an array which belongs to no initialised instance is as
it was allocated (`Untouched`). `ConfigsAssumption` is the caller's obligation, which `main.c` and the
tests meet: an instance has at least one connection, no more than its array has
elements, and an array of its own. If two instances shared one, initialising the
second would reset the open connection of the first.

**Codec.** `Inv` connects the three properties through the buffer: until the network
damages it, it begins with the frame of `sent` (`FrameIn`: where each number, the
payload and the safety code are), and `got` is what `deserialize_pdu` makes of it.
`HeaderWritten` and `FrameOfParts` follow the writes one after the other;
`Reads16` and `Reads32` show that reading the digits to any base gives the number
back. `SizeIs` says where the wrapped length does not come in: `NothingReadBeyond`
is about the length fields from 36 on. `CodecAssumption` says which messages exist: numbers of 16 and 32 bits, and
a payload of more than 14 bytes (`CONN_RESP_PAYLOAD_LENGTH`) only in data.

**Md4.** There is no induction over the message. `After(ctx, n)` is the context
after n bytes: `n \div BlockSize` blocks processed, cell by cell those of the
message, the other bytes in the buffer, and `lo` and `hi` the two digits of n.
`UpdateAdvances` shows that an update of k bytes leads from `After(ctx, n)` to
`After(ctx, n + k)`, in each of the three ways through `MD4_Update`, and
`FinalPads` that the padding then gives the blocks of `Padded(n)`, with one block
more or without. It is assumed that a block holds the mark and the length
(`BlockSize >= 3`) and that `lo` starts again between two blocks.

Only model-checked:

* liveness (`WaitingEnds`, `SilenceCloses`, `HandshakeCompletes`), which is out of
  the prover's reach;
* what the violated properties say of the code: a counterexample is a proof.

## 5. Not modelled

* The arithmetic of MD4 on a block. It is a pure function of sixteen words,
  beyond TLC's integers, and nothing else depends on its values.
* `RetrResp` and the retransmission it would answer with, which nobody calls, and
  the places marked TODO in the handlers of a retransmission request.
* The sequence that `snt_rand_value` yields. Its seed is fixed, so each process
  draws the same numbers in the same order; the model lets any value be drawn,
  which includes it.
* `SafeCom_Main_Impl` and `SafeCom_ConnectionStateRequest_Impl`, which return OK
  and do nothing; the asserts on null arguments, which are the caller's duty.
* Logging, the mocks' output and `main.c`, whose run is a behaviour of `Process`:
  an initialisation and one `OpenConnection`.

## 6. Plan

Done: all components above, and the theorems of section 4: every invariant and
every action property of a passing run is proved, and the refinement of `Pipe`.

Open:

* more than one connection on a network that duplicates: a theorem needs a
  hypothesis on the numbers drawn, and frames in transit that remember their
  connection;
* liveness, should the prover come to support it;
* a model of the retransmission, once the code answers a request.
