--------------------------- MODULE DeliveryProofs ---------------------------
(***************************************************************************)
(* Proofs about the sequence numbers of Link.  On a network that keeps     *)
(* every frame in order nobody asks for a retransmission and the numbers   *)
(* agree, however often the connection is closed and opened again; and on  *)
(* any network, one connection is a Pipe as long as its numbers last.      *)
(***************************************************************************)
EXTENDS LinkProofs

(***************************************************************************)
(* What an event leads to, once more: between endpoints of this code no    *)
(* retransmission arrives (RetransmissionEvent) and STATE_RETR_RUN is not  *)
(* reached.  A frame that comes to a connected endpoint is not ignored.    *)
(***************************************************************************)
RetransmissionEvent == {"EVENT_RECV_RETR_RESP", "EVENT_RECV_RETR_DATA"}

InSequence(self, now, event, pdu, r) ==
    /\ \/ self.handle_event = "STATE_UP"
       \/ self.handle_event = "STATE_START" /\ self.role # "ROLE_CLIENT"
    /\ event \in {"EVENT_RECV_HB", "EVENT_RECV_DATA"}
    /\ SNinSeq(self, pdu)
    /\ r = Silently(Receipt(self, now, pdu, "STATE_UP"))

OutOfSequence(self, now, event, pdu, r) ==
    /\ self.handle_event = "STATE_UP"
    /\ event \in {"EVENT_RECV_HB", "EVENT_RECV_DATA"}
    /\ ~SNinSeq(self, pdu)
    /\ r = RequestRetransmission(self, now)

Overlooks(self, event, r) ==
    /\ Ignores(self, r)
    /\ event \in ReceiptEvent => self.handle_event \notin {"STATE_START", "STATE_UP"}
    /\ event = "EVENT_SEND_DATA" => self.handle_event = "STATE_CLOSED"

Move(self, now, rand, event, pdu, r) ==
    \/ Overlooks(self, event, r)
    \/ Closes(self, pdu, r)
    \/ Disconnects(self, now, pdu, r)
    \/ PassesOn(self, event, pdu, r)
    \/ Listens(self, rand, event, r)
    \/ Calls(self, now, rand, event, r)
    \/ Answers(self, now, event, pdu, r)
    \/ Connects(self, now, event, pdu, r)
    \/ InSequence(self, now, event, pdu, r)
    \/ OutOfSequence(self, now, event, pdu, r)

LEMMA HandledMove ==
    ASSUME NEW self, self.handle_event \in State \ {"STATE_RETR_RUN"},
           NEW now, NEW rand, NEW pdu,
           NEW event \in Event \ (TimerEvent \cup RetransmissionEvent)
    PROVE  Move(self, now, rand, event, pdu, Handled(self, now, rand, event, pdu))
  <1> DEFINE r == Handled(self, now, rand, event, pdu)
  <1>1. CASE self.handle_event \in {"STATE_CLOSED", "STATE_DOWN", "STATE_RETR_REQ"}
    <2>1. \/ Ignores(self, r)
          \/ Closes(self, pdu, r)
          \/ Disconnects(self, now, pdu, r)
          \/ PassesOn(self, event, pdu, r)
          \/ Listens(self, rand, event, r)
          \/ Calls(self, now, rand, event, r)
          \/ Answers(self, now, event, pdu, r)
      BY <1>1, HandledOutcome
         DEF Outcome, Connects, Receives, Requests, Resumes, RetransmissionEvent
    <2>2. \/ event # "EVENT_SEND_DATA" \/ self.handle_event = "STATE_CLOSED"
          \/ Closes(self, pdu, r) \/ PassesOn(self, event, pdu, r)
      BY <1>1 DEF Handled, handle_down, handle_retr_req, Closes, PassesOn
    <2>3. QED
      BY <1>1, <2>1, <2>2 DEF Move, Overlooks
  <1>2. CASE self.handle_event = "STATE_START"
    <2>1. r = handle_start(self, now, event, pdu)
      BY <1>2 DEF Handled
    <2>2. \/ Closes(self, pdu, r)
          \/ Disconnects(self, now, pdu, r)
          \/ Connects(self, now, event, pdu, r)
          \/ InSequence(self, now, event, pdu, r)
      BY <1>2, <2>1 DEF handle_start, Unexpected, ReceiveInSeq, Closes, Disconnects,
                        Connects, InSequence, DiscReasonType, Event, ReceiptEvent,
                        TimerEvent, RetransmissionEvent
    <2>3. QED
      BY <2>2 DEF Move
  <1>3. CASE self.handle_event = "STATE_UP"
    <2>1. r = handle_up(self, now, event, pdu)
      BY <1>3 DEF Handled
    <2>2. \/ Closes(self, pdu, r)
          \/ Disconnects(self, now, pdu, r)
          \/ PassesOn(self, event, pdu, r)
          \/ InSequence(self, now, event, pdu, r)
          \/ OutOfSequence(self, now, event, pdu, r)
      BY <1>3, <2>1 DEF handle_up, Unexpected, ReceiveOrRequest, ReceiveInSeq,
                        AnswerRetrReq, unconfirmed_payload_available, Closes,
                        Disconnects, PassesOn, InSequence, OutOfSequence,
                        DiscReasonType, Event, ReceiptEvent, TimerEvent,
                        RetransmissionEvent
    <2>3. QED
      BY <2>2 DEF Move
  <1>4. QED
    BY <1>1, <1>2, <1>3 DEF State
-----------------------------------------------------------------------------
(***************************************************************************)
(* What of it the two endpoints see of each other: the numbers, the states *)
(* and the frame.  First what the endpoint says: nothing, a frame that is  *)
(* counted, the frames of the handshake, or the message it was given.      *)
(* Rank orders the states in which a connection is left; every frame that  *)
(* no second and no call of SendData pays for leads to a later one.        *)
(***************************************************************************)
Rank(state) ==
    CASE state = "STATE_UP" -> 1
      [] state = "STATE_RETR_REQ" -> 2
      [] state = "STATE_CLOSED" -> 3
      [] OTHER -> 0

Running(self) == self.state \notin {"STATE_CLOSED", "STATE_DOWN"}

Says(sent, type, n) ==
    \E f \in Frame : sent = <<f>> /\ f.message_type = type /\ f.sequence_number = n

GoesOn(self, new) ==
    /\ new.state = self.state \/ Rank(self.state) < Rank(new.state)
    /\ Running(new) => Running(self)

Rests(self, new, sent) ==
    sent = << >> /\ new.snt = self.snt /\ GoesOn(self, new)

Counts(self, new, sent) ==
    /\ new.snt = Inc(self.snt) /\ GoesOn(self, new)
    /\ Rank(self.state) < Rank(new.state)
    /\ \/ Says(sent, "DISCONNECTION_REQUEST", new.snt)
       \/ Says(sent, "RETRANSMISSION_REQUEST", new.snt)
       \/ Says(sent, "HEARTBEAT", new.snt) /\ Running(self) /\ Running(new)

Opens(self, rand, event, new, sent) ==
    /\ self.state = "STATE_CLOSED" /\ event = "EVENT_OPEN_CONN" /\ new.snt = rand
    /\ \/ new.state = "STATE_DOWN" /\ sent = << >>
       \/ new.state = "STATE_START" /\ Says(sent, "CONNECTION_REQUEST", new.snt)

Agrees(self, new, sent) ==
    /\ self.state = "STATE_DOWN" /\ new.state = "STATE_START"
    /\ new.snt = self.snt /\ Says(sent, "CONNECTION_RESPONSE", new.snt)

Submits(self, event, pdu, new, sent) ==
    /\ event = "EVENT_SEND_DATA" /\ Running(self) /\ self.state # "STATE_START"
    /\ sent = <<pdu>> /\ new.state = self.state /\ new.snt = self.snt

Speaks(self, rand, event, pdu, new, sent) ==
    \/ Rests(self, new, sent)
    \/ Counts(self, new, sent)
    \/ Opens(self, rand, event, new, sent)
    \/ Agrees(self, new, sent)
    \/ Submits(self, event, pdu, new, sent)

(***************************************************************************)
(* And what it hears: the first frame of the connection, the frame that it *)
(* expects, or nothing.                                                    *)
(***************************************************************************)
Waiting(self) ==
    \/ self.state = "STATE_DOWN"
    \/ self.state = "STATE_START" /\ self.role # "ROLE_SERVER"

Misses(self, event, pdu, new) ==
    /\ new.snr = self.snr
    /\ Supervised(new) => Supervised(self)
    /\ Supervised(new) /\ event \in ReceiptEvent => new.state = "STATE_RETR_REQ"
    /\ new.state = "STATE_RETR_REQ" /\ self.state # "STATE_RETR_REQ" =>
         event \in {"EVENT_RECV_HB", "EVENT_RECV_DATA"} /\ ~SNinSeq(self, pdu)

Hears(self, event, pdu, new) ==
    /\ new.snr = Inc(pdu.sequence_number)
    /\ Supervised(new) /\ new.state # "STATE_RETR_REQ"
    /\ \/ /\ Waiting(self)
          /\ event \in {"EVENT_RECV_CONN_REQ", "EVENT_RECV_CONN_RESP"}
       \/ /\ Supervised(self) /\ SNinSeq(self, pdu)
          /\ event \in {"EVENT_RECV_HB", "EVENT_RECV_DATA"}

\* Only a server listens, and nobody is sent a retransmission.
Regular(self) ==
    /\ self.state # "STATE_RETR_RUN"
    /\ self.state = "STATE_DOWN" => self.role = "ROLE_SERVER"

Summary(self, rand, event, pdu, new, sent) ==
    /\ Speaks(self, rand, event, pdu, new, sent)
    /\ Misses(self, event, pdu, new) \/ Hears(self, event, pdu, new)
    /\ event = "EVENT_SEND_DATA" /\ new.state # "STATE_CLOSED" =>
         Submits(self, event, pdu, new, sent)
    /\ Waiting(new) => Waiting(self) \/ event = "EVENT_OPEN_CONN"
    /\ Regular(new)

LEMMA SaysConfirming ==
    ASSUME NEW self \in SmType, NEW now \in Time,
           NEW type \in MessageType \ {"CONNECTION_REQUEST"}, NEW load \in Payload,
           type = "CONNECTION_RESPONSE" => load # NoPayload
    PROVE  Says(<<Confirming(self, now, type, load)>>, type, self.snt)
  <1>1. Confirming(self, now, type, load) \in Frame
    BY DEF Confirming, Frame, PduOf, SmType
  <1>2. QED
    BY <1>1 DEF Says, Confirming

LEMMA SaysFrame ==
    ASSUME NEW sent, NEW type, NEW n, Says(sent, type, n)
    PROVE  sent \in Seq(Frame)
  <1>1. PICK f \in Frame : sent = <<f>>
    BY DEF Says
  <1>2. QED
    BY <1>1

LEMMA SaysConnReq ==
    ASSUME NEW self \in SmType, NEW now \in Time
    PROVE  Says(<<ConnReq(self, now)>>, "CONNECTION_REQUEST", self.snt)
  <1>1. 0 \in Time /\ 0 \in SeqNo
    BY SeqCountAssumption, TimeHalfAssumption DEF SeqNo, Time, TimeMod
  <1>2. ConnReq(self, now) \in Frame
    BY <1>1 DEF ConnReq, Frame, PduOf, SmType, MessageType, Payload,
                PROTOCOL_VERSION, NoPayload
  <1>3. QED
    BY <1>2 DEF Says, ConnReq

LEMMA MoveSummary ==
    ASSUME NEW self \in SmType, NEW now \in Time, NEW rand \in SeqNo,
           NEW event, NEW pdu \in PDU_S, NEW r,
           HandlerSet(self), Regular(self),
           event = "EVENT_SEND_DATA" => pdu \in Frame,
           Move(self, now, rand, event, pdu, r)
    PROVE  r.sm \in SmType /\ r.sm.role = self.role
           /\ Summary(self, rand, event, pdu, r.sm, r.sent)
  <1> USE DEF HandlerSet, Regular
  <1>1. CASE Overlooks(self, event, r) \/ PassesOn(self, event, pdu, r)
    <2>1. r.sm = self
      BY <1>1 DEF Overlooks, Ignores, PassesOn, Silently, Sending
    <2>2. /\ Speaks(self, rand, event, pdu, r.sm, r.sent)
          /\ event = "EVENT_SEND_DATA" /\ r.sm.state # "STATE_CLOSED" =>
               Submits(self, event, pdu, r.sm, r.sent)
      BY <1>1 DEF Overlooks, Ignores, PassesOn, Silently, Sending, Speaks, Rests,
                  Submits, GoesOn, Running
    <2>3. Misses(self, event, pdu, self)
      BY <1>1 DEF Overlooks, Ignores, PassesOn, Misses, Supervised, ReceiptEvent, SmType
    <2>4. QED
      BY <2>1, <2>2, <2>3 DEF Summary
  <1>2. CASE Closes(self, pdu, r)
    <2>1. /\ r.sm \in SmType /\ r.sm.role = self.role /\ r.sm.state = "STATE_CLOSED"
          /\ r.sent = << >>
      BY <1>2, CloseConnectionType DEF Closes, Silently
    <2>2. r.sm.snt = self.snt /\ r.sm.snr = self.snr
      BY <1>2 DEF Closes, Silently, close_connection, SmType
    <2>3. QED
      BY <1>2, <2>1, <2>2
         DEF Closes, Summary, Speaks, Rests, GoesOn, Running, Rank, Misses,
             Supervised, Waiting, SmType, State
  <1>3. CASE Disconnects(self, now, pdu, r)
    <2>1. PICK reason \in DiscReasonType : r = Disconnect(self, now, pdu, reason)
      BY <1>3 DEF Disconnects
    <2> DEFINE closed == close_connection(self, pdu)
    <2>2. /\ closed \in SmType /\ closed.role = self.role
          /\ closed.state = "STATE_CLOSED"
          /\ closed.snt = self.snt /\ closed.snr = self.snr
      BY CloseConnectionType DEF close_connection, SmType
    <2>3. /\ r.sm = Counted(closed)
          /\ r.sent = <<Confirming(r.sm, now, "DISCONNECTION_REQUEST", reason)>>
      BY <2>1 DEF Disconnect, Sending, DiscReq
    <2> HIDE DEF closed
    <2>4. /\ r.sm \in SmType /\ r.sm.role = self.role
          /\ r.sm.state = "STATE_CLOSED"
          /\ r.sm.snt = Inc(self.snt) /\ r.sm.snr = self.snr
      BY <2>2, <2>3, CountedType DEF SmType
    <2>5. Says(r.sent, "DISCONNECTION_REQUEST", r.sm.snt)
      BY <2>3, <2>4, SaysConfirming DEF MessageType, Payload
    <2>6. QED
      BY <1>3, <2>4, <2>5
         DEF Disconnects, Summary, Speaks, Counts, GoesOn, Running, Rank, Misses,
             Supervised, Waiting, SmType, State
  <1>4. CASE Listens(self, rand, event, r)
    <2>1. /\ r.sm \in SmType /\ r.sm.role = self.role /\ r.sm.state = "STATE_DOWN"
          /\ r.sm.snt = rand /\ r.sm.snr = self.snr /\ r.sent = << >>
      BY <1>4 DEF Listens, Silently, SmType, State
    <2>2. QED
      BY <1>4, <2>1 DEF Listens, Summary, Speaks, Opens, Misses, Supervised, Running
  <1>5. CASE Calls(self, now, rand, event, r)
    <2>1. r.sm = Calling(self, now, rand) /\ r.sent = <<ConnReq(r.sm, now)>>
      BY <1>5 DEF Calls, Sending
    <2>2. /\ r.sm \in SmType /\ r.sm.role = self.role /\ r.sm.state = "STATE_START"
          /\ r.sm.snt = rand /\ r.sm.snr = self.snr
      <3>1. [self EXCEPT !.snt = rand] \in SmType
        BY DEF SmType
      <3>2. "STATE_START" \in State /\ 0 \in SeqNo
        BY NoNumbersDrawn DEF State
      <3>3. Calling(self, now, rand) \in SmType
        BY <3>1, <3>2 DEF Calling, SmType
      <3>4. /\ Calling(self, now, rand).role = self.role
            /\ Calling(self, now, rand).state = "STATE_START"
            /\ Calling(self, now, rand).snt = rand
            /\ Calling(self, now, rand).snr = self.snr
        BY DEF Calling, SmType
      <3>5. QED
        BY <2>1, <3>3, <3>4
    <2>3. Says(r.sent, "CONNECTION_REQUEST", r.sm.snt)
      BY <2>1, <2>2, SaysConnReq
    <2>4. QED
      BY <1>5, <2>2, <2>3
         DEF Calls, Summary, Speaks, Opens, Misses, Supervised, Running
  <1>6. CASE Answers(self, now, event, pdu, r)
    <2> DEFINE new == Answering(self, now, pdu)
    <2>1. r.sm = new /\ r.sent = <<Confirming(new, now, "CONNECTION_RESPONSE", PROTOCOL_VERSION)>>
      BY <1>6 DEF Answers, Sending, ConnResp
    <2>2. new \in SmType /\ new.role = self.role /\ new.state = "STATE_START"
      BY AnsweringType
    <2>3. new.snt = self.snt /\ new.snr = Inc(pdu.sequence_number)
      BY DEF Answering, UpdateTimes, process_regular_receipt, SmType
    <2> HIDE DEF new
    <2>4. Says(r.sent, "CONNECTION_RESPONSE", new.snt)
      BY <2>1, <2>2, SaysConfirming
         DEF MessageType, Payload, PROTOCOL_VERSION, NoPayload
    <2>5. QED
      BY <1>6, <2>1, <2>2, <2>3, <2>4
         DEF Answers, Summary, Speaks, Agrees, Hears, Misses, Supervised, Waiting,
             Running
  <1>7. CASE Connects(self, now, event, pdu, r)
    <2> DEFINE up == Receipt(self, now, pdu, "STATE_UP")
    <2>1. /\ up \in SmType /\ up.role = self.role /\ up.state = "STATE_UP"
          /\ up.snr = Inc(pdu.sequence_number) /\ up.snt = self.snt
      BY ReceiptType DEF State
    <2>2. /\ r.sm = Counted(up)
          /\ r.sent = <<Confirming(r.sm, now, "HEARTBEAT", NoPayload)>>
      BY <1>7 DEF Connects, SendHB, Sending, HB
    <2> HIDE DEF up
    <2>3. /\ r.sm \in SmType /\ r.sm.role = self.role /\ r.sm.state = "STATE_UP"
          /\ r.sm.snr = Inc(pdu.sequence_number) /\ r.sm.snt = Inc(self.snt)
      BY <2>1, <2>2, CountedType DEF SmType
    <2>4. Says(r.sent, "HEARTBEAT", r.sm.snt)
      BY <2>2, <2>3, SaysConfirming DEF MessageType, Payload
    <2>5. QED
      BY <1>7, <2>3, <2>4
         DEF Connects, Summary, Speaks, Counts, GoesOn, Running, Rank, Hears,
             Supervised, Waiting
  <1>8. CASE InSequence(self, now, event, pdu, r)
    <2>1. r.sm = Receipt(self, now, pdu, "STATE_UP") /\ r.sent = << >>
      BY <1>8 DEF InSequence, Silently
    <2>2. /\ r.sm \in SmType /\ r.sm.role = self.role /\ r.sm.state = "STATE_UP"
          /\ r.sm.snr = Inc(pdu.sequence_number) /\ r.sm.snt = self.snt
      BY <2>1, ReceiptType DEF State
    <2>3. Supervised(self)
      BY <1>8 DEF InSequence, Supervised, SmType, SmRole
    <2>4. QED
      BY <1>8, <2>1, <2>2, <2>3
         DEF InSequence, Summary, Speaks, Rests, GoesOn, Running, Rank, Hears,
             Supervised, Waiting
  <1>9. CASE OutOfSequence(self, now, event, pdu, r)
    <2> DEFINE asking == [self EXCEPT !.state = "STATE_RETR_REQ"]
    <2>1. asking \in SmType
      BY DEF SmType, State
    <2>2. /\ r.sm = Counted(asking)
          /\ r.sent = <<Confirming(r.sm, now, "RETRANSMISSION_REQUEST", NoPayload)>>
      BY <1>9 DEF OutOfSequence, RequestRetransmission, Sending, RetrReq
    <2>3. /\ r.sm \in SmType /\ r.sm.role = self.role /\ r.sm.state = "STATE_RETR_REQ"
          /\ r.sm.snr = self.snr /\ r.sm.snt = Inc(self.snt)
      BY <2>1, <2>2, CountedType DEF SmType
    <2>4. Says(r.sent, "RETRANSMISSION_REQUEST", r.sm.snt)
      BY <2>2, <2>3, SaysConfirming DEF MessageType, Payload
    <2>5. QED
      BY <1>9, <2>3, <2>4
         DEF OutOfSequence, Summary, Speaks, Counts, GoesOn, Running, Rank, Misses,
             Supervised, Waiting
  <1>10. QED
    BY <1>1, <1>2, <1>3, <1>4, <1>5, <1>6, <1>7, <1>8, <1>9 DEF Move

LEMMA HandleEventSummary ==
    ASSUME NEW self \in SmType, NEW now \in Time, NEW rand \in SeqNo,
           NEW event \in Event \ (TimerEvent \cup RetransmissionEvent),
           NEW pdu \in PDU_S, event = "EVENT_SEND_DATA" => pdu \in Frame,
           HandlerSet(self), Regular(self),
           NEW res, res = Sm_HandleEvent(self, now, rand, event, pdu)
    PROVE  Summary(self, rand, event, pdu, res.sm, res.sent)
  <1> DEFINE r == Handled(self, now, rand, event, pdu)
  <1>1. Move(self, now, rand, event, pdu, r)
    BY HandledMove DEF HandlerSet, Regular, SmType
  <1>2. r.sm \in SmType /\ Summary(self, rand, event, pdu, r.sm, r.sent)
    BY <1>1, MoveSummary
  <1>3. res.sm = [r.sm EXCEPT !.handle_event = r.sm.state] /\ res.sent = r.sent
    BY DEF Sm_HandleEvent, TimerEvent
  <1> HIDE DEF r
  <1>4. /\ res.sm.state = r.sm.state /\ res.sm.role = r.sm.role
        /\ res.sm.snt = r.sm.snt /\ res.sm.snr = r.sm.snr
    BY <1>2, <1>3 DEF SmType
  <1>5. QED
    BY <1>2, <1>3, <1>4, ZenonT(40)
       DEF Summary, Speaks, Rests, Counts, Opens, Agrees, Submits, GoesOn, Running,
           Misses, Hears, Supervised, Waiting, Regular
(***************************************************************************)
(* A pass of the timer loop: a heartbeat, or none, by which the context    *)
(* becomes mid, and then the disconnection if Ti has run out.              *)
(***************************************************************************)
Beats(self, mid, sent) ==
    /\ mid.state = self.state
    /\ \/ sent = << >> /\ mid.snt = self.snt
       \/ /\ Says(sent, "HEARTBEAT", mid.snt) /\ mid.snt = Inc(self.snt)
          /\ Running(self)

Passes(self, new, sent) ==
    /\ new.snr = self.snr
    /\ new.state \in {self.state, "STATE_CLOSED"}
    /\ \E mid \in SmType, first \in Seq(Frame), second \in Seq(Frame) :
         /\ sent = first \o second
         /\ Beats(self, mid, first)
         /\ Rests(mid, new, second) \/ Counts(mid, new, second)

LEMMA TimerPassSummary ==
    ASSUME NEW self \in SmType, NEW now \in Time, NEW seq \in SeqNo,
           HandlerSet(self), self.state # "STATE_CLOSED",
           NEW res, res = TimerPass(self, now, seq)
    PROVE  Passes(self, res.sm, res.sent)
  <1> DEFINE counted == [self EXCEPT !.Ti = DecInt32(self.Ti)]
             th == AfterTh(counted, now, seq)
             left == LeftInPdu(th, seq)
             ti == Sm_HandleEvent(th.sm, now, NotDrawn, "EVENT_TI_ELAPSED",
                                  LocalPdu(left))
             both == th.sent \o ti.sent
  <1>1. /\ counted \in SmType /\ HandlerSet(counted)
        /\ counted.snr = self.snr /\ counted.snt = self.snt
        /\ counted.state = self.state
    BY Int32Arithmetic DEF SmType, HandlerSet
  <1>2. res = IF th.sm.Ti <= 0
              THEN [sm |-> ti.sm, sent |-> both] ELSE th
    BY DEF TimerPass
  <1>3. \/ res = th
        \/ res.sm = ti.sm /\ res.sent = both
    <2> HIDE DEF th, ti, both
    <2>1. QED
      BY <1>2
  <1> HIDE DEF counted, both
  <1>4. left \in SeqNo /\ HandlerSet(th.sm)
    BY <1>1, AfterThKept
  <1>5. \/ th.sm = counted /\ th.sent = << >>
        \/ /\ Running(self)
           /\ th.sm = Counted(counted)
           /\ th.sent = <<Confirming(th.sm, now, "HEARTBEAT", NoPayload)>>
    BY <1>1, AfterThIs DEF Sending, HB, Running
  <1> HIDE DEF th
  <1>6. /\ th.sm \in SmType /\ th.sm.state = self.state /\ th.sm.snr = self.snr
        /\ th.sm.snt = IF th.sm = counted THEN self.snt ELSE Inc(self.snt)
    BY <1>1, <1>5, CountedType DEF SmType
  <1>7. Beats(self, th.sm, th.sent)
    <2>1. CASE th.sm = counted /\ th.sent = << >>
      BY <1>6, <2>1 DEF Beats
    <2>2. CASE /\ Running(self) /\ th.sm = Counted(counted)
               /\ th.sent = <<Confirming(th.sm, now, "HEARTBEAT", NoPayload)>>
      <3>1. Says(th.sent, "HEARTBEAT", th.sm.snt)
        BY <1>6, <2>2, SaysConfirming DEF MessageType, Payload
      <3>2. th.sm.snt = Inc(self.snt)
        BY <1>1, <2>2, CountedType DEF SmType
      <3>3. QED
        BY <1>6, <2>2, <3>1, <3>2 DEF Beats
    <2>3. QED
      BY <1>5, <2>1, <2>2
  <1>8. LocalPdu(left) \in PDU_S /\ th.sm.handle_event # "STATE_CLOSED"
    BY <1>4, <1>6, LocalPduType DEF HandlerSet
  <1> HIDE DEF left
  <1>9. /\ ti.sm \in SmType /\ ti.sm.state = "STATE_CLOSED"
        /\ ti.sm.snr = self.snr /\ ti.sm.snt = Inc(th.sm.snt)
        /\ \E reason \in DiscReasonType :
             ti.sent = Sending(ti.sm, DiscReq(ti.sm, now, reason)).sent
    BY <1>6, <1>8, TimeoutIs
  <1> HIDE DEF ti
  <1>10. Says(ti.sent, "DISCONNECTION_REQUEST", ti.sm.snt)
    <2>1. PICK reason \in DiscReasonType :
            ti.sent = <<Confirming(ti.sm, now, "DISCONNECTION_REQUEST", reason)>>
      BY <1>9 DEF Sending, DiscReq
    <2>2. QED
      BY <1>9, <2>1, SaysConfirming DEF MessageType, Payload
  <1>11. Counts(th.sm, ti.sm, ti.sent)
    BY <1>6, <1>9, <1>10 DEF Counts, GoesOn, Running, Rank, SmType, State
  <1>12. th.sent \in Seq(Frame) /\ ti.sent \in Seq(Frame)
    <2>1. << >> \in Seq(Frame)
      OBVIOUS
    <2>2. QED
      BY <1>7, <1>10, <2>1, SaysFrame, Zenon DEF Beats
  <1>13. CASE res = th
    <2>1. th.sent = th.sent \o << >> /\ << >> \in Seq(Frame)
      BY <1>12, ConcatEmptySeq
    <2>2. Rests(th.sm, th.sm, << >>)
      BY DEF Rests, GoesOn
    <2>3. QED
      BY <1>6, <1>7, <1>12, <1>13, <2>1, <2>2 DEF Passes
  <1>14. CASE res.sm = ti.sm /\ res.sent = both
    BY <1>6, <1>7, <1>9, <1>11, <1>12, <1>14 DEF both, Passes
  <1>15. QED
    BY <1>3, <1>13, <1>14
-----------------------------------------------------------------------------
(***************************************************************************)
(* The steps of Link in these terms.  r handles an event, its queue has    *)
(* become inbox, and it adds the frames sent to the queue of its peer.     *)
(***************************************************************************)
Moves(r, inbox, sent) ==
    /\ sm'[Peer(r)] = sm[Peer(r)]
    /\ net'[r] = inbox
    /\ net'[Peer(r)] = net[Peer(r)] \o sent

Handles(r, self, rand, event, pdu, inbox, sent) ==
    /\ Moves(r, inbox, sent)
    /\ Summary(self, rand, event, pdu, sm'[r], sent)

LEMMA EventIs ==
    ASSUME Inv, NEW r \in SmRole, Regular(sm[r]),
           NEW n \in SeqNo, NEW self, self = [sm[r] EXCEPT !.snt = n],
           NEW rand \in SeqNo,
           NEW event \in Event \ (TimerEvent \cup RetransmissionEvent),
           NEW pdu \in PDU_S, event = "EVENT_SEND_DATA" => pdu \in Frame,
           NEW res, res = Sm_HandleEvent(self, Now(r), rand, event, pdu),
           NEW inbox, Call(r, res, inbox)
    PROVE  Handles(r, self, rand, event, pdu, inbox, res.sent)
  <1>1. sm \in [SmRole -> SmType] /\ clock \in [SmRole -> Nat] /\ HandlerSet(sm[r])
    BY DEF Inv, TypeOK, ContextSound
  <1>2. self \in SmType /\ HandlerSet(self) /\ Regular(self)
    BY <1>1 DEF SmType, HandlerSet, Regular
  <1>3. Now(r) \in Time
    BY <1>1, NowTells, ClockArithmetic DEF NowAt, Now
  <1>4. Summary(self, rand, event, pdu, res.sm, res.sent)
    BY <1>2, <1>3, HandleEventSummary
  <1>5. sm'[r] = res.sm /\ Moves(r, inbox, res.sent)
    BY <1>1, CallIs, Zenon DEF Inv, Moves
  <1>6. QED
    BY <1>4, <1>5 DEF Handles

LEMMA OpenConnectionIs ==
    ASSUME Inv, NEW r \in SmRole, Regular(sm[r]), OpenConnection(r)
    PROVE  \E rand \in SeqNo : \E sent :
             Handles(r, sm[r], rand, "EVENT_OPEN_CONN", LocalPdu(0), net[r], sent)
  <1>1. PICK rand \in SntValues[r] :
          Call(r, SafeCom_OpenConnection_Impl(sm[r], Now(r), rand), net[r])
    BY DEF OpenConnection
  <1> DEFINE res == SafeCom_OpenConnection_Impl(sm[r], Now(r), rand)
  <1>2. rand \in SeqNo /\ sm[r] \in SmType /\ sm[r].snt \in SeqNo
    BY LinkAssumption DEF Inv, TypeOK, SmType
  <1>3. Handles(r, sm[r], rand, "EVENT_OPEN_CONN", LocalPdu(0), net[r], res.sent)
    BY <1>1, <1>2, SelfIs, EventIs, ServicePdu
       DEF SafeCom_OpenConnection_Impl, Event, TimerEvent, RetransmissionEvent
  <1>4. QED
    BY <1>2, <1>3

LEMMA CloseConnectionIs ==
    ASSUME Inv, NEW r \in SmRole, Regular(sm[r]), CloseConnection(r)
    PROVE  \E sent : Handles(r, sm[r], NotDrawn, "EVENT_CLOSE_CONN", LocalPdu(0),
                             net[r], sent)
  <1> DEFINE res == SafeCom_CloseConnection_Impl(sm[r], Now(r))
  <1>1. sm[r] \in SmType /\ sm[r].snt \in SeqNo /\ Call(r, res, net[r])
    BY DEF Inv, TypeOK, SmType, CloseConnection
  <1>2. Handles(r, sm[r], NotDrawn, "EVENT_CLOSE_CONN", LocalPdu(0), net[r], res.sent)
    BY <1>1, SelfIs, EventIs, ServicePdu, NoNumbersDrawn
       DEF SafeCom_CloseConnection_Impl, Event, TimerEvent, RetransmissionEvent
  <1>3. QED
    BY <1>2

\* SendData counts the message, then raises the event; the message is in sub
\* if and only if its frame is sent.
LEMMA SendDataIs ==
    ASSUME Inv, NEW r \in SmRole, Regular(sm[r]), SendData(r)
    PROVE  \E msg \in AppData, pdu \in Frame : \E sent :
             /\ pdu.message_type = "DATA" /\ pdu.payload = msg
             /\ pdu.sequence_number = Inc(sm[r].snt)
             /\ Handles(r, Counted(sm[r]), NotDrawn, "EVENT_SEND_DATA", pdu,
                        net[r], sent)
             /\ sub' = [sub EXCEPT ![r] =
                          IF sent = <<pdu>> THEN Append(sub[r], msg) ELSE sub[r]]
  <1> DEFINE msg == Script[r][asked'[r]]
             self == Counted(sm[r])
             pdu == Data(self, Now(r), msg)
             res == SafeCom_SendData_Impl(sm[r], Now(r), msg)
             sent == \E i \in DOMAIN res.sent : res.sent[i].message_type = "DATA"
  <1>1. /\ sm[r] \in SmType /\ clock \in [SmRole -> Nat]
        /\ asked \in [SmRole -> 0 .. MaxSends] /\ asked[r] \in Nat
    BY LinkAssumption DEF Inv, TypeOK
  <1>2. asked'[r] = asked[r] + 1
    BY <1>1 DEF SendData
  <1>3. msg \in AppData
    <2>1. Script[r] \in Seq(AppData)
      BY LinkAssumption
    <2>2. asked'[r] \in 1 .. Len(Script[r])
      BY <1>1, <1>2, <2>1, LenProperties DEF SendData
    <2>3. QED
      BY <2>1, <2>2, ElementOfSeq
  <1>4. /\ Call(r, res, net[r])
        /\ sub' = [sub EXCEPT ![r] = IF sent THEN Append(sub[r], msg) ELSE sub[r]]
    BY Zenon DEF SendData
  <1>5. /\ self \in SmType /\ self = [sm[r] EXCEPT !.snt = Inc(sm[r].snt)]
        /\ Inc(sm[r].snt) \in SeqNo /\ self.snt = Inc(sm[r].snt)
    BY <1>1, CountedType, SeqArithmetic DEF SmType
  <1>6. Now(r) \in Time
    BY <1>1, NowTells, ClockArithmetic DEF NowAt, Now
  <1>7. /\ pdu.message_type = "DATA" /\ pdu.payload = msg
        /\ pdu.sequence_number = Inc(sm[r].snt)
    BY <1>5 DEF Data, Confirming
  <1>8. pdu \in Frame /\ pdu \in PDU_S
    BY <1>3, <1>5, <1>6 DEF Data, Confirming, Frame, PduOf, PDU_S, SmType,
                            MessageType, Payload
  <1>9. res = Sm_HandleEvent(self, Now(r), NotDrawn, "EVENT_SEND_DATA", pdu)
    BY DEF SafeCom_SendData_Impl
  <1> HIDE DEF res, pdu, msg
  <1>10. Handles(r, self, NotDrawn, "EVENT_SEND_DATA", pdu, net[r], res.sent)
    BY <1>4, <1>5, <1>8, <1>9, EventIs, NoNumbersDrawn
       DEF Event, TimerEvent, RetransmissionEvent, ReceiptEvent
  <1>11. sent <=> res.sent = <<pdu>>
    <2>1. Speaks(self, NotDrawn, "EVENT_SEND_DATA", pdu, sm'[r], res.sent)
      BY <1>10 DEF Handles, Summary
    <2>2. \/ res.sent = << >> \/ res.sent = <<pdu>>
          \/ \E f \in Frame : res.sent = <<f>> /\ f.message_type # "DATA"
      BY <2>1 DEF Speaks, Rests, Counts, Opens, Agrees, Submits, Says
    <2>3. QED
      BY <1>7, <2>2
  <1>12. sub' = [sub EXCEPT ![r] =
                   IF res.sent = <<pdu>> THEN Append(sub[r], msg) ELSE sub[r]]
    BY <1>4, <1>11, Zenon
  <1>13. QED
    BY <1>3, <1>7, <1>8, <1>10, <1>12

LEMMA ReceiveIs ==
    ASSUME Inv, NEW r \in SmRole, Regular(sm[r]), Receive(r)
    PROVE  \E i \in DOMAIN net[r], kept \in BOOLEAN : \E sent :
             /\ Reordering \/ i = 1
             /\ Duplicating \/ ~kept
             /\ Handles(r, sm[r], NotDrawn, EventOf[net[r][i].message_type], net[r][i],
                        IF kept THEN net[r] ELSE RemoveAt(net[r], i), sent)
             /\ del' = [del EXCEPT ![r] =
                          IF net[r][i].message_type = "DATA" /\ sm'[r].snr # sm[r].snr
                          THEN Append(del[r], net[r][i].payload) ELSE del[r]]
  <1>1. PICK i \in DOMAIN net[r], kept \in BOOLEAN :
          LET frame == net[r][i]
              res == ReceiveMsg(sm[r], Now(r), frame)
              taken == frame.message_type = "DATA" /\ res.sm.snr # sm[r].snr
          IN  /\ Reordering \/ i = 1
              /\ Duplicating \/ ~kept
              /\ Call(r, res, IF kept THEN net[r] ELSE RemoveAt(net[r], i))
              /\ del' = [del EXCEPT ![r] =
                           IF taken THEN Append(@, frame.payload) ELSE @]
    BY Zenon DEF Receive
  <1> DEFINE frame == net[r][i]
             event == EventOf[frame.message_type]
             res == ReceiveMsg(sm[r], Now(r), frame)
             inbox == IF kept THEN net[r] ELSE RemoveAt(net[r], i)
  <1>2. /\ Reordering \/ i = 1
        /\ Duplicating \/ ~kept
        /\ Call(r, res, inbox)
        /\ del' = [del EXCEPT ![r] =
                     IF frame.message_type = "DATA" /\ res.sm.snr # sm[r].snr
                     THEN Append(del[r], frame.payload) ELSE del[r]]
    BY <1>1, Zenon
  <1>3. /\ sm \in [SmRole -> SmType] /\ sm[r] \in SmType /\ sm[r].snt \in SeqNo
        /\ net[r] \in Seq(SoundAt(clock))
    BY DEF Inv, TypeOK, SmType
  <1>4. frame \in SoundAt(clock)
    BY <1>3, LenProperties, ElementOfSeq
  <1>5. frame \in PDU_S /\ event \in ReceiptEvent \ RetransmissionEvent
    BY <1>4, SoundFrame DEF RetransmissionEvent
  <1>6. res = Sm_HandleEvent(sm[r], Now(r), NotDrawn, event, frame)
    BY DEF ReceiveMsg
  <1>7. sm'[r] = res.sm
    BY <1>2, <1>3, CallIs, Zenon DEF Inv
  <1> HIDE DEF res, inbox, frame
  <1>8. Handles(r, sm[r], NotDrawn, event, frame, inbox, res.sent)
    BY <1>2, <1>3, <1>5, <1>6, SelfIs, EventIs, NoNumbersDrawn
       DEF Event, TimerEvent, ReceiptEvent
  <1>9. QED
    BY <1>2, <1>7, <1>8, Zenon DEF frame, inbox

LEMMA TickIs ==
    ASSUME Inv, NEW r \in SmRole, Tick(r)
    PROVE  \E sent : Moves(r, net[r], sent) /\ Passes(sm[r], sm'[r], sent)
  <1> DEFINE now == Later(Now(r))
             res == TimerPass(sm[r], now, scratch[r])
  <1>1. /\ sm \in [SmRole -> SmType] /\ sm[r] \in SmType /\ HandlerSet(sm[r])
        /\ clock \in [SmRole -> Nat] /\ scratch[r] \in SeqNo
        /\ net \in [SmRole -> Seq(Frame)]
    BY DEF Inv, TypeOK, ContextSound
  <1>2. now \in Time
    BY <1>1, NowTells, ClockArithmetic DEF NowAt, Now
  <1>3. Call(r, res, net[r]) /\ sm[r].state # "STATE_CLOSED"
    BY Zenon DEF Tick
  <1> HIDE DEF now
  <1>4. Passes(sm[r], res.sm, res.sent)
    BY <1>1, <1>2, <1>3, TimerPassSummary
  <1> HIDE DEF res
  <1>5. sm'[r] = res.sm /\ Moves(r, net[r], res.sent)
    BY <1>1, <1>3, CallIs DEF Moves
  <1>6. QED
    BY <1>4, <1>5, Zenon
-----------------------------------------------------------------------------
(***************************************************************************)
(* A network that keeps every frame in order.  q holds the frames from the *)
(* endpoint s to the endpoint c.  A heartbeat or a message has the number  *)
(* after that of the frame before it, or the number that c expects, and    *)
(* what s sends next will have too, if s may send a heartbeat or a message *)
(* at all.  Frames of an earlier connection do not matter: what comes      *)
(* after them was sent after them, and the frame that starts a connection  *)
(* brings c a new number.                                                  *)
(***************************************************************************)
Ordered == ~Lossy /\ ~Duplicating /\ ~Reordering

Follows(f) == f.message_type \in {"HEARTBEAT", "DATA"}

Expected(q, c, i) == IF i = 1 THEN c.snr ELSE Inc(q[i - 1].sequence_number)

Threaded(q, c, s) ==
    /\ \A i \in 1 .. Len(q) :
         Follows(q[i]) /\ (i > 1 \/ Supervised(c)) =>
           q[i].sequence_number = Expected(q, c, i)
    /\ Running(s) /\ (Len(q) > 0 \/ Supervised(c)) =>
         Inc(s.snt) = Expected(q, c, Len(q) + 1)

LEMMA FirstRemoved ==
    ASSUME NEW S, NEW q \in Seq(S), 1 \in DOMAIN q
    PROVE  /\ RemoveAt(q, 1) \in Seq(S)
           /\ Len(q) \in Nat \ {0}
           /\ Len(RemoveAt(q, 1)) = Len(q) - 1
           /\ \A i \in 1 .. Len(q) - 1 : RemoveAt(q, 1)[i] = q[i + 1]
  <1> DEFINE rest == SubSeq(q, 2, Len(q))
  <1>1. Len(q) \in Nat \ {0}
    BY LenProperties
  <1>2. \A j \in 2 .. Len(q) : q[j] \in S
    BY <1>1, ElementOfSeq
  <1>3. rest \in Seq(S) /\ Len(rest) = Len(q) - 1
        /\ \A i \in 1 .. Len(q) - 1 : rest[i] = q[i + 1]
    <2>1. /\ rest \in Seq(S)
          /\ Len(rest) = IF 2 <= Len(q) THEN Len(q) - 2 + 1 ELSE 0
          /\ \A i \in 1 .. Len(q) - 2 + 1 : rest[i] = q[2 + i - 1]
      BY <1>1, <1>2, SubSeqProperties
    <2> HIDE DEF rest
    <2>2. Len(rest) = Len(q) - 1
      <3>1. Len(rest) = IF 2 <= Len(q) THEN Len(q) - 2 + 1 ELSE 0
        BY <2>1
      <3>2. \A n, k \in Nat : n # 0 /\ k = (IF 2 <= n THEN n - 2 + 1 ELSE 0) => k = n - 1
        OBVIOUS
      <3>3. Len(rest) \in Nat
        BY <2>1, LenProperties
      <3>4. QED
        BY <1>1, <3>1, <3>2, <3>3
    <2>3. ASSUME NEW i \in 1 .. Len(q) - 1 PROVE rest[i] = q[i + 1]
      <3>1. i \in 1 .. Len(q) - 2 + 1 /\ 2 + i - 1 = i + 1
        BY <1>1
      <3>2. QED
        BY <2>1, <3>1
    <2>4. QED
      BY <2>1, <2>2, <2>3
  <1>4. SubSeq(q, 1, 0) = << >>
    BY SubSeqEmpty
  <1>5. RemoveAt(q, 1) = rest
    <2>1. RemoveAt(q, 1) = << >> \o rest
      BY <1>4 DEF RemoveAt
    <2> HIDE DEF rest
    <2>2. << >> \o rest = rest
      BY <1>3, ConcatEmptySeq
    <2>3. QED
      BY <2>1, <2>2
  <1> HIDE DEF rest
  <1>6. QED
    BY <1>1, <1>3, <1>5

LEMMA ThreadGrows ==
    ASSUME NEW q \in Seq(Frame), NEW f \in Frame, NEW c, NEW s, NEW t,
           Threaded(q, c, s),
           Follows(f) => Running(s) /\ f.sequence_number = Inc(s.snt),
           Running(t) => t.snt = f.sequence_number
    PROVE  Threaded(q \o <<f>>, c, t)
  <1> DEFINE p == q \o <<f>>
  <1>1. /\ Len(q) \in Nat /\ Len(p) = Len(q) + 1
        /\ \A i \in 1 .. Len(q) : p[i] = q[i]
        /\ p[Len(q) + 1] = f
    BY LenProperties
  <1> HIDE DEF p
  <1>2. \A i \in 1 .. Len(q) + 1 : Expected(p, c, i) = Expected(q, c, i)
    BY <1>1 DEF Expected
  <1>3. ASSUME NEW i \in 1 .. Len(p), Follows(p[i]), i > 1 \/ Supervised(c)
        PROVE  p[i].sequence_number = Expected(p, c, i)
    <2>1. CASE i \in 1 .. Len(q)
      BY <1>1, <1>2, <1>3, <2>1 DEF Threaded
    <2>2. CASE i = Len(q) + 1
      BY <1>1, <1>2, <1>3, <2>2 DEF Threaded
    <2>3. QED
      BY <1>1, <2>1, <2>2
  <1>4. Running(t) => Inc(t.snt) = Expected(p, c, Len(p) + 1)
    BY <1>1 DEF Expected
  <1>5. Threaded(p, c, t)
    BY <1>3, <1>4 DEF Threaded
  <1>6. QED
    BY <1>5 DEF p

LEMMA ThreadShrinks ==
    ASSUME NEW q \in Seq(Frame), 1 \in DOMAIN q, NEW c, NEW d, NEW s,
           Threaded(q, c, s),
           Supervised(d) => d.snr = Inc(q[1].sequence_number)
    PROVE  Threaded(RemoveAt(q, 1), d, s)
  <1> DEFINE p == RemoveAt(q, 1)
  <1>1. /\ Len(q) \in Nat \ {0} /\ Len(p) = Len(q) - 1
        /\ \A i \in 1 .. Len(q) - 1 : p[i] = q[i + 1]
    BY FirstRemoved
  <1> HIDE DEF p
  <1>2. ASSUME NEW i \in 1 .. Len(q), i > 1 \/ Supervised(d)
        PROVE  Expected(p, d, i) = Expected(q, c, i + 1)
    BY <1>1, <1>2 DEF Expected
  <1>3. ASSUME NEW i \in 1 .. Len(p), Follows(p[i]), i > 1 \/ Supervised(d)
        PROVE  p[i].sequence_number = Expected(p, d, i)
    <2>1. i \in 1 .. Len(q) /\ i + 1 \in 1 .. Len(q) /\ i + 1 > 1 /\ p[i] = q[i + 1]
      BY <1>1
    <2>2. QED
      BY <1>2, <1>3, <2>1 DEF Threaded
  <1>4. ASSUME Running(s), Len(p) > 0 \/ Supervised(d)
        PROVE  Inc(s.snt) = Expected(p, d, Len(p) + 1)
    <2>1. Len(p) + 1 = Len(q) /\ Len(q) > 0 /\ Len(q) \in 1 .. Len(q)
      BY <1>1
    <2>2. Expected(p, d, Len(q)) = Expected(q, c, Len(q) + 1)
      BY <1>1, <1>2, <1>4, <2>1
    <2>3. QED
      BY <1>4, <2>1, <2>2 DEF Threaded
  <1>5. Threaded(p, d, s)
    BY <1>3, <1>4 DEF Threaded
  <1>6. QED
    BY <1>5 DEF p

LEMMA ThreadKept ==
    ASSUME NEW q, NEW c, NEW d, NEW s, NEW t, Threaded(q, c, s),
           Supervised(d) => Supervised(c) /\ d.snr = c.snr,
           Running(t) => Running(s) /\ t.snt = s.snt
    PROVE  Threaded(q, d, t)
  BY DEF Threaded, Expected

LEMMA ThreadSaid ==
    ASSUME NEW q \in Seq(Frame), NEW c, NEW s, NEW t, NEW sent, NEW type, NEW n,
           Threaded(q, c, s), Says(sent, type, n),
           type \in {"HEARTBEAT", "DATA"} => Running(s) /\ n = Inc(s.snt),
           Running(t) => t.snt = n
    PROVE  Threaded(q \o sent, c, t) /\ q \o sent \in Seq(Frame)
  <1>1. PICK f \in Frame :
          sent = <<f>> /\ f.message_type = type /\ f.sequence_number = n
    BY DEF Says
  <1>2. Threaded(q \o <<f>>, c, t)
    BY <1>1, ThreadGrows DEF Follows
  <1>3. QED
    BY <1>1, <1>2

LEMMA ThreadRests ==
    ASSUME NEW q \in Seq(Frame), NEW c, NEW s, NEW t, NEW sent,
           Threaded(q, c, s), sent = << >>,
           Running(t) => Running(s) /\ t.snt = s.snt
    PROVE  Threaded(q \o sent, c, t) /\ q \o sent \in Seq(Frame)
  <1>1. q \o sent = q
    BY ConcatEmptySeq
  <1>2. Threaded(q, c, t)
    BY ThreadKept, Zenon
  <1>3. QED
    BY <1>1, <1>2

LEMMA ThreadSpeaks ==
    ASSUME NEW q \in Seq(Frame), NEW c, NEW s, NEW rand, NEW event, NEW pdu,
           NEW t, NEW sent, Threaded(q, c, s), event # "EVENT_SEND_DATA",
           Speaks(s, rand, event, pdu, t, sent)
    PROVE  Threaded(q \o sent, c, t)
  <1>1. CASE Rests(s, t, sent)
    BY <1>1, ThreadRests DEF Rests, GoesOn
  <1>2. CASE Counts(s, t, sent)
    BY <1>2, ThreadSaid, Zenon DEF Counts
  <1>3. CASE Opens(s, rand, event, t, sent)
    <2>1. CASE t.state = "STATE_DOWN" /\ sent = << >>
      BY <2>1, ThreadRests DEF Running
    <2>2. CASE Says(sent, "CONNECTION_REQUEST", t.snt)
      BY <2>2, ThreadSaid
    <2>3. QED
      BY <1>3, <2>1, <2>2 DEF Opens
  <1>4. CASE Agrees(s, t, sent)
    BY <1>4, ThreadSaid DEF Agrees
  <1>5. QED
    BY <1>1, <1>2, <1>3, <1>4 DEF Speaks, Submits

LEMMA ThreadSendsData ==
    ASSUME NEW q \in Seq(Frame), NEW c, NEW s \in SmType, NEW rand, NEW pdu \in Frame,
           NEW t, NEW sent, Threaded(q, c, s),
           pdu.sequence_number = Inc(s.snt),
           Summary(Counted(s), rand, "EVENT_SEND_DATA", pdu, t, sent)
    PROVE  Threaded(q \o sent, c, t)
  <1> DEFINE self == Counted(s)
             event == "EVENT_SEND_DATA"
  <1>1. self.state = s.state /\ self.snt = Inc(s.snt)
    BY CountedType DEF SmType
  <1>2. /\ Speaks(self, rand, event, pdu, t, sent)
        /\ Running(t) => Submits(self, event, pdu, t, sent)
    BY DEF Summary, Running
  <1> HIDE DEF self
  <1>3. CASE Submits(self, event, pdu, t, sent)
    <2>1. sent = <<pdu>> /\ Running(s) /\ t.snt = pdu.sequence_number
      BY <1>1, <1>3 DEF Submits, Running
    <2>2. QED
      BY <2>1, ThreadGrows
  <1>4. CASE ~Running(t)
    <2>1. CASE sent = << >>
      BY <1>4, <2>1, ThreadRests
    <2>2. CASE \/ Says(sent, "DISCONNECTION_REQUEST", t.snt)
               \/ Says(sent, "RETRANSMISSION_REQUEST", t.snt)
               \/ Says(sent, "CONNECTION_REQUEST", t.snt)
               \/ Says(sent, "CONNECTION_RESPONSE", t.snt)
      BY <1>4, <2>2, ThreadSaid
    <2>3. QED
      BY <1>2, <1>3, <1>4, <2>1, <2>2
         DEF Speaks, Rests, Counts, Opens, Agrees
  <1>5. QED
    BY <1>2, <1>3, <1>4
LEMMA ThreadPass ==
    ASSUME NEW q \in Seq(Frame), NEW c, NEW s, NEW t, NEW sent,
           Threaded(q, c, s), Passes(s, t, sent)
    PROVE  Threaded(q \o sent, c, t)
  <1>1. PICK mid \in SmType, first \in Seq(Frame), second \in Seq(Frame) :
          /\ sent = first \o second
          /\ Beats(s, mid, first)
          /\ Rests(mid, t, second) \/ Counts(mid, t, second)
    BY DEF Passes
  <1> DEFINE p == q \o first
  <1>2. Threaded(p, c, mid) /\ p \in Seq(Frame)
    <2>1. CASE first = << >> /\ mid.snt = s.snt
      <3>1. Running(mid) => Running(s) /\ mid.snt = s.snt
        BY <1>1, <2>1 DEF Beats, Running
      <3>2. QED
        BY <2>1, <3>1, ThreadRests, Zenon
    <2>2. CASE Says(first, "HEARTBEAT", mid.snt) /\ mid.snt = Inc(s.snt) /\ Running(s)
      BY <2>2, ThreadSaid, Zenon
    <2>3. QED
      BY <1>1, <2>1, <2>2 DEF Beats
  <1> HIDE DEF p
  <1>3. Threaded(p \o second, c, t)
    <2>1. Speaks(mid, 0, "EVENT_TI_ELAPSED", 0, t, second)
      BY <1>1 DEF Speaks
    <2>2. QED
      BY <1>2, <2>1, ThreadSpeaks
  <1>4. q \o sent = p \o second
    <2>1. (q \o first) \o second = q \o (first \o second)
      BY ConcatAssociative
    <2>2. QED
      BY <1>1, <2>1, Zenon DEF p
  <1>5. QED
    BY <1>3, <1>4, Zenon

(***************************************************************************)
(* The inductive invariant for such a network, and what a step of r has to *)
(* show: the peer's context is not touched.                                *)
(***************************************************************************)
OrderedInv ==
    /\ Ordered
    /\ Inv
    /\ \A r \in SmRole : /\ Regular(sm[r]) /\ sm[r].state # "STATE_RETR_REQ"
                         /\ Threaded(net[r], sm[r], sm[Peer(r)])

StaysThreaded(r) ==
    /\ Regular(sm'[r]) /\ sm'[r].state # "STATE_RETR_REQ"
    /\ sm'[Peer(r)] = sm[Peer(r)]
    /\ Threaded(net'[r], sm'[r], sm[Peer(r)])
    /\ Threaded(net'[Peer(r)], sm[Peer(r)], sm'[r])

LEMMA PeerOfPeer ==
    ASSUME NEW r \in SmRole
    PROVE  Peer(Peer(r)) = r
  BY PeerOf

LEMMA OrderedFacts ==
    ASSUME OrderedInv, NEW r \in SmRole
    PROVE  /\ Inv /\ Regular(sm[r]) /\ sm[r].state # "STATE_RETR_REQ"
           /\ sm[r] \in SmType
           /\ net[r] \in Seq(Frame) /\ net[Peer(r)] \in Seq(Frame)
           /\ Threaded(net[r], sm[r], sm[Peer(r)])
           /\ Threaded(net[Peer(r)], sm[Peer(r)], sm[r])
  BY PeerOf, PeerOfPeer DEF OrderedInv, Inv, TypeOK

\* An event that no frame caused.
LEMMA LocalEventThreaded ==
    ASSUME OrderedInv, NEW r \in SmRole, NEW n \in SeqNo,
           NEW self, self = [sm[r] EXCEPT !.snt = n],
           NEW rand, NEW event, event \notin ReceiptEvent, NEW pdu, NEW sent,
           Handles(r, self, rand, event, pdu, net[r], sent),
           Threaded(net[Peer(r)] \o sent, sm[Peer(r)], sm'[r])
    PROVE  StaysThreaded(r)
  <1>1. /\ sm[r] \in SmType /\ sm[r].state # "STATE_RETR_REQ"
        /\ Threaded(net[r], sm[r], sm[Peer(r)])
    BY OrderedFacts
  <1>2. /\ self.state = sm[r].state /\ self.snr = sm[r].snr
        /\ Supervised(self) <=> Supervised(sm[r])
    BY <1>1 DEF SmType, Supervised
  <1>3. /\ Regular(sm'[r]) /\ Moves(r, net[r], sent)
        /\ Misses(self, event, pdu, sm'[r])
    BY DEF Handles, Summary, Hears, ReceiptEvent
  <1>4. /\ sm'[r].state # "STATE_RETR_REQ"
        /\ Supervised(sm'[r]) => Supervised(sm[r]) /\ sm'[r].snr = sm[r].snr
    BY <1>1, <1>2, <1>3 DEF Misses, ReceiptEvent
  <1>5. Threaded(net[r], sm'[r], sm[Peer(r)])
    BY <1>1, <1>4, ThreadKept, Zenon
  <1>6. QED
    BY <1>3, <1>4, <1>5, Zenon DEF StaysThreaded, Moves

LEMMA ServiceThreaded ==
    ASSUME OrderedInv, NEW r \in SmRole, NEW rand, NEW event,
           event \notin ReceiptEvent, event # "EVENT_SEND_DATA", NEW pdu, NEW sent,
           Handles(r, sm[r], rand, event, pdu, net[r], sent)
    PROVE  StaysThreaded(r)
  <1>1. /\ sm[r] \in SmType /\ net[Peer(r)] \in Seq(Frame)
        /\ Threaded(net[Peer(r)], sm[Peer(r)], sm[r])
    BY OrderedFacts
  <1>2. sm[r] = [sm[r] EXCEPT !.snt = sm[r].snt] /\ sm[r].snt \in SeqNo
    BY <1>1, SelfIs DEF SmType
  <1>3. Speaks(sm[r], rand, event, pdu, sm'[r], sent)
    BY DEF Handles, Summary
  <1>4. Threaded(net[Peer(r)] \o sent, sm[Peer(r)], sm'[r])
    BY <1>1, <1>3, ThreadSpeaks
  <1>5. QED
    BY <1>2, <1>4, LocalEventThreaded

LEMMA SendDataThreaded ==
    ASSUME OrderedInv, NEW r \in SmRole, SendData(r)
    PROVE  StaysThreaded(r)
  <1>1. /\ sm[r] \in SmType /\ net[Peer(r)] \in Seq(Frame)
        /\ Inv /\ Regular(sm[r])
        /\ Threaded(net[Peer(r)], sm[Peer(r)], sm[r])
    BY OrderedFacts
  <1>2. PICK pdu, sent :
          /\ pdu \in Frame
          /\ pdu.sequence_number = Inc(sm[r].snt)
          /\ Handles(r, Counted(sm[r]), NotDrawn, "EVENT_SEND_DATA", pdu, net[r], sent)
    BY <1>1, SendDataIs, Zenon
  <1> pdu \in Frame
    BY <1>2
  <1>3. Summary(Counted(sm[r]), NotDrawn, "EVENT_SEND_DATA", pdu, sm'[r], sent)
    BY <1>2 DEF Handles
  <1>4. Threaded(net[Peer(r)] \o sent, sm[Peer(r)], sm'[r])
    BY <1>1, <1>2, <1>3, ThreadSendsData
  <1>5. Counted(sm[r]) = [sm[r] EXCEPT !.snt = Inc(sm[r].snt)] /\ Inc(sm[r].snt) \in SeqNo
    BY <1>1, CountedType, SeqArithmetic DEF SmType
  <1>6. "EVENT_SEND_DATA" \notin ReceiptEvent
    BY DEF ReceiptEvent
  <1>7. QED
    BY <1>2, <1>4, <1>5, <1>6, LocalEventThreaded

LEMMA ReceiveThreaded ==
    ASSUME OrderedInv, NEW r \in SmRole, Receive(r)
    PROVE  StaysThreaded(r)
  <1>1. /\ net[r] \in Seq(Frame) /\ net[Peer(r)] \in Seq(Frame)
        /\ Inv /\ Regular(sm[r]) /\ sm[r].state # "STATE_RETR_REQ"
        /\ Threaded(net[r], sm[r], sm[Peer(r)])
        /\ Threaded(net[Peer(r)], sm[Peer(r)], sm[r])
    BY OrderedFacts
  <1>2. ~Reordering /\ ~Duplicating
    BY DEF OrderedInv, Ordered
  <1> DEFINE frame == net[r][1]
             event == EventOf[frame.message_type]
  <1>3. 1 \in DOMAIN net[r]
        /\ \E sent : Handles(r, sm[r], NotDrawn, event, frame, RemoveAt(net[r], 1), sent)
    BY <1>1, <1>2, ReceiveIs, Zenon
  <1>4. PICK sent : Handles(r, sm[r], NotDrawn, event, frame, RemoveAt(net[r], 1), sent)
    BY <1>3
  <1>5. /\ event \in ReceiptEvent /\ event # "EVENT_SEND_DATA"
        /\ event \in {"EVENT_RECV_HB", "EVENT_RECV_DATA"} => Follows(frame)
    <2>1. frame \in Frame /\ frame.message_type \in MessageType
      BY <1>1, <1>3, LenProperties, ElementOfSeq DEF Frame, PduOf
    <2> HIDE DEF frame
    <2>2. QED
      BY <2>1 DEF EventOf, MessageType, ReceiptEvent, Follows
  <1>6. Follows(frame) /\ Supervised(sm[r]) => frame.sequence_number = sm[r].snr
    BY <1>1, <1>3, LenProperties DEF Threaded, Expected
  <1> HIDE DEF event
  <1>7. /\ Regular(sm'[r]) /\ Moves(r, RemoveAt(net[r], 1), sent)
        /\ Speaks(sm[r], NotDrawn, event, frame, sm'[r], sent)
        /\ Misses(sm[r], event, frame, sm'[r]) \/ Hears(sm[r], event, frame, sm'[r])
    BY <1>4 DEF Handles, Summary
  <1> HIDE DEF frame
  <1>8. sm'[r].state # "STATE_RETR_REQ"
    <2>1. ASSUME Misses(sm[r], event, frame, sm'[r]), sm'[r].state = "STATE_RETR_REQ"
          PROVE  FALSE
      <3>1. Supervised(sm[r]) /\ Follows(frame) /\ ~SNinSeq(sm[r], frame)
        BY <1>1, <1>5, <2>1 DEF Misses, Supervised
      <3>2. QED
        BY <1>6, <3>1 DEF SNinSeq
    <2>2. QED
      BY <1>7, <2>1 DEF Hears
  <1>9. Supervised(sm'[r]) => sm'[r].snr = Inc(frame.sequence_number)
    BY <1>5, <1>7, <1>8 DEF Misses, Hears
  <1>10. Threaded(RemoveAt(net[r], 1), sm'[r], sm[Peer(r)])
    BY <1>1, <1>3, <1>9, ThreadShrinks DEF frame
  <1>11. Threaded(net[Peer(r)] \o sent, sm[Peer(r)], sm'[r])
    BY <1>1, <1>5, <1>7, ThreadSpeaks
  <1>12. QED
    BY <1>7, <1>8, <1>10, <1>11, Zenon DEF StaysThreaded, Moves

LEMMA TickThreaded ==
    ASSUME OrderedInv, NEW r \in SmRole, Tick(r)
    PROVE  StaysThreaded(r)
  <1>1. /\ Inv /\ Regular(sm[r]) /\ sm[r].state # "STATE_RETR_REQ"
        /\ net[Peer(r)] \in Seq(Frame)
        /\ Threaded(net[r], sm[r], sm[Peer(r)])
        /\ Threaded(net[Peer(r)], sm[Peer(r)], sm[r])
    BY OrderedFacts
  <1>2. PICK sent : Moves(r, net[r], sent) /\ Passes(sm[r], sm'[r], sent)
    BY <1>1, TickIs, Zenon
  <1>3. /\ sm'[r].snr = sm[r].snr /\ sm'[r].state \in {sm[r].state, "STATE_CLOSED"}
        /\ sm'[r].role = r /\ sm[r].role = r
    <2>1. Inv'
      BY <1>1, NextInv DEF Next
    <2>2. QED
      BY <1>1, <1>2, <2>1 DEF Passes, Inv, ContextSound
  <1>4. /\ Regular(sm'[r]) /\ sm'[r].state # "STATE_RETR_REQ"
        /\ Supervised(sm'[r]) => Supervised(sm[r]) /\ sm'[r].snr = sm[r].snr
    BY <1>1, <1>3 DEF Regular, Supervised
  <1>5. Threaded(net[r], sm'[r], sm[Peer(r)])
    BY <1>1, <1>4, ThreadKept, Zenon
  <1>6. Threaded(net[Peer(r)] \o sent, sm[Peer(r)], sm'[r])
    BY <1>1, <1>2, ThreadPass
  <1>7. QED
    BY <1>2, <1>4, <1>5, <1>6, Zenon DEF StaysThreaded, Moves

LEMMA InitOrdered == Ordered /\ Init => OrderedInv
  <1> SUFFICES ASSUME Ordered, Init, NEW r \in SmRole
               PROVE  /\ Regular(sm[r]) /\ sm[r].state # "STATE_RETR_REQ"
                      /\ Threaded(net[r], sm[r], sm[Peer(r)])
    BY InitInv DEF OrderedInv
  <1>1. net[r] = << >> /\ sm[r].state = "STATE_CLOSED" /\ sm[Peer(r)].state = "STATE_CLOSED"
    BY PeerOf DEF Init, Sm_Init
  <1>2. QED
    BY <1>1 DEF Regular, Threaded, Running

LEMMA NextOrdered == OrderedInv /\ [Next]_vars => OrderedInv'
  <1> SUFFICES ASSUME OrderedInv, [Next]_vars PROVE OrderedInv'
    OBVIOUS
  <1>1. Inv' /\ Ordered
    BY NextInv DEF OrderedInv
  <1>2. CASE UNCHANGED vars
    <2>1. sm' = sm /\ net' = net
      BY <1>2 DEF vars
    <2>2. \A r \in SmRole : /\ Regular(sm[r]) /\ sm[r].state # "STATE_RETR_REQ"
                            /\ Threaded(net[r], sm[r], sm[Peer(r)])
      BY DEF OrderedInv
    <2>3. QED
      BY <1>1, <2>1, <2>2, Zenon DEF OrderedInv
  <1>3. CASE Next
    <2>1. PICK r \in SmRole :
            \/ OpenConnection(r) \/ CloseConnection(r) \/ SendData(r) \/ Receive(r)
            \/ Lose(r) \/ Tick(r) \/ IdleTick(r)
      BY <1>3 DEF Next
    <2>2. /\ Inv /\ Regular(sm[r]) /\ sm[r].state # "STATE_RETR_REQ"
          /\ Threaded(net[r], sm[r], sm[Peer(r)])
          /\ Threaded(net[Peer(r)], sm[Peer(r)], sm[r])
          /\ Regular(sm[Peer(r)]) /\ sm[Peer(r)].state # "STATE_RETR_REQ"
      BY OrderedFacts, PeerOf
    <2>3. StaysThreaded(r)
      <3>1. CASE OpenConnection(r)
        BY <2>2, <3>1, OpenConnectionIs, ServiceThreaded DEF ReceiptEvent
      <3>2. CASE CloseConnection(r)
        BY <2>2, <3>2, CloseConnectionIs, ServiceThreaded DEF ReceiptEvent
      <3>3. CASE Lose(r)
        BY <3>3 DEF Lose, OrderedInv, Ordered
      <3>4. CASE IdleTick(r)
        <4>1. sm' = sm /\ net' = net
          BY <3>4 DEF IdleTick
        <4>2. QED
          BY <2>2, <4>1, Zenon DEF StaysThreaded
      <3>5. QED
        BY <2>1, <3>1, <3>2, <3>3, <3>4, SendDataThreaded, ReceiveThreaded,
           TickThreaded
    <2>4. \A q \in SmRole : /\ Regular(sm'[q]) /\ sm'[q].state # "STATE_RETR_REQ"
                            /\ Threaded(net'[q], sm'[q], sm'[Peer(q)])
      <3>1. Peer(Peer(r)) = r /\ \A q \in SmRole : q = r \/ q = Peer(r)
        BY PeerOf, PeerOfPeer
      <3>2. QED
        BY <2>2, <2>3, <3>1, Zenon DEF StaysThreaded
    <2>5. QED
      BY <1>1, <2>4 DEF OrderedInv
  <1>4. QED
    BY <1>2, <1>3

(***************************************************************************)
(* On a network that keeps every frame in order no endpoint ever asks for  *)
(* a retransmission, whatever numbers are drawn, however often they wrap   *)
(* and however often the connection is closed and opened again.            *)
(***************************************************************************)
THEOREM RequestsAreNeeded == Ordered /\ Spec => []NoNeedlessRequest
  <1>1. OrderedInv => NoNeedlessRequest
    BY DEF OrderedInv, NoNeedlessRequest
  <1>2. QED
    BY <1>1, InitOrdered, NextOrdered, PTL DEF Spec

(***************************************************************************)
(* On such a network two connected endpoints agree on the numbers as soon  *)
(* as nothing is in transit: each expects what the other sends next.       *)
(***************************************************************************)
THEOREM EndsAgree == Ordered /\ Spec => []NumbersAgree
  <1>1. OrderedInv => NumbersAgree
    <2> SUFFICES ASSUME OrderedInv, NEW r \in SmRole,
                        \A q \in SmRole : net[q] = << >> /\ Supervised(sm[q])
                 PROVE  sm[r].snr = Inc(sm[Peer(r)].snt)
      BY DEF NumbersAgree
    <2>1. /\ Threaded(net[r], sm[r], sm[Peer(r)])
          /\ net[r] = << >> /\ Supervised(sm[r]) /\ Running(sm[Peer(r)])
      BY PeerOf, OrderedFacts DEF Supervised, Running
    <2>2. QED
      BY <2>1 DEF Threaded, Expected
  <1>2. QED
    BY <1>1, InitOrdered, NextOrdered, PTL DEF Spec
-----------------------------------------------------------------------------
(***************************************************************************)
(* Any network, one connection: each application opens it at most once,    *)
(* and its numbers are not used up.  (The code has 2^32 of them, and       *)
(* MaxClock + MaxSends + 4 bounds what an endpoint counts: a frame per     *)
(* second, one per call of SendData and the few of the state machine.)     *)
(*                                                                         *)
(* Pos is the place of a number in the connection whose first number is    *)
(* base.  at[i] is the place of the i-th message, last the last place used *)
(* by the sender s, spent the seconds and the calls that pay for it.       *)
(***************************************************************************)
OneConnection == MaxOpens <= 1 /\ MaxClock + MaxSends + 4 < SeqCount

Pos(base, n) == IF n >= base THEN n - base ELSE n - base + SeqCount

Marks(at, n, last) ==
    /\ at \in [1 .. n -> Nat]
    /\ \A i \in 1 .. n : 1 <= at[i] /\ at[i] <= last
    /\ \A i, j \in 1 .. n : i < j => at[i] < at[j]

Placed(base, at, last, said) ==
    {f \in Frame :
       LET k == Pos(base, f.sequence_number)
       IN  /\ k <= last
           /\ f.message_type \in {"CONNECTION_REQUEST", "CONNECTION_RESPONSE"} => k = 0
           /\ f.message_type = "DATA" =>
                \E i \in 1 .. Len(said) : at[i] = k /\ said[i] = f.payload
           /\ f.message_type = "HEARTBEAT" => \A i \in 1 .. Len(said) : at[i] # k}

\* The receiver c has taken in what lies before the place it expects.
Taken(base, at, last, said, c, heard) ==
    /\ Len(heard) <= Len(said)
    /\ \A i \in 1 .. Len(heard) : heard[i] = said[i]
    /\ Supervised(c) =>
         LET k == Pos(base, c.snr)
         IN  /\ 1 <= k /\ k <= last + 1
             /\ \A i \in 1 .. Len(said) : at[i] < k <=> i <= Len(heard)

Flow(base, at, s, said, q, c, heard, spent) ==
    LET last == Pos(base, s.snt)
    IN  /\ Marks(at, Len(said), last)
        /\ last <= spent + Rank(s.state)
        /\ q \in Seq(Placed(base, at, last, said))
        /\ Taken(base, at, last, said, c, heard)

LEMMA PosArithmetic ==
    ASSUME NEW base \in SeqNo, NEW n \in SeqNo
    PROVE  /\ Pos(base, n) \in 0 .. SeqCount - 1
           /\ Pos(base, base) = 0
           /\ Pos(base, n) + 1 < SeqCount => Pos(base, Inc(n)) = Pos(base, n) + 1
  BY SeqCountAssumption DEF SeqNo, Pos, Inc

LEMMA RankBounds ==
    ASSUME NEW state \in State
    PROVE  Rank(state) \in 0 .. 3
  BY DEF Rank, State

\* Nothing that has a place loses it when the sender goes on, with or without
\* a message more.
LEMMA GrowsSilently ==
    ASSUME NEW base, NEW at, NEW last \in Nat, NEW more \in Nat, last <= more,
           NEW said, Len(said) \in Nat, NEW c, c.snr \in SeqNo, base \in SeqNo,
           NEW heard
    PROVE  /\ Placed(base, at, last, said) \subseteq Placed(base, at, more, said)
           /\ Marks(at, Len(said), last) => Marks(at, Len(said), more)
           /\ Taken(base, at, last, said, c, heard) =>
                Taken(base, at, more, said, c, heard)
  <1>1. Placed(base, at, last, said) \subseteq Placed(base, at, more, said)
    <2> SUFFICES ASSUME NEW f \in Placed(base, at, last, said)
                 PROVE  f \in Placed(base, at, more, said)
      OBVIOUS
    <2>1. f \in Frame /\ Pos(base, f.sequence_number) \in 0 .. SeqCount - 1
      BY PosArithmetic DEF Placed, Frame, PduOf
    <2>2. Pos(base, f.sequence_number) <= more
      BY <2>1, SeqCountAssumption DEF Placed
    <2>3. QED
      BY <2>2 DEF Placed
  <1>2. Marks(at, Len(said), last) => Marks(at, Len(said), more)
    BY DEF Marks
  <1>3. Pos(base, c.snr) \in 0 .. SeqCount - 1
    BY PosArithmetic
  <1>4. Taken(base, at, last, said, c, heard) => Taken(base, at, more, said, c, heard)
    BY <1>3, SeqCountAssumption DEF Taken
  <1>5. QED
    BY <1>1, <1>2, <1>4

Marked(at, n, k) == [i \in 1 .. n + 1 |-> IF i <= n THEN at[i] ELSE k]

LEMMA GrowsByMessage ==
    ASSUME NEW base \in SeqNo, NEW last \in Nat, NEW said \in Seq(AppData),
           NEW msg \in AppData, NEW at, Marks(at, Len(said), last),
           NEW c, c.snr \in SeqNo, NEW heard \in Seq(AppData),
           Taken(base, at, last, said, c, heard)
    PROVE  LET at2 == Marked(at, Len(said), last + 1)
               said2 == Append(said, msg)
           IN  /\ Placed(base, at, last, said) \subseteq
                    Placed(base, at2, last + 1, said2)
               /\ Marks(at2, Len(said2), last + 1)
               /\ Taken(base, at2, last + 1, said2, c, heard)
               /\ Len(said2) = Len(said) + 1
               /\ at2[Len(said2)] = last + 1 /\ said2[Len(said2)] = msg
  <1> DEFINE n == Len(said)
             at2 == Marked(at, n, last + 1)
             said2 == Append(said, msg)
  <1>1. n \in Nat /\ Len(heard) \in Nat
    BY LenProperties
  <1>2. /\ said2 \in Seq(AppData) /\ Len(said2) = n + 1
        /\ \A i \in 1 .. n : said2[i] = said[i]
        /\ said2[n + 1] = msg
    BY AppendProperties
  <1>3. /\ at \in [1 .. n -> Nat]
        /\ \A i \in 1 .. n : 1 <= at[i] /\ at[i] <= last
        /\ \A i, j \in 1 .. n : i < j => at[i] < at[j]
    BY DEF Marks
  <1> HIDE DEF said2
  <1>4. /\ at2 \in [1 .. n + 1 -> Nat]
        /\ \A i \in 1 .. n : at2[i] = at[i]
        /\ at2[n + 1] = last + 1
    <2>1. /\ at2 = [i \in 1 .. n + 1 |-> IF i <= n THEN at[i] ELSE last + 1]
          /\ \A i \in 1 .. n + 1 : i <= n => i \in 1 .. n
      BY <1>1 DEF Marked
    <2> HIDE DEF n, at2
    <2>2. QED
      BY <1>1, <1>3, <2>1
  <1> HIDE DEF n, at2
  <1>5. Marks(at2, n + 1, last + 1)
    <2>1. \A i \in 1 .. n + 1 : i \in 1 .. n \/ i = n + 1
      BY <1>1
    <2>2. \A i \in 1 .. n + 1 : 1 <= at2[i] /\ at2[i] <= last + 1
      BY <1>3, <1>4, <2>1
    <2>3. ASSUME NEW i \in 1 .. n + 1, NEW j \in 1 .. n + 1, i < j
          PROVE  at2[i] < at2[j]
      <3>1. i \in 1 .. n
        BY <1>1, <2>3
      <3>2. at2[i] = at[i] /\ at[i] \in Nat /\ at[i] <= last
        BY <1>3, <1>4, <3>1
      <3>3. CASE j \in 1 .. n
        BY <1>3, <1>4, <2>3, <3>1, <3>3
      <3>4. CASE j = n + 1
        BY <1>4, <3>2, <3>4
      <3>5. QED
        BY <2>1, <3>3, <3>4
    <2>4. QED
      BY <1>4, <2>2, <2>3 DEF Marks
  <1>6. ASSUME NEW f \in Placed(base, at, last, said)
        PROVE  f \in Placed(base, at2, last + 1, said2)
    <2> DEFINE k == Pos(base, f.sequence_number)
    <2>1. f \in Frame /\ k \in Nat /\ k <= last
      BY <1>6, PosArithmetic, SeqCountAssumption DEF Placed, Frame, PduOf
    <2>2. f.message_type = "DATA" =>
            \E i \in 1 .. n + 1 : at2[i] = k /\ said2[i] = f.payload
      <3>1. ASSUME f.message_type = "DATA"
            PROVE  \E i \in 1 .. n + 1 : at2[i] = k /\ said2[i] = f.payload
        <4>1. PICK i \in 1 .. n : at[i] = k /\ said[i] = f.payload
          BY <1>6, <3>1 DEF Placed, n
        <4>2. i \in 1 .. n + 1
          BY <1>1
        <4>3. QED
          BY <1>2, <1>4, <4>1, <4>2
      <3>2. QED
        BY <3>1
    <2>3. f.message_type = "HEARTBEAT" => \A i \in 1 .. n + 1 : at2[i] # k
      <3>1. ASSUME f.message_type = "HEARTBEAT", NEW i \in 1 .. n + 1
            PROVE  at2[i] # k
        <4>1. CASE i \in 1 .. n
          BY <1>4, <1>6, <3>1, <4>1 DEF Placed, n
        <4>2. CASE i = n + 1
          BY <1>4, <2>1, <4>2
        <4>3. QED
          BY <1>1, <4>1, <4>2
      <3>2. QED
        BY <3>1
    <2>4. f.message_type \in {"CONNECTION_REQUEST", "CONNECTION_RESPONSE"} => k = 0
      BY <1>6 DEF Placed
    <2>5. k <= last + 1
      BY <2>1
    <2>6. QED
      BY <1>2, <2>1, <2>2, <2>3, <2>4, <2>5 DEF Placed
  <1>7. Taken(base, at2, last + 1, said2, c, heard)
    <2> DEFINE k == Pos(base, c.snr)
    <2>1. k \in Nat
      BY PosArithmetic, SeqCountAssumption
    <2>2. Len(heard) <= n /\ \A i \in 1 .. Len(heard) : heard[i] = said[i]
      BY DEF Taken, n
    <2>3. ASSUME Supervised(c)
          PROVE  /\ 1 <= k /\ k <= last + 1
                 /\ \A i \in 1 .. n : at[i] < k <=> i <= Len(heard)
      BY <2>3 DEF Taken, n
    <2> HIDE DEF k
    <2>4. Len(heard) <= n + 1 /\ \A i \in 1 .. Len(heard) : heard[i] = said2[i]
      BY <1>1, <1>2, <2>2
    <2>5. ASSUME Supervised(c), NEW i \in 1 .. n + 1
          PROVE  at2[i] < k <=> i <= Len(heard)
      <3>1. CASE i \in 1 .. n
        BY <1>4, <2>3, <2>5, <3>1
      <3>2. CASE i = n + 1
        BY <1>1, <1>4, <2>1, <2>2, <2>3, <2>5, <3>2
      <3>3. QED
        BY <1>1, <3>1, <3>2
    <2>6. Supervised(c) => 1 <= k /\ k <= last + 1 + 1
      BY <2>1, <2>3
    <2>7. QED
      BY <1>2, <2>4, <2>5, <2>6 DEF Taken, k
  <1>8. QED
    BY <1>2, <1>4, <1>5, <1>6, <1>7 DEF n, at2, said2

(***************************************************************************)
(* What the sender does to the flow of its messages.  Parts are the types, *)
(* and that there are numbers left.                                        *)
(***************************************************************************)
Parts(base, s, said, c, heard, spent) ==
    /\ base \in SeqNo
    /\ s \in SmType /\ c \in SmType
    /\ said \in Seq(AppData) /\ heard \in Seq(AppData)
    /\ spent \in Nat /\ spent + 4 < SeqCount

LEMMA LastPlace ==
    ASSUME NEW base, NEW at, NEW s, NEW said, NEW q, NEW c, NEW heard, NEW spent,
           Parts(base, s, said, c, heard, spent),
           Flow(base, at, s, said, q, c, heard, spent)
    PROVE  /\ Pos(base, s.snt) \in Nat /\ Rank(s.state) \in 0 .. 3
           /\ Pos(base, s.snt) <= spent + Rank(s.state)
           /\ Pos(base, Inc(s.snt)) = Pos(base, s.snt) + 1
           /\ s.snt \in SeqNo /\ Inc(s.snt) \in SeqNo
  <1>1. s.snt \in SeqNo /\ s.state \in State /\ base \in SeqNo
    BY DEF Parts, SmType
  <1>2. Inc(s.snt) \in SeqNo /\ Rank(s.state) \in 0 .. 3
    BY <1>1, SeqArithmetic, RankBounds
  <1>3. Pos(base, s.snt) \in Nat
    BY <1>1, PosArithmetic, SeqCountAssumption
  <1>4. Pos(base, s.snt) <= spent + Rank(s.state)
    BY DEF Flow
  <1>5. Pos(base, s.snt) + 1 < SeqCount
    BY <1>2, <1>3, <1>4, SeqCountAssumption DEF Parts
  <1>6. QED
    BY <1>1, <1>2, <1>3, <1>4, <1>5, PosArithmetic

LEMMA FlowGoesOn ==
    ASSUME NEW base, NEW at, NEW s, NEW said, NEW q, NEW c, NEW heard, NEW spent,
           Parts(base, s, said, c, heard, spent),
           Flow(base, at, s, said, q, c, heard, spent),
           NEW t, t.snt \in SeqNo, NEW paid \in Nat, NEW sent,
           Pos(base, s.snt) <= Pos(base, t.snt),
           Pos(base, t.snt) <= paid + Rank(t.state),
           sent \in Seq(Placed(base, at, Pos(base, t.snt), said))
    PROVE  Flow(base, at, t, said, q \o sent, c, heard, paid)
  <1> DEFINE last == Pos(base, s.snt)
             more == Pos(base, t.snt)
  <1>1. base \in SeqNo /\ c.snr \in SeqNo /\ Len(said) \in Nat
    BY LenProperties DEF Parts, SmType
  <1>2. last \in Nat /\ more \in Nat
    BY <1>1, LastPlace, PosArithmetic, SeqCountAssumption
  <1>3. /\ Marks(at, Len(said), last)
        /\ q \in Seq(Placed(base, at, last, said))
        /\ Taken(base, at, last, said, c, heard)
    BY DEF Flow
  <1>4. last <= more
    OBVIOUS
  <1> HIDE DEF last
  <1>5. /\ Placed(base, at, last, said) \subseteq Placed(base, at, more, said)
        /\ Marks(at, Len(said), more)
        /\ Taken(base, at, more, said, c, heard)
    <2> HIDE DEF more
    <2>1. QED
      BY <1>1, <1>2, <1>3, <1>4, GrowsSilently
  <1>6. q \in Seq(Placed(base, at, more, said))
    BY <1>3, <1>5, SeqMonotonic
  <1>7. q \o sent \in Seq(Placed(base, at, more, said))
    BY <1>6, JoinedFrames
  <1>8. QED
    BY <1>5, <1>7 DEF Flow

LEMMA FlowRests ==
    ASSUME NEW base, NEW at, NEW s, NEW said, NEW q, NEW c, NEW heard, NEW spent,
           Parts(base, s, said, c, heard, spent),
           Flow(base, at, s, said, q, c, heard, spent),
           NEW t, t.snt = s.snt, t.state \in State, NEW paid \in Nat, spent <= paid,
           Rank(s.state) <= Rank(t.state)
    PROVE  Flow(base, at, t, said, q \o << >>, c, heard, paid)
  <1>1. /\ t.snt \in SeqNo /\ Pos(base, t.snt) = Pos(base, s.snt)
        /\ Pos(base, s.snt) <= Pos(base, t.snt)
        /\ Pos(base, t.snt) <= paid + Rank(t.state)
    BY LastPlace, RankBounds DEF Parts
  <1>2. << >> \in Seq(Placed(base, at, Pos(base, t.snt), said))
    OBVIOUS
  <1>3. QED
    BY <1>1, <1>2, FlowGoesOn

\* The frame with the next number, which is not a message.
LEMMA FlowCounts ==
    ASSUME NEW base, NEW at, NEW s, NEW said, NEW q, NEW c, NEW heard, NEW spent,
           Parts(base, s, said, c, heard, spent),
           Flow(base, at, s, said, q, c, heard, spent),
           NEW t, t.snt = Inc(s.snt), t.state \in State, NEW paid \in Nat,
           spent + Rank(s.state) < paid + Rank(t.state),
           NEW sent, NEW type,
           type \in {"HEARTBEAT", "DISCONNECTION_REQUEST", "RETRANSMISSION_REQUEST"},
           sent = << >> \/ Says(sent, type, t.snt)
    PROVE  Flow(base, at, t, said, q \o sent, c, heard, paid)
  <1> DEFINE last == Pos(base, s.snt)
  <1>1. /\ last \in Nat /\ Pos(base, t.snt) = last + 1 /\ t.snt \in SeqNo
        /\ Rank(s.state) \in Nat /\ Rank(t.state) \in Nat /\ spent \in Nat
        /\ last <= spent + Rank(s.state)
    BY LastPlace, RankBounds DEF Parts
  <1> HIDE DEF last
  <1>2. last <= Pos(base, t.snt) /\ Pos(base, t.snt) <= paid + Rank(t.state)
    BY <1>1
  <1>3. \A i \in 1 .. Len(said) : at[i] # last + 1
    <2>1. Marks(at, Len(said), last)
      BY DEF Flow, last
    <2>2. QED
      BY <1>1, <2>1 DEF Marks
  <1>4. sent \in Seq(Placed(base, at, last + 1, said))
    <2>1. CASE sent = << >>
      BY <2>1
    <2>2. CASE Says(sent, type, t.snt)
      <3>1. PICK f \in Frame :
              sent = <<f>> /\ f.message_type = type /\ f.sequence_number = t.snt
        BY <2>2 DEF Says
      <3>2. f \in Placed(base, at, last + 1, said)
        BY <1>1, <1>3, <3>1 DEF Placed
      <3>3. QED
        BY <3>1, <3>2
    <2>3. QED
      BY <2>1, <2>2
  <1>5. QED
    BY <1>1, <1>2, <1>4, FlowGoesOn DEF last

LEMMA FlowAgrees ==
    ASSUME NEW base, NEW at, NEW s, NEW said, NEW q, NEW c, NEW heard, NEW spent,
           Parts(base, s, said, c, heard, spent),
           Flow(base, at, s, said, q, c, heard, spent),
           NEW t, NEW sent, s.snt = base, t.state \in State, Agrees(s, t, sent)
    PROVE  Flow(base, at, t, said, q \o sent, c, heard, spent)
  <1>1. /\ base \in SeqNo /\ Pos(base, base) = 0 /\ t.snt = base
        /\ spent \in Nat /\ Rank(t.state) \in Nat
    BY PosArithmetic, RankBounds DEF Parts, Agrees
  <1>2. Pos(base, s.snt) <= Pos(base, t.snt) /\ Pos(base, t.snt) <= spent + Rank(t.state)
    BY <1>1
  <1>3. PICK f \in Frame :
          /\ sent = <<f>> /\ f.message_type = "CONNECTION_RESPONSE"
          /\ f.sequence_number = base
    BY <1>1 DEF Agrees, Says
  <1>4. f \in Placed(base, at, 0, said)
    BY <1>1, <1>3 DEF Placed
  <1>5. sent \in Seq(Placed(base, at, Pos(base, t.snt), said))
    BY <1>1, <1>3, <1>4
  <1>6. QED
    BY <1>1, <1>2, <1>5, FlowGoesOn

LEMMA FlowSubmits ==
    ASSUME NEW base, NEW at, NEW s, NEW said, NEW q, NEW c, NEW heard, NEW spent,
           Parts(base, s, said, c, heard, spent),
           Flow(base, at, s, said, q, c, heard, spent),
           NEW t, t.snt = Inc(s.snt), t.state = s.state,
           NEW pdu \in Frame, pdu.message_type = "DATA", pdu.payload \in AppData,
           pdu.sequence_number = t.snt
    PROVE  \E marks : Flow(base, marks, t, Append(said, pdu.payload), q \o <<pdu>>, c,
                           heard, spent + 1)
  <1> DEFINE last == Pos(base, s.snt)
             at2 == Marked(at, Len(said), last + 1)
             said2 == Append(said, pdu.payload)
             places == Placed(base, at2, last + 1, said2)
  <1>1. /\ last \in Nat /\ Pos(base, t.snt) = last + 1
        /\ Rank(t.state) \in Nat /\ last + 1 <= spent + 1 + Rank(t.state)
    BY LastPlace DEF Parts
  <1>2. /\ Marks(at, Len(said), last) /\ Taken(base, at, last, said, c, heard)
        /\ q \in Seq(Placed(base, at, last, said))
    BY DEF Flow
  <1>3. base \in SeqNo /\ c.snr \in SeqNo /\ said \in Seq(AppData) /\ heard \in Seq(AppData)
    BY DEF Parts, SmType
  <1> HIDE DEF last
  <1>4. /\ Placed(base, at, last, said) \subseteq places
        /\ Marks(at2, Len(said2), last + 1)
        /\ Taken(base, at2, last + 1, said2, c, heard)
        /\ Len(said2) = Len(said) + 1
        /\ at2[Len(said2)] = last + 1 /\ said2[Len(said2)] = pdu.payload
    BY <1>1, <1>2, <1>3, GrowsByMessage
  <1>5. Len(said2) \in 1 .. Len(said2)
    BY <1>3, <1>4, LenProperties
  <1> HIDE DEF at2, said2
  <1>6. pdu \in places
    BY <1>1, <1>4, <1>5 DEF Placed
  <1> HIDE DEF places
  <1>7. q \o <<pdu>> \in Seq(places)
    <2>1. q \in Seq(places) /\ <<pdu>> \in Seq(places)
      BY <1>2, <1>4, <1>6, SeqMonotonic
    <2>2. QED
      BY <2>1, JoinedFrames
  <1>8. Flow(base, at2, t, said2, q \o <<pdu>>, c, heard, spent + 1)
    BY <1>1, <1>4, <1>7 DEF Flow, places
  <1>9. QED
    BY <1>8 DEF said2

(***************************************************************************)
(* What the receiver does to it: c becomes d.  Nothing, unless the frame   *)
(* is the first of the connection or the one that it expects.              *)
(***************************************************************************)
LEMMA FlowMisses ==
    ASSUME NEW base, NEW at, NEW s, NEW said, NEW q, NEW c, NEW heard, NEW spent,
           Flow(base, at, s, said, q, c, heard, spent),
           NEW p, p \in Seq(Placed(base, at, Pos(base, s.snt), said)),
           NEW d, d.snr = c.snr, Supervised(d) => Supervised(c)
    PROVE  Flow(base, at, s, said, p, d, heard, spent)
  BY Zenon DEF Flow, Taken

LEMMA FirstTaken ==
    ASSUME NEW base, NEW at, NEW s, NEW said, NEW q, NEW c, NEW heard, NEW spent,
           Parts(base, s, said, c, heard, spent),
           Flow(base, at, s, said, q, c, heard, spent), heard = << >>,
           NEW d, Pos(base, d.snr) = 1
    PROVE  Taken(base, at, Pos(base, s.snt), said, d, heard)
  <1> DEFINE last == Pos(base, s.snt)
  <1>1. last \in Nat /\ Len(said) \in Nat /\ Len(heard) = 0
    BY LastPlace, LenProperties DEF Parts
  <1>2. \A i \in 1 .. Len(said) : at[i] \in Nat /\ 1 <= at[i]
    BY DEF Flow, Marks
  <1> HIDE DEF last
  <1>3. QED
    BY <1>1, <1>2 DEF Taken, last

LEMMA NextTaken ==
    ASSUME NEW base, NEW at, NEW s, NEW said, NEW q, NEW c, NEW heard, NEW spent,
           Parts(base, s, said, c, heard, spent),
           Flow(base, at, s, said, q, c, heard, spent),
           NEW f \in Placed(base, at, Pos(base, s.snt), said),
           Supervised(c), SNinSeq(c, f), f.message_type \in {"HEARTBEAT", "DATA"},
           NEW d, Pos(base, d.snr) = Pos(base, f.sequence_number) + 1
    PROVE  LET last == Pos(base, s.snt)
           IN  IF f.message_type = "DATA"
               THEN /\ Len(heard) + 1 <= Len(said)
                    /\ said[Len(heard) + 1] = f.payload
                    /\ Taken(base, at, last, said, d, Append(heard, f.payload))
               ELSE Taken(base, at, last, said, d, heard)
  <1> DEFINE last == Pos(base, s.snt)
             k == Pos(base, f.sequence_number)
             n == Len(said)
             m == Len(heard)
  <1>1. last \in Nat /\ n \in Nat /\ m \in Nat
    BY LastPlace, LenProperties DEF Parts
  <1>2. k \in Nat /\ k <= last /\ Pos(base, c.snr) = k
    BY PosArithmetic, SeqCountAssumption DEF Placed, Frame, PduOf, SNinSeq, Parts
  <1>3. /\ m <= n /\ \A i \in 1 .. m : heard[i] = said[i]
        /\ \A i \in 1 .. n : at[i] < k <=> i <= m
    BY <1>2 DEF Flow, Taken
  <1>4. /\ at \in [1 .. n -> Nat]
        /\ \A i, j \in 1 .. n : i < j => at[i] < at[j]
    BY DEF Flow, Marks
  <1>5. f.message_type = "DATA" =>
          \E i \in 1 .. n : at[i] = k /\ said[i] = f.payload
    BY DEF Placed
  <1>6. f.message_type = "HEARTBEAT" => \A i \in 1 .. n : at[i] # k
    BY DEF Placed
  <1>7. heard \in Seq(AppData)
    BY DEF Parts
  <1> HIDE DEF last, k, n, m
  <1>8. CASE f.message_type = "DATA"
    <2>1. PICK i \in 1 .. n : at[i] = k /\ said[i] = f.payload
      BY <1>5, <1>8
    <2>2. i = m + 1
      <3>1. ~(i <= m)
        BY <1>2, <1>3, <2>1
      <3>2. ASSUME m + 1 < i PROVE FALSE
        <4>1. m + 1 \in 1 .. n
          BY <1>1, <3>2
        <4>2. at[m + 1] < k
          BY <1>4, <2>1, <3>2, <4>1
        <4>3. QED
          BY <1>1, <1>3, <4>1, <4>2
      <3>3. QED
        BY <1>1, <3>1, <3>2
    <2>3. m + 1 \in 1 .. n /\ at[m + 1] = k /\ said[m + 1] = f.payload
      BY <2>1, <2>2
    <2> DEFINE more == Append(heard, f.payload)
    <2>4. /\ Len(more) = m + 1 /\ more[m + 1] = f.payload
          /\ \A j \in 1 .. m : more[j] = heard[j]
      BY <1>7, AppendProperties DEF m
    <2> HIDE DEF more
    <2>5. ASSUME NEW j \in 1 .. m + 1 PROVE more[j] = said[j]
      <3>1. j \in 1 .. m \/ j = m + 1
        BY <1>1
      <3>2. QED
        BY <1>3, <2>3, <2>4, <3>1
    <2>6. ASSUME NEW j \in 1 .. n PROVE at[j] < k + 1 <=> j <= m + 1
      <3>1. at[j] \in Nat
        BY <1>4
      <3>2. CASE j <= m
        BY <1>1, <1>2, <1>3, <3>1, <3>2
      <3>3. CASE j = m + 1
        BY <1>2, <2>3, <3>3
      <3>4. CASE m + 1 < j
        BY <1>1, <1>2, <1>4, <2>3, <3>1, <3>4
      <3>5. QED
        BY <1>1, <3>2, <3>3, <3>4
    <2>7. Pos(base, d.snr) = k + 1 /\ 1 <= k + 1 /\ k + 1 <= last + 1 /\ m + 1 <= n
      BY <1>1, <1>2, <2>3 DEF k
    <2>8. Taken(base, at, last, said, d, more)
      BY <2>4, <2>5, <2>6, <2>7 DEF Taken, n
    <2>9. QED
      BY <1>8, <2>3, <2>7, <2>8 DEF more, last, m, n
  <1>9. CASE f.message_type = "HEARTBEAT"
    <2>1. ASSUME NEW j \in 1 .. n PROVE at[j] < k + 1 <=> j <= m
      BY <1>2, <1>3, <1>4, <1>6, <1>9
    <2>2. Pos(base, d.snr) = k + 1 /\ 1 <= k + 1 /\ k + 1 <= last + 1
      BY <1>1, <1>2 DEF k
    <2>3. Taken(base, at, last, said, d, heard)
      BY <1>3, <2>1, <2>2 DEF Taken, n, m
    <2>4. QED
      BY <1>9, <2>3 DEF last
  <1>10. QED
    BY <1>8, <1>9

\* The queue of c loses at most the frame f that c takes in.
LEMMA FlowHears ==
    ASSUME NEW base, NEW at, NEW s, NEW said, NEW q, NEW c, NEW heard, NEW spent,
           Parts(base, s, said, c, heard, spent),
           Flow(base, at, s, said, q, c, heard, spent),
           Waiting(c) => heard = << >>,
           NEW i \in DOMAIN q, NEW f \in Frame, f = q[i],
           NEW p, p = q \/ p = RemoveAt(q, i), NEW d,
           \/ Misses(c, EventOf[f.message_type], f, d)
           \/ Hears(c, EventOf[f.message_type], f, d)
    PROVE  IF f.message_type = "DATA" /\ d.snr # c.snr
           THEN /\ Flow(base, at, s, said, p, d, Append(heard, f.payload), spent)
                /\ Len(heard) < Len(said) /\ said[Len(heard) + 1] = f.payload
           ELSE Flow(base, at, s, said, p, d, heard, spent)
  <1> DEFINE event == EventOf[f.message_type]
             last == Pos(base, s.snt)
             S == Placed(base, at, last, said)
             taken == f.message_type = "DATA" /\ d.snr # c.snr
  <1>1. q \in Seq(S)
    BY DEF Flow
  <1> HIDE DEF S
  <1>2. p \in Seq(S) /\ f \in S
    BY <1>1, RemoveAtType, LenProperties, ElementOfSeq
  <1>3. f.message_type \in MessageType /\ f.sequence_number \in SeqNo
    BY DEF Frame, PduOf
  <1>4. /\ event \in {"EVENT_RECV_CONN_REQ", "EVENT_RECV_CONN_RESP"} =>
             f.message_type \in {"CONNECTION_REQUEST", "CONNECTION_RESPONSE"}
        /\ event \in {"EVENT_RECV_HB", "EVENT_RECV_DATA"} =>
             f.message_type \in {"HEARTBEAT", "DATA"}
    BY <1>3 DEF EventOf, MessageType
  <1>5. /\ Marks(at, Len(said), last)
        /\ last <= spent + Rank(s.state)
    BY DEF Flow
  <1>6. \A more : Taken(base, at, last, said, d, more) =>
          Flow(base, at, s, said, p, d, more, spent)
    BY <1>2, <1>5 DEF Flow, S
  <1>7. base \in SeqNo /\ last \in Nat /\ last + 1 < SeqCount /\ Len(heard) \in Nat
        /\ Len(said) \in Nat
    BY LastPlace, SeqCountAssumption, LenProperties DEF Parts
  <1>8. /\ Pos(base, f.sequence_number) \in Nat /\ Pos(base, f.sequence_number) <= last
        /\ f.message_type \in {"CONNECTION_REQUEST", "CONNECTION_RESPONSE"} =>
             Pos(base, f.sequence_number) = 0
    BY <1>2, <1>3, <1>7, PosArithmetic, SeqCountAssumption DEF S, Placed
  <1>9. Pos(base, Inc(f.sequence_number)) = Pos(base, f.sequence_number) + 1
    <2>1. Pos(base, f.sequence_number) + 1 < SeqCount
      BY <1>7, <1>8, SeqCountAssumption
    <2>2. QED
      BY <1>3, <1>7, <2>1, PosArithmetic
  <1> HIDE DEF event
  <1>10. CASE Misses(c, event, f, d)
    <2>1. d.snr = c.snr /\ (Supervised(d) => Supervised(c)) /\ ~taken
      BY <1>10 DEF Misses
    <2>2. Flow(base, at, s, said, p, d, heard, spent)
      BY <1>2, <2>1, FlowMisses DEF S
    <2>3. QED
      BY <2>1, <2>2
  <1>11. CASE Hears(c, event, f, d)
    <2>1. d.snr = Inc(f.sequence_number)
      BY <1>11 DEF Hears
    <2>2. CASE Waiting(c) /\ event \in {"EVENT_RECV_CONN_REQ", "EVENT_RECV_CONN_RESP"}
      <3>1. f.message_type # "DATA" /\ Pos(base, d.snr) = 1
        BY <1>4, <1>8, <1>9, <2>1, <2>2
      <3>2. Taken(base, at, last, said, d, heard)
        BY <2>2, <3>1, FirstTaken
      <3>3. QED
        BY <1>6, <3>1, <3>2
    <2>3. CASE /\ Supervised(c) /\ SNinSeq(c, f)
               /\ event \in {"EVENT_RECV_HB", "EVENT_RECV_DATA"}
      <3>1. f \in Placed(base, at, Pos(base, s.snt), said)
            /\ f.message_type \in {"HEARTBEAT", "DATA"}
            /\ Pos(base, d.snr) = Pos(base, f.sequence_number) + 1
        BY <1>2, <1>4, <1>9, <2>1, <2>3 DEF S
      <3>2. IF f.message_type = "DATA"
            THEN /\ Len(heard) + 1 <= Len(said)
                 /\ said[Len(heard) + 1] = f.payload
                 /\ Taken(base, at, last, said, d, Append(heard, f.payload))
            ELSE Taken(base, at, last, said, d, heard)
        BY <2>3, <3>1, NextTaken
      <3>3. d.snr # c.snr
        BY <1>3, <2>1, <2>3, SeqCountAssumption DEF SNinSeq, Inc, SeqNo
      <3>4. CASE f.message_type = "DATA"
        <4>1. taken /\ Len(heard) < Len(said) /\ said[Len(heard) + 1] = f.payload
          BY <1>7, <3>2, <3>3, <3>4
        <4>2. Flow(base, at, s, said, p, d, Append(heard, f.payload), spent)
          BY <1>6, <3>2, <3>4
        <4>3. QED
          BY <4>1, <4>2
      <3>5. CASE f.message_type # "DATA"
        BY <1>6, <3>2, <3>5
      <3>6. QED
        BY <3>4, <3>5
    <2>4. QED
      BY <1>11, <2>2, <2>3 DEF Hears
  <1>12. QED
    BY <1>10, <1>11 DEF event

(***************************************************************************)
(* One direction of the link, from s to c: dormant until the application   *)
(* of s has opened the connection, then the flow from a first number base, *)
(* which is still the last number of a server that listens.                *)
(***************************************************************************)
Line(open, s, said, q, c, heard, spent) ==
    IF open = 0
    THEN /\ s.state = "STATE_CLOSED" /\ ~Supervised(c)
         /\ said = << >> /\ q = << >> /\ heard = << >>
    ELSE \E base \in SeqNo : \E at :
           /\ s.state = "STATE_DOWN" => s.snt = base
           /\ Flow(base, at, s, said, q, c, heard, spent)

LEMMA ClosedSpeaks ==
    ASSUME NEW s, s.state = "STATE_CLOSED", NEW t, t.state \in State,
           NEW rand, NEW event, NEW pdu, NEW sent,
           Speaks(s, rand, event, pdu, t, sent)
    PROVE  \/ t.state = "STATE_CLOSED" /\ sent = << >>
           \/ Opens(s, rand, event, t, sent)
  <1>1. Rank(s.state) = 3 /\ Rank(t.state) \in 0 .. 3
    BY RankBounds DEF Rank
  <1>2. QED
    BY <1>1 DEF Speaks, Rests, Counts, Agrees, Submits, GoesOn, Running

\* Nothing is said, or a frame that the change of the state pays for.
LEMMA FlowSpeaks ==
    ASSUME NEW base, NEW at, NEW s, NEW said, NEW q, NEW c, NEW heard, NEW spent,
           Parts(base, s, said, c, heard, spent),
           Flow(base, at, s, said, q, c, heard, spent),
           NEW t, t.state \in State, NEW sent,
           Rests(s, t, sent) \/ Counts(s, t, sent)
    PROVE  /\ Flow(base, at, t, said, q \o sent, c, heard, spent)
           /\ t.state = "STATE_DOWN" => s.state = "STATE_DOWN" /\ t.snt = s.snt
  <1>1. /\ Rank(s.state) \in Nat /\ Rank(t.state) \in Nat /\ spent \in Nat
        /\ t.state = "STATE_DOWN" => Rank(t.state) = 0
    BY RankBounds, LastPlace DEF Parts, Rank
  <1>2. CASE Rests(s, t, sent)
    <2>1. /\ t.snt = s.snt /\ sent = << >> /\ Rank(s.state) <= Rank(t.state)
          /\ t.state = s.state \/ Rank(s.state) < Rank(t.state)
      BY <1>1, <1>2 DEF Rests, GoesOn
    <2>2. Flow(base, at, t, said, q \o << >>, c, heard, spent)
      BY <1>1, <2>1, FlowRests
    <2>3. QED
      BY <1>1, <2>1, <2>2
  <1>3. CASE Counts(s, t, sent)
    <2>1. t.snt = Inc(s.snt) /\ Rank(s.state) < Rank(t.state)
      BY <1>3 DEF Counts
    <2>2. spent + Rank(s.state) < spent + Rank(t.state) /\ t.state # "STATE_DOWN"
      BY <1>1, <2>1
    <2>3. PICK type \in {"HEARTBEAT", "DISCONNECTION_REQUEST", "RETRANSMISSION_REQUEST"} :
            Says(sent, type, t.snt)
      BY <1>3 DEF Counts
    <2>4. Flow(base, at, t, said, q \o sent, c, heard, spent)
      BY <1>1, <2>1, <2>2, <2>3, FlowCounts
    <2>5. QED
      BY <2>2, <2>4
  <1>4. QED
    BY <1>2, <1>3

LEMMA LineSpeaks ==
    ASSUME NEW open, NEW s, NEW said, NEW q, NEW c, NEW heard, NEW spent,
           \A base \in SeqNo : Parts(base, s, said, c, heard, spent),
           Line(open, s, said, q, c, heard, spent),
           NEW t, t.state \in State, NEW rand, NEW event, NEW pdu, NEW sent,
           event \notin {"EVENT_SEND_DATA", "EVENT_OPEN_CONN"},
           Speaks(s, rand, event, pdu, t, sent)
    PROVE  Line(open, t, said, q \o sent, c, heard, spent)
  <1>1. CASE open = 0
    <2>1. /\ s.state = "STATE_CLOSED" /\ ~Supervised(c)
          /\ said = << >> /\ q = << >> /\ heard = << >>
      BY <1>1 DEF Line
    <2>2. t.state = "STATE_CLOSED" /\ sent = << >>
      BY <2>1, ClosedSpeaks DEF Opens
    <2>3. q \o sent = << >>
      BY <2>1, <2>2
    <2>4. QED
      BY <1>1, <2>1, <2>2, <2>3 DEF Line
  <1>2. CASE open # 0
    <2>1. PICK base, at :
            /\ base \in SeqNo
            /\ s.state = "STATE_DOWN" => s.snt = base
            /\ Flow(base, at, s, said, q, c, heard, spent)
      BY <1>2 DEF Line
    <2> base \in SeqNo
      BY <2>1
    <2>2. Parts(base, s, said, c, heard, spent)
      OBVIOUS
    <2>3. CASE Rests(s, t, sent) \/ Counts(s, t, sent)
      <3>1. /\ t.state = "STATE_DOWN" => t.snt = base
            /\ Flow(base, at, t, said, q \o sent, c, heard, spent)
        BY <2>1, <2>2, <2>3, FlowSpeaks
      <3>2. QED
        BY <1>2, <3>1 DEF Line
    <2>4. CASE Agrees(s, t, sent)
      <3>1. s.snt = base /\ t.state # "STATE_DOWN"
        BY <2>1, <2>4 DEF Agrees
      <3>2. Flow(base, at, t, said, q \o sent, c, heard, spent)
        BY <2>1, <2>2, <2>4, <3>1, FlowAgrees
      <3>3. QED
        BY <1>2, <3>1, <3>2 DEF Line
    <2>5. QED
      BY <2>3, <2>4 DEF Speaks, Opens, Submits
  <1>3. QED
    BY <1>1, <1>2

\* The first number of the connection is the one that the sender has drawn.
LEMMA LineOpens ==
    ASSUME NEW s, NEW said, NEW q, NEW c, NEW heard, NEW spent \in Nat,
           Line(0, s, said, q, c, heard, spent),
           NEW t \in SmType, NEW rand, NEW event, NEW pdu, NEW sent,
           Speaks(s, rand, event, pdu, t, sent)
    PROVE  Line(1, t, said, q \o sent, c, heard, spent)
  <1> DEFINE base == t.snt
             at == [i \in 1 .. 0 |-> 0]
  <1>1. /\ s.state = "STATE_CLOSED" /\ ~Supervised(c)
        /\ said = << >> /\ q = << >> /\ heard = << >>
    BY DEF Line
  <1>2. base \in SeqNo /\ Pos(base, base) = 0 /\ Rank(t.state) \in Nat
    BY PosArithmetic, RankBounds DEF SmType
  <1>3. sent = << >> \/ Says(sent, "CONNECTION_REQUEST", base)
    BY <1>1, ClosedSpeaks DEF Opens, SmType
  <1>4. sent \in Seq(Placed(base, at, 0, said))
    <2>1. CASE sent = << >>
      BY <2>1
    <2>2. CASE Says(sent, "CONNECTION_REQUEST", base)
      <3>1. PICK f \in Frame : /\ sent = <<f>> /\ f.sequence_number = base
                               /\ f.message_type = "CONNECTION_REQUEST"
        BY <2>2 DEF Says
      <3>2. f \in Placed(base, at, 0, said)
        BY <1>2, <3>1 DEF Placed
      <3>3. QED
        BY <3>1, <3>2
    <2>3. QED
      BY <1>3, <2>1, <2>2
  <1>5. q \o sent \in Seq(Placed(base, at, 0, said))
    BY <1>1, <1>4, JoinedFrames
  <1>6. Marks(at, 0, 0) /\ Len(said) = 0 /\ Len(heard) = 0
    BY <1>1 DEF Marks
  <1>7. Taken(base, at, 0, said, c, heard)
    BY <1>1, <1>6 DEF Taken
  <1>8. 0 <= spent + Rank(t.state)
    BY <1>2
  <1>9. Flow(base, at, t, said, q \o sent, c, heard, spent)
    BY <1>2, <1>5, <1>6, <1>7, <1>8 DEF Flow
  <1>10. QED
    BY <1>2, <1>9 DEF Line

LEMMA LinePasses ==
    ASSUME NEW open, NEW s, NEW said, NEW q \in Seq(Frame), NEW c, NEW heard, NEW spent,
           \A base \in SeqNo : Parts(base, s, said, c, heard, spent),
           Line(open, s, said, q, c, heard, spent), s.state # "STATE_CLOSED",
           spent + 1 + 4 < SeqCount,
           NEW t, t.state \in State, NEW sent, Passes(s, t, sent)
    PROVE  Line(open, t, said, q \o sent, c, heard, spent + 1)
  <1>1. PICK mid \in SmType, first \in Seq(Frame), second \in Seq(Frame) :
          /\ sent = first \o second
          /\ Beats(s, mid, first)
          /\ Rests(mid, t, second) \/ Counts(mid, t, second)
    BY DEF Passes
  <1>2. open # 0
    BY DEF Line
  <1>3. PICK base, at :
          /\ base \in SeqNo
          /\ s.state = "STATE_DOWN" => s.snt = base
          /\ Flow(base, at, s, said, q, c, heard, spent)
    BY <1>2 DEF Line
  <1> base \in SeqNo
    BY <1>3
  <1>4. /\ Parts(base, s, said, c, heard, spent)
        /\ spent \in Nat /\ spent + 1 \in Nat /\ spent <= spent + 1
    BY DEF Parts
  <1>5. Parts(base, mid, said, c, heard, spent + 1)
    BY <1>4 DEF Parts
  <1> DEFINE p == q \o first
  <1>6. /\ Flow(base, at, mid, said, p, c, heard, spent + 1)
        /\ mid.state = "STATE_DOWN" => mid.snt = base
    <2>1. /\ mid.state = s.state /\ mid.state \in State
          /\ Rank(s.state) \in Nat /\ Rank(s.state) <= Rank(mid.state)
          /\ spent + Rank(s.state) < spent + 1 + Rank(mid.state)
      <3>1. mid.state = s.state /\ mid.state \in State
        BY <1>1 DEF Beats, SmType
      <3>2. Rank(s.state) \in Nat
        BY <1>3, <1>4, LastPlace
      <3>3. QED
        BY <1>4, <3>1, <3>2
    <2>2. CASE first = << >> /\ mid.snt = s.snt
      BY <1>3, <1>4, <2>1, <2>2, FlowRests
    <2>3. CASE Says(first, "HEARTBEAT", mid.snt) /\ mid.snt = Inc(s.snt) /\ Running(s)
      BY <1>3, <1>4, <2>1, <2>3, FlowCounts DEF Running
    <2>4. QED
      BY <1>1, <2>2, <2>3 DEF Beats
  <1> HIDE DEF p
  <1>7. /\ t.state = "STATE_DOWN" => t.snt = base
        /\ Flow(base, at, t, said, p \o second, c, heard, spent + 1)
    BY <1>1, <1>5, <1>6, FlowSpeaks
  <1>8. q \o sent = p \o second
    <2>1. (q \o first) \o second = q \o (first \o second)
      BY ConcatAssociative
    <2>2. QED
      BY <1>1, <2>1, Zenon DEF p
  <1>9. Flow(base, at, t, said, q \o sent, c, heard, spent + 1)
    BY <1>7, <1>8, Zenon
  <1>10. QED
    BY <1>2, <1>7, <1>9 DEF Line

LEMMA LineSends ==
    ASSUME NEW open, NEW s \in SmType, NEW said, NEW q, NEW c, NEW heard, NEW spent,
           \A base \in SeqNo : Parts(base, s, said, c, heard, spent),
           Line(open, s, said, q, c, heard, spent),
           spent + 1 + 4 < SeqCount,
           NEW rand, NEW pdu \in Frame, pdu.message_type = "DATA",
           pdu.payload \in AppData, pdu.sequence_number = Inc(s.snt),
           NEW t, t.state \in State, NEW sent,
           Summary(Counted(s), rand, "EVENT_SEND_DATA", pdu, t, sent)
    PROVE  Line(open, t, IF sent = <<pdu>> THEN Append(said, pdu.payload) ELSE said,
                q \o sent, c, heard, spent + 1)
  <1> DEFINE self == Counted(s)
             event == "EVENT_SEND_DATA"
  <1>1. self \in SmType /\ self.state = s.state /\ self.snt = Inc(s.snt)
    BY CountedType DEF SmType
  <1>2. /\ Speaks(self, rand, event, pdu, t, sent)
        /\ t.state # "STATE_CLOSED" => Submits(self, event, pdu, t, sent)
    BY DEF Summary
  <1> HIDE DEF self
  <1>3. CASE Submits(self, event, pdu, t, sent)
    <2>1. /\ sent = <<pdu>> /\ t.state = s.state /\ t.snt = Inc(s.snt)
          /\ s.state \notin {"STATE_CLOSED", "STATE_DOWN"}
      BY <1>1, <1>3 DEF Submits, Running
    <2>2. open # 0
      BY <2>1 DEF Line
    <2>3. PICK base, at :
            /\ base \in SeqNo
            /\ Flow(base, at, s, said, q, c, heard, spent)
      BY <2>2 DEF Line
    <2> base \in SeqNo
      BY <2>3
    <2>4. PICK marks : Flow(base, marks, t, Append(said, pdu.payload), q \o <<pdu>>, c,
                            heard, spent + 1)
      BY <2>1, <2>3, FlowSubmits
    <2>5. QED
      BY <2>1, <2>2, <2>4 DEF Line
  <1>4. CASE ~Submits(self, event, pdu, t, sent)
    <2>1. /\ t.state = "STATE_CLOSED"
          /\ Rests(self, t, sent) \/ Counts(self, t, sent)
      BY <1>2, <1>4 DEF Speaks, Opens, Agrees
    <2>2. sent # <<pdu>>
      <3>1. \/ sent = << >>
            \/ \E f \in Frame : sent = <<f>> /\ f.message_type # "DATA"
        BY <2>1 DEF Rests, Counts, Says
      <3>2. << >> # <<pdu>> /\ \A f : f # pdu => <<f>> # <<pdu>>
        OBVIOUS
      <3>3. QED
        BY <3>1, <3>2, Zenon
    <2>3. CASE open = 0
      <3>1. /\ s.state = "STATE_CLOSED" /\ ~Supervised(c)
            /\ said = << >> /\ q = << >> /\ heard = << >>
        BY <2>3 DEF Line
      <3>2. sent = << >>
        BY <1>1, <1>2, <3>1, ClosedSpeaks DEF Opens
      <3>3. q \o sent = << >>
        BY <3>1, <3>2
      <3>4. QED
        BY <2>1, <2>2, <2>3, <3>1, <3>3 DEF Line
    <2>4. CASE open # 0
      <3>1. PICK base, at :
              /\ base \in SeqNo
              /\ Flow(base, at, s, said, q, c, heard, spent)
        BY <2>4 DEF Line
      <3> base \in SeqNo
        BY <3>1
      <3>2. /\ Parts(base, s, said, c, heard, spent)
            /\ spent \in Nat /\ spent + 1 \in Nat
        BY DEF Parts
      <3>3. Parts(base, self, said, c, heard, spent + 1)
        BY <1>1, <3>2 DEF Parts
      <3>4. Flow(base, at, self, said, q, c, heard, spent + 1)
        <4>1. /\ spent + Rank(s.state) < spent + 1 + Rank(self.state)
              /\ self.state \in State
          BY <1>1, <3>1, <3>2, LastPlace DEF SmType
        <4>2. Flow(base, at, self, said, q \o << >>, c, heard, spent + 1)
          BY <1>1, <3>1, <3>2, <4>1, FlowCounts
        <4>3. q \o << >> = q
          BY <3>1, ConcatEmptySeq DEF Flow
        <4>4. QED
          BY <4>2, <4>3
      <3>5. Flow(base, at, t, said, q \o sent, c, heard, spent + 1)
        BY <2>1, <3>3, <3>4, FlowSpeaks
      <3>6. QED
        BY <2>1, <2>2, <2>4, <3>5 DEF Line
    <2>5. QED
      BY <2>3, <2>4
  <1>5. QED
    BY <1>3, <1>4

\* A second passes.
LEMMA LineWaits ==
    ASSUME NEW open, NEW s, NEW said, NEW q, NEW c, NEW heard, NEW spent,
           \A base \in SeqNo : Parts(base, s, said, c, heard, spent),
           Line(open, s, said, q, c, heard, spent)
    PROVE  Line(open, s, said, q, c, heard, spent + 1)
  <1>1. CASE open = 0
    BY <1>1 DEF Line
  <1>2. CASE open # 0
    <2>1. PICK base, at :
            /\ base \in SeqNo
            /\ s.state = "STATE_DOWN" => s.snt = base
            /\ Flow(base, at, s, said, q, c, heard, spent)
      BY <1>2 DEF Line
    <2> base \in SeqNo
      BY <2>1
    <2>2. /\ Pos(base, s.snt) \in Nat /\ Rank(s.state) \in Nat /\ spent \in Nat
          /\ Pos(base, s.snt) <= spent + Rank(s.state)
      BY <2>1, LastPlace DEF Parts
    <2>3. Pos(base, s.snt) <= spent + 1 + Rank(s.state)
      BY <2>2
    <2>4. Flow(base, at, s, said, q, c, heard, spent + 1)
      BY <2>1, <2>3 DEF Flow
    <2>5. QED
      BY <1>2, <2>1, <2>4 DEF Line
  <1>3. QED
    BY <1>1, <1>2

\* The receiver takes nothing in.
LEMMA LineMisses ==
    ASSUME NEW open, NEW s, NEW said, NEW q, NEW c, NEW heard, NEW spent,
           Line(open, s, said, q, c, heard, spent),
           NEW p, p = q \/ \E i \in DOMAIN q : p = RemoveAt(q, i),
           NEW d, d.snr = c.snr, Supervised(d) => Supervised(c)
    PROVE  Line(open, s, said, p, d, heard, spent)
  <1>1. CASE open = 0
    <2>1. q = << >> /\ DOMAIN q = {}
      BY <1>1 DEF Line
    <2>2. p = << >>
      BY <2>1
    <2>3. QED
      BY <1>1, <2>2 DEF Line
  <1>2. CASE open # 0
    <2>1. PICK base, at :
            /\ base \in SeqNo
            /\ s.state = "STATE_DOWN" => s.snt = base
            /\ Flow(base, at, s, said, q, c, heard, spent)
      BY <1>2 DEF Line
    <2> base \in SeqNo
      BY <2>1
    <2> DEFINE S == Placed(base, at, Pos(base, s.snt), said)
    <2>2. q \in Seq(S)
      BY <2>1 DEF Flow
    <2> HIDE DEF S
    <2>3. p \in Seq(S)
      BY <2>2, RemoveAtType
    <2>4. Flow(base, at, s, said, p, d, heard, spent)
      BY <2>1, <2>3, FlowMisses DEF S
    <2>5. QED
      BY <1>2, <2>1, <2>4 DEF Line
  <1>3. QED
    BY <1>1, <1>2

TakesIt(f, open, s, said, p, c, d, heard, spent) ==
    IF f.message_type = "DATA" /\ d.snr # c.snr
    THEN /\ Line(open, s, said, p, d, Append(heard, f.payload), spent)
         /\ Len(heard) < Len(said) /\ said[Len(heard) + 1] = f.payload
    ELSE Line(open, s, said, p, d, heard, spent)

LEMMA LineHears ==
    ASSUME NEW open, NEW s, NEW said, NEW q \in Seq(Frame), NEW c, NEW heard, NEW spent,
           \A base \in SeqNo : Parts(base, s, said, c, heard, spent),
           Line(open, s, said, q, c, heard, spent),
           Waiting(c) => heard = << >>,
           NEW i \in DOMAIN q, NEW f, f = q[i],
           NEW event, event = EventOf[f.message_type],
           NEW p, p = q \/ p = RemoveAt(q, i), NEW d,
           Misses(c, event, f, d) \/ Hears(c, event, f, d)
    PROVE  TakesIt(f, open, s, said, p, c, d, heard, spent)
  <1>1. open # 0
    <2>1. q # << >>
      BY EmptySeq
    <2>2. QED
      BY <2>1 DEF Line
  <1>2. PICK base, at :
          /\ base \in SeqNo
          /\ s.state = "STATE_DOWN" => s.snt = base
          /\ Flow(base, at, s, said, q, c, heard, spent)
    BY <1>1 DEF Line
  <1> base \in SeqNo
    BY <1>2
  <1>3. Parts(base, s, said, c, heard, spent) /\ f \in Frame
    BY LenProperties, ElementOfSeq
  <1>4. IF f.message_type = "DATA" /\ d.snr # c.snr
        THEN /\ Flow(base, at, s, said, p, d, Append(heard, f.payload), spent)
             /\ Len(heard) < Len(said) /\ said[Len(heard) + 1] = f.payload
        ELSE Flow(base, at, s, said, p, d, heard, spent)
    BY <1>2, <1>3, FlowHears
  <1>5. \A more : Flow(base, at, s, said, p, d, more, spent) =>
          Line(open, s, said, p, d, more, spent)
    BY <1>1, <1>2 DEF Line
  <1>6. QED
    BY <1>4, <1>5 DEF TakesIt

(***************************************************************************)
(* The inductive invariant: both directions, and nobody has taken anything *)
(* in who has not opened or still waits for the first frame.  A step of r  *)
(* leaves the peer alone; it goes on in both directions and is a step of   *)
(* the Pipe, or none.                                                      *)
(***************************************************************************)
Spent(r) == clock[r] + asked[r]

DeliveryInv ==
    /\ OneConnection
    /\ Inv
    /\ \A r \in SmRole :
         /\ Regular(sm[r])
         /\ opens[r] = 0 \/ Waiting(sm[r]) => del[r] = << >>
         /\ Line(opens[r], sm[r], sub[r], net[Peer(r)], sm[Peer(r)], del[Peer(r)],
                 Spent(r))

LeavesAlone(p) ==
    /\ sm'[p] = sm[p] /\ opens'[p] = opens[p] /\ Spent(p)' = Spent(p)
    /\ sub'[p] = sub[p] /\ del'[p] = del[p]

GoesOnInOrder(r) ==
    /\ LeavesAlone(Peer(r))
    /\ Regular(sm'[r])
    /\ opens'[r] = 0 \/ Waiting(sm'[r]) => del'[r] = << >>
    /\ Line(opens'[r], sm'[r], sub'[r], net'[Peer(r)], sm[Peer(r)], del[Peer(r)],
            Spent(r)')
    /\ Line(opens[Peer(r)], sm[Peer(r)], sub[Peer(r)], net'[r], sm'[r], del'[r],
            Spent(Peer(r)))
    /\ [Connection!Next]_<<sub, del>>

LEMMA DeliveryTypes ==
    ASSUME Inv, NEW r \in SmRole
    PROVE  /\ sm[r] \in SmType /\ net[r] \in Seq(Frame)
           /\ sub[r] \in Seq(AppData) /\ del[r] \in Seq(AppData)
           /\ clock[r] \in 0 .. MaxClock /\ asked[r] \in 0 .. MaxSends
           /\ opens[r] \in 0 .. MaxOpens
           /\ sub \in [SmRole -> Seq(AppData)] /\ del \in [SmRole -> Seq(AppData)]
           /\ clock \in [SmRole -> 0 .. MaxClock] /\ asked \in [SmRole -> 0 .. MaxSends]
           /\ opens \in [SmRole -> 0 .. MaxOpens]
  BY DEF Inv, TypeOK

LEMMA NumbersLast ==
    ASSUME OneConnection, NEW a \in 0 .. MaxClock, NEW b \in 0 .. MaxSends
    PROVE  a + b \in Nat /\ a + b + 4 < SeqCount
  <1>1. MaxClock \in Nat /\ MaxSends \in Nat /\ SeqCount \in Nat
    BY LinkAssumption, SeqCountAssumption
  <1>2. MaxClock + MaxSends + 4 < SeqCount
    BY DEF OneConnection
  <1>3. QED
    BY <1>1, <1>2

LEMMA DeliveryFacts ==
    ASSUME DeliveryInv, NEW r \in SmRole
    PROVE  /\ Inv /\ Regular(sm[r]) /\ Peer(r) \in SmRole
           /\ opens[r] = 0 \/ Waiting(sm[r]) => del[r] = << >>
           /\ Line(opens[r], sm[r], sub[r], net[Peer(r)], sm[Peer(r)], del[Peer(r)],
                   Spent(r))
           /\ Line(opens[Peer(r)], sm[Peer(r)], sub[Peer(r)], net[r], sm[r], del[r],
                   Spent(Peer(r)))
           /\ \A base \in SeqNo : Parts(base, sm[r], sub[r], sm[Peer(r)], del[Peer(r)],
                                        Spent(r))
           /\ \A base \in SeqNo : Parts(base, sm[Peer(r)], sub[Peer(r)], sm[r], del[r],
                                        Spent(Peer(r)))
  <1>1. Peer(r) \in SmRole /\ Peer(Peer(r)) = r /\ Inv /\ OneConnection
    BY PeerOf, PeerOfPeer DEF DeliveryInv
  <1>2. ASSUME NEW p \in SmRole, NEW base \in SeqNo, Inv
        PROVE  Parts(base, sm[p], sub[p], sm[Peer(p)], del[Peer(p)], Spent(p))
    <2>1. /\ clock[p] \in 0 .. MaxClock /\ asked[p] \in 0 .. MaxSends
          /\ sm[p] \in SmType /\ sub[p] \in Seq(AppData)
      BY <1>2, DeliveryTypes
    <2>2. sm[Peer(p)] \in SmType /\ del[Peer(p)] \in Seq(AppData)
      BY <1>2, PeerOf, DeliveryTypes
    <2>3. Spent(p) \in Nat /\ Spent(p) + 4 < SeqCount
      BY <1>1, <2>1, NumbersLast DEF Spent
    <2>4. QED
      BY <2>1, <2>2, <2>3 DEF Parts
  <1>3. \A p \in SmRole :
          /\ Regular(sm[p])
          /\ opens[p] = 0 \/ Waiting(sm[p]) => del[p] = << >>
          /\ Line(opens[p], sm[p], sub[p], net[Peer(p)], sm[Peer(p)], del[Peer(p)],
                  Spent(p))
    BY DEF DeliveryInv
  <1>4. QED
    BY <1>1, <1>2, <1>3, Zenon

\* A second or a call of SendData more, and still numbers left.
LEMMA NumbersLeft ==
    ASSUME DeliveryInv, Inv', NEW r \in SmRole,
           Spent(r)' = Spent(r) + 1
    PROVE  Spent(r) + 1 + 4 < SeqCount
  <1>1. clock'[r] \in 0 .. MaxClock /\ asked'[r] \in 0 .. MaxSends
    BY DEF Inv, TypeOK
  <1>2. Spent(r)' + 4 < SeqCount
    BY <1>1, NumbersLast DEF DeliveryInv, Spent
  <1>3. QED
    BY <1>2

\* An event that no frame caused: as a receiver r takes nothing in.
TakesNothing(r, event, sent) ==
    /\ Regular(sm'[r])
    /\ Waiting(sm'[r]) => Waiting(sm[r]) \/ event = "EVENT_OPEN_CONN"
    /\ Line(opens[Peer(r)], sm[Peer(r)], sub[Peer(r)], net'[r], sm'[r], del[r],
            Spent(Peer(r)))
    /\ sm'[Peer(r)] = sm[Peer(r)] /\ net'[Peer(r)] = net[Peer(r)] \o sent

LEMMA LocalEventLine ==
    ASSUME DeliveryInv, NEW r \in SmRole, NEW n \in SeqNo,
           NEW self, self = [sm[r] EXCEPT !.snt = n],
           NEW rand, NEW event, event \notin ReceiptEvent, NEW pdu, NEW sent,
           Handles(r, self, rand, event, pdu, net[r], sent)
    PROVE  TakesNothing(r, event, sent)
  <1>1. /\ sm[r] \in SmType
        /\ Line(opens[Peer(r)], sm[Peer(r)], sub[Peer(r)], net[r], sm[r], del[r],
                Spent(Peer(r)))
    BY DeliveryFacts, DeliveryTypes
  <1>2. /\ self.snr = sm[r].snr
        /\ Supervised(self) <=> Supervised(sm[r])
        /\ Waiting(self) <=> Waiting(sm[r])
    BY <1>1 DEF SmType, Supervised, Waiting
  <1>3. /\ Regular(sm'[r]) /\ Moves(r, net[r], sent)
        /\ Waiting(sm'[r]) => Waiting(self) \/ event = "EVENT_OPEN_CONN"
        /\ Misses(self, event, pdu, sm'[r])
    BY DEF Handles, Summary, Hears, ReceiptEvent
  <1>4. net'[r] = net[r] /\ sm'[r].snr = sm[r].snr
        /\ (Supervised(sm'[r]) => Supervised(sm[r]))
    BY <1>2, <1>3 DEF Misses, Moves
  <1>5. Line(opens[Peer(r)], sm[Peer(r)], sub[Peer(r)], net'[r], sm'[r], del[r],
             Spent(Peer(r)))
    BY <1>1, <1>4, LineMisses
  <1>6. QED
    BY <1>2, <1>3, <1>5 DEF Moves, TakesNothing

LEMMA OpenConnectionInOrder ==
    ASSUME DeliveryInv, Inv', NEW r \in SmRole, OpenConnection(r)
    PROVE  GoesOnInOrder(r)
  <1>1. /\ Inv /\ Regular(sm[r]) /\ Peer(r) \in SmRole
        /\ opens[r] = 0 \/ Waiting(sm[r]) => del[r] = << >>
        /\ Line(opens[r], sm[r], sub[r], net[Peer(r)], sm[Peer(r)], del[Peer(r)],
                Spent(r))
    BY DeliveryFacts
  <1>2. PICK rand, sent :
          /\ rand \in SeqNo
          /\ Handles(r, sm[r], rand, "EVENT_OPEN_CONN", LocalPdu(0), net[r], sent)
    BY <1>1, OpenConnectionIs
  <1> rand \in SeqNo
    BY <1>2
  <1>3. /\ opens[r] = 0 /\ opens'[r] = 1 /\ opens'[Peer(r)] = opens[Peer(r)]
        /\ sub' = sub /\ del' = del
        /\ Spent(r)' = Spent(r) /\ Spent(Peer(r))' = Spent(Peer(r))
    <2>1. opens \in [SmRole -> 0 .. MaxOpens] /\ MaxOpens \in Nat /\ MaxOpens <= 1
      BY <1>1, DeliveryTypes, LinkAssumption DEF DeliveryInv, OneConnection
    <2>2. /\ opens[r] < MaxOpens /\ opens' = [opens EXCEPT ![r] = @ + 1]
          /\ UNCHANGED <<clock, asked, sub, del>>
      BY DEF OpenConnection
    <2>3. QED
      BY <1>1, <2>1, <2>2, PeerOf DEF Spent
  <1>4. sm[r] = [sm[r] EXCEPT !.snt = sm[r].snt] /\ sm[r].snt \in SeqNo
    BY <1>1, DeliveryTypes, SelfIs DEF SmType
  <1>5. /\ Regular(sm'[r])
        /\ Line(opens[Peer(r)], sm[Peer(r)], sub[Peer(r)], net'[r], sm'[r], del[r],
                Spent(Peer(r)))
        /\ sm'[Peer(r)] = sm[Peer(r)] /\ net'[Peer(r)] = net[Peer(r)] \o sent
    <2>1. "EVENT_OPEN_CONN" \notin ReceiptEvent
      BY DEF ReceiptEvent
    <2>2. TakesNothing(r, "EVENT_OPEN_CONN", sent)
      BY <1>2, <1>4, <2>1, LocalEventLine
    <2>3. QED
      BY <2>1, <2>2 DEF TakesNothing
  <1>6. Line(1, sm'[r], sub[r], net[Peer(r)] \o sent, sm[Peer(r)], del[Peer(r)],
             Spent(r))
    <2>1. Speaks(sm[r], rand, "EVENT_OPEN_CONN", LocalPdu(0), sm'[r], sent)
      BY <1>2 DEF Handles, Summary
    <2>2. sm'[r] \in SmType /\ Spent(r) \in Nat
      <3>1. sm'[r] \in SmType
        BY DEF Inv, TypeOK
      <3>2. clock[r] \in Nat /\ asked[r] \in Nat
        BY <1>1, DeliveryTypes
      <3>3. QED
        BY <3>1, <3>2 DEF Spent
    <2>3. Line(0, sm[r], sub[r], net[Peer(r)], sm[Peer(r)], del[Peer(r)],
               Spent(r))
      BY <1>1, <1>3, Zenon
    <2>4. QED
      BY <2>1, <2>2, <2>3, LineOpens
  <1>7. QED
    BY <1>1, <1>3, <1>5, <1>6, Zenon DEF GoesOnInOrder, LeavesAlone

LEMMA CloseConnectionInOrder ==
    ASSUME DeliveryInv, Inv', NEW r \in SmRole, CloseConnection(r)
    PROVE  GoesOnInOrder(r)
  <1>1. /\ Inv /\ Regular(sm[r]) /\ Peer(r) \in SmRole
        /\ opens[r] = 0 \/ Waiting(sm[r]) => del[r] = << >>
        /\ Line(opens[r], sm[r], sub[r], net[Peer(r)], sm[Peer(r)], del[Peer(r)],
                Spent(r))
        /\ \A base \in SeqNo : Parts(base, sm[r], sub[r], sm[Peer(r)], del[Peer(r)],
                                     Spent(r))
    BY DeliveryFacts
  <1> DEFINE event == "EVENT_CLOSE_CONN"
  <1>2. PICK sent : Handles(r, sm[r], NotDrawn, event, LocalPdu(0), net[r], sent)
    BY <1>1, CloseConnectionIs
  <1>3. /\ opens' = opens /\ sub' = sub /\ del' = del
        /\ Spent(r)' = Spent(r) /\ Spent(Peer(r))' = Spent(Peer(r))
    BY DEF CloseConnection, Spent
  <1>4. sm[r] = [sm[r] EXCEPT !.snt = sm[r].snt] /\ sm[r].snt \in SeqNo
    BY <1>1, DeliveryTypes, SelfIs DEF SmType
  <1>5. /\ Regular(sm'[r]) /\ (Waiting(sm'[r]) => Waiting(sm[r]))
        /\ Line(opens[Peer(r)], sm[Peer(r)], sub[Peer(r)], net'[r], sm'[r], del[r],
                Spent(Peer(r)))
        /\ sm'[Peer(r)] = sm[Peer(r)] /\ net'[Peer(r)] = net[Peer(r)] \o sent
    <2>1. event \notin ReceiptEvent /\ event # "EVENT_OPEN_CONN"
      BY DEF ReceiptEvent
    <2> HIDE DEF event
    <2>2. TakesNothing(r, event, sent)
      BY <1>2, <1>4, <2>1, LocalEventLine
    <2>3. QED
      BY <2>1, <2>2 DEF TakesNothing
  <1>6. Line(opens[r], sm'[r], sub[r], net[Peer(r)] \o sent, sm[Peer(r)], del[Peer(r)],
             Spent(r))
    <2>1. Speaks(sm[r], NotDrawn, event, LocalPdu(0), sm'[r], sent)
      BY <1>2 DEF Handles, Summary
    <2>2. sm'[r].state \in State /\ event \notin {"EVENT_SEND_DATA", "EVENT_OPEN_CONN"}
      BY DEF Inv, TypeOK, SmType
    <2> HIDE DEF event
    <2>3. QED
      BY <1>1, <2>1, <2>2, LineSpeaks
  <1>7. QED
    BY <1>1, <1>3, <1>5, <1>6, Zenon DEF GoesOnInOrder, LeavesAlone

LEMMA SendDataInOrder ==
    ASSUME DeliveryInv, Inv', NEW r \in SmRole, SendData(r)
    PROVE  GoesOnInOrder(r)
  <1>1. /\ Inv /\ Regular(sm[r]) /\ Peer(r) \in SmRole /\ Peer(r) # r
        /\ opens[r] = 0 \/ Waiting(sm[r]) => del[r] = << >>
        /\ Line(opens[r], sm[r], sub[r], net[Peer(r)], sm[Peer(r)], del[Peer(r)],
                Spent(r))
        /\ \A base \in SeqNo : Parts(base, sm[r], sub[r], sm[Peer(r)], del[Peer(r)],
                                     Spent(r))
    BY DeliveryFacts, PeerOf
  <1>2. /\ sm[r] \in SmType /\ sub \in [SmRole -> Seq(AppData)]
        /\ clock[r] \in Nat /\ asked[r] \in Nat /\ asked \in [SmRole -> 0 .. MaxSends]
    BY <1>1, DeliveryTypes
  <1> DEFINE event == "EVENT_SEND_DATA"
             self == Counted(sm[r])
  <1>3. PICK msg, pdu, sent :
          /\ msg \in AppData /\ pdu \in Frame
          /\ pdu.message_type = "DATA" /\ pdu.payload = msg
          /\ pdu.sequence_number = Inc(sm[r].snt)
          /\ Handles(r, self, NotDrawn, event, pdu, net[r], sent)
          /\ sub' = [sub EXCEPT ![r] =
                       IF sent = <<pdu>> THEN Append(sub[r], msg) ELSE sub[r]]
    BY <1>1, SendDataIs
  <1> msg \in AppData /\ pdu \in Frame
    BY <1>3
  <1>4. opens' = opens /\ del' = del /\ Spent(Peer(r))' = Spent(Peer(r))
    BY <1>1, <1>2 DEF SendData, Spent
  <1>5. self = [sm[r] EXCEPT !.snt = Inc(sm[r].snt)] /\ Inc(sm[r].snt) \in SeqNo
    BY <1>2, CountedType, SeqArithmetic DEF SmType
  <1>6. /\ Regular(sm'[r]) /\ (Waiting(sm'[r]) => Waiting(sm[r]))
        /\ Line(opens[Peer(r)], sm[Peer(r)], sub[Peer(r)], net'[r], sm'[r], del[r],
                Spent(Peer(r)))
        /\ sm'[Peer(r)] = sm[Peer(r)] /\ net'[Peer(r)] = net[Peer(r)] \o sent
    <2>1. event \notin ReceiptEvent /\ event # "EVENT_OPEN_CONN"
      BY DEF ReceiptEvent
    <2> HIDE DEF event, self
    <2>2. TakesNothing(r, event, sent)
      BY <1>3, <1>5, <2>1, LocalEventLine
    <2>3. QED
      BY <2>1, <2>2 DEF TakesNothing
  <1>7. /\ sub'[r] = IF sent = <<pdu>> THEN Append(sub[r], pdu.payload) ELSE sub[r]
        /\ sub'[Peer(r)] = sub[Peer(r)]
    BY <1>1, <1>2, <1>3, Zenon
  <1>8. Spent(r)' = Spent(r) + 1
    <2>1. clock'[r] = clock[r] /\ asked'[r] = asked[r] + 1
      BY <1>2 DEF SendData
    <2>2. clock[r] \in Nat /\ asked[r] \in Nat
      BY <1>2
    <2>3. QED
      BY <2>1, <2>2 DEF Spent
  <1>9. Line(opens[r], sm'[r], sub'[r], net[Peer(r)] \o sent, sm[Peer(r)],
             del[Peer(r)], Spent(r) + 1)
    <2>1. Summary(self, NotDrawn, event, pdu, sm'[r], sent)
      BY <1>3 DEF Handles
    <2>2. sm'[r].state \in State
      BY DEF Inv, TypeOK, SmType
    <2>3. Spent(r) + 1 + 4 < SeqCount
      BY <1>8, NumbersLeft
    <2>4. pdu.payload \in AppData
      BY <1>3
    <2>5. Line(opens[r], sm'[r],
               IF sent = <<pdu>> THEN Append(sub[r], pdu.payload) ELSE sub[r],
               net[Peer(r)] \o sent, sm[Peer(r)], del[Peer(r)], Spent(r) + 1)
      BY <1>1, <1>2, <1>3, <2>1, <2>2, <2>3, <2>4, LineSends
    <2>6. QED
      BY <1>7, <2>5, Zenon
  <1>10. [Connection!Next]_<<sub, del>>
    <2>1. CASE sent = <<pdu>>
      BY <1>3, <1>4, <2>1, Zenon DEF Connection!Next, Connection!Submit
    <2>2. CASE sent # <<pdu>>
      BY <1>2, <1>3, <1>4, <2>2
    <2>3. QED
      BY <2>1, <2>2
  <1>11. QED
    BY <1>1, <1>4, <1>6, <1>7, <1>8, <1>9, <1>10, Zenon DEF GoesOnInOrder, LeavesAlone

LEMMA ReceiveInOrder ==
    ASSUME DeliveryInv, Inv', NEW r \in SmRole, Receive(r)
    PROVE  GoesOnInOrder(r)
  <1>1. /\ Inv /\ Regular(sm[r]) /\ Peer(r) \in SmRole /\ Peer(r) # r
        /\ opens[r] = 0 \/ Waiting(sm[r]) => del[r] = << >>
        /\ Line(opens[r], sm[r], sub[r], net[Peer(r)], sm[Peer(r)], del[Peer(r)],
                Spent(r))
        /\ \A base \in SeqNo : Parts(base, sm[r], sub[r], sm[Peer(r)], del[Peer(r)],
                                     Spent(r))
        /\ Line(opens[Peer(r)], sm[Peer(r)], sub[Peer(r)], net[r], sm[r], del[r],
                Spent(Peer(r)))
        /\ \A base \in SeqNo : Parts(base, sm[Peer(r)], sub[Peer(r)], sm[r], del[r],
                                     Spent(Peer(r)))
    BY DeliveryFacts, PeerOf
  <1>2. net[r] \in Seq(Frame) /\ del \in [SmRole -> Seq(AppData)]
    BY <1>1, DeliveryTypes
  <1>3. PICK i, kept, sent :
          /\ i \in DOMAIN net[r] /\ kept \in BOOLEAN
          /\ Handles(r, sm[r], NotDrawn, EventOf[net[r][i].message_type], net[r][i],
                     IF kept THEN net[r] ELSE RemoveAt(net[r], i), sent)
          /\ del' = [del EXCEPT ![r] =
                       IF net[r][i].message_type = "DATA" /\ sm'[r].snr # sm[r].snr
                       THEN Append(del[r], net[r][i].payload) ELSE del[r]]
    BY <1>1, ReceiveIs, Zenon
  <1> i \in DOMAIN net[r] /\ kept \in BOOLEAN
    BY <1>3
  <1>4. /\ opens' = opens /\ sub' = sub
        /\ Spent(r)' = Spent(r) /\ Spent(Peer(r))' = Spent(Peer(r))
    BY DEF Receive, Spent
  <1> DEFINE frame == net[r][i]
             event == EventOf[frame.message_type]
             inbox == IF kept THEN net[r] ELSE RemoveAt(net[r], i)
             taken == frame.message_type = "DATA" /\ sm'[r].snr # sm[r].snr
  <1>5. /\ Regular(sm'[r]) /\ Moves(r, inbox, sent)
        /\ Speaks(sm[r], NotDrawn, event, frame, sm'[r], sent)
        /\ Misses(sm[r], event, frame, sm'[r]) \/ Hears(sm[r], event, frame, sm'[r])
        /\ Waiting(sm'[r]) => Waiting(sm[r]) \/ event = "EVENT_OPEN_CONN"
    BY <1>3 DEF Handles, Summary
  <1>6. event \notin {"EVENT_SEND_DATA", "EVENT_OPEN_CONN"}
    <2>1. frame \in Frame /\ frame.message_type \in MessageType
      BY <1>2, LenProperties, ElementOfSeq DEF Frame, PduOf
    <2> HIDE DEF frame
    <2>2. QED
      BY <2>1 DEF EventOf, MessageType
  <1>7. /\ del'[r] = IF taken THEN Append(del[r], frame.payload) ELSE del[r]
        /\ del'[Peer(r)] = del[Peer(r)]
    BY <1>1, <1>2, <1>3, Zenon
  <1>8. /\ net'[r] = inbox /\ net'[Peer(r)] = net[Peer(r)] \o sent
        /\ sm'[Peer(r)] = sm[Peer(r)]
        /\ inbox = net[r] \/ inbox = RemoveAt(net[r], i)
    BY <1>5 DEF Moves
  <1> HIDE DEF inbox
  <1>9. /\ Line(opens[Peer(r)], sm[Peer(r)], sub[Peer(r)], inbox, sm'[r], del'[r],
                Spent(Peer(r)))
        /\ taken => /\ Len(del[r]) < Len(sub[Peer(r)])
                    /\ sub[Peer(r)][Len(del[r]) + 1] = frame.payload
    <2>1. TakesIt(frame, opens[Peer(r)], sm[Peer(r)], sub[Peer(r)], inbox, sm[r], sm'[r],
                  del[r], Spent(Peer(r)))
      <3>1. frame = net[r][i] /\ event = EventOf[frame.message_type]
        OBVIOUS
      <3> HIDE DEF frame, event
      <3>2. QED
        BY <1>1, <1>2, <1>5, <1>8, <3>1, LineHears
    <2>2. QED
      BY <1>7, <2>1, Zenon DEF TakesIt
  <1> HIDE DEF event, frame
  <1>10. Line(opens[r], sm'[r], sub[r], net[Peer(r)] \o sent, sm[Peer(r)],
              del[Peer(r)], Spent(r))
    <2>1. sm'[r].state \in State
      BY DEF Inv, TypeOK, SmType
    <2>2. QED
      BY <1>1, <1>5, <1>6, <2>1, LineSpeaks
  <1>11. opens[r] = 0 \/ Waiting(sm'[r]) => del'[r] = << >>
    <2>1. opens[r] = 0 => sm[r].state = "STATE_CLOSED"
      BY <1>1 DEF Line
    <2>2. taken => Hears(sm[r], event, frame, sm'[r])
      BY <1>5 DEF Misses
    <2>3. taken => opens[r] # 0 /\ ~Waiting(sm'[r])
      BY <2>1, <2>2 DEF Hears, Waiting, Supervised
    <2>4. QED
      BY <1>1, <1>5, <1>6, <1>7, <2>3
  <1>12. [Connection!Next]_<<sub, del>>
    <2>1. CASE taken
      <3>1. del' = [del EXCEPT ![r] = Append(del[r], sub[Peer(r)][Len(del[r]) + 1])]
        BY <1>3, <1>9, <2>1, Zenon DEF frame
      <3>2. Connection!Deliver(r)
        BY <1>4, <1>9, <2>1, <3>1, Zenon DEF Connection!Deliver
      <3>3. QED
        BY <3>2, Zenon DEF Connection!Next
    <2>2. CASE ~taken
      <3>1. del' = [del EXCEPT ![r] = del[r]]
        BY <1>3, <2>2, Zenon DEF frame
      <3>2. del' = del
        BY <1>2, <3>1
      <3>3. QED
        BY <1>4, <3>2
    <2>3. QED
      BY <2>1, <2>2
  <1>13. QED
    BY <1>1, <1>4, <1>5, <1>7, <1>8, <1>9, <1>10, <1>11, <1>12, Zenon
       DEF GoesOnInOrder, LeavesAlone

LEMMA LoseInOrder ==
    ASSUME DeliveryInv, NEW r \in SmRole, Lose(r)
    PROVE  GoesOnInOrder(r)
  <1>1. /\ Inv /\ Regular(sm[r]) /\ Peer(r) \in SmRole /\ Peer(r) # r
        /\ opens[r] = 0 \/ Waiting(sm[r]) => del[r] = << >>
        /\ Line(opens[r], sm[r], sub[r], net[Peer(r)], sm[Peer(r)], del[Peer(r)],
                Spent(r))
        /\ Line(opens[Peer(r)], sm[Peer(r)], sub[Peer(r)], net[r], sm[r], del[r],
                Spent(Peer(r)))
    BY DeliveryFacts, PeerOf
  <1>2. /\ sm' = sm /\ opens' = opens /\ sub' = sub /\ del' = del
        /\ Spent(r)' = Spent(r) /\ Spent(Peer(r))' = Spent(Peer(r))
        /\ \E i \in DOMAIN net[r] : net'[r] = RemoveAt(net[r], i)
        /\ net'[Peer(r)] = net[Peer(r)]
    BY <1>1 DEF Lose, Inv, Spent
  <1>3. Line(opens[Peer(r)], sm[Peer(r)], sub[Peer(r)], net'[r], sm[r], del[r],
             Spent(Peer(r)))
    BY <1>1, <1>2, LineMisses
  <1>4. QED
    BY <1>1, <1>2, <1>3, Zenon DEF GoesOnInOrder, LeavesAlone

LEMMA ClockGoesOn ==
    ASSUME Inv, NEW r \in SmRole, SecondPasses(r), asked' = asked
    PROVE  Spent(Peer(r))' = Spent(Peer(r)) /\ Spent(r)' = Spent(r) + 1
  <1>1. /\ clock \in [SmRole -> 0 .. MaxClock] /\ clock[r] \in Nat /\ asked[r] \in Nat
    BY DeliveryTypes
  <1>2. clock'[Peer(r)] = clock[Peer(r)] /\ clock'[r] = clock[r] + 1
    BY <1>1, PeerOf DEF SecondPasses
  <1>3. QED
    BY <1>1, <1>2 DEF Spent

LEMMA TickInOrder ==
    ASSUME DeliveryInv, Inv', NEW r \in SmRole, Tick(r)
    PROVE  GoesOnInOrder(r)
  <1>1. /\ Inv /\ Regular(sm[r]) /\ Peer(r) \in SmRole /\ Peer(r) # r
        /\ opens[r] = 0 \/ Waiting(sm[r]) => del[r] = << >>
        /\ Line(opens[r], sm[r], sub[r], net[Peer(r)], sm[Peer(r)], del[Peer(r)],
                Spent(r))
        /\ \A base \in SeqNo : Parts(base, sm[r], sub[r], sm[Peer(r)], del[Peer(r)],
                                     Spent(r))
        /\ Line(opens[Peer(r)], sm[Peer(r)], sub[Peer(r)], net[r], sm[r], del[r],
                Spent(Peer(r)))
    BY DeliveryFacts, PeerOf
  <1>2. PICK sent : Moves(r, net[r], sent) /\ Passes(sm[r], sm'[r], sent)
    BY <1>1, TickIs, Zenon
  <1>3. /\ opens' = opens /\ asked' = asked /\ sub' = sub /\ del' = del
        /\ sm[r].state # "STATE_CLOSED"
        /\ SecondPasses(r)
    BY DEF Tick
  <1>4. Spent(Peer(r))' = Spent(Peer(r)) /\ Spent(r)' = Spent(r) + 1
    BY <1>1, <1>3, ClockGoesOn
  <1>5. /\ sm'[r].snr = sm[r].snr /\ sm'[r].state \in {sm[r].state, "STATE_CLOSED"}
        /\ sm'[r].role = r /\ sm[r].role = r /\ sm'[r].state \in State
    BY <1>1, <1>2 DEF Passes, Inv, ContextSound, TypeOK, SmType
  <1>6. /\ Regular(sm'[r]) /\ (Waiting(sm'[r]) => Waiting(sm[r]))
        /\ Supervised(sm'[r]) => Supervised(sm[r])
    BY <1>1, <1>5 DEF Regular, Supervised, Waiting
  <1>7. /\ net'[r] = net[r] /\ net'[Peer(r)] = net[Peer(r)] \o sent
        /\ sm'[Peer(r)] = sm[Peer(r)]
    BY <1>2 DEF Moves
  <1>8. Line(opens[Peer(r)], sm[Peer(r)], sub[Peer(r)], net[r], sm'[r], del[r],
             Spent(Peer(r)))
    BY <1>1, <1>5, <1>6, LineMisses
  <1>9. Line(opens[r], sm'[r], sub[r], net[Peer(r)] \o sent, sm[Peer(r)],
             del[Peer(r)], Spent(r) + 1)
    <2>1. Spent(r) + 1 + 4 < SeqCount
      BY <1>4, NumbersLeft
    <2>2. net[Peer(r)] \in Seq(Frame)
      BY <1>1, DeliveryTypes
    <2>3. QED
      BY <1>1, <1>2, <1>3, <1>5, <2>1, <2>2, LinePasses
  <1>10. QED
    BY <1>1, <1>3, <1>4, <1>6, <1>7, <1>8, <1>9, Zenon DEF GoesOnInOrder, LeavesAlone

LEMMA IdleTickInOrder ==
    ASSUME DeliveryInv, NEW r \in SmRole, IdleTick(r)
    PROVE  GoesOnInOrder(r)
  <1>1. /\ Inv /\ Regular(sm[r]) /\ Peer(r) \in SmRole
        /\ opens[r] = 0 \/ Waiting(sm[r]) => del[r] = << >>
        /\ Line(opens[r], sm[r], sub[r], net[Peer(r)], sm[Peer(r)], del[Peer(r)],
                Spent(r))
        /\ \A base \in SeqNo : Parts(base, sm[r], sub[r], sm[Peer(r)], del[Peer(r)],
                                     Spent(r))
        /\ Line(opens[Peer(r)], sm[Peer(r)], sub[Peer(r)], net[r], sm[r], del[r],
                Spent(Peer(r)))
    BY DeliveryFacts
  <1>2. /\ sm' = sm /\ net' = net /\ opens' = opens /\ asked' = asked
        /\ sub' = sub /\ del' = del /\ SecondPasses(r)
    BY DEF IdleTick
  <1>3. Spent(Peer(r))' = Spent(Peer(r)) /\ Spent(r)' = Spent(r) + 1
    BY <1>1, <1>2, ClockGoesOn
  <1>4. Line(opens[r], sm[r], sub[r], net[Peer(r)], sm[Peer(r)], del[Peer(r)],
             Spent(r) + 1)
    BY <1>1, LineWaits
  <1>5. QED
    BY <1>1, <1>2, <1>3, <1>4, Zenon DEF GoesOnInOrder, LeavesAlone

LEMMA InitDelivery == OneConnection /\ Init => DeliveryInv /\ Connection!Init
  <1> SUFFICES ASSUME OneConnection, Init PROVE DeliveryInv /\ Connection!Init
    OBVIOUS
  <1>1. Inv /\ Connection!Init
    BY InitInv DEF Init, Connection!Init
  <1>2. ASSUME NEW r \in SmRole
        PROVE  /\ Regular(sm[r])
               /\ opens[r] = 0 \/ Waiting(sm[r]) => del[r] = << >>
               /\ Line(opens[r], sm[r], sub[r], net[Peer(r)], sm[Peer(r)], del[Peer(r)],
                       Spent(r))
    <2>1. /\ sm[r].state = "STATE_CLOSED" /\ sm[Peer(r)].state = "STATE_CLOSED"
          /\ opens[r] = 0 /\ sub[r] = << >> /\ net[Peer(r)] = << >>
          /\ del[r] = << >> /\ del[Peer(r)] = << >>
      BY PeerOf DEF Init, Sm_Init
    <2>2. QED
      BY <2>1 DEF Regular, Line, Supervised
  <1>3. QED
    BY <1>1, <1>2 DEF DeliveryInv

LEMMA NextDelivery ==
    DeliveryInv /\ [Next]_vars => DeliveryInv' /\ [Connection!Next]_<<sub, del>>
  <1> SUFFICES ASSUME DeliveryInv, [Next]_vars
               PROVE  DeliveryInv' /\ [Connection!Next]_<<sub, del>>
    OBVIOUS
  <1>1. Inv' /\ OneConnection
    BY NextInv DEF DeliveryInv
  <1>2. CASE UNCHANGED vars
    <2>1. /\ sm' = sm /\ net' = net /\ opens' = opens /\ sub' = sub /\ del' = del
          /\ \A r : Spent(r)' = Spent(r)
      BY <1>2 DEF vars, Spent
    <2>2. \A r \in SmRole :
            /\ Regular(sm[r])
            /\ opens[r] = 0 \/ Waiting(sm[r]) => del[r] = << >>
            /\ Line(opens[r], sm[r], sub[r], net[Peer(r)], sm[Peer(r)], del[Peer(r)],
                    Spent(r))
      BY DEF DeliveryInv
    <2>3. QED
      BY <1>1, <2>1, <2>2, Zenon DEF DeliveryInv
  <1>3. CASE Next
    <2>1. PICK r \in SmRole :
            \/ OpenConnection(r) \/ CloseConnection(r) \/ SendData(r) \/ Receive(r)
            \/ Lose(r) \/ Tick(r) \/ IdleTick(r)
      BY <1>3 DEF Next
    <2>2. GoesOnInOrder(r)
      BY <1>1, <2>1, OpenConnectionInOrder, CloseConnectionInOrder, SendDataInOrder,
         ReceiveInOrder, LoseInOrder, TickInOrder, IdleTickInOrder
    <2> DEFINE p == Peer(r)
    <2>3. /\ p \in SmRole /\ Peer(p) = r /\ \A q \in SmRole : q = r \/ q = p
          /\ Regular(sm[p]) /\ (opens[p] = 0 \/ Waiting(sm[p]) => del[p] = << >>)
      BY PeerOf, PeerOfPeer DEF DeliveryInv
    <2>4. /\ sm'[p] = sm[p] /\ opens'[p] = opens[p] /\ Spent(p)' = Spent(p)
          /\ sub'[p] = sub[p] /\ del'[p] = del[p]
          /\ Regular(sm'[r])
          /\ opens'[r] = 0 \/ Waiting(sm'[r]) => del'[r] = << >>
          /\ Line(opens'[r], sm'[r], sub'[r], net'[p], sm[p], del[p], Spent(r)')
          /\ Line(opens[p], sm[p], sub[p], net'[r], sm'[r], del'[r], Spent(p))
          /\ [Connection!Next]_<<sub, del>>
      BY <2>2, Zenon DEF GoesOnInOrder, LeavesAlone
    <2>5. \A q \in SmRole :
            /\ Regular(sm'[q])
            /\ opens'[q] = 0 \/ Waiting(sm'[q]) => del'[q] = << >>
            /\ Line(opens'[q], sm'[q], sub'[q], net'[Peer(q)], sm'[Peer(q)],
                    del'[Peer(q)], Spent(q)')
      <3>1. /\ Regular(sm'[r])
            /\ opens'[r] = 0 \/ Waiting(sm'[r]) => del'[r] = << >>
            /\ Line(opens'[r], sm'[r], sub'[r], net'[Peer(r)], sm'[Peer(r)],
                    del'[Peer(r)], Spent(r)')
        BY <2>4, Zenon
      <3>2. /\ Regular(sm'[p])
            /\ opens'[p] = 0 \/ Waiting(sm'[p]) => del'[p] = << >>
            /\ Line(opens'[p], sm'[p], sub'[p], net'[Peer(p)], sm'[Peer(p)],
                    del'[Peer(p)], Spent(p)')
        BY <2>3, <2>4, Zenon
      <3>3. QED
        BY <2>3, <3>1, <3>2, Zenon
    <2>6. QED
      BY <1>1, <2>4, <2>5, Zenon DEF DeliveryInv
  <1>4. QED
    BY <1>2, <1>3

(***************************************************************************)
(* One connection is a Pipe: on a network that loses, repeats and reorders *)
(* frames, whatever the applications do and the timers add, each of them   *)
(* takes in a prefix of what the other handed to SendSpdu, in order and    *)
(* nothing twice (the receipt paths of sm.c), as long as the numbers of    *)
(* the connection do not come round.                                       *)
(***************************************************************************)
THEOREM OneConnectionIsPipe == OneConnection /\ Spec => InOrderDelivery
  BY InitDelivery, NextDelivery, PTL DEF Spec, InOrderDelivery, Connection!Spec
=============================================================================
