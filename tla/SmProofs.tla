------------------------------ MODULE SmProofs ------------------------------
(***************************************************************************)
(* Lemmas about the state machine and the services, for every value of the *)
(* constants: what an event can lead to, and what every event keeps.  The  *)
(* proofs about Endpoint, Reentrant, Link, Process and Intake rest on      *)
(* them.                                                                   *)
(***************************************************************************)
EXTENDS SafeCom, TLAPS

(***************************************************************************)
(* The arithmetic of Pdu on residues stays within the residues.            *)
(***************************************************************************)
LEMMA SeqArithmetic ==
    ASSUME NEW n \in SeqNo
    PROVE  Inc(n) \in SeqNo /\ Dec(n) \in SeqNo
  BY SeqCountAssumption DEF SeqNo, Inc, Dec

LEMMA TimeArithmetic ==
    ASSUME NEW s \in Time, NEW t \in Time
    PROVE  Elapsed(s, t) \in Time /\ ToInt32(t) \in Int32
  BY TimeHalfAssumption DEF Time, TimeMod, Elapsed, ToInt32, Int32

LEMMA ClockArithmetic ==
    ASSUME NEW t \in Tlocal
    PROVE  /\ Later(t) \in Tlocal
           /\ t \in Time /\ Later(t) \in Time
           /\ ~(Later(t) < t) => Later(t) = t + 1
  BY TimeHalfAssumption, LastSecondAssumption DEF Tlocal, Time, TimeMod, Later

LEMMA Int32Arithmetic ==
    ASSUME NEW i \in Int32
    PROVE  DecInt32(i) \in Int32
  BY TimeHalfAssumption DEF Int32, DecInt32

LEMMA MonitoringTimeType ==
    ASSUME NEW ctsr \in Time, NEW now \in Time
    PROVE  MonitoringTime(ctsr, now) \in Int32
  <1>1. Tmax \in Time
    BY TmaxAssumption, TimeHalfAssumption DEF Time, TimeMod
  <1>2. Elapsed(ctsr, now) \in Time
    BY TimeArithmetic
  <1>3. QED
    BY <1>1, <1>2, TimeArithmetic DEF MonitoringTime

(***************************************************************************)
(* A second that passes shortens the monitoring time by one, wrapping as   *)
(* the -- of the timer loop does, unless Tlocal() starts again.            *)
(***************************************************************************)
LEMMA MonitoringTimeCountsDown ==
    ASSUME NEW ctsr \in Time, NEW now \in Time, now + 1 \in Time
    PROVE  MonitoringTime(ctsr, now + 1) = DecInt32(MonitoringTime(ctsr, now))
  BY TmaxAssumption, TimeHalfAssumption
     DEF MonitoringTime, Time, TimeMod, Elapsed, ToInt32, DecInt32
-----------------------------------------------------------------------------
(***************************************************************************)
(* What every handler keeps, from the context old to the context new at    *)
(* the time now.  A context that is not supervised is balanced.            *)
(***************************************************************************)
Balanced(self, now) == Supervised(self) => self.Ti = MonitoringTime(self.ctsr, now)

Smooth(old, new) ==
    Supervised(old) /\ Supervised(new) =>
        /\ new.snr \in {old.snr, Inc(old.snr)}
        /\ new.snt \in {old.snt, Inc(old.snt)}
        /\ Elapsed(old.ctsr, new.ctsr) < Tmax

Kept(old, new, now) ==
    /\ new \in SmType
    /\ new.role = old.role
    /\ Balanced(old, now) => Balanced(new, now)
    /\ Smooth(old, new)

(***************************************************************************)
(* The context is kept by a handler that does nothing and by one that      *)
(* closes the connection.                                                  *)
(***************************************************************************)
LEMMA NothingKept ==
    ASSUME NEW self \in SmType, NEW now \in Time
    PROVE  Kept(self, self, now)
  <1>1. Elapsed(self.ctsr, self.ctsr) = 0
    BY DEF SmType, Elapsed, Time
  <1>2. QED
    BY <1>1, TmaxAssumption DEF Kept, Smooth

LEMMA ClosedKept ==
    ASSUME NEW self \in SmType, NEW new \in SmType, NEW now,
           new.role = self.role, new.state = "STATE_CLOSED"
    PROVE  Kept(self, new, now)
  BY DEF Kept, Smooth, Balanced, Supervised

LEMMA CloseConnectionType ==
    ASSUME NEW self \in SmType, NEW pdu \in PDU_S
    PROVE  /\ close_connection(self, pdu) \in SmType
           /\ close_connection(self, pdu).role = self.role
           /\ close_connection(self, pdu).state = "STATE_CLOSED"
  BY DEF SmType, State, PDU_S, PduOf, close_connection

LEMMA CountedType ==
    ASSUME NEW self \in SmType
    PROVE  /\ Counted(self) \in SmType
           /\ Counted(self) = [self EXCEPT !.snt = Inc(self.snt)]
  BY SeqArithmetic DEF SmType, Counted

LEMMA DisconnectKept ==
    ASSUME NEW self \in SmType, NEW pdu \in PDU_S, NEW now, NEW discReason
    PROVE  /\ Kept(self, Disconnect(self, now, pdu, discReason).sm, now)
           /\ Disconnect(self, now, pdu, discReason).sm.state = "STATE_CLOSED"
  <1> DEFINE closed == close_connection(self, pdu)
  <1>1. closed \in SmType /\ closed.role = self.role /\ closed.state = "STATE_CLOSED"
    BY CloseConnectionType
  <1>2. /\ Counted(closed) \in SmType
        /\ Counted(closed).role = self.role
        /\ Counted(closed).state = "STATE_CLOSED"
    BY <1>1, CountedType DEF SmType
  <1>3. Disconnect(self, now, pdu, discReason).sm = Counted(closed)
    BY DEF Disconnect, Sending
  <1>4. QED
    BY <1>2, <1>3, ClosedKept

LEMMA CountedKept ==
    ASSUME NEW self \in SmType, NEW now \in Time
    PROVE  Kept(self, Counted(self), now)
  <1>1. Elapsed(self.ctsr, self.ctsr) = 0
    BY DEF SmType, Elapsed, Time
  <1>2. /\ Counted(self) \in SmType
        /\ Counted(self) = [self EXCEPT !.snt = Inc(self.snt)]
    BY CountedType
  <1>3. QED
    BY <1>1, <1>2, TmaxAssumption DEF Kept, Smooth, Balanced, Supervised, SmType

LEMMA SendHBKept ==
    ASSUME NEW self \in SmType, NEW now \in Time
    PROVE  Kept(self, SendHB(self, now).sm, now)
  BY CountedKept DEF SendHB, Sending

LEMMA RequestKept ==
    ASSUME NEW self \in SmType, NEW now \in Time, Supervised(self)
    PROVE  Kept(self, RequestRetransmission(self, now).sm, now)
  <1> DEFINE asking == [self EXCEPT !.state = "STATE_RETR_REQ"]
  <1>1. asking \in SmType /\ (Balanced(self, now) => Balanced(asking, now))
    BY DEF SmType, State, Balanced, Supervised
  <1>2. Kept(asking, Counted(asking), now)
    BY <1>1, CountedKept
  <1>3. RequestRetransmission(self, now).sm = Counted(asking)
    BY DEF RequestRetransmission, Sending
  <1>4. QED
    BY <1>1, <1>2, <1>3 DEF Kept, Smooth, Supervised, SmType

(***************************************************************************)
(* A regular receipt balances the times anew.  Kept by it are the numbers, *)
(* if it is in sequence, and the confirmed timestamps, if CTSinSeq.        *)
(***************************************************************************)
LEMMA ReceiptType ==
    ASSUME NEW self \in SmType, NEW now \in Time, NEW pdu \in PDU_S,
           NEW next \in State
    PROVE  /\ Receipt(self, now, pdu, next) \in SmType
           /\ Receipt(self, now, pdu, next).role = self.role
           /\ Receipt(self, now, pdu, next).state = next
           /\ Receipt(self, now, pdu, next).snr = Inc(pdu.sequence_number)
           /\ Receipt(self, now, pdu, next).snt = self.snt
           /\ Receipt(self, now, pdu, next).ctsr = pdu.confirmed_timestamp
           /\ Balanced(Receipt(self, now, pdu, next), now)
  <1>1. /\ pdu.sequence_number \in SeqNo
        /\ pdu.confirmed_sequence_number \in SeqNo
        /\ pdu.timestamp \in Time
        /\ pdu.confirmed_timestamp \in Time
    BY DEF PDU_S, PduOf
  <1>2. /\ Inc(pdu.sequence_number) \in SeqNo
        /\ Elapsed(pdu.confirmed_timestamp, now) \in Time
        /\ MonitoringTime(pdu.confirmed_timestamp, now) \in Int32
    BY <1>1, SeqArithmetic, TimeArithmetic, MonitoringTimeType
  <1>3. QED
    BY <1>1, <1>2
       DEF SmType, Receipt, UpdateTimes, process_regular_receipt, Balanced

-----------------------------------------------------------------------------
(***************************************************************************)
(* The eleven things that an event can lead to, each with the handlers in  *)
(* which it can.  r is the result of the handler.                          *)
(***************************************************************************)
Ignores(self, r) == r = Silently(self)

Closes(self, pdu, r) ==
    /\ self.handle_event # "STATE_CLOSED"
    /\ r = Silently(close_connection(self, pdu))

Disconnects(self, now, pdu, r) ==
    /\ self.handle_event # "STATE_CLOSED"
    /\ \E reason \in DiscReasonType : r = Disconnect(self, now, pdu, reason)

PassesOn(self, event, pdu, r) ==
    /\ self.handle_event \in {"STATE_UP", "STATE_RETR_REQ", "STATE_RETR_RUN"}
    /\ event = "EVENT_SEND_DATA"
    /\ r = Sending(self, pdu)

Listens(self, rand, event, r) ==
    /\ self.handle_event = "STATE_CLOSED" /\ self.role = "ROLE_SERVER"
    /\ event = "EVENT_OPEN_CONN"
    /\ r = Silently([[self EXCEPT !.snt = rand] EXCEPT !.state = "STATE_DOWN"])

Calling(self, now, rand) ==
    [[self EXCEPT !.snt = rand] EXCEPT !.cst = 0, !.ctsr = now,
                                       !.state = "STATE_START"]

Calls(self, now, rand, event, r) ==
    /\ self.handle_event = "STATE_CLOSED" /\ self.role # "ROLE_SERVER"
    /\ event = "EVENT_OPEN_CONN"
    /\ r = Sending(Calling(self, now, rand), ConnReq(Calling(self, now, rand), now))

Answering(self, now, pdu) ==
    UpdateTimes([process_regular_receipt(self, pdu) EXCEPT
                   !.csr = Dec(self.snt),
                   !.ctsr = now,
                   !.state = "STATE_START"], now)

Answers(self, now, event, pdu, r) ==
    /\ self.handle_event = "STATE_DOWN"
    /\ event = "EVENT_RECV_CONN_REQ"
    /\ r = Sending(Answering(self, now, pdu), ConnResp(Answering(self, now, pdu), now))

Connects(self, now, event, pdu, r) ==
    /\ self.handle_event = "STATE_START" /\ self.role # "ROLE_SERVER"
    /\ event = "EVENT_RECV_CONN_RESP"
    /\ r = SendHB(Receipt(self, now, pdu, "STATE_UP"), now)

Receives(self, now, event, pdu, r) ==
    /\ \/ self.handle_event \in {"STATE_UP", "STATE_RETR_RUN"}
       \/ self.handle_event = "STATE_START" /\ self.role # "ROLE_CLIENT"
    /\ event \in {"EVENT_RECV_HB", "EVENT_RECV_DATA", "EVENT_RECV_RETR_DATA"}
    /\ SNinSeq(self, pdu) /\ check_seq_confirmed_timestamp(self, pdu)
    /\ \E next \in {"STATE_UP", "STATE_RETR_RUN"} :
         r = Silently(Receipt(self, now, pdu, next))

Requests(self, now, pdu, r) ==
    /\ self.handle_event \in {"STATE_UP", "STATE_RETR_RUN"}
    /\ r = RequestRetransmission(self, now)

Resumes(self, event, r) ==
    /\ self.handle_event = "STATE_RETR_REQ"
    /\ event = "EVENT_RECV_RETR_RESP"
    /\ r = Silently([self EXCEPT !.state = "STATE_RETR_RUN"])

Outcome(self, now, rand, event, pdu, r) ==
    \/ Ignores(self, r)
    \/ Closes(self, pdu, r)
    \/ Disconnects(self, now, pdu, r)
    \/ PassesOn(self, event, pdu, r)
    \/ Listens(self, rand, event, r)
    \/ Calls(self, now, rand, event, r)
    \/ Answers(self, now, event, pdu, r)
    \/ Connects(self, now, event, pdu, r)
    \/ Receives(self, now, event, pdu, r)
    \/ Requests(self, now, pdu, r)
    \/ Resumes(self, event, r)

(***************************************************************************)
(* No handler does anything else, whatever the state it is called in.      *)
(***************************************************************************)
LEMMA HandledOutcome ==
    ASSUME NEW self, self.handle_event \in State,
           NEW now, NEW rand, NEW event, NEW pdu
    PROVE  Outcome(self, now, rand, event, pdu, Handled(self, now, rand, event, pdu))
  <1> DEFINE r == Handled(self, now, rand, event, pdu)
             out == Outcome(self, now, rand, event, pdu, r)
  <1>1. CASE self.handle_event = "STATE_CLOSED"
    <2>1. r = handle_closed(self, now, rand, event, pdu)
      BY <1>1 DEF Handled
    <2>2. \/ Ignores(self, r) \/ Listens(self, rand, event, r)
          \/ Calls(self, now, rand, event, r)
      BY <1>1, <2>1 DEF handle_closed, Ignores, Listens, Calls, Calling
    <2>3. QED
      BY <2>2 DEF Outcome
  <1>2. CASE self.handle_event = "STATE_DOWN"
    <2>1. r = handle_down(self, now, event, pdu)
      BY <1>2 DEF Handled
    <2>2. \/ Ignores(self, r) \/ Closes(self, pdu, r)
          \/ Disconnects(self, now, pdu, r) \/ Answers(self, now, event, pdu, r)
      BY <1>2, <2>1 DEF handle_down, Ignores, Closes, Disconnects, Answers,
                        Answering, DiscReasonType
    <2>3. QED
      BY <2>2 DEF Outcome
  <1>3. CASE self.handle_event = "STATE_START"
    <2>1. r = handle_start(self, now, event, pdu)
      BY <1>3 DEF Handled
    <2>2. \/ Ignores(self, r) \/ Closes(self, pdu, r)
          \/ Disconnects(self, now, pdu, r) \/ Connects(self, now, event, pdu, r)
          \/ Receives(self, now, event, pdu, r)
      BY <1>3, <2>1 DEF handle_start, Unexpected, ReceiveInSeq, Ignores, Closes,
                        Disconnects, Connects, Receives, DiscReasonType
    <2>3. QED
      BY <2>2 DEF Outcome
  <1>4. CASE self.handle_event = "STATE_UP"
    <2>1. r = handle_up(self, now, event, pdu)
      BY <1>4 DEF Handled
    <2>2. \/ Ignores(self, r) \/ Closes(self, pdu, r)
          \/ Disconnects(self, now, pdu, r) \/ PassesOn(self, event, pdu, r)
          \/ Receives(self, now, event, pdu, r) \/ Requests(self, now, pdu, r)
      BY <1>4, <2>1 DEF handle_up, Unexpected, ReceiveOrRequest, ReceiveInSeq,
                        AnswerRetrReq, unconfirmed_payload_available,
                        Ignores, Closes, Disconnects, PassesOn, Receives,
                        Requests, DiscReasonType
    <2>3. QED
      BY <2>2 DEF Outcome
  <1>5. CASE self.handle_event = "STATE_RETR_REQ"
    <2>1. r = handle_retr_req(self, now, event, pdu)
      BY <1>5 DEF Handled
    <2>2. \/ Ignores(self, r) \/ Closes(self, pdu, r)
          \/ Disconnects(self, now, pdu, r) \/ PassesOn(self, event, pdu, r)
          \/ Resumes(self, event, r)
      BY <1>5, <2>1 DEF handle_retr_req, Unexpected, AnswerRetrReq,
                        unconfirmed_payload_available, Ignores, Closes,
                        Disconnects, PassesOn, Resumes, DiscReasonType
    <2>3. QED
      BY <2>2 DEF Outcome
  <1>6. CASE self.handle_event = "STATE_RETR_RUN"
    <2>1. r = handle_retr_run(self, now, event, pdu)
      BY <1>6 DEF Handled
    <2>2. \/ Ignores(self, r) \/ Closes(self, pdu, r)
          \/ Disconnects(self, now, pdu, r) \/ PassesOn(self, event, pdu, r)
          \/ Receives(self, now, event, pdu, r) \/ Requests(self, now, pdu, r)
      BY <1>6, <2>1 DEF handle_retr_run, Unexpected, ReceiveOrRequest, ReceiveInSeq,
                        AnswerRetrReq, unconfirmed_payload_available,
                        Ignores, Closes, Disconnects, PassesOn, Receives,
                        Requests, DiscReasonType
    <2>3. QED
      BY <2>2 DEF Outcome
  <1>7. QED
    BY <1>1, <1>2, <1>3, <1>4, <1>5, <1>6 DEF State

(***************************************************************************)
(* The installed handler is the one of the state.  It is so before and     *)
(* after every event, unless a callback calls back (Reentrant).            *)
(***************************************************************************)
HandlerSet(self) == self.handle_event = self.state

(***************************************************************************)
(* A handler that is called in its own state keeps the context.            *)
(***************************************************************************)
LEMMA OpeningKept ==
    ASSUME NEW self \in SmType, NEW now \in Time, NEW rand \in SeqNo,
           NEW event, NEW r, HandlerSet(self),
           Listens(self, rand, event, r) \/ Calls(self, now, rand, event, r)
    PROVE  Kept(self, r.sm, now)
  <1>1. 0 \in SeqNo
    BY SeqCountAssumption DEF SeqNo
  <1>2. CASE Listens(self, rand, event, r)
    BY <1>2 DEF Listens, HandlerSet, Silently, Kept, Balanced, Smooth,
                Supervised, SmType, State
  <1>3. CASE Calls(self, now, rand, event, r)
    BY <1>1, <1>3 DEF Calls, Calling, HandlerSet, Sending, Kept, Balanced,
                      Smooth, Supervised, SmType, State
  <1>4. QED
    BY <1>2, <1>3

LEMMA AnsweringType ==
    ASSUME NEW self \in SmType, NEW now \in Time, NEW pdu \in PDU_S
    PROVE  /\ Answering(self, now, pdu) \in SmType
           /\ Answering(self, now, pdu).role = self.role
           /\ Answering(self, now, pdu).state = "STATE_START"
           /\ Answering(self, now, pdu).handle_event = self.handle_event
           /\ Answering(self, now, pdu).ctsr = now
           /\ Answering(self, now, pdu).Ti = MonitoringTime(now, now)
  <1>1. /\ pdu.sequence_number \in SeqNo
        /\ pdu.timestamp \in Time
        /\ self.snt \in SeqNo
    BY DEF PDU_S, PduOf, SmType
  <1>2. /\ Inc(pdu.sequence_number) \in SeqNo
        /\ Dec(self.snt) \in SeqNo
        /\ Elapsed(now, now) \in Time
        /\ MonitoringTime(now, now) \in Int32
    BY <1>1, SeqArithmetic, TimeArithmetic, MonitoringTimeType
  <1>3. QED
    BY <1>1, <1>2 DEF Answering, SmType, State, UpdateTimes,
                      process_regular_receipt

LEMMA OutcomeKept ==
    ASSUME NEW self \in SmType, NEW now \in Time, NEW rand \in SeqNo,
           NEW event, NEW pdu \in PDU_S, NEW r, HandlerSet(self),
           Outcome(self, now, rand, event, pdu, r)
    PROVE  Kept(self, r.sm, now)
  <1>1. CASE Ignores(self, r) \/ PassesOn(self, event, pdu, r)
    BY <1>1, NothingKept DEF Ignores, PassesOn, Silently, Sending
  <1>2. CASE Closes(self, pdu, r)
    BY <1>2, CloseConnectionType, ClosedKept DEF Closes, Silently
  <1>3. CASE Disconnects(self, now, pdu, r)
    BY <1>3, DisconnectKept DEF Disconnects
  <1>4. CASE Listens(self, rand, event, r) \/ Calls(self, now, rand, event, r)
    BY <1>4, OpeningKept
  <1>5. CASE Answers(self, now, event, pdu, r)
    <2>1. r.sm = Answering(self, now, pdu) /\ ~Supervised(self)
      BY <1>5 DEF Answers, Sending, HandlerSet, Supervised
    <2>2. QED
      BY <2>1, AnsweringType DEF Kept, Balanced, Smooth
  <1>6. CASE Connects(self, now, event, pdu, r)
    <2> DEFINE up == Receipt(self, now, pdu, "STATE_UP")
    <2>1. up \in SmType /\ up.role = self.role /\ Balanced(up, now)
      BY ReceiptType DEF State
    <2>2. Kept(up, r.sm, now)
      BY <1>6, <2>1, SendHBKept DEF Connects
    <2>3. ~Supervised(self)
      BY <1>6 DEF Connects, Supervised, HandlerSet
    <2>4. QED
      BY <2>1, <2>2, <2>3 DEF Kept, Smooth
  <1>7. CASE Receives(self, now, event, pdu, r)
    <2>1. PICK next \in State : r.sm = Receipt(self, now, pdu, next)
      BY <1>7 DEF Receives, Silently, State
    <2>2. /\ Elapsed(self.ctsr, pdu.confirmed_timestamp) < Tmax
          /\ self.snr = pdu.sequence_number
      BY <1>7 DEF Receives, check_seq_confirmed_timestamp, SNinSeq
    <2>3. QED
      BY <2>1, <2>2, ReceiptType DEF Kept, Smooth
  <1>8. CASE Requests(self, now, pdu, r)
    <2>1. Supervised(self)
      BY <1>8 DEF Requests, Supervised, HandlerSet
    <2>2. QED
      BY <1>8, <2>1, RequestKept DEF Requests
  <1>9. CASE Resumes(self, event, r)
    <2>1. Kept(self, self, now)
      BY NothingKept
    <2>2. r.sm = [self EXCEPT !.state = "STATE_RETR_RUN"]
      BY <1>9 DEF Resumes, Silently
    <2>3. QED
      BY <1>9, <2>1, <2>2 DEF Resumes, HandlerSet, Kept, Smooth, Balanced,
                              Supervised, SmType, State
  <1>10. QED
    BY <1>1, <1>2, <1>3, <1>4, <1>5, <1>6, <1>7, <1>8, <1>9 DEF Outcome

LEMMA HandledKept ==
    ASSUME NEW self \in SmType, NEW now \in Time, NEW rand \in SeqNo,
           NEW event, NEW pdu \in PDU_S, HandlerSet(self)
    PROVE  Kept(self, Handled(self, now, rand, event, pdu).sm, now)
  <1>1. self.handle_event \in State
    BY DEF SmType
  <1>2. QED
    BY <1>1, HandledOutcome, OutcomeKept

LEMMA TimerHandledKept ==
    ASSUME NEW self \in SmType, NEW now \in Time, NEW event, NEW pdu \in PDU_S
    PROVE  Kept(self, TimerHandled(self, now, event, pdu).sm, now)
  BY DisconnectKept, NothingKept, SendHBKept DEF TimerHandled, Silently

LEMMA InstallKept ==
    ASSUME NEW old \in SmType, NEW new, NEW now, Kept(old, new, now)
    PROVE  /\ Kept(old, [new EXCEPT !.handle_event = new.state], now)
           /\ HandlerSet([new EXCEPT !.handle_event = new.state])
  BY DEF Kept, Balanced, Smooth, Supervised, HandlerSet, SmType

LEMMA HandleEventKept ==
    ASSUME NEW self \in SmType, NEW now \in Time, NEW rand \in SeqNo,
           NEW event, NEW pdu \in PDU_S,
           HandlerSet(self)
    PROVE  /\ Kept(self, Sm_HandleEvent(self, now, rand, event, pdu).sm, now)
           /\ HandlerSet(Sm_HandleEvent(self, now, rand, event, pdu).sm)
  <1> DEFINE r == IF event \in {"EVENT_TH_ELAPSED", "EVENT_TI_ELAPSED"}
                  THEN TimerHandled(self, now, event, pdu)
                  ELSE Handled(self, now, rand, event, pdu)
  <1>1. Kept(self, r.sm, now)
    BY HandledKept, TimerHandledKept
  <1>2. Sm_HandleEvent(self, now, rand, event, pdu).sm
          = [r.sm EXCEPT !.handle_event = r.sm.state]
    BY DEF Sm_HandleEvent
  <1> HIDE DEF r
  <1>3. QED
    BY <1>1, <1>2, InstallKept

LEMMA LocalPduType ==
    ASSUME NEW n \in SeqNo
    PROVE  LocalPdu(n) \in PDU_S
  BY SeqCountAssumption, TimeHalfAssumption
     DEF LocalPdu, PDU_S, PduOf, SeqNo, Time, TimeMod, Payload, NoType, NoPayload

(***************************************************************************)
(* A message to send is counted before the event is handled; no handler    *)
(* counts it again.                                                        *)
(***************************************************************************)
LEMMA SendDataLeaves ==
    ASSUME NEW self \in SmType, NEW now, NEW pdu \in PDU_S, HandlerSet(self)
    PROVE  LET r == Sm_HandleEvent(self, now, NotDrawn, "EVENT_SEND_DATA", pdu)
           IN  \/ r.sm = self
               \/ r.sm \in SmType /\ r.sm.role = self.role
                                   /\ r.sm.state = "STATE_CLOSED"
                                   /\ r.sm.handle_event = "STATE_CLOSED"
  <1> DEFINE h == Handled(self, now, NotDrawn, "EVENT_SEND_DATA", pdu)
             closed == close_connection(self, pdu)
  <1>1. self.state \in State /\ self.handle_event = self.state
    BY DEF SmType, HandlerSet
  <1>2. \/ h.sm = self
        \/ h.sm = closed
        \/ h.sm = Disconnect(self, now, pdu, "STATE_SERVICE_NOT_ALLOWED").sm
    <2>1. CASE self.state = "STATE_CLOSED"
      BY <1>1, <2>1 DEF Handled, handle_closed, Silently
    <2>2. CASE self.state = "STATE_DOWN"
      BY <1>1, <2>2 DEF Handled, handle_down, Silently
    <2>3. CASE self.state = "STATE_START"
      BY <1>1, <2>3 DEF Handled, handle_start
    <2>4. CASE self.state = "STATE_UP"
      BY <1>1, <2>4 DEF Handled, handle_up, Sending
    <2>5. CASE self.state = "STATE_RETR_REQ"
      BY <1>1, <2>5 DEF Handled, handle_retr_req, Sending
    <2>6. CASE self.state = "STATE_RETR_RUN"
      BY <1>1, <2>6 DEF Handled, handle_retr_run, Sending
    <2>7. QED
      BY <1>1, <2>1, <2>2, <2>3, <2>4, <2>5, <2>6 DEF State
  <1>3. \/ h.sm = self
        \/ h.sm \in SmType /\ h.sm.role = self.role /\ h.sm.state = "STATE_CLOSED"
    BY <1>2, CloseConnectionType, DisconnectKept DEF Kept
  <1>4. Sm_HandleEvent(self, now, NotDrawn, "EVENT_SEND_DATA", pdu).sm
          = [h.sm EXCEPT !.handle_event = h.sm.state]
    BY DEF Sm_HandleEvent
  <1> HIDE DEF h
  <1>5. QED
    BY <1>1, <1>3, <1>4 DEF SmType
-----------------------------------------------------------------------------
(***************************************************************************)
(* One pass of the timer loop, a second after Ti was balanced.             *)
(***************************************************************************)
LEMMA TimerEventCloses ==
    ASSUME NEW self \in SmType, NEW now, NEW pdu \in PDU_S
    PROVE  Sm_HandleEvent(self, now, NotDrawn, "EVENT_TI_ELAPSED", pdu).sm.state
             = "STATE_CLOSED"
  <1> DEFINE r == Disconnect(self, now, pdu, "TIMEOUT_INCOMING_MSG")
  <1>1. r.sm \in SmType /\ r.sm.state = "STATE_CLOSED"
    BY DisconnectKept DEF Kept
  <1>2. Sm_HandleEvent(self, now, NotDrawn, "EVENT_TI_ELAPSED", pdu).sm
          = [r.sm EXCEPT !.handle_event = r.sm.state]
    BY DEF Sm_HandleEvent, TimerHandled
  <1> HIDE DEF r
  <1>3. QED
    BY <1>1, <1>2 DEF SmType

LEMMA AfterThKept ==
    ASSUME NEW self \in SmType, NEW now \in Time, NEW seq \in SeqNo,
           HandlerSet(self)
    PROVE  /\ Kept(self, AfterTh(self, now, seq).sm, now)
           /\ HandlerSet(AfterTh(self, now, seq).sm)
           /\ LeftInPdu(AfterTh(self, now, seq), seq) \in SeqNo
  <1> DEFINE r == Sm_HandleEvent(self, now, NotDrawn, "EVENT_TH_ELAPSED",
                                 LocalPdu(seq))
  <1>1. NotDrawn \in SeqNo
    BY SeqCountAssumption DEF NotDrawn, SeqNo
  <1>2. Kept(self, r.sm, now) /\ HandlerSet(r.sm)
    BY <1>1, LocalPduType, HandleEventKept
  <1>3. Kept(self, Silently(self).sm, now) /\ HandlerSet(Silently(self).sm)
    BY NothingKept DEF Silently
  <1>4. LeftInPdu(r, seq) \in SeqNo
    <2>1. \/ r.sent = << >>
          \/ r.sent = <<HB(Counted(self), now)>>
      BY DEF Sm_HandleEvent, TimerHandled, Silently, SendHB, Sending
    <2>2. HB(Counted(self), now).sequence_number \in SeqNo
      BY CountedType DEF HB, Confirming, SmType
    <2>3. QED
      BY <2>1, <2>2 DEF LeftInPdu
  <1>5. LeftInPdu(Silently(self), seq) \in SeqNo
    BY DEF LeftInPdu, Silently
  <1>6. AfterTh(self, now, seq) = r \/ AfterTh(self, now, seq) = Silently(self)
    BY DEF AfterTh
  <1> HIDE DEF r
  <1>7. QED
    BY <1>2, <1>3, <1>4, <1>5, <1>6

LEMMA TimerPassKept ==
    ASSUME NEW self \in SmType, NEW t \in Tlocal, NEW seq \in SeqNo,
           HandlerSet(self)
    PROVE  LET r == TimerPass(self, Later(t), seq)
           IN  /\ r.sm \in SmType
               /\ r.sm.role = self.role
               /\ Balanced(self, t) /\ ~(Later(t) < t) => Balanced(r.sm, Later(t))
               /\ Smooth(self, r.sm)
               /\ HandlerSet(r.sm)
               /\ AfterPass(r, seq) \in SeqNo
  <1> DEFINE now == Later(t)
             counted == [self EXCEPT !.Ti = DecInt32(self.Ti)]
             th == AfterTh(counted, now, seq)
             ti == Sm_HandleEvent(th.sm, now, NotDrawn, "EVENT_TI_ELAPSED",
                                  LocalPdu(LeftInPdu(th, seq)))
             r == TimerPass(self, now, seq)
  <1>1. now \in Time /\ NotDrawn \in SeqNo /\ 0 \in SeqNo
    BY ClockArithmetic, SeqCountAssumption DEF NotDrawn, SeqNo
  <1>2. counted \in SmType /\ HandlerSet(counted) /\ counted.role = self.role
    BY Int32Arithmetic DEF SmType, HandlerSet
  <1>3. Balanced(self, t) /\ ~(now < t) => Balanced(counted, now)
    BY ClockArithmetic, MonitoringTimeCountsDown DEF Balanced, Supervised, SmType
  <1> HIDE DEF now
  <1>4. Kept(counted, th.sm, now) /\ HandlerSet(th.sm) /\ LeftInPdu(th, seq) \in SeqNo
    BY <1>1, <1>2, AfterThKept
  <1>5. /\ th.sm \in SmType
        /\ th.sm.role = self.role
        /\ Balanced(counted, now) => Balanced(th.sm, now)
        /\ Smooth(self, th.sm)
    BY <1>2, <1>4 DEF Kept, Smooth, Supervised, SmType
  <1> HIDE DEF th
  <1>6. Kept(th.sm, ti.sm, now) /\ HandlerSet(ti.sm) /\ ti.sm.state = "STATE_CLOSED"
    BY <1>1, <1>4, LocalPduType, HandleEventKept, TimerEventCloses DEF Kept
  <1>7. /\ ti.sm \in SmType
        /\ ti.sm.role = self.role
        /\ Balanced(ti.sm, now)
        /\ Smooth(self, ti.sm)
    BY <1>5, <1>6 DEF Kept, Balanced, Smooth, Supervised
  <1>8. r = th \/ r.sm = ti.sm
    BY DEF TimerPass, th
  <1> HIDE DEF ti, r
  <1>9. /\ r.sm \in SmType
        /\ r.sm.role = self.role
        /\ Balanced(counted, now) => Balanced(r.sm, now)
        /\ Smooth(self, r.sm)
        /\ HandlerSet(r.sm)
        /\ AfterPass(r, seq) \in SeqNo
    <2>1. CASE r = th
      BY <1>1, <1>4, <1>5, <2>1 DEF AfterPass
    <2>2. CASE r.sm = ti.sm
      BY <1>1, <1>6, <1>7, <2>2 DEF AfterPass
    <2>3. QED
      BY <1>8, <2>1, <2>2
  <1>10. QED
    BY <1>3, <1>9 DEF now, r
=============================================================================
