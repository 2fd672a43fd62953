----------------------------- MODULE LinkProofs -----------------------------
(***************************************************************************)
(* Proofs about Link, for every value of its constants and whatever the    *)
(* network does: the types, the invariant MonitoringWithinTmax and the     *)
(* action properties GapIsFatal and LateIsNoticed.                         *)
(***************************************************************************)
EXTENDS Link, SmProofs, SequenceTheorems

(***************************************************************************)
(* Tlocal() stays so far below TimeMod that, on its values, the unsigned   *)
(* arithmetic of the monitoring time is the arithmetic of the integers.    *)
(***************************************************************************)
LEMMA MonitoringTimeIsExact ==
    ASSUME NEW c \in Tlocal, NEW now \in Tlocal
    PROVE  /\ MonitoringTime(c, now) = Tmax + c - now
           /\ -TimeHalf < MonitoringTime(c, now)
  BY LinkAssumption, LastSecondAssumption, TmaxAssumption, TimeHalfAssumption
     DEF Tlocal, MonitoringTime, Elapsed, ToInt32, TimeMod

LEMMA CtsIsExact ==
    ASSUME NEW s \in Tlocal, NEW t \in Tlocal, Elapsed(s, t) < Tmax
    PROVE  s <= t
  BY LinkAssumption, LastSecondAssumption, TmaxAssumption, TimeHalfAssumption
     DEF Tlocal, Elapsed, TimeMod

LEMMA PeerOf ==
    ASSUME NEW r \in SmRole
    PROVE  Peer(r) \in SmRole /\ Peer(r) # r /\ SmRole = {r, Peer(r)}
  BY DEF SmRole, Peer

LEMMA RemoveAtType ==
    ASSUME NEW S, NEW s \in Seq(S), NEW i \in DOMAIN s
    PROVE  RemoveAt(s, i) \in Seq(S)
  <1>1. i \in 1 .. Len(s) /\ Len(s) \in Nat
    BY LenProperties
  <1>2. SubSeq(s, 1, i - 1) \in Seq(S)
    <2>1. \A j \in 1 .. i - 1 : s[j] \in S
      BY <1>1, ElementOfSeq
    <2>2. QED
      BY <1>1, <2>1, SubSeqProperties
  <1>3. SubSeq(s, i + 1, Len(s)) \in Seq(S)
    <2>1. \A j \in i + 1 .. Len(s) : s[j] \in S
      BY <1>1, ElementOfSeq
    <2>2. QED
      BY <1>1, <2>1, SubSeqProperties
  <1>4. QED
    BY <1>2, <1>3, ConcatProperties DEF RemoveAt
-----------------------------------------------------------------------------
(***************************************************************************)
(* The frames an endpoint of this code can send at the time now, when      *)
(* known holds the timestamps it may confirm.  None of them is a           *)
(* retransmission.                                                         *)
(***************************************************************************)
Lawful ==
    {f \in Frame :
       /\ f.message_type \notin {"RETRANSMISSION_RESPONSE", "RETRANSMITTED_DATA"}
       /\ f.message_type = "DATA" => f.payload \in AppData
       /\ f.timestamp \in Tlocal
       /\ f.confirmed_timestamp \in Tlocal}

SentAt(now, known) ==
    {f \in Lawful : f.timestamp = now /\ f.confirmed_timestamp \in known}

LEMMA ConfirmingSent ==
    ASSUME NEW known \in SUBSET Tlocal, NEW now \in Tlocal,
           NEW self \in SmType, self.ctsr \in known,
           NEW type \in MessageType \ {"RETRANSMISSION_RESPONSE",
                                       "RETRANSMITTED_DATA", "CONNECTION_REQUEST"},
           NEW load \in Payload,
           type = "CONNECTION_RESPONSE" => load # NoPayload,
           type = "DATA" => load \in AppData
    PROVE  Confirming(self, now, type, load) \in SentAt(now, known)
  <1>1. now \in Time
    BY ClockArithmetic
  <1>2. Confirming(self, now, type, load) \in Frame
    BY <1>1 DEF Confirming, Frame, PduOf, SmType
  <1>3. QED
    BY <1>2 DEF Confirming, SentAt, Lawful

LEMMA ConnReqSent ==
    ASSUME NEW known \in SUBSET Tlocal, 0 \in known, NEW now \in Tlocal,
           NEW self \in SmType
    PROVE  ConnReq(self, now) \in SentAt(now, known)
  <1>1. now \in Time /\ 0 \in Time /\ 0 \in SeqNo
    BY ClockArithmetic, SeqCountAssumption DEF SeqNo
  <1>2. ConnReq(self, now) \in Frame
    BY <1>1 DEF ConnReq, Frame, PduOf, SmType, MessageType, Payload,
                PROTOCOL_VERSION, NoPayload
  <1>3. QED
    BY <1>2 DEF ConnReq, SentAt, Lawful

(***************************************************************************)
(* What a call at the time now does to the monitoring time: it is reckoned *)
(* anew, in a server never from an earlier timestamp than before, or kept. *)
(***************************************************************************)
Timed(old, new, now) ==
    Supervised(new) =>
        \/ /\ new.Ti = MonitoringTime(new.ctsr, now)
           /\ new.role = "ROLE_SERVER" =>
                IF Supervised(old) THEN old.ctsr <= new.ctsr ELSE new.ctsr = now
        \/ Supervised(old) /\ new.Ti = old.Ti /\ new.ctsr = old.ctsr

Effect(self, now, known, new, sent) ==
    /\ sent \in Seq(SentAt(now, known))
    /\ new.ctsr \in known
    /\ Timed(self, new, now)

LEMMA DisconnectIs ==
    ASSUME NEW self \in SmType, NEW now, NEW pdu \in PDU_S,
           NEW r, Disconnects(self, now, pdu, r)
    PROVE  /\ r.sm \in SmType
           /\ r.sm.state = "STATE_CLOSED"
           /\ r.sm.cst = pdu.sequence_number
           /\ r.sm.ctsr = self.ctsr
           /\ r.sm.snr = self.snr
           /\ r.sm.snt = Inc(self.snt)
           /\ \E reason \in DiscReasonType :
                r.sent = Sending(r.sm, DiscReq(r.sm, now, reason)).sent
  <1> PICK reason \in DiscReasonType : r = Disconnect(self, now, pdu, reason)
    BY DEF Disconnects
  <1> DEFINE closed == close_connection(self, pdu)
             counted == Counted(closed)
  <1>1. /\ closed \in SmType /\ closed.state = "STATE_CLOSED"
        /\ closed.cst = pdu.sequence_number /\ closed.ctsr = self.ctsr
        /\ closed.snr = self.snr /\ closed.snt = self.snt
    BY CloseConnectionType DEF close_connection, SmType
  <1>2. counted \in SmType /\ counted = [closed EXCEPT !.snt = Inc(closed.snt)]
    BY <1>1, CountedType
  <1>3. r.sm = counted /\ r.sent = Sending(r.sm, DiscReq(r.sm, now, reason)).sent
    BY DEF Disconnect, Sending
  <1> HIDE DEF closed
  <1>4. QED
    BY <1>1, <1>2, <1>3 DEF SmType

(***************************************************************************)
(* Every outcome of an event has such an effect, and no outcome but a      *)
(* receipt makes a connected endpoint take in a frame.                     *)
(***************************************************************************)
LEMMA OutcomeEffect ==
    ASSUME NEW known \in SUBSET Tlocal, NEW now \in Tlocal,
           NEW self \in SmType, NEW rand \in SeqNo, NEW event,
           NEW pdu \in PDU_S, NEW r,
           {0, now, self.ctsr, pdu.confirmed_timestamp} \subseteq known,
           event = "EVENT_SEND_DATA" => pdu \in SentAt(now, known),
           HandlerSet(self),
           Outcome(self, now, rand, event, pdu, r)
    PROVE  Effect(self, now, known, r.sm, r.sent)
  <1> DEFINE S == SentAt(now, known)
  <1>1. now \in Time /\ 0 \in SeqNo /\ << >> \in Seq(S)
    BY ClockArithmetic, SeqCountAssumption DEF SeqNo
  <1>2. \A f \in S : <<f>> \in Seq(S)
    OBVIOUS
  <1>3. r.sm \in SmType
    BY <1>1, OutcomeKept DEF Kept
  <1> HIDE DEF S
  <1>4. CASE Ignores(self, r) \/ PassesOn(self, event, pdu, r)
    <2>1. /\ r.sm = self
          /\ r.sent = << >> \/ (r.sent = <<pdu>> /\ pdu \in S)
      BY <1>4 DEF Ignores, PassesOn, Silently, Sending, S
    <2>2. QED
      BY <1>1, <1>2, <2>1 DEF Effect, Timed, S
  <1>5. CASE Closes(self, pdu, r)
    BY <1>1, <1>5 DEF Closes, close_connection, SmType, Silently, Effect, Timed,
                      Supervised, S
  <1>6. CASE Disconnects(self, now, pdu, r)
    <2>1. r.sm.state = "STATE_CLOSED" /\ r.sm.ctsr = self.ctsr
      BY <1>6, DisconnectIs
    <2>2. PICK reason \in DiscReasonType :
            r.sent = Sending(r.sm, DiscReq(r.sm, now, reason)).sent
      BY <1>6, DisconnectIs
    <2>3. DiscReq(r.sm, now, reason) \in S
      BY <1>3, <2>1, ConfirmingSent DEF DiscReq, MessageType, Payload, S
    <2>4. r.sent \in Seq(S)
      BY <1>2, <2>2, <2>3 DEF Sending
    <2>5. QED
      BY <2>1, <2>4 DEF Effect, Timed, Supervised, S
  <1>7. CASE Listens(self, rand, event, r)
    BY <1>1, <1>7 DEF Listens, Silently, Effect, Timed, Supervised, SmType, S
  <1>8. CASE Calls(self, now, rand, event, r)
    <2>1. r.sm = Calling(self, now, rand) /\ r.sent = <<ConnReq(r.sm, now)>>
      BY <1>8 DEF Calls, Sending
    <2>2. ConnReq(r.sm, now) \in S
      BY <1>3, ConnReqSent DEF S
    <2>3. r.sm.ctsr = now /\ ~Supervised(r.sm)
      BY <1>8, <2>1 DEF Calls, Calling, SmType, Supervised
    <2>4. QED
      BY <1>2, <2>1, <2>2, <2>3 DEF Effect, Timed, S
  <1>9. CASE Answers(self, now, event, pdu, r)
    <2>1. /\ r.sm = Answering(self, now, pdu)
          /\ r.sent = <<Confirming(r.sm, now, "CONNECTION_RESPONSE", PROTOCOL_VERSION)>>
      BY <1>9 DEF Answers, Sending, ConnResp
    <2>2. /\ r.sm.ctsr = now
          /\ r.sm.Ti = MonitoringTime(now, now)
          /\ r.sm.state = "STATE_START"
          /\ ~Supervised(self)
      BY <1>1, <1>9, <2>1, AnsweringType DEF Answers, HandlerSet, Supervised
    <2>3. Confirming(r.sm, now, "CONNECTION_RESPONSE", PROTOCOL_VERSION) \in S
      BY <1>3, <2>2, ConfirmingSent
         DEF MessageType, Payload, PROTOCOL_VERSION, NoPayload, S
    <2>4. QED
      BY <1>2, <2>1, <2>2, <2>3 DEF Effect, Timed, S
  <1>10. CASE Connects(self, now, event, pdu, r)
    <2> DEFINE up == Receipt(self, now, pdu, "STATE_UP")
    <2>1. /\ up \in SmType /\ up.role = self.role /\ up.state = "STATE_UP"
          /\ up.ctsr = pdu.confirmed_timestamp /\ Balanced(up, now)
      BY <1>1, ReceiptType DEF State
    <2>2. Counted(up) \in SmType /\ Counted(up) = [up EXCEPT !.snt = Inc(up.snt)]
      BY <2>1, CountedType
    <2>3. /\ r.sm = Counted(up)
          /\ r.sent = <<Confirming(r.sm, now, "HEARTBEAT", NoPayload)>>
      BY <1>10 DEF Connects, SendHB, Sending, HB
    <2> HIDE DEF up
    <2>4. /\ r.sm.ctsr = pdu.confirmed_timestamp
          /\ r.sm.Ti = MonitoringTime(r.sm.ctsr, now)
          /\ r.sm.role # "ROLE_SERVER"
      BY <1>10, <2>1, <2>2, <2>3 DEF Connects, SmType, Balanced, Supervised
    <2>5. Confirming(r.sm, now, "HEARTBEAT", NoPayload) \in S
      BY <1>3, <2>4, ConfirmingSent DEF MessageType, Payload, S
    <2>6. QED
      BY <1>2, <2>3, <2>4, <2>5 DEF Effect, Timed, S
  <1>11. CASE Receives(self, now, event, pdu, r)
    <2>1. PICK next \in {"STATE_UP", "STATE_RETR_RUN"} :
            r = Silently(Receipt(self, now, pdu, next))
      BY <1>11 DEF Receives
    <2>2. /\ r.sm.ctsr = pdu.confirmed_timestamp
          /\ Balanced(r.sm, now)
          /\ r.sent = << >>
      <3>1. r.sm = Receipt(self, now, pdu, next) /\ r.sent = << >>
        BY <2>1 DEF Silently
      <3>2. next \in State
        BY DEF State
      <3>3. QED
        BY <1>1, <3>1, <3>2, ReceiptType
    <2>3. self.role = "ROLE_SERVER" => Supervised(self)
      BY <1>11 DEF Receives, HandlerSet, Supervised
    <2>4. self.ctsr <= pdu.confirmed_timestamp
      BY <1>11, CtsIsExact DEF Receives, check_seq_confirmed_timestamp
    <2>5. r.sm.role = self.role
      BY <1>1, OutcomeKept DEF Kept
    <2>6. QED
      BY <1>1, <2>2, <2>3, <2>4, <2>5 DEF Effect, Timed, Balanced, S
  <1>12. CASE Requests(self, now, pdu, r)
    <2> DEFINE asking == [self EXCEPT !.state = "STATE_RETR_REQ"]
    <2>1. asking \in SmType
      BY DEF SmType, State
    <2>2. Counted(asking) = [asking EXCEPT !.snt = Inc(asking.snt)]
      BY <2>1, CountedType
    <2>3. /\ r.sm = Counted(asking)
          /\ r.sent = <<Confirming(r.sm, now, "RETRANSMISSION_REQUEST", NoPayload)>>
      BY <1>12 DEF Requests, RequestRetransmission, Sending, RetrReq
    <2>4. r.sm.ctsr = self.ctsr /\ r.sm.Ti = self.Ti /\ Supervised(self)
      BY <1>12, <2>2, <2>3 DEF SmType, Requests, HandlerSet, Supervised
    <2>5. Confirming(r.sm, now, "RETRANSMISSION_REQUEST", NoPayload) \in S
      BY <1>3, <2>4, ConfirmingSent DEF MessageType, Payload, S
    <2>6. QED
      BY <1>2, <2>3, <2>4, <2>5 DEF Effect, Timed, S
  <1>13. CASE Resumes(self, event, r)
    BY <1>1, <1>13 DEF Resumes, Silently, HandlerSet, Effect, Timed, Supervised,
                       SmType, S
  <1>14. QED
    BY <1>4, <1>5, <1>6, <1>7, <1>8, <1>9, <1>10, <1>11, <1>12, <1>13 DEF Outcome

(***************************************************************************)
(* What an event does to a connection, besides: an endpoint that waits for *)
(* a retransmission goes on waiting or closes, and a frame that is taken   *)
(* in leaves its timestamps behind.                                        *)
(***************************************************************************)
KeepsWaiting(old, event, new) ==
    old.state = "STATE_RETR_REQ" /\ event # "EVENT_RECV_RETR_RESP" =>
        new.state \in {"STATE_RETR_REQ", "STATE_CLOSED"}

TakenFrom(old, now, event, pdu, new) ==
    Supervised(old) /\ Supervised(new) /\ new.snr # old.snr =>
        /\ event \in ReceiptEvent
        /\ new.tsr = pdu.timestamp
        /\ new.ctsr = pdu.confirmed_timestamp
        /\ new.Ti = MonitoringTime(new.ctsr, now)

Course(self, now, event, pdu, new) ==
    /\ KeepsWaiting(self, event, new)
    /\ TakenFrom(self, now, event, pdu, new)

LEMMA OutcomeCourse ==
    ASSUME NEW now \in Time, NEW self \in SmType, NEW rand \in SeqNo,
           NEW event, NEW pdu \in PDU_S, NEW r,
           HandlerSet(self), Outcome(self, now, rand, event, pdu, r)
    PROVE  Course(self, now, event, pdu, r.sm)
  <1> USE DEF Course, KeepsWaiting, TakenFrom
  <1>1. CASE Ignores(self, r) \/ PassesOn(self, event, pdu, r)
    <2>1. r.sm = self
      BY <1>1 DEF Ignores, PassesOn, Silently, Sending
    <2>2. QED
      BY <2>1
  <1>2. CASE Closes(self, pdu, r)
    <2>1. r.sm.state = "STATE_CLOSED" /\ ~Supervised(r.sm)
      BY <1>2, CloseConnectionType DEF Closes, Silently, Supervised
    <2>2. QED
      BY <2>1
  <1>3. CASE Disconnects(self, now, pdu, r)
    <2>1. r.sm.state = "STATE_CLOSED" /\ ~Supervised(r.sm)
      BY <1>3, DisconnectIs DEF Supervised
    <2>2. QED
      BY <2>1
  <1>4. CASE \/ Listens(self, rand, event, r) \/ Calls(self, now, rand, event, r)
             \/ Answers(self, now, event, pdu, r)
             \/ Connects(self, now, event, pdu, r)
    <2>1. ~Supervised(self) /\ self.state # "STATE_RETR_REQ"
      BY <1>4 DEF Listens, Calls, Answers, Connects, HandlerSet, Supervised
    <2>2. QED
      BY <2>1
  <1>5. CASE Receives(self, now, event, pdu, r)
    <2>1. PICK next \in {"STATE_UP", "STATE_RETR_RUN"} :
            r = Silently(Receipt(self, now, pdu, next))
      BY <1>5 DEF Receives
    <2>2. r.sm = Receipt(self, now, pdu, next)
      BY <2>1 DEF Silently
    <2>3. /\ r.sm.tsr = pdu.timestamp
          /\ r.sm.ctsr = pdu.confirmed_timestamp
          /\ Supervised(r.sm) => r.sm.Ti = MonitoringTime(r.sm.ctsr, now)
      <3>1. next \in State
        BY DEF State
      <3>2. r.sm.ctsr = pdu.confirmed_timestamp /\ Balanced(r.sm, now)
        BY <2>2, <3>1, ReceiptType
      <3>3. r.sm.tsr = pdu.timestamp
        BY <2>2 DEF Receipt, UpdateTimes, process_regular_receipt, SmType
      <3>4. QED
        BY <3>2, <3>3 DEF Balanced
    <2>4. event \in ReceiptEvent /\ self.state # "STATE_RETR_REQ"
      BY <1>5 DEF Receives, ReceiptEvent, HandlerSet
    <2>5. QED
      BY <2>2, <2>3, <2>4
  <1>6. CASE Requests(self, now, pdu, r)
    <2> DEFINE asking == [self EXCEPT !.state = "STATE_RETR_REQ"]
    <2>1. asking \in SmType
      BY DEF SmType, State
    <2>2. Counted(asking) = [asking EXCEPT !.snt = Inc(asking.snt)]
      BY <2>1, CountedType
    <2>3. r.sm = Counted(asking)
      BY <1>6 DEF Requests, RequestRetransmission, Sending
    <2>4. r.sm.snr = self.snr /\ r.sm.state = "STATE_RETR_REQ"
      BY <2>2, <2>3 DEF SmType
    <2>5. QED
      BY <2>4 DEF Supervised
  <1>7. CASE Resumes(self, event, r)
    <2>1. r.sm = [self EXCEPT !.state = "STATE_RETR_RUN"]
      BY <1>7 DEF Resumes, Silently
    <2>2. r.sm.snr = self.snr
      BY <2>1 DEF SmType
    <2>3. QED
      BY <1>7, <2>1, <2>2 DEF Resumes
  <1>8. QED
    BY <1>1, <1>2, <1>3, <1>4, <1>5, <1>6, <1>7 DEF Outcome

(***************************************************************************)
(* The same of the events of the services and of a frame.                  *)
(***************************************************************************)
TimerEvent == {"EVENT_TH_ELAPSED", "EVENT_TI_ELAPSED"}

LEMMA InstallEffect ==
    ASSUME NEW self, NEW now, NEW known, NEW event, NEW pdu,
           NEW new \in SmType, NEW sent,
           Effect(self, now, known, new, sent),
           Course(self, now, event, pdu, new)
    PROVE  LET set == [new EXCEPT !.handle_event = new.state]
           IN  /\ Effect(self, now, known, set, sent)
               /\ Course(self, now, event, pdu, set)
  BY DEF Effect, Timed, Course, KeepsWaiting, TakenFrom, Supervised, SmType

LEMMA HandleEventEffect ==
    ASSUME NEW known \in SUBSET Tlocal, NEW now \in Tlocal,
           NEW self \in SmType, NEW rand \in SeqNo, NEW event,
           event \notin TimerEvent,
           NEW pdu \in PDU_S,
           {0, now, self.ctsr, pdu.confirmed_timestamp} \subseteq known,
           event = "EVENT_SEND_DATA" => pdu \in SentAt(now, known),
           HandlerSet(self),
           NEW res, res = Sm_HandleEvent(self, now, rand, event, pdu)
    PROVE  /\ res.sm \in SmType
           /\ res.sm.role = self.role
           /\ HandlerSet(res.sm)
           /\ Effect(self, now, known, res.sm, res.sent)
           /\ Course(self, now, event, pdu, res.sm)
  <1> DEFINE r == Handled(self, now, rand, event, pdu)
  <1>1. now \in Time /\ self.handle_event \in State
    BY ClockArithmetic DEF SmType
  <1>2. Outcome(self, now, rand, event, pdu, r)
    BY <1>1, HandledOutcome
  <1>3. r.sm \in SmType
    BY <1>1, HandledKept DEF Kept
  <1>4. Effect(self, now, known, r.sm, r.sent)
    BY <1>2, OutcomeEffect
  <1>5. Course(self, now, event, pdu, r.sm)
    BY <1>1, <1>2, OutcomeCourse
  <1>6. res.sm = [r.sm EXCEPT !.handle_event = r.sm.state] /\ res.sent = r.sent
    BY DEF Sm_HandleEvent, TimerEvent
  <1> HIDE DEF r
  <1>7. /\ Effect(self, now, known, res.sm, res.sent)
        /\ Course(self, now, event, pdu, res.sm)
    BY <1>3, <1>4, <1>5, <1>6, InstallEffect
  <1>8. res.sm \in SmType /\ res.sm.role = self.role /\ HandlerSet(res.sm)
    BY <1>1, HandleEventKept DEF Kept
  <1>9. QED
    BY <1>7, <1>8

(***************************************************************************)
(* A pass of the timer loop: at most a heartbeat and, if Ti has run out,   *)
(* the disconnection.                                                      *)
(***************************************************************************)
LEMMA InstallNothing ==
    ASSUME NEW self \in SmType, HandlerSet(self)
    PROVE  [self EXCEPT !.handle_event = self.state] = self
  BY DEF SmType, HandlerSet

LEMMA AfterThIs ==
    ASSUME NEW self \in SmType, HandlerSet(self), NEW now, NEW seq,
           NEW r, r = AfterTh(self, now, seq)
    PROVE  \/ r.sm = self /\ r.sent = << >>
           \/ /\ self.state \notin {"STATE_CLOSED", "STATE_DOWN"}
              /\ r.sm = Counted(self)
              /\ r.sent = Sending(r.sm, HB(Counted(self), now)).sent
  <1> DEFINE h == TimerHandled(self, now, "EVENT_TH_ELAPSED", LocalPdu(seq))
             beat == HB(Counted(self), now)
  <1>1. Counted(self) \in SmType /\ HandlerSet(Counted(self))
    BY CountedType DEF SmType, HandlerSet
  <1>2. \/ h.sm = self /\ h.sent = << >>
        \/ /\ self.state \notin {"STATE_CLOSED", "STATE_DOWN"}
           /\ h.sm = Counted(self) /\ h.sent = Sending(h.sm, beat).sent
    BY DEF TimerHandled, Silently, SendHB, Sending
  <1>3. \/ r.sm = self /\ r.sent = << >>
        \/ r.sm = [h.sm EXCEPT !.handle_event = h.sm.state] /\ r.sent = h.sent
    BY DEF AfterTh, Sm_HandleEvent, Silently
  <1> HIDE DEF h
  <1>4. h.sm = self \/ h.sm = Counted(self) => [h.sm EXCEPT !.handle_event = h.sm.state] = h.sm
    BY <1>1, InstallNothing
  <1>5. Sending(h.sm, beat).sent = Sending(Counted(self), beat).sent
    BY DEF Sending
  <1>6. QED
    BY <1>2, <1>3, <1>4, <1>5

LEMMA TimeoutIs ==
    ASSUME NEW self \in SmType, NEW now, NEW pdu \in PDU_S,
           self.handle_event # "STATE_CLOSED",
           NEW r, r = Sm_HandleEvent(self, now, NotDrawn, "EVENT_TI_ELAPSED", pdu)
    PROVE  /\ r.sm \in SmType
           /\ r.sm.state = "STATE_CLOSED"
           /\ r.sm.cst = pdu.sequence_number
           /\ r.sm.ctsr = self.ctsr
           /\ r.sm.snr = self.snr
           /\ r.sm.snt = Inc(self.snt)
           /\ \E reason \in DiscReasonType :
                r.sent = Sending(r.sm, DiscReq(r.sm, now, reason)).sent
  <1> DEFINE h == Disconnect(self, now, pdu, "TIMEOUT_INCOMING_MSG")
  <1>1. Disconnects(self, now, pdu, h)
    BY DEF Disconnects, DiscReasonType
  <1>2. r.sm = [h.sm EXCEPT !.handle_event = h.sm.state] /\ r.sent = h.sent
    BY DEF Sm_HandleEvent, TimerHandled
  <1> HIDE DEF h
  <1>3. /\ h.sm \in SmType /\ h.sm.state = "STATE_CLOSED"
        /\ h.sm.cst = pdu.sequence_number /\ h.sm.ctsr = self.ctsr
        /\ h.sm.snr = self.snr /\ h.sm.snt = Inc(self.snt)
    BY <1>1, DisconnectIs
  <1>4. PICK reason \in DiscReasonType :
          h.sent = Sending(h.sm, DiscReq(h.sm, now, reason)).sent
    BY <1>1, DisconnectIs
  <1>5. /\ r.sm \in SmType /\ r.sm.state = "STATE_CLOSED"
        /\ r.sm.cst = h.sm.cst /\ r.sm.ctsr = h.sm.ctsr
        /\ r.sm.snr = h.sm.snr /\ r.sm.snt = h.sm.snt
    BY <1>2, <1>3 DEF SmType
  <1>6. DiscReq(r.sm, now, reason) = DiscReq(h.sm, now, reason)
    BY <1>5 DEF DiscReq, Confirming
  <1>7. r.sent = Sending(r.sm, DiscReq(r.sm, now, reason)).sent
    BY <1>2, <1>4, <1>6 DEF Sending
  <1>8. QED
    BY <1>3, <1>5, <1>7

LEMMA SendingOne ==
    ASSUME NEW S, NEW self, NEW f \in S, NEW sent, sent = Sending(self, f).sent
    PROVE  sent \in Seq(S) /\ sent[1] = f
  BY DEF Sending

PassLasts(old, new) ==
    /\ new.state = old.state
    /\ new.snr = old.snr
    /\ new.ctsr = old.ctsr
    /\ new.Ti = DecInt32(old.Ti)
    /\ new.Ti > 0

PassEnds(old, new) ==
    /\ new.state = "STATE_CLOSED"
    /\ new.ctsr = old.ctsr

LEMMA TimerPassEffect ==
    ASSUME NEW known \in SUBSET Tlocal, NEW now \in Tlocal,
           NEW self \in SmType, NEW seq \in SeqNo,
           {now, self.ctsr} \subseteq known,
           HandlerSet(self), self.state # "STATE_CLOSED",
           NEW res, res = TimerPass(self, now, seq)
    PROVE  /\ res.sent \in Seq(SentAt(now, known))
           /\ PassLasts(self, res.sm) \/ PassEnds(self, res.sm)
  <1> DEFINE S == SentAt(now, known)
             counted == [self EXCEPT !.Ti = DecInt32(self.Ti)]
             th == AfterTh(counted, now, seq)
             left == LeftInPdu(th, seq)
             ti == Sm_HandleEvent(th.sm, now, NotDrawn, "EVENT_TI_ELAPSED",
                                  LocalPdu(left))
             both == th.sent \o ti.sent
  <1>1. /\ counted \in SmType /\ HandlerSet(counted)
        /\ counted.ctsr = self.ctsr /\ counted.snr = self.snr
        /\ counted.snt = self.snt /\ counted.state = self.state
        /\ counted.Ti = DecInt32(self.Ti)
    BY Int32Arithmetic DEF SmType, HandlerSet
  <1>2. \/ res = th /\ th.sm.Ti > 0
        \/ res.sm = ti.sm /\ res.sent = both
    <2>1. th.sm \in SmType
      <3>1. now \in Time
        BY ClockArithmetic
      <3>2. QED
        BY <1>1, <3>1, AfterThKept DEF Kept
    <2>2. th.sm.Ti \in Int
      BY <2>1, TimeHalfAssumption DEF SmType, Int32
    <2>3. res = IF th.sm.Ti <= 0 THEN [sm |-> ti.sm, sent |-> both] ELSE th
      BY DEF TimerPass
    <2> HIDE DEF th, ti, both
    <2>4. QED
      BY <2>2, <2>3
  <1> HIDE DEF counted, S, both
  <1>3. /\ Counted(counted) \in SmType
        /\ Counted(counted) = [counted EXCEPT !.snt = Inc(counted.snt)]
    BY <1>1, CountedType
  <1>4. \/ th.sm = counted /\ th.sent = << >>
        \/ /\ th.sm = Counted(counted)
           /\ th.sent = Sending(th.sm, HB(Counted(counted), now)).sent
    BY <1>1, AfterThIs
  <1>5. HB(Counted(counted), now) \in S
    BY <1>1, <1>3, ConfirmingSent DEF HB, MessageType, Payload, SmType, S
  <1> HIDE DEF th
  <1>6. th.sent \in Seq(S)
    <2>1. CASE th.sent = << >>
      BY <2>1, EmptySeq, Zenon
    <2>2. CASE th.sent = Sending(th.sm, HB(Counted(counted), now)).sent
      BY <1>5, <2>2, SendingOne
    <2>3. QED
      BY <1>4, <2>1, <2>2
  <1>7. /\ th.sm \in SmType /\ th.sm.ctsr = self.ctsr /\ th.sm.snr = self.snr
        /\ th.sm.state = self.state /\ th.sm.handle_event # "STATE_CLOSED"
        /\ th.sm.Ti = DecInt32(self.Ti)
    BY <1>1, <1>3, <1>4 DEF SmType, HandlerSet
  <1>8. left \in SeqNo
    <2>1. th.sent = << >> \/ th.sent[1] = HB(Counted(counted), now)
      BY <1>4, <1>5, SendingOne
    <2>2. HB(Counted(counted), now).sequence_number \in SeqNo
      BY <1>3 DEF HB, Confirming, SmType
    <2>3. QED
      BY <2>1, <2>2 DEF LeftInPdu, left
  <1> HIDE DEF left
  <1>9. LocalPdu(left) \in PDU_S
    BY <1>8, LocalPduType
  <1>10. ti.sm \in SmType /\ ti.sm.state = "STATE_CLOSED" /\ ti.sm.ctsr = self.ctsr
    BY <1>7, <1>9, TimeoutIs
  <1>11. PICK reason \in DiscReasonType :
           ti.sent = Sending(ti.sm, DiscReq(ti.sm, now, reason)).sent
    BY <1>7, <1>9, TimeoutIs
  <1> HIDE DEF ti
  <1>12. DiscReq(ti.sm, now, reason) \in S
    BY <1>10, ConfirmingSent DEF DiscReq, MessageType, Payload, S
  <1>13. ti.sent \in Seq(S)
    BY <1>11, <1>12, SendingOne
  <1>14. CASE res = th /\ th.sm.Ti > 0
    BY <1>6, <1>7, <1>14 DEF S, PassLasts
  <1>15. CASE res.sm = ti.sm /\ res.sent = both
    <2>1. both \in Seq(S)
      BY <1>6, <1>13, ConcatProperties, Zenon DEF both
    <2>2. QED
      BY <1>10, <1>15, <2>1 DEF S, PassEnds
  <1>16. QED
    BY <1>2, <1>14, <1>15
-----------------------------------------------------------------------------
(***************************************************************************)
(* The clocks, as functions of the seconds ck that the processes have      *)
(* used.  While Tlocal() has not started again, the timestamps in          *)
(* circulation (KnownAt) are those that one of the clocks has reached.     *)
(***************************************************************************)
NowAt(ck, r) == (Boot + ck[r]) % (LastSecond + 1)

RestartedAt(ck) == \E r \in SmRole : Boot + ck[r] > LastSecond

CloseAt(ck) == \A r, q \in SmRole : ck[r] <= ck[q] + Lead

KnownAt(ck) ==
    {t \in Tlocal : RestartedAt(ck) \/ \E r \in SmRole : t <= Boot + ck[r]}

(***************************************************************************)
(* The frames in transit: an endpoint confirms no timestamp that is later  *)
(* than its own clock, up to Lead.                                         *)
(***************************************************************************)
SoundAt(ck) ==
    {f \in Lawful :
       /\ f.confirmed_timestamp \in KnownAt(ck)
       /\ RestartedAt(ck) \/ f.confirmed_timestamp <= f.timestamp + Lead}

\* now is the value of Tlocal() in r's process.
TellsAt(ck, r, now) ==
    /\ now \in KnownAt(ck)
    /\ RestartedAt(ck) \/ now = Boot + ck[r]

LEMMA Remainder ==
    ASSUME NEW a \in Nat, NEW b \in Nat, b > 0
    PROVE  a % b \in 0 .. b - 1 /\ (a < b => a % b = a)
  OBVIOUS

LEMMA NowTells ==
    ASSUME NEW ck \in [SmRole -> Nat], NEW r \in SmRole
    PROVE  /\ NowAt(ck, r) \in Tlocal
           /\ TellsAt(ck, r, NowAt(ck, r))
           /\ 0 \in KnownAt(ck)
  <1> DEFINE a == Boot + ck[r]
             b == LastSecond + 1
  <1>1. a \in Nat /\ b \in Nat /\ b > 0 /\ 0 <= a
    BY LinkAssumption, LastSecondAssumption, TimeHalfAssumption DEF Tlocal, TimeMod
  <1>2. NowAt(ck, r) = a % b
    BY DEF NowAt
  <1>3. a % b \in 0 .. b - 1 /\ (a < b => a % b = a)
    BY <1>1, Remainder
  <1>4. RestartedAt(ck) \/ a < b
    BY <1>1, LastSecondAssumption, TimeHalfAssumption DEF RestartedAt, TimeMod
  <1>5. NowAt(ck, r) \in Tlocal /\ 0 \in Tlocal
    BY <1>2, <1>3, LastSecondAssumption, TimeHalfAssumption DEF Tlocal, TimeMod
  <1>6. RestartedAt(ck) \/ NowAt(ck, r) = a
    BY <1>2, <1>3, <1>4
  <1>7. QED
    BY <1>1, <1>5, <1>6 DEF TellsAt, KnownAt

LEMMA LaterTells ==
    ASSUME NEW ck \in [SmRole -> Nat], NEW r \in SmRole,
           NEW next, next = [ck EXCEPT ![r] = ck[r] + 1]
    PROVE  TellsAt(next, r, Later(NowAt(ck, r)))
  <1>1. /\ NowAt(ck, r) \in Tlocal
        /\ RestartedAt(ck) \/ NowAt(ck, r) = Boot + ck[r]
    BY NowTells DEF TellsAt
  <1>2. Later(NowAt(ck, r)) \in Tlocal
    BY <1>1, ClockArithmetic
  <1>3. next[r] = ck[r] + 1 /\ (RestartedAt(ck) => RestartedAt(next))
    BY LinkAssumption, LastSecondAssumption, TimeHalfAssumption
       DEF RestartedAt, Tlocal, TimeMod
  <1>4. RestartedAt(next) \/ Boot + next[r] <= LastSecond
    BY <1>3, LinkAssumption, LastSecondAssumption, TimeHalfAssumption
       DEF RestartedAt, Tlocal, TimeMod
  <1>5. RestartedAt(next) \/ Later(NowAt(ck, r)) = Boot + next[r]
    BY <1>1, <1>3, <1>4, LinkAssumption, LastSecondAssumption, TimeHalfAssumption
       DEF Later, Tlocal, TimeMod
  <1>6. QED
    BY <1>2, <1>5, LastSecondAssumption, TimeHalfAssumption
       DEF TellsAt, KnownAt, Tlocal, TimeMod

LEMMA TimeGrows ==
    ASSUME NEW ck \in [SmRole -> Nat], NEW next \in [SmRole -> Nat],
           \A r \in SmRole : ck[r] <= next[r]
    PROVE  /\ RestartedAt(ck) => RestartedAt(next)
           /\ KnownAt(ck) \subseteq KnownAt(next)
           /\ SoundAt(ck) \subseteq SoundAt(next)
  <1>1. Boot \in Nat /\ LastSecond \in Nat
    BY LinkAssumption, LastSecondAssumption, TimeHalfAssumption DEF Tlocal, TimeMod
  <1>2. RestartedAt(ck) => RestartedAt(next)
    BY <1>1 DEF RestartedAt
  <1>3. KnownAt(ck) \subseteq KnownAt(next)
    BY <1>1, <1>2 DEF KnownAt, Tlocal
  <1>4. SoundAt(ck) \subseteq SoundAt(next)
    <2>1. SUFFICES ASSUME NEW f \in SoundAt(ck) PROVE f \in SoundAt(next)
      OBVIOUS
    <2>2. CASE RestartedAt(next)
      BY <1>3, <2>2 DEF SoundAt
    <2>3. CASE ~RestartedAt(next)
      BY <1>2, <1>3, <2>3 DEF SoundAt
    <2>4. QED
      BY <2>2, <2>3
  <1>5. QED
    BY <1>2, <1>3, <1>4

(***************************************************************************)
(* The clocks are close, so no timestamp in circulation is more than Lead  *)
(* ahead of the clock of either process.                                   *)
(***************************************************************************)
LEMMA KnownIsClose ==
    ASSUME NEW ck \in [SmRole -> Nat], CloseAt(ck), ~RestartedAt(ck),
           NEW r \in SmRole, NEW t \in KnownAt(ck)
    PROVE  t <= Boot + ck[r] + Lead
  BY LinkAssumption DEF CloseAt, KnownAt, Tlocal

LEMMA SentIsSound ==
    ASSUME NEW ck \in [SmRole -> Nat], CloseAt(ck), NEW r \in SmRole,
           NEW now, TellsAt(ck, r, now)
    PROVE  SentAt(now, KnownAt(ck)) \subseteq SoundAt(ck)
  <1> SUFFICES ASSUME NEW f \in SentAt(now, KnownAt(ck)) PROVE f \in SoundAt(ck)
    OBVIOUS
  <1>1. f \in Lawful /\ f.timestamp = now /\ f.confirmed_timestamp \in KnownAt(ck)
    BY DEF SentAt
  <1>2. ~RestartedAt(ck) => f.confirmed_timestamp <= now + Lead
    BY <1>1, KnownIsClose DEF TellsAt
  <1>3. QED
    BY <1>1, <1>2 DEF SoundAt
-----------------------------------------------------------------------------
(***************************************************************************)
(* The inductive invariant.  MonitoringWithinTmax is not inductive alone:  *)
(* Ti is reckoned from the confirmed timestamp of a frame, so those in     *)
(* transit must not be ahead of the clocks, nor those in the contexts that *)
(* the frames are built from, and the clocks must be close.  For a server  *)
(* Ti has besides to agree with its clock and not to have run out, which   *)
(* is what LateIsNoticed rests on.                                         *)
(***************************************************************************)
Monitored(self, ck, r) ==
    Supervised(self) =>
        /\ -TimeHalf < self.Ti
        /\ self.Ti <= Tmax + Lead + (IF RestartedAt(ck) THEN LastSecond + 1 ELSE 0)
        /\ r = "ROLE_SERVER" /\ ~RestartedAt(ck) =>
             0 < self.Ti /\ self.Ti = Tmax + self.ctsr - (Boot + ck[r])

ContextSound(self, ck, r) ==
    /\ self.role = r
    /\ HandlerSet(self)
    /\ self.ctsr \in KnownAt(ck)
    /\ Monitored(self, ck, r)

Inv ==
    /\ TypeOK
    /\ CloseAt(clock)
    /\ net \in [SmRole -> Seq(SoundAt(clock))]
    /\ \A r \in SmRole : ContextSound(sm[r], clock, r)

LEMMA LinkConstants ==
    /\ Boot \in Nat /\ Boot <= LastSecond
    /\ LastSecond \in Nat /\ Lead \in Nat /\ Tmax \in Nat /\ TimeHalf \in Nat
    /\ 0 < Lead /\ 0 < Tmax /\ 2 <= TimeHalf
    /\ LastSecond + Tmax < TimeHalf
  BY LinkAssumption, LastSecondAssumption, TmaxAssumption, TimeHalfAssumption
     DEF Tlocal, TimeMod

(***************************************************************************)
(* What keeps the monitoring time: a call, a pass of the timer loop, and   *)
(* the other process's clock.                                              *)
(***************************************************************************)
LEMMA CallMonitored ==
    ASSUME NEW ck \in [SmRole -> Nat], CloseAt(ck), NEW r \in SmRole,
           NEW now, TellsAt(ck, r, now),
           NEW old \in SmType, NEW new \in SmType, new.role = r,
           old.ctsr \in KnownAt(ck), new.ctsr \in KnownAt(ck),
           Timed(old, new, now), Monitored(old, ck, r)
    PROVE  Monitored(new, ck, r)
  <1> SUFFICES ASSUME Supervised(new) PROVE Monitored(new, ck, r)
    BY DEF Monitored
  <1>1. CASE Supervised(old) /\ new.Ti = old.Ti /\ new.ctsr = old.ctsr
    BY <1>1 DEF Monitored
  <1>2. CASE /\ new.Ti = MonitoringTime(new.ctsr, now)
             /\ r = "ROLE_SERVER" =>
                  IF Supervised(old) THEN old.ctsr <= new.ctsr ELSE new.ctsr = now
    <2>1. now \in Tlocal /\ new.ctsr \in Tlocal /\ old.ctsr \in Tlocal
      BY DEF TellsAt, KnownAt
    <2>2. new.Ti = Tmax + new.ctsr - now /\ -TimeHalf < new.Ti
      BY <1>2, <2>1, MonitoringTimeIsExact
    <2>3. now \in Nat /\ new.ctsr \in Nat /\ old.ctsr \in Nat
          /\ new.ctsr <= LastSecond /\ ck[r] \in Nat
      BY <2>1, LinkConstants DEF Tlocal
    <2>4. CASE RestartedAt(ck)
      BY <2>2, <2>3, <2>4, LinkConstants DEF Monitored
    <2>5. CASE ~RestartedAt(ck)
      <3>1. now = Boot + ck[r] /\ new.ctsr <= now + Lead
        BY <2>5, KnownIsClose DEF TellsAt
      <3>2. r = "ROLE_SERVER" => 0 < new.Ti
        <4>1. ASSUME r = "ROLE_SERVER", Supervised(old) PROVE 0 < new.Ti
          <5>1. /\ 0 < old.Ti /\ old.Ti = Tmax + old.ctsr - now
                /\ old.ctsr <= new.ctsr
            BY <1>2, <2>5, <3>1, <4>1 DEF Monitored
          <5>2. QED
            BY <2>2, <2>3, <5>1, LinkConstants
        <4>2. ASSUME r = "ROLE_SERVER", ~Supervised(old) PROVE 0 < new.Ti
          BY <1>2, <2>2, <2>3, <4>2, LinkConstants
        <4>3. QED
          BY <4>1, <4>2
      <3>3. new.Ti <= Tmax + Lead
        BY <2>2, <2>3, <3>1, LinkConstants
      <3>4. QED
        BY <2>2, <2>3, <2>5, <3>1, <3>2, <3>3, LinkConstants DEF Monitored
    <2>6. QED
      BY <2>4, <2>5
  <1>3. QED
    BY <1>1, <1>2 DEF Timed

LEMMA PassMonitored ==
    ASSUME NEW ck \in [SmRole -> Nat], NEW next \in [SmRole -> Nat],
           \A q \in SmRole : ck[q] <= next[q],
           NEW r \in SmRole, next[r] = ck[r] + 1,
           NEW old \in SmType, NEW new \in SmType,
           old.role = r, new.role = r, Monitored(old, ck, r), PassLasts(old, new)
    PROVE  Monitored(new, next, r)
  <1> SUFFICES ASSUME Supervised(new) PROVE Monitored(new, next, r)
    BY DEF Monitored
  <1>1. Supervised(old) /\ new.Ti > 0 /\ new.ctsr = old.ctsr
    BY DEF Supervised, PassLasts
  <1>2. old.Ti \in Int /\ old.ctsr \in Int /\ -TimeHalf < old.Ti /\ ck[r] \in Nat
    BY <1>1, LinkConstants DEF Monitored, SmType, Int32, Time, TimeMod
  <1>3. new.Ti = old.Ti - 1
    BY <1>2, LinkConstants DEF DecInt32, PassLasts
  <1>4. RestartedAt(ck) => RestartedAt(next)
    BY TimeGrows
  <1>5. QED
    BY <1>1, <1>2, <1>3, <1>4, LinkConstants DEF Monitored

LEMMA StillSound ==
    ASSUME NEW ck \in [SmRole -> Nat], NEW next \in [SmRole -> Nat],
           \A q \in SmRole : ck[q] <= next[q],
           NEW r \in SmRole, next[r] = ck[r],
           NEW self \in SmType, ContextSound(self, ck, r)
    PROVE  ContextSound(self, next, r)
  <1>1. /\ RestartedAt(ck) => RestartedAt(next)
        /\ KnownAt(ck) \subseteq KnownAt(next)
    BY TimeGrows
  <1>2. self.Ti \in Int
    BY LinkConstants DEF SmType, Int32
  <1>3. Monitored(self, next, r)
    BY <1>1, <1>2, LinkConstants DEF ContextSound, Monitored
  <1>4. QED
    BY <1>1, <1>3 DEF ContextSound

(***************************************************************************)
(* A call by r reaches the context of r and the two queues, nothing else.  *)
(***************************************************************************)
LEMMA CallIs ==
    ASSUME NEW r \in SmRole, NEW res, NEW inbox, Call(r, res, inbox),
           NEW S, NEW T, net \in [SmRole -> S], sm \in [SmRole -> T]
    PROVE  /\ sm' = [sm EXCEPT ![r] = res.sm]
           /\ sm'[r] = res.sm /\ sm'[Peer(r)] = sm[Peer(r)]
           /\ net'[r] = inbox
           /\ net'[Peer(r)] = net[Peer(r)] \o res.sent
           /\ net' = [q \in SmRole |-> net'[q]]
  <1> DEFINE out == net[Peer(r)] \o res.sent
  <1>1. Peer(r) \in SmRole /\ Peer(r) # r
    BY PeerOf
  <1>2. [net EXCEPT ![r] = inbox][Peer(r)] = net[Peer(r)]
    BY <1>1
  <1>3. net' = [[net EXCEPT ![r] = inbox] EXCEPT ![Peer(r)] = out]
    BY <1>2, Zenon DEF Call
  <1> HIDE DEF out
  <1>4. net'[r] = inbox /\ net'[Peer(r)] = out /\ net' = [q \in SmRole |-> net'[q]]
    BY <1>1, <1>3
  <1>5. sm' = [sm EXCEPT ![r] = res.sm]
    BY DEF Call
  <1>6. sm'[r] = res.sm /\ sm'[Peer(r)] = sm[Peer(r)]
    BY <1>1, <1>5
  <1>7. QED
    BY <1>4, <1>5, <1>6, Zenon DEF out

\* r's queue has become inbox and r's context is sound by the clocks after
\* the call: then both queues and both contexts are.
SoundCall(r, now, res, inbox) ==
    /\ clock' \in [SmRole -> Nat] /\ CloseAt(clock')
    /\ \A q \in SmRole : clock[q] <= clock'[q]
    /\ clock'[Peer(r)] = clock[Peer(r)]
    /\ TellsAt(clock', r, now)
    /\ inbox \in Seq(SoundAt(clock))
    /\ res.sm \in SmType /\ ContextSound(res.sm, clock', r)
    /\ res.sent \in Seq(SentAt(now, KnownAt(clock')))
    /\ Call(r, res, inbox)

LEMMA JoinedFrames ==
    ASSUME NEW S, NEW s \in Seq(S), NEW t \in Seq(S)
    PROVE  s \o t \in Seq(S)
  BY ConcatProperties

LEMMA CallSound ==
    ASSUME Inv, NEW r \in SmRole, NEW now, NEW res, NEW inbox,
           SoundCall(r, now, res, inbox)
    PROVE  /\ sm' \in [SmRole -> SmType]
           /\ net' \in [SmRole -> Seq(SoundAt(clock'))]
           /\ \A q \in SmRole : ContextSound(sm'[q], clock', q)
           /\ sm'[r] = res.sm /\ sm'[Peer(r)] = sm[Peer(r)]
  <1> DEFINE S == SoundAt(clock')
             p == Peer(r)
  <1>1. p \in SmRole /\ p # r /\ SmRole = {r, p}
    BY PeerOf
  <1>2. clock \in [SmRole -> Nat] /\ sm \in [SmRole -> SmType]
    BY DEF Inv, TypeOK
  <1>3. SoundAt(clock) \subseteq S
    BY <1>2, TimeGrows DEF SoundCall
  <1>4. /\ sm' = [sm EXCEPT ![r] = res.sm]
        /\ sm'[r] = res.sm /\ sm'[p] = sm[p]
        /\ net'[r] = inbox
        /\ net'[p] = net[p] \o res.sent
        /\ net' = [q \in SmRole |-> net'[q]]
    BY <1>2, CallIs, Zenon DEF Inv, SoundCall
  <1>5. net[p] \in Seq(S) /\ inbox \in Seq(S)
    <2>1. net[p] \in Seq(SoundAt(clock))
      BY <1>1 DEF Inv
    <2>2. inbox \in Seq(SoundAt(clock))
      BY DEF SoundCall
    <2>3. QED
      BY <1>3, <2>1, <2>2, SeqMonotonic
  <1>6. res.sent \in Seq(S)
    <2>1. /\ SentAt(now, KnownAt(clock')) \subseteq S
          /\ res.sent \in Seq(SentAt(now, KnownAt(clock')))
      BY SentIsSound DEF SoundCall
    <2>2. QED
      BY <2>1, SeqMonotonic
  <1>7. net'[p] \in Seq(S)
    <2>1. net[p] \o res.sent \in Seq(S)
      BY <1>5, <1>6, JoinedFrames, Zenon
    <2>2. QED
      BY <1>4, <2>1, Zenon
  <1>8. net' \in [SmRole -> Seq(S)]
    <2>1. \A q \in SmRole : net'[q] \in Seq(S)
      BY <1>1, <1>4, <1>5, <1>7, Zenon
    <2>2. QED
      BY <1>4, <2>1, Zenon
  <1>9. sm' \in [SmRole -> SmType]
    BY <1>2, <1>4 DEF SoundCall
  <1>10. ContextSound(sm[p], clock', p) /\ ContextSound(res.sm, clock', r)
    BY <1>1, <1>2, StillSound DEF Inv, SoundCall
  <1>11. \A q \in SmRole : ContextSound(sm'[q], clock', q)
    BY <1>1, <1>4, <1>10, Zenon
  <1>12. QED
    BY <1>4, <1>8, <1>9, <1>11, Zenon

(***************************************************************************)
(* What the action properties say of one endpoint.                         *)
(***************************************************************************)
StaysInGap(r) ==
    sm[r].state = "STATE_RETR_REQ" =>
        sm'[r].state \in {"STATE_RETR_REQ", "STATE_CLOSED"}

NoticesLate(r) ==
    TakesIn(r) /\ ~Restarted /\ Now(r) - sm'[r].tsr >= Tmax + Lead =>
        r = "ROLE_CLIENT" /\ sm'[r].Ti <= 0

(***************************************************************************)
(* A call that raises an event.  self is r's context as the event finds    *)
(* it: SendData has counted the message before.                            *)
(***************************************************************************)
Raises(r, self, rand, event, pdu, res, inbox) ==
    /\ self \in SmType /\ self = [sm[r] EXCEPT !.snt = self.snt]
    /\ rand \in SeqNo
    /\ event \notin TimerEvent /\ event # "EVENT_RECV_RETR_RESP"
    /\ pdu \in PDU_S /\ pdu.confirmed_timestamp \in KnownAt(clock)
    /\ event = "EVENT_SEND_DATA" => pdu \in SentAt(Now(r), KnownAt(clock))
    /\ event \in ReceiptEvent => pdu \in SoundAt(clock)
    /\ res = Sm_HandleEvent(self, Now(r), rand, event, pdu)
    /\ inbox \in Seq(SoundAt(clock))
    /\ Call(r, res, inbox)
    /\ clock' = clock

StepSound(r) ==
    /\ sm' \in [SmRole -> SmType]
    /\ net' \in [SmRole -> Seq(SoundAt(clock'))]
    /\ \A q \in SmRole : ContextSound(sm'[q], clock', q)
    /\ sm'[Peer(r)] = sm[Peer(r)]
    /\ StaysInGap(r)
    /\ NoticesLate(r)

LEMMA EventStep ==
    ASSUME Inv, NEW r \in SmRole, NEW self, NEW rand, NEW event, NEW pdu,
           NEW res, NEW inbox, Raises(r, self, rand, event, pdu, res, inbox)
    PROVE  StepSound(r)
  <1> DEFINE now == Now(r)
  <1>0. /\ self \in SmType /\ self = [sm[r] EXCEPT !.snt = self.snt]
        /\ rand \in SeqNo
        /\ event \notin TimerEvent /\ event # "EVENT_RECV_RETR_RESP"
        /\ pdu \in PDU_S /\ pdu.confirmed_timestamp \in KnownAt(clock)
        /\ event = "EVENT_SEND_DATA" => pdu \in SentAt(now, KnownAt(clock))
        /\ event \in ReceiptEvent => pdu \in SoundAt(clock)
        /\ res = Sm_HandleEvent(self, now, rand, event, pdu)
        /\ inbox \in Seq(SoundAt(clock))
        /\ Call(r, res, inbox)
        /\ clock' = clock
    BY DEF Raises
  <1>1. /\ clock \in [SmRole -> Nat] /\ sm \in [SmRole -> SmType]
        /\ CloseAt(clock) /\ ContextSound(sm[r], clock, r)
    BY DEF Inv, TypeOK
  <1>2. now \in Tlocal /\ TellsAt(clock, r, now) /\ 0 \in KnownAt(clock)
    BY <1>1, NowTells DEF NowAt, Now
  <1>3. KnownAt(clock) \in SUBSET Tlocal /\ now \in KnownAt(clock)
    BY <1>2 DEF KnownAt, TellsAt
  <1>4. /\ self.role = r /\ HandlerSet(self) /\ self.state = sm[r].state
        /\ self.snr = sm[r].snr /\ self.ctsr = sm[r].ctsr /\ self.Ti = sm[r].Ti
    BY <1>0, <1>1 DEF SmType, ContextSound, HandlerSet
  <1>5. ContextSound(self, clock, r) /\ (Supervised(self) <=> Supervised(sm[r]))
    <2>1. Supervised(self) <=> Supervised(sm[r])
      BY <1>1, <1>4 DEF Supervised, ContextSound
    <2>2. QED
      BY <1>1, <1>4, <2>1 DEF ContextSound, Monitored
  <1>6. self.ctsr \in KnownAt(clock)
    BY <1>5 DEF ContextSound
  <1> HIDE DEF now
  <1>7. /\ res.sm \in SmType /\ res.sm.role = r /\ HandlerSet(res.sm)
        /\ Effect(self, now, KnownAt(clock), res.sm, res.sent)
        /\ Course(self, now, event, pdu, res.sm)
    BY <1>0, <1>2, <1>3, <1>4, <1>6, HandleEventEffect
  <1>8. /\ res.sent \in Seq(SentAt(now, KnownAt(clock')))
        /\ ContextSound(res.sm, clock', r)
    <2>1. Monitored(res.sm, clock, r)
      BY <1>0, <1>1, <1>2, <1>5, <1>6, <1>7, CallMonitored DEF Effect, ContextSound
    <2>2. QED
      BY <1>0, <1>7, <2>1 DEF Effect, ContextSound
  <1>9. /\ sm' \in [SmRole -> SmType]
        /\ net' \in [SmRole -> Seq(SoundAt(clock'))]
        /\ \A q \in SmRole : ContextSound(sm'[q], clock', q)
        /\ sm'[r] = res.sm /\ sm'[Peer(r)] = sm[Peer(r)]
    <2>1. /\ clock' \in [SmRole -> Nat] /\ CloseAt(clock')
          /\ \A q \in SmRole : clock[q] <= clock'[q]
          /\ clock'[Peer(r)] = clock[Peer(r)]
          /\ TellsAt(clock', r, now)
      BY <1>0, <1>1, <1>2
    <2>2. SoundCall(r, now, res, inbox)
      BY <1>0, <1>7, <1>8, <2>1 DEF SoundCall
    <2>3. QED
      BY <2>2, CallSound
  <1>10. StaysInGap(r)
    BY <1>0, <1>4, <1>7, <1>9 DEF StaysInGap, Course, KeepsWaiting
  <1>11. NoticesLate(r)
    <2>1. SUFFICES ASSUME TakesIn(r), ~Restarted, now - sm'[r].tsr >= Tmax + Lead
                   PROVE  r = "ROLE_CLIENT" /\ sm'[r].Ti <= 0
      BY DEF NoticesLate, now
    <2>2. Supervised(self) /\ Supervised(res.sm) /\ res.sm.snr # self.snr
      BY <1>4, <1>5, <1>9, <2>1 DEF TakesIn
    <2>3. /\ pdu \in SoundAt(clock)
          /\ res.sm.tsr = pdu.timestamp
          /\ res.sm.ctsr = pdu.confirmed_timestamp
          /\ res.sm.Ti = MonitoringTime(res.sm.ctsr, now)
      BY <1>0, <1>7, <2>2 DEF Course, TakenFrom
    <2>4. ~RestartedAt(clock)
      BY <2>1 DEF Restarted, RestartedAt
    <2>5. /\ pdu.timestamp \in Tlocal /\ pdu.confirmed_timestamp \in Tlocal
          /\ pdu.confirmed_timestamp <= pdu.timestamp + Lead
      BY <2>3, <2>4 DEF SoundAt, Lawful
    <2>6. res.sm.Ti = Tmax + pdu.confirmed_timestamp - now
      BY <1>2, <2>3, <2>5, MonitoringTimeIsExact
    <2>7. res.sm.Ti <= 0
      BY <1>2, <1>9, <2>1, <2>3, <2>5, <2>6, LinkConstants DEF Tlocal
    <2>8. r # "ROLE_SERVER"
      <3>1. Monitored(res.sm, clock, r) /\ res.sm.Ti \in Int
        <4>1. res.sm.Ti \in Int
          BY <1>2, <2>5, <2>6, LinkConstants DEF Tlocal
        <4>2. QED
          BY <1>0, <1>8, <4>1 DEF ContextSound
      <3>2. r = "ROLE_SERVER" => 0 < res.sm.Ti
        BY <2>2, <2>4, <3>1 DEF Monitored
      <3>3. ~(0 < res.sm.Ti)
        BY <2>7, <3>1
      <3>4. QED
        BY <3>2, <3>3
    <2>9. QED
      BY <1>9, <2>7, <2>8 DEF SmRole
  <1>12. QED
    BY <1>9, <1>10, <1>11, Zenon DEF StepSound

LEMMA SelfIs ==
    ASSUME NEW self \in SmType
    PROVE  self = [self EXCEPT !.snt = self.snt]
  BY DEF SmType

LEMMA NoNumbersDrawn == NotDrawn \in SeqNo /\ 0 \in SeqNo
  BY SeqCountAssumption DEF NotDrawn, SeqNo

LEMMA ServicePdu ==
    ASSUME Inv
    PROVE  /\ LocalPdu(0) \in PDU_S
           /\ LocalPdu(0).confirmed_timestamp \in KnownAt(clock)
           /\ LocalPdu(0).sequence_number = 0
  <1>1. clock \in [SmRole -> Nat] /\ "ROLE_CLIENT" \in SmRole
    BY DEF Inv, TypeOK, SmRole
  <1>2. 0 \in KnownAt(clock)
    BY <1>1, NowTells
  <1>3. QED
    BY <1>2, NoNumbersDrawn, LocalPduType DEF LocalPdu

LEMMA OpenConnectionStep ==
    ASSUME Inv, NEW r \in SmRole, OpenConnection(r)
    PROVE  StepSound(r)
  <1>1. PICK rand \in SntValues[r] :
          Call(r, SafeCom_OpenConnection_Impl(sm[r], Now(r), rand), net[r])
    BY DEF OpenConnection
  <1> DEFINE res == SafeCom_OpenConnection_Impl(sm[r], Now(r), rand)
  <1>2. rand \in SeqNo
    BY LinkAssumption
  <1>3. sm[r] \in SmType /\ net[r] \in Seq(SoundAt(clock)) /\ clock' = clock
    BY DEF Inv, TypeOK, OpenConnection
  <1>4. res = Sm_HandleEvent(sm[r], Now(r), rand, "EVENT_OPEN_CONN", LocalPdu(0))
    BY DEF SafeCom_OpenConnection_Impl
  <1>5. sm[r] = [sm[r] EXCEPT !.snt = sm[r].snt]
    BY <1>3, SelfIs
  <1>6. Call(r, res, net[r])
    BY <1>1
  <1> HIDE DEF res
  <1>7. Raises(r, sm[r], rand, "EVENT_OPEN_CONN", LocalPdu(0), res, net[r])
    BY <1>2, <1>3, <1>4, <1>5, <1>6, ServicePdu DEF Raises, TimerEvent, ReceiptEvent
  <1>8. QED
    BY <1>7, EventStep

LEMMA CloseConnectionStep ==
    ASSUME Inv, NEW r \in SmRole, CloseConnection(r)
    PROVE  StepSound(r)
  <1> DEFINE res == SafeCom_CloseConnection_Impl(sm[r], Now(r))
  <1>1. Call(r, res, net[r])
    BY DEF CloseConnection
  <1>2. sm[r] \in SmType /\ net[r] \in Seq(SoundAt(clock)) /\ clock' = clock
    BY DEF Inv, TypeOK, CloseConnection
  <1>3. res = Sm_HandleEvent(sm[r], Now(r), NotDrawn, "EVENT_CLOSE_CONN", LocalPdu(0))
    BY DEF SafeCom_CloseConnection_Impl
  <1>4. sm[r] = [sm[r] EXCEPT !.snt = sm[r].snt]
    BY <1>2, SelfIs
  <1> HIDE DEF res
  <1>5. Raises(r, sm[r], NotDrawn, "EVENT_CLOSE_CONN", LocalPdu(0), res, net[r])
    BY <1>1, <1>2, <1>3, <1>4, NoNumbersDrawn, ServicePdu
       DEF Raises, TimerEvent, ReceiptEvent
  <1>6. QED
    BY <1>5, EventStep

LEMMA SendDataStep ==
    ASSUME Inv, NEW r \in SmRole, SendData(r)
    PROVE  /\ StepSound(r)
           /\ asked' \in [SmRole -> 0 .. MaxSends]
           /\ sub' \in [SmRole -> Seq(AppData)]
  <1> DEFINE msg == Script[r][asked'[r]]
             self == Counted(sm[r])
             pdu == Data(self, Now(r), msg)
             res == SafeCom_SendData_Impl(sm[r], Now(r), msg)
  <1>1. /\ sm[r] \in SmType /\ net[r] \in Seq(SoundAt(clock)) /\ clock' = clock
        /\ asked \in [SmRole -> 0 .. MaxSends] /\ asked[r] \in Nat
        /\ asked[Peer(r)] \in Nat /\ MaxSends \in Nat
        /\ clock \in [SmRole -> Nat] /\ ContextSound(sm[r], clock, r)
    <2>1. /\ sm[r] \in SmType
          /\ asked \in [SmRole -> 0 .. MaxSends]
          /\ clock \in [SmRole -> Nat]
      BY DEF Inv, TypeOK
    <2>2. net[r] \in Seq(SoundAt(clock)) /\ ContextSound(sm[r], clock, r)
      BY DEF Inv
    <2>3. clock' = clock
      BY DEF SendData
    <2>4. MaxSends \in Nat /\ Peer(r) \in SmRole
      BY PeerOf, LinkAssumption
    <2>5. asked[r] \in Nat /\ asked[Peer(r)] \in Nat
      BY <2>1, <2>4
    <2>6. QED
      BY <2>1, <2>2, <2>3, <2>4, <2>5
  <1>2. asked' = [asked EXCEPT ![r] = asked[r] + 1] /\ asked'[r] = asked[r] + 1
    BY <1>1 DEF SendData
  <1>3. asked' \in [SmRole -> 0 .. MaxSends]
    BY <1>1, <1>2 DEF SendData
  <1>4. msg \in AppData
    <2>1. Script[r] \in Seq(AppData)
      BY LinkAssumption
    <2>2. asked'[r] \in 1 .. Len(Script[r])
      BY <1>1, <1>2, <2>1, LenProperties DEF SendData
    <2>3. QED
      BY <2>1, <2>2, ElementOfSeq
  <1>5. Call(r, res, net[r])
    BY DEF SendData
  <1>6. sub' \in [SmRole -> Seq(AppData)]
    <2>1. \/ sub' = [sub EXCEPT ![r] = sub[r]]
          \/ sub' = [sub EXCEPT ![r] = Append(sub[r], msg)]
      BY Zenon DEF SendData
    <2>2. sub \in [SmRole -> Seq(AppData)]
      BY DEF Inv, TypeOK
    <2> HIDE DEF msg
    <2>3. Append(sub[r], msg) \in Seq(AppData) /\ sub[r] \in Seq(AppData)
      BY <1>4, <2>2, AppendProperties
    <2>4. QED
      BY <2>1, <2>2, <2>3
  <1> HIDE DEF msg
  <1>7. self \in SmType /\ self = [sm[r] EXCEPT !.snt = Inc(sm[r].snt)]
    BY <1>1, CountedType
  <1>8. self.snt = Inc(sm[r].snt) /\ self.ctsr = sm[r].ctsr
    BY <1>1, <1>7 DEF SmType
  <1>9. Now(r) \in Tlocal /\ KnownAt(clock) \in SUBSET Tlocal
    BY <1>1, NowTells DEF NowAt, Now, KnownAt
  <1>10. self.ctsr \in KnownAt(clock)
    BY <1>1, <1>8 DEF ContextSound
  <1>11. pdu \in SentAt(Now(r), KnownAt(clock))
    BY <1>4, <1>7, <1>9, <1>10, ConfirmingSent DEF Data, MessageType, Payload
  <1>12. /\ pdu \in PDU_S /\ pdu.confirmed_timestamp \in KnownAt(clock)
         /\ pdu.sequence_number = Inc(sm[r].snt)
    <2>1. pdu \in Frame /\ pdu.confirmed_timestamp \in KnownAt(clock)
      BY <1>11 DEF SentAt, Lawful
    <2>2. pdu.sequence_number = Inc(sm[r].snt)
      BY <1>8 DEF Data, Confirming
    <2> HIDE DEF pdu
    <2>3. pdu \in PDU_S
      BY <2>1 DEF Frame, PDU_S, PduOf
    <2>4. QED
      BY <2>1, <2>2, <2>3
  <1>13. res = Sm_HandleEvent(self, Now(r), NotDrawn, "EVENT_SEND_DATA", pdu)
    BY DEF SafeCom_SendData_Impl
  <1> HIDE DEF res, pdu, self
  <1>14. self = [sm[r] EXCEPT !.snt = self.snt]
    BY <1>7, <1>8
  <1>15. Raises(r, self, NotDrawn, "EVENT_SEND_DATA", pdu, res, net[r])
    BY <1>1, <1>5, <1>7, <1>11, <1>12, <1>13, <1>14, NoNumbersDrawn
       DEF Raises, TimerEvent, ReceiptEvent
  <1>16. StepSound(r)
    BY <1>15, EventStep
  <1>17. QED
    BY <1>3, <1>6, <1>16

LEMMA SoundFrame ==
    ASSUME NEW ck, NEW frame \in SoundAt(ck)
    PROVE  /\ frame \in PDU_S /\ frame.confirmed_timestamp \in KnownAt(ck)
           /\ EventOf[frame.message_type] \in
                ReceiptEvent \ {"EVENT_RECV_RETR_RESP", "EVENT_RECV_RETR_DATA"}
           /\ frame.message_type = "DATA" => frame.payload \in AppData
  <1>1. /\ frame \in Frame /\ frame.confirmed_timestamp \in KnownAt(ck)
        /\ frame.message_type \notin {"RETRANSMISSION_RESPONSE", "RETRANSMITTED_DATA"}
        /\ frame.message_type = "DATA" => frame.payload \in AppData
    BY DEF SoundAt, Lawful
  <1>2. frame \in PDU_S /\ frame.message_type \in MessageType
    BY <1>1 DEF Frame, PDU_S, PduOf
  <1>3. \A type \in MessageType \ {"RETRANSMISSION_RESPONSE", "RETRANSMITTED_DATA"} :
          EventOf[type] \in ReceiptEvent \ {"EVENT_RECV_RETR_RESP", "EVENT_RECV_RETR_DATA"}
    BY DEF EventOf, MessageType, ReceiptEvent
  <1>4. QED
    BY <1>1, <1>2, <1>3

LEMMA ReceiveStep ==
    ASSUME Inv, NEW r \in SmRole, Receive(r)
    PROVE  StepSound(r) /\ del' \in [SmRole -> Seq(AppData)]
  <1>1. PICK i \in DOMAIN net[r], kept \in BOOLEAN :
          LET frame == net[r][i]
              res == ReceiveMsg(sm[r], Now(r), frame)
              taken == frame.message_type = "DATA" /\ res.sm.snr # sm[r].snr
          IN  /\ Call(r, res, IF kept THEN net[r] ELSE RemoveAt(net[r], i))
              /\ del' = [del EXCEPT ![r] =
                           IF taken THEN Append(@, frame.payload) ELSE @]
    BY Zenon DEF Receive
  <1> DEFINE frame == net[r][i]
             res == ReceiveMsg(sm[r], Now(r), frame)
             inbox == IF kept THEN net[r] ELSE RemoveAt(net[r], i)
  <1>2. /\ Call(r, res, inbox)
        /\ \/ del' = [del EXCEPT ![r] = del[r]]
           \/ /\ del' = [del EXCEPT ![r] = Append(del[r], frame.payload)]
              /\ frame.message_type = "DATA"
    BY <1>1, Zenon
  <1>3. sm[r] \in SmType /\ net[r] \in Seq(SoundAt(clock)) /\ clock' = clock
    BY DEF Inv, TypeOK, Receive
  <1>4. frame \in SoundAt(clock) /\ inbox \in Seq(SoundAt(clock))
    <2>1. i \in 1 .. Len(net[r])
      BY <1>3, LenProperties
    <2>2. QED
      BY <1>3, <2>1, ElementOfSeq, RemoveAtType
  <1>5. /\ frame \in PDU_S /\ frame.confirmed_timestamp \in KnownAt(clock)
        /\ EventOf[frame.message_type] \in
             ReceiptEvent \ {"EVENT_RECV_RETR_RESP", "EVENT_RECV_RETR_DATA"}
        /\ frame.message_type = "DATA" => frame.payload \in AppData
    BY <1>4, SoundFrame
  <1>6. res = Sm_HandleEvent(sm[r], Now(r), NotDrawn, EventOf[frame.message_type], frame)
    BY DEF ReceiveMsg
  <1>7. sm[r] = [sm[r] EXCEPT !.snt = sm[r].snt]
    BY <1>3, SelfIs
  <1> DEFINE event == EventOf[frame.message_type]
  <1> HIDE DEF res, frame, inbox
  <1>8. Raises(r, sm[r], NotDrawn, event, frame, res, inbox)
    BY <1>2, <1>3, <1>4, <1>5, <1>6, <1>7, NoNumbersDrawn
       DEF Raises, TimerEvent, ReceiptEvent
  <1>9. StepSound(r)
    BY <1>8, EventStep
  <1>10. del' \in [SmRole -> Seq(AppData)]
    <2>1. del \in [SmRole -> Seq(AppData)]
      BY DEF Inv, TypeOK
    <2>2. CASE del' = [del EXCEPT ![r] = del[r]]
      BY <2>1, <2>2
    <2>3. CASE /\ del' = [del EXCEPT ![r] = Append(del[r], frame.payload)]
               /\ frame.message_type = "DATA"
      <3>1. frame.payload \in AppData
        BY <1>5, <2>3
      <3>2. Append(del[r], frame.payload) \in Seq(AppData)
        BY <2>1, <3>1
      <3>3. QED
        BY <2>1, <2>3, <3>2, Zenon
    <2>4. QED
      BY <1>2, <2>2, <2>3
  <1>11. QED
    BY <1>9, <1>10

\* The contexts and the clocks are left alone: no property is touched.
LEMMA QuietStep ==
    ASSUME Inv, NEW r \in SmRole, sm' = sm, clock' = clock,
           net' \in [SmRole -> Seq(SoundAt(clock'))]
    PROVE  StepSound(r)
  <1>1. sm' \in [SmRole -> SmType]
    BY DEF Inv, TypeOK
  <1>2. \A q \in SmRole : ContextSound(sm'[q], clock', q)
    BY DEF Inv
  <1>3. StaysInGap(r) /\ NoticesLate(r)
    BY DEF StaysInGap, NoticesLate, TakesIn
  <1>4. QED
    BY <1>1, <1>2, <1>3 DEF StepSound

LEMMA LoseStep ==
    ASSUME Inv, NEW r \in SmRole, Lose(r)
    PROVE  StepSound(r)
  <1>1. PICK i \in DOMAIN net[r] : net' = [net EXCEPT ![r] = RemoveAt(net[r], i)]
    BY DEF Lose
  <1>2. net \in [SmRole -> Seq(SoundAt(clock))] /\ clock' = clock /\ sm' = sm
    BY DEF Inv, Lose
  <1>3. RemoveAt(net[r], i) \in Seq(SoundAt(clock))
    BY <1>2, RemoveAtType
  <1>4. net' \in [SmRole -> Seq(SoundAt(clock'))]
    BY <1>1, <1>2, <1>3
  <1>5. QED
    BY <1>2, <1>4, QuietStep

LEMMA SecondStep ==
    ASSUME Inv, NEW r \in SmRole, SecondPasses(r)
    PROVE  /\ clock' \in [SmRole -> 0 .. MaxClock]
           /\ clock' \in [SmRole -> Nat] /\ clock \in [SmRole -> Nat]
           /\ CloseAt(clock')
           /\ clock' = [clock EXCEPT ![r] = clock[r] + 1]
           /\ \A q \in SmRole : clock[q] <= clock'[q]
           /\ clock'[Peer(r)] = clock[Peer(r)]
           /\ clock' # clock
  <1>1. /\ clock \in [SmRole -> 0 .. MaxClock] /\ CloseAt(clock)
        /\ clock' = [clock EXCEPT ![r] = clock[r] + 1]
        /\ clock[r] < MaxClock /\ clock[r] < clock[Peer(r)] + Lead
    BY DEF Inv, TypeOK, SecondPasses
  <1>2. Peer(r) \in SmRole /\ Peer(r) # r /\ SmRole = {r, Peer(r)}
    BY PeerOf
  <1>3. clock' \in [SmRole -> 0 .. MaxClock] /\ clock'[Peer(r)] = clock[Peer(r)]
        /\ clock'[r] = clock[r] + 1
    BY <1>1, <1>2, LinkAssumption
  <1>4. CloseAt(clock')
    <2>1. clock[r] \in Nat /\ clock[Peer(r)] \in Nat
      BY <1>1, <1>2, LinkAssumption
    <2>2. /\ clock'[r] <= clock'[r] + Lead
          /\ clock'[Peer(r)] <= clock'[Peer(r)] + Lead
          /\ clock'[r] <= clock'[Peer(r)] + Lead
          /\ clock'[Peer(r)] <= clock'[r] + Lead
      BY <1>1, <1>2, <1>3, <2>1, LinkConstants DEF CloseAt
    <2>3. QED
      BY <1>2, <2>2, Zenon DEF CloseAt
  <1>5. QED
    BY <1>1, <1>3, <1>4, LinkAssumption

LEMMA TickStep ==
    ASSUME Inv, NEW r \in SmRole, Tick(r)
    PROVE  StepSound(r) /\ scratch' \in [SmRole -> SeqNo]
  <1> DEFINE now == Later(Now(r))
             res == TimerPass(sm[r], now, scratch[r])
             known == KnownAt(clock')
  <1>1. /\ clock' \in [SmRole -> Nat] /\ clock \in [SmRole -> Nat]
        /\ CloseAt(clock')
        /\ clock' = [clock EXCEPT ![r] = clock[r] + 1]
        /\ \A q \in SmRole : clock[q] <= clock'[q]
        /\ clock'[Peer(r)] = clock[Peer(r)]
        /\ clock' # clock
    BY SecondStep DEF Tick
  <1>2. /\ sm \in [SmRole -> SmType] /\ sm[r] \in SmType
        /\ scratch \in [SmRole -> SeqNo] /\ scratch[r] \in SeqNo
        /\ ContextSound(sm[r], clock, r)
        /\ net[r] \in Seq(SoundAt(clock))
    BY DEF Inv, TypeOK
  <1>3. Now(r) \in Tlocal
    BY <1>1, NowTells DEF NowAt, Now
  <1>4. now \in Tlocal /\ TellsAt(clock', r, now)
    BY <1>1, <1>3, LaterTells, ClockArithmetic DEF NowAt, Now
  <1>5. known \in SUBSET Tlocal /\ now \in known /\ sm[r].ctsr \in known
    <2>1. KnownAt(clock) \subseteq known
      BY <1>1, TimeGrows
    <2>2. QED
      BY <1>2, <1>4, <2>1 DEF KnownAt, TellsAt, ContextSound
  <1>6. /\ sm[r].role = r /\ HandlerSet(sm[r]) /\ Monitored(sm[r], clock, r)
        /\ sm[r].state # "STATE_CLOSED"
    BY <1>2 DEF ContextSound, Tick
  <1>7. /\ res.sm \in SmType /\ res.sm.role = r /\ HandlerSet(res.sm)
        /\ AfterPass(res, scratch[r]) \in SeqNo
    BY <1>2, <1>3, <1>6, TimerPassKept
  <1>8. Call(r, res, net[r]) /\ scratch' = [scratch EXCEPT ![r] = AfterPass(res, scratch[r])]
    BY Zenon DEF Tick
  <1> DEFINE lasts == PassLasts(sm[r], res.sm)
             ends == PassEnds(sm[r], res.sm)
  <1> HIDE DEF now, known
  <1>9. res.sent \in Seq(SentAt(now, known)) /\ (lasts \/ ends)
    BY <1>2, <1>4, <1>5, <1>6, TimerPassEffect
  <1> HIDE DEF res
  <1>10. Monitored(res.sm, clock', r) /\ res.sm.ctsr = sm[r].ctsr
    <2>1. CASE ends
      BY <2>1 DEF PassEnds, Monitored, Supervised
    <2>2. CASE lasts
      <3>1. clock'[r] = clock[r] + 1
        BY <1>1
      <3>2. Monitored(res.sm, clock', r)
        <4>1. PassLasts(sm[r], res.sm)
          BY <2>2
        <4> HIDE DEF lasts, ends
        <4>2. clock \in [SmRole -> Nat] /\ clock' \in [SmRole -> Nat]
          BY <1>1 DEF Inv, TypeOK
        <4>3. \A q \in SmRole : clock[q] <= clock'[q]
          BY <1>1
        <4>4. QED
          BY <1>2, <1>6, <1>7, <3>1, <4>1, <4>2, <4>3, PassMonitored
      <3>3. QED
        BY <2>2, <3>2 DEF PassLasts
    <2>3. QED
      BY <1>9, <2>1, <2>2
  <1>11. ContextSound(res.sm, clock', r)
    BY <1>5, <1>7, <1>10 DEF ContextSound, known
  <1>12. /\ sm' \in [SmRole -> SmType]
         /\ net' \in [SmRole -> Seq(SoundAt(clock'))]
         /\ \A q \in SmRole : ContextSound(sm'[q], clock', q)
         /\ sm'[r] = res.sm /\ sm'[Peer(r)] = sm[Peer(r)]
    <2>1. SoundCall(r, now, res, net[r])
      BY <1>1, <1>2, <1>4, <1>7, <1>8, <1>9, <1>11 DEF SoundCall, known
    <2>2. QED
      BY <2>1, CallSound
  <1>13. StaysInGap(r)
    BY <1>9, <1>12 DEF StaysInGap, PassLasts, PassEnds
  <1>14. NoticesLate(r)
    BY <1>9, <1>12 DEF NoticesLate, TakesIn, Supervised, PassLasts, PassEnds
  <1>15. scratch' \in [SmRole -> SeqNo]
    BY <1>2, <1>7, <1>8
  <1>16. QED
    BY <1>12, <1>13, <1>14, <1>15, Zenon DEF StepSound

LEMMA IdleTickStep ==
    ASSUME Inv, NEW r \in SmRole, IdleTick(r)
    PROVE  StepSound(r)
  <1>1. /\ clock' \in [SmRole -> Nat] /\ clock \in [SmRole -> Nat]
        /\ \A q \in SmRole : clock[q] <= clock'[q]
        /\ clock'[Peer(r)] = clock[Peer(r)]
    BY SecondStep DEF IdleTick
  <1>2. sm \in [SmRole -> SmType] /\ net \in [SmRole -> Seq(SoundAt(clock))]
    BY DEF Inv, TypeOK
  <1>3. sm' = sm /\ net' = net /\ sm[r].state = "STATE_CLOSED"
    BY DEF IdleTick
  <1>4. /\ KnownAt(clock) \subseteq KnownAt(clock')
        /\ SoundAt(clock) \subseteq SoundAt(clock')
    BY <1>1, TimeGrows
  <1>5. Peer(r) \in SmRole /\ SmRole = {r, Peer(r)}
    BY PeerOf
  <1>6. net' \in [SmRole -> Seq(SoundAt(clock'))]
    <2>1. \A q \in SmRole : net[q] \in Seq(SoundAt(clock'))
      BY <1>2, <1>4, SeqMonotonic
    <2>2. QED
      BY <1>2, <1>3, <2>1
  <1>7. ContextSound(sm[Peer(r)], clock', Peer(r))
    BY <1>1, <1>2, <1>5, StillSound DEF Inv
  <1>8. ContextSound(sm[r], clock', r)
    BY <1>3, <1>4 DEF Inv, ContextSound, Monitored, Supervised
  <1>9. \A q \in SmRole : ContextSound(sm'[q], clock', q)
    BY <1>3, <1>5, <1>7, <1>8, Zenon
  <1>10. StaysInGap(r) /\ NoticesLate(r)
    BY <1>3 DEF StaysInGap, NoticesLate, TakesIn
  <1>11. QED
    BY <1>2, <1>3, <1>6, <1>9, <1>10 DEF StepSound
-----------------------------------------------------------------------------
LEMMA InitInv == Init => Inv
  <1> SUFFICES ASSUME Init PROVE Inv
    OBVIOUS
  <1>1. clock = [r \in SmRole |-> 0] /\ clock \in [SmRole -> Nat]
    BY DEF Init
  <1>2. \A r \in SmRole : sm[r] = Sm_Init(r)
    BY DEF Init
  <1>3. \A r \in SmRole : Sm_Init(r) \in SmType
    BY SeqCountAssumption, TimeHalfAssumption, TmaxAssumption
       DEF Sm_Init, SmType, State, SeqNo, Time, TimeMod, Int32
  <1>4. net = [r \in SmRole |-> << >>]
    BY DEF Init
  <1>5. \A S : net \in [SmRole -> Seq(S)]
    BY <1>4
  <1>6. TypeOK
    <2>1. sm \in [SmRole -> SmType]
      BY <1>3 DEF Init
    <2>2. /\ clock \in [SmRole -> 0 .. MaxClock]
          /\ scratch \in [SmRole -> SeqNo]
          /\ opens \in [SmRole -> 0 .. MaxOpens]
          /\ asked \in [SmRole -> 0 .. MaxSends]
      BY LinkAssumption, NoNumbersDrawn DEF Init
    <2>3. sub \in [SmRole -> Seq(AppData)] /\ del \in [SmRole -> Seq(AppData)]
      BY DEF Init
    <2>4. QED
      BY <1>5, <2>1, <2>2, <2>3 DEF TypeOK
  <1>7. CloseAt(clock)
    BY <1>1, LinkConstants DEF CloseAt
  <1>8. ASSUME NEW r \in SmRole PROVE ContextSound(sm[r], clock, r)
    <2>1. 0 \in KnownAt(clock)
      BY <1>1, NowTells
    <2>2. /\ sm[r].role = r /\ HandlerSet(sm[r]) /\ sm[r].ctsr = 0
          /\ sm[r].state = "STATE_CLOSED"
      <3>1. /\ Sm_Init(r).role = r /\ HandlerSet(Sm_Init(r))
            /\ Sm_Init(r).ctsr = 0 /\ Sm_Init(r).state = "STATE_CLOSED"
        BY DEF Sm_Init, HandlerSet
      <3>2. QED
        BY <1>2, <3>1
    <2>3. ~Supervised(sm[r])
      BY <2>2 DEF Supervised
    <2>4. QED
      BY <2>1, <2>2, <2>3 DEF ContextSound, Monitored
  <1>9. QED
    BY <1>5, <1>6, <1>7, <1>8 DEF Inv

LEMMA NextSound ==
    ASSUME Inv, Next
    PROVE  Inv' /\ \E r \in SmRole : StepSound(r)
  <1>1. PICK r \in SmRole :
          \/ OpenConnection(r) \/ CloseConnection(r) \/ SendData(r) \/ Receive(r)
          \/ Lose(r) \/ Tick(r) \/ IdleTick(r)
    BY DEF Next
  <1>2. StepSound(r)
    BY <1>1, OpenConnectionStep, CloseConnectionStep, SendDataStep, ReceiveStep,
       LoseStep, TickStep, IdleTickStep
  <1>3. /\ sm' \in [SmRole -> SmType]
        /\ net' \in [SmRole -> Seq(SoundAt(clock'))]
        /\ \A q \in SmRole : ContextSound(sm'[q], clock', q)
    BY <1>2 DEF StepSound
  <1>4. net' \in [SmRole -> Seq(Frame)]
    <2>1. SoundAt(clock') \subseteq Frame
      BY DEF SoundAt, Lawful
    <2>2. \A q \in SmRole : net'[q] \in Seq(Frame)
      BY <1>3, <2>1, SeqMonotonic
    <2>3. QED
      BY <1>3, <2>2
  <1>5. /\ clock' \in [SmRole -> 0 .. MaxClock] /\ CloseAt(clock')
        /\ opens' \in [SmRole -> 0 .. MaxOpens]
        /\ scratch' \in [SmRole -> SeqNo]
        /\ asked' \in [SmRole -> 0 .. MaxSends]
        /\ sub' \in [SmRole -> Seq(AppData)]
        /\ del' \in [SmRole -> Seq(AppData)]
    <2>1. /\ clock \in [SmRole -> 0 .. MaxClock] /\ CloseAt(clock)
          /\ opens \in [SmRole -> 0 .. MaxOpens]
          /\ scratch \in [SmRole -> SeqNo]
          /\ asked \in [SmRole -> 0 .. MaxSends]
          /\ sub \in [SmRole -> Seq(AppData)]
          /\ del \in [SmRole -> Seq(AppData)]
      BY DEF Inv, TypeOK
    <2>2. CASE OpenConnection(r)
      <3>1. /\ UNCHANGED <<clock, scratch, asked, sub, del>>
            /\ opens[r] < MaxOpens /\ opens' = [opens EXCEPT ![r] = opens[r] + 1]
        BY <2>2 DEF OpenConnection
      <3>2. opens[r] \in 0 .. MaxOpens /\ MaxOpens \in Nat
        BY <2>1, LinkAssumption
      <3>3. opens[r] + 1 \in 0 .. MaxOpens
        BY <3>1, <3>2
      <3>4. opens' \in [SmRole -> 0 .. MaxOpens]
        BY <2>1, <3>1, <3>3
      <3>5. CloseAt(clock')
        BY <2>1, <3>1
      <3>6. QED
        BY <2>1, <3>1, <3>4, <3>5
    <2>3. CASE CloseConnection(r)
      BY <2>1, <2>3 DEF CloseConnection
    <2>4. CASE SendData(r)
      BY <2>1, <2>4, SendDataStep DEF SendData
    <2>5. CASE Receive(r)
      BY <2>1, <2>5, ReceiveStep DEF Receive
    <2>6. CASE Lose(r)
      BY <2>1, <2>6 DEF Lose
    <2>7. CASE Tick(r)
      <3>1. clock' \in [SmRole -> 0 .. MaxClock] /\ CloseAt(clock')
        BY <2>7, SecondStep DEF Tick
      <3>2. QED
        BY <2>1, <2>7, <3>1, TickStep DEF Tick
    <2>8. CASE IdleTick(r)
      <3>1. clock' \in [SmRole -> 0 .. MaxClock] /\ CloseAt(clock')
        BY <2>8, SecondStep DEF IdleTick
      <3>2. QED
        BY <2>1, <2>8, <3>1, NoNumbersDrawn DEF IdleTick
    <2>9. QED
      BY <1>1, <2>2, <2>3, <2>4, <2>5, <2>6, <2>7, <2>8
  <1>6. QED
    BY <1>2, <1>3, <1>4, <1>5 DEF Inv, TypeOK

LEMMA NextInv == Inv /\ [Next]_vars => Inv'
  <1>1. ASSUME Inv, UNCHANGED vars PROVE Inv'
    BY <1>1 DEF Inv, TypeOK, vars
  <1>2. QED
    BY <1>1, NextSound

(***************************************************************************)
(* The invariant holds, whatever the network loses, repeats and reorders.  *)
(***************************************************************************)
THEOREM Invariance == Spec => []Inv
  BY InitInv, NextInv, PTL DEF Spec

(***************************************************************************)
(* The contexts, the frames in transit and what the applications have sent *)
(* and taken in keep their types: no frame in transit is malformed, and no *)
(* application is handed anything but data.                                *)
(***************************************************************************)
THEOREM TypeCorrect == Spec => []TypeOK
  <1>1. Inv => TypeOK
    BY DEF Inv
  <1>2. QED
    BY <1>1, Invariance, PTL

(***************************************************************************)
(* Neither endpoint monitors the other for longer than Tmax and the drift  *)
(* of the clocks, or LastSecond + 1 longer once a clock has started again. *)
(***************************************************************************)
THEOREM MonitoringBounded == Spec => []MonitoringWithinTmax
  <1>1. Inv => MonitoringWithinTmax
    <2>1. Restarted <=> RestartedAt(clock)
      BY DEF Restarted, RestartedAt
    <2>2. QED
      BY <2>1 DEF Inv, ContextSound, Monitored, MonitoringWithinTmax
  <1>2. QED
    BY <1>1, Invariance, PTL

\* Both endpoints satisfy what the action properties say, after any step.
LEMMA BothStep ==
    ASSUME Inv, Next, NEW r \in SmRole
    PROVE  StaysInGap(r) /\ NoticesLate(r)
  <1>1. PICK actor \in SmRole : StepSound(actor)
    BY NextSound
  <1>2. actor = r \/ r = Peer(actor)
    BY PeerOf
  <1>3. CASE r = Peer(actor)
    <2>1. sm'[r] = sm[r]
      BY <1>1, <1>3 DEF StepSound
    <2>2. QED
      BY <2>1 DEF StaysInGap, NoticesLate, TakesIn
  <1>4. QED
    BY <1>1, <1>2, <1>3 DEF StepSound

(***************************************************************************)
(* Between two endpoints of this code a retransmission that was asked for  *)
(* never comes: STATE_RETR_REQ is left only for STATE_CLOSED.              *)
(***************************************************************************)
THEOREM GapStaysFatal == Spec => GapIsFatal
  <1>1. Inv /\ [Next]_vars =>
          [ \A r \in SmRole :
              sm[r].state = "STATE_RETR_REQ" =>
                sm'[r].state \in {"STATE_RETR_REQ", "STATE_CLOSED"} ]_vars
    BY BothStep DEF StaysInGap
  <1>2. QED
    BY <1>1, Invariance, PTL DEF Spec, GapIsFatal

(***************************************************************************)
(* A server never takes in a message that is older than Tmax, and a client *)
(* that does closes the connection at the next pass of its timer loop.     *)
(***************************************************************************)
THEOREM LateMessagesNoticed == Spec => LateIsNoticed
  <1>1. Inv /\ [Next]_vars =>
          [ \A r \in SmRole :
              TakesIn(r) /\ ~Restarted /\ Now(r) - sm'[r].tsr >= Tmax + Lead =>
                r = "ROLE_CLIENT" /\ sm'[r].Ti <= 0 ]_vars
    BY BothStep DEF NoticesLate
  <1>2. QED
    BY <1>1, Invariance, PTL DEF Spec, LateIsNoticed
=============================================================================
