--------------------------------- MODULE Sm ---------------------------------
(***************************************************************************)
(* The connection state machine of safecom/src/sm.c: the context SmType,   *)
(* one operator per state handler and the dispatcher Sm_HandleEvent.       *)
(*                                                                         *)
(* A handler is a function of the context, of the time Tlocal() returns    *)
(* while it runs (one second is long compared with a call), of the event   *)
(* and of the PDU.  Its result is the pair of the new context and the      *)
(* frames it passed to SendSpdu: none or one.                              *)
(***************************************************************************)
EXTENDS Pdu

CONSTANTS Tmax,         \* maximum accepted age of a message, in seconds
          Th            \* heartbeat period, in seconds

ASSUME TmaxAssumption == Tmax \in Nat /\ 0 < Tmax /\ Tmax < TimeHalf
ASSUME ThAssumption == Th \in Nat /\ Th > 0

State ==
    {"STATE_CLOSED", "STATE_DOWN", "STATE_START", "STATE_UP",
     "STATE_RETR_REQ", "STATE_RETR_RUN"}

ReceiptEvent ==
    {"EVENT_RECV_CONN_REQ", "EVENT_RECV_CONN_RESP", "EVENT_RECV_RETR_REQ",
     "EVENT_RECV_RETR_RESP", "EVENT_RECV_DISC_REQ", "EVENT_RECV_HB",
     "EVENT_RECV_DATA", "EVENT_RECV_RETR_DATA"}

Event ==
    {"EVENT_TH_ELAPSED", "EVENT_TI_ELAPSED", "EVENT_OPEN_CONN",
     "EVENT_CLOSE_CONN", "EVENT_SEND_DATA"} \cup ReceiptEvent

SmRole == {"ROLE_CLIENT", "ROLE_SERVER"}

Int32 == -TimeHalf .. TimeHalf - 1

SmType ==
    [state : State,
     handle_event : State,      \* the state whose handler is installed
     role : SmRole,
     snr : SeqNo,
     snt : SeqNo,
     cst : SeqNo,
     csr : SeqNo,
     tsr : Time,
     ctsr : Time,
     Ti : Int32,
     Trtd : Time]
-----------------------------------------------------------------------------
\* Mutant: a confirmed timestamp that is just too late is accepted.
check_seq_confirmed_timestamp_Le(self, pdu) ==
    Elapsed(self.ctsr, pdu.confirmed_timestamp) <= Tmax

check_seq_confirmed_timestamp(self, pdu) ==
    Elapsed(self.ctsr, pdu.confirmed_timestamp) < Tmax

check_version(pdu) == pdu.payload = PROTOCOL_VERSION

unconfirmed_payload_available == FALSE

\* Mutant: the handler is left to the end of Sm_HandleEvent.
close_connection_Late(self, pdu) ==
    [self EXCEPT !.cst = pdu.sequence_number,
                 !.state = "STATE_CLOSED"]

close_connection(self, pdu) ==
    [self EXCEPT !.cst = pdu.sequence_number,
                 !.state = "STATE_CLOSED",
                 !.handle_event = "STATE_CLOSED"]

process_regular_receipt(self, pdu) ==
    [self EXCEPT !.snr = Inc(pdu.sequence_number),
                 !.cst = pdu.sequence_number,
                 !.csr = pdu.confirmed_sequence_number,
                 !.tsr = pdu.timestamp,
                 !.ctsr = pdu.confirmed_timestamp]

(***************************************************************************)
(* The monitoring time: Tmax less the time since the timestamp ctsr, in    *)
(* uint32_t arithmetic, stored in the int32_t Ti.                          *)
(***************************************************************************)
\* Mutant: the difference is taken the other way round.
MonitoringTime_Swapped(ctsr, now) ==
    ToInt32(Elapsed(Elapsed(now, ctsr), Tmax))

MonitoringTime(ctsr, now) == ToInt32(Elapsed(Elapsed(ctsr, now), Tmax))

UpdateTimes(self, now) ==
    [self EXCEPT !.Trtd = Elapsed(self.ctsr, now),
                 !.Ti = MonitoringTime(self.ctsr, now)]
-----------------------------------------------------------------------------
Silently(self) == [sm |-> self, sent |-> << >>]
Sending(self, pdu) == [sm |-> self, sent |-> <<pdu>>]

\* Mutant: a heartbeat does not count as a message.
SendHB_Uncounted(self, now) == Sending(self, HB(self, now))

SendHB(self, now) == Sending(Counted(self), HB(Counted(self), now))

\* Mutant: the peer is told, but the connection is not closed.
Disconnect_Open(self, now, pdu, discReason) ==
    Sending(Counted(self), DiscReq(Counted(self), now, discReason))

Disconnect(self, now, pdu, discReason) ==
    LET closed == Counted(close_connection(self, pdu))
    IN  Sending(closed, DiscReq(closed, now, discReason))

Unexpected(self, now, pdu) ==
    Disconnect(self, now, pdu, "NOT_EXPECTED_RECV_MSG_TYPE")

RequestRetransmission(self, now) ==
    LET waiting == Counted([self EXCEPT !.state = "STATE_RETR_REQ"])
    IN  Sending(waiting, RetrReq(waiting, now))

\* Mutant: a receipt does not lead to the next state.
Receipt_Stays(self, now, pdu, next) ==
    UpdateTimes(process_regular_receipt(self, pdu), now)

\* Mutant: the times are recalculated before the timestamps are stored.
Receipt_TimesFirst(self, now, pdu, next) ==
    [process_regular_receipt(UpdateTimes(self, now), pdu) EXCEPT !.state = next]

Receipt(self, now, pdu, next) ==
    UpdateTimes([process_regular_receipt(self, pdu) EXCEPT !.state = next], now)

\* Mutant: a message that skips some numbers is in sequence.
SNinSeq_AtLeast(self, pdu) == self.snr <= pdu.sequence_number

SNinSeq(self, pdu) == self.snr = pdu.sequence_number

\* A message with the expected sequence number: only its confirmed timestamp
\* is still to be checked.
ReceiveInSeq(self, now, pdu, next) ==
    IF check_seq_confirmed_timestamp(self, pdu)
    THEN Silently(Receipt(self, now, pdu, next))
    ELSE Disconnect(self, now, pdu, "SEQ_ERR")

ReceiveOrRequest(self, now, pdu, next) ==
    IF SNinSeq(self, pdu)
    THEN ReceiveInSeq(self, now, pdu, next)
    ELSE RequestRetransmission(self, now)

(***************************************************************************)
(* A retransmission request, received in STATE_UP or STATE_RETR_REQ: if    *)
(* everything unconfirmed were available, a request in sequence would be a *)
(* regular receipt, and one out of sequence would leave the machine in     *)
(* STATE_RETR_REQ.  (The answer to send is still to be written.)           *)
(***************************************************************************)
AnswerRetrReq(self, now, pdu) ==
    IF ~unconfirmed_payload_available
    THEN Disconnect(self, now, pdu, "FAIL_RETRANSMISSION")
    ELSE Silently(IF SNinSeq(self, pdu)
                  THEN Receipt(self, now, pdu, self.state)
                  ELSE [self EXCEPT !.csr = pdu.confirmed_sequence_number,
                                    !.state = "STATE_RETR_REQ"])
-----------------------------------------------------------------------------
\* Mutant: what the last connection was to confirm is kept.
handle_closed_KeepsCst(self, now, rand, event, pdu) ==
    LET opened == [self EXCEPT !.snt = rand]
        calling == [opened EXCEPT !.ctsr = now, !.state = "STATE_START"]
    IN  IF event # "EVENT_OPEN_CONN" THEN Silently(self)
        ELSE IF self.role = "ROLE_SERVER"
        THEN Silently([opened EXCEPT !.state = "STATE_DOWN"])
        ELSE Sending(calling, ConnReq(calling, now))

handle_closed(self, now, rand, event, pdu) ==
    LET opened == [self EXCEPT !.snt = rand]
        calling == [opened EXCEPT !.cst = 0,
                                  !.ctsr = now,
                                  !.state = "STATE_START"]
    IN  IF event # "EVENT_OPEN_CONN" THEN Silently(self)
        ELSE IF self.role = "ROLE_SERVER"
        THEN Silently([opened EXCEPT !.state = "STATE_DOWN"])
        ELSE Sending(calling, ConnReq(calling, now))

handle_down(self, now, event, pdu) ==
    LET answering ==
          UpdateTimes([process_regular_receipt(self, pdu) EXCEPT
                         !.csr = Dec(self.snt),
                         !.ctsr = now,
                         !.state = "STATE_START"], now)
    IN  CASE event \in {"EVENT_OPEN_CONN", "EVENT_CLOSE_CONN",
                        "EVENT_SEND_DATA"} ->
               Silently(close_connection(self, pdu))
          [] event = "EVENT_RECV_CONN_REQ" ->
               IF check_version(pdu)
               THEN Sending(answering, ConnResp(answering, now))
               ELSE Disconnect(self, now, pdu, "PROTOCOL_VERSION_ERROR")
          [] OTHER -> Silently(self)

handle_start(self, now, event, pdu) ==
    CASE event \in {"EVENT_OPEN_CONN", "EVENT_SEND_DATA"} ->
           Disconnect(self, now, pdu, "STATE_SERVICE_NOT_ALLOWED")
      [] event = "EVENT_CLOSE_CONN" ->
           Disconnect(self, now, pdu, "USER_REQUEST")
      [] event \in {"EVENT_RECV_CONN_REQ", "EVENT_RECV_RETR_REQ",
                    "EVENT_RECV_RETR_RESP", "EVENT_RECV_DATA",
                    "EVENT_RECV_RETR_DATA"} ->
           Unexpected(self, now, pdu)
      [] event = "EVENT_RECV_CONN_RESP" ->
           IF self.role = "ROLE_SERVER" THEN Unexpected(self, now, pdu)
           ELSE IF check_version(pdu)
           THEN SendHB(Receipt(self, now, pdu, "STATE_UP"), now)
           ELSE Disconnect(self, now, pdu, "PROTOCOL_VERSION_ERROR")
      [] event = "EVENT_RECV_DISC_REQ" ->
           Silently(close_connection(self, pdu))
      [] event = "EVENT_RECV_HB" ->
           IF self.role = "ROLE_CLIENT" THEN Unexpected(self, now, pdu)
           ELSE IF SNinSeq(self, pdu)
           THEN ReceiveInSeq(self, now, pdu, "STATE_UP")
           ELSE Disconnect(self, now, pdu, "SEQ_NBR_ERR_FOR_CONNECTION")
      [] OTHER -> Silently(self)

handle_up(self, now, event, pdu) ==
    CASE event = "EVENT_OPEN_CONN" ->
           Disconnect(self, now, pdu, "STATE_SERVICE_NOT_ALLOWED")
      [] event = "EVENT_CLOSE_CONN" ->
           Disconnect(self, now, pdu, "USER_REQUEST")
      [] event = "EVENT_SEND_DATA" -> Sending(self, pdu)
      [] event \in {"EVENT_RECV_CONN_REQ", "EVENT_RECV_CONN_RESP",
                    "EVENT_RECV_RETR_RESP", "EVENT_RECV_RETR_DATA"} ->
           Unexpected(self, now, pdu)
      [] event = "EVENT_RECV_DISC_REQ" ->
           Silently(close_connection(self, pdu))
      [] event = "EVENT_RECV_RETR_REQ" -> AnswerRetrReq(self, now, pdu)
      [] event \in {"EVENT_RECV_HB", "EVENT_RECV_DATA"} ->
           ReceiveOrRequest(self, now, pdu, "STATE_UP")
      [] OTHER -> Silently(self)

handle_retr_req(self, now, event, pdu) ==
    CASE event = "EVENT_OPEN_CONN" ->
           Disconnect(self, now, pdu, "STATE_SERVICE_NOT_ALLOWED")
      [] event = "EVENT_CLOSE_CONN" ->
           Disconnect(self, now, pdu, "USER_REQUEST")
      [] event = "EVENT_SEND_DATA" -> Sending(self, pdu)
      [] event \in {"EVENT_RECV_CONN_REQ", "EVENT_RECV_CONN_RESP"} ->
           Unexpected(self, now, pdu)
      [] event = "EVENT_RECV_DISC_REQ" ->
           Silently(close_connection(self, pdu))
      [] event = "EVENT_RECV_RETR_REQ" -> AnswerRetrReq(self, now, pdu)
      [] event = "EVENT_RECV_RETR_RESP" ->
           Silently([self EXCEPT !.state = "STATE_RETR_RUN"])
      [] OTHER -> Silently(self)

handle_retr_run(self, now, event, pdu) ==
    CASE event = "EVENT_OPEN_CONN" ->
           Disconnect(self, now, pdu, "STATE_SERVICE_NOT_ALLOWED")
      [] event = "EVENT_CLOSE_CONN" ->
           Disconnect(self, now, pdu, "USER_REQUEST")
      [] event = "EVENT_SEND_DATA" -> Sending(self, pdu)
      [] event \in {"EVENT_RECV_CONN_REQ", "EVENT_RECV_CONN_RESP",
                    "EVENT_RECV_RETR_RESP"} ->
           Unexpected(self, now, pdu)
      [] event = "EVENT_RECV_DISC_REQ" ->
           Silently(close_connection(self, pdu))
      [] event = "EVENT_RECV_RETR_REQ" ->
           IF SNinSeq(self, pdu) THEN Unexpected(self, now, pdu)
           ELSE AnswerRetrReq(self, now, pdu)
      [] event \in {"EVENT_RECV_HB", "EVENT_RECV_DATA"} ->
           ReceiveOrRequest(self, now, pdu, "STATE_UP")
      [] event = "EVENT_RECV_RETR_DATA" ->
           ReceiveOrRequest(self, now, pdu, "STATE_RETR_RUN")
      [] OTHER -> Silently(self)
-----------------------------------------------------------------------------
(***************************************************************************)
(* Sm_HandleEvent: the installed handler, then the timer events, which no  *)
(* handler treats, and last the handler of the state that was reached.     *)
(***************************************************************************)
Handled(self, now, rand, event, pdu) ==
    CASE self.handle_event = "STATE_CLOSED" ->
           handle_closed(self, now, rand, event, pdu)
      [] self.handle_event = "STATE_DOWN" -> handle_down(self, now, event, pdu)
      [] self.handle_event = "STATE_START" -> handle_start(self, now, event, pdu)
      [] self.handle_event = "STATE_UP" -> handle_up(self, now, event, pdu)
      [] self.handle_event = "STATE_RETR_REQ" ->
           handle_retr_req(self, now, event, pdu)
      [] self.handle_event = "STATE_RETR_RUN" ->
           handle_retr_run(self, now, event, pdu)

\* Mutant: only an established connection times out.
TimerHandled_OnlyUp(self, now, event, pdu) ==
    IF event = "EVENT_TI_ELAPSED"
    THEN IF self.state = "STATE_UP"
         THEN Disconnect(self, now, pdu, "TIMEOUT_INCOMING_MSG")
         ELSE Silently(self)
    ELSE IF self.state \in {"STATE_CLOSED", "STATE_DOWN"} THEN Silently(self)
    ELSE SendHB(self, now)

TimerHandled(self, now, event, pdu) ==
    IF event = "EVENT_TI_ELAPSED"
    THEN Disconnect(self, now, pdu, "TIMEOUT_INCOMING_MSG")
    ELSE IF self.state \in {"STATE_CLOSED", "STATE_DOWN"} THEN Silently(self)
    ELSE SendHB(self, now)

Sm_HandleEvent(self, now, rand, event, pdu) ==
    LET r == IF event \in {"EVENT_TH_ELAPSED", "EVENT_TI_ELAPSED"}
             THEN TimerHandled(self, now, event, pdu)
             ELSE Handled(self, now, rand, event, pdu)
    IN  [sm |-> [r.sm EXCEPT !.handle_event = r.sm.state], sent |-> r.sent]

(***************************************************************************)
(* Sm_Init, with the state and role SafeCom_Init_Impl stores before it.    *)
(***************************************************************************)
Sm_Init(role) ==
    [state |-> "STATE_CLOSED", handle_event |-> "STATE_CLOSED", role |-> role,
     snr |-> 0, snt |-> 0, cst |-> 0, csr |-> 0, tsr |-> 0, ctsr |-> 0,
     Ti |-> Tmax, Trtd |-> 0]

(***************************************************************************)
(* The states in which Ti counts down the monitoring time of a connection: *)
(* all but those in which nothing has been received yet.                   *)
(***************************************************************************)
Supervised(self) ==
    \/ self.state \in {"STATE_UP", "STATE_RETR_REQ", "STATE_RETR_RUN"}
    \/ self.state = "STATE_START" /\ self.role = "ROLE_SERVER"
=============================================================================
