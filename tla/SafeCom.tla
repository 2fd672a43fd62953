------------------------------ MODULE SafeCom ------------------------------
(***************************************************************************)
(* What can be done to one connection: the services of                     *)
(* safecom/src/safecom_impl.c, the ReceiveMsg callback that the            *)
(* application installs, which decodes a frame and raises the event of its *)
(* type, and the loop with which an application drives the timers, as      *)
(* test/test_timeout/test_timeout.c writes it (the library's own           *)
(* SafeCom_Main_Impl does nothing).                                        *)
(*                                                                         *)
(* The callback belongs to the application.  Those of the tests raise only *)
(* the events their test needs (test_rass_server.c:177-184: a request and  *)
(* a heartbeat; test_rass_client.c: a response); the one modelled here     *)
(* raises the event of each of the eight types, which is what the handlers *)
(* of sm.c are written for.                                                *)
(***************************************************************************)
EXTENDS Sm

CONSTANT LastSecond     \* the greatest value of Tlocal()

ASSUME LastSecondAssumption == LastSecond \in 1 .. TimeMod - 1

(***************************************************************************)
(* GetCurrentTimestamp: the ticks of clock(), as a uint32_t, divided by    *)
(* CLOCKS_PER_SEC.  The ticks wrap, so the seconds start again at 0 after  *)
(* LastSecond (4294, at 10^6 ticks a second), far below TimeMod.           *)
(***************************************************************************)
Tlocal == 0 .. LastSecond
Later(t) == IF t = LastSecond THEN 0 ELSE t + 1

NotDrawn == 0           \* the random value, for events that draw none

\* Mutant: copied from the service below and not adapted.
SafeCom_OpenConnection_Impl_Copied(self, now, rand) ==
    Sm_HandleEvent(self, now, rand, "EVENT_CLOSE_CONN", LocalPdu(0))

SafeCom_OpenConnection_Impl(self, now, rand) ==
    Sm_HandleEvent(self, now, rand, "EVENT_OPEN_CONN", LocalPdu(0))

SafeCom_CloseConnection_Impl(self, now) ==
    Sm_HandleEvent(self, now, NotDrawn, "EVENT_CLOSE_CONN", LocalPdu(0))

\* Mutant: the message is counted once more after it has been sent.
SafeCom_SendData_Impl_Twice(self, now, msg) ==
    LET r == Sm_HandleEvent(Counted(self), now, NotDrawn, "EVENT_SEND_DATA",
                            Data(Counted(self), now, msg))
    IN  [sm |-> Counted(r.sm), sent |-> r.sent]

\* Data() counts the message before the state machine is asked to send it.
SafeCom_SendData_Impl(self, now, msg) ==
    Sm_HandleEvent(Counted(self), now, NotDrawn, "EVENT_SEND_DATA",
                   Data(Counted(self), now, msg))

EventOf ==
    [type \in MessageType |->
       CASE type = "CONNECTION_REQUEST" -> "EVENT_RECV_CONN_REQ"
         [] type = "CONNECTION_RESPONSE" -> "EVENT_RECV_CONN_RESP"
         [] type = "RETRANSMISSION_REQUEST" -> "EVENT_RECV_RETR_REQ"
         [] type = "RETRANSMISSION_RESPONSE" -> "EVENT_RECV_RETR_RESP"
         [] type = "DISCONNECTION_REQUEST" -> "EVENT_RECV_DISC_REQ"
         [] type = "HEARTBEAT" -> "EVENT_RECV_HB"
         [] type = "DATA" -> "EVENT_RECV_DATA"
         [] type = "RETRANSMITTED_DATA" -> "EVENT_RECV_RETR_DATA"]

ReceiveMsg(self, now, frame) ==
    Sm_HandleEvent(self, now, NotDrawn, EventOf[frame.message_type], frame)

(***************************************************************************)
(* One pass of the timer loop, run once per second of Tlocal() while the   *)
(* connection is not closed.  seq is the sequence number that earlier      *)
(* passes left in the loop's PDU, zero when the loop starts.               *)
(***************************************************************************)
\* Mutant: sending a heartbeat restarts the monitoring time.
AfterTh_Restarts(self, now, seq) ==
    IF now % Th = 0
    THEN Sm_HandleEvent([self EXCEPT !.Ti = Tmax], now, NotDrawn,
                        "EVENT_TH_ELAPSED", LocalPdu(seq))
    ELSE Silently(self)

AfterTh(self, now, seq) ==
    IF now % Th = 0
    THEN Sm_HandleEvent(self, now, NotDrawn, "EVENT_TH_ELAPSED", LocalPdu(seq))
    ELSE Silently(self)

LeftInPdu(r, seq) == IF r.sent = << >> THEN seq ELSE r.sent[1].sequence_number

\* Mutant: the loop does not count Ti down.
TimerPass_Uncounted(self, now, seq) ==
    LET th == AfterTh(self, now, seq)
        ti == Sm_HandleEvent(th.sm, now, NotDrawn, "EVENT_TI_ELAPSED",
                             LocalPdu(LeftInPdu(th, seq)))
    IN  IF th.sm.Ti <= 0
        THEN [sm |-> ti.sm, sent |-> th.sent \o ti.sent]
        ELSE th

TimerPass(self, now, seq) ==
    LET counted == [self EXCEPT !.Ti = DecInt32(@)]
        th == AfterTh(counted, now, seq)
        ti == Sm_HandleEvent(th.sm, now, NotDrawn, "EVENT_TI_ELAPSED",
                             LocalPdu(LeftInPdu(th, seq)))
    IN  IF th.sm.Ti <= 0
        THEN [sm |-> ti.sm, sent |-> th.sent \o ti.sent]
        ELSE th

AfterPass(r, seq) == IF r.sm.state = "STATE_CLOSED" THEN 0 ELSE LeftInPdu(r, seq)
=============================================================================
