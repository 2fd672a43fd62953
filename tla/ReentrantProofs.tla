-------------------------- MODULE ReentrantProofs ---------------------------
(***************************************************************************)
(* Proofs about Reentrant, for every value of its constants and so for     *)
(* calls nested to any depth: HandlerOfState and CloseCloses.              *)
(***************************************************************************)
EXTENDS Reentrant, SmProofs

(***************************************************************************)
(* The inductive invariant.  A call from a callback may find any handler   *)
(* installed in any state, with two exceptions: a closed connection has    *)
(* the handler of STATE_CLOSED, and that handler is found in no other      *)
(* state than the one of a client that is sending its connection request.  *)
(***************************************************************************)
TypeInv ==
    /\ sm \in SmType
    /\ depth \in Nat

Outermost == depth = 0 => sm.handle_event = sm.state

Handles(self) ==
    /\ self.state = "STATE_CLOSED" => self.handle_event = "STATE_CLOSED"
    /\ self.handle_event = "STATE_CLOSED" /\ self.state # "STATE_CLOSED" =>
         self.role = "ROLE_CLIENT" /\ self.state = "STATE_START"

ClosedHandler == Handles(sm)

Inv ==
    /\ TypeInv
    /\ Outermost
    /\ ClosedHandler
    /\ CloseCloses

LEMMA InstalledHandles ==
    ASSUME NEW self \in SmType
    PROVE  /\ Installed(self) \in SmType
           /\ Installed(self).state = self.state
           /\ Installed(self).handle_event = self.state
           /\ Installed(self).role = self.role
           /\ Handles(Installed(self))
  BY DEF Installed, SmType, Handles

LEMMA NowType == Now \in Time /\ NotDrawn \in SeqNo /\ LocalPdu(0) \in PDU_S
  BY SeqCountAssumption, TimeHalfAssumption, LocalPduType
     DEF Now, NotDrawn, Time, TimeMod, SeqNo

LEMMA DisconnectHandles ==
    ASSUME NEW self \in SmType, NEW pdu \in PDU_S, NEW now, NEW reason
    PROVE  LET r == Disconnect(self, now, pdu, reason)
           IN  /\ r.sm \in SmType
               /\ r.sm.role = self.role
               /\ r.sm.state = "STATE_CLOSED"
               /\ r.sm.handle_event = "STATE_CLOSED"
  <1> DEFINE closed == close_connection(self, pdu)
  <1>1. /\ closed \in SmType /\ closed.role = self.role
        /\ closed.state = "STATE_CLOSED" /\ closed.handle_event = "STATE_CLOSED"
    BY CloseConnectionType DEF close_connection, SmType
  <1> HIDE DEF closed
  <1>2. /\ Counted(closed) \in SmType
        /\ Counted(closed) = [closed EXCEPT !.snt = Inc(closed.snt)]
    BY <1>1, CountedType
  <1>3. Disconnect(self, now, pdu, reason).sm = Counted(closed)
    BY DEF Disconnect, Sending, closed
  <1>4. QED
    BY <1>1, <1>2, <1>3 DEF SmType

(***************************************************************************)
(* One case per outcome: whatever handler runs in whatever state, what it  *)
(* leaves satisfies ClosedHandler, or the call ends at once.               *)
(***************************************************************************)
LEMMA OutcomeHandles ==
    ASSUME NEW self \in SmType, Handles(self), NEW rand \in SeqNo, NEW event,
           NEW pdu \in PDU_S, NEW r, Outcome(self, Now, rand, event, pdu, r)
    PROVE  /\ r.sm \in SmType
           /\ r.sm.role = self.role
           /\ r.sent # << >> => Handles(r.sm)
  <1>1. CASE Ignores(self, r) \/ PassesOn(self, event, pdu, r)
    BY <1>1 DEF Ignores, PassesOn, Silently, Sending
  <1>2. CASE Closes(self, pdu, r)
    BY <1>2, CloseConnectionType DEF Closes, Silently
  <1>3. CASE Disconnects(self, Now, pdu, r)
    BY <1>3, DisconnectHandles DEF Disconnects, Handles
  <1>4. CASE Listens(self, rand, event, r)
    BY <1>4 DEF Listens, Silently, SmType, State
  <1>5. CASE Calls(self, Now, rand, event, r)
    <2>1. 0 \in SeqNo
      BY SeqCountAssumption DEF SeqNo
    <2>2. QED
      BY <1>5, <2>1, NowType DEF Calls, Calling, Sending, SmType, SmRole, State,
                                 Handles
  <1>6. CASE Answers(self, Now, event, pdu, r)
    <2>1. r.sm = Answering(self, Now, pdu) /\ self.handle_event = "STATE_DOWN"
      BY <1>6 DEF Answers, Sending
    <2>2. QED
      BY <2>1, NowType, AnsweringType DEF Handles
  <1>7. CASE Connects(self, Now, event, pdu, r)
    <2> DEFINE up == Receipt(self, Now, pdu, "STATE_UP")
    <2>1. up \in SmType /\ up.role = self.role /\ up.state = "STATE_UP"
      BY NowType, ReceiptType DEF State
    <2>2. up.handle_event = self.handle_event
      BY DEF Receipt, UpdateTimes, process_regular_receipt, SmType
    <2> HIDE DEF up
    <2>3. r.sm = [up EXCEPT !.snt = Inc(up.snt)] /\ r.sm \in SmType
      BY <1>7, <2>1, CountedType DEF Connects, SendHB, Sending, up
    <2>4. self.handle_event = "STATE_START"
      BY <1>7 DEF Connects
    <2>5. QED
      BY <2>1, <2>2, <2>3, <2>4 DEF Handles, SmType
  <1>8. CASE Receives(self, Now, event, pdu, r)
    <2>1. PICK next \in State : r = Silently(Receipt(self, Now, pdu, next))
      BY <1>8 DEF Receives, State
    <2>2. QED
      BY <2>1, NowType, ReceiptType DEF Silently
  <1>9. CASE Requests(self, Now, pdu, r)
    <2> DEFINE asking == [self EXCEPT !.state = "STATE_RETR_REQ"]
    <2>1. /\ asking \in SmType
          /\ asking.role = self.role /\ asking.state = "STATE_RETR_REQ"
          /\ asking.handle_event = self.handle_event
      BY DEF SmType, State
    <2>2. /\ r.sm = Counted(asking)
          /\ self.handle_event # "STATE_CLOSED"
      BY <1>9 DEF Requests, RequestRetransmission, Sending
    <2> HIDE DEF asking
    <2>3. /\ Counted(asking) \in SmType
          /\ Counted(asking) = [asking EXCEPT !.snt = Inc(asking.snt)]
      BY <2>1, CountedType
    <2>4. QED
      BY <2>1, <2>2, <2>3 DEF Handles, SmType
  <1>10. CASE Resumes(self, event, r)
    BY <1>10 DEF Resumes, Silently, SmType, State
  <1>11. QED
    BY <1>1, <1>2, <1>3, <1>4, <1>5, <1>6, <1>7, <1>8, <1>9, <1>10 DEF Outcome
-----------------------------------------------------------------------------
(***************************************************************************)
(* The first step of a call keeps all of the invariant but CloseCloses,    *)
(* which is a matter of the call.                                          *)
(***************************************************************************)
LEMMA BeginKeeps ==
    ASSUME NEW r, Inv, Begin(r), r.sm \in SmType, r.sent # << >> => Handles(r.sm)
    PROVE  (TypeInv /\ Outermost /\ ClosedHandler)'
  <1>1. CASE r.sent = << >>
    <2>1. sm' = Installed(r.sm) /\ depth' = depth
      BY <1>1 DEF Begin
    <2>2. QED
      BY <2>1, InstalledHandles
         DEF Inv, TypeInv, Outermost, ClosedHandler, Handles
  <1>2. CASE r.sent # << >>
    <2>1. sm' = r.sm /\ depth' = depth + 1
      BY <1>2 DEF Begin
    <2>2. QED
      BY <1>2, <2>1 DEF Inv, TypeInv, Outermost, ClosedHandler, Handles
  <1>3. QED
    BY <1>1, <1>2

LEMMA CallKeeps ==
    ASSUME NEW self \in SmType, Handles(self), Inv,
           NEW rand \in SeqNo, NEW event, NEW pdu \in PDU_S,
           Begin(Handled(self, Now, rand, event, pdu))
    PROVE  (TypeInv /\ Outermost /\ ClosedHandler)'
  <1> DEFINE r == Handled(self, Now, rand, event, pdu)
  <1>1. Outcome(self, Now, rand, event, pdu, r)
    BY HandledOutcome DEF SmType
  <1> HIDE DEF r
  <1>2. r.sm \in SmType /\ (r.sent # << >> => Handles(r.sm))
    BY <1>1, OutcomeHandles
  <1>3. QED
    BY <1>2, BeginKeeps DEF r

(***************************************************************************)
(* A call of SafeCom_CloseConnection closes unless the handler of          *)
(* STATE_CLOSED is installed, and then it leaves the state as it is.       *)
(***************************************************************************)
LEMMA CloseOutcome ==
    ASSUME NEW self \in SmType, NEW pdu \in PDU_S
    PROVE  LET r == Handled(self, Now, NotDrawn, "EVENT_CLOSE_CONN", pdu)
           IN  \/ r.sm.state = "STATE_CLOSED" /\ r.sm \in SmType
               \/ r = Silently(self) /\ self.handle_event = "STATE_CLOSED"
  <1> DEFINE r == Handled(self, Now, NotDrawn, "EVENT_CLOSE_CONN", pdu)
  <1>1. self.handle_event \in State
    BY DEF SmType
  <1>2. CASE self.handle_event = "STATE_CLOSED"
    BY <1>2 DEF Handled, handle_closed
  <1>3. CASE self.handle_event = "STATE_DOWN"
    <2>1. r = Silently(close_connection(self, pdu))
      BY <1>3 DEF Handled, handle_down
    <2>2. QED
      BY <2>1, CloseConnectionType DEF Silently
  <1>4. CASE self.handle_event \in {"STATE_START", "STATE_UP", "STATE_RETR_REQ",
                                    "STATE_RETR_RUN"}
    <2>1. r = Disconnect(self, Now, pdu, "USER_REQUEST")
      BY <1>4 DEF Handled, handle_start, handle_up, handle_retr_req,
                  handle_retr_run
    <2>2. QED
      BY <2>1, DisconnectHandles
  <1>5. QED
    BY <1>1, <1>2, <1>3, <1>4 DEF State

LEMMA InitInv == Init => Inv
  <1> SUFFICES ASSUME Init PROVE Inv
    OBVIOUS
  <1>1. PICK role \in SmRole : sm = Sm_Init(role)
    BY DEF Init
  <1>2. sm \in SmType
    BY <1>1, SeqCountAssumption, TimeHalfAssumption, TmaxAssumption
       DEF Sm_Init, SmType, State, SeqNo, Time, TimeMod, Int32
  <1>3. sm.state = "STATE_CLOSED" /\ sm.handle_event = "STATE_CLOSED"
    BY <1>1 DEF Sm_Init
  <1>4. QED
    BY <1>2, <1>3 DEF Init, Inv, TypeInv, Outermost, ClosedHandler, Handles,
                          CloseCloses

LEMMA NextInv == Inv /\ [Next]_vars => Inv'
  <1> SUFFICES ASSUME Inv, [Next]_vars PROVE Inv'
    OBVIOUS
  <1>1. sm \in SmType /\ Handles(sm) /\ depth \in Nat
    BY DEF Inv, TypeInv, ClosedHandler, Handles
  <1>2. CASE OpenConnection
    <2>1. PICK rand \in SntValues :
            Begin(Handled(sm, Now, rand, "EVENT_OPEN_CONN", LocalPdu(0)))
      BY <1>2 DEF OpenConnection
    <2>2. rand \in SeqNo
      BY ReentrantAssumption
    <2>3. QED
      BY <1>1, <1>2, <2>1, <2>2, NowType, CallKeeps
         DEF Inv, OpenConnection, CloseCloses
  <1>3. CASE CloseConnection
    <2> DEFINE r == Handled(sm, Now, NotDrawn, "EVENT_CLOSE_CONN", LocalPdu(0))
    <2>1. Begin(r)
      BY <1>3 DEF CloseConnection
    <2>2. (TypeInv /\ Outermost /\ ClosedHandler)'
      BY <1>1, <2>1, NowType, CallKeeps
    <2>3. \/ r.sm.state = "STATE_CLOSED" /\ r.sm \in SmType
          \/ r = Silently(sm) /\ sm.handle_event = "STATE_CLOSED"
      BY <1>1, NowType, CloseOutcome
    <2> HIDE DEF r
    <2>4. CASE r.sm.state = "STATE_CLOSED" /\ r.sm \in SmType
      <3>1. sm'.state = "STATE_CLOSED"
        BY <2>1, <2>4, InstalledHandles DEF Begin
      <3>2. QED
        BY <2>2, <3>1 DEF Inv, CloseCloses
    <2>5. CASE r = Silently(sm) /\ sm.handle_event = "STATE_CLOSED"
      <3>1. sm' = Installed(sm) /\ depth' = depth
        BY <2>1, <2>5 DEF Begin, Silently
      <3>2. sm'.state = sm.state /\ sm'.role = sm.role
        BY <1>1, <3>1, InstalledHandles
      <3>3. CloseCloses'
        BY <1>1, <2>5, <3>1, <3>2
           DEF Inv, Outermost, ClosedHandler, Handles, CloseCloses
      <3>4. QED
        BY <2>2, <3>3 DEF Inv
    <2>6. QED
      BY <2>3, <2>4, <2>5
  <1>4. CASE SendData
    <2>1. PICK msg \in AppData :
            Begin(Handled(Counted(sm), Now, NotDrawn, "EVENT_SEND_DATA",
                          Data(Counted(sm), Now, msg)))
      BY <1>4 DEF SendData
    <2>2. Counted(sm) \in SmType /\ Handles(Counted(sm))
      BY <1>1, CountedType DEF Handles, SmType
    <2>3. Data(Counted(sm), Now, msg) \in PDU_S
      BY <2>2, NowType DEF Data, Confirming, PDU_S, PduOf, Payload, MessageType, SmType
    <2>4. QED
      BY <1>4, <2>1, <2>2, <2>3, NowType, CallKeeps DEF Inv, SendData, CloseCloses
  <1>5. CASE ReceiveSpdu
    <2>1. PICK f \in Arriving :
            Begin(Handled(sm, Now, NotDrawn, EventOf[f.message_type], f))
      BY <1>5 DEF ReceiveSpdu
    <2>2. f \in PDU_S
      BY ReentrantAssumption DEF Frame, PDU_S, PduOf
    <2>3. QED
      BY <1>1, <1>5, <2>1, <2>2, NowType, CallKeeps
         DEF Inv, ReceiveSpdu, CloseCloses
  <1>6. CASE TimerEvent
    <2>1. PICK event \in {"EVENT_TH_ELAPSED", "EVENT_TI_ELAPSED"} :
            Begin(TimerHandled(sm, Now, event, LocalPdu(0)))
      BY <1>6 DEF TimerEvent
    <2> DEFINE r == TimerHandled(sm, Now, event, LocalPdu(0))
    <2>2. \/ r = Disconnect(sm, Now, LocalPdu(0), "TIMEOUT_INCOMING_MSG")
          \/ r = Silently(sm)
          \/ r = SendHB(sm, Now)
      BY DEF TimerHandled
    <2>3. r.sm \in SmType /\ Handles(r.sm)
      <3>1. CASE r = Disconnect(sm, Now, LocalPdu(0), "TIMEOUT_INCOMING_MSG")
        BY <1>1, <3>1, NowType, DisconnectHandles DEF Handles
      <3>2. CASE r = Silently(sm)
        BY <1>1, <3>2 DEF Silently
      <3>3. CASE r = SendHB(sm, Now)
        BY <1>1, <3>3, CountedType DEF SendHB, Sending, Handles, SmType
      <3>4. QED
        BY <2>2, <3>1, <3>2, <3>3
    <2> HIDE DEF r
    <2>4. QED
      BY <1>6, <2>1, <2>3, BeginKeeps DEF Inv, TimerEvent, CloseCloses, r
  <1>7. CASE Return
    <2>1. sm' = Installed(sm) /\ depth' \in Nat /\ closing' = FALSE
      BY <1>1, <1>7 DEF Return
    <2>2. QED
      BY <1>1, <2>1, InstalledHandles
         DEF Inv, TypeInv, Outermost, ClosedHandler, CloseCloses, Handles
  <1>8. CASE UNCHANGED vars
    BY <1>8 DEF vars, Inv, TypeInv, Outermost, ClosedHandler, CloseCloses
  <1>9. QED
    BY <1>2, <1>3, <1>4, <1>5, <1>6, <1>7, <1>8 DEF Next

(***************************************************************************)
(* The invariant holds, however deep calls are nested.                     *)
(***************************************************************************)
THEOREM Invariance == Spec => []Inv
  BY InitInv, NextInv, PTL DEF Spec

(***************************************************************************)
(* Outside of all calls the handler of the state is installed, and a       *)
(* closed connection is handled as closed even inside the callback of its  *)
(* disconnection request (sm.c:85).                                        *)
(***************************************************************************)
THEOREM HandlerSettled == Spec => []HandlerOfState
  <1>1. Inv => HandlerOfState
    BY DEF Inv, Outermost, ClosedHandler, Handles, HandlerOfState
  <1>2. QED
    BY <1>1, Invariance, PTL

(***************************************************************************)
(* SafeCom_CloseConnection closes the connection from any callback but     *)
(* that of the client's connection request.                                *)
(***************************************************************************)
THEOREM CloseTakesEffect == Spec => []CloseCloses
  <1>1. Inv => CloseCloses
    BY DEF Inv
  <1>2. QED
    BY <1>1, Invariance, PTL
=============================================================================
