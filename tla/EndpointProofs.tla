--------------------------- MODULE EndpointProofs ---------------------------
(***************************************************************************)
(* Proofs about Endpoint, for every value of its constants: the types, the *)
(* invariants TiBalanced and ConfirmsLastTaken and the action properties   *)
(* NumbersStepByOne and CtsNeverRegresses; and that they hold of Intake    *)
(* too, where frames may arrive cut short.                                 *)
(***************************************************************************)
EXTENDS Intake, SmProofs

(***************************************************************************)
(* What ConfirmsLastTaken says of a context, and that only a server        *)
(* listens: it has taken in a number when it answers, a client has not.    *)
(***************************************************************************)
Confirmed(self) ==
    /\ self.state = "STATE_DOWN" => self.role = "ROLE_SERVER"
    /\ self.state \notin {"STATE_CLOSED", "STATE_DOWN"} =>
         self.cst = IF Supervised(self) THEN Dec(self.snr) ELSE 0

LEMMA DecInc ==
    ASSUME NEW n \in SeqNo
    PROVE  Dec(Inc(n)) = n
  BY SeqCountAssumption DEF SeqNo, Inc, Dec

LEMMA ClosedConfirmed ==
    ASSUME NEW self, self.state = "STATE_CLOSED"
    PROVE  Confirmed(self)
  BY DEF Confirmed

\* Neither a message sent nor a second counted touches what is confirmed.
LEMMA SameConfirmed ==
    ASSUME NEW old, NEW new, Confirmed(old),
           new.state = old.state, new.role = old.role,
           new.cst = old.cst, new.snr = old.snr
    PROVE  Confirmed(new)
  BY DEF Confirmed, Supervised

LEMMA CountedConfirmed ==
    ASSUME NEW self \in SmType, Confirmed(self)
    PROVE  Confirmed(Counted(self))
  <1>1. Counted(self) = [self EXCEPT !.snt = Inc(self.snt)]
    BY CountedType
  <1>2. /\ Counted(self).state = self.state /\ Counted(self).role = self.role
        /\ Counted(self).cst = self.cst /\ Counted(self).snr = self.snr
    BY <1>1 DEF SmType
  <1>3. QED
    BY <1>2, SameConfirmed

\* A regular receipt confirms the number it takes in.
LEMMA ReceiptConfirmed ==
    ASSUME NEW self \in SmType, NEW now \in Time, NEW pdu \in PDU_S,
           NEW next \in {"STATE_UP", "STATE_RETR_RUN"}
    PROVE  Confirmed(Receipt(self, now, pdu, next))
  <1> DEFINE new == Receipt(self, now, pdu, next)
  <1>1. pdu.sequence_number \in SeqNo
    BY DEF PDU_S, PduOf
  <1>2. /\ new.state = next /\ new.cst = pdu.sequence_number
        /\ new.snr = Inc(pdu.sequence_number)
    BY DEF Receipt, UpdateTimes, process_regular_receipt, SmType
  <1> HIDE DEF new
  <1>3. QED
    BY <1>1, <1>2, DecInc DEF Confirmed, Supervised, new

LEMMA OutcomeConfirmed ==
    ASSUME NEW self \in SmType, NEW now \in Time, NEW rand \in SeqNo,
           NEW event, NEW pdu \in PDU_S, NEW r, HandlerSet(self),
           Outcome(self, now, rand, event, pdu, r), Confirmed(self)
    PROVE  Confirmed(r.sm)
  <1>1. CASE Ignores(self, r) \/ PassesOn(self, event, pdu, r)
    BY <1>1 DEF Ignores, PassesOn, Silently, Sending
  <1>2. CASE Closes(self, pdu, r) \/ Disconnects(self, now, pdu, r)
    <2>1. r.sm.state = "STATE_CLOSED"
      BY <1>2, CloseConnectionType, DisconnectKept DEF Closes, Disconnects, Silently
    <2>2. QED
      BY <2>1, ClosedConfirmed
  <1>3. CASE Listens(self, rand, event, r)
    <2>1. r.sm.state = "STATE_DOWN" /\ r.sm.role = "ROLE_SERVER"
      BY <1>3 DEF Listens, Silently, SmType
    <2>2. QED
      BY <2>1 DEF Confirmed
  <1>4. CASE Calls(self, now, rand, event, r)
    <2>1. r.sm.state = "STATE_START" /\ r.sm.role # "ROLE_SERVER" /\ r.sm.cst = 0
      BY <1>4 DEF Calls, Calling, Sending, SmType
    <2>2. QED
      BY <2>1 DEF Confirmed, Supervised
  <1>5. CASE Answers(self, now, event, pdu, r)
    <2>1. r.sm = Answering(self, now, pdu) /\ self.role = "ROLE_SERVER"
      BY <1>5 DEF Answers, Sending, HandlerSet, Confirmed
    <2>2. /\ r.sm.state = "STATE_START" /\ r.sm.role = "ROLE_SERVER"
          /\ r.sm.cst = pdu.sequence_number
          /\ r.sm.snr = Inc(pdu.sequence_number)
      BY <2>1 DEF Answering, UpdateTimes, process_regular_receipt, SmType
    <2>3. Dec(Inc(pdu.sequence_number)) = pdu.sequence_number
      BY DecInc DEF PDU_S, PduOf
    <2>4. QED
      BY <2>2, <2>3 DEF Confirmed, Supervised
  <1>6. CASE Connects(self, now, event, pdu, r)
    <2> DEFINE up == Receipt(self, now, pdu, "STATE_UP")
    <2>1. up \in SmType /\ Confirmed(up)
      BY ReceiptType, ReceiptConfirmed DEF State
    <2>2. r.sm = Counted(up)
      BY <1>6 DEF Connects, SendHB, Sending
    <2>3. QED
      BY <2>1, <2>2, CountedConfirmed
  <1>7. CASE Receives(self, now, event, pdu, r)
    BY <1>7, ReceiptConfirmed DEF Receives, Silently
  <1>8. CASE Requests(self, now, pdu, r)
    <2> DEFINE asking == [self EXCEPT !.state = "STATE_RETR_REQ"]
    <2>1. asking \in SmType /\ Confirmed(asking)
      BY <1>8 DEF Requests, HandlerSet, Confirmed, Supervised, SmType, State
    <2>2. r.sm = Counted(asking)
      BY <1>8 DEF Requests, RequestRetransmission, Sending
    <2>3. QED
      BY <2>1, <2>2, CountedConfirmed
  <1>9. CASE Resumes(self, event, r)
    BY <1>9 DEF Resumes, Silently, HandlerSet, Confirmed, Supervised, SmType
  <1>10. QED
    BY <1>1, <1>2, <1>3, <1>4, <1>5, <1>6, <1>7, <1>8, <1>9 DEF Outcome

LEMMA EventConfirmed ==
    ASSUME NEW self \in SmType, NEW now \in Time, NEW rand \in SeqNo,
           NEW event, NEW pdu \in PDU_S, HandlerSet(self), Confirmed(self)
    PROVE  Confirmed(Sm_HandleEvent(self, now, rand, event, pdu).sm)
  <1> DEFINE timer == TimerHandled(self, now, event, pdu)
             handled == Handled(self, now, rand, event, pdu)
             r == IF event \in {"EVENT_TH_ELAPSED", "EVENT_TI_ELAPSED"}
                  THEN timer ELSE handled
  <1>1. Confirmed(timer.sm)
    <2>1. \/ timer.sm.state = "STATE_CLOSED"
          \/ timer.sm = self
          \/ timer.sm = Counted(self)
      BY DisconnectKept DEF TimerHandled, Silently, SendHB, Sending
    <2> HIDE DEF timer
    <2>2. QED
      BY <2>1, ClosedConfirmed, CountedConfirmed
  <1>2. Confirmed(handled.sm)
    <2>1. self.handle_event \in State
      BY DEF SmType
    <2>2. QED
      BY <2>1, HandledOutcome, OutcomeConfirmed
  <1>3. timer.sm \in SmType /\ handled.sm \in SmType
    BY HandledKept, TimerHandledKept DEF Kept
  <1>4. r.sm \in SmType /\ Confirmed(r.sm)
    BY <1>1, <1>2, <1>3
  <1> DEFINE set == [r.sm EXCEPT !.handle_event = r.sm.state]
  <1>5. Sm_HandleEvent(self, now, rand, event, pdu).sm = set
    BY DEF Sm_HandleEvent
  <1> HIDE DEF r
  <1>6. /\ set.state = r.sm.state /\ set.role = r.sm.role
        /\ set.cst = r.sm.cst /\ set.snr = r.sm.snr
    BY <1>4 DEF SmType
  <1> HIDE DEF set
  <1>7. Confirmed(set)
    BY <1>4, <1>6, SameConfirmed
  <1>8. QED
    BY <1>5, <1>7

LEMMA PassConfirmed ==
    ASSUME NEW self \in SmType, NEW now \in Time, NEW seq \in SeqNo,
           HandlerSet(self), Confirmed(self)
    PROVE  Confirmed(TimerPass(self, now, seq).sm)
  <1> DEFINE counted == [self EXCEPT !.Ti = DecInt32(self.Ti)]
             th == AfterTh(counted, now, seq)
             ti == Sm_HandleEvent(th.sm, now, NotDrawn, "EVENT_TI_ELAPSED",
                                  LocalPdu(LeftInPdu(th, seq)))
  <1>1. counted \in SmType /\ HandlerSet(counted)
    BY Int32Arithmetic DEF SmType, HandlerSet
  <1>2. Confirmed(counted)
    BY SameConfirmed DEF SmType
  <1>3. NotDrawn \in SeqNo
    BY SeqCountAssumption DEF NotDrawn, SeqNo
  <1> HIDE DEF counted
  <1>4. th.sm \in SmType /\ LeftInPdu(th, seq) \in SeqNo
    BY <1>1, AfterThKept DEF Kept
  <1>5. Confirmed(th.sm)
    BY <1>1, <1>2, <1>3, LocalPduType, EventConfirmed DEF AfterTh, Silently
  <1>6. Confirmed(ti.sm)
    BY <1>4, LocalPduType, TimerEventCloses, ClosedConfirmed
  <1>7. TimerPass(self, now, seq).sm \in {th.sm, ti.sm}
    BY DEF TimerPass, counted
  <1> HIDE DEF th, ti
  <1>8. QED
    BY <1>5, <1>6, <1>7
-----------------------------------------------------------------------------
(***************************************************************************)
(* The inductive invariant.  TiBalanced and ConfirmsLastTaken are not      *)
(* inductive alone: a handler balances the times, and confirms, for the    *)
(* state it is written for, so the installed handler has to be the one of  *)
(* the state; and a machine that listens has to be a server's.             *)
(***************************************************************************)
Inv ==
    /\ TypeOK
    /\ HandlerInstalled
    /\ TiBalanced
    /\ Confirmed(sm)

LEMMA InitInv == Init => Inv
  <1> SUFFICES ASSUME Init PROVE Inv
    OBVIOUS
  <1>1. clock \in Tlocal /\ scratch = 0 /\ wrapped = FALSE
    BY DEF Init
  <1>. PICK role \in SmRole : sm = Sm_Init(role)
    BY DEF Init
  <1>2. sm \in SmType
    BY SeqCountAssumption, TimeHalfAssumption, TmaxAssumption
       DEF Sm_Init, SmType, State, SeqNo, Time, TimeMod, Int32
  <1>3. scratch \in SeqNo
    BY <1>1, SeqCountAssumption DEF SeqNo
  <1>4. HandlerInstalled /\ TiBalanced /\ Confirmed(sm)
    BY DEF Sm_Init, HandlerInstalled, TiBalanced, Supervised, Confirmed
  <1>5. QED
    BY <1>1, <1>2, <1>3, <1>4 DEF Inv, TypeOK

(***************************************************************************)
(* Every step keeps the types, the numbers, the handler and what is        *)
(* confirmed; it also keeps Ti balanced, by the clock after the step,      *)
(* unless Tlocal() starts again.                                           *)
(***************************************************************************)
KeepsAll ==
    /\ sm' \in SmType
    /\ Balanced(sm, clock) /\ ~(clock' < clock) => Balanced(sm', clock')
    /\ Smooth(sm, sm')
    /\ HandlerSet(sm')
    /\ Confirmed(sm')
    /\ clock' \in Tlocal
    /\ scratch' \in SeqNo
    /\ wrapped' = (Supervised(sm') /\ (wrapped \/ clock' < clock))

LEMMA StepKept ==
    ASSUME Inv, Next
    PROVE  KeepsAll
  <1> USE DEF KeepsAll
  <1>1. /\ sm \in SmType
        /\ clock \in Tlocal /\ clock \in Time
        /\ scratch \in SeqNo
        /\ HandlerSet(sm) /\ Confirmed(sm)
    BY ClockArithmetic DEF Inv, TypeOK, HandlerInstalled, HandlerSet
  <1>2. NotDrawn \in SeqNo /\ 0 \in SeqNo /\ LocalPdu(0) \in PDU_S
    BY SeqCountAssumption, LocalPduType DEF NotDrawn, SeqNo
  <1>3. CASE OpenConnection
    <2>1. PICK rand \in SntValues :
            sm' = SafeCom_OpenConnection_Impl(sm, clock, rand).sm
      BY <1>3 DEF OpenConnection
    <2>2. rand \in SeqNo
      BY SntAssumption
    <2>3. Kept(sm, sm', clock) /\ HandlerSet(sm') /\ Confirmed(sm')
      BY <1>1, <1>2, <2>1, <2>2, HandleEventKept, EventConfirmed
         DEF SafeCom_OpenConnection_Impl
    <2>4. QED
      BY <1>1, <1>3, <2>3 DEF Kept, OpenConnection, Record
  <1>4. CASE CloseConnection
    <2>1. Kept(sm, sm', clock) /\ HandlerSet(sm') /\ Confirmed(sm')
      BY <1>1, <1>2, <1>4, HandleEventKept, EventConfirmed
         DEF CloseConnection, SafeCom_CloseConnection_Impl
    <2>2. QED
      BY <1>1, <1>4, <2>1 DEF Kept, CloseConnection, Record
  <1>5. CASE SendData
    <2>1. PICK msg \in AppData : sm' = SafeCom_SendData_Impl(sm, clock, msg).sm
      BY <1>5 DEF SendData
    <2> DEFINE counted == Counted(sm)
               pdu == Data(counted, clock, msg)
    <2>2. /\ Kept(sm, counted, clock) /\ counted \in SmType
          /\ HandlerSet(counted) /\ Confirmed(counted)
      BY <1>1, CountedKept, CountedType, CountedConfirmed
         DEF Kept, HandlerSet, SmType
    <2>3. pdu \in PDU_S
      BY <1>1, <2>2 DEF Data, Confirming, PDU_S, PduOf, Payload, MessageType, SmType
    <2>4. sm' = Sm_HandleEvent(counted, clock, NotDrawn, "EVENT_SEND_DATA", pdu).sm
      BY <2>1 DEF SafeCom_SendData_Impl
    <2> HIDE DEF counted, pdu
    <2>5. \/ sm' = counted
          \/ sm' \in SmType /\ sm'.role = counted.role
                            /\ sm'.state = "STATE_CLOSED"
                            /\ sm'.handle_event = "STATE_CLOSED"
      BY <2>2, <2>3, <2>4, SendDataLeaves
    <2>6. Kept(sm, sm', clock) /\ HandlerSet(sm') /\ Confirmed(sm')
      BY <1>1, <2>2, <2>5, ClosedKept, ClosedConfirmed DEF Kept, HandlerSet
    <2>7. QED
      BY <1>1, <1>5, <2>6 DEF Kept, SendData, Record
  <1>6. CASE ReceiveSpdu
    <2>1. PICK frame \in Arriving : sm' = ReceiveMsg(sm, clock, frame).sm
      BY <1>6 DEF ReceiveSpdu
    <2>2. frame \in PDU_S
      BY ArrivingAssumption DEF Frame, PDU_S, PduOf
    <2>3. Kept(sm, sm', clock) /\ HandlerSet(sm') /\ Confirmed(sm')
      BY <1>1, <1>2, <2>1, <2>2, HandleEventKept, EventConfirmed DEF ReceiveMsg
    <2>4. QED
      BY <1>1, <1>6, <2>3 DEF Kept, ReceiveSpdu, Record
  <1>7. CASE Tick
    <2>1. Confirmed(sm')
      BY <1>1, <1>7, PassConfirmed, ClockArithmetic DEF Tick
    <2>2. QED
      BY <1>1, <1>7, <2>1, TimerPassKept, ClockArithmetic DEF Tick, Record
  <1>8. CASE IdleTick
    <2>1. ~Supervised(sm)
      BY <1>8 DEF IdleTick, Supervised
    <2>2. Balanced(sm, Later(clock)) /\ Smooth(sm, sm)
      BY <2>1 DEF Balanced, Smooth
    <2>3. QED
      BY <1>1, <1>2, <1>8, <2>2, ClockArithmetic DEF IdleTick, Record
  <1>9. QED
    BY <1>3, <1>4, <1>5, <1>6, <1>7, <1>8 DEF Next

LEMMA KeptInv ==
    ASSUME Inv, KeepsAll
    PROVE  Inv'
  <1>1. TypeOK' /\ HandlerInstalled'
    BY DEF KeepsAll, TypeOK, HandlerInstalled, HandlerSet
  <1>2. ASSUME Supervised(sm'), ~wrapped' PROVE Balanced(sm', clock')
    <2>1. ~wrapped /\ ~(clock' < clock)
      BY <1>2 DEF KeepsAll
    <2>2. Balanced(sm, clock)
      BY <2>1 DEF Inv, TiBalanced, Balanced
    <2>3. QED
      BY <2>1, <2>2 DEF KeepsAll
  <1>3. TiBalanced'
    BY <1>2 DEF TiBalanced, Balanced
  <1>4. QED
    BY <1>1, <1>3 DEF Inv, KeepsAll

LEMMA StutterInv == Inv /\ UNCHANGED vars => Inv'
  BY DEF Inv, TypeOK, HandlerInstalled, TiBalanced, vars

LEMMA NextInv == Inv /\ [Next]_vars => Inv'
  BY StepKept, KeptInv, StutterInv

(***************************************************************************)
(* The invariant holds, whatever the peer and the network do.              *)
(***************************************************************************)
THEOREM Invariance == Spec => []Inv
  BY InitInv, NextInv, PTL DEF Spec

(***************************************************************************)
(* The fields of SmType keep their types: no number, timestamp or Ti       *)
(* leaves its range, whatever the sequence of calls.                       *)
(***************************************************************************)
THEOREM TypeCorrect == Spec => []TypeOK
  <1>1. Inv => TypeOK
    BY DEF Inv
  <1>2. QED
    BY <1>1, Invariance, PTL

(***************************************************************************)
(* The countdown of Ti in the timer loop and its recalculation in the      *)
(* handlers agree, in every connection during which Tlocal() does not      *)
(* start again at 0.                                                       *)
(***************************************************************************)
THEOREM MonitoringBalanced == Spec => []TiBalanced
  <1>1. Inv => TiBalanced
    BY DEF Inv
  <1>2. QED
    BY <1>1, Invariance, PTL

(***************************************************************************)
(* What a connection confirms is what it has taken in, and nothing of the  *)
(* connections before it.                                                  *)
(***************************************************************************)
THEOREM ConfirmsItsOwn == Spec => []ConfirmsLastTaken
  <1>1. Inv => ConfirmsLastTaken
    BY DEF Inv, Confirmed, ConfirmsLastTaken
  <1>2. QED
    BY <1>1, Invariance, PTL

(***************************************************************************)
(* No frame makes the numbers of a connection skip or repeat.              *)
(***************************************************************************)
THEOREM NumbersInStep == Spec => NumbersStepByOne
  <1>1. Inv /\ [Next]_vars =>
          [ Supervised(sm) /\ Supervised(sm)' =>
              /\ sm'.snr \in {sm.snr, Inc(sm.snr)}
              /\ sm'.snt \in {sm.snt, Inc(sm.snt)} ]_vars
    BY StepKept DEF KeepsAll, Smooth
  <1>2. QED
    BY <1>1, Invariance, PTL DEF Spec, NumbersStepByOne

(***************************************************************************)
(* No frame takes the confirmed timestamp of a connection back, or forward *)
(* by Tmax.                                                                *)
(***************************************************************************)
THEOREM CtsMonotonic == Spec => CtsNeverRegresses
  <1>1. Inv /\ [Next]_vars =>
          [ Supervised(sm) /\ Supervised(sm)' =>
              Elapsed(sm.ctsr, sm'.ctsr) < Tmax ]_vars
    BY StepKept DEF KeepsAll, Smooth
  <1>2. QED
    BY <1>1, Invariance, PTL DEF Spec, CtsNeverRegresses
-----------------------------------------------------------------------------
(***************************************************************************)
(* Frames that are cut short.  What is left of one is a PDU without a      *)
(* payload, and no handler reads a payload but through check_version: it   *)
(* does what the whole frame might do, or the process hangs.               *)
(***************************************************************************)
LEMMA CutKept ==
    ASSUME Inv, ReceiveCut
    PROVE  KeepsAll
  <1>1. /\ sm \in SmType /\ clock \in Tlocal /\ clock \in Time
        /\ scratch \in SeqNo /\ HandlerSet(sm) /\ Confirmed(sm)
        /\ NotDrawn \in SeqNo
    BY ClockArithmetic, SeqCountAssumption
       DEF Inv, TypeOK, HandlerInstalled, HandlerSet, NotDrawn, SeqNo
  <1>2. PICK frame \in Arriving : sm' = ReceiveMsg(sm, clock, Header(frame)).sm
    BY DEF ReceiveCut
  <1>3. Header(frame) \in PDU_S
    BY ArrivingAssumption DEF Header, Frame, PDU_S, PduOf, Payload
  <1>4. Kept(sm, sm', clock) /\ HandlerSet(sm') /\ Confirmed(sm')
    BY <1>1, <1>2, <1>3, HandleEventKept, EventConfirmed DEF ReceiveMsg
  <1>5. QED
    BY <1>1, <1>4 DEF Kept, ReceiveCut, Record, KeepsAll

LEMMA IntakeStep ==
    Inv /\ [IntakeNext]_intakeVars => Inv' /\ (KeepsAll \/ UNCHANGED vars)
  <1> SUFFICES ASSUME Inv, [IntakeNext]_intakeVars
               PROVE  Inv' /\ (KeepsAll \/ UNCHANGED vars)
    OBVIOUS
  <1>1. CASE EndpointStep
    BY <1>1, StepKept, KeptInv DEF EndpointStep
  <1>2. CASE ReceiveCut
    BY <1>2, CutKept, KeptInv
  <1>3. CASE Hang \/ UNCHANGED intakeVars
    BY <1>3, StutterInv DEF Hang, intakeVars, vars
  <1>4. QED
    BY <1>1, <1>2, <1>3 DEF IntakeNext

(***************************************************************************)
(* A frame of which only the header arrived does not prolong the           *)
(* monitoring time: with it too, the countdown and the recalculation of Ti *)
(* agree (deserialize_pdu has no result, and the event is raised).         *)
(***************************************************************************)
THEOREM CutFramesBalanced == IntakeSpec => []TiBalanced
  <1>1. IntakeInit => Inv
    BY InitInv DEF IntakeInit
  <1>2. Inv => TiBalanced
    BY DEF Inv
  <1>3. QED
    BY <1>1, <1>2, IntakeStep, PTL DEF IntakeSpec

(***************************************************************************)
(* Nor does it separate what is confirmed from what is expected next.      *)
(***************************************************************************)
THEOREM CutFramesConfirmed == IntakeSpec => []ConfirmsLastTaken
  <1>1. IntakeInit => Inv
    BY InitInv DEF IntakeInit
  <1>2. Inv => ConfirmsLastTaken
    BY DEF Inv, Confirmed, ConfirmsLastTaken
  <1>3. QED
    BY <1>1, <1>2, IntakeStep, PTL DEF IntakeSpec

(***************************************************************************)
(* Such a frame, which may be counted and confirmed without its data, does *)
(* not make the numbers of a connection skip or repeat.                    *)
(***************************************************************************)
THEOREM CutFramesInStep == IntakeSpec => NumbersStepByOne
  <1>1. IntakeInit => Inv
    BY InitInv DEF IntakeInit
  <1>2. KeepsAll \/ UNCHANGED vars =>
          [ Supervised(sm) /\ Supervised(sm)' =>
              /\ sm'.snr \in {sm.snr, Inc(sm.snr)}
              /\ sm'.snt \in {sm.snt, Inc(sm.snt)} ]_vars
    BY DEF KeepsAll, Smooth
  <1>3. QED
    BY <1>1, <1>2, IntakeStep, PTL DEF IntakeSpec, NumbersStepByOne

(***************************************************************************)
(* Nor does it take the confirmed timestamp of a connection back, or       *)
(* forward by Tmax.                                                        *)
(***************************************************************************)
THEOREM CutFramesMonotonic == IntakeSpec => CtsNeverRegresses
  <1>1. IntakeInit => Inv
    BY InitInv DEF IntakeInit
  <1>2. KeepsAll \/ UNCHANGED vars =>
          [ Supervised(sm) /\ Supervised(sm)' =>
              Elapsed(sm.ctsr, sm'.ctsr) < Tmax ]_vars
    BY DEF KeepsAll, Smooth
  <1>3. QED
    BY <1>1, <1>2, IntakeStep, PTL DEF IntakeSpec, CtsNeverRegresses
=============================================================================
