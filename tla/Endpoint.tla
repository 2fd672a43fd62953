------------------------------ MODULE Endpoint ------------------------------
(***************************************************************************)
(* One endpoint of a connection, alone against an arbitrary environment:   *)
(* the user calls any service in any order and the network presents any    *)
(* frame of Arriving, whatever its sequence numbers and timestamps.  What  *)
(* holds here holds whatever the peer and the network do.                  *)
(***************************************************************************)
EXTENDS SafeCom

CONSTANTS SntValues,    \* what snt_rand_value() may return
          Arriving      \* the frames the network may present

ASSUME SntAssumption == SntValues \subseteq SeqNo
ASSUME ArrivingAssumption == Arriving \subseteq Frame

VARIABLES sm,           \* the context of the state machine
          clock,        \* Tlocal()
          scratch,      \* sequence number left in the timer loop's PDU
          wrapped       \* history: Tlocal() has started again at 0 while
                        \* this connection has been supervised

vars == <<sm, clock, scratch, wrapped>>

TypeOK ==
    /\ sm \in SmType
    /\ clock \in Tlocal
    /\ scratch \in SeqNo
    /\ wrapped \in BOOLEAN

Init ==
    /\ \E role \in SmRole : sm = Sm_Init(role)
    /\ clock \in Tlocal
    /\ scratch = 0
    /\ wrapped = FALSE

Record == wrapped' = (Supervised(sm') /\ (wrapped \/ clock' < clock))

OpenConnection ==
    /\ \E rand \in SntValues :
         sm' = SafeCom_OpenConnection_Impl(sm, clock, rand).sm
    /\ UNCHANGED <<clock, scratch>>
    /\ Record

CloseConnection ==
    /\ sm' = SafeCom_CloseConnection_Impl(sm, clock).sm
    /\ UNCHANGED <<clock, scratch>>
    /\ Record

SendData ==
    /\ \E msg \in AppData : sm' = SafeCom_SendData_Impl(sm, clock, msg).sm
    /\ UNCHANGED <<clock, scratch>>
    /\ Record

ReceiveSpdu ==
    /\ \E frame \in Arriving : sm' = ReceiveMsg(sm, clock, frame).sm
    /\ UNCHANGED <<clock, scratch>>
    /\ Record

\* A second passes and the timer loop makes its pass.
Tick ==
    /\ sm.state # "STATE_CLOSED"
    /\ clock' = Later(clock)
    /\ LET r == TimerPass(sm, clock', scratch)
       IN  /\ sm' = r.sm
           /\ scratch' = AfterPass(r, scratch)
    /\ Record

\* A second passes while the connection is closed: the loop has ended.
IdleTick ==
    /\ sm.state = "STATE_CLOSED"
    /\ clock' = Later(clock)
    /\ scratch' = 0
    /\ UNCHANGED sm
    /\ Record

Next ==
    \/ OpenConnection
    \/ CloseConnection
    \/ SendData
    \/ ReceiveSpdu
    \/ Tick
    \/ IdleTick

Spec == Init /\ [][Next]_vars

\* The loop is never abandoned while the connection is open: one pass per
\* second of processor time, unconditionally (test_timeout.c).
FairSpec == Spec /\ WF_vars(Tick)
-----------------------------------------------------------------------------
(***************************************************************************)
(* Between calls the installed handler is the one of the current state.    *)
(***************************************************************************)
HandlerInstalled == sm.handle_event = sm.state

(***************************************************************************)
(* The countdown and the recalculation on receipt agree: at any moment Ti  *)
(* is what sm.c would calculate if a message with the present confirmed    *)
(* timestamp arrived now.  So a message whose confirmed timestamp is not   *)
(* newer does not prolong the monitoring time by a single second.  (It     *)
(* does once Tlocal() has started again at 0: the property says nothing of *)
(* such a connection, and MonitoringWithinTmax of Link shows what happens.) *)
(***************************************************************************)
TiBalanced ==
    Supervised(sm) /\ ~wrapped => sm.Ti = MonitoringTime(sm.ctsr, clock)

(***************************************************************************)
(* While a connection lasts, its expected sequence number never skips or   *)
(* repeats one and its send sequence number counts every frame, whatever   *)
(* arrives: duplicates, gaps and reordered frames are never taken in.      *)
(***************************************************************************)
NumbersStepByOne ==
    [][ Supervised(sm) /\ Supervised(sm)' =>
          /\ sm'.snr \in {sm.snr, Inc(sm.snr)}
          /\ sm'.snt \in {sm.snt, Inc(sm.snt)} ]_vars

(***************************************************************************)
(* While a connection lasts, its confirmed timestamp never goes back and   *)
(* never jumps by Tmax or more (CTSinSeq, on every path that stores it).   *)
(***************************************************************************)
CtsNeverRegresses ==
    [][ Supervised(sm) /\ Supervised(sm)' => Elapsed(sm.ctsr, sm'.ctsr) < Tmax ]_vars

(***************************************************************************)
(* cst is the "sequence number to be confirmed" (sm.h:59): all the builders *)
(* but ConnReq copy it into the frame.  While a connection is opened or up *)
(* it is the number taken in last on this connection, and 0 as long as the *)
(* client has taken in none: nothing of an earlier connection is left,     *)
(* although close_connection overwrites cst with the number of whatever    *)
(* PDU came with the event, and no early return moves one of snr and cst   *)
(* without the other.                                                      *)
(***************************************************************************)
ConfirmsLastTaken ==
    sm.state \notin {"STATE_CLOSED", "STATE_DOWN"} =>
      sm.cst = IF Supervised(sm) THEN Dec(sm.snr) ELSE 0

(***************************************************************************)
(* No wait is endless: a server listening for a request, an endpoint in    *)
(* the handshake and one that has asked for a retransmission all leave     *)
(* that state, because nothing they ignore restarts Ti.                    *)
(***************************************************************************)
WaitingEnds ==
    \A wait \in {"STATE_DOWN", "STATE_START", "STATE_RETR_REQ"} :
        sm.state = wait ~> sm.state # wait

(***************************************************************************)
(* A connection does not outlive its peer: once no more frames arrive, it  *)
(* is closed again and again however often it is opened, and whatever the  *)
(* application goes on sending.                                            *)
(***************************************************************************)
SilenceCloses ==
    <>[][~ReceiveSpdu]_vars => []<>(sm.state = "STATE_CLOSED")
=============================================================================
