-------------------------------- MODULE Link --------------------------------
(***************************************************************************)
(* A client and a server, each one connection of one process, and the      *)
(* network that SendSpdu hands their frames to.  The processes share       *)
(* nothing: Tlocal() is the processor time of each, so their clocks drift. *)
(* Every call runs to completion, and any two calls of the two processes   *)
(* interleave.                                                             *)
(*                                                                         *)
(* The network is external.  Depending on the constants it loses frames    *)
(* (which is also what a SendSpdu that fails amounts to: its result is     *)
(* ignored), delivers them more than once and in any order.                *)
(***************************************************************************)
EXTENDS SafeCom, SequencesExt

CONSTANTS SntValues,    \* SntValues[r]: what snt_rand_value() may return
          Script,       \* Script[r]: the messages its application sends, in order
          Lossy, Duplicating, Reordering,   \* what the network may do
          Boot,         \* Tlocal() of both processes when they start
          Lead,         \* how far one clock may run ahead of the other
          MaxClock,     \* bound on the seconds that pass
          MaxOpens,     \* bound on each application's calls of OpenConnection
          MaxSends,     \* bound on the calls of SendData, of both together
          Cap           \* bound on the frames in transit

ASSUME LinkAssumption ==
    /\ SntValues \in [SmRole -> SUBSET SeqNo]
    /\ Script \in [SmRole -> Seq(AppData)]
    /\ {Lossy, Duplicating, Reordering} \subseteq BOOLEAN
    /\ {MaxOpens, MaxSends, Cap} \subseteq Nat
    /\ Lead \in Nat \ {0}
    /\ MaxClock \in Nat
    /\ Boot \in Tlocal
    /\ LastSecond + Tmax < TimeHalf     \* 4294 + Tmax < 2^31

VARIABLES sm,           \* sm[r]: the context of the endpoint with role r
          clock,        \* clock[r]: the seconds of processor time it has used
          scratch,      \* scratch[r]: left in the PDU of its timer loop
          net,          \* net[r]: the frames in transit to it
          opens,        \* opens[r]: how often it called OpenConnection
          asked,        \* asked[r]: how often it called SendData
          sub,          \* sub[r]: the messages it passed to SendSpdu
          del           \* del[r]: the messages it took in

vars == <<sm, clock, scratch, net, opens, asked, sub, del>>

Peer(r) == CHOOSE p \in SmRole : p # r

Now(r) == (Boot + clock[r]) % (LastSecond + 1)      \* its Tlocal()

TypeOK ==
    /\ sm \in [SmRole -> SmType]
    /\ clock \in [SmRole -> 0 .. MaxClock]
    /\ scratch \in [SmRole -> SeqNo]
    /\ net \in [SmRole -> Seq(Frame)]
    /\ opens \in [SmRole -> 0 .. MaxOpens]
    /\ asked \in [SmRole -> 0 .. MaxSends]
    /\ sub \in [SmRole -> Seq(AppData)]
    /\ del \in [SmRole -> Seq(AppData)]

Init ==
    /\ sm = [r \in SmRole |-> Sm_Init(r)]
    /\ clock = [r \in SmRole |-> 0]
    /\ scratch = [r \in SmRole |-> 0]
    /\ net = [r \in SmRole |-> << >>]
    /\ opens = [r \in SmRole |-> 0]
    /\ asked = [r \in SmRole |-> 0]
    /\ sub = [r \in SmRole |-> << >>]
    /\ del = [r \in SmRole |-> << >>]
-----------------------------------------------------------------------------
(***************************************************************************)
(* A call by r with result res, when r's own queue has become inbox.       *)
(***************************************************************************)
Call(r, res, inbox) ==
    /\ Len(inbox) + Len(net[Peer(r)]) + Len(res.sent) <= Cap
    /\ sm' = [sm EXCEPT ![r] = res.sm]
    /\ net' = [net EXCEPT ![r] = inbox, ![Peer(r)] = @ \o res.sent]

OpenConnection(r) ==
    /\ opens[r] < MaxOpens
    /\ opens' = [opens EXCEPT ![r] = @ + 1]
    /\ \E rand \in SntValues[r] :
         Call(r, SafeCom_OpenConnection_Impl(sm[r], Now(r), rand), net[r])
    /\ UNCHANGED <<clock, scratch, asked, sub, del>>

CloseConnection(r) ==
    /\ Call(r, SafeCom_CloseConnection_Impl(sm[r], Now(r)), net[r])
    /\ UNCHANGED <<clock, scratch, opens, asked, sub, del>>

SendData(r) ==
    /\ asked[r] < Len(Script[r])
    /\ asked[r] + asked[Peer(r)] < MaxSends
    /\ asked' = [asked EXCEPT ![r] = @ + 1]
    /\ LET msg == Script[r][asked'[r]]
           res == SafeCom_SendData_Impl(sm[r], Now(r), msg)
           sent == \E i \in DOMAIN res.sent : res.sent[i].message_type = "DATA"
       IN  /\ Call(r, res, net[r])
           /\ sub' = [sub EXCEPT ![r] = IF sent THEN Append(@, msg) ELSE @]
    /\ UNCHANGED <<clock, scratch, opens, del>>

(***************************************************************************)
(* A message is taken in when its frame is a regular receipt: snr moves.   *)
(***************************************************************************)
Receive(r) ==
    /\ \E i \in DOMAIN net[r], kept \in BOOLEAN :
         LET frame == net[r][i]
             res == ReceiveMsg(sm[r], Now(r), frame)
             taken == frame.message_type = "DATA" /\ res.sm.snr # sm[r].snr
         IN  /\ Reordering \/ i = 1
             /\ Duplicating \/ ~kept
             /\ Call(r, res, IF kept THEN net[r] ELSE RemoveAt(net[r], i))
             /\ del' = [del EXCEPT ![r] =
                          IF taken THEN Append(@, frame.payload) ELSE @]
    /\ UNCHANGED <<clock, scratch, opens, asked, sub>>

Lose(r) ==
    /\ Lossy
    /\ \E i \in DOMAIN net[r] : net' = [net EXCEPT ![r] = RemoveAt(@, i)]
    /\ UNCHANGED <<sm, clock, scratch, opens, asked, sub, del>>

SecondPasses(r) ==
    /\ clock[r] < MaxClock
    /\ clock[r] < clock[Peer(r)] + Lead
    /\ clock' = [clock EXCEPT ![r] = @ + 1]

Tick(r) ==
    /\ sm[r].state # "STATE_CLOSED"
    /\ SecondPasses(r)
    /\ LET res == TimerPass(sm[r], Later(Now(r)), scratch[r])
       IN  /\ Call(r, res, net[r])
           /\ scratch' = [scratch EXCEPT ![r] = AfterPass(res, @)]
    /\ UNCHANGED <<opens, asked, sub, del>>

IdleTick(r) ==
    /\ sm[r].state = "STATE_CLOSED"
    /\ SecondPasses(r)
    /\ scratch' = [scratch EXCEPT ![r] = 0]
    /\ UNCHANGED <<sm, net, opens, asked, sub, del>>

Next ==
    \E r \in SmRole :
        \/ OpenConnection(r)
        \/ CloseConnection(r)
        \/ SendData(r)
        \/ Receive(r)
        \/ Lose(r)
        \/ Tick(r)
        \/ IdleTick(r)

Spec == Init /\ [][Next]_vars

\* A network that delivers: a frame that stays in transit arrives some day.
DeliveringSpec == Spec /\ \A r \in SmRole : WF_vars(Receive(r))
-----------------------------------------------------------------------------
(***************************************************************************)
(* Whatever the network does, each application takes in a prefix of what   *)
(* the other sent (the receipt paths of sm.c).                             *)
(***************************************************************************)
Connection == INSTANCE Pipe WITH Ends <- SmRole, Message <- AppData

InOrderDelivery == Connection!Spec

(***************************************************************************)
(* An endpoint that has asked for a retransmission never gets one: between *)
(* two endpoints of this code it stays in STATE_RETR_REQ until it closes.  *)
(***************************************************************************)
GapIsFatal ==
    [][ \A r \in SmRole :
          sm[r].state = "STATE_RETR_REQ" =>
            sm'[r].state \in {"STATE_RETR_REQ", "STATE_CLOSED"} ]_vars

(***************************************************************************)
(* On a network that keeps every frame in order nobody asks for a          *)
(* retransmission, not even when a connection is closed and opened again   *)
(* while frames of the old one are in transit.                             *)
(***************************************************************************)
NoNeedlessRequest == \A r \in SmRole : sm[r].state # "STATE_RETR_REQ"

(***************************************************************************)
(* On such a network, when nothing is in transit and both endpoints are    *)
(* connected, each expects the number that the other sends next.           *)
(***************************************************************************)
NumbersAgree ==
    (\A r \in SmRole : net[r] = << >> /\ Supervised(sm[r])) =>
        \A r \in SmRole : sm[r].snr = Inc(sm[Peer(r)].snt)

(***************************************************************************)
(* On such a network a handshake that has begun is completed: a request on *)
(* its way to a listening server brings up both endpoints, unless one of   *)
(* them is closed, by its application or by its timer.  Nothing that is    *)
(* sent meanwhile (data, heartbeats of either timer, frames of an earlier  *)
(* connection) leaves one of them waiting for ever.                        *)
(***************************************************************************)
HandshakeCompletes ==
    /\ sm["ROLE_CLIENT"].state = "STATE_START"
    /\ sm["ROLE_SERVER"].state = "STATE_DOWN"
    /\ \E f \in Range(net["ROLE_SERVER"]) : f.message_type = "CONNECTION_REQUEST"
    ~> \/ \A r \in SmRole : sm[r].state = "STATE_UP"
       \/ \E r \in SmRole : sm[r].state = "STATE_CLOSED"

\* r is connected and takes in a frame: process_regular_receipt stores its
\* timestamp in tsr.
TakesIn(r) ==
    Supervised(sm[r]) /\ Supervised(sm'[r]) /\ sm'[r].snr # sm[r].snr

\* Tlocal() of one of the processes has started again at 0.
Restarted == \E r \in SmRole : Boot + clock[r] > LastSecond

(***************************************************************************)
(* A message that is Tmax old or older, by the receiver's clock (the       *)
(* clocks agree up to Lead), is never taken in by a server: its Ti runs    *)
(* from the time of the request.  A client may take one in, when the       *)
(* response to an earlier request reaches it, but then Ti has run out: the *)
(* next pass of the timer loop closes the connection.  ("Maximum accepted  *)
(* age of a message", time_mon.h:9.)  While Tlocal() does not start again. *)
(***************************************************************************)
LateIsNoticed ==
    [][ \A r \in SmRole :
          TakesIn(r) /\ ~Restarted /\ Now(r) - sm'[r].tsr >= Tmax + Lead =>
            r = "ROLE_CLIENT" /\ sm'[r].Ti <= 0 ]_vars

(***************************************************************************)
(* No endpoint ever monitors the other for longer than Tmax, up to the     *)
(* drift of their clocks: on both sides Ti is reckoned from a timestamp of *)
(* the server.  It is the "maximum accepted age of a message"              *)
(* (time_mon.h:9).  Once Tlocal() has started again at 0 that is lost:     *)
(* Tlocal() - ctsr is then negative and the next message prolongs Ti by    *)
(* all the seconds the clock has skipped back, but by no more.             *)
(***************************************************************************)
MonitoringWithinTmax ==
    \A r \in SmRole :
        Supervised(sm[r]) =>
          sm[r].Ti <= Tmax + Lead + (IF Restarted THEN LastSecond + 1 ELSE 0)

(***************************************************************************)
(* No endpoint times out while both are in STATE_UP and each has taken in  *)
(* a message sent within the last heartbeat period: Ti is the "Monitoring  *)
(* time for incoming messages" and Trtd, which shortens it, the "Round     *)
(* trip delay of a message" (time_mon.h:22-23).                            *)
(***************************************************************************)
TimesOut(r) == clock'[r] # clock[r] /\ sm'[r].state = "STATE_CLOSED"

HeardIsAlive ==
    [][ (\A r \in SmRole :
           sm[r].state = "STATE_UP" /\ Now(r)' - sm[r].tsr <= Th)
        => \A r \in SmRole : ~TimesOut(r) ]_vars
=============================================================================
