------------------------------ MODULE Reentrant -----------------------------
(***************************************************************************)
(* One endpoint whose SendSpdu callback calls back into the library: it    *)
(* delivers at once, and the answer arrives, or the application reacts,    *)
(* before SendSpdu has returned.  Sm_HandleEvent is two steps here: up to  *)
(* SendSpdu, the last thing a handler does, and from its return on, where  *)
(* the handler of the new state is installed.  In between, other calls run *)
(* with the handler of the old state, except that close_connection has     *)
(* installed its own already.                                              *)
(*                                                                         *)
(* All of it happens in one second of Tlocal().  The timer loop runs only  *)
(* outside the calls; it may raise either event there at any time.         *)
(***************************************************************************)
EXTENDS SafeCom

CONSTANTS SntValues,    \* what snt_rand_value() may return
          Arriving,     \* the frames the network may present
          MaxDepth      \* how many calls may be inside one another

ASSUME ReentrantAssumption ==
    /\ SntValues \subseteq SeqNo
    /\ Arriving \subseteq Frame
    /\ MaxDepth \in Nat

VARIABLES sm,           \* the context of the state machine
          depth,        \* the calls of Sm_HandleEvent that are in SendSpdu
          closing       \* the last step was a call of SafeCom_CloseConnection

vars == <<sm, depth, closing>>

Now == 0

Init ==
    /\ \E role \in SmRole : sm = Sm_Init(role)
    /\ depth = 0
    /\ closing = FALSE

(***************************************************************************)
(* The first step of a call, r being what the handler, or the treatment of *)
(* a timer event, leads to: a call that sends nothing ends here.           *)
(***************************************************************************)
Installed(self) == [self EXCEPT !.handle_event = self.state]

Begin(r) ==
    IF r.sent = << >>
    THEN sm' = Installed(r.sm) /\ UNCHANGED depth
    ELSE depth < MaxDepth /\ sm' = r.sm /\ depth' = depth + 1

OpenConnection ==
    /\ \E rand \in SntValues :
         Begin(Handled(sm, Now, rand, "EVENT_OPEN_CONN", LocalPdu(0)))
    /\ closing' = FALSE

CloseConnection ==
    /\ Begin(Handled(sm, Now, NotDrawn, "EVENT_CLOSE_CONN", LocalPdu(0)))
    /\ closing' = TRUE

SendData ==
    /\ \E msg \in AppData :
         Begin(Handled(Counted(sm), Now, NotDrawn, "EVENT_SEND_DATA",
                       Data(Counted(sm), Now, msg)))
    /\ closing' = FALSE

ReceiveSpdu ==
    /\ \E f \in Arriving :
         Begin(Handled(sm, Now, NotDrawn, EventOf[f.message_type], f))
    /\ closing' = FALSE

TimerEvent ==
    /\ depth = 0
    /\ \E event \in {"EVENT_TH_ELAPSED", "EVENT_TI_ELAPSED"} :
         Begin(TimerHandled(sm, Now, event, LocalPdu(0)))
    /\ closing' = FALSE

\* SendSpdu returns to the innermost call, which ends.
Return ==
    /\ depth > 0
    /\ sm' = Installed(sm)
    /\ depth' = depth - 1
    /\ closing' = FALSE

Next ==
    \/ OpenConnection
    \/ CloseConnection
    \/ SendData
    \/ ReceiveSpdu
    \/ TimerEvent
    \/ Return

Spec == Init /\ [][Next]_vars
-----------------------------------------------------------------------------
(***************************************************************************)
(* However calls nest, the installed handler is the one of the state when  *)
(* no call is in progress; and a connection that is closed is handled as   *)
(* closed at once, also by calls from the callback of its disconnection    *)
(* request, because close_connection does not wait for the end of          *)
(* Sm_HandleEvent (sm.c:85).                                               *)
(***************************************************************************)
HandlerOfState ==
    depth = 0 \/ sm.state = "STATE_CLOSED" => sm.handle_event = sm.state

(***************************************************************************)
(* Closing is ignored in one place only: in the callback of the connection *)
(* request, where the handler of STATE_CLOSED is still installed, a client *)
(* cannot give up the connection it is opening.  Everywhere else, also in  *)
(* callbacks and after any nesting of them, SafeCom_CloseConnection closes *)
(* the connection.                                                         *)
(***************************************************************************)
CloseCloses ==
    closing /\ sm.state # "STATE_CLOSED" =>
        sm.role = "ROLE_CLIENT" /\ sm.state = "STATE_START" /\ depth > 0
=============================================================================
