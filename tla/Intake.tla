------------------------------- MODULE Intake -------------------------------
(***************************************************************************)
(* An endpoint to which frames may arrive cut short.  deserialize_pdu      *)
(* returns nothing: of less than PDU_FIXED_FIELDS_LENGTH bytes it reads    *)
(* nothing, the PDU stays zero and the ReceiveMsg callback raises no       *)
(* event; of more than that but less than the whole frame it reads the     *)
(* header, the payload stays NULL and the event is raised all the same.    *)
(*                                                                         *)
(* A failed assert prints a line and loops for ever (common assert.h): the *)
(* process is hung.                                                        *)
(***************************************************************************)
EXTENDS Endpoint

VARIABLE hung           \* the process is in the loop of a failed assert

intakeVars == <<sm, clock, scratch, wrapped, hung>>

\* The messages that are longer than PDU_FIXED_FIELDS_LENGTH.
Laden == {"CONNECTION_REQUEST", "CONNECTION_RESPONSE", "DISCONNECTION_REQUEST",
          "DATA", "RETRANSMITTED_DATA"}

Header(frame) == [frame EXCEPT !.payload = NoPayload]

(***************************************************************************)
(* check_version asserts that there is a payload.  It is called for a      *)
(* connection request in STATE_DOWN and for a response to a client in      *)
(* STATE_START; no other path looks at a payload.                          *)
(***************************************************************************)
Asserts(self, pdu) ==
    /\ pdu.payload = NoPayload
    /\ \/ /\ self.handle_event = "STATE_DOWN"
          /\ pdu.message_type = "CONNECTION_REQUEST"
       \/ /\ self.handle_event = "STATE_START" /\ self.role = "ROLE_CLIENT"
          /\ pdu.message_type = "CONNECTION_RESPONSE"

IntakeInit == Init /\ hung = FALSE

EndpointStep == ~hung /\ Next /\ UNCHANGED hung

ReceiveCut ==
    /\ ~hung
    /\ \E frame \in Arriving :
         /\ frame.message_type \in Laden
         /\ ~Asserts(sm, Header(frame))
         /\ sm' = ReceiveMsg(sm, clock, Header(frame)).sm
    /\ UNCHANGED <<clock, scratch, hung>>
    /\ Record

Hang ==
    /\ ~hung
    /\ \E frame \in Arriving :
         frame.message_type \in Laden /\ Asserts(sm, Header(frame))
    /\ hung' = TRUE
    /\ UNCHANGED vars

IntakeNext == EndpointStep \/ ReceiveCut \/ Hang

IntakeSpec == IntakeInit /\ [][IntakeNext]_intakeVars
-----------------------------------------------------------------------------
(***************************************************************************)
(* check_version is never called without a payload: its assertion          *)
(* "pdu->payload != NULL" (sm.c:42).                                       *)
(***************************************************************************)
VersionPresent == ~hung
=============================================================================
