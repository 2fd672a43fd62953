------------------------------ MODULE MCIntake ------------------------------
(***************************************************************************)
(* Intake with a small set of arriving frames: every type, each sequence   *)
(* number, and confirmed timestamps of CtsValues, none of which is what a  *)
(* zeroed PDU has.                                                         *)
(***************************************************************************)
EXTENDS Intake

CONSTANTS CtsValues, d1

Arrivals(types, load) ==
    [message_type : types,
     sequence_number : SeqNo,
     confirmed_sequence_number : {0},
     timestamp : {0},
     confirmed_timestamp : CtsValues,
     payload : {load}]

MCArriving ==
    Arrivals({"CONNECTION_REQUEST", "CONNECTION_RESPONSE"}, PROTOCOL_VERSION)
    \cup Arrivals({"DATA"}, d1)
    \cup Arrivals({"HEARTBEAT", "RETRANSMISSION_REQUEST"}, NoPayload)
    \cup Arrivals({"DISCONNECTION_REQUEST"}, "USER_REQUEST")
=============================================================================
