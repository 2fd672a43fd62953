----------------------------- MODULE MCEndpoint -----------------------------
(***************************************************************************)
(* Endpoint with a small set of arriving frames.  Every type arrives; the  *)
(* types whose numbers the machine compares or keeps arrive with every     *)
(* sequence number, those whose confirmed timestamp it compares with every *)
(* confirmed timestamp of CtsValues.  The confirmed sequence number and    *)
(* the timestamp of a frame are stored and never read: one value will do.  *)
(***************************************************************************)
EXTENDS Endpoint

CONSTANT CtsValues

Arrivals(types, seqs, ctss, load) ==
    [message_type : types,
     sequence_number : seqs,
     confirmed_sequence_number : {0},
     timestamp : {0},
     confirmed_timestamp : ctss,
     payload : {load}]

MCArriving ==
    Arrivals({"CONNECTION_RESPONSE", "HEARTBEAT", "DATA", "RETRANSMITTED_DATA"},
             SeqNo, CtsValues, PROTOCOL_VERSION)
    \cup Arrivals({"CONNECTION_REQUEST"}, SeqNo, {0}, PROTOCOL_VERSION)
    \cup Arrivals({"CONNECTION_REQUEST", "CONNECTION_RESPONSE"},
                  {0}, {0}, OtherVersion)
    \cup Arrivals({"RETRANSMISSION_REQUEST", "RETRANSMISSION_RESPONSE",
                   "DISCONNECTION_REQUEST"}, {0}, {0}, NoPayload)
=============================================================================
