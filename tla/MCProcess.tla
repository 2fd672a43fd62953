----------------------------- MODULE MCProcess ------------------------------
(***************************************************************************)
(* Process with both instances, each with an array of its own.             *)
(***************************************************************************)
EXTENDS Process

CONSTANTS a1, a2, d1

Only(role, n, array) == {[role |-> role, max_connections |-> n, sms |-> array]}

\* Rass is a client with one connection or two, Sic a server.
MCConfigs ==
    [i \in Instance |->
       IF i = "Rass" THEN Only("ROLE_CLIENT", 1, a1) \cup Only("ROLE_CLIENT", 2, a1)
                     ELSE Only("ROLE_SERVER", 1, a2)]

MCArriving ==
    [message_type : {"CONNECTION_REQUEST", "CONNECTION_RESPONSE", "HEARTBEAT"},
     sequence_number : {0, 1},
     confirmed_sequence_number : {0},
     timestamp : {0},
     confirmed_timestamp : {0},
     payload : {PROTOCOL_VERSION}]
=============================================================================
