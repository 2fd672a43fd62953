----------------------------- MODULE MCReentrant ----------------------------
(***************************************************************************)
(* Reentrant with every type of frame and every sequence number, all sent  *)
(* in the second in which everything happens.                              *)
(***************************************************************************)
EXTENDS Reentrant

MCArriving ==
    [message_type : MessageType,
     sequence_number : SeqNo,
     confirmed_sequence_number : {0},
     timestamp : {Now},
     confirmed_timestamp : {Now},
     payload : {PROTOCOL_VERSION}]
=============================================================================
