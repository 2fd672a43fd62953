-------------------------------- MODULE Pdu --------------------------------
(***************************************************************************)
(* The protocol data units of safecom/include/pdu.h and the functions of   *)
(* safecom/src/pdu.c that fill one from the context of a state machine.    *)
(*                                                                         *)
(* A PDU is the record PDU_S without its length, its addresses (the        *)
(* constants SENDER_ID and RECEIVER_ID, never read) and its safety code    *)
(* (written by every sender, verified by no receiver).  The 32-bit fields  *)
(* are residues modulo SeqCount and TimeMod, both 2^32 in the code.  (The  *)
(* fields of SmType are int32_t and those of PDU_S uint32_t, but they are  *)
(* only compared for equality or as unsigned numbers: the bits decide.)    *)
(***************************************************************************)
EXTENDS Integers, Sequences

CONSTANTS SeqCount,     \* number of sequence numbers
          TimeHalf,     \* half the number of timestamps: the bound of int32_t
          AppData       \* what an application may hand to SendData

ASSUME SeqCountAssumption == SeqCount \in Nat /\ SeqCount >= 2
ASSUME TimeHalfAssumption == TimeHalf \in Nat /\ TimeHalf >= 2

TimeMod == 2 * TimeHalf

SeqNo == 0 .. SeqCount - 1
Time == 0 .. TimeMod - 1

(***************************************************************************)
(* Unsigned arithmetic modulo SeqCount and TimeMod, on residues: what ++,  *)
(* + 1, - 1 and - do to a uint32_t.  ToInt32 is the conversion of a        *)
(* uint32_t to int32_t, DecInt32 the -- of an int32_t.  (The one use of    *)
(* Dec in sm.c stores snt - 1 in the int32_t csr, -1 for 0: the same bits, *)
(* and nothing reads csr.)                                                 *)
(***************************************************************************)
ToInt32_Unsigned(t) == t                    \* mutant: a Ti of type uint32_t
Elapsed_Signed(from, to) == to - from       \* mutant: times of type int32_t

Inc(n) == IF n = SeqCount - 1 THEN 0 ELSE n + 1
Dec(n) == IF n = 0 THEN SeqCount - 1 ELSE n - 1
Elapsed(from, to) == IF to >= from THEN to - from ELSE to - from + TimeMod
ToInt32(t) == IF t < TimeHalf THEN t ELSE t - TimeMod
DecInt32(i) == IF i = -TimeHalf THEN TimeHalf - 1 ELSE i - 1
-----------------------------------------------------------------------------
MessageType ==
    {"CONNECTION_REQUEST", "CONNECTION_RESPONSE", "RETRANSMISSION_REQUEST",
     "RETRANSMISSION_RESPONSE", "DISCONNECTION_REQUEST", "HEARTBEAT", "DATA",
     "RETRANSMITTED_DATA"}

DiscReasonType ==
    {"USER_REQUEST", "UNDEFINED_MSG_TYPE_RECV", "NOT_EXPECTED_RECV_MSG_TYPE",
     "SEQ_NBR_ERR_FOR_CONNECTION", "TIMEOUT_INCOMING_MSG",
     "STATE_SERVICE_NOT_ALLOWED", "PROTOCOL_VERSION_ERROR",
     "FAIL_RETRANSMISSION", "SEQ_ERR"}

(***************************************************************************)
(* The payload of a connection message is told apart only by its version;  *)
(* NoPayload is the NULL pointer of the messages that carry none.          *)
(***************************************************************************)
PROTOCOL_VERSION == "0301"
OtherVersion == "other version"
NoPayload == "no payload"

Payload ==
    {PROTOCOL_VERSION, OtherVersion, NoPayload} \cup DiscReasonType \cup AppData

PduOf(types) ==
    [message_type : types,
     sequence_number : SeqNo,
     confirmed_sequence_number : SeqNo,
     timestamp : Time,
     confirmed_timestamp : Time,
     payload : Payload]

(***************************************************************************)
(* What travels: a PDU that some builder has filled.  A connection message *)
(* has a payload (on one without, check_version never returns).            *)
(***************************************************************************)
Frame ==
    {pdu \in PduOf(MessageType) :
       pdu.message_type \in {"CONNECTION_REQUEST", "CONNECTION_RESPONSE"} =>
         pdu.payload # NoPayload}

(***************************************************************************)
(* An event that no frame caused comes with a local PDU, zero-initialised  *)
(* or left over from an earlier call; only its sequence number is read.    *)
(***************************************************************************)
NoType == "0"
PDU_S == PduOf(MessageType \cup {NoType})

LocalPdu(n) ==
    [message_type |-> NoType,
     sequence_number |-> n,
     confirmed_sequence_number |-> 0,
     timestamp |-> 0,
     confirmed_timestamp |-> 0,
     payload |-> NoPayload]
-----------------------------------------------------------------------------
(***************************************************************************)
(* ConnReq confirms nothing.  Every other builder copies cst and ctsr.     *)
(***************************************************************************)
ConnReq(self, now) ==
    [message_type |-> "CONNECTION_REQUEST",
     sequence_number |-> self.snt,
     confirmed_sequence_number |-> 0,
     timestamp |-> now,
     confirmed_timestamp |-> 0,
     payload |-> PROTOCOL_VERSION]

Confirming(self, now, type, load) ==
    [message_type |-> type,
     sequence_number |-> self.snt,
     confirmed_sequence_number |-> self.cst,
     timestamp |-> now,
     confirmed_timestamp |-> self.ctsr,
     payload |-> load]

ConnResp(self, now) ==
    Confirming(self, now, "CONNECTION_RESPONSE", PROTOCOL_VERSION)

(***************************************************************************)
(* The other builders start with self->snt++; Counted is the context after *)
(* it, from which the PDU is filled.                                       *)
(***************************************************************************)
Counted(self) == [self EXCEPT !.snt = Inc(@)]

\* Mutant: the request is built with the type of the response.
RetrReq_WrongType(self, now) ==
    Confirming(self, now, "RETRANSMISSION_RESPONSE", NoPayload)

RetrReq(self, now) ==
    Confirming(self, now, "RETRANSMISSION_REQUEST", NoPayload)

DiscReq(self, now, discReason) ==
    Confirming(self, now, "DISCONNECTION_REQUEST", discReason)

HB(self, now) == Confirming(self, now, "HEARTBEAT", NoPayload)

Data(self, now, msg) == Confirming(self, now, "DATA", msg)
=============================================================================
