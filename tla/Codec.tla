------------------------------- MODULE Codec --------------------------------
(***************************************************************************)
(* How a frame is made and read: the lengths the builders of               *)
(* safecom/src/pdu.c set, calculate_MD4, serialize_pdu and                 *)
(* deserialize_pdu, around the one buffer buff_to_send that every frame of *)
(* a process is built in.                                                  *)
(*                                                                         *)
(* A byte is a digit to the base Radix (256 in the code; a smaller base    *)
(* keeps the numbers within TLC's integers).  In a PDU that is sent,       *)
(* payload and safety_code are the bytes pointed to; in one that has been  *)
(* received they are offsets into the buffer it came in.                   *)
(***************************************************************************)
EXTENDS Integers, Sequences

CONSTANTS Radix,            \* number of byte values
          NULL,             \* the null pointer
          Numbers,          \* the four numbers of the PDUs sent: a set of 4-tuples
          Messages,         \* [message_type, payload] of the PDUs sent
          Leftovers,        \* what else may be where a local array was when the
                            \* function it belonged to has returned
          Lengths           \* values a damaged length field may have

SAFETY_CODE_LENGTH == 8
HeaderLength == 28          \* where the payload starts
PDU_FIXED_FIELDS_LENGTH == HeaderLength + SAFETY_CODE_LENGTH
CONN_RESP_PAYLOAD_LENGTH == 14
MAX_PDU_LENGTH == 50        \* size of the scratch buffer of calculate_MD4
MAX_BUFF_SIZE == 100

\* The last two digits of the message types: 6200 to 6241.
DATA == 40
RETRANSMITTED_DATA == 41
MessageType == {0, 1, 12, 13, 16, 20, DATA, RETRANSMITTED_DATA}

Byte == 0 .. Radix - 1
Word == Radix * Radix       \* number of values of a uint16_t

\* Only the payload of a data message is chosen by the application; the
\* longest of the others is that of a connection message.
ASSUME CodecAssumption ==
    /\ Radix \in Nat /\ Word > MAX_BUFF_SIZE
    /\ \A n \in Numbers, i \in 1 .. 4 : n[i] \in 0 .. Word * Word - 1
    /\ Lengths \subseteq 0 .. Word - 1
    /\ \A code \in Leftovers :
         code \in Seq(Byte) /\ Len(code) = SAFETY_CODE_LENGTH
    /\ \A m \in Messages :
         /\ m.message_type \in MessageType
         /\ m.payload \in Seq(Byte)
         /\ m.message_type # DATA => Len(m.payload) <= CONN_RESP_PAYLOAD_LENGTH
    /\ NULL \notin Seq(Int)

VARIABLES buff,             \* buff_to_send, which the network copies from
          overrun,          \* something was written beyond the end of a buffer
          sent,             \* the PDU last serialised into it
          intact,           \* the network has not damaged the frame
          size,             \* how many bytes of the frame have arrived
          got               \* the PDU deserialised from them

vars == <<buff, overrun, sent, intact, size, got>>
-----------------------------------------------------------------------------
\* Most significant byte first.
write_uint16(value) == <<(value \div Radix) % Radix, value % Radix>>
write_uint32(value) ==
    write_uint16(value \div Word) \o write_uint16(value)

read_uint16(buffer, offset) == buffer[offset + 1] * Radix + buffer[offset + 2]

\* Mutant: the two halves are put together in the wrong order.
read_uint32_Swapped(buffer, offset) ==
    read_uint16(buffer, offset + 2) * Word + read_uint16(buffer, offset)

read_uint32(buffer, offset) ==
    read_uint16(buffer, offset) * Word + read_uint16(buffer, offset + 2)

(***************************************************************************)
(* The header, the payload and the safety code, in the order in which they *)
(* are written; a NULL payload is skipped.                                 *)
(***************************************************************************)
Header(pdu) ==
    write_uint16(pdu.message_length)
    \o write_uint16(pdu.message_type)
    \o write_uint32(pdu.receiver_id)
    \o write_uint32(pdu.sender_id)
    \o write_uint32(pdu.sequence_number)
    \o write_uint32(pdu.confirmed_sequence_number)
    \o write_uint32(pdu.timestamp)
    \o write_uint32(pdu.confirmed_timestamp)

Written(pdu) ==
    Header(pdu)
    \o (IF pdu.payload = NULL THEN << >>
        ELSE SubSeq(pdu.payload, 1, pdu.message_length - PDU_FIXED_FIELDS_LENGTH))
    \o (IF pdu.safety_code = NULL THEN << >> ELSE pdu.safety_code)

serialize_pdu(pdu, buffer, buffer_size) ==
    IF buffer_size < pdu.message_length THEN buffer
    ELSE Written(pdu) \o SubSeq(buffer, Len(Written(pdu)) + 1, Len(buffer))

ZeroPdu ==
    [message_length |-> 0, message_type |-> 0, receiver_id |-> 0, sender_id |-> 0,
     sequence_number |-> 0, confirmed_sequence_number |-> 0,
     timestamp |-> 0, confirmed_timestamp |-> 0,
     payload |-> NULL, safety_code |-> NULL]

ReadHeader(buffer) ==
    [ZeroPdu EXCEPT !.message_length = read_uint16(buffer, 0),
                    !.message_type = read_uint16(buffer, 2),
                    !.receiver_id = read_uint32(buffer, 4),
                    !.sender_id = read_uint32(buffer, 8),
                    !.sequence_number = read_uint32(buffer, 12),
                    !.confirmed_sequence_number = read_uint32(buffer, 16),
                    !.timestamp = read_uint32(buffer, 20),
                    !.confirmed_timestamp = read_uint32(buffer, 24)]

\* message_length - PDU_FIXED_FIELDS_LENGTH, which is 36U: an unsigned int,
\* modulo 2^32.  (The assertion that it is >= 0 always holds.)
PayloadSize(message_length) ==
    message_length - PDU_FIXED_FIELDS_LENGTH
    + (IF message_length < PDU_FIXED_FIELDS_LENGTH THEN Word * Word ELSE 0)

\* Mutant: the length of the frame is not compared with its length field.
deserialize_pdu_Unchecked(buffer, buffer_size) ==
    LET header == ReadHeader(buffer)
    IN  IF buffer_size < PDU_FIXED_FIELDS_LENGTH THEN ZeroPdu
        ELSE [header EXCEPT
                !.payload = HeaderLength,
                !.safety_code = HeaderLength + PayloadSize(header.message_length)]

(***************************************************************************)
(* Into a PDU that is zero.  The offset of the safety code is a size_t, of *)
(* 64 bits: with a payload size that has wrapped it does not wrap back.    *)
(***************************************************************************)
deserialize_pdu(buffer, buffer_size) ==
    LET header == ReadHeader(buffer)
    IN  IF buffer_size < PDU_FIXED_FIELDS_LENGTH THEN ZeroPdu
        ELSE IF buffer_size < header.message_length THEN header
        ELSE [header EXCEPT
                !.payload = HeaderLength,
                !.safety_code = HeaderLength + PayloadSize(header.message_length)]
-----------------------------------------------------------------------------
Init ==
    /\ buff = [i \in 1 .. MAX_BUFF_SIZE |-> 0]
    /\ overrun = FALSE
    /\ sent = NULL
    /\ intact = TRUE
    /\ size = 0
    /\ got = NULL

\* The length of a message is passed to Data as a uint8_t.
PayloadLength(m) == Len(m.payload) % Radix

\* Mutant: the PDU that SendData fills is not set to zero first.
SafetyCodeBefore_Any(m, reused) == 0

\* A PDU that came in, or that the timer loop has used before, has a safety
\* code when its next builder runs; SendData fills one that is zero.
SafetyCodeBefore(m, reused) ==
    IF reused /\ m.message_type # DATA THEN 0 ELSE NULL

\* How many bytes calculate_MD4 serialises into its scratch buffer.
ScratchLength(m, before) ==
    HeaderLength + PayloadLength(m)
    + (IF before = NULL THEN 0 ELSE SAFETY_CODE_LENGTH)

(***************************************************************************)
(* A stand-in for the first bytes of the MD4 digest of a frame without its *)
(* safety code: it depends on the frame (on its length and on the last     *)
(* byte of its sequence number), and that is all the properties need.      *)
(***************************************************************************)
Digest(bytes) ==
    [i \in 1 .. SAFETY_CODE_LENGTH |-> ((bytes[16] + Len(bytes)) % 2) + i]

(***************************************************************************)
(* A builder fills a PDU, whose safety_code is a local array of            *)
(* calculate_MD4; the handler serialises it and calls SendSpdu.            *)
(***************************************************************************)
Send ==
    /\ ~overrun
    /\ \E m \in Messages, n \in Numbers, reused \in BOOLEAN :
         LET pdu == [message_length |-> PDU_FIXED_FIELDS_LENGTH + PayloadLength(m),
                     message_type |-> m.message_type,
                     receiver_id |-> 0,
                     sender_id |-> 0,
                     sequence_number |-> n[1],
                     confirmed_sequence_number |-> n[2],
                     timestamp |-> n[3],
                     confirmed_timestamp |-> n[4],
                     payload |-> IF m.payload = << >> THEN NULL ELSE m.payload,
                     safety_code |-> NULL]
         IN  \E code \in {Digest(Written(pdu))} \cup Leftovers :
               /\ sent' = [pdu EXCEPT !.safety_code = code]
               /\ overrun' = \/ ScratchLength(m, SafetyCodeBefore(m, reused))
                                  > MAX_PDU_LENGTH
                             \/ pdu.message_length > MAX_BUFF_SIZE
               /\ buff' = IF overrun' THEN buff
                          ELSE serialize_pdu(sent', buff, pdu.message_length)
    /\ intact' = TRUE
    /\ size' = 0
    /\ got' = NULL

\* The network damages the length field.
Damage ==
    /\ sent # NULL /\ ~overrun /\ got = NULL /\ intact
    /\ \E n \in Lengths : buff' = write_uint16(n) \o SubSeq(buff, 3, Len(buff))
    /\ intact' = FALSE
    /\ UNCHANGED <<overrun, sent, size, got>>

\* The frame arrives, or the first bytes of it.
Receive ==
    /\ sent # NULL /\ ~overrun /\ got = NULL
    /\ \E n \in 0 .. sent.message_length :
         /\ size' = n
         /\ got' = deserialize_pdu(buff, n)
    /\ UNCHANGED <<buff, overrun, sent, intact>>

Next == Send \/ Damage \/ Receive

Spec == Init /\ [][Next]_vars
-----------------------------------------------------------------------------
Arrived == got # NULL

Pointed(from, n) == SubSeq(buff, from + 1, from + n)

Carried(pdu) == pdu.message_length - PDU_FIXED_FIELDS_LENGTH

(***************************************************************************)
(* A frame that arrives whole is read as it was written, however long the  *)
(* frames built in the same buffer before it: every field, the payload and *)
(* the safety code.  The payload is all of the message, "the data that     *)
(* will be transmitted" (pdu.h:146), if its length fits in a byte; of a    *)
(* longer message only as much is sent as the last byte of its length      *)
(* says.                                                                   *)
(***************************************************************************)
RoundTrip ==
    Arrived /\ intact /\ size = sent.message_length =>
        /\ \A field \in DOMAIN sent \ {"payload", "safety_code"} :
             got[field] = sent[field]
        /\ sent.payload # NULL =>
             /\ Pointed(got.payload, Carried(sent)) = SubSeq(sent.payload, 1, Carried(sent))
             /\ Len(sent.payload) < Radix => Carried(sent) = Len(sent.payload)
        /\ Pointed(got.safety_code, SAFETY_CODE_LENGTH) = sent.safety_code

(***************************************************************************)
(* Nothing is read beyond what has arrived, however little that is and     *)
(* however much the length field promises: payload and safety code are set *)
(* only when both have arrived, one after the other, and the payload of a  *)
(* truncated frame is NULL.  (For a field that promises too little see     *)
(* SafetyCodeArrived.)                                                     *)
(***************************************************************************)
ReadsArrived ==
    Arrived /\ got.payload # NULL =>
        /\ size >= PDU_FIXED_FIELDS_LENGTH
        /\ got.message_length >= PDU_FIXED_FIELDS_LENGTH =>
             /\ got.payload <= got.safety_code
             /\ got.safety_code + SAFETY_CODE_LENGTH <= size

(***************************************************************************)
(* The payload length of every frame that is read is valid, so that the    *)
(* safety code behind the payload has arrived: "Ensure payload length is   *)
(* valid" (pdu.c:212), of an assertion about an unsigned number.           *)
(***************************************************************************)
SafetyCodeArrived ==
    Arrived /\ got.payload # NULL =>
        got.safety_code + SAFETY_CODE_LENGTH <= size

(***************************************************************************)
(* No builder writes beyond the scratch buffer of calculate_MD4 or beyond  *)
(* buff_to_send, except that of a data message with more than 22 bytes:    *)
(* every caller of serialize_pdu passes the length of the PDU for "the     *)
(* size of the buffer" (pdu.h:78), so its test of buffer_size never fails. *)
(* A connection response, built in the PDU of the request, fills the       *)
(* scratch buffer to the last byte.                                        *)
(***************************************************************************)
FitsBuffers ==
    overrun => /\ sent.message_type = DATA
               /\ Carried(sent) > MAX_PDU_LENGTH - HeaderLength

(***************************************************************************)
(* The safety code of a frame is the digest of the rest of it: "Calculate  *)
(* the safety code with MD4 protocol" (pdu.c:235).                         *)
(***************************************************************************)
SafetyCodeIsDigest ==
    sent # NULL =>
        sent.safety_code = Digest(Written([sent EXCEPT !.safety_code = NULL]))
=============================================================================
