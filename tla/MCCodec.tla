------------------------------ MODULE MCCodec -------------------------------
(***************************************************************************)
(* Codec to the base 32, with a PDU of every length the builders produce:  *)
(* 14 bytes of payload (a connection message), 4 (a disconnection          *)
(* request), none (a heartbeat), and data messages of 22 bytes, the most   *)
(* for which calculate_MD4 has room, of one more, and of a length that     *)
(* does not fit in a byte.                                                 *)
(***************************************************************************)
EXTENDS Codec

Bytes(n) == [i \in 1 .. n |-> i % Radix]
DataOf(n) == [message_type |-> DATA, payload |-> Bytes(n)]

MCMessages ==
    {[message_type |-> 1, payload |-> Bytes(14)],
     [message_type |-> 16, payload |-> Bytes(4)],
     [message_type |-> 20, payload |-> << >>],
     DataOf(22), DataOf(23), DataOf(Radix + 1)}

MCLeftovers == {[i \in 1 .. SAFETY_CODE_LENGTH |-> 0]}
\* 34916 is the number with the digits 1, 2, 3, 4; 1048575 has all bits set.
MCNumbers == {<<34916, 1048575, 0, 440816>>}
MCLengths == {0, 8, 35, 36, 59, 255}
=============================================================================
