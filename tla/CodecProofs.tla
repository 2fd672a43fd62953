---------------------------- MODULE CodecProofs -----------------------------
(***************************************************************************)
(* Proofs about Codec, for every base, message, number and truncation:     *)
(* FitsBuffers, ReadsArrived and RoundTrip.                                *)
(***************************************************************************)
EXTENDS Codec, SequenceTheorems, TLAPS

(***************************************************************************)
(* Where a number is in a sequence of bytes: most significant byte first,  *)
(* behind the first at bytes.                                              *)
(***************************************************************************)
Holds16(s, at, v) ==
    /\ s[at + 1] = (v \div Radix) % Radix
    /\ s[at + 2] = v % Radix

Holds32(s, at, v) ==
    /\ Holds16(s, at, v \div Word)
    /\ Holds16(s, at + 2, v)

\* The first n bytes of s are those of t.
Same(s, t, n) == \A i \in 1 .. n : s[i] = t[i]

\* The first 28 bytes of s are the header of pdu.
HeaderIn(s, pdu) ==
    /\ Holds16(s, 0, pdu.message_length)
    /\ Holds16(s, 2, pdu.message_type)
    /\ Holds32(s, 4, pdu.receiver_id)
    /\ Holds32(s, 8, pdu.sender_id)
    /\ Holds32(s, 12, pdu.sequence_number)
    /\ Holds32(s, 16, pdu.confirmed_sequence_number)
    /\ Holds32(s, 20, pdu.timestamp)
    /\ Holds32(s, 24, pdu.confirmed_timestamp)

\* s begins with the frame of pdu.
FrameIn(s, pdu) ==
    /\ HeaderIn(s, pdu)
    /\ pdu.payload # NULL =>
         \A i \in 1 .. Carried(pdu) : s[HeaderLength + i] = pdu.payload[i]
    /\ \A i \in 1 .. SAFETY_CODE_LENGTH :
         s[pdu.message_length - SAFETY_CODE_LENGTH + i] = pdu.safety_code[i]

Uint16 == 0 .. Word - 1
Uint32 == 0 .. Word * Word - 1

(***************************************************************************)
(* A PDU that has been built.  Its message_length counts the payload,      *)
(* which may be longer, and which is NULL if it is empty.                  *)
(***************************************************************************)
Built(pdu) ==
    /\ pdu \in [message_length : Uint16, message_type : Uint16,
                receiver_id : Uint32, sender_id : Uint32,
                sequence_number : Uint32, confirmed_sequence_number : Uint32,
                timestamp : Uint32, confirmed_timestamp : Uint32,
                payload : Seq(Int) \cup {NULL},
                safety_code : Seq(Int) \cup {NULL}]
    /\ pdu.message_length >= PDU_FIXED_FIELDS_LENGTH
    /\ IF pdu.payload = NULL THEN Carried(pdu) = 0
       ELSE /\ Carried(pdu) <= Len(pdu.payload)
            /\ Len(pdu.payload) < Radix => Carried(pdu) = Len(pdu.payload)

Coded(pdu) ==
    /\ Built(pdu)
    /\ pdu.safety_code \in Seq(Int) /\ Len(pdu.safety_code) = SAFETY_CODE_LENGTH

(***************************************************************************)
(* The inductive invariant.  The three properties speak of got and sent;   *)
(* what connects them is the buffer, which holds the frame of sent until   *)
(* the network damages it, and from which got was read.                    *)
(***************************************************************************)
Inv ==
    /\ buff \in Seq(Int) /\ Len(buff) = MAX_BUFF_SIZE
    /\ size \in Nat
    /\ sent # NULL => Coded(sent)
    /\ FitsBuffers
    /\ sent # NULL /\ ~overrun =>
         /\ sent.message_length <= MAX_BUFF_SIZE
         /\ intact => FrameIn(buff, sent)
    /\ got # NULL => got = deserialize_pdu(buff, size) /\ sent # NULL /\ ~overrun
-----------------------------------------------------------------------------
LEMMA RadixFacts ==
    /\ Radix \in Nat /\ Radix > 10
    /\ Word \in Nat /\ Word > 100
    /\ Word * Word \in Nat /\ Word * Word >= Word
    /\ PDU_FIXED_FIELDS_LENGTH + Radix - 1 < Word
  <1>1. Radix \in Nat /\ Radix > 10
    <2>1. Radix \in Nat /\ Radix * Radix > 100
      BY CodecAssumption DEF Word, MAX_BUFF_SIZE
    <2>2. ASSUME Radix <= 10 PROVE FALSE
      <3>1. Radix * Radix <= 10 * Radix
        BY <2>1, <2>2
      <3>2. QED
        BY <2>1, <2>2, <3>1
    <2>3. QED
      BY <2>1, <2>2
  <1>2. Word \in Nat /\ Word > 100
    BY <1>1, CodecAssumption DEF Word, MAX_BUFF_SIZE
  <1>3. Word * Word \in Nat /\ Word * Word >= Word
    <2>1. ASSUME NEW w \in Nat, w > 100 PROVE w * w \in Nat /\ w * w >= w
      BY <2>1
    <2>2. QED
      BY <1>2, <2>1
  <1>4. PDU_FIXED_FIELDS_LENGTH + Radix - 1 < Word
    <2>1. Radix * Radix >= 11 * Radix
      BY <1>1
    <2>2. QED
      BY <1>1, <2>1 DEF PDU_FIXED_FIELDS_LENGTH, HeaderLength, SAFETY_CODE_LENGTH, Word
  <1>5. QED
    BY <1>1, <1>2, <1>3, <1>4

\* Reading undoes writing.
LEMMA Halves ==
    ASSUME NEW b \in Nat, b > 0, NEW v \in 0 .. b * b - 1
    PROVE  /\ v \div b \in 0 .. b - 1
           /\ (v \div b) % b = v \div b
           /\ v = (v \div b) * b + (v % b)
           /\ v % b \in 0 .. b - 1
  <1>1. v \in Nat /\ v % b \in 0 .. b - 1 /\ v \div b \in Nat /\ v = (v \div b) * b + (v % b)
    OBVIOUS
  <1> DEFINE q == v \div b
  <1>2. q * b < b * b
    BY <1>1
  <1> HIDE DEF q
  <1>3. q < b
    <2>1. ASSUME NEW x \in Nat, NEW y \in Nat, x >= y PROVE x * y >= y * y
      BY <2>1
    <2>2. QED
      BY <1>1, <1>2, <2>1 DEF q
  <1>4. q % b = q
    BY <1>1, <1>3 DEF q
  <1>5. QED
    BY <1>1, <1>3, <1>4 DEF q

LEMMA Reads16 ==
    ASSUME NEW s, NEW at \in Nat, NEW v \in Uint16, Holds16(s, at, v)
    PROVE  read_uint16(s, at) = v
  BY RadixFacts, Halves DEF Uint16, Word, Holds16, read_uint16

\* The last two digits of a number are its remainder.
LEMMA LastDigits ==
    ASSUME NEW b \in Nat, b > 0, NEW v \in Nat
    PROVE  ((v \div b) % b) * b + (v % b) = v % (b * b)
  <1> DEFINE q == v \div b
             r == v % b
             x == q \div b
             y == q % b
  <1>1. q \in Nat /\ r \in 0 .. b - 1 /\ v = q * b + r
    OBVIOUS
  <1> HIDE DEF q, r
  <1>2. x \in Nat /\ y \in 0 .. b - 1 /\ q = x * b + y
    BY <1>1
  <1> HIDE DEF x, y
  <1>3. ASSUME NEW w \in Nat, w > 0, NEW k \in Nat, NEW m \in 0 .. w - 1
        PROVE  (k * w + m) % w = m
    BY <1>3
  <1>4. y * b + r \in 0 .. b * b - 1
    <2>1. y * b <= (b - 1) * b /\ y * b \in Nat
      BY <1>2
    <2>2. QED
      BY <1>1, <2>1
  <1>5. b * b \in Nat /\ b * b > 0
    OBVIOUS
  <1>6. v = x * (b * b) + (y * b + r)
    <2>1. ASSUME NEW i \in Nat, NEW j \in Nat, NEW k \in Nat, NEW c \in Nat
          PROVE  (i * c + j) * c + k = i * (c * c) + (j * c + k)
      OBVIOUS
    <2>2. y \in Nat /\ r \in Nat
      BY <1>1, <1>2
    <2>3. (x * b + y) * b + r = x * (b * b) + (y * b + r)
      BY <1>2, <2>1, <2>2
    <2>4. QED
      BY <1>1, <1>2, <2>3
  <1>7. v % (b * b) = y * b + r
    <2> DEFINE w == b * b
               m == y * b + r
    <2>1. w \in Nat /\ w > 0 /\ m \in 0 .. w - 1 /\ v = x * w + m
      BY <1>4, <1>5, <1>6
    <2> HIDE DEF w, m
    <2>2. v % w = m
      BY <1>2, <1>3, <2>1
    <2>3. QED
      BY <2>2 DEF w, m
  <1>8. QED
    BY <1>7 DEF q, r, y

LEMMA Reads32 ==
    ASSUME NEW s, NEW at \in Nat, NEW v \in Uint32, Holds32(s, at, v)
    PROVE  read_uint32(s, at) = v
  <1>1. Radix \in Nat /\ Radix > 0 /\ Word \in Nat /\ Word > 0
    BY RadixFacts
  <1>2. v \in 0 .. Word * Word - 1 /\ v \in Nat
    BY RadixFacts DEF Uint32
  <1>3. /\ v \div Word \in 0 .. Word - 1
        /\ v = (v \div Word) * Word + (v % Word)
    BY <1>1, <1>2, Halves
  <1>4. read_uint16(s, at) = v \div Word
    BY <1>3, Reads16 DEF Holds32, Uint16
  <1>5. s[(at + 2) + 1] = (v \div Radix) % Radix /\ s[(at + 2) + 2] = v % Radix
    BY DEF Holds32, Holds16
  <1>6. read_uint16(s, at + 2) = v % Word
    BY <1>1, <1>2, <1>5, LastDigits DEF read_uint16, Word
  <1>7. QED
    BY <1>3, <1>4, <1>6 DEF read_uint32
-----------------------------------------------------------------------------
(***************************************************************************)
(* Writing.                                                                *)
(***************************************************************************)
Joined(c, s, m, t, k) ==
    /\ c \in Seq(Int)
    /\ Len(c) = m + k
    /\ Same(c, s, m)
    /\ \A p \in 1 .. k : c[m + p] = t[p]

LEMMA Join ==
    ASSUME NEW s \in Seq(Int), NEW t \in Seq(Int)
    PROVE  Joined(s \o t, s, Len(s), t, Len(t))
  <1> DEFINE m == Len(s)
             k == Len(t)
             c == s \o t
  <1>1. m \in Nat /\ k \in Nat
    BY LenProperties
  <1>2. /\ c \in Seq(Int) /\ Len(c) = m + k
        /\ \A i \in 1 .. m + k : c[i] = IF i <= m THEN s[i] ELSE t[i - m]
    BY ConcatProperties
  <1> HIDE DEF m, k, c
  <1>3. \A p \in 1 .. k : m + p \in 1 .. m + k /\ ~(m + p <= m) /\ (m + p) - m = p
    BY <1>1
  <1>4. \A p \in 1 .. m : p \in 1 .. m + k /\ p <= m
    BY <1>1
  <1>5. Joined(c, s, m, t, k)
    BY <1>2, <1>3, <1>4 DEF Joined, Same
  <1>6. QED
    BY <1>5 DEF m, k, c

LEMMA Writes16 ==
    ASSUME NEW v \in Nat
    PROVE  /\ write_uint16(v) \in Seq(Int) /\ Len(write_uint16(v)) = 2
           /\ Holds16(write_uint16(v), 0, v)
  BY RadixFacts DEF write_uint16, Holds16

\* new is s, which has n bytes, with a number behind them.
Longer16(new, s, n, m, v) ==
    new \in Seq(Int) /\ Len(new) = m /\ Same(new, s, n) /\ Holds16(new, n, v)

Longer32(new, s, n, m, v) ==
    new \in Seq(Int) /\ Len(new) = m /\ Same(new, s, n) /\ Holds32(new, n, v)

LEMMA Appends16 ==
    ASSUME NEW s \in Seq(Int), NEW n \in Nat, Len(s) = n, NEW v \in Nat,
           NEW new, new = s \o write_uint16(v)
    PROVE  Longer16(new, s, n, n + 2, v)
  <1> DEFINE t == write_uint16(v)
  <1>1. t \in Seq(Int) /\ Len(t) = 2 /\ Holds16(t, 0, v)
    BY Writes16
  <1>2. Joined(new, s, n, t, 2)
    BY <1>1, Join
  <1> HIDE DEF t
  <1>3. new[n + 1] = t[1] /\ new[n + 2] = t[2]
    BY <1>2 DEF Joined
  <1>4. Holds16(new, n, v)
    BY <1>1, <1>3 DEF Holds16
  <1>5. new \in Seq(Int) /\ Len(new) = n + 2 /\ Same(new, s, n)
    BY <1>2 DEF Joined
  <1>6. QED
    BY <1>4, <1>5 DEF Longer16

LEMMA Writes32 ==
    ASSUME NEW v \in Nat
    PROVE  /\ write_uint32(v) \in Seq(Int) /\ Len(write_uint32(v)) = 4
           /\ Holds32(write_uint32(v), 0, v)
  <1> DEFINE h == v \div Word
             s == write_uint16(h)
             new == s \o write_uint16(v)
  <1>1. h \in Nat
    BY RadixFacts
  <1>2. s \in Seq(Int) /\ Len(s) = 2 /\ Holds16(s, 0, h)
    BY <1>1, Writes16
  <1>3. new \in Seq(Int) /\ Len(new) = 4 /\ Holds16(new, 2, v) /\ Same(new, s, 2)
    <2>1. new = s \o write_uint16(v)
      OBVIOUS
    <2> HIDE DEF s, new
    <2>2. 2 \in Nat /\ v \in Nat
      OBVIOUS
    <2>3. Longer16(new, s, 2, 2 + 2, v)
      BY <1>2, <2>1, <2>2, Appends16, Zenon
    <2>4. QED
      BY <2>3 DEF Longer16
  <1>4. new = write_uint32(v)
    BY DEF write_uint32
  <1> HIDE DEF s, new, h
  <1>5. Holds16(new, 0, h)
    BY <1>2, <1>3 DEF Holds16, Same
  <1>6. QED
    BY <1>3, <1>4, <1>5 DEF Holds32, h

LEMMA JoinHolds ==
    ASSUME NEW c, NEW s, NEW n \in Nat, NEW t, NEW v \in Nat,
           Joined(c, s, n, t, 4), Holds32(t, 0, v)
    PROVE  Longer32(c, s, n, n + 4, v)
  <1>1. c[n + 1] = t[1] /\ c[n + 2] = t[2] /\ c[(n + 2) + 1] = t[3] /\ c[(n + 2) + 2] = t[4]
    BY DEF Joined
  <1>2. /\ t[1] = ((v \div Word) \div Radix) % Radix /\ t[2] = (v \div Word) % Radix
        /\ t[3] = (v \div Radix) % Radix /\ t[4] = v % Radix
    BY DEF Holds32, Holds16
  <1>3. Holds32(c, n, v)
    BY <1>1, <1>2, Zenon DEF Holds32, Holds16
  <1>4. QED
    BY <1>3 DEF Joined, Longer32

LEMMA Appends32 ==
    ASSUME NEW s \in Seq(Int), NEW n \in Nat, Len(s) = n, NEW v \in Nat,
           NEW new, new = s \o write_uint32(v)
    PROVE  Longer32(new, s, n, n + 4, v)
  <1> DEFINE t == write_uint32(v)
  <1>1. t \in Seq(Int) /\ Len(t) = 4 /\ Holds32(t, 0, v)
    BY Writes32
  <1>2. Joined(new, s, n, t, 4)
    BY <1>1, Join
  <1> HIDE DEF t
  <1>3. QED
    BY <1>1, <1>2, JoinHolds, Zenon

\* What is written stays when more is written behind it.
LEMMA Keeps16 ==
    ASSUME NEW s, NEW t, NEW n \in Nat, Same(s, t, n),
           NEW at \in Nat, at + 2 <= n, NEW v, Holds16(t, at, v)
    PROVE  Holds16(s, at, v)
  BY DEF Same, Holds16

LEMMA Keeps32 ==
    ASSUME NEW s, NEW t, NEW n \in Nat, Same(s, t, n),
           NEW at \in Nat, at + 4 <= n, NEW v, Holds32(t, at, v)
    PROVE  Holds32(s, at, v)
  <1>1. Holds16(s, at, v \div Word)
    BY Keeps16 DEF Holds32
  <1>2. Holds16(s, at + 2, v)
    BY Keeps16 DEF Holds32
  <1>3. QED
    BY <1>1, <1>2 DEF Holds32

LEMMA SameInLast ==
    ASSUME NEW s1, NEW s2, NEW s3, NEW s4, NEW s5, NEW s6, NEW s7, NEW s8,
           Same(s2, s1, 2), Same(s3, s2, 4), Same(s4, s3, 8), Same(s5, s4, 12),
           Same(s6, s5, 16), Same(s7, s6, 20), Same(s8, s7, 24)
    PROVE  /\ Same(s8, s6, 20) /\ Same(s8, s5, 16) /\ Same(s8, s4, 12)
           /\ Same(s8, s3, 8) /\ Same(s8, s2, 4) /\ Same(s8, s1, 2)
  BY DEF Same

LEMMA HeaderKeeps ==
    ASSUME NEW s, NEW t, NEW n \in Nat, Same(s, t, n), n >= HeaderLength,
           NEW pdu, HeaderIn(t, pdu)
    PROVE  HeaderIn(s, pdu)
  <1>1. n >= 28
    BY DEF HeaderLength
  <1>2. Holds16(s, 0, pdu.message_length) /\ Holds16(s, 2, pdu.message_type)
    BY <1>1, Keeps16 DEF HeaderIn
  <1>3. Holds32(s, 4, pdu.receiver_id) /\ Holds32(s, 8, pdu.sender_id)
    BY <1>1, Keeps32 DEF HeaderIn
  <1>4. Holds32(s, 12, pdu.sequence_number) /\ Holds32(s, 16, pdu.confirmed_sequence_number)
    BY <1>1, Keeps32 DEF HeaderIn
  <1>5. Holds32(s, 20, pdu.timestamp) /\ Holds32(s, 24, pdu.confirmed_timestamp)
    BY <1>1, Keeps32 DEF HeaderIn
  <1>6. QED
    BY <1>2, <1>3, <1>4, <1>5 DEF HeaderIn

LEMMA HeaderWritten ==
    ASSUME NEW pdu, Built(pdu)
    PROVE  /\ Header(pdu) \in Seq(Int) /\ Len(Header(pdu)) = HeaderLength
           /\ HeaderIn(Header(pdu), pdu)
  <1>0. /\ pdu.message_length \in Nat /\ pdu.message_type \in Nat
        /\ pdu.receiver_id \in Nat /\ pdu.sender_id \in Nat
        /\ pdu.sequence_number \in Nat /\ pdu.confirmed_sequence_number \in Nat
        /\ pdu.timestamp \in Nat /\ pdu.confirmed_timestamp \in Nat
    BY RadixFacts DEF Built, Uint16, Uint32
  <1> DEFINE s1 == write_uint16(pdu.message_length)
             s2 == s1 \o write_uint16(pdu.message_type)
             s3 == s2 \o write_uint32(pdu.receiver_id)
             s4 == s3 \o write_uint32(pdu.sender_id)
             s5 == s4 \o write_uint32(pdu.sequence_number)
             s6 == s5 \o write_uint32(pdu.confirmed_sequence_number)
             s7 == s6 \o write_uint32(pdu.timestamp)
             s8 == s7 \o write_uint32(pdu.confirmed_timestamp)
  <1>s. Header(pdu) = s8
    BY Zenon DEF Header
  <1>1. s1 \in Seq(Int) /\ Len(s1) = 2 /\ Holds16(s1, 0, pdu.message_length)
    BY <1>0, Writes16
  <1>d. /\ s2 = s1 \o write_uint16(pdu.message_type)
        /\ s3 = s2 \o write_uint32(pdu.receiver_id)
        /\ s4 = s3 \o write_uint32(pdu.sender_id)
        /\ s5 = s4 \o write_uint32(pdu.sequence_number)
        /\ s6 = s5 \o write_uint32(pdu.confirmed_sequence_number)
        /\ s7 = s6 \o write_uint32(pdu.timestamp)
        /\ s8 = s7 \o write_uint32(pdu.confirmed_timestamp)
    BY Zenon
  <1> HIDE DEF s1, s2, s3, s4, s5, s6, s7, s8
  <1>2. Longer16(s2, s1, 2, 4, pdu.message_type)
    <2>1. s1 \in Seq(Int) /\ Len(s1) = 2
      BY <1>1
    <2>2. Longer16(s2, s1, 2, 2 + 2, pdu.message_type)
      BY <1>0, <1>d, <2>1, Appends16, Zenon
    <2>3. QED
      BY <2>2
  <1>3. Longer32(s3, s2, 4, 8, pdu.receiver_id)
    <2>1. s2 \in Seq(Int) /\ Len(s2) = 4
      BY <1>2 DEF Longer16
    <2>2. Longer32(s3, s2, 4, 4 + 4, pdu.receiver_id)
      BY <1>0, <1>d, <2>1, Appends32, Zenon
    <2>3. QED
      BY <2>2
  <1>4. Longer32(s4, s3, 8, 12, pdu.sender_id)
    <2>1. s3 \in Seq(Int) /\ Len(s3) = 8
      BY <1>3 DEF Longer32
    <2>2. Longer32(s4, s3, 8, 8 + 4, pdu.sender_id)
      BY <1>0, <1>d, <2>1, Appends32, Zenon
    <2>3. QED
      BY <2>2
  <1>5. Longer32(s5, s4, 12, 16, pdu.sequence_number)
    <2>1. s4 \in Seq(Int) /\ Len(s4) = 12
      BY <1>4 DEF Longer32
    <2>2. Longer32(s5, s4, 12, 12 + 4, pdu.sequence_number)
      BY <1>0, <1>d, <2>1, Appends32, Zenon
    <2>3. QED
      BY <2>2
  <1>6. Longer32(s6, s5, 16, 20, pdu.confirmed_sequence_number)
    <2>1. s5 \in Seq(Int) /\ Len(s5) = 16
      BY <1>5 DEF Longer32
    <2>2. Longer32(s6, s5, 16, 16 + 4, pdu.confirmed_sequence_number)
      BY <1>0, <1>d, <2>1, Appends32, Zenon
    <2>3. QED
      BY <2>2
  <1>7. Longer32(s7, s6, 20, 24, pdu.timestamp)
    <2>1. s6 \in Seq(Int) /\ Len(s6) = 20
      BY <1>6 DEF Longer32
    <2>2. Longer32(s7, s6, 20, 20 + 4, pdu.timestamp)
      BY <1>0, <1>d, <2>1, Appends32, Zenon
    <2>3. QED
      BY <2>2
  <1>8. Longer32(s8, s7, 24, 28, pdu.confirmed_timestamp)
    <2>1. s7 \in Seq(Int) /\ Len(s7) = 24
      BY <1>7 DEF Longer32
    <2>2. Longer32(s8, s7, 24, 24 + 4, pdu.confirmed_timestamp)
      BY <1>0, <1>d, <2>1, Appends32, Zenon
    <2>3. QED
      BY <2>2
  <1>9. /\ Same(s8, s6, 20) /\ Same(s8, s5, 16) /\ Same(s8, s4, 12)
        /\ Same(s8, s3, 8) /\ Same(s8, s2, 4) /\ Same(s8, s1, 2)
    BY <1>2, <1>3, <1>4, <1>5, <1>6, <1>7, <1>8, SameInLast, Zenon DEF Longer16, Longer32
  <1>10. Holds16(s8, 0, pdu.message_length) /\ Holds16(s8, 2, pdu.message_type)
    <2>1. Holds16(s2, 2, pdu.message_type)
      BY <1>2 DEF Longer16
    <2>2. Holds16(s8, 2, pdu.message_type)
      BY <2>1, <1>9, Keeps16
    <2>3. Holds16(s8, 0, pdu.message_length)
      BY <1>1, <1>9, Keeps16
    <2>4. QED
      BY <2>2, <2>3
  <1>11. /\ Holds32(s8, 4, pdu.receiver_id) /\ Holds32(s8, 8, pdu.sender_id)
         /\ Holds32(s8, 12, pdu.sequence_number)
         /\ Holds32(s8, 16, pdu.confirmed_sequence_number)
         /\ Holds32(s8, 20, pdu.timestamp)
    <2>1. Holds32(s8, 4, pdu.receiver_id)
      BY <1>3, <1>9, Keeps32 DEF Longer32
    <2>2. Holds32(s8, 8, pdu.sender_id)
      BY <1>4, <1>9, Keeps32 DEF Longer32
    <2>3. Holds32(s8, 12, pdu.sequence_number)
      BY <1>5, <1>9, Keeps32 DEF Longer32
    <2>4. Holds32(s8, 16, pdu.confirmed_sequence_number)
      BY <1>6, <1>9, Keeps32 DEF Longer32
    <2>5. Holds32(s8, 20, pdu.timestamp)
      BY <1>7, <1>8, Keeps32 DEF Longer32
    <2>6. QED
      BY <2>1, <2>2, <2>3, <2>4, <2>5
  <1>12. HeaderIn(s8, pdu)
    BY <1>8, <1>10, <1>11, Zenon DEF HeaderIn, Longer32
  <1>13. QED
    BY <1>s, <1>8, <1>12 DEF HeaderLength, Longer32

(***************************************************************************)
(* The frame without its safety code, and with it.                         *)
(***************************************************************************)
Body(pdu) ==
    IF pdu.payload = NULL THEN << >> ELSE SubSeq(pdu.payload, 1, Carried(pdu))

LEMMA BodyType ==
    ASSUME NEW pdu, Built(pdu)
    PROVE  /\ Body(pdu) \in Seq(Int) /\ Len(Body(pdu)) = Carried(pdu)
           /\ Carried(pdu) \in Nat
           /\ pdu.payload # NULL =>
                \A i \in 1 .. Carried(pdu) : Body(pdu)[i] = pdu.payload[i]
  <1>1. Carried(pdu) \in Nat
    BY RadixFacts DEF Built, Carried, Uint16, PDU_FIXED_FIELDS_LENGTH, HeaderLength,
          SAFETY_CODE_LENGTH
  <1>2. CASE pdu.payload = NULL
    BY <1>1, <1>2, Zenon, EmptySeq DEF Body, Built
  <1>3. CASE pdu.payload # NULL
    <2>1. pdu.payload \in Seq(Int) /\ Carried(pdu) <= Len(pdu.payload)
      BY <1>3 DEF Built
    <2> DEFINE p == pdu.payload
               n == Carried(pdu)
    <2>2. p \in Seq(Int) /\ n \in Nat /\ n <= Len(p)
      BY <1>1, <2>1
    <2>3. Body(pdu) = SubSeq(p, 1, n)
      BY <1>3 DEF Body
    <2> HIDE DEF p, n
    <2>4. /\ SubSeq(p, 1, n) \in Seq(Int) /\ Len(SubSeq(p, 1, n)) = n
          /\ \A i \in 1 .. n : SubSeq(p, 1, n)[i] = p[i]
      BY <2>2
    <2>5. QED
      BY <2>2, <2>3, <2>4 DEF p, n
  <1>4. QED
    BY <1>2, <1>3

LEMMA UncodedWritten ==
    ASSUME NEW pdu, Built(pdu), pdu.safety_code = NULL
    PROVE  /\ Written(pdu) \in Seq(Int)
           /\ Len(Written(pdu)) = pdu.message_length - SAFETY_CODE_LENGTH
  <1> DEFINE h == Header(pdu)
             b == Body(pdu)
  <1>1. h \in Seq(Int) /\ Len(h) = HeaderLength /\ b \in Seq(Int) /\ Len(b) = Carried(pdu)
    BY HeaderWritten, BodyType
  <1>2. Written(pdu) = (h \o b) \o << >>
    BY Zenon DEF Written, Body, Carried
  <1>3. h \o b \in Seq(Int) /\ Len(h \o b) = Len(h) + Len(b)
    BY <1>1, ConcatProperties
  <1> HIDE DEF h, b
  <1>4. (h \o b) \o << >> = h \o b
    BY <1>3, ConcatEmptySeq
  <1>5. Len(h \o b) = HeaderLength + Carried(pdu)
    BY <1>1, <1>3
  <1>6. HeaderLength + Carried(pdu) = pdu.message_length - SAFETY_CODE_LENGTH
    BY RadixFacts DEF Built, Uint16, Carried, PDU_FIXED_FIELDS_LENGTH, HeaderLength, SAFETY_CODE_LENGTH
  <1>7. QED
    BY <1>2, <1>3, <1>4, <1>5, <1>6, Zenon

LEMMA LengthOfFrame ==
    ASSUME NEW pdu, Built(pdu)
    PROVE  /\ pdu.message_length \in Nat
           /\ HeaderLength + Carried(pdu) = pdu.message_length - SAFETY_CODE_LENGTH
           /\ Carried(pdu) \in Nat
  BY RadixFacts DEF Built, Uint16, Carried, PDU_FIXED_FIELDS_LENGTH, HeaderLength, SAFETY_CODE_LENGTH

\* What joining three parts gives, in the terms of FrameIn.
LEMMA FrameOfParts ==
    ASSUME NEW pdu, Coded(pdu), NEW h, NEW b, NEW hb, NEW c,
           HeaderIn(h, pdu),
           Joined(hb, h, HeaderLength, b, Carried(pdu)),
           pdu.payload # NULL => \A i \in 1 .. Carried(pdu) : b[i] = pdu.payload[i],
           Joined(c, hb, HeaderLength + Carried(pdu), pdu.safety_code, SAFETY_CODE_LENGTH)
    PROVE  c \in Seq(Int) /\ Len(c) = pdu.message_length /\ FrameIn(c, pdu)
  <1> DEFINE n == Carried(pdu)
             len == pdu.message_length
  <1>1. len \in Nat /\ n \in Nat /\ 28 + n = len - 8
    BY LengthOfFrame DEF Coded, HeaderLength, SAFETY_CODE_LENGTH
  <1>2. Same(hb, h, 28) /\ Same(c, hb, 28 + n)
    BY DEF Joined, HeaderLength
  <1>3. HeaderIn(hb, pdu)
    BY <1>2, HeaderKeeps DEF HeaderLength
  <1>4. HeaderIn(c, pdu)
    BY <1>1, <1>2, <1>3, HeaderKeeps DEF HeaderLength
  <1>5. c \in Seq(Int) /\ Len(c) = (28 + n) + 8
    BY DEF Joined, HeaderLength, SAFETY_CODE_LENGTH
  <1>6. \A i \in 1 .. n : hb[28 + i] = b[i] /\ c[28 + i] = hb[28 + i]
    <2>1. \A i \in 1 .. n : hb[28 + i] = b[i]
      BY DEF Joined, HeaderLength
    <2>2. \A i \in 1 .. n : 28 + i \in 1 .. 28 + n
      BY <1>1
    <2>3. \A i \in 1 .. 28 + n : c[i] = hb[i]
      BY <1>2 DEF Same
    <2>4. QED
      BY <2>1, <2>2, <2>3
  <1>7. \A i \in 1 .. 8 : c[(len - 8) + i] = pdu.safety_code[i]
    BY <1>1 DEF Joined, HeaderLength, SAFETY_CODE_LENGTH
  <1>8. pdu.payload # NULL => \A i \in 1 .. n : c[28 + i] = pdu.payload[i]
    BY <1>6
  <1>9. Len(c) = len
    BY <1>1, <1>5
  <1>10. QED
    BY <1>4, <1>5, <1>7, <1>8, <1>9 DEF FrameIn, HeaderLength, SAFETY_CODE_LENGTH

LEMMA CodedWritten ==
    ASSUME NEW pdu, Coded(pdu)
    PROVE  /\ Written(pdu) \in Seq(Int) /\ Len(Written(pdu)) = pdu.message_length
           /\ FrameIn(Written(pdu), pdu)
  <1> DEFINE h == Header(pdu)
             b == Body(pdu)
             code == pdu.safety_code
             hb == h \o b
             c == hb \o code
  <1>1. h \in Seq(Int) /\ Len(h) = HeaderLength /\ HeaderIn(h, pdu)
    BY HeaderWritten DEF Coded
  <1>2. /\ b \in Seq(Int) /\ Len(b) = Carried(pdu)
        /\ pdu.payload # NULL => \A i \in 1 .. Carried(pdu) : b[i] = pdu.payload[i]
    BY BodyType DEF Coded
  <1>3. code \in Seq(Int) /\ Len(code) = SAFETY_CODE_LENGTH /\ code # NULL
    BY CodecAssumption DEF Coded
  <1>4. Written(pdu) = c
    BY <1>3, Zenon DEF Written, Body, Carried
  <1> HIDE DEF h, b, code
  <1>5. Joined(hb, h, HeaderLength, b, Carried(pdu))
    BY <1>1, <1>2, Join
  <1>6. hb \in Seq(Int) /\ Len(hb) = HeaderLength + Carried(pdu)
    BY <1>5 DEF Joined
  <1> HIDE DEF hb
  <1>7. Joined(c, hb, HeaderLength + Carried(pdu), code, SAFETY_CODE_LENGTH)
    BY <1>3, <1>6, Join
  <1> HIDE DEF c
  <1>8. c \in Seq(Int) /\ Len(c) = pdu.message_length /\ FrameIn(c, pdu)
    BY <1>1, <1>2, <1>5, <1>7, FrameOfParts, Zenon DEF code
  <1>9. QED
    BY <1>4, <1>8

LEMMA FrameKeeps ==
    ASSUME NEW pdu, Coded(pdu), NEW s, NEW t, Same(s, t, pdu.message_length), FrameIn(t, pdu)
    PROVE  FrameIn(s, pdu)
  <1> DEFINE n == Carried(pdu)
             len == pdu.message_length
  <1>1. len \in Nat /\ n \in Nat /\ 28 + n = len - 8
    BY LengthOfFrame DEF Coded, HeaderLength, SAFETY_CODE_LENGTH
  <1>2. HeaderIn(s, pdu)
    BY <1>1, HeaderKeeps DEF FrameIn, HeaderLength
  <1>3. pdu.payload # NULL => \A i \in 1 .. n : s[28 + i] = pdu.payload[i]
    BY <1>1 DEF FrameIn, Same, HeaderLength
  <1>4. \A i \in 1 .. 8 : s[(len - 8) + i] = pdu.safety_code[i]
    BY <1>1 DEF FrameIn, Same, SAFETY_CODE_LENGTH
  <1>5. QED
    BY <1>2, <1>3, <1>4 DEF FrameIn, HeaderLength, SAFETY_CODE_LENGTH

\* The piece of n bytes that starts after the first from bytes.
LEMMA Slice ==
    ASSUME NEW s \in Seq(Int), NEW from \in Nat, NEW n \in Nat, from + n <= Len(s),
           NEW u, u = SubSeq(s, from + 1, from + n)
    PROVE  u \in Seq(Int) /\ Len(u) = n /\ \A i \in 1 .. n : u[i] = s[from + i]
  <1> DEFINE m == from + 1
             k == from + n
  <1>1. \A i \in m .. k : s[i] \in Int
    BY ElementOfSeq, LenProperties
  <1>2. m \in Int /\ k \in Int /\ k - m + 1 = n
    OBVIOUS
  <1>3. m <= k <=> n >= 1
    OBVIOUS
  <1>4. \A i \in 1 .. n : m + i - 1 = from + i
    OBVIOUS
  <1>5. u = SubSeq(s, m, k)
    OBVIOUS
  <1> HIDE DEF m, k
  <1>6. /\ SubSeq(s, m, k) \in Seq(Int)
        /\ Len(SubSeq(s, m, k)) = IF m <= k THEN k - m + 1 ELSE 0
        /\ \A i \in 1 .. k - m + 1 : SubSeq(s, m, k)[i] = s[m + i - 1]
    BY <1>1, <1>2, SubSeqProperties
  <1>7. Len(u) = n
    BY <1>2, <1>3, <1>5, <1>6
  <1>8. \A i \in 1 .. n : u[i] = s[m + i - 1]
    BY <1>2, <1>5, <1>6, Zenon
  <1>9. \A i \in 1 .. n : u[i] = s[from + i]
    BY <1>4, <1>8, Zenon
  <1>10. QED
    BY <1>5, <1>6, <1>7, <1>9, Zenon

LEMMA Serialized ==
    ASSUME NEW pdu, Coded(pdu), pdu.message_length <= MAX_BUFF_SIZE,
           NEW old \in Seq(Int), Len(old) = MAX_BUFF_SIZE,
           NEW new, new = serialize_pdu(pdu, old, pdu.message_length)
    PROVE  new \in Seq(Int) /\ Len(new) = MAX_BUFF_SIZE /\ FrameIn(new, pdu)
  <1> DEFINE len == pdu.message_length
             w == Written(pdu)
             rest == SubSeq(old, len + 1, MAX_BUFF_SIZE)
  <1>1. len \in Nat /\ len <= 100
    BY LengthOfFrame DEF Coded, MAX_BUFF_SIZE
  <1>2. w \in Seq(Int) /\ Len(w) = len /\ FrameIn(w, pdu)
    BY CodedWritten
  <1>3. new = w \o rest
    <2>1. ~(len < len)
      BY <1>1
    <2>2. QED
      BY <1>2, <2>1, Zenon DEF serialize_pdu
  <1>4. rest \in Seq(Int) /\ Len(rest) = 100 - len
    <2>1. 100 - len \in Nat /\ len + (100 - len) = 100
      BY <1>1
    <2>2. Len(old) = 100 /\ rest = SubSeq(old, len + 1, 100)
      BY DEF MAX_BUFF_SIZE
    <2> HIDE DEF rest, len, w
    <2> DEFINE n == 100 - len
    <2>3. n \in Nat /\ len + n = 100 /\ 100 <= 100
      BY <2>1
    <2>4. n \in Nat /\ len + n <= Len(old) /\ rest = SubSeq(old, len + 1, len + n)
      BY <2>2, <2>3, Zenon
    <2> HIDE DEF n
    <2>5. rest \in Seq(Int) /\ Len(rest) = n
      BY <1>1, <2>4, Slice
    <2>6. QED
      BY <2>5 DEF n
  <1> HIDE DEF w, rest, len
  <1>5. Joined(w \o rest, w, Len(w), rest, Len(rest))
    BY <1>2, <1>4, Join
  <1>6. Joined(new, w, len, rest, 100 - len)
    BY <1>2, <1>3, <1>4, <1>5, Zenon
  <1>7. new \in Seq(Int) /\ Len(new) = len + (100 - len) /\ Same(new, w, len)
    BY <1>6, Zenon DEF Joined
  <1>8. FrameIn(new, pdu)
    BY <1>2, <1>7, FrameKeeps, Zenon DEF len
  <1>9. len + (100 - len) = MAX_BUFF_SIZE
    BY <1>1 DEF MAX_BUFF_SIZE
  <1>10. QED
    BY <1>7, <1>8, <1>9, Zenon
-----------------------------------------------------------------------------
(***************************************************************************)
(* Reading.                                                                *)
(***************************************************************************)
\* The fields of two PDUs that the header has.
SameHeader(p, q) ==
    /\ p.message_length = q.message_length
    /\ p.message_type = q.message_type
    /\ p.receiver_id = q.receiver_id
    /\ p.sender_id = q.sender_id
    /\ p.sequence_number = q.sequence_number
    /\ p.confirmed_sequence_number = q.confirmed_sequence_number
    /\ p.timestamp = q.timestamp
    /\ p.confirmed_timestamp = q.confirmed_timestamp

LEMMA HeaderRead ==
    ASSUME NEW pdu, Built(pdu), NEW s, HeaderIn(s, pdu)
    PROVE  SameHeader(ReadHeader(s), pdu)
  <1>1. /\ read_uint16(s, 0) = pdu.message_length
        /\ read_uint16(s, 2) = pdu.message_type
    BY Reads16 DEF HeaderIn, Built
  <1>2. /\ read_uint32(s, 4) = pdu.receiver_id
        /\ read_uint32(s, 8) = pdu.sender_id
        /\ read_uint32(s, 12) = pdu.sequence_number
    BY Reads32 DEF HeaderIn, Built
  <1>3. /\ read_uint32(s, 16) = pdu.confirmed_sequence_number
        /\ read_uint32(s, 20) = pdu.timestamp
        /\ read_uint32(s, 24) = pdu.confirmed_timestamp
    BY Reads32 DEF HeaderIn, Built
  <1>4. QED
    BY <1>1, <1>2, <1>3 DEF ReadHeader, ZeroPdu, SameHeader

LEMMA SizeIs ==
    ASSUME NEW len \in Int, len >= PDU_FIXED_FIELDS_LENGTH
    PROVE  HeaderLength + PayloadSize(len) = len - 8
  BY DEF PayloadSize, PDU_FIXED_FIELDS_LENGTH, HeaderLength, SAFETY_CODE_LENGTH

\* What deserialize_pdu makes of a frame that has arrived whole.
LEMMA WholeRead ==
    ASSUME NEW s, NEW len \in Nat, len >= PDU_FIXED_FIELDS_LENGTH,
           ReadHeader(s).message_length = len,
           NEW pdu, pdu = deserialize_pdu(s, len)
    PROVE  /\ SameHeader(pdu, ReadHeader(s))
           /\ pdu.payload = 28 /\ pdu.safety_code = len - 8
  <1>1. ~(len < PDU_FIXED_FIELDS_LENGTH) /\ ~(len < ReadHeader(s).message_length)
    BY DEF PDU_FIXED_FIELDS_LENGTH, HeaderLength, SAFETY_CODE_LENGTH
  <1>2. pdu = [ReadHeader(s) EXCEPT !.payload = HeaderLength,
                                    !.safety_code = HeaderLength + PayloadSize(len)]
    BY <1>1, Zenon DEF deserialize_pdu
  <1>3. HeaderLength + PayloadSize(len) = len - 8
    BY SizeIs
  <1>4. QED
    BY <1>2, <1>3 DEF ReadHeader, ZeroPdu, SameHeader, HeaderLength

LEMMA PiecesRead ==
    ASSUME NEW s \in Seq(Int), NEW from \in Nat, NEW n \in Nat, from + n <= Len(s),
           NEW t \in Seq(Int), n <= Len(t), \A i \in 1 .. n : s[from + i] = t[i]
    PROVE  SubSeq(s, from + 1, from + n) = SubSeq(t, 1, n)
  <1> DEFINE u == SubSeq(s, from + 1, from + n)
             v == SubSeq(t, 1, n)
  <1>1. u \in Seq(Int) /\ Len(u) = n /\ \A i \in 1 .. n : u[i] = s[from + i]
    BY Slice
  <1>2. v \in Seq(Int) /\ Len(v) = n /\ \A i \in 1 .. n : v[i] = t[i]
    <2> DEFINE zero == 0
    <2>1. zero \in Nat /\ zero + 1 = 1 /\ zero + n = n /\ \A i \in 1 .. n : zero + i = i
      OBVIOUS
    <2> HIDE DEF zero
    <2>2. v = SubSeq(t, zero + 1, zero + n) /\ zero + n <= Len(t)
      BY <2>1, Zenon
    <2> HIDE DEF v
    <2>3. v \in Seq(Int) /\ Len(v) = n /\ \A i \in 1 .. n : v[i] = t[zero + i]
      BY <2>1, <2>2, Slice
    <2>4. QED
      BY <2>1, <2>3, Zenon
  <1> HIDE DEF u, v
  <1>3. \A i \in 1 .. Len(u) : u[i] = v[i]
    BY <1>1, <1>2
  <1>4. u = v
    BY <1>1, <1>2, <1>3, SeqEqual
  <1>5. QED
    BY <1>4 DEF u, v

LEMMA InvRoundTrip == Inv => RoundTrip
  <1> SUFFICES ASSUME Inv, Arrived, intact, size = sent.message_length
               PROVE  RoundTrip
    BY DEF RoundTrip
  <1>1. /\ got = deserialize_pdu(buff, size)
        /\ Coded(sent) /\ FrameIn(buff, sent)
        /\ sent.message_length <= MAX_BUFF_SIZE
        /\ buff \in Seq(Int) /\ Len(buff) = MAX_BUFF_SIZE
    BY DEF Inv, Arrived
  <1> DEFINE len == sent.message_length
             n == Carried(sent)
  <1>2. Built(sent)
    BY <1>1 DEF Coded
  <1>3. SameHeader(ReadHeader(buff), sent)
    BY <1>1, <1>2, HeaderRead DEF FrameIn
  <1>4. /\ len \in Nat /\ len >= PDU_FIXED_FIELDS_LENGTH
        /\ n \in Nat /\ 28 + n = len - 8
    BY <1>2, LengthOfFrame DEF Built, HeaderLength, SAFETY_CODE_LENGTH
  <1>5. /\ SameHeader(got, ReadHeader(buff))
        /\ got.payload = 28 /\ got.safety_code = len - 8
    <2>1. ReadHeader(buff).message_length = len
      BY <1>3 DEF SameHeader
    <2>2. got = deserialize_pdu(buff, len)
      BY <1>1
    <2> HIDE DEF len, n
    <2>3. QED
      BY <1>4, <2>1, <2>2, WholeRead
  <1>6. SameHeader(got, sent)
    BY <1>3, <1>5, Zenon DEF SameHeader
  <1>7. \A field \in DOMAIN sent \ {"payload", "safety_code"} : got[field] = sent[field]
    <2>1. DOMAIN sent = {"message_length", "message_type", "receiver_id", "sender_id",
                         "sequence_number", "confirmed_sequence_number", "timestamp",
                         "confirmed_timestamp", "payload", "safety_code"}
      BY <1>2 DEF Built
    <2>2. QED
      BY <1>6, <2>1 DEF SameHeader
  <1>8. got.payload = 28 /\ got.safety_code = len - 8
    BY <1>5
  <1>9. ASSUME sent.payload # NULL
        PROVE  /\ Pointed(got.payload, n) = SubSeq(sent.payload, 1, n)
               /\ Len(sent.payload) < Radix => n = Len(sent.payload)
    <2>1. sent.payload \in Seq(Int) /\ n <= Len(sent.payload)
      BY <1>2, <1>9 DEF Built
    <2>2. \A i \in 1 .. n : buff[28 + i] = sent.payload[i]
      BY <1>1, <1>9 DEF FrameIn, HeaderLength
    <2>3. 28 + n <= Len(buff)
      BY <1>1, <1>4 DEF MAX_BUFF_SIZE
    <2> HIDE DEF n
    <2>4. SubSeq(buff, 28 + 1, 28 + n) = SubSeq(sent.payload, 1, n)
      BY <1>1, <1>4, <2>1, <2>2, <2>3, PiecesRead
    <2>5. Len(sent.payload) < Radix => n = Len(sent.payload)
      BY <1>2, <1>9 DEF Built, n
    <2>6. QED
      BY <1>8, <2>4, <2>5, Zenon DEF Pointed
  <1>10. Pointed(got.safety_code, SAFETY_CODE_LENGTH) = sent.safety_code
    <2> DEFINE code == sent.safety_code
               from == len - 8
    <2>1. code \in Seq(Int) /\ Len(code) = 8
      BY <1>1 DEF Coded, SAFETY_CODE_LENGTH
    <2>2. \A i \in 1 .. 8 : buff[from + i] = code[i]
      BY <1>1 DEF FrameIn, SAFETY_CODE_LENGTH
    <2>3. from \in Nat /\ from + 8 <= Len(buff)
      BY <1>1, <1>4 DEF MAX_BUFF_SIZE, PDU_FIXED_FIELDS_LENGTH, HeaderLength, SAFETY_CODE_LENGTH
    <2>4. got.safety_code = from
      BY <1>8
    <2> HIDE DEF code, from
    <2>5. SubSeq(buff, from + 1, from + 8) = SubSeq(code, 1, 8)
      BY <1>1, <2>1, <2>2, <2>3, PiecesRead
    <2>6. SubSeq(code, 1, 8) = code
      BY <2>1
    <2>7. QED
      BY <2>4, <2>5, <2>6 DEF Pointed, SAFETY_CODE_LENGTH, code
  <1>11. QED
    BY <1>7, <1>9, <1>10, Zenon DEF RoundTrip

LEMMA InvReadsArrived == Inv => ReadsArrived
  <1> SUFFICES ASSUME Inv, Arrived, got.payload # NULL
               PROVE  ReadsArrived
    BY DEF ReadsArrived
  <1> DEFINE header == ReadHeader(buff)
             len == header.message_length
  <1>1. /\ got = deserialize_pdu(buff, size) /\ size \in Nat
        /\ buff \in Seq(Int) /\ Len(buff) = MAX_BUFF_SIZE
    BY DEF Inv, Arrived
  <1>2. len = read_uint16(buff, 0) /\ header.payload = NULL
    BY DEF ReadHeader, ZeroPdu
  <1>3. len \in Int
    <2>2. len = buff[0 + 1] * Radix + buff[0 + 2]
      BY <1>2 DEF read_uint16
    <2> HIDE DEF header, len
    <2>1. buff[1] \in Int /\ buff[2] \in Int
      <3>1. 1 \in 1 .. Len(buff) /\ 2 \in 1 .. Len(buff)
        BY <1>1 DEF MAX_BUFF_SIZE
      <3>2. QED
        BY <1>1, <3>1, ElementOfSeq
    <2>3. len = buff[1] * Radix + buff[2]
      BY <2>2
    <2>4. QED
      BY <2>1, <2>3, RadixFacts
  <1>4. /\ ~(size < PDU_FIXED_FIELDS_LENGTH) /\ ~(size < len)
        /\ got = [header EXCEPT !.payload = HeaderLength,
                                !.safety_code = HeaderLength + PayloadSize(len)]
    <2>1. ZeroPdu.payload = NULL
      BY DEF ZeroPdu
    <2>2. QED
      BY <1>1, <1>2, <2>1 DEF deserialize_pdu
  <1>5. /\ got.payload = 28 /\ got.safety_code = HeaderLength + PayloadSize(len)
        /\ got.message_length = len
    BY <1>4 DEF ReadHeader, ZeroPdu, HeaderLength
  <1> HIDE DEF header, len
  <1>6. /\ size >= 36
        /\ got.message_length >= 36 =>
             got.payload <= got.safety_code /\ got.safety_code + 8 <= size
    BY <1>1, <1>3, <1>4, <1>5, SizeIs
       DEF PDU_FIXED_FIELDS_LENGTH, HeaderLength, SAFETY_CODE_LENGTH
  <1>7. QED
    BY <1>6 DEF ReadsArrived, PDU_FIXED_FIELDS_LENGTH, HeaderLength, SAFETY_CODE_LENGTH
-----------------------------------------------------------------------------
LEMMA InitInv == Init => Inv
  <1> SUFFICES ASSUME Init PROVE Inv
    OBVIOUS
  <1>1. buff \in Seq(Int) /\ Len(buff) = MAX_BUFF_SIZE
    BY DEF Init, MAX_BUFF_SIZE
  <1>2. size \in Nat /\ sent = NULL /\ got = NULL /\ ~overrun
    BY DEF Init
  <1>3. QED
    BY <1>1, <1>2 DEF Inv, FitsBuffers

\* What a builder makes of m and the numbers n.
Filled(m, n) ==
    [message_length |-> PDU_FIXED_FIELDS_LENGTH + PayloadLength(m),
     message_type |-> m.message_type,
     receiver_id |-> 0,
     sender_id |-> 0,
     sequence_number |-> n[1],
     confirmed_sequence_number |-> n[2],
     timestamp |-> n[3],
     confirmed_timestamp |-> n[4],
     payload |-> IF m.payload = << >> THEN NULL ELSE m.payload,
     safety_code |-> NULL]

LEMMA Remainder ==
    ASSUME NEW x \in Nat, NEW b \in Nat, b > 0
    PROVE  /\ x % b \in 0 .. b - 1 /\ x % b \in Nat /\ x % b <= x
           /\ x < b => x % b = x
  <1>1. x % b \in 0 .. b - 1 /\ x = (x \div b) * b + (x % b) /\ x \div b \in Nat
    OBVIOUS
  <1>2. (x \div b) * b \in Nat
    BY <1>1
  <1>3. x < b => x % b = x
    OBVIOUS
  <1>4. QED
    BY <1>1, <1>2, <1>3

LEMMA PayloadLengths ==
    ASSUME NEW m \in Messages
    PROVE  /\ PayloadLength(m) \in 0 .. Radix - 1
           /\ m.payload \in Seq(Int)
           /\ PayloadLength(m) <= Len(m.payload)
           /\ Len(m.payload) < Radix => PayloadLength(m) = Len(m.payload)
           /\ m.message_type # DATA => PayloadLength(m) <= 14
  <1>1. /\ m.payload \in Seq(Byte)
        /\ m.message_type # DATA => Len(m.payload) <= 14
    BY CodecAssumption DEF CONN_RESP_PAYLOAD_LENGTH
  <1>2. Byte \subseteq Int
    BY RadixFacts DEF Byte
  <1>3. m.payload \in Seq(Int)
    BY <1>1, <1>2, SeqMonotonic
  <1>4. Len(m.payload) \in Nat
    BY <1>3, LenProperties
  <1> DEFINE k == Len(m.payload)
  <1>6. PayloadLength(m) = k % Radix
    BY DEF PayloadLength
  <1> HIDE DEF k
  <1>7. /\ k % Radix \in 0 .. Radix - 1 /\ k % Radix \in Nat /\ k % Radix <= k
        /\ k < Radix => k % Radix = k
    <2>1. k \in Nat
      BY <1>4 DEF k
    <2>2. Radix \in Nat /\ Radix > 0
      BY RadixFacts
    <2>3. QED
      BY <2>1, <2>2, Remainder, Zenon
  <1>8. m.message_type # DATA => k <= 14
    BY <1>1 DEF k
  <1>9. k \in Nat /\ k % Radix \in Nat
    BY <1>4, <1>7 DEF k
  <1>10. m.message_type # DATA => k % Radix <= 14
    BY <1>7, <1>8, <1>9
  <1>11. QED
    BY <1>3, <1>6, <1>7, <1>10 DEF k

LEMMA FilledBuilt ==
    ASSUME NEW m \in Messages, NEW n \in Numbers, NEW pdu, pdu = Filled(m, n)
    PROVE  /\ Built(pdu) /\ pdu.safety_code = NULL
           /\ Carried(pdu) = PayloadLength(m)
           /\ pdu.message_type = m.message_type
           /\ pdu.message_length = PDU_FIXED_FIELDS_LENGTH + PayloadLength(m)
  <1> DEFINE k == PayloadLength(m)
             type == m.message_type
             p == IF m.payload = << >> THEN NULL ELSE m.payload
             len == PDU_FIXED_FIELDS_LENGTH + k
  <1>1. /\ k \in 0 .. Radix - 1 /\ m.payload \in Seq(Int) /\ k <= Len(m.payload)
        /\ Len(m.payload) < Radix => k = Len(m.payload)
    BY PayloadLengths
  <1>2. k \in Nat /\ len \in Uint16 /\ len >= PDU_FIXED_FIELDS_LENGTH
        /\ len - PDU_FIXED_FIELDS_LENGTH = k
    BY <1>1, RadixFacts DEF Uint16, PDU_FIXED_FIELDS_LENGTH, HeaderLength, SAFETY_CODE_LENGTH
  <1>3. type \in Uint16
    <2>1. type \in 0 .. 41
      BY CodecAssumption DEF MessageType, DATA, RETRANSMITTED_DATA
    <2>2. QED
      BY <2>1, RadixFacts DEF Uint16
  <1>4. n[1] \in Uint32 /\ n[2] \in Uint32 /\ n[3] \in Uint32 /\ n[4] \in Uint32 /\ 0 \in Uint32
    BY CodecAssumption, RadixFacts DEF Uint32
  <1>5. p \in Seq(Int) \cup {NULL}
    BY <1>1
  <1>6. CASE m.payload = << >>
    <2>1. p = NULL /\ k = 0
      BY <1>1, <1>2, <1>6
    <2>2. QED
      <3> HIDE DEF p, k
      <3>1. Carried(pdu) = k
        BY <1>2 DEF Carried, Filled, k
      <3>2. QED
        BY <1>2, <1>3, <1>4, <1>5, <2>1, <3>1 DEF Built, Filled, p, k
  <1>7. CASE m.payload # << >>
    <2>1. p = m.payload /\ p # NULL
      BY <1>1, <1>7, CodecAssumption
    <2>2. QED
      <3> HIDE DEF p, k
      <3>1. Carried(pdu) = k
        BY <1>2 DEF Carried, Filled, k
      <3>2. QED
        BY <1>1, <1>2, <1>3, <1>4, <1>5, <2>1, <3>1 DEF Built, Filled, p, k
  <1>8. QED
    BY <1>6, <1>7

LEMMA CodedFilled ==
    ASSUME NEW pdu, Built(pdu), NEW code \in Seq(Int), Len(code) = SAFETY_CODE_LENGTH,
           NEW new, new = [pdu EXCEPT !.safety_code = code]
    PROVE  /\ Coded(new)
           /\ new.message_length = pdu.message_length
           /\ new.message_type = pdu.message_type
           /\ Carried(new) = Carried(pdu)
  <1>1. new \in [message_length : Uint16, message_type : Uint16,
                 receiver_id : Uint32, sender_id : Uint32,
                 sequence_number : Uint32, confirmed_sequence_number : Uint32,
                 timestamp : Uint32, confirmed_timestamp : Uint32,
                 payload : Seq(Int) \cup {NULL},
                 safety_code : Seq(Int) \cup {NULL}]
    BY DEF Built
  <1>2. /\ new.message_length = pdu.message_length
        /\ new.message_type = pdu.message_type
        /\ new.payload = pdu.payload
        /\ new.safety_code = code
    BY DEF Built
  <1>3. Carried(new) = Carried(pdu)
    BY <1>2 DEF Carried
  <1>4. Built(new)
    BY <1>1, <1>2, <1>3 DEF Built
  <1>5. QED
    BY <1>2, <1>3, <1>4 DEF Coded

LEMMA DigestType ==
    ASSUME NEW bytes \in Seq(Int), Len(bytes) >= 16
    PROVE  Digest(bytes) \in Seq(Int) /\ Len(Digest(bytes)) = SAFETY_CODE_LENGTH
  <1>1. Len(bytes) \in Nat /\ 16 \in 1 .. Len(bytes)
    BY LenProperties
  <1>2. bytes[16] \in Int
    BY <1>1, ElementOfSeq
  <1> DEFINE x == (bytes[16] + Len(bytes)) % 2
  <1>3. x \in Int
    BY <1>1, <1>2
  <1>4. Digest(bytes) = [i \in 1 .. 8 |-> x + i]
    BY DEF Digest, SAFETY_CODE_LENGTH
  <1> HIDE DEF x
  <1>5. [i \in 1 .. 8 |-> x + i] \in Seq(Int) /\ Len([i \in 1 .. 8 |-> x + i]) = 8
    BY <1>3
  <1>6. QED
    BY <1>4, <1>5 DEF SAFETY_CODE_LENGTH

\* Only a data message of more than 22 bytes is longer than a buffer.
LEMMA Overruns ==
    ASSUME NEW m \in Messages, NEW reused \in BOOLEAN,
           \/ ScratchLength(m, SafetyCodeBefore(m, reused)) > MAX_PDU_LENGTH
           \/ PDU_FIXED_FIELDS_LENGTH + PayloadLength(m) > MAX_BUFF_SIZE
    PROVE  m.message_type = DATA /\ PayloadLength(m) > MAX_PDU_LENGTH - HeaderLength
  <1> DEFINE k == PayloadLength(m)
             before == SafetyCodeBefore(m, reused)
             extra == IF before = NULL THEN 0 ELSE 8
  <1>1. k \in Nat /\ (m.message_type # DATA => k <= 14)
    BY PayloadLengths, RadixFacts
  <1>2. ScratchLength(m, before) = 28 + k + extra
    BY DEF ScratchLength, HeaderLength, SAFETY_CODE_LENGTH
  <1>3. m.message_type = DATA => before = NULL
    BY DEF SafetyCodeBefore
  <1> HIDE DEF before, k
  <1>4. extra \in {0, 8} /\ (m.message_type = DATA => extra = 0)
    BY <1>3
  <1> HIDE DEF extra
  <1>5. 28 + k + extra > 50 \/ 36 + k > 100
    BY <1>2 DEF MAX_PDU_LENGTH, MAX_BUFF_SIZE, PDU_FIXED_FIELDS_LENGTH, HeaderLength,
                SAFETY_CODE_LENGTH, before, k
  <1>6. m.message_type = DATA /\ k > 22
    BY <1>1, <1>4, <1>5
  <1>7. QED
    BY <1>6 DEF MAX_PDU_LENGTH, HeaderLength, k

LEMMA SendInv ==
    ASSUME Inv, Send
    PROVE  Inv'
  <1>0. PICK m \in Messages, n \in Numbers, reused \in BOOLEAN :
          \E code \in {Digest(Written(Filled(m, n)))} \cup Leftovers :
            /\ sent' = [Filled(m, n) EXCEPT !.safety_code = code]
            /\ overrun' = \/ ScratchLength(m, SafetyCodeBefore(m, reused)) > MAX_PDU_LENGTH
                          \/ Filled(m, n).message_length > MAX_BUFF_SIZE
            /\ buff' = IF overrun' THEN buff
                       ELSE serialize_pdu(sent', buff, Filled(m, n).message_length)
    BY Zenon DEF Send, Filled
  <1> DEFINE pdu == Filled(m, n)
  <1>1. PICK code \in {Digest(Written(pdu))} \cup Leftovers :
            /\ sent' = [pdu EXCEPT !.safety_code = code]
            /\ overrun' = \/ ScratchLength(m, SafetyCodeBefore(m, reused)) > MAX_PDU_LENGTH
                          \/ pdu.message_length > MAX_BUFF_SIZE
            /\ buff' = IF overrun' THEN buff
                       ELSE serialize_pdu(sent', buff, pdu.message_length)
    BY <1>0, Zenon
  <1>2. /\ Built(pdu) /\ pdu.safety_code = NULL
        /\ Carried(pdu) = PayloadLength(m)
        /\ pdu.message_type = m.message_type
        /\ pdu.message_length = PDU_FIXED_FIELDS_LENGTH + PayloadLength(m)
    BY FilledBuilt
  <1>3. size' = 0 /\ got' = NULL
    BY DEF Send
  <1> HIDE DEF pdu
  <1>4. code \in Seq(Int) /\ Len(code) = SAFETY_CODE_LENGTH
    <2>1. CASE code \in Leftovers
      <3>1. code \in Seq(Byte) /\ Len(code) = SAFETY_CODE_LENGTH
        BY <2>1, CodecAssumption
      <3>2. Byte \subseteq Int
        BY RadixFacts DEF Byte
      <3>3. QED
        BY <3>1, <3>2, SeqMonotonic
    <2>2. CASE code = Digest(Written(pdu))
      <3>1. /\ Written(pdu) \in Seq(Int)
            /\ Len(Written(pdu)) = pdu.message_length - SAFETY_CODE_LENGTH
        BY <1>2, UncodedWritten
      <3>2. pdu.message_length \in Nat /\ pdu.message_length >= PDU_FIXED_FIELDS_LENGTH
        BY <1>2, LengthOfFrame DEF Built
      <3>3. Len(Written(pdu)) >= 16
        BY <3>1, <3>2 DEF PDU_FIXED_FIELDS_LENGTH, HeaderLength, SAFETY_CODE_LENGTH
      <3>4. QED
        BY <2>2, <3>1, <3>3, DigestType
    <2>3. QED
      BY <1>1, <2>1, <2>2
  <1>5. /\ Coded(sent')
        /\ sent'.message_length = pdu.message_length
        /\ sent'.message_type = pdu.message_type
        /\ Carried(sent') = Carried(pdu)
    BY <1>1, <1>2, <1>4, CodedFilled, Zenon
  <1>6. sent' # NULL => Coded(sent')
    BY <1>5
  <1>7. CASE overrun'
    <2>1. m.message_type = DATA /\ PayloadLength(m) > MAX_PDU_LENGTH - HeaderLength
      BY <1>1, <1>2, <1>7, Overruns
    <2>2. FitsBuffers'
      BY <1>2, <1>5, <2>1 DEF FitsBuffers, Carried
    <2>3. buff' = buff
      BY <1>1, <1>7
    <2>4. QED
      BY <1>3, <1>6, <1>7, <2>2, <2>3 DEF Inv
  <1>8. CASE ~overrun'
    <2>1. pdu.message_length <= MAX_BUFF_SIZE
      <3>1. pdu.message_length \in Nat
        BY <1>2, LengthOfFrame
      <3>2. ~(pdu.message_length > MAX_BUFF_SIZE)
        BY <1>1, <1>8
      <3>3. QED
        BY <3>1, <3>2 DEF MAX_BUFF_SIZE
    <2>2. buff' = serialize_pdu(sent', buff, sent'.message_length)
      BY <1>1, <1>5, <1>8, Zenon
    <2>3. buff \in Seq(Int) /\ Len(buff) = MAX_BUFF_SIZE
      BY DEF Inv
    <2>4. sent'.message_length <= MAX_BUFF_SIZE
      BY <1>5, <2>1
    <2>5. buff' \in Seq(Int) /\ Len(buff') = MAX_BUFF_SIZE /\ FrameIn(buff', sent')
      BY <1>5, <2>2, <2>3, <2>4, Serialized, Zenon
    <2>6. FitsBuffers'
      BY <1>8 DEF FitsBuffers
    <2>7. QED
      BY <1>3, <1>6, <1>8, <2>4, <2>5, <2>6 DEF Inv
  <1>9. QED
    BY <1>7, <1>8

LEMMA BehindLength ==
    ASSUME NEW s \in Seq(Int), Len(s) >= 3
    PROVE  SubSeq(s, 3, Len(s)) \in Seq(Int) /\ Len(SubSeq(s, 3, Len(s))) = Len(s) - 2
  OBVIOUS

LEMMA DamageInv ==
    ASSUME Inv, Damage
    PROVE  Inv'
  <1>1. PICK n \in Lengths : buff' = write_uint16(n) \o SubSeq(buff, 3, Len(buff))
    BY DEF Damage
  <1> DEFINE w == write_uint16(n)
             rest == SubSeq(buff, 3, Len(buff))
  <1>2. n \in Nat
    BY CodecAssumption, RadixFacts
  <1>3. w \in Seq(Int) /\ Len(w) = 2
    BY <1>2, Writes16
  <1>4. rest \in Seq(Int) /\ Len(rest) = 98
    <2>1. buff \in Seq(Int) /\ Len(buff) = 100
      BY DEF Inv, MAX_BUFF_SIZE
    <2>2. Len(buff) >= 3 /\ Len(buff) - 2 = 98
      BY <2>1
    <2>3. rest \in Seq(Int) /\ Len(rest) = Len(buff) - 2
      BY <2>1, <2>2, BehindLength, Zenon
    <2>4. QED
      BY <2>2, <2>3, Zenon
  <1>5. buff' = w \o rest
    BY <1>1
  <1> HIDE DEF w, rest
  <1>6. Joined(buff', w, Len(w), rest, Len(rest))
    <2>1. Joined(w \o rest, w, Len(w), rest, Len(rest))
      BY <1>3, <1>4, Join
    <2>2. QED
      BY <1>5, <2>1, Zenon
  <1>7. buff' \in Seq(Int) /\ Len(buff') = MAX_BUFF_SIZE
    BY <1>3, <1>4, <1>6 DEF Joined, MAX_BUFF_SIZE
  <1>8. /\ ~intact' /\ got' = NULL
        /\ UNCHANGED <<overrun, sent, size>>
    BY DEF Damage
  <1>9. FitsBuffers'
    BY <1>8 DEF Inv, FitsBuffers, Carried
  <1>10. QED
    BY <1>7, <1>8, <1>9 DEF Inv

LEMMA ReceiveInv ==
    ASSUME Inv, Receive
    PROVE  Inv'
  <1>1. /\ size' \in Nat /\ got' = deserialize_pdu(buff, size')
        /\ sent # NULL /\ ~overrun
        /\ UNCHANGED <<buff, overrun, sent, intact>>
    <2>1. sent.message_length \in Nat
      BY LengthOfFrame DEF Inv, Coded, Receive
    <2>2. QED
      BY <2>1 DEF Receive
  <1>2. FitsBuffers'
    BY <1>1 DEF FitsBuffers
  <1>3. QED
    BY <1>1, <1>2 DEF Inv

LEMMA NextInv == Inv /\ [Next]_vars => Inv'
  <1> SUFFICES ASSUME Inv, [Next]_vars PROVE Inv'
    OBVIOUS
  <1>1. CASE UNCHANGED vars
    BY <1>1 DEF vars, Inv, FitsBuffers
  <1>2. QED
    BY <1>1, SendInv, DamageInv, ReceiveInv DEF Next

THEOREM Invariance == Spec => []Inv
  BY InitInv, NextInv, PTL DEF Spec

(***************************************************************************)
(* No builder but that of a data message writes beyond a buffer, whatever  *)
(* messages the application sends: serialize_pdu, called with the length   *)
(* of the PDU for the size of the buffer, never refuses.                   *)
(***************************************************************************)
THEOREM OnlyLongDataOverruns == Spec => []FitsBuffers
  <1>1. Inv => FitsBuffers
    BY DEF Inv
  <1>2. QED
    BY <1>1, Invariance, PTL

(***************************************************************************)
(* However little arrives and however much the length field promises,      *)
(* deserialize_pdu sets no pointer behind what arrived: it only does when  *)
(* the field promises less than the fixed fields.                          *)
(***************************************************************************)
THEOREM NothingReadBeyond == Spec => []ReadsArrived
  BY InvReadsArrived, Invariance, PTL

(***************************************************************************)
(* deserialize_pdu undoes serialize_pdu, in a buffer that holds the rest   *)
(* of earlier frames, for every frame the builders make.                   *)
(***************************************************************************)
THEOREM FramesReadAsWritten == Spec => []RoundTrip
  BY InvRoundTrip, Invariance, PTL
=============================================================================
