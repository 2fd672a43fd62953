----------------------------- MODULE Md4Proofs ------------------------------
(***************************************************************************)
(* Proofs about Md4, for every block size, every range of lo and every     *)
(* length: NothingLost and DigestOfMessage.  There is no induction over    *)
(* the message: what is inductive is the position in the stream.           *)
(***************************************************************************)
EXTENDS Md4, SequenceTheorems, TLAPS

Block == [1 .. BlockSize -> Int]

MD4_CTX ==
    [abcd : Seq(Block), lo : 0 .. LoCount - 1, hi : Nat, buffer : Block]

(***************************************************************************)
(* The blocks are the first q * BlockSize cells of c.                      *)
(***************************************************************************)
Spells(blocks, q, c) ==
    /\ blocks \in Seq(Block)
    /\ Len(blocks) = q
    /\ \A i \in 1 .. q, j \in 1 .. BlockSize :
         blocks[i][j] = c[(i - 1) * BlockSize + j]

\* A message of any length, by position.
Message == [p \in Nat |-> p]

(***************************************************************************)
(* The context after n bytes: the whole blocks have been processed, the    *)
(* rest is in the buffer, and lo and hi count the bytes.                   *)
(***************************************************************************)
After(ctxt, n) ==
    /\ ctxt \in MD4_CTX
    /\ ctxt.lo = n % LoCount
    /\ ctxt.hi = n \div LoCount
    /\ Spells(ctxt.abcd, n \div BlockSize, Message)
    /\ \A j \in 1 .. n % BlockSize : ctxt.buffer[j] = Whole(n) + j
-----------------------------------------------------------------------------
(***************************************************************************)
(* Division by the block size.                                             *)
(***************************************************************************)
LEMMA Divide ==
    ASSUME NEW n \in Nat
    PROVE  /\ n \div BlockSize \in Nat
           /\ n % BlockSize \in 0 .. BlockSize - 1
           /\ Whole(n) \in Nat
           /\ n = Whole(n) + (n % BlockSize)
           /\ Whole(n) = (n \div BlockSize) * BlockSize
  BY Md4Assumption DEF Whole

LEMMA Quotient ==
    ASSUME NEW q \in Nat, NEW r \in 0 .. BlockSize - 1
    PROVE  /\ (q * BlockSize + r) \div BlockSize = q
           /\ (q * BlockSize + r) % BlockSize = r
           /\ Whole(q * BlockSize + r) = q * BlockSize
  BY Md4Assumption DEF Whole

LEMMA Distribute ==
    ASSUME NEW x \in Nat, NEW k \in Nat, NEW y \in Nat, NEW r \in Nat, NEW b \in Nat
    PROVE  x * (k * b) + (y * b + r) = (x * k + y) * b + r
  OBVIOUS

\* lo starts again at 0, but always between two blocks.
LEMMA LoInBlock ==
    ASSUME NEW n \in Nat
    PROVE  (n % LoCount) % BlockSize = n % BlockSize
  <1> DEFINE k == LoCount \div BlockSize
             m == n % LoCount
             x == n \div LoCount
  <1>1. LoCount = k * BlockSize /\ k \in Nat
    BY Md4Assumption
  <1>2. n = x * LoCount + m /\ x \in Nat /\ m \in Nat
    BY Md4Assumption
  <1> HIDE DEF k, m, x
  <1>3. m = (m \div BlockSize) * BlockSize + (m % BlockSize) /\ m \div BlockSize \in Nat
        /\ m % BlockSize \in 0 .. BlockSize - 1
    BY <1>2, Divide
  <1> DEFINE y == m \div BlockSize
             r == m % BlockSize
             q == x * k + y
  <1>4. q \in Nat
    BY <1>1, <1>2, <1>3
  <1>5. n = q * BlockSize + r
    <2>1. n = x * (k * BlockSize) + (y * BlockSize + r)
      BY <1>1, <1>2, <1>3
    <2>2. y \in Nat /\ r \in Nat /\ BlockSize \in Nat
      BY <1>3, Md4Assumption
    <2> HIDE DEF y, r
    <2>3. QED
      BY <1>1, <1>2, <2>1, <2>2, Distribute
  <1> HIDE DEF q, y
  <1>6. n % BlockSize = r
    BY <1>3, <1>4, <1>5, Quotient
  <1>7. QED
    BY <1>6 DEF m, r

LEMMA SubBytes ==
    ASSUME NEW from \in Nat, NEW to \in Nat, from <= to,
           NEW i \in 1 .. to - from + 1, NEW j \in i - 1 .. to - from
    PROVE  SubSeq(Bytes(from, to), i, j) = Bytes(from + i - 1, from + j)
  BY DEF Bytes

\* A part of the message: n bytes, after the first from.
Part(data, from, n) ==
    /\ data \in Seq(Int)
    /\ Len(data) = n
    /\ \A i \in 1 .. n : data[i] = from + i

LEMMA BytesType ==
    ASSUME NEW from \in Nat, NEW n \in Nat, NEW to, to = from + n
    PROVE  Part(Bytes(from, to), from, n)
  BY DEF Bytes, Part

\* new is ctxt with n cells of data in its buffer.
Copied(new, ctxt, offset, n, data) ==
    /\ new \in MD4_CTX
    /\ new.abcd = ctxt.abcd /\ new.lo = ctxt.lo /\ new.hi = ctxt.hi
    /\ \A i \in 1 .. BlockSize :
         new.buffer[i] = IF i \in offset + 1 .. offset + n THEN data[i - offset]
                         ELSE ctxt.buffer[i]

LEMMA Memcpy ==
    ASSUME NEW ctxt \in MD4_CTX, NEW offset \in 0 .. BlockSize, NEW data \in Seq(Int)
    PROVE  Copied(memcpy(ctxt, offset, data), ctxt, offset, Len(data), data)
  <1> DEFINE b == [i \in 1 .. BlockSize |->
                    IF i \in offset + 1 .. offset + Len(data) THEN data[i - offset]
                    ELSE ctxt.buffer[i]]
  <1>1. ctxt.buffer \in Block /\ Len(data) \in Nat /\ offset \in Nat
    BY Md4Assumption, LenProperties DEF MD4_CTX
  <1>2. \A i \in offset + 1 .. offset + Len(data) : data[i - offset] \in Int
    BY <1>1, LenProperties, ElementOfSeq
  <1>3. b \in Block
    BY <1>1, <1>2 DEF Block
  <1>4. memcpy(ctxt, offset, data) = [ctxt EXCEPT !.buffer = b]
    BY DEF memcpy
  <1>5. \A i \in 1 .. BlockSize :
          b[i] = IF i \in offset + 1 .. offset + Len(data) THEN data[i - offset]
                 ELSE ctxt.buffer[i]
    OBVIOUS
  <1> HIDE DEF b
  <1> DEFINE new == memcpy(ctxt, offset, data)
  <1>6. /\ new \in MD4_CTX /\ new.buffer = b
        /\ new.abcd = ctxt.abcd /\ new.lo = ctxt.lo /\ new.hi = ctxt.hi
    BY <1>3, <1>4 DEF MD4_CTX
  <1> HIDE DEF new
  <1>7. Copied(new, ctxt, offset, Len(data), data)
    BY <1>5, <1>6 DEF Copied
  <1>8. QED
    BY <1>7 DEF new

LEMMA BlockBounds ==
    ASSUME NEW p \in Nat, NEW i \in 1 .. p, NEW q \in Nat
    PROVE  /\ (i - 1) * BlockSize \in Nat /\ q * BlockSize \in Nat
           /\ (i - 1) * BlockSize + BlockSize = i * BlockSize
           /\ i * BlockSize <= p * BlockSize
           /\ (q + i - 1) * BlockSize = q * BlockSize + (i - 1) * BlockSize
  BY Md4Assumption

LEMMA Slice ==
    ASSUME NEW data \in Seq(Int), NEW lo \in Nat, NEW n \in Nat,
           lo + n <= Len(data)
    PROVE  /\ SubSeq(data, lo + 1, lo + n) \in Seq(Int)
           /\ Len(SubSeq(data, lo + 1, lo + n)) = n
           /\ \A j \in 1 .. n : SubSeq(data, lo + 1, lo + n)[j] = data[lo + j]
  <1> DEFINE m == lo + 1
             k == lo + n
             s == SubSeq(data, m, k)
  <1>1. \A j \in m .. k : data[j] \in Int
    BY ElementOfSeq, LenProperties
  <1>2. m \in Int /\ k \in Int /\ k - m + 1 = n /\ (m <= k <=> n >= 1)
    OBVIOUS
  <1>3. \A j \in 1 .. n : m + j - 1 = lo + j
    OBVIOUS
  <1> HIDE DEF m, k
  <1>4. /\ s \in Seq(Int)
        /\ Len(s) = IF m <= k THEN k - m + 1 ELSE 0
        /\ \A j \in 1 .. k - m + 1 : s[j] = data[m + j - 1]
    BY <1>1, <1>2, SubSeqProperties
  <1> HIDE DEF s
  <1>5. Len(s) = n
    BY <1>2, <1>4
  <1>6. \A j \in 1 .. n : s[j] = data[lo + j]
    <2>1. \A j \in 1 .. n : s[j] = data[m + j - 1]
      BY <1>2, <1>4, Zenon
    <2>2. QED
      BY <1>3, <2>1, Zenon
  <1>7. QED
    BY <1>4, <1>5, <1>6, Zenon DEF s, m, k

\* The data is p blocks of c, from position q * BlockSize on.
Continues(data, q, p, c) ==
    /\ data \in Seq(Int)
    /\ Len(data) = p * BlockSize
    /\ \A x \in 1 .. p * BlockSize : data[x] = c[q * BlockSize + x]

LEMMA Body ==
    ASSUME NEW ctxt \in MD4_CTX, NEW q \in Nat, NEW c, Spells(ctxt.abcd, q, c),
           NEW p \in Nat, NEW data, Continues(data, q, p, c)
    PROVE  /\ body(ctxt, data) \in MD4_CTX
           /\ body(ctxt, data).lo = ctxt.lo
           /\ body(ctxt, data).hi = ctxt.hi
           /\ body(ctxt, data).buffer = ctxt.buffer
           /\ Spells(body(ctxt, data).abcd, q + p, c)
  <1> DEFINE piece(i) == SubSeq(data, (i - 1) * BlockSize + 1, i * BlockSize)
             pieces == [i \in 1 .. p |-> piece(i)]
             new == ctxt.abcd \o pieces
  <1>1. BlockSize \in Nat /\ BlockSize >= 3
    BY Md4Assumption
  <1>2. Len(data) \div BlockSize = p
    <2>1. 0 \in 0 .. BlockSize - 1 /\ p * BlockSize + 0 = p * BlockSize
      BY <1>1
    <2>2. Len(data) = p * BlockSize
      BY DEF Continues
    <2>3. QED
      BY <2>1, <2>2, Quotient
  <1>3. body(ctxt, data) = [ctxt EXCEPT !.abcd = new]
    BY <1>2 DEF body
  <1>4. ASSUME NEW i \in 1 .. p
        PROVE  /\ piece(i) \in Block
               /\ \A j \in 1 .. BlockSize :
                    piece(i)[j] = c[(q + i - 1) * BlockSize + j]
    <2> DEFINE lo == (i - 1) * BlockSize
    <2>1. /\ lo \in Nat /\ q * BlockSize \in Nat
          /\ lo + BlockSize = i * BlockSize /\ i * BlockSize <= p * BlockSize
          /\ (q + i - 1) * BlockSize = q * BlockSize + lo
      BY BlockBounds
    <2> HIDE DEF lo
    <2>4. piece(i) = SubSeq(data, lo + 1, lo + BlockSize)
      BY <2>1 DEF lo
    <2> HIDE DEF piece
    <2>5. lo + BlockSize <= Len(data)
      BY <2>1 DEF Continues
    <2>6. /\ piece(i) \in Seq(Int)
          /\ Len(piece(i)) = BlockSize
          /\ \A j \in 1 .. BlockSize : piece(i)[j] = data[lo + j]
      <3>1. data \in Seq(Int)
        BY DEF Continues
      <3>2. lo \in Nat
        BY <2>1
      <3>3. QED
        BY <1>1, <2>4, <2>5, <3>1, <3>2, Slice
    <2>7. piece(i) \in Block
      BY <2>6, LenProperties DEF Block
    <2>8. \A j \in 1 .. BlockSize : lo + j \in 1 .. p * BlockSize
      BY <1>1, <2>1
    <2>9. \A j \in 1 .. BlockSize : q * BlockSize + (lo + j) = (q + i - 1) * BlockSize + j
      BY <1>1, <2>1
    <2>10. \A j \in 1 .. BlockSize : data[lo + j] = c[q * BlockSize + (lo + j)]
      BY <2>8 DEF Continues
    <2>11. QED
      BY <2>6, <2>7, <2>9, <2>10
  <1> HIDE DEF piece
  <1>5. pieces \in Seq(Block) /\ Len(pieces) = p
        /\ \A i \in 1 .. p : pieces[i] = piece(i)
    BY <1>4
  <1> HIDE DEF pieces
  <1>6. /\ new \in Seq(Block)
        /\ Len(new) = q + p
        /\ \A i \in 1 .. q + p :
             new[i] = IF i <= q THEN ctxt.abcd[i] ELSE pieces[i - q]
    <2>1. ctxt.abcd \in Seq(Block) /\ Len(ctxt.abcd) = q
      BY DEF Spells
    <2>2. QED
      BY <1>5, <2>1, ConcatProperties
  <1> HIDE DEF new
  <1>7. ASSUME NEW i \in 1 .. q + p, NEW j \in 1 .. BlockSize
        PROVE  new[i][j] = c[(i - 1) * BlockSize + j]
    <2>1. CASE i <= q
      <3>1. new[i] = ctxt.abcd[i] /\ i \in 1 .. q
        BY <1>6, <2>1
      <3>2. QED
        BY <3>1 DEF Spells
    <2>2. CASE i > q
      <3>1. i - q \in 1 .. p /\ q + (i - q) - 1 = i - 1
        BY <2>2
      <3>2. new[i] = piece(i - q)
        BY <1>5, <1>6, <2>2, <3>1
      <3>3. QED
        BY <1>4, <3>1, <3>2
    <2>3. QED
      BY <2>1, <2>2
  <1>8. Spells(new, q + p, c)
    BY <1>6, <1>7 DEF Spells
  <1>9. /\ body(ctxt, data) \in MD4_CTX /\ body(ctxt, data).abcd = new
        /\ body(ctxt, data).lo = ctxt.lo /\ body(ctxt, data).hi = ctxt.hi
        /\ body(ctxt, data).buffer = ctxt.buffer
    BY <1>3, <1>6 DEF MD4_CTX
  <1>10. QED
    BY <1>8, <1>9
-----------------------------------------------------------------------------
(***************************************************************************)
(* lo and hi count the bytes, whenever lo starts again.                    *)
(***************************************************************************)
LEMMA DivMod ==
    ASSUME NEW b \in Nat, b > 0, NEW q \in Nat, NEW r \in 0 .. b - 1
    PROVE  (q * b + r) \div b = q /\ (q * b + r) % b = r
  OBVIOUS

LEMMA DivModOf ==
    ASSUME NEW b \in Nat, b > 0, NEW n \in Nat
    PROVE  /\ n = (n \div b) * b + (n % b)
           /\ n \div b \in Nat /\ n % b \in 0 .. b - 1
  OBVIOUS

LEMMA Regroup ==
    ASSUME NEW x \in Nat, NEW u \in Nat, NEW b \in Nat, NEW a \in Nat, NEW v \in Nat
    PROVE  /\ (x * b + a) + (u * b + v) = (x + u) * b + (a + v)
           /\ (x * b + a) + (u * b + v) = (x + u + 1) * b + (a + v - b)
           /\ a + (u * b + v) = u * b + (a + v)
           /\ a + (u * b + v) = (u + 1) * b + (a + v - b)
  OBVIOUS

LEMMA CountedLength ==
    ASSUME NEW n \in Nat, NEW size \in Nat, NEW ctxt \in MD4_CTX,
           ctxt.lo = n % LoCount, ctxt.hi = n \div LoCount
    PROVE  /\ Counted(ctxt, size) \in MD4_CTX
           /\ Counted(ctxt, size).lo = (n + size) % LoCount
           /\ Counted(ctxt, size).hi = (n + size) \div LoCount
           /\ Counted(ctxt, size).abcd = ctxt.abcd
           /\ Counted(ctxt, size).buffer = ctxt.buffer
  <1> DEFINE b == LoCount
             x == n \div b      a == n % b
             u == size \div b   v == size % b
             lo == (a + size) % b
             hi == x + (IF lo < a THEN 1 ELSE 0) + u
  <1>1. b \in Nat /\ b > 0
    BY Md4Assumption
  <1>2. Counted(ctxt, size) = [ctxt EXCEPT !.lo = lo, !.hi = hi]
    BY DEF Counted
  <1> HIDE DEF b
  <1>3. /\ n = x * b + a /\ x \in Nat /\ a \in 0 .. b - 1
        /\ size = u * b + v /\ u \in Nat /\ v \in 0 .. b - 1
    BY <1>1, DivModOf
  <1> HIDE DEF x, a, u, v
  <1>4. /\ n + size = (x + u) * b + (a + v)
        /\ n + size = (x + u + 1) * b + (a + v - b)
        /\ a + size = u * b + (a + v)
        /\ a + size = (u + 1) * b + (a + v - b)
    BY <1>1, <1>3, Regroup
  <1>5. lo = (n + size) % b /\ hi = (n + size) \div b
    <2>1. CASE a + v < b
      <3>1. a + v \in 0 .. b - 1 /\ x + u \in Nat
        BY <1>1, <1>3, <2>1
      <3>2. (n + size) \div b = x + u /\ (n + size) % b = a + v /\ lo = a + v
        BY <1>1, <1>3, <1>4, <3>1, DivMod
      <3> HIDE DEF lo
      <3>3. QED
        BY <1>1, <1>3, <3>2
    <2>2. CASE a + v >= b
      <3> DEFINE r == a + v - b
                 q == x + u + 1
                 w == u + 1
      <3>1. r \in 0 .. b - 1 /\ q \in Nat /\ w \in Nat /\ r < a
        BY <1>1, <1>3, <2>2
      <3>2. n + size = q * b + r /\ a + size = w * b + r
        BY <1>4
      <3>3. hi = IF lo < a THEN q ELSE x + u
        BY <1>3
      <3> HIDE DEF r, q, w, hi
      <3>4. (n + size) \div b = q /\ (n + size) % b = r /\ lo = r
        BY <1>1, <3>1, <3>2, DivMod
      <3>5. QED
        BY <3>1, <3>3, <3>4
    <2>3. QED
      BY <1>1, <1>3, <2>1, <2>2
  <1>6. n + size \in Nat
    OBVIOUS
  <1>7. lo \in 0 .. b - 1 /\ hi \in Nat
    BY <1>1, <1>5, <1>6, DivModOf
  <1> HIDE DEF lo, hi
  <1>8. QED
    BY <1>2, <1>5, <1>7 DEF MD4_CTX, b
-----------------------------------------------------------------------------
(***************************************************************************)
(* MD4_Update.                                                             *)
(***************************************************************************)
FitsBuffer(n, size) == (n % BlockSize) + size < BlockSize

LEMMA UpdateBuffered ==
    ASSUME NEW n \in Nat, NEW size \in Nat, NEW ctxt, After(ctxt, n),
           FitsBuffer(n, size), NEW to, to = n + size
    PROVE  After(memcpy(Counted(ctxt, size), n % BlockSize, Bytes(n, to)), to)
  <1> DEFINE q == n \div BlockSize
             used == n % BlockSize
             w == Whole(n)
             data == Bytes(n, to)
             counted == Counted(ctxt, size)
             new == memcpy(counted, used, data)
  <1>1. /\ q \in Nat /\ used \in 0 .. BlockSize - 1 /\ w \in Nat
        /\ n = w + used /\ w = q * BlockSize
    BY Divide
  <1>2. BlockSize \in Nat
    BY Md4Assumption
  <1>3. Part(data, n, size)
    BY BytesType
  <1>4. /\ counted \in MD4_CTX
        /\ counted.lo = to % LoCount /\ counted.hi = to \div LoCount
        /\ counted.abcd = ctxt.abcd /\ counted.buffer = ctxt.buffer
    BY CountedLength DEF After
  <1>5. used + size < BlockSize
    BY DEF FitsBuffer
  <1>6. /\ Spells(ctxt.abcd, q, Message)
        /\ \A j \in 1 .. used : ctxt.buffer[j] = w + j
    BY DEF After
  <1> HIDE DEF data, counted, w, q, used
  <1>7. Copied(new, counted, used, size, data)
    <2>1. used \in 0 .. BlockSize
      BY <1>1, <1>2
    <2>2. data \in Seq(Int) /\ Len(data) = size
      BY <1>3 DEF Part
    <2>3. QED
      BY <1>4, <2>1, <2>2, Memcpy
  <1> HIDE DEF new
  <1>8. /\ to \div BlockSize = q
        /\ to % BlockSize = used + size
        /\ Whole(to) = w
    <2> DEFINE r == used + size
    <2>1. r \in 0 .. BlockSize - 1 /\ to = q * BlockSize + r
      BY <1>1, <1>2, <1>5
    <2> HIDE DEF r
    <2>2. QED
      BY <1>1, <2>1, Quotient DEF r
  <1>9. ASSUME NEW j \in 1 .. used + size PROVE new.buffer[j] = w + j
    <2>1. j \in 1 .. BlockSize
      BY <1>1, <1>2, <1>5
    <2>2. CASE j <= used
      <3>1. new.buffer[j] = counted.buffer[j]
        BY <1>1, <1>7, <2>1, <2>2 DEF Copied
      <3>2. QED
        BY <1>1, <1>4, <1>6, <2>2, <3>1
    <2>3. CASE j > used
      <3>1. j - used \in 1 .. size /\ n + (j - used) = w + j
        BY <1>1, <2>3
      <3>2. new.buffer[j] = data[j - used]
        BY <1>1, <1>7, <2>1, <2>3 DEF Copied
      <3>3. QED
        BY <1>3, <3>1, <3>2 DEF Part
    <2>4. QED
      BY <1>1, <2>2, <2>3
  <1>10. After(new, to)
    BY <1>4, <1>6, <1>7, <1>8, <1>9 DEF After, Copied
  <1>11. QED
    BY <1>10 DEF new, counted, used, data

(***************************************************************************)
(* From the end of a block: whole blocks, and what is left.                *)
(***************************************************************************)
Started(started, q, m, to) ==
    /\ started \in MD4_CTX
    /\ m = q * BlockSize
    /\ Spells(started.abcd, q, Message)
    /\ started.lo = to % LoCount
    /\ started.hi = to \div LoCount

LEMMA UpdateBlocks ==
    ASSUME NEW started, NEW q \in Nat, NEW t \in Nat, NEW m \in Nat,
           NEW to, to = m + t, Started(started, q, m, to)
    PROVE  After(memcpy(body(started, Bytes(m, m + Whole(t))), 0,
                        Bytes(m + Whole(t), to)), to)
  <1> DEFINE p == t \div BlockSize
             r == t % BlockSize
             w == Whole(t)
             bodied == body(started, Bytes(m, m + w))
             rest == Bytes(m + w, to)
             new == memcpy(bodied, 0, rest)
  <1>1. /\ p \in Nat /\ r \in 0 .. BlockSize - 1 /\ w \in Nat
        /\ t = w + r /\ w = p * BlockSize
    BY Divide
  <1>2. BlockSize \in Nat /\ BlockSize > 0
    BY Md4Assumption
  <1>3. m = q * BlockSize /\ started \in MD4_CTX
    BY DEF Started
  <1> HIDE DEF p, r, w
  <1>4. Continues(Bytes(m, m + w), q, p, Message)
    <2>1. Part(Bytes(m, m + w), m, w)
      BY <1>1, BytesType
    <2>2. \A i \in 1 .. w : Message[m + i] = m + i
      BY <1>1 DEF Message
    <2>3. QED
      BY <1>1, <1>3, <2>1, <2>2 DEF Continues, Part
  <1>5. /\ bodied \in MD4_CTX
        /\ bodied.lo = started.lo /\ bodied.hi = started.hi
        /\ Spells(bodied.abcd, q + p, Message)
    BY <1>1, <1>3, <1>4, Body DEF Started
  <1>6. Part(rest, m + w, r)
    <2>1. m + w \in Nat /\ r \in Nat /\ to = m + w + r
      BY <1>1
    <2>2. QED
      BY <2>1, BytesType
  <1> HIDE DEF bodied, rest
  <1>7. Copied(new, bodied, 0, r, rest)
    <2>1. rest \in Seq(Int) /\ Len(rest) = r
      BY <1>6 DEF Part
    <2>2. 0 \in 0 .. BlockSize
      BY <1>2
    <2>3. QED
      BY <1>5, <2>1, <2>2, Memcpy
  <1> HIDE DEF new
  <1>8. ASSUME NEW j \in 1 .. r PROVE new.buffer[j] = m + w + j
    <2>1. j \in 1 .. BlockSize /\ j \in 0 + 1 .. 0 + r /\ j - 0 = j
      BY <1>1, <1>2
    <2>2. new.buffer[j] = rest[j]
      BY <1>7, <2>1 DEF Copied
    <2>3. QED
      BY <1>6, <2>2 DEF Part
  <1>9. /\ to \div BlockSize = q + p
        /\ to % BlockSize = r
        /\ Whole(to) = m + w
    <2> DEFINE k == q + p
    <2>1. k \in Nat /\ k * BlockSize = m + w
      BY <1>1, <1>2, <1>3
    <2>2. to = k * BlockSize + r
      BY <1>1, <2>1
    <2> HIDE DEF k
    <2>3. QED
      BY <1>1, <2>1, <2>2, Quotient DEF k
  <1>10. After(new, to)
    BY <1>5, <1>7, <1>8, <1>9 DEF After, Copied, Started
  <1>11. QED
    BY <1>10 DEF new, bodied, rest, w

\* The block in the buffer is completed and processed.
LEMMA UpdateFills ==
    ASSUME NEW n \in Nat, NEW to \in Nat, NEW counted \in MD4_CTX,
           Spells(counted.abcd, n \div BlockSize, Message),
           \A j \in 1 .. n % BlockSize : counted.buffer[j] = Whole(n) + j,
           NEW taken \in Nat, taken = BlockSize - (n % BlockSize),
           NEW data, Part(data, n, taken),
           counted.lo = to % LoCount, counted.hi = to \div LoCount
    PROVE  LET filled == memcpy(counted, n % BlockSize, data)
           IN  Started(body(filled, filled.buffer), (n \div BlockSize) + 1,
                       n + taken, to)
  <1> DEFINE q == n \div BlockSize
             used == n % BlockSize
             w == Whole(n)
             filled == memcpy(counted, used, data)
             bodied == body(filled, filled.buffer)
  <1>1. /\ q \in Nat /\ used \in 0 .. BlockSize - 1 /\ w \in Nat
        /\ n = w + used /\ w = q * BlockSize
    BY Divide
  <1>2. BlockSize \in Nat /\ BlockSize > 0
    BY Md4Assumption
  <1>3. /\ Spells(counted.abcd, q, Message)
        /\ \A j \in 1 .. used : counted.buffer[j] = w + j
        /\ taken = BlockSize - used
    OBVIOUS
  <1> HIDE DEF q, used, w
  <1>4. Copied(filled, counted, used, taken, data)
    <2>1. used \in 0 .. BlockSize
      BY <1>1, <1>2
    <2>2. data \in Seq(Int) /\ Len(data) = taken
      BY DEF Part
    <2>3. QED
      BY <2>1, <2>2, Memcpy
  <1> HIDE DEF filled
  <1>5. ASSUME NEW j \in 1 .. BlockSize PROVE filled.buffer[j] = w + j
    <2>1. CASE j <= used
      <3>1. filled.buffer[j] = counted.buffer[j]
        BY <1>1, <1>4, <2>1 DEF Copied
      <3>2. QED
        BY <1>1, <1>3, <2>1, <3>1
    <2>2. CASE j > used
      <3>1. j - used \in 1 .. taken /\ n + (j - used) = w + j /\ used + taken = BlockSize
        BY <1>1, <1>2, <1>3, <2>2
      <3>2. filled.buffer[j] = data[j - used]
        BY <1>1, <1>4, <2>2, <3>1 DEF Copied
      <3>3. QED
        BY <3>1, <3>2 DEF Part
    <2>3. QED
      BY <1>1, <2>1, <2>2
  <1>6. filled.buffer \in Block /\ filled \in MD4_CTX
    BY <1>4 DEF Copied, MD4_CTX
  <1>7. filled.buffer \in Seq(Int) /\ Len(filled.buffer) = BlockSize
    BY <1>2, <1>6 DEF Block
  <1>8. Continues(filled.buffer, q, 1, Message)
    <2>1. 1 * BlockSize = BlockSize /\ q * BlockSize = w
      BY <1>1, <1>2
    <2>2. \A x \in 1 .. BlockSize : Message[w + x] = w + x
      BY <1>1, <1>2 DEF Message
    <2>3. QED
      BY <1>5, <1>7, <2>1, <2>2 DEF Continues
  <1>9. /\ bodied \in MD4_CTX
        /\ bodied.lo = filled.lo /\ bodied.hi = filled.hi
        /\ Spells(bodied.abcd, q + 1, Message)
    <2>1. Spells(filled.abcd, q, Message)
      BY <1>3, <1>4 DEF Copied
    <2>2. QED
      BY <1>1, <1>6, <1>8, <2>1, Body
  <1> HIDE DEF bodied
  <1>10. n + taken = (q + 1) * BlockSize
    BY <1>1, <1>2, <1>3
  <1>11. Started(bodied, q + 1, n + taken, to)
    BY <1>4, <1>9, <1>10 DEF Started, Copied
  <1>12. QED
    BY <1>11 DEF bodied, filled, used, q

(***************************************************************************)
(* Whatever the size of an update, the context is then as after that many  *)
(* more bytes.                                                             *)
(***************************************************************************)
LEMMA UpdateAdvances ==
    ASSUME NEW n \in Nat, NEW size \in Nat, NEW ctxt, After(ctxt, n),
           NEW to, to = n + size
    PROVE  After(MD4_Update(ctxt, Bytes(n, to)), to)
  <1> DEFINE data == Bytes(n, to)
             q == n \div BlockSize
             used == n % BlockSize
             taken == IF used > 0 THEN BlockSize - used ELSE 0
             counted == Counted(ctxt, size)
             filled == memcpy(counted, used, SubSeq(data, 1, taken))
             started == IF used > 0 THEN body(filled, filled.buffer) ELSE counted
             end == taken + Whole(size - taken)
             new == memcpy(body(started, SubSeq(data, taken + 1, end)), 0,
                           SubSeq(data, end + 1, size))
  <1>1. Part(data, n, size) /\ to \in Nat
    BY BytesType
  <1>2. ctxt.lo % BlockSize = used
    BY LoInBlock DEF After
  <1>3. MD4_Update(ctxt, data)
          = IF Buffered(used, size) THEN memcpy(counted, used, data) ELSE new
    <2>1. Len(data) = size
      BY <1>1 DEF Part
    <2>2. QED
      BY <1>2, <2>1 DEF MD4_Update
  <1>4. BlockSize \in Nat /\ q \in Nat /\ used \in 0 .. BlockSize - 1
        /\ n = q * BlockSize + used
    BY Md4Assumption, Divide
  <1>5. CASE Buffered(used, size)
    <2>1. FitsBuffer(n, size)
      BY <1>4, <1>5 DEF Buffered, FitsBuffer
    <2>2. QED
      BY <1>3, <1>5, <2>1, UpdateBuffered
  <1>6. CASE ~Buffered(used, size)
    <2> DEFINE m == n + taken
               t == size - taken
    <2>1. taken \in Nat /\ t \in Nat /\ m \in Nat /\ to = m + t /\ taken <= size
      BY <1>4, <1>6 DEF Buffered
    <2>2. /\ counted \in MD4_CTX
          /\ counted.lo = to % LoCount /\ counted.hi = to \div LoCount
          /\ counted.abcd = ctxt.abcd /\ counted.buffer = ctxt.buffer
      BY CountedLength DEF After
    <2>3. Started(started, IF used > 0 THEN q + 1 ELSE q, m, to)
      <3>1. CASE used > 0
        <4>1. taken = BlockSize - used /\ started = body(filled, filled.buffer)
          BY <3>1
        <4>2. SubSeq(data, 1, taken) = Bytes(n, n + taken)
          <5>1. taken \in 1 - 1 .. to - n /\ 1 \in 1 .. to - n + 1 /\ n + 1 - 1 = n
                /\ n <= to
            BY <1>1, <2>1
          <5> HIDE DEF taken
          <5>2. SubSeq(data, 1, taken) = Bytes(n + 1 - 1, n + taken)
            BY <1>1, <5>1, SubBytes
          <5>3. QED
            BY <5>1, <5>2
        <4>3. Part(SubSeq(data, 1, taken), n, taken)
          <5> HIDE DEF taken
          <5>1. QED
            BY <2>1, <4>2, BytesType
        <4>4. /\ Spells(counted.abcd, q, Message)
              /\ \A j \in 1 .. used : counted.buffer[j] = Whole(n) + j
          BY <2>2 DEF After
        <4> HIDE DEF taken, counted, data
        <4>5. Started(body(filled, filled.buffer), q + 1, n + taken, to)
          BY <1>1, <2>1, <2>2, <4>1, <4>3, <4>4, UpdateFills
        <4>6. QED
          BY <3>1, <4>1, <4>5
      <3>2. CASE used = 0
        <4>1. taken = 0 /\ started = counted /\ m = q * BlockSize
          BY <1>4, <3>2
        <4>2. Spells(counted.abcd, q, Message)
          BY <2>2 DEF After
        <4> HIDE DEF counted
        <4>3. QED
          BY <2>2, <3>2, <4>1, <4>2 DEF Started
      <3>3. QED
        BY <1>4, <3>1, <3>2
    <2>4. Whole(t) \in Nat /\ Whole(t) <= t
      BY <2>1, Divide
    <2>5. SubSeq(data, taken + 1, end) = Bytes(m, m + Whole(t))
          /\ SubSeq(data, end + 1, size) = Bytes(m + Whole(t), to)
      <3> HIDE DEF taken
      <3>1. end = taken + Whole(t)
        OBVIOUS
      <3> DEFINE w == Whole(t)
      <3> HIDE DEF w, end
      <3>2. end = taken + w /\ w \in Nat /\ w <= t
        BY <2>4, <3>1 DEF w
      <3>3. /\ taken + 1 \in 1 .. to - n + 1 /\ end \in (taken + 1) - 1 .. to - n
            /\ end + 1 \in 1 .. to - n + 1 /\ size \in (end + 1) - 1 .. to - n
            /\ n + (taken + 1) - 1 = m /\ n + end = m + w
            /\ n + (end + 1) - 1 = m + w /\ n + size = to /\ n <= to
        BY <2>1, <3>2
      <3>4. SubSeq(data, taken + 1, end) = Bytes(n + (taken + 1) - 1, n + end)
        BY <1>1, <3>3, SubBytes
      <3>5. SubSeq(data, end + 1, size) = Bytes(n + (end + 1) - 1, n + size)
        BY <1>1, <3>3, SubBytes
      <3>6. QED
        BY <3>3, <3>4, <3>5 DEF w
    <2>6. new = memcpy(body(started, Bytes(m, m + Whole(t))), 0,
                       Bytes(m + Whole(t), to))
      BY <2>5
    <2> HIDE DEF new, started, m, t
    <2>7. (IF used > 0 THEN q + 1 ELSE q) \in Nat
      BY <1>4
    <2>8. After(new, to)
      BY <2>1, <2>3, <2>6, <2>7, UpdateBlocks
    <2>9. QED
      BY <1>3, <1>6, <2>8 DEF data
  <1>7. QED
    BY <1>5, <1>6
-----------------------------------------------------------------------------
(***************************************************************************)
(* The padded message, by position: z zeros between the mark and the       *)
(* length.                                                                 *)
(***************************************************************************)
Reads(c, n, z) ==
    /\ c \in Seq(Int)
    /\ Len(c) = n + z + 3
    /\ \A p \in 1 .. n : c[p] = p
    /\ c[n + 1] = Mark
    /\ \A p \in n + 2 .. n + z + 1 : c[p] = Zero
    /\ c[n + z + 2] = n % LoCount
    /\ c[n + z + 3] = n \div LoCount

LEMMA ZerosType ==
    ASSUME NEW z \in Nat
    PROVE  /\ Zeros(z) \in Seq(Int) /\ Len(Zeros(z)) = z
           /\ \A i \in 1 .. z : Zeros(z)[i] = Zero
  BY DEF Zeros, Zero

Joined(c, s, m, t, k) ==
    /\ c \in Seq(Int)
    /\ Len(c) = m + k
    /\ \A p \in 1 .. m : c[p] = s[p]
    /\ \A p \in 1 .. k : c[m + p] = t[p]

LEMMA Join ==
    ASSUME NEW s \in Seq(Int), NEW t \in Seq(Int)
    PROVE  Joined(s \o t, s, Len(s), t, Len(t))
  <1> DEFINE m == Len(s)
             k == Len(t)
             c == s \o t
  <1>1. m \in Nat /\ k \in Nat
    BY LenProperties
  <1>2. /\ c \in Seq(Int) /\ Len(c) = m + k
        /\ \A i \in 1 .. m + k : c[i] = IF i <= m THEN s[i] ELSE t[i - m]
    BY ConcatProperties
  <1> HIDE DEF m, k, c
  <1>3. \A p \in 1 .. k : m + p \in 1 .. m + k /\ ~(m + p <= m) /\ (m + p) - m = p
    BY <1>1
  <1>4. \A p \in 1 .. m : p \in 1 .. m + k /\ p <= m
    BY <1>1
  <1>5. Joined(c, s, m, t, k)
    BY <1>2, <1>3, <1>4 DEF Joined
  <1>6. QED
    BY <1>5 DEF m, k, c

LEMMA PaddedReads ==
    ASSUME NEW n \in Nat, NEW z \in Nat, Padding(n) = z
    PROVE  Reads(Padded(n), n, z)
  <1> DEFINE lo == n % LoCount
             hi == n \div LoCount
             s == Bytes(0, n)
             sm == s \o <<Mark>>
             smz == sm \o Zeros(z)
             all == smz \o <<lo, hi>>
  <1>1. lo \in Int /\ hi \in Int
    BY Md4Assumption
  <1> HIDE DEF lo, hi
  <1>2. s \in Seq(Int) /\ Len(s) = n /\ \A p \in 1 .. n : s[p] = p
    <2>1. Part(s, 0, n)
      BY BytesType
    <2>2. QED
      BY <2>1 DEF Part
  <1> HIDE DEF s
  <1>3. <<Mark>> \in Seq(Int) /\ Len(<<Mark>>) = 1 /\ <<Mark>>[1] = Mark
    BY DEF Mark
  <1>4. Joined(sm, s, n, <<Mark>>, 1)
    <2> DEFINE t == <<Mark>>
    <2> HIDE DEF t
    <2>1. t \in Seq(Int) /\ Len(t) = 1
      BY <1>3 DEF t
    <2>2. Joined(s \o t, s, n, t, 1)
      BY <1>2, <2>1, Join
    <2>3. QED
      BY <2>2 DEF t
  <1>5. /\ sm \in Seq(Int) /\ Len(sm) = n + 1
        /\ \A p \in 1 .. n : sm[p] = p
        /\ sm[n + 1] = Mark
    BY <1>2, <1>3, <1>4 DEF Joined
  <1> DEFINE zeros == Zeros(z)
  <1>6. zeros \in Seq(Int) /\ Len(zeros) = z /\ \A i \in 1 .. z : zeros[i] = Zero
    BY ZerosType
  <1> HIDE DEF sm, zeros
  <1>7. Joined(sm \o zeros, sm, n + 1, zeros, z)
    BY <1>5, <1>6, Join
  <1>8. smz = sm \o zeros
    BY DEF zeros
  <1> HIDE DEF smz
  <1>9. /\ smz \in Seq(Int) /\ Len(smz) = n + 1 + z
        /\ \A p \in 1 .. n : smz[p] = p
        /\ smz[n + 1] = Mark
        /\ \A p \in 1 .. z : smz[n + 1 + p] = Zero
    BY <1>5, <1>6, <1>7, <1>8 DEF Joined
  <1> DEFINE t == <<lo, hi>>
  <1>10. t \in Seq(Int) /\ Len(t) = 2 /\ t[1] = lo /\ t[2] = hi
    BY <1>1
  <1>11. all = smz \o t
    OBVIOUS
  <1> HIDE DEF t, all
  <1>12. Joined(all, smz, n + 1 + z, t, 2)
    BY <1>9, <1>10, <1>11, Join
  <1>13. /\ all \in Seq(Int) /\ Len(all) = n + 1 + z + 2
         /\ \A p \in 1 .. n : all[p] = p
         /\ all[n + 1] = Mark
         /\ \A p \in 1 .. z : all[n + 1 + p] = Zero
         /\ all[n + 1 + z + 1] = lo
         /\ all[n + 1 + z + 2] = hi
    <2>1. /\ all \in Seq(Int) /\ Len(all) = n + 1 + z + 2
          /\ \A p \in 1 .. n + 1 + z : all[p] = smz[p]
          /\ \A p \in 1 .. 2 : all[n + 1 + z + p] = t[p]
      BY <1>12 DEF Joined
    <2>2. \A p \in 1 .. n : p \in 1 .. n + 1 + z
      OBVIOUS
    <2>3. \A p \in 1 .. z : n + 1 + p \in 1 .. n + 1 + z
      OBVIOUS
    <2>4. n + 1 \in 1 .. n + 1 + z /\ 1 \in 1 .. 2 /\ 2 \in 1 .. 2
      OBVIOUS
    <2>5. QED
      BY <1>9, <1>10, <2>1, <2>2, <2>3, <2>4
  <1>14. \A p \in n + 2 .. n + z + 1 : p - (n + 1) \in 1 .. z /\ n + 1 + (p - (n + 1)) = p
    OBVIOUS
  <1>15. n + 1 + z + 1 = n + z + 2 /\ n + 1 + z + 2 = n + z + 3
    OBVIOUS
  <1>16. Reads(all, n, z)
    BY <1>13, <1>14, <1>15 DEF Reads, lo, hi
  <1>17. QED
    BY <1>16 DEF Padded, all, smz, sm, s, lo, hi

\* As few zeros as end at the end of a block.
LEMMA PaddingIs ==
    ASSUME NEW n \in Nat, NEW z \in 0 .. BlockSize - 1, NEW k \in Nat,
           n + z + 3 = k * BlockSize
    PROVE  Padding(n) = z
  <1>1. \A y \in 0 .. BlockSize - 1 : n + 1 + y + LengthCells = n + y + 3
    BY Md4Assumption DEF LengthCells
  <1>2. (n + 1 + z + LengthCells) % BlockSize = 0
    <2>1. 0 \in 0 .. BlockSize - 1 /\ k * BlockSize = k * BlockSize + 0
      BY Md4Assumption
    <2>2. QED
      BY <1>1, <2>1, Quotient
  <1>3. ASSUME NEW y \in 0 .. BlockSize - 1,
               (n + 1 + y + LengthCells) % BlockSize = 0
        PROVE  y = z
    <2> DEFINE m == n + 1 + y + LengthCells
               j == m \div BlockSize
    <2>1. m \in Nat /\ m = n + y + 3 /\ BlockSize \in Nat /\ BlockSize >= 3
      BY Md4Assumption DEF LengthCells
    <2>2. j \in Nat /\ m = j * BlockSize
      <3>1. m % BlockSize = 0
        BY <1>3
      <3> HIDE DEF m
      <3>2. m = (m \div BlockSize) * BlockSize + (m % BlockSize) /\ m \div BlockSize \in Nat
        BY <2>1, DivModOf
      <3>3. QED
        BY <2>1, <3>1, <3>2
    <2> HIDE DEF m, j
    <2>3. j * BlockSize + z = k * BlockSize + y
      <3>1. j * BlockSize \in Nat /\ k * BlockSize \in Nat
        BY <2>1, <2>2
      <3>2. QED
        BY <2>1, <2>2, <3>1
    <2>4. (j * BlockSize + z) % BlockSize = z /\ (k * BlockSize + y) % BlockSize = y
      BY <2>2, Quotient
    <2>5. QED
      BY <2>3, <2>4
  <1>4. QED
    BY <1>2, <1>3 DEF Padding

(***************************************************************************)
(* MD4_Final.  The buffer after the mark has been set and the rest of the  *)
(* block cleared; it may have to be processed before there is room for the *)
(* length.                                                                 *)
(***************************************************************************)
Marked(cleared, ctxt, n) ==
    /\ cleared \in MD4_CTX
    /\ cleared.abcd = ctxt.abcd
    /\ \A j \in 1 .. BlockSize :
         cleared.buffer[j] = IF j <= n % BlockSize THEN Whole(n) + j
                             ELSE IF j = (n % BlockSize) + 1 THEN Mark ELSE Zero

LEMMA FinalMarks ==
    ASSUME NEW n \in Nat, NEW ctxt, After(ctxt, n), NEW used, used = (n % BlockSize) + 1
    PROVE  Marked(memcpy(memcpy(ctxt, used - 1, <<Mark>>), used, Zeros(BlockSize - used)),
                  ctxt, n)
  <1> DEFINE u == n % BlockSize
             mark == <<Mark>>
             zeros == Zeros(BlockSize - used)
             marked == memcpy(ctxt, used - 1, mark)
             cleared == memcpy(marked, used, zeros)
  <1>1. u \in 0 .. BlockSize - 1 /\ BlockSize \in Nat
    BY Divide, Md4Assumption
  <1>2. /\ ctxt \in MD4_CTX
        /\ \A j \in 1 .. u : ctxt.buffer[j] = Whole(n) + j
    BY DEF After
  <1>3. used = u + 1
    OBVIOUS
  <1> HIDE DEF u
  <1>4. used - 1 \in 0 .. BlockSize /\ used \in 0 .. BlockSize
        /\ BlockSize - used \in Nat
    BY <1>1, <1>3
  <1>5. mark \in Seq(Int) /\ Len(mark) = 1 /\ mark[1] = Mark
    BY DEF Mark
  <1>6. /\ zeros \in Seq(Int) /\ Len(zeros) = BlockSize - used
        /\ \A i \in 1 .. BlockSize - used : zeros[i] = Zero
    BY <1>4, ZerosType
  <1> HIDE DEF mark, zeros
  <1>7. Copied(marked, ctxt, used - 1, 1, mark)
    BY <1>2, <1>4, <1>5, Memcpy
  <1> HIDE DEF marked
  <1>8. Copied(cleared, marked, used, BlockSize - used, zeros)
    <2>1. marked \in MD4_CTX
      BY <1>7 DEF Copied
    <2>2. QED
      BY <1>4, <1>6, <2>1, Memcpy
  <1> HIDE DEF cleared
  <1>9. ASSUME NEW j \in 1 .. BlockSize
        PROVE  cleared.buffer[j] = IF j <= u THEN Whole(n) + j
                                   ELSE IF j = u + 1 THEN Mark ELSE Zero
    <2>1. CASE j <= u
      <3>1. ~(j \in used + 1 .. used + (BlockSize - used))
            /\ ~(j \in (used - 1) + 1 .. (used - 1) + 1)
        BY <1>1, <1>3, <2>1
      <3>2. cleared.buffer[j] = marked.buffer[j]
        BY <1>8, <3>1 DEF Copied
      <3>3. marked.buffer[j] = ctxt.buffer[j]
        BY <1>7, <3>1 DEF Copied
      <3>4. QED
        BY <1>1, <1>2, <2>1, <3>2, <3>3
    <2>2. CASE j = u + 1
      <3>1. /\ ~(j \in used + 1 .. used + (BlockSize - used))
            /\ j \in (used - 1) + 1 .. (used - 1) + 1
            /\ j - (used - 1) = 1
        BY <1>1, <1>3, <2>2
      <3>2. cleared.buffer[j] = marked.buffer[j]
        BY <1>8, <3>1 DEF Copied
      <3>3. marked.buffer[j] = mark[1]
        BY <1>7, <3>1 DEF Copied
      <3>4. QED
        BY <1>1, <1>5, <2>2, <3>2, <3>3
    <2>3. CASE j > u + 1
      <3>1. /\ j \in used + 1 .. used + (BlockSize - used)
            /\ j - used \in 1 .. BlockSize - used
        BY <1>1, <1>3, <2>3
      <3>2. cleared.buffer[j] = zeros[j - used]
        BY <1>8, <3>1 DEF Copied
      <3>3. QED
        BY <1>1, <1>6, <2>3, <3>1, <3>2
    <2>4. QED
      BY <1>1, <2>1, <2>2, <2>3
  <1>10. Marked(cleared, ctxt, n)
    BY <1>7, <1>8, <1>9 DEF Marked, Copied, u
  <1>11. QED
    BY <1>10 DEF cleared, marked, mark, zeros

\* The last block, with the length.
LEMMA FinalLength ==
    ASSUME NEW next \in MD4_CTX, NEW lo \in Int, NEW hi \in Int
    PROVE  LET last == memcpy(next, BlockSize - LengthCells, <<lo, hi>>)
           IN  /\ last \in MD4_CTX
               /\ last.abcd = next.abcd
               /\ \A j \in 1 .. BlockSize - 2 : last.buffer[j] = next.buffer[j]
               /\ last.buffer[BlockSize - 1] = lo
               /\ last.buffer[BlockSize] = hi
  <1> DEFINE t == <<lo, hi>>
             o == BlockSize - LengthCells
             last == memcpy(next, o, t)
  <1>1. t \in Seq(Int) /\ Len(t) = 2 /\ t[1] = lo /\ t[2] = hi
    OBVIOUS
  <1>2. o = BlockSize - 2 /\ o \in 0 .. BlockSize /\ BlockSize \in Nat /\ BlockSize >= 3
    BY Md4Assumption DEF LengthCells
  <1> HIDE DEF t, o
  <1>3. Copied(last, next, o, 2, t)
    BY <1>1, <1>2, Memcpy
  <1> HIDE DEF last
  <1>4. \A j \in 1 .. BlockSize - 2 : last.buffer[j] = next.buffer[j]
    <2>1. \A j \in 1 .. BlockSize - 2 : j \in 1 .. BlockSize /\ ~(j \in o + 1 .. o + 2)
      BY <1>2
    <2>2. QED
      BY <1>3, <2>1 DEF Copied
  <1>5. last.buffer[BlockSize - 1] = lo
    <2>1. /\ BlockSize - 1 \in 1 .. BlockSize /\ BlockSize - 1 \in o + 1 .. o + 2
          /\ BlockSize - 1 - o = 1
      BY <1>2
    <2>2. QED
      BY <1>1, <1>3, <2>1 DEF Copied
  <1>6. last.buffer[BlockSize] = hi
    <2>1. /\ BlockSize \in 1 .. BlockSize /\ BlockSize \in o + 1 .. o + 2
          /\ BlockSize - o = 2
      BY <1>2
    <2>2. QED
      BY <1>1, <1>3, <2>1 DEF Copied
  <1>7. QED
    BY <1>3, <1>4, <1>5, <1>6 DEF Copied, last, t, o

\* The buffer is the next block of c.
LEMMA OneBlock ==
    ASSUME NEW ctxt \in MD4_CTX, NEW q \in Nat, NEW w, w = q * BlockSize,
           NEW c, Spells(ctxt.abcd, q, c),
           \A j \in 1 .. BlockSize : ctxt.buffer[j] = c[w + j]
    PROVE  /\ body(ctxt, ctxt.buffer) \in MD4_CTX
           /\ Spells(body(ctxt, ctxt.buffer).abcd, q + 1, c)
  <1>1. BlockSize \in Nat
    BY Md4Assumption
  <1>2. ctxt.buffer \in Seq(Int) /\ Len(ctxt.buffer) = BlockSize
    BY <1>1 DEF MD4_CTX, Block
  <1>3. 1 * BlockSize = BlockSize
    BY <1>1
  <1>4. Continues(ctxt.buffer, q, 1, c)
    BY <1>2, <1>3 DEF Continues
  <1>5. QED
    BY <1>4, Body

LEMMA PaddedBegins ==
    ASSUME NEW n \in Nat, NEW c, NEW z, Reads(c, n, z), NEW blocks,
           Spells(blocks, n \div BlockSize, Message)
    PROVE  Spells(blocks, n \div BlockSize, c)
  <1> DEFINE q == n \div BlockSize
  <1>1. q \in Nat /\ q * BlockSize \in Nat /\ q * BlockSize <= n /\ BlockSize \in Nat
    BY Divide, Md4Assumption
  <1>2. Spells(blocks, q, Message)
    OBVIOUS
  <1> HIDE DEF q
  <1>3. ASSUME NEW i \in 1 .. q, NEW j \in 1 .. BlockSize
        PROVE  blocks[i][j] = c[(i - 1) * BlockSize + j]
    <2> DEFINE p == (i - 1) * BlockSize + j
    <2>1. p \in 1 .. n
      <3>1. /\ (i - 1) * BlockSize \in Nat
            /\ (i - 1) * BlockSize + BlockSize = i * BlockSize
            /\ i * BlockSize <= q * BlockSize
        BY <1>1, BlockBounds
      <3>2. QED
        BY <1>1, <3>1
    <2>2. blocks[i][j] = Message[p]
      BY <1>2 DEF Spells
    <2> HIDE DEF p
    <2>3. Message[p] = p /\ c[p] = p
      BY <2>1 DEF Message, Reads
    <2>4. QED
      BY <2>2, <2>3 DEF p
  <1>4. QED
    BY <1>2, <1>3 DEF Spells, q

LEMMA SplitIs ==
    ASSUME NEW k \in Nat, NEW blocks, NEW c, Spells(blocks, k, c),
           Len(c) = k * BlockSize
    PROVE  SplitOf(blocks, c)
  <1>1. blocks \in Seq(Block) /\ Len(blocks) = k /\ BlockSize \in Nat
    BY Md4Assumption DEF Spells
  <1>2. DOMAIN blocks = 1 .. k /\ \A i \in 1 .. k : blocks[i] \in Block
    BY <1>1, LenProperties, ElementOfSeq
  <1>3. \A i \in 1 .. k : Len(blocks[i]) = BlockSize
    BY <1>1, <1>2 DEF Block
  <1>4. QED
    BY <1>1, <1>2, <1>3 DEF SplitOf, Spells

(***************************************************************************)
(* The blocks of the digest are those of the padded message.               *)
(***************************************************************************)
LEMMA FinalPads ==
    ASSUME NEW n \in Nat, NEW ctxt, After(ctxt, n)
    PROVE  SplitOf(MD4_Final(ctxt), Padded(n)) /\ MD4_Final(ctxt) # << >>
  <1> DEFINE q == n \div BlockSize
             u == n % BlockSize
             w == Whole(n)
             used == u + 1
             lo == n % LoCount
             hi == n \div LoCount
             cleared == memcpy(memcpy(ctxt, used - 1, <<Mark>>), used,
                               Zeros(BlockSize - used))
             bodied == body(cleared, cleared.buffer)
             next == IF NoRoom(BlockSize - used)
                     THEN memcpy(bodied, 0, Zeros(BlockSize))
                     ELSE cleared
             last == memcpy(next, BlockSize - LengthCells, <<lo, hi>>)
             c == Padded(n)
  <1>1. MD4_Final(ctxt) = body(last, last.buffer).abcd
    <2>1. ctxt.lo = lo /\ ctxt.hi = hi /\ ctxt.lo % BlockSize = u
      BY LoInBlock DEF After
    <2>2. QED
      BY <2>1 DEF MD4_Final
  <1>2. /\ q \in Nat /\ u \in 0 .. BlockSize - 1 /\ w \in Nat
        /\ n = w + u /\ w = q * BlockSize
        /\ BlockSize \in Nat /\ BlockSize >= 3
    BY Divide, Md4Assumption
  <1>3. lo \in Int /\ hi \in Int
    BY Md4Assumption
  <1>4. Marked(cleared, ctxt, n)
    BY FinalMarks
  <1>5. /\ cleared \in MD4_CTX /\ cleared.abcd = ctxt.abcd
        /\ \A j \in 1 .. BlockSize :
             cleared.buffer[j] = IF j <= u THEN w + j ELSE IF j = u + 1 THEN Mark ELSE Zero
    BY <1>4 DEF Marked
  <1>6. Spells(ctxt.abcd, q, Message)
    BY DEF After
  <1> HIDE DEF cleared, q, u, w, lo, hi
  <1>7. CASE ~NoRoom(BlockSize - used)
    <2> DEFINE z == BlockSize - u - 3
    <2>1. z \in Nat /\ z \in 0 .. BlockSize - 1 /\ n + z + 3 = w + BlockSize /\ next = cleared
      BY <1>2, <1>7 DEF NoRoom, LengthCells
    <2>2. q + 1 \in Nat /\ n + z + 3 = (q + 1) * BlockSize
      BY <1>2, <2>1
    <2> HIDE DEF z, next
    <2>3. Reads(c, n, z)
      BY <2>1, <2>2, PaddingIs, PaddedReads
    <2> HIDE DEF c
    <2>4. Spells(ctxt.abcd, q, c)
      BY <1>6, <2>3, PaddedBegins DEF q
    <2>5. /\ last \in MD4_CTX
          /\ last.abcd = ctxt.abcd
          /\ \A j \in 1 .. BlockSize - 2 : last.buffer[j] = cleared.buffer[j]
          /\ last.buffer[BlockSize - 1] = lo
          /\ last.buffer[BlockSize] = hi
      BY <1>3, <1>5, <2>1, FinalLength
    <2> HIDE DEF last
    <2>6. ASSUME NEW j \in 1 .. BlockSize PROVE last.buffer[j] = c[w + j]
      <3>1. CASE j <= BlockSize - 2 /\ j <= u
        <4>1. last.buffer[j] = w + j /\ w + j \in 1 .. n
          BY <1>2, <1>5, <2>5, <3>1
        <4>2. QED
          BY <2>3, <4>1 DEF Reads
      <3>2. CASE j <= BlockSize - 2 /\ j = u + 1
        <4>1. last.buffer[j] = Mark /\ w + j = n + 1
          BY <1>2, <1>5, <2>5, <3>2
        <4>2. QED
          BY <2>3, <4>1 DEF Reads
      <3>3. CASE j <= BlockSize - 2 /\ j > u + 1
        <4>1. last.buffer[j] = Zero
          BY <1>2, <1>5, <2>5, <3>3
        <4>2. w + j \in n + 2 .. n + z + 1
          BY <1>2, <2>1, <3>3
        <4>3. QED
          BY <2>3, <4>1, <4>2 DEF Reads
      <3>4. CASE j = BlockSize - 1
        <4>1. w + j = n + z + 2
          BY <1>2, <2>1, <3>4
        <4>2. QED
          BY <2>3, <2>5, <3>4, <4>1 DEF Reads, lo
      <3>5. CASE j = BlockSize
        <4>1. w + j = n + z + 3
          BY <1>2, <2>1, <3>5
        <4>2. QED
          BY <2>3, <2>5, <3>5, <4>1 DEF Reads, hi
      <3>6. QED
        BY <1>2, <3>1, <3>2, <3>3, <3>4, <3>5
    <2>7. Spells(body(last, last.buffer).abcd, q + 1, c)
      BY <1>2, <2>4, <2>5, <2>6, OneBlock
    <2>8. Len(c) = (q + 1) * BlockSize
      BY <2>2, <2>3 DEF Reads
    <2>9. SplitOf(MD4_Final(ctxt), c)
      BY <1>1, <2>2, <2>7, <2>8, SplitIs
    <2>10. Len(MD4_Final(ctxt)) = q + 1
      BY <1>1, <2>7 DEF Spells
    <2>11. MD4_Final(ctxt) # << >>
      BY <1>2, <2>10
    <2>12. QED
      BY <2>9, <2>11 DEF c
  <1>8. CASE NoRoom(BlockSize - used)
    <2> DEFINE z == BlockSize + BlockSize - u - 3
    <2>1. /\ z \in Nat /\ z \in 0 .. BlockSize - 1 /\ n + z + 3 = w + BlockSize + BlockSize
          /\ next = memcpy(bodied, 0, Zeros(BlockSize))
      BY <1>2, <1>8 DEF NoRoom, LengthCells
    <2>2. /\ q + 2 \in Nat /\ n + z + 3 = (q + 2) * BlockSize
          /\ q + 1 \in Nat /\ w + BlockSize = (q + 1) * BlockSize
      BY <1>2, <2>1
    <2> HIDE DEF z, next
    <2>3. Reads(c, n, z)
      BY <2>1, <2>2, PaddingIs, PaddedReads
    <2> HIDE DEF c
    <2>4. Spells(ctxt.abcd, q, c)
      BY <1>6, <2>3, PaddedBegins DEF q
    <2>5. ASSUME NEW j \in 1 .. BlockSize PROVE cleared.buffer[j] = c[w + j]
      <3>1. CASE j <= u
        <4>1. cleared.buffer[j] = w + j /\ w + j \in 1 .. n
          BY <1>2, <1>5, <3>1
        <4>2. QED
          BY <2>3, <4>1 DEF Reads
      <3>2. CASE j = u + 1
        <4>1. cleared.buffer[j] = Mark /\ w + j = n + 1
          BY <1>2, <1>5, <3>2
        <4>2. QED
          BY <2>3, <4>1 DEF Reads
      <3>3. CASE j > u + 1
        <4>1. cleared.buffer[j] = Zero
          BY <1>2, <1>5, <3>3
        <4>2. w + j \in n + 2 .. n + z + 1
          BY <1>2, <2>1, <3>3
        <4>3. QED
          BY <2>3, <4>1, <4>2 DEF Reads
      <3>4. QED
        BY <1>2, <3>1, <3>2, <3>3
    <2>6. bodied \in MD4_CTX /\ Spells(bodied.abcd, q + 1, c)
      BY <1>2, <1>5, <2>4, <2>5, OneBlock
    <2> HIDE DEF bodied
    <2>7. /\ next \in MD4_CTX /\ next.abcd = bodied.abcd
          /\ \A j \in 1 .. BlockSize : next.buffer[j] = Zero
      <3> DEFINE zeros == Zeros(BlockSize)
      <3>1. /\ zeros \in Seq(Int) /\ Len(zeros) = BlockSize
            /\ \A j \in 1 .. BlockSize : zeros[j] = Zero
        BY <1>2, ZerosType
      <3> HIDE DEF zeros
      <3>2. 0 \in 0 .. BlockSize
        BY <1>2
      <3>3. Copied(memcpy(bodied, 0, zeros), bodied, 0, BlockSize, zeros)
        BY <2>6, <3>1, <3>2, Memcpy
      <3>4. next = memcpy(bodied, 0, zeros)
        BY <2>1 DEF zeros
      <3>5. \A j \in 1 .. BlockSize : j \in 0 + 1 .. 0 + BlockSize /\ j - 0 = j
        BY <1>2
      <3>6. QED
        BY <3>1, <3>3, <3>4, <3>5 DEF Copied
    <2>8. /\ last \in MD4_CTX
          /\ last.abcd = bodied.abcd
          /\ \A j \in 1 .. BlockSize - 2 : last.buffer[j] = next.buffer[j]
          /\ last.buffer[BlockSize - 1] = lo
          /\ last.buffer[BlockSize] = hi
      BY <1>3, <2>7, FinalLength
    <2> HIDE DEF last
    <2>9. ASSUME NEW j \in 1 .. BlockSize
          PROVE  last.buffer[j] = c[w + BlockSize + j]
      <3>1. CASE j <= BlockSize - 2
        <4>1. last.buffer[j] = Zero
          BY <1>2, <2>7, <2>8, <3>1
        <4>2. w + BlockSize + j \in n + 2 .. n + z + 1
          BY <1>2, <2>1, <3>1
        <4>3. QED
          BY <2>3, <4>1, <4>2 DEF Reads
      <3>2. CASE j = BlockSize - 1
        <4>1. w + BlockSize + j = n + z + 2
          BY <1>2, <2>1, <3>2
        <4>2. QED
          BY <2>3, <2>8, <3>2, <4>1 DEF Reads, lo
      <3>3. CASE j = BlockSize
        <4>1. w + BlockSize + j = n + z + 3
          BY <1>2, <2>1, <3>3
        <4>2. QED
          BY <2>3, <2>8, <3>3, <4>1 DEF Reads, hi
      <3>4. QED
        BY <1>2, <3>1, <3>2, <3>3
    <2>10. Spells(body(last, last.buffer).abcd, (q + 1) + 1, c)
      <3>1. Spells(last.abcd, q + 1, c)
        BY <2>6, <2>8
      <3>2. QED
        BY <2>2, <2>8, <2>9, <3>1, OneBlock
    <2>11. (q + 1) + 1 = q + 2
      BY <1>2
    <2>12. Len(c) = (q + 2) * BlockSize
      BY <2>2, <2>3 DEF Reads
    <2>13. SplitOf(MD4_Final(ctxt), c)
      BY <1>1, <2>2, <2>10, <2>11, <2>12, SplitIs
    <2>14. Len(MD4_Final(ctxt)) = q + 2
      BY <1>1, <2>10, <2>11 DEF Spells
    <2>15. MD4_Final(ctxt) # << >>
      BY <1>2, <2>14
    <2>16. QED
      BY <2>13, <2>15 DEF c
  <1>9. QED
    BY <1>7, <1>8
-----------------------------------------------------------------------------
(***************************************************************************)
(* The inductive invariant.  NothingLost says nothing of lo and hi, which  *)
(* the next update and the padding depend on.                              *)
(***************************************************************************)
Inv ==
    /\ len \in Nat
    /\ result = << >> => After(ctx, len)
    /\ result # << >> => ctx = Cleared /\ SplitOf(result, Padded(len))

LEMMA Beginning ==
    ASSUME NEW buffer \in Block, NEW ctxt,
           ctxt = [abcd |-> << >>, lo |-> 0, hi |-> 0, buffer |-> buffer]
    PROVE  After(ctxt, 0)
  <1>1. 0 % LoCount = 0 /\ 0 \div LoCount = 0 /\ 0 \in 0 .. LoCount - 1
        /\ 0 % BlockSize = 0 /\ 0 \div BlockSize = 0
    BY Md4Assumption
  <1>2. << >> \in Seq(Block) /\ Len(<< >>) = 0
    BY EmptySeq
  <1>3. Spells(<< >>, 0, Message)
    BY <1>2 DEF Spells
  <1>4. ctxt \in MD4_CTX
    BY <1>1, <1>2 DEF MD4_CTX
  <1>5. QED
    BY <1>1, <1>3, <1>4 DEF After

LEMMA InitInv == Init => Inv
  <1> SUFFICES ASSUME Init PROVE Inv
    OBVIOUS
  <1>1. Garbage \in Block
    BY Md4Assumption DEF Garbage, Block
  <1>2. ctx = [abcd |-> << >>, lo |-> 0, hi |-> 0, buffer |-> Garbage]
    BY DEF Init, MD4_Init, Cleared
  <1>3. After(ctx, 0)
    BY <1>1, <1>2, Beginning
  <1>4. QED
    BY <1>3 DEF Init, Inv

LEMMA NextInv == Inv /\ [Next]_vars => Inv'
  <1> SUFFICES ASSUME Inv, [Next]_vars PROVE Inv'
    OBVIOUS
  <1>1. CASE result = << >> /\ Update
    <2>1. PICK size \in 0 .. MaxLen - len :
            ctx' = MD4_Update(ctx, Bytes(len, len + size)) /\ len' = len + size
      BY <1>1 DEF Update
    <2>2. size \in Nat /\ len \in Nat /\ After(ctx, len) /\ result' = result
      BY <1>1, <2>1, Md4Assumption DEF Inv, Update
    <2>3. After(ctx', len')
      BY <2>1, <2>2, UpdateAdvances
    <2>4. QED
      BY <1>1, <2>1, <2>2, <2>3 DEF Inv
  <1>2. CASE Final
    <2>1. After(ctx, len) /\ len \in Nat
      BY <1>2 DEF Final, Inv
    <2>2. SplitOf(result', Padded(len)) /\ result' # << >>
      BY <1>2, <2>1, FinalPads DEF Final
    <2>3. QED
      BY <1>2, <2>1, <2>2 DEF Final, Inv
  <1>3. CASE Again
    <2>1. Zeros(BlockSize) \in Block
      BY Md4Assumption DEF Zeros, Zero, Block
    <2>2. ctx' = [abcd |-> << >>, lo |-> 0, hi |-> 0, buffer |-> Zeros(BlockSize)]
      <3>1. ctx = Cleared /\ ctx' = MD4_Init(ctx)
        BY <1>3 DEF Again, Inv
      <3>2. QED
        BY <3>1 DEF Cleared, MD4_Init
    <2>3. After(ctx', 0)
      BY <2>1, <2>2, Beginning
    <2>4. QED
      BY <1>3, <2>3 DEF Again, Inv
  <1>4. CASE UNCHANGED vars
    BY <1>4 DEF Inv, vars
  <1>5. QED
    BY <1>1, <1>2, <1>3, <1>4 DEF Next

(***************************************************************************)
(* The invariant holds, however a message is cut into updates.             *)
(***************************************************************************)
THEOREM Invariance == Spec => []Inv
  BY InitInv, NextInv, PTL DEF Spec

(***************************************************************************)
(* MD4_Final hashes the message padded as RFC 1320 says, for a message of  *)
(* any length, cut into updates of any sizes.                              *)
(***************************************************************************)
THEOREM DigestIsOfMessage == Spec => []DigestOfMessage
  <1>1. Inv => DigestOfMessage
    BY DEF Inv, DigestOfMessage
  <1>2. QED
    BY <1>1, Invariance, PTL

(***************************************************************************)
(* MD4_Update neither loses nor repeats a byte, and processes a block as   *)
(* soon as it is full.                                                     *)
(***************************************************************************)
THEOREM UpdateLosesNothing == Spec => []NothingLost
  <1>1. ASSUME NEW n \in Nat, NEW ctxt, After(ctxt, n)
        PROVE  /\ SplitOf(ctxt.abcd, Bytes(0, Whole(n)))
               /\ SubSeq(ctxt.buffer, 1, ctxt.lo % BlockSize) = Bytes(Whole(n), n)
    <2> DEFINE q == n \div BlockSize
               u == n % BlockSize
               w == Whole(n)
               c == Bytes(0, w)
    <2>1. /\ q \in Nat /\ u \in 0 .. BlockSize - 1 /\ w \in Nat
          /\ n = w + u /\ w = q * BlockSize /\ BlockSize \in Nat
      BY Divide, Md4Assumption
    <2>2. /\ Spells(ctxt.abcd, q, Message)
          /\ \A j \in 1 .. u : ctxt.buffer[j] = w + j
          /\ ctxt.buffer \in Block
          /\ ctxt.lo % BlockSize = u
      BY <1>1, LoInBlock DEF After, MD4_CTX
    <2> HIDE DEF q, u, w
    <2>3. Part(c, 0, w)
      BY <2>1, BytesType
    <2> HIDE DEF c
    <2>4. Spells(ctxt.abcd, q, c)
      <3>1. ASSUME NEW i \in 1 .. q, NEW j \in 1 .. BlockSize
            PROVE  ctxt.abcd[i][j] = c[(i - 1) * BlockSize + j]
        <4> DEFINE p == (i - 1) * BlockSize + j
        <4>1. /\ (i - 1) * BlockSize \in Nat
              /\ (i - 1) * BlockSize + BlockSize = i * BlockSize
              /\ i * BlockSize <= q * BlockSize
          BY <2>1, BlockBounds
        <4>2. p \in 1 .. w
          BY <2>1, <4>1
        <4>3. ctxt.abcd[i][j] = Message[p]
          BY <2>2 DEF Spells
        <4> HIDE DEF p
        <4>4. Message[p] = p /\ c[p] = p
          BY <2>1, <2>3, <4>2 DEF Message, Part
        <4>5. QED
          BY <4>3, <4>4 DEF p
      <3>2. QED
        BY <2>2, <3>1 DEF Spells
    <2>5. SplitOf(ctxt.abcd, c)
      <3>1. Len(c) = q * BlockSize
        BY <2>1, <2>3 DEF Part
      <3>2. QED
        BY <2>1, <2>4, <3>1, SplitIs
    <2>6. SubSeq(ctxt.buffer, 1, u) = Bytes(w, n)
      <3> DEFINE zero == 0
                 s == SubSeq(ctxt.buffer, zero + 1, zero + u)
                 t == Bytes(w, n)
      <3>1. ctxt.buffer \in Seq(Int) /\ Len(ctxt.buffer) = BlockSize
        BY <2>1, <2>2 DEF Block
      <3>2. Part(t, w, u)
        BY <2>1, BytesType
      <3>3. /\ zero \in Nat /\ u \in Nat /\ zero + u <= BlockSize
            /\ zero + 1 = 1 /\ zero + u = u /\ \A j \in 1 .. u : zero + j = j
        BY <2>1
      <3> HIDE DEF zero
      <3>4. /\ s \in Seq(Int) /\ Len(s) = u
            /\ \A j \in 1 .. u : s[j] = ctxt.buffer[zero + j]
        BY <3>1, <3>3, Slice
      <3> HIDE DEF s, t
      <3>5. s = t
        <4>1. t \in Seq(Int) /\ Len(t) = Len(s)
          BY <3>2, <3>4 DEF Part
        <4>2. \A j \in 1 .. Len(s) : s[j] = t[j]
          BY <2>2, <3>2, <3>3, <3>4 DEF Part
        <4>3. QED
          BY <3>4, <4>1, <4>2, SeqEqual
      <3>6. QED
        BY <3>3, <3>5 DEF s, t
    <2>7. QED
      BY <2>2, <2>5, <2>6 DEF c, w, u
  <1>2. Inv => NothingLost
    BY <1>1 DEF Inv, NothingLost
  <1>3. QED
    BY <1>2, Invariance, PTL
=============================================================================
