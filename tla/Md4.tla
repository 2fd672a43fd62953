-------------------------------- MODULE Md4 ---------------------------------
(***************************************************************************)
(* The message digest of safecom/src/md4.c as a stream: MD4_Init, any      *)
(* number of MD4_Update and MD4_Final.  What is modelled is how a message  *)
(* becomes blocks; the arithmetic on a, b, c, d is not, so these registers *)
(* are the sequence of the blocks they were computed from.                 *)
(*                                                                         *)
(* A cell of a block stands for one byte, except the last two, which stand *)
(* for the two words of the length.  The n-th byte of a message is n: MD4  *)
(* looks at no byte, so a message of distinct ones shows where each goes.  *)
(***************************************************************************)
EXTENDS Integers, Sequences

CONSTANTS BlockSize,    \* cells of a block: 64 in the code
          LoCount,      \* number of values of lo: 2^29 in the code
          MaxLen        \* bound on the length of a message

ASSUME Md4Assumption ==
    /\ BlockSize \in Nat /\ BlockSize >= 3
    /\ LoCount \in Nat \ {0} /\ LoCount % BlockSize = 0
    /\ MaxLen \in Nat

LengthCells == 2
Mark == -1              \* the byte 0x80
Zero == 0

VARIABLES ctx,          \* MD4_CTX
          len,          \* history: how many bytes it has been given
          result        \* the blocks of the last digest

vars == <<ctx, len, result>>
-----------------------------------------------------------------------------
MD4_Init(ctxt) == [ctxt EXCEPT !.abcd = << >>, !.lo = 0, !.hi = 0]

\* One or more whole blocks.
body(ctxt, data) ==
    [ctxt EXCEPT !.abcd = @ \o
       [i \in 1 .. Len(data) \div BlockSize |->
          SubSeq(data, (i - 1) * BlockSize + 1, i * BlockSize)]]

memcpy(ctxt, offset, data) ==
    [ctxt EXCEPT !.buffer =
       [i \in 1 .. BlockSize |->
          IF i \in offset + 1 .. offset + Len(data) THEN data[i - offset]
          ELSE @[i]]]

Counted(ctxt, size) ==
    LET lo == (ctxt.lo + size) % LoCount
    IN  [ctxt EXCEPT !.lo = lo,
                     !.hi = @ + (IF lo < ctxt.lo THEN 1 ELSE 0)
                              + size \div LoCount]

\* Mutant: data that just fills the buffer is left in it.
Buffered_Le(used, size) == used > 0 /\ size <= BlockSize - used

\* The data does not complete the block in the buffer.
Buffered(used, size) == used > 0 /\ size < BlockSize - used

Whole(n) == (n \div BlockSize) * BlockSize

MD4_Update(ctxt, data) ==
    LET size == Len(data)
        used == ctxt.lo % BlockSize
        taken == IF used > 0 THEN BlockSize - used ELSE 0
        counted == Counted(ctxt, size)
        filled == memcpy(counted, used, SubSeq(data, 1, taken))
        started == IF used > 0 THEN body(filled, filled.buffer) ELSE counted
        end == taken + Whole(size - taken)
    IN  IF Buffered(used, size) THEN memcpy(counted, used, data)
        ELSE memcpy(body(started, SubSeq(data, taken + 1, end)), 0,
                    SubSeq(data, end + 1, size))

Zeros(n) == [i \in 1 .. n |-> Zero]

\* Mutant: one cell is taken for enough room.
NoRoom_OffByOne(available) == available < LengthCells - 1

NoRoom(available) == available < LengthCells

MD4_Final(ctxt) ==
    LET used == (ctxt.lo % BlockSize) + 1
        available == BlockSize - used
        marked == memcpy(ctxt, used - 1, <<Mark>>)
        cleared == memcpy(marked, used, Zeros(available))
        next == IF NoRoom(available)
                THEN memcpy(body(cleared, cleared.buffer), 0, Zeros(BlockSize))
                ELSE cleared
        last == memcpy(next, BlockSize - LengthCells, <<ctxt.lo, ctxt.hi>>)
    IN  body(last, last.buffer).abcd

Cleared == [abcd |-> << >>, lo |-> 0, hi |-> 0, buffer |-> Zeros(BlockSize)]
-----------------------------------------------------------------------------
Bytes(from, to) == [i \in 1 .. to - from |-> from + i]

\* The context is a local variable of calculate_MD4: its buffer holds anything.
Garbage == [i \in 1 .. BlockSize |-> MaxLen + 1]

Init ==
    /\ ctx = MD4_Init([Cleared EXCEPT !.buffer = Garbage])
    /\ len = 0
    /\ result = << >>

Update ==
    /\ \E size \in 0 .. MaxLen - len :
         /\ ctx' = MD4_Update(ctx, Bytes(len, len + size))
         /\ len' = len + size
    /\ UNCHANGED result

\* MD4_Final clears the context; it may be initialised again.
Final ==
    /\ result = << >>
    /\ result' = MD4_Final(ctx)
    /\ ctx' = Cleared
    /\ UNCHANGED len

Again ==
    /\ result # << >>
    /\ result' = << >>
    /\ ctx' = MD4_Init(ctx)
    /\ len' = 0

Next == (result = << >> /\ Update) \/ Final \/ Again

Spec == Init /\ [][Next]_vars
-----------------------------------------------------------------------------
(***************************************************************************)
(* The reference, RFC 1320: the message, a mark, as few zeros as make room *)
(* for the length at the end of a block, and the length.                   *)
(***************************************************************************)
Padding(n) ==
    CHOOSE z \in 0 .. BlockSize - 1 : (n + 1 + z + LengthCells) % BlockSize = 0

Padded(n) ==
    Bytes(0, n) \o <<Mark>> \o Zeros(Padding(n)) \o <<n % LoCount, n \div LoCount>>

SplitOf(blocks, data) ==
    /\ Len(data) = Len(blocks) * BlockSize
    /\ \A i \in DOMAIN blocks, j \in 1 .. BlockSize :
         Len(blocks[i]) = BlockSize /\ blocks[i][j] = data[(i - 1) * BlockSize + j]

(***************************************************************************)
(* However the message is cut into updates, and whatever the buffer held   *)
(* before, the digest is that of the padded message: MD4_Final and         *)
(* MD4_Update put every byte in its place, at every length around a block. *)
(***************************************************************************)
DigestOfMessage == result # << >> => SplitOf(result, Padded(len))

(***************************************************************************)
(* Between two updates no byte is lost, repeated or processed too early:   *)
(* the blocks processed and what lo says the buffer holds are the message. *)
(***************************************************************************)
NothingLost ==
    result = << >> =>
        /\ SplitOf(ctx.abcd, Bytes(0, Whole(len)))
        /\ SubSeq(ctx.buffer, 1, ctx.lo % BlockSize)
             = Bytes(Whole(len), len)
=============================================================================
