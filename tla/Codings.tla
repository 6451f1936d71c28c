------------------------------ MODULE Codings ------------------------------
(* base/hash: base64, crc16 and the message digest md5.  A message is a     *)
(* sequence of bytes.                                                       *)
LOCAL INSTANCE Integers
LOCAL INSTANCE Sequences
LOCAL INSTANCE SequencesExt
LOCAL INSTANCE Bitwise

CONSTANTS Block,     \* the bytes of a block of md5, 64 in the code
          LowBits    \* the counter of bytes is split here, at 29 bits; each
                     \* part takes one byte of a block here, four there

From(s, i) == SubSeq(s, i, Len(s))

(* base64: a character is its value, 0..63; Pad and End, the end of a line,  *)
(* have the value -1, as any other character.                               *)
Pad == 64
End == 65
Three(s) ==
    <<s[1] \div 4, (s[1] % 4) * 16 + (s[2] \div 16), (s[2] % 16) * 4 + (s[3] \div 64),
      s[3] % 64>>
RECURSIVE base64_encode(_)
base64_encode(s) ==
    CASE s = <<>> -> <<>>
      [] Len(s) = 1 -> <<s[1] \div 4, (s[1] % 4) * 16, Pad, Pad>>
      [] Len(s) = 2 -> SubSeq(Three(s \o <<0>>), 1, 3) \o <<Pad>>
      [] OTHER -> Three(s) \o base64_encode(From(s, 4))

Code(c) == IF c < 64 THEN c ELSE -1
Is64(s) == \A i \in DOMAIN s : Code(s[i]) >= 0
Bytes(s) ==
    <<Code(s[1]) * 4 + (Code(s[2]) \div 16), (Code(s[2]) % 16) * 16 + (Code(s[3]) \div 4),
      (Code(s[3]) % 4) * 64 + Code(s[4])>>
Error == <<-1>>
IsEnd(s, i) == i \in DOMAIN s /\ s[i] = End
Last4(s) ==
    IF Len(s) # 4 \/ ~Is64(SubSeq(s, 1, 2)) THEN Error
    ELSE IF s[3] = Pad
    THEN IF s[4] = Pad THEN SubSeq(Bytes(SubSeq(s, 1, 2) \o <<0, 0>>), 1, 1) ELSE Error
    ELSE IF Code(s[3]) < 0 THEN Error
    ELSE IF s[4] = Pad THEN SubSeq(Bytes(SubSeq(s, 1, 3) \o <<0>>), 1, 2)
    ELSE IF Code(s[4]) < 0 THEN Error ELSE Bytes(s)
(* Groups of four while eight are left, each with at most two ends of line; *)
(* then the last one, without its ends of line.                             *)
RECURSIVE base64_decode(_)
base64_decode(s) ==
    LET Ends(i) == IF IsEnd(s, i) THEN IF IsEnd(s, i + 1) THEN 2 ELSE 1 ELSE 0
        rest == base64_decode(From(s, 5 + Ends(5)))
        trail == IF IsEnd(s, Len(s)) THEN IF IsEnd(s, Len(s) - 1) THEN 2 ELSE 1 ELSE 0
    IN IF Len(s) < 8 THEN IF s = <<>> THEN Error ELSE Last4(SubSeq(s, 1, Len(s) - trail))
       ELSE IF ~Is64(SubSeq(s, 1, 4)) THEN Error
       ELSE IF rest = Error THEN Error ELSE Bytes(s) \o rest

-----------------------------------------------------------------------------
(* crc16: the table holds the remainders by the polynomial 0x1021.          *)
Shifted(r) == IF r >= 32768 THEN ((2 * r) % 65536) ^^ 4129 ELSE 2 * r
RECURSIVE Times(_, _)
Times(r, n) == IF n = 0 THEN r ELSE Times(Shifted(r), n - 1)
crc16tab == [b \in 0..255 |-> Times(b * 256, 8)]
crc16(s, crc0) ==
    FoldLeft(LAMBDA crc, b : ((crc * 256) % 65536) ^^ crc16tab[(crc \div 256) ^^ b], crc0, s)

-----------------------------------------------------------------------------
(* md5: the blocks absorbed so far in the place of a, b, c and d, what      *)
(* waits in the buffer, and the count of the bytes in two parts.            *)
Context == [blocks |-> <<>>, buffer |-> <<>>, lo |-> 0, hi |-> 0]
md5_init == Context

\* body takes whole blocks, and gives what is left.
RECURSIVE body(_, _)
body(ctx, s) ==
    IF Len(s) < Block THEN [ctx EXCEPT !.buffer = s]
    ELSE body([ctx EXCEPT !.blocks = Append(@, SubSeq(s, 1, Block))], From(s, Block + 1))

\* A mutant: the carry is lost.
md5_update_nocarry(ctx, data) ==
    LET lo == (ctx.lo + Len(data)) % 2^LowBits
        counted == [ctx EXCEPT !.lo = lo, !.hi = @ + Len(data) \div 2^LowBits]
    IN body(counted, SubSeq(ctx.buffer, 1, ctx.lo % Block) \o data)

(* The buffer is what the last call left of it: the count says how much of  *)
(* it waits.                                                                *)
md5_update(ctx, data) ==
    LET lo == (ctx.lo + Len(data)) % 2^LowBits
        hi == ctx.hi + (IF lo < ctx.lo THEN 1 ELSE 0) + Len(data) \div 2^LowBits
        used == ctx.lo % Block
        counted == [ctx EXCEPT !.lo = lo, !.hi = hi]
    IN body(counted, SubSeq(ctx.buffer, 1, used) \o data)

md5_finish(ctx) ==
    LET used == ctx.lo % Block
        start == SubSeq(ctx.buffer, 1, used) \o <<128>>
        length == <<ctx.lo * 8, ctx.hi>>
        room == Block - Len(start) - Len(length)
        zeros == [i \in 1..(IF room < 0 THEN room + Block ELSE room) |-> 0]
    IN body(ctx, start \o zeros \o length).blocks
md5sum(s) == md5_finish(md5_update(md5_init, s))
==========================================================================
