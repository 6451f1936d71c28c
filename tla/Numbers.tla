------------------------------ MODULE Numbers ------------------------------
(* Numbers and their texts: base/str.cc reads them, base/fast.cc writes     *)
(* them.  A number of 64 bits has Wide bits here and one of 32 has Narrow;  *)
(* Shift gives the bits of the suffixes; a group of the table of decimals   *)
(* holds GroupDigits digits.                                                *)
LOCAL INSTANCE Integers
LOCAL INSTANCE Sequences
LOCAL INSTANCE SequencesExt
LOCAL INSTANCE FiniteSetsExt

CONSTANTS Wide, Narrow, Shift, GroupDigits

Figures == <<"0", "1", "2", "3", "4", "5", "6", "7", "8", "9",
             "a", "b", "c", "d", "e", "f">>
Figure(n) == Figures[n + 1]
Worth(c) == (CHOOSE i \in DOMAIN Figures : Figures[i] = c) - 1
IsFigure(c, base) == \E i \in 1..base : Figures[i] = c
Value(t, base) == FoldLeft(LAMBDA n, c : n * base + Worth(c), 0, t)

MaxInt(w) == 2^(w - 1) - 1
MinInt(w) == -(2^(w - 1))
MaxUint(w) == 2^w - 1
Signed(n, w) == IF n % 2^w > MaxInt(w) THEN (n % 2^w) - 2^w ELSE n % 2^w

(* strtoll and strtoull with base 0: a sign, then octal after a 0, else     *)
(* decimal; end is what is left.  Without digits it is the whole text.      *)
Signs == {"-", "+"}
Unsigned(t) == IF t # <<>> /\ t[1] \in Signs THEN Tail(t) ELSE t
BaseOf(body) == IF body # <<>> /\ body[1] = "0" THEN 8 ELSE 10
Figured(body, base) ==
    CHOOSE k \in 0..Len(body) :
        /\ \A i \in 1..k : IsFigure(body[i], base)
        /\ k < Len(body) => ~IsFigure(body[k + 1], base)
Reading(t, body, base, n) ==
    [negative |-> t # <<>> /\ t[1] = "-", size |-> Value(SubSeq(body, 1, n), base),
     end |-> IF n = 0 THEN t ELSE SubSeq(body, n + 1, Len(body))]
ReadBody(t, body, base) == Reading(t, body, base, Figured(body, base))
Read(t) == ReadBody(t, Unsigned(t), BaseOf(Unsigned(t)))
Bounded(x, end, low, high, errno) ==
    IF x > high THEN [x |-> high, end |-> end, errno |-> "ERANGE"]
    ELSE IF x < low THEN [x |-> low, end |-> end, errno |-> "ERANGE"]
    ELSE [x |-> x, end |-> end, errno |-> errno]
SignedOf(r, errno) ==
    Bounded(IF r.negative THEN -r.size ELSE r.size, r.end, MinInt(Wide), MaxInt(Wide), errno)
UnsignedOf(r, errno) ==
    IF r.size > MaxUint(Wide) THEN [x |-> MaxUint(Wide), end |-> r.end, errno |-> "ERANGE"]
    ELSE [x |-> (IF r.negative THEN -r.size ELSE r.size) % 2^Wide, end |-> r.end, errno |-> errno]
strtoll(t, errno) == SignedOf(Read(t), errno)
strtoull(t, errno) == UnsignedOf(Read(t), errno)

\* What a call gives: a value, or an exception; and the errno it leaves.
Gives(v, errno) == [ok |-> TRUE, val |-> v, errno |-> errno]
Throws(errno) == [ok |-> FALSE, val |-> 0, errno |-> errno]

_Shift(c) == IF c \in DOMAIN Shift THEN Shift[c] ELSE 0
Suffix(end) == IF Len(end) = 1 THEN _Shift(end[1]) ELSE 0

\* r is what strtoll gave, shift what the character after it says.
Shifted(r, shift) ==
    IF r.errno = "ERANGE" /\ r.x \in {MinInt(Wide), MaxInt(Wide)} THEN Throws("0")
    ELSE IF r.end = <<>> THEN Gives(r.x, r.errno)
    ELSE IF shift = 0 THEN Throws(r.errno)
    ELSE IF r.x < MinInt(Wide) \div 2^shift \/ r.x > MaxInt(Wide) \div 2^shift
    THEN Throws(r.errno)
    ELSE Gives(r.x * 2^shift, r.errno)
SuffixRead(r) == Shifted(r, Suffix(r.end))
to_int64(s, errno) ==
    IF s = <<>> THEN Gives(0, errno) ELSE SuffixRead(strtoll(s, errno))

\* The size of a number read as signed: that of the least one overflows.
Abs(x) == IF x < 0 THEN Signed(-x, Wide) ELSE x
UnsignedShifted(r, x, shift) ==
    IF r.errno = "ERANGE" /\ r.x = MaxUint(Wide) THEN Throws("0")
    ELSE IF r.end = <<>> THEN Gives(r.x, r.errno)
    ELSE IF shift = 0 \/ Abs(x) > MaxUint(Wide) \div 2^shift THEN Throws(r.errno)
    ELSE Gives((x * 2^shift) % 2^Wide, r.errno)
UnsignedSuffixRead(r) == UnsignedShifted(r, Signed(r.x, Wide), Suffix(r.end))
to_uint64(s, errno) ==
    IF s = <<>> THEN Gives(0, errno) ELSE UnsignedSuffixRead(strtoull(s, errno))

Narrowed(r) ==
    IF r.ok /\ r.val \notin MinInt(Narrow)..MaxInt(Narrow) THEN Throws(r.errno) ELSE r
to_int32(s, errno) == Narrowed(to_int64(s, errno))
UnsignedNarrowed(r) ==
    IF ~r.ok THEN r
    ELSE IF Abs(Signed(r.val, Wide)) > MaxUint(Narrow) THEN Throws(r.errno)
    ELSE Gives(r.val % 2^Narrow, r.errno)
to_uint32(s, errno) == UnsignedNarrowed(to_uint64(s, errno))

to_bool(s) ==
    IF s \in {<<"f","a","l","s","e">>, <<"0">>} THEN Gives(FALSE, "0")
    ELSE IF s \in {<<"t","r","u","e">>, <<"1">>} THEN Gives(TRUE, "0")
    ELSE Throws("0")

(* strtod: a text that is a number of some size, or not a number.  One too  *)
(* small to be represented is 0 and sets errno as well.                     *)
to_double(s, errno) ==
    LET left == IF s \in {"huge", "tiny"} THEN "ERANGE" ELSE errno IN
    IF left = "ERANGE" /\ s = "huge" THEN Throws("0")
    ELSE IF s = "text" THEN Throws(left) ELSE Gives(IF s = "tiny" THEN 0 ELSE 1, left)

-----------------------------------------------------------------------------
(* The table of decimals: a group with all its digits, and how many count.  *)
Group == 10^GroupDigits
Padded(n, base, k) == [i \in 1..k |-> Figure((n \div base^(k - i)) % base)]
Short(n) ==
    SelectSeq([i \in 1..GroupDigits |->
                 IF i < GroupDigits /\ n < 10^(GroupDigits - i) THEN "" ELSE
                    Padded(n, 10, GroupDigits)[i]], LAMBDA c : c # "")

(* Groups from the right while the number is larger than one; the table     *)
(* has no entry past a group, and the buffer room for n of them.            *)
RECURSIVE Decimal(_, _)
Decimal(v, n) ==
    IF v < Group \/ n = 1 THEN Short(v)
    ELSE Decimal(v \div Group, n - 1) \o Padded(v % Group, 10, GroupDigits)
u32toa(v) == Decimal(v, 3)
u64toa(v) == Decimal(v, 5)
i64toa(v) == IF v >= 0 THEN u64toa(v) ELSE <<"-">> \o u64toa(-v)

(* Bytes as pairs of hexadecimal figures, without a leading 0.              *)
RECURSIVE Bytes(_, _)
Bytes(v, n) ==
    IF n = 0 THEN <<>>
    ELSE (IF v < 256 THEN <<>> ELSE Bytes(v \div 256, n - 1)) \o Padded(v % 256, 16, 2)
Trimmed(b) == IF b[1] = "0" THEN Tail(b) ELSE b
Hex(v, n) == <<"0", "x">> \o Trimmed(Bytes(v, n))
u32toh(v) == Hex(v, 4)
==========================================================================
