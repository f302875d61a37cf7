----------------------------- MODULE BigIntText -----------------------------
(***************************************************************************)
(* Numerals read into and written from big integers.  A numeral is the     *)
(* sequence of its characters, most significant first: a digit is its      *)
(* value, and a value the base has no digit for is an unexpected           *)
(* character.  The buffer may go on behind the numeral's end, Nul.         *)
(***************************************************************************)
EXTENDS BigInt

CONSTANT ChunkDigits,   \* MAX_CHUNK_SIZE: decimal digits taken in at once
         Numeral        \* the numerals read: [base, text, negative]

VARIABLES text, base, number, value
vars == <<text, base, number, value>>

RECURSIVE NumeralValue(_, _)
NumeralValue(t, b) == IF t = <<>> THEN 0 ELSE NumeralValue(Front(t), b) * b + Last(t)

\* An array for w bits, with a digit to spare.
Blank(w) == [i \in 0..BitsToDigits(w) |-> 0]

Nul == -1
Unparsed == <<>>    \* in the place of an array: an unexpected character

\* The characters before the first one at which Stops holds.
Before(t, Stops(_)) ==
    LET stops == {k \in 1..Len(t) : Stops(t[k])} IN IF stops = {} THEN t ELSE SubSeq(t, 1, Lowest(stops) - 1)
Terminated(t) == Before(t, LAMBDA c : c = Nul)

(***************************************************************************)
(* Reading.                                                                *)
(***************************************************************************)
RECURSIVE Parse10Chunks(_, _, _)
Parse10Chunks(d, w, t) ==
    LET room == SubSeq(t, 1, Smaller(ChunkDigits, Len(t)))
        chunk == Before(room, LAMBDA c : c \notin 0..9)
        rest == SubSeq(t, Len(chunk) + 1, Len(t))
        tens == SetUnsignedInteger(Blank(w), w, 10 ^ Len(chunk))
        scaled == UnsignedMultiply(d, d, tens, w, w)
        next == Add(scaled, SetUnsignedInteger(Blank(w), w, NumeralValue(chunk, 10)), w)
    IN  IF t = <<>> THEN d
        ELSE IF chunk = room THEN Parse10Chunks(next, w, rest)
        ELSE IF Head(rest) = Nul THEN next ELSE Unparsed

RECURSIVE ParseBits(_, _, _, _)
ParseBits(d, w, t, bits) ==
    IF t = <<>> \/ Head(t) = Nul THEN d
    ELSE IF Head(t) \notin 0..2 ^ bits - 1 THEN Unparsed
    ELSE ParseBits(SetBits(d, Head(t), (Len(t) - 1) * bits, bits, w), w, Tail(t), bits)

BitsPerDigit(b) == CASE b = 2 -> 1 [] b = 8 -> 3 [] b = 16 -> 4

\* The width a numeral gets: 3.322 bits for a decimal digit.
NumeralWidth(t, b) ==
    IF b = 10 THEN 1 + (Len(t) * 3322 + 999) \div 1000 ELSE Len(t) * BitsPerDigit(b)

Parse(buffer, b) ==
    LET t == Terminated(buffer)
        w == NumeralWidth(t, b)
        zero == SetUnsignedInteger(Blank(w), w, 0)
    IN  [width |-> w, digits |-> IF b = 10 THEN Parse10Chunks(zero, w, t)
                                 ELSE ParseBits(zero, w, t, BitsPerDigit(b))]

\* kefir_bigint_resize_cast_unsigned: a wider array, filled with zeros.
Widened(n, w) ==
    LET longer == [i \in DOMAIN Blank(w) |-> IF i \in DOMAIN n.digits THEN n.digits[i] ELSE 0]
    IN  IF w > n.width THEN [width |-> w, digits |-> CastUnsigned(longer, n.width, w)] ELSE n

Rejected == [width |-> -1, digits |-> Unparsed]

\* kefir_bigint_signed_parse: room for a sign bit, then the minus sign.
SignedParse(negative, t, b) ==
    LET n == Parse(t, b)    \* the text behind the minus sign
        room == Widened(n, n.width + GetSign(n.digits, n.width))
    IN  IF n.digits = Unparsed THEN Rejected
        ELSE IF negative THEN [room EXCEPT !.digits = Negate(@, room.width)] ELSE room

(***************************************************************************)
(* Writing.                                                                *)
(***************************************************************************)
RECURSIVE Format10Digits(_, _, _)
Format10Digits(d, w, room) ==
    LET q == UnsignedDivide(d, Blank(w), SetUnsignedInteger(Blank(w), w, 10), w, w)
    IN  IF room = 0 \/ IsZero(d, w) THEN <<>>
        ELSE Append(Format10Digits(q.quotient, w, room - 1), GetUnsignedValue(q.remainder, w))

Format10RoundedDown(n) ==
    LET wide == Widened(n, DigitBit)
        t == Format10Digits(wide.digits, wide.width, (n.width * 302) \div 1000)
    IN  IF t = <<>> THEN <<0>> ELSE t

\* The buffer: 0.302 decimal digits for a bit.
Format10(n) ==
    LET wide == Widened(n, DigitBit)
        t == Format10Digits(wide.digits, wide.width, (n.width * 302 + 999) \div 1000)
    IN  IF t = <<>> THEN <<0>> ELSE t

RECURSIVE StripZeros(_)
StripZeros(t) == IF Len(t) > 1 /\ Head(t) = 0 THEN StripZeros(Tail(t)) ELSE t

FormatBits(n, bits) ==
    LET room == (n.width + bits - 1) \div bits
    IN  IF IsZero(n.digits, n.width) THEN <<0>>
        ELSE StripZeros([k \in 1..room |-> GetBits(n.digits, (room - k) * bits, bits, n.width)])

Format(n, b) == IF b = 10 THEN Format10(n) ELSE FormatBits(n, BitsPerDigit(b))

-----------------------------------------------------------------------------
None == [width |-> 0, digits |-> <<>>]

Init == \E n \in Numeral :
    /\ text = n.text /\ base = n.base /\ number = None
    /\ value = LET v == NumeralValue(Terminated(n.text), n.base) IN IF n.negative THEN -v ELSE v

\* A rejected numeral is rejected whenever it is read.
Read == /\ number \in {None, Rejected}
        /\ number' = SignedParse(value < 0, text, base)
        /\ UNCHANGED <<text, base, value>>

\* A number is written as the unsigned one its bits are.
Write(b) == /\ number \notin {None, Rejected}
            /\ base' = b
            /\ text' = Format(number, b)
            /\ value' = value % 2 ^ number.width
            /\ number' = None

Next == Read \/ \E b \in {2, 8, 10, 16} : Write(b)
Spec == Init /\ [][Next]_vars

\* A numeral is read as a number of the width computed from its length, with room for its sign;
\* a text is rejected if, and only if, a character before its end is not a digit of the base.
ReadsNumber ==
    number # None =>
      IF \E k \in DOMAIN Terminated(text) : text[k] >= base THEN number = Rejected
      ELSE
        LET v == DigitsValue(number.digits, BitsToDigits(number.width)) % 2 ^ number.width
        IN  value = IF v >= 2 ^ (number.width - 1) THEN v - 2 ^ number.width ELSE v
=============================================================================
