------------------------------ MODULE MCBigInt ------------------------------
(***************************************************************************)
(* The arithmetic on digits of two bits and machine integers of four, with *)
(* widths up to three digits, the last of them full or not; and numerals   *)
(* of up to four digits, leading zeros and unexpected characters included, *)
(* on digits of eight bits.                                                *)
(***************************************************************************)
EXTENDS Integers, Sequences

VARIABLES part, x, y, text, base, number, value
calculatorVars == <<x, y>>
textVars == <<text, base, number, value>>

C == INSTANCE BigIntCalculator WITH DigitBit <- 2, ValueBit <- 4, MantDig <- 2, MaxExp <- 6,
        Width <- {1, 4, 5, 6}, Value <- {6, 9}

Texts(digits, n) == UNION {[1..k -> digits] : k \in 1..n}
Of(b, texts) == {[base |-> b, text |-> t, negative |-> s] : t \in texts, s \in BOOLEAN}
\* Texts in a buffer that goes on behind their end, Nul.
Longer(texts) == {t \o <<-1, 1>> : t \in texts}
Numerals ==
    UNION {Of(10, Texts({0, 1, 5, 9}, 4)), Of(10, Texts({1, 9, 11}, 4)), Of(10, Longer(Texts({5, 11}, 3))),
           Of(16, Texts({0, 1, 10, 15}, 3)), Of(16, Texts({15, 16}, 3)),
           Of(8, Texts({0, 3, 7}, 4)), Of(8, Texts({7, 9}, 3)), Of(8, Longer(Texts({3}, 3))),
           Of(2, Texts({0, 1}, 6)), Of(2, Texts({1, 2}, 3))}
T == INSTANCE BigIntText WITH DigitBit <- 8, ValueBit <- 16, ChunkDigits <- 2, Numeral <- Numerals

Init ==
    \/ part = "numbers" /\ C!Init /\ text = <<>> /\ base = 0 /\ number = <<>> /\ value = 0
    \/ part = "numerals" /\ T!Init /\ x = <<>> /\ y = <<>>

Next ==
    \/ part = "numbers" /\ C!Next /\ UNCHANGED <<part, textVars>>
    \/ part = "numerals" /\ T!Next /\ UNCHANGED <<part, calculatorVars>>

Spec == Init /\ [][Next]_<<part, calculatorVars, textVars>>

\* Whatever was computed before, and whatever the operations left above the width or found in
\* fresh memory, the low bits of the digits are the number the operations should have produced;
\* the product of two integers is exact in any width from theirs to twice theirs and a bit.
Denotes == part = "numbers" => C!Denotes /\ C!ProductsExact

\* What depends on x only is evaluated once: where y is a copy of it.
Single == part = "numbers" /\ x = y

\* Queries and comparisons answer for the number, not for what is above its width.
AnswersExact == (Single => C!QueriesExact) /\ (part = "numbers" => C!ComparesExact)

\* Conversion to floating point rounds to the nearest, ties to even, and saturates at infinity;
\* conversion back truncates toward zero.
RoundsToNearest == Single => C!RoundsToNearest /\ C!TruncatesToInteger

\* A numeral is read as its number, in a width that is computed from its length, and rejected
\* exactly if it has a character that is no digit of its base; a number is written completely, whatever its base, and without leading zeros.
NumeralsExact ==
    [][part = "numerals" =>
         /\ T!ReadsNumber /\ T!ReadsNumber'
         /\ number \notin {T!None, T!Rejected} =>
              /\ T!NumeralValue(text', base') = value'
              /\ Len(text') > 1 => Head(text') # 0]_textVars
=============================================================================
