------------------------------- MODULE Amd64 -------------------------------
(***************************************************************************)
(* The part of the AMD64 instruction set the code generator emits for      *)
(* integers, at the scaled widths of OptIR.  The machine is external to    *)
(* the repository: what is here is what the generated code relies on.      *)
(*                                                                         *)
(* A virtual register is <<r, name>>: the register name used by the code   *)
(* of instruction r.  <<0, "rax">> and the like are virtual registers that *)
(* carry a requirement for that physical register; the registers the       *)
(* register allocator keeps apart are different here.                      *)
(*                                                                         *)
(* A machine state m has the registers written so far (reg), the five      *)
(* flags, the memory (mem), and fault, which a divide error sets.  What an *)
(* instruction leaves undefined, and what a register that was not written  *)
(* holds, is m.junk, all zeros or all ones.                                *)
(***************************************************************************)
EXTENDS OptIR

Rax == <<0, "rax">>
Rcx == <<0, "rcx">>
Rdx == <<0, "rdx">>

(***************************************************************************)
(* Operands: part of a register, the second byte of a register, a constant *)
(* or w bits of memory at the address in a register plus an offset.        *)
(***************************************************************************)
R(v, w) == [kind |-> "reg", v |-> v, w |-> w, n |-> 0]
High8(v) == [kind |-> "high", v |-> v, w |-> 8, n |-> 0]
Imm(n, w) == [kind |-> "imm", v |-> <<0, "">>, w |-> w, n |-> n]
Mem(v, off, w) == [kind |-> "mem", v |-> v, w |-> w, n |-> off]

JunkBits(m) == IF m.junk = 0 THEN 0 ELSE Span(64) - 1
Get(m, v) == IF v \in DOMAIN m.reg THEN m.reg[v] ELSE JunkBits(m)

Bytes(w) == w \div 8
Cell(m, a) == IF a \in DOMAIN m.mem THEN m.mem[a] ELSE JunkBits(m) % 2 ^ Bits[8]

\* Memory is a function from byte addresses; widths scale with the bytes in it.
Load(m, a, w) ==
    LET Byte(k) == Cell(m, Pattern(a + k)) * 2 ^ (k * Bits[8])
    IN  FoldLeft(LAMBDA s, k : s + Byte(k - 1), 0, <<>> \o [k \in 1..Bytes(w) |-> k]) % Span(w)

StoreAt(m, a, w, n) ==
    LET at == {Pattern(a + k) : k \in 0..(Bytes(w) - 1)}
        off(x) == Pattern(x - a)
    IN  [m EXCEPT !.mem = [x \in DOMAIN m.mem \union at |->
                              IF x \in at THEN (n \div 2 ^ (off(x) * Bits[8])) % 2 ^ Bits[8]
                              ELSE m.mem[x]]]

Read(m, o) ==
    CASE o.kind = "imm" -> o.n % Span(o.w)
      [] o.kind = "reg" -> Low(Get(m, o.v), o.w)
      [] o.kind = "high" -> (Get(m, o.v) \div Span(8)) % Span(8)
      [] o.kind = "mem" -> Load(m, Pattern(Get(m, o.v) + o.n), o.w)

\* A write to 32 bits of a register clears the rest, a write to 8 or 16 bits keeps it.
Write(m, o, n) ==
    IF o.kind = "mem" THEN StoreAt(m, Pattern(Get(m, o.v) + o.n), o.w, n % Span(o.w))
    ELSE LET old == Get(m, o.v)
             new == IF o.w \in {32, 64} THEN Low(n, o.w) ELSE old - Low(old, o.w) + Low(n, o.w)
         IN  [m EXCEPT !.reg = (o.v :> new) @@ m.reg]

(***************************************************************************)
(* Flags.                                                                  *)
(***************************************************************************)
Junk(m) == m.junk = 1
NoFlags == [zf |-> FALSE, sf |-> FALSE, cf |-> FALSE, of |-> FALSE, pf |-> FALSE]

\* The parity flag is only looked at after floating-point comparisons.
Flags(m, n, w, cf, of) ==
    [zf |-> Low(n, w) = 0, sf |-> Low(n, w) * 2 >= Span(w), cf |-> cf, of |-> of, pf |-> Junk(m)]

Undecided(m, cf, of) == [zf |-> Junk(m), sf |-> Junk(m), cf |-> cf, of |-> of, pf |-> Junk(m)]

Fits(n, w) == 2 * n >= -Span(w) /\ 2 * n < Span(w)

Cond(f, cc) ==
    CASE cc \in {"e", "z"} -> f.zf
      [] cc \in {"ne", "nz"} -> ~f.zf
      [] cc = "g" -> ~f.zf /\ f.sf = f.of
      [] cc = "ge" -> f.sf = f.of
      [] cc = "l" -> f.sf # f.of
      [] cc = "le" -> f.zf \/ f.sf # f.of
      [] cc = "a" -> ~f.cf /\ ~f.zf
      [] cc \in {"ae", "nb"} -> ~f.cf
      [] cc \in {"b", "c"} -> f.cf
      [] cc = "be" -> f.cf \/ f.zf
      [] cc = "s" -> f.sf
      [] cc = "ns" -> ~f.sf
      [] cc = "o" -> f.of
      [] cc = "p" -> f.pf
      [] cc = "np" -> ~f.pf

(***************************************************************************)
(* Instructions: <<mnemonic, operands>>, <<"set", cc, operand>>,           *)
(* <<"cmov", cc, operands>>, <<"j", cc, label>>, <<"jmp", label>> and      *)
(* <<"label", label>>.                                                     *)
(***************************************************************************)
Result(m, o, n, f) == [Write(m, o, n) EXCEPT !.flags = f]

Arith(m, i) ==
    LET w == i[2].w
        a == Low(Read(m, i[2]), w)
        b == Low(Read(m, i[3]), w)
        s == Signed(a, w)
        t == Signed(b, w)
        c == Bit(i[1] \in {"adc", "sbb"} /\ m.flags.cf)
        sum == a + b + c
        dif == a - b - c
    IN  CASE i[1] \in {"add", "adc"} -> Result(m, i[2], sum, Flags(m, sum, w, sum >= Span(w), ~Fits(s + t + c, w)))
          [] i[1] \in {"sub", "sbb"} -> Result(m, i[2], dif, Flags(m, dif, w, dif < 0, ~Fits(s - t - c, w)))
          [] i[1] = "cmp" -> [m EXCEPT !.flags = Flags(m, dif, w, dif < 0, ~Fits(s - t, w))]
          [] i[1] = "test" -> [m EXCEPT !.flags = Flags(m, a & b, w, FALSE, FALSE)]
          [] i[1] = "and" -> Result(m, i[2], a & b, Flags(m, a & b, w, FALSE, FALSE))
          [] i[1] = "or" -> Result(m, i[2], a | b, Flags(m, a | b, w, FALSE, FALSE))
          [] i[1] = "xor" -> Result(m, i[2], a ^^ b, Flags(m, a ^^ b, w, FALSE, FALSE))
          [] i[1] = "imul" -> Result(m, i[2], a * b, Undecided(m, ~Fits(s * t, w), ~Fits(s * t, w)))

\* The shift count is taken modulo the number of bits, and a count of zero keeps the flags.
Count(m, o) == Read(m, o) % Bits[64]

ShiftOp(m, i) ==
    LET w == i[2].w
        k == Count(m, i[3])
        a == Low(Read(m, i[2]), w)
        n == CASE i[1] = "shl" -> a * 2 ^ k
               [] i[1] = "shr" -> a \div 2 ^ k
               [] i[1] = "sar" -> Signed(a, w) \div 2 ^ k
    IN  IF k = 0 THEN Write(m, i[2], a) ELSE Result(m, i[2], n, Flags(m, n, w, Junk(m), Junk(m)))

\* shld and shrd shift bits of the second operand in.
DoubleShift(m, i) ==
    LET k == Count(m, i[4])
        a == Read(m, i[2])
        b == Read(m, i[3])
        n == IF i[1] = "shld" THEN a * 2 ^ k + b \div 2 ^ (Bits[64] - k)
             ELSE a \div 2 ^ k + b * 2 ^ (Bits[64] - k)
    IN  IF k = 0 THEN m ELSE Result(m, i[2], n, Flags(m, n, 64, Junk(m), Junk(m)))

\* The pair rdx:rax, or ax alone for bytes, that a division divides.
Dividend(m, w, signed) ==
    LET u == IF w = 8 THEN Low(Get(m, Rax), 16) ELSE Low(Get(m, Rdx), w) * Span(w) + Low(Get(m, Rax), w)
        span == IF w = 8 THEN Span(16) ELSE Span(w) * Span(w)
    IN  IF signed /\ 2 * u >= span THEN u - span ELSE u

Division(m, i) ==
    LET w == i[2].w
        signed == i[1] = "idiv"
        d == IF signed THEN Signed(Read(m, i[2]), w) ELSE Read(m, i[2])
        n == Dividend(m, w, signed)
        q == Truncated(n, d)
        fits == IF signed THEN Fits(q, w) ELSE q < Span(w)
        rem == n - d * q
        done == IF w = 8 THEN Write(m, R(Rax, 16), Low(q, 8) + Low(rem, 8) * Span(8))
                ELSE Write(Write(m, R(Rax, w), q), R(Rdx, w), rem)
    IN  IF d = 0 THEN [m EXCEPT !.fault = TRUE]
        ELSE IF ~fits THEN [m EXCEPT !.fault = TRUE]
        ELSE [done EXCEPT !.flags = Undecided(m, Junk(m), Junk(m))]

\* mul and the one-operand imul leave the double-width product in rdx:rax, or in ax.
Product(m, i) ==
    LET w == i[2].w
        signed == i[1] = "imul1"
        a == IF signed THEN Signed(Get(m, Rax), w) ELSE Low(Get(m, Rax), w)
        b == IF signed THEN Signed(Read(m, i[2]), w) ELSE Read(m, i[2])
        n == a * b
        lost == IF signed THEN ~Fits(n, w) ELSE n >= Span(w)
        done == IF w = 8 THEN Write(m, R(Rax, 16), n % Span(16))
                ELSE Write(Write(m, R(Rax, w), n), R(Rdx, w), n \div Span(w))
    IN  [done EXCEPT !.flags = Undecided(m, lost, lost)]

SignFill(m, w) == Write(m, R(Rdx, w), IF Signed(Get(m, Rax), w) < 0 THEN -1 ELSE 0)

Step(m, i) ==
    CASE i[1] \in {"add", "adc", "sub", "sbb", "cmp", "test", "and", "or", "xor", "imul"} -> Arith(m, i)
      [] i[1] \in {"mov", "movzx"} -> Write(m, i[2], Read(m, i[3]))
      [] i[1] = "movsx" -> Write(m, i[2], Signed(Read(m, i[3]), i[3].w))
      [] i[1] = "lea" -> Write(m, i[2], Get(m, i[3].v) + i[3].n)
      [] i[1] \in {"shl", "shr", "sar"} -> ShiftOp(m, i)
      [] i[1] \in {"shld", "shrd"} -> DoubleShift(m, i)
      [] i[1] = "not" -> Write(m, i[2], Span(i[2].w) - 1 - Read(m, i[2]))
      [] i[1] = "neg" ->
           LET a == Read(m, i[2])
               n == Span(i[2].w) - a
           IN  Result(m, i[2], n, Flags(m, n, i[2].w, a # 0, 2 * a = Span(i[2].w)))
      [] i[1] = "imul3" ->
           LET n == Signed(Read(m, i[3]), i[3].w) * Signed(Read(m, i[4]), i[4].w)
           IN  Result(m, i[2], n, Undecided(m, ~Fits(n, i[2].w), ~Fits(n, i[2].w)))
      [] i[1] \in {"mul", "imul1"} -> Product(m, i)
      [] i[1] \in {"div", "idiv"} -> Division(m, i)
      [] i[1] = "cwd" -> SignFill(m, 16)
      [] i[1] = "cdq" -> SignFill(m, 32)
      [] i[1] = "cqo" -> SignFill(m, 64)
      [] i[1] = "btc" -> Write(m, i[2], Read(m, i[2]) ^^ (2 ^ i[3].n))
      [] i[1] = "set" -> Write(m, i[3], Bit(Cond(m.flags, i[2])))
      [] i[1] = "cmov" -> Write(m, i[3], IF Cond(m.flags, i[2]) THEN Read(m, i[4]) ELSE Read(m, i[3]))
      [] i[1] \in {"label", "touch"} -> m

\* Execution from instruction k until the code ends or control leaves it; m.left is the
\* label outside the code that it was left for.
RECURSIVE Run(_, _, _)
Run(code, k, m) ==
    IF k > Len(code) \/ m.fault THEN m
    ELSE LET i == code[k]
             jumps == i[1] = "jmp" \/ (i[1] = "j" /\ Cond(m.flags, i[2]))
             label == i[Len(i)]
             here == {n \in DOMAIN code : code[n][1] = "label" /\ code[n][2] = label}
         IN  IF i[1] \notin {"j", "jmp"} THEN Run(code, k + 1, Step(m, i))
             ELSE IF ~jumps THEN Run(code, k + 1, m)
             ELSE IF here = {} THEN [m EXCEPT !.left = label]
             ELSE Run(code, CHOOSE n \in here : TRUE, m)

Machine(junk) ==
    [reg |-> <<>>, mem |-> <<>>, flags |-> NoFlags, fault |-> FALSE, left |-> 0, junk |-> junk]
=============================================================================
