----------------------------- MODULE RbpfArith -----------------------------
(***************************************************************************)
(* The register arithmetic of the eBPF interpreter (l1x-rbpf lib.rs) and   *)
(* the integer operations of the math system call (syscall_math.rs).       *)
(* A register has 2 * Bits bits, a half of it Bits (64 and 32 in the code, *)
(* Bits is a power of two).  An immediate is the operand it is extended    *)
(* to.  An operation returns the set of its result, or the empty set where *)
(* the code panics.                                                        *)
(***************************************************************************)
EXTENDS Integers, Bitwise

CONSTANTS Bits, OverflowChecks

HalfModulus == 2 ^ Bits
WordModulus == 2 ^ (2 * Bits)
Word == 0 .. WordModulus - 1

u32(w) == w % HalfModulus
Signed(w, modulus) == IF 2 * w >= modulus THEN w - modulus ELSE w

-----------------------------------------------------------------------------
(* BPF_ALU64 *)

ARSH64(d, s) ==
  IF OverflowChecks /\ s >= 2 * Bits THEN {}
  ELSE {(Signed(d, WordModulus) \div 2 ^ (s % (2 * Bits))) % WordModulus}

NEG64(d) == IF OverflowChecks /\ 2 * d = WordModulus THEN {} ELSE {(-d) % WordModulus}

alu64(op, d, s) ==
  CASE op = "add" -> {(d + s) % WordModulus}
    [] op = "sub" -> {(d - s) % WordModulus}
    [] op = "mul" -> {(d * s) % WordModulus}
    [] op = "div" -> IF s = 0 THEN {0} ELSE {d \div s}
    [] op = "mod" -> IF s = 0 THEN {d} ELSE {d % s}
    [] op = "or" -> {d | s}
    [] op = "and" -> {d & s}
    [] op = "xor" -> {d ^^ s}
    [] op = "lsh" -> {(d * 2 ^ (s % (2 * Bits))) % WordModulus}
    [] op = "rsh" -> {d \div 2 ^ (s % (2 * Bits))}
    [] op = "arsh" -> ARSH64(d, s)
    [] op = "mov" -> {s}
    [] op = "neg" -> NEG64(d)

-----------------------------------------------------------------------------
(* BPF_ALU: the low halves; the guard of a division is on the whole register *)

DIV32(d, s) == IF s = 0 THEN {0} ELSE IF u32(s) = 0 THEN {} ELSE {u32(d) \div u32(s)}
MOD32(d, s) == IF s = 0 THEN {d} ELSE IF u32(s) = 0 THEN {} ELSE {u32(d) % u32(s)}

ARSH32(d, s) == (Signed(u32(d), HalfModulus) \div 2 ^ (s % Bits)) % HalfModulus

alu32(op, d, s) ==
  CASE op = "add" -> {(u32(d) + u32(s)) % HalfModulus}
    [] op = "sub" -> {(u32(d) - u32(s)) % HalfModulus}
    [] op = "mul" -> {(u32(d) * u32(s)) % HalfModulus}
    [] op = "div" -> DIV32(d, s)
    [] op = "mod" -> MOD32(d, s)
    [] op = "or" -> {u32(d) | u32(s)}
    [] op = "and" -> {u32(d) & u32(s)}
    [] op = "xor" -> {u32(d) ^^ u32(s)}
    [] op = "lsh" -> {(u32(d) * 2 ^ (s % Bits)) % HalfModulus}
    [] op = "rsh" -> {u32(d) \div 2 ^ (s % Bits)}
    [] op = "arsh" -> {ARSH32(d, s)}
    [] op = "mov" -> {u32(s)}
    [] op = "neg" -> {(-u32(d)) % HalfModulus}

-----------------------------------------------------------------------------
(* BPF_JMP and BPF_JMP32: whether the jump is taken *)

Compared(op, d, s, modulus) ==
  CASE op = "jeq" -> d = s
    [] op = "jgt" -> d > s
    [] op = "jge" -> d >= s
    [] op = "jlt" -> d < s
    [] op = "jle" -> d <= s
    [] op = "jset" -> (d & s) # 0
    [] op = "jne" -> d # s
    [] op = "jsgt" -> Signed(d, modulus) > Signed(s, modulus)
    [] op = "jsge" -> Signed(d, modulus) >= Signed(s, modulus)
    [] op = "jslt" -> Signed(d, modulus) < Signed(s, modulus)
    [] op = "jsle" -> Signed(d, modulus) <= Signed(s, modulus)

jmp64(op, d, s) == Compared(op, d, s, WordModulus)
jmp32(op, d, s) == Compared(op, u32(d), u32(s), HalfModulus)

-----------------------------------------------------------------------------
(* syscall_math.rs *)

Truncated(a, b) ==
  LET abs(i) == IF i < 0 THEN -i ELSE i
  IN  IF (a < 0) = (b < 0) THEN abs(a) \div abs(b) ELSE -(abs(a) \div abs(b))

\* I64DivS, I32DivS: an error for a zero divisor, a panic for the least value
\* divided by -1.
DivS(a, b, modulus) ==
  LET x == Signed(a % modulus, modulus)
      y == Signed(b % modulus, modulus)
  IN  IF y = 0 \/ (y = -1 /\ 2 * x = -modulus) THEN {} ELSE {Truncated(x, y) % WordModulus}

RemS(a, b, modulus) ==
  LET x == Signed(a % modulus, modulus)
      y == Signed(b % modulus, modulus)
  IN  IF y = 0 \/ (y = -1 /\ 2 * x = -modulus) THEN {}
      ELSE {(x - y * Truncated(x, y)) % WordModulus}

leading_zeros(w, bits) ==
  CHOOSE n \in 0 .. bits : w < 2 ^ (bits - n) /\ (n = bits \/ w >= 2 ^ (bits - n - 1))
trailing_zeros(w, bits) ==
  CHOOSE n \in 0 .. bits : w % 2 ^ n = 0 /\ (n = bits \/ w % 2 ^ (n + 1) # 0)

-----------------------------------------------------------------------------
Inverted == [jeq |-> "jne", jgt |-> "jle", jge |-> "jlt", jsgt |-> "jsle", jsge |-> "jslt"]

\* The 32-bit operations of the interpreter are the 64-bit ones on the low half:
\* ring and bit operations commute with the truncation, an arithmetic shift of
\* the half is that of its sign extension, a result is zero-extended, and a
\* division that does not panic satisfies the division identity.  A jump and its
\* opposite are never both taken, and for zero-extended operands the unsigned
\* 32-bit jumps are the 64-bit ones.
HalvesAgree(d, s) ==
  /\ \A op \in {"add", "sub", "mul", "or", "and", "xor", "mov", "neg"} :
       \A w \in alu64(op, d, s) : alu32(op, d, s) = {u32(w)}
  /\ \A op \in {"lsh", "rsh"} : u32(s) < Bits /\ d < HalfModulus =>
       \A w \in alu64(op, d, u32(s)) : alu32(op, d, s) = {u32(w)}
  /\ u32(s) < Bits => \A w \in ARSH64(Signed(u32(d), HalfModulus) % WordModulus, u32(s)) :
                        alu32("arsh", d, s) = {u32(w)}
  /\ \A q \in DIV32(d, s), r \in MOD32(d, s) : s # 0 =>
       u32(d) = q * u32(s) + r /\ r < u32(s) /\ q < HalfModulus
  /\ \A op \in DOMAIN Inverted : /\ jmp64(op, d, s) # jmp64(Inverted[op], d, s)
                                 /\ jmp32(op, d, s) # jmp32(Inverted[op], d, s)
                                 /\ d < HalfModulus /\ s < HalfModulus
                                      /\ op \in {"jeq", "jgt", "jge"} => jmp32(op, d, s) = jmp64(op, d, s)

\* Signed division of the math system call: the 32-bit form agrees with the
\* 64-bit form on sign-extended operands, which are what the remainder and the
\* divisor rebuild, and counting zeros of a half is counting those of the word
\* without the upper half.
MathAgrees(d, s) ==
  LET x == Signed(u32(d), HalfModulus) % WordModulus
      y == Signed(u32(s), HalfModulus) % WordModulus
  IN  /\ \A q \in DivS(d, s, HalfModulus) :
           DivS(x, y, WordModulus) = {q} /\ RemS(d, s, HalfModulus) = {(x - q * y) % WordModulus}
      /\ leading_zeros(u32(d), 2 * Bits) = Bits + leading_zeros(u32(d), Bits)
      /\ u32(d) # 0 => trailing_zeros(u32(d), Bits) = trailing_zeros(d, 2 * Bits)
=============================================================================
