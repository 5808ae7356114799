------------------------------ MODULE EvmArith ------------------------------
(***************************************************************************)
(* The word arithmetic of the EVM interpreter: evm_interpreter             *)
(* eval/arithmetic.rs, eval/bitwise.rs and the signed type of utils.rs.    *)
(* A word has Bytes bytes of ByteBits bits (32 and 8 in the code).         *)
(***************************************************************************)
EXTENDS Integers

CONSTANTS ByteBits, Bytes

Width == ByteBits * Bytes
Modulus == 2 ^ Width
Half == 2 ^ (Width - 1)
U256 == 0 .. Modulus - 1

-----------------------------------------------------------------------------
(* utils.rs: I256, a sign and a magnitude *)

I256(sign, abs) == <<sign, abs>>
I256_zero == I256("Zero", 0)
I256_min_value == I256("Minus", ((Modulus - 1) % Half) + 1)

I256_from(val) ==
  IF val = 0 THEN I256_zero
  ELSE IF val % Half = val THEN I256("Plus", val)
  ELSE I256("Minus", (Modulus - 1 - val) + 1)

U256_from(v) == IF v[1] = "Minus" THEN (Modulus - 1 - v[2] + 1) % Modulus ELSE v[2]

I256_less(a, b) ==
  \/ a[1] = "Minus" /\ b[1] # "Minus"
  \/ a[1] = "Zero" /\ b[1] = "Plus"
  \/ a[1] = "Minus" /\ b[1] = "Minus" /\ a[2] > b[2]
  \/ a[1] = "Plus" /\ b[1] = "Plus" /\ a[2] < b[2]

\* Mutant of I256_div: the overflow of the least value divided by -1 is not met.
I256_div_unguarded(a, b) ==
  IF b = I256_zero THEN I256_zero
  ELSE LET d == (a[2] \div b[2]) % Half
       IN  IF d = 0 THEN I256_zero
           ELSE IF a[1] = b[1] THEN I256("Plus", d) ELSE I256("Minus", d)

I256_div(a, b) ==
  IF b = I256_zero THEN I256_zero
  ELSE IF a = I256_min_value /\ b[2] = 1 THEN I256_min_value
  ELSE LET d == (a[2] \div b[2]) % Half
       IN  IF d = 0 THEN I256_zero
           ELSE IF a[1] = b[1] \/ {a[1], b[1]} = {"Plus", "Zero"} THEN I256("Plus", d)
           ELSE I256("Minus", d)

I256_rem(a, b) ==
  LET r == (a[2] % b[2]) % Half
  IN  IF r = 0 THEN I256_zero ELSE I256(a[1], r)

-----------------------------------------------------------------------------
(* eval/arithmetic.rs *)

div(op1, op2) == IF op2 = 0 THEN 0 ELSE op1 \div op2
sdiv(op1, op2) == U256_from(I256_div(I256_from(op1), I256_from(op2)))
rem(op1, op2) == IF op2 = 0 THEN 0 ELSE op1 % op2
srem(op1, op2) == IF op2 = 0 THEN 0 ELSE U256_from(I256_rem(I256_from(op1), I256_from(op2)))
addmod(op1, op2, op3) == IF op3 = 0 THEN 0 ELSE (op1 + op2) % op3
mulmod(op1, op2, op3) == IF op3 = 0 THEN 0 ELSE (op1 * op2) % op3

\* Square and multiply: the loop's r and op1 once the low n bits of op2 are used.
exp(op1, op2) ==
  LET loop[n \in 0 .. Width] ==
        IF n = 0 THEN [r |-> 1, b |-> op1]
        ELSE LET s == loop[n - 1]
                 bit == (op2 \div 2 ^ (n - 1)) % 2
             IN  [r |-> IF bit = 1 THEN (s.r * s.b) % Modulus ELSE s.r,
                  b |-> (s.b * s.b) % Modulus]
  IN  loop[Width].r

signextend(op1, op2) ==
  IF op1 >= Bytes THEN op2
  ELSE LET bit_index == ByteBits * op1 + ByteBits - 1
           mask == 2 ^ bit_index
       IN  IF (op2 \div mask) % 2 = 1 THEN (op2 % mask) + (Modulus - mask) ELSE op2 % mask

-----------------------------------------------------------------------------
(* eval/bitwise.rs *)

Bool(b) == IF b THEN 1 ELSE 0
slt(op1, op2) == Bool(I256_less(I256_from(op1), I256_from(op2)))
sgt(op1, op2) == Bool(I256_less(I256_from(op2), I256_from(op1)))
iszero(op1) == Bool(op1 = 0)
not(op1) == Modulus - 1 - op1

byte(op1, op2) ==
  LET bit(i) == (op2 \div 2 ^ (Width - 1 - (ByteBits - 1 - i + ByteBits * op1))) % 2
      sum[i \in 0 .. ByteBits] == IF i = 0 THEN 0 ELSE sum[i - 1] + bit(i - 1) * 2 ^ (i - 1)
  IN  IF op1 < Bytes THEN sum[ByteBits] ELSE 0

shl(shift, value) == IF value = 0 \/ shift >= Width THEN 0 ELSE (value * 2 ^ shift) % Modulus
shr(shift, value) == IF value = 0 \/ shift >= Width THEN 0 ELSE value \div 2 ^ shift

sar(shift, value) ==
  LET v == I256_from(value)
  IN  IF v = I256_zero \/ shift >= Width
      THEN IF v[1] = "Minus" THEN U256_from(I256("Minus", 1)) ELSE 0
      ELSE IF v[1] = "Minus" THEN U256_from(I256("Minus", ((v[2] - 1) \div 2 ^ shift) + 1))
      ELSE v[2] \div 2 ^ shift

-----------------------------------------------------------------------------
(* What the operations mean, on integers *)

Signed(v) == IF v >= Half THEN v - Modulus ELSE v
Abs(i) == IF i < 0 THEN -i ELSE i
Truncated(a, b) == IF (a < 0) = (b < 0) THEN Abs(a) \div Abs(b) ELSE -(Abs(a) \div Abs(b))

\* The signed operations of the interpreter, which work on a sign and a
\* magnitude, are two's complement arithmetic: division truncates and wraps at
\* the least value (I256 Div), the remainder takes the sign of the dividend (I256
\* Rem), the order is the order of the integers (I256 Ord) and SAR divides
\* downwards (sar).
SignedArithmetic(a, b) ==
  LET x == Signed(a)
      y == Signed(b)
  IN  /\ sdiv(a, b) = IF y = 0 THEN 0 ELSE Truncated(x, y) % Modulus
      /\ srem(a, b) = IF y = 0 THEN 0 ELSE (x - y * Truncated(x, y)) % Modulus
      /\ slt(a, b) = Bool(x < y) /\ sgt(a, b) = Bool(x > y)
      /\ sar(a, b) = (y \div 2 ^ (IF a > Width THEN Width ELSE a)) % Modulus

\* EXP, SIGNEXTEND, BYTE and the left shift agree with their definitions: the
\* loop of exp is the power modulo the word size, signextend keeps the value of
\* the low bytes read as a signed number, byte counts from the most significant
\* byte and a shift by the width or more gives zero.
BitArithmetic(a, b) ==
  LET low == b % 2 ^ (ByteBits * (a + 1))
      power[n \in 0 .. b] == IF n = 0 THEN 1 ELSE (power[n - 1] * a) % Modulus
  IN  /\ exp(a, b) = power[b] % Modulus
      /\ a < Bytes => signextend(a, b) = (IF low >= 2 ^ (ByteBits * (a + 1) - 1)
                                          THEN low - 2 ^ (ByteBits * (a + 1)) ELSE low) % Modulus
      /\ byte(a, b) = IF a < Bytes THEN (b \div 2 ^ (ByteBits * (Bytes - 1 - a))) % 2 ^ ByteBits
                      ELSE 0
      /\ shl(a, b) = (IF a >= Width THEN 0 ELSE b * 2 ^ a) % Modulus
=============================================================================
