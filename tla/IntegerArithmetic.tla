------------------------- MODULE IntegerArithmetic -------------------------
(***************************************************************************)
(* The fixed-width arithmetic of the native interpreter, as numbers below  *)
(* a modulus N (two to the width of the operand).  Two results are         *)
(* computed in the code along two paths each: the sum or difference with   *)
(* its flags (add_with_carry_nzcv for every form, and the direct handler   *)
(* of the hottest one), and the saturated sum or difference (the guards    *)
(* the portable handler tests before it adds, and the clamped and wrapped  *)
(* results the vector unit of the host gives).                             *)
(***************************************************************************)
EXTENDS Integers

\* value & sign_bit_for_bits(bits).
Negative(v, N) == 2 * v >= N

\* sign_extend_u64: the signed number that the bits of v stand for.
Signed(v, N) == IF Negative(v, N) THEN v - N ELSE v

\* The result of an addition or a subtraction with its condition flags.
Sum(value, carry, overflow, N) ==
    [value |-> value, n |-> Negative(value, N), z |-> value = 0, c |-> carry, v |-> overflow]

\* add_with_carry_nzcv.
AddWithCarry(a, b, carry, N) ==
    LET sum == a + b + carry
        value == sum % N
    IN  Sum(value, sum >= N,
            /\ Negative(a, N) = Negative(b, N)
            /\ Negative(a, N) # Negative(value, N), N)

\* The second operand and the carry of a subtraction that is an addition.
Complement(b, subtract, N) == IF subtract THEN N - 1 - b ELSE b
CarryIn(subtract) == IF subtract THEN 1 ELSE 0

\* Mutant of DirectSum: equal operands borrow.
DirectSumStrict(a, b, subtract, N) ==
    LET value == (IF subtract THEN a - b ELSE a + b) % N
    IN  Sum(value, IF subtract THEN a > b ELSE value < a,
            /\ Negative(a, N) # Negative(value, N)
            /\ (Negative(a, N) = Negative(b, N)) # subtract, N)

\* op_add_sub_immediate: the same from the operands and the result.
DirectSum(a, b, subtract, N) ==
    LET value == (IF subtract THEN a - b ELSE a + b) % N
    IN  Sum(value, IF subtract THEN a >= b ELSE value < a,
            /\ Negative(a, N) # Negative(value, N)
            /\ (Negative(a, N) = Negative(b, N)) # subtract, N)

-----------------------------------------------------------------------------
(* Saturation: a value and whether the sticky bit of FPSR is set.          *)

Saturation(value, saturated) == [value |-> value, saturated |-> saturated]

\* execute_simd_saturating_add_subtract_portable, for unsigned elements.
GuardedUnsigned(a, b, subtract, N) ==
    IF subtract
    THEN IF a < b THEN Saturation(0, TRUE) ELSE Saturation(a - b, FALSE)
    ELSE IF a > (N - 1) - b THEN Saturation(N - 1, TRUE) ELSE Saturation(a + b, FALSE)

\* The same for signed ones: every guard is tested before the sum is formed.
GuardedSigned(a, b, subtract, N) ==
    LET lhs == Signed(a, N)
        rhs == Signed(b, N)
        minimum == -(N \div 2)
        maximum == (N \div 2) - 1
        result(y, s) == Saturation(y % N, s)
    IN  IF subtract
        THEN IF rhs < 0 /\ lhs > maximum + rhs THEN result(maximum, TRUE)
             ELSE IF rhs > 0 /\ lhs < minimum + rhs THEN result(minimum, TRUE)
             ELSE result(lhs - rhs, FALSE)
        ELSE IF rhs > 0 /\ lhs > maximum - rhs THEN result(maximum, TRUE)
             ELSE IF rhs < 0 /\ lhs < minimum - rhs THEN result(minimum, TRUE)
             ELSE result(lhs + rhs, FALSE)

\* What the host's saturating instruction gives: the exact sum, clamped.
Clamp(y, minimum, maximum) ==
    IF y < minimum THEN minimum ELSE IF y > maximum THEN maximum ELSE y

Exact(a, b, subtract) == IF subtract THEN a - b ELSE a + b

\* execute_simd_saturating_add_subtract_neon: an element saturated when the
\* saturating result differs from the wrapping one.
Compared(clamped, exact, N) == Saturation(clamped % N, clamped % N # exact % N)

ComparedUnsigned(a, b, subtract, N) ==
    LET y == Exact(a, b, subtract) IN Compared(Clamp(y, 0, N - 1), y, N)

ComparedSigned(a, b, subtract, N) ==
    LET y == Exact(Signed(a, N), Signed(b, N), subtract)
    IN  Compared(Clamp(y, -(N \div 2), (N \div 2) - 1), y, N)

-----------------------------------------------------------------------------
(* Rounding shifts that narrow: a value below D * D is shifted right by a   *)
(* power of two P that divides D, and the low half below D is kept.         *)

\* AVZ_NATIVE_OP_SIMD_NARROW_HIGH: the rounded value wraps at the source width.
WrappedNarrow(v, P, rounding, D) == (((v + rounding) % (D * D)) \div P) % D

\* execute_simd_narrow_high_neon: the host rounds with one bit more.
WideNarrow(v, P, rounding, D) == ((v + rounding) \div P) % D
=============================================================================
