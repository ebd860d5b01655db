------------------------------ MODULE Alu68000 ------------------------------
(***************************************************************************)
(* What the 68000's instructions compute (cpu68000.cpp): results and        *)
(* condition codes, for operands of n bits.  An operation returns a value   *)
(* and flags; values are the unsigned ones of the registers.                *)
(***************************************************************************)
EXTENDS Integers, Sequences, SequencesExt

Flags  == [x : BOOLEAN, n : BOOLEAN, z : BOOLEAN, v : BOOLEAN, c : BOOLEAN]
Range2(n)    == 0 .. 2^n - 1
Negative(a, n) == a >= 2^(n - 1)
Signed(a, n)   == IF Negative(a, n) THEN a - 2^n ELSE a
Bit(b)         == IF b THEN 1 ELSE 0
Outcome(a, f)  == [value |-> a, f |-> f]

set_nz_clear_vc(a, n, f) ==
  [f EXCEPT !.n = Negative(a % 2^n, n), !.z = a % 2^n = 0, !.v = FALSE, !.c = FALSE]

-----------------------------------------------------------------------------
(* Addition, subtraction, comparison.  Mutants: Z set rather than only      *)
(* cleared; the borrow without X.                                           *)

ZeroAnew(result, extend, f) == result = 0
Zero(result, extend, f) == result = 0 /\ (extend => f.z)

add_with_flags(src, dst, n, f, extend) ==
  LET sum    == src + dst + Bit(extend /\ f.x)
      result == sum % 2^n
      sign   == Negative(result, n)
      carry  == sum > 2^n - 1
  IN Outcome(result,
       [x |-> carry, c |-> carry, n |-> sign, z |-> Zero(result, extend, f),
        v |-> Negative(src, n) # sign /\ Negative(dst, n) # sign])

sub_with_flags(src, dst, n, f, extend) ==
  LET subtrahend == src + Bit(extend /\ f.x)
      result     == (dst - subtrahend) % 2^n
      sign       == Negative(result, n)
      borrow     == subtrahend > dst
  IN Outcome(result,
       [x |-> borrow, c |-> borrow, n |-> sign, z |-> Zero(result, extend, f),
        v |-> Negative(src, n) # Negative(dst, n) /\ sign # Negative(dst, n)])

compare(src, dst, n, f) == [sub_with_flags(src, dst, n, f, FALSE).f EXCEPT !.x = f.x]

\* op_neg_not_clr's NEG, NEGX; op_addq_subq takes 8 for a data field of 0.
negated(a, n, f, extend) == sub_with_flags(a, 0, n, f, extend)
quick(field)             == IF field = 0 THEN 8 ELSE field

condition(f) ==
  [T  |-> TRUE,           F  |-> FALSE,
   HI |-> ~f.c /\ ~f.z,   LS |-> f.c \/ f.z,
   CC |-> ~f.c,           CS |-> f.c,
   NE |-> ~f.z,           EQ |-> f.z,
   VC |-> ~f.v,           VS |-> f.v,
   PL |-> ~f.n,           MI |-> f.n,
   GE |-> f.n = f.v,      LT |-> f.n # f.v,
   GT |-> ~f.z /\ f.n = f.v,  LE |-> f.z \/ f.n # f.v]

\* op_dbcc: the counter afterwards, and whether the branch is taken.
dbcc(counter, n, met) ==
  LET next == (counter - 1) % 2^n
  IN IF met THEN [counter |-> counter, taken |-> FALSE]
     ELSE [counter |-> next, taken |-> next # 2^n - 1]

op_chk(value, bound, n) == Signed(value, n) < 0 \/ Signed(value, n) > Signed(bound, n)

-----------------------------------------------------------------------------
(* Multiplication, division, extension.  n is the size of a word.           *)

op_ext(a, n, f) == LET r == Signed(a % 2^n, n) % 2^(2 * n) IN Outcome(r, set_nz_clear_vc(r, 2 * n, f))

op_mul(is_signed, src, dst, n, f) ==
  LET low    == dst % 2^n
      result == (IF is_signed THEN Signed(src, n) * Signed(low, n) ELSE src * low) % 2^(2 * n)
  IN Outcome(result, set_nz_clear_vc(result, 2 * n, f))

\* C++'s division truncates, and its remainder takes the dividend's sign.
Magnitude(a) == IF a < 0 THEN 0 - a ELSE a
Truncated(a, b) == LET q == Magnitude(a) \div Magnitude(b) IN IF (a < 0) = (b < 0) THEN q ELSE 0 - q

SignedRange(n) == (0 - 2^(n - 1)) .. 2^(n - 1) - 1
Overflows(is_signed, q, n) == q \notin (IF is_signed THEN SignedRange(n) ELSE Range2(n))

op_div(is_signed, src, dst, n, f) ==   \* src is not 0
  LET dividend == IF is_signed THEN Signed(dst, 2 * n) ELSE dst
      divisor  == IF is_signed THEN Signed(src, n) ELSE src
      quotient == Truncated(dividend, divisor)
      remainder == dividend - quotient * divisor
  IN IF Overflows(is_signed, quotient, n) THEN Outcome(dst, [f EXCEPT !.c = FALSE, !.v = TRUE])
     ELSE Outcome((remainder % 2^n) * 2^n + (quotient % 2^n), set_nz_clear_vc(quotient % 2^n, n, f))

-----------------------------------------------------------------------------
(* Packed decimals: bytes, computed in 32-bit registers that wrap.          *)

Wrapped(a)  == a % 2^20     \* 2^32 in the code; larger than any sum here
Low(a)      == a % 16
High(a)     == (a \div 16) * 16
BcdOutcome(sum, carry, f) ==
  LET result == sum % 256
  IN Outcome(result, [x |-> carry, c |-> carry, n |-> result >= 128, v |-> FALSE, z |-> f.z /\ result = 0])

abcd(src, dst, f) ==
  LET low == Low(src) + Low(dst) + Bit(f.x)
      sum == (IF low > 9 THEN low + 6 ELSE low) + High(src) + High(dst)
  IN IF sum > 153 THEN BcdOutcome(sum - 160, TRUE, f) ELSE BcdOutcome(sum, FALSE, f)

sbcd(src, dst, f) ==
  LET low  == Wrapped(Low(dst) - Low(src) - Bit(f.x))
      diff == Wrapped((IF low > 9 THEN low - 6 ELSE low) + High(dst) - High(src))
  IN IF diff > 153 THEN BcdOutcome(Wrapped(diff + 160), TRUE, f) ELSE BcdOutcome(diff, FALSE, f)

nbcd(value, f) == sbcd(value, 0, f)

-----------------------------------------------------------------------------
(* Shifts and rotates, a bit at a time.  A mutant: X is not rotated in.     *)

ShiftedInAlways0(type, x, out) == type = "RO" /\ out
ShiftedIn(type, x, out) == (type = "ROX" /\ x) \/ (type = "RO" /\ out)

ShiftOnce(type, left, n, r) ==
  LET out  == IF left THEN Negative(r.value, n) ELSE r.value % 2 = 1
      in   == ShiftedIn(type, r.x, out)
      next == IF left THEN (2 * r.value + Bit(in)) % 2^n
              ELSE r.value \div 2 + Bit(in \/ (type = "AS" /\ Negative(r.value, n))) * 2^(n - 1)
  IN [value |-> next, c |-> out, x |-> IF type = "ROX" THEN out ELSE r.x,
      v |-> r.v \/ (left /\ type = "AS" /\ Negative(next, n) # Negative(r.value, n))]

shift(type, left, value, count, n, f) ==
  LET start == [value |-> value, c |-> FALSE, x |-> f.x, v |-> FALSE]
      r == FoldLeft(LAMBDA s, i : ShiftOnce(type, left, n, s), start, [i \in 1 .. count |-> i])
      carry == IF count = 0 THEN type = "ROX" /\ f.x ELSE r.c
  IN Outcome(r.value, [set_nz_clear_vc(r.value, n, f) EXCEPT
                         !.c = carry, !.v = r.v,
                         !.x = IF count = 0 \/ type = "RO" THEN r.x ELSE carry])

-----------------------------------------------------------------------------
(* What the results mean.                                                   *)

SumRight(a, sum, signedSum, n, r) ==
  /\ r.value = sum % 2^n
  /\ r.f.c <=> sum \notin Range2(n)
  /\ r.f.x = r.f.c
  /\ r.f.v <=> signedSum \notin SignedRange(n)
  /\ r.f.n <=> Negative(r.value, n)

\* Two digits added, or subtracted, from the low one up are the numbers they
\* make: carry, overflow and sign are the whole's, and Z, set before, says
\* whether all of it is zero.
ChainRight(op(_, _, _, _, _), sum, signed, a, b, n, f) ==
  LET low  == op(b % 2^n, a % 2^n, n, [f EXCEPT !.x = FALSE, !.z = TRUE], TRUE)
      high == op(b \div 2^n, a \div 2^n, n, low.f, TRUE)
      r    == Outcome(high.value * 2^n + low.value, high.f)
  IN SumRight(a, sum, signed, 2 * n, r) /\ (r.f.z <=> r.value = 0)

ArithmeticRight(a, n, f) ==
  \A b \in Range2(2 * n) :
    LET A == Signed(a, 2 * n)
        B == Signed(b, 2 * n)
    IN /\ ChainRight(add_with_flags, a + b, A + B, a, b, n, f)
       /\ ChainRight(sub_with_flags, a - b, A - B, a, b, n, f)
       /\ LET c == compare(b, a, 2 * n, f)
              when == condition(c)
          IN /\ c.x = f.x
             /\ when.HI = (a > b) /\ when.LS = (a <= b) /\ when.CC = (a >= b) /\ when.CS = (a < b)
             /\ when.NE = (a # b) /\ when.EQ = (a = b)
             /\ when.GE = (A >= B) /\ when.LT = (A < B) /\ when.GT = (A > B) /\ when.LE = (A <= B)

\* A product is exact.  A quotient is, with its remainder, or V says that it
\* does not fit and the register is as it was.
ProductsRight(a, n, f) ==
  \A b \in Range2(n), is_signed \in BOOLEAN :
    LET Of(v, bits) == IF is_signed THEN Signed(v, bits) ELSE v
        p == op_mul(is_signed, b, a, n, f)
        d == op_div(is_signed, b, a, n, f)
        q == Of(d.value % 2^n, n)
        r == Of(d.value \div 2^n, n)
        fits == \E i \in (IF is_signed THEN SignedRange(n) ELSE Range2(n)) :
                  LET rest == Of(a, 2 * n) - i * Of(b, n)
                  IN Magnitude(rest) < Magnitude(Of(b, n)) /\ (rest = 0 \/ (rest < 0) = (Of(a, 2 * n) < 0))
    IN /\ Of(p.value, 2 * n) = Of(a % 2^n, n) * Of(b, n)
       /\ b # 0 => /\ fits = ~d.f.v
                   /\ IF fits THEN /\ Of(a, 2 * n) = q * Of(b, n) + r
                                   /\ Magnitude(r) < Magnitude(Of(b, n))
                                   /\ d.f.z = (q = 0) /\ d.f.n = (q % 2^n >= 2^(n - 1))
                      ELSE d.value = a
       /\ Signed(op_ext(b, n, f).value, 2 * n) = Signed(b, n)

\* Decimal digits stay decimal, and are added and subtracted as numbers.
Decimal(a) == 16 * (a \div 10) + (a % 10)
DecimalsRight(a, f) ==
  \A b \in 0 .. 99 :
    LET sum  == a + b + Bit(f.x)
        diff == a - b - Bit(f.x)
    IN /\ abcd(Decimal(b), Decimal(a), f).value = Decimal(sum % 100)
       /\ abcd(Decimal(b), Decimal(a), f).f.c = (sum > 99)
       /\ sbcd(Decimal(b), Decimal(a), f).value = Decimal(diff % 100)
       /\ sbcd(Decimal(b), Decimal(a), f).f.x = (diff < 0)
       /\ nbcd(Decimal(b), f).value = Decimal((0 - b - Bit(f.x)) % 100)

\* Shifts are multiplications and divisions by powers of two, rotates are of
\* the n bits, or of those and X; V of ASL says that the sign was lost on the way.
ShiftsRight(a, n, f) ==
  \A count \in 0 .. 2 * n + 2 :
    LET S(type, left) == shift(type, left, a, count, n, f)
        k   == count % n
        k1  == count % (n + 1)
        wide == a + 2^n * Bit(f.x)
        Rotated(v, bits, by) == ((v * 2^by) % 2^bits) + ((v * 2^by) \div 2^bits)
        Whole(r) == r.value + 2^n * Bit(r.f.x)
    IN /\ S("LS", TRUE).value = (a * 2^count) % 2^n /\ S("AS", TRUE).value = (a * 2^count) % 2^n
       /\ S("LS", FALSE).value = a \div 2^count
       /\ Signed(S("AS", FALSE).value, n) = Signed(a, n) \div 2^count
       /\ S("AS", TRUE).f.v <=> Signed(a, n) * 2^count \notin SignedRange(n)
       /\ S("RO", TRUE).value = Rotated(a, n, k)
       /\ S("RO", FALSE).value = Rotated(a, n, (n - k) % n)
       /\ Whole(S("ROX", TRUE)) = Rotated(wide, n + 1, k1)
       /\ Whole(S("ROX", FALSE)) = Rotated(wide, n + 1, (n + 1 - k1) % (n + 1))
       /\ \A left \in BOOLEAN : S("ROX", left).f.c = S("ROX", left).f.x /\ S("RO", left).f.x = f.x
       /\ count > 0 => /\ S("LS", TRUE).f.x = (((a * 2^count) \div 2^n) % 2 = 1)
                       /\ S("LS", FALSE).f.c = ((a \div 2^(count - 1)) % 2 = 1)

\* DBF from a counter of a branches a times and leaves -1.
LoopsRight(a, n) ==
  LET after == FoldLeft(LAMBDA c, i : dbcc(c, n, FALSE).counter, a, [i \in 1 .. a |-> i])
  IN /\ \A i \in 1 .. a : dbcc(i, n, FALSE).taken
     /\ after = 0 /\ dbcc(after, n, FALSE) = [counter |-> 2^n - 1, taken |-> FALSE]

\* Instructions compute what arithmetic says, at every operand, and their
\* condition codes make the conditional branches after them right.
AluIsArithmetic(a, n, f) ==
  LET wide == a % 2^(2 * n)
  IN /\ ArithmeticRight(wide, n, f)
     /\ ProductsRight(wide, n, f)
     /\ ShiftsRight(a % 2^n, n, f)
     /\ LoopsRight(wide, 2 * n)
     /\ DecimalsRight(a, f)
=============================================================================
