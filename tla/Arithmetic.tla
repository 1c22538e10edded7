------------------------------- MODULE Arithmetic -------------------------------
(***************************************************************************)
(* The integers of the native runtime and the operations it does on them   *)
(* (evaluateArithmetic of runtime/IrInterpreter.cpp): int64_t with a check *)
(* for overflow in front of every operation; and numbers from texts.       *)
(***************************************************************************)
EXTENDS Text, SequencesExt

CONSTANT Maximum \* numeric_limits<int64_t>::max()

ASSUME MaximumIsPositive == Maximum \in Nat \ {0}

\* Two's complement: one more below zero than above.
Minimum == -Maximum - 1
Represented == Minimum..Maximum

CheckedOperators == {"Add", "Subtract", "Multiply", "Divide", "Negate"}

\* Division goes towards zero.
Quotient(a, b) ==
  LET size == (IF a < 0 THEN -a ELSE a) \div (IF b < 0 THEN -b ELSE b)
  IN IF (a < 0) # (b < 0) THEN -size ELSE size

\* What the code checks before each operation.
Overflows(a, operation, b) ==
  CASE operation = "Add" -> (b > 0 /\ a > Maximum - b) \/ (b < 0 /\ a < Minimum - b)
    [] operation = "Subtract" -> (b < 0 /\ a > Maximum + b) \/ (b > 0 /\ a < Minimum + b)
    [] operation = "Multiply" ->
         /\ a # 0 /\ b # 0
         /\ \/ (a = -1 /\ b = Minimum) \/ (b = -1 /\ a = Minimum)
            \/ a > 0 /\ b > 0 /\ a > Quotient(Maximum, b)
            \/ a > 0 /\ b < 0 /\ b < Quotient(Minimum, a)
            \/ a < 0 /\ b > 0 /\ a < Quotient(Minimum, b)
            \/ a < 0 /\ b < 0 /\ a < Quotient(Maximum, b)
    [] operation = "Divide" -> a = Minimum /\ b = -1
    [] operation = "Negate" -> b = Minimum

\* What the operation is on the numbers of mathematics.
Exact(a, operation, b) ==
  CASE operation = "Add" -> a + b
    [] operation = "Subtract" -> a - b
    [] operation = "Multiply" -> a * b
    [] operation = "Divide" -> Quotient(a, b)
    [] operation = "Negate" -> -b

-----------------------------------------------------------------------------
(* Numbers from texts (std::from_chars and std::stod).  A Double is a      *)
(* number of hundredths, no further than MaximumHundredths; what is below  *)
(* a hundredth, infinities and NaN are left out.                           *)

\* A number of digits, no further than limit.
Counted(text, limit) ==
  LET Shifted(sum, digit) == IF sum > (limit - digit) \div 10 THEN limit ELSE sum * 10 + digit
  IN FoldLeft(LAMBDA sum, i : Shifted(sum, HexValue(Char(text, i))), 0, [i \in 1..Len(text) |-> i])

\* The sign of a number and what stands behind it.
Sign(text) == IF Char(text, 1) = "-" THEN -1 ELSE 1
Unsigned(text) == IF Char(text, 1) = "-" THEN Between(text, 2, Len(text) + 1) ELSE text

\* The whole text is an integer that the width holds.
IntegerOf(text) ==
  LET Sized(number) ==
        IF number \in Represented THEN [ok |-> TRUE, number |-> number] ELSE [ok |-> FALSE]
      Of(digits) ==
        IF digits = "" \/ ~(Characters(digits) \subseteq Digits) THEN [ok |-> FALSE]
        ELSE Sized(Sign(text) * Counted(digits, Maximum + 2))
  IN Of(Unsigned(text))

\* The digits of a number, and where the point is among them once the exponent has moved it.
Decimal(text) ==
  LET Power(exponent) == Sign(exponent) * Counted(Unsigned(exponent), 9999)
      Moved(number, point, end) ==
        [digits |-> Between(number, 1, point) \o Between(number, point + 1, end),
         point |-> point - 1 + Power(Between(number,
                     end + (IF Char(number, end + 1) = "+" THEN 2 ELSE 1), Len(number) + 1))]
      Pointed(number, point) ==
        Moved(number, point,
              IF Char(number, point) = "." THEN Past(number, point + 1, Digits) ELSE point)
      Of(number) == Pointed(number, Past(number, 1, Digits))
  IN Of(Unsigned(text))

\* stod throws for what is too large or too small for a Double; where exactly the range ends
\* within a power of ten is left out.
Exponents == -307..309
IsDouble(text) ==
  LET Fits(decimal) == \/ decimal.point - Past(decimal.digits, 1, {"0"}) + 1 \in Exponents
                       \/ Characters(decimal.digits) \subseteq {"0"}
  IN Fits(Decimal(text))

MaximumHundredths == 10000000
DoubleOf(text) ==
  LET First(digits, count) == Between(digits, 1, Min({count, Len(digits)}) + 1)
      Shown(decimal) == First(decimal.digits \o "00000000", decimal.point + 2)
  IN Sign(text) * Counted(Shown(Decimal(text)), MaximumHundredths)
=============================================================================
