----------------------------- MODULE FloatClass -----------------------------
(***************************************************************************)
(* Single-precision floats, told apart only as far as the controllers'     *)
(* behaviour depends on them: -2 and 2 are the infinities, -1 and 1 the    *)
(* finite non-zero numbers of either sign, 0 is zero (of either sign) and  *)
(* NaN is not a number.  An operation yields the set of classes its IEEE   *)
(* result can have; finite non-zero results may underflow to zero and,     *)
(* when MayOverflow, leave the range.                                      *)
(***************************************************************************)
EXTENDS Integers

CONSTANT MayOverflow   \* whether arithmetic on finite numbers can overflow

ASSUME OverflowAssumption == MayOverflow \in BOOLEAN

NaN == 3
Float == -2..3

IsFinite(x) == x \in -1..1

Sign(x) == IF x > 0 THEN 1 ELSE IF x < 0 THEN -1 ELSE 0
Size(x) == IF x < 0 THEN -x ELSE x

Overflowed(x) == IF MayOverflow THEN {2 * x} ELSE {}

Minus(x) == IF x = NaN THEN NaN ELSE -x

Plus(x, y) ==
  IF NaN \in {x, y} \/ {x, y} = {-2, 2} THEN {NaN}
  ELSE IF 2 \in {Size(x), Size(y)} THEN {2 * Sign(x + y)}
  ELSE IF x * y = -1 THEN -1..1
  ELSE {Sign(x + y)} \cup (IF x * y = 1 THEN Overflowed(x) ELSE {})

Times(x, y) ==
  IF NaN \in {x, y} \/ {Size(x), Size(y)} = {0, 2} THEN {NaN}
  ELSE IF 2 \in {Size(x), Size(y)} THEN {2 * Sign(x * y)}
  ELSE IF x * y = 0 THEN {0}
  ELSE {0, x * y} \cup Overflowed(x * y)

\* Division by zero gives an infinity of either sign, as zeros are signed.
Over(x, y) ==
  IF NaN \in {x, y} \/ {Size(x), Size(y)} \in {{0}, {2}} THEN {NaN}
  ELSE IF y = 0 THEN {-2, 2}
  ELSE IF Size(y) = 2 \/ x = 0 THEN {0}
  ELSE IF Size(x) = 2 THEN {2 * Sign(x * y)}
  ELSE {0, x * y} \cup Overflowed(x * y)

\* The same on sets of possible operands.
PlusAny(X, Y)  == UNION {Plus(x, y)  : x \in X, y \in Y}
TimesAny(X, Y) == UNION {Times(x, y) : x \in X, y \in Y}
OverAny(X, Y)  == UNION {Over(x, y)  : x \in X, y \in Y}
=============================================================================
