------------------------------ MODULE Doubles ------------------------------
(***************************************************************************)
(* The abstraction of the code's `double` every numeric module shares.     *)
(* A finite double is an integer of magnitude at most MaxFinite, an        *)
(* infinity is an integer beyond that range, and NaN is a value that is no *)
(* integer at all.  Sums and products of finite values may leave the       *)
(* finite range; that is the overflow the code tests with std::isfinite.   *)
(* Rounding is left out: no property compares values closer than a unit.   *)
(***************************************************************************)
EXTENDS Integers

CONSTANTS
    MaxFinite,   \* largest finite magnitude, the scaled DBL_MAX
    NaN          \* the not-a-number value

ASSUME DoublesAssumption ==
    /\ MaxFinite \in Nat \ {0}
    /\ NaN \notin Int

Double == Int \cup {NaN}

Finite == -MaxFinite .. MaxFinite

\* std::isfinite: false for NaN and for both infinities.
IsFinite(x) == x \in Finite

\* Ordered comparisons are false whenever an operand is NaN.
Above(x, limit) == x \in Int /\ x > limit
Below(x, limit) == x \in Int /\ x < limit

Abs(x) == IF x < 0 THEN -x ELSE x

\* std::clamp.
Clamp(x, low, high) ==
    IF x < low THEN low ELSE IF x > high THEN high ELSE x

AtMost(x, high) == IF x > high THEN high ELSE x
AtLeast(x, low) == IF x < low THEN low ELSE x
=============================================================================
