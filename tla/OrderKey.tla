------------------------------ MODULE OrderKey ------------------------------
(***************************************************************************)
(* Fractional-index order keys of the block log: the pure functions of     *)
(* kaijutsu-crdt/src/content.rs.  A key is a sequence of base-62 digits    *)
(* (the characters of BASE62 in their order), compared lexicographically.  *)
(*                                                                         *)
(* The number part of a canonical key is NumWidth digits wide (11 in the   *)
(* code) and holds numbers up to MaxNum (i64::MAX in the code).  Both are  *)
(* constants so that the overflow path is within reach of a small model.   *)
(***************************************************************************)
EXTENDS Integers, Sequences, FiniteSetsExt

CONSTANTS
    NumWidth,    \* digits of the number in a canonical key
    MaxNum       \* the largest number base62_decode accepts

(***************************************************************************)
(* The loops of base62_encode_padded and base62_decode: what k divisions   *)
(* by 62 leave of n, and the number of the first i digits.  A number fits  *)
(* if nothing is left of it after NumWidth digits.                         *)
(***************************************************************************)
Quotients(n) ==
    LET left[k \in 0..NumWidth] == IF k = 0 THEN n ELSE left[k - 1] \div 62
    IN  left

Values(digits) ==
    LET value[i \in 0..Len(digits)] == IF i = 0 THEN 0 ELSE value[i - 1] * 62 + digits[i]
    IN  value

Fits(n) == Quotients(n)[NumWidth] = 0

ASSUME WidthAssumption ==
    /\ NumWidth \in Nat \ {0}
    /\ MaxNum \in Nat
    /\ Fits(MaxNum)

Digit == 0..61
Key == Seq(Digit)
V == 31                         \* BASE62[31], the letter 'V'
NoNum == -1                     \* the None of base62_decode and checked_add

(***************************************************************************)
(* Comparison of two strings.  Position i of a key that has ended reads as *)
(* smaller than every digit.                                               *)
(***************************************************************************)
DigitAt(k, i, end) == IF i <= Len(k) THEN k[i] ELSE end

FirstDifference(a, b, endA, endB) ==
    Min({i \in 1..(Max({Len(a), Len(b)}) + 1) : DigitAt(a, i, endA) # DigitAt(b, i, endB)})

KeyLess(a, b) ==
    /\ a # b
    /\ LET i == FirstDifference(a, b, -1, -1)
       IN  DigitAt(a, i, -1) < DigitAt(b, i, -1)

(***************************************************************************)
(* base62_encode_padded, base62_decode: fixed-width digits of a number,    *)
(* and the number of a run of digits if it does not exceed MaxNum.         *)
(***************************************************************************)
base62_encode_padded(n) == [i \in 1..NumWidth |-> Quotients(n)[NumWidth - i] % 62]

base62_decode(digits) ==
    LET n == Values(digits)[Len(digits)]
    IN  IF digits = <<>> \/ n > MaxNum THEN NoNum ELSE n

\* Mutant: neighbouring digits are taken to leave room.
order_midpoint_NoRoom(a, b) ==
    LET i      == FirstDifference(a, b, 0, 62)
        shared == [j \in 1..(i - 1) |-> DigitAt(a, j, 0)]
    IN  Append(shared, (DigitAt(a, i, 0) + DigitAt(b, i, 62)) \div 2)

(***************************************************************************)
(* order_midpoint: the digits the two keys share, then the first position  *)
(* where they differ decides.  A key that has ended counts as 0 for a and  *)
(* as 62 for b, so the position after the longer key always differs.       *)
(***************************************************************************)
order_midpoint(a, b) ==
    LET i      == FirstDifference(a, b, 0, 62)
        shared == [j \in 1..(i - 1) |-> DigitAt(a, j, 0)]
        aVal   == DigitAt(a, i, 0)
        bVal   == DigitAt(b, i, 62)
    IN  IF aVal + 1 < bVal
        THEN Append(shared, (aVal + bVal) \div 2)
        ELSE shared \o <<aVal, (DigitAt(a, i + 1, 0) + 62) \div 2>>

(***************************************************************************)
(* order_key_successor: 'V', the number after pred's number, the suffix.   *)
(* A predecessor of another shape, or a number that cannot grow, falls     *)
(* back to extending pred by "V" and the suffix.                           *)
(***************************************************************************)
CanonicalNumber(pred) ==
    IF Len(pred) > NumWidth /\ pred[1] = V
    THEN base62_decode(SubSeq(pred, 2, NumWidth + 1))
    ELSE NoNum

\* Mutant: the number is kept, so that the suffixes decide.
order_key_successor_SameNumber(pred, suffix) ==
    IF CanonicalNumber(pred) # NoNum
    THEN <<V>> \o base62_encode_padded(CanonicalNumber(pred)) \o suffix
    ELSE pred \o <<V>> \o suffix

order_key_successor(pred, suffix) ==
    LET n         == CanonicalNumber(pred)
        increment == <<V>> \o base62_encode_padded(n + 1) \o suffix
        fallback  == pred \o <<V>> \o suffix
    IN  IF n # NoNum /\ n < MaxNum /\ KeyLess(pred, increment)
        THEN increment
        ELSE fallback

----------------------------------------------------------------------------
(***************************************************************************)
(* Where order_midpoint has room: b is not a followed by zeros, and when   *)
(* the deciding digits are neighbours, a's next digit is not the last one. *)
(***************************************************************************)
HasRoom(a, b) ==
    LET i == FirstDifference(a, b, 0, 62)
    IN  /\ i <= Len(b)
        /\ DigitAt(a, i, 0) + 1 = b[i] => DigitAt(a, i + 1, 0) # 61

(***************************************************************************)
(* order_midpoint returns a key strictly between two keys whenever there   *)
(* is room, and only then ("The result is guaranteed to satisfy            *)
(* a < result < b" asks for it always).                                    *)
(***************************************************************************)
MidpointInOrder(a, b) ==
    KeyLess(a, b) =>
        (HasRoom(a, b) <=> /\ KeyLess(a, order_midpoint(a, b))
                           /\ KeyLess(order_midpoint(a, b), b))

(***************************************************************************)
(* order_key_successor is after its predecessor, and after every key made  *)
(* canonically for the same or a smaller number, suffix included: appends  *)
(* of any principal stay in order.                                         *)
(***************************************************************************)
SuccessorInOrder(pred, other, suffix) ==
    LET key == order_key_successor(pred, suffix)
    IN  /\ KeyLess(pred, key)
        /\ CanonicalNumber(pred) \notin {NoNum, MaxNum} /\ CanonicalNumber(other) # NoNum =>
                (CanonicalNumber(other) <= CanonicalNumber(pred) => KeyLess(other, key))
=============================================================================
