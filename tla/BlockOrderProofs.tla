-------------------------- MODULE BlockOrderProofs --------------------------
(***************************************************************************)
(* Theorems about order keys and about placement in one block log, for     *)
(* keys of any length, any number of principals, blocks, moves and         *)
(* restarts.                                                               *)
(*                                                                         *)
(* Comparison, order_midpoint and order_key_successor come first, then the *)
(* numbers in keys, the pairs of keys that TLC enumerates, the lanes, and  *)
(* last the places of blocks, which rest on all of them.                   *)
(***************************************************************************)
EXTENDS BlockOrder, FiniteSetTheorems, SequenceTheorems, TLAPS

\* A set of numbers that is not empty has a least one.
LEMMA LeastNumber ==
    ASSUME NEW T, T \subseteq Nat, T # {}
    PROVE  \E x \in T : \A y \in T : x <= y
<1>1. PICK x \in T : \A y \in T : ~(<<y, x>> \in OpToRel(<, Nat))
    BY NatLessThanWellFounded, WFMin, Zenon
<1>2. \A y \in T : ~(y < x)
    BY <1>1, Zenon DEF OpToRel
<1> QED BY <1>2

\* The Min of the library is that one.
LEMMA MinOfNumbers ==
    ASSUME NEW T, T \subseteq Nat, T # {}
    PROVE  Min(T) \in T /\ \A y \in T : Min(T) <= y
BY LeastNumber, Zenon DEF Min

\* A set of numbers with a bound has a greatest one, and Max is that one.
LEMMA MaxOfNumbers ==
    ASSUME NEW T, T \subseteq Nat, T # {}, NEW b \in Nat, \A y \in T : y <= b
    PROVE  Max(T) \in T /\ \A y \in T : y <= Max(T)
<1> DEFINE B == {n \in Nat : \A y \in T : y <= n}
<1>1. PICK m \in B : \A n \in B : m <= n
    <2>1. B \subseteq Nat /\ b \in B
        OBVIOUS
    <2> QED BY <2>1, LeastNumber, Zenon
<1>2. m \in T
    <2>1. CASE m = 0
        <3>1. PICK y \in T : TRUE
            BY Zenon
        <3>2. y \in Nat /\ y <= m
            BY <1>1
        <3>3. y = m
            BY <2>1, <3>2
        <3> QED BY <3>3
    <2>2. CASE m # 0
        <3>1. m - 1 \in Nat /\ m - 1 \notin B
            BY <1>1, <2>2
        <3>2. PICK y \in T : ~(y <= m - 1)
            BY <3>1
        <3>3. y \in Nat /\ y <= m
            BY <1>1
        <3> QED BY <1>1, <3>2, <3>3
    <2> QED BY <2>1, <2>2
<1>3. \E x \in T : \A y \in T : x >= y
    <2>1. \A y \in T : m >= y
        BY <1>1
    <2> QED BY <1>2, <2>1
<1>4. Max(T) \in T /\ \A y \in T : Max(T) >= y
    BY <1>3, Zenon DEF Max
<1> QED BY <1>4

----------------------------------------------------------------------------
(***************************************************************************)
(* The order of keys.  Digits are read with an end that is no digit; two   *)
(* keys are in order if they agree up to a position and are in order there.*)
(***************************************************************************)
At(k, i) == DigitAt(k, i, -1)

DiffersFrom(a, b, i) ==
    /\ \A j \in 1..(i - 1) : At(a, j) = At(b, j)
    /\ At(a, i) < At(b, i)

\* What is read from a key.
LEMMA ReadsDigits ==
    ASSUME NEW k \in Key
    PROVE  /\ Len(k) \in Nat
           /\ \A i \in Nat \ {0} : IF i <= Len(k) THEN At(k, i) = k[i] /\ At(k, i) \in 0..61
                                                  ELSE At(k, i) = -1
           /\ \A i \in Nat \ {0} : At(k, i) \in Int /\ -1 <= At(k, i) /\ At(k, i) <= 61
<1>0. Len(k) \in Nat /\ \A i \in 1..Len(k) : k[i] \in Digit
    BY DEF Key
<1>1. Len(k) \in Nat /\ \A i \in 1..Len(k) : k[i] \in 0..61
    BY <1>0 DEF Digit
<1>2. ASSUME NEW i \in Nat \ {0}, i <= Len(k)
      PROVE  At(k, i) = k[i] /\ At(k, i) \in 0..61
    <2>1. i \in 1..Len(k)
        BY <1>1, <1>2
    <2> QED BY <1>1, <1>2, <2>1 DEF At, DigitAt
<1>3. ASSUME NEW i \in Nat \ {0}, ~(i <= Len(k))
      PROVE  At(k, i) = -1
    BY <1>3 DEF At, DigitAt
<1>4. ASSUME NEW i \in Nat \ {0}
      PROVE  At(k, i) \in Int /\ -1 <= At(k, i) /\ At(k, i) <= 61
    <2>1. CASE i <= Len(k)
        <3>1. At(k, i) \in 0..61
            BY <1>2, <2>1
        <3> QED BY <3>1
    <2>2. CASE ~(i <= Len(k))
        <3>1. At(k, i) = -1
            BY <1>3, <2>2
        <3> QED BY <3>1
    <2> QED BY <2>1, <2>2
<1> QED BY <1>1, <1>2, <1>3, <1>4

\* Within a key its digits are read.
LEMMA ReadsInside ==
    ASSUME NEW k \in Key, NEW i \in Nat \ {0}, i <= Len(k)
    PROVE  At(k, i) = k[i] /\ At(k, i) \in 0..61
BY ReadsDigits

\* A key made of two: the digits of the first, then those of the second.
LEMMA JoinedKeys ==
    ASSUME NEW s \in Key, NEW t \in Key, NEW k, k = s \o t
    PROVE  /\ k \in Key /\ Len(k) = Len(s) + Len(t)
           /\ \A j \in 1..(Len(s) + Len(t)) : k[j] = IF j <= Len(s) THEN s[j] ELSE t[j - Len(s)]
<1>1. /\ s \o t \in Key /\ Len(s \o t) = Len(s) + Len(t)
      /\ \A j \in 1..(Len(s) + Len(t)) : (s \o t)[j] = IF j <= Len(s) THEN s[j] ELSE t[j - Len(s)]
    BY ConcatProperties, Zenon DEF Key
<1> QED BY <1>1, Zenon

\* k is the key s with the digits d and c after it.
TwoMore(k, s, d, c) ==
    /\ k \in Key /\ Len(k) = Len(s) + 2
    /\ k[Len(s) + 1] = d /\ k[Len(s) + 2] = c
    /\ \A j \in 1..Len(s) : k[j] = s[j]

\* Joining two digits to a key is adding them to it.
LEMMA WithTwoMore ==
    ASSUME NEW s \in Key, NEW d \in Digit, NEW c \in Digit, NEW k, k = s \o <<d, c>>
    PROVE  TwoMore(k, s, d, c)
<1>1. PICK t : t = <<d, c>>
    OBVIOUS
<1>2. t \in Seq(Digit) /\ Len(t) = 2 /\ t[1] = d /\ t[2] = c
    BY <1>1
<1>3. t \in Key /\ k = s \o t
    BY <1>1, <1>2 DEF Key
<1>4. /\ k \in Key /\ Len(k) = Len(s) + Len(t)
      /\ \A j \in 1..(Len(s) + Len(t)) : k[j] = IF j <= Len(s) THEN s[j] ELSE t[j - Len(s)]
    BY <1>3, JoinedKeys, ZenonT(40)
<1>5. Len(s) \in Nat
    BY DEF Key
<1>6. /\ Len(s) + 1 \in 1..(Len(s) + Len(t)) /\ Len(s) + 2 \in 1..(Len(s) + Len(t))
      /\ ~(Len(s) + 1 <= Len(s)) /\ ~(Len(s) + 2 <= Len(s))
      /\ (Len(s) + 1) - Len(s) = 1 /\ (Len(s) + 2) - Len(s) = 2
    BY <1>2, <1>5
<1>7. \A j \in 1..Len(s) : j \in 1..(Len(s) + Len(t)) /\ j <= Len(s)
    BY <1>2, <1>5
<1>8. k[Len(s) + 1] = t[1] /\ k[Len(s) + 2] = t[2]
    <2>1. k[Len(s) + 1] = t[(Len(s) + 1) - Len(s)]
        BY <1>4, <1>6, Zenon
    <2>2. k[Len(s) + 2] = t[(Len(s) + 2) - Len(s)]
        BY <1>4, <1>6, Zenon
    <2> QED BY <1>6, <2>1, <2>2, Zenon
<1>9. \A j \in 1..Len(s) : k[j] = s[j]
    BY <1>4, <1>7, Zenon
<1>10. Len(k) = Len(s) + 2
    BY <1>2, <1>4, Zenon
<1> QED BY <1>2, <1>4, <1>8, <1>9, <1>10, Zenon DEF TwoMore

\* Keys that read the same are the same.
LEMMA SameReading ==
    ASSUME NEW a \in Key, NEW b \in Key, \A i \in Nat \ {0} : At(a, i) = At(b, i)
    PROVE  a = b
<1>1. ~(Len(a) < Len(b))
    <2>1. ASSUME Len(a) < Len(b) PROVE FALSE
        <3>1. Len(b) \in Nat \ {0} /\ ~(Len(b) <= Len(a))
            BY <2>1, ReadsDigits
        <3>2. At(a, Len(b)) = -1 /\ At(b, Len(b)) \in 0..61
            BY <3>1, ReadsDigits
        <3>3. At(a, Len(b)) = At(b, Len(b))
            BY <3>1
        <3>4. -1 \in 0..61
            BY <3>2, <3>3, Zenon
        <3> QED BY <3>4
    <2> QED BY <2>1
<1>2. ~(Len(b) < Len(a))
    <2>1. ASSUME Len(b) < Len(a) PROVE FALSE
        <3>1. Len(a) \in Nat \ {0} /\ ~(Len(a) <= Len(b))
            BY <2>1, ReadsDigits
        <3>2. At(b, Len(a)) = -1 /\ At(a, Len(a)) \in 0..61
            BY <3>1, ReadsDigits
        <3>3. At(a, Len(a)) = At(b, Len(a))
            BY <3>1
        <3>4. -1 \in 0..61
            BY <3>2, <3>3, Zenon
        <3> QED BY <3>4
    <2> QED BY <2>1
<1>3. Len(a) = Len(b)
    BY <1>1, <1>2, ReadsDigits
<1>4. \A i \in 1..Len(a) : a[i] = b[i]
    BY <1>3, ReadsDigits
<1> QED BY <1>3, <1>4 DEF Key

\* The set FirstDifference takes the least position of.
Differences(a, b, x, y) ==
    {i \in 1..(Max({Len(a), Len(b)}) + 1) : DigitAt(a, i, x) # DigitAt(b, i, y)}

\* Max of two lengths.
LEMMA LongerLength ==
    ASSUME NEW m \in Nat, NEW n \in Nat
    PROVE  Max({m, n}) \in Nat /\ m <= Max({m, n}) /\ n <= Max({m, n})
<1>1. PICK b \in Nat : m <= b /\ n <= b
    <2>1. m + n \in Nat /\ m <= m + n /\ n <= m + n
        OBVIOUS
    <2> QED BY <2>1
<1>2. {m, n} \subseteq Nat /\ {m, n} # {} /\ \A y \in {m, n} : y <= b
    BY <1>1
<1>3. Max({m, n}) \in {m, n} /\ \A y \in {m, n} : y <= Max({m, n})
    BY <1>2, MaxOfNumbers
<1> QED BY <1>3

\* If the keys differ somewhere, FirstDifference is the first such position.
LEMMA FirstDifferenceIs ==
    ASSUME NEW a \in Key, NEW b \in Key, NEW x, NEW y, Differences(a, b, x, y) # {}
    PROVE  LET i == FirstDifference(a, b, x, y)
           IN  /\ i \in Nat \ {0} /\ DigitAt(a, i, x) # DigitAt(b, i, y)
               /\ \A j \in 1..(i - 1) : DigitAt(a, j, x) = DigitAt(b, j, y)
<1> DEFINE D == Differences(a, b, x, y)
           i == FirstDifference(a, b, x, y)
<1>1. PICK n : n = Max({Len(a), Len(b)})
    OBVIOUS
<1>2. n \in Nat
    BY <1>1, LongerLength, ReadsDigits, Zenon
<1>3. D = {k \in 1..(n + 1) : DigitAt(a, k, x) # DigitAt(b, k, y)}
    BY <1>1 DEF Differences
<1>4. i = Min(D)
    BY DEF FirstDifference, Differences
<1>5. D \subseteq Nat
    BY <1>2, <1>3
<1>6. i \in D /\ \A k \in D : i <= k
    BY <1>4, <1>5, MinOfNumbers
<1> HIDE DEF D, i
<1>7. i \in 1..(n + 1) /\ DigitAt(a, i, x) # DigitAt(b, i, y)
    BY <1>3, <1>6
<1>8. ASSUME NEW j \in 1..(i - 1) PROVE DigitAt(a, j, x) = DigitAt(b, j, y)
    <2>1. j \in 1..(n + 1) /\ ~(i <= j)
        BY <1>2, <1>7
    <2>2. j \notin D
        BY <1>6, <2>1
    <2> QED BY <1>3, <2>1, <2>2
<1>9. i \in Nat \ {0}
    BY <1>2, <1>7
<1> QED BY <1>7, <1>8, <1>9 DEF i

\* The comparison of strings by its first difference.
LEMMA LessIs ==
    ASSUME NEW a \in Key, NEW b \in Key
    PROVE  KeyLess(a, b) <=> \E i \in Nat \ {0} : DiffersFrom(a, b, i)
<1>1. ASSUME a # b
      PROVE  Differences(a, b, -1, -1) # {}
    <2>1. PICK i \in Nat \ {0} : At(a, i) # At(b, i)
        BY <1>1, SameReading
    <2>2. PICK n : n = Max({Len(a), Len(b)})
        OBVIOUS
    <2>3. n \in Nat /\ Len(a) <= n /\ Len(b) <= n /\ Len(a) \in Nat /\ Len(b) \in Nat
        BY <2>2, LongerLength, ReadsDigits, Zenon
    <2>4. i <= n
        <3>1. ASSUME ~(i <= n) PROVE FALSE
            <4>1. ~(i <= Len(a)) /\ ~(i <= Len(b))
                BY <2>3, <3>1
            <4> QED BY <2>1, <4>1, ReadsDigits
        <3> QED BY <3>1
    <2>5. i \in 1..(n + 1)
        BY <2>3, <2>4
    <2> QED BY <2>1, <2>2, <2>5, Zenon DEF Differences, At
<1>2. ASSUME KeyLess(a, b) PROVE \E i \in Nat \ {0} : DiffersFrom(a, b, i)
    <2>1. PICK i : i = FirstDifference(a, b, -1, -1)
        OBVIOUS
    <2>2. a # b /\ DigitAt(a, i, -1) < DigitAt(b, i, -1)
        BY <1>2, <2>1 DEF KeyLess
    <2>3. i \in Nat \ {0} /\ \A j \in 1..(i - 1) : DigitAt(a, j, -1) = DigitAt(b, j, -1)
        BY <1>1, <2>1, <2>2, FirstDifferenceIs
    <2> QED BY <2>2, <2>3 DEF DiffersFrom, At
<1>3. ASSUME NEW i \in Nat \ {0}, DiffersFrom(a, b, i) PROVE KeyLess(a, b)
    <2>1. At(a, i) \in Int /\ At(b, i) \in Int
        BY ReadsDigits
    <2>2. a # b
        BY <1>3, <2>1 DEF DiffersFrom
    <2>3. PICK k : k = FirstDifference(a, b, -1, -1)
        OBVIOUS
    <2>4. /\ k \in Nat \ {0} /\ At(a, k) # At(b, k)
          /\ \A j \in 1..(k - 1) : At(a, j) = At(b, j)
        BY <1>1, <2>2, <2>3, FirstDifferenceIs DEF At
    <2>5. k = i
        BY <1>3, <2>1, <2>4 DEF DiffersFrom
    <2> QED BY <1>3, <2>2, <2>3, <2>5 DEF KeyLess, DiffersFrom, At
<1> QED BY <1>2, <1>3

\* The order of keys is transitive.
LEMMA LessTransitive ==
    ASSUME NEW a \in Key, NEW b \in Key, NEW c \in Key, KeyLess(a, b), KeyLess(b, c)
    PROVE  KeyLess(a, c)
<1>1. PICK i \in Nat \ {0} : DiffersFrom(a, b, i)
    BY LessIs
<1>2. PICK k \in Nat \ {0} : DiffersFrom(b, c, k)
    BY LessIs
<1>3. \A j \in Nat \ {0} : At(a, j) \in Int /\ At(b, j) \in Int /\ At(c, j) \in Int
    BY ReadsDigits
<1>4. CASE i <= k
    <2>1. DiffersFrom(a, c, i)
        BY <1>1, <1>2, <1>3, <1>4 DEF DiffersFrom
    <2> QED BY <2>1, LessIs
<1>5. CASE k < i
    <2>1. DiffersFrom(a, c, k)
        BY <1>1, <1>2, <1>3, <1>5 DEF DiffersFrom
    <2> QED BY <2>1, LessIs
<1> QED BY <1>4, <1>5

\* Of two different keys one is before the other, and only one.
LEMMA LessTotal ==
    ASSUME NEW a \in Key, NEW b \in Key
    PROVE  /\ a = b \/ KeyLess(a, b) \/ KeyLess(b, a)
           /\ ~(KeyLess(a, b) /\ KeyLess(b, a))
           /\ ~KeyLess(a, a)
<1>1. ~KeyLess(a, a)
    BY DEF KeyLess
<1>2. ~(KeyLess(a, b) /\ KeyLess(b, a))
    BY <1>1, LessTransitive
<1>3. ASSUME a # b PROVE KeyLess(a, b) \/ KeyLess(b, a)
    <2>1. PICK T : T = {i \in Nat \ {0} : At(a, i) # At(b, i)}
        BY Zenon
    <2>2. T \subseteq Nat /\ T # {}
        BY <1>3, <2>1, SameReading
    <2>3. PICK k \in T : \A j \in T : k <= j
        BY <2>2, LeastNumber, Zenon
    <2>4. k \in Nat \ {0} /\ At(a, k) # At(b, k) /\ \A j \in 1..(k - 1) : At(a, j) = At(b, j)
        BY <2>1, <2>3
    <2>5. At(a, k) \in Int /\ At(b, k) \in Int
        BY <2>4, ReadsDigits
    <2>6. CASE At(a, k) < At(b, k)
        BY <2>4, <2>6, LessIs DEF DiffersFrom
    <2>7. CASE At(b, k) < At(a, k)
        BY <2>4, <2>7, LessIs DEF DiffersFrom
    <2> QED BY <2>4, <2>5, <2>6, <2>7
<1> QED BY <1>1, <1>2, <1>3

\* A key is before every longer one that begins with it, and not after it.
LEMMA PrefixIsLess ==
    ASSUME NEW a \in Key, NEW b \in Key, Len(a) < Len(b),
           \A j \in 1..Len(a) : At(a, j) = At(b, j)
    PROVE  KeyLess(a, b)
<1>1. Len(a) \in Nat /\ Len(b) \in Nat
    BY ReadsDigits
<1>2. PICK i \in Nat \ {0} : i = Len(a) + 1
    BY <1>1
<1>3. ~(i <= Len(a)) /\ i <= Len(b) /\ i - 1 = Len(a)
    BY <1>1, <1>2
<1>4. At(a, i) = -1
    BY <1>3, ReadsDigits
<1>5. At(b, i) \in 0..61
    BY <1>3, ReadsDigits, Zenon
<1>6. \A d \in 0..61 : -1 < d
    OBVIOUS
<1>7. At(a, i) < At(b, i)
    BY <1>4, <1>5, <1>6, Zenon
<1> QED BY <1>3, <1>7, LessIs DEF DiffersFrom

----------------------------------------------------------------------------
\* A key read with another end: 0 for a, 62 for b in order_midpoint.
LEMMA ReadsWithEnd ==
    ASSUME NEW k \in Key, NEW e, NEW i \in Nat \ {0}
    PROVE  /\ i <= Len(k) =>
                DigitAt(k, i, e) = At(k, i) /\ DigitAt(k, i, e) = k[i] /\ DigitAt(k, i, e) \in 0..61
           /\ ~(i <= Len(k)) => DigitAt(k, i, e) = e
<1>1. ASSUME i <= Len(k)
      PROVE  DigitAt(k, i, e) = At(k, i) /\ DigitAt(k, i, e) = k[i] /\ DigitAt(k, i, e) \in 0..61
    <2>1. At(k, i) = k[i] /\ At(k, i) \in 0..61
        BY <1>1, ReadsInside
    <2>2. DigitAt(k, i, e) = k[i]
        BY <1>1 DEF DigitAt
    <2> QED BY <2>1, <2>2, Zenon
<1>2. ASSUME ~(i <= Len(k)) PROVE DigitAt(k, i, e) = e
    BY <1>2 DEF DigitAt
<1> QED BY <1>1, <1>2, Zenon

(***************************************************************************)
(* m as order_midpoint makes it from a and b: i is the position that       *)
(* decides, d and e what a and b read there, and x what a reads after it.  *)
(***************************************************************************)
Midpoint(m, a, b, i, d, e, x) ==
    /\ i \in Nat \ {0} /\ d \in 0..61 /\ e \in 0..62 /\ x \in 0..61 /\ d # e
    /\ i <= Len(b) + 1
    /\ \A j \in 1..(i - 1) : DigitAt(a, j, 0) = DigitAt(b, j, 62) /\ At(b, j) = DigitAt(b, j, 62)
    /\ m \in Key
    /\ \A j \in 1..(i - 1) : At(m, j) = At(b, j)
    /\ d + 1 < e => Len(m) = i /\ At(m, i) = (d + e) \div 2
    /\ ~(d + 1 < e) => Len(m) = i + 1 /\ At(m, i) = d /\ At(m, i + 1) = (x + 62) \div 2

\* order_midpoint keeps the digits before the first difference; there it has
\* the middle of the two digits, or a's digit and a further one.
LEMMA MidpointReads ==
    ASSUME NEW a \in Key, NEW b \in Key, NEW i, i = FirstDifference(a, b, 0, 62),
           NEW m, m = order_midpoint(a, b),
           NEW d, d = DigitAt(a, i, 0), NEW e, e = DigitAt(b, i, 62),
           NEW x, x = DigitAt(a, i + 1, 0)
    PROVE  Midpoint(m, a, b, i, d, e, x)
<1>1. Len(a) \in Nat /\ Len(b) \in Nat
    BY ReadsDigits
<1>2. Differences(a, b, 0, 62) # {}
    <2>1. PICK n : n = Max({Len(a), Len(b)})
        OBVIOUS
    <2>2. n \in Nat /\ Len(a) <= n /\ Len(b) <= n
        BY <1>1, <2>1, LongerLength
    <2>3. n + 1 \in 1..(n + 1) /\ n + 1 \in Nat \ {0} /\ ~(n + 1 <= Len(a)) /\ ~(n + 1 <= Len(b))
        BY <1>1, <2>2
    <2>4. DigitAt(a, n + 1, 0) = 0 /\ DigitAt(b, n + 1, 62) = 62
        BY <2>3, ReadsWithEnd
    <2>5. DigitAt(a, n + 1, 0) # DigitAt(b, n + 1, 62)
        BY <2>4
    <2> QED BY <2>1, <2>3, <2>5, Zenon DEF Differences
<1>3. /\ i \in Nat \ {0} /\ d # e
      /\ \A j \in 1..(i - 1) : DigitAt(a, j, 0) = DigitAt(b, j, 62)
    BY <1>2, FirstDifferenceIs
<1>4. \A j \in Nat \ {0} : DigitAt(a, j, 0) \in 0..61
    <2> TAKE j \in Nat \ {0}
    <2>1. CASE j <= Len(a)
        BY <2>1, ReadsWithEnd, Zenon
    <2>2. CASE ~(j <= Len(a))
        <3>1. DigitAt(a, j, 0) = 0
            BY <2>2, ReadsWithEnd
        <3> QED BY <3>1
    <2> QED BY <2>1, <2>2
<1>5. d \in 0..61 /\ x \in 0..61
    <2>1. i + 1 \in Nat \ {0}
        BY <1>3
    <2> QED BY <1>3, <1>4, <2>1
<1>6. e \in 0..62
    <2>1. CASE i <= Len(b)
        <3>1. e \in 0..61
            BY <1>3, <2>1, ReadsWithEnd, Zenon
        <3> QED BY <3>1
    <2>2. CASE ~(i <= Len(b))
        <3>1. e = 62
            BY <1>3, <2>2, ReadsWithEnd
        <3> QED BY <3>1
    <2> QED BY <2>1, <2>2
<1>7. ASSUME NEW j \in 1..(i - 1)
      PROVE  j \in Nat \ {0} /\ j <= Len(b) /\ At(b, j) = DigitAt(b, j, 62)
    <2>1. j \in Nat \ {0} /\ DigitAt(b, j, 62) \in 0..61
        BY <1>3, <1>4
    <2>2. j <= Len(b)
        <3>1. ASSUME ~(j <= Len(b)) PROVE FALSE
            <4>1. DigitAt(b, j, 62) = 62
                BY <2>1, <3>1, ReadsWithEnd
            <4> QED BY <2>1, <4>1
        <3> QED BY <3>1
    <2> QED BY <2>1, <2>2, ReadsWithEnd
<1>8. i <= Len(b) + 1
    <2>1. CASE i = 1
        BY <1>1, <2>1
    <2>2. CASE i # 1
        <3>1. i - 1 \in 1..(i - 1)
            BY <1>3, <2>2
        <3>2. i - 1 <= Len(b)
            BY <1>7, <3>1
        <3> QED BY <1>1, <1>3, <3>2
    <2> QED BY <2>1, <2>2
<1>9. PICK s : s = [j \in 1..(i - 1) |-> DigitAt(a, j, 0)]
    BY Zenon
<1>10. /\ s \in Seq(Digit) /\ Len(s) = i - 1
       /\ \A j \in 1..(i - 1) : s[j] = DigitAt(a, j, 0)
    <2>1. i - 1 \in Nat /\ \A j \in 1..(i - 1) : DigitAt(a, j, 0) \in Digit
        BY <1>3, <1>4 DEF Digit
    <2> QED BY <1>9, <2>1
<1>11. \A j \in 1..(i - 1) : s[j] = At(b, j)
    BY <1>3, <1>7, <1>10, ZenonT(40)
<1>12. CASE d + 1 < e
    <2>1. PICK c \in 0..61 : c = (d + e) \div 2
        BY <1>5, <1>6, <1>12
    <2>2. m = Append(s, c)
        BY <1>9, <1>12, <2>1, Zenon DEF order_midpoint
    <2>3. /\ m \in Key /\ Len(m) = i /\ m[i] = c /\ \A j \in 1..(i - 1) : m[j] = s[j]
        BY <1>3, <1>10, <2>1, <2>2, SMTT(30) DEF Key, Digit
    <2>4. ASSUME NEW j \in 1..i PROVE At(m, j) = m[j]
        <3>1. j \in Nat \ {0} /\ j <= Len(m)
            BY <1>3, <2>3
        <3> QED BY <2>3, <3>1, ReadsInside
    <2>5. At(m, i) = c
        BY <1>3, <2>3, <2>4
    <2>6. \A j \in 1..(i - 1) : At(m, j) = At(b, j)
        BY <1>3, <1>11, <2>3, <2>4, SMTT(30)
    <2> QED BY <1>3, <1>5, <1>6, <1>7, <1>8, <1>12, <2>1, <2>3, <2>5, <2>6, Zenon DEF Midpoint
<1>13. CASE ~(d + 1 < e)
    <2>1. PICK c \in 0..61 : c = (x + 62) \div 2
        BY <1>5
    <2>2. m = s \o <<d, c>>
        BY <1>9, <1>13, <2>1, Zenon DEF order_midpoint
    <2>4. /\ m \in Key /\ Len(m) = i + 1 /\ m[i] = d /\ m[i + 1] = c
          /\ \A j \in 1..(i - 1) : m[j] = s[j]
        <3>1. s \in Key /\ d \in Digit /\ c \in Digit
            BY <1>5, <1>10, <2>1 DEF Key, Digit
        <3>2. TwoMore(m, s, d, c)
            BY <2>2, <3>1, WithTwoMore, Zenon
        <3>3. Len(s) = i - 1 /\ Len(s) + 1 = i /\ Len(s) + 2 = i + 1
            BY <1>3, <1>10
        <3> QED BY <3>2, <3>3, Zenon DEF TwoMore
    <2>5. ASSUME NEW j \in 1..(i + 1) PROVE At(m, j) = m[j]
        <3>1. j \in Nat \ {0} /\ j <= Len(m)
            BY <1>3, <2>4
        <3> QED BY <2>4, <3>1, ReadsInside
    <2>6. At(m, i) = d /\ At(m, i + 1) = c
        BY <1>3, <2>4, <2>5
    <2>7. \A j \in 1..(i - 1) : At(m, j) = At(b, j)
        BY <1>3, <1>11, <2>4, <2>5
    <2> QED BY <1>3, <1>5, <1>6, <1>7, <1>8, <1>13, <2>1, <2>4, <2>6, <2>7, SMTT(30) DEF Midpoint
<1> QED BY <1>12, <1>13

\* A key is before any key that reads the same as it, padded with zeros, up to a position where the
\* other one reads more.
LEMMA PaddedIsLess ==
    ASSUME NEW a \in Key, NEW m \in Key, NEW i \in Nat \ {0},
           \A j \in 1..(i - 1) : DigitAt(a, j, 0) = At(m, j),
           NEW d, d = DigitAt(a, i, 0), d < At(m, i)
    PROVE  KeyLess(a, m)
<1>1. Len(a) \in Nat /\ Len(m) \in Nat
    BY ReadsDigits
<1>2. CASE i <= Len(a)
    <2>1. At(a, i) = d
        BY <1>2, ReadsWithEnd
    <2>2. \A j \in 1..(i - 1) : j \in Nat \ {0} /\ j <= Len(a)
        BY <1>1, <1>2
    <2>3. \A j \in 1..(i - 1) : At(a, j) = At(m, j)
        BY <2>2, ReadsWithEnd
    <2>4. DiffersFrom(a, m, i)
        BY <2>1, <2>3 DEF DiffersFrom
    <2> QED BY <2>4, LessIs
<1>3. CASE ~(i <= Len(a))
    <2>1. d = 0
        BY <1>3, ReadsWithEnd
    <2>2. i <= Len(m)
        <3>1. ASSUME ~(i <= Len(m)) PROVE FALSE
            <4>1. At(m, i) = -1
                BY <3>1, ReadsDigits
            <4> QED BY <2>1, <4>1
        <3> QED BY <3>1
    <2>3. Len(a) < Len(m)
        BY <1>1, <1>3, <2>2
    <2>4. \A j \in 1..Len(a) : j \in Nat \ {0} /\ j <= Len(a) /\ j \in 1..(i - 1)
        BY <1>1, <1>3
    <2>5. \A j \in 1..Len(a) : At(a, j) = At(m, j)
        BY <2>4, ReadsWithEnd
    <2> QED BY <2>3, <2>5, PrefixIsLess
<1> QED BY <1>2, <1>3

\* A key is not before any of its own beginnings.
LEMMA NotBeforeBeginning ==
    ASSUME NEW a \in Key, NEW m \in Key, \A j \in 1..Len(m) : At(a, j) = At(m, j)
    PROVE  ~KeyLess(a, m)
<1>1. ASSUME KeyLess(a, m) PROVE FALSE
    <2>1. PICK p \in Nat \ {0} : DiffersFrom(a, m, p)
        BY <1>1, LessIs
    <2>2. At(a, p) < At(m, p) /\ Len(m) \in Nat /\ At(a, p) \in Int /\ -1 <= At(a, p)
        BY <2>1, ReadsDigits DEF DiffersFrom
    <2>3. CASE p <= Len(m)
        <3>1. p \in 1..Len(m)
            BY <2>2, <2>3
        <3>2. At(a, p) = At(m, p)
            BY <3>1
        <3> QED BY <2>2, <3>2
    <2>4. CASE ~(p <= Len(m))
        <3>1. At(m, p) = -1
            BY <2>4, ReadsDigits
        <3> QED BY <2>2, <3>1
    <2> QED BY <2>3, <2>4
<1> QED BY <1>1

(***************************************************************************)
(* order_midpoint, for keys of any length: the key it returns is strictly  *)
(* between two keys in order exactly where HasRoom says so.                *)
(***************************************************************************)
THEOREM MidpointIsBetween ==
    ASSUME NEW a \in Key, NEW b \in Key
    PROVE  MidpointInOrder(a, b)
<1> SUFFICES ASSUME KeyLess(a, b)
             PROVE  HasRoom(a, b) <=> /\ KeyLess(a, order_midpoint(a, b))
                                      /\ KeyLess(order_midpoint(a, b), b)
    BY DEF MidpointInOrder
<1>1. PICK i : i = FirstDifference(a, b, 0, 62)
    OBVIOUS
<1>2. PICK m : m = order_midpoint(a, b)
    OBVIOUS
<1>3. PICK d : d = DigitAt(a, i, 0)
    OBVIOUS
<1>4. PICK e : e = DigitAt(b, i, 62)
    OBVIOUS
<1>5. PICK x : x = DigitAt(a, i + 1, 0)
    OBVIOUS
<1>6. /\ i \in Nat \ {0} /\ d \in 0..61 /\ e \in 0..62 /\ x \in 0..61 /\ d # e
      /\ i <= Len(b) + 1
      /\ \A j \in 1..(i - 1) : DigitAt(a, j, 0) = DigitAt(b, j, 62) /\ At(b, j) = DigitAt(b, j, 62)
      /\ m \in Key
      /\ \A j \in 1..(i - 1) : At(m, j) = At(b, j)
      /\ d + 1 < e => Len(m) = i /\ At(m, i) = (d + e) \div 2
      /\ ~(d + 1 < e) => Len(m) = i + 1 /\ At(m, i) = d /\ At(m, i + 1) = (x + 62) \div 2
    <2>1. Midpoint(m, a, b, i, d, e, x)
        BY <1>1, <1>2, <1>3, <1>4, <1>5, MidpointReads, Zenon
    <2> QED BY <2>1 DEF Midpoint
<1>7. HasRoom(a, b) <=> i <= Len(b) /\ (d + 1 = b[i] => x # 61)
    BY <1>1, <1>3, <1>5 DEF HasRoom
<1>8. Len(a) \in Nat /\ Len(b) \in Nat /\ Len(m) \in Nat
    BY <1>6, ReadsDigits
<1>9. CASE ~(i <= Len(b))
    <2>1. i - 1 = Len(b) /\ Len(b) < Len(m)
        BY <1>6, <1>8, <1>9
    <2>2. \A j \in 1..Len(b) : At(b, j) = At(m, j)
        BY <1>6, <2>1
    <2>3. KeyLess(b, m)
        BY <1>6, <2>1, <2>2, PrefixIsLess
    <2>4. ~KeyLess(m, b)
        BY <1>6, <2>3, LessTotal
    <2> QED BY <1>2, <1>7, <1>9, <2>4
<1>10. CASE i <= Len(b)
    <2>1. e = b[i] /\ e = At(b, i) /\ e \in 0..61
        BY <1>4, <1>6, <1>10, ReadsWithEnd, SMTT(30)
    <2>2. \A j \in 1..(i - 1) : DigitAt(a, j, 0) = At(b, j) /\ DigitAt(a, j, 0) = At(m, j)
        BY <1>6
    <2>3. d < e
        <3>1. ASSUME e < d PROVE FALSE
            <4>1. i <= Len(a)
                <5>1. ASSUME ~(i <= Len(a)) PROVE FALSE
                    <6>1. d = 0
                        BY <1>3, <1>6, <5>1, ReadsWithEnd
                    <6> QED BY <2>1, <3>1, <6>1
                <5> QED BY <5>1
            <4>2. At(a, i) = d
                BY <1>3, <1>6, <4>1, ReadsWithEnd
            <4>3. \A j \in 1..(i - 1) : j \in Nat \ {0} /\ j <= Len(a)
                BY <1>6, <1>8, <4>1
            <4>4. \A j \in 1..(i - 1) : At(b, j) = At(a, j)
                BY <2>2, <4>3, ReadsWithEnd
            <4>5. DiffersFrom(b, a, i)
                BY <2>1, <3>1, <4>2, <4>4 DEF DiffersFrom
            <4>6. KeyLess(b, a)
                BY <1>6, <4>5, LessIs
            <4> QED BY <4>6, LessTotal
        <3> QED BY <1>6, <2>1, <3>1
    <2>4. CASE d + 1 < e
        <3>1. PICK c : c = (d + e) \div 2
            OBVIOUS
        <3>2. c \in Int /\ d < c /\ c < e
            BY <1>6, <2>1, <2>4, <3>1
        <3>3. At(m, i) = c
            BY <1>6, <2>4, <3>1
        <3>4. KeyLess(a, m)
            BY <1>3, <1>6, <2>2, <3>2, <3>3, PaddedIsLess, Zenon
        <3>5. DiffersFrom(m, b, i)
            BY <1>6, <2>1, <3>2, <3>3 DEF DiffersFrom
        <3>6. KeyLess(m, b)
            BY <1>6, <3>5, LessIs
        <3>7. d + 1 # b[i]
            BY <1>6, <2>1, <2>4
        <3> QED BY <1>2, <1>7, <1>10, <3>4, <3>6, <3>7
    <2>5. CASE ~(d + 1 < e)
        <3>1. PICK c : c = (x + 62) \div 2
            OBVIOUS
        <3>2. d + 1 = b[i] /\ Len(m) = i + 1 /\ At(m, i) = d /\ At(m, i + 1) = c
            BY <1>6, <2>1, <2>3, <2>5, <3>1, SMTT(30)
        <3>3. DiffersFrom(m, b, i)
            BY <1>6, <2>1, <2>3, <3>2, Zenon DEF DiffersFrom
        <3>4. KeyLess(m, b)
            BY <1>6, <3>3, LessIs
        <3>5. PICK k \in Nat \ {0} : k = i + 1
            BY <1>6
        <3>6. \A j \in 1..(k - 1) : j \in 1..(i - 1) \/ j = i
            BY <1>6, <3>5
        <3>7. \A j \in 1..(k - 1) : DigitAt(a, j, 0) = At(m, j)
            BY <1>3, <2>2, <3>2, <3>6
        <3>8. CASE x # 61
            <4>1. c \in Int /\ x < c
                BY <1>6, <3>1, <3>8
            <4>2. KeyLess(a, m)
                BY <1>5, <1>6, <3>2, <3>5, <3>7, <4>1, PaddedIsLess, SMTT(30)
            <4> QED BY <1>2, <1>7, <1>10, <3>4, <3>8, <4>2, Zenon
        <3>9. CASE x = 61
            <4>1. c = 61
                BY <3>1, <3>9
            <4>2. k <= Len(a)
                <5>1. ASSUME ~(k <= Len(a)) PROVE FALSE
                    <6>1. x = 0
                        BY <1>5, <3>5, <5>1, ReadsWithEnd
                    <6> QED BY <3>9, <6>1
                <5> QED BY <5>1
            <4>3. \A j \in 1..k : j \in Nat \ {0} /\ j <= Len(a) /\ (j \in 1..(k - 1) \/ j = k)
                BY <1>8, <4>2
            <4>4. At(a, k) = At(m, k)
                BY <1>5, <3>2, <3>5, <3>9, <4>1, <4>2, ReadsWithEnd
            <4>5. \A j \in 1..(k - 1) : At(a, j) = At(m, j)
                <5>1. \A j \in 1..(k - 1) : j \in Nat \ {0} /\ j <= Len(a)
                    BY <1>8, <4>2
                <5> QED BY <3>7, <5>1, ReadsWithEnd
            <4>6. \A j \in 1..Len(m) : At(a, j) = At(m, j)
                BY <3>2, <3>5, <4>3, <4>4, <4>5
            <4>7. ~KeyLess(a, m)
                BY <1>6, <4>6, NotBeforeBeginning
            <4> QED BY <1>2, <1>7, <3>2, <3>9, <4>7
        <3> QED BY <3>8, <3>9
    <2> QED BY <2>4, <2>5
<1> QED BY <1>9, <1>10

(***************************************************************************)
(* order_key_successor, for a predecessor and a suffix of any length: the  *)
(* key is after its predecessor, on the fallback path too.                 *)
(***************************************************************************)
THEOREM SuccessorIsAfter ==
    ASSUME NEW pred \in Key, NEW suffix \in Key
    PROVE  KeyLess(pred, order_key_successor(pred, suffix))
<1>1. PICK v : v = <<V>>
    BY Zenon
<1>2. v \in Seq(Digit) /\ Len(v) = 1
    BY <1>1 DEF V, Digit
<1>3. v \in Key /\ Len(v) = 1 /\ Len(pred) \in Nat /\ Len(suffix) \in Nat
    BY <1>2 DEF Key
<1>4. PICK w : w = pred \o v
    BY Zenon
<1>5. /\ w \in Key /\ Len(w) = Len(pred) + Len(v)
      /\ \A j \in 1..(Len(pred) + Len(v)) : w[j] = IF j <= Len(pred) THEN pred[j] ELSE v[j - Len(pred)]
    BY <1>3, <1>4, JoinedKeys, ZenonT(40)
<1>6. PICK f : f = w \o suffix
    BY Zenon
<1>7. /\ f \in Key /\ Len(f) = Len(w) + Len(suffix)
      /\ \A j \in 1..(Len(w) + Len(suffix)) : f[j] = IF j <= Len(w) THEN w[j] ELSE suffix[j - Len(w)]
    BY <1>5, <1>6, JoinedKeys, ZenonT(40)
<1>8. Len(pred) < Len(f)
    BY <1>3, <1>5, <1>7
<1>9. ASSUME NEW j \in 1..Len(pred) PROVE At(pred, j) = At(f, j)
    <2>1. /\ j \in Nat \ {0} /\ j <= Len(pred) /\ j <= Len(f) /\ j <= Len(w)
          /\ j \in 1..(Len(pred) + Len(v)) /\ j \in 1..(Len(w) + Len(suffix))
        BY <1>3, <1>5, <1>7
    <2>2. w[j] = pred[j]
        BY <1>5, <2>1, Zenon
    <2>3. f[j] = w[j]
        BY <1>7, <2>1, Zenon
    <2>4. At(pred, j) = pred[j] /\ At(f, j) = f[j]
        BY <1>7, <2>1, ReadsInside
    <2> QED BY <2>2, <2>3, <2>4
<1>10. KeyLess(pred, f)
    BY <1>7, <1>8, <1>9, PrefixIsLess
<1>11. f = pred \o <<V>> \o suffix
    BY <1>1, <1>4, <1>6
<1> QED BY <1>10, <1>11, Zenon DEF order_key_successor

----------------------------------------------------------------------------
(***************************************************************************)
(* Numbers in keys.  The two loops are recursive functions; that there are *)
(* such functions is shown for any step on numbers.                        *)
(***************************************************************************)
Iterates(g, x, F, m) == g = [k \in 0..m |-> IF k = 0 THEN x ELSE F[<<k, g[k - 1]>>]]

\* One more iteration.
LEMMA OneMore ==
    ASSUME NEW m \in Nat \ {0}, NEW x \in Nat, NEW F, \A k \in 1..m, v \in Nat : F[<<k, v>>] \in Nat,
           NEW h \in [0..(m - 1) -> Nat], Iterates(h, x, F, m - 1)
    PROVE  \E g \in [0..m -> Nat] : Iterates(g, x, F, m)
<1> DEFINE g == [k \in 0..m |-> IF k = m THEN F[<<m, h[m - 1]>>] ELSE h[k]]
<1>1. m - 1 \in 0..(m - 1) /\ m \in 1..m /\ \A k \in 0..m : k # m => k \in 0..(m - 1)
    OBVIOUS
<1>2. g \in [0..m -> Nat]
    BY <1>1
<1>3. ASSUME NEW k \in 0..m
      PROVE  g[k] = IF k = 0 THEN x ELSE F[<<k, g[k - 1]>>]
    <2>1. CASE k = m
        <3>1. g[m - 1] = h[m - 1]
            BY <1>1
        <3> QED BY <2>1, <3>1, Zenon
    <2>2. CASE k # m
        <3>1. k \in 0..(m - 1) /\ g[k] = h[k]
            BY <2>2
        <3>2. h[k] = IF k = 0 THEN x ELSE F[<<k, h[k - 1]>>]
            BY <3>1, Zenon DEF Iterates
        <3>3. k # 0 => g[k - 1] = h[k - 1]
            BY <3>1, SMTT(30)
        <3> QED BY <3>1, <3>2, <3>3, Zenon
    <2> QED BY <2>1, <2>2
<1>4. g = [k \in 0..m |-> g[k]]
    OBVIOUS
<1> HIDE DEF g
<1>5. Iterates(g, x, F, m)
    BY <1>3, <1>4, Zenon DEF Iterates
<1> QED BY <1>2, <1>5, Zenon

\* Any step on numbers can be iterated.
LEMMA IterationExists ==
    ASSUME NEW m \in Nat, NEW x \in Nat, NEW F, \A k \in 1..m, v \in Nat : F[<<k, v>>] \in Nat
    PROVE  \E g \in [0..m -> Nat] : Iterates(g, x, F, m)
<1> DEFINE D == {l \in 0..m : ~\E g \in [0..l -> Nat] : Iterates(g, x, F, l)}
<1>1. SUFFICES ASSUME D # {} PROVE FALSE
    <2>1. m \in 0..m
        OBVIOUS
    <2> QED BY <1>1, <2>1, Zenon
<1>2. D \subseteq Nat
    OBVIOUS
<1>3. PICK l \in D : \A j \in D : l <= j
    BY <1>1, <1>2, LeastNumber, Zenon
<1>4. l \in 0..m /\ ~\E g \in [0..l -> Nat] : Iterates(g, x, F, l)
    BY <1>3, Zenon
<1>5. CASE l = 0
    <2> DEFINE g == [k \in 0..0 |-> x]
    <2>1. g \in [0..0 -> Nat]
        OBVIOUS
    <2>2. g = [k \in 0..0 |-> IF k = 0 THEN x ELSE F[<<k, g[k - 1]>>]]
        OBVIOUS
    <2>3. Iterates(g, x, F, 0)
        BY <2>2, Zenon DEF Iterates
    <2> QED BY <1>4, <1>5, <2>1, <2>3, Zenon
<1>6. CASE l # 0
    <2>1. l \in Nat \ {0} /\ l - 1 \in 0..m /\ ~(l <= l - 1) /\ \A k \in 1..l : k \in 1..m
        BY <1>4, <1>6
    <2>2. l - 1 \notin D
        BY <1>3, <2>1, Zenon
    <2>3. PICK h \in [0..(l - 1) -> Nat] : Iterates(h, x, F, l - 1)
        BY <2>1, <2>2, Zenon
    <2>4. \A k \in 1..l, v \in Nat : F[<<k, v>>] \in Nat
        BY <2>1, Zenon
    <2> HIDE DEF D
    <2> QED BY <1>4, <2>1, <2>3, <2>4, OneMore, Zenon
<1> QED BY <1>5, <1>6, Zenon

\* What the divisions by 62 leave of a number.
LEMMA QuotientsAre ==
    ASSUME NEW n \in Nat
    PROVE  /\ Quotients(n) \in [0..NumWidth -> Nat]
           /\ Quotients(n)[0] = n
           /\ \A k \in 1..NumWidth : Quotients(n)[k] = Quotients(n)[k - 1] \div 62
<1> DEFINE Def(g) == g = [k \in 0..NumWidth |-> IF k = 0 THEN n ELSE g[k - 1] \div 62]
           F == [p \in (1..NumWidth) \X Nat |-> p[2] \div 62]
           Q == Quotients(n)
<1>0. NumWidth \in Nat
    BY WidthAssumption
<1>1. \A k \in 1..NumWidth, v \in Nat : F[<<k, v>>] = v \div 62 /\ F[<<k, v>>] \in Nat
    OBVIOUS
<1> HIDE DEF F
<1>2. PICK g \in [0..NumWidth -> Nat] : Iterates(g, n, F, NumWidth)
    BY <1>0, <1>1, IterationExists, Zenon
<1>3. \A k \in 0..NumWidth : k # 0 => k \in 1..NumWidth /\ k - 1 \in 0..NumWidth
    BY <1>0
<1>4. Def(g)
    <2>1. \A k \in 0..NumWidth : k # 0 => F[<<k, g[k - 1]>>] = g[k - 1] \div 62
        BY <1>1, <1>2, <1>3, Zenon
    <2>2. g = [k \in 0..NumWidth |-> IF k = 0 THEN n ELSE F[<<k, g[k - 1]>>]]
        BY <1>2, Zenon DEF Iterates
    <2> QED BY <2>1, <2>2, SMTT(30)
<1>5. Q = CHOOSE h : Def(h)
    BY DEF Quotients
<1>6. Def(Q)
    <2> HIDE DEF Def, Q
    <2> QED BY <1>4, <1>5, Zenon
<1> HIDE DEF Q
<1>7. DOMAIN Q = 0..NumWidth /\ Q[0] = n /\ \A k \in 1..NumWidth : Q[k] = Q[k - 1] \div 62
    BY <1>0, <1>6
<1>8. ASSUME NEW k \in 0..NumWidth PROVE Q[k] \in Nat
    <2> DEFINE D == {i \in 0..NumWidth : Q[i] \notin Nat}
    <2>1. SUFFICES ASSUME D # {} PROVE FALSE
        BY Zenon
    <2>2. D \subseteq Nat
        OBVIOUS
    <2>3. PICK i \in D : \A j \in D : i <= j
        BY <2>1, <2>2, LeastNumber, Zenon
    <2>4. i \in 0..NumWidth /\ Q[i] \notin Nat /\ i # 0
        BY <1>7, <2>3
    <2>5. i \in 1..NumWidth /\ i - 1 \in 0..NumWidth /\ ~(i <= i - 1)
        BY <1>0, <2>4
    <2>6. Q[i - 1] \in Nat
        BY <2>3, <2>5, Zenon
    <2>7. Q[i] = Q[i - 1] \div 62
        BY <1>7, <2>5, Zenon
    <2> QED BY <2>4, <2>6, <2>7
<1>9. Q = [k \in 0..NumWidth |-> Q[k]]
    BY <1>6
<1>10. Q \in [0..NumWidth -> Nat]
    BY <1>8, <1>9, Zenon
<1> QED BY <1>7, <1>10, Zenon DEF Q

\* The numbers that the beginnings of a run of digits make.
LEMMA ValuesAre ==
    ASSUME NEW d \in Key
    PROVE  /\ Values(d) \in [0..Len(d) -> Nat]
           /\ Values(d)[0] = 0
           /\ \A i \in 1..Len(d) : Values(d)[i] = Values(d)[i - 1] * 62 + d[i]
<1> DEFINE Def(g) == g = [i \in 0..Len(d) |-> IF i = 0 THEN 0 ELSE g[i - 1] * 62 + d[i]]
           F == [p \in (1..Len(d)) \X Nat |-> p[2] * 62 + d[p[1]]]
           W == Values(d)
<1>0. Len(d) \in Nat /\ \A i \in 1..Len(d) : d[i] \in Nat
    <2>1. Len(d) \in Nat /\ \A i \in 1..Len(d) : d[i] \in Digit
        BY DEF Key
    <2>2. Digit \subseteq Nat
        BY DEF Digit
    <2> QED BY <2>1, <2>2, Zenon
<1>1. ASSUME NEW i \in 1..Len(d), NEW v \in Nat
      PROVE  F[<<i, v>>] = v * 62 + d[i] /\ F[<<i, v>>] \in Nat
    <2>1. PICK x \in Nat : x = d[i]
        BY <1>0, Zenon
    <2>2. v * 62 + x \in Nat
        BY <2>1
    <2>3. PICK p : p = <<i, v>>
        BY Zenon
    <2>4. p \in (1..Len(d)) \X Nat /\ p[1] = i /\ p[2] = v
        BY <2>3
    <2>5. F[p] = v * 62 + d[i]
        BY <2>4, Zenon
    <2> QED BY <2>1, <2>2, <2>3, <2>5, Zenon
<1> HIDE DEF F
<1>2. PICK g \in [0..Len(d) -> Nat] : Iterates(g, 0, F, Len(d))
    <2>1. 0 \in Nat
        OBVIOUS
    <2> QED BY <1>0, <1>1, <2>1, IterationExists, Zenon
<1>3. \A i \in 0..Len(d) : i # 0 => i \in 1..Len(d) /\ i - 1 \in 0..Len(d)
    BY <1>0
<1>4. Def(g)
    <2>1. \A i \in 0..Len(d) : i # 0 => F[<<i, g[i - 1]>>] = g[i - 1] * 62 + d[i]
        BY <1>1, <1>2, <1>3, Zenon
    <2>2. g = [i \in 0..Len(d) |-> IF i = 0 THEN 0 ELSE F[<<i, g[i - 1]>>]]
        BY <1>2, Zenon DEF Iterates
    <2> QED BY <2>1, <2>2, Zenon
<1>5. W = CHOOSE h : Def(h)
    BY DEF Values
<1>6. Def(W)
    <2> HIDE DEF Def, W
    <2> QED BY <1>4, <1>5, Zenon
<1> HIDE DEF W
<1>7. DOMAIN W = 0..Len(d) /\ W[0] = 0 /\ \A i \in 1..Len(d) : W[i] = W[i - 1] * 62 + d[i]
    BY <1>0, <1>6
<1>8. ASSUME NEW k \in 0..Len(d) PROVE W[k] \in Nat
    <2> DEFINE D == {i \in 0..Len(d) : W[i] \notin Nat}
    <2>1. SUFFICES ASSUME D # {} PROVE FALSE
        BY Zenon
    <2>2. D \subseteq Nat
        OBVIOUS
    <2>3. PICK i \in D : \A j \in D : i <= j
        BY <2>1, <2>2, LeastNumber, Zenon
    <2>4. i \in 0..Len(d) /\ W[i] \notin Nat /\ i # 0
        BY <1>7, <2>3
    <2>5. i \in 1..Len(d) /\ i - 1 \in 0..Len(d) /\ ~(i <= i - 1)
        BY <1>0, <2>4
    <2>6. W[i - 1] \in Nat
        BY <2>3, <2>5, Zenon
    <2>7. W[i] = W[i - 1] * 62 + d[i] /\ d[i] \in Nat
        BY <1>0, <1>7, <2>5, Zenon
    <2> QED BY <2>4, <2>6, <2>7
<1>9. W = [k \in 0..Len(d) |-> W[k]]
    BY <1>6
<1>10. W \in [0..Len(d) -> Nat]
    BY <1>8, <1>9, Zenon
<1> QED BY <1>7, <1>10, Zenon DEF W

\* Of the smaller number there is never more left.
LEMMA QuotientsOrdered ==
    ASSUME NEW m \in Nat, NEW n \in Nat, m <= n, NEW k \in 0..NumWidth
    PROVE  Quotients(m)[k] <= Quotients(n)[k]
<1>1. PICK q, r : q = Quotients(m) /\ r = Quotients(n)
    BY Zenon
<1>2. /\ q[0] = m /\ \A i \in 0..NumWidth : q[i] \in Nat
      /\ \A i \in 1..NumWidth : q[i] = q[i - 1] \div 62
    BY <1>1, QuotientsAre, ZenonT(40)
<1>3. /\ r[0] = n /\ \A i \in 0..NumWidth : r[i] \in Nat
      /\ \A i \in 1..NumWidth : r[i] = r[i - 1] \div 62
    BY <1>1, QuotientsAre, ZenonT(40)
<1> DEFINE D == {i \in 0..NumWidth : ~(q[i] <= r[i])}
<1>4. ASSUME D # {} PROVE FALSE
    <2>1. D \subseteq Nat
        OBVIOUS
    <2>2. PICK i \in D : \A j \in D : i <= j
        BY <1>4, <2>1, LeastNumber, Zenon
    <2>3. i \in 0..NumWidth /\ ~(q[i] <= r[i]) /\ i # 0
        BY <1>2, <1>3, <2>2
    <2>4. i \in 1..NumWidth /\ i - 1 \in 0..NumWidth /\ ~(i <= i - 1)
        BY <2>3, WidthAssumption
    <2>5. q[i - 1] <= r[i - 1]
        BY <2>2, <2>4, Zenon
    <2>6. q[i] = q[i - 1] \div 62 /\ r[i] = r[i - 1] \div 62 /\ q[i - 1] \in Nat /\ r[i - 1] \in Nat
        BY <1>2, <1>3, <2>4, Zenon
    <2> QED BY <2>3, <2>5, <2>6
<1> QED BY <1>1, <1>4, Zenon

\* What fits in a key, fits with every smaller number.
LEMMA SmallerFits ==
    ASSUME NEW m \in Nat, NEW n \in Nat, m <= n, Fits(n)
    PROVE  Fits(m)
<1>1. NumWidth \in 0..NumWidth
    BY WidthAssumption
<1>2. Quotients(m)[NumWidth] <= Quotients(n)[NumWidth] /\ Quotients(n)[NumWidth] = 0
    BY <1>1, QuotientsOrdered DEF Fits
<1>3. Quotients(m)[NumWidth] \in Nat
    BY <1>1, QuotientsAre, Zenon
<1> QED BY <1>2, <1>3 DEF Fits

\* The digits of a number.
LEMMA Encoded ==
    ASSUME NEW n \in Nat, NEW e, e = base62_encode_padded(n)
    PROVE  /\ e \in Key /\ Len(e) = NumWidth
           /\ \A i \in 1..NumWidth : e[i] = Quotients(n)[NumWidth - i] % 62
<1>1. NumWidth \in Nat
    BY WidthAssumption
<1>2. ASSUME NEW i \in 1..NumWidth PROVE Quotients(n)[NumWidth - i] % 62 \in Digit
    <2>1. NumWidth - i \in 0..NumWidth
        BY <1>1
    <2>2. PICK x \in Nat : x = Quotients(n)[NumWidth - i]
        BY <2>1, QuotientsAre, ZenonT(40)
    <2>3. x % 62 \in Digit
        BY DEF Digit
    <2> QED BY <2>2, <2>3, Zenon
<1>3. e = [i \in 1..NumWidth |-> Quotients(n)[NumWidth - i] % 62]
    BY DEF base62_encode_padded
<1>4. \A i \in 1..NumWidth : e[i] = Quotients(n)[NumWidth - i] % 62
    BY <1>3, Zenon
<1>5. e \in [1..NumWidth -> Digit]
    BY <1>2, <1>3, Zenon
<1>6. e \in Seq(Digit) /\ Len(e) = NumWidth
    BY <1>1, <1>5
<1> QED BY <1>4, <1>6, Zenon DEF Key

\* The key k begins with V and the digits of n.
Canonical(k, n) ==
    /\ k \in Key /\ Len(k) > NumWidth /\ k[1] = V
    /\ \A i \in 1..NumWidth : k[i + 1] = base62_encode_padded(n)[i]

\* The smaller number has the smaller digits.
LEMMA EncodedInOrder ==
    ASSUME NEW m \in Nat, NEW n \in Nat, m < n, Fits(n),
           NEW d, d = base62_encode_padded(m), NEW e, e = base62_encode_padded(n)
    PROVE  \E i \in 1..NumWidth : d[i] < e[i] /\ \A j \in 1..(i - 1) : d[j] = e[j]
<1>0. NumWidth \in Nat
    BY WidthAssumption
<1>1. PICK q, r : q = Quotients(m) /\ r = Quotients(n)
    BY Zenon
<1>2. /\ q[0] = m /\ \A i \in 0..NumWidth : q[i] \in Nat
      /\ \A i \in 1..NumWidth : q[i] = q[i - 1] \div 62
    BY <1>1, QuotientsAre, ZenonT(40)
<1>3. /\ r[0] = n /\ \A i \in 0..NumWidth : r[i] \in Nat
      /\ \A i \in 1..NumWidth : r[i] = r[i - 1] \div 62
    BY <1>1, QuotientsAre, ZenonT(40)
<1>4. m <= n
    OBVIOUS
<1>5. \A k \in 0..NumWidth : q[k] <= r[k]
    BY <1>1, <1>4, QuotientsOrdered, Zenon
<1>6. \A i \in 1..NumWidth : d[i] = q[NumWidth - i] % 62 /\ e[i] = r[NumWidth - i] % 62
    BY <1>1, Encoded, ZenonT(40)
<1> DEFINE D == {i \in 0..NumWidth : q[NumWidth - i] # r[NumWidth - i]}
<1>7. D \subseteq Nat /\ NumWidth \in D
    BY <1>0, <1>2, <1>3
<1>8. PICK i \in D : \A j \in D : i <= j
    BY <1>7, LeastNumber, Zenon
<1>9. i \in 0..NumWidth /\ q[NumWidth - i] # r[NumWidth - i]
    BY <1>8, Zenon
<1>10. i # 0
    <2>1. NumWidth - 0 = NumWidth /\ NumWidth \in 0..NumWidth
        BY <1>0
    <2>2. r[NumWidth] = 0 /\ q[NumWidth] <= r[NumWidth] /\ q[NumWidth] \in Nat
        BY <1>1, <1>2, <1>5, <2>1, Zenon DEF Fits
    <2>3. q[NumWidth] = r[NumWidth]
        BY <2>2
    <2> QED BY <1>9, <2>1, <2>3, Zenon
<1>11. \A j \in 1..(i - 1) : j \in 0..NumWidth /\ j \in 1..NumWidth /\ ~(i <= j)
    BY <1>0, <1>9
<1>12. \A j \in 1..(i - 1) : q[NumWidth - j] = r[NumWidth - j]
    BY <1>8, <1>11, Zenon
<1>13. \A j \in 1..(i - 1) : d[j] = e[j]
    BY <1>6, <1>11, <1>12, ZenonT(40)
<1>14. /\ i \in 1..NumWidth /\ i - 1 \in 0..NumWidth /\ ~(i <= i - 1)
       /\ NumWidth - i \in 0..NumWidth /\ NumWidth - (i - 1) \in 1..NumWidth
       /\ (NumWidth - (i - 1)) - 1 = NumWidth - i
    BY <1>0, <1>9, <1>10
<1>15. q[NumWidth - (i - 1)] = r[NumWidth - (i - 1)]
    BY <1>8, <1>14, Zenon
<1>16. q[NumWidth - i] \div 62 = r[NumWidth - i] \div 62
    BY <1>2, <1>3, <1>14, <1>15, ZenonT(40)
<1>17. PICK x \in Nat, y \in Nat : x = q[NumWidth - i] /\ y = r[NumWidth - i]
    BY <1>2, <1>3, <1>14, Zenon
<1>18. x <= y /\ x # y /\ x \div 62 = y \div 62
    BY <1>5, <1>9, <1>14, <1>16, <1>17, Zenon
<1>19. x % 62 < y % 62
    BY <1>17, <1>18
<1>20. d[i] < e[i]
    BY <1>6, <1>14, <1>17, <1>19, Zenon
<1> QED BY <1>13, <1>14, <1>20, Zenon

\* Hence the smaller number has the smaller keys, whatever comes after it.
LEMMA CanonicalLess ==
    ASSUME NEW m \in Nat, NEW n \in Nat, m < n, Fits(n),
           NEW k, Canonical(k, m), NEW l, Canonical(l, n)
    PROVE  KeyLess(k, l)
<1>0. NumWidth \in Nat
    BY WidthAssumption
<1>1. PICK d, e : d = base62_encode_padded(m) /\ e = base62_encode_padded(n)
    BY Zenon
<1>2. PICK i \in 1..NumWidth : d[i] < e[i] /\ \A j \in 1..(i - 1) : d[j] = e[j]
    BY <1>1, EncodedInOrder, SMTT(30)
<1>3. /\ k \in Key /\ l \in Key /\ Len(k) > NumWidth /\ Len(l) > NumWidth /\ k[1] = l[1]
      /\ \A j \in 1..NumWidth : k[j + 1] = d[j] /\ l[j + 1] = e[j]
    BY <1>1, Zenon DEF Canonical
<1>4. Len(k) \in Nat /\ Len(l) \in Nat
    BY <1>3, ReadsDigits, Zenon
<1>5. ASSUME NEW j \in 1..(NumWidth + 1) PROVE At(k, j) = k[j] /\ At(l, j) = l[j]
    <2>1. j \in Nat \ {0} /\ j <= Len(k) /\ j <= Len(l)
        BY <1>0, <1>3, <1>4
    <2> QED BY <1>3, <2>1, ReadsInside, Zenon
<1>6. PICK p \in Nat \ {0} : p = i + 1
    BY <1>0
<1>7. /\ p \in 1..(NumWidth + 1)
      /\ \A j \in 1..(p - 1) : j \in 1..(NumWidth + 1)
      /\ \A j \in 1..(p - 1) : j # 1 => j - 1 \in 1..NumWidth /\ j - 1 \in 1..(i - 1) /\ (j - 1) + 1 = j
    BY <1>0, <1>6
<1>8. At(k, p) < At(l, p)
    BY <1>2, <1>3, <1>5, <1>6, <1>7, Zenon
<1>9. ASSUME NEW j \in 1..(p - 1) PROVE k[j] = l[j]
    <2>1. CASE j = 1
        BY <1>3, <2>1, Zenon
    <2>2. CASE j # 1
        <3>1. j - 1 \in 1..NumWidth /\ d[j - 1] = e[j - 1] /\ (j - 1) + 1 = j
            BY <1>2, <1>7, <2>2, Zenon
        <3>2. k[(j - 1) + 1] = d[j - 1] /\ l[(j - 1) + 1] = e[j - 1]
            BY <1>3, <3>1, Zenon
        <3> QED BY <3>1, <3>2, Zenon
    <2> QED BY <2>1, <2>2, Zenon
<1>10. \A j \in 1..(p - 1) : At(k, j) = At(l, j)
    BY <1>5, <1>7, <1>9, Zenon
<1>11. DiffersFrom(k, l, p)
    BY <1>8, <1>10, Zenon DEF DiffersFrom
<1> QED BY <1>3, <1>11, LessIs, Zenon

\* The number a is x with the last digit y.
EndsIn(a, x, y) == a \div 62 = x /\ a % 62 = y

\* Adding a last digit to a number, and taking it off.
LEMMA DigitAdded ==
    ASSUME NEW x \in Nat, NEW y \in 0..61, NEW a, a = x * 62 + y
    PROVE  EndsIn(a, x, y)
<1>1. a \in Nat
    OBVIOUS
<1>2. a \div 62 = x
    OBVIOUS
<1>3. a % 62 = a - 62 * (a \div 62)
    BY <1>1
<1>4. a % 62 = y
    BY <1>2, <1>3
<1> QED BY <1>2, <1>4, Zenon DEF EndsIn

\* Taking the last digit of a number off, and adding it.
LEMMA DigitTakenOff ==
    ASSUME NEW x \in Nat, NEW q, q = x \div 62, NEW r, r = x % 62
    PROVE  q * 62 + r = x
<1>1. q \in Nat /\ r \in Nat
    OBVIOUS
<1>2. x % 62 = x - 62 * (x \div 62)
    OBVIOUS
<1>3. r = x - 62 * q
    BY <1>2, Zenon
<1> QED BY <1>1, <1>3

\* What a full run of digits reads as, fits, and is written back as the same digits.
LEMMA Decoded ==
    ASSUME NEW d \in Key, Len(d) = NumWidth, NEW n, n = Values(d)[NumWidth]
    PROVE  n \in Nat /\ Fits(n) /\ d = base62_encode_padded(n)
<1>0. NumWidth \in Nat
    BY WidthAssumption
<1>1. PICK v : v = Values(d)
    BY Zenon
<1>2. /\ v[0] = 0 /\ n = v[NumWidth] /\ \A i \in 0..NumWidth : v[i] \in Nat
      /\ \A i \in 1..NumWidth : v[i] = v[i - 1] * 62 + d[i]
    BY <1>1, ValuesAre, ZenonT(40)
<1>3. n \in Nat
    BY <1>0, <1>2
<1>4. \A i \in 1..NumWidth : d[i] \in 0..61
    <2>1. \A i \in 1..NumWidth : d[i] \in Digit
        BY DEF Key
    <2> QED BY <2>1, Zenon DEF Digit
<1>5. PICK q : q = Quotients(n)
    BY Zenon
<1>6. /\ q[0] = n /\ \A i \in 0..NumWidth : q[i] \in Nat
      /\ \A i \in 1..NumWidth : q[i] = q[i - 1] \div 62
    BY <1>3, <1>5, QuotientsAre, ZenonT(40)
<1> DEFINE D == {k \in 0..NumWidth : q[k] # v[NumWidth - k]}
<1>7. ASSUME D # {} PROVE FALSE
    <2>1. D \subseteq Nat
        OBVIOUS
    <2>2. PICK k \in D : \A j \in D : k <= j
        BY <1>7, <2>1, LeastNumber, Zenon
    <2>3. k \in 0..NumWidth /\ q[k] # v[NumWidth - k] /\ k # 0
        BY <1>0, <1>2, <1>6, <2>2
    <2>4. /\ k \in 1..NumWidth /\ k - 1 \in 0..NumWidth /\ ~(k <= k - 1)
          /\ NumWidth - (k - 1) \in 1..NumWidth /\ (NumWidth - (k - 1)) - 1 = NumWidth - k
          /\ NumWidth - k \in 0..NumWidth
        BY <1>0, <2>3
    <2>5. q[k - 1] = v[NumWidth - (k - 1)] /\ q[k] = q[k - 1] \div 62
        BY <1>6, <2>2, <2>4, Zenon
    <2>6. PICK x \in Nat, y \in 0..61 : x = v[NumWidth - k] /\ y = d[NumWidth - (k - 1)]
        BY <1>2, <1>4, <2>4, Zenon
    <2>7. v[NumWidth - (k - 1)] = x * 62 + y
        BY <1>2, <2>4, <2>6, Zenon
    <2>8. v[NumWidth - (k - 1)] \div 62 = x
        <3>1. EndsIn(v[NumWidth - (k - 1)], x, y)
            BY <2>6, <2>7, DigitAdded, Zenon
        <3> QED BY <3>1, Zenon DEF EndsIn
    <2> QED BY <2>3, <2>5, <2>6, <2>8, Zenon
<1>8. \A k \in 0..NumWidth : q[k] = v[NumWidth - k]
    BY <1>7, Zenon
<1> HIDE DEF D
<1>9. Fits(n)
    <2>1. NumWidth \in 0..NumWidth /\ NumWidth - NumWidth = 0
        BY <1>0
    <2> QED BY <1>2, <1>5, <1>8, <2>1, Zenon DEF Fits
<1>10. PICK e : e = base62_encode_padded(n)
    BY Zenon
<1>11. e \in Key /\ Len(e) = NumWidth /\ \A i \in 1..NumWidth : e[i] = q[NumWidth - i] % 62
    BY <1>3, <1>5, <1>10, Encoded, ZenonT(40)
<1>12. ASSUME NEW i \in 1..NumWidth PROVE d[i] = e[i]
    <2>1. NumWidth - i \in 0..NumWidth /\ NumWidth - (NumWidth - i) = i /\ i - 1 \in 0..NumWidth
        BY <1>0
    <2>2. q[NumWidth - i] = v[i]
        BY <1>8, <2>1, Zenon
    <2>3. PICK x \in Nat, y \in 0..61 : x = v[i - 1] /\ y = d[i]
        BY <1>2, <1>4, <2>1, Zenon
    <2>4. v[i] = x * 62 + y
        BY <1>2, <2>3, Zenon
    <2>5. v[i] % 62 = y
        <3>1. EndsIn(v[i], x, y)
            BY <2>3, <2>4, DigitAdded, Zenon
        <3> QED BY <3>1, Zenon DEF EndsIn
    <2> QED BY <1>11, <2>2, <2>3, <2>5, Zenon
<1>13. d = e
    BY <1>11, <1>12 DEF Key
<1> QED BY <1>3, <1>9, <1>10, <1>13, Zenon

\* A number that fits is read back from its digits.
LEMMA EncodedReads ==
    ASSUME NEW n \in Nat, Fits(n), NEW e, e = base62_encode_padded(n)
    PROVE  Values(e)[NumWidth] = n
<1>0. NumWidth \in Nat
    BY WidthAssumption
<1>1. PICK q : q = Quotients(n)
    BY Zenon
<1>2. /\ q[0] = n /\ \A i \in 0..NumWidth : q[i] \in Nat
      /\ \A i \in 1..NumWidth : q[i] = q[i - 1] \div 62
    BY <1>1, QuotientsAre, ZenonT(40)
<1>3. e \in Key /\ Len(e) = NumWidth /\ \A i \in 1..NumWidth : e[i] = q[NumWidth - i] % 62
    BY <1>1, Encoded, ZenonT(40)
<1>4. PICK v : v = Values(e)
    BY Zenon
<1>5. /\ v[0] = 0 /\ \A i \in 0..NumWidth : v[i] \in Nat
      /\ \A i \in 1..NumWidth : v[i] = v[i - 1] * 62 + e[i]
    BY <1>3, <1>4, ValuesAre, ZenonT(40)
<1> DEFINE D == {i \in 0..NumWidth : v[i] # q[NumWidth - i]}
<1>6. ASSUME D # {} PROVE FALSE
    <2>1. D \subseteq Nat
        OBVIOUS
    <2>2. PICK i \in D : \A j \in D : i <= j
        BY <1>6, <2>1, LeastNumber, Zenon
    <2>3. i \in 0..NumWidth /\ v[i] # q[NumWidth - i]
        BY <2>2, Zenon
    <2>4. i # 0
        <3>1. NumWidth - 0 = NumWidth
            BY <1>0
        <3>2. q[NumWidth] = 0
            BY <1>1, Zenon DEF Fits
        <3> QED BY <1>5, <2>3, <3>1, <3>2, Zenon
    <2>5. /\ i \in 1..NumWidth /\ i - 1 \in 0..NumWidth /\ ~(i <= i - 1) /\ NumWidth - i \in 0..NumWidth
          /\ NumWidth - (i - 1) \in 1..NumWidth /\ (NumWidth - (i - 1)) - 1 = NumWidth - i
        BY <1>0, <2>3, <2>4
    <2>6. PICK x \in Nat : x = q[NumWidth - i]
        BY <1>2, <2>5, Zenon
    <2>7. v[i - 1] = q[NumWidth - (i - 1)]
        BY <2>2, <2>5, Zenon
    <2>8. PICK w, z : w = v[i - 1] /\ z = e[i]
        BY Zenon
    <2>9. w = x \div 62 /\ z = x % 62
        BY <1>2, <1>3, <2>5, <2>6, <2>7, <2>8, ZenonT(40)
    <2>10. v[i] = w * 62 + z
        BY <1>5, <2>5, <2>8, Zenon
    <2>11. w * 62 + z = x
        BY <2>6, <2>9, DigitTakenOff, SMTT(30)
    <2> QED BY <2>3, <2>6, <2>10, <2>11, Zenon
<1>7. NumWidth \in 0..NumWidth /\ NumWidth - NumWidth = 0
    BY <1>0
<1>8. v[NumWidth] = q[NumWidth - NumWidth]
    BY <1>6, <1>7, Zenon
<1> QED BY <1>2, <1>4, <1>7, <1>8, Zenon

(***************************************************************************)
(* base62_decode is "the inverse of base62_encode_padded ... lossless for  *)
(* any non-negative value that fit the chosen width", and the other way    *)
(* round: digits that decode are the digits of their number.               *)
(***************************************************************************)
THEOREM DecodeInvertsEncode ==
    /\ \A n \in 0..MaxNum : base62_decode(base62_encode_padded(n)) = n
    /\ \A d \in Key : Len(d) = NumWidth /\ base62_decode(d) # NoNum =>
            base62_decode(d) \in 0..MaxNum /\ base62_encode_padded(base62_decode(d)) = d
<1>0. NumWidth \in Nat \ {0} /\ MaxNum \in Nat /\ Fits(MaxNum)
    BY WidthAssumption, Zenon
<1>1. ASSUME NEW n \in 0..MaxNum PROVE base62_decode(base62_encode_padded(n)) = n
    <2>1. n \in Nat /\ n <= MaxNum /\ ~(n > MaxNum)
        BY <1>0
    <2>2. Fits(n)
        BY <1>0, <2>1, SmallerFits, Zenon
    <2>3. PICK e : e = base62_encode_padded(n)
        BY Zenon
    <2>4. Values(e)[NumWidth] = n /\ Len(e) = NumWidth
        BY <2>1, <2>2, <2>3, EncodedReads, Encoded, Zenon
    <2>5. e # <<>>
        BY <1>0, <2>4
    <2> QED BY <2>1, <2>3, <2>4, <2>5, Zenon DEF base62_decode
<1>2. ASSUME NEW d \in Key, Len(d) = NumWidth, base62_decode(d) # NoNum
      PROVE  base62_decode(d) \in 0..MaxNum /\ base62_encode_padded(base62_decode(d)) = d
    <2>1. PICK n : n = Values(d)[NumWidth]
        BY Zenon
    <2>2. n \in Nat /\ d = base62_encode_padded(n)
        BY <1>2, <2>1, Decoded, Zenon
    <2>3. ~(n > MaxNum) /\ base62_decode(d) = n
        BY <1>2, <2>1, Zenon DEF base62_decode
    <2>4. n \in 0..MaxNum
        BY <1>0, <2>2, <2>3
    <2> QED BY <2>2, <2>3, <2>4, Zenon
<1> QED BY <1>1, <1>2, Zenon

\* Keys made for a number are canonical: order_key_for_tick and the increment.
LEMMA MadeCanonical ==
    ASSUME NEW n \in Nat, NEW s \in Key, NEW k, k = <<V>> \o base62_encode_padded(n) \o s
    PROVE  Canonical(k, n)
<1>0. NumWidth \in Nat
    BY WidthAssumption
<1>1. PICK v : v = <<V>>
    BY Zenon
<1>2. v \in Key /\ Len(v) = 1 /\ v[1] = V
    BY <1>1 DEF V, Digit, Key
<1>3. PICK e : e = base62_encode_padded(n)
    BY Zenon
<1>4. e \in Key /\ Len(e) = NumWidth
    BY <1>3, Encoded, Zenon
<1>5. PICK w : w = v \o e
    BY Zenon
<1>6. /\ w \in Key /\ Len(w) = Len(v) + Len(e)
      /\ \A j \in 1..(Len(v) + Len(e)) : w[j] = IF j <= Len(v) THEN v[j] ELSE e[j - Len(v)]
    BY <1>2, <1>4, <1>5, JoinedKeys, ZenonT(40)
<1>7. k = w \o s
    BY <1>1, <1>3, <1>5
<1>8. /\ k \in Key /\ Len(k) = Len(w) + Len(s)
      /\ \A j \in 1..(Len(w) + Len(s)) : k[j] = IF j <= Len(w) THEN w[j] ELSE s[j - Len(w)]
    BY <1>6, <1>7, JoinedKeys, ZenonT(40)
<1>9. Len(s) \in Nat
    BY DEF Key
<1>10. Len(w) = NumWidth + 1 /\ Len(k) > NumWidth
    BY <1>0, <1>2, <1>4, <1>6, <1>8, <1>9
<1>11. \A j \in 1..(NumWidth + 1) : j \in 1..(Len(w) + Len(s)) /\ j <= Len(w) /\ j \in 1..(Len(v) + Len(e))
    BY <1>0, <1>2, <1>4, <1>9, <1>10
<1>12. \A j \in 1..(NumWidth + 1) : k[j] = w[j]
    BY <1>8, <1>11, Zenon
<1>13. k[1] = V
    <2>1. 1 \in 1..(NumWidth + 1) /\ 1 <= Len(v)
        BY <1>0, <1>2
    <2> QED BY <1>2, <1>6, <1>11, <1>12, <2>1, Zenon
<1>14. ASSUME NEW i \in 1..NumWidth PROVE k[i + 1] = e[i]
    <2>1. i + 1 \in 1..(NumWidth + 1) /\ ~(i + 1 <= Len(v)) /\ (i + 1) - Len(v) = i
        BY <1>0, <1>2
    <2>2. w[i + 1] = e[(i + 1) - Len(v)]
        BY <1>6, <1>11, <2>1, Zenon
    <2> QED BY <1>12, <2>1, <2>2, Zenon
<1> QED BY <1>3, <1>8, <1>10, <1>13, <1>14, Zenon DEF Canonical

\* A key of canonical shape is the key of its number.
LEMMA NumberIsCanonical ==
    ASSUME NEW pred \in Key, NEW n, n = CanonicalNumber(pred), n # NoNum
    PROVE  n \in 0..MaxNum /\ Canonical(pred, n)
<1>0. NumWidth \in Nat
    BY WidthAssumption
<1>1. PICK d : d = SubSeq(pred, 2, NumWidth + 1)
    BY Zenon
<1>2. Len(pred) > NumWidth /\ pred[1] = V /\ n = base62_decode(d)
    BY <1>1, Zenon DEF CanonicalNumber
<1>3. Len(pred) \in Nat
    BY DEF Key
<1>4. \A i \in 2..(NumWidth + 1) : i \in 1..Len(pred)
    BY <1>0, <1>2, <1>3
<1>5. d \in Key /\ Len(d) = NumWidth /\ \A i \in 1..NumWidth : d[i] = pred[i + 1]
    <2>1. pred \in Seq(Digit) /\ 2 \in 1..(Len(pred) + 1) /\ NumWidth + 1 \in (2 - 1)..Len(pred)
        BY <1>0, <1>2, <1>3, WidthAssumption DEF Key
    <2>2. d \in Seq(Digit)
        BY <1>1, <2>1
    <2>3. Len(d) = NumWidth
        BY <1>0, <1>1, <2>1
    <2>4. \A i \in 1..NumWidth : d[i] = pred[i + 1]
        BY <1>0, <1>1, <2>1
    <2> QED BY <2>2, <2>3, <2>4, Zenon DEF Key
<1>6. n \in 0..MaxNum /\ base62_encode_padded(n) = d
    BY <1>2, <1>5, DecodeInvertsEncode, Zenon
<1> QED BY <1>2, <1>5, <1>6, Zenon DEF Canonical

(***************************************************************************)
(* order_key_successor for keys of any length: the key is after its        *)
(* predecessor, on the fallback path too, and after every canonical key of *)
(* the same or a smaller number, whoever's suffix it has.                  *)
(***************************************************************************)
THEOREM SuccessorKeepsOrder ==
    ASSUME NEW pred \in Key, NEW other \in Key, NEW suffix \in Key
    PROVE  SuccessorInOrder(pred, other, suffix)
<1>1. PICK key : key = order_key_successor(pred, suffix)
    BY Zenon
<1>2. KeyLess(pred, key)
    BY <1>1, SuccessorIsAfter, Zenon
<1>3. PICK n, m : n = CanonicalNumber(pred) /\ m = CanonicalNumber(other)
    BY Zenon
<1>4. ASSUME n \notin {NoNum, MaxNum}, m # NoNum, m <= n
      PROVE  KeyLess(other, key)
    <2>1. n \in 0..MaxNum /\ Canonical(pred, n) /\ m \in 0..MaxNum /\ Canonical(other, m)
        <3>1. n # NoNum
            BY <1>4, Zenon
        <3> QED BY <1>3, <1>4, <3>1, NumberIsCanonical, Zenon
    <2>2. /\ MaxNum \in Nat /\ n \in Nat /\ m \in Nat /\ n + 1 \in Nat
          /\ n < n + 1 /\ m < n + 1 /\ n + 1 <= MaxNum /\ n < MaxNum
        BY <1>4, <2>1, WidthAssumption
    <2>3. Fits(n + 1)
        BY <2>2, WidthAssumption, SmallerFits, Zenon
    <2>4. PICK inc : inc = <<V>> \o base62_encode_padded(n + 1) \o suffix
        BY Zenon
    <2>5. Canonical(inc, n + 1)
        BY <2>2, <2>4, MadeCanonical, Zenon
    <2>6. KeyLess(pred, inc) /\ KeyLess(other, inc)
        BY <2>1, <2>2, <2>3, <2>5, CanonicalLess, Zenon
    <2>7. key = inc
        BY <1>1, <1>3, <1>4, <2>2, <2>4, <2>6, Zenon DEF order_key_successor
    <2> QED BY <2>6, <2>7, Zenon
<1> QED BY <1>1, <1>2, <1>3, <1>4, Zenon DEF SuccessorInOrder

----------------------------------------------------------------------------
(***************************************************************************)
(* The model of MCOrderKey, two keys that grow digit by digit.  Its        *)
(* definitions are those of OrderKey over again, which is shown first.     *)
(***************************************************************************)
CONSTANTS KeyDigit, MaxLen
VARIABLES keyA, keyB

Pairs == INSTANCE MCOrderKey WITH a <- keyA, b <- keyB

\* Comparison is the same there.
LEMMA SameLess ==
    ASSUME NEW x, NEW y
    PROVE  Pairs!KeyLess(x, y) <=> KeyLess(x, y)
BY Zenon DEF Pairs!KeyLess, Pairs!FirstDifference, Pairs!DigitAt, Pairs!Min, Pairs!Max,
             KeyLess, FirstDifference, DigitAt, Min, Max

\* And so is what is asked of the midpoint.
LEMMA SameMidpoint ==
    ASSUME NEW x, NEW y
    PROVE  Pairs!MidpointInOrder(x, y) <=> MidpointInOrder(x, y)
BY ZenonT(90) DEF Pairs!MidpointInOrder, Pairs!HasRoom, Pairs!order_midpoint, Pairs!KeyLess,
                  Pairs!FirstDifference, Pairs!DigitAt, Pairs!Min, Pairs!Max,
                  MidpointInOrder, HasRoom, order_midpoint, KeyLess,
                  FirstDifference, DigitAt, Min, Max

\* And of the successor.
LEMMA SameSuccessor ==
    Pairs!SuccessorIsLater <=> \A d \in KeyDigit : SuccessorInOrder(keyA, keyB, <<d>>)
<1>1. \A n : Pairs!Quotients(n) = Quotients(n)
    BY Zenon DEF Pairs!Quotients, Quotients
<1>2. \A d : Pairs!Values(d) = Values(d)
    BY Zenon DEF Pairs!Values, Values
<1>3. \A n : Pairs!base62_encode_padded(n) = base62_encode_padded(n)
    BY <1>1, Zenon DEF Pairs!base62_encode_padded, base62_encode_padded
<1>4. \A d : Pairs!base62_decode(d) = base62_decode(d)
    BY <1>2, Zenon DEF Pairs!base62_decode, base62_decode, Pairs!NoNum, NoNum
<1>5. \A k : Pairs!CanonicalNumber(k) = CanonicalNumber(k)
    BY <1>4, Zenon DEF Pairs!CanonicalNumber, CanonicalNumber, Pairs!NoNum, NoNum, Pairs!V, V
<1>6. \A k, s : Pairs!order_key_successor(k, s) = order_key_successor(k, s)
    BY <1>3, <1>5, SameLess, Zenon
    DEF Pairs!order_key_successor, order_key_successor, Pairs!NoNum, NoNum, Pairs!V, V
<1> QED BY <1>5, <1>6, SameLess, Zenon
        DEF Pairs!SuccessorIsLater, Pairs!SuccessorInOrder, SuccessorInOrder, Pairs!NoNum, NoNum

\* The two keys of a comparison.
TwoKeys == keyA \in Key /\ keyB \in Key

\* They are keys however they grow.
LEMMA StayKeys ==
    ASSUME KeyDigit \subseteq Digit
    PROVE  Pairs!Spec => []TwoKeys
<1>1. Pairs!Init => TwoKeys
    BY DEF Pairs!Init, TwoKeys, Key
<1>2. ASSUME TwoKeys, NEW d \in KeyDigit
      PROVE  Append(keyA, d) \in Key /\ Append(keyB, d) \in Key
    <2>1. d \in Digit
        BY Zenon
    <2> QED BY <1>2, <2>1, AppendProperties, Zenon DEF TwoKeys, Key
<1>3. ASSUME TwoKeys, [Pairs!Next]_<<keyA, keyB>>
      PROVE  TwoKeys'
    <2>1. CASE Pairs!ExtendA
        BY <1>2, <1>3, <2>1, Zenon DEF Pairs!ExtendA, TwoKeys
    <2>2. CASE Pairs!ExtendB
        BY <1>2, <1>3, <2>2, Zenon DEF Pairs!ExtendB, TwoKeys
    <2>3. CASE UNCHANGED <<keyA, keyB>>
        BY <1>3, <2>3, Zenon DEF TwoKeys
    <2> QED BY <1>3, <2>1, <2>2, <2>3, Zenon DEF Pairs!Next
<1> QED BY <1>1, <1>3, PTL DEF Pairs!Spec

(***************************************************************************)
(* What the run over pairs of keys checks up to a length, for keys of any  *)
(* length over any base-62 digits: order_midpoint is strictly between two  *)
(* keys exactly when there is room.                                        *)
(***************************************************************************)
THEOREM MidpointOfAnyKeys ==
    ASSUME KeyDigit \subseteq Digit
    PROVE  Pairs!Spec => []Pairs!MidpointBetween
<1>1. TwoKeys => Pairs!MidpointBetween
    BY MidpointIsBetween, SameMidpoint, Zenon DEF TwoKeys, Pairs!MidpointBetween
<1> QED BY <1>1, StayKeys, PTL

(***************************************************************************)
(* Likewise for order_key_successor: its key is after its predecessor and  *)
(* after every canonical key of the same or a smaller number.              *)
(***************************************************************************)
THEOREM SuccessorOfAnyKeys ==
    ASSUME KeyDigit \subseteq Digit
    PROVE  Pairs!Spec => []Pairs!SuccessorIsLater
<1>1. ASSUME TwoKeys, NEW d \in KeyDigit
      PROVE  SuccessorInOrder(keyA, keyB, <<d>>)
    <2>1. <<d>> \in Key
        BY DEF Key
    <2> QED BY <1>1, <2>1, SuccessorKeepsOrder, Zenon DEF TwoKeys
<1>2. TwoKeys => Pairs!SuccessorIsLater
    BY <1>1, SameSuccessor, Zenon
<1> QED BY <1>2, StayKeys, PTL

----------------------------------------------------------------------------
(***************************************************************************)
(* The lanes: ids are pairs, every lane is a number, and is past every     *)
(* block of its principal.                                                 *)
(***************************************************************************)
LaneInv ==
    /\ DOMAIN blocks \subseteq Id
    /\ seqLanes \in [Principal -> Nat]
    /\ LaneAheadOfLog

\* Minting the next id of a lane and moving the lane past it, with or without adding the block.
LEMMA MintKeeps ==
    ASSUME LaneInv, NEW p \in Principal, NEW n \in Nat, n = seqLanes[p] + 1,
           seqLanes' = [seqLanes EXCEPT ![p] = n],
           DOMAIN blocks' \subseteq DOMAIN blocks \cup {NextId(p)}
    PROVE  LaneInv'
<1>1. seqLanes[p] \in Nat /\ seqLanes[p] < n
    BY DEF LaneInv
<1>2. NextId(p) \in Id /\ NextId(p)[1] = p /\ NextId(p)[2] = seqLanes[p]
    BY <1>1 DEF NextId, Id
<1>3. DOMAIN blocks' \subseteq Id
    BY <1>2 DEF LaneInv
<1>4. seqLanes' \in [Principal -> Nat] /\ seqLanes'[p] = n
      /\ \A q \in Principal : q # p => seqLanes'[q] = seqLanes[q]
    BY DEF LaneInv
<1>5. ASSUME NEW id \in DOMAIN blocks' PROVE id[2] < seqLanes'[id[1]]
    <2>1. id[1] \in Principal /\ id[2] \in Nat
        BY <1>3 DEF Id
    <2>2. CASE id = NextId(p)
        BY <1>1, <1>2, <1>4, <2>2
    <2>3. CASE id \in DOMAIN blocks
        <3>1. id[2] < seqLanes[id[1]]
            BY <2>3 DEF LaneInv, LaneAheadOfLog
        <3>2. CASE id[1] = p
            BY <1>1, <1>4, <2>1, <3>1, <3>2, SMTT(30)
        <3>3. CASE id[1] # p
            BY <1>4, <2>1, <3>1, <3>3
        <3> QED BY <3>2, <3>3
    <2> QED BY <2>2, <2>3
<1> QED BY <1>3, <1>4, <1>5 DEF LaneInv, LaneAheadOfLog

\* The lanes a restart derives from the ids it restores: a number past each of them.
LEMMA RestoredAhead ==
    ASSUME LaneInv
    PROVE  /\ RestoredLanes \in [Principal -> Nat]
           /\ \A id \in DOMAIN blocks : id[2] < RestoredLanes[id[1]]
<1>1. ASSUME NEW p \in Principal
      PROVE  LET T == {0} \cup {id[2] + 1 : id \in {i \in DOMAIN blocks : i[1] = p}}
             IN  /\ Max(T) \in Nat
                 /\ \A id \in DOMAIN blocks : id[1] = p => id[2] < Max(T)
    <2>1. PICK T : T = {0} \cup {id[2] + 1 : id \in {i \in DOMAIN blocks : i[1] = p}}
        BY Zenon
    <2>2. \A id \in DOMAIN blocks : id[2] \in Nat /\ id[2] < seqLanes[id[1]]
        BY DEF LaneInv, LaneAheadOfLog, Id
    <2>3. PICK b \in Nat : b = seqLanes[p]
        BY DEF LaneInv
    <2>4. T \subseteq Nat /\ T # {} /\ \A y \in T : y <= b
        BY <2>1, <2>2, <2>3
    <2>5. Max(T) \in T /\ \A y \in T : y <= Max(T)
        BY <2>4, MaxOfNumbers, Zenon
    <2>6. PICK x \in Nat : x = Max(T)
        BY <2>4, <2>5, Zenon
    <2>7. \A id \in DOMAIN blocks : id[1] = p => id[2] + 1 \in T
        BY <2>1
    <2>8. \A id \in DOMAIN blocks : id[1] = p => id[2] < x
        BY <2>2, <2>5, <2>6, <2>7
    <2> QED BY <2>1, <2>6, <2>8
<1>2. \A p \in Principal : /\ RestoredLanes[p] \in Nat
                           /\ \A id \in DOMAIN blocks : id[1] = p => id[2] < RestoredLanes[p]
    BY <1>1, Zenon DEF RestoredLanes
<1>3. RestoredLanes \in [Principal -> Nat]
    BY <1>2, Zenon DEF RestoredLanes
<1>4. \A id \in DOMAIN blocks : id[1] \in Principal
    BY DEF LaneInv, Id
<1> QED BY <1>2, <1>3, <1>4, Zenon

\* Every step keeps the lanes ahead.
LEMMA NextKeepsLanes ==
    ASSUME LaneInv, [Next]_vars
    PROVE  LaneInv'
<1>1. ASSUME NEW p \in Principal, NEW b, seqLanes' = [seqLanes EXCEPT ![p] = seqLanes[p] + 1],
             blocks' = Put(NextId(p), b) \/ blocks' = blocks
      PROVE  LaneInv'
    <2>1. PICK n \in Nat : n = seqLanes[p] + 1
        BY DEF LaneInv
    <2>2. DOMAIN blocks' \subseteq DOMAIN blocks \cup {NextId(p)}
        BY <1>1, Zenon DEF Put
    <2>3. seqLanes' = [seqLanes EXCEPT ![p] = n]
        BY <1>1, <2>1
    <2> QED BY <2>1, <2>2, <2>3, MintKeeps, Zenon
<1>2. ASSUME NEW p \in Principal, NEW after, InsertBlock(p, after)
      PROVE  LaneInv'
    BY <1>1, <1>2, Zenon DEF InsertBlock, Mint
<1>3. ASSUME NEW p \in Principal, NEW after, InsertBlockRefused(p, after)
      PROVE  LaneInv'
    BY <1>1, <1>3, Zenon DEF InsertBlockRefused, Mint
<1>4. ASSUME NEW p \in Principal, NEW after, NEW tick, InsertFromSnapshot(p, after, tick)
      PROVE  LaneInv'
    <2>1. seqLanes[p] \in Nat /\ NextId(p)[1] = p /\ NextId(p)[2] = seqLanes[p]
        BY DEF LaneInv, NextId
    <2>2. PICK s \in Nat, n \in Nat : s = seqLanes[p] /\ n = s + 1
        BY <2>1
    <2>3. Max({s, n}) \in Nat /\ s <= Max({s, n}) /\ n <= Max({s, n})
        BY LongerLength
    <2>4. Max({s, n}) = n
        <3>1. {s, n} \subseteq Nat /\ {s, n} # {} /\ \A y \in {s, n} : y <= n
            BY <2>2
        <3>2. Max({s, n}) \in {s, n}
            BY <3>1, MaxOfNumbers
        <3>3. PICK x : x = Max({s, n})
            OBVIOUS
        <3>4. x \in {s, n} /\ n <= x
            BY <2>3, <3>2, <3>3
        <3> QED BY <2>2, <3>3, <3>4
    <2>5. seqLanes' = [seqLanes EXCEPT ![p] = Max({seqLanes[p], seqLanes[p] + 1})]
        <3>1. seqLanes' = observe_seq(seqLanes, NextId(p))
            BY <1>4 DEF InsertFromSnapshot
        <3> QED BY <2>1, <3>1, Zenon DEF observe_seq
    <2>6. seqLanes' = [seqLanes EXCEPT ![p] = seqLanes[p] + 1]
        BY <2>2, <2>4, <2>5, Zenon
    <2> QED BY <1>1, <1>4, <2>6, Zenon DEF InsertFromSnapshot
<1>5. ASSUME DOMAIN blocks' = DOMAIN blocks, seqLanes' = seqLanes
      PROVE  LaneInv'
    BY <1>5 DEF LaneInv, LaneAheadOfLog
<1>6. ASSUME NEW p \in Principal, NEW id, NEW after, MoveBlock(p, id, after)
      PROVE  LaneInv'
    BY <1>5, <1>6, Zenon DEF MoveBlock
<1>7. ASSUME NEW id, DeleteBlock(id)
      PROVE  LaneInv'
    BY <1>5, <1>7, Zenon DEF DeleteBlock
<1>8. ASSUME NEW p \in Principal, Restart(p)
      PROVE  LaneInv'
    <2>1. DOMAIN Restored = DOMAIN blocks
        BY Zenon DEF Restored
    <2>2. DOMAIN RekeyInOrder(Restored, p) = DOMAIN Restored
        BY Zenon DEF RekeyInOrder
    <2>3. DOMAIN blocks' = DOMAIN blocks
        BY <1>8, <2>1, <2>2, Zenon DEF Restart, normalize_timeline
    <2>4. seqLanes' = RestoredLanes
        BY <1>8, Zenon DEF Restart
    <2>5. /\ seqLanes' \in [Principal -> Nat]
          /\ \A id \in DOMAIN blocks : id[2] < seqLanes'[id[1]]
        BY <2>4, RestoredAhead
    <2> QED BY <2>3, <2>5 DEF LaneInv, LaneAheadOfLog
<1>9. ASSUME UNCHANGED vars
      PROVE  LaneInv'
    BY <1>5, <1>9, Zenon DEF vars
<1> QED BY <1>2, <1>3, <1>4, <1>6, <1>7, <1>8, <1>9, Zenon DEF Next

(***************************************************************************)
(* Every lane stays past every block of its principal, tombstones          *)
(* included: no id is minted twice, for any number of principals, inserts, *)
(* refused inserts, deletions and restarts.                                *)
(***************************************************************************)
THEOREM LaneStaysAhead == Spec => []LaneAheadOfLog
<1>1. Init => LaneInv
    BY DEF Init, LaneInv, LaneAheadOfLog
<1>2. LaneInv /\ [Next]_vars => LaneInv'
    BY NextKeepsLanes
<1>3. LaneInv => LaneAheadOfLog
    BY DEF LaneInv
<1> QED BY <1>1, <1>2, <1>3, PTL DEF Spec

----------------------------------------------------------------------------
(***************************************************************************)
(* The order of blocks: by key, then by id.                                *)
(***************************************************************************)
Strict(S, R) ==
    /\ \A i \in S : <<i, i>> \notin R
    /\ \A i, j, k \in S : <<i, j>> \in R /\ <<j, k>> \in R => <<i, k>> \in R

Below(S, R, i) == {k \in S : <<k, i>> \in R}

\* What comes before has fewer before it.
LEMMA FewerBelow ==
    ASSUME NEW S, IsFiniteSet(S), NEW R, Strict(S, R), NEW i \in S, NEW j \in S, <<i, j>> \in R
    PROVE  /\ Cardinality(Below(S, R, i)) \in Nat /\ Cardinality(Below(S, R, j)) \in Nat
           /\ Cardinality(Below(S, R, i)) < Cardinality(Below(S, R, j))
<1>1. PICK A, B : A = Below(S, R, i) /\ B = Below(S, R, j)
    BY Zenon
<1>2. A \subseteq B /\ i \in B /\ i \notin A /\ B \subseteq S
    BY <1>1, Zenon DEF Below, Strict
<1>3. IsFiniteSet(B)
    BY <1>2, FS_Subset, Zenon
<1>4. IsFiniteSet(A) /\ Cardinality(A) <= Cardinality(B) /\ (Cardinality(A) = Cardinality(B) => A = B)
    BY <1>2, <1>3, FS_Subset, Zenon
<1>5. Cardinality(A) \in Nat /\ Cardinality(B) \in Nat
    BY <1>3, <1>4, FS_CardinalityType, Zenon
<1>6. Cardinality(A) # Cardinality(B)
    BY <1>2, <1>4, Zenon
<1>7. Cardinality(A) < Cardinality(B)
    BY <1>4, <1>5, <1>6
<1> QED BY <1>1, <1>5, <1>7, Zenon

\* A finite set in a strict order has an element with none before it.
LEMMA HasMinimal ==
    ASSUME NEW S, IsFiniteSet(S), S # {}, NEW R, Strict(S, R)
    PROVE  \E i \in S : \A j \in S : <<j, i>> \notin R
<1> DEFINE C(i) == Cardinality(Below(S, R, i))
           T == {C(i) : i \in S}
<1>1. ASSUME NEW i \in S PROVE C(i) \in Nat
    <2>1. Below(S, R, i) \subseteq S
        BY Zenon DEF Below
    <2>2. IsFiniteSet(Below(S, R, i))
        BY <2>1, FS_Subset, Zenon
    <2> QED BY <2>2, FS_CardinalityType, Zenon
<1> HIDE DEF C
<1>2. T \subseteq Nat /\ T # {}
    BY <1>1, Zenon
<1>3. PICK c \in T : \A x \in T : c <= x
    BY <1>2, LeastNumber, Zenon
<1>4. PICK i \in S : c = C(i)
    BY <1>3, Zenon
<1>5. ASSUME NEW j \in S, <<j, i>> \in R PROVE FALSE
    <2>1. C(j) \in Nat /\ C(i) \in Nat /\ C(j) < C(i)
        BY <1>5, FewerBelow, Zenon DEF C
    <2>2. C(i) <= C(j)
        BY <1>3, <1>4, Zenon
    <2> QED BY <2>1, <2>2
<1> QED BY <1>5, Zenon

\* Ids and keys are what they should be.
Placed(bs, S) == S \subseteq Id /\ \A id \in S : bs[id].key \in Key

\* Ids are in a strict total order.
LEMMA IdsInOrder ==
    ASSUME NEW i \in Id, NEW j \in Id, NEW k \in Id
    PROVE  /\ ~IdLess(i, i)
           /\ IdLess(i, j) /\ IdLess(j, k) => IdLess(i, k)
           /\ i # j => IdLess(i, j) \/ IdLess(j, i)
<1>1. \A x \in Id : x = <<x[1], x[2]>> /\ x[1] \in Principal /\ x[2] \in Nat
    BY DEF Id
<1>2. \A x \in Id : x[1] \in Nat /\ x[2] \in Nat
    BY <1>1, OrderAssumption, Zenon
<1>3. ~IdLess(i, i)
    BY <1>2 DEF IdLess
<1>4. IdLess(i, j) /\ IdLess(j, k) => IdLess(i, k)
    BY <1>2 DEF IdLess
<1>5. i # j => i[1] # j[1] \/ i[2] # j[2]
    BY <1>1, Zenon
<1>6. i # j => IdLess(i, j) \/ IdLess(j, i)
    BY <1>2, <1>5 DEF IdLess
<1> QED BY <1>3, <1>4, <1>6, Zenon

\* And so are blocks.
LEMMA BlocksInOrder ==
    ASSUME NEW bs, NEW S, Placed(bs, S), NEW i \in S, NEW j \in S, NEW k \in S
    PROVE  /\ ~SortsBefore(bs, i, i)
           /\ SortsBefore(bs, i, j) /\ SortsBefore(bs, j, k) => SortsBefore(bs, i, k)
           /\ i # j => SortsBefore(bs, i, j) \/ SortsBefore(bs, j, i)
<1>1. i \in Id /\ j \in Id /\ k \in Id
    BY Zenon DEF Placed
<1>2. bs[i].key \in Key /\ bs[j].key \in Key /\ bs[k].key \in Key
    BY Zenon DEF Placed
<1>3. PICK a, b, c : a = bs[i].key /\ b = bs[j].key /\ c = bs[k].key
    BY Zenon
<1>4. a \in Key /\ b \in Key /\ c \in Key
    BY <1>2, <1>3, Zenon
<1>5. ~KeyLess(a, a)
    BY <1>4, LessTotal, Zenon
<1>6. KeyLess(a, b) /\ KeyLess(b, c) => KeyLess(a, c)
    BY <1>4, LessTransitive, Zenon
<1>7. a = b \/ KeyLess(a, b) \/ KeyLess(b, a)
    BY <1>4, LessTotal, Zenon
<1>8. /\ ~IdLess(i, i)
      /\ IdLess(i, j) /\ IdLess(j, k) => IdLess(i, k)
      /\ i # j => IdLess(i, j) \/ IdLess(j, i)
    BY <1>1, IdsInOrder, Zenon
<1>9. /\ SortsBefore(bs, i, i) <=> KeyLess(a, a) \/ IdLess(i, i)
      /\ SortsBefore(bs, i, j) <=> KeyLess(a, b) \/ (a = b /\ IdLess(i, j))
      /\ SortsBefore(bs, j, i) <=> KeyLess(b, a) \/ (b = a /\ IdLess(j, i))
      /\ SortsBefore(bs, j, k) <=> KeyLess(b, c) \/ (b = c /\ IdLess(j, k))
      /\ SortsBefore(bs, i, k) <=> KeyLess(a, c) \/ (a = c /\ IdLess(i, k))
    BY <1>3, Zenon DEF SortsBefore
<1>10. SortsBefore(bs, i, j) /\ SortsBefore(bs, j, k) => SortsBefore(bs, i, k)
    BY <1>6, <1>8, <1>9, Zenon
<1> QED BY <1>5, <1>7, <1>8, <1>9, <1>10, Zenon

\* The order of blocks and its inverse, as sets of pairs.
Sorted(bs, S) == {p \in S \X S : SortsBefore(bs, p[1], p[2])}
SortedBack(bs, S) == {p \in S \X S : SortsBefore(bs, p[2], p[1])}

\* Both are strict.
LEMMA SortedStrict ==
    ASSUME NEW bs, NEW S, Placed(bs, S)
    PROVE  /\ Strict(S, Sorted(bs, S)) /\ Strict(S, SortedBack(bs, S))
           /\ \A i, j \in S : /\ <<i, j>> \in Sorted(bs, S) <=> SortsBefore(bs, i, j)
                              /\ <<i, j>> \in SortedBack(bs, S) <=> SortsBefore(bs, j, i)
<1>1. ASSUME NEW i \in S, NEW j \in S
      PROVE  /\ <<i, j>> \in Sorted(bs, S) <=> SortsBefore(bs, i, j)
             /\ <<i, j>> \in SortedBack(bs, S) <=> SortsBefore(bs, j, i)
    <2>1. PICK p : p = <<i, j>>
        BY Zenon
    <2>2. p \in S \X S /\ p[1] = i /\ p[2] = j
        BY <2>1
    <2>3. /\ p \in Sorted(bs, S) <=> SortsBefore(bs, i, j)
          /\ p \in SortedBack(bs, S) <=> SortsBefore(bs, j, i)
        BY <2>2, Zenon DEF Sorted, SortedBack
    <2> QED BY <2>1, <2>3, Zenon
<1>2. Strict(S, Sorted(bs, S))
    BY <1>1, BlocksInOrder, Zenon DEF Strict
<1>3. Strict(S, SortedBack(bs, S))
    BY <1>1, BlocksInOrder, Zenon DEF Strict
<1> QED BY <1>1, <1>2, <1>3, Zenon

\* A finite set of blocks has a first and a last one.
LEMMA HasFirstAndLast ==
    ASSUME NEW bs, NEW S, Placed(bs, S), IsFiniteSet(S), S # {}
    PROVE  /\ \E i \in S : \A j \in S \ {i} : SortsBefore(bs, i, j)
           /\ \E i \in S : \A j \in S \ {i} : SortsBefore(bs, j, i)
<1>1. PICK i \in S : \A j \in S : <<j, i>> \notin Sorted(bs, S)
    BY SortedStrict, HasMinimal, Zenon
<1>2. \A j \in S \ {i} : SortsBefore(bs, i, j)
    BY <1>1, SortedStrict, BlocksInOrder, Zenon
<1>3. PICK k \in S : \A j \in S : <<j, k>> \notin SortedBack(bs, S)
    BY SortedStrict, HasMinimal, Zenon
<1>4. \A j \in S \ {k} : SortsBefore(bs, j, k)
    BY <1>3, SortedStrict, BlocksInOrder, Zenon
<1> QED BY <1>2, <1>4, Zenon

\* The positions of live blocks are numbers in their order.
LEMMA PositionsInOrder ==
    ASSUME NEW bs, Placed(bs, Live(bs)), IsFiniteSet(Live(bs)), NEW i \in Live(bs), NEW j \in Live(bs)
    PROVE  /\ Position(bs, i) \in Nat /\ Position(bs, i) < Cardinality(Live(bs))
           /\ SortsBefore(bs, i, j) => Position(bs, i) < Position(bs, j)
<1> DEFINE S == Live(bs)
           R == Sorted(bs, S)
<1>1. Strict(S, R) /\ \A k, l \in S : <<k, l>> \in R <=> SortsBefore(bs, k, l)
    BY SortedStrict, Zenon
<1>2. \A k \in S : Position(bs, k) = Cardinality(Below(S, R, k))
    <2>1. \A k \in S : {l \in S : SortsBefore(bs, l, k)} = Below(S, R, k)
        BY <1>1, Zenon DEF Below
    <2> QED BY <2>1, Zenon DEF Position
<1>3. Below(S, R, i) \subseteq S /\ i \notin Below(S, R, i)
    BY <1>1, Zenon DEF Below, Strict
<1>4. /\ IsFiniteSet(Below(S, R, i)) /\ Cardinality(Below(S, R, i)) <= Cardinality(S)
      /\ Cardinality(Below(S, R, i)) = Cardinality(S) => Below(S, R, i) = S
    BY <1>3, FS_Subset, Zenon
<1>5. Cardinality(S) \in Nat /\ Cardinality(Below(S, R, i)) \in Nat
    BY <1>4, FS_CardinalityType, Zenon
<1>6. Cardinality(Below(S, R, i)) # Cardinality(S)
    BY <1>3, <1>4, Zenon
<1>7. Position(bs, i) \in Nat /\ Position(bs, i) < Cardinality(S)
    <2>1. PICK x \in Nat, y \in Nat : x = Cardinality(Below(S, R, i)) /\ y = Cardinality(S)
        BY <1>5, Zenon
    <2>2. x < y
        BY <1>4, <1>6, <2>1
    <2> QED BY <1>2, <2>1, <2>2, Zenon
<1>8. SortsBefore(bs, i, j) => Position(bs, i) < Position(bs, j)
    BY <1>1, <1>2, FewerBelow, Zenon
<1> QED BY <1>7, <1>8, Zenon

----------------------------------------------------------------------------
(***************************************************************************)
(* What a store holds: blocks with keys that are not all zeros and ticks   *)
(* below the high-water mark t, not more than m of them.                   *)
(***************************************************************************)
WithDigit == {k \in Key : \E i \in 1..Len(k) : k[i] # 0}

BlockType == [key : WithDigit, tick : Nat \cup {NoTick}, deleted : BOOLEAN]

Store(bs, t, m) ==
    /\ IsFiniteSet(DOMAIN bs) /\ Cardinality(DOMAIN bs) <= m
    /\ DOMAIN bs \subseteq Id
    /\ \A id \in DOMAIN bs : bs[id] \in BlockType /\ bs[id].tick < t

\* The live blocks of a store are finitely many, and their keys are keys.
LEMMA LiveIsPlaced ==
    ASSUME NEW bs, NEW t, NEW m, Store(bs, t, m)
    PROVE  /\ Live(bs) \subseteq DOMAIN bs /\ Placed(bs, Live(bs)) /\ IsFiniteSet(Live(bs))
           /\ Cardinality(Live(bs)) \in Nat /\ Cardinality(Live(bs)) <= Cardinality(DOMAIN bs)
<1>1. Live(bs) \subseteq DOMAIN bs
    BY Zenon DEF Live
<1>2. \A id \in DOMAIN bs : bs[id].key \in Key
    <2>1. \A id \in DOMAIN bs : bs[id].key \in WithDigit
        BY DEF Store, BlockType
    <2> QED BY <2>1, Zenon DEF WithDigit
<1>3. Placed(bs, Live(bs))
    BY <1>1, <1>2, Zenon DEF Placed, Store
<1>4. IsFiniteSet(Live(bs)) /\ Cardinality(Live(bs)) <= Cardinality(DOMAIN bs)
    BY <1>1, FS_Subset, Zenon DEF Store
<1> QED BY <1>1, <1>3, <1>4, FS_CardinalityType, Zenon

\* The first, the last and the next block of the sorted list are in it.
LEMMA NeighboursLive ==
    ASSUME NEW bs, NEW t, NEW m, Store(bs, t, m)
    PROVE  /\ Live(bs) # {} => FirstBlock(bs) \in Live(bs) /\ LastBlock(bs) \in Live(bs)
           /\ \A j \in Live(bs) : SortsBefore(bs, j, LastBlock(bs)) \/ j = LastBlock(bs)
           /\ \A id : FollowersOf(bs, id) # {} => NextBlock(bs, id) \in Live(bs)
<1>1. Placed(bs, Live(bs)) /\ IsFiniteSet(Live(bs))
    BY LiveIsPlaced, Zenon
<1>2. ASSUME Live(bs) # {}
      PROVE  /\ FirstBlock(bs) \in Live(bs) /\ LastBlock(bs) \in Live(bs)
             /\ \A j \in Live(bs) \ {LastBlock(bs)} : SortsBefore(bs, j, LastBlock(bs))
    <2>1. /\ \E i \in Live(bs) : \A j \in Live(bs) \ {i} : SortsBefore(bs, i, j)
          /\ \E i \in Live(bs) : \A j \in Live(bs) \ {i} : SortsBefore(bs, j, i)
        BY <1>1, <1>2, HasFirstAndLast, Zenon
    <2> QED BY <2>1, Zenon DEF FirstBlock, LastBlock
<1>3. ASSUME NEW id, FollowersOf(bs, id) # {}
      PROVE  NextBlock(bs, id) \in Live(bs)
    <2>1. PICK F : F = FollowersOf(bs, id)
        BY Zenon
    <2>2. F \subseteq Live(bs) /\ F # {}
        BY <1>3, <2>1, Zenon DEF FollowersOf
    <2>3. Placed(bs, F) /\ IsFiniteSet(F)
        BY <1>1, <2>2, FS_Subset, Zenon DEF Placed
    <2>4. \E i \in F : \A j \in F \ {i} : SortsBefore(bs, i, j)
        BY <2>2, <2>3, HasFirstAndLast, Zenon
    <2>5. NextBlock(bs, id) \in F
        BY <2>1, <2>4, Zenon DEF NextBlock
    <2> QED BY <2>2, <2>5, Zenon
<1> QED BY <1>2, <1>3, Zenon

\* A key made of two is not all zeros if one of them is not.
LEMMA JoinedWithDigit ==
    ASSUME NEW s \in Key, NEW t \in Key, s \in WithDigit \/ t \in WithDigit
    PROVE  s \o t \in WithDigit
<1>1. PICK k : k = s \o t
    BY Zenon
<1>2. /\ k \in Key /\ Len(k) = Len(s) + Len(t)
      /\ \A j \in 1..(Len(s) + Len(t)) : k[j] = IF j <= Len(s) THEN s[j] ELSE t[j - Len(s)]
    BY <1>1, JoinedKeys, ZenonT(40)
<1>3. Len(s) \in Nat /\ Len(t) \in Nat
    BY DEF Key
<1>4. CASE s \in WithDigit
    <2>1. PICK i \in 1..Len(s) : s[i] # 0
        BY <1>4, Zenon DEF WithDigit
    <2>2. i \in 1..(Len(s) + Len(t)) /\ i <= Len(s)
        BY <1>3, <2>1
    <2>3. k[i] # 0 /\ i \in 1..Len(k)
        BY <1>2, <2>1, <2>2, Zenon
    <2> QED BY <1>1, <1>2, <2>3, Zenon DEF WithDigit
<1>5. CASE t \in WithDigit
    <2>1. PICK i \in 1..Len(t) : t[i] # 0
        BY <1>5, Zenon DEF WithDigit
    <2>2. PICK j : j = Len(s) + i
        BY Zenon
    <2>3. j \in 1..(Len(s) + Len(t)) /\ ~(j <= Len(s)) /\ j - Len(s) = i
        BY <1>3, <2>1, <2>2
    <2>4. k[j] # 0 /\ j \in 1..Len(k)
        BY <1>2, <2>1, <2>3, Zenon
    <2> QED BY <1>1, <1>2, <2>4, Zenon DEF WithDigit
<1> QED BY <1>4, <1>5, Zenon

\* A midpoint ends in a digit that is not zero.
LEMMA MidpointWithDigit ==
    ASSUME NEW k \in Key, NEW l \in Key
    PROVE  order_midpoint(k, l) \in WithDigit
<1>1. PICK i, d, e, x, m : /\ i = FirstDifference(k, l, 0, 62) /\ m = order_midpoint(k, l)
                           /\ d = DigitAt(k, i, 0) /\ e = DigitAt(l, i, 62)
                           /\ x = DigitAt(k, i + 1, 0)
    BY Zenon
<1>2. Midpoint(m, k, l, i, d, e, x)
    BY <1>1, MidpointReads, Zenon
<1>3. /\ i \in Nat \ {0} /\ d \in 0..61 /\ e \in 0..62 /\ x \in 0..61 /\ m \in Key
      /\ d + 1 < e => Len(m) = i /\ At(m, i) = (d + e) \div 2
      /\ ~(d + 1 < e) => Len(m) = i + 1 /\ At(m, i + 1) = (x + 62) \div 2
    BY <1>2, Zenon DEF Midpoint
<1>4. \E q \in Nat \ {0} : q <= Len(m) /\ At(m, q) # 0
    <2>1. CASE d + 1 < e
        <3>1. i <= Len(m)
            BY <1>3, <2>1
        <3>2. (d + e) \div 2 # 0
            BY <1>3, <2>1
        <3> QED BY <1>3, <2>1, <3>1, <3>2, Zenon
    <2>2. CASE ~(d + 1 < e)
        <3>1. i + 1 <= Len(m) /\ i + 1 \in Nat \ {0}
            BY <1>3, <2>2
        <3>2. (x + 62) \div 2 # 0
            BY <1>3
        <3> QED BY <1>3, <2>2, <3>1, <3>2, Zenon
    <2> QED BY <2>1, <2>2, Zenon
<1>5. PICK q \in Nat \ {0} : q <= Len(m) /\ At(m, q) # 0
    BY <1>4, Zenon
<1>6. m[q] # 0
    BY <1>3, <1>5, ReadsInside, Zenon
<1>7. q \in 1..Len(m)
    BY <1>3, <1>5 DEF Key
<1> QED BY <1>1, <1>3, <1>6, <1>7, Zenon DEF WithDigit

\* The keys that are made have a digit that is not zero.
LEMMA KeyPieces ==
    ASSUME NEW s \in Key
    PROVE  /\ <<V>> \o s \in WithDigit
           /\ \A k \in Key : k \o <<V>> \o s \in WithDigit
           /\ \A k \in Key, l \in Key : order_midpoint(k, l) \o s \in WithDigit
           /\ \A k \in Key : order_key_successor(k, s) \in WithDigit
           /\ \A n \in Nat : <<V>> \o base62_encode_padded(n) \o s \in WithDigit
<1>1. PICK v : v = <<V>>
    BY Zenon
<1>2. v \in Key /\ v \in WithDigit
    <2>1. v \in Key /\ Len(v) = 1 /\ v[1] = 31
        BY <1>1 DEF V, Digit, Key
    <2>2. 1 \in 1..Len(v) /\ v[1] # 0
        BY <2>1
    <2> QED BY <2>1, <2>2, Zenon DEF WithDigit
<1>3. \A k \in WithDigit : k \in Key
    BY Zenon DEF WithDigit
<1>4. <<V>> \o s \in WithDigit
    BY <1>1, <1>2, JoinedWithDigit, Zenon
<1>5. \A k \in Key : k \o <<V>> \o s \in WithDigit
    BY <1>1, <1>2, <1>3, JoinedWithDigit, Zenon
<1>6. \A n \in Nat : <<V>> \o base62_encode_padded(n) \o s \in WithDigit
    <2>1. \A n \in Nat : base62_encode_padded(n) \in Key
        BY Encoded, Zenon
    <2> QED BY <1>1, <1>2, <1>3, <2>1, JoinedWithDigit, Zenon
<1>7. \A k \in Key, l \in Key : order_midpoint(k, l) \o s \in WithDigit
    BY <1>3, MidpointWithDigit, JoinedWithDigit, Zenon
<1>8. ASSUME NEW k \in Key
      PROVE  order_key_successor(k, s) \in WithDigit
    <2>1. PICK n : n = CanonicalNumber(k)
        BY Zenon
    <2>2. n # NoNum => n + 1 \in Nat
        <3>1. ASSUME n # NoNum PROVE n \in 0..MaxNum
            BY <2>1, <3>1, NumberIsCanonical, Zenon
        <3> QED BY <3>1, WidthAssumption
    <2>3. n # NoNum => <<V>> \o base62_encode_padded(n + 1) \o s \in WithDigit
        BY <1>6, <2>2, Zenon
    <2> QED BY <1>5, <2>1, <2>3, Zenon DEF order_key_successor
<1> QED BY <1>4, <1>5, <1>6, <1>7, <1>8, Zenon

\* calc_order_key gives such a key, for every place and tick.
LEMMA CalcGivesKey ==
    ASSUME NEW bs, NEW t, NEW m, Store(bs, t, m), NEW p \in Principal,
           NEW after, NEW tick \in Nat \cup {NoTick}
    PROVE  calc_order_key(bs, after, tick, p) \in WithDigit
<1>1. PICK s : s = Suffix[p]
    BY Zenon
<1>2. s \in Key
    BY <1>1, OrderAssumption
<1>3. \A id \in Live(bs) : bs[id].key \in Key
    BY LiveIsPlaced, Zenon DEF Placed
<1>4. AppendKey(bs, tick, p) \in WithDigit
    <2>1. CASE Live(bs) = {} /\ tick # NoTick
        <3>1. tick \in Nat
            BY <2>1, Zenon
        <3> QED BY <1>1, <1>2, <2>1, <3>1, KeyPieces, Zenon DEF AppendKey, order_key_for_tick
    <2>2. CASE Live(bs) = {} /\ tick = NoTick
        BY <1>1, <1>2, <2>2, KeyPieces, Zenon DEF AppendKey
    <2>3. CASE Live(bs) # {} /\ tick # NoTick
        <3>1. bs[LastBlock(bs)].key \in Key
            BY <1>3, <2>3, NeighboursLive, Zenon
        <3> QED BY <1>1, <1>2, <2>3, <3>1, KeyPieces, Zenon DEF AppendKey
    <2>4. CASE Live(bs) # {} /\ tick = NoTick
        <3>1. bs[LastBlock(bs)].key \in Key
            BY <1>3, <2>4, NeighboursLive, Zenon
        <3> QED BY <1>1, <1>2, <2>4, <3>1, KeyPieces, Zenon DEF AppendKey
    <2> QED BY <2>1, <2>2, <2>3, <2>4, Zenon
<1>5. PrependKey(bs, p) \in WithDigit
    <2>1. CASE Live(bs) = {}
        BY <1>1, <1>2, <2>1, KeyPieces, Zenon DEF PrependKey
    <2>2. CASE Live(bs) # {}
        <3>1. bs[FirstBlock(bs)].key \in Key
            BY <1>3, <2>2, NeighboursLive, Zenon
        <3>2. <<>> \in Key
            BY DEF Key
        <3>3. order_midpoint(<<>>, bs[FirstBlock(bs)].key) \o s \in WithDigit
            BY <1>2, <3>1, <3>2, KeyPieces, Zenon
        <3> QED BY <1>1, <2>2, <3>3, Zenon DEF PrependKey
    <2> QED BY <2>1, <2>2, Zenon
<1>6. ASSUME after \in Live(bs), after # LastBlock(bs)
      PROVE  BetweenKey(bs, after, p) \in WithDigit
    <2>1. LastBlock(bs) \in Live(bs) /\ SortsBefore(bs, after, LastBlock(bs))
        BY <1>6, NeighboursLive, Zenon
    <2>2. FollowersOf(bs, after) # {}
        BY <2>1, Zenon DEF FollowersOf
    <2>3. NextBlock(bs, after) \in Live(bs)
        BY <2>2, NeighboursLive, Zenon
    <2>4. bs[after].key \in Key /\ bs[NextBlock(bs, after)].key \in Key
        BY <1>3, <1>6, <2>3, Zenon
    <2>5. order_midpoint(bs[after].key, bs[NextBlock(bs, after)].key) \o s \in WithDigit
        BY <1>2, <2>4, KeyPieces, Zenon
    <2> QED BY <1>1, <2>5, Zenon DEF BetweenKey
<1>7. CASE after = NoBlock
    BY <1>4, <1>5, <1>7, Zenon DEF calc_order_key
<1>8. CASE after # NoBlock
    BY <1>4, <1>6, <1>8, Zenon DEF calc_order_key
<1> QED BY <1>7, <1>8, Zenon

(***************************************************************************)
(* The invariant of placement: every block holds a key of digits and a     *)
(* tick below the mark, and there are no more blocks than minted ids.      *)
(***************************************************************************)
PlaceInv ==
    /\ LaneInv
    /\ Store(blocks, nextTick, minted)
    /\ nextTick \in Nat /\ minted \in 0..MaxBlocks /\ moves \in 0..MaxMoves

\* One more block in a store.
LEMMA StorePut ==
    ASSUME NEW t \in Nat, NEW m \in Nat, Store(blocks, t, m), NEW id \in Id,
           NEW u \in Nat, t <= u, NEW b \in BlockType, b.tick < u
    PROVE  Store(Put(id, b), u, m + 1)
<1>1. PICK bs, D : bs = Put(id, b) /\ D = DOMAIN blocks
    BY Zenon
<1>2. DOMAIN bs = D \cup {id} /\ bs[id] = b /\ \A i \in D : bs[i] = b \/ bs[i] = blocks[i]
    BY <1>1, Zenon DEF Put
<1>3. IsFiniteSet(D) /\ Cardinality(D) \in Nat /\ Cardinality(D) <= m
    BY <1>1, FS_CardinalityType, Zenon DEF Store
<1>4. IsFiniteSet(D \cup {id}) /\ Cardinality(D \cup {id}) <= m + 1
    <2>1. /\ IsFiniteSet(D \cup {id})
          /\ Cardinality(D \cup {id}) = IF id \in D THEN Cardinality(D) ELSE Cardinality(D) + 1
        BY <1>3, FS_AddElement, Zenon
    <2> QED BY <1>3, <2>1
<1>5. \A i \in D : blocks[i] \in BlockType /\ blocks[i].tick < t
    BY <1>1, Zenon DEF Store
<1>6. \A c \in BlockType : c.tick \in Int
    BY DEF BlockType, NoTick
<1>7. \A i \in D : blocks[i].tick < u
    BY <1>5, <1>6
<1>8. \A i \in D \cup {id} : bs[i] \in BlockType /\ bs[i].tick < u
    BY <1>2, <1>5, <1>7, Zenon
<1>9. D \cup {id} \subseteq Id
    BY <1>1, Zenon DEF Store
<1>10. Store(bs, u, m + 1)
    BY <1>2, <1>4, <1>8, <1>9, Zenon DEF Store
<1> QED BY <1>1, <1>10, Zenon

\* Another version of one block in a store.
LEMMA StoreEdit ==
    ASSUME NEW t, NEW m, Store(blocks, t, m), NEW bs, DOMAIN bs = DOMAIN blocks,
           \A i \in DOMAIN blocks : bs[i] \in BlockType /\ bs[i].tick < t
    PROVE  Store(bs, t, m)
BY Zenon DEF Store

\* A store read back from its snapshot: the live blocks as they were, the others without a tick.
LEMMA RestoredStore ==
    ASSUME NEW t \in Nat, NEW m, Store(blocks, t, m)
    PROVE  /\ Store(Restored, t, m) /\ Live(Restored) = Live(blocks)
           /\ DOMAIN Restored = DOMAIN blocks
           /\ \A id \in Live(blocks) : Restored[id] = blocks[id]
           /\ \A id \in DOMAIN blocks \ Live(blocks) : Restored[id].tick = NoTick /\ Restored[id].deleted
<1>1. PICK bs : bs = Restored
    BY Zenon
<1>2. PICK z : z = [key |-> <<35>>, tick |-> NoTick, deleted |-> TRUE]
    BY Zenon
<1>3. z \in BlockType /\ z.tick = NoTick /\ z.deleted /\ z.tick < t
    <2>1. PICK k : k = <<35>>
        BY Zenon
    <2>2. k \in Key /\ 1 \in 1..Len(k) /\ k[1] # 0
        BY <2>1 DEF Key, Digit
    <2>3. k \in WithDigit
        BY <2>2, Zenon DEF WithDigit
    <2> QED BY <1>2, <2>1, <2>3 DEF BlockType, NoTick
<1>4. /\ DOMAIN bs = DOMAIN blocks
      /\ \A id \in DOMAIN blocks : bs[id] = IF blocks[id].deleted THEN z ELSE blocks[id]
    BY <1>1, <1>2, Zenon DEF Restored
<1>5. /\ \A id \in Live(blocks) : bs[id] = blocks[id]
      /\ \A id \in DOMAIN blocks \ Live(blocks) : bs[id] = z
    BY <1>4, Zenon DEF Live
<1>6. Live(bs) = Live(blocks)
    BY <1>3, <1>4, <1>5, Zenon DEF Live
<1>7. \A id \in DOMAIN blocks : bs[id] \in BlockType /\ bs[id].tick < t
    <2>1. \A id \in DOMAIN blocks : blocks[id] \in BlockType /\ blocks[id].tick < t
        BY Zenon DEF Store
    <2> QED BY <1>3, <1>5, <2>1, Zenon
<1>8. Store(bs, t, m)
    BY <1>4, <1>7, StoreEdit, Zenon
<1> QED BY <1>1, <1>3, <1>4, <1>5, <1>6, <1>8, Zenon

\* The re-keyed log: every live block by its position, the others as they were.
LEMMA RekeyedBlock ==
    ASSUME NEW bs, NEW t, NEW m, Store(bs, t, m), NEW p \in Principal, NEW id \in DOMAIN bs
    PROVE  /\ bs[id].deleted => RekeyInOrder(bs, p)[id] = bs[id]
           /\ ~bs[id].deleted =>
                /\ RekeyInOrder(bs, p)[id] \in BlockType
                /\ RekeyInOrder(bs, p)[id].tick = Position(bs, id)
                /\ RekeyInOrder(bs, p)[id].key = order_key_for_tick(Position(bs, id), p)
                /\ RekeyInOrder(bs, p)[id].deleted = FALSE
<1>1. PICK n, k : n = Position(bs, id) /\ k = order_key_for_tick(n, p)
    BY Zenon
<1>2. RekeyInOrder(bs, p)[id] =
        IF bs[id].deleted THEN bs[id] ELSE [bs[id] EXCEPT !.key = k, !.tick = n]
    BY <1>1, Zenon DEF RekeyInOrder
<1>3. bs[id] \in BlockType
    BY Zenon DEF Store
<1>4. ASSUME ~bs[id].deleted
      PROVE  n \in Nat /\ k \in WithDigit
    <2>1. id \in Live(bs)
        BY <1>4, Zenon DEF Live
    <2>2. n \in Nat
        BY <1>1, <2>1, LiveIsPlaced, PositionsInOrder, Zenon
    <2>3. Suffix[p] \in Key
        BY OrderAssumption, Zenon
    <2> QED BY <1>1, <2>2, <2>3, KeyPieces, Zenon DEF order_key_for_tick
<1>5. ASSUME ~bs[id].deleted, NEW b, b = [bs[id] EXCEPT !.key = k, !.tick = n]
      PROVE  b \in BlockType /\ b.tick = n /\ b.key = k /\ b.deleted = FALSE
    <2>1. bs[id].deleted = FALSE
        BY <1>3, <1>5, SMTT(30) DEF BlockType
    <2> QED BY <1>3, <1>4, <1>5, <2>1, Zenon DEF BlockType
<1> QED BY <1>1, <1>2, <1>5, Zenon

\* The re-keyed log is a store whose mark is the number of live blocks.
LEMMA RekeyedStore ==
    ASSUME NEW bs, NEW t, NEW m, Store(bs, t, m), NEW p \in Principal,
           \A id \in DOMAIN bs : bs[id].deleted => bs[id].tick = NoTick
    PROVE  Store(RekeyInOrder(bs, p), Cardinality(Live(bs)), m)
<1>1. PICK r, c : r = RekeyInOrder(bs, p) /\ c = Cardinality(Live(bs))
    BY Zenon
<1>2. DOMAIN r = DOMAIN bs
    BY <1>1, Zenon DEF RekeyInOrder
<1>3. c \in Nat
    BY <1>1, LiveIsPlaced, Zenon
<1>4. ASSUME NEW id \in DOMAIN bs PROVE r[id] \in BlockType /\ r[id].tick < c
    <2>1. CASE bs[id].deleted
        <3>1. r[id] = bs[id] /\ bs[id] \in BlockType /\ bs[id].tick = NoTick
            <4>1. r[id] = bs[id]
                BY <1>1, <2>1, Zenon DEF RekeyInOrder
            <4> QED BY <2>1, <4>1, Zenon DEF Store
        <3>2. NoTick < c
            BY <1>3 DEF NoTick
        <3> QED BY <3>1, <3>2, Zenon
    <2>2. CASE ~bs[id].deleted
        <3>1. r[id] \in BlockType /\ r[id].tick = Position(bs, id)
            BY <1>1, <2>2, RekeyedBlock, Zenon
        <3>2. id \in Live(bs)
            BY <2>2, Zenon DEF Live
        <3>3. Position(bs, id) < c
            BY <1>1, <3>2, LiveIsPlaced, PositionsInOrder, Zenon
        <3> QED BY <3>1, <3>3, Zenon
    <2> QED BY <2>1, <2>2, Zenon
<1>5. Store(r, c, m)
    BY <1>2, <1>4, Zenon DEF Store
<1> QED BY <1>1, <1>5, Zenon

\* The mark derived from the live ticks is past them.
LEMMA MarkOfTicks ==
    ASSUME NEW bs, NEW t \in Nat, NEW m, Store(bs, t, m), NEW n,
           n = Max({0} \cup {bs[id].tick + 1 : id \in Live(bs)}),
           \A id \in DOMAIN bs : bs[id].deleted => bs[id].tick = NoTick
    PROVE  n \in Nat /\ Store(bs, n, m)
<1>1. \A id \in DOMAIN bs : bs[id].tick \in Nat \cup {NoTick} /\ bs[id].tick < t
    BY SMTT(30) DEF Store, BlockType
<1>2. PICK T : T = {0} \cup {bs[id].tick + 1 : id \in Live(bs)}
    BY Zenon
<1>3. Live(bs) \subseteq DOMAIN bs
    BY Zenon DEF Live
<1>4. \A id \in Live(bs) : bs[id].tick + 1 \in Nat /\ bs[id].tick + 1 <= t
    BY <1>1, <1>3 DEF NoTick
<1>5. T \subseteq Nat /\ T # {} /\ \A y \in T : y <= t
    BY <1>2, <1>4
<1>6. n \in T /\ \A y \in T : y <= n
    BY <1>2, <1>5, MaxOfNumbers, Zenon
<1>7. n \in Nat
    BY <1>5, <1>6, Zenon
<1>8. ASSUME NEW id \in DOMAIN bs PROVE bs[id].tick < n
    <2>1. CASE bs[id].deleted
        BY <1>7, <2>1 DEF NoTick
    <2>2. CASE ~bs[id].deleted
        <3>1. id \in Live(bs)
            BY <2>2, Zenon DEF Live
        <3>2. PICK x : x = bs[id].tick
            BY Zenon
        <3>3. x \in Nat \cup {NoTick} /\ x + 1 <= n
            BY <1>1, <1>2, <1>6, <3>1, <3>2, Zenon
        <3>4. x < n
            BY <1>7, <3>3 DEF NoTick
        <3> QED BY <3>2, <3>4, Zenon
    <2> QED BY <2>1, <2>2, Zenon
<1> QED BY <1>7, <1>8, Zenon DEF Store

\* A new block at the end of a lane, with its tick below the new mark.
LEMMA InsertKeepsPlaces ==
    ASSUME PlaceInv, NEW p \in Principal, NEW after, NEW tick \in Nat \cup {NoTick},
           CountMinted, nextTick' \in Nat, nextTick <= nextTick', tick < nextTick',
           blocks' = Put(NextId(p), [key     |-> calc_order_key(blocks, after, tick, p),
                                     tick    |-> tick,
                                     deleted |-> FALSE]),
           LaneInv', moves' = moves
    PROVE  PlaceInv'
<1>1. /\ Store(blocks, nextTick, minted) /\ nextTick \in Nat /\ minted \in Nat
      /\ minted' = minted + 1 /\ minted' \in 0..MaxBlocks /\ moves' \in 0..MaxMoves
    BY OrderAssumption DEF PlaceInv, CountMinted
<1>2. PICK k : k = calc_order_key(blocks, after, tick, p)
    BY Zenon
<1>3. k \in WithDigit
    BY <1>1, <1>2, CalcGivesKey, Zenon
<1>4. PICK b : b = [key |-> k, tick |-> tick, deleted |-> FALSE]
    BY Zenon
<1>5. b \in BlockType /\ b.tick = tick
    BY <1>3, <1>4, SMTT(30) DEF BlockType
<1>6. NextId(p) \in Id
    BY DEF PlaceInv, LaneInv, NextId, Id
<1>7. Store(Put(NextId(p), b), nextTick', minted + 1)
    BY <1>1, <1>5, <1>6, StorePut, Zenon
<1>8. Store(blocks', nextTick', minted')
    BY <1>1, <1>2, <1>4, <1>7, Zenon
<1> QED BY <1>1, <1>8, Zenon DEF PlaceInv

\* A restart keeps the store, and its mark is past every tick it restored.
LEMMA RestartKeepsPlaces ==
    ASSUME PlaceInv, NEW p \in Principal, Restart(p), LaneInv'
    PROVE  PlaceInv'
<1>1. Store(blocks, nextTick, minted) /\ nextTick \in Nat
    BY Zenon DEF PlaceInv
<1>2. PICK bs : bs = Restored
    BY Zenon
<1>3. Store(bs, nextTick, minted) /\ DOMAIN bs = DOMAIN blocks
    BY <1>1, <1>2, RestoredStore, Zenon
<1>4. \A id \in DOMAIN bs : bs[id].deleted => bs[id].tick = NoTick
    <2>1. ASSUME NEW id \in DOMAIN bs, id \in Live(blocks) PROVE ~bs[id].deleted
        BY <1>1, <1>2, <2>1, RestoredStore, Zenon DEF Live
    <2> QED BY <1>1, <1>2, <1>3, <2>1, RestoredStore, Zenon
<1>5. normalize_timeline(bs, p) /\ minted' = minted /\ moves' = moves
    BY <1>2, Zenon DEF Restart
<1>6. nextTick' \in Nat /\ Store(blocks', nextTick', minted)
    <2>1. CASE \E id \in Live(bs) : bs[id].tick = NoTick
        <3>1. blocks' = RekeyInOrder(bs, p) /\ nextTick' = Cardinality(Live(bs))
            BY <1>5, <2>1, Zenon DEF normalize_timeline
        <3>2. Store(RekeyInOrder(bs, p), Cardinality(Live(bs)), minted)
            BY <1>3, <1>4, RekeyedStore, Zenon
        <3>3. Cardinality(Live(bs)) \in Nat
            BY <1>3, LiveIsPlaced, Zenon
        <3> QED BY <3>1, <3>2, <3>3, Zenon
    <2>2. CASE ~\E id \in Live(bs) : bs[id].tick = NoTick
        <3>1. blocks' = bs /\ nextTick' = Max({0} \cup {bs[id].tick + 1 : id \in Live(bs)})
            BY <1>5, <2>2, Zenon DEF normalize_timeline
        <3> QED BY <1>1, <1>3, <1>4, <3>1, MarkOfTicks, Zenon
    <2> QED BY <2>1, <2>2, Zenon
<1> QED BY <1>5, <1>6, Zenon DEF PlaceInv

\* A block changed in place, its tick kept.
LEMMA EditKeepsPlaces ==
    ASSUME PlaceInv, NEW id \in DOMAIN blocks, NEW b \in BlockType, b.tick = blocks[id].tick,
           blocks' = [blocks EXCEPT ![id] = b], nextTick' = nextTick, minted' = minted,
           moves' \in 0..MaxMoves, LaneInv'
    PROVE  PlaceInv'
<1>1. Store(blocks, nextTick, minted)
    BY Zenon DEF PlaceInv
<1>2. DOMAIN blocks' = DOMAIN blocks /\ blocks'[id] = b
      /\ \A i \in DOMAIN blocks : i # id => blocks'[i] = blocks[i]
    BY Zenon
<1>3. \A i \in DOMAIN blocks : blocks'[i] \in BlockType /\ blocks'[i].tick < nextTick
    BY <1>1, <1>2, Zenon DEF Store
<1>4. Store(blocks', nextTick, minted)
    BY <1>1, <1>2, <1>3, StoreEdit, Zenon
<1> QED BY <1>4, Zenon DEF PlaceInv

\* Every step keeps the invariant of placement.
LEMMA NextKeepsPlaces ==
    ASSUME PlaceInv, [Next]_vars
    PROVE  PlaceInv'
<1>1. LaneInv'
    BY NextKeepsLanes, Zenon DEF PlaceInv
<1>2. ASSUME NEW p \in Principal, NEW after, InsertBlock(p, after)
      PROVE  PlaceInv'
    <2>1. nextTick \in Nat /\ nextTick' = nextTick + 1
        BY <1>2, Zenon DEF PlaceInv, InsertBlock
    <2>2. nextTick' \in Nat /\ nextTick <= nextTick' /\ nextTick < nextTick' /\ nextTick \in Nat \cup {NoTick}
        BY <2>1
    <2> QED BY <1>1, <1>2, <2>2, InsertKeepsPlaces, Zenon DEF InsertBlock
<1>3. ASSUME NEW p \in Principal, NEW after, InsertBlockRefused(p, after)
      PROVE  PlaceInv'
    <2>1. /\ minted \in 0..MaxBlocks /\ Store(blocks, nextTick, minted)
          /\ minted < MaxBlocks /\ minted' = minted + 1
          /\ blocks' = blocks /\ nextTick' = nextTick /\ moves' = moves
        BY <1>3, Zenon DEF PlaceInv, InsertBlockRefused, CountMinted
    <2>2. minted' \in 0..MaxBlocks /\ minted \in Nat /\ minted <= minted'
        BY <2>1, OrderAssumption
    <2>3. Cardinality(DOMAIN blocks) \in Nat /\ Cardinality(DOMAIN blocks) <= minted
        BY <2>1, FS_CardinalityType, Zenon DEF Store
    <2>4. Cardinality(DOMAIN blocks) <= minted'
        BY <2>2, <2>3, <2>1
    <2>5. Store(blocks, nextTick, minted')
        BY <2>1, <2>4, Zenon DEF Store
    <2> QED BY <1>1, <2>1, <2>2, <2>5, Zenon DEF PlaceInv
<1>4. ASSUME NEW p \in Principal, NEW after, NEW tick \in SnapTick, InsertFromSnapshot(p, after, tick)
      PROVE  PlaceInv'
    <2>1. tick \in Nat \cup {NoTick} /\ nextTick \in Nat
        BY OrderAssumption, Zenon DEF PlaceInv
    <2>2. nextTick' = IF tick = NoTick THEN nextTick ELSE Max({nextTick, tick + 1})
        BY <1>4, Zenon DEF InsertFromSnapshot
    <2>3. nextTick' \in Nat /\ nextTick <= nextTick' /\ tick < nextTick'
        <3>1. CASE tick = NoTick
            BY <2>1, <2>2, <3>1 DEF NoTick
        <3>2. CASE tick # NoTick
            <4>1. PICK n \in Nat : n = tick + 1
                BY <2>1, <3>2
            <4>2. nextTick' = Max({nextTick, n})
                BY <2>2, <3>2, <4>1, Zenon
            <4>3. nextTick' \in Nat /\ nextTick <= nextTick' /\ n <= nextTick'
                BY <2>1, <4>2, LongerLength, Zenon
            <4> QED BY <2>1, <3>2, <4>1, <4>3, SMTT(30)
        <3> QED BY <3>1, <3>2, Zenon
    <2> QED BY <1>1, <1>4, <2>1, <2>3, InsertKeepsPlaces, Zenon DEF InsertFromSnapshot
<1>5. ASSUME NEW p \in Principal, NEW id, NEW after, MoveBlock(p, id, after)
      PROVE  PlaceInv'
    <2>1. PICK k : k = calc_order_key(blocks, after, NoTick, p)
        BY Zenon
    <2>2. id \in DOMAIN blocks /\ blocks[id] \in BlockType
        BY <1>5, Zenon DEF MoveBlock, Live, PlaceInv, Store
    <2>3. k \in WithDigit
        BY <2>1, CalcGivesKey, Zenon DEF PlaceInv
    <2>4. PICK b : b = [blocks[id] EXCEPT !.key = k]
        BY Zenon
    <2>5. b \in BlockType /\ b.tick = blocks[id].tick
        BY <2>2, <2>3, <2>4, SMTT(30) DEF BlockType
    <2>6. blocks' = [blocks EXCEPT ![id] = b]
        BY <1>5, <2>1, <2>4, Zenon DEF MoveBlock
    <2>7. moves' \in 0..MaxMoves
        BY <1>5, OrderAssumption DEF MoveBlock, PlaceInv
    <2> QED BY <1>1, <1>5, <2>2, <2>5, <2>6, <2>7, EditKeepsPlaces, Zenon DEF MoveBlock
<1>6. ASSUME NEW id, DeleteBlock(id)
      PROVE  PlaceInv'
    <2>1. id \in DOMAIN blocks /\ blocks[id] \in BlockType
        BY <1>6, Zenon DEF DeleteBlock, PlaceInv, Store
    <2>2. PICK b : b = [blocks[id] EXCEPT !.deleted = TRUE]
        BY Zenon
    <2>3. b \in BlockType /\ b.tick = blocks[id].tick
        BY <2>1, <2>2, Zenon DEF BlockType
    <2>4. blocks' = [blocks EXCEPT ![id] = b]
        BY <1>6, <2>2, Zenon DEF DeleteBlock
    <2> QED BY <1>1, <1>6, <2>1, <2>3, <2>4, EditKeepsPlaces, Zenon DEF DeleteBlock, PlaceInv
<1>7. ASSUME NEW p \in Principal, Restart(p)
      PROVE  PlaceInv'
    BY <1>1, <1>7, RestartKeepsPlaces, Zenon
<1>8. ASSUME UNCHANGED vars
      PROVE  PlaceInv'
    BY <1>1, <1>8, Zenon DEF vars, PlaceInv
<1> QED BY <1>2, <1>3, <1>4, <1>5, <1>6, <1>7, <1>8, Zenon DEF Next

\* And it holds from the start.
LEMMA InitPlaces == Init => PlaceInv
<1> SUFFICES ASSUME Init PROVE PlaceInv
    BY Zenon
<1>1. DOMAIN blocks = {}
    BY DEF Init
<1>2. IsFiniteSet({}) /\ Cardinality({}) = 0
    BY FS_EmptySet, Zenon
<1>3. minted = 0 /\ moves = 0 /\ nextTick = 0 /\ seqLanes \in [Principal -> Nat]
    BY DEF Init
<1>4. Cardinality({}) <= minted
    BY <1>2, <1>3
<1>5. Store(blocks, nextTick, minted)
    BY <1>1, <1>2, <1>4, Zenon DEF Store
<1>6. LaneInv
    BY <1>1, <1>3, Zenon DEF LaneInv, LaneAheadOfLog
<1>7. nextTick \in Nat /\ minted \in 0..MaxBlocks /\ moves \in 0..MaxMoves
    BY <1>3, OrderAssumption
<1> QED BY <1>5, <1>6, <1>7, Zenon DEF PlaceInv

(***************************************************************************)
(* The log keeps its shape: whatever is inserted, moved, deleted and       *)
(* restored, every key calc_order_key makes is a sequence of base-62       *)
(* digits and every tick is a number or none.                              *)
(***************************************************************************)
THEOREM PlacesTyped == Spec => []TypeOK
<1>1. PlaceInv => TypeOK
    <2>1. ASSUME PlaceInv, NEW id \in DOMAIN blocks
          PROVE  /\ blocks[id].key \in Key /\ blocks[id].tick \in Nat \cup {NoTick}
                 /\ blocks[id].deleted \in BOOLEAN
        <3>1. blocks[id] \in BlockType
            BY <2>1, Zenon DEF PlaceInv, Store
        <3>2. /\ blocks[id].key \in WithDigit /\ blocks[id].tick \in Nat \cup {NoTick}
              /\ blocks[id].deleted \in BOOLEAN
            BY <3>1, SMTT(30) DEF BlockType
        <3> QED BY <3>2, Zenon DEF WithDigit
    <2> QED BY <2>1, Zenon DEF TypeOK, PlaceInv, LaneInv
<1> QED BY <1>1, InitPlaces, NextKeepsPlaces, PTL DEF Spec

(***************************************************************************)
(* A restart keeps the order of the live blocks, for any number of blocks, *)
(* principals, moves, deletions and restarts, as long as the number part   *)
(* of a key holds the number of blocks.                                    *)
(***************************************************************************)
THEOREM RestartInOrder ==
    ASSUME Fits(MaxBlocks)
    PROVE  Spec => RestartKeepsOrder
<1>1. ASSUME PlaceInv, NEW p \in Principal, Restart(p)
      PROVE  /\ Live(blocks') = Live(blocks)
             /\ \A i, j \in Live(blocks) : SortsBefore(blocks', i, j) <=> SortsBefore(blocks, i, j)
    <2>1. Store(blocks, nextTick, minted) /\ nextTick \in Nat
        BY <1>1, Zenon DEF PlaceInv
    <2>2. PICK bs, L : bs = Restored /\ L = Live(blocks)
        BY Zenon
    <2>3. /\ Store(bs, nextTick, minted) /\ Live(bs) = L /\ DOMAIN bs = DOMAIN blocks
          /\ \A id \in L : bs[id] = blocks[id]
        BY <2>1, <2>2, RestoredStore, Zenon
    <2>4. \A i, j \in L : SortsBefore(bs, i, j) <=> SortsBefore(blocks, i, j)
        BY <2>3, Zenon DEF SortsBefore
    <2>5. normalize_timeline(bs, p)
        BY <1>1, <2>2, Zenon DEF Restart
    <2>6. CASE ~\E id \in Live(bs) : bs[id].tick = NoTick
        <3>1. blocks' = bs
            BY <2>5, <2>6, Zenon DEF normalize_timeline
        <3> QED BY <2>2, <2>3, <2>4, <3>1, Zenon
    <2>7. CASE \E id \in Live(bs) : bs[id].tick = NoTick
        <3>1. PICK r : r = RekeyInOrder(bs, p)
            BY Zenon
        <3>2. blocks' = r
            BY <2>5, <2>7, <3>1, Zenon DEF normalize_timeline
        <3>3. DOMAIN r = DOMAIN bs
            BY <3>1, Zenon DEF RekeyInOrder
        <3>4. \A id \in DOMAIN bs : r[id].deleted <=> bs[id].deleted
            <4>1. ASSUME NEW id \in DOMAIN bs, bs[id].deleted PROVE r[id].deleted
                <5>1. r[id] = bs[id]
                    BY <3>1, <4>1, Zenon DEF RekeyInOrder
                <5> QED BY <4>1, <5>1, Zenon
            <4>2. ASSUME NEW id \in DOMAIN bs, ~bs[id].deleted PROVE ~r[id].deleted
                BY <2>3, <3>1, <4>2, RekeyedBlock, Zenon
            <4> QED BY <4>1, <4>2, Zenon
        <3>5. Live(r) = L
            BY <2>3, <3>3, <3>4, Zenon DEF Live
        <3>6. ASSUME NEW id \in L
              PROVE  Canonical(r[id].key, Position(bs, id))
            <4>1. id \in DOMAIN bs /\ ~bs[id].deleted /\ id \in Live(bs)
                BY <2>3, <3>6, Zenon DEF Live
            <4>2. r[id].key = order_key_for_tick(Position(bs, id), p)
                BY <2>3, <3>1, <4>1, RekeyedBlock, Zenon
            <4>3. Position(bs, id) \in Nat
                BY <2>3, <4>1, LiveIsPlaced, PositionsInOrder, Zenon
            <4>4. Suffix[p] \in Key
                BY OrderAssumption, Zenon
            <4> QED BY <4>2, <4>3, <4>4, MadeCanonical, Zenon DEF order_key_for_tick
        <3>7. ASSUME NEW id \in L
              PROVE  Position(bs, id) \in Nat /\ Fits(Position(bs, id))
            <4>1. /\ Position(bs, id) \in Nat /\ Position(bs, id) < Cardinality(Live(bs))
                  /\ Cardinality(Live(bs)) \in Nat /\ Cardinality(Live(bs)) <= Cardinality(DOMAIN bs)
                BY <2>3, <3>7, LiveIsPlaced, PositionsInOrder, Zenon
            <4>2. Cardinality(DOMAIN bs) \in Nat /\ Cardinality(DOMAIN bs) <= minted
                BY <2>3, FS_CardinalityType, Zenon DEF Store
            <4>3. minted \in 0..MaxBlocks /\ MaxBlocks \in Nat
                BY <1>1, OrderAssumption, Zenon DEF PlaceInv
            <4>4. Position(bs, id) <= MaxBlocks
                BY <4>1, <4>2, <4>3, SMTT(30)
            <4> QED BY <4>1, <4>3, <4>4, SmallerFits, Zenon
        <3>8. ASSUME NEW i \in L, NEW j \in L, SortsBefore(bs, i, j)
              PROVE  SortsBefore(r, i, j)
            <4>1. Position(bs, i) < Position(bs, j)
                BY <2>3, <3>8, LiveIsPlaced, PositionsInOrder, Zenon
            <4>2. KeyLess(r[i].key, r[j].key)
                BY <3>6, <3>7, <4>1, CanonicalLess, Zenon
            <4> QED BY <4>2, Zenon DEF SortsBefore
        <3>9. Placed(bs, L) /\ Placed(r, L)
            <4>1. \A id \in L : r[id].key \in Key
                BY <3>6, Zenon DEF Canonical
            <4> QED BY <2>3, <4>1, LiveIsPlaced, Zenon DEF Placed
        <3>10. ASSUME NEW i \in L, NEW j \in L, SortsBefore(r, i, j)
               PROVE  SortsBefore(bs, i, j)
            <4>1. ~SortsBefore(r, i, i) /\ ~(SortsBefore(r, i, j) /\ SortsBefore(r, j, i))
                BY <3>9, BlocksInOrder, Zenon
            <4>2. i # j
                BY <3>10, <4>1, Zenon
            <4>3. SortsBefore(bs, i, j) \/ SortsBefore(bs, j, i)
                BY <3>9, <4>2, BlocksInOrder, Zenon
            <4> QED BY <3>8, <3>10, <4>1, <4>3, Zenon
        <3> QED BY <2>2, <2>4, <3>2, <3>5, <3>8, <3>10, Zenon
    <2> QED BY <2>6, <2>7, Zenon
<1>2. PlaceInv /\ [Next]_vars =>
        [\A p \in Principal :
            Restart(p) =>
                /\ Live(blocks') = Live(blocks)
                /\ \A i, j \in Live(blocks) :
                        SortsBefore(blocks', i, j) <=> SortsBefore(blocks, i, j)]_vars
    BY <1>1, Zenon
<1> QED BY <1>2, InitPlaces, NextKeepsPlaces, PTL DEF Spec, RestartKeepsOrder

\* The empty key.
LEMMA EmptyKey == <<>> \in Key
BY DEF Key

\* Before a key that is not all zeros there is room for the key of a move to the front.
LEMMA FrontIsLess ==
    ASSUME NEW k \in WithDigit, NEW s \in Key, NEW n, n = order_midpoint(<<>>, k) \o s
    PROVE  KeyLess(n, k)
<1>0. <<>> \in Key /\ k \in Key /\ Len(<<>>) = 0
    BY DEF Key, WithDigit
<1>1. PICK a, i, d, e, x, m : /\ a = <<>>
                              /\ i = FirstDifference(a, k, 0, 62) /\ m = order_midpoint(a, k)
                              /\ d = DigitAt(a, i, 0) /\ e = DigitAt(k, i, 62)
                              /\ x = DigitAt(a, i + 1, 0)
    BY Zenon
<1>2. a \in Key /\ Len(a) = 0
    BY <1>0, <1>1, Zenon
<1>3. Midpoint(m, a, k, i, d, e, x)
    BY <1>0, <1>1, <1>2, MidpointReads, Zenon
<1>4. /\ i \in Nat \ {0} /\ d \in 0..61 /\ e \in 0..62 /\ d # e /\ m \in Key
      /\ \A j \in 1..(i - 1) : DigitAt(a, j, 0) = DigitAt(k, j, 62) /\ At(m, j) = At(k, j)
      /\ d + 1 < e => Len(m) = i /\ At(m, i) = (d + e) \div 2
      /\ ~(d + 1 < e) => Len(m) = i + 1 /\ At(m, i) = d
    BY <1>3, Zenon DEF Midpoint
<1>5. \A j \in Nat \ {0} : DigitAt(a, j, 0) = 0
    <2>1. \A j \in Nat \ {0} : ~(j <= 0)
        OBVIOUS
    <2> QED BY <1>2, <2>1, Zenon DEF DigitAt
<1>6. d = 0
    BY <1>1, <1>4, <1>5, Zenon
<1>7. i <= Len(k) /\ e = At(k, i)
    <2>1. PICK q \in 1..Len(k) : k[q] # 0
        BY Zenon DEF WithDigit
    <2>2. Len(k) \in Nat /\ q \in Nat \ {0} /\ q <= Len(k)
        BY <1>0, <2>1 DEF Key
    <2>3. DigitAt(k, q, 62) # 0
        BY <2>1, <2>2, Zenon DEF DigitAt
    <2>4. q \notin 1..(i - 1)
        BY <1>4, <1>5, <2>2, <2>3, Zenon
    <2>5. i <= Len(k)
        BY <1>4, <2>2, <2>4
    <2> QED BY <1>1, <2>5, Zenon DEF At, DigitAt
<1>8. i <= Len(m) /\ At(m, i) < e
    <2>1. CASE d + 1 < e
        BY <1>4, <1>6, <2>1, SMTT(30)
    <2>2. CASE ~(d + 1 < e)
        BY <1>4, <1>6, <2>2
    <2> QED BY <2>1, <2>2, Zenon
<1>9. /\ n \in Key /\ Len(n) = Len(m) + Len(s)
      /\ \A j \in 1..(Len(m) + Len(s)) : n[j] = IF j <= Len(m) THEN m[j] ELSE s[j - Len(m)]
    <2>1. n = m \o s
        BY <1>1, Zenon
    <2>2. m \in Key
        BY <1>4, Zenon
    <2> QED BY <2>1, <2>2, JoinedKeys, ZenonT(40)
<1>10. ASSUME NEW j \in Nat \ {0}, j <= i
       PROVE  At(n, j) = At(m, j)
    <2>1. Len(m) \in Nat /\ Len(s) \in Nat
        BY <1>4, SMTT(30) DEF Key
    <2>2. j <= Len(m) /\ j <= Len(n) /\ j \in 1..(Len(m) + Len(s))
        BY <1>4, <1>8, <1>9, <1>10, <2>1, SMTT(30)
    <2>3. n[j] = m[j]
        BY <1>9, <2>2, Zenon
    <2> QED BY <2>2, <2>3, Zenon DEF At, DigitAt
<1>11. i <= i /\ \A j \in 1..(i - 1) : j \in Nat \ {0} /\ j <= i
    BY <1>4
<1>12. DiffersFrom(n, k, i)
    <2>1. At(n, i) = At(m, i)
        BY <1>4, <1>10, <1>11, Zenon
    <2>2. At(n, i) < At(k, i)
        BY <1>7, <1>8, <2>1, Zenon
    <2>3. \A j \in 1..(i - 1) : At(n, j) = At(k, j)
        BY <1>4, <1>10, <1>11, Zenon
    <2> QED BY <2>2, <2>3, Zenon DEF DiffersFrom
<1> QED BY <1>0, <1>4, <1>9, <1>12, LessIs, Zenon

\* The block that all others sort after is the first one.
LEMMA FirstIs ==
    ASSUME NEW bs, NEW t, NEW m, Store(bs, t, m), NEW id \in Live(bs),
           \A j \in Live(bs) \ {id} : SortsBefore(bs, id, j)
    PROVE  FirstBlock(bs) = id
<1>1. PICK f : f = FirstBlock(bs)
    BY Zenon
<1>2. f \in Live(bs) /\ \A j \in Live(bs) \ {f} : SortsBefore(bs, f, j)
    BY <1>1, Zenon DEF FirstBlock
<1>3. Placed(bs, Live(bs))
    BY LiveIsPlaced, Zenon
<1>4. ASSUME f # id PROVE FALSE
    <2>1. SortsBefore(bs, id, f) /\ SortsBefore(bs, f, id)
        BY <1>2, <1>4, Zenon
    <2> QED BY <1>2, <1>3, <2>1, BlocksInOrder, Zenon
<1> QED BY <1>1, <1>4, Zenon

\* The block that sorts after all others is the last one.
LEMMA LastIs ==
    ASSUME NEW bs, NEW t, NEW m, Store(bs, t, m), NEW id \in Live(bs),
           \A j \in Live(bs) \ {id} : SortsBefore(bs, j, id)
    PROVE  LastBlock(bs) = id
<1>1. PICK f : f = LastBlock(bs)
    BY Zenon
<1>2. f \in Live(bs) /\ \A j \in Live(bs) \ {f} : SortsBefore(bs, j, f)
    BY <1>1, Zenon DEF LastBlock
<1>3. Placed(bs, Live(bs))
    BY LiveIsPlaced, Zenon
<1>4. ASSUME f # id PROVE FALSE
    <2>1. SortsBefore(bs, id, f) /\ SortsBefore(bs, f, id)
        BY <1>2, <1>4, Zenon
    <2> QED BY <1>2, <1>3, <2>1, BlocksInOrder, Zenon
<1> QED BY <1>1, <1>4, Zenon

(***************************************************************************)
(* move_block without a predecessor puts the block first, for any number   *)
(* of moves and blocks: no key is all zeros, since every midpoint ends in  *)
(* another digit, so there is always room before the first key.            *)
(***************************************************************************)
THEOREM MoveToFrontIsFirst == Spec => MoveToFrontLandsFirst
<1>1. ASSUME PlaceInv, PlaceInv', NEW p \in Principal, NEW id \in DOMAIN blocks, MoveBlock(p, id, NoBlock)
      PROVE  FirstBlock(blocks') = id
    <2>1. Store(blocks, nextTick, minted) /\ Store(blocks', nextTick', minted')
        BY <1>1, Zenon DEF PlaceInv
    <2>2. PICK f, k, s, n : /\ f = FirstBlock(blocks) /\ k = blocks[f].key /\ s = Suffix[p]
                            /\ n = order_midpoint(<<>>, k) \o s
        BY Zenon
    <2>3. id \in Live(blocks)
        BY <1>1, Zenon DEF MoveBlock
    <2>4. f \in Live(blocks) /\ \A j \in Live(blocks) \ {f} : SortsBefore(blocks, f, j)
        <3>1. \E i \in Live(blocks) : \A j \in Live(blocks) \ {i} : SortsBefore(blocks, i, j)
            BY <2>1, <2>3, LiveIsPlaced, HasFirstAndLast, Zenon
        <3> QED BY <2>2, <3>1, Zenon DEF FirstBlock
    <2>5. k \in WithDigit
        <3>1. f \in DOMAIN blocks
            BY <2>4, Zenon DEF Live
        <3>2. blocks[f] \in BlockType
            BY <2>1, <3>1, Zenon DEF Store
        <3> QED BY <2>2, <3>2, SMTT(30) DEF BlockType
    <2>6. s \in Key
        BY <2>2, OrderAssumption, Zenon
    <2>7. KeyLess(n, k)
        BY <2>2, <2>5, <2>6, FrontIsLess, Zenon
    <2>8. calc_order_key(blocks, NoBlock, NoTick, p) = n
        <3>1. Live(blocks) # {}
            BY <2>3, Zenon
        <3>2. PrependKey(blocks, p) = n
            BY <2>2, <3>1, Zenon DEF PrependKey
        <3> QED BY <3>2, Zenon DEF calc_order_key
    <2>9. blocks' = [blocks EXCEPT ![id].key = n]
        BY <1>1, <2>8, Zenon DEF MoveBlock
    <2>10. PICK b : b = [blocks[id] EXCEPT !.key = n]
        BY Zenon
    <2>11. b.key = n /\ b.deleted = blocks[id].deleted
        <3>1. blocks[id] \in BlockType
            BY <2>1, Zenon DEF Store
        <3> QED BY <2>10, <3>1, SMTT(30) DEF BlockType
    <2>12. /\ DOMAIN blocks' = DOMAIN blocks /\ blocks'[id] = b
           /\ \A j \in DOMAIN blocks : j # id => blocks'[j] = blocks[j]
        BY <2>9, <2>10, Zenon
    <2>13. Live(blocks') = Live(blocks)
        BY <2>11, <2>12, Zenon DEF Live
    <2>14. ASSUME NEW j \in Live(blocks) \ {id} PROVE SortsBefore(blocks', id, j)
        <3>1. blocks'[id].key = n /\ blocks'[j].key = blocks[j].key
            BY <2>11, <2>12, Zenon DEF Live
        <3>2. k \in Key /\ blocks[j].key \in Key
            BY <2>1, <2>2, <2>4, LiveIsPlaced, Zenon DEF Placed
        <3>3. n \in Key
            BY <2>2, <2>6, <3>2, EmptyKey, KeyPieces, Zenon DEF WithDigit
        <3>4. blocks[j].key = k \/ KeyLess(k, blocks[j].key)
            BY <2>2, <2>4, Zenon DEF SortsBefore
        <3>5. KeyLess(n, blocks[j].key)
            BY <2>7, <3>2, <3>3, <3>4, LessTransitive, Zenon
        <3> QED BY <3>1, <3>5, Zenon DEF SortsBefore
    <2> QED BY <2>1, <2>3, <2>13, <2>14, FirstIs, Zenon
<1>2. PlaceInv /\ PlaceInv' /\ [Next]_vars =>
        [\A p \in Principal, id \in DOMAIN blocks :
            MoveBlock(p, id, NoBlock) => FirstBlock(blocks') = id]_vars
    BY <1>1, Zenon
<1> QED BY <1>2, InitPlaces, NextKeepsPlaces, PTL DEF Spec, MoveToFrontLandsFirst

(***************************************************************************)
(* An insert without a place is last afterwards, for any principals and    *)
(* suffixes, on the path of order_key_successor that increments and on     *)
(* the one that extends.                                                   *)
(***************************************************************************)
THEOREM AppendIsLast == Spec => AppendLandsLast
<1>1. ASSUME PlaceInv, PlaceInv', NEW p \in Principal, InsertBlock(p, NoBlock)
      PROVE  LastBlock(blocks') = NextId(p)
    <2>1. /\ Store(blocks, nextTick, minted) /\ Store(blocks', nextTick', minted')
          /\ nextTick \in Nat /\ LaneInv
        BY <1>1, Zenon DEF PlaceInv
    <2>2. PICK n, id, b : /\ n = calc_order_key(blocks, NoBlock, nextTick, p) /\ id = NextId(p)
                          /\ b = [key |-> n, tick |-> nextTick, deleted |-> FALSE]
        BY Zenon
    <2>3. b.key = n /\ b.deleted = FALSE
        BY <2>2, SMTT(30)
    <2>4. blocks' = Put(id, b)
        BY <1>1, <2>2, Zenon DEF InsertBlock
    <2>5. id \notin DOMAIN blocks
        <3>1. seqLanes[p] \in Nat
            BY <2>1 DEF LaneInv
        <3>2. id[1] = p /\ id[2] = seqLanes[p]
            BY <2>2 DEF NextId
        <3>3. id[2] \in Nat /\ id[2] = seqLanes[id[1]]
            BY <3>1, <3>2, Zenon
        <3>4. ~(id[2] < seqLanes[id[1]])
            BY <3>3
        <3> QED BY <2>1, <3>4, Zenon DEF LaneInv, LaneAheadOfLog
    <2>6. /\ DOMAIN blocks' = DOMAIN blocks \cup {id} /\ blocks'[id] = b
          /\ \A j \in DOMAIN blocks : blocks'[j] = blocks[j]
        BY <2>4, <2>5, Zenon DEF Put
    <2>7. Live(blocks') = Live(blocks) \cup {id}
        BY <2>3, <2>6, Zenon DEF Live
    <2>8. ASSUME NEW j \in Live(blocks) PROVE SortsBefore(blocks', j, id)
        <3>1. PICK l, k, s : l = LastBlock(blocks) /\ k = blocks[l].key /\ s = Suffix[p]
            BY Zenon
        <3>2. l \in Live(blocks) /\ (SortsBefore(blocks, j, l) \/ j = l)
            BY <2>1, <2>8, <3>1, NeighboursLive, Zenon
        <3>3. s \in Key
            BY <3>1, OrderAssumption, Zenon
        <3>4. k \in Key /\ blocks[j].key \in Key
            BY <2>1, <3>1, <3>2, LiveIsPlaced, Zenon DEF Placed
        <3>5. n = order_key_successor(k, s)
            <4>1. nextTick # NoTick /\ Live(blocks) # {}
                BY <2>1 DEF NoTick
            <4>2. AppendKey(blocks, nextTick, p) = order_key_successor(k, s)
                BY <3>1, <4>1, Zenon DEF AppendKey
            <4> QED BY <2>2, <4>1, <4>2, Zenon DEF calc_order_key
        <3>6. KeyLess(k, n)
            BY <3>3, <3>4, <3>5, SuccessorIsAfter, Zenon
        <3>7. n \in Key
            BY <3>3, <3>4, <3>5, KeyPieces, Zenon DEF WithDigit
        <3>8. blocks[j].key = k \/ KeyLess(blocks[j].key, k)
            BY <3>1, <3>2, Zenon DEF SortsBefore
        <3>9. KeyLess(blocks[j].key, n)
            BY <3>4, <3>6, <3>7, <3>8, LessTransitive, Zenon
        <3>10. blocks'[j].key = blocks[j].key /\ blocks'[id].key = n
            BY <2>3, <2>6, Zenon DEF Live
        <3> QED BY <3>9, <3>10, Zenon DEF SortsBefore
    <2>9. id \in Live(blocks') /\ \A j \in Live(blocks') \ {id} : SortsBefore(blocks', j, id)
        BY <2>7, <2>8, Zenon
    <2>10. LastBlock(blocks') = id
        BY <2>1, <2>9, LastIs, Zenon
    <2> QED BY <2>2, <2>10, Zenon
<1>2. PlaceInv /\ PlaceInv' /\ [Next]_vars =>
        [\A p \in Principal : InsertBlock(p, NoBlock) => LastBlock(blocks') = NextId(p)]_vars
    BY <1>1, Zenon
<1> QED BY <1>2, InitPlaces, NextKeepsPlaces, PTL DEF Spec, AppendLandsLast
=============================================================================
