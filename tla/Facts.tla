-------------------------------- MODULE Facts --------------------------------
(***************************************************************************)
(* Facts about naturals, remainders and sequences that several proofs use: *)
(* least and greatest elements, the arithmetic of sequence numbers that    *)
(* wrap, and what Append and Tail do to the elements of a sequence.        *)
(***************************************************************************)
EXTENDS Integers, Sequences, FiniteSetTheorems, WellFoundedInduction, TLAPS

(* Every nonempty set of naturals has a least element. *)
LEMMA LeastNatural ==
  ASSUME NEW T \in SUBSET Nat, T # {}
  PROVE  \E x \in T : \A y \in T : x <= y
<1>1. PICK x \in T : \A y \in T : ~ (<<y, x>> \in OpToRel(<, Nat))
  <2>1. IsWellFoundedOn(OpToRel(<, Nat), Nat)
    BY NatLessThanWellFounded
  <2> QED
    BY <2>1, WFMin
<1>2. \A y \in T : ~(y < x)
  BY <1>1 DEF OpToRel
<1> QED
  <2>1. x \in Nat /\ \A y \in T : y \in Nat
    OBVIOUS
  <2>2. \A y \in T : x <= y
    BY <1>2, <2>1
  <2> QED BY <2>2

(* A nonempty set of naturals below a bound has a greatest element. *)
LEMMA GreatestNatural ==
  ASSUME NEW b \in Nat, NEW T \in SUBSET (0..b), T # {}
  PROVE  \E x \in T : \A y \in T : y <= x
<1> DEFINE U == {n \in 0..b : (b - n) \in T}
<1>1. U \in SUBSET Nat
  OBVIOUS
<1>2. U # {}
  <2>1. PICK t \in T : TRUE
    OBVIOUS
  <2>2. t \in 0..b /\ b - t \in 0..b /\ b - (b - t) = t
    OBVIOUS
  <2>3. b - t \in U
    BY <2>2
  <2> QED BY <2>3
<1>3. PICK u \in U : \A y \in U : u <= y
  <2> HIDE DEF U
  <2> QED BY <1>1, <1>2, LeastNatural
<1>4. b - u \in T
  BY <1>3
<1>5. ASSUME NEW y \in T PROVE y <= b - u
  <2>1. y \in 0..b /\ b - y \in 0..b /\ b - (b - y) = y
    OBVIOUS
  <2>2. b - y \in U
    BY <2>1
  <2> QED BY <2>1, <2>2, <1>3
<1> QED BY <1>4, <1>5

(* Quotient and remainder are unique. *)
LEMMA ModUnique ==
  ASSUME NEW m \in Nat \ {0}, NEW q \in Int, NEW r \in 0..(m - 1)
  PROVE  (m * q + r) % m = r
OBVIOUS

(* A remainder lies in 0..(m - 1) and differs by a multiple of m. *)
LEMMA ModSpec ==
  ASSUME NEW m \in Nat \ {0}, NEW a \in Int
  PROVE  /\ a % m \in 0..(m - 1)
         /\ a \div m \in Int
         /\ a = m * (a \div m) + (a % m)
OBVIOUS

(* A multiple of the modulus has remainder 0. *)
LEMMA ModZero ==
  ASSUME NEW m \in Nat \ {0}, NEW a \in Int, a % m = 0
  PROVE  \E c \in Int : a = m * c
<1>1. a \div m \in Int /\ a = m * (a \div m) + (a % m)
  BY ModSpec
<1>2. a = m * (a \div m)
  BY <1>1
<1> QED BY <1>1, <1>2

(* A remainder of a value less than one period away. *)
LEMMA ModNear ==
  ASSUME NEW m \in Nat \ {0}, NEW a \in Int, -m <= a, a < 2 * m
  PROVE  a % m = IF a < 0 THEN a + m ELSE IF a < m THEN a ELSE a - m
<1>1. CASE a < 0
  <2>1. a = m * (-1) + (a + m) /\ a + m \in 0..(m - 1)
    BY <1>1
  <2> QED BY <1>1, <2>1, ModUnique
<1>2. CASE 0 <= a /\ a < m
  <2>1. a = m * 0 + a /\ a \in 0..(m - 1)
    BY <1>2
  <2> QED BY <1>2, <2>1, ModUnique
<1>3. CASE m <= a
  <2>1. a = m * 1 + (a - m) /\ a - m \in 0..(m - 1)
    BY <1>3
  <2> QED BY <1>3, <2>1, ModUnique
<1> QED BY <1>1, <1>2, <1>3

(* Adding a multiple of the modulus changes nothing. *)
LEMMA ModShift ==
  ASSUME NEW m \in Nat \ {0}, NEW a \in Int, NEW c \in Int
  PROVE  (a + m * c) % m = a % m
<1>1. /\ a % m \in 0..(m - 1)
      /\ a \div m \in Int
      /\ a = m * (a \div m) + (a % m)
  BY ModSpec
<1> DEFINE q == a \div m
           r == a % m
<1>2. a + m * c = m * (q + c) + r
  <2>1. m * (q + c) = m * q + m * c
    BY <1>1
  <2> QED BY <1>1, <2>1
<1>3. q + c \in Int
  BY <1>1
<1> HIDE DEF q, r
<1>4. r \in 0..(m - 1)
  BY <1>1 DEF r
<1>5. (m * (q + c) + r) % m = r
  BY <1>3, <1>4, ModUnique
<1> QED BY <1>2, <1>5 DEF r

(* Two numbers less than m apart with the same remainder are equal. *)
LEMMA ModInjective ==
  ASSUME NEW m \in Nat \ {0}, NEW a \in Int, NEW b \in Int,
         a % m = b % m, a - b < m, b - a < m
  PROVE  a = b
<1>1. /\ a \div m \in Int /\ a = m * (a \div m) + (a % m) /\ a % m \in Int
      /\ b \div m \in Int /\ b = m * (b \div m) + (b % m) /\ b % m \in Int
  BY ModSpec
<1> DEFINE k == (a \div m) - (b \div m)
<1>2. k \in Int /\ a - b = m * k
  BY <1>1
<1>3. k = 0
  <2> HIDE DEF k
  <2>1. m * k < m /\ -m < m * k
    BY <1>2
  <2>2. ~(k >= 1)
    BY <1>2, <2>1
  <2>3. ~(k <= -1)
    BY <1>2, <2>1
  <2> QED BY <1>2, <2>2, <2>3
<1> QED BY <1>2, <1>3

(* Counting back from the successor of a number that wraps. *)
LEMMA ModBack ==
  ASSUME NEW m \in Nat \ {0}, NEW a \in 0..(m - 1),
         NEW b \in Int, b = (a + 1) % m
  PROVE  /\ b \in 0..(m - 1)
         /\ b % m = b
         /\ \A d \in Int : (b - (d + 1)) % m = (a - d) % m
<1> DEFINE s == a + 1
<1>1. b = IF a = m - 1 THEN 0 ELSE a + 1
  <2>1. s \in Int /\ -m <= s /\ s < 2 * m /\ ~(s < 0)
    OBVIOUS
  <2>2. b = s % m
    OBVIOUS
  <2>3. s < m <=> a # m - 1
    OBVIOUS
  <2>4. s - m = 0 <=> a = m - 1
    OBVIOUS
  <2> HIDE DEF s
  <2>5. s % m = IF s < 0 THEN s + m ELSE IF s < m THEN s ELSE s - m
    BY <2>1, ModNear
  <2>6. b = IF s < m THEN s ELSE s - m
    BY <2>1, <2>2, <2>5
  <2> QED BY <2>3, <2>4, <2>6 DEF s
<1>2. b \in 0..(m - 1)
  BY <1>1
<1>3. b % m = b
  <2>1. b \in Int /\ -m <= b /\ b < 2 * m /\ ~(b < 0) /\ b < m
    BY <1>2
  <2> QED BY <2>1, ModNear
<1>4. ASSUME NEW d \in Int PROVE (b - (d + 1)) % m = (a - d) % m
  <2> DEFINE e == a - d
  <2>1. e \in Int
    OBVIOUS
  <2>2. CASE a = m - 1
    <3>1. b - (d + 1) = e + m * (-1)
      BY <1>1, <2>2
    <3> HIDE DEF e
    <3>2. -1 \in Int
      OBVIOUS
    <3>3. (e + m * (-1)) % m = e % m
      BY <2>1, <3>2, ModShift
    <3> QED BY <3>1, <3>3 DEF e
  <2>3. CASE a # m - 1
    <3>1. b - (d + 1) = e
      BY <1>1, <2>3
    <3> QED BY <3>1
  <2> QED BY <2>2, <2>3
<1> QED BY <1>2, <1>3, <1>4

----------------------------------------------------------------------------

(* Sequences. *)
Has(s, x) == \E i \in 1..Len(s) : s[i] = x
NoRepeat(s) == \A i, j \in DOMAIN s : s[i] = s[j] => i = j

(* The elements of Append. *)
LEMMA HasAppend ==
  ASSUME NEW S, NEW s \in Seq(S), NEW e \in S
  PROVE  /\ Append(s, e) \in Seq(S) /\ Len(Append(s, e)) = Len(s) + 1
         /\ \A x : Has(Append(s, e), x) <=> Has(s, x) \/ x = e
         /\ (NoRepeat(s) /\ ~Has(s, e)) => NoRepeat(Append(s, e))
<1>1. /\ Len(Append(s, e)) = Len(s) + 1 /\ Len(s) \in Nat
      /\ \A i \in 1..Len(s) : Append(s, e)[i] = s[i]
      /\ Append(s, e)[Len(s) + 1] = e
      /\ DOMAIN s = 1..Len(s) /\ DOMAIN Append(s, e) = 1..(Len(s) + 1)
  OBVIOUS
<1>2. ASSUME NEW x PROVE Has(Append(s, e), x) <=> Has(s, x) \/ x = e
  <2>1. Has(s, x) => Has(Append(s, e), x)
    BY <1>1 DEF Has
  <2>2. x = e => Has(Append(s, e), x)
    BY <1>1 DEF Has
  <2>3. Has(Append(s, e), x) => Has(s, x) \/ x = e
    BY <1>1 DEF Has
  <2> QED BY <2>1, <2>2, <2>3
<1>3. ASSUME NoRepeat(s), ~Has(s, e) PROVE NoRepeat(Append(s, e))
  <2> SUFFICES ASSUME NEW i \in 1..(Len(s) + 1), NEW j \in 1..(Len(s) + 1),
                      Append(s, e)[i] = Append(s, e)[j]
               PROVE  i = j
    BY <1>1 DEF NoRepeat
  <2> QED BY <1>1, <1>3 DEF NoRepeat, Has
<1> QED BY <1>1, <1>2, <1>3

(* The elements of Tail. *)
LEMMA HasTail ==
  ASSUME NEW S, NEW s \in Seq(S), s # <<>>
  PROVE  /\ Head(s) \in S /\ Tail(s) \in Seq(S) /\ Has(s, Head(s))
         /\ \A x : Has(Tail(s), x) => Has(s, x)
         /\ \A x : Has(s, x) => Has(Tail(s), x) \/ x = Head(s)
         /\ NoRepeat(s) => NoRepeat(Tail(s)) /\ ~Has(Tail(s), Head(s))
<1>1. /\ Len(s) \in Nat \ {0} /\ Len(Tail(s)) = Len(s) - 1
      /\ DOMAIN s = 1..Len(s) /\ DOMAIN Tail(s) = 1..(Len(s) - 1)
      /\ \A i \in 1..(Len(s) - 1) : Tail(s)[i] = s[i + 1]
      /\ Head(s) = s[1] /\ Head(s) \in S /\ Tail(s) \in Seq(S)
  OBVIOUS
<1>2. Has(s, Head(s))
  BY <1>1 DEF Has
<1>3. ASSUME NEW x, Has(Tail(s), x) PROVE Has(s, x)
  BY <1>1, <1>3 DEF Has
<1>4. ASSUME NEW x, Has(s, x), x # Head(s) PROVE Has(Tail(s), x)
  <2>1. PICK i \in 1..Len(s) : s[i] = x
    BY <1>1, <1>4 DEF Has
  <2>2. i - 1 \in 1..(Len(s) - 1) /\ Tail(s)[i - 1] = x
    BY <1>1, <1>4, <2>1
  <2> QED BY <1>1, <2>2 DEF Has
<1>5. ASSUME NoRepeat(s) PROVE NoRepeat(Tail(s)) /\ ~Has(Tail(s), Head(s))
  <2>1. ASSUME NEW i \in 1..(Len(s) - 1)
        PROVE  /\ Tail(s)[i] = s[i + 1] /\ i + 1 \in DOMAIN s
               /\ 1 \in DOMAIN s /\ i + 1 # 1
    BY <1>1
  <2>2. ASSUME NEW i \in 1..(Len(s) - 1), NEW j \in 1..(Len(s) - 1), Tail(s)[i] = Tail(s)[j]
        PROVE  i = j
    <3>1. i + 1 = j + 1
      BY <1>5, <2>1, <2>2 DEF NoRepeat
    <3> QED BY <3>1
  <2>3. ASSUME NEW i \in 1..(Len(s) - 1) PROVE Tail(s)[i] # Head(s)
    BY <1>1, <1>5, <2>1 DEF NoRepeat
  <2> QED BY <1>1, <2>2, <2>3 DEF NoRepeat, Has
<1> QED BY <1>1, <1>2, <1>3, <1>4, <1>5

=============================================================================
