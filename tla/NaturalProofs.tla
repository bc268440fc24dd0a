---------------------------- MODULE NaturalProofs ----------------------------
(***************************************************************************)
(* Facts about natural numbers that the other proofs share: the maximum of *)
(* a finite set, which both ends of a stream take to tell how far a chunk  *)
(* reaches (extract_last_block), and induction, for the bytes of a number. *)
(***************************************************************************)
EXTENDS Integers, FiniteSetsExt, FiniteSetTheorems, TLAPS

\* A finite set of numbers that is not empty has a maximum.
LEMMA MaxFacts ==
    ASSUME NEW S \in SUBSET Nat, IsFiniteSet(S), S # {}
    PROVE  Max(S) \in S /\ \A s \in S : s <= Max(S)
<1> DEFINE HasMax(U) == \E x \in U : \A y \in U : x >= y
           F == FiniteSubsetsOf(Nat)
           T == {U \in F : U # {} /\ ~HasMax(U)}
           R == StrictSubsetOrdering(Nat)
<1>1. HasMax(S)
  <2>1. SUFFICES ASSUME ~HasMax(S)
                 PROVE  FALSE
    OBVIOUS
  <2>2. S \in T /\ T \subseteq F
    BY <2>1 DEF FiniteSubsetsOf
  <2>3. IsWellFoundedOn(R, F)
    BY FS_StrictSubsetOrderingWellFounded
  <2>4. PICK U \in T : \A V \in T : ~(<<V, U>> \in R)
    <3> HIDE DEF T, F, R
    <3> QED
      BY <2>2, <2>3, WFMin
  <2>5. U \in SUBSET Nat /\ IsFiniteSet(U) /\ U # {} /\ ~HasMax(U)
    BY DEF FiniteSubsetsOf
  <2>6. PICK x \in U : TRUE
    BY <2>5
  <2> DEFINE V == U \ {x}
  <2>7. V \in SUBSET Nat /\ IsFiniteSet(V) /\ V \in SUBSET U /\ V # U
    BY <2>5, <2>6, FS_RemoveElement
  <2>8. <<V, U>> \in R
    BY <2>5, <2>7 DEF StrictSubsetOrdering
  <2>9. V = {} \/ HasMax(V)
    BY <2>4, <2>7, <2>8 DEF FiniteSubsetsOf
  <2>10. CASE V = {}
    BY <2>5, <2>6, <2>10
  <2>11. CASE HasMax(V)
    <3>1. PICK m \in V : \A y \in V : m >= y
      BY <2>11
    <3>2. \A y \in U : y = x \/ y \in V
      OBVIOUS
    <3> QED
      BY <2>5, <2>6, <2>7, <3>1, <3>2
  <2> QED
    BY <2>9, <2>10, <2>11
<1>2. \A s \in S : s \in Nat
  OBVIOUS
<1> QED
  BY <1>1, <1>2 DEF Max

\* What holds of 0 and passes from n to n + 1 holds of every number.
LEMMA Induction ==
    ASSUME NEW S \in SUBSET Nat, 0 \in S, \A n \in S : n + 1 \in S
    PROVE  S = Nat
<1>1. SUFFICES ASSUME NEW x \in Nat, x \notin S
               PROVE  FALSE
  OBVIOUS
<1> DEFINE U == {y \in 0..x : y \in S}
<1>2. IsFiniteSet(0..x)
  BY FS_Interval
<1>3. IsFiniteSet(U)
  BY <1>2, FS_Subset
<1>4. U \in SUBSET Nat /\ U # {}
  OBVIOUS
<1>5. PICK m \in U : \A u \in U : u <= m
  <2> HIDE DEF U
  <2> QED
    BY <1>3, <1>4, MaxFacts
<1>6. m + 1 \in U
  BY <1>1, <1>5
<1> QED
  BY <1>5, <1>6

\* Division leaves a remainder smaller than the divisor.
LEMMA Division ==
    ASSUME NEW x \in Int, NEW d \in Nat, d > 0
    PROVE  \E q \in Int : \E r \in 0..(d - 1) : x \div d = q /\ x % d = r /\ x = d * q + r
<1>1. PICK q \in Int : q = x \div d
  OBVIOUS
<1>2. PICK r \in 0..(d - 1) : r = x % d
  OBVIOUS
<1>3. x % d = x - d * (x \div d)
  BY Z3
<1>4. r = x - d * q
  BY <1>1, <1>2, <1>3, Zenon
<1>5. x = d * q + r
  BY <1>4
<1> QED
  BY <1>1, <1>2, <1>5, Zenon

\* Nothing else is a quotient and a remainder.
LEMMA DivisionUnique ==
    ASSUME NEW x \in Int, NEW d \in Nat, d > 0,
           NEW q \in Int, NEW r \in 0..(d - 1), x = d * q + r
    PROVE  x \div d = q /\ x % d = r
<1>1. PICK p \in Int : \E s \in 0..(d - 1) : x \div d = p /\ x % d = s /\ x = d * p + s
  BY Division
<1>s. PICK s \in 0..(d - 1) : x \div d = p /\ x % d = s /\ x = d * p + s
  BY <1>1
<1>2. d * p + s = d * q + r
  BY <1>s, Zenon
<1>3. d * (p - q) = r - s
  BY <1>2
<1>4. p - q >= 1 => d * (p - q) >= d
  OBVIOUS
<1>5. p - q <= -1 => d * (p - q) <= -d
  OBVIOUS
<1>6. p = q
  BY <1>3, <1>4, <1>5
<1>7. r = s
  BY <1>2, <1>6
<1> QED
  BY <1>s, <1>6, <1>7, Zenon

\* Dividing by d and then by e is dividing by their product.
LEMMA DivisionTwice ==
    ASSUME NEW x \in Int, NEW d \in Nat, d > 0, NEW e \in Nat, e > 0
    PROVE  (x \div d) \div e = x \div (d * e)
<1>1. PICK p \in Int : \E s \in 0..(d - 1) : x \div d = p /\ x % d = s /\ x = d * p + s
  BY Division
<1>2. PICK s \in 0..(d - 1) : x \div d = p /\ x = d * p + s
  BY <1>1
<1>3. PICK q \in Int : \E t \in 0..(e - 1) : p \div e = q /\ p % e = t /\ p = e * q + t
  BY Division
<1>4. PICK t \in 0..(e - 1) : p \div e = q /\ p = e * q + t
  BY <1>3
<1>5. d * e \in Nat /\ d * e > 0
  OBVIOUS
<1>6. x = d * (e * q + t) + s
  BY <1>2, <1>4, Zenon
<1>7. x = (d * e) * q + (d * t + s)
  BY <1>6
<1>8. d * t <= d * (e - 1) /\ d * t >= 0
  OBVIOUS
<1>9. d * t + s \in 0..(d * e - 1)
  BY <1>5, <1>8
<1>10. x \div (d * e) = q
  <2> DEFINE f == d * e  r == d * t + s
  <2>1. f \in Nat /\ f > 0 /\ r \in 0..(f - 1) /\ x = f * q + r
    BY <1>5, <1>7, <1>9
  <2> HIDE DEF f, r
  <2>2. x \div f = q
    BY <2>1, DivisionUnique
  <2> QED
    BY <2>2 DEF f
<1> QED
  BY <1>2, <1>4, <1>10, Zenon
=============================================================================
