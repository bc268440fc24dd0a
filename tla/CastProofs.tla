------------------------------ MODULE CastProofs ------------------------------
(***************************************************************************)
(* The casts of src/cast/src/lib.rs, for every batch, map and number of    *)
(* calls.                                                                  *)
(***************************************************************************)
EXTENDS Cast, NaturalProofs

-----------------------------------------------------------------------------
\* Powers of the base.

IsTable(p, n) == p = [i \in 0..n |-> IF i = 0 THEN 1 ELSE p[i - 1] * Base]

\* The table of powers that Pow reads exists.
LEMMA TableExists == \A n \in Nat : \E p \in [0..n -> Nat] : IsTable(p, n)
<1> DEFINE S == {n \in Nat : \E p \in [0..n -> Nat] : IsTable(p, n)}
<1>1. 0 \in S
  <2> DEFINE p == [i \in 0..0 |-> 1]
  <2>1. p \in [0..0 -> Nat] /\ IsTable(p, 0)
    BY DEF IsTable
  <2> QED
    BY <2>1
<1>2. ASSUME NEW n \in S
      PROVE  n + 1 \in S
  <2>1. PICK p \in [0..n -> Nat] : IsTable(p, n)
    OBVIOUS
  <2> DEFINE q == [i \in 0..(n + 1) |-> IF i = n + 1 THEN p[n] * Base ELSE p[i]]
  <2>2. q \in [0..(n + 1) -> Nat]
    BY BaseAssumption
  <2>3. IsTable(q, n + 1)
    <3>1. \A i \in 0..n : p[i] = IF i = 0 THEN 1 ELSE p[i - 1] * Base
      BY <2>1 DEF IsTable
    <3>2. \A i \in 0..(n + 1) : q[i] = IF i = 0 THEN 1 ELSE q[i - 1] * Base
      BY <3>1
    <3> QED
      BY <2>2, <3>2 DEF IsTable
  <2> QED
    BY <2>2, <2>3
<1>3. S = Nat
  <2> HIDE DEF S
  <2>1. S \in SUBSET Nat
    BY DEF S
  <2> QED
    BY <1>1, <1>2, <2>1, Induction
<1> QED
  BY <1>3

\* Two tables agree where both are defined.
LEMMA TablesAgree ==
    ASSUME NEW m \in Nat, NEW n \in Nat, NEW p, NEW q, IsTable(p, m), IsTable(q, n)
    PROVE  \A i \in Nat : i <= m /\ i <= n => p[i] = q[i]
<1> DEFINE S == {i \in Nat : i <= m /\ i <= n => p[i] = q[i]}
<1>1. \A i \in 0..m : p[i] = IF i = 0 THEN 1 ELSE p[i - 1] * Base
  BY DEF IsTable
<1>2. \A i \in 0..n : q[i] = IF i = 0 THEN 1 ELSE q[i - 1] * Base
  BY DEF IsTable
<1>3. 0 \in S
  BY <1>1, <1>2
<1>4. ASSUME NEW i \in S
      PROVE  i + 1 \in S
  BY <1>1, <1>2
<1>5. S = Nat
  <2>1. S \in SUBSET Nat
    OBVIOUS
  <2> HIDE DEF S
  <2> QED
    BY <1>3, <1>4, <2>1, Induction
<1> QED
  BY <1>5

\* Pow(n) is the last entry of a table.
LEMMA PowTable ==
    ASSUME NEW n \in Nat
    PROVE  \E p \in [0..n -> Nat] : IsTable(p, n) /\ Pow(n) = p[n]
<1> DEFINE q == CHOOSE p : IsTable(p, n)
<1>1. PICK p \in [0..n -> Nat] : IsTable(p, n)
  BY TableExists
<1>2. IsTable(q, n)
  BY <1>1
<1>3. Pow(n) = q[n]
  BY DEF Pow, IsTable
<1>4. p[n] = q[n]
  <2> HIDE DEF q
  <2> QED
    BY <1>1, <1>2, TablesAgree
<1> QED
  BY <1>1, <1>3, <1>4

\* The equations of Pow.
LEMMA PowZero == Pow(0) = 1
<1>1. PICK p \in [0..0 -> Nat] : IsTable(p, 0) /\ Pow(0) = p[0]
  BY PowTable
<1> QED
  BY <1>1 DEF IsTable

\* One more byte multiplies by the base.
LEMMA PowStep == \A n \in Nat : Pow(n + 1) = Pow(n) * Base
<1> TAKE n \in Nat
<1>1. PICK p \in [0..n -> Nat] : IsTable(p, n) /\ Pow(n) = p[n]
  BY PowTable
<1>m. PICK m \in Nat : m = n + 1
  OBVIOUS
<1>2. PICK q \in [0..m -> Nat] : IsTable(q, m) /\ Pow(m) = q[m]
  BY PowTable
<1>3. p[n] = q[n]
  BY <1>1, <1>2, <1>m, TablesAgree
<1>4. \A i \in 0..m : q[i] = IF i = 0 THEN 1 ELSE q[i - 1] * Base
  BY <1>2 DEF IsTable
<1>5. q[m] = q[n] * Base
  BY <1>4, <1>m
<1> QED
  BY <1>1, <1>2, <1>3, <1>5, <1>m

\* Powers are positive, and grow.
LEMMA PowPositive == \A n \in Nat : Pow(n) \in Nat /\ Pow(n) > 0
<1> DEFINE S == {n \in Nat : Pow(n) \in Nat /\ Pow(n) > 0}
<1>1. 0 \in S
  BY PowZero
<1>2. ASSUME NEW n \in S
      PROVE  n + 1 \in S
  <2>1. Pow(n + 1) = Pow(n) * Base
    BY PowStep
  <2>2. Base \in Nat /\ Base > 0
    BY BaseAssumption
  <2> QED
    BY <2>1, <2>2
<1>3. S = Nat
  <2>1. S \in SUBSET Nat
    OBVIOUS
  <2> HIDE DEF S
  <2> QED
    BY <1>1, <1>2, <2>1, Induction
<1> QED
  BY <1>3

\* A longer word holds what a shorter one does.
LEMMA PowMonotone ==
    ASSUME NEW m \in Nat
    PROVE  \A k \in Nat : Pow(m) <= Pow(m + k)
<1> DEFINE S == {k \in Nat : Pow(m) <= Pow(m + k)}
<1>1. 0 \in S
  BY PowPositive
<1>2. ASSUME NEW k \in S
      PROVE  k + 1 \in S
  <2>1. Pow((m + k) + 1) = Pow(m + k) * Base
    BY PowStep
  <2>2. Base \in Nat /\ Base > 0
    BY BaseAssumption
  <2>3. Pow(m) \in Nat /\ Pow(m + k) \in Nat
    BY PowPositive
  <2>4. Pow(m + k) <= Pow(m + k) * Base
    BY <2>2, <2>3
  <2>5. Pow(m + (k + 1)) = Pow((m + k) + 1)
    <3>1. m + (k + 1) = (m + k) + 1
      OBVIOUS
    <3> QED
      BY <3>1, Zenon
  <2>6. Pow(m) <= Pow(m + k)
    OBVIOUS
  <2>7. Pow(m) <= Pow(m + k) * Base
    BY <2>2, <2>3, <2>4, <2>6
  <2>8. Pow(m) <= Pow(m + (k + 1))
    BY <2>1, <2>5, <2>7, Zenon
  <2> QED
    BY <2>8
<1>3. S = Nat
  <2>1. S \in SUBSET Nat
    OBVIOUS
  <2> HIDE DEF S
  <2> QED
    BY <1>1, <1>2, <2>1, Induction
<1> QED
  BY <1>3

-----------------------------------------------------------------------------
\* Bytes and the number they spell.

IsSum(u, b, n) == u = [i \in 0..n |-> IF i = 0 THEN 0 ELSE u[i - 1] * Base + b[i]]

\* The sums of the first bytes that Unsigned reads exist.
LEMMA SumExists ==
    ASSUME NEW b \in Seq(Byte)
    PROVE  \A n \in Nat : n <= Len(b) => \E u \in [0..n -> Nat] : IsSum(u, b, n)
<1> DEFINE S == {n \in Nat : n <= Len(b) => \E u \in [0..n -> Nat] : IsSum(u, b, n)}
<1>1. 0 \in S
  <2> DEFINE u == [i \in 0..0 |-> 0]
  <2>1. u \in [0..0 -> Nat] /\ IsSum(u, b, 0)
    BY DEF IsSum
  <2> QED
    BY <2>1
<1>2. ASSUME NEW n \in S
      PROVE  n + 1 \in S
  <2>1. SUFFICES ASSUME n + 1 <= Len(b)
                 PROVE  \E u \in [0..(n + 1) -> Nat] : IsSum(u, b, n + 1)
    OBVIOUS
  <2>2. PICK u \in [0..n -> Nat] : IsSum(u, b, n)
    BY <2>1
  <2>3. b[n + 1] \in Nat
    BY <2>1, BaseAssumption DEF Byte
  <2>x. PICK x \in Nat : x = u[n] * Base + b[n + 1]
    <3>1. PICK y \in Nat : y = u[n] * Base
      BY BaseAssumption
    <3>2. PICK z \in Nat : z = b[n + 1]
      BY <2>3
    <3>3. y + z \in Nat
      OBVIOUS
    <3> QED
      BY <3>1, <3>2, <3>3
  <2> DEFINE q == [i \in 0..(n + 1) |-> IF i = n + 1 THEN x ELSE u[i]]
  <2>4. q \in [0..(n + 1) -> Nat]
    OBVIOUS
  <2>5. \A i \in 0..n : u[i] = IF i = 0 THEN 0 ELSE u[i - 1] * Base + b[i]
    BY <2>2 DEF IsSum
  <2>6. ASSUME NEW i \in 0..(n + 1)
        PROVE  q[i] = IF i = 0 THEN 0 ELSE q[i - 1] * Base + b[i]
    <3>1. CASE i = n + 1
      BY <2>x, <3>1
    <3>2. CASE i \in 0..n
      BY <2>5, <3>2
    <3> QED
      BY <3>1, <3>2
  <2> QED
    BY <2>4, <2>6 DEF IsSum
<1>3. S = Nat
  <2>1. S \in SUBSET Nat
    OBVIOUS
  <2> HIDE DEF S
  <2> QED
    BY <1>1, <1>2, <2>1, Induction
<1> QED
  BY <1>3

\* Unsigned is the last of the sums.
LEMMA UnsignedSum ==
    ASSUME NEW b \in Seq(Byte)
    PROVE  \E u \in [0..Len(b) -> Int] :
              /\ Unsigned(b) = u[Len(b)]
              /\ u[0] = 0
              /\ \A i \in 1..Len(b) : u[i] = u[i - 1] * Base + b[i] /\ u[i - 1] \in Nat /\ u[i] \in Nat
<1>1. PICK u \in [0..Len(b) -> Nat] : IsSum(u, b, Len(b))
  BY SumExists
<1> DEFINE q == CHOOSE u1 : IsSum(u1, b, Len(b))
<1>2. IsSum(q, b, Len(b))
  BY <1>1
<1>3. Unsigned(b) = q[Len(b)]
  BY DEF Unsigned, IsSum
<1>4. \A i \in 0..Len(b) : u[i] = IF i = 0 THEN 0 ELSE u[i - 1] * Base + b[i]
  BY <1>1 DEF IsSum
<1>5. \A i \in 0..Len(b) : q[i] = IF i = 0 THEN 0 ELSE q[i - 1] * Base + b[i]
  <2> HIDE DEF q
  <2> QED
    BY <1>2 DEF IsSum
<1> HIDE DEF q
<1> DEFINE S == {i \in Nat : i <= Len(b) => u[i] = q[i]}
<1>6. 0 \in S
  BY <1>4, <1>5
<1>7. ASSUME NEW i \in S
      PROVE  i + 1 \in S
  BY <1>4, <1>5
<1>8. S = Nat
  <2>1. S \in SUBSET Nat
    OBVIOUS
  <2> HIDE DEF S
  <2> QED
    BY <1>6, <1>7, <2>1, Induction
<1>9. u[Len(b)] = q[Len(b)]
  BY <1>8
<1>10. ASSUME NEW i \in 1..Len(b)
       PROVE  u[i] = u[i - 1] * Base + b[i] /\ u[i - 1] \in Nat /\ u[i] \in Nat
  <2>1. i \in 0..Len(b) /\ i - 1 \in 0..Len(b) /\ i # 0
    OBVIOUS
  <2>2. u[i] = u[i - 1] * Base + b[i]
    BY <1>4, <2>1
  <2> QED
    BY <2>1, <2>2
<1>11. u[0] = 0
  BY <1>4
<1>12. u \in [0..Len(b) -> Int]
  OBVIOUS
<1> QED
  BY <1>3, <1>9, <1>10, <1>11, <1>12

\* Appending a digit d to a, and what is below it.
LEMMA Shift ==
    ASSUME NEW a \in Nat, NEW d \in Nat, NEW B \in Nat, NEW P \in Nat, NEW r \in Nat,
           d < B, r < P
    PROVE  \E s \in Nat : s < P * B /\ (a * B + d) * P + r = a * (P * B) + s
<1>1. (a * B + d) * P + r = a * (P * B) + (d * P + r)
  OBVIOUS
<1>2. d * P \in Nat
  OBVIOUS
<1>3. d * P <= (B - 1) * P
  OBVIOUS
<1>4. (B - 1) * P + P = P * B
  OBVIOUS
<1>5. (B - 1) * P \in Int /\ P * B \in Int
  OBVIOUS
<1>6. d * P + r < P * B
  BY <1>2, <1>3, <1>4, <1>5
<1> QED
  BY <1>1, <1>2, <1>6

\* The number that bytes spell is below the power of their count, and its
\* digits are the bytes.
LEMMA Digits ==
    ASSUME NEW b \in Seq(Byte)
    PROVE  /\ Unsigned(b) \in Nat
           /\ Unsigned(b) < Pow(Len(b))
           /\ \A k \in Nat : k < Len(b) => b[Len(b) - k] = (Unsigned(b) \div Pow(k)) % Base
<1>1. PICK u \in [0..Len(b) -> Int] :
          /\ Unsigned(b) = u[Len(b)]
          /\ u[0] = 0
          /\ \A i \in 1..Len(b) : u[i] = u[i - 1] * Base + b[i] /\ u[i - 1] \in Nat /\ u[i] \in Nat
  BY UnsignedSum
<1>2. PICK L \in Nat : L = Len(b)
  OBVIOUS
<1>3. PICK U : U = Unsigned(b)
  OBVIOUS
<1>4. Base \in Nat /\ Base > 0
  BY BaseAssumption
<1>5. \A i \in 1..L : b[i] \in Nat /\ b[i] < Base
  BY <1>2, <1>4 DEF Byte
<1>6. U \in Nat
  BY <1>1, <1>2, <1>3
<1> DEFINE S == {k \in Nat : k <= L => \E r \in Nat : r < Pow(k) /\ U = u[L - k] * Pow(k) + r}
<1>7. 0 \in S
  <2>1. U = u[L - 0] * Pow(0) + 0 /\ 0 < Pow(0)
    BY <1>1, <1>2, <1>3, <1>6, PowZero
  <2> QED
    BY <2>1
<1>8. ASSUME NEW k \in S
      PROVE  k + 1 \in S
  <2>1. SUFFICES ASSUME k + 1 <= L
                 PROVE  \E r \in Nat : r < Pow(k + 1) /\ U = u[L - (k + 1)] * Pow(k + 1) + r
    OBVIOUS
  <2>2. PICK r \in Nat : r < Pow(k) /\ U = u[L - k] * Pow(k) + r
    BY <2>1
  <2>3. PICK j \in 1..L : j = L - k /\ j - 1 = L - (k + 1)
    BY <2>1
  <2>4. PICK P \in Nat : P = Pow(k)
    BY PowPositive
  <2>5. PICK a \in Nat : a = u[j - 1] /\ u[j] = a * Base + b[j]
    BY <1>1, <1>2
  <2>6. PICK d \in Nat : d = b[j] /\ d < Base
    BY <1>5
  <2>7. U = (a * Base + d) * P + r /\ r < P
    BY <2>2, <2>3, <2>4, <2>5, <2>6, Zenon
  <2>8. PICK s \in Nat : s < P * Base /\ (a * Base + d) * P + r = a * (P * Base) + s
    <3> HIDE DEF S
    <3>1. Base \in Nat /\ d < Base /\ r < P
      BY <1>4, <2>6, <2>7
    <3> QED
      BY <3>1, Shift
  <2>9. Pow(k + 1) = P * Base
    BY <2>4, PowStep
  <2>10. U = u[L - (k + 1)] * Pow(k + 1) + s /\ s < Pow(k + 1)
    BY <2>3, <2>5, <2>7, <2>8, <2>9, Zenon
  <2> QED
    BY <2>8, <2>10, Zenon
<1>9. S = Nat
  <2>1. S \in SUBSET Nat
    OBVIOUS
  <2> HIDE DEF S
  <2> QED
    BY <1>7, <1>8, <2>1, Induction
<1>10. U < Pow(L)
  <2>1. PICK r \in Nat : r < Pow(L) /\ U = u[L - L] * Pow(L) + r
    BY <1>9
  <2>2. u[L - L] = 0
    BY <1>1
  <2>3. Pow(L) \in Nat
    BY PowPositive
  <2> QED
    BY <2>1, <2>2, <2>3
<1>11. ASSUME NEW k \in Nat, k < L
       PROVE  b[L - k] = (U \div Pow(k)) % Base
  <2>1. PICK r \in Nat : r < Pow(k) /\ U = u[L - k] * Pow(k) + r
    BY <1>9, <1>11
  <2>2. PICK j \in 1..L : j = L - k
    BY <1>11
  <2>3. PICK P \in Nat : P = Pow(k) /\ P > 0
    BY PowPositive
  <2>4. PICK a \in Nat : a = u[j - 1] /\ u[j] = a * Base + b[j]
    BY <1>1, <1>2
  <2>5. PICK d \in Nat : d = b[j] /\ d < Base
    BY <1>5
  <2>6. PICK v \in Nat : v = u[j]
    BY <1>1, <1>2
  <2>7. U = P * v + r /\ r \in 0..(P - 1)
    <3>1. U = v * P + r
      BY <2>1, <2>2, <2>3, <2>6, Zenon
    <3>2. r < P
      BY <2>1, <2>3, Zenon
    <3>3. v * P = P * v
      OBVIOUS
    <3> QED
      BY <3>1, <3>2, <3>3
  <2>8. U \div P = v
    <3>1. U \in Int /\ v \in Int
      BY <1>6
    <3> QED
      BY <2>3, <2>7, <3>1, DivisionUnique, Zenon
  <2>9. v = Base * a + d /\ d \in 0..(Base - 1)
    <3>1. v = a * Base + d
      BY <2>4, <2>5, <2>6, Zenon
    <3>2. a * Base = Base * a
      BY <1>4
    <3> QED
      BY <1>4, <2>5, <3>1, <3>2
  <2>10. v % Base = d
    BY <1>4, <2>9, DivisionUnique
  <2> QED
    BY <2>2, <2>3, <2>5, <2>8, <2>10, Zenon
<1> QED
  BY <1>2, <1>3, <1>6, <1>10, <1>11

\* to_be_bytes: `size` bytes, which spell v in two's complement.
LEMMA BeBytesFacts ==
    ASSUME NEW v \in Int, NEW n \in Nat
    PROVE  /\ BeBytes(v, n) \in Seq(Byte)
           /\ Len(BeBytes(v, n)) = n
           /\ Unsigned(BeBytes(v, n)) = v % Pow(n)
<1>1. Base \in Nat /\ Base > 0
  BY BaseAssumption
<1>2. PICK M \in Nat : M = Pow(n) /\ M > 0
  BY PowPositive
<1>3. PICK x \in 0..(M - 1) : x = v % M
  BY <1>2
<1>4. x \in Int /\ x \in Nat
  OBVIOUS
<1>5. PICK b : b = BeBytes(v, n)
  OBVIOUS
<1>6. b = [i \in 1..n |-> (x \div Pow(n - i)) % Base]
  BY <1>2, <1>3, <1>5 DEF BeBytes
<1>7. ASSUME NEW i \in 1..n
      PROVE  (x \div Pow(n - i)) % Base \in Byte
  <2>1. PICK P \in Nat : P = Pow(n - i) /\ P > 0
    BY PowPositive
  <2>2. PICK y \in Int : y = x \div P
    BY <2>1
  <2>3. y % Base \in Byte
    BY <1>1 DEF Byte
  <2> QED
    BY <2>1, <2>2, <2>3, Zenon
<1>8. b \in [1..n -> Byte]
  BY <1>6, <1>7
<1>9. b \in Seq(Byte) /\ Len(b) = n
  BY <1>8
<1>10. PICK u \in [0..n -> Int] :
          /\ Unsigned(b) = u[n]
          /\ u[0] = 0
          /\ \A i \in 1..n : u[i] = u[i - 1] * Base + b[i] /\ u[i - 1] \in Nat /\ u[i] \in Nat
  BY <1>9, UnsignedSum
<1> DEFINE S == {i \in Nat : i <= n => u[i] = x \div Pow(n - i)}
<1>11. 0 \in S
  <2>1. x \div M = 0
    <3>1. x = M * 0 + x
      BY <1>2, <1>4
    <3> QED
      BY <1>2, <1>4, <3>1, DivisionUnique
  <2> QED
    BY <1>2, <1>10, <2>1
<1>12. ASSUME NEW i \in S
       PROVE  i + 1 \in S
  <2>1. SUFFICES ASSUME i + 1 <= n
                 PROVE  u[i + 1] = x \div Pow(n - (i + 1))
    OBVIOUS
  <2>2. PICK k \in Nat : k = n - (i + 1) /\ k + 1 = n - i
    BY <2>1
  <2>3. PICK j \in 1..n : j = i + 1 /\ j - 1 = i /\ n - j = k
    BY <2>1, <2>2
  <2>4. PICK P \in Nat : P = Pow(k) /\ P > 0
    BY PowPositive
  <2>5. Pow(k + 1) = P * Base
    BY <2>4, PowStep
  <2>6. PICK y \in Int : y = x \div P
    BY <1>4, <2>4
  <2>7. PICK q \in Int : \E r \in 0..(Base - 1) : y \div Base = q /\ y % Base = r /\ y = Base * q + r
    BY <1>1, Division
  <2>8. PICK r \in 0..(Base - 1) : y \div Base = q /\ y % Base = r /\ y = Base * q + r
    BY <2>7
  <2>9. (x \div P) \div Base = x \div (P * Base)
    BY <1>1, <1>4, <2>4, DivisionTwice, Zenon
  <2>10. u[i] = q
    <3>1. u[i] = x \div Pow(n - i)
      BY <2>1
    <3> QED
      BY <2>2, <2>5, <2>6, <2>8, <2>9, <3>1, Zenon
  <2>11. b[j] = r
    <3>1. b[j] = (x \div Pow(n - j)) % Base
      BY <1>6
    <3> QED
      BY <2>3, <2>4, <2>6, <2>8, <3>1, Zenon
  <2>12. u[j] = u[j - 1] * Base + b[j]
    BY <1>10
  <2>13. u[j] = q * Base + r
    BY <2>3, <2>10, <2>11, <2>12, Zenon
  <2>14. q * Base + r = Base * q + r
    BY <1>1
  <2>15. u[j] = y
    BY <2>8, <2>13, <2>14, Zenon
  <2> QED
    BY <2>2, <2>3, <2>4, <2>6, <2>15, Zenon
<1>13. S = Nat
  <2>1. S \in SUBSET Nat
    OBVIOUS
  <2> HIDE DEF S
  <2> QED
    BY <1>11, <1>12, <2>1, Induction
<1>14. u[n] = x
  <2>1. u[n] = x \div Pow(n - n)
    BY <1>13
  <2>2. Pow(n - n) = 1
    BY PowZero
  <2>3. x \div 1 = x
    BY <1>4
  <2> QED
    BY <2>1, <2>2, <2>3
<1> QED
  BY <1>2, <1>3, <1>5, <1>9, <1>10, <1>14, Zenon

\* The leading zeros are counted.
LEMMA LeadingZerosFacts ==
    ASSUME NEW b \in Seq(Byte)
    PROVE  /\ LeadingZeros(b) \in 0..Len(b)
           /\ \A j \in 1..LeadingZeros(b) : b[j] = 0
           /\ LeadingZeros(b) = Len(b) \/ b[LeadingZeros(b) + 1] # 0
<1> DEFINE S == {k \in 0..Len(b) : \A j \in 1..k : b[j] = 0}
<1>1. S \in SUBSET Nat /\ 0 \in S
  OBVIOUS
<1>2. IsFiniteSet(S)
  <2>1. IsFiniteSet(0..Len(b))
    BY FS_Interval
  <2> QED
    BY <2>1, FS_Subset
<1>3. PICK m \in S : \A k \in S : k <= m
  <2> HIDE DEF S
  <2> QED
    BY <1>1, <1>2, MaxFacts
<1>4. m = Len(b) \/ b[m + 1] # 0
  <2>1. SUFFICES ASSUME m # Len(b), b[m + 1] = 0
                 PROVE  FALSE
    OBVIOUS
  <2>2. m + 1 \in S
    BY <2>1
  <2> QED
    BY <1>3, <2>2
<1>5. \E k \in 0..Len(b) : (\A j \in 1..k : b[j] = 0) /\ (k = Len(b) \/ b[k + 1] # 0)
  BY <1>3, <1>4
<1> QED
  BY <1>5 DEF LeadingZeros

\* What is left of bytes without their leading zeros.
LEMMA TrimmedFacts ==
    ASSUME NEW b \in Seq(Byte)
    PROVE  /\ Trimmed(b) \in Seq(Byte)
           /\ Len(Trimmed(b)) = Len(b) - LeadingZeros(b)
           /\ \A i \in 1..(Len(b) - LeadingZeros(b)) : Trimmed(b)[i] = b[LeadingZeros(b) + i]
<1>1. PICK k \in 0..Len(b) : k = LeadingZeros(b)
  BY LeadingZerosFacts
<1>2. PICK m \in Nat : m = Len(b) - k
  BY <1>1
<1>3. PICK t : t = [i \in 1..m |-> b[k + i]]
  OBVIOUS
<1>4. Trimmed(b) = t
  BY <1>1, <1>2, <1>3 DEF Trimmed
<1>5. \A i \in 1..m : k + i \in 1..Len(b)
  BY <1>2
<1>6. t \in [1..m -> Byte]
  BY <1>3, <1>5
<1>7. t \in Seq(Byte) /\ Len(t) = m
  BY <1>6
<1> QED
  BY <1>1, <1>2, <1>3, <1>4, <1>7

\* Zeros in front of bytes do not count.
LEMMA TrimPadded ==
    ASSUME NEW a \in Seq(Byte), NEW b \in Seq(Byte), NEW m \in Nat, Len(a) = Len(b) + m,
           \A i \in 1..m : a[i] = 0,
           \A i \in 1..Len(b) : a[m + i] = b[i]
    PROVE  Trimmed(a) = Trimmed(b)
<1>1. PICK k \in 0..Len(a) : k = LeadingZeros(a)
  BY LeadingZerosFacts
<1>2. PICK l \in 0..Len(b) : l = LeadingZeros(b)
  BY LeadingZerosFacts
<1>3. (\A j \in 1..k : a[j] = 0) /\ (k = Len(a) \/ a[k + 1] # 0)
  BY <1>1, LeadingZerosFacts
<1>4. (\A j \in 1..l : b[j] = 0) /\ (l = Len(b) \/ b[l + 1] # 0)
  BY <1>2, LeadingZerosFacts
<1>5. k >= l + m
  <2>1. SUFFICES ASSUME k < l + m
                 PROVE  FALSE
    OBVIOUS
  <2>2. k + 1 \in 1..Len(a) /\ a[k + 1] # 0
    BY <1>3, <2>1
  <2>3. CASE k + 1 \in 1..m
    BY <2>2, <2>3
  <2>4. CASE k + 1 > m
    <3>1. PICK i \in 1..l : k + 1 = m + i
      BY <2>1, <2>4
    <3>2. a[m + i] = b[i] /\ b[i] = 0
      BY <1>4
    <3> QED
      BY <2>2, <3>1, <3>2
  <2> QED
    BY <2>3, <2>4
<1>6. k <= l + m
  <2>1. SUFFICES ASSUME k > l + m
                 PROVE  FALSE
    OBVIOUS
  <2>2. l + 1 \in 1..Len(b) /\ b[l + 1] # 0
    BY <1>4, <2>1
  <2>3. a[m + (l + 1)] = b[l + 1]
    BY <2>2
  <2>4. m + (l + 1) \in 1..k
    BY <2>1
  <2>5. a[m + (l + 1)] = 0
    BY <1>3, <2>4
  <2> QED
    BY <2>2, <2>3, <2>5
<1>7. k = l + m
  BY <1>5, <1>6
<1>8. Len(a) - k = Len(b) - l
  BY <1>7
<1>9. \A i \in 1..(Len(b) - l) : a[k + i] = b[l + i]
  <2> TAKE i \in 1..(Len(b) - l)
  <2>1. l + i \in 1..Len(b) /\ k + i = m + (l + i)
    BY <1>7
  <2>2. a[m + (l + i)] = b[l + i]
    BY <2>1
  <2> QED
    BY <2>1, <2>2
<1> QED
  BY <1>1, <1>2, <1>8, <1>9 DEF Trimmed

\* Bytes that spell a number, padded by m more that spell it too.
LEMMA SameNumberLonger ==
    ASSUME NEW a \in Seq(Byte), NEW b \in Seq(Byte), Unsigned(a) = Unsigned(b), Len(a) >= Len(b)
    PROVE  Trimmed(a) = Trimmed(b)
<1>1. PICK U \in Nat : U = Unsigned(a) /\ U = Unsigned(b) /\ U < Pow(Len(b))
  BY Digits
<1>2. PICK m \in Nat : Len(a) = Len(b) + m
  <2>1. Len(a) - Len(b) \in Nat /\ Len(a) = Len(b) + (Len(a) - Len(b))
    OBVIOUS
  <2> QED
    BY <2>1
<1>3. Base \in Nat /\ Base > 0
  BY BaseAssumption
<1>4. ASSUME NEW i \in 1..m
      PROVE  a[i] = 0
  <2>1. PICK k \in Nat : Len(a) - k = i /\ k < Len(a) /\ k >= Len(b)
    <3>1. Len(a) - i \in Nat /\ Len(a) - (Len(a) - i) = i /\ Len(a) - i < Len(a)
          /\ Len(a) - i >= Len(b)
      BY <1>2
    <3> QED
      BY <3>1
  <2>2. a[i] = (U \div Pow(k)) % Base
    BY <1>1, <2>1, Digits
  <2>3. PICK P \in Nat : P = Pow(k) /\ U < P
    <3>1. PICK j \in Nat : k = Len(b) + j
      <4>1. k - Len(b) \in Nat /\ k = Len(b) + (k - Len(b))
        BY <2>1
      <4> QED
        BY <4>1
    <3>2. Pow(Len(b)) <= Pow(Len(b) + j)
      BY PowMonotone
    <3>3. Pow(Len(b)) \in Nat /\ Pow(k) \in Nat
      BY PowPositive
    <3>4. Pow(Len(b)) <= Pow(k)
      BY <3>1, <3>2, Zenon
    <3> QED
      BY <1>1, <3>3, <3>4
  <2>4. U \div P = 0
    <3>1. U = P * 0 + U /\ P > 0 /\ U \in 0..(P - 1)
      BY <2>3
    <3> QED
      BY <3>1, DivisionUnique
  <2>5. 0 % Base = 0
    BY <1>3
  <2> QED
    BY <2>2, <2>3, <2>4, <2>5, Zenon
<1>5. ASSUME NEW i \in 1..Len(b)
      PROVE  a[m + i] = b[i]
  <2>1. PICK k \in Nat : Len(b) - k = i /\ k < Len(b) /\ Len(a) - k = m + i /\ k < Len(a)
    <3>1. Len(b) - i \in Nat /\ Len(b) - (Len(b) - i) = i /\ Len(b) - i < Len(b)
          /\ Len(a) - (Len(b) - i) = m + i /\ Len(b) - i < Len(a)
      BY <1>2
    <3> QED
      BY <3>1
  <2>2. a[Len(a) - k] = (U \div Pow(k)) % Base
    BY <1>1, <2>1, Digits
  <2>3. b[Len(b) - k] = (U \div Pow(k)) % Base
    BY <1>1, <2>1, Digits
  <2> QED
    BY <2>1, <2>2, <2>3, Zenon
<1> QED
  BY <1>2, <1>4, <1>5, TrimPadded

\* Bytes that spell the same number differ in their leading zeros at most.
LEMMA SameNumber ==
    ASSUME NEW a \in Seq(Byte), NEW b \in Seq(Byte), Unsigned(a) = Unsigned(b)
    PROVE  Trimmed(a) = Trimmed(b)
<1>1. CASE Len(a) >= Len(b)
  BY <1>1, SameNumberLonger
<1>2. CASE Len(b) >= Len(a)
  BY <1>2, SameNumberLonger
<1> QED
  BY <1>1, <1>2

\* Trimming keeps the number, and trimming again changes nothing.
LEMMA TrimmedNumber ==
    ASSUME NEW b \in Seq(Byte)
    PROVE  Unsigned(Trimmed(b)) = Unsigned(b) /\ Trimmed(Trimmed(b)) = Trimmed(b)
<1>1. PICK k \in 0..Len(b) : k = LeadingZeros(b) /\ \A j \in 1..k : b[j] = 0
  BY LeadingZerosFacts
<1>2. PICK m \in Nat : m = Len(b) - k
  BY <1>1
<1>3. PICK t \in Seq(Byte) : t = Trimmed(b) /\ Len(t) = m /\ \A i \in 1..m : t[i] = b[k + i]
  BY <1>1, <1>2, TrimmedFacts
<1>4. PICK u \in [0..Len(b) -> Int] :
          /\ Unsigned(b) = u[Len(b)]
          /\ u[0] = 0
          /\ \A i \in 1..Len(b) : u[i] = u[i - 1] * Base + b[i] /\ u[i - 1] \in Nat /\ u[i] \in Nat
  BY UnsignedSum
<1>5. PICK w \in [0..m -> Int] :
          /\ Unsigned(t) = w[m]
          /\ w[0] = 0
          /\ \A i \in 1..m : w[i] = w[i - 1] * Base + t[i] /\ w[i - 1] \in Nat /\ w[i] \in Nat
  BY <1>3, UnsignedSum
<1>6. Base \in Nat
  BY BaseAssumption
<1> DEFINE S == {i \in Nat : i <= k => u[i] = 0}
           T == {i \in Nat : i <= m => u[k + i] = w[i]}
<1>7. S = Nat
  <2>1. 0 \in S
    BY <1>4
  <2>2. ASSUME NEW i \in S
        PROVE  i + 1 \in S
    <3>1. SUFFICES ASSUME i + 1 <= k
                   PROVE  u[i + 1] = 0
      OBVIOUS
    <3>2. PICK j \in 1..k : j = i + 1 /\ j - 1 = i /\ j \in 1..Len(b)
      BY <3>1
    <3>3. u[j] = u[j - 1] * Base + b[j]
      BY <1>4, <3>2
    <3>4. u[j - 1] = 0 /\ b[j] = 0
      BY <1>1, <3>1, <3>2
    <3> QED
      BY <1>6, <3>2, <3>3, <3>4
  <2>3. S \in SUBSET Nat
    OBVIOUS
  <2> HIDE DEF S
  <2> QED
    BY <2>1, <2>2, <2>3, Induction
<1>8. T = Nat
  <2>1. 0 \in T
    <3>1. u[k] = 0
      BY <1>7
    <3>2. k + 0 = k
      OBVIOUS
    <3> QED
      BY <1>5, <3>1, <3>2
  <2>2. ASSUME NEW i \in T
        PROVE  i + 1 \in T
    <3>1. SUFFICES ASSUME i + 1 <= m
                   PROVE  u[k + (i + 1)] = w[i + 1]
      OBVIOUS
    <3>2. PICK j \in 1..m : j = i + 1 /\ j - 1 = i
      BY <3>1
    <3>3. PICK l \in 1..Len(b) : l = k + j /\ l - 1 = k + i /\ l = k + (i + 1)
      BY <1>2, <3>1, <3>2
    <3>4. u[l] = u[l - 1] * Base + b[l]
      BY <1>4
    <3>5. w[j] = w[j - 1] * Base + t[j]
      BY <1>5
    <3>6. t[j] = b[l]
      BY <1>3, <3>3
    <3>7. u[k + i] = w[i]
      BY <3>1
    <3> QED
      BY <3>2, <3>3, <3>4, <3>5, <3>6, <3>7, Zenon
  <2>3. T \in SUBSET Nat
    OBVIOUS
  <2> HIDE DEF T
  <2> QED
    BY <2>1, <2>2, <2>3, Induction
<1>9. u[k + m] = w[m]
  BY <1>8
<1>10. k + m = Len(b)
  BY <1>2
<1>11. Unsigned(t) = Unsigned(b)
  BY <1>4, <1>5, <1>9, <1>10, Zenon
<1>12. Trimmed(t) = Trimmed(b)
  BY <1>3, <1>11, SameNumber, Zenon
<1> QED
  BY <1>3, <1>11, <1>12, Zenon

\* Signed reads two's complement: a number within the width of its bytes, and
\* below zero the unsigned one less the power of their count.
LEMMA SignedFacts ==
    ASSUME NEW b \in Seq(Byte)
    PROVE  /\ InWidth(Signed(b), Len(b))
           /\ Signed(b) >= 0 => Signed(b) = Unsigned(b)
           /\ Signed(b) < 0 => Unsigned(b) = Signed(b) + Pow(Len(b))
<1>1. PICK u \in Nat : u = Unsigned(b) /\ u < Pow(Len(b))
  BY Digits
<1>2. PICK m \in Nat : m = Pow(Len(b)) /\ m > 0
  BY PowPositive
<1>3. PICK s : s = Signed(b)
  OBVIOUS
<1>4. s = IF 2 * u < m THEN u ELSE u - m
  BY <1>1, <1>2, <1>3, Zenon DEF Signed
<1>5. u < m
  BY <1>1, <1>2, Zenon
<1>6. /\ s \in Int /\ -m <= 2 * s /\ 2 * s < m
      /\ s >= 0 => s = u
      /\ s < 0 => u = s + m
  BY <1>4, <1>5
<1> QED
  BY <1>1, <1>2, <1>3, <1>6, Zenon DEF InWidth

\* What fits the width survives to_be_bytes and from_be_bytes.
LEMMA RoundTrip ==
    ASSUME NEW n \in Nat, NEW v, InWidth(v, n)
    PROVE  /\ Signed(BeBytes(v, n)) = v
           /\ v >= 0 => Unsigned(BeBytes(v, n)) = v
<1>1. PICK m \in Nat : m = Pow(n) /\ m > 0
  BY PowPositive
<1>2. v \in Int /\ -m <= 2 * v /\ 2 * v < m
  BY <1>1 DEF InWidth
<1>3. PICK b \in Seq(Byte) : b = BeBytes(v, n) /\ Len(b) = n /\ Unsigned(b) = v % m
  BY <1>1, <1>2, BeBytesFacts
<1>4. CASE v >= 0
  <2>1. v = m * 0 + v /\ v \in 0..(m - 1)
    BY <1>1, <1>2, <1>4
  <2>2. v % m = v
    BY <1>1, <1>2, <2>1, DivisionUnique
  <2>3. Signed(b) = IF 2 * v < m THEN v ELSE v - m
    BY <1>1, <1>3, <2>2, Zenon DEF Signed
  <2> QED
    BY <1>2, <1>3, <2>2, <2>3
<1>5. CASE v < 0
  <2>1. PICK u \in 0..(m - 1) : u = v + m
    BY <1>1, <1>2, <1>5
  <2>4. v = m * (-1) + u /\ ~(2 * u < m) /\ u - m = v
    BY <1>2, <2>1
  <2>2. v % m = u
    <3>1. PICK q \in Int : q = -1
      OBVIOUS
    <3>2. v = m * q + u
      BY <2>4, <3>1
    <3> QED
      BY <1>1, <1>2, <3>2, DivisionUnique, Zenon
  <2>3. Signed(b) = IF 2 * u < m THEN u ELSE u - m
    BY <1>1, <1>3, <2>2, Zenon DEF Signed
  <2> QED
    BY <1>2, <1>3, <1>5, <2>4, <2>3
<1> QED
  BY <1>2, <1>4, <1>5

\* A narrower width fits a wider one.
LEMMA WidthGrows ==
    ASSUME NEW v, InWidth(v, Half)
    PROVE  InWidth(v, Word)
<1>1. Half \in Nat /\ Word \in Nat /\ Word - Half \in Nat /\ Half + (Word - Half) = Word
  BY SizesAssumption
<1>2. PICK k \in Nat : Half + k = Word
  BY <1>1
<1>3. Pow(Half) <= Pow(Half + k)
  BY <1>1, PowMonotone
<1>4. Pow(Half) \in Nat /\ Pow(Word) \in Nat /\ Pow(Half) <= Pow(Word)
  BY <1>1, <1>2, <1>3, PowPositive
<1> QED
  BY <1>4 DEF InWidth

\* Hex digits, two to a byte, spell the bytes they were made of.
LEMMA HexRoundTrip ==
    ASSUME NEW b \in Seq(Byte)
    PROVE  Unhex(Hex(b)) = b
<1>1. PICK D \in Nat : D = Digit /\ D > 0 /\ D * D = Base
  BY BaseAssumption DEF Digit
<1>2. PICK L \in Nat : L = Len(b)
  OBVIOUS
<1>3. PICK h : h = Hex(b)
  OBVIOUS
<1>4. h = [i \in 1..(2 * L) |->
              IF i % 2 = 1 THEN b[(i + 1) \div 2] \div D ELSE b[i \div 2] % D]
  BY <1>1, <1>2, <1>3, Zenon DEF Hex
<1>5. Len(h) = 2 * L
  BY <1>4
<1>6. Unhex(h) = [i \in 1..((2 * L) \div 2) |-> h[2 * i - 1] * D + h[2 * i]]
  BY <1>1, <1>5, Zenon DEF Unhex
<1>7. (2 * L) \div 2 = L
  OBVIOUS
<1>8. ASSUME NEW i \in 1..L
      PROVE  h[2 * i - 1] * D + h[2 * i] = b[i]
  <2>1. PICK x \in Int : x = b[i]
    BY <1>2, BaseAssumption DEF Byte
  <2>2. 2 * i - 1 \in 1..(2 * L) /\ (2 * i - 1) % 2 = 1 /\ ((2 * i - 1) + 1) \div 2 = i
    OBVIOUS
  <2>3. 2 * i \in 1..(2 * L) /\ ~((2 * i) % 2 = 1) /\ (2 * i) \div 2 = i
    OBVIOUS
  <2>4. h[2 * i - 1] = x \div D
    BY <1>4, <2>1, <2>2, Zenon
  <2>5. h[2 * i] = x % D
    BY <1>4, <2>1, <2>3, Zenon
  <2>6. PICK q \in Int : \E r \in 0..(D - 1) : x \div D = q /\ x % D = r /\ x = D * q + r
    BY <1>1, Division
  <2>7. PICK r \in 0..(D - 1) : x \div D = q /\ x % D = r /\ x = D * q + r
    BY <2>6
  <2>8. D * q + r = q * D + r
    OBVIOUS
  <2> QED
    BY <2>1, <2>4, <2>5, <2>7, <2>8, Zenon
<1>9. Unhex(h) = [i \in 1..L |-> b[i]]
  BY <1>6, <1>7, <1>8
<1>10. b = [i \in 1..L |-> b[i]]
  BY <1>2
<1> QED
  BY <1>3, <1>9, <1>10, Zenon

-----------------------------------------------------------------------------
\* What a cell holds of the value w, of type s, that it stands for.

\* The number: w itself, the number that the bytes w spell or, once Half bytes
\* were read as unsigned, w without its sign.
NumberOf(x, w, s) ==
    IF IsNumber(s) THEN x = w \/ (w < 0 /\ x >= 0 /\ x = w + Pow(Half))
    ELSE x = Unsigned(w)

\* The bytes: they spell the number, below zero in Half or Word bytes, or they
\* are the bytes w but for zeros in front.
BytesOf(b, w, s) ==
    IF IsNumber(s)
    THEN \E x \in Int :
            /\ NumberOf(x, w, s) /\ InWidth(x, Word)
            /\ Unsigned(b) = x \/ (x < 0 /\ Signed(b) = x /\ Len(b) \in {Half, Word})
    ELSE b = w \/ (Trimmed(b) = Trimmed(w) /\ Len(b) \in {Len(Trimmed(w)), Half, Word})

HoldsBytes(v, t) ==
    \/ t.k \in ByteKinds
    \/ t.k \in TextKinds /\ v.enc \in {"58", "hex", "0x"}

Kept(v, t, w, s) ==
    \/ t.k = "float64" /\ \E x \in Int : NumberOf(x, w, s) /\ v = Rounded(x)
    \/ t.k \in Decimals /\ InWidth(v, Size(t)) /\ NumberOf(v, w, s)
    \/ IsText(v, t) /\ v.body \in Int /\ NumberOf(v.body, w, s)
    \/ HoldsBytes(v, t) /\ Bytes(v, t) \in Seq(Byte) /\ BytesOf(Bytes(v, t), w, s)

\* The kinds of types exclude each other.
LEMMA Kinds ==
    ASSUME NEW t
    PROVE  /\ t.k \in Decimals => t.k \notin TextKinds /\ t.k \notin ByteKinds /\ t.k # "float64"
           /\ t.k \in TextKinds => t.k \notin ByteKinds /\ t.k # "float64"
           /\ t.k \in ByteKinds => t.k # "float64"
           /\ t.k \in NumberKinds <=> t.k \in Decimals \/ t.k = "float64"
BY DEF Decimals, TextKinds, ByteKinds, NumberKinds

\* A value that a caller puts in is a number or a sequence of bytes.
LEMMA StartKinds ==
    ASSUME NEW s, NEW w, TypedCell(s, w)
    PROVE  /\ IsNumber(s) => w \in Int
           /\ ~IsNumber(s) => w \in Seq(Byte)
BY Kinds DEF TypedCell, IsNumber, InWidth

\* large_ints_to_binary: a number that fits a width, in that many bytes.
LEMMA NumberToBytes ==
    ASSUME NEW s, NEW w, TypedCell(s, w), NEW n \in {Half, Word}, NEW x,
           InWidth(x, n), NumberOf(x, w, s)
    PROVE  BeBytes(x, n) \in Seq(Byte) /\ BytesOf(BeBytes(x, n), w, s)
<1>1. n \in Nat /\ x \in Int
  BY SizesAssumption DEF InWidth
<1>2. PICK b \in Seq(Byte) : b = BeBytes(x, n) /\ Len(b) = n
  BY <1>1, BeBytesFacts
<1>3. Signed(b) = x /\ (x >= 0 => Unsigned(b) = x)
  BY <1>1, <1>2, RoundTrip
<1>4. CASE IsNumber(s)
  <2>1. Unsigned(b) = x \/ (x < 0 /\ Signed(b) = x /\ Len(b) \in {Half, Word})
    BY <1>1, <1>2, <1>3
  <2>2. InWidth(x, Word)
    BY WidthGrows
  <2> QED
    BY <1>1, <1>2, <1>4, <2>1, <2>2, Zenon DEF BytesOf
<1>5. CASE ~IsNumber(s)
  <2>1. w \in Seq(Byte) /\ x = Unsigned(w)
    BY <1>5, StartKinds DEF NumberOf
  <2>2. x >= 0
    BY <2>1, Digits
  <2>3. Trimmed(b) = Trimmed(w)
    BY <1>3, <2>1, <2>2, SameNumber
  <2> QED
    BY <1>2, <1>5, <2>3 DEF BytesOf
<1> QED
  BY <1>4, <1>5

\* u256_to_binary: a number that is not negative, in as many bytes as it needs.
LEMMA NumberToTrimmed ==
    ASSUME NEW s, NEW w, TypedCell(s, w), NEW x, InWidth(x, Word), x >= 0, NumberOf(x, w, s)
    PROVE  /\ Trimmed(BeBytes(x, Word)) \in Seq(Byte)
           /\ BytesOf(Trimmed(BeBytes(x, Word)), w, s)
<1>1. Word \in Nat /\ x \in Int
  BY SizesAssumption DEF InWidth
<1>2. PICK b \in Seq(Byte) : b = BeBytes(x, Word) /\ Unsigned(b) = x
  BY <1>1, BeBytesFacts, RoundTrip
<1>3. PICK t \in Seq(Byte) : t = Trimmed(b) /\ Unsigned(t) = x /\ Trimmed(t) = Trimmed(b)
  BY <1>2, TrimmedFacts, TrimmedNumber
<1>4. CASE IsNumber(s)
  BY <1>1, <1>2, <1>3, <1>4, Zenon DEF BytesOf
<1>5. CASE ~IsNumber(s)
  <2>1. w \in Seq(Byte) /\ x = Unsigned(w)
    BY <1>5, StartKinds DEF NumberOf
  <2>2. Trimmed(t) = Trimmed(w) /\ t = Trimmed(w)
    BY <1>2, <1>3, <2>1, SameNumber
  <2> QED
    BY <1>2, <1>3, <1>5, <2>2 DEF BytesOf
<1> QED
  BY <1>4, <1>5

\* u256_column_from_binary: bytes read as an unsigned number below the sign bit.
LEMMA BytesToNumber ==
    ASSUME NEW s, NEW w, TypedCell(s, w), NEW b \in Seq(Byte), BytesOf(b, w, s),
           2 * Unsigned(b) < Pow(Word)
    PROVE  NumberOf(Unsigned(b), w, s) /\ InWidth(Unsigned(b), Word)
<1>1. PICK u \in Nat : u = Unsigned(b)
  BY Digits
<1>2. PICK m \in Nat : m = Pow(Word) /\ m > 0
  BY SizesAssumption, PowPositive
<1>3. 2 * u < m
  BY <1>1, <1>2, Zenon
<1>4. InWidth(u, Word)
  BY <1>2, <1>3 DEF InWidth
<1>5. CASE IsNumber(s)
  <2>1. PICK x \in Int :
            /\ NumberOf(x, w, s) /\ InWidth(x, Word)
            /\ Unsigned(b) = x \/ (x < 0 /\ Signed(b) = x /\ Len(b) \in {Half, Word})
    BY <1>5 DEF BytesOf
  <2>2. CASE Unsigned(b) = x
    BY <1>1, <1>4, <2>1, <2>2, Zenon
  <2>3. CASE x < 0 /\ Signed(b) = x /\ Len(b) \in {Half, Word}
    <3>1. PICK h \in Nat : h = Pow(Half)
      BY SizesAssumption, PowPositive
    <3>2. x = w
      BY <1>5, <2>1, <2>3 DEF NumberOf
    <3>3. u = x + Pow(Len(b))
      BY <1>1, <2>3, SignedFacts
    <3>4. -m <= 2 * x
      BY <1>2, <2>1 DEF InWidth
    <3>5. CASE Len(b) = Word
      BY <1>2, <1>3, <3>3, <3>4, <3>5
    <3>6. CASE Len(b) = Half
      <4>1. u = x + h /\ u >= 0
        BY <3>1, <3>3, <3>6
      <4>2. NumberOf(u, w, s)
        BY <1>5, <2>3, <3>1, <3>2, <4>1 DEF NumberOf
      <4> QED
        BY <1>1, <1>4, <4>2, Zenon
    <3> QED
      BY <2>3, <3>5, <3>6
  <2> QED
    BY <2>1, <2>2, <2>3
<1>6. CASE ~IsNumber(s)
  <2>1. w \in Seq(Byte)
    BY <1>6, StartKinds
  <2>2. b = w \/ Trimmed(b) = Trimmed(w)
    BY <1>6 DEF BytesOf
  <2>3. Unsigned(b) = Unsigned(w)
    BY <2>1, <2>2, TrimmedNumber
  <2> QED
    BY <1>1, <1>4, <1>6, <2>3 DEF NumberOf
<1> QED
  BY <1>5, <1>6

\* What is kept stands for the value, but for a lost sign.
LEMMA KeptStands ==
    ASSUME NEW v, NEW t, NEW w, NEW s, TypedCell(s, w), Kept(v, t, w, s)
    PROVE  StandsFor(v, t, w, s) \/ SignLost(v, t, w, s)
<1>1. PICK y : y = w + Pow(Half)
  OBVIOUS
<1>2. \A x : NumberOf(x, w, s) =>
          \/ x = IF IsNumber(s) THEN w ELSE Unsigned(w)
          \/ IsNumber(s) /\ w < 0 /\ x = y
  BY <1>1 DEF NumberOf
<1>3. CASE t.k = "float64"
  <2>1. PICK x \in Int : NumberOf(x, w, s) /\ v = Rounded(x)
    BY <1>3 DEF Kept, Decimals, IsText, HoldsBytes, TextKinds, ByteKinds
  <2>2. CASE x = IF IsNumber(s) THEN w ELSE Unsigned(w)
    <3>1. v = Rounded(IF IsNumber(s) THEN w ELSE Unsigned(w))
      BY <2>1, <2>2, Zenon
    <3> QED
      BY <1>3, <3>1 DEF StandsFor
  <2>3. CASE IsNumber(s) /\ w < 0 /\ x = y
    <3>1. v = Rounded(IF IsNumber(s) THEN y ELSE Unsigned(y))
      BY <2>1, <2>3
    <3>2. StandsFor(v, t, y, s)
      BY <1>3, <3>1 DEF StandsFor
    <3> QED
      BY <1>1, <2>3, <3>2, Zenon DEF SignLost
  <2> QED
    BY <1>2, <2>1, <2>2, <2>3, Zenon
<1>4. CASE t.k \in Decimals
  <2>1. NumberOf(v, w, s) /\ t.k # "float64"
    BY <1>4 DEF Kept, Decimals, IsText, HoldsBytes, TextKinds, ByteKinds
  <2>2. CASE v = IF IsNumber(s) THEN w ELSE Unsigned(w)
    BY <1>4, <2>1, <2>2 DEF StandsFor
  <2>3. CASE IsNumber(s) /\ w < 0 /\ v = y
    <3>1. StandsFor(v, t, y, s)
      BY <1>4, <2>1, <2>3 DEF StandsFor
    <3> QED
      BY <1>1, <2>3, <3>1, Zenon DEF SignLost
  <2> QED
    BY <1>2, <2>1, <2>2, <2>3, Zenon
<1>5. CASE IsText(v, t)
  <2>1. NumberOf(v.body, w, s) /\ t.k # "float64" /\ t.k \notin Decimals
    BY <1>5 DEF Kept, Decimals, IsText, HoldsBytes, TextKinds, ByteKinds
  <2>2. CASE v.body = IF IsNumber(s) THEN w ELSE Unsigned(w)
    BY <1>5, <2>1, <2>2 DEF StandsFor
  <2>3. CASE IsNumber(s) /\ w < 0 /\ v.body = y
    <3>1. StandsFor(v, t, y, s)
      BY <1>5, <2>1, <2>3 DEF StandsFor
    <3> QED
      BY <1>1, <2>3, <3>1, Zenon DEF SignLost
  <2> QED
    BY <1>2, <2>1, <2>2, <2>3, Zenon
<1>6. CASE HoldsBytes(v, t)
  <2>1. t.k # "float64" /\ t.k \notin Decimals /\ ~IsText(v, t)
    BY <1>6 DEF Decimals, IsText, HoldsBytes, TextKinds, ByteKinds
  <2>2. BytesOf(Bytes(v, t), w, s)
    BY <1>6, <2>1 DEF Kept
  <2>3. CASE IsNumber(s)
    <3>1. PICK x \in Int :
              /\ NumberOf(x, w, s)
              /\ \/ Unsigned(Bytes(v, t)) = x
                 \/ x < 0 /\ Signed(Bytes(v, t)) = x /\ Len(Bytes(v, t)) \in {Half, Word}
      BY <2>2, <2>3 DEF BytesOf
    <3>2. x \in {Unsigned(Bytes(v, t)), Signed(Bytes(v, t))}
      BY <3>1
    <3>3. StandsFor(v, t, x, s)
      BY <2>1, <2>3, <3>2 DEF StandsFor
    <3>4. x = w \/ (w < 0 /\ x = y)
      BY <1>2, <2>3, <3>1
    <3>5. CASE x = w
      BY <3>3, <3>5, Zenon
    <3>6. CASE w < 0 /\ x = y
      BY <1>1, <2>3, <3>3, <3>6, Zenon DEF SignLost
    <3> QED
      BY <3>4, <3>5, <3>6
  <2>4. CASE ~IsNumber(s)
    BY <2>1, <2>2, <2>4 DEF StandsFor, BytesOf
  <2> QED
    BY <2>3, <2>4
<1> QED
  BY <1>3, <1>4, <1>5, <1>6 DEF Kept

-----------------------------------------------------------------------------
\* The conversions of a single value.

\* Bytes are not null.
LEMMA BytesThere ==
    ASSUME NEW b \in Seq(Byte)
    PROVE  b # Null /\ b # Fail /\ b \in Seq(Int)
<1>1. b \in Seq(Int)
  BY BaseAssumption DEF Byte
<1> QED
  BY <1>1, NullAssumption

\* Nor is text.
LEMMA TextThere ==
    ASSUME NEW e \in Encodings, NEW v \in Int \cup Seq(Int)
    PROVE  [enc |-> e, body |-> v] # Null
BY NullAssumption

\* The starting value is kept.
LEMMA KeptStart ==
    ASSUME NEW w, NEW s, TypedCell(s, w)
    PROVE  Kept(w, s, w, s)
<1>1. CASE s.k \in Decimals
  BY <1>1, Kinds DEF TypedCell, Kept, NumberOf, IsNumber
<1>2. CASE s.k = "float64"
  <2>1. w \in Int /\ w = Rounded(w)
    BY <1>2, Kinds DEF TypedCell
  <2>2. NumberOf(w, w, s)
    BY <1>2, Kinds DEF NumberOf, IsNumber
  <2> QED
    BY <1>2, <2>1, <2>2, Zenon DEF Kept
<1>3. CASE s.k \in ByteKinds
  <2>1. w \in Seq(Byte) /\ ~IsNumber(s)
    BY <1>3, Kinds DEF TypedCell, IsNumber
  <2>2. Bytes(w, s) = w /\ HoldsBytes(w, s)
    BY <1>3 DEF Bytes, HoldsBytes
  <2>3. BytesOf(w, w, s)
    BY <2>1 DEF BytesOf
  <2> QED
    BY <2>1, <2>2, <2>3, Zenon DEF Kept
<1> QED
  BY <1>1, <1>2, <1>3 DEF TypedCell

\* Text and binary cells show their bytes, and nothing else.
LEMMA KeptBytes ==
    ASSUME NEW v, NEW t, NEW w, NEW s, Kept(v, t, w, s), HoldsBytes(v, t)
    PROVE  Bytes(v, t) \in Seq(Byte) /\ BytesOf(Bytes(v, t), w, s)
BY Kinds DEF Kept, HoldsBytes, IsText

\* The same bytes, in another coat, are kept.
LEMMA BytesKept ==
    ASSUME NEW v, NEW t, NEW w, NEW s, NEW b \in Seq(Byte), BytesOf(b, w, s),
           HoldsBytes(v, t), Bytes(v, t) = b
    PROVE  Kept(v, t, w, s)
BY Zenon DEF Kept

\* A decimal column holds the number.
LEMMA KeptNumber ==
    ASSUME NEW v, NEW t, NEW w, NEW s, Kept(v, t, w, s), t.k \in Decimals
    PROVE  InWidth(v, Size(t)) /\ InWidth(v, Word) /\ NumberOf(v, w, s)
<1>1. InWidth(v, Size(t)) /\ NumberOf(v, w, s)
  BY Kinds DEF Kept, HoldsBytes, IsText
<1>2. InWidth(v, Word)
  BY <1>1, WidthGrows DEF Size
<1> QED
  BY <1>1, <1>2

\* Rounding gives a number, and rounds no further.
LEMMA RoundedTwice ==
    ASSUME NEW x \in Int
    PROVE  Rounded(x) \in Int /\ Rounded(Rounded(x)) = Rounded(x)
BY DEF Rounded

\* A float column holds a float, of the number.
LEMMA KeptFloat ==
    ASSUME NEW v, NEW t, NEW w, NEW s, Kept(v, t, w, s), t.k = "float64"
    PROVE  /\ v \in Int /\ Rounded(v) = v
           /\ \E x \in Int : NumberOf(x, w, s) /\ v = Rounded(x)
<1>1. \E x \in Int : NumberOf(x, w, s) /\ v = Rounded(x)
  BY Kinds DEF Kept, HoldsBytes, IsText
<1> QED
  BY <1>1, RoundedTwice

\* So does the text of a number.
LEMMA KeptText ==
    ASSUME NEW v, NEW t, NEW w, NEW s, Kept(v, t, w, s), IsText(v, t)
    PROVE  v.body \in Int /\ NumberOf(v.body, w, s)
BY Kinds DEF Kept, HoldsBytes, IsText

\* What fits a decimal, by the test of arrow's cast, is within its width, and
\* the other way around.
LEMMA FitsWidth ==
    ASSUME NEW x \in Int, NEW t
    PROVE  Fits(x, t) <=> InWidth(x, Size(t))
<1>1. PICK n \in Nat : n = Size(t)
  BY SizesAssumption DEF Size
<1>2. PICK b \in Seq(Byte) : b = BeBytes(x, n) /\ Len(b) = n
  BY BeBytesFacts
<1>3. Fits(x, t) => InWidth(x, n)
  <2>1. InWidth(Signed(b), n)
    BY <1>2, SignedFacts
  <2> QED
    BY <1>1, <1>2, <2>1, Zenon DEF Fits
<1>4. InWidth(x, n) => Fits(x, t)
  BY <1>1, RoundTrip, Zenon DEF Fits
<1> QED
  BY <1>1, <1>3, <1>4, Zenon

\* A cast that a caller asks for, one value at a time.
Spelled(v, t, to) ==
    /\ t.k \in TextKinds => to.k \notin ByteKinds
    /\ t.k \in ByteKinds => to.k \notin TextKinds
    /\ t.k \in TextKinds /\ to.k \in Decimals => v.enc = "dec"
    /\ t.k \in TextKinds /\ to.k = "float64" => v.enc \in {"dec", "flt"}

\* Where a number is asked for, there is one.
LEMMA NumberThere ==
    ASSUME NEW v, NEW t, NEW w, NEW s, NEW to, Kept(v, t, w, s), CanCast(t, to),
           Spelled(v, t, to), to.k \in NumberKinds
    PROVE  /\ t.k \in Decimals \/ t.k = "float64" \/ IsText(v, t)
           /\ NumberIn(v, t) \in Int
           /\ t.k # "float64" => NumberOf(NumberIn(v, t), w, s)
           /\ t.k = "float64" => NumberIn(v, t) = v
<1>1. t.k \in Decimals \/ t.k = "float64" \/ t.k \in TextKinds
  BY DEF CanCast, Decimals, NumberKinds, TextKinds, ByteKinds
<1>2. CASE t.k \in Decimals
  <2>1. NumberIn(v, t) = v
    BY <1>2, Kinds DEF NumberIn
  <2> QED
    BY <1>2, <2>1, Kinds, KeptNumber DEF InWidth
<1>3. CASE t.k = "float64"
  <2>1. NumberIn(v, t) = v
    BY <1>3, Kinds DEF NumberIn
  <2> QED
    BY <1>3, <2>1, KeptFloat
<1>4. CASE t.k \in TextKinds
  <2>1. IsText(v, t)
    BY <1>4, Kinds DEF Spelled, IsText
  <2>2. NumberIn(v, t) = v.body /\ t.k # "float64"
    BY <1>4, Kinds DEF NumberIn
  <2> QED
    BY <2>1, <2>2, KeptText
<1> QED
  BY <1>1, <1>2, <1>3, <1>4

\* What arrow's cast makes of a value: itself, a rounded number, or text.
LEMMA CastValue ==
    ASSUME NEW v, NEW t, NEW to, CanCast(t, to), Spelled(v, t, to)
    PROVE  \/ /\ to.k \in Decimals
              /\ ArrowCast(t, to, v) = IF Fits(NumberIn(v, t), to) THEN NumberIn(v, t) ELSE Fail
           \/ to.k = "float64" /\ ArrowCast(t, to, v) = Rounded(NumberIn(v, t))
           \/ /\ to.k \in TextKinds /\ t.k \in NumberKinds
              /\ \E e \in {"dec", "flt"} : ArrowCast(t, to, v) = [enc |-> e, body |-> v]
           \/ to.k \in TextKinds /\ t.k \in TextKinds /\ ArrowCast(t, to, v) = v
           \/ to.k \in ByteKinds /\ t.k \in ByteKinds /\ ArrowCast(t, to, v) = v
<1>1. CASE to.k \in Decimals
  BY <1>1 DEF ArrowCast
<1>2. CASE to.k = "float64"
  BY <1>2, Kinds DEF ArrowCast
<1>3. CASE to.k \in TextKinds
  <2>1. to.k \notin Decimals /\ to.k # "float64"
    BY <1>3, Kinds
  <2>2. t.k \in NumberKinds \/ (t.k \in TextKinds /\ t.k \notin NumberKinds)
    BY <1>3, Kinds DEF CanCast, Spelled
  <2>3. CASE t.k \in NumberKinds
    <3>1. PICK e \in {"dec", "flt"} : e = IF t.k = "float64" THEN "flt" ELSE "dec"
      OBVIOUS
    <3>2. ArrowCast(t, to, v) = [enc |-> e, body |-> v]
      BY <2>1, <2>3, <3>1, Zenon DEF ArrowCast
    <3> QED
      BY <1>3, <2>3, <3>2, Zenon
  <2>4. CASE t.k \in TextKinds /\ t.k \notin NumberKinds
    BY <1>3, <2>1, <2>4 DEF ArrowCast
  <2> QED
    BY <2>2, <2>3, <2>4
<1>4. CASE to.k \in ByteKinds
  <2>1. to.k \notin Decimals /\ to.k # "float64" /\ to.k \notin TextKinds /\ to.k \notin NumberKinds
    BY <1>4, Kinds
  <2>2. t.k \in ByteKinds /\ t.k \notin NumberKinds
    BY <1>4, <2>1, Kinds DEF CanCast, Spelled
  <2> QED
    BY <1>4, <2>1, <2>2 DEF ArrowCast
<1> QED
  BY <1>1, <1>2, <1>3, <1>4, Kinds DEF CanCast

\* arrow's cast of one value keeps it, where it casts.  A float that becomes
\* something else stands for itself.
LEMMA KeptCast ==
    ASSUME NEW v, NEW t, NEW w, NEW s, NEW to, Kept(v, t, w, s), v # Null,
           CanCast(t, to), Spelled(v, t, to),
           t.k = "float64" /\ to.k # "float64" => w = v /\ s = t,
           ArrowCast(t, to, v) # Fail
    PROVE  Kept(ArrowCast(t, to, v), to, w, s) /\ ArrowCast(t, to, v) # Null
<1>1. PICK x : x = ArrowCast(t, to, v)
  OBVIOUS
<1>2. PICK y : y = NumberIn(v, t)
  OBVIOUS
<1>3. t.k = "float64" /\ to.k # "float64" => NumberOf(v, w, s)
  BY Kinds DEF NumberOf, IsNumber
<1>4. CASE to.k \in Decimals /\ x = IF Fits(y, to) THEN y ELSE Fail
  <2>1. x = y /\ Fits(y, to)
    BY <1>1, <1>4
  <2>2. y \in Int /\ NumberOf(y, w, s)
    BY <1>2, <1>3, <1>4, Kinds, NumberThere
  <2>3. InWidth(y, Size(to))
    BY <2>1, <2>2, FitsWidth
  <2>4. y # Null
    BY <2>2, NullAssumption
  <2> QED
    BY <1>1, <1>4, <2>1, <2>2, <2>3, <2>4, Zenon DEF Kept
<1>5. CASE to.k = "float64" /\ x = Rounded(y)
  <2>1. y \in Int /\ (t.k # "float64" => NumberOf(y, w, s)) /\ (t.k = "float64" => y = v)
    BY <1>2, <1>5, Kinds, NumberThere
  <2>2. x # Null
    <3>1. x \in Int
      BY <1>5, <2>1, RoundedTwice
    <3> QED
      BY <3>1, NullAssumption
  <2>3. CASE t.k # "float64"
    BY <1>1, <1>5, <2>1, <2>2, <2>3, Zenon DEF Kept
  <2>4. CASE t.k = "float64"
    <3>1. PICK z \in Int : NumberOf(z, w, s) /\ v = Rounded(z) /\ Rounded(v) = v
      BY <2>4, KeptFloat
    <3>2. x = Rounded(z)
      BY <1>5, <2>1, <2>4, <3>1
    <3> QED
      BY <1>1, <1>5, <2>2, <3>1, <3>2, Zenon DEF Kept
  <2> QED
    BY <2>3, <2>4
<1>6. CASE to.k \in TextKinds /\ t.k \in NumberKinds /\ \E e \in {"dec", "flt"} : x = [enc |-> e, body |-> v]
  <2>1. PICK e \in {"dec", "flt"} : x = [enc |-> e, body |-> v]
    BY <1>6
  <2>2. x.enc = e /\ x.body = v
    BY <2>1
  <2>3. v \in Int /\ NumberOf(v, w, s)
    BY <1>3, <1>6, Kinds, KeptNumber, KeptFloat DEF InWidth
  <2>4. IsText(x, to)
    BY <1>6, <2>2 DEF IsText
  <2>5. x # Null
    BY <2>1, <2>3, TextThere DEF Encodings
  <2> QED
    BY <1>1, <2>2, <2>3, <2>4, <2>5, Zenon DEF Kept
<1>7. CASE to.k \in TextKinds /\ t.k \in TextKinds /\ x = v
  <2>1. Bytes(v, t) = Bytes(v, to) /\ (HoldsBytes(v, t) <=> HoldsBytes(v, to))
        /\ (IsText(v, t) <=> IsText(v, to))
    BY <1>7, Kinds DEF Bytes, HoldsBytes, IsText
  <2>2. t.k \notin Decimals /\ t.k # "float64"
    BY <1>7, Kinds
  <2>3. Kept(v, to, w, s)
    BY <2>1, <2>2, Zenon DEF Kept
  <2> QED
    BY <1>1, <1>7, <2>3, Zenon
<1>8. CASE to.k \in ByteKinds /\ t.k \in ByteKinds /\ x = v
  <2>1. Bytes(v, t) = v /\ Bytes(v, to) = v /\ HoldsBytes(v, t) /\ HoldsBytes(v, to)
    BY <1>8 DEF Bytes, HoldsBytes
  <2>2. v \in Seq(Byte) /\ BytesOf(v, w, s)
    BY <2>1, KeptBytes
  <2> QED
    BY <1>1, <1>8, <2>1, <2>2, BytesKept
<1> QED
  BY <1>1, <1>2, <1>4, <1>5, <1>6, <1>7, <1>8, CastValue, Zenon

\* arrow's cast refuses only a number that is too wide for a decimal.
LEMMA CastRefused ==
    ASSUME NEW v, NEW t, NEW w, NEW s, NEW to, Kept(v, t, w, s), v # Fail,
           CanCast(t, to), Spelled(v, t, to), ArrowCast(t, to, v) = Fail
    PROVE  to.k \in Decimals /\ TooWide(v, t, Size(to))
<1>1. PICK x : x = ArrowCast(t, to, v)
  OBVIOUS
<1>2. PICK y : y = NumberIn(v, t)
  OBVIOUS
<1>4. CASE to.k \in Decimals /\ x = IF Fits(y, to) THEN y ELSE Fail
  <2>1. y \in Int /\ (IsNumber(t) \/ IsText(v, t))
    BY <1>2, <1>4, Kinds, NumberThere DEF IsNumber
  <2>2. y # Fail
    BY <2>1, NullAssumption
  <2>3. ~Fits(y, to)
    BY <1>1, <1>4, <2>2
  <2>4. ~InWidth(y, Size(to))
    BY <2>1, <2>3, FitsWidth
  <2> QED
    BY <1>2, <1>4, <2>1, <2>4, Zenon DEF TooWide
<1>5. CASE to.k = "float64" /\ x = Rounded(y)
  <2>1. y \in Int
    BY <1>2, <1>5, Kinds, NumberThere
  <2>2. Rounded(y) \in Int
    BY <2>1, RoundedTwice
  <2> QED
    BY <1>1, <1>5, <2>2, NullAssumption
<1>6. CASE t.k \in NumberKinds /\ \E e \in {"dec", "flt"} : x = [enc |-> e, body |-> v]
  <2>1. PICK e \in {"dec", "flt"} : x = [enc |-> e, body |-> v]
    BY <1>6
  <2>2. v \in Int
    BY <1>6, Kinds, KeptNumber, KeptFloat DEF InWidth
  <2>3. [enc |-> e, body |-> v] \in [enc : Encodings, body : Int \cup Seq(Int)]
    BY <2>2 DEF Encodings
  <2> QED
    BY <1>1, <2>1, <2>3, NullAssumption
<1>7. CASE x = v
  BY <1>1, <1>7
<1>8. \/ to.k \in Decimals /\ x = IF Fits(y, to) THEN y ELSE Fail
      \/ to.k = "float64" /\ x = Rounded(y)
      \/ to.k \in TextKinds /\ t.k \in NumberKinds /\ \E e \in {"dec", "flt"} : x = [enc |-> e, body |-> v]
      \/ to.k \in TextKinds /\ t.k \in TextKinds /\ x = v
      \/ to.k \in ByteKinds /\ t.k \in ByteKinds /\ x = v
  BY <1>1, <1>2, CastValue
<1> QED
  BY <1>4, <1>5, <1>6, <1>7, <1>8, Zenon

-----------------------------------------------------------------------------
\* Columns.

\* Values for n rows.
IsColumn(vals, n) == vals = [r \in 1..n |-> vals[r]]

\* A column built of a value or Null for every row shows them.
LEMMA LeafFacts ==
    ASSUME NEW n \in Nat, NEW t, NEW vals, IsColumn(vals, n)
    PROVE  /\ Leaf(t, vals).type = t
           /\ Leaf(t, vals).len = n
           /\ Leaf(t, vals).vals = vals
           /\ Leaf(t, vals).kids = <<>>
           /\ \A r \in 1..n : Cell(Leaf(t, vals), r) = vals[r]
           /\ \A r \in 1..n : IsNull(Leaf(t, vals), r) <=> vals[r] = Null
<1> DEFINE V == {vals[r] : r \in 1..n}
<1>0. vals \in [1..n -> V]
  BY DEF IsColumn
<1>1. Len(vals) = n /\ DOMAIN vals = 1..n
  <2> HIDE DEF V
  <2> QED
    BY <1>0
<1> DEFINE bits == [r \in 1..n |-> vals[r] # Null]
<1>2. PICK a : a = Leaf(t, vals)
  OBVIOUS
<1>3. a = [type |-> t, len |-> n, vals |-> vals, kids |-> <<>>, nulls |-> Validity(bits)]
  BY <1>1, <1>2 DEF Leaf
<1>4. a.type = t /\ a.len = n /\ a.vals = vals /\ a.kids = <<>> /\ a.nulls = Validity(bits)
  BY <1>3
<1>5. ASSUME NEW r \in 1..n
      PROVE  IsNull(a, r) <=> vals[r] = Null
  <2>1. CASE \A q \in 1..n : bits[q]
    <3>1. Validity(bits) = NoNulls
      BY <2>1 DEF Validity
    <3>2. vals[r] # Null
      BY <2>1
    <3> QED
      BY <1>4, <3>1, <3>2 DEF IsNull
  <2>2. CASE ~\A q \in 1..n : bits[q]
    <3>1. Validity(bits) = [buf |-> bits, off |-> 0]
      BY <2>2 DEF Validity
    <3>2. bits # <<>>
      <4>1. 1 \in DOMAIN bits
        OBVIOUS
      <4> QED
        BY <4>1
    <3>3. a.nulls.buf = bits /\ a.nulls.off = 0 /\ a.nulls # NoNulls
      <4> HIDE DEF bits
      <4>1. a.nulls = [buf |-> bits, off |-> 0]
        BY <1>4, <3>1
      <4>2. NoNulls.buf = <<>>
        BY DEF NoNulls
      <4> QED
        BY <3>2, <4>1, <4>2
    <3>4. IsNull(a, r) <=> ~bits[r]
      <4>1. a.nulls.off + r = r
        BY <3>3
      <4> QED
        BY <3>3, <4>1 DEF IsNull
    <3> QED
      BY <3>4
  <2> QED
    BY <2>1, <2>2
<1>6. \A r \in 1..n : Cell(a, r) = vals[r]
  BY <1>4, <1>5 DEF Cell
<1> HIDE DEF bits
<1> QED
  BY <1>2, <1>4, <1>5, <1>6, Zenon

\* A column without children, whose cells are values unless its null buffer says
\* that they are not.
Clean(a) ==
    /\ a.kids = <<>>
    /\ \A r \in 1..a.len : Cell(a, r) # Fail /\ (Cell(a, r) = Null => IsNull(a, r))

\* Column a still holds what column b stands for.
ColumnKept(a, b) ==
    \A r \in 1..b.len :
        \/ Cell(a, r) = Null
        \/ Cell(b, r) # Null /\ Kept(Cell(a, r), a.type, Cell(b, r), b.type)

Holds(a, b) == a.len = b.len /\ Clean(a) /\ TypedCells(b) /\ ColumnKept(a, b)

\* A column that leaves a float behind stands for the float.
Measures(b, a, t) == a.type.k = "float64" /\ t.k # "float64" => b = a

\* Call c may make a null of row r of column a, in a column of type t.
Refused(c, a, t, r) ==
    Forgiving(c) /\ t.k \in Decimals /\ TooWide(Cell(a, r), a.type, Size(t))

\* A value x for row r of column a, made for a column of type t that holds b:
\* it keeps the value, it stops the call, or arrow's cast refused it.
RowMade(x, a, t, b, r, c) ==
    \/ x = Fail
    \/ x # Null /\ Cell(b, r) # Null /\ Kept(x, t, Cell(b, r), b.type)
    \/ x = Null /\ Refused(c, a, t, r)

\* No value of a is null in out, but those that arrow's cast refused.
NullsRefused(a, out, c) ==
    \A r \in 1..a.len :
        Cell(a, r) # Null /\ Cell(out, r) = Null => Refused(c, a, out.type, r)

\* What a call makes of a column: one of the type and length asked for that
\* holds what the column held, or one whose values stop the call.
Made(a, out, t, c) ==
    /\ out.type = t
    /\ Failed(out) \/ out.len = a.len
    /\ \A b : Holds(a, b) /\ Measures(b, a, t) =>
          Failed(out) \/ (Holds(out, b) /\ NullsRefused(a, out, c))

\* A column made row by row.
LEMMA ColumnMade ==
    ASSUME NEW a, a.len \in Nat, NEW t, NEW c, NEW vals, IsColumn(vals, a.len),
           \A r \in 1..a.len : Cell(a, r) = Null => vals[r] = Null,
           \A b : Holds(a, b) /\ Measures(b, a, t) =>
              \A r \in 1..a.len : Cell(a, r) # Null => RowMade(vals[r], a, t, b, r, c)
    PROVE  Made(a, Leaf(t, vals), t, c)
<1>1. PICK out : out = Leaf(t, vals)
  OBVIOUS
<1>2. /\ out.type = t /\ out.len = a.len /\ out.vals = vals /\ out.kids = <<>>
      /\ \A r \in 1..a.len : Cell(out, r) = vals[r]
      /\ \A r \in 1..a.len : IsNull(out, r) <=> vals[r] = Null
  <2>1. /\ Leaf(t, vals).type = t
        /\ Leaf(t, vals).len = a.len
        /\ Leaf(t, vals).vals = vals
        /\ Leaf(t, vals).kids = <<>>
        /\ \A r \in 1..a.len : Cell(Leaf(t, vals), r) = vals[r]
        /\ \A r \in 1..a.len : IsNull(Leaf(t, vals), r) <=> vals[r] = Null
    BY LeafFacts
  <2> QED
    BY <1>1, <2>1, Zenon
<1>3. ASSUME NEW b, Holds(a, b), Measures(b, a, t), ~Failed(out)
      PROVE  Holds(out, b) /\ NullsRefused(a, out, c)
  <2>1. DOMAIN vals = 1..a.len
    BY DEF IsColumn
  <2>2. \A r \in 1..a.len : vals[r] # Fail
    BY <1>2, <1>3, <2>1 DEF Failed
  <2>3. \A r \in 1..a.len : Cell(a, r) # Null => RowMade(vals[r], a, t, b, r, c)
    BY <1>3, Zenon
  <2>4. \A r \in 1..a.len : Cell(a, r) # Null =>
            \/ vals[r] # Null /\ Cell(b, r) # Null /\ Kept(vals[r], t, Cell(b, r), b.type)
            \/ vals[r] = Null /\ Refused(c, a, t, r)
    BY <2>2, <2>3, Zenon DEF RowMade
  <2>5. a.len = b.len /\ TypedCells(b)
    BY <1>3 DEF Holds
  <2>6. ColumnKept(out, b)
    BY <1>2, <2>4, <2>5, Zenon DEF ColumnKept
  <2>7. NullsRefused(a, out, c)
    BY <1>2, <2>4, Zenon DEF NullsRefused
  <2>8. Clean(out)
    BY <1>2, <2>2, Zenon DEF Clean
  <2> QED
    BY <1>2, <2>5, <2>6, <2>7, <2>8 DEF Holds
<1> QED
  BY <1>1, <1>2, <1>3, Zenon DEF Made

\* A column that is left alone.
LEMMA ColumnLeft ==
    ASSUME NEW a, NEW c
    PROVE  Made(a, a, a.type, c)
BY DEF Made, NullsRefused

\* What a value that is there was.
LEMMA RowOf ==
    ASSUME NEW a, NEW b, Holds(a, b), NEW r \in 1..a.len, Cell(a, r) # Null
    PROVE  /\ Cell(b, r) # Null
           /\ TypedCell(b.type, Cell(b, r))
           /\ Kept(Cell(a, r), a.type, Cell(b, r), b.type)
BY DEF Holds, ColumnKept, TypedCells, Cell

\* base58_encode_column: the bytes as base58.
LEMMA Base58EncodeMade ==
    ASSUME NEW a, NEW c, a.len \in Nat, a.type.k \in ByteKinds,
           NEW t, t.k \in TextKinds
    PROVE  Made(a, base58_encode_column(a, t), t, c)
<1> DEFINE vals == [r \in 1..a.len |-> IF Cell(a, r) = Null THEN Null
                                       ELSE [enc |-> "58", body |-> Cell(a, r)]]
<1>1. base58_encode_column(a, t) = Leaf(t, vals)
  BY DEF base58_encode_column, Cells
<1>2. IsColumn(vals, a.len)
  BY DEF IsColumn
<1>3. \A r \in 1..a.len : Cell(a, r) = Null => vals[r] = Null
  OBVIOUS
<1>4. ASSUME NEW b, Holds(a, b), NEW r \in 1..a.len, Cell(a, r) # Null
      PROVE  RowMade(vals[r], a, t, b, r, c)
  <2>1. PICK v : v = Cell(a, r)
    OBVIOUS
  <2>2. PICK x : x = [enc |-> "58", body |-> v]
    OBVIOUS
  <2>3. vals[r] = x
    BY <1>4, <2>1, <2>2
  <2>4. Cell(b, r) # Null /\ Kept(v, a.type, Cell(b, r), b.type)
    BY <1>4, <2>1, RowOf
  <2>5. Bytes(v, a.type) = v /\ HoldsBytes(v, a.type)
    BY DEF Bytes, HoldsBytes, ByteKinds, TextKinds
  <2>6. v \in Seq(Byte) /\ BytesOf(v, Cell(b, r), b.type)
    BY <2>4, <2>5, KeptBytes
  <2>7. Bytes(x, t) = v /\ HoldsBytes(x, t)
    BY <2>2 DEF Bytes, HoldsBytes, ByteKinds, TextKinds
  <2>8. Kept(x, t, Cell(b, r), b.type)
    BY <2>6, <2>7, BytesKept
  <2>9. x # Null
    BY <2>2, <2>6, BytesThere, TextThere DEF Encodings
  <2> QED
    BY <2>3, <2>4, <2>8, <2>9, Zenon DEF RowMade
<1> HIDE DEF vals
<1>5. Made(a, Leaf(t, vals), t, c)
  BY <1>2, <1>3, <1>4, ColumnMade, Zenon
<1> QED
  BY <1>1, <1>5, Zenon

\* Hex digits are numbers.
LEMMA HexDigits ==
    ASSUME NEW b \in Seq(Byte)
    PROVE  Hex(b) \in Seq(Int)
<1>1. PICK D \in Nat : D = Digit /\ D > 0
  BY BaseAssumption DEF Digit
<1>2. PICK L \in Nat : L = Len(b)
  OBVIOUS
<1>3. Hex(b) = [i \in 1..(2 * L) |->
                   IF i % 2 = 1 THEN b[(i + 1) \div 2] \div D ELSE b[i \div 2] % D]
  BY <1>1, <1>2, Zenon DEF Hex
<1>4. ASSUME NEW i \in 1..(2 * L)
      PROVE  (IF i % 2 = 1 THEN b[(i + 1) \div 2] \div D ELSE b[i \div 2] % D) \in Int
  <2>1. \A j \in 1..L : b[j] \in Int
    BY <1>2, BaseAssumption DEF Byte
  <2>2. CASE i % 2 = 1
    <3>1. (i + 1) \div 2 \in 1..L
      BY <2>2
    <3> QED
      BY <1>1, <2>1, <2>2, <3>1
  <2>3. CASE i % 2 # 1
    <3>1. i \div 2 \in 1..L
      BY <2>3
    <3> QED
      BY <1>1, <2>1, <2>3, <3>1
  <2> QED
    BY <2>2, <2>3
<1> QED
  BY <1>3, <1>4

\* hex_encode_column: the bytes as hex, with a prefix or without.
LEMMA HexEncodeMade ==
    ASSUME NEW a, NEW c, a.len \in Nat, a.type.k \in ByteKinds,
           NEW t, t.k \in TextKinds, NEW prefixed \in BOOLEAN
    PROVE  Made(a, hex_encode_column(prefixed, a, t), t, c)
<1>0. PICK e \in {"0x", "hex"} : e = IF prefixed THEN "0x" ELSE "hex"
  OBVIOUS
<1> DEFINE vals == [r \in 1..a.len |-> IF Cell(a, r) = Null THEN Null
                                       ELSE [enc |-> e, body |-> Hex(Cell(a, r))]]
<1>1. hex_encode_column(prefixed, a, t) = Leaf(t, vals)
  BY <1>0, Zenon DEF hex_encode_column, Cells
<1>2. IsColumn(vals, a.len)
  BY DEF IsColumn
<1>3. \A r \in 1..a.len : Cell(a, r) = Null => vals[r] = Null
  OBVIOUS
<1>4. ASSUME NEW b, Holds(a, b), NEW r \in 1..a.len, Cell(a, r) # Null
      PROVE  RowMade(vals[r], a, t, b, r, c)
  <2>1. PICK v : v = Cell(a, r)
    OBVIOUS
  <2>2. PICK x : x = [enc |-> e, body |-> Hex(v)]
    OBVIOUS
  <2>3. vals[r] = x
    BY <1>4, <2>1, <2>2, Zenon
  <2>4. Cell(b, r) # Null /\ Kept(v, a.type, Cell(b, r), b.type)
    BY <1>4, <2>1, RowOf
  <2>5. Bytes(v, a.type) = v /\ HoldsBytes(v, a.type)
    BY DEF Bytes, HoldsBytes, ByteKinds, TextKinds
  <2>6. v \in Seq(Byte) /\ BytesOf(v, Cell(b, r), b.type)
    BY <2>4, <2>5, KeptBytes
  <2>7. x.enc = e /\ x.body = Hex(v)
    BY <2>2
  <2>8. Unhex(Hex(v)) = v
    BY <2>6, HexRoundTrip
  <2>9. Bytes(x, t) = Unhex(Hex(v)) /\ HoldsBytes(x, t)
    BY <1>0, <2>7 DEF Bytes, HoldsBytes, ByteKinds, TextKinds
  <2>10. Kept(x, t, Cell(b, r), b.type)
    BY <2>6, <2>8, <2>9, BytesKept
  <2>11. x # Null
    BY <1>0, <2>2, <2>6, HexDigits, TextThere DEF Encodings
  <2> QED
    BY <2>3, <2>4, <2>10, <2>11, Zenon DEF RowMade
<1> HIDE DEF vals
<1>5. Made(a, Leaf(t, vals), t, c)
  BY <1>2, <1>3, <1>4, ColumnMade, Zenon
<1> QED
  BY <1>1, <1>5, Zenon

\* base58_decode_column: the bytes of the text, or no column.
LEMMA Base58DecodeMade ==
    ASSUME NEW a, NEW c, a.len \in Nat, a.type.k \in TextKinds,
           NEW t, t.k \in ByteKinds
    PROVE  Made(a, base58_decode_column(a, t), t, c)
<1> DEFINE vals == [r \in 1..a.len |-> IF Cell(a, r) = Null THEN Null
                                       ELSE IF Cell(a, r).enc = "58" THEN Cell(a, r).body ELSE Fail]
<1>1. base58_decode_column(a, t) = Leaf(t, vals)
  BY DEF base58_decode_column, Cells
<1>2. IsColumn(vals, a.len)
  BY DEF IsColumn
<1>3. \A r \in 1..a.len : Cell(a, r) = Null => vals[r] = Null
  OBVIOUS
<1>4. ASSUME NEW b, Holds(a, b), NEW r \in 1..a.len, Cell(a, r) # Null
      PROVE  RowMade(vals[r], a, t, b, r, c)
  <2>1. PICK v : v = Cell(a, r)
    OBVIOUS
  <2>2. CASE v.enc # "58"
    <3>1. vals[r] = Fail
      BY <1>4, <2>1, <2>2
    <3> QED
      BY <3>1, Zenon DEF RowMade
  <2>3. CASE v.enc = "58"
    <3>1. PICK x : x = v.body
      OBVIOUS
    <3>2. vals[r] = x
      BY <1>4, <2>1, <2>3, <3>1
    <3>3. Cell(b, r) # Null /\ Kept(v, a.type, Cell(b, r), b.type)
      BY <1>4, <2>1, RowOf
    <3>4. Bytes(v, a.type) = x /\ HoldsBytes(v, a.type)
      BY <2>3, <3>1 DEF Bytes, HoldsBytes, ByteKinds, TextKinds
    <3>5. x \in Seq(Byte) /\ BytesOf(x, Cell(b, r), b.type)
      BY <3>3, <3>4, KeptBytes
    <3>6. Bytes(x, t) = x /\ HoldsBytes(x, t)
      BY DEF Bytes, HoldsBytes, ByteKinds, TextKinds
    <3>7. Kept(x, t, Cell(b, r), b.type) /\ x # Null
      BY <3>5, <3>6, BytesKept, BytesThere
    <3> QED
      BY <3>2, <3>3, <3>7, Zenon DEF RowMade
  <2> QED
    BY <2>2, <2>3
<1> HIDE DEF vals
<1>5. Made(a, Leaf(t, vals), t, c)
  BY <1>2, <1>3, <1>4, ColumnMade, Zenon
<1> QED
  BY <1>1, <1>5, Zenon

\* Text that the caller has reason to decode as hex.
Readable(prefixed, a) ==
    \A r \in 1..a.len : Cell(a, r) # Null =>
        Cell(a, r).enc = "0x" \/ (~prefixed /\ Cell(a, r).enc = "hex")

\* hex_decode_column: the bytes of text with a prefix or, by the other call,
\* without one, or no column.
LEMMA HexDecodeMade ==
    ASSUME NEW a, NEW c, a.len \in Nat, a.type.k \in TextKinds,
           NEW t, t.k \in ByteKinds, NEW prefixed \in BOOLEAN,
           Readable(prefixed, a)
    PROVE  Made(a, hex_decode_column(prefixed, a, t), t, c)
<1> DEFINE digits(v) == IF prefixed /\ v.enc = "hex" THEN SubSeq(v.body, 3, Len(v.body)) ELSE v.body
           wrong(v) == \/ v.enc \notin {"hex", "0x"}
                       \/ ~prefixed /\ v.enc = "0x"
                       \/ prefixed /\ v.enc = "hex" /\ Len(v.body) < 2
                       \/ Len(digits(v)) % 2 = 1
           value(v) == IF wrong(v) THEN Fail ELSE Unhex(digits(v))
           vals == [r \in 1..a.len |-> IF Cell(a, r) = Null THEN Null ELSE value(Cell(a, r))]
<1>1. hex_decode_column(prefixed, a, t) = Leaf(t, vals)
  BY Zenon DEF hex_decode_column, Cells
<1>2. IsColumn(vals, a.len)
  <2> HIDE DEF value
  <2> QED
    BY DEF IsColumn
<1>3. \A r \in 1..a.len : Cell(a, r) = Null => vals[r] = Null
  <2> HIDE DEF value
  <2> QED
    OBVIOUS
<1>4. ASSUME NEW b, Holds(a, b), NEW r \in 1..a.len, Cell(a, r) # Null
      PROVE  RowMade(vals[r], a, t, b, r, c)
  <2>1. PICK v : v = Cell(a, r)
    OBVIOUS
  <2>2. vals[r] = value(v)
    <3> HIDE DEF value
    <3> QED
      BY <1>4, <2>1
  <2>3. v.enc = "0x" \/ (~prefixed /\ v.enc = "hex")
    BY <1>4, <2>1 DEF Readable
  <2>4. digits(v) = v.body
    BY <2>3
  <2>5. value(v) = Fail \/ value(v) = Unhex(v.body)
    <3> HIDE DEF wrong, digits
    <3> QED
      BY <2>4
  <2> HIDE DEF value, vals
  <2>6. CASE value(v) = Fail
    BY <2>2, <2>6, Zenon DEF RowMade
  <2>7. CASE value(v) = Unhex(v.body)
    <3>1. PICK x : x = Unhex(v.body)
      OBVIOUS
    <3>2. vals[r] = x
      BY <2>2, <2>7, <3>1
    <3>3. Cell(b, r) # Null /\ Kept(v, a.type, Cell(b, r), b.type)
      BY <1>4, <2>1, RowOf
    <3>4. Bytes(v, a.type) = x /\ HoldsBytes(v, a.type)
      BY <2>3, <3>1 DEF Bytes, HoldsBytes, ByteKinds, TextKinds
    <3>5. x \in Seq(Byte) /\ BytesOf(x, Cell(b, r), b.type)
      BY <3>3, <3>4, KeptBytes
    <3>6. Bytes(x, t) = x /\ HoldsBytes(x, t)
      BY DEF Bytes, HoldsBytes, ByteKinds, TextKinds
    <3>7. Kept(x, t, Cell(b, r), b.type) /\ x # Null
      BY <3>5, <3>6, BytesKept, BytesThere
    <3> QED
      BY <3>2, <3>3, <3>7, Zenon DEF RowMade
  <2> QED
    BY <2>5, <2>6, <2>7
<1> HIDE DEF vals
<1>5. Made(a, Leaf(t, vals), t, c)
  BY <1>2, <1>3, <1>4, ColumnMade, Zenon
<1> QED
  BY <1>1, <1>5, Zenon

\* u256_column_from_binary: the number the bytes spell, if it has a Word and
\* no sign bit.
LEMMA FromBinaryMade ==
    ASSUME NEW a, NEW c, a.len \in Nat, a.type.k \in ByteKinds
    PROVE  Made(a, u256_column_from_binary(a), Decimal256, c)
<1> DEFINE value(v) == IF Len(v) > Word \/ 2 * Unsigned(v) >= Pow(Word) THEN Fail ELSE Unsigned(v)
           vals == [r \in 1..a.len |-> IF Cell(a, r) = Null THEN Null ELSE value(Cell(a, r))]
<1>1. u256_column_from_binary(a) = Leaf(Decimal256, vals)
  BY Zenon DEF u256_column_from_binary, Cells
<1>2. IsColumn(vals, a.len)
  <2> HIDE DEF value
  <2> QED
    BY DEF IsColumn
<1>3. \A r \in 1..a.len : Cell(a, r) = Null => vals[r] = Null
  <2> HIDE DEF value
  <2> QED
    OBVIOUS
<1>4. ASSUME NEW b, Holds(a, b), NEW r \in 1..a.len, Cell(a, r) # Null
      PROVE  RowMade(vals[r], a, Decimal256, b, r, c)
  <2>1. PICK v : v = Cell(a, r)
    OBVIOUS
  <2>2. vals[r] = value(v)
    <3> HIDE DEF value
    <3> QED
      BY <1>4, <2>1
  <2>3. CASE Len(v) > Word \/ 2 * Unsigned(v) >= Pow(Word)
    <3>1. value(v) = Fail
      BY <2>3
    <3> HIDE DEF value, vals
    <3> QED
      BY <2>2, <3>1, Zenon DEF RowMade
  <2>4. CASE ~(Len(v) > Word \/ 2 * Unsigned(v) >= Pow(Word))
    <3>1. PICK x : x = Unsigned(v)
      OBVIOUS
    <3>2. vals[r] = x
      BY <2>2, <2>4, <3>1
    <3> HIDE DEF value, vals
    <3>3. /\ Cell(b, r) # Null /\ Kept(v, a.type, Cell(b, r), b.type)
          /\ TypedCell(b.type, Cell(b, r))
      BY <1>4, <2>1, RowOf
    <3>4. Bytes(v, a.type) = v /\ HoldsBytes(v, a.type)
      BY DEF Bytes, HoldsBytes, ByteKinds, TextKinds
    <3>5. v \in Seq(Byte) /\ BytesOf(v, Cell(b, r), b.type)
      BY <3>3, <3>4, KeptBytes
    <3>6. 2 * Unsigned(v) < Pow(Word)
      <4>1. Unsigned(v) \in Nat /\ Pow(Word) \in Nat
        BY <3>5, SizesAssumption, Digits, PowPositive
      <4> QED
        BY <2>4, <4>1
    <3>7. NumberOf(x, Cell(b, r), b.type) /\ InWidth(x, Word)
      BY <3>1, <3>3, <3>5, <3>6, BytesToNumber
    <3>8. Decimal256.k = "decimal256"
      BY DEF Decimal256, Type
    <3>9. Decimal256.k \in Decimals /\ Size(Decimal256) = Word
      BY <3>8 DEF Decimals, Size
    <3>10. Kept(x, Decimal256, Cell(b, r), b.type)
      BY <3>7, <3>9, Zenon DEF Kept
    <3>11. x # Null
      BY <3>7, NullAssumption DEF InWidth
    <3> QED
      BY <3>2, <3>3, <3>10, <3>11, Zenon DEF RowMade
  <2> QED
    BY <2>3, <2>4
<1> HIDE DEF vals
<1>5. Made(a, Leaf(Decimal256, vals), Decimal256, c)
  BY <1>2, <1>3, <1>4, ColumnMade, Zenon
<1> QED
  BY <1>1, <1>5, Zenon

\* A type without children is of its kind.
LEMMA KindOf ==
    ASSUME NEW k
    PROVE  Type(k).k = k
BY DEF Type

\* u256_column_to_binary: the bytes of a number that is not negative.
LEMMA ToBinaryMade ==
    ASSUME NEW a, NEW c, a.len \in Nat, a.type.k \in Decimals
    PROVE  Made(a, u256_column_to_binary(a), Type("binary"), c)
<1>0. PICK t : t = Type("binary") /\ t.k = "binary"
  BY KindOf, Zenon
<1> DEFINE value(v) == IF v < 0 THEN Fail ELSE Trimmed(BeBytes(v, Word))
           vals == [r \in 1..a.len |-> IF Cell(a, r) = Null THEN Null ELSE value(Cell(a, r))]
<1>1. u256_column_to_binary(a) = Leaf(Type("binary"), vals)
  BY Zenon DEF u256_column_to_binary, Cells
<1>2. IsColumn(vals, a.len)
  <2> HIDE DEF value
  <2> QED
    BY DEF IsColumn
<1>3. \A r \in 1..a.len : Cell(a, r) = Null => vals[r] = Null
  <2> HIDE DEF value
  <2> QED
    OBVIOUS
<1>4. ASSUME NEW b, Holds(a, b), NEW r \in 1..a.len, Cell(a, r) # Null
      PROVE  RowMade(vals[r], a, t, b, r, c)
  <2>1. PICK v : v = Cell(a, r)
    OBVIOUS
  <2>2. vals[r] = value(v)
    <3> HIDE DEF value
    <3> QED
      BY <1>4, <2>1
  <2>3. CASE v < 0
    <3>1. value(v) = Fail
      BY <2>3
    <3> HIDE DEF value, vals
    <3> QED
      BY <2>2, <3>1, Zenon DEF RowMade
  <2>4. CASE ~(v < 0)
    <3>1. PICK x : x = Trimmed(BeBytes(v, Word))
      OBVIOUS
    <3>2. vals[r] = x
      BY <2>2, <2>4, <3>1
    <3> HIDE DEF value, vals
    <3>3. /\ Cell(b, r) # Null /\ Kept(v, a.type, Cell(b, r), b.type)
          /\ TypedCell(b.type, Cell(b, r))
      BY <1>4, <2>1, RowOf
    <3>4. InWidth(v, Word) /\ NumberOf(v, Cell(b, r), b.type)
      BY <3>3, KeptNumber
    <3>5. v >= 0
      BY <2>4, <3>4 DEF InWidth
    <3>6. x \in Seq(Byte) /\ BytesOf(x, Cell(b, r), b.type)
      BY <3>1, <3>3, <3>4, <3>5, NumberToTrimmed
    <3>7. Bytes(x, t) = x /\ HoldsBytes(x, t)
      BY <1>0 DEF Bytes, HoldsBytes, ByteKinds, TextKinds
    <3>8. Kept(x, t, Cell(b, r), b.type) /\ x # Null
      BY <3>6, <3>7, BytesKept, BytesThere
    <3> QED
      BY <3>2, <3>3, <3>8, Zenon DEF RowMade
  <2> QED
    BY <2>3, <2>4
<1> HIDE DEF vals
<1>5. Made(a, Leaf(t, vals), t, c)
  BY <1>2, <1>3, <1>4, ColumnMade, Zenon
<1> QED
  BY <1>1, <1>0, <1>5, Zenon

\* decimal256_to_be32: the bytes of the number, with its sign.
LEMMA Be32Made ==
    ASSUME NEW a, NEW c, a.len \in Nat, a.type.k = "decimal256"
    PROVE  Made(a, decimal256_to_be32(a), Type("binary"), c)
<1>0. PICK t : t = Type("binary") /\ t.k = "binary"
  BY KindOf, Zenon
<1> DEFINE vals == [r \in 1..a.len |-> IF Cell(a, r) = Null THEN Null ELSE BeBytes(Cell(a, r), Word)]
<1>1. decimal256_to_be32(a) = Leaf(Type("binary"), vals)
  BY Zenon DEF decimal256_to_be32, Cells
<1>2. IsColumn(vals, a.len)
  BY DEF IsColumn
<1>3. \A r \in 1..a.len : Cell(a, r) = Null => vals[r] = Null
  OBVIOUS
<1>4. ASSUME NEW b, Holds(a, b), NEW r \in 1..a.len, Cell(a, r) # Null
      PROVE  RowMade(vals[r], a, t, b, r, c)
  <2>1. PICK v : v = Cell(a, r)
    OBVIOUS
  <2>2. PICK x : x = BeBytes(v, Word)
    OBVIOUS
  <2>3. vals[r] = x
    BY <1>4, <2>1, <2>2
  <2> HIDE DEF vals
  <2>4. /\ Cell(b, r) # Null /\ Kept(v, a.type, Cell(b, r), b.type)
        /\ TypedCell(b.type, Cell(b, r))
    BY <1>4, <2>1, RowOf
  <2>5. a.type.k \in Decimals /\ Size(a.type) = Word
    BY DEF Decimals, Size
  <2>6. InWidth(v, Word) /\ NumberOf(v, Cell(b, r), b.type)
    BY <2>4, <2>5, KeptNumber
  <2>7. x \in Seq(Byte) /\ BytesOf(x, Cell(b, r), b.type)
    BY <2>2, <2>4, <2>6, NumberToBytes
  <2>8. Bytes(x, t) = x /\ HoldsBytes(x, t)
    BY <1>0 DEF Bytes, HoldsBytes, ByteKinds, TextKinds
  <2>9. Kept(x, t, Cell(b, r), b.type) /\ x # Null
    BY <2>7, <2>8, BytesKept, BytesThere
  <2> QED
    BY <2>3, <2>4, <2>9, Zenon DEF RowMade
<1> HIDE DEF vals
<1>5. Made(a, Leaf(t, vals), t, c)
  BY <1>2, <1>3, <1>4, ColumnMade, Zenon
<1> QED
  BY <1>0, <1>1, <1>5, Zenon

\* decimal128_to_be16: the same for half a word.
LEMMA Be16Made ==
    ASSUME NEW a, NEW c, a.len \in Nat, a.type.k = "decimal128"
    PROVE  Made(a, decimal128_to_be16(a), Type("binary"), c)
<1>0. PICK t : t = Type("binary") /\ t.k = "binary"
  BY KindOf, Zenon
<1> DEFINE vals == [r \in 1..a.len |-> IF Cell(a, r) = Null THEN Null ELSE BeBytes(Cell(a, r), Half)]
<1>1. decimal128_to_be16(a) = Leaf(Type("binary"), vals)
  BY Zenon DEF decimal128_to_be16, Cells
<1>2. IsColumn(vals, a.len)
  BY DEF IsColumn
<1>3. \A r \in 1..a.len : Cell(a, r) = Null => vals[r] = Null
  OBVIOUS
<1>4. ASSUME NEW b, Holds(a, b), NEW r \in 1..a.len, Cell(a, r) # Null
      PROVE  RowMade(vals[r], a, t, b, r, c)
  <2>1. PICK v : v = Cell(a, r)
    OBVIOUS
  <2>2. PICK x : x = BeBytes(v, Half)
    OBVIOUS
  <2>3. vals[r] = x
    BY <1>4, <2>1, <2>2
  <2> HIDE DEF vals
  <2>4. /\ Cell(b, r) # Null /\ Kept(v, a.type, Cell(b, r), b.type)
        /\ TypedCell(b.type, Cell(b, r))
    BY <1>4, <2>1, RowOf
  <2>5. a.type.k \in Decimals /\ Size(a.type) = Half
    BY DEF Decimals, Size
  <2>6. InWidth(v, Half) /\ NumberOf(v, Cell(b, r), b.type)
    BY <2>4, <2>5, KeptNumber
  <2>7. x \in Seq(Byte) /\ BytesOf(x, Cell(b, r), b.type)
    BY <2>2, <2>4, <2>6, NumberToBytes
  <2>8. Bytes(x, t) = x /\ HoldsBytes(x, t)
    BY <1>0 DEF Bytes, HoldsBytes, ByteKinds, TextKinds
  <2>9. Kept(x, t, Cell(b, r), b.type) /\ x # Null
    BY <2>7, <2>8, BytesKept, BytesThere
  <2> QED
    BY <2>3, <2>4, <2>9, Zenon DEF RowMade
<1> HIDE DEF vals
<1>5. Made(a, Leaf(t, vals), t, c)
  BY <1>2, <1>3, <1>4, ColumnMade, Zenon
<1> QED
  BY <1>0, <1>1, <1>5, Zenon

\* cast_with_options on a column.
LEMMA SafeCastMade ==
    ASSUME NEW a, NEW c, a.len \in Nat, NEW to, NEW allow \in BOOLEAN, allow => Forgiving(c),
           \A r \in 1..a.len : Cell(a, r) # Null => Spelled(Cell(a, r), a.type, to)
    PROVE  Made(a, SafeCast(a, to, allow), to, c)
<1> DEFINE value(v) == LET w == ArrowCast(a.type, to, v)
                       IN  IF allow /\ w = Fail THEN Null ELSE w
           vals == [r \in 1..a.len |-> IF Cell(a, r) = Null THEN Null ELSE value(Cell(a, r))]
<1>1. CASE ~CanCast(a.type, to)
  <2>1. SafeCast(a, to, allow) = Leaf(to, <<Fail>>)
    BY <1>1 DEF SafeCast
  <2>2. PICK out : out = Leaf(to, <<Fail>>)
    OBVIOUS
  <2>3. out.type = to /\ out.vals = <<Fail>>
    BY <2>2 DEF Leaf
  <2>4. Failed(out)
    BY <2>3 DEF Failed
  <2> QED
    BY <2>1, <2>2, <2>3, <2>4, Zenon DEF Made
<1>2. CASE CanCast(a.type, to)
  <2>1. SafeCast(a, to, allow) = Leaf(to, vals)
    BY <1>2, Zenon DEF SafeCast, Cells
  <2>2. IsColumn(vals, a.len)
    <3> HIDE DEF value
    <3> QED
      BY DEF IsColumn
  <2>3. \A r \in 1..a.len : Cell(a, r) = Null => vals[r] = Null
    <3> HIDE DEF value
    <3> QED
      OBVIOUS
  <2>4. ASSUME NEW b, Holds(a, b), Measures(b, a, to), NEW r \in 1..a.len, Cell(a, r) # Null
        PROVE  RowMade(vals[r], a, to, b, r, c)
    <3>1. PICK v : v = Cell(a, r)
      OBVIOUS
    <3>2. PICK x : x = ArrowCast(a.type, to, v)
      OBVIOUS
    <3>3. vals[r] = value(v)
      <4> HIDE DEF value
      <4> QED
        BY <2>4, <3>1
    <3>4. Cell(b, r) # Null /\ Kept(v, a.type, Cell(b, r), b.type)
      BY <2>4, <3>1, RowOf
    <3>5. v # Null /\ v # Fail
      BY <2>4, <3>1 DEF Holds, Clean
    <3>6. Spelled(v, a.type, to)
      BY <2>4, <3>1
    <3>7. CASE x = Fail
      <4>1. vals[r] = Fail \/ (vals[r] = Null /\ Forgiving(c))
        <5>1. CASE allow
          BY <3>2, <3>3, <3>7, <5>1
        <5>2. CASE ~allow
          BY <3>2, <3>3, <3>7, <5>2
        <5> QED
          BY <5>1, <5>2
      <4> HIDE DEF value, vals
      <4>2. to.k \in Decimals /\ TooWide(v, a.type, Size(to))
        BY <1>2, <3>2, <3>4, <3>5, <3>6, <3>7, CastRefused, Zenon
      <4>3. Forgiving(c) => Refused(c, a, to, r)
        BY <3>1, <4>2, Zenon DEF Refused
      <4> QED
        BY <4>1, <4>3, Zenon DEF RowMade
    <3>8. CASE x # Fail
      <4>1. vals[r] = x
        BY <3>2, <3>3, <3>8
      <4> HIDE DEF value, vals
      <4>2. PICK w : w = Cell(b, r)
        OBVIOUS
      <4>3. a.type.k = "float64" /\ to.k # "float64" => w = v /\ b.type = a.type
        BY <2>4, <3>1, <4>2 DEF Measures
      <4>4. Kept(v, a.type, w, b.type)
        BY <3>4, <4>2, Zenon
      <4>5. Kept(x, to, w, b.type) /\ x # Null
        BY <1>2, <3>2, <3>5, <3>6, <3>8, <4>3, <4>4, KeptCast
      <4> QED
        BY <3>4, <4>1, <4>2, <4>5, Zenon DEF RowMade
    <3> QED
      BY <3>7, <3>8
  <2> HIDE DEF vals
  <2>5. Made(a, Leaf(to, vals), to, c)
    BY <2>2, <2>3, <2>4, ColumnMade, Zenon
  <2> QED
    BY <2>1, <2>5, Zenon
<1> QED
  BY <1>1, <1>2

\* Every decimal has a text, in decimal digits.
LEMMA NumbersShown ==
    ASSUME NEW a, NEW c, a.len \in Nat, a.type.k \in Decimals, NEW allow \in BOOLEAN,
           allow => Forgiving(c)
    PROVE  \E m : /\ m = SafeCast(a, Type("utf8"), allow)
                  /\ m.type.k = "utf8" /\ m.len = a.len
                  /\ \A r \in 1..m.len : Cell(m, r) # Null => Cell(m, r).enc = "dec"
                  /\ \A b : Holds(a, b) => Holds(m, b) /\ NullsRefused(a, m, c)
<1>0. PICK to : to = Type("utf8") /\ to.k = "utf8"
  BY KindOf, Zenon
<1>1. CanCast(a.type, to) /\ to.k \in TextKinds /\ a.type.k \in NumberKinds
  BY <1>0, Kinds DEF CanCast, TextKinds
<1> DEFINE value(v) == LET w == ArrowCast(a.type, to, v)
                       IN  IF allow /\ w = Fail THEN Null ELSE w
           vals == [r \in 1..a.len |-> IF Cell(a, r) = Null THEN Null ELSE value(Cell(a, r))]
<1>2. SafeCast(a, to, allow) = Leaf(to, vals)
  BY <1>1, Zenon DEF SafeCast, Cells
<1>3. IsColumn(vals, a.len)
  <2> HIDE DEF value
  <2> QED
    BY DEF IsColumn
<1>4. \A v : ArrowCast(a.type, to, v) = [enc |-> "dec", body |-> v]
  <2>1. to.k \notin Decimals /\ to.k # "float64" /\ a.type.k # "float64"
    BY <1>1, Kinds
  <2> QED
    BY <1>1, <2>1 DEF ArrowCast
<1>5. ASSUME NEW r \in 1..a.len
      PROVE  vals[r] = Null \/ vals[r].enc = "dec"
  <2>1. PICK v : v = Cell(a, r)
    OBVIOUS
  <2>2. PICK x : x = [enc |-> "dec", body |-> v]
    OBVIOUS
  <2>3. x = ArrowCast(a.type, to, v) /\ x.enc = "dec"
    BY <1>4, <2>2
  <2>5. value(v) \in {Null, x}
    BY <2>3
  <2>4. vals[r] \in {Null, x}
    <3> HIDE DEF value
    <3> QED
      BY <2>1, <2>5
  <2> HIDE DEF vals, value
  <2> QED
    BY <2>3, <2>4
<1>6. ASSUME NEW b, Holds(a, b), NEW r \in 1..a.len
      PROVE  vals[r] # Fail
  <2>1. PICK v : v = Cell(a, r)
    OBVIOUS
  <2>2. CASE v = Null
    <3> HIDE DEF value
    <3>1. vals[r] = Null
      BY <1>6, <2>1, <2>2
    <3> QED
      BY <3>1, NullAssumption
  <2>3. CASE v # Null
    <3>1. vals[r] = value(v)
      <4> HIDE DEF value
      <4> QED
        BY <2>1, <2>3
    <3>2. Kept(v, a.type, Cell(b, r), b.type)
      BY <1>6, <2>1, <2>3, RowOf
    <3>3. v \in Int
      BY <3>2, KeptNumber DEF InWidth
    <3>4. PICK x : x = [enc |-> "dec", body |-> v]
      OBVIOUS
    <3>5. ArrowCast(a.type, to, v) = x
      BY <1>4, <3>4
    <3>6. x # Fail
      BY <3>3, <3>4, NullAssumption DEF Encodings
    <3>7. value(v) = x
      BY <3>5, <3>6
    <3> HIDE DEF value, vals
    <3> QED
      BY <3>1, <3>6, <3>7
  <2> QED
    BY <2>2, <2>3
<1> HIDE DEF vals
<1>7. PICK m : m = Leaf(to, vals)
  OBVIOUS
<1>8. /\ m.vals = vals /\ m.type = to /\ m.len = a.len
      /\ \A r \in 1..a.len : Cell(m, r) = vals[r]
  BY <1>3, <1>7, LeafFacts
<1>9. DOMAIN vals = 1..a.len
  BY <1>3 DEF IsColumn
<1>10. Made(a, m, to, c)
  <2>1. \A r \in 1..a.len : Cell(a, r) # Null => Spelled(Cell(a, r), a.type, to)
    BY <1>1, Kinds DEF Spelled
  <2> QED
    BY <1>2, <1>7, <2>1, SafeCastMade, Zenon
<1>11. ASSUME NEW b, Holds(a, b)
       PROVE  Holds(m, b) /\ NullsRefused(a, m, c)
  <2>1. ~Failed(m)
    BY <1>6, <1>8, <1>9, <1>11 DEF Failed
  <2>2. Measures(b, a, to)
    BY Kinds DEF Measures
  <2> QED
    BY <1>10, <1>11, <2>1, <2>2, Zenon DEF Made
<1>12. ASSUME NEW r \in 1..m.len, Cell(m, r) # Null
       PROVE  Cell(m, r).enc = "dec"
  BY <1>5, <1>8, <1>12
<1>13. m = SafeCast(a, Type("utf8"), allow) /\ m.type.k = "utf8" /\ m.len = a.len
  BY <1>0, <1>2, <1>7, <1>8, Zenon
<1> QED
  BY <1>11, <1>12, <1>13, Zenon

\* cast_column: decimals reach floats by way of text, and none is lost.
LEMMA CastColumnMade ==
    ASSUME NEW a, NEW c, a.len \in Nat, NEW to, NEW allow \in BOOLEAN, allow => Forgiving(c),
           Asked(a, to)
    PROVE  Made(a, CastColumn(a, to, allow), to, c)
<1>1. CASE a.type.k \in Decimals /\ to.k = "float64"
  <2>1. PICK m : /\ m = SafeCast(a, Type("utf8"), allow)
                 /\ m.type.k = "utf8" /\ m.len = a.len
                 /\ \A r \in 1..m.len : Cell(m, r) # Null => Cell(m, r).enc = "dec"
                 /\ \A b : Holds(a, b) => Holds(m, b) /\ NullsRefused(a, m, c)
    BY <1>1, NumbersShown
  <2>2. PICK out : out = SafeCast(m, to, allow)
    OBVIOUS
  <2>3. CastColumn(a, to, allow) = out
    BY <1>1, <2>1, <2>2 DEF CastColumn
  <2>4. to.k \notin Decimals /\ to.k \notin ByteKinds /\ m.type.k \notin Decimals
        /\ m.type.k \notin ByteKinds /\ m.type.k # "float64"
    BY <1>1, <2>1 DEF Decimals, ByteKinds
  <2>5. \A r \in 1..m.len : Cell(m, r) # Null => Spelled(Cell(m, r), m.type, to)
    BY <2>1, <2>4 DEF Spelled
  <2>6. Made(m, out, to, c)
    BY <2>1, <2>2, <2>5, SafeCastMade, Zenon
  <2>7. ASSUME NEW b, Holds(a, b), ~Failed(out)
        PROVE  Holds(out, b) /\ NullsRefused(a, out, c)
    <3>1. Holds(m, b) /\ NullsRefused(a, m, c)
      BY <2>1, <2>7, Zenon
    <3>2. Measures(b, m, to)
      BY <2>4 DEF Measures
    <3>3. Holds(out, b) /\ NullsRefused(m, out, c) /\ out.type = to
      BY <2>6, <2>7, <3>1, <3>2, Zenon DEF Made
    <3>4. \A r \in 1..m.len : Cell(a, r) # Null => Cell(m, r) # Null
      BY <2>1, <2>4, <3>1, Zenon DEF NullsRefused, Refused
    <3>5. \A r \in 1..m.len : Cell(m, r) # Null => Cell(out, r) # Null
      BY <2>4, <3>3, Zenon DEF NullsRefused, Refused
    <3> QED
      BY <2>1, <3>3, <3>4, <3>5, Zenon DEF NullsRefused
  <2>8. Made(a, out, to, c)
    BY <2>1, <2>6, <2>7, Zenon DEF Made
  <2> QED
    BY <2>3, <2>8, Zenon
<1>2. CASE ~(a.type.k \in Decimals /\ to.k = "float64")
  <2>1. CastColumn(a, to, allow) = SafeCast(a, to, allow)
    BY <1>2 DEF CastColumn
  <2>2. \A r \in 1..a.len : Cell(a, r) # Null => Spelled(Cell(a, r), a.type, to)
    <3>1. \A r \in 1..a.len : Cell(a, r) # Null => Cell(a, r).enc \in Encoding(a)
      BY DEF Encoding
    <3> QED
      BY <3>1 DEF Asked, Spelled
  <2> QED
    BY <2>1, <2>2, SafeCastMade, Zenon
<1> QED
  BY <1>1, <1>2

-----------------------------------------------------------------------------
\* The calls.

\* The arrays of call c and the schema computed beside them, column by column.
Fitting(schema, arrays, c) ==
    /\ IsColumn(schema, Len(batch)) /\ IsColumn(arrays, Len(batch))
    /\ \A i \in 1..Len(batch) :
          /\ Made(batch[i].array, arrays[i], schema[i].type, c)
          /\ schema[i].nullable = batch[i].nullable

\* What holds between two calls: the columns stand where they stood and hold,
\* one by one, what they are meant to, with nulls only where nulls may be; no
\* schema was wrong.
CastInv ==
    /\ IsBatch(batch)
    /\ DOMAIN batch = DOMAIN meant
    /\ Simple => \A i \in DOMAIN meant :
          Holds(batch[i].array, meant[i].array) /\ NullsInPlace(batch[i])
    /\ SchemasAgree

\* A step takes no value away that arrow's cast does not refuse.
NullsStep ==
    Simple => \A i \in DOMAIN batch : \A r \in 1..batch[i].array.len :
        LET v == Cell(batch[i].array, r)  t == batch[i].array.type  to == batch'[i].array.type
        IN  v # Null /\ Cell(batch'[i].array, r) = Null
                => Forgiving(call') /\ to.k \in Decimals /\ TooWide(v, t, Size(to))

\* A step that leaves the batch alone.
LEMMA BatchLeft ==
    ASSUME CastInv, UNCHANGED <<batch, meant>>, SchemasAgree'
    PROVE  CastInv' /\ NullsStep
<1>1. CastInv'
  BY DEF CastInv, Simple
<1>2. NullsStep
  BY DEF NullsStep
<1> QED
  BY <1>1, <1>2

\* A column of floats stands for itself.
LEMMA FloatHolds ==
    ASSUME NEW a, NEW b, Holds(a, b), a.type.k = "float64"
    PROVE  Holds(a, a)
<1>1. ASSUME NEW r \in 1..a.len, ~IsNull(a, r)
      PROVE  TypedCell(a.type, a.vals[r])
  <2>1. Cell(a, r) = a.vals[r] /\ Cell(a, r) # Null
    BY <1>1 DEF Holds, Clean, Cell
  <2>2. Kept(Cell(a, r), a.type, Cell(b, r), b.type)
    BY <2>1, RowOf
  <2>3. Cell(a, r) \in Int /\ Rounded(Cell(a, r)) = Cell(a, r)
    BY <2>2, KeptFloat
  <2> QED
    BY <2>1, <2>3 DEF TypedCell
<1>2. TypedCells(a)
  BY <1>1 DEF TypedCells
<1>3. ColumnKept(a, a)
  BY <1>2, KeptStart DEF ColumnKept, TypedCells, Cell
<1> QED
  BY <1>2, <1>3 DEF Holds

\* A call whose schema fits its arrays.
LEMMA CallStep ==
    ASSUME CastInv, NEW c, NEW schema, NEW arrays, Fitting(schema, arrays, c),
           Call(c, schema, arrays)
    PROVE  CastInv' /\ NullsStep
<1>1. CASE \E i \in DOMAIN arrays : Failed(arrays[i])
  <2>1. UNCHANGED <<batch, meant>> /\ outcome' = "error"
    BY <1>1 DEF Call
  <2>2. SchemasAgree'
    BY <2>1 DEF SchemasAgree
  <2> QED
    BY <2>1, <2>2, BatchLeft
<1>2. CASE ~\E i \in DOMAIN arrays : Failed(arrays[i])
  <2>1. PICK n \in Nat \ {0} : n = Len(batch) /\ DOMAIN batch = 1..n /\ DOMAIN meant = 1..n
    BY DEF CastInv, IsBatch
  <2>2. PICK l \in Nat : \A i \in 1..n : batch[i].array.len = l
    BY <2>1 DEF CastInv, IsBatch
  <2>3. DOMAIN arrays = 1..n /\ DOMAIN schema = 1..n
    BY <2>1 DEF Fitting, IsColumn
  <2>4. Len(arrays) = n /\ Len(schema) = n
    <3> DEFINE A == {arrays[i] : i \in 1..n}
               S == {schema[i] : i \in 1..n}
    <3>1. arrays \in [1..n -> A] /\ schema \in [1..n -> S]
      BY <2>1 DEF Fitting, IsColumn
    <3> HIDE DEF A, S
    <3> QED
      BY <3>1
  <2>5. \A i \in 1..n : /\ Made(batch[i].array, arrays[i], schema[i].type, c)
                        /\ ~Failed(arrays[i])
                        /\ schema[i].nullable = batch[i].nullable
    BY <1>2, <2>1, <2>3 DEF Fitting
  <2>6. \A i \in 1..n : arrays[i].type = schema[i].type /\ arrays[i].len = l
    BY <2>2, <2>5 DEF Made
  <2>7. arrays # <<>>
    BY <2>4
  <2>8. Describes(schema, arrays)
    BY <2>3, <2>4, <2>6, <2>7 DEF Describes
  <2> DEFINE left(i) == batch[i].array.type.k = "float64" /\ arrays[i].type.k # "float64"
             ref(i) == IF left(i) THEN batch[i].array ELSE meant[i].array
  <2>9. ASSUME Simple, NEW i \in 1..n
        PROVE  /\ Holds(batch[i].array, meant[i].array)
               /\ Holds(arrays[i], ref(i))
               /\ NullsRefused(batch[i].array, arrays[i], c)
               /\ NullsInPlace(batch[i])
    <3>1. PICK a : a = batch[i].array
      OBVIOUS
    <3>2. PICK b : b = ref(i)
      OBVIOUS
    <3>3. Holds(a, meant[i].array) /\ NullsInPlace(batch[i])
      BY <2>1, <2>9, <3>1 DEF CastInv
    <3>4. Holds(a, b) /\ Measures(b, a, schema[i].type)
      <4>1. CASE left(i)
        <5>1. b = a /\ a.type.k = "float64"
          BY <3>1, <3>2, <4>1
        <5> QED
          BY <3>3, <5>1, FloatHolds DEF Measures
      <4>2. CASE ~left(i)
        <5>1. b = meant[i].array
          BY <3>2, <4>2
        <5>2. Measures(b, a, schema[i].type)
          BY <2>6, <3>1, <4>2 DEF Measures
        <5> QED
          BY <3>3, <5>1, <5>2
      <4> QED
        BY <4>1, <4>2
    <3>5. Made(a, arrays[i], schema[i].type, c) /\ ~Failed(arrays[i])
      BY <2>5, <3>1
    <3> HIDE DEF ref, left
    <3>6. Holds(arrays[i], b) /\ NullsRefused(a, arrays[i], c)
      BY <3>4, <3>5, Zenon DEF Made
    <3> QED
      BY <3>1, <3>2, <3>3, <3>6, Zenon
  <2>10. CASE ~NullsAllowed(schema, arrays)
    <3>1. UNCHANGED <<batch, meant>> /\ outcome' = "nulls" /\ call' = c
      BY <1>2, <2>8, <2>10 DEF Call
    <3>2. ASSUME Simple
          PROVE  /\ Forgiving(c)
                 /\ \E i \in DOMAIN batch : ~batch[i].nullable /\
                       \E r \in 1..batch[i].array.len, size \in {Half, Word} :
                           TooWide(Cell(batch[i].array, r), batch[i].array.type, size)
      <4>1. PICK i \in 1..n, r \in 1..l : IsNull(arrays[i], r) /\ ~batch[i].nullable
        BY <2>3, <2>5, <2>6, <2>10 DEF NullsAllowed
      <4>2. Cell(arrays[i], r) = Null
        BY <4>1 DEF Cell
      <4>3. Cell(batch[i].array, r) # Null
        BY <2>2, <2>9, <3>2, <4>1 DEF NullsInPlace
      <4>4. Refused(c, batch[i].array, arrays[i].type, r)
        BY <2>2, <2>9, <3>2, <4>2, <4>3 DEF NullsRefused
      <4>5. PICK size \in {Half, Word} : size = Size(arrays[i].type)
        BY DEF Size
      <4>6. Forgiving(c) /\ TooWide(Cell(batch[i].array, r), batch[i].array.type, size)
        BY <4>4, <4>5, Zenon DEF Refused
      <4> QED
        BY <2>1, <2>2, <4>1, <4>6, Zenon
    <3>3. Simple' <=> Simple
      BY <3>1 DEF Simple
    <3>4. SchemasAgree'
      BY <3>1, <3>2, <3>3 DEF SchemasAgree
    <3> QED
      BY <3>1, <3>4, BatchLeft
  <2>11. CASE NullsAllowed(schema, arrays)
    <3>1. outcome' = "ok" /\ batch' = Batch(schema, arrays) /\ meant' = Meant(arrays) /\ call' = c
      BY <1>2, <2>8, <2>11 DEF Call
    <3>2. DOMAIN batch' = 1..n /\ \A i \in 1..n : /\ batch'[i].array = arrays[i]
                                                  /\ batch'[i].nullable = batch[i].nullable
      BY <2>3, <2>5, <3>1 DEF Batch, Column
    <3>3. Len(batch') = n
      BY <2>3, <3>1 DEF Batch
    <3>4. IsBatch(batch)'
      BY <2>6, <3>2, <3>3 DEF IsBatch
    <3>5. DOMAIN meant' = 1..n
      BY <2>1, <3>1 DEF Meant
    <3>6. ~Simple => meant' = [i \in DOMAIN meant |-> meant[i]]
      BY <3>1 DEF Meant
    <3>7. Simple => \A i \in 1..n : meant'[i].array = ref(i)
      BY <2>1, <3>1 DEF Meant
    <3>8. Simple' => Simple
      BY <2>1, <3>5, <3>6 DEF Simple, Plain
    <3>9. ASSUME Simple, NEW i \in 1..n
          PROVE  Holds(batch'[i].array, meant'[i].array) /\ NullsInPlace(batch[i])'
      <4>1. Holds(arrays[i], ref(i))
        BY <2>9, <3>9
      <4>2. \A r \in 1..l : Cell(arrays[i], r) = Null => batch[i].nullable
        <5>1. \A r \in 1..l : Cell(arrays[i], r) = Null => IsNull(arrays[i], r)
          BY <2>6, <4>1 DEF Holds, Clean
        <5> QED
          BY <2>3, <2>5, <2>6, <2>11, <5>1 DEF NullsAllowed
      <4>3. NullsInPlace(batch[i])'
        BY <2>6, <3>2, <4>2 DEF NullsInPlace
      <4> QED
        BY <3>2, <3>7, <3>9, <4>1, <4>3
    <3>10. CastInv'
      <4>1. SchemasAgree'
        BY <3>1 DEF SchemasAgree
      <4> QED
        BY <3>2, <3>4, <3>5, <3>8, <3>9, <4>1, Zenon DEF CastInv
    <3>11. NullsStep
      BY <2>1, <2>2, <2>9, <3>1, <3>2 DEF NullsStep, NullsRefused, Refused
    <3> QED
      BY <3>10, <3>11
  <2> QED
    BY <2>10, <2>11
<1> QED
  BY <1>1, <1>2

\* The columns a call starts from.
LEMMA BatchColumns ==
    ASSUME CastInv
    PROVE  \E n \in Nat \ {0} :
              /\ n = Len(batch) /\ DOMAIN batch = 1..n
              /\ \A i \in 1..n : batch[i].array.len \in Nat
BY DEF CastInv, IsBatch

\* cast: the schema of cast_schema fits the columns that are cast by name.
LEMMA CastStep ==
    ASSUME CastInv, NEW map, NEW allow \in BOOLEAN, cast(map, allow)
    PROVE  CastInv' /\ NullsStep
<1>1. PICK n \in Nat \ {0} : /\ n = Len(batch) /\ DOMAIN batch = 1..n
                             /\ \A i \in 1..n : batch[i].array.len \in Nat
  BY BatchColumns
<1> DEFINE schema == cast_schema(map, Schema(batch))
           arrays == [i \in DOMAIN batch |->
                        IF Targets(map, batch[i].name) = <<>> THEN batch[i].array
                        ELSE CastColumn(batch[i].array, Targets(map, batch[i].name)[1][2], allow)]
<1>0. PICK c : c = [name |-> "cast", allow |-> allow]
  OBVIOUS
<1>6. allow => Forgiving(c)
  BY <1>0 DEF Forgiving
<1>2. IsColumn(schema, n) /\ IsColumn(arrays, n)
  BY <1>1 DEF IsColumn, cast_schema, FieldMap, Schema
<1>3. ASSUME NEW i \in 1..n
      PROVE  /\ Made(batch[i].array, arrays[i], schema[i].type, c)
             /\ schema[i].nullable = batch[i].nullable
  <2>1. PICK a : a = batch[i].array /\ a.len \in Nat
    BY <1>1
  <2>2. PICK ts : ts = Targets(map, batch[i].name)
    OBVIOUS
  <2>3. /\ schema[i].nullable = batch[i].nullable
        /\ schema[i].type = IF ts = <<>> THEN a.type ELSE ts[1][2]
    BY <1>1, <2>1, <2>2 DEF cast_schema, FieldMap, Schema
  <2>4. arrays[i] = IF ts = <<>> THEN a ELSE CastColumn(a, ts[1][2], allow)
    BY <1>1, <2>1, <2>2
  <2> HIDE DEF schema, arrays
  <2>5. CASE ts = <<>>
    BY <2>1, <2>3, <2>4, <2>5, ColumnLeft, Zenon
  <2>6. CASE ts # <<>>
    <3>1. PICK to : to = ts[1][2]
      OBVIOUS
    <3>2. Asked(a, to)
      BY <1>1, <2>1, <2>2, <2>6, <3>1 DEF cast
    <3>3. Made(a, CastColumn(a, to, allow), to, c)
      BY <1>6, <2>1, <3>2, CastColumnMade
    <3> QED
      BY <2>1, <2>3, <2>4, <2>6, <3>1, <3>3, Zenon
  <2> QED
    BY <2>5, <2>6
<1>4. Call(c, schema, arrays)
  BY <1>0 DEF cast
<1> HIDE DEF schema, arrays
<1>5. Fitting(schema, arrays, c)
  BY <1>1, <1>2, <1>3 DEF Fitting
<1> QED
  BY <1>4, <1>5, CallStep

\* cast_by_type.
LEMMA CastByTypeStep ==
    ASSUME CastInv, NEW from, NEW to, NEW allow \in BOOLEAN, cast_by_type(from, to, allow)
    PROVE  CastInv' /\ NullsStep
<1>1. PICK n \in Nat \ {0} : /\ n = Len(batch) /\ DOMAIN batch = 1..n
                             /\ \A i \in 1..n : batch[i].array.len \in Nat
  BY BatchColumns
<1> DEFINE schema == cast_schema_by_type(Schema(batch), from, to)
           arrays == [i \in DOMAIN batch |->
                        IF batch[i].array.type = from THEN CastColumn(batch[i].array, to, allow)
                        ELSE batch[i].array]
<1>0. PICK c : c = [name |-> "cast_by_type", allow |-> allow]
  OBVIOUS
<1>6. allow => Forgiving(c)
  BY <1>0 DEF Forgiving
<1>2. IsColumn(schema, n) /\ IsColumn(arrays, n)
  BY <1>1 DEF IsColumn, cast_schema_by_type, FieldMap, Schema
<1>3. ASSUME NEW i \in 1..n
      PROVE  /\ Made(batch[i].array, arrays[i], schema[i].type, c)
             /\ schema[i].nullable = batch[i].nullable
  <2>1. PICK a : a = batch[i].array /\ a.len \in Nat
    BY <1>1
  <2>2. /\ schema[i].nullable = batch[i].nullable
        /\ schema[i].type = IF a.type = from THEN to ELSE a.type
    BY <1>1, <2>1 DEF cast_schema_by_type, FieldMap, Schema
  <2>3. arrays[i] = IF a.type = from THEN CastColumn(a, to, allow) ELSE a
    BY <1>1, <2>1
  <2> HIDE DEF schema, arrays
  <2>4. CASE a.type # from
    BY <2>1, <2>2, <2>3, <2>4, ColumnLeft, Zenon
  <2>5. CASE a.type = from
    <3>1. Asked(a, to)
      BY <1>1, <2>1, <2>5 DEF cast_by_type
    <3>2. Made(a, CastColumn(a, to, allow), to, c)
      BY <1>6, <2>1, <3>1, CastColumnMade
    <3> QED
      BY <2>1, <2>2, <2>3, <2>5, <3>2, Zenon
  <2> QED
    BY <2>4, <2>5
<1>4. Call(c, schema, arrays)
  BY <1>0 DEF cast_by_type, Arrays
<1> HIDE DEF schema, arrays
<1>5. Fitting(schema, arrays, c)
  BY <1>1, <1>2, <1>3 DEF Fitting
<1> QED
  BY <1>4, <1>5, CallStep

\* base58_encode: schema_binary_to_string fits the columns that are encoded.
LEMMA Base58EncodeStep ==
    ASSUME CastInv, base58_encode
    PROVE  CastInv' /\ NullsStep
<1>1. PICK n \in Nat \ {0} : /\ n = Len(batch) /\ DOMAIN batch = 1..n
                             /\ \A i \in 1..n : batch[i].array.len \in Nat
  BY BatchColumns
<1> DEFINE schema == schema_binary_to_string(Schema(batch))
           arrays == Arrays(LAMBDA a :
                        CASE a.type.k = "binary" -> base58_encode_column(a, Type("utf8"))
                          [] a.type.k = "large_binary" -> base58_encode_column(a, Type("large_utf8"))
                          [] OTHER -> a)
<1>0. PICK c : c = Named("base58_encode")
  OBVIOUS
<1>2. IsColumn(schema, n) /\ IsColumn(arrays, n)
  BY <1>1 DEF IsColumn, schema_binary_to_string, FieldMap, Schema, Arrays
<1>3. ASSUME NEW i \in 1..n
      PROVE  /\ Made(batch[i].array, arrays[i], schema[i].type, c)
             /\ schema[i].nullable = batch[i].nullable
  <2>1. PICK a : a = batch[i].array /\ a.len \in Nat
    BY <1>1
  <2>2. PICK u : u = Type("utf8") /\ u.k = "utf8"
    BY KindOf, Zenon
  <2>3. PICK l : l = Type("large_utf8") /\ l.k = "large_utf8"
    BY KindOf, Zenon
  <2>4. /\ schema[i].nullable = batch[i].nullable
        /\ schema[i].type = IF a.type.k = "binary" THEN u
                            ELSE IF a.type.k = "large_binary" THEN l ELSE a.type
    BY <1>1, <2>1, <2>2, <2>3 DEF schema_binary_to_string, FieldMap, Schema
  <2>5. arrays[i] = IF a.type.k = "binary" THEN base58_encode_column(a, u)
                    ELSE IF a.type.k = "large_binary" THEN base58_encode_column(a, l) ELSE a
    BY <1>1, <2>1, <2>2, <2>3 DEF Arrays
  <2> HIDE DEF schema, arrays
  <2>6. CASE a.type.k = "binary"
    BY <2>1, <2>2, <2>4, <2>5, <2>6, Base58EncodeMade DEF ByteKinds, TextKinds
  <2>7. CASE a.type.k = "large_binary"
    BY <2>1, <2>3, <2>4, <2>5, <2>7, Base58EncodeMade DEF ByteKinds, TextKinds
  <2>8. CASE a.type.k \notin {"binary", "large_binary"}
    BY <2>1, <2>4, <2>5, <2>8, ColumnLeft
  <2> QED
    BY <2>6, <2>7, <2>8
<1>4. Call(c, schema, arrays)
  BY <1>0 DEF base58_encode, Encoded
<1> HIDE DEF schema, arrays
<1>5. Fitting(schema, arrays, c)
  BY <1>1, <1>2, <1>3 DEF Fitting
<1> QED
  BY <1>4, <1>5, CallStep

\* hex_encode, with a prefix and without.
LEMMA HexEncodeStep ==
    ASSUME CastInv, NEW prefixed \in BOOLEAN, hex_encode(prefixed)
    PROVE  CastInv' /\ NullsStep
<1>1. PICK n \in Nat \ {0} : /\ n = Len(batch) /\ DOMAIN batch = 1..n
                             /\ \A i \in 1..n : batch[i].array.len \in Nat
  BY BatchColumns
<1> DEFINE schema == schema_binary_to_string(Schema(batch))
           arrays == Arrays(LAMBDA a :
                        CASE a.type.k = "binary" -> hex_encode_column(prefixed, a, Type("utf8"))
                          [] a.type.k = "large_binary" -> hex_encode_column(prefixed, a, Type("large_utf8"))
                          [] OTHER -> a)
<1>0. PICK c : c = Named("hex_encode")
  OBVIOUS
<1>2. IsColumn(schema, n) /\ IsColumn(arrays, n)
  BY <1>1 DEF IsColumn, schema_binary_to_string, FieldMap, Schema, Arrays
<1>3. ASSUME NEW i \in 1..n
      PROVE  /\ Made(batch[i].array, arrays[i], schema[i].type, c)
             /\ schema[i].nullable = batch[i].nullable
  <2>1. PICK a : a = batch[i].array /\ a.len \in Nat
    BY <1>1
  <2>2. PICK u : u = Type("utf8") /\ u.k = "utf8"
    BY KindOf, Zenon
  <2>3. PICK l : l = Type("large_utf8") /\ l.k = "large_utf8"
    BY KindOf, Zenon
  <2>4. /\ schema[i].nullable = batch[i].nullable
        /\ schema[i].type = IF a.type.k = "binary" THEN u
                            ELSE IF a.type.k = "large_binary" THEN l ELSE a.type
    BY <1>1, <2>1, <2>2, <2>3 DEF schema_binary_to_string, FieldMap, Schema
  <2>5. arrays[i] = IF a.type.k = "binary" THEN hex_encode_column(prefixed, a, u)
                    ELSE IF a.type.k = "large_binary" THEN hex_encode_column(prefixed, a, l) ELSE a
    BY <1>1, <2>1, <2>2, <2>3 DEF Arrays
  <2> HIDE DEF schema, arrays
  <2>6. CASE a.type.k = "binary"
    BY <2>1, <2>2, <2>4, <2>5, <2>6, HexEncodeMade DEF ByteKinds, TextKinds
  <2>7. CASE a.type.k = "large_binary"
    BY <2>1, <2>3, <2>4, <2>5, <2>7, HexEncodeMade DEF ByteKinds, TextKinds
  <2>8. CASE a.type.k \notin {"binary", "large_binary"}
    BY <2>1, <2>4, <2>5, <2>8, ColumnLeft
  <2> QED
    BY <2>6, <2>7, <2>8
<1>4. Call(c, schema, arrays)
  BY <1>0 DEF hex_encode, Encoded
<1> HIDE DEF schema, arrays
<1>5. Fitting(schema, arrays, c)
  BY <1>1, <1>2, <1>3 DEF Fitting
<1> QED
  BY <1>4, <1>5, CallStep

\* u256_to_binary: schema_decimal256_to_binary and the columns.
LEMMA U256ToBinaryStep ==
    ASSUME CastInv, u256_to_binary
    PROVE  CastInv' /\ NullsStep
<1>1. PICK n \in Nat \ {0} : /\ n = Len(batch) /\ DOMAIN batch = 1..n
                             /\ \A i \in 1..n : batch[i].array.len \in Nat
  BY BatchColumns
<1> DEFINE schema == schema_decimal256_to_binary(Schema(batch))
           arrays == Arrays(LAMBDA a : IF a.type = Decimal256 THEN u256_column_to_binary(a) ELSE a)
<1>0. PICK c : c = Named("u256_to_binary")
  OBVIOUS
<1>2. IsColumn(schema, n) /\ IsColumn(arrays, n)
  BY <1>1 DEF IsColumn, schema_decimal256_to_binary, FieldMap, Schema, Arrays
<1>3. ASSUME NEW i \in 1..n
      PROVE  /\ Made(batch[i].array, arrays[i], schema[i].type, c)
             /\ schema[i].nullable = batch[i].nullable
  <2>1. PICK a : a = batch[i].array /\ a.len \in Nat
    BY <1>1
  <2>2. /\ schema[i].nullable = batch[i].nullable
        /\ schema[i].type = IF a.type = Decimal256 THEN Type("binary") ELSE a.type
    BY <1>1, <2>1 DEF schema_decimal256_to_binary, FieldMap, Schema
  <2>3. arrays[i] = IF a.type = Decimal256 THEN u256_column_to_binary(a) ELSE a
    BY <1>1, <2>1 DEF Arrays
  <2>4. Decimal256.k = "decimal256"
    BY DEF Decimal256, Type
  <2> HIDE DEF schema, arrays
  <2>5. CASE a.type = Decimal256
    <3>1. a.type.k \in Decimals
      BY <2>4, <2>5 DEF Decimals
    <3> QED
      BY <2>1, <2>2, <2>3, <2>5, <3>1, ToBinaryMade, Zenon
  <2>6. CASE a.type # Decimal256
    BY <2>1, <2>2, <2>3, <2>6, ColumnLeft, Zenon
  <2> QED
    BY <2>5, <2>6
<1>4. Call(c, schema, arrays)
  BY <1>0 DEF u256_to_binary
<1> HIDE DEF schema, arrays
<1>5. Fitting(schema, arrays, c)
  BY <1>1, <1>2, <1>3 DEF Fitting
<1> QED
  BY <1>4, <1>5, CallStep

\* large_ints_to_binary: schema_large_int_to_binary and the columns.
LEMMA LargeIntsStep ==
    ASSUME CastInv, large_ints_to_binary
    PROVE  CastInv' /\ NullsStep
<1>1. PICK n \in Nat \ {0} : /\ n = Len(batch) /\ DOMAIN batch = 1..n
                             /\ \A i \in 1..n : batch[i].array.len \in Nat
  BY BatchColumns
<1> DEFINE schema == schema_large_int_to_binary(Schema(batch))
           arrays == Arrays(LAMBDA a : CASE a.type.k = "decimal256" -> decimal256_to_be32(a)
                                         [] a.type.k = "decimal128" -> decimal128_to_be16(a)
                                         [] OTHER -> a)
<1>0. PICK c : c = Named("large_ints_to_binary")
  OBVIOUS
<1>2. IsColumn(schema, n) /\ IsColumn(arrays, n)
  BY <1>1 DEF IsColumn, schema_large_int_to_binary, FieldMap, Schema, Arrays
<1>3. ASSUME NEW i \in 1..n
      PROVE  /\ Made(batch[i].array, arrays[i], schema[i].type, c)
             /\ schema[i].nullable = batch[i].nullable
  <2>1. PICK a : a = batch[i].array /\ a.len \in Nat
    BY <1>1
  <2>2. /\ schema[i].nullable = batch[i].nullable
        /\ schema[i].type = IF a.type.k \in Decimals THEN Type("binary") ELSE a.type
    BY <1>1, <2>1 DEF schema_large_int_to_binary, FieldMap, Schema
  <2>3. arrays[i] = IF a.type.k = "decimal256" THEN decimal256_to_be32(a)
                    ELSE IF a.type.k = "decimal128" THEN decimal128_to_be16(a) ELSE a
    BY <1>1, <2>1 DEF Arrays
  <2> HIDE DEF schema, arrays
  <2>4. CASE a.type.k = "decimal256"
    BY <2>1, <2>2, <2>3, <2>4, Be32Made DEF Decimals
  <2>5. CASE a.type.k = "decimal128"
    BY <2>1, <2>2, <2>3, <2>5, Be16Made DEF Decimals
  <2>6. CASE a.type.k \notin Decimals
    BY <2>1, <2>2, <2>3, <2>6, ColumnLeft DEF Decimals
  <2> QED
    BY <2>4, <2>5, <2>6 DEF Decimals
<1>4. Call(c, schema, arrays)
  BY <1>0 DEF large_ints_to_binary
<1> HIDE DEF schema, arrays
<1>5. Fitting(schema, arrays, c)
  BY <1>1, <1>2, <1>3 DEF Fitting
<1> QED
  BY <1>4, <1>5, CallStep

\* A column that the caller converts alone.
LEMMA ReplaceStep ==
    ASSUME CastInv, NEW name, NEW j \in DOMAIN batch, NEW new,
           Made(batch[j].array, new, new.type, Named(name)), Replace(name, j, new)
    PROVE  CastInv' /\ NullsStep
<1>1. PICK n \in Nat \ {0} : /\ n = Len(batch) /\ DOMAIN batch = 1..n
                             /\ \A i \in 1..n : batch[i].array.len \in Nat
  BY BatchColumns
<1> DEFINE schema == [Schema(batch) EXCEPT ![j].type = new.type]
           arrays == [Arrays(LAMBDA a : a) EXCEPT ![j] = new]
<1>0. PICK c : c = Named(name)
  OBVIOUS
<1>2. IsColumn(schema, n) /\ IsColumn(arrays, n)
  BY <1>1 DEF IsColumn, Schema, Arrays
<1>3. ASSUME NEW i \in 1..n
      PROVE  /\ Made(batch[i].array, arrays[i], schema[i].type, c)
             /\ schema[i].nullable = batch[i].nullable
  <2>1. CASE i = j
    <3>1. arrays[i] = new /\ schema[i].type = new.type /\ schema[i].nullable = batch[i].nullable
      BY <1>1, <2>1 DEF Schema, Arrays
    <3> HIDE DEF schema, arrays
    <3> QED
      BY <1>0, <2>1, <3>1
  <2>2. CASE i # j
    <3>1. arrays[i] = batch[i].array /\ schema[i].type = batch[i].array.type
          /\ schema[i].nullable = batch[i].nullable
      BY <1>1, <2>2 DEF Schema, Arrays
    <3> HIDE DEF schema, arrays
    <3> QED
      BY <3>1, ColumnLeft
  <2> QED
    BY <2>1, <2>2
<1>4. Call(c, schema, arrays)
  BY <1>0 DEF Replace
<1> HIDE DEF schema, arrays
<1>5. Fitting(schema, arrays, c)
  BY <1>1, <1>2, <1>3 DEF Fitting
<1> QED
  BY <1>4, <1>5, CallStep

\* base58_decode, hex_decode and hex_decode_prefixed of text the caller knows
\* to be in that encoding.
LEMMA DecodeTextStep ==
    ASSUME CastInv, NEW j \in DOMAIN batch, DecodeText(j)
    PROVE  CastInv' /\ NullsStep
<1>1. PICK a : a = batch[j].array /\ a.len \in Nat
  BY BatchColumns
<1>2. PICK t : t = IF a.type.k = "utf8" THEN Type("binary") ELSE Type("large_binary")
  OBVIOUS
<1>3. t.k \in ByteKinds /\ a.type.k \in TextKinds
  BY <1>1, <1>2, KindOf DEF DecodeText, ByteKinds
<1>4. \A r \in 1..a.len : Cell(a, r) # Null => Cell(a, r).enc \in Encoding(a)
  BY <1>1 DEF Encoding
<1>5. ASSUME NEW new, NEW name, Made(a, new, t, Named(name)), Replace(name, j, new)
      PROVE  CastInv' /\ NullsStep
  <2>1. Made(batch[j].array, new, new.type, Named(name))
    BY <1>1, <1>5, Zenon DEF Made
  <2> QED
    BY <1>5, <2>1, ReplaceStep
<1>6. CASE Replace("base58_decode", j, base58_decode_column(a, t))
  BY <1>1, <1>3, <1>5, <1>6, Base58DecodeMade
<1>7. CASE Encoding(a) \subseteq {"0x"} /\ Replace("hex_decode_prefixed", j, hex_decode_column(TRUE, a, t))
  <2>1. \A r \in 1..a.len : Cell(a, r) # Null => Cell(a, r).enc = "0x"
    BY <1>4, <1>7
  <2>2. \A c : Made(a, hex_decode_column(TRUE, a, t), t, c)
    <3>1. PICK p \in BOOLEAN : p = TRUE
      OBVIOUS
    <3>2. Readable(p, a)
      BY <2>1, <3>1 DEF Readable
    <3>3. \A c : Made(a, hex_decode_column(p, a, t), t, c)
      BY <1>1, <1>3, <3>2, HexDecodeMade
    <3> QED
      BY <3>1, <3>3, Zenon
  <2> QED
    BY <1>5, <1>7, <2>2
<1>8. CASE Encoding(a) \subseteq {"hex", "0x"} /\ Replace("hex_decode", j, hex_decode_column(FALSE, a, t))
  <2>1. \A r \in 1..a.len : Cell(a, r) # Null => Cell(a, r).enc = "0x" \/ Cell(a, r).enc = "hex"
    BY <1>4, <1>8
  <2>2. \A c : Made(a, hex_decode_column(FALSE, a, t), t, c)
    <3>1. PICK p \in BOOLEAN : p = FALSE
      OBVIOUS
    <3>2. Readable(p, a)
      BY <2>1, <3>1 DEF Readable
    <3>3. \A c : Made(a, hex_decode_column(p, a, t), t, c)
      BY <1>1, <1>3, <3>2, HexDecodeMade
    <3> QED
      BY <3>1, <3>3, Zenon
  <2> QED
    BY <1>5, <1>8, <2>2
<1> QED
  BY <1>1, <1>2, <1>6, <1>7, <1>8 DEF DecodeText

\* u256_column_from_binary on a column of bytes.
LEMMA NumberColumnStep ==
    ASSUME CastInv, NEW j \in DOMAIN batch, NumberColumn(j)
    PROVE  CastInv' /\ NullsStep
<1>1. PICK a : a = batch[j].array /\ a.len \in Nat
  BY BatchColumns
<1>2. PICK new : new = u256_column_from_binary(a)
  OBVIOUS
<1>3. Made(a, new, Decimal256, Named("u256_from_binary"))
  BY <1>1, <1>2, FromBinaryMade DEF NumberColumn
<1>4. Made(batch[j].array, new, new.type, Named("u256_from_binary"))
  BY <1>1, <1>3, Zenon DEF Made
<1>5. Replace("u256_from_binary", j, new)
  BY <1>1, <1>2 DEF NumberColumn
<1> QED
  BY <1>4, <1>5, ReplaceStep

-----------------------------------------------------------------------------
\* The theorems.

\* The invariant holds of the batch a caller starts with.
LEMMA CastInit ==
    ASSUME Init
    PROVE  CastInv
<1>1. PICK j \in DOMAIN Batches : batch = Batches[j]
  BY DEF Init
<1>2. meant = batch /\ outcome = "ok"
  BY DEF Init
<1>3. /\ IsBatch(batch)
      /\ Plain(batch) => \A i \in DOMAIN batch :
            TypedCells(batch[i].array) /\ NullsInPlace(batch[i])
  BY <1>1, BatchesAssumption
<1>4. ASSUME Simple, NEW i \in DOMAIN batch
      PROVE  Holds(batch[i].array, batch[i].array) /\ NullsInPlace(batch[i])
  <2>1. PICK a : a = batch[i].array
    OBVIOUS
  <2>2. TypedCells(a) /\ NullsInPlace(batch[i]) /\ a.kids = <<>>
    BY <1>2, <1>3, <1>4, <2>1 DEF Simple, Plain
  <2>3. ColumnKept(a, a)
    BY <2>2, KeptStart DEF ColumnKept, TypedCells, Cell
  <2>4. ASSUME NEW r \in 1..a.len
        PROVE  Cell(a, r) # Fail /\ (Cell(a, r) = Null => IsNull(a, r))
    <3>1. CASE IsNull(a, r)
      <4>1. Cell(a, r) = Null
        BY <3>1 DEF Cell
      <4> QED
        BY <3>1, <4>1, NullAssumption
    <3>2. CASE ~IsNull(a, r)
      <4>1. TypedCell(a.type, a.vals[r]) /\ Cell(a, r) = a.vals[r]
        BY <2>2, <3>2 DEF TypedCells, Cell
      <4>2. a.vals[r] \in Int \/ a.vals[r] \in Seq(Byte)
        BY <4>1, StartKinds
      <4>3. a.vals[r] # Fail /\ a.vals[r] # Null
        BY <4>2, NullAssumption, BytesThere
      <4> QED
        BY <4>1, <4>3
    <3> QED
      BY <3>1, <3>2
  <2> QED
    BY <2>1, <2>2, <2>3, <2>4 DEF Holds, Clean
<1> QED
  BY <1>2, <1>3, <1>4 DEF CastInv, SchemasAgree

\* Every step keeps it.
LEMMA CastNext ==
    ASSUME CastInv, [Next]_vars
    PROVE  CastInv' /\ (NullsStep \/ UNCHANGED vars)
<1>1. CASE \E map \in Maps, allow \in BOOLEAN : cast(map, allow)
  BY <1>1, CastStep
<1>2. CASE \E pair \in Retypes, allow \in BOOLEAN : cast_by_type(pair[1], pair[2], allow)
  BY <1>2, CastByTypeStep
<1>3. CASE base58_encode
  BY <1>3, Base58EncodeStep
<1>4. CASE \E prefixed \in BOOLEAN : hex_encode(prefixed)
  BY <1>4, HexEncodeStep
<1>5. CASE u256_to_binary
  BY <1>5, U256ToBinaryStep
<1>6. CASE large_ints_to_binary
  BY <1>6, LargeIntsStep
<1>7. CASE \E i \in DOMAIN batch : DecodeText(i) \/ NumberColumn(i)
  BY <1>7, DecodeTextStep, NumberColumnStep
<1>8. CASE UNCHANGED vars
  <2>1. UNCHANGED <<batch, meant>> /\ SchemasAgree'
    BY <1>8 DEF vars, CastInv, SchemasAgree, Simple
  <2> QED
    BY <2>1, BatchLeft
<1> QED
  BY <1>1, <1>2, <1>3, <1>4, <1>5, <1>6, <1>7, <1>8 DEF Next, Enough

\* The inductive invariant is one of the specification.
THEOREM CastInductive == Spec => []CastInv
<1>1. Init => CastInv
  BY CastInit
<1>2. CastInv /\ [Next]_vars => CastInv'
  BY CastNext
<1> QED
  BY <1>1, <1>2, PTL DEF Spec

\* The schema that cast_schema, cast_schema_by_type or a schema_* function
\* computes always describes the arrays the call makes, whatever the batch and the
\* calls before.  RecordBatch::try_new refuses only the nulls that allow_cast_fail
\* put in a field that has none, for a number too wide.
THEOREM SchemasAgreeTheorem == Spec => []SchemasAgree
<1>1. CastInv => SchemasAgree
  BY DEF CastInv
<1> QED
  BY <1>1, CastInductive, PTL

\* Whatever series of casts, encodings and decodings a batch goes through, with
\* any byte, width, map and length: a cell that is not null stands for the value
\* the caller put there or, once a column was made a float and then something else,
\* for the float.
THEOREM ValuesPreservedTheorem == Spec => []ValuesPreserved
<1>1. CastInv => ValuesPreserved
  <2> SUFFICES ASSUME CastInv, Simple, NEW i \in DOMAIN meant, NEW r \in 1..meant[i].array.len
               PROVE  LET v == Cell(batch[i].array, r)  t == batch[i].array.type
                          w == Cell(meant[i].array, r)  s == meant[i].array.type
                      IN  v = Null \/ (w # Null /\ (StandsFor(v, t, w, s) \/ SignLost(v, t, w, s)))
    BY DEF ValuesPreserved
  <2>1. PICK a : a = batch[i].array
    OBVIOUS
  <2>2. PICK b : b = meant[i].array
    OBVIOUS
  <2>3. Holds(a, b) /\ r \in 1..a.len
    BY <2>1, <2>2 DEF CastInv, Holds
  <2>4. CASE Cell(a, r) = Null
    BY <2>1, <2>4
  <2>5. CASE Cell(a, r) # Null
    <3>1. /\ Cell(b, r) # Null
          /\ TypedCell(b.type, Cell(b, r))
          /\ Kept(Cell(a, r), a.type, Cell(b, r), b.type)
      BY <2>3, <2>5, RowOf
    <3>2. \/ StandsFor(Cell(a, r), a.type, Cell(b, r), b.type)
          \/ SignLost(Cell(a, r), a.type, Cell(b, r), b.type)
      BY <3>1, KeptStands, Zenon
    <3> QED
      BY <2>1, <2>2, <3>1, <3>2, Zenon
  <2> QED
    BY <2>4, <2>5
<1> QED
  BY <1>1, CastInductive, PTL

\* A value becomes null only in a cast or cast_by_type with allow_cast_fail, only
\* in a decimal, and only if it is a number too wide for that decimal itself.
THEOREM NullsTheorem == Spec => NullsOnlyWhereCastFails
<1>1. CastInv /\ [Next]_vars => [NullsStep]_vars
  BY CastNext
<1>2. NullsOnlyWhereCastFails <=> [][NullsStep]_vars
  BY PTL DEF NullsOnlyWhereCastFails, NullsStep
<1> QED
  BY <1>1, <1>2, CastInductive, PTL DEF Spec
=============================================================================
