----------------------------- MODULE PacketBufferProofs -----------------------------
(* Proofs about PacketBuffer, for all packets, hosts, widths, values and types. *)
EXTENDS PacketBuffer, TLAPS, SequenceTheorems, WellFoundedInduction

--------------------------------------------------------------------------------
(* Recursion over the numbers.                                                 *)

\* A set of numbers has a least one.
LEMMA LeastOne ==
    ASSUME NEW numbers \in SUBSET Nat, numbers # {}
    PROVE  \E n \in numbers : \A m \in numbers : n <= m
<1> DEFINE below == {p \in Nat \X Nat : p[1] < p[2]}
<1>1. IsWellFoundedOn(below, Nat)
  BY NatLessThanWellFounded DEF OpToRel
<1>2. \A p, q \in Nat : q < p => <<q, p>> \in below
  OBVIOUS
<1> HIDE DEF below
<1>3. PICK n \in numbers : \A q \in numbers : <<q, n>> \notin below
  BY <1>1, WFMin, Zenon
<1>4. ASSUME NEW q \in numbers PROVE n <= q
  <2>1. n \in Nat /\ q \in Nat
    OBVIOUS
  <2>2. ~(q < n)
    BY <1>2, <1>3, <2>1
  <2> QED  BY <2>1, <2>2
<1> QED  BY <1>4

\* f is a recursion up to n, over a step that is a function of the place and of the value before.
Recurs(f, n, base, step) ==
    f = [i \in 0..n |-> IF i = 0 THEN base ELSE step[<<i, f[i - 1]>>]]

\* There is one, and its values are in the set the step keeps to.
Recursive(n, S, base, step) == \E f \in [0..n -> S] : Recurs(f, n, base, step)

LEMMA RecursionExists ==
    ASSUME NEW S, NEW base \in S, NEW step \in [Nat \X S -> S], NEW n \in Nat
    PROVE  Recursive(n, S, base, step)
<1> DEFINE Bad == {k \in Nat : ~Recursive(k, S, base, step)}
<1>1. ASSUME NEW k \in Bad, \A m \in Bad : k <= m PROVE FALSE
  <2>1. CASE k = 0
    <3> DEFINE f == [i \in 0..0 |-> base]
    <3>1. f \in [0..0 -> S]
      OBVIOUS
    <3>2. Recurs(f, 0, base, step)
      BY DEF Recurs
    <3> HIDE DEF f
    <3>3. Recursive(0, S, base, step)
      BY <3>1, <3>2 DEF Recursive
    <3> QED  BY <2>1, <3>3
  <2>2. CASE k # 0
    <3>1. k \in Nat /\ k - 1 \in Nat /\ ~(k <= k - 1)
      BY <2>2
    <3>2. Recursive(k - 1, S, base, step)
      BY <1>1, <3>1
    <3>3. PICK g \in [0..k - 1 -> S] : Recurs(g, k - 1, base, step)
      BY <3>2 DEF Recursive
    <3> DEFINE new == step[<<k, g[k - 1]>>]
               f == [i \in 0..k |-> IF i = k THEN new ELSE g[i]]
    <3>4. new \in S
      BY <3>1, <3>3
    <3>5. \A i \in 0..k : i = k \/ i \in 0..k - 1
      BY <3>1
    <3>6. f \in [0..k -> S]
      <4> HIDE DEF new
      <4> QED  BY <3>3, <3>4, <3>5
    <3>7. ASSUME NEW i \in 0..k PROVE f[i] = IF i = 0 THEN base ELSE step[<<i, f[i - 1]>>]
      <4>1. CASE i = k
        <5>1. f[i] = new /\ f[k - 1] = g[k - 1]
          BY <3>1, <4>1
        <5> HIDE DEF f
        <5> QED  BY <2>2, <4>1, <5>1
      <4>2. CASE i \in 0..k - 1 /\ i # k
        <5>1. f[i] = g[i]
          BY <4>2
        <5>2. g[i] = IF i = 0 THEN base ELSE step[<<i, g[i - 1]>>]
          BY <3>3, <4>2 DEF Recurs
        <5>3. i # 0 => f[i - 1] = g[i - 1]
          BY <3>1, <4>2
        <5> HIDE DEF f
        <5> QED  BY <5>1, <5>2, <5>3
      <4> HIDE DEF f
      <4> QED  BY <3>5, <4>1, <4>2
    <3>8. f = [i \in 0..k |-> f[i]]
      OBVIOUS
    <3> HIDE DEF f
    <3>9. Recurs(f, k, base, step)
      BY <3>7, <3>8 DEF Recurs
    <3>10. Recursive(k, S, base, step)
      BY <3>6, <3>9 DEF Recursive
    <3> QED  BY <3>10
  <2> QED  BY <2>1, <2>2
<1>2. Bad \in SUBSET Nat
  OBVIOUS
<1>3. Bad = {}
  <2> HIDE DEF Bad
  <2> QED  BY <1>1, <1>2, LeastOne
<1> QED  BY <1>3

\* Two of them agree where both are.
LEMMA RecursionAgrees ==
    ASSUME NEW n \in Nat, NEW m \in Nat, NEW base, NEW step, NEW f, NEW g,
           Recurs(f, n, base, step), Recurs(g, m, base, step)
    PROVE  \A i \in 0..n : i <= m => f[i] = g[i]
<1> DEFINE Bad == {i \in 0..n : i <= m /\ f[i] # g[i]}
<1>1. ASSUME NEW i \in Bad, \A j \in Bad : i <= j PROVE FALSE
  <2>1. i \in 0..n /\ i \in 0..m /\ f[i] # g[i]
    OBVIOUS
  <2>2. f[i] = IF i = 0 THEN base ELSE step[<<i, f[i - 1]>>]
    BY <2>1 DEF Recurs
  <2>3. g[i] = IF i = 0 THEN base ELSE step[<<i, g[i - 1]>>]
    BY <2>1 DEF Recurs
  <2>4. i # 0
    BY <2>1, <2>2, <2>3
  <2>5. i - 1 \in 0..n /\ i - 1 <= m /\ ~(i <= i - 1)
    BY <2>1, <2>4
  <2>6. f[i - 1] = g[i - 1]
    BY <1>1, <2>5
  <2> QED  BY <2>1, <2>2, <2>3, <2>6
<1>2. Bad \in SUBSET Nat
  OBVIOUS
<1>3. Bad = {}
  <2> HIDE DEF Bad
  <2> QED  BY <1>1, <1>2, LeastOne
<1> QED  BY <1>3

--------------------------------------------------------------------------------
(* Powers.                                                                     *)

LEMMA Sizes ==
    /\ ByteSize \in Nat /\ ByteSize > 1 /\ Word \in Nat /\ Word > 0 /\ HeaderLength = Word
    /\ SizeT \in Nat /\ SizeT > 0
    /\ \A n : n \in Byte <=> n \in Nat /\ n < ByteSize
  BY BufferAssumption DEF HeaderLength, Byte

\* Power is the function its definition says.
LEMMA PowerIs ==
    /\ Power \in [Nat -> Nat \ {0}] /\ Power[0] = 1
    /\ \A n \in Nat : Power[n + 1] = ByteSize * Power[n]
<1> DEFINE S == Nat \ {0}
           step == [p \in Nat \X S |-> ByteSize * p[2]]
           upto == [n \in Nat |-> CHOOSE f : f \in [0..n -> S] /\ Recurs(f, n, 1, step)]
           power == [n \in Nat |-> upto[n][n]]
           Is(f) == f = [n \in Nat |-> IF n = 0 THEN 1 ELSE ByteSize * f[n - 1]]
<1>1. \A x \in S : ByteSize * x \in S
  BY Sizes
<1>2. step \in [Nat \X S -> S] /\ \A i \in Nat, x \in S : step[<<i, x>>] = ByteSize * x
  BY <1>1
<1>3. 1 \in S
  OBVIOUS
<1> HIDE DEF step
<1>4. \A n \in Nat : upto[n] \in [0..n -> S] /\ Recurs(upto[n], n, 1, step)
  <2> TAKE n \in Nat
  <2>1. Recursive(n, S, 1, step)
    BY <1>2, <1>3, RecursionExists
  <2>2. \E f : f \in [0..n -> S] /\ Recurs(f, n, 1, step)
    BY <2>1 DEF Recursive
  <2> HIDE DEF S
  <2> QED  BY <2>2
<1> HIDE DEF upto
<1>5. \A n \in Nat : power[n] = upto[n][n] /\ power[n] \in S
  <2> TAKE n \in Nat
  <2>1. n \in 0..n
    OBVIOUS
  <2> HIDE DEF S
  <2> QED  BY <1>4, <2>1
<1>6. ASSUME NEW n \in Nat
      PROVE  power[n] = IF n = 0 THEN 1 ELSE ByteSize * power[n - 1]
  <2>1. upto[n][n] = IF n = 0 THEN 1 ELSE step[<<n, upto[n][n - 1]>>]
    <3> DEFINE f == upto[n]
    <3>1. n \in 0..n /\ Recurs(f, n, 1, step)
      BY <1>4
    <3> HIDE DEF f
    <3>2. f[n] = IF n = 0 THEN 1 ELSE step[<<n, f[n - 1]>>]
      BY <3>1 DEF Recurs
    <3> QED  BY <3>2 DEF f
  <2>2. CASE n = 0
    BY <1>5, <2>1, <2>2
  <2>3. CASE n # 0
    <3>1. n - 1 \in Nat /\ n - 1 \in 0..n - 1 /\ n - 1 <= n
      BY <2>3
    <3>2. upto[n - 1][n - 1] = upto[n][n - 1]
      BY <1>4, <3>1, RecursionAgrees
    <3>3. power[n - 1] = upto[n][n - 1] /\ power[n - 1] \in S
      BY <1>5, <3>1, <3>2
    <3>4. power[n] = step[<<n, power[n - 1]>>]
      BY <1>5, <2>1, <2>3, <3>3
    <3> HIDE DEF power, S
    <3> QED  BY <1>2, <2>3, <3>3, <3>4
  <2> HIDE DEF power
  <2> QED  BY <2>2, <2>3
<1>7. power = [n \in Nat |-> power[n]]
  OBVIOUS
<1> HIDE DEF power
<1>8. Is(power)
  BY <1>6, <1>7
<1>9. Power = CHOOSE f : Is(f)
  BY DEF Power
<1> HIDE DEF Is
<1>10. Is(Power)
  BY <1>8, <1>9
<1>11. Power = [n \in Nat |-> IF n = 0 THEN 1 ELSE ByteSize * Power[n - 1]]
  BY <1>10 DEF Is
<1>12. \A n \in Nat : Power[n] = power[n]
  <2> DEFINE Bad == {n \in Nat : Power[n] # power[n]}
  <2>1. ASSUME NEW n \in Bad, \A m \in Bad : n <= m PROVE FALSE
    <3>1. n \in Nat /\ Power[n] # power[n]
      OBVIOUS
    <3>2. Power[n] = IF n = 0 THEN 1 ELSE ByteSize * Power[n - 1]
      BY <1>11, <3>1
    <3>3. n # 0
      BY <1>6, <3>1, <3>2
    <3>4. n - 1 \in Nat /\ ~(n <= n - 1)
      BY <3>1, <3>3
    <3>5. Power[n - 1] = power[n - 1]
      BY <2>1, <3>4
    <3> QED  BY <1>6, <3>1, <3>2, <3>5
  <2>2. Bad \in SUBSET Nat
    OBVIOUS
  <2>3. Bad = {}
    <3> HIDE DEF Bad
    <3> QED  BY <2>1, <2>2, LeastOne
  <2> QED  BY <2>3
<1>13. Power \in [Nat -> S]
  <2>1. DOMAIN Power = Nat
    BY <1>11
  <2>2. Power = [n \in Nat |-> Power[n]]
    BY <1>11, <2>1
  <2> HIDE DEF S
  <2> QED  BY <1>5, <1>12, <2>2
<1>14. ASSUME NEW n \in Nat PROVE Power[n + 1] = ByteSize * Power[n]
  <2>1. n + 1 \in Nat /\ n + 1 # 0 /\ (n + 1) - 1 = n
    OBVIOUS
  <2>2. Power[n + 1] = ByteSize * Power[(n + 1) - 1]
    BY <1>11, <2>1
  <2> QED  BY <2>1, <2>2
<1> QED  BY <1>11, <1>13, <1>14 DEF S

--------------------------------------------------------------------------------
(* Division.                                                                   *)

LEMMA Divides ==
    ASSUME NEW a \in Nat, NEW d \in Nat \ {0}
    PROVE  /\ a \div d \in Nat /\ a % d \in Nat /\ a % d < d
           /\ a = d * (a \div d) + (a % d)
  OBVIOUS

LEMMA DivisionIs ==
    ASSUME NEW d \in Nat \ {0}, NEW q \in Nat, NEW r \in Nat, r < d
    PROVE  (d * q + r) \div d = q /\ (d * q + r) % d = r
  OBVIOUS

\* Dividing twice.
LEMMA DividesTwice ==
    ASSUME NEW a \in Nat, NEW d \in Nat \ {0}, NEW e \in Nat \ {0}
    PROVE  /\ (a \div d) \div e = a \div (e * d)
           /\ a % (e * d) = d * ((a \div d) % e) + (a % d)
<1> DEFINE q == a \div d
           r == a % d
           s == q \div e
           t == q % e
<1>1. q \in Nat /\ r \in Nat /\ r < d /\ a = d * q + r
  BY Divides
<1>2. s \in Nat /\ t \in Nat /\ t < e /\ q = e * s + t
  BY <1>1, Divides
<1> HIDE DEF q, r, s, t
<1>3. e * d \in Nat \ {0}
  OBVIOUS
<1>4. a = (e * d) * s + (d * t + r)
  <2>1. a = d * (e * s + t) + r
    BY <1>1, <1>2
  <2> QED  BY <1>1, <1>2, <2>1
<1>5. d * t + r \in Nat /\ d * t + r < e * d
  <2>1. t + 1 <= e /\ d * (t + 1) <= d * e
    BY <1>2
  <2>2. d * (t + 1) = d * t + d /\ d * t \in Nat /\ d * e = e * d
    BY <1>2
  <2> QED  BY <1>1, <2>1, <2>2
<1>6. a \div (e * d) = s /\ a % (e * d) = d * t + r
  <2> DEFINE u == e * d
             v == d * t + r
  <2>1. u \in Nat \ {0} /\ v \in Nat /\ v < u /\ a = u * s + v
    BY <1>3, <1>4, <1>5
  <2> HIDE DEF u, v
  <2>2. a \div u = s /\ a % u = v
    BY <1>2, <2>1, DivisionIs
  <2> QED  BY <2>2 DEF u, v
<1> QED  BY <1>6 DEF q, r, s, t

--------------------------------------------------------------------------------
(* Numbers and their bytes.                                                    *)

LEMMA ByteProduct ==
    ASSUME NEW f \in Nat, NEW b \in Byte
    PROVE  ByteSize * f + b \in Nat /\ b \in Nat /\ b < ByteSize
<1>1. b \in Nat /\ b < ByteSize /\ ByteSize \in Nat
  BY Sizes
<1>2. ByteSize * f \in Nat
  BY <1>1
<1> QED  BY <1>1, <1>2

\* The numbers of the first bytes, one after the other.
First(bytes) ==
    CHOOSE first : first = [i \in 0..Len(bytes) |->
                              IF i = 0 THEN 0 ELSE ByteSize * first[i - 1] + bytes[i]]

LEMMA NumberSteps ==
    ASSUME NEW bytes \in Seq(Byte)
    PROVE  /\ First(bytes) \in [0..Len(bytes) -> Nat] /\ First(bytes)[0] = 0
           /\ \A i \in 1..Len(bytes) : First(bytes)[i] = ByteSize * First(bytes)[i - 1] + bytes[i]
           /\ Number(bytes) = First(bytes)[Len(bytes)]
<1> DEFINE n == Len(bytes)
           at(i) == IF i \in 1..n THEN bytes[i] ELSE 0
           step == [p \in Nat \X Nat |-> ByteSize * p[2] + at(p[1])]
           Is(f) == f = [i \in 0..n |-> IF i = 0 THEN 0 ELSE ByteSize * f[i - 1] + bytes[i]]
<1>1. n \in Nat /\ \A i \in 1..n : bytes[i] \in Byte
  BY LenProperties, ElementOfSeq
<1>2. \A i \in Nat : at(i) \in Byte
  BY <1>1, Sizes
<1>3. \A i \in Nat, x \in Nat : ByteSize * x + at(i) \in Nat
  <2> HIDE DEF at
  <2> QED  BY <1>2, ByteProduct
<1>4. step \in [Nat \X Nat -> Nat]
  <2> HIDE DEF at
  <2> QED  BY <1>3
<1>5. \A i \in Nat, x \in Nat : step[<<i, x>>] = ByteSize * x + at(i)
  OBVIOUS
<1> HIDE DEF step, n
<1>6. Recursive(n, Nat, 0, step)
  BY <1>1, <1>4, RecursionExists
<1>7. PICK f \in [0..n -> Nat] : Recurs(f, n, 0, step)
  BY <1>6 DEF Recursive
<1>8. Is(f)
  <2>1. ASSUME NEW i \in 0..n
        PROVE  f[i] = IF i = 0 THEN 0 ELSE ByteSize * f[i - 1] + bytes[i]
    <3>1. f[i] = IF i = 0 THEN 0 ELSE step[<<i, f[i - 1]>>]
      BY <1>7 DEF Recurs
    <3>2. CASE i = 0
      BY <3>1, <3>2
    <3>3. CASE i # 0
      <4>1. i \in 1..n /\ i \in Nat /\ i - 1 \in 0..n
        BY <1>1, <3>3
      <4>2. f[i - 1] \in Nat /\ at(i) = bytes[i]
        BY <1>7, <4>1
      <4> HIDE DEF at
      <4>3. step[<<i, f[i - 1]>>] = ByteSize * f[i - 1] + at(i)
        BY <1>5, <4>1, <4>2
      <4> QED  BY <3>1, <3>3, <4>2, <4>3
    <3> QED  BY <3>2, <3>3
  <2>2. f = [i \in 0..n |-> f[i]]
    OBVIOUS
  <2> QED  BY <2>1, <2>2
<1>9. First(bytes) = CHOOSE g : Is(g)
  BY DEF First, n
<1>10. Is(First(bytes))
  <2> HIDE DEF Is
  <2> QED  BY <1>8, <1>9
<1> DEFINE g == First(bytes)
<1>11. g = [i \in 0..n |-> IF i = 0 THEN 0 ELSE ByteSize * g[i - 1] + bytes[i]]
  BY <1>10
<1> HIDE DEF g
<1>12. g[0] = 0 /\ \A i \in 1..n : g[i] = ByteSize * g[i - 1] + bytes[i]
  BY <1>1, <1>11
<1>13. \A i \in 0..n : g[i] = f[i]
  <2> DEFINE Bad == {i \in 0..n : g[i] # f[i]}
  <2>1. ASSUME NEW i \in Bad, \A j \in Bad : i <= j PROVE FALSE
    <3>1. i \in 0..n /\ g[i] # f[i]
      OBVIOUS
    <3>2. f[0] = 0 /\ \A j \in 1..n : f[j] = ByteSize * f[j - 1] + bytes[j]
      BY <1>1, <1>8
    <3>3. i # 0
      BY <1>12, <3>1, <3>2
    <3>4. i \in 1..n /\ i - 1 \in 0..n /\ ~(i <= i - 1)
      BY <1>1, <3>1, <3>3
    <3>5. g[i - 1] = f[i - 1]
      BY <2>1, <3>4
    <3>6. g[i] = ByteSize * g[i - 1] + bytes[i] /\ f[i] = ByteSize * f[i - 1] + bytes[i]
      BY <1>12, <3>2, <3>4
    <3> QED  BY <3>1, <3>5, <3>6
  <2>2. Bad \in SUBSET Nat
    BY <1>1
  <2>3. Bad = {}
    <3> HIDE DEF Bad
    <3> QED  BY <2>1, <2>2, LeastOne
  <2> QED  BY <2>3
<1>14. g \in [0..n -> Nat]
  <2>1. DOMAIN g = 0..n /\ g = [i \in 0..n |-> g[i]]
    BY <1>11
  <2> QED  BY <1>7, <1>13, <2>1
<1>15. Number(bytes) = g[n]
  BY DEF Number, g, n, First
<1> QED  BY <1>12, <1>14, <1>15 DEF g, n

\* A number is as large as its bytes allow.
LEMMA NumberType ==
    ASSUME NEW bytes \in Seq(Byte)
    PROVE  Number(bytes) \in Nat /\ Number(bytes) < Power[Len(bytes)]
<1> DEFINE n == Len(bytes)
           f == First(bytes)
           Bad == {i \in 0..n : ~(f[i] < Power[i])}
<1>1. n \in Nat /\ \A i \in 1..n : bytes[i] \in Byte
  BY LenProperties, ElementOfSeq
<1>2. /\ f \in [0..n -> Nat] /\ f[0] = 0 /\ Number(bytes) = f[n]
      /\ \A i \in 1..n : f[i] = ByteSize * f[i - 1] + bytes[i]
  BY NumberSteps
<1> HIDE DEF n, f
<1>3. ASSUME NEW i \in Bad, \A j \in Bad : i <= j PROVE FALSE
  <2>1. i \in 0..n /\ ~(f[i] < Power[i])
    OBVIOUS
  <2>2. i # 0
    BY <1>2, <2>1, PowerIs
  <2>3. i \in 1..n /\ i - 1 \in 0..n /\ ~(i <= i - 1) /\ i - 1 \in Nat /\ (i - 1) + 1 = i
    BY <1>1, <2>1, <2>2
  <2>4. f[i - 1] < Power[i - 1]
    BY <1>3, <2>3
  <2>5. Power[i] = ByteSize * Power[i - 1] /\ Power[i - 1] \in Nat
    BY <2>3, PowerIs
  <2>6. f[i] = ByteSize * f[i - 1] + bytes[i] /\ bytes[i] \in Nat /\ bytes[i] < ByteSize
        /\ f[i - 1] \in Nat /\ ByteSize \in Nat
    BY <1>1, <1>2, <2>3, Sizes
  <2> DEFINE x == f[i - 1]
             y == Power[i - 1]
             b == bytes[i]
  <2>7. x \in Nat /\ y \in Nat /\ x < y /\ b \in Nat /\ b < ByteSize /\ ByteSize \in Nat
        /\ f[i] = ByteSize * x + b /\ Power[i] = ByteSize * y
    BY <2>4, <2>5, <2>6
  <2> HIDE DEF x, y, b
  <2>8. ByteSize * (x + 1) <= ByteSize * y
    BY <2>7
  <2>9. ByteSize * x + b < ByteSize * (x + 1)
    BY <2>7
  <2>10. ByteSize * x + b < ByteSize * y
    <3>1. ByteSize * x \in Nat /\ ByteSize * (x + 1) \in Nat /\ ByteSize * y \in Nat
      BY <2>7
    <3> QED  BY <2>7, <2>8, <2>9, <3>1
  <2> QED  BY <2>1, <2>7, <2>10
<1>4. Bad \in SUBSET Nat
  BY <1>1
<1>5. Bad = {}
  <2> HIDE DEF Bad
  <2> QED  BY <1>3, <1>4, LeastOne
<1>6. n \in 0..n
  BY <1>1
<1> QED  BY <1>2, <1>5, <1>6 DEF n

LEMMA DigitsType ==
    ASSUME NEW n \in Nat, NEW w \in Nat
    PROVE  /\ Digits(n, w) \in Seq(Byte) /\ Len(Digits(n, w)) = w
           /\ \A i \in 1..w : Digits(n, w)[i] = (n \div Power[w - i]) % ByteSize
<1>1. ASSUME NEW i \in 1..w PROVE (n \div Power[w - i]) % ByteSize \in Byte
  <2>1. w - i \in Nat
    OBVIOUS
  <2>2. Power[w - i] \in Nat \ {0}
    BY <2>1, PowerIs
  <2>3. n \div Power[w - i] \in Nat
    BY <2>2, Divides
  <2>4. ByteSize \in Nat \ {0}
    BY Sizes
  <2> QED  BY <2>3, <2>4, Divides, Sizes
<1>2. Digits(n, w) \in [1..w -> Byte]
  BY <1>1 DEF Digits
<1>3. Digits(n, w) \in Seq(Byte) /\ DOMAIN Digits(n, w) = 1..w
  BY <1>2, SeqDef
<1> QED  BY <1>3, LenProperties DEF Digits

\* w bytes of n are n, as far as they go.
LEMMA NumberDigits ==
    ASSUME NEW n \in Nat, NEW w \in Nat
    PROVE  Number(Digits(n, w)) = n % Power[w]
<1> DEFINE bytes == Digits(n, w)
           f == First(bytes)
           Bad == {i \in 0..w : f[i] # (n \div Power[w - i]) % Power[i]}
<1>1. bytes \in Seq(Byte) /\ Len(bytes) = w
      /\ \A i \in 1..w : bytes[i] = (n \div Power[w - i]) % ByteSize
  BY DigitsType
<1> HIDE DEF bytes
<1>2. /\ f \in [0..w -> Nat] /\ f[0] = 0 /\ Number(bytes) = f[w]
      /\ \A i \in 1..w : f[i] = ByteSize * f[i - 1] + bytes[i]
  BY <1>1, NumberSteps
<1> HIDE DEF f
<1>3. ASSUME NEW i \in Bad, \A j \in Bad : i <= j PROVE FALSE
  <2>1. i \in 0..w /\ f[i] # (n \div Power[w - i]) % Power[i]
    OBVIOUS
  <2>2. CASE i = 0
    <3>1. Power[w] \in Nat \ {0} /\ Power[0] = 1 /\ w - i = w
      BY <2>2, PowerIs
    <3>2. n \div Power[w] \in Nat
      BY <3>1, Divides
    <3>3. (n \div Power[w]) % 1 = 0
      BY <3>2
    <3> QED  BY <1>2, <2>1, <2>2, <3>1, <3>3
  <2>3. CASE i # 0
    <3> DEFINE m == n \div Power[w - i]
    <3>1. /\ i \in 1..w /\ i - 1 \in 0..w /\ ~(i <= i - 1) /\ i - 1 \in Nat /\ (i - 1) + 1 = i
          /\ w - i \in Nat /\ w - (i - 1) = (w - i) + 1 /\ w - (i - 1) \in Nat
      BY <2>1, <2>3
    <3>2. f[i - 1] = (n \div Power[w - (i - 1)]) % Power[i - 1]
      BY <1>3, <3>1
    <3>3. /\ Power[w - (i - 1)] = ByteSize * Power[w - i] /\ Power[i] = ByteSize * Power[i - 1]
          /\ Power[w - i] \in Nat \ {0} /\ Power[i - 1] \in Nat \ {0} /\ ByteSize \in Nat \ {0}
      BY <3>1, PowerIs, Sizes
    <3>4. m \in Nat
      BY <3>3, Divides
    <3>5. n \div Power[w - (i - 1)] = m \div ByteSize
      <4>1. (n \div Power[w - i]) \div ByteSize = n \div (ByteSize * Power[w - i])
        BY <3>3, DividesTwice
      <4> QED  BY <3>3, <4>1
    <3>6. f[i] = ByteSize * ((m \div ByteSize) % Power[i - 1]) + (m % ByteSize)
      BY <1>1, <1>2, <3>1, <3>2, <3>5
    <3>7. m % (Power[i - 1] * ByteSize) = ByteSize * ((m \div ByteSize) % Power[i - 1]) + (m % ByteSize)
      <4> HIDE DEF m
      <4> QED  BY <3>3, <3>4, DividesTwice
    <3>8. Power[i] = Power[i - 1] * ByteSize
      BY <3>3
    <3>9. f[i] = m % Power[i]
      <4> HIDE DEF m
      <4> QED  BY <3>6, <3>7, <3>8
    <3> QED  BY <2>1, <3>9
  <2> QED  BY <2>2, <2>3
<1>4. Bad \in SUBSET Nat
  OBVIOUS
<1>5. Bad = {}
  <2> HIDE DEF Bad
  <2> QED  BY <1>3, <1>4, LeastOne
<1>6. w \in 0..w /\ w - w = 0
  OBVIOUS
<1>7. f[w] = (n \div Power[0]) % Power[w]
  BY <1>5, <1>6
<1>8. n \div 1 = n
  OBVIOUS
<1> QED  BY <1>2, <1>7, <1>8, PowerIs DEF bytes

--------------------------------------------------------------------------------
(* The order of bytes.                                                         *)

LEMMA ReverseType ==
    ASSUME NEW s \in Seq(Byte)
    PROVE  /\ Reverse(s) \in Seq(Byte) /\ Len(Reverse(s)) = Len(s)
           /\ Reverse(Reverse(s)) = s
<1>1. Len(s) \in Nat /\ \A i \in 1..Len(s) : s[i] \in Byte
  BY LenProperties, ElementOfSeq
<1>2. \A i \in 1..Len(s) : (Len(s) - i) + 1 \in 1..Len(s)
  BY <1>1
<1>3. Reverse(s) = [i \in 1..Len(s) |-> s[(Len(s) - i) + 1]]
  BY DEF Reverse
<1>4. Reverse(s) \in [1..Len(s) -> Byte]
  BY <1>1, <1>2, <1>3
<1>5. Reverse(s) \in Seq(Byte) /\ Len(Reverse(s)) = Len(s)
  BY <1>1, <1>4, SeqDef, LenProperties
<1> DEFINE r == Reverse(s)
<1>6. r \in Seq(Byte) /\ Len(r) = Len(s) /\ \A i \in 1..Len(s) : r[i] = s[(Len(s) - i) + 1]
  BY <1>3, <1>5
<1>7. Reverse(r) = [i \in 1..Len(r) |-> r[(Len(r) - i) + 1]]
  BY DEF Reverse
<1> HIDE DEF r
<1>8. ASSUME NEW i \in 1..Len(s) PROVE Reverse(r)[i] = s[i]
  <2>1. Reverse(r)[i] = r[(Len(s) - i) + 1]
    BY <1>6, <1>7
  <2>2. (Len(s) - ((Len(s) - i) + 1)) + 1 = i /\ (Len(s) - i) + 1 \in 1..Len(s)
    BY <1>1
  <2> QED  BY <1>6, <2>1, <2>2
<1>9. Reverse(r) = [i \in 1..Len(s) |-> Reverse(r)[i]]
  BY <1>6, <1>7
<1>10. s = [i \in 1..Len(s) |-> s[i]]
  BY LenProperties
<1>11. Reverse(r) = s
  BY <1>8, <1>9, <1>10
<1> QED  BY <1>5, <1>11 DEF r

\* Whatever the hosts' orders, bytes travel as digits.
LEMMA NetworkOrder ==
    ASSUME NEW p
    PROVE  /\ \A n, w \in Nat : Encoded(p, n, w) = Digits(n, w)
           /\ \A bytes \in Seq(Byte) : Decoded(p, bytes) = Number(bytes)
<1>1. ASSUME NEW n \in Nat, NEW w \in Nat PROVE Encoded(p, n, w) = Digits(n, w)
  BY DigitsType, ReverseType DEF Encoded, hton, InMemory
<1>2. ASSUME NEW bytes \in Seq(Byte) PROVE Decoded(p, bytes) = Number(bytes)
  BY ReverseType DEF Decoded, ntoh, hton, FromMemory
<1> QED  BY <1>1, <1>2

--------------------------------------------------------------------------------
(* What is packed.                                                             *)

LEMMA PowerGrows == \A n \in Nat : n < Power[n]
<1> DEFINE Bad == {n \in Nat : ~(n < Power[n])}
<1>1. ASSUME NEW n \in Bad, \A m \in Bad : n <= m PROVE FALSE
  <2>1. n \in Nat /\ ~(n < Power[n]) /\ n # 0
    BY PowerIs
  <2>2. n - 1 \in Nat /\ ~(n <= n - 1) /\ (n - 1) + 1 = n
    BY <2>1
  <2>3. n - 1 < Power[n - 1] /\ Power[n] = ByteSize * Power[n - 1] /\ Power[n - 1] \in Nat
    BY <1>1, <2>2, PowerIs
  <2> DEFINE x == Power[n - 1]
  <2>4. x \in Nat /\ n - 1 < x /\ Power[n] = ByteSize * x /\ ByteSize \in Nat /\ 2 <= ByteSize
    BY <2>3, Sizes
  <2> HIDE DEF x
  <2>5. 2 * x <= ByteSize * x
    BY <2>4
  <2> QED  BY <2>1, <2>4, <2>5
<1>2. Bad \in SUBSET Nat
  OBVIOUS
<1>3. Bad = {}
  <2> HIDE DEF Bad
  <2> QED  BY <1>1, <1>2, LeastOne
<1> QED  BY <1>3

LEMMA UInt == UIntSize \in Nat /\ Word < UIntSize /\ UIntSize = Power[Word]
  BY PowerIs, PowerGrows, Sizes DEF UIntSize

LEMMA LiteralType ==
    ASSUME NEW bytes \in Seq(Byte)
    PROVE  Literal(bytes) \in Seq(Byte) /\ Len(Literal(bytes)) <= Len(bytes)
<1> DEFINE ends == {i \in DOMAIN bytes : bytes[i] = 0}
           least == CHOOSE i \in ends : \A j \in ends : i <= j
<1>1. Len(bytes) \in Nat /\ DOMAIN bytes = 1..Len(bytes) /\ \A i \in 1..Len(bytes) : bytes[i] \in Byte
  BY LenProperties, ElementOfSeq
<1>2. Literal(bytes) = IF ends = {} THEN bytes ELSE SubSeq(bytes, 1, least - 1)
  BY DEF Literal
<1>3. CASE ends = {}
  BY <1>1, <1>2, <1>3
<1>4. CASE ends # {}
  <2>1. \E i \in ends : \A j \in ends : i <= j
    <3>1. ends \in SUBSET Nat
      BY <1>1
    <3> HIDE DEF ends
    <3> QED  BY <1>4, <3>1, LeastOne
  <2>2. least \in ends
    <3> HIDE DEF ends
    <3> QED  BY <2>1
  <2>3. least \in 1..Len(bytes)
    BY <1>1, <2>2
  <2> HIDE DEF ends, least
  <2>4. \A i \in 1..least - 1 : bytes[i] \in Byte
    BY <1>1, <2>3
  <2>5. SubSeq(bytes, 1, least - 1) \in Seq(Byte)
        /\ Len(SubSeq(bytes, 1, least - 1)) = IF 1 <= least - 1 THEN (least - 1) - 1 + 1 ELSE 0
    BY <2>3, <2>4, SubSeqProperties
  <2> QED  BY <1>1, <1>2, <1>4, <2>3, <2>5
<1> QED  BY <1>3, <1>4

\* The length of what is shorter than 2^32.
LEMMA LengthType ==
    ASSUME NEW p, NEW s, Len(s) \in Nat
    PROVE  /\ Length(p, s) \in Seq(Byte) /\ Len(Length(p, s)) = Word
           /\ Len(s) < UIntSize => Number(Length(p, s)) = Len(s)
<1>1. UIntSize \in Nat \ {0}
  BY UInt, Sizes
<1>2. Len(s) % UIntSize \in Nat /\ Len(s) % UIntSize < UIntSize
  BY <1>1, Divides
<1>3. Length(p, s) = Digits(Len(s) % UIntSize, Word)
  BY <1>2, NetworkOrder, Sizes DEF Length
<1>4. Number(Length(p, s)) = (Len(s) % UIntSize) % UIntSize
  BY <1>2, <1>3, NumberDigits, UInt, Sizes
<1>5. Len(s) < UIntSize => Len(s) % UIntSize = Len(s)
  BY <1>1
<1> QED  BY <1>2, <1>3, <1>4, <1>5, DigitsType, Sizes

\* The uint32_t an enum is cast to.
LEMMA WidenedType ==
    ASSUME NEW type, NEW n \in Nat, type.width \in 0..Word, n < Power[type.width]
    PROVE  Widened(type, n) \in Nat
<1>1. Power[type.width] \in Nat /\ UIntSize \in Nat
  BY PowerIs, UInt, Sizes
<1>2. Power[type.width] <= UIntSize
  <2> DEFINE Bad == {m \in Nat : type.width + m \in Nat /\ ~(Power[type.width] <= Power[type.width + m])}
  <2>1. ASSUME NEW m \in Bad, \A x \in Bad : m <= x PROVE FALSE
    <3> DEFINE k == type.width
    <3>1. m \in Nat /\ k \in Nat /\ ~(Power[k] <= Power[k + m])
      BY Sizes
    <3>2. m # 0
      BY <1>1, <3>1
    <3>3. m - 1 \in Nat /\ ~(m <= m - 1) /\ (k + (m - 1)) + 1 = k + m /\ k + (m - 1) \in Nat
      BY <3>1, <3>2
    <3>4. Power[k] <= Power[k + (m - 1)]
      BY <2>1, <3>3
    <3>5. Power[k + m] = ByteSize * Power[k + (m - 1)] /\ Power[k + (m - 1)] \in Nat
      BY <3>3, PowerIs
    <3> DEFINE y == Power[k + (m - 1)]
    <3>6. y \in Nat /\ Power[k] <= y /\ Power[k + m] = ByteSize * y /\ ByteSize \in Nat /\ 1 <= ByteSize
          /\ Power[k] \in Nat
      BY <1>1, <3>4, <3>5, Sizes
    <3> HIDE DEF y, k
    <3>7. y <= ByteSize * y
      BY <3>6
    <3> QED  BY <3>1, <3>6, <3>7
  <2>2. Bad \in SUBSET Nat
    OBVIOUS
  <2>3. Bad = {}
    <3> HIDE DEF Bad
    <3> QED  BY <2>1, <2>2, LeastOne
  <2>4. Word - type.width \in Nat /\ type.width + (Word - type.width) = Word
    BY Sizes
  <2>5. Word - type.width \notin Bad
    BY <2>3
  <2> QED  BY <2>4, <2>5, UInt, Sizes
<1> QED  BY <1>1, <1>2 DEF Widened

\* The kinds of values.
LEMMA PackableKinds ==
    ASSUME NEW values, Packable(values), NEW value \in values, NEW type, NEW content,
           type = value.type, content = value.content
    PROVE  /\ type.kind \in {"number", "enum", "string", "raw", "vector", "map", "pair", "object"}
           /\ type.kind = "number" =>
                 type.width \in Nat /\ type.width < UIntSize /\ content \in Nat /\ content < Power[type.width]
           /\ type.kind = "enum" =>
                 /\ type.width \in 0..Word /\ type.width \in Nat /\ type.signed \in BOOLEAN
                 /\ content \in Nat /\ content < Power[type.width]
           /\ type.kind = "string" =>
                 /\ content.pointer \in BOOLEAN
                 /\ content.chars \in Seq(Byte) /\ Len(content.chars) < UIntSize
           /\ type.kind = "raw" =>
                 content \in Seq(Byte) /\ Len(content) < UIntSize /\ type.count = Len(content)
           /\ type.kind \in {"vector", "map"} =>
                 /\ Len(content) \in Nat /\ Len(content) < UIntSize
                 /\ DOMAIN content = 1..Len(content)
           /\ type.kind \in {"pair", "object"} =>
                 Len(type.of) \in Nat /\ DOMAIN type.of = 1..Len(type.of)
           /\ \A i \in DOMAIN Parts(type, content) : Parts(type, content)[i] \in values
<1>1. /\ \/ /\ type.kind = "number" /\ type.width \in 0..UIntSize - 1
            /\ content \in 0..Power[type.width] - 1
         \/ /\ type.kind = "enum" /\ type.width \in 0..Word /\ type.signed \in BOOLEAN
            /\ content \in 0..Power[type.width] - 1
         \/ /\ type.kind = "string" /\ content.pointer \in BOOLEAN
            /\ content.chars \in Seq(Byte) /\ Len(content.chars) < UIntSize
         \/ /\ type.kind = "raw" /\ content \in Seq(Byte) /\ Len(content) < UIntSize
            /\ type.count = Len(content)
         \/ /\ type.kind \in {"vector", "map"} /\ Len(content) \in 0..UIntSize - 1
            /\ DOMAIN content = 1..Len(content)
         \/ /\ type.kind \in {"pair", "object"} /\ Len(type.of) \in Nat
            /\ type.of = [i \in 1..Len(type.of) |-> type.of[i]]
      /\ \A i \in DOMAIN Parts(type, content) : Parts(type, content)[i] \in values
  BY DEF Packable
<1> DEFINE width == type.width
           power == Power[width]
<1>2. UIntSize \in Nat /\ Word \in Nat
  BY UInt, Sizes
<1>3. width \in 0..UIntSize - 1 \/ width \in 0..Word => width \in Nat /\ power \in Nat
  BY <1>2, PowerIs
<1> HIDE DEF width, power
<1>4. CASE type.kind = "number"
  <2>1. width \in 0..UIntSize - 1 /\ content \in 0..power - 1
    BY <1>1, <1>4 DEF width, power
  <2>2. width \in Nat /\ width < UIntSize /\ content \in Nat /\ content < power
    BY <1>2, <1>3, <2>1
  <2> QED  BY <1>1, <1>4, <2>2 DEF width, power
<1>5. CASE type.kind = "enum"
  <2>1. width \in 0..Word /\ content \in 0..power - 1 /\ type.signed \in BOOLEAN
    BY <1>1, <1>5 DEF width, power
  <2>2. width \in Nat /\ content \in Nat /\ content < power
    BY <1>2, <1>3, <2>1
  <2> QED  BY <1>1, <1>5, <2>1, <2>2 DEF width, power
<1>6. CASE type.kind \in {"string", "raw"}
  BY <1>1, <1>6
<1>8. CASE type.kind \in {"pair", "object"}
  <2>1. Len(type.of) \in Nat /\ type.of = [i \in 1..Len(type.of) |-> type.of[i]]
    BY <1>1, <1>8
  <2> DEFINE of == type.of
             n == Len(of)
  <2>2. of = [i \in 1..n |-> of[i]]
    BY <2>1
  <2>3. DOMAIN of = 1..n
    <3> HIDE DEF of, n
    <3> QED  BY <2>2
  <2> QED  BY <1>1, <1>8, <2>1, <2>3
<1>7. CASE type.kind \in {"vector", "map"}
  <2>1. Len(content) \in 0..UIntSize - 1 /\ DOMAIN content = 1..Len(content)
    BY <1>1, <1>7
  <2>2. Len(content) \in Nat /\ Len(content) < UIntSize
    BY <1>2, <2>1
  <2> QED  BY <1>1, <1>7, <2>1, <2>2
<1> QED  BY <1>1, <1>4, <1>5, <1>6, <1>7, <1>8

LEMMA PackableOf ==
    ASSUME NEW values, Packable(values), NEW value \in values, value.type.kind \in {"pair", "object"}
    PROVE  value.type.of = [i \in 1..Len(value.type.of) |-> value.type.of[i]]
  BY DEF Packable

\* What a string and a char pointer stand for.
LEMMA CharactersType ==
    ASSUME NEW values, Packable(values), NEW value \in values, NEW type, NEW content,
           type = value.type, content = value.content, type.kind = "string"
    PROVE  Characters(content) \in Seq(Byte) /\ Len(Characters(content)) < UIntSize
<1> DEFINE chars == content.chars
<1>1. chars \in Seq(Byte) /\ Len(chars) < UIntSize
  BY PackableKinds
<1>2. Characters(content) = IF content.pointer THEN Literal(chars) ELSE chars
  BY DEF Characters
<1> HIDE DEF chars
<1>3. /\ Literal(chars) \in Seq(Byte) /\ Len(Literal(chars)) <= Len(chars)
      /\ Len(Literal(chars)) \in Nat /\ Len(chars) \in Nat /\ UIntSize \in Nat
  BY <1>1, LiteralType, LenProperties, UInt
<1>4. Len(Literal(chars)) < UIntSize
  BY <1>1, <1>3
<1> QED  BY <1>1, <1>2, <1>3, <1>4

\* What a call of << appends are bytes; it leaves calls for values of its parts.
LEMMA AppendedType ==
    ASSUME NEW p, NEW values, Packable(values), NEW value \in values, NEW type, NEW content,
           type = value.type, content = value.content
    PROVE  /\ Appended(p, type, content) \in Seq(Byte)
           /\ Parts(type, content) \in Seq(values)
<1> DEFINE appended == Appended(p, type, content)
           parts == Parts(type, content)
<1>1. \A i \in DOMAIN parts : parts[i] \in values
  BY PackableKinds
<1>9. <<>> \in Seq(values)
  OBVIOUS
<1>2. CASE type.kind = "number"
  <2>1. type.width \in Nat /\ content \in Nat
    BY <1>2, PackableKinds
  <2>2. appended = Encoded(p, content, type.width) /\ parts = <<>>
    BY <1>2 DEF Appended, Parts
  <2>3. Encoded(p, content, type.width) = Digits(content, type.width)
    BY <2>1, NetworkOrder
  <2>4. appended \in Seq(Byte) /\ parts \in Seq(values)
    BY <1>9, <2>1, <2>2, <2>3, DigitsType
  <2> QED  BY <2>4
<1>3. CASE type.kind = "enum"
  <2> DEFINE wide == Widened(type, content)
  <2>1. type.width \in 0..Word /\ content \in Nat /\ content < Power[type.width]
    BY <1>3, PackableKinds
  <2>2. appended = Encoded(p, wide, Word) /\ parts = <<>>
    BY <1>3 DEF Appended, Parts
  <2>3. wide \in Nat /\ Word \in Nat
    BY <2>1, WidenedType, Sizes
  <2> HIDE DEF wide
  <2>4. Encoded(p, wide, Word) = Digits(wide, Word)
    BY <2>3, NetworkOrder
  <2>5. appended \in Seq(Byte) /\ parts \in Seq(values)
    <3> HIDE DEF appended, parts
    <3> QED  BY <1>9, <2>2, <2>3, <2>4, DigitsType
  <2> QED  BY <2>5
<1>4. CASE type.kind = "string"
  <2> DEFINE text == Characters(content)
  <2>1. text \in Seq(Byte) /\ Len(text) \in Nat
    BY <1>4, CharactersType, LenProperties
  <2>2. appended = Length(p, text) \o text /\ parts = <<>>
    BY <1>4 DEF Appended, Parts
  <2> HIDE DEF text, appended, parts
  <2>3. appended \in Seq(Byte)
    BY <2>1, <2>2, LengthType, ConcatProperties
  <2> QED  BY <1>9, <2>2, <2>3 DEF appended, parts
<1>5. CASE type.kind = "raw"
  <2>1. content \in Seq(Byte)
    BY <1>5, PackableKinds
  <2>2. appended = content /\ parts = <<>>
    BY <1>5 DEF Appended, Parts
  <2> QED  BY <2>1, <2>2
<1>6. CASE type.kind \in {"vector", "map"}
  <2>1. Len(content) \in Nat /\ DOMAIN content = 1..Len(content) /\ appended = Length(p, content)
    BY <1>6, PackableKinds DEF Appended
  <2>2. DOMAIN parts = DOMAIN content /\ parts = [i \in DOMAIN content |-> parts[i]]
    BY <1>6 DEF Parts
  <2> HIDE DEF parts
  <2>3. parts \in [1..Len(content) -> values]
    BY <1>1, <2>1, <2>2
  <2>4. parts \in Seq(values)
    BY <2>1, <2>3, SeqDef
  <2> QED  BY <2>1, <2>4, LengthType DEF parts
<1>7. CASE type.kind \in {"pair", "object"}
  <2>1. Len(type.of) \in Nat /\ DOMAIN type.of = 1..Len(type.of) /\ appended = <<>>
    BY <1>7, PackableKinds DEF Appended
  <2>2. DOMAIN parts = DOMAIN type.of /\ parts = [i \in DOMAIN type.of |-> parts[i]]
    BY <1>7 DEF Parts
  <2> HIDE DEF parts
  <2>3. parts \in [1..Len(type.of) -> values]
    BY <1>1, <2>1, <2>2
  <2>4. parts \in Seq(values)
    BY <2>1, <2>3, SeqDef
  <2>5. <<>> \in Seq(Byte)
    OBVIOUS
  <2> QED  BY <2>1, <2>4, <2>5 DEF parts
<1>8. type.kind \in {"number", "enum", "string", "raw", "vector", "map", "pair", "object"}
  BY PackableKinds
<1> HIDE DEF appended, parts
<1> QED  BY <1>2, <1>3, <1>4, <1>5, <1>6, <1>7, <1>8

--------------------------------------------------------------------------------
(* What is extracted.                                                          *)

\* A call of >> takes less than 4 GiB, and leaves calls of types that may be extracted.
LEMMA TakenType ==
    ASSUME NEW p, NEW types, Extractable(types), NEW type \in types,
           NEW bytes \in Seq(Byte), Len(bytes) = Takes(type)
    PROVE  /\ Takes(type) \in Nat /\ Takes(type) < UIntSize
           /\ Members(p, type, bytes) \in Seq(types)
<1> DEFINE members == Members(p, type, bytes)
<1>1. UIntSize \in Nat /\ Word \in Nat /\ Word < UIntSize
  BY UInt, Sizes
<1>2. <<>> \in Seq(types)
  OBVIOUS
<1>3. CASE type.kind = "number"
  <2>1. Takes(type) = type.width /\ members = <<>>
    BY <1>3 DEF Takes, Members
  <2>2. type.width \in Nat /\ type.width < UIntSize
    BY <1>1, <1>3 DEF Extractable
  <2> QED  BY <1>2, <2>1, <2>2
<1>4. CASE type.kind = "enum"
  <2>1. Takes(type) = Word /\ members = <<>>
    BY <1>4 DEF Takes, Members
  <2> QED  BY <1>1, <1>2, <2>1
<1>5. CASE type.kind = "raw"
  <2>1. Takes(type) = type.count /\ members = <<>>
    BY <1>5 DEF Takes, Members
  <2>2. type.count \in Nat /\ type.count < UIntSize
    BY <1>1, <1>5 DEF Extractable
  <2> QED  BY <1>2, <2>1, <2>2
<1>6. Takes(type) = Word => Decoded(p, bytes) \in 0..UIntSize - 1
  <2> SUFFICES ASSUME Takes(type) = Word PROVE Decoded(p, bytes) \in 0..UIntSize - 1
    OBVIOUS
  <2>1. Number(bytes) \in Nat /\ Number(bytes) < UIntSize
    BY NumberType, UInt
  <2> QED  BY <1>1, <2>1, NetworkOrder
<1>7. CASE type.kind = "string"
  <2> DEFINE n == Decoded(p, bytes)
             chars == [kind |-> "raw", count |-> n]
  <2>1. Takes(type) = Word /\ members = <<chars>>
    BY <1>7 DEF Takes, Members
  <2>2. n \in 0..UIntSize - 1
    BY <1>6, <2>1
  <2> HIDE DEF n
  <2>3. chars \in types
    BY <1>7, <2>2 DEF Extractable
  <2> HIDE DEF chars
  <2>4. <<chars>> \in Seq(types)
    BY <2>3
  <2> QED  BY <1>1, <2>1, <2>4
<1>8. CASE type.kind \in {"vector", "map"}
  <2> DEFINE n == Decoded(p, bytes)
  <2>1. Takes(type) = Word /\ members = [i \in 1..n |-> type.of]
    BY <1>8 DEF Takes, Members
  <2>2. n \in Nat /\ type.of \in types
    BY <1>1, <1>6, <1>8, <2>1 DEF Extractable
  <2> HIDE DEF n
  <2>3. [i \in 1..n |-> type.of] \in [1..n -> types]
    BY <2>2
  <2>4. [i \in 1..n |-> type.of] \in Seq(types)
    BY <2>2, <2>3, SeqDef
  <2> QED  BY <1>1, <2>1, <2>4
<1>9. CASE type.kind \in {"pair", "object"}
  <2>1. Takes(type) = 0 /\ members = type.of
    BY <1>9 DEF Takes, Members
  <2>2. type.of \in Seq(types)
    BY <1>9 DEF Extractable
  <2> QED  BY <1>1, <2>1, <2>2
<1>10. type.kind \in {"number", "enum", "string", "raw", "vector", "map", "pair", "object"}
  BY DEF Extractable
<1> HIDE DEF members
<1> QED  BY <1>3, <1>4, <1>5, <1>7, <1>8, <1>9, <1>10

\* How much a call takes, whatever is there.
LEMMA TakesType ==
    ASSUME NEW types, Extractable(types), NEW type \in types
    PROVE  Takes(type) \in Nat /\ Takes(type) < UIntSize
<1>1. Word \in Nat /\ Word < UIntSize /\ UIntSize \in Nat
  BY UInt, Sizes
<1> QED  BY <1>1 DEF Extractable, Takes

--------------------------------------------------------------------------------
(* Buffers, cursors and calls.                                                 *)

\* What C++ ensures: applications pack and extract values of their types.
WellTyped ==
    /\ \E values : Values \subseteq values /\ Packable(values)
    /\ \E types : Types \subseteq types /\ Extractable(types)

PackedValues == CHOOSE values : Values \subseteq values /\ Packable(values)
ExtractedTypes == CHOOSE types : Types \subseteq types /\ Extractable(types)

LEMMA CallsTyped ==
    ASSUME WellTyped
    PROVE  /\ Values \subseteq PackedValues /\ Packable(PackedValues)
           /\ Types \subseteq ExtractedTypes /\ Extractable(ExtractedTypes)
  BY DEF WellTyped, PackedValues, ExtractedTypes

\* No buffer is within 4 GiB of the end of memory.
BuffersFit == \A p \in Packets : Len(buffer[p]) + UIntSize <= SizeT

\* The calls that an operator has still to make are of the types of its applications.
Calls ==
    /\ pc = "packing" => todo \in Seq(PackedValues)
    /\ pc = "extracting" => todo \in Seq(ExtractedTypes)

\* A cursor that has not strayed is between the header and the end; any other is as far from
\* the end of memory as some buffer's end.
Cursors ==
    \A p \in Packets :
        /\ HeaderLength <= Len(buffer[p]) /\ buffer_read_index[p] + UIntSize <= SizeT
        /\ p \notin stray =>
               HeaderLength <= buffer_read_index[p] /\ buffer_read_index[p] <= Len(buffer[p])

BufferInv ==
    /\ buffer \in [Packets -> Seq(Byte)] /\ buffer_read_index \in [Packets -> Nat]
    /\ pc \in {"idle", "packing", "extracting", "threw"}
    /\ object \in IF pc = "idle" THEN {None} ELSE Packets
    /\ pc = "idle" => todo = <<>> /\ got = <<>>
    /\ stray \subseteq Packets
    /\ Calls /\ Cursors

LEMMA BufferTypes == BufferInv /\ BuffersFit => TypeOK
<1> SUFFICES ASSUME BufferInv, BuffersFit PROVE TypeOK
  OBVIOUS
<1>1. ASSUME NEW p \in Packets, p \notin stray
      PROVE  /\ buffer_read_index[p] \in HeaderLength..Len(buffer[p])
             /\ buffer_read_index[p] + get_bytes_remaining(p) = Len(buffer[p])
  <2>1. /\ buffer_read_index[p] \in Nat /\ buffer[p] \in Seq(Byte)
        /\ HeaderLength <= buffer_read_index[p] /\ buffer_read_index[p] <= Len(buffer[p])
        /\ Len(buffer[p]) + UIntSize <= SizeT
    BY <1>1 DEF BufferInv, Cursors, BuffersFit
  <2> DEFINE at == buffer_read_index[p]
             n == Len(buffer[p])
  <2>2. at \in Nat /\ n \in Nat /\ HeaderLength <= at /\ at <= n /\ n + UIntSize <= SizeT
    BY <2>1, LenProperties
  <2>3. get_bytes_remaining(p) = (n - at) % SizeT
    BY DEF get_bytes_remaining
  <2> HIDE DEF at, n
  <2>4. n - at \in Nat /\ n - at < SizeT /\ SizeT \in Nat
    BY <2>2, UInt, Sizes
  <2>5. (n - at) % SizeT = n - at
    BY <2>4
  <2>6. at + (n - at) = n /\ at \in HeaderLength..n
    BY <2>2, Sizes
  <2> QED  BY <2>3, <2>5, <2>6 DEF at, n
<1>2. CursorInside
  BY <1>1 DEF CursorInside
<1>3. \A p \in Packets : Len(buffer[p]) >= HeaderLength
  <2> TAKE p \in Packets
  <2>1. HeaderLength <= Len(buffer[p]) /\ Len(buffer[p]) \in Nat
    BY LenProperties DEF BufferInv, Cursors
  <2> QED  BY <2>1, Sizes
<1> QED  BY <1>2, <1>3 DEF BufferInv, TypeOK

LEMMA ClearedType ==
    ASSUME NEW p
    PROVE  Cleared(p) \in Seq(Byte) /\ Len(Cleared(p)) = HeaderLength
<1>1. 0 \in Byte /\ HeaderLength \in Nat
  BY Sizes
<1>2. Cleared(p) \in [1..HeaderLength -> Byte]
  BY <1>1 DEF Cleared
<1>3. Cleared(p) \in Seq(Byte) /\ DOMAIN Cleared(p) = 1..HeaderLength
  BY <1>1, <1>2, SeqDef
<1> QED  BY <1>1, <1>3, LenProperties

LEMMA BufferInit == WellTyped => (Init /\ BuffersFit => BufferInv)
<1> SUFFICES ASSUME WellTyped, Init, BuffersFit PROVE BufferInv
  OBVIOUS
<1>1. HeaderLength \in Nat /\ UIntSize \in Nat
  BY Sizes, UInt
<1>2. \A p \in Packets : buffer[p] = Cleared(p) /\ buffer_read_index[p] = HeaderLength
  BY DEF Init, Cleared
<1>3. buffer \in [Packets -> Seq(Byte)] /\ \A p \in Packets : Len(buffer[p]) = HeaderLength
  <2>1. \A p \in Packets : buffer[p] \in Seq(Byte) /\ Len(buffer[p]) = HeaderLength
    BY <1>2, ClearedType
  <2>2. buffer = [p \in Packets |-> buffer[p]]
    BY DEF Init
  <2> QED  BY <2>1, <2>2
<1>4. Cursors
  <2> SUFFICES ASSUME NEW p \in Packets
               PROVE  /\ HeaderLength <= Len(buffer[p]) /\ HeaderLength <= buffer_read_index[p]
                      /\ buffer_read_index[p] + UIntSize <= SizeT
                      /\ buffer_read_index[p] <= Len(buffer[p])
    BY DEF Cursors
  <2> QED  BY <1>1, <1>2, <1>3 DEF BuffersFit
<1> QED  BY <1>1, <1>3, <1>4 DEF Init, BufferInv, Calls

\* Steps of one packet's buffer and cursor, and of nothing else that Cursors is about.
LEMMA CursorsStep ==
    ASSUME BufferInv, NEW p \in Packets, NEW bytes \in Seq(Byte), NEW at \in Nat,
           buffer' = [buffer EXCEPT ![p] = bytes],
           buffer_read_index' = [buffer_read_index EXCEPT ![p] = at],
           HeaderLength <= Len(bytes), at + UIntSize <= SizeT,
           p \notin stray' => HeaderLength <= at /\ at <= Len(bytes), stray \ {p} \subseteq stray'
    PROVE  /\ buffer' \in [Packets -> Seq(Byte)] /\ buffer_read_index' \in [Packets -> Nat]
           /\ Cursors'
<1>1. buffer \in [Packets -> Seq(Byte)] /\ buffer_read_index \in [Packets -> Nat]
  BY DEF BufferInv
<1>2. ASSUME NEW q \in Packets
      PROVE  /\ HeaderLength <= Len(buffer'[q]) /\ buffer_read_index'[q] + UIntSize <= SizeT
             /\ q \notin stray' =>
                    HeaderLength <= buffer_read_index'[q] /\ buffer_read_index'[q] <= Len(buffer'[q])
  <2>1. CASE q = p
    <3>1. buffer'[q] = bytes /\ buffer_read_index'[q] = at
      BY <1>1, <2>1
    <3> QED  BY <2>1, <3>1
  <2>2. CASE q # p
    <3>1. buffer'[q] = buffer[q] /\ buffer_read_index'[q] = buffer_read_index[q]
      BY <1>1, <2>2
    <3> QED  BY <2>2, <3>1 DEF BufferInv, Cursors
  <2> QED  BY <2>1, <2>2
<1> QED  BY <1>1, <1>2 DEF Cursors

LEMMA PackKeeps ==
    ASSUME WellTyped, BufferInv, Pack
    PROVE  BufferInv'
<1> DEFINE type == Head(todo).type
           content == Head(todo).content
           bytes == Appended(object, type, content)
           parts == Parts(type, content)
           old == buffer[object]
<1>1. /\ pc = "packing" /\ todo # <<>> /\ buffer' = [buffer EXCEPT ![object] = old \o bytes]
      /\ todo' = parts \o Tail(todo)
      /\ UNCHANGED <<buffer_read_index, pc, object, got, begun, stray>>
  BY DEF Pack
<1>2. object \in Packets /\ todo \in Seq(PackedValues)
  BY <1>1 DEF BufferInv, Calls
<1>3. Head(todo) \in PackedValues /\ Tail(todo) \in Seq(PackedValues)
  BY <1>1, <1>2, HeadTailProperties
<1>4. bytes \in Seq(Byte) /\ parts \in Seq(PackedValues)
  BY <1>3, CallsTyped, AppendedType
<1>5. /\ old \in Seq(Byte) /\ buffer_read_index[object] \in Nat
      /\ HeaderLength <= Len(old) /\ buffer_read_index[object] + UIntSize <= SizeT
      /\ object \notin stray =>
             HeaderLength <= buffer_read_index[object] /\ buffer_read_index[object] <= Len(old)
  BY <1>2 DEF BufferInv, Cursors
<1> HIDE DEF type, content, bytes, parts, old
<1>6. old \o bytes \in Seq(Byte) /\ Len(old \o bytes) = Len(old) + Len(bytes)
      /\ Len(old) \in Nat /\ Len(bytes) \in Nat
  BY <1>4, <1>5, ConcatProperties, LenProperties
<1>7. /\ HeaderLength <= Len(old \o bytes) /\ HeaderLength \in Nat
      /\ object \notin stray =>
             /\ HeaderLength <= buffer_read_index[object]
             /\ buffer_read_index[object] <= Len(old \o bytes)
  BY <1>5, <1>6, Sizes
<1>8. buffer_read_index' = [buffer_read_index EXCEPT ![object] = buffer_read_index[object]]
  BY <1>1 DEF BufferInv
<1>9. /\ buffer' \in [Packets -> Seq(Byte)] /\ buffer_read_index' \in [Packets -> Nat]
      /\ Cursors'
  <2>1. object \notin stray' =>
             /\ HeaderLength <= buffer_read_index[object]
             /\ buffer_read_index[object] <= Len(old \o bytes)
    BY <1>1, <1>7
  <2>2. stray \ {object} \subseteq stray'
    BY <1>1
  <2> QED  BY <1>1, <1>2, <1>5, <1>6, <1>7, <1>8, <2>1, <2>2, CursorsStep
<1>10. todo' \in Seq(PackedValues)
  BY <1>1, <1>3, <1>4, ConcatProperties
<1>11. Calls'
  BY <1>1, <1>10 DEF Calls
<1> QED  BY <1>1, <1>9, <1>11 DEF BufferInv

\* The bytes that a call takes are bytes, be they in the buffer or not.
LEMMA AtType ==
    ASSUME NEW p \in Packets, buffer[p] \in Seq(Byte)
    PROVE  \A i : At(p, i) \in Byte
<1>1. \A i \in DOMAIN buffer[p] : buffer[p][i] \in Byte
  BY LenProperties, ElementOfSeq
<1> QED  BY <1>1, Sizes DEF At

\* What a call of >> takes is in the buffer, and its cursor passes it.
LEMMA Taken ==
    ASSUME WellTyped, BufferInv, BuffersFit, Extract
    PROVE  /\ object \in Packets /\ Takes(Head(todo)) \in Nat
           /\ buffer_read_index[object] + Takes(Head(todo)) <= Len(buffer[object])
           /\ buffer_read_index' = [buffer_read_index EXCEPT
                   ![object] = buffer_read_index[object] + Takes(Head(todo))]
           /\ todo' \in Seq(ExtractedTypes)
<1> DEFINE type == Head(todo)
           at == buffer_read_index[object]
           n == Len(buffer[object])
           takes == Takes(type)
           bytes == [i \in 1..takes |-> At(object, at + i)]
           members == Members(object, type, bytes)
<1>1. /\ pc = "extracting" /\ todo # <<>> /\ assert_bytes_remaining(object, type)
      /\ buffer_read_index' = [buffer_read_index EXCEPT ![object] = at + takes]
      /\ todo' = members \o Tail(todo)
  BY DEF Extract
<1>2. object \in Packets /\ todo \in Seq(ExtractedTypes)
  BY <1>1 DEF BufferInv, Calls
<1>3. type \in ExtractedTypes /\ Tail(todo) \in Seq(ExtractedTypes)
  BY <1>1, <1>2, HeadTailProperties
<1>4. takes \in Nat /\ takes < UIntSize /\ UIntSize \in Nat
  BY <1>3, CallsTyped, TakesType, UInt
<1>5. at \in Nat /\ n \in Nat /\ at + UIntSize <= SizeT /\ SizeT \in Nat
  BY <1>2, LenProperties, Sizes DEF BufferInv, Cursors
<1>6. (at + takes) % SizeT <= n
  BY <1>1 DEF assert_bytes_remaining
<1>7. at + takes <= n
  <2> HIDE DEF at, n, takes
  <2>1. at + takes \in Nat /\ at + takes < SizeT
    BY <1>4, <1>5
  <2>2. (at + takes) % SizeT = at + takes
    BY <1>5, <2>1
  <2> QED  BY <1>6, <2>2
<1>8. bytes \in Seq(Byte) /\ Len(bytes) = takes
  <2>1. \A i : At(object, i) \in Byte
    BY <1>2, AtType DEF BufferInv
  <2> HIDE DEF takes
  <2>2. bytes \in [1..takes -> Byte] /\ DOMAIN bytes = 1..takes
    BY <2>1
  <2> HIDE DEF bytes
  <2>3. bytes \in Seq(Byte)
    BY <1>4, <2>2, SeqDef
  <2> QED  BY <1>4, <2>2, <2>3, LenProperties
<1>9. members \in Seq(ExtractedTypes)
  <2> HIDE DEF bytes
  <2> QED  BY <1>3, <1>8, CallsTyped, TakenType
<1> HIDE DEF members
<1>10. todo' \in Seq(ExtractedTypes)
  BY <1>1, <1>3, <1>9, ConcatProperties
<1> QED  BY <1>1, <1>2, <1>4, <1>7, <1>10

LEMMA ExtractKeeps ==
    ASSUME WellTyped, BufferInv, BuffersFit, Extract
    PROVE  BufferInv'
<1> DEFINE at == buffer_read_index[object] + Takes(Head(todo))
<1>1. /\ object \in Packets /\ Takes(Head(todo)) \in Nat
      /\ at <= Len(buffer[object])
      /\ buffer_read_index' = [buffer_read_index EXCEPT ![object] = at]
      /\ todo' \in Seq(ExtractedTypes)
  BY Taken
<1>2. pc = "extracting" /\ UNCHANGED <<buffer, pc, object, begun, items, stray>>
  BY DEF Extract
<1>3. /\ buffer[object] \in Seq(Byte) /\ buffer_read_index[object] \in Nat
      /\ HeaderLength <= Len(buffer[object])
      /\ object \notin stray => HeaderLength <= buffer_read_index[object]
      /\ Len(buffer[object]) + UIntSize <= SizeT /\ Len(buffer[object]) \in Nat
  BY <1>1, LenProperties DEF BufferInv, Cursors, BuffersFit
<1>4. /\ at \in Nat /\ at + UIntSize <= SizeT
      /\ object \notin stray => HeaderLength <= at /\ at <= Len(buffer[object])
  <2> DEFINE from == buffer_read_index[object]
             takes == Takes(Head(todo))
             n == Len(buffer[object])
  <2>1. /\ from \in Nat /\ takes \in Nat /\ n \in Nat /\ HeaderLength \in Nat /\ UIntSize \in Nat
        /\ at = from + takes /\ at <= n /\ n + UIntSize <= SizeT /\ SizeT \in Nat
        /\ object \notin stray => HeaderLength <= from
    BY <1>1, <1>3, Sizes, UInt
  <2> HIDE DEF from, takes, n, at
  <2>2. /\ at \in Nat /\ at + UIntSize <= SizeT
        /\ object \notin stray => HeaderLength <= at /\ at <= n
    BY <2>1
  <2> QED  BY <2>2 DEF n
<1> HIDE DEF at
<1>5. buffer' = [buffer EXCEPT ![object] = buffer[object]]
  BY <1>2 DEF BufferInv
<1>6. /\ buffer' \in [Packets -> Seq(Byte)] /\ buffer_read_index' \in [Packets -> Nat]
      /\ Cursors'
  <2>1. /\ stray \ {object} \subseteq stray'
        /\ object \notin stray' => HeaderLength <= at /\ at <= Len(buffer[object])
    BY <1>2, <1>4
  <2> QED  BY <1>1, <1>3, <1>4, <1>5, <2>1, CursorsStep
<1> QED  BY <1>1, <1>2, <1>6 DEF BufferInv, Calls

\* An operator begins or ends.
LEMMA CallsKeep ==
    ASSUME WellTyped, BufferInv,
           \/ \E p \in Packets : \E value \in Values : PackBegin(p, value)
           \/ \E p \in Read : \E type \in Types : ExtractBegin(p, type)
           \/ PackEnd \/ Throw \/ ExtractEnd
    PROVE  BufferInv'
<1>1. Cursors'
  <2>1. UNCHANGED <<memory, stray>>
    BY DEF PackBegin, ExtractBegin, PackEnd, Throw, ExtractEnd
  <2> QED  BY <2>1 DEF BufferInv, Cursors, memory
<1>2. CASE \E p \in Packets : \E value \in Values : PackBegin(p, value)
  <2>1. PICK p \in Packets, value \in Values : PackBegin(p, value)
    BY <1>2
  <2>2. <<value>> \in Seq(PackedValues)
    <3>1. value \in PackedValues
      BY CallsTyped
    <3> QED  BY <3>1
  <2> QED  BY <1>1, <2>1, <2>2 DEF PackBegin, BufferInv, Calls, memory
<1>3. CASE \E p \in Read : \E type \in Types : ExtractBegin(p, type)
  <2>1. PICK p \in Read, type \in Types : ExtractBegin(p, type)
    BY <1>3
  <2>2. <<type>> \in Seq(ExtractedTypes)
    <3>1. type \in ExtractedTypes
      BY CallsTyped
    <3> QED  BY <3>1
  <2>3. p \in Packets
    BY BufferAssumption
  <2> QED  BY <1>1, <2>1, <2>2, <2>3 DEF ExtractBegin, BufferInv, Calls, memory
<1>4. CASE Throw
  BY <1>1, <1>4 DEF Throw, BufferInv, Calls, memory
<1>5. CASE PackEnd \/ ExtractEnd
  BY <1>1, <1>5 DEF PackEnd, ExtractEnd, Idle, BufferInv, Calls, memory
<1> QED  BY <1>2, <1>3, <1>4, <1>5

\* The rest of the invariant, for steps between the operators.
LEMMA BetweenCalls ==
    ASSUME BufferInv, UNCHANGED call, stray' \subseteq Packets, Cursors',
           buffer' \in [Packets -> Seq(Byte)], buffer_read_index' \in [Packets -> Nat]
    PROVE  BufferInv'
  BY DEF BufferInv, call, Calls

LEMMA ClearKeeps ==
    ASSUME BufferInv, BuffersFit, NEW p \in Packets, clear(p)
    PROVE  BufferInv'
<1>1. /\ buffer' = [buffer EXCEPT ![p] = Cleared(p)]
      /\ buffer_read_index' = [buffer_read_index EXCEPT ![p] = HeaderLength]
      /\ stray' = stray \ {p} /\ UNCHANGED call
  BY DEF clear, Start
<1>2. /\ Cleared(p) \in Seq(Byte) /\ Len(Cleared(p)) = HeaderLength /\ HeaderLength \in Nat
      /\ UIntSize \in Nat /\ SizeT \in Nat
  BY ClearedType, Sizes, UInt
<1>3. HeaderLength + UIntSize <= SizeT
  <2> DEFINE n == Len(buffer[p])
  <2>1. n \in Nat /\ HeaderLength <= n /\ n + UIntSize <= SizeT
    BY LenProperties DEF BufferInv, Cursors, BuffersFit
  <2> HIDE DEF n
  <2> QED  BY <1>2, <2>1
<1>4. /\ buffer' \in [Packets -> Seq(Byte)] /\ buffer_read_index' \in [Packets -> Nat]
      /\ Cursors'
  <2>1. /\ stray \ {p} \subseteq stray'
        /\ HeaderLength <= Len(Cleared(p)) /\ HeaderLength <= HeaderLength
    BY <1>1, <1>2
  <2> QED  BY <1>1, <1>2, <1>3, <2>1, CursorsStep
<1>5. stray' \subseteq Packets
  BY <1>1 DEF BufferInv
<1> QED  BY <1>1, <1>4, <1>5, BetweenCalls

LEMMA SetBufferKeeps ==
    ASSUME BufferInv, NEW p \in Packets, NEW raw \in Raws, set_buffer(p, raw)
    PROVE  BufferInv'
<1>1. /\ buffer' = [buffer EXCEPT ![p] = raw] /\ UNCHANGED <<call, buffer_read_index>>
      /\ stray' = stray \cup {p}
  BY DEF set_buffer
<1>2. raw \in Seq(Byte) /\ HeaderLength <= Len(raw)
  <2>1. raw \in Seq(Byte) /\ Len(raw) >= HeaderLength
    BY BufferAssumption
  <2> QED  BY <2>1, LenProperties, Sizes
<1>3. /\ buffer_read_index[p] \in Nat /\ buffer_read_index[p] + UIntSize <= SizeT
      /\ buffer_read_index' = [buffer_read_index EXCEPT ![p] = buffer_read_index[p]]
  BY <1>1 DEF BufferInv, Cursors
<1>4. /\ buffer' \in [Packets -> Seq(Byte)] /\ buffer_read_index' \in [Packets -> Nat]
      /\ Cursors'
  <2>1. p \in stray' /\ stray \ {p} \subseteq stray'
    BY <1>1
  <2> QED  BY <1>1, <1>2, <1>3, <2>1, CursorsStep
<1>5. stray' \subseteq Packets
  BY <1>1 DEF BufferInv
<1> QED  BY <1>1, <1>4, <1>5, BetweenCalls

\* The cursor is put before the end, and behind the header or it strays.
LEMMA CursorKeeps ==
    ASSUME BufferInv, BuffersFit, NEW p \in Packets, NEW at \in Nat, at <= Len(buffer[p]),
           buffer_read_index' = [buffer_read_index EXCEPT ![p] = at],
           \/ stray' = stray \cup {p}
           \/ stray' = stray \ {p} /\ HeaderLength <= at,
           UNCHANGED <<call, buffer>>
    PROVE  BufferInv'
<1> DEFINE n == Len(buffer[p])
<1>1. /\ buffer[p] \in Seq(Byte) /\ n \in Nat /\ HeaderLength <= n /\ n + UIntSize <= SizeT
      /\ UIntSize \in Nat /\ SizeT \in Nat /\ at <= n
      /\ buffer' = [buffer EXCEPT ![p] = buffer[p]]
  BY LenProperties, UInt, Sizes DEF BufferInv, Cursors, BuffersFit
<1>2. at + UIntSize <= SizeT
  <2> HIDE DEF n
  <2> QED  BY <1>1
<1>3. /\ buffer' \in [Packets -> Seq(Byte)] /\ buffer_read_index' \in [Packets -> Nat]
      /\ Cursors'
  <2>1. stray \ {p} \subseteq stray' /\ (p \notin stray' => HeaderLength <= at /\ at <= Len(buffer[p]))
    OBVIOUS
  <2> QED  BY <1>1, <1>2, <2>1, CursorsStep
<1>4. stray' \subseteq Packets
  BY DEF BufferInv
<1> QED  BY <1>3, <1>4, BetweenCalls

LEMMA SetCursorKeeps ==
    ASSUME BufferInv, BuffersFit, NEW p \in Packets, NEW pos \in Positions, set_cursor(p, pos)
    PROVE  BufferInv'
<1> DEFINE to == (HeaderLength + pos) % SizeT
           n == Len(buffer[p])
<1>1. /\ buffer_read_index' = [buffer_read_index EXCEPT ![p] = Sought(p, pos)]
      /\ stray' = (IF HeaderLength + pos < SizeT THEN stray \ {p} ELSE stray \cup {p})
      /\ UNCHANGED <<call, buffer>>
  BY DEF set_cursor
<1>2. n \in Nat /\ HeaderLength <= n
  BY LenProperties DEF BufferInv, Cursors
<1>3. pos \in Nat /\ HeaderLength \in Nat /\ SizeT \in Nat /\ SizeT > 0
  BY BufferAssumption, Sizes
<1>4. to \in Nat /\ (HeaderLength + pos < SizeT => to = HeaderLength + pos)
  BY <1>3
<1>5. Sought(p, pos) = IF to <= n THEN to ELSE n
  BY DEF Sought, Clamped, Least
<1> HIDE DEF to, n
<1>6. /\ Sought(p, pos) \in Nat /\ Sought(p, pos) <= n
      /\ HeaderLength + pos < SizeT => HeaderLength <= Sought(p, pos)
  BY <1>2, <1>3, <1>4, <1>5
<1> QED  BY <1>1, <1>6, CursorKeeps DEF n

LEMMA SeekCursorKeeps ==
    ASSUME BufferInv, BuffersFit, NEW p \in Packets, NEW pos \in Offsets, seek_cursor(p, pos)
    PROVE  BufferInv'
<1> DEFINE to == Signed(buffer_read_index[p] + pos)
           at == Clamped(p, Most(HeaderLength, to))
           n == Len(buffer[p])
<1>1. /\ buffer_read_index' = [buffer_read_index EXCEPT ![p] = at]
      /\ stray' = stray \ {p} /\ UNCHANGED <<call, buffer>>
  BY DEF seek_cursor, BufferInv
<1>2. n \in Nat /\ HeaderLength <= n /\ HeaderLength \in Nat
  BY LenProperties, Sizes DEF BufferInv, Cursors
<1>3. to \in Int
  <2> DEFINE i == buffer_read_index[p] + pos
             u == i % SizeT
  <2>1. i \in Int
    BY BufferAssumption DEF BufferInv
  <2> HIDE DEF i
  <2>2. u \in Int /\ SizeT \in Int
    BY <2>1, Sizes
  <2>3. Signed(i) = IF 2 * u >= SizeT THEN u - SizeT ELSE u
    BY DEF Signed
  <2> HIDE DEF u
  <2> QED  BY <2>2, <2>3 DEF i
<1> HIDE DEF to
<1>4. at = IF Most(HeaderLength, to) <= n THEN Most(HeaderLength, to) ELSE n
  BY DEF Clamped, Least
<1>5. Most(HeaderLength, to) \in Nat /\ HeaderLength <= Most(HeaderLength, to)
  BY <1>2, <1>3 DEF Most
<1> HIDE DEF at, n
<1>6. at \in Nat /\ HeaderLength <= at /\ at <= n
  BY <1>2, <1>4, <1>5
<1> QED  BY <1>1, <1>6, CursorKeeps DEF n

\* The pieces of a buffer.
LEMMA PieceType ==
    ASSUME NEW s \in Seq(Byte), NEW m \in Nat, NEW n \in Nat, 1 <= m, n <= Len(s)
    PROVE  /\ SubSeq(s, m, n) \in Seq(Byte)
           /\ Len(SubSeq(s, m, n)) = IF m <= n THEN (n - m) + 1 ELSE 0
           /\ \A i \in 1..Len(SubSeq(s, m, n)) : SubSeq(s, m, n)[i] = s[(m + i) - 1]
<1>1. Len(s) \in Nat /\ \A i \in m..n : s[i] \in Byte
  <2>1. Len(s) \in Nat
    BY LenProperties
  <2>2. \A i \in m..n : i \in 1..Len(s)
    BY <2>1
  <2> QED  BY <2>1, <2>2, ElementOfSeq
<1>2. /\ SubSeq(s, m, n) \in Seq(Byte)
      /\ Len(SubSeq(s, m, n)) = IF m <= n THEN (n - m) + 1 ELSE 0
      /\ \A i \in 1..(n - m) + 1 : SubSeq(s, m, n)[i] = s[(m + i) - 1]
  BY <1>1, SubSeqProperties
<1> QED  BY <1>2

\* A received buffer is not shorter than it was, and begins with the old header area and
\* the payload.
LEMMA ReceivedType ==
    ASSUME NEW old \in Seq(Byte), NEW payload \in Seq(Byte), HeaderLength <= Len(old)
    PROVE  /\ Received(old, payload) \in Seq(Byte)
           /\ Len(Received(old, payload)) =
                IF HeaderLength + Len(payload) <= Len(old) THEN Len(old)
                ELSE HeaderLength + Len(payload)
           /\ \A i \in 1..Len(payload) : Received(old, payload)[HeaderLength + i] = payload[i]
<1> DEFINE h == HeaderLength
           n == Len(payload)
           size == Len(old)
           head == SubSeq(old, 1, h)
           back == SubSeq(old, h + n + 1, size)
<1>1. h \in Nat /\ n \in Nat /\ size \in Nat /\ h <= size /\ 0 < h
  BY Sizes, LenProperties
<1>2. head \in Seq(Byte) /\ Len(head) = h
  <2>1. 1 <= 1 /\ h <= Len(old) /\ 1 \in Nat /\ 1 <= h
    BY <1>1
  <2>2. /\ SubSeq(old, 1, h) \in Seq(Byte)
        /\ Len(SubSeq(old, 1, h)) = IF 1 <= h THEN (h - 1) + 1 ELSE 0
    <3> HIDE DEF h
    <3> QED  BY <1>1, <2>1, PieceType
  <2> HIDE DEF h
  <2> QED  BY <1>1, <2>1, <2>2
<1>3. back \in Seq(Byte) /\ Len(back) = IF h + n <= size THEN size - (h + n) ELSE 0
  <2> DEFINE m == h + n + 1
  <2>1. m \in Nat /\ 1 <= m /\ size <= Len(old)
    BY <1>1
  <2>2. /\ SubSeq(old, m, size) \in Seq(Byte)
        /\ Len(SubSeq(old, m, size)) = IF m <= size THEN (size - m) + 1 ELSE 0
    <3> HIDE DEF m
    <3> QED  BY <1>1, <2>1, PieceType
  <2>3. Len(back) = IF h + n + 1 <= size THEN (size - (h + n + 1)) + 1 ELSE 0
    BY <2>2
  <2> HIDE DEF back, h, n, size
  <2>4. Len(back) = IF h + n <= size THEN size - (h + n) ELSE 0
    BY <1>1, <2>3
  <2> QED  BY <2>2, <2>4 DEF back
<1> HIDE DEF head, back
<1>4. /\ head \o payload \in Seq(Byte) /\ Len(head \o payload) = h + n
      /\ \A i \in 1..n : (head \o payload)[h + i] = payload[i]
  <2>1. head \o payload \in Seq(Byte) /\ Len(head \o payload) = Len(head) + n
        /\ \A i \in 1..Len(head) + n : (head \o payload)[i] =
              IF i <= Len(head) THEN head[i] ELSE payload[i - Len(head)]
    BY <1>2, ConcatProperties
  <2> HIDE DEF h, n
  <2>2. ASSUME NEW i \in 1..n PROVE (head \o payload)[h + i] = payload[i]
    <3>1. h + i \in 1..Len(head) + n /\ ~(h + i <= Len(head)) /\ (h + i) - Len(head) = i
      BY <1>1, <1>2
    <3> QED  BY <2>1, <3>1
  <2> QED  BY <1>2, <2>1, <2>2
<1> DEFINE front == head \o payload
<1>5. front \in Seq(Byte) /\ Len(front) = h + n /\ \A i \in 1..n : front[h + i] = payload[i]
  BY <1>4
<1>6. Received(old, payload) = front \o back
  BY DEF Received, head, back
<1> HIDE DEF front, h, n, size
<1>7. /\ front \o back \in Seq(Byte) /\ Len(front \o back) = Len(front) + Len(back)
      /\ \A i \in 1..Len(front) + Len(back) : (front \o back)[i] =
            IF i <= Len(front) THEN front[i] ELSE back[i - Len(front)]
  BY <1>3, <1>5, ConcatProperties
<1>8. Len(front \o back) = IF h + n <= size THEN size ELSE h + n
  BY <1>1, <1>3, <1>5, <1>7
<1>9. ASSUME NEW i \in 1..n PROVE (front \o back)[h + i] = payload[i]
  <2>1. h + i \in 1..Len(front) + Len(back) /\ h + i <= Len(front)
    BY <1>1, <1>3, <1>5
  <2> QED  BY <1>5, <1>7, <2>1
<1> QED  BY <1>6, <1>7, <1>8, <1>9 DEF h, n, size

\* What is sent arrives: the receiver holds all that the sender does, header area excluded, and
\* the sender still does.
LEMMA TransferSteps ==
    ASSUME BufferInv, BuffersFit, NEW p \in Packets, NEW q \in Packets, p # q, Transfer(p, q)
    PROVE  /\ \A x \in Packets : buffer'[x] \in Seq(Byte) /\ Len(buffer'[x]) >= Len(buffer[x])
           /\ \A x \in Packets \ {p, q} : buffer'[x] = buffer[x]
           /\ buffer' \in [Packets -> Seq(Byte)]
           /\ \A x \in {p, q} : /\ Len(buffer[p]) <= Len(buffer'[x])
                                /\ \A i \in HeaderLength + 1..Len(buffer[p]) : buffer'[x][i] = buffer[p][i]
<1> DEFINE h == HeaderLength
           n == Len(buffer[p])
           tail == SubSeq(buffer[p], h + 1, n)
           header == Length(p, tail)
           payload == [i \in 1..Decoded(q, header) |-> At(p, h + i)]
<1>1. /\ Fits(p)
      /\ buffer' = [[buffer EXCEPT ![p] = Received(header, tail)] EXCEPT ![q] = Received(buffer[q], payload)]
  BY DEF Transfer, BufferInv
<1>2. /\ buffer \in [Packets -> Seq(Byte)] /\ buffer[p] \in Seq(Byte) /\ buffer[q] \in Seq(Byte)
      /\ h <= n /\ h <= Len(buffer[q]) /\ n - h < UIntSize
  BY <1>1 DEF BufferInv, Cursors, Fits
<1>3. h \in Nat /\ n \in Nat /\ 0 < h /\ h = Word /\ UIntSize \in Nat
  BY <1>2, LenProperties, Sizes, UInt
<1>4. /\ tail \in Seq(Byte) /\ Len(tail) = n - h /\ Len(tail) \in Nat
      /\ \A i \in 1..Len(tail) : tail[i] = buffer[p][h + i]
  <2> DEFINE m == h + 1
  <2>1. m \in Nat /\ 1 <= m /\ n <= Len(buffer[p])
    BY <1>3
  <2>2. /\ SubSeq(buffer[p], m, n) \in Seq(Byte)
        /\ Len(SubSeq(buffer[p], m, n)) = IF m <= n THEN (n - m) + 1 ELSE 0
        /\ \A i \in 1..Len(SubSeq(buffer[p], m, n)) :
              SubSeq(buffer[p], m, n)[i] = buffer[p][(m + i) - 1]
    <3> HIDE DEF m
    <3> QED  BY <1>2, <1>3, <2>1, PieceType
  <2>3. /\ tail \in Seq(Byte) /\ Len(tail) = IF h + 1 <= n THEN (n - (h + 1)) + 1 ELSE 0
        /\ \A i \in 1..Len(tail) : tail[i] = buffer[p][((h + 1) + i) - 1]
    BY <2>2
  <2> HIDE DEF tail, h, n
  <2>4. Len(tail) = n - h
    BY <1>2, <1>3, <2>3
  <2>5. ASSUME NEW i \in 1..Len(tail) PROVE tail[i] = buffer[p][h + i]
    <3>1. ((h + 1) + i) - 1 = h + i
      BY <1>3
    <3> QED  BY <2>3, <3>1
  <2> QED  BY <1>2, <1>3, <2>3, <2>4, <2>5
<1> HIDE DEF tail
<1>5. header \in Seq(Byte) /\ Len(header) = h /\ Decoded(q, header) = n - h
  <2>1. header \in Seq(Byte) /\ Len(header) = Word /\ Number(header) = Len(tail)
    BY <1>2, <1>4, LengthType
  <2> HIDE DEF header
  <2>2. Decoded(q, header) = Number(header)
    BY <2>1, NetworkOrder
  <2> QED  BY <1>3, <1>4, <2>1, <2>2
<1>6. /\ payload \in Seq(Byte) /\ Len(payload) = n - h
      /\ \A i \in 1..n - h : payload[i] = buffer[p][h + i]
  <2>1. \A i : At(p, i) \in Byte
    BY <1>2, AtType
  <2>2. payload = [i \in 1..n - h |-> At(p, h + i)]
    BY <1>5
  <2>3. n - h \in Nat
    BY <1>2, <1>3
  <2>4. DOMAIN buffer[p] = 1..n
    BY <1>2, LenProperties
  <2> HIDE DEF payload, n, h
  <2>5. payload \in [1..n - h -> Byte] /\ DOMAIN payload = 1..n - h
    BY <2>1, <2>2
  <2>6. payload \in Seq(Byte)
    BY <2>3, <2>5, SeqDef
  <2>7. Len(payload) = n - h
    BY <2>3, <2>5, <2>6, LenProperties
  <2>8. ASSUME NEW i \in 1..n - h PROVE payload[i] = buffer[p][h + i]
    <3>1. h + i \in 1..n
      BY <1>2, <1>3
    <3> QED  BY <2>2, <2>4, <3>1 DEF At
  <2> QED  BY <2>6, <2>7, <2>8
<1> HIDE DEF header, payload
<1> DEFINE sent == Received(header, tail)
           got0 == Received(buffer[q], payload)
<1>7. /\ sent \in Seq(Byte) /\ Len(sent) = IF h + Len(tail) <= Len(header) THEN Len(header) ELSE h + Len(tail)
      /\ \A i \in 1..Len(tail) : sent[h + i] = tail[i]
  <2>1. h <= Len(header)
    BY <1>3, <1>5
  <2> QED  BY <1>4, <1>5, <2>1, ReceivedType
<1>8. /\ got0 \in Seq(Byte)
      /\ Len(got0) = IF h + Len(payload) <= Len(buffer[q]) THEN Len(buffer[q]) ELSE h + Len(payload)
      /\ \A i \in 1..Len(payload) : got0[h + i] = payload[i]
  BY <1>2, <1>6, ReceivedType
<1>9. Len(buffer[q]) \in Nat
  BY <1>2, LenProperties
<1> HIDE DEF sent, got0
<1>10. buffer'[p] = sent /\ buffer'[q] = got0 /\ \A x \in Packets \ {p, q} : buffer'[x] = buffer[x]
  BY <1>1, <1>2 DEF sent, got0
<1> HIDE DEF h, n
<1>11. Len(sent) = n /\ Len(got0) >= n /\ Len(got0) >= Len(buffer[q])
  BY <1>2, <1>3, <1>4, <1>5, <1>6, <1>7, <1>8, <1>9
<1>12. ASSUME NEW i \in h + 1..n PROVE sent[i] = buffer[p][i] /\ got0[i] = buffer[p][i]
  <2>1. i - h \in 1..n - h /\ h + (i - h) = i
    BY <1>3
  <2>2. sent[h + (i - h)] = tail[i - h] /\ tail[i - h] = buffer[p][h + (i - h)]
    BY <1>4, <1>7, <2>1
  <2>3. got0[h + (i - h)] = payload[i - h] /\ payload[i - h] = buffer[p][h + (i - h)]
    BY <1>6, <1>8, <2>1
  <2> QED  BY <2>1, <2>2, <2>3
<1>13. \A x \in Packets : buffer'[x] \in Seq(Byte) /\ Len(buffer'[x]) >= Len(buffer[x])
  <2>1. ASSUME NEW x \in Packets PROVE buffer'[x] \in Seq(Byte) /\ Len(buffer'[x]) >= Len(buffer[x])
    <3>1. CASE x = p
      BY <1>3, <1>7, <1>10, <1>11, <3>1 DEF n
    <3>2. CASE x = q
      BY <1>8, <1>10, <1>11, <3>2
    <3>3. CASE x \notin {p, q}
      <4>1. buffer'[x] = buffer[x] /\ buffer[x] \in Seq(Byte)
        BY <1>2, <1>10, <3>3
      <4>2. Len(buffer[x]) \in Nat
        BY <4>1, LenProperties
      <4> QED  BY <4>1, <4>2
    <3> QED  BY <3>1, <3>2, <3>3
  <2> QED  BY <2>1
<1>14. \A x \in {p, q} : n <= Len(buffer'[x]) /\ \A i \in h + 1..n : buffer'[x][i] = buffer[p][i]
  <2>1. Len(got0) \in Nat
    BY <1>8, LenProperties
  <2>2. n <= Len(sent) /\ n <= Len(got0)
    BY <1>3, <1>11, <2>1
  <2> QED  BY <1>10, <1>12, <2>2
<1>15. buffer' \in [Packets -> Seq(Byte)]
  BY <1>1, <1>2, <1>7, <1>8 DEF sent, got0
<1> QED  BY <1>10, <1>13, <1>14, <1>15 DEF h, n

LEMMA TransferKeeps ==
    ASSUME BufferInv, BuffersFit, NEW link \in Links, Transfer(link[1], link[2])
    PROVE  BufferInv'
<1> DEFINE p == link[1]
           q == link[2]
<1>1. p \in Packets /\ q \in Packets /\ p # q
  BY BufferAssumption
<1>2. /\ \A x \in Packets : buffer'[x] \in Seq(Byte) /\ Len(buffer'[x]) >= Len(buffer[x])
      /\ buffer' \in [Packets -> Seq(Byte)]
  <2> HIDE DEF p, q
  <2>1. Transfer(p, q)
    BY DEF p, q
  <2> QED  BY <1>1, <2>1, TransferSteps
<1>3. UNCHANGED <<call, buffer_read_index, stray>>
  BY DEF Transfer
<1>4. Cursors'
  <2> SUFFICES ASSUME NEW x \in Packets
               PROVE  /\ HeaderLength <= Len(buffer'[x]) /\ buffer_read_index[x] + UIntSize <= SizeT
                      /\ x \notin stray =>
                             /\ HeaderLength <= buffer_read_index[x]
                             /\ buffer_read_index[x] <= Len(buffer'[x])
    BY <1>3 DEF Cursors
  <2>1. /\ HeaderLength <= Len(buffer[x]) /\ buffer_read_index[x] + UIntSize <= SizeT
        /\ x \notin stray =>
               HeaderLength <= buffer_read_index[x] /\ buffer_read_index[x] <= Len(buffer[x])
        /\ buffer_read_index[x] \in Nat
    BY DEF BufferInv, Cursors
  <2>2. Len(buffer[x]) \in Nat /\ Len(buffer'[x]) \in Nat /\ Len(buffer'[x]) >= Len(buffer[x])
        /\ HeaderLength \in Nat
    BY <1>2, LenProperties, Sizes DEF BufferInv
  <2> QED  BY <2>1, <2>2
<1>5. /\ buffer_read_index' \in [Packets -> Nat] /\ stray' \subseteq Packets
  BY <1>3 DEF BufferInv
<1> QED  BY <1>2, <1>3, <1>4, <1>5, BetweenCalls

LEMMA BufferNext == WellTyped => (BufferInv /\ BuffersFit /\ [Next]_vars => BufferInv')
<1> SUFFICES ASSUME WellTyped, BufferInv, BuffersFit, [Next]_vars PROVE BufferInv'
  OBVIOUS
<1>1. CASE UNCHANGED vars
  <2>1. UNCHANGED <<memory, call, stray>>
    BY <1>1 DEF vars
  <2>2. Cursors' /\ stray' \subseteq Packets
    BY <2>1 DEF BufferInv, Cursors, memory
  <2>3. buffer' \in [Packets -> Seq(Byte)] /\ buffer_read_index' \in [Packets -> Nat]
    BY <2>1 DEF BufferInv, memory
  <2> QED  BY <2>1, <2>2, <2>3, BetweenCalls
<1>2. CASE \/ \E p \in Packets : \E value \in Values : PackBegin(p, value)
           \/ \E p \in Read : \E type \in Types : ExtractBegin(p, type)
           \/ PackEnd \/ Throw \/ ExtractEnd
  BY <1>2, CallsKeep
<1>3. CASE \E p \in Packets : clear(p) \/ \E raw \in Raws : set_buffer(p, raw)
  BY <1>3, ClearKeeps, SetBufferKeeps
<1>4. CASE \E link \in Links : Transfer(link[1], link[2])
  BY <1>4, TransferKeeps
<1>5. CASE \E p \in Read : \/ \E pos \in Positions : set_cursor(p, pos)
                           \/ \E pos \in Offsets : seek_cursor(p, pos)
  <2>1. Read \subseteq Packets
    BY BufferAssumption
  <2> QED  BY <1>5, <2>1, SetCursorKeeps, SeekCursorKeeps
<1>6. CASE Pack \/ Extract
  BY <1>6, PackKeeps, ExtractKeeps
<1> QED  BY <1>1, <1>2, <1>3, <1>4, <1>5, <1>6 DEF Next

\* Whatever is packed, extracted, sent and exchanged, buffers hold a header area, and a cursor
\* is between it and the end unless set_buffer has put another buffer under it (Packet.h:622)
\* or set_cursor has added it to a number that wraps (Packet.h:646).
THEOREM BufferTyped == ASSUME WellTyped PROVE Spec /\ []BuffersFit => []TypeOK
<1>1. Init /\ BuffersFit => BufferInv
  BY BufferInit
<1>2. BufferInv /\ BuffersFit /\ [Next]_vars => BufferInv'
  BY BufferNext
<1> QED  BY <1>1, <1>2, BufferTypes, PTL DEF Spec

\* No call of >> moves a cursor past the end of its buffer, whatever type it is told to take,
\* whatever lengths the packet holds and wherever the cursor was left (Packet.h:690), where no
\* buffer is so large that the sum of cursor and size overflows.
THEOREM NothingReadOutside == ASSUME WellTyped PROVE Spec /\ []BuffersFit => ReadsInside
<1> DEFINE Inside == \A p \in Packets : buffer_read_index'[p] > buffer_read_index[p] =>
                         buffer_read_index'[p] <= Len(buffer[p])
<1>1. Init /\ BuffersFit => BufferInv
  BY BufferInit
<1>2. BufferInv /\ BuffersFit /\ [Next]_vars => BufferInv'
  BY BufferNext
<1>3. BufferInv /\ BuffersFit /\ [Next]_vars => [Inside]_vars
  <2> SUFFICES ASSUME BufferInv, BuffersFit, [Next]_vars, NEW p \in Packets
               PROVE  buffer_read_index'[p] > buffer_read_index[p] =>
                         buffer_read_index'[p] <= Len(buffer[p])
    OBVIOUS
  <2>1. /\ buffer_read_index[p] \in Nat
        /\ Len(buffer[p]) \in Nat /\ HeaderLength \in Nat /\ HeaderLength <= Len(buffer[p])
        /\ buffer_read_index \in [Packets -> Nat]
    BY LenProperties, Sizes DEF BufferInv, Cursors
  <2>2. CASE buffer_read_index'[p] = buffer_read_index[p]
    BY <2>1, <2>2
  <2>3. CASE Extract
    <3>1. /\ buffer_read_index' = [buffer_read_index EXCEPT
                  ![object] = buffer_read_index[object] + Takes(Head(todo))]
          /\ buffer_read_index[object] + Takes(Head(todo)) <= Len(buffer[object])
      BY <2>3, Taken
    <3>2. CASE p = object
      <4>1. buffer_read_index'[p] = buffer_read_index[object] + Takes(Head(todo))
        BY <2>1, <3>1, <3>2
      <4> QED  BY <3>1, <3>2, <4>1
    <3>3. CASE p # object
      BY <2>1, <2>2, <3>1, <3>3
    <3> QED  BY <3>2, <3>3
  <2>4. CASE \E x \in Packets : clear(x)
    <3>1. buffer_read_index'[p] \in {buffer_read_index[p], HeaderLength}
      BY <2>1, <2>4 DEF clear, Start
    <3> QED  BY <2>1, <3>1
  <2>5. CASE \E x \in Read : \/ \E pos \in Positions : set_cursor(x, pos)
                             \/ \E pos \in Offsets : seek_cursor(x, pos)
    <3>1. PICK x \in Read, at \in Int : buffer_read_index' = [buffer_read_index EXCEPT ![x] = Clamped(x, at)]
                                /\ at \in Int
      <4>1. \A pos \in Positions : (HeaderLength + pos) % SizeT \in Int
        <5> TAKE pos \in Positions
        <5> DEFINE i == HeaderLength + pos
        <5>1. i \in Int /\ SizeT \in Nat /\ SizeT > 0
          BY BufferAssumption, Sizes
        <5> HIDE DEF i
        <5>2. i % SizeT \in Int
          BY <5>1
        <5> QED  BY <5>2 DEF i
      <4>2. \A x \in Packets, pos \in Offsets :
               Most(HeaderLength, Signed(buffer_read_index[x] + pos)) \in Int
        <5> TAKE x \in Packets, pos \in Offsets
        <5> DEFINE i == buffer_read_index[x] + pos
                   u == i % SizeT
        <5>1. i \in Int
          BY BufferAssumption DEF BufferInv
        <5> HIDE DEF i
        <5>2. u \in Int /\ SizeT \in Int
          BY <5>1, Sizes
        <5>3. Signed(i) = IF 2 * u >= SizeT THEN u - SizeT ELSE u
          BY DEF Signed
        <5> HIDE DEF u
        <5>4. Signed(i) \in Int
          BY <5>2, <5>3
        <5>5. Most(HeaderLength, Signed(i)) \in Int
          BY <5>4, Sizes DEF Most
        <5> QED  BY <5>5 DEF i
      <4>3. Read \subseteq Packets
        BY BufferAssumption
      <4>4. CASE \E x \in Read, pos \in Positions : set_cursor(x, pos)
        BY <4>1, <4>4 DEF set_cursor, Sought
      <4>5. CASE \E x \in Read, pos \in Offsets : seek_cursor(x, pos)
        BY <4>2, <4>3, <4>5 DEF seek_cursor
      <4> QED  BY <2>5, <4>4, <4>5
    <3>2. CASE x = p
      <4>1. buffer_read_index'[p] = IF at <= Len(buffer[p]) THEN at ELSE Len(buffer[p])
        BY <2>1, <3>1, <3>2 DEF Clamped, Least
      <4>2. buffer_read_index'[p] <= Len(buffer[p])
        BY <2>1, <3>1, <4>1
      <4> QED  BY <4>2
    <3>3. CASE x # p
      BY <2>1, <2>2, <3>1, <3>3
    <3> QED  BY <3>2, <3>3
  <2>6. CASE UNCHANGED buffer_read_index
    BY <2>2, <2>6
  <2> QED  BY <2>3, <2>4, <2>5, <2>6
       DEF Next, PackBegin, set_buffer, Transfer, ExtractBegin, Pack, PackEnd, Throw, ExtractEnd,
           vars, memory
<1>4. ReadsInside <=> [][Inside]_vars
  BY DEF ReadsInside
<1> QED  BY <1>1, <1>2, <1>3, PTL DEF Spec, ReadsInside

--------------------------------------------------------------------------------
(* What extractions come to.                                                   *)

\* The calls an extraction has still to make, where, and what it has assigned so far.
Extraction(calls, at, leaves) == [todo |-> calls, at |-> at, got |-> leaves]

\* Any host: they all read network order.
AnyHost == CHOOSE p : TRUE

Piece(bytes, at, n) == [i \in 1..n |-> bytes[at + i]]

\* One call, on a buffer that holds enough for it.
Steps(bytes, x, y) ==
    LET type == Head(x.todo)
        taken == Takes(type)
        piece == Piece(bytes, x.at, taken)
    IN  /\ x.todo # <<>> /\ x.at \in Nat /\ HeaderLength <= x.at /\ taken \in Nat
        /\ x.at + taken <= Len(bytes)
        /\ y = Extraction(Members(AnyHost, type, piece) \o Tail(x.todo), x.at + taken,
                          x.got \o Assigned(AnyHost, type, piece))

\* Some calls.
Closed(bytes, S) == \A x \in S : \A y : Steps(bytes, x, y) => y \in S
Reaches(bytes, x, y) == \A S : x \in S /\ Closed(bytes, S) => y \in S

LEMMA ReachesItself == ASSUME NEW bytes, NEW x PROVE Reaches(bytes, x, x)
  BY DEF Reaches

LEMMA ReachesFar ==
    ASSUME NEW bytes, NEW x, NEW y, NEW z, Reaches(bytes, x, y), Reaches(bytes, y, z)
    PROVE  Reaches(bytes, x, z)
  BY DEF Reaches

LEMMA ReachesNext ==
    ASSUME NEW bytes, NEW x, NEW y, Steps(bytes, x, y)
    PROVE  Reaches(bytes, x, y)
  BY DEF Reaches, Closed

\* Whatever an extraction comes to, it still does after its next call, since there is only
\* one it can make.
LEMMA ReachesAfter ==
    ASSUME NEW bytes, NEW x, NEW y, NEW z, Steps(bytes, x, y), Reaches(bytes, x, z), z # x
    PROVE  Reaches(bytes, y, z)
<1> SUFFICES ASSUME NEW S, y \in S, Closed(bytes, S) PROVE z \in S
  BY DEF Reaches
<1>1. \A v : Steps(bytes, x, v) => v = y
  BY DEF Steps
<1> DEFINE T == S \cup {x}
<1>2. Closed(bytes, T)
  BY <1>1 DEF Closed
<1>3. x \in T
  OBVIOUS
<1>4. z \in T
  BY <1>2, <1>3 DEF Reaches
<1> QED  BY <1>4

\* An extraction that can make no call comes to nothing else.
LEMMA ReachesNoMore ==
    ASSUME NEW bytes, NEW x, NEW z, \A y : ~Steps(bytes, x, y), Reaches(bytes, x, z)
    PROVE  z = x
<1>1. Closed(bytes, {x}) /\ x \in {x}
  BY DEF Closed
<1>2. z \in {x}
  BY <1>1 DEF Reaches
<1> QED  BY <1>2

\* Behind the header area a buffer has the bytes of another, and perhaps more.
Extends(bytes, longer) ==
    /\ Len(bytes) <= Len(longer)
    /\ \A i \in HeaderLength + 1..Len(bytes) : longer[i] = bytes[i]

LEMMA PieceExtends ==
    ASSUME NEW bytes \in Seq(Byte), NEW longer, Extends(bytes, longer), NEW at \in Nat, NEW n \in Nat,
           HeaderLength <= at, at + n <= Len(bytes)
    PROVE  Piece(longer, at, n) = Piece(bytes, at, n)
<1>1. ASSUME NEW i \in 1..n PROVE longer[at + i] = bytes[at + i]
  <2>1. HeaderLength \in Nat /\ Len(bytes) \in Nat
    BY Sizes, LenProperties
  <2>2. at + i \in HeaderLength + 1..Len(bytes)
    BY <2>1
  <2> QED  BY <2>2 DEF Extends
<1> QED  BY <1>1 DEF Piece

LEMMA ReachesExtended ==
    ASSUME NEW bytes \in Seq(Byte), NEW longer \in Seq(Byte), Extends(bytes, longer),
           NEW x, NEW z, Reaches(bytes, x, z)
    PROVE  Reaches(longer, x, z)
<1>1. ASSUME NEW u, NEW v, Steps(bytes, u, v) PROVE Steps(longer, u, v)
  <2> DEFINE type == Head(u.todo)
             taken == Takes(type)
  <2>1. /\ u.todo # <<>> /\ u.at \in Nat /\ HeaderLength <= u.at /\ taken \in Nat
        /\ u.at + taken <= Len(bytes)
        /\ v = Extraction(Members(AnyHost, type, Piece(bytes, u.at, taken)) \o Tail(u.todo), u.at + taken,
                          u.got \o Assigned(AnyHost, type, Piece(bytes, u.at, taken)))
    BY <1>1 DEF Steps
  <2>2. Piece(longer, u.at, taken) = Piece(bytes, u.at, taken)
    <3> HIDE DEF type, taken
    <3> QED  BY <2>1, PieceExtends
  <2>3. u.at + taken <= Len(longer)
    <3>1. Len(bytes) \in Nat /\ Len(longer) \in Nat /\ Len(bytes) <= Len(longer)
      BY LenProperties DEF Extends
    <3> HIDE DEF type, taken
    <3> QED  BY <2>1, <3>1
  <2> QED  BY <2>1, <2>2, <2>3 DEF Steps
<1>2. \A S : Closed(longer, S) => Closed(bytes, S)
  BY <1>1 DEF Closed
<1> QED  BY <1>2 DEF Reaches

\* All hosts read the same.
LEMMA HostsAgree ==
    ASSUME NEW p, NEW type, NEW bytes \in Seq(Byte)
    PROVE  /\ Members(p, type, bytes) = Members(AnyHost, type, bytes)
           /\ Assigned(p, type, bytes) = Assigned(AnyHost, type, bytes)
<1>1. Decoded(p, bytes) = Number(bytes) /\ Decoded(AnyHost, bytes) = Number(bytes)
  BY NetworkOrder
<1> QED  BY <1>1 DEF Members, Assigned

LEMMA PowerSum ==
    ASSUME NEW n \in Nat, NEW m \in Nat
    PROVE  Power[n + m] = Power[n] * Power[m]
<1> DEFINE Bad == {k \in Nat : Power[n + k] # Power[n] * Power[k]}
<1>1. ASSUME NEW k \in Bad, \A l \in Bad : k <= l PROVE FALSE
  <2>1. k \in Nat /\ Power[n + k] # Power[n] * Power[k] /\ Power[n] \in Nat
    BY PowerIs
  <2>2. k # 0
    <3>1. n + 0 = n /\ Power[0] = 1 /\ Power[n] * 1 = Power[n]
      BY <2>1, PowerIs
    <3> QED  BY <2>1, <3>1
  <2> DEFINE j == k - 1
             x == Power[n]
             y == Power[j]
  <2>3. j \in Nat /\ ~(k <= j) /\ j + 1 = k /\ (n + j) + 1 = n + k /\ n + j \in Nat
    BY <2>1, <2>2
  <2> HIDE DEF j
  <2>4. Power[n + j] = x * y
    BY <1>1, <2>3
  <2>5. Power[n + k] = ByteSize * (x * y) /\ Power[k] = ByteSize * y /\ y \in Nat /\ x \in Nat
    BY <2>3, <2>4, PowerIs
  <2> HIDE DEF x, y
  <2>6. ByteSize * (x * y) = x * (ByteSize * y)
    BY <2>5, Sizes
  <2> QED  BY <2>1, <2>5, <2>6 DEF x
<1>2. Bad \in SUBSET Nat
  OBVIOUS
<1>3. Bad = {}
  <2> HIDE DEF Bad
  <2> QED  BY <1>1, <1>2, LeastOne
<1> QED  BY <1>3

\* An enum that was widened with its sign is cut to what it was.
LEMMA EnumReturns ==
    ASSUME NEW type, NEW n \in Nat, type.width \in 0..Word, n < Power[type.width]
    PROVE  Widened(type, n) < UIntSize /\ Narrowed(type, Widened(type, n)) = n
<1> DEFINE w == type.width
           low == Power[w]
           high == Power[Word - w]
<1>1. w \in Nat /\ Word - w \in Nat /\ w + (Word - w) = Word
  BY Sizes
<1>2. low \in Nat \ {0} /\ high \in Nat \ {0} /\ UIntSize = low * high
  <2>1. UIntSize = Power[w + (Word - w)]
    BY <1>1, UInt
  <2>2. Power[w + (Word - w)] = Power[w] * Power[Word - w]
    <3> DEFINE k == Word - w
    <3>1. k \in Nat
      BY <1>1
    <3> HIDE DEF w, k
    <3>2. Power[w + k] = Power[w] * Power[k]
      BY <1>1, <3>1, PowerSum
    <3> QED  BY <3>2 DEF k
  <2> QED  BY <1>1, <2>1, <2>2, PowerIs
<1>3. Widened(type, n) = IF type.signed /\ 2 * n >= low THEN (n - low) + UIntSize ELSE n
  BY DEF Widened
<1>4. \A m : Narrowed(type, m) = m % low
  BY DEF Narrowed
<1>5. n < low
  OBVIOUS
<1> HIDE DEF low, high, w
<1>6. n % low = n /\ n < UIntSize
  <2>1. low <= low * high
    BY <1>2
  <2> QED  BY <1>2, <1>5, <2>1
<1>7. (n - low) + UIntSize < UIntSize
  BY <1>2, <1>5
<1>8. ((n - low) + UIntSize) % low = n
  <2> DEFINE q == high - 1
  <2>1. q \in Nat /\ high = q + 1
    BY <1>2
  <2>2. low * high = low * q + low
    BY <1>2, <2>1
  <2> HIDE DEF q
  <2>3. low * q \in Nat
    BY <1>2, <2>1
  <2>4. (n - low) + UIntSize = low * q + n
    BY <1>2, <2>2, <2>3
  <2>5. (low * q + n) % low = n
    BY <1>2, <1>5, <2>1, DivisionIs
  <2> QED  BY <2>4, <2>5
<1> QED  BY <1>3, <1>4, <1>6, <1>7, <1>8

--------------------------------------------------------------------------------
(* What << appends is what >> takes.                                           *)

Leaf == Nat \cup Seq(Byte)

LEMMA FirstCall ==
    ASSUME NEW S, NEW calls \in Seq(S), NEW type
    PROVE  /\ <<type>> \o calls # <<>>
           /\ Head(<<type>> \o calls) = type /\ Tail(<<type>> \o calls) = calls
<1> DEFINE T == S \cup {type}
           one == <<type>>
           both == one \o calls
<1>1. calls \in Seq(T) /\ one \in Seq(T) /\ Len(one) = 1 /\ one[1] = type
  BY SeqMonotonic
<1> HIDE DEF T, one
<1>2. /\ both \in Seq(T) /\ Len(both) = 1 + Len(calls) /\ both[1] = type
      /\ Len(calls) \in Nat
      /\ \A i \in 1..Len(calls) : both[1 + i] = calls[i]
  <2>1. /\ both \in Seq(T) /\ Len(both) = 1 + Len(calls) /\ Len(calls) \in Nat
        /\ \A i \in 1..1 + Len(calls) : both[i] = IF i <= 1 THEN one[i] ELSE calls[i - 1]
    <3>1. /\ both \in Seq(T) /\ Len(both) = Len(one) + Len(calls)
          /\ \A i \in 1..Len(one) + Len(calls) :
                both[i] = IF i <= Len(one) THEN one[i] ELSE calls[i - Len(one)]
      BY <1>1, ConcatProperties
    <3>2. Len(calls) \in Nat
      BY <1>1, LenProperties
    <3> HIDE DEF both
    <3> QED  BY <1>1, <3>1, <3>2
  <2> HIDE DEF both
  <2>2. ASSUME NEW i \in 1..Len(calls) PROVE both[1 + i] = calls[i]
    <3>1. 1 + i \in 1..1 + Len(calls) /\ ~(1 + i <= 1) /\ (1 + i) - 1 = i
      BY <2>1
    <3> QED  BY <2>1, <3>1
  <2>3. both[1] = type
    BY <1>1, <2>1
  <2> QED  BY <2>1, <2>2, <2>3
<1>3. both # <<>>
  BY <1>2, EmptySeq
<1> HIDE DEF both
<1>4. /\ Head(both) = type /\ Tail(both) \in Seq(T) /\ Len(Tail(both)) = Len(calls)
      /\ \A i \in 1..Len(calls) : Tail(both)[i] = calls[i]
  BY <1>2, <1>3, HeadTailProperties
<1>5. Tail(both) = calls
  BY <1>1, <1>4, SeqEqual
<1> QED  BY <1>3, <1>4, <1>5 DEF both, one

\* A call of its type, where a piece is that it takes.
LEMMA TakesPiece ==
    ASSUME NEW bytes \in Seq(Byte), NEW at \in Nat, HeaderLength <= at, NEW S, NEW calls \in Seq(S),
           NEW type, NEW leaves, NEW piece \in Seq(Byte), Takes(type) = Len(piece),
           at + Len(piece) <= Len(bytes), \A i \in 1..Len(piece) : bytes[at + i] = piece[i]
    PROVE  Reaches(bytes, Extraction(<<type>> \o calls, at, leaves),
                   Extraction(Members(AnyHost, type, piece) \o calls, at + Len(piece),
                              leaves \o Assigned(AnyHost, type, piece)))
<1> DEFINE x == Extraction(<<type>> \o calls, at, leaves)
           y == Extraction(Members(AnyHost, type, piece) \o calls, at + Len(piece),
                           leaves \o Assigned(AnyHost, type, piece))
<1>1. Len(piece) \in Nat /\ DOMAIN piece = 1..Len(piece) /\ piece = [i \in 1..Len(piece) |-> piece[i]]
  BY LenProperties, SeqDef
<1>2. Piece(bytes, at, Len(piece)) = piece
  BY <1>1 DEF Piece
<1>3. /\ x.todo # <<>> /\ Head(x.todo) = type /\ Tail(x.todo) = calls /\ x.at = at /\ x.got = leaves
  BY FirstCall DEF Extraction
<1>4. Steps(bytes, x, y)
  <2> HIDE DEF x
  <2> QED  BY <1>1, <1>2, <1>3 DEF Steps
<1> QED  BY <1>4, ReachesNext

\* The types that values are extracted with.
Asked(values) == [i \in DOMAIN values |-> values[i].type]

LEMMA AskedType ==
    ASSUME NEW S, NEW s \in Seq(S)
    PROVE  /\ Asked(s) \in Seq({v.type : v \in S}) /\ Len(Asked(s)) = Len(s)
           /\ \A i \in 1..Len(s) : Asked(s)[i] = s[i].type
<1> DEFINE T == {v.type : v \in S}
<1>1. Len(s) \in Nat /\ DOMAIN s = 1..Len(s) /\ \A i \in 1..Len(s) : s[i] \in S
  BY LenProperties, ElementOfSeq
<1>2. Asked(s) = [i \in 1..Len(s) |-> s[i].type]
  BY <1>1 DEF Asked
<1>3. [i \in 1..Len(s) |-> s[i].type] \in [1..Len(s) -> T]
  BY <1>1
<1> HIDE DEF T
<1>4. Asked(s) \in Seq(T) /\ Len(Asked(s)) = Len(s)
  BY <1>1, <1>2, <1>3, SeqDef
<1> QED  BY <1>2, <1>4 DEF T

LEMMA AskedOf ==
    ASSUME NEW S, NEW s \in Seq(S), NEW t \in Seq(S)
    PROVE  Asked(s \o t) = Asked(s) \o Asked(t)
<1> DEFINE T == {v.type : v \in S}
           a == Asked(s)
           b == Asked(t)
           st == s \o t
           ab == a \o b
           c == Asked(st)
<1>1. /\ st \in Seq(S) /\ Len(st) = Len(s) + Len(t)
      /\ \A i \in 1..Len(s) + Len(t) : st[i] = IF i <= Len(s) THEN s[i] ELSE t[i - Len(s)]
      /\ Len(s) \in Nat /\ Len(t) \in Nat
  BY ConcatProperties, LenProperties
<1> HIDE DEF st
<1>2. /\ a \in Seq(T) /\ b \in Seq(T) /\ c \in Seq(T)
      /\ Len(a) = Len(s) /\ Len(b) = Len(t) /\ Len(c) = Len(s) + Len(t)
      /\ \A i \in 1..Len(s) : a[i] = s[i].type
      /\ \A i \in 1..Len(t) : b[i] = t[i].type
      /\ \A i \in 1..Len(s) + Len(t) : c[i] = st[i].type
  BY <1>1, AskedType
<1> HIDE DEF T, a, b, c
<1>3. /\ ab \in Seq(T) /\ Len(ab) = Len(a) + Len(b)
      /\ \A i \in 1..Len(a) + Len(b) : ab[i] = IF i <= Len(a) THEN a[i] ELSE b[i - Len(a)]
  BY <1>2, ConcatProperties
<1> HIDE DEF ab
<1>4. ASSUME NEW i \in 1..Len(s) + Len(t) PROVE ab[i] = c[i]
  <2>1. CASE i <= Len(s)
    <3>1. i \in 1..Len(s)
      BY <1>1, <2>1
    <3> QED  BY <1>1, <1>2, <1>3, <2>1, <3>1
  <2>2. CASE ~(i <= Len(s))
    <3>1. i - Len(s) \in 1..Len(t)
      BY <1>1, <2>2
    <3> QED  BY <1>1, <1>2, <1>3, <2>2, <3>1
  <2> QED  BY <2>1, <2>2
<1>5. c = ab
  BY <1>1, <1>2, <1>3, <1>4, SeqEqual
<1> QED  BY <1>5 DEF ab, a, b, c, st

\* The first of the calls that are left.
LEMMA AskedFirst ==
    ASSUME NEW S, NEW s \in Seq(S), s # <<>>
    PROVE  Asked(s) = <<Head(s).type>> \o Asked(Tail(s))
<1> DEFINE one == <<Head(s)>>
           rest == Tail(s)
<1>1. one \in Seq(S) /\ rest \in Seq(S) /\ Head(s) \in S
  BY HeadTailProperties
<1>2. s = one \o rest
  <2>1. /\ Len(rest) = Len(s) - 1 /\ \A i \in 1..Len(rest) : rest[i] = s[i + 1]
        /\ Len(s) \in Nat /\ Len(s) # 0 /\ Len(one) = 1 /\ one[1] = s[1]
    BY HeadTailProperties, EmptySeq, LenProperties
  <2> DEFINE both == one \o rest
  <2> HIDE DEF one, rest
  <2>2. /\ both \in Seq(S) /\ Len(both) = Len(one) + Len(rest)
        /\ \A i \in 1..Len(one) + Len(rest) :
              both[i] = IF i <= Len(one) THEN one[i] ELSE rest[i - Len(one)]
    BY <1>1, ConcatProperties
  <2> HIDE DEF both
  <2>3. ASSUME NEW i \in 1..Len(s) PROVE s[i] = both[i]
    <3>1. CASE i = 1
      BY <2>1, <2>2, <3>1
    <3>2. CASE i # 1
      <4>1. i - 1 \in 1..Len(rest) /\ (i - 1) + 1 = i /\ ~(i <= 1)
        BY <2>1, <3>2
      <4> QED  BY <2>1, <2>2, <4>1
    <3> QED  BY <3>1, <3>2
  <2>4. Len(both) = Len(s)
    BY <2>1, <2>2
  <2>5. s = both
    BY <2>2, <2>3, <2>4, SeqEqual
  <2> QED  BY <2>5 DEF both
<1>3. Asked(s) = Asked(one) \o Asked(rest)
  <2> HIDE DEF one, rest
  <2> QED  BY <1>1, <1>2, AskedOf
<1>4. Asked(one) = <<Head(s).type>>
  BY <1>1 DEF Asked
<1> QED  BY <1>3, <1>4

\* A value other than a string is extracted by one call, which takes what was appended,
\* assigns what was packed and makes a call for each part.
LEMMA OneCall ==
    ASSUME NEW p, NEW values, Packable(values), NEW value \in values, NEW type, NEW content,
           type = value.type, content = value.content, type.kind # "string"
    PROVE  /\ Takes(type) = Len(Appended(p, type, content))
           /\ Members(AnyHost, type, Appended(p, type, content)) = Asked(Parts(type, content))
           /\ Assigned(AnyHost, type, Appended(p, type, content)) = Leaves(type, content)
<1> DEFINE piece == Appended(p, type, content)
<1>1. piece \in Seq(Byte)
  BY AppendedType
<1>2. Decoded(AnyHost, piece) = Number(piece)
  BY <1>1, NetworkOrder
<1>3. Asked(<<>>) = <<>>
  BY DEF Asked
<1>4. CASE type.kind = "number"
  <2>1. type.width \in Nat /\ content \in Nat /\ content < Power[type.width]
    BY <1>4, PackableKinds
  <2>2. /\ piece = Encoded(p, content, type.width) /\ Parts(type, content) = <<>>
        /\ Takes(type) = type.width /\ Members(AnyHost, type, piece) = <<>>
        /\ Assigned(AnyHost, type, piece) = <<Decoded(AnyHost, piece)>>
        /\ Leaves(type, content) = <<content>>
    BY <1>4 DEF Appended, Parts, Takes, Members, Assigned, Leaves
  <2>3. piece = Digits(content, type.width)
    BY <2>1, <2>2, NetworkOrder
  <2> HIDE DEF piece
  <2>4. Len(piece) = type.width /\ Number(piece) = content % Power[type.width]
    BY <2>1, <2>3, DigitsType, NumberDigits
  <2>5. content % Power[type.width] = content
    <3> DEFINE power == Power[type.width]
    <3>1. power \in Nat /\ content < power
      BY <2>1, PowerIs
    <3> HIDE DEF power
    <3>2. content % power = content
      BY <2>1, <3>1
    <3> QED  BY <3>2 DEF power
  <2> QED  BY <1>2, <1>3, <2>2, <2>4, <2>5 DEF piece
<1>5. CASE type.kind = "enum"
  <2> DEFINE wide == Widened(type, content)
  <2>1. type.width \in 0..Word /\ content \in Nat /\ content < Power[type.width]
    BY <1>5, PackableKinds
  <2>2. /\ piece = Encoded(p, wide, Word) /\ Parts(type, content) = <<>>
        /\ Takes(type) = Word /\ Members(AnyHost, type, piece) = <<>>
        /\ Assigned(AnyHost, type, piece) = <<Narrowed(type, Decoded(AnyHost, piece))>>
        /\ Leaves(type, content) = <<content>>
    BY <1>5 DEF Appended, Parts, Takes, Members, Assigned, Leaves
  <2>3. wide \in Nat /\ wide < UIntSize /\ Narrowed(type, wide) = content /\ Word \in Nat
        /\ UIntSize \in Nat
    BY <2>1, WidenedType, EnumReturns, Sizes, UInt
  <2> HIDE DEF wide, piece
  <2>4. piece = Digits(wide, Word)
    BY <2>2, <2>3, NetworkOrder
  <2>5. Len(piece) = Word /\ Number(piece) = wide % UIntSize
    BY <2>3, <2>4, DigitsType, NumberDigits, UInt
  <2>6. wide % UIntSize = wide
    BY <2>3
  <2> QED  BY <1>2, <1>3, <2>2, <2>3, <2>5, <2>6 DEF piece
<1>6. CASE type.kind = "raw"
  <2>1. type.count = Len(content)
    BY <1>6, PackableKinds
  <2>2. piece = content /\ Parts(type, content) = <<>> /\ Takes(type) = type.count
    BY <1>6 DEF Appended, Parts, Takes
  <2>3. /\ Members(AnyHost, type, piece) = <<>> /\ Assigned(AnyHost, type, piece) = <<piece>>
        /\ Leaves(type, content) = <<content>>
    BY <1>6 DEF Members, Assigned, Leaves
  <2> QED  BY <1>3, <2>1, <2>2, <2>3
<1>7. CASE type.kind \in {"vector", "map"}
  <2>1. Len(content) \in Nat /\ Len(content) < UIntSize /\ DOMAIN content = 1..Len(content)
    BY <1>7, PackableKinds
  <2>2. /\ piece = Length(p, content) /\ Takes(type) = Word
        /\ Members(AnyHost, type, piece) = [i \in 1..Decoded(AnyHost, piece) |-> type.of]
        /\ Assigned(AnyHost, type, piece) = <<Decoded(AnyHost, piece)>>
        /\ Leaves(type, content) = <<Len(content)>>
    BY <1>7 DEF Appended, Takes, Members, Assigned, Leaves
  <2>3. Len(piece) = Word /\ Number(piece) = Len(content)
    BY <2>1, <2>2, LengthType
  <2>4. Asked(Parts(type, content)) = [i \in 1..Len(content) |-> type.of]
    <3>1. Parts(type, content) = [i \in 1..Len(content) |-> [type |-> type.of, content |-> content[i]]]
      BY <1>7, <2>1 DEF Parts
    <3> QED  BY <3>1 DEF Asked
  <2> HIDE DEF piece
  <2> QED  BY <1>2, <2>2, <2>3, <2>4 DEF piece
<1>8. CASE type.kind \in {"pair", "object"}
  <2>1. Len(type.of) \in Nat /\ DOMAIN type.of = 1..Len(type.of)
    BY <1>8, PackableKinds
  <2>2. /\ piece = <<>> /\ Takes(type) = 0 /\ Members(AnyHost, type, piece) = type.of
        /\ Assigned(AnyHost, type, piece) = <<>> /\ Leaves(type, content) = <<>>
    BY <1>8 DEF Appended, Takes, Members, Assigned, Leaves
  <2>3. Asked(Parts(type, content)) = type.of
    <3>1. Parts(type, content) = [i \in DOMAIN type.of |-> [type |-> type.of[i], content |-> content[i]]]
      BY <1>8 DEF Parts
    <3>2. Asked(Parts(type, content)) = [i \in DOMAIN type.of |-> type.of[i]]
      BY <3>1 DEF Asked
    <3>3. type.of = [i \in 1..Len(type.of) |-> type.of[i]]
      BY <1>8, PackableOf
    <3> QED  BY <2>1, <3>2, <3>3
  <2> QED  BY <2>2, <2>3
<1>9. type.kind \in {"number", "enum", "raw", "vector", "map", "pair", "object"}
  <2>1. type.kind \in {"number", "enum", "string", "raw", "vector", "map", "pair", "object"}
    BY PackableKinds
  <2> QED  BY <2>1
<1> HIDE DEF piece
<1> QED  BY <1>4, <1>5, <1>6, <1>7, <1>8, <1>9

LEMMA LeavesType ==
    ASSUME NEW values, Packable(values), NEW value \in values, NEW type, NEW content,
           type = value.type, content = value.content
    PROVE  Leaves(type, content) \in Seq(Leaf)
<1>1. CASE type.kind \in {"number", "enum"}
  <2>1. content \in Nat
    BY <1>1, PackableKinds
  <2>2. Leaves(type, content) = <<content>>
    BY <1>1 DEF Leaves
  <2> QED  BY <2>1, <2>2 DEF Leaf
<1>2. CASE type.kind = "raw"
  <2>1. content \in Seq(Byte)
    BY <1>2, PackableKinds
  <2>2. Leaves(type, content) = <<content>>
    BY <1>2 DEF Leaves
  <2> QED  BY <2>1, <2>2 DEF Leaf
<1>3. CASE type.kind = "string"
  <2> DEFINE text == Characters(content)
  <2>1. text \in Seq(Byte)
    BY <1>3, CharactersType
  <2>2. Leaves(type, content) = <<text>>
    BY <1>3 DEF Leaves
  <2> HIDE DEF text
  <2> QED  BY <2>1, <2>2 DEF Leaf
<1>4. CASE type.kind \in {"vector", "map"}
  <2>1. Len(content) \in Nat
    BY <1>4, PackableKinds
  <2>2. Leaves(type, content) = <<Len(content)>>
    BY <1>4 DEF Leaves
  <2> QED  BY <2>1, <2>2 DEF Leaf
<1>5. CASE type.kind \in {"pair", "object"}
  <2>1. Leaves(type, content) = <<>>
    BY <1>5 DEF Leaves
  <2> QED  BY <2>1
<1>6. type.kind \in {"number", "enum", "string", "raw", "vector", "map", "pair", "object"}
  BY PackableKinds
<1> QED  BY <1>1, <1>2, <1>3, <1>4, <1>5, <1>6

\* A piece that was appended is where it was appended.
LEMMA AppendedPiece ==
    ASSUME NEW a \in Seq(Byte), NEW b \in Seq(Byte), NEW c \in Seq(Byte)
    PROVE  LET all == a \o (b \o c)
           IN  /\ all \in Seq(Byte) /\ Len(all) = Len(a) + Len(b) + Len(c)
               /\ \A i \in 1..Len(a) : all[i] = a[i]
               /\ \A i \in 1..Len(b) : all[Len(a) + i] = b[i]
               /\ \A i \in 1..Len(c) : all[Len(a) + Len(b) + i] = c[i]
<1> DEFINE bc == b \o c
           all == a \o bc
<1>1. /\ bc \in Seq(Byte) /\ Len(bc) = Len(b) + Len(c)
      /\ \A i \in 1..Len(b) + Len(c) : bc[i] = IF i <= Len(b) THEN b[i] ELSE c[i - Len(b)]
      /\ Len(a) \in Nat /\ Len(b) \in Nat /\ Len(c) \in Nat
  BY ConcatProperties, LenProperties
<1> HIDE DEF bc
<1>2. /\ all \in Seq(Byte) /\ Len(all) = Len(a) + Len(bc)
      /\ \A i \in 1..Len(a) + Len(bc) : all[i] = IF i <= Len(a) THEN a[i] ELSE bc[i - Len(a)]
  <2>1. bc \in Seq(Byte)
    BY <1>1
  <2> QED  BY <2>1, ConcatProperties
<1> HIDE DEF all
<1> DEFINE l == Len(a)
           m == Len(b)
           n == Len(c)
<1>3. /\ l \in Nat /\ m \in Nat /\ n \in Nat /\ Len(bc) = m + n /\ Len(all) = l + m + n
      /\ \A i \in 1..l + (m + n) : all[i] = IF i <= l THEN a[i] ELSE bc[i - l]
      /\ \A i \in 1..m + n : bc[i] = IF i <= m THEN b[i] ELSE c[i - m]
  BY <1>1, <1>2
<1> SUFFICES /\ \A i \in 1..l : all[i] = a[i]
             /\ \A i \in 1..m : all[l + i] = b[i]
             /\ \A i \in 1..n : all[l + m + i] = c[i]
  BY <1>2, <1>3 DEF all, bc
<1> HIDE DEF l, m, n
<1>4. ASSUME NEW i \in 1..l PROVE all[i] = a[i]
  <2>1. i \in 1..l + (m + n) /\ i <= l
    BY <1>3
  <2> QED  BY <1>3, <2>1
<1>5. ASSUME NEW i \in 1..m PROVE all[l + i] = b[i]
  <2>1. l + i \in 1..l + (m + n) /\ ~(l + i <= l) /\ (l + i) - l = i /\ i \in 1..m + n /\ i <= m
    BY <1>3
  <2> QED  BY <1>3, <2>1
<1>6. ASSUME NEW i \in 1..n PROVE all[l + m + i] = c[i]
  <2>1. /\ l + m + i \in 1..l + (m + n) /\ ~(l + m + i <= l) /\ (l + m + i) - l = m + i
        /\ m + i \in 1..m + n /\ ~(m + i <= m) /\ (m + i) - m = i
    BY <1>3
  <2> QED  BY <1>3, <2>1
<1> QED  BY <1>4, <1>5, <1>6

\* What one call of << appends, calls of >> take, and what it leaves to pack they leave to
\* extract.
LEMMA PackReaches ==
    ASSUME NEW p, NEW values, Packable(values), NEW value \in values, NEW type, NEW content,
           type = value.type, content = value.content,
           NEW bytes \in Seq(Byte), HeaderLength <= Len(bytes), NEW S, NEW calls \in Seq(S),
           NEW leaves \in Seq(Leaf), NEW longer, longer = bytes \o Appended(p, type, content)
    PROVE  Reaches(longer, Extraction(<<type>> \o calls, Len(bytes), leaves),
                   Extraction(Asked(Parts(type, content)) \o calls, Len(longer),
                              leaves \o Leaves(type, content)))
<1>1. Len(bytes) \in Nat
  BY LenProperties
<1>2. CASE type.kind # "string"
  <2> DEFINE piece == Appended(p, type, content)
  <2>1. piece \in Seq(Byte) /\ Takes(type) = Len(piece)
        /\ Members(AnyHost, type, piece) = Asked(Parts(type, content))
        /\ Assigned(AnyHost, type, piece) = Leaves(type, content)
    BY <1>2, AppendedType, OneCall
  <2>2. longer = bytes \o piece
    OBVIOUS
  <2> HIDE DEF piece
  <2>3. /\ longer \in Seq(Byte) /\ Len(longer) = Len(bytes) + Len(piece)
        /\ \A i \in 1..Len(piece) : longer[Len(bytes) + i] = piece[i]
    <3>1. <<>> \in Seq(Byte) /\ Len(<<>>) = 0 /\ piece \o <<>> = piece /\ Len(piece) \in Nat
      BY <2>1, LenProperties, ConcatEmptySeq
    <3> QED  BY <1>1, <2>1, <2>2, <3>1, AppendedPiece
  <2>4. Len(bytes) + Len(piece) <= Len(longer)
    BY <1>1, <2>1, <2>3, LenProperties
  <2>5. Reaches(longer, Extraction(<<type>> \o calls, Len(bytes), leaves),
                Extraction(Members(AnyHost, type, piece) \o calls, Len(bytes) + Len(piece),
                           leaves \o Assigned(AnyHost, type, piece)))
    BY <1>1, <2>1, <2>3, <2>4, TakesPiece
  <2> QED  BY <2>1, <2>3, <2>5
<1>3. CASE type.kind = "string"
  <2> DEFINE text == Characters(content)
             head == Length(p, text)
             raw == [kind |-> "raw", count |-> Len(text)]
             from == Len(bytes)
             middle == from + Len(head)
  <2>1. text \in Seq(Byte) /\ Len(text) < UIntSize /\ Len(text) \in Nat
    BY <1>3, CharactersType, LenProperties
  <2>2. head \in Seq(Byte) /\ Len(head) = Word /\ Number(head) = Len(text)
    <3> HIDE DEF text
    <3> QED  BY <2>1, LengthType
  <2>3. /\ longer = bytes \o (head \o text) /\ Asked(Parts(type, content)) = <<>>
        /\ Leaves(type, content) = <<text>> /\ Takes(type) = Word
    BY <1>3 DEF Appended, Parts, Leaves, Takes, Asked
  <2>4. Members(AnyHost, type, head) = <<raw>> /\ Assigned(AnyHost, type, head) = <<>>
    <3>1. Decoded(AnyHost, head) = Len(text)
      <4> HIDE DEF head, text
      <4> QED  BY <2>2, NetworkOrder
    <3> HIDE DEF text, head
    <3> QED  BY <1>3, <3>1 DEF Members, Assigned
  <2>5. /\ Takes(raw) = Len(text) /\ Members(AnyHost, raw, text) = <<>>
        /\ Assigned(AnyHost, raw, text) = <<text>>
    BY DEF Takes, Members, Assigned
  <2> HIDE DEF text, head, raw
  <2>6. /\ longer \in Seq(Byte) /\ Len(longer) = Len(bytes) + Len(head) + Len(text)
        /\ \A i \in 1..Len(head) : longer[Len(bytes) + i] = head[i]
        /\ \A i \in 1..Len(text) : longer[Len(bytes) + Len(head) + i] = text[i]
    <3>1. text \in Seq(Byte) /\ head \in Seq(Byte) /\ longer = bytes \o (head \o text)
      BY <2>1, <2>2, <2>3
    <3> QED  BY <3>1, AppendedPiece
  <2>7. /\ from \in Nat /\ middle \in Nat /\ HeaderLength <= from /\ HeaderLength <= middle
        /\ from + Len(head) <= Len(longer) /\ middle + Len(text) = Len(longer)
        /\ middle + Len(text) <= Len(longer) /\ middle = from + Len(head)
    <3> DEFINE n == Len(text)
               m == Len(head)
               all == Len(longer)
    <3>1. /\ n \in Nat /\ m \in Nat /\ from \in Nat /\ all = from + m + n
          /\ HeaderLength <= from /\ HeaderLength \in Nat
      BY <1>1, <2>1, <2>2, <2>6, Sizes
    <3> HIDE DEF n, m, all, from
    <3>2. /\ from + m \in Nat /\ HeaderLength <= from + m /\ from + m <= all
          /\ (from + m) + n = all /\ (from + m) + n <= all
      BY <3>1
    <3> QED  BY <3>1, <3>2 DEF n, m, all
  <2>8. Reaches(longer, Extraction(<<type>> \o calls, from, leaves),
                Extraction(Members(AnyHost, type, head) \o calls, from + Len(head),
                           leaves \o Assigned(AnyHost, type, head)))
    <3> HIDE DEF middle
    <3> QED  BY <2>2, <2>3, <2>6, <2>7, TakesPiece
  <2>9. Reaches(longer, Extraction(<<raw>> \o calls, middle, leaves),
                Extraction(Members(AnyHost, raw, text) \o calls, middle + Len(text),
                           leaves \o Assigned(AnyHost, raw, text)))
    <3>1. \A i \in 1..Len(text) : longer[middle + i] = text[i]
      BY <2>6
    <3> HIDE DEF middle, from
    <3> QED  BY <2>1, <2>5, <2>6, <2>7, <3>1, TakesPiece
  <2>10. leaves \o <<>> = leaves /\ <<>> \o calls = calls
    BY ConcatEmptySeq
  <2>11. Reaches(longer, Extraction(<<type>> \o calls, from, leaves),
                 Extraction(<<raw>> \o calls, middle, leaves))
    BY <2>4, <2>8, <2>10
  <2>12. Reaches(longer, Extraction(<<raw>> \o calls, middle, leaves),
                 Extraction(calls, Len(longer), leaves \o <<text>>))
    <3> HIDE DEF middle
    <3> QED  BY <2>5, <2>7, <2>9, <2>10
  <2>13. Reaches(longer, Extraction(<<type>> \o calls, from, leaves),
                 Extraction(calls, Len(longer), leaves \o <<text>>))
    <3> HIDE DEF middle
    <3> QED  BY <2>11, <2>12, ReachesFar
  <2> QED  BY <2>3, <2>10, <2>13
<1> QED  BY <1>2, <1>3

--------------------------------------------------------------------------------
(* What is written is read.                                                    *)

\* What items remembers of a value.
Item == [type : {value.type : value \in PackedValues}, leaves : Seq(Leaf), at : Nat, end : Nat]

\* An extraction of the item comes to its end, its leaves and the calls that are given.
Traced(bytes, item, calls) ==
    /\ HeaderLength <= item.at
    /\ Reaches(bytes, Extraction(<<item.type>>, item.at, <<>>),
               Extraction(calls, item.end, item.leaves))

\* What of an item is not packed yet.
Left(p, i) ==
    IF pc = "packing" /\ p = object /\ i = Len(items[p]) THEN Asked(todo) ELSE <<>>

\* Every item that is in a buffer can be extracted, as far as it is packed.
Written ==
    /\ items \in [Packets -> Seq(Item)]
    /\ pc = "packing" =>
          Len(items[object]) # 0 /\ items[object][Len(items[object])].end = Len(buffer[object])
    /\ \A p \in Packets : \A i \in 1..Len(items[p]) : Traced(buffer[p], items[p][i], Left(p, i))

\* An extraction that began where an item was packed, and of its type, is on the way to it.
Reading ==
    /\ pc \in {"idle", "packing"} => begun = Nothing
    /\ pc \in {"extracting", "threw"} =>
          \A i \in 1..Len(items[object]) :
              begun.at = items[object][i].at /\ begun.type = items[object][i].type =>
                  /\ pc = "extracting"
                  /\ Reaches(buffer[object], Extraction(todo, buffer_read_index[object], got),
                             Extraction(<<>>, items[object][i].end, items[object][i].leaves))

WrittenInv == BufferInv /\ Written /\ Reading

LEMMA TracedExtended ==
    ASSUME NEW bytes \in Seq(Byte), NEW longer \in Seq(Byte), Extends(bytes, longer),
           NEW item, NEW calls, Traced(bytes, item, calls)
    PROVE  Traced(longer, item, calls)
  BY ReachesExtended DEF Traced

LEMMA ExtendsItself == ASSUME NEW bytes \in Seq(Byte) PROVE Extends(bytes, bytes)
  BY LenProperties DEF Extends

LEMMA WrittenItem ==
    ASSUME Written, NEW p \in Packets, NEW i \in 1..Len(items[p])
    PROVE  items[p][i] \in Item /\ Len(items[p]) \in Nat /\ i \in Nat
<1>1. items[p] \in Seq(Item)
  BY DEF Written
<1> QED  BY <1>1, ElementOfSeq, LenProperties

\* Steps that pack nothing: a packet keeps its items, loses them or gets another's.
LEMMA WrittenStays ==
    ASSUME BufferInv, Written, pc = "packing" => todo = <<>>, pc' # "packing",
           items' \in [Packets -> Seq(Item)], buffer' \in [Packets -> Seq(Byte)],
           \A x \in Packets : \/ items'[x] = <<>>
                              \/ \E y \in Packets : items'[x] = items[y] /\ Extends(buffer[y], buffer'[x])
    PROVE  Written'
<1>1. \A p \in Packets : \A i \in 1..Len(items[p]) : Traced(buffer[p], items[p][i], <<>>)
  <2>1. \A p, i : Left(p, i) = <<>>
    <3>1. Asked(<<>>) = <<>>
      BY DEF Asked
    <3> QED  BY <3>1 DEF Left
  <2> QED  BY <2>1 DEF Written
<1>2. \A p, i : Left(p, i)' = <<>>
  BY DEF Left
<1>3. ASSUME NEW x \in Packets, NEW i \in 1..Len(items'[x])
      PROVE  Traced(buffer'[x], items'[x][i], <<>>)
  <2>1. items'[x] # <<>>
    <3>1. items'[x] = <<>> => Len(items'[x]) = 0
      OBVIOUS
    <3> QED  BY <1>3, <3>1
  <2>2. PICK y \in Packets : items'[x] = items[y] /\ Extends(buffer[y], buffer'[x])
    BY <2>1
  <2>3. Traced(buffer[y], items'[x][i], <<>>)
    BY <1>1, <1>3, <2>2
  <2>4. buffer[y] \in Seq(Byte) /\ buffer'[x] \in Seq(Byte)
    BY DEF BufferInv
  <2> QED  BY <2>2, <2>3, <2>4, TracedExtended
<1> QED  BY <1>2, <1>3 DEF Written

\* Between calls nothing is being extracted.
LEMMA ReadingStays ==
    ASSUME pc' = "idle", begun' = Nothing
    PROVE  Reading'
  BY DEF Reading

LEMMA WrittenInit == Init => Written /\ Reading
<1> SUFFICES ASSUME Init PROVE Written /\ Reading
  OBVIOUS
<1>1. items \in [Packets -> Seq(Item)] /\ \A p \in Packets : items[p] = <<>>
  BY DEF Init
<1>2. pc = "idle" /\ begun = Nothing
  BY DEF Init
<1>3. \A p \in Packets : Len(items[p]) = 0
  BY <1>1
<1> QED  BY <1>1, <1>2, <1>3 DEF Written, Reading

LEMMA SameItems ==
    ASSUME BufferInv, Written, UNCHANGED <<buffer, items>>
    PROVE  /\ items' \in [Packets -> Seq(Item)] /\ buffer' \in [Packets -> Seq(Byte)]
           /\ \A x \in Packets : items'[x] = items[x] /\ Extends(buffer[x], buffer'[x])
<1>1. /\ items' \in [Packets -> Seq(Item)] /\ buffer' \in [Packets -> Seq(Byte)]
      /\ \A x \in Packets : buffer[x] \in Seq(Byte)
  BY DEF Written, BufferInv
<1> QED  BY <1>1, ExtendsItself

\* The packet gets an item of which everything is left to pack.
LEMMA PackBeginWrites ==
    ASSUME WellTyped, BufferInv, Written, NEW p \in Packets, NEW value \in Values, PackBegin(p, value)
    PROVE  Written'
<1> DEFINE n == Len(items[p])
           at == Len(buffer[p])
           item == [type |-> value.type, leaves |-> <<>>, at |-> at, end |-> at]
<1>1. /\ pc = "idle" /\ pc' = "packing" /\ object' = p /\ todo' = <<value>>
      /\ items' = [items EXCEPT ![p] = Append(items[p], item)] /\ buffer' = buffer
  BY DEF PackBegin, memory
<1>2. items \in [Packets -> Seq(Item)] /\ items[p] \in Seq(Item) /\ n \in Nat
  BY LenProperties DEF Written
<1>3. at \in Nat /\ HeaderLength <= at
  BY LenProperties DEF BufferInv, Cursors
<1>4. item \in Item
  <2>1. value.type \in {v.type : v \in PackedValues}
    BY CallsTyped
  <2>2. <<>> \in Seq(Leaf)
    OBVIOUS
  <2> HIDE DEF at
  <2> QED  BY <1>3, <2>1, <2>2 DEF Item
<1>5. item.type = value.type /\ item.leaves = <<>> /\ item.at = at /\ item.end = at
  OBVIOUS
<1> HIDE DEF item
<1>6. /\ items' \in [Packets -> Seq(Item)] /\ items'[p] = Append(items[p], item)
      /\ \A x \in Packets : x # p => items'[x] = items[x]
  <2>1. Append(items[p], item) \in Seq(Item)
    BY <1>2, <1>4, AppendProperties
  <2> QED  BY <1>1, <1>2, <2>1
<1>7. /\ Len(items'[p]) = n + 1 /\ items'[p][n + 1] = item
      /\ \A i \in 1..n : items'[p][i] = items[p][i]
  BY <1>2, <1>4, <1>6, AppendProperties
<1>8. Traced(buffer'[p], item, Asked(todo'))
  <2>1. Asked(<<value>>) = <<value.type>>
    BY DEF Asked
  <2> QED  BY <1>1, <1>3, <1>5, <2>1, ReachesItself DEF Traced
<1>9. ASSUME NEW x \in Packets, NEW i \in 1..Len(items'[x])
      PROVE  Traced(buffer'[x], items'[x][i], Left(x, i)')
  <2>1. \A y, j : Left(y, j) = <<>>
    BY <1>1 DEF Left
  <2>2. CASE x = p /\ i = n + 1
    <3>1. Left(x, i)' = Asked(todo')
      BY <1>1, <1>7, <2>2 DEF Left
    <3> QED  BY <1>7, <1>8, <2>2, <3>1
  <2>3. CASE ~(x = p /\ i = n + 1)
    <3>1. Left(x, i)' = <<>>
      BY <1>1, <1>7, <2>3 DEF Left
    <3>2. i \in 1..Len(items[x]) /\ items'[x][i] = items[x][i]
      <4>1. CASE x = p
        <5> HIDE DEF n
        <5>1. i \in 1..n
          BY <1>2, <1>7, <1>9, <2>3, <4>1
        <5> QED  BY <1>7, <4>1, <5>1 DEF n
      <4>2. CASE x # p
        BY <1>6, <1>9, <4>2
      <4> QED  BY <4>1, <4>2
    <3>3. Traced(buffer[x], items[x][i], <<>>)
      BY <2>1, <3>2 DEF Written
    <3> QED  BY <1>1, <3>1, <3>2, <3>3
  <2> QED  BY <2>2, <2>3
<1>10. Len(items'[object']) # 0 /\ items'[object'][Len(items'[object'])].end = Len(buffer'[object'])
  <2> HIDE DEF n, at
  <2>1. n + 1 # 0
    BY <1>2
  <2> QED  BY <1>1, <1>5, <1>7, <2>1 DEF at
<1> QED  BY <1>6, <1>9, <1>10 DEF Written

\* A call of << extends the last item by what it appends.
LEMMA PackWrites ==
    ASSUME WellTyped, BufferInv, BufferInv', Written, Pack
    PROVE  Written'
<1> DEFINE p == object
           n == Len(items[p])
           it == items[p][n]
           value == Head(todo)
           type == value.type
           content == value.content
           bytes == buffer[p]
           longer == bytes \o Appended(p, type, content)
           leaves == it.leaves \o Leaves(type, content)
           end == it.end + Len(Appended(p, type, content))
           new == [it EXCEPT !.leaves = leaves, !.end = end]
           rest == Tail(todo)
           parts == Parts(type, content)
<1>1. /\ pc = "packing" /\ todo # <<>> /\ pc' = "packing" /\ object' = object
      /\ buffer' = [buffer EXCEPT ![p] = longer]
      /\ todo' = parts \o rest
      /\ items' = [items EXCEPT ![p][n] = new]
  <2>1. /\ pc = "packing" /\ todo # <<>> /\ pc' = "packing" /\ object' = object
        /\ buffer' = [buffer EXCEPT ![p] = longer] /\ todo' = parts \o rest
    BY DEF Pack
  <2>2. items' = [items EXCEPT ![p][n] = new]
    BY DEF Pack
  <2> QED  BY <2>1, <2>2
<1>2. p \in Packets
  BY <1>1 DEF BufferInv
<1>3. /\ items \in [Packets -> Seq(Item)] /\ items[p] \in Seq(Item) /\ n \in Nat /\ n # 0
      /\ n \in 1..n /\ it.end = Len(bytes)
  BY <1>1, <1>2, LenProperties DEF Written
<1>4. it \in Item
  BY <1>3, ElementOfSeq
<1>5. Packable(PackedValues) /\ todo \in Seq(PackedValues)
  BY <1>1, CallsTyped DEF BufferInv, Calls
<1>6. value \in PackedValues /\ rest \in Seq(PackedValues)
  BY <1>1, <1>5, HeadTailProperties
<1>7. bytes \in Seq(Byte) /\ HeaderLength <= Len(bytes) /\ Len(bytes) \in Nat
  BY <1>2, LenProperties DEF BufferInv, Cursors
<1>8. /\ Appended(p, type, content) \in Seq(Byte) /\ parts \in Seq(PackedValues)
      /\ Leaves(type, content) \in Seq(Leaf)
  BY <1>5, <1>6, AppendedType, LeavesType
<1>9. /\ longer \in Seq(Byte) /\ end = Len(longer) /\ end \in Nat /\ leaves \in Seq(Leaf)
      /\ Extends(bytes, longer)
  <2> DEFINE appended == Appended(p, type, content)
             more == Leaves(type, content)
  <2>1. it.leaves \in Seq(Leaf)
    BY <1>4 DEF Item
  <2>2. leaves \in Seq(Leaf)
    <3>1. more \in Seq(Leaf)
      BY <1>8
    <3> DEFINE old == it.leaves
    <3>2. old \in Seq(Leaf)
      BY <2>1
    <3> HIDE DEF more, old
    <3>3. old \o more \in Seq(Leaf)
      BY <3>1, <3>2, ConcatProperties
    <3> QED  BY <3>3 DEF old, more
  <2>3. appended \in Seq(Byte)
    BY <1>8
  <2> HIDE DEF appended
  <2>4. /\ bytes \o appended \in Seq(Byte) /\ Len(bytes \o appended) = Len(bytes) + Len(appended)
        /\ \A i \in 1..Len(bytes) + Len(appended) :
               (bytes \o appended)[i] = IF i <= Len(bytes) THEN bytes[i] ELSE appended[i - Len(bytes)]
        /\ Len(appended) \in Nat
    BY <1>7, <2>3, ConcatProperties, LenProperties
  <2> DEFINE both == bytes \o appended
  <2>5. Extends(bytes, both)
    <3> HIDE DEF both
    <3>1. ASSUME NEW i \in HeaderLength + 1..Len(bytes) PROVE both[i] = bytes[i]
      <4>1. i \in 1..Len(bytes) + Len(appended) /\ i <= Len(bytes)
        BY <1>7, <2>4, Sizes
      <4> QED  BY <2>4, <4>1 DEF both
    <3>2. Len(bytes) <= Len(both)
      BY <1>7, <2>4 DEF both
    <3> QED  BY <3>1, <3>2 DEF Extends
  <2>6. end = Len(both) /\ end \in Nat
    <3> DEFINE e == it.end
    <3>1. end = e + Len(appended) /\ e = Len(bytes) /\ Len(both) = Len(bytes) + Len(appended)
      BY <1>3, <2>4 DEF appended
    <3> HIDE DEF e, both
    <3> QED  BY <1>7, <2>4, <3>1
  <2> QED  BY <2>2, <2>4, <2>5, <2>6 DEF appended
<1>10. /\ new \in Item /\ new.type = it.type /\ new.at = it.at /\ new.leaves = leaves
       /\ new.end = end
  <2> HIDE DEF leaves, end, it
  <2> QED  BY <1>4, <1>9 DEF Item
<1>11. /\ items' \in [Packets -> Seq(Item)] /\ items'[p] = [items[p] EXCEPT ![n] = new]
       /\ \A x \in Packets : x # p => items'[x] = items[x]
  <2> DEFINE more == [items[p] EXCEPT ![n] = new]
  <2>1. more \in Seq(Item)
    <3> HIDE DEF new, n
    <3> QED  BY <1>3, <1>10, ExceptSeq DEF n
  <2>2. items' = [items EXCEPT ![p] = more]
    BY <1>1
  <2> HIDE DEF more
  <2> QED  BY <1>2, <1>3, <2>1, <2>2 DEF more
<1>12. /\ Len(items'[p]) = n /\ items'[p][n] = new
       /\ \A i \in 1..n : i # n => items'[p][i] = items[p][i]
  <2> HIDE DEF new
  <2> QED  BY <1>3, <1>10, <1>11, ExceptSeq
<1>13. buffer'[p] = longer /\ \A x \in Packets : x # p => buffer'[x] = buffer[x]
  BY <1>1, <1>2 DEF BufferInv
<1>14. Traced(longer, new, Asked(todo'))
  <2> DEFINE T == {v.type : v \in PackedValues}
             calls == Asked(rest)
             start == Extraction(<<it.type>>, it.at, <<>>)
  <2>1. Traced(bytes, it, Asked(todo))
    BY <1>1, <1>2, <1>3 DEF Written, Left
  <2>2. HeaderLength <= it.at /\ Reaches(bytes, start, Extraction(Asked(todo), it.end, it.leaves))
    BY <2>1 DEF Traced
  <2>3. Asked(todo) = <<type>> \o calls
    BY <1>1, <1>5, AskedFirst
  <2>4. Asked(todo') = Asked(parts) \o calls
    BY <1>1, <1>6, <1>8, AskedOf
  <2>5. calls \in Seq(T)
    BY <1>6, AskedType
  <2>6. Reaches(longer, Extraction(<<type>> \o calls, Len(bytes), it.leaves),
                Extraction(Asked(parts) \o calls, Len(longer), leaves))
    <3>1. it.leaves \in Seq(Leaf)
      BY <1>4 DEF Item
    <3> HIDE DEF calls, T, it, bytes, p, value
    <3> QED  BY <1>5, <1>6, <1>7, <2>5, <3>1, PackReaches
  <2>7. Reaches(longer, start, Extraction(<<type>> \o calls, Len(bytes), it.leaves))
    <3>1. Reaches(bytes, start, Extraction(<<type>> \o calls, Len(bytes), it.leaves))
      BY <1>3, <2>2, <2>3
    <3> HIDE DEF start, longer, bytes, it
    <3> QED  BY <1>7, <1>9, <3>1, ReachesExtended
  <2>8. Reaches(longer, start, Extraction(Asked(todo'), end, leaves))
    <3>1. Reaches(longer, start, Extraction(Asked(parts) \o calls, Len(longer), leaves))
      <4> HIDE DEF start, longer, bytes, it, leaves, calls, type
      <4> QED  BY <2>6, <2>7, ReachesFar
    <3> QED  BY <1>9, <2>4, <3>1
  <2> HIDE DEF new, leaves, end, longer, it
  <2> QED  BY <1>10, <2>2, <2>8 DEF Traced
<1>15. ASSUME NEW x \in Packets, NEW i \in 1..Len(items'[x])
       PROVE  Traced(buffer'[x], items'[x][i], Left(x, i)')
  <2> HIDE DEF new, longer
  <2>1. CASE x = p /\ i = n
    <3>1. Left(x, i)' = Asked(todo')
      BY <1>1, <1>12, <2>1 DEF Left
    <3> QED  BY <1>12, <1>13, <1>14, <2>1, <3>1
  <2>2. CASE ~(x = p /\ i = n)
    <3>1. Left(x, i)' = <<>>
      BY <1>1, <1>12, <2>2 DEF Left
    <3>2. i \in 1..Len(items[x]) /\ items'[x][i] = items[x][i] /\ Left(x, i) = <<>>
      BY <1>11, <1>12, <1>15, <2>2 DEF Left
    <3>3. Traced(buffer[x], items[x][i], <<>>)
      BY <3>2 DEF Written
    <3>4. buffer[x] \in Seq(Byte) /\ buffer'[x] \in Seq(Byte) /\ Extends(buffer[x], buffer'[x])
      <4>1. CASE x = p
        BY <1>7, <1>9, <1>13, <4>1
      <4>2. CASE x # p
        <5>1. buffer[x] \in Seq(Byte)
          BY DEF BufferInv
        <5> QED  BY <1>13, <4>2, <5>1, ExtendsItself
      <4> QED  BY <4>1, <4>2
    <3> QED  BY <3>1, <3>2, <3>3, <3>4, TracedExtended
  <2> QED  BY <2>1, <2>2
<1>16. Len(items'[object']) # 0 /\ items'[object'][Len(items'[object'])].end = Len(buffer'[object'])
  <2> HIDE DEF new, longer, end, n
  <2> QED  BY <1>1, <1>3, <1>9, <1>10, <1>12, <1>13
<1> QED  BY <1>11, <1>15, <1>16 DEF Written

LEMMA ExtractBeginReads ==
    ASSUME BufferInv, Written, NEW p \in Packets, NEW type, ExtractBegin(p, type)
    PROVE  Reading'
<1>1. /\ pc = "idle" /\ pc' = "extracting" /\ object' = p /\ todo' = <<type>> /\ got' = got
      /\ begun' = [at |-> buffer_read_index[p], type |-> type]
      /\ buffer' = buffer /\ buffer_read_index' = buffer_read_index /\ items' = items
  BY DEF ExtractBegin, memory
<1>2. got = <<>>
  BY <1>1 DEF BufferInv
<1>3. ASSUME NEW i \in 1..Len(items[p]), begun'.at = items[p][i].at, begun'.type = items[p][i].type
      PROVE  Reaches(buffer[p], Extraction(<<type>>, buffer_read_index[p], <<>>),
                     Extraction(<<>>, items[p][i].end, items[p][i].leaves))
  <2>1. Left(p, i) = <<>>
    BY <1>1 DEF Left
  <2>2. Traced(buffer[p], items[p][i], <<>>)
    BY <2>1 DEF Written
  <2>3. items[p][i].at = buffer_read_index[p] /\ items[p][i].type = type
    BY <1>1, <1>3
  <2> QED  BY <2>2, <2>3 DEF Traced
<1> QED  BY <1>1, <1>2, <1>3 DEF Reading

\* What there is at the cursor.
LEMMA AtPiece ==
    ASSUME NEW p \in Packets, buffer[p] \in Seq(Byte), NEW at \in Nat, NEW n \in Nat,
           at + n <= Len(buffer[p])
    PROVE  /\ [i \in 1..n |-> At(p, at + i)] = Piece(buffer[p], at, n)
           /\ Piece(buffer[p], at, n) \in Seq(Byte)
<1>1. Len(buffer[p]) \in Nat /\ DOMAIN buffer[p] = 1..Len(buffer[p])
      /\ \A i \in 1..Len(buffer[p]) : buffer[p][i] \in Byte
  BY LenProperties, ElementOfSeq
<1>2. ASSUME NEW i \in 1..n PROVE At(p, at + i) = buffer[p][at + i] /\ buffer[p][at + i] \in Byte
  <2>1. at + i \in 1..Len(buffer[p])
    BY <1>1
  <2> QED  BY <1>1, <2>1 DEF At
<1>3. Piece(buffer[p], at, n) \in [1..n -> Byte]
  BY <1>2 DEF Piece
<1> QED  BY <1>2, <1>3, SeqDef DEF Piece

LEMMA ExtractSteps ==
    ASSUME WellTyped, BufferInv, BuffersFit, Extract, HeaderLength <= buffer_read_index[object]
    PROVE  Steps(buffer[object], Extraction(todo, buffer_read_index[object], got),
                 Extraction(todo', buffer_read_index'[object], got'))
<1> DEFINE p == object
           type == Head(todo)
           from == buffer_read_index[p]
           n == Takes(type)
           bytes == [i \in 1..n |-> At(p, from + i)]
           piece == Piece(buffer[p], from, n)
<1>1. p \in Packets /\ n \in Nat /\ from + n <= Len(buffer[p]) /\ from \in Nat
      /\ HeaderLength <= from /\ buffer[p] \in Seq(Byte)
      /\ buffer_read_index' = [buffer_read_index EXCEPT ![p] = from + n]
  BY Taken DEF BufferInv, Cursors
<1>2. /\ todo # <<>> /\ got' = got \o Assigned(p, type, bytes)
      /\ todo' = Members(p, type, bytes) \o Tail(todo)
  BY DEF Extract
<1>3. buffer_read_index'[p] = from + n
  BY <1>1 DEF BufferInv
<1> HIDE DEF type, n, from
<1>4. bytes = piece /\ piece \in Seq(Byte)
  BY <1>1, AtPiece
<1> HIDE DEF bytes, piece
<1>5. /\ got' = got \o Assigned(AnyHost, type, piece)
      /\ todo' = Members(AnyHost, type, piece) \o Tail(todo)
  BY <1>2, <1>4, HostsAgree
<1> DEFINE x == Extraction(todo, buffer_read_index[p], got)
<1>6. /\ x.todo = todo /\ x.at = from /\ x.got = got
  BY DEF Extraction, from
<1> HIDE DEF x
<1> QED  BY <1>1, <1>2, <1>3, <1>5, <1>6 DEF Steps, piece, n, type, x

LEMMA ExtractReads ==
    ASSUME WellTyped, BufferInv, BuffersFit, Reading, Extract
    PROVE  Reading'
<1> DEFINE x == Extraction(todo, buffer_read_index[object], got)
           y == Extraction(todo', buffer_read_index'[object], got')
<1>1. /\ pc = "extracting" /\ todo # <<>> /\ pc' = pc /\ object' = object /\ begun' = begun
      /\ buffer' = buffer /\ items' = items
  BY DEF Extract
<1>2. HeaderLength <= x.at => Steps(buffer[object], x, y)
  <2>1. x.at = buffer_read_index[object]
    BY DEF Extraction
  <2> QED  BY <2>1, ExtractSteps
<1>3. ASSUME NEW i \in 1..Len(items[object]), begun.at = items[object][i].at,
             begun.type = items[object][i].type
      PROVE  Reaches(buffer[object], y, Extraction(<<>>, items[object][i].end, items[object][i].leaves))
  <2> DEFINE z == Extraction(<<>>, items[object][i].end, items[object][i].leaves)
  <2>1. Reaches(buffer[object], x, z)
    BY <1>1, <1>3 DEF Reading
  <2>2. z # x
    <3>1. z.todo = <<>> /\ x.todo = todo
      BY DEF Extraction
    <3> QED  BY <1>1, <3>1
  <2> HIDE DEF x, y, z
  <2>3. HeaderLength <= x.at
    <3>1. ~(HeaderLength <= x.at) => \A w : ~Steps(buffer[object], x, w)
      BY DEF Steps
    <3> QED  BY <2>1, <2>2, <3>1, ReachesNoMore
  <2>4. Reaches(buffer[object], y, z)
    BY <1>2, <2>1, <2>2, <2>3, ReachesAfter
  <2> QED  BY <2>4 DEF z
<1> QED  BY <1>1, <1>3 DEF Reading

\* An extraction that can go no further is not of an item where it began.
LEMMA ThrowReads ==
    ASSUME WellTyped, BufferInv, BuffersFit, Reading, Throw
    PROVE  Reading'
<1> DEFINE p == object
           x == Extraction(todo, buffer_read_index[p], got)
           from == buffer_read_index[p]
           n == Takes(Head(todo))
           len == Len(buffer[p])
<1>1. /\ pc = "extracting" /\ todo # <<>> /\ ~assert_bytes_remaining(p, Head(todo))
      /\ pc' = "threw" /\ object' = object /\ begun' = begun /\ items' = items
  BY DEF Throw
<1>2. p \in Packets /\ len \in Nat /\ len + UIntSize <= SizeT /\ from \in Nat
  BY <1>1, LenProperties DEF BufferInv, BuffersFit
<1>3. ~(n \in Nat /\ from + n <= len)
  <2>1. ~((from + n) % SizeT <= len)
    BY <1>1 DEF assert_bytes_remaining
  <2> HIDE DEF from, n, len
  <2> SUFFICES ASSUME n \in Nat, from + n <= len PROVE FALSE
    OBVIOUS
  <2>2. from + n \in Nat /\ from + n < SizeT /\ SizeT \in Nat
    BY <1>2, UInt, Sizes
  <2>3. (from + n) % SizeT = from + n
    BY <2>2
  <2> QED  BY <2>1, <2>3
<1>4. x.todo = todo /\ x.at = from
  BY DEF Extraction
<1>5. \A y : ~Steps(buffer[p], x, y)
  <2> HIDE DEF x
  <2> QED  BY <1>3, <1>4 DEF Steps
<1>6. ASSUME NEW i \in 1..Len(items[p]), begun.at = items[p][i].at, begun.type = items[p][i].type
      PROVE  FALSE
  <2> DEFINE z == Extraction(<<>>, items[p][i].end, items[p][i].leaves)
  <2>1. Reaches(buffer[p], x, z)
    BY <1>1, <1>6 DEF Reading
  <2>2. z.todo = <<>>
    BY DEF Extraction
  <2> HIDE DEF x, z
  <2>3. z = x
    BY <1>5, <2>1, ReachesNoMore
  <2> QED  BY <1>1, <1>4, <2>2, <2>3
<1> QED  BY <1>1, <1>6 DEF Reading

\* The items of what was sent are those of what was received.
LEMMA TransferWrites ==
    ASSUME BufferInv, BuffersFit, Written, NEW p \in Packets, NEW q \in Packets, p # q, Transfer(p, q)
    PROVE  Written'
<1>1. pc = "idle" /\ pc' = pc /\ items' = [items EXCEPT ![q] = items[p]]
  BY DEF Transfer, call
<1>2. items \in [Packets -> Seq(Item)]
  BY DEF Written
<1>3. items' \in [Packets -> Seq(Item)] /\ items'[q] = items[p]
      /\ \A x \in Packets \ {q} : items'[x] = items[x]
  BY <1>1, <1>2
<1>4. /\ buffer' \in [Packets -> Seq(Byte)] /\ \A x \in Packets \ {p, q} : buffer'[x] = buffer[x]
      /\ \A x \in {p, q} : Extends(buffer[p], buffer'[x])
  BY TransferSteps DEF Extends
<1>5. \A x \in Packets : Extends(buffer[x], buffer[x])
  BY ExtendsItself DEF BufferInv
<1>6. \A x \in Packets : \E y \in Packets : items'[x] = items[y] /\ Extends(buffer[y], buffer'[x])
  BY <1>3, <1>4, <1>5
<1> QED  BY <1>1, <1>3, <1>4, <1>6, WrittenStays

\* clear and set_buffer forget the items of a packet.
LEMMA ClearWrites ==
    ASSUME BufferInv, BufferInv', Written, NEW p \in Packets, clear(p) \/ \E raw \in Raws : set_buffer(p, raw)
    PROVE  Written'
<1>1. pc = "idle" /\ pc' = pc /\ items' = [items EXCEPT ![p] = <<>>]
      /\ \E bytes : buffer' = [buffer EXCEPT ![p] = bytes]
  BY DEF clear, set_buffer, call
<1>2. items \in [Packets -> Seq(Item)] /\ <<>> \in Seq(Item) /\ buffer \in [Packets -> Seq(Byte)]
      /\ buffer' \in [Packets -> Seq(Byte)]
  BY DEF Written, BufferInv
<1>3. items' \in [Packets -> Seq(Item)] /\ items'[p] = <<>>
      /\ \A x \in Packets \ {p} : items'[x] = items[x] /\ buffer'[x] = buffer[x]
  BY <1>1, <1>2
<1>4. \A x \in Packets : Extends(buffer[x], buffer[x])
  BY <1>2, ExtendsItself
<1>5. \A x \in Packets : \/ items'[x] = <<>>
                         \/ \E y \in Packets : items'[x] = items[y] /\ Extends(buffer[y], buffer'[x])
  BY <1>3, <1>4
<1> QED  BY <1>1, <1>2, <1>3, <1>5, WrittenStays

\* Steps that change neither buffers nor items, and pack nothing.
LEMMA SameWrites ==
    ASSUME BufferInv, Written, UNCHANGED <<buffer, items>>, pc = "packing" => todo = <<>>, pc' # "packing"
    PROVE  Written'
<1>1. /\ items' \in [Packets -> Seq(Item)] /\ buffer' \in [Packets -> Seq(Byte)]
      /\ \A x \in Packets : items'[x] = items[x] /\ Extends(buffer[x], buffer'[x])
  BY SameItems
<1>2. \A x \in Packets : \E y \in Packets : items'[x] = items[y] /\ Extends(buffer[y], buffer'[x])
  BY <1>1
<1> QED  BY <1>1, <1>2, WrittenStays

LEMMA WrittenNext == WellTyped => (WrittenInv /\ BuffersFit /\ [Next]_vars => WrittenInv')
<1> SUFFICES ASSUME WellTyped, WrittenInv, BuffersFit, [Next]_vars PROVE WrittenInv'
  OBVIOUS
<1>1. BufferInv /\ Written /\ Reading
  BY DEF WrittenInv
<1>2. BufferInv'
  BY <1>1, BufferNext
<1> SUFFICES Written' /\ Reading'
  BY <1>2 DEF WrittenInv
<1>3. Read \subseteq Packets /\ \A link \in Links : link[1] \in Packets /\ link[2] \in Packets /\ link[1] # link[2]
  BY BufferAssumption
<1>4. ASSUME NEW p \in Packets, NEW value \in Values, PackBegin(p, value) PROVE Written' /\ Reading'
  <2>1. pc = "idle" /\ pc' = "packing" /\ begun' = begun
    BY <1>4 DEF PackBegin
  <2> QED  BY <1>1, <1>4, <2>1, PackBeginWrites DEF Reading
<1>5. CASE Pack
  <2>1. pc = "packing" /\ pc' = pc /\ begun' = begun
    BY <1>5 DEF Pack
  <2> QED  BY <1>1, <1>2, <1>5, <2>1, PackWrites DEF Reading
<1>6. CASE PackEnd \/ ExtractEnd
  <2>1. /\ pc = "packing" => todo = <<>>
        /\ pc' = "idle" /\ begun' = Nothing /\ UNCHANGED <<buffer, items>>
    BY <1>6 DEF PackEnd, ExtractEnd, Idle, memory
  <2>2. pc' # "packing"
    BY <2>1
  <2> QED  BY <1>1, <2>1, <2>2, SameWrites, ReadingStays
<1>7. ASSUME NEW p \in Read, NEW type \in Types, ExtractBegin(p, type) PROVE Written' /\ Reading'
  <2>1. pc = "idle" /\ pc' = "extracting" /\ UNCHANGED <<buffer, items>>
    BY <1>7 DEF ExtractBegin, memory
  <2>2. pc # "packing" /\ pc' # "packing" /\ p \in Packets
    BY <1>3, <2>1
  <2> QED  BY <1>1, <1>7, <2>1, <2>2, SameWrites, ExtractBeginReads
<1>8. CASE Extract
  <2>1. pc = "extracting" /\ pc' = pc /\ UNCHANGED <<buffer, items>>
    BY <1>8 DEF Extract
  <2>2. pc # "packing" /\ pc' # "packing"
    BY <2>1
  <2> QED  BY <1>1, <1>8, <2>1, <2>2, SameWrites, ExtractReads
<1>9. CASE Throw
  <2>1. pc = "extracting" /\ pc' = "threw" /\ UNCHANGED <<buffer, items>>
    BY <1>9 DEF Throw, memory
  <2>2. pc # "packing" /\ pc' # "packing"
    BY <2>1
  <2> QED  BY <1>1, <1>9, <2>1, <2>2, SameWrites, ThrowReads
<1>10. ASSUME NEW p \in Packets, clear(p) \/ \E raw \in Raws : set_buffer(p, raw)
       PROVE  Written' /\ Reading'
  <2>1. pc = "idle" /\ pc' = pc /\ begun' = begun
    BY <1>10 DEF clear, set_buffer, call
  <2>2. pc' = "idle" /\ begun' = Nothing
    BY <1>1, <2>1 DEF Reading
  <2> QED  BY <1>1, <1>2, <1>10, <2>2, ClearWrites, ReadingStays
<1>11. ASSUME NEW link \in Links, Transfer(link[1], link[2]) PROVE Written' /\ Reading'
  <2>1. pc = "idle" /\ pc' = pc /\ begun' = begun
    BY <1>11 DEF Transfer, call
  <2>2. pc' = "idle" /\ begun' = Nothing
    BY <1>1, <2>1 DEF Reading
  <2>3. Written'
    BY <1>1, <1>3, <1>11, TransferWrites
  <2> QED  BY <2>2, <2>3, ReadingStays
<1>12. ASSUME NEW p \in Read, \/ \E pos \in Positions : set_cursor(p, pos)
                              \/ \E pos \in Offsets : seek_cursor(p, pos)
       PROVE  Written' /\ Reading'
  <2>1. pc = "idle" /\ pc' = pc /\ begun' = begun /\ UNCHANGED <<buffer, items>>
    BY <1>12 DEF set_cursor, seek_cursor, call
  <2>2. pc # "packing" /\ pc' # "packing" /\ pc' = "idle" /\ begun' = Nothing
    BY <1>1, <2>1 DEF Reading
  <2> QED  BY <1>1, <2>1, <2>2, SameWrites, ReadingStays
<1>13. CASE UNCHANGED vars
  <2>1. UNCHANGED <<buffer, buffer_read_index, pc, object, todo, got, begun, items>>
    BY <1>13 DEF vars, memory, call
  <2>2. Reading'
    BY <1>1, <2>1 DEF Reading
  <2>3. Written'
    BY <1>1, <2>1 DEF Written, Left
  <2> QED  BY <2>2, <2>3
<1> QED  BY <1>4, <1>5, <1>6, <1>7, <1>8, <1>9, <1>10, <1>11, <1>12, <1>13 DEF Next

LEMMA WrittenReads == WrittenInv => WrittenIsRead
<1> SUFFICES ASSUME WrittenInv, object \in Packets, NEW i \in DOMAIN items[object],
                    begun.at = items[object][i].at, begun.type = items[object][i].type
             PROVE  /\ pc # "threw"
                    /\ (pc = "extracting" /\ todo = <<>>) =>
                           got = items[object][i].leaves /\ buffer_read_index[object] = items[object][i].end
  BY DEF WrittenIsRead
<1>1. BufferInv /\ Written /\ Reading
  BY DEF WrittenInv
<1> DEFINE item == items[object][i]
           x == Extraction(todo, buffer_read_index[object], got)
           z == Extraction(<<>>, item.end, item.leaves)
<1>2. i \in 1..Len(items[object]) /\ item \in Item
  BY <1>1, LenProperties, ElementOfSeq DEF Written
<1>3. pc \in {"extracting", "threw"} => pc = "extracting" /\ Reaches(buffer[object], x, z)
  BY <1>1, <1>2 DEF Reading
<1>4. ASSUME pc = "extracting", todo = <<>> PROVE got = item.leaves /\ buffer_read_index[object] = item.end
  <2>1. x.todo = <<>> /\ x.at = buffer_read_index[object] /\ x.got = got
        /\ z.at = item.end /\ z.got = item.leaves
    BY <1>4 DEF Extraction
  <2>2. Reaches(buffer[object], x, z)
    BY <1>3, <1>4
  <2> HIDE DEF x, z, item
  <2>3. \A y : ~Steps(buffer[object], x, y)
    BY <2>1 DEF Steps
  <2>4. z = x
    BY <2>2, <2>3, ReachesNoMore
  <2> QED  BY <2>1, <2>4
<1> QED  BY <1>3, <1>4

\* What was packed is what is extracted, in the order in which it was packed (README.md:84):
\* whatever its type, the byte orders of the hosts, and what was extracted, thrown, sent and
\* packed in between, an extraction that begins where a value was packed, with its type, does
\* not throw, assigns the value and ends where the value does.
THEOREM WrittenAlwaysRead == ASSUME WellTyped PROVE Spec /\ []BuffersFit => []WrittenIsRead
<1>1. Init /\ BuffersFit => WrittenInv
  BY BufferInit, WrittenInit DEF WrittenInv
<1>2. WrittenInv /\ BuffersFit /\ [Next]_vars => WrittenInv'
  BY WrittenNext
<1> QED  BY <1>1, <1>2, WrittenReads, PTL DEF Spec
====================================================================================
