-------------------------- MODULE KeyShares_proofs --------------------------
(***************************************************************************)
(* Proofs about KeyShares and the secret sharing below it, for any number  *)
(* of peers, any prime, every polynomial and every order of shares: any    *)
(* threshold of them interpolates to the secret, fewer fit every secret    *)
(* with exactly one polynomial, and what the peers rebuild is the key.     *)
(***************************************************************************)
EXTENDS KeyShares, SumTheorems, SequenceTheorems

-----------------------------------------------------------------------------
(* Arithmetic modulo P.                                                    *)

Congruent(a, b) == \E k \in Int : a = b + k * P

LEMMA PrimeType == P \in Nat /\ P > 2 /\ N \in Nat /\ N < P
BY KeyAssumption

LEMMA CongruentRefl == ASSUME NEW a \in Int PROVE Congruent(a, a)
<1>1. a = a + 0 * P /\ 0 \in Int
  BY PrimeType
<1>2. QED BY <1>1 DEF Congruent

LEMMA CongruentSym ==
  ASSUME NEW a \in Int, NEW b \in Int, Congruent(a, b) PROVE Congruent(b, a)
<1>1. PICK k \in Int : a = b + k * P
  BY DEF Congruent
<1>2. b = a + (-k) * P /\ -k \in Int
  BY <1>1, PrimeType
<1>3. QED BY <1>2 DEF Congruent

LEMMA CongruentTrans ==
  ASSUME NEW a \in Int, NEW b \in Int, NEW c \in Int, Congruent(a, b), Congruent(b, c)
  PROVE  Congruent(a, c)
<1>1. PICK k \in Int : a = b + k * P
  BY DEF Congruent
<1>2. PICK l \in Int : b = c + l * P
  BY DEF Congruent
<1>3. a = c + (k + l) * P /\ k + l \in Int
  BY <1>1, <1>2, PrimeType
<1>4. QED BY <1>3 DEF Congruent

LEMMA CongruentAdd ==
  ASSUME NEW a \in Int, NEW b \in Int, NEW c \in Int, NEW d \in Int,
         Congruent(a, b), Congruent(c, d)
  PROVE  Congruent(a + c, b + d)
<1>1. PICK k \in Int : a = b + k * P
  BY DEF Congruent
<1>2. PICK l \in Int : c = d + l * P
  BY DEF Congruent
<1>3. a + c = (b + d) + (k + l) * P /\ k + l \in Int
  BY <1>1, <1>2, PrimeType
<1>4. QED BY <1>3 DEF Congruent

LEMMA CongruentMul ==
  ASSUME NEW a \in Int, NEW b \in Int, NEW c \in Int, NEW d \in Int,
         Congruent(a, b), Congruent(c, d)
  PROVE  Congruent(a * c, b * d)
<1>1. PICK k \in Int : a = b + k * P
  BY DEF Congruent
<1>2. PICK l \in Int : c = d + l * P
  BY DEF Congruent
<1>3. k * d + b * l + k * l * P \in Int
  BY PrimeType
<1>4. ASSUME NEW p \in Int, a = b + k * p, c = d + l * p
      PROVE  a * c = b * d + (k * d + b * l + k * l * p) * p
  BY <1>4
<1>5. a * c = b * d + (k * d + b * l + k * l * P) * P
  BY <1>1, <1>2, <1>4, PrimeType
<1>6. QED BY <1>3, <1>5 DEF Congruent

\* Congruent numbers are those with the same remainder.
LEMMA ModCongruent == ASSUME NEW a \in Int PROVE a % P \in Field /\ Congruent(a % P, a)
<1>1. a = P * (a \div P) + (a % P) /\ a % P \in 0..(P - 1) /\ a \div P \in Int
  BY PrimeType
<1>2. a % P = a + (-(a \div P)) * P /\ -(a \div P) \in Int
  BY <1>1, PrimeType
<1>3. QED BY <1>1, <1>2 DEF Congruent, Field

LEMMA FieldCongruent ==
  ASSUME NEW a \in Field, NEW b \in Field, Congruent(a, b) PROVE a = b
<1>1. PICK k \in Int : a = b + k * P
  BY DEF Congruent
<1>2. ASSUME NEW p \in Nat, a = b + k * p, a < p, b < p, a >= 0, b >= 0, a \in Int, b \in Int
      PROVE  k = 0
  <2>1. CASE k >= 1
    <3>1. k * p >= p
      BY <2>1, <1>2
    <3>2. QED BY <3>1, <1>2
  <2>2. CASE k <= -1
    <3>1. k * p <= -p
      BY <2>2, <1>2
    <3>2. QED BY <3>1, <1>2
  <2>3. QED BY <2>1, <2>2
<1>3. a \in Int /\ b \in Int /\ a >= 0 /\ b >= 0 /\ a < P /\ b < P
  BY PrimeType DEF Field
<1>4. k = 0
  BY <1>1, <1>2, <1>3, PrimeType
<1>5. QED BY <1>1, <1>3, <1>4, PrimeType

LEMMA CongruentMod ==
  ASSUME NEW a \in Int, NEW b \in Int PROVE Congruent(a, b) <=> a % P = b % P
<1>1. /\ a % P \in Field /\ b % P \in Field /\ a % P \in Int /\ b % P \in Int
      /\ Congruent(a % P, a) /\ Congruent(b % P, b)
  <2>1. /\ a % P \in Field /\ b % P \in Field
        /\ Congruent(a % P, a) /\ Congruent(b % P, b)
    BY ModCongruent
  <2>2. \A x \in Field : x \in Int
    BY DEF Field
  <2>3. QED BY <2>1, <2>2
<1>2. Congruent(a, a % P) /\ Congruent(b, b % P)
  BY <1>1, CongruentSym
<1>3. ASSUME Congruent(a, b) PROVE a % P = b % P
  <2>1. Congruent(a % P, b)
    BY <1>1, <1>3, CongruentTrans
  <2>2. Congruent(a % P, b % P)
    BY <1>1, <1>2, <2>1, CongruentTrans
  <2>3. QED BY <1>1, <2>2, FieldCongruent
<1>4. ASSUME a % P = b % P PROVE Congruent(a, b)
  BY <1>1, <1>2, <1>4, CongruentTrans
<1>5. QED BY <1>3, <1>4

LEMMA FieldType == \A a \in Field : a \in Int /\ a % P = a
BY PrimeType DEF Field

LEMMA OneMod == 1 \in Field /\ 0 \in Field /\ 1 % P = 1 /\ 0 % P = 0
BY PrimeType DEF Field

LEMMA InvertibleCongruent ==
  ASSUME NEW a \in Int, NEW b \in Int, Congruent(a, b), Invertible(a) PROVE Invertible(b)
BY CongruentMod DEF Invertible

\* P is a prime: a number that it does not divide has an inverse.  The least positive
\* combination of a and P divides P, so it is 1.
LEMMA InverseExists ==
  ASSUME NEW a \in Int, Invertible(a)
  PROVE  \E b \in Field : (a * b) % P = 1
<1> DEFINE R == {n \in Nat : n # 0 /\ \E m, k \in Int : n = a * m + k * P}
<1>1. a % P \in R /\ a % P < P
  <2>1. a % P \in Nat /\ a % P # 0 /\ a % P < P
    BY PrimeType DEF Invertible
  <2>2. Congruent(a % P, a)
    BY ModCongruent
  <2>3. PICK k \in Int : a % P = a + k * P
    BY <2>2 DEF Congruent
  <2>4. a % P = a * 1 + k * P
    BY <2>3
  <2>5. \E m, l \in Int : a % P = a * m + l * P
    <3>1. 1 \in Int
      OBVIOUS
    <3>2. QED BY <2>4, <3>1
  <2>6. QED BY <2>1, <2>5
<1>2. PICK r \in R : \A n \in R : r <= n
  <2>1. R \in SUBSET Nat /\ R # {}
    BY <1>1
  <2> HIDE DEF R
  <2>2. QED BY <2>1, LeastNatural
<1>3. r \in Nat /\ r # 0 /\ r < P
  BY <1>1, <1>2, PrimeType
<1>4. PICK m \in Int, k \in Int : r = a * m + k * P
  BY <1>2
<1>5. P % r = 0
  <2>1. P = r * (P \div r) + (P % r) /\ P % r \in Nat /\ P % r < r /\ P \div r \in Int
    BY <1>3, PrimeType
  <2>2. PICK q \in Int, s \in Nat : q = P \div r /\ s = P % r
    BY <2>1
  <2>3. P = r * q + s /\ s < r
    BY <2>1, <2>2
  <2>4. ASSUME NEW p \in Int, p = r * q + s, r = a * m + k * p
        PROVE  s = a * (-(q * m)) + (1 - k * q) * p
    <3>1. r * q = q * (a * m) + q * (k * p)
      BY <2>4
    <3>2. s = p - q * (a * m) - q * (k * p)
      BY <2>4, <3>1
    <3>3. q * (a * m) = -(a * (-(q * m))) /\ q * (k * p) = (k * q) * p
      OBVIOUS
    <3>4. (1 - k * q) * p = p - (k * q) * p
      OBVIOUS
    <3>5. QED BY <3>2, <3>3, <3>4
  <2>5. s = a * (-(q * m)) + (1 - k * q) * P
    BY <1>4, <2>3, <2>4, PrimeType
  <2>6. -(q * m) \in Int /\ 1 - k * q \in Int
    OBVIOUS
  <2>7. CASE s # 0
    <3>1. s \in R
      BY <2>5, <2>6, <2>7
    <3> HIDE DEF R
    <3>2. QED BY <1>2, <1>3, <2>3, <3>1
  <2>8. QED BY <2>2, <2>7
<1>6. r = 1
  BY <1>3, <1>5, KeyAssumption
<1>7. PICK b \in Field : b = m % P
  BY ModCongruent
<1>8. Congruent(b, m)
  BY <1>7, ModCongruent
<1>9. Congruent(a * b, a * m)
  BY <1>8, CongruentRefl, CongruentMul, FieldType
<1>10. a * b \in Int /\ a * m \in Int
  BY FieldType
<1>11. Congruent(1, a * m)
  BY <1>4, <1>6, <1>10 DEF Congruent
<1>12. Congruent(a * b, 1)
  BY <1>9, <1>10, <1>11, CongruentSym, CongruentTrans
<1>13. (a * b) % P = 1
  BY <1>10, <1>12, CongruentMod, OneMod
<1>14. QED BY <1>13

LEMMA InverseWorks ==
  ASSUME NEW a \in Int, Invertible(a)
  PROVE  /\ ModInverse(a) \in Field /\ ModInverse(a) \in Int
         /\ Congruent(a * ModInverse(a), 1)
<1>1. ModInverse(a) \in Field /\ (a * ModInverse(a)) % P = 1
  BY InverseExists DEF ModInverse
<1>2. PICK b \in Int : b = ModInverse(a)
  BY <1>1, FieldType
<1>3. a * b \in Int /\ (a * b) % P = 1
  BY <1>1, <1>2
<1>4. Congruent(a * b, 1)
  BY <1>3, CongruentMod, OneMod
<1>5. QED BY <1>1, <1>2, <1>4

LEMMA CongruentCancel ==
  ASSUME NEW a \in Int, NEW x \in Int, NEW y \in Int, Invertible(a), Congruent(a * x, a * y)
  PROVE  Congruent(x, y)
<1>1. PICK b \in Int : b = ModInverse(a) /\ Congruent(a * b, 1)
  BY InverseWorks
<1>2. ASSUME NEW z \in Int PROVE Congruent(b * (a * z), z)
  <2>1. Congruent((a * b) * z, 1 * z)
    BY <1>1, CongruentMul, CongruentRefl
  <2>2. (a * b) * z = b * (a * z) /\ 1 * z = z
    OBVIOUS
  <2>3. QED BY <2>1, <2>2
<1>3. a * x \in Int /\ a * y \in Int /\ b * (a * x) \in Int /\ b * (a * y) \in Int
  OBVIOUS
<1>4. Congruent(b * (a * x), b * (a * y))
  BY <1>3, CongruentMul, CongruentRefl
<1>5. Congruent(x, b * (a * x))
  BY <1>2, <1>3, CongruentSym
<1>6. Congruent(x, b * (a * y))
  BY <1>3, <1>4, <1>5, CongruentTrans
<1>7. QED BY <1>2, <1>3, <1>6, CongruentTrans

LEMMA ZeroProduct == ASSUME NEW a \in Int PROVE a * 0 = 0
OBVIOUS

LEMMA InvertibleMul ==
  ASSUME NEW a \in Int, NEW b \in Int, Invertible(a), Invertible(b)
  PROVE  Invertible(a * b)
<1> SUFFICES ASSUME ~Invertible(a * b) PROVE FALSE
  OBVIOUS
<1>1. a * b \in Int
  OBVIOUS
<1>2. Congruent(a * b, 0)
  BY <1>1, CongruentMod, OneMod DEF Invertible
<1>3. Congruent(a * b, a * 0)
  BY <1>2, ZeroProduct
<1>4. Congruent(b, 0)
  BY <1>3, CongruentCancel
<1>5. QED BY <1>4, CongruentMod, OneMod DEF Invertible

-----------------------------------------------------------------------------
(* Sums and products modulo P.                                             *)

\* Terms may be reduced before they are added.
LEMMA SumCongruent ==
  ASSUME NEW D, IsFiniteSet(D), NEW f \in [D -> Int], NEW g \in [D -> Int],
         \A x \in D : Congruent(f[x], g[x])
  PROVE  Congruent(SumFunctionOnSet(f, D), SumFunctionOnSet(g, D))
<1> DEFINE Q == {T \in SUBSET D : Congruent(SumFunctionOnSet(f, T), SumFunctionOnSet(g, T))}
<1>1. {} \in Q
  BY SumEmpty, CongruentRefl
<1>2. ASSUME NEW T \in Q, NEW x \in D, x \notin T PROVE T \cup {x} \in Q
  <2>1. IsFiniteSet(T) /\ T \in SUBSET D
    BY FS_Subset
  <2>2. PICK sf \in Int, sg \in Int :
          sf = SumFunctionOnSet(f, T) /\ sg = SumFunctionOnSet(g, T)
    BY <2>1, SumType
  <2>3. SumFunctionOnSet(f, T \cup {x}) = f[x] + sf
    BY <1>2, <2>1, <2>2, SumInsert
  <2>4. SumFunctionOnSet(g, T \cup {x}) = g[x] + sg
    BY <1>2, <2>1, <2>2, SumInsert
  <2>5. Congruent(sf, sg) /\ Congruent(f[x], g[x]) /\ f[x] \in Int /\ g[x] \in Int
    BY <2>2
  <2>6. Congruent(f[x] + sf, g[x] + sg)
    BY <2>5, CongruentAdd
  <2>7. QED BY <2>1, <2>3, <2>4, <2>6
<1> HIDE DEF Q
<1>3. Q \in SUBSET SUBSET D
  BY DEF Q
<1>4. D \in Q
  BY <1>1, <1>2, <1>3, FiniteSetInduction
<1>5. QED BY <1>4 DEF Q

\* A factor that all terms have can be taken out.
LEMMA SumScale ==
  ASSUME NEW D, IsFiniteSet(D), NEW f \in [D -> Int], NEW c \in Int
  PROVE  SumFunctionOnSet([x \in D |-> c * f[x]], D) = c * SumFunctionOnSet(f, D)
<1>1. PICK g \in [D -> Int] : g = [x \in D |-> c * f[x]]
  <2>1. \A x \in D : c * f[x] \in Int
    OBVIOUS
  <2>2. [x \in D |-> c * f[x]] \in [D -> Int]
    BY <2>1
  <2>3. QED BY <2>2
<1> DEFINE Q == {T \in SUBSET D : SumFunctionOnSet(g, T) = c * SumFunctionOnSet(f, T)}
<1>2. {} \in Q
  BY SumEmpty
<1>3. ASSUME NEW T \in Q, NEW x \in D, x \notin T PROVE T \cup {x} \in Q
  <2>1. IsFiniteSet(T) /\ T \in SUBSET D
    BY FS_Subset
  <2>2. PICK sf \in Int : sf = SumFunctionOnSet(f, T)
    BY <2>1, SumType
  <2>3. SumFunctionOnSet(f, T \cup {x}) = f[x] + sf
    BY <1>3, <2>1, <2>2, SumInsert
  <2>4. SumFunctionOnSet(g, T \cup {x}) = g[x] + c * sf
    BY <1>3, <2>1, <2>2, SumInsert
  <2>5. PICK v \in Int : v = f[x] /\ g[x] = c * v
    BY <1>1
  <2>6. c * (v + sf) = c * v + c * sf
    OBVIOUS
  <2>7. QED BY <2>1, <2>3, <2>4, <2>5, <2>6
<1> HIDE DEF Q
<1>4. Q \in SUBSET SUBSET D
  BY DEF Q
<1>5. D \in Q
  BY <1>2, <1>3, <1>4, FiniteSetInduction
<1>6. QED BY <1>1, <1>5 DEF Q

\* A product of invertible factors is invertible.
LEMMA ProductInvertible ==
  ASSUME NEW D, NEW S \in SUBSET D, IsFiniteSet(S), NEW f \in [D -> Int],
         \A x \in S : Invertible(f[x])
  PROVE  Invertible(ProductOnSet(f, S))
<1> DEFINE Q == {T \in SUBSET S : Invertible(ProductOnSet(f, T))}
<1>1. {} \in Q
  BY ProductEmpty, OneMod DEF Invertible
<1>2. ASSUME NEW T \in Q, NEW x \in S, x \notin T PROVE T \cup {x} \in Q
  <2>1. IsFiniteSet(T) /\ T \in SUBSET D /\ x \in D
    BY FS_Subset
  <2>2. PICK p \in Int : p = ProductOnSet(f, T)
    BY <2>1, ProductType
  <2>3. ProductOnSet(f, T \cup {x}) = f[x] * p
    BY <1>2, <2>1, <2>2, ProductInsert
  <2>4. Invertible(f[x] * p)
    BY <2>1, <2>2, InvertibleMul
  <2>5. QED BY <2>3, <2>4
<1> HIDE DEF Q
<1>3. Q \in SUBSET SUBSET S
  BY DEF Q
<1>4. S \in Q
  BY <1>1, <1>2, <1>3, FiniteSetInduction
<1>5. QED BY <1>4 DEF Q

\* Power: x multiplied by itself i times.
LEMMA PowerStep ==
  ASSUME NEW x \in Int
  PROVE  /\ Power(x, 0) = 1
         /\ \A i \in Nat : Power(x, i) \in Int /\ Power(x, i + 1) = x * Power(x, i)
<1>1. ASSUME NEW i \in Nat PROVE Power(x, i) = ProductOnSet([j \in 1..i |-> x], 1..i)
  <2>1. DOMAIN [j \in 1..i |-> x] = 1..i
    OBVIOUS
  <2>2. QED BY <2>1 DEF Power, Product, FoldFunction, ProductOnSet
<1>2. Power(x, 0) = 1
  <2>1. 1..0 = {}
    OBVIOUS
  <2>2. QED BY <1>1, <2>1, ProductEmpty
<1>3. ASSUME NEW i \in Nat PROVE Power(x, i) \in Int /\ Power(x, i + 1) = x * Power(x, i)
  <2>1. PICK f, g : f = [j \in 1..i |-> x] /\ g = [j \in 1..(i + 1) |-> x]
    OBVIOUS
  <2>2. /\ f \in [1..i -> Int] /\ g \in [1..(i + 1) -> Int]
        /\ 1..i \in SUBSET (1..i) /\ 1..i \in SUBSET (1..(i + 1)) /\ IsFiniteSet(1..i)
        /\ 1..(i + 1) = 1..i \cup {i + 1} /\ i + 1 \notin 1..i /\ i + 1 \in 1..(i + 1)
        /\ g[i + 1] = x /\ \A j \in 1..i : f[j] = g[j]
    <3>1. /\ f \in [1..i -> Int] /\ g \in [1..(i + 1) -> Int]
          /\ \A j \in 1..i : f[j] = x
          /\ \A j \in 1..(i + 1) : g[j] = x
      BY <2>1
    <3>2. /\ 1..i \in SUBSET (1..i) /\ 1..i \in SUBSET (1..(i + 1))
          /\ 1..(i + 1) = 1..i \cup {i + 1} /\ i + 1 \notin 1..i /\ i + 1 \in 1..(i + 1)
      OBVIOUS
    <3>3. IsFiniteSet(1..i)
      BY FS_Interval
    <3>4. QED BY <3>1, <3>2, <3>3
  <2>3. ProductOnSet(g, 1..i \cup {i + 1}) = g[i + 1] * ProductOnSet(g, 1..i)
    BY <2>2, ProductInsert
  <2>4. ProductOnSet(f, 1..i) = ProductOnSet(g, 1..i)
    <3>1. PICK A, B : A = 1..i /\ B = 1..(i + 1)
      OBVIOUS
    <3>2. /\ f \in [A -> Int] /\ g \in [B -> Int] /\ A \in SUBSET A /\ A \in SUBSET B
          /\ IsFiniteSet(A) /\ \A j \in A : f[j] = g[j]
      BY <2>2, <3>1
    <3>3. ProductOnSet(f, A) = ProductOnSet(g, A)
      BY ONLY <3>2, ProductSame
    <3>4. QED BY <3>1, <3>3
  <2>5. ProductOnSet(f, 1..i) \in Int
    BY <2>2, ProductType
  <2>6. i + 1 \in Nat
    OBVIOUS
  <2>7. Power(x, i) = ProductOnSet(f, 1..i) /\ Power(x, i + 1) = ProductOnSet(g, 1..(i + 1))
    BY <1>1, <2>1, <2>6
  <2>8. QED BY <2>2, <2>3, <2>4, <2>5, <2>7
<1>4. QED BY <1>2, <1>3

-----------------------------------------------------------------------------
(* The weights of Lagrange's interpolation at 0: D are the positions of    *)
(* the shares, pt their numbers and T some of the positions.               *)

Points(D) == {pt \in [D -> 1..(P - 1)] : IsInjective(pt)}

NumFactors(pt) == [j \in DOMAIN pt |-> P - pt[j]]
DenFactors(pt, i) == [j \in DOMAIN pt |-> (pt[i] - pt[j]) % P]

NumOn(pt, T, i) == ProductOnSet(NumFactors(pt), T \ {i})
DenOn(pt, T, i) == ProductOnSet(DenFactors(pt, i), T \ {i})
Weight(pt, T, i) == NumOn(pt, T, i) * ModInverse(DenOn(pt, T, i))

\* Numbers of shares differ by less than P.
LEMMA DistinctPoints ==
  ASSUME NEW a \in 1..(P - 1), NEW b \in 1..(P - 1), a # b
  PROVE  Invertible(a - b) /\ Invertible((a - b) % P) /\ (a - b) % P \in Int
<1>1. a \in Field /\ b \in Field /\ a \in Int /\ b \in Int
  BY PrimeType DEF Field
<1>2. PICK d \in Int : d = a - b
  BY <1>1
<1>3. ASSUME ~Invertible(d) PROVE FALSE
  <2>1. Congruent(d, 0)
    BY <1>3, CongruentMod, OneMod DEF Invertible
  <2>2. Congruent(d + b, 0 + b)
    BY <1>1, <2>1, CongruentAdd, CongruentRefl
  <2>3. d + b = a /\ 0 + b = b
    BY <1>1, <1>2
  <2>4. QED BY <1>1, <2>2, <2>3, FieldCongruent
<1>4. Invertible(d)
  BY <1>3
<1>5. d % P \in Int /\ (d % P) % P = d % P
  BY ModCongruent, FieldType
<1>6. QED BY <1>2, <1>4, <1>5 DEF Invertible

LEMMA PointType ==
  ASSUME NEW D, NEW pt \in Points(D)
  PROVE  /\ DOMAIN pt = D /\ pt \in [D -> 1..(P - 1)]
         /\ \A i \in D : pt[i] \in 1..(P - 1) /\ pt[i] \in Int /\ pt[i] \in Nat
         /\ \A i, j \in D : i # j => pt[i] # pt[j]
<1>1. pt \in [D -> 1..(P - 1)] /\ IsInjective(pt)
  BY DEF Points
<1>2. DOMAIN pt = D
  BY <1>1
<1>3. \A i \in D : pt[i] \in 1..(P - 1)
  BY <1>1
<1>4. \A i \in D : pt[i] \in Int /\ pt[i] \in Nat
  BY <1>3, PrimeType
<1>5. QED BY <1>1, <1>2, <1>3, <1>4 DEF IsInjective

LEMMA FactorsType ==
  ASSUME NEW D, NEW pt \in Points(D), NEW i \in D
  PROVE  /\ NumFactors(pt) \in [D -> Int] /\ DenFactors(pt, i) \in [D -> Int]
         /\ \A j \in D : NumFactors(pt)[j] = P - pt[j] /\ DenFactors(pt, i)[j] = (pt[i] - pt[j]) % P
<1>1. \A j \in D : P - pt[j] \in Int /\ pt[i] - pt[j] \in Int
  BY PointType, PrimeType
<1>2. \A j \in D : (pt[i] - pt[j]) % P \in Int
  BY <1>1, ModCongruent, FieldType
<1>3. DOMAIN pt = D
  BY PointType
<1>4. QED BY <1>1, <1>2, <1>3 DEF NumFactors, DenFactors

LEMMA WeightType ==
  ASSUME NEW D, IsFiniteSet(D), NEW pt \in Points(D), NEW T \in SUBSET D, NEW i \in D
  PROVE  /\ NumOn(pt, T, i) \in Int
         /\ DenOn(pt, T, i) \in Int /\ Invertible(DenOn(pt, T, i))
         /\ Weight(pt, T, i) \in Int
         /\ Congruent(Weight(pt, T, i) * DenOn(pt, T, i), NumOn(pt, T, i))
<1>1. T \ {i} \in SUBSET D /\ IsFiniteSet(T \ {i}) /\ DOMAIN pt = D
  BY FS_Subset, PointType
<1>2. PICK fn \in [D -> Int] : fn = NumFactors(pt)
  BY FactorsType
<1>3. PICK fd \in [D -> Int] : fd = DenFactors(pt, i)
  BY FactorsType
<1>4. PICK num \in Int : num = NumOn(pt, T, i)
  BY <1>1, <1>2, ProductType DEF NumOn
<1>5. PICK den \in Int : den = DenOn(pt, T, i)
  BY <1>1, <1>3, ProductType DEF DenOn
<1>6. Invertible(den)
  <2>1. ASSUME NEW j \in T \ {i} PROVE Invertible(fd[j])
    <3>1. pt[i] \in 1..(P - 1) /\ pt[j] \in 1..(P - 1) /\ pt[i] # pt[j]
      BY PointType
    <3>2. Invertible((pt[i] - pt[j]) % P)
      BY <3>1, DistinctPoints
    <3>3. fd[j] = (pt[i] - pt[j]) % P
      BY <1>3, FactorsType
    <3>4. QED BY <3>2, <3>3
  <2>2. Invertible(ProductOnSet(fd, T \ {i}))
    BY <1>1, <2>1, ProductInvertible
  <2>3. QED BY <1>3, <1>5, <2>2 DEF DenOn
<1>7. PICK inv \in Int : inv = ModInverse(den) /\ Congruent(den * inv, 1)
  BY <1>6, InverseWorks
<1>8. Weight(pt, T, i) = num * inv
  BY <1>4, <1>5, <1>7 DEF Weight
<1>9. Congruent((num * inv) * den, num)
  <2>1. Congruent(num * (den * inv), num * 1)
    BY <1>7, CongruentMul, CongruentRefl
  <2>2. (num * inv) * den = num * (den * inv) /\ num * 1 = num
    OBVIOUS
  <2>3. QED BY <2>1, <2>2
<1>10. num * inv \in Int
  OBVIOUS
<1>11. QED BY <1>4, <1>5, <1>6, <1>8, <1>9, <1>10

LEMMA FactorOut ==
  ASSUME NEW D, IsFiniteSet(D), NEW pt \in Points(D), NEW T \in SUBSET D,
         NEW a \in T, NEW i \in T, a # i
  PROVE  /\ NumOn(pt, T, i) = (P - pt[a]) * NumOn(pt, T \ {a}, i)
         /\ DenOn(pt, T, i) = ((pt[i] - pt[a]) % P) * DenOn(pt, T \ {a}, i)
<1>1. T \ {i} \in SUBSET D /\ IsFiniteSet(T \ {i}) /\ a \in T \ {i}
  BY FS_Subset
<1>2. (T \ {i}) \ {a} = (T \ {a}) \ {i}
  OBVIOUS
<1>3. ASSUME NEW f \in [D -> Int]
      PROVE  ProductOnSet(f, T \ {i}) = f[a] * ProductOnSet(f, (T \ {a}) \ {i})
  <2>1. ASSUME NEW S \in SUBSET D, IsFiniteSet(S), NEW x \in S
        PROVE  ProductOnSet(f, S) = f[x] * ProductOnSet(f, S \ {x})
    BY <2>1, ProductRemove
  <2>2. ProductOnSet(f, T \ {i}) = f[a] * ProductOnSet(f, (T \ {i}) \ {a})
    BY <1>1, <2>1
  <2>3. QED BY <1>2, <2>2
<1>4. NumFactors(pt) \in [D -> Int] /\ NumFactors(pt)[a] = P - pt[a]
  BY FactorsType
<1>5. DenFactors(pt, i) \in [D -> Int] /\ DenFactors(pt, i)[a] = (pt[i] - pt[a]) % P
  BY FactorsType
<1>6. QED BY <1>3, <1>4, <1>5 DEF NumOn, DenOn

\* One share less: its factor goes.
LEMMA WeightStep ==
  ASSUME NEW D, IsFiniteSet(D), NEW pt \in Points(D), NEW T \in SUBSET D,
         NEW a \in T, NEW i \in T, a # i
  PROVE  Congruent(Weight(pt, T, i) * (pt[i] - pt[a]), (-pt[a]) * Weight(pt, T \ {a}, i))
<1>0. /\ NumOn(pt, T, i) = (P - pt[a]) * NumOn(pt, T \ {a}, i)
      /\ DenOn(pt, T, i) = ((pt[i] - pt[a]) % P) * DenOn(pt, T \ {a}, i)
  BY FactorOut
<1>1. /\ T \ {i} \in SUBSET D /\ IsFiniteSet(T \ {i}) /\ DOMAIN pt = D /\ a \in T \ {i}
      /\ (T \ {i}) \ {a} = (T \ {a}) \ {i} /\ T \ {a} \in SUBSET D /\ a \in D /\ i \in D
  BY FS_Subset, PointType
<1>2. PICK pa \in Int, pi \in Int : pa = pt[a] /\ pi = pt[i]
  BY <1>1, PointType
<1>3. PICK num \in Int, den \in Int, w \in Int :
        /\ num = NumOn(pt, T, i) /\ den = DenOn(pt, T, i) /\ w = Weight(pt, T, i)
        /\ Congruent(w * den, num)
  BY <1>1, WeightType
<1>4. PICK n \in Int, d \in Int, v \in Int :
        /\ n = NumOn(pt, T \ {a}, i) /\ d = DenOn(pt, T \ {a}, i) /\ v = Weight(pt, T \ {a}, i)
        /\ Invertible(d) /\ Congruent(v * d, n)
  BY <1>1, WeightType
<1>5. num = (P - pa) * n /\ den = ((pi - pa) % P) * d
  BY ONLY <1>0, <1>2, <1>3, <1>4
<1>6. den = ((pi - pa) % P) * d
  BY <1>5
<1>7. PICK e \in Int : e = (pi - pa) % P /\ Congruent(pi - pa, e)
  <2>1. pi - pa \in Int
    OBVIOUS
  <2>2. (pi - pa) % P \in Int /\ Congruent((pi - pa) % P, pi - pa)
    BY <2>1, ModCongruent, FieldType
  <2>3. QED BY <2>1, <2>2, CongruentSym
<1>8. Congruent(P - pa, -pa)
  <2>1. P - pa = (-pa) + 1 * P
    BY PrimeType
  <2>2. QED BY <2>1 DEF Congruent
<1>9. PICK q \in Int : q = P - pa
  BY PrimeType
\* Both sides, multiplied by d.
<1>10. Congruent((w * (pi - pa)) * d, (w * e) * d)
  <2>1. pi - pa \in Int /\ w * (pi - pa) \in Int /\ w * e \in Int
    OBVIOUS
  <2>2. Congruent(w * (pi - pa), w * e)
    BY <1>7, <2>1, CongruentMul, CongruentRefl
  <2>3. QED BY <2>1, <2>2, CongruentMul, CongruentRefl
<1>11. Congruent((w * e) * d, q * n)
  <2>1. w * den = (w * e) * d
    BY <1>6, <1>7
  <2>2. QED BY <1>3, <1>5, <1>9, <2>1
<1>12. Congruent(q * n, ((-pa) * v) * d)
  <2>1. Congruent(n, v * d)
    BY <1>4, CongruentSym
  <2>2. Congruent(q * n, (-pa) * (v * d))
    BY <1>8, <1>9, <2>1, CongruentMul
  <2>3. (-pa) * (v * d) = ((-pa) * v) * d
    OBVIOUS
  <2>4. QED BY <2>2, <2>3
<1>13. /\ w * (pi - pa) \in Int /\ (-pa) * v \in Int /\ (w * (pi - pa)) * d \in Int
       /\ (w * e) * d \in Int /\ q * n \in Int /\ ((-pa) * v) * d \in Int
  OBVIOUS
<1>14. Congruent((w * (pi - pa)) * d, ((-pa) * v) * d)
  BY <1>10, <1>11, <1>12, <1>13, CongruentTrans
<1>15. PICK x \in Int, y \in Int : x = w * (pi - pa) /\ y = (-pa) * v
  BY <1>13
<1>16. x * d = d * x /\ y * d = d * y
  OBVIOUS
<1>17. Congruent(x, y)
  BY <1>4, <1>14, <1>15, <1>16, CongruentCancel
<1>18. QED BY <1>2, <1>3, <1>4, <1>15, <1>17

\* A sum of terms that are c times others and a rest.
LEMMA SumLinear ==
  ASSUME NEW T, IsFiniteSet(T), NEW c \in Int,
         NEW f \in [T -> Int], NEW h \in [T -> Int], NEW g \in [T -> Int],
         \A i \in T : g[i] = c * f[i] + h[i]
  PROVE  SumFunctionOnSet(g, T) = c * SumFunctionOnSet(f, T) + SumFunctionOnSet(h, T)
<1>1. PICK e \in [T -> Int] : e = [i \in T |-> c * f[i]]
  <2>1. \A i \in T : c * f[i] \in Int
    OBVIOUS
  <2>2. [i \in T |-> c * f[i]] \in [T -> Int]
    BY <2>1
  <2>3. QED BY <2>2
<1>2. SumFunctionOnSet(e, T) = c * SumFunctionOnSet(f, T)
  BY <1>1, SumScale
<1>3. \A i \in T : g[i] = e[i] + h[i]
  BY <1>1
<1>4. SumFunctionOnSet(g, T) = SumFunctionOnSet(e, T) + SumFunctionOnSet(h, T)
  BY <1>3, SumAdd
<1>5. QED BY <1>2, <1>4

\* A term that is zero may be left out, the others reduced.
LEMMA SumDrop ==
  ASSUME NEW T, IsFiniteSet(T), NEW a \in T, NEW h \in [T -> Int], h[a] = 0,
         NEW v, v \in [T \ {a} -> Int], \A i \in T \ {a} : Congruent(h[i], v[i])
  PROVE  Congruent(SumFunctionOnSet(h, T), SumFunctionOnSet(v, T \ {a}))
<1>0. ASSUME NEW S \in SUBSET T, IsFiniteSet(S), a \in S
      PROVE  SumFunctionOnSet(h, S) = h[a] + SumFunctionOnSet(h, S \ {a})
  BY ONLY <1>0, SumRemove
<1>1. PICK U : U = T \ {a}
  OBVIOUS
<1>2. U \in SUBSET T /\ U \in SUBSET U /\ T \in SUBSET T /\ IsFiniteSet(U)
  BY <1>1, FS_Subset
<1>3. PICK r : r = [i \in U |-> h[i]]
  OBVIOUS
<1>4. r \in [U -> Int] /\ \A i \in U : h[i] = r[i]
  BY <1>2, <1>3
<1>5. SumFunctionOnSet(h, T) = h[a] + SumFunctionOnSet(h, T \ {a})
  BY <1>0, <1>2
<1>6. SumFunctionOnSet(h, U) = SumFunctionOnSet(r, U)
  BY <1>2, <1>4, SumSame
<1>7. SumFunctionOnSet(r, U) \in Int
  BY <1>2, <1>4, SumType
<1>8. Congruent(SumFunctionOnSet(r, U), SumFunctionOnSet(v, U))
  <2>1. v \in [U -> Int] /\ \A i \in U : Congruent(r[i], v[i])
    BY <1>1, <1>4
  <2>2. QED BY <1>2, <1>4, <2>1, SumCongruent
<1>9. SumFunctionOnSet(h, T) = SumFunctionOnSet(r, U)
  BY <1>1, <1>5, <1>6, <1>7
<1>10. QED BY <1>1, <1>8, <1>9


\* The moments of the weights: the sum of w_i * x_i^k over the positions T.
Terms(pt, T, k) == [i \in T |-> Weight(pt, T, i) * Power(pt[i], k)]
Moment(pt, T, k) == SumFunctionOnSet(Terms(pt, T, k), T)

LEMMA TermsType ==
  ASSUME NEW D, IsFiniteSet(D), NEW pt \in Points(D), NEW T \in SUBSET D, NEW k \in Nat
  PROVE  /\ IsFiniteSet(T) /\ Terms(pt, T, k) \in [T -> Int] /\ Moment(pt, T, k) \in Int
         /\ \A i \in T : Terms(pt, T, k)[i] = Weight(pt, T, i) * Power(pt[i], k)
<1>1. IsFiniteSet(T) /\ T \in SUBSET T
  BY FS_Subset
<1>2. \A i \in T : Weight(pt, T, i) \in Int
  BY WeightType
<1>3. \A i \in T : Power(pt[i], k) \in Int
  BY PointType, PowerStep
<1>4. \A i \in T : Weight(pt, T, i) * Power(pt[i], k) \in Int
  BY <1>2, <1>3
<1>5. /\ Terms(pt, T, k) \in [T -> Int]
      /\ \A i \in T : Terms(pt, T, k)[i] = Weight(pt, T, i) * Power(pt[i], k)
  BY <1>4 DEF Terms
<1>6. Moment(pt, T, k) \in Int
  BY <1>1, <1>5, SumType DEF Moment
<1>7. QED BY <1>1, <1>5, <1>6

LEMMA MomentStep ==
  ASSUME NEW D, IsFiniteSet(D), NEW pt \in Points(D), NEW T \in SUBSET D, NEW a \in T,
         NEW k \in Nat
  PROVE  Congruent(Moment(pt, T, k + 1),
                   pt[a] * Moment(pt, T, k) + (-pt[a]) * Moment(pt, T \ {a}, k))
<1>0. ASSUME NEW V \in SUBSET D, NEW l \in Nat
      PROVE  /\ Terms(pt, V, l) \in [V -> Int] /\ IsFiniteSet(V)
             /\ \A i \in V : Terms(pt, V, l)[i] = Weight(pt, V, i) * Power(pt[i], l)
  <2>1. Terms(pt, V, l) \in [V -> Int] /\ IsFiniteSet(V)
    BY TermsType
  <2>2. \A i \in V : Terms(pt, V, l)[i] = Weight(pt, V, i) * Power(pt[i], l)
    BY DEF Terms
  <2>3. QED BY <2>1, <2>2
<1>1. PICK U : U = T \ {a}
  OBVIOUS
<1>2. U \in SUBSET D /\ U \in SUBSET T /\ U \in SUBSET U /\ k + 1 \in Nat
  BY <1>1
<1>3. PICK pa \in Int : pa = pt[a]
  BY PointType
<1>4. PICK f \in [T -> Int] :
        /\ f = Terms(pt, T, k) /\ IsFiniteSet(T)
        /\ \A i \in T : f[i] = Weight(pt, T, i) * Power(pt[i], k)
  <2>1. /\ Terms(pt, T, k) \in [T -> Int] /\ IsFiniteSet(T)
        /\ \A i \in T : Terms(pt, T, k)[i] = Weight(pt, T, i) * Power(pt[i], k)
    BY <1>0
  <2>2. QED BY <2>1
<1>5. PICK g \in [T -> Int] :
        /\ g = Terms(pt, T, k + 1)
        /\ \A i \in T : g[i] = Weight(pt, T, i) * Power(pt[i], k + 1)
  <2>1. PICK l \in Nat : l = k + 1
    BY <1>2
  <2>2. Terms(pt, T, l) \in [T -> Int]
        /\ \A i \in T : Terms(pt, T, l)[i] = Weight(pt, T, i) * Power(pt[i], l)
    BY <1>0
  <2>3. QED BY <2>1, <2>2
<1>6. PICK u \in [U -> Int] :
        /\ u = Terms(pt, U, k) /\ IsFiniteSet(U)
        /\ \A i \in U : u[i] = Weight(pt, U, i) * Power(pt[i], k)
  <2>1. /\ Terms(pt, U, k) \in [U -> Int] /\ IsFiniteSet(U)
        /\ \A i \in U : Terms(pt, U, k)[i] = Weight(pt, U, i) * Power(pt[i], k)
    BY <1>0, <1>2
  <2>2. QED BY <2>1
\* What the share at a adds to the next moment and takes away.
<1> DEFINE h == [i \in T |-> g[i] - pa * f[i]]
<1>7. h \in [T -> Int] /\ \A i \in T : h[i] = g[i] - pa * f[i]
  <2>1. \A i \in T : g[i] - pa * f[i] \in Int
    <3>1. \A i \in T : g[i] \in Int /\ f[i] \in Int
      OBVIOUS
    <3>2. QED BY <3>1
  <2>2. QED BY <2>1
<1> HIDE DEF h
<1>8. ASSUME NEW i \in T
      PROVE  h[i] = (Weight(pt, T, i) * (pt[i] - pa)) * Power(pt[i], k)
  <2>1. PICK w \in Int, x \in Int, y \in Int :
          w = Weight(pt, T, i) /\ x = pt[i] /\ y = Power(x, k) /\ Power(x, k + 1) = x * y
    BY WeightType, PointType, PowerStep
  <2>2. f[i] = w * y /\ g[i] = w * (x * y)
    BY <1>4, <1>5, <2>1
  <2>3. w * (x * y) - pa * (w * y) = (w * (x - pa)) * y
    OBVIOUS
  <2>4. QED BY <1>7, <2>1, <2>2, <2>3
<1>9. h[a] = 0
  <2>1. PICK w \in Int, y \in Int : w = Weight(pt, T, a) /\ y = Power(pt[a], k)
    BY WeightType, PointType, PowerStep
  <2>2. h[a] = (w * (pa - pa)) * y
    BY <1>3, <1>8, <2>1
  <2>3. (w * (pa - pa)) * y = 0
    OBVIOUS
  <2>4. QED BY <2>2, <2>3
<1>10. SumFunctionOnSet(g, T) = pa * SumFunctionOnSet(f, T) + SumFunctionOnSet(h, T)
  <2>1. \A i \in T : g[i] = pa * f[i] + h[i]
    <3>1. \A i \in T : g[i] \in Int /\ pa * f[i] \in Int
      OBVIOUS
    <3>2. QED BY <1>7, <3>1
  <2>2. f \in [T -> Int] /\ g \in [T -> Int] /\ h \in [T -> Int] /\ pa \in Int /\ IsFiniteSet(T)
    BY <1>4, <1>7
  <2>3. QED BY ONLY <2>1, <2>2, SumLinear
<1>11. PICK v \in [U -> Int] : v = [i \in U |-> (-pa) * u[i]] /\ \A i \in U : v[i] = (-pa) * u[i]
  <2>1. \A i \in U : (-pa) * u[i] \in Int
    OBVIOUS
  <2>2. [i \in U |-> (-pa) * u[i]] \in [U -> Int]
    BY <2>1
  <2>3. QED BY <2>2
<1>12. ASSUME NEW i \in U PROVE Congruent(h[i], v[i])
  <2>1. i \in T /\ i # a /\ i \in D /\ a \in D
    BY <1>1
  <2>2. PICK w \in Int, x \in Int, y \in Int, z \in Int :
          w = Weight(pt, T, i) /\ x = pt[i] /\ y = Power(x, k) /\ z = Weight(pt, U, i)
    BY <1>2, <2>1, WeightType, PointType, PowerStep
  <2>3. Congruent(Weight(pt, T, i) * (pt[i] - pt[a]), (-pt[a]) * Weight(pt, T \ {a}, i))
    BY <2>1, WeightStep
  <2>4. Congruent(w * (x - pa), (-pa) * z)
    BY <1>1, <1>3, <2>2, <2>3
  <2>5. w * (x - pa) \in Int /\ (-pa) * z \in Int
    OBVIOUS
  <2>6. Congruent((w * (x - pa)) * y, ((-pa) * z) * y)
    BY <2>4, <2>5, CongruentMul, CongruentRefl
  <2>7. h[i] = (w * (x - pa)) * y
    BY <1>8, <2>1, <2>2
  <2>8. v[i] = (-pa) * (z * y)
    BY <1>6, <1>11, <2>2
  <2>9. (-pa) * (z * y) = ((-pa) * z) * y
    OBVIOUS
  <2>10. QED BY <2>6, <2>7, <2>8, <2>9
<1>13. Congruent(SumFunctionOnSet(h, T), SumFunctionOnSet(v, U))
  <2>1. /\ h \in [T -> Int] /\ h[a] = 0 /\ IsFiniteSet(T) /\ a \in T
        /\ v \in [T \ {a} -> Int] /\ \A i \in T \ {a} : Congruent(h[i], v[i])
    BY <1>1, <1>4, <1>7, <1>9, <1>12
  <2>2. Congruent(SumFunctionOnSet(h, T), SumFunctionOnSet(v, T \ {a}))
    BY ONLY <2>1, SumDrop
  <2>3. QED BY <1>1, <2>2
<1>14. SumFunctionOnSet(v, U) = (-pa) * SumFunctionOnSet(u, U)
  <2>1. -pa \in Int
    OBVIOUS
  <2>2. QED BY <1>6, <1>11, <2>1, SumScale
<1>15. PICK mf \in Int, mu \in Int, mh \in Int :
         /\ mf = SumFunctionOnSet(f, T) /\ mu = SumFunctionOnSet(u, U)
         /\ mh = SumFunctionOnSet(h, T)
  <2>1. T \in SUBSET T
    OBVIOUS
  <2>2. SumFunctionOnSet(f, T) \in Int /\ SumFunctionOnSet(h, T) \in Int
    BY <1>4, <1>7, <2>1, SumType
  <2>3. SumFunctionOnSet(u, U) \in Int
    BY <1>2, <1>6, SumType
  <2>4. QED BY <2>2, <2>3
<1>16. SumFunctionOnSet(g, T) = pa * mf + mh /\ Congruent(mh, (-pa) * mu)
  BY <1>10, <1>13, <1>14, <1>15
<1>17. pa * mf \in Int /\ (-pa) * mu \in Int
  OBVIOUS
<1>18. Congruent(pa * mf + mh, pa * mf + (-pa) * mu)
  BY <1>16, <1>17, CongruentAdd, CongruentRefl
<1>19. QED BY <1>1, <1>3, <1>4, <1>5, <1>6, <1>15, <1>16, <1>18 DEF Moment

LEMMA CongruentZero ==
  ASSUME NEW x \in Int, NEW m \in Int, Congruent(m, 0) PROVE Congruent(x * m, 0)
<1>1. PICK k \in Int : m = 0 + k * P
  BY DEF Congruent
<1>2. x * m = 0 + (x * k) * P /\ x * k \in Int
  BY <1>1, PrimeType
<1>3. QED BY <1>2 DEF Congruent

\* The recurrence at two different points settles the first two moments.
LEMMA FirstMoments ==
  ASSUME NEW a \in Int, NEW b \in Int, NEW m \in Int, NEW n \in Int, Invertible(a - b),
         Congruent(n, a * m + (-a) * 1), Congruent(n, b * m + (-b) * 1)
  PROVE  Congruent(m, 1) /\ Congruent(n, 0)
<1>1. PICK k \in Int : n = (a * m + (-a) * 1) + k * P
  BY DEF Congruent
<1>2. PICK l \in Int : n = (b * m + (-b) * 1) + l * P
  BY DEF Congruent
<1>3. ASSUME NEW p \in Int, n = (a * m + (-a) * 1) + k * p, n = (b * m + (-b) * 1) + l * p
      PROVE  (a - b) * m = (a - b) * 1 + (l - k) * p
  BY <1>3
<1>4. (a - b) * m = (a - b) * 1 + (l - k) * P /\ l - k \in Int
  BY <1>1, <1>2, <1>3, PrimeType
<1>5. Congruent((a - b) * m, (a - b) * 1)
  BY <1>4 DEF Congruent
<1>6. a - b \in Int
  OBVIOUS
<1>7. Congruent(m, 1)
  BY <1>5, <1>6, CongruentCancel
<1>8. Congruent(a * m, a * 1)
  BY <1>7, CongruentMul, CongruentRefl
<1>9. a * m \in Int /\ a * 1 \in Int /\ (-a) * 1 \in Int /\ a * 1 + (-a) * 1 = 0
      /\ a * m + (-a) * 1 \in Int
  OBVIOUS
<1>10. Congruent(a * m + (-a) * 1, a * 1 + (-a) * 1)
  BY <1>8, <1>9, CongruentAdd, CongruentRefl
<1>11. Congruent(n, 0)
  BY <1>9, <1>10, CongruentTrans
<1>12. QED BY <1>7, <1>11

\* With one position there is nothing to weigh.
LEMMA SingleMoment ==
  ASSUME NEW D, IsFiniteSet(D), NEW pt \in Points(D), NEW a \in D
  PROVE  Congruent(Moment(pt, {a}, 0), 1)
<1>1. {a} \in SUBSET D /\ {a} \ {a} = {}
  OBVIOUS
<1>2. PICK w \in Int : w = Weight(pt, {a}, a)
  BY <1>1, WeightType
<1>3. NumOn(pt, {a}, a) = 1 /\ DenOn(pt, {a}, a) = 1
  BY <1>1, ProductEmpty DEF NumOn, DenOn
<1>4. Congruent(Weight(pt, {a}, a) * DenOn(pt, {a}, a), NumOn(pt, {a}, a))
  BY <1>1, WeightType
<1>5. Congruent(w, 1)
  <2>1. w * 1 = w
    OBVIOUS
  <2>2. QED BY <1>2, <1>3, <1>4, <2>1
<1>6. PICK f : f = Terms(pt, {a}, 0)
  OBVIOUS
<1>7. f \in [{a} -> Int] /\ IsFiniteSet({a})
  BY <1>1, <1>6, TermsType
<1>8. f[a] = w
  <2>1. f[a] = Weight(pt, {a}, a) * Power(pt[a], 0)
    BY <1>6 DEF Terms
  <2>2. Power(pt[a], 0) = 1
    BY PointType, PowerStep
  <2>3. w * 1 = w
    OBVIOUS
  <2>4. QED BY <1>2, <2>1, <2>2, <2>3
<1>9. SumFunctionOnSet(f, {a}) = f[a] + SumFunctionOnSet(f, {})
  <2>1. PICK A, B : A = {a} /\ B = {}
    OBVIOUS
  <2>2. A \in SUBSET A /\ IsFiniteSet(A) /\ f \in [A -> Int] /\ a \in A /\ A \ {a} = B
    BY <1>7, <2>1
  <2>3. SumFunctionOnSet(f, A) = f[a] + SumFunctionOnSet(f, A \ {a})
    BY ONLY <2>2, SumRemove
  <2>4. QED BY <2>1, <2>2, <2>3
<1>10. Moment(pt, {a}, 0) = w
  BY <1>6, <1>8, <1>9, SumEmpty DEF Moment
<1>11. QED BY <1>5, <1>10

\* The weights sum to 1 and the higher moments, fewer than there are positions, to 0.
LEMMA MomentsAre ==
  ASSUME NEW D, IsFiniteSet(D), NEW pt \in Points(D)
  PROVE  \A T \in SUBSET D : \A k \in Nat : k < Cardinality(T) =>
           Congruent(Moment(pt, T, k), IF k = 0 THEN 1 ELSE 0)
<1> DEFINE Delta(k) == IF k = 0 THEN 1 ELSE 0
           Good == {n \in Nat : \A T \in SUBSET D : Cardinality(T) = n =>
                      \A k \in Nat : k < n => Congruent(Moment(pt, T, k), Delta(k))}
<1>1. \A T \in SUBSET D : IsFiniteSet(T) /\ Cardinality(T) \in Nat
  BY FS_Subset, FS_CardinalityType
<1>2. 0 \in Good
  OBVIOUS
<1>3. ASSUME NEW n \in Good PROVE n + 1 \in Good
  <2> SUFFICES ASSUME NEW T \in SUBSET D, Cardinality(T) = n + 1
               PROVE  \A k \in Nat : k < n + 1 => Congruent(Moment(pt, T, k), Delta(k))
    BY <1>3
  <2>1. n \in Nat /\ T # {}
    BY <1>1, <1>3, FS_EmptySet
  <2>2. PICK a \in T : TRUE
    BY <2>1
  <2>3. CASE n = 0
    <3>1. T = {a}
      <4>1. \E x : T = {x}
        <5>1. IsFiniteSet(T) /\ Cardinality(T) = 1
          BY <1>1, <2>3
        <5>2. QED BY <5>1, FS_Singleton
      <4>2. QED BY <2>2, <4>1
    <3>2. Congruent(Moment(pt, T, 0), 1)
      BY <2>2, <3>1, SingleMoment
    <3>3. QED BY <2>3, <3>2
  <2>4. CASE n >= 1
    <3>1. PICK b \in T : b # a
      <4>1. T # {a}
        <5>1. Cardinality({a}) = 1
          BY FS_Singleton
        <5>2. Cardinality(T) # 1
          BY <2>1, <2>4
        <5>3. QED BY <5>1, <5>2
      <4>2. QED BY <2>2, <4>1
    <3>2. PICK x \in Int, y \in Int : x = pt[a] /\ y = pt[b] /\ Invertible(x - y)
      <4>1. a \in D /\ b \in D
        OBVIOUS
      <4>2. pt[a] \in 1..(P - 1) /\ pt[b] \in 1..(P - 1) /\ pt[a] # pt[b]
            /\ pt[a] \in Int /\ pt[b] \in Int
        BY <3>1, <4>1, PointType
      <4>3. QED BY <4>2, DistinctPoints
    <3>3. \A k \in Nat : Moment(pt, T, k) \in Int
      BY TermsType
    <3>4. ASSUME NEW c \in T, NEW z \in Int, z = pt[c], NEW k \in Nat, k < n
          PROVE  Congruent(Moment(pt, T, k + 1), z * Moment(pt, T, k) + (-z) * Delta(k))
      <4>1. T \ {c} \in SUBSET D /\ Cardinality(T \ {c}) = n
        <5>1. IsFiniteSet(T) /\ Cardinality(T \ {c}) = Cardinality(T) - 1
          BY <1>1, FS_RemoveElement
        <5>2. QED BY <2>1, <5>1
      <4>2. Congruent(Moment(pt, T \ {c}, k), Delta(k))
        BY <1>3, <3>4, <4>1
      <4>3. Congruent(Moment(pt, T, k + 1),
                      z * Moment(pt, T, k) + (-z) * Moment(pt, T \ {c}, k))
        BY <3>4, MomentStep
      <4>4. PICK m \in Int, u \in Int, d \in Int, v \in Int :
              /\ m = Moment(pt, T, k) /\ u = Moment(pt, T \ {c}, k) /\ d = Delta(k)
              /\ v = Moment(pt, T, k + 1)
        <5>1. Moment(pt, T \ {c}, k) \in Int
          BY <4>1, TermsType
        <5>2. k + 1 \in Nat /\ Delta(k) \in Int
          OBVIOUS
        <5>3. QED BY <3>3, <5>1, <5>2
      <4> HIDE DEF Delta
      <4>5. /\ z * m \in Int /\ (-z) * u \in Int /\ (-z) * d \in Int /\ -z \in Int
            /\ z * m + (-z) * u \in Int /\ z * m + (-z) * d \in Int
        OBVIOUS
      <4>6. Congruent((-z) * u, (-z) * d)
        BY <4>2, <4>4, <4>5, CongruentMul, CongruentRefl
      <4>7. Congruent(z * m + (-z) * u, z * m + (-z) * d)
        BY <4>5, <4>6, CongruentAdd, CongruentRefl
      <4>8. Congruent(v, z * m + (-z) * u)
        BY <4>3, <4>4
      <4>9. Congruent(v, z * m + (-z) * d)
        BY <4>5, <4>7, <4>8, CongruentTrans
      <4>10. QED BY <4>4, <4>9
    <3>5. Congruent(Moment(pt, T, 0), 1) /\ Congruent(Moment(pt, T, 1), 0)
      <4>1. 0 < n /\ 0 \in Nat /\ 1 \in Nat /\ 0 + 1 = 1 /\ Delta(0) = 1
        BY <2>1, <2>4
      <4> HIDE DEF Delta
      <4>2. Congruent(Moment(pt, T, 1), x * Moment(pt, T, 0) + (-x) * 1)
        BY <2>2, <3>2, <3>4, <4>1
      <4>3. Congruent(Moment(pt, T, 1), y * Moment(pt, T, 0) + (-y) * 1)
        BY <3>1, <3>2, <3>4, <4>1
      <4>4. Moment(pt, T, 0) \in Int /\ Moment(pt, T, 1) \in Int
        BY <3>3, <4>1
      <4>5. QED BY <3>2, <4>2, <4>3, <4>4, FirstMoments
    <3> DEFINE Zero == {k \in Nat : k < n => Congruent(Moment(pt, T, k + 1), 0)}
    <3>6. 0 \in Zero
      BY <3>5
    <3>7. ASSUME NEW k \in Zero PROVE k + 1 \in Zero
      <4> SUFFICES ASSUME k + 1 < n PROVE Congruent(Moment(pt, T, (k + 1) + 1), 0)
        BY <3>7
      <4>1. k \in Nat /\ k + 1 \in Nat /\ k < n /\ k + 1 # 0 /\ Delta(k + 1) = 0 /\ (k + 1) + 1 \in Nat
        BY <2>1, <3>7
      <4>2. Congruent(Moment(pt, T, k + 1), 0)
        BY <3>7, <4>1
      <4> HIDE DEF Delta, Zero
      <4>3. PICK l \in Nat : l = k + 1
        BY <4>1
      <4>4. Congruent(Moment(pt, T, l + 1), x * Moment(pt, T, l) + (-x) * Delta(l))
        BY <2>2, <3>2, <3>4, <4>3
      <4>5. PICK m \in Int, v \in Int : m = Moment(pt, T, l) /\ v = Moment(pt, T, l + 1)
        BY <3>3, <4>1, <4>3
      <4>6. Congruent(v, x * m + (-x) * 0) /\ Congruent(m, 0)
        BY <4>1, <4>2, <4>3, <4>4, <4>5
      <4>7. x * m \in Int /\ x * m + (-x) * 0 = x * m
        OBVIOUS
      <4>8. Congruent(x * m, 0)
        BY <4>6, CongruentZero
      <4>9. Congruent(v, 0)
        BY <4>6, <4>7, <4>8, CongruentTrans
      <4>10. QED BY <4>3, <4>5, <4>9
    <3> HIDE DEF Zero
    <3>8. Zero = Nat
      <4>1. Zero \in SUBSET Nat BY DEF Zero
      <4>2. QED BY <3>6, <3>7, <4>1, NaturalInduction
    <3>9. ASSUME NEW k \in Nat, k < n + 1, k # 0 PROVE Congruent(Moment(pt, T, k), 0)
      <4>1. k - 1 \in Nat /\ k - 1 < n /\ (k - 1) + 1 = k
        BY <2>1, <3>9
      <4>2. k - 1 \in Zero
        BY <3>8, <4>1
      <4>3. QED BY <4>1, <4>2 DEF Zero
    <3>10. QED BY <3>5, <3>9
  <2>5. QED BY <2>1, <2>3, <2>4
<1> HIDE DEF Good
<1>4. Good = Nat
  <2>1. Good \in SUBSET Nat BY DEF Good
  <2>2. QED BY <1>2, <1>3, <2>1, NaturalInduction
<1>5. QED BY <1>1, <1>4 DEF Good

-----------------------------------------------------------------------------
(* Polynomials: the first t of the coefficients c, at x.                   *)

PolyTerms(c, x) == [i \in Nat |-> c[i] * Power(x, i)]
Poly(c, t, x) == SumFunctionOnSet(PolyTerms(c, x), 0..(t - 1))

LEMMA PolyStep ==
  ASSUME NEW c \in [Nat -> Int], NEW x \in Int
  PROVE  /\ Poly(c, 0, x) = 0
         /\ \A t \in Nat : /\ Poly(c, t, x) \in Int
                           /\ Poly(c, t + 1, x) = c[t] * Power(x, t) + Poly(c, t, x)
<1>1. PICK f : f = PolyTerms(c, x)
  OBVIOUS
<1>2. f \in [Nat -> Int] /\ \A t \in Nat : f[t] = c[t] * Power(x, t)
  <2>1. \A t \in Nat : c[t] * Power(x, t) \in Int
    <3>1. \A t \in Nat : c[t] \in Int /\ Power(x, t) \in Int
      BY PowerStep
    <3>2. QED BY <3>1
  <2>2. QED BY <1>1, <2>1 DEF PolyTerms
<1>3. Poly(c, 0, x) = 0
  <2>1. 0..(0 - 1) = {}
    OBVIOUS
  <2>2. QED BY <2>1, SumEmpty DEF Poly
<1>4. ASSUME NEW t \in Nat
      PROVE  Poly(c, t, x) \in Int /\ Poly(c, t + 1, x) = c[t] * Power(x, t) + Poly(c, t, x)
  <2>1. PICK T, U : T = 0..(t - 1) /\ U = 0..((t + 1) - 1)
    OBVIOUS
  <2>2. /\ T \in SUBSET Nat /\ IsFiniteSet(T) /\ t \notin T /\ t \in Nat /\ U = T \cup {t}
        /\ f \in [Nat -> Int]
    <3>1. 0..(t - 1) \in SUBSET Nat /\ t \notin 0..(t - 1) /\ 0..((t + 1) - 1) = 0..(t - 1) \cup {t}
      OBVIOUS
    <3>2. IsFiniteSet(0..(t - 1))
      BY FS_Interval
    <3>3. QED BY <1>2, <2>1, <3>1, <3>2
  <2>3. SumFunctionOnSet(f, T) \in Int
    BY ONLY <2>2, SumType
  <2>4. SumFunctionOnSet(f, T \cup {t}) = f[t] + SumFunctionOnSet(f, T)
    BY ONLY <2>2, SumInsert
  <2>5. Poly(c, t, x) = SumFunctionOnSet(f, T) /\ Poly(c, t + 1, x) = SumFunctionOnSet(f, U)
    BY <1>1, <2>1 DEF Poly
  <2>6. f[t] = c[t] * Power(x, t)
    BY <1>2
  <2>7. QED BY <2>2, <2>3, <2>4, <2>5, <2>6
<1>5. QED BY <1>3, <1>4

\* A polynomial is its constant term and x times the one of the other coefficients.
Shift(c) == [i \in Nat |-> c[i + 1]]

LEMMA PolyShift ==
  ASSUME NEW c \in [Nat -> Int], NEW x \in Int
  PROVE  \A t \in Nat : Poly(c, t + 1, x) = c[0] + x * Poly(Shift(c), t, x)
<1> DEFINE Good == {t \in Nat : Poly(c, t + 1, x) = c[0] + x * Poly(Shift(c), t, x)}
<1>1. PICK d \in [Nat -> Int] : d = Shift(c) /\ \A i \in Nat : d[i] = c[i + 1]
  <2>1. \A i \in Nat : c[i + 1] \in Int
    OBVIOUS
  <2>2. Shift(c) \in [Nat -> Int]
    BY <2>1 DEF Shift
  <2>3. QED BY <2>2 DEF Shift
<1>2. 0 \in Good
  <2>1. Poly(c, 0 + 1, x) = c[0] * Power(x, 0) + Poly(c, 0, x)
    BY PolyStep
  <2>2. Poly(c, 0, x) = 0 /\ Poly(d, 0, x) = 0 /\ Power(x, 0) = 1 /\ c[0] \in Int
    BY PolyStep, PowerStep
  <2>3. QED BY <1>1, <2>1, <2>2
<1>3. ASSUME NEW t \in Good PROVE t + 1 \in Good
  <2>1. t \in Nat /\ t + 1 \in Nat /\ Poly(c, t + 1, x) = c[0] + x * Poly(d, t, x)
    BY <1>1, <1>3
  <2>2. PICK p \in Int, q \in Int, e \in Int, z \in Int :
          /\ p = Poly(d, t, x) /\ q = Power(x, t) /\ e = c[t + 1] /\ z = c[0]
    BY <2>1, PolyStep, PowerStep
  <2>3. Poly(c, (t + 1) + 1, x) = e * Power(x, t + 1) + Poly(c, t + 1, x)
    BY <2>1, <2>2, PolyStep
  <2>4. Poly(d, t + 1, x) = e * q + p
    <3>1. Poly(d, t + 1, x) = d[t] * Power(x, t) + Poly(d, t, x)
      BY <2>1, PolyStep
    <3>2. d[t] = e
      BY <1>1, <2>1, <2>2
    <3>3. QED BY <2>2, <3>1, <3>2
  <2>5. Power(x, t + 1) = x * q
    BY <2>1, <2>2, PowerStep
  <2>6. e * (x * q) + (z + x * p) = z + x * (e * q + p)
    OBVIOUS
  <2>7. Poly(c, (t + 1) + 1, x) = z + x * Poly(d, t + 1, x)
    BY <2>1, <2>2, <2>3, <2>4, <2>5, <2>6
  <2>8. QED BY <1>1, <2>1, <2>2, <2>7
<1> HIDE DEF Good
<1>4. Good = Nat
  <2>1. Good \in SUBSET Nat BY DEF Good
  <2>2. QED BY <1>2, <1>3, <2>1, NaturalInduction
<1>5. QED BY <1>4 DEF Good

\* What interpolation makes of the values of a polynomial at the positions D.
AtZero(pt, D, c, t) == SumFunctionOnSet([i \in D |-> Weight(pt, D, i) * Poly(c, t, pt[i])], D)

\* Values at as many points as there are coefficients give the constant term back.
LEMMA Interpolation ==
  ASSUME NEW D, IsFiniteSet(D), NEW pt \in Points(D), NEW c \in [Nat -> Int]
  PROVE  /\ \A t \in Nat : AtZero(pt, D, c, t) \in Int
         /\ \A t \in Nat : t # 0 /\ t <= Cardinality(D) => Congruent(AtZero(pt, D, c, t), c[0])
<1> DEFINE V(t) == [i \in D |-> Weight(pt, D, i) * Poly(c, t, pt[i])]
           Start(t) == IF t = 0 THEN 0 ELSE c[0]
           Good == {t \in Nat : t <= Cardinality(D) => Congruent(AtZero(pt, D, c, t), Start(t))}
<1>1. D \in SUBSET D /\ Cardinality(D) \in Nat
  BY FS_CardinalityType
<1>2. \A i \in D : pt[i] \in Int /\ Weight(pt, D, i) \in Int
  BY <1>1, PointType, WeightType
<1>3. ASSUME NEW t \in Nat
      PROVE  /\ V(t) \in [D -> Int] /\ \A i \in D : V(t)[i] = Weight(pt, D, i) * Poly(c, t, pt[i])
             /\ AtZero(pt, D, c, t) = SumFunctionOnSet(V(t), D)
  <2>1. \A i \in D : Poly(c, t, pt[i]) \in Int
    BY <1>2, PolyStep
  <2>2. \A i \in D : Weight(pt, D, i) * Poly(c, t, pt[i]) \in Int
    BY <1>2, <2>1
  <2>3. QED BY <2>2 DEF AtZero
<1> HIDE DEF V
<1>4. ASSUME NEW t \in Nat PROVE AtZero(pt, D, c, t) \in Int
  <2>1. PICK v : v = V(t)
    OBVIOUS
  <2>2. v \in [D -> Int] /\ AtZero(pt, D, c, t) = SumFunctionOnSet(v, D)
    BY <1>3, <2>1
  <2>3. SumFunctionOnSet(v, D) \in Int
    BY ONLY <1>1, <2>2, IsFiniteSet(D), SumType
  <2>4. QED BY <2>2, <2>3
<1>5. AtZero(pt, D, c, 0) = 0
  <2>1. \A i \in D : V(0)[i] = 0
    <3> SUFFICES ASSUME NEW i \in D PROVE V(0)[i] = 0
      OBVIOUS
    <3>1. Poly(c, 0, pt[i]) = 0 /\ V(0)[i] = Weight(pt, D, i) * Poly(c, 0, pt[i])
      BY <1>2, <1>3, PolyStep
    <3>2. QED BY <1>2, <3>1
  <2>2. PICK v : v = V(0)
    OBVIOUS
  <2>3. v \in [D -> Int] /\ \A i \in D : v[i] = 0
    BY <1>3, <2>1, <2>2
  <2>4. SumFunctionOnSet(v, D) = 0
    BY <2>3, SumZeros
  <2>5. QED BY <1>3, <2>2, <2>4
<1>6. ASSUME NEW t \in Nat
      PROVE  AtZero(pt, D, c, t + 1) = c[t] * Moment(pt, D, t) + AtZero(pt, D, c, t)
  <2>1. PICK f, h, g : f = Terms(pt, D, t) /\ h = V(t) /\ g = V(t + 1)
    OBVIOUS
  <2>2. f \in [D -> Int] /\ h \in [D -> Int] /\ g \in [D -> Int] /\ c[t] \in Int
    <3>1. t + 1 \in Nat
      OBVIOUS
    <3>2. QED BY <1>1, <1>3, <2>1, <3>1, TermsType
  <2>3. ASSUME NEW i \in D PROVE g[i] = c[t] * f[i] + h[i]
    <3>1. PICK w \in Int, x \in Int, y \in Int, p \in Int, e \in Int :
            /\ w = Weight(pt, D, i) /\ x = pt[i] /\ y = Power(x, t) /\ p = Poly(c, t, x)
            /\ e = c[t]
      BY <1>2, PowerStep, PolyStep
    <3>2. Poly(c, t + 1, x) = e * y + p
      BY <3>1, PolyStep
    <3>3. g[i] = w * (e * y + p)
      <4>1. t + 1 \in Nat
        OBVIOUS
      <4>2. g[i] = Weight(pt, D, i) * Poly(c, t + 1, pt[i])
        BY <1>3, <2>1, <4>1
      <4>3. QED BY <3>1, <3>2, <4>2
    <3>4. f[i] = w * y
      BY <2>1, <3>1 DEF Terms
    <3>5. h[i] = w * p
      BY <1>3, <2>1, <3>1
    <3>6. w * (e * y + p) = e * (w * y) + w * p
      OBVIOUS
    <3>7. QED BY <3>1, <3>3, <3>4, <3>5, <3>6
  <2>4. \A i \in D : g[i] = c[t] * f[i] + h[i]
    BY <2>3
  <2>5. SumFunctionOnSet(g, D) = c[t] * SumFunctionOnSet(f, D) + SumFunctionOnSet(h, D)
    BY <2>2, <2>4, SumLinear
  <2>6. t + 1 \in Nat
    OBVIOUS
  <2>7. QED BY <1>3, <2>1, <2>5, <2>6 DEF Moment
<1>7. 0 \in Good
  BY <1>5, CongruentRefl
<1>8. ASSUME NEW t \in Good PROVE t + 1 \in Good
  <2> SUFFICES ASSUME t + 1 <= Cardinality(D)
               PROVE  Congruent(AtZero(pt, D, c, t + 1), c[0])
    BY <1>8
  <2>1. t \in Nat /\ t < Cardinality(D) /\ t <= Cardinality(D) /\ t + 1 \in Nat
    BY <1>1, <1>8
  <2>2. Congruent(AtZero(pt, D, c, t), Start(t))
    BY <1>8, <2>1
  <2>3. Congruent(Moment(pt, D, t), IF t = 0 THEN 1 ELSE 0)
    BY <1>1, <2>1, MomentsAre
  <2>4. PICK e \in Int, m \in Int, z \in Int, s \in Int, d \in Int :
          /\ e = c[t] /\ m = Moment(pt, D, t) /\ z = AtZero(pt, D, c, t) /\ s = Start(t)
          /\ d = IF t = 0 THEN 1 ELSE 0
    <3>1. c[t] \in Int /\ Start(t) \in Int /\ (IF t = 0 THEN 1 ELSE 0) \in Int
      BY <2>1
    <3>2. Moment(pt, D, t) \in Int
      BY <1>1, <2>1, TermsType
    <3>3. QED BY <1>4, <2>1, <3>1, <3>2
  <2>5. e * d + s = c[0]
    BY <2>1, <2>4
  <2> HIDE DEF Start, Good
  <2>6. Congruent(e * m, e * d)
    BY <2>3, <2>4, CongruentMul, CongruentRefl
  <2>7. e * m \in Int /\ e * d \in Int
    OBVIOUS
  <2>8. Congruent(e * m + z, e * d + s)
    BY <2>2, <2>4, <2>6, <2>7, CongruentAdd
  <2>9. AtZero(pt, D, c, t + 1) = e * m + z
    BY <1>6, <2>1, <2>4
  <2>10. QED BY <2>5, <2>8, <2>9
<1> HIDE DEF Good
<1>9. Good = Nat
  <2>1. Good \in SUBSET Nat BY DEF Good
  <2>2. QED BY <1>7, <1>8, <2>1, NaturalInduction
<1>10. QED BY <1>4, <1>9 DEF Good

-----------------------------------------------------------------------------
(* What SplitSecret and ReconstructSecret compute.                         *)

\* The coefficients, with zeros after the last.
Extended(f) == [i \in Nat |-> IF i \in DOMAIN f THEN f[i] ELSE 0]

LEMMA ShareIsPoly ==
  ASSUME NEW t \in Nat, NEW f, f \in [0..(t - 1) -> Int], NEW x \in Int
  PROVE  /\ Extended(f) \in [Nat -> Int] /\ \A i \in 0..(t - 1) : Extended(f)[i] = f[i]
         /\ ShareOf(f, x) = Poly(Extended(f), t, x) % P
<1>1. PICK c : c = Extended(f)
  OBVIOUS
<1>2. c \in [Nat -> Int] /\ \A i \in 0..(t - 1) : c[i] = f[i]
  BY <1>1 DEF Extended
<1>3. PICK T : T = 0..(t - 1)
  OBVIOUS
<1>4. PICK g, h : g = [i \in DOMAIN f |-> f[i] * Power(x, i)] /\ h = PolyTerms(c, x)
  OBVIOUS
<1>5. DOMAIN f = T /\ T \in SUBSET T /\ T \in SUBSET Nat /\ IsFiniteSet(T)
  BY <1>3, FS_Interval
<1>6. \A i \in Nat : c[i] \in Int /\ Power(x, i) \in Int
  BY <1>2, PowerStep
<1>7. h \in [Nat -> Int] /\ \A i \in Nat : h[i] = c[i] * Power(x, i)
  <2>1. \A i \in Nat : c[i] * Power(x, i) \in Int
    BY <1>6
  <2>2. QED BY <1>4, <2>1 DEF PolyTerms
<1>8. g \in [T -> Int] /\ \A i \in T : g[i] = h[i]
  <2>1. \A i \in T : g[i] = h[i] /\ h[i] \in Int
    BY <1>2, <1>3, <1>4, <1>5, <1>7
  <2>2. g = [i \in T |-> g[i]]
    BY <1>4, <1>5
  <2>3. QED BY <2>1, <2>2
<1>9. SumFunctionOnSet(g, T) = SumFunctionOnSet(h, T)
  <2>1. PICK M : M = Nat
    OBVIOUS
  <2>2. /\ T \in SUBSET T /\ T \in SUBSET M /\ IsFiniteSet(T)
        /\ g \in [T -> Int] /\ h \in [M -> Int] /\ \A i \in T : g[i] = h[i]
    BY <1>5, <1>7, <1>8, <2>1
  <2>3. QED BY ONLY <2>2, SumSame
<1>10. SumFunction(g) = SumFunctionOnSet(g, T)
  <2>1. DOMAIN g = T
    BY <1>4, <1>5
  <2>2. QED BY <2>1 DEF SumFunction
<1>11. ShareOf(f, x) = SumFunction(g) % P
  BY <1>4 DEF ShareOf
<1>12. QED BY <1>1, <1>2, <1>3, <1>4, <1>9, <1>10, <1>11 DEF Poly

LEMMA NumeratorIs ==
  ASSUME NEW t \in Nat, NEW xs \in Points(1..t), NEW i \in 1..t
  PROVE  /\ Numerator(xs, i) = NumOn(xs, 1..t, i) % P
         /\ Denominator(xs, i) = DenOn(xs, 1..t, i) % P
<1>1. PICK D : D = 1..t
  OBVIOUS
<1>2. PICK S : S = D \ {i}
  OBVIOUS
<1>3. DOMAIN xs = D /\ xs \in Points(D) /\ i \in D /\ IsFiniteSet(D)
  BY <1>1, PointType, FS_Interval
<1>4. S \in SUBSET S /\ S \in SUBSET D /\ IsFiniteSet(S)
  BY <1>2, <1>3, FS_Subset
<1>5. PICK fn, fd : fn = NumFactors(xs) /\ fd = DenFactors(xs, i)
  OBVIOUS
<1>6. /\ fn \in [D -> Int] /\ \A j \in D : fn[j] = P - xs[j]
      /\ fd \in [D -> Int] /\ \A j \in D : fd[j] = (xs[i] - xs[j]) % P
  BY <1>3, <1>5, FactorsType
<1>7. ASSUME NEW g, NEW f, f \in [D -> Int], g = [j \in S |-> f[j]]
      PROVE  Product(g) = ProductOnSet(f, S)
  <2>1. g \in [S -> Int] /\ \A j \in S : g[j] = f[j]
    BY <1>4, <1>7
  <2>2. ProductOnSet(g, S) = ProductOnSet(f, S)
    BY ONLY <1>4, <1>7, <2>1, ProductSame
  <2>3. DOMAIN g = S
    BY <1>7
  <2>4. QED BY <2>2, <2>3 DEF Product, FoldFunction, ProductOnSet
<1>8. Numerator(xs, i) = Product([j \in S |-> fn[j]]) % P
  <2>1. \A j \in S : fn[j] = P - xs[j]
    BY <1>4, <1>6
  <2>2. [j \in S |-> fn[j]] = [j \in S |-> P - xs[j]]
    BY <2>1
  <2>3. Numerator(xs, i) = Product([j \in S |-> P - xs[j]]) % P
    BY <1>2, <1>3 DEF Numerator
  <2>4. QED BY <2>2, <2>3
<1>9. Denominator(xs, i) = Product([j \in S |-> fd[j]]) % P
  <2>1. \A j \in S : fd[j] = (xs[i] - xs[j]) % P
    BY <1>4, <1>6
  <2>2. [j \in S |-> fd[j]] = [j \in S |-> (xs[i] - xs[j]) % P]
    BY <2>1
  <2>3. Denominator(xs, i) = Product([j \in S |-> (xs[i] - xs[j]) % P]) % P
    BY <1>2, <1>3 DEF Denominator
  <2>4. QED BY <2>2, <2>3
<1>10. Product([j \in S |-> fn[j]]) = ProductOnSet(fn, S)
  BY <1>6, <1>7
<1>11. Product([j \in S |-> fd[j]]) = ProductOnSet(fd, S)
  BY <1>6, <1>7
<1>12. QED BY <1>1, <1>2, <1>5, <1>8, <1>9, <1>10, <1>11 DEF NumOn, DenOn

\* Shares with different numbers never make ReconstructSecret fail.
LEMMA Interpolates ==
  ASSUME NEW t \in Nat \ {0}, NEW xs \in Points(1..t)
  PROVE  CanInterpolate(xs)
<1>1. DOMAIN xs = 1..t /\ IsFiniteSet(1..t) /\ 1..t \in SUBSET (1..t) /\ 1 \in 1..t
  BY PointType, FS_Interval
<1>2. xs # << >>
  <2>1. DOMAIN << >> = {}
    OBVIOUS
  <2>2. QED BY <1>1, <2>1
<1>3. ASSUME NEW i \in 1..t PROVE Invertible(Denominator(xs, i))
  <2>1. PICK D : D = 1..t
    OBVIOUS
  <2>2. DenOn(xs, D, i) \in Int /\ Invertible(DenOn(xs, D, i))
    BY <1>1, <2>1, WeightType
  <2>3. PICK d \in Int : d = DenOn(xs, D, i) /\ Invertible(d)
    BY <2>2
  <2>4. d % P \in Field /\ d % P \in Int /\ (d % P) % P = d % P
    BY ModCongruent, FieldType
  <2>5. Invertible(d % P)
    BY <2>3, <2>4 DEF Invertible
  <2>6. QED BY <2>1, <2>3, <2>5, NumeratorIs
<1>4. QED BY <1>1, <1>2, <1>3 DEF CanInterpolate

\* The inverse of a number that was reduced first.
LEMMA InverseOfMod ==
  ASSUME NEW a \in Int, Invertible(a)
  PROVE  /\ ModInverse(a % P) \in Int
         /\ Congruent(ModInverse(a % P), ModInverse(a))
<1>1. PICK r \in Int : r = a % P /\ Congruent(r, a) /\ Congruent(a, r)
  BY ModCongruent, FieldType, CongruentSym
<1>2. Invertible(r)
  BY <1>1, InvertibleCongruent
<1>3. PICK u \in Int : u = ModInverse(r) /\ Congruent(r * u, 1)
  BY <1>2, InverseWorks
<1>4. PICK v \in Int : v = ModInverse(a) /\ Congruent(a * v, 1)
  BY InverseWorks
<1>5. Congruent(a * u, r * u)
  BY <1>1, CongruentMul, CongruentRefl
<1>6. a * u \in Int /\ r * u \in Int /\ a * v \in Int
  OBVIOUS
<1>7. Congruent(a * u, 1) /\ Congruent(1, a * v)
  BY <1>3, <1>4, <1>5, <1>6, CongruentTrans, CongruentSym
<1>8. Congruent(a * u, a * v)
  BY <1>6, <1>7, CongruentTrans
<1>9. Congruent(u, v)
  BY <1>8, CongruentCancel
<1>10. QED BY <1>1, <1>3, <1>4, <1>9

\* One term of ReconstructSecret.
LEMMA LagrangeTerm ==
  ASSUME NEW t \in Nat, NEW xs \in Points(1..t), NEW i \in 1..t, NEW p \in Int
  PROVE  /\ ((((p % P) * Numerator(xs, i)) % P) * ModInverse(Denominator(xs, i))) % P \in Int
         /\ Congruent(((((p % P) * Numerator(xs, i)) % P) * ModInverse(Denominator(xs, i))) % P,
                      Weight(xs, 1..t, i) * p)
<1>1. PICK D : D = 1..t
  OBVIOUS
<1>2. IsFiniteSet(D) /\ D \in SUBSET D /\ i \in D /\ xs \in Points(D)
  BY <1>1, FS_Interval
<1>3. PICK num \in Int, den \in Int : num = NumOn(xs, D, i) /\ den = DenOn(xs, D, i) /\ Invertible(den)
  BY <1>2, WeightType
<1>4. PICK r \in Int : r = ModInverse(den)
  BY <1>3, InverseWorks
<1>5. PICK u \in Int : u = ModInverse(Denominator(xs, i)) /\ Congruent(u, r)
  <2>1. Denominator(xs, i) = den % P
    BY <1>1, <1>3, NumeratorIs
  <2>2. QED BY <1>3, <1>4, <2>1, InverseOfMod
<1>6. PICK m \in Int : m = Numerator(xs, i) /\ Congruent(m, num)
  <2>1. Numerator(xs, i) = num % P
    BY <1>1, <1>3, NumeratorIs
  <2>2. QED BY <1>3, <2>1, ModCongruent, FieldType
<1>7. PICK q \in Int : q = p % P /\ Congruent(q, p)
  BY ModCongruent, FieldType
<1>8. Congruent(q * m, p * num) /\ q * m \in Int /\ p * num \in Int
  <2>1. q \in Int /\ p \in Int /\ m \in Int /\ num \in Int /\ Congruent(q, p) /\ Congruent(m, num)
    BY <1>6, <1>7
  <2>2. Congruent(q * m, p * num)
    BY ONLY <2>1, CongruentMul
  <2>3. q * m \in Int /\ p * num \in Int
    OBVIOUS
  <2>4. QED BY <2>2, <2>3
<1>9. PICK e \in Int : e = (q * m) % P /\ Congruent(e, q * m)
  BY <1>8, ModCongruent, FieldType
<1>10. Congruent(e, p * num)
  BY <1>8, <1>9, CongruentTrans
<1>11. Congruent(e * u, (p * num) * r)
  BY <1>5, <1>8, <1>10, CongruentMul
<1>12. e * u \in Int /\ (p * num) * r \in Int /\ (p * num) * r = (num * r) * p
  OBVIOUS
<1>13. PICK z \in Int : z = (e * u) % P /\ Congruent(z, e * u)
  BY <1>12, ModCongruent, FieldType
<1>14. Congruent(z, (num * r) * p)
  BY <1>11, <1>12, <1>13, CongruentTrans
<1>15. Weight(xs, 1..t, i) = num * r
  BY <1>1, <1>3, <1>4 DEF Weight
<1>16. QED BY <1>5, <1>6, <1>7, <1>9, <1>13, <1>14, <1>15

\* ReconstructSecret interpolates at 0, whatever the order of the shares.
LEMMA ReconstructIsAtZero ==
  ASSUME NEW t \in Nat, NEW xs \in Points(1..t), NEW n \in Nat, NEW c \in [Nat -> Int], NEW value,
         \A i \in 1..t : value[xs[i]] = Poly(c, n, xs[i]) % P
  PROVE  /\ ReconstructSecret(xs, value) \in Field
         /\ Congruent(ReconstructSecret(xs, value), AtZero(xs, 1..t, c, n))
<1> DEFINE Term(i) == (((value[xs[i]] * Numerator(xs, i)) % P) * ModInverse(Denominator(xs, i))) % P
<1>1. PICK D : D = 1..t
  OBVIOUS
<1>2. IsFiniteSet(D) /\ D \in SUBSET D /\ DOMAIN xs = D /\ xs \in Points(D)
  BY <1>1, FS_Interval, PointType
<1>3. PICK f, g : f = [i \in D |-> Term(i)] /\ g = [i \in D |-> Weight(xs, D, i) * Poly(c, n, xs[i])]
  OBVIOUS
<1>4. ASSUME NEW i \in D
      PROVE  /\ Term(i) \in Int /\ Weight(xs, D, i) * Poly(c, n, xs[i]) \in Int
             /\ Congruent(Term(i), Weight(xs, D, i) * Poly(c, n, xs[i]))
  <2>1. xs[i] \in Int
    BY <1>2, PointType
  <2>2. PICK p \in Int : p = Poly(c, n, xs[i])
    BY <2>1, PolyStep
  <2>3. PICK w \in Int : w = Weight(xs, D, i)
    BY <1>2, WeightType
  <2>4. Term(i) = ((((p % P) * Numerator(xs, i)) % P) * ModInverse(Denominator(xs, i))) % P
    BY <1>1, <2>2
  <2>5. Term(i) \in Int /\ Congruent(Term(i), w * p)
    <3>1. i \in 1..t
      BY <1>1
    <3> HIDE DEF Term
    <3>2. QED BY <1>1, <2>3, <2>4, <3>1, LagrangeTerm
  <2>6. w * p \in Int
    OBVIOUS
  <2>7. QED BY <2>2, <2>3, <2>5, <2>6
<1>5. f \in [D -> Int] /\ g \in [D -> Int] /\ \A i \in D : Congruent(f[i], g[i])
  <2> HIDE DEF Term
  <2>1. \A i \in D : f[i] = Term(i) /\ g[i] = Weight(xs, D, i) * Poly(c, n, xs[i])
    BY <1>3
  <2>2. f \in [D -> Int] /\ g \in [D -> Int]
    BY <1>3, <1>4
  <2>3. QED BY <1>4, <2>1, <2>2
<1>6. ReconstructSecret(xs, value) = SumFunction(f) % P
  BY <1>2, <1>3 DEF ReconstructSecret
<1> HIDE DEF Term
<1>7. SumFunction(f) = SumFunctionOnSet(f, D)
  <2>1. DOMAIN f = D
    BY <1>5
  <2>2. QED BY <2>1 DEF SumFunction
<1>8. PICK sf \in Int, sg \in Int : sf = SumFunctionOnSet(f, D) /\ sg = SumFunctionOnSet(g, D)
  BY ONLY <1>2, <1>5, SumType
<1>9. Congruent(sf, sg)
  BY <1>2, <1>5, <1>8, SumCongruent
<1>10. sf % P \in Field /\ Congruent(sf % P, sf) /\ sf % P \in Int
  BY ModCongruent, FieldType
<1>11. Congruent(sf % P, sg)
  BY <1>9, <1>10, CongruentTrans
<1>12. AtZero(xs, 1..t, c, n) = sg
  BY <1>1, <1>3, <1>8 DEF AtZero
<1>13. QED BY <1>6, <1>7, <1>8, <1>10, <1>11, <1>12

LEMMA SeatsArePoints ==
  ASSUME NEW t \in Nat, NEW xs \in [1..t -> Peers], IsInjective(xs)
  PROVE  xs \in Points(1..t)
<1>1. \A i \in 1..t : xs[i] \in 1..(P - 1)
  BY PrimeType DEF Peers
<1>2. xs \in [1..t -> 1..(P - 1)]
  BY <1>1
<1>3. QED BY <1>2 DEF Points

\* "Any t shares can reconstruct the secret" (commit.go:114): whatever the polynomial
\* and in whatever order they come, t shares with different numbers are interpolated
\* and give back the secret that SplitSecret was called with.
THEOREM SharesReconstruct ==
  ASSUME NEW t \in Nat \ {0}, NEW f \in [0..(t - 1) -> Field],
         NEW xs \in [1..t -> Peers], IsInjective(xs)
  PROVE  CanInterpolate(xs) /\ ReconstructSecret(xs, SplitSecret(f, N)) = f[0]
<1>1. xs \in Points(1..t)
  BY SeatsArePoints
<1>2. f \in [0..(t - 1) -> Int] /\ 0 \in 0..(t - 1) /\ f[0] \in Field
  BY FieldType
<1>3. PICK c \in [Nat -> Int] : c = Extended(f) /\ c[0] = f[0]
  <2>1. 0 \in Int /\ t \in Nat
    OBVIOUS
  <2>2. QED BY <1>2, <2>1, ShareIsPoly
<1>4. ASSUME NEW i \in 1..t PROVE SplitSecret(f, N)[xs[i]] = Poly(c, t, xs[i]) % P
  <2>1. xs[i] \in 1..N /\ xs[i] \in Int /\ t \in Nat
    BY PrimeType DEF Peers
  <2>2. SplitSecret(f, N)[xs[i]] = ShareOf(f, xs[i])
    BY <2>1 DEF SplitSecret
  <2>3. ShareOf(f, xs[i]) = Poly(c, t, xs[i]) % P
    BY <1>2, <1>3, <2>1, ShareIsPoly
  <2>4. QED BY <2>2, <2>3
<1>5. PICK r \in Field : r = ReconstructSecret(xs, SplitSecret(f, N))
                         /\ Congruent(r, AtZero(xs, 1..t, c, t))
  BY <1>1, <1>4, ReconstructIsAtZero
<1>6. AtZero(xs, 1..t, c, t) \in Int /\ Congruent(AtZero(xs, 1..t, c, t), c[0])
  <2>1. IsFiniteSet(1..t) /\ Cardinality(1..t) = t
    BY FS_Interval
  <2>2. PICK D, k : D = 1..t /\ k = t
    OBVIOUS
  <2>3. IsFiniteSet(D) /\ xs \in Points(D) /\ c \in [Nat -> Int] /\ k \in Nat /\ k # 0 /\ k <= Cardinality(D)
    BY <1>1, <2>1, <2>2
  <2>4. AtZero(xs, D, c, k) \in Int /\ Congruent(AtZero(xs, D, c, k), c[0])
    BY ONLY <2>3, Interpolation
  <2>5. QED BY <2>2, <2>4
<1>7. Congruent(r, f[0])
  BY <1>2, <1>3, <1>5, <1>6, CongruentTrans, FieldType
<1>8. r = f[0]
  BY <1>2, <1>7, FieldCongruent
<1>9. QED BY <1>1, <1>5, <1>8, Interpolates

-----------------------------------------------------------------------------
(* The protocol: a peer collects shares with different numbers, so what it *)
(* rebuilds is the key.                                                    *)

\* sharesHeld of every peer: each share once.
SharesOnce ==
  held \in [Peers -> Seq(Peers)] /\ \A n \in Peers : IsInjective(held[n])

KeysInv ==
  /\ coeffs \in [0..(Threshold - 1) -> Field]
  /\ received \in SUBSET Peers /\ contrib \in SUBSET Peers
  /\ SharesOnce
  /\ key \in [Peers -> Field \cup {NoKey}]
  /\ RecoveredIsTheKey

LEMMA ThresholdType == Threshold \in Nat \ {0, 1}
<1>1. N \in Nat /\ (N + 1) \div 2 \in Int
  BY PrimeType
<1>2. PICK h \in Int : h = (N + 1) \div 2
  BY <1>1
<1>3. (IF h < 2 THEN 2 ELSE h) \in Nat \ {0, 1}
  OBVIOUS
<1>4. QED BY <1>2, <1>3 DEF Threshold

\* A share that is not there yet goes to the end.
LEMMA AppendOnce ==
  ASSUME NEW s \in Seq(Peers), IsInjective(s), NEW e \in Peers
  PROVE  /\ (IF Contains(s, e) THEN s ELSE Append(s, e)) \in Seq(Peers)
         /\ IsInjective(IF Contains(s, e) THEN s ELSE Append(s, e))
<1>1. CASE Contains(s, e)
  BY <1>1
<1>2. CASE ~Contains(s, e)
  <2>1. PICK m \in Nat : m = Len(s)
    BY LenProperties
  <2>2. DOMAIN s = 1..m /\ \A i \in 1..m : s[i] # e
    BY <1>2, <2>1, LenProperties DEF Contains
  <2>3. PICK u : u = Append(s, e)
    OBVIOUS
  <2>4. /\ u \in Seq(Peers) /\ Len(u) = m + 1 /\ u[m + 1] = e
        /\ \A i \in 1..m : u[i] = s[i]
    BY <2>1, <2>3, AppendProperties
  <2>5. DOMAIN u = 1..(m + 1)
    BY <2>4, LenProperties
  <2>6. ASSUME NEW i \in 1..(m + 1), NEW j \in 1..(m + 1), u[i] = u[j] PROVE i = j
    <3>1. (i \in 1..m \/ i = m + 1) /\ (j \in 1..m \/ j = m + 1)
      OBVIOUS
    <3>2. CASE i \in 1..m /\ j \in 1..m
      BY <2>2, <2>4, <2>6, <3>2 DEF IsInjective
    <3>3. CASE i \in 1..m /\ j = m + 1
      BY <2>2, <2>4, <2>6, <3>3
    <3>4. CASE i = m + 1 /\ j \in 1..m
      BY <2>2, <2>4, <2>6, <3>4
    <3>5. QED BY <3>1, <3>2, <3>3, <3>4
  <2>7. IsInjective(u)
    BY <2>5, <2>6 DEF IsInjective
  <2>8. QED BY <1>2, <2>3, <2>4, <2>7
<1>3. QED BY <1>1, <1>2

\* The first t shares that a peer has collected.
LEMMA FirstShares ==
  ASSUME NEW s \in Seq(Peers), IsInjective(s), NEW t \in Nat, t <= Len(s)
  PROVE  SubSeq(s, 1, t) \in [1..t -> Peers] /\ IsInjective(SubSeq(s, 1, t))
<1>1. PICK m \in Nat : m = Len(s) /\ DOMAIN s = 1..m /\ \A i \in 1..m : s[i] \in Peers
  BY LenProperties
<1>2. PICK u : u = SubSeq(s, 1, t)
  OBVIOUS
<1>3. \A i \in 1..t : s[i] \in Peers /\ i \in 1..m
  BY <1>1
<1>4. /\ u \in Seq(Peers) /\ Len(u) = (IF 1 <= t THEN t - 1 + 1 ELSE 0)
      /\ \A i \in 1..(t - 1 + 1) : u[i] = s[1 + i - 1]
  BY <1>2, <1>3, SubSeqProperties
<1>5. Len(u) = t /\ \A i \in 1..t : u[i] = s[i]
  BY <1>4
<1>6. u \in [1..t -> Peers] /\ DOMAIN u = 1..t
  BY <1>4, <1>5, LenProperties
<1>7. IsInjective(u)
  BY <1>1, <1>3, <1>5, <1>6 DEF IsInjective
<1>8. QED BY <1>2, <1>6, <1>7

LEMMA InitKeysInv == Init => KeysInv
<1> SUFFICES ASSUME Init PROVE KeysInv
  OBVIOUS
<1>1. coeffs \in [0..(Threshold - 1) -> Field]
  BY DEF Init, Polynomials
<1>2. << >> \in Seq(Peers) /\ IsInjective(<< >>)
  <2>1. DOMAIN << >> = {}
    OBVIOUS
  <2>2. QED BY <2>1, EmptySeq DEF IsInjective
<1>3. SharesOnce
  <2>1. held \in [Peers -> Seq(Peers)] /\ \A n \in Peers : held[n] = << >>
    BY <1>2 DEF Init
  <2>2. QED BY <1>2, <2>1 DEF SharesOnce
<1>4. key \in [Peers -> Field \cup {NoKey}] /\ RecoveredIsTheKey
  BY DEF Init, RecoveredIsTheKey
<1>5. QED BY <1>1, <1>3, <1>4 DEF Init, KeysInv

LEMMA NextKeysInv ==
  ASSUME KeysInv, [Next]_vars
  PROVE  KeysInv'
<1>1. /\ coeffs \in [0..(Threshold - 1) -> Field] /\ coeffs' = coeffs
  BY DEF KeysInv, Next, vars, Crash, StoreKeyShare, BroadcastMyShareFor,
         AddReconstructionShare, TryReconstructKey
<1>2. ASSUME UNCHANGED <<held, key>>, received' \in SUBSET Peers, contrib' \in SUBSET Peers
      PROVE  KeysInv'
  BY <1>1, <1>2 DEF KeysInv, SharesOnce, RecoveredIsTheKey
<1>3. ASSUME NEW n \in Peers, Crash(n) PROVE KeysInv'
  BY <1>2, <1>3 DEF Crash, KeysInv
<1>4. ASSUME NEW n \in Peers, StoreKeyShare(n) PROVE KeysInv'
  BY <1>2, <1>4 DEF StoreKeyShare, KeysInv
<1>5. ASSUME NEW n \in Peers, BroadcastMyShareFor(n) PROVE KeysInv'
  BY <1>2, <1>5 DEF BroadcastMyShareFor, KeysInv
<1>6. ASSUME NEW n \in Peers, NEW from \in Peers, AddReconstructionShare(n, from) PROVE KeysInv'
  <2>1. PICK h : h = IF Contains(held[n], from) THEN held[n] ELSE Append(held[n], from)
    OBVIOUS
  <2>2. h \in Seq(Peers) /\ IsInjective(h)
    <3>1. held[n] \in Seq(Peers) /\ IsInjective(held[n])
      BY DEF KeysInv, SharesOnce
    <3>2. QED BY <2>1, <3>1, AppendOnce
  <2>3. held' = [held EXCEPT ![n] = h] /\ UNCHANGED <<received, contrib, key>>
    BY <1>6, <2>1 DEF AddReconstructionShare
  <2>4. held \in [Peers -> Seq(Peers)] /\ \A m \in Peers : IsInjective(held[m])
    BY DEF KeysInv, SharesOnce
  <2>5. held' \in [Peers -> Seq(Peers)]
    BY <2>2, <2>3, <2>4
  <2>6. \A m \in Peers : IsInjective(held'[m])
    <3>1. \A m \in Peers : held'[m] = IF m = n THEN h ELSE held[m]
      BY <2>3, <2>4
    <3>2. QED BY <2>2, <2>4, <3>1
  <2>7. QED BY <1>1, <2>3, <2>5, <2>6 DEF KeysInv, SharesOnce, RecoveredIsTheKey
<1>7. ASSUME NEW n \in Peers, TryReconstructKey(n) PROVE KeysInv'
  <2>1. PICK xs : xs = SubSeq(held[n], 1, Threshold)
    OBVIOUS
  <2>2. /\ Len(held[n]) >= Threshold /\ key' = [key EXCEPT ![n] = ReconstructSecret(xs, Value)]
        /\ UNCHANGED <<received, contrib, held>>
    BY <1>7, <2>1 DEF TryReconstructKey
  <2>3. xs \in [1..Threshold -> Peers] /\ IsInjective(xs)
    <3>1. held[n] \in Seq(Peers) /\ IsInjective(held[n])
      BY DEF KeysInv, SharesOnce
    <3>2. Threshold \in Nat /\ Threshold <= Len(held[n])
      <4>1. Len(held[n]) \in Nat
        BY <3>1, LenProperties
      <4>2. QED BY <2>2, <4>1, ThresholdType
    <3>3. QED BY <2>1, <3>1, <3>2, FirstShares
  <2>4. ReconstructSecret(xs, Value) = coeffs[0] /\ coeffs[0] \in Field
    <3>1. PICK t \in Nat \ {0} : t = Threshold
      BY ThresholdType
    <3>2. coeffs \in [0..(t - 1) -> Field] /\ xs \in [1..t -> Peers] /\ 0 \in 0..(t - 1)
      BY <1>1, <2>3, <3>1
    <3>3. ReconstructSecret(xs, SplitSecret(coeffs, N)) = coeffs[0]
      BY <2>3, <3>2, SharesReconstruct
    <3>4. QED BY <3>2, <3>3 DEF Value
  <2>5. key' = [key EXCEPT ![n] = coeffs[0]] /\ key \in [Peers -> Field \cup {NoKey}]
    BY <2>2, <2>4 DEF KeysInv
  <2>6. key' \in [Peers -> Field \cup {NoKey}]
    BY <2>4, <2>5
  <2>7. \A m \in Peers : key'[m] \in {NoKey, coeffs[0]}
    BY <2>5 DEF KeysInv, RecoveredIsTheKey
  <2>8. QED BY <1>1, <2>2, <2>6, <2>7 DEF KeysInv, SharesOnce, RecoveredIsTheKey
<1>8. CASE UNCHANGED vars
  BY <1>2, <1>8 DEF vars, KeysInv
<1>9. QED BY <1>3, <1>4, <1>5, <1>6, <1>7, <1>8 DEF Next

\* What a peer rebuilds is the key of the peer that is gone, whatever shares it has got,
\* in whatever order and however often they came (AddReconstructionShare and
\* TryReconstructKey of shamir.go): for any number of peers, any prime and any key.
THEOREM OnlyTheKeyIsRecovered == Spec => []RecoveredIsTheKey
<1>1. KeysInv /\ [Next]_vars => KeysInv'
  BY NextKeysInv
<1>2. KeysInv => RecoveredIsTheKey
  BY DEF KeysInv
<1>3. QED BY InitKeysInv, <1>1, <1>2, PTL DEF Spec

-----------------------------------------------------------------------------
(* Fewer shares than the threshold: for every secret there is exactly one  *)
(* polynomial that they are the shares of.                                 *)

\* A polynomial that is zero at as many points as it has coefficients is zero.
LEMMA ZeroPolynomial ==
  ASSUME NEW D, IsFiniteSet(D), NEW pt \in Points(D)
  PROVE  \A n \in Nat : n <= Cardinality(D) =>
           \A c \in [Nat -> Int] :
             (\A i \in D : Congruent(Poly(c, n, pt[i]), 0)) =>
               \A k \in 0..(n - 1) : Congruent(c[k], 0)
<1> DEFINE Vanishes(c, n) == \A i \in D : Congruent(Poly(c, n, pt[i]), 0)
           Good == {n \in Nat : n <= Cardinality(D) =>
                      \A c \in [Nat -> Int] : Vanishes(c, n) => \A k \in 0..(n - 1) : Congruent(c[k], 0)}
<1>1. D \in SUBSET D /\ Cardinality(D) \in Nat
  BY FS_CardinalityType
<1>2. 0 \in Good
  OBVIOUS
<1>3. ASSUME NEW n \in Good PROVE n + 1 \in Good
  <2> SUFFICES ASSUME n + 1 <= Cardinality(D), NEW c \in [Nat -> Int], Vanishes(c, n + 1),
                      NEW k \in 0..((n + 1) - 1)
               PROVE  Congruent(c[k], 0)
    BY <1>3
  <2>1. n \in Nat /\ n + 1 \in Nat /\ n + 1 # 0 /\ n <= Cardinality(D) /\ c[0] \in Int
    BY <1>1, <1>3
  <2>2. Congruent(c[0], 0)
    <3>1. ASSUME NEW i \in D
          PROVE  /\ Weight(pt, D, i) * Poly(c, n + 1, pt[i]) \in Int
                 /\ Congruent(Weight(pt, D, i) * Poly(c, n + 1, pt[i]), 0)
      <4>1. PICK w \in Int, p \in Int : w = Weight(pt, D, i) /\ p = Poly(c, n + 1, pt[i])
        BY <1>1, <2>1, WeightType, PointType, PolyStep
      <4>2. Congruent(p, 0)
        BY <4>1
      <4>3. w * p \in Int
        OBVIOUS
      <4>4. Congruent(w * p, 0)
        BY <4>2, CongruentZero
      <4>5. QED BY <4>1, <4>3, <4>4
    <3>2. PICK f, z : /\ f = [i \in D |-> Weight(pt, D, i) * Poly(c, n + 1, pt[i])]
                      /\ z = [i \in D |-> 0]
      OBVIOUS
    <3>3. /\ f \in [D -> Int] /\ z \in [D -> Int] /\ \A i \in D : Congruent(f[i], z[i])
          /\ \A i \in D : z[i] = 0
      BY <3>1, <3>2
    <3>4. Congruent(SumFunctionOnSet(f, D), SumFunctionOnSet(z, D))
      BY ONLY <3>3, IsFiniteSet(D), SumCongruent
    <3>5. SumFunctionOnSet(z, D) = 0
      BY ONLY <3>3, IsFiniteSet(D), SumZeros
    <3>6. AtZero(pt, D, c, n + 1) = SumFunctionOnSet(f, D)
      BY <3>2 DEF AtZero
    <3>7. Congruent(AtZero(pt, D, c, n + 1), c[0]) /\ AtZero(pt, D, c, n + 1) \in Int
      <4>1. PICK l \in Nat : l = n + 1 /\ l # 0 /\ l <= Cardinality(D)
        BY <2>1
      <4>2. Congruent(AtZero(pt, D, c, l), c[0]) /\ AtZero(pt, D, c, l) \in Int
        BY <4>1, Interpolation
      <4>3. QED BY <4>1, <4>2
    <3>8. PICK a \in Int, e \in Int : a = AtZero(pt, D, c, n + 1) /\ e = c[0]
      BY <2>1, <3>7
    <3>9. Congruent(a, e) /\ Congruent(a, 0)
      BY <3>4, <3>5, <3>6, <3>7, <3>8
    <3>10. Congruent(e, 0)
      BY <3>9, CongruentSym, CongruentTrans
    <3>11. QED BY <3>8, <3>10
  <2>3. PICK d \in [Nat -> Int] : d = Shift(c) /\ \A i \in Nat : d[i] = c[i + 1]
    <3>1. \A i \in Nat : c[i + 1] \in Int
      OBVIOUS
    <3>2. Shift(c) \in [Nat -> Int]
      BY <3>1 DEF Shift
    <3>3. QED BY <3>2 DEF Shift
  <2>4. Vanishes(d, n)
    <3> SUFFICES ASSUME NEW i \in D PROVE Congruent(Poly(d, n, pt[i]), 0)
      OBVIOUS
    <3>1. PICK x \in Int, p \in Int, q \in Int, e \in Int :
            /\ x = pt[i] /\ p = Poly(d, n, x) /\ q = Poly(c, n + 1, x) /\ e = c[0]
      <4>1. PICK x \in Int : x = pt[i]
        BY PointType
      <4>2. Poly(d, n, x) \in Int /\ Poly(c, n + 1, x) \in Int
        BY <2>1, PolyStep
      <4>3. QED BY <2>1, <4>1, <4>2
    <3>2. q = e + x * p
      <4>1. Poly(c, n + 1, x) = c[0] + x * Poly(Shift(c), n, x)
        BY <2>1, PolyShift
      <4>2. QED BY <2>3, <3>1, <4>1
    <3>3. Congruent(q, 0) /\ Congruent(e, 0)
      BY <2>2, <3>1
    <3>4. Congruent(x * p, x * 0)
      <4>1. PICK k1 \in Int : q = 0 + k1 * P
        BY <3>3 DEF Congruent
      <4>2. PICK k2 \in Int : e = 0 + k2 * P
        BY <3>3 DEF Congruent
      <4>3. x * p = q - e
        <5>1. x * p \in Int
          OBVIOUS
        <5>2. QED BY <3>2, <5>1
      <4>4. x * p = x * 0 + (k1 - k2) * P /\ k1 - k2 \in Int
        BY <4>1, <4>2, <4>3, PrimeType
      <4>5. QED BY <4>4 DEF Congruent
    <3>5. Invertible(x)
      <4>1. x \in 1..(P - 1)
        BY <3>1, PointType
      <4>2. x \in Field /\ x # 0
        BY <4>1, PrimeType DEF Field
      <4>3. QED BY <4>2, FieldType DEF Invertible
    <3>6. Congruent(p, 0)
      BY <3>4, <3>5, CongruentCancel
    <3>7. QED BY <3>1, <3>6
  <2>5. \A j \in 0..(n - 1) : Congruent(d[j], 0)
    BY <1>3, <2>1, <2>4
  <2>6. CASE k = 0
    BY <2>2, <2>6
  <2>7. CASE k # 0
    <3>1. k - 1 \in 0..(n - 1) /\ k - 1 \in Nat /\ (k - 1) + 1 = k
      BY <2>1, <2>7
    <3>2. d[k - 1] = c[k]
      BY <2>3, <3>1
    <3>3. QED BY <2>5, <3>1, <3>2
  <2>8. QED BY <2>6, <2>7
<1> HIDE DEF Good
<1>4. Good = Nat
  <2>1. Good \in SUBSET Nat BY DEF Good
  <2>2. QED BY <1>2, <1>3, <2>1, NaturalInduction
<1>5. QED BY <1>4 DEF Good

\* The difference of two polynomials has the differences as its values.
LEMMA PolyDifference ==
  ASSUME NEW b \in [Nat -> Int], NEW c \in [Nat -> Int], NEW d \in [Nat -> Int],
         \A i \in Nat : d[i] = b[i] - c[i], NEW x \in Int
  PROVE  \A n \in Nat : Poly(d, n, x) = Poly(b, n, x) - Poly(c, n, x)
<1> DEFINE Good == {n \in Nat : Poly(d, n, x) = Poly(b, n, x) - Poly(c, n, x)}
<1>1. 0 \in Good
  <2>1. Poly(b, 0, x) = 0 /\ Poly(c, 0, x) = 0 /\ Poly(d, 0, x) = 0
    BY PolyStep
  <2>2. QED BY <2>1
<1>2. ASSUME NEW n \in Good PROVE n + 1 \in Good
  <2>1. n \in Nat /\ n + 1 \in Nat
    BY <1>2
  <2>2. PICK u \in Int, v \in Int, y \in Int, r \in Int, s \in Int :
          /\ u = Poly(b, n, x) /\ v = Poly(c, n, x) /\ y = Power(x, n) /\ r = b[n] /\ s = c[n]
    BY <2>1, PolyStep, PowerStep
  <2>3. Poly(b, n + 1, x) = r * y + u
    BY <2>1, <2>2, PolyStep
  <2>4. Poly(c, n + 1, x) = s * y + v
    BY <2>1, <2>2, PolyStep
  <2>5. Poly(d, n + 1, x) = (r - s) * y + (u - v)
    <3>1. Poly(d, n + 1, x) = d[n] * Power(x, n) + Poly(d, n, x)
      BY <2>1, PolyStep
    <3>2. d[n] = r - s
      BY <2>1, <2>2
    <3>3. Poly(d, n, x) = u - v
      BY <1>2, <2>2
    <3>4. QED BY <2>2, <3>1, <3>2, <3>3
  <2>6. (r - s) * y + (u - v) = (r * y + u) - (s * y + v)
    OBVIOUS
  <2>7. QED BY <2>1, <2>3, <2>4, <2>5, <2>6
<1> HIDE DEF Good
<1>3. Good = Nat
  <2>1. Good \in SUBSET Nat BY DEF Good
  <2>2. QED BY <1>1, <1>2, <2>1, NaturalInduction
<1>4. QED BY <1>3 DEF Good

LEMMA PointInvertible == ASSUME NEW x \in 1..(P - 1) PROVE Invertible(x)
<1>1. x \in Field /\ x # 0
  BY PrimeType DEF Field
<1>2. QED BY <1>1, FieldType DEF Invertible

\* The polynomial of the differences.
Minus(b, c) == [i \in Nat |-> b[i] - c[i]]

LEMMA PolyMinus ==
  ASSUME NEW b \in [Nat -> Int], NEW c \in [Nat -> Int], NEW x \in Int, NEW n \in Nat
  PROVE  Poly(Minus(b, c), n, x) = Poly(b, n, x) - Poly(c, n, x)
<1>1. PICK d : d = Minus(b, c)
  OBVIOUS
<1>2. \A i \in Nat : d[i] = b[i] - c[i] /\ d[i] \in Int
  BY <1>1 DEF Minus
<1>3. d \in [Nat -> Int]
  BY <1>1, <1>2 DEF Minus
<1>4. \A i \in Nat : d[i] = b[i] - c[i]
  BY <1>2
<1>5. \A k \in Nat : Poly(d, k, x) = Poly(b, k, x) - Poly(c, k, x)
  BY <1>3, <1>4, PolyDifference
<1>6. QED BY <1>1, <1>5

LEMMA MinusVanishes ==
  ASSUME NEW b \in [Nat -> Int], NEW c \in [Nat -> Int], NEW x \in Int, NEW n \in Nat,
         Poly(b, n, x) % P = Poly(c, n, x) % P
  PROVE  Congruent(Poly(Minus(b, c), n, x), 0)
<1>1. PICK u \in Int, v \in Int : u = Poly(b, n, x) /\ v = Poly(c, n, x)
  BY PolyStep
<1>2. Poly(Minus(b, c), n, x) = u - v
  BY <1>1, PolyMinus
<1>3. Congruent(u, v)
  BY <1>1, CongruentMod
<1>4. PICK k \in Int : u = v + k * P
  BY <1>3 DEF Congruent
<1>5. k * P \in Int
  BY PrimeType
<1>6. u - v = 0 + k * P
  BY <1>4, <1>5
<1>7. QED BY <1>2, <1>6 DEF Congruent

LEMMA CoefficientsType ==
  ASSUME NEW t \in Nat, NEW f, f \in [0..t -> Field]
  PROVE  /\ Extended(f) \in [Nat -> Int] /\ \A i \in 0..t : Extended(f)[i] = f[i]
         /\ \A x \in Int : ShareOf(f, x) = Poly(Extended(f), t + 1, x) % P
<1>1. PICK m \in Nat : m = t + 1 /\ m - 1 = t
  OBVIOUS
<1>2. f \in [0..(m - 1) -> Int] /\ 0 \in Int
  BY <1>1, FieldType
<1>3. /\ Extended(f) \in [Nat -> Int] /\ \A i \in 0..(m - 1) : Extended(f)[i] = f[i]
      /\ \A x \in Int : ShareOf(f, x) = Poly(Extended(f), m, x) % P
  BY <1>2, ShareIsPoly
<1>4. QED BY <1>1, <1>3

\* Of the polynomials with one secret no two have the same shares at as many
\* points as there are coefficients to be drawn.
LEMMA OnePolynomial ==
  ASSUME NEW t \in Nat, NEW xs \in Points(1..t),
         NEW f, f \in [0..t -> Field], NEW g, g \in [0..t -> Field],
         f[0] = g[0], \A i \in 1..t : ShareOf(f, xs[i]) = ShareOf(g, xs[i])
  PROVE  f = g
<1>1. /\ Extended(f) \in [Nat -> Int] /\ \A i \in 0..t : Extended(f)[i] = f[i]
      /\ \A x \in Int : ShareOf(f, x) = Poly(Extended(f), t + 1, x) % P
  BY CoefficientsType
<1>2. /\ Extended(g) \in [Nat -> Int] /\ \A i \in 0..t : Extended(g)[i] = g[i]
      /\ \A x \in Int : ShareOf(g, x) = Poly(Extended(g), t + 1, x) % P
  BY CoefficientsType
<1>3. PICK b \in [Nat -> Int] :
        /\ \A i \in 0..t : b[i] = f[i]
        /\ \A x \in Int : ShareOf(f, x) = Poly(b, t + 1, x) % P
  BY <1>1
<1>4. PICK c \in [Nat -> Int] :
        /\ \A i \in 0..t : c[i] = g[i]
        /\ \A x \in Int : ShareOf(g, x) = Poly(c, t + 1, x) % P
  BY <1>2
<1>5. PICK d \in [Nat -> Int] : d = Minus(b, c) /\ \A i \in Nat : d[i] = b[i] - c[i]
  <2>1. \A i \in Nat : b[i] - c[i] \in Int
    OBVIOUS
  <2>2. Minus(b, c) \in [Nat -> Int]
    BY <2>1 DEF Minus
  <2>3. QED BY <2>2 DEF Minus
<1>6. d[0] = 0
  <2>1. 0 \in 0..t /\ 0 \in Nat /\ f[0] \in Int
    BY FieldType
  <2>2. b[0] = f[0] /\ c[0] = f[0]
    BY <1>3, <1>4, <2>1
  <2>3. QED BY <1>5, <2>1, <2>2
<1>7. PICK e \in [Nat -> Int] : e = Shift(d) /\ \A i \in Nat : e[i] = d[i + 1]
  <2>1. \A i \in Nat : d[i + 1] \in Int
    OBVIOUS
  <2>2. Shift(d) \in [Nat -> Int]
    BY <2>1 DEF Shift
  <2>3. QED BY <2>2 DEF Shift
<1>8. ASSUME NEW i \in 1..t PROVE Congruent(Poly(e, t, xs[i]), 0)
  <2>1. PICK x \in Int : x = xs[i] /\ x \in 1..(P - 1)
    BY PointType
  <2>2. PICK m \in Nat : m = t + 1
    OBVIOUS
  <2>3. PICK w \in Int, p \in Int : w = Poly(d, m, x) /\ p = Poly(e, t, x)
    BY PolyStep
  <2>4. Poly(b, m, x) % P = Poly(c, m, x) % P
    <3>1. ShareOf(f, x) = ShareOf(g, x)
      BY <2>1
    <3>2. QED BY <1>3, <1>4, <2>2, <3>1
  <2>5. Congruent(w, 0)
    BY <1>5, <2>3, <2>4, MinusVanishes
  <2>6. w = x * p
    <3>1. Poly(d, t + 1, x) = d[0] + x * Poly(e, t, x)
      BY <1>7, PolyShift
    <3>2. QED BY <1>6, <2>2, <2>3, <3>1
  <2>7. Congruent(x * p, x * 0)
    BY <2>5, <2>6, ZeroProduct
  <2>8. Invertible(x)
    <3>1. x \in 1..(P - 1)
      BY <2>1
    <3>2. QED BY ONLY <3>1, PointInvertible
  <2>9. Congruent(p, 0)
    BY <2>7, <2>8, CongruentCancel
  <2>10. QED BY <2>1, <2>3, <2>9
<1>9. \A k \in 0..(t - 1) : Congruent(e[k], 0)
  <2>1. PICK D : D = 1..t
    OBVIOUS
  <2>2. IsFiniteSet(D) /\ Cardinality(D) = t
    BY ONLY t \in Nat, <2>1, FS_Interval
  <2>3. xs \in Points(D) /\ e \in [Nat -> Int] /\ \A i \in D : Congruent(Poly(e, t, xs[i]), 0)
    BY <1>8, <2>1
  <2>4. t \in Nat /\ t <= Cardinality(D)
    BY <2>2
  <2>5. QED BY ONLY <2>2, <2>3, <2>4, ZeroPolynomial
<1>10. ASSUME NEW k \in 0..t PROVE f[k] = g[k]
  <2>1. CASE k = 0
    BY <2>1
  <2>2. CASE k # 0
    <3>1. k - 1 \in 0..(t - 1) /\ k - 1 \in Nat /\ (k - 1) + 1 = k /\ k \in Nat
      BY <2>2
    <3>2. PICK r \in Field, s \in Field : r = f[k] /\ s = g[k] /\ r \in Int /\ s \in Int
      BY FieldType
    <3>3. e[k - 1] = r - s
      BY <1>3, <1>4, <1>5, <1>7, <3>1, <3>2
    <3>4. Congruent(r - s, 0)
      BY <1>9, <3>1, <3>3
    <3>5. PICK q \in Int : r - s = 0 + q * P
      BY <3>4 DEF Congruent
    <3>6. r = s + q * P
      <4>1. q * P \in Int
        BY PrimeType
      <4>2. QED BY <3>2, <3>5, <4>1
    <3>7. QED BY <3>2, <3>6, FieldCongruent DEF Congruent
  <2>3. QED BY <2>1, <2>2
<1>11. QED
  <2>1. DOMAIN f = 0..t /\ DOMAIN g = 0..t
    OBVIOUS
  <2>2. f = [k \in 0..t |-> f[k]] /\ g = [k \in 0..t |-> g[k]]
    OBVIOUS
  <2>3. QED BY <1>10, <2>2

\* There are finitely many ways to give t coefficients or t shares.
LEMMA FiniteFunctions ==
  ASSUME NEW S, IsFiniteSet(S), NEW V, IsFiniteSet(V)
  PROVE  IsFiniteSet([S -> V])
<1> DEFINE Graph(f) == {<<x, f[x]>> : x \in S}
           G == [f \in [S -> V] |-> Graph(f)]
<1>1. IsFiniteSet(SUBSET (S \X V))
  BY FS_Product, FS_SUBSET
<1>2. ASSUME NEW f \in [S -> V] PROVE Graph(f) \in SUBSET (S \X V)
  OBVIOUS
<1>3. G \in [[S -> V] -> SUBSET (S \X V)]
  BY <1>2
<1>4. ASSUME NEW f \in [S -> V], NEW g \in [S -> V], Graph(f) = Graph(g) PROVE f = g
  <2>1. ASSUME NEW x \in S PROVE f[x] = g[x]
    <3>1. <<x, f[x]>> \in Graph(g)
      BY <1>4
    <3>2. PICK y \in S : <<x, f[x]>> = <<y, g[y]>>
      BY <3>1
    <3>3. QED BY <3>2
  <2>2. f = [x \in S |-> f[x]] /\ g = [x \in S |-> g[x]]
    OBVIOUS
  <2>3. QED BY <2>1, <2>2
<1>5. PICK H : H = G
  OBVIOUS
<1>6. /\ H \in [[S -> V] -> SUBSET (S \X V)] /\ DOMAIN H = [S -> V]
      /\ \A f \in [S -> V] : H[f] = Graph(f)
  BY <1>3, <1>5
<1> HIDE DEF Graph, G
<1>7. IsInjective(H)
  BY <1>4, <1>6 DEF IsInjective
<1>8. H \in Injection([S -> V], SUBSET (S \X V))
  BY <1>6, <1>7 DEF Injection
<1>9. PICK A, B : A = [S -> V] /\ B = SUBSET (S \X V)
  OBVIOUS
<1>10. H \in Injection(A, B) /\ IsFiniteSet(B)
  BY <1>1, <1>8, <1>9
<1>11. IsFiniteSet(A)
  BY ONLY <1>10, FS_Injection
<1>12. QED BY <1>9, <1>11

\* The coefficients that SplitSecret draws, after the secret.
WithSecret(secret, t, a) == [k \in 0..t |-> IF k = 0 THEN secret ELSE a[k]]

SharesAt(xs, t, f) == [i \in 1..t |-> ShareOf(f, xs[i])]

LEMMA SharesType ==
  ASSUME NEW t \in Nat, NEW f, f \in [0..t -> Field], NEW x \in Int
  PROVE  ShareOf(f, x) \in Field
<1>1. /\ Extended(f) \in [Nat -> Int]
      /\ ShareOf(f, x) = Poly(Extended(f), t + 1, x) % P
  BY CoefficientsType
<1>2. t + 1 \in Nat
  OBVIOUS
<1>3. Poly(Extended(f), t + 1, x) \in Int
  BY <1>1, <1>2, PolyStep
<1>4. QED BY <1>1, <1>3, ModCongruent

LEMMA WithSecretType ==
  ASSUME NEW t \in Nat, NEW secret \in Field, NEW a, a \in [1..t -> Field]
  PROVE  /\ WithSecret(secret, t, a) \in [0..t -> Field] /\ WithSecret(secret, t, a)[0] = secret
         /\ \A k \in 1..t : WithSecret(secret, t, a)[k] = a[k]
<1>1. \A k \in 0..t : k # 0 => k \in 1..t
  OBVIOUS
<1>2. \A k \in 0..t : (IF k = 0 THEN secret ELSE a[k]) \in Field
  BY <1>1
<1>3. WithSecret(secret, t, a) \in [0..t -> Field]
  BY <1>2 DEF WithSecret
<1>4. 0 \in 0..t /\ \A k \in 1..t : k \in 0..t /\ k # 0
  OBVIOUS
<1>5. QED BY <1>3, <1>4 DEF WithSecret

\* With one secret, different coefficients have different shares.
LEMMA SharesDiffer ==
  ASSUME NEW t \in Nat, NEW xs \in Points(1..t), NEW secret \in Field,
         NEW a, a \in [1..t -> Field], NEW b, b \in [1..t -> Field],
         SharesAt(xs, t, WithSecret(secret, t, a)) = SharesAt(xs, t, WithSecret(secret, t, b))
  PROVE  a = b
<1>1. PICK f, g : f = WithSecret(secret, t, a) /\ g = WithSecret(secret, t, b)
  OBVIOUS
<1>2. /\ f \in [0..t -> Field] /\ f[0] = secret /\ \A k \in 1..t : f[k] = a[k]
      /\ g \in [0..t -> Field] /\ g[0] = secret /\ \A k \in 1..t : g[k] = b[k]
  BY <1>1, WithSecretType
<1>3. \A i \in 1..t : ShareOf(f, xs[i]) = ShareOf(g, xs[i])
  <2>1. SharesAt(xs, t, f) = SharesAt(xs, t, g)
    BY <1>1
  <2>2. \A i \in 1..t : SharesAt(xs, t, f)[i] = ShareOf(f, xs[i])
                        /\ SharesAt(xs, t, g)[i] = ShareOf(g, xs[i])
    BY DEF SharesAt
  <2>3. QED BY <2>1, <2>2
<1>4. f[0] = g[0]
  BY <1>2
<1>5. f = g
  BY <1>2, <1>3, <1>4, OnePolynomial
<1>6. a = [k \in 1..t |-> a[k]] /\ b = [k \in 1..t |-> b[k]]
  OBVIOUS
<1>7. QED BY <1>2, <1>5, <1>6

LEMMA SharesAtType ==
  ASSUME NEW t \in Nat, NEW xs \in Points(1..t), NEW f, f \in [0..t -> Field]
  PROVE  SharesAt(xs, t, f) \in [1..t -> Field]
<1>1. \A i \in 1..t : xs[i] \in Int
  BY PointType
<1>2. \A i \in 1..t : ShareOf(f, xs[i]) \in Field
  BY <1>1, SharesType
<1>3. QED BY <1>2 DEF SharesAt

\* There are as many lists of coefficients as there are lists of shares, so every
\* list of shares is that of some coefficients.
LEMMA SharesExplained ==
  ASSUME NEW t \in Nat, NEW xs \in Points(1..t), NEW secret \in Field,
         NEW y, y \in [1..t -> Field]
  PROVE  \E f \in [0..t -> Field] : f[0] = secret /\ SharesAt(xs, t, f) = y
<1>1. PICK A : A = [1..t -> Field]
  OBVIOUS
<1>2. IsFiniteSet(A)
  <2>1. PICK S, V : S = 1..t /\ V = Field
    OBVIOUS
  <2>2. IsFiniteSet(S) /\ IsFiniteSet(V)
    BY <2>1, FS_Interval, PrimeType DEF Field
  <2>3. IsFiniteSet([S -> V])
    BY ONLY <2>2, FiniteFunctions
  <2>4. QED BY <1>1, <2>1, <2>3
<1>3. ASSUME NEW a \in A PROVE SharesAt(xs, t, WithSecret(secret, t, a)) \in A
  BY <1>1, WithSecretType, SharesAtType
<1>4. PICK G : G = [a \in A |-> SharesAt(xs, t, WithSecret(secret, t, a))]
  OBVIOUS
<1>5. G \in [A -> A] /\ DOMAIN G = A
      /\ \A a \in A : G[a] = SharesAt(xs, t, WithSecret(secret, t, a))
  BY <1>3, <1>4
<1>6. \A a, b \in A : G[a] = G[b] => a = b
  BY <1>1, <1>5, SharesDiffer
<1>7. G \in Injection(A, A)
  BY <1>5, <1>6 DEF Injection, IsInjective
<1>8. G \in Surjection(A, A)
  BY ONLY <1>2, <1>7, FS_Injection
<1>9. PICK a \in A : G[a] = y
  BY <1>1, <1>8 DEF Surjection
<1>10. PICK f : f = WithSecret(secret, t, a)
  OBVIOUS
<1>11. f \in [0..t -> Field] /\ f[0] = secret
  BY <1>1, <1>9, <1>10, WithSecretType
<1>12. SharesAt(xs, t, f) = y
  BY <1>5, <1>9, <1>10
<1>13. QED BY <1>11, <1>12

\* The polynomials with this secret that have these shares.
Explaining(secret, t, xs, y) ==
  {f \in Polynomials(secret, t + 1) : \A i \in 1..t : ShareOf(f, xs[i]) = y[i]}

LEMMA OneExplains ==
  ASSUME NEW t \in Nat, NEW xs \in [1..t -> Peers], IsInjective(xs),
         NEW secret \in Field, NEW y, y \in [1..t -> Field]
  PROVE  Cardinality(Explaining(secret, t, xs, y)) = 1
<1> DEFINE Explains(f) == \A i \in 1..t : ShareOf(f, xs[i]) = y[i]
<1>1. xs \in Points(1..t)
  BY SeatsArePoints
<1>2. Polynomials(secret, t + 1) = {f \in [0..t -> Field] : f[0] = secret}
  <2>1. (t + 1) - 1 = t
    OBVIOUS
  <2>2. QED BY <2>1 DEF Polynomials
<1>3. PICK f : f \in [0..t -> Field] /\ f[0] = secret /\ Explains(f)
  <2>1. PICK f : f \in [0..t -> Field] /\ f[0] = secret /\ SharesAt(xs, t, f) = y
    BY <1>1, SharesExplained
  <2>2. Explains(f)
    BY <2>1 DEF SharesAt
  <2>3. QED BY <2>1, <2>2
<1>4. ASSUME NEW g, g \in [0..t -> Field], g[0] = secret, Explains(g) PROVE g = f
  <2>1. g[0] = f[0] /\ \A i \in 1..t : ShareOf(g, xs[i]) = ShareOf(f, xs[i])
    BY <1>3, <1>4
  <2>2. QED BY <1>1, <1>3, <1>4, <2>1, OnePolynomial
<1> HIDE DEF Explains
<1>5. {g \in Polynomials(secret, t + 1) : Explains(g)} = {f}
  BY <1>2, <1>3, <1>4
<1>6. Cardinality({f}) = 1
  BY FS_Singleton
<1>7. QED BY <1>5, <1>6 DEF Explains, Explaining

\* "fewer than t reveal nothing" (commit.go:115): one share less than the threshold,
\* with whatever values, is explained by exactly one polynomial for every secret, so
\* it tells no secret from another.
THEOREM FewerSharesHide ==
  ASSUME NEW t \in Nat, NEW xs \in [1..t -> Peers], IsInjective(xs),
         NEW secret \in Field, NEW y, y \in [1..t -> Field]
  PROVE  Cardinality({f \in Polynomials(secret, t + 1) :
                        \A i \in 1..t : ShareOf(f, xs[i]) = y[i]}) = 1
<1>1. Explaining(secret, t, xs, y)
        = {f \in Polynomials(secret, t + 1) : \A i \in 1..t : ShareOf(f, xs[i]) = y[i]}
  BY DEF Explaining
<1>2. QED BY <1>1, OneExplains

\* The coefficients keep their type, so both facts hold of what the owner has split.
LEMMA SchemeHolds == KeysInv => ThresholdScheme
<1> SUFFICES ASSUME KeysInv PROVE ThresholdScheme
  OBVIOUS
<1>1. PICK m : m = Threshold /\ m \in Nat \ {0, 1}
  BY ThresholdType
<1>2. PICK c : c = coeffs /\ c \in [0..(m - 1) -> Field]
  BY <1>1 DEF KeysInv
<1>3. 0 \in 0..(m - 1) /\ c[0] \in Field
  BY <1>1, <1>2
<1>4. ASSUME NEW t \in m..(N - 1), NEW f, f \in Polynomials(c[0], t),
             NEW xs, xs \in [1..t -> Peers], IsInjective(xs)
      PROVE  CanInterpolate(xs) /\ ReconstructSecret(xs, SplitSecret(f, N)) = c[0]
  <2>1. t \in Nat \ {0}
    BY <1>1
  <2>2. f \in [0..(t - 1) -> Field] /\ f[0] = c[0]
    BY <1>4 DEF Polynomials
  <2>3. CanInterpolate(xs) /\ ReconstructSecret(xs, SplitSecret(f, N)) = f[0]
    BY ONLY <2>1, <2>2, <1>4, SharesReconstruct
  <2>4. QED BY <2>2, <2>3
<1>5. QuorumRecovers
  BY <1>1, <1>2, <1>4 DEF QuorumRecovers
<1>6. ASSUME NEW xs, xs \in [1..(m - 1) -> Peers], IsInjective(xs), NEW secret \in Field
      PROVE  Cardinality({f \in Polynomials(secret, m) :
                            \A i \in DOMAIN xs : ShareOf(f, xs[i]) = Value[xs[i]]}) = 1
  <2>1. PICK t \in Nat : t = m - 1 /\ t + 1 = m
    BY <1>1
  <2>2. xs \in [1..t -> Peers] /\ DOMAIN xs = 1..t
    BY <1>6, <2>1
  <2>3. ASSUME NEW i \in 1..t PROVE Value[xs[i]] \in Field
    <3>1. xs[i] \in 1..N /\ xs[i] \in Int
      BY <2>2, PrimeType DEF Peers
    <3>2. Value[xs[i]] = ShareOf(c, xs[i])
      BY <1>2, <3>1 DEF Value, SplitSecret
    <3>3. c \in [0..t -> Field]
      BY <1>2, <2>1
    <3>4. QED BY <3>1, <3>2, <3>3, SharesType
  <2>4. PICK y : y = [i \in 1..t |-> Value[xs[i]]]
    OBVIOUS
  <2>5. y \in [1..t -> Field] /\ \A i \in 1..t : y[i] = Value[xs[i]]
    BY <2>3, <2>4
  <2>6. Cardinality(Explaining(secret, t, xs, y)) = 1
    BY <1>6, <2>2, <2>5, OneExplains
  <2>7. Explaining(secret, t, xs, y)
          = {f \in Polynomials(secret, m) : \A i \in DOMAIN xs : ShareOf(f, xs[i]) = Value[xs[i]]}
    BY <2>1, <2>2, <2>5 DEF Explaining
  <2>8. QED BY <2>6, <2>7
<1>7. FewerRevealNothing
  BY <1>1, <1>6 DEF FewerRevealNothing
<1>8. QED BY <1>5, <1>7 DEF ThresholdScheme

\* "Any t shares can reconstruct; fewer than t reveal nothing" (commit.go:114): so it
\* is of the key that SplitAndDistribute has split, for every prime, every number of
\* seats and every polynomial that may be drawn.
THEOREM TheSchemeHasAThreshold == Spec => []ThresholdScheme
<1>1. KeysInv /\ [Next]_vars => KeysInv'
  BY NextKeysInv
<1>2. QED BY <1>1, InitKeysInv, SchemeHolds, PTL DEF Spec

-----------------------------------------------------------------------------
(* What a peer has collected are the shares of others that broadcast them. *)

OthersInv ==
  /\ contrib \in SUBSET Peers /\ SharesOnce
  /\ \A n \in Peers : \A i \in DOMAIN held[n] : held[n][i] \in contrib \ {n}
  /\ key \in [Peers -> Field \cup {NoKey}]
  /\ KeyTakesOthers

\* As many different shares as the threshold come from as many peers.
LEMMA SharesOfOthers ==
  ASSUME NEW s \in Seq(Peers), IsInjective(s), NEW t \in Nat, t <= Len(s),
         NEW S \in SUBSET Peers, \A i \in DOMAIN s : s[i] \in S
  PROVE  Cardinality(S) >= t
<1>1. PICK m \in Nat : m = Len(s) /\ DOMAIN s = 1..m
  BY LenProperties
<1>2. IsFiniteSet(Peers)
  BY PrimeType, FS_Interval DEF Peers
<1>3. IsFiniteSet(S) /\ Cardinality(S) \in Nat
  BY <1>2, FS_Subset, FS_CardinalityType
<1>4. PICK D : D = 1..m
  OBVIOUS
<1>5. IsFiniteSet(D) /\ Cardinality(D) = m
  BY ONLY m \in Nat, <1>4, FS_Interval
<1>6. s \in Injection(D, S)
  <2>1. s \in [D -> S]
    BY <1>1, <1>4, LenProperties
  <2>2. QED BY <2>1 DEF Injection
<1>7. Cardinality(D) <= Cardinality(S)
  BY ONLY <1>3, <1>5, <1>6, FS_Injection
<1>8. QED BY <1>1, <1>3, <1>5, <1>7

LEMMA InitOthers == Init => OthersInv
<1> SUFFICES ASSUME Init PROVE OthersInv
  OBVIOUS
<1>1. KeysInv
  BY InitKeysInv
<1>2. \A n \in Peers : DOMAIN held[n] = {} /\ key[n] = NoKey
  BY DEF Init
<1>3. QED BY <1>1, <1>2 DEF KeysInv, OthersInv, KeyTakesOthers

\* No peer stops having broadcast its share.
LEMMA OthersStay ==
  ASSUME OthersInv, SharesOnce', contrib' \in SUBSET Peers, contrib \subseteq contrib',
         key' \in [Peers -> Field \cup {NoKey}],
         \A n \in Peers : key'[n] = key[n] \/ Cardinality(contrib \ {n}) >= Threshold,
         \A n \in Peers : \A i \in DOMAIN held'[n] : held'[n][i] \in contrib' \ {n}
  PROVE  OthersInv'
<1>1. ASSUME NEW n \in Peers \ {Owner}, key'[n] # NoKey
      PROVE  Cardinality(contrib' \ {n}) >= Threshold
  <2>1. PICK S, T : S = contrib \ {n} /\ T = contrib' \ {n}
    OBVIOUS
  <2>2. Cardinality(S) >= Threshold
    BY <1>1, <2>1 DEF OthersInv, KeyTakesOthers
  <2>3. S \subseteq T /\ S \subseteq Peers /\ T \subseteq Peers
    BY <2>1 DEF OthersInv
  <2>4. IsFiniteSet(Peers)
    BY PrimeType, FS_Interval DEF Peers
  <2>5. IsFiniteSet(S) /\ IsFiniteSet(T)
    BY <2>3, <2>4, FS_Subset
  <2>6. Cardinality(S) \in Nat /\ Cardinality(T) \in Nat /\ Cardinality(S) <= Cardinality(T)
    BY <2>3, <2>5, FS_Subset, FS_CardinalityType
  <2>7. Cardinality(T) >= Threshold
    BY <2>2, <2>6, ThresholdType
  <2>8. QED BY <2>1, <2>7
<1>2. KeyTakesOthers'
  BY <1>1 DEF KeyTakesOthers
<1>3. QED BY <1>2 DEF OthersInv

LEMMA NextOthers == KeysInv /\ OthersInv /\ [Next]_vars => OthersInv'
<1> SUFFICES ASSUME KeysInv, OthersInv, [Next]_vars PROVE OthersInv'
  OBVIOUS
<1>1. KeysInv'
  BY NextKeysInv
<1>2. /\ SharesOnce' /\ contrib' \in SUBSET Peers /\ key' \in [Peers -> Field \cup {NoKey}]
      /\ held \in [Peers -> Seq(Peers)] /\ key \in [Peers -> Field \cup {NoKey}]
  BY <1>1 DEF KeysInv, SharesOnce
<1>3. ASSUME UNCHANGED <<held, key>>, contrib \subseteq contrib' PROVE OthersInv'
  <2>1. \A n \in Peers : \A i \in DOMAIN held'[n] : held'[n][i] \in contrib' \ {n}
    BY <1>3 DEF OthersInv
  <2>2. QED BY <1>2, <1>3, <2>1, OthersStay
<1>4. ASSUME NEW n \in Peers,
             Crash(n) \/ StoreKeyShare(n) \/ BroadcastMyShareFor(n)
      PROVE  OthersInv'
  BY <1>3, <1>4 DEF Crash, StoreKeyShare, BroadcastMyShareFor
<1>5. ASSUME NEW n \in Peers, NEW from \in Peers, AddReconstructionShare(n, from)
      PROVE  OthersInv'
  <2>1. /\ from \in contrib \ {n} /\ UNCHANGED <<contrib, key>>
        /\ held' = [held EXCEPT ![n] = IF Contains(@, from) THEN @ ELSE Append(@, from)]
    BY <1>5 DEF AddReconstructionShare
  <2>2. ASSUME NEW m \in Peers, NEW i \in DOMAIN held'[m]
        PROVE  held'[m][i] \in contrib' \ {m}
    <3>1. held'[m] = held[m] \/ (m = n /\ held'[m] = Append(held[n], from))
      BY <1>2, <2>1
    <3>2. CASE held'[m] = held[m]
      BY <2>1, <2>2, <3>2 DEF OthersInv
    <3>3. CASE m = n /\ held'[m] = Append(held[n], from)
      <4>1. PICK s, u : s = held[n] /\ u = Append(held[n], from)
        OBVIOUS
      <4>2. s \in Seq(Peers) /\ u = Append(s, from) /\ from \in Peers
        BY <1>2, <4>1
      <4>3. /\ u \in Seq(Peers) /\ Len(s) \in Nat /\ Len(u) = Len(s) + 1
            /\ u[Len(s) + 1] = from /\ \A j \in 1..Len(s) : u[j] = s[j]
            /\ DOMAIN s = 1..Len(s)
        BY ONLY <4>2, AppendProperties, LenProperties
      <4>4. DOMAIN u = 1..(Len(s) + 1)
        BY ONLY <4>3, LenProperties
      <4>5. \A j \in DOMAIN s : s[j] \in contrib \ {n}
        BY <4>1 DEF OthersInv
      <4>6. \A j \in DOMAIN u : u[j] \in contrib \ {n}
        BY ONLY <2>1, <4>3, <4>4, <4>5
      <4>7. QED BY <2>1, <2>2, <3>3, <4>1, <4>6
    <3>4. QED BY <3>1, <3>2, <3>3
  <2>3. QED BY <1>2, <2>1, <2>2, OthersStay
<1>6. ASSUME NEW n \in Peers, TryReconstructKey(n) PROVE OthersInv'
  <2>1. /\ Len(held[n]) >= Threshold /\ UNCHANGED <<contrib, held>>
        /\ \A m \in Peers \ {n} : key'[m] = key[m]
    BY <1>6, <1>2 DEF TryReconstructKey
  <2>2. PICK s, S, t : s = held[n] /\ S = contrib \ {n} /\ t = Threshold
    OBVIOUS
  <2>3. /\ s \in Seq(Peers) /\ IsInjective(s) /\ t \in Nat /\ S \in SUBSET Peers
        /\ \A i \in DOMAIN s : s[i] \in S
    BY <1>2, <2>2, ThresholdType DEF OthersInv, SharesOnce
  <2>4. t <= Len(s)
    <3>1. Len(s) \in Nat
      BY <2>3, LenProperties
    <3>2. QED BY <2>1, <2>2, <2>3, <3>1
  <2>5. Cardinality(S) >= t
    BY ONLY <2>3, <2>4, SharesOfOthers
  <2>6. \A m \in Peers : key'[m] = key[m] \/ Cardinality(contrib \ {m}) >= Threshold
    BY <2>1, <2>2, <2>5
  <2>7. \A m \in Peers : \A i \in DOMAIN held'[m] : held'[m][i] \in contrib' \ {m}
    BY <2>1 DEF OthersInv
  <2>8. QED BY <1>2, <2>1, <2>6, <2>7, OthersStay
<1>7. CASE UNCHANGED vars
  BY <1>3, <1>7 DEF vars
<1>8. QED BY <1>4, <1>5, <1>6, <1>7 DEF Next

\* Nobody has the key of another before as many others as the threshold have
\* broadcast their shares (shamir.go:61): its own share does not help it.
THEOREM TheKeyTakesOthers == Spec => []KeyTakesOthers
<1>1. KeysInv /\ [Next]_vars => KeysInv'
  BY NextKeysInv
<1>2. OthersInv => KeyTakesOthers
  BY DEF OthersInv
<1>3. QED BY InitKeysInv, InitOthers, <1>1, <1>2, NextOthers, PTL DEF Spec
=============================================================================
