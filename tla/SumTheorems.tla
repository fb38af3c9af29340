---------------------------- MODULE SumTheorems -----------------------------
(***************************************************************************)
(* Lemmas about SumFunctionOnSet and SumFunction of the module Functions,  *)
(* the sums of chips that the other modules state their conservation laws  *)
(* with, and about the products that secret sharing computes.  Induction   *)
(* is by a least counterexample, a set of naturals, since the induction    *)
(* theorems of the library take operators.                                 *)
(***************************************************************************)
EXTENDS Integers, FiniteSets, Functions, FiniteSetTheorems, WellFoundedInduction, TLAPS

\* Every nonempty set of naturals has a least element.
LEMMA LeastNatural ==
  ASSUME NEW T \in SUBSET Nat, T # {}
  PROVE  \E m \in T : \A k \in T : m <= k
<1> DEFINE R == OpToRel(<, Nat)
<1>1. IsWellFoundedOn(R, Nat)
  BY NatLessThanWellFounded
<1>2. \A m, k \in T : k < m => <<k, m>> \in R
  BY DEF OpToRel
<1> HIDE DEF R
<1>3. PICK m \in T : \A k \in T : ~(<<k, m>> \in R)
  BY <1>1, WFMin
<1>4. \A k \in T : ~(k < m)
  BY <1>2, <1>3
<1>5. QED BY <1>4

\* Induction on the naturals, for the set of those that have the property.
LEMMA NaturalInduction ==
  ASSUME NEW T \in SUBSET Nat, 0 \in T, \A n \in T : n + 1 \in T
  PROVE  T = Nat
<1> SUFFICES ASSUME T # Nat PROVE FALSE
  OBVIOUS
<1>1. PICK m \in Nat \ T : \A k \in Nat \ T : m <= k
  <2>1. (Nat \ T) \in SUBSET Nat /\ (Nat \ T) # {}
    OBVIOUS
  <2>2. QED BY <2>1, LeastNatural
<1>2. m # 0 /\ m - 1 \in Nat /\ ~(m <= m - 1)
  BY <1>1
<1>3. m - 1 \in T
  BY <1>1, <1>2
<1>4. QED BY <1>1, <1>2, <1>3

\* Induction on finite sets, for the set of subsets that have the property.
LEMMA FiniteSetInduction ==
  ASSUME NEW S, IsFiniteSet(S), NEW Q \in SUBSET SUBSET S, {} \in Q,
         \A T \in Q, x \in S : x \notin T => T \cup {x} \in Q
  PROVE  S \in Q
<1> DEFINE Sized == {n \in Nat : \A T \in SUBSET S : Cardinality(T) = n => T \in Q}
<1>1. \A T \in SUBSET S : IsFiniteSet(T) /\ Cardinality(T) \in Nat
  BY FS_Subset, FS_CardinalityType
<1>2. 0 \in Sized
  BY <1>1, FS_EmptySet
<1>3. ASSUME NEW n \in Sized PROVE n + 1 \in Sized
  <2> SUFFICES ASSUME NEW T \in SUBSET S, Cardinality(T) = n + 1 PROVE T \in Q
    BY <1>3
  <2>1. T # {}
    BY FS_EmptySet, <1>3
  <2>2. PICK x \in T : TRUE
    BY <2>1
  <2>3. Cardinality(T \ {x}) = n
    <3>1. IsFiniteSet(T) /\ n \in Nat
      BY <1>1, <1>3
    <3>2. Cardinality(T \ {x}) = Cardinality(T) - 1
      BY ONLY <3>1, <2>1, <2>2, FS_RemoveElement
    <3>3. QED BY ONLY <3>1, <3>2, Cardinality(T) = n + 1
  <2>4. T \ {x} \in Q
    BY <1>3, <2>3
  <2>5. (T \ {x}) \cup {x} \in Q
    BY <2>4
  <2>6. QED BY <2>2, <2>5
<1> HIDE DEF Sized
<1>4. Sized = Nat
  <2>1. Sized \in SUBSET Nat BY DEF Sized
  <2>2. QED BY <1>2, <1>3, <2>1, NaturalInduction
<1>5. QED BY <1>1, <1>4 DEF Sized

\* The values of a function on a finite set are finitely many.
LEMMA FiniteImage ==
  ASSUME NEW S, IsFiniteSet(S), NEW f
  PROVE  IsFiniteSet({f[x] : x \in S})
<1> DEFINE Q == {T \in SUBSET S : IsFiniteSet({f[x] : x \in T})}
<1>1. {} \in Q
  <2>1. {f[x] : x \in {}} = {}
    OBVIOUS
  <2>2. QED BY <2>1, FS_EmptySet
<1>2. ASSUME NEW T \in Q, NEW y \in S, y \notin T PROVE T \cup {y} \in Q
  <2>1. {f[x] : x \in T \cup {y}} = {f[x] : x \in T} \cup {f[y]}
    OBVIOUS
  <2>2. IsFiniteSet({f[x] : x \in T} \cup {f[y]})
    BY FS_AddElement
  <2>3. QED BY <2>1, <2>2
<1> HIDE DEF Q
<1>3. Q \in SUBSET SUBSET S
  BY DEF Q
<1>4. S \in Q
  BY <1>1, <1>2, <1>3, FiniteSetInduction
<1>5. QED BY <1>4 DEF Q

-----------------------------------------------------------------------------
(* The fold that defines the sum or, when op is "product", the product: its    *)
(* function on the subsets of S exists, is unique and agrees with that of  *)
(* any subset.                                                             *)

ProductOnSet(f, S) == FoldFunctionOnSet(LAMBDA a, b : a * b, 1, f, S)

FoldStep(op, f, g, s) ==
  IF s = {} THEN (IF op = "product" THEN 1 ELSE 0)
  ELSE IF op = "product" THEN f[CHOOSE x \in s : TRUE] * g[s \ {CHOOSE x \in s : TRUE}]
  ELSE f[CHOOSE x \in s : TRUE] + g[s \ {CHOOSE x \in s : TRUE}]

IsFoldTable(op, f, g, D) == g = [s \in D |-> FoldStep(op, f, g, s)]

FoldTable(op, f, S) == CHOOSE g : IsFoldTable(op, f, g, SUBSET S)

LEMMA SumIsTable ==
  ASSUME NEW f, NEW S
  PROVE  SumFunctionOnSet(f, S) = FoldTable("sum", f, S)[S]
BY DEF SumFunctionOnSet, FoldFunctionOnSet, MapThenFoldSet, FoldTable, IsFoldTable, FoldStep

LEMMA ProductIsTable ==
  ASSUME NEW f, NEW S
  PROVE  ProductOnSet(f, S) = FoldTable("product", f, S)[S]
BY DEF ProductOnSet, FoldFunctionOnSet, MapThenFoldSet, FoldTable, IsFoldTable, FoldStep

\* A step of the fold reads the table at one smaller set only.
LEMMA FoldStepLocal ==
  ASSUME NEW op, NEW f, NEW g, NEW h, NEW s,
         s # {} => g[s \ {CHOOSE x \in s : TRUE}] = h[s \ {CHOOSE x \in s : TRUE}]
  PROVE  FoldStep(op, f, g, s) = FoldStep(op, f, h, s)
BY DEF FoldStep

\* The table exists: it is built up from the sets of n elements to those of n + 1.
LEMMA FoldTableExists ==
  ASSUME NEW op, NEW f, NEW S, IsFiniteSet(S)
  PROVE  IsFoldTable(op, f, FoldTable(op, f, S), SUBSET S)
<1> DEFINE Upto(n) == {s \in SUBSET S : Cardinality(s) <= n}
           Built == {n \in Nat : \E g : IsFoldTable(op, f, g, Upto(n))}
<1>1. \A s \in SUBSET S : /\ IsFiniteSet(s) /\ Cardinality(s) \in Nat
                          /\ Cardinality(s) <= Cardinality(S)
                          /\ (Cardinality(s) = 0 <=> s = {})
  BY FS_Subset, FS_CardinalityType, FS_EmptySet
<1>2. ASSUME NEW s \in SUBSET S, s # {}
      PROVE  /\ s \ {CHOOSE x \in s : TRUE} \in SUBSET S
             /\ Cardinality(s \ {CHOOSE x \in s : TRUE}) = Cardinality(s) - 1
  <2>1. (CHOOSE x \in s : TRUE) \in s
    BY <1>2
  <2>2. QED BY <1>1, <2>1, FS_RemoveElement
<1>3. 0 \in Built
  <2> DEFINE g == [s \in Upto(0) |-> IF op = "product" THEN 1 ELSE 0]
  <2>1. g = [s \in Upto(0) |-> FoldStep(op, f, g, s)]
    BY <1>1 DEF FoldStep
  <2>2. QED BY <2>1 DEF IsFoldTable
<1>4. ASSUME NEW n \in Built PROVE n + 1 \in Built
  <2>1. PICK g : g = [s \in Upto(n) |-> FoldStep(op, f, g, s)]
    BY <1>4 DEF IsFoldTable
  <2> DEFINE h == [s \in Upto(n + 1) |-> IF s \in Upto(n) THEN g[s] ELSE FoldStep(op, f, g, s)]
  <2>2. n \in Nat
    BY <1>4
  <2>3. ASSUME NEW s \in Upto(n + 1) PROVE h[s] = FoldStep(op, f, h, s)
    <3> DEFINE r == s \ {CHOOSE x \in s : TRUE}
    <3>1. h[s] = FoldStep(op, f, g, s)
      BY <2>1, <2>3
    <3>2. s # {} => r \in Upto(n) /\ r \in Upto(n + 1)
      BY <1>1, <1>2, <2>2, <2>3
    <3>3. s # {} => g[r] = h[r]
      BY <3>2
    <3> HIDE DEF h
    <3>4. FoldStep(op, f, g, s) = FoldStep(op, f, h, s)
      BY <3>3, FoldStepLocal
    <3>5. QED BY <3>1, <3>4
  <2>4. IsFoldTable(op, f, h, Upto(n + 1))
    <3>1. h = [s \in Upto(n + 1) |-> h[s]]
      OBVIOUS
    <3> HIDE DEF h
    <3>2. QED BY <2>3, <3>1 DEF IsFoldTable
  <2> HIDE DEF h, Upto
  <2>5. QED BY <2>2, <2>4
<1> HIDE DEF Built
<1>5. Built = Nat
  <2>1. Built \in SUBSET Nat BY DEF Built
  <2>2. QED BY <1>3, <1>4, <2>1, NaturalInduction
<1>6. PICK g : IsFoldTable(op, f, g, Upto(Cardinality(S)))
  BY <1>1, <1>5 DEF Built
<1>7. Upto(Cardinality(S)) = SUBSET S
  BY <1>1
<1>8. IsFoldTable(op, f, g, SUBSET S)
  BY <1>6, <1>7
<1>9. QED BY <1>8 DEF FoldTable

\* The tables of S and of a subset T agree at T.
LEMMA FoldTableAgrees ==
  ASSUME NEW op, NEW f, NEW S, IsFiniteSet(S), NEW T \in SUBSET S
  PROVE  FoldTable(op, f, S)[T] = FoldTable(op, f, T)[T]
<1> DEFINE Same == {n \in Nat : \A s \in SUBSET T :
                      Cardinality(s) = n => FoldTable(op, f, S)[s] = FoldTable(op, f, T)[s]}
<1>1. IsFiniteSet(T)
  BY FS_Subset
<1>2. \A s \in SUBSET T : /\ IsFiniteSet(s) /\ Cardinality(s) \in Nat
                          /\ (Cardinality(s) = 0 <=> s = {})
  BY <1>1, FS_Subset, FS_CardinalityType, FS_EmptySet
<1>3. \A s \in SUBSET T : /\ FoldTable(op, f, S)[s] = FoldStep(op, f, FoldTable(op, f, S), s)
                          /\ FoldTable(op, f, T)[s] = FoldStep(op, f, FoldTable(op, f, T), s)
  <2>1. IsFoldTable(op, f, FoldTable(op, f, S), SUBSET S)
    BY FoldTableExists
  <2>2. IsFoldTable(op, f, FoldTable(op, f, T), SUBSET T)
    BY <1>1, FoldTableExists
  <2> DEFINE gS == FoldTable(op, f, S)
             gT == FoldTable(op, f, T)
  <2> HIDE DEF gS, gT
  <2>3. gS = [s \in SUBSET S |-> FoldStep(op, f, gS, s)] /\ gT = [s \in SUBSET T |-> FoldStep(op, f, gT, s)]
    BY <2>1, <2>2 DEF gS, gT, IsFoldTable
  <2>4. \A s \in SUBSET T : gS[s] = FoldStep(op, f, gS, s) /\ gT[s] = FoldStep(op, f, gT, s)
    BY <2>3
  <2>5. QED BY <2>4 DEF gS, gT
<1>4. 0 \in Same
  BY <1>2, <1>3 DEF FoldStep
<1>5. ASSUME NEW n \in Same PROVE n + 1 \in Same
  <2> SUFFICES ASSUME NEW s \in SUBSET T, Cardinality(s) = n + 1
               PROVE  FoldTable(op, f, S)[s] = FoldTable(op, f, T)[s]
    BY <1>5
  <2> DEFINE x == CHOOSE y \in s : TRUE
  <2>1. s # {} /\ n \in Nat
    BY <1>2, <1>5
  <2>2. x \in s
    BY <2>1
  <2> HIDE DEF x
  <2>3. s \ {x} \in SUBSET T /\ Cardinality(s \ {x}) = n
    BY <1>2, <2>1, <2>2, FS_RemoveElement
  <2>4. FoldTable(op, f, S)[s \ {x}] = FoldTable(op, f, T)[s \ {x}]
    BY <1>5, <2>3
  <2>5. FoldStep(op, f, FoldTable(op, f, S), s) = FoldStep(op, f, FoldTable(op, f, T), s)
    BY <2>4, FoldStepLocal DEF x
  <2>6. QED BY <1>3, <2>5
<1> HIDE DEF Same
<1>6. Same = Nat
  <2>1. Same \in SUBSET Nat BY DEF Same
  <2>2. QED BY <1>4, <1>5, <2>1, NaturalInduction
<1>7. QED BY <1>1, <1>2, <1>6 DEF Same

-----------------------------------------------------------------------------
(* The laws of sums.                                                       *)

\* The table of a set by the recursion of the fold.
LEMMA FoldUnfold ==
  ASSUME NEW op, NEW f, NEW S, IsFiniteSet(S), NEW r, r = S \ {CHOOSE x \in S : TRUE}
  PROVE  /\ S = {} => FoldTable(op, f, S)[S] = IF op = "product" THEN 1 ELSE 0
         /\ S # {} => FoldTable(op, f, S)[S] =
              IF op = "product" THEN f[CHOOSE x \in S : TRUE] * FoldTable(op, f, r)[r]
              ELSE f[CHOOSE x \in S : TRUE] + FoldTable(op, f, r)[r]
<1> DEFINE g == FoldTable(op, f, S)
<1>1. g[S] = FoldStep(op, f, g, S)
  <2>1. IsFoldTable(op, f, g, SUBSET S)
    BY FoldTableExists
  <2> HIDE DEF g
  <2>2. QED BY <2>1 DEF IsFoldTable
<1>2. g[r] = FoldTable(op, f, r)[r]
  BY FoldTableAgrees
<1> HIDE DEF g
<1>3. /\ S = {} => g[S] = IF op = "product" THEN 1 ELSE 0
      /\ S # {} => g[S] = IF op = "product" THEN f[CHOOSE x \in S : TRUE] * g[r]
                          ELSE f[CHOOSE x \in S : TRUE] + g[r]
  BY <1>1 DEF FoldStep
<1>4. QED BY <1>2, <1>3 DEF g

LEMMA SumUnfold ==
  ASSUME NEW f, NEW S, IsFiniteSet(S)
  PROVE  SumFunctionOnSet(f, S) =
           IF S = {} THEN 0
           ELSE f[CHOOSE x \in S : TRUE] + SumFunctionOnSet(f, S \ {CHOOSE x \in S : TRUE})
<1> PICK r : r = S \ {CHOOSE x \in S : TRUE}
  OBVIOUS
<1>1. /\ S = {} => FoldTable("sum", f, S)[S] = 0
      /\ S # {} => FoldTable("sum", f, S)[S]
                     = f[CHOOSE x \in S : TRUE] + FoldTable("sum", f, r)[r]
  BY FoldUnfold
<1>2. QED BY <1>1, SumIsTable

LEMMA ProductUnfold ==
  ASSUME NEW f, NEW S, IsFiniteSet(S)
  PROVE  ProductOnSet(f, S) =
           IF S = {} THEN 1
           ELSE f[CHOOSE x \in S : TRUE] * ProductOnSet(f, S \ {CHOOSE x \in S : TRUE})
<1> PICK r : r = S \ {CHOOSE x \in S : TRUE}
  OBVIOUS
<1>1. /\ S = {} => FoldTable("product", f, S)[S] = 1
      /\ S # {} => FoldTable("product", f, S)[S]
                     = f[CHOOSE x \in S : TRUE] * FoldTable("product", f, r)[r]
  BY FoldUnfold
<1>2. QED BY <1>1, ProductIsTable

LEMMA SumEmpty ==
  ASSUME NEW f
  PROVE  SumFunctionOnSet(f, {}) = 0
BY SumUnfold, FS_EmptySet

\* A sum of integers is an integer, a sum of naturals a natural.
LEMMA SumType ==
  ASSUME NEW D, NEW S \in SUBSET D, IsFiniteSet(S)
  PROVE  /\ \A f \in [D -> Int] : SumFunctionOnSet(f, S) \in Int
         /\ \A f \in [D -> Nat] : SumFunctionOnSet(f, S) \in Nat
<1> DEFINE Good == {n \in Nat : \A T \in SUBSET S : Cardinality(T) = n =>
                      /\ \A f \in [D -> Int] : SumFunctionOnSet(f, T) \in Int
                      /\ \A f \in [D -> Nat] : SumFunctionOnSet(f, T) \in Nat}
<1>1. \A T \in SUBSET S : /\ IsFiniteSet(T) /\ Cardinality(T) \in Nat
                          /\ (Cardinality(T) = 0 <=> T = {})
  BY FS_Subset, FS_CardinalityType, FS_EmptySet
<1>2. 0 \in Good
  BY <1>1, SumEmpty
<1>3. ASSUME NEW n \in Good PROVE n + 1 \in Good
  <2> SUFFICES ASSUME NEW T \in SUBSET S, Cardinality(T) = n + 1
               PROVE  /\ \A f \in [D -> Int] : SumFunctionOnSet(f, T) \in Int
                      /\ \A f \in [D -> Nat] : SumFunctionOnSet(f, T) \in Nat
    BY <1>3
  <2>1. n \in Nat
    BY <1>3
  <2>2. T # {}
    BY <1>1, <2>1
  <2>3. PICK x \in T : x = CHOOSE y \in T : TRUE
    BY <2>2
  <2>4. T \ {x} \in SUBSET S /\ Cardinality(T \ {x}) = n
    BY <1>1, <2>1, FS_RemoveElement
  <2>5. \A f : SumFunctionOnSet(f, T) = f[x] + SumFunctionOnSet(f, T \ {x})
    <3> SUFFICES ASSUME NEW f
                 PROVE  SumFunctionOnSet(f, T) = f[x] + SumFunctionOnSet(f, T \ {x})
      OBVIOUS
    <3>1. IsFiniteSet(T)
      BY <1>1
    <3>2. SumFunctionOnSet(f, T) =
            IF T = {} THEN 0
            ELSE f[CHOOSE y \in T : TRUE] + SumFunctionOnSet(f, T \ {CHOOSE y \in T : TRUE})
      BY ONLY <3>1, SumUnfold
    <3>3. QED BY ONLY <2>2, <2>3, <3>2
  <2>6. /\ \A f \in [D -> Int] : SumFunctionOnSet(f, T \ {x}) \in Int
        /\ \A f \in [D -> Nat] : SumFunctionOnSet(f, T \ {x}) \in Nat
    BY <1>3, <2>4
  <2>7. x \in D
    BY <2>3
  <2>8. QED BY <2>5, <2>6, <2>7
<1> HIDE DEF Good
<1>4. Good = Nat
  <2>1. Good \in SUBSET Nat BY DEF Good
  <2>2. QED BY <1>2, <1>3, <2>1, NaturalInduction
<1>5. QED BY <1>1, <1>4 DEF Good

\* Any element can be taken out first: the order of the fold does not matter.
LEMMA SumRemove ==
  ASSUME NEW D, NEW S \in SUBSET D, IsFiniteSet(S), NEW f \in [D -> Int], NEW x \in S
  PROVE  SumFunctionOnSet(f, S) = f[x] + SumFunctionOnSet(f, S \ {x})
<1> DEFINE Good == {n \in Nat : \A T \in SUBSET S : Cardinality(T) = n =>
                      \A t \in T : SumFunctionOnSet(f, T) = f[t] + SumFunctionOnSet(f, T \ {t})}
<1>1. \A T \in SUBSET S : /\ IsFiniteSet(T) /\ Cardinality(T) \in Nat
                          /\ (Cardinality(T) = 0 <=> T = {})
  BY FS_Subset, FS_CardinalityType, FS_EmptySet
<1>2. 0 \in Good
  BY <1>1
<1>3. ASSUME NEW n \in Good PROVE n + 1 \in Good
  <2> SUFFICES ASSUME NEW T \in SUBSET S, Cardinality(T) = n + 1, NEW t \in T
               PROVE  SumFunctionOnSet(f, T) = f[t] + SumFunctionOnSet(f, T \ {t})
    BY <1>3
  <2>1. n \in Nat
    BY <1>3
  <2>2. PICK c \in T : c = CHOOSE y \in T : TRUE
    OBVIOUS
  <2>3. SumFunctionOnSet(f, T) = f[c] + SumFunctionOnSet(f, T \ {c})
    BY <1>1, <2>2, SumUnfold
  <2>4. CASE t = c
    BY <2>3, <2>4
  <2>5. CASE t # c
    <3>1. ASSUME NEW y \in T PROVE Cardinality(T \ {y}) = n /\ T \ {y} \in SUBSET S
      <4>1. IsFiniteSet(T) /\ Cardinality(T) \in Nat
        BY <1>1
      <4>2. Cardinality(T \ {y}) = Cardinality(T) - 1
        BY <4>1, FS_RemoveElement
      <4>3. QED BY <2>1, <4>2
    <3> DEFINE rest == SumFunctionOnSet(f, (T \ {c}) \ {t})
               no_c == SumFunctionOnSet(f, T \ {c})
               no_t == SumFunctionOnSet(f, T \ {t})
    <3>2. no_c = f[t] + rest
      BY <1>3, <2>5, <3>1
    <3>3. no_t = f[c] + rest
      <4>1. no_t = f[c] + SumFunctionOnSet(f, (T \ {t}) \ {c})
        BY <1>3, <2>5, <3>1
      <4>2. (T \ {c}) \ {t} = (T \ {t}) \ {c}
        OBVIOUS
      <4>3. QED BY <4>1, <4>2
    <3>4. rest \in Int
      <4>1. (T \ {c}) \ {t} \in SUBSET D /\ IsFiniteSet((T \ {c}) \ {t})
        BY <1>1
      <4>2. QED BY <4>1, SumType
    <3>5. f[c] \in Int /\ f[t] \in Int
      OBVIOUS
    <3>6. SumFunctionOnSet(f, T) = f[c] + no_c
      BY <2>3
    <3> HIDE DEF rest, no_c
    <3>7. SumFunctionOnSet(f, T) = f[t] + no_t
      <4> HIDE DEF no_t
      <4>1. QED BY <3>2, <3>3, <3>4, <3>5, <3>6
    <3>8. QED BY <3>7
  <2>6. QED BY <2>4, <2>5
<1> HIDE DEF Good
<1>4. Good = Nat
  <2>1. Good \in SUBSET Nat BY DEF Good
  <2>2. QED BY <1>2, <1>3, <2>1, NaturalInduction
<1>5. QED BY <1>1, <1>4 DEF Good

LEMMA SumInsert ==
  ASSUME NEW D, NEW T \in SUBSET D, IsFiniteSet(T), NEW f \in [D -> Int], NEW x \in D, x \notin T
  PROVE  SumFunctionOnSet(f, T \cup {x}) = f[x] + SumFunctionOnSet(f, T)
<1>1. T \cup {x} \in SUBSET D /\ x \in T \cup {x} /\ (T \cup {x}) \ {x} = T
  OBVIOUS
<1>2. IsFiniteSet(T \cup {x})
  BY FS_AddElement
<1> DEFINE U == T \cup {x}
<1>3. U \in SUBSET D /\ x \in U /\ IsFiniteSet(U) /\ U \ {x} = T
  BY <1>1, <1>2
<1> HIDE DEF U
<1>4. SumFunctionOnSet(f, U) = f[x] + SumFunctionOnSet(f, U \ {x})
  BY <1>3, SumRemove
<1>5. SumFunctionOnSet(f, U) = f[x] + SumFunctionOnSet(f, T)
  BY <1>3, <1>4
<1>6. QED BY <1>5 DEF U

\* Two functions equal on a set have the same sum over it.
LEMMA SumSame ==
  ASSUME NEW D, NEW E, NEW S \in SUBSET D, S \in SUBSET E, IsFiniteSet(S),
         NEW f \in [D -> Int], NEW g \in [E -> Int], \A x \in S : f[x] = g[x]
  PROVE  SumFunctionOnSet(f, S) = SumFunctionOnSet(g, S)
<1> DEFINE Q == {T \in SUBSET S : SumFunctionOnSet(f, T) = SumFunctionOnSet(g, T)}
<1>1. {} \in Q
  BY SumEmpty
<1>2. ASSUME NEW T \in Q, NEW x \in S, x \notin T PROVE T \cup {x} \in Q
  <2>1. IsFiniteSet(T) /\ T \in SUBSET D /\ T \in SUBSET E /\ x \in D /\ x \in E
    BY FS_Subset
  <2>2. SumFunctionOnSet(f, T \cup {x}) = f[x] + SumFunctionOnSet(f, T)
    BY <1>2, <2>1, SumInsert
  <2>3. SumFunctionOnSet(g, T \cup {x}) = g[x] + SumFunctionOnSet(g, T)
    BY <1>2, <2>1, SumInsert
  <2>4. QED BY <2>2, <2>3
<1> HIDE DEF Q
<1>3. Q \in SUBSET SUBSET S
  BY DEF Q
<1>4. S \in Q
  BY <1>1, <1>2, <1>3, FiniteSetInduction
<1>5. QED BY <1>4 DEF Q

\* Sums are additive.
LEMMA SumAdd ==
  ASSUME NEW D, IsFiniteSet(D),
         NEW f \in [D -> Int], NEW g \in [D -> Int], NEW h \in [D -> Int],
         \A x \in D : h[x] = f[x] + g[x]
  PROVE  SumFunctionOnSet(h, D) = SumFunctionOnSet(f, D) + SumFunctionOnSet(g, D)
<1> DEFINE Q == {T \in SUBSET D :
                   SumFunctionOnSet(h, T) = SumFunctionOnSet(f, T) + SumFunctionOnSet(g, T)}
<1>1. {} \in Q
  BY SumEmpty
<1>2. ASSUME NEW T \in Q, NEW x \in D, x \notin T PROVE T \cup {x} \in Q
  <2> DEFINE sf == SumFunctionOnSet(f, T)
             sg == SumFunctionOnSet(g, T)
             sh == SumFunctionOnSet(h, T)
  <2>1. IsFiniteSet(T) /\ T \in SUBSET D /\ x \in D
    BY FS_Subset
  <2>2. SumFunctionOnSet(f, T \cup {x}) = f[x] + sf
    BY <1>2, <2>1, SumInsert
  <2>3. SumFunctionOnSet(g, T \cup {x}) = g[x] + sg
    BY <1>2, <2>1, SumInsert
  <2>4. SumFunctionOnSet(h, T \cup {x}) = h[x] + sh
    BY <1>2, <2>1, SumInsert
  <2>5. sf \in Int /\ sg \in Int /\ sh \in Int
    BY <2>1, SumType
  <2>6. sh = sf + sg
    OBVIOUS
  <2> HIDE DEF sf, sg, sh
  <2>7. f[x] \in Int /\ g[x] \in Int /\ h[x] = f[x] + g[x]
    BY <2>1
  <2>8. h[x] + sh = (f[x] + sf) + (g[x] + sg)
    BY <2>5, <2>6, <2>7
  <2>9. QED BY <2>2, <2>3, <2>4, <2>8
<1> HIDE DEF Q
<1>3. Q \in SUBSET SUBSET D
  BY DEF Q
<1>4. D \in Q
  BY <1>1, <1>2, <1>3, FiniteSetInduction
<1>5. QED BY <1>4 DEF Q

\* Sums are monotone.
LEMMA SumMono ==
  ASSUME NEW D, NEW S \in SUBSET D, IsFiniteSet(S),
         NEW f \in [D -> Int], NEW g \in [D -> Int], \A x \in S : f[x] <= g[x]
  PROVE  SumFunctionOnSet(f, S) <= SumFunctionOnSet(g, S)
<1> DEFINE Q == {T \in SUBSET S : SumFunctionOnSet(f, T) <= SumFunctionOnSet(g, T)}
<1>1. {} \in Q
  BY SumEmpty
<1>2. ASSUME NEW T \in Q, NEW x \in S, x \notin T PROVE T \cup {x} \in Q
  <2> DEFINE sf == SumFunctionOnSet(f, T)
             sg == SumFunctionOnSet(g, T)
  <2>1. IsFiniteSet(T) /\ T \in SUBSET D /\ x \in D
    BY FS_Subset
  <2>2. SumFunctionOnSet(f, T \cup {x}) = f[x] + sf
    BY <1>2, <2>1, SumInsert
  <2>3. SumFunctionOnSet(g, T \cup {x}) = g[x] + sg
    BY <1>2, <2>1, SumInsert
  <2>4. sf \in Int /\ sg \in Int /\ sf <= sg
    BY <2>1, SumType
  <2> HIDE DEF sf, sg
  <2>5. f[x] \in Int /\ g[x] \in Int /\ f[x] <= g[x]
    BY <2>1
  <2>6. f[x] + sf <= g[x] + sg
    BY <2>4, <2>5
  <2>7. QED BY <2>2, <2>3, <2>6
<1> HIDE DEF Q
<1>3. Q \in SUBSET SUBSET S
  BY DEF Q
<1>4. S \in Q
  BY <1>1, <1>2, <1>3, FiniteSetInduction
<1>5. QED BY <1>4 DEF Q

\* The sum of a constant is a product.
LEMMA SumConstant ==
  ASSUME NEW D, NEW S \in SUBSET D, IsFiniteSet(S), NEW f \in [D -> Int],
         NEW c \in Int, \A x \in S : f[x] = c
  PROVE  SumFunctionOnSet(f, S) = c * Cardinality(S)
<1> DEFINE Q == {T \in SUBSET S : SumFunctionOnSet(f, T) = c * Cardinality(T)}
<1>1. {} \in Q
  BY SumEmpty, FS_EmptySet
<1>2. ASSUME NEW T \in Q, NEW x \in S, x \notin T PROVE T \cup {x} \in Q
  <2> DEFINE n == Cardinality(T)
  <2>1. IsFiniteSet(T) /\ T \in SUBSET D /\ x \in D
    BY FS_Subset
  <2>2. n \in Nat /\ Cardinality(T \cup {x}) = n + 1
    BY <1>2, <2>1, FS_AddElement, FS_CardinalityType
  <2>3. SumFunctionOnSet(f, T \cup {x}) = c + c * n
    BY <1>2, <2>1, SumInsert
  <2> HIDE DEF n
  <2>4. c + c * n = c * (n + 1)
    BY <2>2
  <2>5. QED BY <2>2, <2>3, <2>4
<1> HIDE DEF Q
<1>3. Q \in SUBSET SUBSET S
  BY DEF Q
<1>4. S \in Q
  BY <1>1, <1>2, <1>3, FiniteSetInduction
<1>5. QED BY <1>4 DEF Q

\* Terms that are zero do not count.
LEMMA SumZeroOutside ==
  ASSUME NEW D, IsFiniteSet(D), NEW S \in SUBSET D,
         NEW f \in [D -> Int], \A x \in D \ S : f[x] = 0
  PROVE  SumFunctionOnSet(f, D) = SumFunctionOnSet(f, S)
<1> DEFINE Q == {U \in SUBSET (D \ S) : SumFunctionOnSet(f, S \cup U) = SumFunctionOnSet(f, S)}
<1>1. {} \in Q
  <2>1. S \cup {} = S
    OBVIOUS
  <2>2. QED BY <2>1
<1>2. ASSUME NEW U \in Q, NEW x \in D \ S, x \notin U PROVE U \cup {x} \in Q
  <2> DEFINE V == S \cup U
  <2>1. IsFiniteSet(V) /\ V \in SUBSET D /\ x \in D /\ x \notin V
    BY <1>2, FS_Subset
  <2>2. SumFunctionOnSet(f, V) = SumFunctionOnSet(f, S)
    OBVIOUS
  <2>3. SumFunctionOnSet(f, V) \in Int /\ f[x] = 0
    BY <2>1, SumType
  <2> HIDE DEF V
  <2>4. SumFunctionOnSet(f, V \cup {x}) = f[x] + SumFunctionOnSet(f, V)
    BY <2>1, SumInsert
  <2>5. V \cup {x} = S \cup (U \cup {x})
    BY DEF V
  <2>6. SumFunctionOnSet(f, S \cup (U \cup {x})) = SumFunctionOnSet(f, S)
    <3>1. SumFunctionOnSet(f, V \cup {x}) = SumFunctionOnSet(f, S)
      BY <2>2, <2>3, <2>4
    <3>2. QED BY <2>5, <3>1
  <2>7. U \cup {x} \in SUBSET (D \ S)
    OBVIOUS
  <2>8. QED BY <2>6, <2>7
<1> HIDE DEF Q
<1>3. Q \in SUBSET SUBSET (D \ S)
  BY DEF Q
<1>4. IsFiniteSet(D \ S)
  BY FS_Subset
<1>5. D \ S \in Q
  BY <1>1, <1>2, <1>3, <1>4, FiniteSetInduction
<1>6. S \cup (D \ S) = D
  OBVIOUS
<1>7. QED BY <1>5, <1>6 DEF Q

\* Changing one term changes the sum by as much.
LEMMA SumChangeOne ==
  ASSUME NEW D, IsFiniteSet(D), NEW f \in [D -> Int], NEW x \in D, NEW v \in Int
  PROVE  SumFunction([f EXCEPT ![x] = v]) = SumFunction(f) - f[x] + v
<1> DEFINE g == [f EXCEPT ![x] = v]
           sf == SumFunctionOnSet(f, D \ {x})
           sg == SumFunctionOnSet(g, D \ {x})
<1>1. g \in [D -> Int] /\ g[x] = v /\ \A y \in D \ {x} : g[y] = f[y]
  OBVIOUS
<1> HIDE DEF g
<1>2. SumFunction(g) = SumFunctionOnSet(g, D) /\ SumFunction(f) = SumFunctionOnSet(f, D)
  <2>1. DOMAIN f = D /\ DOMAIN g = D
    BY <1>1
  <2>2. QED BY <2>1 DEF SumFunction
<1>3. SumFunctionOnSet(f, D) = f[x] + sf /\ SumFunctionOnSet(g, D) = g[x] + sg
  BY <1>1, SumRemove
<1>4. D \ {x} \in SUBSET D /\ IsFiniteSet(D \ {x})
  BY FS_Subset
<1>5. sf \in Int /\ sg = sf
  BY <1>1, <1>4, SumSame, SumType
<1> HIDE DEF sf, sg
<1>6. f[x] \in Int
  OBVIOUS
<1>7. SumFunction(g) = SumFunction(f) - f[x] + v
  BY <1>1, <1>2, <1>3, <1>5, <1>6
<1>8. QED BY <1>7 DEF g

\* Terms that are no larger, with a sum that is no smaller, are the same terms.
LEMMA SumTight ==
  ASSUME NEW D, NEW S \in SUBSET D, IsFiniteSet(S),
         NEW f \in [D -> Int], NEW g \in [D -> Int], \A x \in S : f[x] <= g[x],
         SumFunctionOnSet(g, S) <= SumFunctionOnSet(f, S)
  PROVE  \A x \in S : f[x] = g[x]
<1> SUFFICES ASSUME NEW x \in S PROVE f[x] = g[x]
  OBVIOUS
<1> DEFINE sf == SumFunctionOnSet(f, S \ {x})
           sg == SumFunctionOnSet(g, S \ {x})
<1>1. S \ {x} \in SUBSET D /\ IsFiniteSet(S \ {x})
  BY FS_Subset
<1>2. SumFunctionOnSet(f, S) = f[x] + sf /\ SumFunctionOnSet(g, S) = g[x] + sg
  <2>1. SumFunctionOnSet(f, S) = f[x] + sf
    BY SumRemove
  <2>2. SumFunctionOnSet(g, S) = g[x] + sg
    BY SumRemove
  <2>3. QED BY <2>1, <2>2
<1>3. sf \in Int /\ sg \in Int
  BY <1>1, SumType
<1>4. sf <= sg
  <2>1. \A y \in S \ {x} : f[y] <= g[y]
    OBVIOUS
  <2>2. QED BY <1>1, <2>1, SumMono
<1> HIDE DEF sf, sg
<1>5. f[x] \in Int /\ g[x] \in Int /\ f[x] <= g[x]
  OBVIOUS
<1>6. QED BY <1>2, <1>3, <1>4, <1>5

\* A sum of zeros is zero.
LEMMA SumZeros ==
  ASSUME NEW D, IsFiniteSet(D), NEW f \in [D -> Int], \A x \in D : f[x] = 0
  PROVE  SumFunctionOnSet(f, D) = 0
<1>1. {} \in SUBSET D /\ \A x \in D \ {} : f[x] = 0
  OBVIOUS
<1>2. SumFunctionOnSet(f, D) = SumFunctionOnSet(f, {})
  BY <1>1, SumZeroOutside
<1>3. QED BY <1>2, SumEmpty

\* The sum of a table by rows is its sum by columns.
LEMMA SumExchange ==
  ASSUME NEW A, IsFiniteSet(A), NEW B, IsFiniteSet(B), NEW f \in [A -> [B -> Int]]
  PROVE  SumFunctionOnSet([a \in A |-> SumFunctionOnSet(f[a], B)], A)
           = SumFunctionOnSet([b \in B |-> SumFunctionOnSet([a \in A |-> f[a][b]], A)], B)
<1> DEFINE row      == [a \in A |-> SumFunctionOnSet(f[a], B)]
           column   == [b \in B |-> [a \in A |-> f[a][b]]]
           cells(T) == [b \in B |-> SumFunctionOnSet(column[b], T)]
           Q        == {T \in SUBSET A : SumFunctionOnSet(row, T) = SumFunctionOnSet(cells(T), B)}
<1>1. row \in [A -> Int]
  <2>1. \A a \in A : SumFunctionOnSet(f[a], B) \in Int
    BY SumType
  <2>2. QED BY <2>1
<1>2. /\ column \in [B -> [A -> Int]] /\ \A b \in B, a \in A : column[b][a] = f[a][b]
  OBVIOUS
<1> HIDE DEF column
<1>3. \A T \in SUBSET A : IsFiniteSet(T) /\ cells(T) \in [B -> Int]
  <2> SUFFICES ASSUME NEW T \in SUBSET A PROVE IsFiniteSet(T) /\ cells(T) \in [B -> Int]
    OBVIOUS
  <2>1. IsFiniteSet(T)
    BY FS_Subset
  <2>2. \A b \in B : SumFunctionOnSet(column[b], T) \in Int
    BY <1>2, <2>1, SumType
  <2>3. QED BY <2>1, <2>2
<1>4. {} \in Q
  <2>1. \A b \in B : cells({})[b] = 0
    BY SumEmpty
  <2>2. SumFunctionOnSet(cells({}), B) = SumFunctionOnSet(cells({}), {})
    <3>1. cells({}) \in [B -> Int]
      BY <1>3
    <3> DEFINE c == cells({})
    <3>2. /\ c \in [B -> Int] /\ \A b \in B : c[b] = 0
      BY <2>1, <3>1
    <3> HIDE DEF c
    <3>3. SumFunctionOnSet(c, B) = 0
      BY <3>2, SumZeros
    <3>4. QED BY <3>3, SumEmpty DEF c
  <2>3. QED BY <2>2, SumEmpty
<1>5. ASSUME NEW T \in Q, NEW x \in A, x \notin T PROVE T \cup {x} \in Q
  <2> DEFINE c == cells(T)
             d == cells(T \cup {x})
  <2>1. IsFiniteSet(T) /\ c \in [B -> Int] /\ d \in [B -> Int]
    <3>1. T \in SUBSET A /\ T \cup {x} \in SUBSET A
      OBVIOUS
    <3>2. QED BY <1>3, <3>1
  <2>2. SumFunctionOnSet(row, T \cup {x}) = row[x] + SumFunctionOnSet(row, T)
    <3>1. T \in SUBSET A
      OBVIOUS
    <3> HIDE DEF row, Q
    <3>2. QED BY <1>1, <1>5, <2>1, <3>1, SumInsert
  <2>3. \A b \in B : d[b] = f[x][b] + c[b]
    <3> SUFFICES ASSUME NEW b \in B PROVE d[b] = f[x][b] + c[b]
      OBVIOUS
    <3>1. column[b] \in [A -> Int] /\ column[b][x] = f[x][b] /\ T \in SUBSET A
      BY <1>2
    <3>2. SumFunctionOnSet(column[b], T \cup {x}) = column[b][x] + SumFunctionOnSet(column[b], T)
      BY <1>5, <2>1, <3>1, SumInsert
    <3>3. QED BY <3>1, <3>2
  <2> HIDE DEF c, d
  <2>4. PICK r \in [B -> Int] : r = f[x]
    OBVIOUS
  <2>5. SumFunctionOnSet(d, B) = SumFunctionOnSet(f[x], B) + SumFunctionOnSet(c, B)
    <3>1. \A b \in B : d[b] = r[b] + c[b]
      BY <2>3, <2>4
    <3>2. SumFunctionOnSet(d, B) = SumFunctionOnSet(r, B) + SumFunctionOnSet(c, B)
      BY <2>1, <3>1, SumAdd
    <3>3. QED BY <2>4, <3>2
  <2>6. row[x] = SumFunctionOnSet(f[x], B) /\ SumFunctionOnSet(row, T) = SumFunctionOnSet(c, B)
    BY DEF c
  <2>7. SumFunctionOnSet(row, T \cup {x}) = SumFunctionOnSet(d, B)
    <3> HIDE DEF row, Q
    <3>1. QED BY <2>2, <2>5, <2>6
  <2>8. QED BY <2>7 DEF d
<1> HIDE DEF Q
<1>6. Q \in SUBSET SUBSET A
  BY DEF Q
<1>7. A \in Q
  BY <1>4, <1>5, <1>6, FiniteSetInduction
<1>8. SumFunctionOnSet(row, A) = SumFunctionOnSet(cells(A), B)
  BY <1>7 DEF Q
<1>9. cells(A) = [b \in B |-> SumFunctionOnSet([a \in A |-> f[a][b]], A)]
  BY DEF column
<1>10. QED BY <1>8, <1>9

\* A sum of naturals is a natural, and no less than any of them.
LEMMA SumOfNaturals ==
  ASSUME NEW D, IsFiniteSet(D), NEW f \in [D -> Nat]
  PROVE  /\ SumFunction(f) \in Nat
         /\ \A x \in D : f[x] <= SumFunction(f)
<1>1. f \in [D -> Int] /\ SumFunction(f) = SumFunctionOnSet(f, D)
  BY DEF SumFunction
<1>2. \A S : S = D => S \in SUBSET D
  OBVIOUS
<1>3. SumFunctionOnSet(f, D) \in Nat
  BY <1>2, SumType
<1>4. ASSUME NEW x \in D PROVE f[x] <= SumFunctionOnSet(f, D)
  <2>1. ASSUME NEW S \in SUBSET D, IsFiniteSet(S), x \in S
        PROVE  SumFunctionOnSet(f, S) = f[x] + SumFunctionOnSet(f, S \ {x})
    BY <1>1, <2>1, SumRemove
  <2>2. SumFunctionOnSet(f, D) = f[x] + SumFunctionOnSet(f, D \ {x})
    BY <1>2, <2>1
  <2>3. D \ {x} \in SUBSET D /\ IsFiniteSet(D \ {x})
    BY FS_RemoveElement
  <2>4. SumFunctionOnSet(f, D \ {x}) \in Nat
    BY <2>3, SumType
  <2>5. f[x] \in Nat
    OBVIOUS
  <2>6. QED BY <2>2, <2>4, <2>5
<1>5. QED BY <1>1, <1>3, <1>4

-----------------------------------------------------------------------------
(* The laws of products.                                                   *)

LEMMA ProductEmpty ==
  ASSUME NEW f
  PROVE  ProductOnSet(f, {}) = 1
BY ProductUnfold, FS_EmptySet

\* A product of integers is an integer.
LEMMA ProductType ==
  ASSUME NEW D, NEW S \in SUBSET D, IsFiniteSet(S), NEW f \in [D -> Int]
  PROVE  ProductOnSet(f, S) \in Int
<1> DEFINE Good == {n \in Nat : \A T \in SUBSET S : Cardinality(T) = n => ProductOnSet(f, T) \in Int}
<1>1. \A T \in SUBSET S : /\ IsFiniteSet(T) /\ Cardinality(T) \in Nat
                          /\ (Cardinality(T) = 0 <=> T = {})
  BY FS_Subset, FS_CardinalityType, FS_EmptySet
<1>2. 0 \in Good
  BY <1>1, ProductEmpty
<1>3. ASSUME NEW n \in Good PROVE n + 1 \in Good
  <2> SUFFICES ASSUME NEW T \in SUBSET S, Cardinality(T) = n + 1
               PROVE  ProductOnSet(f, T) \in Int
    BY <1>3
  <2>1. n \in Nat /\ T # {}
    BY <1>1, <1>3
  <2>2. PICK x \in T : x = CHOOSE y \in T : TRUE
    BY <2>1
  <2>3. T \ {x} \in SUBSET S /\ Cardinality(T \ {x}) = n
    BY <1>1, <2>1, FS_RemoveElement
  <2>4. ProductOnSet(f, T) = f[x] * ProductOnSet(f, T \ {x})
    BY <1>1, <2>1, <2>2, ProductUnfold
  <2>5. ProductOnSet(f, T \ {x}) \in Int /\ f[x] \in Int
    BY <1>3, <2>3
  <2>6. QED BY <2>4, <2>5
<1> HIDE DEF Good
<1>4. Good = Nat
  <2>1. Good \in SUBSET Nat BY DEF Good
  <2>2. QED BY <1>2, <1>3, <2>1, NaturalInduction
<1>5. QED BY <1>1, <1>4 DEF Good

\* Any factor can be taken out first.
LEMMA ProductRemove ==
  ASSUME NEW D, NEW S \in SUBSET D, IsFiniteSet(S), NEW f \in [D -> Int], NEW x \in S
  PROVE  ProductOnSet(f, S) = f[x] * ProductOnSet(f, S \ {x})
<1> DEFINE Good == {n \in Nat : \A T \in SUBSET S : Cardinality(T) = n =>
                      \A t \in T : ProductOnSet(f, T) = f[t] * ProductOnSet(f, T \ {t})}
<1>1. \A T \in SUBSET S : /\ IsFiniteSet(T) /\ Cardinality(T) \in Nat
                          /\ (Cardinality(T) = 0 <=> T = {})
  BY FS_Subset, FS_CardinalityType, FS_EmptySet
<1>2. 0 \in Good
  BY <1>1
<1>3. ASSUME NEW n \in Good PROVE n + 1 \in Good
  <2> SUFFICES ASSUME NEW T \in SUBSET S, Cardinality(T) = n + 1, NEW t \in T
               PROVE  ProductOnSet(f, T) = f[t] * ProductOnSet(f, T \ {t})
    BY <1>3
  <2>1. n \in Nat
    BY <1>3
  <2>2. PICK c \in T : c = CHOOSE y \in T : TRUE
    OBVIOUS
  <2>3. ProductOnSet(f, T) = f[c] * ProductOnSet(f, T \ {c})
    BY <1>1, <2>2, ProductUnfold
  <2>4. CASE t = c
    BY <2>3, <2>4
  <2>5. CASE t # c
    <3>1. ASSUME NEW y \in T PROVE Cardinality(T \ {y}) = n /\ T \ {y} \in SUBSET S
      <4>1. IsFiniteSet(T) /\ Cardinality(T) \in Nat
        BY <1>1
      <4>2. Cardinality(T \ {y}) = Cardinality(T) - 1
        BY <4>1, FS_RemoveElement
      <4>3. QED BY <2>1, <4>2
    <3>2. PICK rest \in Int : rest = ProductOnSet(f, (T \ {c}) \ {t})
      <4>1. (T \ {c}) \ {t} \in SUBSET D /\ IsFiniteSet((T \ {c}) \ {t})
        BY <1>1
      <4>2. QED BY <4>1, ProductType
    <3>3. ProductOnSet(f, T \ {c}) = f[t] * rest
      BY <1>3, <2>5, <3>1, <3>2
    <3>4. ProductOnSet(f, T \ {t}) = f[c] * rest
      <4>1. ProductOnSet(f, T \ {t}) = f[c] * ProductOnSet(f, (T \ {t}) \ {c})
        BY <1>3, <2>5, <3>1
      <4>2. (T \ {c}) \ {t} = (T \ {t}) \ {c}
        OBVIOUS
      <4>3. QED BY <3>2, <4>1, <4>2
    <3>5. PICK a \in Int, b \in Int : a = f[c] /\ b = f[t]
      OBVIOUS
    <3>6. a * (b * rest) = b * (a * rest)
      OBVIOUS
    <3>7. QED BY <2>3, <3>3, <3>4, <3>5, <3>6
  <2>6. QED BY <2>4, <2>5
<1> HIDE DEF Good
<1>4. Good = Nat
  <2>1. Good \in SUBSET Nat BY DEF Good
  <2>2. QED BY <1>2, <1>3, <2>1, NaturalInduction
<1>5. QED BY <1>1, <1>4 DEF Good

LEMMA ProductInsert ==
  ASSUME NEW D, NEW T \in SUBSET D, IsFiniteSet(T), NEW f \in [D -> Int], NEW x \in D, x \notin T
  PROVE  ProductOnSet(f, T \cup {x}) = f[x] * ProductOnSet(f, T)
<1>1. PICK U : U = T \cup {x}
  OBVIOUS
<1>2. U \in SUBSET D /\ x \in U /\ IsFiniteSet(U) /\ U \ {x} = T
  BY <1>1, FS_AddElement
<1>3. ProductOnSet(f, U) = f[x] * ProductOnSet(f, U \ {x})
  BY <1>2, ProductRemove
<1>4. QED BY <1>1, <1>2, <1>3

\* Two functions equal on a set have the same product over it.
LEMMA ProductSame ==
  ASSUME NEW D, NEW E, NEW S \in SUBSET D, S \in SUBSET E, IsFiniteSet(S),
         NEW f \in [D -> Int], NEW g \in [E -> Int], \A x \in S : f[x] = g[x]
  PROVE  ProductOnSet(f, S) = ProductOnSet(g, S)
<1> DEFINE Q == {T \in SUBSET S : ProductOnSet(f, T) = ProductOnSet(g, T)}
<1>1. {} \in Q
  BY ProductEmpty
<1>2. ASSUME NEW T \in Q, NEW x \in S, x \notin T PROVE T \cup {x} \in Q
  <2>1. IsFiniteSet(T) /\ T \in SUBSET D /\ T \in SUBSET E /\ x \in D /\ x \in E
    BY FS_Subset
  <2>2. ProductOnSet(f, T \cup {x}) = f[x] * ProductOnSet(f, T)
    BY <1>2, <2>1, ProductInsert
  <2>3. ProductOnSet(g, T \cup {x}) = g[x] * ProductOnSet(g, T)
    BY <1>2, <2>1, ProductInsert
  <2>4. QED BY <2>2, <2>3
<1> HIDE DEF Q
<1>3. Q \in SUBSET SUBSET S
  BY DEF Q
<1>4. S \in Q
  BY <1>1, <1>2, <1>3, FiniteSetInduction
<1>5. QED BY <1>4 DEF Q
=============================================================================
