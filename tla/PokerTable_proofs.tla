------------------------- MODULE PokerTable_proofs --------------------------
(***************************************************************************)
(* Proofs about the pots, one hand of the engine and the hands at one      *)
(* table, for any number of seats, blinds and stacks: what every seat may  *)
(* win of the pots, how they are shared and what a showdown fails to pay;  *)
(* that every seat's chips are accounted for, that the betting rounds are  *)
(* disciplined, the turn goes round in order and a round closes on equal   *)
(* bets after everyone has acted; and that what the players of the         *)
(* terminal client do is accepted and never leaves a pot unpaid, so that   *)
(* their table conserves chips and keeps the promise of the ledger.        *)
(***************************************************************************)
EXTENDS PokerTable, MCPots, SumTheorems

-----------------------------------------------------------------------------
(* Seats, minima and maxima.                                               *)

LEMMA SeatSets ==
  /\ IsFiniteSet(Seats) /\ Cardinality(Seats) = N /\ Seats \subseteq Nat
  /\ \A T \in SUBSET Seats : IsFiniteSet(T) /\ Cardinality(T) \in Nat
<1>1. IsFiniteSet(Seats) /\ Cardinality(Seats) = N /\ Seats \subseteq Nat
  <2>1. N \in Nat /\ N >= 2
    BY TableAssumption, SeatCountAssumption
  <2>2. QED BY <2>1, FS_Interval DEF Seats
<1>2. QED BY <1>1, FS_Subset, FS_CardinalityType

LEMMA SeatNumbers ==
  /\ N \in Nat /\ N >= 2
  /\ \A s \in Seats : s \in Nat /\ s <= N - 1
  /\ \A k \in Nat : k <= N - 1 => k \in Seats
BY TableAssumption, SeatCountAssumption DEF Seats

\* The lemmas below are about the operators Min and Max of FiniteSetsExt.
LEMMA MinOfNaturals ==
  ASSUME NEW T \in SUBSET Nat, T # {}
  PROVE  Min(T) \in T /\ \A x \in T : Min(T) <= x
BY LeastNatural DEF Min

LEMMA MaxOfNaturals ==
  ASSUME NEW T \in SUBSET Nat, IsFiniteSet(T), T # {}
  PROVE  Max(T) \in T /\ \A x \in T : x <= Max(T)
<1> DEFINE Q == {U \in SUBSET T : U = {} \/ \E m \in U : \A x \in U : x <= m}
<1>1. {} \in Q
  OBVIOUS
<1>2. ASSUME NEW U \in Q, NEW y \in T, y \notin U PROVE U \cup {y} \in Q
  <2>1. CASE U = {}
    BY <2>1
  <2>2. CASE U # {}
    <3>1. PICK m \in U : \A x \in U : x <= m
      BY <2>2
    <3>2. y \in Nat /\ m \in Nat /\ \A x \in U : x \in Nat
      OBVIOUS
    <3>3. CASE y <= m
      BY <3>1, <3>2, <3>3
    <3>4. CASE m < y
      BY <3>1, <3>2, <3>4
    <3>5. QED BY <3>2, <3>3, <3>4
  <2>3. QED BY <2>1, <2>2
<1> HIDE DEF Q
<1>3. Q \in SUBSET SUBSET T
  BY DEF Q
<1>4. T \in Q
  BY <1>1, <1>2, <1>3, FiniteSetInduction
<1>5. \E m \in T : \A x \in T : x <= m
  BY <1>4 DEF Q
<1>6. \E m \in T : \A x \in T : m >= x
  BY <1>5
<1>7. Max(T) \in T /\ \A x \in T : Max(T) >= x
  BY <1>6 DEF Max
<1>8. QED BY <1>7

-----------------------------------------------------------------------------
(* What the operators of Pots return.                                      *)

LEMMA PotLevelsType ==
  ASSUME NEW total \in [Seats -> Nat]
  PROVE  /\ IsFiniteSet(PotLevels(total))
         /\ PotLevels(total) \subseteq Nat \ {0}
<1> DEFINE values == {total[s] : s \in Seats}
<1>1. IsFiniteSet(values)
  BY SeatSets, FiniteImage
<1>2. PotLevels(total) \subseteq values
  BY DEF PotLevels
<1> HIDE DEF values
<1>3. IsFiniteSet(PotLevels(total))
  BY <1>1, <1>2, FS_Subset
<1>4. QED BY <1>3 DEF PotLevels

LEMMA LevelBelowType ==
  ASSUME NEW total \in [Seats -> Nat], NEW l \in PotLevels(total)
  PROVE  /\ LevelBelow(total, l) \in Nat
         /\ LevelBelow(total, l) < l
         /\ LevelBelow(total, l) \in PotLevels(total) \cup {0}
         /\ \A k \in PotLevels(total) : k < l => k <= LevelBelow(total, l)
<1> DEFINE lower == {k \in PotLevels(total) : k < l} \cup {0}
<1>1. IsFiniteSet(PotLevels(total)) /\ PotLevels(total) \subseteq Nat \ {0}
  BY PotLevelsType
<1>2. lower \in SUBSET Nat /\ lower # {}
  BY <1>1
<1>3. IsFiniteSet(lower)
  <2>1. IsFiniteSet({k \in PotLevels(total) : k < l})
    BY <1>1, FS_Subset
  <2>2. QED BY <2>1, FS_AddElement
<1>4. \A k \in lower : k < l
  BY <1>1
<1>5. 0 \in lower /\ \A k \in PotLevels(total) : k < l => k \in lower
  OBVIOUS
<1>6. lower \subseteq PotLevels(total) \cup {0}
  OBVIOUS
<1>7. LevelBelow(total, l) = Max(lower)
  BY DEF LevelBelow
<1> HIDE DEF lower
<1>8. Max(lower) \in lower /\ \A x \in lower : x <= Max(lower)
  BY <1>2, <1>3, MaxOfNaturals
<1>9. QED BY <1>2, <1>4, <1>5, <1>6, <1>7, <1>8

LEMMA ContributorsType ==
  ASSUME NEW total \in [Seats -> Nat], NEW l
  PROVE  Contributors(total, l) \subseteq Seats
BY DEF Contributors

\* CalculatePots: a pot per level, a natural amount in each.
LEMMA CalculatePotsType ==
  ASSUME NEW total \in [Seats -> Nat]
  PROVE  /\ DOMAIN CalculatePots(total) = PotLevels(total)
         /\ \A l \in PotLevels(total) :
              /\ CalculatePots(total)[l].amount \in Nat
              /\ CalculatePots(total)[l].eligible \subseteq Seats
<1>1. DOMAIN CalculatePots(total) = PotLevels(total)
  BY DEF CalculatePots
<1>2. ASSUME NEW l \in PotLevels(total)
      PROVE  /\ CalculatePots(total)[l].amount \in Nat
             /\ CalculatePots(total)[l].eligible \subseteq Seats
  <2>1. CalculatePots(total)[l].eligible = Contributors(total, l)
    BY DEF CalculatePots
  <2> DEFINE step  == l - LevelBelow(total, l)
             count == Cardinality(Contributors(total, l))
  <2>2. CalculatePots(total)[l].amount = step * count
    BY DEF CalculatePots
  <2>3. step \in Nat
    <3>1. l \in Nat
      BY PotLevelsType
    <3>2. LevelBelow(total, l) \in Nat /\ LevelBelow(total, l) < l
      BY LevelBelowType
    <3>3. QED BY <3>1, <3>2
  <2>4. count \in Nat
    BY ContributorsType, SeatSets
  <2> HIDE DEF step, count
  <2>5. step * count \in Nat
    BY <2>3, <2>4
  <2>6. QED BY <2>1, <2>2, <2>5, ContributorsType
<1>3. QED BY <1>1, <1>2

LEMMA TotalPotType ==
  ASSUME NEW total \in [Seats -> Nat]
  PROVE  TotalPot(CalculatePots(total)) \in Nat
<1> DEFINE P == CalculatePots(total)
           f == [l \in DOMAIN P |-> P[l].amount]
<1>1. f \in [PotLevels(total) -> Nat] /\ DOMAIN f = PotLevels(total)
  BY CalculatePotsType
<1>2. IsFiniteSet(PotLevels(total))
  BY PotLevelsType
<1>3. TotalPot(P) = SumFunctionOnSet(f, DOMAIN f)
  BY DEF TotalPot, SumFunction, SumFunctionOnSet
<1> HIDE DEF f
<1>4. QED BY <1>1, <1>2, <1>3, SumType

\* A share of a natural amount is a natural number.
LEMMA PotShareType ==
  ASSUME NEW pot, pot.amount \in Nat, pot.eligible \subseteq Seats,
         NEW s \in Seats, NEW live, NEW strength, NEW dealer
  PROVE  PotShare(pot, s, live, strength, dealer) \in Nat
<1> DEFINE winners == PotWinners(pot, live, strength)
           w       == Cardinality(winners)
           a       == pot.amount
<1>1. winners \subseteq Seats
  BY DEF PotWinners
<1>2. IsFiniteSet(winners) /\ w \in Nat
  BY <1>1, SeatSets
<1>3. PotShare(pot, s, live, strength, dealer) =
        IF s \notin winners THEN 0
        ELSE a \div w + (IF s = ClosestLeftOfDealer(winners, dealer) THEN a % w ELSE 0)
  BY DEF PotShare
<1>4. s \in winners => w > 0
  BY <1>2, FS_EmptySet
<1>5. a \in Nat
  OBVIOUS
<1> HIDE DEF winners, w, a
<1>6. w > 0 => a \div w \in Nat /\ a % w \in Nat
  BY <1>2, <1>5, SMT
<1>7. QED BY <1>3, <1>4, <1>6

LEMMA DistributePotsType ==
  ASSUME NEW total \in [Seats -> Nat], NEW live, NEW strength, NEW dealer
  PROVE  DistributePots(CalculatePots(total), live, strength, dealer) \in [Seats -> Nat]
<1> DEFINE P == CalculatePots(total)
           share(s) == [l \in DOMAIN P |-> PotShare(P[l], s, live, strength, dealer)]
<1>1. ASSUME NEW s \in Seats PROVE SumFunction(share(s)) \in Nat
  <2>1. \A l \in PotLevels(total) : PotShare(P[l], s, live, strength, dealer) \in Nat
    BY CalculatePotsType, PotShareType
  <2>2. share(s) \in [PotLevels(total) -> Nat] /\ DOMAIN share(s) = PotLevels(total)
    BY <2>1, CalculatePotsType
  <2>3. IsFiniteSet(PotLevels(total))
    BY PotLevelsType
  <2> DEFINE f == share(s)
  <2> HIDE DEF share
  <2>4. SumFunction(f) = SumFunctionOnSet(f, DOMAIN f)
    BY DEF SumFunction, SumFunctionOnSet
  <2>5. QED BY <2>2, <2>3, <2>4, SumType
<1>2. DistributePots(P, live, strength, dealer) = [s \in Seats |-> SumFunction(share(s))]
  BY DEF DistributePots, Seats
<1> HIDE DEF share
<1>3. QED BY <1>1, <1>2

-----------------------------------------------------------------------------
(* The pots are slices of the bets: between two levels every seat that     *)
(* reaches the upper one pays the difference.                              *)

Slice(total, l) == l - LevelBelow(total, l)

\* The slices up to a level add up to it.
LEMMA SlicesAddUp ==
  ASSUME NEW total \in [Seats -> Nat], NEW slice \in [PotLevels(total) -> Int],
         \A l \in PotLevels(total) : slice[l] = Slice(total, l)
  PROVE  \A x \in PotLevels(total) \cup {0} :
           SumFunctionOnSet(slice, {l \in PotLevels(total) : l <= x}) = x
<1> DEFINE L == PotLevels(total)
           upto(x) == {l \in L : l <= x}
           bad == {x \in L \cup {0} : SumFunctionOnSet(slice, upto(x)) # x}
<1>1. IsFiniteSet(L) /\ L \subseteq Nat \ {0}
  BY PotLevelsType
<1> SUFFICES ASSUME bad # {} PROVE FALSE
  OBVIOUS
<1>2. PICK x \in bad : \A k \in bad : x <= k
  <2>1. bad \in SUBSET Nat
    BY <1>1
  <2>2. QED BY <2>1, LeastNatural
<1>3. x # 0
  <2>1. upto(0) = {}
    BY <1>1
  <2>2. SumFunctionOnSet(slice, upto(0)) = 0
    BY <2>1, SumEmpty
  <2>3. QED BY <2>2
<1> DEFINE y == LevelBelow(total, x)
<1>4. x \in L /\ x \in Nat
  BY <1>1, <1>3
<1>5. y \in Nat /\ y < x /\ y \in L \cup {0} /\ \A k \in L : k < x => k <= y
  BY <1>4, LevelBelowType
<1> HIDE DEF y
<1>6. upto(x) = upto(y) \cup {x} /\ x \notin upto(y)
  BY <1>1, <1>4, <1>5
<1>7. SumFunctionOnSet(slice, upto(y)) = y
  BY <1>2, <1>4, <1>5
<1>8. upto(y) \in SUBSET L /\ IsFiniteSet(upto(y))
  BY <1>1, FS_Subset
<1> HIDE DEF upto
<1>9. SumFunctionOnSet(slice, upto(y) \cup {x}) = slice[x] + SumFunctionOnSet(slice, upto(y))
  BY <1>4, <1>6, <1>8, SumInsert
<1>10. slice[x] = x - y
  BY <1>4 DEF Slice, y
<1>11. SumFunctionOnSet(slice, upto(x)) = x
  BY <1>4, <1>5, <1>6, <1>7, <1>9, <1>10
<1>12. QED BY <1>2, <1>11

\* The amounts of some pots, slice by slice and seat by seat: if the pots chosen are,
\* for each seat, those up to a level g[t], they hold the sum of these levels.
LEMMA PotsAreSlices ==
  ASSUME NEW total \in [Seats -> Nat], NEW K \in SUBSET PotLevels(total),
         NEW g \in [Seats -> Nat], \A t \in Seats : g[t] \in PotLevels(total) \cup {0},
         \A t \in Seats, l \in PotLevels(total) : l \in K /\ l <= total[t] <=> l <= g[t]
  PROVE  SumFunctionOnSet([l \in PotLevels(total) |-> CalculatePots(total)[l].amount], K)
           = SumFunctionOnSet(g, Seats)
<1> DEFINE L == PotLevels(total)
           amount == [l \in L |-> CalculatePots(total)[l].amount]
           slice == [l \in L |-> Slice(total, l)]
           cell == [l \in K |-> [t \in Seats |-> IF l <= total[t] THEN slice[l] ELSE 0]]
<1>1. IsFiniteSet(L) /\ L \subseteq Nat \ {0} /\ IsFiniteSet(Seats) /\ IsFiniteSet(K)
  BY PotLevelsType, SeatSets, FS_Subset
<1>2. slice \in [L -> Nat] /\ \A l \in L : slice[l] = Slice(total, l)
  <2>1. \A l \in L : Slice(total, l) \in Nat
    BY <1>1, LevelBelowType DEF Slice
  <2>2. QED BY <2>1
<1>3. cell \in [K -> [Seats -> Int]]
  <2>1. \A l \in K, t \in Seats : (IF l <= total[t] THEN slice[l] ELSE 0) \in Int
    BY <1>2
  <2> HIDE DEF slice
  <2>2. QED BY <2>1
<1>4. amount \in [L -> Nat]
  BY CalculatePotsType
<1>5. ASSUME NEW l \in K PROVE amount[l] = SumFunctionOnSet(cell[l], Seats)
  <2> DEFINE C == Contributors(total, l)
             row == cell[l]
  <2>1. C \in SUBSET Seats /\ IsFiniteSet(C)
    BY SeatSets DEF Contributors
  <2>2. /\ row \in [Seats -> Int] /\ \A t \in Seats \ C : row[t] = 0
        /\ \A t \in C : row[t] = slice[l]
    <3>1. \A t \in Seats : row[t] = IF l <= total[t] THEN slice[l] ELSE 0
      OBVIOUS
    <3>2. \A t \in Seats : t \in C <=> l <= total[t]
      BY <1>1 DEF Contributors
    <3>3. row \in [Seats -> Int]
      BY <1>3
    <3> HIDE DEF row, C, slice, cell
    <3>4. QED BY <2>1, <3>1, <3>2, <3>3
  <2>3. amount[l] = slice[l] * Cardinality(C)
    BY DEF CalculatePots, Slice
  <2>4. slice[l] \in Int
    BY <1>2
  <2> HIDE DEF row, C, slice, amount, cell
  <2>5. SumFunctionOnSet(row, Seats) = SumFunctionOnSet(row, C)
    BY <1>1, <2>1, <2>2, SumZeroOutside
  <2>6. SumFunctionOnSet(row, C) = slice[l] * Cardinality(C)
    BY <2>1, <2>2, <2>4, SumConstant
  <2>7. QED BY <2>3, <2>5, <2>6 DEF row
<1>6. ASSUME NEW t \in Seats PROVE g[t] = SumFunctionOnSet([l \in K |-> cell[l][t]], K)
  <2> DEFINE col == [l \in K |-> cell[l][t]]
             U == {l \in L : l <= g[t]}
  <2>1. U \in SUBSET K /\ IsFiniteSet(U) /\ U \in SUBSET L
    <3>1. U \in SUBSET K
      OBVIOUS
    <3>2. QED BY <1>1, <3>1, FS_Subset
  <2>2. col \in [K -> Int] /\ (\A l \in K \ U : col[l] = 0) /\ (\A l \in U : col[l] = slice[l])
    <3>1. \A l \in K : col[l] = IF l <= total[t] THEN slice[l] ELSE 0
      OBVIOUS
    <3>2. \A l \in K : l \in U <=> l <= total[t]
      OBVIOUS
    <3>3. col \in [K -> Int]
      BY <1>3
    <3> HIDE DEF col, U, slice, cell
    <3>4. QED BY <2>1, <3>1, <3>2, <3>3
  <2>3. SumFunctionOnSet(slice, U) = g[t]
    <3> HIDE DEF slice
    <3>1. QED BY <1>2, SlicesAddUp
  <2> HIDE DEF col, U, slice, cell
  <2>4. SumFunctionOnSet(col, K) = SumFunctionOnSet(col, U)
    BY <1>1, <2>1, <2>2, SumZeroOutside
  <2>5. SumFunctionOnSet(col, U) = SumFunctionOnSet(slice, U)
    <3>1. slice \in [L -> Int] /\ \A l \in U : col[l] = slice[l]
      BY <1>2, <2>2
    <3>2. QED BY <2>1, <2>2, <3>1, SumSame
  <2>6. QED BY <2>3, <2>4, <2>5 DEF col
<1>7. SumFunctionOnSet([l \in K |-> SumFunctionOnSet(cell[l], Seats)], K)
        = SumFunctionOnSet([t \in Seats |-> SumFunctionOnSet([l \in K |-> cell[l][t]], K)], Seats)
  <2> HIDE DEF cell
  <2>1. QED BY <1>1, <1>3, SumExchange
<1>8. SumFunctionOnSet(amount, K) = SumFunctionOnSet([l \in K |-> SumFunctionOnSet(cell[l], Seats)], K)
  <2> DEFINE rows == [l \in K |-> SumFunctionOnSet(cell[l], Seats)]
  <2>1. \A l \in K : rows[l] = amount[l]
    BY <1>5
  <2>2. rows = [l \in K |-> rows[l]]
    OBVIOUS
  <2> HIDE DEF rows, amount, cell
  <2>3. rows \in [K -> Int] /\ amount \in [L -> Int]
    BY <1>4, <2>1, <2>2
  <2>4. K \in SUBSET L /\ K \in SUBSET K /\ \A l \in K : amount[l] = rows[l]
    BY <2>1
  <2>5. SumFunctionOnSet(amount, K) = SumFunctionOnSet(rows, K)
    BY <1>1, <2>3, <2>4, SumSame
  <2>6. QED BY <2>5 DEF rows
<1>9. [t \in Seats |-> SumFunctionOnSet([l \in K |-> cell[l][t]], K)] = g
  <2> DEFINE cols == [t \in Seats |-> SumFunctionOnSet([l \in K |-> cell[l][t]], K)]
  <2>1. \A t \in Seats : cols[t] = g[t]
    BY <1>6
  <2>2. cols = [t \in Seats |-> cols[t]]
    OBVIOUS
  <2> HIDE DEF cols
  <2>3. cols = g
    BY <2>1, <2>2
  <2>4. QED BY <2>3 DEF cols
<1>10. QED BY <1>7, <1>8, <1>9

\* All the pots together hold all the bets.
LEMMA PotsHoldBets ==
  ASSUME NEW total \in [Seats -> Nat]
  PROVE  TotalPot(CalculatePots(total)) = SumFunction(total)
<1> DEFINE L == PotLevels(total)
           amount == [l \in L |-> CalculatePots(total)[l].amount]
<1>1. L \in SUBSET L /\ L \subseteq Nat \ {0}
  BY PotLevelsType
<1>2. /\ \A t \in Seats : total[t] \in L \cup {0}
      /\ \A t \in Seats, l \in L : l \in L /\ l <= total[t] <=> l <= total[t]
  BY DEF PotLevels
<1>3. SumFunctionOnSet(amount, L) = SumFunctionOnSet(total, Seats)
  <2> HIDE DEF L
  <2>1. \A K \in SUBSET L : K = L => SumFunctionOnSet(amount, K) = SumFunctionOnSet(total, Seats)
    BY <1>2, PotsAreSlices DEF L
  <2>2. QED BY <2>1
<1>4. TotalPot(CalculatePots(total)) = SumFunctionOnSet(amount, L)
  BY CalculatePotsType DEF TotalPot, SumFunction
<1>5. QED BY <1>3, <1>4 DEF SumFunction

\* What the other bets match of a seat's bet.
MatchedBets(total, s) == [t \in Seats |-> IF total[t] < total[s] THEN total[t] ELSE total[s]]

\* The pots that a seat can win hold what the others match of its bet.
LEMMA EligiblePots ==
  ASSUME NEW total \in [Seats -> Nat], NEW s \in Seats
  PROVE  SumFunctionOnSet([l \in PotLevels(total) |-> CalculatePots(total)[l].amount],
                          {l \in PotLevels(total) : l <= total[s]})
           = SumFunction(MatchedBets(total, s))
<1> DEFINE L == PotLevels(total)
           K == {l \in L : l <= total[s]}
           g == MatchedBets(total, s)
<1>1. K \in SUBSET L /\ L \subseteq Nat
  BY PotLevelsType
<1>2. /\ \A t \in Seats : g[t] = IF total[t] < total[s] THEN total[t] ELSE total[s]
      /\ g \in [Seats -> Nat] /\ DOMAIN g = Seats
  BY DEF MatchedBets
<1> HIDE DEF g
<1>3. \A t \in Seats : total[t] \in L \cup {0} /\ total[t] \in Nat
  BY DEF PotLevels
<1> HIDE DEF L
<1>4. \A t \in Seats : g[t] \in L \cup {0}
  BY <1>2, <1>3
<1>5. \A t \in Seats, l \in L : l \in K /\ l <= total[t] <=> l <= g[t]
  BY <1>1, <1>2, <1>3
<1> HIDE DEF K
<1>6. SumFunctionOnSet([l \in L |-> CalculatePots(total)[l].amount], K) = SumFunctionOnSet(g, Seats)
  BY <1>1, <1>2, <1>4, <1>5, PotsAreSlices DEF L
<1>7. QED BY <1>2, <1>6 DEF L, K, g, SumFunction

-----------------------------------------------------------------------------
(* A pot is paid out whole, or to nobody.                                  *)

\* The dealer's left: the winner closest to it is a winner.
LEMMA ClosestIsWinner ==
  ASSUME NEW W \in SUBSET Seats, W # {}, NEW dealer \in Seats
  PROVE  ClosestLeftOfDealer(W, dealer) \in W
<1> DEFINE far(s) == SeatsLeftOf(dealer, s)
           T == {far(s) : s \in W}
<1>1. \A s \in W : far(s) \in Nat
  BY SeatNumbers DEF SeatsLeftOf
<1>2. T \in SUBSET Nat /\ T # {}
  BY <1>1
<1>3. PICK m \in T : \A k \in T : m <= k
  BY <1>2, LeastNatural
<1>4. \E s \in W : \A t \in W : far(s) <= far(t)
  BY <1>3
<1>5. QED BY <1>4 DEF ClosestLeftOfDealer

\* Somebody eligible and live has the best hand.
LEMMA PotHasWinner ==
  ASSUME NEW pot, pot.eligible \subseteq Seats, NEW live \in SUBSET Seats,
         NEW strength \in [live -> Nat], pot.eligible \cap live # {}
  PROVE  PotWinners(pot, live, strength) # {}
<1> DEFINE E == pot.eligible \cap live
           T == {strength[s] : s \in E}
<1>1. E \in SUBSET live /\ E # {} /\ IsFiniteSet(E)
  <2>1. E \in SUBSET Seats
    OBVIOUS
  <2>2. QED BY <2>1, SeatSets
<1> HIDE DEF E
<1>2. T \in SUBSET Nat /\ T # {} /\ IsFiniteSet(T)
  BY <1>1, FiniteImage
<1>3. Max(T) \in T /\ \A x \in T : x <= Max(T)
  BY <1>2, MaxOfNaturals
<1>4. PICK s \in E : strength[s] = Max(T)
  BY <1>3
<1>5. \A t \in E : strength[t] <= strength[s]
  BY <1>3, <1>4
<1>6. QED BY <1>4, <1>5 DEF PotWinners, E

LEMMA Division ==
  ASSUME NEW a \in Nat, NEW w \in Nat, w > 0
  PROVE  (a \div w) * w + (a % w) = a
BY Z3

LEMMA PotIsPaidWhole ==
  ASSUME NEW pot, pot.amount \in Nat, pot.eligible \subseteq Seats, NEW live \in SUBSET Seats,
         NEW strength \in [live -> Nat], NEW dealer \in Seats
  PROVE  SumFunctionOnSet([s \in Seats |-> PotShare(pot, s, live, strength, dealer)], Seats)
           = IF pot.eligible \cap live = {} THEN 0 ELSE pot.amount
<1> DEFINE W == PotWinners(pot, live, strength)
           w == Cardinality(W)
           a == pot.amount
           c == ClosestLeftOfDealer(W, dealer)
           share == [s \in Seats |-> PotShare(pot, s, live, strength, dealer)]
<1>1. W \in SUBSET Seats /\ W \subseteq pot.eligible \cap live
  BY DEF PotWinners
<1>2. IsFiniteSet(W) /\ w \in Nat
  BY <1>1, SeatSets
<1>3. \A s \in Seats : share[s] = IF s \notin W THEN 0
                                  ELSE (a \div w) + (IF s = c THEN a % w ELSE 0)
  BY DEF PotShare
<1>4. share \in [Seats -> Int]
  <2>1. \A s \in Seats : PotShare(pot, s, live, strength, dealer) \in Nat
    BY PotShareType
  <2>2. QED BY <2>1
<1>5. IsFiniteSet(Seats)
  BY SeatSets
<1> HIDE DEF share
<1>6. CASE pot.eligible \cap live = {}
  <2>1. \A s \in Seats : share[s] = 0
    BY <1>1, <1>3, <1>6
  <2>2. SumFunctionOnSet(share, Seats) = 0
    BY <1>4, <1>5, <2>1, SumZeros
  <2>3. QED BY <1>6, <2>2 DEF share
<1>7. CASE pot.eligible \cap live # {}
  <2>1. W # {} /\ c \in W
    BY <1>1, <1>7, PotHasWinner, ClosestIsWinner
  <2>2. w > 0 /\ a \in Nat
    BY <1>2, <2>1, FS_EmptySet
  <2> HIDE DEF W, w, a, c
  <2>3. a \div w \in Nat /\ a % w \in Nat /\ (a \div w) * w + (a % w) = a
    <3>1. a \div w \in Nat /\ a % w \in Nat
      BY <1>2, <2>2, SMT
    <3>2. QED BY <1>2, <2>2, <3>1, Division
  <2> DEFINE q == a \div w
             r == a % w
             even == [s \in Seats |-> IF s \in W THEN q ELSE 0]
             odd  == [s \in Seats |-> IF s = c THEN r ELSE 0]
  <2> HIDE DEF q, r
  <2>4. even \in [Seats -> Int] /\ odd \in [Seats -> Int]
    BY <2>3 DEF q, r
  <2>5. \A s \in Seats : share[s] = even[s] + odd[s]
    <3> SUFFICES ASSUME NEW s \in Seats PROVE share[s] = even[s] + odd[s]
      OBVIOUS
    <3>1. share[s] = IF s \notin W THEN 0 ELSE q + (IF s = c THEN r ELSE 0)
      BY <1>3 DEF q, r
    <3>2. q \in Nat /\ r \in Nat
      BY <2>3 DEF q, r
    <3>3. QED BY <2>1, <3>1, <3>2
  <2>6. /\ \A s \in Seats \ W : even[s] = 0
        /\ \A s \in W : even[s] = q
        /\ \A s \in Seats \ {c} : odd[s] = 0
        /\ odd[c] = r
    BY <1>1, <2>1
  <2> HIDE DEF even, odd
  <2>7. SumFunctionOnSet(share, Seats) = SumFunctionOnSet(even, Seats) + SumFunctionOnSet(odd, Seats)
    BY <1>4, <1>5, <2>4, <2>5, SumAdd
  <2>8. SumFunctionOnSet(even, Seats) = q * w
    <3>1. SumFunctionOnSet(even, Seats) = SumFunctionOnSet(even, W)
      BY <1>1, <1>5, <2>4, <2>6, SumZeroOutside
    <3>2. q \in Int
      BY <2>3 DEF q
    <3>3. SumFunctionOnSet(even, W) = q * w
      BY <1>1, <1>2, <2>4, <2>6, <3>2, SumConstant DEF w
    <3>4. QED BY <3>1, <3>3
  <2>9. SumFunctionOnSet(odd, Seats) = r
    <3>1. c \in Seats /\ {c} \in SUBSET Seats
      BY <1>1, <2>1
    <3>2. SumFunctionOnSet(odd, Seats) = SumFunctionOnSet(odd, {c})
      BY <1>5, <2>4, <2>6, <3>1, SumZeroOutside
    <3>3. SumFunctionOnSet(odd, {c}) = odd[c] + SumFunctionOnSet(odd, {})
      <4>1. {} \in SUBSET Seats /\ IsFiniteSet({}) /\ c \notin {} /\ {} \cup {c} = {c}
        BY FS_EmptySet
      <4>2. SumFunctionOnSet(odd, {} \cup {c}) = odd[c] + SumFunctionOnSet(odd, {})
        BY <2>4, <3>1, <4>1, SumInsert
      <4>3. QED BY <4>1, <4>2
    <3>4. SumFunctionOnSet(odd, {}) = 0
      BY SumEmpty
    <3>5. r \in Nat
      BY <2>3 DEF r
    <3>6. QED BY <2>6, <3>2, <3>3, <3>4, <3>5
  <2>10. SumFunctionOnSet(share, Seats) = a
    BY <2>3, <2>7, <2>8, <2>9 DEF q, r
  <2>11. QED BY <1>7, <2>10 DEF share, a
<1>8. QED BY <1>6, <1>7

-----------------------------------------------------------------------------
(* What a showdown pays.                                                   *)

\* The pots that nobody left in the hand may win.
DeadPots(P, live) == {l \in DOMAIN P : P[l].eligible \cap live = {}}

\* A showdown pays all but the dead pots.
LEMMA ShowdownPays ==
  ASSUME NEW total \in [Seats -> Nat], NEW live \in SUBSET Seats,
         NEW strength \in [live -> Nat], NEW dealer \in Seats
  PROVE  LET P == CalculatePots(total)
             D == DistributePots(P, live, strength, dealer)
         IN  /\ D \in [Seats -> Nat]
             /\ SumFunction(total) - SumFunction(D)
                  = SumFunction([l \in DeadPots(P, live) |-> P[l].amount])
             /\ DeadPots(P, live) = {} => SumFunction(D) = SumFunction(total)
<1> DEFINE P == CalculatePots(total)
           L == PotLevels(total)
           D == DistributePots(P, live, strength, dealer)
           dead == DeadPots(P, live)
           cell == [s \in Seats |-> [l \in L |-> PotShare(P[l], s, live, strength, dealer)]]
           amount == [l \in L |-> P[l].amount]
           paid == [l \in L |-> SumFunctionOnSet([s \in Seats |-> cell[s][l]], Seats)]
           lost == [l \in L |-> IF l \in dead THEN amount[l] ELSE 0]
<1>1. DOMAIN P = L /\ \A l \in L : P[l].amount \in Nat /\ P[l].eligible \subseteq Seats
  BY CalculatePotsType
<1>2. IsFiniteSet(L) /\ IsFiniteSet(Seats)
  BY PotLevelsType, SeatSets
<1>3. dead \in SUBSET L /\ IsFiniteSet(dead)
  <2>1. dead \in SUBSET L
    BY <1>1 DEF DeadPots
  <2>2. QED BY <1>2, <2>1, FS_Subset
<1>4. cell \in [Seats -> [L -> Int]]
  <2>1. \A s \in Seats, l \in L : PotShare(P[l], s, live, strength, dealer) \in Nat
    BY <1>1, PotShareType
  <2> HIDE DEF P, L
  <2>2. QED BY <2>1
<1>5. D = [s \in Seats |-> SumFunctionOnSet(cell[s], L)]
  <2>1. ASSUME NEW s \in Seats
        PROVE  SumFunction([l \in DOMAIN P |-> PotShare(P[l], s, live, strength, dealer)])
                 = SumFunctionOnSet(cell[s], L)
    BY <1>1 DEF SumFunction
  <2>2. D = [s \in Seats |-> SumFunction([l \in DOMAIN P |-> PotShare(P[l], s, live, strength, dealer)])]
    BY DEF DistributePots, Seats
  <2> HIDE DEF P, L, cell, D
  <2>3. QED BY <2>1, <2>2
<1>6. D \in [Seats -> Nat]
  BY DistributePotsType
<1>7. \A l \in L : paid[l] = IF l \in dead THEN 0 ELSE amount[l]
  <2> SUFFICES ASSUME NEW l \in L PROVE paid[l] = IF l \in dead THEN 0 ELSE amount[l]
    OBVIOUS
  <2>1. [s \in Seats |-> cell[s][l]] = [s \in Seats |-> PotShare(P[l], s, live, strength, dealer)]
    OBVIOUS
  <2>2. P[l].amount \in Nat /\ P[l].eligible \subseteq Seats
    BY <1>1
  <2>3. l \in dead <=> P[l].eligible \cap live = {}
    BY <1>1 DEF DeadPots
  <2> HIDE DEF P, dead, cell
  <2>4. SumFunctionOnSet([s \in Seats |-> PotShare(P[l], s, live, strength, dealer)], Seats)
          = IF P[l].eligible \cap live = {} THEN 0 ELSE P[l].amount
    BY <2>2, PotIsPaidWhole
  <2>5. QED BY <2>1, <2>3, <2>4
<1>8. amount \in [L -> Int] /\ lost \in [L -> Int] /\ paid \in [L -> Int]
  <2>1. \A l \in L : amount[l] \in Nat
    BY <1>1
  <2>2. amount \in [L -> Int]
    BY <1>1
  <2>3. \A l \in L : (IF l \in dead THEN amount[l] ELSE 0) \in Int
    BY <2>1
  <2>4. lost \in [L -> Int]
    <3> HIDE DEF amount, dead, L
    <3>1. QED BY <2>3
  <2>5. \A l \in L : paid[l] \in Int
    <3> HIDE DEF amount, paid, dead, L
    <3>1. QED BY <1>7, <2>1
  <2>6. paid = [l \in L |-> paid[l]]
    OBVIOUS
  <2> HIDE DEF paid
  <2>7. QED BY <2>2, <2>4, <2>5, <2>6
<1>9. SumFunction(D) = SumFunctionOnSet(paid, L)
  <2>1. SumFunctionOnSet([s \in Seats |-> SumFunctionOnSet(cell[s], L)], Seats) = SumFunctionOnSet(paid, L)
    <3> HIDE DEF cell, L
    <3>1. QED BY <1>2, <1>4, SumExchange
  <2>2. SumFunction(D) = SumFunctionOnSet(D, Seats)
    <3> HIDE DEF D
    <3>1. QED BY <1>6 DEF SumFunction
  <2>3. QED BY <1>5, <2>1, <2>2
<1>10. SumFunctionOnSet(amount, L) = SumFunctionOnSet(paid, L) + SumFunctionOnSet(lost, L)
  <2>1. \A l \in L : amount[l] = paid[l] + lost[l]
    <3> SUFFICES ASSUME NEW l \in L PROVE amount[l] = paid[l] + lost[l]
      OBVIOUS
    <3>1. amount[l] \in Int /\ lost[l] = IF l \in dead THEN amount[l] ELSE 0
      BY <1>8
    <3> HIDE DEF amount, paid, lost, dead
    <3>2. QED BY <1>7, <3>1
  <2> HIDE DEF amount, paid, lost, L
  <2>2. QED BY <1>2, <1>8, <2>1, SumAdd
<1>11. SumFunctionOnSet(lost, L) = SumFunction([l \in dead |-> P[l].amount])
  <2> DEFINE gone == [l \in dead |-> P[l].amount]
  <2>1. (\A l \in L \ dead : lost[l] = 0) /\ (\A l \in dead : lost[l] = gone[l])
    BY <1>3
  <2>2. gone \in [dead -> Int] /\ DOMAIN gone = dead
    BY <1>1, <1>3
  <2> HIDE DEF lost, L, dead, gone
  <2>3. SumFunctionOnSet(lost, L) = SumFunctionOnSet(lost, dead)
    BY <1>2, <1>3, <1>8, <2>1, SumZeroOutside
  <2>4. SumFunctionOnSet(lost, dead) = SumFunctionOnSet(gone, dead)
    <3>1. /\ dead \in SUBSET L /\ dead \in SUBSET dead /\ IsFiniteSet(dead)
          /\ lost \in [L -> Int] /\ gone \in [dead -> Int]
          /\ \A l \in dead : lost[l] = gone[l]
      BY <1>3, <1>8, <2>1, <2>2
    <3> HIDE <2>1, <2>2
    <3>2. QED BY <3>1, SumSame
  <2>5. QED BY <2>2, <2>3, <2>4 DEF gone, SumFunction
<1>12. SumFunctionOnSet(amount, L) = SumFunction(total)
  <2>1. TotalPot(P) = SumFunctionOnSet(amount, L)
    BY <1>1 DEF TotalPot, SumFunction
  <2>2. QED BY <2>1, PotsHoldBets
<1>13. SumFunctionOnSet(paid, L) \in Int /\ SumFunctionOnSet(lost, L) \in Int
  <2> HIDE DEF paid, lost, L
  <2>1. \A S : S = L => S \in SUBSET L
    OBVIOUS
  <2>2. QED BY <1>2, <1>8, <2>1, SumType
<1>14. dead = {} => SumFunctionOnSet(lost, L) = 0
  <2>1. dead = {} => \A l \in L : lost[l] = 0
    OBVIOUS
  <2> HIDE DEF lost, L, dead
  <2>2. QED BY <1>2, <1>8, <2>1, SumZeros
<1> HIDE DEF D, P, dead, paid, lost, amount, L
<1>15. /\ SumFunction(total) - SumFunction(D) = SumFunctionOnSet(lost, L)
       /\ dead = {} => SumFunction(D) = SumFunction(total)
  BY <1>9, <1>10, <1>12, <1>13, <1>14
<1>16. QED BY <1>6, <1>11, <1>15 DEF D, P, dead

\* Nobody takes more than there is in a pot, or anything from one it did not reach.
LEMMA ShareIsBounded ==
  ASSUME NEW pot, pot.amount \in Nat, pot.eligible \subseteq Seats, NEW live,
         NEW strength, NEW dealer, NEW s \in Seats
  PROVE  /\ PotShare(pot, s, live, strength, dealer) \in 0..pot.amount
         /\ s \notin pot.eligible => PotShare(pot, s, live, strength, dealer) = 0
<1> DEFINE W == PotWinners(pot, live, strength)
           w == Cardinality(W)
           a == pot.amount
           share == PotShare(pot, s, live, strength, dealer)
<1>1. W \in SUBSET Seats /\ W \subseteq pot.eligible
  BY DEF PotWinners
<1>2. IsFiniteSet(W) /\ w \in Nat /\ a \in Nat
  BY <1>1, SeatSets
<1>3. share = IF s \notin W THEN 0
              ELSE (a \div w) + (IF s = ClosestLeftOfDealer(W, dealer) THEN a % w ELSE 0)
  BY DEF PotShare
<1>4. s \in W => w > 0
  BY <1>2, FS_EmptySet
<1> HIDE DEF W, w, a, share
<1>5. ASSUME w > 0 PROVE a \div w \in Nat /\ a % w \in Nat /\ (a \div w) + (a % w) <= a
  <2>1. a \div w \in Nat /\ a % w \in Nat
    BY <1>2, <1>5, SMT
  <2>2. (a \div w) * w + (a % w) = a
    BY <1>2, <1>5, Division
  <2>3. \A q \in Nat : q <= q * w
    BY <1>2, <1>5, Z3
  <2>4. (a \div w) * w \in Nat /\ a \div w <= (a \div w) * w
    BY <1>2, <2>1, <2>3
  <2>5. QED BY <1>2, <2>1, <2>2, <2>4
<1>6. share \in 0..a
  BY <1>2, <1>3, <1>4, <1>5
<1>7. QED BY <1>1, <1>3, <1>6 DEF share, a

\* Nobody wins more than the others match of its bet.
LEMMA WinsWhatIsMatched ==
  ASSUME NEW total \in [Seats -> Nat], NEW live, NEW strength, NEW dealer, NEW s \in Seats
  PROVE  DistributePots(CalculatePots(total), live, strength, dealer)[s]
           <= SumFunction(MatchedBets(total, s))
<1> DEFINE P == CalculatePots(total)
           L == PotLevels(total)
           K == {l \in L : l <= total[s]}
           share == [l \in L |-> PotShare(P[l], s, live, strength, dealer)]
           amount == [l \in L |-> P[l].amount]
<1>1. DOMAIN P = L /\ \A l \in L : P[l].amount \in Nat /\ P[l].eligible \subseteq Seats
  BY CalculatePotsType
<1>2. IsFiniteSet(L) /\ K \in SUBSET L /\ L \subseteq Nat
  BY PotLevelsType
<1>3. \A l \in L : /\ share[l] \in Nat /\ amount[l] \in Nat /\ share[l] <= amount[l]
                   /\ l \notin K => share[l] = 0
  <2> SUFFICES ASSUME NEW l \in L
               PROVE  /\ share[l] \in Nat /\ amount[l] \in Nat /\ share[l] <= amount[l]
                      /\ l \notin K => share[l] = 0
    OBVIOUS
  <2>1. P[l].amount \in Nat /\ P[l].eligible \subseteq Seats
    BY <1>1
  <2>2. s \in P[l].eligible <=> total[s] >= l
    BY DEF CalculatePots, Contributors
  <2>3. l \notin K => s \notin P[l].eligible
    BY <1>2, <2>2
  <2>4. share[l] = PotShare(P[l], s, live, strength, dealer) /\ amount[l] = P[l].amount
    OBVIOUS
  <2> HIDE DEF P, L, K, share, amount
  <2>5. /\ PotShare(P[l], s, live, strength, dealer) \in 0..P[l].amount
        /\ s \notin P[l].eligible => PotShare(P[l], s, live, strength, dealer) = 0
    BY <2>1, ShareIsBounded
  <2>6. QED BY <2>1, <2>3, <2>4, <2>5
<1>4. share \in [L -> Int] /\ amount \in [L -> Int]
  <2>1. share = [l \in L |-> share[l]] /\ amount = [l \in L |-> amount[l]]
    OBVIOUS
  <2> HIDE DEF share, amount
  <2>2. QED BY <1>3, <2>1
<1>5. DistributePots(P, live, strength, dealer)[s] = SumFunctionOnSet(share, L)
  BY <1>1 DEF DistributePots, Seats, SumFunction
<1>6. SumFunction(MatchedBets(total, s)) = SumFunctionOnSet(amount, K)
  BY EligiblePots
<1> HIDE DEF share, amount, K, L, P
<1>7. SumFunctionOnSet(share, L) = SumFunctionOnSet(share, K)
  <2>1. \A l \in L \ K : share[l] = 0
    BY <1>3
  <2>2. QED BY <1>2, <1>4, <2>1, SumZeroOutside
<1>8. IsFiniteSet(K)
  BY <1>2, FS_Subset
<1>9. SumFunctionOnSet(share, K) <= SumFunctionOnSet(amount, K)
  <2>1. \A l \in K : share[l] <= amount[l]
    BY <1>2, <1>3
  <2>2. QED BY <1>2, <1>4, <1>8, <2>1, SumMono
<1>10. QED BY <1>5, <1>6, <1>7, <1>9 DEF P

-----------------------------------------------------------------------------
(* What a seat may win, for any bets, any seats still in the hand and any  *)
(* order of their hands.                                                   *)

\* The bets are natural numbers, whoever is in the hand sits at the table, and
\* somebody is.
BetsInv == bets \in [Seats -> Nat] /\ inHand \in SUBSET Seats /\ inHand # {}

LEMMA RankingsType ==
  ASSUME BetsInv
  PROVE  Rankings \subseteq [inHand -> Nat]
<1>1. Cardinality(inHand) \in Nat
  BY SeatSets DEF BetsInv
<1>2. QED BY <1>1 DEF Rankings

LEMMA MatchedIsMatchedBets ==
  ASSUME BetsInv, NEW s \in Seats
  PROVE  Matched(s) = SumFunction(MatchedBets(bets, s))
<1>1. \A t \in Seats : Lesser(bets[s], bets[t]) = IF bets[t] < bets[s] THEN bets[t] ELSE bets[s]
  BY DEF BetsInv, Lesser
<1>2. [t \in Seats |-> Lesser(bets[s], bets[t])] = MatchedBets(bets, s)
  BY <1>1 DEF MatchedBets
<1>3. QED BY <1>2 DEF Matched

\* The pots a seat is eligible for add up to what it may win.
LEMMA EligibleAddsUp ==
  ASSUME BetsInv
  PROVE  EligibleForMatched
<1> SUFFICES ASSUME NEW s \in Seats
             PROVE  LET P == CalculatePots(bets) IN
                    SumFunction([l \in {k \in DOMAIN P : s \in P[k].eligible} |-> P[l].amount])
                      = Matched(s)
  BY DEF EligibleForMatched
<1> DEFINE P == CalculatePots(bets)
           L == PotLevels(bets)
           K == {l \in L : l <= bets[s]}
           E == {k \in DOMAIN P : s \in P[k].eligible}
           amount == [l \in L |-> P[l].amount]
           mine == [l \in E |-> P[l].amount]
<1>1. bets \in [Seats -> Nat]
  BY DEF BetsInv
<1>2. IsFiniteSet(L) /\ L \subseteq Nat /\ DOMAIN P = L /\ \A l \in L : P[l].amount \in Nat
  BY <1>1, PotLevelsType, CalculatePotsType
<1>3. \A l \in L : s \in P[l].eligible <=> l <= bets[s]
  BY <1>1, <1>2 DEF CalculatePots, Contributors
<1>4. E = K
  BY <1>2, <1>3
<1>5. K \in SUBSET L /\ K \in SUBSET E /\ IsFiniteSet(K)
  BY <1>2, <1>4, FS_Subset
<1>6. amount \in [L -> Int] /\ mine \in [E -> Int] /\ \A l \in K : amount[l] = mine[l]
  BY <1>2, <1>4
<1>7. SumFunctionOnSet(amount, K) = SumFunctionOnSet(mine, K)
  <2> HIDE DEF amount, mine, K, E, L, P
  <2>1. QED BY <1>5, <1>6, SumSame
<1>8. SumFunctionOnSet(amount, K) = SumFunction(MatchedBets(bets, s))
  BY <1>1, EligiblePots
<1>9. SumFunction(mine) = SumFunctionOnSet(mine, K)
  BY <1>4 DEF SumFunction
<1>10. QED BY <1>7, <1>8, <1>9, MatchedIsMatchedBets

\* What a seat is paid is the sum of its shares, pot by pot.
LEMMA WinningsAreShares ==
  ASSUME BetsInv, NEW strength, NEW dealer, NEW s \in Seats,
         NEW share \in [PotLevels(bets) -> Int],
         \A l \in PotLevels(bets) :
           share[l] = PotShare(CalculatePots(bets)[l], s, inHand, strength, dealer)
  PROVE  Winnings(strength, dealer)[s] = SumFunctionOnSet(share, PotLevels(bets))
<1> DEFINE P == CalculatePots(bets)
           L == PotLevels(bets)
           paid == [l \in L |-> PotShare(P[l], s, inHand, strength, dealer)]
<1>1. DOMAIN P = L
  BY CalculatePotsType DEF BetsInv
<1>2. Winnings(strength, dealer)[s] = SumFunctionOnSet(paid, L)
  BY <1>1 DEF Winnings, DistributePots, SumFunction
<1>3. \A l \in L : paid[l] = share[l]
  OBVIOUS
<1>4. paid = share
  <2>1. paid = [l \in L |-> paid[l]] /\ share = [l \in L |-> share[l]]
    OBVIOUS
  <2> HIDE DEF paid
  <2>2. QED BY <1>3, <2>1
<1>5. QED BY <1>2, <1>4

\* The best hand alone takes the whole of a pot it may win.
LEMMA BestTakesPot ==
  ASSUME BetsInv, NEW strength \in [inHand -> Nat], NEW dealer, NEW s \in inHand,
         \A t \in inHand \ {s} : strength[t] < strength[s],
         NEW pot, pot.amount \in Nat, s \in pot.eligible
  PROVE  PotShare(pot, s, inHand, strength, dealer) = pot.amount
<1> DEFINE W == PotWinners(pot, inHand, strength)
           a == pot.amount
<1>1. W = {s}
  <2>1. \A t \in pot.eligible \cap inHand : strength[t] <= strength[s]
    OBVIOUS
  <2>2. \A t \in inHand \ {s} : ~(strength[s] <= strength[t])
    OBVIOUS
  <2>3. QED BY <2>1, <2>2 DEF PotWinners
<1>2. Cardinality(W) = 1
  BY <1>1, FS_Singleton
<1>3. ClosestLeftOfDealer({s}, dealer) = s
  <2>1. SeatsLeftOf(dealer, s) <= SeatsLeftOf(dealer, s) => ClosestLeftOfDealer({s}, dealer) = s
    BY DEF ClosestLeftOfDealer
  <2>2. QED BY <2>1 DEF ClosestLeftOfDealer
<1>4. PotShare(pot, s, inHand, strength, dealer) = (a \div 1) + (a % 1)
  BY <1>1, <1>2, <1>3 DEF PotShare
<1>5. \A n \in Nat : (n \div 1) + (n % 1) = n
  BY SMT
<1>6. QED BY <1>4, <1>5

\* The best hand alone wins all it may win, wherever the dealer sits.
LEMMA BestWinsMatched ==
  ASSUME BetsInv
  PROVE  BestHandWinsAll
<1> SUFFICES ASSUME NEW strength \in Rankings, NEW dealer \in Seats, NEW s \in inHand,
                    \A t \in inHand \ {s} : strength[t] < strength[s]
             PROVE  Winnings(strength, dealer)[s] = Matched(s)
  BY DEF BestHandWinsAll
<1> DEFINE P == CalculatePots(bets)
           L == PotLevels(bets)
           K == {l \in L : l <= bets[s]}
           amount == [l \in L |-> P[l].amount]
           share == [l \in L |-> IF l \in K THEN amount[l] ELSE 0]
<1>1. bets \in [Seats -> Nat] /\ s \in Seats /\ strength \in [inHand -> Nat]
  BY RankingsType DEF BetsInv
<1>2. /\ IsFiniteSet(L) /\ L \subseteq Nat
      /\ \A l \in L : P[l].amount \in Nat /\ P[l].eligible \subseteq Seats
  BY <1>1, PotLevelsType, CalculatePotsType
<1>3. \A l \in L : s \in P[l].eligible <=> l \in K
  BY <1>1, <1>2 DEF CalculatePots, Contributors
<1>4. /\ amount \in [L -> Int] /\ share \in [L -> Int] /\ K \in SUBSET L /\ IsFiniteSet(K)
      /\ \A l \in L \ K : share[l] = 0
      /\ \A l \in K : share[l] = amount[l]
  <2>1. amount \in [L -> Int] /\ \A l \in L : amount[l] \in Int
    BY <1>2
  <2>2. K \in SUBSET L /\ IsFiniteSet(K)
    BY <1>2, FS_Subset
  <2> HIDE DEF K, L, amount
  <2>3. QED BY <2>1, <2>2
<1>5. \A l \in L : share[l] = PotShare(P[l], s, inHand, strength, dealer)
  <2> SUFFICES ASSUME NEW l \in L
               PROVE  share[l] = PotShare(P[l], s, inHand, strength, dealer)
    OBVIOUS
  <2>1. P[l].amount \in Nat /\ P[l].eligible \subseteq Seats /\ (s \in P[l].eligible <=> l \in K)
    BY <1>2, <1>3
  <2>2. share[l] = IF l \in K THEN P[l].amount ELSE 0
    OBVIOUS
  <2> HIDE DEF P, L, K, share, amount
  <2>3. CASE l \in K
    <3>1. PotShare(P[l], s, inHand, strength, dealer) = P[l].amount
      BY <1>1, <2>1, <2>3, BestTakesPot
    <3>2. QED BY <2>2, <2>3, <3>1
  <2>4. CASE l \notin K
    <3>1. PotShare(P[l], s, inHand, strength, dealer) = 0
      BY <1>1, <2>1, <2>4, ShareIsBounded
    <3>2. QED BY <2>2, <2>4, <3>1
  <2>5. QED BY <2>3, <2>4
<1>6. Winnings(strength, dealer)[s] = SumFunctionOnSet(share, L)
  <2>1. share \in [L -> Int]
    BY <1>4
  <2> HIDE DEF share
  <2>2. QED BY <1>1, <1>5, <2>1, WinningsAreShares
<1>7. SumFunctionOnSet(share, L) = SumFunctionOnSet(amount, K)
  <2> HIDE DEF share, amount, K, L, P
  <2>1. SumFunctionOnSet(share, L) = SumFunctionOnSet(share, K)
    BY <1>2, <1>4, SumZeroOutside
  <2>2. SumFunctionOnSet(share, K) = SumFunctionOnSet(amount, K)
    BY <1>4, SumSame
  <2>3. QED BY <2>1, <2>2
<1>8. SumFunctionOnSet(amount, K) = SumFunction(MatchedBets(bets, s))
  BY <1>1, EligiblePots
<1>9. QED BY <1>1, <1>6, <1>7, <1>8, MatchedIsMatchedBets

\* Of two winners of a pot with one hand the one nearer the dealer's left gets no
\* less, and at most the odd chips more.
LEMMA PotIsSharedFairly ==
  ASSUME BetsInv, NEW strength \in [inHand -> Nat], NEW dealer \in Seats,
         NEW s \in inHand, NEW t \in inHand, strength[s] = strength[t],
         SeatsLeftOf(dealer, s) < SeatsLeftOf(dealer, t),
         NEW pot, pot.amount \in Nat, pot.eligible \subseteq Seats,
         s \in pot.eligible <=> t \in pot.eligible
  PROVE  LET mine == PotShare(pot, s, inHand, strength, dealer)
             yours == PotShare(pot, t, inHand, strength, dealer)
         IN  mine \in Nat /\ yours \in Nat /\ yours <= mine /\ mine - yours <= N - 1
<1> DEFINE W == PotWinners(pot, inHand, strength)
           w == Cardinality(W)
           a == pot.amount
           mine == PotShare(pot, s, inHand, strength, dealer)
           yours == PotShare(pot, t, inHand, strength, dealer)
           c == ClosestLeftOfDealer(W, dealer)
<1>1. W \in SUBSET Seats /\ IsFiniteSet(W) /\ w \in Nat /\ w <= N /\ N \in Nat /\ N >= 2
  <2>1. W \in SUBSET Seats
    BY DEF PotWinners
  <2>2. QED BY <2>1, SeatSets, SeatNumbers, FS_Subset
<1>2. s \in W <=> t \in W
  BY DEF PotWinners
<1>3. /\ mine = IF s \notin W THEN 0 ELSE (a \div w) + (IF s = c THEN a % w ELSE 0)
      /\ yours = IF t \notin W THEN 0 ELSE (a \div w) + (IF t = c THEN a % w ELSE 0)
  BY DEF PotShare
<1>4. CASE s \notin W
  BY <1>1, <1>2, <1>3, <1>4
<1>5. CASE s \in W
  <2>1. w > 0 /\ a \in Nat
    BY <1>1, <1>5, FS_EmptySet
  <2>2. t # c
    <3>1. \E x \in W : \A y \in W : SeatsLeftOf(dealer, x) <= SeatsLeftOf(dealer, y)
      <4> DEFINE T == {SeatsLeftOf(dealer, x) : x \in W}
      <4>1. \A x \in W : SeatsLeftOf(dealer, x) \in Nat
        BY <1>1, SeatNumbers DEF SeatsLeftOf
      <4>2. T \in SUBSET Nat /\ T # {}
        BY <1>5, <4>1
      <4>3. PICK m \in T : \A k \in T : m <= k
        BY <4>2, LeastNatural
      <4>4. QED BY <4>3
    <3>2. \A y \in W : SeatsLeftOf(dealer, c) <= SeatsLeftOf(dealer, y)
      BY <3>1 DEF ClosestLeftOfDealer
    <3>3. SeatsLeftOf(dealer, t) \in Int /\ SeatsLeftOf(dealer, s) \in Int
      BY SeatNumbers DEF SeatsLeftOf, BetsInv
    <3> HIDE DEF c, W
    <3>4. QED BY <1>5, <3>2, <3>3
  <2> HIDE DEF W, w, a, c, mine, yours
  <2>3. a \div w \in Nat /\ a % w \in Nat /\ a % w <= w - 1
    BY <1>1, <2>1, SMT
  <2>4. mine = (a \div w) + (IF s = c THEN a % w ELSE 0) /\ yours = a \div w
    BY <1>2, <1>3, <1>5, <2>2, <2>3
  <2>5. mine \in Nat /\ yours \in Nat /\ yours <= mine /\ mine - yours <= N - 1
    BY <1>1, <2>3, <2>4
  <2>6. QED BY <2>5 DEF mine, yours
<1>6. QED BY <1>4, <1>5

\* Equal hands with equal bets differ by odd chips only.
LEMMA EqualsShareFairly ==
  ASSUME BetsInv
  PROVE  FairSplit
<1> SUFFICES ASSUME NEW strength \in Rankings, NEW dealer \in Seats, NEW s \in inHand, NEW t \in inHand,
                    strength[s] = strength[t], bets[s] = bets[t],
                    SeatsLeftOf(dealer, s) < SeatsLeftOf(dealer, t)
             PROVE  /\ Winnings(strength, dealer)[s] >= Winnings(strength, dealer)[t]
                    /\ Winnings(strength, dealer)[s] - Winnings(strength, dealer)[t]
                         <= (N - 1) * Cardinality(PotLevels(bets))
  BY DEF FairSplit
<1> DEFINE P == CalculatePots(bets)
           L == PotLevels(bets)
           mine == [l \in L |-> PotShare(P[l], s, inHand, strength, dealer)]
           yours == [l \in L |-> PotShare(P[l], t, inHand, strength, dealer)]
           odd == [l \in L |-> N - 1]
           most == [l \in L |-> yours[l] + odd[l]]
<1>1. /\ bets \in [Seats -> Nat] /\ s \in Seats /\ t \in Seats /\ strength \in [inHand -> Nat]
      /\ N \in Nat /\ N - 1 \in Int
  BY RankingsType, SeatNumbers DEF BetsInv
<1>2. /\ IsFiniteSet(L) /\ Cardinality(L) \in Nat
      /\ \A l \in L : P[l].amount \in Nat /\ P[l].eligible \subseteq Seats
  BY <1>1, PotLevelsType, CalculatePotsType, FS_CardinalityType
<1>3. \A l \in L : s \in P[l].eligible <=> t \in P[l].eligible
  BY <1>1 DEF CalculatePots, Contributors
<1>4. \A l \in L : mine[l] \in Nat /\ yours[l] \in Nat /\ yours[l] <= mine[l] /\ mine[l] - yours[l] <= N - 1
  <2> SUFFICES ASSUME NEW l \in L
               PROVE  /\ mine[l] \in Nat /\ yours[l] \in Nat /\ yours[l] <= mine[l]
                      /\ mine[l] - yours[l] <= N - 1
    OBVIOUS
  <2>1. P[l].amount \in Nat /\ P[l].eligible \subseteq Seats /\ (s \in P[l].eligible <=> t \in P[l].eligible)
    BY <1>2, <1>3
  <2>2. /\ mine[l] = PotShare(P[l], s, inHand, strength, dealer)
        /\ yours[l] = PotShare(P[l], t, inHand, strength, dealer)
    OBVIOUS
  <2> HIDE DEF P, L, mine, yours
  <2>3. QED BY <1>1, <2>1, <2>2, PotIsSharedFairly
<1>5. mine = [l \in L |-> mine[l]] /\ yours = [l \in L |-> yours[l]]
  OBVIOUS
<1>6. /\ \A l \in L : mine[l] = PotShare(P[l], s, inHand, strength, dealer)
      /\ \A l \in L : yours[l] = PotShare(P[l], t, inHand, strength, dealer)
  OBVIOUS
<1> HIDE DEF mine, yours
<1>7. /\ mine \in [L -> Int] /\ yours \in [L -> Int] /\ odd \in [L -> Int]
      /\ most \in [L -> Int] /\ L \in SUBSET L
  <2>1. mine \in [L -> Int] /\ yours \in [L -> Int]
    BY <1>4, <1>5
  <2> HIDE DEF L
  <2>2. QED BY <1>1, <2>1
<1>8. /\ Winnings(strength, dealer)[s] = SumFunctionOnSet(mine, L)
      /\ Winnings(strength, dealer)[t] = SumFunctionOnSet(yours, L)
  <2>1. Winnings(strength, dealer)[s] = SumFunctionOnSet(mine, L)
    BY <1>1, <1>6, <1>7, WinningsAreShares
  <2>2. Winnings(strength, dealer)[t] = SumFunctionOnSet(yours, L)
    BY <1>1, <1>6, <1>7, WinningsAreShares
  <2>3. QED BY <2>1, <2>2
<1> DEFINE a == SumFunctionOnSet(mine, L)
           b == SumFunctionOnSet(yours, L)
           d == SumFunctionOnSet(odd, L)
           m == SumFunctionOnSet(most, L)
<1>9. b <= a
  <2>1. \A l \in L : yours[l] <= mine[l]
    BY <1>4
  <2> HIDE DEF L
  <2>2. QED BY <1>2, <1>7, <2>1, SumMono
<1>10. a <= m
  <2>1. \A l \in L : mine[l] <= most[l]
    <3> SUFFICES ASSUME NEW l \in L PROVE mine[l] <= most[l]
      OBVIOUS
    <3>1. most[l] = yours[l] + (N - 1)
      OBVIOUS
    <3> HIDE DEF most
    <3>2. QED BY <1>1, <1>4, <3>1
  <2> HIDE DEF L, most
  <2>2. QED BY <1>2, <1>7, <2>1, SumMono
<1>11. m = b + d
  <2>1. \A l \in L : most[l] = yours[l] + odd[l]
    OBVIOUS
  <2> HIDE DEF L, most, odd
  <2>2. QED BY <1>2, <1>7, <2>1, SumAdd
<1>12. d = (N - 1) * Cardinality(L)
  <2>1. \A l \in L : odd[l] = N - 1
    OBVIOUS
  <2> HIDE DEF L, odd
  <2>2. ASSUME NEW c \in Int, \A l \in L : odd[l] = c
        PROVE  SumFunctionOnSet(odd, L) = c * Cardinality(L)
    <3>1. L \in SUBSET L /\ IsFiniteSet(L) /\ odd \in [L -> Int]
      BY <1>2, <1>7
    <3>2. QED BY ONLY <2>2, <3>1, SumConstant
  <2>3. QED BY <1>1, <2>1, <2>2
<1>13. a \in Int /\ b \in Int /\ d \in Int
  <2> HIDE DEF L, odd
  <2>1. QED BY <1>2, <1>7, SumType
<1> HIDE DEF a, b, d, m, L
<1>14. b <= a /\ a - b <= (N - 1) * Cardinality(L)
  <2>1. \A k \in Int : d = k => a - b <= k
    BY <1>9, <1>10, <1>11, <1>13
  <2>2. QED BY <1>9, <1>12, <1>13, <2>1
<1>15. QED BY <1>8, <1>13, <1>14 DEF a, b, L

-----------------------------------------------------------------------------
LEMMA BetsNextInv ==
  ASSUME BetsInv, [BetsNext]_<<bets, inHand>>
  PROVE  BetsInv'
<1>1. CASE UNCHANGED <<bets, inHand>>
  BY <1>1 DEF BetsInv
<1>2. CASE BetsNext
  <2>1. PICK s \in Seats : AddChip(s) \/ FoldSeat(s)
    BY <1>2 DEF BetsNext
  <2>2. CASE AddChip(s)
    BY <2>2 DEF AddChip, BetsInv
  <2>3. CASE FoldSeat(s)
    <3>1. inHand' = inHand \ {s} /\ bets' = bets /\ Cardinality(inHand) > 1 /\ s \in inHand
      BY <2>3 DEF FoldSeat
    <3>2. inHand' # {}
      <4>1. Cardinality({s}) = 1
        BY FS_Singleton
      <4>2. QED BY <3>1, <4>1
    <3>3. QED BY <3>1, <3>2 DEF BetsInv
  <2>4. QED BY <2>1, <2>2, <2>3
<1>3. QED BY <1>1, <1>2

\* What a showdown is about, however the chips were bet and whoever has folded.
THEOREM BetsCorrect == BetsSpec => []BetsInv
<1>1. BetsInit => BetsInv
  BY SeatNumbers DEF BetsInit, BetsInv
<1>2. BetsInv /\ [BetsNext]_<<bets, inHand>> => BetsInv'
  BY BetsNextInv
<1>3. QED BY <1>1, <1>2, PTL DEF BetsSpec

\* However the chips were bet: the pots that a seat is eligible for hold what it may
\* win, as much from each seat as it has put in itself (CalculatePots, pot.go:14).
THEOREM PotsFollowTheRule == BetsSpec => []EligibleForMatched
<1>1. BetsInv => EligibleForMatched
  BY EligibleAddsUp
<1>2. QED BY <1>1, BetsCorrect, PTL

\* Whatever the other hands are and wherever the dealer sits, the best hand is paid
\* all it may win (potWinners, distributePots).
THEOREM BestHandIsPaid == BetsSpec => []BestHandWinsAll
<1>1. BetsInv => BestHandWinsAll
  BY BestWinsMatched
<1>2. QED BY <1>1, BetsCorrect, PTL

\* Equal hands with equal bets are paid the same, odd chips apart, and those go to
\* the seat nearer the dealer's left (distributePots, closestLeftOfDealer).
THEOREM SplitIsFair == BetsSpec => []FairSplit
<1>1. BetsInv => FairSplit
  BY EqualsShareFairly
<1>2. QED BY <1>1, BetsCorrect, PTL

-----------------------------------------------------------------------------
(* The inductive invariant: the properties checked by TLC and, before the  *)
(* blinds are posted, a fresh table, without which a bet left over from    *)
(* nowhere could exceed the bet to match.                                  *)

FreshTable ==
  phase = "Waiting" =>
    \A s \in Seats : /\ status[s] = "Active"
                     /\ currentBet[s] = 0 /\ totalBet[s] = 0 /\ payouts[s] = 0

HandInv == TypeOK /\ SeatLedger /\ FreshTable /\ RoundDiscipline

LEMMA NextActiveType ==
  ASSUME NEW st, NEW from \in Seats
  PROVE  /\ NextActive(st, from) \in Seats \cup {None}
         /\ NextActive(st, from) # None => st[NextActive(st, from)] = "Active"
<1> DEFINE steps == {i \in 1..N : st[(from + i) % N] = "Active"}
<1>1. NextActive(st, from) = IF steps = {} THEN None ELSE (from + Min(steps)) % N
  BY DEF NextActive
<1>2. steps \in SUBSET Nat
  OBVIOUS
<1>3. \A i \in steps : st[(from + i) % N] = "Active" /\ i \in Nat
  OBVIOUS
<1>4. steps # {} => Min(steps) \in steps
  BY <1>2, MinOfNaturals
<1> HIDE DEF steps
<1>5. N \in Nat /\ N > 0 /\ from \in Nat
  BY TableAssumption, SeatCountAssumption DEF Seats
<1>6. steps # {} => (from + Min(steps)) % N \in Seats
  <2>1. ASSUME NEW k \in Nat PROVE (from + k) % N \in 0..(N - 1)
    BY <1>5
  <2>2. QED BY <1>3, <1>4, <2>1 DEF Seats
<1>7. QED BY <1>1, <1>3, <1>4, <1>6

LEMMA BlindSeats ==
  ASSUME dealerIdx \in Seats
  PROVE  SmallBlindSeat \in Seats /\ BigBlindSeat \in Seats
<1>1. N \in Nat /\ N > 0 /\ dealerIdx \in Nat
  BY TableAssumption, SeatCountAssumption DEF Seats
<1>2. (dealerIdx + 1) % N \in 0..(N - 1) /\ (dealerIdx + 2) % N \in 0..(N - 1)
  BY <1>1
<1>3. QED BY <1>2 DEF SmallBlindSeat, BigBlindSeat, Seats

\* A bet that is not negative takes between nothing and the whole stack, and
\* the whole stack if it leaves the seat all-in.
LEMMA PlacedType ==
  ASSUME TypeOK, NEW s \in Seats, NEW amount \in Nat
  PROVE  /\ Placed(s, amount) \in 0..stack[s]
         /\ Placed(s, amount) <= amount
         /\ StatusAfter(s, amount) \in {"AllIn", status[s]}
         /\ StatusAfter(s, amount) \in Statuses
         /\ StatusAfter(s, amount) = "AllIn" /\ status[s] # "AllIn" => Placed(s, amount) = stack[s]
         /\ StatusAfter(s, amount) # "AllIn" => Placed(s, amount) = amount
<1>1. stack[s] \in Nat /\ status[s] \in Statuses
  BY DEF TypeOK
<1>2. QED BY <1>1 DEF Placed, StatusAfter, Statuses

LEMMA InitHandInv == Init => HandInv
<1> SUFFICES ASSUME Init PROVE HandInv
  OBVIOUS
<1>1. N \in Nat /\ N > 0 /\ BigBlind \in Nat /\ StartStacks \subseteq Nat
  BY TableAssumption, SeatCountAssumption
<1>2. 0 \in Seats
  BY <1>1 DEF Seats
<1>3. TypeOK
  BY <1>1, <1>2 DEF Init, TypeOK, Phases, Statuses
<1>4. SeatLedger
  BY <1>1 DEF Init, SeatLedger
<1>5. FreshTable /\ RoundDiscipline
  BY DEF Init, FreshTable, RoundDiscipline, BettingPhases
<1>6. QED BY <1>3, <1>4, <1>5 DEF HandInv

LEMMA StartHandInv ==
  ASSUME HandInv, StartHand
  PROVE  HandInv'
<1> DEFINE due  == [s \in Seats |-> IF s = SmallBlindSeat THEN SmallBlind
                                    ELSE IF s = BigBlindSeat THEN BigBlind ELSE 0]
           post == [s \in Seats |-> IF due[s] = 0 THEN 0 ELSE Placed(s, due[s])]
           st   == [s \in Seats |-> IF due[s] = 0 THEN status[s] ELSE StatusAfter(s, due[s])]
<1>1. TypeOK /\ SeatLedger /\ FreshTable /\ phase = "Waiting"
  BY DEF HandInv, StartHand
<1>2. SmallBlindSeat \in Seats /\ BigBlindSeat \in Seats
  BY <1>1, BlindSeats DEF TypeOK
<1>3. \A s \in Seats : due[s] \in Nat
  BY TableAssumption, SeatCountAssumption
<1>4. \A s \in Seats : /\ status[s] = "Active" /\ currentBet[s] = 0
                       /\ totalBet[s] = 0 /\ payouts[s] = 0
  BY <1>1 DEF FreshTable
<1>5. \A s \in Seats : \/ s = SmallBlindSeat \/ s = BigBlindSeat \/ due[s] = 0
  OBVIOUS
<1>6. /\ phase' = "PreFlop" /\ status' = st
      /\ stack' = [s \in Seats |-> stack[s] - post[s]]
      /\ currentBet' = [s \in Seats |-> currentBet[s] + post[s]]
      /\ totalBet' = [s \in Seats |-> totalBet[s] + post[s]]
      /\ tableBet' = IF post[SmallBlindSeat] > post[BigBlindSeat]
                     THEN post[SmallBlindSeat] ELSE post[BigBlindSeat]
      /\ actionIdx' = NextActive(st, BigBlindSeat)
      /\ lastRaiserIdx' = BigBlindSeat
      /\ roundActionCount' = 0
      /\ UNCHANGED <<dealerIdx, minRaise, board, pots, payouts, startStack, acted>>
  BY DEF StartHand
<1> HIDE DEF due
<1>7. \A s \in Seats : /\ post[s] \in 0..stack[s]
                       /\ due[s] = 0 => post[s] = 0
                       /\ st[s] \in {"Active", "AllIn"}
                       /\ st[s] = "AllIn" => post[s] = stack[s]
  <2> SUFFICES ASSUME NEW s \in Seats
               PROVE  /\ post[s] \in 0..stack[s]
                      /\ due[s] = 0 => post[s] = 0
                      /\ st[s] \in {"Active", "AllIn"}
                      /\ st[s] = "AllIn" => post[s] = stack[s]
    OBVIOUS
  <2>1. CASE due[s] = 0
    BY <1>1, <1>4, <2>1 DEF TypeOK
  <2>2. CASE due[s] # 0
    <3>1. post[s] = Placed(s, due[s]) /\ st[s] = StatusAfter(s, due[s])
      BY <2>2
    <3>2. /\ Placed(s, due[s]) \in 0..stack[s]
          /\ StatusAfter(s, due[s]) \in {"AllIn", status[s]}
          /\ StatusAfter(s, due[s]) = "AllIn" /\ status[s] # "AllIn" => Placed(s, due[s]) = stack[s]
      BY <1>1, <1>3, PlacedType
    <3>3. QED BY <1>4, <2>2, <3>1, <3>2
  <2>3. QED BY <2>1, <2>2
<1>8. st \in [Seats -> Statuses] /\ post \in [Seats -> Nat]
  <2>1. st = [s \in Seats |-> st[s]] /\ post = [s \in Seats |-> post[s]]
    OBVIOUS
  <2>2. \A s \in Seats : stack[s] \in Nat
    BY <1>1 DEF TypeOK
  <2> HIDE DEF st, post
  <2>3. QED BY <1>7, <2>1, <2>2 DEF Statuses
<1> HIDE DEF st, post
<1>9. /\ \A s \in Seats : post[s] <= tableBet'
      /\ tableBet' \in Nat
  BY <1>2, <1>5, <1>6, <1>7, <1>8
<1>10. TypeOK'
  <2>1. /\ stack' \in [Seats -> Nat] /\ currentBet' \in [Seats -> Nat]
        /\ totalBet' \in [Seats -> Nat] /\ status' \in [Seats -> Statuses]
    <3>1. \A s \in Seats : /\ stack[s] \in Nat /\ currentBet[s] \in Nat /\ totalBet[s] \in Nat
      BY <1>1 DEF TypeOK
    <3>2. \A s \in Seats : stack[s] - post[s] \in Nat
      BY <1>7, <3>1
    <3>3. \A s \in Seats : currentBet[s] + post[s] \in Nat /\ totalBet[s] + post[s] \in Nat
      BY <1>8, <3>1
    <3>4. QED BY <1>6, <1>8, <3>2, <3>3
  <2>2. actionIdx' \in Seats \cup {None} /\ lastRaiserIdx' \in Seats \cup {None}
    BY <1>2, <1>6, NextActiveType
  <2>3. QED BY <1>1, <1>6, <1>9, <2>1, <2>2 DEF TypeOK, Phases, BettingPhases
<1>11. SeatLedger'
  <2> SUFFICES ASSUME NEW s \in Seats
               PROVE  stack'[s] + totalBet'[s] = startStack'[s] + payouts'[s]
    BY DEF SeatLedger
  <2>1. /\ stack[s] + totalBet[s] = startStack[s] + payouts[s]
        /\ stack[s] \in Nat /\ totalBet[s] \in Nat /\ startStack[s] \in Nat /\ payouts[s] \in Nat
    BY <1>1 DEF SeatLedger, TypeOK
  <2>2. stack'[s] = stack[s] - post[s] /\ totalBet'[s] = totalBet[s] + post[s] /\ post[s] \in Nat
    BY <1>6, <1>8
  <2>3. startStack'[s] = startStack[s] /\ payouts'[s] = payouts[s]
    BY <1>6
  <2>4. QED BY <2>1, <2>2, <2>3
<1>12. FreshTable'
  BY <1>6 DEF FreshTable
<1>13. RoundDiscipline'
  <2>1. \A s \in Seats : /\ currentBet'[s] = post[s] /\ totalBet'[s] = post[s]
                         /\ stack'[s] = stack[s] - post[s] /\ status'[s] = st[s]
                         /\ stack[s] \in Nat /\ post[s] \in Nat
    BY <1>1, <1>4, <1>6, <1>8 DEF TypeOK
  <2>2. \A s \in Seats : currentBet'[s] <= tableBet' /\ currentBet'[s] <= totalBet'[s]
    BY <1>9, <2>1
  <2>3. \A s \in Seats : status'[s] = "AllIn" => stack'[s] = 0
    BY <1>7, <2>1
  <2>4. actionIdx' # None => status'[actionIdx'] = "Active"
    BY <1>2, <1>6, NextActiveType
  <2>5. Cardinality(LiveSeats(status')) > 1
    <3>1. LiveSeats(status') = Seats
      BY <1>7, <2>1 DEF LiveSeats
    <3>2. QED BY <3>1, SeatSets, TableAssumption, SeatCountAssumption
  <2>6. QED BY <2>2, <2>3, <2>4, <2>5 DEF RoundDiscipline, LiveSeats
<1>14. QED BY <1>10, <1>11, <1>12, <1>13 DEF HandInv

-----------------------------------------------------------------------------
(* The tail of ApplyAction keeps the invariant, whatever the seat has done *)
(* as long as it paid from its stack and did not bet above the bet.        *)

\* What the acting seat's move hands to the tail.
GoodMove(st, paid, bet, minR, raiser) ==
  /\ st \in [Seats -> Statuses]
  /\ \A s \in Seats \ {actionIdx} : st[s] = status[s]
  /\ paid \in 0..stack[actionIdx]
  /\ bet \in Nat /\ minR \in Nat /\ tableBet <= bet
  /\ raiser \in Seats \cup {None} /\ raiser \in {lastRaiserIdx, actionIdx}
  /\ st[actionIdx] = "Folded" => paid = 0 /\ bet = tableBet
  /\ st[actionIdx] # "Folded" => currentBet[actionIdx] + paid <= bet
  /\ st[actionIdx] = "AllIn" => paid = stack[actionIdx]
  /\ st[actionIdx] = "Active" => currentBet[actionIdx] + paid = bet

\* The bets and the stacks after the move, before anything is paid out.
BetsAfter(paid)   == [totalBet EXCEPT ![actionIdx] = @ + paid]
StacksAfter(paid) == [stack EXCEPT ![actionIdx] = @ - paid]

LEMMA MoveLedger ==
  ASSUME HandInv, actionIdx \in Seats, NEW paid \in 0..stack[actionIdx]
  PROVE  /\ BetsAfter(paid) \in [Seats -> Nat] /\ StacksAfter(paid) \in [Seats -> Nat]
         /\ \A s \in Seats : StacksAfter(paid)[s] + BetsAfter(paid)[s] = startStack[s] + payouts[s]
         /\ StacksAfter(paid)[actionIdx] = stack[actionIdx] - paid
         /\ BetsAfter(paid)[actionIdx] = totalBet[actionIdx] + paid
         /\ \A s \in Seats \ {actionIdx} : /\ StacksAfter(paid)[s] = stack[s]
                                           /\ BetsAfter(paid)[s] = totalBet[s]
<1> DEFINE total == BetsAfter(paid)
           stk   == StacksAfter(paid)
<1>1. /\ stack \in [Seats -> Nat] /\ totalBet \in [Seats -> Nat]
      /\ startStack \in [Seats -> Nat] /\ payouts \in [Seats -> Nat]
      /\ \A s \in Seats : stack[s] + totalBet[s] = startStack[s] + payouts[s]
  BY DEF HandInv, TypeOK, SeatLedger
<1>2. /\ stk[actionIdx] = stack[actionIdx] - paid
      /\ total[actionIdx] = totalBet[actionIdx] + paid
      /\ \A s \in Seats \ {actionIdx} : stk[s] = stack[s] /\ total[s] = totalBet[s]
  BY <1>1 DEF BetsAfter, StacksAfter
<1>3. stack[actionIdx] - paid \in Nat /\ totalBet[actionIdx] + paid \in Nat
  BY <1>1
<1>4. total \in [Seats -> Nat] /\ stk \in [Seats -> Nat]
  BY <1>1, <1>3 DEF BetsAfter, StacksAfter
<1> HIDE DEF total, stk
<1>5. ASSUME NEW s \in Seats PROVE stk[s] + total[s] = startStack[s] + payouts[s]
  <2>1. CASE s = actionIdx
    BY <1>1, <1>2, <2>1
  <2>2. CASE s # actionIdx
    BY <1>1, <1>2, <2>2
  <2>3. QED BY <2>1, <2>2
<1>6. QED BY <1>2, <1>4, <1>5 DEF total, stk

\* Settling: only the stacks, the payouts and the phase matter.
LEMMA SettleInv ==
  ASSUME HandInv, NEW total \in [Seats -> Nat], NEW stk \in [Seats -> Nat],
         NEW wins \in [Seats -> Nat], Settle(total, stk, wins),
         \A s \in Seats : stk[s] + total[s] = startStack[s] + payouts[s],
         totalBet' = total, UNCHANGED startStack
  PROVE  /\ stack' \in [Seats -> Nat] /\ payouts' \in [Seats -> Nat]
         /\ phase' = "Settled"
         /\ SeatLedger' /\ FreshTable' /\ RoundDiscipline'
<1>1. /\ stack' = [s \in Seats |-> stk[s] + wins[s]]
      /\ payouts' = [s \in Seats |-> payouts[s] + wins[s]]
      /\ phase' = "Settled"
  BY DEF Settle
<1>2. payouts \in [Seats -> Nat] /\ startStack \in [Seats -> Nat]
  BY DEF HandInv, TypeOK
<1>3. stack' \in [Seats -> Nat] /\ payouts' \in [Seats -> Nat]
  BY <1>1, <1>2
<1>4. SeatLedger'
  <2> SUFFICES ASSUME NEW s \in Seats
               PROVE  stack'[s] + totalBet'[s] = startStack'[s] + payouts'[s]
    BY DEF SeatLedger
  <2>1. stk[s] + total[s] = startStack[s] + payouts[s]
    OBVIOUS
  <2>2. /\ stk[s] \in Nat /\ total[s] \in Nat /\ wins[s] \in Nat
        /\ startStack[s] \in Nat /\ payouts[s] \in Nat
    BY <1>2
  <2>3. stack'[s] = stk[s] + wins[s] /\ payouts'[s] = payouts[s] + wins[s]
    BY <1>1
  <2>4. QED BY <2>1, <2>2, <2>3
<1>5. FreshTable' /\ RoundDiscipline'
  BY <1>1 DEF FreshTable, RoundDiscipline, BettingPhases
<1>6. QED BY <1>1, <1>3, <1>4, <1>5

LEMMA SingleWinnerType ==
  ASSUME NEW total \in [Seats -> Nat], NEW st
  PROVE  SingleWinner(st, total) \in [Seats -> Nat]
<1> DEFINE pot == TotalPot(CalculatePots(total))
<1>1. pot \in Nat
  BY TotalPotType
<1>2. SingleWinner(st, total) = [s \in Seats |-> IF s = Min(LiveSeats(st)) THEN pot ELSE 0]
  BY DEF SingleWinner
<1> HIDE DEF pot
<1>3. QED BY <1>1, <1>2

\* The round's variables keep their types and, for the seats in the hand, the
\* bets stay below the bet to match, whether the round goes on or a new one starts.
LEMMA SameRoundInv ==
  ASSUME HandInv, actionIdx \in Seats, phase \in BettingPhases,
         NEW st, NEW paid, NEW bet, NEW minR, NEW raiser,
         GoodMove(st, paid, bet, minR, raiser), SameRound(paid, bet, minR, raiser),
         totalBet' = [totalBet EXCEPT ![actionIdx] = @ + paid]
  PROVE  /\ currentBet' \in [Seats -> Nat] /\ tableBet' \in Nat /\ minRaise' \in Nat
         /\ lastRaiserIdx' \in Seats \cup {None} /\ roundActionCount' \in Nat
         /\ acted' \subseteq Seats
         /\ \A s \in LiveSeats(st) : currentBet'[s] <= tableBet'
         /\ \A s \in Seats : currentBet'[s] <= totalBet'[s]
<1>1. /\ currentBet' = [currentBet EXCEPT ![actionIdx] = @ + paid]
      /\ tableBet' = bet /\ minRaise' = minR /\ lastRaiserIdx' = raiser
      /\ roundActionCount' = roundActionCount + 1
      /\ acted' = acted \cup {actionIdx}
  BY DEF SameRound
<1>2. /\ currentBet \in [Seats -> Nat] /\ totalBet \in [Seats -> Nat]
      /\ roundActionCount \in Nat /\ acted \subseteq Seats
      /\ tableBet \in Nat /\ stack \in [Seats -> Nat]
  BY DEF HandInv, TypeOK
<1>3. /\ \A s \in LiveSeats(status) : currentBet[s] <= tableBet
      /\ \A s \in Seats : currentBet[s] <= totalBet[s]
  BY DEF HandInv, RoundDiscipline
<1>4. paid \in Nat /\ bet \in Nat /\ minR \in Nat /\ raiser \in Seats \cup {None} /\ tableBet <= bet
  BY <1>2 DEF GoodMove
<1>5. /\ currentBet' \in [Seats -> Nat]
      /\ currentBet'[actionIdx] = currentBet[actionIdx] + paid
      /\ totalBet'[actionIdx] = totalBet[actionIdx] + paid
      /\ \A s \in Seats \ {actionIdx} : currentBet'[s] = currentBet[s] /\ totalBet'[s] = totalBet[s]
  BY <1>1, <1>2, <1>4
<1>6. ASSUME NEW s \in LiveSeats(st) PROVE currentBet'[s] <= tableBet'
  <2>1. CASE s = actionIdx
    BY <1>1, <1>5, <2>1 DEF GoodMove, LiveSeats
  <2>2. CASE s # actionIdx
    <3>1. s \in LiveSeats(status) /\ s \in Seats
      BY <2>2 DEF GoodMove, LiveSeats
    <3>2. currentBet[s] <= tableBet /\ currentBet[s] \in Nat
      BY <1>2, <1>3, <3>1
    <3>3. QED BY <1>1, <1>2, <1>4, <1>5, <2>2, <3>1, <3>2
  <2>3. QED BY <2>1, <2>2
<1>7. ASSUME NEW s \in Seats PROVE currentBet'[s] <= totalBet'[s]
  <2>1. CASE s = actionIdx
    BY <1>2, <1>3, <1>4, <1>5, <2>1
  <2>2. CASE s # actionIdx
    BY <1>3, <1>5, <2>2
  <2>3. QED BY <2>1, <2>2
<1>8. QED BY <1>1, <1>2, <1>4, <1>5, <1>6, <1>7

LEMMA NewRoundInv ==
  ASSUME HandInv, phase \in BettingPhases, NEW st, NewRound(st),
         NEW total \in [Seats -> Nat], totalBet' = total, \A s \in Seats : totalBet[s] <= total[s]
  PROVE  /\ currentBet' \in [Seats -> Nat] /\ tableBet' \in Nat /\ minRaise' \in Nat
         /\ lastRaiserIdx' \in Seats \cup {None} /\ roundActionCount' \in Nat
         /\ acted' \subseteq Seats
         /\ \A s \in LiveSeats(st) : currentBet'[s] <= tableBet'
         /\ \A s \in Seats : currentBet'[s] <= totalBet'[s]
<1>1. /\ currentBet' = [s \in Seats |-> IF st[s] = "Folded" THEN currentBet[s] ELSE 0]
      /\ tableBet' = 0 /\ minRaise' = BigBlind /\ lastRaiserIdx' = None
      /\ roundActionCount' = 0 /\ acted' = {}
  BY DEF NewRound
<1>2. /\ currentBet \in [Seats -> Nat] /\ totalBet \in [Seats -> Nat] /\ BigBlind \in Nat
      /\ \A s \in Seats : currentBet[s] <= totalBet[s]
  BY TableAssumption, SeatCountAssumption DEF HandInv, TypeOK, RoundDiscipline
<1>3. currentBet' \in [Seats -> Nat]
  BY <1>1, <1>2
<1>4. \A s \in LiveSeats(st) : currentBet'[s] <= tableBet'
  BY <1>1 DEF LiveSeats
<1>5. ASSUME NEW s \in Seats PROVE currentBet'[s] <= totalBet'[s]
  <2>1. currentBet'[s] <= currentBet[s]
    BY <1>1, <1>2
  <2>2. QED BY <1>2, <1>3, <2>1
<1>6. QED BY <1>1, <1>2, <1>3, <1>4, <1>5

LEMMA ProceedInv ==
  ASSUME HandInv, phase \in BettingPhases, actionIdx \in Seats, status[actionIdx] = "Active",
         NEW st, NEW paid, NEW bet, NEW minR, NEW raiser,
         GoodMove(st, paid, bet, minR, raiser), Proceed(st, paid, bet, minR, raiser)
  PROVE  HandInv'
<1> DEFINE total == BetsAfter(paid)
           stk   == StacksAfter(paid)
           next  == NextActive(st, actionIdx)
           over  == Cardinality(LiveSeats(st)) <= 1
           RoundVarsOK == /\ currentBet' \in [Seats -> Nat] /\ tableBet' \in Nat
                          /\ minRaise' \in Nat /\ lastRaiserIdx' \in Seats \cup {None}
                          /\ roundActionCount' \in Nat /\ acted' \subseteq Seats
                          /\ \A s \in LiveSeats(st) : currentBet'[s] <= tableBet'
                          /\ \A s \in Seats : currentBet'[s] <= totalBet'[s]
<1>1. status' = st /\ totalBet' = total /\ dealerIdx' = dealerIdx /\ startStack' = startStack
  BY DEF Proceed, BetsAfter
<1>2. paid \in 0..stack[actionIdx] /\ st \in [Seats -> Statuses]
  BY DEF GoodMove
<1>3. TypeOK /\ SeatLedger /\ RoundDiscipline
  BY DEF HandInv
<1>4. /\ total \in [Seats -> Nat] /\ stk \in [Seats -> Nat]
      /\ \A s \in Seats : stk[s] + total[s] = startStack[s] + payouts[s]
      /\ stk[actionIdx] = stack[actionIdx] - paid
      /\ total[actionIdx] = totalBet[actionIdx] + paid
      /\ \A s \in Seats \ {actionIdx} : stk[s] = stack[s] /\ total[s] = totalBet[s]
  BY <1>2, MoveLedger
<1>5. \A s \in Seats : totalBet[s] <= total[s]
  <2>1. \A s \in Seats : totalBet[s] \in Nat /\ stack[s] \in Nat
    BY <1>3 DEF TypeOK
  <2>2. paid \in Nat
    BY <1>2, <2>1
  <2> HIDE DEF total
  <2>3. QED BY <1>4, <2>1, <2>2
<1>6. \A s \in Seats : st[s] = "AllIn" => stk[s] = 0
  <2> SUFFICES ASSUME NEW s \in Seats, st[s] = "AllIn" PROVE stk[s] = 0
    OBVIOUS
  <2>1. stack[s] \in Nat
    BY <1>3 DEF TypeOK
  <2> HIDE DEF stk
  <2>2. CASE s = actionIdx
    BY <1>4, <2>1, <2>2 DEF GoodMove
  <2>3. CASE s # actionIdx
    BY <1>3, <1>4, <2>3 DEF GoodMove, RoundDiscipline
  <2>4. QED BY <2>2, <2>3
<1>7. SameRound(paid, bet, minR, raiser) => RoundVarsOK
  BY <1>1, SameRoundInv DEF BetsAfter
<1>8. NewRound(st) => RoundVarsOK
  BY <1>1, <1>4, <1>5, NewRoundInv
<1>9. Cardinality(LiveSeats(st)) \in Nat
  BY SeatSets DEF LiveSeats
<1>10. \/ /\ over
          /\ SameRound(paid, bet, minR, raiser)
          /\ Settle(total, stk, SingleWinner(st, total))
          /\ UNCHANGED <<actionIdx, board>>
       \/ /\ ~over
          /\ EndBettingRound(st, total, stk, paid, bet, minR, raiser)
       \/ /\ ~over
          /\ next # None
          /\ SameRound(paid, bet, minR, raiser)
          /\ actionIdx' = next
          /\ stack' = stk
          /\ UNCHANGED <<phase, board, pots, payouts>>
  BY DEF Proceed, BetsAfter, StacksAfter
<1> HIDE DEF total, stk, next, over, RoundVarsOK
\* All that remains of TypeOK once the round's variables are known.
<1>11. ASSUME RoundVarsOK, phase' \in Phases, actionIdx' \in Seats \cup {None},
              board' \in {0, 3, 4, 5}, stack' \in [Seats -> Nat], payouts' \in [Seats -> Nat]
       PROVE  TypeOK'
  BY <1>1, <1>2, <1>3, <1>4, <1>11 DEF TypeOK, RoundVarsOK
\* A settled hand, however it ended.
<1>12. ASSUME NEW wins \in [Seats -> Nat], Settle(total, stk, wins), RoundVarsOK,
              actionIdx' \in Seats \cup {None}, board' \in {0, 3, 4, 5}
       PROVE  HandInv'
  <2>1. /\ stack' \in [Seats -> Nat] /\ payouts' \in [Seats -> Nat]
        /\ phase' = "Settled"
        /\ SeatLedger' /\ FreshTable' /\ RoundDiscipline'
    BY <1>1, <1>4, <1>12, SettleInv
  <2>2. TypeOK'
    BY <1>11, <1>12, <2>1 DEF Phases
  <2>3. QED BY <2>1, <2>2 DEF HandInv
\* The hand goes on with the turn at a seat that can act.
<1>13. ASSUME RoundVarsOK, phase' \in BettingPhases, ~over, actionIdx' \in Seats \cup {None},
              actionIdx' # None => st[actionIdx'] = "Active",
              board' \in {0, 3, 4, 5}, stack' = stk, UNCHANGED payouts
       PROVE  HandInv'
  <2>1. payouts \in [Seats -> Nat]
    BY <1>3 DEF TypeOK
  <2>2. TypeOK'
    BY <1>4, <1>11, <1>13, <2>1 DEF Phases
  <2>3. SeatLedger'
    BY <1>1, <1>4, <1>13 DEF SeatLedger
  <2>4. FreshTable'
    BY <1>13 DEF FreshTable, BettingPhases
  <2>5. Cardinality(LiveSeats(status')) > 1
    BY <1>1, <1>9, <1>13 DEF over
  <2>6. RoundDiscipline'
    BY <1>1, <1>6, <1>13, <2>5 DEF RoundDiscipline, RoundVarsOK
  <2>7. QED BY <2>2, <2>3, <2>4, <2>6 DEF HandInv
<1>14. board \in {0, 3, 4, 5} /\ dealerIdx \in Seats
  BY <1>3 DEF TypeOK
<1>15. CASE over /\ SameRound(paid, bet, minR, raiser)
              /\ Settle(total, stk, SingleWinner(st, total)) /\ UNCHANGED <<actionIdx, board>>
  <2>1. SingleWinner(st, total) \in [Seats -> Nat]
    BY <1>4, SingleWinnerType
  <2>2. QED BY <1>7, <1>12, <1>14, <1>15, <2>1
<1>16. CASE ~over /\ EndBettingRound(st, total, stk, paid, bet, minR, raiser)
  <2> DEFINE able   == ActiveSeats(st)
             street == IF phase = "River" \/ Cardinality(able) = 1
                       THEN "River" ELSE NextStreet[phase]
  <2>1. street \in BettingPhases /\ BoardSize[street] \in {0, 3, 4, 5}
    BY DEF BettingPhases, NextStreet, BoardSize
  <2>2. board' = BoardSize[street]
    BY <1>16 DEF EndBettingRound
  <2>3. /\ RoundVarsOK
        /\ actionIdx' = actionIdx
             \/ /\ phase # "River" /\ able # {}
                /\ actionIdx' = NextActive(st, dealerIdx)
    BY <1>7, <1>8, <1>16 DEF EndBettingRound
  <2>4. /\ NextActive(st, dealerIdx) \in Seats \cup {None}
        /\ NextActive(st, dealerIdx) # None => st[NextActive(st, dealerIdx)] = "Active"
    BY <1>14, NextActiveType
  <2>5. actionIdx' \in Seats \cup {None}
    BY <2>3, <2>4
  <2>6. \/ /\ phase # "River" /\ Cardinality(able) > 1
           /\ phase' = street /\ stack' = stk /\ UNCHANGED payouts
           /\ actionIdx' = IF able = {} THEN actionIdx ELSE NextActive(st, dealerIdx)
        \/ Showdown(st, total, stk)
    BY <1>16 DEF EndBettingRound
  <2>7. able = {} => Cardinality(able) = 0
    BY FS_EmptySet
  <2> HIDE DEF able, street
  <2>8. CASE Showdown(st, total, stk)
    <3>1. PICK strength \in [LiveSeats(st) -> 1..Cardinality(LiveSeats(st))] :
            Settle(total, stk, DistributePots(CalculatePots(total), LiveSeats(st), strength, dealerIdx))
      BY <2>8 DEF Showdown
    <3>2. DistributePots(CalculatePots(total), LiveSeats(st), strength, dealerIdx) \in [Seats -> Nat]
      BY <1>4, DistributePotsType
    <3>3. QED BY <1>12, <2>1, <2>2, <2>3, <2>5, <3>1, <3>2
  <2>9. CASE ~Showdown(st, total, stk)
    <3>1. able # {}
      BY <2>6, <2>7, <2>9
    <3>2. actionIdx' = NextActive(st, dealerIdx)
      BY <2>6, <2>9, <3>1
    <3>3. QED BY <1>13, <1>16, <2>1, <2>2, <2>3, <2>4, <2>6, <2>9, <3>2
  <2>10. QED BY <2>8, <2>9
<1>17. CASE /\ ~over /\ next # None /\ SameRound(paid, bet, minR, raiser)
            /\ actionIdx' = next /\ stack' = stk
            /\ UNCHANGED <<phase, board, pots, payouts>>
  <2>1. next \in Seats \cup {None} /\ (next # None => st[next] = "Active")
    BY NextActiveType DEF next
  <2>2. QED BY <1>7, <1>13, <1>14, <1>17, <2>1
<1>18. QED BY <1>10, <1>15, <1>16, <1>17

-----------------------------------------------------------------------------
(* Each kind of action hands a good move to the tail.                      *)

MoveMade ==
  \E st, paid, bet, minR, raiser :
    GoodMove(st, paid, bet, minR, raiser) /\ Proceed(st, paid, bet, minR, raiser)

\* The bet to match is raised only to what the seat has bet itself.
Covered(paid, bet) == bet = tableBet \/ currentBet[actionIdx] + paid = bet

CoveredMoveMade ==
  \E st, paid, bet, minR, raiser :
    /\ GoodMove(st, paid, bet, minR, raiser)
    /\ Covered(paid, bet)
    /\ Proceed(st, paid, bet, minR, raiser)

\* Any action but a raise for which the stack is too small.
CoveredAct(s) ==
  \/ Fold(s)
  \/ Check(s)
  \/ Call(s)
  \/ \E amount \in Int : ToCall(s) + amount <= stack[s] /\ Raise(s, amount)
  \/ AllIn(s)

\* What holds when it is a seat's turn.
MyTurn(s) ==
  /\ phase \in BettingPhases /\ actionIdx = s /\ status[s] = "Active"
  /\ status \in [Seats -> Statuses] /\ stack[s] \in Nat /\ currentBet[s] \in Nat
  /\ tableBet \in Nat /\ minRaise \in Nat /\ lastRaiserIdx \in Seats \cup {None}
  /\ currentBet[s] <= tableBet

LEMMA TurnFacts ==
  ASSUME HandInv, NEW s \in Seats, MayAct(s)
  PROVE  MyTurn(s)
BY DEF MayAct, MyTurn, HandInv, TypeOK, RoundDiscipline, LiveSeats

LEMMA NewStatus ==
  ASSUME NEW s \in Seats, MyTurn(s), NEW v \in Statuses
  PROVE  LET st == [status EXCEPT ![s] = v]
         IN  /\ st \in [Seats -> Statuses] /\ st[s] = v
             /\ \A t \in Seats \ {s} : st[t] = status[t]
BY DEF MyTurn

\* Whatever is placed, a call or a raise, is a good move, and one that covers the bet
\* if the stack is large enough.
LEMMA PlacedIsGood ==
  ASSUME HandInv, NEW s \in Seats, MyTurn(s),
         NEW amount \in Nat, NEW bet \in Nat, NEW minR \in Nat, NEW raiser \in Seats \cup {None},
         tableBet <= bet, currentBet[s] + amount = bet, raiser \in {lastRaiserIdx, s}
  PROVE  /\ GoodMove([status EXCEPT ![s] = StatusAfter(s, amount)], Placed(s, amount), bet, minR, raiser)
         /\ amount <= stack[s] => Covered(Placed(s, amount), bet)
<1> DEFINE st   == [status EXCEPT ![s] = StatusAfter(s, amount)]
           paid == Placed(s, amount)
<1>1. /\ paid \in 0..stack[s] /\ paid <= amount
      /\ StatusAfter(s, amount) \in {"AllIn", status[s]}
      /\ StatusAfter(s, amount) \in Statuses
      /\ StatusAfter(s, amount) = "AllIn" /\ status[s] # "AllIn" => paid = stack[s]
      /\ StatusAfter(s, amount) # "AllIn" => paid = amount
  BY PlacedType DEF HandInv
<1>2. /\ st \in [Seats -> Statuses] /\ st[s] = StatusAfter(s, amount)
      /\ \A t \in Seats \ {s} : st[t] = status[t]
  BY <1>1, NewStatus
<1>3. amount <= stack[s] => paid = amount
  BY DEF MyTurn, Placed
<1> HIDE DEF st, paid
<1>4. /\ actionIdx = s /\ status[s] = "Active" /\ currentBet[s] \in Nat /\ tableBet \in Nat
      /\ stack[s] \in Nat
  BY DEF MyTurn
<1>5. currentBet[s] + paid <= bet
  BY <1>1, <1>4
<1>6. GoodMove(st, paid, bet, minR, raiser)
  BY <1>1, <1>2, <1>4, <1>5 DEF GoodMove
<1>7. amount <= stack[s] => Covered(paid, bet)
  BY <1>3, <1>4 DEF Covered
<1>8. QED BY <1>6, <1>7 DEF st, paid

LEMMA ActTakesTurn ==
  ASSUME HandInv, NEW s \in Seats,
         CoveredAct(s) \/ \E amount \in Int : Raise(s, amount)
  PROVE  MyTurn(s)
<1>1. MayAct(s)
  BY DEF CoveredAct, Fold, Check, Call, Raise, AllIn, MayCheck, MayCall, MayRaise
<1>2. QED BY <1>1, TurnFacts

\* What a raise places and what it makes the bet to match.
LEMMA RaiseIsPlaced ==
  ASSUME NEW s \in Seats, MyTurn(s), NEW amount \in Int, Raise(s, amount)
  PROVE  LET needed == ToCall(s) + amount IN
         /\ amount \in Nat /\ needed \in Nat
         /\ currentBet[s] + needed = tableBet + amount /\ tableBet <= tableBet + amount
         /\ Proceed([status EXCEPT ![s] = StatusAfter(s, needed)],
                    Placed(s, needed), tableBet + amount, amount, s)
<1>1. amount >= minRaise
  BY DEF Raise, MayRaise
<1>2. amount \in Nat
  BY <1>1 DEF MyTurn
<1>3. ToCall(s) \in Nat /\ currentBet[s] + ToCall(s) = tableBet
  BY DEF MyTurn, ToCall
<1>4. currentBet[s] \in Nat /\ tableBet \in Nat
  BY DEF MyTurn
<1>5. Proceed([status EXCEPT ![s] = StatusAfter(s, ToCall(s) + amount)],
              Placed(s, ToCall(s) + amount), tableBet + amount, amount, s)
  BY DEF Raise, MayRaise
<1>6. /\ ToCall(s) + amount \in Nat /\ currentBet[s] + (ToCall(s) + amount) = tableBet + amount
      /\ tableBet <= tableBet + amount
  BY <1>2, <1>3, <1>4
<1>7. QED BY <1>2, <1>5, <1>6

LEMMA CoveredActMoves ==
  ASSUME HandInv, NEW s \in Seats, CoveredAct(s)
  PROVE  MyTurn(s) /\ CoveredMoveMade
<1>1. MyTurn(s)
  BY ActTakesTurn
<1> SUFFICES CoveredMoveMade
  BY <1>1
<1>2. /\ actionIdx = s /\ status[s] = "Active" /\ status \in [Seats -> Statuses]
      /\ stack[s] \in Nat /\ currentBet[s] \in Nat /\ currentBet[s] <= tableBet
      /\ tableBet \in Nat /\ minRaise \in Nat /\ lastRaiserIdx \in Seats \cup {None}
  BY <1>1 DEF MyTurn
<1>3. "Folded" \in Statuses /\ "AllIn" \in Statuses
  BY DEF Statuses
<1>4. CASE Fold(s)
  <2> DEFINE st == [status EXCEPT ![s] = "Folded"]
  <2>1. st \in [Seats -> Statuses] /\ st[s] = "Folded" /\ \A t \in Seats \ {s} : st[t] = status[t]
    BY <1>1, <1>3, NewStatus
  <2>2. Proceed(st, 0, tableBet, minRaise, lastRaiserIdx)
    BY <1>4 DEF Fold
  <2> HIDE DEF st
  <2>3. GoodMove(st, 0, tableBet, minRaise, lastRaiserIdx) /\ Covered(0, tableBet)
    BY <1>2, <2>1 DEF GoodMove, Covered
  <2>4. QED BY <2>2, <2>3 DEF CoveredMoveMade
<1>5. CASE Check(s)
  <2>1. Proceed(status, 0, tableBet, minRaise, lastRaiserIdx)
    BY <1>5 DEF Check, MayCheck
  <2>2. currentBet[s] = tableBet
    BY <1>2, <1>5 DEF Check, MayCheck, ToCall
  <2>3. GoodMove(status, 0, tableBet, minRaise, lastRaiserIdx) /\ Covered(0, tableBet)
    BY <1>2, <2>2 DEF GoodMove, Covered
  <2>4. QED BY <2>1, <2>3 DEF CoveredMoveMade
<1>6. CASE Call(s)
  <2> DEFINE needed == ToCall(s)
  <2>1. needed \in Nat /\ currentBet[s] + needed = tableBet /\ tableBet <= tableBet
    BY <1>2 DEF ToCall
  <2>2. Proceed([status EXCEPT ![s] = StatusAfter(s, needed)],
                Placed(s, needed), tableBet, minRaise, lastRaiserIdx)
    BY <1>6 DEF Call, MayCall
  <2> HIDE DEF needed
  <2>3. GoodMove([status EXCEPT ![s] = StatusAfter(s, needed)],
                 Placed(s, needed), tableBet, minRaise, lastRaiserIdx)
    BY <1>1, <1>2, <2>1, PlacedIsGood
  <2>4. Covered(Placed(s, needed), tableBet)
    BY DEF Covered
  <2>5. QED BY <2>2, <2>3, <2>4 DEF CoveredMoveMade
<1>7. CASE \E amount \in Int : ToCall(s) + amount <= stack[s] /\ Raise(s, amount)
  <2>1. PICK amount \in Int : ToCall(s) + amount <= stack[s] /\ Raise(s, amount)
    BY <1>7
  <2> DEFINE needed == ToCall(s) + amount
             bet    == tableBet + amount
  <2>2. /\ amount \in Nat /\ needed \in Nat /\ currentBet[s] + needed = bet /\ tableBet <= bet
        /\ Proceed([status EXCEPT ![s] = StatusAfter(s, needed)], Placed(s, needed), bet, amount, s)
    BY <1>1, <2>1, RaiseIsPlaced
  <2>3. needed <= stack[s] /\ bet \in Nat
    BY <1>2, <2>1, <2>2
  <2> HIDE DEF needed, bet
  <2>4. /\ GoodMove([status EXCEPT ![s] = StatusAfter(s, needed)], Placed(s, needed), bet, amount, s)
        /\ Covered(Placed(s, needed), bet)
    BY <1>1, <2>2, <2>3, PlacedIsGood
  <2>5. QED BY <2>2, <2>4 DEF CoveredMoveMade
<1>8. CASE AllIn(s)
  <2> DEFINE whole  == currentBet[s] + stack[s]
             raises == whole > tableBet
             st     == [status EXCEPT ![s] = "AllIn"]
             bet    == IF raises THEN whole ELSE tableBet
             minR   == IF raises /\ whole - tableBet > minRaise THEN whole - tableBet ELSE minRaise
             raiser == IF raises THEN s ELSE lastRaiserIdx
  <2>1. st \in [Seats -> Statuses] /\ st[s] = "AllIn" /\ \A t \in Seats \ {s} : st[t] = status[t]
    BY <1>1, <1>3, NewStatus
  <2>2. Proceed(st, stack[s], bet, minR, raiser)
    BY <1>8 DEF AllIn
  <2>3. /\ bet \in Nat /\ minR \in Nat /\ tableBet <= bet /\ raiser \in Seats \cup {None}
        /\ currentBet[s] + stack[s] <= bet /\ raiser \in {lastRaiserIdx, s}
        /\ bet = tableBet \/ currentBet[s] + stack[s] = bet
    BY <1>2
  <2> HIDE DEF st, bet, minR, raiser
  <2>4. GoodMove(st, stack[s], bet, minR, raiser) /\ Covered(stack[s], bet)
    BY <1>2, <2>1, <2>3 DEF GoodMove, Covered
  <2>5. QED BY <2>2, <2>4 DEF CoveredMoveMade
<1>9. QED BY <1>4, <1>5, <1>6, <1>7, <1>8 DEF CoveredAct

LEMMA ActMoves ==
  ASSUME HandInv, NEW s \in Seats, Act(s)
  PROVE  MoveMade /\ phase \in BettingPhases /\ actionIdx = s /\ status[s] = "Active"
<1>1. MayAct(s)
  BY DEF Act, Fold, Check, Call, Raise, AllIn, MayCheck, MayCall, MayRaise
<1>2. MyTurn(s)
  BY <1>1, TurnFacts
<1>3. CASE CoveredAct(s)
  BY <1>2, <1>3, CoveredActMoves DEF CoveredMoveMade, MoveMade, MyTurn
<1>4. CASE \E amount \in RaiseAmounts(s) : Raise(s, amount)
  <2>1. PICK amount \in RaiseAmounts(s) : Raise(s, amount)
    BY <1>4
  <2>2. amount \in Int
    BY <1>2 DEF RaiseAmounts, MyTurn, ToCall
  <2> DEFINE needed == ToCall(s) + amount
             bet    == tableBet + amount
  <2>3. /\ amount \in Nat /\ needed \in Nat /\ currentBet[s] + needed = bet /\ tableBet <= bet
        /\ Proceed([status EXCEPT ![s] = StatusAfter(s, needed)], Placed(s, needed), bet, amount, s)
    BY <1>2, <2>1, <2>2, RaiseIsPlaced
  <2>4. bet \in Nat
    BY <1>2, <2>3 DEF MyTurn
  <2> HIDE DEF needed, bet
  <2>5. GoodMove([status EXCEPT ![s] = StatusAfter(s, needed)], Placed(s, needed), bet, amount, s)
    BY <1>2, <2>3, <2>4, PlacedIsGood
  <2>6. MoveMade
    BY <2>3, <2>5 DEF MoveMade
  <2>7. QED BY <1>2, <2>6 DEF MyTurn
<1>5. QED BY <1>3, <1>4 DEF Act, CoveredAct

LEMMA ActInv ==
  ASSUME HandInv, NEW s \in Seats, Act(s)
  PROVE  HandInv'
BY ActMoves, ProceedInv DEF MoveMade

LEMMA StutterHandInv ==
  ASSUME HandInv, UNCHANGED vars
  PROVE  HandInv'
BY DEF HandInv, TypeOK, SeatLedger, FreshTable, RoundDiscipline, LiveSeats,
       vars, tableVars, roundVars, seatVars

LEMMA NextHandInv ==
  ASSUME HandInv, [Next]_vars
  PROVE  HandInv'
BY StartHandInv, ActInv, StutterHandInv DEF Next

\* Every reachable state of the engine, whoever calls it, satisfies HandInv.
THEOREM HandCorrect == Spec => []HandInv
<1>1. Init => HandInv
  BY InitHandInv
<1>2. HandInv /\ [Next]_vars => HandInv'
  BY NextHandInv
<1>3. QED BY <1>1, <1>2, PTL DEF Spec

\* Every variable keeps its type: no stack, bet or payout is ever negative.
THEOREM TypeCorrect == Spec => []TypeOK
<1>1. HandInv => TypeOK
  BY DEF HandInv
<1>2. QED BY <1>1, HandCorrect, PTL

\* Every seat's chips are accounted for at every moment.
THEOREM LedgerBalanced == Spec => []SeatLedger
<1>1. HandInv => SeatLedger
  BY DEF HandInv
<1>2. QED BY <1>1, HandCorrect, PTL

\* Nobody is ever owed chips by the bet to match, an all-in seat has nothing
\* left, the turn is with a seat that can act, and two seats at least contest
\* the pot.
THEOREM RoundsDisciplined == Spec => []RoundDiscipline
<1>1. HandInv => RoundDiscipline
  BY DEF HandInv
<1>2. QED BY <1>1, HandCorrect, PTL

-----------------------------------------------------------------------------
(* The order of the turn.                                                  *)

\* How far round the table a seat sits: from 1, a whole round for the seat itself,
\* or from 0, nothing for the seat itself.
Step(from, s)     == IF s > from THEN s - from ELSE s - from + N
Distance(from, s) == IF s >= from THEN s - from ELSE s - from + N

\* Going round from "from", the seats of "able" that are in S come last.
ComeLast(from, able, S) ==
  \A u, v \in able : u \in S /\ Distance(from, u) <= Distance(from, v) => v \in S

LEMMA ModuloOnce ==
  ASSUME NEW n \in Nat, NEW k \in Nat, n > 0, k < 2 * n
  PROVE  k % n = IF k < n THEN k ELSE k - n
<1>1. k < n => k % n = k
  OBVIOUS
<1>2. k >= n => k % n = k - n
  OBVIOUS
<1>3. QED BY <1>1, <1>2

\* Adding seats modulo N.
LEMMA SeatModulo ==
  ASSUME NEW s \in Seats, NEW i \in 1..N
  PROVE  (s + i) % N = IF s + i < N THEN s + i ELSE s + i - N
<1>1. N \in Nat /\ N > 0 /\ s \in Nat /\ i \in Nat /\ s + i < 2 * N
  BY SeatNumbers
<1>2. PICK k \in Nat : k = s + i
  BY <1>1
<1>3. k % N = IF k < N THEN k ELSE k - N
  BY <1>1, <1>2, ModuloOnce
<1>4. QED BY <1>1, <1>2, <1>3

\* NextActive is the active seat that comes first.
LEMMA NextActiveFirst ==
  ASSUME NEW st, NEW from \in Seats
  PROVE  LET next == NextActive(st, from)
         IN  /\ next = None => ActiveSeats(st) = {}
             /\ next # None =>
                  /\ next \in ActiveSeats(st)
                  /\ \A s \in ActiveSeats(st) : Step(from, next) <= Step(from, s)
<1> DEFINE steps == {i \in 1..N : st[(from + i) % N] = "Active"}
           next  == NextActive(st, from)
<1>1. next = IF steps = {} THEN None ELSE (from + Min(steps)) % N
  BY DEF NextActive
<1>2. ASSUME NEW s \in Seats
      PROVE  Step(from, s) \in 1..N /\ (from + Step(from, s)) % N = s
  <2>1. Step(from, s) \in 1..N
    BY SeatNumbers DEF Step
  <2>2. (from + Step(from, s)) % N =
          IF from + Step(from, s) < N THEN from + Step(from, s) ELSE from + Step(from, s) - N
    BY <2>1, SeatModulo
  <2>3. QED BY <2>1, <2>2, SeatNumbers DEF Step
<1>3. ASSUME NEW i \in 1..N
      PROVE  (from + i) % N \in Seats /\ Step(from, (from + i) % N) = i
  <2> DEFINE r == (from + i) % N
  <2>1. r = IF from + i < N THEN from + i ELSE from + i - N
    BY SeatModulo
  <2>2. from \in Nat /\ i \in Nat /\ from < N /\ 1 <= i /\ i <= N /\ N \in Nat
    BY SeatNumbers
  <2> HIDE DEF r
  <2>3. r \in Seats /\ Step(from, r) = i
    BY <2>1, <2>2 DEF Step, Seats
  <2>4. QED BY <2>3 DEF r
<1>4. \A s \in ActiveSeats(st) : Step(from, s) \in steps
  BY <1>2 DEF ActiveSeats
<1>5. steps # {} => Min(steps) \in steps /\ \A i \in steps : Min(steps) <= i
  <2>1. steps \in SUBSET Nat
    OBVIOUS
  <2> HIDE DEF steps
  <2>2. QED BY <2>1, MinOfNaturals
<1>6. \A i \in steps : i \in 1..N /\ (from + i) % N \in ActiveSeats(st)
  BY <1>3 DEF ActiveSeats
<1> HIDE DEF steps, next
<1>7. CASE steps = {}
  BY <1>1, <1>4, <1>7, <1>6, SeatNumbers DEF None, next
<1>8. CASE steps # {}
  <2>1. next = (from + Min(steps)) % N /\ Min(steps) \in 1..N
    BY <1>1, <1>5, <1>6, <1>8
  <2>2. next \in ActiveSeats(st) /\ Step(from, next) = Min(steps)
    BY <1>3, <1>5, <1>6, <1>8, <2>1
  <2>3. next # None
    BY <2>2, SeatNumbers DEF ActiveSeats, None
  <2>4. QED BY <1>4, <1>5, <1>8, <2>2, <2>3 DEF next
<1>9. QED BY <1>7, <1>8

\* When the turn passes from one seat to the next, whoever was in S stays last if the
\* seat has come to be in S itself, or everybody else has left S.
LEMMA TurnPasses ==
  ASSUME NEW able \in SUBSET Seats, NEW still \in SUBSET able, NEW from \in able, NEW S, NEW T,
         ComeLast(from, able, S),
         from \in still => from \in T,
         (\A s \in still \ {from} : s \in T <=> s \in S) \/ (\A s \in still \ {from} : s \notin T),
         NEW next \in still, \A s \in still : Step(from, next) <= Step(from, s)
  PROVE  ComeLast(next, still, T)
<1> SUFFICES ASSUME NEW u \in still, NEW v \in still, u \in T,
                    Distance(next, u) <= Distance(next, v), v \notin T
             PROVE  FALSE
  BY DEF ComeLast
<1>1. v # from
  OBVIOUS
<1>2. from \in Nat /\ u \in Nat /\ v \in Nat /\ next \in Nat /\ N \in Nat
      /\ from < N /\ u < N /\ v < N /\ next < N
  BY SeatNumbers
<1>3. Step(from, next) <= Step(from, u) /\ Step(from, next) <= Step(from, v)
  OBVIOUS
<1>4. CASE u = from
  BY <1>1, <1>2, <1>3, <1>4 DEF Step, Distance
<1>5. CASE u # from
  <2>1. u \in S /\ v \notin S
    BY <1>1, <1>5
  <2>2. Distance(from, u) <= Distance(from, v)
    BY <1>1, <1>2, <1>3, <1>5 DEF Step, Distance
  <2>3. QED BY <2>1, <2>2 DEF ComeLast
<1>6. QED BY <1>4, <1>5

\* Counting from a seat or from the first one after it gives the same order.
LEMMA SameOrder ==
  ASSUME NEW from \in Seats, NEW first \in Seats, NEW u \in Seats, NEW v \in Seats,
         Step(from, first) <= Step(from, u), Step(from, first) <= Step(from, v),
         Distance(first, u) <= Distance(first, v)
  PROVE  Step(from, u) <= Step(from, v)
<1>1. ASSUME NEW w \in Seats, Step(from, first) <= Step(from, w)
      PROVE  Step(from, w) = Step(from, first) + Distance(first, w)
  BY <1>1, SeatNumbers DEF Step, Distance
<1>2. Step(from, first) \in Int /\ Distance(first, u) \in Int /\ Distance(first, v) \in Int
  BY SeatNumbers DEF Step, Distance
<1>3. QED BY <1>1, <1>2

\* If the first of them is in S, all are.
LEMMA FirstInAllIn ==
  ASSUME NEW able \in SUBSET Seats, NEW from \in able, NEW S, from \in S,
         ComeLast(from, able, S)
  PROVE  able \subseteq S
BY SeatNumbers DEF ComeLast, Distance

-----------------------------------------------------------------------------
(* The invariant of the turn: whoever has matched the bet comes after all  *)
(* who have not, whoever has acted after all who have not, and until all   *)
(* have acted the actions are counted right.                               *)

HaveMatched == {s \in Seats : currentBet[s] >= tableBet}

TurnOrder ==
  phase \in BettingPhases /\ actionIdx # None =>
    /\ ComeLast(actionIdx, ActiveSeats(status), HaveMatched)
    /\ ComeLast(actionIdx, ActiveSeats(status), acted)
    /\ ~(ActiveSeats(status) \subseteq acted) => roundActionCount = Cardinality(acted)
    /\ phase # "PreFlop" => lastRaiserIdx \in acted \cup {None}

FreshLog == phase = "Waiting" => acted = {}

OrderInv == HandInv /\ FreshLog /\ TurnOrder /\ FullBoardAtShowdown

\* The bets of the round after a move.
RoundBetsAfter(paid) == [currentBet EXCEPT ![actionIdx] = @ + paid]

\* What a move does to the seats that come last.
LEMMA MoveKeepsOrder ==
  ASSUME HandInv, TurnOrder, phase \in BettingPhases, actionIdx \in Seats,
         status[actionIdx] = "Active",
         NEW st, NEW paid, NEW bet, NEW minR, NEW raiser, GoodMove(st, paid, bet, minR, raiser),
         NEW next, next = NextActive(st, actionIdx), next # None
  PROVE  /\ next \in ActiveSeats(st)
         /\ ComeLast(next, ActiveSeats(st), {s \in Seats : RoundBetsAfter(paid)[s] >= bet})
         /\ ComeLast(next, ActiveSeats(st), acted \cup {actionIdx})
         /\ ~(ActiveSeats(st) \subseteq acted \cup {actionIdx}) =>
              roundActionCount + 1 = Cardinality(acted \cup {actionIdx})
<1> DEFINE able  == ActiveSeats(status)
           still == ActiveSeats(st)
           cb    == RoundBetsAfter(paid)
           T     == {s \in Seats : cb[s] >= bet}
<1>1. /\ able \in SUBSET Seats /\ still \in SUBSET able /\ actionIdx \in able
      /\ \A s \in still : st[s] = "Active"
      /\ \A s \in still \ {actionIdx} : s \in LiveSeats(status)
  BY DEF GoodMove, ActiveSeats, LiveSeats
<1>2. next \in still /\ \A s \in still : Step(actionIdx, next) <= Step(actionIdx, s)
  BY NextActiveFirst
<1>3. actionIdx # None
  BY SeatNumbers DEF None
<1>4. ComeLast(actionIdx, able, HaveMatched) /\ ComeLast(actionIdx, able, acted)
  BY <1>3 DEF TurnOrder
<1>5. /\ currentBet \in [Seats -> Nat] /\ tableBet \in Nat /\ bet \in Nat /\ tableBet <= bet
      /\ paid \in Nat /\ acted \in SUBSET Seats /\ roundActionCount \in Nat
      /\ \A s \in LiveSeats(status) : currentBet[s] <= tableBet
  BY DEF HandInv, TypeOK, RoundDiscipline, GoodMove
<1>6. /\ cb[actionIdx] = currentBet[actionIdx] + paid
      /\ \A s \in Seats \ {actionIdx} : cb[s] = currentBet[s]
  BY <1>5 DEF RoundBetsAfter
<1> HIDE DEF able, cb
<1>7. actionIdx \in still => actionIdx \in T
  BY <1>1, <1>5, <1>6 DEF GoodMove
<1>8. \/ \A s \in still \ {actionIdx} : s \in T <=> s \in HaveMatched
      \/ \A s \in still \ {actionIdx} : s \notin T
  <2>1. \A s \in still \ {actionIdx} : s \in Seats /\ cb[s] = currentBet[s]
                                        /\ currentBet[s] <= tableBet /\ currentBet[s] \in Nat
    BY <1>1, <1>5, <1>6
  <2>2. CASE bet = tableBet
    BY <2>1, <2>2 DEF HaveMatched
  <2>3. CASE bet # tableBet
    BY <1>5, <2>1, <2>3
  <2>4. QED BY <2>2, <2>3
<1> HIDE DEF still, T
<1>9. ComeLast(next, still, T)
  BY <1>1, <1>2, <1>4, <1>7, <1>8, TurnPasses
<1>10. ComeLast(next, still, acted \cup {actionIdx})
  <2>1. /\ actionIdx \in still => actionIdx \in acted \cup {actionIdx}
        /\ \A s \in still \ {actionIdx} : s \in acted \cup {actionIdx} <=> s \in acted
    OBVIOUS
  <2>2. QED BY <1>1, <1>2, <1>4, <2>1, TurnPasses
<1>11. ASSUME ~(still \subseteq acted \cup {actionIdx})
       PROVE  roundActionCount + 1 = Cardinality(acted \cup {actionIdx})
  <2>1. ~(able \subseteq acted)
    BY <1>1, <1>11
  <2>2. actionIdx \notin acted
    BY <1>1, <1>4, <2>1, FirstInAllIn
  <2>3. roundActionCount = Cardinality(acted)
    BY <1>3, <2>1 DEF TurnOrder, able
  <2>4. Cardinality(acted \cup {actionIdx}) = Cardinality(acted) + 1
    BY <1>5, <2>2, SeatSets, FS_AddElement
  <2>5. QED BY <2>3, <2>4
<1>12. QED BY <1>2, <1>9, <1>10, <1>11 DEF still, T, cb

\* A round that closes has been bet out: every seat that can still act has matched
\* the bet, and, after the flop, has acted.
LEMMA ClosedRoundIsEven ==
  ASSUME HandInv, TurnOrder, phase \in BettingPhases, actionIdx \in Seats,
         status[actionIdx] = "Active",
         NEW st, NEW paid, NEW bet, NEW minR, NEW raiser, GoodMove(st, paid, bet, minR, raiser),
         NEW next, next = NextActive(st, actionIdx),
         next # None => RoundComplete(st, next, RoundBetsAfter(paid)[next], bet, raiser,
                                      roundActionCount + 1)
  PROVE  /\ \A s \in ActiveSeats(st) : RoundBetsAfter(paid)[s] = bet
         /\ \A s \in LiveSeats(st) : RoundBetsAfter(paid)[s] <= bet
         /\ phase # "PreFlop" /\ acted \cup {actionIdx} \subseteq ActiveSeats(st) =>
              ActiveSeats(st) \subseteq acted \cup {actionIdx}
<1> DEFINE still == ActiveSeats(st)
           cb    == RoundBetsAfter(paid)
           T     == {s \in Seats : cb[s] >= bet}
           did   == acted \cup {actionIdx}
<1>1. /\ currentBet \in [Seats -> Nat] /\ tableBet \in Nat /\ bet \in Nat /\ tableBet <= bet
      /\ paid \in Nat /\ acted \in SUBSET Seats /\ roundActionCount \in Nat
      /\ \A s \in LiveSeats(status) : currentBet[s] <= tableBet
  BY DEF HandInv, TypeOK, RoundDiscipline, GoodMove
<1>2. /\ cb[actionIdx] = currentBet[actionIdx] + paid
      /\ \A s \in Seats \ {actionIdx} : cb[s] = currentBet[s]
      /\ \A s \in Seats : cb[s] \in Nat
  BY <1>1 DEF RoundBetsAfter
<1>3. \A s \in LiveSeats(st) : cb[s] <= bet /\ s \in Seats
  <2> SUFFICES ASSUME NEW s \in LiveSeats(st) PROVE cb[s] <= bet /\ s \in Seats
    OBVIOUS
  <2>1. s \in Seats /\ st[s] # "Folded"
    BY DEF LiveSeats
  <2> HIDE DEF cb
  <2>2. CASE s = actionIdx
    BY <1>2, <2>1, <2>2 DEF GoodMove
  <2>3. CASE s # actionIdx
    <3>1. s \in LiveSeats(status)
      BY <2>1, <2>3 DEF LiveSeats, GoodMove
    <3>2. cb[s] = currentBet[s] /\ currentBet[s] <= tableBet /\ currentBet[s] \in Nat
      BY <1>1, <1>2, <2>1, <2>3, <3>1
    <3>3. QED BY <1>1, <2>1, <3>2
  <2>4. QED BY <2>2, <2>3
<1>4. still \subseteq LiveSeats(st) /\ still \subseteq Seats
  BY DEF ActiveSeats, LiveSeats
<1>5. CASE next = None
  <2>1. still = {}
    BY <1>5, NextActiveFirst
  <2>2. QED BY <1>3, <2>1
<1>6. CASE next # None
  <2>1. /\ next \in still
        /\ ComeLast(next, still, T)
        /\ ComeLast(next, still, did)
        /\ ~(still \subseteq did) => roundActionCount + 1 = Cardinality(did)
    BY <1>6, MoveKeepsOrder
  <2>2. cb[next] >= bet /\ (next = raiser \/ roundActionCount + 1 >= Cardinality(still))
    BY <1>6 DEF RoundComplete
  <2> HIDE DEF cb, still
  <2>3. next \in T
    BY <1>4, <2>1, <2>2
  <2>4. still \subseteq T
    <3> HIDE DEF T
    <3>1. QED BY <1>4, <2>1, <2>3, FirstInAllIn
  <2>5. \A s \in still : cb[s] = bet
    BY <1>1, <1>2, <1>3, <1>4, <2>4
  <2>6. ASSUME phase # "PreFlop", did \subseteq still PROVE still \subseteq did
    <3> SUFFICES ASSUME next \notin did PROVE FALSE
      BY <1>4, <2>1, FirstInAllIn
    <3>1. next # raiser
      <4>1. lastRaiserIdx \in acted \cup {None}
        BY <2>6, SeatNumbers DEF TurnOrder, None
      <4>2. QED BY <1>6, <4>1 DEF GoodMove
    <3>2. roundActionCount + 1 = Cardinality(did) /\ roundActionCount + 1 >= Cardinality(still)
      BY <2>1, <2>2, <3>1
    <3>3. IsFiniteSet(still) /\ did # still
      BY <1>4, <2>1, SeatSets
    <3>4. Cardinality(did) < Cardinality(still)
      <4> HIDE DEF did
      <4>1. Cardinality(did) <= Cardinality(still) /\ Cardinality(did) # Cardinality(still)
        BY <2>6, <3>3, FS_Subset
      <4>2. Cardinality(did) \in Nat /\ Cardinality(still) \in Nat
        BY <2>6, <3>3, FS_Subset, FS_CardinalityType
      <4>3. QED BY <4>1, <4>2
    <3>5. Cardinality(did) \in Nat /\ Cardinality(still) \in Nat
      BY <1>1, <1>4, SeatSets
    <3> HIDE DEF did
    <3>6. QED BY <3>2, <3>4, <3>5
  <2>7. QED BY <1>3, <2>5, <2>6 DEF cb, still
<1>7. QED BY <1>5, <1>6

-----------------------------------------------------------------------------
(* The three ways in which a move ends.                                    *)

MoveEndsHand(st, paid, bet, minR, raiser) ==
  /\ Cardinality(LiveSeats(st)) <= 1
  /\ SameRound(paid, bet, minR, raiser)
  /\ Settle(BetsAfter(paid), StacksAfter(paid), SingleWinner(st, BetsAfter(paid)))
  /\ UNCHANGED <<actionIdx, board>>

MoveEndsRound(st, paid, bet, minR, raiser) ==
  LET next == NextActive(st, actionIdx) IN
  /\ Cardinality(LiveSeats(st)) > 1
  /\ next # None => RoundComplete(st, next, RoundBetsAfter(paid)[next], bet, raiser,
                                  roundActionCount + 1)
  /\ EndBettingRound(st, BetsAfter(paid), StacksAfter(paid), paid, bet, minR, raiser)

MovePassesTurn(st, paid, bet, minR, raiser) ==
  LET next == NextActive(st, actionIdx) IN
  /\ Cardinality(LiveSeats(st)) > 1
  /\ next # None
  /\ ~RoundComplete(st, next, RoundBetsAfter(paid)[next], bet, raiser, roundActionCount + 1)
  /\ SameRound(paid, bet, minR, raiser)
  /\ actionIdx' = next
  /\ stack' = StacksAfter(paid)
  /\ UNCHANGED <<phase, board, pots, payouts>>

LEMMA MoveCases ==
  ASSUME HandInv, phase \in BettingPhases, actionIdx \in Seats,
         NEW st, NEW paid, NEW bet, NEW minR, NEW raiser,
         GoodMove(st, paid, bet, minR, raiser), Proceed(st, paid, bet, minR, raiser)
  PROVE  /\ status' = st /\ totalBet' = BetsAfter(paid) /\ UNCHANGED <<dealerIdx, startStack>>
         /\ \/ MoveEndsHand(st, paid, bet, minR, raiser)
            \/ MoveEndsRound(st, paid, bet, minR, raiser)
            \/ MovePassesTurn(st, paid, bet, minR, raiser)
<1> DEFINE next   == NextActive(st, actionIdx)
           mine   == currentBet[next] + (IF next = actionIdx THEN paid ELSE 0)
           after  == RoundBetsAfter(paid)[next]
           count  == Cardinality(LiveSeats(st))
<1>1. next \in Seats => mine = after
  <2>1. currentBet \in [Seats -> Nat] /\ paid \in Nat
    BY DEF HandInv, TypeOK, GoodMove
  <2> HIDE DEF next
  <2>2. QED BY <2>1 DEF RoundBetsAfter
<1>2. next \in Seats \cup {None}
  BY NextActiveType
<1>3. count \in Nat
  BY SeatSets DEF LiveSeats
<1>4. /\ status' = st /\ totalBet' = BetsAfter(paid) /\ UNCHANGED <<dealerIdx, startStack>>
      /\ \/ /\ count <= 1
            /\ SameRound(paid, bet, minR, raiser)
            /\ Settle(BetsAfter(paid), StacksAfter(paid), SingleWinner(st, BetsAfter(paid)))
            /\ UNCHANGED <<actionIdx, board>>
         \/ /\ ~(count <= 1)
            /\ IF next = None THEN TRUE
               ELSE RoundComplete(st, next, mine, bet, raiser, roundActionCount + 1)
            /\ EndBettingRound(st, BetsAfter(paid), StacksAfter(paid), paid, bet, minR, raiser)
         \/ /\ ~(count <= 1)
            /\ ~IF next = None THEN TRUE
                ELSE RoundComplete(st, next, mine, bet, raiser, roundActionCount + 1)
            /\ SameRound(paid, bet, minR, raiser)
            /\ actionIdx' = next
            /\ stack' = StacksAfter(paid)
            /\ UNCHANGED <<phase, board, pots, payouts>>
  BY DEF Proceed, BetsAfter, StacksAfter
<1> HIDE DEF next, mine, after, count
<1>5. ~(count <= 1) => count > 1
  BY <1>3
<1>6. next # None => mine = after
  BY <1>1, <1>2
<1>7. \/ MoveEndsHand(st, paid, bet, minR, raiser)
      \/ MoveEndsRound(st, paid, bet, minR, raiser)
      \/ MovePassesTurn(st, paid, bet, minR, raiser)
  <2>1. CASE count <= 1
    BY <1>4, <2>1 DEF MoveEndsHand, count
  <2>2. CASE /\ count > 1
             /\ next # None => RoundComplete(st, next, after, bet, raiser, roundActionCount + 1)
             /\ EndBettingRound(st, BetsAfter(paid), StacksAfter(paid), paid, bet, minR, raiser)
    BY <2>2 DEF MoveEndsRound, count, next, after
  <2>3. CASE /\ count > 1 /\ next # None
             /\ ~RoundComplete(st, next, after, bet, raiser, roundActionCount + 1)
             /\ SameRound(paid, bet, minR, raiser) /\ actionIdx' = next
             /\ stack' = StacksAfter(paid) /\ UNCHANGED <<phase, board, pots, payouts>>
    BY <2>3 DEF MovePassesTurn, count, next, after
  <2>4. QED BY <1>4, <1>5, <1>6, <2>1, <2>2, <2>3
<1>8. QED BY <1>4, <1>7

\* The end of a round leads to a new one, or to a showdown on a full board or among
\* seats that are all-in.
LEMMA RoundEnds ==
  ASSUME HandInv, phase \in BettingPhases,
         NEW st, NEW total, NEW stk, NEW paid, NEW bet, NEW minR, NEW raiser, status' = st,
         EndBettingRound(st, total, stk, paid, bet, minR, raiser)
  PROVE  \/ /\ phase # "River" /\ Cardinality(ActiveSeats(st)) > 1
            /\ phase' = NextStreet[phase] /\ phase' # "PreFlop"
            /\ NewRound(st)
            /\ actionIdx' = NextActive(st, dealerIdx)
            /\ stack' = stk /\ UNCHANGED payouts
         \/ /\ Showdown(st, total, stk) /\ phase' = "Settled"
            /\ board' = 5 \/ ActiveSeats(status') = {}
<1> DEFINE able   == ActiveSeats(st)
           street == IF phase = "River" \/ Cardinality(able) = 1
                     THEN "River" ELSE NextStreet[phase]
<1>1. /\ board' = BoardSize[street]
      /\ phase # "River" => NewRound(st)
                            /\ actionIdx' = IF able = {} THEN actionIdx ELSE NextActive(st, dealerIdx)
      /\ \/ /\ phase # "River" /\ Cardinality(able) > 1
            /\ phase' = street /\ stack' = stk /\ UNCHANGED payouts
         \/ /\ phase = "River" \/ Cardinality(able) <= 1
            /\ Showdown(st, total, stk)
  BY DEF EndBettingRound
<1>2. IsFiniteSet(able) /\ Cardinality(able) \in Nat /\ (Cardinality(able) = 0 <=> able = {})
  BY SeatSets, FS_EmptySet DEF ActiveSeats
<1>3. phase # "River" => NextStreet[phase] # "PreFlop"
  BY DEF NextStreet, BettingPhases
<1> HIDE DEF able
<1>4. CASE phase # "River" /\ Cardinality(able) > 1
  BY <1>1, <1>2, <1>3, <1>4 DEF able
<1>5. CASE phase = "River" \/ Cardinality(able) <= 1
  <2>1. Showdown(st, total, stk)
    BY <1>1, <1>2, <1>5
  <2>2. phase' = "Settled"
    BY <2>1 DEF Showdown, Settle
  <2>3. board' = 5 \/ able = {}
    <3>1. able # {} => street = "River"
      BY <1>2, <1>5
    <3>2. QED BY <1>1, <3>1 DEF BoardSize
  <2>4. QED BY <2>1, <2>2, <2>3 DEF able
<1>6. QED BY <1>2, <1>4, <1>5

-----------------------------------------------------------------------------
(* The order is kept.                                                      *)

LEMMA MoveInOrder ==
  ASSUME OrderInv, phase \in BettingPhases, actionIdx \in Seats, status[actionIdx] = "Active",
         NEW st, NEW paid, NEW bet, NEW minR, NEW raiser,
         GoodMove(st, paid, bet, minR, raiser), Proceed(st, paid, bet, minR, raiser), HandInv'
  PROVE  OrderInv'
<1>1. /\ status' = st
      /\ \/ MoveEndsHand(st, paid, bet, minR, raiser)
         \/ MoveEndsRound(st, paid, bet, minR, raiser)
         \/ MovePassesTurn(st, paid, bet, minR, raiser)
  BY MoveCases DEF OrderInv
<1>2. HandInv /\ TurnOrder
  BY DEF OrderInv
<1>3. CASE MoveEndsHand(st, paid, bet, minR, raiser)
  <2>1. phase' = "Settled" /\ ~(Cardinality(LiveSeats(status')) > 1)
    <3>1. Cardinality(LiveSeats(st)) \in Nat /\ Cardinality(LiveSeats(st)) <= 1
      BY <1>3, SeatSets DEF MoveEndsHand, LiveSeats
    <3>2. QED BY <1>1, <1>3, <3>1 DEF MoveEndsHand, Settle
  <2>2. QED BY <2>1 DEF OrderInv, FreshLog, TurnOrder, FullBoardAtShowdown, BettingPhases
<1>4. CASE MoveEndsRound(st, paid, bet, minR, raiser)
  <2>1. \/ /\ phase' \in BettingPhases /\ NewRound(st)
        \/ /\ phase' = "Settled"
           /\ board' = 5 \/ ActiveSeats(status') = {}
    BY <1>1, <1>2, <1>4, RoundEnds DEF MoveEndsRound, BettingPhases, NextStreet
  <2>2. CASE phase' = "Settled" /\ (board' = 5 \/ ActiveSeats(status') = {})
    BY <2>2 DEF OrderInv, FreshLog, TurnOrder, FullBoardAtShowdown, BettingPhases
  <2>3. CASE phase' \in BettingPhases /\ NewRound(st)
    <3>1. tableBet' = 0 /\ roundActionCount' = 0 /\ acted' = {} /\ lastRaiserIdx' = None
      BY <2>3 DEF NewRound
    <3>2. HaveMatched' = Seats
      BY <3>1 DEF HaveMatched, HandInv, TypeOK
    <3>3. ActiveSeats(status') \subseteq Seats
      BY DEF ActiveSeats
    <3>4. TurnOrder'
      BY <3>1, <3>2, <3>3, FS_EmptySet DEF TurnOrder, ComeLast
    <3>5. QED BY <2>3, <3>4 DEF OrderInv, FreshLog, FullBoardAtShowdown, BettingPhases
  <2>4. QED BY <2>1, <2>2, <2>3
<1>5. CASE MovePassesTurn(st, paid, bet, minR, raiser)
  <2> DEFINE next == NextActive(st, actionIdx)
  <2>1. /\ next # None /\ actionIdx' = next /\ phase' = phase
        /\ currentBet' = RoundBetsAfter(paid) /\ tableBet' = bet
        /\ acted' = acted \cup {actionIdx} /\ roundActionCount' = roundActionCount + 1
        /\ lastRaiserIdx' = raiser
    BY <1>5 DEF MovePassesTurn, SameRound, RoundBetsAfter
  <2>2. /\ ComeLast(next, ActiveSeats(st), {s \in Seats : RoundBetsAfter(paid)[s] >= bet})
        /\ ComeLast(next, ActiveSeats(st), acted \cup {actionIdx})
        /\ ~(ActiveSeats(st) \subseteq acted \cup {actionIdx}) =>
             roundActionCount + 1 = Cardinality(acted \cup {actionIdx})
    BY <1>2, <2>1, MoveKeepsOrder
  <2> HIDE DEF next
  <2>3. phase # "PreFlop" => raiser \in acted \cup {actionIdx} \cup {None}
    BY <1>2, SeatNumbers DEF TurnOrder, GoodMove, None
  <2>4. TurnOrder'
    BY <1>1, <2>1, <2>2, <2>3 DEF TurnOrder, HaveMatched
  <2>5. QED BY <2>1, <2>4 DEF OrderInv, FreshLog, FullBoardAtShowdown, BettingPhases
<1>6. QED BY <1>1, <1>3, <1>4, <1>5

\* The big blind sits next to the small blind.
LEMMA BlindsAreNeighbours ==
  ASSUME dealerIdx \in Seats
  PROVE  /\ SmallBlindSeat \in Seats /\ BigBlindSeat \in Seats
         /\ BigBlindSeat = IF SmallBlindSeat = N - 1 THEN 0 ELSE SmallBlindSeat + 1
<1>1. SmallBlindSeat \in Seats /\ BigBlindSeat \in Seats
  BY BlindSeats
<1>2. /\ dealerIdx \in Nat /\ dealerIdx < N /\ N \in Nat /\ N >= 2
  BY SeatNumbers
<1>3. (dealerIdx + 1) % N = IF dealerIdx + 1 < N THEN dealerIdx + 1 ELSE dealerIdx + 1 - N
  <2>1. 1 \in 1..N
    BY <1>2
  <2>2. QED BY <2>1, SeatModulo
<1>4. (dealerIdx + 2) % N = IF dealerIdx + 2 < N THEN dealerIdx + 2 ELSE dealerIdx + 2 - N
  <2>1. 2 \in 1..N
    BY <1>2
  <2>2. QED BY <2>1, SeatModulo
<1>5. QED BY <1>1, <1>2, <1>3, <1>4 DEF SmallBlindSeat, BigBlindSeat
\* The blinds, as the first betting round finds them.
LEMMA BlindsPosted ==
  ASSUME HandInv, StartHand
  PROVE  LET sb == SmallBlindSeat
             bb == BigBlindSeat
         IN  /\ sb \in Seats /\ bb \in Seats /\ sb # bb
             /\ bb = IF sb = N - 1 THEN 0 ELSE sb + 1
             /\ phase' = "PreFlop" /\ roundActionCount' = 0
             /\ actionIdx' = NextActive(status', bb)
             /\ acted' = acted /\ payouts' = payouts /\ startStack' = startStack
             /\ tableBet' \in Nat /\ tableBet' \in {currentBet'[sb], currentBet'[bb]}
             /\ \A s \in Seats : /\ currentBet'[s] \in Nat /\ currentBet'[s] <= tableBet'
                                 /\ totalBet'[s] = currentBet'[s]
                                 /\ status'[s] # "Folded"
             /\ \A s \in Seats \ {sb, bb} : currentBet'[s] = 0 /\ status'[s] = "Active"
             /\ currentBet'[sb] <= SmallBlind
             /\ status'[bb] = "Active" => currentBet'[bb] = BigBlind
<1> DEFINE sb == SmallBlindSeat
           bb == BigBlindSeat
           due  == [s \in Seats |-> IF s = sb THEN SmallBlind ELSE IF s = bb THEN BigBlind ELSE 0]
           post == [s \in Seats |-> IF due[s] = 0 THEN 0 ELSE Placed(s, due[s])]
<1>1. TypeOK /\ FreshTable /\ phase = "Waiting"
  BY DEF HandInv, StartHand
<1>2. /\ sb \in Seats /\ bb \in Seats
      /\ bb = IF sb = N - 1 THEN 0 ELSE sb + 1
  BY <1>1, BlindsAreNeighbours DEF TypeOK
<1>3. /\ phase' = "PreFlop" /\ acted' = acted /\ roundActionCount' = 0
      /\ payouts' = payouts /\ startStack' = startStack
      /\ status' = [s \in Seats |-> IF due[s] = 0 THEN status[s] ELSE StatusAfter(s, due[s])]
      /\ currentBet' = [s \in Seats |-> currentBet[s] + post[s]]
      /\ totalBet' = [s \in Seats |-> totalBet[s] + post[s]]
      /\ tableBet' = IF post[sb] > post[bb] THEN post[sb] ELSE post[bb]
      /\ actionIdx' = NextActive(status', bb)
  BY DEF StartHand
<1>4. sb # bb
  BY <1>2, SeatNumbers
<1>5. /\ due[sb] = SmallBlind /\ due[bb] = BigBlind
      /\ \A s \in Seats \ {sb, bb} : due[s] = 0
  BY <1>2, <1>4
<1> HIDE DEF sb, bb, due
<1>6. /\ SmallBlind \in Nat /\ BigBlind \in Nat /\ 0 < SmallBlind /\ SmallBlind < BigBlind
  BY TableAssumption, SeatCountAssumption
<1>7. /\ post[sb] = Placed(sb, SmallBlind) /\ post[bb] = Placed(bb, BigBlind)
      /\ \A s \in Seats \ {sb, bb} : post[s] = 0 /\ status'[s] = status[s]
      /\ status'[bb] = StatusAfter(bb, BigBlind) /\ status'[sb] = StatusAfter(sb, SmallBlind)
  BY <1>2, <1>3, <1>5, <1>6
<1>8. \A s \in Seats : status[s] = "Active" /\ currentBet[s] = 0 /\ totalBet[s] = 0
  BY <1>1 DEF FreshTable
<1>9. /\ post[sb] \in Nat /\ post[sb] <= SmallBlind
      /\ post[bb] \in Nat
      /\ status'[bb] = "Active" => post[bb] = BigBlind
      /\ status'[sb] # "Folded" /\ status'[bb] # "Folded"
  <2>1. stack[sb] \in Nat /\ stack[bb] \in Nat /\ status[sb] = "Active" /\ status[bb] = "Active"
    BY <1>1, <1>2, <1>8 DEF TypeOK
  <2>2. /\ Placed(sb, SmallBlind) \in 0..stack[sb] /\ Placed(sb, SmallBlind) <= SmallBlind
        /\ StatusAfter(sb, SmallBlind) \in {"AllIn", status[sb]}
    BY <1>1, <1>2, <1>6, PlacedType
  <2>3. /\ Placed(bb, BigBlind) \in 0..stack[bb]
        /\ StatusAfter(bb, BigBlind) \in {"AllIn", status[bb]}
        /\ StatusAfter(bb, BigBlind) # "AllIn" => Placed(bb, BigBlind) = BigBlind
    BY <1>1, <1>2, <1>6, PlacedType
  <2>4. QED BY <1>7, <2>1, <2>2, <2>3
<1>10. \A s \in Seats : post[s] \in Nat
  BY <1>7, <1>9
<1> HIDE DEF post
<1>11. \A s \in Seats : currentBet'[s] = post[s] /\ totalBet'[s] = post[s]
  BY <1>3, <1>8, <1>10
<1>12. /\ tableBet' \in Nat /\ post[sb] <= tableBet' /\ post[bb] <= tableBet'
       /\ tableBet' \in {post[sb], post[bb]}
  BY <1>3, <1>9
<1>13. \A s \in Seats : /\ currentBet'[s] \in Nat /\ currentBet'[s] <= tableBet'
                        /\ totalBet'[s] = currentBet'[s]
                        /\ status'[s] # "Folded"
  <2> SUFFICES ASSUME NEW s \in Seats
               PROVE  /\ currentBet'[s] \in Nat /\ currentBet'[s] <= tableBet'
                      /\ totalBet'[s] = currentBet'[s]
                      /\ status'[s] # "Folded"
    OBVIOUS
  <2>1. CASE s \in {sb, bb}
    BY <1>9, <1>11, <1>12, <2>1
  <2>2. CASE s \notin {sb, bb}
    BY <1>7, <1>8, <1>11, <1>12, <2>2
  <2>3. QED BY <2>1, <2>2
<1>14. \A s \in Seats \ {sb, bb} : currentBet'[s] = 0 /\ status'[s] = "Active"
  BY <1>7, <1>8, <1>11
<1>15. QED BY <1>2, <1>3, <1>4, <1>9, <1>11, <1>12, <1>13, <1>14 DEF sb, bb

\* Before the flop the turn goes round from the seat after the big blind, and only the
\* blinds have bet: the order is right from the start.
LEMMA StartInOrder ==
  ASSUME OrderInv, StartHand, HandInv'
  PROVE  OrderInv'
<1> DEFINE sb   == SmallBlindSeat
           bb   == BigBlindSeat
           able == ActiveSeats(status')
           a    == actionIdx'
<1>1. HandInv /\ acted = {}
  BY DEF OrderInv, FreshLog, StartHand
<1>2. /\ sb \in Seats /\ bb \in Seats
      /\ bb = IF sb = N - 1 THEN 0 ELSE sb + 1
      /\ phase' = "PreFlop" /\ acted' = {} /\ roundActionCount' = 0
      /\ a = NextActive(status', bb)
      /\ tableBet' \in Nat /\ tableBet' \in {currentBet'[sb], currentBet'[bb]}
      /\ \A s \in Seats : currentBet'[s] \in Nat /\ currentBet'[s] <= tableBet'
      /\ \A s \in Seats \ {sb, bb} : currentBet'[s] = 0
      /\ currentBet'[sb] <= SmallBlind
      /\ status'[bb] = "Active" => currentBet'[bb] = BigBlind
  BY <1>1, BlindsPosted
<1>3. SmallBlind \in Nat /\ BigBlind \in Nat /\ 0 < SmallBlind /\ SmallBlind < BigBlind
  BY TableAssumption, SeatCountAssumption
<1> HIDE DEF sb, bb
<1>4. ASSUME a # None PROVE ComeLast(a, able, HaveMatched')
  <2> SUFFICES ASSUME NEW u \in able, NEW v \in able, u \in HaveMatched',
                      Distance(a, u) <= Distance(a, v), v \notin HaveMatched'
               PROVE  FALSE
    BY DEF ComeLast
  <2>1. u \in Seats /\ v \in Seats /\ status'[v] = "Active"
    BY DEF ActiveSeats
  <2>2. a \in Seats /\ \A s \in able : Step(bb, a) <= Step(bb, s)
    BY <1>2, <1>4, NextActiveFirst DEF ActiveSeats
  <2>3. Step(bb, u) <= Step(bb, v)
    <3>1. Step(bb, a) <= Step(bb, u) /\ Step(bb, a) <= Step(bb, v)
      BY <2>2
    <3> HIDE DEF a
    <3>2. QED BY <1>2, <2>1, <2>2, <3>1, SameOrder
  <2>4. currentBet'[u] >= tableBet' /\ ~(currentBet'[v] >= tableBet')
    BY <2>1 DEF HaveMatched
  <2>5. u \in {sb, bb}
    BY <1>2, <2>1, <2>4
  <2>6. v = u \/ (u = sb /\ v = bb)
    <3>1. u \in Nat /\ v \in Nat /\ u < N /\ v < N /\ N \in Nat /\ sb \in Nat /\ sb < N
      BY <1>2, <2>1, SeatNumbers
    <3>2. QED BY <1>2, <2>3, <2>5, <3>1 DEF Step
  <2>7. currentBet'[bb] = BigBlind => tableBet' = BigBlind
    BY <1>2, <1>3
  <2>8. QED BY <1>2, <1>3, <2>1, <2>4, <2>6, <2>7
<1>5. a # None => ComeLast(a, able, {})
  BY DEF ComeLast
<1>6. TurnOrder'
  BY <1>2, <1>4, <1>5, FS_EmptySet DEF TurnOrder
<1>7. QED BY <1>2, <1>6 DEF OrderInv, FreshLog, FullBoardAtShowdown

LEMMA InitOrderInv == Init => OrderInv
BY InitHandInv DEF Init, OrderInv, FreshLog, TurnOrder, FullBoardAtShowdown, BettingPhases

LEMMA NextOrderInv ==
  ASSUME OrderInv, [Next]_vars
  PROVE  OrderInv'
<1>1. HandInv /\ HandInv'
  BY NextHandInv DEF OrderInv
<1>2. CASE StartHand
  BY <1>1, <1>2, StartInOrder
<1>3. ASSUME NEW s \in Seats, Act(s) PROVE OrderInv'
  <2>1. /\ phase \in BettingPhases /\ actionIdx \in Seats /\ status[actionIdx] = "Active"
        /\ \E st, paid, bet, minR, raiser : GoodMove(st, paid, bet, minR, raiser)
                                            /\ Proceed(st, paid, bet, minR, raiser)
    BY <1>1, <1>3, ActMoves DEF MoveMade
  <2>2. QED BY <1>1, <2>1, MoveInOrder
<1>4. CASE UNCHANGED vars
  BY <1>1, <1>4 DEF OrderInv, FreshLog, TurnOrder, HaveMatched, FullBoardAtShowdown, ActiveSeats,
       LiveSeats, vars, tableVars, roundVars, seatVars
<1>5. QED BY <1>2, <1>3, <1>4 DEF Next

\* In every reachable state the order of the turn is kept.
THEOREM OrderCorrect == Spec => []OrderInv
<1>1. Init => OrderInv
  BY InitOrderInv
<1>2. OrderInv /\ [Next]_vars => OrderInv'
  BY NextOrderInv
<1>3. QED BY <1>1, <1>2, PTL DEF Spec

\* Hands are compared on a full board, or nobody was left who could bet
\* (endBettingRound).
THEOREM FullBoard == Spec => []FullBoardAtShowdown
<1>1. OrderInv => FullBoardAtShowdown
  BY DEF OrderInv
<1>2. QED BY <1>1, OrderCorrect, PTL

\* A round that closes has been bet out, in terms of what BetMade says of the step.
LEMMA RoundClosesEven ==
  ASSUME OrderInv, [Next]_vars, RoundCloses
  PROVE  /\ \A s \in ActiveSeats(status'), t \in LiveSeats(status') : BetMade(t) <= BetMade(s)
         /\ phase # "PreFlop" /\ acted \cup {actionIdx} \subseteq ActiveSeats(status') =>
              ActiveSeats(status') \subseteq acted \cup {actionIdx}
<1>1. HandInv /\ TurnOrder /\ phase \in BettingPhases /\ phase' # phase
      /\ Cardinality(LiveSeats(status')) > 1
  BY DEF OrderInv, RoundCloses
<1>2. PICK s \in Seats : Act(s)
  BY <1>1 DEF Next, StartHand, BettingPhases, vars, tableVars
<1>3. actionIdx \in Seats /\ status[actionIdx] = "Active" /\ MoveMade
  BY <1>1, <1>2, ActMoves
<1>4. PICK st, paid, bet, minR, raiser : GoodMove(st, paid, bet, minR, raiser)
                                         /\ Proceed(st, paid, bet, minR, raiser)
  BY <1>3 DEF MoveMade
<1>5. /\ status' = st /\ totalBet' = BetsAfter(paid)
      /\ \/ MoveEndsHand(st, paid, bet, minR, raiser)
         \/ MoveEndsRound(st, paid, bet, minR, raiser)
         \/ MovePassesTurn(st, paid, bet, minR, raiser)
  BY <1>1, <1>3, <1>4, MoveCases
<1>6. MoveEndsRound(st, paid, bet, minR, raiser)
  <2>1. Cardinality(LiveSeats(st)) \in Nat
    BY SeatSets DEF LiveSeats
  <2>2. QED BY <1>1, <1>5, <2>1 DEF MoveEndsHand, MovePassesTurn
<1> DEFINE next == NextActive(st, actionIdx)
<1>7. next # None => RoundComplete(st, next, RoundBetsAfter(paid)[next], bet, raiser,
                                   roundActionCount + 1)
  BY <1>6 DEF MoveEndsRound
<1>8. /\ \A u \in ActiveSeats(st) : RoundBetsAfter(paid)[u] = bet
      /\ \A u \in LiveSeats(st) : RoundBetsAfter(paid)[u] <= bet
      /\ phase # "PreFlop" /\ acted \cup {actionIdx} \subseteq ActiveSeats(st) =>
           ActiveSeats(st) \subseteq acted \cup {actionIdx}
  BY <1>1, <1>3, <1>4, <1>7, ClosedRoundIsEven
<1>9. ASSUME NEW u \in Seats PROVE BetMade(u) = RoundBetsAfter(paid)[u]
  <2>1. /\ currentBet \in [Seats -> Nat] /\ totalBet \in [Seats -> Nat] /\ stack \in [Seats -> Nat]
    BY <1>1 DEF HandInv, TypeOK
  <2>2. paid \in Nat
    BY <1>3, <1>4, <2>1 DEF GoodMove
  <2>3. totalBet'[u] = BetsAfter(paid)[u]
    BY <1>5
  <2>4. CASE u = actionIdx
    BY <2>1, <2>2, <2>3, <2>4 DEF BetMade, BetsAfter, RoundBetsAfter
  <2>5. CASE u # actionIdx
    BY <2>1, <2>2, <2>3, <2>5 DEF BetMade, BetsAfter, RoundBetsAfter
  <2>6. QED BY <2>4, <2>5
<1>10. \A u \in ActiveSeats(st), v \in LiveSeats(st) : BetMade(v) <= BetMade(u)
  <2>1. ActiveSeats(st) \subseteq Seats /\ LiveSeats(st) \subseteq Seats
    BY DEF ActiveSeats, LiveSeats
  <2>2. QED BY <1>8, <1>9, <2>1
<1>11. QED BY <1>5, <1>8, <1>10

\* Nobody sees the next card for less than the others (machine.go:141, "AND bets are
\* equalised"): the order of the turn and the count of actions are enough.
THEOREM BetsAreEqualised == Spec => BetsEqualised
<1>1. OrderInv /\ [Next]_vars =>
        [RoundCloses =>
           \A s \in ActiveSeats(status'), t \in LiveSeats(status') :
             BetMade(t) <= BetMade(s)]_vars
  BY RoundClosesEven
<1>2. QED BY <1>1, OrderCorrect, PTL DEF Spec, BetsEqualised

\* After the flop everyone who can still act has acted when the round closes, if all who
\* have acted can still act (machine.go:141).
THEOREM EveryoneHasActed == Spec => EveryoneActs
<1>1. OrderInv /\ [Next]_vars =>
        [RoundCloses /\ phase # "PreFlop" /\ acted \cup {actionIdx} \subseteq ActiveSeats(status') =>
           ActiveSeats(status') \subseteq acted \cup {actionIdx}]_vars
  BY RoundClosesEven
<1>2. QED BY <1>1, OrderCorrect, PTL DEF Spec, EveryoneActs

-----------------------------------------------------------------------------
(* What a move pays out.                                                   *)

\* The winnings of a hand that the statuses "st" and the bets "total" end.
HandWinnings(st, total, wins) ==
  \/ /\ Cardinality(LiveSeats(st)) <= 1
     /\ wins = SingleWinner(st, total)
  \/ /\ Cardinality(LiveSeats(st)) > 1
     /\ \E strength \in [LiveSeats(st) -> 1..Cardinality(LiveSeats(st))] :
          wins = DistributePots(CalculatePots(total), LiveSeats(st), strength, dealerIdx)

LEMMA MovePays ==
  ASSUME HandInv, phase \in BettingPhases, actionIdx \in Seats,
         NEW st, NEW paid, NEW bet, NEW minR, NEW raiser,
         GoodMove(st, paid, bet, minR, raiser), Proceed(st, paid, bet, minR, raiser)
  PROVE  /\ status' = st /\ totalBet' = BetsAfter(paid) /\ BetsAfter(paid) \in [Seats -> Nat]
         /\ \/ phase' \in BettingPhases /\ stack' = StacksAfter(paid) /\ UNCHANGED payouts
            \/ /\ phase' = "Settled"
               /\ \E wins \in [Seats -> Nat] :
                    /\ HandWinnings(st, BetsAfter(paid), wins)
                    /\ Settle(BetsAfter(paid), StacksAfter(paid), wins)
<1>1. /\ status' = st /\ totalBet' = BetsAfter(paid)
      /\ \/ MoveEndsHand(st, paid, bet, minR, raiser)
         \/ MoveEndsRound(st, paid, bet, minR, raiser)
         \/ MovePassesTurn(st, paid, bet, minR, raiser)
  BY MoveCases
<1>2. BetsAfter(paid) \in [Seats -> Nat]
  <2>1. paid \in 0..stack[actionIdx]
    BY DEF GoodMove
  <2>2. QED BY <2>1, MoveLedger
<1> DEFINE total == BetsAfter(paid)
           stk   == StacksAfter(paid)
<1>3. CASE MoveEndsHand(st, paid, bet, minR, raiser)
  <2>1. SingleWinner(st, total) \in [Seats -> Nat]
    BY <1>2, SingleWinnerType
  <2>2. HandWinnings(st, total, SingleWinner(st, total))
        /\ Settle(total, stk, SingleWinner(st, total))
    BY <1>3 DEF MoveEndsHand, HandWinnings
  <2>3. phase' = "Settled"
    BY <2>2 DEF Settle
  <2>4. QED BY <1>1, <1>2, <2>1, <2>2, <2>3
<1>4. CASE MoveEndsRound(st, paid, bet, minR, raiser)
  <2>1. \/ phase' \in BettingPhases /\ stack' = stk /\ UNCHANGED payouts
        \/ Showdown(st, total, stk) /\ phase' = "Settled"
    BY <1>1, <1>4, RoundEnds DEF MoveEndsRound, NextStreet, BettingPhases
  <2>2. ASSUME Showdown(st, total, stk)
        PROVE  \E wins \in [Seats -> Nat] : HandWinnings(st, total, wins) /\ Settle(total, stk, wins)
    <3>1. PICK strength \in [LiveSeats(st) -> 1..Cardinality(LiveSeats(st))] :
            Settle(total, stk, DistributePots(CalculatePots(total), LiveSeats(st), strength, dealerIdx))
      BY <2>2 DEF Showdown
    <3> DEFINE wins == DistributePots(CalculatePots(total), LiveSeats(st), strength, dealerIdx)
    <3>2. wins \in [Seats -> Nat]
      BY <1>2, DistributePotsType
    <3>3. HandWinnings(st, total, wins)
      BY <1>4 DEF MoveEndsRound, HandWinnings
    <3>4. Settle(total, stk, wins)
      BY <3>1
    <3> HIDE DEF wins
    <3>5. QED BY <3>2, <3>3, <3>4
  <2>3. QED BY <1>1, <1>2, <2>1, <2>2
<1>5. CASE MovePassesTurn(st, paid, bet, minR, raiser)
  BY <1>1, <1>2, <1>5 DEF MovePassesTurn
<1>6. QED BY <1>1, <1>3, <1>4, <1>5

\* A move leaves somebody in the hand.
LEMMA SomebodyIsLeft ==
  ASSUME HandInv, phase \in BettingPhases, actionIdx \in Seats,
         NEW st, \A s \in Seats \ {actionIdx} : st[s] = status[s]
  PROVE  LiveSeats(st) # {}
<1>1. LiveSeats(status) \subseteq Seats /\ Cardinality(LiveSeats(status)) > 1
  BY DEF HandInv, RoundDiscipline, LiveSeats
<1>2. ~(LiveSeats(status) \subseteq {actionIdx})
  <2> SUFFICES ASSUME LiveSeats(status) \subseteq {actionIdx} PROVE FALSE
    OBVIOUS
  <2>1. IsFiniteSet({actionIdx}) /\ Cardinality({actionIdx}) = 1
    BY FS_Singleton
  <2>2. Cardinality(LiveSeats(status)) <= 1 /\ Cardinality(LiveSeats(status)) \in Nat
    BY <1>1, <2>1, FS_Subset, FS_CardinalityType
  <2>3. QED BY <1>1, <2>2
<1>3. QED BY <1>1, <1>2 DEF LiveSeats

\* A seat that has folded wins nothing, however the hand ends.
LEMMA FoldedWinsNothing ==
  ASSUME NEW st, NEW total \in [Seats -> Nat], NEW wins, HandWinnings(st, total, wins),
         LiveSeats(st) # {}, NEW s \in Seats, st[s] = "Folded"
  PROVE  wins[s] = 0
<1>1. s \notin LiveSeats(st)
  BY DEF LiveSeats
<1>2. CASE wins = SingleWinner(st, total)
  <2>1. LiveSeats(st) \in SUBSET Nat
    BY SeatNumbers DEF LiveSeats
  <2>2. Min(LiveSeats(st)) \in LiveSeats(st)
    BY <2>1, MinOfNaturals
  <2>3. QED BY <1>1, <1>2, <2>2 DEF SingleWinner
<1>3. ASSUME NEW strength,
             wins = DistributePots(CalculatePots(total), LiveSeats(st), strength, dealerIdx)
      PROVE  wins[s] = 0
  <2> DEFINE P == CalculatePots(total)
             share == [l \in DOMAIN P |-> PotShare(P[l], s, LiveSeats(st), strength, dealerIdx)]
  <2>1. \A l \in DOMAIN P : share[l] = 0
    BY <1>1 DEF PotShare, PotWinners
  <2>2. wins[s] = SumFunction(share)
    BY <1>3 DEF DistributePots, Seats
  <2>3. DOMAIN share = PotLevels(total) /\ IsFiniteSet(PotLevels(total))
    BY CalculatePotsType, PotLevelsType
  <2>4. \A l \in PotLevels(total) : share[l] = 0
    BY <2>1, <2>3
  <2>5. share = [l \in PotLevels(total) |-> share[l]]
    BY <2>3
  <2> HIDE DEF share
  <2>6. share \in [PotLevels(total) -> Int]
    BY <2>4, <2>5
  <2>7. SumFunction(share) = SumFunctionOnSet(share, PotLevels(total))
    BY <2>3 DEF SumFunction
  <2>8. SumFunctionOnSet(share, PotLevels(total)) = SumFunctionOnSet(share, {})
    BY <2>3, <2>4, <2>6, SumZeroOutside
  <2>9. QED BY <2>2, <2>7, <2>8, SumEmpty
<1>4. QED BY <1>2, <1>3 DEF HandWinnings

\* A seat that has folded or is all-in is out of the betting for good.
THEOREM OutForGood == Spec => OutOfBetting
<1>1. ASSUME HandInv, [Next]_vars
      PROVE  [\A s \in Seats : phase \in BettingPhases /\ status[s] # "Active" =>
                /\ status'[s] = status[s]
                /\ totalBet'[s] = totalBet[s]
                /\ (status[s] = "Folded" \/ phase' # "Settled") => stack'[s] = stack[s]]_vars
  <2> SUFFICES ASSUME NEW s \in Seats, phase \in BettingPhases, status[s] # "Active",
                      ~ UNCHANGED vars
               PROVE  /\ status'[s] = status[s]
                      /\ totalBet'[s] = totalBet[s]
                      /\ (status[s] = "Folded" \/ phase' # "Settled") => stack'[s] = stack[s]
    OBVIOUS
  <2>1. PICK a \in Seats : Act(a)
    BY <1>1 DEF Next, StartHand, BettingPhases
  <2>2. actionIdx \in Seats /\ status[actionIdx] = "Active" /\ MoveMade
    BY <1>1, <2>1, ActMoves
  <2>3. PICK st, paid, bet, minR, raiser : GoodMove(st, paid, bet, minR, raiser)
                                           /\ Proceed(st, paid, bet, minR, raiser)
    BY <2>2 DEF MoveMade
  <2>4. /\ status' = st /\ totalBet' = BetsAfter(paid) /\ BetsAfter(paid) \in [Seats -> Nat]
        /\ \/ phase' \in BettingPhases /\ stack' = StacksAfter(paid) /\ UNCHANGED payouts
           \/ /\ phase' = "Settled"
              /\ \E wins \in [Seats -> Nat] :
                   /\ HandWinnings(st, BetsAfter(paid), wins)
                   /\ Settle(BetsAfter(paid), StacksAfter(paid), wins)
    BY <1>1, <2>2, <2>3, MovePays
  <2>5. s # actionIdx /\ st[s] = status[s]
    BY <2>2, <2>3 DEF GoodMove
  <2>6. StacksAfter(paid)[s] = stack[s] /\ BetsAfter(paid)[s] = totalBet[s] /\ stack[s] \in Nat
    <3>1. totalBet \in [Seats -> Nat] /\ stack \in [Seats -> Nat]
      BY <1>1 DEF HandInv, TypeOK
    <3>2. QED BY <2>5, <3>1 DEF StacksAfter, BetsAfter
  <2>7. ASSUME status[s] = "Folded", phase' = "Settled" PROVE stack'[s] = stack[s]
    <3>1. PICK wins \in [Seats -> Nat] : /\ HandWinnings(st, BetsAfter(paid), wins)
                                         /\ Settle(BetsAfter(paid), StacksAfter(paid), wins)
      BY <2>4, <2>7 DEF BettingPhases
    <3>2. LiveSeats(st) # {}
      BY <1>1, <2>2, <2>3, SomebodyIsLeft DEF GoodMove
    <3>3. wins[s] = 0
      BY <2>4, <2>5, <2>7, <3>1, <3>2, FoldedWinsNothing
    <3>4. stack'[s] = StacksAfter(paid)[s] + wins[s]
      BY <3>1 DEF Settle
    <3>5. QED BY <2>6, <3>3, <3>4
  <2>8. phase' # "Settled" => stack'[s] = stack[s]
    BY <2>4, <2>6
  <2>9. QED BY <2>4, <2>5, <2>6, <2>7, <2>8
<1>2. QED BY <1>1, HandCorrect, PTL DEF Spec, OutOfBetting

-----------------------------------------------------------------------------
(* What the terminal client lets out.                                      *)

\* What no key changes: the panel shows the state it was made from.
PanelFields == {"toCall", "minRaise", "stack", "canCheck", "selected", "raiseInput", "inputActive"}

GoodPanel(s, w) ==
  /\ w = [x \in PanelFields |-> w[x]]
  /\ w.toCall \in Nat /\ ToCall(s) <= w.toCall /\ (w.toCall # 0 => w.toCall = ToCall(s))
  /\ w.canCheck = (w.toCall = 0)
  /\ w.minRaise = minRaise /\ w.stack = stack[s]
  /\ w.selected \in 0..3 /\ w.raiseInput \in Int

LEMMA KeysKeepPanel ==
  ASSUME TypeOK, NEW s \in Seats, NEW w, GoodPanel(s, w), NEW v \in handleBettingKey(w)
  PROVE  GoodPanel(s, v)
<1>1. /\ DOMAIN w = PanelFields /\ w.toCall \in Nat /\ ToCall(s) <= w.toCall
      /\ (w.toCall # 0 => w.toCall = ToCall(s)) /\ w.canCheck = (w.toCall = 0)
      /\ w.minRaise = minRaise /\ w.stack = stack[s] /\ w.selected \in 0..3 /\ w.raiseInput \in Int
      /\ minRaise \in Int /\ stack[s] \in Nat /\ tableBet \in Nat
  BY DEF GoodPanel, TypeOK
<1>2. \/ v \in Typed(w)
      \/ v = [w EXCEPT !.inputActive = FALSE]
      \/ v = [w EXCEPT !.inputActive = FALSE, !.raiseInput = Empty]
      \/ v = SelectNext(w)
      \/ v = SelectPrev(w)
      \/ v = ActivateInput(w)
      \/ \E i \in {0, 1, 3} : v = [w EXCEPT !.selected = i]
  BY DEF handleBettingKey
<1>3. CASE v \in Typed(w)
  <2>1. PICK a \in Amounts(w) : v = [w EXCEPT !.raiseInput = a]
    BY <1>3 DEF Typed
  <2>2. a \in Int
    BY <1>1 DEF Amounts, Empty
  <2>3. QED BY <1>1, <2>1, <2>2 DEF GoodPanel, PanelFields
<1>4. CASE v = [w EXCEPT !.inputActive = FALSE]
  BY <1>1, <1>4 DEF GoodPanel, PanelFields
<1>5. CASE v = [w EXCEPT !.inputActive = FALSE, !.raiseInput = Empty]
  <2>1. v = [w EXCEPT !.inputActive = FALSE, !.raiseInput = -1]
    BY <1>5 DEF Empty
  <2>2. /\ DOMAIN v = PanelFields /\ v = [x \in PanelFields |-> v[x]]
        /\ v.toCall = w.toCall /\ v.canCheck = w.canCheck /\ v.minRaise = w.minRaise /\ v.stack = w.stack
        /\ v.selected = w.selected /\ v.raiseInput = -1
    BY <1>1, <2>1 DEF PanelFields
  <2>3. QED BY <1>1, <2>2 DEF GoodPanel
<1>6. CASE v = SelectNext(w)
  <2>1. (w.selected + 1) % 4 \in 0..3
    BY <1>1
  <2>2. QED BY <1>1, <1>6, <2>1 DEF SelectNext, GoodPanel, PanelFields
<1>7. CASE v = SelectPrev(w)
  <2>1. (w.selected + 3) % 4 \in 0..3
    BY <1>1
  <2>2. QED BY <1>1, <1>7, <2>1 DEF SelectPrev, GoodPanel, PanelFields
<1>8. CASE v = ActivateInput(w)
  <2>1. PICK inp \in Int : inp = IF w.raiseInput = Empty THEN w.minRaise ELSE w.raiseInput
    BY <1>1
  <2>2. v = [w EXCEPT !.selected = 2, !.inputActive = TRUE, !.raiseInput = inp]
    BY <1>8, <2>1 DEF ActivateInput
  <2>3. /\ DOMAIN v = PanelFields /\ v = [x \in PanelFields |-> v[x]]
        /\ v.toCall = w.toCall /\ v.canCheck = w.canCheck /\ v.minRaise = w.minRaise /\ v.stack = w.stack
        /\ v.selected = 2 /\ v.raiseInput = inp
    BY <1>1, <2>2 DEF PanelFields
  <2>4. QED BY <1>1, <2>1, <2>3 DEF GoodPanel
<1>9. CASE \E i \in {0, 1, 3} : v = [w EXCEPT !.selected = i]
  BY <1>1, <1>9 DEF GoodPanel, PanelFields
<1>10. QED BY <1>2, <1>3, <1>4, <1>5, <1>6, <1>7, <1>8, <1>9

\* The panels that at most four keys lead to.
LEMMA PanelsAreGood ==
  ASSUME TypeOK, NEW s \in Seats
  PROVE  \A w \in Panels(s) : GoodPanel(s, w)
<1> DEFINE more(X) == X \cup UNION {handleBettingKey(w) : w \in X}
           body(g) == [k \in 0..4 |-> IF k = 0 THEN {NewBetInputState(s)} ELSE more(g[k - 1])]
           p  == CHOOSE g : g = body(g)
           X0 == {NewBetInputState(s)}
           X1 == more(X0)
           X2 == more(X1)
           X3 == more(X2)
           X4 == more(X3)
           g0 == [k \in 0..4 |-> IF k = 0 THEN X0 ELSE IF k = 1 THEN X1 ELSE IF k = 2 THEN X2
                                 ELSE IF k = 3 THEN X3 ELSE X4]
<1>1. Panels(s) = p[4]
  BY DEF Panels
<1>2. g0 = body(g0)
  <2>1. \A k \in 0..4 : g0[k] = body(g0)[k]
    <3> HIDE DEF more, X0, X1, X2, X3, X4
    <3>1. /\ g0[0] = X0 /\ g0[1] = X1 /\ g0[2] = X2 /\ g0[3] = X3 /\ g0[4] = X4
      OBVIOUS
    <3> HIDE DEF g0
    <3>2. /\ body(g0)[0] = X0 /\ body(g0)[1] = more(X0) /\ body(g0)[2] = more(X1)
          /\ body(g0)[3] = more(X2) /\ body(g0)[4] = more(X3)
      BY <3>1 DEF X0
    <3> HIDE DEF body
    <3>3. \A k \in 0..4 : k = 0 \/ k = 1 \/ k = 2 \/ k = 3 \/ k = 4
      OBVIOUS
    <3>4. QED BY <3>1, <3>2, <3>3 DEF X1, X2, X3, X4
  <2>2. g0 = [k \in 0..4 |-> g0[k]] /\ body(g0) = [k \in 0..4 |-> body(g0)[k]]
    OBVIOUS
  <2> HIDE DEF g0, body
  <2>3. QED BY <2>1, <2>2
<1>3. p = body(p)
  <2> HIDE DEF g0, body
  <2>1. QED BY <1>2
<1> HIDE DEF p
<1>4. p[0] = X0 /\ p[1] = more(p[0]) /\ p[2] = more(p[1]) /\ p[3] = more(p[2]) /\ p[4] = more(p[3])
  <2> HIDE DEF more, X0
  <2>1. \A k \in 0..4 : p[k] = IF k = 0 THEN {NewBetInputState(s)} ELSE more(p[k - 1])
    BY <1>3
  <2>2. QED BY <2>1 DEF X0
<1>5. ASSUME NEW X, \A w \in X : GoodPanel(s, w)
      PROVE  \A w \in more(X) : GoodPanel(s, w)
  BY <1>5, KeysKeepPanel
<1>6. GoodPanel(s, NewBetInputState(s))
  <2>1. /\ ToCall(s) \in Int /\ minRaise \in Nat /\ stack[s] \in Nat
    BY DEF TypeOK, ToCall
  <2>2. QED BY <2>1 DEF NewBetInputState, GoodPanel, PanelFields, Empty
<1>7. \A w \in p[0] : GoodPanel(s, w)
  BY <1>4, <1>6
<1> HIDE DEF more, X0
<1>8. QED BY <1>1, <1>4, <1>5, <1>7

\* A confirmed action is one of the five kinds, and a raise is within the stack
\* (Validate in bet_input.go), so the engine takes it as a covered action.
LEMMA ConfirmedIsCovered ==
  ASSUME TypeOK, NEW s \in Seats, ConfirmedAct(s)
  PROVE  CoveredAct(s)
<1>1. PICK a \in Submitted(s) : ApplyAction(s, a)
  BY DEF ConfirmedAct
<1>2. PICK w \in Panels(s) : a = Confirm(w) /\ a # Refused
  BY <1>1 DEF Submitted
<1>3. GoodPanel(s, w)
  BY <1>2, PanelsAreGood
<1>4. minRaise \in Nat /\ stack[s] \in Nat /\ ToCall(s) \in Int
  BY DEF TypeOK, ToCall
<1>5. a.type = "Raise" => a.amount \in Int /\ ToCall(s) + a.amount <= stack[s]
  <2> SUFFICES ASSUME a.type = "Raise"
               PROVE  a.amount \in Int /\ ToCall(s) + a.amount <= stack[s]
    OBVIOUS
  <2>1. /\ w.toCall \in Nat /\ ToCall(s) <= w.toCall /\ w.minRaise = minRaise /\ w.stack = stack[s]
        /\ w.selected \in 0..3 /\ w.raiseInput \in Int
    BY <1>3 DEF GoodPanel
  <2>2. w.selected = 2
    <3>1. w.selected = 0 => a = [type |-> "Fold"]
      BY <1>2 DEF Confirm
    <3>2. w.selected = 1 => a = [type |-> IF w.canCheck THEN "Check" ELSE "Call"]
      BY <1>2 DEF Confirm
    <3>3. w.selected = 3 => a = [type |-> "AllIn"]
      BY <1>2 DEF Confirm
    <3>4. QED BY <2>1, <3>1, <3>2, <3>3
  <2> DEFINE amount == IF w.raiseInput = Empty THEN w.minRaise ELSE w.raiseInput
  <2>3. a = ConfirmRaise(w, amount)
    BY <1>2, <2>2 DEF Confirm
  <2>4. amount \in Int
    BY <1>4, <2>1
  <2> HIDE DEF amount
  <2>5. a = [type |-> "Raise", amount |-> amount] /\ ~(amount + w.toCall > w.stack)
    BY <1>2, <2>3 DEF ConfirmRaise
  <2>6. QED BY <1>4, <2>1, <2>4, <2>5
<1>6. QED BY <1>1, <1>5 DEF ApplyAction, CoveredAct

\* What the player confirms meets the conditions of the engine.
LEMMA SubmittedIsAccepted ==
  ASSUME TypeOK, RoundDiscipline
  PROVE  ConfirmedIsLegal
<1> SUFFICES ASSUME NEW s \in Seats, MayAct(s), NEW a \in Submitted(s)
             PROVE  Accepts(s, a)
  BY DEF ConfirmedIsLegal
<1>1. PICK w \in Panels(s) : a = Confirm(w) /\ a # Refused
  BY DEF Submitted
<1>2. /\ w.toCall \in Nat /\ ToCall(s) <= w.toCall /\ (w.toCall # 0 => w.toCall = ToCall(s))
      /\ w.canCheck = (w.toCall = 0)
      /\ w.minRaise = minRaise /\ w.stack = stack[s] /\ w.selected \in 0..3 /\ w.raiseInput \in Int
  BY <1>1, PanelsAreGood DEF GoodPanel
<1>3. /\ ToCall(s) \in Int /\ ToCall(s) >= 0
      /\ minRaise \in Nat /\ stack[s] \in Nat /\ currentBet[s] \in Nat
  <2>1. minRaise \in Nat /\ tableBet \in Nat /\ stack[s] \in Nat /\ currentBet[s] \in Nat
    BY DEF TypeOK
  <2>2. s \in LiveSeats(status)
    BY DEF MayAct, LiveSeats
  <2>3. currentBet[s] <= tableBet
    BY <2>2 DEF MayAct, RoundDiscipline
  <2>4. QED BY <2>1, <2>3 DEF ToCall
<1>4. CASE w.selected = 0
  <2>1. a = [type |-> "Fold"]
    BY <1>1, <1>4 DEF Confirm
  <2>2. QED BY <2>1 DEF Accepts
<1>5. CASE w.selected = 3
  <2>1. a = [type |-> "AllIn"]
    BY <1>1, <1>5 DEF Confirm
  <2>2. QED BY <2>1 DEF Accepts
<1>6. CASE w.selected = 1
  <2>1. a = [type |-> IF w.canCheck THEN "Check" ELSE "Call"]
    BY <1>1, <1>6 DEF Confirm
  <2>2. CASE w.toCall = 0
    <3>1. a = [type |-> "Check"]
      BY <1>2, <2>1, <2>2
    <3>2. ToCall(s) = 0
      BY <1>2, <1>3, <2>2
    <3>3. QED BY <3>1, <3>2 DEF Accepts, MayCheck
  <2>3. CASE w.toCall # 0
    <3>1. a = [type |-> "Call"]
      BY <1>2, <2>1, <2>3
    <3>2. ToCall(s) > 0
      BY <1>2, <1>3, <2>3
    <3>3. QED BY <3>1, <3>2 DEF Accepts, MayCall
  <2>4. QED BY <2>2, <2>3
<1>7. CASE w.selected = 2
  <2> DEFINE amount == IF w.raiseInput = Empty THEN w.minRaise ELSE w.raiseInput
  <2>1. a = ConfirmRaise(w, amount)
    BY <1>1, <1>7 DEF Confirm
  <2>2. amount \in Int
    BY <1>2, <1>3
  <2> HIDE DEF amount
  <2>3. /\ a = [type |-> "Raise", amount |-> amount]
        /\ ~(amount < w.minRaise) /\ ~(amount + w.toCall > w.stack)
    BY <1>1, <2>1 DEF ConfirmRaise
  <2>4. amount >= minRaise /\ ToCall(s) + amount <= stack[s] + currentBet[s]
    BY <1>2, <1>3, <2>2, <2>3
  <2>5. QED BY <2>3, <2>4 DEF Accepts, MayRaise
<1>8. QED BY <1>2, <1>4, <1>5, <1>6, <1>7

-----------------------------------------------------------------------------
(* What a hand pays when it ends, by the engine alone.                     *)

LEMMA SingleWinnerPays ==
  ASSUME NEW total \in [Seats -> Nat], NEW st, LiveSeats(st) # {}
  PROVE  /\ SumFunction(SingleWinner(st, total)) = SumFunction(total)
         /\ Min(LiveSeats(st)) \in LiveSeats(st)
<1> DEFINE h    == Min(LiveSeats(st))
           wins == SingleWinner(st, total)
           pot  == TotalPot(CalculatePots(total))
<1>1. h \in LiveSeats(st) /\ h \in Seats
  <2>1. LiveSeats(st) \in SUBSET Nat /\ LiveSeats(st) \subseteq Seats
    BY SeatSets DEF LiveSeats
  <2>2. QED BY <2>1, MinOfNaturals
<1>2. pot = SumFunction(total) /\ pot \in Nat
  BY PotsHoldBets, TotalPotType
<1>3. wins = [s \in Seats |-> IF s = h THEN pot ELSE 0]
  BY DEF SingleWinner
<1> HIDE DEF h, pot, wins
<1>4. wins \in [Seats -> Int] /\ wins[h] = pot /\ \A s \in Seats \ {h} : wins[s] = 0
  BY <1>1, <1>2, <1>3
<1>5. SumFunctionOnSet(wins, Seats) = SumFunctionOnSet(wins, {h})
  <2>1. {h} \in SUBSET Seats /\ \A s \in Seats \ {h} : wins[s] = 0
    BY <1>1, <1>4
  <2>2. QED BY <1>4, <2>1, SeatSets, SumZeroOutside
<1>6. SumFunctionOnSet(wins, {h}) = pot
  <2>1. {} \in SUBSET Seats /\ IsFiniteSet({}) /\ h \notin {} /\ {} \cup {h} = {h}
    BY FS_EmptySet
  <2>2. SumFunctionOnSet(wins, {} \cup {h}) = wins[h] + SumFunctionOnSet(wins, {})
    BY <1>1, <1>4, <2>1, SumInsert
  <2>3. QED BY <1>2, <1>4, <2>1, <2>2, SumEmpty
<1>7. SumFunction(wins) = SumFunctionOnSet(wins, Seats)
  BY <1>4 DEF SumFunction
<1>8. QED BY <1>1, <1>2, <1>5, <1>6, <1>7 DEF h, wins

\* While the hand is played nobody has been paid.
UnpaidYet == phase # "Settled" => \A s \in Seats : payouts[s] = 0

\* What the end of the hand pays is what the seats have been paid.
LEMMA PayoutsAreWinnings ==
  ASSUME HandInv, UnpaidYet, phase \in BettingPhases, NEW total, NEW stk,
         NEW wins \in [Seats -> Nat], Settle(total, stk, wins)
  PROVE  payouts' = wins
<1>1. payouts' = [s \in Seats |-> payouts[s] + wins[s]]
  BY DEF Settle
<1>2. \A s \in Seats : payouts[s] = 0
  BY DEF UnpaidYet, BettingPhases
<1>3. \A s \in Seats : payouts[s] + wins[s] = wins[s]
  BY <1>2
<1>4. QED BY <1>1, <1>3

\* A move either pays nobody or leaves only dead pots unpaid.
LEMMA MoveLeavesDeadPots ==
  ASSUME HandInv, UnpaidYet, phase \in BettingPhases, actionIdx \in Seats,
         NEW st, NEW paid, NEW bet, NEW minR, NEW raiser,
         GoodMove(st, paid, bet, minR, raiser), Proceed(st, paid, bet, minR, raiser)
  PROVE  UnpaidYet' /\ OnlyDeadPotsUnpaid'
<1> DEFINE total == BetsAfter(paid)
           live  == LiveSeats(st)
<1>1. /\ status' = st /\ totalBet' = total /\ total \in [Seats -> Nat]
      /\ \/ phase' \in BettingPhases /\ UNCHANGED payouts
         \/ /\ phase' = "Settled"
            /\ \E wins \in [Seats -> Nat] : /\ HandWinnings(st, total, wins)
                                            /\ Settle(total, StacksAfter(paid), wins)
  BY MovePays
<1>2. CASE phase' \in BettingPhases /\ UNCHANGED payouts
  BY <1>2 DEF UnpaidYet, OnlyDeadPotsUnpaid, BettingPhases
<1>3. ASSUME phase' = "Settled", NEW wins \in [Seats -> Nat], HandWinnings(st, total, wins),
             Settle(total, StacksAfter(paid), wins)
      PROVE  UnpaidYet' /\ OnlyDeadPotsUnpaid'
  <2>1. payouts' = wins
    BY <1>3, PayoutsAreWinnings
  <2>2. pots' = CalculatePots(total)
    BY <1>3 DEF Settle
  <2>3. SUFFICES ASSUME Cardinality(live) > 1
                 PROVE  SumFunction(total) - SumFunction(wins)
                          = SumFunction([l \in DeadPots(CalculatePots(total), live) |->
                                           CalculatePots(total)[l].amount])
    BY <1>1, <1>3, <2>1, <2>2 DEF UnpaidYet, OnlyDeadPotsUnpaid, DeadPots
  <2>4. Cardinality(live) \in Nat /\ live \in SUBSET Seats /\ dealerIdx \in Seats
    BY SeatSets DEF LiveSeats, HandInv, TypeOK
  <2>5. PICK strength \in [live -> 1..Cardinality(live)] :
          wins = DistributePots(CalculatePots(total), live, strength, dealerIdx)
    BY <1>3, <2>3, <2>4 DEF HandWinnings
  <2>6. strength \in [live -> Nat]
    BY <2>4
  <2> HIDE DEF live, total
  <2>7. QED BY <1>1, <2>4, <2>5, <2>6, ShowdownPays
<1>4. QED BY <1>1, <1>2, <1>3

\* Whoever calls the engine, the chips that a settled hand fails to pay are exactly those
\* of the pots all of whose contributors have folded (distributePots).
THEOREM DeadPotsOnly == Spec => []OnlyDeadPotsUnpaid
<1>1. Init => UnpaidYet /\ OnlyDeadPotsUnpaid
  BY DEF Init, UnpaidYet, OnlyDeadPotsUnpaid
<1>2. HandInv /\ UnpaidYet /\ OnlyDeadPotsUnpaid /\ [Next]_vars
        => UnpaidYet' /\ OnlyDeadPotsUnpaid'
  <2> SUFFICES ASSUME HandInv, UnpaidYet, OnlyDeadPotsUnpaid, [Next]_vars
               PROVE  UnpaidYet' /\ OnlyDeadPotsUnpaid'
    OBVIOUS
  <2>1. CASE StartHand
    BY <2>1 DEF StartHand, UnpaidYet, OnlyDeadPotsUnpaid
  <2>2. ASSUME NEW s \in Seats, Act(s) PROVE UnpaidYet' /\ OnlyDeadPotsUnpaid'
    <3>1. MoveMade /\ phase \in BettingPhases /\ actionIdx \in Seats
      BY <2>2, ActMoves
    <3>2. QED BY <3>1, MoveLeavesDeadPots DEF MoveMade
  <2>3. CASE UNCHANGED vars
    BY <2>3 DEF UnpaidYet, OnlyDeadPotsUnpaid, LiveSeats, vars, tableVars, roundVars, seatVars
  <2>4. QED BY <2>1, <2>2, <2>3 DEF Next
<1>3. QED BY <1>1, <1>2, HandCorrect, PTL DEF Spec

\* The end of a hand that a seat still in it leads: every chip is paid, and nobody wins
\* more than the others match of its bet.
Leads(st, total, h) == h \in LiveSeats(st) /\ \A u \in Seats : total[u] <= total[h]

LEMMA LedHandIsPaid ==
  ASSUME NEW st, NEW total \in [Seats -> Nat], NEW wins \in [Seats -> Nat], dealerIdx \in Seats,
         HandWinnings(st, total, wins), NEW h, Leads(st, total, h)
  PROVE  /\ SumFunction(wins) = SumFunction(total)
         /\ \A s \in Seats : wins[s] <= SumFunction(MatchedBets(total, s))
<1> DEFINE live == LiveSeats(st)
           P    == CalculatePots(total)
<1>1. /\ h \in live /\ h \in Seats /\ \A u \in Seats : total[u] <= total[h]
      /\ live \in SUBSET Seats /\ live # {} /\ IsFiniteSet(live) /\ Cardinality(live) \in Nat
  BY SeatSets DEF Leads, LiveSeats
<1>2. CASE Cardinality(live) <= 1 /\ wins = SingleWinner(st, total)
  <2>1. SumFunction(wins) = SumFunction(total) /\ Min(live) \in live
    BY <1>1, <1>2, SingleWinnerPays
  <2>2. live = {h}
    <3>1. \A x \in live : x = h
      <4> SUFFICES ASSUME NEW x \in live, x # h PROVE FALSE
        OBVIOUS
      <4>1. {x, h} \in SUBSET live /\ Cardinality({x, h}) = 2
        <5>1. IsFiniteSet({x}) /\ Cardinality({x}) = 1 /\ h \notin {x} /\ {x} \cup {h} = {x, h}
          BY FS_Singleton
        <5>2. Cardinality({x} \cup {h}) = Cardinality({x}) + 1
          BY <5>1, FS_AddElement
        <5>3. QED BY <1>1, <5>1, <5>2
      <4>2. Cardinality({x, h}) <= Cardinality(live)
        BY <1>1, <4>1, FS_Subset
      <4> HIDE DEF live
      <4>3. QED BY <1>1, <1>2, <4>1, <4>2
    <3>2. QED BY <1>1, <3>1
  <2>3. \A s \in Seats : s # h => wins[s] = 0
    BY <1>2, <2>1, <2>2 DEF SingleWinner
  <2>4. ASSUME NEW s \in Seats PROVE /\ MatchedBets(total, s) \in [Seats -> Int]
                                     /\ SumFunction(MatchedBets(total, s)) \in Nat
    <3> DEFINE m == MatchedBets(total, s)
    <3>1. m \in [Seats -> Nat]
      BY DEF MatchedBets
    <3>2. m \in [Seats -> Int] /\ SumFunction(m) = SumFunctionOnSet(m, Seats)
      BY <3>1 DEF SumFunction
    <3> HIDE DEF m
    <3>3. \A S : S = Seats => S \in SUBSET Seats
      OBVIOUS
    <3>4. SumFunctionOnSet(m, Seats) \in Nat
      BY <3>1, <3>3, SeatSets, SumType
    <3>5. QED BY <3>2, <3>4 DEF m
  <2>5. MatchedBets(total, h) = total
    <3>1. \A u \in Seats : (IF total[u] < total[h] THEN total[u] ELSE total[h]) = total[u]
      BY <1>1
    <3>2. QED BY <3>1 DEF MatchedBets
  <2>6. wins[h] <= SumFunction(wins)
    <3>1. wins[h] = TotalPot(P)
      BY <1>1, <1>2, <2>1, <2>2 DEF SingleWinner
    <3>2. TotalPot(P) = SumFunction(total) /\ TotalPot(P) \in Nat
      BY PotsHoldBets, TotalPotType
    <3>3. QED BY <2>1, <3>1, <3>2
  <2>7. QED BY <1>1, <2>1, <2>3, <2>4, <2>5, <2>6
<1>3. CASE \E strength \in [live -> 1..Cardinality(live)] :
             wins = DistributePots(P, live, strength, dealerIdx)
  <2>1. PICK strength \in [live -> 1..Cardinality(live)] :
          wins = DistributePots(P, live, strength, dealerIdx)
    BY <1>3
  <2>2. strength \in [live -> Nat]
    BY <1>1
  <2>3. DeadPots(P, live) = {}
    <3> SUFFICES ASSUME NEW l \in DOMAIN P PROVE h \in P[l].eligible \cap live
      BY DEF DeadPots
    <3>1. l \in PotLevels(total) /\ P[l].eligible = Contributors(total, l)
      BY DEF CalculatePots
    <3>2. PICK u \in Seats : l = total[u]
      BY <3>1 DEF PotLevels
    <3>3. h \in Contributors(total, l)
      BY <1>1, <3>2 DEF Contributors
    <3>4. QED BY <1>1, <3>1, <3>3
  <2> HIDE DEF live, P
  <2>4. SumFunction(DistributePots(P, live, strength, dealerIdx)) = SumFunction(total)
    <3>1. live \in SUBSET Seats /\ strength \in [live -> Nat] /\ dealerIdx \in Seats
      BY <1>1, <2>2
    <3>2. ASSUME NEW lv \in SUBSET Seats, NEW str \in [lv -> Nat],
                 DeadPots(CalculatePots(total), lv) = {}
          PROVE  SumFunction(DistributePots(CalculatePots(total), lv, str, dealerIdx))
                   = SumFunction(total)
      <4>1. LET Q == CalculatePots(total)
                D == DistributePots(Q, lv, str, dealerIdx)
            IN  /\ D \in [Seats -> Nat]
                /\ SumFunction(total) - SumFunction(D)
                     = SumFunction([l \in DeadPots(Q, lv) |-> Q[l].amount])
                /\ DeadPots(Q, lv) = {} => SumFunction(D) = SumFunction(total)
        BY ShowdownPays
      <4>2. QED BY <3>2, <4>1
    <3>3. QED BY <2>3, <3>1, <3>2 DEF P
  <2>5. \A s \in Seats : wins[s] <= SumFunction(MatchedBets(total, s))
    BY <2>1, WinsWhatIsMatched DEF P
  <2>6. QED BY <2>1, <2>4, <2>5
<1>4. QED BY <1>2, <1>3 DEF HandWinnings

-----------------------------------------------------------------------------
(* Why a table of covered bets leaves no dead pot: the levels of the bets. *)
(* What a seat had bet before this round is "before"; no seat that can     *)
(* still bet went into the round with less than another, nobody has bet    *)
(* more than such a seat would by matching the bet, and somebody still in  *)
(* the hand leads.                                                         *)

Before(total, cb, s) == total[s] - cb[s]

Deep(st, total, cb) ==
  \A s \in ActiveSeats(st), t \in LiveSeats(st) : Before(total, cb, t) <= Before(total, cb, s)

Reach(st, total, cb, bet) ==
  \A s \in ActiveSeats(st), u \in Seats : total[u] <= Before(total, cb, s) + bet

Leader(st, total, cb, bet, h) ==
  /\ Leads(st, total, h)
  /\ \A s \in ActiveSeats(st) : Before(total, cb, s) + bet <= total[h]

Level(st, total, cb, bet) ==
  /\ Deep(st, total, cb)
  /\ Reach(st, total, cb, bet)
  /\ \E h \in Seats : Leader(st, total, cb, bet, h)

\* A seat that is asked for a move nobody can answer, with nothing to call, is not the
\* only leader: it may fold.  Two seats are an exception, the small blind being all-in.
SoleCaller ==
  /\ actionIdx \in Seats
  /\ ActiveSeats(status) = {actionIdx}
  /\ currentBet[actionIdx] >= tableBet
  => N = 2 \/ \E h \in Seats \ {actionIdx} : Leads(status, totalBet, h)

LevelInv ==
  phase \in BettingPhases => Level(status, totalBet, currentBet, tableBet) /\ SoleCaller

\* What the move of a seat does to the levels.
LEMMA MoveKeepsLevel ==
  ASSUME HandInv, TurnOrder, LevelInv, phase \in BettingPhases, actionIdx \in Seats,
         status[actionIdx] = "Active",
         NEW st, NEW paid, NEW bet, NEW minR, NEW raiser,
         GoodMove(st, paid, bet, minR, raiser), Covered(paid, bet)
  PROVE  /\ Deep(st, BetsAfter(paid), RoundBetsAfter(paid))
         /\ Reach(st, BetsAfter(paid), RoundBetsAfter(paid), bet)
         /\ \/ N = 2 /\ st[actionIdx] = "Folded"
            \/ \E h \in Seats : Leader(st, BetsAfter(paid), RoundBetsAfter(paid), bet, h)
<1> DEFINE a == actionIdx
           T == BetsAfter(paid)
           C == RoundBetsAfter(paid)
           able == ActiveSeats(status)
           live == LiveSeats(status)
           b(s) == totalBet[s] - currentBet[s]
<1>1. /\ totalBet \in [Seats -> Nat] /\ currentBet \in [Seats -> Nat] /\ tableBet \in Nat
      /\ bet \in Nat /\ paid \in Nat /\ tableBet <= bet
      /\ \A s \in live : currentBet[s] <= tableBet
  BY DEF HandInv, TypeOK, RoundDiscipline, GoodMove
<1>2. /\ T[a] = totalBet[a] + paid /\ C[a] = currentBet[a] + paid
      /\ \A s \in Seats \ {a} : T[s] = totalBet[s] /\ C[s] = currentBet[s]
  BY <1>1 DEF BetsAfter, RoundBetsAfter
<1>3. /\ able \subseteq live /\ live \subseteq Seats /\ a \in able
      /\ ActiveSeats(st) \subseteq able /\ LiveSeats(st) \subseteq live
      /\ \A s \in live \ {a} : s \in LiveSeats(st)
      /\ a \in LiveSeats(st) <=> st[a] # "Folded"
      /\ ActiveSeats(st) \subseteq LiveSeats(st)
  BY DEF GoodMove, ActiveSeats, LiveSeats
<1>4. /\ \A s \in able, t \in live : b(t) <= b(s)
      /\ \A s \in able, u \in Seats : totalBet[u] <= b(s) + tableBet
  BY DEF LevelInv, Level, Deep, Reach, Before
<1>5. PICK h \in live : /\ \A u \in Seats : totalBet[u] <= totalBet[h]
                        /\ \A s \in able : b(s) + tableBet <= totalBet[h]
  BY DEF LevelInv, Level, Leader, Leads, Before
<1>6. /\ \A s \in Seats : b(s) \in Int /\ totalBet[s] = b(s) + currentBet[s]
      /\ \A s \in Seats : totalBet[s] \in Nat /\ currentBet[s] \in Nat
  BY <1>1
<1> HIDE DEF T, C, able, live
<1>7. \A s \in Seats : T[s] - C[s] = b(s) /\ T[s] \in Nat /\ T[s] = b(s) + C[s] /\ T[s] >= totalBet[s]
  <2> SUFFICES ASSUME NEW s \in Seats
               PROVE  T[s] - C[s] = b(s) /\ T[s] \in Nat /\ T[s] = b(s) + C[s] /\ T[s] >= totalBet[s]
    OBVIOUS
  <2>1. CASE s = a
    BY <1>1, <1>2, <1>6, <2>1
  <2>2. CASE s # a
    BY <1>1, <1>2, <1>6, <2>2
  <2>3. QED BY <2>1, <2>2
<1>8. /\ st[a] = "Folded" => paid = 0 /\ bet = tableBet
      /\ st[a] # "Folded" => C[a] <= bet
      /\ bet = tableBet \/ C[a] = bet
  BY <1>2 DEF GoodMove, Covered
<1> HIDE DEF a, b
<1>9. Deep(st, T, C)
  <2> SUFFICES ASSUME NEW s \in ActiveSeats(st), NEW t \in LiveSeats(st)
               PROVE  T[t] - C[t] <= T[s] - C[s]
    BY DEF Deep, Before
  <2>1. T[t] - C[t] = b(t) /\ T[s] - C[s] = b(s) /\ b(t) <= b(s)
    BY <1>3, <1>4, <1>7
  <2>2. QED BY <2>1
<1>10. Reach(st, T, C, bet)
  <2> SUFFICES ASSUME NEW s \in ActiveSeats(st), NEW u \in Seats
               PROVE  T[u] <= T[s] - C[s] + bet
    BY DEF Reach, Before
  <2>1. /\ T[s] - C[s] = b(s) /\ b(s) \in Int /\ s \in able /\ s \in Seats
        /\ totalBet[u] <= b(s) + tableBet /\ totalBet[u] \in Nat
    BY <1>3, <1>4, <1>6, <1>7
  <2>2. CASE u # a
    BY <1>1, <1>2, <2>1, <2>2
  <2>3. CASE u = a /\ st[a] = "Folded"
    BY <1>1, <1>2, <1>8, <2>1, <2>3
  <2>4. CASE u = a /\ st[a] # "Folded"
    <3>1. T[a] = b(a) + C[a] /\ C[a] <= bet /\ b(a) <= b(s) /\ b(a) \in Int /\ T[a] \in Nat
      BY <1>3, <1>4, <1>6, <1>7, <1>8, <2>1, <2>4
    <3>2. C[a] \in Int
      BY <1>1, <1>2, <1>3, <1>6
    <3>3. QED BY <1>1, <2>1, <2>4, <3>1, <3>2
  <2>5. QED BY <2>2, <2>3, <2>4
<1>11. a \in Seats /\ C[a] \in Int /\ b(a) \in Int
  BY <1>1, <1>2, <1>3, <1>6
<1>12. CASE bet # tableBet
  <2>1. C[a] = bet /\ st[a] # "Folded" /\ T[a] = b(a) + bet
    BY <1>7, <1>8, <1>11, <1>12
  <2>2. \A u \in Seats : T[u] <= T[a]
    <3> SUFFICES ASSUME NEW u \in Seats \ {a} PROVE T[u] <= T[a]
      BY <1>7, <1>11
    <3>1. T[u] = totalBet[u] /\ totalBet[u] <= b(a) + tableBet /\ totalBet[u] \in Nat
      BY <1>2, <1>3, <1>4, <1>6
    <3>2. QED BY <1>1, <1>11, <2>1, <3>1
  <2>3. \A s \in ActiveSeats(st) : T[s] - C[s] + bet <= T[a]
    <3> SUFFICES ASSUME NEW s \in ActiveSeats(st) PROVE T[s] - C[s] + bet <= T[a]
      OBVIOUS
    <3>1. T[s] - C[s] = b(s) /\ b(s) <= b(a) /\ b(s) \in Int
      BY <1>3, <1>4, <1>6, <1>7
    <3>2. QED BY <1>1, <1>11, <2>1, <3>1
  <2>4. Leader(st, T, C, bet, a)
    BY <1>3, <2>1, <2>2, <2>3 DEF Leader, Leads, Before
  <2>5. QED BY <1>9, <1>10, <1>11, <2>4 DEF T, C
<1>13. CASE bet = tableBet /\ (st[a] # "Folded" \/ h # a)
  <2>1. h \in LiveSeats(st) /\ h \in Seats
    BY <1>3, <1>13
  <2>2. T[h] \in Nat /\ T[h] >= totalBet[h] /\ totalBet[h] \in Nat
    BY <1>6, <1>7, <2>1
  <2>3. \A u \in Seats : T[u] <= T[h]
    <3> SUFFICES ASSUME NEW u \in Seats PROVE T[u] <= T[h]
      OBVIOUS
    <3>1. totalBet[u] <= totalBet[h] /\ totalBet[u] \in Nat /\ T[u] \in Nat
      BY <1>5, <1>6, <1>7
    <3>2. CASE u # a
      BY <1>2, <2>2, <3>1, <3>2
    <3>3. CASE u = a /\ st[a] = "Folded"
      BY <1>1, <1>2, <1>8, <2>2, <3>1, <3>3
    <3>4. CASE u = a /\ st[a] # "Folded"
      <4>1. T[a] = b(a) + C[a] /\ C[a] <= bet /\ b(a) + tableBet <= totalBet[h]
        BY <1>3, <1>5, <1>7, <1>8, <1>11, <3>4
      <4>2. QED BY <1>1, <1>11, <1>13, <2>2, <3>4, <4>1
    <3>5. QED BY <3>2, <3>3, <3>4
  <2>4. \A s \in ActiveSeats(st) : T[s] - C[s] + bet <= T[h]
    <3> SUFFICES ASSUME NEW s \in ActiveSeats(st) PROVE T[s] - C[s] + bet <= T[h]
      OBVIOUS
    <3>1. T[s] - C[s] = b(s) /\ b(s) + tableBet <= totalBet[h] /\ b(s) \in Int
      BY <1>3, <1>5, <1>6, <1>7
    <3>2. QED BY <1>1, <1>13, <2>2, <3>1
  <2>5. Leader(st, T, C, bet, h)
    BY <2>1, <2>3, <2>4 DEF Leader, Leads, Before
  <2>6. QED BY <1>9, <1>10, <2>1, <2>5 DEF T, C
<1>14. CASE bet = tableBet /\ st[a] = "Folded" /\ h = a
  <2>1. \A s \in Seats : T[s] = totalBet[s] /\ C[s] = currentBet[s]
    BY <1>1, <1>2, <1>6, <1>8, <1>14
  <2>2. currentBet[a] >= tableBet
    <3>1. b(a) + tableBet <= totalBet[a]
      BY <1>3, <1>5, <1>14
    <3>2. QED BY <1>1, <1>6, <1>11, <3>1
  <2>3. able \subseteq HaveMatched
    <3>1. ComeLast(a, able, HaveMatched)
      BY SeatNumbers DEF TurnOrder, None, a, able
    <3>2. a \in HaveMatched /\ able \in SUBSET Seats
      BY <1>3, <1>11, <2>2 DEF HaveMatched
    <3>3. QED BY <1>3, <3>1, <3>2, FirstInAllIn
  <2>4. CASE able = {a}
    <3>1. N = 2 \/ \E k \in Seats \ {a} : Leads(status, totalBet, k)
      BY <2>2, <2>4 DEF LevelInv, SoleCaller, a, able
    <3>2. ActiveSeats(st) = {}
      BY <1>3, <1>14, <2>4 DEF ActiveSeats
    <3>3. ASSUME NEW k \in Seats \ {a}, Leads(status, totalBet, k)
          PROVE  Leader(st, T, C, bet, k)
      <4>1. k \in LiveSeats(st) /\ \A u \in Seats : T[u] <= T[k]
        BY <1>3, <2>1, <3>3 DEF Leads, live
      <4>2. QED BY <3>2, <4>1 DEF Leader, Leads
    <3>4. QED BY <1>9, <1>10, <1>14, <3>1, <3>3 DEF T, C, a
  <2>5. CASE able # {a}
    <3>1. PICK k \in able : k # a
      BY <1>3, <2>5
    <3>2. /\ k \in LiveSeats(st) /\ k \in Seats /\ currentBet[k] >= tableBet
          /\ totalBet[k] = b(k) + currentBet[k] /\ T[k] = totalBet[k] /\ b(k) \in Int
          /\ currentBet[k] \in Nat
      BY <1>3, <1>6, <2>1, <2>3, <3>1 DEF HaveMatched
    <3>3. \A u \in Seats : T[u] <= T[k]
      <4> SUFFICES ASSUME NEW u \in Seats PROVE T[u] <= T[k]
        OBVIOUS
      <4>1. T[u] = totalBet[u] /\ totalBet[u] <= b(k) + tableBet /\ totalBet[u] \in Nat
        BY <1>4, <1>6, <2>1, <3>1
      <4>2. QED BY <1>1, <3>2, <4>1
    <3>4. \A s \in ActiveSeats(st) : T[s] - C[s] + bet <= T[k]
      <4> SUFFICES ASSUME NEW s \in ActiveSeats(st) PROVE T[s] - C[s] + bet <= T[k]
        OBVIOUS
      <4>1. T[s] - C[s] = b(s) /\ b(s) <= b(k) /\ b(s) \in Int
        BY <1>3, <1>4, <1>6, <1>7, <3>1
      <4>2. QED BY <1>1, <1>14, <3>2, <4>1
    <3>5. Leader(st, T, C, bet, k)
      BY <3>2, <3>3, <3>4 DEF Leader, Leads, Before
    <3>6. QED BY <1>9, <1>10, <3>2, <3>5 DEF T, C
  <2>6. QED BY <2>4, <2>5
<1>15. QED BY <1>12, <1>13, <1>14

\* With two seats, a fold leaves one.
LEMMA FoldLeavesOne ==
  ASSUME N = 2, NEW a \in Seats, NEW st, st[a] = "Folded"
  PROVE  Cardinality(LiveSeats(st)) <= 1
<1>1. LiveSeats(st) \subseteq Seats \ {a}
  BY DEF LiveSeats
<1>2. IsFiniteSet(Seats) /\ Cardinality(Seats) = 2
  BY SeatSets
<1>3. IsFiniteSet(Seats \ {a}) /\ Cardinality(Seats \ {a}) = 1
  BY <1>2, FS_RemoveElement
<1>4. QED BY <1>1, <1>3, FS_Subset

\* When a round has been bet out, every seat that can still bet leads.
LEMMA EvenRoundIsLevel ==
  ASSUME NEW st, NEW total \in [Seats -> Nat], NEW cb \in [Seats -> Nat], NEW bet \in Nat,
         Reach(st, total, cb, bet), \A s \in ActiveSeats(st) : cb[s] = bet,
         NEW fresh \in [Seats -> Nat], \A s \in LiveSeats(st) : fresh[s] = 0,
         ActiveSeats(st) # {}
  PROVE  Level(st, total, fresh, 0)
<1>1. \A s \in ActiveSeats(st), u \in Seats : total[u] <= total[s]
  <2> SUFFICES ASSUME NEW s \in ActiveSeats(st), NEW u \in Seats PROVE total[u] <= total[s]
    OBVIOUS
  <2>1. total[u] <= total[s] - cb[s] + bet /\ cb[s] = bet /\ s \in Seats
    BY DEF Reach, Before, ActiveSeats
  <2>2. QED BY <2>1
<1>2. /\ \A s \in LiveSeats(st) : Before(total, fresh, s) = total[s]
      /\ ActiveSeats(st) \subseteq LiveSeats(st) /\ LiveSeats(st) \subseteq Seats
  <2>1. ActiveSeats(st) \subseteq LiveSeats(st) /\ LiveSeats(st) \subseteq Seats
    BY DEF ActiveSeats, LiveSeats
  <2>2. QED BY <2>1 DEF Before
<1>3. PICK h \in ActiveSeats(st) : TRUE
  OBVIOUS
<1>4. \A s \in Seats : total[s] \in Nat
  OBVIOUS
<1>5. Deep(st, total, fresh)
  BY <1>1, <1>2 DEF Deep
<1>6. Reach(st, total, fresh, 0)
  BY <1>1, <1>2, <1>4 DEF Reach
<1>7. h \in Seats /\ Leader(st, total, fresh, 0, h)
  BY <1>1, <1>2, <1>3, <1>4 DEF Leader, Leads
<1>8. QED BY <1>5, <1>6, <1>7 DEF Level

\* Settled hands have paid what they must.
PaidByTheRules ==
  phase = "Settled" =>
    /\ SumFunction(payouts) = SumFunction(totalBet)
    /\ N >= 3 => \A s \in Seats : payouts[s] <= SumFunction(MatchedBets(totalBet, s))

LEMMA MoveIsLevel ==
  ASSUME OrderInv, UnpaidYet, LevelInv, phase \in BettingPhases, actionIdx \in Seats,
         status[actionIdx] = "Active",
         NEW st, NEW paid, NEW bet, NEW minR, NEW raiser,
         GoodMove(st, paid, bet, minR, raiser), Covered(paid, bet),
         Proceed(st, paid, bet, minR, raiser), HandInv'
  PROVE  LevelInv' /\ PaidByTheRules'
<1> DEFINE T    == BetsAfter(paid)
           C    == RoundBetsAfter(paid)
           next == NextActive(st, actionIdx)
<1>1. HandInv /\ TurnOrder /\ dealerIdx \in Seats
  BY DEF OrderInv, HandInv, TypeOK
<1>2. /\ Deep(st, T, C) /\ Reach(st, T, C, bet)
      /\ (N = 2 /\ st[actionIdx] = "Folded") \/ \E h \in Seats : Leader(st, T, C, bet, h)
  BY <1>1, MoveKeepsLevel
<1>3. /\ status' = st /\ totalBet' = T
      /\ \/ MoveEndsHand(st, paid, bet, minR, raiser)
         \/ MoveEndsRound(st, paid, bet, minR, raiser)
         \/ MovePassesTurn(st, paid, bet, minR, raiser)
  BY <1>1, MoveCases
<1>4. T \in [Seats -> Nat] /\ C \in [Seats -> Nat] /\ bet \in Nat
  <2>1. /\ totalBet \in [Seats -> Nat] /\ currentBet \in [Seats -> Nat] /\ paid \in Nat /\ bet \in Nat
    BY <1>1 DEF HandInv, TypeOK, GoodMove
  <2>2. QED BY <2>1 DEF BetsAfter, RoundBetsAfter
<1>5. Cardinality(LiveSeats(st)) > 1 => \E h \in Seats : Leader(st, T, C, bet, h)
  <2>1. Cardinality(LiveSeats(st)) \in Nat
    BY SeatSets DEF LiveSeats
  <2>2. QED BY <1>2, <2>1, FoldLeavesOne
<1>6. LiveSeats(st) # {}
  BY <1>1, SomebodyIsLeft DEF GoodMove
<1>7. CASE MovePassesTurn(st, paid, bet, minR, raiser)
  <2>1. /\ next # None /\ actionIdx' = next /\ phase' = phase
        /\ currentBet' = C /\ tableBet' = bet
        /\ ~RoundComplete(st, next, C[next], bet, raiser, roundActionCount + 1)
        /\ Cardinality(LiveSeats(st)) > 1
    BY <1>7 DEF MovePassesTurn, SameRound, RoundBetsAfter
  <2>2. Level(st, T, C, bet)
    BY <1>2, <1>5, <2>1 DEF Level
  <2>3. SoleCaller'
    <3> SUFFICES ASSUME ActiveSeats(st) = {next}, C[next] >= bet PROVE FALSE
      BY <1>3, <2>1 DEF SoleCaller
    <3>1. Cardinality(ActiveSeats(st)) = 1
      BY FS_Singleton
    <3>2. roundActionCount \in Nat
      BY <1>1 DEF HandInv, TypeOK
    <3>3. QED BY <2>1, <3>1, <3>2 DEF RoundComplete
  <2>4. QED BY <1>3, <2>1, <2>2, <2>3 DEF LevelInv, PaidByTheRules, BettingPhases
<1>8. ASSUME phase' = "Settled", NEW wins \in [Seats -> Nat], HandWinnings(st, T, wins),
             Settle(T, StacksAfter(paid), wins)
      PROVE  LevelInv' /\ PaidByTheRules'
  <2>1. payouts' = wins
    BY <1>1, <1>8, PayoutsAreWinnings
  <2>2. CASE \E h \in Seats : Leader(st, T, C, bet, h)
    <3>1. PICK h : Leads(st, T, h)
      BY <2>2 DEF Leader
    <3>2. SumFunction(wins) = SumFunction(T) /\ \A s \in Seats : wins[s] <= SumFunction(MatchedBets(T, s))
      <4> HIDE DEF T
      <4>1. QED BY <1>1, <1>4, <1>8, <3>1, LedHandIsPaid
    <3>3. QED BY <1>3, <1>8, <2>1, <3>2 DEF LevelInv, PaidByTheRules, BettingPhases
  <2>3. CASE N = 2 /\ ~(Cardinality(LiveSeats(st)) > 1)
    <3>1. wins = SingleWinner(st, T)
      BY <1>8, <2>3 DEF HandWinnings
    <3>2. SumFunction(wins) = SumFunction(T)
      <4> HIDE DEF T
      <4>1. QED BY <1>4, <1>6, <3>1, SingleWinnerPays
    <3>3. ~(N >= 3)
      BY <2>3
    <3>4. QED BY <1>3, <1>8, <2>1, <3>2, <3>3 DEF LevelInv, PaidByTheRules, BettingPhases
  <2>4. QED BY <1>2, <1>5, <2>2, <2>3
<1>9. CASE MoveEndsRound(st, paid, bet, minR, raiser) /\ phase' # "Settled"
  <2>1. next # None => RoundComplete(st, next, C[next], bet, raiser, roundActionCount + 1)
    BY <1>9 DEF MoveEndsRound
  <2>2. /\ Cardinality(ActiveSeats(st)) > 1 /\ phase' = NextStreet[phase]
        /\ NewRound(st)
    BY <1>1, <1>3, <1>9, RoundEnds DEF MoveEndsRound
  <2>3. \A s \in ActiveSeats(st) : C[s] = bet
    BY <1>1, <2>1, ClosedRoundIsEven
  <2>4. /\ tableBet' = 0 /\ currentBet' \in [Seats -> Nat]
        /\ \A s \in LiveSeats(st) : currentBet'[s] = 0
    BY <2>2 DEF NewRound, HandInv, TypeOK, LiveSeats
  <2>5. ActiveSeats(st) # {} /\ \A x : ActiveSeats(st) # {x}
    BY <2>2, FS_EmptySet, FS_Singleton
  <2>6. Level(st, T, currentBet', 0)
    <3> HIDE DEF T, C
    <3>1. QED BY <1>2, <1>4, <2>3, <2>4, <2>5, EvenRoundIsLevel
  <2>7. SoleCaller'
    BY <1>3, <2>5 DEF SoleCaller
  <2>8. QED BY <1>3, <1>9, <2>4, <2>6, <2>7 DEF LevelInv, PaidByTheRules
<1>10. \/ phase' \in BettingPhases
       \/ /\ phase' = "Settled"
          /\ \E wins \in [Seats -> Nat] : /\ HandWinnings(st, T, wins)
                                          /\ Settle(T, StacksAfter(paid), wins)
  BY <1>1, MovePays
<1>11. CASE phase' \in BettingPhases
  <2>1. phase' # "Settled"
    BY <1>11 DEF BettingPhases
  <2>2. ~MoveEndsHand(st, paid, bet, minR, raiser)
    BY <2>1 DEF MoveEndsHand, Settle
  <2>3. QED BY <1>3, <1>7, <1>9, <2>1, <2>2
<1>12. QED BY <1>8, <1>10, <1>11

\* The first bets of the hand are level: everybody is in and nobody has bet before.
LEMMA FirstBetsAreLevel ==
  ASSUME NEW st, \A s \in Seats : st[s] # "Folded",
         NEW total \in [Seats -> Nat], NEW cb \in [Seats -> Nat], NEW bet \in Nat,
         \A s \in Seats : cb[s] <= bet /\ total[s] = cb[s],
         NEW h \in Seats, cb[h] = bet
  PROVE  Level(st, total, cb, bet)
<1>1. /\ LiveSeats(st) = Seats /\ ActiveSeats(st) \subseteq Seats
      /\ \A s \in Seats : Before(total, cb, s) = 0
  BY DEF LiveSeats, ActiveSeats, Before
<1>2. Deep(st, total, cb)
  BY <1>1 DEF Deep
<1>3. Reach(st, total, cb, bet)
  BY <1>1 DEF Reach
<1>4. \A u \in Seats : total[u] <= total[h]
  OBVIOUS
<1>5. Leader(st, total, cb, bet, h)
  BY <1>1, <1>4 DEF Leader, Leads
<1>6. QED BY <1>2, <1>3, <1>5 DEF Level

\* The levels when the blinds are posted.
LEMMA BlindsAreLevel ==
  ASSUME HandInv, StartHand, HandInv'
  PROVE  LevelInv' /\ PaidByTheRules'
<1> DEFINE sb == SmallBlindSeat
           bb == BigBlindSeat
<1>1. /\ sb \in Seats /\ bb \in Seats /\ sb # bb
      /\ bb = IF sb = N - 1 THEN 0 ELSE sb + 1
      /\ phase' = "PreFlop"
      /\ tableBet' \in Nat /\ tableBet' \in {currentBet'[sb], currentBet'[bb]}
      /\ \A s \in Seats : /\ currentBet'[s] \in Nat /\ currentBet'[s] <= tableBet'
                          /\ totalBet'[s] = currentBet'[s]
                          /\ status'[s] # "Folded"
      /\ \A s \in Seats \ {sb, bb} : currentBet'[s] = 0 /\ status'[s] = "Active"
  BY BlindsPosted
<1> HIDE DEF sb, bb
<1>2. PICK h \in Seats : currentBet'[h] = tableBet'
  BY <1>1
<1>3. totalBet' \in [Seats -> Nat] /\ currentBet' \in [Seats -> Nat]
  BY DEF HandInv, TypeOK
<1>4. Level(status', totalBet', currentBet', tableBet')
  <2>1. /\ \A s \in Seats : status'[s] # "Folded"
        /\ \A s \in Seats : currentBet'[s] <= tableBet' /\ totalBet'[s] = currentBet'[s]
    BY <1>1
  <2>2. tableBet' \in Nat
    BY <1>1
  <2>3. QED BY <1>2, <1>3, <2>1, <2>2, FirstBetsAreLevel
<1>5. SoleCaller'
  <2> SUFFICES ASSUME N # 2, ActiveSeats(status') = {actionIdx'},
                      currentBet'[actionIdx'] >= tableBet', actionIdx' \in Seats
               PROVE  \E k \in Seats \ {actionIdx'} : Leads(status', totalBet', k)
    BY DEF SoleCaller
  <2>1. PICK s \in Seats : s \notin {sb, bb}
    <3> DEFINE third == IF bb = N - 1 THEN 0 ELSE bb + 1
    <3>1. N \in Nat /\ N > 2 /\ sb \in Nat /\ bb \in Nat /\ sb <= N - 1 /\ bb <= N - 1
      BY <1>1, SeatNumbers
    <3>2. third \in Nat /\ third <= N - 1 /\ third \notin {sb, bb}
      BY <1>1, <3>1
    <3>3. QED BY <3>2, SeatNumbers
  <2>2. s = actionIdx' /\ currentBet'[s] = 0
    BY <1>1, <2>1 DEF ActiveSeats
  <2>3. tableBet' = 0
    BY <1>1, <2>2
  <2>4. \A u \in Seats : totalBet'[u] = 0
    BY <1>1, <2>3
  <2>5. sb \in Seats /\ sb # actionIdx' /\ sb \in LiveSeats(status')
    BY <1>1, <2>1, <2>2 DEF LiveSeats
  <2>6. \A u \in Seats : totalBet'[u] <= totalBet'[sb]
    BY <2>4, <2>5
  <2>7. Leads(status', totalBet', sb)
    BY <2>5, <2>6 DEF Leads
  <2>8. QED BY <2>5, <2>7
<1>6. QED BY <1>1, <1>4, <1>5 DEF LevelInv, PaidByTheRules


-----------------------------------------------------------------------------
(* The invariant of a table, hand after hand.                              *)

TableInv == OrderInv /\ UnpaidYet /\ LevelInv /\ PaidByTheRules

\* A seat's move, when it is one that the client lets out.
LEMMA ConfirmedMoves ==
  ASSUME HandInv, NEW s \in Seats, ConfirmedAct(s)
  PROVE  /\ phase \in BettingPhases /\ actionIdx \in Seats /\ status[actionIdx] = "Active"
         /\ CoveredMoveMade /\ HandInv'
<1>1. TypeOK
  BY DEF HandInv
<1>2. MyTurn(s) /\ CoveredMoveMade
  BY <1>1, ConfirmedIsCovered, CoveredActMoves
<1>3. phase \in BettingPhases /\ actionIdx \in Seats /\ status[actionIdx] = "Active"
  BY <1>2 DEF MyTurn
<1>4. HandInv'
  BY <1>2, <1>3, ProceedInv DEF CoveredMoveMade
<1>5. QED BY <1>2, <1>3, <1>4

LEMMA NextHandOrder ==
  ASSUME OrderInv, NextHand
  PROVE  TableInv'
<1>1. TypeOK
  BY DEF OrderInv, HandInv
<1>2. /\ phase' = "Waiting" /\ dealerIdx' = (dealerIdx + 1) % N /\ actionIdx' = 0
      /\ lastRaiserIdx' = 0 /\ roundActionCount' = 0 /\ tableBet' = 0 /\ minRaise' = BigBlind
      /\ board' = 0 /\ payouts' = [s \in Seats |-> 0]
      /\ status' = [s \in Seats |-> "Active"] /\ currentBet' = [s \in Seats |-> 0]
      /\ totalBet' = [s \in Seats |-> 0] /\ stack' = stack /\ startStack' = stack /\ acted' = {}
  BY DEF NextHand, NewGameState, ResetForNewHand
<1>3. dealerIdx' \in Seats /\ actionIdx' \in Seats /\ lastRaiserIdx' \in Seats
  <2>1. dealerIdx \in Nat /\ N \in Nat /\ N >= 2
    BY <1>1, SeatNumbers DEF TypeOK
  <2>2. (dealerIdx + 1) % N \in 0..(N - 1)
    BY <2>1
  <2>3. 0 \in Seats
    BY <2>1, SeatNumbers
  <2>4. QED BY <1>2, <2>2, <2>3 DEF Seats
<1>4. TypeOK'
  <2>1. stack \in [Seats -> Nat] /\ BigBlind \in Nat
    BY <1>1, TableAssumption, SeatCountAssumption DEF TypeOK
  <2>2. QED BY <1>2, <1>3, <2>1 DEF TypeOK, Phases, Statuses
<1>5. SeatLedger'
  BY <1>1, <1>2 DEF SeatLedger, TypeOK
<1>6. HandInv'
  BY <1>2, <1>4, <1>5 DEF HandInv, FreshTable, RoundDiscipline, BettingPhases
<1>7. QED BY <1>2, <1>6 DEF TableInv, OrderInv, FreshLog, TurnOrder, FullBoardAtShowdown,
        UnpaidYet, LevelInv, PaidByTheRules, BettingPhases

LEMMA TableStutter ==
  ASSUME TableInv, UNCHANGED vars
  PROVE  TableInv'
<1>1. OrderInv'
  BY NextOrderInv DEF TableInv
<1>2. /\ UNCHANGED <<phase, actionIdx, status, totalBet, currentBet, tableBet, payouts>>
  BY DEF vars, tableVars, roundVars, seatVars
<1>3. UnpaidYet' /\ PaidByTheRules'
  BY <1>2 DEF TableInv, UnpaidYet, PaidByTheRules, MatchedBets
<1>4. LevelInv'
  BY <1>2 DEF TableInv, LevelInv, Level, SoleCaller, Deep, Reach, Leader, Leads, Before,
       ActiveSeats, LiveSeats
<1>5. QED BY <1>1, <1>3, <1>4 DEF TableInv

LEMMA TableStep ==
  ASSUME TableInv, [TableNext]_vars
  PROVE  TableInv'
<1>1. OrderInv /\ HandInv /\ UnpaidYet /\ LevelInv
  BY DEF TableInv, OrderInv
<1>2. CASE StartHand
  <2>1. HandInv'
    BY <1>1, <1>2, NextHandInv DEF Next
  <2>2. OrderInv' /\ LevelInv' /\ PaidByTheRules'
    BY <1>1, <1>2, <2>1, StartInOrder, BlindsAreLevel
  <2>3. UnpaidYet'
    BY <1>1, <1>2 DEF StartHand, UnpaidYet
  <2>4. QED BY <2>2, <2>3 DEF TableInv
<1>3. ASSUME NEW s \in Seats, ConfirmedAct(s) PROVE TableInv'
  <2>1. /\ phase \in BettingPhases /\ actionIdx \in Seats /\ status[actionIdx] = "Active"
        /\ CoveredMoveMade /\ HandInv'
    BY <1>1, <1>3, ConfirmedMoves
  <2>2. PICK st, paid, bet, minR, raiser : /\ GoodMove(st, paid, bet, minR, raiser)
                                           /\ Covered(paid, bet)
                                           /\ Proceed(st, paid, bet, minR, raiser)
    BY <2>1 DEF CoveredMoveMade
  <2>3. OrderInv'
    BY <1>1, <2>1, <2>2, MoveInOrder
  <2>4. UnpaidYet'
    BY <1>1, <2>1, <2>2, MoveLeavesDeadPots
  <2>5. LevelInv' /\ PaidByTheRules'
    BY <1>1, <2>1, <2>2, MoveIsLevel
  <2>6. QED BY <2>3, <2>4, <2>5 DEF TableInv
<1>4. CASE NextHand
  BY <1>1, <1>4, NextHandOrder
<1>5. CASE UNCHANGED vars
  BY <1>5, TableStutter
<1>6. QED BY <1>2, <1>3, <1>4, <1>5 DEF TableNext, ConfirmedNext

\* At a table of the terminal client, over any number of hands, the turn is in order, the
\* bets are level, and settled hands have paid what was bet.
THEOREM TableCorrect == TableSpec => []TableInv
<1>1. TableInit => TableInv
  <2> SUFFICES ASSUME TableInit PROVE TableInv
    OBVIOUS
  <2>1. Init /\ phase = "Waiting" /\ payouts = [s \in Seats |-> 0]
    BY DEF TableInit, Init
  <2>2. OrderInv
    BY <2>1, InitOrderInv
  <2>3. QED BY <2>1, <2>2 DEF TableInv, UnpaidYet, LevelInv, PaidByTheRules, BettingPhases
<1>2. TableInv /\ [TableNext]_vars => TableInv'
  BY TableStep
<1>3. QED BY <1>1, <1>2, PTL DEF TableSpec

\* Whatever keys are pressed, in whatever state the hands lead to, the engine accepts
\* what the client sends (Confirm of bet_input.go against ApplyAction of machine.go).
THEOREM ConfirmedIsAccepted == TableSpec => []ConfirmedIsLegal
<1>1. TableInv => ConfirmedIsLegal
  BY SubmittedIsAccepted DEF TableInv, OrderInv, HandInv
<1>2. QED BY <1>1, TableCorrect, PTL

-----------------------------------------------------------------------------
(* What follows for the chips.                                             *)

\* Seat by seat sums: two ways of adding up the same chips.
LEMMA SumsAgree ==
  ASSUME NEW f \in [Seats -> Nat], NEW g \in [Seats -> Nat],
         NEW k \in [Seats -> Nat], NEW l \in [Seats -> Nat],
         \A s \in Seats : f[s] + g[s] = k[s] + l[s]
  PROVE  /\ SumFunction(f) + SumFunction(g) = SumFunction(k) + SumFunction(l)
         /\ SumFunction(f) \in Nat /\ SumFunction(g) \in Nat
         /\ SumFunction(k) \in Nat /\ SumFunction(l) \in Nat
<1> DEFINE h == [s \in Seats |-> f[s] + g[s]]
<1>1. /\ f \in [Seats -> Int] /\ g \in [Seats -> Int] /\ k \in [Seats -> Int] /\ l \in [Seats -> Int]
      /\ h \in [Seats -> Int] /\ \A s \in Seats : h[s] = f[s] + g[s]
      /\ \A s \in Seats : h[s] = k[s] + l[s]
  OBVIOUS
<1> HIDE DEF h
<1>2. SumFunctionOnSet(h, Seats) = SumFunctionOnSet(f, Seats) + SumFunctionOnSet(g, Seats)
  <2>1. /\ h \in [Seats -> Int] /\ f \in [Seats -> Int] /\ g \in [Seats -> Int]
        /\ \A s \in Seats : h[s] = f[s] + g[s]
        /\ IsFiniteSet(Seats)
    BY <1>1, SeatSets
  <2>2. QED BY ONLY <2>1, SumAdd
<1>3. SumFunctionOnSet(h, Seats) = SumFunctionOnSet(k, Seats) + SumFunctionOnSet(l, Seats)
  <2>1. /\ h \in [Seats -> Int] /\ k \in [Seats -> Int] /\ l \in [Seats -> Int]
        /\ \A s \in Seats : h[s] = k[s] + l[s]
        /\ IsFiniteSet(Seats)
    BY <1>1, SeatSets
  <2>2. QED BY ONLY <2>1, SumAdd
<1>4. \A m \in [Seats -> Nat] : SumFunction(m) = SumFunctionOnSet(m, Seats) /\ SumFunction(m) \in Nat
  <2>1. \A m \in [Seats -> Nat] : SumFunction(m) \in Nat
    BY SeatSets, SumOfNaturals
  <2>2. QED BY <2>1 DEF SumFunction
<1>5. QED BY <1>2, <1>3, <1>4

\* The chips of a table: what it holds and has bet is what it started with and was paid.
LEMMA TableChips ==
  ASSUME HandInv
  PROVE  /\ SumFunction(stack) + SumFunction(totalBet) = SumFunction(startStack) + SumFunction(payouts)
         /\ SumFunction(stack) \in Nat /\ SumFunction(totalBet) \in Nat
         /\ SumFunction(startStack) \in Nat /\ SumFunction(payouts) \in Nat
<1>1. /\ stack \in [Seats -> Nat] /\ totalBet \in [Seats -> Nat]
      /\ startStack \in [Seats -> Nat] /\ payouts \in [Seats -> Nat]
      /\ \A s \in Seats : stack[s] + totalBet[s] = startStack[s] + payouts[s]
  BY DEF HandInv, TypeOK, SeatLedger
<1>2. QED BY <1>1, SumsAgree

LEMMA SettledConserves == TableInv => ChipsConserved
BY TableChips DEF TableInv, OrderInv, PaidByTheRules, ChipsConserved

\* No chips are lost or made by hands played from the terminal client, which refuses the
\* raises that the engine lets through (escrow.go:113).
THEOREM TableConservesChips == TableSpec => []ChipsConserved
<1>1. TableInv => ChipsConserved
  BY SettledConserves
<1>2. QED BY <1>1, TableCorrect, PTL

\* With three seats or more nobody wins more than the others match of its bet (pot.go:14),
\* whether the hand ends in a showdown or with a fold.
THEOREM OnlyMatchedIsWon ==
  ASSUME N >= 3
  PROVE  TableSpec => []WinsOnlyMatched
<1>1. TableInv => WinsOnlyMatched
  <2> SUFFICES ASSUME TableInv, NEW s \in Seats
               PROVE  payouts[s] <= SumFunction(MatchedBets(totalBet, s))
    BY DEF WinsOnlyMatched, MatchedBets
  <2>1. CASE phase = "Settled"
    BY <2>1 DEF TableInv, PaidByTheRules
  <2>2. CASE phase # "Settled"
    <3>1. payouts[s] = 0
      BY <2>2 DEF TableInv, UnpaidYet
    <3> DEFINE m == MatchedBets(totalBet, s)
    <3>2. m \in [Seats -> Nat]
      <4>1. totalBet \in [Seats -> Nat]
        BY DEF TableInv, OrderInv, HandInv, TypeOK
      <4>2. QED BY <4>1 DEF MatchedBets
    <3>3. SumFunction(m) \in Nat
      <4> HIDE DEF m
      <4>1. QED BY <3>2, SumsAgree
    <3>4. QED BY <3>1, <3>3
  <2>3. QED BY <2>1, <2>2
<1>2. QED BY <1>1, TableCorrect, PTL

-----------------------------------------------------------------------------
(* The table implements the ledger: what is in the middle is what has been *)
(* bet in the hand, until the hand is settled.                             *)

Middle == IF phase = "Settled" THEN 0 ELSE SumFunction(totalBet)

\* The ledger adds up chips as the table does.
LEMMA LedgerSums == \A f : Ledger!SumFunction(f) = SumFunction(f)
BY DEF Ledger!SumFunction, Ledger!SumFunctionOnSet, Ledger!FoldFunctionOnSet, Ledger!MapThenFoldSet,
       SumFunction, SumFunctionOnSet, FoldFunctionOnSet, MapThenFoldSet

\* Moving chips from the stacks to the bets is a wager.
LEMMA BetsAreWagers ==
  ASSUME HandInv, HandInv', phase # "Settled", phase' # "Settled",
         UNCHANGED <<startStack, payouts>>, \A s \in Seats : stack'[s] <= stack[s]
  PROVE  Ledger!Wager
<1>1. stack' \in [Seats -> Nat]
  BY DEF HandInv, TypeOK
<1>2. /\ SumFunction(stack) + SumFunction(totalBet) = SumFunction(startStack) + SumFunction(payouts)
      /\ SumFunction(stack) \in Nat /\ SumFunction(totalBet) \in Nat
  BY TableChips
<1>3. /\ SumFunction(stack') + SumFunction(totalBet') = SumFunction(startStack) + SumFunction(payouts)
      /\ SumFunction(stack') \in Nat /\ SumFunction(totalBet') \in Nat
  <2>1. /\ stack' \in [Seats -> Nat] /\ totalBet' \in [Seats -> Nat]
        /\ startStack \in [Seats -> Nat] /\ payouts \in [Seats -> Nat]
    BY DEF HandInv, TypeOK
  <2>2. \A s \in Seats : stack'[s] + totalBet'[s] = startStack[s] + payouts[s]
    BY DEF HandInv, SeatLedger
  <2>3. QED BY <2>1, <2>2, SumsAgree
<1>4. SumFunction(totalBet') = SumFunction(totalBet) + SumFunction(stack) - SumFunction(stack')
  BY <1>2, <1>3
<1>5. QED BY <1>1, <1>4, LedgerSums DEF Ledger!Wager

\* The end of a hand pays out the middle.
LEMMA SettlingPays ==
  ASSUME TableInv, TableInv', phase \in BettingPhases, phase' = "Settled", startStack' = startStack
  PROVE  Ledger!Pay
<1>1. stack' \in [Seats -> Nat]
  BY DEF TableInv, OrderInv, HandInv, TypeOK
<1>2. SumFunction(payouts) = 0
  <2>1. \A s \in Seats : payouts[s] = 0
    BY DEF TableInv, UnpaidYet, BettingPhases
  <2>2. payouts \in [Seats -> Int]
    BY DEF TableInv, OrderInv, HandInv, TypeOK
  <2>3. SumFunctionOnSet(payouts, Seats) = 0
    BY <2>1, <2>2, SeatSets, SumZeros
  <2>4. QED BY <2>2, <2>3 DEF SumFunction
<1>3. /\ SumFunction(stack) + SumFunction(totalBet) = SumFunction(startStack)
      /\ SumFunction(stack) \in Nat /\ SumFunction(totalBet) \in Nat
  <2>1. HandInv
    BY DEF TableInv, OrderInv
  <2>2. QED BY <1>2, <2>1, TableChips
<1>4. SumFunction(stack') = SumFunction(startStack)
  <2>1. ChipsConserved'
    BY SettledConserves, PTL
  <2>2. QED BY <2>1 DEF ChipsConserved
<1>5. \A s \in Seats : stack'[s] <= SumFunction(stack')
  BY <1>1, SeatSets, SumOfNaturals
<1>6. phase # "Settled"
  BY DEF BettingPhases
<1>7. QED BY <1>1, <1>3, <1>4, <1>5, <1>6, LedgerSums DEF Ledger!Pay

LEMMA TableStepsLedger ==
  ASSUME TableInv, TableInv', [TableNext]_vars
  PROVE  [Ledger!Wager \/ Ledger!Pay]_<<stack, Middle>>
<1>1. HandInv /\ HandInv' /\ TypeOK
  BY DEF TableInv, OrderInv, HandInv
<1>2. CASE StartHand
  <2>1. /\ phase = "Waiting" /\ phase' = "PreFlop" /\ UNCHANGED <<startStack, payouts>>
    BY <1>2 DEF StartHand
  <2>2. \A s \in Seats : stack'[s] <= stack[s]
    <3> SUFFICES ASSUME NEW s \in Seats PROVE stack'[s] <= stack[s]
      OBVIOUS
    <3>1. /\ stack[s] + totalBet[s] = startStack[s] + payouts[s]
          /\ stack'[s] + totalBet'[s] = startStack[s] + payouts[s]
      BY <1>1, <2>1 DEF HandInv, SeatLedger
    <3>2. totalBet[s] = 0 /\ totalBet'[s] \in Nat /\ stack[s] \in Nat /\ stack'[s] \in Nat
          /\ startStack[s] \in Nat /\ payouts[s] \in Nat
      BY <1>1, <2>1 DEF HandInv, FreshTable, TypeOK
    <3>3. QED BY <3>1, <3>2
  <2>3. QED BY <1>1, <2>1, <2>2, BetsAreWagers
<1>3. ASSUME NEW s \in Seats, ConfirmedAct(s)
      PROVE  Ledger!Wager \/ Ledger!Pay
  <2>1. phase \in BettingPhases /\ actionIdx \in Seats /\ CoveredMoveMade
    BY <1>1, <1>3, ConfirmedMoves
  <2>2. PICK st, paid, bet, minR, raiser : /\ GoodMove(st, paid, bet, minR, raiser)
                                           /\ Proceed(st, paid, bet, minR, raiser)
    BY <2>1 DEF CoveredMoveMade
  <2>3. startStack' = startStack
    BY <1>1, <2>1, <2>2, MoveCases
  <2>4. \/ phase' \in BettingPhases /\ stack' = StacksAfter(paid) /\ UNCHANGED payouts
        \/ phase' = "Settled"
    BY <1>1, <2>1, <2>2, MovePays
  <2>5. CASE phase' = "Settled"
    BY <2>1, <2>3, <2>5, SettlingPays
  <2>6. CASE phase' \in BettingPhases /\ stack' = StacksAfter(paid) /\ UNCHANGED payouts
    <3>1. phase # "Settled" /\ phase' # "Settled"
      BY <2>1, <2>6 DEF BettingPhases
    <3>2. \A t \in Seats : stack'[t] <= stack[t]
      <4>1. paid \in 0..stack[actionIdx] /\ stack \in [Seats -> Nat]
        BY <1>1, <2>2 DEF GoodMove, TypeOK
      <4>2. /\ stack'[actionIdx] = stack[actionIdx] - paid
            /\ \A t \in Seats \ {actionIdx} : stack'[t] = stack[t]
        BY <1>1, <2>1, <2>6, <4>1, MoveLedger
      <4>3. QED BY <2>1, <4>1, <4>2
    <3>3. QED BY <1>1, <2>3, <2>6, <3>1, <3>2, BetsAreWagers
  <2>7. QED BY <2>4, <2>5, <2>6
<1>4. CASE NextHand
  <2>1. /\ phase = "Settled" /\ phase' = "Waiting" /\ stack' = stack
        /\ totalBet' = [s \in Seats |-> 0]
    BY <1>4 DEF NextHand, NextHandGuard, NewGameState, ResetForNewHand
  <2>2. SumFunction(totalBet') = 0
    <3>1. totalBet' \in [Seats -> Int] /\ \A s \in Seats : totalBet'[s] = 0
      BY <2>1
    <3>2. SumFunctionOnSet(totalBet', Seats) = 0
      BY <3>1, SeatSets, SumZeros
    <3>3. QED BY <3>1, <3>2 DEF SumFunction
  <2>3. QED BY <2>1, <2>2 DEF Middle
<1>5. CASE UNCHANGED vars
  BY <1>5 DEF Middle, vars, tableVars, seatVars
<1>6. QED BY <1>2, <1>3, <1>4, <1>5 DEF TableNext, ConfirmedNext

\* The table keeps the promise of ChipLedger, for any number of seats, stacks and hands:
\* bets go to the middle, the end of a hand pays the middle out to the last chip, and
\* nothing else moves chips (PlaceBet, distributePots, resolveSingleWinner, nextHandCmd).
THEOREM TableImplementsLedger == TableSpec => ImplementsLedger
<1>1. TableInit => Ledger!Init
  <2> SUFFICES ASSUME TableInit PROVE Ledger!Init
    OBVIOUS
  <2>1. /\ stack \in [Seats -> StartStacks] /\ phase = "Waiting" /\ totalBet = [s \in Seats |-> 0]
    BY DEF TableInit, Init
  <2>2. stack \in [Seats -> Nat]
    BY <2>1, TableAssumption, SeatCountAssumption
  <2>3. SumFunction(totalBet) = 0
    <3>1. totalBet \in [Seats -> Int] /\ \A s \in Seats : totalBet[s] = 0
      BY <2>1
    <3>2. SumFunctionOnSet(totalBet, Seats) = 0
      BY <3>1, SeatSets, SumZeros
    <3>3. QED BY <3>1, <3>2 DEF SumFunction
  <2>4. QED BY <2>1, <2>2, <2>3 DEF Ledger!Init
<1>2. TableInv /\ TableInv' /\ [TableNext]_vars
        => [Ledger!Wager \/ Ledger!Pay]_<<stack, Middle>>
  BY TableStepsLedger
<1>3. QED BY <1>1, <1>2, TableCorrect, PTL DEF TableSpec, ImplementsLedger, Ledger!Spec, Middle
=============================================================================
