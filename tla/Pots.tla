-------------------------------- MODULE Pots --------------------------------
(***************************************************************************)
(* Side pots and their distribution, the pure part of the hand engine:     *)
(* CalculatePots of pot.go and distributePots, potWinners and              *)
(* closestLeftOfDealer of machine.go.  A bet table "total" is a function   *)
(* from the seats to the chips each seat has put in over the hand.      *)
(*                                                                         *)
(* Pots are indexed by their bet level: the sorted slice of the code is    *)
(* the function from the distinct positive bet levels, in the order of     *)
(* the levels.  Two levels never have the same eligible seats (somebody    *)
(* stops at the lower one), so mergePots returns its argument and leaves   *)
(* no trace here.                                                          *)
(***************************************************************************)
EXTENDS Integers, FiniteSets, FiniteSetsExt

CONSTANT N   \* number of seats; the seats are 0 .. N-1

\* config.go Validate; with more than 22 seats the 52 cards run out.
ASSUME SeatCountAssumption == N \in 2..22

Seats == 0..(N - 1)

PotLevels(total) == {total[s] : s \in DOMAIN total} \ {0}

\* Mutant: the chips below the level are counted again.
LevelBelow_Zero(total, l) == 0

LevelBelow(total, l) == Max({k \in PotLevels(total) : k < l} \cup {0})

\* Every seat that reached the level, folded or not.
Contributors(total, l) == {s \in DOMAIN total : total[s] >= l}

CalculatePots(total) ==
  [l \in PotLevels(total) |->
     [amount   |-> (l - LevelBelow(total, l)) * Cardinality(Contributors(total, l)),
      eligible |-> Contributors(total, l)]]

TotalPot(pots) == SumFunction([l \in DOMAIN pots |-> pots[l].amount])

-----------------------------------------------------------------------------
(* Distribution at showdown.  "live" is the set of seats that have not     *)
(* folded and strength[s] the rank of the hand of a live seat s.           *)

\* Mutant: the best hand wins every pot, eligible or not.
PotWinners_Ineligible(pot, live, strength) ==
  {s \in live : \A t \in live : strength[t] <= strength[s]}

PotWinners(pot, live, strength) ==
  {s \in pot.eligible \cap live :
      \A t \in pot.eligible \cap live : strength[t] <= strength[s]}

\* How many seats left of the dealer a seat sits: 1 .. N, the dealer last.
SeatsLeftOf(dealer, s) == IF s > dealer THEN s - dealer ELSE s - dealer + N

\* Mutant: the odd chips go to the first seat.
ClosestLeftOfDealer_FirstSeat(winners, dealer) == Min(winners)

ClosestLeftOfDealer(winners, dealer) ==
  CHOOSE s \in winners :
    \A t \in winners : SeatsLeftOf(dealer, s) <= SeatsLeftOf(dealer, t)

\* Mutant: the odd chips go to nobody.
PotShare_OddDropped(pot, s, live, strength, dealer) ==
  LET winners == PotWinners(pot, live, strength)
  IN  IF s \in winners THEN pot.amount \div Cardinality(winners) ELSE 0

\* What seat s gets from one pot: an equal share, and the odd chips if it is
\* the winner closest left of the dealer.  A pot without winners pays nobody.
PotShare(pot, s, live, strength, dealer) ==
  LET winners == PotWinners(pot, live, strength)
      odd     == pot.amount % Cardinality(winners)
  IN  IF s \notin winners THEN 0
      ELSE pot.amount \div Cardinality(winners)
           + (IF s = ClosestLeftOfDealer(winners, dealer) THEN odd ELSE 0)

DistributePots(pots, live, strength, dealer) ==
  [s \in Seats |->
     SumFunction([l \in DOMAIN pots |->
        PotShare(pots[l], s, live, strength, dealer)])]
=============================================================================
