------------------------------- MODULE MCPots -------------------------------
(***************************************************************************)
(* Checks the operators of Pots on every bet table, set of live seats and  *)
(* ranking of the hands that N seats can reach, MaxBet chips each: chips   *)
(* are added and seats fold one at a time, and each state is an input.     *)
(***************************************************************************)
EXTENDS Pots

CONSTANT MaxBet   \* bound: chips of each seat

ASSUME BoundsAssumption == MaxBet \in Nat

VARIABLES bets, inHand

BetsInit == bets = [s \in Seats |-> 0] /\ inHand = Seats

AddChip(s) ==
  /\ s \in inHand /\ bets[s] < MaxBet
  /\ bets' = [bets EXCEPT ![s] = @ + 1]
  /\ UNCHANGED inHand

FoldSeat(s) ==
  /\ s \in inHand /\ Cardinality(inHand) > 1
  /\ inHand' = inHand \ {s}
  /\ UNCHANGED bets

BetsNext == \E s \in Seats : AddChip(s) \/ FoldSeat(s)
BetsSpec == BetsInit /\ [][BetsNext]_<<bets, inHand>>

-----------------------------------------------------------------------------
Lesser(a, b) == IF a < b THEN a ELSE b

\* The rule the pots stand for (pot.go:14): what seat s may win is, from each
\* seat, as much as s has put in itself.
Matched(s) == SumFunction([t \in Seats |-> Lesser(bets[s], bets[t])])

Rankings == [inHand -> 1..Cardinality(inHand)]

Winnings(strength, dealer) ==
  DistributePots(CalculatePots(bets), inHand, strength, dealer)

\* CalculatePots agrees with the rule: the pots a seat is eligible for add up
\* to what it may win.
EligibleForMatched ==
  \A s \in Seats :
    LET pots == CalculatePots(bets) IN
    SumFunction([l \in {k \in DOMAIN pots : s \in pots[k].eligible} |-> pots[l].amount])
      = Matched(s)

\* The single best hand wins all it may win, whatever the dealer's seat.
BestHandWinsAll ==
  \A strength \in Rankings, dealer \in Seats, s \in inHand :
    (\A t \in inHand \ {s} : strength[t] < strength[s])
      => Winnings(strength, dealer)[s] = Matched(s)

\* Seats with equal hands and equal bets differ by odd chips only, at most one
\* lot per pot, and of two of them the one nearer the dealer's left gets no less.
FairSplit ==
  \A strength \in Rankings, dealer \in Seats : \A s, t \in inHand :
    strength[s] = strength[t] /\ bets[s] = bets[t]
      /\ SeatsLeftOf(dealer, s) < SeatsLeftOf(dealer, t)
      => /\ Winnings(strength, dealer)[s] >= Winnings(strength, dealer)[t]
         /\ Winnings(strength, dealer)[s] - Winnings(strength, dealer)[t]
              <= (N - 1) * Cardinality(PotLevels(bets))
=============================================================================
