----------------------------- MODULE ChipLedger -----------------------------
(***************************************************************************)
(* What a poker table promises about chips, whatever the rules of the game *)
(* are: chips move from the holders to the middle and from the middle to   *)
(* the holders; a holder gains only when the whole middle is paid out; no  *)
(* chip is made or lost.  Abstract specification, implemented by           *)
(* PokerTable.                                                             *)
(***************************************************************************)
EXTENDS Integers, Functions

CONSTANT Holders

VARIABLES held, middle

Init == held \in [Holders -> Nat] /\ middle = 0

\* Any number of holders put chips in the middle.
Wager ==
  /\ held' \in [Holders -> Nat]
  /\ \A h \in Holders : held'[h] <= held[h]
  /\ middle' = middle + SumFunction(held) - SumFunction(held')

\* The middle is paid out to the last chip, the last wager included; nobody
\* ends up with more than the middle on top of the chips it held.
Pay ==
  /\ held' \in [Holders -> Nat]
  /\ middle' = 0
  /\ SumFunction(held') = SumFunction(held) + middle
  /\ \A h \in Holders :
       held'[h] <= SumFunction(held) + middle

Spec == Init /\ [][Wager \/ Pay]_<<held, middle>>
=============================================================================
