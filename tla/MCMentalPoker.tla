---------------------------- MODULE MCMentalPoker ----------------------------
(***************************************************************************)
(* Two shuffles to choose from: one that turns the deck round and one that *)
(* rotates it, which do not commute.  The powers of 2 repeat after 17, and *)
(* a wrong exponent is 2 or 9 times the own one: 9 undoes 2.               *)
(***************************************************************************)
EXTENDS MentalPoker

Reversal == [i \in 0..(NumCards - 1) |-> NumCards - 1 - i]
Rotation == [i \in 0..(NumCards - 1) |-> (i + 5) % NumCards]

MCPerms == {Reversal, Rotation}
MCMultiples == {2, 9}
=============================================================================
