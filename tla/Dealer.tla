-------------------------------- MODULE Dealer -------------------------------
(***************************************************************************)
(* What the deal without a dealer promises (phase2/crypto_game.go:37): the *)
(* cards come as from a shuffled pack dealt by hand, two rounds of hole    *)
(* cards from the dealer's left, then flop, turn and river with one card   *)
(* burned before each.                                                     *)
(***************************************************************************)
EXTENDS Integers, Sequences, SequencesExt

CONSTANTS
  N,        \* players, 0..N-1
  NumCards  \* cards 0..NumCards-1

VARIABLES
  pack,   \* the shuffled pack, pack[1] on top; empty before the shuffle
  button, \* the dealer's seat
  holes,  \* holes[p]: p's hole cards
  board   \* the community cards

Players == 0..(N - 1)

Init ==
  /\ pack = << >> /\ board = << >>
  /\ button \in Players
  /\ holes = [p \in Players |-> << >>]

Shuffle ==
  /\ pack = << >>
  /\ Len(pack') = NumCards /\ IsInjective(pack') /\ ToSet(pack') = 0..(NumCards - 1)
  /\ UNCHANGED <<button, holes, board>>

\* How far to the left of the button p sits, 1 to N.
LeftOfButton(p) == IF p > button THEN p - button ELSE p - button + N

DealHoles ==
  /\ pack # << >> /\ \A p \in Players : holes[p] = << >>
  /\ holes' = [p \in Players |-> <<pack[LeftOfButton(p)], pack[N + LeftOfButton(p)]>>]
  /\ UNCHANGED <<pack, button, board>>

\* The cards of the pack that become community cards: none of the burned ones.
BoardCards ==
  <<pack[2*N + 2], pack[2*N + 3], pack[2*N + 4], pack[2*N + 6], pack[2*N + 8]>>

DealBoard ==
  /\ \A p \in Players : holes[p] # << >>
  /\ Len(board) < 5
  /\ board' = SubSeq(BoardCards, 1, IF board = << >> THEN 3 ELSE Len(board) + 1)
  /\ UNCHANGED <<pack, button, holes>>

Next == Shuffle \/ DealHoles \/ DealBoard
Spec == Init /\ [][Next]_<<pack, button, holes, board>>
=============================================================================
