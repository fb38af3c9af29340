------------------------------- MODULE MCRules -------------------------------
(***************************************************************************)
(* The pure rules of a showdown: MCPots for the chips, and for the cards   *)
(* every board of five and every two hands that can be dealt from one of a *)
(* few short decks, compared with a ranking of its own making.             *)
(***************************************************************************)
EXTENDS MCPots, HandEval

CONSTANT Decks   \* sets of card IDs

ASSUME DecksAssumption == \A deck \in Decks : deck \subseteq NewDeck

VARIABLE cards   \* the cards of a showdown, NoCards while bets are placed

NoCards == [board |-> {}, one |-> {}, two |-> {}]

DealBoard(deck) ==
  /\ cards = NoCards /\ BetsInit
  /\ \E board \in kSubset(5, deck) : cards' = [cards EXCEPT !.board = board]

DealHands(deck) ==
  /\ cards.board # {} /\ cards.one = {} /\ cards.board \subseteq deck
  /\ \E one \in kSubset(2, deck \ cards.board) :
       \E two \in kSubset(2, deck \ (cards.board \cup one)) :
         cards' = [cards EXCEPT !.one = one, !.two = two]

RulesInit == BetsInit /\ cards = NoCards

RulesNext ==
  \/ cards = NoCards /\ BetsNext /\ UNCHANGED cards
  \/ \E deck \in Decks : (DealBoard(deck) \/ DealHands(deck)) /\ UNCHANGED <<bets, inHand>>

RulesSpec == RulesInit /\ [][RulesNext]_<<bets, inHand, cards>>
-----------------------------------------------------------------------------
(* The ranking of poker hands by a score.                                  *)

Ranks(five) == {RankOf(id) : id \in five}

Copies(five, r) == Cardinality({id \in five : RankOf(id) = r})

Flush(five) == Cardinality({SuitOf(id) : id \in five}) = 1

Straight(five) ==
  Cardinality(Ranks(five)) = 5 /\ (Max(Ranks(five)) - Min(Ranks(five)) = 4 \/ Ranks(five) = Wheel)

\* How good the category is, from the number of different ranks and the largest
\* number of copies.
Category(five) ==
  LET different == Cardinality(Ranks(five))
      most == Max({Copies(five, r) : r \in Ranks(five)})
  IN  CASE Straight(five) /\ Flush(five) -> 8
        [] most = 4 -> 7
        [] most = 3 /\ different = 2 -> 6
        [] Flush(five) /\ ~Straight(five) -> 5
        [] Straight(five) /\ ~Flush(five) -> 4
        [] most = 3 /\ different = 3 -> 3
        [] most = 2 /\ different = 3 -> 2
        [] most = 2 /\ different = 4 -> 1
        [] OTHER -> 0

\* The rank of a card in a comparison: the ace of a wheel is the lowest card.
Pips(five, id) == IF Straight(five) /\ Ranks(five) = Wheel /\ RankOf(id) = Ace THEN 1 ELSE RankOf(id)

\* The place of a card in a comparison: how many others come before it.
Before(five, id) ==
  Cardinality({other \in five :
    LET here == Copies(five, RankOf(id)) there == Copies(five, RankOf(other)) IN
    \/ there > here
    \/ there = here /\ Pips(five, other) > Pips(five, id)
    \/ there = here /\ Pips(five, other) = Pips(five, id) /\ other > id})

Score(five) ==
  Category(five) * 15^5 + MapThenSumSet(LAMBDA id : Pips(five, id) * 15^(4 - Before(five, id)), five)

BestScore(seven) == Max({Score(five) : five \in kSubset(5, seven)})

One == cards.board \cup cards.one
Two == cards.board \cup cards.two

Dealt == cards.one # {}

\* Two hands compare as they do in poker (hand_eval.go:41), when one of them at
\* least has a pair.
ComparesLikePoker ==
  Dealt =>
    LET one == BestScore(One)
        two == BestScore(Two)
        sign == Compare(EvaluateBest7(One), EvaluateBest7(Two))
    IN  one >= 15^5 \/ two >= 15^5 => (sign > 0 <=> one > two) /\ (sign < 0 <=> one < two)

\* "evaluates all C(7,5)=21 five-card combinations from 7 cards and returns the
\* best EvaluatedHand" (hand_eval.go:62): the value of five of the cards that no
\* other five beat.
ReturnsTheBest ==
  Dealt =>
    \E five \in kSubset(5, One) :
      Evaluate5(five) = EvaluateBest7(One) /\ Score(five) = BestScore(One)
=============================================================================
