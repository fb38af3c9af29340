------------------------------ MODULE HandEval -------------------------------
(***************************************************************************)
(* Cards and the value of a hand (phase1/deck.go, hand_eval.go).  Cards    *)
(* are their IDs, hands are sets of them: the order in which the code      *)
(* holds them decides nothing.  Of an EvaluatedHand the rank and the       *)
(* kickers are kept.                                                       *)
(***************************************************************************)
EXTENDS Integers, Sequences, SequencesExt, FiniteSets, FiniteSetsExt

Ace == 14

\* CardFromID and CardID.
CardFromID(id) == [suit |-> id \div 13, rank |-> (id % 13) + 2]
CardID(card)   == card.suit * 13 + (card.rank - 2)

NewDeck == {CardID([suit |-> s, rank |-> r]) : s \in 0..3, r \in 2..Ace}

RankOf(id) == CardFromID(id).rank
SuitOf(id) == CardFromID(id).suit

\* HandRank, in ascending order.
HandRanks == <<"HighCard", "OnePair", "TwoPair", "ThreeOfAKind", "Straight", "Flush",
               "FullHouse", "FourOfAKind", "StraightFlush", "RoyalFlush">>

HandRank(name) == CHOOSE i \in DOMAIN HandRanks : HandRanks[i] = name

\* Compare: 1, -1, or 0; kickers are compared as far as both hands have them.
Compare(h, other) ==
  LET differ == {i \in DOMAIN h.kickers \cap DOMAIN other.kickers :
                   h.kickers[i] # other.kickers[i]}
  IN  IF h.rank # other.rank THEN (IF h.rank > other.rank THEN 1 ELSE -1)
      ELSE IF differ = {} THEN 0
      ELSE IF h.kickers[Min(differ)] > other.kickers[Min(differ)] THEN 1 ELSE -1

\* Mutant: groups by rank only, as the cards are sorted.
GroupByRank_RankOnly(five) ==
  LET ranks == {RankOf(id) : id \in five} IN
  SetToSortSeq({[rank |-> r, count |-> Cardinality({id \in five : RankOf(id) = r})] : r \in ranks},
               LAMBDA g, h : g.rank > h.rank)

\* groupByRank: by count, then by rank.
GroupByRank(five) ==
  LET ranks == {RankOf(id) : id \in five} IN
  SetToSortSeq({[rank |-> r, count |-> Cardinality({id \in five : RankOf(id) = r})] : r \in ranks},
               LAMBDA g, h : g.count > h.count \/ (g.count = h.count /\ g.rank > h.rank))

CheckFlush(five) == \A id, other \in five : SuitOf(id) = SuitOf(other)

Wheel == {Ace, 2, 3, 4, 5}

\* checkStraight: the highest rank of the straight, the five of a wheel, or 0.
StraightHigh(five) ==
  LET ranks == {RankOf(id) : id \in five} IN
  IF Cardinality(ranks) = 5 /\ Max(ranks) - Min(ranks) = 4 THEN Max(ranks)
  ELSE IF ranks = Wheel THEN 5 ELSE 0

\* evaluate5.  The kickers of all hands but straights are the ranks of the groups:
\* those of a flush, which the code lists card by card, are all different.
Evaluate5(five) ==
  LET groups   == GroupByRank(five)
      flush    == CheckFlush(five)
      straight == StraightHigh(five)
      first    == groups[1].count
      second   == groups[2].count
      rank ==
        CASE flush /\ straight = Ace       -> "RoyalFlush"
          [] flush /\ straight \in 5..13   -> "StraightFlush"
          [] first = 4                     -> "FourOfAKind"
          [] first = 3 /\ second = 2       -> "FullHouse"
          [] flush /\ straight = 0         -> "Flush"
          [] ~flush /\ straight # 0        -> "Straight"
          [] first = 3 /\ second = 1       -> "ThreeOfAKind"
          [] first = 2 /\ second = 2       -> "TwoPair"
          [] first = 2 /\ second = 1       -> "OnePair"
          [] OTHER                         -> "HighCard"
  IN  [rank    |-> HandRank(rank),
       kickers |-> IF straight # 0 THEN <<straight>>
                   ELSE [i \in DOMAIN groups |-> groups[i].rank]]

\* Where EvaluateBest7 starts from: a high card without kickers.
NoHand == [rank |-> HandRank("HighCard"), kickers |-> << >>]

\* EvaluateBest7: a hand of five replaces the best so far when it beats it.
EvaluateBest7(seven) ==
  FoldSet(LAMBDA h, best : IF Compare(h, best) > 0 THEN h ELSE best,
          NoHand, {Evaluate5(five) : five \in kSubset(5, seven)})
=============================================================================
