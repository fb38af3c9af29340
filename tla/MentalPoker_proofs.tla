------------------------- MODULE MentalPoker_proofs --------------------------
(***************************************************************************)
(* Proofs about MentalPoker, for any number of players, any deck that is   *)
(* large enough, any shuffles and any number of faults: hole cards stay    *)
(* private and the log of the deal explains the board, whether or not      *)
(* something has been substituted unnoticed; and until then the deal is    *)
(* one that a dealer could have made.                                      *)
(***************************************************************************)
EXTENDS MentalPoker, SequenceTheorems, TLAPS

-----------------------------------------------------------------------------
(* The inductive invariant.  What depends on the cards being the right ones *)
(* holds until a substitution has passed unnoticed, the rest always.        *)

\* A card with the layers of the players in S on it, and the card that a value stands
\* for with its layers off.
Locked(card, S) == [power |-> card + 1, layers |-> [p \in Players |-> IF p \in S THEN 1 ELSE 0]]
CardOf(value)   == value.power - 1

Values    == [power : Int, layers : [Players -> Int]]
Decks     == [Positions -> Values]
Exponents == [layer : Players \cup {Nobody}, times : Int]
Partials  == [by : Players, position : Positions, input : Values, result : Values,
              proof : [H : Exponents, ciphertext : Values, result : Values]]

\* Every card once, all under the layers of the players in S.
PackUnder(d, S) ==
  /\ d = [i \in Positions |-> Locked(CardOf(d[i]), S)]
  /\ \A i \in Positions : CardOf(d[i]) \in Positions
  /\ \A i, j \in Positions : CardOf(d[i]) = CardOf(d[j]) => i = j
  /\ \A c \in Positions : \E i \in Positions : CardOf(d[i]) = c

ShuffleInv ==
  /\ shuffler \in Players /\ deckInHand \in Decks
  /\ deck # Nil => deck \in Decks
  /\ ~unnoticed => /\ PackUnder(deckInHand, 0..(shuffler - 1))
                   /\ deck # Nil => PackUnder(deck, Players)

\* The cards on the table are those at their places in the deck.
SeatsLeft(p) == IF p > dealer THEN p - dealer ELSE p - dealer + N
DealtTo(p)   == [round \in 1..2 |-> CardOf(deck[(round - 1) * N + SeatsLeft(p) - 1])]
BoardDealt   == \A i \in 1..Len(board) : board[i] = CardOf(deck[BoardPositions[i]])

NoHands    == holeCards = [p \in Players |-> << >>]
HandsDealt == \A p \in Players : holeCards[p] # << >>

GameInv ==
  /\ dealer \in Players
  /\ \/ NoHands /\ board = << >>
     \/ HandsDealt /\ deck # Nil
  /\ board \in Seq(Positions) /\ Len(board) \in {0, 3, 4, 5}
  /\ ~unnoticed => /\ HandsDealt => holeCards = [p \in Players |-> DealtTo(p)]
                   /\ BoardDealt

\* The call that is running: the first position it reveals, how many cards, and
\* whose layers are on its card after k partial decryptions.
Dealing       == DealingHoles \/ DealingBoard
FirstPosition == IF DealingHoles THEN 0 ELSE StartPos + 1
CardsToDeal   == IF DealingHoles THEN 2 * N ELSE BatchSize
PartialsDue   == IF DealingHoles THEN N - 1 ELSE N
StillOn(k)    == Players \ {Decryptors[j] : j \in 1..k}

\* What a value has to do with the owner of the hole card being revealed: the owner's
\* layer is as it was in the deck.
OwnersLayerOn(value) ==
  DealingHoles => value.layers[Recipient(Position)] = deck[Position].layers[Recipient(Position)]

\* The k-th partial decryption of the call, whatever exponent it was made with.
MadeAt(k, pd) ==
  /\ pd.by = Decryptors[k] /\ pd.position = Position
  /\ Verify(pd) /\ OwnersLayerOn(pd.result)

\* The k-th partial decryption of the call as the protocol has it.
PartialAt(k) ==
  LET by     == Decryptors[k]
      input  == Locked(CardOf(deck[Position]), StillOn(k - 1))
      result == Locked(CardOf(deck[Position]), StillOn(k))
  IN  [by |-> by, position |-> Position, input |-> input, result |-> result,
       proof |-> ProveDecryption(D(by), input, result)]

CallInv ==
  /\ dealt \in Seq(Positions) /\ partials \in Seq(Partials)
  /\ Dealing =>
       /\ Len(dealt) < CardsToDeal /\ Len(partials) <= PartialsDue
       /\ \A k \in 1..Len(partials) : MadeAt(k, partials[k])
       /\ ~unnoticed =>
            /\ \A i \in 1..Len(dealt) : dealt[i] = CardOf(deck[FirstPosition + i - 1])
            /\ \A k \in 1..Len(partials) : partials[k] = PartialAt(k)
  /\ ~Dealing => dealt = << >> /\ partials = << >>

\* The log has a decryption of what is at a position by each player, one of which
\* gives the card.
Explained(entries, position, card) ==
  /\ \A p \in Players :
       \E j \in DOMAIN entries : entries[j].position = position /\ entries[j].by = p
  /\ \E j \in DOMAIN entries :
       entries[j].position = position /\ FieldToCard(entries[j].result) = card

LogInv ==
  /\ dealLog \in Seq(Partials) /\ VerifyAllProofs(dealLog)
  /\ \A i \in 1..Len(board) : Explained(dealLog, BoardPositions[i], board[i])
  /\ DealingBoard => \A i \in 1..Len(dealt) : Explained(dealLog, StartPos + i, dealt[i])

WireInv == HoleCardsPrivate /\ (deck = Nil => wire = {})

DealInv == ShuffleInv /\ GameInv /\ CallInv /\ LogInv /\ WireInv

\* A substitution that has passed unnoticed is not forgotten.
Remembered == ~unnoticed' => ~unnoticed

-----------------------------------------------------------------------------
(* Cards under encryption.                                                 *)

LEMMA PlayerNumbers ==
  /\ N \in Nat /\ N >= 2 /\ NumCards \in Nat /\ NumCards >= 2 * N + 8
  /\ \A p \in Players : p \in Nat /\ p <= N - 1
  /\ \A k \in Nat : k <= N - 1 => k \in Players
  /\ \A i \in Positions : i \in Nat /\ i <= NumCards - 1
  /\ \A k \in Nat : k <= NumCards - 1 => k \in Positions
BY DealAssumption DEF Players, Positions

LEMMA GroupOrder ==
  /\ Order \in Nat /\ Order > 1
  /\ \A c \in Positions : c + 1 \in Nat /\ c + 1 < Order
  /\ Multiples \subseteq Int
<1>1. Order \in Nat /\ Order > NumCards /\ Multiples \subseteq 2..(Order - 1)
  BY DealAssumption
<1>2. QED BY <1>1, PlayerNumbers

LEMMA LockedParts ==
  ASSUME NEW c \in Positions, NEW S
  PROVE  /\ Locked(c, S).power = c + 1 /\ CardOf(Locked(c, S)) = c
         /\ \A p \in Players : Locked(c, S).layers[p] = IF p \in S THEN 1 ELSE 0
         /\ Locked(c, S) \in Values
<1>1. c \in Nat
  BY PlayerNumbers
<1>2. QED BY <1>1 DEF Locked, Values, CardOf

LEMMA LayerSet ==
  ASSUME NEW c \in Int, NEW f \in [Players -> Int], NEW p \in Players, NEW v \in Int
  PROVE  [[power |-> c, layers |-> f] EXCEPT !.layers[p] = v]
           = [power |-> c, layers |-> [f EXCEPT ![p] = v]]
<1> DEFINE R == [power : {c}, layers : [Players -> Int]]
           r == [power |-> c, layers |-> f]
           x == [r EXCEPT !.layers[p] = v]
<1>1. r \in R /\ r.power = c /\ r.layers = f
  OBVIOUS
<1> HIDE DEF r
<1>2. x \in R /\ x.power = r.power /\ x.layers = [r.layers EXCEPT ![p] = v]
  BY <1>1
<1> HIDE DEF x
<1>3. x = [power |-> x.power, layers |-> x.layers]
  BY <1>2
<1>4. QED BY <1>1, <1>2, <1>3 DEF x, r

\* Encrypting puts a layer on and decrypting takes it off, whichever others are there.
LEMMA EncryptLocked ==
  ASSUME NEW c \in Positions, NEW S \in SUBSET Players, NEW p \in Players, p \notin S
  PROVE  Encrypt(p, Locked(c, S)) = Locked(c, S \cup {p})
<1> DEFINE f == [q \in Players |-> IF q \in S THEN 1 ELSE 0]
           r == [power |-> c + 1, layers |-> f]
<1>1. f \in [Players -> Int] /\ \A q \in Players : f[q] = IF q \in S THEN 1 ELSE 0
  OBVIOUS
<1>2. Locked(c, S) = r /\ r.layers = f /\ c + 1 \in Int
  BY GroupOrder DEF Locked
<1> HIDE DEF f
<1>3. \A v \in Int : [r EXCEPT !.layers[p] = v] = [power |-> c + 1, layers |-> [f EXCEPT ![p] = v]]
  BY <1>1, <1>2, LayerSet
<1> HIDE DEF r
<1>4. Encrypt(p, r) = [r EXCEPT !.layers[p] = f[p] + 1]
  BY <1>2 DEF Encrypt
<1>5. Encrypt(p, r) = [power |-> c + 1, layers |-> [f EXCEPT ![p] = f[p] + 1]]
  BY <1>1, <1>3, <1>4
<1>6. [f EXCEPT ![p] = f[p] + 1] = [q \in Players |-> IF q \in S \cup {p} THEN 1 ELSE 0]
  <2> DEFINE h == [f EXCEPT ![p] = f[p] + 1]
  <2>1. h = [q \in Players |-> h[q]] /\ \A q \in Players : q # p => h[q] = f[q]
    BY <1>1
  <2>2. f[p] = 0 /\ h[p] = f[p] + 1
    BY <1>1
  <2> HIDE DEF h
  <2>3. \A q \in Players : h[q] = IF q \in S \cup {p} THEN 1 ELSE 0
    BY <1>1, <2>1, <2>2
  <2>4. h = [q \in Players |-> IF q \in S \cup {p} THEN 1 ELSE 0]
    BY <2>1, <2>3
  <2>5. QED BY <2>4 DEF h
<1>7. QED BY <1>2, <1>5, <1>6 DEF Locked

LEMMA DecryptLocked ==
  ASSUME NEW c \in Positions, NEW S \in SUBSET Players, NEW p \in S
  PROVE  Decrypt(p, Locked(c, S)) = Locked(c, S \ {p})
<1>1. c + 1 \in Nat /\ c + 1 < Order /\ Order \in Nat
  BY GroupOrder
<1>2. ((c + 1) * 1) % Order = c + 1
  BY <1>1
<1>3. /\ Locked(c, S).power = c + 1
      /\ \A q \in Players : Locked(c, S).layers[q] = IF q \in S THEN 1 ELSE 0
  BY LockedParts
<1>4. D(p).times = 1 /\ D(p).layer = p
  BY DEF D, Exponent
<1>5. \A q \in Players : Locked(c, S).layers[q] - (IF q = D(p).layer THEN 1 ELSE 0)
                           = IF q \in S \ {p} THEN 1 ELSE 0
  BY <1>3, <1>4
<1>6. QED BY <1>2, <1>3, <1>4, <1>5 DEF Decrypt, Raise, Locked

LEMMA EncryptedValue ==
  ASSUME NEW p \in Players, NEW v \in Values
  PROVE  Encrypt(p, v) \in Values
<1> DEFINE f == v.layers
           c == v.power
<1>1. c \in Int /\ f \in [Players -> Int] /\ v = [power |-> c, layers |-> f]
  BY DEF Values
<1>2. Encrypt(p, v) = [v EXCEPT !.layers[p] = f[p] + 1]
  BY DEF Encrypt
<1> HIDE DEF f, c
<1>3. f[p] + 1 \in Int
  BY <1>1
<1>4. [[power |-> c, layers |-> f] EXCEPT !.layers[p] = f[p] + 1]
        = [power |-> c, layers |-> [f EXCEPT ![p] = f[p] + 1]]
  BY <1>1, <1>3, LayerSet
<1>5. [f EXCEPT ![p] = f[p] + 1] \in [Players -> Int]
  BY <1>1, <1>3
<1>6. QED BY <1>1, <1>2, <1>4, <1>5 DEF Values

\* Raising to any exponent gives a value, whose power is one of the group's.
LEMMA RaisedValue ==
  ASSUME NEW v \in Values, NEW e \in Exponents
  PROVE  /\ Raise(v, e) \in Values
         /\ Raise(v, e).power \in 0..(Order - 1)
         /\ \A q \in Players : q # e.layer => Raise(v, e).layers[q] = v.layers[q]
<1>1. /\ v.power \in Int /\ e.times \in Int /\ Order \in Nat /\ Order > 1
      /\ \A q \in Players : v.layers[q] \in Int
  BY GroupOrder DEF Values, Exponents
<1>2. v.power * e.times \in Int
  BY <1>1
<1>3. \A m \in Int : m % Order \in 0..(Order - 1)
  BY <1>1
<1>4. Raise(v, e).power \in 0..(Order - 1) /\ Raise(v, e).power \in Int
  BY <1>1, <1>2, <1>3 DEF Raise
<1>5. \A q \in Players : v.layers[q] - (IF q = e.layer THEN 1 ELSE 0) \in Int
  BY <1>1
<1>6. Raise(v, e).layers \in [Players -> Int]
  BY <1>5 DEF Raise
<1>7. Raise(v, e) = [power |-> Raise(v, e).power, layers |-> Raise(v, e).layers]
  BY DEF Raise
<1>8. \A q \in Players : q # e.layer => Raise(v, e).layers[q] = v.layers[q]
  BY <1>1 DEF Raise
<1>9. QED BY <1>4, <1>6, <1>7, <1>8 DEF Values

\* The exponents that a player has: with none of them goes another player's layer.
LEMMA OwnExponents ==
  ASSUME NEW p \in Players
  PROVE  \A e \in {D(p)} \cup OtherExponents(p) :
           e \in Exponents /\ \A q \in Players : q # p => q # e.layer
<1>1. Multiples \subseteq Int /\ \A q \in Players : q # Nobody
  BY GroupOrder, PlayerNumbers DEF Nobody
<1>2. QED BY <1>1 DEF D, OtherExponents, Exponent, Exponents

\* A value that is a card has no layer left, and what FieldToCard finds is a card.
LEMMA OpenedCard ==
  ASSUME NEW c \in Positions
  PROVE  FieldToCard(Locked(c, {})) = c /\ c # NoCard
<1>1. c \in Nat /\ c + 1 \in 1..NumCards /\ (c + 1) - 1 = c
  BY PlayerNumbers
<1>2. QED BY <1>1, LockedParts DEF FieldToCard, NoCard

LEMMA FoundCard ==
  ASSUME NEW v, FieldToCard(v) # NoCard
  PROVE  FieldToCard(v) \in Positions
<1>1. v.power \in 1..NumCards /\ FieldToCard(v) = v.power - 1
  BY DEF FieldToCard
<1>2. QED BY <1>1, PlayerNumbers

LEMMA PlaintextPack == PackUnder(BuildPlaintextDeck, {}) /\ BuildPlaintextDeck \in Decks
<1>1. \A i \in Positions : BuildPlaintextDeck[i] = Locked(i, {})
  BY DEF BuildPlaintextDeck, CardToField, Locked
<1>2. \A i \in Positions : CardOf(BuildPlaintextDeck[i]) = i /\ BuildPlaintextDeck[i] \in Values
  BY <1>1, LockedParts
<1>3. BuildPlaintextDeck = [i \in Positions |-> Locked(CardOf(BuildPlaintextDeck[i]), {})]
  BY <1>1, <1>2 DEF BuildPlaintextDeck
<1>4. BuildPlaintextDeck \in Decks
  BY <1>2 DEF BuildPlaintextDeck, Decks
<1>5. QED BY <1>2, <1>3, <1>4 DEF PackUnder

LEMMA EncryptedDeck ==
  ASSUME NEW p \in Players, NEW d \in Decks
  PROVE  EncryptAll(p, d) \in Decks
<1>1. \A i \in Positions : Encrypt(p, d[i]) \in Values
  BY EncryptedValue DEF Decks
<1>2. QED BY <1>1 DEF EncryptAll, Decks

LEMMA DrawnPermutation ==
  ASSUME NEW perm \in Perms
  PROVE  /\ perm \in [Positions -> Positions]
         /\ \A i, j \in Positions : perm[i] = perm[j] => i = j
         /\ \A k \in Positions : \E i \in Positions : perm[i] = k
<1>1. perm \in Bijection(Positions, Positions)
  BY DealAssumption DEF Positions
<1>2. QED BY <1>1 DEF Bijection, Injection, Surjection, IsInjective

LEMMA ShuffledDeck ==
  ASSUME deckInHand \in Decks, shuffler \in Players, NEW perm \in Perms
  PROVE  /\ StepOutput(shuffler, perm) \in Decks
         /\ Substitutes(shuffler, StepOutput(shuffler, perm)) \subseteq Decks
<1> DEFINE out == StepOutput(shuffler, perm)
<1>1. \A i \in Positions : EncryptAll(shuffler, deckInHand)[perm[i]] \in Values
  <2>1. EncryptAll(shuffler, deckInHand) \in Decks
    BY EncryptedDeck
  <2>2. \A i \in Positions : perm[i] \in Positions
    BY DrawnPermutation
  <2>3. QED BY <2>1, <2>2 DEF Decks
<1>2. out \in Decks
  BY <1>1 DEF StepOutput, Decks
<1> HIDE DEF out
<1>3. 0 \in Positions
  BY PlayerNumbers
<1>4. [out EXCEPT ![1] = out[0]] \in Decks
  BY <1>2, <1>3 DEF Decks
<1>5. EncryptAll(shuffler, BuildPlaintextDeck) \in Decks
  BY PlaintextPack, EncryptedDeck
<1>6. QED BY <1>2, <1>4, <1>5 DEF Substitutes, out

\* A shuffle step puts one more layer on every card and keeps every card.
LEMMA StepOutputPack ==
  ASSUME NEW p \in Players, NEW S \in SUBSET Players, p \notin S, PackUnder(deckInHand, S),
         NEW perm \in Perms
  PROVE  PackUnder(StepOutput(p, perm), S \cup {p})
<1> DEFINE d == deckInHand
           out == StepOutput(p, perm)
<1>1. /\ perm \in [Positions -> Positions]
      /\ \A i, j \in Positions : perm[i] = perm[j] => i = j
      /\ \A k \in Positions : \E i \in Positions : perm[i] = k
  BY DrawnPermutation
<1>2. \A i \in Positions : d[i] = Locked(CardOf(d[i]), S) /\ CardOf(d[i]) \in Positions
  BY DEF PackUnder
<1>3. \A i \in Positions : EncryptAll(p, d)[i] = Locked(CardOf(d[i]), S \cup {p})
  BY <1>2, EncryptLocked DEF EncryptAll
<1>4. out = [i \in Positions |-> EncryptAll(p, d)[perm[i]]]
  BY DEF StepOutput
<1>5. \A i \in Positions : out[i] = Locked(CardOf(d[perm[i]]), S \cup {p})
  BY <1>1, <1>3, <1>4
<1> HIDE DEF out
<1>6. \A i \in Positions : CardOf(out[i]) = CardOf(d[perm[i]])
  BY <1>1, <1>2, <1>5, LockedParts
<1>7. out = [i \in Positions |-> Locked(CardOf(out[i]), S \cup {p})]
  BY <1>4, <1>5, <1>6
<1>8. \A i \in Positions : CardOf(out[i]) \in Positions
  BY <1>1, <1>2, <1>6
<1>9. ASSUME NEW i \in Positions, NEW j \in Positions, CardOf(out[i]) = CardOf(out[j])
      PROVE  i = j
  <2>1. CardOf(d[perm[i]]) = CardOf(d[perm[j]]) /\ perm[i] \in Positions /\ perm[j] \in Positions
    BY <1>1, <1>6, <1>9
  <2>2. \A k, l \in Positions : CardOf(d[k]) = CardOf(d[l]) => k = l
    BY DEF PackUnder
  <2>3. perm[i] = perm[j]
    BY ONLY <2>1, <2>2
  <2>4. QED BY <1>1, <2>3
<1>10. ASSUME NEW c \in Positions PROVE \E i \in Positions : CardOf(out[i]) = c
  <2>1. PICK k \in Positions : CardOf(d[k]) = c
    BY DEF PackUnder
  <2>2. PICK i \in Positions : perm[i] = k
    BY <1>1
  <2>3. QED BY <2>1, <2>2, <1>6
<1>11. PackUnder(out, S \cup {p})
  BY <1>7, <1>8, <1>9, <1>10 DEF PackUnder
<1>12. QED BY <1>11 DEF out

-----------------------------------------------------------------------------
(* The shuffle.                                                            *)

LEMMA UnderHand ==
  ASSUME NEW p \in Players
  PROVE  /\ 0..(p - 1) \in SUBSET Players /\ p \notin 0..(p - 1)
         /\ (0..(p - 1)) \cup {p} = 0..p
         /\ p = N - 1 => 0..p = Players
         /\ p # N - 1 => (p + 1) % N = p + 1 /\ p + 1 \in Players
         /\ p = N - 1 => (p + 1) % N = 0
         /\ 0 \in Players /\ 0..(0 - 1) = {}
BY PlayerNumbers DEF Players

\* A step keeps the pack when what is handed on is what the shuffler has committed to
\* and has computed; whatever is handed on is refused or is a deck.
LEMMA ShuffleHandedOn ==
  ASSUME ShuffleInv, NEW perm \in Perms, NEW sent \in Decks, NEW commitment,
         ShuffleStep(sent, commitment), Remembered,
         ~unnoticed' => commitment = NewDeckCommitment(StepOutput(shuffler, perm))
  PROVE  ShuffleInv'
<1> DEFINE out == StepOutput(shuffler, perm)
<1>1. shuffler \in Players /\ deck = Nil
  BY DEF ShuffleInv, ShuffleStep
<1>2. ASSUME ~unnoticed' PROVE PackUnder(out, 0..shuffler)
  <2> DEFINE S == 0..(shuffler - 1)
  <2>1. S \in SUBSET Players /\ shuffler \notin S /\ S \cup {shuffler} = 0..shuffler
    BY <1>1, UnderHand
  <2>2. PackUnder(deckInHand, S)
    BY <1>2 DEF Remembered, ShuffleInv
  <2> HIDE DEF S
  <2>3. PackUnder(StepOutput(shuffler, perm), S \cup {shuffler})
    BY <1>1, <2>1, <2>2, StepOutputPack
  <2>4. QED BY <2>1, <2>3
<1>3. CASE ~VerifyStep(commitment, sent)
  <2>1. shuffler' = 0 /\ deckInHand' = BuildPlaintextDeck /\ deck' = Nil
    BY <1>3 DEF ShuffleStep
  <2>2. PackUnder(deckInHand', 0..(shuffler' - 1)) /\ deckInHand' \in Decks
    BY <2>1, PlaintextPack, UnderHand, <1>1
  <2>3. QED BY <1>1, <2>1, <2>2, UnderHand DEF ShuffleInv
<1>4. CASE VerifyStep(commitment, sent)
  <2>1. /\ shuffler' = (shuffler + 1) % N
        /\ deckInHand' = IF shuffler = N - 1 THEN BuildPlaintextDeck ELSE sent
        /\ deck' = IF shuffler = N - 1 THEN sent ELSE Nil
    BY <1>4 DEF ShuffleStep
  <2>2. ~unnoticed' => PackUnder(sent, 0..shuffler)
    <3>1. ~unnoticed' => sent = out
      BY <1>4 DEF VerifyStep, VerifyDeck, NewDeckCommitment
    <3> HIDE DEF out
    <3>2. QED BY <1>2, <3>1
  <2>3. CASE shuffler = N - 1
    <3>1. shuffler' = 0 /\ deckInHand' = BuildPlaintextDeck /\ deck' = sent
      BY <1>1, <2>1, <2>3, UnderHand
    <3>2. ~unnoticed' => PackUnder(deck', Players)
      BY <1>1, <2>2, <2>3, <3>1, UnderHand
    <3>3. PackUnder(deckInHand', 0..(shuffler' - 1)) /\ deckInHand' \in Decks
      BY <3>1, PlaintextPack, UnderHand, <1>1
    <3>4. QED BY <3>1, <3>2, <3>3, UnderHand, <1>1 DEF ShuffleInv
  <2>4. CASE shuffler # N - 1
    <3>1. shuffler' = shuffler + 1 /\ shuffler' \in Players /\ deckInHand' = sent /\ deck' = Nil
      BY <1>1, <2>1, <2>4, UnderHand
    <3>2. (shuffler + 1) - 1 = shuffler
      BY <1>1, PlayerNumbers
    <3>3. QED BY <2>2, <3>1, <3>2 DEF ShuffleInv
  <2>5. QED BY <2>3, <2>4
<1>5. QED BY <1>3, <1>4

-----------------------------------------------------------------------------
(* Who gets which card, and who decrypts it.                               *)

\* The cards go round from the dealer's left: each player has one place in a round.
LEMMA Rounds ==
  ASSUME dealer \in Players, NEW p \in Players
  PROVE  /\ SeatsLeft(p) \in 1..N
         /\ \A i \in 0..(N - 1) : Recipient(i) = p <=> i = SeatsLeft(p) - 1
         /\ \A i \in N..(2 * N - 1) : Recipient(i) = p <=> i = N + SeatsLeft(p) - 1
<1>1. /\ N \in Nat /\ N >= 2 /\ dealer \in Nat /\ dealer <= N - 1
      /\ p \in Nat /\ p <= N - 1
  BY PlayerNumbers
<1>2. SeatsLeft(p) \in 1..N
  BY <1>1 DEF SeatsLeft
<1>3. ASSUME NEW i \in 0..(N - 1) PROVE Recipient(i) = p <=> i = SeatsLeft(p) - 1
  <2>1. (dealer + 1 + i) % N = IF dealer + 1 + i < N THEN dealer + 1 + i ELSE dealer + 1 + i - N
    BY <1>1
  <2>2. QED BY <1>1, <2>1 DEF Recipient, SeatsLeft
<1>4. ASSUME NEW i \in N..(2 * N - 1) PROVE Recipient(i) = p <=> i = N + SeatsLeft(p) - 1
  <2>1. (dealer + 1 + i) % N = IF dealer + 1 + i < 2 * N THEN dealer + 1 + i - N
                               ELSE dealer + 1 + i - 2 * N
    BY <1>1
  <2>2. QED BY <1>1, <2>1 DEF Recipient, SeatsLeft
<1>5. QED BY <1>2, <1>3, <1>4

LEMMA RecipientPlays ==
  ASSUME dealer \in Players, NEW i \in Nat
  PROVE  Recipient(i) \in Players
BY PlayerNumbers DEF Recipient, Players

LEMMA HandsAreDealt ==
  ASSUME GameInv
  PROVE  /\ board = << >> <=> Len(board) = 0
         /\ DealingHoles => board = << >> /\ NoHands
         /\ ~DealingHoles /\ deck # Nil => HandsDealt
<1>1. board = << >> <=> Len(board) = 0
  <2>1. Len(<< >>) = 0 /\ \A seq \in Seq(Positions) : seq # << >> => Len(seq) \in Nat \ {0}
    BY EmptySeq
  <2>2. QED BY <2>1 DEF GameInv
<1>2. ASSUME DealingHoles PROVE board = << >> /\ NoHands
  BY <1>2 DEF DealingHoles, HandsDealt, GameInv
<1>3. ASSUME ~DealingHoles, deck # Nil PROVE HandsDealt
  BY <1>3 DEF DealingHoles, HandsDealt
<1>4. QED BY <1>1, <1>2, <1>3

LEMMA HandsNotEmpty ==
  /\ \A p : DealtTo(p) # << >>
  /\ \A p, cards : HoleCardsOf(p, cards) # << >>
<1>1. DOMAIN << >> = {}
  OBVIOUS
<1>2. \A p, cards : 1 \in DOMAIN DealtTo(p) /\ 1 \in DOMAIN HoleCardsOf(p, cards)
  BY DEF DealtTo, HoleCardsOf
<1>3. QED BY <1>1, <1>2

LEMMA Batches ==
  ASSUME GameInv, Dealing, Len(dealt) \in Nat, Len(dealt) < CardsToDeal
  PROVE  /\ Position = FirstPosition + Len(dealt)
         /\ Position \in Positions /\ Position \in Nat
         /\ DealingHoles => Position < 2 * N /\ board = << >>
         /\ ~DealingHoles => /\ Position >= 2 * N
                             /\ Position = BoardPositions[Len(board) + Len(dealt) + 1]
                             /\ Len(board) + Len(dealt) + 1 \in 1..5
<1>1. N \in Nat /\ N >= 2 /\ NumCards \in Nat /\ NumCards >= 2 * N + 8
  BY PlayerNumbers
<1>2. CASE DealingHoles
  <2>1. Position = Len(dealt) /\ FirstPosition = 0 /\ CardsToDeal = 2 * N
    BY <1>2 DEF Position, FirstPosition, CardsToDeal
  <2>3. board = << >>
    BY <1>2, HandsAreDealt
  <2>4. QED BY <1>1, <1>2, <2>1, <2>3, PlayerNumbers
<1>3. CASE ~DealingHoles
  <2>1. /\ Position = StartPos + 1 + Len(dealt) /\ FirstPosition = StartPos + 1
        /\ CardsToDeal = BatchSize /\ DealingBoard
    BY <1>3 DEF Position, FirstPosition, CardsToDeal, Dealing
  <2>2. Len(board) \in {0, 3, 4} /\ (board = << >> <=> Len(board) = 0)
    <3>1. Len(board) \in {0, 3, 4, 5} /\ Len(board) < 5
      BY <2>1 DEF GameInv, DealingBoard
    <3>2. \A m \in {0, 3, 4, 5} : m < 5 => m \in {0, 3, 4}
      OBVIOUS
    <3>3. QED BY <3>1, <3>2, HandsAreDealt
  <2>3. CASE Len(board) = 0
    <3>1. StartPos = 2 * N /\ BatchSize = 3
      BY <1>1, <2>2, <2>3 DEF StartPos, BatchSize
    <3>2. Position = 2 * N + 1 + Len(dealt)
      BY <1>1, <2>1, <3>1
    <3>3. Len(dealt) < 3
      BY <2>1, <3>1
    <3>4. Len(dealt) = 0 \/ Len(dealt) = 1 \/ Len(dealt) = 2
      <4>1. \A m \in Nat : m < 3 => m = 0 \/ m = 1 \/ m = 2
        OBVIOUS
      <4>2. QED BY ONLY <4>1, <3>3, Len(dealt) \in Nat
    <3>5. /\ 0 + Len(dealt) + 1 \in 1..5
          /\ Position = BoardPositions[0 + Len(dealt) + 1]
      <4>1. \A m : m = 0 \/ m = 1 \/ m = 2 =>
              0 + m + 1 \in 1..5 /\ BoardPositions[0 + m + 1] = 2 * N + 1 + m
        BY <1>1 DEF BoardPositions
      <4>2. QED BY ONLY <4>1, <3>2, <3>4
    <3>6. QED BY <1>1, <1>3, <2>1, <2>3, <3>1, <3>2, <3>3, <3>5, PlayerNumbers
  <2>4. CASE Len(board) = 3
    <3>1. StartPos = 2 * N + 4 /\ BatchSize = 1
      BY <1>1, <2>2, <2>4 DEF StartPos, BatchSize
    <3>2. Len(dealt) = 0 /\ Position = 2 * N + 5
      BY <1>1, <2>1, <3>1
    <3>3. QED BY <1>1, <1>3, <2>1, <2>4, <3>1, <3>2, PlayerNumbers DEF BoardPositions
  <2>5. CASE Len(board) = 4
    <3>1. StartPos = 2 * N + 6 /\ BatchSize = 1
      BY <1>1, <2>2, <2>5 DEF StartPos, BatchSize
    <3>2. Len(dealt) = 0 /\ Position = 2 * N + 7
      BY <1>1, <2>1, <3>1
    <3>3. QED BY <1>1, <1>3, <2>1, <2>5, <3>1, <3>2, PlayerNumbers DEF BoardPositions
  <2>6. QED BY <2>2, <2>3, <2>4, <2>5
<1>4. QED BY <1>2, <1>3

\* Each player once, in their order, and not the recipient of a hole card.
LEMMA DecryptorOrder ==
  ASSUME dealer \in Players, Position \in Nat
  PROVE  LET n == IF DealingHoles THEN N - 1 ELSE N IN
         /\ n \in Nat /\ n >= 1 /\ Decryptors \in Seq(Players) /\ Len(Decryptors) = n
         /\ \A j, k \in 1..n : Decryptors[j] = Decryptors[k] => j = k
         /\ {Decryptors[j] : j \in 1..n} =
              IF DealingHoles THEN Players \ {Recipient(Position)} ELSE Players
<1> DEFINE n == IF DealingHoles THEN N - 1 ELSE N
           r == Recipient(Position)
<1>1. N \in Nat /\ N >= 2 /\ r \in Nat /\ r <= N - 1 /\ n \in Nat /\ n >= 1
  BY PlayerNumbers, RecipientPlays
<1>2. CASE DealingHoles
  <2>1. Decryptors = [i \in 1..(N - 1) |-> IF i <= r THEN i - 1 ELSE i]
    BY <1>2 DEF Decryptors
  <2> HIDE DEF r
  <2>2. \A i \in 1..(N - 1) : (IF i <= r THEN i - 1 ELSE i) \in Players
    BY <1>1 DEF Players
  <2>3. Decryptors \in [1..(N - 1) -> Players]
    BY <2>1, <2>2
  <2>4. Decryptors \in Seq(Players) /\ Len(Decryptors) = N - 1
    <3>1. Decryptors \in Seq(Players)
      BY <1>1, <2>3, SeqDef, N - 1 \in Nat
    <3>2. 1..Len(Decryptors) = 1..(N - 1) /\ Len(Decryptors) \in Nat
      BY <2>3, <3>1, LenProperties
    <3>3. QED BY <1>1, <3>1, <3>2
  <2>5. \A j, k \in 1..(N - 1) : Decryptors[j] = Decryptors[k] => j = k
    BY <1>1, <2>1
  <2>6. ASSUME NEW p \in Players \ {r} PROVE \E j \in 1..(N - 1) : Decryptors[j] = p
    <3>1. p \in Nat /\ p <= N - 1 /\ p # r
      BY PlayerNumbers, <2>6
    <3>2. CASE p < r
      <4>1. p + 1 \in 1..(N - 1) /\ Decryptors[p + 1] = p
        BY <1>1, <2>1, <3>1, <3>2
      <4>2. QED BY <4>1
    <3>3. CASE p > r
      <4>1. p \in 1..(N - 1) /\ Decryptors[p] = p
        BY <1>1, <2>1, <3>1, <3>3
      <4>2. QED BY <4>1
    <3>4. QED BY <1>1, <3>1, <3>2, <3>3
  <2>7. \A j \in 1..(N - 1) : Decryptors[j] # r /\ Decryptors[j] \in Players
    BY <1>1, <2>1, <2>2
  <2>8. {Decryptors[j] : j \in 1..(N - 1)} = Players \ {r}
    BY <2>6, <2>7
  <2>9. QED BY <1>1, <1>2, <2>4, <2>5, <2>8 DEF r
<1>3. CASE ~DealingHoles
  <2>1. Decryptors = [i \in 1..N |-> i - 1]
    BY <1>3 DEF Decryptors
  <2>2. \A i \in 1..N : i - 1 \in Players
    BY <1>1 DEF Players
  <2>3. Decryptors \in [1..N -> Players]
    BY <2>1, <2>2
  <2>4. Decryptors \in Seq(Players) /\ Len(Decryptors) = N
    <3>1. Decryptors \in Seq(Players)
      BY <1>1, <2>3, SeqDef
    <3>2. 1..Len(Decryptors) = 1..N /\ Len(Decryptors) \in Nat
      BY <2>3, <3>1, LenProperties
    <3>3. QED BY <1>1, <3>1, <3>2
  <2>5. \A j, k \in 1..N : Decryptors[j] = Decryptors[k] => j = k
    BY <1>1, <2>1
  <2>6. ASSUME NEW p \in Players PROVE \E j \in 1..N : Decryptors[j] = p
    <3>1. p + 1 \in 1..N /\ Decryptors[p + 1] = p
      BY <1>1, <2>1, PlayerNumbers
    <3>2. QED BY <3>1
  <2>7. {Decryptors[j] : j \in 1..N} = Players
    BY <2>1, <2>2, <2>6
  <2>8. QED BY <1>1, <1>3, <2>4, <2>5, <2>7
<1>4. QED BY <1>2, <1>3

\* Each decryption takes one layer off, and the layers that stay are the recipient's.
LEMMA LayersLeft ==
  ASSUME dealer \in Players, Position \in Nat
  PROVE  /\ StillOn(0) = Players
         /\ \A k \in 0..Len(Decryptors) : StillOn(k) \in SUBSET Players
         /\ \A k \in 1..Len(Decryptors) :
              /\ Decryptors[k] \in Players /\ Decryptors[k] \in StillOn(k - 1)
              /\ StillOn(k) = StillOn(k - 1) \ {Decryptors[k]}
         /\ DealingHoles => /\ Recipient(Position) \in Players
                            /\ StillOn(Len(Decryptors)) = {Recipient(Position)}
                            /\ \A k \in 0..Len(Decryptors) : Recipient(Position) \in StillOn(k)
         /\ ~DealingHoles => StillOn(Len(Decryptors)) = {}
<1> DEFINE n == Len(Decryptors)
<1>1. /\ n \in Nat /\ n >= 1
      /\ \A j \in 1..n : Decryptors[j] \in Players
      /\ \A j, k \in 1..n : Decryptors[j] = Decryptors[k] => j = k
      /\ {Decryptors[j] : j \in 1..n} =
           IF DealingHoles THEN Players \ {Recipient(Position)} ELSE Players
  BY DecryptorOrder, ElementOfSeq
<1> HIDE DEF n
<1>2. StillOn(0) = Players /\ \A k \in 0..n : StillOn(k) \in SUBSET Players
  BY DEF StillOn
<1>3. ASSUME NEW k \in 1..n
      PROVE  /\ Decryptors[k] \in Players /\ Decryptors[k] \in StillOn(k - 1)
             /\ StillOn(k) = StillOn(k - 1) \ {Decryptors[k]}
  <2>1. \A j \in 1..(k - 1) : j \in 1..n /\ j # k
    BY <1>1
  <2>2. \A j \in 1..(k - 1) : Decryptors[j] # Decryptors[k]
    BY <1>1, <2>1
  <2>3. {Decryptors[j] : j \in 1..k} = {Decryptors[j] : j \in 1..(k - 1)} \cup {Decryptors[k]}
    <3>1. 1..k = 1..(k - 1) \cup {k}
      BY <1>1
    <3>2. QED BY <3>1
  <2>4. QED BY <1>1, <2>2, <2>3 DEF StillOn
<1>4. ASSUME DealingHoles
      PROVE  /\ Recipient(Position) \in Players
             /\ StillOn(n) = {Recipient(Position)}
             /\ \A k \in 0..n : Recipient(Position) \in StillOn(k)
  <2>1. Recipient(Position) \in Players
    BY RecipientPlays
  <2>2. \A k \in 0..n : \A j \in 1..k : j \in 1..n
    BY <1>1
  <2>3. \A j \in 1..n : Decryptors[j] # Recipient(Position)
    BY <1>1, <1>4
  <2>4. QED BY <1>1, <1>4, <2>1, <2>2, <2>3 DEF StillOn
<1>5. ASSUME ~DealingHoles PROVE StillOn(n) = {}
  BY <1>1, <1>5 DEF StillOn
<1>6. QED BY <1>2, <1>3, <1>4, <1>5 DEF n

-----------------------------------------------------------------------------
(* One partial decryption.                                                 *)

LEMMA SameGame ==
  ASSUME UNCHANGED <<deck, gameVars>>
  PROVE  /\ DealingHoles' = DealingHoles /\ DealingBoard' = DealingBoard /\ Dealing' = Dealing
         /\ StartPos' = StartPos /\ BatchSize' = BatchSize
         /\ FirstPosition' = FirstPosition /\ CardsToDeal' = CardsToDeal
         /\ PartialsDue' = PartialsDue
         /\ Remembered /\ GameInv => GameInv'
BY DEF gameVars, DealingHoles, DealingBoard, Dealing, StartPos, BatchSize, FirstPosition,
       CardsToDeal, PartialsDue, GameInv, NoHands, HandsDealt, BoardDealt, DealtTo, SeatsLeft,
       BoardPositions, Remembered

LEMMA SameCard ==
  ASSUME UNCHANGED <<deck, gameVars, dealt>>
  PROVE  /\ Position' = Position /\ Decryptors' = Decryptors
         /\ \A k : PartialAt(k)' = PartialAt(k)
         /\ \A k, pd : MadeAt(k, pd) => MadeAt(k, pd)'
<1>1. deck' = deck /\ dealer' = dealer /\ dealt' = dealt
  BY DEF gameVars
<1>2. Position' = Position
  BY <1>1, SameGame DEF Position
<1>3. Recipient(Position)' = Recipient(Position)
  BY <1>1, <1>2 DEF Recipient
<1>4. Decryptors' = Decryptors
  BY <1>3, SameGame DEF Decryptors
<1>5. ASSUME NEW k PROVE PartialAt(k)' = PartialAt(k)
  <2>1. StillOn(k)' = StillOn(k) /\ StillOn(k - 1)' = StillOn(k - 1)
    BY <1>4 DEF StillOn
  <2>2. deck[Position]' = deck[Position] /\ Decryptors[k]' = Decryptors[k]
    BY <1>1, <1>2, <1>4
  <2>3. QED BY <1>2, <2>1, <2>2 DEF PartialAt
<1>6. ASSUME NEW k, NEW pd, MadeAt(k, pd) PROVE MadeAt(k, pd)'
  <2>1. deck[Position]' = deck[Position] /\ Decryptors[k]' = Decryptors[k]
    BY <1>1, <1>2, <1>4
  <2>2. DealingHoles' = DealingHoles
    BY SameGame
  <2>3. QED BY <1>2, <1>3, <1>6, <2>1, <2>2 DEF MadeAt, OwnersLayerOn
<1>7. QED BY <1>2, <1>4, <1>5, <1>6

\* What is known while a call runs: the position it is about, and where it stands.
LEMMA CallStands ==
  ASSUME ShuffleInv, GameInv, CallInv, Dealing
  PROVE  /\ deck # Nil /\ deck \in Decks /\ dealer \in Players
         /\ Len(dealt) \in Nat /\ Len(dealt) < CardsToDeal
         /\ Len(partials) \in Nat /\ Len(partials) <= Len(Decryptors)
         /\ Len(Decryptors) \in Nat /\ Len(Decryptors) >= 1 /\ Len(Decryptors) = PartialsDue
         /\ Position \in Positions /\ Position \in Nat
         /\ Ciphertext \in Values /\ OwnersLayerOn(Ciphertext)
<1>1. deck # Nil /\ deck \in Decks /\ dealer \in Players
  BY DEF Dealing, DealingHoles, DealingBoard, ShuffleInv, GameInv
<1>2. /\ dealt \in Seq(Positions) /\ partials \in Seq(Partials)
      /\ Len(dealt) < CardsToDeal /\ Len(partials) <= PartialsDue
      /\ \A k \in 1..Len(partials) : MadeAt(k, partials[k])
  BY DEF CallInv
<1>3. Len(dealt) \in Nat /\ Len(partials) \in Nat
  BY <1>2, LenProperties
<1>4. Position \in Positions /\ Position \in Nat
  BY <1>2, <1>3, Batches
<1>5. Len(Decryptors) \in Nat /\ Len(Decryptors) >= 1 /\ Len(Decryptors) = PartialsDue
  BY <1>1, <1>4, DecryptorOrder DEF PartialsDue
<1>6. Ciphertext \in Values /\ OwnersLayerOn(Ciphertext)
  <2>1. CASE partials = << >>
    BY <1>1, <1>4, <2>1 DEF Ciphertext, OwnersLayerOn, Decks
  <2>2. CASE partials # << >>
    <3>1. Len(partials) \in 1..Len(partials)
      BY <1>2, <1>3, <2>2, EmptySeq
    <3>2. Ciphertext = partials[Len(partials)].result
      BY <2>2 DEF Ciphertext, Last
    <3>3. partials[Len(partials)] \in Partials /\ OwnersLayerOn(partials[Len(partials)].result)
      BY <1>2, <3>1, ElementOfSeq DEF MadeAt
    <3>4. partials[Len(partials)].result \in Values
      BY <3>3 DEF Partials
    <3>5. QED BY <3>2, <3>3, <3>4
  <2>3. QED BY <2>1, <2>2
<1>7. QED BY <1>1, <1>2, <1>3, <1>4, <1>5, <1>6

\* Until something is substituted, it is the card that lies there, with the layers of
\* those who have not decrypted it yet.
LEMMA CallStandsFair ==
  ASSUME ShuffleInv, GameInv, CallInv, Dealing, ~unnoticed
  PROVE  /\ PackUnder(deck, Players) /\ CardOf(deck[Position]) \in Positions
         /\ Ciphertext = Locked(CardOf(deck[Position]), StillOn(Len(partials)))
<1>1. /\ deck # Nil /\ dealer \in Players /\ Position \in Positions /\ Position \in Nat
      /\ Len(partials) \in Nat
  BY CallStands
<1>2. PackUnder(deck, Players)
  BY <1>1 DEF ShuffleInv
<1>3. /\ CardOf(deck[Position]) \in Positions
      /\ deck[Position] = Locked(CardOf(deck[Position]), Players)
  BY <1>1, <1>2 DEF PackUnder
<1>4. partials \in Seq(Partials) /\ \A k \in 1..Len(partials) : partials[k] = PartialAt(k)
  BY DEF CallInv
<1>5. Ciphertext = Locked(CardOf(deck[Position]), StillOn(Len(partials)))
  <2>1. CASE partials = << >>
    <3>1. Len(partials) = 0 /\ StillOn(0) = Players
      BY <2>1, EmptySeq, LayersLeft, <1>1
    <3>2. QED BY <2>1, <3>1, <1>3 DEF Ciphertext
  <2>2. CASE partials # << >>
    <3>1. Len(partials) \in 1..Len(partials)
      BY <1>1, <1>4, <2>2, EmptySeq
    <3>2. Ciphertext = PartialAt(Len(partials)).result
      BY <1>4, <2>2, <3>1 DEF Ciphertext, Last
    <3>3. QED BY <3>2 DEF PartialAt
  <2>3. QED BY <2>1, <2>2
<1>6. QED BY <1>2, <1>3, <1>5

\* Whose turn it is to decrypt: a player, and not the owner of the hole card.
LEMMA NextDecryptor ==
  ASSUME ShuffleInv, GameInv, CallInv, ToDecrypt
  PROVE  LET k == Len(partials) + 1 IN
         /\ Dealing /\ k \in 1..Len(Decryptors) /\ k - 1 = Len(partials)
         /\ Decryptors[k] \in Players
         /\ DealingHoles => /\ Recipient(Position) \in Players
                            /\ Recipient(Position) # Decryptors[k]
<1> DEFINE k == Len(partials) + 1
<1>1. /\ Dealing /\ dealer \in Players /\ Position \in Nat
      /\ Len(partials) \in Nat /\ Len(partials) < Len(Decryptors) /\ Len(Decryptors) \in Nat
  BY CallStands DEF ToDecrypt, Dealing
<1>2. k \in 1..Len(Decryptors) /\ k - 1 = Len(partials) /\ k \in 0..Len(Decryptors)
  BY <1>1
<1> HIDE DEF k
<1>3. /\ Decryptors[k] \in Players /\ StillOn(k) = StillOn(k - 1) \ {Decryptors[k]}
      /\ DealingHoles => /\ Recipient(Position) \in Players
                         /\ Recipient(Position) \in StillOn(k)
  BY <1>1, <1>2, LayersLeft
<1>4. QED BY <1>1, <1>2, <1>3 DEF k

\* What the next player makes if everybody keeps to the protocol: the result is the card
\* with one layer less.
LEMMA NextPartial ==
  ASSUME ShuffleInv, GameInv, CallInv, ToDecrypt, ~unnoticed
  PROVE  LET k  == Len(partials) + 1
             by == Decryptors[k]
         IN  PartialAt(k) = [by |-> by, position |-> Position, input |-> Ciphertext,
                             result |-> Decrypt(by, Ciphertext),
                             proof |-> ProveDecryption(D(by), Ciphertext,
                                                       Raise(Ciphertext, D(by)))]
<1> DEFINE k    == Len(partials) + 1
           by   == Decryptors[k]
           card == CardOf(deck[Position])
           in   == Locked(card, StillOn(k - 1))
           out  == Locked(card, StillOn(k))
<1>1. Dealing /\ k \in 1..Len(Decryptors) /\ k - 1 = Len(partials)
  BY NextDecryptor
<1>2. /\ dealer \in Players /\ Position \in Nat /\ Len(Decryptors) \in Nat
      /\ card \in Positions /\ Ciphertext = Locked(card, StillOn(Len(partials)))
  BY <1>1, CallStands, CallStandsFair
<1> HIDE DEF k, card
<1>3. k - 1 \in 0..Len(Decryptors)
  BY <1>1, <1>2
<1>4. /\ by \in StillOn(k - 1) /\ StillOn(k - 1) \in SUBSET Players
      /\ StillOn(k) = StillOn(k - 1) \ {by}
  BY <1>1, <1>2, <1>3, LayersLeft
<1>5. Ciphertext = in
  BY <1>1, <1>2
<1>6. Decrypt(by, in) = out
  BY <1>2, <1>4, DecryptLocked
<1>7. PartialAt(k) = [by |-> by, position |-> Position, input |-> in, result |-> out,
                      proof |-> ProveDecryption(D(by), in, out)]
  BY DEF PartialAt, card
<1> HIDE DEF in, out, by
<1>8. Raise(in, D(by)) = out
  BY <1>6 DEF Decrypt
<1>9. QED BY <1>5, <1>6, <1>7, <1>8 DEF k, by

-----------------------------------------------------------------------------
(* What the steps do to the parts of the invariant.                        *)

\* A call starts, for the first time or again.
LEMMA CallStarts ==
  ASSUME dealt' = << >>, partials' = << >>
  PROVE  CallInv'
<1>1. << >> \in Seq(Positions) /\ << >> \in Seq(Partials) /\ Len(<< >>) = 0
  BY EmptySeq
<1>2. CardsToDeal' > 0 /\ PartialsDue' >= 0
  <2>1. N \in Nat /\ N >= 2
    BY PlayerNumbers
  <2>2. BatchSize' > 0 /\ 2 * N > 0 /\ N - 1 >= 0 /\ N >= 0
    BY <2>1 DEF BatchSize
  <2>3. QED BY <2>2 DEF CardsToDeal, PartialsDue
<1>3. Len(dealt') = 0 /\ Len(partials') = 0
  BY <1>1
<1>4. \A i \in 1..0 : FALSE
  OBVIOUS
<1>5. QED BY <1>1, <1>2, <1>3, <1>4 DEF CallInv

LEMMA LogKept ==
  ASSUME LogInv, UNCHANGED <<deck, gameVars, dealLog>>,
         ~DealingBoard \/ dealt' = dealt \/ dealt' = << >>
  PROVE  LogInv'
<1>1. /\ dealLog' \in Seq(Partials) /\ VerifyAllProofs(dealLog)'
      /\ \A i \in 1..Len(board') : Explained(dealLog, BoardPositions[i], board[i])'
  <2>1. dealLog' = dealLog /\ board' = board
    BY DEF gameVars
  <2>2. VerifyAllProofs(dealLog)' = VerifyAllProofs(dealLog)
    BY <2>1 DEF VerifyAllProofs
  <2>3. \A i : Explained(dealLog, BoardPositions[i], board[i])'
                 = Explained(dealLog, BoardPositions[i], board[i])
    BY <2>1 DEF Explained, BoardPositions
  <2>4. QED BY <2>1, <2>2, <2>3 DEF LogInv
<1>2. ASSUME DealingBoard', NEW i \in 1..Len(dealt')
      PROVE  Explained(dealLog, StartPos + i, dealt[i])'
  <2>1. DealingBoard /\ StartPos' = StartPos
    BY <1>2, SameGame
  <2>2. CASE dealt' = << >>
    BY <1>2, <2>2, EmptySeq
  <2>3. CASE dealt' = dealt
    <3>1. Explained(dealLog, StartPos + i, dealt[i])
      BY <1>2, <2>1, <2>3 DEF LogInv
    <3>2. QED BY <2>1, <2>3, <3>1 DEF Explained
  <2>4. QED BY <2>1, <2>2, <2>3
<1>3. QED BY <1>1, <1>2 DEF LogInv

LEMMA ShuffleKept ==
  ASSUME ShuffleInv, UNCHANGED shuffleVars, Remembered
  PROVE  ShuffleInv'
BY DEF ShuffleInv, shuffleVars, PackUnder, Remembered

LEMMA FailedCall ==
  ASSUME ShuffleInv, GameInv, CallInv, LogInv, CallFails, UNCHANGED shuffleVars, Remembered
  PROVE  ShuffleInv' /\ GameInv' /\ CallInv' /\ LogInv'
<1>1. UNCHANGED <<deck, gameVars, dealLog>> /\ dealt' = << >> /\ partials' = << >>
  BY DEF CallFails, shuffleVars
<1>2. ShuffleInv'
  BY ShuffleKept
<1>3. GameInv'
  BY <1>1, SameGame
<1>4. CallInv'
  BY <1>1, CallStarts
<1>5. LogInv'
  BY <1>1, LogKept
<1>6. QED BY <1>2, <1>3, <1>4, <1>5

LEMMA WireKept ==
  ASSUME WireInv, UNCHANGED <<wire, dealer, deck>>, Remembered
  PROVE  WireInv'
BY DEF WireInv, HoleCardsPrivate, Recipient, BoardPositions, ToSet, Remembered

\* What goes out in a partial decryption, accepted or not, still has the owner's layer.
LEMMA WireGrows ==
  ASSUME ShuffleInv, GameInv, CallInv, WireInv, Dealing, UNCHANGED <<deck, dealer>>, Remembered,
         NEW shown, shown.position = Position, OwnersLayerOn(shown), wire' = wire \cup {shown}
  PROVE  WireInv'
<1>1. /\ dealer \in Players /\ Position \in Nat /\ deck # Nil /\ Position \in Positions
      /\ Len(dealt) \in Nat /\ Len(dealt) < CardsToDeal
  BY CallStands
<1> DEFINE Kept(s) ==
      IF s.position < 2 * N
      THEN /\ s.layers[Recipient(s.position)] = deck[s.position].layers[Recipient(s.position)]
           /\ s.layers[Recipient(s.position)] = 1 \/ unnoticed'
      ELSE s.position \in ToSet(BoardPositions)
<1>2. Kept(shown)
  <2>1. CASE DealingHoles
    <3>1. Position < 2 * N
      BY <1>1, <2>1, Batches
    <3>2. Recipient(Position) \in Players
      BY <1>1, RecipientPlays
    <3>3. shown.layers[Recipient(Position)] = deck[Position].layers[Recipient(Position)]
      BY <2>1 DEF OwnersLayerOn
    <3>4. ~unnoticed' => deck[Position].layers[Recipient(Position)] = 1
      <4>1. SUFFICES ASSUME ~unnoticed' PROVE deck[Position].layers[Recipient(Position)] = 1
        OBVIOUS
      <4>2. ~unnoticed
        BY <4>1 DEF Remembered
      <4>3. PackUnder(deck, Players)
        BY <1>1, <4>2 DEF ShuffleInv
      <4>4. /\ deck[Position] = Locked(CardOf(deck[Position]), Players)
            /\ CardOf(deck[Position]) \in Positions
        BY <1>1, <4>3 DEF PackUnder
      <4>5. Locked(CardOf(deck[Position]), Players).layers[Recipient(Position)] = 1
        BY <3>2, <4>4, LockedParts
      <4>6. QED BY <4>4, <4>5
    <3>5. QED BY <3>1, <3>3, <3>4
  <2>2. CASE ~DealingHoles
    <3>1. /\ Position >= 2 * N /\ N \in Nat
          /\ Position = BoardPositions[Len(board) + Len(dealt) + 1]
          /\ Len(board) + Len(dealt) + 1 \in 1..5
      BY <1>1, <2>2, Batches, PlayerNumbers
    <3>2. DOMAIN BoardPositions = 1..5
      BY DEF BoardPositions
    <3>3. Position \in ToSet(BoardPositions)
      BY <3>1, <3>2 DEF ToSet
    <3>4. ~(Position < 2 * N)
      BY <1>1, <3>1
    <3>5. QED BY <3>3, <3>4
  <2>3. QED BY <2>1, <2>2
<1>3. \A q : Recipient(q)' = Recipient(q)
  BY DEF Recipient
<1>4. \A s \in wire' : Kept(s)
  <2>1. ASSUME NEW s \in wire PROVE Kept(s)
    BY DEF WireInv, HoleCardsPrivate, Remembered
  <2> HIDE DEF Kept
  <2>2. QED BY <1>2, <2>1
<1>5. HoleCardsPrivate'
  BY <1>3, <1>4 DEF HoleCardsPrivate, BoardPositions, ToSet
<1>6. QED BY <1>1, <1>5 DEF WireInv

-----------------------------------------------------------------------------
(* The steps.                                                              *)

LEMMA ShuffleDeals ==
  ASSUME DealInv, deck = Nil, ShuffleInv', UNCHANGED <<callVars, gameVars, dealLog, wire>>,
         Remembered
  PROVE  DealInv'
<1>1. ShuffleInv /\ GameInv /\ CallInv /\ LogInv /\ WireInv
  BY DEF DealInv
<1>2. NoHands /\ board = << >> /\ dealer \in Players
  BY <1>1 DEF GameInv
<1>3. holeCards' = holeCards /\ board' = board /\ dealer' = dealer /\ dealLog' = dealLog
  BY DEF gameVars
<1>4. board \in Seq(Positions) /\ Len(board) = 0 /\ \A i \in 1..0 : FALSE
  BY <1>1, <1>2, EmptySeq DEF GameInv
<1>5. GameInv'
  <2>1. NoHands' /\ ~HandsDealt'
    <3>1. 0 \in Players
      BY PlayerNumbers
    <3>2. QED BY <1>2, <1>3, <3>1 DEF NoHands, HandsDealt
  <2>2. BoardDealt'
    BY <1>3, <1>4 DEF BoardDealt
  <2>3. QED BY <1>2, <1>3, <1>4, <2>1, <2>2 DEF GameInv
<1>6. dealt = << >> /\ partials = << >>
  <2>1. ~Dealing
    BY DEF Dealing, DealingHoles, DealingBoard
  <2>2. QED BY <1>1, <2>1 DEF CallInv
<1>7. CallInv'
  BY <1>6, CallStarts DEF callVars
<1>8. LogInv'
  <2>1. \A i \in 1..Len(board') : FALSE
    BY <1>3, <1>4
  <2>2. \A i \in 1..Len(dealt') : FALSE
    BY <1>6, EmptySeq DEF callVars
  <2>3. VerifyAllProofs(dealLog)' = VerifyAllProofs(dealLog)
    BY <1>3 DEF VerifyAllProofs
  <2>4. QED BY <1>1, <1>3, <2>1, <2>2, <2>3 DEF LogInv
<1>9. WireInv'
  BY <1>1 DEF WireInv, HoleCardsPrivate
<1>10. QED BY <1>5, <1>7, <1>8, <1>9 DEF DealInv

LEMMA HonestShuffleStep == DealInv /\ HonestShuffle => DealInv'
<1> SUFFICES ASSUME DealInv, HonestShuffle PROVE DealInv'
  OBVIOUS
<1>1. PICK perm \in Perms : ShuffleStep(StepOutput(shuffler, perm),
                                        NewDeckCommitment(StepOutput(shuffler, perm)))
  BY DEF HonestShuffle
<1>2. ShuffleInv /\ Remembered /\ StepOutput(shuffler, perm) \in Decks
  <2>1. ShuffleInv /\ Remembered
    BY DEF DealInv, HonestShuffle, faultVars, Remembered
  <2>2. QED BY <2>1, ShuffledDeck DEF ShuffleInv
<1>3. ShuffleInv'
  BY <1>1, <1>2, ShuffleHandedOn
<1>4. deck = Nil /\ UNCHANGED <<callVars, gameVars, dealLog, wire>>
  BY <1>1 DEF ShuffleStep
<1>5. QED BY <1>2, <1>3, <1>4, ShuffleDeals

LEMMA SubstitutedShuffleStep == DealInv /\ SubstitutedShuffle => DealInv'
<1> SUFFICES ASSUME DealInv, SubstitutedShuffle PROVE DealInv'
  OBVIOUS
<1>1. PICK perm \in Perms : \E cards \in Substitutes(shuffler, StepOutput(shuffler, perm)) :
        ShuffleStep(cards, NewDeckCommitment(StepOutput(shuffler, perm)))
  BY DEF SubstitutedShuffle
<1>2. PICK cards \in Substitutes(shuffler, StepOutput(shuffler, perm)) :
        ShuffleStep(cards, NewDeckCommitment(StepOutput(shuffler, perm)))
  BY <1>1
<1>3. ShuffleInv /\ Remembered /\ cards \in Decks
  <2>1. ShuffleInv /\ Remembered
    BY DEF DealInv, SubstitutedShuffle, Remembered
  <2>2. QED BY <2>1, ShuffledDeck DEF ShuffleInv
<1>4. ShuffleInv'
  BY <1>2, <1>3, ShuffleHandedOn
<1>5. deck = Nil /\ UNCHANGED <<callVars, gameVars, dealLog, wire>>
  BY <1>2 DEF ShuffleStep
<1>6. QED BY <1>3, <1>4, <1>5, ShuffleDeals

LEMMA CommittedSubstitutionStep == DealInv /\ CommittedSubstitution => DealInv'
<1> SUFFICES ASSUME DealInv, CommittedSubstitution PROVE DealInv'
  OBVIOUS
<1>1. PICK perm \in Perms : \E cards \in Substitutes(shuffler, StepOutput(shuffler, perm)) :
        ShuffleStep(cards, NewDeckCommitment(cards))
  BY DEF CommittedSubstitution
<1>2. PICK cards \in Substitutes(shuffler, StepOutput(shuffler, perm)) :
        ShuffleStep(cards, NewDeckCommitment(cards))
  BY <1>1
<1>3. ShuffleInv /\ Remembered /\ unnoticed' /\ cards \in Decks
  <2>1. ShuffleInv /\ Remembered /\ unnoticed'
    BY DEF DealInv, CommittedSubstitution, Remembered
  <2>2. QED BY <2>1, ShuffledDeck DEF ShuffleInv
<1>4. ShuffleInv'
  BY <1>2, <1>3, ShuffleHandedOn
<1>5. deck = Nil /\ UNCHANGED <<callVars, gameVars, dealLog, wire>>
  BY <1>2 DEF ShuffleStep
<1>6. QED BY <1>3, <1>4, <1>5, ShuffleDeals

\* The layers of what is handed on, when a partial decryption is made with one of the
\* player's own exponents: the owner's is left as it was.
LEMMA OwnersLayerStays ==
  ASSUME ShuffleInv, GameInv, CallInv, ToDecrypt,
         NEW e \in {D(Decryptors[Len(partials) + 1])}
                     \cup OtherExponents(Decryptors[Len(partials) + 1])
  PROVE  /\ e \in Exponents /\ Raise(Ciphertext, e) \in Values
         /\ Raise(Ciphertext, e).power \in 0..(Order - 1)
         /\ OwnersLayerOn(Raise(Ciphertext, e))
<1> DEFINE by == Decryptors[Len(partials) + 1]
<1>1. /\ Dealing /\ by \in Players
      /\ DealingHoles => Recipient(Position) \in Players /\ Recipient(Position) # by
  BY NextDecryptor
<1>2. Ciphertext \in Values /\ OwnersLayerOn(Ciphertext)
  BY <1>1, CallStands
<1>3. e \in Exponents /\ \A q \in Players : q # by => q # e.layer
  BY <1>1, OwnExponents
<1>4. /\ Raise(Ciphertext, e) \in Values /\ Raise(Ciphertext, e).power \in 0..(Order - 1)
      /\ \A q \in Players : q # e.layer => Raise(Ciphertext, e).layers[q] = Ciphertext.layers[q]
  BY <1>2, <1>3, RaisedValue
<1>5. OwnersLayerOn(Raise(Ciphertext, e))
  BY <1>1, <1>2, <1>3, <1>4 DEF OwnersLayerOn
<1>6. QED BY <1>3, <1>4, <1>5

\* Every partial decryption, with whatever exponent and result, is refused and ends the
\* call, or goes into it; and if it is accepted and nothing passes unnoticed, it is the
\* one that the protocol has.
LEMMA DecryptionKept ==
  ASSUME DealInv, ToDecrypt, Remembered, NEW e, NEW result, PartialDecryption(e, result),
         e \in {D(Decryptors[Len(partials) + 1])} \cup OtherExponents(Decryptors[Len(partials) + 1]),
         result \in Values, OwnersLayerOn(result),
         ~unnoticed' => e = D(Decryptors[Len(partials) + 1])
  PROVE  DealInv'
<1> DEFINE k  == Len(partials) + 1
           by == Decryptors[k]
           made == Raise(Ciphertext, e)
           pd == [by |-> by, position |-> Position, input |-> Ciphertext, result |-> result,
                  proof |-> ProveDecryption(e, Ciphertext, made)]
           shown == [position |-> Position, layers |-> result.layers]
<1>1. ShuffleInv /\ GameInv /\ CallInv /\ LogInv /\ WireInv
  BY DEF DealInv
<1>2. /\ wire' = wire \cup {shown} /\ UNCHANGED shuffleVars
      /\ IF Verify(pd)
         THEN partials' = Append(partials, pd) /\ UNCHANGED <<dealt, gameVars, dealLog>>
         ELSE CallFails
  BY DEF PartialDecryption
<1>3. /\ Dealing /\ k \in 1..Len(Decryptors) /\ k - 1 = Len(partials) /\ by \in Players
  BY <1>1, NextDecryptor
<1>4. /\ Len(dealt) < CardsToDeal /\ Len(partials) \in Nat /\ Ciphertext \in Values
      /\ Len(Decryptors) = PartialsDue /\ Len(Decryptors) \in Nat /\ Position \in Positions
  BY <1>1, <1>3, CallStands
<1>5. e \in Exponents /\ made \in Values
  BY <1>1, OwnersLayerStays
<1>6. UNCHANGED <<deck, gameVars>>
  BY <1>2 DEF shuffleVars, CallFails
<1>7. WireInv'
  <2>1. shown.position = Position /\ OwnersLayerOn(shown)
    BY DEF OwnersLayerOn
  <2>2. UNCHANGED <<deck, dealer>>
    BY <1>6 DEF gameVars
  <2> HIDE DEF shown
  <2>3. QED BY <1>1, <1>2, <1>3, <2>1, <2>2, WireGrows
<1>8. CASE ~Verify(pd)
  <2>1. CallFails /\ UNCHANGED shuffleVars
    BY <1>2, <1>8
  <2>2. ShuffleInv' /\ GameInv' /\ CallInv' /\ LogInv'
    BY <1>1, <2>1, FailedCall
  <2>3. QED BY <1>7, <2>2 DEF DealInv
<1>9. CASE Verify(pd)
  <2>1. partials' = Append(partials, pd) /\ UNCHANGED <<dealt, gameVars, dealLog>>
    BY <1>2, <1>9
  <2>2. MadeAt(k, pd) /\ pd \in Partials
    <3>1. MadeAt(k, pd)
      BY <1>9 DEF MadeAt
    <3>2. ProveDecryption(e, Ciphertext, made) \in
            [H : Exponents, ciphertext : Values, result : Values]
      BY <1>4, <1>5 DEF ProveDecryption
    <3> HIDE DEF made, by
    <3>3. QED BY <1>3, <1>4, <3>1, <3>2 DEF Partials
  <2>3. ~unnoticed' => pd = PartialAt(k)
    <3>1. SUFFICES ASSUME ~unnoticed' PROVE pd = PartialAt(k)
      OBVIOUS
    <3>2. result = made
      BY <1>9 DEF Verify, VerifyDecryption, ProveDecryption
    <3>3. ~unnoticed /\ e = D(by)
      BY <3>1 DEF Remembered
    <3>4. result = Decrypt(by, Ciphertext)
      BY <3>2, <3>3 DEF Decrypt
    <3>5. PartialAt(k) = [by |-> by, position |-> Position, input |-> Ciphertext,
                          result |-> Decrypt(by, Ciphertext),
                          proof |-> ProveDecryption(D(by), Ciphertext,
                                                    Raise(Ciphertext, D(by)))]
      BY <1>1, <3>3, NextPartial
    <3>6. QED BY <3>3, <3>4, <3>5
  <2> HIDE DEF pd, by
  <2>4. /\ dealt \in Seq(Positions) /\ partials \in Seq(Partials)
        /\ \A j \in 1..Len(partials) : MadeAt(j, partials[j])
        /\ ~unnoticed => /\ \A i \in 1..Len(dealt) : dealt[i] = CardOf(deck[FirstPosition + i - 1])
                         /\ \A j \in 1..Len(partials) : partials[j] = PartialAt(j)
    BY <1>1, <1>3 DEF CallInv
  <2>5. /\ partials' \in Seq(Partials) /\ Len(partials') = k
        /\ \A j \in 1..Len(partials) : partials'[j] = partials[j]
        /\ partials'[k] = pd
    BY <2>1, <2>2, <2>4
  <2>6. \A j \in 1..k : j \in 1..Len(partials) \/ j = k
    BY <1>4
  <2>7. \A j \in 1..k : MadeAt(j, partials'[j])
    BY <2>2, <2>4, <2>5, <2>6
  <2>8. ~unnoticed' => \A j \in 1..k : partials'[j] = PartialAt(j)
    BY <2>3, <2>4, <2>5, <2>6 DEF Remembered
  <2>9. CallInv'
    <3>1. UNCHANGED <<deck, gameVars, dealt>>
      BY <1>6, <2>1
    <3>2. \A j \in 1..k : MadeAt(j, partials[j])'
      BY <2>7, <3>1, SameCard
    <3>3. ~unnoticed' => \A j \in 1..k : partials'[j] = PartialAt(j)'
      BY <2>8, <3>1, SameCard
    <3>4. Dealing' /\ CardsToDeal' = CardsToDeal /\ FirstPosition' = FirstPosition
          /\ PartialsDue' = PartialsDue
      BY <1>3, <1>6, SameGame
    <3>5. k <= PartialsDue
      BY <1>3, <1>4
    <3> HIDE DEF k
    <3>6. QED BY <1>4, <2>4, <2>5, <3>1, <3>2, <3>3, <3>4, <3>5 DEF CallInv, Remembered
  <2>10. ShuffleInv' /\ GameInv' /\ LogInv'
    BY <1>1, <1>2, <1>6, <2>1, ShuffleKept, SameGame, LogKept
  <2>11. QED BY <1>7, <2>9, <2>10 DEF DealInv
<1>10. QED BY <1>8, <1>9

LEMMA HonestDecryptionStep == DealInv /\ HonestDecryption => DealInv'
<1> SUFFICES ASSUME DealInv, HonestDecryption PROVE DealInv'
  OBVIOUS
<1> DEFINE by == Decryptors[Len(partials) + 1]
<1>1. /\ ToDecrypt /\ PartialDecryption(D(by), Decrypt(by, Ciphertext)) /\ Remembered
  BY DEF HonestDecryption, faultVars, Remembered
<1>2. Decrypt(by, Ciphertext) \in Values /\ OwnersLayerOn(Decrypt(by, Ciphertext))
  BY <1>1, OwnersLayerStays DEF DealInv, Decrypt
<1>3. QED BY <1>1, <1>2, DecryptionKept

LEMMA OtherDecryptionStep == DealInv /\ OtherDecryption => DealInv'
<1> SUFFICES ASSUME DealInv, OtherDecryption PROVE DealInv'
  OBVIOUS
<1>1. ToDecrypt /\ unnoticed' /\ Remembered
  BY DEF OtherDecryption, Remembered
<1>2. PICK e \in OtherExponents(Decryptors[Len(partials) + 1]) :
        PartialDecryption(e, Raise(Ciphertext, e))
  BY DEF OtherDecryption
<1>3. Raise(Ciphertext, e) \in Values /\ OwnersLayerOn(Raise(Ciphertext, e))
  BY <1>1, OwnersLayerStays DEF DealInv
<1>4. QED BY <1>1, <1>2, <1>3, DecryptionKept

\* Another value with the same layers: the proof is not of it.
LEMMA OtherPower ==
  ASSUME NEW v \in Values, NEW m \in Int
  PROVE  /\ [v EXCEPT !.power = m] \in Values
         /\ [v EXCEPT !.power = m].layers = v.layers
BY DEF Values

LEMMA SubstitutedDecryptionStep == DealInv /\ SubstitutedDecryption => DealInv'
<1> SUFFICES ASSUME DealInv, SubstitutedDecryption PROVE DealInv'
  OBVIOUS
<1> DEFINE by     == Decryptors[Len(partials) + 1]
           honest == Decrypt(by, Ciphertext)
           result == [honest EXCEPT !.power = (@ + 1) % Order]
<1>1. ToDecrypt /\ Remembered /\ PartialDecryption(D(by), result)
  BY DEF SubstitutedDecryption, Remembered
<1>2. honest \in Values /\ honest.power \in 0..(Order - 1) /\ OwnersLayerOn(honest)
  BY <1>1, OwnersLayerStays DEF DealInv, Decrypt
<1>3. (honest.power + 1) % Order \in Int
  BY <1>2, GroupOrder
<1>4. result = [honest EXCEPT !.power = (honest.power + 1) % Order]
  OBVIOUS
<1> HIDE DEF honest, result
<1>5. result \in Values /\ result.layers = honest.layers
  BY <1>2, <1>3, <1>4, OtherPower
<1>6. OwnersLayerOn(result)
  BY <1>2, <1>5 DEF OwnersLayerOn
<1>7. QED BY <1>1, <1>5, <1>6, DecryptionKept

LEMMA WithheldDecryptionStep == DealInv /\ WithheldDecryption => DealInv'
<1> SUFFICES ASSUME DealInv, WithheldDecryption PROVE DealInv'
  OBVIOUS
<1>1. /\ ShuffleInv /\ GameInv /\ CallInv /\ LogInv /\ WireInv /\ Remembered
      /\ CallFails /\ UNCHANGED shuffleVars /\ UNCHANGED wire
  BY DEF DealInv, WithheldDecryption, Remembered
<1>2. ShuffleInv' /\ GameInv' /\ CallInv' /\ LogInv'
  BY <1>1, FailedCall
<1>3. WireInv'
  BY <1>1, WireKept DEF CallFails, gameVars, shuffleVars
<1>4. QED BY <1>2, <1>3 DEF DealInv

\* When all partial decryptions of a call are made: what the recipient opens, and what
\* everybody sees of a community card.
LEMMA CardKnown ==
  ASSUME ShuffleInv, GameInv, CallInv, Revealed
  PROVE  /\ Dealing /\ Len(partials) = Len(Decryptors)
         /\ ~unnoticed =>
              /\ DealingHoles =>
                   FieldToCard(Decrypt(Recipient(Position), Ciphertext)) = CardOf(deck[Position])
              /\ ~DealingHoles => FieldToCard(Ciphertext) = CardOf(deck[Position])
              /\ CardOf(deck[Position]) \in Positions /\ CardOf(deck[Position]) # NoCard
<1> DEFINE card == CardOf(deck[Position])
           r    == Recipient(Position)
<1>1. /\ Dealing /\ dealer \in Players
      /\ Len(partials) \in Nat /\ Len(partials) <= Len(Decryptors) /\ Len(Decryptors) \in Nat
      /\ Position \in Positions /\ Position \in Nat
  BY CallStands DEF Revealed, Dealing
<1>2. Len(partials) = Len(Decryptors)
  BY <1>1 DEF Revealed, ToDecrypt
<1>3. ASSUME ~unnoticed
      PROVE  /\ DealingHoles => FieldToCard(Decrypt(r, Ciphertext)) = card
             /\ ~DealingHoles => FieldToCard(Ciphertext) = card
             /\ card \in Positions /\ card # NoCard
  <2>1. card \in Positions /\ Ciphertext = Locked(card, StillOn(Len(partials)))
    BY <1>1, <1>3, CallStandsFair
  <2> HIDE DEF card
  <2>2. FieldToCard(Locked(card, {})) = card /\ card # NoCard
    BY <2>1, OpenedCard
  <2>3. ASSUME DealingHoles PROVE FieldToCard(Decrypt(r, Ciphertext)) = card
    <3>1. r \in Players /\ Ciphertext = Locked(card, {r})
      BY <1>1, <1>2, <2>1, <2>3, LayersLeft
    <3> HIDE DEF r
    <3>2. Decrypt(r, Locked(card, {r})) = Locked(card, {r} \ {r})
      BY <2>1, <3>1, DecryptLocked
    <3>3. {r} \ {r} = {}
      OBVIOUS
    <3>4. QED BY <2>2, <3>1, <3>2, <3>3
  <2>4. ASSUME ~DealingHoles PROVE Ciphertext = Locked(card, {})
    BY <1>1, <1>2, <2>1, <2>4, LayersLeft
  <2>5. QED BY <2>1, <2>2, <2>3, <2>4
<1>4. QED BY <1>1, <1>2, <1>3 DEF card, r

\* The cards of the call, with the one that has just become known.
LEMMA CardsKnown ==
  ASSUME ShuffleInv, GameInv, CallInv, Dealing, NEW card \in Positions
  PROVE  LET cards == Append(dealt, card) IN
         /\ cards \in Seq(Positions) /\ Len(cards) = Len(dealt) + 1
         /\ Len(cards) <= CardsToDeal /\ Len(cards) \in Nat /\ CardsToDeal \in Nat
         /\ \A i \in 1..Len(dealt) : cards[i] = dealt[i]
         /\ cards[Len(dealt) + 1] = card
         /\ ~unnoticed /\ card = CardOf(deck[Position]) =>
              \A i \in 1..Len(cards) : cards[i] = CardOf(deck[FirstPosition + i - 1])
<1> DEFINE cards == Append(dealt, card)
<1>1. Len(dealt) \in Nat /\ Len(dealt) < CardsToDeal /\ dealt \in Seq(Positions)
  BY CallStands DEF CallInv
<1>2. Position = FirstPosition + Len(dealt) /\ Position \in Nat
  BY <1>1, Batches
<1>3. CardsToDeal \in Nat /\ FirstPosition \in Int
  <2>1. N \in Nat /\ 2 * N \in Nat
    BY PlayerNumbers
  <2>2. board \in Seq(Positions) /\ Len(board) \in Int
    BY LenProperties DEF GameInv
  <2>3. QED BY <2>1, <2>2 DEF CardsToDeal, FirstPosition, BatchSize, StartPos
<1>4. /\ cards \in Seq(Positions) /\ Len(cards) = Len(dealt) + 1
      /\ \A i \in 1..Len(dealt) : cards[i] = dealt[i]
      /\ cards[Len(dealt) + 1] = card
  BY <1>1
<1> HIDE DEF cards
<1>5. Len(cards) <= CardsToDeal /\ Len(cards) \in Nat
  BY <1>1, <1>3, <1>4
<1>6. ASSUME ~unnoticed, card = CardOf(deck[Position])
      PROVE  \A i \in 1..Len(cards) : cards[i] = CardOf(deck[FirstPosition + i - 1])
  <2>1. \A i \in 1..Len(dealt) : dealt[i] = CardOf(deck[FirstPosition + i - 1])
    BY <1>6 DEF CallInv
  <2>2. card = CardOf(deck[FirstPosition + (Len(dealt) + 1) - 1])
    <3>1. FirstPosition + (Len(dealt) + 1) - 1 = Position
      BY <1>1, <1>2, <1>3
    <3>2. QED BY <1>6, <3>1
  <2>3. \A i \in 1..(Len(dealt) + 1) : i \in 1..Len(dealt) \/ i = Len(dealt) + 1
    BY <1>1
  <2>4. QED BY <1>1, <1>4, <2>1, <2>2, <2>3
<1>7. QED BY <1>3, <1>4, <1>5, <1>6 DEF cards

\* The call goes on with the next card.
LEMMA NextCardInCall ==
  ASSUME ShuffleInv, GameInv, CallInv, Dealing, UNCHANGED <<deck, gameVars>>, Remembered,
         NEW card \in Positions, ~unnoticed => card = CardOf(deck[Position]),
         partials' = << >>, dealt' = Append(dealt, card), Len(dealt') < CardsToDeal
  PROVE  CallInv'
<1>1. Dealing' /\ FirstPosition' = FirstPosition /\ CardsToDeal' = CardsToDeal
      /\ PartialsDue' = PartialsDue /\ deck' = deck
  BY SameGame
<1>2. << >> \in Seq(Partials) /\ Len(<< >>) = 0 /\ \A k \in 1..0 : FALSE
  BY EmptySeq
<1>3. Len(partials') = 0 /\ 0 <= PartialsDue
  BY <1>2, PlayerNumbers DEF PartialsDue
<1>4. /\ dealt' \in Seq(Positions)
      /\ ~unnoticed => \A i \in 1..Len(dealt') : dealt'[i] = CardOf(deck[FirstPosition + i - 1])
  BY CardsKnown
<1>5. QED BY <1>1, <1>2, <1>3, <1>4 DEF CallInv, Remembered

\* What DealToEngine writes into the game is what lies at the players' places in the
\* deck.
LEMMA HandsFromDeck ==
  ASSUME dealer \in Players, NEW cards,
         \A i \in 1..(2 * N) : cards[i] = CardOf(deck[i - 1]), NEW p \in Players
  PROVE  HoleCardsOf(p, cards) = DealtTo(p)
<1> DEFINE place(round) == CHOOSE i \in ((round - 1) * N)..(round * N - 1) : Recipient(i) = p
           seat == SeatsLeft(p)
<1>1. /\ N \in Nat /\ N >= 2 /\ seat \in 1..N
      /\ \A i \in 0..(N - 1) : Recipient(i) = p <=> i = seat - 1
      /\ \A i \in N..(2 * N - 1) : Recipient(i) = p <=> i = N + seat - 1
  BY PlayerNumbers, Rounds
<1> HIDE DEF seat
<1>2. place(1) = seat - 1
  <2>1. (1 - 1) * N = 0 /\ 1 * N - 1 = N - 1
    BY <1>1
  <2>2. seat - 1 \in 0..(N - 1)
    BY <1>1
  <2>3. QED BY <1>1, <2>1, <2>2
<1>3. place(2) = N + seat - 1
  <2>1. (2 - 1) * N = N
    BY <1>1
  <2>2. N + seat - 1 \in N..(2 * N - 1)
    BY <1>1
  <2>3. QED BY <1>1, <2>1, <2>2
<1> HIDE DEF place
<1>4. cards[1 + place(1)] = CardOf(deck[(1 - 1) * N + seat - 1])
  <2>1. 1 + (seat - 1) \in 1..(2 * N) /\ (1 + (seat - 1)) - 1 = (1 - 1) * N + seat - 1
    BY <1>1
  <2>2. QED BY <1>2, <2>1
<1>5. cards[1 + place(2)] = CardOf(deck[(2 - 1) * N + seat - 1])
  <2>1. 1 + (N + seat - 1) \in 1..(2 * N) /\ (1 + (N + seat - 1)) - 1 = (2 - 1) * N + seat - 1
    BY <1>1
  <2>2. QED BY <1>3, <2>1
<1>6. \A round \in 1..2 : cards[1 + place(round)] = CardOf(deck[(round - 1) * N + seat - 1])
  <2>1. \A round \in 1..2 : round = 1 \/ round = 2
    OBVIOUS
  <2>2. QED BY <1>4, <1>5, <2>1
<1>7. [round \in 1..2 |-> cards[1 + place(round)]]
        = [round \in 1..2 |-> CardOf(deck[(round - 1) * N + seat - 1])]
  BY <1>6
<1>8. QED BY <1>7 DEF HoleCardsOf, DealtTo, place, seat

LEMMA RevealToPlayerStep == DealInv /\ RevealToPlayer => DealInv'
<1> SUFFICES ASSUME DealInv, RevealToPlayer PROVE DealInv'
  OBVIOUS
<1> DEFINE card  == FieldToCard(Decrypt(Recipient(Position), Ciphertext))
           cards == Append(dealt, card)
<1>1. /\ ShuffleInv /\ GameInv /\ CallInv /\ LogInv /\ WireInv
      /\ Revealed /\ DealingHoles /\ Dealing
  BY DEF DealInv, RevealToPlayer, Dealing
<1>2. /\ UNCHANGED shuffleVars /\ UNCHANGED <<unnoticed, wire>> /\ Remembered
      /\ IF card = NoCard THEN CallFails
         ELSE /\ partials' = << >>
              /\ IF Len(cards) < 2 * N
                 THEN dealt' = cards /\ UNCHANGED holeCards
                 ELSE dealt' = << >> /\ holeCards' = [p \in Players |-> HoleCardsOf(p, cards)]
              /\ UNCHANGED <<dealer, board, dealLog>>
  BY DEF RevealToPlayer, faultVars, Remembered
<1>3. ~unnoticed => card = CardOf(deck[Position])
  BY <1>1, CardKnown
<1>4. card # NoCard => card \in Positions
  BY FoundCard
<1> HIDE DEF card
<1>5. deck' = deck /\ dealer' = dealer
  BY <1>2 DEF shuffleVars, CallFails, gameVars
<1>6. ShuffleInv' /\ WireInv'
  BY <1>1, <1>2, <1>5, ShuffleKept, WireKept
<1>7. CASE card = NoCard
  BY <1>1, <1>2, <1>6, <1>7, FailedCall DEF DealInv
<1>8. CASE card # NoCard
  <2>1. /\ cards \in Seq(Positions) /\ Len(cards) <= CardsToDeal
        /\ Len(cards) \in Nat /\ CardsToDeal = 2 * N /\ FirstPosition = 0
        /\ ~unnoticed => \A i \in 1..Len(cards) : cards[i] = CardOf(deck[FirstPosition + i - 1])
    BY <1>1, <1>3, <1>4, <1>8, CardsKnown DEF CardsToDeal, FirstPosition
  <2> HIDE DEF cards
  <2>2. CASE Len(cards) < 2 * N
    <3>1. UNCHANGED <<deck, gameVars>> /\ UNCHANGED dealLog /\ dealt' = cards /\ partials' = << >>
      BY <1>2, <1>5, <1>8, <2>2 DEF gameVars
    <3>2. GameInv'
      BY <1>1, <1>2, <3>1, SameGame
    <3>3. CallInv'
      BY <1>1, <1>2, <1>3, <1>4, <1>8, <2>1, <2>2, <3>1, NextCardInCall DEF cards
    <3>4. LogInv'
      BY <1>1, <3>1, LogKept DEF DealingBoard
    <3>5. QED BY <1>6, <3>2, <3>3, <3>4 DEF DealInv
  <2>3. CASE ~(Len(cards) < 2 * N)
    <3>1. /\ dealt' = << >> /\ holeCards' = [p \in Players |-> HoleCardsOf(p, cards)]
          /\ partials' = << >> /\ UNCHANGED <<dealer, board, dealLog>>
      BY <1>2, <1>8, <2>3
    <3>2. ~unnoticed => \A i \in 1..(2 * N) : cards[i] = CardOf(deck[i - 1])
      <4>1. N \in Nat
        BY PlayerNumbers
      <4>2. Len(cards) = 2 * N
        BY <2>1, <2>3, <4>1
      <4>3. \A i \in 1..(2 * N) : 0 + i - 1 = i - 1
        BY <4>1
      <4>4. QED BY <2>1, <4>2, <4>3
    <3>3. ~unnoticed => \A p \in Players : HoleCardsOf(p, cards) = DealtTo(p)
      BY <1>1, <3>2, HandsFromDeck DEF GameInv
    <3>4. \A p : DealtTo(p)' = DealtTo(p)
      BY <1>5 DEF DealtTo, SeatsLeft
    <3>5. ~unnoticed' => holeCards' = [p \in Players |-> DealtTo(p)']
      BY <1>2, <3>1, <3>3, <3>4
    <3>6. HandsDealt' /\ deck' # Nil
      BY <1>1, <1>5, <3>1, HandsNotEmpty DEF DealingHoles, HandsDealt
    <3>7. GameInv'
      <4>1. BoardDealt' = BoardDealt
        BY <1>5, <3>1 DEF BoardDealt, BoardPositions
      <4>2. /\ dealer' \in Players /\ board' \in Seq(Positions) /\ Len(board') \in {0, 3, 4, 5}
            /\ ~unnoticed' => BoardDealt'
        BY <1>1, <1>2, <1>5, <3>1, <4>1 DEF GameInv, Remembered
      <4>3. QED BY <3>5, <3>6, <4>2 DEF GameInv
    <3>8. CallInv'
      BY <3>1, CallStarts
    <3>9. LogInv'
      <4>1. VerifyAllProofs(dealLog)' = VerifyAllProofs(dealLog)
        BY <3>1 DEF VerifyAllProofs
      <4>2. \A i \in 1..Len(board') : FALSE
        BY <1>1, <3>1, HandsAreDealt, EmptySeq
      <4>3. \A i \in 1..Len(dealt') : FALSE
        BY <3>1, EmptySeq
      <4>4. QED BY <1>1, <3>1, <4>1, <4>2, <4>3 DEF LogInv
    <3>10. QED BY <1>6, <3>7, <3>8, <3>9 DEF DealInv
  <2>4. QED BY <2>2, <2>3
<1>9. QED BY <1>7, <1>8

\* The cards of a batch follow the one that is burned.
LEMMA BatchPlaces ==
  ASSUME GameInv, DealingBoard
  PROVE  /\ Len(board) \in Nat /\ BatchSize \in Nat /\ Len(board) + BatchSize \in {3, 4, 5}
         /\ \A j \in 1..BatchSize : /\ Len(board) + j \in 1..5
                                    /\ BoardPositions[Len(board) + j] = StartPos + j
<1>1. N \in Nat
  BY PlayerNumbers
<1>2. Len(board) \in {0, 3, 4} /\ (board = << >> <=> Len(board) = 0)
  <2>1. Len(board) \in {0, 3, 4, 5} /\ Len(board) < 5
    BY DEF GameInv, DealingBoard
  <2>2. \A m \in {0, 3, 4, 5} : m < 5 => m \in {0, 3, 4}
    OBVIOUS
  <2>3. QED BY <2>1, <2>2, HandsAreDealt
<1>3. CASE Len(board) = 0
  <2>1. StartPos = 2 * N /\ BatchSize = 3
    BY <1>1, <1>2, <1>3 DEF StartPos, BatchSize
  <2>2. \A j \in 1..3 : 0 + j \in 1..5 /\ BoardPositions[0 + j] = 2 * N + j
    BY <1>1 DEF BoardPositions
  <2>3. QED BY <1>3, <2>1, <2>2
<1>4. CASE Len(board) = 3
  <2>1. StartPos = 2 * N + 4 /\ BatchSize = 1
    BY <1>1, <1>2, <1>4 DEF StartPos, BatchSize
  <2>2. \A j \in 1..1 : 3 + j \in 1..5 /\ BoardPositions[3 + j] = 2 * N + 4 + j
    BY <1>1 DEF BoardPositions
  <2>3. QED BY <1>4, <2>1, <2>2
<1>5. CASE Len(board) = 4
  <2>1. StartPos = 2 * N + 6 /\ BatchSize = 1
    BY <1>1, <1>2, <1>5 DEF StartPos, BatchSize
  <2>2. \A j \in 1..1 : 4 + j \in 1..5 /\ BoardPositions[4 + j] = 2 * N + 6 + j
    BY <1>1 DEF BoardPositions
  <2>3. QED BY <1>5, <2>1, <2>2
<1>6. QED BY <1>2, <1>3, <1>4, <1>5

\* The partial decryptions of a community card explain it, and the log only grows.
LEMMA LogGrows ==
  ASSUME ShuffleInv, GameInv, CallInv, LogInv, Revealed, DealingBoard
  PROVE  LET entries == dealLog \o partials IN
         /\ entries \in Seq(Partials) /\ VerifyAllProofs(entries)
         /\ Explained(entries, Position, FieldToCard(Ciphertext))
         /\ \A position, card : Explained(dealLog, position, card)
                                  => Explained(entries, position, card)
<1> DEFINE entries == dealLog \o partials
           m == Len(dealLog)
           n == Len(partials)
           card == FieldToCard(Ciphertext)
<1>1. /\ Dealing /\ ~DealingHoles /\ n = Len(Decryptors) /\ n \in Nat /\ n >= 1
      /\ dealer \in Players /\ Position \in Nat
      /\ partials \in Seq(Partials)
      /\ \A k \in 1..n : MadeAt(k, partials[k])
  BY CardKnown, CallStands DEF DealingBoard, CallInv
<1>2. /\ dealLog \in Seq(Partials) /\ VerifyAllProofs(dealLog) /\ m \in Nat
      /\ DOMAIN dealLog = 1..m
  BY LenProperties DEF LogInv
<1>3. /\ entries \in Seq(Partials) /\ Len(entries) = m + n
      /\ \A i \in 1..(m + n) : entries[i] = IF i <= m THEN dealLog[i] ELSE partials[i - m]
  <2>1. dealLog \in Seq(Partials) /\ partials \in Seq(Partials)
    BY <1>1, <1>2
  <2>2. QED BY ONLY <2>1, ConcatProperties
<1>4. DOMAIN entries = 1..(m + n)
  BY <1>3, LenProperties
<1>5. n \in 1..n /\ card = FieldToCard(partials[n].result)
  <2>1. n \in 1..n /\ partials # << >>
    BY <1>1, EmptySeq
  <2>2. QED BY <2>1 DEF Ciphertext, Last
<1> HIDE DEF entries, m, n, card
<1>6. \A i \in 1..m : i \in DOMAIN entries /\ entries[i] = dealLog[i]
  BY <1>1, <1>2, <1>3, <1>4
<1>7. \A k \in 1..n : m + k \in DOMAIN entries /\ entries[m + k] = partials[k]
  <2>1. \A k \in 1..n : m + k \in 1..(m + n) /\ ~(m + k <= m) /\ (m + k) - m = k
    BY <1>1, <1>2
  <2>2. QED BY <1>1, <1>3, <1>4, <2>1
<1>8. ASSUME NEW i \in DOMAIN entries PROVE Verify(entries[i])
  <2>1. CASE i <= m
    <3>1. i \in 1..m
      BY <1>1, <1>2, <1>4, <1>8, <2>1
    <3>2. QED BY <1>2, <1>6, <3>1 DEF VerifyAllProofs
  <2>2. CASE ~(i <= m)
    <3>1. i - m \in 1..n /\ m + (i - m) = i
      BY <1>1, <1>2, <1>4, <1>8, <2>2
    <3>2. entries[i] = partials[i - m]
      BY <1>7, <3>1
    <3>3. QED BY <1>1, <3>1, <3>2 DEF MadeAt
  <2>3. QED BY <2>1, <2>2
<1>9. Explained(entries, Position, card)
  <2>1. \A k \in 1..n : partials[k].position = Position /\ partials[k].by = Decryptors[k]
    BY <1>1 DEF MadeAt
  <2>2. \A p \in Players : \E k \in 1..n : Decryptors[k] = p
    <3>1. {Decryptors[j] : j \in 1..n} = Players
      BY <1>1, DecryptorOrder
    <3>2. QED BY <3>1
  <2>3. ASSUME NEW p \in Players
        PROVE  \E j \in DOMAIN entries : entries[j].position = Position /\ entries[j].by = p
    <3>1. PICK k \in 1..n : Decryptors[k] = p
      BY <2>2
    <3>2. m + k \in DOMAIN entries /\ entries[m + k].position = Position /\ entries[m + k].by = p
      BY <1>7, <2>1, <3>1
    <3>3. QED BY <3>2
  <2>4. /\ m + n \in DOMAIN entries /\ entries[m + n].position = Position
        /\ FieldToCard(entries[m + n].result) = card
    BY <1>5, <1>7, <2>1
  <2>5. QED BY <2>3, <2>4 DEF Explained
<1>10. ASSUME NEW position, NEW c, Explained(dealLog, position, c)
       PROVE  Explained(entries, position, c)
  BY <1>2, <1>6, <1>10 DEF Explained
<1>11. VerifyAllProofs(entries)
  BY <1>8 DEF VerifyAllProofs
<1>12. QED BY <1>3, <1>9, <1>10, <1>11 DEF entries, card

LEMMA RevealCommunityStep == DealInv /\ RevealCommunity => DealInv'
<1> SUFFICES ASSUME DealInv, RevealCommunity PROVE DealInv'
  OBVIOUS
<1> DEFINE card    == FieldToCard(Ciphertext)
           cards   == Append(dealt, card)
           entries == dealLog \o partials
<1>1. /\ ShuffleInv /\ GameInv /\ CallInv /\ LogInv /\ WireInv
      /\ Revealed /\ DealingBoard /\ ~DealingHoles /\ Dealing
  BY DEF DealInv, RevealCommunity, DealingBoard, Dealing
<1>2. /\ UNCHANGED shuffleVars /\ UNCHANGED <<unnoticed, wire>> /\ Remembered
      /\ IF card = NoCard THEN CallFails
         ELSE /\ partials' = << >> /\ dealLog' = entries
              /\ IF Len(cards) < BatchSize
                 THEN dealt' = cards /\ UNCHANGED board
                 ELSE dealt' = << >> /\ board' = board \o cards
              /\ UNCHANGED <<dealer, holeCards>>
  BY DEF RevealCommunity, LogPartials, faultVars, Remembered
<1>3. ~unnoticed => card = CardOf(deck[Position])
  BY <1>1, CardKnown
<1>4. card # NoCard => card \in Positions
  BY FoundCard
<1>5. /\ entries \in Seq(Partials) /\ VerifyAllProofs(entries)
      /\ Explained(entries, Position, card)
      /\ \A position, c : Explained(dealLog, position, c) => Explained(entries, position, c)
  BY <1>1, LogGrows
<1> HIDE DEF card, entries
<1>6. deck' = deck /\ deck # Nil /\ dealer' = dealer /\ dealer \in Players
  BY <1>1, <1>2 DEF shuffleVars, DealingBoard, CallFails, gameVars, GameInv
<1>7. ShuffleInv' /\ WireInv'
  BY <1>1, <1>2, <1>6, ShuffleKept, WireKept
<1>8. CASE card = NoCard
  BY <1>1, <1>2, <1>7, <1>8, FailedCall DEF DealInv
<1>9. CASE card # NoCard
  <2>1. /\ cards \in Seq(Positions) /\ Len(cards) <= BatchSize /\ Len(cards) \in Nat
        /\ Len(cards) = Len(dealt) + 1 /\ Len(dealt) \in Nat
        /\ CardsToDeal = BatchSize /\ FirstPosition = StartPos + 1
        /\ \A i \in 1..Len(dealt) : cards[i] = dealt[i]
        /\ cards[Len(dealt) + 1] = card
        /\ ~unnoticed => \A i \in 1..Len(cards) : cards[i] = CardOf(deck[FirstPosition + i - 1])
    BY <1>1, <1>3, <1>4, <1>9, CardsKnown, CallStands DEF CardsToDeal, FirstPosition
  <2> HIDE DEF cards
  <2>2. \A i \in 1..Len(cards) : Explained(entries, StartPos + i, cards[i])
    <3>1. \A i \in 1..Len(cards) : i \in 1..Len(dealt) \/ i = Len(dealt) + 1
      BY <2>1
    <3>2. Position = StartPos + (Len(dealt) + 1)
      <4>1. Position = StartPos + 1 + Len(dealt)
        BY <1>1 DEF Position
      <4>2. StartPos \in Int
        <5>1. N \in Nat /\ Len(board) \in Nat
          BY <1>1, PlayerNumbers, BatchPlaces
        <5>2. QED BY <5>1 DEF StartPos
      <4>3. QED BY <2>1, <4>1, <4>2
    <3>3. \A i \in 1..Len(dealt) : Explained(dealLog, StartPos + i, dealt[i])
      BY <1>1 DEF LogInv
    <3>4. QED BY <1>5, <2>1, <3>1, <3>2, <3>3
  <2>3. \A i \in 1..Len(board) : Explained(entries, BoardPositions[i], board[i])
    BY <1>1, <1>5 DEF LogInv
  <2>4. /\ VerifyAllProofs(dealLog)' /\ dealLog' \in Seq(Partials) /\ dealLog' = entries
        /\ \A position, c : Explained(dealLog', position, c) = Explained(entries, position, c)
        /\ BoardPositions' = BoardPositions /\ partials' = << >>
        /\ UNCHANGED <<dealer, holeCards>>
    BY <1>2, <1>5, <1>9 DEF VerifyAllProofs, BoardPositions
  <2>5. CASE Len(cards) < BatchSize
    <3>1. UNCHANGED <<deck, gameVars>> /\ dealt' = cards
      BY <1>2, <1>6, <1>9, <2>5 DEF gameVars
    <3>2. GameInv' /\ StartPos' = StartPos /\ board' = board
      BY <1>1, <1>2, <3>1, SameGame DEF gameVars
    <3>3. CallInv'
      BY <1>1, <1>2, <1>3, <1>4, <1>9, <2>1, <2>4, <2>5, <3>1, NextCardInCall DEF cards
    <3>4. LogInv'
      <4>1. \A i \in 1..Len(board') : Explained(dealLog', BoardPositions'[i], board'[i])
        BY <2>3, <2>4, <3>2
      <4>2. \A i \in 1..Len(dealt') : Explained(dealLog', StartPos' + i, dealt'[i])
        BY <2>2, <2>4, <3>1, <3>2
      <4>3. QED BY <2>4, <4>1, <4>2 DEF LogInv
    <3>5. QED BY <1>7, <3>2, <3>3, <3>4 DEF DealInv
  <2>6. CASE ~(Len(cards) < BatchSize)
    <3>1. dealt' = << >> /\ board' = board \o cards
      BY <1>2, <1>9, <2>6
    <3>2. /\ Len(board) \in Nat /\ BatchSize \in Nat /\ Len(board) + BatchSize \in {3, 4, 5}
          /\ \A j \in 1..BatchSize : /\ Len(board) + j \in 1..5
                                     /\ BoardPositions[Len(board) + j] = StartPos + j
      BY <1>1, BatchPlaces
    <3>3. Len(cards) = BatchSize
      BY <2>1, <2>6, <3>2
    <3>4. board \in Seq(Positions) /\ HandsDealt
      BY <1>1, <1>6, HandsAreDealt DEF GameInv
    <3>5. /\ board' \in Seq(Positions) /\ Len(board') = Len(board) + BatchSize
          /\ \A i \in 1..(Len(board) + BatchSize) :
               board'[i] = IF i <= Len(board) THEN board[i] ELSE cards[i - Len(board)]
      BY <2>1, <3>1, <3>3, <3>4, ConcatProperties
    <3>6. \A i \in 1..(Len(board) + BatchSize) :
            \/ i \in 1..Len(board) /\ i <= Len(board)
            \/ /\ ~(i <= Len(board)) /\ i - Len(board) \in 1..BatchSize
               /\ Len(board) + (i - Len(board)) = i
      BY <3>2
    <3>7. ASSUME NEW i \in 1..Len(board')
          PROVE  \/ i \in 1..Len(board) /\ board'[i] = board[i]
                 \/ \E j \in 1..BatchSize : /\ board'[i] = cards[j]
                                            /\ BoardPositions[i] = StartPos + j
      <4>1. CASE i \in 1..Len(board) /\ i <= Len(board)
        BY <3>5, <3>7, <4>1
      <4>2. CASE ~(i <= Len(board)) /\ i - Len(board) \in 1..BatchSize
                  /\ Len(board) + (i - Len(board)) = i
        BY <3>2, <3>5, <3>7, <4>2
      <4>3. QED BY <3>5, <3>6, <3>7, <4>1, <4>2
    <3>8. \A i \in 1..Len(board') : Explained(entries, BoardPositions[i], board'[i])
      BY <2>2, <2>3, <3>3, <3>7
    <3>9. ~unnoticed => \A i \in 1..Len(board') : board'[i] = CardOf(deck[BoardPositions[i]])
      <4>1. SUFFICES ASSUME ~unnoticed
                     PROVE  \A i \in 1..Len(board') : board'[i] = CardOf(deck[BoardPositions[i]])
        OBVIOUS
      <4>2. \A i \in 1..Len(board) : board[i] = CardOf(deck[BoardPositions[i]])
        BY <1>1, <4>1 DEF GameInv, BoardDealt
      <4>3. \A j \in 1..BatchSize : cards[j] = CardOf(deck[StartPos + j])
        <5>1. StartPos \in Int
          BY <3>2, PlayerNumbers DEF StartPos
        <5>2. \A j \in 1..BatchSize : (StartPos + 1) + j - 1 = StartPos + j
          BY <3>2, <5>1
        <5>3. QED BY <2>1, <3>3, <4>1, <5>2
      <4>4. QED BY <3>7, <4>2, <4>3
    <3>10. GameInv'
      <4>1. \A p : DealtTo(p)' = DealtTo(p)
        BY <1>6 DEF DealtTo, SeatsLeft
      <4>2. ~unnoticed' => /\ HandsDealt' => holeCards' = [p \in Players |-> DealtTo(p)']
                           /\ BoardDealt'
        BY <1>1, <1>2, <1>6, <2>4, <3>4, <3>9, <4>1 DEF GameInv, BoardDealt, Remembered
      <4>3. HandsDealt' /\ deck' # Nil /\ dealer' \in Players
        BY <1>6, <2>4, <3>4 DEF HandsDealt
      <4>4. Len(board') \in {0, 3, 4, 5} /\ board' \in Seq(Positions)
        BY <3>2, <3>5
      <4>5. QED BY <4>2, <4>3, <4>4 DEF GameInv
    <3>11. CallInv'
      BY <2>4, <3>1, CallStarts
    <3>12. LogInv'
      <4>1. \A i \in 1..Len(board') : Explained(dealLog', BoardPositions'[i], board'[i])
        BY <2>4, <3>8
      <4>2. \A i \in 1..Len(dealt') : FALSE
        BY <3>1, EmptySeq
      <4>3. QED BY <2>4, <4>1, <4>2 DEF LogInv
    <3>13. QED BY <1>7, <3>10, <3>11, <3>12 DEF DealInv
  <2>7. QED BY <2>5, <2>6
<1>10. QED BY <1>8, <1>9

-----------------------------------------------------------------------------
(* The invariant and the safety properties.                                *)

LEMMA DealStarts == Init => DealInv
<1> SUFFICES ASSUME Init PROVE DealInv
  OBVIOUS
<1>1. /\ deckInHand = BuildPlaintextDeck /\ shuffler = 0 /\ deck = Nil /\ dealer \in Players
      /\ partials = << >> /\ dealt = << >> /\ holeCards = [p \in Players |-> << >>]
      /\ board = << >> /\ dealLog = << >> /\ wire = {}
  BY DEF Init
<1>2. \A S : << >> \in Seq(S) /\ Len(<< >>) = 0
  BY EmptySeq
<1>3. (\A i \in 1..0 : FALSE) /\ DOMAIN << >> = {}
  OBVIOUS
<1>4. 0 \in Players /\ 0..(0 - 1) = {}
  BY PlayerNumbers
<1>5. ShuffleInv
  BY <1>1, <1>4, PlaintextPack DEF ShuffleInv
<1>6. GameInv
  <2>1. NoHands /\ ~HandsDealt
    BY <1>1, <1>4 DEF NoHands, HandsDealt
  <2>2. BoardDealt
    BY <1>1, <1>2, <1>3 DEF BoardDealt
  <2>3. QED BY <1>1, <1>2, <2>1, <2>2 DEF GameInv
<1>7. CallInv
  <2>1. ~Dealing
    BY <1>1 DEF Dealing, DealingHoles, DealingBoard
  <2>2. QED BY <1>1, <1>2, <2>1 DEF CallInv
<1>8. LogInv
  BY <1>1, <1>2, <1>3 DEF LogInv, VerifyAllProofs
<1>9. WireInv
  BY <1>1 DEF WireInv, HoleCardsPrivate
<1>10. QED BY <1>5, <1>6, <1>7, <1>8, <1>9 DEF DealInv

LEMMA DealInvKept == DealInv /\ UNCHANGED vars => DealInv'
<1> SUFFICES ASSUME DealInv, UNCHANGED vars PROVE DealInv'
  OBVIOUS
<1>1. ShuffleInv /\ GameInv /\ CallInv /\ LogInv /\ WireInv
  BY DEF DealInv
<1>2. /\ UNCHANGED <<deck, gameVars>> /\ UNCHANGED shuffleVars /\ UNCHANGED dealLog
      /\ dealt' = dealt /\ partials' = partials /\ unnoticed' = unnoticed /\ Remembered
      /\ UNCHANGED <<wire, dealer>>
  BY DEF vars, shuffleVars, gameVars, callVars, faultVars, Remembered
<1>3. ShuffleInv' /\ GameInv' /\ LogInv' /\ WireInv'
  BY <1>1, <1>2, ShuffleKept, SameGame, LogKept, WireKept
<1>4. CallInv'
  <2>1. /\ Dealing' = Dealing /\ CardsToDeal' = CardsToDeal /\ FirstPosition' = FirstPosition
        /\ PartialsDue' = PartialsDue /\ deck' = deck
    BY <1>2, SameGame
  <2>2. (\A k : PartialAt(k)' = PartialAt(k)) /\ \A k, pd : MadeAt(k, pd) => MadeAt(k, pd)'
    BY <1>2, SameCard
  <2>3. \A k : MadeAt(k, partials[k]) => MadeAt(k, partials[k])'
    BY <1>2, <2>2
  <2>4. QED BY <1>1, <1>2, <2>1, <2>2, <2>3 DEF CallInv
<1>5. QED BY <1>3, <1>4 DEF DealInv

LEMMA DealGoesOn == DealInv /\ [Next]_vars => DealInv'
BY HonestShuffleStep, SubstitutedShuffleStep, CommittedSubstitutionStep, HonestDecryptionStep,
   SubstitutedDecryptionStep, OtherDecryptionStep, WithheldDecryptionStep, RevealToPlayerStep,
   RevealCommunityStep, DealInvKept DEF Next

\* However often somebody cheats and a call is made again: each accepted partial
\* decryption is of the position, by the player whose turn it is, with a proof that
\* verifies, and the log explains what lies on the table.  Until a substitution has passed
\* unnoticed, the deck is also a pack under everybody's layers, the cards are those at
\* their places in it, and the partial decryptions are the honest ones (crypto_game.go,
\* deal.go).
THEOREM DealCorrect == Spec => []DealInv
BY DealStarts, DealGoesOn, PTL DEF Spec

\* Nothing that goes from player to player opens a hole card to anybody but its owner,
\* for any number of players and faults: the owner's layer stays as it is in the deck,
\* and it is on unless a substitution has passed unnoticed (deal.go:30, RevealToPlayer).
THEOREM HoleCardsStayPrivate == Spec => []HoleCardsPrivate
<1>1. DealInv => HoleCardsPrivate
  BY DEF DealInv, WireInv
<1>2. QED BY <1>1, DealCorrect, PTL

\* The log of the deal stands an audit at every moment: its proofs are good, and each
\* community card has a decryption by every player, one of which gives the card, whatever
\* was substituted (crypto_game.go:177, dealBatch).
THEOREM LogExplainsTheBoard == Spec => []LogExplainsBoard
<1>1. DealInv => LogExplainsBoard
  <2> SUFFICES ASSUME DealInv PROVE LogExplainsBoard
    OBVIOUS
  <2>1. /\ dealLog \in Seq(Partials) /\ VerifyAllProofs(dealLog)
        /\ \A i \in 1..Len(board) : Explained(dealLog, BoardPositions[i], board[i])
    BY DEF DealInv, LogInv
  <2>2. DOMAIN board = 1..Len(board)
    BY LenProperties DEF DealInv, GameInv
  <2>3. \A j \in DOMAIN dealLog : dealLog[j].by \in Players
    <3>1. \A j \in DOMAIN dealLog : dealLog[j] \in Partials
      BY <2>1, LenProperties, ElementOfSeq
    <3>2. QED BY <3>1 DEF Partials
  <2>4. ASSUME NEW i \in DOMAIN board
        PROVE  LET mine == {j \in DOMAIN dealLog : dealLog[j].position = BoardPositions[i]} IN
               /\ {dealLog[j].by : j \in mine} = Players
               /\ \E j \in mine : FieldToCard(dealLog[j].result) = board[i]
    <3> DEFINE mine == {j \in DOMAIN dealLog : dealLog[j].position = BoardPositions[i]}
    <3>1. /\ \A p \in Players : \E j \in mine : dealLog[j].by = p
          /\ \E j \in mine : FieldToCard(dealLog[j].result) = board[i]
      BY <2>1, <2>2, <2>4 DEF Explained
    <3>2. \A j \in mine : dealLog[j].by \in Players
      BY <2>3
    <3> HIDE DEF mine
    <3>3. {dealLog[j].by : j \in mine} = Players
      BY <3>1, <3>2
    <3>4. QED BY <3>1, <3>3 DEF mine
  <2>5. QED BY <2>1, <2>4 DEF LogExplainsBoard
<1>2. QED BY <1>1, DealCorrect, PTL

-----------------------------------------------------------------------------
(* The deal is a dealer's.                                                 *)

\* With the layers off, the deck is the pack in its order.
LEMMA PackOrder ==
  ASSUME deck # Nil, PackUnder(deck, Players)
  PROVE  /\ Pack \in Seq(Positions) /\ Len(Pack) = NumCards /\ Pack # << >>
         /\ \A i \in 1..NumCards : Pack[i] = CardOf(deck[i - 1])
<1>1. NumCards \in Nat /\ NumCards >= 1
  BY PlayerNumbers
<1>2. \A i \in 1..NumCards : i - 1 \in Positions /\ CardOf(deck[i - 1]) \in Positions
  <2>1. \A i \in 1..NumCards : i - 1 \in Positions
    BY <1>1, PlayerNumbers
  <2>2. QED BY <2>1 DEF PackUnder
<1>3. Pack = [i \in 1..NumCards |-> CardOf(deck[i - 1])]
  BY DEF Pack, CardOf
<1>4. Pack \in [1..NumCards -> Positions]
  BY <1>2, <1>3
<1>5. Pack \in Seq(Positions)
  BY <1>1, <1>4, SeqDef
<1>6. 1..Len(Pack) = 1..NumCards /\ Len(Pack) \in Nat
  BY <1>4, <1>5, LenProperties
<1>7. Len(Pack) = NumCards
  BY <1>1, <1>6
<1>8. QED BY <1>1, <1>3, <1>5, <1>7, EmptySeq

LEMMA ShuffleShuffles ==
  ASSUME deck = Nil, deck' # Nil, PackUnder(deck', Players), UNCHANGED gameVars
  PROVE  Hand!Shuffle
<1>1. NumCards \in Nat /\ NumCards >= 1
  BY PlayerNumbers
<1>2. Pack = << >>
  BY DEF Pack
<1>3. Pack' = [i \in 1..NumCards |-> CardOf(deck'[i - 1])]
  BY DEF Pack, CardOf
<1>4. \A i \in 1..NumCards : i - 1 \in Positions
  BY <1>1, PlayerNumbers
<1>5. /\ \A i \in Positions : CardOf(deck'[i]) \in Positions
      /\ \A i, j \in Positions : CardOf(deck'[i]) = CardOf(deck'[j]) => i = j
      /\ \A c \in Positions : \E i \in Positions : CardOf(deck'[i]) = c
  BY DEF PackUnder
<1>6. Pack' \in [1..NumCards -> Positions] /\ DOMAIN Pack' = 1..NumCards
  BY <1>3, <1>4, <1>5
<1>7. Len(Pack') = NumCards
  <2>1. Pack' \in Seq(Positions)
    BY <1>1, <1>6, SeqDef
  <2>2. 1..Len(Pack') = 1..NumCards /\ Len(Pack') \in Nat
    BY <1>6, <2>1, LenProperties
  <2>3. QED BY <1>1, <2>2
<1>8. \A i, j \in DOMAIN Pack' : Pack'[i] = Pack'[j] => i = j
  <2>1. ASSUME NEW i \in 1..NumCards, NEW j \in 1..NumCards, Pack'[i] = Pack'[j]
        PROVE  i = j
    <3>1. i - 1 = j - 1
      BY <1>3, <1>4, <1>5, <2>1
    <3>2. QED BY <3>1, <1>1
  <2>2. QED BY <1>6, <2>1
<1>9. {Pack'[i] : i \in DOMAIN Pack'} = 0..(NumCards - 1)
  <2>1. ASSUME NEW c \in Positions PROVE \E i \in 1..NumCards : Pack'[i] = c
    <3>1. PICK k \in Positions : CardOf(deck'[k]) = c
      BY <1>5
    <3>2. k + 1 \in 1..NumCards /\ (k + 1) - 1 = k
      BY <1>1, PlayerNumbers
    <3>3. Pack'[k + 1] = c
      BY <1>3, <3>1, <3>2
    <3>4. QED BY <3>2, <3>3
  <2>2. \A i \in 1..NumCards : Pack'[i] \in Positions
    BY <1>6
  <2>3. QED BY <1>6, <2>1, <2>2 DEF Positions
<1>10. QED BY <1>2, <1>7, <1>8, <1>9 DEF Hand!Shuffle, Hand!IsInjective, Hand!ToSet, gameVars

LEMMA HandsAreDealers ==
  ASSUME deck # Nil, PackUnder(deck, Players), dealer \in Players, UNCHANGED <<deck, dealer, board>>,
         holeCards = [p \in Players |-> << >>], holeCards' = [p \in Players |-> DealtTo(p)]
  PROVE  Hand!DealHoles
<1>1. N \in Nat /\ N >= 2 /\ NumCards \in Nat /\ NumCards >= 2 * N
  BY PlayerNumbers
<1>2. Pack' = Pack /\ Pack # << >> /\ \A i \in 1..NumCards : Pack[i] = CardOf(deck[i - 1])
  BY PackOrder DEF Pack
<1>3. ASSUME NEW p \in Players
      PROVE  DealtTo(p) = <<Pack[SeatsLeft(p)], Pack[N + SeatsLeft(p)]>>
  <2> DEFINE seat == SeatsLeft(p)
  <2>1. seat \in 1..N
    BY Rounds
  <2> HIDE DEF seat
  <2>2. /\ seat \in 1..NumCards /\ N + seat \in 1..NumCards
        /\ (1 - 1) * N + seat - 1 = seat - 1 /\ (2 - 1) * N + seat - 1 = (N + seat) - 1
    BY <1>1, <2>1
  <2>3. /\ Pack[seat] = CardOf(deck[(1 - 1) * N + seat - 1])
        /\ Pack[N + seat] = CardOf(deck[(2 - 1) * N + seat - 1])
    BY <1>2, <2>2
  <2> DEFINE hand == <<Pack[seat], Pack[N + seat]>>
  <2>4. hand = [round \in 1..2 |-> hand[round]]
    OBVIOUS
  <2>5. \A round \in 1..2 : hand[round] = CardOf(deck[(round - 1) * N + seat - 1])
    <3>1. hand[1] = Pack[seat] /\ hand[2] = Pack[N + seat]
      OBVIOUS
    <3>2. \A round \in 1..2 : round = 1 \/ round = 2
      OBVIOUS
    <3> HIDE DEF hand
    <3>3. QED BY <2>3, <3>1, <3>2
  <2> HIDE DEF hand
  <2>6. hand = [round \in 1..2 |-> CardOf(deck[(round - 1) * N + seat - 1])]
    BY <2>4, <2>5
  <2>7. QED BY <2>6 DEF DealtTo, seat, hand
<1>4. \A p \in Players : Hand!LeftOfButton(p) = SeatsLeft(p)
  BY DEF Hand!LeftOfButton, SeatsLeft
<1>5. Hand!Players = Players
  BY DEF Hand!Players, Players
<1>6. holeCards' = [p \in Hand!Players |-> <<Pack[Hand!LeftOfButton(p)],
                                            Pack[N + Hand!LeftOfButton(p)]>>]
  BY <1>3, <1>4, <1>5
<1>7. QED BY <1>2, <1>5, <1>6 DEF Hand!DealHoles

\* A batch of community cards is the next ones of the dealer's board.
LEMMA BoardIsDealers ==
  ASSUME GameInv, GameInv', ~unnoticed', PackUnder(deck, Players), DealingBoard,
         UNCHANGED <<deck, dealer, holeCards>>, Len(board') = Len(board) + BatchSize
  PROVE  Hand!DealBoard
<1>1. /\ N \in Nat /\ N >= 2 /\ NumCards \in Nat /\ NumCards >= 2 * N + 8
      /\ deck # Nil /\ Len(board) < 5 /\ \A p \in Players : holeCards[p] # << >>
  BY PlayerNumbers DEF DealingBoard, DealingHoles
<1>2. Pack' = Pack /\ \A i \in 1..NumCards : Pack[i] = CardOf(deck[i - 1])
  BY <1>1, PackOrder DEF Pack
<1>3. /\ Len(board) \in Nat /\ BatchSize \in Nat /\ Len(board') \in {3, 4, 5}
      /\ Len(board') = IF board = << >> THEN 3 ELSE Len(board) + 1
  BY BatchPlaces, HandsAreDealt DEF BatchSize
<1>4. \A m \in {3, 4, 5} : m \in Nat /\ m <= 5
  OBVIOUS
<1> DEFINE cards == Hand!BoardCards
           n     == Len(board')
<1>5. cards = <<Pack[2*N + 2], Pack[2*N + 3], Pack[2*N + 4], Pack[2*N + 6], Pack[2*N + 8]>>
  BY DEF Hand!BoardCards
<1> HIDE DEF cards
<1>6. \A i \in 1..5 : BoardPositions[i] + 1 \in 1..NumCards
                      /\ (BoardPositions[i] + 1) - 1 = BoardPositions[i]
  BY <1>1 DEF BoardPositions
<1>7. \A i \in 1..5 : cards[i] = Pack[BoardPositions[i] + 1]
  <2>1. /\ BoardPositions[1] + 1 = 2*N + 2 /\ BoardPositions[2] + 1 = 2*N + 3
        /\ BoardPositions[3] + 1 = 2*N + 4 /\ BoardPositions[4] + 1 = 2*N + 6
        /\ BoardPositions[5] + 1 = 2*N + 8
    BY <1>1 DEF BoardPositions
  <2>2. \A i \in 1..5 : i = 1 \/ i = 2 \/ i = 3 \/ i = 4 \/ i = 5
    OBVIOUS
  <2>3. QED BY <1>5, <2>1, <2>2
<1>8. \A i \in 1..5 : cards[i] = CardOf(deck[BoardPositions[i]])
  BY <1>2, <1>6, <1>7
<1>9. /\ board' \in Seq(Positions) /\ \A i \in 1..n : board'[i] = CardOf(deck[BoardPositions[i]])
  BY DEF GameInv, BoardDealt, BoardPositions
<1>10. \A i \in 1..n : i \in 1..5
  BY <1>3, <1>4
<1>11. \A i \in 1..n : cards[i] \in Positions /\ cards[i] = board'[i]
  BY <1>8, <1>9, <1>10, ElementOfSeq
<1>12. n \in Nat /\ n >= 1
  BY <1>3
<1> HIDE DEF n
<1>13. /\ SubSeq(cards, 1, n) \in Seq(Positions) /\ Len(SubSeq(cards, 1, n)) = n
       /\ \A i \in 1..n : SubSeq(cards, 1, n)[i] = cards[i]
  <2>1. \A i \in 1..n : cards[i] \in Positions
    BY <1>11
  <2>2. /\ SubSeq(cards, 1, n) \in Seq(Positions)
        /\ Len(SubSeq(cards, 1, n)) = IF 1 <= n THEN n - 1 + 1 ELSE 0
        /\ \A i \in 1..(n - 1 + 1) : SubSeq(cards, 1, n)[i] = cards[1 + i - 1]
    BY <1>12, <2>1, SubSeqProperties
  <2>3. n - 1 + 1 = n /\ \A i \in 1..n : 1 + i - 1 = i
    BY <1>12
  <2>4. QED BY <1>12, <2>2, <2>3
<1>14. board' = SubSeq(cards, 1, n)
  <2>1. Len(board') = Len(SubSeq(cards, 1, n))
    BY <1>13 DEF n
  <2>2. \A i \in 1..Len(board') : board'[i] = SubSeq(cards, 1, n)[i]
    BY <1>11, <1>13 DEF n
  <2>3. QED BY <1>9, <1>13, <2>1, <2>2, SeqEqual
<1>15. Hand!Players = Players
  BY DEF Hand!Players, Players
<1>16. n = IF board = << >> THEN 3 ELSE Len(board) + 1
  BY <1>3 DEF n
<1>17. QED BY <1>1, <1>2, <1>14, <1>15, <1>16 DEF Hand!DealBoard, cards

LEMMA DealStepsHand ==
  ASSUME DealInv, DealInv', [Next]_vars
  PROVE  [Hand!Next \/ unnoticed']_<<Pack, dealer, holeCards, board>>
<1> SUFFICES ASSUME ~unnoticed' PROVE [Hand!Next]_<<Pack, dealer, holeCards, board>>
  OBVIOUS
<1>1. /\ ShuffleInv /\ GameInv /\ CallInv /\ LogInv /\ GameInv' /\ ShuffleInv'
  BY DEF DealInv
<1>2. ASSUME UNCHANGED <<deck, gameVars>>
      PROVE  UNCHANGED <<Pack, dealer, holeCards, board>>
  BY <1>2 DEF gameVars, Pack
<1>3. ASSUME NEW sent, NEW commitment, ShuffleStep(sent, commitment)
      PROVE  [Hand!Next]_<<Pack, dealer, holeCards, board>>
  <2>1. deck = Nil /\ UNCHANGED gameVars
    BY <1>3 DEF ShuffleStep
  <2>2. CASE deck' = Nil
    BY <1>2, <2>1, <2>2
  <2>3. CASE deck' # Nil
    <3>1. PackUnder(deck', Players)
      BY <1>1, <2>3 DEF ShuffleInv, PackUnder
    <3>2. QED BY <2>1, <2>3, <3>1, ShuffleShuffles DEF Hand!Next
  <2>4. QED BY <2>2, <2>3
<1>4. CASE HonestShuffle \/ SubstitutedShuffle
  BY <1>3, <1>4 DEF HonestShuffle, SubstitutedShuffle
<1>5. CASE CommittedSubstitution \/ OtherDecryption
  BY <1>5 DEF CommittedSubstitution, OtherDecryption
<1>6. CASE HonestDecryption \/ SubstitutedDecryption \/ WithheldDecryption
  <2>1. UNCHANGED <<deck, gameVars>>
    BY <1>6 DEF HonestDecryption, SubstitutedDecryption, WithheldDecryption, PartialDecryption,
                CallFails, shuffleVars
  <2>2. QED BY <1>2, <2>1
<1>7. CASE RevealToPlayer
  <2>1. /\ deck # Nil /\ DealingHoles /\ UNCHANGED <<deck, dealer, board, unnoticed>>
        /\ holeCards' = holeCards \/ \E cards : holeCards' = [p \in Players |-> HoleCardsOf(p, cards)]
    BY <1>7 DEF RevealToPlayer, DealingHoles, CallFails, shuffleVars, gameVars, faultVars
  <2>2. /\ PackUnder(deck, Players) /\ dealer \in Players
        /\ holeCards = [p \in Players |-> << >>]
    BY <1>1, <2>1, HandsAreDealt DEF ShuffleInv, GameInv, NoHands
  <2>3. CASE holeCards' = holeCards
    BY <1>2, <2>1, <2>3 DEF gameVars
  <2>4. CASE \E cards : holeCards' = [p \in Players |-> HoleCardsOf(p, cards)]
    <3>1. HandsDealt'
      BY <2>4, HandsNotEmpty DEF HandsDealt
    <3>2. \A p : DealtTo(p)' = DealtTo(p)
      BY <2>1 DEF DealtTo, SeatsLeft
    <3>3. holeCards' = [p \in Players |-> DealtTo(p)]
      BY <1>1, <3>1, <3>2 DEF GameInv
    <3>4. QED BY <2>1, <2>2, <3>3, HandsAreDealers DEF Hand!Next
  <2>5. QED BY <2>1, <2>3, <2>4
<1>8. CASE RevealCommunity
  <2> DEFINE card  == FieldToCard(Ciphertext)
             cards == Append(dealt, card)
  <2>1. /\ DealingBoard /\ Revealed /\ UNCHANGED <<deck, dealer, holeCards, unnoticed>>
        /\ deck # Nil /\ ~DealingHoles
    BY <1>8 DEF RevealCommunity, CallFails, shuffleVars, gameVars, faultVars, DealingBoard
  <2>2. PackUnder(deck, Players) /\ board \in Seq(Positions)
    BY <1>1, <2>1 DEF ShuffleInv, GameInv
  <2>3. Dealing /\ card = CardOf(deck[Position]) /\ card # NoCard /\ card \in Positions
    BY <1>1, <2>1, CardKnown
  <2> HIDE DEF card
  <2>4. cards \in Seq(Positions) /\ Len(cards) <= BatchSize /\ Len(cards) \in Nat
    BY <1>1, <2>1, <2>3, CardsKnown DEF CardsToDeal
  <2>5. IF Len(cards) < BatchSize THEN UNCHANGED board ELSE board' = board \o cards
    BY <1>8, <2>3 DEF RevealCommunity, card
  <2> HIDE DEF cards
  <2>6. CASE Len(cards) < BatchSize
    BY <1>2, <2>1, <2>5, <2>6 DEF gameVars
  <2>7. CASE ~(Len(cards) < BatchSize)
    <3>1. Len(cards) = BatchSize
      BY <1>1, <2>1, <2>4, <2>7, BatchPlaces
    <3>2. Len(board') = Len(board) + BatchSize
      BY <2>2, <2>4, <2>5, <2>7, <3>1, ConcatProperties
    <3>3. Hand!DealBoard
      BY <1>1, <2>1, <2>2, <3>2, BoardIsDealers
    <3>4. QED BY <3>3 DEF Hand!Next
  <2>8. QED BY <2>6, <2>7
<1>9. CASE UNCHANGED vars
  BY <1>2, <1>9 DEF vars, shuffleVars
<1>10. QED BY <1>4, <1>5, <1>6, <1>7, <1>8, <1>9 DEF Next

\* Until a substitution has passed unnoticed, the deal is one that a dealer with a
\* shuffled pack could have made, for any number of players, whatever was substituted and
\* found out and however often a call is made again (crypto_game.go:87, shuffle.go,
\* deal.go).
THEOREM DealImplementsDealer == Spec => ImplementsDealer
<1>1. Init => Hand!Init
  BY DEF Init, Hand!Init, Hand!Players, Players, Pack
<1>2. DealInv /\ DealInv' /\ [Next]_vars
        => [Hand!Next \/ unnoticed']_<<Pack, dealer, holeCards, board>>
  BY DealStepsHand
<1>3. QED BY <1>1, <1>2, DealCorrect, PTL DEF Spec, ImplementsDealer

=============================================================================
