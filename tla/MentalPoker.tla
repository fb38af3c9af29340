----------------------------- MODULE MentalPoker -----------------------------
(***************************************************************************)
(* The shuffle and the deal of a hand without a dealer (phase2/sra.go,     *)
(* shuffle.go, deal.go, zkp.go, crypto_game.go).  Each player's part is a  *)
(* step.  A card is a power of the generator 2, under encryption with the  *)
(* exponents of the players who have put a layer on: encrypting adds the   *)
(* player's layer, decrypting takes it off, and the layers commute.  A     *)
(* player may hand on something else than what it should have computed, or *)
(* nothing, at most MaxFaults times.  Where the code finds out, the call   *)
(* fails and the caller may make it again; where it does not, the history  *)
(* variable unnoticed says so.                                             *)
(***************************************************************************)
EXTENDS Integers, Sequences, SequencesExt, Functions

CONSTANTS
  N,         \* players, 0..N-1
  NumCards,  \* cards and deck positions, 0..NumCards-1
  Order,     \* the order of the group that the generator 2 spans
  Multiples, \* how far a wrong exponent may be from the player's own
  Perms,     \* the permutations of the positions that a shuffle may draw
  MaxFaults  \* bound: substituted decks and results, withheld results

ASSUME DealAssumption ==
  /\ N \in Nat /\ N >= 2 /\ NumCards \in Nat /\ NumCards >= 2 * N + 8
  /\ Order \in Nat /\ Order > NumCards /\ Multiples \subseteq 2..(Order - 1)
  /\ \A perm \in Perms : perm \in Bijection(0..(NumCards - 1), 0..(NumCards - 1))
  /\ MaxFaults \in Nat

VARIABLES
  deckInHand, \* the deck between the steps of RunFullShuffle
  shuffler,   \* whose step is next
  deck,       \* cg.Deck, Nil before the shuffle is through
  dealer,     \* gs.DealerIdx
  partials,   \* the partial decryptions of the card being revealed
  dealt,      \* the cards revealed so far in the call that is running
  holeCards,  \* the players' hole cards in the GameState
  board,      \* the community cards dealt
  dealLog,    \* cg.DealLog
  faults,     \* how often somebody has not kept to the protocol (history)
  unnoticed,  \* whether a substitution has passed the checks (history)
  wire        \* what was handed on in partial decryptions (history)

shuffleVars == <<deckInHand, shuffler, deck>>
callVars    == <<partials, dealt>>
gameVars    == <<dealer, holeCards, board>>
faultVars   == <<faults, unnoticed>>
vars == <<shuffleVars, callVars, gameVars, dealLog, faultVars, wire>>

Players   == 0..(N - 1)
Positions == 0..(NumCards - 1)
Nil       == << >>
NoCard    == -1
Nobody    == -1
-----------------------------------------------------------------------------
(* Cards under encryption.                                                 *)

\* CardToField: 2^(id+1), without a layer.
CardToField(id) == [power |-> id + 1, layers |-> [p \in Players |-> 0]]

BuildPlaintextDeck == [i \in Positions |-> CardToField(i)]

\* FieldToCard: -1 for what is not the plaintext of a card.
FieldToCard(value) ==
  IF (\A p \in Players : value.layers[p] = 0) /\ value.power \in 1..NumCards
  THEN value.power - 1 ELSE NoCard

\* An exponent: whose layer it takes off, and what it multiplies the power by.
Exponent(player, multiple) == [layer |-> player, times |-> multiple]

Raise(value, exponent) ==
  [power  |-> (value.power * exponent.times) % Order,
   layers |-> [q \in Players |-> value.layers[q] - (IF q = exponent.layer THEN 1 ELSE 0)]]

\* key.D: it takes the player's own layer off and does nothing else.
D(p) == Exponent(p, 1)

\* The other exponents: a multiple of the player's own, or one that leaves the
\* layer on.  Nobody has another player's.
OtherExponents(p) == {Exponent(p, k) : k \in Multiples} \cup {Exponent(Nobody, 1)}

Encrypt(p, value) == [value EXCEPT !.layers[p] = @ + 1]
Decrypt(p, value) == Raise(value, D(p))
EncryptAll(p, cards) == [i \in Positions |-> Encrypt(p, cards[i])]

\* ProveDecryption: the prover commits to an exponent of its own choosing, H, and
\* the challenge is that of H, the input and the result.
ProveDecryption(exponent, input, result) ==
  [H |-> exponent, ciphertext |-> input, result |-> result]

\* Mutant: the proof is checked against its own transcript.
VerifyDecryption_Unbound(proof, input, result) ==
  proof.result = Raise(proof.ciphertext, proof.H)

\* VerifyDecryption: the challenge is that of this input and this result, and the
\* exponent in the proof takes the one to the other.  Whose exponent it is, is not
\* compared with anything.
VerifyDecryption(proof, input, result) ==
  /\ proof.ciphertext = input /\ proof.result = result
  /\ result = Raise(input, proof.H)

\* PartialDecryption.Verify.
Verify(pd) == VerifyDecryption(pd.proof, pd.input, pd.result)

VerifyAllProofs(pds) == \A i \in DOMAIN pds : Verify(pds[i])
-----------------------------------------------------------------------------
Init ==
  /\ deckInHand = BuildPlaintextDeck /\ shuffler = 0 /\ deck = Nil
  /\ dealer \in Players
  /\ partials = << >> /\ dealt = << >>
  /\ holeCards = [p \in Players |-> << >>] /\ board = << >>
  /\ dealLog = << >>
  /\ faults = 0 /\ unnoticed = FALSE /\ wire = {}

\* ExecuteStep: encrypt, then permute.
StepOutput(p, perm) ==
  LET encrypted == EncryptAll(p, deckInHand) IN [i \in Positions |-> encrypted[perm[i]]]

\* NewDeckCommitment: the hash of a deck and a nonce, as good as the deck.
NewDeckCommitment(cards) == [hash |-> cards]

\* VerifyDeck: the hash of the deck that was handed on is the committed one.
VerifyDeck(commitment, cards) == commitment = NewDeckCommitment(cards)

\* VerifyStep: the deck handed on is the one committed to.
VerifyStep(commitment, sent) == VerifyDeck(commitment, sent)

\* What may be handed on instead: the deck with its first card in place of the
\* second, or one that only the player itself has encrypted.
Substitutes(p, cards) == {[cards EXCEPT ![1] = cards[0]], EncryptAll(p, BuildPlaintextDeck)}

\* One step of RunFullShuffle.  With the last one cg.Deck is set; when a step
\* does not verify RunShuffle fails and nothing is kept.
ShuffleStep(sent, commitment) ==
  /\ deck = Nil
  /\ IF VerifyStep(commitment, sent)
     THEN /\ shuffler' = (shuffler + 1) % N
          /\ deckInHand' = IF shuffler = N - 1 THEN BuildPlaintextDeck ELSE sent
          /\ deck' = IF shuffler = N - 1 THEN sent ELSE Nil
     ELSE shuffler' = 0 /\ deckInHand' = BuildPlaintextDeck /\ deck' = Nil
  /\ UNCHANGED <<callVars, gameVars, dealLog, wire>>

HonestShuffle ==
  \E perm \in Perms :
    LET out == StepOutput(shuffler, perm) IN
    ShuffleStep(out, NewDeckCommitment(out)) /\ UNCHANGED faultVars

\* A deck other than the one committed to: the step does not verify.
SubstitutedShuffle ==
  /\ faults < MaxFaults
  /\ \E perm \in Perms :
       LET out == StepOutput(shuffler, perm) IN
       \E cards \in Substitutes(shuffler, out) : ShuffleStep(cards, NewDeckCommitment(out))
  /\ faults' = faults + 1
  /\ UNCHANGED unnoticed

\* Another deck with a commitment to it: the player makes both (shuffle.go:67), and
\* the commitment is all that VerifyStep looks at.
CommittedSubstitution ==
  /\ faults < MaxFaults
  /\ \E perm \in Perms :
       \E cards \in Substitutes(shuffler, StepOutput(shuffler, perm)) :
         ShuffleStep(cards, NewDeckCommitment(cards))
  /\ faults' = faults + 1
  /\ unnoticed' = TRUE
-----------------------------------------------------------------------------
(* Revealing a card.                                                       *)

DealingHoles == deck # Nil /\ \E p \in Players : holeCards[p] = << >>
DealingBoard == deck # Nil /\ ~DealingHoles /\ Len(board) < 5

\* DealHoleCards: whose card is at a position below 2N.
Recipient(position) == (dealer + 1 + position) % N

\* DealFlop, DealTurn, DealRiver.
BatchSize == IF board = << >> THEN 3 ELSE 1

\* HolecardStartPos, then the first position that the batches have not used.
StartPos == 2 * N + Len(board) + (IF board = << >> THEN 0 ELSE Len(board) - 2)

\* The position being revealed; dealBatch burns the card at startPos.
Position == IF DealingHoles THEN Len(dealt) ELSE StartPos + 1 + Len(dealt)

\* Mutant: the recipient takes its layer off with the others.
Decryptors_All == [i \in 1..N |-> i - 1]

\* Who makes a partial decryption, in order: all in RevealCommunity, all but the
\* recipient in RevealToPlayer.
Decryptors ==
  IF DealingHoles
  THEN [i \in 1..(N - 1) |-> IF i <= Recipient(Position) THEN i - 1 ELSE i]
  ELSE [i \in 1..N |-> i - 1]

Ciphertext == IF partials = << >> THEN deck[Position] ELSE Last(partials).result

\* A call that fails leaves the game and the log as they were.
CallFails == partials' = << >> /\ dealt' = << >> /\ UNCHANGED <<gameVars, dealLog>>

\* applyPartialDecryption of the next player, with the exponent it uses and proves,
\* and what it hands on as the result; a bad proof fails the call.
PartialDecryption(exponent, result) ==
  LET pd == [by |-> Decryptors[Len(partials) + 1], position |-> Position,
             input |-> Ciphertext, result |-> result,
             proof |-> ProveDecryption(exponent, Ciphertext, Raise(Ciphertext, exponent))]
  IN  /\ wire' = wire \cup {[position |-> Position, layers |-> result.layers]}
      /\ IF Verify(pd)
         THEN partials' = Append(partials, pd) /\ UNCHANGED <<dealt, gameVars, dealLog>>
         ELSE CallFails
      /\ UNCHANGED shuffleVars

ToDecrypt == (DealingHoles \/ DealingBoard) /\ Len(partials) < Len(Decryptors)

HonestDecryption ==
  LET by == Decryptors[Len(partials) + 1] IN
  /\ ToDecrypt
  /\ PartialDecryption(D(by), Decrypt(by, Ciphertext))
  /\ UNCHANGED faultVars

\* SubstitutePartialDecryption: another value in place of the result, with the proof
\* of the honest one.
SubstitutedDecryption ==
  LET by == Decryptors[Len(partials) + 1]
      honest == Decrypt(by, Ciphertext)
  IN  /\ ToDecrypt /\ faults < MaxFaults
      /\ PartialDecryption(D(by), [honest EXCEPT !.power = (@ + 1) % Order])
      /\ faults' = faults + 1
      /\ UNCHANGED unnoticed

\* A result of another exponent, with a proof for that exponent (zkp.go:92).
OtherDecryption ==
  LET by == Decryptors[Len(partials) + 1] IN
  /\ ToDecrypt /\ faults < MaxFaults
  /\ \E exponent \in OtherExponents(by) :
       PartialDecryption(exponent, Raise(Ciphertext, exponent))
  /\ faults' = faults + 1
  /\ unnoticed' = TRUE

\* A player hands on nothing: the call returns its error (deal.go:80).
WithheldDecryption ==
  /\ ToDecrypt /\ faults < MaxFaults
  /\ CallFails
  /\ faults' = faults + 1
  /\ UNCHANGED <<shuffleVars, unnoticed, wire>>

Revealed == ~ToDecrypt /\ (DealingHoles \/ DealingBoard)

\* What player p is dealt in each round of DealHoleCards.
HoleCardsOf(p, cards) ==
  [round \in 1..2 |->
     cards[1 + CHOOSE i \in ((round - 1) * N)..(round * N - 1) : Recipient(i) = p]]

\* The recipient takes off the last layer.  After the last hole card DealToEngine
\* writes the cards into the game; a value that is no card fails the call.
RevealToPlayer ==
  LET card  == FieldToCard(Decrypt(Recipient(Position), Ciphertext))
      cards == Append(dealt, card)
  IN  /\ Revealed /\ DealingHoles
      /\ IF card = NoCard THEN CallFails
         ELSE /\ partials' = << >>
              /\ IF Len(cards) < 2 * N
                 THEN dealt' = cards /\ UNCHANGED holeCards
                 ELSE dealt' = << >> /\ holeCards' = [p \in Players |-> HoleCardsOf(p, cards)]
              /\ UNCHANGED <<dealer, board, dealLog>>
      /\ UNCHANGED <<shuffleVars, faultVars, wire>>

\* Mutant: only the last card's partial decryptions of a batch are logged.
LogPartials_LastOnly == IF Len(dealt) + 1 = BatchSize THEN dealLog \o partials ELSE dealLog

\* dealBatch: the partial decryptions of each card go to the log when the card is
\* known, before the batch is complete.
LogPartials == dealLog \o partials

RevealCommunity ==
  LET card  == FieldToCard(Ciphertext)
      cards == Append(dealt, card)
  IN  /\ Revealed /\ DealingBoard
      /\ IF card = NoCard THEN CallFails
         ELSE /\ partials' = << >>
              /\ dealLog' = LogPartials
              /\ IF Len(cards) < BatchSize
                 THEN dealt' = cards /\ UNCHANGED board
                 ELSE dealt' = << >> /\ board' = board \o cards
              /\ UNCHANGED <<dealer, holeCards>>
      /\ UNCHANGED <<shuffleVars, faultVars, wire>>

Next ==
  \/ HonestShuffle \/ SubstitutedShuffle \/ CommittedSubstitution
  \/ HonestDecryption \/ SubstitutedDecryption \/ OtherDecryption \/ WithheldDecryption
  \/ RevealToPlayer \/ RevealCommunity

Spec == Init /\ [][Next]_vars
-----------------------------------------------------------------------------
(* Properties.                                                             *)

\* The deck with the layers off.
Pack == IF deck = Nil THEN << >> ELSE [i \in 1..NumCards |-> deck[i - 1].power - 1]

Hand == INSTANCE Dealer WITH pack <- Pack, button <- dealer, holes <- holeCards

\* The deal is a dealer's (crypto_game.go:87): with the layers off, the deck is a
\* shuffled pack, and hole cards and board are what a dealer would have dealt from
\* it, step by step, however often a call fails and is made again.  It is so until a
\* substitution has passed the checks, and not after.
ImplementsDealer ==
  Hand!Init /\ [][Hand!Next \/ unnoticed']_<<Pack, dealer, holeCards, board>>

BoardPositions == <<2*N + 1, 2*N + 2, 2*N + 3, 2*N + 5, 2*N + 7>>

\* Of what is handed from player to player nothing opens a hole card to anybody but
\* its owner: the layer that the owner has put on stays on, and it is there unless a
\* whole deck was substituted unnoticed.  And nothing touches a burned card
\* (deal.go:30).
HoleCardsPrivate ==
  \A shown \in wire :
    IF shown.position < 2 * N
    THEN LET owner == Recipient(shown.position) IN
         /\ shown.layers[owner] = deck[shown.position].layers[owner]
         /\ shown.layers[owner] = 1 \/ unnoticed
    ELSE shown.position \in ToSet(BoardPositions)

\* The log stands an audit: every proof in it verifies, and for every community
\* card it has a decryption by each player, one of which gives the card
\* (crypto_game.go:177).
LogExplainsBoard ==
  /\ VerifyAllProofs(dealLog)
  /\ \A i \in DOMAIN board :
       LET mine == {j \in DOMAIN dealLog : dealLog[j].position = BoardPositions[i]} IN
       /\ {dealLog[j].by : j \in mine} = Players
       /\ \E j \in mine : FieldToCard(dealLog[j].result) = board[i]
=============================================================================
