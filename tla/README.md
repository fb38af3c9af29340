# Verification of the peer-to-peer poker client

TLA+ models, TLC runs and TLAPS proofs for the Go and Solidity program in this
repository: a Texas Hold'em engine, the mental-poker cryptography that replaces a
dealer, a libp2p transport, a terminal client, fault tolerance among the players and an
escrow contract. File names below are relative to the repository (`phase1/machine.go`
is the file under the source tree), and names in `code` are those of the modules and
of the source, which agree wherever TLA+ allows it.

1. [The system](#1-the-system)
2. [Modules](#2-modules)
3. [Runs](#3-runs)
4. [Fairness](#4-fairness)
5. [Proofs](#5-proofs)
6. [What the checks found](#6-what-the-checks-found)
7. [What is not modelled](#7-what-is-not-modelled)
8. [Plan](#8-plan)

## 1. The system

The repository is built in seven phases, each a package with a demonstration program.

| component | state | operations | correct when |
|---|---|---|---|
| **hand engine** (`phase1/machine.go`, `state.go`, `player.go`) | `GameState`: phase, turn, last raiser, bet to match, board, pots, payouts; per `Player` status, stack, bet in the round, bet in the hand | `StartHand`; `ApplyAction` with fold, check, call, raise, all-in; inside them the turn, the end of a round, the next street, run-outs, showdown | chips are accounted for; a round closes when it should and never with unequal bets; whoever is out stays out; a hand that begins is settled |
| **pots and payouts** (`phase1/pot.go`, `machine.go`) | none | `CalculatePots`, `potWinners`, `distributePots` | every bet is in one pot; a player wins at most what the others matched; odd chips go where the rules say |
| **hand evaluation** (`hand_eval.go`, `deck.go`) | the deck | `evaluate5`, `Compare`, `EvaluateBest7`, `Deal`, `Shuffle` | the ranking is the ranking of poker |
| **shuffle and deal** (`phase2/sra.go`, `shuffle.go`, `deal.go`, `zkp.go`, `crypto_game.go`) | keys, the encrypted deck, which layers each card still has, dealt positions, the log of the deal | each player's shuffle step, partial decryptions for one player or for all, checks of proofs | as long as nothing that the checks let through was substituted, the deal is one that an honest dealer could have made; a hole card is open to its owner only; the log stands an audit |
| **secret sharing and commitments** (`phase2/commit.go`) | none | `SplitSecret`, `ReconstructSecret`, `CommitDeck`, `VerifyDeckCommitment` | T shares give the secret in any order, fewer say nothing |
| **peer node** (`phase3/node.go`, `gossip.go`, `gamelog.go`) | a sequence number, the last number seen of each sender, the log of the hand | publish, dispatch with the replay check, direct streams, append, `ValidateSequences`, `DetectEquivocation` | a message is acted on once, those of one life of the sender in their order, and logged; a number is used twice only by a peer that has restarted; a log that validates is complete |
| **lobby** (`phase3/lobby.go`) | seats, readiness | join, ready, wait, play | a table starts only with all its seats taken and ready |
| **transport** (`codec.go`, `host.go`, `discovery.go`, `protocol.go`) | libp2p host | framing, signing, dialling, streams | — |
| **bet input** (`phase4/bet_input.go`, `model.go`) | selected button, the raise being typed | keys, `Confirm` | whatever it lets out the engine accepts |
| **local game loop** (`phase7/main.go`, `phase4/model.go`) | `localGameModel`: the engine, the state shown, the hand number; timers and messages on their way | bots move after 600 ms, the next hand is dealt after 1.5 s, keys | hand follows hand and none is dropped |
| **fault votes** (`phase5/heartbeat.go`, `timeout.go`, `manager.go`) | each peer's view of the others, its open votes | ticks, heartbeats, ballots, two callbacks run in goroutines | a peer is folded by two thirds of the others or not at all; a peer that has crashed is folded |
| **key recovery** (`phase5/shamir.go`, `manager.go`) | shares received, shares collected for each owner | split and send, broadcast a share, collect, rebuild | the players that are left rebuild the key of one that is gone, and never another key |
| **slash detector** (`phase5/slash.go`) | records of faults | equivocation, bad proofs, key withholding: each records what its caller passes | — (only demonstrations and tests call it) |
| **escrow contract** (`phase6/PokerEscrow.sol`) | table state, players, escrowed total, deadlines | join, report outcome, dispute and slash, abandon, refund | the books match the money; a settlement needs a quorum; money is never stuck once a game has begun |
| **settlement client** (`phase6/escrow.go`, `client.go`) | — | `BuildOutcome`, `validatePayoutDeltas`, disputes, stubs for the chain | what the table settles can be reported |
| **configuration** (`phase7/config.go`, `loader.go`) | — | parse and validate | — |

How they interact:

* The local loop owns one `Machine` and one set of `Player`s. The event loop, the bots'
  timers and the timer of the next hand all reach them; the timers run in goroutines,
  without a lock. The terminal client is a value inside the loop: an action goes to the
  machine by a callback, which drops the error the machine may return. So the client's own
  check of a raise has to agree with the machine's.
* The table of a hand, `GameState`, is new for every hand; the players are not.
  `nextHandCmd` resets them and starts a new machine.
* The shuffle and the deal are calls on one `CryptoGame`; each player's part of a call can
  be refused by the check of its proof; the call then fails and may be made again. Nobody is
  told: the fault manager's `CheckZKProof` and `RecordKeyWithholding`, and the settlement client that would
  turn a record into a dispute, have no caller but demonstrations and tests.
* `FaultManager` connects the heartbeat monitor, the votes and the key store: a timeout
  broadcasts a ballot and opens a vote (`OnTimeout`), a confirmed vote marks the peer
  disconnected and asks for a fold (`OnConfirmed`). Both run as `go f()`.
* A node sends everything with one counter of sequence numbers, over two gossip topics
  and direct streams; receivers drop numbers not above the last one they have seen of
  the sender on the table's topic. Joins and readies go to the lobby, the rest to handlers,
  everything to the log of the hand. What comes over a stream is logged and handed on without the
  replay check.
* At the end of a game an outcome signed by two thirds of the players goes to the
  contract; a timed-out game is abandoned and refunded.

What is hard here: the end of a betting round and the layers of side pots (pure logic
with many cases, some behind long sequences of legal calls); a deal in which every card
passes through every player; gossip that repeats and reorders under a replay check, with
logs that are replaced between hands and nodes that restart; goroutines and timers that
use a state read earlier; votes over messages that are late, lost or out of order, with
callbacks in between; a quorum rounded in floating point; the one-share-too-few of key
recovery; the books of a contract under every order of transactions. `PROJECT.json`
lists each of these hazards at its line, with the properties about it.

## 2. Modules

| module | models | kind |
|---|---|---|
| `Pots` | `CalculatePots`, `potWinners`, `distributePots` | operators |
| `HandEval` | `evaluate5`, `Compare`, `EvaluateBest7` | operators |
| `MCPots`, `MCRules` | every table of bets, set of live seats and ranking; every board and two hands from small sets of cards | check of `Pots` and of `HandEval` |
| `PokerHand` | one hand: `Machine`, `GameState`, `Player` | state machine |
| `BetInput` | the betting panel of the terminal client, and the engine with players who use it | extends `PokerHand` |
| `PokerTable` | hand after hand: `nextHandCmd`, the simulation of `phase1/main.go` | extends `BetInput` |
| `ChipLedger` | what a table promises about chips | abstract specification, implemented by `PokerTable` |
| `LocalTable` | the event loop of `phase7/main.go` around the terminal client | state machine |
| `MentalPoker`, `MCMentalPoker` | shuffle and deal, one player's part at a time, with their log and the checks of proofs | state machine, two shuffles for it |
| `Dealer` | a deal from a shuffled pack, by hand | abstract specification, implemented by `MentalPoker` |
| `GameLog`, `Lobby` | the log of a hand; the lobby | operators, used by `TableNet` |
| `TableNet`, `MCTableNet` | the nodes of a table over gossip and streams, with restarts | composes `GameLog`, `Lobby` |
| `FaultVote`, `MCFaultVote` | heartbeats, votes and their callbacks at every peer | state machine, its symmetry |
| `Shamir` | `SplitSecret`, `ReconstructSecret` | operators |
| `KeyShares` | how the peers rebuild a key | state machine, uses `Shamir` |
| `Escrow` | every transaction of the contract | state machine |
| `SumTheorems` | lemmas about sums and products of functions | proofs |
| `PokerTable_proofs`, `LocalTable_proofs`, `TableNet_proofs`, `FaultVote_proofs`, `KeyShares_proofs`, `Escrow_proofs`, `MentalPoker_proofs` | theorems about the module of that name (`PokerTable_proofs` also about `Pots`, `PokerHand`, `BetInput` and the refinement of `ChipLedger`, `KeyShares_proofs` about `Shamir`, `MentalPoker_proofs` about the refinement of `Dealer`) | proofs |

Mutants, operators with a suffix beside the definition they change, are not part of the
model: each is a bug that one property must catch.

**PokerHand.** The variables are the fields of `GameState` and `Player` (players become
functions of the seat), with two histories: `startStack` and `acted`. `StartHand`,
`Fold`, `Check`, `Call`, `Raise` and `AllIn` are the calls the engine answers without an
error; each is one step and ends in `Proceed`, the tail of `ApplyAction`, which does all
that the code does before it returns: the single survivor is paid, or the round closes
and the next street is dealt, or the streets are run out to the showdown, or the turn
moves on. Quirks are kept: folded players' bets of the round are not reset
(`NewRound`), the bet to match grows by the whole raise while the chips are capped at
the stack (`Placed`, `Raise`), a blind that puts a seat all-in counts as posted. Cards
are abstracted to the size of the board: the order of the hands is chosen when they are
compared, any order being possible.

**BetInput** is the panel that `NewBetInputState` makes from the table: a record with the
selected button and the field of the raise. `handleBettingKey` gives the panels one key
leads to, `Panels` those of any sequence of keys, `Confirm` what Enter lets out. `Next` is
the engine with any caller, `ConfirmedNext` with callers that use the panel.

**PokerTable** adds `NextHand` (`ResetForNewHand` and `NewGameState`) and a mapping to
`ChipLedger`: `held <- stack`, `middle <-` the bets of a hand that is not settled.
In `ChipLedger` chips go to the middle and the whole middle is paid out; it knows no
turns, rounds or pots.

**HandEval.** A card is its ID, 0 to 51, as in `deck.go`. `evaluate5` is translated with
its helpers (`GroupByRank`, straights, kickers), `Compare` with the loop that stops at the
end of the shorter list of kickers, `EvaluateBest7` with the hand it starts from.
`MCRules` puts them beside an order of poker hands written from the rules.

**MentalPoker.** A card under encryption is a power of the generator, `CardToField`'s `2^(id+1)`, under
layers. An exponent takes a player's layer off and multiplies the power: the player's own multiplies by one
(`D`), another one by something else, or it leaves the layer on (`OtherExponents`); nobody has the exponent of
another. Layers commute, which is what `sra.go` is for. `ShuffleStep` is a step of `RunFullShuffle` with
`VerifyStep`; `PartialDecryption` is `applyPartialDecryption` with the check of the proof, by the next
player of the chain; `RevealToPlayer` and `RevealCommunity` are the ends of the functions
of these names with what `DealHoleCards`, `DealFlop`, `DealTurn`, `DealRiver` and
`dealBatch` do after each card: positions, burned cards, the log, the board.

A proof is bound to its input, its result and the exponent `H` that is in the proof itself, as the challenge of
`zkp.go` is; `VerifyDecryption` compares `H` with nothing else. A deck commitment is made by the player that
shuffles, from the deck it hands on, and `VerifyStep` compares the two. So there are two kinds of faults,
`MaxFaults` in all. Those the code finds out: a deck that is not the one committed to (`SubstitutedShuffle`), a
result that is not the one proved (`SubstitutedDecryption`), nothing at all (`WithheldDecryption`); the call fails,
keeps nothing, and is made again. And those it does not: another deck with a commitment to it
(`CommittedSubstitution`), the result of another exponent with a proof for that exponent (`OtherDecryption`).
`unnoticed` is the history of the second kind, `wire` that of what was handed on. The mapping to `Dealer` takes
the layers off the deck.

**TableNet.** `published` is a set of envelopes that never shrinks: a receiver may take any
of them at any time, again or never. That is gossip as the code may rely on it, and also
covers two goroutines that publish in another order than they took their numbers
(`nextSeq` and `Publish` are two calls). `direct` holds the envelopes on streams, one
stream each, so that they overtake each other and what is published; a stream is read once, and is gone when
the node it goes to restarts. `Dispatch` is
`dispatch`: replay check, `Append` with its error dropped, lobby or handler. `OnDirect` is the stream handler, which
checks no numbers and calls `OnPartialDecrypt`. Both act on the envelope, which is the history `acted`: for each
envelope the hand and the life of the receiver in which it was acted on. It outlives the receiver's restarts, though the
receiver's own memory does not. `SetHandNum` replaces the log and nothing else. `Restart` keeps the identity
(`config.go`) and loses everything else, so that numbers used before come back with other
payloads. `GameLog` and `Lobby` are the operations of the two objects; each lobby is
driven by the messages its own node dispatches.

**LocalTable.** A hand is whose turn it is and whether it is settled. `botTicks`,
`nextTicks` and `syncs` count the commands whose goroutines have not run yet, `states[h]` the
`GameStateMsg`s about hand `h` that have not been handled. `OnGameState` is the two
`Update` functions one after the other; `BotTick` and `NextTick` are the functions of the
timers; `PressKey` is a key in Spectate mode, after which the loop posts the state.

**FaultVote.** `liveness`, `votes` and `calls` (goroutines not yet run) per peer,
`ballots` in flight. A message that is never delivered is a lost one. Time is the
choice of `CheckTimeouts` to find a peer's heartbeat too old. `witnesses` is the history
the quorum is judged by. `VotesExpire` lets somebody call `ExpireStaleVotes`.

**KeyShares.** The owner's polynomial is drawn in `Init`; private shares are delivered
or not; a share that was broadcast may come any number of times. Exponents without an
inverse are not keys, and a number that is no key is refused by the reconstruction.
`BroadcastMyShareFor` leaves the peer's own collection as it is, as `ContributeShare` does, so that a peer
collects the shares of others only.

**Escrow.** One action per transaction, each atomic; a transaction that reverts is not
a step. Signatures are the addresses that `ecrecover` gives, repeated and strangers'
included. `Rejecting` addresses make transfers fail.

## 3. Runs

Runs that must pass:

| run | instance | shows |
|---|---|---|
| `engine3` | 3 seats, blinds 1 and 2, each stack 0, 2 or 5, every button: 81 starts, 11 658 states | With any caller, the engine's own raise check included: `SeatLedger` (each seat's chips are accounted for at every moment), `RoundDiscipline`, `OnlyDeadPotsUnpaid` (what is not paid is in pots whose contributors have all folded, nowhere else), `FullBoardAtShowdown`, `BetsEqualised`, `EveryoneActs`, `OutOfBetting` |
| `table3` | 3 seats with 3 chips each, hand after hand: 18 144 states | With players who use the client: `ConfirmedIsLegal` (whatever keys are pressed, the engine takes what the client lets out), `WinsOnlyMatched`, the refinement `ImplementsLedger`, and under fairness `TableGoesOn` |
| `rules` | 4 seats, up to 3 chips each, all folds, all rankings, all buttons; every board of five and two hands of two from one of three sets of nine cards | `CalculatePots` and `distributePots` against the rule of side pots: `EligibleForMatched`, `BestHandWinsAll`, `FairSplit`; the evaluator against the order of poker hands, where one hand has a pair at least: `ComparesLikePoker` |
| `deal3` | 3 players, 14 cards, two permutations to draw from, exponents of order 17 that multiply by 2 or by 9, at most 2 substitutions or refusals: 657 669 states | The refinement `ImplementsDealer` as long as no substitution has passed the checks; `HoleCardsPrivate` and `LogExplainsBoard` whatever is substituted |
| `net3` | 1 receiver, a sender with 3 numbers and one with 2, 2 seats, 2 hands, 1 restart of any node: 81 825 states | `RoutedOnceInOrder`, `ActedOnIsLogged`, `OnlyRestartsEquivocate`, `ValidLogIsComplete`, `ReadyMeansAll` |
| `local` | 2 bots, 3 hands of at most 4 actions, at most 2 keys out of turn: 103 050 states | `TypeOK` (a key starts at most one more chain of messages, chains do not multiply), `PlayedOutUntilAKey`, `SomebodyDrives`, `TableGoesOn` |
| `votes4` | 4 peers, one suspected, at most one crash and one heartbeat after a timeout, votes expire: 3.5 million states up to symmetry | `FoldNeedsQuorum`, `VotesAreWitnessed` in every order of ticks, ballots, callbacks, expiries |
| `shares4` | 4 seats, threshold 2, integers modulo 7, every polynomial, at most two crashes: 16 268 states | `RecoveredIsTheKey`, `KeyTakesOthers` (nobody rebuilds a key without as many shares of others as the threshold), `ThresholdScheme` (any shares of the threshold's number give the secret, fewer fit every secret), and under fairness `KeyIsRecovered` (more peers than the threshold are left) |
| `escrow3` | 3 seats out of 4 addresses, buy-ins of 1 or 2, deltas up to 2, at most 2 signatures (the quorum), one address that takes no transfers: 19 457 states | `EscrowIsBacked`, `SettledInFull`, `SettledByQuorum`, `RefundedOnce`, and under fairness `FundsAreReleased` |

Runs whose property, which the repository states, TLC refutes (section 6):
`engine_conserves`, `folds4`, `high_card`.

Why the bounds are enough.

* Three stacks of three sizes give every pattern of the engine: two layers of all-ins under
  a live bet, blinds that put a seat all-in, seats without a chip, raises the stack does
  not cover; with 5 chips a hand can have a raise on one street and an all-in on another.
  In `table3` the nine chips come to every distribution the game leads to, so the stacks
  of 0 to 9 are explored as starts too. The panel's field takes every amount up to one more
  than the largest that matters, since all above are refused alike.
* Four seats in `rules` give three layers with folded money in any of them. Hands of all
  nine categories come out of the three sets of nine cards: the first has flushes, straights
  and a full house in and beside one suit, the second four of a kind and both low straights,
  the third pairs and high cards that only kickers tell apart.
* Three players are the least with a decryption chain of more than one for a hole card;
  14 cards are those that two rounds, three burned cards and the board use; the two
  permutations do not commute. Two faults let a second one meet a call that is made again, or undo the first: 9 times 2 is
  1 modulo 17, so that two players with wrong exponents deal the right card.
* One receiver is enough for what a node makes of the messages it gets, because receivers
  read the same set of envelopes and write nothing the others read. Three numbers are a
  join, a ready and one message of the hand, or heartbeats and streams in place of them;
  two hands and one restart bring the replaced log and the second life of a number.
* Four peers are the least with a quorum of more than one vote, with a peer left over to be
  late; a second suspect would only repeat the first, since votes about two targets touch
  no common state. Three hands are the least in which a message about a dropped hand can
  come after those of the next one. Four seats are the least with which a key can be rebuilt at all: the three
  that are left each collect the shares of the two others, exactly the threshold. The second crash, before or after the
  owner's, leaves two, who can only finish with a share that the third has broadcast before: `KeyIsRecovered` has no share
  to spare, and a threshold of one more refutes it. Seven is a prime above the four seats; the one key that it
  has, 5, is split with every coefficient, and a wrong number may come out as 1, which is an exponent too. Other primes are
  left to the proof.

Each property has a mutant, an operator that changes one definition as a plausible bug
would, which TLC finds with the same bounds: no bound is so small that the property has
nothing to say.

Deadlock is not checked anywhere: a hand that is settled, a table that is paid out, a deal
that has reached the river, nodes that have used up their bounded numbers and vote rounds
that are over stop, as the program does. What must go on is stated by the liveness
properties.

## 4. Fairness

* `PokerTable`: weak fairness of the whole next-state relation. A player whose turn it is
  acts (the client asks, the bots have timers), and the driver deals the next hand. Nothing
  is assumed about which action is taken.
* `LocalTable`: timers fire and messages are handled (goroutines and an event loop that the
  Go runtime schedules), and a player who is asked moves. Strong fairness of an action the
  machine takes: a player whose input is refused does not enter it for ever.
* `TableNet`: none. Gossip may lose a message and nothing is sent again, so no property asks for one to arrive.
* `MentalPoker`: none. A player may refuse its part for ever, and no property asks for the end
  of a deal.
* `FaultVote`: tickers tick, goroutines run and ballots are delivered, for the peers that
  are up. There is no fairness for `Crash`, heartbeats after a timeout, or expiry.
* `KeyShares`: private shares are delivered, the peers that are left broadcast theirs (one weak fairness for each
  peer), and each collects as long as there is a broadcast share to collect (one weak fairness over all senders,
  `held` stays as it is when a share comes again). That the network delivers is what the property assumes on its face
  (`shamir.go:18`, "can contribute"). There is no fairness for `Crash`.
* `Escrow`: blocks are mined, somebody calls `markAbandoned` when the deadline has passed,
  and players who take transfers ask for their refunds. Nobody has to report an outcome.

## 5. Proofs

Every theorem below is for all values of the constants that meet the assumptions of the
modules: `SeatCountAssumption` (2 to 22 seats, the 52 cards), `TableAssumption` (blinds and stacks as `config.go` wants them),
`LocalAssumption`, `DealAssumption` (two players at least and the cards that a deal takes), `FaultAssumption` (two peers at least), `EscrowAssumption` (2 to 9 seats, buy-ins
above zero), `KeyAssumption` (two seats at least and a prime above their number, which the code's prime of 2048 bits is), `NetAssumption` (finite sets of peers, natural bounds), `SeatsAssumption` (1 to 9
seats, `node.go:91`). Two theorems have a hypothesis more, named below. A theorem about a property
of section 3 has it as its conclusion. All follow one pattern: an inductive invariant, one lemma for
each action that preserves it, and the property as its consequence. TLC has checked each
invariant on the instance of the run before it was proved.

**The engine.** `PokerTable_proofs`, whoever calls the engine.

| theorem | of `Spec` |
|---|---|
| `HandCorrect`, `TypeCorrect`, `LedgerBalanced`, `RoundsDisciplined` | `[]HandInv`, `[]TypeOK`, `[]SeatLedger`, `[]RoundDiscipline` |
| `OrderCorrect` | `[]OrderInv` |
| `FullBoard`, `BetsAreEqualised`, `EveryoneHasActed`, `OutForGood` | `[]FullBoardAtShowdown`, `BetsEqualised`, `EveryoneActs`, `OutOfBetting` |

`HandInv` is `TypeOK /\ SeatLedger /\ FreshTable /\ RoundDiscipline`. None of its parts is
inductive by itself. Types need the ledger's inequalities: a stack is a natural number
because what is bet is capped at it, and the chips to call are never negative because no live
bet is above the bet to match. `RoundDiscipline` needs that an all-in seat has nothing left and
that bets of the round are part of the bets of the hand, so that resetting a round is sound.
`FreshTable` says that a hand not yet begun has no bets, which `StartHand` relies on.
There is one lemma per kind of step. `StartHandInv` handles the
blinds. Each of the five actions is reduced (`ActInv`) to what it hands to the tail of
`ApplyAction`, a `GoodMove`: it pays from its stack, does not bet above the bet to match,
does not lower it. `ProceedInv` then handles the three ends of the tail for any such move:
the survivor is paid (`SettleInv`), the round closes (`NewRoundInv`, or a showdown), the turn
moves on (`SameRoundInv`).

The code closes a round by looking at one seat: the next one, if it has the last raise or if it
has matched the bet and enough actions were made. That the others have matched it too is not in
any variable. `TurnOrder` says where it is: going round the table from the seat whose turn it is,
the seats that can act and have matched the bet come last, and so do those that have acted
(`ComeLast`), so that if the next one has matched, all have. The count of actions is the number of
seats that have acted, as long as one that can act has not (`roundActionCount = Cardinality(acted)`).
`BetsAreEqualised` and `EveryoneHasActed` are properties of steps: they follow from `TurnOrder` before the
step (`RoundClosesEven`).

**The rules of the pots.** `PokerTable_proofs`, for any bets and any seats that have folded
(`BetsSpec` of `MCPots` reaches them all).

| theorem | of `BetsSpec` |
|---|---|
| `BetsCorrect` | `[]BetsInv`: bets are numbers, somebody is in the hand |
| `PotsFollowTheRule` | `[]EligibleForMatched` |
| `BestHandIsPaid` | `[]BestHandWinsAll` |
| `SplitIsFair` | `[]FairSplit` |

The invariant is easy here and the operators are not. The pots a seat is eligible for are the slices up to its
own bet, and a slice of each bet up to there is the lesser of the two (`EligibleAddsUp`). What a seat is paid is the
sum of its shares of all pots (`WinningsAreShares`). The single best hand takes each pot it is eligible for whole,
odd chips too, because it is its only winner (`BestTakesPot`, `BestWinsMatched`). Two equal hands with equal bets are eligible for the same pots and
win or lose each of them together; their shares of one differ by its odd chips at most, which go to the seat nearer the
dealer's left (`PotIsSharedFairly`), and these differences have one sign and add up (`EqualsShareFairly`).

**Pots and the table.** `PokerTable_proofs`.

| theorem | statement |
|---|---|
| `DeadPotsOnly` | `Spec => []OnlyDeadPotsUnpaid` |
| `TableCorrect` | `TableSpec => []TableInv` |
| `ConfirmedIsAccepted` | `TableSpec => []ConfirmedIsLegal` |
| `TableConservesChips` | `TableSpec => []ChipsConserved`, which `engine_conserves` refutes for `Spec` |
| `OnlyMatchedIsWon` | `TableSpec => []WinsOnlyMatched`, if `N >= 3` |
| `TableImplementsLedger` | `TableSpec => ImplementsLedger` |

First the pots, for any bets (no state): the amounts of the layers add up to the bets, because
a layer is a slice between two levels (`SlicesAddUp`, `PotsAreSlices`, `PotsHoldBets`, two sums
exchanged); a showdown pays every pot but the dead ones, odd chips included (`ShowdownPays`); what a
seat can win is what the others match of its bet (`WinsWhatIsMatched`). `DeadPotsOnly` is that with
`payouts` untouched before the end (`UnpaidYet`).

Then the panel: any sequence of keys leaves a panel that agrees with the table (`KeysKeepPanel`), and
what `Confirm` lets out raises no higher than the stack reaches (`ConfirmedIsCovered`) and meets every condition on which
`ApplyAction` returns an error (`SubmittedIsAccepted`: `Accepts` says that without `ENABLED`). The panel shows a
check only when nothing is to call, a call only when the chips to call are positive, and its least raise is the
engine's. So a table of the client has covered moves only, and
`LevelInv` is inductive for them: what the seats had bet before this round is level among those who can
act and no live seat has bet more then (`Deep`), nobody has bet more in all than a seat that can act will have
when it matches the bet (`Reach`), and a live seat has bet as much as anybody (`Leader`). The last is what
rules dead pots out: every layer has the leader in it. `SoleCaller` adds that if one seat alone can act and owes
nothing, the leader is somebody else, so that it may fold; it needs three seats. `TableInv` is
`OrderInv /\ UnpaidYet /\ LevelInv /\ PaidByTheRules`. Conservation follows by adding `SeatLedger` over
the seats, and the refinement step by step: a move of the engine is chips to the middle, or chips
to the middle with the middle paid out, or a stutter.

Sums are those of the community modules: `SumTheorems` proves from the definition of
`FoldFunction`, by an induction on finite sets stated without operator parameters, what a sum
over a function is when the function is empty, loses or gains a point, changes at one, is zero outside
a set, or is compared pointwise with another, and that two sums may be exchanged.

**Keys and shares.** `KeyShares_proofs`, for any number of seats, every prime above it and every polynomial.

| theorem | statement |
|---|---|
| `SharesReconstruct` | any t shares with different numbers are interpolated and give `f[0]`, for every t |
| `FewerSharesHide` | t shares with whatever values are those of exactly one polynomial with t coefficients after the secret, for every secret |
| `TheSchemeHasAThreshold` | `Spec => []ThresholdScheme` |
| `OnlyTheKeyIsRecovered` | `Spec => []RecoveredIsTheKey` |
| `TheKeyTakesOthers` | `Spec => []KeyTakesOthers` |

The code is taken as it is: coefficients times powers added up, a numerator and a denominator for each share, an
inverse of the denominator, one sum, reductions on the way. Reductions are dealt with by `Congruent`. A number that the
prime does not divide has an inverse (`InverseExists`: the least positive combination of the two divides the prime), so a
denominator of different shares has one (`Interpolates`) and factors may be cancelled (`CongruentCancel`). The rest of the
argument never needs a polynomial of Lagrange's, only the weight of each share at zero. Take the sum of the weights times the
k-th powers of the shares' numbers, their k-th moment. Leaving one share out relates the moments of more shares to
those of fewer (`WeightStep`, `MomentStep`); two shares left out in turn give two equations, which settle them
(`FirstMoments`). So moment 0 is 1 and the next ones, as many as there are shares, are 0 (`MomentsAre`, by induction on the
number of shares), and the weighted sum of the values of a polynomial is its constant term (`Interpolation`, by induction on
its coefficients). What `ReconstructSecret` computes is that sum (`LagrangeTerm`, `ReconstructIsAtZero`).

Fewer shares: a polynomial that is zero at as many points as it has coefficients is zero (`ZeroPolynomial`: its constant term
is, by `Interpolation`, and what is left after a division by x is shorter), so two polynomials with one secret and the same shares are
equal (`OnePolynomial`). The map from the coefficients drawn to the shares is therefore injective, from a finite set to one of
the same size, and so every list of shares is met (`SharesExplained`).

For the protocol `KeysInv` adds that a peer collects no share twice (`SharesOnce`: `AddReconstructionShare` looks for the number
first), without which the interpolation would fail, and that the polynomial does not change. `OthersInv` says that what a peer
has collected are shares that others have broadcast; they are different, so as many as the threshold come from as many peers
(`SharesOfOthers`).

**The local loop.** `LocalTable_proofs`: `LoopCorrect` (`[]LoopInv`), and from it `ChainsDoNotMultiply`
(`[]TypeOK`), `LoopIsDriven` (`[]SomebodyDrives`), `HandsArePlayedOut` (`[]PlayedOutUntilAKey`). `LoopInv` counts:
what is on its way, and the prompt of the player, are together at most one more than the keys pressed out of turn
(`Counted`); messages are about hands that have been dealt (`DealtOnly`); something that will post a message
is on its way unless a hand was dropped (`Driven`: a bot's timer counts only while the hand shown is not the player's turn);
and before the first key everything is about the hand that is played (`OneHandAtATime`).

**The network.** `TableNet_proofs`.

| theorem | statement |
|---|---|
| `NetCorrect`, `LogCorrect` | `Spec => []NetInv`, `Spec => []SentInv` |
| `RoutingOrdered` | `Spec => []RoutedOnceInOrder` |
| `ActedIsLogged` | `Spec => []ActedOnIsLogged` |
| `OnlyRestartsAreAccused` | `Spec => []OnlyRestartsEquivocate` |
| `ValidIsComplete` | `Spec => []ValidLogIsComplete` |
| `ReadyIsComplete` | `Spec => []ReadyMeansAll` |

`NetInv` is the types of what is sent (`SendType`) and of what is kept (`ReceiveType`), and
for each receiver `NodeInv`: its lobby is in order (`LobbyInv`), and the gossip that it has acted on of a peer has rising
numbers in each of the receiver's lives, none of them, in the life of now, above the last one seen (`OrderedUpTo`). The last part
is what makes order inductive: that the numbers rise says nothing about the next one without knowing that all are below what
the replay check compares with, and `SetHandNum` must leave that alone, as it does; a restart begins a life in which nothing has
been acted on (`RoutedOutlives`). `LobbyInv`
carries that seats are different and never more than there are places, without which
"all ready" could be reached by one player seated twice. The operations of log and lobby are
lemmas about any log and any lobby (`AppendEntryFacts`, `HandleJoinInv`, `HandleReadyInv`,
`SetPlayingInv`).

What `RoutedOnceInOrder` says about order: rising numbers are the order of making for messages of one life of the sender. Over a
restart of the sender they are not: number 2 of the new life may be acted on before number 3 of the old one, and number 1 never.

`SentInv` is about the copies of an envelope, on the topic, on streams, in all logs and in all that was acted on: two of them
with one key and of one life of the sender are the same envelope (`NumbersDiffer`), which is inductive with the
numbers being at most those the sender has taken (`NumberTaken`) and not without. So an entry that keeps
an envelope out of a log is the envelope itself or of another life; a log that has all numbers up to its last
has the envelopes that were published with them; and two messages with one number that a node has acted on are of two lives of the
sender. `SentInv` also says that what is on a stream has not been acted on by the node it goes to (`OnceInv`), because a message
gets a stream when it is made, and that what was acted on in this hand has its place in the log taken (`ActedInv`).

**The deal.** `MentalPoker_proofs`.

| theorem | statement |
|---|---|
| `DealCorrect` | `Spec => []DealInv` |
| `HoleCardsStayPrivate` | `Spec => []HoleCardsPrivate` |
| `LogExplainsTheBoard` | `Spec => []LogExplainsBoard` |
| `DealImplementsDealer` | `Spec => ImplementsDealer` |

They hold for any number of players and cards, any permutations, any exponents and any number of faults. `DealInv` has two kinds of
parts. Some hold whatever is substituted: every partial decryption that was accepted is by the player whose turn it was, with a proof
that verifies, and leaves the recipient's layer as it was in the deck (`MadeAt`), because nobody has that exponent and the chain
leaves the recipient out (`DecryptorOrder`, `OwnersLayerStays`). `HoleCardsPrivate` and `LogExplainsBoard` come from these alone. The
others hold until `unnoticed`: before the step of player p of the shuffle the deck in hand
is a pack, every card once, under the layers of the players below p (`PackUnder`, `StepOutputPack`); after k
partial decryptions the card of the call has the layers of those who are still to take theirs off (`StillOn`,
`LayersLeft`), and what was handed on is what should have been handed on (`PartialAt`), because a result that is not
the one proved fails the check and the call begins anew (`FailedCall`). Then the last
result is the card (`CardKnown`), and cards on the table are those at their places in the deck (`GameInv`),
from which the refinement follows step by step: a place in the deck is the seat's place in a round
(`Rounds`), and the batches are the dealer's board (`BatchPlaces`). A step that begins with `unnoticed` has nothing to show: nothing the
program checks would tell.

**Votes.** `FaultVote_proofs`: `VoteCorrect` (`[]VoteInv`), `VotesWitnessed` (`[]VotesAreWitnessed`), `FoldsCounted`
(`[]FoldsAreCounted`: nobody is folded without as many witnesses as the code's own threshold), `QuorumFolds`
(`[]FoldNeedsQuorum`, if the number of peers is not a multiple of three, where the code's rounding is below
two thirds: section 6), `NobodyFoldsAlone` (with four peers or more two witnesses at least, rounding or not).
The votes counted are not inductive: a ballot in flight becomes one, and a callback not yet run becomes a ballot
or a fold. `VoteInv` says of each stage that it comes from a witness (`CallersAreWitnesses`,
`BallotsAreWitnessed`), and of a confirmation that its quorum was there, though the vote may have been opened
anew since (`ConfirmedAreCounted`); witnesses only grow.

**The contract.** `Escrow_proofs`: `EscrowCorrect` (`[]EscrowInv`), `MoneyIsBacked` (`[]EscrowIsBacked`), `SettlementIsFull`
(`[]SettledInFull`), `SettlementIsSigned` (`[]SettledByQuorum`), `RefundIsOnce` (`[]RefundedOnce`), `LossesAreCovered` (no settlement
takes more from a player than its buy-in) and `DisputesAreIdle` (a dispute moves no money). To the books `EscrowInv` adds
that only seated players have paid in or been paid (`OnlySeatedPayIn`) and that a settlement marks all of them
(`SettledMarksAll`), which keeps a refund from following it. `SettledInFull` is the one that needs an argument: the code pays
nothing where buy-in and delta are negative, and the check of the total turns out to revert such an outcome, because the sum
of what is paid would exceed what is there.

Only model-checked:

* liveness (`TableGoesOn`, `KeyIsRecovered`, `FundsAreReleased`): fairness is about when actions are
  enabled, and `ENABLED` is out of the prover's reach;
* the ranking of hands (`ComparesLikePoker`): `Evaluate5` sorts with `SetToSortSeq`, a choice among all permutations, and
  no lemma of the library says that there is a sorted one or what it holds. The run takes every board and two hands
  from three sets of nine cards instead.

## 6. What the checks found

Refuted by a run, each a statement that the repository makes about itself:

1. **A raise the engine accepts loses chips** (`engine_conserves`, `phase1/machine.go:90`). The chips needed
   are compared with the stack plus the chips already bet; the bet to match grows beyond what
   the raiser has put in, others call it and fold, and a layer of the pot has no winner left.
   The terminal client has the right check (`table3` passes), the simulation and the bots
   never raise, so tests do not meet it.
2. **A crashed peer that is never folded** (`folds4`, `phase5/timeout.go:113`). A ballot that comes before
   a peer's own timeout opens the vote, and the peer's own vote is then never counted.
3. **All high-card hands tie** (`high_card`, `phase1/hand_eval.go:59`). The search for the best five of
   seven starts from a high-card hand without kickers, and `Compare` stops at the end of the
   shorter list: no high-card hand ever replaces the start. Ace high splits with king high.
   `ComparesLikePoker` shows that all other hands are compared as they should be.

Seen while modelling, and not the subject of a run. In the engine and the local loop:

* `phase1/machine.go:164` promises the big blind one more action before the flop; `LastRaiserIdx`
  starts at the big blind, so the round ends when the turn comes to it. After the flop a
  round may close without a seat having acted if one that has acted went all-in or folded
  (`machine.go:169` counts actions of all and seats that can still act); `EveryoneActs` is the
  promise of `machine.go:141` without that case.
* `phase1/machine.go:262`: when the last seats go all-in together nobody can act, one more street is dealt
  and the hands are compared on three or four community cards. `FullBoardAtShowdown` says that this is the
  only case of a short board.
* `phase7/main.go:228`: a key in Spectate mode posts the state once more; handled after the end
  of a hand it starts a second timer, and the hand that the first one has dealt is dropped
  by the second. `PlayedOutUntilAKey` says that nothing else drops one.

* `phase1/machine.go:149`: heads-up, a small blind that is all-in for less than the big blind leaves the turn with
  the big blind, which owes nothing and may fold: the small blind then wins chips it has not matched
  (`pot.go:14`). With three seats or more another seat has matched the bet before anybody is in that place,
  so `OnlyMatchedIsWon` and `table3` are about three seats or more.

In the mental poker and its evidence:

* `phase2/zkp.go:92`: `VerifyDecryption` takes `H` from the proof and compares it with nothing the prover has
  registered. A partial decryption made with another exponent passes with a proof for that exponent: the card on the board is
  not the deck's, or a call fails although every proof in it is good, and the whole log verifies. `crypto_game.go:177`
  has it that "any player can call this after the hand to audit correctness".
* `phase2/shuffle.go:67`: the player that shuffles makes the commitment, from the deck it hands on, and `VerifyStep`
  compares the two; that the deck is a permutation of the one received is not checked. `shuffle.go:17` says "any player can
  verify no substitution occurred". This is the other way to `unnoticed`.
  Without the disjunct `unnoticed'` TLC refutes `ImplementsDealer` by one step of either kind.
* `phase5/manager.go:26` and `slash.go` name cheats of the deal, but `deal.go` checks proofs inline (`:84`, `:124`) and returns an
  error; nothing outside demonstrations and tests calls `CheckZKProof` or `RecordKeyWithholding`, and no code checks
  a shuffle for the slash detector. So the project states no property about records of cheats.
* `phase2/params.go:81`: the session identifier is said to be made "from the sorted list of player IDs";
  the code hashes them as they come.
* `phase5/slash.go:31` promises a record "enough evidence for the on-chain arbitration contract". Records of
  equivocation and of withheld keys carry none, and `SubmitDispute` (`client.go`) refuses a dispute
  without evidence.
* `phase5/manager.go:219` says that `GameLog` satisfies `EquivocationChecker`. Its `DetectEquivocation` has four
  results, the interface three.

In the network:

* `phase3/gamelog.go:49`: `Append` refuses a second entry with the key of another, whatever its payload,
  and `dispatch` drops the error, so the log never holds the two envelopes that `DetectEquivocation` looks for:
  it finds nothing in any log that `Append` has filled, whoever did what. `gamelog.go:101` promises
  "whether any sender signed two different messages with the same sequence number"; the test of it (`network_test.go:243`)
  and the demonstration put their entries into the log past `Append`. `OnlyRestartsEquivocate` is about
  what a detector would find in all that a node has acted on: peers that have restarted, and nobody else, when
  peers send what the code sends.
* `phase3/node.go:115`: the stream handler appends and acts without `CheckAndUpdateSeq`, where `gossip.go:28` has
  "CheckAndUpdateSeq must be called on every received envelope before processing". A message over a stream is acted on
  whatever its number is, after later ones of its sender too; `RoutedOnceInOrder` therefore orders gossip only.
* `phase3/node.go:463`: a log begins with the hand while the sequence numbers go on, and
  `ValidateSequences` wants 1, 2, 3, …; heartbeats and direct messages take numbers too. From the
  second hand on, or once a heartbeat was sent, it refuses the logs of honest peers.
  `ValidLogIsComplete` says what a log that does validate is worth.
* A node skips its own messages (`node.go`), so they are not in its log, and the state roots of two nodes
  differ after the same hand. For the same reason a node is never seated in its own lobby:
  `NewNode` makes one of 9 seats (`node.go:91`), which takes nine other peers.
* A `Ready` that overtakes its `Join` is refused by the lobby, and the `Join` is then dropped by the replay
  check: the player is neither seated nor ready, and nothing is sent again.
* A node that restarts counts from 1, and the others drop what it sends until it has passed
  the numbers of its former life.
* `phase3/lobby.go:146` calls the join order canonical; it is the order in which each peer has handled the joins.
* `phase3/gossip.go:107`: nothing calls `NextHeartbeat`, so heartbeats, published on a topic of their own
  (`node.go:365`), reach nobody; `protocol.md:62` has them on the table's topic. `SetPlaying` and
  `WaitReady` have no caller outside tests either.

In fault tolerance and settlement:

* `phase5/timeout.go:48` rounds two thirds to the nearest integer: with three peers one vote of two
  folds, with six three of five (and so whenever the peers are a multiple of three), where `timeout.go:10`, `fault_test.go:209` and `protocol.md:174` want two. At any other table the two agree (`QuorumFolds`).
* `phase5/timeout.go:172`: nothing calls `ExpireStaleVotes`; only a demonstration and tests call `ApplyTimeoutFold`.
* `phase5/shamir.go:61`: "ContributeShare adds this node's share for ownerID to the reconstruction pool" (`:56`), and "any T of
  the remaining players" are to rebuild the key (`:18`); it returns the share and adds nothing, and a broadcast does not come back
  to its sender. So it takes T shares of others (`KeyTakesOthers`), that is T + 1 peers: with three
  seats (T = 2) the two that are left never rebuild a key, and with four the two that are left after a second crash do not, unless the
  third has broadcast its share before. TLC refutes `KeyIsRecovered` with `>= Threshold` in place of `> Threshold`,
  with three seats and with four.
* `phase6/PokerEscrow.sol:418`: a dispute is possible only on a settled table, where everybody has been
  paid; a slash marks the offender and moves no money (`PokerEscrow.sol:28` and `:53` say otherwise).
* `phase6/escrow.go:113`: the deltas of an outcome are the gross payouts, "The sum should already be zero";
  it is the whole pot, so `validatePayoutDeltas` refuses every hand that somebody has won.
* `phase6/PokerEscrow.sol:157`: a table that never fills cannot be abandoned, and the buy-ins of those who
  joined stay. `FundsAreReleased` is about tables at which a game has begun.
* `phase6/PokerEscrow.sol:182`: the hand number is signed and compared with nothing.

## 7. What is not modelled

* A timer function of the local loop is one step. In the program it is a goroutine that reads and
  writes what the event loop draws, without a lock; the interleavings inside one, and torn
  reads, are left out.
* The cards of a hand in the engine: `distributePots` may compare on any order of the hands,
  which covers the order `HandEval` gives and every other. The deck of `deck.go` is any choice
  from its cards.
* Arithmetic on big numbers, hashes, signatures, encodings, libp2p, the layout of the terminal. An
  exponentiation is a layer and a factor of the power, a hash is as good as what it is of, an envelope is from whom it
  says it is, and a proof verifies for the input, the result and the exponent that it was made for.
  `GenerateSRAKey` is a choice among the exponents with an inverse. What the demonstration
  programs print is theirs alone.
* Framing, discovery and set-up of the transport; generated code (`messages.pb.go`,
  `PokerEscrow.go`); parsing of the configuration. They keep no state that another part reads
  after the start, and errors end the program or the message.
* The hand-over of a hand from the deck to the engine and from the engine to the contract:
  nothing in the repository plays a hand of the engine with the encrypted deck, applies a
  confirmed fold to a machine outside demonstrations, or brings an outcome past
  `validatePayoutDeltas`, so there is no composed behaviour to check.
* The slash detector (`slash.go`) and the disputes of `Client`: they record and copy what their caller passes, and have
  no caller but demonstrations and tests. The other methods of `Client` are stubs that return fixed receipts.
* Messages that a peer makes up: in `TableNet` peers send what the code sends. A faulty player is modelled in the deal
  only, where the code has checks against it.
* Time as such: timeouts are choices, deadlines two flags.
* Errors of `rand` and of marshalling.

## 8. Plan

The parts with state of their own are modelled, their invariants are proved and so are both
refinements. What is left:

1. `ComparesLikePoker` for every hand, from lemmas about `SetToSortSeq`, once the search starts from no hand at all.
2. The liveness properties, when the prover has `ENABLED`.
