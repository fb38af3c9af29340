----------------------------- MODULE PokerHand ------------------------------
(***************************************************************************)
(* One hand of Texas Hold'em as phase1/machine.go plays it: blinds, the    *)
(* four betting rounds, all-ins, side pots, showdown.  One action per      *)
(* operation of Machine (StartHand and the five kinds of ApplyAction),     *)
(* each with everything the call does before it returns: advancing the     *)
(* turn, closing the round, dealing the next street, running the board     *)
(* out, distributing the pots.                                             *)
(*                                                                         *)
(* Cards are abstracted: the board is the number of community cards, and   *)
(* the relative strength of the hands is chosen when they are compared.    *)
(* PhaseShowdown is only ever set inside a call and is not a state.        *)
(* ApplyAction calls that return an error change nothing and are not       *)
(* steps.  No code ever sets StatusSittingOut.                             *)
(***************************************************************************)
EXTENDS Pots

CONSTANTS
  SmallBlind,
  BigBlind,
  StartStacks   \* the stacks a seat may start the hand with

\* config.go Validate.
ASSUME TableAssumption ==
  /\ SmallBlind \in Nat \ {0}
  /\ BigBlind \in Nat
  /\ SmallBlind < BigBlind
  /\ StartStacks \subseteq Nat

VARIABLES
  phase,
  dealerIdx,
  actionIdx,         \* whose turn it is, or None
  lastRaiserIdx,     \* or None
  roundActionCount,
  tableBet,          \* GameState.CurrentBet: the bet to match
  minRaise,
  board,             \* number of community cards
  pots,
  status,            \* per seat from here on, the fields of Player
  stack,
  currentBet,        \* Player.CurrentBet: bet in this round
  totalBet,          \* Player.TotalBet: bet in this hand
  payouts,
  startStack,        \* history: the stack at the start of the hand
  acted              \* history: the seats with an entry in Log this round

tableVars == <<phase, dealerIdx, actionIdx, board, pots, payouts>>
roundVars == <<lastRaiserIdx, roundActionCount, tableBet, minRaise, currentBet, acted>>
seatVars  == <<status, stack, totalBet, startStack>>
vars      == <<tableVars, roundVars, seatVars>>

None          == -1
BettingPhases == {"PreFlop", "Flop", "Turn", "River"}
Phases        == BettingPhases \cup {"Waiting", "Settled"}
Statuses      == {"Active", "Folded", "AllIn"}

BoardSize  == [PreFlop |-> 0, Flop |-> 3, Turn |-> 4, River |-> 5]
NextStreet == [PreFlop |-> "Flop", Flop |-> "Turn", Turn |-> "River"]

ActiveSeats(st) == {s \in Seats : st[s] = "Active"}
LiveSeats(st)   == {s \in Seats : st[s] # "Folded"}

\* Mutant: the turn goes to the next seat, able to act or not.
NextActive_AnySeat(st, from) == (from + 1) % N

\* The first active seat after "from", going round and ending at "from".
NextActive(st, from) ==
  LET steps == {i \in 1..N : st[(from + i) % N] = "Active"}
  IN  IF steps = {} THEN None ELSE (from + Min(steps)) % N

SmallBlindSeat == IF N = 2 THEN dealerIdx ELSE (dealerIdx + 1) % N
BigBlindSeat   == IF N = 2 THEN (dealerIdx + 1) % N ELSE (dealerIdx + 2) % N

\* Mutant: a bet is not capped at the stack.
Placed_Uncapped(s, amount) == amount

\* PlaceBet: what leaves the stack, and the status after it.
Placed(s, amount)      == IF amount >= stack[s] THEN stack[s] ELSE amount
StatusAfter(s, amount) == IF amount >= stack[s] THEN "AllIn" ELSE status[s]

ToCall(s) == tableBet - currentBet[s]

-----------------------------------------------------------------------------
Init ==
  /\ phase = "Waiting"
  /\ dealerIdx \in Seats
  /\ actionIdx = 0
  /\ lastRaiserIdx = 0
  /\ roundActionCount = 0
  /\ tableBet = 0
  /\ minRaise = BigBlind
  /\ board = 0
  /\ pots = << >>
  /\ status = [s \in Seats |-> "Active"]
  /\ stack \in [Seats -> StartStacks]
  /\ currentBet = [s \in Seats |-> 0]
  /\ totalBet = [s \in Seats |-> 0]
  /\ payouts = [s \in Seats |-> 0]
  /\ startStack = stack
  /\ acted = {}

\* StartHand: blinds, hole cards, first to act after the big blind.
StartHand ==
  LET due  == [s \in Seats |-> IF s = SmallBlindSeat THEN SmallBlind
                               ELSE IF s = BigBlindSeat THEN BigBlind ELSE 0]
      post == [s \in Seats |-> IF due[s] = 0 THEN 0 ELSE Placed(s, due[s])]
      st   == [s \in Seats |-> IF due[s] = 0 THEN status[s] ELSE StatusAfter(s, due[s])]
  IN
  /\ phase = "Waiting"
  /\ phase' = "PreFlop"
  /\ status' = st
  /\ stack' = [s \in Seats |-> stack[s] - post[s]]
  /\ currentBet' = [s \in Seats |-> currentBet[s] + post[s]]
  /\ totalBet' = [s \in Seats |-> totalBet[s] + post[s]]
  /\ tableBet' = IF post[SmallBlindSeat] > post[BigBlindSeat]
                 THEN post[SmallBlindSeat] ELSE post[BigBlindSeat]
  /\ actionIdx' = NextActive(st, BigBlindSeat)
  /\ lastRaiserIdx' = BigBlindSeat
  /\ roundActionCount' = 0
  /\ UNCHANGED <<dealerIdx, minRaise, board, pots, payouts, startStack, acted>>

-----------------------------------------------------------------------------
(* The tail of ApplyAction, from the point where the switch has decided    *)
(* what the acting seat does: its chips "paid", the statuses "st", the bet *)
(* to match, the minimum raise and the last raiser.                        *)

\* Mutant: an orbit closes the round whatever was bet.
RoundComplete_OrbitOnly(st, next, mine, bet, raiser, count) ==
  count >= Cardinality(ActiveSeats(st))

\* Mutant: a round is complete one action early.
RoundComplete_OneShort(st, next, mine, bet, raiser, count) ==
  /\ mine >= bet
  /\ next = raiser \/ count + 1 >= Cardinality(ActiveSeats(st))

\* bettingRoundComplete; "mine" is the current bet of the seat "next".
RoundComplete(st, next, mine, bet, raiser, count) ==
  /\ mine >= bet
  /\ next = raiser \/ count >= Cardinality(ActiveSeats(st))

\* The round's variables as the action leaves them, the round going on or not.
SameRound(paid, bet, minR, raiser) ==
  /\ currentBet' = [currentBet EXCEPT ![actionIdx] = @ + paid]
  /\ tableBet' = bet
  /\ minRaise' = minR
  /\ lastRaiserIdx' = raiser
  /\ roundActionCount' = roundActionCount + 1
  /\ acted' = acted \cup {actionIdx}

\* startNewBettingRound: folded seats keep their stale current bet.
NewRound(st) ==
  /\ currentBet' = [s \in Seats |-> IF st[s] = "Folded" THEN currentBet[s] ELSE 0]
  /\ tableBet' = 0
  /\ minRaise' = BigBlind
  /\ lastRaiserIdx' = None
  /\ roundActionCount' = 0
  /\ acted' = {}

\* Mutant: the winnings are added to the stack as it was before the last bet.
Settle_StaleStack(total, stk, wins) ==
  /\ phase' = "Settled"
  /\ pots' = CalculatePots(total)
  /\ stack' = [s \in Seats |-> stack[s] + wins[s]]
  /\ payouts' = [s \in Seats |-> payouts[s] + wins[s]]

\* Payouts are made from the stacks "stk" left after the bets "total".
Settle(total, stk, wins) ==
  /\ phase' = "Settled"
  /\ pots' = CalculatePots(total)
  /\ stack' = [s \in Seats |-> stk[s] + wins[s]]
  /\ payouts' = [s \in Seats |-> payouts[s] + wins[s]]

\* Mutant: the first seat takes everything, folded or not.
SingleWinner_FirstSeat(st, total) ==
  [s \in Seats |-> IF s = 0 THEN TotalPot(CalculatePots(total)) ELSE 0]

\* resolveSingleWinner: the first seat that has not folded takes everything.
SingleWinner(st, total) ==
  [s \in Seats |-> IF s = Min(LiveSeats(st)) THEN TotalPot(CalculatePots(total)) ELSE 0]

\* startShowdown, the hands of the live seats ranked in any way, ties included.
Showdown(st, total, stk) ==
  \E strength \in [LiveSeats(st) -> 1..Cardinality(LiveSeats(st))] :
    Settle(total, stk,
           DistributePots(CalculatePots(total), LiveSeats(st), strength, dealerIdx))

\* Mutant: the board is not run out for a single seat that can still bet.
EndBettingRound_NoRunOut(st, total, stk, paid, bet, minR, raiser) ==
  LET able   == ActiveSeats(st)
      street == IF phase = "River" THEN "River" ELSE NextStreet[phase]
  IN
  /\ board' = BoardSize[street]
  /\ NewRound(st)
  /\ actionIdx' = IF able = {} THEN actionIdx ELSE NextActive(st, dealerIdx)
  /\ \/ /\ phase # "River" /\ Cardinality(able) > 1
        /\ phase' = street
        /\ pots' = CalculatePots(total)
        /\ stack' = stk
        /\ UNCHANGED payouts
     \/ /\ phase = "River" \/ Cardinality(able) <= 1
        /\ Showdown(st, total, stk)

\* endBettingRound, dealFlop/Turn/River and startNewBettingRound, which call
\* each other: with two seats able to bet the next street is dealt and played;
\* with one the board is run out; with none the next street is dealt and the
\* hands are shown on that board.  The street reached is "street".
EndBettingRound(st, total, stk, paid, bet, minR, raiser) ==
  LET able   == ActiveSeats(st)
      street == IF phase = "River" \/ Cardinality(able) = 1
                THEN "River" ELSE NextStreet[phase]
  IN
  /\ board' = BoardSize[street]
  /\ IF phase = "River"
     THEN /\ SameRound(paid, bet, minR, raiser)
          /\ UNCHANGED actionIdx
     ELSE /\ NewRound(st)
          /\ actionIdx' = IF able = {} THEN actionIdx ELSE NextActive(st, dealerIdx)
  /\ \/ /\ phase # "River" /\ Cardinality(able) > 1
        /\ phase' = street
        /\ pots' = CalculatePots(total)
        /\ stack' = stk
        /\ UNCHANGED payouts
     \/ /\ phase = "River" \/ Cardinality(able) <= 1
        /\ Showdown(st, total, stk)

Proceed(st, paid, bet, minR, raiser) ==
  LET total  == [totalBet EXCEPT ![actionIdx] = @ + paid]
      stk    == [stack EXCEPT ![actionIdx] = @ - paid]
      next   == NextActive(st, actionIdx)
      over   == Cardinality(LiveSeats(st)) <= 1
      mine   == currentBet[next] + (IF next = actionIdx THEN paid ELSE 0)
      closes == IF next = None THEN TRUE
                ELSE RoundComplete(st, next, mine, bet, raiser, roundActionCount + 1)
  IN
  /\ status' = st
  /\ totalBet' = total
  /\ UNCHANGED <<dealerIdx, startStack>>
  /\ \/ /\ over
        /\ SameRound(paid, bet, minR, raiser)
        /\ Settle(total, stk, SingleWinner(st, total))
        /\ UNCHANGED <<actionIdx, board>>
     \/ /\ ~over /\ closes
        /\ EndBettingRound(st, total, stk, paid, bet, minR, raiser)
     \/ /\ ~over /\ ~closes
        /\ SameRound(paid, bet, minR, raiser)
        /\ actionIdx' = next
        /\ stack' = stk
        /\ UNCHANGED <<phase, board, pots, payouts>>

-----------------------------------------------------------------------------
(* ApplyAction, one action per kind of Action.                             *)

MayAct(s) ==
  /\ phase \in BettingPhases
  /\ actionIdx = s
  /\ status[s] = "Active"

\* What else the call must not return an error for.
MayCheck(s) == MayAct(s) /\ ToCall(s) = 0
MayCall(s)  == MayAct(s) /\ ToCall(s) > 0
MayRaise(s, amount) ==
  /\ MayAct(s)
  /\ amount >= minRaise
  /\ ToCall(s) + amount <= stack[s] + currentBet[s]

Fold(s) ==
  /\ MayAct(s)
  /\ Proceed([status EXCEPT ![s] = "Folded"], 0, tableBet, minRaise, lastRaiserIdx)

Check(s) ==
  /\ MayCheck(s)
  /\ Proceed(status, 0, tableBet, minRaise, lastRaiserIdx)

Call(s) ==
  /\ MayCall(s)
  /\ Proceed([status EXCEPT ![s] = StatusAfter(s, ToCall(s))],
             Placed(s, ToCall(s)), tableBet, minRaise, lastRaiserIdx)

\* The bet to match grows by the whole amount even when the stack, from which
\* the chips come, is smaller than what the seat needs: the code compares the
\* chips needed with the stack plus the chips already bet.
Raise(s, amount) ==
  LET needed == ToCall(s) + amount IN
  /\ MayRaise(s, amount)
  /\ Proceed([status EXCEPT ![s] = StatusAfter(s, needed)],
             Placed(s, needed), tableBet + amount, amount, s)

\* Mutant: an all-in above the bet to match is not treated as a raise.
AllIn_NoRaise(s) ==
  /\ MayAct(s)
  /\ Proceed([status EXCEPT ![s] = "AllIn"], stack[s], tableBet, minRaise, lastRaiserIdx)

AllIn(s) ==
  LET whole  == currentBet[s] + stack[s]
      raises == whole > tableBet
  IN
  /\ MayAct(s)
  /\ Proceed([status EXCEPT ![s] = "AllIn"], stack[s],
             IF raises THEN whole ELSE tableBet,
             IF raises /\ whole - tableBet > minRaise THEN whole - tableBet ELSE minRaise,
             IF raises THEN s ELSE lastRaiserIdx)

\* The amounts the engine's check lets through.
RaiseAmounts(s) == minRaise..(stack[s] + currentBet[s] - ToCall(s))

Act(s) ==
  \/ Fold(s)
  \/ Check(s)
  \/ Call(s)
  \/ \E amount \in RaiseAmounts(s) : Raise(s, amount)
  \/ AllIn(s)

\* The engine with any caller.
Next == StartHand \/ \E s \in Seats : Act(s)
Spec == Init /\ [][Next]_vars
-----------------------------------------------------------------------------
(* Properties.                                                             *)

\* Every variable has its type.
TypeOK ==
  /\ phase \in Phases
  /\ dealerIdx \in Seats
  /\ actionIdx \in Seats \cup {None}
  /\ lastRaiserIdx \in Seats \cup {None}
  /\ roundActionCount \in Nat
  /\ tableBet \in Nat
  /\ minRaise \in Nat
  /\ board \in {0, 3, 4, 5}
  /\ status \in [Seats -> Statuses]
  /\ stack \in [Seats -> Nat]
  /\ currentBet \in [Seats -> Nat]
  /\ totalBet \in [Seats -> Nat]
  /\ payouts \in [Seats -> Nat]
  /\ startStack \in [Seats -> Nat]
  /\ acted \subseteq Seats

\* Each seat's chips are accounted for at every moment: what it holds and what
\* it has put in the pots is what it started with and what it was paid.  Bets
\* move chips in PlaceBet, winnings arrive in three different places.
SeatLedger ==
  \A s \in Seats : stack[s] + totalBet[s] = startStack[s] + payouts[s]

\* While a round is played nobody still in the hand has bet more than the bet
\* to match (so the chips to call are never negative), an all-in seat has
\* nothing left, and the turn is with a seat that can act while somebody else
\* is in the hand.  Stale current bets of folded seats are the trap here.
RoundDiscipline ==
  phase \in BettingPhases =>
    /\ \A s \in LiveSeats(status) : currentBet[s] <= tableBet
    /\ \A s \in Seats : currentBet[s] <= totalBet[s]
    /\ \A s \in Seats : status[s] = "AllIn" => stack[s] = 0
    /\ actionIdx # None => status[actionIdx] = "Active"
    /\ Cardinality(LiveSeats(status)) > 1

\* The chips that a settled hand fails to pay are exactly those of the pots all
\* of whose contributors have folded (distributePots skips a pot with no winner).
OnlyDeadPotsUnpaid ==
  phase = "Settled" /\ Cardinality(LiveSeats(status)) > 1 =>
    SumFunction(totalBet) - SumFunction(payouts)
      = SumFunction([l \in {k \in DOMAIN pots : pots[k].eligible \cap LiveSeats(status) = {}}
                       |-> pots[l].amount])

\* No chips are lost or made: a settled hand pays out every chip that was bet.
\* The tests of game_test.go and e2e_test.go and escrow.go:113 say so.
ChipsConserved ==
  phase = "Settled" => SumFunction(stack) = SumFunction(startStack)

\* A seat wins from each opponent at most as much as it has put in itself
\* (pot.go:14), whichever way the hand ends, with three seats or more.  (Heads-up the
\* big blind may fold to a small blind that was all-in for less than the big blind.)
WinsOnlyMatched ==
  \A s \in Seats :
    payouts[s] <= SumFunction([t \in Seats |->
                    IF totalBet[t] < totalBet[s] THEN totalBet[t] ELSE totalBet[s]])

\* A betting round is over when the next street is dealt or the hand goes to
\* showdown, not when all but one have folded.
RoundCloses ==
  /\ phase \in BettingPhases
  /\ phase' # phase
  /\ Cardinality(LiveSeats(status')) > 1

\* What a seat has bet in the round, the step under way included.
BetMade(s) == currentBet[s] + (totalBet'[s] - totalBet[s])

\* When a round closes every seat that could still bet has put in as much as
\* anybody still in the hand: nobody sees the next card for less
\* (machine.go:141, "AND bets are equalised").
BetsEqualised ==
  [][RoundCloses =>
       \A s \in ActiveSeats(status'), t \in LiveSeats(status') :
         BetMade(t) <= BetMade(s)]_vars

\* A seat that has folded or is all-in is out of the betting for good: its
\* status and its bets never change again in this hand, and it is paid nothing
\* if it has folded, nothing before the end if it is all-in.
OutOfBetting ==
  [][\A s \in Seats : phase \in BettingPhases /\ status[s] # "Active" =>
       /\ status'[s] = status[s]
       /\ totalBet'[s] = totalBet[s]
       /\ (status[s] = "Folded" \/ phase' # "Settled") => stack'[s] = stack[s]]_vars

\* "Every active player has acted at least once" (machine.go:141) when a round after
\* the flop closes, if all who have acted in it can still act.  One who goes all-in
\* or folds still counts as an action while the count it is compared with goes down.
EveryoneActs ==
  [][RoundCloses /\ phase # "PreFlop" /\ acted \cup {actionIdx} \subseteq ActiveSeats(status') =>
       ActiveSeats(status') \subseteq acted \cup {actionIdx}]_vars

\* Hands are compared on a full board, or nobody was left who could bet: with one
\* such seat the streets are run out, with none the next one is the last.
FullBoardAtShowdown ==
  phase = "Settled" /\ Cardinality(LiveSeats(status)) > 1
    => board = 5 \/ ActiveSeats(status) = {}
=============================================================================
