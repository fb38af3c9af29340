----------------------------- MODULE PokerTable -----------------------------
(***************************************************************************)
(* Hands played one after the other at one table, as the drivers of the    *)
(* engine do (nextHandCmd in phase7/main.go, the simulation of             *)
(* phase1/main.go): the stacks carry over, the button moves one seat, and  *)
(* every seat is dealt in again, the seats that have lost everything too.  *)
(* The actions are those the terminal client lets out.                     *)
(***************************************************************************)
EXTENDS BetInput

\* Everybody buys in for the same amount (StartStacks has one element) and the
\* first button is seat 0.
TableInit == Init /\ dealerIdx = 0

\* Mutant: the next hand may begin before the last one is settled.
NextHandGuard_None == TRUE

NextHandGuard == phase = "Settled"

\* Of every player.
ResetForNewHand ==
  /\ status' = [s \in Seats |-> "Active"]
  /\ currentBet' = [s \in Seats |-> 0]
  /\ totalBet' = [s \in Seats |-> 0]
  /\ UNCHANGED stack

NewGameState(button) ==
  /\ phase' = "Waiting"
  /\ dealerIdx' = button
  /\ actionIdx' = 0
  /\ lastRaiserIdx' = 0
  /\ roundActionCount' = 0
  /\ tableBet' = 0
  /\ minRaise' = BigBlind
  /\ board' = 0
  /\ pots' = << >>
  /\ payouts' = [s \in Seats |-> 0]
  /\ ResetForNewHand

NextHand ==
  /\ NextHandGuard
  /\ NewGameState((dealerIdx + 1) % N)
  /\ startStack' = stack
  /\ acted' = {}

\* The loop of the drivers.  Bots and the players of the simulation call or check,
\* which a player at the client may do as well.
TableNext == ConfirmedNext \/ NextHand
TableSpec == TableInit /\ [][TableNext]_vars

\* Players who move when it is their turn, and a driver that deals the next hand.
FairTableSpec == TableSpec /\ WF_vars(TableNext)

-----------------------------------------------------------------------------
Ledger == INSTANCE ChipLedger WITH
            Holders <- Seats,
            held    <- stack,
            middle  <- IF phase = "Settled" THEN 0 ELSE SumFunction(totalBet)

\* The table keeps the promise of ChipLedger over any number of hands: bets go
\* to the middle, the end of the hand pays the middle out to the last chip, and
\* between two hands no stack changes.
ImplementsLedger == Ledger!Spec

\* Hand follows hand for ever: no stacks the game leads to, all-in blinds and
\* seats without a chip included, leave a hand that cannot be played to its end.
\* Heads-up, a hand whose blinds put both seats all-in would never end; two
\* seats never have that few chips, since no chips are lost.
TableGoesOn == []<>(phase = "Waiting")
=============================================================================
