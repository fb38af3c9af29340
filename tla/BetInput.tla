------------------------------ MODULE BetInput -------------------------------
(***************************************************************************)
(* The betting panel of the terminal client (phase4/bet_input.go and       *)
(* handleBettingKey of phase4/model.go): the keys a player may press when  *)
(* it is its turn, and the actions that Confirm lets out.  The panel is    *)
(* made anew from each game state, so it is no state of its own here: the  *)
(* panels that a turn can lead to are computed from the state it was made  *)
(* from.  Typing and deleting digits may leave any amount in the field.    *)
(***************************************************************************)
EXTENDS PokerHand

Empty   == -1                 \* nothing in the raise field
Refused == [type |-> "Refused"]

\* NewBetInputState: check or call is selected (0 fold, 2 raise, 3 all-in).
NewBetInputState(s) ==
  LET toCall == IF ToCall(s) < 0 THEN 0 ELSE ToCall(s) IN
  [toCall |-> toCall, minRaise |-> minRaise, stack |-> stack[s],
   canCheck |-> toCall = 0, selected |-> 1, raiseInput |-> Empty, inputActive |-> FALSE]

\* The amounts that may stand in the field; beyond the last all are refused alike.
Amounts(w) == {Empty} \cup 0..(w.minRaise + w.stack + tableBet + 1)

SelectNext(w) ==
  [w EXCEPT !.selected = (@ + 1) % 4, !.inputActive = @ /\ w.selected # 1]
SelectPrev(w) ==
  [w EXCEPT !.selected = (@ + 3) % 4, !.inputActive = @ /\ w.selected # 3]

ActivateInput(w) ==
  [w EXCEPT !.selected = 2, !.inputActive = TRUE,
            !.raiseInput = IF @ = Empty THEN w.minRaise ELSE @]

\* AppendChar and Backspace, as often as the player likes.
Typed(w) == {[w EXCEPT !.raiseInput = a] : a \in Amounts(w)}

\* handleBettingKey: the panels one key leads to, Enter on an amount that is
\* refused (the field loses the focus) and Esc included.
handleBettingKey(w) ==
  IF w.inputActive
  THEN Typed(w) \cup {[w EXCEPT !.inputActive = FALSE],
                      [w EXCEPT !.inputActive = FALSE, !.raiseInput = Empty]}
  ELSE {SelectNext(w), SelectPrev(w), ActivateInput(w)}
         \cup {[w EXCEPT !.selected = i] : i \in {0, 1, 3}}

\* Every panel that the keys lead to: raise, an amount, a refused Enter and a
\* move away reach them all.
Panels(s) ==
  LET pressed[k \in 0..4] ==
        IF k = 0 THEN {NewBetInputState(s)}
        ELSE pressed[k - 1] \cup UNION {handleBettingKey(w) : w \in pressed[k - 1]}
  IN pressed[4]

\* Mutant: the amount is not compared with the stack.
ConfirmRaise_NoStack(w, amount) ==
  IF amount <= 0 \/ amount < w.minRaise THEN Refused
  ELSE [type |-> "Raise", amount |-> amount]

\* Confirm on the raise button; an empty field stands for the minimum.
ConfirmRaise(w, amount) ==
  IF amount <= 0 \/ amount < w.minRaise \/ amount + w.toCall > w.stack THEN Refused
  ELSE [type |-> "Raise", amount |-> amount]

Confirm(w) ==
  CASE w.selected = 0 -> [type |-> "Fold"]
    [] w.selected = 1 -> [type |-> IF w.canCheck THEN "Check" ELSE "Call"]
    [] w.selected = 2 ->
         ConfirmRaise(w, IF w.raiseInput = Empty THEN w.minRaise ELSE w.raiseInput)
    [] w.selected = 3 -> [type |-> "AllIn"]

\* Enter on the raise button opens the field instead of submitting.
Submits(w) == w.inputActive \/ w.selected # 2

\* submitAction: what goes out to the game.
Submitted(s) == {Confirm(w) : w \in {p \in Panels(s) : Submits(p)}} \ {Refused}

ApplyAction(s, a) ==
  \/ a.type = "Fold"  /\ Fold(s)
  \/ a.type = "Check" /\ Check(s)
  \/ a.type = "Call"  /\ Call(s)
  \/ a.type = "Raise" /\ Raise(s, a.amount)
  \/ a.type = "AllIn" /\ AllIn(s)

\* ApplyAction returns no error.
Accepts(s, a) ==
  \/ a.type \in {"Fold", "AllIn"} /\ MayAct(s)
  \/ a.type = "Check" /\ MayCheck(s)
  \/ a.type = "Call"  /\ MayCall(s)
  \/ a.type = "Raise" /\ MayRaise(s, a.amount)

ConfirmedAct(s) ==
  /\ MayAct(s)
  /\ \E a \in Submitted(s) : ApplyAction(s, a)

\* The engine with players who use the client.
ConfirmedNext == StartHand \/ \E s \in Seats : ConfirmedAct(s)

-----------------------------------------------------------------------------
\* Whatever keys are pressed, the engine accepts what the client sends.  The client
\* is a spectator's as soon as it has sent an action (model.go:289), and the engine's
\* error is dropped (phase7/main.go:247): a refused one is a turn nobody is told of.
ConfirmedIsLegal ==
  \A s \in Seats : MayAct(s) =>
    \A a \in Submitted(s) : Accepts(s, a)
=============================================================================
