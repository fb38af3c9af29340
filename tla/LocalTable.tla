----------------------------- MODULE LocalTable -----------------------------
(***************************************************************************)
(* The local game of phase7/main.go: the bubbletea event loop that wraps   *)
(* the terminal client (phase4/model.go), moves the bots and deals hand    *)
(* after hand.  Commands run in goroutines: a bot moves 600 ms, the next   *)
(* hand is dealt 1.5 s after the message that asks for it, and what they   *)
(* post reaches the loop in any order.  A GameStateMsg holds a pointer to  *)
(* the GameState of one hand, and hands share the players.                 *)
(*                                                                         *)
(* The engine is PokerHand; here a hand is whose turn it is and whether it *)
(* is settled, and an action passes the turn to anybody or settles it.     *)
(***************************************************************************)
EXTENDS Integers, Functions

CONSTANTS
  Bots,            \* the seats that botActionCmd plays
  MaxHands,        \* bound: hands that are dealt
  MaxActions,      \* bound: actions in one hand
  MaxKeys          \* bound: keys pressed when it is not our turn

ASSUME LocalAssumption ==
  /\ Bots # {} /\ "you" \notin Bots
  /\ MaxHands \in Nat \ {0} /\ MaxActions \in Nat \ {0}
  /\ MaxKeys \in Nat

VARIABLES
  hand,      \* the hand gm.machine plays, gm.handNum
  turn,      \* turn[h]: CurrentPlayer of the GameState of hand h
  settled,   \* the hands that are settled
  actions,   \* actions taken in the current hand
  shown,     \* gm.gs: the hand whose GameState the loop works on
  mode,      \* ui.Mode
  botTicks,  \* botActionCmd timers running
  nextTicks, \* nextHandCmd timers running
  syncs,     \* state syncs that key presses have asked for
  states,    \* states[h]: GameStateMsg about hand h on their way to the loop
  keys       \* keys pressed when it was not our turn

vars == <<hand, turn, settled, actions, shown, mode, botTicks, nextTicks, syncs, states, keys>>
engine == <<hand, turn, settled, actions>>

Players == Bots \cup {"you"}
Hands   == 1..MaxHands
Modes   == {"Spectate", "Betting", "Showdown", "Lobby"}

\* StartHand has run and its GameStateMsg is on its way.
Init ==
  /\ hand = 1
  /\ turn \in [Hands -> Players]
  /\ settled = {}
  /\ actions = 0
  /\ shown = 1
  /\ mode = "Lobby"
  /\ botTicks = 0 /\ nextTicks = 0 /\ syncs = 0
  /\ states = [h \in Hands |-> IF h = 1 THEN 1 ELSE 0]
  /\ keys = 0

-----------------------------------------------------------------------------
(* The engine, as the driver sees it.                                      *)

\* ApplyAction takes the action: the hand settles or the turn goes to anybody,
\* to the same player again when a new round begins.
Played ==
  /\ actions' = actions + 1
  /\ turn' \in {[turn EXCEPT ![hand] = p] : p \in Players}
  /\ \/ settled' = settled \cup {hand}
     \/ actions' < MaxActions /\ UNCHANGED settled
  /\ UNCHANGED hand

\* ApplyAction returns an error, dropped by its callers, when the hand is settled
\* or it is not p's turn.
ApplyAction(p) ==
  IF hand \notin settled /\ turn[hand] = p THEN Played ELSE UNCHANGED engine

Post(h) == states' = [states EXCEPT ![h] = @ + 1]

-----------------------------------------------------------------------------
(* The timers and commands.                                                *)

\* botActionCmd: call or check for whoever's turn it is when the timer fires, and
\* post the state whether that worked or not.  A bot's action on the hand shown
\* while another one is played may be illegal there.
BotTick ==
  /\ botTicks > 0
  /\ botTicks' = botTicks - 1
  /\ IF turn[shown] = "you"
     THEN UNCHANGED <<engine, states>>
     ELSE /\ Post(shown)
          /\ ApplyAction(turn[shown]) \/ (shown # hand /\ UNCHANGED engine)
  /\ UNCHANGED <<shown, mode, nextTicks, syncs, keys>>

\* nextHandCmd: a new GameState and a new Machine, whatever the old one was doing.
NextTick ==
  /\ nextTicks > 0 /\ hand < MaxHands
  /\ nextTicks' = nextTicks - 1
  /\ hand' = hand + 1
  /\ actions' = 0
  /\ shown' = hand + 1
  /\ Post(hand + 1)
  /\ UNCHANGED <<turn, settled, mode, botTicks, syncs, keys>>

\* The command that Update returns after a key: post gm.gs as it is by then.
Sync ==
  /\ syncs > 0
  /\ syncs' = syncs - 1
  /\ Post(shown)
  /\ UNCHANGED <<engine, shown, mode, botTicks, nextTicks, keys>>

-----------------------------------------------------------------------------
(* The event loop.                                                         *)

\* Model.Update, GameStateMsg: what the client shows.
ModeFor(h) ==
  IF h \in settled THEN "Showdown" ELSE IF turn[h] = "you" THEN "Betting" ELSE "Spectate"

\* Mutant: a settled hand does not ask for the next one.
OnGameState_NoNextHand(h) ==
  /\ states[h] > 0
  /\ states' = [states EXCEPT ![h] = @ - 1]
  /\ shown' = h
  /\ mode' = ModeFor(h)
  /\ botTicks' = botTicks + (IF mode' = "Spectate" THEN 1 ELSE 0)
  /\ UNCHANGED <<engine, nextTicks, syncs, keys>>

\* Mutant: both Update functions ask for the next hand.
OnGameState_NextTwice(h) ==
  /\ states[h] > 0
  /\ states' = [states EXCEPT ![h] = @ - 1]
  /\ shown' = h
  /\ mode' = ModeFor(h)
  /\ nextTicks' = nextTicks + (IF mode' = "Showdown" THEN 2 ELSE 0)
  /\ botTicks' = botTicks + (IF mode' = "Spectate" THEN 1 ELSE 0)
  /\ UNCHANGED <<engine, syncs, keys>>

\* Update, GameStateMsg: gm.gs is the message's state, the client follows it, and
\* a settled hand asks for the next one, a bot's turn for its move.
OnGameState(h) ==
  /\ states[h] > 0
  /\ states' = [states EXCEPT ![h] = @ - 1]
  /\ shown' = h
  /\ mode' = ModeFor(h)
  /\ nextTicks' = nextTicks + (IF mode' = "Showdown" THEN 1 ELSE 0)
  /\ botTicks' = botTicks + (IF mode' = "Spectate" THEN 1 ELSE 0)
  /\ UNCHANGED <<engine, syncs, keys>>

\* Mutant: no state is posted after the action.
SubmitAction_NoSync ==
  /\ mode = "Betting"
  /\ mode' = "Spectate"
  /\ ApplyAction("you") \/ UNCHANGED engine
  /\ UNCHANGED <<shown, botTicks, nextTicks, syncs, states, keys>>

\* submitAction: the action goes to the machine, which may refuse it, and the
\* mode is Spectate in any case, so a sync follows.
SubmitAction ==
  /\ mode = "Betting"
  /\ mode' = "Spectate"
  /\ ApplyAction("you") \/ UNCHANGED engine
  /\ syncs' = syncs + 1
  /\ UNCHANGED <<shown, botTicks, nextTicks, states, keys>>

\* handleKey out of turn: the log may scroll, and the mode stays.
HandleKey == UNCHANGED <<mode, shown>>

\* Any key while watching, scrolling the log for one, asks for a sync too.
PressKey ==
  /\ mode = "Spectate" /\ keys < MaxKeys
  /\ HandleKey
  /\ keys' = keys + 1
  /\ syncs' = syncs + 1
  /\ UNCHANGED <<engine, botTicks, nextTicks, states>>

Next ==
  \/ BotTick
  \/ NextTick
  \/ Sync
  \/ SubmitAction
  \/ PressKey
  \/ \E h \in Hands : OnGameState(h)

Spec == Init /\ [][Next]_vars

\* Timers fire, messages are handled and the player moves when asked; what the
\* player enters is not refused for ever.
Fairness ==
  /\ WF_vars(BotTick)
  /\ WF_vars(NextTick)
  /\ WF_vars(Sync)
  /\ \A h \in Hands : WF_vars(OnGameState(h))
  /\ WF_vars(SubmitAction)
  /\ SF_vars(SubmitAction /\ actions' # actions)

FairSpec == Spec /\ Fairness
-----------------------------------------------------------------------------
(* Properties.                                                             *)

Pending == botTicks + nextTicks + syncs + SumFunction(states)

Asking == mode = "Betting"

\* Every variable has its type, and each key pressed out of turn starts one more
\* chain of commands and messages at most: they do not multiply.
TypeOK ==
  /\ hand \in Hands /\ shown \in Hands
  /\ turn \in [Hands -> Players]
  /\ settled \subseteq Hands
  /\ actions \in 0..MaxActions
  /\ mode \in Modes
  /\ {botTicks, nextTicks, syncs} \subseteq 0..(1 + keys)
  /\ states \in [Hands -> 0..(1 + keys)]
  /\ Pending + (IF Asking THEN 1 ELSE 0) \in 0..(1 + keys)
  /\ keys \in 0..MaxKeys

\* A hand was dealt over another one that was being played.
Dropped == \E h \in 1..(hand - 1) : h \notin settled

\* No hand is dropped as long as no key is pressed out of turn: the two Update
\* functions, the timers and the bots between them ask for the next hand once.
PlayedOutUntilAKey == Dropped => keys > 0

\* The loop never loses its drive: a timer, a command or a message is on its way,
\* or the client asks the player for an action in the hand that is played and it
\* is the player's turn.  After a hand was dropped its messages may come last, and
\* the client asks about a hand that nobody plays any more.
SomebodyDrives ==
  Dropped \/ Pending > 0
    \/ (Asking /\ shown = hand /\ hand \notin settled /\ turn[hand] = "you")

\* Hand after hand is dealt, unless one is dropped: the game comes to a next hand
\* whoever's turn it is, whatever keys are pressed and in whatever order timers fire.
TableGoesOn == <>(Dropped \/ hand = MaxHands)
=============================================================================
