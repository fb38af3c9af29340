------------------------- MODULE LocalTable_proofs --------------------------
(***************************************************************************)
(* Proofs about the local game's event loop, for any bots and any number   *)
(* of hands, actions and keys: the commands and messages do not multiply,  *)
(* the loop never loses its drive, and no hand is dealt over another one   *)
(* before a key is pressed out of turn.                                    *)
(***************************************************************************)
EXTENDS LocalTable, SumTheorems

-----------------------------------------------------------------------------
(* The messages on their way.                                              *)

LEMMA HandNumbers ==
  /\ IsFiniteSet(Hands) /\ MaxHands \in Nat /\ MaxHands >= 1 /\ MaxActions \in Nat /\ MaxActions >= 1
  /\ \A h \in Hands : h \in Nat /\ 1 <= h /\ h <= MaxHands
  /\ \A k \in Nat : 1 <= k /\ k <= MaxHands => k \in Hands
  /\ MaxKeys \in Nat /\ "you" \in Players
BY LocalAssumption, FS_Interval DEF Hands, Players

\* Messages are counted right when one is posted or handled.
LEMMA MessageCount ==
  ASSUME NEW f \in [Hands -> Nat], NEW h \in Hands, NEW v \in Nat
  PROVE  /\ SumFunction([f EXCEPT ![h] = v]) = SumFunction(f) - f[h] + v
         /\ SumFunction(f) \in Nat
         /\ \A x \in Hands : f[x] \in Nat /\ f[x] <= SumFunction(f)
<1>1. f \in [Hands -> Int] /\ v \in Int
  OBVIOUS
<1>2. SumFunction([f EXCEPT ![h] = v]) = SumFunction(f) - f[h] + v
  BY <1>1, HandNumbers, SumChangeOne
<1>3. SumFunction(f) \in Nat /\ \A x \in Hands : f[x] <= SumFunction(f)
  BY HandNumbers, SumOfNaturals
<1>4. QED BY <1>2, <1>3

Ask(m) == IF m = "Betting" THEN 1 ELSE 0

-----------------------------------------------------------------------------
(* The inductive invariant.  Messages are only about hands that have been  *)
(* dealt; while no hand was dropped something is on its way that will post *)
(* a message, or the player is asked; and as long as no key was pressed    *)
(* out of turn the loop works on the hand that is played.                  *)

Shape ==
  /\ hand \in Hands /\ shown \in Hands
  /\ turn \in [Hands -> Players]
  /\ settled \subseteq Hands
  /\ actions \in 0..MaxActions
  /\ mode \in Modes
  /\ botTicks \in Nat /\ nextTicks \in Nat /\ syncs \in Nat
  /\ states \in [Hands -> Nat]
  /\ keys \in 0..MaxKeys

Counted ==
  /\ hand \notin settled => actions < MaxActions
  /\ Pending + Ask(mode) <= 1 + keys

DealtOnly == shown <= hand /\ \A h \in Hands : states[h] > 0 => h <= hand

Driven ==
  \/ Dropped
  \/ nextTicks > 0 \/ syncs > 0 \/ SumFunction(states) > 0
  \/ Asking /\ shown = hand /\ hand \notin settled /\ turn[hand] = "you"
  \/ botTicks > 0 /\ turn[shown] # "you"

OneHandAtATime ==
  keys = 0 =>
    /\ ~Dropped
    /\ shown = hand
    /\ nextTicks > 0 => hand \in settled
    /\ \A h \in Hands : states[h] > 0 => h = hand

LoopInv == Shape /\ Counted /\ DealtOnly /\ Driven /\ OneHandAtATime

LEMMA InitLoopInv == Init => LoopInv
<1> SUFFICES ASSUME Init PROVE LoopInv
  OBVIOUS
<1>1. 1 \in Hands /\ \A h \in Hands : h \in Nat
  BY HandNumbers
<1> DEFINE f == [h \in Hands |-> 0]
<1>2. states = [f EXCEPT ![1] = 1] /\ f \in [Hands -> Nat] /\ f[1] = 0
  BY <1>1 DEF Init
<1>3. SumFunction(f) = 0
  <2>1. f \in [Hands -> Int] /\ \A h \in Hands : f[h] = 0
    OBVIOUS
  <2> HIDE DEF f
  <2>2. SumFunctionOnSet(f, Hands) = 0
    BY <2>1, HandNumbers, SumZeros
  <2>3. QED BY <2>1, <2>2 DEF SumFunction
<1> HIDE DEF f
<1>4. SumFunction(states) = 1
  <2>1. f \in [Hands -> Nat] /\ 1 \in Hands /\ 1 \in Nat
    BY <1>1, <1>2
  <2>2. SumFunction([f EXCEPT ![1] = 1]) = SumFunction(f) - f[1] + 1
    BY <2>1, MessageCount
  <2>3. QED BY <1>2, <1>3, <2>2
<1>5. states \in [Hands -> Nat] /\ \A h \in Hands : states[h] > 0 => h = 1
  BY <1>1 DEF Init
<1>6. hand = 1 /\ shown = 1 /\ settled = {} /\ actions = 0 /\ mode = "Lobby" /\ botTicks = 0
      /\ nextTicks = 0 /\ syncs = 0 /\ keys = 0 /\ turn \in [Hands -> Players]
  BY DEF Init
<1>7. ~Dropped
  BY <1>6 DEF Dropped
<1>8. Shape
  BY <1>1, <1>5, <1>6, HandNumbers DEF Shape, Modes
<1>9. Counted
  BY <1>4, <1>6, HandNumbers DEF Counted, Pending, Ask
<1>10. QED BY <1>1, <1>4, <1>5, <1>6, <1>7, <1>8, <1>9
         DEF LoopInv, DealtOnly, Driven, OneHandAtATime

\* What an action in the engine changes, refused or not.
LEMMA EngineStep ==
  ASSUME LoopInv, NEW p, ApplyAction(p) \/ UNCHANGED engine
  PROVE  /\ hand' = hand /\ turn' \in [Hands -> Players]
         /\ settled \subseteq settled' /\ settled' \subseteq settled \cup {hand}
         /\ settled' \subseteq Hands /\ actions' \in 0..MaxActions
         /\ hand \notin settled' => actions' < MaxActions
         /\ Dropped' <=> Dropped
<1>1. Shape /\ Counted
  BY DEF LoopInv
<1>2. CASE UNCHANGED engine
  BY <1>1, <1>2 DEF engine, Shape, Counted, Dropped
<1>3. CASE hand \notin settled /\ Played
  <2>1. /\ actions' = actions + 1 /\ hand' = hand
        /\ turn' \in {[turn EXCEPT ![hand] = q] : q \in Players}
        /\ \/ settled' = settled \cup {hand}
           \/ actions' < MaxActions /\ settled' = settled
    BY <1>3 DEF Played
  <2>2. actions' \in 0..MaxActions
    BY <1>1, <1>3, <2>1, HandNumbers DEF Shape, Counted
  <2>3. turn' \in [Hands -> Players]
    BY <1>1, <2>1 DEF Shape
  <2>4. settled \subseteq settled' /\ settled' \subseteq settled \cup {hand} /\ settled' \subseteq Hands
    BY <1>1, <2>1 DEF Shape
  <2>5. hand \notin settled' => actions' < MaxActions
    BY <2>1
  <2>6. Dropped' <=> Dropped
    <3>1. \A h \in 1..(hand - 1) : h # hand
      BY <1>1, HandNumbers DEF Shape
    <3>2. QED BY <2>1, <2>4, <3>1 DEF Dropped
  <2>7. QED BY <2>1, <2>2, <2>3, <2>4, <2>5, <2>6
<1>4. QED BY <1>2, <1>3 DEF ApplyAction

\* What posting a message does.
LEMMA Posted ==
  ASSUME Shape, NEW h \in Hands, Post(h)
  PROVE  /\ states' \in [Hands -> Nat]
         /\ SumFunction(states') = SumFunction(states) + 1
         /\ SumFunction(states) \in Nat /\ SumFunction(states') > 0
         /\ \A x \in Hands : states'[x] > 0 => x = h \/ states[x] > 0
<1>1. states \in [Hands -> Nat] /\ states[h] \in Nat
  BY DEF Shape
<1>2. states' = [states EXCEPT ![h] = states[h] + 1]
  BY DEF Post
<1>3. /\ SumFunction([states EXCEPT ![h] = states[h] + 1]) = SumFunction(states) - states[h] + (states[h] + 1)
      /\ SumFunction(states) \in Nat
  <2>1. states[h] + 1 \in Nat
    BY <1>1
  <2>2. QED BY <1>1, <2>1, MessageCount
<1>4. QED BY <1>1, <1>2, <1>3

LEMMA SumIsNatural ==
  ASSUME Shape
  PROVE  SumFunction(states) \in Nat /\ \A h \in Hands : states[h] <= SumFunction(states)
<1>1. states \in [Hands -> Nat]
  BY DEF Shape
<1>2. QED BY <1>1, HandNumbers, SumOfNaturals

-----------------------------------------------------------------------------
(* Each step keeps the invariant.                                          *)

LEMMA BotTickInv ==
  ASSUME LoopInv, BotTick
  PROVE  LoopInv'
<1>1. Shape /\ Counted /\ DealtOnly /\ Driven /\ OneHandAtATime
  BY DEF LoopInv
<1>2. /\ botTicks > 0 /\ botTicks' = botTicks - 1
      /\ UNCHANGED <<shown, mode, nextTicks, syncs, keys>>
  BY DEF BotTick
<1>3. SumFunction(states) \in Nat
  BY <1>1, SumIsNatural
<1>4. CASE turn[shown] = "you"
  <2>1. UNCHANGED engine /\ states' = states
    BY <1>4 DEF BotTick
  <2>2. UNCHANGED <<hand, turn, settled, actions>>
    BY <2>1 DEF engine
  <2>3. Shape'
    BY <1>1, <1>2, <2>1, <2>2 DEF Shape
  <2>4. Counted'
    BY <1>1, <1>2, <1>3, <2>1, <2>2 DEF Shape, Counted, Pending, Ask
  <2>5. DealtOnly' /\ OneHandAtATime'
    BY <1>1, <1>2, <2>1, <2>2 DEF DealtOnly, OneHandAtATime, Dropped
  <2>6. Driven'
    BY <1>1, <1>2, <1>4, <2>1, <2>2 DEF Driven, Dropped, Asking
  <2>7. QED BY <2>3, <2>4, <2>5, <2>6 DEF LoopInv
<1>5. CASE turn[shown] # "you"
  <2>1. /\ Post(shown)
        /\ ApplyAction(turn[shown]) \/ UNCHANGED engine
    BY <1>5 DEF BotTick
  <2>2. /\ hand' = hand /\ turn' \in [Hands -> Players]
        /\ settled \subseteq settled' /\ settled' \subseteq Hands /\ actions' \in 0..MaxActions
        /\ hand \notin settled' => actions' < MaxActions
        /\ Dropped' <=> Dropped
    BY <2>1, EngineStep
  <2>3. /\ states' \in [Hands -> Nat]
        /\ SumFunction(states') = SumFunction(states) + 1
        /\ SumFunction(states') > 0
        /\ \A x \in Hands : states'[x] > 0 => x = shown \/ states[x] > 0
    BY <1>1, <2>1, Posted DEF Shape
  <2>4. Shape'
    BY <1>1, <1>2, <2>2, <2>3 DEF Shape
  <2>5. Counted'
    BY <1>1, <1>2, <1>3, <2>2, <2>3 DEF Shape, Counted, Pending, Ask
  <2>6. shown <= hand
    BY <1>1 DEF DealtOnly
  <2>7. DealtOnly' /\ OneHandAtATime'
    BY <1>1, <1>2, <2>2, <2>3, <2>6 DEF DealtOnly, OneHandAtATime
  <2>8. Driven'
    BY <2>3 DEF Driven
  <2>9. QED BY <2>4, <2>5, <2>7, <2>8 DEF LoopInv
<1>6. QED BY <1>4, <1>5

LEMMA NextTickInv ==
  ASSUME LoopInv, NextTick
  PROVE  LoopInv'
<1>1. Shape /\ Counted /\ DealtOnly /\ Driven /\ OneHandAtATime
  BY DEF LoopInv
<1>2. /\ nextTicks > 0 /\ hand < MaxHands /\ nextTicks' = nextTicks - 1
      /\ hand' = hand + 1 /\ actions' = 0 /\ shown' = hand + 1
      /\ Post(hand + 1)
      /\ UNCHANGED <<turn, settled, mode, botTicks, syncs, keys>>
  BY DEF NextTick
<1>3. SumFunction(states) \in Nat /\ hand \in Nat
  BY <1>1, SumIsNatural, HandNumbers DEF Shape
<1>4. hand + 1 \in Hands
  BY <1>1, <1>2, HandNumbers DEF Shape
<1>5. /\ states' \in [Hands -> Nat]
      /\ SumFunction(states') = SumFunction(states) + 1
      /\ SumFunction(states') > 0
      /\ \A x \in Hands : states'[x] > 0 => x = hand + 1 \/ states[x] > 0
  BY <1>1, <1>2, <1>4, Posted
<1>6. Shape'
  BY <1>1, <1>2, <1>4, <1>5, HandNumbers DEF Shape
<1>7. Counted'
  BY <1>1, <1>2, <1>3, <1>5, HandNumbers DEF Shape, Counted, Pending, Ask
<1>8. DealtOnly'
  BY <1>1, <1>2, <1>3, <1>5, HandNumbers DEF DealtOnly
<1>9. OneHandAtATime'
  <2> SUFFICES ASSUME keys = 0
               PROVE  /\ ~Dropped' /\ nextTicks' = 0
                      /\ \A h \in Hands : states'[h] > 0 => h = hand + 1
    BY <1>2 DEF OneHandAtATime
  <2>1. ~Dropped /\ hand \in settled
    BY <1>1, <1>2 DEF OneHandAtATime
  <2>2. ~Dropped'
    BY <1>2, <1>3, <2>1 DEF Dropped
  <2>3. Ask(mode) \in Nat
    BY DEF Ask
  <2>4. nextTicks = 1 /\ SumFunction(states) = 0
    BY <1>1, <1>2, <1>3, <2>3 DEF Shape, Counted, Pending
  <2>5. \A h \in Hands : ~(states[h] > 0)
    BY <1>1, <2>4, SumIsNatural DEF Shape
  <2>6. QED BY <1>2, <1>5, <2>2, <2>4, <2>5
<1>10. Driven'
  BY <1>5 DEF Driven
<1>11. QED BY <1>6, <1>7, <1>8, <1>9, <1>10 DEF LoopInv

LEMMA SyncInv ==
  ASSUME LoopInv, Sync
  PROVE  LoopInv'
<1>1. Shape /\ Counted /\ DealtOnly /\ Driven /\ OneHandAtATime
  BY DEF LoopInv
<1>2. /\ syncs > 0 /\ syncs' = syncs - 1 /\ Post(shown)
      /\ UNCHANGED <<hand, turn, settled, actions, shown, mode, botTicks, nextTicks, keys>>
  BY DEF Sync, engine
<1>3. SumFunction(states) \in Nat
  BY <1>1, SumIsNatural
<1>4. /\ states' \in [Hands -> Nat]
      /\ SumFunction(states') = SumFunction(states) + 1
      /\ SumFunction(states') > 0
      /\ \A x \in Hands : states'[x] > 0 => x = shown \/ states[x] > 0
  BY <1>1, <1>2, Posted DEF Shape
<1>5. Shape'
  BY <1>1, <1>2, <1>4 DEF Shape
<1>6. Counted'
  BY <1>1, <1>2, <1>3, <1>4 DEF Shape, Counted, Pending, Ask
<1>7. DealtOnly' /\ OneHandAtATime'
  BY <1>1, <1>2, <1>4 DEF DealtOnly, OneHandAtATime, Dropped
<1>8. Driven'
  BY <1>4 DEF Driven
<1>9. QED BY <1>5, <1>6, <1>7, <1>8 DEF LoopInv

LEMMA OnGameStateInv ==
  ASSUME LoopInv, NEW h \in Hands, OnGameState(h)
  PROVE  LoopInv'
<1>1. Shape /\ Counted /\ DealtOnly /\ Driven /\ OneHandAtATime
  BY DEF LoopInv
<1>2. /\ states[h] > 0 /\ states' = [states EXCEPT ![h] = @ - 1]
      /\ shown' = h /\ mode' = ModeFor(h)
      /\ nextTicks' = nextTicks + (IF mode' = "Showdown" THEN 1 ELSE 0)
      /\ botTicks' = botTicks + (IF mode' = "Spectate" THEN 1 ELSE 0)
      /\ UNCHANGED <<hand, turn, settled, actions, syncs, keys>>
  BY DEF OnGameState, engine
<1>3. \/ mode' = "Showdown" /\ h \in settled
      \/ mode' = "Betting" /\ h \notin settled /\ turn[h] = "you"
      \/ mode' = "Spectate" /\ h \notin settled /\ turn[h] # "you"
  BY <1>2 DEF ModeFor
<1>4. /\ states' \in [Hands -> Nat] /\ SumFunction(states) \in Nat
      /\ SumFunction(states') = SumFunction(states) - 1
      /\ \A x \in Hands : states'[x] > 0 => states[x] > 0
  <2>1. states \in [Hands -> Nat] /\ states[h] \in Nat /\ states[h] > 0
    BY <1>1, <1>2 DEF Shape
  <2>2. states' = [states EXCEPT ![h] = states[h] - 1] /\ states[h] - 1 \in Nat
    BY <1>2, <2>1
  <2>3. SumFunction([states EXCEPT ![h] = states[h] - 1]) = SumFunction(states) - states[h] + (states[h] - 1)
    BY <2>1, <2>2, MessageCount
  <2>4. SumFunction(states) \in Nat
    BY <1>1, SumIsNatural
  <2>5. QED BY <2>1, <2>2, <2>3, <2>4
<1>5. Shape'
  <2>1. nextTicks' \in Nat /\ botTicks' \in Nat /\ mode' \in Modes
    BY <1>1, <1>2, <1>3 DEF Shape, Modes
  <2>2. QED BY <1>1, <1>2, <1>4, <2>1 DEF Shape
<1>6. Counted'
  <2>1. (nextTicks' + botTicks') + Ask(mode') = (nextTicks + botTicks) + 1
    BY <1>1, <1>2, <1>3 DEF Shape, Ask
  <2>2. Ask(mode) \in Nat /\ Ask(mode') \in Nat
    BY DEF Ask
  <2>3. /\ nextTicks \in Nat /\ botTicks \in Nat /\ syncs \in Nat /\ keys \in Nat
        /\ nextTicks' \in Nat /\ botTicks' \in Nat
    BY <1>1, <1>5 DEF Shape
  <2>4. botTicks + nextTicks + syncs + SumFunction(states) + Ask(mode) <= 1 + keys
    BY <1>1 DEF Counted, Pending
  <2>5. botTicks' + nextTicks' + syncs + (SumFunction(states) - 1) + Ask(mode') <= 1 + keys
    BY <1>4, <2>1, <2>2, <2>3, <2>4
  <2>6. Pending' + Ask(mode') <= 1 + keys'
    BY <1>2, <1>4, <2>5 DEF Pending
  <2>7. QED BY <1>1, <1>2, <2>6 DEF Counted
<1>7. DealtOnly'
  BY <1>1, <1>2, <1>4 DEF DealtOnly
<1>8. OneHandAtATime'
  <2> SUFFICES ASSUME keys = 0 PROVE OneHandAtATime'
    BY <1>2 DEF OneHandAtATime
  <2>1. h = hand /\ ~Dropped /\ (nextTicks > 0 => hand \in settled)
    BY <1>1, <1>2 DEF OneHandAtATime
  <2>2. nextTicks' > 0 => hand \in settled
    BY <1>1, <1>2, <1>3, <2>1 DEF Shape
  <2>3. ~Dropped'
    BY <1>2, <2>1 DEF Dropped
  <2>4. \A x \in Hands : states'[x] > 0 => x = hand
    BY <1>1, <1>4 DEF OneHandAtATime
  <2>5. QED BY <1>2, <2>1, <2>2, <2>3, <2>4 DEF OneHandAtATime
<1>9. Driven'
  <2>1. CASE mode' = "Showdown"
    BY <1>1, <1>2, <2>1 DEF Driven, Shape
  <2>2. CASE mode' = "Spectate" /\ turn[h] # "you"
    BY <1>1, <1>2, <2>2 DEF Driven, Shape
  <2>3. CASE mode' = "Betting" /\ h \notin settled /\ turn[h] = "you"
    <3>1. h <= hand /\ h \in Nat /\ hand \in Nat /\ 1 <= h
      BY <1>1, <1>2, HandNumbers DEF DealtOnly, Shape
    <3>2. CASE h = hand
      BY <1>2, <2>3, <3>2 DEF Driven, Asking
    <3>3. CASE h # hand
      <4>1. h \in 1..(hand - 1)
        BY <3>1, <3>3
      <4>2. Dropped'
        BY <1>2, <2>3, <4>1 DEF Dropped
      <4>3. QED BY <4>2 DEF Driven
    <3>4. QED BY <3>2, <3>3
  <2>4. QED BY <1>3, <2>1, <2>2, <2>3
<1>10. QED BY <1>5, <1>6, <1>7, <1>8, <1>9 DEF LoopInv

LEMMA SubmitActionInv ==
  ASSUME LoopInv, SubmitAction
  PROVE  LoopInv'
<1>1. Shape /\ Counted /\ DealtOnly /\ Driven /\ OneHandAtATime
  BY DEF LoopInv
<1>2. /\ mode = "Betting" /\ mode' = "Spectate" /\ syncs' = syncs + 1
      /\ ApplyAction("you") \/ UNCHANGED engine
      /\ UNCHANGED <<shown, botTicks, nextTicks, states, keys>>
  BY DEF SubmitAction
<1>3. /\ hand' = hand /\ turn' \in [Hands -> Players]
      /\ settled \subseteq settled' /\ settled' \subseteq Hands /\ actions' \in 0..MaxActions
      /\ hand \notin settled' => actions' < MaxActions
      /\ Dropped' <=> Dropped
  BY <1>2, EngineStep
<1>4. SumFunction(states) \in Nat
  BY <1>1, SumIsNatural
<1>5. Shape'
  BY <1>1, <1>2, <1>3 DEF Shape, Modes
<1>6. Counted'
  BY <1>1, <1>2, <1>3, <1>4 DEF Shape, Counted, Pending, Ask
<1>7. DealtOnly' /\ OneHandAtATime'
  BY <1>1, <1>2, <1>3 DEF DealtOnly, OneHandAtATime
<1>8. Driven'
  BY <1>1, <1>2 DEF Driven, Shape
<1>9. QED BY <1>5, <1>6, <1>7, <1>8 DEF LoopInv

LEMMA PressKeyInv ==
  ASSUME LoopInv, PressKey
  PROVE  LoopInv'
<1>1. Shape /\ Counted /\ DealtOnly /\ Driven /\ OneHandAtATime
  BY DEF LoopInv
<1>2. /\ mode = "Spectate" /\ mode' = mode /\ shown' = shown /\ keys < MaxKeys
      /\ keys' = keys + 1 /\ syncs' = syncs + 1
      /\ UNCHANGED <<hand, turn, settled, actions, botTicks, nextTicks, states>>
  BY DEF PressKey, HandleKey, engine
<1>3. SumFunction(states) \in Nat
  BY <1>1, SumIsNatural
<1>4. Shape'
  BY <1>1, <1>2, HandNumbers DEF Shape
<1>5. Counted'
  BY <1>1, <1>2, <1>3 DEF Shape, Counted, Pending, Ask
<1>6. DealtOnly' /\ OneHandAtATime'
  BY <1>1, <1>2 DEF DealtOnly, OneHandAtATime, Shape
<1>7. Driven'
  BY <1>1, <1>2 DEF Driven, Shape
<1>8. QED BY <1>4, <1>5, <1>6, <1>7 DEF LoopInv

LEMMA NextLoopInv == LoopInv /\ [Next]_vars => LoopInv'
<1> SUFFICES ASSUME LoopInv, [Next]_vars PROVE LoopInv'
  OBVIOUS
<1>1. CASE UNCHANGED vars
  BY <1>1 DEF LoopInv, Shape, Counted, DealtOnly, Driven, OneHandAtATime, Dropped, Pending, Asking, vars
<1>2. QED BY <1>1, BotTickInv, NextTickInv, SyncInv, SubmitActionInv, PressKeyInv, OnGameStateInv
        DEF Next

\* Every reachable state of the event loop satisfies LoopInv.
THEOREM LoopCorrect == Spec => []LoopInv
<1>1. QED BY InitLoopInv, NextLoopInv, PTL DEF Spec

\* Commands and messages do not multiply: each key pressed out of turn starts one more
\* chain of them at most (Update and the commands it returns, phase7/main.go).
THEOREM ChainsDoNotMultiply == Spec => []TypeOK
<1>1. LoopInv => TypeOK
  <2> SUFFICES ASSUME LoopInv PROVE TypeOK
    OBVIOUS
  <2>1. Shape /\ Counted
    BY DEF LoopInv
  <2>2. SumFunction(states) \in Nat /\ \A h \in Hands : states[h] <= SumFunction(states)
    BY <2>1, SumIsNatural
  <2>3. (IF Asking THEN 1 ELSE 0) = Ask(mode) /\ Ask(mode) \in Nat
    BY DEF Asking, Ask
  <2>4. /\ Pending + Ask(mode) \in 0..(1 + keys) /\ SumFunction(states) <= 1 + keys
        /\ botTicks \in 0..(1 + keys) /\ nextTicks \in 0..(1 + keys) /\ syncs \in 0..(1 + keys)
    BY <2>1, <2>2, <2>3 DEF Shape, Counted, Pending
  <2>5. \A h \in Hands : states[h] \in 0..(1 + keys)
    BY <2>1, <2>2, <2>4 DEF Shape
  <2>6. states \in [Hands -> 0..(1 + keys)]
    BY <2>1, <2>5 DEF Shape
  <2>7. QED BY <2>1, <2>3, <2>4, <2>6 DEF Shape, TypeOK
<1>2. QED BY <1>1, LoopCorrect, PTL

\* The loop never loses its drive, whatever order the timers and the messages come in
\* (botActionCmd posts a state even when it may not move).
THEOREM LoopIsDriven == Spec => []SomebodyDrives
<1>1. LoopInv => SomebodyDrives
  <2> SUFFICES ASSUME LoopInv PROVE SomebodyDrives
    OBVIOUS
  <2>1. Shape /\ Driven
    BY DEF LoopInv
  <2>2. SumFunction(states) \in Nat
    BY <2>1, SumIsNatural
  <2>3. nextTicks > 0 \/ syncs > 0 \/ SumFunction(states) > 0 \/ botTicks > 0 => Pending > 0
    BY <2>1, <2>2 DEF Shape, Pending
  <2>4. QED BY <2>1, <2>3 DEF Driven, SomebodyDrives
<1>2. QED BY <1>1, LoopCorrect, PTL

\* No hand is dealt over another that is being played, as long as no key is pressed out of
\* turn (nextHandCmd and the two Update functions).
THEOREM HandsArePlayedOut == Spec => []PlayedOutUntilAKey
<1>1. LoopInv => PlayedOutUntilAKey
  BY DEF LoopInv, Shape, OneHandAtATime, PlayedOutUntilAKey
<1>2. QED BY <1>1, LoopCorrect, PTL
=============================================================================
