------------------------------ MODULE TableNet -------------------------------
(***************************************************************************)
(* The nodes of a table (phase3/node.go, gossip.go): what they broadcast   *)
(* on the table's topic and send over direct streams, and what a receiving *)
(* node makes of it: the replay check, the log of the hand, the lobby, the *)
(* handlers of the game.  Gossip is a set of envelopes that never shrinks: *)
(* an envelope reaches a node late, after later ones, twice, or not at     *)
(* all.  A node that restarts has the same identity and no memory.         *)
(***************************************************************************)
EXTENDS GameLog, Lobby

CONSTANTS
  Senders,     \* peers whose messages are modelled
  Receivers,   \* peers whose receive loops are modelled
  MaxSeq,      \* bound: MaxSeq[p], how many numbers p takes in one life
  MaxHands,    \* bound: hands a receiver plays
  MaxRestarts  \* bound: restarts of all the nodes together

ASSUME NetAssumption ==
  /\ IsFiniteSet(Senders) /\ IsFiniteSet(Receivers)
  /\ MaxSeq \in [Senders -> Nat] /\ MaxHands \in Nat /\ MaxRestarts \in Nat

VARIABLES
  seq,       \* seq[p]: the last number p has taken
  life,      \* life[p]: how often p has restarted
  published, \* the envelopes on the table's topic
  direct,    \* the envelopes on direct streams, with whom they go to
  seen,      \* seen[n][p]: seqNums of n's GossipManager, 0 when p is not there
  log,       \* log[n]: n's GameLog
  hand,      \* hand[n]: the hand of that log
  lobby,     \* lobby[n]: n's Lobby
  acted      \* acted[n][p]: what n has acted on of p, in which hand and life (history)

sendVars    == <<seq, life, published>>
receiveVars == <<seen, log, hand, lobby, acted>>
vars        == <<sendVars, direct, receiveVars>>

Peers == Senders \cup Receivers

\* NewGossipManager: the two topics, and no number seen from anybody.
NewGossipManager == [p \in Peers |-> 0]

Init ==
  /\ seq = [p \in Peers |-> 0]
  /\ life = [p \in Peers |-> 0]
  /\ published = {}
  /\ direct = {}
  /\ seen = [n \in Receivers |-> NewGossipManager]
  /\ log = [n \in Receivers |-> NewGameLog]
  /\ hand = [n \in Receivers |-> 1]
  /\ lobby = [n \in Receivers |-> NewLobby]
  /\ acted = [n \in Receivers |-> [p \in Peers |-> << >>]]
-----------------------------------------------------------------------------
(* Sending.                                                                *)

\* NewEnvelope with the next number.  The payload is the message: its type and
\* what tells it from a message of an earlier life (keys, nonces, actions).
Envelope(p, type) ==
  [from |-> p, seq |-> seq[p] + 1, payload |-> [type |-> type, life |-> life[p]]]

\* nextSeq.
TakeSeq(p) == seq[p] < MaxSeq[p] /\ seq' = [seq EXCEPT ![p] = @ + 1]

Told(p, type) ==
  \E env \in published : env.from = p /\ env.payload = [type |-> type, life |-> life[p]]

\* GossipManager.Publish: to the table's topic.
ToTopic(env) == published' = published \cup {env}

Publish(p, type) ==
  /\ p \in Senders
  /\ TakeSeq(p)
  /\ ToTopic(Envelope(p, type))
  /\ UNCHANGED <<life, direct, receiveVars>>

\* A player announces itself once,
BroadcastJoin(p) == ~Told(p, "Join") /\ Publish(p, "Join")

\* is ready after that,
BroadcastReady(p) == Told(p, "Join") /\ ~Told(p, "Ready") /\ Publish(p, "Ready")

\* and then takes part in the hand: shuffle steps, partial decryptions of
\* community cards, actions, votes, results.
BroadcastAction(p) == Told(p, "Ready") /\ Publish(p, "Action")

\* PublishHeartbeat: to a topic whose messages nobody reads.
PublishHeartbeat == UNCHANGED <<published, direct, receiveVars>>

\* BroadcastHeartbeat takes a number of the same counter.  A publish that fails
\* has taken its number just the same.
BroadcastHeartbeat(p) ==
  /\ p \in Senders
  /\ TakeSeq(p)
  /\ PublishHeartbeat
  /\ UNCHANGED life

\* SendDirect: a stream of its own for each message, so that two of them may
\* overtake each other.
SendDirect(n, env) == direct' = direct \cup {[to |-> n, env |-> env]}

\* Mutant: a message over a stream takes no number.
SendDirectPartialDecrypt_NoNumber(p, n) ==
  /\ p \in Senders \ {n} /\ Told(p, "Ready")
  /\ SendDirect(n, Envelope(p, "Partial"))
  /\ UNCHANGED <<sendVars, receiveVars>>

\* SendDirectPartialDecrypt: a hole card's partial decryption, for n only.
SendDirectPartialDecrypt(p, n) ==
  /\ p \in Senders \ {n} /\ Told(p, "Ready")
  /\ TakeSeq(p)
  /\ SendDirect(n, Envelope(p, "Partial"))
  /\ UNCHANGED <<life, published, receiveVars>>
-----------------------------------------------------------------------------
(* Receiving.                                                              *)

\* CheckAndUpdateSeq.
CheckSeq(n, env) == env.seq > seen[n][env.from]

\* n acts on an envelope; what it has acted on before it restarted is remembered here,
\* not by the node.
Act(n, env) ==
  acted' = [acted EXCEPT ![n][env.from] =
              Append(@, [env |-> env, hand |-> hand[n], life |-> life[n]])]

\* dispatch of an envelope of somebody else that passes the replay check: it is
\* logged, the error of Append ignored, and routed to the lobby or to a handler.
Dispatch(n, env) ==
  /\ env.from # n
  /\ CheckSeq(n, env)
  /\ seen' = [seen EXCEPT ![n][env.from] = env.seq]
  /\ log' = [log EXCEPT ![n] = AppendEntry(@, env)]
  /\ lobby' = [lobby EXCEPT ![n] =
       CASE env.payload.type = "Join"  -> HandleJoin(@, env.from)
         [] env.payload.type = "Ready" -> HandleReady(@, env.from)
         [] OTHER -> @]
  /\ Act(n, env)
  /\ UNCHANGED <<sendVars, direct, hand>>

\* NextTableMessage: any envelope of the topic, again and in any order.
TableMessages == published

receiveLoop(n) == \E env \in TableMessages : Dispatch(n, env)

\* The handler of direct streams: logged without a replay check and handed to
\* OnPartialDecrypt.
OnDirect(n, env) ==
  /\ log' = [log EXCEPT ![n] = AppendEntry(@, env)]
  /\ Act(n, env)
  /\ UNCHANGED <<seen, hand, lobby>>

\* RegisterProtocolHandler: what a stream brings goes to the handler, once.
ReadStream(n) ==
  /\ \E d \in direct : d.to = n /\ direct' = direct \ {d} /\ OnDirect(n, d.env)
  /\ UNCHANGED sendVars

\* Mutant: the replay check starts anew with the hand.
SetHandNum_ForgetsSeqs(n) ==
  /\ WaitReady(lobby[n]) /\ hand[n] < MaxHands
  /\ hand' = [hand EXCEPT ![n] = @ + 1]
  /\ log' = [log EXCEPT ![n] = NewGameLog]
  /\ seen' = [seen EXCEPT ![n] = [p \in Peers |-> 0]]
  /\ UNCHANGED <<sendVars, direct, lobby, acted>>

\* SetHandNum: a new log; the numbers seen stay.
SetHandNum(n) ==
  /\ WaitReady(lobby[n]) /\ hand[n] < MaxHands
  /\ hand' = [hand EXCEPT ![n] = @ + 1]
  /\ log' = [log EXCEPT ![n] = NewGameLog]
  /\ UNCHANGED <<sendVars, direct, seen, lobby, acted>>

\* The game starts when WaitReady returns.
StartPlaying(n) ==
  /\ lobby[n].state = "Ready" /\ WaitReady(lobby[n])
  /\ lobby' = [lobby EXCEPT ![n] = SetPlaying(@)]
  /\ UNCHANGED <<sendVars, direct, seen, log, hand, acted>>

\* A node restarts: the identity is on disk (phase7/config.go), the rest is gone,
\* with the streams that were open to it.
Restart(p) ==
  /\ SumFunction(life) < MaxRestarts
  /\ life' = [life EXCEPT ![p] = @ + 1]
  /\ seq' = [seq EXCEPT ![p] = 0]
  /\ direct' = {d \in direct : d.to # p}
  /\ IF p \in Receivers
     THEN /\ seen' = [seen EXCEPT ![p] = NewGossipManager]
          /\ log' = [log EXCEPT ![p] = NewGameLog]
          /\ hand' = [hand EXCEPT ![p] = 1]
          /\ lobby' = [lobby EXCEPT ![p] = NewLobby]
     ELSE UNCHANGED <<seen, log, hand, lobby>>
  /\ UNCHANGED <<published, acted>>

Next ==
  \/ \E p \in Peers :
       \/ BroadcastJoin(p) \/ BroadcastReady(p)
       \/ BroadcastAction(p) \/ BroadcastHeartbeat(p)
       \/ \E n \in Receivers : SendDirectPartialDecrypt(p, n)
       \/ Restart(p)
  \/ \E n \in Receivers :
       \/ receiveLoop(n) \/ ReadStream(n)
       \/ SetHandNum(n) \/ StartPlaying(n)

Spec == Init /\ [][Next]_vars
-----------------------------------------------------------------------------
(* Properties.                                                             *)

\* What goes to all by gossip: everything but the partial decryptions of hole cards.
Gossiped(env) == env.payload.type # "Partial"

\* As long as a node does not restart it acts on nothing twice, and the numbers of
\* what it acts on of one peer's gossip only rise, across hands and restarts of that
\* peer (gossip.go:28, node.go:115).  Of one life of the peer it is thus acted on in
\* the order in which it was made, and never on two envelopes with one number; of a
\* restarted peer what has a number seen before is lost, whichever came first.
RoutedOnceInOrder ==
  \A n \in Receivers, p \in Peers : \A i, j \in DOMAIN acted[n][p] :
    LET a == acted[n][p][i]
        b == acted[n][p][j]
    IN  i < j /\ a.life = b.life =>
          /\ a.env # b.env
          /\ Gossiped(a.env) /\ Gossiped(b.env) => a.env.seq < b.env.seq

\* What is acted on in the hand that a node is playing now.
ActedNow(n, p) ==
  {a.env : a \in {b \in ToSet(acted[n][p]) : b.hand = hand[n] /\ b.life = life[n]}}

\* What a node has acted on in this hand, from the topic or a stream, is in its log,
\* or its place there is taken by a message of another life of the sender.
ActedOnIsLogged ==
  \A n \in Receivers, p \in Peers : \A env \in ActedNow(n, p) :
    \/ Contains(log[n], env)
    \/ \E e \in ToSet(log[n]) : Key(e) = Key(env) /\ e.payload.life # env.payload.life

\* A log that passes ValidateSequences for a sender that has not restarted has
\* all that the sender had published up to the last entry (gamelog.go:135).
ValidLogIsComplete ==
  \A n \in Receivers, p \in Senders :
    life[p] = 0 /\ ValidSequence(log[n], p) =>
      \A env \in published : env.from = p =>
        \/ Contains(log[n], env)
        \/ \A e \in ToSet(log[n]) : e.from = p => e.seq < env.seq

\* Had the log kept all that a node has acted on, in all its hands and lives, then
\* DetectEquivocation would find two messages with one number only of peers that have
\* restarted: one life gives a number away once, to the topic, a stream or a heartbeat
\* (node.go:270).  The log keeps the first of two (gamelog.go:49), so it finds nothing.
OnlyRestartsEquivocate ==
  \A n \in Receivers, p \in Peers :
    \A q \in Equivocators([i \in DOMAIN acted[n][p] |-> acted[n][p][i].env]) : life[q] > 0

\* Once a game may begin, all seats are taken, by as many players, and all of
\* them are ready (lobby.go:101, :120); returning players change nothing.
ReadyMeansAll ==
  \A n \in Receivers :
    WaitReady(lobby[n]) =>
      /\ Len(lobby[n].seats) = MaxSeats /\ IsInjective(PlayerIDs(lobby[n]))
      /\ \A i \in DOMAIN lobby[n].seats : lobby[n].seats[i].ready
=============================================================================
