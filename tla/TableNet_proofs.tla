--------------------------- MODULE TableNet_proofs ---------------------------
(***************************************************************************)
(* Proofs about TableNet, for any number of nodes, seats, messages, hands  *)
(* and restarts: what a node acts on is in order, nothing is acted on      *)
(* twice, and it is logged; a log that validates is complete; and a table  *)
(* that is ready has everybody on it.                                      *)
(***************************************************************************)
EXTENDS TableNet, SequenceTheorems, FiniteSetTheorems, TLAPS

Types     == {"Join", "Ready", "Action", "Partial"}
Envelopes == [from : Senders, seq : Nat, payload : [type : Types, life : Nat]]
Routed    == [env : Envelopes, hand : Nat, life : Nat]
SeatSet   == [id : Peers, ready : BOOLEAN]
Lobbies   == [state : LobbyStates, seats : Seq(SeatSet)]

-----------------------------------------------------------------------------
(* The log.                                                                *)

LEMMA AppendEntryFacts ==
  ASSUME NEW l \in Seq(Envelopes), NEW env \in Envelopes
  PROVE  LET m == AppendEntry(l, env) IN
         /\ m \in Seq(Envelopes) /\ HasKey(m, env)
         /\ \A f : HasKey(l, f) => HasKey(m, f)
         /\ {m[i] : i \in DOMAIN m} \subseteq {l[i] : i \in DOMAIN l} \cup {env}
<1>1. CASE HasKey(l, env)
  BY <1>1 DEF AppendEntry
<1>2. CASE ~HasKey(l, env)
  <2> DEFINE m == Append(l, env)
  <2>1. AppendEntry(l, env) = m
    BY <1>2 DEF AppendEntry
  <2>2. /\ m \in Seq(Envelopes) /\ Len(m) = Len(l) + 1 /\ m[Len(l) + 1] = env
        /\ \A i \in 1..Len(l) : m[i] = l[i]
        /\ Len(l) \in Nat /\ DOMAIN l = 1..Len(l) /\ DOMAIN m = 1..(Len(l) + 1)
    BY AppendProperties, LenProperties
  <2> HIDE DEF m
  <2>3. HasKey(m, env)
    BY <2>2 DEF HasKey
  <2>4. \A f : HasKey(l, f) => HasKey(m, f)
    BY <2>2 DEF HasKey
  <2>5. {m[i] : i \in DOMAIN m} \subseteq {l[i] : i \in DOMAIN l} \cup {env}
    BY <2>2
  <2>6. QED BY <2>1, <2>2, <2>3, <2>4, <2>5
<1>3. QED BY <1>1, <1>2

-----------------------------------------------------------------------------
(* What is routed.                                                         *)

\* What a node acts on of one peer's gossip is in order in each life of the node, and
\* has no number above "last" in its life of now, which is its last one.
OrderedUpTo(routed, last, now) ==
  /\ \A i, j \in DOMAIN routed :
       /\ i < j /\ routed[i].life = routed[j].life
       /\ Gossiped(routed[i].env) /\ Gossiped(routed[j].env)
       => routed[i].env.seq < routed[j].env.seq
  /\ \A i \in DOMAIN routed :
       /\ routed[i].life <= now
       /\ routed[i].life = now /\ Gossiped(routed[i].env) => routed[i].env.seq <= last

LEMMA AppendRouted ==
  ASSUME NEW r \in Seq(Routed), NEW e \in Routed
  PROVE  /\ Append(r, e) \in Seq(Routed)
         /\ Len(r) \in Nat /\ DOMAIN r = 1..Len(r)
         /\ DOMAIN Append(r, e) = 1..(Len(r) + 1)
         /\ Append(r, e)[Len(r) + 1] = e
         /\ \A i \in 1..Len(r) : Append(r, e)[i] = r[i] /\ r[i] \in Routed
<1>1. /\ Append(r, e) \in Seq(Routed) /\ Len(Append(r, e)) = Len(r) + 1
      /\ Append(r, e)[Len(r) + 1] = e
      /\ \A i \in 1..Len(r) : Append(r, e)[i] = r[i]
  BY AppendProperties
<1>2. QED BY <1>1, LenProperties, ElementOfSeq

LEMMA RoutedNext ==
  ASSUME NEW r \in Seq(Routed), NEW e \in Routed, NEW last \in Nat, NEW next \in Nat,
         OrderedUpTo(r, last, e.life), last <= next,
         Gossiped(e.env) => last < e.env.seq /\ e.env.seq <= next
  PROVE  OrderedUpTo(Append(r, e), next, e.life)
<1> DEFINE m == Append(r, e)
<1>1. /\ Len(r) \in Nat /\ DOMAIN r = 1..Len(r) /\ DOMAIN m = 1..(Len(r) + 1)
      /\ m[Len(r) + 1] = e /\ \A i \in 1..Len(r) : m[i] = r[i] /\ r[i] \in Routed
  BY AppendRouted
<1> HIDE DEF m
<1>2. e.life \in Nat /\ \A x \in Routed : x.env.seq \in Nat
  BY DEF Routed, Envelopes
<1>3. \A i \in 1..Len(r) :
        r[i].life = e.life /\ Gossiped(r[i].env) => r[i].env.seq <= last
  BY <1>1 DEF OrderedUpTo
<1>4. ASSUME NEW i \in DOMAIN m, NEW j \in DOMAIN m, i < j, m[i].life = m[j].life,
             Gossiped(m[i].env), Gossiped(m[j].env)
      PROVE  m[i].env.seq < m[j].env.seq
  <2>1. i \in 1..Len(r)
    BY <1>1, <1>4
  <2>2. CASE j = Len(r) + 1
    <3>1. m[j] = e /\ m[i] = r[i] /\ r[i].env.seq \in Nat /\ e.env.seq \in Nat
      BY <2>1, <2>2, <1>1, <1>2
    <3>2. r[i].env.seq <= last /\ last < e.env.seq
      BY <3>1, <2>1, <1>3, <1>4
    <3>3. QED BY <3>1, <3>2
  <2>3. CASE j \in 1..Len(r)
    BY <2>1, <2>3, <1>1, <1>4 DEF OrderedUpTo
  <2>4. QED BY <2>2, <2>3, <1>1
<1>5. ASSUME NEW i \in DOMAIN m
      PROVE  /\ m[i].life <= e.life
             /\ m[i].life = e.life /\ Gossiped(m[i].env) => m[i].env.seq <= next
  <2>1. CASE i = Len(r) + 1
    BY <2>1, <1>1, <1>2
  <2>2. CASE i \in 1..Len(r)
    <3>1. m[i] = r[i] /\ r[i].env.seq \in Nat /\ r[i].life <= e.life
      BY <2>2, <1>1, <1>2 DEF OrderedUpTo
    <3>2. QED BY <3>1, <2>2, <1>3
  <2>3. QED BY <2>1, <2>2, <1>1
<1>6. QED BY <1>4, <1>5 DEF OrderedUpTo, m

\* What was acted on before a restart is no part of the new life.
LEMMA RoutedOutlives ==
  ASSUME NEW r \in Seq(Routed), NEW last, NEW next, NEW now \in Nat,
         OrderedUpTo(r, last, now)
  PROVE  OrderedUpTo(r, next, now + 1)
<1>1. \A i \in DOMAIN r : r[i].life \in Nat
  <2>1. \A i \in DOMAIN r : r[i] \in Routed
    BY LenProperties, ElementOfSeq
  <2>2. QED BY <2>1 DEF Routed
<1>2. \A i \in DOMAIN r : r[i].life <= now + 1 /\ r[i].life # now + 1
  BY <1>1 DEF OrderedUpTo
<1>3. QED BY <1>2 DEF OrderedUpTo

-----------------------------------------------------------------------------
(* The lobby.                                                              *)

LobbyInv(l) ==
  /\ l \in Lobbies
  /\ Len(l.seats) <= MaxSeats
  /\ IsInjective(PlayerIDs(l))
  /\ WaitReady(l) => Len(l.seats) = MaxSeats /\ \A i \in DOMAIN l.seats : l.seats[i].ready

LEMMA LobbyParts ==
  ASSUME NEW l \in Lobbies
  PROVE  /\ l.seats \in Seq(SeatSet) /\ l.state \in LobbyStates
         /\ l = [state |-> l.state, seats |-> l.seats]
         /\ Len(l.seats) \in Nat /\ DOMAIN l.seats = 1..Len(l.seats)
         /\ \A i \in DOMAIN l.seats : l.seats[i] \in SeatSet
<1>1. l.seats \in Seq(SeatSet) /\ l.state \in LobbyStates
  BY DEF Lobbies
<1>2. l = [state |-> l.state, seats |-> l.seats]
  BY DEF Lobbies
<1>3. QED BY <1>1, <1>2, LenProperties, ElementOfSeq

LEMMA InitialLobby == LobbyInv(NewLobby)
<1>1. NewLobby \in Lobbies
  BY EmptySeq DEF NewLobby, Lobbies, LobbyStates
<1>2. NewLobby.seats = << >> /\ NewLobby.state = "Waiting"
  BY DEF NewLobby
<1>3. Len(NewLobby.seats) = 0 /\ DOMAIN NewLobby.seats = {}
  BY <1>2
<1>4. MaxSeats \in Nat
  BY SeatsAssumption
<1>5. QED BY <1>1, <1>2, <1>3, <1>4 DEF LobbyInv, IsInjective, PlayerIDs, WaitReady

LEMMA HandleJoinInv ==
  ASSUME NEW l, LobbyInv(l), NEW id \in Peers
  PROVE  LobbyInv(HandleJoin(l, id))
<1> DEFINE k == HandleJoin(l, id)
           s == l.seats
           t == Append(s, NewSeat(id))
<1>1. /\ l \in Lobbies /\ s \in Seq(SeatSet) /\ Len(s) \in Nat /\ DOMAIN s = 1..Len(s)
      /\ MaxSeats \in Nat /\ l.state \in LobbyStates
  BY LobbyParts, SeatsAssumption DEF LobbyInv
<1>2. CASE l.state = "Waiting" /\ Len(s) < MaxSeats /\ ~Seated(l, id)
  <2>1. k = [l EXCEPT !.seats = t]
    BY <1>2 DEF HandleJoin
  <2>2. NewSeat(id) \in SeatSet
    BY DEF NewSeat, SeatSet
  <2>3. /\ t \in Seq(SeatSet) /\ Len(t) = Len(s) + 1 /\ t[Len(s) + 1] = NewSeat(id)
        /\ \A i \in 1..Len(s) : t[i] = s[i]
    BY <1>1, <2>2, AppendProperties
  <2>4. DOMAIN t = 1..(Len(s) + 1)
    BY <2>3, LenProperties
  <2> HIDE DEF t
  <2>5. k \in Lobbies /\ k.seats = t /\ k.state = "Waiting"
    BY <1>1, <1>2, <2>1, <2>3 DEF Lobbies
  <2>6. \A i \in 1..Len(s) : s[i].id # id
    <3>1. DOMAIN PlayerIDs(l) = 1..Len(s) /\ \A i \in 1..Len(s) : PlayerIDs(l)[i] = s[i].id
      BY <1>1 DEF PlayerIDs
    <3>2. Len(PlayerIDs(l)) = Len(s)
      BY <3>1, <1>1
    <3>3. QED BY <1>2, <3>1, <3>2 DEF Seated, Contains
  <2>7. \A i, j \in 1..Len(s) : s[i].id = s[j].id => i = j
    BY <1>1 DEF LobbyInv, IsInjective, PlayerIDs
  <2>8. ASSUME NEW i \in DOMAIN t, NEW j \in DOMAIN t, t[i].id = t[j].id PROVE i = j
    <3>1. t[Len(s) + 1].id = id
      BY <2>3 DEF NewSeat
    <3>2. CASE i \in 1..Len(s) /\ j \in 1..Len(s)
      BY <3>2, <2>3, <2>7, <2>8
    <3>3. CASE i \in 1..Len(s) /\ j = Len(s) + 1
      BY <3>1, <3>3, <2>3, <2>6, <2>8
    <3>4. CASE i = Len(s) + 1 /\ j \in 1..Len(s)
      BY <3>1, <3>4, <2>3, <2>6, <2>8
    <3>5. QED BY <3>2, <3>3, <3>4, <2>4, <1>1
  <2>9. IsInjective(PlayerIDs(k))
    BY <2>5, <2>8 DEF IsInjective, PlayerIDs
  <2>10. Len(k.seats) <= MaxSeats
    BY <1>1, <1>2, <2>3, <2>5
  <2>11. QED BY <2>5, <2>9, <2>10 DEF LobbyInv, WaitReady
<1>3. CASE ~(l.state = "Waiting" /\ Len(s) < MaxSeats /\ ~Seated(l, id))
  BY <1>3 DEF HandleJoin
<1>4. QED BY <1>2, <1>3

LEMMA HandleReadyInv ==
  ASSUME NEW l, LobbyInv(l), NEW id \in Peers
  PROVE  LobbyInv(HandleReady(l, id))
<1> DEFINE s == l.seats
           t == [i \in DOMAIN s |-> IF s[i].id = id THEN [s[i] EXCEPT !.ready = TRUE] ELSE s[i]]
           m == [l EXCEPT !.seats = t]
<1>1. /\ l \in Lobbies /\ s \in Seq(SeatSet) /\ Len(s) \in Nat /\ DOMAIN s = 1..Len(s)
      /\ \A i \in DOMAIN s : s[i] \in SeatSet
      /\ MaxSeats \in Nat /\ l.state \in LobbyStates
  BY LobbyParts, SeatsAssumption DEF LobbyInv
<1>2. \A i \in DOMAIN s :
        /\ t[i] \in SeatSet /\ t[i].id = s[i].id
        /\ s[i].ready => t[i].ready
  BY <1>1 DEF SeatSet
<1>3. t \in Seq(SeatSet) /\ Len(t) = Len(s) /\ DOMAIN t = DOMAIN s
  <2>1. t \in [1..Len(s) -> SeatSet]
    BY <1>1, <1>2
  <2>2. QED BY <2>1, <1>1
<1> HIDE DEF t
<1>4. m \in Lobbies /\ m.seats = t /\ m.state = l.state
  BY <1>1, <1>3 DEF Lobbies
<1> HIDE DEF m
<1>5. LobbyInv(m)
  <2>1. IsInjective(PlayerIDs(m))
    <3>1. \A i, j \in DOMAIN s : s[i].id = s[j].id => i = j
      BY DEF LobbyInv, IsInjective, PlayerIDs
    <3>2. \A i, j \in DOMAIN t : t[i].id = t[j].id => i = j
      BY ONLY <1>2, <1>3, <3>1
    <3>3. QED BY <1>4, <3>2 DEF IsInjective, PlayerIDs
  <2>2. WaitReady(m) => \A i \in DOMAIN t : t[i].ready
    BY <1>2, <1>3, <1>4 DEF LobbyInv, WaitReady
  <2>3. QED BY <1>3, <1>4, <2>1, <2>2 DEF LobbyInv, WaitReady
<1>6. LobbyInv(CheckAllReady(m))
  <2> DEFINE r == [m EXCEPT !.state = "Ready"]
  <2>1. CASE /\ Len(m.seats) >= MaxSeats /\ m.state = "Waiting"
             /\ \A i \in DOMAIN m.seats : m.seats[i].ready
    <3>1. CheckAllReady(m) = r
      BY <2>1 DEF CheckAllReady
    <3>2. r \in Lobbies /\ r.seats = m.seats
      BY <1>4 DEF Lobbies, LobbyStates
    <3>3. Len(m.seats) = MaxSeats
      BY <2>1, <1>5, <1>1, <1>3, <1>4 DEF LobbyInv
    <3> HIDE DEF r
    <3>4. IsInjective(PlayerIDs(r))
      BY <3>2, <1>5 DEF LobbyInv, PlayerIDs
    <3>5. QED BY <3>1, <3>2, <3>3, <3>4, <2>1, <1>1 DEF LobbyInv
  <2>2. CASE ~(/\ Len(m.seats) >= MaxSeats /\ m.state = "Waiting"
               /\ \A i \in DOMAIN m.seats : m.seats[i].ready)
    BY <2>2, <1>5 DEF CheckAllReady
  <2>3. QED BY <2>1, <2>2
<1>7. HandleReady(l, id) = IF Seated(l, id) THEN CheckAllReady(m) ELSE l
  BY DEF HandleReady, m, t
<1>8. QED BY <1>6, <1>7

LEMMA SetPlayingInv ==
  ASSUME NEW l, LobbyInv(l), WaitReady(l)
  PROVE  LobbyInv(SetPlaying(l))
<1> DEFINE r == SetPlaying(l)
<1>1. r \in Lobbies /\ r.seats = l.seats
  BY DEF LobbyInv, SetPlaying, Lobbies, LobbyStates
<1> HIDE DEF r
<1>2. IsInjective(PlayerIDs(r))
  BY <1>1 DEF LobbyInv, PlayerIDs
<1>3. QED BY <1>1, <1>2 DEF LobbyInv, r

-----------------------------------------------------------------------------
(* The invariant.                                                          *)

\* What is published is gossip, and what is on a stream is not.
SendType ==
  /\ seq \in [Peers -> Nat] /\ life \in [Peers -> Nat]
  /\ published \subseteq Envelopes /\ \A env \in published : Gossiped(env)
  /\ direct \subseteq [to : Receivers, env : Envelopes]
  /\ \A d \in direct : ~Gossiped(d.env)

ReceiveType ==
  /\ seen \in [Receivers -> [Peers -> Nat]]
  /\ log \in [Receivers -> Seq(Envelopes)]
  /\ hand \in [Receivers -> Nat]
  /\ lobby \in [Receivers -> Lobbies]
  /\ acted \in [Receivers -> [Peers -> Seq(Routed)]]

\* What a node knows: its lobby is in order, and so is what it has acted on, with no
\* number above the last one seen.
NodeInv(n) ==
  /\ LobbyInv(lobby[n])
  /\ \A p \in Peers : OrderedUpTo(acted[n][p], seen[n][p], life[n])

ReceiveInv == ReceiveType /\ \A n \in Receivers : NodeInv(n)

NetInv == SendType /\ ReceiveInv

LEMMA NewNode ==
  /\ NewGossipManager \in [Peers -> Nat]
  /\ NewGameLog \in Seq(Envelopes)
  /\ NewLobby \in Lobbies /\ LobbyInv(NewLobby)
  /\ [q \in Peers |-> << >>] \in [Peers -> Seq(Routed)]
  /\ \A last, now : OrderedUpTo(<< >>, last, now)
<1>1. << >> \in Seq(Envelopes) /\ << >> \in Seq(Routed)
  BY EmptySeq
<1>2. DOMAIN << >> = {}
  OBVIOUS
<1>3. \A last, now : OrderedUpTo(<< >>, last, now)
  BY <1>2 DEF OrderedUpTo
<1>4. QED BY <1>1, <1>3, InitialLobby DEF NewGossipManager, NewGameLog, LobbyInv

LEMMA NetInit == Init => NetInv
<1> SUFFICES ASSUME Init PROVE NetInv
  OBVIOUS
<1>1. SendType
  BY DEF Init, SendType
<1>2. ReceiveType
  BY NewNode DEF Init, ReceiveType
<1>3. ASSUME NEW n \in Receivers PROVE NodeInv(n)
  BY NewNode DEF Init, NodeInv
<1>4. QED BY <1>1, <1>2, <1>3 DEF NetInv, ReceiveInv

\* Sending leaves what the receivers know alone.
LEMMA ReceiversUnchanged ==
  ASSUME ReceiveInv, UNCHANGED <<life, receiveVars>>
  PROVE  ReceiveInv'
BY DEF ReceiveInv, ReceiveType, NodeInv, receiveVars

LEMMA EnvelopeType ==
  ASSUME SendType, NEW p \in Senders, NEW type \in Types
  PROVE  Envelope(p, type) \in Envelopes
<1>1. p \in Peers
  BY DEF Peers
<1>2. seq[p] \in Nat /\ life[p] \in Nat
  BY <1>1 DEF SendType
<1>3. QED BY <1>2 DEF Envelope, Envelopes

LEMMA TakeSeqType ==
  ASSUME SendType, NEW p \in Senders, TakeSeq(p)
  PROVE  seq' \in [Peers -> Nat]
BY DEF SendType, TakeSeq, Peers

LEMMA PublishInv ==
  ASSUME NetInv, NEW p, NEW type \in Types \ {"Partial"}, Publish(p, type)
  PROVE  NetInv'
<1>1. p \in Senders /\ SendType
  BY DEF Publish, NetInv
<1>2. seq' \in [Peers -> Nat]
  BY <1>1, TakeSeqType DEF Publish
<1>3. Envelope(p, type) \in Envelopes /\ Gossiped(Envelope(p, type))
  BY <1>1, EnvelopeType DEF Gossiped, Envelope
<1>4. SendType'
  BY <1>1, <1>2, <1>3 DEF Publish, ToTopic, SendType
<1>5. ReceiveInv'
  BY ReceiversUnchanged DEF NetInv, Publish
<1>6. QED BY <1>4, <1>5 DEF NetInv

LEMMA HeartbeatInv ==
  ASSUME NetInv, NEW p, BroadcastHeartbeat(p)
  PROVE  NetInv'
<1>1. p \in Senders /\ SendType
  BY DEF BroadcastHeartbeat, NetInv
<1>2. seq' \in [Peers -> Nat]
  BY <1>1, TakeSeqType DEF BroadcastHeartbeat
<1>3. SendType'
  BY <1>1, <1>2 DEF BroadcastHeartbeat, PublishHeartbeat, SendType
<1>4. ReceiveInv'
  BY ReceiversUnchanged DEF NetInv, BroadcastHeartbeat, PublishHeartbeat
<1>5. QED BY <1>3, <1>4 DEF NetInv

LEMMA SendDirectInv ==
  ASSUME NetInv, NEW p, NEW n \in Receivers, SendDirectPartialDecrypt(p, n)
  PROVE  NetInv'
<1>1. p \in Senders /\ SendType
  BY DEF SendDirectPartialDecrypt, NetInv
<1>2. seq' \in [Peers -> Nat]
  BY <1>1, TakeSeqType DEF SendDirectPartialDecrypt
<1>3. Envelope(p, "Partial") \in Envelopes
  BY <1>1, EnvelopeType DEF Types
<1>4. /\ direct' \subseteq [to : Receivers, env : Envelopes]
      /\ \A d \in direct' : ~Gossiped(d.env)
  BY <1>1, <1>3 DEF SendDirectPartialDecrypt, SendDirect, SendType, Gossiped, Envelope
<1>5. SendType'
  BY <1>1, <1>2, <1>4 DEF SendDirectPartialDecrypt, SendType
<1>6. ReceiveInv'
  BY ReceiversUnchanged DEF NetInv, SendDirectPartialDecrypt
<1>7. QED BY <1>5, <1>6 DEF NetInv

\* Acting on an envelope that is no gossip, or has a number above the last one seen.
LEMMA ActOrdered ==
  ASSUME SendType, ReceiveInv, NEW n \in Receivers, NEW env \in Envelopes, Act(n, env),
         NEW next \in Nat, seen[n][env.from] <= next,
         Gossiped(env) => seen[n][env.from] < env.seq /\ env.seq <= next
  PROVE  /\ acted' \in [Receivers -> [Peers -> Seq(Routed)]]
         /\ \A m \in Receivers \ {n} : acted'[m] = acted[m]
         /\ \A q \in Peers \ {env.from} : acted'[n][q] = acted[n][q]
         /\ OrderedUpTo(acted'[n][env.from], next, life[n])
<1> DEFINE p == env.from
           e == [env |-> env, hand |-> hand[n], life |-> life[n]]
           r == Append(acted[n][p], e)
<1>1. /\ p \in Peers /\ hand[n] \in Nat /\ life[n] \in Nat
      /\ acted \in [Receivers -> [Peers -> Seq(Routed)]]
      /\ acted[n][p] \in Seq(Routed) /\ seen[n][p] \in Nat
  <2>1. p \in Peers /\ n \in Peers
    BY DEF Envelopes, Peers
  <2>2. QED BY <2>1 DEF SendType, ReceiveInv, ReceiveType
<1>2. e \in Routed /\ e.env = env /\ e.life = life[n]
  BY <1>1 DEF Routed
<1>3. acted' = [acted EXCEPT ![n][p] = r]
  BY DEF Act
<1> HIDE DEF e
<1>4. OrderedUpTo(acted[n][p], seen[n][p], e.life)
  BY <1>1, <1>2 DEF ReceiveInv, NodeInv
<1>5. r \in Seq(Routed) /\ OrderedUpTo(r, next, e.life)
  <2>1. Gossiped(e.env) => seen[n][p] < e.env.seq /\ e.env.seq <= next
    BY <1>2
  <2>2. OrderedUpTo(r, next, e.life)
    BY <1>1, <1>2, <1>4, <2>1, RoutedNext
  <2>3. QED BY <2>2, <1>1, <1>2, AppendRouted
<1> HIDE DEF r
<1>6. QED BY <1>1, <1>2, <1>3, <1>5

LEMMA DispatchInv ==
  ASSUME NetInv, NEW n \in Receivers, NEW env \in published, Dispatch(n, env)
  PROVE  NetInv'
<1> DEFINE p == env.from
<1>1. /\ SendType /\ ReceiveInv /\ ReceiveType /\ env \in Envelopes /\ Gossiped(env)
      /\ p \in Peers /\ env.seq \in Nat
      /\ log[n] \in Seq(Envelopes) /\ lobby[n] \in Lobbies
      /\ seen[n] \in [Peers -> Nat] /\ seen[n][p] < env.seq
  <2>1. SendType /\ ReceiveInv /\ ReceiveType /\ env \in Envelopes /\ Gossiped(env)
    BY DEF NetInv, ReceiveInv, SendType
  <2>2. p \in Peers /\ env.seq \in Nat
    BY <2>1 DEF Envelopes, Peers
  <2>3. QED BY <2>1, <2>2 DEF ReceiveType, Dispatch, CheckSeq
<1>2. NodeInv(n) /\ UNCHANGED <<seq, life, published, direct, hand>>
  BY <1>1 DEF ReceiveInv, Dispatch, sendVars
<1>3. SendType'
  BY <1>1, <1>2 DEF SendType
<1>4. /\ seen' \in [Receivers -> [Peers -> Nat]]
      /\ seen'[n] = [seen[n] EXCEPT ![p] = env.seq]
      /\ \A m \in Receivers \ {n} : seen'[m] = seen[m]
  BY <1>1 DEF Dispatch, ReceiveType
<1>5. log' \in [Receivers -> Seq(Envelopes)]
  <2>1. AppendEntry(log[n], env) \in Seq(Envelopes)
    BY <1>1, AppendEntryFacts
  <2>2. log' = [log EXCEPT ![n] = AppendEntry(log[n], env)]
    BY DEF Dispatch
  <2>3. QED BY <2>1, <2>2, <1>1 DEF ReceiveType
<1>6. /\ lobby' \in [Receivers -> Lobbies]
      /\ LobbyInv(lobby'[n])
      /\ \A m \in Receivers \ {n} : lobby'[m] = lobby[m]
  <2> DEFINE l == CASE env.payload.type = "Join"  -> HandleJoin(lobby[n], p)
                    [] env.payload.type = "Ready" -> HandleReady(lobby[n], p)
                    [] OTHER -> lobby[n]
  <2>1. LobbyInv(HandleJoin(lobby[n], p)) /\ LobbyInv(HandleReady(lobby[n], p))
    BY <1>1, <1>2, HandleJoinInv, HandleReadyInv DEF NodeInv
  <2>2. LobbyInv(l)
    BY <2>1, <1>2 DEF NodeInv
  <2>3. lobby' = [lobby EXCEPT ![n] = l]
    BY DEF Dispatch
  <2>4. l \in Lobbies
    BY <2>2 DEF LobbyInv
  <2> HIDE DEF l
  <2>5. QED BY <2>2, <2>3, <2>4, <1>1 DEF ReceiveType
<1>7. /\ acted' \in [Receivers -> [Peers -> Seq(Routed)]]
      /\ \A m \in Receivers \ {n} : acted'[m] = acted[m]
      /\ \A q \in Peers \ {p} : acted'[n][q] = acted[n][q]
      /\ OrderedUpTo(acted'[n][p], env.seq, life[n])
  <2>1. Act(n, env) /\ seen[n][p] <= env.seq /\ env.seq <= env.seq
    BY <1>1 DEF Dispatch
  <2>2. QED BY <1>1, <2>1, ActOrdered
<1>8. ReceiveType'
  BY <1>1, <1>2, <1>4, <1>5, <1>6, <1>7 DEF ReceiveType
<1>9. ASSUME NEW m \in Receivers PROVE NodeInv(m)'
  <2>1. NodeInv(m)
    BY <1>1 DEF ReceiveInv
  <2>2. CASE m = n
    <3>1. ASSUME NEW q \in Peers PROVE OrderedUpTo(acted'[n][q], seen'[n][q], life[n])
      <4>1. CASE q = p
        BY <4>1, <1>1, <1>4, <1>7
      <4>2. CASE q # p
        <5>1. acted'[n][q] = acted[n][q] /\ seen'[n][q] = seen[n][q]
          BY <4>2, <1>1, <1>4, <1>7
        <5>2. QED BY <5>1, <1>2 DEF NodeInv
      <4>3. QED BY <4>1, <4>2
    <3>2. QED BY <3>1, <2>2, <1>2, <1>6 DEF NodeInv
  <2>3. CASE m # n
    BY <2>1, <2>3, <1>2, <1>4, <1>6, <1>7 DEF NodeInv
  <2>4. QED BY <2>2, <2>3
<1>10. QED BY <1>3, <1>8, <1>9 DEF NetInv, ReceiveInv

LEMMA ReadStreamInv ==
  ASSUME NetInv, NEW n \in Receivers, ReadStream(n)
  PROVE  NetInv'
<1>1. PICK d \in direct : direct' = direct \ {d} /\ OnDirect(n, d.env)
  BY DEF ReadStream
<1> DEFINE env == d.env
           p == env.from
<1>2. /\ SendType /\ ReceiveInv /\ ReceiveType /\ NodeInv(n)
      /\ env \in Envelopes /\ ~Gossiped(env)
  BY DEF NetInv, ReceiveInv, SendType
<1>3. p \in Peers /\ seen[n][p] \in Nat /\ log[n] \in Seq(Envelopes)
  BY <1>2 DEF Envelopes, Peers, ReceiveType
<1>4. UNCHANGED <<seq, life, published, seen, hand, lobby>>
  BY <1>1 DEF ReadStream, OnDirect, sendVars
<1>5. SendType'
  BY <1>1, <1>2, <1>4 DEF SendType
<1>6. log' \in [Receivers -> Seq(Envelopes)]
  <2>1. AppendEntry(log[n], env) \in Seq(Envelopes)
    BY <1>2, <1>3, AppendEntryFacts
  <2>2. log' = [log EXCEPT ![n] = AppendEntry(log[n], env)]
    BY <1>1 DEF OnDirect
  <2>3. QED BY <2>1, <2>2, <1>2 DEF ReceiveType
<1>7. /\ acted' \in [Receivers -> [Peers -> Seq(Routed)]]
      /\ \A m \in Receivers \ {n} : acted'[m] = acted[m]
      /\ \A q \in Peers \ {p} : acted'[n][q] = acted[n][q]
      /\ OrderedUpTo(acted'[n][p], seen[n][p], life[n])
  <2>1. Act(n, env) /\ seen[n][p] <= seen[n][p]
    BY <1>1, <1>3 DEF OnDirect
  <2>2. QED BY <1>2, <1>3, <2>1, ActOrdered
<1>8. ReceiveType'
  BY <1>2, <1>4, <1>6, <1>7 DEF ReceiveType
<1>9. ASSUME NEW m \in Receivers PROVE NodeInv(m)'
  <2>1. NodeInv(m)
    BY <1>2 DEF ReceiveInv
  <2>2. CASE m = n
    BY <2>1, <2>2, <1>4, <1>7 DEF NodeInv
  <2>3. CASE m # n
    BY <2>1, <2>3, <1>4, <1>7 DEF NodeInv
  <2>4. QED BY <2>2, <2>3
<1>10. QED BY <1>5, <1>8, <1>9 DEF NetInv, ReceiveInv

LEMMA SetHandNumInv ==
  ASSUME NetInv, NEW n \in Receivers, SetHandNum(n)
  PROVE  NetInv'
<1>1. SendType /\ ReceiveType
  BY DEF NetInv, ReceiveInv
<1>2. UNCHANGED <<seq, life, published, direct, seen, lobby, acted>>
  BY DEF SetHandNum, sendVars
<1>3. SendType'
  BY <1>1, <1>2 DEF SendType
<1>4. hand' \in [Receivers -> Nat] /\ log' \in [Receivers -> Seq(Envelopes)]
  BY <1>1, NewNode DEF SetHandNum, ReceiveType
<1>5. ReceiveType'
  BY <1>1, <1>2, <1>4 DEF ReceiveType
<1>6. \A m \in Receivers : NodeInv(m)'
  BY <1>2 DEF NetInv, ReceiveInv, NodeInv
<1>7. QED BY <1>3, <1>5, <1>6 DEF NetInv, ReceiveInv

LEMMA StartPlayingInv ==
  ASSUME NetInv, NEW n \in Receivers, StartPlaying(n)
  PROVE  NetInv'
<1>1. SendType /\ ReceiveType /\ LobbyInv(lobby[n])
  BY DEF NetInv, ReceiveInv, NodeInv
<1>2. UNCHANGED <<seq, life, published, direct, seen, log, hand, acted>>
  BY DEF StartPlaying, sendVars
<1>3. SendType'
  BY <1>1, <1>2 DEF SendType, sendVars
<1>4. /\ lobby' \in [Receivers -> Lobbies]
      /\ LobbyInv(lobby'[n])
      /\ \A m \in Receivers \ {n} : lobby'[m] = lobby[m]
  <2>1. LobbyInv(SetPlaying(lobby[n])) /\ SetPlaying(lobby[n]) \in Lobbies
    BY <1>1, SetPlayingInv DEF StartPlaying, LobbyInv
  <2>2. lobby' = [lobby EXCEPT ![n] = SetPlaying(lobby[n])]
    BY DEF StartPlaying
  <2>3. QED BY <2>1, <2>2, <1>1 DEF ReceiveType
<1>5. ReceiveType'
  BY <1>1, <1>2, <1>4 DEF ReceiveType
<1>6. ASSUME NEW m \in Receivers PROVE NodeInv(m)'
  <2>1. NodeInv(m)
    BY DEF NetInv, ReceiveInv
  <2>2. LobbyInv(lobby'[m])
    BY <2>1, <1>4 DEF NodeInv
  <2>3. QED BY <2>1, <2>2, <1>2 DEF NodeInv
<1>7. QED BY <1>3, <1>5, <1>6 DEF NetInv, ReceiveInv

LEMMA RestartInv ==
  ASSUME NetInv, NEW p \in Peers, Restart(p)
  PROVE  NetInv'
<1>1. SendType /\ ReceiveInv /\ ReceiveType
  BY DEF NetInv, ReceiveInv
<1>2. /\ life \in [Peers -> Nat] /\ life' = [life EXCEPT ![p] = @ + 1]
      /\ acted' = acted /\ acted \in [Receivers -> [Peers -> Seq(Routed)]]
  BY <1>1 DEF Restart, SendType, ReceiveType
<1>3. SendType'
  BY <1>1, <1>2 DEF Restart, SendType
<1>4. CASE p \in Receivers
  <2>1. /\ seen' = [seen EXCEPT ![p] = NewGossipManager]
        /\ log' = [log EXCEPT ![p] = NewGameLog]
        /\ hand' = [hand EXCEPT ![p] = 1]
        /\ lobby' = [lobby EXCEPT ![p] = NewLobby]
    BY <1>4 DEF Restart
  <2>2. ReceiveType'
    BY <2>1, <1>1, <1>2, <1>4, NewNode DEF ReceiveType
  <2>3. ASSUME NEW m \in Receivers PROVE NodeInv(m)'
    <3>1. NodeInv(m)
      BY <1>1 DEF ReceiveInv
    <3>2. CASE m = p
      <4>1. lobby'[m] = NewLobby /\ life'[m] = life[m] + 1 /\ life[m] \in Nat
        BY <3>2, <2>1, <1>1, <1>2, <1>4 DEF ReceiveType
      <4>2. ASSUME NEW q \in Peers PROVE OrderedUpTo(acted[m][q], seen'[m][q], life[m] + 1)
        <5>1. acted[m][q] \in Seq(Routed) /\ OrderedUpTo(acted[m][q], seen[m][q], life[m])
          BY <3>1, <1>2 DEF NodeInv
        <5>2. QED BY <4>1, <5>1, RoutedOutlives
      <4>3. QED BY <4>1, <4>2, <1>2, NewNode DEF NodeInv
    <3>3. CASE m # p
      <4>1. seen'[m] = seen[m] /\ lobby'[m] = lobby[m] /\ life'[m] = life[m]
        BY <3>3, <2>1, <1>1, <1>2 DEF ReceiveType, Peers
      <4>2. QED BY <4>1, <3>1, <1>2 DEF NodeInv
    <3>4. QED BY <3>2, <3>3
  <2>4. QED BY <1>3, <2>2, <2>3 DEF NetInv, ReceiveInv
<1>5. CASE p \notin Receivers
  <2>1. UNCHANGED <<seen, log, hand, lobby, acted>>
    BY <1>5 DEF Restart
  <2>2. \A m \in Receivers : life'[m] = life[m]
    BY <1>2, <1>5 DEF Peers
  <2>3. ReceiveInv'
    BY <1>1, <2>1, <2>2 DEF ReceiveInv, ReceiveType, NodeInv
  <2>4. QED BY <1>3, <2>3 DEF NetInv
<1>6. QED BY <1>4, <1>5

LEMMA NetStep == NetInv /\ [Next]_vars => NetInv'
<1> SUFFICES ASSUME NetInv, [Next]_vars PROVE NetInv'
  OBVIOUS
<1>1. CASE UNCHANGED vars
  <2>1. SendType' /\ ReceiveInv'
    BY <1>1, ReceiversUnchanged DEF NetInv, SendType, vars, sendVars
  <2>2. QED BY <2>1 DEF NetInv
<1>2. ASSUME NEW p \in Peers, BroadcastJoin(p) \/ BroadcastReady(p) \/ BroadcastAction(p)
      PROVE  NetInv'
  <2>1. Publish(p, "Join") \/ Publish(p, "Ready") \/ Publish(p, "Action")
    BY <1>2 DEF BroadcastJoin, BroadcastReady, BroadcastAction
  <2>2. {"Join", "Ready", "Action"} \subseteq Types \ {"Partial"}
    BY DEF Types
  <2>3. QED BY <2>1, <2>2, PublishInv
<1>3. ASSUME NEW p \in Peers, BroadcastHeartbeat(p) PROVE NetInv'
  BY <1>3, HeartbeatInv
<1>4. ASSUME NEW p \in Peers, NEW n \in Receivers, SendDirectPartialDecrypt(p, n)
      PROVE  NetInv'
  BY <1>4, SendDirectInv
<1>5. ASSUME NEW p \in Peers, Restart(p) PROVE NetInv'
  BY <1>5, RestartInv
<1>6. ASSUME NEW n \in Receivers, receiveLoop(n) PROVE NetInv'
  <2>1. PICK env \in published : Dispatch(n, env)
    BY <1>6 DEF receiveLoop, TableMessages
  <2>2. QED BY <2>1, DispatchInv
<1>7. ASSUME NEW n \in Receivers, ReadStream(n) PROVE NetInv'
  BY <1>7, ReadStreamInv
<1>8. ASSUME NEW n \in Receivers, SetHandNum(n) PROVE NetInv'
  BY <1>8, SetHandNumInv
<1>9. ASSUME NEW n \in Receivers, StartPlaying(n) PROVE NetInv'
  BY <1>9, StartPlayingInv
<1>10. QED BY <1>1, <1>2, <1>3, <1>4, <1>5, <1>6, <1>7, <1>8, <1>9 DEF Next

-----------------------------------------------------------------------------
(* Envelopes and their numbers.                                            *)

\* Every envelope that is known of: on the topic, on a stream, in a log, acted on.
Entries(n)    == {log[n][i] : i \in DOMAIN log[n]}
ActedOn(n, p) == {acted[n][p][i].env : i \in DOMAIN acted[n][p]}
Kept(n)       == Entries(n) \cup UNION {ActedOn(n, p) : p \in Peers}
Sent == published \cup {d.env : d \in direct} \cup UNION {Kept(n) : n \in Receivers}

\* An envelope has a number that its sender has taken, in this life or an earlier one.
NumberTaken(env, lastSeq, lastLife) ==
  /\ 1 <= env.seq
  /\ env.payload.life <= lastLife[env.from]
  /\ env.payload.life = lastLife[env.from] => env.seq <= lastSeq[env.from]

\* One life gives a number to one envelope only.
NumbersDiffer(sent) ==
  \A e, f \in sent : Key(e) = Key(f) /\ e.payload.life = f.payload.life => e = f

\* What a node has acted on in the hand it plays now has its place in the log taken.
ActedInv(n) ==
  \A p \in Peers : \A i \in DOMAIN acted[n][p] :
    LET a == acted[n][p][i] IN
    /\ a.life = life[n] => a.hand <= hand[n]
    /\ a.life = life[n] /\ a.hand = hand[n] => HasKey(log[n], a.env)

\* What comes over a stream is acted on once: not again while it is on the stream.
OnceInv(n) ==
  /\ \A d \in direct : d.to = n => d.env \notin ActedOn(n, d.env.from)
  /\ \A p \in Peers : \A i, j \in DOMAIN acted[n][p] :
       i < j /\ acted[n][p][i].env = acted[n][p][j].env => Gossiped(acted[n][p][i].env)

SentInv ==
  /\ \A env \in Sent : NumberTaken(env, seq, life)
  /\ NumbersDiffer(Sent)
  /\ \A n \in Receivers : ActedInv(n) /\ OnceInv(n)

\* A number that has been taken stays so when its sender, or another, takes one,
LEMMA TakenStays ==
  ASSUME NEW env \in Envelopes, NEW sq \in [Peers -> Nat], NEW lf \in [Peers -> Nat],
         NEW p \in Peers, NumberTaken(env, sq, lf)
  PROVE  NumberTaken(env, [sq EXCEPT ![p] = @ + 1], lf)
<1>1. env.from \in Peers /\ env.seq \in Nat /\ env.payload.life \in Nat
  BY DEF Envelopes, Peers
<1>2. QED BY <1>1 DEF NumberTaken

\* and when one restarts.
LEMMA TakenOutlives ==
  ASSUME NEW env \in Envelopes, NEW sq \in [Peers -> Nat], NEW lf \in [Peers -> Nat],
         NEW p \in Peers, NumberTaken(env, sq, lf)
  PROVE  NumberTaken(env, [sq EXCEPT ![p] = 0], [lf EXCEPT ![p] = @ + 1])
<1>1. env.from \in Peers /\ env.seq \in Nat /\ env.payload.life \in Nat
  BY DEF Envelopes, Peers
<1>2. QED BY <1>1 DEF NumberTaken

LEMMA NextNumberIsNew ==
  ASSUME NEW sent \in SUBSET Envelopes, NEW sq \in [Peers -> Nat], NEW lf \in [Peers -> Nat],
         \A e \in sent : NumberTaken(e, sq, lf), NumbersDiffer(sent),
         NEW env \in Envelopes,
         env.seq = sq[env.from] + 1, env.payload.life = lf[env.from]
  PROVE  LET sq2 == [sq EXCEPT ![env.from] = @ + 1] IN
         /\ \A e \in sent \cup {env} : NumberTaken(e, sq2, lf)
         /\ NumbersDiffer(sent \cup {env}) /\ env \notin sent
<1> DEFINE p == env.from
<1>1. p \in Peers /\ sq[p] \in Nat /\ lf[p] \in Nat
  BY DEF Envelopes, Peers
<1>2. NumberTaken(env, [sq EXCEPT ![p] = @ + 1], lf)
  BY <1>1 DEF NumberTaken
<1>3. \A e \in sent : NumberTaken(e, [sq EXCEPT ![p] = @ + 1], lf)
  BY <1>1, TakenStays
<1>4. ASSUME NEW e \in sent, Key(e) = Key(env), e.payload.life = env.payload.life PROVE FALSE
  <2>1. e.from = p /\ e.seq = sq[p] + 1
    BY <1>4 DEF Key
  <2>2. NumberTaken(e, sq, lf)
    OBVIOUS
  <2>3. e.seq <= sq[p]
    BY <2>1, <2>2, <1>4 DEF NumberTaken
  <2>4. QED BY <2>1, <2>3, <1>1
<1>5. NumbersDiffer(sent \cup {env})
  <2>1. ASSUME NEW e \in sent \cup {env}, NEW f \in sent \cup {env},
               Key(e) = Key(f), e.payload.life = f.payload.life
        PROVE  e = f
    <3>1. CASE e \in sent /\ f \in sent
      BY <3>1, <2>1 DEF NumbersDiffer
    <3>2. CASE e \in sent /\ f = env
      BY <3>2, <2>1, <1>4
    <3>3. CASE e = env /\ f \in sent
      <4>1. Key(f) = Key(env) /\ f.payload.life = env.payload.life
        BY <3>3, <2>1
      <4>2. QED BY <4>1, <3>3, <1>4
    <3>4. QED BY <3>1, <3>2, <3>3
  <2>2. QED BY <2>1 DEF NumbersDiffer
<1>6. env \notin sent
  BY <1>4
<1>7. QED BY <1>2, <1>3, <1>5, <1>6

LEMMA SentType == NetInv => Sent \in SUBSET Envelopes
<1> SUFFICES ASSUME NetInv PROVE Sent \in SUBSET Envelopes
  OBVIOUS
<1>1. published \subseteq Envelopes /\ \A d \in direct : d.env \in Envelopes
  BY DEF NetInv, SendType
<1>2. \A n \in Receivers : Entries(n) \subseteq Envelopes
  <2>1. ASSUME NEW n \in Receivers, NEW i \in DOMAIN log[n] PROVE log[n][i] \in Envelopes
    <3>1. log[n] \in Seq(Envelopes)
      BY DEF NetInv, ReceiveInv, ReceiveType
    <3>2. QED BY <3>1, LenProperties, ElementOfSeq
  <2>2. QED BY <2>1 DEF Entries
<1>3. \A n \in Receivers, p \in Peers : ActedOn(n, p) \subseteq Envelopes
  <2>1. ASSUME NEW n \in Receivers, NEW p \in Peers, NEW i \in DOMAIN acted[n][p]
        PROVE  acted[n][p][i].env \in Envelopes
    <3>1. acted[n][p] \in Seq(Routed)
      BY DEF NetInv, ReceiveInv, ReceiveType
    <3>2. acted[n][p][i] \in Routed
      BY <3>1, <2>1, LenProperties, ElementOfSeq
    <3>3. QED BY <3>2 DEF Routed
  <2>2. QED BY <2>1 DEF ActedOn
<1>4. QED BY <1>1, <1>2, <1>3 DEF Sent, Kept

\* What a node has acted on and what it has logged are of the same hand as before.
LEMMA ActedUnchanged ==
  ASSUME NEW n \in Receivers, ActedInv(n),
         acted'[n] = acted[n], hand'[n] = hand[n], life'[n] = life[n],
         \A f : HasKey(log[n], f) => HasKey(log'[n], f)
  PROVE  ActedInv(n)'
BY DEF ActedInv

LEMMA OnceUnchanged ==
  ASSUME NEW n \in Receivers, OnceInv(n), acted'[n] = acted[n], direct' \subseteq direct
  PROVE  OnceInv(n)'
BY DEF OnceInv, ActedOn

LEMMA SendersLog ==
  ASSUME NetInv, SentInv, UNCHANGED <<life, log, hand, acted>>,
         NEW env \in Envelopes, env.seq = seq[env.from] + 1,
         env.payload.life = life[env.from],
         seq' = [seq EXCEPT ![env.from] = @ + 1],
         published' \subseteq published \cup {env},
         \A d \in direct' : d \in direct \/ d.env = env
  PROVE  SentInv'
<1>1. Sent \in SUBSET Envelopes /\ seq \in [Peers -> Nat] /\ life \in [Peers -> Nat]
  BY SentType DEF NetInv, SendType
<1>2. (\A e \in Sent : NumberTaken(e, seq, life)) /\ NumbersDiffer(Sent)
  BY DEF SentInv
<1>3. /\ \A e \in Sent \cup {env} : NumberTaken(e, seq', life)
      /\ NumbersDiffer(Sent \cup {env}) /\ env \notin Sent
  BY <1>1, <1>2, NextNumberIsNew
<1>4. Sent' \subseteq Sent \cup {env}
  <2>1. \A n \in Receivers : Kept(n)' = Kept(n)
    BY DEF Kept, Entries, ActedOn
  <2>2. QED BY <2>1 DEF Sent
<1>5. (\A e \in Sent' : NumberTaken(e, seq', life')) /\ NumbersDiffer(Sent')
  BY <1>3, <1>4 DEF NumbersDiffer
<1>6. ASSUME NEW n \in Receivers PROVE ActedInv(n)' /\ OnceInv(n)'
  <2>1. ActedInv(n) /\ OnceInv(n)
    BY DEF SentInv
  <2>2. ActedInv(n)'
    BY <2>1, ActedUnchanged
  <2>3. env.from \in Peers
    BY DEF Envelopes, Peers
  <2>4. ActedOn(n, env.from) \subseteq Sent
    BY <2>3 DEF Sent, Kept
  <2>5. ASSUME NEW d \in direct', d.to = n PROVE d.env \notin ActedOn(n, d.env.from)
    BY <2>1, <2>4, <2>5, <1>3 DEF OnceInv
  <2>6. OnceInv(n)'
    BY <2>1, <2>5 DEF OnceInv, ActedOn
  <2>7. QED BY <2>2, <2>6
<1>7. QED BY <1>5, <1>6 DEF SentInv

LEMMA ReceiversLog ==
  ASSUME SentInv, UNCHANGED <<seq, life>>, Sent' \subseteq Sent,
         \A n \in Receivers : ActedInv(n)' /\ OnceInv(n)'
  PROVE  SentInv'
BY DEF SentInv, NumbersDiffer

LEMMA LogInit == Init => SentInv
<1> SUFFICES ASSUME Init PROVE SentInv
  OBVIOUS
<1>1. \A n \in Receivers : log[n] = << >> /\ \A p \in Peers : acted[n][p] = << >>
  BY DEF Init, NewGameLog
<1>2. \A n \in Receivers : Kept(n) = {}
  BY <1>1 DEF Kept, Entries, ActedOn
<1>3. Sent = {}
  BY <1>2 DEF Init, Sent
<1>4. \A n \in Receivers : ActedInv(n) /\ OnceInv(n)
  BY <1>1 DEF Init, ActedInv, OnceInv
<1>5. QED BY <1>3, <1>4 DEF SentInv, NumbersDiffer

LEMMA PublishLog ==
  ASSUME NetInv, SentInv, NEW p, NEW type \in Types, Publish(p, type)
  PROVE  SentInv'
<1> DEFINE env == Envelope(p, type)
<1>1. p \in Senders /\ UNCHANGED <<life, direct, seen, log, hand, lobby, acted>>
  BY DEF Publish, receiveVars
<1>2. env \in Envelopes
  BY <1>1, EnvelopeType DEF NetInv
<1>3. env.from = p /\ env.seq = seq[p] + 1 /\ env.payload.life = life[p]
  BY DEF Envelope
<1>4. published' = published \cup {env} /\ seq' = [seq EXCEPT ![p] = @ + 1]
  BY DEF Publish, ToTopic, TakeSeq
<1> HIDE DEF env
<1>5. QED BY <1>1, <1>2, <1>3, <1>4, SendersLog

LEMMA SendDirectLog ==
  ASSUME NetInv, SentInv, NEW p, NEW n \in Receivers, SendDirectPartialDecrypt(p, n)
  PROVE  SentInv'
<1> DEFINE env == Envelope(p, "Partial")
<1>1. p \in Senders /\ UNCHANGED <<life, published, seen, log, hand, lobby, acted>>
  BY DEF SendDirectPartialDecrypt, receiveVars
<1>2. env \in Envelopes
  BY <1>1, EnvelopeType DEF NetInv, Types
<1>3. env.from = p /\ env.seq = seq[p] + 1 /\ env.payload.life = life[p]
  BY DEF Envelope
<1>4. direct' = direct \cup {[to |-> n, env |-> env]} /\ seq' = [seq EXCEPT ![p] = @ + 1]
  BY DEF SendDirectPartialDecrypt, SendDirect, TakeSeq
<1> HIDE DEF env
<1>5. \A d \in direct' : d \in direct \/ d.env = env
  BY <1>4
<1>6. QED BY <1>1, <1>2, <1>3, <1>4, <1>5, SendersLog

LEMMA HeartbeatLog ==
  ASSUME NetInv, SentInv, NEW p, BroadcastHeartbeat(p)
  PROVE  SentInv'
<1>1. /\ p \in Peers /\ seq' = [seq EXCEPT ![p] = @ + 1]
      /\ UNCHANGED <<life, published, direct, seen, log, hand, lobby, acted>>
  BY DEF BroadcastHeartbeat, PublishHeartbeat, TakeSeq, Peers, receiveVars
<1>2. Sent \in SUBSET Envelopes /\ seq \in [Peers -> Nat] /\ life \in [Peers -> Nat]
  BY SentType DEF NetInv, SendType
<1>3. \A e \in Sent : NumberTaken(e, seq', life)
  BY <1>1, <1>2, TakenStays DEF SentInv
<1>4. Sent' = Sent
  BY <1>1 DEF Sent, Kept, Entries, ActedOn
<1>5. (\A e \in Sent' : NumberTaken(e, seq', life')) /\ NumbersDiffer(Sent')
  BY <1>1, <1>3, <1>4 DEF SentInv
<1>6. ASSUME NEW n \in Receivers PROVE ActedInv(n)' /\ OnceInv(n)'
  BY <1>1, ActedUnchanged, OnceUnchanged DEF SentInv
<1>7. QED BY <1>5, <1>6 DEF SentInv

\* What a node has in its log after Append is what it had and, perhaps, the envelope.
LEMMA LoggedEntries ==
  ASSUME NetInv, NEW n \in Receivers, NEW env \in Envelopes,
         log' = [log EXCEPT ![n] = AppendEntry(@, env)]
  PROVE  /\ HasKey(log'[n], env)
         /\ \A f : HasKey(log[n], f) => HasKey(log'[n], f)
         /\ Entries(n)' \subseteq Entries(n) \cup {env}
         /\ \A m \in Receivers \ {n} : log'[m] = log[m]
<1>1. log \in [Receivers -> Seq(Envelopes)] /\ log[n] \in Seq(Envelopes)
  BY DEF NetInv, ReceiveInv, ReceiveType
<1>2. log'[n] = AppendEntry(log[n], env) /\ \A m \in Receivers \ {n} : log'[m] = log[m]
  BY <1>1
<1>3. LET m == AppendEntry(log[n], env) IN
      /\ HasKey(m, env)
      /\ \A f : HasKey(log[n], f) => HasKey(m, f)
      /\ {m[i] : i \in DOMAIN m} \subseteq {log[n][i] : i \in DOMAIN log[n]} \cup {env}
  BY <1>1, AppendEntryFacts
<1>4. QED BY <1>2, <1>3 DEF Entries

\* A node logs an envelope and acts on it, for the first time unless it is gossip.
LEMMA ActedLog ==
  ASSUME NetInv, SentInv, NEW n \in Receivers, NEW env \in Sent, Act(n, env),
         log' = [log EXCEPT ![n] = AppendEntry(@, env)],
         UNCHANGED <<seq, life, published, hand>>, direct' \subseteq direct,
         \A d \in direct' : d.to = n => d.env # env,
         Gossiped(env) \/ env \notin ActedOn(n, env.from)
  PROVE  SentInv'
<1> DEFINE p == env.from
           e == [env |-> env, hand |-> hand[n], life |-> life[n]]
           r == acted[n][p]
<1>1. /\ env \in Envelopes /\ p \in Peers /\ hand[n] \in Nat /\ life[n] \in Nat
      /\ acted \in [Receivers -> [Peers -> Seq(Routed)]] /\ r \in Seq(Routed)
  BY SentType DEF NetInv, SendType, ReceiveInv, ReceiveType, Envelopes, Peers
<1>2. /\ acted'[n][p] = Append(r, e)
      /\ \A q \in Peers \ {p} : acted'[n][q] = acted[n][q]
      /\ \A m \in Receivers \ {n} : acted'[m] = acted[m]
  BY <1>1 DEF Act
<1>3. e \in Routed /\ e.env = env /\ e.hand = hand[n]
  BY <1>1 DEF Routed
<1> HIDE DEF e
<1>4. /\ Len(r) \in Nat /\ DOMAIN r = 1..Len(r)
      /\ DOMAIN acted'[n][p] = 1..(Len(r) + 1)
      /\ acted'[n][p][Len(r) + 1] = e
      /\ \A i \in 1..Len(r) : acted'[n][p][i] = r[i]
  BY <1>1, <1>2, <1>3, AppendRouted
<1>5. /\ HasKey(log'[n], env)
      /\ \A f : HasKey(log[n], f) => HasKey(log'[n], f)
      /\ Entries(n)' \subseteq Entries(n) \cup {env}
      /\ \A m \in Receivers \ {n} : log'[m] = log[m]
  BY <1>1, LoggedEntries
<1>6. ActedInv(n) /\ OnceInv(n)
  BY DEF SentInv
<1>7. ActedOn(n, p)' \subseteq ActedOn(n, p) \cup {env}
  <2>1. \A i \in DOMAIN acted'[n][p] : acted'[n][p][i].env \in ActedOn(n, p) \cup {env}
    <3>1. ASSUME NEW i \in 1..(Len(r) + 1)
          PROVE  acted'[n][p][i].env \in ActedOn(n, p) \cup {env}
      <4>1. CASE i = Len(r) + 1
        BY <4>1, <1>3, <1>4
      <4>2. CASE i \in 1..Len(r)
        BY <4>2, <1>4 DEF ActedOn
      <4>3. QED BY <4>1, <4>2, <3>1, <1>4
    <3>2. QED BY <3>1, <1>4
  <2>2. QED BY <2>1 DEF ActedOn
<1>8. Sent' \subseteq Sent
  <2>1. ASSUME NEW m \in Receivers PROVE Kept(m)' \subseteq Kept(m) \cup {env}
    <3>1. CASE m = n
      <4>1. \A q \in Peers : ActedOn(n, q)' \subseteq ActedOn(n, q) \cup {env}
        <5>1. ASSUME NEW q \in Peers \ {p} PROVE ActedOn(n, q)' = ActedOn(n, q)
          BY <1>2 DEF ActedOn
        <5>2. QED BY <5>1, <1>7
      <4>2. QED BY <4>1, <3>1, <1>5 DEF Kept
    <3>2. CASE m # n
      BY <3>2, <1>2, <1>5 DEF Kept, Entries, ActedOn
    <3>3. QED BY <3>1, <3>2
  <2>2. \A m \in Receivers : Kept(m) \subseteq Sent
    BY DEF Sent
  <2>3. published' \subseteq Sent /\ {d.env : d \in direct'} \subseteq Sent
    BY DEF Sent
  <2>4. Sent' = published' \cup {d.env : d \in direct'} \cup UNION {Kept(m)' : m \in Receivers}
    BY DEF Sent
  <2>5. QED BY <2>1, <2>2, <2>3, <2>4
<1>9. ActedInv(n)'
  <2>1. ASSUME NEW q \in Peers, NEW i \in DOMAIN acted'[n][q]
        PROVE  LET a == acted'[n][q][i] IN
               /\ a.life = life[n] => a.hand <= hand[n]
               /\ a.life = life[n] /\ a.hand = hand[n] => HasKey(log'[n], a.env)
    <3>1. CASE q # p
      BY <3>1, <2>1, <1>2, <1>5, <1>6 DEF ActedInv
    <3>2. CASE q = p /\ i \in 1..Len(r)
      <4>1. acted'[n][q][i] = r[i] /\ i \in DOMAIN r
        BY <3>2, <1>4
      <4>2. QED BY <4>1, <3>2, <1>1, <1>5, <1>6 DEF ActedInv
    <3>3. CASE q = p /\ i = Len(r) + 1
      <4>1. acted'[n][q][i] = e
        BY <3>3, <1>4
      <4>2. QED BY <4>1, <1>1, <1>3, <1>5
    <3>4. q = p => i \in 1..Len(r) \/ i = Len(r) + 1
      BY <2>1, <1>4
    <3>5. QED BY <3>1, <3>2, <3>3, <3>4
  <2>2. QED BY <2>1 DEF ActedInv
<1>10. OnceInv(n)'
  <2>1. ASSUME NEW d \in direct', d.to = n PROVE d.env \notin ActedOn(n, d.env.from)'
    <3>1. d \in direct /\ d.env # env /\ d.env \notin ActedOn(n, d.env.from)
      BY <2>1, <1>6 DEF OnceInv
    <3>2. d.env.from \in Peers
      BY <3>1 DEF NetInv, SendType, Envelopes, Peers
    <3>3. CASE d.env.from = p
      BY <3>1, <3>3, <1>7
    <3>4. CASE d.env.from # p
      BY <3>1, <3>2, <3>4, <1>2 DEF ActedOn
    <3>5. QED BY <3>3, <3>4
  <2>2. ASSUME NEW q \in Peers, NEW i \in DOMAIN acted'[n][q], NEW j \in DOMAIN acted'[n][q],
               i < j, acted'[n][q][i].env = acted'[n][q][j].env
        PROVE  Gossiped(acted'[n][q][i].env)
    <3>1. CASE q # p
      BY <3>1, <2>2, <1>2, <1>6 DEF OnceInv
    <3>2. CASE q = p
      <4>1. i \in 1..Len(r) /\ acted'[n][p][i] = r[i]
        <5>1. i \in 1..(Len(r) + 1) /\ j \in 1..(Len(r) + 1)
          BY <3>2, <2>2, <1>4
        <5>2. i \in 1..Len(r)
          BY ONLY <5>1, <2>2, <1>4
        <5>3. QED BY <5>2, <1>4
      <4>2. CASE j \in 1..Len(r)
        <5>1. acted'[n][p][j] = r[j] /\ i \in DOMAIN r /\ j \in DOMAIN r
          BY <4>1, <4>2, <1>4
        <5>2. QED BY <5>1, <4>1, <3>2, <2>2, <1>1, <1>6 DEF OnceInv
      <4>3. CASE j = Len(r) + 1
        <5>1. r[i].env = env
          BY <4>1, <4>3, <3>2, <2>2, <1>3, <1>4
        <5>2. env \in ActedOn(n, p)
          BY <5>1, <4>1, <1>4 DEF ActedOn
        <5>3. QED BY <5>1, <5>2, <4>1, <3>2
      <4>4. QED BY <4>2, <4>3, <3>2, <2>2, <1>4
    <3>3. QED BY <3>1, <3>2
  <2>3. QED BY <2>1, <2>2 DEF OnceInv
<1>11. ASSUME NEW m \in Receivers, m # n PROVE ActedInv(m)' /\ OnceInv(m)'
  <2>1. ActedInv(m) /\ OnceInv(m)
    BY DEF SentInv
  <2>2. QED BY <2>1, <1>2, <1>5, <1>11, ActedUnchanged, OnceUnchanged
<1>12. QED BY <1>8, <1>9, <1>10, <1>11, ReceiversLog

LEMMA DispatchLog ==
  ASSUME NetInv, SentInv, NEW n \in Receivers, NEW env \in published, Dispatch(n, env)
  PROVE  SentInv'
<1>1. /\ UNCHANGED <<seq, life, published, direct, hand>> /\ Act(n, env)
      /\ log' = [log EXCEPT ![n] = AppendEntry(@, env)]
  BY DEF Dispatch, sendVars
<1>2. env \in Sent /\ Gossiped(env) /\ \A d \in direct : d.env # env
  BY DEF NetInv, SendType, Sent
<1>3. QED BY <1>1, <1>2, ActedLog

LEMMA ReadStreamLog ==
  ASSUME NetInv, SentInv, NEW n \in Receivers, ReadStream(n)
  PROVE  SentInv'
<1>1. PICK d \in direct : d.to = n /\ direct' = direct \ {d} /\ OnDirect(n, d.env)
  BY DEF ReadStream
<1>2. /\ UNCHANGED <<seq, life, published, hand>> /\ Act(n, d.env)
      /\ log' = [log EXCEPT ![n] = AppendEntry(@, d.env)]
  BY <1>1 DEF ReadStream, OnDirect, sendVars
<1>3. d.env \in Sent /\ d.env \notin ActedOn(n, d.env.from)
  BY <1>1 DEF Sent, SentInv, OnceInv
<1>4. \A c \in direct' : c.to = n => c.env # d.env
  <2>1. \A c \in direct : c = [to |-> c.to, env |-> c.env]
    BY DEF NetInv, SendType
  <2>2. QED BY <2>1, <1>1
<1>5. QED BY <1>1, <1>2, <1>3, <1>4, ActedLog

LEMMA SetHandNumLog ==
  ASSUME NetInv, SentInv, NEW n \in Receivers, SetHandNum(n)
  PROVE  SentInv'
<1>1. /\ UNCHANGED <<seq, life, published, direct, acted>>
      /\ hand' = [hand EXCEPT ![n] = @ + 1]
      /\ log' = [log EXCEPT ![n] = << >>]
  BY DEF SetHandNum, sendVars, NewGameLog
<1>2. /\ log \in [Receivers -> Seq(Envelopes)] /\ hand \in [Receivers -> Nat]
      /\ acted \in [Receivers -> [Peers -> Seq(Routed)]]
  BY DEF NetInv, ReceiveInv, ReceiveType
<1>3. /\ log'[n] = << >> /\ hand'[n] = hand[n] + 1
      /\ \A m \in Receivers \ {n} : log'[m] = log[m] /\ hand'[m] = hand[m]
  BY <1>1, <1>2
<1>4. \A m \in Receivers : Kept(m)' \subseteq Kept(m)
  BY <1>1, <1>3 DEF Kept, Entries, ActedOn
<1>5. Sent' \subseteq Sent
  BY <1>1, <1>4 DEF Sent
<1>6. ASSUME NEW m \in Receivers PROVE ActedInv(m)'
  <2>1. ActedInv(m)
    BY DEF SentInv
  <2>2. CASE m # n
    BY <2>1, <2>2, <1>1, <1>3, ActedUnchanged
  <2>3. CASE m = n
    <3>1. ASSUME NEW q \in Peers, NEW i \in DOMAIN acted[n][q], acted[n][q][i].life = life[n]
          PROVE  acted[n][q][i].hand <= hand'[n] /\ acted[n][q][i].hand # hand'[n]
      <4>1. acted[n][q][i].hand <= hand[n]
        BY <2>1, <2>3, <3>1 DEF ActedInv
      <4>2. acted[n][q][i] \in Routed
        BY <1>2, <3>1, LenProperties, ElementOfSeq
      <4>3. acted[n][q][i].hand \in Nat
        BY <4>2 DEF Routed
      <4>4. QED BY <4>1, <4>3, <1>2, <1>3
    <3>2. QED BY <3>1, <2>3, <1>1 DEF ActedInv
  <2>4. QED BY <2>2, <2>3
<1>7. \A m \in Receivers : OnceInv(m)'
  BY <1>1, OnceUnchanged DEF SentInv
<1>8. QED BY <1>1, <1>5, <1>6, <1>7, ReceiversLog

LEMMA StartPlayingLog ==
  ASSUME NetInv, SentInv, NEW n \in Receivers, StartPlaying(n)
  PROVE  SentInv'
<1>1. UNCHANGED <<seq, life, published, direct, log, hand, acted>>
  BY DEF StartPlaying, sendVars
<1>2. Sent' = Sent
  BY <1>1 DEF Sent, Kept, Entries, ActedOn
<1>3. \A m \in Receivers : ActedInv(m)' /\ OnceInv(m)'
  BY <1>1, ActedUnchanged, OnceUnchanged DEF SentInv
<1>4. QED BY <1>1, <1>2, <1>3, ReceiversLog

LEMMA RestartLog ==
  ASSUME NetInv, SentInv, NEW p \in Peers, Restart(p)
  PROVE  SentInv'
<1>1. /\ life' = [life EXCEPT ![p] = @ + 1] /\ seq' = [seq EXCEPT ![p] = 0]
      /\ direct' \subseteq direct /\ UNCHANGED <<published, acted>>
  BY DEF Restart
<1>2. /\ Sent \in SUBSET Envelopes /\ seq \in [Peers -> Nat] /\ life \in [Peers -> Nat]
      /\ log \in [Receivers -> Seq(Envelopes)] /\ hand \in [Receivers -> Nat]
      /\ acted \in [Receivers -> [Peers -> Seq(Routed)]]
  BY SentType DEF NetInv, SendType, ReceiveInv, ReceiveType
<1>3. \A m \in Receivers \ {p} : log'[m] = log[m] /\ hand'[m] = hand[m]
  BY <1>2 DEF Restart
<1>4. p \in Receivers => log'[p] = << >>
  BY <1>2 DEF Restart, NewGameLog
<1>5. Sent' \subseteq Sent
  <2>1. \A m \in Receivers : Kept(m)' \subseteq Kept(m)
    BY <1>1, <1>3, <1>4 DEF Kept, Entries, ActedOn
  <2>2. QED BY <1>1, <2>1 DEF Sent
<1>6. \A e \in Sent : NumberTaken(e, seq', life')
  BY <1>1, <1>2, TakenOutlives DEF SentInv
<1>7. NumbersDiffer(Sent')
  BY <1>5 DEF SentInv, NumbersDiffer
<1>8. ASSUME NEW m \in Receivers PROVE ActedInv(m)'
  <2>1. CASE m # p
    <3>1. life'[m] = life[m]
      BY <2>1, <1>1, <1>2 DEF Peers
    <3>2. QED BY <3>1, <2>1, <1>1, <1>3, ActedUnchanged DEF SentInv
  <2>2. CASE m = p
    <3>1. ASSUME NEW q \in Peers, NEW i \in DOMAIN acted[m][q]
          PROVE  acted[m][q][i].life # life'[m]
      <4>1. acted[m][q][i] \in Routed
        BY <1>2, <3>1, LenProperties, ElementOfSeq
      <4>2. acted[m][q][i].life \in Nat /\ acted[m][q][i].life <= life[m]
        BY <3>1, <4>1 DEF Routed, NetInv, ReceiveInv, NodeInv, OrderedUpTo
      <4>3. life[m] \in Nat /\ life'[m] = life[m] + 1
        BY <2>2, <1>1, <1>2
      <4>4. QED BY <4>2, <4>3
    <3>2. QED BY <3>1, <1>1 DEF ActedInv
  <2>3. QED BY <2>1, <2>2
<1>9. \A m \in Receivers : OnceInv(m)'
  BY <1>1, OnceUnchanged DEF SentInv
<1>10. QED BY <1>5, <1>6, <1>7, <1>8, <1>9 DEF SentInv

LEMMA LogStep == NetInv /\ SentInv /\ [Next]_vars => SentInv'
<1> SUFFICES ASSUME NetInv, SentInv, [Next]_vars PROVE SentInv'
  OBVIOUS
<1>1. CASE UNCHANGED vars
  <2>1. UNCHANGED <<seq, life, published, direct, log, hand, acted>>
    BY <1>1 DEF vars, sendVars, receiveVars
  <2>2. Sent' = Sent
    BY <2>1 DEF Sent, Kept, Entries, ActedOn
  <2>3. \A m \in Receivers : ActedInv(m)' /\ OnceInv(m)'
    BY <2>1, ActedUnchanged, OnceUnchanged DEF SentInv
  <2>4. QED BY <2>1, <2>2, <2>3, ReceiversLog
<1>2. ASSUME NEW p \in Peers, BroadcastJoin(p) \/ BroadcastReady(p) \/ BroadcastAction(p)
      PROVE  SentInv'
  <2>1. Publish(p, "Join") \/ Publish(p, "Ready") \/ Publish(p, "Action")
    BY <1>2 DEF BroadcastJoin, BroadcastReady, BroadcastAction
  <2>2. {"Join", "Ready", "Action"} \subseteq Types \ {"Partial"}
    BY DEF Types
  <2>3. QED BY <2>1, <2>2, PublishLog
<1>3. ASSUME NEW p \in Peers, BroadcastHeartbeat(p) PROVE SentInv'
  BY <1>3, HeartbeatLog
<1>4. ASSUME NEW p \in Peers, NEW n \in Receivers, SendDirectPartialDecrypt(p, n)
      PROVE  SentInv'
  BY <1>4, SendDirectLog
<1>5. ASSUME NEW p \in Peers, Restart(p) PROVE SentInv'
  BY <1>5, RestartLog
<1>6. ASSUME NEW n \in Receivers, receiveLoop(n) PROVE SentInv'
  <2>1. PICK env \in published : Dispatch(n, env)
    BY <1>6 DEF receiveLoop, TableMessages
  <2>2. QED BY <2>1, DispatchLog
<1>7. ASSUME NEW n \in Receivers, ReadStream(n) PROVE SentInv'
  BY <1>7, ReadStreamLog
<1>8. ASSUME NEW n \in Receivers, SetHandNum(n) PROVE SentInv'
  BY <1>8, SetHandNumLog
<1>9. ASSUME NEW n \in Receivers, StartPlaying(n) PROVE SentInv'
  BY <1>9, StartPlayingLog
<1>10. QED BY <1>1, <1>2, <1>3, <1>4, <1>5, <1>6, <1>7, <1>8, <1>9 DEF Next

-----------------------------------------------------------------------------
(* The theorems.                                                           *)

\* The invariant holds in every reachable state, whatever gossip and the streams
\* (gossip.go, node.go) lose, reorder or repeat and whoever restarts.
THEOREM NetCorrect == Spec => []NetInv
<1>1. QED BY NetInit, NetStep, PTL DEF Spec

\* A lobby that lets the game begin (lobby.go:101, :120) has all its seats taken by
\* different players, and every one of them has said that it is ready.
THEOREM ReadyIsComplete == Spec => []ReadyMeansAll
<1>1. NetInv => ReadyMeansAll
  BY DEF NetInv, ReceiveInv, NodeInv, LobbyInv, ReadyMeansAll
<1>2. QED BY <1>1, NetCorrect, PTL

\* Every number belongs to one envelope of one life of its sender, wherever copies
\* of it are, and what a node acts on in a hand takes its place in the hand's log.
THEOREM LogCorrect == Spec => []SentInv
<1>1. QED BY NetCorrect, LogInit, LogStep, PTL DEF Spec

\* CheckAndUpdateSeq (gossip.go:122) and one stream per message (node.go:115) make a
\* node act on nothing twice as long as it does not restart, and on the gossip of a
\* peer with rising numbers, across its hands and the restarts of that peer.
THEOREM RoutingOrdered == Spec => []RoutedOnceInOrder
<1>1. NetInv /\ SentInv => RoutedOnceInOrder
  <2> SUFFICES ASSUME NetInv, SentInv, NEW n \in Receivers, NEW p \in Peers,
                      NEW i \in DOMAIN acted[n][p], NEW j \in DOMAIN acted[n][p],
                      i < j, acted[n][p][i].life = acted[n][p][j].life
               PROVE  LET e == acted[n][p][i].env
                          f == acted[n][p][j].env
                      IN  e # f /\ (Gossiped(e) /\ Gossiped(f) => e.seq < f.seq)
    BY DEF RoutedOnceInOrder
  <2> DEFINE e == acted[n][p][i].env
             f == acted[n][p][j].env
  <2>1. Gossiped(e) /\ Gossiped(f) => e.seq < f.seq
    BY DEF NetInv, ReceiveInv, NodeInv, OrderedUpTo
  <2>2. e = f => Gossiped(e)
    BY DEF SentInv, OnceInv
  <2>3. e.seq \in Nat
    <3>1. acted[n][p] \in Seq(Routed)
      BY DEF NetInv, ReceiveInv, ReceiveType
    <3>2. acted[n][p][i] \in Routed
      BY <3>1, LenProperties, ElementOfSeq
    <3>3. QED BY <3>2 DEF Routed, Envelopes
  <2>4. QED BY <2>1, <2>2, <2>3
<1>2. QED BY <1>1, NetCorrect, LogCorrect, PTL

\* dispatch (node.go:188) and the stream handler (node.go:115) act on an envelope though
\* Append refuses it: only one that shares its number with a message of another life
\* of the sender is missing from the log of the hand then.
THEOREM ActedIsLogged == Spec => []ActedOnIsLogged
<1>1. NetInv /\ SentInv => ActedOnIsLogged
  <2> SUFFICES ASSUME NetInv, SentInv, NEW n \in Receivers, NEW p \in Peers,
                      NEW env \in ActedNow(n, p),
                      \A e \in ToSet(log[n]) :
                        Key(e) = Key(env) => e.payload.life = env.payload.life
               PROVE  Contains(log[n], env)
    BY DEF ActedOnIsLogged
  <2> DEFINE l == log[n]
  <2>1. env \in Sent /\ HasKey(l, env)
    <3>1. PICK a \in ToSet(acted[n][p]) : a.env = env /\ a.hand = hand[n] /\ a.life = life[n]
      BY DEF ActedNow
    <3>2. PICK i \in DOMAIN acted[n][p] : acted[n][p][i] = a
      BY <3>1 DEF ToSet
    <3>3. env \in ActedOn(n, p)
      BY <3>1, <3>2 DEF ActedOn
    <3>4. QED BY <3>1, <3>2, <3>3 DEF SentInv, ActedInv, Sent, Kept
  <2>2. PICK j \in DOMAIN l : Key(l[j]) = Key(env)
    BY <2>1 DEF HasKey
  <2>3. l[j].payload.life = env.payload.life
    BY <2>2 DEF ToSet
  <2>4. l[j] \in Sent
    BY <2>2 DEF Sent, Kept, Entries
  <2>5. l[j] = env
    BY <2>1, <2>2, <2>3, <2>4 DEF SentInv, NumbersDiffer
  <2>6. l \in Seq(Envelopes)
    BY DEF NetInv, ReceiveInv, ReceiveType
  <2>7. DOMAIN l = 1..Len(l)
    BY <2>6, LenProperties
  <2>8. QED BY <2>2, <2>5, <2>7 DEF Contains
<1>2. QED BY <1>1, NetCorrect, LogCorrect, PTL

\* A log that ValidateSequences (gamelog.go:135) passes has all that a sender that
\* has not restarted had published up to the last of its entries there.
THEOREM ValidIsComplete == Spec => []ValidLogIsComplete
<1>1. NetInv /\ SentInv => ValidLogIsComplete
  <2> SUFFICES ASSUME NetInv, SentInv, NEW n \in Receivers, NEW p \in Senders,
                      life[p] = 0, ValidSequence(log[n], p),
                      NEW env \in published, env.from = p,
                      NEW e \in ToSet(log[n]), e.from = p, ~(e.seq < env.seq)
               PROVE  Contains(log[n], env)
    BY DEF ValidLogIsComplete
  <2> DEFINE l == log[n]
             mine == EntriesBySender(l, p)
  <2>1. l \in Seq(Envelopes) /\ DOMAIN l = 1..Len(l) /\ Sent \in SUBSET Envelopes
    BY SentType, LenProperties DEF NetInv, ReceiveInv, ReceiveType
  <2>2. (\A j \in DOMAIN l : l[j] \in Sent) /\ env \in Sent
    BY DEF Sent, Kept, Entries
  <2>3. PICK k \in DOMAIN l : l[k] = e
    BY DEF ToSet
  <2>4. {l[j].seq : j \in mine} = 1..Cardinality(mine)
    BY DEF ValidSequence
  <2>5. k \in mine
    BY <2>3 DEF EntriesBySender
  <2>6. e.seq \in 1..Cardinality(mine)
    BY <2>3, <2>4, <2>5
  <2>7. /\ env.seq \in Nat /\ env.payload.life \in Nat
        /\ \A j \in DOMAIN l : l[j].payload.life \in Nat
    BY <2>1, <2>2 DEF Envelopes
  <2>8. NumberTaken(env, seq, life) /\ \A j \in DOMAIN l : NumberTaken(l[j], seq, life)
    BY <2>2 DEF SentInv
  <2>9. env.seq \in 1..Cardinality(mine)
    <3>1. 1 <= env.seq
      BY <2>8 DEF NumberTaken
    <3>2. IsFiniteSet(mine)
      <4>1. mine \subseteq 1..Len(l) /\ Len(l) \in Nat
        BY <2>1, LenProperties DEF EntriesBySender
      <4> HIDE DEF mine, l
      <4>2. 1 \in Int /\ Len(l) \in Int
        BY <4>1
      <4>3. IsFiniteSet(1..Len(l))
        BY ONLY <4>2, FS_Interval
      <4>4. QED BY ONLY <4>1, <4>3, FS_Subset
    <3>3. Cardinality(mine) \in Nat
      BY <3>2, FS_CardinalityType
    <3> HIDE DEF mine
    <3>4. QED BY <3>1, <3>3, <2>6, <2>7
  <2>10. PICK j \in mine : l[j].seq = env.seq
    BY <2>4, <2>9
  <2>11. j \in DOMAIN l /\ l[j].from = p
    BY <2>10 DEF EntriesBySender
  <2>12. l[j].payload.life = 0 /\ env.payload.life = 0
    BY <2>7, <2>8, <2>11 DEF NumberTaken
  <2>13. l[j] = env
    BY <2>2, <2>10, <2>11, <2>12 DEF SentInv, NumbersDiffer, Key
  <2>14. QED BY <2>1, <2>11, <2>13 DEF Contains
<1>2. QED BY <1>1, NetCorrect, LogCorrect, PTL

\* Of two messages with one number that a node has acted on, its whole history counted,
\* one is of an earlier life of the sender (node.go:270): DetectEquivocation on a log that
\* keeps them all would name only peers that have restarted.
THEOREM OnlyRestartsAreAccused == Spec => []OnlyRestartsEquivocate
<1>1. NetInv /\ SentInv => OnlyRestartsEquivocate
  <2> SUFFICES ASSUME NetInv, SentInv, NEW n \in Receivers, NEW p \in Peers,
                      NEW q \in Equivocators([i \in DOMAIN acted[n][p] |-> acted[n][p][i].env])
               PROVE  life[q] > 0
    BY DEF OnlyRestartsEquivocate
  <2> DEFINE r == acted[n][p]
             all == [i \in DOMAIN r |-> r[i].env]
  <2>1. PICK k \in DOMAIN r : \E j \in 1..(k - 1) :
          q = all[k].from /\ Key(all[j]) = Key(all[k]) /\ all[j].payload # all[k].payload
    BY DEF Equivocators
  <2>2. PICK j \in 1..(k - 1) :
          q = all[k].from /\ Key(all[j]) = Key(all[k]) /\ all[j].payload # all[k].payload
    BY <2>1
  <2>3. PICK m \in Nat : DOMAIN r = 1..m
    <3>1. r \in Seq(Routed)
      BY DEF NetInv, ReceiveInv, ReceiveType
    <3>2. QED BY <3>1, LenProperties
  <2>4. j \in DOMAIN r
    <3>1. k \in 1..m
      BY <2>1, <2>3
    <3>2. j \in 1..m
      BY ONLY <3>1, m \in Nat, j \in 1..(k - 1)
    <3>3. QED BY <3>2, <2>3
  <2>5. PICK e \in Sent, f \in Sent : e = all[k] /\ f = all[j]
    <3>1. all[k] \in ActedOn(n, p) /\ all[j] \in ActedOn(n, p)
      BY <2>1, <2>4 DEF ActedOn
    <3>2. ActedOn(n, p) \subseteq Sent
      <4>1. p \in Peers
        OBVIOUS
      <4>2. QED BY <4>1 DEF Sent, Kept
    <3> HIDE DEF r, all
    <3>3. QED BY <3>1, <3>2
  <2> HIDE DEF r, all
  <2>6. e \in Envelopes /\ f \in Envelopes /\ q = e.from
    BY <2>2, <2>5, SentType
  <2>7. Key(e) = Key(f) /\ e # f
    BY <2>2, <2>5
  <2>8. e.payload.life # f.payload.life
    BY <2>7 DEF SentInv, NumbersDiffer
  <2>9. f.from = q
    BY <2>6, <2>7 DEF Key
  <2>10. NumberTaken(e, seq, life) /\ NumberTaken(f, seq, life)
    BY DEF SentInv
  <2>11. q \in Peers /\ e.payload.life \in Nat /\ f.payload.life \in Nat
    BY <2>6 DEF Envelopes, Peers
  <2>12. life[q] \in Nat
    BY <2>11 DEF NetInv, SendType
  <2>13. QED BY <2>6, <2>8, <2>9, <2>10, <2>11, <2>12 DEF NumberTaken
<1>2. QED BY <1>1, NetCorrect, LogCorrect, PTL
=============================================================================
