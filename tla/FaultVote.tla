----------------------------- MODULE FaultVote ------------------------------
(***************************************************************************)
(* How the peers of a table decide that one of them is gone: every peer    *)
(* runs the HeartbeatMonitor, the TimeoutManager and the callbacks that    *)
(* NewFaultManager and RegisterPlayers put between them (phase5).  Peers   *)
(* talk over an unreliable network: a message that is never delivered is   *)
(* a lost one.  Callbacks run in goroutines of their own, "go OnTimeout"   *)
(* and "go OnConfirmed", and may run long after the step that started      *)
(* them.  Time is abstract: when the ticker looks, the last heartbeat of a *)
(* peer may or may not be older than the timeout.  PeerSuspect counts as   *)
(* Alive: no step tells the two apart (AlivePeers).                        *)
(*                                                                         *)
(* The votes about one target do not touch those about another: Suspects   *)
(* are the peers that heartbeats may be missed from.  A TimeoutVote on the *)
(* wire carries no answer (messages.pb.go:242), every vote is a yes.       *)
(***************************************************************************)
EXTENDS Integers, FiniteSets

CONSTANTS
  Peers,
  Suspects,
  MaxCrashes,   \* bound: how many peers may crash
  MaxRevivals,  \* bound: how often a peer is heard of after its timeout
  VotesExpire   \* whether somebody calls ExpireStaleVotes: phase5 never does

ASSUME FaultAssumption ==
  /\ IsFiniteSet(Peers) /\ Cardinality(Peers) >= 2
  /\ Suspects \subseteq Peers
  /\ MaxCrashes \in Nat /\ MaxRevivals \in Nat
  /\ VotesExpire \in BOOLEAN

VARIABLES
  up,        \* the peers that have not crashed
  liveness,  \* liveness[n][t]: PeerLiveness.Status
  votes,     \* votes[n][t]: the TimeoutVote of n about t
  calls,     \* calls[n]: the goroutines waiting to run at n
  ballots,   \* ballots on their way: <<voter, target, receiver>>
  folded,    \* folded[n]: the targets OnPlayerFolded was called for at n
  witnesses, \* history: witnesses[t], the peers that saw t's heartbeat expire
  revivals   \* the number of heartbeats that came after the timeout

vars == <<up, liveness, votes, calls, ballots, folded, witnesses, revivals>>

Statuses     == {"Alive", "TimedOut", "Disconnected"}
VoteStatuses == {"None", "Pending", "Confirmed", "Rejected"}

NoVote == [status |-> "None", yes |-> {}]

\* RegisterPlayers: a peer does not monitor itself.
Monitored(n) == Suspects \ {n}

Init ==
  /\ up = Peers
  /\ liveness = [n \in Peers |-> [t \in Suspects |-> "Alive"]]
  /\ votes = [n \in Peers |-> [t \in Suspects |-> NoVote]]
  /\ calls = [n \in Peers |-> {}]
  /\ ballots = {}
  /\ folded = [n \in Peers |-> {}]
  /\ witnesses = [t \in Suspects |-> {}]
  /\ revivals = 0

-----------------------------------------------------------------------------
(* TimeoutVote.                                                            *)

\* TotalVoters: everybody but the target.
TotalVoters == Cardinality(Peers) - 1

\* Mutant: a simple majority confirms.
Threshold_Majority(voters) == voters \div 2

\* int(voters * 2/3 + 0.5), at least 1: two thirds rounded to the nearest.
Threshold(voters) ==
  LET rounded == (4 * voters + 3) \div 6
  IN  IF rounded < 1 THEN 1 ELSE rounded

\* AddVote, a yes vote.
AddVote(vote, voter) ==
  LET yes == vote.yes \cup {voter} IN
  IF vote.status # "Pending" THEN vote
  ELSE [status |-> IF Cardinality(yes) >= Threshold(TotalVoters) THEN "Confirmed"
                   ELSE IF Cardinality(yes) = TotalVoters THEN "Rejected" ELSE "Pending",
        yes    |-> yes]

\* Peer n's vote about t becomes "vote", and "go OnConfirmed" if that confirms it;
\* "rest" are the goroutines of n that were waiting.
SetVote(n, t, vote, rest) ==
  /\ votes' = [votes EXCEPT ![n][t] = vote]
  /\ calls' = [calls EXCEPT ![n] =
                 IF vote.status = "Confirmed" THEN rest \cup {<<"confirmed", t>>} ELSE rest]

\* StartVote: nothing if a vote is open, otherwise a new one with the caller's yes.
StartVote(n, t, rest) ==
  IF votes[n][t].status = "Pending"
  THEN /\ calls' = [calls EXCEPT ![n] = rest]
       /\ UNCHANGED votes
  ELSE SetVote(n, t, AddVote([status |-> "Pending", yes |-> {}], n), rest)

\* Mutant: the peer that opens a vote for a ballot votes yes itself.
RecordVote_VotesToo(n, t, voter) ==
  CASE votes[n][t].status = "None" ->
         SetVote(n, t, AddVote(AddVote([status |-> "Pending", yes |-> {}], n), voter), calls[n])
    [] votes[n][t].status = "Pending" ->
         SetVote(n, t, AddVote(votes[n][t], voter), calls[n])
    [] OTHER -> UNCHANGED <<votes, calls>>

\* RecordVote: the first ballot opens the vote, a closed vote ignores them.
RecordVote(n, t, voter) ==
  CASE votes[n][t].status = "None" ->
         SetVote(n, t, AddVote([status |-> "Pending", yes |-> {}], voter), calls[n])
    [] votes[n][t].status = "Pending" ->
         SetVote(n, t, AddVote(votes[n][t], voter), calls[n])
    [] OTHER -> UNCHANGED <<votes, calls>>

-----------------------------------------------------------------------------
(* The network and the clock.                                              *)

\* A peer that is not suspected may fall silent in other ways: none of its steps,
\* and no message of its own, has to come.
Crash(n) ==
  /\ n \in up \cap Suspects
  /\ Cardinality(Peers \ up) < MaxCrashes
  /\ up' = up \ {n}
  /\ UNCHANGED <<liveness, votes, calls, ballots, folded, witnesses, revivals>>

\* HeartbeatSender.Run and RecordHeartbeat: while t is up its next beat may come at
\* any time, and whatever the status was, the peer is alive.  A beat that comes
\* after t has crashed is one before a later crash.
RecordHeartbeat(n, t) ==
  /\ n \in up /\ t \in Monitored(n) \cap up
  /\ liveness[n][t] # "Alive" /\ revivals < MaxRevivals
  /\ revivals' = revivals + 1
  /\ liveness' = [liveness EXCEPT ![n][t] = "Alive"]
  /\ UNCHANGED <<up, votes, calls, ballots, folded, witnesses>>

\* CheckTimeouts, on the ticker, when the heartbeats of "expired" are too old:
\* "go OnTimeout" for each peer that has newly crossed the timeout.
CheckTimeouts(n, expired) ==
  LET newly == {t \in expired : liveness[n][t] = "Alive"} IN
  /\ n \in up /\ newly # {}
  /\ liveness' = [liveness EXCEPT ![n] =
                    [t \in Suspects |-> IF t \in newly THEN "TimedOut" ELSE @[t]]]
  /\ calls' = [calls EXCEPT ![n] = @ \cup ({"timeout"} \X newly)]
  /\ witnesses' = [t \in Suspects |-> IF t \in newly THEN witnesses[t] \cup {n} ELSE witnesses[t]]
  /\ UNCHANGED <<up, votes, ballots, folded, revivals>>

-----------------------------------------------------------------------------
(* The callbacks wired by the FaultManager, and incoming ballots.          *)

\* heartbeat.OnTimeout: OnTimeoutVoteNeeded broadcasts n's ballot, then StartVote.
OnTimeout(n, t) ==
  /\ n \in up /\ <<"timeout", t>> \in calls[n]
  /\ ballots' = ballots \cup ({n} \X {t} \X (Peers \ {n}))
  /\ StartVote(n, t, calls[n] \ {<<"timeout", t>>})
  /\ UNCHANGED <<up, liveness, folded, witnesses, revivals>>

\* HandleTimeoutVote.
HandleTimeoutVote(n, t, voter) ==
  /\ n \in up /\ <<voter, t, n>> \in ballots
  /\ ballots' = ballots \ {<<voter, t, n>>}
  /\ RecordVote(n, t, voter)
  /\ UNCHANGED <<up, liveness, folded, witnesses, revivals>>

\* timeouts.OnConfirmed: MarkDisconnected and OnPlayerFolded.
OnConfirmed(n, t) ==
  /\ n \in up /\ <<"confirmed", t>> \in calls[n]
  /\ calls' = [calls EXCEPT ![n] = @ \ {<<"confirmed", t>>}]
  /\ liveness' = [liveness EXCEPT ![n][t] = IF t = n THEN @ ELSE "Disconnected"]
  /\ folded' = [folded EXCEPT ![n] = @ \cup {t}]
  /\ UNCHANGED <<up, votes, ballots, witnesses, revivals>>

\* ExpireStaleVotes, for a vote that has been open too long.
ExpireStaleVote(n, t) ==
  /\ VotesExpire
  /\ n \in up /\ votes[n][t].status = "Pending"
  /\ votes' = [votes EXCEPT ![n][t].status = "Rejected"]
  /\ UNCHANGED <<up, liveness, calls, ballots, folded, witnesses, revivals>>

PeerStep(n) ==
  \/ \E expired \in SUBSET Monitored(n) : CheckTimeouts(n, expired)
  \/ \E t \in Suspects :
       \/ RecordHeartbeat(n, t)
       \/ OnTimeout(n, t)
       \/ OnConfirmed(n, t)
       \/ ExpireStaleVote(n, t)
       \/ \E voter \in Peers : HandleTimeoutVote(n, t, voter)

Next == \E n \in Peers : Crash(n) \/ PeerStep(n)

Spec == Init /\ [][Next]_vars

\* The ticker keeps ticking while a crashed peer's last heartbeat grows old,
\* goroutines are scheduled, and the network delivers.
Fairness ==
  \A n \in Peers, t \in Suspects :
    /\ WF_vars(t \in Monitored(n) \ up /\ CheckTimeouts(n, {t}))
    /\ WF_vars(OnTimeout(n, t))
    /\ WF_vars(OnConfirmed(n, t))
    /\ \A voter \in Peers : WF_vars(HandleTimeoutVote(n, t, voter))

FairSpec == Spec /\ Fairness
-----------------------------------------------------------------------------
(* Properties.                                                             *)

TwoThirds == (2 * TotalVoters + 2) \div 3

\* A peer is folded, anywhere, only if two thirds of the others have each seen
\* its heartbeat expire, whatever the network loses, delays or reorders and
\* however often votes are opened again: no single peer forces a fold
\* (timeout.go:10; protocol.md:174).
FoldNeedsQuorum ==
  \A n \in Peers : \A t \in folded[n] : Cardinality(witnesses[t] \ {t}) >= TwoThirds

\* The yes votes any peer counts about t are those of peers that saw t's
\* heartbeat expire, across late ballots, reopened and expired votes.
VotesAreWitnessed ==
  \A n \in Peers, t \in Suspects : votes[n][t].yes \subseteq witnesses[t] \ {t}

\* A peer that has crashed is in the end folded by every peer that has not, when
\* the network delivers: the game goes on with one dropout (timeout.go:11).
CrashedIsFolded ==
  \A t \in Suspects, n \in Peers : t \notin up ~> (t \in folded[n] \/ n \notin up)
=============================================================================
