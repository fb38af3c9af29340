--------------------------- MODULE FaultVote_proofs ---------------------------
(***************************************************************************)
(* Proofs about FaultVote, for any number of peers, suspects, crashes and  *)
(* late heartbeats: the votes a peer counts are those of peers that missed *)
(* the heartbeat, and nobody is folded by fewer of them than the code's    *)
(* threshold.                                                              *)
(***************************************************************************)
EXTENDS FaultVote, FiniteSetTheorems, TLAPS

Votes == [status : VoteStatuses, yes : SUBSET Peers]
Calls == {"timeout", "confirmed"} \X Suspects

VoteType ==
  /\ votes \in [Peers -> [Suspects -> Votes]]
  /\ calls \in [Peers -> SUBSET Calls]
  /\ ballots \subseteq Peers \X Suspects \X Peers
  /\ folded \in [Peers -> SUBSET Suspects]
  /\ witnesses \in [Suspects -> SUBSET Peers]

\* As many witnesses as the code asks for.
Counted(t) == Cardinality(witnesses[t] \ {t}) >= Threshold(TotalVoters)

\* Who is about to open a vote, and who has sent a ballot, is a witness.
CallersAreWitnesses ==
  \A n \in Peers, t \in Suspects :
    <<"timeout", t>> \in calls[n] => n \in witnesses[t] \ {t}

BallotsAreWitnessed ==
  \A v, n \in Peers, t \in Suspects :
    <<v, t, n>> \in ballots => v \in witnesses[t] \ {t}

\* A vote that is confirmed, waits to be acted on or was acted on had its quorum,
\* although the vote itself may have been opened anew since.
ConfirmedAreCounted ==
  \A n \in Peers, t \in Suspects :
    <<"confirmed", t>> \in calls[n] \/ t \in folded[n] => Counted(t)

VoteInv ==
  /\ VoteType
  /\ VotesAreWitnessed
  /\ CallersAreWitnesses
  /\ BallotsAreWitnessed
  /\ ConfirmedAreCounted

-----------------------------------------------------------------------------
(* One vote.                                                               *)

\* The threshold is a number of peers.
LEMMA ThresholdType == TotalVoters \in Nat /\ Threshold(TotalVoters) \in Nat
<1>1. TotalVoters \in Nat
  BY FaultAssumption, FS_CardinalityType DEF TotalVoters
<1>2. QED BY <1>1 DEF Threshold

\* AddVote adds one yes at most, and confirms only at the threshold.
LEMMA AddVoteAdds ==
  ASSUME NEW vote \in Votes, vote.status = "Pending", NEW voter \in Peers
  PROVE  LET added == AddVote(vote, voter)
         IN  /\ added \in Votes
             /\ added.yes = vote.yes \cup {voter}
             /\ added.status = "Confirmed" => Cardinality(added.yes) >= Threshold(TotalVoters)
BY DEF AddVote, Votes, VoteStatuses

\* Yes votes of witnesses that reach the threshold are enough witnesses.
LEMMA ConfirmedCounts ==
  ASSUME VoteType, NEW t \in Suspects, NEW yes \in SUBSET (witnesses[t] \ {t}),
         Cardinality(yes) >= Threshold(TotalVoters)
  PROVE  Counted(t)
<1>1. witnesses[t] \ {t} \in SUBSET Peers /\ IsFiniteSet(Peers)
  BY FaultAssumption DEF VoteType
<1>2. IsFiniteSet(witnesses[t] \ {t}) /\ IsFiniteSet(yes)
  BY <1>1, FS_Subset
<1>3. Cardinality(yes) <= Cardinality(witnesses[t] \ {t})
  BY <1>2, FS_Subset
<1>4. Cardinality(yes) \in Nat /\ Cardinality(witnesses[t] \ {t}) \in Nat
  BY <1>2, FS_CardinalityType
<1>5. QED BY <1>3, <1>4, ThresholdType DEF Counted

\* The step that StartVote and RecordVote have in common keeps the invariant.
LEMMA SetVoteKeeps ==
  ASSUME VoteInv, NEW n \in Peers, NEW t \in Suspects, NEW vote \in Votes,
         NEW rest \in SUBSET calls[n],
         vote.yes \subseteq witnesses[t] \ {t},
         vote.status = "Confirmed" => Cardinality(vote.yes) >= Threshold(TotalVoters),
         SetVote(n, t, vote, rest), UNCHANGED <<folded, witnesses>>,
         ballots' \subseteq Peers \X Suspects \X Peers, BallotsAreWitnessed'
  PROVE  VoteInv'
<1> USE DEF VoteInv
<1>1. vote.status = "Confirmed" => Counted(t)
  BY ConfirmedCounts
<1>2. VoteType'
  BY DEF VoteType, SetVote, Calls
<1>3. VotesAreWitnessed'
  BY DEF VoteType, SetVote, VotesAreWitnessed
<1>4. \A m \in Peers : calls'[m] \subseteq
        calls[m] \cup (IF m = n /\ vote.status = "Confirmed" THEN {<<"confirmed", t>>} ELSE {})
  BY DEF VoteType, SetVote
<1>5. CallersAreWitnesses'
  BY <1>4 DEF CallersAreWitnesses
<1>6. ConfirmedAreCounted'
  BY <1>1, <1>4 DEF ConfirmedAreCounted, Counted
<1>7. QED BY <1>2, <1>3, <1>5, <1>6

-----------------------------------------------------------------------------
(* The actions.                                                            *)

LEMMA InitVote == Init => VoteInv
BY DEF Init, VoteInv, VoteType, VotesAreWitnessed, CallersAreWitnesses, BallotsAreWitnessed,
       ConfirmedAreCounted, Votes, VoteStatuses, NoVote

\* A missed heartbeat makes a witness: what was counted stays counted.
LEMMA WitnessesGrow ==
  ASSUME VoteType, VoteType', \A t \in Suspects : witnesses[t] \subseteq witnesses'[t]
  PROVE  \A t \in Suspects : Counted(t) => Counted(t)'
<1> SUFFICES ASSUME NEW t \in Suspects, Counted(t) PROVE Counted(t)'
  OBVIOUS
<1>1. IsFiniteSet(witnesses'[t] \ {t}) /\ witnesses[t] \ {t} \subseteq witnesses'[t] \ {t}
  BY FaultAssumption, FS_Subset DEF VoteType
<1>2. /\ Cardinality(witnesses[t] \ {t}) <= Cardinality(witnesses'[t] \ {t})
      /\ Cardinality(witnesses[t] \ {t}) \in Nat /\ Cardinality(witnesses'[t] \ {t}) \in Nat
  BY <1>1, FS_Subset, FS_CardinalityType
<1>3. QED BY <1>2, ThresholdType DEF Counted, TotalVoters

LEMMA CheckTimeoutsKeeps ==
  ASSUME VoteInv, NEW n \in Peers, NEW expired \in SUBSET Monitored(n),
         CheckTimeouts(n, expired)
  PROVE  VoteInv'
<1> USE DEF VoteInv
<1> DEFINE newly == {t \in expired : liveness[n][t] = "Alive"}
<1>1. newly \subseteq Suspects \ {n}
  BY DEF Monitored
<1>2. /\ calls' = [calls EXCEPT ![n] = @ \cup ({"timeout"} \X newly)]
      /\ witnesses' = [t \in Suspects |-> IF t \in newly THEN witnesses[t] \cup {n} ELSE witnesses[t]]
      /\ UNCHANGED <<votes, ballots, folded>>
  BY DEF CheckTimeouts
<1> HIDE DEF newly
<1>3. \A t \in Suspects : witnesses[t] \subseteq witnesses'[t]
  BY <1>2
<1>4. VoteType'
  <2>1. {"timeout"} \X newly \subseteq Calls
    BY <1>1 DEF Calls
  <2>2. QED BY <1>1, <1>2, <2>1 DEF VoteType
<1>5. VotesAreWitnessed'
  BY <1>2, <1>3 DEF VotesAreWitnessed
<1>6. CallersAreWitnesses'
  <2> SUFFICES ASSUME NEW m \in Peers, NEW t \in Suspects, <<"timeout", t>> \in calls'[m]
               PROVE  m \in witnesses'[t] \ {t}
    BY DEF CallersAreWitnesses
  <2>1. CASE <<"timeout", t>> \in calls[m]
    BY <1>3, <2>1 DEF CallersAreWitnesses
  <2>2. CASE m = n /\ t \in newly
    BY <1>1, <1>2, <2>2
  <2>3. QED BY <1>2, <2>1, <2>2 DEF VoteType
<1>7. BallotsAreWitnessed'
  BY <1>2, <1>3 DEF BallotsAreWitnessed
<1>8. ConfirmedAreCounted'
  <2>1. \A t \in Suspects : Counted(t) => Counted(t)'
    BY <1>3, <1>4, WitnessesGrow
  <2>2. \A m \in Peers, t \in Suspects :
          <<"confirmed", t>> \in calls'[m] => <<"confirmed", t>> \in calls[m]
    BY <1>2 DEF VoteType
  <2>3. QED BY <1>2, <2>1, <2>2 DEF ConfirmedAreCounted
<1>9. QED BY <1>4, <1>5, <1>6, <1>7, <1>8

\* A new vote is opened with the yes of one witness.
LEMMA OpenedVote ==
  ASSUME NEW t \in Suspects, VoteType, NEW voter \in witnesses[t] \ {t},
         NEW vote, vote = AddVote([status |-> "Pending", yes |-> {}], voter)
  PROVE  /\ vote \in Votes
         /\ vote.yes \subseteq witnesses[t] \ {t}
         /\ vote.status = "Confirmed" => Cardinality(vote.yes) >= Threshold(TotalVoters)
<1>1. voter \in Peers
  BY DEF VoteType
<1> DEFINE empty == [status |-> "Pending", yes |-> {}]
<1>2. empty \in Votes /\ empty.status = "Pending" /\ empty.yes = {}
  BY DEF Votes, VoteStatuses
<1> HIDE DEF empty
<1>3. vote = AddVote(empty, voter)
  BY DEF empty
<1>4. QED BY <1>1, <1>2, <1>3, AddVoteAdds

LEMMA OnTimeoutKeeps ==
  ASSUME VoteInv, NEW n \in Peers, NEW t \in Suspects, OnTimeout(n, t)
  PROVE  VoteInv'
<1> DEFINE rest == calls[n] \ {<<"timeout", t>>}
           opened == AddVote([status |-> "Pending", yes |-> {}], n)
<1>1. n \in witnesses[t] \ {t}
  BY DEF OnTimeout, VoteInv, CallersAreWitnesses
<1>2. UNCHANGED <<folded, witnesses>>
  BY DEF OnTimeout
<1>3. ballots' \subseteq Peers \X Suspects \X Peers
  BY DEF OnTimeout, VoteInv, VoteType
<1>4. BallotsAreWitnessed'
  <2> SUFFICES ASSUME NEW v \in Peers, NEW m \in Peers, NEW s \in Suspects,
                      <<v, s, m>> \in ballots'
               PROVE  v \in witnesses[s] \ {s}
    BY <1>2 DEF BallotsAreWitnessed
  <2>1. <<v, s, m>> \in ballots \/ (v = n /\ s = t)
    BY DEF OnTimeout
  <2>2. QED BY <1>1, <2>1 DEF VoteInv, BallotsAreWitnessed
<1>5. CASE votes[n][t].status = "Pending"
  <2>1. calls' = [calls EXCEPT ![n] = rest] /\ UNCHANGED votes
    BY <1>5 DEF OnTimeout, StartVote
  <2>2. \A m \in Peers : calls'[m] \subseteq calls[m]
    BY <2>1 DEF VoteInv, VoteType
  <2>3. VoteType'
    BY <1>2, <1>3, <2>1 DEF VoteInv, VoteType
  <2>4. VotesAreWitnessed' /\ CallersAreWitnesses' /\ ConfirmedAreCounted'
    BY <1>2, <2>1, <2>2
       DEF VoteInv, VotesAreWitnessed, CallersAreWitnesses, ConfirmedAreCounted, Counted
  <2>5. QED BY <1>4, <2>3, <2>4 DEF VoteInv
<1>6. CASE votes[n][t].status # "Pending"
  <2>1. SetVote(n, t, opened, rest)
    BY <1>6 DEF OnTimeout, StartVote
  <2> HIDE DEF opened
  <2>2. /\ opened \in Votes
        /\ opened.yes \subseteq witnesses[t] \ {t}
        /\ opened.status = "Confirmed" => Cardinality(opened.yes) >= Threshold(TotalVoters)
    BY <1>1, OpenedVote DEF opened, VoteInv
  <2>3. rest \in SUBSET calls[n]
    OBVIOUS
  <2> HIDE DEF rest
  <2>4. QED BY <1>2, <1>3, <1>4, <2>1, <2>2, <2>3, SetVoteKeeps
<1>7. QED BY <1>5, <1>6

LEMMA HandleTimeoutVoteKeeps ==
  ASSUME VoteInv, NEW n \in Peers, NEW t \in Suspects, NEW voter \in Peers,
         HandleTimeoutVote(n, t, voter)
  PROVE  VoteInv'
<1> DEFINE opened == AddVote([status |-> "Pending", yes |-> {}], voter)
           added  == AddVote(votes[n][t], voter)
<1>1. voter \in witnesses[t] \ {t}
  BY DEF HandleTimeoutVote, VoteInv, BallotsAreWitnessed
<1>2. UNCHANGED <<folded, witnesses>> /\ ballots' \subseteq ballots /\ RecordVote(n, t, voter)
  BY DEF HandleTimeoutVote
<1>3. ballots' \subseteq Peers \X Suspects \X Peers
  BY <1>2 DEF VoteInv, VoteType
<1>4. BallotsAreWitnessed'
  BY <1>2 DEF VoteInv, BallotsAreWitnessed
<1>5. CASE votes[n][t].status = "None"
  <2>1. SetVote(n, t, opened, calls[n])
    BY <1>2, <1>5 DEF RecordVote
  <2> HIDE DEF opened
  <2>2. /\ opened \in Votes
        /\ opened.yes \subseteq witnesses[t] \ {t}
        /\ opened.status = "Confirmed" => Cardinality(opened.yes) >= Threshold(TotalVoters)
    BY <1>1, OpenedVote DEF opened, VoteInv
  <2>3. QED BY <1>2, <1>3, <1>4, <2>1, <2>2, SetVoteKeeps
<1>6. CASE votes[n][t].status = "Pending"
  <2>1. SetVote(n, t, added, calls[n])
    BY <1>2, <1>6 DEF RecordVote
  <2>2. votes[n][t] \in Votes /\ votes[n][t].yes \subseteq witnesses[t] \ {t}
    BY DEF VoteInv, VoteType, VotesAreWitnessed
  <2>3. /\ added \in Votes
        /\ added.yes = votes[n][t].yes \cup {voter}
        /\ added.status = "Confirmed" => Cardinality(added.yes) >= Threshold(TotalVoters)
    BY <1>6, <2>2, AddVoteAdds
  <2> HIDE DEF added
  <2>4. added.yes \subseteq witnesses[t] \ {t}
    BY <1>1, <2>2, <2>3
  <2>5. QED BY <1>2, <1>3, <1>4, <2>1, <2>3, <2>4, SetVoteKeeps
<1>7. CASE votes[n][t].status \notin {"None", "Pending"}
  <2>1. UNCHANGED <<votes, calls>>
    BY <1>2, <1>7 DEF RecordVote
  <2>2. VoteType'
    BY <1>2, <1>3, <2>1 DEF VoteInv, VoteType
  <2>3. VotesAreWitnessed' /\ CallersAreWitnesses' /\ ConfirmedAreCounted'
    BY <1>2, <2>1
       DEF VoteInv, VotesAreWitnessed, CallersAreWitnesses, ConfirmedAreCounted, Counted
  <2>4. QED BY <1>4, <2>2, <2>3 DEF VoteInv
<1>8. QED BY <1>5, <1>6, <1>7

\* A fold is made for a vote that was confirmed.
LEMMA OnConfirmedKeeps ==
  ASSUME VoteInv, NEW n \in Peers, NEW t \in Suspects, OnConfirmed(n, t)
  PROVE  VoteInv'
<1> USE DEF VoteInv
<1>1. /\ calls' = [calls EXCEPT ![n] = @ \ {<<"confirmed", t>>}]
      /\ folded' = [folded EXCEPT ![n] = @ \cup {t}]
      /\ UNCHANGED <<votes, ballots, witnesses>>
  BY DEF OnConfirmed
<1>2. Counted(t)
  BY DEF OnConfirmed, ConfirmedAreCounted
<1>3. VoteType'
  BY <1>1 DEF VoteType
<1>4. \A m \in Peers : /\ calls'[m] \subseteq calls[m]
                       /\ folded'[m] \subseteq folded[m] \cup {t}
  BY <1>1 DEF VoteType
<1>5. VotesAreWitnessed' /\ CallersAreWitnesses' /\ BallotsAreWitnessed'
  BY <1>1, <1>4 DEF VotesAreWitnessed, CallersAreWitnesses, BallotsAreWitnessed
<1>6. ConfirmedAreCounted'
  BY <1>1, <1>2, <1>4 DEF ConfirmedAreCounted, Counted
<1>7. QED BY <1>3, <1>5, <1>6

\* A vote that expires keeps its yes votes and confirms nothing.
LEMMA ExpireStaleVoteKeeps ==
  ASSUME VoteInv, NEW n \in Peers, NEW t \in Suspects, ExpireStaleVote(n, t)
  PROVE  VoteInv'
<1> USE DEF VoteInv
<1>1. /\ votes' = [votes EXCEPT ![n][t].status = "Rejected"]
      /\ UNCHANGED <<calls, ballots, folded, witnesses>>
  BY DEF ExpireStaleVote
<1> DEFINE expired == [status |-> "Rejected", yes |-> votes[n][t].yes]
<1>2. \A m \in Peers, s \in Suspects :
        votes'[m][s] \in Votes /\ votes'[m][s].yes = votes[m][s].yes
  <2>1. votes[n][t] \in Votes
    BY DEF VoteType
  <2>2. [votes[n][t] EXCEPT !.status = "Rejected"] = expired /\ expired \in Votes
    BY <2>1 DEF Votes, VoteStatuses
  <2>3. votes' = [votes EXCEPT ![n] = [votes[n] EXCEPT ![t] = expired]]
    BY <1>1, <2>2, Zenon
  <2>4. expired.yes = votes[n][t].yes
    OBVIOUS
  <2> HIDE DEF expired
  <2>5. \A m \in Peers, s \in Suspects :
          votes'[m][s] = IF m = n /\ s = t THEN expired ELSE votes[m][s]
    BY <2>3 DEF VoteType
  <2>6. QED BY <2>2, <2>4, <2>5 DEF VoteType
<1>3. VoteType'
  <2>1. votes' \in [Peers -> [Suspects -> Votes]]
    BY <1>1, <1>2 DEF VoteType
  <2>2. QED BY <1>1, <2>1 DEF VoteType
<1>4. VotesAreWitnessed'
  BY <1>1, <1>2 DEF VotesAreWitnessed
<1>5. CallersAreWitnesses' /\ BallotsAreWitnessed' /\ ConfirmedAreCounted'
  BY <1>1 DEF CallersAreWitnesses, BallotsAreWitnessed, ConfirmedAreCounted, Counted
<1>6. QED BY <1>3, <1>4, <1>5

LEMMA NextKeepsVote == VoteInv /\ [Next]_vars => VoteInv'
<1> SUFFICES ASSUME VoteInv, [Next]_vars PROVE VoteInv'
  OBVIOUS
<1>1. ASSUME UNCHANGED <<votes, calls, ballots, folded, witnesses>> PROVE VoteInv'
  BY <1>1 DEF VoteInv, VoteType, VotesAreWitnessed, CallersAreWitnesses, BallotsAreWitnessed,
              ConfirmedAreCounted, Counted
<1>2. ASSUME NEW n \in Peers, Crash(n) PROVE VoteInv'
  BY <1>1, <1>2 DEF Crash
<1>3. ASSUME NEW n \in Peers, NEW t \in Suspects, RecordHeartbeat(n, t) PROVE VoteInv'
  BY <1>1, <1>3 DEF RecordHeartbeat
<1>4. ASSUME UNCHANGED vars PROVE VoteInv'
  BY <1>1, <1>4 DEF vars
<1>5. ASSUME NEW n \in Peers, PeerStep(n) PROVE VoteInv'
  BY <1>3, <1>5, CheckTimeoutsKeeps, OnTimeoutKeeps, HandleTimeoutVoteKeeps, OnConfirmedKeeps,
     ExpireStaleVoteKeeps DEF PeerStep
<1>6. QED BY <1>2, <1>4, <1>5 DEF Next

-----------------------------------------------------------------------------
(* Theorems.                                                               *)

\* The inductive invariant, always.
THEOREM VoteCorrect == Spec => []VoteInv
BY InitVote, NextKeepsVote, PTL DEF Spec

\* Whatever is lost, late, reopened or expired, a peer counts only the yes votes
\* of peers that have seen the heartbeat expire themselves.
THEOREM VotesWitnessed == Spec => []VotesAreWitnessed
<1>1. VoteInv => VotesAreWitnessed
  BY DEF VoteInv
<1>2. QED BY <1>1, VoteCorrect, PTL

\* Everybody who is folded, anywhere, was missed by as many of the other peers as
\* the code's threshold says: at any number of peers.
FoldsAreCounted == \A n \in Peers : \A t \in folded[n] : Counted(t)

THEOREM FoldsCounted == Spec => []FoldsAreCounted
<1>1. VoteInv => FoldsAreCounted
  BY DEF VoteInv, VoteType, ConfirmedAreCounted, FoldsAreCounted
<1>2. QED BY <1>1, VoteCorrect, PTL

\* The threshold is two thirds rounded to the nearest, which is two thirds, rounded
\* up, unless the other peers number one less than a multiple of three.
LEMMA ThresholdIsTwoThirds ==
  (TotalVoters + 1) % 3 # 0 => Threshold(TotalVoters) >= TwoThirds
BY ThresholdType DEF Threshold, TwoThirds

\* Two thirds of the others have to miss a peer's heartbeat before it is folded,
\* at a table of any size that is not a multiple of three.
THEOREM QuorumFolds ==
  ASSUME Cardinality(Peers) % 3 # 0
  PROVE  Spec => []FoldNeedsQuorum
<1>1. Threshold(TotalVoters) >= TwoThirds
  <2>1. TotalVoters + 1 = Cardinality(Peers)
    BY FaultAssumption, FS_CardinalityType DEF TotalVoters
  <2>2. QED BY <2>1, ThresholdIsTwoThirds
<1>2. VoteInv => FoldNeedsQuorum
  <2> SUFFICES ASSUME VoteInv, NEW n \in Peers, NEW t \in folded[n]
               PROVE  Cardinality(witnesses[t] \ {t}) >= TwoThirds
    BY DEF FoldNeedsQuorum
  <2>1. t \in Suspects /\ Counted(t)
    BY DEF VoteInv, VoteType, ConfirmedAreCounted
  <2>2. Cardinality(witnesses[t] \ {t}) \in Nat
    BY <2>1, FaultAssumption, FS_Subset, FS_CardinalityType DEF VoteInv, VoteType
  <2>3. QED BY <1>1, <2>1, <2>2, ThresholdType DEF Counted, TwoThirds
<1>3. QED BY <1>2, VoteCorrect, PTL

\* With four peers or more, nobody is folded on the word of a single other peer.
NoLoneFold == \A n \in Peers : \A t \in folded[n] : Cardinality(witnesses[t] \ {t}) >= 2

THEOREM NobodyFoldsAlone ==
  ASSUME Cardinality(Peers) >= 4
  PROVE  Spec => []NoLoneFold
<1>1. Threshold(TotalVoters) >= 2
  BY FaultAssumption, FS_CardinalityType DEF TotalVoters, Threshold
<1>2. VoteInv => NoLoneFold
  <2> SUFFICES ASSUME VoteInv, NEW n \in Peers, NEW t \in folded[n]
               PROVE  Cardinality(witnesses[t] \ {t}) >= 2
    BY DEF NoLoneFold
  <2>1. t \in Suspects /\ Counted(t)
    BY DEF VoteInv, VoteType, ConfirmedAreCounted
  <2>2. Cardinality(witnesses[t] \ {t}) \in Nat
    BY <2>1, FaultAssumption, FS_Subset, FS_CardinalityType DEF VoteInv, VoteType
  <2>3. QED BY <1>1, <2>1, <2>2, ThresholdType DEF Counted
<1>3. QED BY <1>2, VoteCorrect, PTL
=============================================================================
