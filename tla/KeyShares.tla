----------------------------- MODULE KeyShares ------------------------------
(***************************************************************************)
(* How the peers rebuild the decryption key of one that disconnects during *)
(* the deal (phase5/shamir.go, manager.go): at the start of the hand the   *)
(* owner splits its key and sends share j to seat j over a private stream; *)
(* when it is gone the others broadcast their shares and collect those of  *)
(* the others.  Messages are delayed and reordered, and a broadcast may    *)
(* come again at any time; what is never delivered is lost.                *)
(***************************************************************************)
EXTENDS Shamir, SequencesExt

CONSTANTS
  N,          \* seats, 1..N
  Owner,      \* whose key it is
  MaxCrashes  \* bound: how many peers may crash

ASSUME KeyAssumption ==
  /\ N \in Nat /\ N >= 2 /\ Owner \in 1..N /\ MaxCrashes \in Nat
  /\ P \in Nat /\ P > N /\ \A d \in 2..(P - 1) : P % d # 0

VARIABLES
  up,       \* the peers that have not crashed
  coeffs,   \* the polynomial the owner has drawn; coeffs[0] is its key
  private,  \* the peers the owner's private share is on its way to
  received, \* the peers that hold their share: sharesReceived
  contrib,  \* the peers that have broadcast their share
  held,     \* held[n]: the numbers of the shares n has collected: sharesHeld
  key       \* key[n]: what n has reconstructed, NoKey before that

vars == <<up, coeffs, private, received, contrib, held, key>>

Peers == 1..N
NoKey == -1

\* SplitAndDistribute: half of the seats, rounded up, at least two.
Threshold == IF (N + 1) \div 2 < 2 THEN 2 ELSE (N + 1) \div 2

Value == SplitSecret(coeffs, N)

\* The exponents that have an inverse modulo P - 1; GenerateSRAKey draws one that is
\* not 1.
Exponents == {d \in 1..(P - 2) : \E e \in 1..(P - 2) : (d * e) % (P - 1) = 1}

Init ==
  /\ up = Peers
  /\ \E secret \in Exponents \ {1} : coeffs \in Polynomials(secret, Threshold)
  /\ private = Peers \ {Owner}
  /\ received = {}
  /\ contrib = {}
  /\ held = [n \in Peers |-> << >>]
  /\ key = [n \in Peers |-> NoKey]

Crash(n) ==
  /\ n \in up
  /\ Cardinality(Peers \ up) < MaxCrashes
  /\ up' = up \ {n}
  /\ UNCHANGED <<coeffs, private, received, contrib, held, key>>

\* StoreKeyShare.
StoreKeyShare(n) ==
  /\ n \in up /\ n \in private
  /\ private' = private \ {n}
  /\ received' = received \cup {n}
  /\ UNCHANGED <<up, coeffs, contrib, held, key>>

\* BroadcastMyShareFor, when the owner is gone.  ContributeShare reads n's share
\* and n's own collection stays as it is.
BroadcastMyShareFor(n) ==
  /\ n \in up /\ Owner \notin up
  /\ n \in received
  /\ contrib' = contrib \cup {n}
  /\ UNCHANGED <<up, coeffs, private, received, held, key>>

\* AddReconstructionShare: a share of each number once, in the order they come.
AddReconstructionShare(n, from) ==
  /\ n \in up /\ from \in contrib \ {n}
  /\ held' = [held EXCEPT ![n] = IF Contains(@, from) THEN @ ELSE Append(@, from)]
  /\ UNCHANGED <<up, coeffs, private, received, contrib, key>>

\* Mutant: one share less will do.
TryReconstructKey_Early(n) ==
  LET xs == SubSeq(held[n], 1, Threshold - 1) IN
  /\ n \in up /\ key[n] = NoKey
  /\ Len(held[n]) >= Threshold - 1
  /\ CanInterpolate(xs) /\ ReconstructSecret(xs, Value) \in Exponents
  /\ key' = [key EXCEPT ![n] = ReconstructSecret(xs, Value)]
  /\ UNCHANGED <<up, coeffs, private, received, contrib, held>>

\* Mutant: it takes more than the threshold.
TryReconstructKey_OneMore(n) ==
  LET xs == SubSeq(held[n], 1, Threshold) IN
  /\ n \in up /\ key[n] = NoKey
  /\ Len(held[n]) > Threshold
  /\ CanInterpolate(xs) /\ ReconstructSecret(xs, Value) \in Exponents
  /\ key' = [key EXCEPT ![n] = ReconstructSecret(xs, Value)]
  /\ UNCHANGED <<up, coeffs, private, received, contrib, held>>

\* TryReconstructKey: CanReconstruct, then ReconstructSRAKey from the first
\* shares, which fails for a number that is not a key.
TryReconstructKey(n) ==
  LET xs == SubSeq(held[n], 1, Threshold) IN
  /\ n \in up /\ key[n] = NoKey
  /\ Len(held[n]) >= Threshold
  /\ CanInterpolate(xs) /\ ReconstructSecret(xs, Value) \in Exponents
  /\ key' = [key EXCEPT ![n] = ReconstructSecret(xs, Value)]
  /\ UNCHANGED <<up, coeffs, private, received, contrib, held>>

Next ==
  \E n \in Peers :
    \/ Crash(n)
    \/ StoreKeyShare(n)
    \/ BroadcastMyShareFor(n)
    \/ \E from \in Peers : AddReconstructionShare(n, from)
    \/ TryReconstructKey(n)

Spec == Init /\ [][Next]_vars

\* Messages are delivered and the peers that are left go through the protocol.
Fairness ==
  \A n \in Peers :
    /\ WF_vars(StoreKeyShare(n))
    /\ WF_vars(BroadcastMyShareFor(n))
    /\ WF_vars(\E from \in Peers : AddReconstructionShare(n, from))
    /\ WF_vars(TryReconstructKey(n))

FairSpec == Spec /\ Fairness
-----------------------------------------------------------------------------
(* Properties.                                                             *)

\* What a peer rebuilds is the owner's key, whatever shares it has got, in
\* whatever order, and however often they were sent.
RecoveredIsTheKey == \A n \in Peers : key[n] \in {NoKey, coeffs[0]}

JustSplit == private = Peers \ {Owner} /\ up = Peers

\* When the key has been split, any t shares give it back in whatever order they
\* are collected, for every threshold t and every polynomial (commit.go:114).
QuorumRecovers ==
  JustSplit => \A t \in Threshold..(N - 1) :
    \A f \in Polynomials(coeffs[0], t), xs \in [1..t -> Peers] :
      IsInjective(xs) =>
        CanInterpolate(xs) /\ ReconstructSecret(xs, SplitSecret(f, N)) = coeffs[0]

\* "fewer than t reveal nothing" (commit.go:115): whatever the shares of fewer
\* peers than the threshold are, each key explains them with one polynomial.
FewerRevealNothing ==
  JustSplit => \A xs \in [1..(Threshold - 1) -> Peers], secret \in Field :
    IsInjective(xs) =>
      Cardinality({f \in Polynomials(secret, Threshold) :
        \A i \in DOMAIN xs : ShareOf(f, xs[i]) = Value[xs[i]]}) = 1

\* "Any t shares can reconstruct; fewer than t reveal nothing" (commit.go:114), for
\* every polynomial that may be drawn and in whatever order shares are collected.
ThresholdScheme == QuorumRecovers /\ FewerRevealNothing

\* Nobody has the key of another before as many others as the threshold have
\* broadcast their shares: its own does not count, since it is never put into its
\* collection (shamir.go:61), though the comments take it that any T of those who are
\* left can rebuild the key (shamir.go:18, :33, :56).  The two that are left of three
\* seats never do.
KeyTakesOthers ==
  \A n \in Peers \ {Owner} :
    key[n] # NoKey => Cardinality(contrib \ {n}) >= Threshold

\* When the owner is gone and more peers than the threshold are left, each of them
\* ends up with the key if the network delivers: as many others there must be, and no
\* more.
KeyIsRecovered ==
  \A n \in Peers :
    Owner \notin up /\ Cardinality(up) > Threshold ~>
      key[n] # NoKey \/ n \notin up \/ Cardinality(up) <= Threshold
=============================================================================
