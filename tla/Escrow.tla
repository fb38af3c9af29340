------------------------------- MODULE Escrow -------------------------------
(***************************************************************************)
(* The PokerEscrow contract of one table (phase6/PokerEscrow.sol).  Each   *)
(* transaction is atomic: a failed require, an arithmetic underflow or a   *)
(* transfer that is not accepted reverts all of it, so a transaction that  *)
(* reverts is one that is not taken.  Blocks are counted only as far as    *)
(* the settlement deadline and the challenge window.                       *)
(***************************************************************************)
EXTENDS Integers, FiniteSets, Functions, SequencesExt

CONSTANTS
  Addresses,  \* everybody who may send transactions
  MaxSeats,
  BuyIns,     \* bound: the amounts players join with
  MaxDelta,   \* bound: the largest gain or loss in an outcome
  MaxSigs,    \* bound: the signatures sent with an outcome
  Rejecting   \* the addresses that do not accept transfers

ASSUME EscrowAssumption ==
  /\ IsFiniteSet(Addresses)
  /\ MaxSeats \in 2..9
  /\ BuyIns \subseteq Nat \ {0}
  /\ MaxDelta \in Nat /\ MaxSigs \in Nat
  /\ Rejecting \subseteq Addresses

VARIABLES
  state,       \* TableState
  seated,      \* the players' addresses; seatOf[a] # 0
  buyIn, withdrawn, slashed,   \* the Player structs
  totalEscrow,
  deadline,    \* whether the settlement deadline has passed
  window,      \* whether the challenge window is open
  balance,     \* the contract's balance
  paid,        \* history: what each address has been sent
  outcome      \* history: [delta, signers] of the outcome that was settled

vars == <<state, seated, buyIn, withdrawn, slashed, totalEscrow, deadline, window,
          balance, paid, outcome>>

States    == {"Open", "Playing", "Settled", "Disputed", "Abandoned"}
NoOutcome == [delta |-> << >>, signers |-> {}]
Zero      == [a \in Addresses |-> 0]

Init ==
  /\ state = "Open"
  /\ seated = {}
  /\ buyIn = Zero
  /\ withdrawn = {}
  /\ slashed = {}
  /\ totalEscrow = 0
  /\ deadline = FALSE
  /\ window = FALSE
  /\ balance = 0
  /\ paid = Zero
  /\ outcome = NoOutcome

\* transfer, to several addresses: amount[a] to a, none to those in no domain.
Transfer(amount) ==
  /\ \A a \in DOMAIN amount : a \notin Rejecting
  /\ SumFunction(amount) <= balance
  /\ balance' = balance - SumFunction(amount)
  /\ paid' = [a \in Addresses |-> paid[a] + (IF a \in DOMAIN amount THEN amount[a] ELSE 0)]

\* joinTable: the game starts when the last seat is taken.
JoinTable(a, value) ==
  /\ state = "Open"
  /\ Cardinality(seated) < MaxSeats
  /\ value > 0
  /\ a \notin seated
  /\ seated' = seated \cup {a}
  /\ buyIn' = [buyIn EXCEPT ![a] = value]
  /\ totalEscrow' = totalEscrow + value
  /\ balance' = balance + value
  /\ state' = IF Cardinality(seated') = MaxSeats THEN "Playing" ELSE state
  /\ UNCHANGED <<withdrawn, slashed, deadline, window, paid, outcome>>

\* _requiredSigs, two thirds rounded up.
RequiredSigs == (Cardinality(seated) * 2 + 2) \div 3

\* Mutant: a signature counts as often as it is given.
ValidSigs_Repeated(sigs) == Cardinality({i \in DOMAIN sigs : sigs[i] \in seated})

\* _verifySignatures: the number of seated players among the signers.
ValidSigs(sigs) == Cardinality(ToSet(sigs) \cap seated)

\* Mutant: an outcome may leave chips behind.
Conserved_NotMinted(delta) == SumFunction(delta) <= 0

\* _verifyChipConservation.
Conserved(delta) == SumFunction(delta) = 0

\* _executePayouts: the players that get something back.
Payouts(delta) ==
  [a \in {b \in seated \ withdrawn : buyIn[b] + delta[b] > 0} |-> buyIn[a] + delta[a]]

\* reportOutcome.  Subtracting more than totalEscrow reverts.
ReportOutcome(a, delta, sigs) ==
  /\ state = "Playing"
  /\ a \in seated
  /\ Conserved(delta)
  /\ Len(sigs) >= RequiredSigs
  /\ ValidSigs(sigs) >= RequiredSigs
  /\ state' = "Settled"
  /\ window' = TRUE
  /\ SumFunction(Payouts(delta)) <= totalEscrow
  /\ totalEscrow' = totalEscrow - SumFunction(Payouts(delta))
  /\ Transfer(Payouts(delta))
  /\ withdrawn' = seated
  /\ outcome' = [delta |-> delta, signers |-> ToSet(sigs) \cap seated]
  /\ UNCHANGED <<seated, buyIn, slashed, deadline>>

\* _executeSlash: four fifths of the offender's buy-in go to the players that are
\* neither slashed nor paid yet; totalEscrow is left as it is.
ExecuteSlash(accused) ==
  LET eligible      == {b \in seated : b \notin slashed \cup withdrawn \cup {accused}}
      redistributed == buyIn[accused] - (buyIn[accused] * 2000) \div 10000
  IN
  /\ slashed' = slashed \cup {accused}
  /\ Transfer([b \in eligible |-> redistributed \div Cardinality(eligible)])

\* submitDispute: the table is Disputed only while the transaction runs.
SubmitDispute(a, accused) ==
  /\ state = "Settled"
  /\ a \in seated
  /\ window
  /\ accused \in seated /\ accused \notin slashed
  /\ ExecuteSlash(accused)
  /\ UNCHANGED <<state, seated, buyIn, withdrawn, totalEscrow, deadline, window, outcome>>

MarkAbandoned ==
  /\ state = "Playing"
  /\ deadline
  /\ state' = "Abandoned"
  /\ UNCHANGED <<seated, buyIn, withdrawn, slashed, totalEscrow, deadline, window,
                 balance, paid, outcome>>

\* Mutant: withdrawn is set but not looked at.
Refund_Again(a) ==
  /\ state = "Abandoned"
  /\ a \in seated
  /\ withdrawn' = withdrawn \cup {a}
  /\ buyIn[a] <= totalEscrow
  /\ totalEscrow' = totalEscrow - buyIn[a]
  /\ Transfer([b \in {a} |-> buyIn[b]])
  /\ UNCHANGED <<state, seated, buyIn, slashed, deadline, window, outcome>>

\* Mutant: totalEscrow is left as it is, as in a slash.
Refund_BooksUnchanged(a) ==
  /\ state = "Abandoned"
  /\ a \in seated /\ a \notin withdrawn
  /\ withdrawn' = withdrawn \cup {a}
  /\ Transfer([b \in {a} |-> buyIn[b]])
  /\ UNCHANGED <<state, seated, buyIn, totalEscrow, slashed, deadline, window, outcome>>

\* Mutant: the first refund pays everybody.
Refund_Everybody(a) ==
  /\ state = "Abandoned"
  /\ a \in seated /\ a \notin withdrawn
  /\ withdrawn' = seated
  /\ totalEscrow' = 0
  /\ Transfer([b \in seated |-> buyIn[b]])
  /\ UNCHANGED <<state, seated, buyIn, slashed, deadline, window, outcome>>

\* refund: the buy-in of the caller, once.
Refund(a) ==
  /\ state = "Abandoned"
  /\ a \in seated /\ a \notin withdrawn
  /\ withdrawn' = withdrawn \cup {a}
  /\ buyIn[a] <= totalEscrow
  /\ totalEscrow' = totalEscrow - buyIn[a]
  /\ Transfer([b \in {a} |-> buyIn[b]])
  /\ UNCHANGED <<state, seated, buyIn, slashed, deadline, window, outcome>>

\* Blocks are mined: the deadline of a game that is played passes, the challenge
\* window of a settled one closes.
BlocksPass ==
  /\ \/ state = "Playing" /\ ~deadline /\ deadline' = TRUE /\ UNCHANGED window
     \/ state = "Settled" /\ window /\ window' = FALSE /\ UNCHANGED deadline
  /\ UNCHANGED <<state, seated, buyIn, withdrawn, slashed, totalEscrow, balance, paid, outcome>>

Deltas == [seated -> (-MaxDelta)..MaxDelta]

Next ==
  \/ MarkAbandoned
  \/ BlocksPass
  \/ \E a \in Addresses :
       \/ \E value \in BuyIns : JoinTable(a, value)
       \/ \E delta \in Deltas, sigs \in BoundedSeq(Addresses, MaxSigs) :
            ReportOutcome(a, delta, sigs)
       \/ \E accused \in Addresses : SubmitDispute(a, accused)
       \/ Refund(a)

Spec == Init /\ [][Next]_vars

\* Blocks are mined, somebody ends a game that is not settled, and the players
\* that can be paid ask for their refunds.
Fairness ==
  /\ WF_vars(BlocksPass)
  /\ WF_vars(MarkAbandoned)
  /\ \A a \in Addresses : WF_vars(Refund(a))

FairSpec == Spec /\ Fairness
-----------------------------------------------------------------------------
(* Properties.                                                             *)

\* The books agree with the money: totalEscrow is the contract's balance, and what
\* was paid in is either still there or was paid out, joining, settling, slashing
\* and refunding in any order.
EscrowIsBacked ==
  /\ totalEscrow = balance
  /\ balance + SumFunction(paid) = SumFunction(buyIn)

\* A settlement pays every player its buy-in and its gain or loss, and leaves
\* nothing behind in the contract; no dispute changes that.
SettledInFull ==
  state = "Settled" =>
    /\ balance = 0
    /\ \A a \in seated : paid[a] = buyIn[a] + outcome.delta[a]

\* "No single player can steal funds, they need 2/3 majority signatures"
\* (PokerEscrow.sol:32): two thirds of the players, none counted twice, no
\* stranger, have signed what is settled.
SettledByQuorum ==
  state = "Settled" => 3 * Cardinality(outcome.signers) >= 2 * Cardinality(seated)

\* A player that is not paid by a settlement gets its buy-in back, no more and no
\* less, and only when the game was abandoned.
RefundedOnce ==
  state # "Settled" =>
    /\ \A a \in Addresses : paid[a] = (IF a \in withdrawn THEN buyIn[a] ELSE 0)
    /\ withdrawn # {} => state = "Abandoned"

\* A game that has begun ends with its money paid out: the escape hatch of
\* PokerEscrow.sol:34-35 works for everybody who accepts transfers, whatever the
\* others do.
FundsAreReleased ==
  \A a \in Addresses \ Rejecting :
    state = "Playing" /\ a \in seated ~> a \in withdrawn
=============================================================================
