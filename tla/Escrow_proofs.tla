---------------------------- MODULE Escrow_proofs ----------------------------
(***************************************************************************)
(* Proofs about Escrow, for any addresses, seats, buy-ins and outcomes:    *)
(* the books agree with the money through every transaction, a settlement  *)
(* pays exactly what was signed, and a refund is made once.                *)
(***************************************************************************)
EXTENDS Escrow, SumTheorems

EscrowType ==
  /\ state \in States
  /\ seated \subseteq Addresses
  /\ withdrawn \subseteq seated
  /\ buyIn \in [Addresses -> Nat]
  /\ paid \in [Addresses -> Nat]
  /\ totalEscrow \in Nat

\* An address that has not joined has paid nothing in.
OnlySeatedPayIn == \A a \in Addresses \ seated : buyIn[a] = 0

\* A settlement has marked every player as paid.
SettledMarksAll == state = "Settled" => withdrawn = seated

EscrowInv ==
  /\ EscrowType
  /\ OnlySeatedPayIn
  /\ SettledMarksAll
  /\ EscrowIsBacked
  /\ SettledInFull
  /\ SettledByQuorum
  /\ RefundedOnce

-----------------------------------------------------------------------------
(* Money.                                                                  *)

\* The sums that the books are about are sums over all addresses.
LEMMA SumOverAddresses ==
  ASSUME NEW R \in SUBSET Addresses, NEW amount \in [R -> Nat]
  PROVE  /\ SumFunction(amount) = SumFunctionOnSet(amount, R)
         /\ SumFunction(amount) \in Nat
<1>1. IsFiniteSet(R) /\ DOMAIN amount = R
  BY EscrowAssumption, FS_Subset
<1>2. SumFunctionOnSet(amount, R) \in Nat
  BY <1>1, SumType
<1>3. QED BY <1>1, <1>2 DEF SumFunction

\* What the contract sends is what the receivers get.
LEMMA TransferPays ==
  ASSUME EscrowType, balance \in Nat,
         NEW R \in SUBSET Addresses, NEW amount \in [R -> Nat], Transfer(amount)
  PROVE  /\ balance' \in Nat /\ balance' = balance - SumFunction(amount)
         /\ paid' \in [Addresses -> Nat]
         /\ \A a \in Addresses : paid'[a] = paid[a] + (IF a \in R THEN amount[a] ELSE 0)
         /\ SumFunction(paid') = SumFunction(paid) + SumFunction(amount)
<1> DEFINE sent == [a \in Addresses |-> IF a \in R THEN amount[a] ELSE 0]
<1>1. /\ SumFunction(amount) = SumFunctionOnSet(amount, R)
      /\ SumFunction(amount) \in Nat
  BY SumOverAddresses
<1>2. balance' \in Nat /\ balance' = balance - SumFunction(amount)
  BY <1>1 DEF Transfer
<1>3. /\ paid' \in [Addresses -> Nat]
      /\ \A a \in Addresses : paid'[a] = paid[a] + sent[a]
  BY DEF Transfer, EscrowType
<1>4. /\ sent \in [Addresses -> Int]
      /\ \A a \in Addresses \ R : sent[a] = 0
      /\ \A a \in R : sent[a] = amount[a]
  OBVIOUS
<1>5. \A a \in Addresses : paid'[a] = paid[a] + (IF a \in R THEN amount[a] ELSE 0)
  BY <1>3
<1> HIDE DEF sent
<1>6. IsFiniteSet(Addresses) /\ IsFiniteSet(R)
  BY EscrowAssumption, FS_Subset
<1>7. SumFunctionOnSet(sent, Addresses) = SumFunctionOnSet(sent, R)
  BY <1>4, <1>6, SumZeroOutside
<1>8. SumFunctionOnSet(sent, R) = SumFunctionOnSet(amount, R)
  <2>1. amount \in [R -> Int]
    OBVIOUS
  <2>2. QED BY <1>4, <1>6, <2>1, SumSame
<1>9. SumFunctionOnSet(paid', Addresses) =
        SumFunctionOnSet(paid, Addresses) + SumFunctionOnSet(sent, Addresses)
  <2>1. ASSUME NEW before \in [Addresses -> Int], NEW after \in [Addresses -> Int],
               \A a \in Addresses : after[a] = before[a] + sent[a]
        PROVE  SumFunctionOnSet(after, Addresses) =
                 SumFunctionOnSet(before, Addresses) + SumFunctionOnSet(sent, Addresses)
    <3>1. Addresses \in SUBSET Addresses
      OBVIOUS
    <3>2. QED BY <1>4, <1>6, <2>1, <3>1, SumAdd
  <2>2. paid \in [Addresses -> Int] /\ paid' \in [Addresses -> Int]
    BY <1>3 DEF EscrowType
  <2>3. QED BY <1>3, <2>1, <2>2
<1>10. /\ SumFunction(paid) = SumFunctionOnSet(paid, Addresses)
       /\ SumFunction(paid') = SumFunctionOnSet(paid', Addresses)
  BY <1>3, SumOverAddresses DEF EscrowType
<1>11. SumFunction(paid') = SumFunction(paid) + SumFunction(amount)
  BY <1>1, <1>7, <1>8, <1>9, <1>10
<1>12. QED BY <1>2, <1>3, <1>5, <1>11

\* Nothing has been paid out of a table that is played.
LEMMA PlayingUntouched ==
  ASSUME EscrowInv, state = "Playing"
  PROVE  /\ withdrawn = {}
         /\ \A a \in Addresses : paid[a] = 0
         /\ SumFunctionOnSet(buyIn, Addresses) = totalEscrow
<1>1. withdrawn = {} /\ \A a \in Addresses : paid[a] = 0
  BY DEF EscrowInv, RefundedOnce
<1>2. SumFunction(paid) = 0
  <2>1. paid \in [Addresses -> Int] /\ DOMAIN paid = Addresses
    BY DEF EscrowInv, EscrowType
  <2>2. SumFunctionOnSet(paid, Addresses) = SumFunctionOnSet(paid, {})
    BY <1>1, <2>1, EscrowAssumption, SumZeroOutside
  <2>3. QED BY <2>1, <2>2, SumEmpty DEF SumFunction
<1>3. SumFunction(buyIn) = SumFunctionOnSet(buyIn, Addresses)
  BY SumOverAddresses DEF EscrowInv, EscrowType
<1>4. QED BY <1>1, <1>2, <1>3 DEF EscrowInv, EscrowType, EscrowIsBacked

\* The players that an outcome leaves something.
Winners(delta) == {b \in seated : buyIn[b] + delta[b] > 0}

\* An outcome that balances, and whose payouts the contract can cover, takes from
\* nobody more than its buy-in, and pays out all there is.
LEMMA PayoutsAreAll ==
  ASSUME EscrowInv, state = "Playing", NEW delta \in Deltas, Conserved(delta),
         SumFunction(Payouts(delta)) <= totalEscrow
  PROVE  /\ Payouts(delta) = [a \in Winners(delta) |-> buyIn[a] + delta[a]]
         /\ Payouts(delta) \in [Winners(delta) -> Nat]
         /\ SumFunction(Payouts(delta)) = totalEscrow
         /\ \A a \in seated \ Winners(delta) : buyIn[a] + delta[a] = 0
<1> DEFINE R    == Winners(delta)
           full == [a \in Addresses |-> IF a \in seated THEN buyIn[a] + delta[a] ELSE 0]
           pay  == [a \in Addresses |-> IF a \in R THEN buyIn[a] + delta[a] ELSE 0]
           gain == [a \in Addresses |-> IF a \in seated THEN delta[a] ELSE 0]
           sum  == SumFunction(Payouts(delta))
<1>1. /\ seated \in SUBSET Addresses /\ R \in SUBSET seated /\ R \in SUBSET Addresses
      /\ IsFiniteSet(Addresses) /\ IsFiniteSet(seated) /\ IsFiniteSet(R)
  BY EscrowAssumption, FS_Subset DEF EscrowInv, EscrowType, Winners
<1>2. delta \in [seated -> Int] /\ buyIn \in [Addresses -> Int]
  BY EscrowAssumption DEF Deltas, EscrowInv, EscrowType
<1>3. Payouts(delta) = [a \in R |-> buyIn[a] + delta[a]]
  BY PlayingUntouched DEF Payouts, Winners
<1>4. Payouts(delta) \in [R -> Nat]
  BY <1>1, <1>2, <1>3 DEF Winners
<1>5. /\ sum \in Nat
      /\ sum = SumFunctionOnSet(Payouts(delta), R)
  BY <1>1, <1>4, SumOverAddresses
<1>6. /\ full \in [Addresses -> Int] /\ pay \in [Addresses -> Int] /\ gain \in [Addresses -> Int]
      /\ \A a \in Addresses : full[a] <= pay[a]
      /\ \A a \in Addresses : full[a] = buyIn[a] + gain[a]
  BY <1>1, <1>2 DEF EscrowInv, OnlySeatedPayIn, Winners
<1>7. /\ \A a \in Addresses \ R : pay[a] = 0
      /\ \A a \in R : pay[a] = Payouts(delta)[a]
      /\ \A a \in Addresses \ seated : gain[a] = 0
      /\ \A a \in seated : gain[a] = delta[a]
      /\ \A a \in seated : full[a] = buyIn[a] + delta[a]
  BY <1>1, <1>3
<1> HIDE DEF full, pay, gain, R
<1>8. SumFunctionOnSet(gain, Addresses) = 0
  <2>1. SumFunctionOnSet(gain, Addresses) = SumFunctionOnSet(gain, seated)
    BY <1>1, <1>6, <1>7, SumZeroOutside
  <2>2. SumFunctionOnSet(gain, seated) = SumFunctionOnSet(delta, seated)
    <3>1. /\ gain \in [Addresses -> Int] /\ delta \in [seated -> Int]
          /\ seated \in SUBSET Addresses /\ seated \in SUBSET seated /\ IsFiniteSet(seated)
          /\ \A a \in seated : gain[a] = delta[a]
      BY <1>1, <1>2, <1>6, <1>7
    <3>2. QED BY <3>1, SumSame
  <2>3. SumFunctionOnSet(delta, seated) = 0
    <3>1. DOMAIN delta = seated
      BY <1>2
    <3>2. QED BY <3>1 DEF Conserved, SumFunction
  <2>4. QED BY <2>1, <2>2, <2>3
<1>9. SumFunctionOnSet(full, Addresses) = totalEscrow
  <2>1. SumFunctionOnSet(full, Addresses) =
          SumFunctionOnSet(buyIn, Addresses) + SumFunctionOnSet(gain, Addresses)
    BY <1>1, <1>2, <1>6, SumAdd
  <2>2. SumFunctionOnSet(buyIn, Addresses) = totalEscrow /\ totalEscrow \in Nat
    BY PlayingUntouched DEF EscrowInv, EscrowType
  <2>3. QED BY <1>8, <2>1, <2>2
<1>10. SumFunctionOnSet(pay, Addresses) = sum
  <2>1. SumFunctionOnSet(pay, Addresses) = SumFunctionOnSet(pay, R)
    <3>1. /\ pay \in [Addresses -> Int] /\ Addresses \in SUBSET Addresses
          /\ IsFiniteSet(Addresses) /\ R \in SUBSET Addresses
          /\ \A a \in Addresses \ R : pay[a] = 0
      BY <1>1, <1>6, <1>7
    <3>2. QED BY <3>1, SumZeroOutside
  <2>2. SumFunctionOnSet(pay, R) = SumFunctionOnSet(Payouts(delta), R)
    <3>1. Payouts(delta) \in [R -> Int]
      BY <1>4
    <3>2. QED BY <1>1, <1>6, <1>7, <3>1, SumSame
  <2>3. QED BY <1>5, <2>1, <2>2
<1>11. \A a \in Addresses : full[a] = pay[a]
  <2>1. SumFunctionOnSet(pay, Addresses) <= SumFunctionOnSet(full, Addresses)
    BY <1>9, <1>10
  <2>2. QED BY <1>1, <1>6, <2>1, SumTight
<1>12. sum = totalEscrow
  <2>1. SumFunctionOnSet(full, Addresses) <= SumFunctionOnSet(pay, Addresses)
    BY <1>1, <1>6, SumMono
  <2>2. QED BY <1>5, <1>9, <1>10, <2>1 DEF EscrowInv, EscrowType
<1>13. \A a \in seated \ R : buyIn[a] + delta[a] = 0
  BY <1>1, <1>7, <1>11
<1>14. QED BY <1>3, <1>4, <1>12, <1>13 DEF R

-----------------------------------------------------------------------------
(* The transactions.                                                       *)

LEMMA EscrowInit == Init => EscrowInv
<1> SUFFICES ASSUME Init PROVE EscrowInv
  OBVIOUS
<1>1. EscrowType /\ OnlySeatedPayIn /\ SettledMarksAll
  BY DEF Init, EscrowType, OnlySeatedPayIn, SettledMarksAll, States, Zero
<1>2. SettledInFull /\ SettledByQuorum /\ RefundedOnce
  BY DEF Init, SettledInFull, SettledByQuorum, RefundedOnce, Zero
<1>3. EscrowIsBacked
  <2>1. Zero \in [Addresses -> Int] /\ DOMAIN Zero = Addresses
    BY DEF Zero
  <2>2. SumFunctionOnSet(Zero, Addresses) = SumFunctionOnSet(Zero, {})
    <3>1. \A a \in Addresses \ {} : Zero[a] = 0
      BY DEF Zero
    <3>2. QED BY <2>1, <3>1, EscrowAssumption, SumZeroOutside
  <2>3. SumFunction(Zero) = 0
    BY <2>1, <2>2, SumEmpty DEF SumFunction
  <2>4. QED BY <2>3 DEF Init, EscrowIsBacked
<1>4. QED BY <1>1, <1>2, <1>3 DEF EscrowInv

\* A buy-in goes into the books and into the contract.
LEMMA JoinTableKeeps ==
  ASSUME EscrowInv, NEW a \in Addresses, NEW value \in BuyIns, JoinTable(a, value)
  PROVE  EscrowInv'
<1>1. /\ state = "Open" /\ a \notin seated /\ value \in Nat
      /\ seated' = seated \cup {a} /\ buyIn' = [buyIn EXCEPT ![a] = value]
      /\ totalEscrow' = totalEscrow + value /\ balance' = balance + value
      /\ state' \in {"Open", "Playing"}
      /\ UNCHANGED <<withdrawn, paid>>
  BY EscrowAssumption DEF JoinTable
<1>2. EscrowType' /\ OnlySeatedPayIn' /\ SettledMarksAll'
  BY <1>1 DEF EscrowInv, EscrowType, OnlySeatedPayIn, SettledMarksAll, States
<1>3. SettledInFull' /\ SettledByQuorum'
  BY <1>1 DEF SettledInFull, SettledByQuorum
<1>4. RefundedOnce'
  BY <1>1 DEF EscrowInv, EscrowType, RefundedOnce
<1>5. EscrowIsBacked'
  <2>1. buyIn[a] = 0 /\ buyIn \in [Addresses -> Int]
    BY <1>1 DEF EscrowInv, EscrowType, OnlySeatedPayIn
  <2>2. SumFunction(buyIn') = SumFunction(buyIn) - buyIn[a] + value
    <3>1. value \in Int /\ IsFiniteSet(Addresses)
      BY <1>1, EscrowAssumption
    <3>2. SumFunction([buyIn EXCEPT ![a] = value]) = SumFunction(buyIn) - buyIn[a] + value
      BY <2>1, <3>1, SumChangeOne
    <3>3. QED BY <1>1, <3>2
  <2>3. SumFunction(buyIn) \in Nat /\ SumFunction(paid) \in Nat /\ balance \in Nat
    BY SumOverAddresses DEF EscrowInv, EscrowType, EscrowIsBacked
  <2>4. QED BY <1>1, <2>1, <2>2, <2>3 DEF EscrowInv, EscrowIsBacked
<1>6. QED BY <1>2, <1>3, <1>4, <1>5 DEF EscrowInv

\* Two thirds rounded up are two thirds.
LEMMA QuorumIsTwoThirds ==
  ASSUME EscrowType, NEW signers \in SUBSET seated, Cardinality(signers) >= RequiredSigs
  PROVE  3 * Cardinality(signers) >= 2 * Cardinality(seated)
<1>1. Cardinality(seated) \in Nat /\ Cardinality(signers) \in Nat
  BY EscrowAssumption, FS_Subset, FS_CardinalityType DEF EscrowType
<1>2. QED BY <1>1 DEF RequiredSigs

LEMMA ReportOutcomeKeeps ==
  ASSUME EscrowInv, NEW a \in Addresses, NEW delta \in Deltas,
         NEW sigs \in BoundedSeq(Addresses, MaxSigs), ReportOutcome(a, delta, sigs)
  PROVE  EscrowInv'
<1> DEFINE amount == Payouts(delta)
           R      == Winners(delta)
<1>1. /\ state = "Playing" /\ state' = "Settled" /\ withdrawn' = seated
      /\ totalEscrow' = totalEscrow - SumFunction(amount)
      /\ Transfer(amount) /\ Conserved(delta) /\ SumFunction(amount) <= totalEscrow
      /\ outcome' = [delta |-> delta, signers |-> ToSet(sigs) \cap seated]
      /\ ValidSigs(sigs) >= RequiredSigs
      /\ UNCHANGED <<seated, buyIn>>
  BY DEF ReportOutcome
<1>2. /\ amount = [b \in R |-> buyIn[b] + delta[b]]
      /\ amount \in [R -> Nat]
      /\ SumFunction(amount) = totalEscrow
      /\ \A b \in seated \ R : buyIn[b] + delta[b] = 0
  BY <1>1, PayoutsAreAll
<1>3. balance = totalEscrow /\ totalEscrow \in Nat /\ R \in SUBSET Addresses /\ R \subseteq seated
  BY DEF EscrowInv, EscrowType, EscrowIsBacked, Winners
<1> HIDE DEF amount, R
<1>4. EscrowType
  BY DEF EscrowInv
<1>5. /\ balance' = balance - SumFunction(amount)
      /\ paid' \in [Addresses -> Nat]
      /\ \A b \in Addresses : paid'[b] = paid[b] + (IF b \in R THEN amount[b] ELSE 0)
      /\ SumFunction(paid') = SumFunction(paid) + SumFunction(amount)
  BY <1>1, <1>2, <1>3, <1>4, TransferPays
<1>6. balance' = 0 /\ totalEscrow' = 0
  BY <1>1, <1>2, <1>3, <1>5
<1>7. EscrowType' /\ OnlySeatedPayIn' /\ SettledMarksAll'
  BY <1>1, <1>5, <1>6 DEF EscrowInv, EscrowType, OnlySeatedPayIn, SettledMarksAll, States
<1>8. SettledInFull'
  <2>1. \A b \in seated : paid'[b] = buyIn[b] + delta[b]
    <3> SUFFICES ASSUME NEW b \in seated PROVE paid'[b] = buyIn[b] + delta[b]
      OBVIOUS
    <3>1. b \in Addresses /\ buyIn[b] + delta[b] \in Int
      BY EscrowAssumption DEF EscrowInv, EscrowType, Deltas
    <3>2. paid[b] = 0
      BY <1>1, <3>1, PlayingUntouched
    <3>3. CASE b \in R
      BY <1>2, <1>5, <3>1, <3>2, <3>3
    <3>4. CASE b \notin R
      BY <1>2, <1>5, <3>1, <3>2, <3>4
    <3>5. QED BY <3>3, <3>4
  <2>2. QED BY <1>1, <1>6, <2>1 DEF SettledInFull
<1>9. SettledByQuorum'
  <2>1. 3 * Cardinality(ToSet(sigs) \cap seated) >= 2 * Cardinality(seated)
    BY <1>1, <1>4, QuorumIsTwoThirds DEF ValidSigs
  <2>2. QED BY <1>1, <2>1 DEF SettledByQuorum
<1>10. RefundedOnce'
  BY <1>1 DEF RefundedOnce
<1>11. EscrowIsBacked'
  <2>1. SumFunction(paid) \in Nat
    BY SumOverAddresses DEF EscrowInv, EscrowType
  <2>2. SumFunction(amount) \in Nat
    BY <1>2, <1>3
  <2>3. balance + SumFunction(paid) = SumFunction(buyIn)
    BY DEF EscrowInv, EscrowIsBacked
  <2>4. balance' + SumFunction(paid') = SumFunction(buyIn')
    BY <1>1, <1>2, <1>3, <1>5, <2>1, <2>2, <2>3
  <2>5. QED BY <1>6, <2>4 DEF EscrowIsBacked
<1>12. QED BY <1>7, <1>8, <1>9, <1>10, <1>11 DEF EscrowInv

\* After a settlement every player counts as paid, so a slash has nobody to pay.
LEMMA SubmitDisputeKeeps ==
  ASSUME EscrowInv, NEW a \in Addresses, NEW accused \in Addresses, SubmitDispute(a, accused)
  PROVE  EscrowInv' /\ UNCHANGED <<paid, balance>>
<1> DEFINE eligible == {b \in seated : b \notin slashed \cup withdrawn \cup {accused}}
           share    == (buyIn[accused] - (buyIn[accused] * 2000) \div 10000) \div Cardinality(eligible)
           amount   == [b \in eligible |-> share]
<1>1. /\ state = "Settled" /\ Transfer(amount)
      /\ UNCHANGED <<state, seated, buyIn, withdrawn, totalEscrow, outcome>>
  BY DEF SubmitDispute, ExecuteSlash
<1>2. eligible = {}
  BY <1>1 DEF EscrowInv, SettledMarksAll
<1> HIDE DEF share, eligible
<1>3. /\ amount \in [{} -> Nat] /\ {} \in SUBSET Addresses
      /\ DOMAIN amount = {}
  BY <1>2
<1> HIDE DEF amount
<1>4. EscrowType /\ balance \in Nat
  BY DEF EscrowInv, EscrowType, EscrowIsBacked
<1>5. /\ balance' = balance - SumFunction(amount)
      /\ paid' \in [Addresses -> Nat]
      /\ \A b \in Addresses : paid'[b] = paid[b] + (IF b \in {} THEN amount[b] ELSE 0)
  BY <1>1, <1>3, <1>4, TransferPays
<1>6. SumFunction(amount) = 0
  BY <1>3, SumEmpty DEF SumFunction
<1>7. balance' = balance /\ paid' = paid
  BY <1>4, <1>5, <1>6 DEF EscrowType
<1>8. EscrowInv'
  BY <1>1, <1>7 DEF EscrowInv, EscrowType, OnlySeatedPayIn, SettledMarksAll, EscrowIsBacked,
                    SettledInFull, SettledByQuorum, RefundedOnce
<1>9. QED BY <1>7, <1>8

\* A refund takes from the books what the player gets.
LEMMA RefundKeeps ==
  ASSUME EscrowInv, NEW a \in Addresses, Refund(a)
  PROVE  EscrowInv'
<1> DEFINE amount == [b \in {a} |-> buyIn[b]]
<1>1. /\ state = "Abandoned" /\ a \in seated /\ a \notin withdrawn
      /\ withdrawn' = withdrawn \cup {a}
      /\ buyIn[a] <= totalEscrow /\ totalEscrow' = totalEscrow - buyIn[a]
      /\ Transfer(amount)
      /\ UNCHANGED <<state, seated, buyIn>>
  BY DEF Refund
<1>2. /\ amount \in [{a} -> Nat] /\ amount[a] = buyIn[a] /\ buyIn[a] \in Nat
      /\ {a} \in SUBSET Addresses
  BY DEF EscrowInv, EscrowType
<1> HIDE DEF amount
<1>3. SumFunction(amount) = buyIn[a]
  <2>1. amount \in [{a} -> Int] /\ {a} \in SUBSET {a} /\ IsFiniteSet({a}) /\ DOMAIN amount = {a}
    BY <1>2, FS_Singleton
  <2>2. SumFunctionOnSet(amount, {a}) = amount[a] + SumFunctionOnSet(amount, {a} \ {a})
    <3>1. a \in {a}
      OBVIOUS
    <3>2. QED BY ONLY <2>1, <3>1, SumRemove
  <2>3. SumFunctionOnSet(amount, {a} \ {a}) = 0
    <3>1. {a} \ {a} = {}
      OBVIOUS
    <3>2. QED BY <3>1, SumEmpty
  <2>4. QED BY <1>2, <2>1, <2>2, <2>3 DEF SumFunction
<1>4. EscrowType /\ balance \in Nat
  BY DEF EscrowInv, EscrowType, EscrowIsBacked
<1>5. /\ balance' = balance - buyIn[a]
      /\ paid' \in [Addresses -> Nat]
      /\ \A b \in Addresses : paid'[b] = paid[b] + (IF b \in {a} THEN amount[b] ELSE 0)
      /\ SumFunction(paid') = SumFunction(paid) + buyIn[a]
  BY <1>1, <1>2, <1>3, <1>4, TransferPays
<1>6. EscrowType' /\ OnlySeatedPayIn' /\ SettledMarksAll'
  BY <1>1, <1>2, <1>5 DEF EscrowInv, EscrowType, OnlySeatedPayIn, SettledMarksAll
<1>7. SettledInFull' /\ SettledByQuorum'
  BY <1>1 DEF SettledInFull, SettledByQuorum
<1>8. RefundedOnce'
  <2>1. \A b \in Addresses : paid[b] = IF b \in withdrawn THEN buyIn[b] ELSE 0
    BY <1>1 DEF EscrowInv, RefundedOnce
  <2>2. \A b \in Addresses : paid'[b] = IF b \in withdrawn' THEN buyIn'[b] ELSE 0
    BY <1>1, <1>2, <1>5, <2>1 DEF EscrowInv, EscrowType
  <2>3. QED BY <1>1, <2>2 DEF RefundedOnce
<1>9. EscrowIsBacked'
  <2>1. SumFunction(paid) \in Nat /\ SumFunction(buyIn) \in Nat
    BY SumOverAddresses DEF EscrowInv, EscrowType
  <2>2. QED BY <1>1, <1>2, <1>4, <1>5, <2>1 DEF EscrowInv, EscrowIsBacked
<1>10. QED BY <1>6, <1>7, <1>8, <1>9 DEF EscrowInv

LEMMA EscrowNext == EscrowInv /\ [Next]_vars => EscrowInv'
<1> SUFFICES ASSUME EscrowInv, [Next]_vars PROVE EscrowInv'
  OBVIOUS
<1>1. ASSUME UNCHANGED <<seated, buyIn, withdrawn, totalEscrow, balance, paid, outcome>>,
             state' = state \/ (state = "Playing" /\ state' = "Abandoned")
      PROVE  EscrowInv'
  <2>1. EscrowType' /\ OnlySeatedPayIn' /\ SettledMarksAll'
    BY <1>1 DEF EscrowInv, EscrowType, OnlySeatedPayIn, SettledMarksAll, States
  <2>2. EscrowIsBacked' /\ SettledInFull' /\ SettledByQuorum' /\ RefundedOnce'
    BY <1>1 DEF EscrowInv, EscrowIsBacked, SettledInFull, SettledByQuorum, RefundedOnce
  <2>3. QED BY <2>1, <2>2 DEF EscrowInv
<1>2. CASE MarkAbandoned
  BY <1>1, <1>2 DEF MarkAbandoned
<1>3. CASE BlocksPass
  BY <1>1, <1>3 DEF BlocksPass
<1>4. CASE UNCHANGED vars
  BY <1>1, <1>4 DEF vars
<1>5. QED
  BY <1>2, <1>3, <1>4, JoinTableKeeps, ReportOutcomeKeeps, SubmitDisputeKeeps, RefundKeeps DEF Next

-----------------------------------------------------------------------------
(* Theorems.                                                               *)

\* The inductive invariant, always.
THEOREM EscrowCorrect == Spec => []EscrowInv
BY EscrowInit, EscrowNext, PTL DEF Spec

\* totalEscrow is the contract's balance, and what was paid in is there or was
\* paid out, whatever transactions come in whatever order.
THEOREM MoneyIsBacked == Spec => []EscrowIsBacked
<1>1. EscrowInv => EscrowIsBacked
  BY DEF EscrowInv
<1>2. QED BY <1>1, EscrowCorrect, PTL

\* A settlement pays each player its buy-in and its gain or loss and leaves nothing.
THEOREM SettlementIsFull == Spec => []SettledInFull
<1>1. EscrowInv => SettledInFull
  BY DEF EscrowInv
<1>2. QED BY <1>1, EscrowCorrect, PTL

\* What is settled was signed by two thirds of the players.
THEOREM SettlementIsSigned == Spec => []SettledByQuorum
<1>1. EscrowInv => SettledByQuorum
  BY DEF EscrowInv
<1>2. QED BY <1>1, EscrowCorrect, PTL

\* Without a settlement a player has been paid its buy-in, or nothing.
THEOREM RefundIsOnce == Spec => []RefundedOnce
<1>1. EscrowInv => RefundedOnce
  BY DEF EscrowInv
<1>2. QED BY <1>1, EscrowCorrect, PTL

\* No settlement takes more from a player than it has put in.
NobodyOwes == state = "Settled" => \A a \in seated : buyIn[a] + outcome.delta[a] >= 0

THEOREM LossesAreCovered == Spec => []NobodyOwes
<1>1. EscrowInv => NobodyOwes
  BY DEF EscrowInv, EscrowType, SettledInFull, NobodyOwes
<1>2. QED BY <1>1, EscrowCorrect, PTL

\* A dispute moves no money: the settlement has marked every player as paid, and
\* the slashed share has nobody to go to (PokerEscrow.sol:395, 418).
DisputesPayNobody ==
  [][\A a, accused \in Addresses :
       SubmitDispute(a, accused) => UNCHANGED <<paid, balance>>]_vars

THEOREM DisputesAreIdle == Spec => DisputesPayNobody
<1>1. EscrowInv /\ [Next]_vars =>
        [\A a, accused \in Addresses :
           SubmitDispute(a, accused) => UNCHANGED <<paid, balance>>]_vars
  BY SubmitDisputeKeeps
<1>2. QED BY <1>1, EscrowCorrect, PTL DEF Spec, DisputesPayNobody
=============================================================================
