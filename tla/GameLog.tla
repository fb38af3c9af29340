------------------------------- MODULE GameLog -------------------------------
(***************************************************************************)
(* The log a node keeps of the envelopes of one hand (phase3/gamelog.go),  *)
(* as operators on the sequence of its entries.  An envelope is a record   *)
(* with its sender, the sender's sequence number and a payload.            *)
(***************************************************************************)
EXTENDS Integers, Sequences, SequencesExt, FiniteSets

NewGameLog == << >>

\* The key an entry is found under, senderID:seq.
Key(env) == <<env.from, env.seq>>

\* Mutant: the key is the sequence number alone.
HasKey_AnySender(log, env) == \E i \in DOMAIN log : log[i].seq = env.seq

HasKey(log, env) == \E i \in DOMAIN log : Key(log[i]) = Key(env)

\* Append: ErrDuplicateEntry for a key that is there, whatever the payload.
AppendEntry(log, env) == IF HasKey(log, env) THEN log ELSE Append(log, env)

\* EntriesBySender, by their places in the log.
EntriesBySender(log, sender) == {i \in DOMAIN log : log[i].from = sender}

\* DetectEquivocation: the senders of two entries with one key and different
\* payloads (the code returns the first of them).
Equivocators(log) ==
  {log[i].from : i \in {k \in DOMAIN log :
    \E j \in 1..(k - 1) : Key(log[j]) = Key(log[k]) /\ log[j].payload # log[k].payload}}

\* Mutant: any number may be the first.
ValidSequence_AnyStart(log, sender) ==
  LET seqs == {log[i].seq : i \in EntriesBySender(log, sender)}
  IN  \A k \in seqs : k + 1 \in seqs \/ \A j \in seqs : j <= k

\* ValidateSequences for one player: its numbers, sorted, are 1, 2, 3, ...
ValidSequence(log, sender) ==
  LET mine == EntriesBySender(log, sender)
  IN  {log[i].seq : i \in mine} = 1..Cardinality(mine)
=============================================================================
