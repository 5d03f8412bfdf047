------------------------ MODULE OutboxRelay_proofs ------------------------
(***************************************************************************)
(* Proofs about OutboxRelay, for any number of relays, rows and faults.    *)
(***************************************************************************)
EXTENDS OutboxRelay, TLAPS, FiniteSetTheorems

\* A non-empty set of row ids has a smallest one: a relay with work has a head.
LEMMA LeastElement ==
  ASSUME NEW S, S \subseteq Nat, S # {}
  PROVE  \E i \in S : \A j \in S : i =< j
<1>1. \E i \in S : \A j \in S : ~ (<<j, i>> \in OpToRel(<, Nat))
  BY NatLessThanWellFounded, WFMin
<1>2. PICK i \in S : \A j \in S : ~ (<<j, i>> \in OpToRel(<, Nat))
  BY <1>1
<1>3. ASSUME NEW j \in S, j < i PROVE FALSE
  <2>1. <<j, i>> \in {ss \in Nat \X Nat : ss[1] < ss[2]}
    BY <1>3
  <2> QED BY <1>2, <2>1 DEF OpToRel
<1> QED BY <1>3

\* The head of a batch is in it.
LEMMA HeadInBatch ==
  ASSUME TypeOK, NEW r \in Relay, phase[r] # "idle"
  PROVE  Head1(r) \in batch[r] /\ Head1(r) \in DOMAIN rows
<1>1. batch[r] # {} /\ batch[r] \subseteq DOMAIN rows /\ DOMAIN rows \subseteq Nat
  BY DEF TypeOK
<1>2. \E i \in batch[r] : \A j \in batch[r] : i =< j
  BY <1>1, LeastElement
<1> QED BY <1>1, <1>2 DEF Head1

-----------------------------------------------------------------------------
\* A relay about to mark a row sent has produced it.
SentInHand == \A r \in Relay : phase[r] = "sent" => Produced(Head1(r))

\* While no lease has ended early: a row is in one batch at most, and there it
\* is in 'sending' and not due, so that nobody else can claim it.
Leases ==
  slows = 0 =>
    /\ \A r, s \in Relay : r # s => batch[r] \intersect batch[s] = {}
    /\ \A r \in Relay : \A i \in batch[r] : rows[i].status = "sending" /\ i \notin due

IInv == TypeOK /\ SentInHand /\ SentImpliesProduced /\ Leases

Row == [group : Group, status : Status, after : SUBSET Nat]

LEMMA RowFacts ==
  ASSUME TypeOK
  PROVE  /\ Len(rows) \in Nat /\ DOMAIN rows = 1..Len(rows)
         /\ rows \in [1..Len(rows) -> Row]
         /\ \A i \in DOMAIN rows : i \in Nat /\ rows[i] \in Row /\ rows[i].group \in Group
<1>1. rows \in Seq(Row)
  BY DEF TypeOK, Row
<1>2. Len(rows) \in Nat /\ DOMAIN rows = 1..Len(rows) /\ rows \in [1..Len(rows) -> Row]
  BY <1>1
<1> QED BY <1>2 DEF Row

LEMMA SeqFromFunction ==
  ASSUME NEW S, NEW n \in Nat, NEW f \in [1..n -> S]
  PROVE  f \in Seq(S)
OBVIOUS

\* Rows are never deleted, keep their group, and what is in Kafka stays there.
LEMMA Kept ==
  ASSUME TypeOK, [Next]_vars
  PROVE  /\ \A i \in DOMAIN rows : i \in DOMAIN rows' /\ rows'[i].group = rows[i].group
         /\ \A g \in Group : \A k \in DOMAIN kafka[g] :
              k \in DOMAIN kafka'[g] /\ kafka'[g][k] = kafka[g][k]
<1>1. CASE UNCHANGED vars
  BY <1>1 DEF vars
<1>2. CASE \E g \in Group : Enqueue(g)
  <2>1. \A i \in DOMAIN rows : i \in DOMAIN rows' /\ rows'[i] = rows[i]
    BY <1>2, RowFacts DEF Enqueue
  <2> QED BY <1>2, <2>1 DEF Enqueue
<1>3. ASSUME NEW r \in Relay, Claim(r) PROVE UNCHANGED kafka /\ DOMAIN rows' = DOMAIN rows
        /\ \A i \in DOMAIN rows : rows'[i].group = rows[i].group
  BY <1>3 DEF Claim, TypeOK
<1>4. ASSUME NEW r \in Relay, Produce(r) \/ ProduceError(r)
      PROVE  /\ UNCHANGED rows
             /\ \A g \in Group : \A k \in DOMAIN kafka[g] :
                  k \in DOMAIN kafka'[g] /\ kafka'[g][k] = kafka[g][k]
  <2>1. Head1(r) \in DOMAIN rows /\ rows[Head1(r)].group \in Group
    BY <1>4, HeadInBatch, RowFacts DEF Produce, ProduceError
  <2>2. UNCHANGED kafka \/ Write(Head1(r))
    BY <1>4 DEF Produce, ProduceError
  <2>3. \A g \in Group : kafka[g] \in Seq(Nat)
    BY DEF TypeOK
  <2>4. Head1(r) \in Nat
    BY <2>1, RowFacts
  <2>5. CASE Write(Head1(r))
    <3>1. \A g \in Group : kafka'[g] = kafka[g] \/ kafka'[g] = Append(kafka[g], Head1(r))
      BY <2>1, <2>5 DEF Write, TypeOK
    <3>2. \A g \in Group : \A k \in DOMAIN kafka[g] :
            k \in DOMAIN Append(kafka[g], Head1(r)) /\ Append(kafka[g], Head1(r))[k] = kafka[g][k]
      BY <2>3, <2>4
    <3> QED BY <1>4, <3>1, <3>2 DEF Produce, ProduceError
  <2> QED BY <1>4, <2>2, <2>5 DEF Produce, ProduceError
<1>5. ASSUME NEW r \in Relay, MarkSent(r) \/ MarkRetry(r)
      PROVE  UNCHANGED kafka /\ DOMAIN rows' = DOMAIN rows
        /\ \A i \in DOMAIN rows : rows'[i].group = rows[i].group
  <2>1. Head1(r) \in DOMAIN rows
    BY <1>5, HeadInBatch DEF MarkSent, MarkRetry
  <2>2. \E x \in Status : rows' = [rows EXCEPT ![Head1(r)].status = x]
    BY <1>5 DEF MarkSent, MarkRetry, Status
  <2>3. \A i \in DOMAIN rows : rows[i] \in Row
    BY RowFacts
  <2> QED BY <1>5, <2>2, <2>3 DEF MarkSent, MarkRetry, Row
<1>6. ASSUME NEW r \in Relay, MarkLost(r) \/ Crash(r) PROVE UNCHANGED <<rows, kafka>>
  BY <1>6 DEF MarkLost, Crash
<1>7. CASE \E i \in DOMAIN rows : Due(i) \/ LeaseEnds(i)
  BY <1>7 DEF Due, LeaseEnds
<1>8. ASSUME NEW i \in DOMAIN rows, Commit(i)
      PROVE  UNCHANGED kafka /\ DOMAIN rows' = DOMAIN rows
        /\ \A j \in DOMAIN rows : rows'[j].group = rows[j].group
  BY <1>8, RowFacts DEF Commit, Row
<1> QED BY <1>1, <1>2, <1>3, <1>4, <1>5, <1>6, <1>7, <1>8 DEF Next, Step

\* What has been produced stays produced.
LEMMA ProducedKept ==
  ASSUME TypeOK, [Next]_vars, NEW i \in DOMAIN rows, Produced(i)
  PROVE  Produced(i)'
<1>1. rows[i].group \in Group
  BY RowFacts
<1> QED BY <1>1, Kept DEF Produced, Occurrences

LEMMA InitIInv == Init => IInv
BY DEF Init, IInv, TypeOK, Phase, Status, SentInHand, SentImpliesProduced, Leases

-----------------------------------------------------------------------------
LEMMA TypeStep ==
  ASSUME TypeOK, [Next]_vars
  PROVE  TypeOK'
<1>1. CASE UNCHANGED vars
  BY <1>1 DEF vars, faults, TypeOK
<1>2. ASSUME NEW g \in Group, Enqueue(g) PROVE TypeOK'
  <2>1. PICK row : row = [group |-> g, status |-> "open", after |->
                   {i \in DOMAIN rows : rows[i].group = g /\ Seen(i)}]
    OBVIOUS
  <2>2. row \in Row /\ rows \in Seq(Row)
    BY <2>1, RowFacts DEF Row, Status, TypeOK
  <2>3. rows' = Append(rows, row)
    BY <1>2, <2>1 DEF Enqueue
  <2>4. rows' \in Seq(Row) /\ DOMAIN rows' = 1..(Len(rows) + 1) /\ DOMAIN rows = 1..Len(rows)
    BY <2>2, <2>3
  <2> QED BY <1>2, <2>4 DEF Enqueue, Row, TypeOK, faults
<1>3. ASSUME NEW r \in Relay, Claim(r) PROVE TypeOK'
  <2>1. PICK C \in SUBSET Claimable :
          /\ C # {}
          /\ batch' = [batch EXCEPT ![r] = C]
          /\ rows' = [i \in DOMAIN rows |->
                        IF i \in C THEN [rows[i] EXCEPT !.status = "sending"] ELSE rows[i]]
          /\ due' = due \ C
    BY <1>3 DEF Claim
  <2>2. C \subseteq DOMAIN rows
    BY DEF Claimable, TypeOK
  <2>3. DOMAIN rows' = DOMAIN rows /\ rows' \in [1..Len(rows) -> Row] /\ Len(rows) \in Nat
    BY <2>1, RowFacts DEF Row, Status
  <2>4. rows' \in Seq(Row)
    BY <2>3, SeqFromFunction
  <2> QED BY <1>3, <2>1, <2>2, <2>3, <2>4 DEF Claim, TypeOK, Row, Phase, faults
<1>4. ASSUME NEW r \in Relay, Produce(r) \/ ProduceError(r) PROVE TypeOK'
  <2>1. /\ Head1(r) \in DOMAIN rows /\ rows[Head1(r)].group \in Group /\ Head1(r) \in Nat
        /\ phase[r] = "produce"
    BY <1>4, HeadInBatch, RowFacts DEF Produce, ProduceError
  <2>2. kafka' \in [Group -> Seq(Nat)]
    <3>1. UNCHANGED kafka \/ Write(Head1(r))
      BY <1>4 DEF Produce, ProduceError
    <3>2. \A g \in Group : Append(kafka[g], Head1(r)) \in Seq(Nat)
      BY <2>1 DEF TypeOK
    <3> QED BY <2>1, <3>1, <3>2 DEF Write, TypeOK
  <2>3. /\ \E l \in {"sent", "retry"} : phase' = [phase EXCEPT ![r] = l]
        /\ UNCHANGED <<rows, due, batch, crashes, slows>> /\ fails' \in Nat
    BY <1>4 DEF Produce, ProduceError, TypeOK, faults
  <2> QED BY <2>1, <2>2, <2>3 DEF TypeOK, Phase
<1>5. ASSUME NEW r \in Relay, MarkSent(r) \/ MarkRetry(r) \/ MarkLost(r) PROVE TypeOK'
  <2>1. Head1(r) \in batch[r] /\ Head1(r) \in DOMAIN rows
    BY <1>5, HeadInBatch DEF MarkSent, MarkRetry, MarkLost
  <2>2. /\ DOMAIN rows' = DOMAIN rows
        /\ rows' \in Seq(Row)
    <3>1. UNCHANGED rows \/ \E x \in Status : rows' = [rows EXCEPT ![Head1(r)].status = x]
      BY <1>5 DEF MarkSent, MarkRetry, MarkLost, Status
    <3>2. rows' \in [1..Len(rows) -> Row] /\ Len(rows) \in Nat
      BY <2>1, <3>1, RowFacts DEF Row
    <3>3. DOMAIN rows' = DOMAIN rows
      BY <3>2, RowFacts
    <3> QED BY <3>2, <3>3, SeqFromFunction
  <2>3. /\ due' \subseteq due /\ NextRow(r) /\ UNCHANGED kafka
        /\ fails' \in Nat /\ crashes' \in Nat /\ slows' \in Nat
    BY <1>5 DEF MarkSent, MarkRetry, MarkLost, TypeOK, faults
  <2>4. /\ batch' \in [Relay -> SUBSET DOMAIN rows]
        /\ phase' \in [Relay -> Phase]
        /\ \A q \in Relay : phase'[q] = "idle" <=> batch'[q] = {}
    BY <2>1, <2>3 DEF NextRow, TypeOK, Phase
  <2> QED BY <2>2, <2>3, <2>4 DEF TypeOK, Row
<1>6. ASSUME NEW r \in Relay, Crash(r) PROVE TypeOK'
  BY <1>6 DEF Crash, TypeOK, Phase
<1>7. ASSUME NEW i \in DOMAIN rows, Due(i) \/ LeaseEnds(i) PROVE TypeOK'
  BY <1>7 DEF Due, LeaseEnds, TypeOK, faults
<1>8. ASSUME NEW i \in DOMAIN rows, Commit(i) PROVE TypeOK'
  <2>1. rows' \in [1..Len(rows) -> Row] /\ Len(rows) \in Nat /\ DOMAIN rows' = DOMAIN rows
    BY <1>8, RowFacts DEF Commit, Row, Status
  <2>2. rows' \in Seq(Row)
    BY <2>1, SeqFromFunction
  <2> QED BY <1>8, <2>1, <2>2 DEF Commit, TypeOK, Row, faults
<1> QED BY <1>1, <1>2, <1>3, <1>4, <1>5, <1>6, <1>7, <1>8 DEF Next, Step

\* A row is marked sent only by a relay that has produced it.
LEMMA SentStep ==
  ASSUME IInv, [Next]_vars
  PROVE  SentInHand' /\ SentImpliesProduced'
<1> USE DEF IInv
<1>1. TypeOK'
  BY TypeStep
<1>2. \A i \in DOMAIN rows : Produced(i) => Produced(i)'
  BY ProducedKept
<1>3. \A q \in Relay : batch'[q] = batch[q] => Head1(q)' = Head1(q)
  BY DEF Head1
<1>4. \A q \in Relay : phase[q] # "idle" => Head1(q) \in DOMAIN rows
  BY HeadInBatch
<1>5. ASSUME NEW r \in Relay, Produce(r) PROVE SentInHand' /\ SentImpliesProduced'
  <2>1. /\ phase[r] = "produce" /\ phase' = [phase EXCEPT ![r] = "sent"]
        /\ UNCHANGED <<rows, batch>> /\ Write(Head1(r))
    BY <1>5 DEF Produce
  <2>2. Produced(Head1(r))'
    <3> DEFINE i == Head1(r)
               g == rows[Head1(r)].group
    <3>1. i \in DOMAIN rows /\ g \in Group /\ i \in Nat /\ kafka[g] \in Seq(Nat)
      BY <1>4, <2>1, RowFacts DEF TypeOK
    <3>2. kafka'[g] = Append(kafka[g], i)
      BY <2>1, <3>1 DEF Write, TypeOK
    <3>3. Len(kafka[g]) + 1 \in DOMAIN kafka'[g] /\ kafka'[g][Len(kafka[g]) + 1] = i
      BY <3>1, <3>2
    <3>4. i' = i /\ rows'[i].group = g
      BY <1>3, <2>1
    <3> QED BY <3>3, <3>4 DEF Produced, Occurrences
  <2>3. SentInHand'
    BY <1>2, <1>3, <1>4, <2>1, <2>2 DEF SentInHand, TypeOK
  <2>4. SentImpliesProduced'
    BY <1>2, <2>1 DEF SentImpliesProduced
  <2> QED BY <2>3, <2>4
<1>6. ASSUME NEW r \in Relay, MarkSent(r) PROVE SentInHand' /\ SentImpliesProduced'
  <2>1. /\ phase[r] = "sent" /\ rows' = [rows EXCEPT ![Head1(r)].status = "sent"]
        /\ NextRow(r)
    BY <1>6 DEF MarkSent
  <2>2. Produced(Head1(r))
    BY <2>1 DEF SentInHand
  <2>3. SentImpliesProduced'
    <3> SUFFICES ASSUME NEW i \in DOMAIN rows', rows'[i].status = "sent" PROVE Produced(i)'
      BY DEF SentImpliesProduced
    <3>1. i \in DOMAIN rows
      BY <2>1
    <3>2. i = Head1(r) \/ rows[i].status = "sent"
      BY <2>1, <3>1
    <3> QED BY <1>2, <2>2, <3>1, <3>2 DEF SentImpliesProduced
  <2>4. SentInHand'
    BY <1>2, <1>3, <1>4, <2>1 DEF SentInHand, NextRow, TypeOK
  <2> QED BY <2>3, <2>4
<1>7. ASSUME /\ \A q \in Relay : phase'[q] = "sent" => phase[q] = "sent" /\ batch'[q] = batch[q]
             /\ \A i \in DOMAIN rows' : rows'[i].status = "sent" =>
                  i \in DOMAIN rows /\ rows[i].status = "sent"
      PROVE  SentInHand' /\ SentImpliesProduced'
  BY <1>2, <1>3, <1>4, <1>7 DEF SentInHand, SentImpliesProduced
<1>8. CASE UNCHANGED vars
  BY <1>7, <1>8 DEF vars
<1>9. ASSUME NEW g \in Group, Enqueue(g) PROVE SentInHand' /\ SentImpliesProduced'
  <2>1. \A i \in DOMAIN rows' : (i \in DOMAIN rows /\ rows'[i] = rows[i]) \/ rows'[i].status = "open"
    BY <1>9, RowFacts DEF Enqueue
  <2> QED BY <1>7, <1>9, <2>1 DEF Enqueue
<1>10. ASSUME NEW r \in Relay, Claim(r) PROVE SentInHand' /\ SentImpliesProduced'
  <2>1. \A i \in DOMAIN rows' : i \in DOMAIN rows /\
          (rows'[i].status = "sending" \/ rows'[i] = rows[i])
    BY <1>10, RowFacts DEF Claim, Row
  <2>2. \A q \in Relay : phase'[q] = "sent" => phase[q] = "sent" /\ batch'[q] = batch[q]
    BY <1>10 DEF Claim, TypeOK
  <2> QED BY <1>7, <2>1, <2>2
<1>11. ASSUME NEW r \in Relay, ProduceError(r) \/ Crash(r) \/ MarkLost(r)
       PROVE  SentInHand' /\ SentImpliesProduced'
  <2>1. UNCHANGED rows
    BY <1>11 DEF ProduceError, Crash, MarkLost
  <2>2. \A q \in Relay : phase'[q] = "sent" => phase[q] = "sent" /\ batch'[q] = batch[q]
    BY <1>11 DEF ProduceError, Crash, MarkLost, NextRow, TypeOK
  <2> QED BY <1>7, <2>1, <2>2
<1>12. ASSUME NEW r \in Relay, MarkRetry(r) PROVE SentInHand' /\ SentImpliesProduced'
  <2>1. \A i \in DOMAIN rows' : i \in DOMAIN rows /\
          (rows'[i].status = "failed" \/ rows'[i] = rows[i])
    BY <1>12, RowFacts DEF MarkRetry, Row
  <2>2. \A q \in Relay : phase'[q] = "sent" => phase[q] = "sent" /\ batch'[q] = batch[q]
    BY <1>12 DEF MarkRetry, NextRow, TypeOK
  <2> QED BY <1>7, <2>1, <2>2
<1>13. CASE \E i \in DOMAIN rows : Due(i) \/ LeaseEnds(i)
  BY <1>7, <1>13 DEF Due, LeaseEnds
<1>14. ASSUME NEW i \in DOMAIN rows, Commit(i) PROVE SentInHand' /\ SentImpliesProduced'
  <2>1. \A j \in DOMAIN rows' : j \in DOMAIN rows /\
          (rows'[j].status = "pending" \/ rows'[j] = rows[j])
    BY <1>14, RowFacts DEF Commit, Row
  <2> QED BY <1>7, <1>14, <2>1 DEF Commit
<1> QED BY <1>5, <1>6, <1>8, <1>9, <1>10, <1>11, <1>12, <1>13, <1>14 DEF Next, Step

\* Until a lease ends early, what a relay holds stays out of reach of the others.
LEMMA LeasesStep ==
  ASSUME IInv, [Next]_vars
  PROVE  Leases'
<1> USE DEF IInv
<1>0. slows' = 0 => slows = 0
  <2>1. slows' = slows \/ \E i \in DOMAIN rows : LeaseEnds(i)
    BY DEF Next, Step, Enqueue, Commit, Claim, Produce, ProduceError, MarkSent, MarkRetry, MarkLost,
           Crash, Due, vars, faults
  <2>2. slows \in Nat
    BY DEF TypeOK
  <2> QED BY <2>1, <2>2 DEF LeaseEnds
<1> SUFFICES ASSUME slows' = 0
             PROVE  /\ \A r, s \in Relay : r # s => batch'[r] \intersect batch'[s] = {}
                    /\ \A r \in Relay : \A i \in batch'[r] :
                         rows'[i].status = "sending" /\ i \notin due'
  BY DEF Leases
<1>1. slows = 0
  BY <1>0
<1>2. /\ \A r, s \in Relay : r # s => batch[r] \intersect batch[s] = {}
      /\ \A r \in Relay : \A i \in batch[r] :
           i \in DOMAIN rows /\ rows[i].status = "sending" /\ i \notin due
  BY <1>1 DEF Leases, TypeOK
\* Steps that add nothing to a batch and leave what stays in one alone.
<1>3. ASSUME /\ \A r \in Relay : batch'[r] \subseteq batch[r]
             /\ \A r \in Relay : \A i \in batch'[r] :
                  (i \in due' => i \in due) /\ rows'[i].status = rows[i].status
      PROVE  /\ \A r, s \in Relay : r # s => batch'[r] \intersect batch'[s] = {}
             /\ \A r \in Relay : \A i \in batch'[r] :
                  rows'[i].status = "sending" /\ i \notin due'
  BY <1>2, <1>3
<1>4. CASE UNCHANGED vars
  BY <1>3, <1>4 DEF vars
<1>5. ASSUME NEW g \in Group, Enqueue(g)
      PROVE  /\ \A r \in Relay : batch'[r] \subseteq batch[r]
             /\ \A r \in Relay : \A i \in batch'[r] :
                  (i \in due' => i \in due) /\ rows'[i].status = rows[i].status
  BY <1>2, <1>5, RowFacts DEF Enqueue
<1>6. ASSUME NEW r \in Relay, Claim(r)
      PROVE  /\ \A q, s \in Relay : q # s => batch'[q] \intersect batch'[s] = {}
             /\ \A q \in Relay : \A i \in batch'[q] :
                  rows'[i].status = "sending" /\ i \notin due'
  <2>1. PICK C \in SUBSET Claimable :
          /\ batch' = [batch EXCEPT ![r] = C]
          /\ rows' = [i \in DOMAIN rows |->
                        IF i \in C THEN [rows[i] EXCEPT !.status = "sending"] ELSE rows[i]]
          /\ due' = due \ C
    BY <1>6 DEF Claim
  <2>2. C \subseteq due /\ C \subseteq DOMAIN rows
    BY DEF Claimable, TypeOK
  <2>3. batch'[r] = C /\ \A q \in Relay \ {r} : batch'[q] = batch[q]
    BY <2>1 DEF TypeOK
  <2>4. \A q \in Relay \ {r} : batch[q] \intersect C = {}
    BY <1>2, <2>2
  <2>5. \A i \in C : rows'[i].status = "sending" /\ i \notin due'
    BY <2>1, <2>2, RowFacts DEF Row
  <2>6. \A q \in Relay \ {r} : \A i \in batch[q] : rows'[i].status = "sending" /\ i \notin due'
    BY <1>2, <2>1, <2>4
  <2> QED BY <1>2, <2>3, <2>4, <2>5, <2>6
<1>7. ASSUME NEW r \in Relay, Produce(r) \/ ProduceError(r) \/ MarkLost(r) \/ Crash(r)
      PROVE  /\ \A q \in Relay : batch'[q] \subseteq batch[q]
             /\ \A q \in Relay : \A i \in batch'[q] :
                  (i \in due' => i \in due) /\ rows'[i].status = rows[i].status
  BY <1>7 DEF Produce, ProduceError, MarkLost, Crash, NextRow, TypeOK
<1>8. ASSUME NEW r \in Relay, MarkSent(r) \/ MarkRetry(r)
      PROVE  /\ \A q \in Relay : batch'[q] \subseteq batch[q]
             /\ \A q \in Relay : \A i \in batch'[q] :
                  (i \in due' => i \in due) /\ rows'[i].status = rows[i].status
  <2>1. /\ Head1(r) \in batch[r] /\ due' \subseteq due /\ NextRow(r)
        /\ \E x \in Status : rows' = [rows EXCEPT ![Head1(r)].status = x]
    BY <1>8, HeadInBatch DEF MarkSent, MarkRetry, Status
  <2>2. \A q \in Relay : batch'[q] \subseteq batch[q] /\ Head1(r) \notin batch'[q]
    BY <1>2, <2>1 DEF NextRow, TypeOK
  <2>3. \A q \in Relay : \A i \in batch'[q] : rows'[i] = rows[i]
    BY <1>2, <2>1, <2>2
  <2> QED BY <2>1, <2>2, <2>3
<1>9. ASSUME NEW i \in DOMAIN rows, Due(i)
      PROVE  /\ \A r \in Relay : batch'[r] \subseteq batch[r]
             /\ \A r \in Relay : \A j \in batch'[r] :
                  (j \in due' => j \in due) /\ rows'[j].status = rows[j].status
  <2>1. \A r \in Relay : i \notin batch[r]
    BY <1>2, <1>9 DEF Due, Held
  <2> QED BY <1>9, <2>1 DEF Due
<1>10. ASSUME NEW i \in DOMAIN rows, LeaseEnds(i) PROVE FALSE
  BY <1>1, <1>10 DEF LeaseEnds
<1>11. ASSUME NEW i \in DOMAIN rows, Commit(i)
       PROVE  /\ \A r \in Relay : batch'[r] \subseteq batch[r]
              /\ \A r \in Relay : \A j \in batch'[r] :
                   (j \in due' => j \in due) /\ rows'[j].status = rows[j].status
  <2>1. \A r \in Relay : i \notin batch[r]
    BY <1>2, <1>11 DEF Commit
  <2> QED BY <1>2, <1>11, <2>1 DEF Commit
<1> QED BY <1>3, <1>4, <1>5, <1>6, <1>7, <1>8, <1>9, <1>10, <1>11 DEF Next, Step

THEOREM Invariance == Spec => []IInv
<1>1. IInv /\ [Next]_vars => IInv'
  BY TypeStep, SentStep, LeasesStep DEF IInv
<1> QED BY <1>1, InitIInv, PTL DEF Spec

-----------------------------------------------------------------------------
\* The state is well-typed, and a relay with work has a head to work on.
THEOREM TypeCorrect == Spec => []TypeOK
BY Invariance, PTL DEF IInv

\* A row marked sent is in Kafka, whatever crashes, fails or comes late
\* (drainOutbox marks after Produce, and marks by id alone).
THEOREM SentIsProduced == Spec => []SentImpliesProduced
BY Invariance, PTL DEF IInv

\* Without an early end of a lease no two relays hold one row, however many
\* crashes, failed produces and lost marks there are (ClaimPendingOutbox).
THEOREM ClaimsExclusive == Spec => []ExclusiveClaim
<1>1. IInv => ExclusiveClaim
  BY DEF IInv, Leases, ExclusiveClaim
<1> QED BY <1>1, Invariance, PTL

-----------------------------------------------------------------------------
\* A relay has taken the row, once and for all.
Claimed(i) == rows[i].status \in {"sending", "sent"}

\* What is claimed is in hand or sent, and nothing else was produced.
Hands ==
  /\ \A r \in Relay : phase[r] # "retry"
  /\ \A g \in Group : \A k \in DOMAIN kafka[g] : kafka[g][k] \in DOMAIN rows
  /\ \A i \in DOMAIN rows :
       /\ rows[i].status # "failed"
       /\ i \in due => rows[i].status # "open"
       /\ Held(i) \/ Produced(i) => Claimed(i)
       /\ rows[i].status = "sending" => Held(i)

\* A row that was due before another came is claimed before it, or with it.
Before(i, j) ==
  /\ i \in DOMAIN rows /\ i < j
  /\ Claimed(i) \/ (~Claimed(j) /\ i \in due /\ rows[i].status = "pending")
Queue == \A j \in DOMAIN rows : \A i \in rows[j].after : Before(i, j)

\* So it is as long as nothing fails or dies, although leases may end early.
Calm == fails = 0 /\ crashes = 0 => Hands /\ Queue

LEMMA FaultsRemain ==
  ASSUME TypeOK, [Next]_vars, fails' = 0, crashes' = 0
  PROVE  /\ fails = 0 /\ crashes = 0
         /\ \A r \in Relay : ~ProduceError(r) /\ ~MarkLost(r) /\ ~Crash(r)
<1>1. fails \in Nat /\ crashes \in Nat
  BY DEF TypeOK
<1>2. ASSUME NEW r \in Relay PROVE ~ProduceError(r) /\ ~MarkLost(r) /\ ~Crash(r)
  BY <1>1 DEF ProduceError, MarkLost, Crash
<1>3. UNCHANGED <<fails, crashes>>
  BY <1>2 DEF Next, Step, Enqueue, Commit, Claim, Produce, MarkSent, MarkRetry, Due, LeaseEnds, vars, faults
<1> QED BY <1>2, <1>3

\* Steps that leave the rows and the hands alone; a row may become due.
LEMMA CalmSame ==
  ASSUME TypeOK, Hands, Queue, UNCHANGED <<rows, kafka, batch, phase>>, due \subseteq due',
         \A i \in due' \ due : i \in DOMAIN rows /\ rows[i].status # "open"
  PROVE  Hands' /\ Queue'
<1>1. Hands'
  BY DEF Hands, Held, Produced, Occurrences, Claimed
<1>2. Queue'
  BY DEF Queue, Before, Claimed
<1> QED BY <1>1, <1>2

\* A new row comes after those that are claimed or due.
LEMMA EnqueueCalm ==
  ASSUME TypeOK, Hands, Queue, NEW g \in Group, Enqueue(g)
  PROVE  Hands' /\ Queue'
<1>0. PICK n \in Nat : n = Len(rows) + 1
  BY RowFacts
<1> DEFINE A == {i \in DOMAIN rows : rows[i].group = g /\ Seen(i)}
           x == [group |-> g, status |-> "open", after |-> A]
<1>1. /\ n \in Nat /\ DOMAIN rows' = DOMAIN rows \union {n} /\ n \notin DOMAIN rows
      /\ \A i \in DOMAIN rows : rows'[i] = rows[i] /\ i < n
      /\ rows'[n] = x
      /\ UNCHANGED <<due, kafka, batch, phase>>
  <2>1. x \in Row /\ rows \in Seq(Row) /\ rows' = Append(rows, x) /\ UNCHANGED <<due, kafka, batch, phase>>
    BY RowFacts DEF Enqueue, Row, Status, TypeOK
  <2>2. Len(rows) \in Nat /\ DOMAIN rows = 1..Len(rows)
    BY RowFacts
  <2> HIDE DEF x
  <2> QED BY <1>0, <2>1, <2>2
<1>2. due \subseteq DOMAIN rows /\ \A r \in Relay : batch[r] \subseteq DOMAIN rows
  BY DEF TypeOK
<1>3. rows'[n].status = "open" /\ rows'[n].after = A /\ rows'[n].group = g
  BY <1>1
<1> HIDE DEF A, x
<1>4. ASSUME NEW i \in DOMAIN rows
      PROVE  (Held(i)' <=> Held(i)) /\ (Produced(i)' <=> Produced(i)) /\ (Claimed(i)' <=> Claimed(i))
  BY <1>1 DEF Held, Produced, Occurrences, Claimed
<1>5. Hands'
  <2>1. ~Held(n)' /\ n \notin due'
    BY <1>1, <1>2 DEF Held
  <2>2. ~Produced(n)'
    BY <1>1, <1>3 DEF Hands, Produced, Occurrences
  <2>3. \A i \in DOMAIN rows :
          /\ rows'[i].status # "failed"
          /\ i \in due' => rows'[i].status # "open"
          /\ Held(i)' \/ Produced(i)' => Claimed(i)'
          /\ rows'[i].status = "sending" => Held(i)'
    BY <1>1, <1>4 DEF Hands
  <2> QED BY <1>1, <1>3, <2>1, <2>2, <2>3 DEF Hands
<1>6. Queue'
  <2>1. ASSUME NEW j \in DOMAIN rows, NEW i \in rows[j].after PROVE Before(i, j)'
    BY <1>1, <1>4, <2>1 DEF Queue, Before, Claimed
  <2>2. ASSUME NEW i \in A PROVE Before(i, n)'
    <3>1. i \in DOMAIN rows /\ (i \in due \/ rows[i].status \notin {"open", "pending"})
      BY DEF A, Seen
    <3>2. rows[i].status \in {"open", "pending", "sending", "sent"} /\ (i \in due => rows[i].status # "open")
      BY <3>1, RowFacts DEF Hands, Row, Status
    <3>3. Claimed(i) \/ (i \in due /\ rows[i].status = "pending")
      BY <3>1, <3>2 DEF Claimed
    <3>4. ~Claimed(n)'
      BY <1>3 DEF Claimed
    <3> QED BY <1>1, <1>4, <3>1, <3>3, <3>4 DEF Before
  <2> QED BY <1>1, <1>3, <2>1, <2>2 DEF Queue
<1> QED BY <1>5, <1>6

LEMMA CommitCalm ==
  ASSUME TypeOK, Hands, Queue, NEW n \in DOMAIN rows, Commit(n)
  PROVE  Hands' /\ Queue'
<1>1. /\ rows[n].status = "open" /\ rows' = [rows EXCEPT ![n].status = "pending"]
      /\ due' \in {due, due \union {n}} /\ UNCHANGED <<kafka, batch, phase>>
  BY DEF Commit
<1>2. /\ DOMAIN rows' = DOMAIN rows /\ rows'[n].status = "pending"
      /\ \A i \in DOMAIN rows : /\ rows'[i].group = rows[i].group /\ rows'[i].after = rows[i].after
                                /\ i # n => rows'[i] = rows[i]
  BY <1>1, RowFacts DEF Row
<1>3. ~Claimed(n) /\ ~Claimed(n)' /\ ~Held(n)
  BY <1>1, <1>2 DEF Hands, Claimed
<1>4. ASSUME NEW i \in DOMAIN rows
      PROVE  (Held(i)' <=> Held(i)) /\ (Produced(i)' <=> Produced(i)) /\ (Claimed(i)' <=> Claimed(i))
  <2>1. (Held(i)' <=> Held(i)) /\ (Produced(i)' <=> Produced(i))
    BY <1>1, <1>2 DEF Held, Produced, Occurrences
  <2>2. i # n => (Claimed(i)' <=> Claimed(i))
    BY <1>2 DEF Claimed
  <2> QED BY <1>3, <2>1, <2>2
<1>5. Hands'
  <2>1. ~Produced(n)'
    BY <1>3, <1>4 DEF Hands
  <2>2. \A i \in DOMAIN rows \ {n} : (i \in due' => i \in due) /\ rows'[i].status = rows[i].status
    BY <1>1, <1>2
  <2>3. \A i \in DOMAIN rows \ {n} :
          /\ rows'[i].status # "failed"
          /\ i \in due' => rows'[i].status # "open"
          /\ Held(i)' \/ Produced(i)' => Claimed(i)'
          /\ rows'[i].status = "sending" => Held(i)'
    BY <1>4, <2>2 DEF Hands
  <2>4. ~Held(n)'
    BY <1>3, <1>4
  <2>5. /\ \A r \in Relay : phase'[r] # "retry"
        /\ \A g \in Group : \A k \in DOMAIN kafka'[g] : kafka'[g][k] \in DOMAIN rows'
    BY <1>1, <1>2 DEF Hands
  <2> QED BY <1>2, <2>1, <2>3, <2>4, <2>5 DEF Hands
<1>6. Queue'
  <2> SUFFICES ASSUME NEW j \in DOMAIN rows, NEW i \in rows[j].after PROVE Before(i, j)'
    BY <1>2 DEF Queue
  <2>1. Before(i, j)
    BY DEF Queue
  <2>2. i # n
    BY <1>1, <1>3, <2>1 DEF Before
  <2>3. i \in DOMAIN rows' /\ i < j /\ (i \in due => i \in due') /\ rows'[i].status = rows[i].status
    BY <1>1, <1>2, <2>1, <2>2 DEF Before
  <2> QED BY <1>4, <2>1, <2>3 DEF Before
<1> QED BY <1>5, <1>6

\* A claim takes the due rows from the first one on.
LEMMA ClaimCalm ==
  ASSUME TypeOK, Hands, Queue, NEW r \in Relay, Claim(r)
  PROVE  Hands' /\ Queue'
<1>1. PICK C \in SUBSET Claimable :
        /\ C # {} /\ \A i \in C, j \in Claimable \ C : i < j
        /\ batch' = [batch EXCEPT ![r] = C]
        /\ rows' = [i \in DOMAIN rows |->
                      IF i \in C THEN [rows[i] EXCEPT !.status = "sending"] ELSE rows[i]]
        /\ due' = due \ C
  BY DEF Claim
<1>2. /\ C \subseteq due /\ C \subseteq DOMAIN rows /\ DOMAIN rows' = DOMAIN rows /\ kafka' = kafka
      /\ phase' = [phase EXCEPT ![r] = "produce"] /\ batch[r] = {}
      /\ \A i \in C : rows[i].status # "sent"
  BY <1>1 DEF Claimable, TypeOK, Claim
<1>3. \A i \in DOMAIN rows : /\ rows'[i].group = rows[i].group /\ rows'[i].after = rows[i].after
                             /\ rows'[i].status = IF i \in C THEN "sending" ELSE rows[i].status
  BY <1>1, RowFacts DEF Row
<1>4. \A i \in DOMAIN rows : Claimed(i)' <=> Claimed(i) \/ i \in C
  BY <1>3 DEF Claimed
<1>5. \A i : Held(i)' <=> Held(i) \/ i \in C
  <2>1. batch'[r] = C /\ \A q \in Relay \ {r} : batch'[q] = batch[q]
    BY <1>1 DEF TypeOK
  <2> QED BY <1>2, <2>1 DEF Held
<1>6. \A i \in DOMAIN rows : Produced(i)' <=> Produced(i)
  BY <1>2, <1>3 DEF Produced, Occurrences
<1>7. Hands'
  <2>1. \A i \in DOMAIN rows :
          /\ rows'[i].status # "failed"
          /\ i \in due' => rows'[i].status # "open"
          /\ Held(i)' \/ Produced(i)' => Claimed(i)'
          /\ rows'[i].status = "sending" => Held(i)'
    BY <1>1, <1>3, <1>4, <1>5, <1>6 DEF Hands
  <2>2. \A q \in Relay : phase'[q] # "retry"
    BY <1>2 DEF Hands, TypeOK
  <2> QED BY <1>2, <2>1, <2>2 DEF Hands
<1>8. Queue'
  <2> SUFFICES ASSUME NEW j \in DOMAIN rows, NEW i \in rows[j].after PROVE Before(i, j)'
    BY <1>2, <1>3 DEF Queue
  <2>1. Before(i, j)
    BY DEF Queue
  <2>2. i \in DOMAIN rows /\ i < j /\ i \in Nat /\ j \in Nat
    BY <2>1, RowFacts DEF Before
  <2>3. CASE Claimed(i) \/ i \in C
    BY <1>2, <1>4, <2>2, <2>3 DEF Before
  <2>4. CASE ~Claimed(i) /\ i \notin C
    <3>1. ~Claimed(j) /\ i \in due /\ rows[i].status = "pending"
      BY <2>1, <2>4 DEF Before
    <3>2. i \in Claimable
      BY <3>1 DEF Claimable
    <3>3. j \notin C
      <4>1. j \in C => j < i
        BY <1>1, <2>4, <3>2
      <4> QED BY <2>2, <4>1
    <3>4. ~Claimed(j)' /\ i \in due' /\ rows'[i].status = "pending"
      BY <1>1, <1>3, <1>4, <2>2, <2>4, <3>1, <3>3
    <3> QED BY <1>2, <2>2, <3>4 DEF Before
  <2> QED BY <2>3, <2>4
<1> QED BY <1>7, <1>8

\* What is produced is in hand, and so claimed.
LEMMA ProduceCalm ==
  ASSUME TypeOK, Hands, Queue, NEW r \in Relay, Produce(r)
  PROVE  Hands' /\ Queue'
<1>1. PICK h \in Nat : h = Head1(r)
  BY HeadInBatch, RowFacts DEF Produce
<1>2. h \in batch[r] /\ h \in DOMAIN rows /\ rows[h].group \in Group
  BY <1>1, HeadInBatch, RowFacts DEF Produce
<1>3. /\ UNCHANGED <<rows, due, batch>> /\ phase' = [phase EXCEPT ![r] = "sent"]
      /\ kafka' = [kafka EXCEPT ![rows[h].group] = Append(@, h)]
  BY <1>1 DEF Produce, Write
<1>4. \A g \in Group : /\ kafka[g] \in Seq(Nat)
                       /\ kafka'[g] = kafka[g] \/ kafka'[g] = Append(kafka[g], h)
  BY <1>2, <1>3 DEF TypeOK
<1>5. \A g \in Group : \A k \in DOMAIN kafka'[g] :
        kafka'[g][k] = h \/ (k \in DOMAIN kafka[g] /\ kafka'[g][k] = kafka[g][k])
  <2> TAKE g \in Group
  <2>1. \A k \in DOMAIN Append(kafka[g], h) :
          Append(kafka[g], h)[k] = h \/ (k \in DOMAIN kafka[g] /\ Append(kafka[g], h)[k] = kafka[g][k])
    BY <1>4
  <2> QED BY <1>4, <2>1
<1>6. \A i \in DOMAIN rows : i # h => (Produced(i)' => Produced(i))
  BY <1>3, <1>5, RowFacts DEF Produced, Occurrences
<1>7. Held(h) /\ \A i : (Held(i)' <=> Held(i)) /\ (Claimed(i)' <=> Claimed(i))
  BY <1>2, <1>3 DEF Held, Claimed
<1>8. Hands'
  <2>1. \A i \in DOMAIN rows : Held(i)' \/ Produced(i)' => Claimed(i)'
    BY <1>6, <1>7 DEF Hands
  <2>2. \A q \in Relay : phase'[q] # "retry"
    BY <1>3 DEF Hands, TypeOK
  <2>3. \A g \in Group : \A k \in DOMAIN kafka'[g] : kafka'[g][k] \in DOMAIN rows'
    BY <1>2, <1>3, <1>5 DEF Hands
  <2> QED BY <1>3, <1>7, <2>1, <2>2, <2>3 DEF Hands
<1>9. Queue'
  BY <1>3 DEF Queue, Before, Claimed
<1> QED BY <1>8, <1>9

LEMMA MarkSentCalm ==
  ASSUME TypeOK, Hands, Queue, NEW r \in Relay, MarkSent(r)
  PROVE  Hands' /\ Queue'
<1>1. PICK h \in Nat : h = Head1(r)
  BY HeadInBatch, RowFacts DEF MarkSent
<1>2. h \in batch[r] /\ h \in DOMAIN rows
  BY <1>1, HeadInBatch DEF MarkSent
<1>3. /\ rows' = [rows EXCEPT ![h].status = "sent"] /\ UNCHANGED <<due, kafka>>
      /\ batch' = [batch EXCEPT ![r] = batch[r] \ {h}]
      /\ phase' = [phase EXCEPT ![r] = IF batch[r] = {h} THEN "idle" ELSE "produce"]
  BY <1>1 DEF MarkSent, NextRow
<1>4. /\ DOMAIN rows' = DOMAIN rows /\ rows'[h].status = "sent"
      /\ \A i \in DOMAIN rows : /\ rows'[i].group = rows[i].group /\ rows'[i].after = rows[i].after
                                /\ i # h => rows'[i] = rows[i]
  BY <1>2, <1>3, RowFacts DEF Row
<1>5. Claimed(h) /\ Claimed(h)'
  BY <1>2, <1>4 DEF Hands, Held, Claimed
<1>6. \A i \in DOMAIN rows : Claimed(i)' <=> Claimed(i)
  BY <1>4, <1>5 DEF Claimed
<1>7. \A i : (Held(i)' => Held(i)) /\ (i # h => (Held(i) => Held(i)'))
  <2>1. batch'[r] = batch[r] \ {h} /\ \A q \in Relay \ {r} : batch'[q] = batch[q]
    BY <1>3 DEF TypeOK
  <2> QED BY <2>1 DEF Held
<1>8. \A i \in DOMAIN rows : Produced(i)' <=> Produced(i)
  BY <1>3, <1>4 DEF Produced, Occurrences
<1>9. Hands'
  <2>1. \A i \in DOMAIN rows :
          /\ rows'[i].status # "failed"
          /\ i \in due' => rows'[i].status # "open"
          /\ Held(i)' \/ Produced(i)' => Claimed(i)'
          /\ rows'[i].status = "sending" => Held(i)'
    BY <1>3, <1>4, <1>6, <1>7, <1>8 DEF Hands
  <2>2. \A q \in Relay : phase'[q] # "retry"
    BY <1>3 DEF Hands, TypeOK
  <2> QED BY <1>3, <1>4, <2>1, <2>2 DEF Hands
<1>10. Queue'
  <2> SUFFICES ASSUME NEW j \in DOMAIN rows, NEW i \in rows[j].after PROVE Before(i, j)'
    BY <1>4 DEF Queue
  <2>1. Before(i, j)
    BY DEF Queue
  <2>2. ~Claimed(i) => i # h
    BY <1>5
  <2> QED BY <1>3, <1>4, <1>6, <2>1, <2>2 DEF Before
<1> QED BY <1>9, <1>10

LEMMA CalmStep == ASSUME TypeOK, Calm, [Next]_vars PROVE Calm'
<1> SUFFICES ASSUME fails' = 0, crashes' = 0 PROVE Hands' /\ Queue'
  BY DEF Calm
<1>1. Hands /\ Queue /\ \A r \in Relay : ~ProduceError(r) /\ ~MarkLost(r) /\ ~Crash(r) /\ ~MarkRetry(r)
  BY FaultsRemain DEF Calm, Hands, MarkRetry
<1>2. ASSUME NEW i \in DOMAIN rows, Due(i) \/ LeaseEnds(i) PROVE Hands' /\ Queue'
  BY <1>1, <1>2, CalmSame DEF Due, LeaseEnds
<1>3. CASE UNCHANGED vars
  BY <1>1, <1>3, CalmSame DEF vars
<1> QED BY <1>1, <1>2, <1>3, EnqueueCalm, CommitCalm, ClaimCalm, ProduceCalm, MarkSentCalm DEF Next, Step

\* service.go:722: an event that was due when another of its group was queued is
\* overtaken in Kafka only while a relay holds it: ClaimPendingOutbox takes the
\* due rows in the order of their ids and 'sending' ends in 'sent' as long as no
\* produce fails and no relay dies, however early leases end.
THEOREM OvertakenInHand == Spec => []GapIsInHand
<1>1. Init => Calm
  BY DEF Init, Calm, Hands, Queue
<1>2. IInv /\ Calm /\ [Next]_vars => Calm'
  BY CalmStep DEF IInv
<1>3. IInv /\ Calm => GapIsInHand
  <2> SUFFICES ASSUME IInv, Calm, fails = 0, crashes = 0,
                      NEW j \in DOMAIN rows, Produced(j), NEW i \in rows[j].after
               PROVE  Produced(i) \/ Held(i)
    BY DEF GapIsInHand
  <2>1. Before(i, j) /\ Claimed(j) /\ Hands
    BY DEF Calm, Hands, Queue
  <2>2. i \in DOMAIN rows /\ Claimed(i)
    BY <2>1 DEF Before
  <2> QED BY <2>1, <2>2 DEF Claimed, Hands, IInv, SentImpliesProduced
<1> QED BY <1>1, <1>2, <1>3, Invariance, PTL DEF Spec

-----------------------------------------------------------------------------
\* The records of Kafka, the rows a relay may still produce, as pairs, and the
\* rows nobody holds or that are due again.
Records == UNION {{g} \X DOMAIN kafka[g] : g \in Group}
InHand(r) == IF phase[r] = "sent" THEN batch[r] \ {Head1(r)} ELSE batch[r]
Owed == UNION {{r} \X InHand(r) : r \in Relay}
OpenRows == {i \in DOMAIN rows :
               rows[i].status # "sent" /\ (i \in due \/ ~Held(i) \/ rows[i].status = "failed")}

\* What is in Kafka and what may still be produced add up to one record a row,
\* and one more for every fault.
Balance ==
  Cardinality(Records) + Cardinality(Owed) + Cardinality(OpenRows)
    =< Len(rows) + fails + crashes + slows
Finite == IsFiniteSet(Records) /\ IsFiniteSet(Owed) /\ IsFiniteSet(OpenRows)
NoneOpen == \A r \in Relay : \A i \in batch[r] : rows[i].status # "open"

Accounts == Finite /\ Balance /\ NoneOpen

LEMMA OpenFinite ==
  ASSUME TypeOK
  PROVE  /\ IsFiniteSet(DOMAIN rows) /\ Cardinality(DOMAIN rows) = Len(rows)
         /\ \A S \in SUBSET DOMAIN rows : IsFiniteSet(S)
<1>1. Len(rows) \in Nat /\ DOMAIN rows = 1..Len(rows)
  BY RowFacts
<1>2. PICK n \in Nat : n = Len(rows)
  BY <1>1
<1>3. IsFiniteSet(1..n) /\ Cardinality(1..n) = IF 1 > n THEN 0 ELSE n - 1 + 1
  BY FS_Interval
<1> QED BY <1>1, <1>2, <1>3, FS_Subset

LEMMA PairsCount ==
  ASSUME NEW r, NEW C, IsFiniteSet(C)
  PROVE  IsFiniteSet({r} \X C) /\ Cardinality({r} \X C) = Cardinality(C)
<1>1. IsFiniteSet({r}) /\ Cardinality({r}) = 1
  BY FS_Singleton
<1>2. IsFiniteSet({r} \X C) /\ Cardinality({r} \X C) = Cardinality({r}) * Cardinality(C)
  BY <1>1, FS_Product
<1>3. Cardinality(C) \in Nat
  BY FS_CardinalityType
<1> QED BY <1>1, <1>2, <1>3

\* The sizes of sets that grow by one element at most, or shrink.
LEMMA OneMore ==
  ASSUME NEW S, IsFiniteSet(S), NEW x, NEW T, T \subseteq S \union {x}
  PROVE  IsFiniteSet(T) /\ Cardinality(T) =< Cardinality(S) + 1
<1>1. IsFiniteSet(S \union {x}) /\ Cardinality(S \union {x}) =< Cardinality(S) + 1
  <2>1. Cardinality(S) \in Nat
    BY FS_CardinalityType
  <2>2. /\ IsFiniteSet(S \union {x})
        /\ Cardinality(S \union {x}) = IF x \in S THEN Cardinality(S) ELSE Cardinality(S) + 1
    BY FS_AddElement
  <2> QED BY <2>1, <2>2
<1>2. IsFiniteSet(T) /\ Cardinality(T) =< Cardinality(S \union {x})
  BY <1>1, FS_Subset
<1>3. Cardinality(T) \in Nat /\ Cardinality(S) \in Nat /\ Cardinality(S \union {x}) \in Nat
  BY <1>1, <1>2, FS_CardinalityType
<1> QED BY <1>1, <1>2, <1>3

\* A relay takes the open rows C: each of them is owed instead.
LEMMA Taken ==
  ASSUME NEW T, IsFiniteSet(T), NEW O, IsFiniteSet(O), NEW r, NEW C, C \subseteq O,
         NEW U, U \subseteq T \union ({r} \X C), NEW P, P \subseteq O \ C
  PROVE  /\ IsFiniteSet(U) /\ IsFiniteSet(P)
         /\ Cardinality(U) + Cardinality(P) =< Cardinality(T) + Cardinality(O)
<1>1. IsFiniteSet(C)
  BY FS_Subset
<1> DEFINE X == {r} \X C
<1>2. IsFiniteSet(X) /\ Cardinality(X) = Cardinality(C)
  BY <1>1, PairsCount
<1> HIDE DEF X
<1>3. /\ IsFiniteSet(T \union X) /\ IsFiniteSet(T \intersect X)
      /\ Cardinality(T \union X) = Cardinality(T) + Cardinality(X) - Cardinality(T \intersect X)
  BY <1>2, FS_Union, FS_Intersection
<1>4. IsFiniteSet(U) /\ Cardinality(U) =< Cardinality(T \union X)
  BY <1>3, FS_Subset DEF X
<1>5. O \intersect C = C
  OBVIOUS
<1>6. IsFiniteSet(O \ C) /\ Cardinality(O \ C) = Cardinality(O) - Cardinality(C)
  BY <1>5, FS_Difference
<1>7. IsFiniteSet(P) /\ Cardinality(P) =< Cardinality(O \ C)
  BY <1>6, FS_Subset
<1>8. /\ Cardinality(T) \in Nat /\ Cardinality(O) \in Nat /\ Cardinality(C) \in Nat
      /\ Cardinality(T \intersect X) \in Nat /\ Cardinality(T \union X) \in Nat
      /\ Cardinality(U) \in Nat /\ Cardinality(P) \in Nat /\ Cardinality(O \ C) \in Nat
  BY <1>1, <1>3, <1>4, <1>6, <1>7, FS_CardinalityType
<1> QED BY <1>2, <1>3, <1>4, <1>6, <1>7, <1>8

\* A relay gives the rows M up: they are open again.
LEMMA GivenUp ==
  ASSUME NEW T, IsFiniteSet(T), NEW O, IsFiniteSet(O), NEW r, NEW M, IsFiniteSet(M),
         {r} \X M \subseteq T, NEW U, U \subseteq T \ ({r} \X M), NEW P, P \subseteq O \union M
  PROVE  /\ IsFiniteSet(U) /\ IsFiniteSet(P)
         /\ Cardinality(U) + Cardinality(P) =< Cardinality(T) + Cardinality(O)
<1> DEFINE X == {r} \X M
<1>1. IsFiniteSet(X) /\ Cardinality(X) = Cardinality(M)
  BY PairsCount
<1>2. X \subseteq T /\ U \subseteq T \ X
  OBVIOUS
<1> HIDE DEF X
<1>3. T \intersect X = X
  BY <1>2
<1>4. IsFiniteSet(T \ X) /\ Cardinality(T \ X) = Cardinality(T) - Cardinality(X)
  BY <1>3, FS_Difference
<1>5. IsFiniteSet(U) /\ Cardinality(U) =< Cardinality(T \ X)
  BY <1>2, <1>4, FS_Subset
<1>6. /\ IsFiniteSet(O \union M) /\ IsFiniteSet(O \intersect M)
      /\ Cardinality(O \union M) = Cardinality(O) + Cardinality(M) - Cardinality(O \intersect M)
  BY FS_Union, FS_Intersection
<1>7. IsFiniteSet(P) /\ Cardinality(P) =< Cardinality(O \union M)
  BY <1>6, FS_Subset
<1>8. /\ Cardinality(T) \in Nat /\ Cardinality(O) \in Nat /\ Cardinality(M) \in Nat
      /\ Cardinality(T \ X) \in Nat /\ Cardinality(O \union M) \in Nat
      /\ Cardinality(O \intersect M) \in Nat /\ Cardinality(U) \in Nat /\ Cardinality(P) \in Nat
  BY <1>4, <1>5, <1>6, <1>7, FS_CardinalityType
<1> QED BY <1>1, <1>4, <1>5, <1>6, <1>7, <1>8

\* A step keeps the balance that adds no more to the left of it than to the right.
LEMMA BalanceKept ==
  ASSUME TypeOK, TypeOK', Finite, Finite', Balance, NEW d \in Nat,
         Cardinality(Records') + Cardinality(Owed') + Cardinality(OpenRows')
           =< Cardinality(Records) + Cardinality(Owed) + Cardinality(OpenRows) + d,
         Len(rows') + fails' + crashes' + slows' = Len(rows) + fails + crashes + slows + d
  PROVE  Balance'
<1>1. /\ Cardinality(Records) \in Nat /\ Cardinality(Owed) \in Nat /\ Cardinality(OpenRows) \in Nat
      /\ Cardinality(Records') \in Nat /\ Cardinality(Owed') \in Nat /\ Cardinality(OpenRows') \in Nat
  BY FS_CardinalityType DEF Finite
<1>2. /\ Len(rows) \in Nat /\ fails \in Nat /\ crashes \in Nat /\ slows \in Nat
      /\ Len(rows') \in Nat /\ fails' \in Nat /\ crashes' \in Nat /\ slows' \in Nat
  BY DEF TypeOK
<1> DEFINE A == Cardinality(Records) + Cardinality(Owed) + Cardinality(OpenRows)
           B == Cardinality(Records') + Cardinality(Owed') + Cardinality(OpenRows')
           F == Len(rows) + fails + crashes + slows
           G == Len(rows') + fails' + crashes' + slows'
<1>3. A \in Int /\ B \in Int /\ F \in Int /\ G \in Int
  <2>1. A \in Int /\ B \in Int
    BY <1>1
  <2>2. F \in Int /\ G \in Int
    BY <1>2
  <2> QED BY <2>1, <2>2
<1>4. A =< F
  BY DEF Balance
<1>5. B =< A + d /\ G = F + d
  OBVIOUS
<1>6. B =< G => Balance'
  BY DEF Balance
<1> HIDE DEF A, B, F, G
<1>7. B =< G
  BY <1>3, <1>4, <1>5
<1> QED BY <1>6, <1>7

\* Writing a row adds one record.
LEMMA WriteOne ==
  ASSUME TypeOK, Finite, NEW i \in DOMAIN rows, Write(i)
  PROVE  IsFiniteSet(Records') /\ Cardinality(Records') =< Cardinality(Records) + 1
<1>1. rows[i].group \in Group /\ i \in Nat
  BY RowFacts
<1> DEFINE h == rows[i].group
           n == Len(kafka[h]) + 1
<1>2. kafka[h] \in Seq(Nat) /\ kafka'[h] = Append(kafka[h], i)
  BY <1>1 DEF Write, TypeOK
<1>3. DOMAIN kafka'[h] = DOMAIN kafka[h] \union {n}
  BY <1>1, <1>2
<1>4. \A g \in Group : g # h => kafka'[g] = kafka[g]
  BY DEF Write, TypeOK
<1> HIDE DEF h, n
<1>5. Records' \subseteq Records \union {<<h, n>>}
  BY <1>3, <1>4 DEF Records
<1> QED BY <1>5, OneMore DEF Finite

\* Nothing is owed by an idle relay, and the head is not once it is produced.
LEMMA OwedFacts ==
  ASSUME TypeOK, TypeOK', NEW r \in Relay,
         \A q \in Relay : q # r => batch'[q] = batch[q] /\ phase'[q] = phase[q]
  PROVE  Owed' \subseteq (Owed \ ({r} \X InHand(r))) \union ({r} \X InHand(r)')
<1>1. \A q \in Relay : q # r => InHand(q)' = InHand(q)
  BY DEF InHand, Head1
<1> QED BY <1>1 DEF Owed

LEMMA StartAccounts == Init => Accounts
<1> SUFFICES ASSUME Init PROVE Accounts
  OBVIOUS
<1>1. Records = {} /\ Owed = {} /\ OpenRows = {} /\ Len(rows) = 0
  BY DEF Init, Records, Owed, InHand, OpenRows
<1> QED BY <1>1, FS_EmptySet DEF Init, Accounts, Finite, Balance, NoneOpen

LEMMA EnqueueAccounts ==
  ASSUME TypeOK, TypeOK', Accounts, NEW g \in Group, Enqueue(g)
  PROVE  Accounts'
<1>0. PICK n \in Nat : n = Len(rows) + 1
  BY RowFacts
<1>1. /\ DOMAIN rows' = DOMAIN rows \union {n} /\ Len(rows') = Len(rows) + 1
      /\ \A i \in DOMAIN rows : rows'[i] = rows[i]
      /\ UNCHANGED <<due, kafka, batch, phase, fails, crashes, slows>>
  BY <1>0, RowFacts DEF Enqueue, faults
<1>2. Records' = Records /\ Owed' = Owed
  BY <1>1 DEF Records, Owed, InHand, Head1
<1>3. OpenRows' \subseteq OpenRows \union {n}
  BY <1>1 DEF OpenRows, Held
<1>4. IsFiniteSet(OpenRows') /\ Cardinality(OpenRows') =< Cardinality(OpenRows) + 1
  BY <1>3, OneMore DEF Accounts, Finite
<1>5. Finite'
  BY <1>2, <1>4 DEF Accounts, Finite
<1>6. /\ Cardinality(Records) \in Nat /\ Cardinality(Owed) \in Nat /\ Cardinality(OpenRows) \in Nat
      /\ Cardinality(OpenRows') \in Nat
  BY <1>4, FS_CardinalityType DEF Accounts, Finite
<1>7. Balance'
  <2>1. Cardinality(Records') + Cardinality(Owed') + Cardinality(OpenRows')
          =< Cardinality(Records) + Cardinality(Owed) + Cardinality(OpenRows) + 1
    BY <1>2, <1>4, <1>6
  <2>2. Len(rows') + fails' + crashes' + slows' = Len(rows) + fails + crashes + slows + 1
    BY <1>1, RowFacts DEF TypeOK
  <2> QED BY <1>5, <2>1, <2>2, BalanceKept DEF Accounts
<1>8. NoneOpen'
  BY <1>1 DEF Accounts, NoneOpen, TypeOK
<1> QED BY <1>5, <1>7, <1>8 DEF Accounts

LEMMA ClaimAccounts ==
  ASSUME TypeOK, TypeOK', Accounts, NEW r \in Relay, Claim(r)
  PROVE  Accounts'
<1>1. PICK C \in SUBSET Claimable :
        /\ batch' = [batch EXCEPT ![r] = C]
        /\ rows' = [i \in DOMAIN rows |->
                      IF i \in C THEN [rows[i] EXCEPT !.status = "sending"] ELSE rows[i]]
        /\ due' = due \ C
  BY DEF Claim
<1>2. /\ phase[r] = "idle" /\ phase' = [phase EXCEPT ![r] = "produce"] /\ batch[r] = {}
      /\ UNCHANGED <<kafka, fails, crashes, slows>>
  BY DEF Claim, TypeOK, faults
<1>3. C \subseteq DOMAIN rows /\ C \subseteq due /\ \A i \in C : rows[i].status # "sent"
  BY DEF Claimable, TypeOK
<1>4. /\ DOMAIN rows' = DOMAIN rows /\ Len(rows') = Len(rows)
      /\ \A i \in DOMAIN rows : rows'[i].status = IF i \in C THEN "sending" ELSE rows[i].status
  BY <1>1, RowFacts DEF Row, TypeOK
<1>5. batch'[r] = C /\ phase'[r] = "produce"
      /\ \A q \in Relay : q # r => batch'[q] = batch[q] /\ phase'[q] = phase[q]
  BY <1>1, <1>2 DEF TypeOK
<1>6. C \subseteq OpenRows
  BY <1>3 DEF OpenRows
<1>7. OpenRows' \subseteq OpenRows \ C
  <2> SUFFICES ASSUME NEW i \in OpenRows' PROVE i \in OpenRows /\ i \notin C
    OBVIOUS
  <2>1. /\ i \in DOMAIN rows /\ rows'[i].status # "sent"
        /\ i \in due' \/ ~Held(i)' \/ rows'[i].status = "failed"
    BY <1>4 DEF OpenRows
  <2>2. i \notin C
    BY <1>1, <1>4, <1>5, <2>1 DEF Held
  <2>3. Held(i) => Held(i)'
    BY <1>2, <1>5 DEF Held
  <2> QED BY <1>1, <1>4, <2>1, <2>2, <2>3 DEF OpenRows
<1>8. InHand(r) = {} /\ InHand(r)' = C
  BY <1>2, <1>5 DEF InHand
<1>9. Owed' \subseteq Owed \union ({r} \X C)
  BY <1>5, <1>8, OwedFacts
<1>10. /\ IsFiniteSet(Owed') /\ IsFiniteSet(OpenRows')
       /\ Cardinality(Owed') + Cardinality(OpenRows') =< Cardinality(Owed) + Cardinality(OpenRows)
  BY <1>6, <1>7, <1>9, Taken DEF Accounts, Finite
<1>11. Records' = Records
  BY <1>2 DEF Records
<1>12. Finite'
  BY <1>10, <1>11 DEF Accounts, Finite
<1>13. Balance'
  <2>1. /\ Cardinality(Records) \in Nat /\ Cardinality(Owed) \in Nat /\ Cardinality(OpenRows) \in Nat
    BY FS_CardinalityType DEF Accounts, Finite
  <2>2. Cardinality(Owed') \in Nat /\ Cardinality(OpenRows') \in Nat
    BY <1>10, FS_CardinalityType
  <2>3. Cardinality(Records') + Cardinality(Owed') + Cardinality(OpenRows')
          =< Cardinality(Records) + Cardinality(Owed) + Cardinality(OpenRows) + 0
    BY <1>10, <1>11, <2>1, <2>2
  <2>4. Len(rows') + fails' + crashes' + slows' = Len(rows) + fails + crashes + slows + 0
    BY <1>2, <1>4, RowFacts DEF TypeOK
  <2> QED BY <1>12, <2>3, <2>4, BalanceKept DEF Accounts
<1>14. NoneOpen'
  BY <1>3, <1>4, <1>5 DEF Accounts, NoneOpen, TypeOK
<1> QED BY <1>12, <1>13, <1>14 DEF Accounts

\* Steps that write nothing, owe no more and open no row that was not open, but
\* for one row x and then at the price of a fault.
LEMMA QuietAccounts ==
  ASSUME TypeOK, TypeOK', Accounts, NoneOpen',
         UNCHANGED kafka,
         Owed' \subseteq Owed, NEW x, OpenRows' \subseteq OpenRows \union {x},
         NEW f \in {0, 1},
         Len(rows') + fails' + crashes' + slows' = Len(rows) + fails + crashes + slows + f,
         f = 0 => OpenRows' \subseteq OpenRows
  PROVE  Accounts'
<1>1. Records' = Records
  BY DEF Records
<1>2. IsFiniteSet(Owed') /\ Cardinality(Owed') =< Cardinality(Owed)
  BY FS_Subset DEF Accounts, Finite
<1>3. IsFiniteSet(OpenRows') /\ Cardinality(OpenRows') =< Cardinality(OpenRows) + 1
  BY OneMore DEF Accounts, Finite
<1>4. f = 0 => Cardinality(OpenRows') =< Cardinality(OpenRows)
  BY FS_Subset DEF Accounts, Finite
<1>5. Finite'
  BY <1>1, <1>2, <1>3 DEF Accounts, Finite
<1>6. /\ Cardinality(Records) \in Nat /\ Cardinality(Owed) \in Nat /\ Cardinality(OpenRows) \in Nat
      /\ Cardinality(Owed') \in Nat /\ Cardinality(OpenRows') \in Nat
  BY <1>2, <1>3, FS_CardinalityType DEF Accounts, Finite
<1>7. Cardinality(Records') + Cardinality(Owed') + Cardinality(OpenRows')
        =< Cardinality(Records) + Cardinality(Owed) + Cardinality(OpenRows) + f
  <2>1. CASE f = 0
    BY <1>1, <1>2, <1>4, <1>6, <2>1
  <2>2. CASE f = 1
    BY <1>1, <1>2, <1>3, <1>6, <2>2
  <2> QED BY <2>1, <2>2
<1>9. f \in Nat
  OBVIOUS
<1>10. Balance'
  BY <1>5, <1>7, <1>9, BalanceKept DEF Accounts
<1> QED BY <1>5, <1>10 DEF Accounts

\* Due, LeaseEnds and Commit: a row becomes due.
LEMMA DueAccounts ==
  ASSUME TypeOK, TypeOK', Accounts, NEW i \in DOMAIN rows, Due(i) \/ LeaseEnds(i) \/ Commit(i)
  PROVE  Accounts'
<1>1. /\ UNCHANGED <<kafka, batch, phase>> /\ due' \subseteq due \union {i}
      /\ DOMAIN rows' = DOMAIN rows /\ Len(rows') = Len(rows)
      /\ \A j \in DOMAIN rows : j # i => rows'[j].status = rows[j].status
  <2>1. CASE Due(i) \/ LeaseEnds(i)
    BY <2>1 DEF Due, LeaseEnds
  <2>2. CASE Commit(i)
    BY <2>2, RowFacts DEF Commit, Row, TypeOK
  <2> QED BY <2>1, <2>2
<1>2. Owed' = Owed
  BY <1>1 DEF Owed, InHand, Head1
<1>3. Held(i)' = Held(i) /\ \A j \in DOMAIN rows : Held(j)' = Held(j)
  BY <1>1 DEF Held
<1>4. OpenRows' \subseteq OpenRows \union {i}
  BY <1>1, <1>3 DEF OpenRows
<1>5. NoneOpen'
  <2>1. rows'[i].status # "open" \/ rows'[i] = rows[i]
    BY RowFacts DEF Due, LeaseEnds, Commit, Row
  <2> QED BY <1>1, <2>1 DEF Accounts, NoneOpen, TypeOK
<1>6. CASE LeaseEnds(i)
  <2>1. Len(rows') + fails' + crashes' + slows' = Len(rows) + fails + crashes + slows + 1
    BY <1>1, <1>6 DEF LeaseEnds, TypeOK
  <2> QED BY <1>1, <1>2, <1>4, <1>5, <2>1, QuietAccounts
<1>7. CASE Due(i) \/ Commit(i)
  <2>1. Len(rows') + fails' + crashes' + slows' = Len(rows) + fails + crashes + slows + 0
    BY <1>1, <1>7 DEF Due, Commit, faults, TypeOK
  <2>2. i \in OpenRows
    BY <1>7 DEF Due, Commit, OpenRows, Accounts, NoneOpen, Held
  <2>3. OpenRows' \subseteq OpenRows
    BY <1>4, <2>2
  <2> QED BY <1>1, <1>2, <1>4, <1>5, <2>1, <2>3, QuietAccounts
<1> QED BY <1>6, <1>7

\* The relay has done with the head of its batch: what it owes then.
LEMMA NextRowOwed ==
  ASSUME TypeOK, TypeOK', NEW r \in Relay, phase[r] # "idle", NextRow(r)
  PROVE  /\ Head1(r) \in batch[r] /\ Head1(r) \in DOMAIN rows
         /\ batch'[r] = batch[r] \ {Head1(r)}
         /\ \A q \in Relay : q # r => batch'[q] = batch[q] /\ phase'[q] = phase[q]
         /\ InHand(r)' = batch[r] \ {Head1(r)}
         /\ Owed' \subseteq Owed
         /\ phase[r] # "sent" => /\ <<r, Head1(r)>> \in Owed
                                 /\ Owed' \subseteq Owed \ ({r} \X {Head1(r)})
<1> DEFINE h == Head1(r)
<1>1. h \in batch[r] /\ h \in DOMAIN rows
  BY HeadInBatch
<1>2. /\ batch'[r] = batch[r] \ {h} /\ phase'[r] # "sent"
      /\ \A q \in Relay : q # r => batch'[q] = batch[q] /\ phase'[q] = phase[q]
  BY DEF NextRow, TypeOK
<1> HIDE DEF h
<1>3. InHand(r)' = batch[r] \ {h}
  BY <1>2 DEF InHand
<1>4. Owed' \subseteq (Owed \ ({r} \X InHand(r))) \union ({r} \X (batch[r] \ {h}))
  BY <1>2, <1>3, OwedFacts
<1>5. InHand(r) = IF phase[r] = "sent" THEN batch[r] \ {h} ELSE batch[r]
  BY DEF InHand, h
<1>6. {r} \X InHand(r) \subseteq Owed
  BY DEF Owed
<1>7. batch[r] \ {h} \subseteq InHand(r)
  BY <1>5
<1>8. Owed' \subseteq Owed
  BY <1>4, <1>6, <1>7
<1>9. ASSUME phase[r] # "sent" PROVE <<r, h>> \in Owed /\ Owed' \subseteq Owed \ ({r} \X {h})
  <2>1. InHand(r) = batch[r]
    BY <1>5, <1>9
  <2> QED BY <1>1, <1>4, <1>6, <2>1
<1> QED BY <1>1, <1>2, <1>3, <1>8, <1>9 DEF h

\* MarkSent, MarkRetry and MarkLost.
LEMMA MarkAccounts ==
  ASSUME TypeOK, TypeOK', Accounts, NEW r \in Relay, MarkSent(r) \/ MarkRetry(r) \/ MarkLost(r)
  PROVE  Accounts'
<1>0. PICK h : h = Head1(r)
  OBVIOUS
<1>1. phase[r] \in {"sent", "retry"} /\ NextRow(r) /\ UNCHANGED kafka /\ due' \subseteq due
  BY DEF MarkSent, MarkRetry, MarkLost
<1>2. /\ h \in batch[r] /\ h \in DOMAIN rows /\ batch'[r] = batch[r] \ {h}
      /\ \A q \in Relay : q # r => batch'[q] = batch[q] /\ phase'[q] = phase[q]
      /\ Owed' \subseteq Owed
      /\ phase[r] # "sent" => <<r, h>> \in Owed /\ Owed' \subseteq Owed \ ({r} \X {h})
  BY <1>0, <1>1, NextRowOwed
<1>3. /\ DOMAIN rows' = DOMAIN rows /\ Len(rows') = Len(rows)
      /\ \A j \in DOMAIN rows : j # h => rows'[j].status = rows[j].status
      /\ rows'[h].status \in {rows[h].status, "sent", "failed"}
      /\ MarkSent(r) => rows'[h].status = "sent"
  <2>1. UNCHANGED rows \/ \E x \in Status : rows' = [rows EXCEPT ![h].status = x]
    BY <1>0 DEF MarkSent, MarkRetry, MarkLost, Status
  <2>2. MarkSent(r) => rows' = [rows EXCEPT ![h].status = "sent"]
    BY <1>0 DEF MarkSent
  <2>3. MarkRetry(r) => rows' = [rows EXCEPT ![h].status = "failed"]
    BY <1>0 DEF MarkRetry
  <2>4. MarkLost(r) => UNCHANGED rows
    BY DEF MarkLost
  <2>5. rows[h] \in Row
    BY <1>2, RowFacts
  <2> QED BY <1>2, <2>1, <2>2, <2>3, <2>4, <2>5, RowFacts DEF Row
<1>4. \A j \in DOMAIN rows : j # h => Held(j)' = Held(j)
  BY <1>2 DEF Held
<1>5. OpenRows' \subseteq OpenRows \union {h}
  BY <1>1, <1>3, <1>4 DEF OpenRows
<1>6. NoneOpen'
  <2>1. \A q \in Relay : batch'[q] \subseteq batch[q]
    BY <1>2
  <2>2. \A q \in Relay : batch[q] \subseteq DOMAIN rows
    BY DEF TypeOK
  <2>3. rows[h].status # "open" /\ rows'[h].status # "open"
    BY <1>2, <1>3 DEF Accounts, NoneOpen
  <2> QED BY <1>3, <2>1, <2>2, <2>3 DEF Accounts, NoneOpen
<1>7. /\ Len(rows) \in Nat /\ Len(rows') \in Nat
      /\ fails \in Nat /\ crashes \in Nat /\ slows \in Nat
      /\ fails' \in Nat /\ crashes' \in Nat /\ slows' \in Nat
  BY DEF TypeOK
<1>8. CASE MarkSent(r)
  <2>1. OpenRows' \subseteq OpenRows
    <3>1. h \notin OpenRows'
      BY <1>3, <1>8 DEF OpenRows
    <3> QED BY <1>5, <3>1
  <2>2. Len(rows') + fails' + crashes' + slows' = Len(rows) + fails + crashes + slows + 0
    BY <1>3, <1>7, <1>8 DEF MarkSent, faults
  <2> QED BY <1>1, <1>2, <1>3, <1>5, <1>6, <2>1, <2>2, QuietAccounts
<1>9. CASE MarkLost(r)
  <2>1. Len(rows') + fails' + crashes' + slows' = Len(rows) + fails + crashes + slows + 1
    BY <1>3, <1>7, <1>9 DEF MarkLost
  <2>2. 1 \in {0, 1} /\ (1 = 0 => OpenRows' \subseteq OpenRows)
    OBVIOUS
  <2>3. UNCHANGED kafka /\ Owed' \subseteq Owed
    BY <1>1, <1>2
  <2> QED BY <1>5, <1>6, <2>1, <2>2, <2>3, QuietAccounts
<1>10. CASE MarkRetry(r)
  <2>1. {r} \X {h} \subseteq Owed /\ Owed' \subseteq Owed \ ({r} \X {h})
    BY <1>2, <1>10 DEF MarkRetry
  <2>2. IsFiniteSet({h})
    BY FS_Singleton
  <2>3. /\ IsFiniteSet(Owed') /\ IsFiniteSet(OpenRows')
        /\ Cardinality(Owed') + Cardinality(OpenRows') =< Cardinality(Owed) + Cardinality(OpenRows)
    BY <1>5, <2>1, <2>2, GivenUp DEF Accounts, Finite
  <2>4. Records' = Records
    BY <1>1 DEF Records
  <2>5. Finite'
    BY <2>3, <2>4 DEF Accounts, Finite
  <2>6. /\ Cardinality(Records) \in Nat /\ Cardinality(Owed) \in Nat /\ Cardinality(OpenRows) \in Nat
        /\ Cardinality(Owed') \in Nat /\ Cardinality(OpenRows') \in Nat
    BY <2>3, FS_CardinalityType DEF Accounts, Finite
  <2>7. Cardinality(Records') + Cardinality(Owed') + Cardinality(OpenRows')
          =< Cardinality(Records) + Cardinality(Owed) + Cardinality(OpenRows) + 0
    BY <2>3, <2>4, <2>6
  <2>8. Len(rows') + fails' + crashes' + slows' = Len(rows) + fails + crashes + slows + 0
    BY <1>3, <1>7, <1>10 DEF MarkRetry, faults
  <2>9. Balance'
    BY <2>5, <2>7, <2>8, BalanceKept DEF Accounts
  <2> QED BY <1>6, <2>5, <2>9 DEF Accounts
<1> QED BY <1>8, <1>9, <1>10

\* A relay that dies gives its batch up; its head may be in Kafka already.
LEMMA CrashAccounts ==
  ASSUME TypeOK, TypeOK', Accounts, NEW r \in Relay, Crash(r)
  PROVE  Accounts'
<1>1. /\ phase[r] # "idle" /\ batch' = [batch EXCEPT ![r] = {}]
      /\ phase' = [phase EXCEPT ![r] = "idle"]
      /\ crashes' = crashes + 1 /\ UNCHANGED <<rows, due, kafka, fails, slows>>
  BY DEF Crash
<1>2. PICK h : h = Head1(r)
  OBVIOUS
<1> DEFINE M == InHand(r)
<1>3. batch[r] \subseteq M \union {h} /\ M \subseteq DOMAIN rows
  BY <1>2 DEF InHand, TypeOK
<1>4. /\ batch'[r] = {} /\ phase'[r] = "idle"
      /\ \A q \in Relay : q # r => batch'[q] = batch[q] /\ phase'[q] = phase[q]
  BY <1>1 DEF TypeOK
<1>5. {r} \X M \subseteq Owed
  BY DEF Owed
<1>6. InHand(r)' = {}
  BY <1>4 DEF InHand
<1>7. Owed' \subseteq Owed \ ({r} \X M)
  BY <1>4, <1>6, OwedFacts
<1>8. OpenRows' \subseteq OpenRows \union M \union {h}
  <2> SUFFICES ASSUME NEW i \in OpenRows', i \notin M \union {h} PROVE i \in OpenRows
    OBVIOUS
  <2>1. i \in DOMAIN rows /\ i \notin batch[r]
    BY <1>1, <1>3 DEF OpenRows
  <2>2. Held(i) => Held(i)'
    BY <1>4, <2>1 DEF Held
  <2> QED BY <1>1, <2>1, <2>2 DEF OpenRows
<1>9. IsFiniteSet(M)
  BY <1>3, OpenFinite
<1> HIDE DEF M
<1> DEFINE P == OpenRows' \ {h}
<1>10. P \subseteq OpenRows \union M
  BY <1>8
<1> HIDE DEF P
<1>11. /\ IsFiniteSet(Owed') /\ IsFiniteSet(P)
       /\ Cardinality(Owed') + Cardinality(P) =< Cardinality(Owed) + Cardinality(OpenRows)
  BY <1>5, <1>7, <1>9, <1>10, GivenUp DEF Accounts, Finite
<1>12. OpenRows' \subseteq P \union {h}
  BY DEF P
<1>13. IsFiniteSet(OpenRows') /\ Cardinality(OpenRows') =< Cardinality(P) + 1
  BY <1>11, <1>12, OneMore
<1>14. Records' = Records
  BY <1>1 DEF Records
<1>15. Finite'
  BY <1>11, <1>13, <1>14 DEF Accounts, Finite
<1>16. /\ Cardinality(Records) \in Nat /\ Cardinality(Owed) \in Nat /\ Cardinality(OpenRows) \in Nat
       /\ Cardinality(Owed') \in Nat /\ Cardinality(OpenRows') \in Nat /\ Cardinality(P) \in Nat
  BY <1>11, <1>13, FS_CardinalityType DEF Accounts, Finite
<1>17. Cardinality(Records') + Cardinality(Owed') + Cardinality(OpenRows')
         =< Cardinality(Records) + Cardinality(Owed) + Cardinality(OpenRows) + 1
  BY <1>11, <1>13, <1>14, <1>16
<1>18. Len(rows') + fails' + crashes' + slows' = Len(rows) + fails + crashes + slows + 1
  BY <1>1 DEF TypeOK
<1>19. Balance'
  BY <1>15, <1>17, <1>18, BalanceKept DEF Accounts
<1>20. NoneOpen'
  BY <1>1, <1>4 DEF Accounts, NoneOpen
<1> QED BY <1>15, <1>19, <1>20 DEF Accounts

LEMMA ProduceAccounts ==
  ASSUME TypeOK, TypeOK', Accounts, NEW r \in Relay, Produce(r) \/ ProduceError(r)
  PROVE  Accounts'
<1>0. PICK h : h = Head1(r)
  OBVIOUS
<1>1. /\ phase[r] = "produce" /\ UNCHANGED <<rows, due, batch, crashes, slows>>
      /\ Write(h) \/ UNCHANGED kafka
      /\ phase' = [phase EXCEPT ![r] = IF Produce(r) THEN "sent" ELSE "retry"]
      /\ Produce(r) \/ phase'[r] = "retry"
  BY <1>0 DEF Produce, ProduceError, faults, TypeOK
<1>2. h \in batch[r] /\ h \in DOMAIN rows
  BY <1>0, <1>1, HeadInBatch
<1>3. \A q \in Relay : q # r => batch'[q] = batch[q] /\ phase'[q] = phase[q]
  BY <1>1 DEF TypeOK
<1>4. IsFiniteSet(Records') /\ Cardinality(Records') =< Cardinality(Records) + 1
  <2>1. CASE Write(h)
    BY <1>2, <2>1, WriteOne DEF Accounts
  <2>2. CASE UNCHANGED kafka
    <3>1. Records' = Records
      BY <2>2 DEF Records
    <3>2. Records' \subseteq Records \union {0}
      BY <3>1
    <3> QED BY <3>2, OneMore DEF Accounts, Finite
  <2> QED BY <1>1, <2>1, <2>2
<1>5. OpenRows' = OpenRows /\ NoneOpen'
  BY <1>1 DEF OpenRows, Held, Accounts, NoneOpen
<1>6. InHand(r) = batch[r] /\ {r} \X InHand(r) \subseteq Owed
  BY <1>1 DEF InHand, Owed
<1>7. Len(rows) \in Nat /\ fails \in Nat /\ crashes \in Nat /\ slows \in Nat
  BY DEF TypeOK
<1>8. /\ Cardinality(Records) \in Nat /\ Cardinality(Owed) \in Nat /\ Cardinality(OpenRows) \in Nat
      /\ Cardinality(Records') \in Nat
  BY <1>4, FS_CardinalityType DEF Accounts, Finite
<1>9. ASSUME Produce(r) PROVE Finite' /\ Balance'
  <2>1. InHand(r)' = batch[r] \ {h}
    <3>1. phase'[r] = "sent" /\ batch'[r] = batch[r]
      BY <1>1, <1>9 DEF TypeOK
    <3>2. Head1(r)' = h
      BY <1>0, <1>1 DEF Head1
    <3> QED BY <3>1, <3>2 DEF InHand
  <2>2. Owed' \subseteq Owed \ {<<r, h>>}
    BY <1>2, <1>3, <1>6, <2>1, OwedFacts
  <2>3. <<r, h>> \in Owed
    BY <1>2, <1>6
  <2>4. IsFiniteSet(Owed \ {<<r, h>>}) /\ Cardinality(Owed \ {<<r, h>>}) = Cardinality(Owed) - 1
    BY <2>3, FS_RemoveElement DEF Accounts, Finite
  <2>5. IsFiniteSet(Owed') /\ Cardinality(Owed') =< Cardinality(Owed \ {<<r, h>>})
    BY <2>2, <2>4, FS_Subset
  <2>6. Finite'
    BY <1>4, <1>5, <2>5 DEF Accounts, Finite
  <2>7. Cardinality(Owed') \in Nat
    BY <2>5, FS_CardinalityType
  <2>8. Cardinality(Records') + Cardinality(Owed') + Cardinality(OpenRows')
          =< Cardinality(Records) + Cardinality(Owed) + Cardinality(OpenRows) + 0
    BY <1>4, <1>5, <1>8, <2>4, <2>5, <2>7
  <2>9. Len(rows') + fails' + crashes' + slows' = Len(rows) + fails + crashes + slows + 0
    BY <1>1, <1>7, <1>9 DEF Produce, faults
  <2> QED BY <2>6, <2>8, <2>9, BalanceKept DEF Accounts
<1>10. ASSUME ProduceError(r) PROVE Finite' /\ Balance'
  <2>1. Owed' \subseteq Owed
    <3>1. InHand(r)' \subseteq InHand(r)
      BY <1>1, <1>6 DEF InHand
    <3> QED BY <1>3, <1>6, <3>1, OwedFacts
  <2>2. IsFiniteSet(Owed') /\ Cardinality(Owed') =< Cardinality(Owed)
    BY <2>1, FS_Subset DEF Accounts, Finite
  <2>3. Finite'
    BY <1>4, <1>5, <2>2 DEF Accounts, Finite
  <2>4. Cardinality(Owed') \in Nat
    BY <2>2, FS_CardinalityType
  <2>5. Cardinality(Records') + Cardinality(Owed') + Cardinality(OpenRows')
          =< Cardinality(Records) + Cardinality(Owed) + Cardinality(OpenRows) + 1
    BY <1>4, <1>5, <1>8, <2>2, <2>4
  <2>6. Len(rows') + fails' + crashes' + slows' = Len(rows) + fails + crashes + slows + 1
    BY <1>1, <1>7, <1>10 DEF ProduceError
  <2> QED BY <2>3, <2>5, <2>6, BalanceKept DEF Accounts
<1> QED BY <1>5, <1>9, <1>10 DEF Accounts

LEMMA AccountsStep == ASSUME TypeOK, Accounts, [Next]_vars PROVE Accounts'
<1>1. TypeOK'
  BY TypeStep
<1>2. CASE UNCHANGED vars
  <2>1. /\ Records' = Records /\ Owed' = Owed /\ OpenRows' = OpenRows
        /\ UNCHANGED <<rows, batch, fails, crashes, slows>>
    BY <1>2 DEF Records, Owed, InHand, Head1, OpenRows, Held, vars, faults
  <2> QED BY <2>1 DEF Accounts, Finite, Balance, NoneOpen
<1> QED BY <1>1, <1>2, EnqueueAccounts, ClaimAccounts, ProduceAccounts, MarkAccounts,
           CrashAccounts, DueAccounts DEF Next, Step

\* The rows in Kafka, and the others.
OnceOrMore == {i \in DOMAIN rows : Produced(i)}

\* Every row in Kafka has a record there that repeats no other.
LEMMA FirstRecords ==
  ASSUME TypeOK, Finite
  PROVE  /\ IsFiniteSet(Repeated)
         /\ Cardinality(Repeated) + Cardinality(OnceOrMore) =< Cardinality(Records)
<1>1. Repeated \subseteq Records
  BY DEF Repeated, RepeatedIn, Records
<1>2. IsFiniteSet(Repeated) /\ Cardinality(Repeated) =< Cardinality(Records)
  BY <1>1, FS_Subset DEF Finite
<1> DEFINE D == Records \ Repeated
           First(i) == CHOOSE k \in Occurrences(i) : \A l \in Occurrences(i) : k =< l
           f == [i \in OnceOrMore |-> <<rows[i].group, First(i)>>]
<1>3. ASSUME NEW i \in OnceOrMore
      PROVE  /\ First(i) \in Occurrences(i) /\ \A l \in Occurrences(i) : First(i) =< l
             /\ Occurrences(i) \subseteq Nat /\ rows[i].group \in Group
             /\ kafka[rows[i].group] \in Seq(Nat)
  <2>1. rows[i].group \in Group /\ kafka[rows[i].group] \in Seq(Nat)
    BY RowFacts DEF OnceOrMore, TypeOK
  <2>2. Occurrences(i) \subseteq Nat /\ Occurrences(i) # {}
    BY <2>1 DEF Occurrences, OnceOrMore, Produced
  <2>3. \E k \in Occurrences(i) : \A l \in Occurrences(i) : k =< l
    BY <2>2, LeastElement
  <2> QED BY <2>1, <2>2, <2>3
<1> HIDE DEF First
<1>4. ASSUME NEW i \in OnceOrMore
      PROVE  f[i] = <<rows[i].group, First(i)>> /\ f[i] \in D /\ kafka[f[i][1]][f[i][2]] = i
  <2>1. PICK g : g = rows[i].group
    OBVIOUS
  <2>2. PICK k : k = First(i)
    OBVIOUS
  <2>3. g \in Group /\ k \in DOMAIN kafka[g] /\ kafka[g][k] = i /\ k \in Nat
    BY <1>3, <2>1, <2>2 DEF Occurrences
  <2>4. <<g, k>> \in Records
    BY <2>3 DEF Records
  <2>5. k \notin RepeatedIn(g)
    <3> SUFFICES ASSUME NEW l \in 1..(k - 1), kafka[g][l] = i PROVE FALSE
      BY <2>3 DEF RepeatedIn
    <3>1. l \in DOMAIN kafka[g] /\ l < k
      BY <1>3, <2>1, <2>3
    <3>2. l \in Occurrences(i)
      BY <2>1, <3>1 DEF Occurrences
    <3> QED BY <1>3, <2>2, <2>3, <3>1, <3>2
  <2>6. <<g, k>> \notin Repeated
    BY <2>5 DEF Repeated
  <2> QED BY <2>1, <2>2, <2>3, <2>4, <2>6
<1>5. f \in [OnceOrMore -> D]
  BY <1>4
<1>6. f \in Injection(OnceOrMore, D)
  <2>1. \A i, j \in OnceOrMore : f[i] = f[j] => i = j
    BY <1>4
  <2> QED BY <1>5, <2>1 DEF Injection, IsInjective
<1> HIDE DEF f
<1>7. Records \intersect Repeated = Repeated
  BY <1>1
<1>8. IsFiniteSet(D) /\ Cardinality(D) = Cardinality(Records) - Cardinality(Repeated)
  BY <1>7, FS_Difference DEF Finite
<1> HIDE DEF D
<1>9. IsFiniteSet(OnceOrMore) /\ Cardinality(OnceOrMore) =< Cardinality(D)
  BY <1>6, <1>8, FS_Injection
<1>10. /\ Cardinality(Records) \in Nat /\ Cardinality(Repeated) \in Nat
       /\ Cardinality(OnceOrMore) \in Nat /\ Cardinality(D) \in Nat
  BY <1>2, <1>8, <1>9, FS_CardinalityType DEF Finite
<1> QED BY <1>2, <1>8, <1>9, <1>10

\* A row that is not in Kafka is in the hands of a relay that has yet to
\* produce it, or open.
LEMMA RowsAccounted ==
  ASSUME IInv, Finite
  PROVE  Len(rows) =< Cardinality(OnceOrMore) + Cardinality(Owed) + Cardinality(OpenRows)
<1> DEFINE W == DOMAIN rows \ (OnceOrMore \union OpenRows)
           Who(i) == CHOOSE r \in Relay : i \in InHand(r)
           f == [i \in W |-> <<Who(i), i>>]
<1>1. ASSUME NEW i \in W PROVE \E r \in Relay : i \in InHand(r)
  <2>1. i \in DOMAIN rows /\ ~Produced(i)
    BY DEF OnceOrMore
  <2>2. rows[i].status # "sent"
    BY <2>1 DEF IInv, SentImpliesProduced
  <2>3. PICK r \in Relay : i \in batch[r]
    BY <2>1, <2>2 DEF OpenRows, Held
  <2>4. phase[r] = "sent" => i # Head1(r)
    BY <2>1 DEF IInv, SentInHand
  <2> QED BY <2>3, <2>4 DEF InHand
<1>2. ASSUME NEW i \in W PROVE f[i] \in Owed /\ f[i][2] = i
  <2>1. PICK r : r = Who(i)
    OBVIOUS
  <2>2. r \in Relay /\ i \in InHand(r)
    BY <1>1, <2>1
  <2>3. f[i] = <<r, i>>
    BY <2>1
  <2>4. <<r, i>> \in Owed
    BY <2>2 DEF Owed
  <2> QED BY <2>3, <2>4
<1>3. f \in Injection(W, Owed)
  <2>1. f \in [W -> Owed]
    BY <1>2
  <2>2. \A i, j \in W : f[i] = f[j] => i = j
    BY <1>2
  <2> QED BY <2>1, <2>2 DEF Injection, IsInjective
<1> HIDE DEF f
<1>4. IsFiniteSet(W) /\ Cardinality(W) =< Cardinality(Owed)
  BY <1>3, FS_Injection DEF Finite
<1>5. IsFiniteSet(OnceOrMore) /\ IsFiniteSet(DOMAIN rows) /\ Cardinality(DOMAIN rows) = Len(rows)
  <2>1. OnceOrMore \subseteq DOMAIN rows
    BY DEF OnceOrMore
  <2> QED BY <2>1, OpenFinite DEF IInv
<1>6. DOMAIN rows = (W \union OnceOrMore) \union OpenRows
  BY DEF OnceOrMore, OpenRows
<1> HIDE DEF W
<1> DEFINE A == W \union OnceOrMore
<1>7. /\ IsFiniteSet(A) /\ IsFiniteSet(W \intersect OnceOrMore)
      /\ Cardinality(A) = Cardinality(W) + Cardinality(OnceOrMore) - Cardinality(W \intersect OnceOrMore)
  BY <1>4, <1>5, FS_Union, FS_Intersection
<1> HIDE DEF A
<1>8. /\ IsFiniteSet(A \intersect OpenRows)
      /\ Cardinality(A \union OpenRows)
           = Cardinality(A) + Cardinality(OpenRows) - Cardinality(A \intersect OpenRows)
  BY <1>7, FS_Union, FS_Intersection DEF Finite
<1>9. Cardinality(A \union OpenRows) = Len(rows)
  BY <1>5, <1>6 DEF A
<1>10. /\ Cardinality(W) \in Nat /\ Cardinality(OnceOrMore) \in Nat /\ Cardinality(A) \in Nat
       /\ Cardinality(W \intersect OnceOrMore) \in Nat /\ Cardinality(OpenRows) \in Nat
       /\ Cardinality(A \intersect OpenRows) \in Nat /\ Cardinality(Owed) \in Nat
  BY <1>4, <1>5, <1>7, <1>8, FS_CardinalityType DEF Finite
<1>11. Len(rows) \in Nat
  BY RowFacts DEF IInv
<1> QED BY <1>4, <1>7, <1>8, <1>9, <1>10, <1>11

\* An event is produced again only because of a fault: drainOutbox marks a row
\* when it has produced it and nobody else claims it before its lease ends, so
\* the records that repeat another are never more than the failed produces, the
\* crashes and lost marks, and the leases that ended under a relay at work.
THEOREM DuplicatesPaid == Spec => []DuplicatesAreFaults
<1>1. IInv /\ Accounts /\ [Next]_vars => Accounts'
  BY AccountsStep DEF IInv
<1>2. IInv /\ Accounts => DuplicatesAreFaults
  <2> SUFFICES ASSUME IInv, Accounts PROVE DuplicatesAreFaults
    OBVIOUS
  <2>1. Finite /\ Balance /\ TypeOK
    BY DEF Accounts, IInv
  <2>2. IsFiniteSet(Repeated) /\ Cardinality(Repeated) + Cardinality(OnceOrMore) =< Cardinality(Records)
    BY <2>1, FirstRecords
  <2>3. Len(rows) =< Cardinality(OnceOrMore) + Cardinality(Owed) + Cardinality(OpenRows)
    BY <2>1, RowsAccounted
  <2>4. Cardinality(Records) + Cardinality(Owed) + Cardinality(OpenRows)
          =< Len(rows) + fails + crashes + slows
    BY <2>1 DEF Balance
  <2>5. IsFiniteSet(OnceOrMore)
    <3>1. OnceOrMore \subseteq DOMAIN rows
      BY DEF OnceOrMore
    <3> QED BY <2>1, <3>1, OpenFinite
  <2>6. /\ Cardinality(Repeated) \in Nat /\ Cardinality(OnceOrMore) \in Nat
        /\ Cardinality(Records) \in Nat /\ Cardinality(Owed) \in Nat /\ Cardinality(OpenRows) \in Nat
    BY <2>1, <2>2, <2>5, FS_CardinalityType DEF Finite
  <2>7. Len(rows) \in Nat /\ fails \in Nat /\ crashes \in Nat /\ slows \in Nat
    BY <2>1 DEF TypeOK
  <2> DEFINE N == Len(rows)
  <2>8. N \in Nat
    BY <2>7
  <2>9. /\ N =< Cardinality(OnceOrMore) + Cardinality(Owed) + Cardinality(OpenRows)
        /\ Cardinality(Records) + Cardinality(Owed) + Cardinality(OpenRows)
             =< N + fails + crashes + slows
    BY <2>3, <2>4
  <2> HIDE DEF N
  <2>10. Cardinality(Repeated) =< fails + crashes + slows
    BY <2>2, <2>6, <2>7, <2>8, <2>9
  <2> QED BY <2>10 DEF DuplicatesAreFaults
<1> QED BY <1>1, <1>2, Invariance, StartAccounts, PTL DEF Spec
=============================================================================
