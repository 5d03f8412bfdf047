---------------------------- MODULE OutboxRelay ----------------------------
(***************************************************************************)
(* service.RunOutboxRelay / drainOutbox and the outbox statements of       *)
(* repo.go: every API process runs one relay, which claims rows of         *)
(* message_outbox that are due, produces them to Kafka one by one and      *)
(* marks each sent or failed.                                              *)
(*                                                                         *)
(* A row gets its id when its transaction inserts it and is seen when that *)
(* transaction commits, so two of them may commit against their ids.  A    *)
(* transaction that rolls back is a row that stays open for ever.          *)
(*                                                                         *)
(* A claim is one transaction; produce and mark are a step each, so a      *)
(* crash, a failure or another relay can come between any two of them.     *)
(* The time a row becomes due (30 s after a claim, at most 60 s      *)
(* after a failure) is left open: Due may happen at any time after.  For   *)
(* a row whose relay is alive and merely slow it is counted as a fault.    *)
(***************************************************************************)
EXTENDS Integers, Sequences, FiniteSets

CONSTANTS
  Group,      \* aggregate ids, the Kafka partition key
  Relay,      \* the relays of the API processes
  Limit,      \* rows per claim, 100 in drainOutbox
  MaxRows,    \* bound: rows ever queued
  MaxFail,    \* bound: failed produces
  MaxCrash,   \* bound: crashes and lost marks
  MaxSlow     \* bound: leases that end while their relay is still alive

ASSUME RelayAssumption ==
  /\ Limit \in Nat \ {0}
  /\ MaxRows \in Nat /\ MaxFail \in Nat /\ MaxCrash \in Nat /\ MaxSlow \in Nat

VARIABLES
  rows,    \* message_outbox by id: sequence of [group, status, after], where
           \* 'after' is history: the group's rows that were due before it came
  due,     \* ids of rows with next_retry_at <= NOW()
  kafka,   \* kafka[g]: ids written to the partition, in order, for key g
  batch,   \* batch[r]: ids relay r claimed and has not finished
  phase,   \* phase[r]: what relay r does to the head of its batch
  fails, crashes, slows   \* budgets used

faults == <<fails, crashes, slows>>
vars == <<rows, due, kafka, batch, phase, faults>>

\* 'open' stands for a row whose transaction has not committed.
Status == {"open", "pending", "sending", "sent", "failed"}
Phase  == {"idle", "produce", "sent", "retry"}

\* Rows are claimed and drained in the order of their ids.
Head1(r) == CHOOSE i \in batch[r] : \A j \in batch[r] : i =< j

Held(i) == \E r \in Relay : i \in batch[r]

Init ==
  /\ rows = <<>>
  /\ due = {}
  /\ kafka = [g \in Group |-> <<>>]
  /\ batch = [r \in Relay |-> {}]
  /\ phase = [r \in Relay |-> "idle"]
  /\ fails = 0 /\ crashes = 0 /\ slows = 0

-----------------------------------------------------------------------------
\* The row has been due, for a relay to claim.
Seen(i) == i \in due \/ rows[i].status \notin {"open", "pending"}

\* insertOutboxTx, in the transaction of whatever the event announces.
Enqueue(g) ==
  /\ Len(rows) < MaxRows
  /\ rows' = Append(rows, [group |-> g, status |-> "open",
                           after |-> {i \in DOMAIN rows : rows[i].group = g /\ Seen(i)}])
  /\ UNCHANGED <<due, kafka, batch, phase, faults>>

\* That transaction commits: the row is pending, and due at once or, as
\* next_retry_at is the caller's clock rounded to a second, a little later.
Commit(i) ==
  /\ rows[i].status = "open"
  /\ rows' = [rows EXCEPT ![i].status = "pending"]
  /\ due' \in {due, due \union {i}}
  /\ UNCHANGED <<kafka, batch, phase, faults>>

\* Mutant: rows in 'sending' are never claimed again.
ClaimableNotSending == {i \in due : rows[i].status \in {"pending", "failed"}}

\* The rows ClaimPendingOutbox selects from: whatever is due and not sent,
\* rows in 'sending' whose lease has ended included.
Claimable == {i \in due : rows[i].status \in {"pending", "failed", "sending"}}

\* Mutant: a claim that does not move next_retry_at.
ClaimNoLease(r) ==
  /\ phase[r] = "idle"
  /\ \E C \in SUBSET Claimable :
       /\ C # {}
       /\ Cardinality(C) =< Limit
       /\ batch' = [batch EXCEPT ![r] = C]
       /\ rows' = [i \in DOMAIN rows |->
                     IF i \in C THEN [rows[i] EXCEPT !.status = "sending"] ELSE rows[i]]
  /\ phase' = [phase EXCEPT ![r] = "produce"]
  /\ UNCHANGED <<due, kafka, faults>>

\* Mutant: one row at a time, without ORDER BY id.
ClaimUnordered(r) ==
  /\ phase[r] = "idle"
  /\ \E C \in SUBSET Claimable :
       /\ Cardinality(C) = 1
       /\ batch' = [batch EXCEPT ![r] = C]
       /\ rows' = [i \in DOMAIN rows |->
                     IF i \in C THEN [rows[i] EXCEPT !.status = "sending"] ELSE rows[i]]
       /\ due' = due \ C
  /\ phase' = [phase EXCEPT ![r] = "produce"]
  /\ UNCHANGED <<kafka, faults>>

\* ORDER BY id LIMIT, FOR UPDATE SKIP LOCKED, set to 'sending' for 30 s.
Claim(r) ==
  /\ phase[r] = "idle"
  /\ \E C \in SUBSET Claimable :
       /\ C # {}
       /\ \A i \in C, j \in Claimable \ C : i < j
       /\ Cardinality(C) =< Limit
       /\ Cardinality(C) = Limit \/ C = Claimable
       /\ batch' = [batch EXCEPT ![r] = C]
       /\ rows' = [i \in DOMAIN rows |->
                     IF i \in C THEN [rows[i] EXCEPT !.status = "sending"] ELSE rows[i]]
       /\ due' = due \ C
  /\ phase' = [phase EXCEPT ![r] = "produce"]
  /\ UNCHANGED <<kafka, faults>>

Write(i) == kafka' = [kafka EXCEPT ![rows[i].group] = Append(@, i)]

Produce(r) ==
  /\ phase[r] = "produce"
  /\ Write(Head1(r))
  /\ phase' = [phase EXCEPT ![r] = "sent"]
  /\ UNCHANGED <<rows, due, batch, faults>>

\* Mutant: the error of Produce is not looked at.
ProduceErrorIgnored(r) ==
  /\ phase[r] = "produce"
  /\ fails < MaxFail /\ fails' = fails + 1
  /\ phase' = [phase EXCEPT ![r] = "sent"]
  /\ UNCHANGED <<rows, due, kafka, batch, crashes, slows>>

\* Produce returns an error; the record may have been written all the same.
ProduceError(r) ==
  /\ phase[r] = "produce"
  /\ fails < MaxFail /\ fails' = fails + 1
  /\ Write(Head1(r)) \/ UNCHANGED kafka
  /\ phase' = [phase EXCEPT ![r] = "retry"]
  /\ UNCHANGED <<rows, due, batch, crashes, slows>>

\* The relay has done with the head of its batch.
NextRow(r) ==
  /\ batch' = [batch EXCEPT ![r] = @ \ {Head1(r)}]
  /\ phase' = [phase EXCEPT ![r] = IF batch[r] = {Head1(r)} THEN "idle" ELSE "produce"]

\* UPDATE ... SET status = 'sent' WHERE id = ?: no look at the current status.
MarkSent(r) ==
  /\ phase[r] = "sent"
  /\ rows' = [rows EXCEPT ![Head1(r)].status = "sent"]
  /\ NextRow(r)
  /\ UNCHANGED <<due, kafka, faults>>

\* UPDATE ... SET status = 'failed', next_retry_at = now + backoff WHERE id = ?
MarkRetry(r) ==
  /\ phase[r] = "retry"
  /\ rows' = [rows EXCEPT ![Head1(r)].status = "failed"]
  /\ due' = due \ {Head1(r)}
  /\ NextRow(r)
  /\ UNCHANGED <<kafka, faults>>

\* The error of a mark is dropped and the relay goes on.
MarkLost(r) ==
  /\ phase[r] \in {"sent", "retry"}
  /\ crashes < MaxCrash /\ crashes' = crashes + 1
  /\ NextRow(r)
  /\ UNCHANGED <<rows, due, kafka, fails, slows>>

\* The process dies and is restarted: what it had claimed is forgotten.
Crash(r) ==
  /\ phase[r] # "idle"
  /\ crashes < MaxCrash /\ crashes' = crashes + 1
  /\ batch' = [batch EXCEPT ![r] = {}]
  /\ phase' = [phase EXCEPT ![r] = "idle"]
  /\ UNCHANGED <<rows, due, kafka, fails, slows>>

\* The backoff of a failed row, or the lease of an abandoned one, ends, or
\* the time of a new one has come.
Due(i) ==
  /\ i \in DOMAIN rows \ due
  /\ rows[i].status \notin {"open", "sent"}
  /\ ~ Held(i) \/ rows[i].status = "failed"
  /\ due' = due \union {i}
  /\ UNCHANGED <<rows, kafka, batch, phase, faults>>

\* A lease ends although its relay is still draining the batch: a hundred
\* synchronous produces may take longer than 30 s.
LeaseEnds(i) ==
  /\ i \in DOMAIN rows \ due
  /\ rows[i].status = "sending" /\ Held(i)
  /\ slows < MaxSlow /\ slows' = slows + 1
  /\ due' = due \union {i}
  /\ UNCHANGED <<rows, kafka, batch, phase, fails, crashes>>

-----------------------------------------------------------------------------
Step(r) ==
  \/ Claim(r) \/ Produce(r) \/ ProduceError(r)
  \/ MarkSent(r) \/ MarkRetry(r) \/ MarkLost(r)

Next ==
  \/ \E g \in Group : Enqueue(g)
  \/ \E r \in Relay : Step(r) \/ Crash(r)
  \/ \E i \in DOMAIN rows : Commit(i) \/ Due(i) \/ LeaseEnds(i)

Spec == Init /\ [][Next]_vars

\* The 500 ms ticker keeps every relay going, and time passes.
Fairness ==
  /\ \A r \in Relay : WF_vars(Step(r))
  /\ \A i \in 1..MaxRows : WF_vars(i \in DOMAIN rows /\ Due(i))

FairSpec == Spec /\ Fairness

-----------------------------------------------------------------------------
(* Properties.                                                             *)

\* The types of the state; a relay with work has a head to work on.
TypeOK ==
  /\ rows \in Seq([group : Group, status : Status, after : SUBSET Nat])
  /\ due \subseteq DOMAIN rows
  /\ kafka \in [Group -> Seq(Nat)]
  /\ batch \in [Relay -> SUBSET DOMAIN rows]
  /\ phase \in [Relay -> Phase]
  /\ \A r \in Relay : phase[r] = "idle" <=> batch[r] = {}
  /\ fails \in Nat /\ crashes \in Nat /\ slows \in Nat

Occurrences(i) == {k \in DOMAIN kafka[rows[i].group] : kafka[rows[i].group][k] = i}
Produced(i) == Occurrences(i) # {}

\* A row leaves the queue only when its event is in Kafka, whatever crashes,
\* fails, or is marked late by a relay that no longer owns the row.
SentImpliesProduced == \A i \in DOMAIN rows : rows[i].status = "sent" => Produced(i)

\* Every event a transaction committed is settled: sent, and never reopened
\* after that, once the finite faults are over.
EveryEventSettles ==
  \A i \in 1..MaxRows : (i \in DOMAIN rows /\ rows[i].status # "open") ~>
                          [](i \in DOMAIN rows /\ rows[i].status = "sent")

\* The records of Kafka that repeat an earlier one, by partition and offset.
RepeatedIn(g) == {k \in DOMAIN kafka[g] : \E l \in 1..(k - 1) : kafka[g][l] = kafka[g][k]}
Repeated == UNION {{<<g, k>> : k \in RepeatedIn(g)} : g \in Group}

\* An event is produced again only because of a fault: every duplicate in
\* Kafka is paid for by a failed produce, a crash, a lost mark or a lease
\* that ended too early.
DuplicatesAreFaults == Cardinality(Repeated) =< fails + crashes + slows

\* As long as no lease ends early, a row is in the hands of one relay at a time,
\* crashes and failures included (what the claim's lease is for).
ExclusiveClaim ==
  slows = 0 => \A r, s \in Relay : r # s => batch[r] \intersect batch[s] = {}

\* service.go:722: an event that was due when another of its group was queued
\* is overtaken by it only while a relay holds it, as long as nothing fails or
\* dies.
GapIsInHand ==
  fails = 0 /\ crashes = 0 =>
    \A j \in DOMAIN rows : Produced(j) =>
      \A i \in rows[j].after : Produced(i) \/ Held(i)

\* service.go:674: the events of one group reach its partition in order: none
\* before an event of the same group that was due before it was queued.
GroupOrder ==
  \A g \in Group : \A k \in DOMAIN kafka[g] : \A i \in rows[kafka[g][k]].after :
    \E l \in 1..(k - 1) : kafka[g][l] = i
=============================================================================
