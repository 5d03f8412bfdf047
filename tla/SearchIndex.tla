---------------------------- MODULE SearchIndex -----------------------------
(***************************************************************************)
(* The search index and its two writers: RunConsumer and HandleEvent, which *)
(* follow the message topic, and the backfill, which copies the table.     *)
(*                                                                         *)
(* A write to Elasticsearch may be refused, may be made although its       *)
(* answer is lost, and may be made after the client has gone on.           *)
(***************************************************************************)
EXTENDS Paging, Sequences

CONSTANTS
  Batch,       \* rows per scan of the backfill (1000)
  MaxMessages, \* bound: messages of the table
  MaxFaults,   \* bound: calls that fail, restarts
  MaxBackfills \* bound: runs of the backfill

ASSUME SearchIndexAssumption ==
  Batch \in Nat \ {0} /\ MaxMessages \in Nat /\ MaxFaults \in Nat /\ MaxBackfills \in Nat

VARIABLES
  table,      \* status in group_message, by row id
  log,        \* events of the topic: [kind, id]
  index,      \* status of the document with that message id
  position,   \* last event fetched by the consumer
  committed,  \* its offset in Kafka
  late,       \* writes the client has given up on
  backfill,   \* [step, after, batch]
  backfills, faults,
  applied,    \* history: events whose write was made
  failed,     \* history: messages of which a write by the consumer failed
  raced,      \* history: messages recalled between a scan and its write
  due         \* history: messages the running backfill is to copy

history == <<applied, failed, raced, due>>
consumer == <<position, committed>>
counters == <<backfills, faults>>
vars == <<table, log, index, consumer, late, backfill, counters, history>>

Ids == 1..MaxMessages
Stopped == [step |-> "stopped", after |-> 0, batch |-> {}]

Init ==
  /\ table = [s \in Ids |-> "none"] /\ log = <<>> /\ index = [s \in Ids |-> "none"]
  /\ position = 0 /\ committed = 0 /\ late = {} /\ backfill = Stopped
  /\ backfills = 0 /\ faults = 0
  /\ applied = {} /\ failed = {} /\ raced = {} /\ due = {}

Fault == faults < MaxFaults /\ faults' = faults + 1 /\ UNCHANGED backfills

-----------------------------------------------------------------------------
\* InsertMessage and RecallMessage, whose events reach the topic in order.
Store(s) ==
  /\ table[s] = "none" /\ \A r \in Ids : r < s => table[r] # "none"
  /\ table' = [table EXCEPT ![s] = "normal"] /\ log' = Append(log, [kind |-> "created", id |-> s])
  /\ UNCHANGED <<index, consumer, late, backfill, counters, history>>

Recall(s) ==
  /\ table[s] = "normal"
  /\ table' = [table EXCEPT ![s] = "recalled"] /\ log' = Append(log, [kind |-> "recalled", id |-> s])
  /\ UNCHANGED <<index, consumer, late, backfill, counters, history>>

-----------------------------------------------------------------------------
\* PUT _doc: the document as the event or the scan has it, over what is there.
Index(s) == [index EXCEPT ![s] = "normal"]

\* Mutant: an update that changes nothing is sent.
UpdateStatusNot(s) == index

\* POST _update: a document that is not there is an error (404).
UpdateStatus(s) == [index EXCEPT ![s] = IF @ = "none" THEN "none" ELSE "recalled"]

Written(e) == IF e.kind = "created" THEN Index(e.id) ELSE UpdateStatus(e.id)

\* The status of the answer, if there is one.
Accepted(e) == e.kind = "created" \/ index[e.id] # "none"

\* RunConsumer: one event is fetched and handled; then its offset is
\* committed, or not if that fails, and the next one is fetched.
HandleEvent ==
  /\ position < Len(log) /\ position' = position + 1
  /\ LET e == log[position + 1] IN
     \/ /\ Accepted(e) /\ index' = Written(e)
        /\ applied' = applied \union {position + 1}
        /\ \/ committed' = position + 1 /\ UNCHANGED counters
           \/ UNCHANGED committed /\ Fault
        /\ UNCHANGED <<late, failed>>
     \/ /\ ~Accepted(e)
        /\ failed' = failed \union {e.id} /\ UNCHANGED committed
        /\ UNCHANGED <<index, applied, late, counters>>
     \/ /\ \/ UNCHANGED <<index, late, applied>>
           \/ index' = Written(e) /\ applied' = applied \union {position + 1} /\ UNCHANGED late
           \/ late' = late \union {e} /\ UNCHANGED <<index, applied>>
        /\ failed' = failed \union {e.id} /\ UNCHANGED committed /\ Fault
  /\ UNCHANGED <<table, log, backfill, raced, due>>

LateWrite(e) ==
  /\ late' = late \ {e} /\ index' = Written(e)
  /\ UNCHANGED <<table, log, consumer, backfill, counters, history>>

\* Mutant: a consumer that has committed nothing starts with new events.
RestartAtEnd ==
  /\ position' = (IF committed = 0 THEN Len(log) ELSE committed) /\ Fault
  /\ UNCHANGED <<table, log, index, committed, late, backfill, history>>

\* A new process goes on behind the committed offset, from the first event
\* if there is none.
Restart ==
  /\ position' = committed /\ Fault
  /\ UNCHANGED <<table, log, index, committed, late, backfill, history>>

-----------------------------------------------------------------------------
\* es-backfill: SELECT ... WHERE id>? AND status='normal' ORDER BY id LIMIT ?
Begin ==
  /\ backfill.step = "stopped" /\ backfills < MaxBackfills
  /\ backfill' = [Stopped EXCEPT !.step = "scan"] /\ backfills' = backfills + 1
  /\ due' = {s \in Ids : table[s] = "normal"}
  /\ UNCHANGED <<table, log, index, consumer, late, faults, applied, failed, raced>>

ScanMessagesAfterID ==
  /\ backfill.step = "scan"
  /\ LET rows == Taken({s \in Ids : table[s] = "normal" /\ s > backfill.after}, Batch) IN
     backfill' = IF rows = {} THEN [backfill EXCEPT !.step = "done"]
                 ELSE [backfill EXCEPT !.batch = rows, !.step = "write"]
  /\ UNCHANGED <<table, log, index, consumer, late, counters, history>>

\* Mutant: the cursor is the row after the batch, and the next batch behind it.
NextAfterPast == 1 + CHOOSE s \in backfill.batch : \A r \in backfill.batch : r =< s

\* afterID = msgs[len(msgs)-1].ID
NextAfter == CHOOSE s \in backfill.batch : \A r \in backfill.batch : r =< s

\* _bulk: documents it refuses are not noticed; an error of the whole call
\* ends the process, whatever was written.
Bulk ==
  /\ backfill.step = "write"
  /\ \E done \in SUBSET backfill.batch :
       /\ index' = [s \in Ids |-> IF s \in done THEN "normal" ELSE index[s]]
       /\ raced' = raced \union {s \in done : table[s] = "recalled"}
       /\ \/ /\ done = backfill.batch /\ UNCHANGED <<counters, due>>
             /\ backfill' = [step |-> "scan", after |-> NextAfter, batch |-> {}]
          \/ /\ done # backfill.batch /\ Fault /\ due' = due \ (backfill.batch \ done)
             /\ backfill' = [step |-> "scan", after |-> NextAfter, batch |-> {}]
          \/ backfill' = Stopped /\ due' = {} /\ Fault
  /\ UNCHANGED <<table, log, consumer, late, applied, failed>>

\* The process has ended; it may be run again.
End ==
  /\ backfill.step = "done" /\ backfill' = Stopped /\ due' = {}
  /\ UNCHANGED <<table, log, index, consumer, late, counters, applied, failed, raced>>

-----------------------------------------------------------------------------
Next ==
  \/ \E s \in Ids : Store(s) \/ Recall(s)
  \/ HandleEvent \/ Restart \/ \E e \in late : LateWrite(e)
  \/ Begin \/ ScanMessagesAfterID \/ Bulk \/ End

Spec == Init /\ [][Next]_vars /\ WF_vars(HandleEvent)

-----------------------------------------------------------------------------
Documents == {"none", "normal", "recalled"}
TypeOK ==
  /\ table \in [Ids -> Documents] /\ index \in [Ids -> Documents]
  /\ \A s \in Ids : index[s] # "none" => table[s] # "none"
  /\ log \in Seq([kind : {"created", "recalled"}, id : Ids])
  /\ position \in 0..Len(log) /\ committed \in 0..position
  /\ late \in SUBSET [kind : {"created", "recalled"}, id : Ids]
  /\ backfill \in [step : {"stopped", "scan", "write", "done"}, after : Nat, batch : SUBSET Ids]
  /\ backfill.step = "write" => backfill.batch # {}
  /\ backfills \in 0..MaxBackfills /\ faults \in 0..MaxFaults
  /\ applied \in SUBSET (DOMAIN log) /\ failed \in SUBSET Ids /\ raced \in SUBSET Ids /\ due \in SUBSET Ids

Behind(s, kind) == \E e \in 1..position : log[e] = [kind |-> kind, id |-> s]

\* A message of which no write has failed and no recall fell between a scan
\* and its write is searchable once the consumer is past its creation, and
\* is not once it is past its recall: replays after restarts, commits that
\* fail and a backfill that runs meanwhile included.
IndexFollowsLog ==
  \A s \in Ids \ (failed \union raced) :
    /\ Behind(s, "created") => index[s] # "none"
    /\ Behind(s, "recalled") => index[s] = "recalled"

\* A backfill that gets to its end has written every message it found
\* normal when it began, but those recalled since and those refused.
BackfillCovers ==
  backfill.step = "done" => \A s \in due : table[s] = "normal" => index[s] # "none"

\* Every recall reaches the index, or a write of that message failed, or a
\* backfill brought it back.
RecalledIsHidden ==
  \A s \in Ids : table[s] = "recalled" ~> (index[s] = "recalled" \/ s \in failed \union raced)

\* An offset that is committed covers only events that were handled ("保证至少
\* 一次且失败可重投", consumer.go).
CommittedIsApplied == \A e \in 1..committed : e \in applied
=============================================================================
