--------------------------- MODULE Reading_proofs ---------------------------
(***************************************************************************)
(* Proofs about how what is stored is found and read: SearchIndex, for any *)
(* number of messages, faults, restarts and backfills and any size of      *)
(* batch, and PagingWalks, for any rows, size of a page and number of      *)
(* changes between the pages.                                              *)
(***************************************************************************)
EXTENDS SearchIndex, PagingWalks, TLAPS, FiniteSetTheorems, WellFoundedInduction

-----------------------------------------------------------------------------
\* SearchIndex.

Event == [kind : {"created", "recalled"}, id : Ids]

\* The log only grows, by one event.
LEMMA LogGrows ==
  ASSUME TypeOK, NEW e \in Event, log' = Append(log, e)
  PROVE  /\ log' \in Seq(Event) /\ Len(log') = Len(log) + 1
         /\ log'[Len(log) + 1] = e
         /\ \A i \in DOMAIN log : log'[i] = log[i]
         /\ DOMAIN log' = DOMAIN log \union {Len(log) + 1}
<1>1. log \in Seq(Event)
  BY DEF TypeOK, Event
<1> QED BY <1>1

\* The log is a sequence of events about messages.
LEMMA LogFacts ==
  ASSUME TypeOK
  PROVE  /\ log \in Seq(Event) /\ Len(log) \in Nat /\ DOMAIN log = 1..Len(log)
         /\ \A i \in DOMAIN log : log[i] \in Event /\ log[i].id \in Ids
<1>1. log \in Seq(Event)
  BY DEF TypeOK, Event
<1>2. Len(log) \in Nat /\ DOMAIN log = 1..Len(log) /\ \A i \in DOMAIN log : log[i] \in Event
  BY <1>1
<1> QED BY <1>1, <1>2 DEF Event

\* A set of numbers has a least one.
LEMMA Least ==
  ASSUME NEW S \in SUBSET Nat, S # {}
  PROVE  \E s \in S : \A r \in S : s =< r
<1>1. PICK s \in S : \A r \in S : ~ (<<r, s>> \in OpToRel(<, Nat))
  BY NatLessThanWellFounded, WFMin
<1>2. ASSUME NEW r \in S, r < s PROVE FALSE
  <2>1. <<r, s>> \in {ss \in Nat \X Nat : ss[1] < ss[2]}
    BY <1>2
  <2> QED BY <1>1, <2>1 DEF OpToRel
<1> QED BY <1>2

\* A batch has a last row, and the next scan starts behind it.
LEMMA Greatest ==
  ASSUME NEW S \in SUBSET Ids, S # {}
  PROVE  \E s \in S : \A r \in S : r =< s
<1> DEFINE T == {MaxMessages - s : s \in S}
<1>1. \A s \in S : MaxMessages - s \in Nat /\ s \in Nat
  BY SearchIndexAssumption DEF Ids
<1>2. T \subseteq Nat /\ T # {}
  BY <1>1
<1>3. PICK t \in T : \A u \in T : t =< u
  BY <1>2, Least
<1>4. PICK s \in S : t = MaxMessages - s
  OBVIOUS
<1>5. \A r \in S : MaxMessages - s =< MaxMessages - r
  BY <1>3, <1>4
<1> QED BY <1>1, <1>5, SearchIndexAssumption

LEMMA NextAfterFacts ==
  ASSUME TypeOK, backfill.step = "write"
  PROVE  NextAfter \in backfill.batch /\ NextAfter \in Nat /\ \A r \in backfill.batch : r =< NextAfter
<1>1. backfill.batch \in SUBSET Ids /\ backfill.batch # {}
  BY DEF TypeOK
<1>2. \E s \in backfill.batch : \A r \in backfill.batch : r =< s
  BY <1>1, Greatest
<1> QED BY <1>1, <1>2 DEF NextAfter, Ids

\* What is on its way to the index is in the table.
Sound ==
  /\ \A i \in DOMAIN log : table[log[i].id] # "none"
  /\ \A e \in late : table[e.id] # "none"
  /\ \A s \in backfill.batch : table[s] # "none"
  /\ \A s \in due : table[s] # "none"

\* The empty index and topic.
LEMMA InitTypeOK == Init => TypeOK /\ Sound
BY SearchIndexAssumption DEF Init, TypeOK, Sound, Documents, Stopped

\* A write leaves a document of every message it had one of.
LEMMA WrittenFacts ==
  ASSUME TypeOK, NEW e \in Event
  PROVE  /\ Written(e) \in [Ids -> Documents]
         /\ \A s \in Ids : s # e.id => Written(e)[s] = index[s]
         /\ \A s \in Ids : index[s] # "none" => Written(e)[s] # "none"
         /\ Accepted(e) => Written(e)[e.id] # "none"
         /\ e.kind = "recalled" /\ Accepted(e) => Written(e)[e.id] = "recalled"
BY DEF Written, Index, UpdateStatus, Accepted, Event, TypeOK, Documents

\* One turn of the consumer: a write that may be made or not.
LEMMA HandleFacts ==
  ASSUME TypeOK, Sound, HandleEvent
  PROVE  /\ position + 1 \in DOMAIN log /\ log[position + 1] \in Event
         /\ position' = position + 1
         /\ index' = index \/ index' = Written(log[position + 1])
         /\ committed' \in {committed, position + 1}
         /\ late' \in {late, late \union {log[position + 1]}}
         /\ applied' \in {applied, applied \union {position + 1}}
         /\ failed' \in {failed, failed \union {log[position + 1].id}}
         /\ \/ failed' = failed /\ Accepted(log[position + 1]) /\ late' = late
               /\ index' = Written(log[position + 1])
            \/ failed' = failed \union {log[position + 1].id}
         /\ faults' \in 0..MaxFaults /\ backfills' = backfills
         /\ UNCHANGED <<table, log, backfill, raced, due>>
<1>1. position + 1 \in DOMAIN log /\ log[position + 1] \in Event
  BY LogFacts DEF HandleEvent, TypeOK
<1>2. faults' \in 0..MaxFaults /\ backfills' = backfills
  BY SearchIndexAssumption DEF HandleEvent, Fault, counters, TypeOK
<1> QED BY <1>1, <1>2 DEF HandleEvent, counters

\* Every step leaves the state well-typed, and what it holds stored.
LEMMA NextTypeOK ==
  ASSUME TypeOK, Sound, [Next]_vars
  PROVE  TypeOK' /\ Sound'
<1> USE SearchIndexAssumption
<1>0. DOMAIN log = 1..Len(log) /\ Len(log) \in Nat /\ \A i \in DOMAIN log : log[i] \in Event /\ log[i].id \in Ids
  BY LogFacts
<1>1. CASE UNCHANGED vars
  BY <1>1 DEF vars, consumer, counters, history, TypeOK, Sound
<1>2. ASSUME NEW s \in Ids, Store(s) \/ Recall(s) PROVE TypeOK' /\ Sound'
  <2>1. PICK k \in {"created", "recalled"} : log' = Append(log, [kind |-> k, id |-> s])
    BY <1>2 DEF Store, Recall
  <2>2. [kind |-> k, id |-> s] \in Event
    BY DEF Event
  <2>3. /\ log' \in Seq(Event) /\ Len(log') = Len(log) + 1 /\ log'[Len(log) + 1].id = s
        /\ \A i \in DOMAIN log : log'[i] = log[i]
        /\ DOMAIN log' = DOMAIN log \union {Len(log) + 1}
    BY <2>1, <2>2, LogGrows
  <2>4. table' \in [Ids -> Documents] /\ table'[s] # "none" /\ \A r \in Ids : table[r] # "none" => table'[r] # "none"
    BY <1>2 DEF Store, Recall, TypeOK, Documents
  <2>5. UNCHANGED <<index, consumer, late, backfill, counters, history>>
    BY <1>2 DEF Store, Recall
  <2>6. TypeOK'
    BY <1>0, <2>3, <2>4, <2>5 DEF TypeOK, consumer, counters, history, Event
  <2>7. Sound'
    BY <1>0, <2>3, <2>4, <2>5 DEF Sound, TypeOK, history
  <2> QED BY <2>6, <2>7
<1>3. CASE HandleEvent
  <2>1. index' \in [Ids -> Documents] /\ \A s \in Ids : index'[s] # "none" => table[s] # "none"
    BY <1>0, <1>3, HandleFacts, WrittenFacts DEF TypeOK, Sound, Event
  <2>2. late' \in SUBSET Event /\ \A e \in late' : table[e.id] # "none"
    BY <1>0, <1>3, HandleFacts DEF TypeOK, Sound, Event
  <2>3. position' \in 0..Len(log) /\ committed' \in 0..position' /\ applied' \in SUBSET DOMAIN log /\ failed' \in SUBSET Ids
    BY <1>0, <1>3, HandleFacts DEF TypeOK
  <2> QED BY <1>3, <2>1, <2>2, <2>3, HandleFacts DEF TypeOK, Sound, Event
<1>4. CASE Restart
  <2>1. position' \in 0..Len(log) /\ committed' \in 0..position' /\ faults' \in 0..MaxFaults /\ backfills' = backfills
    BY <1>0, <1>4 DEF Restart, Fault, TypeOK
  <2>2. UNCHANGED <<table, log, index, late, backfill, applied, failed, raced, due>>
    BY <1>4 DEF Restart, history
  <2> QED BY <2>1, <2>2 DEF TypeOK, Sound
<1>5. ASSUME NEW e \in late, LateWrite(e) PROVE TypeOK' /\ Sound'
  <2>1. e \in Event
    BY DEF TypeOK, Event
  <2>2. index' \in [Ids -> Documents] /\ \A s \in Ids : index'[s] # "none" => table[s] # "none"
    BY <1>5, <2>1, WrittenFacts DEF LateWrite, TypeOK, Sound
  <2> QED BY <1>5, <2>2 DEF LateWrite, TypeOK, Sound, consumer, counters, history
<1>6. CASE Begin
  BY <1>6 DEF Begin, Stopped, TypeOK, Sound, consumer
<1>7. CASE ScanMessagesAfterID
  <2>1. PICK rows \in SUBSET {s \in Ids : table[s] = "normal"} :
          backfill' = IF rows = {} THEN [backfill EXCEPT !.step = "done"]
                      ELSE [backfill EXCEPT !.batch = rows, !.step = "write"]
    BY <1>7 DEF ScanMessagesAfterID, Taken
  <2>2. /\ backfill' \in [step : {"stopped", "scan", "write", "done"}, after : Nat, batch : SUBSET Ids]
        /\ backfill'.step = "write" => backfill'.batch # {}
        /\ \A s \in backfill'.batch : table[s] # "none"
    <3>1. backfill \in [step : {"stopped", "scan", "write", "done"}, after : Nat, batch : SUBSET Ids]
          /\ \A s \in backfill.batch : table[s] # "none"
      BY DEF TypeOK, Sound
    <3>2. CASE rows = {}
      BY <2>1, <3>1, <3>2
    <3>3. CASE rows # {}
      BY <2>1, <3>1, <3>3
    <3> QED BY <3>2, <3>3
  <2>3. UNCHANGED <<table, log, index, consumer, late, counters, history>>
    BY <1>7 DEF ScanMessagesAfterID
  <2> QED BY <2>2, <2>3 DEF TypeOK, Sound, consumer, counters, history
<1>8. CASE Bulk
  <2>1. PICK sent \in SUBSET backfill.batch :
          /\ index' = [s \in Ids |-> IF s \in sent THEN "normal" ELSE index[s]]
          /\ raced' = raced \union {s \in sent : table[s] = "recalled"}
          /\ \/ /\ sent = backfill.batch /\ UNCHANGED <<counters, due>>
                /\ backfill' = [step |-> "scan", after |-> NextAfter, batch |-> {}]
             \/ /\ sent # backfill.batch /\ Fault /\ due' = due \ (backfill.batch \ sent)
                /\ backfill' = [step |-> "scan", after |-> NextAfter, batch |-> {}]
             \/ backfill' = Stopped /\ due' = {} /\ Fault
    BY <1>8 DEF Bulk
  <2>2. backfill' \in [step : {"stopped", "scan", "write", "done"}, after : Nat, batch : SUBSET Ids]
        /\ backfill'.step # "write" /\ backfill'.batch = {}
    BY <1>8, <2>1, NextAfterFacts DEF Stopped, Bulk
  <2>3. due' \subseteq due /\ faults' \in 0..MaxFaults /\ backfills' \in 0..MaxBackfills
    BY <2>1 DEF Fault, counters, TypeOK
  <2>4. UNCHANGED <<table, log, consumer, late, applied, failed>>
    BY <1>8 DEF Bulk
  <2>5. index' \in [Ids -> Documents] /\ \A s \in Ids : index'[s] # "none" => table[s] # "none"
    BY <2>1 DEF TypeOK, Sound, Documents
  <2>6. raced' \in SUBSET Ids
    BY <2>1 DEF TypeOK
  <2>7. TypeOK'
    BY <2>2, <2>3, <2>4, <2>5, <2>6 DEF TypeOK, consumer
  <2> QED BY <2>2, <2>3, <2>4, <2>7 DEF Sound
<1>9. CASE End
  BY <1>9 DEF End, Stopped, TypeOK, Sound, consumer, counters
<1> QED BY <1>1, <1>2, <1>3, <1>4, <1>5, <1>6, <1>7, <1>8, <1>9 DEF Next

-----------------------------------------------------------------------------
\* Taken takes the smallest, and something if there is something.
LEMMA TakenFacts ==
  ASSUME NEW rows \in SUBSET Ids, NEW n \in Nat \ {0}
  PROVE  /\ Taken(rows, n) \subseteq rows
         /\ rows # {} => Taken(rows, n) # {}
         /\ \A s \in rows \ Taken(rows, n) : \A r \in Taken(rows, n) : s > r
<1>1. IsFiniteSet(rows) /\ rows \subseteq Nat
  <2>1. IsFiniteSet(Ids)
    BY FS_Interval, SearchIndexAssumption DEF Ids
  <2>2. IsFiniteSet(rows)
    BY <2>1, FS_Subset
  <2>3. rows \subseteq Nat
    BY SearchIndexAssumption DEF Ids
  <2> QED BY <2>2, <2>3
<1>2. \A s \in rows : Rank(rows, s) \in Nat
  BY <1>1, FS_Subset, FS_CardinalityType DEF Rank
<1>3. ASSUME rows # {} PROVE Taken(rows, n) # {}
  <2>1. PICK s \in rows : \A r \in rows : s =< r
    BY <1>1, <1>3, Least
  <2>2. {q \in rows : q < s} = {}
    <3>1. \A q \in rows : ~ (q < s)
      BY <1>1, <2>1
    <3> QED BY <3>1
  <2>3. Rank(rows, s) = 0
    BY <2>2, FS_EmptySet DEF Rank
  <2> QED BY <2>3 DEF Taken
<1>4. ASSUME NEW s \in rows \ Taken(rows, n), NEW r \in Taken(rows, n), ~ (s > r) PROVE FALSE
  <2>1. s \in Nat /\ r \in Nat /\ s =< r
    BY <1>1, <1>4 DEF Taken
  <2>2. {q \in rows : q < s} \subseteq {q \in rows : q < r} /\ IsFiniteSet({q \in rows : q < r})
    <3>1. \A q \in rows : q < s => q < r
      BY <1>1, <2>1
    <3>2. {q \in rows : q < r} \in SUBSET rows
      OBVIOUS
    <3>3. IsFiniteSet({q \in rows : q < r})
      BY <1>1, <3>2, FS_Subset
    <3> QED BY <3>1, <3>3
  <2>3. Rank(rows, s) =< Rank(rows, r)
    BY <2>2, FS_Subset DEF Rank
  <2> QED BY <1>2, <2>3 DEF Taken
<1> QED BY <1>3, <1>4 DEF Taken

\* A document is never deleted.
LEMMA DocumentsStay ==
  ASSUME TypeOK, Sound, [Next]_vars, NEW s \in Ids, index[s] # "none"
  PROVE  index'[s] # "none"
<1>1. ASSUME NEW e \in Event, index' = Written(e) PROVE index'[s] # "none"
  BY <1>1, WrittenFacts
<1>2. CASE HandleEvent
  BY <1>1, <1>2, HandleFacts
<1>3. CASE \E e \in late : LateWrite(e)
  BY <1>1, <1>3 DEF LateWrite, TypeOK, Event
<1>4. CASE Bulk
  BY <1>4 DEF Bulk, TypeOK
<1>5. CASE UNCHANGED index
  BY <1>5
<1> QED BY <1>2, <1>3, <1>4, <1>5
    DEF Next, vars, Store, Recall, Restart, Begin, ScanMessagesAfterID, End

\* What the backfill has still to write is ahead of it.
Copying ==
  /\ backfill.step = "stopped" => due = {}
  /\ \A s \in due : table[s] = "normal" =>
       \/ index[s] # "none"
       \/ backfill.step = "scan" /\ s > backfill.after
       \/ backfill.step = "write" /\ (s \in backfill.batch \/ \A r \in backfill.batch : s > r)

\* What a run of the backfill has still to write stays ahead of its cursor or
\* in its batch.
LEMMA NextCopying ==
  ASSUME TypeOK, Sound, Copying, [Next]_vars
  PROVE  Copying'
<1> USE SearchIndexAssumption
<1>1. \A s \in Ids : index[s] # "none" => index'[s] # "none"
  BY DocumentsStay
<1>2. \A s \in due : s \in Ids /\ (table'[s] = "normal" => table[s] = "normal")
  <2>1. due \subseteq Ids /\ \A s \in due : table[s] # "none"
    BY DEF TypeOK, Sound
  <2>2. CASE \E s \in Ids : Store(s) \/ Recall(s)
    BY <2>1, <2>2 DEF Store, Recall, TypeOK
  <2>3. CASE UNCHANGED table
    BY <2>1, <2>3
  <2> QED BY <2>1, <2>2, <2>3
      DEF Next, vars, HandleEvent, Restart, LateWrite, Begin, ScanMessagesAfterID, Bulk, End
<1>3. CASE UNCHANGED <<backfill, due>>
  BY <1>1, <1>2, <1>3 DEF Copying
<1>4. CASE Begin
  BY <1>4 DEF Begin, Stopped, Copying, Ids
<1>5. CASE ScanMessagesAfterID
  <2> DEFINE left == {s \in Ids : table[s] = "normal" /\ s > backfill.after}
             rows == Taken(left, Batch)
  <2>1. /\ rows \subseteq left
        /\ left # {} => rows # {}
        /\ \A s \in left \ rows : \A r \in rows : s > r
    BY TakenFacts
  <2>2. /\ backfill.step = "scan" /\ UNCHANGED <<table, index, due>>
        /\ backfill' = IF rows = {} THEN [backfill EXCEPT !.step = "done"]
                       ELSE [backfill EXCEPT !.batch = rows, !.step = "write"]
    BY <1>5 DEF ScanMessagesAfterID, history
  <2> HIDE DEF rows
  <2>3. \A s \in due : table[s] = "normal" => index[s] # "none" \/ s \in left
    BY <1>2, <2>2 DEF Copying
  <2>4. CASE rows = {}
    <3>1. backfill'.step = "done" /\ left = {}
      BY <2>1, <2>2, <2>4 DEF TypeOK
    <3> QED BY <2>2, <2>3, <3>1 DEF Copying
  <2>5. CASE rows # {}
    <3>1. backfill'.step = "write" /\ backfill'.batch = rows
      BY <2>2, <2>5 DEF TypeOK
    <3> QED BY <2>1, <2>2, <2>3, <3>1 DEF Copying
  <2> QED BY <2>4, <2>5
<1>6. CASE Bulk
  <2>1. PICK sent \in SUBSET backfill.batch :
          /\ index' = [s \in Ids |-> IF s \in sent THEN "normal" ELSE index[s]]
          /\ \/ /\ sent = backfill.batch /\ UNCHANGED due
                /\ backfill' = [step |-> "scan", after |-> NextAfter, batch |-> {}]
             \/ /\ due' = due \ (backfill.batch \ sent)
                /\ backfill' = [step |-> "scan", after |-> NextAfter, batch |-> {}]
             \/ backfill' = Stopped /\ due' = {}
    BY <1>6 DEF Bulk
  <2>2. backfill.step = "write" /\ NextAfter \in backfill.batch
    BY <1>6, NextAfterFacts DEF Bulk
  <2>3. CASE backfill' = Stopped /\ due' = {}
    BY <2>3 DEF Copying, Stopped
  <2>4. CASE backfill' = [step |-> "scan", after |-> NextAfter, batch |-> {}]
             /\ \A s \in due' : s \in due /\ (s \in backfill.batch => s \in sent)
    <3> SUFFICES ASSUME NEW s \in due', table'[s] = "normal"
                 PROVE  index'[s] # "none" \/ s > NextAfter
      BY <2>4 DEF Copying
    <3>1. \/ index[s] # "none" \/ s \in backfill.batch \/ \A r \in backfill.batch : s > r
      BY <1>2, <2>2, <2>4 DEF Copying
    <3>2. ASSUME s \in backfill.batch PROVE index'[s] # "none"
      BY <1>2, <2>1, <2>4, <3>2
    <3> QED BY <1>1, <1>2, <2>2, <2>4, <3>1, <3>2
  <2> QED BY <2>1, <2>3, <2>4
<1>7. CASE End
  BY <1>7 DEF End, Stopped, Copying
<1> QED BY <1>3, <1>4, <1>5, <1>6, <1>7
    DEF Next, vars, history, Store, Recall, HandleEvent, Restart, LateWrite

-----------------------------------------------------------------------------
\* A message has one creation in the log and, behind it, one recall at most.
LogOK ==
  /\ \A i, j \in DOMAIN log : log[i] = log[j] => i = j
  /\ \A i, j \in DOMAIN log :
       log[i].id = log[j].id /\ log[i].kind = "created" /\ log[j].kind = "recalled" => i < j
  /\ \A j \in DOMAIN log : log[j].kind = "recalled" => table[log[j].id] = "recalled"

\* Writes that are late are writes that failed.
LateOK == \A e \in late : e.id \in failed

\* Events come to the topic once and in order, and a late write is of a message
\* of which a write failed.
LEMMA NextLogOK ==
  ASSUME TypeOK, Sound, LogOK, LateOK, [Next]_vars
  PROVE  LogOK' /\ LateOK'
<1>0. DOMAIN log = 1..Len(log) /\ Len(log) \in Nat /\ \A i \in DOMAIN log : log[i] \in Event /\ log[i].id \in Ids
  BY LogFacts
<1>1. ASSUME NEW s \in Ids, Store(s) \/ Recall(s) PROVE LogOK' /\ LateOK'
  <2>1. PICK k \in {"created", "recalled"} : log' = Append(log, [kind |-> k, id |-> s])
                 /\ table' = [table EXCEPT ![s] = IF k = "created" THEN "normal" ELSE "recalled"]
                 /\ table[s] = IF k = "created" THEN "none" ELSE "normal"
    BY <1>1 DEF Store, Recall
  <2>2. [kind |-> k, id |-> s] \in Event
    BY DEF Event
  <2>3. /\ log'[Len(log) + 1] = [kind |-> k, id |-> s]
        /\ \A i \in DOMAIN log : log'[i] = log[i]
        /\ DOMAIN log' = DOMAIN log \union {Len(log) + 1}
    BY <2>1, <2>2, LogGrows
  <2>4. \A i \in DOMAIN log : log[i].id = s => k = "recalled" /\ log[i].kind = "created"
    BY <1>0, <2>1 DEF Sound, LogOK, Event
  <2>5. \A r \in Ids : table[r] = "recalled" => table'[r] = "recalled"
    BY <2>1 DEF TypeOK
  <2>6. LogOK'
    <3>1. ASSUME NEW i \in DOMAIN log', NEW j \in DOMAIN log', log'[i] = log'[j] PROVE i = j
      BY <1>0, <2>3, <2>4, <3>1 DEF LogOK
    <3>2. ASSUME NEW i \in DOMAIN log', NEW j \in DOMAIN log',
                 log'[i].id = log'[j].id, log'[i].kind = "created", log'[j].kind = "recalled"
          PROVE  i < j
      <4>1. CASE i = Len(log) + 1
        BY <1>0, <2>3, <2>4, <3>2, <4>1
      <4>2. CASE i \in DOMAIN log /\ j = Len(log) + 1
        BY <1>0, <4>2
      <4>3. CASE i \in DOMAIN log /\ j \in DOMAIN log
        BY <2>3, <3>2, <4>3 DEF LogOK
      <4> QED BY <2>3, <4>1, <4>2, <4>3
    <3>3. ASSUME NEW j \in DOMAIN log', log'[j].kind = "recalled" PROVE table'[log'[j].id] = "recalled"
      <4>1. CASE j = Len(log) + 1
        BY <2>1, <2>3, <3>3, <4>1 DEF TypeOK
      <4>2. CASE j \in DOMAIN log
        BY <1>0, <2>3, <2>5, <3>3, <4>2 DEF LogOK
      <4> QED BY <2>3, <4>1, <4>2
    <3> QED BY <3>1, <3>2, <3>3 DEF LogOK
  <2>7. UNCHANGED <<late, failed>>
    BY <1>1 DEF Store, Recall, history
  <2> QED BY <2>6, <2>7 DEF LateOK
<1>2. CASE HandleEvent
  <2>1. UNCHANGED <<log, table>>
    BY <1>2 DEF HandleEvent
  <2>2. LateOK'
    BY <1>2, HandleFacts DEF LateOK
  <2> QED BY <2>1, <2>2 DEF LogOK
<1>3. CASE UNCHANGED <<log, table, failed>> /\ late' \subseteq late
  BY <1>3 DEF LogOK, LateOK
<1> QED BY <1>1, <1>2, <1>3
    DEF Next, vars, history, Restart, LateWrite, Begin, ScanMessagesAfterID, Bulk, End

\* A document follows the events the consumer has handled.
LEMMA NextIndexFollowsLog ==
  ASSUME TypeOK, Sound, LogOK, LateOK, IndexFollowsLog, [Next]_vars
  PROVE  IndexFollowsLog'
<1>0. /\ DOMAIN log = 1..Len(log) /\ Len(log) \in Nat /\ position \in 0..Len(log)
      /\ \A i \in DOMAIN log : log[i] \in Event /\ log[i].id \in Ids
  BY LogFacts DEF TypeOK
<1>1. ASSUME NEW s \in Ids, Store(s) \/ Recall(s) PROVE IndexFollowsLog'
  <2>1. PICK k \in {"created", "recalled"} : log' = Append(log, [kind |-> k, id |-> s])
    BY <1>1 DEF Store, Recall
  <2>2. \A i \in DOMAIN log : log'[i] = log[i]
    BY <2>1, LogGrows DEF Event
  <2>3. UNCHANGED <<index, position, failed, raced>>
    BY <1>1 DEF Store, Recall, history, consumer
  <2>4. \A r \in Ids, c \in {"created", "recalled"} : Behind(r, c)' => Behind(r, c)
    BY <1>0, <2>2, <2>3 DEF Behind
  <2> QED BY <2>3, <2>4 DEF IndexFollowsLog
<1>2. CASE HandleEvent
  <2> DEFINE e == log[position + 1]
  <2>1. e \in Event /\ position + 1 \in DOMAIN log /\ UNCHANGED <<log, raced>> /\ position' = position + 1
    BY <1>2, HandleFacts
  <2>2. failed \subseteq failed' /\ (index' = index \/ index' = Written(e))
    BY <1>2, HandleFacts
  <2>3. e.id \notin failed' => Accepted(e) /\ index' = Written(e)
    BY <1>2, HandleFacts
  <2> HIDE DEF e
  <2> SUFFICES ASSUME NEW s \in Ids \ (failed' \union raced')
               PROVE  /\ Behind(s, "created")' => index'[s] # "none"
                      /\ Behind(s, "recalled")' => index'[s] = "recalled"
    BY DEF IndexFollowsLog
  <2>4. s \in Ids \ (failed \union raced)
    BY <2>1, <2>2
  <2>5. ASSUME NEW c \in {"created", "recalled"}, Behind(s, c)' PROVE Behind(s, c) \/ e = [kind |-> c, id |-> s]
    BY <1>0, <2>1, <2>5 DEF Behind, e
  <2>6. ASSUME Behind(s, "created")' PROVE index'[s] # "none"
    <3>1. CASE Behind(s, "created")
      BY <2>1, <2>2, <2>4, <3>1, WrittenFacts DEF IndexFollowsLog
    <3>2. CASE e = [kind |-> "created", id |-> s]
      BY <2>1, <2>3, <3>2, WrittenFacts
    <3> QED BY <2>5, <2>6, <3>1, <3>2
  <2>7. ASSUME Behind(s, "recalled")' PROVE index'[s] = "recalled"
    <3>1. CASE Behind(s, "recalled")
      <4>1. PICK j \in 1..position : log[j] = [kind |-> "recalled", id |-> s]
        BY <3>1 DEF Behind
      <4>2. j \in DOMAIN log /\ j < position + 1
        BY <1>0
      <4>3. CASE e.id = s
        <5>1. e.kind \in {"created", "recalled"} /\ (e.kind = "recalled" => e = log[j])
          BY <2>1, <4>1, <4>3 DEF Event
        <5>2. e.kind = "recalled" => FALSE
          BY <2>1, <4>2, <5>1, <1>0 DEF LogOK, e
        <5>3. e.kind = "created" => position + 1 < j
          BY <2>1, <4>1, <4>2, <4>3 DEF LogOK, e
        <5> QED BY <1>0, <4>2, <5>1, <5>2, <5>3
      <4>4. CASE e.id # s
        BY <2>1, <2>2, <2>4, <3>1, <4>4, WrittenFacts DEF IndexFollowsLog
      <4> QED BY <4>3, <4>4
    <3>2. CASE e = [kind |-> "recalled", id |-> s]
      BY <2>1, <2>3, <3>2, WrittenFacts
    <3> QED BY <2>5, <2>7, <3>1, <3>2
  <2> QED BY <2>6, <2>7
<1>3. CASE Restart
  <2>1. position' \in 0..position /\ UNCHANGED <<log, index, failed, raced>>
    BY <1>3 DEF Restart, history, TypeOK
  <2>2. \A s \in Ids, c \in {"created", "recalled"} : Behind(s, c)' => Behind(s, c)
    BY <1>0, <2>1 DEF Behind
  <2> QED BY <2>1, <2>2 DEF IndexFollowsLog
<1>4. ASSUME NEW e \in late, LateWrite(e) PROVE IndexFollowsLog'
  <2>1. e \in Event /\ e.id \in failed
    BY DEF TypeOK, LateOK, Event
  <2>2. \A s \in Ids : s # e.id => index'[s] = index[s]
    BY <1>4, <2>1, WrittenFacts DEF LateWrite
  <2>3. UNCHANGED <<log, position, failed, raced>>
    BY <1>4 DEF LateWrite, consumer, history
  <2> QED BY <2>1, <2>2, <2>3 DEF IndexFollowsLog, Behind
<1>5. CASE Bulk
  <2>1. PICK sent \in SUBSET backfill.batch :
          /\ index' = [s \in Ids |-> IF s \in sent THEN "normal" ELSE index[s]]
          /\ raced' = raced \union {s \in sent : table[s] = "recalled"}
    BY <1>5 DEF Bulk
  <2>2. UNCHANGED <<log, position, failed>>
    BY <1>5 DEF Bulk, consumer
  <2>3. \A s \in Ids : Behind(s, "recalled") => table[s] = "recalled"
    BY <1>0 DEF Behind, LogOK
  <2> QED BY <2>1, <2>2, <2>3 DEF IndexFollowsLog, Behind
<1>6. CASE UNCHANGED <<log, index, position, failed, raced>>
  BY <1>6 DEF IndexFollowsLog, Behind
<1> QED BY <1>1, <1>2, <1>3, <1>4, <1>5, <1>6
    DEF Next, vars, consumer, history, Begin, ScanMessagesAfterID, End

-----------------------------------------------------------------------------
IInv == TypeOK /\ Sound /\ Copying /\ LogOK /\ LateOK /\ IndexFollowsLog

\* The inductive invariant.
LEMMA Invariance == Spec => []IInv
<1>1. Init => IInv
  BY InitTypeOK DEF IInv, Init, Stopped, Copying, LogOK, LateOK, IndexFollowsLog, Behind
<1>2. IInv /\ [Next]_vars => IInv'
  BY NextTypeOK, NextCopying, NextLogOK, NextIndexFollowsLog DEF IInv
<1> QED BY <1>1, <1>2, PTL DEF Spec

\* The state is well-typed, the committed offset is not ahead of the consumer,
\* and every document has a row in the table.
THEOREM TypeCorrect == Spec => []TypeOK
BY Invariance, PTL DEF IInv

\* RunConsumer and the backfill: where no write of a message failed and no
\* backfill wrote what it had read before a recall, the message is
\* searchable once the consumer is past its creation and hidden once it is
\* past its recall, restarts and lost commits included.
THEOREM FollowsLog == Spec => []IndexFollowsLog
BY Invariance, PTL DEF IInv

\* es-backfill: a run that ends has written every message that was normal
\* when it began, but those recalled or refused, for any size of batch.
THEOREM BackfillComplete == Spec => []BackfillCovers
<1>1. IInv => BackfillCovers
  BY DEF IInv, Copying, BackfillCovers
<1> QED BY <1>1, Invariance, PTL

-----------------------------------------------------------------------------
\* PagingWalks.

Before(L, q, s) == <<q, s>> \in L

\* A strict order of the rows of S without ties, and the number of rows
\* before each of them.
Orders(L, S) ==
  /\ \A s \in S : <<s, s>> \notin L
  /\ \A q, r, s \in S : <<q, r>> \in L /\ <<r, s>> \in L => <<q, s>> \in L
  /\ \A q, s \in S : q # s => <<q, s>> \in L \/ <<s, q>> \in L

RankIn(S, L) == [s \in S |-> Cardinality({q \in S : <<q, s>> \in L})]
FirstOf(S, rk, limit) == {s \in S : rk[s] < limit}

\* Rows in an order without ties: each has its own number of rows before it.
LEMMA RankIsBijective ==
  ASSUME NEW S, IsFiniteSet(S), NEW L, Orders(L, S), NEW rk, rk = RankIn(S, L)
  PROVE  /\ rk \in Injection(S, 0..Cardinality(S) - 1) /\ rk \in Surjection(S, 0..Cardinality(S) - 1)
         /\ \A s \in S : rk[s] \in Nat
         /\ \A q, s \in S : Before(L, q, s) <=> rk[q] < rk[s]
<1> DEFINE Smaller(s) == {q \in S : <<q, s>> \in L}
<1>1. \A s \in S : rk[s] = Cardinality(Smaller(s)) /\ Smaller(s) \in SUBSET S
  BY DEF RankIn
<1>2. \A q, s \in S : q \in Smaller(s) <=> <<q, s>> \in L
  OBVIOUS
<1>3. DOMAIN rk = S /\ rk = [s \in S |-> rk[s]]
  BY DEF RankIn
<1>4. /\ \A s \in S : <<s, s>> \notin L
      /\ \A q, r, s \in S : <<q, r>> \in L /\ <<r, s>> \in L => <<q, s>> \in L
      /\ \A q, s \in S : q # s => <<q, s>> \in L \/ <<s, q>> \in L
  BY DEF Orders
<1> HIDE DEF Smaller
<1>5. \A s \in S : IsFiniteSet(Smaller(s)) /\ Cardinality(Smaller(s)) \in Nat
  BY <1>1, FS_Subset, FS_CardinalityType
<1>6. PICK n \in Nat : n = Cardinality(S)
  BY FS_CardinalityType
<1>7. ASSUME NEW s \in S PROVE Cardinality(Smaller(s)) < n
  <2>1. Cardinality(Smaller(s)) =< n /\ (Cardinality(Smaller(s)) = n => Smaller(s) = S)
    BY <1>1, <1>6, FS_Subset
  <2>2. <<s, s>> \notin L
    BY <1>4
  <2>3. Smaller(s) # S
    BY <1>2, <2>2
  <2> QED BY <2>1, <2>3, <1>5, <1>6
<1>8. ASSUME NEW q \in S, NEW s \in S, <<q, s>> \in L PROVE Cardinality(Smaller(q)) < Cardinality(Smaller(s))
  <2>1. Smaller(q) \in SUBSET Smaller(s) /\ q \in Smaller(s) /\ q \notin Smaller(q)
    BY <1>1, <1>2, <1>8, <1>4
  <2>2. Cardinality(Smaller(q)) =< Cardinality(Smaller(s)) /\ (Cardinality(Smaller(s)) = Cardinality(Smaller(q)) => Smaller(s) = Smaller(q))
    BY <2>1, <1>5, FS_Subset
  <2> QED BY <2>1, <2>2, <1>5
<1>9. \A s \in S : rk[s] \in Nat /\ rk[s] \in 0..n - 1
  BY <1>1, <1>5, <1>6, <1>7
<1>10. \A q, s \in S : <<q, s>> \in L => rk[q] < rk[s]
  BY <1>1, <1>8
<1>11. ASSUME NEW q \in S, NEW s \in S, q # s PROVE rk[q] # rk[s]
  <2>1. rk[q] < rk[s] \/ rk[s] < rk[q]
    BY <1>10, <1>11, <1>4
  <2> QED BY <2>1, <1>9
<1>12. rk \in Injection(S, 0..n - 1)
  <2>1. rk \in [S -> 0..n - 1]
    BY <1>3, <1>9
  <2>2. \A q, s \in DOMAIN rk : rk[q] = rk[s] => q = s
    BY <1>3, <1>11
  <2>3. IsInjective(rk)
    BY ONLY <2>2 DEF IsInjective
  <2> QED BY <2>1, <2>3 DEF Injection
<1>13. IsFiniteSet(0..n - 1) /\ Cardinality(0..n - 1) = n
  <2>1. n - 1 \in Int /\ n - 1 - 0 + 1 = n /\ (0 > n - 1 => n = 0)
    OBVIOUS
  <2> QED BY <2>1, FS_Interval
<1>14. rk \in Surjection(S, 0..n - 1)
  <2>1. PICK I : I = 0..n - 1
    OBVIOUS
  <2>2. rk \in Injection(S, I) /\ IsFiniteSet(I) /\ Cardinality(I) = Cardinality(S)
    BY <2>1, <1>6, <1>12, <1>13
  <2>3. rk \in Surjection(S, I)
    BY <2>2, FS_Injection
  <2> QED BY <2>1, <2>3
<1>15. ASSUME NEW q \in S, NEW s \in S, rk[q] < rk[s] PROVE <<q, s>> \in L
  <2>1. rk[q] \in Nat /\ rk[s] \in Nat /\ ~(rk[s] < rk[q]) /\ rk[q] # rk[s]
    BY <1>15, <1>9
  <2>2. q # s
    BY <2>1
  <2> QED BY <2>1, <2>2, <1>10, <1>4
<1> QED BY <1>6, <1>9, <1>10, <1>12, <1>14, <1>15 DEF Before

\* LIMIT limit over rows in such an order gives all of them, or exactly
\* that many; then there is one row behind them all, the next of the order.
Limited(S, L, limit, rk, T) ==
  /\ IsFiniteSet(T) /\ Cardinality(T) \in Nat /\ \A s \in S : rk[s] \in Nat
  /\ \A q, s \in S : Before(L, q, s) <=> rk[q] < rk[s]
  /\ \A q, s \in S : rk[q] = rk[s] => q = s
  /\ (\A s \in S : rk[s] # limit) => T = S
  /\ T # S => Cardinality(T) = limit
  /\ (\E s \in S : rk[s] = limit) => Cardinality(T) = limit /\ \E s \in S : rk[s] = limit - 1

LEMMA LimitTakes ==
  ASSUME NEW S, IsFiniteSet(S), NEW L, Orders(L, S), NEW limit \in Nat \ {0},
         NEW rk, rk = RankIn(S, L), NEW T, T = FirstOf(S, rk, limit)
  PROVE  Limited(S, L, limit, rk, T)
<1>1. T = {s \in S : rk[s] < limit}
  BY DEF FirstOf
<1>2. /\ rk \in Injection(S, 0..Cardinality(S) - 1) /\ rk \in Surjection(S, 0..Cardinality(S) - 1)
      /\ \A s \in S : rk[s] \in Nat
      /\ \A q, s \in S : Before(L, q, s) <=> rk[q] < rk[s]
  BY RankIsBijective
<1>3. PICK n \in Nat : n = Cardinality(S)
  BY FS_CardinalityType
<1>4. rk \in [S -> 0..n - 1] /\ \A i \in 0..n - 1 : \E s \in S : rk[s] = i
  BY <1>2, <1>3 DEF Surjection
<1>5. \A q, s \in S : rk[q] = rk[s] => q = s
  BY <1>2 DEF Injection, IsInjective
<1>6. T \in SUBSET S
  BY <1>1
<1>7. IsFiniteSet(T) /\ Cardinality(T) \in Nat
  BY <1>6, FS_Subset, FS_CardinalityType
<1>8. ASSUME NEW s \in S, rk[s] >= limit PROVE limit \in 0..n - 1 /\ limit - 1 \in 0..n - 1
  BY <1>4, <1>8
<1>9. ASSUME \A s \in S : rk[s] # limit PROVE T = S
  <2>1. ASSUME NEW s \in S PROVE s \in T
    <3>1. rk[s] \in Nat /\ ~(rk[s] >= limit)
      <4>1. ASSUME rk[s] >= limit PROVE FALSE
        <5>1. PICK q \in S : rk[q] = limit
          BY <1>4, <1>8, <4>1
        <5> QED BY <1>9, <5>1
      <4> QED BY <4>1, <1>2
    <3> QED BY <3>1, <1>1
  <2> QED BY <2>1, <1>6
<1>10. ASSUME NEW s \in S, rk[s] >= limit PROVE Cardinality(T) = limit
  <2>1. PICK I : I = 0..limit - 1
    OBVIOUS
  <2>2. IsFiniteSet(I) /\ Cardinality(I) = limit
    BY <2>1, FS_Interval
  <2>3. PICK g : g = [t \in T |-> rk[t]]
    OBVIOUS
  <2>4. g \in [T -> I]
    <3>1. \A t \in T : rk[t] \in Nat /\ rk[t] < limit
      BY <1>2, <1>1
    <3>2. \A t \in T : rk[t] \in I
      BY <3>1, <2>1
    <3> QED BY <3>2, <2>3
  <2>5. \A i \in I : \E t \in T : g[t] = i
    <3>1. SUFFICES ASSUME NEW i \in I PROVE \E t \in T : g[t] = i
      OBVIOUS
    <3>2. i \in 0..n - 1 /\ i < limit
      BY <1>8, <1>10, <2>1
    <3>3. PICK t \in S : rk[t] = i
      BY <1>4, <3>2
    <3> QED BY <2>3, <3>2, <3>3, <1>1
  <2>6. g \in Surjection(T, I)
    BY <2>4, <2>5 DEF Surjection
  <2>7. g \in Injection(T, I)
    <3>1. \A q, r \in T : g[q] = g[r] => q = r
      BY <1>5, <1>6, <2>3
    <3>2. DOMAIN g = T
      BY <2>4
    <3> QED BY <3>1, <3>2, <2>4 DEF Injection, IsInjective
  <2>8. Cardinality(I) = Cardinality(T)
    BY <1>7, <2>6, <2>7, FS_Surjection
  <2> QED BY <2>2, <2>8
<1>11. T # S => \E s \in S : rk[s] >= limit
  BY <1>2, <1>1
<1>12. ASSUME NEW s \in S, rk[s] = limit PROVE \E q \in S : rk[q] = limit - 1
  <2>1. rk[s] >= limit
    BY <1>12
  <2> QED BY <1>4, <1>8, <2>1
<1>13. T # S => Cardinality(T) = limit
  BY <1>10, <1>11
<1>14. ASSUME NEW s \in S, rk[s] = limit PROVE Cardinality(T) = limit
  <2>1. rk[s] >= limit
    BY <1>14
  <2> QED BY <1>10, <2>1
<1> QED BY <1>2, <1>5, <1>7, <1>9, <1>12, <1>13, <1>14 DEF Limited

\* ORDER BY id LIMIT limit, and the two cursors made of it: the row left out,
\* before which all rows are taken, and the last row taken.
FirstRows(S, limit, T) ==
  /\ T \subseteq S /\ IsFiniteSet(T) /\ Cardinality(T) \in Nat
  /\ Extra(S, limit) = {} => T = S
  /\ Extra(S, limit) # {} =>
       /\ Cardinality(T) = limit
       /\ NextOfLeftOut(S, limit) \in S /\ NextOfTaken(S, limit) \in T
       /\ \A s \in S : s \in T <=> s < NextOfLeftOut(S, limit)
       /\ \A s \in S : s \in T <=> s =< NextOfTaken(S, limit)

LEMMA AscendingPage ==
  ASSUME NEW S \in SUBSET Nat, IsFiniteSet(S), NEW limit \in Nat \ {0}, NEW T, T = Taken(S, limit)
  PROVE  FirstRows(S, limit, T)
<1>1. PICK L : L = {p \in S \X S : p[1] < p[2]}
  OBVIOUS
<1>2. \A q, s \in S : (<<q, s>> \in L <=> q < s) /\ (Before(L, q, s) <=> q < s)
  BY <1>1 DEF Before
<1>3. PICK rk : rk = RankIn(S, L)
  OBVIOUS
<1>4. ASSUME NEW s \in S PROVE Rank(S, s) = rk[s]
  <2>1. {q \in S : q < s} = {q \in S : <<q, s>> \in L}
    BY <1>2
  <2> QED BY <2>1, <1>3 DEF Rank, RankIn
<1>5. T = {s \in S : rk[s] < limit}
  BY <1>4 DEF Taken
<1>6. Orders(L, S)
  BY <1>2 DEF Orders
<1>7. /\ IsFiniteSet(T) /\ Cardinality(T) \in Nat /\ \A s \in S : rk[s] \in Nat
      /\ \A q, s \in S : Before(L, q, s) <=> rk[q] < rk[s]
      /\ \A q, s \in S : rk[q] = rk[s] => q = s
      /\ (\A s \in S : rk[s] # limit) => T = S
      /\ (\E s \in S : rk[s] = limit) => Cardinality(T) = limit /\ \E s \in S : rk[s] = limit - 1
  <2>1. T = FirstOf(S, rk, limit)
    BY <1>5 DEF FirstOf
  <2>2. Limited(S, L, limit, rk, T)
    BY <2>1, <1>3, <1>6, LimitTakes
  <2> QED BY <2>2 DEF Limited
<1>8. Extra(S, limit) = {s \in S : rk[s] = limit}
  BY <1>4 DEF Extra
<1>9. ASSUME Extra(S, limit) # {}
      PROVE  /\ Cardinality(T) = limit
             /\ NextOfLeftOut(S, limit) \in S /\ NextOfTaken(S, limit) \in T
             /\ \A s \in S : s \in T <=> s < NextOfLeftOut(S, limit)
             /\ \A s \in S : s \in T <=> s =< NextOfTaken(S, limit)
  <2>1. PICK n \in S : rk[n] = limit
    BY <1>8, <1>9
  <2>2. Cardinality(T) = limit
    BY <1>7, <2>1
  <2>3. PICK m \in S : rk[m] = limit - 1
    BY <1>7, <2>1
  <2>4. NextOfLeftOut(S, limit) = CHOOSE r \in S : Rank(S, r) = limit
    BY <1>9 DEF NextOfLeftOut
  <2>5. NextOfLeftOut(S, limit) \in S /\ rk[NextOfLeftOut(S, limit)] = limit
    BY <2>1, <2>4, <1>4
  <2>6. NextOfTaken(S, limit) = CHOOSE r \in S : Rank(S, r) = limit - 1
    BY <1>9 DEF NextOfTaken
  <2>7. NextOfTaken(S, limit) \in S /\ rk[NextOfTaken(S, limit)] = limit - 1
    BY <2>3, <2>6, <1>4
  <2>8. NextOfLeftOut(S, limit) = n /\ NextOfTaken(S, limit) = m
    BY <2>1, <2>3, <2>5, <2>7, <1>7
  <2>9. ASSUME NEW s \in S PROVE s < n <=> rk[s] < rk[n]
    BY <1>2, <1>7
  <2>10. ASSUME NEW s \in S PROVE s =< m <=> rk[s] =< rk[m]
    <3>1. m < s <=> rk[m] < rk[s]
      BY <1>2, <1>7
    <3>2. m \in Nat /\ s \in Nat /\ rk[m] \in Nat /\ rk[s] \in Nat
      BY <1>7
    <3> QED BY <3>1, <3>2
  <2>11. \A s \in S : s \in T <=> rk[s] < limit
    BY <1>5
  <2>12. \A s \in S : s \in T <=> s < n
    BY <2>1, <2>9, <2>11
  <2>13. \A s \in S : rk[s] =< limit - 1 <=> rk[s] < limit
    BY <1>7
  <2>14. \A s \in S : s \in T <=> s =< m
    BY <2>3, <2>10, <2>11, <2>13
  <2>15. m \in T
    BY <2>14
  <2> QED BY <2>1, <2>2, <2>8, <2>12, <2>14, <2>15
<1>10. Extra(S, limit) = {} => T = S
  BY <1>7, <1>8
<1> QED BY <1>5, <1>7, <1>9, <1>10 DEF FirstRows

\* ORDER BY sequence DESC LIMIT limit: all rows, or limit rows above the rest.
Newest(S, limit) == {r \in S : Cardinality({q \in S : q > r}) < limit}

NewestOf(S, limit, T) ==
  /\ T \subseteq S /\ IsFiniteSet(T) /\ Cardinality(T) \in Nat
  /\ T = S \/ Cardinality(T) = limit
  /\ \A s \in S, t \in T : s > t => s \in T

LEMMA NewestPage ==
  ASSUME NEW S \in SUBSET Nat, IsFiniteSet(S), NEW limit \in Nat \ {0}, NEW T, T = Newest(S, limit)
  PROVE  NewestOf(S, limit, T)
<1>1. PICK L : L = {p \in S \X S : p[1] > p[2]}
  OBVIOUS
<1>2. \A q, s \in S : (<<q, s>> \in L <=> q > s) /\ (Before(L, q, s) <=> q > s)
  BY <1>1 DEF Before
<1>3. PICK rk : rk = RankIn(S, L)
  OBVIOUS
<1>4. ASSUME NEW s \in S PROVE Cardinality({q \in S : q > s}) = rk[s]
  <2>1. {q \in S : q > s} = {q \in S : <<q, s>> \in L}
    BY <1>2
  <2> QED BY <2>1, <1>3 DEF RankIn
<1>5. T = {s \in S : rk[s] < limit}
  BY <1>4 DEF Newest
<1>6. Orders(L, S)
  BY <1>2 DEF Orders
<1>7. /\ IsFiniteSet(T) /\ Cardinality(T) \in Nat /\ \A s \in S : rk[s] \in Nat
      /\ \A q, s \in S : Before(L, q, s) <=> rk[q] < rk[s]
      /\ T # S => Cardinality(T) = limit
  <2>1. T = FirstOf(S, rk, limit)
    BY <1>5 DEF FirstOf
  <2>2. Limited(S, L, limit, rk, T)
    BY <2>1, <1>3, <1>6, LimitTakes
  <2> QED BY <2>2 DEF Limited
<1>8. ASSUME NEW s \in S, NEW t \in T, s > t PROVE s \in T
  <2>1. t \in S /\ rk[t] < limit /\ rk[s] < rk[t] /\ rk[s] \in Nat /\ rk[t] \in Nat
    BY <1>2, <1>5, <1>7, <1>8
  <2> QED BY <2>1, <1>5
<1> QED BY <1>5, <1>7, <1>8 DEF NewestOf

\* Pinned first, then newest first: with a row left out, those taken are the
\* pinned one and all above the row left out, which is not pinned.
StillBelow(rows, c) == {a \in rows : c > 0 => a.id < c}

PinnedFirst(S, limit, p) ==
  /\ p.items \subseteq S /\ IsFiniteSet(p.items) /\ Cardinality(p.items) \in Nat
  /\ p.next = 0 => p.items = S
  /\ p.next # 0 =>
       /\ Cardinality(p.items) = limit
       /\ \E x \in S : /\ x.id = p.next /\ ~x.pinned
                       /\ \A a \in S : a \in p.items <=> a.pinned \/ a.id > x.id

LEMMA AnnouncementPage ==
  ASSUME NEW rows \in SUBSET [id : Nat \ {0}, pinned : BOOLEAN], IsFiniteSet(rows),
         \A a, b \in rows : a.id = b.id => a = b,
         \A a, b \in rows : a.pinned /\ b.pinned => a = b,
         NEW limit \in Nat \ {0}, NEW c \in Nat
  PROVE  PinnedFirst(StillBelow(rows, c), limit, ListAnnouncements(rows, c, limit))
<1>1. PICK S : S = StillBelow(rows, c)
  OBVIOUS
<1>2. S = {a \in rows : c > 0 => a.id < c}
  BY <1>1 DEF StillBelow
<1>3. PICK p : p = ListAnnouncements(rows, c, limit)
  OBVIOUS
<1> DEFINE Above(a, b) == (a.pinned /\ ~b.pinned) \/ (a.pinned = b.pinned /\ a.id > b.id)
<1>4. PICK L : L = {e \in S \X S : Above(e[1], e[2])}
  OBVIOUS
<1>5. S \in SUBSET rows /\ IsFiniteSet(S) /\ \A a \in S : a.id \in Nat \ {0} /\ a.pinned \in BOOLEAN
  BY <1>2, FS_Subset
<1>6. \A q, s \in S : (<<q, s>> \in L <=> Above(q, s)) /\ (Before(L, q, s) <=> Above(q, s))
  BY <1>4 DEF Before
<1>7. Orders(L, S)
  <2>1. \A s \in S : ~Above(s, s)
    BY <1>5
  <2>2. \A q, r, s \in S : Above(q, r) /\ Above(r, s) => Above(q, s)
    BY <1>5
  <2>3. ASSUME NEW q \in S, NEW s \in S, q # s PROVE Above(q, s) \/ Above(s, q)
    <3>1. q.id # s.id
      BY <1>5, <2>3
    <3>2. q.id > s.id \/ s.id > q.id
      BY <3>1, <1>5
    <3> QED BY <3>2, <1>5
  <2> QED BY <2>1, <2>2, <2>3, <1>6 DEF Orders
<1>8. PICK rk : rk = RankIn(S, L)
  OBVIOUS
<1>9. PICK T : T = FirstOf(S, rk, limit)
  OBVIOUS
<1>10. Limited(S, L, limit, rk, T)
  BY <1>5, <1>7, <1>8, <1>9, LimitTakes
<1>11. ASSUME NEW s \in S PROVE Cardinality({b \in S : Above(b, s)}) = rk[s]
  <2>1. {b \in S : Above(b, s)} = {b \in S : <<b, s>> \in L}
    BY <1>6
  <2> QED BY <2>1, <1>8 DEF RankIn
<1>12. /\ p.items = {a \in S : Cardinality({b \in S : Above(b, a)}) < limit}
       /\ p.next = IF \E a \in S : Cardinality({b \in S : Above(b, a)}) = limit
                   THEN (CHOOSE a \in S : Cardinality({b \in S : Above(b, a)}) = limit).id ELSE 0
  BY <1>2, <1>3 DEF ListAnnouncements
<1>13. p.items = T
  BY <1>9, <1>11, <1>12 DEF FirstOf
<1>14. CASE \E a \in S : rk[a] = limit
  <2>1. p.next = (CHOOSE a \in S : Cardinality({b \in S : Above(b, a)}) = limit).id
    BY <1>11, <1>12, <1>14
  <2>2. PICK x : x = CHOOSE a \in S : Cardinality({b \in S : Above(b, a)}) = limit
    OBVIOUS
  <2>3. x \in S /\ Cardinality({b \in S : Above(b, x)}) = limit
    BY <2>2, <1>11, <1>14
  <2>4. rk[x] = limit /\ x.id = p.next /\ p.next # 0
    BY <2>1, <2>2, <2>3, <1>5, <1>11
  <2>5. Cardinality(T) = limit
    BY <2>3, <2>4, <1>10 DEF Limited
  <2>6. ASSUME NEW a \in S PROVE a \in T <=> Above(a, x)
    <3>1. Before(L, a, x) <=> rk[a] < rk[x]
      BY <2>3, <1>10 DEF Limited
    <3>2. a \in T <=> rk[a] < limit
      BY <1>9 DEF FirstOf
    <3>3. Before(L, a, x) <=> Above(a, x)
      BY <2>3, <1>6
    <3>4. rk[x] = limit
      BY <2>4
    <3> HIDE DEF Above
    <3> QED BY <3>1, <3>2, <3>3, <3>4
  <2>7. ~x.pinned
    <3>1. ASSUME x.pinned PROVE FALSE
      <4>1. ASSUME NEW a \in T PROVE FALSE
        <5>1. a \in S /\ Above(a, x)
          BY <2>6, <1>9 DEF FirstOf
        <5>2. a.pinned /\ a.id > x.id
          BY <5>1, <3>1
        <5>3. a = x
          BY <5>1, <5>2, <3>1, <2>3, <1>5
        <5> QED BY <5>2, <5>3, <2>3, <1>5
      <4>2. T = {}
        BY <4>1
      <4> QED BY <4>2, <2>5, FS_EmptySet
    <3> QED BY <3>1
  <2>8. \A a \in S : Above(a, x) <=> a.pinned \/ a.id > x.id
    BY <2>7, <2>3, <1>5
  <2>9. T \subseteq S /\ IsFiniteSet(T) /\ Cardinality(T) \in Nat
    BY <1>9, <1>10 DEF FirstOf, Limited
  <2> QED BY <2>3, <2>4, <2>5, <2>6, <2>7, <2>8, <2>9, <1>13, <1>1, <1>3 DEF PinnedFirst
<1>15. CASE ~\E a \in S : rk[a] = limit
  <2>1. p.next = 0
    BY <1>11, <1>12, <1>15
  <2>2. T = S /\ IsFiniteSet(T) /\ Cardinality(T) \in Nat
    BY <1>10, <1>15 DEF Limited
  <2> QED BY <2>1, <2>2, <1>13, <1>1, <1>3 DEF PinnedFirst
<1> QED BY <1>14, <1>15

\* The hits of one page of a search: all, or as many as the page holds, the
\* cursor being the last of them.
LastIsCursor(S, limit, p) ==
  /\ p.items \subseteq S /\ IsFiniteSet(p.items) /\ Cardinality(p.items) \in Nat
  /\ p.next = NoCursor => p.items = S
  /\ p.next # NoCursor =>
       /\ Cardinality(p.items) = limit /\ p.next \in S
       /\ \A h \in S : h \in p.items <=> h = p.next \/ Below(p.next, h)

LEMMA HitsPage ==
  ASSUME NEW S \in SUBSET ((Nat \ {0}) \X Nat \X Nat), IsFiniteSet(S), NEW limit \in Nat \ {0},
         NEW p, p = ParseResponse(S, limit)
  PROVE  LastIsCursor(S, limit, p)
<1>1. PICK L : L = {e \in S \X S : Below(e[2], e[1])}
  OBVIOUS
<1>2. \A h \in S : h[1] \in Nat \ {0} /\ h[2] \in Nat /\ h[3] \in Nat /\ h = <<h[1], h[2], h[3]>>
  OBVIOUS
<1>3. \A q, s \in S : (<<q, s>> \in L <=> Below(s, q)) /\ (Before(L, q, s) <=> Below(s, q))
  BY <1>1 DEF Before
<1>4. Orders(L, S)
  <2>1. \A s \in S : ~Below(s, s)
    BY <1>2 DEF Below, After
  <2>2. \A q, r, s \in S : Below(r, q) /\ Below(s, r) => Below(s, q)
    BY <1>2 DEF Below, After
  <2>3. ASSUME NEW q \in S, NEW s \in S, q # s PROVE Below(q, s) \/ Below(s, q)
    <3>1. q[1] # s[1] \/ q[2] # s[2] \/ q[3] # s[3]
      BY <1>2, <2>3
    <3> QED BY <3>1, <1>2 DEF Below, After
  <2> QED BY <2>1, <2>2, <2>3, <1>3 DEF Orders
<1>5. PICK rk : rk = RankIn(S, L)
  OBVIOUS
<1>6. PICK T : T = FirstOf(S, rk, limit)
  OBVIOUS
<1>7. Limited(S, L, limit, rk, T)
  BY <1>4, <1>5, <1>6, LimitTakes
<1>8. ASSUME NEW s \in S PROVE Cardinality({g \in S : Below(s, g)}) = rk[s]
  <2>1. {g \in S : Below(s, g)} = {g \in S : <<g, s>> \in L}
    BY <1>3
  <2> QED BY <2>1, <1>5 DEF RankIn
<1>9. /\ p.items = {h \in S : Cardinality({g \in S : Below(h, g)}) < limit}
      /\ p.next = IF \E h \in S : Cardinality({g \in S : Below(h, g)}) = limit
                  THEN CHOOSE h \in S : Cardinality({g \in S : Below(h, g)}) = limit - 1 ELSE NoCursor
  BY DEF ParseResponse
<1>10. p.items = T
  BY <1>6, <1>8, <1>9 DEF FirstOf
<1>11. CASE \E h \in S : rk[h] = limit
  <2>1. p.next = CHOOSE h \in S : Cardinality({g \in S : Below(h, g)}) = limit - 1
    BY <1>8, <1>9, <1>11
  <2>2. \E h \in S : rk[h] = limit - 1
    BY <1>7, <1>11 DEF Limited
  <2>3. PICK x : x = CHOOSE h \in S : Cardinality({g \in S : Below(h, g)}) = limit - 1
    OBVIOUS
  <2>4. x \in S /\ Cardinality({g \in S : Below(x, g)}) = limit - 1
    BY <2>2, <2>3, <1>8
  <2>5. rk[x] = limit - 1 /\ x = p.next
    BY <2>1, <2>3, <2>4, <1>8
  <2>6. x # NoCursor
    BY <2>4, <1>2 DEF NoCursor
  <2>7. Cardinality(T) = limit
    BY <1>7, <1>11 DEF Limited
  <2>8. ASSUME NEW h \in S PROVE h \in T <=> h = x \/ Below(x, h)
    <3>1. Below(x, h) <=> rk[h] < rk[x]
      BY <2>4, <1>3, <1>7 DEF Limited
    <3>2. h \in T <=> rk[h] < limit
      BY <1>6 DEF FirstOf
    <3>3. rk[h] = rk[x] <=> h = x
      BY <2>4, <1>7 DEF Limited
    <3>4. rk[h] \in Nat
      BY <1>7 DEF Limited
    <3>5. rk[h] < limit <=> rk[h] < rk[x] \/ rk[h] = rk[x]
      BY <3>4, <2>5
    <3> QED BY <3>1, <3>2, <3>3, <3>5
  <2>9. T \subseteq S /\ IsFiniteSet(T) /\ Cardinality(T) \in Nat
    BY <1>6, <1>7 DEF FirstOf, Limited
  <2> QED BY <2>4, <2>5, <2>6, <2>7, <2>8, <2>9, <1>10 DEF LastIsCursor
<1>12. CASE ~\E h \in S : rk[h] = limit
  <2>1. p.next = NoCursor
    BY <1>8, <1>9, <1>12
  <2>2. T = S /\ IsFiniteSet(T) /\ Cardinality(T) \in Nat
    BY <1>7, <1>12 DEF Limited
  <2> QED BY <2>1, <2>2, <1>10 DEF LastIsCursor
<1> QED BY <1>11, <1>12

-----------------------------------------------------------------------------
\* What the walk is to show, the rows a cursor has behind it, and the rows
\* still to come.
InTheList == {k \in Keys : InList(k)}

\* The sort values of a message that is searched, and its group.
HitOf(k) == <<at[k], k[2], k[1]>>

Ascending == {"fanout", "members", "groups", "requests", "mentions"}
Lossy == {"members", "groups", "requests", "mentions", "announcements"}

PassedBy(c) ==
  {k \in Keys :
     \/ kind \in Ascending /\ k =< c
     \/ kind \in {"announcements", "messages"} /\ c > 0 /\ c =< k
     \/ kind = "search" /\ c # NoCursor /\ ~After(HitOf(k), c)}
Passed == PassedBy(cursor)
Left == InTheList \ Passed

\* Only loadMore reads an empty page to see that it is through.
DryPage == IF kind = "messages" /\ Left = {} THEN 1 ELSE 0

Items ==
  IF kind = "search" THEN Time \X (1..2) \X Group
  ELSE IF kind = "announcements" THEN [id : Id, pinned : BOOLEAN] ELSE Id

LastCursor == IF kind = "search" THEN NoCursor ELSE 0
Cursors == IF kind = "search" THEN Nat \X Nat \X Nat ELSE Nat

WalkTypes ==
  /\ kind \in Kind /\ kind \in Kinds /\ DOMAIN state = Keys
  /\ kind = "search" => at \in [Doc -> Time] /\ asked \in Group \union {0}
  /\ stayed \subseteq InTheList /\ pages \in Seq(SUBSET Items) /\ cursor \in Cursors
  /\ done \in BOOLEAN /\ changes \in 0..MaxChanges

OnePinned == \A k, q \in Keys : state[k] = "pinned" /\ state[q] = "pinned" => k = q

\* An announcement may have been shown when it was pinned.
ShownIsPassed ==
  \A i \in DOMAIN pages : \A a \in pages[i] : Key(a) \in Passed \/ (kind = "announcements" /\ a.pinned)

NoneLost == kind \notin Lossy /\ ~Tied => stayed \intersect Passed \subseteq Listed
FewLost == kind \in Lossy => Cardinality((stayed \intersect Passed) \ Listed) =< Len(pages)
FullPages == (Len(pages) - changes - DryPage) * PageLimit =< Cardinality(Passed)

\* Between two pages, and after the last one.
Underway == ShownIsPassed /\ NoneLost /\ FewLost /\ FullPages

Through ==
  /\ kind \notin Lossy /\ ~Tied => stayed \subseteq Listed
  /\ kind \in Lossy => Cardinality(stayed \ Listed) =< Len(pages) - 1
  /\ (Len(pages) - 2 - changes) * PageLimit =< Cardinality(Keys)

WalkInv ==
  /\ WalkTypes /\ OnePinned /\ NothingTwice
  /\ ~done => Underway
  /\ done => Through

\* A page of what is left: without a cursor it is all of it; otherwise the
\* rows left out are not behind the new cursor, but for one of some lists.
KeysOf(p) == {Key(a) : a \in p.items}

GivesAll(p) == p.next = LastCursor => KeysOf(p) = Left

GivesPage(p) ==
  p.next # LastCursor =>
    /\ p.items # {} /\ Passed \subseteq PassedBy(p.next)
    /\ \A a \in p.items : Key(a) \in PassedBy(p.next) \/ (kind = "announcements" /\ a.pinned)
    /\ kind \notin Lossy /\ ~Tied => Left \intersect PassedBy(p.next) \subseteq KeysOf(p)
    /\ kind \in Lossy => \E n : Left \intersect PassedBy(p.next) \subseteq KeysOf(p) \union {n}
    /\ \/ Cardinality(Passed) + PageLimit =< Cardinality(PassedBy(p.next))
       \/ kind = "messages" /\ Left \subseteq PassedBy(p.next)

PageOfLeft(p) ==
  /\ p.items \subseteq Items /\ p.next \in Cursors /\ KeysOf(p) \subseteq Left
  /\ GivesAll(p) /\ GivesPage(p)

\* Times a number of rows.
LEMMA TimesMonotone ==
  ASSUME NEW a \in Int, NEW b \in Int, NEW n \in Nat, a =< b
  PROVE  a * n =< b * n
OBVIOUS

\* There are finitely many rows, so finitely many behind a cursor.
LEMMA KeysFinite ==
  /\ IsFiniteSet(Keys) /\ Cardinality(Keys) \in Nat
  /\ \A c : PassedBy(c) \subseteq Keys /\ IsFiniteSet(PassedBy(c)) /\ Cardinality(PassedBy(c)) \in Nat
            /\ Cardinality(PassedBy(c)) =< Cardinality(Keys)
<1>1. IsFiniteSet(1..2) /\ IsFiniteSet(Group)
  <2>1. 1 \in Int /\ 2 \in Int
    OBVIOUS
  <2> QED BY <2>1, FS_Interval, PagingAssumption
<1>2. IsFiniteSet(Doc)
  <2>1. PICK pair : pair = 1..2
    OBVIOUS
  <2>2. IsFiniteSet(Group \X pair)
    BY <1>1, <2>1, FS_Product
  <2> QED BY <2>1, <2>2 DEF Doc
<1>3. IsFiniteSet(Keys)
  BY <1>2, PagingAssumption DEF Keys
<1>4. \A c : PassedBy(c) \in SUBSET Keys
  BY DEF PassedBy
<1> QED BY <1>3, <1>4, FS_Subset, FS_CardinalityType

\* The list, what it is asked for and its sort values do not change during a walk.
LEMMA SameScope ==
  ASSUME UNCHANGED scope
  PROVE  /\ Keys' = Keys /\ Items' = Items /\ Cursors' = Cursors /\ LastCursor' = LastCursor /\ Tied' = Tied
         /\ \A a : Key(a)' = Key(a)
         /\ \A c : PassedBy(c)' = PassedBy(c)
<1>1. kind' = kind /\ at' = at /\ joined' = joined /\ asked' = asked
  BY DEF scope
<1>2. Keys' = Keys
  BY <1>1 DEF Keys
<1>3. Items' = Items /\ Cursors' = Cursors /\ LastCursor' = LastCursor
  BY <1>1 DEF Items, Cursors, LastCursor
<1>4. \A a : Key(a)' = Key(a)
  BY <1>1 DEF Key
<1>5. \A c : PassedBy(c)' = PassedBy(c)
  BY <1>1, <1>2 DEF PassedBy, HitOf
<1>6. Tied' = Tied
  BY <1>1 DEF Tied
<1> QED BY <1>2, <1>3, <1>4, <1>5, <1>6

\* The keys of what a page shows.
LEMMA KeyIsKey == \A a \in Items : Key(a) \in Keys
BY DEF Items, Key, Keys, Doc

\* A page shows rows of the table.
LEMMA ListedIsKeys == WalkTypes => Listed \subseteq Keys
<1>1. SUFFICES ASSUME WalkTypes PROVE Listed \subseteq Keys
  OBVIOUS
<1>2. \A i \in DOMAIN pages : pages[i] \subseteq Items
  BY <1>1 DEF WalkTypes
<1> QED BY <1>2, KeyIsKey DEF Listed, Page

\* Before the first page nothing is behind the cursor.
LEMMA InitWalk == WalkInit => WalkInv
<1>1. SUFFICES ASSUME WalkInit PROVE WalkInv
  OBVIOUS
<1>2. /\ kind \in Kind /\ cursor = LastCursor /\ done = FALSE /\ pages = <<>> /\ changes = 0
      /\ stayed = InTheList /\ DOMAIN state = Keys
      /\ Cardinality({k \in Keys : state[k] = "pinned"}) =< 1
      /\ kind = "search" => at \in [Doc -> Time] /\ asked \in Group \union {0}
  BY <1>1 DEF WalkInit, LastCursor, InTheList
<1>3. kind \in Kinds
  BY <1>2, PagingAssumption
<1>4. pages \in Seq(SUBSET Items) /\ Len(pages) = 0 /\ DOMAIN pages = {}
  BY <1>2
<1>5. cursor \in Cursors
  BY <1>2 DEF Cursors, LastCursor, NoCursor
<1>6. WalkTypes
  <2>1. done \in BOOLEAN /\ stayed \subseteq InTheList
    BY <1>2
  <2>2. changes \in 0..MaxChanges
    BY <1>2, PagingAssumption
  <2> QED BY <1>2, <1>3, <1>4, <1>5, <2>1, <2>2 DEF WalkTypes
<1>7. Passed = {}
  <2>1. ASSUME NEW k \in Keys, kind # "search" PROVE k > 0 /\ k \in Nat
    <3>1. k \in Id
      BY <2>1 DEF Keys
    <3> QED BY <3>1, PagingAssumption
  <2> QED BY <1>2, <2>1 DEF Passed, PassedBy, LastCursor, Ascending
<1>8. OnePinned
  <2>1. SUFFICES ASSUME NEW k \in Keys, NEW q \in Keys, state[k] = "pinned", state[q] = "pinned", k # q
                 PROVE  FALSE
    BY DEF OnePinned
  <2>2. PICK P : P = {r \in Keys : state[r] = "pinned"}
    OBVIOUS
  <2>3. P \in SUBSET Keys /\ IsFiniteSet(P) /\ Cardinality(P) \in Nat /\ Cardinality(P) =< 1
    BY <2>2, <1>2, KeysFinite, FS_Subset, FS_CardinalityType
  <2>4. k \in P /\ q \in P
    BY <2>1, <2>2
  <2>5. Cardinality(P) # 0 /\ Cardinality(P) # 1
    <3>1. Cardinality(P) # 0
      BY <2>3, <2>4, FS_EmptySet
    <3>2. ASSUME NEW r, P = {r} PROVE FALSE
      BY <3>2, <2>1, <2>4
    <3> QED BY <3>1, <3>2, <2>3, FS_Singleton
  <2> QED BY <2>3, <2>5
<1>9. ShownIsPassed /\ NothingTwice
  BY <1>4 DEF ShownIsPassed, NothingTwice
<1>10. Cardinality({}) = 0
  BY FS_EmptySet
<1>11. NoneLost
  BY <1>7 DEF NoneLost
<1>12. FewLost
  <2>1. (stayed \intersect Passed) \ Listed = {}
    BY <1>7
  <2>2. Cardinality((stayed \intersect Passed) \ Listed) = 0
    BY <2>1, <1>10
  <2> QED BY <2>2, <1>4 DEF FewLost
<1>13. FullPages
  <2>1. DryPage \in {0, 1} /\ PageLimit \in Nat
    BY PagingAssumption DEF DryPage
  <2>2. (0 - 0 - DryPage) * PageLimit =< 0
    <3>1. 0 * PageLimit = 0 /\ (0 - 0 - DryPage) \in Int /\ (0 - 0 - DryPage) =< 0
      BY <2>1
    <3> QED BY <2>1, <3>1, TimesMonotone
  <2> QED BY <2>2, <1>2, <1>4, <1>7, <1>10 DEF FullPages
<1> QED BY <1>2, <1>6, <1>8, <1>9, <1>11, <1>12, <1>13 DEF WalkInv, Underway

\* A change of the table moves no row over the cursor: what was in the list all
\* the time is where it was.  It may be what makes the next page the last.
LEMMA ChangeWalk ==
  ASSUME WalkInv, NEW k \in Keys, NEW s, Change(k, s)
  PROVE  WalkInv'
<1>1. /\ WalkTypes /\ OnePinned /\ NothingTwice /\ Underway /\ done = FALSE
      /\ UNCHANGED <<scope, cursor, done, pages>>
      /\ changes < MaxChanges /\ changes' = changes + 1
      /\ state' = [q \in Keys |-> IF q = k THEN s ELSE IF s = "pinned" /\ state[q] = "pinned" THEN "normal" ELSE state[q]]
      /\ stayed' = {q \in stayed : InList(q)'}
  BY DEF WalkInv, Change, WalkTypes
<1>2. /\ Keys' = Keys /\ Items' = Items /\ Cursors' = Cursors /\ Tied' = Tied
      /\ \A a : Key(a)' = Key(a)
      /\ \A c : PassedBy(c)' = PassedBy(c)
  BY <1>1, SameScope
<1>3. /\ kind' = kind /\ at' = at /\ asked' = asked /\ cursor' = cursor /\ pages' = pages /\ done' = FALSE
      /\ Passed' = Passed
  BY <1>1, <1>2 DEF scope, Passed
<1>4. stayed' \subseteq stayed /\ stayed \subseteq Keys /\ stayed' \subseteq InTheList'
  BY <1>1, <1>2 DEF WalkTypes, InTheList
<1>5. changes' \in 0..MaxChanges /\ changes \in Nat /\ changes' \in Nat
  BY <1>1, PagingAssumption DEF WalkTypes
<1>6. WalkTypes'
  BY <1>1, <1>2, <1>3, <1>4, <1>5 DEF WalkTypes
<1>7. OnePinned'
  BY <1>1, <1>2 DEF OnePinned
<1>8. Listed' = Listed
  BY <1>2, <1>3 DEF Listed, Page
<1>9. NothingTwice' /\ ShownIsPassed'
  BY <1>1, <1>2, <1>3 DEF NothingTwice, ShownIsPassed, Underway
<1>10. NoneLost'
  BY <1>1, <1>2, <1>3, <1>4, <1>8 DEF NoneLost, Underway
<1>11. PICK n \in Nat : n = Len(pages)
  BY <1>1 DEF WalkTypes
<1>12. FewLost'
  <2>1. PICK M : M = (stayed \intersect Passed) \ Listed
    OBVIOUS
  <2>2. PICK N : N = (stayed' \intersect Passed) \ Listed
    OBVIOUS
  <2>3. N \in SUBSET M /\ M \in SUBSET Keys
    BY <2>1, <2>2, <1>4
  <2>4. IsFiniteSet(M) /\ Cardinality(N) =< Cardinality(M) /\ Cardinality(N) \in Nat /\ Cardinality(M) \in Nat
    BY <2>3, KeysFinite, FS_Subset, FS_CardinalityType
  <2>5. kind \in Lossy => Cardinality(M) =< n
    BY <2>1, <1>1, <1>11 DEF FewLost, Underway
  <2>6. kind \in Lossy => Cardinality(N) =< n
    BY <2>4, <2>5
  <2> QED BY <2>2, <2>6, <1>3, <1>8, <1>11 DEF FewLost, Lossy
<1>13. FullPages'
  <2>1. PICK d \in {0, 1} : d = DryPage
    BY DEF DryPage
  <2>2. PICK e \in {0, 1} : e = DryPage'
    BY DEF DryPage
  <2>3. PageLimit \in Nat
    BY PagingAssumption
  <2>4. (n - changes - d) * PageLimit =< Cardinality(Passed)
    BY <2>1, <1>1, <1>11 DEF Underway, FullPages
  <2>5. n \in Int /\ changes \in Int /\ changes' \in Int /\ d \in Int /\ e \in Int
    BY <1>5
  <2>6. PICK b \in Int : b = n - changes - d
    BY <2>5
  <2>7. n - changes' - e \in Int
    BY <2>5
  <2>8. PICK a \in Int : a = n - changes' - e
    BY <2>7
  <2>9. a =< b
    BY <2>6, <2>8, <1>1, <1>5
  <2>10. a * PageLimit =< b * PageLimit /\ a * PageLimit \in Int /\ b * PageLimit \in Int
    BY <2>3, <2>9, TimesMonotone
  <2>11. Cardinality(Passed) \in Nat
    BY KeysFinite DEF Passed
  <2>12. a * PageLimit =< Cardinality(Passed)
    BY <2>4, <2>6, <2>10, <2>11
  <2> QED BY <2>2, <2>8, <2>12, <1>3, <1>11 DEF FullPages
<1> QED BY <1>3, <1>6, <1>7, <1>9, <1>10, <1>12, <1>13 DEF WalkInv, Underway

\* A page is shown: what it gives is enough for the invariant.
LEMMA ShowWalk ==
  ASSUME WalkInv, NEW p, PageOfLeft(p), Show(p, LastCursor)
  PROVE  WalkInv'
<1>1. /\ WalkTypes /\ OnePinned /\ NothingTwice /\ Underway
      /\ pages' = Append(pages, p.items) /\ cursor' = p.next /\ done' = (p.next = LastCursor)
      /\ UNCHANGED <<scope, state, stayed, changes>>
  BY DEF WalkInv, Show, WalkTypes
<1>2. /\ Keys' = Keys /\ Items' = Items /\ Cursors' = Cursors /\ Tied' = Tied
      /\ \A a : Key(a)' = Key(a)
      /\ \A c : PassedBy(c)' = PassedBy(c)
  BY <1>1, SameScope
<1>3. /\ kind' = kind /\ at' = at /\ joined' = joined /\ asked' = asked /\ state' = state /\ stayed' = stayed /\ changes' = changes
      /\ Passed' = PassedBy(p.next)
  BY <1>1, <1>2 DEF scope, Passed
<1>4. InTheList' = InTheList /\ OnePinned'
  BY <1>1, <1>2, <1>3 DEF InTheList, InList, OnePinned
<1>5. PICK n \in Nat : n = Len(pages)
  BY <1>1 DEF WalkTypes
<1>6. /\ pages \in Seq(SUBSET Items) /\ DOMAIN pages = 1..n /\ p.items \in SUBSET Items
      /\ \A i \in 1..n : pages[i] \subseteq Items
  BY <1>1, <1>5 DEF WalkTypes, PageOfLeft
<1>7. /\ pages' \in Seq(SUBSET Items) /\ Len(pages') = n + 1 /\ DOMAIN pages' = 1..n + 1
      /\ pages'[n + 1] = p.items
      /\ \A i \in 1..n : pages'[i] = pages[i]
  BY <1>1, <1>5, <1>6
<1>8. Listed' = Listed \union KeysOf(p)
  <2>1. \A i \in 1..n : Page(i)' = Page(i)
    BY <1>2, <1>7 DEF Page
  <2>2. Page(n + 1)' = KeysOf(p)
    BY <1>2, <1>7 DEF Page, KeysOf
  <2>3. Listed' = UNION {Page(i)' : i \in 1..n + 1}
    BY <1>7 DEF Listed
  <2>4. Listed = UNION {Page(i) : i \in 1..n}
    BY <1>6 DEF Listed
  <2>5. \A i : i \in 1..n + 1 <=> i \in 1..n \/ i = n + 1
    OBVIOUS
  <2> QED BY <2>1, <2>2, <2>3, <2>4, <2>5
<1>9. WalkTypes'
  <2>1. done' \in BOOLEAN
    BY <1>1
  <2>2. cursor' \in Cursors'
    BY <1>1, <1>2 DEF PageOfLeft
  <2> QED BY <2>1, <2>2, <1>1, <1>2, <1>3, <1>4, <1>7 DEF WalkTypes
<1>10. \A a \in p.items : Key(a) \in Left
  BY DEF PageOfLeft, KeysOf
<1>11. NothingTwice'
  <2>1. SUFFICES ASSUME NEW i \in 1..n + 1, NEW j \in 1..n + 1, i < j,
                        NEW a \in pages'[i], NEW b \in pages'[j], Key(a) = Key(b)
                 PROVE  kind = "announcements" /\ a.pinned
    BY <1>2, <1>3, <1>7 DEF NothingTwice
  <2>2. i \in 1..n /\ a \in pages[i]
    BY <2>1, <1>7
  <2>3. CASE j \in 1..n
    BY <2>1, <2>2, <2>3, <1>1, <1>6, <1>7 DEF NothingTwice
  <2>4. CASE j = n + 1
    <3>1. Key(b) \in Left
      BY <2>1, <2>4, <1>7, <1>10
    <3>2. Key(a) \notin Passed
      BY <2>1, <3>1 DEF Left
    <3> QED BY <2>2, <3>2, <1>1, <1>6 DEF Underway, ShownIsPassed
  <2> QED BY <2>3, <2>4
<1>12. PICK lost : lost = (stayed \intersect Passed) \ Listed
  OBVIOUS
<1>13. IsFiniteSet(lost) /\ Cardinality(lost) \in Nat /\ (kind \in Lossy => Cardinality(lost) =< n)
  <2>1. lost \in SUBSET Keys
    BY <1>12, KeysFinite DEF Passed
  <2> QED BY <2>1, <1>1, <1>5, <1>12, KeysFinite, FS_Subset, FS_CardinalityType DEF Underway, FewLost
<1>14. stayed \subseteq InTheList
  BY <1>1 DEF WalkTypes
<1>15. /\ PageLimit \in Nat /\ changes \in Nat /\ Cardinality(Keys) \in Nat
       /\ Cardinality(Passed) \in Nat /\ Cardinality(Passed) =< Cardinality(Keys)
       /\ Cardinality(PassedBy(p.next)) \in Nat
  BY <1>1, KeysFinite, PagingAssumption DEF Passed, WalkTypes
<1>16. PICK d \in {0, 1} : d = DryPage
  BY DEF DryPage
<1>17. (n - changes - d) * PageLimit =< Cardinality(Passed)
  BY <1>1, <1>5, <1>16 DEF Underway, FullPages
<1>18. CASE p.next = LastCursor
  <2>1. done' = TRUE /\ KeysOf(p) = Left
    BY <1>1, <1>18 DEF PageOfLeft, GivesAll
  <2>2. kind \notin Lossy /\ ~Tied => stayed \subseteq Listed'
    BY <2>1, <1>1, <1>8, <1>14 DEF Underway, NoneLost, Left
  <2>3. kind \in Lossy => Cardinality(stayed \ Listed') =< n
    <3>1. PICK N : N = stayed \ Listed'
      OBVIOUS
    <3>2. N \in SUBSET lost
      BY <3>1, <2>1, <1>8, <1>12, <1>14 DEF Left
    <3>3. Cardinality(N) \in Nat /\ Cardinality(N) =< Cardinality(lost)
      BY <3>2, <1>13, FS_Subset, FS_CardinalityType
    <3>4. kind \in Lossy => Cardinality(N) =< n
      BY <3>3, <1>13
    <3> QED BY <3>1, <3>4
  <2>4. (n + 1 - 2 - changes) * PageLimit =< Cardinality(Keys)
    <3>1. n \in Int /\ changes \in Int /\ d \in Int
      BY <1>15, <1>16
    <3>2. PICK b \in Int : b = n - changes - d
      BY <3>1
    <3>3. PICK a \in Int : a = n + 1 - 2 - changes
      BY <3>1
    <3>4. a =< b
      BY <3>1, <3>2, <3>3, <1>16
    <3>5. a * PageLimit =< b * PageLimit /\ a * PageLimit \in Int /\ b * PageLimit \in Int
      BY <3>4, <1>15, TimesMonotone
    <3>6. a * PageLimit =< Cardinality(Keys)
      BY <3>2, <3>5, <1>15, <1>17
    <3> QED BY <3>3, <3>6
  <2>5. Through'
    <3>1. (Len(pages') - 2 - changes') * PageLimit =< Cardinality(Keys')
      <4>1. Len(pages') - 2 - changes' = n + 1 - 2 - changes
        <5>1. Len(pages') = n + 1 /\ Len(pages') \in Int
          BY <1>7
        <5>2. changes' = changes /\ changes \in Int
          BY <1>3, <1>15
        <5> QED BY <5>1, <5>2
      <4> QED BY <4>1, <2>4, <1>2
    <3>2. kind' \in Lossy => Cardinality(stayed' \ Listed') =< Len(pages') - 1
      BY <2>3, <1>3, <1>7
    <3> QED BY <3>1, <3>2, <2>2, <1>2, <1>3 DEF Through, Lossy
  <2> QED BY <2>1, <2>5, <1>4, <1>9, <1>11 DEF WalkInv
<1>19. CASE p.next # LastCursor
  <2>1. /\ done' = FALSE /\ p.items # {} /\ Passed \subseteq PassedBy(p.next)
        /\ \A a \in p.items : Key(a) \in PassedBy(p.next) \/ (kind = "announcements" /\ a.pinned)
        /\ kind \notin Lossy /\ ~Tied => Left \intersect PassedBy(p.next) \subseteq KeysOf(p)
        /\ kind \in Lossy => \E k : Left \intersect PassedBy(p.next) \subseteq KeysOf(p) \union {k}
        /\ \/ Cardinality(Passed) + PageLimit =< Cardinality(PassedBy(p.next))
           \/ kind = "messages" /\ Left \subseteq PassedBy(p.next)
    BY <1>1, <1>19 DEF PageOfLeft, GivesPage
  <2>2. ShownIsPassed'
    <3>1. SUFFICES ASSUME NEW i \in 1..n + 1, NEW a \in pages'[i]
                   PROVE  Key(a) \in PassedBy(p.next) \/ (kind = "announcements" /\ a.pinned)
      BY <1>2, <1>3, <1>7 DEF ShownIsPassed
    <3>2. CASE i \in 1..n
      BY <3>1, <3>2, <2>1, <1>1, <1>6, <1>7 DEF Underway, ShownIsPassed
    <3>3. CASE i = n + 1
      BY <3>1, <3>3, <2>1, <1>7
    <3> QED BY <3>2, <3>3
  <2>3. \A k \in stayed \intersect PassedBy(p.next) : k \in stayed \intersect Passed \/ k \in Left \intersect PassedBy(p.next)
    BY <1>14 DEF Left
  <2>4. NoneLost'
    <3>1. kind \notin Lossy /\ ~Tied => stayed \intersect PassedBy(p.next) \subseteq Listed \union KeysOf(p)
      BY <2>1, <2>3, <1>1 DEF Underway, NoneLost
    <3> QED BY <3>1, <1>2, <1>3, <1>8 DEF NoneLost, Lossy
  <2>5. FewLost'
    <3>1. SUFFICES ASSUME kind \in Lossy PROVE Cardinality((stayed \intersect PassedBy(p.next)) \ Listed') =< n + 1
      BY <1>2, <1>3, <1>7 DEF FewLost, Lossy
    <3>2. PICK k : Left \intersect PassedBy(p.next) \subseteq KeysOf(p) \union {k}
      BY <2>1, <3>1
    <3>3. PICK N : N = (stayed \intersect PassedBy(p.next)) \ Listed'
      OBVIOUS
    <3>4. N \in SUBSET (lost \union {k})
      BY <2>3, <3>2, <3>3, <1>8, <1>12
    <3>5. IsFiniteSet(lost \union {k}) /\ Cardinality(lost \union {k}) =< n + 1
      <4>1. IsFiniteSet(lost \union {k}) /\ Cardinality(lost \union {k}) = IF k \in lost THEN Cardinality(lost) ELSE Cardinality(lost) + 1
        BY <1>13, FS_AddElement
      <4>2. Cardinality(lost) =< n
        BY <3>1, <1>13
      <4> QED BY <4>1, <4>2, <1>13
    <3>6. PICK M : M = lost \union {k}
      OBVIOUS
    <3>7. Cardinality(N) =< Cardinality(M) /\ Cardinality(M) =< n + 1 /\ Cardinality(M) \in Nat /\ Cardinality(N) \in Nat
      BY <3>4, <3>5, <3>6, FS_Subset, FS_CardinalityType
    <3>8. Cardinality(N) =< n + 1
      BY <3>7
    <3> QED BY <3>3, <3>8
  <2>6. FullPages'
    <3>1. PICK e \in {0, 1} : e = DryPage'
      BY DEF DryPage
    <3>2. SUFFICES (n + 1 - changes - e) * PageLimit =< Cardinality(PassedBy(p.next))
      <4>1. Len(pages') - changes' - DryPage' = n + 1 - changes - e
        <5>1. Len(pages') = n + 1 /\ Len(pages') \in Int
          BY <1>7
        <5>2. changes' = changes /\ changes \in Int
          BY <1>3, <1>15
        <5>3. DryPage' = e /\ e \in Int
          BY <3>1
        <5> QED BY <5>1, <5>2, <5>3
      <4> QED BY <4>1, <1>3 DEF FullPages
    <3>3. n \in Int /\ changes \in Int /\ e \in Int /\ d = 0
      <4>1. Left # {}
        BY <2>1, <1>10
      <4> QED BY <4>1, <1>15, <1>16, <3>1 DEF DryPage
    <3>4. PICK b \in Int : b = n - changes
      BY <3>3
    <3>5. PICK a \in Int : a = n + 1 - changes - e
      BY <3>3
    <3>6. b * PageLimit \in Int /\ b * PageLimit =< Cardinality(Passed)
      <4>1. n - changes - d = b
        BY <3>3, <3>4
      <4> QED BY <4>1, <1>15, <1>17
    <3>7. CASE kind = "messages" /\ Left \subseteq PassedBy(p.next)
      <4>1. Left' = {}
        <5>1. Left' = InTheList \ PassedBy(p.next)
          BY <1>3, <1>4 DEF Left
        <5>2. InTheList \subseteq Left \union Passed
          BY DEF Left
        <5> QED BY <5>1, <5>2, <3>7, <2>1
      <4>2. e = 1
        BY <4>1, <3>1, <3>7, <1>3 DEF DryPage
      <4>3. a = b
        BY <4>2, <3>3, <3>4, <3>5
      <4>4. Cardinality(Passed) =< Cardinality(PassedBy(p.next))
        BY <2>1, KeysFinite, FS_Subset
      <4>5. b * PageLimit =< Cardinality(PassedBy(p.next))
        BY <4>4, <3>6, <1>15
      <4> QED BY <4>3, <4>5, <3>5
    <3>8. CASE Cardinality(Passed) + PageLimit =< Cardinality(PassedBy(p.next))
      <4>1. PICK c \in Int : c = b + 1
        BY <3>4
      <4>2. a =< c
        <5>1. a = c - e
          BY <4>1, <3>3, <3>4, <3>5
        <5>2. e \in Int /\ c \in Int /\ e >= 0
          BY <3>1, <4>1
        <5> QED BY ONLY <5>1, <5>2
      <4>3. a * PageLimit =< c * PageLimit /\ a * PageLimit \in Int /\ c * PageLimit \in Int
        BY <4>2, <1>15, TimesMonotone
      <4>4. c * PageLimit = b * PageLimit + PageLimit
        BY <4>1, <1>15
      <4>5. a * PageLimit =< Cardinality(PassedBy(p.next))
        BY <4>3, <4>4, <3>6, <3>8, <1>15
      <4> QED BY <4>5, <3>5
    <3> QED BY <3>7, <3>8, <2>1
  <2> QED BY <2>1, <2>2, <2>4, <2>5, <2>6, <1>9, <1>4, <1>11 DEF WalkInv, Underway
<1> QED BY <1>18, <1>19

\* What is taken was not behind the cursor before, and is now.
LEMMA GrowsBy ==
  ASSUME NEW Q, IsFiniteSet(Q), NEW P \in SUBSET Q, NEW T \in SUBSET Q, P \intersect T = {},
         NEW n \in Nat, n =< Cardinality(T)
  PROVE  Cardinality(P) + n =< Cardinality(Q)
<1>1. IsFiniteSet(P) /\ IsFiniteSet(T) /\ Cardinality(P) \in Nat /\ Cardinality(T) \in Nat /\ Cardinality(Q) \in Nat
  BY FS_Subset, FS_CardinalityType
<1>2. PICK U : U = P \union T
  OBVIOUS
<1>3. Cardinality(P \intersect T) = 0
  BY FS_EmptySet
<1>4. Cardinality(U) = Cardinality(P) + Cardinality(T)
  <2>1. Cardinality(P \union T) = Cardinality(P) + Cardinality(T) - Cardinality(P \intersect T)
    BY <1>1, FS_Union
  <2> QED BY <2>1, <1>1, <1>2, <1>3
<1>5. U \in SUBSET Q
  BY <1>2
<1>6. Cardinality(U) =< Cardinality(Q)
  BY <1>5, FS_Subset
<1> QED BY <1>1, <1>4, <1>6

\* Rows and what they are called.
LEMMA SameNumber ==
  ASSUME NEW T, IsFiniteSet(T), NEW U, NEW f \in [T -> U],
         \A a, b \in T : f[a] = f[b] => a = b, \A u \in U : \E a \in T : f[a] = u
  PROVE  IsFiniteSet(U) /\ Cardinality(U) = Cardinality(T)
<1>1. DOMAIN f = T
  OBVIOUS
<1>2. f \in Surjection(T, U)
  BY DEF Surjection
<1>3. f \in Injection(T, U)
  <2>1. IsInjective(f)
    BY <1>1 DEF IsInjective
  <2> QED BY <2>1 DEF Injection
<1> QED BY <1>2, <1>3, FS_Surjection

\* What is left is finite, and not behind the cursor.
LEMMA LeftFacts ==
  ASSUME WalkTypes
  PROVE  /\ Left \subseteq InTheList /\ Left \subseteq Keys /\ IsFiniteSet(Left) /\ Left \intersect Passed = {}
         /\ PageLimit \in Nat \ {0}
         /\ kind # "search" => Keys = Id /\ Left \in SUBSET Nat /\ cursor \in Nat /\ LastCursor = 0 /\ \A k \in Id : k \in Nat \ {0}
<1>1. Left \in SUBSET Keys /\ Left \subseteq InTheList /\ Left \intersect Passed = {}
  BY DEF Left, InTheList
<1>2. IsFiniteSet(Left)
  BY <1>1, KeysFinite, FS_Subset
<1>3. ASSUME kind # "search"
      PROVE  Keys = Id /\ Left \in SUBSET Nat /\ cursor \in Nat /\ LastCursor = 0 /\ \A k \in Id : k \in Nat \ {0}
  <2>1. Keys = Id /\ cursor \in Nat /\ LastCursor = 0
    BY <1>3 DEF Keys, Cursors, LastCursor, WalkTypes
  <2> QED BY <2>1, <1>1, PagingAssumption
<1> QED BY <1>1, <1>2, <1>3, PagingAssumption

\* ORDER BY id: a page of what is left, with either of the two cursors.
LEMMA AscendingGives ==
  ASSUME WalkTypes, kind \in Ascending, NEW p, p.items = Taken(Left, PageLimit),
         p.next = IF kind = "fanout" THEN NextOfTaken(Left, PageLimit) ELSE NextOfLeftOut(Left, PageLimit)
  PROVE  PageOfLeft(p)
<1>1. kind # "search" /\ kind \notin {"announcements", "messages", "search"}
  BY DEF Ascending
<1>2. /\ Left \subseteq InTheList /\ IsFiniteSet(Left) /\ Left \intersect Passed = {} /\ PageLimit \in Nat \ {0}
      /\ Keys = Id /\ Left \in SUBSET Nat /\ Left \subseteq Id /\ cursor \in Nat /\ LastCursor = 0 /\ \A k \in Id : k \in Nat \ {0}
  BY <1>1, LeftFacts
<1>3. PICK T : T = Taken(Left, PageLimit)
  OBVIOUS
<1>4. /\ T \subseteq Left /\ IsFiniteSet(T) /\ Cardinality(T) \in Nat
      /\ Extra(Left, PageLimit) = {} => T = Left
      /\ Extra(Left, PageLimit) # {} =>
           /\ Cardinality(T) = PageLimit
           /\ NextOfLeftOut(Left, PageLimit) \in Left /\ NextOfTaken(Left, PageLimit) \in T
           /\ \A s \in Left : s \in T <=> s < NextOfLeftOut(Left, PageLimit)
           /\ \A s \in Left : s \in T <=> s =< NextOfTaken(Left, PageLimit)
  <2>1. FirstRows(Left, PageLimit, T)
    BY <1>2, <1>3, AscendingPage
  <2> QED BY <2>1 DEF FirstRows
<1>5. KeysOf(p) = T /\ \A a : Key(a) = a
  <2>1. \A a : Key(a) = a
    BY <1>1 DEF Key
  <2> QED BY <2>1, <1>3 DEF KeysOf
<1>6. Items = Id /\ Cursors = Nat
  BY <1>1 DEF Items, Cursors
<1>7. \A c \in Nat : PassedBy(c) = {k \in Id : k =< c}
  BY <1>1, <1>2 DEF PassedBy
<1>8. \A k \in Left : k > cursor
  BY <1>2, <1>7 DEF Passed
<1>9. CASE Extra(Left, PageLimit) = {}
  <2>1. p.next = 0
    BY <1>9 DEF NextOfTaken, NextOfLeftOut
  <2>2. T = Left
    BY <1>4, <1>9
  <2>3. p.items \subseteq Items /\ p.next \in Cursors
    <3>1. p.items = T /\ Left \subseteq Id
      BY <1>2, <1>3
    <3>2. p.next \in Nat
      BY <2>1
    <3> QED BY <3>1, <3>2, <2>2, <1>6
  <2>4. KeysOf(p) = Left
    BY <2>2, <1>5
  <2> QED BY <2>1, <2>3, <2>4, <1>2 DEF PageOfLeft, GivesAll, GivesPage
<1>10. CASE Extra(Left, PageLimit) # {}
  <2>1. /\ Cardinality(T) = PageLimit /\ p.next \in Left
        /\ \A s \in T : s =< p.next
        /\ kind = "fanout" => \A s \in Left : s =< p.next => s \in T
        /\ \A s \in Left : s =< p.next => s \in T \/ s = p.next
    <3>1. CASE kind = "fanout"
      BY <3>1, <1>4, <1>10
    <3>2. CASE kind # "fanout"
      <4>1. p.next = NextOfLeftOut(Left, PageLimit) /\ p.next \in Left
        BY <3>2, <1>4, <1>10
      <4>2. \A s \in Left : s \in T <=> s < p.next
        BY <4>1, <1>4, <1>10
      <4>3. \A s \in Left : s \in Nat
        BY <1>2
      <4> QED BY <3>2, <4>1, <4>2, <4>3, <1>4, <1>10
    <3> QED BY <3>1, <3>2
  <2>2. p.next \in Nat \ {0} /\ p.next > cursor /\ p.next # LastCursor
    BY <2>1, <1>2, <1>8
  <2>3. PassedBy(p.next) = {k \in Id : k =< p.next} /\ Passed = {k \in Id : k =< cursor}
    BY <2>2, <1>2, <1>7 DEF Passed
  <2>4. Passed \subseteq PassedBy(p.next)
    <3>1. SUFFICES ASSUME NEW k \in Id, k =< cursor PROVE k =< p.next
      BY <2>3
    <3>2. k \in Nat /\ cursor \in Nat /\ p.next \in Nat /\ p.next > cursor
      BY <2>2, <1>2
    <3> QED BY <3>1, <3>2
  <2>5. T \subseteq PassedBy(p.next)
    BY <2>1, <2>3, <1>2, <1>4
  <2>6. Cardinality(Passed) + PageLimit =< Cardinality(PassedBy(p.next))
    <3>1. PICK Q : Q = PassedBy(p.next)
      OBVIOUS
    <3>2. PICK P : P = Passed
      OBVIOUS
    <3>3. IsFiniteSet(Q) /\ P \in SUBSET Q /\ T \in SUBSET Q /\ P \intersect T = {} /\ PageLimit \in Nat /\ PageLimit =< Cardinality(T)
      BY <3>1, <3>2, <2>1, <2>4, <2>5, <1>2, <1>4, KeysFinite
    <3> QED BY <3>1, <3>2, <3>3, GrowsBy
  <2>7. p.items # {}
    <3>1. Cardinality(T) # 0
      BY <2>1, <1>2
    <3> QED BY <3>1, <1>3, FS_EmptySet
  <2>8. kind = "fanout" => Left \intersect PassedBy(p.next) \subseteq KeysOf(p)
    BY <2>1, <2>3, <1>5
  <2>9. Left \intersect PassedBy(p.next) \subseteq KeysOf(p) \union {p.next}
    BY <2>1, <2>3, <1>5
  <2>10. kind \notin Lossy => kind = "fanout"
    BY DEF Ascending, Lossy
  <2>11. \A a \in p.items : Key(a) \in PassedBy(p.next)
    BY <2>5, <1>3, <1>5
  <2>12. GivesPage(p)
    BY <2>4, <2>6, <2>7, <2>8, <2>9, <2>10, <2>11 DEF GivesPage
  <2> QED BY <2>2, <2>12, <1>2, <1>3, <1>4, <1>5, <1>6 DEF PageOfLeft, GivesAll
<1> QED BY <1>9, <1>10

\* The list of announcements: the pinned one is on the page, behind the new
\* cursor or not.
LEMMA AnnouncementsGive ==
  ASSUME WalkTypes, OnePinned, kind = "announcements", NEW rows,
         rows = {[id |-> k, pinned |-> state[k] = "pinned"] : k \in InTheList},
         NEW p, p = ListAnnouncements(rows, cursor, PageLimit)
  PROVE  PageOfLeft(p)
<1>1. /\ Left \subseteq InTheList /\ IsFiniteSet(Left) /\ Left \intersect Passed = {} /\ PageLimit \in Nat \ {0}
      /\ Keys = Id /\ Left \in SUBSET Nat /\ Left \subseteq Id /\ cursor \in Nat /\ LastCursor = 0 /\ \A k \in Id : k \in Nat \ {0}
  BY LeftFacts
<1>2. \A a \in rows : a.id \in InTheList /\ a = [id |-> a.id, pinned |-> state[a.id] = "pinned"] /\ a.pinned \in BOOLEAN
  <2>1. SUFFICES ASSUME NEW k \in InTheList, NEW a, a = [id |-> k, pinned |-> state[k] = "pinned"]
                 PROVE  a.id \in InTheList /\ a = [id |-> a.id, pinned |-> state[a.id] = "pinned"] /\ a.pinned \in BOOLEAN
    OBVIOUS
  <2>2. a.id = k
    BY <2>1
  <2> QED BY <2>1, <2>2
<1>3. InTheList \subseteq Id
  BY <1>1 DEF InTheList
<1>4. rows \in SUBSET [id : Id, pinned : BOOLEAN] /\ rows \in SUBSET [id : Nat \ {0}, pinned : BOOLEAN]
  BY <1>1, <1>2, <1>3
<1>5. \A a, b \in rows : a.id = b.id => a = b
  BY <1>2
<1>6. \A a, b \in rows : a.pinned /\ b.pinned => a = b
  <2>1. SUFFICES ASSUME NEW a \in rows, NEW b \in rows, a.pinned, b.pinned PROVE a.id = b.id
    BY <1>5
  <2>2. state[a.id] = "pinned" /\ state[b.id] = "pinned" /\ a.id \in Keys /\ b.id \in Keys
    BY <2>1, <1>1, <1>2, <1>3
  <2> QED BY <2>2 DEF OnePinned
<1>7. IsFiniteSet(rows)
  <2>1. PICK f : f = [a \in rows |-> a.id]
    OBVIOUS
  <2>2. f \in [rows -> Id] /\ DOMAIN f = rows /\ \A a, b \in rows : f[a] = f[b] => a = b
    BY <2>1, <1>2, <1>3, <1>5
  <2>3. f \in Injection(rows, Id)
    BY <2>2 DEF Injection, IsInjective
  <2> QED BY <2>3, FS_Injection, PagingAssumption
<1>8. PICK S : S = StillBelow(rows, cursor) /\ S = {a \in rows : cursor > 0 => a.id < cursor}
  BY DEF StillBelow
<1>9. PICK T : T = p.items
  OBVIOUS
<1>10. /\ T \subseteq S /\ IsFiniteSet(T) /\ Cardinality(T) \in Nat
       /\ p.next = 0 => T = S
       /\ p.next # 0 =>
            /\ Cardinality(T) = PageLimit
            /\ \E x \in S : /\ x.id = p.next /\ ~x.pinned
                            /\ \A a \in S : a \in T <=> a.pinned \/ a.id > x.id
  <2>1. PinnedFirst(S, PageLimit, p)
    BY <1>1, <1>4, <1>5, <1>6, <1>7, <1>8, AnnouncementPage
  <2> QED BY <2>1, <1>9 DEF PinnedFirst
<1>11. S \subseteq rows
  BY <1>8
<1>12. \A a : Key(a) = a.id
  BY DEF Key
<1>13. \A c \in Nat : PassedBy(c) = {k \in Id : c > 0 /\ c =< k}
  BY <1>1 DEF PassedBy, Ascending
<1>14. \A a \in rows : a \in S <=> a.id \in Left
  <2>1. SUFFICES ASSUME NEW a \in rows PROVE (cursor > 0 => a.id < cursor) <=> a.id \notin Passed
    BY <1>2, <1>8 DEF Left
  <2>2. a.id \in Id /\ a.id \in Nat /\ cursor \in Nat
    BY <1>1, <1>2, <1>3
  <2> QED BY <2>2, <1>13 DEF Passed
<1>15. \A k \in Left : \E a \in S : a.id = k
  <2>1. SUFFICES ASSUME NEW k \in Left PROVE \E a \in S : a.id = k
    OBVIOUS
  <2>2. [id |-> k, pinned |-> state[k] = "pinned"] \in rows
    BY <1>1
  <2> QED BY <2>2, <1>14
<1>16. KeysOf(p) = {a.id : a \in T}
  BY <1>9, <1>12 DEF KeysOf
<1>17. KeysOf(p) \subseteq Left
  BY <1>10, <1>11, <1>14, <1>16
<1>18. p.items \subseteq Items
  BY <1>4, <1>9, <1>10, <1>11 DEF Items
<1>19. CASE p.next = 0
  <2>1. KeysOf(p) = Left
    BY <1>10, <1>15, <1>16, <1>17, <1>19
  <2>2. p.next \in Cursors
    BY <1>19 DEF Cursors
  <2> QED BY <2>1, <2>2, <1>1, <1>17, <1>18, <1>19 DEF PageOfLeft, GivesAll, GivesPage
<1>20. CASE p.next # 0
  <2>1. PICK x \in S : x.id = p.next /\ ~x.pinned /\ \A a \in S : a \in T <=> a.pinned \/ a.id > x.id
    BY <1>10, <1>20
  <2>2. /\ Cardinality(T) = PageLimit /\ x.id \in Left /\ x.id \in Id /\ x.id \in Nat \ {0} /\ p.next \in Nat
        /\ x \notin T
    <3>1. x.id \in Left
      BY <2>1, <1>11, <1>14
    <3>2. x.id \in Nat \ {0}
      BY <3>1, <1>1
    <3> QED BY <3>1, <3>2, <2>1, <1>1, <1>10, <1>20
  <2>3. PassedBy(p.next) = {k \in Id : x.id =< k}
    <3>1. PassedBy(p.next) = {k \in Id : p.next > 0 /\ p.next =< k}
      BY <2>2, <1>13
    <3>2. p.next = x.id /\ x.id > 0
      BY <2>1, <2>2
    <3> QED BY <3>1, <3>2
  <2>4. cursor > 0 => x.id < cursor
    BY <2>1, <1>8
  <2>5. Passed \subseteq PassedBy(p.next)
    <3>1. SUFFICES ASSUME NEW k \in Id, cursor > 0, cursor =< k PROVE x.id =< k
      BY <2>3, <1>1, <1>13 DEF Passed
    <3>2. k \in Nat /\ cursor \in Nat /\ x.id \in Nat /\ x.id < cursor
      BY <3>1, <2>2, <2>4, <1>1
    <3> QED BY <3>1, <3>2
  <2>6. \A a \in T : a.id \in PassedBy(p.next) \/ a.pinned
    <3>1. SUFFICES ASSUME NEW a \in T, ~a.pinned PROVE a.id \in PassedBy(p.next)
      OBVIOUS
    <3>2. a \in S /\ a.id > x.id /\ a.id \in Id /\ a.id \in Nat
      BY <3>1, <2>1, <1>10, <1>1, <1>11, <1>14
    <3> QED BY <3>2, <2>2, <2>3
  <2>7. Left \intersect PassedBy(p.next) \subseteq KeysOf(p) \union {x.id}
    <3>1. SUFFICES ASSUME NEW k \in Left, x.id =< k, k # x.id PROVE k \in KeysOf(p)
      BY <2>3
    <3>2. PICK a \in S : a.id = k
      BY <1>15
    <3>3. k > x.id
      BY <3>1, <2>2, <1>1
    <3>4. a \in T
      BY <3>2, <3>3, <2>1
    <3> QED BY <3>2, <3>4, <1>16
  <2>8. Cardinality(Passed) + PageLimit =< Cardinality(PassedBy(p.next))
    <3>1. PICK f : f = [a \in T |-> IF a.pinned THEN x.id ELSE a.id]
      OBVIOUS
    <3>2. PICK U : U = {f[a] : a \in T}
      OBVIOUS
    <3>3. \A a, b \in T : f[a] = f[b] => a = b
      <4>1. SUFFICES ASSUME NEW a \in T, NEW b \in T, f[a] = f[b] PROVE a = b
        OBVIOUS
      <4>2. a \in S /\ b \in S /\ a \in rows /\ b \in rows
        BY <1>10, <1>11
      <4>3. a.id # x.id /\ b.id # x.id
        BY <4>2, <2>1, <2>2, <1>5, <1>11
      <4> QED BY <4>1, <4>2, <4>3, <3>1, <1>5, <1>6
    <3>4. f \in [T -> U] /\ \A u \in U : \E a \in T : f[a] = u
      BY <3>1, <3>2
    <3>5. IsFiniteSet(U) /\ Cardinality(U) = PageLimit
      BY <3>3, <3>4, <2>2, <1>10, SameNumber
    <3>6. U \subseteq PassedBy(p.next) /\ U \subseteq Left
      <4>1. SUFFICES ASSUME NEW a \in T PROVE f[a] \in PassedBy(p.next) /\ f[a] \in Left
        BY <3>2
      <4>2. x.id \in PassedBy(p.next)
        BY <2>2, <2>3
      <4>3. a.id \in Left
        BY <1>10, <1>11, <1>14
      <4> QED BY <4>2, <4>3, <2>2, <2>6, <3>1
    <3>7. PICK Q : Q = PassedBy(p.next)
      OBVIOUS
    <3>8. PICK P : P = Passed
      OBVIOUS
    <3>9. IsFiniteSet(Q) /\ P \in SUBSET Q /\ U \in SUBSET Q /\ P \intersect U = {} /\ PageLimit \in Nat /\ PageLimit =< Cardinality(U)
      BY <3>5, <3>6, <3>7, <3>8, <2>5, <1>1, KeysFinite
    <3> QED BY <3>7, <3>8, <3>9, GrowsBy
  <2>9. p.items # {}
    <3>1. Cardinality(T) # 0
      BY <2>2, <1>1
    <3> QED BY <3>1, <1>9, FS_EmptySet
  <2>10. kind \in Lossy
    BY DEF Lossy
  <2>11. \A a \in p.items : Key(a) \in PassedBy(p.next) \/ (kind = "announcements" /\ a.pinned)
    BY <2>6, <1>9, <1>12
  <2>12. GivesPage(p)
    BY <2>5, <2>7, <2>8, <2>9, <2>10, <2>11 DEF GivesPage
  <2>13. p.next \in Cursors
    BY <2>2 DEF Cursors
  <2> QED BY <2>12, <2>13, <1>1, <1>17, <1>18, <1>20 DEF PageOfLeft, GivesAll
<1> QED BY <1>19, <1>20

\* loadMore goes on before the oldest message on the screen.
LEMMA MessagesGive ==
  ASSUME WalkTypes, kind = "messages", NEW p, p.items = Newest(Left, PageLimit),
         p.next = IF p.items = {} THEN 0 ELSE OldestOnScreen(p.items)
  PROVE  PageOfLeft(p)
<1>1. /\ Left \subseteq InTheList /\ IsFiniteSet(Left) /\ Left \intersect Passed = {} /\ PageLimit \in Nat \ {0}
      /\ Keys = Id /\ Left \in SUBSET Nat /\ Left \subseteq Id /\ cursor \in Nat /\ LastCursor = 0 /\ \A k \in Id : k \in Nat \ {0}
  BY LeftFacts
<1>2. PICK T : T = p.items
  OBVIOUS
<1>3. /\ T \subseteq Left /\ IsFiniteSet(T) /\ Cardinality(T) \in Nat
      /\ T = Left \/ Cardinality(T) = PageLimit
      /\ \A s \in Left, t \in T : s > t => s \in T
  <2>1. NewestOf(Left, PageLimit, T)
    BY <1>1, <1>2, NewestPage
  <2> QED BY <2>1 DEF NewestOf
<1>4. KeysOf(p) = T /\ \A a : Key(a) = a
  <2>1. \A a : Key(a) = a
    BY DEF Key
  <2> QED BY <2>1, <1>2 DEF KeysOf
<1>5. Items = Id /\ Cursors = Nat
  BY DEF Items, Cursors
<1>6. \A c \in Nat : PassedBy(c) = {k \in Id : c > 0 /\ c =< k}
  BY <1>1 DEF PassedBy, Ascending
<1>7. kind \notin Lossy
  BY DEF Lossy
<1>8. CASE T = {}
  <2>1. Left = {}
    <3>1. Cardinality(T) = 0
      BY <1>8, FS_EmptySet
    <3> QED BY <3>1, <1>1, <1>3, <1>8
  <2>2. p.next = 0
    BY <1>2, <1>8
  <2>3. p.items \subseteq Items /\ p.next \in Cursors /\ KeysOf(p) \subseteq Left /\ KeysOf(p) = Left
    BY <2>1, <2>2, <1>2, <1>4, <1>5, <1>8
  <2> QED BY <2>2, <2>3, <1>1 DEF PageOfLeft, GivesAll, GivesPage
<1>9. CASE T # {}
  <2>1. \E s \in T : \A q \in T : s =< q
    BY <1>1, <1>3, <1>9, Least
  <2>2. p.next = OldestOnScreen(T)
    BY <1>2, <1>9
  <2>3. p.next \in T /\ \A q \in T : p.next =< q
    BY <2>1, <2>2 DEF OldestOnScreen
  <2>4. p.next \in Nat \ {0} /\ p.next \in Id /\ p.next \in Left
    BY <2>3, <1>1, <1>3
  <2>5. PassedBy(p.next) = {k \in Id : p.next =< k}
    BY <2>4, <1>6
  <2>6. cursor > 0 => p.next < cursor
    BY <2>4, <1>1, <1>6 DEF Passed
  <2>7. Passed \subseteq PassedBy(p.next)
    <3>1. SUFFICES ASSUME NEW k \in Id, cursor > 0, cursor =< k PROVE p.next =< k
      BY <2>5, <1>1, <1>6 DEF Passed
    <3>2. k \in Nat /\ cursor \in Nat /\ p.next \in Nat /\ p.next < cursor
      BY <3>1, <2>4, <2>6, <1>1
    <3> QED BY <3>1, <3>2
  <2>8. T \subseteq PassedBy(p.next)
    BY <2>3, <2>5, <1>1, <1>3
  <2>9. Left \intersect PassedBy(p.next) \subseteq T
    <3>1. SUFFICES ASSUME NEW k \in Left, p.next =< k PROVE k \in T
      BY <2>5
    <3>2. k = p.next \/ k > p.next
      BY <3>1, <2>4, <1>1
    <3> QED BY <3>2, <2>3, <1>3
  <2>10. CASE Cardinality(T) = PageLimit
    <3>1. PICK Q : Q = PassedBy(p.next)
      OBVIOUS
    <3>2. PICK P : P = Passed
      OBVIOUS
    <3>3. IsFiniteSet(Q) /\ P \in SUBSET Q /\ T \in SUBSET Q /\ P \intersect T = {} /\ PageLimit \in Nat /\ PageLimit =< Cardinality(T)
      BY <3>1, <3>2, <2>7, <2>8, <2>10, <1>1, <1>3, KeysFinite
    <3>4. Cardinality(Passed) + PageLimit =< Cardinality(PassedBy(p.next))
      BY <3>1, <3>2, <3>3, GrowsBy
    <3>5. GivesPage(p)
      BY <3>4, <2>7, <2>8, <2>9, <1>2, <1>4, <1>7, <1>9 DEF GivesPage
    <3> QED BY <3>5, <2>4, <1>1, <1>2, <1>3, <1>4, <1>5 DEF PageOfLeft, GivesAll
  <2>11. CASE T = Left
    <3>1. GivesPage(p)
      BY <2>7, <2>8, <2>9, <2>11, <1>2, <1>4, <1>7, <1>9 DEF GivesPage
    <3> QED BY <3>1, <2>4, <1>1, <1>2, <1>3, <1>4, <1>5 DEF PageOfLeft, GivesAll
  <2> QED BY <2>10, <2>11, <1>3
<1> QED BY <1>8, <1>9

\* ParseResponse: the hits it gives are behind the last of them, and no others
\* unless two tie.
LEMMA SearchGives ==
  ASSUME WalkTypes, kind = "search", NEW S, S = {HitOf(k) : k \in Left}, NEW p, p = ParseResponse(S, PageLimit)
  PROVE  PageOfLeft(p)
<1>1. /\ Left \subseteq InTheList /\ IsFiniteSet(Left) /\ Left \intersect Passed = {} /\ PageLimit \in Nat \ {0}
      /\ Keys = Doc /\ Left \subseteq Doc /\ LastCursor = NoCursor /\ Cursors = Nat \X Nat \X Nat
      /\ Items = Time \X (1..2) \X Group
  BY LeftFacts DEF Keys, LastCursor, Cursors, Items
<1>2. cursor \in Nat \X Nat \X Nat /\ cursor[1] \in Nat /\ cursor[2] \in Nat
  BY <1>1 DEF WalkTypes
<1>3. \A k \in Doc : /\ k = <<k[1], k[2]>> /\ k[1] \in Group /\ k[2] \in 1..2 /\ at[k] \in Time
                     /\ k[1] \in Nat /\ k[2] \in Nat /\ at[k] \in Nat \ {0}
  <2>1. SUFFICES ASSUME NEW k \in Group \X (1..2)
                 PROVE  /\ k = <<k[1], k[2]>> /\ k[1] \in Group /\ k[2] \in 1..2 /\ at[k] \in Time
                        /\ k[1] \in Nat /\ k[2] \in Nat /\ at[k] \in Nat \ {0}
    BY DEF Doc
  <2>2. k = <<k[1], k[2]>> /\ k[1] \in Group /\ k[2] \in 1..2
    OBVIOUS
  <2>3. at \in [Doc -> Time] /\ k \in Doc
    BY DEF WalkTypes, Doc
  <2>4. at[k] \in Time
    BY <2>3
  <2>5. k[1] \in Nat /\ at[k] \in Nat \ {0}
    BY <2>2, <2>4, PagingAssumption
  <2>6. k[2] \in Nat
    BY <2>2
  <2> QED BY <2>2, <2>4, <2>5, <2>6
<1>4. \A k \in Doc : /\ HitOf(k)[1] = at[k] /\ HitOf(k)[2] = k[2] /\ HitOf(k)[3] = k[1]
                     /\ HitOf(k) \in Items /\ HitOf(k) \in (Nat \ {0}) \X Nat \X Nat
  BY <1>1, <1>3 DEF HitOf
<1>5. \A h : Key(h) = <<h[3], h[2]>>
  BY DEF Key
<1>6. \A k \in Doc : Key(HitOf(k)) = k
  BY <1>3, <1>4, <1>5
<1>7. \A h \in S : Key(h) \in Left /\ HitOf(Key(h)) = h
  BY <1>1, <1>6
<1>8. \A k \in Left : HitOf(k) \in S
  OBVIOUS
<1>9. S \in SUBSET ((Nat \ {0}) \X Nat \X Nat) /\ S \subseteq Items
  BY <1>1, <1>4
<1>10. IsFiniteSet(S)
  <2>1. PICK f : f = [h \in S |-> Key(h)]
    OBVIOUS
  <2>2. f \in [S -> Left] /\ DOMAIN f = S /\ \A g, h \in S : f[g] = f[h] => g = h
    BY <2>1, <1>7
  <2>3. f \in Injection(S, Left)
    BY <2>2 DEF Injection, IsInjective
  <2> QED BY <2>3, <1>1, FS_Injection
<1>11. PICK T : T = p.items
  OBVIOUS
<1>12. /\ T \subseteq S /\ IsFiniteSet(T) /\ Cardinality(T) \in Nat
       /\ p.next = NoCursor => T = S
       /\ p.next # NoCursor =>
            /\ Cardinality(T) = PageLimit /\ p.next \in S
            /\ \A h \in S : h \in T <=> h = p.next \/ Below(p.next, h)
  <2>1. LastIsCursor(S, PageLimit, p)
    BY <1>1, <1>9, <1>10, HitsPage
  <2> QED BY <2>1, <1>11 DEF LastIsCursor
<1>13. KeysOf(p) = {Key(h) : h \in T} /\ KeysOf(p) \subseteq Left
  BY <1>7, <1>11, <1>12 DEF KeysOf
<1>14. p.items \subseteq Items
  BY <1>9, <1>11, <1>12
<1>15. \A c : PassedBy(c) = {k \in Doc : c # NoCursor /\ ~After(HitOf(k), c)}
  BY <1>1 DEF PassedBy, Ascending
<1>16. CASE p.next = NoCursor
  <2>1. KeysOf(p) = Left
    BY <1>1, <1>6, <1>8, <1>12, <1>13, <1>16
  <2>2. p.next \in Cursors
    BY <1>1, <1>16 DEF NoCursor
  <2> QED BY <2>1, <2>2, <1>1, <1>13, <1>14, <1>16 DEF PageOfLeft, GivesAll, GivesPage
<1>17. CASE p.next # NoCursor
  <2>1. PICK m \in S : m = p.next
    BY <1>12, <1>17
  <2>2. PICK l \in Left : m = HitOf(l)
    BY <2>1
  <2>3. /\ m[1] = at[l] /\ m[2] = l[2] /\ m[3] = l[1] /\ l \in Doc
        /\ m[1] \in Nat /\ m[2] \in Nat /\ m[3] \in Nat /\ m \in Nat \X Nat \X Nat
    BY <2>2, <1>1, <1>3, <1>4
  <2>4. cursor # NoCursor => After(m, cursor)
    BY <2>2, <2>3, <1>1, <1>15 DEF Passed
  <2>5. Passed \subseteq PassedBy(p.next)
    <3>1. SUFFICES ASSUME NEW k \in Doc, cursor # NoCursor, ~After(HitOf(k), cursor) PROVE ~After(HitOf(k), m)
      BY <2>1, <1>15, <1>17 DEF Passed
    <3>2. HitOf(k)[1] \in Nat /\ HitOf(k)[2] \in Nat
      BY <1>3, <1>4
    <3> QED BY <3>1, <3>2, <2>3, <2>4, <1>2 DEF After
  <2>6. \A h \in T : ~After(h, m)
    <3>1. SUFFICES ASSUME NEW h \in T PROVE ~After(h, m)
      OBVIOUS
    <3>2. h = m \/ Below(m, h)
      BY <2>1, <1>12, <1>17
    <3>3. h[1] \in Nat /\ h[2] \in Nat
      BY <1>9, <1>12
    <3> QED BY <3>2, <3>3, <2>3 DEF After, Below
  <2>7. \A h \in T : Key(h) \in PassedBy(p.next)
    <3>1. SUFFICES ASSUME NEW h \in T PROVE Key(h) \in PassedBy(p.next)
      OBVIOUS
    <3>2. Key(h) \in Doc /\ HitOf(Key(h)) = h
      BY <1>1, <1>7, <1>12
    <3> QED BY <3>2, <2>1, <2>6, <1>15, <1>17
  <2>8. ~Tied => Left \intersect PassedBy(p.next) \subseteq KeysOf(p)
    <3>1. SUFFICES ASSUME ~Tied, NEW k \in Left, ~After(HitOf(k), m) PROVE k \in KeysOf(p)
      BY <2>1, <1>15
    <3>2. k \in Doc /\ HitOf(k) \in S /\ Key(HitOf(k)) = k
      BY <1>1, <1>6, <1>8
    <3>3. k # l => at[k] # at[l] \/ k[2] # l[2]
      BY <3>1, <3>2, <2>3 DEF Tied
    <3>4. HitOf(k) = m \/ Below(m, HitOf(k))
      <4>1. k = l => HitOf(k) = m
        BY <2>2
      <4>2. HitOf(k)[1] = at[k] /\ HitOf(k)[2] = k[2] /\ at[k] \in Nat /\ k[2] \in Nat
        BY <3>2, <1>3, <1>4
      <4> QED BY <4>1, <4>2, <3>1, <3>3, <2>3 DEF After, Below
    <3>5. HitOf(k) \in T
      BY <3>2, <3>4, <2>1, <1>12, <1>17
    <3> QED BY <3>2, <3>5, <1>13
  <2>9. Cardinality(Passed) + PageLimit =< Cardinality(PassedBy(p.next))
    <3>1. PICK f : f = [h \in T |-> Key(h)]
      OBVIOUS
    <3>2. PICK U : U = KeysOf(p)
      OBVIOUS
    <3>3. f \in [T -> U] /\ (\A g, h \in T : f[g] = f[h] => g = h) /\ \A u \in U : \E h \in T : f[h] = u
      BY <3>1, <3>2, <1>7, <1>12, <1>13
    <3>4. Cardinality(U) = PageLimit
      BY <3>3, <1>12, <1>17, SameNumber
    <3>5. PICK Q : Q = PassedBy(p.next)
      OBVIOUS
    <3>6. PICK P : P = Passed
      OBVIOUS
    <3>7. IsFiniteSet(Q) /\ P \in SUBSET Q /\ U \in SUBSET Q /\ P \intersect U = {} /\ PageLimit \in Nat /\ PageLimit =< Cardinality(U)
      BY <3>2, <3>4, <3>5, <3>6, <2>5, <2>7, <1>1, <1>13, KeysFinite
    <3> QED BY <3>5, <3>6, <3>7, GrowsBy
  <2>10. p.items # {}
    <3>1. Cardinality(T) # 0
      BY <1>1, <1>12, <1>17
    <3> QED BY <3>1, <1>11, FS_EmptySet
  <2>11. kind \notin Lossy
    BY DEF Lossy
  <2>12. GivesPage(p)
    BY <2>5, <2>7, <2>8, <2>9, <2>10, <2>11, <1>11 DEF GivesPage
  <2>13. p.next \in Cursors
    BY <2>1, <2>3, <1>1
  <2> QED BY <2>12, <2>13, <1>1, <1>13, <1>14, <1>17 DEF PageOfLeft, GivesAll
<1> QED BY <1>16, <1>17

\* Every page of every walk is a page of what is left.
LEMMA FanoutWalk ==
  ASSUME WalkInv, Fanout
  PROVE  WalkInv'
<1>1. PICK p : p = ListActiveMemberIDs(Normal, cursor, PageLimit)
  OBVIOUS
<1>2. kind = "fanout" /\ Show(p, 0) /\ WalkTypes
  BY <1>1 DEF Fanout, WalkInv
<1>3. Left = {r \in Normal : r > cursor}
  <2>1. Keys = Id /\ cursor \in Nat /\ \A k \in Id : k \in Nat
    BY <1>2, LeftFacts
  <2>2. InTheList = Normal
    BY <1>2 DEF InTheList, InList, Normal
  <2>3. Passed = {k \in Id : k =< cursor}
    BY <1>2, <2>1 DEF Passed, PassedBy, Ascending
  <2>4. Normal \subseteq Id
    BY <2>1 DEF Normal
  <2> QED BY <2>1, <2>2, <2>3, <2>4 DEF Left
<1>4. p.items = Taken(Left, PageLimit) /\ p.next = NextOfTaken(Left, PageLimit)
  BY <1>1, <1>3 DEF ListActiveMemberIDs
<1>5. PageOfLeft(p)
  BY <1>2, <1>4, AscendingGives DEF Ascending
<1>6. LastCursor = 0
  BY <1>2 DEF LastCursor
<1> QED BY <1>2, <1>5, <1>6, ShowWalk

\* The lists with the form of ListMembers.
LEMMA ListGives ==
  ASSUME WalkInv, kind \in Ascending, kind # "fanout", NEW rows, rows = InTheList, Show(ListMembers(rows, cursor, PageLimit), 0)
  PROVE  WalkInv'
<1>1. PICK p : p = ListMembers(rows, cursor, PageLimit)
  OBVIOUS
<1>2. Show(p, 0) /\ WalkTypes
  BY <1>1 DEF WalkInv
<1>3. kind # "search"
  BY DEF Ascending
<1>4. Left = {r \in rows : r > cursor}
  <2>1. Keys = Id /\ cursor \in Nat /\ \A k \in Id : k \in Nat
    BY <1>2, <1>3, LeftFacts
  <2>2. Passed = {k \in Id : k =< cursor}
    BY <1>3, <2>1 DEF Passed, PassedBy, Ascending
  <2>3. InTheList \subseteq Id
    BY <2>1 DEF InTheList
  <2> QED BY <2>1, <2>2, <2>3 DEF Left
<1>5. p.items = Taken(Left, PageLimit) /\ p.next = NextOfLeftOut(Left, PageLimit)
  BY <1>1, <1>4 DEF ListMembers
<1>6. PageOfLeft(p)
  BY <1>2, <1>5, AscendingGives
<1>7. LastCursor = 0
  BY <1>3 DEF LastCursor
<1> QED BY <1>2, <1>6, <1>7, ShowWalk

LEMMA ListsWalk ==
  ASSUME WalkInv, MembersPage \/ GroupsPage \/ RequestsPage \/ MentionsPage
  PROVE  WalkInv'
<1>1. DOMAIN state = Keys
  BY DEF WalkInv, WalkTypes
<1>2. CASE MembersPage
  <2>1. kind = "members" /\ Normal = InTheList
    BY <1>2 DEF MembersPage, Normal, InTheList, InList
  <2>2. Show(ListMembers(Normal, cursor, PageLimit), 0)
    BY <1>2 DEF MembersPage
  <2> QED BY <2>1, <2>2, ListGives DEF Ascending
<1>3. CASE GroupsPage
  <2>1. PICK rows : rows = {r \in DOMAIN state : state[r] = "normal"}
    OBVIOUS
  <2>2. kind = "groups" /\ rows = InTheList
    BY <1>1, <1>3, <2>1 DEF GroupsPage, InTheList, InList
  <2>3. Show(ListMembers(rows, cursor, PageLimit), 0)
    BY <1>3, <2>1 DEF GroupsPage, ListGroupsForUser
  <2> QED BY <2>2, <2>3, ListGives DEF Ascending
<1>4. CASE RequestsPage
  <2>1. PICK rows : rows = {r \in DOMAIN state : state[r] # "absent" /\ asked \in {"", state[r]}}
    OBVIOUS
  <2>2. kind = "requests" /\ rows = InTheList
    BY <1>1, <1>4, <2>1 DEF RequestsPage, InTheList, InList
  <2>3. Show(ListMembers(rows, cursor, PageLimit), 0)
    BY <1>4, <2>1 DEF RequestsPage, ListJoinRequests
  <2> QED BY <2>2, <2>3, ListGives DEF Ascending
<1>5. CASE MentionsPage
  <2>1. PICK rows : rows = {r \in DOMAIN state : state[r] = "unread" \/ (state[r] = "read" /\ ~(asked # ""))}
    OBVIOUS
  <2>2. kind = "mentions" /\ rows = InTheList
    BY <1>1, <1>5, <2>1 DEF MentionsPage, InTheList, InList
  <2>3. Show(ListMembers(rows, cursor, PageLimit), 0)
    BY <1>5, <2>1 DEF MentionsPage, ListMentions
  <2> QED BY <2>2, <2>3, ListGives DEF Ascending
<1> QED BY <1>2, <1>3, <1>4, <1>5

\* ListAnnouncements, from the rows that are on display.
LEMMA AnnouncementsWalk ==
  ASSUME WalkInv, AnnouncementsPage
  PROVE  WalkInv'
<1>1. PICK rows : rows = {[id |-> k, pinned |-> state[k] = "pinned"] : k \in InTheList}
  OBVIOUS
<1>2. kind = "announcements" /\ WalkTypes /\ OnePinned
  BY DEF WalkInv, AnnouncementsPage
<1>3. InTheList = {i \in Id : InList(i)}
  BY <1>2 DEF InTheList, Keys
<1>4. Show(ListAnnouncements(rows, cursor, PageLimit), 0)
  BY <1>1, <1>3 DEF AnnouncementsPage
<1>5. PICK p : p = ListAnnouncements(rows, cursor, PageLimit)
  OBVIOUS
<1>6. PageOfLeft(p)
  BY <1>1, <1>2, <1>5, AnnouncementsGive
<1>7. LastCursor = 0
  BY <1>2 DEF LastCursor
<1> QED BY <1>4, <1>5, <1>6, <1>7, ShowWalk

\* loadMore, from the messages before the oldest one on the screen.
LEMMA LoadMoreWalk ==
  ASSUME WalkInv, LoadMore
  PROVE  WalkInv'
<1>1. PICK items : items = ListMessages(Normal, cursor, 0, PageLimit)
  OBVIOUS
<1>2. PICK p : p = [items |-> items, next |-> IF items = {} THEN 0 ELSE OldestOnScreen(items)]
  OBVIOUS
<1>3. kind = "messages" /\ Show(p, 0) /\ WalkTypes
  BY <1>1, <1>2 DEF LoadMore, WalkInv
<1>4. Keys = Id /\ cursor \in Nat /\ \A k \in Id : k \in Nat
  BY <1>3, LeftFacts
<1>5. InTheList = Normal /\ Normal \subseteq Id
  BY <1>3, <1>4 DEF InTheList, InList, Normal
<1>6. Passed = {k \in Id : cursor > 0 /\ cursor =< k}
  BY <1>3, <1>4 DEF Passed, PassedBy, Ascending
<1>7. items = Newest(Left, PageLimit)
  <2>1. CASE cursor > 0
    <3>1. Left = {r \in Normal : r < cursor}
      BY <2>1, <1>4, <1>5, <1>6 DEF Left
    <3> QED BY <3>1, <2>1, <1>1 DEF ListMessages, Newest
  <2>2. CASE ~(cursor > 0)
    <3>1. Left = Normal
      BY <2>2, <1>5, <1>6 DEF Left
    <3> QED BY <3>1, <2>2, <1>1 DEF ListMessages, Newest
  <2> QED BY <2>1, <2>2
<1>8. PageOfLeft(p)
  BY <1>2, <1>3, <1>7, MessagesGive
<1>9. LastCursor = 0
  BY <1>3 DEF LastCursor
<1> QED BY <1>3, <1>8, <1>9, ShowWalk

\* SearchMessages: its hits are the messages in the list of this reader.
LEMMA SearchWalk ==
  ASSUME WalkInv, SearchPage
  PROVE  WalkInv'
<1>1. PICK docs : docs = {[group |-> k[1], sequence |-> k[2], at |-> at[k], status |-> state[k]] : k \in Doc}
  OBVIOUS
<1>2. PICK p : p = SearchMessages(docs, joined, asked, cursor, PageLimit)
  OBVIOUS
<1>3. kind = "search" /\ Show(p, NoCursor) /\ WalkTypes
  BY <1>1, <1>2 DEF SearchPage, WalkInv
<1>4. PICK hits : hits = BuildQuery(docs, joined, EffectiveScopes(joined, asked))
  OBVIOUS
<1>5. Keys = Doc /\ LastCursor = NoCursor /\ asked \in Group \union {0}
  BY <1>3 DEF Keys, LastCursor, WalkTypes
<1>6. \A k \in Doc : InList(k) <=> state[k] = "normal" /\ k[1] \in EffectiveScopes(joined, asked) /\ k[2] >= joined[k[1]]
  BY <1>3, <1>5 DEF InList, EffectiveScopes
<1>7. hits = {HitOf(k) : k \in InTheList}
  <2>1. PICK groups : groups = EffectiveScopes(joined, asked)
    OBVIOUS
  <2>2. hits = {<<d.at, d.sequence, d.group>> :
                  d \in {e \in docs : e.status = "normal" /\ e.group \in groups /\ e.sequence >= joined[e.group]}}
    BY <1>4, <2>1 DEF BuildQuery
  <2>3. ASSUME NEW k \in InTheList PROVE HitOf(k) \in hits
    <3>1. k \in Doc /\ InList(k)
      BY <1>5 DEF InTheList
    <3>2. PICK d : d = [group |-> k[1], sequence |-> k[2], at |-> at[k], status |-> state[k]]
      OBVIOUS
    <3>3. d \in docs /\ d.group = k[1] /\ d.sequence = k[2] /\ d.at = at[k] /\ d.status = state[k]
      BY <1>1, <3>1, <3>2
    <3>4. d \in {e \in docs : e.status = "normal" /\ e.group \in groups /\ e.sequence >= joined[e.group]}
      BY <3>1, <3>3, <2>1, <1>6
    <3>5. HitOf(k) = <<d.at, d.sequence, d.group>>
      BY <3>3 DEF HitOf
    <3> QED BY <3>4, <3>5, <2>2
  <2>4. ASSUME NEW h \in hits PROVE \E k \in InTheList : h = HitOf(k)
    <3>1. PICK d \in docs : /\ h = <<d.at, d.sequence, d.group>>
                            /\ d.status = "normal" /\ d.group \in groups /\ d.sequence >= joined[d.group]
      BY <2>2, <2>4
    <3>2. PICK k \in Doc : d = [group |-> k[1], sequence |-> k[2], at |-> at[k], status |-> state[k]]
      BY <1>1, <3>1
    <3>3. d.group = k[1] /\ d.sequence = k[2] /\ d.at = at[k] /\ d.status = state[k]
      BY <3>2
    <3>4. k \in InTheList
      BY <3>1, <3>2, <3>3, <2>1, <1>5, <1>6 DEF InTheList
    <3>5. h = HitOf(k)
      BY <3>1, <3>3 DEF HitOf
    <3> QED BY <3>4, <3>5
  <2> QED BY <2>3, <2>4
<1>8. PICK S : S = {HitOf(k) : k \in Left}
  OBVIOUS
<1>9. S = IF cursor = NoCursor THEN hits ELSE {h \in hits : After(h, cursor)}
  <2>1. Passed = {k \in Doc : cursor # NoCursor /\ ~After(HitOf(k), cursor)}
    BY <1>3, <1>5 DEF Passed, PassedBy, Ascending
  <2>2. InTheList \subseteq Doc
    BY <1>5 DEF InTheList
  <2>3. CASE cursor = NoCursor
    <3>1. Left = InTheList
      BY <2>1, <2>3 DEF Left
    <3> QED BY <3>1, <2>3, <1>7, <1>8
  <2>4. CASE cursor # NoCursor
    <3>1. \A k \in InTheList : k \in Left <=> After(HitOf(k), cursor)
      BY <2>1, <2>2, <2>4 DEF Left
    <3>2. Left \subseteq InTheList
      BY DEF Left
    <3> QED BY <3>1, <3>2, <2>4, <1>7, <1>8
  <2> QED BY <2>3, <2>4
<1>10. p = ParseResponse(S, PageLimit)
  BY <1>2, <1>4, <1>9 DEF SearchMessages
<1>11. PageOfLeft(p)
  BY <1>3, <1>8, <1>10, SearchGives
<1> QED BY <1>3, <1>5, <1>11, ShowWalk

\* Every step keeps the invariant.
LEMMA NextWalk ==
  ASSUME WalkInv, [WalkNext]_walkVars
  PROVE  WalkInv'
<1>1. ASSUME NEW k \in Keys, NEW s \in Becomes(state[k]), Change(k, s) PROVE WalkInv'
  BY <1>1, ChangeWalk
<1>2. CASE UNCHANGED walkVars
  <2>1. /\ UNCHANGED <<kind, state, at, joined, asked, cursor, done, pages, stayed, changes>>
        /\ UNCHANGED scope
    BY <1>2 DEF walkVars, scope
  <2>2. /\ Keys' = Keys /\ Items' = Items /\ Cursors' = Cursors /\ Tied' = Tied
        /\ \A a : Key(a)' = Key(a)
        /\ \A c : PassedBy(c)' = PassedBy(c)
    BY <2>1, SameScope
  <2>3. InTheList' = InTheList /\ Passed' = Passed
    BY <2>1, <2>2 DEF InTheList, InList, Passed
  <2>4. Listed' = Listed /\ DryPage' = DryPage
    BY <2>1, <2>2, <2>3 DEF Listed, Page, DryPage, Left
  <2>5. WalkTypes'
    BY <2>1, <2>2, <2>3 DEF WalkInv, WalkTypes
  <2>6. OnePinned' /\ NothingTwice'
    BY <2>1, <2>2 DEF WalkInv, OnePinned, NothingTwice
  <2>7. ~done => Underway'
    BY <2>1, <2>2, <2>3, <2>4 DEF WalkInv, Underway, ShownIsPassed, NoneLost, FewLost, FullPages, Lossy
  <2>8. done => Through'
    BY <2>1, <2>2, <2>4 DEF WalkInv, Through, Lossy
  <2> QED BY <2>1, <2>5, <2>6, <2>7, <2>8 DEF WalkInv
<1> QED BY <1>1, <1>2, FanoutWalk, ListsWalk, AnnouncementsWalk, LoadMoreWalk, SearchWalk DEF WalkNext

\* Between two pages what stayed in the list is behind the cursor and shown
\* (the lists that start at the row left out: all but one per page), or still to
\* come; after the last page nothing is to come.
THEOREM WalkInvariant == WalkSpec => []WalkInv
BY InitWalk, NextWalk, PTL DEF WalkSpec

\* Every list query, read page after page: no more pages than the rows fill,
\* the last and one per change of the table excepted, so that a walk ends when
\* the changes do; and rows of the table only.
THEOREM WalksBounded == WalkSpec => []WalkTypeOK
<1>1. ASSUME WalkInv PROVE WalkTypeOK
  <2>1. kind \in Kinds /\ DOMAIN state = Keys /\ done \in BOOLEAN /\ changes \in 0..MaxChanges
    BY <1>1 DEF WalkInv, WalkTypes
  <2>2. stayed \subseteq Keys /\ Listed \subseteq Keys
    BY <1>1, ListedIsKeys DEF WalkInv, WalkTypes, InTheList
  <2>3. CASE done
    BY <2>1, <2>2, <2>3, <1>1 DEF WalkInv, Through, WalkTypeOK
  <2>4. CASE ~done
    <3>1. PICK d \in {0, 1} : d = DryPage
      BY DEF DryPage
    <3>2. PICK n \in Int : n = Len(pages)
      BY <1>1 DEF WalkInv, WalkTypes
    <3>3. changes \in Int /\ PageLimit \in Nat
      BY <2>1, PagingAssumption
    <3>4. (n - changes - d) * PageLimit =< Cardinality(Passed)
      BY <3>1, <3>2, <2>4, <1>1 DEF WalkInv, Underway, FullPages
    <3>5. PICK b \in Int : b = n - changes - d
      BY <3>1, <3>3
    <3>6. PICK a \in Int : a = n - 2 - changes
      BY <3>3
    <3>7. a =< b
      BY <3>1, <3>3, <3>5, <3>6
    <3>8. a * PageLimit =< b * PageLimit /\ a * PageLimit \in Int /\ b * PageLimit \in Int
      BY <3>3, <3>7, TimesMonotone
    <3>9. Cardinality(Passed) \in Nat /\ Cardinality(Keys) \in Nat /\ Cardinality(Passed) =< Cardinality(Keys)
      BY KeysFinite DEF Passed
    <3>10. a * PageLimit =< Cardinality(Keys)
      BY <3>4, <3>5, <3>8, <3>9
    <3> QED BY <3>2, <3>6, <3>10, <2>1, <2>2 DEF WalkTypeOK
  <2> QED BY <2>3, <2>4
<1> QED BY <1>1, WalkInvariant, PTL

\* paginateActiveMemberIDs, loadMore and the search: a walk that has ended has
\* shown every row that was in its list from the first page to the last, and
\* none twice, for any table, page size and sequence of changes (a search with
\* two messages that tie excepted).
THEOREM WalksComplete == WalkSpec => []WalkIsComplete
<1>1. ASSUME WalkInv PROVE WalkIsComplete
  BY <1>1 DEF WalkInv, Through, WalkIsComplete, Lossy
<1> QED BY <1>1, WalkInvariant, PTL

\* The lists of members, groups, requests, mentions and announcements: a walk
\* that has ended has missed at most one row per page boundary of those that
\* stayed, and shown none twice but the pinned announcement.
THEOREM OneLostPerPage == WalkSpec => []ListLosesOnePerPage
<1>1. ASSUME WalkInv PROVE ListLosesOnePerPage
  BY <1>1 DEF WalkInv, Through, ListLosesOnePerPage, Lossy
<1> QED BY <1>1, WalkInvariant, PTL
=============================================================================
