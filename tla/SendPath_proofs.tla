-------------------------- MODULE SendPath_proofs --------------------------
(***************************************************************************)
(* Proofs about SendPath, for any number of goroutines, groups, sends and  *)
(* shards, and any number of faults.                                       *)
(***************************************************************************)
EXTENDS SendPath, TLAPS

\* What a goroutine's position says about its locals.
CallOK ==
  \A c \in Caller :
    /\ pc[c] # "idle" => op[c] \in Op
    /\ pc[c] \in {"find", "relookup", "reply"} => op[c] \in Send
    /\ pc[c] = "reply" => answer[c] \in Found(op[c])

\* A recall past its look-up has a client's stored message in hand.
TargetOK ==
  \A r \in Recaller : target[r] # None => target[r] \in log /\ target[r].sender # System

\* An acknowledgement names a stored message of the send it answers.
AcksStored == \A a \in acks : a.msg \in Found(a.send)

IInv ==
  /\ TypeOK
  /\ CallOK
  /\ TargetOK
  /\ AcksStored
  /\ NoDuplicate
  /\ MaxSequenceTracksLog

-----------------------------------------------------------------------------
\* Every operation names a group, and a message built from it is a Message.
LEMMA OpType ==
  ASSUME NEW o \in Op, NEW n \in Nat
  PROVE  /\ o.group \in Group
         /\ [group |-> o.group, seq |-> n, sender |-> o.sender, cid |-> o.cid] \in Message
         /\ o.sender # System => o \in Send
BY SendAssumption DEF Op, SystemOp, Message

\* SELECT MAX(sequence) is a number, because max_sequence is attained.
LEMMA MaxSequenceType ==
  ASSUME TypeOK, MaxSequenceTracksLog, NEW g \in Group
  PROVE  MaxSequence(g) \in Nat
<1> DEFINE used == {0} \union {m.seq : m \in {k \in log : k.group = g}}
<1>1. used \subseteq Nat
  BY DEF TypeOK, Message
<1>2. maxSequence[g] \in used
  <2>1. CASE maxSequence[g] = 0
    BY <2>1
  <2>2. CASE maxSequence[g] # 0
    BY <2>2 DEF MaxSequenceTracksLog
  <2> QED BY <2>1, <2>2
<1>3. \A k \in used : k =< maxSequence[g]
  BY <1>1 DEF MaxSequenceTracksLog, TypeOK
<1>4. \E n \in used : \A k \in used : k =< n
  BY <1>2, <1>3
<1>5. (CHOOSE n \in used : \A k \in used : k =< n) \in used
  BY <1>4
<1> QED BY <1>1, <1>5 DEF MaxSequence

-----------------------------------------------------------------------------
\* InsertMessage, past the unique keys, keeps what is true of the tables.
LEMMA StoreKeeps ==
  ASSUME TypeOK, NoDuplicate, MaxSequenceTracksLog,
         NEW o \in Op, NEW n \in Nat, ~ Conflict(o, n), Store(o, n)
  PROVE  /\ log' \subseteq Message
         /\ log \subseteq log'
         /\ maxSequence' \in [Group -> Nat]
         /\ outbox' \in Seq([type : {"created", "recalled"}, id : Group \X Nat])
         /\ NoDuplicate'
         /\ MaxSequenceTracksLog'
<1> DEFINE m == [group |-> o.group, seq |-> n, sender |-> o.sender, cid |-> o.cid]
<1>1. m \in Message /\ o.group \in Group /\ m.group = o.group /\ m.seq = n
      /\ m.sender = o.sender /\ m.cid = o.cid
  BY OpType
<1>2. log' = log \union {m}
  BY DEF Store
<1>3. log' \subseteq Message /\ log \subseteq log'
  BY <1>1, <1>2 DEF TypeOK
<1>4. maxSequence' \in [Group -> Nat]
  BY <1>1 DEF Store, TypeOK
<1>5. outbox' \in Seq([type : {"created", "recalled"}, id : Group \X Nat])
  BY <1>1 DEF Store, TypeOK
<1>6. NoDuplicate'
  <2> SUFFICES ASSUME NEW j \in log', NEW k \in log', j # k
               PROVE  Id(j) # Id(k) /\ ~(j.sender # System /\ SameClientKey(j, k))
    BY DEF NoDuplicate
  <2>1. CASE j \in log /\ k \in log
    BY <2>1 DEF NoDuplicate
  <2>2. CASE j = m /\ k \in log
    BY <2>2, <1>1, <1>3 DEF Conflict, Found, Id, SameClientKey, Message
  <2>3. CASE j \in log /\ k = m
    BY <2>3, <1>1, <1>3 DEF Conflict, Found, Id, SameClientKey, Message
  <2> QED BY <1>2, <2>1, <2>2, <2>3
<1>7. MaxSequenceTracksLog'
  <2> SUFFICES ASSUME NEW g \in Group
               PROVE  /\ \A k \in log' : k.group = g => k.seq =< maxSequence'[g]
                      /\ maxSequence'[g] # 0 =>
                           \E k \in log' : k.group = g /\ k.seq = maxSequence'[g]
    BY DEF MaxSequenceTracksLog
  <2>1. CASE g # o.group
    BY <2>1, <1>1, <1>2, <1>3 DEF Store, TypeOK, MaxSequenceTracksLog
  <2>2. CASE g = o.group /\ maxSequence[g] < n
    <3>1. maxSequence'[g] = n
      BY <2>2, <1>1 DEF Store, TypeOK
    <3>2. \A k \in log : k.group = g => k.seq =< n
      BY <2>2, <1>1 DEF MaxSequenceTracksLog, TypeOK, Message
    <3> QED BY <3>1, <3>2, <2>2, <1>1, <1>2
  <2>3. CASE g = o.group /\ ~(maxSequence[g] < n)
    <3>1. maxSequence'[g] = maxSequence[g]
      BY <2>3, <1>1 DEF Store, TypeOK
    <3>2. n =< maxSequence[g]
      BY <2>3 DEF TypeOK
    <3>3. \A k \in log : k.group = g => k.seq =< maxSequence[g]
      BY DEF MaxSequenceTracksLog
    <3>4. maxSequence[g] # 0 => \E k \in log : k.group = g /\ k.seq = maxSequence[g]
      BY DEF MaxSequenceTracksLog
    <3> QED BY <3>1, <3>2, <3>3, <3>4, <1>1, <1>2
  <2> QED BY <2>1, <2>2, <2>3 DEF TypeOK
<1> QED BY <1>3, <1>4, <1>5, <1>6, <1>7

-----------------------------------------------------------------------------
\* The invariants of the tables only depend on the tables, on op and on the
\* answers and acknowledgements given.
LEMMA TablesUnchanged ==
  ASSUME IInv, UNCHANGED db
  PROVE  NoDuplicate' /\ MaxSequenceTracksLog'
BY DEF IInv, db, NoDuplicate, MaxSequenceTracksLog

LEMMA InitIInv == Init => IInv
<1> SUFFICES ASSUME Init PROVE IInv
  OBVIOUS
<1>1. TypeOK
  BY DEF Init, TypeOK, NoKey, Step
<1> QED
  BY <1>1 DEF Init, IInv, CallOK, TargetOK, AcksStored, NoDuplicate, MaxSequenceTracksLog

\* Steps of a call that touch neither MySQL nor the clients.
LEMMA CallLocal ==
  ASSUME IInv, NEW c \in Caller,
         \/ \E s \in Send : BeginSend(c, s)
         \/ \E g \in Group : BeginSystem(c, g)
         \/ Find(c) \/ IncrScript(c) \/ ReadSeed(c) \/ ReadSeedError(c) \/ InitScript(c)
         \/ RedisUnreachable(c) \/ ReplyLost(c) \/ Fallback(c) \/ InsertConflict(c)
         \/ Relookup(c) \/ Fail(c)
  PROVE  IInv'
<1> USE DEF IInv
<1>0. UNCHANGED <<db, target, client>>
  BY DEF BeginSend, BeginSystem, Find, IncrScript, ReadSeed, ReadSeedError, InitScript,
         RedisUnreachable, ReplyLost, Fallback, InsertConflict, Relookup, Fail
<1>1. TargetOK' /\ AcksStored' /\ NoDuplicate' /\ MaxSequenceTracksLog'
  <2>1. NoDuplicate' /\ MaxSequenceTracksLog'
    BY <1>0, TablesUnchanged DEF db
  <2>2. TargetOK' /\ AcksStored'
    BY <1>0 DEF db, client, TargetOK, AcksStored, Found
  <2> QED BY <2>1, <2>2
<1>2. pc[c] # "idle" => /\ op[c] \in Op
                        /\ op[c].group \in Group
                        /\ Found(op[c]) \subseteq Message
                        /\ op[c].sender # System => op[c] \in Send
  BY OpType DEF TypeOK, CallOK, Found
<1>3. pc[c] # "idle" => counter[op[c].group] \in Nat \union {NoKey}
  BY <1>2 DEF TypeOK
<1>4. TypeOK' /\ CallOK'
  <2> USE <1>0 DEF db, client
  <2>1. CASE \E s \in Send : BeginSend(c, s)
    BY <2>1 DEF BeginSend, redis, budget, Op, Found, TypeOK, CallOK, Goto, Step
  <2>2. CASE \E g \in Group : BeginSystem(c, g)
    BY <2>2, BoundAssumption DEF BeginSystem, redis, Op, Found, TypeOK, CallOK, Goto, Step
  <2>3. CASE Find(c)
    <3>1. CASE Found(op[c]) = {} /\ Goto(c, "incr") /\ UNCHANGED answer
      BY <2>3, <3>1, <1>2 DEF Find, redis, budget, Found, TypeOK, CallOK, Goto, Step
    <3>2. ASSUME NEW m \in Found(op[c]), Goto(c, "reply"),
                 answer' = [answer EXCEPT ![c] = m]
          PROVE  TypeOK' /\ CallOK'
      <4>1. m \in Message /\ pc[c] = "find" /\ UNCHANGED <<redis, op, seq, seed, budget>>
        BY <2>3, <1>2 DEF Find
      <4>2. TypeOK'
        BY <3>2, <4>1 DEF redis, budget, TypeOK, Goto, Step
      <4>3. CallOK'
        BY <3>2, <4>1 DEF Found, TypeOK, CallOK, Goto, Step
      <4> QED BY <4>2, <4>3
    <3> QED BY <2>3, <3>1, <3>2 DEF Find
  <2>4. CASE IncrScript(c)
    <3>1. CASE counter[op[c].group] = NoKey
      BY <2>4, <3>1, <1>2 DEF IncrScript, budget, Found, TypeOK, CallOK, Goto, Step
    <3>2. CASE counter[op[c].group] # NoKey
      <4>1. counter[op[c].group] + 1 \in Nat
        BY <2>4, <3>2, <1>3 DEF IncrScript
      <4>2. /\ counter' = [counter EXCEPT ![op[c].group] = counter[op[c].group] + 1]
            /\ seq' = [seq EXCEPT ![c] = counter[op[c].group] + 1]
            /\ pc[c] = "incr" /\ Goto(c, "insert")
            /\ UNCHANGED <<redisUp, op, seed, answer, budget>>
        BY <2>4, <3>2 DEF IncrScript
      <4> QED BY <4>1, <4>2, <1>2 DEF budget, Found, TypeOK, CallOK, Goto, Step
    <3> QED BY <3>1, <3>2
  <2>5. CASE ReadSeed(c)
    BY <2>5, <1>2, MaxSequenceType DEF ReadSeed, redis, budget, Found, TypeOK, CallOK, Goto, Step
  <2>6. CASE ReadSeedError(c)
    BY <2>6 DEF ReadSeedError, CallFault, redis, Found, TypeOK, CallOK, Goto, Step
  <2>7. CASE InitScript(c)
    <3>1. Seeded(c) + 1 \in Nat
      BY <2>7, <1>3 DEF InitScript, Seeded, NoKey, TypeOK
    <3> QED BY <2>7, <3>1, <1>2 DEF InitScript, budget, Found, TypeOK, CallOK, Goto, Step
  <2>8. CASE RedisUnreachable(c)
    BY <2>8 DEF RedisUnreachable, redis, budget, Found, TypeOK, CallOK, Goto, Step
  <2>9. CASE ReplyLost(c)
    <3> DEFINE new == IF pc[c] = "init" THEN Seeded(c) + 1
                      ELSE IF counter[op[c].group] = NoKey THEN NoKey
                      ELSE counter[op[c].group] + 1
    <3>1. new \in Nat \union {NoKey}
      BY <2>9, <1>3 DEF ReplyLost, Seeded, NoKey, TypeOK
    <3>2. /\ counter' = [counter EXCEPT ![op[c].group] = new]
          /\ pc[c] \in {"incr", "init"}
          /\ \E l \in {pc[c], "fallback"} : Goto(c, l)
          /\ UNCHANGED <<redisUp, op, seq, seed, answer, systems, callFaults>>
          /\ redisFaults' = redisFaults + 1
      BY <2>9 DEF ReplyLost, RedisFault
    <3> QED BY <3>1, <3>2, <1>2 DEF Found, TypeOK, CallOK, Goto, Step
  <2>10. CASE Fallback(c)
    <3>1. MaxSequence(op[c].group) + 1 \in Nat
      BY <2>10, <1>2, MaxSequenceType DEF Fallback
    <3> QED BY <2>10, <3>1 DEF Fallback, redis, budget, Found, TypeOK, CallOK, Goto, Step
  <2>11. CASE InsertConflict(c)
    <3>1. CASE op[c].sender = System
      <4>1. Return(c) /\ UNCHANGED <<redis, budget>>
        BY <2>11, <3>1 DEF InsertConflict, AfterInsertError
      <4> QED BY <4>1 DEF Return, redis, budget, Found, TypeOK, CallOK, Goto, Step
    <3>2. CASE op[c].sender # System
      BY <2>11, <3>2, <1>2 DEF InsertConflict, AfterInsertError, redis, budget, Found,
                               TypeOK, CallOK, Goto, Step
    <3> QED BY <3>1, <3>2
  <2>12. CASE Relookup(c)
    <3>1. CASE Found(op[c]) = {} /\ Return(c)
      BY <2>12, <3>1 DEF Relookup, Return, redis, budget, Found, TypeOK, CallOK, Goto, Step
    <3>2. ASSUME NEW m \in Found(op[c]), Goto(c, "reply"),
                 answer' = [answer EXCEPT ![c] = m], UNCHANGED <<op, seq, seed>>
          PROVE  TypeOK' /\ CallOK'
      <4>1. m \in Message /\ pc[c] = "relookup" /\ UNCHANGED <<redis, budget>>
        BY <2>12, <1>2 DEF Relookup
      <4>2. TypeOK'
        BY <3>2, <4>1 DEF redis, budget, TypeOK, Goto, Step
      <4>3. CallOK'
        BY <3>2, <4>1 DEF Found, TypeOK, CallOK, Goto, Step
      <4> QED BY <4>2, <4>3
    <3> QED BY <2>12, <3>1, <3>2 DEF Relookup
  <2>13. CASE Fail(c)
    BY <2>13 DEF Fail, CallFault, Return, redis, Found, TypeOK, CallOK, Goto, Step
  <2> QED BY <2>1, <2>2, <2>3, <2>4, <2>5, <2>6, <2>7, <2>8, <2>9, <2>10, <2>11, <2>12, <2>13
<1> QED BY <1>1, <1>4

\* InsertMessage and InsertError: the commit, or the failure, of the INSERT.
LEMMA CallInsert ==
  ASSUME IInv, NEW c \in Caller, InsertMessage(c) \/ InsertError(c)
  PROVE  IInv'
<1> USE DEF IInv
<1>1. /\ op[c] \in Op /\ seq[c] \in Nat /\ op[c].group \in Group
      /\ op[c].sender # System => op[c] \in Send
  BY OpType DEF InsertMessage, InsertError, CallOK, TypeOK
<1>2. /\ UNCHANGED <<redis, target, client, systems, redisFaults>>
      /\ callFaults' \in Nat
  BY DEF InsertMessage, InsertError, CallFault, budget, TypeOK
<1>3. /\ log \subseteq log' /\ log' \subseteq Message /\ UNCHANGED recalled
      /\ maxSequence' \in [Group -> Nat]
      /\ outbox' \in Seq([type : {"created", "recalled"}, id : Group \X Nat])
      /\ NoDuplicate' /\ MaxSequenceTracksLog'
  <2>1. CASE ~ Conflict(op[c], seq[c]) /\ Store(op[c], seq[c])
    BY <2>1, <1>1, StoreKeeps DEF Store
  <2>2. CASE UNCHANGED db
    BY <2>2, TablesUnchanged DEF db, TypeOK
  <2> QED BY <2>1, <2>2 DEF InsertMessage, InsertError
<1>4. recalled' \subseteq {Id(m) : m \in log'}
  BY <1>3 DEF TypeOK
<1>5. TargetOK' /\ AcksStored'
  BY <1>2, <1>3 DEF TargetOK, AcksStored, Found, client
<1> DEFINE new == [group |-> op[c].group, seq |-> seq[c],
                   sender |-> op[c].sender, cid |-> op[c].cid]
<1>6. \/ Return(c)
      \/ /\ Goto(c, "relookup") /\ op[c].sender # System
         /\ UNCHANGED <<op, seq, seed, answer>>
      \/ /\ Goto(c, "reply") /\ op[c].sender # System
         /\ answer' = [answer EXCEPT ![c] = new] /\ new \in log'
         /\ UNCHANGED <<op, seq, seed>>
  BY DEF InsertMessage, InsertError, AfterInsertError, Store
<1>7. new \in Message /\ new.group = op[c].group /\ new.sender = op[c].sender
      /\ new.cid = op[c].cid
  BY <1>1, OpType
<1> HIDE DEF new
<1>8. /\ pc' \in [Caller -> Step] /\ op' \in [Caller -> Op \union {None}]
      /\ seq' \in [Caller -> Nat] /\ seed' \in [Caller -> Nat]
      /\ answer' \in [Caller -> Message \union {None}]
      /\ CallOK'
  <2> USE DEF TypeOK, Goto, Step, CallOK, Found
  <2>1. CASE Return(c)
    BY <1>3, <2>1 DEF Return
  <2>2. CASE /\ Goto(c, "relookup") /\ op[c].sender # System
             /\ UNCHANGED <<op, seq, seed, answer>>
    BY <1>1, <1>3, <2>2
  <2>3. CASE /\ Goto(c, "reply") /\ op[c].sender # System
             /\ answer' = [answer EXCEPT ![c] = new] /\ new \in log'
             /\ UNCHANGED <<op, seq, seed>>
    BY <1>1, <1>3, <1>7, <2>3
  <2> QED BY <1>6, <2>1, <2>2, <2>3
<1>9. TypeOK'
  BY <1>2, <1>3, <1>4, <1>8 DEF TypeOK, redis, client
<1> QED BY <1>3, <1>5, <1>8, <1>9

\* Reply: what is acknowledged is stored, and answers the send.
LEMMA CallReply ==
  ASSUME IInv, NEW c \in Caller, Reply(c)
  PROVE  IInv'
<1> USE DEF IInv
<1>1. op[c] \in Send /\ answer[c] \in Found(op[c]) /\ answer[c] \in Message
  BY DEF Reply, CallOK, TypeOK, Found
<1>2. NoDuplicate' /\ MaxSequenceTracksLog'
  BY TablesUnchanged DEF Reply
<1>3. TargetOK' /\ AcksStored'
  BY <1>1 DEF Reply, db, TargetOK, AcksStored, Found
<1>4. TypeOK'
  <2>1. acks' \subseteq [send : Send, msg : Message] /\ got' \subseteq Send
        /\ callFaults' \in Nat
    BY <1>1 DEF Reply, CallFault, TypeOK
  <2> QED BY <2>1 DEF Reply, Return, Goto, Step, TypeOK, db, redis
<1>5. CallOK'
  BY DEF Reply, Return, Goto, CallOK, TypeOK, Found, db
<1> QED BY <1>2, <1>3, <1>4, <1>5

\* Recalls and Redis.
LEMMA OtherSteps ==
  ASSUME IInv,
         \/ \E r \in Recaller : (\E m \in log : RecallLookup(r, m)) \/ RecallTx(r) \/ RecallFail(r)
         \/ RedisDown \/ RedisBack
  PROVE  IInv'
<1> USE DEF IInv
<1>0. UNCHANGED <<log, maxSequence, call, client, systems>>
  BY DEF RecallLookup, RecallTx, RecallFail, RedisDown, RedisBack, db, budget
<1>1. AcksStored' /\ NoDuplicate' /\ MaxSequenceTracksLog' /\ CallOK'
  BY <1>0 DEF AcksStored, NoDuplicate, MaxSequenceTracksLog, CallOK, Found, call, client
<1>2. TypeOK' /\ TargetOK'
  <2> USE <1>0 DEF call, client
  <2>1. CASE \E r \in Recaller, m \in log : RecallLookup(r, m)
    BY <2>1 DEF RecallLookup, db, redis, budget, TypeOK, TargetOK
  <2>2. ASSUME NEW r \in Recaller, RecallTx(r) PROVE TypeOK' /\ TargetOK'
    <3>1. target[r] \in log /\ target[r] \in Message
      BY <2>2 DEF RecallTx, TargetOK, TypeOK
    <3>2. /\ recalled' \subseteq {Id(m) : m \in log}
          /\ outbox' \in Seq([type : {"created", "recalled"}, id : Group \X Nat])
      <4>1. Id(target[r]) \in Group \X Nat /\ Id(target[r]) \in {Id(m) : m \in log}
        BY <3>1 DEF Id, Message
      <4>2. [type |-> "recalled", id |-> Id(target[r])]
              \in [type : {"created", "recalled"}, id : Group \X Nat]
        BY <4>1
      <4>3. outbox' \in {outbox, Append(outbox, [type |-> "recalled", id |-> Id(target[r])])}
        BY <2>2 DEF RecallTx
      <4>4. recalled' \subseteq recalled \union {Id(target[r])}
        BY <2>2 DEF RecallTx
      <4> HIDE DEF Id
      <4>5. Append(outbox, [type |-> "recalled", id |-> Id(target[r])])
              \in Seq([type : {"created", "recalled"}, id : Group \X Nat])
        BY <4>2 DEF TypeOK
      <4> QED BY <4>1, <4>3, <4>4, <4>5 DEF TypeOK
    <3>3. TargetOK' /\ target' \in [Recaller -> Message \union {None}]
      BY <2>2 DEF RecallTx, TypeOK, TargetOK
    <3> QED BY <2>2, <3>2, <3>3 DEF RecallTx, redis, budget, TypeOK
  <2>3. CASE \E r \in Recaller : RecallFail(r)
    <3>1. PICK r \in Recaller : RecallFail(r)
      BY <2>3
    <3>2. callFaults' \in Nat /\ UNCHANGED <<db, redis, systems, redisFaults>>
          /\ target' = [target EXCEPT ![r] = None]
      BY <3>1 DEF RecallFail, CallFault, TypeOK
    <3> QED BY <3>2 DEF db, redis, TypeOK, TargetOK
  <2>4. CASE RedisDown
    <3>1. redisFaults' \in Nat
      BY <2>4 DEF RedisDown, RedisFault, TypeOK
    <3>2. redisUp' \in BOOLEAN /\ UNCHANGED <<db, counter, target, callFaults>>
      BY <2>4 DEF RedisDown
    <3> QED BY <3>1, <3>2 DEF db, TypeOK, TargetOK
  <2>5. CASE RedisBack
    <3>1. UNION {0..counter[g] : g \in Group} \subseteq Nat
      OBVIOUS
    <3>2. counter' \in [Group -> Nat \union {NoKey}]
      BY <2>5, <3>1 DEF RedisBack
    <3> QED BY <2>5, <3>2 DEF RedisBack, db, budget, TypeOK, TargetOK
  <2> QED BY <2>1, <2>2, <2>3, <2>4, <2>5
<1> QED BY <1>1, <1>2

LEMMA Stutter ==
  ASSUME IInv, UNCHANGED vars
  PROVE  IInv'
BY DEF IInv, TypeOK, CallOK, TargetOK, AcksStored, NoDuplicate, MaxSequenceTracksLog, Found,
       vars, db, redis, call, client, budget

THEOREM Invariance == Spec => []IInv
<1>1. IInv /\ [Next]_vars => IInv'
  BY CallLocal, CallInsert, CallReply, OtherSteps, Stutter DEF Next, CallStep
<1> QED BY <1>1, InitIInv, PTL DEF Spec

-----------------------------------------------------------------------------
\* The state is well-typed.
THEOREM TypeCorrect == Spec => []TypeOK
BY Invariance, PTL DEF IInv

\* No two stored messages share a client id or a sequence, whatever calls
\* overlap and whatever Redis lost (the unique keys behind service.go:486).
THEOREM NoDuplicateStored == Spec => []NoDuplicate
BY Invariance, PTL DEF IInv

\* max_sequence is the largest sequence stored (repo.go:458).
THEOREM MaxSequenceCorrect == Spec => []MaxSequenceTracksLog
BY Invariance, PTL DEF IInv

\* All acknowledgements of one client id name one stored message.
THEOREM AcksAgree == Spec => []AckAgreement
<1>1. IInv => AckAgreement
  <2> SUFFICES ASSUME IInv, NEW a \in acks, NEW b \in acks, SameClientKey(a.send, b.send)
               PROVE  a.msg = b.msg
    BY DEF IInv, AcksStored, AckAgreement
  <2>1. /\ a.msg \in log /\ b.msg \in log
        /\ a.msg.sender # System
        /\ SameClientKey(a.msg, b.msg)
    BY SendAssumption DEF IInv, AcksStored, Found, SameClientKey, TypeOK
  <2> QED BY <2>1 DEF IInv, NoDuplicate
<1> QED BY <1>1, Invariance, PTL

-----------------------------------------------------------------------------
\* What a step does to the tables and to the acknowledgements: it publishes a
\* message, recalls one, acknowledges one, or does nothing to them.
LEMMA StepEffect ==
  ASSUME IInv, [Next]_vars
  PROVE  \/ UNCHANGED <<log, recalled, outbox, acks>>
         \/ /\ \E o \in Op, n \in Nat : ~ Conflict(o, n) /\ Store(o, n)
            /\ UNCHANGED acks
         \/ /\ \E m \in log : /\ m.sender # System
                              /\ Id(m) \notin recalled
                              /\ recalled' = recalled \union {Id(m)}
                              /\ outbox' = Append(outbox, [type |-> "recalled", id |-> Id(m)])
            /\ UNCHANGED <<log, acks>>
         \/ /\ \E s \in Send : \E m \in Found(s) : acks' = acks \union {[send |-> s, msg |-> m]}
            /\ UNCHANGED <<log, recalled, outbox>>
<1> DEFINE Same == UNCHANGED <<log, recalled, outbox, acks>>
<1>1. CASE UNCHANGED vars
  BY <1>1 DEF vars, db, client
<1>2. ASSUME NEW c \in Caller,
             (\E s \in Send : BeginSend(c, s)) \/ (\E g \in Group : BeginSystem(c, g))
      PROVE  Same
  BY <1>2 DEF BeginSend, BeginSystem, db, client
<1>3. ASSUME NEW c \in Caller,
             \/ Find(c) \/ IncrScript(c) \/ ReadSeed(c) \/ ReadSeedError(c) \/ InitScript(c)
             \/ RedisUnreachable(c) \/ ReplyLost(c) \/ Fallback(c)
             \/ InsertConflict(c) \/ Relookup(c) \/ Fail(c)
      PROVE  Same
  BY <1>3 DEF Find, IncrScript, ReadSeed, ReadSeedError, InitScript, RedisUnreachable,
              ReplyLost, Fallback, InsertConflict, Relookup, Fail, db, client
<1>4. ASSUME NEW c \in Caller, InsertMessage(c) \/ InsertError(c)
      PROVE  \/ Same
             \/ /\ \E o \in Op, n \in Nat : ~ Conflict(o, n) /\ Store(o, n)
                /\ UNCHANGED acks
  <2>1. op[c] \in Op /\ seq[c] \in Nat /\ UNCHANGED acks
    BY <1>4 DEF InsertMessage, InsertError, IInv, CallOK, TypeOK, client
  <2>2. UNCHANGED db \/ (~ Conflict(op[c], seq[c]) /\ Store(op[c], seq[c]))
    BY <1>4 DEF InsertMessage, InsertError
  <2> QED BY <2>1, <2>2 DEF db
<1>5. ASSUME NEW c \in Caller, Reply(c)
      PROVE  /\ \E s \in Send : \E m \in Found(s) : acks' = acks \union {[send |-> s, msg |-> m]}
             /\ UNCHANGED <<log, recalled, outbox>>
  BY <1>5 DEF Reply, IInv, CallOK, db
<1>6. ASSUME NEW r \in Recaller, RecallFail(r) \/ (\E m \in log : RecallLookup(r, m))
      PROVE  Same
  BY <1>6 DEF RecallFail, RecallLookup, db, client
<1>7. ASSUME NEW r \in Recaller, RecallTx(r)
      PROVE  \/ Same
             \/ /\ \E m \in log : /\ m.sender # System
                                  /\ Id(m) \notin recalled
                                  /\ recalled' = recalled \union {Id(m)}
                                  /\ outbox' = Append(outbox, [type |-> "recalled", id |-> Id(m)])
                /\ UNCHANGED <<log, acks>>
  <2>1. target[r] \in log /\ target[r].sender # System /\ UNCHANGED <<log, acks>>
    BY <1>7 DEF RecallTx, IInv, TargetOK, client
  <2> QED BY <1>7, <2>1 DEF RecallTx
<1>8. CASE RedisDown \/ RedisBack
  BY <1>8 DEF RedisDown, RedisBack, db, client
<1> QED BY <1>1, <1>2, <1>3, <1>4, <1>5, <1>6, <1>7, <1>8 DEF Next, CallStep

\* repo.go:480, "stored if and only if queued": the outbox rows of a committed
\* message and of its recall are there exactly once and in that order.
THEOREM StoredExactlyQueued == Spec => []StoredIffQueued
<1> DEFINE Event(t, m) == [type |-> t, id |-> Id(m)]
<1>1. Init => StoredIffQueued
  BY DEF Init, StoredIffQueued
<1>2. ASSUME IInv, StoredIffQueued, [Next]_vars PROVE StoredIffQueued'
  <2>0. PICK len \in Nat : len = Len(outbox) /\ DOMAIN outbox = 1..len
    BY <1>2 DEF IInv, TypeOK
  <2>1. CASE UNCHANGED <<log, recalled, outbox, acks>>
    BY <1>2, <2>1 DEF StoredIffQueued, OnlyAt
  <2>2. ASSUME NEW o \in Op, NEW n \in Nat, ~ Conflict(o, n), Store(o, n)
        PROVE  StoredIffQueued'
    <3>0. PICK new : new = [group |-> o.group, seq |-> n, sender |-> o.sender, cid |-> o.cid]
      OBVIOUS
    <3>1. /\ Id(new) = <<o.group, n>>
          /\ log' = log \union {new} /\ outbox' = Append(outbox, Event("created", new))
          /\ UNCHANGED recalled
      BY <2>2, <3>0 DEF Store, Id
    <3>2. \A m \in log : Id(m) # Id(new)
      BY <2>2, <3>0 DEF Conflict, Id
    <3>3. Id(new) \notin recalled
      BY <1>2, <3>2 DEF IInv, TypeOK
    <3>4. /\ DOMAIN outbox' = 1..(len + 1)
          /\ outbox'[len + 1] = Event("created", new)
          /\ \A k \in 1..len : outbox'[k] = outbox[k]
      BY <1>2, <2>0, <3>1 DEF IInv, TypeOK
    <3>5. \A k \in 1..len : outbox[k].id # Id(new)
      BY <1>2, <2>0, <3>2 DEF StoredIffQueued
    <3>6. \A m \in log, t \in {"created", "recalled"}, k \in 1..len :
            OnlyAt(Event(t, m), k) => OnlyAt(Event(t, m), k)'
      BY <2>0, <3>2, <3>4 DEF OnlyAt
    <3>7. OnlyAt(Event("created", new), len + 1)'
      <4>1. \A k \in 1..len : outbox[k] # Event("created", new)
        BY <3>5
      <4> QED BY <2>0, <3>4, <4>1 DEF OnlyAt
    <3>8. \A m \in log' : \E k \in DOMAIN outbox' : OnlyAt(Event("created", m), k)'
      <4>1. \A m \in log : \E k \in 1..len : OnlyAt(Event("created", m), k)
        BY <1>2, <2>0 DEF StoredIffQueued
      <4>2. \A m \in log : \E k \in 1..len : OnlyAt(Event("created", m), k)'
        BY <3>6, <4>1
      <4>3. 1..len \subseteq DOMAIN outbox' /\ len + 1 \in DOMAIN outbox'
        BY <2>0, <3>4
      <4> QED BY <3>1, <3>7, <4>2, <4>3
    <3>9. \A m \in log' : Id(m) \in recalled' =>
            \E j, k \in DOMAIN outbox' :
              OnlyAt(Event("created", m), j)' /\ OnlyAt(Event("recalled", m), k)' /\ j < k
      <4>1. \A m \in log : Id(m) \in recalled =>
              \E j, k \in 1..len :
                OnlyAt(Event("created", m), j) /\ OnlyAt(Event("recalled", m), k) /\ j < k
        BY <1>2, <2>0 DEF StoredIffQueued
      <4>2. \A m \in log : Id(m) \in recalled =>
              \E j, k \in 1..len :
                OnlyAt(Event("created", m), j)' /\ OnlyAt(Event("recalled", m), k)' /\ j < k
        BY <3>6, <4>1
      <4>3. 1..len \subseteq DOMAIN outbox'
        BY <2>0, <3>4
      <4>4. ASSUME NEW m \in log', Id(m) \in recalled'
            PROVE  m \in log /\ Id(m) \in recalled
        BY <3>1, <3>3, <4>4
      <4> QED BY <4>2, <4>3, <4>4
    <3>10. \A k \in DOMAIN outbox' :
             /\ \E m \in log' : outbox'[k].id = Id(m)
             /\ outbox'[k].type = "recalled" => outbox'[k].id \in recalled'
      BY <1>2, <2>0, <3>1, <3>4 DEF StoredIffQueued
    <3> QED BY <3>8, <3>9, <3>10 DEF StoredIffQueued, Id
  <2>3. ASSUME NEW t \in log, Id(t) \notin recalled, recalled' = recalled \union {Id(t)},
               outbox' = Append(outbox, Event("recalled", t)), UNCHANGED log
        PROVE  StoredIffQueued'
    <3>1. /\ DOMAIN outbox' = 1..(len + 1)
          /\ outbox'[len + 1] = Event("recalled", t)
          /\ \A k \in 1..len : outbox'[k] = outbox[k]
      BY <1>2, <2>0, <2>3 DEF IInv, TypeOK
    <3>2. \A m \in log, k \in 1..len :
            OnlyAt(Event("created", m), k) => OnlyAt(Event("created", m), k)'
      BY <2>0, <3>1 DEF OnlyAt
    <3>3. \A m \in log, k \in 1..len :
            Id(m) # Id(t) /\ OnlyAt(Event("recalled", m), k) => OnlyAt(Event("recalled", m), k)'
      BY <2>0, <3>1 DEF OnlyAt
    <3>4. \A k \in 1..len : outbox[k] # Event("recalled", t)
      BY <1>2, <2>0, <2>3 DEF StoredIffQueued
    <3>5. OnlyAt(Event("recalled", t), len + 1)'
      BY <2>0, <3>1, <3>4 DEF OnlyAt
    <3>6. \A m \in log' : \E k \in DOMAIN outbox' : OnlyAt(Event("created", m), k)'
      BY <1>2, <2>0, <2>3, <3>1, <3>2 DEF StoredIffQueued
    <3>7. ASSUME NEW m \in log', Id(m) \in recalled'
          PROVE  \E j, k \in DOMAIN outbox' :
                   OnlyAt(Event("created", m), j)' /\ OnlyAt(Event("recalled", m), k)' /\ j < k
      <4>1. CASE Id(m) # Id(t)
        BY <1>2, <2>0, <2>3, <3>1, <3>2, <3>3, <3>7, <4>1 DEF StoredIffQueued
      <4>2. CASE Id(m) = Id(t)
        <5>1. PICK j \in 1..len : OnlyAt(Event("created", m), j)
          BY <1>2, <2>0, <2>3 DEF StoredIffQueued
        <5>2. OnlyAt(Event("created", m), j)' /\ OnlyAt(Event("recalled", m), len + 1)' /\ j < len + 1
          BY <2>0, <2>3, <3>2, <3>5, <4>2, <5>1
        <5> QED BY <2>0, <3>1, <5>2
      <4> QED BY <4>1, <4>2
    <3>8. \A k \in DOMAIN outbox' :
            /\ \E m \in log' : outbox'[k].id = Id(m)
            /\ outbox'[k].type = "recalled" => outbox'[k].id \in recalled'
      BY <1>2, <2>0, <2>3, <3>1 DEF StoredIffQueued
    <3> QED BY <3>6, <3>7, <3>8 DEF StoredIffQueued, Id
  <2>4. CASE UNCHANGED <<log, recalled, outbox>>
    BY <1>2, <2>4 DEF StoredIffQueued, OnlyAt
  <2> QED BY <1>2, <2>1, <2>2, <2>3, <2>4, StepEffect
<1> QED BY <1>1, <1>2, Invariance, PTL DEF Spec

\* The send path implements the message log.
THEOREM Implements == Spec => ImplementsMessageLog
<1>1. Init => Abstract!Init
  BY DEF Init, Abstract!Init
<1>2. IInv /\ [Next]_vars => [Abstract!Next]_(Abstract!vars)
  <2> SUFFICES ASSUME IInv, [Next]_vars PROVE [Abstract!Next]_(Abstract!vars)
    OBVIOUS
  <2>1. CASE UNCHANGED <<log, recalled, outbox, acks>>
    BY <2>1 DEF Abstract!vars
  <2>2. ASSUME NEW o \in Op, NEW n \in Nat, ~ Conflict(o, n), Store(o, n), UNCHANGED acks
        PROVE  Abstract!Next
    <3> DEFINE new == [group |-> o.group, seq |-> n, sender |-> o.sender, cid |-> o.cid]
    <3>1. new \in Abstract!Message
      BY OpType DEF Abstract!Message, Abstract!Op, Abstract!SystemOp, Message, Op, SystemOp
    <3>2. \A k \in log : Abstract!Id(k) # Abstract!Id(new)
      BY <2>2 DEF Conflict, Abstract!Id
    <3>3. new.sender # System => \A k \in log : ~ Abstract!Answers(k, new)
      BY <2>2 DEF Conflict, Found, Abstract!Answers
    <3>4. Abstract!Publish(new)
      BY <2>2, <3>1, <3>2, <3>3 DEF Store, Abstract!Publish, Abstract!Id
    <3>5. new \in log'
      BY <2>2 DEF Store
    <3> QED BY <3>4, <3>5 DEF Abstract!Next
  <2>3. ASSUME NEW m \in log, m.sender # System, Id(m) \notin recalled,
               recalled' = recalled \union {Id(m)},
               outbox' = Append(outbox, [type |-> "recalled", id |-> Id(m)]),
               UNCHANGED <<log, acks>>
        PROVE  Abstract!Next
    BY <2>3 DEF Abstract!Next, Abstract!Recall, Abstract!Id, Id
  <2>4. ASSUME NEW s \in Send, NEW m \in Found(s), acks' = acks \union {[send |-> s, msg |-> m]},
               UNCHANGED <<log, recalled, outbox>>
        PROVE  Abstract!Next
    <3>1. m \in log /\ Abstract!Acknowledge(s, m)
      BY <2>4 DEF Found, Abstract!Acknowledge, Abstract!Answers
    <3> QED BY <3>1 DEF Abstract!Next
  <2> QED BY <2>1, <2>2, <2>3, <2>4, StepEffect
<1> QED BY <1>1, <1>2, Invariance, PTL DEF Spec, Abstract!Spec, ImplementsMessageLog

-----------------------------------------------------------------------------
\* As long as Redis answers, its counter is ahead of all that was given out.
Counted ==
  /\ redisUp /\ \A c \in Caller : pc[c] # "fallback"
  /\ \A m \in log : m.seq =< counter[m.group]
  /\ \A c \in Caller : pc[c] = "insert" => seq[c] =< counter[op[c].group]
  /\ AllocationUnique
CountedWhileUp == redisFaults = 0 => Counted

\* Steps that take no number and store nothing.
LEMMA CountedLocal ==
  ASSUME TypeOK, Counted, UNCHANGED <<log, redis>>,
         \A c \in Caller : /\ pc'[c] # "fallback"
                           /\ pc'[c] = "insert" => pc[c] = "insert" /\ op'[c] = op[c] /\ seq'[c] = seq[c]
  PROVE  Counted'
<1>1. redisUp' = redisUp /\ counter' = counter /\ log' = log
  BY DEF redis
<1>2. AllocationUnique'
  BY <1>1 DEF AllocationUnique, Counted
<1> QED BY <1>1, <1>2 DEF Counted

\* A number that is taken from the counter is above all that was given out.
LEMMA CountedTaken ==
  ASSUME TypeOK, Counted, NEW c \in Caller, op[c].group \in Group, pc[c] # "insert",
         NEW n \in Nat, n > counter[op[c].group],
         counter' = [counter EXCEPT ![op[c].group] = n], seq' = [seq EXCEPT ![c] = n],
         pc' = [pc EXCEPT ![c] = "insert"], UNCHANGED <<log, op, redisUp>>,
         \A d \in Caller : pc[d] = "insert" => op[d].group \in Group
  PROVE  Counted'
<1>1. /\ \A g \in Group : counter[g] =< counter'[g] /\ counter[g] \in Int /\ counter'[g] \in Int
      /\ counter'[op[c].group] = n
  <2>1. \A g \in Group : counter[g] \in Int
    BY DEF TypeOK, NoKey
  <2>2. counter'[op[c].group] = n /\ \A g \in Group : g # op[c].group => counter'[g] = counter[g]
    BY DEF TypeOK
  <2> QED BY <2>1, <2>2
<1>2. /\ \A d \in Caller : /\ pc'[d] = IF d = c THEN "insert" ELSE pc[d]
                           /\ seq'[d] = IF d = c THEN n ELSE seq[d]
                           /\ seq[d] \in Nat
  BY DEF TypeOK
<1>3. \A m \in log : m.group \in Group /\ m.seq \in Nat
  BY DEF TypeOK, Message
<1>4. \A m \in log : m.seq =< counter'[m.group] /\ (m.group = op[c].group => m.seq < n)
  BY <1>1, <1>3 DEF Counted
<1>5. \A d \in Caller \ {c} : pc[d] = "insert" =>
        seq[d] =< counter'[op[d].group] /\ (op[d].group = op[c].group => seq[d] < n)
  BY <1>1, <1>2 DEF Counted
<1>6. AllocationUnique'
  <2> SUFFICES ASSUME NEW d \in Caller, pc'[d] = "insert"
               PROVE  /\ \A m \in log : m.group = op[d].group => m.seq # seq'[d]
                      /\ \A e \in Caller \ {d} :
                           pc'[e] = "insert" /\ op[e].group = op[d].group => seq'[e] # seq'[d]
    BY DEF AllocationUnique
  <2>1. CASE d = c
    <3>1. \A m \in log : m.group = op[d].group => m.seq # n
      BY <1>3, <1>4, <2>1
    <3>2. \A e \in Caller \ {d} : pc[e] = "insert" /\ op[e].group = op[d].group => seq[e] # n
      BY <1>2, <1>5, <2>1
    <3> QED BY <1>2, <2>1, <3>1, <3>2
  <2>2. CASE d # c
    <3>1. pc[d] = "insert" /\ seq'[d] = seq[d]
      BY <1>2, <2>2
    <3>2. op[c].group = op[d].group => n # seq[d]
      BY <1>2, <1>5, <2>2, <3>1
    <3> QED BY <1>2, <3>1, <3>2 DEF Counted, AllocationUnique
  <2> QED BY <2>1, <2>2
<1>7. \A d \in Caller : pc'[d] # "fallback" /\ (pc'[d] = "insert" => seq'[d] =< counter'[op'[d].group])
  BY <1>1, <1>2, <1>5 DEF Counted
<1> QED BY <1>4, <1>6, <1>7 DEF Counted

\* A number that is stored is not in hand any more.
LEMMA CountedStored ==
  ASSUME TypeOK, Counted, NEW c \in Caller, pc[c] = "insert", op[c].group \in Group, Store(op[c], seq[c]),
         UNCHANGED redis, pc'[c] \notin {"insert", "fallback"},
         \A d \in Caller \ {c} : pc'[d] = pc[d] /\ op'[d] = op[d] /\ seq'[d] = seq[d]
  PROVE  Counted'
<1> DEFINE m == [group |-> op[c].group, seq |-> seq[c], sender |-> op[c].sender, cid |-> op[c].cid]
<1>1. log' = log \union {m} /\ m.group = op[c].group /\ m.seq = seq[c]
  BY DEF Store
<1> HIDE DEF m
<1>2. redisUp' = redisUp /\ counter' = counter
  BY DEF redis
<1>3. \A k \in log' : k.seq =< counter'[k.group]
  BY <1>1, <1>2 DEF Counted
<1>4. AllocationUnique'
  <2> SUFFICES ASSUME NEW d \in Caller, pc'[d] = "insert"
               PROVE  /\ \A k \in log' : k.group = op'[d].group => k.seq # seq'[d]
                      /\ \A e \in Caller \ {d} :
                           pc'[e] = "insert" /\ op'[e].group = op'[d].group => seq'[e] # seq'[d]
    BY DEF AllocationUnique
  <2>1. d # c /\ pc[d] = "insert" /\ op'[d] = op[d] /\ seq'[d] = seq[d]
    OBVIOUS
  <2>2. op[c].group = op[d].group => seq[c] # seq[d]
    BY <2>1 DEF Counted, AllocationUnique
  <2> QED BY <1>1, <2>1, <2>2 DEF Counted, AllocationUnique
<1>5. \A d \in Caller : pc'[d] # "fallback" /\ (pc'[d] = "insert" => seq'[d] =< counter'[op'[d].group])
  BY <1>2 DEF Counted
<1> QED BY <1>2, <1>3, <1>4, <1>5 DEF Counted

LEMMA CountedStep == ASSUME IInv, CountedWhileUp, [Next]_vars PROVE CountedWhileUp'
<1> SUFFICES ASSUME redisFaults' = 0 PROVE Counted'
  BY DEF CountedWhileUp
<1>1. redisFaults \in Nat /\ TypeOK
  BY DEF IInv, TypeOK
<1>2. ~RedisFault
  BY <1>1 DEF RedisFault
<1>3. redisFaults = 0
  BY <1>2 DEF Next, CallStep, vars, budget, BeginSend, BeginSystem, Find, IncrScript, ReadSeed, ReadSeedError,
         InitScript, RedisUnreachable, ReplyLost, Fallback, InsertMessage, InsertConflict, InsertError,
         Relookup, Reply, Fail, RecallLookup, RecallTx, RecallFail, RedisDown, RedisBack
<1>4. Counted
  BY <1>3 DEF CountedWhileUp
<1>5. /\ pc \in [Caller -> Step] /\ op \in [Caller -> Op \union {None}] /\ seq \in [Caller -> Nat]
      /\ \A c \in Caller : pc[c] # "idle" => op[c] \in Op /\ op[c].group \in Group
                                             /\ counter[op[c].group] \in Nat \union {NoKey}
  <2>1. \A c \in Caller : pc[c] # "idle" => op[c] \in Op /\ op[c].group \in Group
    BY OpType DEF IInv, CallOK
  <2> QED BY <1>1, <2>1 DEF TypeOK
<1>6. ASSUME NEW c \in Caller,
             \/ \E s \in Send : BeginSend(c, s)
             \/ \E g \in Group : BeginSystem(c, g)
             \/ Find(c) \/ ReadSeed(c) \/ ReadSeedError(c) \/ InsertConflict(c) \/ Relookup(c)
             \/ Reply(c) \/ Fail(c)
      PROVE  Counted'
  <2>1. UNCHANGED <<log, redis>>
    BY <1>6 DEF BeginSend, BeginSystem, Find, ReadSeed, ReadSeedError, InsertConflict, Relookup, Reply, Fail, db
  <2>2. \E l \in Step \ {"insert", "fallback"} :
          pc' = [pc EXCEPT ![c] = l]
    BY <1>6 DEF BeginSend, BeginSystem, Find, ReadSeed, ReadSeedError, InsertConflict, AfterInsertError,
           Relookup, Reply, Fail, Return, Goto, Step
  <2>3. \A d \in Caller \ {c} : op'[d] = op[d] /\ seq'[d] = seq[d]
    BY <1>5, <1>6 DEF BeginSend, BeginSystem, Find, ReadSeed, ReadSeedError, InsertConflict, AfterInsertError,
           Relookup, Reply, Fail, Return
  <2> QED BY <1>1, <1>4, <1>5, <2>1, <2>2, <2>3, CountedLocal DEF Counted
<1>7. ASSUME NEW c \in Caller, IncrScript(c) PROVE Counted'
  <2>1. pc[c] = "incr" /\ op[c].group \in Group /\ counter[op[c].group] \in Nat \union {NoKey}
    BY <1>5, <1>7 DEF IncrScript
  <2>2. CASE counter[op[c].group] = NoKey
    <3>1. UNCHANGED <<log, redis, op, seq>> /\ pc' = [pc EXCEPT ![c] = "seed"]
      BY <1>7, <2>2 DEF IncrScript, db, redis, Goto
    <3> QED BY <1>1, <1>4, <1>5, <3>1, CountedLocal DEF Counted
  <2>3. CASE counter[op[c].group] # NoKey
    <3> DEFINE n == counter[op[c].group] + 1
    <3>1. n \in Nat /\ n > counter[op[c].group]
      BY <2>1, <2>3
    <3>2. /\ counter' = [counter EXCEPT ![op[c].group] = n] /\ seq' = [seq EXCEPT ![c] = n]
          /\ pc' = [pc EXCEPT ![c] = "insert"] /\ UNCHANGED <<log, op, redisUp>>
      BY <1>7, <2>3 DEF IncrScript, db, Goto
    <3> HIDE DEF n
    <3> QED BY <1>1, <1>4, <1>5, <2>1, <3>1, <3>2, CountedTaken
  <2> QED BY <2>2, <2>3
<1>8. ASSUME NEW c \in Caller, InitScript(c) PROVE Counted'
  <2>1. /\ pc[c] = "init" /\ op[c].group \in Group /\ counter[op[c].group] \in Nat \union {NoKey}
        /\ seed[c] \in Nat
    BY <1>1, <1>5, <1>8 DEF InitScript, TypeOK
  <2> DEFINE n == Seeded(c) + 1
  <2>2. n \in Nat /\ n > counter[op[c].group]
    BY <2>1 DEF Seeded, NoKey
  <2>3. /\ counter' = [counter EXCEPT ![op[c].group] = n] /\ seq' = [seq EXCEPT ![c] = n]
        /\ pc' = [pc EXCEPT ![c] = "insert"] /\ UNCHANGED <<log, op, redisUp>>
    BY <1>8 DEF InitScript, db, Goto
  <2> HIDE DEF n
  <2> QED BY <1>1, <1>4, <1>5, <2>1, <2>2, <2>3, CountedTaken
<1>9. ASSUME NEW c \in Caller, InsertMessage(c) \/ InsertError(c) PROVE Counted'
  <2>1. pc[c] = "insert" /\ op[c].group \in Group /\ UNCHANGED redis
    BY <1>5, <1>9 DEF InsertMessage, InsertError
  <2>2. \E l \in {"reply", "relookup", "idle"} : pc' = [pc EXCEPT ![c] = l]
    BY <1>9 DEF InsertMessage, InsertError, AfterInsertError, Return, Goto
  <2>3. \A d \in Caller \ {c} : pc'[d] = pc[d] /\ op'[d] = op[d] /\ seq'[d] = seq[d]
    BY <1>5, <1>9, <2>2 DEF InsertMessage, InsertError, AfterInsertError, Return
  <2>4. pc'[c] \notin {"insert", "fallback"}
    BY <1>5, <2>2
  <2>5. CASE Store(op[c], seq[c])
    BY <1>1, <1>4, <2>1, <2>3, <2>4, <2>5, CountedStored
  <2>6. CASE UNCHANGED db
    <3>1. \A d \in Caller : /\ pc'[d] # "fallback"
                            /\ pc'[d] = "insert" => pc[d] = "insert" /\ op'[d] = op[d] /\ seq'[d] = seq[d]
      BY <1>4, <2>3, <2>4 DEF Counted
    <3> QED BY <1>1, <1>4, <2>1, <2>6, <3>1, CountedLocal DEF db
  <2> QED BY <1>9, <2>5, <2>6 DEF InsertMessage, InsertError
<1>10. ASSUME NEW c \in Caller PROVE ~RedisUnreachable(c) /\ ~Fallback(c) /\ ~ReplyLost(c)
  BY <1>2, <1>4 DEF Counted, RedisUnreachable, Fallback, ReplyLost
<1>11. ~RedisDown /\ ~RedisBack
  BY <1>2, <1>4 DEF Counted, RedisDown, RedisBack
<1>12. CASE UNCHANGED <<log, redis, call>>
  BY <1>1, <1>4, <1>12, CountedLocal DEF Counted, call
<1>13. ASSUME NEW r \in Recaller, (\E m \in log : RecallLookup(r, m)) \/ RecallTx(r) \/ RecallFail(r)
       PROVE  UNCHANGED <<log, redis, call>>
  BY <1>13 DEF RecallLookup, RecallTx, RecallFail, db
<1> QED BY <1>6, <1>7, <1>8, <1>9, <1>10, <1>11, <1>12, <1>13 DEF Next, CallStep, vars, db

\* service.go:563: as long as Redis never failed, no two calls hold one sequence
\* of a group and none holds one that is stored, however many cold starts race
\* to seed the counter and whatever maximum each of them read (seqInitScript
\* sets the key only if it is absent).
THEOREM AllocationIsUnique == Spec => []AllocationUniqueWhileUp
<1>1. Init => CountedWhileUp
  BY DEF Init, CountedWhileUp, Counted, AllocationUnique
<1>2. IInv /\ CountedWhileUp /\ [Next]_vars => CountedWhileUp'
  BY CountedStep
<1>3. CountedWhileUp => AllocationUniqueWhileUp
  BY DEF CountedWhileUp, Counted, AllocationUniqueWhileUp
<1> QED BY <1>1, <1>2, <1>3, Invariance, PTL DEF Spec
=============================================================================
