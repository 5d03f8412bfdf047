------------------------------ MODULE SendPath ------------------------------
(***************************************************************************)
(* service.SendGroupMessage, createSystemMessage, nextSequence and         *)
(* RecallMessage, with the statements of repo.go they run, as they are     *)
(* executed by concurrent request goroutines of any number of API          *)
(* processes over one MySQL and one Redis.                                 *)
(*                                                                         *)
(* A step is one round trip to MySQL or Redis: the repo's transactions     *)
(* are atomic (InnoDB row locks, and unique keys that make a concurrent    *)
(* insert wait), the two Lua scripts are atomic, and nothing else is.      *)
(* InsertMessage takes the row lock of chat_group before it inserts into   *)
(* message_outbox, so rows of one group get their ids in commit order.     *)
(*                                                                         *)
(* Modelled failures: Redis unreachable, a Redis restart that loses or     *)
(* rolls back the counter, a script whose reply is lost after it ran, a    *)
(* request that ends early (refused by the checks of lines 444-478, a      *)
(* database error, a crash of the process), an INSERT that fails or whose  *)
(* commit succeeds although the client is told it failed, and an           *)
(* acknowledgement that never reaches the client, which then retries with  *)
(* the same client message id.  The membership and group checks are the    *)
(* subject of other modules; here they only decide whether Fail happens.   *)
(* Kafka is enabled: with it disabled outboxFor returns nil and no outbox  *)
(* row is written.                                                         *)
(***************************************************************************)
EXTENDS Integers, Sequences, FiniteSets

CONSTANTS
  Group,           \* group ids
  Send,            \* sends the clients want: [group, sender, cid]
  System,          \* sender_id 0, never a client
  Table,           \* Table[g] is messageTable(g): which shard holds group g
  Caller,          \* request goroutines serving sends and system messages
  Recaller,        \* request goroutines serving recalls
  None,            \* no value
  MaxSystem,       \* bound: system messages started
  MaxCallFaults,   \* bound: requests failed, replies lost
  MaxRedisFaults   \* bound: outages, restarts and lost replies of Redis

SystemOp(g) == [group |-> g, sender |-> System, cid |-> System]
Op == Send \union {SystemOp(g) : g \in Group}

ASSUME SendAssumption ==
  /\ \A s \in Send : s.group \in Group /\ s.sender # System
  /\ \A s \in Send : s = [group |-> s.group, sender |-> s.sender, cid |-> s.cid]

ASSUME BoundAssumption ==
  MaxSystem \in Nat /\ MaxCallFaults \in Nat /\ MaxRedisFaults \in Nat

ASSUME NoneAssumption == None \notin Op

VARIABLES
  log,          \* rows of the message tables: set of [group, seq, sender, cid]
  recalled,     \* ids <<group, seq>> of the rows with status 'recalled'
  maxSequence,  \* maxSequence[g]: chat_group.max_sequence
  outbox,       \* message_outbox by id: sequence of [type, id]
  counter,      \* counter[g]: Redis key group:<g>:sequence, NoKey if absent
  redisUp,      \* whether Redis answers
  pc,           \* pc[c]: where goroutine c is
  op,           \* op[c]: the request it serves
  seq,          \* seq[c]: the sequence it was given
  seed,         \* seed[c]: the maximum it read to seed the counter with
  answer,       \* answer[c]: the message SendGroupMessage returns
  target,       \* target[r]: message a recall has looked up and checked
  acks,         \* history: every acknowledgement sent, [send, msg]
  got,          \* sends whose client has received an acknowledgement
  systems, callFaults, redisFaults   \* budgets used

db     == <<log, recalled, maxSequence, outbox>>
redis  == <<counter, redisUp>>
call   == <<pc, op, seq, seed, answer>>
client == <<acks, got>>
budget == <<systems, callFaults, redisFaults>>
vars   == <<db, redis, call, target, client, budget>>

NoKey == -1

Message == [group : Group, seq : Nat, sender : {o.sender : o \in Op}, cid : {o.cid : o \in Op}]
Id(m) == <<m.group, m.seq>>

Step == {"idle", "find", "incr", "seed", "init", "fallback", "insert",
         "relookup", "reply"}

-----------------------------------------------------------------------------
(* MySQL, as the statements of repo.go see it.                             *)

\* SELECT MAX(sequence) ... WHERE group_id = g, 0 when there is no row.
MaxSequence(g) ==
  LET used == {0} \union {m.seq : m \in {k \in log : k.group = g}}
  IN  CHOOSE n \in used : \A k \in used : k =< n

\* FindMessageByClientID looks up (sender_id, client_message_id) in the table
\* of the group: the group itself is not part of the key.
Found(o) == {m \in log : /\ Table[m.group] = Table[o.group]
                         /\ m.sender = o.sender
                         /\ m.cid = o.cid}

\* Mutants: a table without one of its unique keys.
ConflictNoClientKey(o, n) == \E m \in log : m.group = o.group /\ m.seq = n
ConflictNoSequenceKey(o, n) == o.sender # System /\ Found(o) # {}

\* The unique keys of group_message: uk_group_sequence, and
\* uk_sender_client_msg, which a system message with its fresh client id
\* never meets.
Conflict(o, n) ==
  \/ \E m \in log : m.group = o.group /\ m.seq = n
  \/ o.sender # System /\ Found(o) # {}

\* Mutants: max_sequence set without GREATEST; the event left out of the transaction.
StoreLast(o, n) ==
  /\ log' = log \union {[group |-> o.group, seq |-> n, sender |-> o.sender, cid |-> o.cid]}
  /\ maxSequence' = [maxSequence EXCEPT ![o.group] = n]
  /\ outbox' = Append(outbox, [type |-> "created", id |-> <<o.group, n>>])
  /\ UNCHANGED recalled
StoreSilently(o, n) ==
  /\ log' = log \union {[group |-> o.group, seq |-> n, sender |-> o.sender, cid |-> o.cid]}
  /\ maxSequence' = [maxSequence EXCEPT ![o.group] = IF @ < n THEN n ELSE @]
  /\ UNCHANGED <<recalled, outbox>>

\* The committed effect of InsertMessage.
Store(o, n) ==
  /\ log' = log \union {[group |-> o.group, seq |-> n, sender |-> o.sender, cid |-> o.cid]}
  /\ maxSequence' = [maxSequence EXCEPT ![o.group] = IF @ < n THEN n ELSE @]
  /\ outbox' = Append(outbox, [type |-> "created", id |-> <<o.group, n>>])
  /\ UNCHANGED recalled

-----------------------------------------------------------------------------
Init ==
  /\ log = {} /\ recalled = {} /\ outbox = <<>>
  /\ maxSequence = [g \in Group |-> 0]
  /\ counter = [g \in Group |-> NoKey]
  /\ redisUp = TRUE
  /\ pc = [c \in Caller |-> "idle"]
  /\ op = [c \in Caller |-> None]
  /\ seq = [c \in Caller |-> 0]
  /\ seed = [c \in Caller |-> 0]
  /\ answer = [c \in Caller |-> None]
  /\ target = [r \in Recaller |-> None]
  /\ acks = {} /\ got = {}
  /\ systems = 0 /\ callFaults = 0 /\ redisFaults = 0

Goto(c, l) == pc' = [pc EXCEPT ![c] = l]

\* The goroutine returns: its locals are gone.
Return(c) ==
  /\ Goto(c, "idle")
  /\ op' = [op EXCEPT ![c] = None]
  /\ seq' = [seq EXCEPT ![c] = 0]
  /\ seed' = [seed EXCEPT ![c] = 0]
  /\ answer' = [answer EXCEPT ![c] = None]

CallFault  == callFaults < MaxCallFaults /\ callFaults' = callFaults + 1
RedisFault == redisFaults < MaxRedisFaults /\ redisFaults' = redisFaults + 1

-----------------------------------------------------------------------------
(* A client sends, or sends again, as long as it has seen no               *)
(* acknowledgement: two calls for one client id may run at the same time,  *)
(* because the client's timeout does not stop the first.                   *)
BeginSend(c, s) ==
  /\ pc[c] = "idle"
  /\ s \notin got
  /\ Goto(c, "find")
  /\ op' = [op EXCEPT ![c] = s]
  /\ UNCHANGED <<db, redis, seq, seed, answer, target, client, budget>>

\* createSystemMessage, called at the end of a membership or settings change.
BeginSystem(c, g) ==
  /\ pc[c] = "idle"
  /\ systems < MaxSystem /\ systems' = systems + 1
  /\ Goto(c, "incr")
  /\ op' = [op EXCEPT ![c] = SystemOp(g)]
  /\ UNCHANGED <<db, redis, seq, seed, answer, target, client, callFaults, redisFaults>>

\* The idempotency look-up: a hit is returned, a miss goes on to the checks.
Find(c) ==
  /\ pc[c] = "find"
  /\ \/ /\ Found(op[c]) = {}
        /\ Goto(c, "incr")
        /\ UNCHANGED answer
     \/ \E m \in Found(op[c]) :
          /\ Goto(c, "reply")
          /\ answer' = [answer EXCEPT ![c] = m]
  /\ UNCHANGED <<db, redis, op, seq, seed, target, client, budget>>

\* Mutant: the script reads the counter and does not move it.
IncrScriptGet(c) ==
  /\ pc[c] = "incr" /\ redisUp
  /\ LET g == op[c].group IN
     IF counter[g] = NoKey
     THEN Goto(c, "seed") /\ UNCHANGED seq
     ELSE Goto(c, "insert") /\ seq' = [seq EXCEPT ![c] = counter[g]]
  /\ UNCHANGED <<db, redis, op, seed, answer, target, client, budget>>

\* seqIncrScript: -1 when the key is missing, INCR otherwise.
IncrScript(c) ==
  /\ pc[c] = "incr" /\ redisUp
  /\ LET g == op[c].group IN
     IF counter[g] = NoKey
     THEN /\ Goto(c, "seed")
          /\ UNCHANGED <<counter, seq>>
     ELSE /\ counter' = [counter EXCEPT ![g] = @ + 1]
          /\ seq' = [seq EXCEPT ![c] = counter[g] + 1]
          /\ Goto(c, "insert")
  /\ UNCHANGED <<db, redisUp, op, seed, answer, target, client, budget>>

\* max, _ := MaxSequence: an error here is ignored and leaves max = 0.
ReadSeed(c) ==
  /\ pc[c] = "seed"
  /\ Goto(c, "init")
  /\ seed' = [seed EXCEPT ![c] = MaxSequence(op[c].group)]
  /\ UNCHANGED <<db, redis, op, seq, answer, target, client, budget>>

ReadSeedError(c) ==
  /\ pc[c] = "seed"
  /\ CallFault
  /\ Goto(c, "init")
  /\ seed' = [seed EXCEPT ![c] = 0]
  /\ UNCHANGED <<db, redis, op, seq, answer, target, client, systems, redisFaults>>

\* Mutant: SET whether or not the key is there.
SeededAlways(c) == seed[c]

\* seqInitScript: SET if absent, then INCR.
Seeded(c) == LET g == op[c].group
             IN  IF counter[g] = NoKey THEN seed[c] ELSE counter[g]

InitScript(c) ==
  /\ pc[c] = "init" /\ redisUp
  /\ counter' = [counter EXCEPT ![op[c].group] = Seeded(c) + 1]
  /\ seq' = [seq EXCEPT ![c] = Seeded(c) + 1]
  /\ Goto(c, "insert")
  /\ UNCHANGED <<db, redisUp, op, seed, answer, target, client, budget>>

\* A Redis error sends the call to the database fallback.
RedisUnreachable(c) ==
  /\ pc[c] \in {"incr", "init"} /\ ~redisUp
  /\ Goto(c, "fallback")
  /\ UNCHANGED <<db, redis, op, seq, seed, answer, target, client, budget>>

\* The script ran and its reply was lost: the number is burnt, and the call
\* runs the script again (the Redis client's retry) or falls back.
ReplyLost(c) ==
  /\ pc[c] \in {"incr", "init"} /\ redisUp
  /\ RedisFault
  /\ LET g == op[c].group IN
     counter' = [counter EXCEPT ![g] = IF pc[c] = "init" THEN Seeded(c) + 1
                                       ELSE IF @ = NoKey THEN @ ELSE @ + 1]
  /\ \E l \in {pc[c], "fallback"} : Goto(c, l)
  /\ UNCHANGED <<db, redisUp, op, seq, seed, answer, target, client, systems, callFaults>>

\* The fallback reads MAX(sequence) + 1 and reserves nothing.
Fallback(c) ==
  /\ pc[c] = "fallback"
  /\ seq' = [seq EXCEPT ![c] = MaxSequence(op[c].group) + 1]
  /\ Goto(c, "insert")
  /\ UNCHANGED <<db, redis, op, seed, answer, target, client, budget>>

\* InsertMessage commits.  A system message has no one to answer.
InsertMessage(c) ==
  /\ pc[c] = "insert"
  /\ ~ Conflict(op[c], seq[c])
  /\ Store(op[c], seq[c])
  /\ IF op[c].sender = System
     THEN Return(c)
     ELSE /\ Goto(c, "reply")
          /\ answer' = [answer EXCEPT ![c] = [group |-> op[c].group, seq |-> seq[c],
                                sender |-> op[c].sender, cid |-> op[c].cid]]
          /\ UNCHANGED <<op, seq, seed>>
  /\ UNCHANGED <<redis, target, client, budget>>

\* After a failed INSERT, SendGroupMessage looks its client id up again;
\* createSystemMessage returns the error.
AfterInsertError(c) ==
  IF op[c].sender = System
  THEN Return(c)
  ELSE Goto(c, "relookup") /\ UNCHANGED <<op, seq, seed, answer>>

\* The INSERT meets a unique key: the transaction is rolled back.
InsertConflict(c) ==
  /\ pc[c] = "insert"
  /\ Conflict(op[c], seq[c])
  /\ AfterInsertError(c)
  /\ UNCHANGED <<db, redis, target, client, budget>>

\* Any other error: the transaction rolled back, or committed although the
\* connection broke before COMMIT was confirmed.
InsertError(c) ==
  /\ pc[c] = "insert"
  /\ CallFault
  /\ \/ UNCHANGED db
     \/ ~ Conflict(op[c], seq[c]) /\ Store(op[c], seq[c])
  /\ AfterInsertError(c)
  /\ UNCHANGED <<redis, target, client, systems, redisFaults>>

Relookup(c) ==
  /\ pc[c] = "relookup"
  /\ \/ /\ Found(op[c]) = {}
        /\ Return(c)
     \/ \E m \in Found(op[c]) :
          /\ Goto(c, "reply")
          /\ answer' = [answer EXCEPT ![c] = m]
          /\ UNCHANGED <<op, seq, seed>>
  /\ UNCHANGED <<db, redis, target, client, budget>>

\* The acknowledgement is sent and the client receives it, or it is lost.
Reply(c) ==
  /\ pc[c] = "reply"
  /\ acks' = acks \union {[send |-> op[c], msg |-> answer[c]]}
  /\ \/ got' = got \union {op[c]} /\ UNCHANGED callFaults
     \/ CallFault /\ UNCHANGED got
  /\ Return(c)
  /\ UNCHANGED <<db, redis, target, systems, redisFaults>>

\* The call ends with an error before INSERT: refused by a check, a failed
\* read, a cancelled context or a crash of the process.
Fail(c) ==
  /\ pc[c] \notin {"idle", "reply"}
  /\ CallFault
  /\ Return(c)
  /\ UNCHANGED <<db, redis, target, client, systems, redisFaults>>

-----------------------------------------------------------------------------
(* RecallMessage: a read with checks, then a conditional transaction.      *)

RecallLookup(r, m) ==
  /\ target[r] = None
  /\ m \in log /\ Id(m) \notin recalled
  /\ m.sender # System
  /\ target' = [target EXCEPT ![r] = m]
  /\ UNCHANGED <<db, redis, call, client, budget>>

\* Mutant: without AND status <> 'recalled'.
RecallTxAlways(r) ==
  /\ target[r] # None
  /\ recalled' = recalled \union {Id(target[r])}
  /\ outbox' = Append(outbox, [type |-> "recalled", id |-> Id(target[r])])
  /\ target' = [target EXCEPT ![r] = None]
  /\ UNCHANGED <<log, maxSequence, redis, call, client, budget>>

\* UPDATE ... AND status <> 'recalled', the recall record and the outbox row
\* in one transaction; no row affected is an error.
RecallTx(r) ==
  /\ target[r] # None
  /\ IF Id(target[r]) \in recalled
     THEN UNCHANGED <<recalled, outbox>>
     ELSE /\ recalled' = recalled \union {Id(target[r])}
          /\ outbox' = Append(outbox, [type |-> "recalled", id |-> Id(target[r])])
  /\ target' = [target EXCEPT ![r] = None]
  /\ UNCHANGED <<log, maxSequence, redis, call, client, budget>>

RecallFail(r) ==
  /\ target[r] # None
  /\ CallFault
  /\ target' = [target EXCEPT ![r] = None]
  /\ UNCHANGED <<db, redis, call, client, systems, redisFaults>>

-----------------------------------------------------------------------------
(* Redis.                                                                  *)

RedisDown ==
  /\ redisUp
  /\ RedisFault
  /\ redisUp' = FALSE
  /\ UNCHANGED <<db, counter, call, target, client, systems, callFaults>>

\* It comes back; after a restart a key is as it was, older or missing.
RedisBack ==
  /\ ~redisUp
  /\ redisUp' = TRUE
  /\ counter' \in {f \in [Group -> {NoKey} \union UNION {0..counter[g] : g \in Group}] :
                     \A g \in Group : f[g] =< counter[g]}
  /\ UNCHANGED <<db, call, target, client, budget>>

-----------------------------------------------------------------------------
CallStep(c) ==
  \/ Find(c) \/ IncrScript(c) \/ ReadSeed(c) \/ ReadSeedError(c) \/ InitScript(c)
  \/ RedisUnreachable(c) \/ ReplyLost(c) \/ Fallback(c) \/ InsertMessage(c)
  \/ InsertConflict(c) \/ InsertError(c) \/ Relookup(c) \/ Reply(c) \/ Fail(c)

Next ==
  \/ \E c \in Caller : \/ \E s \in Send : BeginSend(c, s)
                       \/ \E g \in Group : BeginSystem(c, g)
                       \/ CallStep(c)
  \/ \E r \in Recaller : (\E m \in log : RecallLookup(r, m)) \/ RecallTx(r) \/ RecallFail(r)
  \/ RedisDown \/ RedisBack

Spec == Init /\ [][Next]_vars

\* A started call runs on, an unanswered client tries again, and an outage of
\* Redis ends.  A caller stands for one goroutine of many, so a retry that is
\* possible again and again finds a free one (SF).
Fairness ==
  /\ \A c \in Caller : WF_vars(CallStep(c))
  /\ \A s \in Send : SF_vars(\E c \in Caller : BeginSend(c, s))
  /\ WF_vars(RedisBack)

FairSpec == Spec /\ Fairness

-----------------------------------------------------------------------------
(* Properties.                                                             *)

SameClientKey(s, t) ==
  Table[s.group] = Table[t.group] /\ s.sender = t.sender /\ s.cid = t.cid

\* The types of the state, for every goroutine, table and Redis key.
TypeOK ==
  /\ log \subseteq Message
  /\ recalled \subseteq {Id(m) : m \in log}
  /\ maxSequence \in [Group -> Nat]
  /\ outbox \in Seq([type : {"created", "recalled"}, id : Group \X Nat])
  /\ counter \in [Group -> Nat \union {NoKey}]
  /\ redisUp \in BOOLEAN
  /\ pc \in [Caller -> Step]
  /\ op \in [Caller -> Op \union {None}]
  /\ seq \in [Caller -> Nat]
  /\ seed \in [Caller -> Nat]
  /\ answer \in [Caller -> Message \union {None}]
  /\ target \in [Recaller -> Message \union {None}]
  /\ acks \subseteq [send : Send, msg : Message]
  /\ got \subseteq Send
  /\ systems \in Nat /\ callFaults \in Nat /\ redisFaults \in Nat

\* Every acknowledgement a client ever gets for one client message id, from the
\* first call, a concurrent duplicate or a retry, names one and the same stored
\* message (the look-ups of service.go:435 and 487 around the INSERT of 486).
AckAgreement ==
  /\ \A a \in acks : a.msg \in Found(a.send)
  /\ \A a, b \in acks : SameClientKey(a.send, b.send) => a.msg = b.msg

\* No two stored messages come from one client id, however calls overlap, and
\* none share a sequence, whatever Redis lost (uk_sender_client_msg and
\* uk_group_sequence are what stands behind the racy look-up and counter).
NoDuplicate ==
  \A m, n \in log :
    \/ m = n
    \/ Id(m) # Id(n) /\ ~(m.sender # System /\ SameClientKey(m, n))

\* The event e is in the outbox at k and nowhere else.
OnlyAt(e, k) == \A j \in DOMAIN outbox : outbox[j] = e <=> j = k

\* repo.go:480: a message is stored if and only if its event is queued, once;
\* a message is recalled if and only if its recall is queued, once, behind its
\* creation.
StoredIffQueued ==
  LET Event(t, m) == [type |-> t, id |-> Id(m)]
  IN  /\ \A m \in log : \E k \in DOMAIN outbox : OnlyAt(Event("created", m), k)
      /\ \A m \in log : Id(m) \in recalled =>
           \E j, k \in DOMAIN outbox :
             OnlyAt(Event("created", m), j) /\ OnlyAt(Event("recalled", m), k) /\ j < k
      /\ \A k \in DOMAIN outbox :
           /\ \E m \in log : outbox[k].id = Id(m)
           /\ outbox[k].type = "recalled" => outbox[k].id \in recalled

\* chat_group.max_sequence, which unread counts and join_sequence are computed
\* from, is the largest sequence stored, although messages commit out of order.
MaxSequenceTracksLog ==
  \A g \in Group :
    /\ \A m \in log : m.group = g => m.seq =< maxSequence[g]
    /\ maxSequence[g] # 0 => \E m \in log : m.group = g /\ m.seq = maxSequence[g]

\* service.go:563: concurrent cold starts do not give out a sequence twice, and
\* no call holds a sequence some stored message already has.
AllocationUnique ==
  \A c \in Caller : pc[c] = "insert" =>
    /\ \A m \in log : m.group = op[c].group => m.seq # seq[c]
    /\ \A d \in Caller \ {c} :
         pc[d] = "insert" /\ op[d].group = op[c].group => seq[d] # seq[c]

\* The same, as long as Redis never failed: one script call that seeds if the
\* key is absent is enough for cold starts that race.
AllocationUniqueWhileUp == redisFaults = 0 => AllocationUnique

\* A client that keeps retrying is acknowledged in the end, whatever finite
\* number of faults it meets on the way: a counter left behind by an outage
\* catches up, and an INSERT that failed is looked up or repeated.
EventuallyAcked == \A s \in Send : <>(s \in got)

\* The send path implements the message log it promises.
Abstract == INSTANCE MessageLog WITH events <- outbox
ImplementsMessageLog == Abstract!Spec
=============================================================================
