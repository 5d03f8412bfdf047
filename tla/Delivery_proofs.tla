--------------------------- MODULE Delivery_proofs --------------------------
(***************************************************************************)
(* Proofs about Delivery for any number of members, connections, nodes,    *)
(* events, attempts and faults and any size of page.                       *)
(***************************************************************************)
EXTENDS Delivery, TLAPS, FiniteSetTheorems, WellFoundedInduction

\* The rows of a table are numbers, finitely many.
Rows(S) == S \subseteq Nat /\ IsFiniteSet(S)

LEMMA Least ==
  ASSUME NEW S \in SUBSET Nat, S # {}
  PROVE  \E s \in S : \A r \in S : s =< r
<1>1. PICK s \in S : \A r \in S : ~ (<<r, s>> \in OpToRel(<, Nat))
  BY NatLessThanWellFounded, WFMin
<1>2. ASSUME NEW r \in S, r < s PROVE FALSE
  <2>1. <<r, s>> \in {ss \in Nat \X Nat : ss[1] < ss[2]}
    BY <1>2
  <2> QED BY <1>1, <2>1 DEF OpToRel
<1> QED BY <1>2

\* The rows before a row, and how many they are.
LEMMA RankFacts ==
  ASSUME NEW S, Rows(S)
  PROVE  /\ \A r \in S : Rank(S, r) \in Nat
         /\ \A r, s \in S : r < s => Rank(S, r) < Rank(S, s)
<1> DEFINE Before(r) == {q \in S : q < r}
<1>1. \A r \in S : Before(r) \in SUBSET S /\ IsFiniteSet(Before(r)) /\ Cardinality(Before(r)) \in Nat
  <2> TAKE r \in S
  <2>1. Before(r) \in SUBSET S
    OBVIOUS
  <2>2. IsFiniteSet(Before(r))
    BY <2>1, FS_Subset DEF Rows
  <2> QED BY <2>1, <2>2, FS_CardinalityType
<1>2. ASSUME NEW r \in S, NEW s \in S, r < s PROVE Rank(S, r) < Rank(S, s)
  <2>1. Before(r) \union {r} \in SUBSET Before(s) /\ r \notin Before(r)
    <3>1. \A q \in S : q < r => q < s
      BY <1>2 DEF Rows
    <3>2. r \in Before(s) /\ ~(r < r)
      BY <1>2 DEF Rows
    <3> QED BY <3>1, <3>2
  <2>2. Cardinality(Before(r) \union {r}) = Cardinality(Before(r)) + 1
    BY <1>1, <2>1, FS_AddElement
  <2>3. Cardinality(Before(r) \union {r}) =< Cardinality(Before(s))
    BY <1>1, <2>1, FS_Subset
  <2>4. Cardinality(Before(r)) < Cardinality(Before(s))
    BY <1>1, <2>2, <2>3
  <2> QED BY <2>4 DEF Rank
<1> QED BY <1>1, <1>2 DEF Rank

\* Where a row is left out, the rows taken have a last one, and it comes just
\* before the first row left out.
LEMMA LastTaken ==
  ASSUME NEW S, Rows(S), NEW n \in Nat \ {0}, NEW t \in S, Rank(S, t) >= n,
         \A r \in S : r < t => Rank(S, r) < n
  PROVE  /\ Rank(S, t) = n
         /\ \E s \in S : Rank(S, s) = n - 1
<1> DEFINE Before(r) == {q \in S : q < r}
<1>1. IsFiniteSet(Before(t)) /\ Before(t) # {} /\ Before(t) \in SUBSET Nat /\ Cardinality(Before(t)) \in Nat
  <2>1. Before(t) \in SUBSET S
    OBVIOUS
  <2>2. IsFiniteSet(Before(t))
    BY <2>1, FS_Subset DEF Rows
  <2>3. Cardinality(Before(t)) >= n
    BY DEF Rank
  <2>4. Before(t) # {}
    BY <2>3, FS_EmptySet
  <2> QED BY <2>1, <2>2, <2>4, FS_CardinalityType DEF Rows
<1>2. PICK s \in Before(t) : \A r \in Before(t) : r =< s
  <2>1. PICK u \in S : u = t
    OBVIOUS
  <2> DEFINE T == {t - r : r \in Before(t)}
  <2>2. T \in SUBSET Nat /\ T # {}
    BY <1>1 DEF Rows
  <2>3. PICK d \in T : \A e \in T : d =< e
    BY <2>2, Least
  <2>4. PICK s \in Before(t) : d = t - s
    OBVIOUS
  <2>5. \A r \in Before(t) : t - s =< t - r
    BY <2>3, <2>4
  <2>6. \A r \in Before(t) : r \in Nat /\ s \in Nat /\ t \in Nat
    BY <1>1 DEF Rows
  <2> QED BY <2>5, <2>6
<1>3. Before(t) = Before(s) \union {s} /\ s \notin Before(s) /\ IsFiniteSet(Before(s))
  <2>1. \A r \in S : r < t <=> (r < s \/ r = s)
    BY <1>2 DEF Rows
  <2>2. Before(s) \in SUBSET S /\ s \notin Before(s)
    BY DEF Rows
  <2>3. IsFiniteSet(Before(s))
    BY <2>2, FS_Subset DEF Rows
  <2> QED BY <2>1, <2>2, <2>3
<1>4. Cardinality(Before(t)) = Cardinality(Before(s)) + 1
  BY <1>3, FS_AddElement
<1>5. Rank(S, t) = Rank(S, s) + 1
  BY <1>4 DEF Rank
<1>6. Rank(S, s) < n /\ Rank(S, s) \in Nat /\ Rank(S, t) \in Nat
  BY RankFacts
<1> QED BY <1>5, <1>6

\* A page of a fan-out is what there is between its cursor and the next, or
\* all that is left.
LEMMA ActivePage ==
  ASSUME NEW S, S \subseteq Nat \ {0}, IsFiniteSet(S), NEW cursor \in Nat, NEW n \in Nat \ {0}
  PROVE  LET p == ListActiveMemberIDs(S, cursor, n) IN
         \/ p.next = 0 /\ p.items = {r \in S : r > cursor}
         \/ /\ p.next \in S /\ p.next > cursor
            /\ p.items = {r \in S : r > cursor /\ r =< p.next}
<1> DEFINE L == {r \in S : r > cursor}
<1>1. L \in SUBSET S /\ Rows(L)
  <2>1. L \in SUBSET S
    OBVIOUS
  <2> QED BY <2>1, FS_Subset DEF Rows
<1>2. /\ \A r \in L : Rank(L, r) \in Nat
      /\ \A r, s \in L : r < s => Rank(L, r) < Rank(L, s)
  <2> HIDE DEF L
  <2> QED BY <1>1, RankFacts
<1>3. CASE \A r \in L : Rank(L, r) < n
  <2>1. \A r \in L : Rank(L, r) # n
    BY <1>2, <1>3
  <2>2. Taken(L, n) = L /\ Extra(L, n) = {}
    BY <1>3, <2>1 DEF Taken, Extra
  <2> QED BY <2>2 DEF ListActiveMemberIDs, NextOfTaken
<1>4. CASE \E r \in L : ~(Rank(L, r) < n)
  <2> DEFINE O == {r \in L : ~(Rank(L, r) < n)}
  <2>1. O \in SUBSET Nat /\ O # {}
    BY <1>4
  <2>2. PICK t \in O : \A r \in O : t =< r
    BY <2>1, Least
  <2>3. t \in L /\ Rank(L, t) >= n /\ \A r \in L : r < t => Rank(L, r) < n
    <3>1. \A r \in L : r < t => r \notin O
      BY <2>1, <2>2
    <3> QED BY <1>2, <2>2, <3>1
  <2>4. Rank(L, t) = n /\ \E s \in L : Rank(L, s) = n - 1
    <3> HIDE DEF L
    <3> QED BY <1>1, <2>3, LastTaken
  <2>5. Extra(L, n) # {}
    BY <2>3, <2>4 DEF Extra
  <2> DEFINE x == CHOOSE r \in L : Rank(L, r) = n - 1
  <2>6. x \in L /\ Rank(L, x) = n - 1
    BY <2>4
  <2>7. NextOfTaken(L, n) = x
    BY <2>5 DEF NextOfTaken
  <2> HIDE DEF x
  <2>8. \A r \in L : Rank(L, r) < n <=> r =< x
    <3> TAKE r \in L
    <3>1. r \in Nat /\ x \in Nat
      BY <1>1, <2>6 DEF Rows
    <3>2. CASE r < x
      BY <1>2, <2>6, <3>1, <3>2
    <3>3. CASE r = x
      BY <2>6, <3>1, <3>3
    <3>4. CASE x < r
      BY <1>2, <2>6, <3>1, <3>4
    <3> QED BY <3>1, <3>2, <3>3, <3>4
  <2>9. Taken(L, n) = {r \in S : r > cursor /\ r =< x}
    BY <2>8 DEF Taken
  <2> QED BY <2>6, <2>7, <2>9 DEF ListActiveMemberIDs
<1> QED BY <1>3, <1>4

-----------------------------------------------------------------------------
Busy == task.step # "idle"

\* What the consumer is at: the last event it fetched, not handed over yet.
TaskOK ==
  /\ mode = "kafka" => handlers = {}
  /\ mode # "kafka" => position = 0 /\ ~Busy /\ wire = {}
  /\ ~Busy => task = Idle
  /\ Busy => /\ task.event = position /\ acked < position /\ task.attempt > 0
             /\ log[task.event].kind = "structured" => task.cursor = 0 /\ task.next = 0
  /\ task.step = "read" => task.routes = {}
  /\ task.step = "push" => \A c \in task.routes : task.next = 0 \/ place[c].user =< task.next

\* What has been published, and nothing that has not.
LogOK ==
  /\ \A e \in DOMAIN log : log[e].kind = "message" => log[e].to = User
  /\ \A e \in Event : e > Len(log) => fate[e] = "none" /\ tries[e] = 0
  /\ handlers \subseteq DOMAIN log
  /\ \A w \in wire : w.event \in DOMAIN log
  /\ IsFiniteSet(wire)

Shape == TypeOK /\ TaskOK /\ LogOK

-----------------------------------------------------------------------------
EventRow == [kind : {"message", "structured"}, to : SUBSET User]
WireRow == [event : Event, to : SUBSET Conn, try : Nat]
TaskRow == [event : 0..MaxEvents, attempt : 0..Attempts, cursor : User \union {0},
            next : User \union {0}, routes : SUBSET Conn, step : {"idle", "read", "push"}]

\* The type invariant in the parts an action may change.
LogType == mode \in Mode /\ place \in Places /\ log \in Seq(EventRow) /\ Len(log) =< MaxEvents
SocketType == live \in SUBSET Conn /\ got \in [Conn -> Seq(Event)] /\ wire \in SUBSET WireRow
OffsetType ==
  /\ committed =< acked /\ acked =< position /\ position =< Len(log)
  /\ committed \in Nat /\ acked \in Nat /\ position \in Nat
TaskType == task \in TaskRow /\ handlers \in SUBSET Event
FaultType ==
  /\ failed \in Nat /\ silent \in Nat /\ late \in Nat /\ crashes \in Nat
  /\ failed + silent + late + crashes =< MaxFaults
HistoryType == fate \in [Event -> {"none", "handled", "gave up"}] /\ tries \in [Event -> Nat]

Parts == LogType /\ SocketType /\ OffsetType /\ TaskType /\ FaultType /\ HistoryType

LEMMA TypeParts == (TypeOK <=> Parts) /\ (TypeOK' <=> Parts')
BY DEF TypeOK, Parts, LogType, SocketType, OffsetType, TaskType, FaultType, HistoryType,
       EventRow, WireRow, TaskRow

LEMMA UserFacts == \A u \in User \union {0} : u \in Nat /\ (u \in User => u > 0)
<1>1. User \subseteq Nat \ {0}
  BY DeliveryAssumption
<1>2. ASSUME NEW u \in User PROVE u \in Nat /\ u > 0
  BY <1>1
<1>3. ~(0 \in User)
  BY <1>1
<1>4. ASSUME NEW u \in User \union {0} PROVE u \in Nat /\ (u \in User => u > 0)
  <2>1. CASE u = 0
    BY <1>3, <2>1
  <2> QED BY <1>2, <2>1
<1> QED BY <1>4

LEMMA IdleRow == Idle \in TaskRow
<1>1. 0 \in 0..MaxEvents /\ 0 \in 0..Attempts
  BY DeliveryAssumption
<1> QED BY <1>1 DEF Idle, TaskRow

LEMMA LogFacts ==
  ASSUME TypeOK
  PROVE  /\ log \in Seq(EventRow) /\ Len(log) \in Nat /\ Len(log) =< MaxEvents /\ MaxEvents \in Nat
         /\ DOMAIN log = 1..Len(log) /\ DOMAIN log \subseteq Event
         /\ \A e \in DOMAIN log : log[e] \in EventRow
         /\ \A c \in Conn : place[c].user \in User /\ place[c].user \in Nat \ {0}
<1>1. log \in Seq(EventRow) /\ Len(log) =< MaxEvents
  BY TypeParts DEF Parts, LogType
<1>2. \A c \in Conn : place[c].user \in User
  BY TypeParts, DeliveryAssumption DEF Parts, LogType
<1>3. \A e \in DOMAIN log : log[e] \in EventRow
  BY <1>1
<1>4. Len(log) \in Nat /\ DOMAIN log = 1..Len(log) /\ MaxEvents \in Nat
  BY <1>1, DeliveryAssumption
<1>5. DOMAIN log \subseteq Event
  BY <1>1, <1>4 DEF Event
<1> QED BY <1>1, <1>2, <1>3, <1>4, <1>5, DeliveryAssumption

\* What is in hand.
LEMMA TaskFacts ==
  ASSUME Shape, Busy
  PROVE  /\ mode = "kafka" /\ handlers = {} /\ task \in TaskRow
         /\ task.event = position /\ acked < position
         /\ position \in DOMAIN log /\ position \in Event /\ log[position] \in EventRow
         /\ task.cursor \in Nat /\ task.next \in Nat
         /\ task.attempt \in 1..Attempts /\ task.routes \in SUBSET Conn
<1>1. task.event = position /\ acked < position /\ task.attempt > 0 /\ mode = "kafka" /\ handlers = {}
  BY DEF Shape, TaskOK, Busy
<1>2. task \in TaskRow /\ acked \in Nat /\ position \in Nat /\ position =< Len(log)
  BY TypeParts DEF Shape, Parts, TaskType, OffsetType
<1>3. position \in DOMAIN log
  BY <1>1, <1>2, LogFacts DEF Shape
<1>4. position \in Event /\ log[position] \in EventRow
  BY <1>3, LogFacts DEF Shape
<1>5. task.cursor \in Nat /\ task.next \in Nat
  <2>1. task.cursor \in User \union {0} /\ task.next \in User \union {0}
    BY <1>2 DEF TaskRow
  <2> QED BY <2>1, UserFacts
<1>6. task.attempt \in 1..Attempts /\ task.routes \in SUBSET Conn
  BY <1>1, <1>2, DeliveryAssumption DEF TaskRow
<1> QED BY <1>1, <1>2, <1>3, <1>4, <1>5, <1>6

\* A fault is one, of one kind, and none is forgotten.
LEMMA FaultFacts ==
  ASSUME TypeOK, NEW f \in {0, 1}, NEW s \in {0, 1}, NEW l \in {0, 1}, NEW c \in {0, 1}, f + s + l + c = 1
  PROVE  /\ Fault(f, s, l, c) => FaultType' /\ silent' = silent + s /\ late' = late + l /\ crashes' = crashes + c
         /\ NoFault => FaultType' /\ silent' = silent /\ late' = late /\ crashes' = crashes
         /\ FaultType
<1>1. FaultType /\ MaxFaults \in Nat
  BY TypeParts, DeliveryAssumption DEF Parts
<1>2. ASSUME Fault(f, s, l, c) PROVE FaultType'
  BY <1>1, <1>2 DEF FaultType, Fault
<1> QED BY <1>1, <1>2 DEF FaultType, Fault, NoFault, faults

\* The counters of faults only grow.
LEMMA FaultsRemain ==
  ASSUME TypeOK, [Next]_vars
  PROVE  /\ silent \in Nat /\ late \in Nat /\ crashes \in Nat
         /\ silent' >= silent /\ late' >= late /\ crashes' >= crashes
         /\ Crash => crashes' = crashes + 1
<1>1. FaultType
  BY TypeParts DEF Parts
<1>2. silent \in Nat /\ late \in Nat /\ crashes \in Nat
  BY <1>1 DEF FaultType
<1> DEFINE Grows == silent' >= silent /\ late' >= late /\ crashes' >= crashes
<1>3. Fault(1, 0, 0, 0) => Grows
  BY <1>2 DEF Fault
<1>4. Fault(0, 1, 0, 0) => Grows
  BY <1>2 DEF Fault
<1>5. Fault(0, 0, 1, 0) => Grows
  BY <1>2 DEF Fault
<1>6. Fault(0, 0, 0, 1) => Grows
  BY <1>2 DEF Fault
<1>7. NoFault => Grows
  BY <1>2 DEF NoFault, faults
<1>8. \/ Fault(1, 0, 0, 0) \/ Fault(0, 1, 0, 0) \/ Fault(0, 0, 1, 0) \/ Fault(0, 0, 0, 1) \/ NoFault
  <2> HIDE DEF Grows
  <2> QED
    BY DEF Next, Consume, vars, NoFault, Publish, Unregister, Fetch, ResolveOnlineRoutes, Push,
           NextPage, FlushCommits, Crash, InternalPush, PushIfDirect
<1>9. Crash => crashes' = crashes + 1
  BY DEF Crash, Fault
<1> QED BY <1>2, <1>3, <1>4, <1>5, <1>6, <1>7, <1>8, <1>9

-----------------------------------------------------------------------------
Again == [event |-> task.event, attempt |-> task.attempt + 1, cursor |-> 0, next |-> 0,
          routes |-> {}, step |-> "read"]
Passed(s) == [task EXCEPT !.routes = @ \ OnServer(s)]
LatePush(s) == [event |-> task.event, to |-> OnServer(s), try |-> tries[task.event]]

\* An attempt that fails is followed by another, or by none.
LEMMA FailedAttemptFacts ==
  ASSUME Shape, Busy, FailedAttempt
  PROVE  \/ /\ task' = Again /\ task.attempt + 1 \in 1..Attempts
            /\ tries' = [tries EXCEPT ![position] = @ + 1] /\ fate' = fate
         \/ task' = Idle /\ tries' = tries /\ fate' = [fate EXCEPT ![position] = "gave up"]
<1>1. task.attempt \in 1..Attempts /\ task.event = position
  BY TaskFacts
<1>2. CASE task.attempt < Attempts
  <2>1. task.attempt + 1 \in 1..Attempts
    BY <1>1, <1>2, DeliveryAssumption
  <2>2. task' = Again
    BY <1>2 DEF FailedAttempt, Again, Idle
  <2> QED BY <1>1, <1>2, <2>1, <2>2 DEF FailedAttempt
<1>3. CASE ~(task.attempt < Attempts)
  BY <1>1, <1>3 DEF FailedAttempt
<1> QED BY <1>2, <1>3

\* The users a page is read for: those behind its cursor, up to the next.
LEMMA TargetsFacts ==
  ASSUME Shape, task.step = "read"
  PROVE  /\ Targets.next \in User \union {0}
         /\ Targets.next # 0 => Targets.next > task.cursor
         /\ \A u \in Targets.items : u > task.cursor /\ (Targets.next = 0 \/ u =< Targets.next)
         /\ \A u \in log[position].to :
              u =< task.cursor \/ u \in Targets.items \/ (Targets.next # 0 /\ u > Targets.next)
         /\ log[position].kind = "structured" => task.cursor = 0 /\ Targets.next = 0
<1> DEFINE I == Targets.items
           N == Targets.next
           K == task.cursor
           E == log[position]
<1>1. /\ task.event = position /\ E.kind \in {"message", "structured"} /\ E.to \in SUBSET User /\ K \in Nat
      /\ E.kind = "structured" => K = 0
      /\ E.kind = "message" => E.to = User
  <2>1. task.event = position /\ position \in DOMAIN log /\ E \in EventRow /\ K \in Nat
    BY TaskFacts DEF Busy
  <2> QED BY <2>1 DEF Busy, EventRow, Shape, TaskOK, LogOK
<1>2. ASSUME E.kind = "structured" PROVE I = E.to /\ N = 0
  BY <1>1, <1>2 DEF Targets
<1>3. ASSUME E.kind = "message"
      PROVE  \/ N = 0 /\ I = {r \in User : r > K}
             \/ N \in User /\ N > K /\ I = {r \in User : r > K /\ r =< N}
  <2>1. Targets = ListActiveMemberIDs(User, K, BatchMembers)
    BY <1>1, <1>3 DEF Targets
  <2>2. User \subseteq Nat \ {0} /\ IsFiniteSet(User) /\ BatchMembers \in Nat \ {0}
    BY DeliveryAssumption
  <2> HIDE DEF K
  <2>3. K \in Nat
    BY <1>1
  <2> DEFINE p == ListActiveMemberIDs(User, K, BatchMembers)
  <2>4. \/ p.next = 0 /\ p.items = {r \in User : r > K}
        \/ p.next \in User /\ p.next > K /\ p.items = {r \in User : r > K /\ r =< p.next}
    BY ONLY <2>2, <2>3, ActivePage
  <2> QED BY <2>1, <2>4
<1>4. \A u \in User : u \in Nat /\ u > 0
  BY UserFacts
<1> HIDE DEF I, N, K, E
<1>5. CASE E.kind = "structured"
  BY <1>1, <1>2, <1>4, <1>5 DEF I, N, K, E
<1>6. CASE E.kind = "message" /\ N = 0
  <2>1. I = {r \in User : r > K}
    BY <1>3, <1>4, <1>6
  <2> QED BY <1>1, <1>4, <1>6, <2>1 DEF I, N, K, E
<1>7. CASE E.kind = "message" /\ N # 0
  <2>1. N \in User /\ N > K /\ I = {r \in User : r > K /\ r =< N}
    BY <1>3, <1>7
  <2> QED BY <1>1, <1>4, <1>7, <2>1 DEF I, N, K, E
<1> QED BY <1>1, <1>5, <1>6, <1>7

\* What a node puts into the channels.
LEMMA SendFacts ==
  ASSUME TypeOK, NEW target, NEW e \in Event, NEW full, SendToConnections(target, e, full)
  PROVE  /\ got' \in [Conn -> Seq(Event)]
         /\ \A c \in Conn : got'[c] = IF c \in (target \intersect live) \ full THEN Append(got[c], e) ELSE got[c]
<1>1. got \in [Conn -> Seq(Event)]
  BY TypeParts DEF Parts, SocketType
<1>2. \A c \in Conn : Append(got[c], e) \in Seq(Event) /\ got[c] \in Seq(Event)
  BY <1>1
<1> QED BY <1>2 DEF SendToConnections

\* A push reaches the node in time, not at all, or late.
LEMMA PushFacts ==
  ASSUME Shape, NEW s \in Server, Push(s)
  PROVE  /\ Busy /\ task.step = "push" /\ FaultType' /\ crashes' = crashes
         /\ silent' \in {silent, silent + 1} /\ late' \in {late, late + 1}
         /\ UNCHANGED <<deployment, log, live, offsets, handlers>>
         /\ \/ /\ \E full \in SUBSET OnServer(s) :
                    /\ SendToConnections(OnServer(s), position, full)
                    /\ full # {} => silent' = silent + 1
               /\ task' = Passed(s) /\ UNCHANGED <<wire, fate, tries>>
            \/ /\ FailedAttempt /\ got' = got
               /\ wire' = wire \/ (wire' = wire \union {LatePush(s)} /\ late' = late + 1)
            \/ /\ task' = Passed(s) /\ UNCHANGED <<got, fate, tries>>
               /\ \/ wire' = wire /\ silent' = silent + 1
                  \/ wire' = wire \union {LatePush(s)} /\ late' = late + 1
<1>1. Busy /\ task.step = "push" /\ UNCHANGED <<deployment, log, live, offsets, handlers>>
  BY DEF Push, Busy
<1>2. task.event = position
  BY <1>1, TaskFacts
<1>3. FaultType
  BY FaultFacts DEF Shape
<1>4. CASE /\ \E full \in SUBSET OnServer(s) :
                /\ SendToConnections(OnServer(s), task.event, full)
                /\ IF full = {} THEN NoFault ELSE Fault(0, 1, 0, 0)
           /\ task' = [task EXCEPT !.routes = @ \ OnServer(s)]
           /\ UNCHANGED <<wire, fate, tries>>
  <2>1. PICK full \in SUBSET OnServer(s) :
          /\ SendToConnections(OnServer(s), task.event, full)
          /\ IF full = {} THEN NoFault ELSE Fault(0, 1, 0, 0)
    BY <1>4
  <2>2. FaultType' /\ crashes' = crashes /\ late' = late
        /\ silent' = IF full = {} THEN silent ELSE silent + 1
    <3>1. CASE full = {}
      BY <2>1, <3>1, FaultFacts DEF Shape
    <3>2. CASE full # {}
      BY <2>1, <3>2, FaultFacts, <1>3 DEF Shape, FaultType
    <3> QED BY <3>1, <3>2
  <2>3. silent' \in {silent, silent + 1} /\ (full # {} => silent' = silent + 1)
    BY <2>2
  <2> QED BY <1>1, <1>2, <1>4, <2>1, <2>2, <2>3 DEF Passed
<1>5. CASE FailedAttempt /\ Fault(1, 0, 0, 0) /\ UNCHANGED <<got, wire>>
  <2>1. FaultType' /\ crashes' = crashes /\ late' = late /\ silent' = silent
    BY <1>5, FaultFacts, <1>3 DEF Shape, FaultType
  <2> QED BY <1>1, <1>5, <2>1
<1>6. CASE PushFailed(s) /\ Fault(0, 1, 0, 0) /\ UNCHANGED <<got, wire>>
  <2>1. FaultType' /\ crashes' = crashes /\ late' = late /\ silent' = silent + 1
    BY <1>6, FaultFacts, <1>3 DEF Shape, FaultType
  <2> QED BY <1>1, <1>6, <2>1 DEF PushFailed, Passed
<1>7. CASE /\ wire' = wire \union {[event |-> task.event, to |-> OnServer(s), try |-> tries[task.event]]}
           /\ PushFailed(s) /\ Fault(0, 0, 1, 0) /\ UNCHANGED got
  <2>1. FaultType' /\ crashes' = crashes /\ late' = late + 1 /\ silent' = silent
    BY <1>7, FaultFacts, <1>3 DEF Shape, FaultType
  <2> QED BY <1>1, <1>7, <2>1 DEF PushFailed, Passed, LatePush
<1> QED BY <1>4, <1>5, <1>6, <1>7 DEF Push

-----------------------------------------------------------------------------
\* Where the consumer may go from what it has in hand.
LEMMA TaskFailed ==
  ASSUME Shape, Busy, FailedAttempt, UNCHANGED <<deployment, log, offsets, handlers>>
  PROVE  TaskType' /\ TaskOK' /\ HistoryType'
<1>1. /\ mode' = "kafka" /\ handlers' = {} /\ task.event = position /\ position' = position
      /\ acked' < position /\ position \in Event
  BY TaskFacts DEF deployment, offsets
<1>2. HistoryType
  BY TypeParts DEF Shape, Parts
<1>3. CASE /\ task' = Again /\ task.attempt + 1 \in 1..Attempts
           /\ tries' = [tries EXCEPT ![position] = @ + 1] /\ fate' = fate
  <2>1. task' \in TaskRow
    BY <1>1, <1>3, DeliveryAssumption DEF Again, TaskRow, Event
  <2>2. TaskOK'
    BY <1>1, <1>3, DeliveryAssumption DEF TaskOK, Busy, Again
  <2>3. HistoryType'
    <3>1. position \in Event /\ tries \in [Event -> Nat] /\ fate \in [Event -> {"none", "handled", "gave up"}]
      BY <1>1, <1>2 DEF HistoryType
    <3>2. tries[position] + 1 \in Nat
      <4>1. tries[position] \in Nat
        BY <3>1
      <4> QED BY <4>1
    <3>3. tries' \in [Event -> Nat]
      BY <1>3, <3>1, <3>2
    <3> QED BY <1>3, <3>1, <3>3 DEF HistoryType
  <2> QED BY <1>1, <2>1, <2>2, <2>3 DEF TaskType
<1>4. CASE task' = Idle /\ tries' = tries /\ fate' = [fate EXCEPT ![position] = "gave up"]
  <2>1. task' \in TaskRow
    BY <1>4, IdleRow
  <2>2. TaskOK'
    BY <1>1, <1>4 DEF TaskOK, Busy, Idle
  <2> QED BY <1>1, <1>2, <1>4, <2>1, <2>2 DEF TaskType, HistoryType
<1> QED BY <1>3, <1>4, FailedAttemptFacts

LEMMA TaskPassed ==
  ASSUME Shape, task.step = "push", NEW s \in Server, task' = Passed(s),
         UNCHANGED <<deployment, log, offsets, handlers>>
  PROVE  TaskType' /\ TaskOK'
<1>1. /\ Busy /\ mode' = "kafka" /\ handlers' = {} /\ task.event = position /\ position' = position
      /\ acked' < position /\ task \in TaskRow /\ place' = place /\ log' = log
  BY TaskFacts DEF deployment, offsets, Busy
<1>2. task' = [task EXCEPT !.routes = task.routes \ OnServer(s)]
  BY DEF Passed
<1>3. /\ task' \in TaskRow /\ task'.step = "push" /\ task'.routes \subseteq task.routes
      /\ task'.event = task.event /\ task'.attempt = task.attempt
      /\ task'.cursor = task.cursor /\ task'.next = task.next
  <2> DEFINE R == task.routes \ OnServer(s)
  <2>1. R \in SUBSET Conn
    BY <1>1 DEF TaskRow
  <2> HIDE DEF R
  <2>2. [task EXCEPT !.routes = R] \in TaskRow /\ [task EXCEPT !.routes = R].routes = R
    BY <1>1, <2>1 DEF TaskRow
  <2> QED BY <1>1, <1>2, <2>2 DEF R
<1>4. /\ TaskOK /\ task'.step = "push" /\ task'.routes \subseteq task.routes /\ acked' < position
      /\ task'.event = position /\ task.event = position /\ task'.attempt = task.attempt
      /\ task'.cursor = task.cursor /\ task'.next = task.next
  BY <1>1, <1>3 DEF Shape
<1>5. task.attempt > 0 /\ (log[position].kind = "structured" => task.cursor = 0 /\ task.next = 0)
      /\ \A c \in task.routes : task.next = 0 \/ place[c].user =< task.next
  BY <1>1, <1>4 DEF TaskOK
<1>6. TaskOK'
  BY <1>1, <1>4, <1>5 DEF TaskOK, Busy
<1> QED BY <1>1, <1>3, <1>6, TypeParts DEF TaskType, Shape, Parts

\* A push that is still on its way.
LEMMA WireGrows ==
  ASSUME Shape, task.step = "push", NEW s \in Server, wire' = wire \union {LatePush(s)}
  PROVE  /\ LatePush(s) \in WireRow /\ wire' \in SUBSET WireRow
         /\ IsFiniteSet(wire') /\ \A w \in wire' : w.event \in DOMAIN log
<1>1. Busy /\ task.event = position /\ position \in DOMAIN log /\ position \in Event
  BY TaskFacts DEF Busy
<1>2. OnServer(s) \in SUBSET Conn /\ tries[position] \in Nat
  <2>1. task.routes \in SUBSET Conn /\ HistoryType
    BY <1>1, TaskFacts, TypeParts DEF Shape, Parts
  <2> QED BY <1>1, <2>1 DEF OnServer, HistoryType
<1>3. LatePush(s) \in WireRow /\ LatePush(s).event = position
  BY <1>1, <1>2 DEF LatePush, WireRow
<1>4. wire \in SUBSET WireRow /\ IsFiniteSet(wire) /\ \A w \in wire : w.event \in DOMAIN log
  BY TypeParts DEF Shape, Parts, SocketType, LogOK
<1>5. IsFiniteSet(wire')
  BY <1>4, FS_AddElement
<1> QED BY <1>1, <1>3, <1>4, <1>5

\* Nothing is noted of an event that is not there.
LEMMA Beyond ==
  ASSUME Shape, Busy, NEW e \in Event, e > Len(log)
  PROVE  /\ e # position
         /\ \A v : [fate EXCEPT ![position] = v][e] = fate[e]
         /\ [tries EXCEPT ![position] = @ + 1][e] = tries[e]
<1>1. position \in DOMAIN log /\ e \in Nat
  BY TaskFacts DEF Event
<1>2. e # position
  BY <1>1, LogFacts DEF Shape
<1>3. HistoryType
  BY TypeParts DEF Shape, Parts
<1> QED BY <1>2, <1>3 DEF HistoryType

-----------------------------------------------------------------------------
LEMMA InitShape == Init => Shape
<1> SUFFICES ASSUME Init PROVE Shape
  OBVIOUS
<1> USE DeliveryAssumption
<1>1. LogType /\ SocketType
  BY DEF Init, LogType, SocketType, EventRow
<1>2. OffsetType /\ FaultType
  BY DEF Init, OffsetType, FaultType
<1>3. TaskType /\ HistoryType
  BY IdleRow DEF Init, TaskType, HistoryType
<1>4. TaskOK
  BY DEF Init, TaskOK, Busy, Idle
<1>5. LogOK
  BY FS_EmptySet DEF Init, LogOK, Event
<1> QED BY <1>1, <1>2, <1>3, <1>4, <1>5, TypeParts DEF Shape, Parts

LEMMA PublishShape ==
  ASSUME Shape, NEW kind \in {"message", "structured"}, NEW to \in SUBSET User, Publish(kind, to),
         kind = "message" => to = User
  PROVE  Shape'
<1> DEFINE r == [kind |-> kind, to |-> to]
           n == Len(log) + 1
<1>1. /\ log \in Seq(EventRow) /\ Len(log) \in Nat /\ Len(log) < MaxEvents /\ MaxEvents \in Nat
      /\ DOMAIN log = 1..Len(log)
  BY LogFacts DEF Publish, Shape
<1>2. r \in EventRow /\ log' = Append(log, r)
  BY DEF EventRow, Publish
<1>3. /\ log' \in Seq(EventRow) /\ Len(log') = n /\ log'[n] = r
      /\ DOMAIN log' = 1..n /\ \A e \in DOMAIN log : log'[e] = log[e]
  <2> HIDE DEF r
  <2> QED BY <1>1, <1>2
<1>4. n \in Event /\ n \in Nat /\ n =< MaxEvents /\ \A e \in DOMAIN log : e \in DOMAIN log' /\ e # n
  BY <1>1, <1>3 DEF Event
<1>5. UNCHANGED <<deployment, live, got, wire, offsets, task, faults, fate>>
  BY DEF Publish
<1>6. Parts
  BY TypeParts DEF Shape
<1>7. LogType' /\ SocketType'
  BY <1>3, <1>4, <1>5, <1>6 DEF Parts, LogType, SocketType, deployment
<1>8. OffsetType' /\ FaultType'
  <2>1. position =< Len(log) /\ position \in Nat
    BY <1>6 DEF Parts, OffsetType
  <2>2. position =< Len(log')
    BY <1>1, <1>3, <2>1
  <2> QED BY <1>5, <1>6, <2>2 DEF Parts, OffsetType, FaultType, offsets, faults
<1>9. /\ handlers' \in {handlers, handlers \union {n}} /\ (mode = "kafka" => handlers' = handlers)
      /\ tries' \in {tries, [tries EXCEPT ![n] = 1]}
  BY DEF Publish
<1>10. TaskType' /\ HistoryType'
  <2>1. handlers' \in SUBSET Event
    BY <1>4, <1>6, <1>9 DEF Parts, TaskType
  <2>2. tries' \in [Event -> Nat]
    <3>1. tries \in [Event -> Nat]
      BY <1>6 DEF Parts, HistoryType
    <3> HIDE DEF n
    <3> QED BY <1>9, <3>1
  <2> QED BY <1>5, <1>6, <2>1, <2>2 DEF Parts, TaskType, HistoryType
<1>11. TaskOK'
  <2>1. TaskOK /\ (Busy => position \in DOMAIN log)
    BY TaskFacts DEF Shape
  <2> QED BY <1>3, <1>5, <1>9, <2>1 DEF TaskOK, Busy, deployment, offsets
<1>12. LogOK'
  <2>1. LogOK
    BY DEF Shape
  <2>2. \A e \in DOMAIN log' : log'[e].kind = "message" => log'[e].to = User
    <3> TAKE e \in DOMAIN log'
    <3>1. CASE e = n
      BY <1>3, <3>1
    <3>2. CASE e # n
      <4>1. e \in DOMAIN log
        BY <1>1, <1>3, <3>2
      <4> QED BY <1>3, <2>1, <4>1 DEF LogOK
    <3> QED BY <3>1, <3>2
  <2>3. \A e \in Event : e > Len(log') => fate'[e] = "none" /\ tries'[e] = 0
    <3> TAKE e \in Event
    <3> HAVE e > Len(log')
    <3>1. e \in Nat /\ e > Len(log) /\ e # n
      BY <1>1, <1>3 DEF Event
    <3>2. fate[e] = "none" /\ tries[e] = 0
      BY <2>1, <3>1 DEF LogOK
    <3>3. tries'[e] = tries[e]
      BY <1>6, <1>9, <3>1 DEF Parts, HistoryType
    <3> QED BY <1>5, <3>2, <3>3
  <2>4. handlers' \subseteq DOMAIN log' /\ wire' = wire
    BY <1>3, <1>4, <1>5, <1>9, <2>1 DEF LogOK
  <2>5. \A w \in wire' : w.event \in DOMAIN log'
    BY <1>4, <2>1, <2>4 DEF LogOK
  <2> QED BY <2>1, <2>2, <2>3, <2>4, <2>5 DEF LogOK
<1> QED BY <1>7, <1>8, <1>10, <1>11, <1>12, TypeParts DEF Parts, Shape

LEMMA FetchShape == ASSUME Shape, Fetch PROVE Shape'
<1> DEFINE n == position + 1
<1>1. /\ n \in Nat /\ n =< Len(log) /\ n \in DOMAIN log /\ n \in Event
      /\ acked \in Nat /\ acked < n /\ position \in Nat /\ acked =< position
  <2>1. position < Len(log) /\ OffsetType
    BY TypeParts DEF Fetch, Shape, Parts
  <2> QED BY <2>1, LogFacts DEF OffsetType, Shape
<1>2. UNCHANGED <<deployment, log, live, got, wire, acked, committed, handlers, faults, fate>>
      /\ mode = "kafka" /\ position' = n
  BY DEF Fetch
<1>3. Parts /\ TaskOK /\ LogOK
  BY TypeParts DEF Shape
<1>4. task' = [event |-> n, attempt |-> 1, cursor |-> 0, next |-> 0, routes |-> {}, step |-> "read"]
  BY DEF Fetch, Idle
<1>5. task' \in TaskRow
  <2>1. n \in 0..MaxEvents /\ 1 \in 0..Attempts
    BY <1>1, DeliveryAssumption DEF Event
  <2> HIDE DEF n
  <2> QED BY <1>4, <2>1 DEF TaskRow
<1>6. tries' \in [Event -> Nat] /\ \A e \in Event : e # n => tries'[e] = tries[e]
  <2>1. tries \in [Event -> Nat]
    BY <1>3 DEF Parts, HistoryType
  <2>2. tries[n] \in Nat
    BY <1>1, <2>1
  <2>3. tries[n] + 1 \in Nat
    BY <2>2
  <2>4. tries' = [tries EXCEPT ![n] = tries[n] + 1]
    BY DEF Fetch
  <2> HIDE DEF n
  <2> QED BY <1>1, <2>1, <2>3, <2>4
<1>7. Parts'
  <2>1. OffsetType'
    BY <1>1, <1>2, <1>3 DEF Parts, OffsetType
  <2> QED BY <1>2, <1>3, <1>5, <1>6, <2>1
          DEF Parts, LogType, SocketType, TaskType, FaultType, HistoryType, deployment, faults
<1>8. TaskOK'
  <2> HIDE DEF n
  <2> QED BY <1>1, <1>2, <1>3, <1>4 DEF TaskOK, Busy, deployment
<1>9. LogOK'
  <2>1. \A e \in Event : e > Len(log) => e # n
    BY <1>1 DEF Event
  <2> QED BY <1>2, <1>3, <1>6, <2>1 DEF LogOK
<1> QED BY <1>7, <1>8, <1>9, TypeParts DEF Shape

LEMMA ResolveShape == ASSUME Shape, ResolveOnlineRoutes PROVE Shape'
<1>1. /\ task.step = "read" /\ Busy /\ mode = "kafka"
      /\ UNCHANGED <<deployment, log, live, got, wire, offsets, handlers>>
      /\ FaultType'
  <2>1. task.step = "read" /\ Busy
    BY DEF ResolveOnlineRoutes, Busy
  <2>2. FaultType'
    <3>1. NoFault \/ Fault(0, 1, 0, 0) \/ Fault(1, 0, 0, 0)
      BY DEF ResolveOnlineRoutes
    <3>2. CASE NoFault
      BY <3>2, FaultFacts DEF Shape
    <3>3. CASE Fault(0, 1, 0, 0)
      BY <3>3, FaultFacts DEF Shape
    <3>4. CASE Fault(1, 0, 0, 0)
      BY <3>4, FaultFacts DEF Shape
    <3> QED BY <3>1, <3>2, <3>3, <3>4
  <2> QED BY <2>1, <2>2, TaskFacts DEF ResolveOnlineRoutes
<1>2. Parts /\ TaskOK /\ LogOK
  BY TypeParts DEF Shape
<1>3. LogType' /\ SocketType' /\ OffsetType'
  BY <1>1, <1>2 DEF Parts, LogType, SocketType, OffsetType, deployment, offsets
<1>4. ASSUME TaskType', TaskOK', HistoryType', \A e \in Event : e > Len(log) => fate'[e] = fate[e] /\ tries'[e] = tries[e]
      PROVE  Shape'
  <2>1. LogOK'
    BY <1>1, <1>2, <1>4 DEF LogOK
  <2> QED BY <1>1, <1>3, <1>4, <2>1, TypeParts DEF Shape, Parts
<1>5. CASE FailedAttempt
  <2>1. TaskType' /\ TaskOK' /\ HistoryType'
    BY <1>1, <1>5, TaskFailed
  <2>2. \A e \in Event : e > Len(log) => fate'[e] = fate[e] /\ tries'[e] = tries[e]
    BY <1>1, <1>5, FailedAttemptFacts, Beyond
  <2> QED BY <1>4, <2>1, <2>2
<1>6. ASSUME NEW routes \in SUBSET {c \in live : place[c].user \in Targets.items},
             task' = [task EXCEPT !.routes = routes, !.next = Targets.next, !.step = "push"],
             UNCHANGED <<fate, tries>>
      PROVE  Shape'
  <2>1. /\ task \in TaskRow /\ task.event = position /\ acked < position /\ task.attempt > 0
        /\ Targets.next \in User \union {0} /\ routes \in SUBSET Conn
        /\ log[position].kind = "structured" => task.cursor = 0 /\ Targets.next = 0
        /\ \A c \in routes : Targets.next = 0 \/ place[c].user =< Targets.next
        /\ handlers = {}
    <3>1. routes \in SUBSET Conn
      BY <1>2 DEF Parts, SocketType
    <3>2. task.attempt > 0
      BY <1>1, <1>2 DEF TaskOK
    <3> QED BY <1>1, <1>6, <3>1, <3>2, TargetsFacts, TaskFacts
  <2> DEFINE t == [task EXCEPT !.routes = routes, !.next = Targets.next, !.step = "push"]
  <2>2. /\ t \in TaskRow /\ t.step = "push" /\ t.routes = routes /\ t.next = Targets.next
        /\ t.event = task.event /\ t.attempt = task.attempt /\ t.cursor = task.cursor
    <3> DEFINE N == Targets.next
    <3>1. N \in User \union {0}
      BY <2>1
    <3> HIDE DEF N
    <3>2. t = [task EXCEPT !.routes = routes, !.next = N, !.step = "push"]
      BY DEF N
    <3>3. /\ t \in TaskRow /\ t.step = "push" /\ t.routes = routes /\ t.next = N
          /\ t.event = task.event /\ t.attempt = task.attempt /\ t.cursor = task.cursor
      <4> HIDE DEF t
      <4> QED BY <2>1, <3>1, <3>2 DEF TaskRow
    <3> QED BY <3>3 DEF N
  <2>3. task' = t
    BY <1>6
  <2> HIDE DEF t
  <2>4. TaskType' /\ HistoryType'
    BY <1>1, <1>2, <1>6, <2>2, <2>3 DEF Parts, TaskType, HistoryType
  <2>5. TaskOK'
    BY <1>1, <1>2, <2>1, <2>2, <2>3 DEF TaskOK, Busy, deployment, offsets
  <2> QED BY <1>4, <1>6, <2>4, <2>5
<1> QED BY <1>5, <1>6 DEF ResolveOnlineRoutes

LEMMA PushShape == ASSUME Shape, NEW s \in Server, Push(s) PROVE Shape'
<1>1. /\ Busy /\ task.step = "push" /\ mode = "kafka" /\ FaultType'
      /\ UNCHANGED <<deployment, log, live, offsets, handlers>>
  BY PushFacts, TaskFacts
<1>2. Parts /\ TaskOK /\ LogOK
  BY TypeParts DEF Shape
<1>3. LogType' /\ OffsetType'
  BY <1>1, <1>2 DEF Parts, LogType, OffsetType, deployment, offsets
<1>4. /\ got' \in [Conn -> Seq(Event)]
      /\ wire' \in SUBSET WireRow /\ IsFiniteSet(wire') /\ \A w \in wire' : w.event \in DOMAIN log
  <2>1. wire' = wire \/ wire' = wire \union {LatePush(s)}
    BY PushFacts
  <2>2. wire' \in SUBSET WireRow /\ IsFiniteSet(wire') /\ \A w \in wire' : w.event \in DOMAIN log
    BY <1>1, <1>2, <2>1, WireGrows DEF Parts, SocketType, LogOK
  <2>3. position \in Event /\ got \in [Conn -> Seq(Event)]
    BY <1>1, <1>2, TaskFacts DEF Parts, SocketType
  <2>4. got' = got \/ \E full : SendToConnections(OnServer(s), position, full)
    BY PushFacts
  <2>5. got' \in [Conn -> Seq(Event)]
    BY <2>3, <2>4, SendFacts DEF Shape
  <2> QED BY <2>2, <2>5
<1>5. /\ TaskType' /\ TaskOK' /\ HistoryType'
      /\ \A e \in Event : e > Len(log) => fate'[e] = fate[e] /\ tries'[e] = tries[e]
  <2>1. CASE FailedAttempt
    <3>1. TaskType' /\ TaskOK' /\ HistoryType'
      BY <1>1, <2>1, TaskFailed
    <3>2. \A e \in Event : e > Len(log) => fate'[e] = fate[e] /\ tries'[e] = tries[e]
      BY <1>1, <2>1, FailedAttemptFacts, Beyond
    <3> QED BY <3>1, <3>2
  <2>2. CASE task' = Passed(s) /\ UNCHANGED <<fate, tries>>
    <3>1. TaskType' /\ TaskOK'
      BY <1>1, <2>2, TaskPassed
    <3> QED BY <1>2, <2>2, <3>1 DEF Parts, HistoryType
  <2> QED BY <2>1, <2>2, PushFacts
<1>6. LogOK'
  BY <1>1, <1>2, <1>4, <1>5 DEF LogOK
<1>7. SocketType'
  BY <1>1, <1>2, <1>4 DEF Parts, SocketType
<1> QED BY <1>1, <1>3, <1>5, <1>6, <1>7, TypeParts DEF Shape, Parts

LEMMA NextPageShape == ASSUME Shape, NextPage PROVE Shape'
<1>1. /\ Busy /\ task.step = "push" /\ mode = "kafka" /\ handlers = {} /\ task.event = position
      /\ acked < position /\ task.routes = {} /\ position \in Event
      /\ UNCHANGED <<deployment, log, live, got, wire, position, committed, handlers, faults, tries>>
  <2>1. Busy
    BY DEF NextPage, Busy
  <2> QED BY <2>1, TaskFacts DEF NextPage
<1>2. Parts /\ TaskOK /\ LogOK
  BY TypeParts DEF Shape
<1>3. LogType' /\ SocketType' /\ FaultType'
  BY <1>1, <1>2 DEF Parts, LogType, SocketType, FaultType, deployment, faults
<1>4. CASE task.next # 0
  <2> DEFINE t == [task EXCEPT !.cursor = task.next, !.step = "read"]
  <2>1. task' = t /\ UNCHANGED <<acked, fate>>
    BY <1>4 DEF NextPage
  <2>2. /\ t \in TaskRow /\ t.step = "read" /\ t.routes = {} /\ t.next = task.next
        /\ t.event = task.event /\ t.attempt = task.attempt /\ t.cursor = task.next
    BY <1>1, <1>2 DEF Parts, TaskType, TaskRow
  <2> HIDE DEF t
  <2>3. task.attempt > 0 /\ (log[position].kind = "structured" => task.next = 0)
    BY <1>1, <1>2 DEF TaskOK
  <2>4. TaskOK'
    BY <1>1, <2>1, <2>2, <2>3 DEF TaskOK, Busy, deployment
  <2>5. TaskType' /\ OffsetType' /\ HistoryType' /\ LogOK'
    BY <1>1, <1>2, <2>1, <2>2 DEF Parts, TaskType, OffsetType, HistoryType, LogOK
  <2> QED BY <1>3, <2>4, <2>5, TypeParts DEF Shape, Parts
<1>5. CASE task.next = 0
  <2>1. task' = Idle /\ acked' = position /\ fate' = [fate EXCEPT ![position] = "handled"]
    BY <1>1, <1>5 DEF NextPage
  <2>2. TaskOK'
    BY <1>1, <2>1 DEF TaskOK, Busy, Idle, deployment
  <2>3. OffsetType'
    BY <1>1, <1>2, <2>1 DEF Parts, OffsetType
  <2>4. TaskType' /\ HistoryType'
    BY <1>1, <1>2, <2>1, IdleRow DEF Parts, TaskType, HistoryType
  <2>5. LogOK'
    BY <1>1, <1>2, <2>1, Beyond DEF LogOK
  <2> QED BY <1>3, <2>2, <2>3, <2>4, <2>5, TypeParts DEF Shape, Parts
<1> QED BY <1>4, <1>5

LEMMA CrashShape == ASSUME Shape, Crash PROVE Shape'
<1>1. /\ UNCHANGED <<deployment, log, live, got, committed, fate, tries>>
      /\ handlers' = {} /\ task' = Idle /\ position' = committed /\ acked' = committed
  BY DEF Crash
<1>2. Parts /\ TaskOK /\ LogOK
  BY TypeParts DEF Shape
<1>3. FaultType'
  BY FaultFacts DEF Crash, Shape
<1>4. /\ wire' \in SUBSET WireRow /\ IsFiniteSet(wire') /\ \A w \in wire' : w.event \in DOMAIN log
      /\ mode # "kafka" => wire' = {}
  <2>1. CASE wire' = wire
    BY <1>2, <2>1 DEF Parts, SocketType, LogOK, TaskOK
  <2>2. ASSUME task.step = "push", NEW s \in Server, wire' = wire \union {LatePush(s)}
        PROVE  /\ wire' \in SUBSET WireRow /\ IsFiniteSet(wire') /\ \A w \in wire' : w.event \in DOMAIN log
               /\ mode # "kafka" => wire' = {}
    BY <2>2, WireGrows, TaskFacts DEF Busy
  <2> QED BY <2>1, <2>2 DEF Crash, LatePush
<1>5. OffsetType' /\ (mode # "kafka" => committed = 0)
  BY <1>1, <1>2, LogFacts DEF Parts, OffsetType, TaskOK, Shape
<1>6. TaskOK'
  BY <1>1, <1>4, <1>5 DEF TaskOK, Busy, Idle, deployment
<1>7. LogType' /\ SocketType' /\ TaskType' /\ HistoryType'
  BY <1>1, <1>2, <1>4, IdleRow DEF Parts, LogType, SocketType, TaskType, HistoryType, deployment
<1>8. LogOK'
  BY <1>1, <1>2, <1>4 DEF LogOK
<1> QED BY <1>3, <1>5, <1>6, <1>7, <1>8, TypeParts DEF Shape, Parts

\* What is sent by a node that takes a push late, or by a request.
LEMMA InternalPushShape == ASSUME Shape, NEW w \in wire, InternalPush(w) PROVE Shape'
<1>1. Parts /\ TaskOK /\ LogOK
  BY TypeParts DEF Shape
<1>2. wire' = wire \ {w} /\ w.event \in Event
      /\ UNCHANGED <<deployment, log, live, offsets, task, handlers, faults, fate, tries>>
  BY <1>1 DEF InternalPush, Parts, SocketType, WireRow
<1>3. got' \in [Conn -> Seq(Event)]
  BY <1>2, SendFacts DEF InternalPush, Shape
<1>4. wire' \in SUBSET WireRow /\ IsFiniteSet(wire') /\ wire' \subseteq wire
  <2>1. wire' \in SUBSET wire
    BY <1>2
  <2> QED BY <1>1, <2>1, FS_Subset DEF Parts, SocketType, LogOK
<1>5. Parts'
  BY <1>1, <1>2, <1>3, <1>4 DEF Parts, LogType, SocketType, OffsetType, TaskType, FaultType, HistoryType,
        deployment, offsets, faults
<1>6. TaskOK'
  BY <1>1, <1>2, <1>4 DEF TaskOK, Busy, deployment, offsets
<1>7. LogOK'
  BY <1>1, <1>2, <1>4 DEF LogOK
<1> QED BY <1>5, <1>6, <1>7, TypeParts DEF Shape

LEMMA DirectShape == ASSUME Shape, NEW e \in handlers, PushIfDirect(e) PROVE Shape'
<1>1. Parts /\ TaskOK /\ LogOK
  BY TypeParts DEF Shape
<1>2. /\ handlers' = handlers \ {e} /\ fate' = [fate EXCEPT ![e] = "handled"]
      /\ e \in Event /\ e \in DOMAIN log
      /\ UNCHANGED <<deployment, log, live, wire, offsets, task, tries>>
  BY <1>1 DEF PushIfDirect, Parts, TaskType, LogOK
<1>3. got' \in [Conn -> Seq(Event)]
  <2>1. PICK target, full : SendToConnections(target, e, full)
    BY DEF PushIfDirect
  <2> QED BY <1>2, <2>1, SendFacts DEF Shape
<1>4. FaultType'
  <2>1. NoFault \/ Fault(0, 1, 0, 0)
    BY DEF PushIfDirect
  <2>2. CASE NoFault
    BY <2>2, FaultFacts DEF Shape
  <2>3. CASE Fault(0, 1, 0, 0)
    BY <2>3, FaultFacts DEF Shape
  <2> QED BY <2>1, <2>2, <2>3
<1>5. Parts'
  BY <1>1, <1>2, <1>3, <1>4 DEF Parts, LogType, SocketType, OffsetType, TaskType, HistoryType,
        deployment, offsets
<1>6. TaskOK'
  BY <1>1, <1>2 DEF TaskOK, Busy, deployment, offsets
<1>7. LogOK'
  <2>1. \A f \in Event : f > Len(log) => f # e /\ fate'[f] = fate[f]
    <3>1. \A f \in Event : f > Len(log) => f # e
      BY <1>2, LogFacts DEF Shape
    <3> QED BY <1>1, <1>2, <3>1 DEF Parts, HistoryType
  <2> QED BY <1>1, <1>2, <2>1 DEF LogOK
<1> QED BY <1>5, <1>6, <1>7, TypeParts DEF Shape

LEMMA NextShape == ASSUME Shape, [Next]_vars PROVE Shape'
<1>1. Parts /\ TaskOK /\ LogOK
  BY TypeParts DEF Shape
<1>2. ASSUME NEW to \in Audiences, Publish("structured", to) PROVE Shape'
  BY <1>2, PublishShape, DeliveryAssumption
<1>3. CASE Publish("message", User)
  BY <1>3, PublishShape
<1>4. ASSUME NEW c \in Conn, Unregister(c) PROVE Shape'
  <2>1. live' \in SUBSET Conn /\ UNCHANGED <<deployment, log, got, wire, offsets, task, handlers, faults, fate, tries>>
    BY <1>1, <1>4 DEF Unregister, Parts, SocketType
  <2>2. Parts'
    BY <1>1, <2>1 DEF Parts, LogType, SocketType, OffsetType, TaskType, FaultType, HistoryType,
          deployment, offsets, faults
  <2>3. TaskOK' /\ LogOK'
    BY <1>1, <2>1 DEF TaskOK, LogOK, Busy, deployment, offsets
  <2> QED BY <2>2, <2>3, TypeParts DEF Shape
<1>5. CASE FlushCommits
  <2>0. OffsetType'
    BY <1>1, <1>5 DEF FlushCommits, Parts, OffsetType
  <2>1. Parts'
    BY <1>1, <1>5, <2>0 DEF FlushCommits, Parts, LogType, SocketType, TaskType, FaultType,
          HistoryType, deployment, faults
  <2>2. TaskOK' /\ LogOK'
    BY <1>1, <1>5 DEF FlushCommits, TaskOK, LogOK, Busy, deployment
  <2> QED BY <2>1, <2>2, TypeParts DEF Shape
<1>6. CASE UNCHANGED vars
  <2>1. Parts'
    BY <1>1, <1>6 DEF vars, Parts, LogType, SocketType, OffsetType, TaskType, FaultType,
          HistoryType, deployment, offsets, faults
  <2>2. TaskOK' /\ LogOK'
    BY <1>1, <1>6 DEF vars, TaskOK, LogOK, Busy, deployment, offsets
  <2> QED BY <2>1, <2>2, TypeParts DEF Shape
<1> QED BY <1>2, <1>3, <1>4, <1>5, <1>6, FetchShape, ResolveShape, PushShape, NextPageShape, CrashShape,
           InternalPushShape, DirectShape DEF Next, Consume

-----------------------------------------------------------------------------
\* Every event up to the position is done with, but the one in hand.
Tried == \A e \in 1..position : fate[e] # "none" \/ (Busy /\ e = position)

\* An attempt that fails leaves its event in hand or given up.
LEMMA TriedFailed ==
  ASSUME Shape, Tried, Busy, FailedAttempt, position' = position
  PROVE  Tried'
<1>1. position \in Event /\ position \in Nat /\ HistoryType
  BY TaskFacts, TypeParts DEF Shape, Parts, OffsetType
<1>2. CASE task' = Again
  BY <1>2, FailedAttemptFacts DEF Tried, Busy, Again, Idle
<1>3. CASE task' = Idle /\ fate' = [fate EXCEPT ![position] = "gave up"]
  <2>1. \A e \in 1..position : e \in Event
    BY <1>1, DeliveryAssumption DEF Event
  <2> QED BY <1>1, <1>3, <2>1 DEF Tried, HistoryType
<1> QED BY <1>2, <1>3, FailedAttemptFacts

LEMMA NextTried == ASSUME Shape, Tried, [Next]_vars PROVE Tried'
<1>1. /\ position \in Nat /\ position =< Len(log) /\ committed \in Nat /\ acked \in Nat
      /\ committed =< acked /\ acked =< position /\ HistoryType
      /\ \A e \in 1..position : e \in Event
  <2>1. OffsetType /\ HistoryType
    BY TypeParts DEF Shape, Parts
  <2> QED BY <2>1, LogFacts DEF OffsetType, Shape, Event
<1>2. CASE Fetch
  <2>1. position' = position + 1 /\ task'.step = "read" /\ fate' = fate /\ ~Busy
    BY <1>2 DEF Fetch, Busy, Idle
  <2>2. \A e \in 1..(position + 1) : e \in 1..position \/ e = position + 1
    BY <1>1
  <2> QED BY <2>1, <2>2 DEF Tried, Busy
<1>3. CASE ResolveOnlineRoutes
  <2>1. Busy /\ position' = position
    BY <1>3 DEF ResolveOnlineRoutes, Busy, offsets
  <2>2. CASE FailedAttempt
    BY <2>1, <2>2, TriedFailed
  <2>3. CASE task'.step = "push" /\ fate' = fate
    BY <2>1, <2>3 DEF Tried, Busy
  <2>4. task \in TaskRow
    BY TypeParts DEF Shape, Parts, TaskType
  <2> QED BY <1>3, <2>2, <2>3, <2>4 DEF ResolveOnlineRoutes, TaskRow
<1>4. ASSUME NEW s \in Server, Push(s) PROVE Tried'
  <2>1. Busy /\ position' = position /\ task \in TaskRow
    BY <1>4, PushFacts, TaskFacts DEF offsets
  <2>2. CASE FailedAttempt
    BY <2>1, <2>2, TriedFailed
  <2>3. CASE task' = Passed(s) /\ fate' = fate
    <3>1. task'.step = task.step
      BY <2>1, <2>3 DEF Passed, TaskRow
    <3> QED BY <2>1, <2>3, <3>1 DEF Tried, Busy
  <2> QED BY <1>4, <2>2, <2>3, PushFacts
<1>5. CASE NextPage
  <2>1. /\ Busy /\ position' = position /\ task.event = position /\ task \in TaskRow
    BY <1>5, TaskFacts DEF NextPage, Busy
  <2>2. CASE task'.step = "read" /\ fate' = fate
    BY <2>1, <2>2 DEF Tried, Busy
  <2>3. CASE fate' = [fate EXCEPT ![position] = "handled"]
    BY <1>1, <2>1, <2>3 DEF Tried, HistoryType
  <2> QED BY <1>5, <2>1, <2>2, <2>3 DEF NextPage, TaskRow
<1>6. CASE Crash
  <2>1. position' = committed /\ fate' = fate
    BY <1>6 DEF Crash
  <2>2. Busy => acked < position
    BY TaskFacts
  <2>3. \A e \in 1..committed : e \in 1..position /\ ~(Busy /\ e = position)
    BY <1>1, <2>2
  <2> QED BY <2>1, <2>3 DEF Tried
<1>7. ASSUME NEW e \in handlers, PushIfDirect(e) PROVE Tried'
  <2>1. position = 0
    BY DEF Shape, TaskOK
  <2> QED BY <1>1, <1>7, <2>1 DEF PushIfDirect, Tried, offsets
<1>8. CASE UNCHANGED <<position, task, fate>>
  BY <1>8 DEF Tried, Busy
<1> QED BY <1>2, <1>3, <1>4, <1>5, <1>6, <1>7, <1>8
        DEF Next, Consume, vars, offsets, Publish, Unregister, FlushCommits, InternalPush

-----------------------------------------------------------------------------
\* In one life of the consumer, without late pushes, nothing that was received
\* is ahead of the position.
InOrder(c) == \A i, j \in DOMAIN got[c] : i < j => got[c][i] =< got[c][j]
Ordered ==
  (mode = "kafka" /\ late = 0 /\ crashes = 0) =>
    wire = {} /\ \A c \in Conn : InOrder(c) /\ \A i \in DOMAIN got[c] : got[c][i] =< position

\* One more at the end, not less than what is there.
LEMMA AppendInOrder ==
  ASSUME NEW s \in Seq(Event), NEW e \in Event, \A i \in DOMAIN s : s[i] =< e,
         \A i, j \in DOMAIN s : i < j => s[i] =< s[j]
  PROVE  /\ \A i \in DOMAIN Append(s, e) : Append(s, e)[i] =< e
         /\ \A i, j \in DOMAIN Append(s, e) : i < j => Append(s, e)[i] =< Append(s, e)[j]
<1> DEFINE t == Append(s, e)
<1>1. /\ Len(s) \in Nat /\ DOMAIN s = 1..Len(s) /\ DOMAIN t = 1..(Len(s) + 1) /\ t[Len(s) + 1] = e
      /\ \A i \in DOMAIN s : t[i] = s[i] /\ s[i] \in Event
  OBVIOUS
<1>2. Event \subseteq Nat
  BY DEF Event
<1> HIDE DEF t
<1>3. \A i \in DOMAIN t : (i \in DOMAIN s /\ t[i] = s[i]) \/ (i = Len(s) + 1 /\ t[i] = e)
  BY <1>1
<1>4. e =< e
  BY <1>2
<1>5. \A i \in DOMAIN t : t[i] =< e
  BY <1>3, <1>4
<1>6. ASSUME NEW i \in DOMAIN t, NEW j \in DOMAIN t, i < j PROVE t[i] =< t[j]
  <2>1. i \in DOMAIN s
    BY <1>1, <1>6
  <2>2. CASE j \in DOMAIN s
    BY <1>1, <1>6, <2>1, <2>2
  <2>3. CASE j = Len(s) + 1
    BY <1>1, <1>5, <2>3
  <2> QED BY <1>3, <2>2, <2>3
<1> QED BY <1>5, <1>6 DEF t

LEMMA NextOrdered == ASSUME Shape, Ordered, [Next]_vars PROVE Ordered'
<1> SUFFICES ASSUME mode' = "kafka", late' = 0, crashes' = 0
             PROVE  wire' = {} /\ \A c \in Conn : InOrder(c)' /\ \A i \in DOMAIN got'[c] : got'[c][i] =< position'
  BY DEF Ordered
<1>1. mode = "kafka" /\ late = 0 /\ crashes = 0 /\ ~Crash
  <2>1. mode = "kafka"
    BY DEF Next, Consume, vars, deployment, Publish, Unregister, Fetch, ResolveOnlineRoutes, Push,
           NextPage, FlushCommits, Crash, InternalPush, PushIfDirect
  <2>2. /\ late \in Nat /\ crashes \in Nat /\ late' >= late /\ crashes' >= crashes
        /\ Crash => crashes' = crashes + 1
    BY FaultsRemain DEF Shape
  <2>3. late = 0 /\ crashes = 0
    BY <2>2
  <2> QED BY <2>1, <2>2, <2>3
<1>2. wire = {} /\ \A c \in Conn : InOrder(c) /\ \A i \in DOMAIN got[c] : got[c][i] =< position
  BY <1>1 DEF Ordered
<1>3. got \in [Conn -> Seq(Event)] /\ handlers = {}
  BY <1>1, TypeParts DEF Shape, Parts, SocketType, TaskOK
<1>4. CASE UNCHANGED <<got, wire, position>>
  BY <1>2, <1>4 DEF InOrder
<1>5. CASE Fetch
  <2>1. UNCHANGED <<got, wire>> /\ position' = position + 1 /\ position \in Nat
    BY <1>5, TypeParts DEF Fetch, Shape, Parts, OffsetType
  <2>2. \A c \in Conn : \A i \in DOMAIN got[c] : got[c][i] \in Nat
    <3>1. ASSUME NEW c \in Conn, NEW i \in DOMAIN got[c] PROVE got[c][i] \in Event
      BY <1>3
    <3> QED BY <3>1 DEF Event
  <2>3. \A c \in Conn : \A i \in DOMAIN got[c] : got[c][i] =< position + 1
    BY <1>2, <2>1, <2>2
  <2> QED BY <1>2, <2>1, <2>3 DEF InOrder
<1>6. ASSUME NEW s \in Server, Push(s) PROVE wire' = {} /\ \A c \in Conn : InOrder(c)' /\ \A i \in DOMAIN got'[c] : got'[c][i] =< position'
  <2>1. position' = position /\ position \in Event
    BY <1>6, PushFacts, TaskFacts DEF offsets
  <2>2. wire' = wire
    <3>1. late \in Nat /\ late' # late + 1
      BY <1>1
    <3> QED BY <1>6, <3>1, PushFacts
  <2>3. CASE got' = got
    BY <1>2, <2>1, <2>2, <2>3 DEF InOrder
  <2>4. ASSUME NEW full, SendToConnections(OnServer(s), position, full) PROVE \A c \in Conn : InOrder(c)' /\ \A i \in DOMAIN got'[c] : got'[c][i] =< position'
    <3> TAKE c \in Conn
    <3>1. got'[c] = got[c] \/ got'[c] = Append(got[c], position)
      BY <2>1, <2>4, SendFacts DEF Shape
    <3>2. got[c] \in Seq(Event) /\ InOrder(c) /\ \A i \in DOMAIN got[c] : got[c][i] =< position
      BY <1>2, <1>3
    <3>3. CASE got'[c] = got[c]
      BY <2>1, <3>2, <3>3 DEF InOrder
    <3>4. CASE got'[c] = Append(got[c], position)
      BY <2>1, <3>2, <3>4, AppendInOrder DEF InOrder
    <3> QED BY <3>1, <3>3, <3>4
  <2> QED BY <1>2, <1>6, <2>2, <2>3, <2>4, PushFacts
<1>7. ~(\E w \in wire : InternalPush(w)) /\ ~(\E e \in handlers : PushIfDirect(e))
  BY <1>2, <1>3
<1> QED BY <1>1, <1>4, <1>5, <1>6, <1>7
        DEF Next, Consume, vars, offsets, Publish, Unregister, ResolveOnlineRoutes, NextPage, FlushCommits

-----------------------------------------------------------------------------
\* How often a number is in a sequence.
Count(s, e) == Cardinality({i \in DOMAIN s : s[i] = e})

LEMMA CountFacts ==
  ASSUME NEW s \in Seq(Event), NEW e
  PROVE  /\ IsFiniteSet({i \in DOMAIN s : s[i] = e}) /\ Count(s, e) \in Nat
         /\ Count(s, e) > 0 <=> \E i \in DOMAIN s : s[i] = e
<1> DEFINE I == {i \in DOMAIN s : s[i] = e}
<1>1. Len(s) \in Nat /\ DOMAIN s = 1..Len(s)
  OBVIOUS
<1>2. IsFiniteSet(DOMAIN s)
  BY <1>1, FS_Interval
<1>3. I \in SUBSET DOMAIN s
  OBVIOUS
<1>4. IsFiniteSet(I)
  BY <1>2, <1>3, FS_Subset
<1>5. Cardinality(I) \in Nat /\ (Cardinality(I) = 0 <=> I = {})
  BY <1>4, FS_CardinalityType, FS_EmptySet
<1>6. Cardinality(I) > 0 <=> I # {}
  BY <1>5
<1> QED BY <1>4, <1>5, <1>6 DEF Count

LEMMA CountAppend ==
  ASSUME NEW s \in Seq(Event), NEW p \in Event, NEW e
  PROVE  Count(Append(s, p), e) = IF e = p THEN Count(s, e) + 1 ELSE Count(s, e)
<1> DEFINE t == Append(s, p)
           I == {i \in DOMAIN s : s[i] = e}
           n == Len(s) + 1
<1>1. /\ Len(s) \in Nat /\ DOMAIN s = 1..Len(s) /\ DOMAIN t = 1..n /\ t[n] = p
      /\ \A i \in DOMAIN s : t[i] = s[i]
  OBVIOUS
<1>2. DOMAIN t = DOMAIN s \union {n} /\ n \notin DOMAIN s
  BY <1>1
<1>3. IsFiniteSet(I) /\ n \notin I
  BY <1>2, CountFacts
<1> HIDE DEF t, n
<1>4. CASE e = p
  <2>1. {i \in DOMAIN t : t[i] = e} = I \union {n}
    BY <1>1, <1>2, <1>4
  <2>2. Cardinality(I \union {n}) = Cardinality(I) + 1
    BY <1>3, FS_AddElement
  <2> QED BY <1>4, <2>1, <2>2 DEF Count, t
<1>5. CASE e # p
  <2>1. {i \in DOMAIN t : t[i] = e} = I
    BY <1>1, <1>2, <1>5
  <2> QED BY <1>5, <2>1 DEF Count, t
<1> QED BY <1>4, <1>5

\* Pushes a connection has still to get.
Pending(c, e) == {w \in wire : w.event = e /\ c \in w.to}
Copies(c, e) == Times(c, e) + Cardinality(Pending(c, e))

LEMMA CopiesFacts ==
  ASSUME Shape, NEW c \in Conn, NEW e
  PROVE  /\ Times(c, e) = Count(got[c], e) /\ Times(c, e) \in Nat /\ got[c] \in Seq(Event)
         /\ IsFiniteSet(Pending(c, e)) /\ Cardinality(Pending(c, e)) \in Nat
         /\ Copies(c, e) \in Nat
<1>1. got[c] \in Seq(Event) /\ IsFiniteSet(wire)
  BY TypeParts DEF Shape, Parts, SocketType, LogOK
<1>2. Times(c, e) = Count(got[c], e)
  BY DEF Times, Count
<1>3. Count(got[c], e) \in Nat
  BY <1>1, CountFacts
<1>4. Pending(c, e) \in SUBSET wire
  BY DEF Pending
<1>5. IsFiniteSet(Pending(c, e))
  BY <1>1, <1>4, FS_Subset
<1>6. Cardinality(Pending(c, e)) \in Nat
  BY <1>5, FS_CardinalityType
<1> QED BY <1>1, <1>2, <1>3, <1>5, <1>6 DEF Copies

\* A push is one copy more for the connections it is for, at once or in time.
LEMMA CopiesSent ==
  ASSUME Shape, NEW target, NEW full, NEW p \in Event, SendToConnections(target, p, full), wire' = wire,
         NEW c \in Conn, NEW e \in Event
  PROVE  Copies(c, e)' =< IF e = p /\ c \in target THEN Copies(c, e) + 1 ELSE Copies(c, e)
<1>1. got'[c] = IF c \in (target \intersect live) \ full THEN Append(got[c], p) ELSE got[c]
  BY SendFacts DEF Shape
<1>2. Times(c, e)' = Count(got'[c], e) /\ Pending(c, e)' = Pending(c, e)
  BY DEF Times, Count, Pending
<1>3. /\ Times(c, e) = Count(got[c], e) /\ Times(c, e) \in Nat /\ got[c] \in Seq(Event)
      /\ Cardinality(Pending(c, e)) \in Nat
  BY CopiesFacts
<1>4. Count(Append(got[c], p), e) = IF e = p THEN Count(got[c], e) + 1 ELSE Count(got[c], e)
  BY <1>3, CountAppend
<1>5. Times(c, e)' =< IF e = p /\ c \in target THEN Times(c, e) + 1 ELSE Times(c, e)
  BY <1>1, <1>2, <1>3, <1>4
<1>6. Times(c, e)' \in Nat
  BY <1>1, <1>2, <1>3, <1>4
<1> QED BY <1>2, <1>3, <1>5, <1>6 DEF Copies

LEMMA CopiesLate ==
  ASSUME Shape, NEW w \in WireRow, wire' = wire \union {w}, got' = got, NEW c \in Conn, NEW e \in Event
  PROVE  Copies(c, e)' =< IF e = w.event /\ c \in w.to THEN Copies(c, e) + 1 ELSE Copies(c, e)
<1>1. Times(c, e)' = Times(c, e)
  BY DEF Times
<1>2. Times(c, e) \in Nat /\ IsFiniteSet(Pending(c, e)) /\ Cardinality(Pending(c, e)) \in Nat
  BY CopiesFacts
<1>3. CASE e = w.event /\ c \in w.to
  <2>1. Pending(c, e)' = Pending(c, e) \union {w}
    BY <1>3 DEF Pending
  <2>2. Cardinality(Pending(c, e) \union {w}) \in {Cardinality(Pending(c, e)), Cardinality(Pending(c, e)) + 1}
    BY <1>2, FS_AddElement
  <2>3. Cardinality(Pending(c, e)') \in {Cardinality(Pending(c, e)), Cardinality(Pending(c, e)) + 1}
    BY <2>1, <2>2
  <2> QED BY <1>1, <1>2, <1>3, <2>3 DEF Copies
<1>4. CASE ~(e = w.event /\ c \in w.to)
  <2>1. Pending(c, e)' = Pending(c, e)
    BY <1>4 DEF Pending
  <2> QED BY <1>1, <1>2, <1>4, <2>1 DEF Copies
<1> QED BY <1>3, <1>4

\* A late push that is taken is the copy it was counted as.
LEMMA CopiesTaken ==
  ASSUME Shape, NEW w \in wire, InternalPush(w), NEW c \in Conn, NEW e \in Event
  PROVE  Copies(c, e)' =< Copies(c, e)
<1>1. w.event \in Event /\ wire' = wire \ {w} /\ SendToConnections(w.to, w.event, {})
  BY TypeParts DEF InternalPush, Shape, Parts, SocketType, WireRow
<1>2. got'[c] = IF c \in w.to \intersect live THEN Append(got[c], w.event) ELSE got[c]
  <2>1. TypeOK
    BY DEF Shape
  <2>2. \A d \in Conn : got'[d] = IF d \in (w.to \intersect live) \ {} THEN Append(got[d], w.event) ELSE got[d]
    BY ONLY <1>1, <2>1, SendFacts
  <2> QED BY <2>2
<1>3. /\ Times(c, e) = Count(got[c], e) /\ Times(c, e) \in Nat /\ got[c] \in Seq(Event)
      /\ IsFiniteSet(Pending(c, e)) /\ Cardinality(Pending(c, e)) \in Nat
  BY CopiesFacts
<1>4. Count(Append(got[c], w.event), e) = IF e = w.event THEN Count(got[c], e) + 1 ELSE Count(got[c], e)
  BY <1>1, <1>3, CountAppend
<1>5. Times(c, e)' = Count(got'[c], e)
  BY DEF Times, Count
<1>6. CASE e = w.event /\ c \in w.to
  <2>1. Pending(c, e)' = Pending(c, e) \ {w} /\ w \in Pending(c, e)
    BY <1>1, <1>6 DEF Pending
  <2>2. Cardinality(Pending(c, e) \ {w}) = Cardinality(Pending(c, e)) - 1
    BY <1>3, <2>1, FS_RemoveElement
  <2>3. Times(c, e)' =< Times(c, e) + 1 /\ Times(c, e)' \in Nat
    BY <1>2, <1>3, <1>4, <1>5
  <2>4. Cardinality(Pending(c, e)') = Cardinality(Pending(c, e)) - 1
    BY <2>1, <2>2
  <2> QED BY <1>3, <2>3, <2>4 DEF Copies
<1>7. CASE ~(e = w.event /\ c \in w.to)
  <2>1. Pending(c, e)' = Pending(c, e)
    BY <1>1, <1>7 DEF Pending
  <2>2. Times(c, e)' = Times(c, e)
    BY <1>2, <1>3, <1>4, <1>5, <1>7
  <2> QED BY <1>3, <2>1, <2>2 DEF Copies
<1> QED BY <1>6, <1>7

-----------------------------------------------------------------------------
\* The attempt in hand has still to push e to c.
Ahead(c, e) ==
  \/ e \in handlers
  \/ /\ e = task.event
     /\ \/ task.step = "read" /\ place[c].user > task.cursor
        \/ task.step = "push" /\ c \in task.routes
        \/ task.step = "push" /\ task.next # 0 /\ place[c].user > task.next

\* The copies a connection has and may get are paid for by attempts.
Paid(c, e) == Copies(c, e) + (IF Ahead(c, e) THEN 1 ELSE 0) =< tries[e]
CopiesPaid == \A c \in Conn, e \in Event : Paid(c, e)

LEMMA PaidFacts ==
  ASSUME Shape, Shape', NEW c \in Conn, NEW e \in Event
  PROVE  Copies(c, e) \in Nat /\ Copies(c, e)' \in Nat /\ tries[e] \in Nat /\ tries'[e] \in Nat
<1>1. /\ got[c] \in Seq(Event) /\ IsFiniteSet(wire) /\ got'[c] \in Seq(Event) /\ IsFiniteSet(wire')
      /\ tries[e] \in Nat /\ tries'[e] \in Nat
  BY TypeParts DEF Shape, Parts, SocketType, HistoryType, LogOK
<1>2. Copies(c, e) \in Nat
  BY CopiesFacts
<1>3. Times(c, e)' \in Nat
  <2>1. Times(c, e)' = Count(got'[c], e)
    BY DEF Times, Count
  <2> QED BY <1>1, <2>1, CountFacts
<1>4. Cardinality(Pending(c, e)') \in Nat
  <2>1. Pending(c, e)' \in SUBSET wire'
    BY DEF Pending
  <2>2. IsFiniteSet(Pending(c, e)')
    BY <1>1, <2>1, FS_Subset
  <2> QED BY <2>2, FS_CardinalityType
<1>5. Copies(c, e)' \in Nat
  BY <1>3, <1>4 DEF Copies
<1> QED BY <1>1, <1>2, <1>5

\* A push that is made is not ahead any more.
LEMMA PaidBy ==
  ASSUME Shape, Shape', NEW c \in Conn, NEW e \in Event, Paid(c, e), tries'[e] = tries[e],
         \/ Copies(c, e)' =< Copies(c, e) /\ (Ahead(c, e)' => Ahead(c, e))
         \/ Copies(c, e)' =< Copies(c, e) + 1 /\ Ahead(c, e) /\ ~Ahead(c, e)'
  PROVE  Paid(c, e)'
<1>1. Copies(c, e) \in Nat /\ Copies(c, e)' \in Nat /\ tries[e] \in Nat /\ tries'[e] \in Nat
  BY PaidFacts
<1> DEFINE k == Copies(c, e)
           l == Copies(c, e)'
<1>2. k + (IF Ahead(c, e) THEN 1 ELSE 0) =< tries[e]
  BY DEF Paid
<1>3. l + (IF Ahead(c, e)' THEN 1 ELSE 0) =< tries'[e]
  <2> HIDE DEF k, l
  <2>1. k \in Nat /\ l \in Nat
    BY <1>1 DEF k, l
  <2>2. CASE l =< k /\ (Ahead(c, e)' => Ahead(c, e))
    BY <1>1, <1>2, <2>1, <2>2
  <2>3. CASE l =< k + 1 /\ Ahead(c, e) /\ ~Ahead(c, e)'
    BY <1>1, <1>2, <2>1, <2>3
  <2> QED BY <2>2, <2>3 DEF k, l
<1> QED BY <1>3 DEF Paid

\* Another attempt pays for one copy more.
LEMMA PaidAnew ==
  ASSUME Shape, Shape', NEW c \in Conn, NEW e \in Event, Paid(c, e), tries'[e] = tries[e] + 1,
         Copies(c, e)' =< Copies(c, e) + (IF Ahead(c, e) THEN 1 ELSE 0)
  PROVE  Paid(c, e)'
<1>1. Copies(c, e) \in Nat /\ Copies(c, e)' \in Nat /\ tries[e] \in Nat /\ tries'[e] \in Nat
  BY PaidFacts
<1>2. Copies(c, e)' =< tries[e]
  BY <1>1 DEF Paid
<1> QED BY <1>1, <1>2 DEF Paid

LEMMA PaidFailed ==
  ASSUME Shape, Shape', CopiesPaid, Busy, FailedAttempt, handlers' = handlers,
         \A c \in Conn, e \in Event : Copies(c, e)' =< IF Ahead(c, e) THEN Copies(c, e) + 1 ELSE Copies(c, e)
  PROVE  CopiesPaid'
<1> SUFFICES ASSUME NEW c \in Conn, NEW e \in Event PROVE Paid(c, e)'
  BY DEF CopiesPaid
<1>1. Paid(c, e) /\ task.event = position /\ handlers = {} /\ position \in Event
      /\ Copies(c, e) \in Nat /\ Copies(c, e)' \in Nat
  BY TaskFacts, PaidFacts DEF CopiesPaid
<1>2. tries \in [Event -> Nat]
  BY TypeParts DEF Shape, Parts, HistoryType
<1>3. CASE task' = Again /\ tries' = [tries EXCEPT ![position] = @ + 1]
  <2>1. CASE e = position
    BY <1>1, <1>2, <1>3, <2>1, PaidAnew
  <2>2. CASE e # position
    BY <1>1, <1>2, <1>3, <2>2, PaidBy DEF Ahead, Again
  <2> QED BY <2>1, <2>2
<1>4. CASE task' = Idle /\ tries' = tries
  BY <1>1, <1>4, PaidBy DEF Ahead, Idle
<1> QED BY <1>3, <1>4, FailedAttemptFacts

LEMMA CopiesSame ==
  ASSUME UNCHANGED <<got, wire>>
  PROVE  \A c \in Conn, e \in Event : Copies(c, e)' = Copies(c, e)
BY DEF Copies, Times, Pending

\* The connections of a push are in the routes of the attempt.
LEMMA OnServerAhead ==
  ASSUME Shape, task.step = "push", NEW s, NEW c \in OnServer(s)
  PROVE  Ahead(c, position) /\ c \in Conn
BY TaskFacts DEF Ahead, OnServer, Busy

LEMMA PushPaid == ASSUME Shape, Shape', CopiesPaid, NEW s \in Server, Push(s) PROVE CopiesPaid'
<1>1. /\ Busy /\ task.step = "push" /\ task.event = position /\ position \in Event /\ task \in TaskRow
      /\ handlers = {} /\ UNCHANGED <<deployment, handlers>>
  BY PushFacts, TaskFacts
<1>2. \A c \in Conn, e \in Event : Copies(c, e) \in Nat
  BY CopiesFacts
<1>3. /\ \A c \in Conn, e \in Event :
           Copies(c, e)' =< IF e = position /\ c \in OnServer(s) THEN Copies(c, e) + 1 ELSE Copies(c, e)
  <2>1. CASE UNCHANGED <<got, wire>>
    BY <1>2, <2>1, CopiesSame
  <2>2. CASE \E full : SendToConnections(OnServer(s), position, full) /\ wire' = wire
    BY <1>1, <2>2, CopiesSent
  <2>3. CASE got' = got /\ wire' = wire \union {LatePush(s)}
    <3>1. LatePush(s) \in WireRow /\ LatePush(s).event = position /\ LatePush(s).to = OnServer(s)
      BY <1>1, <2>3, WireGrows DEF LatePush
    <3> QED BY <2>3, <3>1, CopiesLate
  <2> QED BY <2>1, <2>2, <2>3, PushFacts
<1>4. \A c \in OnServer(s) : Ahead(c, position)
  BY <1>1, OnServerAhead
<1>5. CASE FailedAttempt
  <2>1. \A c \in Conn, e \in Event : Copies(c, e)' =< IF Ahead(c, e) THEN Copies(c, e) + 1 ELSE Copies(c, e)
    <3> TAKE c \in Conn, e \in Event
    <3>1. Copies(c, e) \in Nat /\ Copies(c, e)' \in Nat
      BY PaidFacts
    <3> QED BY <1>3, <1>4, <3>1
  <2> QED BY <1>1, <1>5, <2>1, PaidFailed
<1>6. CASE task' = Passed(s) /\ tries' = tries
  <2> SUFFICES ASSUME NEW c \in Conn, NEW e \in Event PROVE Paid(c, e)'
    BY DEF CopiesPaid
  <2>1. /\ task'.routes = task.routes \ OnServer(s) /\ task'.step = "push" /\ task'.next = task.next
        /\ task'.event = position
    BY <1>1, <1>6 DEF Passed, TaskRow
  <2>2. Ahead(c, e)' => Ahead(c, e)
    BY <1>1, <2>1 DEF Ahead, deployment
  <2>3. c \in OnServer(s) => ~Ahead(c, e)'
    <3>1. \A d \in task.routes : task.next = 0 \/ place[d].user =< task.next
      BY <1>1 DEF Shape, TaskOK
    <3>2. c \in OnServer(s) => c \in task.routes /\ c \notin task'.routes
      BY <2>1 DEF OnServer
    <3>3. task.next \in Nat /\ place[c].user \in Nat
      BY <1>1, TaskFacts, LogFacts DEF Shape
    <3>4. c \in OnServer(s) => ~(task.next # 0 /\ place[c].user > task.next)
      BY <3>1, <3>2, <3>3
    <3> QED BY <1>1, <2>1, <3>2, <3>4 DEF Ahead, deployment
  <2>4. Paid(c, e)
    BY DEF CopiesPaid
  <2>5. CASE e = position /\ c \in OnServer(s)
    BY <1>3, <1>4, <1>6, <2>3, <2>4, <2>5, PaidBy
  <2>6. CASE ~(e = position /\ c \in OnServer(s))
    BY <1>3, <1>6, <2>2, <2>4, <2>6, PaidBy
  <2> QED BY <2>5, <2>6
<1> QED BY <1>5, <1>6, PushFacts

LEMMA ResolvePaid == ASSUME Shape, Shape', CopiesPaid, ResolveOnlineRoutes PROVE CopiesPaid'
<1>1. /\ Busy /\ task.step = "read" /\ task.event = position /\ task \in TaskRow
      /\ handlers = {} /\ UNCHANGED <<deployment, handlers, got, wire>>
  <2>1. Busy
    BY DEF ResolveOnlineRoutes, Busy
  <2> QED BY <2>1, TaskFacts DEF ResolveOnlineRoutes
<1>2. \A c \in Conn, e \in Event : Copies(c, e) \in Nat /\ Copies(c, e)' = Copies(c, e)
  BY <1>1, CopiesFacts, CopiesSame
<1>3. CASE FailedAttempt
  <2>1. \A c \in Conn, e \in Event : Copies(c, e)' =< IF Ahead(c, e) THEN Copies(c, e) + 1 ELSE Copies(c, e)
    BY <1>2
  <2> QED BY <1>1, <1>3, <2>1, PaidFailed
<1>4. ASSUME NEW routes \in SUBSET {c \in live : place[c].user \in Targets.items},
             task' = [task EXCEPT !.routes = routes, !.next = Targets.next, !.step = "push"], tries' = tries,
             NEW c \in Conn, NEW e \in Event
      PROVE  Paid(c, e)'
  <2>1. task'.routes = routes /\ task'.step = "push" /\ task'.event = position /\ task'.next = Targets.next
    BY <1>1, <1>4 DEF TaskRow
  <2>2. /\ c \in routes => place[c].user > task.cursor
        /\ Targets.next # 0 /\ place[c].user > Targets.next => place[c].user > task.cursor
    <3>1. c \in routes => place[c].user > task.cursor
      BY <1>1, <1>4, TargetsFacts
    <3>2. Targets.next # 0 => Targets.next > task.cursor /\ Targets.next \in User
      BY <1>1, TargetsFacts
    <3>3. place[c].user \in Nat /\ task.cursor \in Nat /\ (Targets.next # 0 => Targets.next \in Nat)
      BY <1>1, <3>2, TaskFacts, LogFacts, UserFacts DEF Shape
    <3> DEFINE N == Targets.next
    <3>4. N # 0 => N > task.cursor /\ N \in Nat
      BY <3>2, <3>3
    <3> HIDE DEF N
    <3>5. N # 0 /\ place[c].user > N => place[c].user > task.cursor
      BY <3>3, <3>4
    <3> QED BY <3>1, <3>5 DEF N
  <2>3. Ahead(c, e)' => Ahead(c, e)
    <3> DEFINE N == Targets.next
    <3> HIDE DEF N
    <3>1. task'.next = N /\ (N # 0 /\ place[c].user > N => place[c].user > task.cursor)
      BY <2>1, <2>2 DEF N
    <3> QED BY <1>1, <2>1, <2>2, <3>1 DEF Ahead, deployment
  <2>4. Paid(c, e)
    BY DEF CopiesPaid
  <2>5. Copies(c, e)' =< Copies(c, e)
    BY <1>2
  <2> QED BY <1>4, <2>3, <2>4, <2>5, PaidBy
<1> QED BY <1>3, <1>4 DEF ResolveOnlineRoutes, CopiesPaid

\* A new event has no copies.
LEMMA PublishPaid ==
  ASSUME Shape, Shape', CopiesPaid, NEW kind, NEW to, Publish(kind, to)
  PROVE  CopiesPaid'
<1> DEFINE n == Len(log) + 1
<1> SUFFICES ASSUME NEW c \in Conn, NEW e \in Event PROVE Paid(c, e)'
  BY DEF CopiesPaid
<1>1. /\ UNCHANGED <<deployment, got, wire, task>>
      /\ \/ UNCHANGED <<handlers, tries>>
         \/ handlers' = handlers \union {n} /\ tries' = [tries EXCEPT ![n] = 1]
  BY DEF Publish
<1>2. Copies(c, e)' = Copies(c, e) /\ Copies(c, e) \in Nat /\ Paid(c, e)
  BY <1>1, CopiesSame, CopiesFacts DEF CopiesPaid
<1>3. tries \in [Event -> Nat]
  BY TypeParts DEF Shape, Parts, HistoryType
<1>4. CASE UNCHANGED <<handlers, tries>>
  <2>1. Ahead(c, e)' = Ahead(c, e)
    BY <1>1, <1>4 DEF Ahead, deployment
  <2> QED BY <1>2, <1>4, <2>1, PaidBy
<1>5. CASE e # n /\ handlers' = handlers \union {n} /\ tries' = [tries EXCEPT ![n] = 1]
  <2> HIDE DEF n
  <2>1. Ahead(c, e)' = Ahead(c, e)
    BY <1>1, <1>5 DEF Ahead, deployment
  <2> QED BY <1>2, <1>3, <1>5, <2>1, PaidBy
<1>6. CASE e = n /\ handlers' = handlers \union {n} /\ tries' = [tries EXCEPT ![n] = 1]
  <2>1. Len(log) \in Nat
    BY LogFacts DEF Shape
  <2>2. e > Len(log)
    BY <1>6, <2>1
  <2>3. tries[e] = 0
    BY <2>2 DEF Shape, LogOK
  <2> HIDE DEF n
  <2>4. Copies(c, e) = 0
    BY <1>2, <2>3 DEF Paid
  <2>5. Copies(c, e)' = 0 /\ tries'[e] = 1
    BY <1>2, <1>3, <1>6, <2>4
  <2> QED BY <2>5 DEF Paid
<1> QED BY <1>1, <1>4, <1>5, <1>6

LEMMA CrashPaid == ASSUME Shape, Shape', CopiesPaid, Crash PROVE CopiesPaid'
<1> SUFFICES ASSUME NEW c \in Conn, NEW e \in Event PROVE Paid(c, e)'
  BY DEF CopiesPaid
<1>1. tries' = tries /\ got' = got /\ Paid(c, e) /\ Copies(c, e) \in Nat
  BY CopiesFacts DEF Crash, CopiesPaid
<1>2. ~Ahead(c, e)'
  BY DEF Crash, Ahead, Idle
<1>3. CASE wire' = wire
  <2>1. Copies(c, e)' =< Copies(c, e)
    BY <1>1, <1>3, CopiesSame
  <2> QED BY <1>1, <1>2, <2>1, PaidBy
<1>4. ASSUME task.step = "push", NEW s \in Server, wire' = wire \union {LatePush(s)} PROVE Paid(c, e)'
  <2>1. LatePush(s) \in WireRow /\ LatePush(s).event = position /\ LatePush(s).to = OnServer(s)
    <3>1. task.event = position
      BY <1>4, TaskFacts DEF Busy
    <3> QED BY <1>4, <3>1, WireGrows DEF LatePush
  <2>2. Copies(c, e)' =< IF e = position /\ c \in OnServer(s) THEN Copies(c, e) + 1 ELSE Copies(c, e)
    BY <1>1, <1>4, <2>1, CopiesLate
  <2>3. c \in OnServer(s) => Ahead(c, position)
    BY <1>4, OnServerAhead
  <2>4. CASE e = position /\ c \in OnServer(s)
    BY <1>1, <1>2, <2>2, <2>3, <2>4, PaidBy
  <2>5. CASE ~(e = position /\ c \in OnServer(s))
    BY <1>1, <1>2, <2>2, <2>5, PaidBy
  <2> QED BY <2>4, <2>5
<1> QED BY <1>3, <1>4 DEF Crash, LatePush

LEMMA NextCopiesPaid == ASSUME Shape, Shape', CopiesPaid, [Next]_vars PROVE CopiesPaid'
<1>1. \A c \in Conn, e \in Event : Paid(c, e) /\ Copies(c, e) \in Nat
  BY CopiesFacts DEF CopiesPaid
<1>2. tries \in [Event -> Nat]
  BY TypeParts DEF Shape, Parts, HistoryType
<1>3. CASE Fetch
  <2> DEFINE n == position + 1
  <2> SUFFICES ASSUME NEW c \in Conn, NEW e \in Event PROVE Paid(c, e)'
    BY DEF CopiesPaid
  <2>1. /\ UNCHANGED <<got, wire, handlers>> /\ handlers = {} /\ task'.event = n
        /\ tries' = [tries EXCEPT ![n] = @ + 1]
    BY <1>3 DEF Fetch, Idle, Shape, TaskOK
  <2>2. Copies(c, e)' = Copies(c, e)
    BY <2>1, CopiesSame
  <2> HIDE DEF n
  <2>3. CASE e = n
    <3>1. tries'[e] = tries[e] + 1
      BY <1>2, <2>1, <2>3
    <3>2. Copies(c, e)' =< Copies(c, e) + (IF Ahead(c, e) THEN 1 ELSE 0)
      BY <1>1, <2>2
    <3> QED BY <1>1, <3>1, <3>2, PaidAnew
  <2>4. CASE e # n
    <3>1. tries'[e] = tries[e] /\ ~Ahead(c, e)' /\ Copies(c, e)' =< Copies(c, e)
      BY <1>1, <1>2, <2>1, <2>2, <2>4 DEF Ahead
    <3> QED BY <1>1, <3>1, PaidBy
  <2> QED BY <2>3, <2>4
<1>4. CASE NextPage
  <2> SUFFICES ASSUME NEW c \in Conn, NEW e \in Event PROVE Paid(c, e)'
    BY DEF CopiesPaid
  <2>1. UNCHANGED <<deployment, got, wire, handlers, tries>> /\ task.step = "push" /\ task \in TaskRow
    BY <1>4, TypeParts DEF NextPage, Shape, Parts, TaskType
  <2>2. Copies(c, e)' =< Copies(c, e)
    BY <1>1, <2>1, CopiesSame
  <2>3. CASE task.next # 0 /\ task' = [task EXCEPT !.cursor = task.next, !.step = "read"]
    <3>1. task'.step = "read" /\ task'.event = task.event /\ task'.cursor = task.next
      BY <2>1, <2>3 DEF TaskRow
    <3>2. Ahead(c, e)' => Ahead(c, e)
      BY <2>1, <2>3, <3>1 DEF Ahead, deployment
    <3> QED BY <1>1, <2>1, <2>2, <3>2, PaidBy
  <2>4. CASE task' = Idle
    <3>1. Ahead(c, e)' => Ahead(c, e)
      BY <2>1, <2>4 DEF Ahead, Idle
    <3> QED BY <1>1, <2>1, <2>2, <3>1, PaidBy
  <2> QED BY <1>4, <2>3, <2>4 DEF NextPage
<1>5. ASSUME NEW w \in wire, InternalPush(w), NEW c \in Conn, NEW e \in Event PROVE Paid(c, e)'
  <2>1. tries' = tries /\ Ahead(c, e)' = Ahead(c, e)
    BY <1>5 DEF InternalPush, Ahead, deployment
  <2>2. Copies(c, e)' =< Copies(c, e)
    BY <1>5, CopiesTaken
  <2> QED BY <1>1, <2>1, <2>2, PaidBy
<1>6. ASSUME NEW h \in handlers, PushIfDirect(h), NEW c \in Conn, NEW e \in Event PROVE Paid(c, e)'
  <2>1. /\ tries' = tries /\ task' = task /\ wire' = wire /\ handlers' = handlers \ {h} /\ task = Idle
        /\ h \in Event
    BY <1>6, TypeParts DEF PushIfDirect, Shape, TaskOK, Parts, TaskType
  <2>2. PICK target, full : SendToConnections(target, h, full)
    BY <1>6 DEF PushIfDirect
  <2>3. Copies(c, e)' =< IF e = h /\ c \in target THEN Copies(c, e) + 1 ELSE Copies(c, e)
    BY <2>1, <2>2, CopiesSent
  <2>4. CASE e = h
    <3>1. Ahead(c, e) /\ ~Ahead(c, e)'
      BY <2>1, <2>4 DEF Ahead, Idle
    <3>2. Copies(c, e)' =< Copies(c, e) + 1
      <4>1. Copies(c, e) \in Nat /\ Copies(c, e)' \in Nat
        BY PaidFacts
      <4> DEFINE k == Copies(c, e)
                 l == Copies(c, e)'
      <4>2. l =< IF e = h /\ c \in target THEN k + 1 ELSE k
        BY <2>3
      <4>3. k \in Nat /\ l \in Nat
        BY <4>1
      <4> HIDE DEF k, l
      <4>4. l =< k + 1
        BY <4>2, <4>3
      <4> QED BY <4>4 DEF k, l
    <3> QED BY <1>1, <2>1, <3>1, <3>2, PaidBy
  <2>5. CASE e # h
    <3>1. Ahead(c, e)' => Ahead(c, e)
      BY <2>1, <2>5 DEF Ahead, Idle
    <3> QED BY <1>1, <2>1, <2>3, <2>5, <3>1, PaidBy
  <2> QED BY <2>4, <2>5
<1>7. ASSUME UNCHANGED <<deployment, got, wire, task, handlers, tries>>, NEW c \in Conn, NEW e \in Event
      PROVE  Paid(c, e)'
  <2>1. Copies(c, e)' =< Copies(c, e) /\ Ahead(c, e)' = Ahead(c, e)
    BY <1>1, <1>7, CopiesSame DEF Ahead, deployment
  <2> QED BY <1>1, <1>7, <2>1, PaidBy
<1>8. CASE UNCHANGED <<deployment, got, wire, task, handlers, tries>>
  BY <1>7, <1>8 DEF CopiesPaid
<1>9. CASE (\E w \in wire : InternalPush(w)) \/ (\E h \in handlers : PushIfDirect(h))
  BY <1>5, <1>6, <1>9 DEF CopiesPaid
<1> QED BY <1>3, <1>4, <1>8, <1>9, PublishPaid, CrashPaid, PushPaid, ResolvePaid
        DEF Next, Consume, vars, Unregister, FlushCommits

-----------------------------------------------------------------------------
\* The event is in the channel of the connection, or a push that carries it is
\* on its way.
Reached(c, e) == Times(c, e) > 0 \/ Arriving(c, e)

\* Whom the attempt in hand is not going to push to any more has its event.
BehindReached ==
  silent = 0 => \A c \in live :
    Busy /\ place[c].user \in log[position].to => Ahead(c, position) \/ Reached(c, position)

\* What is sent to a connection stays in its channel.
LEMMA SentStays ==
  ASSUME Shape, NEW target, NEW full, NEW p \in Event, SendToConnections(target, p, full),
         NEW c \in Conn
  PROVE  /\ \A e : Times(c, e) > 0 => Times(c, e)' > 0
         /\ c \in (target \intersect live) \ full => Times(c, p)' > 0
<1>1. got'[c] = IF c \in (target \intersect live) \ full THEN Append(got[c], p) ELSE got[c]
  BY SendFacts DEF Shape
<1>2. \A e : Times(c, e)' = Count(got'[c], e) /\ Times(c, e) = Count(got[c], e)
  BY DEF Times, Count
<1>3. got[c] \in Seq(Event) /\ \A e : Count(got[c], e) \in Nat
  BY CopiesFacts, CountFacts
<1>4. \A e : Count(Append(got[c], p), e) = IF e = p THEN Count(got[c], e) + 1 ELSE Count(got[c], e)
  BY <1>3, CountAppend
<1>5. \A e : Count(got[c], e) > 0 => Count(got'[c], e) > 0
  BY <1>1, <1>3, <1>4
<1>6. c \in (target \intersect live) \ full => Count(got'[c], p) > 0
  BY <1>1, <1>3, <1>4
<1> QED BY <1>2, <1>5, <1>6

LEMMA ReachedSame ==
  ASSUME got' = got, wire \subseteq wire'
  PROVE  \A c, e : Reached(c, e) => Reached(c, e)'
BY DEF Reached, Times, Arriving

LEMMA ReachedSent ==
  ASSUME Shape, NEW target, NEW full, NEW p \in Event, SendToConnections(target, p, full), wire' = wire,
         NEW c \in Conn
  PROVE  /\ \A e : Reached(c, e) => Reached(c, e)'
         /\ c \in (target \intersect live) \ full => Reached(c, p)'
<1>1. \A e : Arriving(c, e)' <=> Arriving(c, e)
  BY DEF Arriving
<1> QED BY <1>1, SentStays DEF Reached

\* A connection that is up keeps what it has, and what is on its way arrives.
LEMMA ReachedStays ==
  ASSUME Shape, [Next]_vars, NEW c \in live', NEW e
  PROVE  c \in live /\ c \in Conn /\ (Reached(c, e) => Reached(c, e)')
<1>1. c \in live
  BY DEF Next, Consume, vars, Publish, Unregister, Fetch, ResolveOnlineRoutes, Push,
         NextPage, FlushCommits, Crash, InternalPush, PushIfDirect
<1>2. c \in Conn
  BY <1>1, TypeParts DEF Shape, Parts, SocketType
<1>3. CASE got' = got /\ wire \subseteq wire'
  BY <1>1, <1>2, <1>3, ReachedSame
<1>4. ASSUME NEW s \in Server, Push(s) PROVE Reached(c, e) => Reached(c, e)'
  <2>1. position \in Event
    BY <1>4, PushFacts, TaskFacts
  <2>2. CASE got' = got /\ wire \subseteq wire'
    BY <2>2, ReachedSame
  <2>3. CASE wire' = wire /\ \E full : SendToConnections(OnServer(s), position, full)
    BY <1>2, <2>1, <2>3, ReachedSent
  <2> QED BY <1>4, <2>2, <2>3, PushFacts
<1>5. ASSUME NEW w \in wire, InternalPush(w) PROVE Reached(c, e) => Reached(c, e)'
  <2>1. w.event \in Event /\ wire' = wire \ {w} /\ SendToConnections(w.to, w.event, {})
    BY <1>5, TypeParts DEF InternalPush, Shape, Parts, SocketType, WireRow
  <2> DEFINE p == w.event
             t == w.to
  <2>2. p \in Event /\ SendToConnections(t, p, {})
    BY <2>1
  <2> HIDE DEF p, t
  <2>3. /\ \A f : Times(c, f) > 0 => Times(c, f)' > 0
        /\ c \in (t \intersect live) \ {} => Times(c, p)' > 0
    BY ONLY Shape, <1>2, <2>2, SentStays
  <2>4. CASE \E v \in wire : v # w /\ v.event = e /\ c \in v.to
    BY <2>1, <2>4 DEF Reached, Arriving
  <2>5. CASE w.event = e /\ c \in w.to
    BY <1>1, <2>3, <2>5 DEF Reached, p, t
  <2> QED BY <2>3, <2>4, <2>5 DEF Reached, Arriving
<1>6. ASSUME NEW h \in handlers, PushIfDirect(h) PROVE Reached(c, e) => Reached(c, e)'
  <2>1. h \in Event /\ wire' = wire
    BY <1>6, TypeParts DEF PushIfDirect, Shape, Parts, TaskType
  <2>2. PICK target, full : SendToConnections(target, h, full)
    BY <1>6 DEF PushIfDirect
  <2> QED BY <1>2, <2>1, <2>2, ReachedSent
<1> QED BY <1>1, <1>2, <1>3, <1>4, <1>5, <1>6
        DEF Next, Consume, vars, Publish, Unregister, Fetch, ResolveOnlineRoutes, NextPage, FlushCommits, Crash

\* A new attempt begins with the first member, so that all are ahead of it.
LEMMA AheadAnew ==
  ASSUME Shape, NEW c \in Conn, task'.step = "read", task'.cursor = 0, place' = place, task'.event = position'
  PROVE  Ahead(c, position)'
<1>1. place[c].user \in Nat \ {0}
  BY LogFacts DEF Shape
<1>2. place'[c].user > 0
  BY <1>1
<1> QED BY <1>2 DEF Ahead

LEMMA FailedAhead ==
  ASSUME Shape, Busy, FailedAttempt, NEW c \in Conn, place' = place, position' = position, Busy'
  PROVE  Ahead(c, position)'
<1>1. task' = Again
  <2>1. Idle.step = "idle"
    BY DEF Idle
  <2>2. task' # Idle
    BY <2>1 DEF Busy
  <2> QED BY <2>2, FailedAttemptFacts
<1>2. task'.step = "read" /\ task'.cursor = 0 /\ task'.event = position
  BY <1>1, TaskFacts DEF Again
<1> QED BY <1>2, AheadAnew

LEMMA NextBehind == ASSUME Shape, Shape', BehindReached, [Next]_vars PROVE BehindReached'
<1> SUFFICES ASSUME silent' = 0, NEW c \in live', Busy', place'[c].user \in log'[position'].to
             PROVE  Ahead(c, position)' \/ Reached(c, position)'
  BY DEF BehindReached
<1> USE DEF BehindReached
<1>1. c \in live /\ c \in Conn /\ \A e : Reached(c, e) => Reached(c, e)'
  BY ReachedStays
<1>2. silent = 0
  <2>1. silent \in Nat /\ silent' >= silent
    BY FaultsRemain DEF Shape
  <2> QED BY <2>1
<1>3. place' = place
  BY DEF Next, Consume, vars, deployment, Publish, Unregister, Fetch, ResolveOnlineRoutes, Push,
         NextPage, FlushCommits, Crash, InternalPush, PushIfDirect
<1>4. Busy => /\ mode = "kafka" /\ handlers = {} /\ task.event = position /\ task \in TaskRow
              /\ position \in DOMAIN log /\ position \in Event
  BY TaskFacts
<1>5. ASSUME NEW kind, NEW to, Publish(kind, to) PROVE Ahead(c, position)' \/ Reached(c, position)'
  <2>1. UNCHANGED <<task, position>> /\ Busy /\ handlers \subseteq handlers'
    BY <1>5 DEF Publish, Busy, offsets
  <2>2. log'[position] = log[position]
    <3>1. log' = Append(log, [kind |-> kind, to |-> to])
      BY <1>5 DEF Publish
    <3>2. position \in DOMAIN log /\ log \in Seq(EventRow)
      BY <1>4, <2>1, LogFacts DEF Shape
    <3> QED BY <3>1, <3>2
  <2>3. Ahead(c, position) \/ Reached(c, position)
    BY <1>1, <1>2, <1>3, <2>1, <2>2
  <2> QED BY <1>1, <1>3, <2>1, <2>3 DEF Ahead
<1>6. CASE UNCHANGED <<log, task, position, handlers>>
  <2>1. Ahead(c, position) \/ Reached(c, position)
    BY <1>1, <1>2, <1>3, <1>6 DEF Busy
  <2>2. Ahead(c, position)' <=> Ahead(c, position)
    BY <1>3, <1>6 DEF Ahead
  <2>3. Reached(c, position) => Reached(c, position)'
    <3>1. position' = position
      BY <1>6
    <3> QED BY <1>1, <3>1
  <2> QED BY <2>1, <2>2, <2>3
<1>7. CASE Fetch
  <2>1. task'.step = "read" /\ task'.cursor = 0 /\ task'.event = position'
    BY <1>7 DEF Fetch, Idle
  <2> QED BY <1>1, <1>3, <2>1, AheadAnew
<1>8. CASE ResolveOnlineRoutes
  <2>1. Busy /\ task.step = "read" /\ position' = position /\ log' = log
    BY <1>8 DEF ResolveOnlineRoutes, Busy, offsets
  <2>2. CASE FailedAttempt
    BY <1>1, <1>3, <2>1, <2>2, FailedAhead
  <2>3. ASSUME NEW routes \in SUBSET {d \in live : place[d].user \in Targets.items},
               task' = [task EXCEPT !.routes = routes, !.next = Targets.next, !.step = "push"],
               routes = {d \in live : place[d].user \in Targets.items}
        PROVE  Ahead(c, position)' \/ Reached(c, position)'
    <3>1. task'.routes = routes /\ task'.step = "push" /\ task'.event = position /\ task'.next = Targets.next
      BY <1>4, <2>1, <2>3 DEF TaskRow
    <3>2. Ahead(c, position) \/ Reached(c, position)
      BY <1>1, <1>2, <1>3, <2>1
    <3>3. CASE Reached(c, position)
      BY <1>1, <2>1, <3>3
    <3>4. CASE Ahead(c, position)
      <4>1. place[c].user > task.cursor
        BY <1>4, <2>1, <3>4 DEF Ahead
      <4>2. place[c].user \in Nat /\ task.cursor \in Nat
        BY <1>1, <2>1, TaskFacts, LogFacts DEF Shape
      <4>3. ~(place[c].user =< task.cursor)
        BY <4>1, <4>2
      <4>4. place[c].user \in Targets.items \/ (Targets.next # 0 /\ place[c].user > Targets.next)
        BY <1>3, <2>1, <4>3, TargetsFacts
      <4>5. CASE place[c].user \in Targets.items
        <5>1. c \in task'.routes
          BY <1>1, <2>3, <3>1, <4>5
        <5> QED BY <2>1, <3>1, <5>1 DEF Ahead
      <4>6. CASE Targets.next # 0 /\ place[c].user > Targets.next
        <5>1. task'.next # 0 /\ place'[c].user > task'.next
          BY <1>3, <3>1, <4>6
        <5> QED BY <2>1, <3>1, <5>1 DEF Ahead
      <4> QED BY <4>4, <4>5, <4>6
    <3> QED BY <3>2, <3>3, <3>4
  <2>4. ~Fault(0, 1, 0, 0)
    BY <1>2 DEF Fault
  <2> QED BY <1>8, <2>2, <2>3, <2>4 DEF ResolveOnlineRoutes
<1>9. ASSUME NEW s \in Server, Push(s) PROVE Ahead(c, position)' \/ Reached(c, position)'
  <2>1. Busy /\ task.step = "push" /\ position' = position /\ log' = log /\ handlers' = handlers
    BY <1>9, PushFacts DEF offsets
  <2>2. CASE FailedAttempt
    BY <1>1, <1>3, <2>1, <2>2, FailedAhead
  <2>3. CASE task' = Passed(s) /\ c \notin OnServer(s)
    <3>1. task' = [task EXCEPT !.routes = task.routes \ OnServer(s)]
      BY <2>3 DEF Passed
    <3>2. /\ task'.routes = task.routes \ OnServer(s) /\ task'.step = "push" /\ task'.event = position
          /\ task'.next = task.next
      BY <1>4, <2>1, <3>1 DEF TaskRow
    <3>3. Ahead(c, position) => Ahead(c, position)'
      BY <1>3, <1>4, <2>1, <2>3, <3>2 DEF Ahead
    <3> QED BY <1>1, <1>2, <1>3, <2>1, <3>3
  <2>4. ASSUME c \in OnServer(s), NEW full, SendToConnections(OnServer(s), position, full), full = {}, wire' = wire
        PROVE  Reached(c, position)'
    <3>1. ASSUME NEW p \in Event, p = position PROVE Times(c, p)' > 0
      <4> DEFINE t == OnServer(s)
      <4>1. SendToConnections(t, p, {}) /\ c \in (t \intersect live) \ {}
        BY <1>1, <2>4, <3>1
      <4> HIDE DEF t
      <4> QED BY <1>1, <4>1, SentStays
    <3>2. position \in Event /\ position' = position
      BY <1>4, <2>1
    <3> QED BY <3>1, <3>2 DEF Reached, Times
  <2>5. CASE c \in OnServer(s) /\ wire' = wire \union {LatePush(s)}
    <3>1. LatePush(s) \in wire' /\ LatePush(s).event = position' /\ c \in LatePush(s).to
      BY <1>4, <2>1, <2>5 DEF LatePush
    <3> QED BY <3>1 DEF Reached, Arriving
  <2>6. silent' # silent + 1
    BY <1>2
  <2> QED BY <1>9, <2>2, <2>3, <2>4, <2>5, <2>6, PushFacts
<1>10. CASE NextPage
  <2>1. Busy /\ task.step = "push" /\ task.routes = {} /\ position' = position /\ log' = log /\ handlers' = handlers
    BY <1>10 DEF NextPage, Busy
  <2>2. task.next # 0 /\ task' = [task EXCEPT !.cursor = task.next, !.step = "read"]
    <3>1. Idle.step = "idle"
      BY DEF Idle
    <3>2. task' # Idle
      BY <3>1 DEF Busy
    <3> QED BY <1>10, <3>2 DEF NextPage
  <2>3. task'.step = "read" /\ task'.cursor = task.next /\ task'.event = position
    BY <1>4, <2>1, <2>2 DEF TaskRow
  <2>4. Ahead(c, position) => Ahead(c, position)'
    BY <1>3, <1>4, <2>1, <2>3 DEF Ahead
  <2> QED BY <1>1, <1>2, <1>3, <2>1, <2>4
<1>11. CASE Crash
  BY <1>11 DEF Crash, Busy, Idle
<1>12. ASSUME NEW h \in handlers, PushIfDirect(h) PROVE Ahead(c, position)' \/ Reached(c, position)'
  <2>1. task' = task
    BY <1>12 DEF PushIfDirect
  <2> QED BY <1>4, <1>12, <2>1 DEF Busy
<1> QED BY <1>5, <1>6, <1>7, <1>8, <1>9, <1>10, <1>11, <1>12
        DEF Next, Consume, vars, offsets, Unregister, FlushCommits, InternalPush

\* An event that is handled has reached whom it is for.
LEMMA NextHandled ==
  ASSUME Shape, Shape', BehindReached, HandledReaches, [Next]_vars
  PROVE  HandledReaches'
<1> SUFFICES ASSUME silent' = 0, NEW e \in 1..Len(log'), NEW c \in live', fate'[e] = "handled",
                    place'[c].user \in log'[e].to
             PROVE  Reached(c, e)'
  BY DEF HandledReaches, Reached
<1>1. c \in live /\ c \in Conn /\ (Reached(c, e) => Reached(c, e)')
  BY ReachedStays
<1>2. silent = 0
  <2>1. silent \in Nat /\ silent' >= silent
    BY FaultsRemain DEF Shape
  <2> QED BY <2>1
<1>3. place' = place
  BY DEF Next, Consume, vars, deployment, Publish, Unregister, Fetch, ResolveOnlineRoutes, Push,
         NextPage, FlushCommits, Crash, InternalPush, PushIfDirect
<1>4. /\ fate \in [Event -> {"none", "handled", "gave up"}] /\ Len(log) \in Nat
      /\ DOMAIN log = 1..Len(log)
  BY TypeParts, LogFacts DEF Shape, Parts, HistoryType
<1>5. e \in Event /\ e \in Nat /\ e >= 1
  <2>1. log' \in Seq(EventRow) /\ Len(log') =< MaxEvents
    BY TypeParts DEF Shape, Parts, LogType
  <2> QED BY <2>1, DeliveryAssumption DEF Event
<1>6. CASE e \in 1..Len(log) /\ fate[e] = "handled" /\ log'[e] = log[e]
  BY <1>1, <1>2, <1>3, <1>6 DEF HandledReaches, Reached
<1>7. ASSUME Busy, FailedAttempt PROVE fate[e] = "handled"
  <2>1. fate' = fate \/ fate' = [fate EXCEPT ![position] = "gave up"]
    BY <1>7, FailedAttemptFacts
  <2> QED BY <1>4, <1>5, <2>1
<1>8. ASSUME NEW kind, NEW to, Publish(kind, to) PROVE Reached(c, e)'
  <2> DEFINE r == [kind |-> kind, to |-> to]
  <2>1. log' = Append(log, r) /\ fate' = fate /\ log \in Seq(EventRow)
    BY <1>8, LogFacts DEF Publish, Shape
  <2>2. fate[e] = "handled"
    BY <2>1
  <2>3. ~(e > Len(log))
    BY <1>5, <2>2 DEF Shape, LogOK
  <2>4. e \in 1..Len(log)
    <3>1. Len(log) \in Nat /\ e \in Nat /\ e >= 1
      BY <1>4, <1>5
    <3> DEFINE l == Len(log)
    <3> HIDE DEF l
    <3>2. e \in 1..l
      BY <2>3, <3>1 DEF l
    <3> QED BY <3>2 DEF l
  <2>5. log'[e] = log[e]
    <3>1. e \in DOMAIN log
      BY <1>4, <2>4
    <3> HIDE DEF r
    <3> QED BY <2>1, <3>1
  <2> QED BY <1>6, <2>2, <2>4, <2>5
<1>9. CASE UNCHANGED <<log, fate>>
  BY <1>6, <1>9
<1>10. CASE ResolveOnlineRoutes
  <2>1. Busy /\ log' = log
    BY <1>10 DEF ResolveOnlineRoutes, Busy
  <2>2. fate[e] = "handled"
    BY <1>7, <1>10, <2>1 DEF ResolveOnlineRoutes
  <2> QED BY <1>6, <2>1, <2>2
<1>11. ASSUME NEW s \in Server, Push(s) PROVE Reached(c, e)'
  <2>1. Busy /\ log' = log
    BY <1>11, PushFacts
  <2>2. fate[e] = "handled"
    BY <1>7, <1>11, <2>1, PushFacts
  <2> QED BY <1>6, <2>1, <2>2
<1>12. CASE NextPage
  <2>1. Busy /\ task.step = "push" /\ task.routes = {} /\ log' = log
    BY <1>12 DEF NextPage, Busy
  <2>2. task.event = position /\ handlers = {} /\ position \in Event
    BY <2>1, TaskFacts
  <2>3. CASE fate' = fate
    BY <1>6, <2>1, <2>3
  <2>4. CASE task.next = 0 /\ fate' = [fate EXCEPT ![position] = "handled"]
    <3>1. CASE e # position
      BY <1>4, <1>5, <1>6, <2>1, <2>4, <3>1
    <3>2. CASE e = position
      <4>1. ~Ahead(c, position)
        BY <2>1, <2>2, <2>4 DEF Ahead
      <4> QED BY <1>1, <1>2, <1>3, <2>1, <3>2, <4>1 DEF BehindReached
    <3> QED BY <3>1, <3>2
  <2> QED BY <1>12, <2>2, <2>3, <2>4 DEF NextPage
<1>13. ASSUME NEW h \in handlers, PushIfDirect(h) PROVE Reached(c, e)'
  <2>1. /\ fate' = [fate EXCEPT ![h] = "handled"] /\ log' = log /\ h \in Event /\ wire' = wire
    BY <1>13, TypeParts DEF PushIfDirect, Shape, Parts, TaskType
  <2>2. CASE e # h
    BY <1>4, <1>5, <1>6, <2>1, <2>2
  <2>3. CASE e = h
    <3> DEFINE online == {d \in live : place[d].user \in log[h].to}
    <3>1. PICK full \in SUBSET online :
            /\ SendToConnections(online, h, full)
            /\ IF full = {} THEN NoFault ELSE Fault(0, 1, 0, 0)
      BY <1>13 DEF PushIfDirect
    <3>2. full = {}
      BY <1>2, <3>1 DEF Fault
    <3>3. c \in (online \intersect live) \ full
      BY <1>1, <1>3, <2>1, <2>3, <3>2
    <3>4. SendToConnections(online, h, full)
      BY <3>1
    <3> HIDE DEF online
    <3>5. Reached(c, h)'
      BY <1>1, <2>1, <3>3, <3>4, ReachedSent
    <3> QED BY <2>3, <3>5
  <2> QED BY <2>2, <2>3
<1> QED BY <1>8, <1>9, <1>10, <1>11, <1>12, <1>13
        DEF Next, Consume, vars, Unregister, Fetch, FlushCommits, Crash, InternalPush

-----------------------------------------------------------------------------
\* The inductive invariant: the shape of the state, what was tried, the order,
\* the copies and the reach of the events.
IInv == Shape /\ Tried /\ Ordered /\ CopiesPaid /\ BehindReached /\ HandledReaches

LEMMA InitInvariant == Init => IInv
<1> SUFFICES ASSUME Init PROVE IInv
  OBVIOUS
<1>1. Shape
  BY InitShape
<1>2. Tried /\ Ordered
  BY DEF Init, Tried, Ordered, InOrder
<1>3. CopiesPaid
  <2> SUFFICES ASSUME NEW c \in Conn, NEW e \in Event PROVE Paid(c, e)
    BY DEF CopiesPaid
  <2>1. {i \in DOMAIN got[c] : got[c][i] = e} = {} /\ Pending(c, e) = {}
    BY DEF Init, Pending
  <2>2. Copies(c, e) = 0
    BY <2>1, FS_EmptySet DEF Copies, Times
  <2>3. ~Ahead(c, e) /\ tries[e] = 0
    BY DEF Init, Ahead, Idle
  <2> QED BY <2>2, <2>3 DEF Paid
<1>4. BehindReached
  BY DEF Init, BehindReached, Busy, Idle
<1>5. HandledReaches
  BY DEF Init, HandledReaches
<1> QED BY <1>1, <1>2, <1>3, <1>4, <1>5 DEF IInv

LEMMA NextInvariant == IInv /\ [Next]_vars => IInv'
<1> SUFFICES ASSUME IInv, [Next]_vars PROVE IInv'
  OBVIOUS
<1>1. Shape'
  BY NextShape DEF IInv
<1> QED BY <1>1, NextTried, NextOrdered, NextCopiesPaid, NextBehind, NextHandled DEF IInv

THEOREM Invariance == Spec => []IInv
BY InitInvariant, NextInvariant, PTL DEF Spec

\* Every reachable state has its type: the offsets stay in their order
\* and inside the partition, the page in hand inside the membership.
THEOREM TypeCorrect == Spec => []TypeOK
<1>1. IInv => TypeOK
  BY DEF IInv, Shape
<1> QED BY <1>1, Invariance, PTL

\* Run commits an offset only over events that processMessage handled or gave
\* up after its last attempt: with the event in hand never handed over, a crash
\* of the consumer loses none that was not looked at.
THEOREM CommittedTried == Spec => []CommittedWasTried
<1>1. IInv => CommittedWasTried
  <2> SUFFICES ASSUME IInv, NEW e \in 1..committed PROVE fate[e] # "none"
    BY DEF CommittedWasTried
  <2>1. /\ committed \in Nat /\ acked \in Nat /\ position \in Nat
        /\ committed =< acked /\ acked =< position
    BY TypeParts DEF IInv, Shape, Parts, OffsetType
  <2>2. Busy => acked < position
    BY TaskFacts DEF IInv
  <2>3. e \in 1..position /\ ~(Busy /\ e = position)
    BY <2>1, <2>2
  <2> QED BY <2>3 DEF IInv, Tried
<1> QED BY <1>1, Invariance, PTL

\* The retries of processMessage, the pages of fanout and the pushes that fail
\* keep the order of the partition on every connection; only a push taken after
\* its timeout or a restart of the consumer may break it.
THEOREM OrderKept == Spec => []InPartitionOrder
<1>1. IInv => InPartitionOrder
  BY DEF IInv, Ordered, InOrder, InPartitionOrder
<1> QED BY <1>1, Invariance, PTL

\* When fanout or handleStructuredEvent ends well, every connection that is up
\* and that the event is for has it in its channel or in a push on its way,
\* whatever attempts failed before, unless the code dropped one silently.
THEOREM HandledIsReached == Spec => []HandledReaches
<1>1. IInv => HandledReaches
  BY DEF IInv
<1> QED BY <1>1, Invariance, PTL

\* processMessage repeats whole attempts, and one attempt pushes an event to
\* a connection at most once, be the push in time or late.
THEOREM CopiesBounded == Spec => []OneCopyPerAttempt
<1>1. IInv => OneCopyPerAttempt
  <2> SUFFICES ASSUME IInv, NEW c \in Conn, NEW e \in Event PROVE Times(c, e) =< tries[e]
    BY DEF OneCopyPerAttempt
  <2>1. Paid(c, e) /\ Times(c, e) \in Nat /\ Cardinality(Pending(c, e)) \in Nat /\ tries[e] \in Nat
    BY CopiesFacts, TypeParts DEF IInv, CopiesPaid, Shape, Parts, HistoryType
  <2> QED BY <2>1 DEF Paid, Copies
<1> QED BY <1>1, Invariance, PTL
=============================================================================
