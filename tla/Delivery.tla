------------------------------ MODULE Delivery ------------------------------
(***************************************************************************)
(* From one Kafka partition to the connections of a group: Run,            *)
(* processMessage, fanout and handleStructuredEvent of delivery.go, the    *)
(* internal push of router.go and SendToConnections of ws.go; and the push *)
(* straight from the request when Kafka is disabled.                       *)
(*                                                                         *)
(* The consumer does one thing at a time, but what it asked for may happen *)
(* later: a push that timed out may still be taken by the node, and an     *)
(* offset is sent to Kafka once a second.                                  *)
(***************************************************************************)
EXTENDS Paging, Sequences

CONSTANTS
  User,        \* ids of the members of the group
  Conn,        \* connection ids
  Server,      \* WebSocket nodes
  Places,      \* the users and nodes the connections may have
  Audiences,   \* sets of users a structured event may name
  Mode,        \* "kafka", and "direct" for KAFKA_ENABLED=false
  BatchMembers,\* members per page (1000)
  Attempts,    \* backoffs of processMessage (3)
  MaxEvents,   \* bound: events of the partition
  MaxFaults    \* bound: calls that fail or are late, full channels, restarts

ASSUME DeliveryAssumption ==
  /\ User \subseteq Nat \ {0} /\ IsFiniteSet(User)
  /\ Places \subseteq [Conn -> [user : User, server : Server]]
  /\ Audiences \subseteq SUBSET User
  /\ Mode \subseteq {"kafka", "direct"}
  /\ BatchMembers \in Nat \ {0} /\ Attempts \in Nat \ {0}
  /\ MaxEvents \in Nat /\ MaxFaults \in Nat

VARIABLES
  mode, place,      \* the deployment; user and node of each connection
  log,              \* events in the order of the partition: [kind, to]
  live,             \* connections that are up
  got,              \* events put into each connection's channel
  wire,             \* pushes a node has still to take
  position,         \* last offset fetched
  acked, committed, \* offset handed to CommitMessages; offset Kafka has
  task,             \* what the consumer is doing
  handlers,         \* direct: events whose request has still to push them
  failed, silent, late, crashes,  \* faults so far, by what they cost
  fate, tries       \* history: outcome and attempts of each event

deployment == <<mode, place>>
offsets == <<position, acked, committed>>
faults == <<failed, silent, late, crashes>>
vars == <<deployment, log, live, got, wire, offsets, task, handlers, faults, fate, tries>>

Event == 1..MaxEvents
Idle == [event |-> 0, attempt |-> 0, cursor |-> 0, next |-> 0, routes |-> {}, step |-> "idle"]

Init ==
  /\ mode \in Mode /\ place \in Places
  /\ log = <<>> /\ live = Conn
  /\ got = [c \in Conn |-> <<>>] /\ wire = {}
  /\ position = 0 /\ acked = 0 /\ committed = 0
  /\ task = Idle /\ handlers = {}
  /\ failed = 0 /\ silent = 0 /\ late = 0 /\ crashes = 0
  /\ fate = [e \in Event |-> "none"] /\ tries = [e \in Event |-> 0]

NoFault == UNCHANGED faults
Fault(f, s, l, c) ==
  /\ failed + silent + late + crashes < MaxFaults
  /\ failed' = failed + f /\ silent' = silent + s /\ late' = late + l /\ crashes' = crashes + c

-----------------------------------------------------------------------------
\* The relay appends an event; without Kafka the request that stored it goes
\* on to push it.
Publish(kind, to) ==
  /\ Len(log) < MaxEvents
  /\ log' = Append(log, [kind |-> kind, to |-> to])
  /\ IF mode = "direct"
     THEN handlers' = handlers \union {Len(log) + 1} /\ tries' = [tries EXCEPT ![Len(log) + 1] = 1]
     ELSE UNCHANGED <<handlers, tries>>
  /\ UNCHANGED <<deployment, live, got, wire, offsets, task, faults, fate>>

\* A connection that comes back has a new id.
Unregister(c) ==
  /\ live' = live \ {c} /\ live # live'
  /\ UNCHANGED <<deployment, log, got, wire, offsets, task, handlers, faults, fate, tries>>

\* SendToConnections: into the channel of each that is still up; the
\* channels in full drop it.
SendToConnections(target, e, full) ==
  got' = [c \in Conn |-> IF c \in (target \intersect live) \ full THEN Append(got[c], e) ELSE got[c]]

-----------------------------------------------------------------------------
Fetch ==
  /\ mode = "kafka" /\ task.step = "idle" /\ position < Len(log)
  /\ position' = position + 1
  /\ task' = [Idle EXCEPT !.event = position + 1, !.attempt = 1, !.step = "read"]
  /\ tries' = [tries EXCEPT ![position + 1] = @ + 1]
  /\ UNCHANGED <<deployment, log, live, got, wire, acked, committed, handlers, faults, fate>>

\* Mutant: a retry goes on behind the page that failed.
FailedAttemptGoesOn ==
  IF task.attempt < Attempts
  THEN /\ task' = [task EXCEPT !.attempt = @ + 1, !.routes = {}, !.step = "push"]
       /\ tries' = [tries EXCEPT ![task.event] = @ + 1]
       /\ UNCHANGED fate
  ELSE /\ task' = Idle /\ fate' = [fate EXCEPT ![task.event] = "gave up"] /\ UNCHANGED tries

\* processMessage begins the event anew, or gives it up without a commit:
\* Run logs the error and fetches the next one.
FailedAttempt ==
  IF task.attempt < Attempts
  THEN /\ task' = [Idle EXCEPT !.event = task.event, !.attempt = task.attempt + 1, !.step = "read"]
       /\ tries' = [tries EXCEPT ![task.event] = @ + 1]
       /\ UNCHANGED fate
  ELSE /\ task' = Idle /\ fate' = [fate EXCEPT ![task.event] = "gave up"] /\ UNCHANGED tries

\* The users of the next page, or those a structured event names.
Targets ==
  IF log[task.event].kind = "structured" THEN [items |-> log[task.event].to, next |-> 0]
  ELSE ListActiveMemberIDs(User, task.cursor, BatchMembers)

\* resolveOnlineRoutes: the connections of those users; an error of the query
\* or of the first pipeline fails the attempt, one of the second pipeline, or
\* a route that has expired, leaves connections out.
ResolveOnlineRoutes ==
  LET online == {c \in live : place[c].user \in Targets.items} IN
  /\ task.step = "read"
  /\ \/ \E routes \in SUBSET online :
          /\ task' = [task EXCEPT !.routes = routes, !.next = Targets.next, !.step = "push"]
          /\ IF routes = online THEN NoFault ELSE Fault(0, 1, 0, 0)
          /\ UNCHANGED <<fate, tries>>
     \/ FailedAttempt /\ Fault(1, 0, 0, 0)
  /\ UNCHANGED <<deployment, log, live, got, wire, offsets, handlers>>

OnServer(s) == {c \in task.routes : place[c].server = s}

\* Mutant: the push is repeated until it succeeds.
PushFailedAgain(s) == UNCHANGED <<task, fate, tries>>

\* What an error of push does: fanout goes on with the next node,
\* handleStructuredEvent returns it.
PushFailed(s) ==
  IF log[task.event].kind = "structured" THEN FailedAttempt
  ELSE task' = [task EXCEPT !.routes = @ \ OnServer(s)] /\ UNCHANGED <<fate, tries>>

\* Mutant: the pushes are made without waiting for the answers.
PushUnawaited(s) ==
  /\ task.step = "push" /\ OnServer(s) # {}
  /\ wire' = wire \union {[event |-> task.event, to |-> OnServer(s), try |-> tries[task.event]]}
  /\ task' = [task EXCEPT !.routes = @ \ OnServer(s)]
  /\ UNCHANGED <<deployment, log, live, got, offsets, handlers, faults, fate, tries>>

\* One node's connections of this page: the push url is looked up, the node
\* takes the push, refuses it, or takes it after the timeout of the client.
Push(s) ==
  /\ task.step = "push" /\ OnServer(s) # {}
  /\ \/ /\ \E full \in SUBSET OnServer(s) :
             /\ SendToConnections(OnServer(s), task.event, full)
             /\ IF full = {} THEN NoFault ELSE Fault(0, 1, 0, 0)
        /\ task' = [task EXCEPT !.routes = @ \ OnServer(s)]
        /\ UNCHANGED <<wire, fate, tries>>
     \/ FailedAttempt /\ Fault(1, 0, 0, 0) /\ UNCHANGED <<got, wire>>
     \/ PushFailed(s) /\ Fault(0, 1, 0, 0) /\ UNCHANGED <<got, wire>>
     \/ /\ wire' = wire \union {[event |-> task.event, to |-> OnServer(s), try |-> tries[task.event]]}
        /\ PushFailed(s) /\ Fault(0, 0, 1, 0) /\ UNCHANGED got
  /\ UNCHANGED <<deployment, log, live, offsets, handlers>>

\* internalPush on a node, for a push nobody waits for any more.
InternalPush(w) ==
  /\ wire' = wire \ {w}
  /\ SendToConnections(w.to, w.event, {})
  /\ UNCHANGED <<deployment, log, live, offsets, task, handlers, faults, fate, tries>>

\* Mutant: the next page is read from the old cursor.
NextPageAgain ==
  /\ task.step = "push" /\ task.routes = {}
  /\ IF task.next # 0
     THEN task' = [task EXCEPT !.step = "read"] /\ UNCHANGED <<acked, fate>>
     ELSE /\ task' = Idle /\ acked' = task.event
          /\ fate' = [fate EXCEPT ![task.event] = "handled"]
  /\ UNCHANGED <<deployment, log, live, got, wire, position, committed, handlers, faults, tries>>

\* The end of a page, and with the last page of the event: its offset goes to
\* CommitMessages, which returns at once.
NextPage ==
  /\ task.step = "push" /\ task.routes = {}
  /\ IF task.next # 0
     THEN task' = [task EXCEPT !.cursor = task.next, !.step = "read"] /\ UNCHANGED <<acked, fate>>
     ELSE /\ task' = Idle /\ acked' = task.event
          /\ fate' = [fate EXCEPT ![task.event] = "handled"]
  /\ UNCHANGED <<deployment, log, live, got, wire, position, committed, handlers, faults, tries>>

\* Mutant: what was fetched is committed.
FlushFetched ==
  /\ committed # position /\ committed' = position
  /\ UNCHANGED <<deployment, log, live, got, wire, position, acked, task, handlers, faults, fate, tries>>

\* CommitInterval: the last offset handed over covers every one before it.
FlushCommits ==
  /\ committed # acked /\ committed' = acked
  /\ UNCHANGED <<deployment, log, live, got, wire, position, acked, task, handlers, faults, fate, tries>>

\* The process is gone, and with it the requests it served; its last push may
\* still be taken.  The next consumer starts behind the committed offset.
Crash ==
  /\ Fault(0, 0, 0, 1) /\ handlers' = {}
  /\ position' = committed /\ acked' = committed /\ task' = Idle
  /\ \/ UNCHANGED wire
     \/ /\ task.step = "push"
        /\ \E s \in Server : OnServer(s) # {} /\
             wire' = wire \union {[event |-> task.event, to |-> OnServer(s), try |-> tries[task.event]]}
  /\ UNCHANGED <<deployment, log, live, got, committed, fate, tries>>

-----------------------------------------------------------------------------
\* pushIfDirect and pushEventIfDirect: the members are read page after page;
\* an error keeps those read so far.  SendToUsers then fills the channels.
PushIfDirect(e) ==
  /\ e \in handlers /\ handlers' = handlers \ {e}
  /\ LET online == {c \in live : place[c].user \in log[e].to} IN
     \E full \in SUBSET online :
       /\ SendToConnections(online, e, full)
       /\ IF full = {} THEN NoFault ELSE Fault(0, 1, 0, 0)
  /\ fate' = [fate EXCEPT ![e] = "handled"]
  /\ UNCHANGED <<deployment, log, live, wire, offsets, task, tries>>

-----------------------------------------------------------------------------
Consume == Fetch \/ ResolveOnlineRoutes \/ NextPage \/ \E s \in Server : Push(s)

Next ==
  \/ Publish("message", User) \/ \E to \in Audiences : Publish("structured", to)
  \/ \E c \in Conn : Unregister(c)
  \/ Consume \/ FlushCommits \/ Crash
  \/ \E w \in wire : InternalPush(w)
  \/ \E e \in handlers : PushIfDirect(e)

Fairness == WF_vars(Consume) /\ WF_vars(FlushCommits)

Spec == Init /\ [][Next]_vars /\ Fairness

-----------------------------------------------------------------------------
TypeOK ==
  /\ mode \in Mode /\ place \in Places
  /\ log \in Seq([kind : {"message", "structured"}, to : SUBSET User]) /\ Len(log) =< MaxEvents
  /\ live \in SUBSET Conn
  /\ got \in [Conn -> Seq(Event)]
  /\ wire \in SUBSET [event : Event, to : SUBSET Conn, try : Nat]
  /\ committed =< acked /\ acked =< position /\ position =< Len(log) /\ committed \in Nat
  /\ acked \in Nat /\ position \in Nat
  /\ task \in [event : 0..MaxEvents, attempt : 0..Attempts, cursor : User \union {0},
               next : User \union {0}, routes : SUBSET Conn, step : {"idle", "read", "push"}]
  /\ handlers \in SUBSET Event
  /\ {failed, silent, late, crashes} \subseteq Nat /\ failed + silent + late + crashes =< MaxFaults
  /\ fate \in [Event -> {"none", "handled", "gave up"}] /\ tries \in [Event -> Nat]

Times(c, e) == Cardinality({i \in DOMAIN got[c] : got[c][i] = e})
Arriving(c, e) == \E w \in wire : w.event = e /\ c \in w.to

\* An offset Kafka has covers only events that were handled, or tried as
\* often as processMessage tries: a crash loses none that was not looked at,
\* although a given up event is covered by the commit of a later one.
CommittedWasTried == \A e \in 1..committed : fate[e] # "none"

\* Within one life of the consumer a connection receives events in the
\* order of the partition (a recall after its message), retries and pushes
\* that fail included; only a push that outlives its timeout breaks it.
InPartitionOrder ==
  (mode = "kafka" /\ late = 0 /\ crashes = 0) =>
    \A c \in Conn : \A i, j \in DOMAIN got[c] : i < j => got[c][i] =< got[c][j]

\* A connection that stays up gets an event it is meant for when the
\* event is done with, whatever made attempts fail in between, if nothing was
\* dropped silently: a refused push, an unreadable route, a full channel.
HandledReaches ==
  silent = 0 =>
    \A e \in 1..Len(log), c \in live :
      (fate[e] = "handled" /\ place[c].user \in log[e].to) => Times(c, e) > 0 \/ Arriving(c, e)

\* A connection has at most one copy of an event for each attempt at it.
OneCopyPerAttempt ==
  \A e \in Event, c \in Conn : Times(c, e) =< tries[e]

\* Every event of the partition is handled or tried to the end, if the
\* consumer does not crash for ever.
EveryEventTried ==
  \A e \in Event : (mode = "kafka" /\ Len(log) >= e) ~> fate[e] # "none"
=============================================================================
