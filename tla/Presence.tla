------------------------------ MODULE Presence ------------------------------
(***************************************************************************)
(* Which node holds which connection, as Redis knows it: register,         *)
(* renewRedis, unregister and the heartbeat of ws.go, and the cleanup of   *)
(* dead nodes that the delivery process makes (delivery.go).               *)
(*                                                                         *)
(* The keys have no owner but their time to live, and neither side looks   *)
(* at what the other is doing: the cleanup finds a node dead, reads its    *)
(* connections and deletes their keys in three calls.                      *)
(***************************************************************************)
EXTENDS Integers, FiniteSets

CONSTANTS
  User, Conn, Server,  \* user ids, connection ids, nodes
  UserOf, ServerOf,    \* whose a connection is, and where it is made
  MaxFaults            \* bound: calls to Redis that fail, heartbeats missed, nodes lost

ASSUME PresenceAssumption ==
  /\ UserOf \in [Conn -> User] /\ ServerOf \in [Conn -> Server] /\ MaxFaults \in Nat

VARIABLES
  up,          \* nodes that run
  live, ended, \* connections a hub has; those unregister has removed
  online,      \* members of online:user:*:connections
  userKey, serverKey,  \* connections with connection:*:user and connection:*:server
  conns,       \* server:*:connections
  pushUrl, heartbeat,  \* nodes with server:*:push_url and server:*:heartbeat
  cleaner,     \* the cleanup: nodes to look at, and the one found dead
  broken,      \* calls of ws.go that failed, and other faults
  doubted      \* history: nodes whose heartbeat was once gone

keys == <<online, userKey, serverKey, conns, pushUrl>>
hubs == <<up, live, ended>>
vars == <<hubs, keys, heartbeat, cleaner, broken, doubted>>

Nobody == [step |-> "idle", queue |-> {}, dead |-> {}, found |-> {}, known |-> {}]

Init ==
  /\ up = Server /\ live = {} /\ ended = {}
  /\ online = {} /\ userKey = {} /\ serverKey = {}
  /\ conns = [s \in Server |-> {}] /\ pushUrl = {} /\ heartbeat = Server
  /\ cleaner = Nobody
  /\ broken = [redis |-> 0, other |-> 0] /\ doubted = {}

Redis == UNCHANGED broken
RedisFails == broken.redis + broken.other < MaxFaults /\ broken' = [broken EXCEPT !.redis = @ + 1]
Fault == broken.redis + broken.other < MaxFaults /\ broken' = [broken EXCEPT !.other = @ + 1]

On(s) == {c \in Conn : ServerOf[c] = s}
Of(u) == {c \in Conn : UserOf[c] = u}

-----------------------------------------------------------------------------
\* Mutant: only the time to live of the keys is renewed.
RenewRedisExpire(c) ==
  /\ online' = online /\ userKey' = userKey /\ serverKey' = serverKey
  /\ conns' = conns
  /\ pushUrl' = pushUrl \union {ServerOf[c]}

\* One pipeline sets every key of the connection and of its node again.
RenewRedis(c) ==
  /\ online' = online \union {c}
  /\ userKey' = userKey \union {c} /\ serverKey' = serverKey \union {c}
  /\ conns' = [conns EXCEPT ![ServerOf[c]] = @ \union {c}]
  /\ pushUrl' = pushUrl \union {ServerOf[c]}

\* Upgrade registers the connection; an error of the pipeline is dropped.
Register(c) ==
  /\ c \notin live \union ended /\ ServerOf[c] \in up
  /\ live' = live \union {c}
  /\ \/ RenewRedis(c) /\ Redis
     \/ UNCHANGED keys /\ RedisFails
  /\ UNCHANGED <<up, ended, heartbeat, cleaner, doubted>>

\* readPump: a pong or a ping renews the keys.
ReadPump(c) ==
  /\ c \in live /\ RenewRedis(c)
  /\ UNCHANGED <<hubs, heartbeat, cleaner, broken, doubted>>

\* unregister, at the end of readPump: two commands, and the error of each is
\* dropped; server:*:connections keeps the id.
Unregister(c) ==
  /\ c \in live
  /\ live' = live \ {c} /\ ended' = ended \union {c}
  /\ \E removed, deleted \in BOOLEAN :
       /\ online' = (IF removed THEN online \ {c} ELSE online)
       /\ userKey' = (IF deleted THEN userKey \ {c} ELSE userKey)
       /\ serverKey' = (IF deleted THEN serverKey \ {c} ELSE serverKey)
       /\ IF removed /\ deleted THEN Redis ELSE RedisFails
  /\ UNCHANGED <<up, conns, pushUrl, heartbeat, cleaner, doubted>>

\* RunHeartbeat writes every ten seconds what lives for thirty.
WriteHeartbeat(s) ==
  /\ s \in up /\ s \notin heartbeat
  /\ heartbeat' = heartbeat \union {s}
  /\ UNCHANGED <<hubs, keys, cleaner, broken, doubted>>

\* Of a node that is gone, or of one whose writes failed three times.
HeartbeatExpires(s) ==
  /\ s \in heartbeat
  /\ heartbeat' = heartbeat \ {s} /\ doubted' = doubted \union {s}
  /\ IF s \in up THEN Fault ELSE UNCHANGED broken
  /\ UNCHANGED <<hubs, keys, cleaner>>

\* The connections end with the node, and nobody unregisters them.
NodeLost(s) ==
  /\ s \in up /\ up' = up \ {s}
  /\ live' = live \ On(s) /\ ended' = ended \union (live \intersect On(s))
  /\ Fault
  /\ UNCHANGED <<keys, heartbeat, cleaner, doubted>>

\* With the same SERVER_ID.
NodeStarts(s) ==
  /\ s \notin up /\ up' = up \union {s}
  /\ UNCHANGED <<live, ended, keys, heartbeat, cleaner, broken, doubted>>

\* Mutant: the keys of a connection are set without a time to live.
ExpireNever(c) == FALSE /\ UNCHANGED vars

\* Ninety seconds after the last renewal: a connection that is silent for
\* seventy is closed, but the renewals of one that is up may fail.
Expire(c) ==
  /\ IF c \in live THEN RedisFails ELSE Redis
  /\ c \in userKey \union serverKey
  /\ userKey' = userKey \ {c} /\ serverKey' = serverKey \ {c}
  /\ UNCHANGED <<hubs, online, conns, pushUrl, heartbeat, cleaner, doubted>>

\* The sets of a user and of a node live as long as one connection renews them.
ExpireUser(u) ==
  /\ Of(u) \intersect live = {} /\ Of(u) \intersect online # {}
  /\ online' = online \ Of(u)
  /\ UNCHANGED <<hubs, userKey, serverKey, conns, pushUrl, heartbeat, cleaner, broken, doubted>>

ExpireServer(s) ==
  /\ On(s) \intersect live = {} /\ (conns[s] # {} \/ s \in pushUrl)
  /\ conns' = [conns EXCEPT ![s] = {}] /\ pushUrl' = pushUrl \ {s}
  /\ UNCHANGED <<hubs, online, userKey, serverKey, heartbeat, cleaner, broken, doubted>>

-----------------------------------------------------------------------------
\* cleanupDeadServers, every thirty seconds.
ScanActiveServerIDs ==
  /\ cleaner.step = "idle" /\ \E s \in Server : conns[s] # {}
  /\ cleaner' = [Nobody EXCEPT !.step = "check", !.queue = {s \in Server : conns[s] # {}}]
  /\ UNCHANGED <<hubs, keys, heartbeat, broken, doubted>>

\* Mutant: an error of EXISTS is taken for a missing key.
IsServerAliveOrError(s) ==
  \/ s \in heartbeat /\ Redis /\ cleaner' = [cleaner EXCEPT !.queue = @ \ {s}]
  \/ s \notin heartbeat /\ Redis /\ cleaner' = [cleaner EXCEPT !.queue = @ \ {s}, !.dead = {s}, !.step = "read"]
  \/ Fault /\ cleaner' = [cleaner EXCEPT !.queue = @ \ {s}, !.dead = {s}, !.step = "read"]

\* A node that is alive, or that cannot be asked about, is skipped.
IsServerAlive(s) ==
  \/ s \in heartbeat /\ Redis /\ cleaner' = [cleaner EXCEPT !.queue = @ \ {s}]
  \/ s \notin heartbeat /\ Redis /\ cleaner' = [cleaner EXCEPT !.queue = @ \ {s}, !.dead = {s}, !.step = "read"]
  \/ Fault /\ cleaner' = [cleaner EXCEPT !.queue = @ \ {s}]

CleanupDeadServers ==
  /\ cleaner.step = "check"
  /\ \/ cleaner.queue = {} /\ cleaner' = Nobody /\ Redis
     \/ \E s \in cleaner.queue : IsServerAlive(s)
  /\ UNCHANGED <<hubs, keys, heartbeat, doubted>>

\* cleanupServer: the connections and whose they are; a key that is not
\* there, or not read, is user 0.
CleanupServer ==
  /\ cleaner.step = "read"
  /\ \E s \in cleaner.dead :
       \/ /\ \E known \in {conns[s] \intersect userKey, {}} :
               /\ cleaner' = [cleaner EXCEPT !.found = conns[s], !.known = known, !.step = "apply"]
               /\ IF known = conns[s] \intersect userKey THEN Redis ELSE Fault
       \/ cleaner' = [cleaner EXCEPT !.dead = {}, !.step = "check"] /\ Fault
  /\ UNCHANGED <<hubs, keys, heartbeat, doubted>>

\* buildCleanupCommands in one pipeline, of which an error leaves out a part.
ApplyCleanupCommands ==
  /\ cleaner.step = "apply"
  /\ \E done \in SUBSET cleaner.found, s \in cleaner.dead :
       /\ serverKey' = serverKey \ done /\ userKey' = userKey \ done
       /\ online' = online \ (done \intersect cleaner.known)
       /\ IF done = cleaner.found THEN conns' = [conns EXCEPT ![s] = {}] /\ Redis
          ELSE UNCHANGED conns /\ Fault
  /\ cleaner' = [cleaner EXCEPT !.dead = {}, !.found = {}, !.known = {}, !.step = "check"]
  /\ UNCHANGED <<hubs, pushUrl, heartbeat, doubted>>

-----------------------------------------------------------------------------
Cleanup == ScanActiveServerIDs \/ CleanupDeadServers \/ CleanupServer \/ ApplyCleanupCommands

Next ==
  \/ \E c \in Conn : Register(c) \/ ReadPump(c) \/ Unregister(c) \/ Expire(c)
  \/ \E s \in Server : WriteHeartbeat(s) \/ HeartbeatExpires(s) \/ NodeLost(s) \/ NodeStarts(s) \/ ExpireServer(s)
  \/ \E u \in User : ExpireUser(u)
  \/ Cleanup

\* Connections are pinged, keys run out; Cleanup is fair as its ticker is.
Fairness ==
  /\ \A c \in Conn : WF_vars(ReadPump(c)) /\ WF_vars(Expire(c))
  /\ WF_vars(Cleanup)

Spec == Init /\ [][Next]_vars /\ Fairness

-----------------------------------------------------------------------------
TypeOK ==
  /\ up \in SUBSET Server /\ heartbeat \in SUBSET Server /\ pushUrl \in SUBSET Server /\ doubted \in SUBSET Server
  /\ live \in SUBSET Conn /\ ended \in SUBSET (Conn \ live)
  /\ online \in SUBSET Conn /\ userKey \in SUBSET Conn /\ serverKey \in SUBSET Conn
  /\ conns \in [Server -> SUBSET Conn] /\ \A s \in Server : conns[s] \subseteq On(s)
  /\ cleaner \in [step : {"idle", "check", "read", "apply"}, queue : SUBSET Server, dead : SUBSET Server,
                  found : SUBSET Conn, known : SUBSET Conn]
  /\ broken \in [redis : 0..MaxFaults, other : 0..MaxFaults]

Routed(c) == c \in online /\ c \in serverKey

\* A connection that is up is where the delivery process looks for it, and the
\* push url of its node is known, unless the heartbeat of its node was once
\* gone or a write of its node failed: the cleanup harms no node it could not
\* ask about.
RoutedUnlessDoubted ==
  broken.redis = 0 =>
    \A c \in live : ServerOf[c] \notin doubted => Routed(c) /\ ServerOf[c] \in pushUrl

\* A node that was taken for dead, as after a pause or by a cleanup that
\* overlaps with its restart, gets the routes of its connections back.
RouteComesBack == \A c \in Conn : c \in live ~> (Routed(c) \/ c \notin live)

\* A connection that ended, with its node or without, is not routed for ever,
\* although nobody may be there to unregister it and the node may be back
\* before its heartbeat was missed.
EndedIsForgotten == \A c \in Conn : c \in ended ~> c \notin serverKey
=============================================================================
