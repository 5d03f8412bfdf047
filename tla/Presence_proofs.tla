-------------------------- MODULE Presence_proofs --------------------------
(***************************************************************************)
(* Proofs about Presence for any number of nodes, connections and faults:  *)
(* types, and that a connection which is up stays routed although nodes    *)
(* die, come back and are cleaned away around it.                          *)
(***************************************************************************)
EXTENDS Presence, TLAPS

LEMMA InitTypeOK == Init => TypeOK
BY PresenceAssumption DEF Init, TypeOK, Nobody, On

Cleaner == [step : {"idle", "check", "read", "apply"}, queue : SUBSET Server, dead : SUBSET Server,
            found : SUBSET Conn, known : SUBSET Conn]

\* Counting a failed call.
LEMMA FaultType ==
  ASSUME TypeOK, Redis \/ RedisFails \/ Fault
  PROVE  broken' \in [redis : 0..MaxFaults, other : 0..MaxFaults]
<1> USE PresenceAssumption DEF TypeOK
<1>1. CASE Redis
  BY <1>1 DEF Redis
<1>2. CASE RedisFails
  BY <1>2 DEF RedisFails
<1>3. CASE Fault
  BY <1>3 DEF Fault
<1> QED BY <1>1, <1>2, <1>3

LEMMA NextTypeOK ==
  ASSUME TypeOK, [Next]_vars
  PROVE  TypeOK'
<1> USE PresenceAssumption
<1> USE DEF TypeOK
<1>1. CASE UNCHANGED vars
  BY <1>1 DEF vars, hubs, keys
<1>2. ASSUME NEW c \in Conn, Register(c) PROVE TypeOK'
  BY <1>2 DEF Register, RenewRedis, Redis, RedisFails, keys, On
<1>3. ASSUME NEW c \in Conn, ReadPump(c) PROVE TypeOK'
  BY <1>3 DEF ReadPump, RenewRedis, hubs, On
<1>4. ASSUME NEW c \in Conn, Unregister(c) PROVE TypeOK'
  BY <1>4 DEF Unregister, Redis, RedisFails, On
<1>5. ASSUME NEW c \in Conn, Expire(c) PROVE TypeOK'
  BY <1>5 DEF Expire, Redis, RedisFails, hubs, On
<1>6. ASSUME NEW s \in Server, WriteHeartbeat(s) PROVE TypeOK'
  BY <1>6 DEF WriteHeartbeat, hubs, keys
<1>7. ASSUME NEW s \in Server, HeartbeatExpires(s) PROVE TypeOK'
  BY <1>7 DEF HeartbeatExpires, Fault, hubs, keys
<1>8. ASSUME NEW s \in Server, NodeLost(s) PROVE TypeOK'
  BY <1>8 DEF NodeLost, Fault, keys, On
<1>9. ASSUME NEW s \in Server, NodeStarts(s) PROVE TypeOK'
  BY <1>9 DEF NodeStarts, keys
<1>10. ASSUME NEW s \in Server, ExpireServer(s) PROVE TypeOK'
  BY <1>10 DEF ExpireServer, hubs, On
<1>11. ASSUME NEW u \in User, ExpireUser(u) PROVE TypeOK'
  BY <1>11 DEF ExpireUser, hubs, On
<1>12. CASE ScanActiveServerIDs
  BY <1>12 DEF ScanActiveServerIDs, Nobody, hubs, keys
<1>13. CASE CleanupDeadServers
  <2>1. cleaner \in Cleaner
    BY DEF Cleaner
  <2>2. cleaner' \in Cleaner
    <3>1. CASE cleaner' = Nobody
      BY <3>1 DEF Nobody, Cleaner
    <3>2. ASSUME NEW s \in Server, cleaner' = [cleaner EXCEPT !.queue = @ \ {s}] PROVE cleaner' \in Cleaner
      BY <2>1, <3>2 DEF Cleaner
    <3>3. ASSUME NEW s \in Server, cleaner' = [cleaner EXCEPT !.queue = @ \ {s}, !.dead = {s}, !.step = "read"]
          PROVE  cleaner' \in Cleaner
      BY <2>1, <3>3 DEF Cleaner
    <3>4. cleaner.queue \subseteq Server
      OBVIOUS
    <3> QED BY <1>13, <3>1, <3>2, <3>3, <3>4 DEF CleanupDeadServers, IsServerAlive
  <2>3. Redis \/ Fault
    BY <1>13 DEF CleanupDeadServers, IsServerAlive
  <2> QED BY <1>13, <2>2, <2>3, FaultType DEF CleanupDeadServers, Cleaner, hubs, keys
<1>14. CASE CleanupServer
  <2>1. cleaner \in Cleaner /\ \A s \in cleaner.dead : conns[s] \subseteq Conn
    BY DEF Cleaner
  <2>2. cleaner' \in Cleaner /\ (Redis \/ Fault)
    <3>1. PICK s \in cleaner.dead :
            \/ \E known \in {conns[s] \intersect userKey, {}} :
                 /\ cleaner' = [cleaner EXCEPT !.found = conns[s], !.known = known, !.step = "apply"]
                 /\ IF known = conns[s] \intersect userKey THEN Redis ELSE Fault
            \/ cleaner' = [cleaner EXCEPT !.dead = {}, !.step = "check"] /\ Fault
      BY <1>14 DEF CleanupServer
    <3>2. CASE cleaner' = [cleaner EXCEPT !.dead = {}, !.step = "check"] /\ Fault
      BY <2>1, <3>2 DEF Cleaner
    <3>3. ASSUME NEW known \in {conns[s] \intersect userKey, {}},
                 cleaner' = [cleaner EXCEPT !.found = conns[s], !.known = known, !.step = "apply"]
          PROVE  cleaner' \in Cleaner
      BY <2>1, <3>3 DEF Cleaner
    <3> QED BY <3>1, <3>2, <3>3
  <2> QED BY <1>14, <2>2, FaultType DEF CleanupServer, Cleaner, hubs, keys
<1>15. CASE ApplyCleanupCommands
  <2>1. PICK done \in SUBSET cleaner.found, s \in cleaner.dead :
          /\ serverKey' = serverKey \ done /\ userKey' = userKey \ done
          /\ online' = online \ (done \intersect cleaner.known)
          /\ IF done = cleaner.found THEN conns' = [conns EXCEPT ![s] = {}] /\ Redis
             ELSE UNCHANGED conns /\ Fault
    BY <1>15 DEF ApplyCleanupCommands
  <2>2. conns' \in [Server -> SUBSET Conn] /\ \A t \in Server : conns'[t] \subseteq On(t)
    BY <2>1
  <2>3. cleaner' \in Cleaner
    <3>1. cleaner \in Cleaner
      BY DEF Cleaner
    <3> QED BY <1>15, <3>1 DEF ApplyCleanupCommands, Cleaner
  <2>4. broken' \in [redis : 0..MaxFaults, other : 0..MaxFaults]
    BY <2>1, FaultType
  <2> QED BY <1>15, <2>1, <2>2, <2>3, <2>4 DEF ApplyCleanupCommands, Cleaner, hubs
<1> QED BY <1>1, <1>2, <1>3, <1>4, <1>5, <1>6, <1>7, <1>8, <1>9, <1>10, <1>11, <1>12, <1>13, <1>14, <1>15
        DEF Next, Cleanup

-----------------------------------------------------------------------------
\* What the cleanup holds: a node whose heartbeat was gone, and connections
\* of that node.
CleanerOK ==
  /\ Server \ heartbeat \subseteq doubted
  /\ cleaner.dead \subseteq doubted
  /\ \A c \in cleaner.found : ServerOf[c] \in cleaner.dead
  /\ cleaner.step # "apply" => cleaner.found = {}

IInv == TypeOK /\ CleanerOK /\ RoutedUnlessDoubted

LEMMA InitIInv == Init => IInv
BY InitTypeOK DEF Init, IInv, CleanerOK, RoutedUnlessDoubted, Nobody

LEMMA NextCleanerOK ==
  ASSUME TypeOK, CleanerOK, [Next]_vars
  PROVE  CleanerOK'
<1> USE DEF CleanerOK
<1>1. CASE UNCHANGED <<heartbeat, cleaner, doubted>>
  BY <1>1
<1>2. ASSUME NEW s \in Server, WriteHeartbeat(s) PROVE CleanerOK'
  BY <1>2 DEF WriteHeartbeat
<1>3. ASSUME NEW s \in Server, HeartbeatExpires(s) PROVE CleanerOK'
  BY <1>3 DEF HeartbeatExpires
<1>4. CASE ScanActiveServerIDs
  BY <1>4 DEF ScanActiveServerIDs, Nobody
<1>5. CASE CleanupDeadServers
  <2>1. cleaner \in Cleaner /\ UNCHANGED <<heartbeat, doubted>>
    BY <1>5 DEF CleanupDeadServers, TypeOK, Cleaner
  <2>2. CASE cleaner' = Nobody
    BY <2>1, <2>2 DEF Nobody
  <2>3. ASSUME NEW s \in cleaner.queue, IsServerAlive(s) PROVE CleanerOK'
    <3>1. CASE cleaner' = [cleaner EXCEPT !.queue = @ \ {s}]
      BY <2>1, <3>1 DEF Cleaner
    <3>2. CASE s \notin heartbeat /\ cleaner' = [cleaner EXCEPT !.queue = @ \ {s}, !.dead = {s}, !.step = "read"]
      <4>1. cleaner.step = "check"
        BY <1>5, <3>2, <2>1 DEF CleanupDeadServers, Nobody, Cleaner
      <4>2. cleaner.found = {} /\ s \in Server
        BY <2>1, <4>1 DEF Cleaner
      <4> QED BY <2>1, <3>2, <4>2 DEF Cleaner
    <3> QED BY <2>3, <3>1, <3>2 DEF IsServerAlive
  <2> QED BY <1>5, <2>2, <2>3 DEF CleanupDeadServers
<1>6. CASE CleanupServer
  <2>1. cleaner \in Cleaner /\ UNCHANGED <<heartbeat, doubted>>
    BY <1>6 DEF CleanupServer, TypeOK, Cleaner
  <2>2. PICK s \in cleaner.dead :
          \/ \E known \in {conns[s] \intersect userKey, {}} :
               cleaner' = [cleaner EXCEPT !.found = conns[s], !.known = known, !.step = "apply"]
          \/ cleaner' = [cleaner EXCEPT !.dead = {}, !.step = "check"]
    BY <1>6 DEF CleanupServer
  <2>3. \A c \in conns[s] : ServerOf[c] = s
    BY <2>1 DEF TypeOK, On, Cleaner
  <2>4. CASE cleaner' = [cleaner EXCEPT !.dead = {}, !.step = "check"]
    <3>1. cleaner.found = {}
      BY <1>6 DEF CleanupServer
    <3> QED BY <2>1, <2>4, <3>1 DEF Cleaner
  <2>5. ASSUME NEW known \in {conns[s] \intersect userKey, {}},
               cleaner' = [cleaner EXCEPT !.found = conns[s], !.known = known, !.step = "apply"]
        PROVE  CleanerOK'
    BY <2>1, <2>3, <2>5 DEF Cleaner
  <2> QED BY <2>2, <2>4, <2>5
<1>7. CASE ApplyCleanupCommands
  BY <1>7 DEF ApplyCleanupCommands, TypeOK
<1> QED BY <1>1, <1>2, <1>3, <1>4, <1>5, <1>6, <1>7
    DEF Next, Cleanup, vars, keys, Register, ReadPump, Unregister, Expire, NodeLost, NodeStarts, ExpireServer, ExpireUser

\* No step but a failing call or a miss of the node takes a route away from a
\* connection that is up.
LEMMA NextRouted ==
  ASSUME TypeOK, CleanerOK, RoutedUnlessDoubted, [Next]_vars
  PROVE  RoutedUnlessDoubted'
<1> SUFFICES ASSUME broken'.redis = 0, NEW c \in live', ServerOf[c] \notin doubted'
             PROVE  Routed(c)' /\ ServerOf[c] \in pushUrl'
  BY DEF RoutedUnlessDoubted
<1> USE PresenceAssumption DEF TypeOK, Routed
<1>0. broken.redis \in Nat /\ c \in Conn /\ ServerOf[c] \in Server
  BY NextTypeOK
<1>01. ASSUME RedisFails PROVE FALSE
  BY <1>0, <1>01 DEF RedisFails
<1>02. ASSUME Redis \/ Fault PROVE broken.redis = 0
  BY <1>0, <1>02 DEF Redis, Fault
<1>03. ASSUME broken.redis = 0, c \in live, ServerOf[c] \notin doubted PROVE Routed(c) /\ ServerOf[c] \in pushUrl
  BY <1>03 DEF RoutedUnlessDoubted
<1>1. CASE UNCHANGED vars
  BY <1>1, <1>02, <1>03 DEF vars, hubs, keys, Redis
<1>2. ASSUME NEW d \in Conn, Register(d) PROVE Routed(c)' /\ ServerOf[c] \in pushUrl'
  BY <1>0, <1>01, <1>02, <1>03, <1>2 DEF Register, RenewRedis
<1>3. ASSUME NEW d \in Conn, ReadPump(d) PROVE Routed(c)' /\ ServerOf[c] \in pushUrl'
  BY <1>02, <1>03, <1>3 DEF ReadPump, RenewRedis, Redis, hubs
<1>4. ASSUME NEW d \in Conn, Unregister(d) PROVE Routed(c)' /\ ServerOf[c] \in pushUrl'
  BY <1>01, <1>02, <1>03, <1>4 DEF Unregister
<1>5. ASSUME NEW d \in Conn, Expire(d) PROVE Routed(c)' /\ ServerOf[c] \in pushUrl'
  BY <1>01, <1>02, <1>03, <1>5 DEF Expire, hubs
<1>6. ASSUME NEW s \in Server, WriteHeartbeat(s) PROVE Routed(c)' /\ ServerOf[c] \in pushUrl'
  BY <1>02, <1>03, <1>6 DEF WriteHeartbeat, Redis, hubs, keys
<1>7. ASSUME NEW s \in Server, HeartbeatExpires(s) PROVE Routed(c)' /\ ServerOf[c] \in pushUrl'
  BY <1>02, <1>03, <1>7 DEF HeartbeatExpires, Redis, hubs, keys
<1>8. ASSUME NEW s \in Server, NodeLost(s) PROVE Routed(c)' /\ ServerOf[c] \in pushUrl'
  BY <1>02, <1>03, <1>8 DEF NodeLost, keys
<1>9. ASSUME NEW s \in Server, NodeStarts(s) PROVE Routed(c)' /\ ServerOf[c] \in pushUrl'
  BY <1>02, <1>03, <1>9 DEF NodeStarts, Redis, keys
<1>10. ASSUME NEW s \in Server, ExpireServer(s) PROVE Routed(c)' /\ ServerOf[c] \in pushUrl'
  BY <1>0, <1>02, <1>03, <1>10 DEF ExpireServer, Redis, hubs, On
<1>11. ASSUME NEW u \in User, ExpireUser(u) PROVE Routed(c)' /\ ServerOf[c] \in pushUrl'
  BY <1>0, <1>02, <1>03, <1>11 DEF ExpireUser, Redis, hubs, Of
<1>12. CASE ScanActiveServerIDs
  BY <1>02, <1>03, <1>12 DEF ScanActiveServerIDs, Redis, hubs, keys
<1>13. CASE CleanupDeadServers
  BY <1>02, <1>03, <1>13 DEF CleanupDeadServers, IsServerAlive, hubs, keys
<1>14. CASE CleanupServer
  BY <1>02, <1>03, <1>14 DEF CleanupServer, hubs, keys
<1>15. CASE ApplyCleanupCommands
  <2>1. c \notin cleaner.found
    BY <1>15 DEF ApplyCleanupCommands, CleanerOK
  <2> QED BY <1>02, <1>03, <1>15, <2>1 DEF ApplyCleanupCommands, hubs
<1> QED BY <1>1, <1>2, <1>3, <1>4, <1>5, <1>6, <1>7, <1>8, <1>9, <1>10, <1>11, <1>12, <1>13, <1>14, <1>15
        DEF Next, Cleanup

LEMMA Invariance == Spec => []IInv
<1>1. IInv /\ [Next]_vars => IInv'
  BY NextTypeOK, NextCleanerOK, NextRouted DEF IInv
<1> QED BY InitIInv, <1>1, PTL DEF Spec

-----------------------------------------------------------------------------
\* The state of hubs, keys and cleanup is well-typed; a connection is not up
\* and ended at once, and is listed only with its own node.
THEOREM TypeCorrect == Spec => []TypeOK
BY Invariance, PTL DEF IInv

\* A connection that is up is found by the delivery process, unless its node
\* missed its heartbeats or a call of a node to Redis failed: the cleanup
\* (delivery.go) deletes nothing of a node it found alive or could not ask
\* about, however nodes die and come back around it.
THEOREM LiveIsRouted == Spec => []RoutedUnlessDoubted
BY Invariance, PTL DEF IInv
=============================================================================
