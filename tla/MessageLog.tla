----------------------------- MODULE MessageLog -----------------------------
(***************************************************************************)
(* What the send path of GroupFlow promises its clients, without saying    *)
(* how: a log of group messages in which a sequence number is used once    *)
(* per group, a client message id produces one message, every stored       *)
(* message and every recall is announced by exactly one event, and an      *)
(* acknowledgement always names the stored message of the send it answers. *)
(* The sequence counter, the idempotency look-ups, the faults and the      *)
(* retries of service.SendGroupMessage are all below this level: SendPath  *)
(* implements this specification.                                          *)
(***************************************************************************)
EXTENDS Integers, Sequences

CONSTANTS
  Group,   \* group ids
  Send,    \* sends the clients may issue: [group, sender, cid]
  System,  \* the sender of system messages, sender_id = 0
  Table    \* Table[g]: the message table of group g

VARIABLES
  log,       \* set of stored messages [group, seq, sender, cid]
  recalled,  \* set of ids <<group, seq>> whose message is recalled
  events,    \* the announcements, in the order they were queued
  acks       \* set of acknowledgements [send, msg]

vars == <<log, recalled, events, acks>>

SystemOp(g) == [group |-> g, sender |-> System, cid |-> System]

Op == Send \union {SystemOp(g) : g \in Group}

Message == [group : Group, seq : Nat, sender : {o.sender : o \in Op}, cid : {o.cid : o \in Op}]

Id(m) == <<m.group, m.seq>>

\* m is a message the send s may be answered with.
Answers(m, s) ==
  /\ Table[m.group] = Table[s.group]
  /\ m.sender = s.sender
  /\ m.cid = s.cid

Init ==
  /\ log = {}
  /\ recalled = {}
  /\ events = <<>>
  /\ acks = {}

\* Store a message under a number its group has not used and, for a client's
\* message, a client id its sender has not used in that table.
Publish(m) ==
  /\ m \in Message
  /\ \A k \in log : Id(k) # Id(m)
  /\ m.sender # System => \A k \in log : ~ Answers(k, m)
  /\ log' = log \union {m}
  /\ events' = Append(events, [type |-> "created", id |-> Id(m)])
  /\ UNCHANGED <<recalled, acks>>

\* Recall a client's message, once.
Recall(m) ==
  /\ m \in log
  /\ m.sender # System
  /\ Id(m) \notin recalled
  /\ recalled' = recalled \union {Id(m)}
  /\ events' = Append(events, [type |-> "recalled", id |-> Id(m)])
  /\ UNCHANGED <<log, acks>>

\* Acknowledge a send with the message stored for it.
Acknowledge(s, m) ==
  /\ m \in log
  /\ Answers(m, s)
  /\ acks' = acks \union {[send |-> s, msg |-> m]}
  /\ UNCHANGED <<log, recalled, events>>

Next ==
  \/ \E m \in log' : Publish(m) \* log' names the only candidate
  \/ \E m \in log : Recall(m)
  \/ \E s \in Send, m \in log : Acknowledge(s, m)

Spec == Init /\ [][Next]_vars
=============================================================================
