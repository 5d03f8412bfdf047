----------------------------- MODULE Membership -----------------------------
(***************************************************************************)
(* The members of one group and what belongs to a member: CreateGroup,     *)
(* JoinGroup, Approve/RejectJoinRequest, LeaveGroup, KickMember,           *)
(* SetMemberRole, DismissGroup, UpdateSettings, UpdateReadPosition, the    *)
(* mentions and the announcements of service.go and repo.go.               *)
(*                                                                         *)
(* A request is one to four steps: its checks, each a query of its own,    *)
(* and one transaction.  A request refused by its first check leaves no    *)
(* trace, so that check is the guard of the action that begins it.  The    *)
(* transactions are serial: their count and their unpinning lock the       *)
(* rows of the group.  What locking costs is the fault modelled here: the  *)
(* errors of exactly those statements are dropped, so one that times out   *)
(* is left out and a deadlock rolls back what the transaction had done,    *)
(* while the statements after it and the answer go on as if it had not.    *)
(***************************************************************************)
EXTENDS Integers, Sequences, FiniteSets

CONSTANTS
  User,         \* user ids
  Owner,        \* creator of the group
  Mode,         \* join modes the group may be created with
  Limit,        \* max_member_count at creation
  Process,      \* concurrent requests
  MaxOps,       \* bound: requests begun and messages stored
  MaxMessages,  \* bound: sequences stored
  MaxFaults     \* bound: lock waits that time out and deadlocks

ASSUME MembershipAssumption ==
  /\ Owner \in User /\ IsFiniteSet(User)
  /\ Process # {} /\ IsFiniteSet(Process)
  /\ Mode \subseteq {"direct", "approval"}
  /\ Limit \in Nat \ {0} /\ MaxOps \in Nat /\ MaxMessages \in Nat /\ MaxFaults \in Nat

VARIABLES
  group,     \* chat_group: [mode, status, count, max, seq]
  member,    \* group_member: [role, status, read, joined] by user
  mention,   \* group_mention: read status by user and sequence
  requests,  \* group_join_request by id, with the events queued about each
  board,     \* group_announcement by id: [status, pinned]
  proc,      \* what each request is doing
  ops, lost, rolled,   \* operations, statements lost, deadlocks
  appointed, \* history: made admin since he last came in
  largest    \* history: the largest max_member_count so far

counters == <<ops, lost, rolled>>
history == <<appointed, largest>>
vars == <<group, member, mention, requests, board, proc, counters, history>>

Idle == [op |-> "none", by |-> Owner, on |-> Owner, id |-> 0, step |-> "none"]
Operations == {"join", "approve", "reject", "leave", "kick", "role", "dismiss",
               "settings", "read", "create", "update", "unpin", "delete"}
Steps == {"none", "active", "add", "pending", "target", "apply"}

Active == {u \in User : member[u].status = "normal"}
MayManage(u) == u \in Active /\ member[u].role \in {"owner", "admin"}
IsOwner(u) == u \in Active /\ member[u].role = "owner"

NoRow == [role |-> "member", status |-> "none", read |-> 0, joined |-> 0]

\* The group and its first member, the owner, are one transaction.
Init ==
  /\ group \in {[mode |-> m, status |-> "normal", count |-> 1, max |-> Limit, seq |-> 0] : m \in Mode}
  /\ member = [u \in User |-> IF u = Owner THEN [NoRow EXCEPT !.role = "owner", !.status = "normal"]
                                           ELSE NoRow]
  /\ mention = [u \in User |-> [s \in 1..MaxMessages |-> "none"]]
  /\ requests = <<>> /\ board = <<>>
  /\ proc = [p \in Process |-> Idle]
  /\ ops = 0 /\ lost = 0 /\ rolled = 0
  /\ appointed = {} /\ largest = Limit

Count == ops < MaxOps /\ ops' = ops + 1 /\ UNCHANGED <<lost, rolled>>

Begin(p, op, u, v, i, step) ==
  /\ proc[p].step = "none" /\ Count
  /\ proc' = [proc EXCEPT ![p] = [op |-> op, by |-> u, on |-> v, id |-> i, step |-> step]]
  /\ UNCHANGED <<group, member, mention, requests, board, history>>

At(p, op, step) == proc[p].op = op /\ proc[p].step = step
Go(p, step) == proc' = [proc EXCEPT ![p].step = step]
Done(p) == proc' = [proc EXCEPT ![p] = Idle]
Fault(l, r) ==
  /\ lost + rolled + l + r =< MaxFaults
  /\ lost' = lost + l /\ rolled' = rolled + r /\ UNCHANGED ops

\* Mutant: the members are counted before the change.
CountMembersBefore(m) ==
  group' = [group EXCEPT !.count = Cardinality(Active)] /\ UNCHANGED counters

\* UPDATE chat_group SET member_count=(SELECT COUNT ...) ends the three
\* transactions that change members; it may be lost to a lock wait.
CountMembers(m) ==
  \/ /\ group' = [group EXCEPT !.count = Cardinality({u \in User : m[u].status = "normal"})]
     /\ UNCHANGED counters
  \/ UNCHANGED group /\ Fault(1, 0)

-----------------------------------------------------------------------------
\* InsertMessage of the send path, as far as members see it.
StoreMessage(M) ==
  /\ group.seq < MaxMessages
  /\ Count
  /\ group' = [group EXCEPT !.seq = @ + 1]
  /\ mention' = [u \in User |-> IF u \in M
                   THEN [mention[u] EXCEPT ![group.seq + 1] =
                           IF group.seq + 1 > member[u].read THEN "unread" ELSE "late"]
                   ELSE mention[u]]
  /\ UNCHANGED <<member, requests, board, proc, history>>

-----------------------------------------------------------------------------
\* Mutant: a full group takes one more.
JoinGroupFull(p, u) ==
  /\ group.status = "normal"
  /\ group.count =< group.max
  /\ Begin(p, "join", u, u, 0, "active")

\* JoinGroup: the group is read first.
JoinGroup(p, u) ==
  /\ group.status = "normal"
  /\ group.count < group.max
  /\ Begin(p, "join", u, u, 0, "active")

\* Members are told they have joined.
IsActiveMember(p) ==
  /\ At(p, "join", "active")
  /\ \/ proc[p].by \in Active /\ Done(p)
     \/ proc[p].by \notin Active /\ Go(p, IF group.mode = "approval" THEN "pending" ELSE "add")
  /\ UNCHANGED <<group, member, mention, requests, board, counters, history>>

Pending(u) == {i \in DOMAIN requests : requests[i].user = u /\ requests[i].status = "pending"}

\* CreateJoinRequest looks for a pending request, then inserts outside of it.
GetPendingJoinRequest(p) ==
  /\ At(p, "join", "pending")
  /\ \/ Pending(proc[p].by) # {} /\ Done(p)
     \/ Pending(proc[p].by) = {} /\ Go(p, "apply")
  /\ UNCHANGED <<group, member, mention, requests, board, counters, history>>

\* The request and the event to owner and admins are one transaction.
CreateJoinRequest(p) ==
  /\ At(p, "join", "apply")
  /\ requests' = Append(requests, [user |-> proc[p].by, status |-> "pending", approvals |-> 0, rejections |-> 0])
  /\ Done(p)
  /\ UNCHANGED <<group, member, mention, board, counters, history>>

\* The upsert of ApproveJoinRequest: role and read position of a row that
\* was there stay, join_sequence is renewed.
Readmit(u) == [member EXCEPT ![u].status = "normal", ![u].joined = group.seq]

\* Mutant: the upsert of AddMember keeps the role as well.
EnterAsBefore(u) == Readmit(u)

\* The upsert of AddMember: whoever is not the owner starts as a member.
Enter(u) == [Readmit(u) EXCEPT ![u].role = IF @ = "owner" THEN @ ELSE "member"]

\* A deadlock in the count rolls the upsert back and is not noticed.
AddMember(p) ==
  /\ At(p, "join", "add")
  /\ \/ /\ member' = Enter(proc[p].by)
        /\ appointed' = appointed \ {proc[p].by}
        /\ CountMembers(member')
     \/ UNCHANGED <<group, member, appointed>> /\ Fault(0, 1)
  /\ Done(p)
  /\ UNCHANGED <<mention, requests, board, largest>>

-----------------------------------------------------------------------------
\* requireRole, the first query of every operation on others.
RequireRole(p, op, u, v, i, step) ==
  /\ IF op \in {"dismiss", "role"} THEN IsOwner(u) ELSE MayManage(u)
  /\ Begin(p, op, u, v, i, step)

DecideJoinRequest(p, u, i) == \E op \in {"approve", "reject"} : RequireRole(p, op, u, Owner, i, "apply")

\* Mutant: the status of the request is not looked at.
UndecidedAlways(i) == TRUE

\* ... AND status='pending', locking the request.
Undecided(i) == requests[i].status = "pending"

\* ApproveJoinRequest takes a pending request; neither the size nor the
\* status of the group is looked at.  After a deadlock in the count the event
\* is still inserted, in a transaction of its own.
ApproveJoinRequest(p) ==
  LET i == proc[p].id IN
  /\ At(p, "approve", "apply")
  /\ \/ /\ Undecided(i)
        /\ requests' = [requests EXCEPT ![i].status = "approved", ![i].approvals = @ + 1]
        /\ member' = Readmit(requests[i].user)
        /\ appointed' = appointed \ {requests[i].user}
        /\ CountMembers(member')
     \/ /\ Undecided(i)
        /\ requests' = [requests EXCEPT ![i].approvals = @ + 1]
        /\ Fault(0, 1)
        /\ UNCHANGED <<member, group, appointed>>
     \/ /\ ~Undecided(i)
        /\ UNCHANGED <<requests, member, group, appointed, counters>>
  /\ Done(p)
  /\ UNCHANGED <<mention, board, largest>>

RejectJoinRequest(p) ==
  LET i == proc[p].id IN
  /\ At(p, "reject", "apply")
  /\ IF Undecided(i)
     THEN requests' = [requests EXCEPT ![i].status = "rejected", ![i].rejections = @ + 1]
     ELSE UNCHANGED requests
  /\ Done(p)
  /\ UNCHANGED <<group, member, mention, board, counters, history>>

-----------------------------------------------------------------------------
\* LeaveGroup reads the caller's row; his status is not looked at.
LeaveGroup(p, u) ==
  /\ member[u].status # "none"
  /\ member[u].role # "owner"
  /\ Begin(p, "leave", u, u, 0, "apply")

KickMember(p, u, v) == RequireRole(p, "kick", u, v, 0, "target")

\* The second query of KickMember.
GetMember(p) ==
  /\ At(p, "kick", "target")
  /\ IF member[proc[p].on].status # "none" /\ member[proc[p].on].role # "owner"
     THEN Go(p, "apply") ELSE Done(p)
  /\ UNCHANGED <<group, member, mention, requests, board, counters, history>>

\* MarkMemberStatus for LeaveGroup and KickMember: whatever the row's status
\* was it is overwritten.  (The event of a kick is left out.)
MarkMemberStatus(p) ==
  LET u == proc[p].on IN
  /\ At(p, "leave", "apply") \/ At(p, "kick", "apply")
  /\ \/ /\ member' = [member EXCEPT ![u].status =
                        IF member[u].role = "owner" THEN @
                        ELSE IF proc[p].op = "kick" THEN "kicked" ELSE "left"]
        /\ CountMembers(member')
     \/ UNCHANGED <<group, member>> /\ Fault(0, 1)
  /\ Done(p)
  /\ UNCHANGED <<mention, requests, board, history>>

SetMemberRole(p, u, v, i) == RequireRole(p, "role", u, v, i, "apply")

\* Mutant: every active member.
RoleIsMutableAlways(u) == u \in Active

\* ... AND status='normal' AND role <> 'owner'.
RoleIsMutable(u) == u \in Active /\ member[u].role # "owner"

\* id 1 stands for the role admin, 0 for member.
UpdateMemberRole(p) ==
  LET u == proc[p].on IN
  /\ At(p, "role", "apply")
  /\ IF RoleIsMutable(u)
     THEN /\ member' = [member EXCEPT ![u].role = IF proc[p].id = 1 THEN "admin" ELSE "member"]
          /\ appointed' = IF proc[p].id = 1 THEN appointed \union {u} ELSE appointed \ {u}
     ELSE UNCHANGED <<member, appointed>>
  /\ Done(p)
  /\ UNCHANGED <<group, mention, requests, board, counters, largest>>

DismissGroup(p, u) == RequireRole(p, "dismiss", u, Owner, 0, "apply")

Dismiss(p) ==
  /\ At(p, "dismiss", "apply")
  /\ group' = [group EXCEPT !.status = "dismissed"]
  /\ Done(p)
  /\ UNCHANGED <<member, mention, requests, board, counters, history>>

UpdateSettings(p, u, n) == RequireRole(p, "settings", u, Owner, n, "apply")

\* max_member_count becomes whatever was asked for; mute_all is in SendGuard.
UpdateGroupSettings(p) ==
  /\ At(p, "settings", "apply")
  /\ group' = [group EXCEPT !.max = proc[p].id]
  /\ largest' = IF proc[p].id > largest THEN proc[p].id ELSE largest
  /\ Done(p)
  /\ UNCHANGED <<member, mention, requests, board, counters, appointed>>

-----------------------------------------------------------------------------
\* UpdateReadPosition compares with the position it read.
UpdateReadPosition(p, u, s) ==
  /\ u \in Active
  /\ s > member[u].read
  /\ Begin(p, "read", u, u, s, "apply")

\* Mutant: the mention at the position itself is left.
ReadBelow(u, s) ==
  [mention EXCEPT ![u] = [n \in DOMAIN @ |-> IF n < s /\ @[n] # "none" THEN "read" ELSE @[n]]]

\* UPDATE group_mention SET read_status=1 ... AND sequence<=?
Read(u, s) ==
  [mention EXCEPT ![u] = [n \in DOMAIN @ |-> IF n =< s /\ @[n] # "none" THEN "read" ELSE @[n]]]

\* GREATEST(last_read_sequence, ?)
NewPosition(u, s) == IF s > member[u].read THEN s ELSE member[u].read

\* UpdateRead: the position and the mentions up to it; the error of
\* the second statement is dropped.
UpdateRead(p) ==
  LET u == proc[p].by IN
  /\ At(p, "read", "apply")
  /\ member' = [member EXCEPT ![u].read = IF u \in Active THEN NewPosition(u, proc[p].id) ELSE @]
  /\ \/ mention' = Read(u, proc[p].id) /\ UNCHANGED counters
     \/ UNCHANGED mention /\ Fault(1, 0)
  /\ Done(p)
  /\ UNCHANGED <<group, requests, board, history>>

\* POST /mentions/read, for anybody and with or without a sequence.
MarkMentionsRead(u) ==
  /\ \E s \in 1..MaxMessages : mention' = Read(u, s)
  /\ mention' # mention
  /\ Count
  /\ UNCHANGED <<group, member, requests, board, proc, history>>

-----------------------------------------------------------------------------
\* The announcements: id 0 of a new one stands for unpinned, 1 for pinned.
ManageAnnouncement(p, op, u, i) == RequireRole(p, op, u, Owner, i, "apply")

Unpinned(b) == [i \in DOMAIN b |-> IF b[i].status = "normal" THEN [b[i] EXCEPT !.pinned = FALSE] ELSE b[i]]

\* Mutant: only the announcements on display are looked at, not unpinned.
UnpinNone(b) == b = board /\ UNCHANGED counters

\* UPDATE ... SET pinned=0 before something is pinned; its error is dropped.
Unpin(b) ==
  \/ b = Unpinned(board) /\ UNCHANGED counters
  \/ b = board /\ Fault(1, 0)

CreateAnnouncement(p) ==
  LET new(pin) == [status |-> "normal", pinned |-> pin] IN
  /\ At(p, "create", "apply")
  /\ \/ /\ proc[p].id = 1
        /\ \E b \in {Unpinned(board), board} : Unpin(b) /\ board' = Append(b, new(TRUE))
     \/ /\ proc[p].id = 0
        /\ board' = Append(board, new(FALSE)) /\ UNCHANGED counters
  /\ Done(p)
  /\ UNCHANGED <<group, member, mention, requests, history>>

\* UpdateAnnouncement to pinned ("update") or not ("unpin"): the others are
\* unpinned even if this one is deleted by now.
UpdateAnnouncement(p) ==
  LET i == proc[p].id IN
  /\ \/ /\ At(p, "update", "apply")
        /\ \E b \in {Unpinned(board), board} :
             Unpin(b) /\ board' = [b EXCEPT ![i].pinned = (@ \/ b[i].status = "normal")]
     \/ /\ At(p, "unpin", "apply")
        /\ board' = [board EXCEPT ![i].pinned = (@ /\ board[i].status # "normal")]
        /\ UNCHANGED counters
  /\ Done(p)
  /\ UNCHANGED <<group, member, mention, requests, history>>

\* The flag of a deleted announcement stays.
DeleteAnnouncement(p) ==
  /\ At(p, "delete", "apply")
  /\ board' = [board EXCEPT ![proc[p].id].status = "deleted"]
  /\ Done(p)
  /\ UNCHANGED <<group, member, mention, requests, counters, history>>

-----------------------------------------------------------------------------
Request(p) ==
  \E u \in User :
    \/ JoinGroup(p, u) \/ LeaveGroup(p, u) \/ DismissGroup(p, u)
    \/ \E v \in User : KickMember(p, u, v) \/ \E i \in {0, 1} : SetMemberRole(p, u, v, i)
    \/ \E i \in DOMAIN requests : DecideJoinRequest(p, u, i)
    \/ \E n \in 1..Limit + 1 : UpdateSettings(p, u, n)
    \/ \E s \in 1..group.seq : UpdateReadPosition(p, u, s)
    \/ \E i \in {0, 1} : ManageAnnouncement(p, "create", u, i)
    \/ \E i \in DOMAIN board, op \in {"update", "unpin", "delete"} : ManageAnnouncement(p, op, u, i)

Step(p) ==
  \/ IsActiveMember(p) \/ GetPendingJoinRequest(p) \/ CreateJoinRequest(p) \/ AddMember(p)
  \/ ApproveJoinRequest(p) \/ RejectJoinRequest(p) \/ GetMember(p) \/ MarkMemberStatus(p)
  \/ UpdateMemberRole(p) \/ Dismiss(p) \/ UpdateGroupSettings(p) \/ UpdateRead(p)
  \/ CreateAnnouncement(p) \/ UpdateAnnouncement(p) \/ DeleteAnnouncement(p)

Next ==
  \/ \E p \in Process : Request(p) \/ Step(p)
  \/ \E M \in SUBSET Active : StoreMessage(M)
  \/ \E u \in User : MarkMentionsRead(u)

Spec == Init /\ [][Next]_vars

-----------------------------------------------------------------------------
TypeOK ==
  /\ group \in [mode : Mode, status : {"normal", "dismissed"}, count : Nat, max : Nat, seq : 0..MaxMessages]
  /\ member \in [User -> [role : {"owner", "admin", "member"}, status : {"none", "normal", "left", "kicked"},
                          read : Nat, joined : 0..MaxMessages]]
  /\ mention \in [User -> [1..MaxMessages -> {"none", "unread", "late", "read"}]]
  /\ requests \in Seq([user : User, status : {"pending", "approved", "rejected"},
                       approvals : Nat, rejections : Nat])
  /\ board \in Seq([status : {"normal", "deleted"}, pinned : BOOLEAN])
  /\ proc \in [Process -> [op : Operations \union {"none"}, by : User, on : User, id : Nat, step : Steps]]
  /\ ops \in 0..MaxOps /\ lost \in 0..MaxFaults /\ rolled \in 0..MaxFaults
  /\ appointed \in SUBSET User /\ largest \in Nat
  \* What is waiting refers to rows that are there; the owner stays.
  /\ IsOwner(Owner) /\ \A u \in User \ {Owner} : member[u].role # "owner"
  /\ \A p \in Process :
       /\ At(p, "approve", "apply") \/ At(p, "reject", "apply") => proc[p].id \in DOMAIN requests
       /\ proc[p].op \in {"update", "unpin", "delete"} => proc[p].id \in DOMAIN board

\* JoinGroup checks the size of the group in a query of its own and inserts
\* later: joins that overlap exceed max_member_count, but by less than one
\* member per concurrent request, in a direct group, whatever the limit is
\* changed to meanwhile (one that was lowered puts nobody out).
\* A lost count makes the next joins check a number that is too small.
OvershootBounded ==
  group.mode = "direct" /\ lost = 0 => Cardinality(Active) =< largest + Cardinality(Process) - 1

\* Nobody is an admin on the strength of an appointment from before he left
\* or was kicked, in a group that is joined directly: AddMember resets the
\* role, whichever way joins, kicks and SetMemberRole overlap.
\* (ApproveJoinRequest keeps it.)
DirectAdminsAppointed ==
  group.mode = "direct" => \A u \in Active : member[u].role = "admin" => u \in appointed

\* Two admins who decide one join request at the same time decide it once,
\* and the applicant is told what was decided, unless a deadlock in the count
\* of ApproveJoinRequest went unnoticed.
RequestDecidedOnce ==
  rolled = 0 => \A i \in DOMAIN requests :
    /\ requests[i].approvals = (IF requests[i].status = "approved" THEN 1 ELSE 0)
    /\ requests[i].rejections = (IF requests[i].status = "rejected" THEN 1 ELSE 0)

\* member_count is the number of members, whoever joins, leaves, is kicked
\* or approved twice at once; only a lost count makes it stale.
CountTracksMembers == lost = 0 => group.count = Cardinality(Active)

\* A mention at or below the position a member has read is marked read,
\* unless the position was there before the message.
MentionsFollowRead ==
  lost = 0 => \A u \in User, s \in 1..MaxMessages : mention[u][s] = "unread" => s > member[u].read

\* At most one announcement on display is pinned ("每群至多一条置顶",
\* repo.go), whichever way pins of several admins and deletions overlap.
OnePinned ==
  lost = 0 => Cardinality({i \in DOMAIN board : board[i].status = "normal" /\ board[i].pinned}) =< 1
=============================================================================
