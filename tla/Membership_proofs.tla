------------------------- MODULE Membership_proofs -------------------------
(***************************************************************************)
(* Proofs about Membership for any number of users, overlapping requests   *)
(* and dropped errors: types, the member count, the capacity, the origin   *)
(* of ranks, the decision of a join request, the pinned announcement.      *)
(***************************************************************************)
EXTENDS Membership, FiniteSetTheorems, TLAPS

Row == [role : {"owner", "admin", "member"}, status : {"none", "normal", "left", "kicked"},
        read : Nat, joined : 0..MaxMessages]
GroupRow == [mode : Mode, status : {"normal", "dismissed"}, count : Nat, max : Nat, seq : 0..MaxMessages]
JoinRequest == [user : User, status : {"pending", "approved", "rejected"}, approvals : Nat, rejections : Nat]
Announcement == [status : {"normal", "deleted"}, pinned : BOOLEAN]
Proc == [op : Operations \union {"none"}, by : User, on : User, id : Nat, step : Steps]

\* The part of TypeOK about roles, and the one about what a request refers to.
RolesOK == IsOwner(Owner) /\ \A u \in User \ {Owner} : member[u].role # "owner"
RefersOK ==
  \A p \in Process :
    /\ At(p, "approve", "apply") \/ At(p, "reject", "apply") => proc[p].id \in DOMAIN requests
    /\ proc[p].op \in {"update", "unpin", "delete"} => proc[p].id \in DOMAIN board

CountersOK == ops \in 0..MaxOps /\ lost \in 0..MaxFaults /\ rolled \in 0..MaxFaults

\* TypeOK, in the words used here.
Parts ==
  /\ group \in GroupRow /\ member \in [User -> Row]
  /\ mention \in [User -> [1..MaxMessages -> {"none", "unread", "late", "read"}]]
  /\ requests \in Seq(JoinRequest) /\ board \in Seq(Announcement)
  /\ proc \in [Process -> Proc] /\ CountersOK
  /\ appointed \in SUBSET User /\ largest \in Nat
  /\ RolesOK /\ RefersOK

LEMMA TypeParts == (TypeOK <=> Parts) /\ (TypeOK' <=> Parts')
BY DEF TypeOK, Parts, GroupRow, Row, JoinRequest, Announcement, Proc, CountersOK, RolesOK, RefersOK

-----------------------------------------------------------------------------
\* Rows, requests and lists of announcements with something changed.
LEMMA RoleChanged ==
  ASSUME NEW r \in Row, NEW role \in {"owner", "admin", "member"}
  PROVE  /\ [r EXCEPT !.role = role] \in Row /\ [r EXCEPT !.role = role].role = role
         /\ [r EXCEPT !.role = role].status = r.status /\ [r EXCEPT !.role = role].read = r.read
BY DEF Row

LEMMA StatusChanged ==
  ASSUME NEW r \in Row, NEW status \in {"none", "normal", "left", "kicked"}
  PROVE  /\ [r EXCEPT !.status = status] \in Row /\ [r EXCEPT !.status = status].status = status
         /\ [r EXCEPT !.status = status].role = r.role /\ [r EXCEPT !.status = status].read = r.read
BY DEF Row

LEMMA ReadChanged ==
  ASSUME NEW r \in Row, NEW n \in Nat
  PROVE  /\ [r EXCEPT !.read = n] \in Row /\ [r EXCEPT !.read = n].read = n
         /\ [r EXCEPT !.read = n].role = r.role /\ [r EXCEPT !.read = n].status = r.status
BY DEF Row

Approved(r) == [r EXCEPT !.status = "approved", !.approvals = @ + 1]
Rejected(r) == [r EXCEPT !.status = "rejected", !.rejections = @ + 1]

LEMMA RequestChanged ==
  ASSUME NEW r \in JoinRequest
  PROVE  /\ Approved(r) \in JoinRequest /\ Rejected(r) \in JoinRequest
         /\ [r EXCEPT !.approvals = @ + 1] \in JoinRequest
         /\ Approved(r).status = "approved" /\ Approved(r).approvals = r.approvals + 1
         /\ Approved(r).rejections = r.rejections
         /\ Rejected(r).status = "rejected" /\ Rejected(r).rejections = r.rejections + 1
         /\ Rejected(r).approvals = r.approvals
<1> DEFINE a == [r EXCEPT !.status = "approved"]
           b == [r EXCEPT !.status = "rejected"]
<1>1. /\ a \in JoinRequest /\ a.status = "approved" /\ a.approvals = r.approvals /\ a.rejections = r.rejections
      /\ b \in JoinRequest /\ b.status = "rejected" /\ b.approvals = r.approvals /\ b.rejections = r.rejections
      /\ [r EXCEPT !.approvals = @ + 1] \in JoinRequest
  BY DEF JoinRequest
<1>2. Approved(r) = [a EXCEPT !.approvals = @ + 1] /\ Rejected(r) = [b EXCEPT !.rejections = @ + 1]
  BY DEF Approved, Rejected
<1> HIDE DEF a, b
<1> QED BY <1>1, <1>2 DEF JoinRequest

LEMMA AppendFacts ==
  ASSUME NEW b \in Seq(Announcement), NEW a \in Announcement
  PROVE  /\ Append(b, a) \in Seq(Announcement) /\ Len(Append(b, a)) = Len(b) + 1
         /\ \A i \in DOMAIN b : i \in DOMAIN Append(b, a) /\ Append(b, a)[i] = b[i]
         /\ \A i \in DOMAIN Append(b, a) : i \in DOMAIN b \/ i = Len(b) + 1
         /\ Len(b) + 1 \in DOMAIN Append(b, a) /\ Append(b, a)[Len(b) + 1] = a
OBVIOUS

LEMMA ReadFacts ==
  ASSUME TypeOK, NEW u \in User, NEW s \in Nat
  PROVE  /\ Read(u, s) \in [User -> [1..MaxMessages -> {"none", "unread", "late", "read"}]]
         /\ \A v \in User \ {u} : Read(u, s)[v] = mention[v]
         /\ \A n \in 1..MaxMessages : Read(u, s)[u][n] = "unread" => mention[u][n] = "unread" /\ n > s
<1>1. mention \in [User -> [1..MaxMessages -> {"none", "unread", "late", "read"}]]
  BY TypeParts DEF Parts
<1> DEFINE f == [n \in DOMAIN mention[u] |-> IF n =< s /\ mention[u][n] # "none" THEN "read" ELSE mention[u][n]]
<1>2. Read(u, s) = [mention EXCEPT ![u] = f]
  BY <1>1 DEF Read
<1>3. mention[u] \in [1..MaxMessages -> {"none", "unread", "late", "read"}]
  BY <1>1
<1>4. /\ f \in [1..MaxMessages -> {"none", "unread", "late", "read"}]
      /\ \A n \in 1..MaxMessages : f[n] = "unread" => mention[u][n] = "unread" /\ n > s
  BY <1>3, MembershipAssumption
<1> HIDE DEF f
<1> QED BY <1>1, <1>2, <1>4

-----------------------------------------------------------------------------
LEMMA CountersFacts ==
  ASSUME TypeOK,
         UNCHANGED counters \/ Count \/ \E l, r \in {0, 1} : Fault(l, r)
  PROVE  CountersOK' /\ lost' >= lost /\ rolled' >= rolled
<1> USE MembershipAssumption DEF TypeOK, CountersOK
<1>1. CASE UNCHANGED counters
  BY <1>1 DEF counters
<1>2. CASE Count
  BY <1>2 DEF Count
<1>3. CASE \E l, r \in {0, 1} : Fault(l, r)
  BY <1>3 DEF Fault
<1> QED BY <1>1, <1>2, <1>3

\* The three transactions that change members count them at the end.
LEMMA CountFacts ==
  ASSUME TypeOK, NEW m \in [User -> Row], CountMembers(m)
  PROVE  /\ group' \in GroupRow /\ group'.mode = group.mode
         /\ group'.max = group.max /\ group'.seq = group.seq
         /\ \/ group'.count = Cardinality({u \in User : m[u].status = "normal"}) /\ lost' = lost
            \/ lost' = lost + 1
         /\ CountersOK' /\ lost' >= lost /\ rolled' = rolled
<1> DEFINE S == {u \in User : m[u].status = "normal"}
<1>1. Cardinality(S) \in Nat
  <2>1. S \in SUBSET User
    OBVIOUS
  <2>2. IsFiniteSet(S)
    BY <2>1, FS_Subset, MembershipAssumption
  <2> QED BY <2>2, FS_CardinalityType
<1>2. CASE group' = [group EXCEPT !.count = Cardinality(S)] /\ UNCHANGED counters
  <2>1. UNCHANGED counters
    BY <1>2
  <2>2. CountersOK' /\ lost' = lost /\ rolled' = rolled /\ lost \in Nat
    BY <2>1, CountersFacts DEF counters, TypeOK
  <2>3. group \in GroupRow
    BY TypeParts DEF Parts
  <2> HIDE DEF S
  <2>4. group' \in GroupRow /\ group'.mode = group.mode
         /\ group'.max = group.max /\ group'.seq = group.seq /\ group'.count = Cardinality(S)
    BY <1>1, <1>2, <2>3 DEF GroupRow
  <2> QED BY <2>2, <2>4 DEF S
<1>3. CASE UNCHANGED group /\ Fault(1, 0)
  <2>1. CountersOK'
    BY <1>3, CountersFacts
  <2> QED BY <1>3, <2>1, TypeParts DEF Parts, Fault, TypeOK, GroupRow
<1> QED BY <1>2, <1>3 DEF CountMembers

\* A request that ends or goes on refers to nothing new.
LEMMA FinishFacts ==
  ASSUME TypeOK, NEW p \in Process, Done(p),
         DOMAIN requests \subseteq DOMAIN requests', DOMAIN board \subseteq DOMAIN board'
  PROVE  /\ proc' \in [Process -> Proc] /\ RefersOK'
         /\ proc'[p] = Idle /\ \A q \in Process \ {p} : proc'[q] = proc[q]
<1>1. Idle \in Proc
  BY MembershipAssumption DEF Idle, Proc, Operations, Steps
<1>2. proc \in [Process -> Proc] /\ RefersOK
  BY TypeParts DEF Parts
<1>3. proc' \in [Process -> Proc] /\ proc'[p] = Idle /\ \A q \in Process \ {p} : proc'[q] = proc[q]
  BY <1>1, <1>2 DEF Done
<1> QED BY <1>2, <1>3 DEF RefersOK, At, Idle

LEMMA GoFacts ==
  ASSUME TypeOK, NEW p \in Process, NEW step \in Steps, Go(p, step),
         proc[p].op \in {"join", "kick"}, UNCHANGED <<requests, board>>
  PROVE  /\ proc' \in [Process -> Proc] /\ RefersOK'
         /\ proc'[p].op = proc[p].op /\ proc'[p].step = step
         /\ \A q \in Process \ {p} : proc'[q] = proc[q]
<1>2. proc \in [Process -> Proc] /\ RefersOK
  BY TypeParts DEF Parts
<1>3. /\ proc' \in [Process -> Proc] /\ proc'[p].op = proc[p].op /\ proc'[p].step = step
      /\ \A q \in Process \ {p} : proc'[q] = proc[q]
  BY <1>2 DEF Go, Proc
<1> QED BY <1>2, <1>3 DEF RefersOK, At

\* A request begins with one look at the state, and changes none of it.
Opened(p) ==
  /\ proc[p].step = "none" /\ Count
  /\ UNCHANGED <<group, member, mention, requests, board, history>>
  /\ proc' \in [Process -> Proc] /\ RefersOK'
  /\ \A q \in Process \ {p} : proc'[q] = proc[q]
  /\ proc'[p].op = "join" => group.count < group.max /\ proc'[p].step = "active"

LEMMA BeginFacts ==
  ASSUME TypeOK, NEW p \in Process, NEW op \in Operations, NEW u \in User, NEW v \in User,
         NEW i \in Nat, NEW step \in Steps, Begin(p, op, u, v, i, step),
         op \in {"approve", "reject"} => i \in DOMAIN requests,
         op \in {"update", "unpin", "delete"} => i \in DOMAIN board,
         op = "join" => group.count < group.max /\ step = "active"
  PROVE  Opened(p)
<1> DEFINE new == [op |-> op, by |-> u, on |-> v, id |-> i, step |-> step]
<1>1. proc \in [Process -> Proc] /\ RefersOK
  BY TypeParts DEF Parts
<1>2. new \in Proc
  BY DEF Proc
<1>3. proc' = [proc EXCEPT ![p] = new]
  BY DEF Begin
<1>4. proc' \in [Process -> Proc] /\ proc'[p] = new /\ \A q \in Process \ {p} : proc'[q] = proc[q]
  BY <1>1, <1>2, <1>3
<1>5. UNCHANGED <<group, member, mention, requests, board, history>> /\ Count /\ proc[p].step = "none"
  BY DEF Begin, history
<1>6. RefersOK'
  BY <1>1, <1>4, <1>5 DEF RefersOK, At
<1> QED BY <1>4, <1>5, <1>6 DEF Opened

LEMMA RequestFacts ==
  ASSUME TypeOK, NEW p \in Process, Request(p)
  PROVE  Opened(p)
<1> USE MembershipAssumption DEF Operations, Steps
<1>0. DOMAIN requests \subseteq Nat /\ DOMAIN board \subseteq Nat /\ group.seq \in Nat
  <2>1. requests \in Seq(JoinRequest) /\ board \in Seq(Announcement) /\ group \in GroupRow
    BY TypeParts DEF Parts
  <2>2. DOMAIN requests = 1..Len(requests) /\ DOMAIN board = 1..Len(board) /\ Len(requests) \in Nat /\ Len(board) \in Nat
    BY <2>1
  <2>3. group.seq \in Nat
    BY <2>1 DEF GroupRow
  <2> QED BY <2>2, <2>3
<1> PICK u \in User :
      \/ JoinGroup(p, u) \/ LeaveGroup(p, u) \/ DismissGroup(p, u)
      \/ \E v \in User : KickMember(p, u, v) \/ \E i \in {0, 1} : SetMemberRole(p, u, v, i)
      \/ \E i \in DOMAIN requests : DecideJoinRequest(p, u, i)
      \/ \E n \in 1..Limit + 1 : UpdateSettings(p, u, n)
      \/ \E s \in 1..group.seq : UpdateReadPosition(p, u, s)
      \/ \E i \in {0, 1} : ManageAnnouncement(p, "create", u, i)
      \/ \E i \in DOMAIN board, op \in {"update", "unpin", "delete"} : ManageAnnouncement(p, op, u, i)
  BY DEF Request
<1>1. CASE JoinGroup(p, u)
  BY <1>1, BeginFacts DEF JoinGroup
<1>2. CASE LeaveGroup(p, u)
  BY <1>2, BeginFacts DEF LeaveGroup
<1>3. CASE DismissGroup(p, u)
  BY <1>3, BeginFacts DEF DismissGroup, RequireRole
<1>4. ASSUME NEW v \in User, KickMember(p, u, v) PROVE Opened(p)
  BY <1>4, BeginFacts DEF KickMember, RequireRole
<1>5. ASSUME NEW v \in User, NEW i \in {0, 1}, SetMemberRole(p, u, v, i) PROVE Opened(p)
  BY <1>5, BeginFacts DEF SetMemberRole, RequireRole
<1>6. ASSUME NEW i \in DOMAIN requests, DecideJoinRequest(p, u, i) PROVE Opened(p)
  BY <1>0, <1>6, BeginFacts DEF DecideJoinRequest, RequireRole
<1>7. ASSUME NEW n \in 1..Limit + 1, UpdateSettings(p, u, n) PROVE Opened(p)
  BY <1>7, BeginFacts DEF UpdateSettings, RequireRole
<1>8. ASSUME NEW s \in 1..group.seq, UpdateReadPosition(p, u, s) PROVE Opened(p)
  BY <1>0, <1>8, BeginFacts DEF UpdateReadPosition
<1>9. ASSUME NEW i \in {0, 1}, ManageAnnouncement(p, "create", u, i) PROVE Opened(p)
  BY <1>9, BeginFacts DEF ManageAnnouncement, RequireRole
<1>10. ASSUME NEW i \in DOMAIN board, NEW op \in {"update", "unpin", "delete"},
              ManageAnnouncement(p, op, u, i)
       PROVE Opened(p)
  BY <1>0, <1>10, BeginFacts DEF ManageAnnouncement, RequireRole
<1> QED BY <1>1, <1>2, <1>3, <1>4, <1>5, <1>6, <1>7, <1>8, <1>9, <1>10

-----------------------------------------------------------------------------
\* Whoever comes in keeps his read position, and the owner his rank; through
\* AddMember nobody else keeps one.
LEMMA EnterFacts ==
  ASSUME TypeOK, NEW u \in User, NEW m \in {Readmit(u), Enter(u)}
  PROVE  /\ m \in [User -> Row]
         /\ \A v \in User : m[v].status = (IF v = u THEN "normal" ELSE member[v].status)
         /\ \A v \in User : m[v].role = "owner" <=> member[v].role = "owner"
         /\ \A v \in User : m[v].read = member[v].read
         /\ \A v \in User \ {u} : m[v] = member[v]
         /\ m = Enter(u) => m[u].role # "admin"
<1> DEFINE k == [member[u] EXCEPT !.status = "normal", !.joined = group.seq]
<1> DEFINE e == [k EXCEPT !.role = IF @ = "owner" THEN @ ELSE "member"]
<1>1. member \in [User -> Row] /\ group \in GroupRow
  BY TypeParts DEF Parts
<1>2. Readmit(u) = [member EXCEPT ![u] = k]
  BY <1>1 DEF Readmit, Row
<1>3. Enter(u) = [member EXCEPT ![u] = e]
  BY <1>1, <1>2 DEF Enter
<1>4. member[u] \in Row /\ group.seq \in 0..MaxMessages
  BY <1>1 DEF GroupRow
<1>5. k \in Row /\ k.status = "normal" /\ k.role = member[u].role /\ k.read = member[u].read
  BY <1>4 DEF Row
<1>6. /\ e \in Row /\ e.status = "normal" /\ e.read = member[u].read
      /\ e.role = "owner" <=> member[u].role = "owner"
      /\ e.role # "admin"
  BY <1>5 DEF Row
<1> HIDE DEF k, e
<1>7. CASE m = Enter(u)
  BY <1>1, <1>3, <1>6, <1>7
<1>8. CASE m = Readmit(u) /\ m # Enter(u)
  BY <1>1, <1>2, <1>5, <1>8
<1> QED BY <1>7, <1>8

-----------------------------------------------------------------------------
\* An announcement on display that is pinned.
Shown(b, i) == b[i].status = "normal" /\ b[i].pinned

\* A row is pinned only when the pinned ones have been unpinned, or that
\* was lost; no other becomes one that is shown.
BoardStep ==
  /\ board' \in Seq(Announcement) /\ DOMAIN board \subseteq DOMAIN board'
  /\ lost' >= lost
  /\ \/ \A i \in DOMAIN board' : Shown(board', i) => i \in DOMAIN board /\ Shown(board, i)
     \/ \E k \in DOMAIN board' : \A i \in DOMAIN board' : Shown(board', i) => i = k
     \/ lost' > lost

LEMMA BoardFacts ==
  ASSUME TypeOK, NEW p \in Process,
         CreateAnnouncement(p) \/ UpdateAnnouncement(p) \/ DeleteAnnouncement(p)
  PROVE  BoardStep
<1> USE MembershipAssumption
<1>0. /\ board \in Seq(Announcement) /\ DOMAIN board = 1..Len(board) /\ Len(board) \in Nat
      /\ \A i \in DOMAIN board : board[i] \in Announcement
      /\ lost \in Nat /\ rolled \in Nat
  BY TypeParts DEF Parts, CountersOK
<1>1. /\ Unpinned(board) \in Seq(Announcement) /\ Len(Unpinned(board)) = Len(board)
      /\ \A i \in DOMAIN board : ~Shown(Unpinned(board), i)
  <2>1. \A i \in DOMAIN board : [board[i] EXCEPT !.pinned = FALSE] \in Announcement
    BY <1>0 DEF Announcement
  <2>2. \A i \in DOMAIN board : Unpinned(board)[i] \in Announcement /\ ~Shown(Unpinned(board), i)
    BY <1>0, <2>1 DEF Unpinned, Shown, Announcement
  <2>3. Unpinned(board) \in [1..Len(board) -> Announcement]
    BY <1>0, <2>2 DEF Unpinned
  <2> QED BY <1>0, <2>2, <2>3
<1>2. ASSUME NEW b \in {Unpinned(board), board}, Unpin(b)
      PROVE  /\ b \in Seq(Announcement) /\ Len(b) = Len(board) /\ lost' >= lost
             /\ (\A i \in DOMAIN board : ~Shown(b, i)) \/ lost' > lost
  <2>1. CASE b = Unpinned(board) /\ UNCHANGED counters
    BY <1>0, <1>1, <2>1 DEF counters
  <2>2. CASE b = board /\ Fault(1, 0)
    BY <1>0, <2>2 DEF Fault
  <2> QED BY <1>2, <2>1, <2>2 DEF Unpin
<1>3. CASE CreateAnnouncement(p)
  <2> DEFINE new(pin) == [status |-> "normal", pinned |-> pin]
  <2>1. new(TRUE) \in Announcement /\ new(FALSE) \in Announcement
    BY DEF Announcement
  <2>2. ASSUME NEW b \in {Unpinned(board), board}, Unpin(b), board' = Append(b, new(TRUE))
        PROVE  BoardStep
    <3>1. b \in Seq(Announcement) /\ DOMAIN b = DOMAIN board /\ Len(b) = Len(board) /\ lost' >= lost
      BY <1>0, <1>2, <2>2
    <3>2. /\ board' \in Seq(Announcement) /\ DOMAIN board \subseteq DOMAIN board'
          /\ \A i \in DOMAIN board : board'[i] = b[i]
          /\ \A i \in DOMAIN board' : i \in DOMAIN board \/ i = Len(board) + 1
          /\ Len(board) + 1 \in DOMAIN board'
      BY <2>1, <2>2, <3>1, AppendFacts
    <3>3. (\A i \in DOMAIN board' : Shown(board', i) => i = Len(board) + 1) \/ lost' > lost
      BY <1>2, <2>2, <3>2 DEF Shown
    <3> QED BY <3>1, <3>2, <3>3 DEF BoardStep
  <2>3. CASE board' = Append(board, new(FALSE)) /\ UNCHANGED counters
    <3>1. /\ board' \in Seq(Announcement) /\ DOMAIN board \subseteq DOMAIN board'
          /\ \A i \in DOMAIN board : board'[i] = board[i]
          /\ \A i \in DOMAIN board' : i \in DOMAIN board \/ i = Len(board) + 1
          /\ board'[Len(board) + 1] = new(FALSE)
      BY <1>0, <2>1, <2>3, AppendFacts
    <3>2. \A i \in DOMAIN board' : Shown(board', i) => i \in DOMAIN board /\ Shown(board, i)
      BY <3>1 DEF Shown
    <3>3. lost' >= lost
      BY <1>0, <2>3 DEF counters
    <3> QED BY <3>1, <3>2, <3>3 DEF BoardStep
  <2> QED BY <1>3, <2>2, <2>3 DEF CreateAnnouncement
<1>4. CASE UpdateAnnouncement(p)
  <2> DEFINE k == proc[p].id
  <2>1. k \in DOMAIN board
    BY <1>4, TypeParts DEF Parts, UpdateAnnouncement, RefersOK, At
  <2>2. ASSUME NEW b \in {Unpinned(board), board}, Unpin(b),
               board' = [b EXCEPT ![k].pinned = (@ \/ b[k].status = "normal")]
        PROVE  BoardStep
    <3>1. b \in Seq(Announcement) /\ DOMAIN b = DOMAIN board /\ b[k] \in Announcement
      BY <1>0, <1>2, <2>1, <2>2
    <3>2. [b[k] EXCEPT !.pinned = (@ \/ b[k].status = "normal")] \in Announcement
      BY <3>1 DEF Announcement
    <3>3. board' = [b EXCEPT ![k] = [b[k] EXCEPT !.pinned = (@ \/ b[k].status = "normal")]]
      BY <2>1, <2>2, <3>1
    <3>4. /\ board' \in Seq(Announcement) /\ DOMAIN board' = DOMAIN board
          /\ \A i \in DOMAIN board \ {k} : board'[i] = b[i]
      BY <1>0, <2>1, <3>1, <3>2, <3>3
    <3>5. (\A i \in DOMAIN board' : Shown(board', i) => i = k) \/ lost' > lost
      BY <1>2, <2>2, <3>4 DEF Shown
    <3> QED BY <1>2, <2>1, <2>2, <3>4, <3>5 DEF BoardStep
  <2>3. CASE /\ board' = [board EXCEPT ![k].pinned = (@ /\ board[k].status # "normal")]
             /\ UNCHANGED counters
    <3>1. board[k] \in Announcement
      BY <1>0, <2>1
    <3>2. /\ [board[k] EXCEPT !.pinned = (@ /\ board[k].status # "normal")] \in Announcement
          /\ [board[k] EXCEPT !.pinned = (@ /\ board[k].status # "normal")].status = board[k].status
          /\ board[k].status = "normal" => ~[board[k] EXCEPT !.pinned = (@ /\ board[k].status # "normal")].pinned
      BY <3>1 DEF Announcement
    <3>3. board' = [board EXCEPT ![k] = [board[k] EXCEPT !.pinned = (@ /\ board[k].status # "normal")]]
      BY <2>1, <2>3
    <3>4. /\ board' \in Seq(Announcement) /\ DOMAIN board' = DOMAIN board
          /\ \A i \in DOMAIN board \ {k} : board'[i] = board[i]
          /\ ~Shown(board', k)
      BY <1>0, <2>1, <3>2, <3>3 DEF Shown
    <3>5. \A i \in DOMAIN board' : Shown(board', i) => i \in DOMAIN board /\ Shown(board, i)
      BY <3>4 DEF Shown
    <3>6. lost' >= lost
      BY <1>0, <2>3 DEF counters
    <3> QED BY <3>4, <3>5, <3>6 DEF BoardStep
  <2> QED BY <1>4, <2>2, <2>3 DEF UpdateAnnouncement
<1>5. CASE DeleteAnnouncement(p)
  <2> DEFINE k == proc[p].id
  <2>1. k \in DOMAIN board
    BY <1>5, TypeParts DEF Parts, DeleteAnnouncement, RefersOK, At
  <2>2. board[k] \in Announcement /\ [board[k] EXCEPT !.status = "deleted"] \in Announcement
    BY <1>0, <2>1 DEF Announcement
  <2>3. board' = [board EXCEPT ![k] = [board[k] EXCEPT !.status = "deleted"]] /\ UNCHANGED counters
    BY <1>5, <2>1 DEF DeleteAnnouncement
  <2>4. /\ board' \in Seq(Announcement) /\ DOMAIN board' = DOMAIN board
        /\ \A i \in DOMAIN board \ {k} : board'[i] = board[i]
        /\ ~Shown(board', k)
    BY <1>0, <2>1, <2>2, <2>3 DEF Shown, Announcement
  <2> QED BY <1>0, <2>3, <2>4 DEF BoardStep, Shown, counters
<1> QED BY <1>3, <1>4, <1>5

-----------------------------------------------------------------------------
LEMMA InitTypeOK == Init => TypeOK
<1> SUFFICES ASSUME Init PROVE TypeOK
  OBVIOUS
<1> USE MembershipAssumption
<1>1. group \in GroupRow /\ member \in [User -> Row] /\ RolesOK
  <2> DEFINE first == [NoRow EXCEPT !.role = "owner", !.status = "normal"]
  <2>1. NoRow \in Row /\ first \in Row /\ NoRow.role = "member" /\ first.role = "owner" /\ first.status = "normal"
    <3> DEFINE a == [NoRow EXCEPT !.role = "owner"]
    <3>1. NoRow \in Row /\ NoRow.role = "member"
      BY DEF NoRow, Row
    <3>2. a \in Row /\ a.role = "owner"
      BY <3>1, RoleChanged
    <3>3. first = [a EXCEPT !.status = "normal"]
      BY DEF NoRow
    <3> HIDE DEF a, first
    <3>4. first \in Row /\ first.role = "owner" /\ first.status = "normal"
      BY <3>2, <3>3, StatusChanged
    <3> QED BY <3>1, <3>4
  <2>2. member = [u \in User |-> IF u = Owner THEN first ELSE NoRow]
    BY DEF Init
  <2>3. group \in GroupRow
    BY DEF Init, GroupRow
  <2> HIDE DEF first
  <2> QED BY <2>1, <2>2, <2>3 DEF RolesOK, IsOwner, Active
<1>2. proc \in [Process -> Proc] /\ RefersOK
  BY DEF Init, Idle, Proc, RefersOK, At, Operations, Steps
<1>3. /\ mention \in [User -> [1..MaxMessages -> {"none", "unread", "late", "read"}]]
      /\ requests \in Seq(JoinRequest) /\ board \in Seq(Announcement)
      /\ CountersOK /\ appointed \in SUBSET User /\ largest \in Nat
  BY DEF Init, CountersOK
<1> QED BY <1>1, <1>2, <1>3, TypeParts DEF Parts

LEMMA NextTypeOK ==
  ASSUME TypeOK, [Next]_vars
  PROVE  TypeOK'
<1> USE MembershipAssumption
<1>0. /\ group \in GroupRow /\ member \in [User -> Row]
      /\ mention \in [User -> [1..MaxMessages -> {"none", "unread", "late", "read"}]]
      /\ requests \in Seq(JoinRequest) /\ board \in Seq(Announcement)
      /\ proc \in [Process -> Proc] /\ CountersOK
      /\ appointed \in SUBSET User /\ largest \in Nat
      /\ RolesOK /\ RefersOK
  BY TypeParts DEF Parts
<1>1. CASE UNCHANGED vars
  BY <1>1 DEF vars, counters, history, TypeOK, IsOwner, Active, At
<1>2. ASSUME NEW p \in Process, Request(p) PROVE TypeOK'
  <2>1. Opened(p)
    BY <1>2, RequestFacts
  <2>2. CountersOK'
    BY <2>1, CountersFacts DEF Opened
  <2> QED BY <1>0, <2>1, <2>2, TypeParts DEF Parts, Opened, history, RolesOK, IsOwner, Active
<1>3. ASSUME NEW p \in Process, IsActiveMember(p) \/ GetPendingJoinRequest(p) \/ GetMember(p) PROVE TypeOK'
  <2>1. proc[p].op \in {"join", "kick"} /\ UNCHANGED <<group, member, mention, requests, board, counters, history>>
    BY <1>3 DEF IsActiveMember, GetPendingJoinRequest, GetMember, At
  <2>2. Done(p) \/ \E step \in Steps : Go(p, step)
    BY <1>3 DEF IsActiveMember, GetPendingJoinRequest, GetMember, Steps
  <2>3. proc' \in [Process -> Proc] /\ RefersOK'
    BY <2>1, <2>2, FinishFacts, GoFacts
  <2> QED BY <1>0, <2>1, <2>3, TypeParts DEF Parts, counters, history, RolesOK, IsOwner, Active, CountersOK
<1>4. ASSUME NEW p \in Process, CreateJoinRequest(p) PROVE TypeOK'
  <2>1. /\ Done(p) /\ UNCHANGED <<group, member, mention, board, counters, history>>
        /\ requests' = Append(requests, [user |-> proc[p].by, status |-> "pending", approvals |-> 0, rejections |-> 0])
    BY <1>4 DEF CreateJoinRequest
  <2>2. [user |-> proc[p].by, status |-> "pending", approvals |-> 0, rejections |-> 0] \in JoinRequest
    BY <1>0 DEF JoinRequest, Proc
  <2>3. requests' \in Seq(JoinRequest) /\ DOMAIN requests \subseteq DOMAIN requests'
    BY <1>0, <2>1, <2>2
  <2>4. proc' \in [Process -> Proc] /\ RefersOK'
    BY <2>1, <2>3, FinishFacts
  <2> QED BY <1>0, <2>1, <2>3, <2>4, TypeParts DEF Parts, counters, history, RolesOK, IsOwner, Active, CountersOK
<1>5. ASSUME NEW p \in Process, AddMember(p) PROVE TypeOK'
  <2> DEFINE u == proc[p].by
  <2>1. u \in User /\ Enter(u) \in [User -> Row]
    BY <1>0, EnterFacts DEF Proc
  <2>2. Done(p) /\ UNCHANGED <<mention, requests, board, largest>>
    BY <1>5 DEF AddMember
  <2>3. proc' \in [Process -> Proc] /\ RefersOK'
    BY <2>2, FinishFacts
  <2>4. CASE member' = Enter(u) /\ appointed' = appointed \ {u} /\ CountMembers(member')
    <3>1. group' \in GroupRow /\ CountersOK' /\ member' \in [User -> Row]
      BY <2>1, <2>4, CountFacts
    <3>2. RolesOK'
      <4>1. \A v \in User : /\ member'[v].role = "owner" <=> member[v].role = "owner"
                            /\ member[v].status = "normal" => member'[v].status = "normal"
        BY <2>1, <2>4, EnterFacts
      <4> QED BY <1>0, <4>1 DEF RolesOK, IsOwner, Active
    <3> QED BY <1>0, <2>2, <2>3, <2>4, <3>1, <3>2, TypeParts DEF Parts
  <2>5. CASE UNCHANGED <<group, member, appointed>> /\ Fault(0, 1)
    <3>1. CountersOK'
      BY <2>5, CountersFacts
    <3> QED BY <1>0, <2>2, <2>3, <2>5, <3>1, TypeParts DEF Parts, RolesOK, IsOwner, Active
  <2> QED BY <1>5, <2>4, <2>5 DEF AddMember
<1>6. ASSUME NEW p \in Process, ApproveJoinRequest(p) PROVE TypeOK'
  <2> DEFINE i == proc[p].id
             u == requests[i].user
  <2>1. /\ i \in DOMAIN requests /\ requests[i] \in JoinRequest /\ u \in User
        /\ Readmit(u) \in [User -> Row]
    <3>1. i \in DOMAIN requests
      BY <1>0, <1>6 DEF ApproveJoinRequest, RefersOK
    <3>2. requests[i] \in JoinRequest
      BY <1>0, <3>1
    <3> QED BY <3>1, <3>2, EnterFacts DEF JoinRequest
  <2>2. Done(p) /\ UNCHANGED <<mention, board, largest>>
    BY <1>6 DEF ApproveJoinRequest
  <2>3. CASE /\ requests' = [requests EXCEPT ![i].status = "approved", ![i].approvals = @ + 1]
             /\ member' = Readmit(u) /\ appointed' = appointed \ {u} /\ CountMembers(member')
    <3>1. group' \in GroupRow /\ CountersOK' /\ member' \in [User -> Row]
      BY <2>1, <2>3, CountFacts
    <3>2. RolesOK'
      <4>1. \A v \in User : /\ member'[v].role = "owner" <=> member[v].role = "owner"
                            /\ member[v].status = "normal" => member'[v].status = "normal"
        BY <2>1, <2>3, EnterFacts
      <4> QED BY <1>0, <4>1 DEF RolesOK, IsOwner, Active
    <3>3. Approved(requests[i]) \in JoinRequest
      BY <2>1, RequestChanged
    <3>4. requests' = [requests EXCEPT ![i] = Approved(requests[i])]
      BY <1>0, <2>1, <2>3 DEF Approved
    <3>5. requests' \in Seq(JoinRequest) /\ DOMAIN requests' = DOMAIN requests
      BY <1>0, <2>1, <3>3, <3>4
    <3>6. proc' \in [Process -> Proc] /\ RefersOK'
      BY <2>2, <3>5, FinishFacts
    <3> QED BY <1>0, <2>2, <2>3, <3>1, <3>2, <3>5, <3>6, TypeParts DEF Parts
  <2>4. CASE requests' = [requests EXCEPT ![i].approvals = @ + 1] /\ Fault(0, 1) /\ UNCHANGED <<member, group, appointed>>
    <3>1. CountersOK'
      BY <2>4, CountersFacts
    <3>3. [requests[i] EXCEPT !.approvals = @ + 1] \in JoinRequest
      BY <2>1 DEF JoinRequest
    <3>4. requests' = [requests EXCEPT ![i] = [requests[i] EXCEPT !.approvals = @ + 1]]
      BY <1>0, <2>1, <2>4
    <3>5. requests' \in Seq(JoinRequest) /\ DOMAIN requests' = DOMAIN requests
      BY <1>0, <2>1, <3>3, <3>4
    <3>6. proc' \in [Process -> Proc] /\ RefersOK'
      BY <2>2, <3>5, FinishFacts
    <3> QED BY <1>0, <2>2, <2>4, <3>1, <3>5, <3>6, TypeParts DEF Parts, RolesOK, IsOwner, Active
  <2>5. CASE UNCHANGED <<requests, member, group, appointed, counters>>
    <3>1. proc' \in [Process -> Proc] /\ RefersOK' /\ CountersOK'
      BY <2>2, <2>5, FinishFacts, CountersFacts
    <3> QED BY <1>0, <2>2, <2>5, <3>1, TypeParts DEF Parts, RolesOK, IsOwner, Active
  <2> QED BY <1>6, <2>3, <2>4, <2>5 DEF ApproveJoinRequest
<1>7. ASSUME NEW p \in Process, RejectJoinRequest(p) PROVE TypeOK'
  <2> DEFINE i == proc[p].id
  <2>1. i \in DOMAIN requests /\ requests[i] \in JoinRequest
    <3>1. i \in DOMAIN requests
      BY <1>0, <1>7 DEF RejectJoinRequest, RefersOK
    <3> QED BY <1>0, <3>1
  <2>2. Done(p) /\ UNCHANGED <<group, member, mention, board, counters, history>>
    BY <1>7 DEF RejectJoinRequest
  <2>3. requests' \in Seq(JoinRequest) /\ DOMAIN requests' = DOMAIN requests
    <3>1. CASE requests' = [requests EXCEPT ![i].status = "rejected", ![i].rejections = @ + 1]
      <4>1. Rejected(requests[i]) \in JoinRequest
        BY <2>1, RequestChanged
      <4>2. requests' = [requests EXCEPT ![i] = Rejected(requests[i])]
        BY <1>0, <2>1, <3>1 DEF Rejected
      <4> QED BY <1>0, <2>1, <4>1, <4>2
    <3>2. CASE UNCHANGED requests
      BY <1>0, <3>2
    <3> QED BY <1>7, <3>1, <3>2 DEF RejectJoinRequest
  <2>4. proc' \in [Process -> Proc] /\ RefersOK' /\ CountersOK'
    BY <2>2, <2>3, FinishFacts, CountersFacts
  <2> QED BY <1>0, <2>2, <2>3, <2>4, TypeParts DEF Parts, history, RolesOK, IsOwner, Active
<1>8. ASSUME NEW p \in Process, MarkMemberStatus(p) PROVE TypeOK'
  <2> DEFINE u == proc[p].on
             status == IF member[u].role = "owner" THEN member[u].status
                       ELSE IF proc[p].op = "kick" THEN "kicked" ELSE "left"
  <2>1. u \in User /\ member[u] \in Row /\ [member[u] EXCEPT !.status = status] \in Row
    <3>1. u \in User /\ member[u] \in Row
      BY <1>0 DEF Proc
    <3>2. status \in {"none", "normal", "left", "kicked"}
      BY <3>1 DEF Row
    <3> QED BY <3>1, <3>2, StatusChanged
  <2>2. Done(p) /\ UNCHANGED <<mention, requests, board, history>>
    BY <1>8 DEF MarkMemberStatus, history
  <2>3. proc' \in [Process -> Proc] /\ RefersOK'
    BY <2>2, FinishFacts
  <2>4. CASE member' = [member EXCEPT ![u].status = status] /\ CountMembers(member')
    <3>1. member' = [member EXCEPT ![u] = [member[u] EXCEPT !.status = status]]
      BY <1>0, <2>1, <2>4
    <3>2. /\ member' \in [User -> Row] /\ \A v \in User : member'[v].role = member[v].role
          /\ \A v \in User : member[v].role = "owner" => member'[v].status = member[v].status
      BY <1>0, <2>1, <3>1 DEF Row
    <3>3. group' \in GroupRow /\ CountersOK'
      BY <2>4, <3>2, CountFacts
    <3>4. RolesOK'
      BY <1>0, <3>2 DEF RolesOK, IsOwner, Active
    <3> QED BY <1>0, <2>2, <2>3, <3>2, <3>3, <3>4, TypeParts DEF Parts, history
  <2>5. CASE UNCHANGED <<group, member>> /\ Fault(0, 1)
    <3>1. CountersOK'
      BY <2>5, CountersFacts
    <3> QED BY <1>0, <2>2, <2>3, <2>5, <3>1, TypeParts DEF Parts, history, RolesOK, IsOwner, Active
  <2> QED BY <1>8, <2>4, <2>5 DEF MarkMemberStatus
<1>9. ASSUME NEW p \in Process, UpdateMemberRole(p) PROVE TypeOK'
  <2> DEFINE u == proc[p].on
             role == IF proc[p].id = 1 THEN "admin" ELSE "member"
  <2>1. u \in User /\ member[u] \in Row /\ [member[u] EXCEPT !.role = role] \in Row
    <3>1. u \in User /\ member[u] \in Row
      BY <1>0 DEF Proc
    <3> QED BY <3>1, RoleChanged
  <2>2. Done(p) /\ UNCHANGED <<group, mention, requests, board, counters, largest>> /\ appointed' \in SUBSET User
    BY <1>0, <1>9, <2>1 DEF UpdateMemberRole
  <2>3. proc' \in [Process -> Proc] /\ RefersOK' /\ CountersOK'
    BY <2>2, FinishFacts, CountersFacts
  <2>4. member' \in [User -> Row] /\ RolesOK'
    <3>1. CASE RoleIsMutable(u) /\ member' = [member EXCEPT ![u].role = role]
      <4>1. member' = [member EXCEPT ![u] = [member[u] EXCEPT !.role = role]]
        BY <1>0, <2>1, <3>1
      <4>2. u # Owner
        BY <1>0, <3>1 DEF RoleIsMutable, RolesOK, IsOwner
      <4>3. /\ member' \in [User -> Row] /\ member'[u].role # "owner"
            /\ \A v \in User \ {u} : member'[v] = member[v]
        BY <1>0, <2>1, <4>1 DEF Row
      <4> QED BY <1>0, <4>2, <4>3 DEF RolesOK, IsOwner, Active
    <3>2. CASE UNCHANGED member
      BY <1>0, <3>2 DEF RolesOK, IsOwner, Active
    <3> QED BY <1>9, <3>1, <3>2 DEF UpdateMemberRole
  <2> QED BY <1>0, <2>2, <2>3, <2>4, TypeParts DEF Parts
<1>10. ASSUME NEW p \in Process, Dismiss(p) \/ UpdateGroupSettings(p) PROVE TypeOK'
  <2>1. /\ Done(p) /\ UNCHANGED <<member, mention, requests, board, counters, appointed>>
        /\ group' \in GroupRow /\ largest' \in Nat
    <3>1. proc[p].id \in Nat
      BY <1>0 DEF Proc
    <3>2. CASE Dismiss(p)
      BY <1>0, <3>2 DEF Dismiss, GroupRow, history
    <3>3. CASE UpdateGroupSettings(p)
      BY <1>0, <3>1, <3>3 DEF UpdateGroupSettings, GroupRow
    <3> QED BY <1>10, <3>2, <3>3
  <2>2. proc' \in [Process -> Proc] /\ RefersOK' /\ CountersOK'
    BY <2>1, FinishFacts, CountersFacts
  <2> QED BY <1>0, <2>1, <2>2, TypeParts DEF Parts, RolesOK, IsOwner, Active
<1>11. ASSUME NEW p \in Process, UpdateRead(p) PROVE TypeOK'
  <2> DEFINE u == proc[p].by
             read == IF u \in Active THEN NewPosition(u, proc[p].id) ELSE member[u].read
  <2>1. u \in User /\ member[u] \in Row /\ [member[u] EXCEPT !.read = read] \in Row
    <3>1. u \in User /\ member[u] \in Row /\ proc[p].id \in Nat
      BY <1>0 DEF Proc
    <3>2. read \in Nat
      BY <3>1 DEF Row, NewPosition
    <3> QED BY <3>1, <3>2, ReadChanged
  <2>2. /\ Done(p) /\ UNCHANGED <<group, requests, board, history>>
        /\ member' = [member EXCEPT ![u].read = read]
        /\ \/ mention' = Read(u, proc[p].id) /\ UNCHANGED counters
           \/ UNCHANGED mention /\ Fault(1, 0)
    BY <1>11 DEF UpdateRead
  <2>3. proc' \in [Process -> Proc] /\ RefersOK' /\ CountersOK'
    BY <2>2, FinishFacts, CountersFacts
  <2>4. member' \in [User -> Row] /\ RolesOK'
    <3>1. member' = [member EXCEPT ![u] = [member[u] EXCEPT !.read = read]]
      BY <1>0, <2>1, <2>2
    <3> QED BY <1>0, <2>1, <3>1 DEF RolesOK, IsOwner, Active, Row
  <2>5. mention' \in [User -> [1..MaxMessages -> {"none", "unread", "late", "read"}]]
    <3>1. proc[p].id \in Nat
      BY <1>0 DEF Proc
    <3> QED BY <1>0, <2>1, <2>2, <3>1, ReadFacts
  <2> QED BY <1>0, <2>2, <2>3, <2>4, <2>5, TypeParts DEF Parts, history
<1>12. ASSUME NEW p \in Process, CreateAnnouncement(p) \/ UpdateAnnouncement(p) \/ DeleteAnnouncement(p)
       PROVE  TypeOK'
  <2>1. board' \in Seq(Announcement) /\ DOMAIN board \subseteq DOMAIN board'
    BY <1>12, BoardFacts DEF BoardStep
  <2>2. Done(p) /\ UNCHANGED <<group, member, mention, requests, history>>
    BY <1>12 DEF CreateAnnouncement, UpdateAnnouncement, DeleteAnnouncement
  <2>3. CountersOK'
    BY <1>12, CountersFacts DEF CreateAnnouncement, UpdateAnnouncement, DeleteAnnouncement, Unpin
  <2>4. proc' \in [Process -> Proc] /\ RefersOK'
    BY <2>1, <2>2, FinishFacts
  <2> QED BY <1>0, <2>1, <2>2, <2>3, <2>4, TypeParts DEF Parts, history, RolesOK, IsOwner, Active
<1>13. ASSUME NEW M \in SUBSET Active, StoreMessage(M) PROVE TypeOK'
  <2>1. /\ group' = [group EXCEPT !.seq = @ + 1] /\ group.seq < MaxMessages /\ Count
        /\ UNCHANGED <<member, requests, board, proc, history>>
    BY <1>13 DEF StoreMessage
  <2>2. group' \in GroupRow
    BY <1>0, <2>1 DEF GroupRow
  <2>3. mention' \in [User -> [1..MaxMessages -> {"none", "unread", "late", "read"}]]
    BY <1>0, <1>13 DEF StoreMessage
  <2>4. CountersOK'
    BY <2>1, CountersFacts
  <2> QED BY <1>0, <2>1, <2>2, <2>3, <2>4, TypeParts DEF Parts, history, RolesOK, IsOwner, Active, RefersOK, At
<1>14. ASSUME NEW u \in User, MarkMentionsRead(u) PROVE TypeOK'
  <2>1. /\ UNCHANGED <<group, member, requests, board, proc, history>> /\ Count
        /\ \E s \in 1..MaxMessages : mention' = Read(u, s)
    BY <1>14 DEF MarkMentionsRead
  <2>2. mention' \in [User -> [1..MaxMessages -> {"none", "unread", "late", "read"}]]
    BY <1>0, <2>1 DEF Read
  <2>3. CountersOK'
    BY <2>1, CountersFacts
  <2> QED BY <1>0, <2>1, <2>2, <2>3, TypeParts DEF Parts, history, RolesOK, IsOwner, Active, RefersOK, At
<1> QED BY <1>1, <1>2, <1>3, <1>4, <1>5, <1>6, <1>7, <1>8, <1>9, <1>10, <1>11, <1>12, <1>13, <1>14
    DEF Next, Step

-----------------------------------------------------------------------------
Joining == {p \in Process : proc[p].op = "join"}

\* What a step does to the size of the group: it counts the members or leaves
\* them, and a member more is a join that was under way, or an approval.
SizeStep ==
  /\ group'.mode = group.mode /\ lost' >= lost
  /\ largest' >= largest
  /\ group.max =< largest => group'.max =< largest'
  /\ \/ group'.count = group.count /\ Active' = Active
     \/ group'.count = Cardinality(Active')
     \/ lost' > lost
  /\ \/ Active' \subseteq Active /\ Joining' \subseteq Joining
     \/ Active' = Active /\ group.count < group.max
     \/ \E p \in Joining, u \in User : Joining' \subseteq Joining \ {p} /\ Active' \subseteq Active \union {u}
     \/ requests # <<>>

LEMMA NextSize ==
  ASSUME TypeOK, [Next]_vars
  PROVE  SizeStep
<1> USE MembershipAssumption
<1>0. /\ group \in GroupRow /\ member \in [User -> Row] /\ proc \in [Process -> Proc]
      /\ CountersOK /\ largest \in Nat /\ lost \in Nat /\ group.max \in Nat /\ RefersOK
  BY TypeParts DEF Parts, CountersOK, GroupRow
<1>1. ASSUME UNCHANGED <<group, member, largest>>, lost' >= lost, Joining' \subseteq Joining
      PROVE  SizeStep
  BY <1>0, <1>1 DEF SizeStep, Active
<1>2. ASSUME UNCHANGED counters \/ Count \/ \E l, r \in {0, 1} : Fault(l, r)
      PROVE  lost' >= lost
  BY <1>2, CountersFacts
<1>3. ASSUME NEW p \in Process, Done(p) PROVE Joining' \subseteq Joining \ {p}
  BY <1>0, <1>3 DEF Done, Idle, Joining
<1>4. CASE UNCHANGED vars
  BY <1>0, <1>1, <1>4 DEF vars, counters, history, Joining
<1>5. ASSUME NEW p \in Process, Request(p) PROVE SizeStep
  <2>1. Opened(p) /\ lost' >= lost /\ UNCHANGED <<group, member, largest>>
    BY <1>2, <1>5, RequestFacts DEF Opened, history
  <2>2. CASE proc'[p].op = "join"
    <3>1. Active' = Active /\ group.count < group.max
      BY <2>1, <2>2 DEF Opened, Active
    <3> QED BY <1>0, <2>1, <3>1 DEF SizeStep
  <2>3. CASE proc'[p].op # "join"
    BY <1>1, <2>1, <2>3 DEF Opened, Joining
  <2> QED BY <2>2, <2>3
<1>6. ASSUME NEW p \in Process, IsActiveMember(p) \/ GetPendingJoinRequest(p) \/ GetMember(p) PROVE SizeStep
  <2>1. UNCHANGED <<group, member, requests, board, largest>> /\ lost' >= lost
        /\ proc[p].op \in {"join", "kick"} /\ (Done(p) \/ \E step \in Steps : Go(p, step))
    BY <1>2, <1>6 DEF IsActiveMember, GetPendingJoinRequest, GetMember, history, At, Steps
  <2>2. Joining' \subseteq Joining
    BY <1>3, <2>1, GoFacts DEF Joining
  <2> QED BY <1>1, <2>1, <2>2
<1>7. ASSUME NEW p \in Process,
             \/ CreateJoinRequest(p) \/ RejectJoinRequest(p) \/ CreateAnnouncement(p)
             \/ UpdateAnnouncement(p) \/ DeleteAnnouncement(p)
      PROVE  SizeStep
  <2>1. UNCHANGED <<group, member, largest>> /\ Done(p)
    BY <1>7 DEF CreateJoinRequest, RejectJoinRequest, CreateAnnouncement, UpdateAnnouncement,
                DeleteAnnouncement, history
  <2>2. UNCHANGED counters \/ Fault(1, 0)
    BY <1>7 DEF CreateJoinRequest, RejectJoinRequest, CreateAnnouncement, UpdateAnnouncement,
                DeleteAnnouncement, Unpin
  <2> QED BY <1>1, <1>2, <1>3, <2>1, <2>2
<1>8. ASSUME NEW p \in Process, AddMember(p) PROVE SizeStep
  <2> DEFINE u == proc[p].by
  <2>1. Joining' \subseteq Joining \ {p} /\ p \in Joining /\ UNCHANGED largest /\ u \in User
    BY <1>0, <1>3, <1>8 DEF AddMember, At, Joining, Proc
  <2>2. CASE member' = Enter(u) /\ CountMembers(member')
    <3>1. /\ member' \in [User -> Row]
          /\ \A v \in User : member'[v].status = (IF v = u THEN "normal" ELSE member[v].status)
      BY <2>1, <2>2, EnterFacts
    <3>2. Active' \subseteq Active \union {u} /\ Active' = {v \in User : member'[v].status = "normal"}
      BY <3>1 DEF Active
    <3>3. /\ group'.mode = group.mode /\ group'.max = group.max /\ lost' >= lost
          /\ group'.count = Cardinality(Active') \/ lost' > lost
      <4>1. /\ group'.mode = group.mode /\ group'.max = group.max /\ lost' >= lost
            /\ \/ group'.count = Cardinality({v \in User : member'[v].status = "normal"})
               \/ lost' = lost + 1
        BY <2>2, <3>1, CountFacts
      <4> QED BY <1>0, <3>2, <4>1
    <3> QED BY <1>0, <2>1, <3>2, <3>3 DEF SizeStep
  <2>3. CASE UNCHANGED <<group, member>> /\ Fault(0, 1)
    BY <1>1, <1>2, <2>1, <2>3
  <2> QED BY <1>8, <2>2, <2>3 DEF AddMember
<1>9. ASSUME NEW p \in Process, ApproveJoinRequest(p) PROVE SizeStep
  <2> DEFINE i == proc[p].id
             u == requests[i].user
  <2>1. i \in DOMAIN requests /\ requests # <<>> /\ u \in User /\ UNCHANGED largest /\ Joining' \subseteq Joining
    <3>1. i \in DOMAIN requests
      BY <1>0, <1>9 DEF ApproveJoinRequest, RefersOK
    <3>2. requests \in Seq(JoinRequest) /\ requests[i] \in JoinRequest
      BY <3>1, TypeParts DEF Parts
    <3> QED BY <1>3, <1>9, <3>1, <3>2 DEF ApproveJoinRequest, JoinRequest
  <2>2. CASE member' = Readmit(u) /\ CountMembers(member')
    <3>1. member' \in [User -> Row]
      BY <2>1, <2>2, EnterFacts
    <3>2. Active' = {v \in User : member'[v].status = "normal"}
      BY DEF Active
    <3>3. /\ group'.mode = group.mode /\ group'.max = group.max /\ lost' >= lost
          /\ group'.count = Cardinality(Active') \/ lost' > lost
      <4>1. /\ group'.mode = group.mode /\ group'.max = group.max /\ lost' >= lost
            /\ \/ group'.count = Cardinality({v \in User : member'[v].status = "normal"})
               \/ lost' = lost + 1
        BY <2>2, <3>1, CountFacts
      <4> QED BY <1>0, <3>2, <4>1
    <3> QED BY <1>0, <2>1, <3>3 DEF SizeStep
  <2>3. CASE UNCHANGED <<group, member>> /\ (UNCHANGED counters \/ Fault(0, 1))
    BY <1>1, <1>2, <2>1, <2>3
  <2> QED BY <1>9, <2>2, <2>3 DEF ApproveJoinRequest
<1>10. ASSUME NEW p \in Process, MarkMemberStatus(p) PROVE SizeStep
  <2> DEFINE u == proc[p].on
             status == IF member[u].role = "owner" THEN member[u].status
                       ELSE IF proc[p].op = "kick" THEN "kicked" ELSE "left"
  <2>1. Joining' \subseteq Joining /\ UNCHANGED largest /\ u \in User /\ member[u] \in Row
    BY <1>0, <1>3, <1>10 DEF MarkMemberStatus, history, Proc
  <2>2. CASE member' = [member EXCEPT ![u].status = status] /\ CountMembers(member')
    <3>0. status \in {"none", "normal", "left", "kicked"} /\ (status = "normal" => member[u].status = "normal")
      BY <2>1 DEF Row
    <3>1. /\ [member[u] EXCEPT !.status = status] \in Row
          /\ [member[u] EXCEPT !.status = status].status = status
      BY <2>1, <3>0, StatusChanged
    <3>2. member' = [member EXCEPT ![u] = [member[u] EXCEPT !.status = status]]
      BY <1>0, <2>1, <2>2
    <3> HIDE DEF status
    <3>3. /\ member' \in [User -> Row] /\ \A v \in User \ {u} : member'[v] = member[v]
          /\ member'[u].status = "normal" => member[u].status = "normal"
      BY <1>0, <2>1, <3>0, <3>1, <3>2
    <3>4. Active' \subseteq Active /\ Active' = {v \in User : member'[v].status = "normal"}
      BY <3>3 DEF Active
    <3>5. /\ group'.mode = group.mode /\ group'.max = group.max /\ lost' >= lost
          /\ group'.count = Cardinality(Active') \/ lost' > lost
      <4>1. /\ group'.mode = group.mode /\ group'.max = group.max /\ lost' >= lost
            /\ \/ group'.count = Cardinality({v \in User : member'[v].status = "normal"})
               \/ lost' = lost + 1
        BY <2>2, <3>3, CountFacts
      <4> QED BY <1>0, <3>4, <4>1
    <3> QED BY <1>0, <2>1, <3>4, <3>5 DEF SizeStep
  <2>3. CASE UNCHANGED <<group, member>> /\ Fault(0, 1)
    BY <1>1, <1>2, <2>1, <2>3
  <2> QED BY <1>10, <2>2, <2>3 DEF MarkMemberStatus
<1>11. ASSUME NEW m \in [User -> Row], \A v \in User : m[v].status = member[v].status, member' = m,
              UNCHANGED <<group, largest>>, lost' >= lost, Joining' \subseteq Joining
       PROVE  SizeStep
  <2>1. Active' = Active
    BY <1>11 DEF Active
  <2> QED BY <1>0, <1>11, <2>1 DEF SizeStep
<1>12. ASSUME NEW p \in Process, UpdateMemberRole(p) PROVE SizeStep
  <2> DEFINE u == proc[p].on
             role == IF proc[p].id = 1 THEN "admin" ELSE "member"
  <2>1. /\ Joining' \subseteq Joining /\ UNCHANGED <<group, largest>> /\ lost' >= lost
        /\ u \in User /\ member[u] \in Row
    BY <1>0, <1>2, <1>3, <1>12 DEF UpdateMemberRole, Proc
  <2>2. CASE member' = [member EXCEPT ![u].role = role]
    <3>1. member' = [member EXCEPT ![u] = [member[u] EXCEPT !.role = role]]
      BY <1>0, <2>1, <2>2
    <3>2. [member[u] EXCEPT !.role = role] \in Row /\ [member[u] EXCEPT !.role = role].status = member[u].status
      BY <2>1, RoleChanged
    <3>3. member' \in [User -> Row] /\ \A v \in User : member'[v].status = member[v].status
      BY <1>0, <2>1, <3>1, <3>2
    <3> QED BY <1>11, <2>1, <3>3
  <2>3. CASE UNCHANGED member
    BY <1>1, <2>1, <2>3
  <2> QED BY <1>12, <2>2, <2>3 DEF UpdateMemberRole
<1>13. ASSUME NEW p \in Process, UpdateRead(p) PROVE SizeStep
  <2> DEFINE u == proc[p].by
             read == IF u \in Active THEN NewPosition(u, proc[p].id) ELSE member[u].read
  <2>1. /\ Joining' \subseteq Joining /\ UNCHANGED <<group, largest>> /\ lost' >= lost
        /\ u \in User /\ member[u] \in Row /\ proc[p].id \in Nat
        /\ member' = [member EXCEPT ![u].read = read]
    BY <1>0, <1>2, <1>3, <1>13 DEF UpdateRead, Proc, history
  <2>2. read \in Nat
    BY <2>1 DEF Row, NewPosition
  <2>3. member' = [member EXCEPT ![u] = [member[u] EXCEPT !.read = read]]
    BY <1>0, <2>1
  <2>4. [member[u] EXCEPT !.read = read] \in Row /\ [member[u] EXCEPT !.read = read].status = member[u].status
    BY <2>1, <2>2, ReadChanged
  <2>5. member' \in [User -> Row] /\ \A v \in User : member'[v].status = member[v].status
    BY <1>0, <2>1, <2>3, <2>4
  <2> QED BY <1>11, <2>1, <2>5
<1>14. ASSUME NEW p \in Process, Dismiss(p) \/ UpdateGroupSettings(p) PROVE SizeStep
  <2>1. Joining' \subseteq Joining /\ UNCHANGED member /\ lost' >= lost /\ proc[p].id \in Nat
    BY <1>0, <1>2, <1>3, <1>14 DEF Dismiss, UpdateGroupSettings, Proc
  <2>2. /\ group'.mode = group.mode /\ group'.count = group.count /\ largest' >= largest
        /\ group.max =< largest => group'.max =< largest'
    BY <1>0, <1>14, <2>1 DEF Dismiss, UpdateGroupSettings, history, GroupRow
  <2> QED BY <2>1, <2>2 DEF SizeStep, Active
<1>15. ASSUME NEW M \in SUBSET Active, StoreMessage(M) PROVE SizeStep
  <2>1. UNCHANGED <<member, proc, largest>> /\ lost' >= lost
    BY <1>2, <1>15 DEF StoreMessage, history
  <2>2. group'.mode = group.mode /\ group'.count = group.count /\ group'.max = group.max
    BY <1>0, <1>15 DEF StoreMessage, GroupRow
  <2> QED BY <1>0, <2>1, <2>2 DEF SizeStep, Active, Joining
<1>16. ASSUME NEW u \in User, MarkMentionsRead(u) PROVE SizeStep
  <2>1. UNCHANGED <<group, member, proc, largest>> /\ lost' >= lost
    BY <1>2, <1>16 DEF MarkMentionsRead, history
  <2> QED BY <1>1, <2>1 DEF Joining
<1> QED BY <1>4, <1>5, <1>6, <1>7, <1>8, <1>9, <1>10, <1>12, <1>13, <1>14, <1>15, <1>16 DEF Next, Step

-----------------------------------------------------------------------------
\* A group that is joined directly has no requests, nor anybody on the way
\* to one.
DirectOK ==
  group.mode = "direct" =>
    /\ requests = <<>>
    /\ \A p \in Process : ~At(p, "join", "pending") /\ ~At(p, "join", "apply")

\* The members and those on their way in.
SizeOK ==
  /\ group.max =< largest
  /\ group.mode = "direct" /\ lost = 0 =>
       Cardinality(Active) + Cardinality(Joining) =< largest + Cardinality(Process) - 1

LEMMA Sizes ==
  ASSUME TypeOK
  PROVE  /\ IsFiniteSet(Active) /\ Cardinality(Active) \in Nat
         /\ IsFiniteSet(Joining) /\ Cardinality(Joining) \in Nat
         /\ Cardinality(Process) \in Nat /\ Cardinality(Process) >= 1
         /\ Cardinality(Joining) =< Cardinality(Process)
<1>1. Active \in SUBSET User /\ Joining \in SUBSET Process
  BY DEF Active, Joining
<1>2. IsFiniteSet(Active) /\ IsFiniteSet(Joining) /\ IsFiniteSet(Process)
  BY <1>1, FS_Subset, MembershipAssumption
<1>3. Cardinality(Joining) =< Cardinality(Process)
  BY <1>1, FS_Subset, MembershipAssumption
<1>4. Cardinality(Process) \in Nat /\ Cardinality(Process) # 0
  BY <1>2, FS_CardinalityType, FS_EmptySet, MembershipAssumption
<1> QED BY <1>2, <1>3, <1>4, FS_CardinalityType

LEMMA NextCount ==
  ASSUME TypeOK, CountTracksMembers, [Next]_vars
  PROVE  CountTracksMembers'
<1>1. SizeStep /\ lost \in Nat /\ lost' \in Nat
  BY NextSize, NextTypeOK, TypeParts DEF Parts, CountersOK
<1> QED BY <1>1 DEF SizeStep, CountTracksMembers

LEMMA NextSizeOK ==
  ASSUME TypeOK, CountTracksMembers, DirectOK, SizeOK, [Next]_vars
  PROVE  SizeOK'
<1>1. SizeStep /\ TypeOK'
  BY NextSize, NextTypeOK
<1>2. /\ lost \in Nat /\ lost' \in Nat /\ largest \in Nat /\ largest' \in Nat
      /\ group.max \in Nat /\ group'.max \in Nat /\ group.count \in Nat
  BY <1>1, TypeParts DEF Parts, CountersOK, GroupRow
<1>3. group'.max =< largest'
  BY <1>1 DEF SizeStep, SizeOK
<1>4. ASSUME group'.mode = "direct", lost' = 0
      PROVE  (Cardinality(Active) + Cardinality(Joining) =< largest + Cardinality(Process) - 1)'
  <2>1. group.mode = "direct" /\ lost = 0 /\ requests = <<>> /\ largest' >= largest
    BY <1>1, <1>2, <1>4 DEF SizeStep, DirectOK
  <2>2. /\ Cardinality(Active) + Cardinality(Joining) =< largest + Cardinality(Process) - 1
        /\ group.count = Cardinality(Active)
    BY <2>1 DEF SizeOK, CountTracksMembers
  <2>3. /\ IsFiniteSet(Active) /\ Cardinality(Active) \in Nat
        /\ IsFiniteSet(Joining) /\ Cardinality(Joining) \in Nat
        /\ Cardinality(Process) \in Nat
    BY Sizes
  <2>4. /\ IsFiniteSet(Active') /\ Cardinality(Active') \in Nat
        /\ IsFiniteSet(Joining') /\ Cardinality(Joining') \in Nat
        /\ Cardinality(Joining') =< Cardinality(Process)
    <3>1. Active' \in SUBSET User /\ Joining' \in SUBSET Process
      BY DEF Active, Joining
    <3>2. IsFiniteSet(Active') /\ IsFiniteSet(Joining') /\ Cardinality(Joining') =< Cardinality(Process)
      BY <3>1, FS_Subset, MembershipAssumption
    <3> QED BY <3>2, FS_CardinalityType
  <2>5. CASE Active' \subseteq Active /\ Joining' \subseteq Joining
    <3>1. Cardinality(Active') =< Cardinality(Active) /\ Cardinality(Joining') =< Cardinality(Joining)
      BY <2>3, <2>5, FS_Subset
    <3> QED BY <1>2, <2>1, <2>2, <2>3, <2>4, <3>1
  <2>6. CASE Active' = Active /\ group.count < group.max
    BY <1>2, <2>1, <2>2, <2>3, <2>4, <2>6 DEF SizeOK
  <2>7. ASSUME NEW p \in Joining, NEW u \in User,
               Joining' \subseteq Joining \ {p}, Active' \subseteq Active \union {u}
        PROVE  (Cardinality(Active) + Cardinality(Joining) =< largest + Cardinality(Process) - 1)'
    <3>1. IsFiniteSet(Joining \ {p}) /\ Cardinality(Joining \ {p}) = Cardinality(Joining) - 1
      BY <2>3, FS_RemoveElement
    <3>2. Cardinality(Joining') =< Cardinality(Joining) - 1
      BY <2>7, <3>1, FS_Subset
    <3>3. IsFiniteSet(Active \union {u}) /\ Cardinality(Active \union {u}) =< Cardinality(Active) + 1
      <4>1. /\ IsFiniteSet(Active \union {u})
            /\ Cardinality(Active \union {u}) = IF u \in Active THEN Cardinality(Active) ELSE Cardinality(Active) + 1
        BY <2>3, FS_AddElement
      <4>2. Cardinality(Active) \in Nat
        BY <2>3
      <4> HIDE DEF Active
      <4> QED BY <4>1, <4>2
    <3>4. Cardinality(Active \union {u}) \in Nat
      BY <3>3, FS_CardinalityType
    <3>5. Cardinality(Active') =< Cardinality(Active) + 1
      <4>1. Cardinality(Active') =< Cardinality(Active \union {u})
        BY <2>7, <3>3, FS_Subset
      <4> QED BY <2>3, <2>4, <3>3, <3>4, <4>1
    <3> QED BY <1>2, <2>1, <2>2, <2>3, <2>4, <3>2, <3>5
  <2> QED BY <1>1, <2>1, <2>5, <2>6, <2>7 DEF SizeStep
<1> QED BY <1>3, <1>4 DEF SizeOK

LEMMA NextDirectOK ==
  ASSUME TypeOK, DirectOK, [Next]_vars
  PROVE  DirectOK'
<1>0. proc \in [Process -> Proc] /\ SizeStep
  BY NextSize, TypeParts DEF Parts
<1> SUFFICES ASSUME group'.mode = "direct" PROVE DirectOK'
  BY DEF DirectOK
<1>1. group.mode = "direct" /\ requests = <<>> /\ \A p \in Process : ~At(p, "join", "pending") /\ ~At(p, "join", "apply")
  BY <1>0 DEF SizeStep, DirectOK
<1>2. ASSUME UNCHANGED <<requests, proc>> PROVE DirectOK'
  BY <1>1, <1>2 DEF DirectOK, At
<1>3. ASSUME NEW p \in Process, UNCHANGED requests, Done(p) PROVE DirectOK'
  BY <1>0, <1>1, <1>3 DEF DirectOK, At, Done, Idle
<1>4. CASE UNCHANGED vars
  BY <1>2, <1>4 DEF vars
<1>5. ASSUME NEW p \in Process, Request(p) PROVE DirectOK'
  <2>1. Opened(p)
    BY <1>5, RequestFacts
  <2> QED BY <1>1, <2>1 DEF Opened, DirectOK, At
<1>6. ASSUME NEW p \in Process, IsActiveMember(p) PROVE DirectOK'
  <2>1. Done(p) \/ Go(p, "add")
    BY <1>1, <1>6 DEF IsActiveMember
  <2>2. UNCHANGED requests
    BY <1>6 DEF IsActiveMember
  <2>3. CASE Go(p, "add")
    <3>1. proc'[p].step = "add" /\ \A q \in Process \ {p} : proc'[q] = proc[q]
      BY <1>0, <2>3 DEF Go, Proc
    <3> QED BY <1>1, <2>2, <3>1 DEF DirectOK, At
  <2> QED BY <1>3, <2>1, <2>2, <2>3
<1>7. ASSUME NEW p \in Process, GetPendingJoinRequest(p) \/ CreateJoinRequest(p) PROVE FALSE
  BY <1>1, <1>7 DEF GetPendingJoinRequest, CreateJoinRequest
<1>8. ASSUME NEW p \in Process, GetMember(p) PROVE DirectOK'
  <2>1. (Done(p) \/ Go(p, "apply")) /\ UNCHANGED requests /\ proc[p].op = "kick"
    BY <1>8 DEF GetMember, At
  <2>2. CASE Go(p, "apply")
    <3>1. proc'[p].op = "kick" /\ \A q \in Process \ {p} : proc'[q] = proc[q]
      BY <1>0, <2>1, <2>2 DEF Go, Proc
    <3> QED BY <1>1, <2>1, <3>1 DEF DirectOK, At
  <2> QED BY <1>3, <2>1, <2>2
<1>9. ASSUME NEW p \in Process, ApproveJoinRequest(p) \/ RejectJoinRequest(p) PROVE FALSE
  <2>1. proc[p].id \in DOMAIN requests
    BY <1>9, TypeParts DEF Parts, RefersOK, ApproveJoinRequest, RejectJoinRequest
  <2> QED BY <1>1, <2>1
<1>10. ASSUME NEW p \in Process,
              \/ AddMember(p) \/ MarkMemberStatus(p) \/ UpdateMemberRole(p) \/ Dismiss(p)
              \/ UpdateGroupSettings(p) \/ UpdateRead(p) \/ CreateAnnouncement(p)
              \/ UpdateAnnouncement(p) \/ DeleteAnnouncement(p)
       PROVE  DirectOK'
  <2>1. UNCHANGED requests /\ Done(p)
    BY <1>10 DEF AddMember, MarkMemberStatus, UpdateMemberRole, Dismiss, UpdateGroupSettings, UpdateRead,
                 CreateAnnouncement, UpdateAnnouncement, DeleteAnnouncement
  <2> QED BY <1>3, <2>1
<1>11. ASSUME NEW M \in SUBSET Active, StoreMessage(M) PROVE DirectOK'
  BY <1>2, <1>11 DEF StoreMessage
<1>12. ASSUME NEW u \in User, MarkMentionsRead(u) PROVE DirectOK'
  BY <1>2, <1>12 DEF MarkMentionsRead
<1> QED BY <1>4, <1>5, <1>6, <1>7, <1>8, <1>9, <1>10, <1>11, <1>12 DEF Next, Step

\* A rank that was given before somebody left does not come back with him.
LEMMA NextAdmins ==
  ASSUME TypeOK, DirectOK, DirectAdminsAppointed, [Next]_vars
  PROVE  DirectAdminsAppointed'
<1>0. /\ member \in [User -> Row] /\ proc \in [Process -> Proc] /\ SizeStep
      /\ appointed \in SUBSET User
  BY NextSize, TypeParts DEF Parts
<1> SUFFICES ASSUME group'.mode = "direct" PROVE DirectAdminsAppointed'
  BY DEF DirectAdminsAppointed
<1>1. /\ group.mode = "direct" /\ requests = <<>>
      /\ \A u \in User : member[u].status = "normal" /\ member[u].role = "admin" => u \in appointed
  BY <1>0 DEF SizeStep, DirectOK, DirectAdminsAppointed, Active
<1>2. ASSUME UNCHANGED <<member, appointed>> PROVE DirectAdminsAppointed'
  BY <1>1, <1>2 DEF DirectAdminsAppointed, Active
<1>3. CASE UNCHANGED vars
  BY <1>2, <1>3 DEF vars, history
<1>4. ASSUME NEW p \in Process, Request(p) PROVE DirectAdminsAppointed'
  <2>1. Opened(p)
    BY <1>4, RequestFacts
  <2> QED BY <1>2, <2>1 DEF Opened, history
<1>5. ASSUME NEW p \in Process, ApproveJoinRequest(p) \/ RejectJoinRequest(p) PROVE FALSE
  <2>1. proc[p].id \in DOMAIN requests
    BY <1>5, TypeParts DEF Parts, RefersOK, ApproveJoinRequest, RejectJoinRequest
  <2> QED BY <1>1, <2>1
<1>6. ASSUME NEW p \in Process,
             \/ IsActiveMember(p) \/ GetPendingJoinRequest(p) \/ CreateJoinRequest(p) \/ GetMember(p)
             \/ Dismiss(p) \/ UpdateGroupSettings(p) \/ CreateAnnouncement(p)
             \/ UpdateAnnouncement(p) \/ DeleteAnnouncement(p)
      PROVE  DirectAdminsAppointed'
  BY <1>2, <1>6 DEF IsActiveMember, GetPendingJoinRequest, CreateJoinRequest, GetMember, Dismiss,
     UpdateGroupSettings, CreateAnnouncement, UpdateAnnouncement, DeleteAnnouncement, history
<1>7. ASSUME NEW p \in Process, AddMember(p) PROVE DirectAdminsAppointed'
  <2> DEFINE u == proc[p].by
  <2>1. u \in User
    BY <1>0 DEF Proc
  <2>2. CASE member' = Enter(u) /\ appointed' = appointed \ {u}
    <3>1. member'[u].role # "admin" /\ \A v \in User \ {u} : member'[v] = member[v]
      BY <2>1, <2>2, EnterFacts
    <3> QED BY <1>1, <2>2, <3>1 DEF DirectAdminsAppointed, Active
  <2> QED BY <1>2, <1>7, <2>2 DEF AddMember
<1>8. ASSUME NEW p \in Process, MarkMemberStatus(p) PROVE DirectAdminsAppointed'
  <2> DEFINE u == proc[p].on
             status == IF member[u].role = "owner" THEN member[u].status
                       ELSE IF proc[p].op = "kick" THEN "kicked" ELSE "left"
  <2>1. u \in User /\ member[u] \in Row /\ UNCHANGED appointed
    BY <1>0, <1>8 DEF Proc, MarkMemberStatus, history
  <2>2. CASE member' = [member EXCEPT ![u].status = status]
    <3>1. status \in {"none", "normal", "left", "kicked"} /\ (status = "normal" => member[u].role = "owner")
      BY <2>1 DEF Row
    <3>2. member' = [member EXCEPT ![u] = [member[u] EXCEPT !.status = status]]
      BY <1>0, <2>1, <2>2
    <3>3. /\ [member[u] EXCEPT !.status = status].status = status
          /\ [member[u] EXCEPT !.status = status].role = member[u].role
      BY <2>1, <3>1, StatusChanged
    <3> HIDE DEF status
    <3>4. /\ \A v \in User \ {u} : member'[v] = member[v]
          /\ member'[u].status = "normal" => member'[u].role # "admin"
      BY <1>0, <2>1, <3>1, <3>2, <3>3
    <3> QED BY <1>1, <2>1, <3>4 DEF DirectAdminsAppointed, Active
  <2>3. CASE UNCHANGED member
    BY <1>2, <2>1, <2>3
  <2> QED BY <1>8, <2>2, <2>3 DEF MarkMemberStatus
<1>9. ASSUME NEW p \in Process, UpdateMemberRole(p) PROVE DirectAdminsAppointed'
  <2> DEFINE u == proc[p].on
             role == IF proc[p].id = 1 THEN "admin" ELSE "member"
  <2>1. u \in User /\ member[u] \in Row
    BY <1>0 DEF Proc
  <2>2. CASE /\ member' = [member EXCEPT ![u].role = role]
             /\ appointed' = IF proc[p].id = 1 THEN appointed \union {u} ELSE appointed \ {u}
    <3>1. member' = [member EXCEPT ![u] = [member[u] EXCEPT !.role = role]]
      BY <1>0, <2>1, <2>2
    <3>2. [member[u] EXCEPT !.role = role].role = role
      BY <2>1, RoleChanged
    <3>3. member'[u].role = role /\ \A v \in User \ {u} : member'[v] = member[v]
      BY <1>0, <2>1, <3>1, <3>2
    <3>4. /\ role = "admin" => u \in appointed'
          /\ \A v \in User \ {u} : v \in appointed => v \in appointed'
      BY <2>2
    <3> QED BY <1>1, <3>3, <3>4 DEF DirectAdminsAppointed, Active
  <2> QED BY <1>2, <1>9, <2>2 DEF UpdateMemberRole
<1>10. ASSUME NEW p \in Process, UpdateRead(p) PROVE DirectAdminsAppointed'
  <2> DEFINE u == proc[p].by
             read == IF u \in Active THEN NewPosition(u, proc[p].id) ELSE member[u].read
  <2>1. u \in User /\ member[u] \in Row /\ proc[p].id \in Nat /\ UNCHANGED appointed
        /\ member' = [member EXCEPT ![u].read = read]
    BY <1>0, <1>10 DEF Proc, UpdateRead, history
  <2>2. read \in Nat
    BY <2>1 DEF Row, NewPosition
  <2>3. member' = [member EXCEPT ![u] = [member[u] EXCEPT !.read = read]]
    BY <1>0, <2>1
  <2>4. /\ [member[u] EXCEPT !.read = read].status = member[u].status
        /\ [member[u] EXCEPT !.read = read].role = member[u].role
    BY <2>1, <2>2, ReadChanged
  <2>5. \A v \in User : member'[v].status = member[v].status /\ member'[v].role = member[v].role
    BY <1>0, <2>1, <2>3, <2>4
  <2> QED BY <1>1, <2>1, <2>5 DEF DirectAdminsAppointed, Active
<1>11. ASSUME NEW M \in SUBSET Active, StoreMessage(M) PROVE DirectAdminsAppointed'
  BY <1>2, <1>11 DEF StoreMessage, history
<1>12. ASSUME NEW u \in User, MarkMentionsRead(u) PROVE DirectAdminsAppointed'
  BY <1>2, <1>12 DEF MarkMentionsRead, history
<1> QED BY <1>3, <1>4, <1>5, <1>6, <1>7, <1>8, <1>9, <1>10, <1>11, <1>12 DEF Next, Step

\* Whoever decides a request finds it pending, with the row locked.
LEMMA NextDecided ==
  ASSUME TypeOK, RequestDecidedOnce, [Next]_vars
  PROVE  RequestDecidedOnce'
<1>0. requests \in Seq(JoinRequest) /\ proc \in [Process -> Proc] /\ rolled \in Nat
  BY TypeParts DEF Parts, CountersOK
<1>1. rolled' >= rolled /\ rolled' \in Nat
  <2>1. UNCHANGED counters \/ Count \/ \E l, r \in {0, 1} : Fault(l, r)
    <3>1. CASE UNCHANGED vars
      BY <3>1 DEF vars
    <3>2. ASSUME NEW p \in Process, Request(p) PROVE Count
      BY <3>2, RequestFacts DEF Opened
    <3>3. ASSUME NEW p \in Process,
                 \/ IsActiveMember(p) \/ GetPendingJoinRequest(p) \/ CreateJoinRequest(p) \/ GetMember(p)
                 \/ RejectJoinRequest(p) \/ UpdateMemberRole(p) \/ Dismiss(p) \/ UpdateGroupSettings(p)
                 \/ DeleteAnnouncement(p)
          PROVE  UNCHANGED counters
      BY <3>3 DEF IsActiveMember, GetPendingJoinRequest, CreateJoinRequest, GetMember, RejectJoinRequest,
         UpdateMemberRole, Dismiss, UpdateGroupSettings, DeleteAnnouncement
    <3>4. ASSUME NEW p \in Process,
                 \/ AddMember(p) \/ ApproveJoinRequest(p) \/ MarkMemberStatus(p)
                 \/ UpdateRead(p) \/ CreateAnnouncement(p) \/ UpdateAnnouncement(p)
          PROVE  UNCHANGED counters \/ Fault(0, 1) \/ Fault(1, 0)
      BY <3>4 DEF AddMember, ApproveJoinRequest, MarkMemberStatus, UpdateRead, CreateAnnouncement,
         UpdateAnnouncement, CountMembers, Unpin
    <3>5. ASSUME NEW M \in SUBSET Active, StoreMessage(M) PROVE Count
      BY <3>5 DEF StoreMessage
    <3>6. ASSUME NEW u \in User, MarkMentionsRead(u) PROVE Count
      BY <3>6 DEF MarkMentionsRead
    <3> QED BY <3>1, <3>2, <3>3, <3>4, <3>5, <3>6 DEF Next, Step
  <2> QED BY <2>1, CountersFacts, MembershipAssumption DEF CountersOK
<1>2. CASE rolled' # 0
  BY <1>2 DEF RequestDecidedOnce
<1>3. CASE UNCHANGED requests
  BY <1>0, <1>1, <1>3 DEF RequestDecidedOnce
<1> DEFINE Decided(r) == /\ r.approvals = (IF r.status = "approved" THEN 1 ELSE 0)
                         /\ r.rejections = (IF r.status = "rejected" THEN 1 ELSE 0)
<1>4. ASSUME rolled = 0, rolled' = 0,
             NEW i \in DOMAIN requests, NEW r \in JoinRequest, requests' = [requests EXCEPT ![i] = r], Decided(r)
      PROVE  RequestDecidedOnce'
  <2>1. \A j \in DOMAIN requests : Decided(requests[j])
    BY <1>4 DEF RequestDecidedOnce
  <2>2. DOMAIN requests' = DOMAIN requests /\ requests'[i] = r /\ \A j \in DOMAIN requests \ {i} : requests'[j] = requests[j]
    BY <1>0, <1>4
  <2>3. \A j \in DOMAIN requests' : Decided(requests'[j])
    BY <1>4, <2>1, <2>2
  <2> QED BY <2>3 DEF RequestDecidedOnce
<1>5. ASSUME rolled' = 0, NEW p \in Process, CreateJoinRequest(p) PROVE RequestDecidedOnce'
  <2> DEFINE r == [user |-> proc[p].by, status |-> "pending", approvals |-> 0, rejections |-> 0]
  <2>1. rolled = 0 /\ requests' = Append(requests, r)
    BY <1>0, <1>1, <1>5 DEF CreateJoinRequest
  <2>2. Decided(r)
    OBVIOUS
  <2> HIDE DEF r
  <2>3. /\ \A j \in DOMAIN requests' : j \in DOMAIN requests \/ j = Len(requests) + 1
        /\ requests'[Len(requests) + 1] = r
        /\ \A j \in DOMAIN requests : requests'[j] = requests[j]
    BY <1>0, <2>1
  <2>4. \A j \in DOMAIN requests : Decided(requests[j])
    BY <2>1 DEF RequestDecidedOnce
  <2>5. \A j \in DOMAIN requests' : Decided(requests'[j])
    BY <2>2, <2>3, <2>4
  <2> QED BY <2>5 DEF RequestDecidedOnce
<1>6. ASSUME rolled' = 0, NEW p \in Process, ApproveJoinRequest(p) \/ RejectJoinRequest(p)
      PROVE  RequestDecidedOnce'
  <2> DEFINE i == proc[p].id
             r == requests[i]
  <2>1. i \in DOMAIN requests /\ r \in JoinRequest /\ rolled = 0
    <3>1. i \in DOMAIN requests
      BY <1>6, TypeParts DEF Parts, RefersOK, ApproveJoinRequest, RejectJoinRequest
    <3> QED BY <1>0, <1>1, <1>6, <3>1
  <2>2. Decided(r)
    BY <2>1 DEF RequestDecidedOnce
  <2>3. \/ UNCHANGED requests
        \/ Undecided(i) /\ requests' = [requests EXCEPT ![i].status = "approved", ![i].approvals = @ + 1]
        \/ Undecided(i) /\ requests' = [requests EXCEPT ![i].status = "rejected", ![i].rejections = @ + 1]
    BY <1>0, <1>6, <2>1 DEF ApproveJoinRequest, RejectJoinRequest, Fault
  <2>4. CASE Undecided(i) /\ requests' = [requests EXCEPT ![i].status = "approved", ![i].approvals = @ + 1]
    <3>1. requests' = [requests EXCEPT ![i] = Approved(r)]
      BY <1>0, <2>1, <2>4 DEF Approved
    <3>2. Approved(r) \in JoinRequest /\ Decided(Approved(r))
      <4>1. r.status = "pending" /\ r.approvals = 0 /\ r.rejections = 0
        BY <2>2, <2>4 DEF Undecided
      <4>2. /\ Approved(r) \in JoinRequest /\ Approved(r).status = "approved"
            /\ Approved(r).approvals = r.approvals + 1 /\ Approved(r).rejections = r.rejections
        BY <2>1, RequestChanged
      <4>3. Approved(r).approvals = 1 /\ Approved(r).rejections = 0
        BY <4>1, <4>2
      <4> QED BY <4>2, <4>3
    <3> QED BY <1>4, <1>6, <2>1, <3>1, <3>2
  <2>5. CASE Undecided(i) /\ requests' = [requests EXCEPT ![i].status = "rejected", ![i].rejections = @ + 1]
    <3>1. requests' = [requests EXCEPT ![i] = Rejected(r)]
      BY <1>0, <2>1, <2>5 DEF Rejected
    <3>2. Rejected(r) \in JoinRequest /\ Decided(Rejected(r))
      <4>1. r.status = "pending" /\ r.approvals = 0 /\ r.rejections = 0
        BY <2>2, <2>5 DEF Undecided
      <4>2. /\ Rejected(r) \in JoinRequest /\ Rejected(r).status = "rejected"
            /\ Rejected(r).approvals = r.approvals /\ Rejected(r).rejections = r.rejections + 1
        BY <2>1, RequestChanged
      <4>3. Rejected(r).approvals = 0 /\ Rejected(r).rejections = 1
        BY <4>1, <4>2
      <4> QED BY <4>2, <4>3
    <3> QED BY <1>4, <1>6, <2>1, <3>1, <3>2
  <2> QED BY <1>3, <2>3, <2>4, <2>5
<1>7. UNCHANGED requests \/ \E p \in Process : CreateJoinRequest(p) \/ ApproveJoinRequest(p) \/ RejectJoinRequest(p)
  <2>1. ASSUME NEW p \in Process, Request(p) PROVE UNCHANGED requests
    BY <2>1, RequestFacts DEF Opened
  <2> QED BY <2>1 DEF Next, vars, Step, IsActiveMember, GetPendingJoinRequest, AddMember, GetMember,
                   MarkMemberStatus, UpdateMemberRole, Dismiss, UpdateGroupSettings, UpdateRead,
                   CreateAnnouncement, UpdateAnnouncement, DeleteAnnouncement, StoreMessage, MarkMentionsRead
<1> QED BY <1>2, <1>3, <1>5, <1>6, <1>7

-----------------------------------------------------------------------------
\* As long as no unpinning was lost, two that are shown are one.
OneShown ==
  lost = 0 => \A i, j \in DOMAIN board : Shown(board, i) /\ Shown(board, j) => i = j

LEMMA NextOneShown ==
  ASSUME TypeOK, OneShown, [Next]_vars
  PROVE  OneShown'
<1>0. lost \in Nat /\ lost' \in Nat /\ lost' >= lost
  BY NextTypeOK, NextSize, TypeParts DEF Parts, CountersOK, SizeStep
<1>1. CASE UNCHANGED board
  BY <1>0, <1>1 DEF OneShown, Shown
<1>2. ASSUME NEW p \in Process, CreateAnnouncement(p) \/ UpdateAnnouncement(p) \/ DeleteAnnouncement(p)
      PROVE  OneShown'
  <2>1. BoardStep
    BY <1>2, BoardFacts
  <2>2. ASSUME lost' = 0, NEW i \in DOMAIN board', NEW j \in DOMAIN board', Shown(board', i), Shown(board', j)
        PROVE  i = j
    <3>1. CASE \A k \in DOMAIN board' : Shown(board', k) => k \in DOMAIN board /\ Shown(board, k)
      BY <1>0, <2>2, <3>1 DEF OneShown
    <3> QED BY <1>0, <2>1, <2>2, <3>1 DEF BoardStep
  <2> QED BY <2>2 DEF OneShown, Shown
<1>3. UNCHANGED board \/ \E p \in Process : CreateAnnouncement(p) \/ UpdateAnnouncement(p) \/ DeleteAnnouncement(p)
  <2>1. ASSUME NEW p \in Process, Request(p) PROVE UNCHANGED board
    BY <2>1, RequestFacts DEF Opened
  <2> QED BY <2>1 DEF Next, vars, Step, IsActiveMember, GetPendingJoinRequest, AddMember, GetMember,
                   MarkMemberStatus, UpdateMemberRole, Dismiss, UpdateGroupSettings, UpdateRead,
                   CreateJoinRequest, ApproveJoinRequest, RejectJoinRequest, StoreMessage, MarkMentionsRead
<1> QED BY <1>1, <1>2, <1>3

-----------------------------------------------------------------------------
\* The position is stored and the mentions up to it are marked in one step,
\* or the marking was lost.
LEMMA NextMentions ==
  ASSUME TypeOK, MentionsFollowRead, [Next]_vars
  PROVE  MentionsFollowRead'
<1>0. /\ member \in [User -> Row] /\ proc \in [Process -> Proc] /\ group \in GroupRow
      /\ mention \in [User -> [1..MaxMessages -> {"none", "unread", "late", "read"}]]
      /\ lost \in Nat /\ lost' \in Nat /\ lost' >= lost
  BY NextTypeOK, NextSize, TypeParts DEF Parts, CountersOK, SizeStep
<1> SUFFICES ASSUME lost' = 0 PROVE MentionsFollowRead'
  BY DEF MentionsFollowRead
<1>1. lost = 0 /\ \A u \in User, s \in 1..MaxMessages : mention[u][s] = "unread" => s > member[u].read
  BY <1>0 DEF MentionsFollowRead
<1>2. ASSUME UNCHANGED mention, \A u \in User : member'[u].read = member[u].read
      PROVE  MentionsFollowRead'
  BY <1>1, <1>2 DEF MentionsFollowRead
<1>3. ASSUME UNCHANGED <<mention, member>> PROVE MentionsFollowRead'
  BY <1>2, <1>3
<1>4. CASE UNCHANGED vars
  BY <1>3, <1>4 DEF vars
<1>5. ASSUME NEW p \in Process, Request(p) PROVE MentionsFollowRead'
  <2>1. Opened(p)
    BY <1>5, RequestFacts
  <2> QED BY <1>3, <2>1 DEF Opened
<1>6. ASSUME NEW p \in Process,
             \/ IsActiveMember(p) \/ GetPendingJoinRequest(p) \/ CreateJoinRequest(p) \/ GetMember(p)
             \/ RejectJoinRequest(p) \/ Dismiss(p) \/ UpdateGroupSettings(p) \/ CreateAnnouncement(p)
             \/ UpdateAnnouncement(p) \/ DeleteAnnouncement(p)
      PROVE  MentionsFollowRead'
  BY <1>3, <1>6 DEF IsActiveMember, GetPendingJoinRequest, CreateJoinRequest, GetMember, RejectJoinRequest,
     Dismiss, UpdateGroupSettings, CreateAnnouncement, UpdateAnnouncement, DeleteAnnouncement
<1>7. ASSUME NEW p \in Process, AddMember(p) \/ ApproveJoinRequest(p) PROVE MentionsFollowRead'
  <2>1. \/ UNCHANGED member
        \/ \E u \in User : member' \in {Readmit(u), Enter(u)}
    <3>1. CASE AddMember(p)
      BY <1>0, <3>1 DEF AddMember, Proc
    <3>2. CASE ApproveJoinRequest(p)
      <4>1. proc[p].id \in DOMAIN requests /\ requests \in Seq(JoinRequest)
        BY <3>2, TypeParts DEF Parts, RefersOK, ApproveJoinRequest
      <4>2. requests[proc[p].id] \in JoinRequest
        BY <4>1
      <4> QED BY <3>2, <4>2 DEF ApproveJoinRequest, JoinRequest
    <3> QED BY <1>7, <3>1, <3>2
  <2>2. \A v \in User : member'[v].read = member[v].read
    BY <2>1, EnterFacts
  <2>3. UNCHANGED mention
    BY <1>7 DEF AddMember, ApproveJoinRequest
  <2> QED BY <1>2, <2>2, <2>3
<1>8. ASSUME NEW p \in Process, MarkMemberStatus(p) \/ UpdateMemberRole(p) PROVE MentionsFollowRead'
  <2> DEFINE u == proc[p].on
  <2>1. u \in User /\ member[u] \in Row
    BY <1>0 DEF Proc
  <2>2. \/ UNCHANGED member
        \/ \E status \in {"none", "normal", "left", "kicked"} : member' = [member EXCEPT ![u] = [member[u] EXCEPT !.status = status]]
        \/ \E role \in {"admin", "member"} : member' = [member EXCEPT ![u] = [member[u] EXCEPT !.role = role]]
    <3>1. CASE MarkMemberStatus(p)
      <4> DEFINE status == IF member[u].role = "owner" THEN member[u].status
                           ELSE IF proc[p].op = "kick" THEN "kicked" ELSE "left"
      <4>1. status \in {"none", "normal", "left", "kicked"}
        BY <2>1 DEF Row
      <4>2. UNCHANGED member \/ member' = [member EXCEPT ![u].status = status]
        BY <3>1 DEF MarkMemberStatus
      <4>3. UNCHANGED member \/ member' = [member EXCEPT ![u] = [member[u] EXCEPT !.status = status]]
        BY <1>0, <2>1, <4>2
      <4> QED BY <4>1, <4>3
    <3>2. CASE UpdateMemberRole(p)
      <4> DEFINE role == IF proc[p].id = 1 THEN "admin" ELSE "member"
      <4>1. UNCHANGED member \/ member' = [member EXCEPT ![u].role = role]
        BY <3>2 DEF UpdateMemberRole
      <4>2. UNCHANGED member \/ member' = [member EXCEPT ![u] = [member[u] EXCEPT !.role = role]]
        BY <1>0, <2>1, <4>1
      <4>3. role \in {"admin", "member"}
        OBVIOUS
      <4> QED BY <4>2, <4>3
    <3> QED BY <1>8, <3>1, <3>2
  <2>3. ASSUME NEW status \in {"none", "normal", "left", "kicked"},
               member' = [member EXCEPT ![u] = [member[u] EXCEPT !.status = status]]
        PROVE  \A v \in User : member'[v].read = member[v].read
    <3>1. [member[u] EXCEPT !.status = status].read = member[u].read
      BY <2>1, StatusChanged
    <3> QED BY <1>0, <2>1, <2>3, <3>1
  <2>4. ASSUME NEW role \in {"admin", "member"},
               member' = [member EXCEPT ![u] = [member[u] EXCEPT !.role = role]]
        PROVE  \A v \in User : member'[v].read = member[v].read
    <3>1. [member[u] EXCEPT !.role = role].read = member[u].read
      BY <2>1, RoleChanged
    <3> QED BY <1>0, <2>1, <2>4, <3>1
  <2>5. UNCHANGED mention
    BY <1>8 DEF MarkMemberStatus, UpdateMemberRole
  <2> QED BY <1>2, <2>2, <2>3, <2>4, <2>5
<1>9. ASSUME NEW p \in Process, UpdateRead(p) PROVE MentionsFollowRead'
  <2> DEFINE u == proc[p].by
             n == proc[p].id
             read == IF u \in Active THEN NewPosition(u, n) ELSE member[u].read
  <2>1. u \in User /\ member[u] \in Row /\ n \in Nat
    BY <1>0 DEF Proc
  <2>2. mention' = Read(u, n) /\ member' = [member EXCEPT ![u].read = read]
    BY <1>0, <1>1, <1>9 DEF UpdateRead, Fault
  <2>3. read \in Nat /\ member[u].read \in Nat /\ (read = member[u].read \/ read = n)
    BY <2>1 DEF Row, NewPosition
  <2>4. member' = [member EXCEPT ![u] = [member[u] EXCEPT !.read = read]]
    BY <1>0, <2>1, <2>2
  <2>5. [member[u] EXCEPT !.read = read].read = read
    BY <2>1, <2>3, ReadChanged
  <2> HIDE DEF read
  <2>6. member'[u].read = read /\ \A v \in User \ {u} : member'[v] = member[v]
    BY <1>0, <2>1, <2>4, <2>5
  <2>7. /\ \A v \in User \ {u} : mention'[v] = mention[v]
        /\ \A s \in 1..MaxMessages : mention'[u][s] = "unread" => mention[u][s] = "unread" /\ s > n
    BY <2>1, <2>2, ReadFacts
  <2> QED BY <1>1, <2>1, <2>3, <2>6, <2>7 DEF MentionsFollowRead
<1>10. ASSUME NEW M \in SUBSET Active, StoreMessage(M) PROVE MentionsFollowRead'
  <2> DEFINE k == group.seq + 1
             word(u) == IF k > member[u].read THEN "unread" ELSE "late"
  <2>1. /\ UNCHANGED member /\ k \in 1..MaxMessages
        /\ mention' = [u \in User |-> IF u \in M THEN [mention[u] EXCEPT ![k] = word(u)] ELSE mention[u]]
    BY <1>0, <1>10, MembershipAssumption DEF StoreMessage, GroupRow
  <2>2. ASSUME NEW u \in User, NEW s \in 1..MaxMessages, mention'[u][s] = "unread"
        PROVE  s > member[u].read
    <3>1. CASE u \in M /\ s = k
      BY <1>0, <2>1, <2>2, <3>1
    <3>2. CASE ~(u \in M /\ s = k)
      <4>1. mention'[u][s] = mention[u][s]
        BY <1>0, <2>1, <3>2
      <4> QED BY <1>1, <2>2, <4>1
    <3> QED BY <3>1, <3>2
  <2> QED BY <2>1, <2>2 DEF MentionsFollowRead
<1>11. ASSUME NEW u \in User, MarkMentionsRead(u) PROVE MentionsFollowRead'
  <2>1. UNCHANGED member /\ \E s \in 1..MaxMessages : mention' = Read(u, s)
    BY <1>11 DEF MarkMentionsRead
  <2>2. \A v \in User, s \in 1..MaxMessages : mention'[v][s] = "unread" => mention[v][s] = "unread"
    <3>1. PICK s \in 1..MaxMessages : mention' = Read(u, s)
      BY <2>1
    <3>2. s \in Nat
      BY MembershipAssumption
    <3>3. /\ \A v \in User \ {u} : mention'[v] = mention[v]
          /\ \A n \in 1..MaxMessages : mention'[u][n] = "unread" => mention[u][n] = "unread"
      BY <3>1, <3>2, ReadFacts
    <3> QED BY <3>3
  <2> QED BY <1>1, <2>1, <2>2 DEF MentionsFollowRead
<1> QED BY <1>4, <1>5, <1>6, <1>7, <1>8, <1>9, <1>10, <1>11 DEF Next, Step

-----------------------------------------------------------------------------
IInv ==
  /\ TypeOK /\ CountTracksMembers /\ DirectOK /\ SizeOK /\ DirectAdminsAppointed
  /\ RequestDecidedOnce /\ OneShown /\ MentionsFollowRead

LEMMA InitIInv == Init => IInv
<1> SUFFICES ASSUME Init PROVE IInv
  OBVIOUS
<1> USE MembershipAssumption
<1>1. TypeOK
  BY InitTypeOK
<1>2. Active = {Owner} /\ Joining = {}
  BY DEF Init, Active, Joining, NoRow, Idle
<1>3. Cardinality(Active) = 1 /\ Cardinality(Joining) = 0
  BY <1>2, FS_Singleton, FS_EmptySet
<1>4. CountTracksMembers /\ group.max = Limit /\ largest = Limit
  BY <1>3 DEF Init, CountTracksMembers
<1>5. SizeOK
  BY <1>1, <1>3, <1>4, Sizes DEF SizeOK
<1>6. DirectOK /\ RequestDecidedOnce /\ OneShown
  BY DEF Init, DirectOK, At, Idle, RequestDecidedOnce, OneShown
<1>7. DirectAdminsAppointed
  <2>1. member[Owner].role = "owner"
    BY DEF Init, NoRow
  <2> QED BY <1>2, <2>1 DEF DirectAdminsAppointed
<1>8. MentionsFollowRead
  BY DEF Init, MentionsFollowRead
<1> QED BY <1>1, <1>4, <1>5, <1>6, <1>7, <1>8 DEF IInv

LEMMA Invariance == Spec => []IInv
<1>1. IInv /\ [Next]_vars => IInv'
  BY NextTypeOK, NextCount, NextDirectOK, NextSizeOK, NextAdmins, NextDecided, NextOneShown, NextMentions
     DEF IInv
<1> QED BY <1>1, InitIInv, PTL DEF Spec

\* The types of the group's tables and of the requests at work; the owner
\* stays the owner, and nobody else becomes one.
THEOREM TypeCorrect == Spec => []TypeOK
BY Invariance, PTL DEF IInv

\* AddMember, MarkMemberStatus and ApproveJoinRequest: member_count is the
\* number of members unless the error of a recount was dropped.
THEOREM CountIsExact == Spec => []CountTracksMembers
BY Invariance, PTL DEF IInv

\* JoinGroup: however many joins pass the check of the size together, and
\* whatever the limit is changed to meanwhile, a group exceeds the largest
\* limit it had by less than one member per concurrent request.
THEOREM OvershootIsBounded == Spec => []OvershootBounded
<1>1. IInv => OvershootBounded
  <2> SUFFICES ASSUME IInv, group.mode = "direct", lost = 0
               PROVE  Cardinality(Active) =< largest + Cardinality(Process) - 1
    BY DEF OvershootBounded
  <2>1. TypeOK /\ Cardinality(Active) + Cardinality(Joining) =< largest + Cardinality(Process) - 1
    BY DEF IInv, SizeOK
  <2>2. largest \in Nat
    BY <2>1, TypeParts DEF Parts
  <2> QED BY <2>1, <2>2, Sizes
<1> QED BY <1>1, Invariance, PTL

\* SetMemberRole and AddMember: in a group that is joined directly nobody is
\* an admin by an appointment from before he left or was kicked.
THEOREM AdminsAreAppointed == Spec => []DirectAdminsAppointed
BY Invariance, PTL DEF IInv

\* ApproveJoinRequest and RejectJoinRequest: a request is decided once, and
\* its applicant told so, however many admins decide it together.
THEOREM DecidedOnce == Spec => []RequestDecidedOnce
BY Invariance, PTL DEF IInv

\* UpdateRead: a mention up to the stored read position is not unread.
THEOREM MentionsAreRead == Spec => []MentionsFollowRead
BY Invariance, PTL DEF IInv

\* CreateAnnouncement and UpdateAnnouncement: at most one announcement on
\* display is pinned, unless the error of an unpinning was dropped.
THEOREM PinnedIsUnique == Spec => []OnePinned
<1>1. IInv => OnePinned
  <2> SUFFICES ASSUME IInv, lost = 0
               PROVE  Cardinality({i \in DOMAIN board : board[i].status = "normal" /\ board[i].pinned}) =< 1
    BY DEF OnePinned
  <2> DEFINE S == {i \in DOMAIN board : board[i].status = "normal" /\ board[i].pinned}
  <2>1. \A i, j \in S : i = j
    BY DEF IInv, OneShown, Shown
  <2>2. CASE S = {}
    BY <2>2, FS_EmptySet
  <2>3. ASSUME NEW i \in S PROVE Cardinality(S) = 1
    <3>1. S = {i}
      BY <2>1, <2>3
    <3> HIDE DEF S
    <3> QED BY <3>1, FS_Singleton
  <2> QED BY <2>2, <2>3
<1> QED BY <1>1, Invariance, PTL
=============================================================================
