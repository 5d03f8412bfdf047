---------------------------- MODULE PagingWalks -----------------------------
(***************************************************************************)
(* A reader who goes through a list page after page, by the cursor each    *)
(* page gives him, while rows come, go and change between the pages.       *)
(***************************************************************************)
EXTENDS Paging, Sequences

CONSTANTS
  Kind,        \* the walks: of Kinds
  Id,          \* row ids, or sequences
  Group, Time, \* of the messages that are searched
  PageLimit,   \* rows per page
  MaxChanges   \* bound: changes of the table during the walk

Kinds == {"fanout", "members", "groups", "requests", "mentions", "announcements", "messages", "search"}

ASSUME PagingAssumption ==
  /\ Kind \subseteq Kinds
  /\ Id \subseteq Nat \ {0} /\ IsFiniteSet(Id)
  /\ Group \subseteq Nat \ {0} /\ IsFiniteSet(Group)
  /\ Time \subseteq Nat \ {0} /\ IsFiniteSet(Time)
  /\ PageLimit \in Nat \ {0} /\ MaxChanges \in Nat

VARIABLES
  kind,           \* of the walk
  state,          \* of each row, "absent" if there is none
  at,             \* the time of each message that is searched
  joined, asked,  \* the reader's scopes, and the group or status he asks for
  cursor, done,   \* what he asks for next
  pages,          \* what he has got
  stayed,         \* history: rows that have been in the list all the time
  changes

scope == <<kind, at, joined, asked>>
walkVars == <<state, scope, cursor, done, pages, stayed, changes>>

Doc == Group \X (1..2)
Keys == IF kind = "search" THEN Doc ELSE Id

\* What may become of a row: members leave and come back with the row they
\* had, a group is dismissed, requests are decided, mentions read, messages
\* only added, documents written again.
Becomes(s) ==
  {n \in {"normal", "left", "pending", "approved", "unread", "read", "pinned", "deleted", "recalled"} :
     \/ kind \in {"fanout", "members", "groups"} /\ n \in {"normal", "left"}
     \/ kind = "requests" /\ n = (IF s = "absent" THEN "pending" ELSE "approved")
     \/ kind = "mentions" /\ n = (IF s = "absent" THEN "unread" ELSE "read")
     \/ kind = "announcements" /\ s # "deleted" /\ n \in {"normal", "pinned", "deleted"}
     \/ kind = "messages" /\ n = "normal"
     \/ kind = "search" /\ n \in {"normal", "recalled"}}

InList(k) ==
  \/ kind \in {"fanout", "members", "groups", "messages"} /\ state[k] = "normal"
  \/ kind = "requests" /\ state[k] # "absent" /\ asked \in {"", state[k]}
  \/ kind = "mentions" /\ (state[k] = "unread" \/ (state[k] = "read" /\ asked = ""))
  \/ kind = "announcements" /\ state[k] \in {"normal", "pinned"}
  \/ kind = "search" /\ state[k] = "normal" /\ k[1] \in DOMAIN joined /\ asked \in {0, k[1]} /\ k[2] >= joined[k[1]]

Normal == {k \in Keys : state[k] = "normal"}

WalkInit ==
  /\ kind \in Kind
  /\ state \in [Keys -> {"absent"} \union Becomes("absent")]
  /\ Cardinality({k \in Keys : state[k] = "pinned"}) =< 1
  /\ at \in (IF kind = "search" THEN [Doc -> Time] ELSE {<<>>})
  /\ joined \in (IF kind = "search" THEN UNION {[groups -> {0, 2}] : groups \in SUBSET Group} ELSE {<<>>})
  /\ \/ kind = "search" /\ asked \in Group \union {0}
     \/ kind = "requests" /\ asked \in {"", "pending"}
     \/ kind = "mentions" /\ asked \in {"", "unread"}
     \/ kind \notin {"search", "requests", "mentions"} /\ asked = ""
  /\ cursor = (IF kind = "search" THEN NoCursor ELSE 0)
  /\ done = FALSE /\ pages = <<>> /\ changes = 0
  /\ stayed = {k \in Keys : InList(k)}

\* A row changes; what is pinned unpins the others (see Membership).
Change(k, s) ==
  /\ ~done /\ changes < MaxChanges /\ changes' = changes + 1
  /\ s # state[k] /\ UNCHANGED <<scope, cursor, done, pages>>
  /\ state' = [q \in Keys |-> IF q = k THEN s ELSE IF s = "pinned" /\ state[q] = "pinned" THEN "normal" ELSE state[q]]
  /\ stayed' = {q \in stayed : InList(q)'}

-----------------------------------------------------------------------------
\* A page is shown, and its cursor taken for the next; 'last' is the cursor
\* that says there is none.
Show(p, last) ==
  /\ ~done
  /\ pages' = Append(pages, p.items)
  /\ cursor' = p.next /\ done' = (p.next = last)
  /\ UNCHANGED <<scope, state, stayed, changes>>

\* The loop of fanout and of listOwnerAndAdminIDs' callers.
Fanout == kind = "fanout" /\ Show(ListActiveMemberIDs(Normal, cursor, PageLimit), 0)

MembersPage == kind = "members" /\ Show(ListMembers(Normal, cursor, PageLimit), 0)
GroupsPage == kind = "groups" /\ Show(ListGroupsForUser(state, cursor, PageLimit), 0)
RequestsPage == kind = "requests" /\ Show(ListJoinRequests(state, asked, cursor, PageLimit), 0)
MentionsPage == kind = "mentions" /\ Show(ListMentions(state, asked # "", cursor, PageLimit), 0)

AnnouncementsPage ==
  kind = "announcements" /\
    Show(ListAnnouncements({[id |-> k, pinned |-> state[k] = "pinned"] : k \in {i \in Id : InList(i)}}, cursor, PageLimit), 0)

\* Mutant: goes on before the newest message on the screen.
OldestOnScreenNewest(S) == CHOOSE s \in S : \A q \in S : q =< s

\* msgs[0].sequence
OldestOnScreen(S) == CHOOSE s \in S : \A q \in S : s =< q

\* loadMore, until nothing comes.
LoadMore ==
  LET items == ListMessages(Normal, cursor, 0, PageLimit) IN
  kind = "messages" /\ Show([items |-> items, next |-> IF items = {} THEN 0 ELSE OldestOnScreen(items)], 0)

SearchPage ==
  LET docs == {[group |-> k[1], sequence |-> k[2], at |-> at[k], status |-> state[k]] : k \in Doc} IN
  kind = "search" /\ Show(SearchMessages(docs, joined, asked, cursor, PageLimit), NoCursor)

WalkNext ==
  \/ \E k \in Keys : \E s \in Becomes(state[k]) : Change(k, s)
  \/ Fanout \/ MembersPage \/ GroupsPage \/ RequestsPage \/ MentionsPage
  \/ AnnouncementsPage \/ LoadMore \/ SearchPage

WalkSpec == WalkInit /\ [][WalkNext]_walkVars

-----------------------------------------------------------------------------
Key(item) ==
  IF kind = "announcements" THEN item.id
  ELSE IF kind = "search" THEN <<item[3], item[2]>> ELSE item

Page(i) == {Key(item) : item \in pages[i]}
Listed == UNION {Page(i) : i \in DOMAIN pages}

\* The pinned announcement is shown on the first page and in its turn.
NothingTwice ==
  \A i, j \in DOMAIN pages : i < j =>
    \A a \in pages[i], b \in pages[j] : Key(a) = Key(b) => kind = "announcements" /\ a.pinned

\* The types; and a walk reads no more pages than its rows fill, the last and
\* one per change of the table excepted, so that it ends when the changes do.
WalkTypeOK ==
  /\ kind \in Kinds /\ DOMAIN state = Keys /\ stayed \subseteq Keys /\ Listed \subseteq Keys
  /\ done \in BOOLEAN /\ changes \in 0..MaxChanges
  /\ (Len(pages) - 2 - changes) * PageLimit =< Cardinality(Keys)

\* Two messages a search cannot tell apart: of two groups, with one time and
\* sequence.
Tied == kind = "search" /\ \E k, q \in Doc : k # q /\ at[k] = at[q] /\ k[2] = q[2]

\* Three walks show everything that was in their list since they began, and
\* nothing twice: fanout reaches every member who stays one, whoever joins,
\* leaves or comes back with his old row meanwhile; going back through the
\* history with loadMore misses nothing, although lower sequences are still being
\* committed; a search returns each message that may be seen, unless two tie
\* (then a page boundary between them loses one).
WalkIsComplete ==
  kind \in {"fanout", "messages", "search"} =>
    NothingTwice /\ (done /\ ~Tied => stayed \subseteq Listed)

\* The lists whose cursor is the row left out lose at most that row per page
\* boundary, and show nothing twice but what is pinned, whatever is decided,
\* pinned, deleted or dismissed meanwhile.
ListLosesOnePerPage ==
  kind \in {"members", "groups", "requests", "mentions", "announcements"} =>
    NothingTwice /\ (done => Cardinality(stayed \ Listed) =< Len(pages) - 1)
=============================================================================
