------------------------------- MODULE Paging -------------------------------
(***************************************************************************)
(* The list queries of repo.go and the search pages of result.go, as       *)
(* functions from the rows that match when a page is read, a cursor and a  *)
(* limit to the rows of the page and the cursor of the next one.  0 is the *)
(* cursor of the first page and the answer that nothing is left.           *)
(***************************************************************************)
EXTENDS Integers, FiniteSets

\* ORDER BY id ASC: how many rows come before r.
Rank(rows, r) == Cardinality({q \in rows : q < r})

\* The rows of ORDER BY id LIMIT limit, and the one LIMIT limit+1 adds.
Taken(rows, limit) == {r \in rows : Rank(rows, r) < limit}
Extra(rows, limit) == {r \in rows : Rank(rows, r) = limit}

\* Mutant: the cursor is the last row there is.
NextOfLeftOutLast(rows, limit) ==
  IF Extra(rows, limit) = {} THEN 0 ELSE CHOOSE r \in rows : Rank(rows, r) = Cardinality(rows) - 1

\* The one row too many that LIMIT limit+1 gives (and a mutant of the next).
NextOfLeftOut(rows, limit) ==
  IF Extra(rows, limit) = {} THEN 0 ELSE CHOOSE r \in rows : Rank(rows, r) = limit

\* paginateActiveMemberIDs: with a row too many, the last row taken is next.
NextOfTaken(rows, limit) ==
  IF Extra(rows, limit) = {} THEN 0 ELSE CHOOSE r \in rows : Rank(rows, r) = limit - 1

\* ListActiveMemberIDs, the pages a fan-out walks.
ListActiveMemberIDs(rows, cursor, limit) ==
  LET left == {r \in rows : r > cursor} IN
  [items |-> Taken(left, limit), next |-> NextOfTaken(left, limit)]

\* ListMembers, of a role if one is asked for: the row left out becomes the
\* cursor, and the next page reads id > cursor.
ListMembers(rows, cursor, limit) ==
  LET left == {r \in rows : r > cursor} IN
  [items |-> Taken(left, limit), next |-> NextOfLeftOut(left, limit)]

\* The others have that form as well: the groups of a user that are not
\* dismissed, by the id of his member row,
ListGroupsForUser(state, cursor, limit) ==
  ListMembers({r \in DOMAIN state : state[r] = "normal"}, cursor, limit)

\* the join requests of a status, or all,
ListJoinRequests(state, status, cursor, limit) ==
  ListMembers({r \in DOMAIN state : state[r] # "absent" /\ status \in {"", state[r]}}, cursor, limit)

\* and the mentions of a user, or those he has not read.
ListMentions(state, unreadOnly, cursor, limit) ==
  ListMembers({r \in DOMAIN state : state[r] = "unread" \/ (state[r] = "read" /\ ~unreadOnly)}, cursor, limit)

\* ListMessages after a sequence, and before one (newest first): 'next' is the
\* row left out here as well; the browser goes on from the rows it has.
ListMessages(rows, before, after, limit) ==
  LET newest(s) == {r \in s : Cardinality({q \in s : q > r}) < limit} IN
  IF after > 0 THEN Taken({r \in rows : r > after}, limit)
  ELSE IF before > 0 THEN newest({r \in rows : r < before})
  ELSE newest(rows)

\* Announcements are shown pinned first, then newest first; the cursor is the
\* row left out here as well, and it knows nothing of the pinned one.
ListAnnouncements(rows, cursor, limit) ==
  LET left == {a \in rows : cursor > 0 => a.id < cursor}
      before(a, b) == (a.pinned /\ ~b.pinned) \/ (a.pinned = b.pinned /\ a.id > b.id)
      rank(a) == Cardinality({b \in left : before(b, a)}) IN
  [items |-> {a \in left : rank(a) < limit},
   next |-> IF \E a \in left : rank(a) = limit THEN (CHOOSE a \in left : rank(a) = limit).id ELSE 0]

\* EffectiveScopes: all groups of the user, or the one asked for.
EffectiveScopes(joined, asked) == IF asked = 0 THEN DOMAIN joined ELSE DOMAIN joined \intersect {asked}

\* BuildQuery's filter: normal messages in scope, from join_sequence on (the
\* message with that sequence is the last one before the join).  A hit is
\* its sort values and its group.
BuildQuery(docs, joined, groups) ==
  {<<d.at, d.sequence, d.group>> :
     d \in {e \in docs : e.status = "normal" /\ e.group \in groups /\ e.sequence >= joined[e.group]}}

\* Newest first by (created_at, sequence).
After(hit, cursor) == hit[1] < cursor[1] \/ (hit[1] = cursor[1] /\ hit[2] < cursor[2])

\* Elasticsearch orders hits that tie in some way of its own.
Below(hit, other) == After(hit, other) \/ (hit[1] = other[1] /\ hit[2] = other[2] /\ hit[3] > other[3])

NoCursor == <<0, 0, 0>>

\* ParseResponse: with a hit too many, the last one kept is the cursor.
ParseResponse(left, size) ==
  LET rank(h) == Cardinality({g \in left : Below(h, g)}) IN
  [items |-> {h \in left : rank(h) < size},
   next |-> IF \E h \in left : rank(h) = size THEN CHOOSE h \in left : rank(h) = size - 1 ELSE NoCursor]

\* SearchMessages: nothing for a group the user is not in.
SearchMessages(docs, joined, asked, cursor, size) ==
  LET hits == BuildQuery(docs, joined, EffectiveScopes(joined, asked)) IN
  ParseResponse(IF cursor = NoCursor THEN hits ELSE {h \in hits : After(h, cursor)}, size)
=============================================================================
