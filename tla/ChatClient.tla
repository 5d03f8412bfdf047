----------------------------- MODULE ChatClient -----------------------------
(***************************************************************************)
(* The browser's messages of one group: wsClient.ts, useStore.ts and the   *)
(* loading of ChatPage.tsx.                                                *)
(*                                                                         *)
(* The browser runs one callback at a time; between two of them pages are  *)
(* on their way, and what they hold may be old when they are merged.  The  *)
(* server is what this browser sees of it: messages in sequence, a send    *)
(* that is stored once, pushes of anything stored, lost, repeated or out   *)
(* of order.                                                               *)
(***************************************************************************)
EXTENDS Paging, Sequences

CONSTANTS
  Key,        \* clientMessageIds of this user
  Nobody,     \* sender of the messages of others
  PageSize,   \* messages per page
  MaxMessages,\* bound: messages of the group
  MaxRecalls, \* bound: messages recalled
  MaxTurns,   \* bound: sockets that close, pulls that fail, pages opened
  MaxPulls    \* bound: pullAfter calls under way

ASSUME ClientAssumption ==
  /\ Nobody \notin Key
  /\ PageSize \in Nat \ {0} /\ MaxMessages \in Nat \ {0} /\ MaxRecalls \in Nat /\ MaxTurns \in Nat /\ MaxPulls \in Nat

VARIABLES
  stored,      \* the group on the server: [own, status] by sequence
  sent, acks,  \* requests and answers on the socket, by clientMessageId
  open, turns, \* the socket; closings, failed pulls and pages so far
  shown,       \* messagesByGroup: status of the entry with a sequence
  draft,       \* status of the entry that has only a clientMessageId
  timer,       \* armed ACK timers
  last,        \* lastReceived
  pulls,       \* pullAfter calls: [call, after, read, page]
  load,        \* the page ChatPage waits for: [kind, page]
  jumped,      \* the window around a search hit is displayed
  base,        \* history: the messages above are meant to be on the screen
  due,         \* history: last sequence stored before the last reconnect
  excused      \* history: what has made a hole that is not looked for

server == <<stored, sent, acks>>
store == <<shown, draft>>
history == <<base, due, excused>>
vars == <<server, open, turns, store, timer, last, pulls, load, jumped, history>>

Seqs == 1..MaxMessages
Highest(S) == CHOOSE s \in S \union {0} : \A q \in S : q =< s
Lowest(S) == CHOOSE s \in S : \A q \in S : s =< q
OnScreen == {s \in Seqs : shown[s] # "absent"}
Missing(S) == S \ OnScreen
Turn == turns < MaxTurns /\ turns' = turns + 1
NoLoad == [kind |-> "none", page |-> <<>>]

\* GET messages, on the server: rows, with the status of the moment.
Page(rows) == [s \in rows |-> stored[s].status]

\* The page opens, and the socket with it.
Init ==
  /\ \E n \in 0..1 : stored = [s \in 1..n |-> [own |-> Nobody, status |-> "success"]]
  /\ sent = {} /\ acks = {} /\ open = FALSE /\ turns = 0
  /\ shown = [s \in Seqs |-> "absent"] /\ draft = [k \in Key |-> "unused"]
  /\ timer = {} /\ last = 0 /\ pulls = {} /\ load = [kind |-> "open", page |-> Page(DOMAIN stored)] /\ jumped = FALSE
  /\ base = MaxMessages /\ due = 0 /\ excused = {}

-----------------------------------------------------------------------------
\* The server, as this browser sees it: others' messages, his own, recalls.
StoreMessage(o) ==
  /\ Len(stored) < MaxMessages
  /\ stored' = Append(stored, [own |-> o, status |-> "success"])

OthersSend ==
  /\ StoreMessage(Nobody)
  /\ UNCHANGED <<sent, acks, open, turns, store, timer, last, pulls, load, jumped, history>>

StoredAs(k) == {s \in DOMAIN stored : stored[s].own = k}

HandleSend(k) ==
  /\ k \in sent /\ sent' = sent \ {k}
  /\ IF StoredAs(k) = {} THEN StoreMessage(k) ELSE UNCHANGED stored
  /\ acks' = IF open THEN acks \union {k} ELSE acks
  /\ UNCHANGED <<open, turns, store, timer, last, pulls, load, jumped, history>>

RecallStored(s) ==
  /\ Cardinality({r \in DOMAIN stored : stored[r].status = "recalled"}) < MaxRecalls
  /\ stored' = [stored EXCEPT ![s].status = "recalled"]
  /\ UNCHANGED <<sent, acks, open, turns, store, timer, last, pulls, load, jumped, history>>

-----------------------------------------------------------------------------
\* ackMessage: the entries of a clientMessageId take a status; with a
\* messageId in the patch they become one entry.
AckMessage(k, status, known) ==
  LET mine == StoredAs(k) \intersect OnScreen
      there == mine # {} \/ draft[k] \in {"sending", "failed"} IN
  /\ draft' = [draft EXCEPT ![k] = IF @ \notin {"sending", "failed"} THEN @ ELSE IF known THEN "merged" ELSE status]
  /\ shown' = [s \in Seqs |-> IF s \in mine \/ (known /\ there /\ s \in StoredAs(k)) THEN status ELSE shown[s]]

Transmit(k) == sent' = IF open THEN sent \union {k} ELSE sent

\* sendText: a socket that is closed turns the request, the timer is armed.
SendText(k) ==
  /\ draft[k] = "unused"
  /\ draft' = [draft EXCEPT ![k] = "sending"]
  /\ Transmit(k) /\ timer' = timer \union {k}
  /\ UNCHANGED <<stored, acks, open, turns, shown, last, pulls, load, jumped, history>>

\* The first entry of the clientMessageId: the one with a sequence.
Failed(k) ==
  LET mine == StoredAs(k) \intersect OnScreen IN
  IF mine # {} THEN \E s \in mine : shown[s] = "failed" ELSE draft[k] = "failed"

\* Mutant: the timer is not armed again.
RetryWithoutTimer(k) ==
  /\ Failed(k) /\ AckMessage(k, "sending", FALSE) /\ Transmit(k)
  /\ UNCHANGED <<stored, acks, open, turns, timer, last, pulls, load, jumped, history>>

Retry(k) ==
  /\ Failed(k) /\ AckMessage(k, "sending", FALSE) /\ Transmit(k)
  /\ timer' = timer \union {k}
  /\ UNCHANGED <<stored, acks, open, turns, last, pulls, load, jumped, history>>

AckTimeout(k) ==
  /\ k \in timer /\ timer' = timer \ {k}
  /\ AckMessage(k, "failed", FALSE)
  /\ UNCHANGED <<server, open, turns, last, pulls, load, jumped, history>>

\* The ack takes the status whatever the entry had, recalled included.
HandleAck(k) ==
  /\ k \in acks /\ acks' = acks \ {k}
  /\ timer' = timer \ {k}
  /\ AckMessage(k, "success", TRUE)
  /\ UNCHANGED <<stored, sent, open, turns, last, pulls, load, jumped, history>>

-----------------------------------------------------------------------------
\* One more pullAfter; calls that ask for the same page are told apart.
Pull(n) ==
  /\ Cardinality(pulls) < MaxPulls
  /\ \E c \in 1..MaxPulls :
    /\ \A p \in pulls : p.after = n => p.call # c
    /\ \A d \in 1..c - 1 : \E p \in pulls : p.after = n /\ p.call = d
    /\ pulls' = pulls \union {[call |-> c, after |-> n, read |-> FALSE, page |-> <<>>]}

\* Mutant: one missing message is not noticed.
GapWide(s) == last # 0 /\ s > last + 2

Gap(s) == last # 0 /\ s > last + 1

\* group_message_receive: a gap is pulled at once, and the message is shown
\* with the status it had when it was sent.
Receive(s) ==
  /\ open /\ s \in DOMAIN stored
  /\ IF Gap(s) THEN Pull(last) ELSE UNCHANGED pulls
  /\ last' = IF s > last THEN s ELSE last
  /\ shown' = [shown EXCEPT ![s] = "success"]
  /\ excused' = IF last = 0 /\ s > base + 1 THEN excused \union {"first push"} ELSE excused
  /\ UNCHANGED <<server, open, turns, draft, timer, load, jumped, base, due>>

\* group_message_recalled marks what is there; the answer to one's own recall
\* does the same.
RecallMessage(s) ==
  /\ s \in DOMAIN stored /\ stored[s].status = "recalled" /\ shown[s] # "absent"
  /\ shown' = [shown EXCEPT ![s] = "recalled"]
  /\ UNCHANGED <<server, open, turns, draft, timer, last, pulls, load, jumped, history>>

Answer(p) ==
  /\ p \in pulls /\ ~p.read
  /\ pulls' = (pulls \ {p}) \union
       {[p EXCEPT !.read = TRUE, !.page = Page(Taken({s \in DOMAIN stored : s > p.after}, PageSize))]}
  /\ UNCHANGED <<server, open, turns, store, timer, last, load, jumped, history>>

\* mergeMessages: sortAndDedup lets the page override what is there.
MergeMessages(page) == [s \in Seqs |-> IF s \in DOMAIN page THEN page[s] ELSE shown[s]]

\* Mutant: a full page is taken for granted.
PullAfterFull(p) ==
  /\ p \in pulls /\ p.read /\ pulls' = pulls \ {p}
  /\ shown' = MergeMessages(p.page)
  /\ last' = p.after + PageSize
  /\ UNCHANGED <<server, open, turns, draft, timer, load, jumped, history>>

\* pullAfter goes on: lastReceived becomes what the page says, even if less.
\* If it was set back below p.after by another call, it jumps over what that
\* one's page did not reach.
PullAfter(p) ==
  /\ p \in pulls /\ p.read /\ pulls' = pulls \ {p}
  /\ shown' = MergeMessages(p.page)
  /\ last' = Highest(DOMAIN p.page \union {p.after})
  /\ excused' = IF ~jumped /\ Missing(base + 1..p.after) \ (1..last) # {}
                THEN excused \union {"two pulls"} ELSE excused
  /\ UNCHANGED <<server, open, turns, draft, timer, load, jumped, base, due>>

\* A pull that fails is not made again.
PullFails(p) ==
  /\ p \in pulls /\ pulls' = pulls \ {p} /\ Turn
  /\ excused' = excused \union {"pull failed"}
  /\ UNCHANGED <<server, open, store, timer, last, load, jumped, base, due>>

-----------------------------------------------------------------------------
\* onclose and scheduleReconnect; what is on the socket may be lost.
ScheduleReconnect ==
  /\ open /\ Turn
  /\ open' = FALSE /\ acks' = {}
  /\ sent' \in {sent, {}}
  /\ UNCHANGED <<stored, store, timer, last, pulls, load, jumped, history>>

\* onopen: reconnectPull starts from the highest sequence on the screen,
\* an acknowledged message of one's own included.
Connect ==
  /\ ~open /\ open' = TRUE
  /\ LET top == Highest(OnScreen) IN
     /\ IF top # 0 THEN Pull(top) ELSE UNCHANGED pulls
     /\ due' = IF top # 0 THEN Len(stored) ELSE due
     /\ excused' = IF Missing(base + 1..top) # {} THEN excused \union {"reconnect"} ELSE excused
  /\ UNCHANGED <<server, turns, store, timer, last, load, jumped, base>>

-----------------------------------------------------------------------------
\* openGroup, loadMore, jumpTo and backToLatest ask for a page and wait for
\* it: it is as the server read it, ListMessages or ListMessagesAround.
Load(kind, rows) ==
  /\ load.kind = "none" /\ load' = [kind |-> kind, page |-> Page(rows)]
  /\ UNCHANGED <<server, open, store, timer, last, pulls, jumped, history>>

OpenGroup == Turn /\ Load("open", ListMessages(DOMAIN stored, 0, 0, PageSize))
LoadMore ==
  ~jumped /\ OnScreen # {} /\ Turn /\ Load("more", ListMessages(DOMAIN stored, Lowest(OnScreen), 0, PageSize))
JumpTo(s) == s \in DOMAIN stored /\ Turn /\ Load("jump", {r \in DOMAIN stored : r \in s - 1..s + 1})
BackToLatest == jumped /\ UNCHANGED turns /\ Load("latest", ListMessages(DOMAIN stored, 0, 0, PageSize))

\* mergeMessages for loadMore.  A push from below the window has become the
\* oldest message on the screen: the page is older than that one.
ShowMore ==
  /\ load.kind = "more" /\ load' = NoLoad
  /\ shown' = MergeMessages(load.page)
  /\ base' = IF DOMAIN load.page = {} THEN base ELSE Lowest(DOMAIN load.page \union {base + 1}) - 1
  /\ excused' = IF DOMAIN load.page # {} /\ Missing(Highest(DOMAIN load.page) + 1..base) # {}
                THEN excused \union {"late push"} ELSE excused
  /\ UNCHANGED <<server, open, turns, draft, timer, last, pulls, jumped, due>>

\* setMessages for the others: what arrived since the page was read is gone
\* from the screen, and so are the messages not sent yet.  openGroup seeds
\* lastReceived.
SetMessages ==
  /\ load.kind \in {"open", "jump", "latest"} /\ load' = NoLoad
  /\ shown' = [s \in Seqs |-> IF s \in DOMAIN load.page THEN load.page[s] ELSE "absent"]
  /\ draft' = [k \in Key |-> IF draft[k] = "unused" THEN "unused" ELSE "merged"]
  /\ last' = IF load.kind = "open" THEN Highest(DOMAIN load.page \union {last}) ELSE last
  /\ jumped' = (load.kind = "jump")
  /\ base' = IF DOMAIN load.page = {} THEN 0 ELSE Lowest(DOMAIN load.page) - 1
  /\ excused' = IF load.kind # "jump" /\ Highest(OnScreen \union {last}) > Highest(DOMAIN load.page)
                THEN excused \union {"replaced"} ELSE excused
  /\ UNCHANGED <<server, open, turns, timer, pulls, due>>

-----------------------------------------------------------------------------
Next ==
  \/ OthersSend
  \/ \E s \in DOMAIN stored : RecallStored(s)
  \/ \E k \in Key : HandleSend(k) \/ SendText(k) \/ Retry(k) \/ AckTimeout(k) \/ HandleAck(k)
  \/ \E s \in Seqs : Receive(s) \/ RecallMessage(s) \/ JumpTo(s)
  \/ \E p \in pulls : Answer(p) \/ PullAfter(p) \/ PullFails(p)
  \/ ScheduleReconnect \/ Connect
  \/ OpenGroup \/ LoadMore \/ BackToLatest \/ ShowMore \/ SetMessages

\* Timers run out.
Spec == Init /\ [][Next]_vars /\ \A k \in Key : WF_vars(AckTimeout(k))

-----------------------------------------------------------------------------
Status == {"success", "recalled", "sending", "failed"}
TypeOK ==
  /\ Len(stored) =< MaxMessages /\ stored \in Seq([own : Key \union {Nobody}, status : {"success", "recalled"}])
  /\ \A k \in Key : Cardinality(StoredAs(k)) =< 1
  /\ sent \in SUBSET Key /\ acks \in SUBSET Key /\ open \in BOOLEAN /\ turns \in 0..MaxTurns
  /\ shown \in [Seqs -> Status \union {"absent"}] /\ OnScreen \subseteq DOMAIN stored
  /\ draft \in [Key -> {"unused", "sending", "failed", "merged"}] /\ timer \in SUBSET Key
  /\ last \in 0..Len(stored) /\ \A p, q \in pulls : p.after = q.after /\ p.call = q.call => p = q
  /\ \A p \in pulls : p.call \in 1..MaxPulls /\ p.after \in DOMAIN stored /\ DOMAIN p.page \subseteq DOMAIN stored
  /\ load.kind \in {"none", "open", "more", "jump", "latest"} /\ jumped \in BOOLEAN
  /\ base \in 0..MaxMessages /\ due \in 0..Len(stored)
  /\ excused \in SUBSET {"first push", "pull failed", "reconnect", "replaced", "two pulls", "late push"}

\* When no page is on its way, the screen shows every message from the oldest
\* loaded to the last received, whatever pushes were lost, repeated or late
\* and whichever pages overlapped, if no hole was made by one of the six
\* causes the code does not look for.
NoHole ==
  (excused = {} /\ pulls = {} /\ ~jumped) => Missing(base + 1..last) = {}

\* After a reconnect, and its pull, the messages of before are on the screen
\* (the product document promises that missed messages are pulled).
ReconnectRepairs ==
  (open /\ pulls = {} /\ ~jumped /\ excused \subseteq {"reconnect"}) => Missing(base + 1..due) = {}

\* A message does not stay "sending": it is acknowledged, fails, or is
\* replaced, after any number of retries on a socket that comes and goes.
SendSettles ==
  \A k \in Key :
    (draft[k] = "sending" \/ \E s \in StoredAs(k) : shown[s] = "sending")
      ~> (draft[k] # "sending" /\ \A s \in StoredAs(k) : shown[s] # "sending")
=============================================================================
