------------------------- MODULE ChatClient_proofs --------------------------
(***************************************************************************)
(* Proofs about ChatClient for any number of messages, sends, calls under  *)
(* way and any size of page.                                               *)
(***************************************************************************)
EXTENDS ChatClient, TLAPS, FiniteSetTheorems

LEMMA LeastNumber ==
  ASSUME NEW S \in SUBSET Nat, S # {}
  PROVE  \E i \in S : \A j \in S : i =< j
<1>1. \E i \in S : \A j \in S : ~ (<<j, i>> \in OpToRel(<, Nat))
  BY NatLessThanWellFounded, WFMin
<1>2. PICK i \in S : \A j \in S : ~ (<<j, i>> \in OpToRel(<, Nat))
  BY <1>1
<1>3. ASSUME NEW j \in S, j < i PROVE FALSE
  <2>1. <<j, i>> \in {ss \in Nat \X Nat : ss[1] < ss[2]}
    BY <1>3
  <2> QED BY <1>2, <2>1 DEF OpToRel
<1> QED BY <1>3

\* The largest of a few sequences, or 0, and the smallest of some.
LEMMA HighestOf ==
  ASSUME NEW n \in Nat, NEW S \in SUBSET (0..n)
  PROVE  Highest(S) \in S \union {0} /\ Highest(S) \in 0..n /\ \A q \in S : q =< Highest(S)
<1> DEFINE U == {u \in 0..n : \A q \in S : q =< u}
<1>1. n \in U /\ U \in SUBSET Nat
  OBVIOUS
<1>2. PICK u \in U : \A v \in U : u =< v
  BY <1>1, LeastNumber
<1>3. u \in S \union {0}
  <2> SUFFICES ASSUME u \notin S, u # 0 PROVE FALSE
    OBVIOUS
  <2>1. u - 1 \in 0..n
    BY <1>2
  <2>2. \A q \in S : q \in Int /\ q =< u - 1
    BY <1>2
  <2>3. u - 1 \in U
    BY <2>1, <2>2
  <2> QED BY <1>2, <2>3
<1>4. \E s \in S \union {0} : \A q \in S : q =< s
  BY <1>2, <1>3
<1>5. Highest(S) \in S \union {0} /\ \A q \in S : q =< Highest(S)
  BY <1>4 DEF Highest
<1>6. 0 \in 0..n
  OBVIOUS
<1> QED BY <1>5, <1>6

LEMMA LowestOf ==
  ASSUME NEW S \in SUBSET Nat, S # {}
  PROVE  Lowest(S) \in S /\ \A q \in S : Lowest(S) =< q
BY LeastNumber DEF Lowest

-----------------------------------------------------------------------------
\* Pages are runs of consecutive sequences.
Run(S) == \E l \in Nat, h \in Nat : S = l..h

LEMMA IntervalSize ==
  ASSUME NEW a \in Int, NEW b \in Int
  PROVE  IsFiniteSet(a..b) /\ Cardinality(a..b) = IF a > b THEN 0 ELSE b - a + 1
BY FS_Interval

\* The page after a sequence, of messages 1..n: the next ones, without a hole.
LEMMA PageAfter ==
  ASSUME NEW n \in Nat, NEW a \in Nat, NEW k \in Nat, NEW T,
         \A s : s \in T <=> s \in 1..n /\ s > a
  PROVE  \E h \in Nat : Taken(T, k) = a + 1..h
<1>1. \A r \in T : Rank(T, r) = r - a - 1
  <2> SUFFICES ASSUME NEW r \in T PROVE Cardinality({q \in T : q < r}) = r - a - 1
    BY DEF Rank
  <2>1. {q \in T : q < r} = a + 1..r - 1
    OBVIOUS
  <2>2. PICK x \in Int : x = a + 1
    OBVIOUS
  <2>3. PICK y \in Int : y = r - 1
    OBVIOUS
  <2>4. Cardinality(x..y) = IF x > y THEN 0 ELSE y - x + 1
    BY IntervalSize
  <2>5. Cardinality({q \in T : q < r}) = IF x > y THEN 0 ELSE y - x + 1
    BY <2>1, <2>2, <2>3, <2>4
  <2>6. r \in Nat /\ r >= a + 1
    OBVIOUS
  <2> QED BY <2>2, <2>3, <2>5, <2>6
<1>2. PICK h \in Nat : h = IF n < a + k THEN IF n < a THEN a ELSE n ELSE a + k
  OBVIOUS
<1>3. \A r \in T : Rank(T, r) < k <=> r =< a + k
  BY <1>1
<1>4. ASSUME NEW r PROVE r \in Taken(T, k) <=> r \in a + 1..h
  <2>1. r \in Taken(T, k) <=> r \in T /\ r =< a + k
    BY <1>3 DEF Taken
  <2> QED BY <1>2, <2>1
<1> QED BY <1>4

\* The newest messages of 1..n are the last ones.
LEMMA NewestOf ==
  ASSUME NEW n \in Nat, NEW k \in Nat
  PROVE  \E l \in Nat : {r \in 1..n : Cardinality({q \in 1..n : q > r}) < k} = l..n
<1> DEFINE T == 1..n
<1>1. ASSUME NEW r \in T PROVE Cardinality({q \in T : q > r}) = n - r
  <2>1. {q \in T : q > r} = r + 1..n
    OBVIOUS
  <2>2. PICK x \in Int : x = r + 1
    OBVIOUS
  <2>3. Cardinality(x..n) = IF x > n THEN 0 ELSE n - x + 1
    BY IntervalSize
  <2>4. Cardinality({q \in T : q > r}) = IF x > n THEN 0 ELSE n - x + 1
    BY <2>1, <2>2, <2>3
  <2>5. r \in Nat /\ r =< n
    OBVIOUS
  <2> HIDE DEF T
  <2> QED BY <2>2, <2>4, <2>5
<1>2. PICK l \in Nat : (n < k /\ l = 1) \/ (n >= k /\ l = n - k + 1)
  <2>1. CASE n < k
    BY <2>1
  <2>2. CASE n >= k
    <3>1. n - k + 1 \in Nat
      BY <2>2
    <3> QED BY <2>2, <3>1
  <2> QED BY <2>1, <2>2
<1>3. \A r \in T : Cardinality({q \in T : q > r}) < k <=> n - r < k
  BY <1>1
<1>4. ASSUME NEW r PROVE r \in {x \in T : Cardinality({q \in T : q > x}) < k} <=> r \in l..n
  <2>1. r \in {x \in T : Cardinality({q \in T : q > x}) < k} <=> r \in T /\ n - r < k
    BY <1>3
  <2> QED BY <1>2, <2>1
<1> QED BY <1>4

-----------------------------------------------------------------------------
Message == [own : Key \union {Nobody}, status : {"success", "recalled"}]

\* A page: statuses of messages that are stored, a run of them.
PageOK(page) ==
  /\ page \in [DOMAIN page -> {"success", "recalled"}]
  /\ DOMAIN page \subseteq DOMAIN stored
  /\ Run(DOMAIN page)

\* What a call under way has asked for: the messages right after a sequence.
PullOK(p) ==
  /\ p = [call |-> p.call, after |-> p.after, read |-> p.read, page |-> p.page]
  /\ p.after \in DOMAIN stored
  /\ PageOK(p.page)
  /\ \E h \in Nat : DOMAIN p.page = p.after + 1..h

LoadOK ==
  /\ load = [kind |-> load.kind, page |-> load.page]
  /\ PageOK(load.page)

PagesOK == LoadOK /\ \A p \in pulls : PullOK(p)

\* What is missing up to lastReceived was asked for by a call under way: that
\* one sets lastReceived back if its page does not reach as far.
Patched ==
  (excused = {} /\ ~jumped) =>
    \A s \in base + 1..last : s \in OnScreen \/ \E p \in pulls : p.after < s

IInv == TypeOK /\ PagesOK /\ Patched

LEMMA StoredFacts ==
  ASSUME TypeOK
  PROVE  /\ Len(stored) \in Nat /\ DOMAIN stored = 1..Len(stored) /\ Len(stored) =< MaxMessages
         /\ DOMAIN stored \subseteq Seqs /\ Seqs \subseteq Nat /\ MaxMessages \in Nat
         /\ \A s \in DOMAIN stored : stored[s] \in Message /\ stored[s].own \in Key \union {Nobody}
                                     /\ stored[s].status \in {"success", "recalled"}
<1>1. stored \in Seq(Message) /\ Len(stored) =< MaxMessages
  BY DEF TypeOK, Message
<1>2. Len(stored) \in Nat /\ DOMAIN stored = 1..Len(stored) /\ MaxMessages \in Nat
  BY <1>1, ClientAssumption
<1>3. \A s \in DOMAIN stored : stored[s] \in Message
  BY <1>1, <1>2
<1> QED BY <1>1, <1>2, <1>3 DEF Seqs, Message

LEMMA ScreenFacts ==
  ASSUME TypeOK
  PROVE  OnScreen \subseteq DOMAIN stored /\ OnScreen = {s \in Seqs : shown[s] # "absent"}
BY DEF TypeOK, OnScreen

LEMMA WindowFacts ==
  ASSUME TypeOK
  PROVE  base \in Nat /\ last \in Nat /\ last =< Len(stored) /\ due \in Nat /\ due =< Len(stored)
<1>1. base \in 0..MaxMessages /\ last \in 0..Len(stored) /\ due \in 0..Len(stored)
  BY DEF TypeOK
<1>2. Len(stored) \in Nat /\ MaxMessages \in Nat
  BY StoredFacts
<1> QED BY <1>1, <1>2

LEMMA TurnType ==
  ASSUME TypeOK, Turn
  PROVE  turns' \in 0..MaxTurns
<1>1. turns \in 0..MaxTurns /\ MaxTurns \in Nat
  BY ClientAssumption DEF TypeOK
<1>2. turns < MaxTurns /\ turns' = turns + 1
  BY DEF Turn
<1> QED BY <1>1, <1>2

LEMMA InitIInv == Init => IInv
<1> SUFFICES ASSUME Init PROVE IInv
  OBVIOUS
<1>1. MaxMessages \in Nat \ {0} /\ MaxTurns \in Nat
  BY ClientAssumption
<1>2. PICK n \in 0..1 : stored = [s \in 1..n |-> [own |-> Nobody, status |-> "success"]]
  BY DEF Init
<1>3. stored \in [1..n -> Message] /\ n \in Nat
  BY <1>2 DEF Message
<1>4. stored \in Seq(Message) /\ Len(stored) = n /\ DOMAIN stored = 1..n
  BY <1>3
<1>5. ASSUME NEW k \in Key PROVE Cardinality(StoredAs(k)) =< 1
  <2>1. StoredAs(k) = {}
    BY <1>2, <1>4, ClientAssumption DEF StoredAs
  <2> QED BY <2>1, FS_EmptySet
<1>6. OnScreen = {}
  BY DEF Init, OnScreen
<1>7. TypeOK
  <2>1. 0 \in 0..MaxTurns /\ 0 \in 0..Len(stored) /\ MaxMessages \in 0..MaxMessages /\ n =< MaxMessages
    BY <1>1, <1>4
  <2> QED BY <1>4, <1>5, <1>6, <2>1 DEF Init, TypeOK, Message, Status
<1>8. LoadOK
  <2>1. load = [kind |-> "open", page |-> [s \in 1..n |-> stored[s].status]]
    BY <1>4 DEF Init, Page
  <2>2. Run(1..n)
    BY <1>3 DEF Run
  <2>3. load.page = [s \in 1..n |-> stored[s].status] /\ load.kind = "open"
    BY <2>1
  <2>4. \A s \in 1..n : stored[s].status \in {"success", "recalled"}
    BY <1>2
  <2> QED BY <1>4, <2>1, <2>2, <2>3, <2>4 DEF LoadOK, PageOK
<1>9. Patched
  <2>1. base + 1..last = {}
    BY <1>1 DEF Init
  <2> QED BY <2>1 DEF Patched
<1> QED BY <1>7, <1>8, <1>9 DEF IInv, PagesOK, Init

-----------------------------------------------------------------------------
\* What is stored stays, so that pages stay pages.
LEMMA PagesRemain ==
  ASSUME PagesOK, DOMAIN stored \subseteq DOMAIN stored'
  PROVE  /\ UNCHANGED load => LoadOK'
         /\ \A p \in pulls : PullOK(p)'
         /\ \A page : PageOK(page) => PageOK(page)'
<1>1. \A page : PageOK(page) => PageOK(page)'
  BY DEF PageOK
<1>2. \A p \in pulls : PullOK(p)'
  BY <1>1 DEF PagesOK, PullOK
<1>3. UNCHANGED load => LoadOK'
  BY <1>1 DEF PagesOK, LoadOK
<1> QED BY <1>1, <1>2, <1>3

\* Steps that take nothing from the screen and leave the rest alone.
LEMMA PatchedRemains ==
  ASSUME Patched, UNCHANGED <<base, last, jumped>>, excused \subseteq excused',
         OnScreen \subseteq OnScreen', pulls \subseteq pulls'
  PROVE  Patched'
<1> SUFFICES ASSUME excused' = {}, ~jumped', NEW s \in base' + 1..last'
             PROVE  s \in OnScreen' \/ \E p \in pulls' : p.after < s
  BY DEF Patched
<1>1. excused = {} /\ ~jumped /\ s \in base + 1..last
  OBVIOUS
<1> QED BY <1>1 DEF Patched

\* A message more, or a recall.
LEMMA StoreFacts ==
  ASSUME TypeOK, NEW o \in Key \union {Nobody}, StoreMessage(o)
  PROVE  /\ stored' \in Seq(Message) /\ Len(stored') = Len(stored) + 1 /\ Len(stored') =< MaxMessages
         /\ DOMAIN stored \subseteq DOMAIN stored' /\ Len(stored) \in Nat
         /\ \A k \in Key : StoredAs(k)' = IF k = o THEN StoredAs(k) \union {Len(stored')} ELSE StoredAs(k)
<1> DEFINE x == [own |-> o, status |-> "success"]
<1>1. x \in Message /\ x.own = o
  BY DEF Message
<1>2. stored \in Seq(Message) /\ stored' = Append(stored, x) /\ Len(stored) < MaxMessages
  BY DEF StoreMessage, TypeOK, Message
<1> HIDE DEF x
<1>3. /\ stored' \in Seq(Message) /\ Len(stored') = Len(stored) + 1 /\ Len(stored) \in Nat
      /\ DOMAIN stored = 1..Len(stored) /\ DOMAIN stored' = 1..Len(stored')
      /\ \A s \in DOMAIN stored : stored'[s] = stored[s]
      /\ stored'[Len(stored')] = x
  BY <1>1, <1>2
<1>4. Len(stored') =< MaxMessages
  BY <1>2, <1>3, ClientAssumption
<1>5. DOMAIN stored' = DOMAIN stored \union {Len(stored')} /\ Len(stored') \notin DOMAIN stored
  BY <1>3
<1>6. ASSUME NEW k \in Key
      PROVE  StoredAs(k)' = IF k = o THEN StoredAs(k) \union {Len(stored')} ELSE StoredAs(k)
  BY <1>1, <1>3, <1>5 DEF StoredAs
<1> QED BY <1>3, <1>4, <1>5, <1>6

\* The types of what the server's steps change, and of what they leave alone.
ServerOK ==
  /\ stored \in Seq(Message) /\ Len(stored) =< MaxMessages
  /\ \A k \in Key : Cardinality(StoredAs(k)) =< 1
  /\ sent \in SUBSET Key /\ acks \in SUBSET Key

LEMMA ServerType ==
  ASSUME TypeOK, UNCHANGED <<open, turns, store, timer, last, pulls, load, jumped, history>>,
         ServerOK', Len(stored) =< Len(stored'), DOMAIN stored \subseteq DOMAIN stored'
  PROVE  TypeOK'
<1>1. OnScreen' = OnScreen
  BY DEF OnScreen, store
<1>2. last' \in 0..Len(stored') /\ due' \in 0..Len(stored')
  <2>1. stored' \in Seq(Message)
    BY DEF ServerOK
  <2>2. Len(stored') \in Nat
    BY <2>1
  <2>3. Len(stored) \in Nat /\ last \in 0..Len(stored) /\ due \in 0..Len(stored)
    BY StoredFacts DEF TypeOK
  <2>4. last' = last /\ due' = due
    BY DEF history
  <2> QED BY <2>2, <2>3, <2>4
<1> QED BY <1>1, <1>2 DEF TypeOK, ServerOK, Message, store, history

LEMMA ServerStep ==
  ASSUME IInv,
         OthersSend \/ (\E s \in DOMAIN stored : RecallStored(s)) \/ (\E k \in Key : HandleSend(k))
  PROVE  IInv'
<1> USE DEF IInv
<1>0. ServerOK /\ Len(stored) \in Nat
  BY StoredFacts DEF ServerOK, TypeOK, Message
<1>1. UNCHANGED <<open, turns, store, timer, last, pulls, load, jumped, history>>
  BY DEF OthersSend, RecallStored, HandleSend
<1>2. ServerOK' /\ Len(stored) =< Len(stored') /\ DOMAIN stored \subseteq DOMAIN stored'
  <2>1. ASSUME NEW o \in Key \union {Nobody}, StoreMessage(o), o \in Key => StoredAs(o) = {},
               sent' \in SUBSET Key, acks' \in SUBSET Key
        PROVE  ServerOK' /\ Len(stored) =< Len(stored') /\ DOMAIN stored \subseteq DOMAIN stored'
    <3>1. /\ stored' \in Seq(Message) /\ Len(stored') = Len(stored) + 1 /\ Len(stored') =< MaxMessages
          /\ DOMAIN stored \subseteq DOMAIN stored'
      BY <2>1, StoreFacts
    <3>2. ASSUME NEW k \in Key PROVE Cardinality(StoredAs(k)') =< 1
      <4>1. CASE k = o
        <5>1. StoredAs(k)' = {Len(stored')}
          BY <2>1, <4>1, StoreFacts
        <5>2. Cardinality({Len(stored')}) = 1
          BY FS_Singleton
        <5> QED BY <5>1, <5>2
      <4>2. CASE k # o
        <5>1. StoredAs(k)' = StoredAs(k)
          BY <2>1, <4>2, StoreFacts
        <5> QED BY <1>0, <5>1 DEF ServerOK
      <4> QED BY <4>1, <4>2
    <3>3. Len(stored) =< Len(stored')
      BY <1>0, <3>1
    <3> QED BY <2>1, <3>1, <3>2, <3>3 DEF ServerOK
  <2>2. CASE OthersSend
    <3>1. Nobody \notin Key /\ StoreMessage(Nobody) /\ UNCHANGED <<sent, acks>>
      BY <2>2, ClientAssumption DEF OthersSend
    <3> QED BY <1>0, <2>1, <3>1 DEF ServerOK
  <2>3. ASSUME NEW k \in Key, HandleSend(k)
        PROVE  ServerOK' /\ Len(stored) =< Len(stored') /\ DOMAIN stored \subseteq DOMAIN stored'
    <3>1. sent' \in SUBSET Key /\ acks' \in SUBSET Key
      BY <1>0, <2>3 DEF HandleSend, ServerOK
    <3>2. CASE StoredAs(k) = {}
      BY <2>1, <2>3, <3>1, <3>2 DEF HandleSend
    <3>3. CASE StoredAs(k) # {}
      <4>1. stored' = stored
        BY <2>3, <3>3 DEF HandleSend
      <4>2. \A q \in Key : StoredAs(q)' = StoredAs(q)
        BY <4>1 DEF StoredAs
      <4> QED BY <1>0, <3>1, <4>1, <4>2 DEF ServerOK
    <3> QED BY <3>2, <3>3
  <2>4. ASSUME NEW s \in DOMAIN stored, RecallStored(s)
        PROVE  ServerOK' /\ Len(stored) =< Len(stored') /\ DOMAIN stored \subseteq DOMAIN stored'
    <3>1. stored' = [stored EXCEPT ![s].status = "recalled"] /\ UNCHANGED <<sent, acks>>
      BY <2>4 DEF RecallStored
    <3>2. stored \in [1..Len(stored) -> Message] /\ DOMAIN stored = 1..Len(stored)
      BY <1>0 DEF ServerOK
    <3>3. /\ stored' \in [1..Len(stored) -> Message]
          /\ \A q \in DOMAIN stored : stored'[q].own = stored[q].own
      BY <3>1, <3>2 DEF Message
    <3>4. stored' \in Seq(Message) /\ Len(stored') = Len(stored) /\ DOMAIN stored' = DOMAIN stored
      BY <1>0, <3>2, <3>3
    <3>5. \A q \in Key : StoredAs(q)' = StoredAs(q)
      BY <3>3, <3>4 DEF StoredAs
    <3> QED BY <1>0, <3>1, <3>4, <3>5 DEF ServerOK
  <2> QED BY <2>2, <2>3, <2>4
<1>3. TypeOK'
  BY <1>1, <1>2, ServerType
<1>4. PagesOK'
  BY <1>1, <1>2, PagesRemain DEF PagesOK
<1>5. Patched'
  BY <1>1, PatchedRemains DEF OnScreen, store, history
<1> QED BY <1>3, <1>4, <1>5

-----------------------------------------------------------------------------
\* The types of what the steps of the browser change: the store, what is on the
\* socket, and the rest.
StoreOK ==
  /\ shown \in [Seqs -> Status \union {"absent"}] /\ OnScreen \subseteq DOMAIN stored
  /\ draft \in [Key -> {"unused", "sending", "failed", "merged"}]
  /\ timer \in SUBSET Key

\* ackMessage takes nothing from the screen, and what it adds is stored.
LEMMA AckFacts ==
  ASSUME TypeOK, NEW k \in Key, NEW status \in {"sending", "failed", "success"}, NEW known \in BOOLEAN,
         AckMessage(k, status, known), known => status = "success", UNCHANGED stored
  PROVE  /\ shown' \in [Seqs -> Status \union {"absent"}] /\ OnScreen \subseteq OnScreen'
         /\ OnScreen' \subseteq DOMAIN stored
         /\ known \/ status # "success" => draft' \in [Key -> {"unused", "sending", "failed", "merged"}]
<1> DEFINE mine == StoredAs(k) \intersect OnScreen
           there == mine # {} \/ draft[k] \in {"sending", "failed"}
           turned(s) == s \in mine \/ (known /\ there /\ s \in StoredAs(k))
<1>1. shown' = [s \in Seqs |-> IF turned(s) THEN status ELSE shown[s]]
  BY DEF AckMessage
<1>2. \A s \in Seqs : turned(s) => s \in DOMAIN stored
  BY DEF StoredAs
<1> HIDE DEF turned
<1>3. shown \in [Seqs -> Status \union {"absent"}] /\ status \in Status /\ status # "absent"
  BY DEF TypeOK, Status
<1>4. shown' \in [Seqs -> Status \union {"absent"}]
  BY <1>1, <1>3
<1>5. OnScreen \subseteq OnScreen'
  BY <1>1, <1>3 DEF OnScreen
<1>6. OnScreen' \subseteq DOMAIN stored
  BY <1>1, <1>2, ScreenFacts DEF OnScreen
<1>7. draft' = [draft EXCEPT ![k] = IF @ \notin {"sending", "failed"} THEN @ ELSE IF known THEN "merged" ELSE status]
  BY DEF AckMessage
<1>8. known \/ status # "success" => draft' \in [Key -> {"unused", "sending", "failed", "merged"}]
  BY <1>7 DEF TypeOK
<1> QED BY <1>4, <1>5, <1>6, <1>8

\* A send of one's own: it changes the store and what is on the socket.
LEMMA OwnType ==
  ASSUME TypeOK, UNCHANGED <<stored, open, turns, last, pulls, load, jumped, history>>,
         StoreOK', sent' \in SUBSET Key, acks' \in SUBSET Key
  PROVE  TypeOK'
<1>1. \A k \in Key : StoredAs(k)' = StoredAs(k)
  BY DEF StoredAs
<1>2. \A k \in Key : Cardinality(StoredAs(k)') =< 1
  BY <1>1 DEF TypeOK
<1> QED BY <1>2 DEF TypeOK, StoreOK, history

LEMMA OwnStep ==
  ASSUME IInv, NEW k \in Key, SendText(k) \/ Retry(k) \/ AckTimeout(k) \/ HandleAck(k)
  PROVE  IInv'
<1> USE DEF IInv
<1>1. UNCHANGED <<stored, open, turns, last, pulls, load, jumped, history>>
  BY DEF SendText, Retry, AckTimeout, HandleAck, server
<1>2. sent' \in SUBSET Key /\ acks' \in SUBSET Key /\ timer' \in SUBSET Key
  BY DEF SendText, Retry, AckTimeout, HandleAck, server, Transmit, TypeOK
<1>3. /\ shown' \in [Seqs -> Status \union {"absent"}] /\ OnScreen \subseteq OnScreen'
      /\ OnScreen' \subseteq DOMAIN stored /\ draft' \in [Key -> {"unused", "sending", "failed", "merged"}]
  <2>1. CASE SendText(k)
    <3>1. shown' = shown /\ draft' = [draft EXCEPT ![k] = "sending"]
      BY <2>1 DEF SendText
    <3>2. OnScreen' = OnScreen
      BY <3>1 DEF OnScreen
    <3> QED BY <3>1, <3>2 DEF TypeOK
  <2>2. CASE Retry(k)
    BY <1>1, <2>2, AckFacts DEF Retry
  <2>3. CASE AckTimeout(k)
    BY <1>1, <2>3, AckFacts DEF AckTimeout
  <2>4. CASE HandleAck(k)
    BY <1>1, <2>4, AckFacts DEF HandleAck
  <2> QED BY <2>1, <2>2, <2>3, <2>4
<1>4. TypeOK'
  BY <1>1, <1>2, <1>3, OwnType DEF StoreOK
<1>5. PagesOK'
  BY <1>1, PagesRemain DEF PagesOK
<1>6. Patched'
  BY <1>1, <1>3, PatchedRemains DEF history
<1> QED BY <1>4, <1>5, <1>6

-----------------------------------------------------------------------------
\* One more pullAfter.
LEMMA PullFacts ==
  ASSUME TypeOK, PagesOK, NEW n \in DOMAIN stored, Pull(n), UNCHANGED stored
  PROVE  /\ pulls \subseteq pulls' /\ \E p \in pulls' : p.after = n
         /\ \A p \in pulls' : PullOK(p)'
         /\ \A p, q \in pulls' : p.after = q.after /\ p.call = q.call => p = q
         /\ \A p \in pulls' : p.call \in 1..MaxPulls /\ p.after \in DOMAIN stored
                              /\ DOMAIN p.page \subseteq DOMAIN stored
<1>1. PICK c \in 1..MaxPulls : /\ \A p \in pulls : p.after = n => p.call # c
                               /\ pulls' = pulls \union {[call |-> c, after |-> n, read |-> FALSE, page |-> <<>>]}
  BY DEF Pull
<1>2. PICK x : x = [call |-> c, after |-> n, read |-> FALSE, page |-> <<>>]
  OBVIOUS
<1>3. x.call = c /\ x.after = n /\ x.read = FALSE /\ x.page = <<>>
  BY <1>2
<1>4. pulls' = pulls \union {x}
  BY <1>1, <1>2
<1>5. PullOK(x)'
  <2>1. n \in Nat
    BY StoredFacts
  <2>2. DOMAIN <<>> = {} /\ {} = n + 1..n /\ {} = 1..0
    BY <2>1
  <2>3. Run({})
    BY <2>2 DEF Run
  <2>4. x.page \in [DOMAIN x.page -> {"success", "recalled"}] /\ DOMAIN x.page = {}
    BY <1>3, <2>2
  <2>5. PageOK(x.page)'
    BY <2>3, <2>4 DEF PageOK
  <2>6. \E h \in Nat : DOMAIN x.page = x.after + 1..h
    BY <1>3, <2>1, <2>2, <2>4
  <2>7. x = [call |-> x.call, after |-> x.after, read |-> x.read, page |-> x.page]
    BY <1>2, <1>3
  <2> QED BY <1>3, <2>5, <2>6, <2>7 DEF PullOK
<1>6. \A p \in pulls : PullOK(p)'
  BY PagesRemain
<1>7. DOMAIN x.page = {}
  BY <1>3
<1> QED BY <1>1, <1>3, <1>4, <1>5, <1>6, <1>7 DEF TypeOK

\* What is shown and asked for changes, and nothing of the server's.
LEMMA PushType ==
  ASSUME TypeOK, UNCHANGED <<stored, sent, acks, draft, timer, load, base, due>>,
         open' \in BOOLEAN, turns' \in 0..MaxTurns, jumped' \in BOOLEAN,
         shown' \in [Seqs -> Status \union {"absent"}], OnScreen' \subseteq DOMAIN stored,
         last' \in 0..Len(stored), excused' \in SUBSET {"first push", "pull failed", "reconnect",
                                                        "replaced", "two pulls", "late push"},
         \A p, q \in pulls' : p.after = q.after /\ p.call = q.call => p = q,
         \A p \in pulls' : p.call \in 1..MaxPulls /\ p.after \in DOMAIN stored
                           /\ DOMAIN p.page \subseteq DOMAIN stored
  PROVE  TypeOK'
<1>1. \A k \in Key : StoredAs(k)' = StoredAs(k)
  BY DEF StoredAs
<1>2. \A k \in Key : Cardinality(StoredAs(k)') =< 1
  BY <1>1 DEF TypeOK
<1> QED BY <1>2 DEF TypeOK

LEMMA ReceiveStep ==
  ASSUME IInv, NEW s \in Seqs, Receive(s)
  PROVE  IInv'
<1> USE DEF IInv
<1>1. /\ s \in DOMAIN stored /\ s \in Nat /\ s >= 1 /\ shown' = [shown EXCEPT ![s] = "success"]
      /\ last' = (IF s > last THEN s ELSE last)
      /\ UNCHANGED <<stored, sent, acks, open, turns, draft, timer, load, jumped, base, due>>
  <2>1. s \in DOMAIN stored
    BY DEF Receive
  <2>2. s \in 1..Len(stored) /\ Len(stored) \in Nat
    BY <2>1, StoredFacts
  <2>3. s \in Nat /\ s >= 1
    BY <2>2
  <2> QED BY <2>1, <2>3 DEF Receive, server
<1>0. /\ last \in 0..Len(stored) /\ Len(stored) \in Nat /\ base \in Nat /\ last \in Nat
      /\ DOMAIN stored = 1..Len(stored)
  <2>1. last \in 0..Len(stored)
    BY DEF TypeOK
  <2> QED BY <2>1, StoredFacts, WindowFacts
<1>2. shown \in [Seqs -> Status \union {"absent"}]
  BY DEF TypeOK
<1>3. shown' \in [Seqs -> Status \union {"absent"}] /\ OnScreen' = OnScreen \union {s}
  BY <1>1, <1>2 DEF OnScreen, Status
<1>4. last' \in 0..Len(stored)
  BY <1>0, <1>1
<1>5. excused \subseteq excused'
      /\ excused' \in SUBSET {"first push", "pull failed", "reconnect", "replaced", "two pulls", "late push"}
  BY DEF Receive, TypeOK
<1>6. /\ pulls \subseteq pulls'
      /\ Gap(s) => \E p \in pulls' : p.after = last
      /\ \A p \in pulls' : PullOK(p)'
      /\ \A p, q \in pulls' : p.after = q.after /\ p.call = q.call => p = q
      /\ \A p \in pulls' : p.call \in 1..MaxPulls /\ p.after \in DOMAIN stored
                           /\ DOMAIN p.page \subseteq DOMAIN stored
  <2>1. CASE Gap(s)
    <3>1. Pull(last) /\ last \in DOMAIN stored
      BY <1>0, <1>1, <2>1 DEF Receive, Gap
    <3> QED BY <1>1, <3>1, PullFacts
  <2>2. CASE ~Gap(s)
    <3>1. pulls' = pulls
      BY <2>2 DEF Receive
    <3> QED BY <1>1, <2>2, <3>1, PagesRemain DEF TypeOK
  <2> QED BY <2>1, <2>2
<1>7. TypeOK'
  <2>1. OnScreen' \subseteq DOMAIN stored
    BY <1>1, <1>3 DEF TypeOK
  <2>2. open' \in BOOLEAN /\ turns' \in 0..MaxTurns /\ jumped' \in BOOLEAN
    BY <1>1 DEF TypeOK
  <2> QED BY <1>1, <1>3, <1>4, <1>5, <1>6, <2>1, <2>2, PushType
<1>8. PagesOK'
  BY <1>1, <1>6, PagesRemain DEF PagesOK
<1>9. Patched'
  <2> SUFFICES ASSUME excused' = {}, ~jumped', NEW r \in base' + 1..last'
               PROVE  r \in OnScreen' \/ \E p \in pulls' : p.after < r
    BY DEF Patched
  <2>1. excused = {} /\ ~jumped /\ r \in Nat /\ r >= base + 1 /\ r =< last'
    BY <1>0, <1>1, <1>4, <1>5
  <2>2. CASE r =< last
    <3>1. r \in OnScreen \/ \E p \in pulls : p.after < r
      BY <1>0, <1>1, <2>1, <2>2 DEF Patched
    <3>2. CASE r \in OnScreen
      BY <1>3, <3>2
    <3>3. ASSUME NEW p \in pulls, p.after < r PROVE p \in pulls' /\ p.after < r
      BY <1>6, <3>3
    <3> QED BY <3>1, <3>2, <3>3
  <2>3. CASE r > last /\ r # s
    <3>0. last' = s /\ r < s
      BY <1>0, <1>1, <2>1, <2>3
    <3>1. last # 0
      <4> SUFFICES ASSUME last = 0 PROVE FALSE
        OBVIOUS
      <4>1. s > base + 1
        BY <1>0, <1>1, <2>1, <3>0
      <4>2. "first push" \in excused'
        BY <4>1 DEF Receive
      <4> QED BY <4>2
    <3>2. Gap(s)
      BY <1>0, <1>1, <2>1, <2>3, <3>0, <3>1 DEF Gap
    <3>3. PICK p \in pulls' : p.after = last
      BY <1>6, <3>2
    <3>4. p.after < r
      BY <2>3, <3>3
    <3> QED BY <3>4
  <2>4. CASE r = s
    BY <1>3, <2>4
  <2> QED BY <1>0, <1>1, <2>1, <2>2, <2>3, <2>4
<1> QED BY <1>7, <1>8, <1>9

LEMMA RecallStep ==
  ASSUME IInv, NEW s \in Seqs, RecallMessage(s)
  PROVE  IInv'
<1> USE DEF IInv
<1>1. /\ shown' = [shown EXCEPT ![s] = "recalled"] /\ s \in OnScreen
      /\ UNCHANGED <<stored, sent, acks, open, turns, draft, timer, last, pulls, load, jumped, base, due, excused>>
  BY DEF RecallMessage, server, history, OnScreen
<1>2. shown \in [Seqs -> Status \union {"absent"}]
  BY DEF TypeOK
<1>3. shown' \in [Seqs -> Status \union {"absent"}] /\ OnScreen' = OnScreen
  BY <1>1, <1>2 DEF OnScreen, Status
<1>4. TypeOK'
  BY <1>1, <1>3, PushType DEF TypeOK
<1>5. PagesOK'
  BY <1>1, PagesRemain DEF PagesOK
<1>6. Patched'
  BY <1>1, <1>3, PatchedRemains
<1> QED BY <1>4, <1>5, <1>6

-----------------------------------------------------------------------------
\* The calls under way: one more answered, or one less.
LEMMA CallsType ==
  ASSUME TypeOK, UNCHANGED <<stored, sent, acks, draft, timer, load, base, due, open, jumped>>,
         shown' \in [Seqs -> Status \union {"absent"}], OnScreen' \subseteq DOMAIN stored,
         last' \in 0..Len(stored), turns' \in 0..MaxTurns, pulls' \subseteq pulls,
         excused' \in SUBSET {"first push", "pull failed", "reconnect", "replaced", "two pulls", "late push"}
  PROVE  TypeOK'
<1>1. /\ \A p, q \in pulls' : p.after = q.after /\ p.call = q.call => p = q
      /\ \A p \in pulls' : p.call \in 1..MaxPulls /\ p.after \in DOMAIN stored
                           /\ DOMAIN p.page \subseteq DOMAIN stored
  BY DEF TypeOK
<1>2. open' \in BOOLEAN /\ jumped' \in BOOLEAN
  BY DEF TypeOK
<1> QED BY <1>1, <1>2, PushType

\* The messages after a sequence; the page of a call is a run of them.
Following(a) == {s \in DOMAIN stored : s > a}

LEMMA PageOfCall ==
  ASSUME TypeOK, NEW a \in Nat
  PROVE  \E h \in Nat : Taken(Following(a), PageSize) = a + 1..h
<1>1. PICK n \in Nat : n = Len(stored) /\ DOMAIN stored = 1..n
  BY StoredFacts
<1>2. PICK k \in Nat : k = PageSize
  BY ClientAssumption
<1>3. PICK T : T = Following(a)
  OBVIOUS
<1>4. \A s : s \in T <=> s \in 1..n /\ s > a
  BY <1>1, <1>3 DEF Following
<1>5. \E h \in Nat : Taken(T, k) = a + 1..h
  BY <1>4, PageAfter
<1> QED BY <1>2, <1>3, <1>5

LEMMA AnswerStep ==
  ASSUME IInv, NEW p \in pulls, Answer(p)
  PROVE  IInv'
<1> USE DEF IInv
<1> DEFINE R == Taken(Following(p.after), PageSize)
<1>1. PICK x : x = [p EXCEPT !.read = TRUE, !.page = Page(R)]
  OBVIOUS
<1>2. /\ pulls' = (pulls \ {p}) \union {x}
      /\ UNCHANGED <<stored, sent, acks, open, turns, draft, shown, timer, last, load, jumped, base, due, excused>>
  BY <1>1 DEF Answer, server, store, history, Following
<1>3. PullOK(p) /\ p.after \in Nat /\ PageSize \in Nat /\ Len(stored) \in Nat /\ DOMAIN stored = 1..Len(stored)
  <2>1. PullOK(p) /\ p.after \in DOMAIN stored
    BY DEF PagesOK, PullOK
  <2>2. PageSize \in Nat
    BY ClientAssumption
  <2>3. p.after \in Nat
    BY <2>1, StoredFacts
  <2> QED BY <2>1, <2>2, <2>3, StoredFacts
<1>4. \E h \in Nat : R = p.after + 1..h
  BY <1>3, PageOfCall
<1>5. R \subseteq DOMAIN stored
  BY DEF Taken, Following
<1> HIDE DEF R
<1>6. x = [call |-> p.call, after |-> p.after, read |-> TRUE, page |-> Page(R)]
  BY <1>1, <1>3 DEF PullOK
<1>7. x.call = p.call /\ x.after = p.after /\ x.page = Page(R) /\ x.read = TRUE
  BY <1>6
<1>8. DOMAIN x.page = R /\ \A s \in R : x.page[s] \in {"success", "recalled"}
  BY <1>5, <1>7, StoredFacts DEF Page
<1>9. PageOK(x.page)
  <2>1. Run(R)
    BY <1>3, <1>4 DEF Run
  <2>2. x.page \in [DOMAIN x.page -> {"success", "recalled"}]
    BY <1>7, <1>8 DEF Page
  <2> QED BY <1>5, <1>8, <2>1, <2>2 DEF PageOK
<1>10. PullOK(x)
  BY <1>3, <1>4, <1>6, <1>7, <1>8, <1>9 DEF PullOK
<1>11. \A q \in pulls' : PullOK(q)'
  <2>1. PullOK(x)'
    BY <1>2, <1>10 DEF PullOK, PageOK
  <2> QED BY <1>2, <2>1, PagesRemain
<1>12. TypeOK'
  <2>1. OnScreen' = OnScreen
    BY <1>2 DEF OnScreen
  <2>2. \A q, r \in pulls' : q.after = r.after /\ q.call = r.call => q = r
    <3>1. \A q, r \in pulls : q.after = r.after /\ q.call = r.call => q = r
      BY DEF TypeOK
    <3> QED BY <1>2, <1>7, <3>1
  <2>3. \A q \in pulls' : q.call \in 1..MaxPulls /\ q.after \in DOMAIN stored /\ DOMAIN q.page \subseteq DOMAIN stored
    BY <1>2, <1>5, <1>7, <1>8 DEF TypeOK
  <2> QED BY <1>2, <2>1, <2>2, <2>3, PushType DEF TypeOK
<1>13. Patched'
  BY <1>2, <1>7 DEF Patched, OnScreen
<1>14. PagesOK'
  BY <1>2, <1>11, PagesRemain DEF PagesOK
<1> QED BY <1>12, <1>13, <1>14

\* A merge shows the page, and takes nothing from the screen.
LEMMA MergeFacts ==
  ASSUME TypeOK, NEW page, PageOK(page), shown' = MergeMessages(page)
  PROVE  /\ shown' \in [Seqs -> Status \union {"absent"}]
         /\ OnScreen' = OnScreen \union DOMAIN page /\ OnScreen' \subseteq DOMAIN stored
<1>1. DOMAIN page \subseteq Seqs /\ \A s \in DOMAIN page : page[s] \in {"success", "recalled"}
  BY StoredFacts DEF PageOK
<1>2. shown \in [Seqs -> Status \union {"absent"}]
  BY DEF TypeOK
<1>3. shown' = [s \in Seqs |-> IF s \in DOMAIN page THEN page[s] ELSE shown[s]]
  BY DEF MergeMessages
<1>4. shown' \in [Seqs -> Status \union {"absent"}]
  BY <1>1, <1>2, <1>3 DEF Status
<1>5. OnScreen' = OnScreen \union DOMAIN page
  BY <1>1, <1>3 DEF OnScreen
<1> QED BY <1>4, <1>5, ScreenFacts DEF PageOK

LEMMA PullAfterStep ==
  ASSUME IInv, NEW p \in pulls, PullAfter(p)
  PROVE  IInv'
<1> USE DEF IInv
<1>1. /\ pulls' = pulls \ {p} /\ shown' = MergeMessages(p.page)
      /\ UNCHANGED <<stored, sent, acks, open, turns, draft, timer, load, jumped, base, due>>
  BY DEF PullAfter, server
<1>2. PullOK(p) /\ PageOK(p.page)
  BY DEF PagesOK, PullOK
<1>3. /\ shown' \in [Seqs -> Status \union {"absent"}] /\ OnScreen' = OnScreen \union DOMAIN p.page
      /\ OnScreen' \subseteq DOMAIN stored
  BY <1>1, <1>2, MergeFacts
<1>4. PICK h \in Nat : DOMAIN p.page = p.after + 1..h
  BY <1>2 DEF PullOK
<1>5. p.after \in Nat /\ p.after >= 1 /\ Len(stored) \in Nat /\ DOMAIN stored = 1..Len(stored)
      /\ p.after \in DOMAIN stored /\ DOMAIN p.page \subseteq DOMAIN stored
  BY <1>2, StoredFacts DEF PullOK, PageOK
<1> DEFINE S == DOMAIN p.page \union {p.after}
<1>6. S \in SUBSET (0..Len(stored)) /\ last' = Highest(S)
  <2>1. last' = Highest(S)
    BY DEF PullAfter
  <2>2. S \subseteq DOMAIN stored
    BY <1>5
  <2>3. 1..Len(stored) \subseteq 0..Len(stored)
    BY <1>5
  <2> QED BY <1>5, <2>1, <2>2, <2>3
<1>7. last' \in S /\ last' \in 0..Len(stored)
  <2>1. last' \in S \union {0} /\ last' \in 0..Len(stored) /\ \A q \in S : q =< last'
    BY <1>5, <1>6, HighestOf
  <2>2. p.after =< last'
    BY <2>1
  <2>3. last' # 0
    BY <1>5, <2>2
  <2> QED BY <2>1, <2>3
<1> HIDE DEF S
<1>8. excused \subseteq excused'
      /\ excused' \in SUBSET {"first push", "pull failed", "reconnect", "replaced", "two pulls", "late push"}
  BY DEF PullAfter, TypeOK
<1>9. TypeOK'
  BY <1>1, <1>3, <1>7, <1>8, CallsType DEF TypeOK
<1>10. PagesOK'
  BY <1>1, PagesRemain DEF PagesOK
<1>11. Patched'
  <2> SUFFICES ASSUME excused' = {}, ~jumped', NEW r \in base' + 1..last', r \notin OnScreen'
               PROVE  \E q \in pulls' : q.after < r
    BY DEF Patched
  <2>0. base \in Nat /\ last \in Nat
    BY WindowFacts
  <2>1. excused = {} /\ ~jumped /\ r \in Nat /\ r >= base + 1 /\ r =< last'
    BY <1>1, <1>7, <1>8, <2>0
  <2>2. r =< p.after
    <3> SUFFICES ASSUME r > p.after PROVE FALSE
      BY <1>5, <2>1
    <3>1. last' \in p.after + 1..h
      BY <1>4, <1>5, <1>7, <2>1 DEF S
    <3>2. r \in p.after + 1..h
      BY <1>5, <2>1, <3>1
    <3> QED BY <1>3, <1>4, <3>2
  <2>3. r \notin OnScreen
    BY <1>3
  <2>4. r =< last
    <3> SUFFICES ASSUME r > last PROVE FALSE
      BY <2>0, <2>1
    <3>1. r \in Missing(base + 1..p.after) \ (1..last)
      BY <1>5, <2>0, <2>1, <2>2, <2>3 DEF Missing
    <3> QED BY <2>1, <3>1 DEF PullAfter
  <2>5. r \in base + 1..last
    BY <2>0, <2>1, <2>4
  <2>6. PICK q \in pulls : q.after < r
    BY <2>1, <2>3, <2>5 DEF Patched
  <2>7. q # p
    BY <1>5, <2>1, <2>2, <2>6
  <2> QED BY <1>1, <2>6, <2>7
<1> QED BY <1>9, <1>10, <1>11

LEMMA PullFailsStep ==
  ASSUME IInv, NEW p \in pulls, PullFails(p)
  PROVE  IInv'
<1> USE DEF IInv
<1>1. /\ pulls' = pulls \ {p} /\ excused' = excused \union {"pull failed"}
      /\ UNCHANGED <<stored, sent, acks, open, shown, draft, timer, last, load, jumped, base, due>>
  BY DEF PullFails, server, store
<1>2. turns' \in 0..MaxTurns
  BY TurnType DEF PullFails
<1>3. OnScreen' = OnScreen
  BY <1>1 DEF OnScreen
<1>4. TypeOK'
  BY <1>1, <1>2, <1>3, CallsType DEF TypeOK
<1>5. PagesOK'
  BY <1>1, PagesRemain DEF PagesOK
<1>6. Patched'
  BY <1>1 DEF Patched
<1> QED BY <1>4, <1>5, <1>6

-----------------------------------------------------------------------------
\* Everything of this browser's may change, nothing of the group's.
LEMMA ClientType ==
  ASSUME TypeOK, UNCHANGED <<stored, timer>>, sent' \in SUBSET Key, acks' \in SUBSET Key,
         open' \in BOOLEAN, turns' \in 0..MaxTurns, jumped' \in BOOLEAN,
         shown' \in [Seqs -> Status \union {"absent"}], OnScreen' \subseteq DOMAIN stored,
         draft' \in [Key -> {"unused", "sending", "failed", "merged"}],
         load'.kind \in {"none", "open", "more", "jump", "latest"},
         last' \in 0..Len(stored), base' \in 0..MaxMessages, due' \in 0..Len(stored),
         excused' \in SUBSET {"first push", "pull failed", "reconnect", "replaced", "two pulls", "late push"},
         \A p, q \in pulls' : p.after = q.after /\ p.call = q.call => p = q,
         \A p \in pulls' : p.call \in 1..MaxPulls /\ p.after \in DOMAIN stored
                           /\ DOMAIN p.page \subseteq DOMAIN stored
  PROVE  TypeOK'
<1>1. \A k \in Key : StoredAs(k)' = StoredAs(k)
  BY DEF StoredAs
<1>2. \A k \in Key : Cardinality(StoredAs(k)') =< 1
  BY <1>1 DEF TypeOK
<1> QED BY <1>2 DEF TypeOK

LEMMA CloseStep ==
  ASSUME IInv, ScheduleReconnect
  PROVE  IInv'
<1> USE DEF IInv
<1>1. UNCHANGED <<stored, shown, draft, timer, last, pulls, load, jumped, base, due, excused>>
  BY DEF ScheduleReconnect, store, history
<1>2. open' \in BOOLEAN /\ sent' \in SUBSET Key /\ acks' \in SUBSET Key
  BY DEF ScheduleReconnect, TypeOK
<1>3. turns' \in 0..MaxTurns
  BY TurnType DEF ScheduleReconnect
<1>4. OnScreen' = OnScreen
  BY <1>1 DEF OnScreen
<1>5. TypeOK'
  BY <1>1, <1>2, <1>3, <1>4, ClientType DEF TypeOK
<1>6. PagesOK'
  BY <1>1, PagesRemain DEF PagesOK
<1>7. Patched'
  BY <1>1, <1>4, PatchedRemains
<1> QED BY <1>5, <1>6, <1>7

LEMMA ConnectStep ==
  ASSUME IInv, Connect
  PROVE  IInv'
<1> USE DEF IInv
<1>1. UNCHANGED <<stored, sent, acks, turns, shown, draft, timer, last, load, jumped, base>> /\ open' = TRUE
  BY DEF Connect, server, store
<1>2. OnScreen' = OnScreen
  BY <1>1 DEF OnScreen
<1>3. PICK n \in Nat : n = Len(stored) /\ DOMAIN stored = 1..n
  BY StoredFacts
<1>4. PICK S : S = OnScreen
  OBVIOUS
<1>5. S \in SUBSET (0..n)
  <2>1. S \subseteq 1..n
    BY <1>3, <1>4, ScreenFacts
  <2> QED BY <2>1
<1>6. Highest(S) \in S \union {0}
  BY <1>5, HighestOf
<1>7. Highest(OnScreen) # 0 => Highest(OnScreen) \in DOMAIN stored
  BY <1>4, <1>6, ScreenFacts
<1>8. /\ pulls \subseteq pulls'
      /\ \A p \in pulls' : PullOK(p)'
      /\ \A p, q \in pulls' : p.after = q.after /\ p.call = q.call => p = q
      /\ \A p \in pulls' : p.call \in 1..MaxPulls /\ p.after \in DOMAIN stored
                           /\ DOMAIN p.page \subseteq DOMAIN stored
  <2>1. CASE Highest(OnScreen) # 0
    <3>1. Pull(Highest(OnScreen))
      BY <2>1 DEF Connect
    <3> QED BY <1>1, <1>7, <2>1, <3>1, PullFacts
  <2>2. CASE Highest(OnScreen) = 0
    <3>1. pulls' = pulls
      BY <2>2 DEF Connect
    <3> QED BY <1>1, <3>1, PagesRemain DEF TypeOK
  <2> QED BY <2>1, <2>2
<1>9. due' \in 0..Len(stored)
  <2>1. due' = Len(stored) \/ due' = due
    BY DEF Connect
  <2>2. due \in 0..Len(stored)
    BY DEF TypeOK
  <2>3. Len(stored) \in 0..Len(stored)
    BY <1>3
  <2> QED BY <2>1, <2>2, <2>3
<1>10. excused \subseteq excused'
       /\ excused' \in SUBSET {"first push", "pull failed", "reconnect", "replaced", "two pulls", "late push"}
  BY DEF Connect, TypeOK
<1>11. TypeOK'
  BY <1>1, <1>2, <1>8, <1>9, <1>10, ClientType DEF TypeOK
<1>12. PagesOK'
  BY <1>1, <1>8, PagesRemain DEF PagesOK
<1>13. Patched'
  BY <1>1, <1>2, <1>8, <1>10, PatchedRemains
<1> QED BY <1>11, <1>12, <1>13

-----------------------------------------------------------------------------
\* The pages ChatPage asks for: runs, of the newest or of those before the
\* oldest on the screen, or around a hit.
LEMMA NewestPage ==
  ASSUME TypeOK, NEW b \in Nat, b =< Len(stored)
  PROVE  LET rows == ListMessages(DOMAIN stored, b, 0, PageSize) IN
         rows \subseteq DOMAIN stored /\ Run(rows)
<1> DEFINE rows == ListMessages(DOMAIN stored, b, 0, PageSize)
           newest(s) == {r \in s : Cardinality({q \in s : q > r}) < PageSize}
<1>1. PICK n \in Nat : n = Len(stored) /\ DOMAIN stored = 1..n
  BY StoredFacts
<1>2. \A m \in Nat : Run(newest(1..m))
  <2>1. PICK k \in Nat : k = PageSize
    BY ClientAssumption
  <2>2. \A m \in Nat : \E l \in Nat : newest(1..m) = l..m
    BY <2>1, NewestOf
  <2> HIDE DEF newest
  <2> QED BY <2>2 DEF Run
<1>3. Run(rows)
  <2>1. CASE b = 0
    <3>1. rows = newest(1..n)
      BY <1>1, <2>1 DEF ListMessages
    <3> QED BY <1>2, <3>1
  <2>2. CASE b # 0
    <3>1. rows = newest({r \in 1..n : r < b})
      BY <1>1, <2>2 DEF ListMessages
    <3>2. PICK m \in Nat : m = b - 1
      BY <2>2
    <3>3. {r \in 1..n : r < b} = 1..m
      BY <1>1, <3>2
    <3> HIDE DEF newest, rows
    <3> QED BY <1>2, <3>1, <3>2, <3>3
  <2> QED BY <2>1, <2>2
<1>4. rows \subseteq DOMAIN stored
  BY DEF ListMessages
<1> QED BY <1>3, <1>4

LEMMA Around ==
  ASSUME TypeOK, NEW s \in DOMAIN stored
  PROVE  LET rows == {r \in DOMAIN stored : r \in s - 1..s + 1} IN
         rows \subseteq DOMAIN stored /\ Run(rows)
<1>1. PICK n \in Nat : n = Len(stored) /\ DOMAIN stored = 1..n
  BY StoredFacts
<1>2. PICK l \in Nat : l = IF s = 1 THEN 1 ELSE s - 1
  BY <1>1
<1>3. PICK h \in Nat : h = IF s = n THEN n ELSE s + 1
  BY <1>1
<1>4. {r \in DOMAIN stored : r \in s - 1..s + 1} = l..h
  BY <1>1, <1>2, <1>3
<1> QED BY <1>4 DEF Run

LEMMA LoadType ==
  ASSUME IInv, NEW kind \in {"open", "more", "jump", "latest"}, NEW rows, rows \subseteq DOMAIN stored,
         Run(rows), Load(kind, rows), turns' \in 0..MaxTurns
  PROVE  IInv'
<1> USE DEF IInv
<1>1. UNCHANGED <<stored, sent, acks, open, shown, draft, timer, last, pulls, jumped, base, due, excused>>
  BY DEF Load, server, store, history
<1>2. load' = [kind |-> kind, page |-> Page(rows)]
  BY DEF Load
<1>3. load'.kind = kind /\ load'.page = Page(rows)
  BY <1>2
<1>4. DOMAIN Page(rows) = rows /\ \A s \in rows : Page(rows)[s] \in {"success", "recalled"}
  BY StoredFacts DEF Page
<1>5. PageOK(Page(rows))
  <2>1. Page(rows) \in [DOMAIN Page(rows) -> {"success", "recalled"}]
    BY <1>4 DEF Page
  <2> QED BY <1>4, <2>1 DEF PageOK
<1>6. PageOK(load.page)'
  BY <1>1, <1>3, <1>5 DEF PageOK
<1>7. LoadOK'
  BY <1>2, <1>3, <1>6 DEF LoadOK
<1>8. OnScreen' = OnScreen
  BY <1>1 DEF OnScreen
<1>9. TypeOK'
  BY <1>1, <1>3, <1>8, ClientType DEF TypeOK
<1>10. PagesOK'
  BY <1>1, <1>7, PagesRemain DEF PagesOK
<1>11. Patched'
  BY <1>1, <1>8, PatchedRemains
<1> QED BY <1>9, <1>10, <1>11

LEMMA LoadStep ==
  ASSUME IInv, OpenGroup \/ LoadMore \/ BackToLatest \/ \E s \in Seqs : JumpTo(s)
  PROVE  IInv'
<1>0. TypeOK /\ Len(stored) \in Nat
  BY StoredFacts DEF IInv
<1>1. ASSUME NEW b \in Nat, b =< Len(stored), NEW kind \in {"open", "more", "jump", "latest"},
             turns' \in 0..MaxTurns, Load(kind, ListMessages(DOMAIN stored, b, 0, PageSize))
      PROVE  IInv'
  BY <1>0, <1>1, NewestPage, LoadType
<1>2. CASE OpenGroup
  <2>1. turns' \in 0..MaxTurns
    BY <1>0, <1>2, TurnType DEF OpenGroup
  <2>2. 0 \in Nat /\ 0 =< Len(stored)
    BY <1>0
  <2>3. Load("open", ListMessages(DOMAIN stored, 0, 0, PageSize))
    BY <1>2 DEF OpenGroup
  <2> QED BY <1>1, <2>1, <2>2, <2>3
<1>3. CASE BackToLatest
  <2>1. turns' \in 0..MaxTurns
    BY <1>0, <1>3 DEF BackToLatest, TypeOK
  <2>2. 0 \in Nat /\ 0 =< Len(stored)
    BY <1>0
  <2>3. Load("latest", ListMessages(DOMAIN stored, 0, 0, PageSize))
    BY <1>3 DEF BackToLatest
  <2> QED BY <1>1, <2>1, <2>2, <2>3
<1>4. CASE LoadMore
  <2>1. OnScreen # {} /\ OnScreen \subseteq DOMAIN stored
    BY <1>0, <1>4, ScreenFacts DEF LoadMore
  <2>2. OnScreen \in SUBSET Nat
    BY <1>0, <2>1, StoredFacts
  <2>3. Lowest(OnScreen) \in OnScreen
    BY <2>1, <2>2, LowestOf
  <2>4. Lowest(OnScreen) \in Nat /\ Lowest(OnScreen) =< Len(stored)
    BY <1>0, <2>1, <2>3, StoredFacts
  <2> QED BY <1>0, <1>1, <1>4, <2>4, TurnType DEF LoadMore
<1>5. ASSUME NEW s \in Seqs, JumpTo(s) PROVE IInv'
  <2>1. s \in DOMAIN stored /\ Turn
    BY <1>5 DEF JumpTo
  <2>2. PICK rows : rows = {r \in DOMAIN stored : r \in s - 1..s + 1}
    OBVIOUS
  <2>3. Load("jump", rows)
    BY <1>5, <2>2 DEF JumpTo
  <2>4. rows \subseteq DOMAIN stored /\ Run(rows)
    BY <1>0, <2>1, <2>2, Around
  <2> QED BY <1>0, <2>1, <2>3, <2>4, LoadType, TurnType
<1> QED BY <1>2, <1>3, <1>4, <1>5

-----------------------------------------------------------------------------
LEMMA NoLoadOK ==
  ASSUME load' = NoLoad
  PROVE  LoadOK'
<1>1. load' = [kind |-> "none", page |-> <<>>] /\ DOMAIN <<>> = {} /\ {} = 1..0
  BY DEF NoLoad
<1>2. load'.page = <<>> /\ load'.kind = "none"
  BY <1>1
<1>3. Run({})
  BY <1>1 DEF Run
<1>4. <<>> \in [{} -> {"success", "recalled"}]
  BY <1>1
<1> QED BY <1>1, <1>2, <1>3, <1>4 DEF LoadOK, PageOK

\* What is between two messages of a run is in it.
LEMMA RunHolds ==
  ASSUME NEW S, Run(S), NEW a \in S, NEW b \in S, NEW s \in Nat, a =< s, s =< b
  PROVE  s \in S
<1>1. PICK l \in Nat, h \in Nat : S = l..h
  BY DEF Run
<1> QED BY <1>1

LEMMA ShowMoreStep ==
  ASSUME IInv, ShowMore
  PROVE  IInv'
<1> USE DEF IInv
<1>1. /\ UNCHANGED <<stored, sent, acks, open, turns, draft, timer, last, pulls, jumped, due>>
      /\ load' = NoLoad /\ shown' = MergeMessages(load.page)
  BY DEF ShowMore, server
<1>2. PageOK(load.page)
  BY DEF PagesOK, LoadOK
<1>3. PICK D : D = DOMAIN load.page
  OBVIOUS
<1>4. D \subseteq DOMAIN stored /\ Run(D)
  BY <1>2, <1>3 DEF PageOK
<1>5. /\ shown' \in [Seqs -> Status \union {"absent"}] /\ OnScreen' = OnScreen \union D
      /\ OnScreen' \subseteq DOMAIN stored
  BY <1>1, <1>2, <1>3, MergeFacts
<1>6. PICK n \in Nat : n = Len(stored) /\ DOMAIN stored = 1..n
  BY StoredFacts
<1>7. base \in Nat /\ base =< MaxMessages /\ MaxMessages \in Nat
  <2>1. base \in 0..MaxMessages
    BY DEF TypeOK
  <2> QED BY <2>1, ClientAssumption
<1>8. PICK w \in Nat : w = Lowest(D \union {base + 1}) /\ w \in D \union {base + 1} /\ w =< base + 1
  <2>1. D \union {base + 1} \in SUBSET Nat
    BY <1>4, <1>6, <1>7
  <2>2. /\ Lowest(D \union {base + 1}) \in D \union {base + 1}
        /\ \A q \in D \union {base + 1} : Lowest(D \union {base + 1}) =< q
    BY <2>1, LowestOf
  <2> QED BY <2>1, <2>2
<1>9. w >= 1
  BY <1>4, <1>6, <1>7, <1>8
<1>10. (D = {} /\ base' = base) \/ (D # {} /\ base' = w - 1)
  BY <1>3, <1>8 DEF ShowMore
<1>11. base' \in 0..MaxMessages
  BY <1>7, <1>8, <1>9, <1>10
<1>12. excused \subseteq excused'
       /\ excused' \in SUBSET {"first push", "pull failed", "reconnect", "replaced", "two pulls", "late push"}
  BY DEF ShowMore, TypeOK
<1>13. load'.kind = "none"
  BY <1>1 DEF NoLoad
<1>14. TypeOK'
  BY <1>1, <1>5, <1>11, <1>12, <1>13, ClientType DEF TypeOK
<1>15. PagesOK'
  BY <1>1, PagesRemain, NoLoadOK DEF PagesOK
<1>16. Patched'
  <2> SUFFICES ASSUME excused' = {}, ~jumped', NEW s \in base' + 1..last'
               PROVE  s \in OnScreen' \/ \E p \in pulls' : p.after < s
    BY DEF Patched
  <2>1. /\ excused = {} /\ ~jumped /\ s \in Nat /\ s =< last /\ base' + 1 =< s
        /\ last \in Nat
    <3>1. excused = {} /\ ~jumped
      BY <1>1, <1>12
    <3>2. last \in Nat /\ last' = last /\ base' \in Nat
      BY <1>1, <1>11, WindowFacts
    <3>3. PICK c \in Nat, d \in Nat : c = base' /\ d = last
      BY <3>2
    <3>4. s \in c + 1..d
      BY <3>2, <3>3
    <3>5. s \in Nat /\ s =< d /\ c + 1 =< s
      BY <3>4
    <3> QED BY <3>1, <3>2, <3>3, <3>5
  <2>2. CASE s > base
    <3>1. s \in OnScreen \/ \E p \in pulls : p.after < s
      BY <1>7, <2>1, <2>2 DEF Patched
    <3> QED BY <1>1, <1>5, <3>1
  <2>3. CASE s =< base
    <3>1. D # {} /\ base' = w - 1 /\ w =< s
      BY <1>7, <1>8, <1>9, <1>10, <2>1, <2>3
    <3>2. w \in D
      BY <1>7, <1>8, <2>1, <2>3, <3>1
    <3>3. PICK H \in 0..n : H = Highest(D) /\ H \in D \union {0} /\ \A q \in D : q =< H
      <4>1. D \in SUBSET (0..n)
        BY <1>4, <1>6
      <4> QED BY <4>1, HighestOf
    <3>4. w =< H
      BY <3>2, <3>3
    <3>5. H \in D
      BY <1>9, <3>3, <3>4
    <3>6. CASE s =< H
      BY <1>4, <1>5, <2>1, <3>1, <3>2, <3>5, <3>6, RunHolds
    <3>7. CASE s > H
      <4>1. s \in H + 1..base
        BY <1>7, <2>1, <2>3, <3>7
      <4>2. Missing(H + 1..base) = {}
        BY <1>3, <3>1, <3>3 DEF ShowMore
      <4> QED BY <1>5, <4>1, <4>2 DEF Missing
    <3> QED BY <2>1, <3>6, <3>7
  <2> QED BY <1>7, <2>1, <2>2, <2>3
<1> QED BY <1>14, <1>15, <1>16

LEMMA SetMessagesStep ==
  ASSUME IInv, SetMessages
  PROVE  IInv'
<1> USE DEF IInv
<1>1. /\ UNCHANGED <<stored, sent, acks, open, turns, timer, pulls, due>>
      /\ load' = NoLoad
      /\ shown' = [s \in Seqs |-> IF s \in DOMAIN load.page THEN load.page[s] ELSE "absent"]
      /\ draft' = [k \in Key |-> IF draft[k] = "unused" THEN "unused" ELSE "merged"]
      /\ jumped' = (load.kind = "jump")
  BY DEF SetMessages, server
<1>2. PageOK(load.page)
  BY DEF PagesOK, LoadOK
<1>3. PICK D : D = DOMAIN load.page
  OBVIOUS
<1>4. D \subseteq DOMAIN stored /\ Run(D) /\ \A s \in D : load.page[s] \in {"success", "recalled"}
  BY <1>2, <1>3 DEF PageOK
<1>5. PICK n \in Nat : n = Len(stored) /\ DOMAIN stored = 1..n /\ n =< MaxMessages
  BY StoredFacts
<1>6. shown' \in [Seqs -> Status \union {"absent"}] /\ OnScreen' = D
  <2>1. D \subseteq Seqs
    BY <1>4, StoredFacts
  <2>2. shown' \in [Seqs -> Status \union {"absent"}]
    BY <1>1, <1>3, <1>4 DEF Status
  <2>3. OnScreen' = D
    BY <1>1, <1>3, <1>4, <2>1 DEF OnScreen
  <2> QED BY <2>2, <2>3
<1>7. draft' \in [Key -> {"unused", "sending", "failed", "merged"}]
  BY <1>1
<1>8. last \in Nat /\ last =< n
  BY <1>5, WindowFacts
<1>9. PICK H \in 0..n : H = Highest(D) /\ H \in D \union {0} /\ \A q \in D : q =< H
  <2>1. D \in SUBSET (0..n)
    BY <1>4, <1>5
  <2> QED BY <2>1, HighestOf
<1>10. PICK t \in 0..n : t = Highest(D \union {last}) /\ t \in D \union {last, 0}
  <2>1. D \union {last} \in SUBSET (0..n)
    BY <1>4, <1>5, <1>8
  <2>2. PICK U : U = D \union {last}
    OBVIOUS
  <2>3. Highest(U) \in U \union {0} /\ Highest(U) \in 0..n
    BY <2>1, <2>2, HighestOf
  <2> QED BY <2>2, <2>3
<1>11. last' = t \/ last' = last
  BY <1>3, <1>10 DEF SetMessages
<1>12. last' \in 0..n
  BY <1>8, <1>10, <1>11
<1>13. (D = {} /\ base' = 0) \/ (D # {} /\ base' = Lowest(D) - 1)
  BY <1>3 DEF SetMessages
<1>14. D # {} => Lowest(D) \in D /\ Lowest(D) \in Nat /\ Lowest(D) >= 1 /\ Lowest(D) =< n
  <2> SUFFICES ASSUME D # {} PROVE Lowest(D) \in D /\ Lowest(D) \in Nat /\ Lowest(D) >= 1 /\ Lowest(D) =< n
    OBVIOUS
  <2>1. D \in SUBSET Nat
    BY <1>4, <1>5
  <2>2. Lowest(D) \in D
    BY <2>1, LowestOf
  <2>3. Lowest(D) \in 1..n
    BY <1>4, <1>5, <2>2
  <2> QED BY <2>2, <2>3
<1>15. base' \in 0..MaxMessages
  BY <1>5, <1>13, <1>14, ClientAssumption
<1>16. excused \subseteq excused'
       /\ excused' \in SUBSET {"first push", "pull failed", "reconnect", "replaced", "two pulls", "late push"}
  BY DEF SetMessages, TypeOK
<1>17. load'.kind = "none" /\ jumped' \in BOOLEAN
  BY <1>1 DEF NoLoad
<1>18. TypeOK'
  BY <1>1, <1>4, <1>5, <1>6, <1>7, <1>12, <1>15, <1>16, <1>17, ClientType DEF TypeOK
<1>19. PagesOK'
  BY <1>1, PagesRemain, NoLoadOK DEF PagesOK
<1>20. Patched'
  <2> SUFFICES ASSUME excused' = {}, ~jumped', NEW s \in base' + 1..last' PROVE s \in D
    BY <1>6 DEF Patched
  <2>1. PICK V : V = OnScreen \union {last}
    OBVIOUS
  <2>2. V \in SUBSET (0..n)
    <3>1. OnScreen \subseteq 1..n
      BY <1>5, ScreenFacts
    <3> QED BY <1>8, <2>1, <3>1
  <2>3. Highest(V) \in 0..n /\ \A q \in V : q =< Highest(V)
    BY <2>2, HighestOf
  <2>4. ~ (Highest(V) > H)
    BY <1>1, <1>3, <1>9, <2>1 DEF SetMessages
  <2>5. last =< H
    <3>1. last =< Highest(V)
      BY <2>1, <2>3
    <3> QED BY <1>8, <1>9, <2>3, <2>4, <3>1
  <2>6. last' =< H
    BY <1>8, <1>9, <1>10, <1>11, <2>5
  <2>7. s \in Nat /\ s =< H /\ base' + 1 =< s /\ s >= 1
    <3>1. PICK c \in Nat, d \in Nat : c = base' /\ d = last' /\ d =< H
      BY <1>12, <1>15, <2>6, ClientAssumption
    <3>2. s \in c + 1..d
      BY <3>1
    <3>3. s \in Nat /\ s =< d /\ c + 1 =< s
      BY <3>2
    <3>4. PICK y \in Nat : y = H
      OBVIOUS
    <3>5. d =< y
      BY <3>1, <3>4
    <3>6. s =< y
      BY <3>3, <3>5
    <3>7. s >= 1
      BY <3>3
    <3> QED BY <3>1, <3>3, <3>4, <3>6, <3>7
  <2>8. H \in D
    BY <1>9, <2>7
  <2>9. D # {} /\ base' = Lowest(D) - 1
    BY <1>13, <2>8
  <2>10. Lowest(D) \in D /\ Lowest(D) =< s
    BY <1>14, <2>7, <2>9
  <2> QED BY <1>4, <2>7, <2>8, <2>10, RunHolds
<1> QED BY <1>18, <1>19, <1>20

-----------------------------------------------------------------------------
LEMMA StepIInv == IInv /\ [Next]_vars => IInv'
<1> SUFFICES ASSUME IInv, [Next]_vars PROVE IInv'
  OBVIOUS
<1>1. CASE OthersSend \/ (\E s \in DOMAIN stored : RecallStored(s)) \/ (\E k \in Key : HandleSend(k))
  BY <1>1, ServerStep
<1>2. ASSUME NEW k \in Key, SendText(k) \/ Retry(k) \/ AckTimeout(k) \/ HandleAck(k) PROVE IInv'
  BY <1>2, OwnStep
<1>3. ASSUME NEW s \in Seqs, Receive(s) PROVE IInv'
  BY <1>3, ReceiveStep
<1>4. ASSUME NEW s \in Seqs, RecallMessage(s) PROVE IInv'
  BY <1>4, RecallStep
<1>5. ASSUME NEW p \in pulls, Answer(p) PROVE IInv'
  BY <1>5, AnswerStep
<1>6. ASSUME NEW p \in pulls, PullAfter(p) PROVE IInv'
  BY <1>6, PullAfterStep
<1>7. ASSUME NEW p \in pulls, PullFails(p) PROVE IInv'
  BY <1>7, PullFailsStep
<1>8. CASE ScheduleReconnect
  BY <1>8, CloseStep
<1>9. CASE Connect
  BY <1>9, ConnectStep
<1>10. CASE OpenGroup \/ LoadMore \/ BackToLatest \/ \E s \in Seqs : JumpTo(s)
  BY <1>10, LoadStep
<1>11. CASE ShowMore
  BY <1>11, ShowMoreStep
<1>12. CASE SetMessages
  BY <1>12, SetMessagesStep
<1>13. CASE UNCHANGED vars
  <2>1. UNCHANGED <<stored, sent, acks, open, turns, shown, draft, timer, last, pulls, load, jumped, base, due, excused>>
    BY <1>13 DEF vars, server, store, history
  <2>2. OnScreen' = OnScreen
    BY <2>1 DEF OnScreen
  <2>3. TypeOK'
    BY <2>1, <2>2, ClientType DEF IInv, TypeOK
  <2>4. PagesOK'
    BY <2>1, PagesRemain DEF IInv, PagesOK
  <2>5. Patched'
    BY <2>1, <2>2, PatchedRemains DEF IInv
  <2> QED BY <2>3, <2>4, <2>5 DEF IInv
<1> QED BY <1>1, <1>2, <1>3, <1>4, <1>5, <1>6, <1>7, <1>8, <1>9, <1>10, <1>11, <1>12, <1>13 DEF Next

\* The inductive invariant: types, pages that are runs of stored messages, and
\* a call under way for everything that is missing on the screen.
THEOREM Invariance == Spec => []IInv
BY InitIInv, StepIInv, PTL DEF Spec

\* The state of wsClient.ts, useStore.ts and ChatPage.tsx keeps its types: in
\* particular what is shown, asked for or waited for is stored on the server,
\* and a clientMessageId is stored once.
THEOREM TypeCorrect == Spec => []TypeOK
<1>1. IInv => TypeOK
  BY DEF IInv
<1> QED BY <1>1, Invariance, PTL

\* Between the oldest message loaded and the last received no message is
\* missing on the screen, once no page is on its way, whatever the pushes and
\* pages did in between, if none of the six causes was met.
THEOREM NothingMissing == Spec => []NoHole
<1>1. IInv => NoHole
  <2> SUFFICES ASSUME IInv, excused = {}, pulls = {}, ~jumped, NEW s \in base + 1..last
               PROVE  s \in OnScreen
    BY DEF NoHole, Missing
  <2> QED BY DEF IInv, Patched
<1> QED BY <1>1, Invariance, PTL
=============================================================================
