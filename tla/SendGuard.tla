----------------------------- MODULE SendGuard -----------------------------
(***************************************************************************)
(* Who may send: the checks service.SendGroupMessage makes before it takes *)
(* a sequence, against the operations that bar a sender at the same time   *)
(* (DismissGroup, UpdateSettings, KickMember, LeaveGroup, MuteMember and   *)
(* their opposites), for one sender in one group.                          *)
(*                                                                         *)
(* The group's settings are read through the Redis key group:<g>:config    *)
(* (getGroupConfig), the member and the mutes from MySQL.  A step is one   *)
(* statement or Redis command.  Operators are taken to hold the role       *)
(* requireRole asks for; the sender is not the owner.                      *)
(***************************************************************************)
EXTENDS Integers, FiniteSets

CONSTANTS
  Caller,     \* request goroutines serving the sender
  Operator,   \* request goroutines serving operators
  None,       \* no value: a missing Redis key
  MaxOps,     \* bound: operations started, mutes that run out
  MaxFaults   \* bound: Redis and MySQL errors

ASSUME GuardAssumption == MaxOps \in Nat /\ MaxFaults \in Nat

Config == [dismissed : BOOLEAN, muteAll : BOOLEAN]
Reason == {"dismissed", "muteAll", "gone", "muted"}

ASSUME NoneAssumption == None \notin Config

VARIABLES
  group,    \* the row of chat_group
  cache,    \* group:<g>:config, None if absent
  status,   \* group_member.status of the sender
  role,     \* group_member.role of the sender
  mutes,    \* number of mute records that are active and not expired
  opPc,     \* opPc[o]: where operator goroutine o is
  pc,       \* pc[c]: where the send of goroutine c is
  config,   \* config[c]: the settings the send goes by
  bars,     \* history: reasons the sender is barred for, by operations that returned
  barred,   \* history: barred[c]: reasons in force ever since the send began
  leaks,    \* history: reasons some accepted send should have been refused for
  ops, faults   \* budgets used

send == <<pc, config>>
vars == <<group, cache, status, role, mutes, opPc, send, bars, barred, leaks, ops, faults>>

Init ==
  /\ group = [dismissed |-> FALSE, muteAll |-> FALSE]
  /\ cache = None
  /\ status = "normal" /\ role = "member" /\ mutes = 0
  /\ opPc = [o \in Operator |-> "idle"]
  /\ pc = [c \in Caller |-> "idle"]
  /\ config = [c \in Caller |-> None]
  /\ bars = {} /\ barred = [c \in Caller |-> {}] /\ leaks = {}
  /\ ops = 0 /\ faults = 0

Begin == ops < MaxOps /\ ops' = ops + 1
Fault == faults < MaxFaults /\ faults' = faults + 1

\* The reason x holds from now on; it does no longer.
Impose(x) == bars' = bars \union {x} /\ UNCHANGED barred
Lift(x)   == bars' = bars \ {x} /\ barred' = [c \in Caller |-> barred[c] \ {x}]

-----------------------------------------------------------------------------
(* Operators.                                                              *)

\* DismissGroup updates the row and leaves the cached settings alone.
DismissGroup(o) ==
  /\ opPc[o] = "idle" /\ Begin
  /\ group' = [group EXCEPT !.dismissed = TRUE]
  /\ Impose("dismissed")
  /\ UNCHANGED <<cache, status, role, mutes, opPc, send, leaks, faults>>

\* UpdateSettings writes the row, then deletes the cached settings ...
UpdateSettings(o, b) ==
  /\ opPc[o] = "idle" /\ Begin
  /\ group' = [group EXCEPT !.muteAll = b]
  /\ opPc' = [opPc EXCEPT ![o] = "invalidate"]
  /\ IF b THEN UNCHANGED <<bars, barred>> ELSE Lift("muteAll")
  /\ UNCHANGED <<cache, status, role, mutes, send, leaks, faults>>

\* ... and has taken effect when that returns.
Invalidate(o) ==
  /\ opPc[o] = "invalidate"
  /\ cache' = None
  /\ opPc' = [opPc EXCEPT ![o] = "idle"]
  /\ IF group.muteAll THEN Impose("muteAll") ELSE UNCHANGED <<bars, barred>>
  /\ UNCHANGED <<group, status, role, mutes, send, leaks, ops, faults>>

\* DEL fails: the operator sees an error, the row stays written.
InvalidateError(o) ==
  /\ opPc[o] = "invalidate" /\ Fault
  /\ opPc' = [opPc EXCEPT ![o] = "idle"]
  /\ UNCHANGED <<group, cache, status, role, mutes, send, bars, barred, leaks, ops>>

\* MarkMemberStatus, by KickMember or by the sender's LeaveGroup.
MarkMemberStatus(o) ==
  /\ opPc[o] = "idle" /\ Begin
  /\ status' \in {"kicked", "left"}
  /\ Impose("gone")
  /\ UNCHANGED <<group, cache, role, mutes, opPc, send, leaks, faults>>

\* Mutant: joining again clears the mute.
AddMemberUnmuted(o) ==
  /\ opPc[o] = "idle" /\ Begin
  /\ status' = "normal" /\ role' = "member" /\ mutes' = 0
  /\ Lift("gone")
  /\ UNCHANGED <<group, cache, opPc, send, leaks, faults>>

\* A former member is let in again: by JoinGroup as a plain member, by
\* ApproveJoinRequest with the role the row still has.
AddMember(o) ==
  /\ opPc[o] = "idle" /\ Begin
  /\ status' = "normal" /\ role' \in {"member", role}
  /\ Lift("gone")
  /\ UNCHANGED <<group, cache, mutes, opPc, send, leaks, faults>>

\* UpdateMemberRole: admins are exempt from mute_all.
UpdateMemberRole(o, x) ==
  /\ opPc[o] = "idle" /\ Begin
  /\ role' = IF status = "normal" THEN x ELSE role
  /\ barred' = [c \in Caller |-> IF role' = "member" THEN barred[c] ELSE barred[c] \ {"muteAll"}]
  /\ UNCHANGED <<group, cache, status, mutes, opPc, send, bars, leaks, faults>>

\* UpsertMute: cancel the active records, whose error is dropped ...
UpsertMute(o) ==
  /\ opPc[o] = "idle" /\ Begin
  /\ \/ mutes' = 0 /\ UNCHANGED faults
     \/ Fault /\ UNCHANGED mutes
  /\ opPc' = [opPc EXCEPT ![o] = "insert"]
  /\ UNCHANGED <<group, cache, status, role, send, bars, barred, leaks>>

\* ... then insert the new one, in a statement of its own.
InsertMute(o) ==
  /\ opPc[o] = "insert"
  /\ \/ mutes' = mutes + 1 /\ Impose("muted") /\ UNCHANGED faults
     \/ Fault /\ UNCHANGED <<mutes, bars, barred>>
  /\ opPc' = [opPc EXCEPT ![o] = "idle"]
  /\ UNCHANGED <<group, cache, status, role, send, leaks, ops>>

CancelMute(o) ==
  /\ opPc[o] = "idle" /\ Begin
  /\ mutes' = 0
  /\ Lift("muted")
  /\ UNCHANGED <<group, cache, status, role, opPc, send, leaks, faults>>

\* expire_at of one record passes.
MuteExpires ==
  /\ mutes > 0 /\ Begin
  /\ mutes' = mutes - 1
  /\ IF mutes = 1 THEN Lift("muted") ELSE UNCHANGED <<bars, barred>>
  /\ UNCHANGED <<group, cache, status, role, opPc, send, leaks, faults>>

\* Mutant: the cached settings have no expiry.
CacheKept == FALSE /\ UNCHANGED vars

\* The ten minutes of the cached settings are over.
CacheExpires ==
  /\ cache # None
  /\ cache' = None
  /\ UNCHANGED <<group, status, role, mutes, opPc, send, bars, barred, leaks, ops, faults>>

-----------------------------------------------------------------------------
(* SendGroupMessage.                                                       *)

Goto(c, l) == pc' = [pc EXCEPT ![c] = l]
Return(c) ==
  /\ Goto(c, "idle")
  /\ config' = [config EXCEPT ![c] = None]
  /\ barred' = [barred EXCEPT ![c] = {}]

BeginSend(c) ==
  /\ pc[c] = "idle"
  /\ Goto(c, "cache")
  /\ barred' = [barred EXCEPT ![c] = {x \in bars : x = "muteAll" => role = "member"}]
  /\ UNCHANGED <<group, cache, status, role, mutes, opPc, config, bars, leaks, ops, faults>>

\* getGroupConfig: a miss, or a Redis error, goes to MySQL.
ReadCache(c) ==
  /\ pc[c] = "cache"
  /\ \/ cache # None /\ Goto(c, "member") /\ config' = [config EXCEPT ![c] = cache] /\ UNCHANGED faults
     \/ cache = None /\ Goto(c, "fetch") /\ UNCHANGED <<config, faults>>
     \/ Fault /\ Goto(c, "fetch") /\ UNCHANGED config
  /\ UNCHANGED <<group, cache, status, role, mutes, opPc, bars, barred, leaks, ops>>

FetchGroup(c) ==
  /\ pc[c] = "fetch"
  /\ config' = [config EXCEPT ![c] = group]
  /\ Goto(c, "fill")
  /\ UNCHANGED <<group, cache, status, role, mutes, opPc, bars, barred, leaks, ops, faults>>

\* cacheGroupConfig: SET without a look at what is there; an error is dropped.
FillCache(c) ==
  /\ pc[c] = "fill"
  /\ \/ cache' = config[c] /\ UNCHANGED faults
     \/ Fault /\ UNCHANGED cache
  /\ Goto(c, "member")
  /\ UNCHANGED <<group, status, role, mutes, opPc, config, bars, barred, leaks, ops>>

\* Mutant: the status of the member is not looked at.
RefusedAnyStatus(c) ==
  \/ config[c].dismissed
  \/ config[c].muteAll /\ role = "member"

\* The status check, then GetMember and the checks of its row.
Refused(c) ==
  \/ config[c].dismissed
  \/ status # "normal"
  \/ config[c].muteAll /\ role = "member"

CheckMember(c) ==
  /\ pc[c] = "member"
  /\ IF Refused(c)
     THEN Return(c)
     ELSE Goto(c, "muted") /\ UNCHANGED <<config, barred>>
  /\ UNCHANGED <<group, cache, status, role, mutes, opPc, bars, leaks, ops, faults>>

IsMuted(c) ==
  /\ pc[c] = "muted"
  /\ IF mutes > 0
     THEN Return(c)
     ELSE Goto(c, "insert") /\ UNCHANGED <<config, barred>>
  /\ UNCHANGED <<group, cache, status, role, mutes, opPc, bars, leaks, ops, faults>>

\* A rate limit or an error ends the call.
GiveUp(c) ==
  /\ pc[c] # "idle"
  /\ Return(c)
  /\ UNCHANGED <<group, cache, status, role, mutes, opPc, bars, leaks, ops, faults>>

\* The message is stored (SendPath has the steps this takes).
Accept(c) ==
  /\ pc[c] = "insert"
  /\ leaks' = leaks \union barred[c]
  /\ Return(c)
  /\ UNCHANGED <<group, cache, status, role, mutes, opPc, bars, ops, faults>>

-----------------------------------------------------------------------------
SendStep(c) ==
  ReadCache(c) \/ FetchGroup(c) \/ FillCache(c) \/ CheckMember(c) \/ IsMuted(c) \/ Accept(c)
  \/ GiveUp(c)

OperatorStep(o) == Invalidate(o) \/ InvalidateError(o) \/ InsertMute(o)

Operate(o) ==
  \/ DismissGroup(o) \/ (\E b \in BOOLEAN : UpdateSettings(o, b))
  \/ MarkMemberStatus(o) \/ AddMember(o)
  \/ (\E x \in {"admin", "member"} : UpdateMemberRole(o, x))
  \/ UpsertMute(o) \/ CancelMute(o)

Next ==
  \/ \E o \in Operator : Operate(o) \/ OperatorStep(o)
  \/ MuteExpires \/ CacheExpires
  \/ \E c \in Caller : BeginSend(c) \/ SendStep(c)

Spec == Init /\ [][Next]_vars

\* Goroutines run on, and a key with a TTL expires.
Fairness ==
  /\ \A c \in Caller : WF_vars(SendStep(c))
  /\ \A o \in Operator : WF_vars(OperatorStep(o))
  /\ WF_vars(CacheExpires)

FairSpec == Spec /\ Fairness

-----------------------------------------------------------------------------
(* Properties.                                                             *)

\* The types of the state of both sides.
TypeOK ==
  /\ group \in Config
  /\ cache \in Config \union {None}
  /\ status \in {"normal", "kicked", "left"} /\ role \in {"member", "admin"}
  /\ mutes \in Nat
  /\ opPc \in [Operator -> {"idle", "invalidate", "insert"}]
  /\ pc \in [Caller -> {"idle", "cache", "fetch", "fill", "member", "muted", "insert"}]
  /\ config \in [Caller -> Config \union {None}]
  /\ bars \subseteq Reason /\ leaks \subseteq Reason
  /\ barred \in [Caller -> SUBSET Reason]
  /\ ops \in Nat /\ faults \in Nat

\* A send that begins after its sender was kicked or left is never stored,
\* unless he is let in again meanwhile (GetMember bypasses the cache).
GoneNeverSends == "gone" \notin leaks

\* Once operators are done, every send is in the end decided by the settings
\* that are in the database: nothing older lives in the cache or in a call for
\* ever, whatever invalidations failed and whatever stale fills came late.
EventuallyFresh ==
  <>[](/\ cache \in {None, group}
       /\ \A c \in Caller : config[c] \in {None, group})

\* A mute that is in force is in the table, except while an operator renews it
\* or after one failed to (UpsertMute cancels before it inserts).
MuteHolds ==
  "muted" \in bars => mutes > 0 \/ faults > 0 \/ \E o \in Operator : opPc[o] = "insert"
=============================================================================
