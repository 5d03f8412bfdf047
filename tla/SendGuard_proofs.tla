-------------------------- MODULE SendGuard_proofs --------------------------
(***************************************************************************)
(* Proofs about SendGuard, for any number of sends, operators and faults.  *)
(***************************************************************************)
EXTENDS SendGuard, TLAPS

\* A send that has begun after its sender had gone has not passed CheckMember
\* as long as he is away.
GoneOK ==
  /\ "gone" \in bars <=> status # "normal"
  /\ \A c \in Caller : "gone" \in barred[c] =>
       status # "normal" /\ pc[c] \notin {"muted", "insert"}

IInv == TypeOK /\ GoneOK /\ GoneNeverSends /\ MuteHolds

LEMMA InitIInv == Init => IInv
BY DEF Init, IInv, TypeOK, GoneOK, GoneNeverSends, MuteHolds, Config, Reason

\* Taking a reason up or dropping it keeps the types of the history.
LEMMA ImposeLift ==
  ASSUME TypeOK, NEW x \in Reason, Impose(x) \/ Lift(x)
  PROVE  bars' \subseteq Reason /\ barred' \in [Caller -> SUBSET Reason]
<1>1. CASE Impose(x)
  BY <1>1 DEF Impose, TypeOK
<1>2. CASE Lift(x)
  <2>1. \A c \in Caller : barred[c] \ {x} \in SUBSET Reason
    BY DEF TypeOK
  <2> QED BY <1>2, <2>1 DEF Lift, TypeOK
<1> QED BY <1>1, <1>2

-----------------------------------------------------------------------------
\* The step of an operator, or of time, keeps the invariant.
LEMMA OperatorKeeps ==
  ASSUME IInv, NEW o \in Operator, Operate(o) \/ OperatorStep(o)
  PROVE  IInv'
<1> USE GuardAssumption, NoneAssumption DEF IInv, TypeOK, GoneOK, GoneNeverSends, MuteHolds,
        Config, Reason, Begin, Fault, Impose, Lift, send
<1>1. CASE DismissGroup(o)
  <2>1. bars' = bars \union {"dismissed"} /\ UNCHANGED <<barred, status, role, mutes, opPc, pc, config, leaks, faults, cache>>
    BY <1>1 DEF DismissGroup
  <2>2. group' \in Config /\ ops' \in Nat
    <3>1. group' = [group EXCEPT !.dismissed = TRUE] /\ ops' = ops + 1
      BY <1>1 DEF DismissGroup
    <3>2. \A g \in Config : [g EXCEPT !.dismissed = TRUE] \in Config
      OBVIOUS
    <3> QED BY <3>1, <3>2
  <2>3. TypeOK'
    BY <2>1, <2>2
  <2>4. GoneOK' /\ GoneNeverSends' /\ MuteHolds'
    BY <2>1
  <2> QED BY <2>3, <2>4
<1>2. ASSUME NEW b \in BOOLEAN, UpdateSettings(o, b) PROVE IInv'
  BY <1>2 DEF UpdateSettings
<1>3. CASE Invalidate(o) \/ InvalidateError(o)
  <2>1. /\ bars' = bars \/ bars' = bars \union {"muteAll"}
        /\ UNCHANGED <<barred, group, status, role, mutes, pc, config, leaks, ops>>
        /\ opPc[o] = "invalidate" /\ opPc' = [opPc EXCEPT ![o] = "idle"]
        /\ cache' \in {cache, None}
        /\ faults' \in {faults, faults + 1}
    BY <1>3 DEF Invalidate, InvalidateError
  <2>2. TypeOK'
    <3>1. bars' \subseteq Reason
      BY <2>1
    <3>2. opPc' \in [Operator -> {"idle", "invalidate", "insert"}]
      BY <2>1
    <3> QED BY <2>1, <3>1, <3>2
  <2>3. GoneOK' /\ GoneNeverSends'
    BY <2>1
  <2>4. MuteHolds'
    <3>1. \A p \in Operator : opPc[p] = "insert" => opPc'[p] = "insert"
      BY <2>1
    <3> QED BY <2>1, <3>1
  <2> QED BY <2>2, <2>3, <2>4
<1>4. CASE MarkMemberStatus(o)
  BY <1>4 DEF MarkMemberStatus
<1>5. CASE AddMember(o)
  BY <1>5 DEF AddMember
<1>6. ASSUME NEW x \in {"admin", "member"}, UpdateMemberRole(o, x) PROVE IInv'
  BY <1>6 DEF UpdateMemberRole
<1>7. CASE UpsertMute(o)
  BY <1>7 DEF UpsertMute
<1>8. CASE InsertMute(o)
  <2>1. /\ \/ mutes' = mutes + 1 /\ bars' = bars \union {"muted"} /\ UNCHANGED faults
           \/ faults' = faults + 1 /\ UNCHANGED <<mutes, bars>>
        /\ UNCHANGED <<barred, group, cache, status, role, pc, config, leaks, ops>>
        /\ opPc' = [opPc EXCEPT ![o] = "idle"]
    BY <1>8 DEF InsertMute
  <2>2. TypeOK'
    <3>1. bars' \subseteq Reason
      BY <2>1
    <3>2. opPc' \in [Operator -> {"idle", "invalidate", "insert"}]
      BY <2>1
    <3>3. mutes' \in Nat /\ faults' \in Nat
      BY <2>1
    <3> QED BY <2>1, <3>1, <3>2, <3>3
  <2>3. GoneOK' /\ GoneNeverSends'
    BY <2>1
  <2>4. mutes' > 0 \/ faults' > 0
    BY <2>1
  <2> QED BY <2>2, <2>3, <2>4
<1>9. CASE CancelMute(o)
  BY <1>9 DEF CancelMute
<1> QED BY <1>1, <1>2, <1>3, <1>4, <1>5, <1>6, <1>7, <1>8, <1>9 DEF Operate, OperatorStep

LEMMA TimeKeeps ==
  ASSUME IInv, MuteExpires \/ CacheExpires
  PROVE  IInv'
<1> USE DEF IInv, TypeOK, GoneOK, GoneNeverSends, MuteHolds, Reason
<1>1. CASE MuteExpires
  <2>1. /\ mutes > 0 /\ mutes' = mutes - 1 /\ ops' = ops + 1
        /\ UNCHANGED <<group, cache, status, role, opPc, pc, config, leaks, faults>>
        /\ \/ mutes = 1 /\ bars' = bars \ {"muted"}
              /\ barred' = [c \in Caller |-> barred[c] \ {"muted"}]
           \/ mutes # 1 /\ UNCHANGED <<bars, barred>>
    BY <1>1 DEF MuteExpires, Begin, Lift, send
  <2>2. TypeOK'
    <3>1. bars' \subseteq Reason /\ barred' \in [Caller -> SUBSET Reason]
      <4>1. Lift("muted") \/ UNCHANGED <<bars, barred>>
        BY <2>1 DEF Lift
      <4> QED BY <4>1, ImposeLift
    <3>2. mutes' \in Nat /\ ops' \in Nat
      BY <2>1
    <3> QED BY <2>1, <3>1, <3>2
  <2>3. GoneOK' /\ GoneNeverSends'
    BY <2>1
  <2>4. MuteHolds'
    BY <2>1
  <2> QED BY <2>2, <2>3, <2>4
<1>2. CASE CacheExpires
  BY <1>2 DEF CacheExpires, send
<1> QED BY <1>1, <1>2

-----------------------------------------------------------------------------
\* A send keeps it: CheckMember lets pass only who is a member, and a send that
\* is past it has no 'gone' among the reasons it is barred for.
LEMMA SendKeeps ==
  ASSUME IInv, NEW c \in Caller, BeginSend(c) \/ SendStep(c)
  PROVE  IInv'
<1> USE DEF IInv, TypeOK, GoneOK, GoneNeverSends, MuteHolds, Config, Reason, Fault,
        Goto, Return
<1>1. CASE BeginSend(c)
  BY <1>1 DEF BeginSend
<1>2. CASE ReadCache(c)
  BY <1>2 DEF ReadCache
<1>3. CASE FetchGroup(c)
  BY <1>3 DEF FetchGroup
<1>4. CASE FillCache(c)
  BY <1>4 DEF FillCache
<1>5. CASE CheckMember(c)
  BY <1>5 DEF CheckMember, Refused
<1>6. CASE IsMuted(c)
  BY <1>6 DEF IsMuted
<1>7. CASE Accept(c)
  BY <1>7 DEF Accept
<1>8. CASE GiveUp(c)
  BY <1>8 DEF GiveUp
<1> QED BY <1>1, <1>2, <1>3, <1>4, <1>5, <1>6, <1>7, <1>8 DEF SendStep

THEOREM Invariance == Spec => []IInv
<1>1. IInv /\ UNCHANGED vars => IInv'
  BY DEF IInv, TypeOK, GoneOK, GoneNeverSends, MuteHolds, vars, send
<1>2. IInv /\ [Next]_vars => IInv'
  BY <1>1, OperatorKeeps, TimeKeeps, SendKeeps DEF Next
<1> QED BY <1>2, InitIInv, PTL DEF Spec

-----------------------------------------------------------------------------
\* The state is well-typed.
THEOREM TypeCorrect == Spec => []TypeOK
BY Invariance, PTL DEF IInv

\* Whoever was kicked or left sends nothing until he is let in again
\* (SendGroupMessage reads the member from MySQL on every send).
THEOREM GoneStaysOut == Spec => []GoneNeverSends
BY Invariance, PTL DEF IInv

\* Without errors a mute in force is missing from the table only while an
\* operator renews it (UpsertMute).
THEOREM MutesHold == Spec => []MuteHolds
BY Invariance, PTL DEF IInv
=============================================================================
