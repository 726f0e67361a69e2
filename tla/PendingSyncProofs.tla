------------------------- MODULE PendingSyncProofs -------------------------
(***************************************************************************)
(* Proofs about PendingSync, for any targets, clients, syncers, limits and *)
(* faults: types, that an unmarked target is synchronised unless its last  *)
(* mark was lost, and that a marked one without a count is not served.     *)
(***************************************************************************)
EXTENDS PendingSync, FiniteSetTheorems, TLAPS

\* Somebody still has to mark t, or its mark was lost.
Dirty(t) == t \in lost \/ \E c \in Client : marking[c] = t

\* A stale worker has written t and is about to lose the mark.
Overwritten(t) ==
    \E w \in Worker : target[w] = t /\ at[w] = "remove" /\ stale[w]

Good(t) == likeCount[t] = Size(t) \/ Dirty(t) \/ Overwritten(t)

\* What a worker carries is the number of likers, unless a mark is due.
Fresh(w) ==
    at[w] \in {"write", "remove"} /\ ~stale[w]
        => value[w] = Size(target[w]) \/ Dirty(target[w])

\* A worker that removes a mark leaves a good row behind.
MayRemove(w) == at[w] = "remove" /\ ~stale[w] => Good(target[w])

Inv ==
    /\ \A w \in Worker : Fresh(w) /\ MayRemove(w)
    /\ \A t \in Target : t \notin pending => Good(t)

IInv == TypeOK /\ Inv

USE DEF Goes, Takes, Changed, Updates, Skips, Ends

LEMMA SizeType == ASSUME TargetTypes, NEW t \in Target PROVE Size(t) \in Nat
<1>1. IsFiniteSet(relation[t])
    BY FS_Subset, PendingAssumption DEF TargetTypes
<1> QED BY <1>1, FS_CardinalityType DEF Size

LEMMA LimitTypes == ASSUME BoundTypes
                    PROVE  limits.changes \in Nat /\ limits.faults \in Nat
                           /\ limits.repairs \in Nat
    BY PendingAssumption DEF BoundTypes

LEMMA FaultType == ASSUME BoundTypes, Fault, UNCHANGED <<limits, changes, repairs>>
                   PROVE  BoundTypes'
    BY LimitTypes DEF BoundTypes, Fault

LEMMA SameBounds == ASSUME BoundTypes, UNCHANGED <<limits, changes, repairs, faults>>
                    PROVE  BoundTypes'
    BY DEF BoundTypes

LEMMA InitInv == Init => IInv
<1>1. SUFFICES ASSUME Init PROVE IInv
    OBVIOUS
<1>2. TargetTypes
    BY <1>1 DEF Init, TargetTypes
<1>3. WorkerTypes
    BY <1>1 DEF Init, WorkerTypes, Worker
<1>4. BoundTypes
    BY <1>1, PendingAssumption DEF Init, BoundTypes
<1>5. Inv
    BY <1>1, FS_EmptySet DEF Init, Inv, Fresh, MayRemove, Good, Size
<1> QED BY <1>2, <1>3, <1>4, <1>5 DEF IInv, TypeOK

-----------------------------------------------------------------------------
(* Types.                                                                  *)

LEMMA ClientTypes ==
    ASSUME TypeOK, NEW c \in Client,
           Mark(c) \/ MarkFails(c) \/ \E t \in Target : Change(c, t)
    PROVE  TypeOK'
<1> USE DEF TypeOK, clientVars, redisVars, workerVars, boundVars
<1>1. CASE Mark(c)
    BY <1>1, SameBounds DEF Mark, TargetTypes, WorkerTypes
<1>2. CASE MarkFails(c)
    BY <1>2, FaultType DEF MarkFails, TargetTypes, WorkerTypes
<1>3. ASSUME NEW t \in Target, Change(c, t) PROVE TypeOK'
  <2>1. BoundTypes'
      BY <1>3, LimitTypes DEF Change, BoundTypes
  <2>2. count' \in [Target -> Nat \cup {NoKey}]
      BY <1>3, PendingAssumption DEF Change, CountOr0, TargetTypes
  <2>3. TargetTypes'
      BY <1>3, <2>2 DEF Change, TargetTypes
  <2>4. WorkerTypes'
      BY <1>3 DEF Change, WorkerTypes
  <2> QED BY <2>1, <2>3, <2>4
<1> QED BY <1>1, <1>2, <1>3

LEMMA SyncerTypes ==
    ASSUME TypeOK, NEW s \in Syncer,
           SyncerStep(s) \/ SyncFails(s) \/ Stop(s) \/ Quit(s)
    PROVE  TypeOK'
<1> USE DEF TypeOK, clientVars, redisVars, workerVars, boundVars
<1>0. s \in Worker /\ s \notin Hand
    BY PendingAssumption DEF Worker
<1>1. CASE Tick(s)
  <2>1. list' \in [Syncer -> SUBSET Target]
      BY <1>1 DEF Tick, Batch, TargetTypes, WorkerTypes
  <2>2. WorkerTypes'
      BY <1>0, <1>1, <2>1 DEF Tick, WorkerTypes
  <2> QED BY <1>1, <2>2, SameBounds DEF Tick, TargetTypes
<1>2. CASE ReadRelation(s)
  <2>1. target[s] \in Target
      BY <1>0, <1>2 DEF ReadRelation, WorkerTypes
  <2>2. Size(target[s]) \in Nat
      BY <2>1, SizeType
  <2>3. WorkerTypes'
      BY <1>0, <1>2, <2>2 DEF ReadRelation, WorkerTypes
  <2> QED BY <1>2, <2>3, SameBounds DEF ReadRelation, TargetTypes
<1>3. CASE Write(s)
  <2>1. TargetTypes'
      BY <1>0, <1>3 DEF Write, TargetTypes, WorkerTypes
  <2>2. WorkerTypes'
      BY <1>0, <1>3 DEF Write, WorkerTypes
  <2> QED BY <1>3, <2>1, <2>2, SameBounds DEF Write
<1>4. CASE Remove(s)
  <2>1. target[s] \in Target
      BY <1>0, <1>4 DEF Remove, WorkerTypes
  <2>2. TargetTypes'
      BY <1>4, <2>1 DEF Remove, Loses, TargetTypes
  <2>3. WorkerTypes'
      BY <1>0, <1>4 DEF Remove, WorkerTypes
  <2>4. BoundTypes'
      BY <1>4, SameBounds, FaultType DEF Remove
  <2> QED BY <2>2, <2>3, <2>4
<1>5. ASSUME NEW t \in Target, ReadCount(s, t) PROVE TypeOK'
  <2>0. t # NoTarget
      BY PendingAssumption
  <2>2. CASE count[t] = NoKey
      BY <1>0, <1>5, <2>2, SameBounds DEF ReadCount, WorkerTypes, TargetTypes
  <2>3. CASE count[t] # NoKey
    <3>1. /\ at' = [at EXCEPT ![s] = "relation"] /\ t \in list[s]
          /\ target' = [target EXCEPT ![s] = t]
          /\ UNCHANGED <<life, list, value, stale>>
          /\ at[s] = "idle"
        BY <1>5, <2>3 DEF ReadCount
    <3>2. WorkerTypes'
      <4>1. /\ at' \in [Worker -> {"idle", "relation", "set", "write", "remove"}]
            /\ target' \in [Worker -> Target \cup {NoTarget}]
          BY <3>1 DEF WorkerTypes
      <4>2. \A w \in Worker : at'[w] = "idle" <=> target'[w] = NoTarget
          BY <1>0, <2>0, <3>1 DEF WorkerTypes
      <4>3. \A x \in Syncer :
              /\ at'[x] # "set"
              /\ at'[x] # "idle" => target'[x] \in list'[x]
              /\ life'[x] = "stopped" => list'[x] = {}
          BY <1>0, <3>1 DEF WorkerTypes, Worker
      <4>4. \A f \in Hand : at'[f] # "remove"
          BY <1>0, <3>1 DEF WorkerTypes, Worker
      <4> QED BY <3>1, <4>1, <4>2, <4>3, <4>4 DEF WorkerTypes
    <3> QED BY <1>5, <3>2, SameBounds DEF ReadCount, TargetTypes
  <2> QED BY <2>2, <2>3
<1>6. CASE SyncFails(s)
  <2>1. target[s] \in Target
      BY <1>0, <1>6 DEF SyncFails, WorkerTypes
  <2>2. WorkerTypes'
      BY <1>0, <1>6 DEF SyncFails, WorkerTypes
  <2>3. TargetTypes'
      BY <1>0, <1>6, <2>1 DEF SyncFails, Loses, TargetTypes, WorkerTypes
  <2> QED BY <1>6, <2>2, <2>3, FaultType DEF SyncFails
<1>7. CASE Stop(s)
  <2>1. WorkerTypes'
      BY <1>7 DEF Stop, WorkerTypes
  <2> QED BY <1>7, <2>1, SameBounds DEF Stop, TargetTypes
<1>8. CASE Quit(s)
  <2>1. WorkerTypes'
      BY <1>8 DEF Quit, WorkerTypes
  <2> QED BY <1>8, <2>1, SameBounds DEF Quit, TargetTypes
<1> QED BY <1>1, <1>2, <1>3, <1>4, <1>5, <1>6, <1>7, <1>8 DEF SyncerStep

LEMMA HandTypes ==
    ASSUME TypeOK, NEW f \in Hand, HandStep(f)
    PROVE  TypeOK'
<1> USE DEF TypeOK, clientVars, redisVars, workerVars, boundVars
<1>0. f \in Worker /\ f \notin Syncer
    BY PendingAssumption DEF Worker
<1>1. CASE ForceWrite(f)
  <2>1. target[f] \in Target
      BY <1>0, <1>1 DEF ForceWrite, WorkerTypes
  <2>2. TargetTypes'
      BY <1>0, <1>1, <2>1 DEF ForceWrite, Loses, TargetTypes, WorkerTypes
  <2>3. WorkerTypes'
      BY <1>0, <1>1 DEF ForceWrite, WorkerTypes
  <2>4. BoundTypes'
      BY <1>1, SameBounds, FaultType DEF ForceWrite
  <2> QED BY <2>2, <2>3, <2>4
<1>2. CASE Compare(f)
  <2>1. target[f] \in Target
      BY <1>0, <1>2 DEF Compare, WorkerTypes
  <2>2. Size(target[f]) \in Nat
      BY <2>1, SizeType
  <2>3. WorkerTypes'
    <3>1. ASSUME Ends(f), UNCHANGED <<life, list>> PROVE WorkerTypes'
        BY <1>0, <3>1 DEF WorkerTypes
    <3>2. ASSUME value' = [value EXCEPT ![f] = Size(target[f])], Goes(f, "set"),
                 at[f] = "relation", UNCHANGED <<life, list, target, stale>>
          PROVE  WorkerTypes'
        BY <1>0, <2>2, <3>2 DEF WorkerTypes
    <3> QED BY <1>2, <3>1, <3>2 DEF Compare
  <2> QED BY <1>2, <2>3, SameBounds DEF Compare, TargetTypes
<1>3. CASE SetCount(f)
  <2>1. TargetTypes'
      BY <1>0, <1>3 DEF SetCount, TargetTypes, WorkerTypes
  <2>2. WorkerTypes'
      BY <1>0, <1>3 DEF SetCount, WorkerTypes
  <2>3. BoundTypes'
      BY <1>3, SameBounds, FaultType DEF SetCount
  <2> QED BY <2>1, <2>2, <2>3
<1>4. ASSUME NEW t \in Target, ForceSync(f, t) \/ CheckAndFix(f, t) PROVE TypeOK'
  <2>1. count[t] \in Nat
      BY <1>4 DEF ForceSync, CheckAndFix, Begin, TargetTypes
  <2>2. WorkerTypes'
    <3>0. t # NoTarget
        BY PendingAssumption
    <3>1. /\ \/ at' = [at EXCEPT ![f] = "write"]
             \/ at' = [at EXCEPT ![f] = "relation"]
          /\ target' = [target EXCEPT ![f] = t]
          /\ value' = [value EXCEPT ![f] = count[t]]
          /\ UNCHANGED <<life, list>>
        BY <1>4 DEF ForceSync, CheckAndFix, Begin
    <3>2. stale' \in [Worker -> BOOLEAN]
        BY <1>4 DEF ForceSync, CheckAndFix, WorkerTypes
    <3>3. /\ at' \in [Worker -> {"idle", "relation", "set", "write", "remove"}]
          /\ target' \in [Worker -> Target \cup {NoTarget}]
          /\ value' \in [Worker -> Nat]
        BY <2>1, <3>1 DEF WorkerTypes
    <3>4. \A w \in Worker : at'[w] = "idle" <=> target'[w] = NoTarget
        BY <1>0, <3>0, <3>1 DEF WorkerTypes
    <3>5. \A s \in Syncer : at'[s] = at[s] /\ target'[s] = target[s]
        BY <1>0, <3>1 DEF WorkerTypes, Worker
    <3>6. \A g \in Hand : at'[g] # "remove"
        BY <1>0, <3>1 DEF WorkerTypes, Worker
    <3> QED BY <3>1, <3>2, <3>3, <3>4, <3>5, <3>6 DEF WorkerTypes
  <2>3. BoundTypes'
      BY <1>4, LimitTypes DEF ForceSync, CheckAndFix, Begin, BoundTypes
  <2> QED BY <1>4, <2>2, <2>3 DEF ForceSync, CheckAndFix, Begin, TargetTypes
<1> QED BY <1>1, <1>2, <1>3, <1>4 DEF HandStep

LEMMA ExpiryTypes ==
    ASSUME TypeOK, NEW t \in Target, CountExpires(t)
    PROVE  TypeOK'
<1> USE DEF TypeOK, clientVars, redisVars, workerVars, boundVars
<1>1. TargetTypes'
    BY DEF CountExpires, TargetTypes
<1>2. WorkerTypes'
    BY DEF CountExpires, WorkerTypes
<1> QED BY <1>1, <1>2, FaultType DEF CountExpires

LEMMA StutterTypes == ASSUME TypeOK, UNCHANGED vars PROVE TypeOK'
    BY DEF TypeOK, TargetTypes, WorkerTypes, BoundTypes, vars, clientVars,
           redisVars, workerVars, boundVars

LEMMA TypeStep == TypeOK /\ [Next]_vars => TypeOK'
    BY ClientTypes, SyncerTypes, HandTypes, ExpiryTypes, StutterTypes DEF Next

\* The package keeps its types, and a stopped syncer has left nothing undone,
\* for any targets, clients, syncers and bounds (Start, Stop, syncToMySQL).
THEOREM TypeCorrect == Spec => []TypeOK
<1>1. Init => TypeOK
    BY InitInv DEF IInv
<1> QED BY <1>1, TypeStep, PTL DEF Spec

-----------------------------------------------------------------------------
(* A mark that was not lost is served by somebody who read after it.       *)

\* What a step has to keep for the invariant: it suffices to look at the
\* targets and workers it touches.
LEMMA ClientInv ==
    ASSUME IInv, NEW c \in Client,
           Mark(c) \/ MarkFails(c) \/ \E t \in Target : Change(c, t)
    PROVE  Inv'
<1> USE DEF IInv, TypeOK, clientVars, redisVars, workerVars, boundVars
<1>1. CASE Mark(c)
  <2> DEFINE t == marking[c]
  <2>1. \A u \in Target : u # t => (Dirty(u) => Dirty(u)')
      BY <1>1 DEF Mark, Dirty, TargetTypes
  <2>2. \A u \in Target : Size(u)' = Size(u) /\ likeCount'[u] = likeCount[u]
      BY <1>1 DEF Mark, Size
  <2>3. \A w \in Worker : at'[w] = at[w] /\ target'[w] = target[w]
                          /\ value'[w] = value[w]
                          /\ (target[w] # t => stale'[w] = stale[w])
                          /\ (stale[w] => stale'[w])
      BY <1>1 DEF Mark, Carries, WorkerTypes
  <2>4. \A u \in Target : u # t => (Good(u) => Good(u)')
      BY <2>1, <2>2, <2>3 DEF Good, Overwritten
  <2>5. ASSUME NEW w \in Worker PROVE Fresh(w)' /\ MayRemove(w)'
    <3>1. CASE at[w] \notin {"write", "remove"}
        BY <2>3, <3>1 DEF Fresh, MayRemove
    <3>2. CASE at[w] \in {"write", "remove"} /\ target[w] = t
        BY <1>1, <2>3, <3>2 DEF Mark, Carries, Fresh, MayRemove, WorkerTypes
    <3>3. CASE at[w] \in {"write", "remove"} /\ target[w] # t
      <4>1. target[w] \in Target
          BY <3>3 DEF WorkerTypes
      <4> QED BY <2>1, <2>2, <2>3, <2>4, <3>3, <4>1 DEF Inv, Fresh, MayRemove
    <3> QED BY <3>1, <3>2, <3>3
  <2>6. ASSUME NEW u \in Target, u \notin pending' PROVE Good(u)'
      BY <1>1, <2>4, <2>6 DEF Mark, Inv
  <2> QED BY <2>5, <2>6 DEF Inv
<1>2. CASE MarkFails(c)
  <2>1. \A u \in Target : Dirty(u) => Dirty(u)'
      BY <1>2 DEF MarkFails, Dirty, TargetTypes
  <2> QED BY <1>2, <2>1
          DEF MarkFails, Inv, Fresh, MayRemove, Good, Overwritten, Size, WorkerTypes
<1>3. ASSUME NEW t \in Target, Change(c, t) PROVE Inv'
  <2>1. \A u \in Target : Dirty(u) => Dirty(u)'
      BY <1>3, PendingAssumption DEF Change, Dirty, TargetTypes
  <2>2. Dirty(t)'
      BY <1>3 DEF Change, Dirty, TargetTypes
  <2>3. \A u \in Target : u # t => Size(u)' = Size(u)
      BY <1>3 DEF Change, Size, TargetTypes
  <2> QED BY <1>3, <2>1, <2>2, <2>3
          DEF Change, Inv, Fresh, MayRemove, Good, Overwritten, WorkerTypes
<1> QED BY <1>1, <1>2, <1>3

\* Steps in which nobody's read or written count changes.
LEMMA QuietInv ==
    ASSUME IInv, UNCHANGED <<relation, likeCount, pending, marking, lost>>,
           \A w \in Worker : at'[w] \in {"write", "remove"} \/ at[w] = "remove" =>
                /\ at'[w] = at[w] /\ target'[w] = target[w]
                /\ value'[w] = value[w] /\ stale'[w] = stale[w]
    PROVE  Inv'
<1>1. \A t : (Dirty(t)' <=> Dirty(t)) /\ Size(t)' = Size(t)
    BY DEF Dirty, Size
<1>2. \A t : Overwritten(t) => Overwritten(t)'
    BY DEF Overwritten
<1>3. \A t : Good(t) => Good(t)'
    BY <1>1, <1>2 DEF Good
<1> QED BY <1>1, <1>3 DEF IInv, Inv, Fresh, MayRemove

\* A worker reads what it will write: whatever it read is the number of likers,
\* or it is stale.
LEMMA ReadInv ==
    ASSUME IInv, NEW x \in Worker, at[x] # "remove",
           UNCHANGED <<relation, likeCount, pending, marking, lost>>,
           \A w \in Worker \ {x} :
                /\ at'[w] = at[w] /\ target'[w] = target[w]
                /\ value'[w] = value[w] /\ stale'[w] = stale[w],
           at'[x] = "write", ~stale'[x] => value'[x] = Size(target'[x])
    PROVE  Inv'
<1>1. \A t : (Dirty(t)' <=> Dirty(t)) /\ Size(t)' = Size(t)
    BY DEF Dirty, Size
<1>2. \A t : Overwritten(t) => Overwritten(t)'
    BY DEF Overwritten
<1>3. \A t : Good(t) => Good(t)'
    BY <1>1, <1>2 DEF Good
<1>4. Fresh(x)' /\ MayRemove(x)'
    BY <1>1 DEF Fresh, MayRemove
<1>5. ASSUME NEW w \in Worker \ {x} PROVE Fresh(w)' /\ MayRemove(w)'
    BY <1>1, <1>3, <1>5 DEF IInv, Inv, Fresh, MayRemove
<1>6. \A t \in Target : t \notin pending' => Good(t)'
    BY <1>3 DEF IInv, Inv
<1> QED BY <1>4, <1>5, <1>6 DEF Inv

\* A worker writes and goes on to remove the mark, or is done.
LEMMA WriteInv ==
    ASSUME IInv, NEW x \in Worker, at[x] = "write",
           UNCHANGED <<relation, pending, marking>>,
           likeCount' = [likeCount EXCEPT ![target[x]] = value[x]],
           \A w \in Worker \ {x} :
                /\ at'[w] = at[w] /\ target'[w] = target[w]
                /\ value'[w] = value[w] /\ stale'[w] = stale[w],
           \/ /\ at'[x] = "remove" /\ target'[x] = target[x] /\ lost' = lost
              /\ value'[x] = value[x] /\ stale'[x] = stale[x]
           \/ at'[x] = "idle" /\ Loses(x)
    PROVE  Inv'
<1>a. target[x] \in Target /\ likeCount \in [Target -> Nat] /\ stale[x] \in BOOLEAN
    BY DEF IInv, TypeOK, TargetTypes, WorkerTypes
<1>b. PICK t \in Target : t = target[x]
    BY <1>a
<1>0. t = target[x] /\ likeCount \in [Target -> Nat] /\ stale[x] \in BOOLEAN
    BY <1>a, <1>b
<1>1. \A u : (Dirty(u) => Dirty(u)') /\ Size(u)' = Size(u)
    BY DEF Dirty, Size, Loses
<1>2. \A u : Overwritten(u) => Overwritten(u)'
    BY DEF Overwritten
<1>3. Good(t)'
  <2>1. CASE stale[x]
    <3>1. CASE at'[x] = "remove"
        BY <1>0, <2>1, <3>1 DEF Good, Overwritten
    <3>2. CASE at'[x] = "idle"
        BY <1>0, <2>1, <3>2 DEF Good, Dirty, Loses
    <3> QED BY <3>1, <3>2
  <2>2. CASE ~stale[x]
    <3>1. value[x] = Size(t) \/ Dirty(t)
        BY <1>0, <2>2 DEF IInv, Inv, Fresh
    <3>2. likeCount'[t] = value[x]
        BY <1>0
    <3> QED BY <1>1, <3>1, <3>2 DEF Good
  <2> QED BY <1>0, <2>1, <2>2
<1>4. ASSUME NEW u \in Target, Good(u) PROVE Good(u)'
  <2>1. CASE u = t
      BY <1>3, <2>1
  <2>2. CASE u # t
    <3>1. likeCount'[u] = likeCount[u]
        BY <1>0, <2>2
    <3> QED BY <1>1, <1>2, <1>4, <3>1 DEF Good
  <2> QED BY <2>1, <2>2
<1>5. Fresh(x)' /\ MayRemove(x)'
    BY <1>0, <1>1, <1>3 DEF IInv, Inv, Fresh, MayRemove
<1>6. ASSUME NEW w \in Worker \ {x} PROVE Fresh(w)' /\ MayRemove(w)'
  <2>1. at[w] = "remove" => target[w] \in Target
      BY DEF IInv, TypeOK, WorkerTypes
  <2> QED BY <1>1, <1>4, <1>6, <2>1 DEF IInv, Inv, Fresh, MayRemove
<1>7. \A u \in Target : u \notin pending' => Good(u)'
    BY <1>4 DEF IInv, Inv
<1> QED BY <1>5, <1>6, <1>7 DEF Inv

LEMMA RemoveInv == ASSUME IInv, NEW s \in Syncer, Remove(s) PROVE Inv'
<1>a. s \in Worker /\ target[s] \in Target /\ stale[s] \in BOOLEAN
    BY DEF IInv, TypeOK, WorkerTypes, Worker, Remove
<1>b. PICK t \in Target : t = target[s]
    BY <1>a
<1>0. s \in Worker /\ t = target[s] /\ stale[s] \in BOOLEAN
    BY <1>a, <1>b
<1>1. \A u : (Dirty(u) => Dirty(u)') /\ Size(u)' = Size(u)
    BY DEF Dirty, Size, Remove, Loses, clientVars, redisVars
<1>2. /\ \A w \in Worker \ {s} : /\ at'[w] = at[w] /\ target'[w] = target[w]
                                 /\ value'[w] = value[w] /\ stale'[w] = stale[w]
      /\ at'[s] = "idle"
    BY <1>0 DEF Remove, IInv, TypeOK, WorkerTypes
<1>3. Good(t) => Good(t)'
  <2>1. CASE stale[s]
    <3>1. t \in lost'
        BY <1>0, <2>1 DEF Remove, Loses
    <3> QED BY <3>1 DEF Good, Dirty
  <2>2. CASE ~stale[s]
    <3>1. Overwritten(t) => Overwritten(t)'
        BY <1>0, <1>2, <2>2 DEF Overwritten
    <3>2. likeCount' = likeCount
        BY DEF Remove
    <3> QED BY <1>1, <3>1, <3>2 DEF Good
  <2> QED BY <1>0, <2>1, <2>2
<1>4. ASSUME NEW u \in Target, Good(u) PROVE Good(u)'
  <2>1. CASE u = t
      BY <1>3, <1>4, <2>1
  <2>2. CASE u # t
    <3>1. Overwritten(u) => Overwritten(u)'
        BY <1>0, <1>2, <2>2 DEF Overwritten
    <3>2. likeCount' = likeCount
        BY DEF Remove
    <3> QED BY <1>1, <1>4, <3>1, <3>2 DEF Good
  <2> QED BY <2>1, <2>2
<1>5. ASSUME NEW w \in Worker PROVE Fresh(w)' /\ MayRemove(w)'
  <2>1. at[w] = "remove" => target[w] \in Target
      BY DEF IInv, TypeOK, WorkerTypes
  <2> QED BY <1>1, <1>2, <1>4, <2>1 DEF IInv, Inv, Fresh, MayRemove
<1>6. ASSUME NEW u \in Target, u \notin pending' PROVE Good(u)'
  <2>1. CASE u # t \/ u \notin pending
      BY <1>0, <1>4, <1>6, <2>1 DEF Remove, IInv, Inv
  <2>2. CASE u = t /\ stale[s]
    <3>1. t \in lost'
        BY <1>0, <2>2 DEF Remove, Loses
    <3> QED BY <2>2, <3>1 DEF Good, Dirty
  <2>3. CASE u = t /\ ~stale[s]
      BY <1>0, <1>3, <2>3 DEF Remove, IInv, Inv, MayRemove
  <2> QED BY <1>0, <2>1, <2>2, <2>3
<1> QED BY <1>5, <1>6 DEF Inv

LEMMA SyncerInv ==
    ASSUME IInv, NEW s \in Syncer,
           SyncerStep(s) \/ SyncFails(s) \/ Stop(s) \/ Quit(s)
    PROVE  Inv'
<1> USE DEF clientVars, redisVars, workerVars, boundVars
<1>0. s \in Worker /\ WorkerTypes
    BY DEF IInv, TypeOK, Worker
<1>1. CASE Tick(s) \/ Stop(s) \/ Quit(s)
    BY <1>1, QuietInv DEF Tick, Stop, Quit
<1>2. CASE ReadRelation(s)
  <2>1. Size(target[s])' = Size(target[s])
      BY <1>2 DEF ReadRelation, Size
  <2>2. /\ value'[s] = Size(target[s]) /\ at'[s] = "write" /\ at[s] # "remove"
        /\ target'[s] = target[s]
      BY <1>0, <1>2 DEF ReadRelation, WorkerTypes
  <2>3. Size(target[s]) = Cardinality(relation'[target'[s]])
      BY <1>2, <2>2 DEF ReadRelation, Size
  <2>4. \A w \in Worker \ {s} :
                /\ at'[w] = at[w] /\ target'[w] = target[w]
                /\ value'[w] = value[w] /\ stale'[w] = stale[w]
      BY <1>0, <1>2 DEF ReadRelation, WorkerTypes
  <2> QED BY <1>0, <1>2, <2>2, <2>3, <2>4, ReadInv DEF ReadRelation, Size
<1>3. CASE Write(s)
  <2>1. /\ at'[s] = "remove" /\ at[s] = "write"
        /\ \A w \in Worker \ {s} :
                /\ at'[w] = at[w] /\ target'[w] = target[w]
                /\ value'[w] = value[w] /\ stale'[w] = stale[w]
      BY <1>0, <1>3 DEF Write, WorkerTypes
  <2> QED BY <1>0, <1>3, <2>1, WriteInv DEF Write
<1>4. CASE Remove(s)
    BY <1>4, RemoveInv
<1>5. ASSUME NEW t \in Target, ReadCount(s, t) PROVE Inv'
  <2>1. at[s] = "idle" /\ at'[s] \in {"idle", "relation"}
      BY <1>0, <1>5 DEF ReadCount, WorkerTypes
  <2>2. \A w \in Worker \ {s} : at'[w] = at[w] /\ target'[w] = target[w]
      BY <1>0, <1>5 DEF ReadCount, WorkerTypes
  <2>3. UNCHANGED <<relation, likeCount, pending, marking, lost, value, stale>>
      BY <1>5 DEF ReadCount
  <2> QED BY <1>0, <2>1, <2>2, <2>3, QuietInv
<1>6. CASE SyncFails(s)
  <2>1. at[s] \in {"relation", "write"} /\ at'[s] = "idle"
      BY <1>0, <1>6 DEF SyncFails, WorkerTypes
  <2>2. \A w \in Worker \ {s} :
                /\ at'[w] = at[w] /\ target'[w] = target[w]
                /\ value'[w] = value[w] /\ stale'[w] = stale[w]
      BY <1>0, <1>6 DEF SyncFails, WorkerTypes
  <2>3. UNCHANGED <<relation, pending, marking>>
      BY <1>6 DEF SyncFails
  <2>4. CASE at[s] = "write" /\ Updates(s) /\ Loses(s)
      BY <1>0, <2>1, <2>2, <2>3, <2>4, WriteInv
  <2>5. CASE UNCHANGED <<likeCount, lost>>
      BY <1>0, <2>1, <2>2, <2>3, <2>5, QuietInv
  <2> QED BY <1>6, <2>4, <2>5 DEF SyncFails
<1> QED BY <1>1, <1>2, <1>3, <1>4, <1>5, <1>6 DEF SyncerStep

LEMMA HandInv == ASSUME IInv, NEW f \in Hand, HandStep(f) PROVE Inv'
<1> USE DEF clientVars, redisVars, workerVars, boundVars
<1>0. f \in Worker /\ WorkerTypes
    BY DEF IInv, TypeOK, Worker
<1> DEFINE Others == \A w \in Worker \ {f} :
                /\ at'[w] = at[w] /\ target'[w] = target[w]
                /\ value'[w] = value[w] /\ stale'[w] = stale[w]
<1>1. CASE ForceWrite(f)
  <2>1. at[f] = "write" /\ at'[f] = "idle" /\ Others
      BY <1>0, <1>1 DEF ForceWrite, WorkerTypes
  <2>2. CASE Updates(f) /\ Loses(f)
      BY <1>0, <1>1, <2>1, <2>2, WriteInv DEF ForceWrite
  <2>3. CASE UNCHANGED <<likeCount, lost>>
      BY <1>0, <1>1, <2>1, <2>3, QuietInv DEF ForceWrite
  <2> QED BY <1>1, <2>2, <2>3 DEF ForceWrite
<1>2. CASE Compare(f)
  <2>1. at[f] = "relation" /\ at'[f] \in {"idle", "set"} /\ Others
      BY <1>0, <1>2 DEF Compare, WorkerTypes
  <2> QED BY <1>0, <1>2, <2>1, QuietInv DEF Compare
<1>3. CASE SetCount(f)
  <2>1. at[f] = "set" /\ at'[f] = "idle" /\ Others
      BY <1>0, <1>3 DEF SetCount, WorkerTypes
  <2> QED BY <1>0, <1>3, <2>1, QuietInv DEF SetCount
<1>4. ASSUME NEW t \in Target, ForceSync(f, t) PROVE Inv'
  <2>1. /\ at[f] = "idle" /\ at'[f] = "write" /\ target'[f] = t
        /\ value'[f] = count[t] /\ stale'[f] = (count[t] # Size(t))
      BY <1>0, <1>4 DEF ForceSync, Begin, WorkerTypes
  <2>2. Others
      BY <1>0, <1>4 DEF ForceSync, Begin, WorkerTypes
  <2>3. UNCHANGED <<relation, likeCount, pending, marking, lost>>
      BY <1>4 DEF ForceSync
  <2>4. ~stale'[f] => value'[f] = Size(target'[f])
      BY <2>1
  <2> QED BY <1>0, <2>1, <2>2, <2>3, <2>4, ReadInv
<1>5. ASSUME NEW t \in Target, CheckAndFix(f, t) PROVE Inv'
  <2>1. at[f] = "idle" /\ at'[f] = "relation" /\ Others
      BY <1>0, <1>5 DEF CheckAndFix, Begin, WorkerTypes
  <2> QED BY <1>0, <1>5, <2>1, QuietInv DEF CheckAndFix
<1> QED BY <1>1, <1>2, <1>3, <1>4, <1>5 DEF HandStep

LEMMA ExpiryInv == ASSUME IInv, NEW t \in Target, CountExpires(t) PROVE Inv'
    BY QuietInv DEF CountExpires, clientVars, workerVars

LEMMA StutterInv == ASSUME IInv, UNCHANGED vars PROVE Inv'
    BY QuietInv DEF vars, clientVars, workerVars, redisVars

LEMMA InvStep == IInv /\ [Next]_vars => IInv'
<1>1. SUFFICES ASSUME IInv, [Next]_vars PROVE Inv'
    BY TypeStep DEF IInv
<1> QED BY <1>1, ClientInv, SyncerInv, HandInv, ExpiryInv, StutterInv DEF Next

\* An unmarked target is synchronised unless its last mark failed or fell into
\* the window of syncSingleTarget and the removal after it, or of ForceSync,
\* whatever else fails and however many syncers run.
THEOREM UnmarkedIsSyncedHolds == Spec => []UnmarkedIsSynced
<1>1. IInv => UnmarkedIsSynced
  <2>1. SUFFICES ASSUME IInv, NEW t \in Target, t \notin pending, ~Busy(t),
                        t \notin lost
                 PROVE  likeCount[t] = Size(t)
      BY DEF UnmarkedIsSynced
  <2>2. Good(t) /\ ~Dirty(t) /\ ~Overwritten(t)
      BY <2>1 DEF IInv, Inv, Dirty, Overwritten, Busy, Carries
  <2> QED BY <2>2 DEF Good
<1> QED BY <1>1, InitInv, InvStep, PTL DEF Spec

----------------------------------------------------------------------------
(* The exception in MarksAreServed. *)

\* A marked target without a count, which nobody is at work on.
Forgotten(t) ==
    t \in pending /\ count[t] = NoKey /\ \A w \in Worker : target[w] # t

\* Only who changes t gives it a count, and only who is at work on it writes
\* its row or removes its mark.
LEMMA ForgottenStep ==
    ASSUME TypeOK, [Next]_vars, NEW t \in Target, Forgotten(t),
           \A c \in Client : ~Change(c, t)
    PROVE  Forgotten(t)' /\ likeCount'[t] = likeCount[t]
<1> USE DEF clientVars, redisVars, workerVars, boundVars
<1> DEFINE Goal == Forgotten(t)' /\ likeCount'[t] = likeCount[t]
<1>0. /\ count \in [Target -> Nat \cup {NoKey}] /\ likeCount \in [Target -> Nat]
      /\ target \in [Worker -> Target \cup {NoTarget}] /\ NoTarget # t
      /\ at \in [Worker -> {"idle", "relation", "set", "write", "remove"}]
      /\ \A w \in Worker : at[w] # "idle" => target[w] \in Target
      /\ Syncer \subseteq Worker /\ Hand \subseteq Worker
    BY PendingAssumption DEF TypeOK, TargetTypes, WorkerTypes, Worker
<1>1. CASE UNCHANGED vars
    BY <1>1 DEF vars, Forgotten
<1>2. ASSUME NEW c \in Client, Mark(c) \/ MarkFails(c) PROVE Goal
    BY <1>2 DEF Mark, MarkFails, Forgotten
<1>3. ASSUME NEW c \in Client, NEW u \in Target, Change(c, u) PROVE Goal
  <2>1. u # t /\ count'[t] = count[t]
      BY <1>0, <1>3 DEF Change
  <2> QED BY <1>3, <2>1 DEF Change, Forgotten
<1>4. ASSUME NEW s \in Syncer, Tick(s) \/ Stop(s) \/ Quit(s) \/ ReadRelation(s)
      PROVE  Goal
    BY <1>4 DEF Tick, Stop, Quit, ReadRelation, Forgotten
<1>5. ASSUME NEW s \in Syncer, NEW u \in Target, ReadCount(s, u) PROVE Goal
  <2>1. \A w \in Worker : target'[w] # t
    <3>1. CASE count[u] = NoKey
        BY <1>5, <3>1 DEF ReadCount, Forgotten
    <3>2. CASE count[u] # NoKey
      <4>1. u # t
          BY <3>2 DEF Forgotten
      <4> QED BY <1>0, <1>5, <3>2, <4>1 DEF ReadCount, Forgotten
    <3> QED BY <3>1, <3>2
  <2> QED BY <1>5, <2>1 DEF ReadCount, Forgotten
<1>6. ASSUME NEW s \in Syncer, Write(s) \/ Remove(s) \/ SyncFails(s) PROVE Goal
  <2>1. target[s] # t /\ target[s] \in Target
      BY <1>0, <1>6 DEF Write, Remove, SyncFails, Forgotten
  <2>2. \A w \in Worker : target'[w] # t
      BY <1>0, <1>6 DEF Write, Remove, SyncFails, Forgotten
  <2>3. count' = count /\ t \in pending' /\ likeCount'[t] = likeCount[t]
      BY <1>0, <1>6, <2>1 DEF Write, Remove, SyncFails, Forgotten
  <2> QED BY <2>2, <2>3 DEF Forgotten
<1>7. ASSUME NEW f \in Hand, NEW u \in Target, ForceSync(f, u) \/ CheckAndFix(f, u)
      PROVE  Goal
  <2>1. u # t
      BY <1>7 DEF ForceSync, CheckAndFix, Begin, Forgotten
  <2>2. \A w \in Worker : target'[w] # t
      BY <1>0, <1>7, <2>1 DEF ForceSync, CheckAndFix, Begin, Forgotten
  <2> QED BY <1>7, <2>2 DEF ForceSync, CheckAndFix, Forgotten
<1>8. ASSUME NEW f \in Hand, ForceWrite(f) \/ Compare(f) \/ SetCount(f) PROVE Goal
  <2>1. target[f] # t /\ target[f] \in Target
      BY <1>0, <1>8 DEF ForceWrite, Compare, SetCount, Forgotten
  <2>2. \A w \in Worker : target'[w] # t
      BY <1>0, <1>8 DEF ForceWrite, Compare, SetCount, Forgotten
  <2>3. count'[t] = count[t] /\ likeCount'[t] = likeCount[t] /\ pending' = pending
      BY <1>0, <1>8, <2>1 DEF ForceWrite, Compare, SetCount
  <2> QED BY <2>2, <2>3 DEF Forgotten
<1>9. ASSUME NEW u \in Target, CountExpires(u) PROVE Goal
    BY <1>0, <1>9 DEF CountExpires, Forgotten
<1> QED BY <1>1, <1>2, <1>3, <1>4, <1>5, <1>6, <1>7, <1>8, <1>9
        DEF Next, SyncerStep, HandStep

\* A marked target whose count has expired keeps its mark, and its row what it
\* has, until somebody likes it anew: no tick, ForceSync or CheckAndFix helps.
THEOREM ForgottenUntilChanged ==
    Spec => [][\A t \in Target : Forgotten(t) =>
                 \/ Forgotten(t)' /\ likeCount'[t] = likeCount[t]
                 \/ \E c \in Client : Change(c, t)]_vars
<1>1. TypeOK /\ [Next]_vars =>
        [\A t \in Target : Forgotten(t) =>
            \/ Forgotten(t)' /\ likeCount'[t] = likeCount[t]
            \/ \E c \in Client : Change(c, t)]_vars
    BY ForgottenStep
<1> QED BY <1>1, TypeCorrect, PTL DEF Spec
=============================================================================
