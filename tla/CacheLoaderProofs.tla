-------------------------- MODULE CacheLoaderProofs --------------------------
(***************************************************************************)
(* Proofs about CacheLoader, for any number of requests and replicas, any  *)
(* failures and any expiries.  The lock: at most one loader whose lock has *)
(* not expired, a lock that has an owner at work, and the whole of it an   *)
(* implementation of LeaseLock.  The reply: with an int64 no request       *)
(* caches anything.  The copies: only writes make them stale.  The         *)
(* requests: only the poll can be long.                                    *)
(***************************************************************************)
EXTENDS CacheLoader, TLAPS

\* A loader whose lock has not expired holds the lock.  OneLoader follows, for
\* stamps differ; it is not inductive alone, because it does not say that the
\* lock is taken while somebody is in the section.
Owns == \A r \in Request : InSection(r) /\ r \notin lapsed => lock = Stamp[r]

IInv == TypeOK /\ Owns /\ LockHasOwner

LEMMA InitInv == Init => IInv
<1>1. SUFFICES ASSUME Init PROVE IInv
    OBVIOUS
<1>2. [ver |-> 1, hot |-> TRUE] \in Post /\ [ver |-> 1, hot |-> FALSE] \in Post
    BY LoaderAssumption DEF Post
<1>3. row \in Maybe /\ [row EXCEPT !.hot = TRUE] \in Maybe
    BY <1>1, <1>2, LoaderAssumption DEF Init, Maybe, Post
<1>5. NoPost \in Maybe
    BY DEF Maybe
<1>6. pending \in [Replica -> Maybe]
  <2>1. {NoPost, [row EXCEPT !.hot = TRUE]} \subseteq Maybe
      BY <1>3, <1>5
  <2> QED BY <1>1, <2>1 DEF Init
<1>4. TypeOK
    BY <1>1, <1>3, <1>5, <1>6 DEF Init, TypeOK, Phases
<1> QED BY <1>1, <1>4 DEF Init, IInv, Owns, LockHasOwner, InSection, Section

-----------------------------------------------------------------------------
(* Types.                                                                  *)

LEMMA GoToFacts ==
    ASSUME TypeOK, NEW r \in Request, NEW p \in Phases, GoTo(r, p)
    PROVE  /\ phase' \in [Request -> Phases]
           /\ phase'[r] = p
           /\ \A s \in Request : s # r => phase'[s] = phase[s]
    BY DEF TypeOK, GoTo

LEMMA LookupTypes ==
    ASSUME TypeOK, NEW r \in Request,
           Begin(r) \/ LookupLocal(r) \/ LookupRedis(r) \/ Keep(r)
    PROVE  TypeOK'
<1>1. Home[r] \in Replica
    BY LoaderAssumption
<1>2. CASE Begin(r)
    BY <1>2 DEF Begin, TypeOK, GoTo, Phases, Lookups, stores, writers
<1>3. CASE LookupLocal(r)
  <2>1. AfterHit(r) \in Phases
      BY DEF AfterHit, Phases, Section
  <2>2. phase' \in [Request -> Phases] /\ missed' \in [Request -> BOOLEAN]
      BY <1>3, <2>1 DEF LookupLocal, TypeOK, GoTo
  <2> QED BY <1>3, <2>2 DEF LookupLocal, TypeOK, stores, writers
<1>4. CASE LookupRedis(r)
  <2>1. AfterHit(r) \in Phases /\ Keeping(r) \in Phases
      BY DEF AfterHit, Keeping, Phases, Section
  <2>2. phase[r] \in {"get", "recheck", "confirm", "wait"}
      BY <1>4 DEF LookupRedis, Lookups
  <2>3. AfterMiss(r) \in Phases
      BY <2>2 DEF AfterMiss, Phases, Section, Lookups
  <2>4. GoTo(r, Keeping(r)) \/ GoTo(r, AfterHit(r)) \/ GoTo(r, AfterMiss(r))
      BY <1>4 DEF LookupRedis
  <2>5. phase' \in [Request -> Phases] /\ missed' \in [Request -> BOOLEAN]
      BY <1>4, <2>1, <2>3, <2>4 DEF LookupRedis, TypeOK, GoTo
  <2>6. held' \in [Request -> Maybe]
      BY <1>4 DEF LookupRedis, TypeOK
  <2> QED BY <1>4, <2>5, <2>6 DEF LookupRedis, TypeOK, stores, writers
<1>5. CASE Keep(r)
  <2>1. AfterHit(r) \in Phases /\ NoPost \in Maybe
      BY DEF AfterHit, Phases, Section, Maybe
  <2>2. phase' \in [Request -> Phases]
      BY <1>5, <2>1 DEF Keep, TypeOK, GoTo
  <2> QED BY <1>1, <1>5, <2>1, <2>2 DEF Keep, TypeOK, writers
<1> QED BY <1>2, <1>3, <1>4, <1>5

LEMMA LockTypes ==
    ASSUME TypeOK, NEW r \in Request,
           TryLock(r) \/ TryLockFails(r) \/ Release(r) \/ ReleaseFails(r)
    PROVE  TypeOK'
<1>1. /\ "recheck" \in Phases /\ "wait" \in Phases
      /\ "direct" \in Phases /\ "idle" \in Phases
    BY DEF Phases, Section, Lookups
<1>2. AfterRelease(r) \in {Stamp[s] : s \in Request} \cup {NoLock}
    BY DEF AfterRelease, TypeOK
<1>3. NoPost \in Maybe
    BY DEF Maybe
<1>4. CASE TryLock(r)
    BY <1>1, <1>4 DEF TryLock, TypeOK, GoTo, stores, writers
<1>5. CASE TryLockFails(r)
    BY <1>1, <1>5 DEF TryLockFails, TypeOK, GoTo, stores, writers
<1>6. CASE Release(r)
    BY <1>1, <1>2, <1>3, <1>6 DEF Release, Leave, TypeOK, GoTo, stores, writers
<1>7. CASE ReleaseFails(r)
    BY <1>1, <1>2, <1>3, <1>7 DEF ReleaseFails, Leave, TypeOK, GoTo, stores, writers
<1> QED BY <1>4, <1>5, <1>6, <1>7

LEMMA SectionTypes ==
    ASSUME TypeOK, NEW r \in Request,
           \/ Load(r) \/ Store(r) \/ Fill(r) \/ DirectLoad(r)
           \/ WaitTimeout(r) \/ Cancelled(r)
    PROVE  TypeOK'
<1>1. /\ "confirm" \in Phases /\ "release" \in Phases /\ "fill" \in Phases
      /\ "direct" \in Phases /\ "idle" \in Phases
    BY DEF Phases, Section, Lookups
<1>2. CASE Load(r)
    BY <1>1, <1>2 DEF Load, TypeOK, GoTo, stores, writers
<1>3. CASE Store(r)
    BY <1>1, <1>3, LoaderAssumption DEF Store, TypeOK, GoTo, writers
<1>4. CASE Fill(r)
    BY <1>1, <1>4 DEF Fill, TypeOK, GoTo, writers
<1>5. CASE DirectLoad(r)
    BY <1>1, <1>5 DEF DirectLoad, TypeOK, GoTo, stores, writers
<1>6. CASE WaitTimeout(r) \/ Cancelled(r)
    BY <1>1, <1>6 DEF WaitTimeout, Cancelled, TypeOK, GoTo, stores, writers
<1> QED BY <1>2, <1>3, <1>4, <1>5, <1>6

LEMMA WriterTypes ==
    ASSUME TypeOK, NEW i \in Replica,
           \/ Update(i) \/ Delete(i) \/ DeletePostCache(i) \/ LocalExpires(i)
           \/ UpdateViewCount(i) \/ SetLocal(i)
    PROVE  TypeOK'
<1>1. NoPost \in Maybe
    BY DEF Maybe
<1>2. CASE Update(i)
  <2>1. row \in Post /\ row.ver < MaxVersion
      BY <1>2 DEF Update, TypeOK, Maybe
  <2>2. [row EXCEPT !.ver = @ + 1] \in Post
      BY <2>1, LoaderAssumption DEF Post
  <2> QED BY <1>2, <2>2 DEF Update, TypeOK, Maybe
<1>3. CASE Delete(i)
    BY <1>1, <1>3 DEF Delete, TypeOK
<1>4. CASE DeletePostCache(i)
    BY <1>1, <1>4 DEF DeletePostCache, TypeOK
<1>5. CASE LocalExpires(i)
    BY <1>1, <1>5 DEF LocalExpires, TypeOK, writers
<1>6. CASE UpdateViewCount(i)
    BY <1>6 DEF UpdateViewCount, TypeOK, stores
<1>7. CASE SetLocal(i)
    BY <1>1, <1>7 DEF SetLocal, TypeOK
<1> QED BY <1>2, <1>3, <1>4, <1>5, <1>6, <1>7

LEMMA EnvironmentTypes ==
    ASSUME TypeOK,
           \/ LockExpires \/ CacheExpires \/ BecomesHot
           \/ \E s \in Failing : ServiceFlips(s)
    PROVE  TypeOK'
<1>1. NoPost \in Maybe
    BY DEF Maybe
<1>2. CASE LockExpires
    BY <1>2 DEF LockExpires, TypeOK, stores, writers
<1>3. CASE CacheExpires
    BY <1>1, <1>3 DEF CacheExpires, TypeOK, writers
<1>4. CASE BecomesHot
  <2>1. row \in Post
      BY <1>4 DEF BecomesHot, TypeOK, Maybe
  <2>2. [row EXCEPT !.hot = TRUE] \in Post
      BY <2>1 DEF Post
  <2> QED BY <1>4, <2>2 DEF BecomesHot, TypeOK, Maybe, writers
<1>5. CASE \E s \in Failing : ServiceFlips(s)
  <2>1. PICK s \in Failing : ServiceFlips(s)
      BY <1>5
  <2>2. s \in {"redis", "mysql"}
      BY LoaderAssumption
  <2> QED BY <2>1, <2>2 DEF ServiceFlips, TypeOK, stores, writers
<1> QED BY <1>2, <1>3, <1>4, <1>5

LEMMA TypeStep == TypeOK /\ [Next]_vars => TypeOK'
<1>1. SUFFICES ASSUME TypeOK, [Next]_vars PROVE TypeOK'
    OBVIOUS
<1>2. CASE \E r \in Request : RequestStep(r) \/ WaitTimeout(r) \/ Cancelled(r)
    BY <1>1, <1>2, LookupTypes, LockTypes, SectionTypes DEF RequestStep
<1>3. CASE \E i \in Replica : \/ Update(i) \/ Delete(i) \/ DeletePostCache(i)
                               \/ UpdateViewCount(i) \/ SetLocal(i)
    BY <1>1, <1>3, WriterTypes
<1>4. CASE Expiry \/ BecomesHot \/ \E s \in Failing : ServiceFlips(s)
    BY <1>1, <1>4, WriterTypes, EnvironmentTypes DEF Expiry
<1>5. CASE UNCHANGED vars
    BY <1>1, <1>5 DEF vars, stores, writers, TypeOK
<1> QED BY <1>1, <1>2, <1>3, <1>4, <1>5 DEF Next

-----------------------------------------------------------------------------
(* The lock.                                                               *)

\* A step that leaves the lock and everybody's place in or out of the section.
Quiet ==
    /\ UNCHANGED <<lock, lapsed, orphaned, replyKind>>
    /\ \A s \in Request : InSection(s)' <=> InSection(s)

LEMMA QuietStep ==
    ASSUME Owns, LockHasOwner, Quiet
    PROVE  Owns' /\ LockHasOwner'
    BY DEF Owns, LockHasOwner, Quiet

\* A request that stays on its side of the section's border does such a step.
LEMMA SameSide ==
    ASSUME TypeOK, NEW r \in Request, NEW p \in Phases, GoTo(r, p),
           p \in Section <=> InSection(r)
    PROVE  \A s \in Request : InSection(s)' <=> InSection(s)
    BY GoToFacts DEF InSection

LEMMA LookupQuiet ==
    ASSUME TypeOK, NEW r \in Request,
           Begin(r) \/ LookupLocal(r) \/ LookupRedis(r) \/ Keep(r)
    PROVE  Quiet
<1>1. UNCHANGED <<lock, lapsed, orphaned, replyKind>>
    BY DEF Begin, LookupLocal, LookupRedis, Keep, stores, writers
<1>2. /\ AfterHit(r) \in Phases /\ (AfterHit(r) \in Section <=> InSection(r))
      /\ Keeping(r) \in Phases /\ (Keeping(r) \in Section <=> InSection(r))
    BY DEF AfterHit, Keeping, Phases, Section
<1>3. ASSUME phase[r] \in Lookups
      PROVE  AfterMiss(r) \in Phases /\ (AfterMiss(r) \in Section <=> InSection(r))
    BY <1>3 DEF AfterMiss, Phases, Section, Lookups, InSection
<1>4. \/ UNCHANGED phase
      \/ \E p \in Phases : GoTo(r, p) /\ (p \in Section <=> InSection(r))
  <2>1. CASE Begin(r)
    <3>1. "get" \in Phases /\ "get" \notin Section /\ ~InSection(r) /\ GoTo(r, "get")
        BY <2>1 DEF Begin, Phases, Lookups, Section, InSection
    <3> QED BY <3>1
  <2>2. CASE LookupLocal(r)
      BY <1>2, <2>2 DEF LookupLocal
  <2>3. CASE LookupRedis(r)
    <3>1. GoTo(r, Keeping(r)) \/ GoTo(r, AfterHit(r)) \/ GoTo(r, AfterMiss(r))
        BY <2>3 DEF LookupRedis
    <3> QED BY <1>2, <1>3, <2>3, <3>1 DEF LookupRedis
  <2>4. CASE Keep(r)
      BY <1>2, <2>4 DEF Keep
  <2> QED BY <2>1, <2>2, <2>3, <2>4
<1>5. \A s \in Request : InSection(s)' <=> InSection(s)
    BY <1>4, SameSide DEF InSection
<1> QED BY <1>1, <1>5 DEF Quiet

LEMMA SectionQuiet ==
    ASSUME TypeOK, NEW r \in Request,
           \/ Load(r) \/ Store(r) \/ Fill(r) \/ DirectLoad(r)
           \/ WaitTimeout(r) \/ Cancelled(r)
    PROVE  Quiet
<1>1. UNCHANGED <<lock, lapsed, orphaned, replyKind>>
    BY DEF Load, Store, Fill, DirectLoad, WaitTimeout, Cancelled, stores, writers
<1>2. \E p \in Phases : GoTo(r, p) /\ (p \in Section <=> InSection(r))
  <2>1. CASE Load(r)
    <3>1. GoTo(r, "confirm") \/ GoTo(r, "release")
        BY <2>1 DEF Load
    <3>2. phase[r] = "load"
        BY <2>1 DEF Load
    <3> QED BY <3>1, <3>2 DEF Phases, Section, InSection
  <2>2. CASE Store(r)
    <3>1. GoTo(r, "fill") /\ phase[r] = "store"
        BY <2>2 DEF Store
    <3> QED BY <3>1 DEF Phases, Section, InSection
  <2>3. CASE Fill(r)
    <3>1. GoTo(r, "release") /\ phase[r] = "fill"
        BY <2>3 DEF Fill
    <3> QED BY <3>1 DEF Phases, Section, InSection
  <2>4. CASE DirectLoad(r)
    <3>1. GoTo(r, "idle") /\ phase[r] = "direct"
        BY <2>4 DEF DirectLoad
    <3> QED BY <3>1 DEF Phases, Section, InSection
  <2>5. CASE WaitTimeout(r)
    <3>1. GoTo(r, "direct") /\ phase[r] = "wait"
        BY <2>5 DEF WaitTimeout
    <3> QED BY <3>1 DEF Phases, Section, InSection
  <2>6. CASE Cancelled(r)
    <3>1. GoTo(r, "idle") /\ phase[r] = "wait"
        BY <2>6 DEF Cancelled
    <3> QED BY <3>1 DEF Phases, Section, InSection
  <2> QED BY <2>1, <2>2, <2>3, <2>4, <2>5, <2>6
<1>3. \A s \in Request : InSection(s)' <=> InSection(s)
    BY <1>2, SameSide
<1> QED BY <1>1, <1>3 DEF Quiet

\* Only a free lock is taken, so nobody in the section held it.
LEMMA TryLockSafe ==
    ASSUME IInv, NEW r \in Request, TryLock(r) \/ TryLockFails(r)
    PROVE  Owns' /\ LockHasOwner'
<1>1. /\ "recheck" \in Phases /\ "recheck" \in Section
      /\ "wait" \in Phases /\ "wait" \notin Section
      /\ "direct" \in Phases /\ "direct" \notin Section
    BY DEF Phases, Section, Lookups
<1>2. TypeOK /\ Owns /\ LockHasOwner /\ ~InSection(r)
    BY DEF IInv, TryLock, TryLockFails, InSection, Section
<1>3. lapsed' = lapsed /\ replyKind' = replyKind
    BY DEF TryLock, TryLockFails, stores, writers
<1>4. Stamp[r] # NoLock /\ \A s \in Request : Stamp[s] # NoLock
    BY LoaderAssumption
<1>5. CASE TryLock(r)
  <2> DEFINE free == lock = NoLock
             reply == [kind |-> replyKind, val |-> IF free THEN "1" ELSE "0"]
  <2>1. /\ lock' = IF free THEN Stamp[r] ELSE lock
        /\ orphaned' = (orphaned /\ ~free)
        /\ GoTo(r, IF Acquired(reply) THEN "recheck" ELSE "wait")
      BY <1>5 DEF TryLock
  <2>2. Acquired(reply) <=> free /\ replyKind = "string"
      BY DEF Acquired
  <2> HIDE DEF reply
  <2>3. phase'[r] = IF Acquired(reply) THEN "recheck" ELSE "wait"
      BY <1>1, <1>2, <2>1, GoToFacts
  <2>4. \A s \in Request : s # r => (InSection(s)' <=> InSection(s))
      BY <1>1, <1>2, <2>1, GoToFacts DEF InSection
  <2>5. InSection(r)' <=> free /\ replyKind = "string"
      BY <1>1, <2>2, <2>3 DEF InSection
  <2>6. Owns'
      BY <1>2, <1>3, <1>4, <2>1, <2>4, <2>5 DEF Owns
  <2>7. LockHasOwner'
    <3>1. CASE free
        BY <1>3, <2>1, <2>5, <3>1 DEF LockHasOwner
    <3>2. CASE ~free
        BY <1>2, <1>3, <2>1, <2>4, <3>2 DEF LockHasOwner
    <3> QED BY <3>1, <3>2
  <2> QED BY <2>6, <2>7
<1>6. CASE TryLockFails(r)
  <2>1. GoTo(r, "direct")
      BY <1>6 DEF TryLockFails
  <2>2. \A s \in Request : InSection(s)' <=> InSection(s)
      BY <1>1, <1>2, <2>1, SameSide
  <2>3. CASE UNCHANGED <<lock, orphaned>>
      BY <1>2, <1>3, <2>2, <2>3, QuietStep DEF Quiet
  <2>4. CASE lock = NoLock /\ lock' = Stamp[r] /\ orphaned' = TRUE
      BY <1>2, <1>3, <1>4, <2>2, <2>4 DEF Owns, LockHasOwner
  <2> QED BY <1>6, <2>3, <2>4 DEF TryLockFails
<1> QED BY <1>5, <1>6

\* The one who leaves frees the lock only if it is his own; then nobody else
\* whose lock is alive is in the section.
LEMMA ReleaseSafe ==
    ASSUME IInv, NEW r \in Request, Release(r) \/ ReleaseFails(r)
    PROVE  Owns' /\ LockHasOwner'
<1>1. TypeOK /\ Owns /\ LockHasOwner
    BY DEF IInv
<1>2. /\ GoTo(r, "idle") /\ lapsed' = lapsed \ {r} /\ replyKind' = replyKind
      /\ "idle" \in Phases /\ "idle" \notin Section
    BY DEF Release, ReleaseFails, Leave, stores, writers, Phases, Section
<1>3. ~InSection(r)' /\ \A s \in Request : s # r => (InSection(s)' <=> InSection(s))
    BY <1>1, <1>2, GoToFacts DEF InSection
<1>4. \/ lock' = AfterRelease(r) /\ UNCHANGED orphaned
      \/ UNCHANGED lock /\ orphaned' = (orphaned \/ lock = Stamp[r])
    BY DEF Release, ReleaseFails
<1>5. \A s \in Request : s # r /\ lock = Stamp[s] => lock # Stamp[r]
    BY StampAssumption
<1>6. Owns'
    BY <1>1, <1>2, <1>3, <1>4, <1>5 DEF Owns, AfterRelease
<1>7. LockHasOwner'
  <2>1. SUFFICES ASSUME lock' # NoLock, ~orphaned', replyKind' = "string"
                 PROVE  \E s \in Request : InSection(s)' /\ Stamp[s] = lock'
      BY DEF LockHasOwner
  <2>2. lock' = lock /\ lock # Stamp[r] /\ ~orphaned
    <3>1. orphaned \in BOOLEAN
        BY <1>1 DEF TypeOK
    <3>2. CASE lock' = AfterRelease(r) /\ UNCHANGED orphaned
        BY <2>1, <3>2 DEF AfterRelease
    <3>3. CASE UNCHANGED lock /\ orphaned' = (orphaned \/ lock = Stamp[r])
        BY <2>1, <3>1, <3>3
    <3> QED BY <1>4, <3>2, <3>3
  <2>3. PICK s \in Request : InSection(s) /\ Stamp[s] = lock
      BY <1>1, <1>2, <2>1, <2>2 DEF LockHasOwner
  <2> QED BY <1>3, <2>2, <2>3
<1> QED BY <1>6, <1>7

LEMMA ExpirySafe == ASSUME IInv, LockExpires PROVE Owns' /\ LockHasOwner'
<1>1. /\ lock' = NoLock /\ orphaned' = FALSE /\ phase' = phase
      /\ lapsed' = lapsed \cup {r \in Request : InSection(r) /\ Stamp[r] = lock}
    BY DEF LockExpires
<1>2. \A s \in Request : InSection(s)' <=> InSection(s)
    BY <1>1 DEF InSection
<1> QED BY <1>1, <1>2 DEF IInv, Owns, LockHasOwner

\* Writers and the other environment steps do not touch the lock.
LEMMA OutsideQuiet ==
    ASSUME
           \/ \E i \in Replica :
                 \/ Update(i) \/ Delete(i) \/ DeletePostCache(i) \/ LocalExpires(i)
                 \/ UpdateViewCount(i) \/ SetLocal(i)
           \/ CacheExpires \/ BecomesHot \/ \E s \in Failing : ServiceFlips(s)
           \/ UNCHANGED vars
    PROVE  Quiet
<1>1. UNCHANGED <<lock, lapsed, orphaned, replyKind, phase>>
    BY DEF Update, Delete, DeletePostCache, UpdateViewCount, SetLocal,
           LocalExpires, CacheExpires, BecomesHot, ServiceFlips, vars, stores, writers
<1> QED BY <1>1 DEF Quiet, InSection

\* A step is one of the lock's or leaves the lock alone.
LEMMA StepKinds ==
    ASSUME TypeOK, [Next]_vars
    PROVE  \/ Quiet \/ LockExpires
           \/ \E r \in Request :
                TryLock(r) \/ TryLockFails(r) \/ Release(r) \/ ReleaseFails(r)
<1>1. CASE \E r \in Request : RequestStep(r) \/ WaitTimeout(r) \/ Cancelled(r)
    BY <1>1, LookupQuiet, SectionQuiet DEF RequestStep
<1>2. CASE ~\E r \in Request : RequestStep(r) \/ WaitTimeout(r) \/ Cancelled(r)
    BY <1>2, OutsideQuiet DEF Next, Expiry
<1> QED BY <1>1, <1>2

LEMMA StepInv == IInv /\ [Next]_vars => IInv'
<1>1. SUFFICES ASSUME IInv, [Next]_vars PROVE IInv'
    OBVIOUS
<1>2. TypeOK'
    BY <1>1, TypeStep DEF IInv
<1>3. Owns' /\ LockHasOwner'
  <2>1. CASE Quiet
      BY <1>1, <2>1, QuietStep DEF IInv
  <2>2. CASE \E r \in Request : TryLock(r) \/ TryLockFails(r) \/ Release(r) \/ ReleaseFails(r)
      BY <1>1, <2>2, TryLockSafe, ReleaseSafe
  <2>3. CASE LockExpires
      BY <1>1, <2>3, ExpirySafe
  <2> QED BY <1>1, <2>1, <2>2, <2>3, StepKinds DEF IInv
<1> QED BY <1>2, <1>3 DEF IInv

-----------------------------------------------------------------------------
(* The theorems.                                                           *)

THEOREM Invariance == Spec => []IInv
    BY InitInv, StepInv, PTL DEF Spec

\* Every variable keeps its type.
THEOREM TypeCorrect == Spec => []TypeOK
<1>1. IInv => TypeOK
    BY DEF IInv
<1> QED BY <1>1, Invariance, PTL

\* At most one request whose lock has not expired reads MySQL under the lock.
THEOREM OneLoaderHolds == Spec => []OneLoader
<1>1. IInv => OneLoader
    BY StampAssumption DEF IInv, Owns, OneLoader
<1> QED BY <1>1, Invariance, PTL

\* A lock has somebody at work under it, or was left by a failed command.
THEOREM LockHasOwnerHolds == Spec => []LockHasOwner
<1>1. IInv => LockHasOwner
    BY DEF IInv
<1> QED BY <1>1, Invariance, PTL

-----------------------------------------------------------------------------
(* The lock is a lock with a lease: every step of CacheLoader is one of    *)
(* LeaseLock's, or changes nothing that LeaseLock sees.                    *)

Stamps(S) == {Stamp[r] : r \in S}

LEMMA QuietStutters == ASSUME Quiet PROVE UNCHANGED Lease!vars
<1>1. {q \in Request : InSection(q)}' = {q \in Request : InSection(q)}
    BY DEF Quiet
<1> QED BY <1>1 DEF Quiet, Lease!vars

LEMMA TryLockRefines ==
    ASSUME TypeOK, NEW r \in Request, TryLock(r) \/ TryLockFails(r)
    PROVE  [Lease!Next]_(Lease!vars)
<1> DEFINE in == {q \in Request : InSection(q)}
<1>1. /\ "recheck" \in Phases /\ "recheck" \in Section
      /\ "wait" \in Phases /\ "wait" \notin Section
      /\ "direct" \in Phases /\ "direct" \notin Section
    BY DEF Phases, Section, Lookups
<1>2. ~InSection(r) /\ lapsed' = lapsed
    BY DEF TryLock, TryLockFails, InSection, Section
<1>3. Stamp[r] \notin Stamps(in) /\ Stamp[r] \in Stamps(Request)
    BY <1>2, StampAssumption DEF Stamps
<1>4. \/ /\ lock = NoLock /\ lock' = Stamp[r]
         /\ GoTo(r, "recheck") \/ GoTo(r, "wait") \/ GoTo(r, "direct")
      \/ lock' = lock /\ (GoTo(r, "wait") \/ GoTo(r, "direct"))
  <2>1. CASE TryLock(r)
      BY <2>1 DEF TryLock, Acquired
  <2>2. CASE TryLockFails(r)
      BY <2>2 DEF TryLockFails
  <2> QED BY <2>1, <2>2
<1>5. CASE GoTo(r, "wait") \/ GoTo(r, "direct")
  <2>1. \A s \in Request : InSection(s)' <=> InSection(s)
      BY <1>1, <1>2, <1>5, SameSide
  <2>2. in' = in
      BY <2>1
  <2>3. CASE lock' = lock
      BY <1>2, <2>2, <2>3 DEF Lease!vars
  <2>4. CASE lock = NoLock /\ lock' = Stamp[r]
    <3>1. Lease!Strand(Stamp[r])
        BY <1>2, <1>3, <2>2, <2>4 DEF Lease!Strand, Stamps
    <3> QED BY <1>3, <3>1 DEF Lease!Next, Stamps
  <2> QED BY <1>4, <2>3, <2>4
<1>6. CASE lock = NoLock /\ lock' = Stamp[r] /\ GoTo(r, "recheck")
  <2>1. InSection(r)' /\ \A s \in Request : s # r => (InSection(s)' <=> InSection(s))
      BY <1>1, <1>6, GoToFacts DEF InSection
  <2>2. in' = in \cup {r}
      BY <2>1
  <2>3. Stamps(in') = Stamps(in) \cup {Stamp[r]}
      BY <2>2 DEF Stamps
  <2>4. Lease!Enter(Stamp[r])
      BY <1>2, <1>3, <1>6, <2>3 DEF Lease!Enter, Stamps
  <2> QED BY <1>3, <2>4 DEF Lease!Next, Stamps
<1> QED BY <1>4, <1>5, <1>6

LEMMA ReleaseRefines ==
    ASSUME TypeOK, NEW r \in Request, Release(r) \/ ReleaseFails(r)
    PROVE  Lease!Next
<1> DEFINE in == {q \in Request : InSection(q)}
<1>1. /\ phase[r] = "release" /\ GoTo(r, "idle") /\ lapsed' = lapsed \ {r}
      /\ "idle" \in Phases /\ "idle" \notin Section /\ "release" \in Section
    BY DEF Release, ReleaseFails, Leave, Phases, Section
<1>2. InSection(r) /\ ~InSection(r)'
      /\ \A s \in Request : s # r => (InSection(s)' <=> InSection(s))
    BY <1>1, GoToFacts DEF InSection
<1>3. in' = in \ {r} /\ r \in in
    BY <1>2
<1>4. lapsed \subseteq Request
    BY DEF TypeOK
<1>5. Stamps(in') = Stamps(in) \ {Stamp[r]} /\ Stamp[r] \in Stamps(in)
    BY <1>3, StampAssumption DEF Stamps
<1>6. Stamps(lapsed') = Stamps(lapsed) \ {Stamp[r]}
    BY <1>1, <1>4, StampAssumption DEF Stamps
<1>7. lock' = (IF lock = Stamp[r] THEN NoLock ELSE lock) \/ UNCHANGED lock
    BY DEF Release, ReleaseFails, AfterRelease
<1>8. Lease!Leave(Stamp[r])
    BY <1>5, <1>6, <1>7 DEF Lease!Leave, Stamps
<1> QED BY <1>8 DEF Lease!Next

LEMMA ExpiryRefines == ASSUME TypeOK, LockExpires PROVE Lease!Expire
<1> DEFINE in == {q \in Request : InSection(q)}
<1>1. /\ lock # NoLock /\ lock' = NoLock /\ phase' = phase
      /\ lapsed' = lapsed \cup {r \in Request : InSection(r) /\ Stamp[r] = lock}
    BY DEF LockExpires
<1>2. in' = in
    BY <1>1 DEF InSection
<1>3. Stamps(lapsed') = Stamps(lapsed) \cup ({lock} \cap Stamps(in))
    BY <1>1 DEF Stamps
<1> QED BY <1>1, <1>2, <1>3 DEF Lease!Expire, Stamps

\* acquireLock, releaseLock, the deferred release and the TTL implement a lock
\* with a lease, whatever fails or expires in between.
THEOREM IsLeaseHolds == Spec => IsLease
<1>1. Init => Lease!Init
    BY DEF Init, Lease!Init, InSection, Section
<1>2. TypeOK /\ [Next]_vars => [Lease!Next]_(Lease!vars)
  <2>1. SUFFICES ASSUME TypeOK, [Next]_vars PROVE [Lease!Next]_(Lease!vars)
      OBVIOUS
  <2>2. CASE Quiet
      BY <2>2, QuietStutters
  <2>3. CASE LockExpires
      BY <2>1, <2>3, ExpiryRefines DEF Lease!Next
  <2>4. CASE \E r \in Request :
                TryLock(r) \/ TryLockFails(r) \/ Release(r) \/ ReleaseFails(r)
      BY <2>1, <2>4, TryLockRefines, ReleaseRefines
  <2> QED BY <2>1, <2>2, <2>3, <2>4, StepKinds
<1> QED BY <1>1, <1>2, TypeCorrect, PTL DEF Spec, IsLease, Lease!Spec

-----------------------------------------------------------------------------
(* What the reply of the lock script decides.                              *)

\* With an int64 reply nobody gets into the section, so Redis stays empty and
\* nobody has a copy from it to keep.
Inside == Section \cup {"keep"}
ShutOut ==
    replyKind = "int64" =>
        cache = NoPost /\ \A r \in Request : phase[r] \notin Inside

LEMMA NotAcquired ==
    ASSUME replyKind = "int64", NEW v PROVE ~Acquired([kind |-> replyKind, val |-> v])
    BY DEF Acquired

LEMMA ReplyFixed ==
    ASSUME [Next]_vars PROVE replyKind' = replyKind
    BY DEF Next, RequestStep, Expiry, vars, stores, Begin, LookupLocal, LookupRedis, Keep,
       TryLock, TryLockFails, Release, ReleaseFails, Leave, Load, Store, Fill, DirectLoad,
       WaitTimeout, Cancelled, Update, Delete, DeletePostCache, UpdateViewCount, SetLocal,
       LockExpires, LocalExpires, CacheExpires, BecomesHot, ServiceFlips

LEMMA ShutOutStep ==
    ASSUME TypeOK, ShutOut, [Next]_vars, replyKind = "int64"
    PROVE  /\ replyKind' = replyKind
           /\ cache' = NoPost
           /\ \A r \in Request : phase'[r] \notin Inside
           /\ \A i \in Replica : local'[i] \in {local[i], pending[i], NoPost}
<1> DEFINE Goal == /\ replyKind' = replyKind
                   /\ cache' = NoPost
                   /\ \A r \in Request : phase'[r] \notin Inside
                   /\ \A i \in Replica : local'[i] \in {local[i], pending[i], NoPost}
<1>1. cache = NoPost /\ \A r \in Request : phase[r] \notin Inside
    BY DEF ShutOut
<1>2. ASSUME NEW r \in Request, RequestStep(r) \/ WaitTimeout(r) \/ Cancelled(r)
      PROVE  Goal
  <2>0. ~InSection(r) /\ phase[r] \notin Inside
      BY <1>1 DEF InSection, Inside
  <2>1. \/ Begin(r) \/ LookupLocal(r) \/ LookupRedis(r) \/ TryLock(r) \/ TryLockFails(r)
        \/ DirectLoad(r) \/ WaitTimeout(r) \/ Cancelled(r)
      BY <1>2, <2>0 DEF RequestStep, Keep, Release, ReleaseFails, Load, Store, Fill,
         Section, Inside
  <2>2. UNCHANGED <<replyKind, cache, local>>
      BY <2>1 DEF Begin, LookupLocal, LookupRedis, TryLock, TryLockFails, DirectLoad,
         WaitTimeout, Cancelled, stores
  <2>3. UNCHANGED phase \/ \E p \in Phases \ Inside : GoTo(r, p)
    <3>1. /\ {"idle", "get", "lock", "wait", "direct"} \subseteq Phases \ Inside
          /\ AfterHit(r) = "idle"
        BY <2>0 DEF Phases, Lookups, Section, Inside, AfterHit
    <3>2. CASE LookupLocal(r)
        BY <3>1, <3>2 DEF LookupLocal
    <3>3. CASE LookupRedis(r)
      <4>1. phase[r] = "get" \/ phase[r] = "wait"
          BY <2>0, <3>3 DEF LookupRedis, Lookups, Section, Inside
      <4>2. GoTo(r, AfterMiss(r))
          BY <1>1, <3>3 DEF LookupRedis
      <4> QED BY <3>1, <4>1, <4>2 DEF AfterMiss
    <3>4. CASE TryLock(r)
      <4>1. GoTo(r, "wait")
          BY <3>4, NotAcquired DEF TryLock
      <4> QED BY <3>1, <4>1
    <3> QED BY <2>1, <3>1, <3>2, <3>3, <3>4 DEF Begin, TryLockFails, DirectLoad,
               WaitTimeout, Cancelled
  <2>4. \A s \in Request : phase'[s] \notin Inside
      BY <1>1, <2>3, GoToFacts
  <2> QED BY <1>1, <2>2, <2>4
<1>3. ASSUME NEW i \in Replica,
             \/ Update(i) \/ Delete(i) \/ DeletePostCache(i) \/ LocalExpires(i)
             \/ UpdateViewCount(i) \/ SetLocal(i)
      PROVE  Goal
  <2>1. UNCHANGED <<replyKind, cache, phase>>
      BY <1>3 DEF Update, Delete, DeletePostCache, LocalExpires, UpdateViewCount,
         SetLocal, stores
  <2>2. \A j \in Replica : local'[j] \in {local[j], pending[j], NoPost}
      BY <1>3 DEF Update, Delete, DeletePostCache, LocalExpires, UpdateViewCount,
         SetLocal, stores, TypeOK
  <2> QED BY <1>1, <2>1, <2>2
<1>4. ASSUME \/ LockExpires \/ CacheExpires \/ BecomesHot \/ UNCHANGED vars
             \/ \E s \in Failing : ServiceFlips(s)
      PROVE  Goal
  <2>1. UNCHANGED <<replyKind, phase, local>> /\ cache' = NoPost
      BY <1>1, <1>4 DEF LockExpires, CacheExpires, BecomesHot, ServiceFlips, vars, stores
  <2> QED BY <1>1, <2>1
<1> QED BY <1>2, <1>3, <1>4 DEF Next, Expiry

\* With the reply the library returns, no request ever puts a copy anywhere.
THEOREM LoaderCachesNothingHolds == Spec => LoaderCachesNothing
<1>1. Init => ShutOut
    BY DEF Init, ShutOut, Inside, Section
<1>2. TypeOK /\ ShutOut /\ [Next]_vars => ShutOut'
    BY ShutOutStep, ReplyFixed DEF ShutOut
<1>3. TypeOK /\ ShutOut /\ [Next]_vars =>
        [replyKind = "int64" =>
            /\ cache' = NoPost
            /\ \A i \in Replica : local'[i] \in {local[i], pending[i], NoPost}]_vars
    BY ShutOutStep
<1> QED BY <1>1, <1>2, <1>3, TypeCorrect, PTL DEF Spec, LoaderCachesNothing

-----------------------------------------------------------------------------
(* Where copies come from: the safety side of StaleDiesOut.                *)

\* Every copy somebody has or is about to put somewhere is of the row's version.
AllFresh ==
    /\ Fresh(cache)
    /\ \A i \in Replica : Fresh(local[i]) /\ Fresh(pending[i])
    /\ \A r \in Request : Fresh(held[r])
Unwritten == row # NoPost => row' # NoPost /\ row'.ver = row.ver

\* What is in some place after a step was there or in another place before it,
\* or is the row.
Copies ==
    {row, cache, NoPost} \cup {local[i] : i \in Replica} \cup {pending[i] : i \in Replica}
        \cup {held[r] : r \in Request}

LEMMA CopiesAreCopied ==
    ASSUME TypeOK, [Next]_vars
    PROVE  /\ cache' \in Copies
           /\ \A i \in Replica : local'[i] \in Copies /\ pending'[i] \in Copies
           /\ \A r \in Request : held'[r] \in Copies
           /\ row = NoPost => row' = NoPost
<1> DEFINE Goal == /\ cache' \in Copies
                   /\ \A i \in Replica : local'[i] \in Copies /\ pending'[i] \in Copies
                   /\ \A r \in Request : held'[r] \in Copies
                   /\ row = NoPost => row' = NoPost
<1>0. /\ local \in [Replica -> Maybe] /\ pending \in [Replica -> Maybe]
      /\ held \in [Request -> Maybe] /\ Home \in [Request -> Replica]
    BY LoaderAssumption DEF TypeOK
<1>1. ASSUME UNCHANGED row, UNCHANGED cache \/ cache' = NoPost, UNCHANGED pending,
             UNCHANGED held, UNCHANGED local
      PROVE  Goal
    BY <1>0, <1>1 DEF Copies
<1>2. ASSUME NEW r \in Request, RequestStep(r) \/ WaitTimeout(r) \/ Cancelled(r)
      PROVE  Goal
  <2>1. CASE \/ Begin(r) \/ LookupLocal(r) \/ TryLock(r) \/ TryLockFails(r)
             \/ DirectLoad(r) \/ WaitTimeout(r) \/ Cancelled(r)
      BY <1>1, <2>1 DEF Begin, LookupLocal, TryLock, TryLockFails, DirectLoad,
         WaitTimeout, Cancelled, stores, writers
  <2>2. CASE LookupRedis(r)
    <3>1. \A q \in Request : held'[q] \in {held[q], cache}
        BY <1>0, <2>2 DEF LookupRedis
    <3>2. UNCHANGED <<row, cache, local, pending>>
        BY <2>2 DEF LookupRedis, stores, writers
    <3> QED BY <1>0, <3>1, <3>2 DEF Copies
  <2>3. CASE Release(r) \/ ReleaseFails(r)
    <3>1. \A q \in Request : held'[q] \in {held[q], NoPost}
        BY <1>0, <2>3 DEF Release, ReleaseFails, Leave
    <3>2. UNCHANGED <<row, cache, local, pending>>
        BY <2>3 DEF Release, ReleaseFails, Leave, stores, writers
    <3> QED BY <1>0, <3>1, <3>2 DEF Copies
  <2>4. CASE Load(r)
    <3>1. \A q \in Request : held'[q] \in {held[q], row}
        BY <1>0, <2>4 DEF Load
    <3>2. UNCHANGED <<row, cache, local, pending>>
        BY <2>4 DEF Load, stores, writers
    <3> QED BY <1>0, <3>1, <3>2 DEF Copies
  <2>5. CASE Store(r)
    <3>1. \A i \in Replica : local'[i] \in {local[i], held[r]}
        BY <1>0, <2>5 DEF Store
    <3> QED BY <1>0, <2>5, <3>1 DEF Store, writers, Copies
  <2>6. CASE Fill(r)
      BY <1>0, <2>6 DEF Fill, writers, Copies
  <2>7. CASE Keep(r)
    <3>1. /\ \A i \in Replica : local'[i] \in {local[i], held[r]}
          /\ \A q \in Request : held'[q] \in {held[q], NoPost}
        BY <1>0, <2>7 DEF Keep
    <3>2. UNCHANGED <<row, cache, pending>>
        BY <2>7 DEF Keep, writers
    <3> QED BY <1>0, <3>1, <3>2 DEF Copies
  <2> QED BY <1>2, <2>1, <2>2, <2>3, <2>4, <2>5, <2>6, <2>7 DEF RequestStep
<1>3. ASSUME NEW i \in Replica,
             \/ Update(i) \/ Delete(i) \/ DeletePostCache(i) \/ LocalExpires(i)
             \/ UpdateViewCount(i) \/ SetLocal(i)
      PROVE  Goal
  <2>1. /\ UNCHANGED <<cache, held>> /\ (row = NoPost => row' = NoPost)
      BY <1>3 DEF Update, Delete, DeletePostCache, LocalExpires, UpdateViewCount,
         SetLocal, stores
  <2>2. \A j \in Replica : /\ local'[j] \in {local[j], pending[j], NoPost}
                           /\ pending'[j] \in {pending[j], local[j], NoPost}
      BY <1>0, <1>3 DEF Update, Delete, DeletePostCache, LocalExpires, UpdateViewCount,
         SetLocal, stores, writers
  <2> QED BY <1>0, <2>1, <2>2 DEF Copies
<1>4. CASE \/ LockExpires \/ CacheExpires \/ UNCHANGED vars
           \/ \E s \in Failing : ServiceFlips(s)
    BY <1>1, <1>4 DEF LockExpires, CacheExpires, ServiceFlips, vars, stores, writers
<1>5. CASE BecomesHot
    BY <1>0, <1>5 DEF BecomesHot, writers, Copies
<1> QED BY <1>2, <1>3, <1>4, <1>5 DEF Next, Expiry

\* Only Update and Delete make a copy stale: no lookup, load, warm-up, renewal,
\* late fill or lapsed lock ever brings an older version back, and once a
\* deleted post is nowhere it stays nowhere (GetOrLoad, UpdateViewCount).
THEOREM OnlyWritesMakeStale == Spec => [][AllFresh /\ Unwritten => AllFresh']_vars
<1>1. ASSUME TypeOK, [Next]_vars, AllFresh, Unwritten PROVE AllFresh'
  <2>1. \A copy \in Copies : Fresh(copy)
      BY <1>1 DEF AllFresh, Copies, Fresh
  <2>2. ASSUME NEW copy \in Copies, copy # NoPost
        PROVE  row' # NoPost /\ copy.ver = row'.ver
      BY <1>1, <2>1, <2>2 DEF Fresh, Unwritten
  <2> QED BY <1>1, <2>2, CopiesAreCopied DEF AllFresh, Fresh
<1>2. Spec => [][TypeOK /\ [Next]_vars]_vars
    BY TypeCorrect, PTL DEF Spec
<1>3. [TypeOK /\ [Next]_vars]_vars => [AllFresh /\ Unwritten => AllFresh']_vars
    BY <1>1 DEF AllFresh, vars
<1> QED BY <1>2, <1>3, PTL

-----------------------------------------------------------------------------
(* How far a request is from its end: the safety side of EveryRequestEnds. *)

Rank == [idle |-> 0, direct |-> 1, release |-> 1, keep |-> 1, wait |-> 2, fill |-> 2,
         keepLocked |-> 2, store |-> 3, confirm |-> 4, load |-> 5, recheck |-> 6, lock |-> 7, get |-> 8]

\* A lookup is two steps; missed is the second.
Distance(r) == 2 * Rank[phase[r]] + (IF missed[r] THEN 0 ELSE 1)

\* Waiting requests look again and again.
Polls(r) == phase[r] = "wait" /\ phase'[r] = "wait"

LEMMA RankFacts == \A p \in Phases : Rank[p] \in Nat
    BY DEF Phases, Lookups, Section, Rank

\* A step of one request moves no other.
LEMMA MovesOne ==
    ASSUME TypeOK, NEW r \in Request,
           RequestStep(r) \/ WaitTimeout(r) \/ Cancelled(r),
           NEW q \in Request, q # r
    PROVE  phase'[q] = phase[q] /\ missed'[q] = missed[q]
    BY DEF TypeOK, RequestStep, WaitTimeout, Cancelled, Begin, LookupLocal, LookupRedis,
       Keep, TryLock, TryLockFails, Release, ReleaseFails, Leave, Load, Store, Fill,
       DirectLoad, GoTo

\* A step of a request lowers its distance, unless it begins or polls.
LEMMA NearerStep ==
    ASSUME TypeOK, NEW r \in Request, phase[r] # "idle", ~Polls(r),
           RequestStep(r) \/ WaitTimeout(r) \/ Cancelled(r)
    PROVE  Distance(r)' < Distance(r)
<1>0. /\ phase \in [Request -> Phases] /\ missed \in [Request -> BOOLEAN]
      /\ phase[r] \in Phases
    BY DEF TypeOK
<1>1. CASE LookupLocal(r)
  <2>1. CASE GoTo(r, AfterHit(r)) /\ UNCHANGED missed
    <3>1. /\ phase[r] \in Lookups /\ missed[r] = FALSE /\ missed'[r] = FALSE
          /\ phase'[r] = IF phase[r] \in Section THEN "release" ELSE "idle"
        BY <1>0, <1>1, <2>1 DEF LookupLocal, GoTo, AfterHit, InSection
    <3> QED BY <3>1 DEF Distance, Rank, Lookups, Section
  <2>2. CASE missed' = [missed EXCEPT ![r] = TRUE] /\ UNCHANGED phase
    <3>1. missed[r] = FALSE /\ missed'[r] = TRUE /\ phase'[r] = phase[r]
        BY <1>0, <1>1, <2>2 DEF LookupLocal
    <3> QED BY <1>0, <3>1, RankFacts DEF Distance
  <2> QED BY <1>1, <2>1, <2>2 DEF LookupLocal
<1>2. CASE LookupRedis(r)
  <2>1. phase[r] \in Lookups /\ missed[r] = TRUE /\ missed'[r] = FALSE
      BY <1>0, <1>2 DEF LookupRedis
  <2>2. CASE GoTo(r, AfterHit(r))
    <3>1. phase'[r] = IF phase[r] \in Section THEN "release" ELSE "idle"
        BY <1>0, <2>2 DEF GoTo, AfterHit, InSection
    <3> QED BY <2>1, <3>1 DEF Distance, Rank, Lookups, Section
  <2>3. CASE GoTo(r, AfterMiss(r))
    <3>1. phase'[r] = AfterMiss(r)
        BY <1>0, <2>3 DEF GoTo
    <3>2. phase[r] # "wait"
        BY <3>1, <2>1 DEF Polls, AfterMiss
    <3> QED BY <2>1, <3>1, <3>2 DEF Distance, Rank, Lookups, AfterMiss
  <2>4. CASE GoTo(r, Keeping(r))
    <3>1. phase'[r] = IF phase[r] \in Section THEN "keepLocked" ELSE "keep"
        BY <1>0, <2>4 DEF GoTo, Keeping, InSection
    <3> QED BY <2>1, <3>1 DEF Distance, Rank, Lookups, Section
  <2> QED BY <1>2, <2>2, <2>3, <2>4 DEF LookupRedis
<1>3. CASE TryLock(r) \/ TryLockFails(r)
  <2>1. phase[r] = "lock" /\ phase'[r] \in {"recheck", "wait", "direct"}
        /\ missed'[r] = missed[r]
      BY <1>0, <1>3 DEF TryLock, TryLockFails, GoTo
  <2> QED BY <1>0, <2>1 DEF Distance, Rank
<1>4. CASE Release(r) \/ ReleaseFails(r) \/ DirectLoad(r)
  <2>1. phase[r] \in {"release", "direct"} /\ phase'[r] = "idle" /\ missed'[r] = missed[r]
      BY <1>0, <1>4 DEF Release, ReleaseFails, Leave, DirectLoad, GoTo
  <2> QED BY <1>0, <2>1 DEF Distance, Rank
<1>5. CASE Load(r) \/ Store(r) \/ Fill(r)
  <2>1. /\ missed'[r] = missed[r]
        /\ \/ phase[r] = "load" /\ phase'[r] \in {"confirm", "release"}
           \/ phase[r] = "store" /\ phase'[r] = "fill"
           \/ phase[r] = "fill" /\ phase'[r] = "release"
      BY <1>0, <1>5 DEF Load, Store, Fill, GoTo
  <2> QED BY <1>0, <2>1 DEF Distance, Rank
<1>6. CASE WaitTimeout(r) \/ Cancelled(r)
  <2>1. phase[r] = "wait" /\ phase'[r] \in {"direct", "idle"} /\ missed'[r] = FALSE
      BY <1>0, <1>6 DEF WaitTimeout, Cancelled, GoTo
  <2> QED BY <1>0, <2>1 DEF Distance, Rank
<1>7. CASE Keep(r)
  <2>1. phase[r] \in {"keep", "keepLocked"} /\ missed'[r] = missed[r]
        /\ phase'[r] = IF phase[r] \in Section THEN "release" ELSE "idle"
      BY <1>0, <1>7 DEF Keep, GoTo, AfterHit, InSection
  <2> QED BY <1>0, <2>1 DEF Distance, Rank, Section
<1>8. ~Begin(r)
    BY DEF Begin
<1> QED BY <1>1, <1>2, <1>3, <1>4, <1>5, <1>6, <1>7, <1>8 DEF RequestStep

\* Nothing that happens to the lock, the caches, the row or the services sends a
\* request back: but for the poll, which its timer ends, every step it takes
\* brings it nearer to its end, so it takes at most seventeen (GetOrLoad).
THEOREM OnlyThePollIsLong ==
    Spec => [][\A r \in Request :
                 \/ UNCHANGED <<phase[r], missed[r]>>
                 \/ phase[r] = "idle" \/ Polls(r)
                 \/ Distance(r)' < Distance(r)]_vars
<1>1. ASSUME TypeOK, [Next]_vars, NEW r \in Request,
             phase[r] # "idle", ~Polls(r)
      PROVE  UNCHANGED <<phase[r], missed[r]>> \/ Distance(r)' < Distance(r)
  <2>1. CASE \E q \in Request : RequestStep(q) \/ WaitTimeout(q) \/ Cancelled(q)
      BY <1>1, <2>1, MovesOne, NearerStep
  <2>2. CASE ~\E q \in Request : RequestStep(q) \/ WaitTimeout(q) \/ Cancelled(q)
    <3>1. UNCHANGED <<phase, missed>>
        BY <1>1, <2>2 DEF Next, Update, Delete, DeletePostCache, UpdateViewCount, SetLocal,
           Expiry, LockExpires, CacheExpires, LocalExpires, BecomesHot, ServiceFlips,
           vars, stores, writers
    <3> QED BY <3>1
  <2> QED BY <2>1, <2>2
<1>2. TypeOK /\ [Next]_vars =>
        [\A r \in Request :
            \/ UNCHANGED <<phase[r], missed[r]>>
            \/ phase[r] = "idle" \/ Polls(r)
            \/ Distance(r)' < Distance(r)]_vars
    BY <1>1
<1> QED BY <1>2, TypeCorrect, PTL DEF Spec
=============================================================================
