----------------------------- MODULE PostsProofs -----------------------------
(***************************************************************************)
(* Proofs about ViewCount and Posts, for any replicas, readers, failures   *)
(* and bounds: when a view may be counted twice and when one may get lost; *)
(* that Posts refines ViewCount, so that both hold of it, too; who finds a *)
(* post, and who cannot.                                                   *)
(***************************************************************************)
EXTENDS Posts, FiniteSetTheorems, TLAPS

-----------------------------------------------------------------------------
(* The counter: ViewCount.                                                 *)

Size == Cardinality(viewers)

\* While no command has failed and no syncers have met, one syncer at most is
\* at work, and what it has counted is room left in the row.
NothingTwice ==
    Undisturbed({"fault", "overlap"}) =>
        /\ \A i, j \in Replica : InWindow(i) /\ InWindow(j) => i = j
        /\ viewCount <= recorded
        /\ \A i \in Replica : step[i] = "update" => viewCount + counted[i] <= recorded
        /\ ~Deleting => viewCount + Size <= recorded
        /\ \A i \in Replica : step[i] = "delete" => viewCount + Size - counted[i] <= recorded

\* While nothing was recorded in a window, syncers in it have counted all that
\* is in Redis, and the row has everything before one deletes the key.
NothingLost ==
    Undisturbed({"raced", "expired"}) =>
        /\ \A i \in Replica : InWindow(i) => viewers = {} \/ counted[i] = Size
        /\ recorded <= viewCount + Size
        /\ Deleting => recorded <= viewCount

\* Readers do not add the author.
NotYet == ~created => Author \notin viewers

IInv == TypeOK /\ NothingTwice /\ NothingLost /\ NotYet

LEMMA Finite ==
    ASSUME TypeOK
    PROVE  /\ IsFiniteSet(viewers)
           /\ Size \in 0..Cardinality(User)
           /\ Cardinality(User) \in Nat
<1>1. viewers \subseteq User /\ IsFiniteSet(User)
    BY ViewAssumption DEF TypeOK
<1> QED BY <1>1, FS_Subset, FS_CardinalityType DEF Size

LEMMA InitInv == Init => IInv
<1>1. SUFFICES ASSUME Init PROVE IInv
    OBVIOUS
<1>2. Size = 0
    BY <1>1, FS_EmptySet DEF Init, Size
<1>3. Cardinality(User) \in Nat
    BY ViewAssumption, FS_CardinalityType
<1>4. TypeOK
  <2>1. created \in BOOLEAN /\ expiring \in BOOLEAN /\ ~expiring
      BY <1>1, Zenon DEF Init
  <2> QED BY <1>1, <1>3, <2>1, ViewAssumption DEF Init, TypeOK
<1>5. \A i \in Replica : step[i] = "idle"
    BY <1>1 DEF Init
<1>6. recorded = 0 /\ viewCount = 0 /\ viewers = {}
    BY <1>1 DEF Init
<1> QED BY <1>2, <1>4, <1>5, <1>6 DEF IInv, NothingTwice, NothingLost, NotYet, Deleting, InWindow

LEMMA StepToFacts ==
    ASSUME TypeOK, NEW i \in Replica, NEW s, StepTo(i, s)
    PROVE  step'[i] = s /\ \A j \in Replica : j # i => step'[j] = step[j]
    BY DEF TypeOK, StepTo

-----------------------------------------------------------------------------
(* Readers and the key's TTL.                                              *)

LEMMA RecordFacts ==
    ASSUME IInv, NEW u \in User, u \notin viewers, Record(u)
    PROVE  /\ NothingTwice' /\ NothingLost'
           /\ viewers' \in SUBSET User /\ viewers' # {}
           /\ recorded' \in 0..MaxRecorded /\ disturbed' \in SUBSET Disturbances
<1>1. Size' = Size + 1
    BY Finite, FS_AddElement DEF IInv, Record, Size
<1>2. Size \in Nat /\ viewCount \in Nat /\ recorded \in Nat /\ counted \in [Replica -> Nat]
    BY Finite DEF IInv, TypeOK
<1>3. /\ viewers' \in SUBSET User /\ viewers' # {}
      /\ recorded' \in 0..MaxRecorded /\ disturbed' \in SUBSET Disturbances
    BY ViewAssumption DEF IInv, TypeOK, Record, Disturbances
<1>4. NothingTwice'
    BY <1>1, <1>2 DEF IInv, NothingTwice, Record, Undisturbed, InWindow, Deleting
<1>5. NothingLost'
  <2>1. CASE \E i \in Replica : InWindow(i)
      BY <2>1 DEF Record, NothingLost, Undisturbed
  <2>2. CASE ~\E i \in Replica : InWindow(i)
      BY <1>1, <1>2, <2>2 DEF IInv, Record, NothingLost, Undisturbed, InWindow, Deleting
  <2> QED BY <2>1, <2>2
<1> QED BY <1>3, <1>4, <1>5

LEMMA ReadInv == ASSUME IInv, NEW u \in User, AddRead(u) PROVE IInv'
<1>1. TypeOK'
    BY RecordFacts DEF IInv, TypeOK, AddRead, Record
<1>2. NotYet'
    BY DEF IInv, NotYet, AddRead, Counts, Record
<1> QED BY <1>1, <1>2, RecordFacts DEF IInv, AddRead

LEMMA CreateInv == ASSUME IInv, AddWhenCreate PROVE IInv'
<1>1. Author \in User /\ Author \notin viewers
    BY ViewAssumption DEF IInv, NotYet, AddWhenCreate
<1>2. TypeOK'
    BY <1>1, RecordFacts DEF IInv, TypeOK, AddWhenCreate, Record
<1>3. NotYet'
    BY DEF NotYet, AddWhenCreate
<1> QED BY <1>1, <1>2, <1>3, RecordFacts DEF IInv, AddWhenCreate

LEMMA IncrementInv == ASSUME IInv, IncrementViewCount PROVE IInv'
<1>1. Size' = Size
    BY DEF IncrementViewCount, Size
<1>2. Size \in Nat /\ viewCount \in Nat /\ recorded \in Nat /\ counted \in [Replica -> Nat]
    BY Finite DEF IInv, TypeOK
<1>3. TypeOK'
    BY ViewAssumption DEF IInv, TypeOK, IncrementViewCount
<1>4. NothingTwice'
    BY <1>1, <1>2 DEF IInv, NothingTwice, IncrementViewCount, Undisturbed, InWindow, Deleting
<1>5. NothingLost'
    BY <1>1, <1>2 DEF IInv, NothingLost, IncrementViewCount, Undisturbed, InWindow, Deleting
<1>8. NotYet'
    BY DEF IInv, NotYet, IncrementViewCount
<1> QED BY <1>3, <1>4, <1>5, <1>8 DEF IInv

\* An expired key leaves less to count, and NothingLost gives up.
LEMMA KeyExpiresInv == ASSUME IInv, KeyExpires PROVE IInv'
<1>1. Size' = 0
    BY FS_EmptySet DEF KeyExpires, Size
<1>2. Size \in Nat /\ viewCount \in Nat /\ recorded \in Nat /\ counted \in [Replica -> Nat]
    BY Finite DEF IInv, TypeOK
<1>3. TypeOK'
    BY DEF IInv, TypeOK, KeyExpires, Disturbances
<1>4. NothingTwice'
    BY <1>1, <1>2 DEF IInv, NothingTwice, KeyExpires, Undisturbed, InWindow, Deleting
<1>5. NothingLost'
    BY DEF KeyExpires, NothingLost, Undisturbed
<1>8. NotYet'
    BY DEF IInv, NotYet, KeyExpires
<1> QED BY <1>3, <1>4, <1>5, <1>8 DEF IInv

-----------------------------------------------------------------------------
(* The syncer.                                                             *)

LEMMA ListInv == ASSUME IInv, NEW i \in Replica, ListKeys(i) PROVE IInv'
<1>1. Size' = Size
    BY DEF ListKeys, Size
<1>2. TypeOK'
    BY DEF IInv, TypeOK, ListKeys, StepTo
<1>3. \A j \in Replica : (InWindow(j)' <=> InWindow(j)) /\ (step'[j] = "update" <=> step[j] = "update")
                         /\ (step'[j] = "delete" <=> step[j] = "delete")
    BY StepToFacts DEF IInv, ListKeys, InWindow
<1>4. UNCHANGED <<viewers, viewCount, counted, recorded, disturbed>>
    BY DEF ListKeys
<1>5. NothingTwice'
    BY <1>1, <1>3, <1>4 DEF IInv, NothingTwice, Undisturbed, Deleting
<1>6. NothingLost'
    BY <1>1, <1>3, <1>4 DEF IInv, NothingLost, Undisturbed, Deleting
<1>8. NotYet'
    BY DEF IInv, NotYet, ListKeys
<1> QED BY <1>2, <1>5, <1>6, <1>8 DEF IInv

LEMMA CountInv == ASSUME IInv, NEW i \in Replica, CountViews(i) PROVE IInv'
<1>1. Size' = Size /\ UNCHANGED <<viewers, viewCount, recorded>>
    BY DEF CountViews, NothingToCount, Size
<1>2. Size \in Nat /\ viewCount \in Nat /\ recorded \in Nat /\ counted \in [Replica -> Nat]
    BY Finite DEF IInv, TypeOK
<1>3. TypeOK'
    BY Finite DEF IInv, TypeOK, CountViews, NothingToCount, StepTo, Disturbances, Size
<1>4. step[i] = "count" /\ \A j \in Replica : j # i => step'[j] = step[j]
    BY StepToFacts DEF IInv, CountViews, NothingToCount
<1>8. NotYet'
    BY DEF IInv, NotYet, CountViews, NothingToCount
<1>5. CASE viewers = {}
  <2>1. step'[i] = "idle" /\ UNCHANGED <<counted, disturbed>>
      BY <1>5, StepToFacts DEF IInv, CountViews, NothingToCount
  <2> QED BY <1>1, <1>3, <1>4, <1>8, <2>1
          DEF IInv, NothingTwice, NothingLost, Undisturbed, InWindow, Deleting
<1>6. CASE viewers # {}
  <2>1. /\ step'[i] = "update" /\ counted'[i] = Size
        /\ \A j \in Replica : j # i => counted'[j] = counted[j]
      BY <1>6, StepToFacts DEF IInv, TypeOK, CountViews, NothingToCount, Size
  <2>2. NothingTwice'
    <3>1. CASE \E j \in Replica : InWindow(j)
        BY <1>6, <3>1 DEF CountViews, NothingToCount, NothingTwice, Undisturbed
    <3>2. CASE ~\E j \in Replica : InWindow(j)
      <4>1. disturbed' = disturbed
          BY <1>6, <3>2 DEF CountViews, NothingToCount
      <4> QED BY <1>1, <1>2, <1>4, <2>1, <3>2, <4>1
              DEF IInv, NothingTwice, Undisturbed, InWindow, Deleting
    <3> QED BY <3>1, <3>2
  <2>3. NothingLost'
    <3>1. Undisturbed({"raced", "expired"})' => Undisturbed({"raced", "expired"})
        BY <1>6 DEF CountViews, NothingToCount, Undisturbed
    <3> QED BY <1>1, <1>2, <1>4, <2>1, <3>1 DEF IInv, NothingLost, InWindow, Deleting
  <2> QED BY <1>3, <1>8, <2>2, <2>3 DEF IInv
<1> QED BY <1>5, <1>6

LEMMA AddInv == ASSUME IInv, NEW i \in Replica, AddToRow(i) PROVE IInv'
<1>1. Size' = Size /\ UNCHANGED <<viewers, counted, recorded, disturbed>>
    BY DEF AddToRow, Size
<1>2. /\ Size \in Nat /\ viewCount \in Nat /\ recorded \in Nat /\ counted \in [Replica -> Nat]
      /\ viewCount' = viewCount + counted[i]
    BY Finite DEF IInv, TypeOK, AddToRow, Added
<1>3. TypeOK'
    BY <1>2 DEF IInv, TypeOK, AddToRow, StepTo
<1>4. /\ step[i] = "update" /\ step'[i] = "delete"
      /\ \A j \in Replica : j # i => step'[j] = step[j]
    BY StepToFacts DEF IInv, AddToRow
<1>5. NothingTwice'
  <2>1. SUFFICES ASSUME Undisturbed({"fault", "overlap"}) PROVE NothingTwice'
      BY <1>1 DEF NothingTwice, Undisturbed
  <2>2. \A j \in Replica : j # i => ~InWindow(j)
      BY <1>4, <2>1 DEF IInv, NothingTwice, InWindow
  <2>3. ~Deleting /\ viewCount + counted[i] <= recorded /\ viewCount + Size <= recorded
      BY <1>4, <2>1, <2>2 DEF IInv, NothingTwice, InWindow, Deleting
  <2> QED BY <1>1, <1>2, <1>4, <2>2, <2>3 DEF NothingTwice, InWindow, Deleting
<1>6. NothingLost'
  <2>1. SUFFICES ASSUME Undisturbed({"raced", "expired"}) PROVE NothingLost'
      BY <1>1 DEF NothingLost, Undisturbed
  <2>2. viewers = {} \/ counted[i] = Size
      BY <1>4, <2>1 DEF IInv, NothingLost, InWindow
  <2>3. viewers = {} => Size = 0
      BY FS_EmptySet DEF Size
  <2>4. recorded <= viewCount'
      BY <1>2, <2>1, <2>2, <2>3 DEF IInv, NothingLost
  <2> QED BY <1>1, <1>2, <1>4, <2>1, <2>4 DEF IInv, NothingLost, InWindow
<1>8. NotYet'
    BY DEF IInv, NotYet, AddToRow
<1> QED BY <1>3, <1>5, <1>6, <1>8 DEF IInv

LEMMA DeleteInv == ASSUME IInv, NEW i \in Replica, DeleteKey(i) PROVE IInv'
<1>1. viewers' = {} /\ Size' = 0 /\ UNCHANGED <<viewCount, counted, recorded, disturbed>>
    BY FS_EmptySet DEF DeleteKey, Remaining, Size
<1>2. Size \in Nat /\ viewCount \in Nat /\ recorded \in Nat /\ counted \in [Replica -> Nat]
    BY Finite DEF IInv, TypeOK
<1>3. TypeOK'
    BY DEF IInv, TypeOK, DeleteKey, Remaining, StillExpiring, StepTo
<1>4. /\ step[i] = "delete" /\ step'[i] = "idle"
      /\ \A j \in Replica : j # i => step'[j] = step[j]
    BY StepToFacts DEF IInv, DeleteKey
<1>5. NothingTwice'
    BY <1>1, <1>2, <1>4 DEF IInv, NothingTwice, Undisturbed, InWindow, Deleting
<1>6. NothingLost'
    BY <1>1, <1>2, <1>4 DEF IInv, NothingLost, Undisturbed, InWindow, Deleting
<1>8. NotYet'
    BY DEF IInv, NotYet, DeleteKey, Remaining
<1> QED BY <1>3, <1>5, <1>6, <1>8 DEF IInv

\* A failure may count views twice, and loses none.
LEMMA FailInv == ASSUME IInv, NEW i \in Replica, SyncFails(i) PROVE IInv'
<1>1. /\ step'[i] = "idle" /\ \A j \in Replica : j # i => step'[j] = step[j]
      /\ UNCHANGED <<counted, recorded>> /\ disturbed' = disturbed \cup {"fault"}
    BY StepToFacts DEF IInv, SyncFails
<1>2. Size \in Nat /\ viewCount \in Nat /\ recorded \in Nat /\ counted \in [Replica -> Nat]
    BY Finite DEF IInv, TypeOK
<1>3. \/ UNCHANGED <<viewers, viewCount>>
      \/ UNCHANGED viewers /\ viewCount' = viewCount + counted[i]
      \/ step[i] = "delete" /\ viewers' = {} /\ UNCHANGED viewCount
    BY DEF SyncFails, Added, Remaining
<1>4. TypeOK'
  <2>1. viewCount' \in Nat /\ viewers' \in SUBSET User
      BY <1>2, <1>3 DEF IInv, TypeOK
  <2>2. \/ viewers' = viewers /\ expiring' = expiring
        \/ viewers' = {} /\ expiring' = FALSE
      BY DEF SyncFails, Remaining, StillExpiring
  <2>3. expiring' \in BOOLEAN /\ (expiring' => viewers' # {})
    <3>1. expiring \in BOOLEAN /\ (expiring => viewers # {})
        BY DEF IInv, TypeOK
    <3>2. CASE viewers' = viewers /\ expiring' = expiring
        BY <3>1, <3>2, Zenon
    <3>3. CASE viewers' = {} /\ expiring' = FALSE
        BY <3>3, Zenon
    <3> QED BY <2>2, <3>2, <3>3
  <2>4. faults' \in 0..MaxFaults
      BY ViewAssumption DEF IInv, TypeOK, SyncFails
  <2>5. step' \in [Replica -> {"idle", "count", "update", "delete"}]
      BY DEF IInv, TypeOK, SyncFails, StepTo
  <2>6. created' \in BOOLEAN
      BY Zenon DEF IInv, TypeOK, SyncFails
  <2> QED BY <1>1, <2>1, <2>3, <2>4, <2>5, <2>6 DEF IInv, TypeOK, Disturbances
<1>5. NothingTwice'
    BY <1>1 DEF NothingTwice, Undisturbed
<1>6. NothingLost'
  <2>1. SUFFICES ASSUME Undisturbed({"raced", "expired"}) PROVE NothingLost'
      BY <1>1 DEF NothingLost, Undisturbed
  <2>2. viewers' = {} => Size' = 0
      BY FS_EmptySet DEF Size
  <2>3. viewers' = viewers => Size' = Size
      BY DEF Size
  <2>4. Deleting' => Deleting
      BY <1>1 DEF Deleting
  <2>5. \A j \in Replica : InWindow(j)' => InWindow(j)
      BY <1>1 DEF InWindow
  <2> QED BY <1>1, <1>2, <1>3, <2>1, <2>2, <2>3, <2>4, <2>5 DEF IInv, NothingLost, Deleting
<1>8. NotYet'
    BY DEF IInv, NotYet, SyncFails, Remaining
<1> QED BY <1>4, <1>5, <1>6, <1>8 DEF IInv

LEMMA StepInv == IInv /\ [Next]_vars => IInv'
<1>1. SUFFICES ASSUME IInv, [Next]_vars PROVE IInv'
    OBVIOUS
<1>2. CASE UNCHANGED vars
    BY <1>1, <1>2 DEF IInv, vars, TypeOK, NothingTwice, NothingLost, Undisturbed,
       InWindow, Deleting, Size, NotYet
<1> QED BY <1>1, <1>2, ReadInv, CreateInv, IncrementInv, KeyExpiresInv, ListInv, CountInv, AddInv,
        DeleteInv, FailInv DEF Next, Sync

-----------------------------------------------------------------------------
(* Redis never holds more views than were recorded.                        *)

NoMore == Size <= recorded

LEMMA NoMoreInit == Init => NoMore
    BY FS_EmptySet DEF Init, NoMore, Size

LEMMA NoMoreStep == IInv /\ NoMore /\ [Next]_vars => NoMore'
<1>1. SUFFICES ASSUME IInv, NoMore, [Next]_vars PROVE NoMore'
    OBVIOUS
<1>2. Size \in Nat /\ recorded \in Nat
    BY <1>1, Finite DEF IInv, TypeOK
<1>3. ASSUME NEW u \in User, u \notin viewers, Record(u) PROVE NoMore'
  <2>1. Size' = Size + 1
      BY <1>1, <1>3, Finite, FS_AddElement DEF IInv, Record, Size
  <2>2. recorded' = recorded + 1
      BY <1>3 DEF Record
  <2> QED BY <1>1, <1>2, <2>1, <2>2 DEF NoMore
<1>4. CASE (\E u \in User : AddRead(u)) \/ AddWhenCreate
    BY <1>1, <1>3, <1>4, ViewAssumption DEF AddRead, AddWhenCreate, IInv, NotYet
<1>5. ASSUME viewers' = viewers, recorded' \in {recorded, recorded + 1} PROVE NoMore'
    BY <1>1, <1>2, <1>5 DEF NoMore, Size
<1>6. ASSUME viewers' = {}, recorded' = recorded PROVE NoMore'
    BY <1>2, <1>6, FS_EmptySet DEF NoMore, Size
<1>7. CASE IncrementViewCount \/ KeyExpires \/ UNCHANGED vars
    BY <1>5, <1>6, <1>7 DEF IncrementViewCount, KeyExpires, vars
<1>8. CASE \E i \in Replica : Sync(i) \/ SyncFails(i)
    BY <1>5, <1>6, <1>8 DEF Sync, ListKeys, CountViews, NothingToCount, AddToRow,
       DeleteKey, Remaining, SyncFails
<1> QED BY <1>1, <1>4, <1>7, <1>8 DEF Next

-----------------------------------------------------------------------------
(* The theorems.                                                           *)

THEOREM Invariance == Spec => []IInv
    BY InitInv, StepInv, PTL DEF Spec

THEOREM RedisHoldsNoMore == Spec => []NoMore
    BY NoMoreInit, NoMoreStep, Invariance, PTL DEF Spec

\* Every variable keeps its type, and only a key that exists has a TTL.
THEOREM TypeCorrect == Spec => []TypeOK
<1>1. IInv => TypeOK
    BY DEF IInv
<1> QED BY <1>1, Invariance, PTL

\* Without failures and with one syncer at a time no view is counted twice, and
\* nobody is shown more views than there were.
THEOREM CountedOnceHolds == Spec => []CountedOnce
<1>1. IInv /\ NoMore => CountedOnce
    BY DEF IInv, NothingTwice, NoMore, CountedOnce, Shown, Size
<1> QED BY <1>1, Invariance, RedisHoldsNoMore, PTL

\* Whatever fails and however many syncers meet, a view is lost only if it was
\* recorded in a syncer's window or its key expired.
THEOREM NoneLostHolds == Spec => []NoneLost
<1>1. IInv => NoneLost
    BY DEF IInv, NothingLost, NoneLost, Size
<1> QED BY <1>1, Invariance, PTL

-----------------------------------------------------------------------------
(* The post: Posts.                                                       *)

\* Home knows the post from the answer to its restart, and nobody before; the
\* filters of others test positive only by collision.
Knows ==
    /\ creating = "answered" /\ ~forgotten => "own" \in filter[Home]
    /\ \A i \in Replica : "own" \in filter[i] => creating = "answered"
    /\ ~collided => \A i \in Replica : "others" \notin filter[i]

PostInv == PostTypeOK /\ Knows /\ GhostIsUnread

-----------------------------------------------------------------------------
(* The refinement.                                                         *)

\* Every step of Posts is one of ViewCount, or none.
LEMMA Refined == [PostNext]_allVars => [Next]_vars
<1>1. SUFFICES ASSUME [PostNext]_allVars PROVE [Next]_vars
    OBVIOUS
<1>2. CASE UNCHANGED allVars
    BY <1>2 DEF allVars
<1>3. CASE Insert \/ Answer \/ DeletePost
    BY <1>3 DEF Insert, Answer, DeletePost
<1>4. CASE CountAuthor \/ CreateFails
    BY <1>4 DEF CountAuthor, CreateFails, Next
<1>5. CASE \E i \in Replica, u \in User : GetPost(i, u)
    BY <1>5 DEF GetPost, Next
<1>6. CASE IncrementView \/ Expire
    BY <1>6 DEF IncrementView, Expire, Next
<1>7. ASSUME NEW i \in Replica, OthersCollide(i) \/ Restart(i) \/ Background(i)
      PROVE  [Next]_vars
    BY <1>7 DEF OthersCollide, Restart, SyncStops, Background, Next
<1> QED BY <1>1, <1>2, <1>3, <1>4, <1>5, <1>6, <1>7 DEF PostNext

\* Posts implements ViewCount: its views are counted as that module says.
THEOREM CountsViewsHolds == PostSpec => CountsViews
<1>1. PostInit => Init
    BY DEF PostInit
<1> QED BY <1>1, Refined, PTL DEF PostSpec, CountsViews, Spec

\* What is proved of the counter holds of the service.
THEOREM PostsCountedOnce == PostSpec => []CountedOnce
    BY CountsViewsHolds, CountedOnceHolds, PTL DEF CountsViews

THEOREM PostsNoneLost == PostSpec => []NoneLost
    BY CountsViewsHolds, NoneLostHolds, PTL DEF CountsViews

-----------------------------------------------------------------------------
(* The invariant of Posts.                                                 *)

LEMMA PostInitInv == PostInit => PostInv
    BY HomeAssumption
    DEF PostInit, Init, PostInv, PostTypeOK, Knows, GhostIsUnread, Readers

\* Only a reader adds readers.
LEMMA OnlyReadersRead ==
    ASSUME AddWhenCreate \/ IncrementViewCount \/ KeyExpires \/ UNCHANGED vars
           \/ \E i \in Replica : Sync(i) \/ SyncFails(i)
    PROVE  Readers' \subseteq Readers
    BY DEF AddWhenCreate, Record, IncrementViewCount, KeyExpires, vars, Sync, ListKeys,
       CountViews, AddToRow, DeleteKey, Remaining, SyncFails, Readers

LEMMA CreationInv ==
    ASSUME PostInv, Insert \/ CountAuthor \/ Answer \/ CreateFails
    PROVE  PostInv'
<1>1. Readers' \subseteq Readers
    BY OnlyReadersRead DEF Insert, CountAuthor, Answer, CreateFails
<1>2. PostTypeOK'
    BY HomeAssumption DEF PostInv, PostTypeOK, Insert, CountAuthor, Answer, Learnt, CreateFails
<1>3. Knows'
    BY HomeAssumption
    DEF PostInv, PostTypeOK, Knows, Insert, CountAuthor, Answer, Learnt, CreateFails
<1>4. GhostIsUnread'
    BY <1>1 DEF PostInv, GhostIsUnread, Insert, CountAuthor, Answer, CreateFails
<1> QED BY <1>2, <1>3, <1>4 DEF PostInv

LEMMA GetInv ==
    ASSUME PostInv, NEW i \in Replica, NEW u \in User, GetPost(i, u)
    PROVE  PostInv'
<1>1. UNCHANGED postVars
    BY DEF GetPost
<1>2. PostTypeOK' /\ Knows'
    BY <1>1 DEF PostInv, PostTypeOK, Knows, postVars
<1>3. creating = "answered" \/ collided
    BY DEF GetPost, MightContain, PostInv, PostTypeOK, Knows
<1> QED BY <1>1, <1>2, <1>3 DEF PostInv, GhostIsUnread, postVars

LEMMA RestInv ==
    ASSUME PostInv,
           IncrementView \/ DeletePost \/ Expire
               \/ \E i \in Replica : OthersCollide(i) \/ Restart(i) \/ Background(i)
    PROVE  PostInv'
<1>1. Readers' \subseteq Readers
    BY OnlyReadersRead DEF IncrementView, DeletePost, Expire, OthersCollide, Restart,
       SyncStops, Background
<1>2. PostTypeOK'
    BY DEF PostInv, PostTypeOK, IncrementView, DeletePost, Expire, OthersCollide, Restart,
       Background, postVars
<1>3. Knows'
  <2>1. CASE \/ DeletePost \/ IncrementView \/ Expire
             \/ \E i \in Replica : Background(i)
      BY <2>1 DEF PostInv, Knows, DeletePost, IncrementView, Expire, Background, postVars
  <2>2. ASSUME NEW i \in Replica, OthersCollide(i) PROVE Knows'
      BY <2>2, HomeAssumption DEF PostInv, PostTypeOK, Knows, OthersCollide
  <2>3. ASSUME NEW i \in Replica, Restart(i) PROVE Knows'
    <3>1. /\ filter'[i] = {} /\ \A j \in Replica : j # i => filter'[j] = filter[j]
          /\ collided' = collided
        BY <2>3 DEF Restart, PostInv, PostTypeOK
    <3>2. /\ creating' = "answered" <=> creating = "answered"
          /\ forgotten' = (forgotten \/ (i = Home /\ creating = "answered"))
        BY <2>3 DEF Restart
    <3> QED BY <3>1, <3>2, HomeAssumption DEF PostInv, Knows
  <2> QED BY <2>1, <2>2, <2>3
<1>4. GhostIsUnread'
    BY <1>1 DEF PostInv, GhostIsUnread, IncrementView, DeletePost, Expire, OthersCollide,
       Restart, Background, postVars
<1> QED BY <1>2, <1>3, <1>4 DEF PostInv

LEMMA PostStepInv == PostInv /\ [PostNext]_allVars => PostInv'
<1>1. SUFFICES ASSUME PostInv, [PostNext]_allVars PROVE PostInv'
    OBVIOUS
<1>2. CASE UNCHANGED allVars
    BY <1>1, <1>2
    DEF allVars, vars, postVars, PostInv, PostTypeOK, Knows, GhostIsUnread, Readers
<1> QED BY <1>1, <1>2, CreationInv, GetInv, RestInv DEF PostNext

THEOREM PostInvariance == PostSpec => []PostInv
    BY PostInitInv, PostStepInv, PTL DEF PostSpec

\* The variables keep their types; a request goes on only with its row.
THEOREM PostTypeCorrect == PostSpec => []PostTypeOK
<1>1. PostInv => PostTypeOK
    BY DEF PostInv
<1> QED BY <1>1, PostInvariance, PTL

\* An acknowledged post is found at its replica until that restarts.
THEOREM HomeKnowsHolds == PostSpec => []HomeKnows
<1>1. PostInv => HomeKnows
    BY DEF PostInv, PostTypeOK, Knows, HomeKnows, ListPosts, Listed, IsList, Stored,
       Submitted, Encoded, MightContain
<1> QED BY <1>1, PostInvariance, PTL

\* A post left behind by a failed creation is read by nobody.
THEOREM GhostIsUnreadHolds == PostSpec => []GhostIsUnread
<1>1. PostInv => GhostIsUnread
    BY DEF PostInv
<1> QED BY <1>1, PostInvariance, PTL
=============================================================================
