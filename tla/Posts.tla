-------------------------------- MODULE Posts --------------------------------
(***************************************************************************)
(* The life of one post in the post service: CreatePost inserts the row,   *)
(* counts the author and adds the id to the bloom filter of the replica    *)
(* that serves the request, in that order and without a transaction;       *)
(* GetPost asks the filter of its own replica first.  Nothing loads a      *)
(* filter when a process starts (post/internal/svc/servicecontext.go).     *)
(*                                                                         *)
(* The views of the post are those of ViewCount, of which this module is a *)
(* refinement: who may view is decided here.                               *)
(***************************************************************************)
EXTENDS ViewCount

CONSTANT Home  \* the replica that serves the CreatePost request

ASSUME HomeAssumption == Home \in Replica

VARIABLES
    row,       \* the row in posts: "none", "live" (2) or "deleted" (3)
    creating,  \* where CreatePost stands
    filter,    \* filter[i]: whose ids have set the bits of the post's id in
               \* the filter of i: its own, those of other posts, or both
    forgotten, \* history: Home has been restarted since the answer
    collided   \* history: some filter has had the bits of other posts

postVars == <<row, creating, filter, forgotten, collided>>
allVars == <<vars, postVars>>

PostTypeOK ==
    /\ row \in {"none", "live", "deleted"}
    /\ creating \in {"insert", "count", "learn", "answered", "failed"}
    /\ row = "none" => creating \in {"insert", "failed"}
    /\ filter \in [Replica -> SUBSET {"own", "others"}]
    /\ forgotten \in BOOLEAN
    /\ collided \in BOOLEAN

PostInit ==
    /\ Init
    /\ row = "none"
    /\ creating = "insert"
    /\ filter = [i \in Replica |-> {}]
    /\ forgotten = FALSE
    /\ collided = FALSE

-----------------------------------------------------------------------------
(* Faults seeded one at a time by the mutation runs.                       *)

FaultCarriesOn ==
    /\ creating = "insert"
    /\ creating' = "count"
    /\ row' \in {row, "live"}
    /\ UNCHANGED <<vars, filter, forgotten, collided>>

FaultDeletesViews ==
    /\ row = "live"
    /\ row' = "deleted"
    /\ viewers' = {}
    /\ expiring' = FALSE
    /\ UNCHANGED <<created, viewCount, step, counted, recorded, disturbed, faults>>
    /\ UNCHANGED <<creating, filter, forgotten, collided>>

FaultAddsAtFirst ==
    /\ creating = "insert"
    /\ row' = "live"
    /\ creating' = "count"
    /\ filter' = [filter EXCEPT ![Home] = @ \cup {"own"}]
    /\ UNCHANGED <<vars, forgotten, collided>>

FaultAddsNowhere(i) == filter

-----------------------------------------------------------------------------
(* CreatePost.                                                             *)

Insert ==
    /\ creating = "insert"
    /\ row' = "live"
    /\ creating' = "count"
    /\ UNCHANGED <<vars, filter, forgotten, collided>>

CountAuthor ==
    /\ creating = "count"
    /\ creating' = "learn"
    /\ AddWhenCreate
    /\ UNCHANGED <<row, filter, forgotten, collided>>

\* BloomFilter.Add sets the bits of the id, whatever they were.
Learnt(i) == [filter EXCEPT ![i] = @ \cup {"own"}]

Answer ==
    /\ creating = "learn"
    /\ filter' = Learnt(Home)
    /\ creating' = "answered"
    /\ UNCHANGED <<vars, row, forgotten, collided>>

\* The statement (the id generator before it, too) or the script fails, done or
\* not, and the error is returned at once: what was done remains.
CreateFails ==
    /\ creating' = "failed"
    /\ \/ creating = "insert" /\ row' \in {row, "live"} /\ UNCHANGED vars
       \/ creating = "count" /\ (AddWhenCreate \/ UNCHANGED vars) /\ UNCHANGED row
    /\ UNCHANGED <<filter, forgotten, collided>>

-----------------------------------------------------------------------------
(* The requests of others.                                                 *)

MightContain(i) == filter[i] # {}

\* GetPost by u, up to AddRead.  The cache loader may still have a copy of a
\* deleted post.
GetPost(i, u) ==
    /\ MightContain(i)
    /\ row # "none"
    /\ AddRead(u)
    /\ UNCHANGED postVars

\* No filter is asked.
IncrementView ==
    /\ row # "none"
    /\ IncrementViewCount
    /\ UNCHANGED postVars

DeletePost ==
    /\ row = "live"
    /\ row' = "deleted"
    /\ UNCHANGED <<vars, creating, filter, forgotten, collided>>

\* The posts created at i have set all the bits of this one's id.
OthersCollide(i) ==
    /\ "others" \notin filter[i]
    /\ filter' = [filter EXCEPT ![i] = @ \cup {"others"}]
    /\ collided' = TRUE
    /\ UNCHANGED <<vars, row, creating, forgotten>>

\* List and ListByUserID ask for the rows with status 2, and no filter.
Listed == row = "live"

\* json.Marshal: 0 is a list of tags, 1 its encoding, 2 the encoding of that.
Encoded(tags) == tags + 1
IsList(column) == column = Encoded(0)

\* CreatePost and UpdatePost encode the tags, and the repository encodes what
\* it is given.
Submitted == Encoded(0)
Stored == Encoded(Submitted)

\* ListPosts and ListUserPosts decode the tags of every row as a list; one that
\* is none fails the whole answer.  (GetPost shows no tags instead.)
ListPosts ==
    IF ~Listed THEN "without it" ELSE IF IsList(Stored) THEN "with it" ELSE "error"

-----------------------------------------------------------------------------
(* Processes.                                                              *)

\* What a crash does to the syncer of i; the next Sync starts anew.
SyncStops(i) == IF step[i] = "idle" THEN UNCHANGED vars ELSE SyncFails(i)

\* A request under way dies with its process.  What its last statement may
\* have done is a CreateFails that comes before.
Restart(i) ==
    /\ SyncStops(i)
    /\ filter' = [filter EXCEPT ![i] = {}]
    /\ creating' = IF i = Home /\ creating # "answered" THEN "failed" ELSE creating
    /\ forgotten' = (forgotten \/ (i = Home /\ creating = "answered"))
    /\ UNCHANGED <<row, collided>>

Background(i) == (Sync(i) \/ SyncFails(i)) /\ UNCHANGED postVars
Expire == KeyExpires /\ UNCHANGED postVars

PostNext ==
    \/ Insert \/ CountAuthor \/ Answer \/ CreateFails
    \/ \E i \in Replica, u \in User : GetPost(i, u)
    \/ IncrementView \/ DeletePost \/ Expire
    \/ \E i \in Replica : OthersCollide(i) \/ Restart(i) \/ Background(i)

PostSpec == PostInit /\ [][PostNext]_allVars

\* The ticker of each replica starts Sync again and again.
PostFairSpec ==
    PostSpec /\ \A i \in Replica : WF_allVars(Sync(i) /\ UNCHANGED postVars)

-----------------------------------------------------------------------------
(* Properties.                                                             *)

\* Who has been told that the post exists finds it by its id at the replica that
\* told him until that restarts: MightContain does not deny it there.  No list
\* shows it: until it is deleted, every list of any replica that it belongs to
\* is answered with an error, for its tags cannot be decoded.
HomeKnows ==
    creating = "answered" =>
        /\ ListPosts = "error" \/ row = "deleted"
        /\ ~forgotten => MightContain(Home)

\* A post whose creation was not answered with success is read by nobody: its
\* row may be there, but no filter knows the id.
Readers == viewers \ {Author}
GhostIsUnread == creating # "answered" /\ ~collided => Readers = {}

\* Creations, restarts, deletions and filters leave the view counter what
\* ViewCount says it is.
CountsViews == Spec
=============================================================================
