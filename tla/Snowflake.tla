------------------------------ MODULE Snowflake ------------------------------
(***************************************************************************)
(* The id generators of the post and interaction services                  *)
(* (post/pkg/snowid/snowflake.go; interaction has the same file): one per  *)
(* process, each with the node id its main function passes to Init.  A     *)
(* mutex makes Generate one step, except when the 4096 ids of a            *)
(* millisecond are used up: it then spins on the clock, mutex held.        *)
(*                                                                         *)
(* The clock of a host may be set back, and a process may restart; a new   *)
(* process remembers neither lastTime nor sequence.                        *)
(***************************************************************************)
EXTENDS Integers, FiniteSets

CONSTANTS
    Process,
    NodeID,        \* NodeID[p]: what p passes to Init
    NodeSpan,      \* 2^nodeIDBits
    SequenceSpan,  \* 2^sequenceBits
    MaxTime,       \* bounds of the model: milliseconds since epoch,
    MaxSetBacks,   \* times each clock is set back,
    MaxRestarts    \* restarts of each process

\* New refuses a node id outside 0..maxNodeID.
ASSUME NodeAssumption ==
    /\ NodeSpan \in Nat \ {0}
    /\ NodeID \in [Process -> 0..(NodeSpan - 1)]

ASSUME SpanAssumption ==
    /\ SequenceSpan \in Nat \ {0}
    /\ MaxTime \in Nat \ {0}
    /\ MaxSetBacks \in Nat
    /\ MaxRestarts \in Nat

VARIABLES
    clock,     \* clock[p]: time.Now().UnixMilli() - epoch on p's host
    lastTime,  \* s.lastTime
    sequence,  \* s.sequence
    spinning,  \* a goroutine of p is in the loop of Generate
    last,      \* history: the id p issued last in this run, 0 if none
    issued,    \* history: issued[p]: the ids of all runs of p
    again,     \* history: processes that issued an id for the second time
    suspect,   \* history: processes whose clock was set back, or that were
               \* restarted before the millisecond of their last id was over
    setBacks, restarts

generator == <<lastTime, sequence, spinning>>
history == <<last, issued, again>>
vars == <<clock, generator, history, suspect, setBacks, restarts>>

MaxSequence == SequenceSpan - 1

TypeOK ==
    /\ clock \in [Process -> 1..MaxTime]
    /\ lastTime \in [Process -> 0..MaxTime]
    /\ sequence \in [Process -> 0..MaxSequence]
    /\ spinning \in [Process -> BOOLEAN]
    /\ last \in [Process -> Nat]
    /\ issued \in [Process -> SUBSET Nat]
    /\ again \in SUBSET Process
    /\ suspect \in SUBSET Process
    /\ setBacks \in [Process -> 0..MaxSetBacks]
    /\ restarts \in [Process -> 0..MaxRestarts]

\* epoch is past.
Init ==
    /\ clock = [p \in Process |-> 1]
    /\ lastTime = [p \in Process |-> 0]
    /\ sequence = [p \in Process |-> 0]
    /\ spinning = [p \in Process |-> FALSE]
    /\ last = [p \in Process |-> 0]
    /\ issued = [p \in Process |-> {}]
    /\ again = {}
    /\ suspect = {}
    /\ setBacks = [p \in Process |-> 0]
    /\ restarts = [p \in Process |-> 0]

-----------------------------------------------------------------------------
(* Faults seeded one at a time by the mutation runs.                       *)

FaultNoMask(n) == n + 1
FaultNodeOverlaps(time, node, seq) == time * NodeSpan + node * SequenceSpan + seq
FaultSpinsTooShort(p) == clock[p] >= lastTime[p]

-----------------------------------------------------------------------------
(* Generate.                                                               *)

\* (now << timestampShift) | (nodeID << nodeIDShift) | sequence
Id(time, node, seq) == (time * NodeSpan + node) * SequenceSpan + seq

\* (n + 1) & maxSequence
NextSequence(n) == (n + 1) % SequenceSpan

\* lastTime and sequence become those of the id returned.
Issue(p, now, seq) ==
    LET id == Id(now, NodeID[p], seq)
    IN /\ lastTime' = [lastTime EXCEPT ![p] = now]
       /\ sequence' = [sequence EXCEPT ![p] = seq]
       /\ last' = [last EXCEPT ![p] = id]
       /\ issued' = [issued EXCEPT ![p] = @ \cup {id}]
       /\ again' = IF id \in issued[p] THEN again \cup {p} ELSE again

\* "clock moved backwards": the call returns an error and changes nothing.
ClockOK(p) == clock[p] >= lastTime[p]

\* The bound leaves a millisecond for the loop to wait for.
Free(p) == ~spinning[p] /\ ClockOK(p) /\ clock[p] < MaxTime

GenerateNewTime(p) ==
    /\ Free(p) /\ clock[p] # lastTime[p]
    /\ Issue(p, clock[p], 0)
    /\ UNCHANGED <<clock, spinning, suspect, setBacks, restarts>>

GenerateSameTime(p) ==
    /\ Free(p) /\ clock[p] = lastTime[p]
    /\ NextSequence(sequence[p]) # 0
    /\ Issue(p, clock[p], NextSequence(sequence[p]))
    /\ UNCHANGED <<clock, spinning, suspect, setBacks, restarts>>

\* The sequence wraps: into the loop, with s.sequence already 0.
StartSpin(p) ==
    /\ Free(p) /\ clock[p] = lastTime[p]
    /\ NextSequence(sequence[p]) = 0
    /\ sequence' = [sequence EXCEPT ![p] = 0]
    /\ spinning' = [spinning EXCEPT ![p] = TRUE]
    /\ UNCHANGED <<clock, lastTime, history, suspect, setBacks, restarts>>

SpinOver(p) == clock[p] > lastTime[p]

EndSpin(p) ==
    /\ spinning[p] /\ SpinOver(p)
    /\ Issue(p, clock[p], sequence[p])
    /\ spinning' = [spinning EXCEPT ![p] = FALSE]
    /\ UNCHANGED <<clock, suspect, setBacks, restarts>>

-----------------------------------------------------------------------------
(* The environment.                                                        *)

Tick(p) ==
    /\ clock[p] < MaxTime
    /\ clock' = [clock EXCEPT ![p] = @ + 1]
    /\ UNCHANGED <<generator, history, suspect, setBacks, restarts>>

SetBack(p) ==
    /\ clock[p] > 1 /\ setBacks[p] < MaxSetBacks
    /\ clock' = [clock EXCEPT ![p] = @ - 1]
    /\ suspect' = suspect \cup {p}
    /\ setBacks' = [setBacks EXCEPT ![p] = @ + 1]
    /\ UNCHANGED <<generator, history, restarts>>

\* The process ends, and main calls Init again.
Restart(p) ==
    /\ restarts[p] < MaxRestarts
    /\ restarts' = [restarts EXCEPT ![p] = @ + 1]
    /\ suspect' = IF clock[p] <= lastTime[p] THEN suspect \cup {p} ELSE suspect
    /\ lastTime' = [lastTime EXCEPT ![p] = 0]
    /\ sequence' = [sequence EXCEPT ![p] = 0]
    /\ spinning' = [spinning EXCEPT ![p] = FALSE]
    /\ last' = [last EXCEPT ![p] = 0]
    /\ UNCHANGED <<clock, issued, again, setBacks>>

-----------------------------------------------------------------------------
Generate(p) ==
    GenerateNewTime(p) \/ GenerateSameTime(p) \/ StartSpin(p) \/ EndSpin(p)

Next == \E p \in Process : Generate(p) \/ Tick(p) \/ SetBack(p) \/ Restart(p)

Spec == Init /\ [][Next]_vars

-----------------------------------------------------------------------------
(* Properties.                                                             *)

\* Within one run the ids a process issues only grow, whatever its clock does:
\* the order of ids is the order of creation.
IdsIncrease ==
    [][\A p \in Process :
        last'[p] # last[p] => last'[p] > last[p] \/ restarts'[p] > restarts[p]]_vars

\* Processes with different node ids never issue the same id; a process issues
\* one twice only if its clock was set back or it was restarted within the
\* millisecond of its last id, for Init then forgets what was used.
UniqueIds ==
    /\ again \subseteq suspect
    /\ \A p, q \in Process : NodeID[p] # NodeID[q] => issued[p] \cap issued[q] = {}

\* The generators are a source of ids as their callers expect it: also across
\* its restarts a process issues only ids above all its earlier ones, unless its
\* clock was set back or it died within a millisecond, and none of another node;
\* in the same run they grow even then.
Ids == INSTANCE IdSource WITH
    Source   <- Process,
    Node     <- NodeID,
    Number   <- {Id(t, n, s) : t \in 1..MaxTime, n \in 0..(NodeSpan - 1),
                               s \in 0..MaxSequence},
    given    <- issued,
    doubtful <- suspect
IsIdSource == Ids!Spec

=============================================================================
