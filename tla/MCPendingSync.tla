--------------------------- MODULE MCPendingSync ---------------------------
(* Three instances: two syncers on one target that changes three times; the  *)
(* same with two changes, a fault and a call of the hands; and two targets,  *)
(* of which a pass of the only syncer takes one.                             *)
EXTENDS PendingSync

CONSTANTS t1, t2, c1, c2, s1, s2, f1

Often ==
    [targets |-> {t1}, syncers |-> {s1, s2}, changes |-> 3, faults |-> 0,
     repairs |-> 0]
Disturbed ==
    [targets |-> {t1}, syncers |-> {s1, s2}, changes |-> 2, faults |-> 1,
     repairs |-> 1]
TwoTargets ==
    [targets |-> {t1, t2}, syncers |-> {s1}, changes |-> 2, faults |-> 1,
     repairs |-> 0]
Interesting == {Often, Disturbed, TwoTargets}
=============================================================================
