---------------------------- MODULE ReplayQueue ----------------------------
(***************************************************************************)
(* What a replay promises, without files, chunks, polling or heap objects: *)
(* the commands of the recorded trace are issued in trace order, at most   *)
(* `depth' of them are unanswered at any time, each one is answered once,  *)
(* and a replay that ends as "complete" has issued and retired them all.   *)
(***************************************************************************)
EXTENDS Naturals, FiniteSets

VARIABLES
    work,       \* trace positions of the commands to replay
    depth,      \* the most that may be unanswered
    issued,     \* positions handed to the device so far
    flying,     \* issued and not yet answered
    status      \* "running", then "complete" or "aborted"

queueVars == <<work, depth, issued, flying, status>>

QueueInit ==
    /\ work \in SUBSET Nat
    /\ depth \in Nat \ {0}
    /\ issued = {}
    /\ flying = {}
    /\ status = "running"

\* The next command in trace order goes out while there is room for it.
Issue(k) ==
    /\ status = "running"
    /\ k \in work \ issued
    /\ \A j \in work \ issued : k <= j
    /\ Cardinality(flying) < depth
    /\ issued' = issued \cup {k}
    /\ flying' = flying \cup {k}
    /\ UNCHANGED <<work, depth, status>>

\* Some answers, in any order.
Retire ==
    /\ status = "running"
    /\ flying' \in SUBSET flying
    /\ UNCHANGED <<work, depth, issued, status>>

Complete ==
    /\ status = "running"
    /\ issued = work
    /\ flying = {}
    /\ status' = "complete"
    /\ UNCHANGED <<work, depth, issued, flying>>

\* The replay gives up; what was in flight is aborted with the queue pair or
\* left behind.
Abort ==
    /\ status = "running"
    /\ status' = "aborted"
    /\ flying' \in SUBSET flying
    /\ UNCHANGED <<work, depth, issued>>

QueueNext ==
    \/ \E k \in work : Issue(k)
    \/ Retire
    \/ Complete
    \/ Abort

QueueSpec == QueueInit /\ [][QueueNext]_queueVars
=============================================================================
