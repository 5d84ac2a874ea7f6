------------------------------ MODULE IoQpair ------------------------------
(***************************************************************************)
(* An NVMe I/O queue pair of SPDK, as the programs of this repository use  *)
(* it.  A command handed over by a successful spdk_nvme_*_cmd call belongs *)
(* to the device until its completion has been placed on the completion    *)
(* queue (in any order) and the program has polled it with                 *)
(* spdk_nvme_qpair_process_completions, which calls the command's callback *)
(* on the program's only thread.                                           *)
(*                                                                         *)
(* SPDK is not part of the repository: the whole module is external.  Its  *)
(* operators are action fragments a client conjoins with what the code     *)
(* does to its own state.                                                  *)
(***************************************************************************)
EXTENDS Naturals, FiniteSets

CONSTANT MaxRequests    \* request objects of a queue pair (SPDK: 512)

ASSUME MaxRequestsAssumption == MaxRequests \in Nat \ {0}

VARIABLES
    qpair,              \* what the program's qpair pointer designates
    inflight,           \* commands the device is working on
    cq                  \* completions posted and not yet polled

qpairVars == <<qpair, inflight, cq>>

\* Every command that has been submitted and whose callback has not run.
Flying == inflight \cup cq

QpairTypeOK(Command) ==
    /\ qpair \in {"none", "live", "freed", "corrupt"}
    /\ inflight \subseteq Command
    /\ cq \subseteq Command

QpairInit == qpair = "none" /\ inflight = {} /\ cq = {}

AllocIoQpair == qpair' = "live" /\ UNCHANGED <<inflight, cq>>

\* No request object is left: a submission returns -ENOMEM.
Full == Cardinality(Flying) >= MaxRequests

Accept(c) ==
    /\ inflight' = inflight \cup {c}
    /\ UNCHANGED <<qpair, cq>>

DeviceComplete(c) ==
    /\ c \in inflight
    /\ inflight' = inflight \ {c}
    /\ cq' = cq \cup {c}
    /\ UNCHANGED qpair

\* One process_completions call that finds the completions S.  A call may
\* leave some behind (SPDK caps the completions of one call).  A call that
\* finds nothing is a stuttering step.
Reap(S) ==
    /\ S \subseteq cq
    /\ S # {}
    /\ cq' = cq \ S
    /\ UNCHANGED <<qpair, inflight>>

\* Freeing aborts what is still queued.  A second free of the same queue pair
\* corrupts memory.
FreeIoQpair ==
    /\ qpair' = IF qpair = "live" THEN "freed" ELSE "corrupt"
    /\ inflight' = {}
    /\ cq' = {}
=============================================================================
