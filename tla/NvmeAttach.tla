----------------------------- MODULE NvmeAttach -----------------------------
(***************************************************************************)
(* The lists of controllers and namespaces every program of the repository *)
(* keeps: attach_cb and register_ns fill them while spdk_nvme_probe runs,  *)
(* cleanup empties them.  The operators are action fragments; a client     *)
(* conjoins them with what its main() does next.                           *)
(*                                                                         *)
(* The bus is external: controllers, each with the ids of its active       *)
(* namespaces, which SPDK enumerates in ascending order.                   *)
(***************************************************************************)
EXTENDS Naturals, Sequences, FiniteSets

CONSTANT Buses      \* functions from controllers to sets of active namespace ids

ASSUME BusesAssumption ==
    \A b \in Buses :
        /\ IsFiniteSet(DOMAIN b)
        /\ \A c \in DOMAIN b : b[c] \in SUBSET (Nat \ {0}) /\ IsFiniteSet(b[c])

VARIABLES
    bus,
    attached,           \* controllers SPDK holds for this program
    g_controllers,      \* ctrlr_entry list
    g_namespaces        \* ns_entry list

attachVars == <<bus, attached, g_controllers, g_namespaces>>

ns_entries(c, ids) == {[ctrlr |-> c, ns |-> n] : n \in ids}

AttachTypeOK ==
    /\ bus \in Buses
    /\ attached \subseteq DOMAIN bus
    /\ g_controllers \in Seq(DOMAIN bus)
    /\ g_namespaces \in Seq(UNION {ns_entries(c, bus[c]) : c \in DOMAIN bus})

AttachInit ==
    /\ bus \in Buses
    /\ attached = {}
    /\ g_controllers = <<>>
    /\ g_namespaces = <<>>

\* The active ids as spdk_nvme_ctrlr_get_first_active_ns and _get_next_active_ns give them,
\* and register_ns for each.
active(c) ==
    CHOOSE ids \in [1 .. Cardinality(bus[c]) -> bus[c]] :
        \A i, j \in DOMAIN ids : i < j => ids[i] < ids[j]
register_ns(c) == [i \in DOMAIN active(c) |-> [ctrlr |-> c, ns |-> active(c)[i]]]

\* Mutant of AttachCb: only namespace 1 is registered.
AttachCbFirstNs(c) ==
    /\ c \in DOMAIN bus \ attached
    /\ attached' = attached \cup {c}
    /\ g_controllers' = Append(g_controllers, c)
    /\ g_namespaces' = g_namespaces \o SelectSeq(register_ns(c), LAMBDA e : e.ns = 1)
    /\ UNCHANGED bus

\* SPDK has initialised a controller and calls attach_cb.
AttachCb(c) ==
    /\ c \in DOMAIN bus \ attached
    /\ attached' = attached \cup {c}
    /\ g_controllers' = Append(g_controllers, c)
    /\ g_namespaces' = g_namespaces \o register_ns(c)
    /\ UNCHANGED bus

\* malloc fails in attach_cb or register_ns: the program exits on the spot.
AttachFails(c) ==
    /\ c \in DOMAIN bus \ attached
    /\ attached' = attached \cup {c}
    /\ UNCHANGED <<bus, g_controllers, g_namespaces>>

\* The two loops of cleanup.
FreeNamespaces ==
    /\ g_namespaces # <<>>
    /\ g_namespaces' = <<>>
    /\ UNCHANGED <<bus, attached, g_controllers>>

DetachFirst ==
    /\ g_namespaces = <<>>
    /\ g_controllers # <<>>
    /\ attached' = attached \ {Head(g_controllers)}
    /\ g_controllers' = Tail(g_controllers)
    /\ UNCHANGED <<bus, g_namespaces>>

\* The lists are those of the controllers attached, in the order of attach_cb and
\* the ids ascending.
ListsExact ==
    /\ {g_controllers[i] : i \in DOMAIN g_controllers} = attached
    /\ {g_namespaces[i] : i \in DOMAIN g_namespaces}
         = UNION {ns_entries(c, bus[c]) : c \in attached}
    /\ \A i, j \in DOMAIN g_namespaces : i < j =>
         \/ g_namespaces[i].ctrlr = g_namespaces[j].ctrlr /\ g_namespaces[i].ns < g_namespaces[j].ns
         \/ \E p, q \in DOMAIN g_controllers :
                p < q /\ g_controllers[p] = g_namespaces[i].ctrlr
                      /\ g_controllers[q] = g_namespaces[j].ctrlr
=============================================================================
