-------------------------- MODULE MCTraceAnalyzer ---------------------------
(* Small traces and namespaces for the analyzer.                           *)
EXTENDS TraceAnalyzer

submit(o, s, n) ==
    [tpoint |-> "NVME_IO_SUBMIT", opc |-> o, slba |-> s, nlb |-> n, action |-> TRUE,
     tsc_timestamp |-> 1, tsc_sc_time |-> 0]
complete(t) ==
    [tpoint |-> "NVME_IO_COMPLETE", opc |-> "FLUSH", slba |-> 0, nlb |-> 0, action |-> TRUE,
     tsc_timestamp |-> 2, tsc_sc_time |-> t]
\* The command fields of a completion are whatever the catcher's stack held.
unset(o) == [complete(1) EXCEPT !.opc = o, !.slba = 4, !.nlb = 3]
other == [complete(0) EXCEPT !.tpoint = "OTHER"]
unnamed == [submit("ZONE_MGMT_SEND", 0, 0) EXCEPT !.action = FALSE]

Alphabet ==
    {submit("READ", 0, 1), submit("WRITE", 2, 0), submit("ZONE_APPEND", 2, 1),
     complete(1), complete(3)}

\* What trace_catcher writes: a completion follows a submission.
Paired(t) ==
    \A n \in 1 .. Len(t) :
        LET Of(p) == {k \in 1 .. n : t[k].tpoint = p}
        IN Cardinality(Of("NVME_IO_COMPLETE")) <= Cardinality(Of("NVME_IO_SUBMIT"))

MCTraces ==
    {t \in UNION {[1 .. n -> Alphabet] : n \in 0 .. 3} : Paired(t)}
    \cup {<<submit("READ", 0, 0), e, complete(1)>> :
             e \in {submit("OTHER", 0, 0), submit("DATASET_MANAGEMENT", 0, 0),
                    submit("COPY", 0, 0), submit("FLUSH", 0, 0), unnamed, other,
                    submit("READ", 0, 3), submit("WRITE", 3, 1), submit("READ", 4, 0)}}
    \cup {<<submit("READ", 0, 0), unset(o), submit("WRITE", 0, 1)>> :
             o \in {"READ", "ZONE_APPEND", "COPY", "OTHER"}}
    \cup {[n \in 1 .. 5 |-> submit(o, 2, 0)] : o \in {"READ", "ZONE_APPEND"}}
    \cup {<<submit("READ", 0, 0), complete(t1), submit("READ", 1, 0), complete(t2),
            submit("WRITE", 1, 0), complete(1)>> : t1 \in {0, 20, 31}, t2 \in {1, 31}}
    \cup {<<submit("READ", 0, 0), complete(t1), submit("READ", 1, 0), complete(t2)>> :
             t1, t2 \in 7 .. 13}
    \cup {<<submit("READ", 0, 0), complete(9), submit("READ", 1, 0), complete(9),
            submit("WRITE", 1, 0), complete(9)>>}
    \cup {<<submit("READ", 0, 0), complete(t)>> : t \in {9, 15, 31}}

MCNamespaces ==
    {[zoned |-> TRUE, ncap |-> 4, max_transfer |-> 3, zone_size |-> 2, zones |-> 2],
     [zoned |-> FALSE, ncap |-> 4, max_transfer |-> 3, zone_size |-> 2, zones |-> 2]}
=============================================================================
