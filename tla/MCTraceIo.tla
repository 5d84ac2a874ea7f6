----------------------------- MODULE MCTraceIo ------------------------------
(* A few arguments of -e for two groups of two tracepoints.                *)
EXTENDS TraceIo

MCTokens ==
    {t \in [known : BOOLEAN, groups : SUBSET (0 .. 2), colon : BOOLEAN, number : {TRUE, FALSE},
            tpoints : SUBSET {"submit", "complete"}] :
        /\ ~t.known => t.groups = {} /\ ~t.colon
        /\ ~t.colon => t.number /\ t.tpoints = {}
        /\ ~t.number => t.tpoints = {}
        /\ t.groups \in {{}, {0}, {0, 1}, {1, 2}, {2}}}

MCGroupArgs == {<<t>> : t \in MCTokens} \cup {<<t, u>> : t, u \in MCTokens}
=============================================================================
