-------------------------- MODULE MCTraceReplayer --------------------------
(* Traces for model checking TraceReplayer.                                *)
EXTENDS TraceReplayer

CONSTANT MaxTrace       \* longest trace

Request(opc, ok) == [tpoint |-> "NVME_IO_SUBMIT", opc |-> opc, valid |-> ok]
Completion == [tpoint |-> "NVME_IO_COMPLETE", opc |-> "READ", valid |-> TRUE]

\* A completion record; a command both namespace types know, one that only a
\* conventional namespace knows, and one the driver refuses.
FewKinds == {Completion, Request("READ", TRUE), Request("WRITE_ZEROES", TRUE),
             Request("WRITE", FALSE)}

\* One that only a zoned namespace knows besides, and one that is always ignored.
MoreKinds == FewKinds \cup {Request("ZONE_APPEND", TRUE), Request("OTHER", TRUE)}

TracesUpTo(kinds, n) == UNION {[1 .. k -> kinds] : k \in 0 .. n}
ShortTraces == TracesUpTo(FewKinds, 2)
LongTraces == TracesUpTo(FewKinds, MaxTrace) \cup TracesUpTo(MoreKinds, MaxTrace - 2)
=============================================================================
