--------------------------- MODULE MCZonedReplay ---------------------------
(* Small loads on small zoned namespaces.                                  *)
EXTENDS ZonedReplay

CONSTANT MaxLoad        \* longest load of all kinds of commands

Code == [a \in Actions \cup {"extend"} |->
            CASE a = "close" -> 1 [] a = "finish" -> 2 [] a = "open" -> 3
              [] a = "reset" -> 4 [] a = "offline" -> 5 [] a = "extend" -> 7]

cmd(o, z, f, n, every) == [op |-> o, zone |-> z, off |-> f, nlb |-> n, all |-> every,
                        flags |-> IF o = "write" THEN 1 ELSE 0]

Writes == {cmd("append", 0, 0, 1, FALSE), cmd("append", 1, 0, 2, FALSE),
           cmd("write", 0, 1, 2, FALSE)}
Moves == Writes \cup {cmd("read", 1, 2, 1, FALSE)}
Sends == {cmd(a, 0, 0, 1, FALSE) : a \in {"open", "close", "finish", "reset"}}
         \cup {cmd(a, 0, 0, 1, TRUE) : a \in Actions}
Passed == {cmd(a, 0, 0, 1, FALSE) : a \in Ignored}
Mixed == Moves \cup Passed \cup {cmd("reset", 0, 0, 1, FALSE), cmd("finish", 0, 0, 1, TRUE)}

SeqsUpTo(S, n) == UNION {[1 .. k -> S] : k \in 0 .. n}
\* Zone 0 filled block by block, then zone 1: on a device with one open zone an
\* append can overtake the one that closes zone 0.
Filling == [k \in 1 .. 6 |-> cmd("append", IF k <= 3 THEN 0 ELSE 1, 0, 1, FALSE)]
MCLoads == SeqsUpTo(Moves \cup Sends \cup Passed, MaxLoad) \cup SeqsUpTo(Mixed, MaxLoad + 1)
           \cup SeqsUpTo(Writes, MaxLoad + 2) \cup {Filling}

\* A closed zone beside a full one; two zones open, one of them without a block.
left(s, w, t, x) ==
    [z \in 0 .. 1 |-> IF z = 0 THEN [state |-> s, wp |-> w] ELSE [state |-> t, wp |-> x]]
MCLeftovers == {left("closed", 1, "full", 3), left("explicit", 0, "implicit", 1)}

geometry(o, a) == [num_zone |-> 2, zone_size |-> 4, zcap |-> 3, max_open |-> o, max_active |-> a]
MCDevices == {geometry(2, 2), geometry(1, 2), geometry(1, 1)}
=============================================================================
