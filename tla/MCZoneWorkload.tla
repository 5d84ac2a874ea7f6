--------------------------- MODULE MCZoneWorkload ---------------------------
(* Small zoned devices for the load generators.                            *)
EXTENDS ZoneWorkload

device(n, c, m) ==
    [zoned |-> TRUE, num_zone |-> n, zcap |-> c, max_open |-> m, max_append |-> 2]

MCDevices ==
    {device(2, 2, 2), device(3, 3, 2), device(4, 3, 2), device(2, 5, 1), device(2, 2, 0),
     [device(2, 2, 1) EXCEPT !.zoned = FALSE]}

LargeDevices == {device(1, 7, 1)}

MCRatios == {[p |-> 0, q |-> 1], [p |-> 1, q |-> 2], [p |-> 1, q |-> 1]}
=============================================================================
