----------------------------- MODULE MCZoneDemo -----------------------------
(* Small buses and namespaces.                                             *)
EXTENDS ZoneDemo

CONSTANTS c1, c2

MCBuses == {<<>>} \cup [{c1} -> {{}, {1}}] \cup [{c1, c2} -> {{}, {1, 3}}]

geometry(o, a, m) == [zoned |-> TRUE, num_zone |-> 2, zcap |-> 3, max_append |-> m,
                      max_open |-> o, max_active |-> a]
MCDevices == {geometry(1, 1, 2), geometry(2, 2, 1), [geometry(0, 0, 0) EXCEPT !.zoned = FALSE]}
=============================================================================
