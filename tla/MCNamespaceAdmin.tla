-------------------------- MODULE MCNamespaceAdmin --------------------------
(* Small devices for model checking NamespaceAdmin.                        *)
EXTENDS NamespaceAdmin

\* Conventional namespaces of 0 to 7 blocks and transfers of 1 to 4 blocks:
\* the last transfer is full, short, or the only one.
Conventional == [zoned : {FALSE}, blocks : 0 .. 7, xfer : 1 .. 4, zones : {0},
                 zone_size : {1}, per_buf : {1}]

\* Zoned namespaces of up to 4 zones of 2 blocks whose report fits the buffer,
SmallZoned == {d \in [zoned : {TRUE}, blocks : {0, 2, 4, 6, 8}, xfer : {1}, zones : 0 .. 4,
                      zone_size : {2}, per_buf : 1 .. 4] : d.blocks = d.zones * d.zone_size}

AllDevices == Conventional \cup SmallZoned
=============================================================================
