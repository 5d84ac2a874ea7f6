---------------------------- MODULE ZonedDevice ----------------------------
(***************************************************************************)
(* What a zoned NVMe namespace does to its zones when it executes a        *)
(* command.  The device is external; the programs see it only through      *)
(* completions.  A zone is empty, opened by a command to do so             *)
(* ("explicit") or by a write ("implicit"), closed, or full.  Open zones   *)
(* and active (open or closed) zones are limited; this device refuses what *)
(* exceeds a limit.  A refused command completes with an error and changes *)
(* nothing.                                                                *)
(*                                                                         *)
(* dev.zcap: blocks of a zone that can be written; dev.max_open and        *)
(* dev.max_active: the limits.  A command has an op, a zone, a number of   *)
(* blocks nlb and the Select All bit all.                                  *)
(***************************************************************************)
EXTENDS Integers, FiniteSets

ZoneStates == {"empty", "implicit", "explicit", "closed", "full"}
EmptyZone == [state |-> "empty", wp |-> 0]

InState(zs, states) == {z \in DOMAIN zs : zs[z].state \in states}
Open(zs) == InState(zs, {"implicit", "explicit"})
Active(zs) == Open(zs) \cup InState(zs, {"closed"})

\* The zones Z may all become open.
CanOpen(dev, zs, Z) ==
    /\ Cardinality(Open(zs) \cup Z) <= dev.max_open
    /\ Cardinality(Active(zs) \cup Z) <= dev.max_active

\* Zones that a device can be in: a write pointer behind the first block only if the
\* zone is in use, at its end only if it is full, and no limit is exceeded.
WellFormed(dev, zs) ==
    /\ zs \in [0 .. dev.num_zone - 1 -> [state : ZoneStates, wp : 0 .. dev.zcap]]
    /\ \A z \in DOMAIN zs : /\ zs[z].state = "full" <=> zs[z].wp = dev.zcap
                            /\ zs[z].state = "empty" => zs[z].wp = 0
                            /\ zs[z].state \in {"implicit", "closed"} => zs[z].wp > 0
    /\ CanOpen(dev, zs, {})

\* The zones a command is about.  With Select All an action applies to the zones
\* in which it makes sense.
Targets(zs, c) ==
    IF ~c.all THEN {c.zone}
    ELSE CASE c.op = "open"   -> InState(zs, {"closed"})
           [] c.op = "close"  -> Open(zs)
           [] c.op = "finish" -> Active(zs)
           [] OTHER           -> DOMAIN zs

\* The command is executed; otherwise it completes with an error.
Succeeds(dev, zs, c) ==
    LET Z == Targets(zs, c)
    IN /\ Z \subseteq DOMAIN zs
       /\ c.op = "append" =>
            \A z \in Z : zs[z].state # "full" /\ zs[z].wp + c.nlb <= dev.zcap
       /\ c.op \in {"append", "open"} =>
            CanOpen(dev, zs, Z) /\ \A z \in Z : zs[z].state # "full"
       /\ c.op = "close" => Z \subseteq Active(zs)
       /\ c.op # "offline"      \* for read-only zones, which do not occur here

\* One zone after the command.
ZoneAfter(dev, zn, c) ==
    CASE c.op = "append" -> [wp |-> zn.wp + c.nlb,
                             state |-> IF zn.wp + c.nlb = dev.zcap THEN "full"
                                       ELSE IF zn.state = "explicit" THEN "explicit"
                                       ELSE "implicit"]
      [] c.op = "open"   -> [zn EXCEPT !.state = "explicit"]
      [] c.op = "close"  -> [zn EXCEPT !.state = IF zn.wp = 0 THEN "empty" ELSE "closed"]
      [] c.op = "finish" -> [wp |-> dev.zcap, state |-> "full"]
      [] c.op = "reset"  -> EmptyZone
      [] OTHER           -> zn

\* All zones after the command.
After(dev, zs, c) ==
    IF Succeeds(dev, zs, c)
    THEN [z \in DOMAIN zs |-> IF z \in Targets(zs, c) THEN ZoneAfter(dev, zs[z], c) ELSE zs[z]]
    ELSE zs
=============================================================================
