---------------------------- MODULE ZonedReplay ----------------------------
(***************************************************************************)
(* A recorded load, replayed on a zoned namespace.  The replay is the      *)
(* abstract ReplayQueue, which TraceReplayer implements; the device        *)
(* executes each command at any time between its submission and its        *)
(* completion, in any order.  Nothing in the replay waits for a command    *)
(* the recorded program had waited for.                                    *)
(*                                                                         *)
(* The recorded command travels through its 64 bytes: the tracepoint keeps *)
(* command dwords 10 to 13 (Encode), process_zns_replay builds a command   *)
(* from them (Command), or none for an opcode or action without a case.    *)
(* Before the replay all zones are reset (reset_ns).  A reset that fails   *)
(* is reported and the replay goes on with the zones as they are (start).  *)
(***************************************************************************)
EXTENDS ReplayQueue, ZonedDevice, Sequences

CONSTANTS
    Loads,      \* sequences of commands a program may have issued
    Devices,    \* namespaces it is replayed on: those of ZonedDevice, num_zone, zone_size
    Depths,     \* queue depths
    ActionCode, \* the zone action codes of NVMe
    Leftovers,  \* what may be in the zones when their reset has failed
    DWord,      \* 2^32
    BlockWord,  \* 2^16: the block count is the low half of command dword 12
    SelectAll   \* 2^8, the Select All bit of command dword 13

Actions == {"open", "close", "finish", "reset", "offline"}

\* What a recorded program may also issue: "zeroes" writes like a write (WRITE_ZEROES),
\* "extend" is a zone action with an effect of its own that no property looks at (it sets
\* a descriptor extension), "other" is a command without effect on the zones (FLUSH).
Ignored == {"zeroes", "extend", "other"}

\* A command as it was issued: op "read", "write" (at the write pointer), "append",
\* an action or one of those above; its zone, its offset in the zone, its number of
\* blocks, its flags in the other half of dword 12.
Commands == [op : {"read", "write", "append"} \cup Actions \cup Ignored, zone : Nat,
             off : Nat, nlb : 1 .. BlockWord, all : BOOLEAN, flags : Nat]

ASSUME ZonedReplayAssumption ==
    /\ Depths \subseteq Nat \ {0}
    /\ {BlockWord, DWord, SelectAll} \subseteq Nat \ {0}
    /\ ActionCode \in [Actions \cup {"extend"} -> 1 .. SelectAll - 1]
    /\ \A a, b \in Actions \cup {"extend"} : ActionCode[a] = ActionCode[b] => a = b
    /\ \A d \in Devices : /\ {d.num_zone, d.max_open, d.max_active} \subseteq Nat
                          /\ {d.zone_size, d.zcap} \subseteq Nat \ {0}
    /\ \A l \in Loads :
          /\ l \in Seq(Commands)
          /\ \A k \in DOMAIN l : /\ l[k].all => l[k].op \in Actions
                                 /\ \A d \in Devices :
                                       /\ l[k].off < d.zone_size
                                       /\ l[k].zone * d.zone_size + l[k].off < DWord * DWord

VARIABLES
    load,       \* the commands as they were issued when the trace was recorded
    dev,
    start,      \* the zones as the reset left them
    zones,      \* the zones of the device
    executed,   \* trace positions in the order of execution
    landed      \* position of an executed append -> write pointer it found

zonedVars == <<load, dev, start, zones, executed, landed>>
vars == <<queueVars, zonedVars>>

\* The dwords of an issued command that the trace keeps.
Encode(c) ==
    LET slba == c.zone * dev.zone_size + c.off
    IN [opc   |-> CASE c.op = "read" -> "READ" [] c.op = "write" -> "WRITE"
                    [] c.op = "append" -> "ZONE_APPEND" [] c.op = "zeroes" -> "WRITE_ZEROES"
                    [] c.op = "other" -> "FLUSH" [] OTHER -> "ZONE_MGMT_SEND",
        cdw10 |-> slba % DWord,
        cdw11 |-> slba \div DWord,
        cdw12 |-> c.flags * BlockWord + c.nlb - 1,
        cdw13 |-> IF c.op \in Actions \cup {"extend"}
                  THEN ActionCode[c.op] + (IF c.all THEN SelectAll ELSE 0) ELSE 0]

\* The switch of process_zns_replay.
Op(d) ==
    CASE d.opc \in {"READ", "COMPARE"} -> "read"
      [] d.opc \in {"WRITE", "ZONE_APPEND"} -> "append"
      [] d.opc = "ZONE_MGMT_SEND" /\ (\E a \in Actions : ActionCode[a] = d.cdw13 % SelectAll) ->
            CHOOSE a \in Actions : ActionCode[a] = d.cdw13 % SelectAll
      [] OTHER -> "none"

Executed == {executed[n] : n \in DOMAIN executed}
Empty == [z \in 0 .. dev.num_zone - 1 |-> EmptyZone]
\* The reset has failed, for some of the zones or for all.
NotReset == {zs \in Leftovers : WellFormed(dev, zs)}

Init ==
    /\ dev \in Devices
    /\ load \in Loads
    /\ work = {k \in DOMAIN load : Op(Encode(load[k])) # "none"}
    /\ depth \in Depths
    /\ issued = {} /\ flying = {} /\ status = "running"
    /\ start \in {Empty} \cup NotReset
    /\ zones = start
    /\ executed = <<>>
    /\ landed = <<>>
-----------------------------------------------------------------------------
slba(d) == d.cdw10 + (d.cdw11 % DWord) * DWord
select_all(d) == d.opc = "ZONE_MGMT_SEND" /\ (d.cdw13 \div SelectAll) % 2 = 1

\* Mutants of Command: the Select All bit is lost; the block count, which the
\* command counts from 0, is taken as it is.
CommandOfZone(d) ==
    [op |-> Op(d), zone |-> slba(d) \div dev.zone_size,
     nlb |-> (d.cdw12 % BlockWord) + 1, all |-> FALSE]
CommandShort(d) ==
    [op |-> Op(d), zone |-> slba(d) \div dev.zone_size, nlb |-> d.cdw12 % BlockWord,
     all |-> select_all(d)]

\* process_zns_replay: the command that is sent for an entry.  A recorded write
\* becomes an append to the start of its zone.
Command(d) ==
    [op |-> Op(d), zone |-> slba(d) \div dev.zone_size,
     nlb |-> (d.cdw12 % BlockWord) + 1, all |-> select_all(d)]

\* The driver takes the next command in trace order.
Replay(k) == Issue(k) /\ UNCHANGED zonedVars

\* The device executes a command it holds.
Execute(k) ==
    LET c == Command(Encode(load[k]))
    IN /\ k \in flying \ Executed
       /\ zones' = After(dev, zones, c)
       /\ executed' = Append(executed, k)
       /\ landed' = IF c.op = "append" /\ Succeeds(dev, zones, c)
                    THEN [j \in DOMAIN landed \cup {k} |->
                             IF j = k THEN zones[c.zone].wp ELSE landed[j]]
                    ELSE landed
       /\ UNCHANGED <<queueVars, load, dev, start>>

\* Callbacks run for commands that were executed.
Reap == Retire /\ flying \ flying' \subseteq Executed /\ UNCHANGED zonedVars

Finish == Complete /\ UNCHANGED zonedVars
GiveUp == Abort /\ UNCHANGED zonedVars

Terminated == status # "running" /\ UNCHANGED vars

Next ==
    \/ \E k \in work : Replay(k) \/ Execute(k)
    \/ Reap \/ Finish \/ GiveUp
    \/ Terminated

Spec == Init /\ [][Next]_vars
-----------------------------------------------------------------------------
(* Properties.                                                             *)

\* The effect of an issued command on a device that executes them one by one,
\* in the order they were issued, and of a load up to its n-th command from where
\* the replay starts.
Meant(c) == [op |-> IF c.op \in {"write", "zeroes"} THEN "append" ELSE c.op,
             zone |-> c.zone, nlb |-> c.nlb, all |-> c.all]
Serial[n \in 0 .. Len(load)] ==
    IF n = 0 THEN start
    ELSE After(dev, Serial[n - 1], Meant(load[n]))

\* Two commands whose order makes no difference to the zones, if no limit on
\* open zones is met.
Commute(a, b) ==
    \/ {"read", "other"} \cap {a.op, b.op} # {}
    \/ ~a.all /\ ~b.all /\ a.zone # b.zone
    \/ a.op = b.op /\ a.nlb = b.nlb /\ a.zone = b.zone /\ ~a.all /\ ~b.all
    \/ a.op = b.op /\ a.all /\ b.all

\* More zones than may be open or active at a time.
Limited ==
    Cardinality(DOMAIN zones) > dev.max_open \/ Cardinality(DOMAIN zones) > dev.max_active

OrderMatters == Limited \/ \E j, k \in DOMAIN load : ~Commute(Meant(load[j]), Meant(load[k]))

\* No recorded command that changed the zones is ignored by the replay.
NoneLost == \A k \in DOMAIN load : load[k].op \notin {"zeroes", "extend"}

\* A complete replay leaves the zones as the recorded commands, one by one, would
\* have from the zones the replay found, empty or not: at depth 1, and at any depth
\* when the order of the commands makes no difference; provided that process_zns_replay
\* knows all of them that change a zone.  (At a larger depth a reset, say, may be
\* executed after an append that the recorded program sent when the reset had
\* completed; a write of zeroes is not replayed and moves no write pointer.)
ReplayedAsRecorded ==
    status = "complete" /\ NoneLost /\ (depth = 1 \/ ~OrderMatters) => zones = Serial[Len(load)]

LongestAppend == CHOOSE m \in {load[k].nlb : k \in DOMAIN load} :
                    \A k \in DOMAIN load : load[k].nlb <= m

\* The recorded program only read, wrote and appended, and nothing was refused.
FittingLoad ==
    \A k \in DOMAIN load :
        load[k].op = "read" \/ (load[k].op \in {"write", "append"}
                                /\ Succeeds(dev, Serial[k - 1], Meant(load[k])))

\* In a load of writes, appends and reads that all fit, none is refused at depth 1,
\* nor at any depth if every zone may be open.  (Otherwise an append may overtake
\* the one that would have filled, and so closed, another zone.)  While none is
\* refused, an append is never misplaced towards the start of its zone by more than
\* the depth - 1 commands that may still be pending before it; at depth 1 it lands
\* where the recorded one did.
AppendsNearby ==
    FittingLoad =>
        LET accepted == {k \in Executed : load[k].op # "read"} \subseteq DOMAIN landed
            recorded(k) == Serial[k - 1][load[k].zone].wp
        IN /\ depth = 1 \/ ~Limited => accepted
           /\ depth = 1 => \A k \in DOMAIN landed : landed[k] = recorded(k)
           /\ accepted => \A k \in DOMAIN landed :
                             landed[k] >= recorded(k) - (depth - 1) * LongestAppend
=============================================================================
