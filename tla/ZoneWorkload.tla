---------------------------- MODULE ZoneWorkload ----------------------------
(***************************************************************************)
(* app/access_zns/access_zns.c and app/access_opz/access_opz.c: the load   *)
(* generators.  Both reset all zones, read the geometry, split a number of *)
(* requests into reads and writes, and fill zones sequentially (send_seq)  *)
(* or round robin (send_rand) with a bounded number of commands            *)
(* outstanding.  access_zns works through groups of g_max_open_zone zones  *)
(* and finishes each; access_opz uses one group and finishes none.         *)
(*                                                                         *)
(* The device executes commands in any order, each at the moment it posts  *)
(* its completion.                                                         *)
(*                                                                         *)
(* pc: "start", "alloc" (before alloc_qpair), "info" (before zns_info),    *)
(* "check" (at the head of send_seq or send_rand), "request" (in the       *)
(* innermost loop), "drain" (polling behind it), "finish" (the finish loop *)
(* of send_rand), "loop" (polling at the end of a group), "report", and    *)
(* the ends "done", "failed" (exit or early return), "crash" and "hung"    *)
(* (report_zone waits for the answer to a command the driver refused).     *)
(***************************************************************************)
EXTENDS IoQpair, Float, Integers, Sequences

CONSTANTS
    Devices,        \* geometries of the first namespace
    DepthArgs,      \* values of -q; 0: no -q
    BlockArgs,      \* values of -b
    Ratios,         \* values of -m, as [p, q]: p reads in q requests
    IoQueueSize,    \* io_queue_size of the default qpair options
    Word32          \* 2^32

ASSUME WorkloadAssumption ==
    /\ Devices \subseteq [zoned : BOOLEAN, num_zone : Nat, zcap : Nat \ {0}, max_open : Nat,
                          max_append : Nat]
    /\ \A d \in Devices : d.max_open <= d.num_zone     \* no limit is reported as 0
    /\ DepthArgs \subseteq Nat /\ BlockArgs \subseteq Nat \ {0}
    /\ Ratios \subseteq {r \in [p : Nat, q : Nat \ {0}] : r.p <= r.q}
    /\ IoQueueSize \in Nat \ {0} /\ Mantissa \in Nat \ {0} /\ Word32 \in Nat \ {0}

VARIABLES
    app,            \* "zns" or "opz"
    dev,            \* geometry of the namespace
    g_access_rand,
    ratio,          \* g_rw_ratio
    g_num_io_block,
    g_queue_depth,
    pc,
    attached,
    g_num_rw, g_num_r, g_num_w, g_num_zone_r, g_num_zone_w,
    write, read,    \* the budgets of send_rand
    loop, zone,     \* the group and the zone of the loops
    lba,            \* offset in the zone
    cmds,           \* history: the commands accepted, in order
    outstanding_commands,
    wp,             \* device: blocks written per zone; a finished zone is full
    rejected        \* device: appends that did not fit

optionVars == <<app, dev, g_access_rand, ratio, g_num_io_block>>
budgetVars == <<g_num_rw, g_num_r, g_num_w, g_num_zone_r, g_num_zone_w>>
loopVars == <<write, read, loop, zone, lba>>
ioVars == <<cmds, outstanding_commands>>
deviceVars == <<wp, rejected>>
vars == <<optionVars, g_queue_depth, pc, attached, budgetVars, loopVars, ioVars, deviceVars,
          qpairVars>>

Final == {"done", "failed", "crash", "hung"}
Zones == 0 .. dev.num_zone - 1

Init ==
    /\ app \in {"zns", "opz"}
    /\ dev \in Devices
    /\ g_access_rand \in BOOLEAN
    /\ ratio \in Ratios
    /\ g_num_io_block \in BlockArgs
    /\ g_queue_depth \in DepthArgs
    /\ pc = "start"
    /\ attached = FALSE
    /\ g_num_rw = 0 /\ g_num_r = 0 /\ g_num_w = 0 /\ g_num_zone_r = 0 /\ g_num_zone_w = 0
    /\ write = 0 /\ read = 0 /\ loop = 0 /\ zone = 0 /\ lba = 0
    /\ cmds = <<>>
    /\ outstanding_commands = 0
    /\ \E n \in 0 .. dev.zcap : wp = [z \in Zones |-> n]
    /\ rejected = {}
    /\ QpairInit
-----------------------------------------------------------------------------
(* Before the load.                                                        *)

\* spdk_env_init, the trace options, spdk_nvme_probe.  A failed probe leads to
\* the label exit, where what is attached is detached.
Probe ==
    /\ pc = "start"
    /\ \/ pc' = "failed" /\ UNCHANGED attached
       \/ pc' = "alloc" /\ attached' = TRUE
    /\ UNCHANGED <<optionVars, g_queue_depth, budgetVars, loopVars, ioVars, deviceVars,
                   qpairVars>>

\* alloc_qpair, with reset_all_zone for a zoned namespace: a reset command that
\* is refused or completes with an error ends the process.
AllocQpair ==
    /\ pc = "alloc"
    /\ \/ /\ pc' = "info"
          /\ AllocIoQpair
          /\ g_queue_depth' = IF g_queue_depth = 0 THEN IoQueueSize ELSE g_queue_depth
          /\ wp' = IF dev.zoned THEN [z \in Zones |-> 0] ELSE wp
          /\ UNCHANGED attached
       \/ /\ pc' = "failed" /\ attached' = FALSE
          /\ UNCHANGED <<g_queue_depth, wp, qpairVars>>
       \/ /\ pc' \in {"failed", "crash"}
          /\ UNCHANGED <<attached, g_queue_depth, wp, qpairVars>>
    /\ UNCHANGED <<optionVars, budgetVars, loopVars, ioVars, rejected>>

\* The product of a count and g_rw_ratio, truncated.  The ratios are such that
\* the product itself is exact.
Reads(x) == (ToFloat(x) * ratio.p) \div ratio.q

per_zone == dev.zcap \div g_num_io_block
used_zones == IF app = "zns" THEN dev.num_zone ELSE dev.max_open

\* zns_info and the budgets of main().  A conventional namespace leaves all
\* sizes 0.  A zone report that fails ends the process; one that is refused is
\* printed, and then its completion is waited for, which never comes.
ZnsInfo ==
    /\ pc = "info"
    /\ \/ /\ dev.zoned
          /\ pc' = "check"
          /\ g_num_rw' = used_zones * per_zone
          /\ g_num_r' = Reads(g_num_rw') % Word32
          /\ g_num_w' = (g_num_rw' - g_num_r') % Word32
          /\ g_num_zone_r' = Reads(per_zone) % Word32
          /\ g_num_zone_w' = (per_zone - g_num_zone_r') % Word32
       \/ dev.zoned /\ pc' \in {"failed", "hung"} /\ UNCHANGED budgetVars
       \/ ~dev.zoned /\ pc' = "check" /\ UNCHANGED budgetVars
    /\ UNCHANGED <<optionVars, g_queue_depth, attached, loopVars, ioVars, deviceVars,
                   qpairVars>>

groups == IF app = "zns" THEN dev.num_zone \div dev.max_open ELSE 1

\* The tests at the head of send_seq and send_rand.  The append limit is divided
\* by the block size, 0 for a conventional namespace; access_zns divides the
\* zones by the open-zone limit, 0 when the device has no limit.
CheckLoad ==
    /\ pc = "check"
    /\ pc' = IF ~dev.zoned THEN "crash"
             ELSE IF g_num_io_block > dev.max_append THEN "failed"
             ELSE IF app = "zns" /\ dev.max_open = 0 THEN "crash"
             ELSE IF groups = 0 \/ dev.max_open = 0 THEN "report"
             ELSE "request"
    /\ write' = g_num_zone_w
    /\ read' = g_num_zone_r
    /\ UNCHANGED <<optionVars, g_queue_depth, attached, budgetVars, loop, zone, lba, ioVars,
                   deviceVars, qpairVars>>
-----------------------------------------------------------------------------
(* The loops.                                                              *)

Group == loop * dev.max_open .. loop * dev.max_open + dev.max_open - 1
\* Mutant of Fits: the test for a last, short request is dropped.
FitsPartly == lba < dev.zcap
Fits == lba + g_num_io_block <= dev.zcap
Room == outstanding_commands < g_queue_depth

\* What append_zone, read_block and finish_zone do when the driver takes the command.
Submit(op) ==
    /\ ~Full
    /\ Accept(Len(cmds) + 1)
    /\ cmds' = Append(cmds, [op |-> op, zone |-> zone])
    /\ outstanding_commands' = outstanding_commands + 1
append_zone == Submit("append")
read_block == Submit("read")
finish_zone == Submit("finish")
Nothing == UNCHANGED <<ioVars, qpairVars>>

\* One round of the innermost loop of send_seq: writes first, then reads.
SeqRequest ==
    /\ pc = "request" /\ ~g_access_rand /\ Fits /\ Room
    /\ \/ g_num_w > 0 /\ append_zone /\ g_num_w' = g_num_w - 1 /\ UNCHANGED g_num_r
       \/ g_num_w = 0 /\ g_num_r > 0 /\ read_block /\ g_num_r' = g_num_r - 1
             /\ UNCHANGED g_num_w
       \/ g_num_w = 0 /\ g_num_r = 0 /\ Nothing /\ UNCHANGED <<g_num_w, g_num_r>>
    /\ lba' = lba + g_num_io_block
    /\ UNCHANGED <<optionVars, g_queue_depth, pc, attached, g_num_rw, g_num_zone_r,
                   g_num_zone_w, write, read, loop, zone, deviceVars>>

\* Mutant of SeqZoneEnd: a zone is repeated when nothing is left to send.
SeqZoneEndAgain ==
    /\ pc = "request" /\ ~g_access_rand /\ ~Fits
    /\ IF g_num_w + g_num_r = 0 THEN pc' = pc /\ lba' = 0 ELSE pc' = "drain" /\ lba' = lba
    /\ UNCHANGED <<optionVars, g_queue_depth, attached, budgetVars, write, read, loop, zone,
                   ioVars, deviceVars, qpairVars>>

SeqZoneEnd ==
    /\ pc = "request" /\ ~g_access_rand /\ ~Fits
    /\ pc' = "drain"
    /\ UNCHANGED <<optionVars, g_queue_depth, attached, budgetVars, loopVars, ioVars,
                   deviceVars, qpairVars>>

\* Mutant of NextZone: the offset is not reset.
NextZoneKeepsLba(end) ==
    IF zone + 1 \in Group
    THEN zone' = zone + 1 /\ lba' = lba /\ pc' = "request"
    ELSE UNCHANGED <<zone, lba>> /\ pc' = end

\* The next zone of the group, in send_seq.
NextZone(end) ==
    IF zone + 1 \in Group
    THEN zone' = zone + 1 /\ lba' = 0 /\ pc' = "request"
    ELSE UNCHANGED <<zone, lba>> /\ pc' = end

\* Mutant of SeqZoneFinish: the zone is not finished.
SeqZoneFinishNot ==
    /\ pc = "drain" /\ ~g_access_rand /\ outstanding_commands = 0 /\ app = "zns"
    /\ Nothing /\ NextZone("loop")
    /\ UNCHANGED <<optionVars, g_queue_depth, attached, budgetVars, write, read, loop,
                   deviceVars>>

\* access_zns finishes the zone once its commands are answered, and goes on to
\* the next without waiting for that.
SeqZoneFinish ==
    /\ pc = "drain" /\ ~g_access_rand /\ outstanding_commands = 0 /\ app = "zns"
    /\ finish_zone /\ NextZone("loop")
    /\ UNCHANGED <<optionVars, g_queue_depth, attached, budgetVars, write, read, loop,
                   deviceVars>>

\* access_opz only goes on.
SeqZoneNext ==
    /\ pc = "drain" /\ ~g_access_rand /\ outstanding_commands = 0 /\ app = "opz"
    /\ Nothing /\ NextZone("report")
    /\ UNCHANGED <<optionVars, g_queue_depth, attached, budgetVars, write, read, loop,
                   deviceVars>>

\* One round of the loop over the zones of send_rand.  A budget counts rounds:
\* it moves when the last zone has had its request.
RandRequest ==
    /\ pc = "request" /\ g_access_rand /\ Fits /\ Room
    /\ \/ write > 0 /\ append_zone
       \/ write = 0 /\ read > 0 /\ read_block
       \/ write = 0 /\ read = 0 /\ Nothing
    /\ IF zone + 1 \in Group
       THEN zone' = zone + 1 /\ UNCHANGED <<pc, write, read>>
       ELSE /\ pc' = "drain"
            /\ zone' = zone
            /\ IF write > 0 THEN write' = write - 1 /\ read' = read
               ELSE read' = (read - 1) % Word32 /\ write' = write
    /\ UNCHANGED <<optionVars, g_queue_depth, attached, budgetVars, loop, lba, deviceVars>>

\* Mutant of RandRoundDone: the round is not drained.
RandRoundDoneEarly ==
    /\ pc = "drain" /\ g_access_rand
    /\ pc' = "request"
    /\ lba' = lba + g_num_io_block
    /\ zone' = loop * dev.max_open
    /\ UNCHANGED <<optionVars, g_queue_depth, attached, budgetVars, write, read, loop, ioVars,
                   deviceVars, qpairVars>>

RandRoundDone ==
    /\ pc = "drain" /\ g_access_rand /\ outstanding_commands = 0
    /\ pc' = "request"
    /\ lba' = lba + g_num_io_block
    /\ zone' = loop * dev.max_open
    /\ UNCHANGED <<optionVars, g_queue_depth, attached, budgetVars, write, read, loop, ioVars,
                   deviceVars, qpairVars>>

RandRoundsEnd ==
    /\ pc = "request" /\ g_access_rand /\ ~Fits
    /\ pc' = IF app = "zns" THEN "finish" ELSE "report"
    /\ UNCHANGED <<optionVars, g_queue_depth, attached, budgetVars, loopVars, ioVars,
                   deviceVars, qpairVars>>

\* Mutant of RandFinish: the loop stops one zone early.
RandFinishShort ==
    /\ pc = "finish" /\ Room
    /\ finish_zone
    /\ IF zone + 2 \in Group THEN zone' = zone + 1 /\ pc' = pc
       ELSE zone' = zone /\ pc' = "loop"
    /\ UNCHANGED <<optionVars, g_queue_depth, attached, budgetVars, write, read, loop, lba,
                   deviceVars>>

RandFinish ==
    /\ pc = "finish" /\ Room
    /\ finish_zone
    /\ IF zone + 1 \in Group THEN zone' = zone + 1 /\ pc' = pc
       ELSE zone' = zone /\ pc' = "loop"
    /\ UNCHANGED <<optionVars, g_queue_depth, attached, budgetVars, write, read, loop, lba,
                   deviceVars>>

\* The end of a group of access_zns.
LoopDone ==
    /\ pc = "loop" /\ outstanding_commands = 0
    /\ IF loop + 1 < groups
       THEN /\ pc' = "request"
            /\ loop' = loop + 1
            /\ zone' = loop' * dev.max_open
            /\ lba' = 0
            /\ write' = g_num_zone_w
            /\ read' = g_num_zone_r
       ELSE pc' = "report" /\ UNCHANGED loopVars
    /\ UNCHANGED <<optionVars, g_queue_depth, attached, budgetVars, ioVars, deviceVars,
                   qpairVars>>

\* The loops that wait for room or for all answers.
Polling ==
    \/ pc = "request" /\ Fits /\ ~Room
    \/ pc = "finish" /\ ~Room
    \/ pc \in {"drain", "loop"} /\ outstanding_commands > 0

\* Mutant of Poll: the counter moves once per poll.
PollOnce ==
    /\ Polling
    /\ \E S \in SUBSET cq : Reap(S) /\ outstanding_commands' = outstanding_commands - 1
    /\ UNCHANGED <<optionVars, g_queue_depth, pc, attached, budgetVars, loopVars, cmds,
                   deviceVars>>

Poll ==
    /\ Polling
    /\ \E S \in SUBSET cq :
           Reap(S) /\ outstanding_commands' = outstanding_commands - Cardinality(S)
    /\ UNCHANGED <<optionVars, g_queue_depth, pc, attached, budgetVars, loopVars, cmds,
                   deviceVars>>

\* No memory for a task or its buffer, or a submission the driver refuses: the
\* process ends where it stands.
GiveUp ==
    /\ \/ pc = "request" /\ Fits /\ Room
       \/ pc = "finish" /\ Room
       \/ pc = "drain" /\ ~g_access_rand /\ app = "zns" /\ outstanding_commands = 0
    /\ pc' \in {"failed", "crash"}
    /\ UNCHANGED <<optionVars, g_queue_depth, attached, budgetVars, loopVars, ioVars,
                   deviceVars, qpairVars>>

\* The summary, free_qpair, cleanup.
Report ==
    /\ pc = "report"
    /\ pc' = "done"
    /\ FreeIoQpair
    /\ attached' = FALSE
    /\ UNCHANGED <<optionVars, g_queue_depth, budgetVars, loopVars, ioVars, deviceVars>>
-----------------------------------------------------------------------------
(* The device.                                                             *)

Execute(c) ==
    LET z == cmds[c].zone
        op == cmds[c].op
    IN \/ /\ op = "append" /\ wp[z] + g_num_io_block <= dev.zcap
          /\ wp' = [wp EXCEPT ![z] = @ + g_num_io_block] /\ UNCHANGED rejected
       \/ /\ op = "append" /\ wp[z] + g_num_io_block > dev.zcap
          /\ rejected' = rejected \cup {c} /\ UNCHANGED wp
       \/ op = "finish" /\ wp' = [wp EXCEPT ![z] = dev.zcap] /\ UNCHANGED rejected
       \/ op = "read" /\ UNCHANGED deviceVars

Device ==
    /\ \E c \in inflight : DeviceComplete(c) /\ Execute(c)
    /\ UNCHANGED <<optionVars, g_queue_depth, pc, attached, budgetVars, loopVars, ioVars>>
-----------------------------------------------------------------------------
Terminated == pc \in Final /\ UNCHANGED vars

Main ==
    \/ Probe \/ AllocQpair \/ ZnsInfo \/ CheckLoad
    \/ SeqRequest \/ SeqZoneEnd \/ SeqZoneFinish \/ SeqZoneNext
    \/ RandRequest \/ RandRoundDone \/ RandRoundsEnd \/ RandFinish
    \/ LoopDone \/ Poll \/ GiveUp \/ Report

Next == Main \/ Device \/ Terminated

Spec == Init /\ [][Next]_vars

\* One thread that never sleeps, and a device that answers what it has.
FairSpec == Spec /\ WF_vars(Main) /\ WF_vars(Device)
-----------------------------------------------------------------------------
(* Properties.                                                             *)

TypeOK ==
    /\ dev \in Devices /\ ratio \in Ratios /\ g_num_io_block \in BlockArgs
    /\ app \in {"zns", "opz"} /\ g_access_rand \in BOOLEAN
    /\ g_queue_depth \in Nat
    /\ pc \in {"start", "alloc", "info", "check", "request", "drain", "finish", "loop",
               "report"} \cup Final
    /\ attached \in BOOLEAN
    /\ g_num_rw \in Nat
    /\ {g_num_r, g_num_w, g_num_zone_r, g_num_zone_w, write, read} \subseteq 0 .. Word32 - 1
    /\ loop \in Nat /\ zone \in Nat
    /\ lba \in 0 .. dev.zcap
    /\ cmds \in Seq([op : {"append", "read", "finish"}, zone : Zones])
    /\ outstanding_commands \in Nat
    /\ wp \in [Zones -> 0 .. dev.zcap]
    /\ rejected \subseteq DOMAIN cmds
    /\ QpairTypeOK(DOMAIN cmds)

Sent(op) == {c \in DOMAIN cmds : cmds[c].op = op}
SentTo(op, z) == {c \in Sent(op) : cmds[c].zone = z}
Loading == pc \in {"request", "drain", "finish", "loop", "report"}

\* The device never has more of this program's zones partially written than it
\* allows open: access_zns starts the next zone while the finish command of the
\* last may still be outstanding, and the device may delay it arbitrarily.
OpenWithinLimit ==
    Loading => Cardinality({z \in Zones : wp[z] \in 1 .. dev.zcap - 1}) <= dev.max_open

\* No append is rejected, in whatever order the device executes the commands
\* outstanding: zones are not overfilled and a finish never overtakes an append.
AppendsFit == rejected = {}

\* The counter both kinds of wait rely on is the number of commands without an
\* answer, and stays within the depth.
OutstandingExact ==
    Loading => /\ outstanding_commands = Cardinality(Flying)
               /\ outstanding_commands <= g_queue_depth

\* The groups of access_zns cover every zone.
AllZonesUsed == app = "zns" => dev.num_zone % dev.max_open = 0

\* A count of requests the budgets can hold: in 32 bits, and with no more reads than
\* requests.  Rounded to float a count above Mantissa may exceed itself.
Countable(n) == Reads(n) <= n /\ n < Word32

\* A load of a countable number of requests that ends has spent its budgets to the
\* last request, none of the unsigned counters has wrapped, and as many reads and
\* appends were sent as planned; in random mode to each zone.  access_zns sent as
\* many requests as it reports, one finish for each zone included.
BudgetsSpent ==
    /\ pc = "report" /\ dev.max_open > 0 /\ AllZonesUsed
    /\ Countable(IF g_access_rand THEN per_zone ELSE g_num_rw)
    => /\ app = "zns" => Len(cmds) = g_num_rw + dev.num_zone
       /\ IF g_access_rand
          THEN /\ write = 0 /\ read = 0
               /\ \A z \in 0 .. used_zones - 1 :
                      /\ Cardinality(SentTo("read", z)) = g_num_zone_r
                      /\ Cardinality(SentTo("append", z)) = g_num_zone_w
          ELSE /\ g_num_w = 0 /\ g_num_r = 0
               /\ Cardinality(Sent("read")) = Reads(g_num_rw)
               /\ Cardinality(Sent("read") \cup Sent("append")) = g_num_rw

\* When access_zns ends, every zone of its groups has been finished exactly
\* once, after the last of its other commands.
ZonesFinished ==
    pc = "report" /\ app = "zns" /\ dev.max_open > 0 =>
        \A z \in Zones :
            /\ z < groups * dev.max_open =>
                  /\ wp[z] = dev.zcap
                  /\ \E f \in SentTo("finish", z) :
                        /\ SentTo("finish", z) = {f}
                        /\ \A c \in DOMAIN cmds : cmds[c].zone = z => c <= f
            /\ z >= groups * dev.max_open => wp[z] = 0

\* Every load ends, unless it never starts for a refused zone report ("hung").
Terminates == <>(pc \in Final)

\* "read/write ratio must be the value between 0 to 1.  If non specify, default
\* is read 100%" (access_zns.c l. 557): with ratio 1 nothing is written.
ReadOnlyByDefault == ratio.p = ratio.q => Sent("append") = {}
=============================================================================
