--------------------------- MODULE NamespaceAdmin ---------------------------
(***************************************************************************)
(* The synchronous namespace commands of trace_replayer.c: reset_ns before *)
(* the replay and report_zone after it.  Both loop over the namespace with *)
(* one command at a time, described by a single task on the stack of the   *)
(* function, and poll until outstanding_commands is zero again.  An error  *)
(* completion is printed and otherwise treated like a success.             *)
(*                                                                         *)
(* The replay between the two leaves nothing outstanding (TraceReplayer)   *)
(* and is left out.  pc: "reset", then "zero" / "wait_zero" for the loop   *)
(* of write_all_zero or "wait_reset" for the single command of             *)
(* reset_all_zone, "replay" between the two functions, "report" /          *)
(* "wait_report" for the loop of report_zone, "done"; "failed" after       *)
(* exit(1).                                                                *)
(***************************************************************************)
EXTENDS IoQpair, Integers

CONSTANT Devices,       \* what the device and the driver may report
         ReportLimits   \* values of -z; 0 means all zones

\* blocks: g_ns_blk; xfer: blocks of the largest transfer; zones, zone_size;
\* per_buf: zone descriptors that fit in a buffer of the largest transfer.
Device == [zoned : BOOLEAN, blocks : Nat, xfer : Nat \ {0}, zones : Nat,
           zone_size : Nat \ {0}, per_buf : Nat]

ASSUME AdminAssumption == Devices \subseteq Device /\ ReportLimits \subseteq Nat

VARIABLES
    dev, g_zone_report_limit,
    pc,
    task,           \* the stack task, also the command built from it
    slba,           \* loop variable of write_all_zero and of report_zone
    remain_ns_blk,
    handled_zones,
    outstanding_commands,
    wiped,          \* history: how often each block was zeroed or reset
    lost,           \* history: blocks of commands that completed with an error
    buffered,       \* zones whose descriptor the last report left in the buffer
    shown           \* zones printed from their descriptor

inputVars == <<dev, g_zone_report_limit>>
loopVars == <<task, slba, remain_ns_blk, handled_zones>>
wipeVars == <<wiped, lost>>
reportVars == <<buffered, shown>>
vars == <<inputVars, pc, loopVars, outstanding_commands, wipeVars, reportVars, qpairVars>>

Lbas == 0 .. dev.blocks - 1

\* The blocks a command is about.
Extent(c) ==
    CASE c.opc = "WRITE_ZEROES"   -> c.slba .. c.slba + c.nlb - 1
      [] c.opc = "ZONE_MGMT_SEND" -> Lbas
      [] OTHER                    -> {}

NoTask == [opc |-> "none", slba |-> 0, nlb |-> 0]

Init ==
    /\ dev \in Devices
    /\ g_zone_report_limit \in ReportLimits
    /\ pc = "reset"
    /\ task = NoTask
    /\ slba = 0
    /\ remain_ns_blk = 0
    /\ handled_zones = 0
    /\ outstanding_commands = 0
    /\ wiped = [b \in Lbas |-> 0]
    /\ lost = {}
    /\ buffered = {}
    /\ shown = {}
    /\ qpair = "live" /\ inflight = {} /\ cq = {}
-----------------------------------------------------------------------------
\* The counter moves and the driver is asked; if it refuses, exit(1).
Issue(c, next) ==
    /\ task' = c
    /\ outstanding_commands' = outstanding_commands + 1
    /\ \/ pc' = next /\ Accept(c)
       \/ pc' = "failed" /\ UNCHANGED qpairVars

\* One poll that finds completions; reset_ns_complete or zone_report_completion
\* runs for each.  `ok' is the status of the completion.
Poll(S) ==
    /\ Reap(S)
    /\ outstanding_commands' = outstanding_commands - Cardinality(S)

Waiting(place) == pc = place /\ outstanding_commands > 0
\* Mutant of Waited: the function goes on without waiting.
WaitedNot(place) == pc = place
Waited(place) == pc = place /\ outstanding_commands = 0

ResetAllZone ==
    /\ pc = "reset"
    /\ dev.zoned
    /\ Issue([opc |-> "ZONE_MGMT_SEND", slba |-> 0, nlb |-> 0], "wait_reset")
    /\ UNCHANGED <<inputVars, slba, remain_ns_blk, handled_zones, wipeVars, reportVars>>

WriteAllZero ==
    /\ pc = "reset"
    /\ ~dev.zoned
    /\ remain_ns_blk' = dev.blocks
    /\ slba' = 0
    /\ pc' = "zero"
    /\ UNCHANGED <<inputVars, task, handled_zones, outstanding_commands, wipeVars, reportVars,
                   qpairVars>>

\* Mutant of lba_count: the last transfer is not cut.
lba_count_uncut == dev.xfer
lba_count == IF remain_ns_blk > dev.xfer THEN dev.xfer ELSE remain_ns_blk

ZeroChunk ==
    /\ pc = "zero"
    /\ slba < dev.blocks
    /\ Issue([opc |-> "WRITE_ZEROES", slba |-> slba, nlb |-> lba_count], "wait_zero")
    /\ UNCHANGED <<inputVars, slba, remain_ns_blk, handled_zones, wipeVars, reportVars>>

PollWipe(ok) ==
    /\ Waiting("wait_reset") \/ Waiting("wait_zero")
    /\ \E S \in SUBSET cq :
        /\ Poll(S)
        /\ LET blocks == UNION {Extent(c) : c \in S}
           IN IF ok
              THEN /\ wiped' = [b \in Lbas |-> IF b \in blocks THEN wiped[b] + 1 ELSE wiped[b]]
                   /\ UNCHANGED lost
              ELSE /\ lost' = lost \cup blocks
                   /\ UNCHANGED wiped
    /\ UNCHANGED <<inputVars, pc, loopVars, reportVars>>

\* Mutant of NextChunk: the loop does not advance.
NextChunkStuck ==
    /\ Waited("wait_zero")
    /\ remain_ns_blk' = remain_ns_blk - lba_count
    /\ pc' = "zero"
    /\ UNCHANGED <<inputVars, task, slba, handled_zones, outstanding_commands, wipeVars,
                   reportVars, qpairVars>>

NextChunk ==
    /\ Waited("wait_zero")
    /\ remain_ns_blk' = remain_ns_blk - lba_count
    /\ slba' = slba + lba_count
    /\ pc' = "zero"
    /\ UNCHANGED <<inputVars, task, handled_zones, outstanding_commands, wipeVars, reportVars,
                   qpairVars>>

\* Mutant of ResetReturns: a short last transfer is left out.
ResetReturnsEarly ==
    /\ \/ pc = "zero" /\ remain_ns_blk < dev.xfer
       \/ Waited("wait_reset")
    /\ pc' = "replay"
    /\ UNCHANGED <<inputVars, loopVars, outstanding_commands, wipeVars, reportVars, qpairVars>>

\* "Reset namespace complete." is printed.
ResetReturns ==
    /\ \/ pc = "zero" /\ slba >= dev.blocks
       \/ Waited("wait_reset")
    /\ pc' = "replay"
    /\ UNCHANGED <<inputVars, loopVars, outstanding_commands, wipeVars, reportVars, qpairVars>>
-----------------------------------------------------------------------------
zones_to_print ==
    IF g_zone_report_limit = 0 \/ g_zone_report_limit > dev.zones
    THEN dev.zones
    ELSE g_zone_report_limit

\* main() frees the replay's queue pair and, if asked to, calls report_zone,
\* which allocates its own, and then a buffer.
ReportZone ==
    /\ pc = "replay"
    /\ \/ /\ dev.zoned
          /\ outstanding_commands' = 0
          /\ handled_zones' = 0
          /\ slba' = 0
          /\ pc' = "report"
          /\ UNCHANGED qpairVars
       \/ /\ dev.zoned
          /\ pc' = "failed"         \* no buffer
          /\ UNCHANGED <<outstanding_commands, handled_zones, slba, qpairVars>>
       \/ /\ pc' = "done"           \* not asked to, not zoned, or no queue pair
          /\ FreeIoQpair
          /\ UNCHANGED <<outstanding_commands, handled_zones, slba>>
    /\ UNCHANGED <<inputVars, task, remain_ns_blk, wipeVars, reportVars>>

RequestReport ==
    /\ pc = "report"
    /\ handled_zones < zones_to_print
    /\ buffered' = {}
    /\ Issue([opc |-> "ZONE_MGMT_RECV", slba |-> slba, nlb |-> 0], "wait_report")
    /\ UNCHANGED <<inputVars, slba, remain_ns_blk, handled_zones, wipeVars, shown>>

\* The device fills the buffer with the zones from slba on, as many as fit.
PollReport(ok) ==
    /\ Waiting("wait_report")
    /\ \E S \in SUBSET cq :
        /\ Poll(S)
        /\ LET first == slba \div dev.zone_size
           IN buffered' = IF ok
                          THEN (first .. first + dev.per_buf - 1) \cap (0 .. dev.zones - 1)
                          ELSE buffered
    /\ UNCHANGED <<inputVars, pc, loopVars, wipeVars, shown>>

\* The inner loop prints descriptor 0, 1, ... of the buffer until all the zones
\* asked for are handled, whatever the buffer holds.
PrintZones ==
    /\ Waited("wait_report")
    /\ shown' = shown \cup ((handled_zones .. zones_to_print - 1) \cap buffered)
    /\ slba' = slba + (zones_to_print - handled_zones) * dev.zone_size
    /\ handled_zones' = zones_to_print
    /\ pc' = "report"
    /\ UNCHANGED <<inputVars, task, remain_ns_blk, outstanding_commands, wipeVars, buffered,
                   qpairVars>>

ReportReturns ==
    /\ pc = "report"
    /\ handled_zones >= zones_to_print
    /\ FreeIoQpair
    /\ pc' = "done"
    /\ UNCHANGED <<inputVars, loopVars, outstanding_commands, wipeVars, reportVars>>

Terminated == pc \in {"done", "failed"} /\ UNCHANGED vars
-----------------------------------------------------------------------------
Main ==
    \/ ResetAllZone \/ WriteAllZero \/ ZeroChunk \/ NextChunk \/ ResetReturns
    \/ \E ok \in BOOLEAN : PollWipe(ok) \/ PollReport(ok)
    \/ ReportZone \/ RequestReport \/ PrintZones \/ ReportReturns

DeviceAnswers ==
    /\ \E c \in inflight : DeviceComplete(c)
    /\ UNCHANGED <<inputVars, pc, loopVars, outstanding_commands, wipeVars, reportVars>>

Next == Main \/ DeviceAnswers \/ Terminated

Spec == Init /\ [][Next]_vars
FairSpec == Spec /\ WF_vars(Main) /\ WF_vars(DeviceAnswers)
-----------------------------------------------------------------------------
(* Properties.                                                             *)

Tasks == [opc : {"none", "WRITE_ZEROES", "ZONE_MGMT_SEND", "ZONE_MGMT_RECV"},
          slba : Nat, nlb : Nat]

TypeOK ==
    /\ dev \in Device
    /\ g_zone_report_limit \in Nat
    /\ pc \in {"reset", "zero", "wait_zero", "wait_reset", "replay", "report", "wait_report",
               "done", "failed"}
    /\ task \in Tasks
    /\ slba \in Nat
    /\ remain_ns_blk \in Nat
    /\ handled_zones \in Nat
    /\ outstanding_commands \in Nat
    /\ wiped \in [Lbas -> Nat]
    /\ lost \subseteq Lbas
    /\ buffered \subseteq 0 .. dev.zones - 1
    /\ shown \subseteq 0 .. dev.zones - 1
    /\ QpairTypeOK(Tasks)

\* Whenever one of the two functions returns, nothing is outstanding and the
\* counter says so: what TraceReplayer takes for granted.
QuietAtReturn == pc \in {"replay", "done"} => outstanding_commands = 0 /\ Flying = {}

\* The stack task describes every command whose callback may still read it, and
\* the function that owns it is still waiting: no callback reads a task that has
\* been reused or whose stack frame is gone.
StackTask ==
    /\ \A c \in Flying : c = task /\ pc \in {"wait_zero", "wait_reset", "wait_report"}
    /\ QuietAtReturn

\* No write-zeroes command is empty or reaches beyond the namespace.
ZeroesInRange ==
    \A c \in Flying : c.opc = "WRITE_ZEROES" => c.nlb > 0 /\ c.slba + c.nlb <= dev.blocks

\* reset_ns wipes every block exactly once, except the blocks of the commands
\* the device failed, and nothing behind the namespace.
WipedOnce ==
    /\ pc \in {"replay", "report", "wait_report", "done"} =>
          \A b \in Lbas : wiped[b] = IF b \in lost THEN 0 ELSE 1
    /\ ZeroesInRange

\* Both functions return, whatever the status of the completions.
Terminates == <>(pc \in {"done", "failed"})

\* "-z, to display zone. 0 indicate displaying all zone" (l. 629), and the
\* heading "NVMe ZNS Zone Report (first %zu of %zu)" (l. 409).
AllZonesShown ==
    pc = "report" /\ handled_zones >= zones_to_print /\ buffered # {} =>
        shown = 0 .. zones_to_print - 1
=============================================================================
