------------------------------ MODULE ZoneDemo ------------------------------
(***************************************************************************)
(* The programs demo and reset_zns: main() from spdk_env_init to its       *)
(* return.  reset_zns resets all zones; demo does the same, asks for the   *)
(* geometry and sends random requests, each of which it waits for before   *)
(* the next.  The recorder around demo is in TraceIo.                      *)
(*                                                                         *)
(* The device executes a command when it completes it (ZonedDevice), or    *)
(* fails it for reasons of its own.  Random numbers are nondeterministic   *)
(* choices.                                                                *)
(***************************************************************************)
EXTENDS IoQpair, NvmeAttach, ZonedDevice

CONSTANTS
    Devices,        \* namespaces: those of ZonedDevice, zoned, num_zone, max_append
    Appends, Reads, Opens, Closes, Finishes,    \* requests (198, 102, 6, 4, 2)
    RandZones,      \* zones are drawn from 0 .. RandZones - 1 (16)
    Sizes           \* block counts of a request (powers of two up to 32)

ASSUME ZoneDemoAssumption ==
    /\ {Appends, Reads, Opens, Closes, Finishes} \subseteq Nat
    /\ RandZones \in Nat \ {0}
    /\ Sizes \subseteq Nat \ {0} /\ Sizes # {}
    /\ \A d \in Devices : d.zoned \in BOOLEAN /\ {d.num_zone, d.zcap} \subseteq Nat

Apps == {"demo", "reset_zns"}
Requests == Appends + Reads + Opens + Closes + Finishes

VARIABLES
    app,
    pc,
    outstanding_commands,
    heap,           \* commands whose task and buffer are allocated
    sent,           \* the number of commands that were submitted
    dev,            \* the namespace of the first entry of g_namespaces
    zones,          \* its zones
    failed,         \* completions with an error that were not polled yet
    told            \* history: the zones as the answers of the device tell them

progVars == <<pc, outstanding_commands, heap, sent>>
devVars == <<zones, failed>>
vars == <<app, dev, progVars, devVars, told, qpairVars, attachVars>>

Final == {"done", "failed", "crash", "hung"}
Waits == {"wait_reset", "wait_report", "wait"}

\* A command, told from equal ones by its number n.
Command == [op : {"reset", "report", "append", "read", "open", "close", "finish"},
            zone : Nat, nlb : Nat, all : BOOLEAN, n : 1 .. Requests + 2]

TypeOK ==
    /\ app \in Apps /\ dev \in Devices
    /\ pc \in {"start", "probe", "alloc", "reset", "info", "send", "free", "exit"} \cup Waits \cup Final
    /\ outstanding_commands \in 0 .. 1
    /\ sent \in 0 .. Requests + 2
    /\ heap \subseteq Command /\ failed \subseteq cq
    /\ QpairTypeOK(Command) /\ qpair # "corrupt"
    /\ AttachTypeOK
    /\ \A zs \in {zones, told}, z \in 0 .. dev.num_zone - 1 :
           zs[z].state \in ZoneStates /\ zs[z].wp \in 0 .. dev.zcap

\* An earlier program may have left the zones in any state; two of them stand for it.
Init ==
    /\ app \in Apps /\ dev \in Devices
    /\ pc = "start"
    /\ outstanding_commands = 0 /\ heap = {}
    /\ sent = 0 /\ failed = {}
    /\ \E zn \in {EmptyZone, [state |-> "full", wp |-> dev.zcap]} :
           zones = [z \in 0 .. dev.num_zone - 1 |-> zn]
    /\ told = zones
    /\ QpairInit /\ AttachInit

Goto(l) == pc' = l /\ UNCHANGED <<app, dev, outstanding_commands, heap, sent, devVars, told>>
-----------------------------------------------------------------------------
(* Start, probe and queue pair.                                            *)

\* spdk_env_init fails: main returns 1.  A wrong tracepoint group: goto exit.
Start ==
    /\ pc = "start"
    /\ \E l \in {"probe", "failed", "exit"} : Goto(l)
    /\ UNCHANGED <<qpairVars, attachVars>>

Probe ==
    /\ pc = "probe"
    /\ UNCHANGED qpairVars
    /\ \/ \E c \in DOMAIN bus : AttachCb(c) /\ Goto("probe")
       \/ \E c \in DOMAIN bus : AttachFails(c) /\ Goto("failed")
       \/ g_controllers # <<>> /\ Goto("alloc") /\ UNCHANGED attachVars
       \/ Goto("exit") /\ UNCHANGED attachVars    \* rc # 0 or no controller

\* The head of an empty g_namespaces is NULL.
NoNamespace ==
    /\ pc = "alloc" /\ g_namespaces = <<>>
    /\ Goto("crash") /\ UNCHANGED <<qpairVars, attachVars>>

AllocQpair ==
    /\ pc = "alloc" /\ g_namespaces # <<>>
    /\ UNCHANGED attachVars
    /\ \/ AllocIoQpair /\ Goto(IF dev.zoned THEN "reset"
                               ELSE IF app = "demo" THEN "info" ELSE "free")
       \/ Goto("exit") /\ UNCHANGED qpairVars
-----------------------------------------------------------------------------
(* One command at a time: submission, and the loop until its callback ran. *)

\* The driver has accepted the command; a request keeps a task and a buffer,
\* the reset and the report a task on the stack.
Submit(c, l) ==
    LET numbered == [op |-> c.op, zone |-> c.zone, nlb |-> c.nlb, all |-> c.all, n |-> sent + 1]
    IN /\ Accept(numbered)
       /\ outstanding_commands' = outstanding_commands + 1
       /\ sent' = sent + 1
       /\ heap' = IF l = "wait" THEN heap \cup {numbered} ELSE heap
       /\ pc' = l
       /\ UNCHANGED <<app, dev, devVars, told, attachVars>>

\* reset_all_zone; a refused reset exits.
ResetAllZone ==
    /\ pc = "reset"
    /\ \/ Submit([op |-> "reset", zone |-> 0, nlb |-> 0, all |-> TRUE], "wait_reset")
       \/ Goto("failed") /\ UNCHANGED <<qpairVars, attachVars>>

\* zns_info: a conventional namespace returns at once.  In report_zone calloc may
\* fail; a refused report is waited for all the same, for ever.
ZnsInfo ==
    /\ pc = "info"
    /\ IF dev.zoned
       THEN \/ Submit([op |-> "report", zone |-> 0, nlb |-> 0, all |-> FALSE], "wait_report")
            \/ \E l \in {"failed", "hung"} : Goto(l) /\ UNCHANGED <<qpairVars, attachVars>>
       ELSE Goto("send") /\ UNCHANGED <<qpairVars, attachVars>>

\* The kind of the request that follows n requests.
Request(n) ==
    CASE n < Appends -> "append"
      [] n \in Appends .. Appends + Reads - 1 -> "read"
      [] n \in Appends + Reads .. Appends + Reads + Opens - 1 -> "open"
      [] n \in Requests - Closes - Finishes .. Requests - Finishes - 1 -> "close"
      [] OTHER -> "finish"

Done == sent - 2       \* requests sent to a zoned namespace so far

\* send_req and the five functions it calls.  The driver takes the command
\* unless it appends too much; it may refuse any command.
SendReq ==
    /\ pc = "send" /\ dev.zoned /\ Done < Requests
    /\ \E zone \in 0 .. RandZones - 1, nlb \in Sizes :
        LET op == Request(Done)
            c == [op |-> op, zone |-> zone, all |-> FALSE,
                  nlb |-> IF op \in {"append", "read"} THEN nlb ELSE 1]
        IN /\ ~(op = "append" /\ nlb > dev.max_append)
           /\ Submit(c, "wait")

\* No buffer, or a refused command: exit(1).  No task: it is written to all the same.
RequestFails ==
    /\ pc = "send" /\ dev.zoned /\ Done < Requests
    /\ \E l \in {"failed", "crash"} : Goto(l)
    /\ UNCHANGED <<qpairVars, attachVars>>

\* g_block_byte is 0 for a conventional namespace: no buffer of 0 bytes.
NoBuffer ==
    /\ pc = "send" /\ ~dev.zoned
    /\ Goto("failed") /\ UNCHANGED <<qpairVars, attachVars>>

RequestsDone ==
    /\ pc = "send" /\ dev.zoned /\ Done = Requests
    /\ Goto("free") /\ UNCHANGED <<qpairVars, attachVars>>

\* Mutants of Polled: the callback of a failed command returns before it counts
\* and frees; an error of the reset is only printed.
PolledErrorKept(c) ==
    /\ outstanding_commands' = IF c \in failed THEN outstanding_commands ELSE outstanding_commands - 1
    /\ heap' = IF c \in failed THEN heap ELSE heap \ {c}
    /\ pc' = IF c \in failed /\ pc # "wait" THEN "failed" ELSE pc
PolledErrorPrinted(c) ==
    /\ outstanding_commands' = outstanding_commands - 1
    /\ heap' = heap \ {c}
    /\ pc' = pc

\* The callbacks.  An error of the reset or the report exits, one of a request
\* is printed.
Polled(c) ==
    /\ outstanding_commands' = outstanding_commands - 1
    /\ heap' = heap \ {c}
    /\ pc' = IF c \in failed /\ pc # "wait" THEN "failed" ELSE pc

Poll ==
    /\ pc \in Waits
    /\ outstanding_commands # 0
    /\ \E c \in cq :
        /\ Reap({c})
        /\ Polled(c)
        /\ told' = IF c \in failed THEN told ELSE After(dev, told, c)
        /\ failed' = failed \ {c}
    /\ UNCHANGED <<app, dev, sent, zones, attachVars>>

\* Mutant of Waited: the loop polls the queue pair once.
WaitedNot == TRUE
Waited == outstanding_commands = 0

Return ==
    /\ pc \in Waits /\ Waited
    /\ Goto(IF pc = "wait_reset" THEN (IF app = "demo" THEN "info" ELSE "free") ELSE "send")
    /\ UNCHANGED <<qpairVars, attachVars>>
-----------------------------------------------------------------------------
(* The way out.                                                            *)

FreeQpair ==
    /\ pc = "free"
    /\ FreeIoQpair /\ Goto("exit") /\ UNCHANGED attachVars

\* cleanup, with the label exit.
Cleanup ==
    /\ pc = "exit"
    /\ UNCHANGED qpairVars
    /\ \/ FreeNamespaces /\ Goto("exit")
       \/ DetachFirst /\ Goto("exit")
       \/ g_namespaces = <<>> /\ g_controllers = <<>> /\ Goto("done") /\ UNCHANGED attachVars

\* The device executes a command, or fails it.
Device ==
    \E c \in inflight, ok \in BOOLEAN :
        /\ pc \notin Final
        /\ DeviceComplete(c)
        /\ IF ok /\ Succeeds(dev, zones, c)
           THEN zones' = After(dev, zones, c) /\ UNCHANGED failed
           ELSE failed' = failed \cup {c} /\ UNCHANGED zones
        /\ UNCHANGED <<app, dev, progVars, told, attachVars>>

App ==
    \/ Start \/ Probe \/ NoNamespace \/ AllocQpair
    \/ ResetAllZone \/ ZnsInfo \/ SendReq \/ RequestFails \/ NoBuffer \/ RequestsDone
    \/ Poll \/ Return \/ FreeQpair \/ Cleanup

\* A poll that finds nothing.
Spin == pc \in Waits /\ cq = {} /\ ~Waited /\ UNCHANGED vars

Ended == pc \in Final /\ UNCHANGED vars

Next == App \/ Device \/ Spin \/ Ended

Spec == Init /\ [][Next]_vars /\ WF_vars(App) /\ WF_vars(Device)
-----------------------------------------------------------------------------
(* Properties.                                                             *)

\* Until cleanup the lists hold what was attached: every active namespace of
\* every controller, none twice, so that the namespace the program drives is the
\* first of the first controller that has one.  While a queue pair lives its
\* namespace is listed and its controller attached.  The head of the list is
\* missing only if no attached controller has an active namespace.
Registered ==
    /\ pc \notin {"exit", "done", "failed"} => ListsExact
    /\ qpair = "live" /\ pc # "failed" =>
         g_namespaces # <<>> /\ Head(g_namespaces).ctrlr \in attached
    /\ pc = "crash" /\ qpair = "none" => \A c \in attached : bus[c] = {}

\* Each command is answered before the next is sent, and its memory is released.
\* Between commands the zones are those the program was told, each answer taken in
\* program order.  The requests start from empty zones, whatever earlier programs
\* left in them, and reset_zns, when it has a zoned namespace, leaves empty zones.
Synchronous ==
    /\ Cardinality(Flying) <= 1
    /\ pc \notin Final => outstanding_commands = Cardinality(Flying)
    /\ pc \notin {"failed", "crash"} => heap = {c \in Flying : c.op \notin {"reset", "report"}}
    /\ Flying = {} => zones = told
    /\ (sent = 1 /\ pc \in {"info", "free", "exit", "done"}) \/ (sent = 2 /\ pc = "send")
         => \A z \in DOMAIN zones : zones[z] = EmptyZone

\* The program ends: at its return everything is released and detached.  The
\* one way to hang is a zone report the driver refused.
Terminates ==
    <>(/\ pc \in Final
       /\ pc = "done" => attached = {} /\ qpair \in {"none", "freed"} /\ heap = {}
       /\ pc = "hung" => app = "demo" /\ sent = 1)
=============================================================================
