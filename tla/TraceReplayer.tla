--------------------------- MODULE TraceReplayer ---------------------------
(***************************************************************************)
(* trace_replayer/trace_replayer.c: main() with the callbacks and helpers  *)
(* it calls.  One thread reads the recorded trace in chunks of at most     *)
(* ENTRY_MAX entries, skips completion records, and submits the others     *)
(* without waiting for answers until g_queue_depth commands are            *)
(* outstanding; it then polls.  After each chunk it polls until nothing is *)
(* outstanding.  The device completes commands concurrently, in any order; *)
(* callbacks run inside a poll.                                            *)
(*                                                                         *)
(* pc names the place in main() the thread has reached:                    *)
(*   start   before spdk_env_init                                          *)
(*   alloc   controllers attached, no queue pair                           *)
(*   reset   queue pair allocated, namespace not reset                     *)
(*   open    before fopen                                                  *)
(*   chunk   at the head of the loop over chunks                           *)
(*   entry   at the head of the loop over the entries of the buffer        *)
(*   drain   polling after the chunk                                       *)
(*   finish  behind the loop, before fclose and free_qpair                 *)
(*   report  before report_zone                                            *)
(*   exit    at the label exit                                             *)
(*   done    returned through the label exit                               *)
(*   failed  returned or exited elsewhere                                  *)
(*   crash   killed by the undefined behaviour of its own code             *)
(*                                                                         *)
(* reset_ns and report_zone leave nothing outstanding and are one step     *)
(* each here; module NamespaceAdmin has their loops.                       *)
(***************************************************************************)
EXTENDS IoQpair, Integers, Sequences

CONSTANTS
    ENTRY_MAX,      \* entries of the chunk buffer (10000)
    IoQueueSize,    \* io_queue_size of the default qpair options
    Traces,         \* the files that may be given with -f
    DepthArgs       \* the values that may be given with -q; 0: no -q

-----------------------------------------------------------------------------
(* The trace.                                                              *)

\* Zone Management Send is split by its zone action (cdw13, bits 0 to 7).
ZoneActions == {"ZONE_OPEN", "ZONE_CLOSE", "ZONE_FINISH", "ZONE_RESET", "ZONE_OFFLINE"}

\* The cases of the two switch statements; any other opcode or zone action is
\* ignored without a message.
ZnsOpcodes == {"READ", "COMPARE", "WRITE", "ZONE_APPEND"} \cup ZoneActions
ConventionalOpcodes == {"READ", "COMPARE", "WRITE", "WRITE_ZEROES"}
Opcodes == ZnsOpcodes \cup ConventionalOpcodes \cup {"OTHER"}

\* One struct trace_io_entry.  `valid' is FALSE when the driver refuses the
\* command's parameters synchronously (an append above the append limit, say).
Entries == [tpoint : {"NVME_IO_SUBMIT", "NVME_IO_COMPLETE"},
            opc    : Opcodes,
            valid  : BOOLEAN]

ASSUME ReplayerAssumption ==
    /\ ENTRY_MAX \in Nat \ {0}
    /\ IoQueueSize \in Nat \ {0}
    /\ \A t \in Traces : t \in Seq(Entries)
    /\ DepthArgs \subseteq Nat

VARIABLES
    trace,          \* the entries of the input file
    g_zone,         \* the namespace is zoned
    g_report_zone,  \* -z was given
    g_queue_depth,
    pc,
    attached,       \* controllers are attached
    file,           \* fptr: "none", "open", "closed" or "corrupt"
    remain_entry,   \* entries of the file no chunk has claimed
    read_entry,     \* entries in the buffer
    i,              \* index of the loop over the buffer
    outstanding_commands,
    g_num_io,
    heap,           \* positions whose task and buffer are allocated
    rc,             \* what the last replayed entry returned
    sent,           \* history: positions of the commands the driver accepted
    ended           \* history: "running", then "complete" or "aborted"

inputVars == <<trace, g_zone, g_report_zone>>
loopVars == <<file, remain_entry, read_entry, i>>
ioVars == <<outstanding_commands, g_num_io, heap, sent>>
vars == <<inputVars, g_queue_depth, pc, attached, loopVars, ioVars, rc, ended, qpairVars>>

-----------------------------------------------------------------------------
(* Derived from the state.                                                 *)

Positions == 1 .. Len(trace)

\* Entries the loops have left behind, and the position of buffer[i].
Consumed == Len(trace) - remain_entry - read_entry + i
\* Mutant of Current: the buffer is replayed from its end.
CurrentBackward == Len(trace) - remain_entry - i
Current == Consumed + 1

\* The entry leads to a command for the driver.
Replayable(k) ==
    /\ trace[k].tpoint # "NVME_IO_COMPLETE"
    /\ trace[k].opc \in IF g_zone THEN ZnsOpcodes ELSE ConventionalOpcodes

\* The entry is given a task and a buffer but never reaches the driver.
Ignored(k) == trace[k].tpoint # "NVME_IO_COMPLETE" /\ ~Replayable(k)

Todo == {k \in Positions : Replayable(k)}

EffectiveDepth == IF g_queue_depth = 0 THEN IoQueueSize ELSE g_queue_depth

Final == {"done", "failed", "crash"}
-----------------------------------------------------------------------------
Init ==
    /\ trace \in Traces
    /\ g_zone \in BOOLEAN
    /\ g_report_zone \in BOOLEAN
    /\ g_queue_depth \in DepthArgs
    /\ pc = "start"
    /\ attached = FALSE
    /\ file = "none"
    /\ remain_entry = Len(trace)
    /\ read_entry = 0
    /\ i = 0
    /\ outstanding_commands = 0
    /\ g_num_io = 0
    /\ heap = {}
    /\ rc = "ok"
    /\ sent = {}
    /\ ended = "running"
    /\ QpairInit

\* spdk_env_init and enable_spdk_trace, then spdk_nvme_probe with attach_cb.
\* Without an environment main() returns; without a trace group, a working
\* probe or a controller it goes to exit.
Probe ==
    /\ pc = "start"
    /\ \/ pc' = "failed" /\ ended' = "aborted" /\ UNCHANGED attached
       \/ pc' = "exit" /\ ended' = "aborted" /\ attached' \in BOOLEAN
       \/ pc' = "alloc" /\ attached' = TRUE /\ UNCHANGED ended
    /\ UNCHANGED <<inputVars, g_queue_depth, loopVars, ioVars, rc, qpairVars>>

\* alloc_qpair takes the first namespace without asking whether there is one.
\* A failed allocation returns from main() with the controllers attached.
AllocQpair ==
    /\ pc = "alloc"
    /\ \/ /\ pc' = "reset"
          /\ g_queue_depth' = EffectiveDepth
          /\ AllocIoQpair
          /\ UNCHANGED ended
       \/ /\ pc' \in {"failed", "crash"}
          /\ ended' = "aborted"
          /\ UNCHANGED <<g_queue_depth, qpairVars>>
    /\ UNCHANGED <<inputVars, attached, loopVars, ioVars, rc>>

\* identify_ns and reset_ns; a refused reset command ends the process.
ResetNs ==
    /\ pc = "reset"
    /\ \/ pc' = "open" /\ UNCHANGED ended
       \/ pc' = "failed" /\ ended' = "aborted"
    /\ UNCHANGED <<inputVars, g_queue_depth, attached, loopVars, ioVars, rc, qpairVars>>

OpenTrace ==
    /\ pc = "open"
    /\ \/ pc' = "chunk" /\ file' = "open" /\ UNCHANGED ended
       \/ pc' = "failed" /\ ended' = "aborted" /\ UNCHANGED file
    /\ UNCHANGED <<inputVars, g_queue_depth, attached, remain_entry, read_entry, i,
                   ioVars, rc, qpairVars>>
-----------------------------------------------------------------------------
(* The loop over chunks.                                                   *)

\* Mutant of buffer_entry: the last chunk is not cut to the file.
buffer_entry_uncut == ENTRY_MAX

buffer_entry == IF remain_entry > ENTRY_MAX THEN ENTRY_MAX ELSE remain_entry

ReadChunk ==
    /\ pc = "chunk"
    /\ remain_entry > 0
    /\ remain_entry' = remain_entry - buffer_entry
    /\ read_entry' = buffer_entry
    /\ i' = 0
    /\ pc' = "entry"
    /\ UNCHANGED <<inputVars, g_queue_depth, attached, file, ioVars, rc, ended, qpairVars>>

\* fread returns less than the chunk: the queue pair and the file are released
\* here, and the break leads to the code that releases them again.
ReadShort ==
    /\ pc = "chunk"
    /\ remain_entry > 0
    /\ remain_entry' = remain_entry - buffer_entry
    /\ read_entry' \in 0 .. buffer_entry - 1
    /\ i' = 0
    /\ FreeIoQpair
    /\ file' = "closed"
    /\ pc' = "finish"
    /\ ended' = "aborted"
    /\ UNCHANGED <<inputVars, g_queue_depth, attached, ioVars, rc>>

ReadDone ==
    /\ pc = "chunk"
    /\ remain_entry = 0
    /\ pc' = "finish"
    /\ ended' = "complete"
    /\ UNCHANGED <<inputVars, g_queue_depth, attached, loopVars, ioVars, rc, qpairVars>>

\* Mutants of ProcessCompletions: the counter moves once per poll; the task and
\* its buffer are not freed.
ProcessCompletionsOnce(S) ==
    /\ Reap(S)
    /\ heap' = heap \ S
    /\ outstanding_commands' = outstanding_commands - 1
ProcessCompletionsLeaky(S) ==
    /\ Reap(S)
    /\ heap' = heap
    /\ outstanding_commands' = outstanding_commands - Cardinality(S)

\* One poll: replay_complete runs for every completion found and frees the
\* task and its buffer.
ProcessCompletions(S) ==
    /\ Reap(S)
    /\ heap' = heap \ S
    /\ outstanding_commands' = outstanding_commands - Cardinality(S)

AtEntry == pc = "entry" /\ i < read_entry

SkipComplete ==
    /\ AtEntry
    /\ trace[Current].tpoint = "NVME_IO_COMPLETE"
    /\ i' = i + 1
    /\ UNCHANGED <<inputVars, g_queue_depth, pc, attached, file, remain_entry, read_entry,
                   ioVars, rc, ended, qpairVars>>

WaitForRoom ==
    /\ AtEntry
    /\ trace[Current].tpoint # "NVME_IO_COMPLETE"
    /\ outstanding_commands >= g_queue_depth
    /\ \E S \in SUBSET cq : ProcessCompletions(S)
    /\ UNCHANGED <<inputVars, g_queue_depth, pc, attached, loopVars, g_num_io, rc, sent, ended>>

\* Mutant of AtCall: there is no wait.
AtCallEager == AtEntry /\ trace[Current].tpoint # "NVME_IO_COMPLETE"

\* process_zns_replay or process_replay is called for buffer[i].
AtCall ==
    /\ AtEntry
    /\ trace[Current].tpoint # "NVME_IO_COMPLETE"
    /\ outstanding_commands < g_queue_depth

\* spdk_zmalloc returns NULL: exit(1).  malloc returns NULL: it is written to.
NoMemory ==
    /\ AtCall
    /\ pc' \in {"failed", "crash"}
    /\ ended' = "aborted"
    /\ UNCHANGED <<inputVars, g_queue_depth, attached, loopVars, ioVars, rc, qpairVars>>

\* Mutant of Ignore: the counter is incremented before the switch.
IgnoreCounted ==
    /\ AtCall
    /\ Ignored(Current)
    /\ heap' = heap \cup {Current}
    /\ outstanding_commands' = outstanding_commands + 1
    /\ i' = i + 1
    /\ UNCHANGED <<inputVars, g_queue_depth, pc, attached, file, remain_entry, read_entry,
                   g_num_io, sent, rc, ended, qpairVars>>

\* No case of the switch: the task and the buffer stay allocated.
Ignore ==
    /\ AtCall
    /\ Ignored(Current)
    /\ heap' = heap \cup {Current}
    /\ i' = i + 1
    /\ UNCHANGED <<inputVars, g_queue_depth, pc, attached, file, remain_entry, read_entry,
                   outstanding_commands, g_num_io, sent, rc, ended, qpairVars>>

\* Both counters move before the driver is asked.
CountIo ==
    /\ heap' = heap \cup {Current}
    /\ g_num_io' = g_num_io + 1
    /\ outstanding_commands' = outstanding_commands + 1

Submit ==
    /\ AtCall
    /\ Replayable(Current)
    /\ trace[Current].valid
    /\ ~Full
    /\ CountIo
    /\ Accept(Current)
    /\ sent' = sent \cup {Current}
    /\ i' = i + 1
    /\ UNCHANGED <<inputVars, g_queue_depth, pc, attached, file, remain_entry, read_entry,
                   rc, ended>>

\* The driver's error is returned from main() after the queue pair and the
\* file have been released; the controllers stay attached.
Refuse ==
    /\ AtCall
    /\ Replayable(Current)
    /\ Full \/ ~trace[Current].valid
    /\ CountIo
    /\ FreeIoQpair
    /\ file' = "closed"
    /\ rc' = IF trace[Current].valid THEN "ENOMEM" ELSE "EINVAL"
    /\ pc' = "failed"
    /\ ended' = "aborted"
    /\ UNCHANGED <<inputVars, g_queue_depth, attached, remain_entry, read_entry, i, sent>>

\* Mutant of EntriesDone: the loop stops before the last entry of the buffer.
EntriesDoneEarly ==
    /\ pc = "entry"
    /\ i >= read_entry - 1
    /\ pc' = "drain"
    /\ UNCHANGED <<inputVars, g_queue_depth, attached, loopVars, ioVars, rc, ended, qpairVars>>

EntriesDone ==
    /\ pc = "entry"
    /\ i = read_entry
    /\ pc' = "drain"
    /\ UNCHANGED <<inputVars, g_queue_depth, attached, loopVars, ioVars, rc, ended, qpairVars>>

Drain ==
    /\ pc = "drain"
    /\ outstanding_commands > 0
    /\ \E S \in SUBSET cq : ProcessCompletions(S)
    /\ UNCHANGED <<inputVars, g_queue_depth, pc, attached, loopVars, g_num_io, rc, sent, ended>>

\* Mutant of Drained: the chunk is left with commands outstanding.
DrainedNot ==
    /\ pc = "drain"
    /\ pc' = "chunk"
    /\ UNCHANGED <<inputVars, g_queue_depth, attached, loopVars, ioVars, rc, ended, qpairVars>>

Drained ==
    /\ pc = "drain"
    /\ outstanding_commands = 0
    /\ pc' = "chunk"
    /\ UNCHANGED <<inputVars, g_queue_depth, attached, loopVars, ioVars, rc, ended, qpairVars>>
-----------------------------------------------------------------------------
(* Behind the loop.                                                        *)

\* fclose, the summary, free_qpair.  Releasing either a second time may kill
\* the process at once.
Finish ==
    /\ pc = "finish"
    /\ file' = IF file = "open" THEN "closed" ELSE "corrupt"
    /\ FreeIoQpair
    /\ \/ pc' = IF g_report_zone THEN "report" ELSE "exit"
       \/ file # "open" /\ pc' = "crash"
    /\ UNCHANGED <<inputVars, g_queue_depth, attached, remain_entry, read_entry, i,
                   ioVars, rc, ended>>

\* report_zone: nothing for a conventional namespace; otherwise a queue pair of
\* its own, freed at the end, unless it cannot be allocated, and the counter set
\* to 0.  A failed calloc or a refused command ends the process with that queue
\* pair in use.
Report ==
    /\ pc = "report"
    /\ \/ /\ pc' = "exit"
          /\ \/ UNCHANGED outstanding_commands
             \/ g_zone /\ outstanding_commands' = 0
          /\ UNCHANGED qpairVars
       \/ /\ g_zone
          /\ pc' = "failed"
          /\ outstanding_commands' = 1 \/ UNCHANGED outstanding_commands
          /\ qpair' = IF qpair = "corrupt" THEN "corrupt" ELSE "live"
          /\ UNCHANGED <<inflight, cq>>
    /\ UNCHANGED <<inputVars, g_queue_depth, attached, loopVars, g_num_io, heap, rc, sent,
                   ended>>

\* cleanup() and spdk_env_fini().
Exit ==
    /\ pc = "exit"
    /\ attached' = FALSE
    /\ pc' = "done"
    /\ UNCHANGED <<inputVars, g_queue_depth, loopVars, ioVars, rc, ended, qpairVars>>

Terminated == pc \in Final /\ UNCHANGED vars
-----------------------------------------------------------------------------
Main ==
    \/ Probe \/ AllocQpair \/ ResetNs \/ OpenTrace
    \/ ReadChunk \/ ReadShort \/ ReadDone
    \/ SkipComplete \/ WaitForRoom \/ NoMemory \/ Ignore \/ Submit \/ Refuse
    \/ EntriesDone \/ Drain \/ Drained
    \/ Finish \/ Report \/ Exit

Device ==
    /\ \E k \in inflight : DeviceComplete(k)
    /\ UNCHANGED <<inputVars, g_queue_depth, pc, attached, loopVars, ioVars, rc, ended>>

Next == Main \/ Device \/ Terminated

Spec == Init /\ [][Next]_vars

\* The thread runs whenever it has something to do, and the device answers.
\* inflight only grows when Main submits, and the trace is finite, so fairness
\* of Device as a whole answers every command.
FairSpec == Spec /\ WF_vars(Main) /\ WF_vars(Device)
-----------------------------------------------------------------------------
(* Properties.                                                             *)

TypeOK ==
    /\ trace \in Seq(Entries)
    /\ g_zone \in BOOLEAN
    /\ g_report_zone \in BOOLEAN
    /\ g_queue_depth \in Nat
    /\ pc \in {"start", "alloc", "reset", "open", "chunk", "entry", "drain", "finish",
               "report", "exit"} \cup Final
    /\ attached \in BOOLEAN
    /\ file \in {"none", "open", "closed", "corrupt"}
    /\ remain_entry \in 0 .. Len(trace)
    /\ read_entry \in 0 .. ENTRY_MAX
    /\ i \in 0 .. read_entry
    /\ outstanding_commands \in Nat
    /\ g_num_io \in Nat
    /\ heap \subseteq Positions
    /\ rc \in {"ok", "ENOMEM", "EINVAL"}
    /\ sent \subseteq Positions
    /\ ended \in {"running", "complete", "aborted"}
    /\ QpairTypeOK(Positions)

\* The replay loop has the queue pair.
Replaying == qpair = "live" /\ pc \in {"reset", "open", "chunk", "entry", "drain", "finish"}

\* The unsigned counter both waits rely on is exactly the number of commands
\* the driver has accepted and not yet answered, whatever the order in which
\* submissions, device completions and polls interleave: it never wraps, and
\* neither wait can end early or spin on a count that nothing will decrease.
OutstandingExact == Replaying => outstanding_commands = Cardinality(Flying)

\* The device never holds more commands than -q allows, and all of them belong to
\* the chunk in the buffer: a command overtakes none of an earlier chunk.
FlightBounded ==
    /\ Cardinality(Flying) <= EffectiveDepth
    /\ Flying \subseteq Consumed - i + 1 .. Consumed

\* -q is taken as it is given (l. 654), but a replay does not fail for want of
\* request objects unless the depth and the chunk are both larger than the
\* queue pair's supply.
NoRoomFailure == rc = "ENOMEM" => g_queue_depth > MaxRequests /\ ENTRY_MAX > MaxRequests

\* Every task and buffer is owned by a command the device may still write to,
\* or belongs to an entry the switch ignored: nothing is freed under the device
\* and nothing else leaks.
TasksAccounted ==
    Replaying => heap = Flying \cup {k \in 1 .. Consumed : Ignored(k)}

\* A replay that gets through the file has submitted exactly the entries the
\* switch knows, each has been answered, and the "Requests number" printed is
\* their number.
ReplayedAll ==
    ended = "complete" =>
        /\ sent = Todo
        /\ Flying = {}
        /\ g_num_io = Cardinality(Todo)

\* What is released is no longer in use: the queue pair only when nothing is in
\* it, unless the driver refused a submission, and the controllers only when no
\* queue pair of theirs is allocated.
ReleasedInOrder ==
    [][/\ qpair = "live" /\ qpair' = "freed" => Flying = {} \/ rc' # "ok"
       /\ attached /\ ~attached' => qpair # "live"]_vars

\* main() returns or exits: the loop that waits for room and the one that
\* drains the chunk both end, for every trace and every -q.
Terminates == <>(pc \in Final)

Queue == INSTANCE ReplayQueue WITH
    work <- Todo, depth <- EffectiveDepth, issued <- sent, flying <- Flying, status <- ended

\* The chunked, polled loop implements the replay queue: it issues the entries
\* in trace order, each once, within the depth, and ends as complete only when
\* all of them are answered.
ImplementsReplayQueue == Queue!QueueSpec

\* "Free io qpair after workload replay" (l. 794): the queue pair is freed
\* once, there.
QpairFreedOnce == qpair # "corrupt"
=============================================================================
