---------------------------- MODULE TraceCatcher ----------------------------
(***************************************************************************)
(* trace_catcher/trace_catcher.cpp: from a trace ring to the flat file the *)
(* analyzer and the replayer read.                                         *)
(*                                                                         *)
(* The traced program, its ring of RingSize entries, spdk_trace_record and *)
(* SPDK's parser are external.  The ring overwrites its oldest entries; a  *)
(* recorder that is too slow loses others (`lossy').  A request object is  *)
(* reused as soon as its command has completed, so an object identifies a  *)
(* command only together with the time of its submission, which the parser *)
(* remembers per object (object_start) and hands out as UINT64_MAX when it *)
(* has not seen the submission.  The catcher drops what it cannot pair,    *)
(* rebases the time stamps and computes each command's service time, all   *)
(* in unsigned 64-bit arithmetic.  With -d it reads its file back, in      *)
(* chunks of ENTRY_MAX entries, and displays it.                           *)
(***************************************************************************)
EXTENDS Integers, Sequences, FiniteSets

CONSTANTS
    Objects,    \* addresses of request objects
    RingSize,   \* entries of the ring
    MaxTsc,     \* bound on the time stamp counter
    ENTRY_MAX,  \* entries of a chunk of the display (10000)
    Rooms,      \* entries the disk may have room for
    Word        \* 2^64

ASSUME CatcherAssumption ==
    /\ RingSize \in Nat \ {0}
    /\ MaxTsc \in Nat
    /\ ENTRY_MAX \in Nat \ {0}
    /\ Rooms \subseteq Nat
    /\ Word \in Nat /\ Word \div 2 > MaxTsc     \* a TSC never has bit 63 set

UINT64_MAX == Word - 1
Bit63 == Word \div 2
Minus(a, b) == (a - b) % Word

VARIABLES
    tsc,            \* the time stamp counter
    pending,        \* object -> submission of the command it carries, or Idle
    ring,           \* trace entries, oldest first
    lossy,          \* the recorder may lose entries
    phase,          \* "recording", "parsing", "display"; "done" or "failed"
    pos,            \* the parser's position in the ring
    start,          \* the parser's time of the last submission seen per object
    g_tsc_base,
    output,         \* the entries written to the .bin file
    room,           \* how many entries the disk takes
    remain_entry    \* entries not yet displayed

recorderVars == <<tsc, pending, ring, lossy>>
displayVars == <<room, remain_entry>>
catcherVars == <<pos, start, g_tsc_base, output, displayVars>>
vars == <<recorderVars, phase, catcherVars>>

Idle == [tsc |-> 0, ctx |-> 0]

Init ==
    /\ tsc = 0
    /\ pending = [o \in Objects |-> Idle]
    /\ ring = <<>>
    /\ phase = "recording"
    /\ pos = 0
    /\ start = [o \in Objects |-> UINT64_MAX]
    /\ g_tsc_base = 0
    /\ output = <<>>
    /\ lossy \in BOOLEAN
    /\ room = 0 /\ remain_entry = 0
-----------------------------------------------------------------------------
(* The traced program.                                                     *)

\* `born' is not recorded: it is the submission time of the command itself.
Trace(name, o, ctx, born) ==
    LET entry == [tpoint |-> name, object_id |-> o, ctx |-> ctx, tsc |-> tsc + 1,
                  born |-> born]
    IN /\ phase = "recording"
       /\ tsc < MaxTsc
       /\ tsc' = tsc + 1
       /\ \/ ring' = Append(IF Len(ring) = RingSize THEN Tail(ring) ELSE ring, entry)
          \/ lossy /\ ring' = ring
       /\ UNCHANGED <<lossy, phase, catcherVars>>

\* ctx is the command's callback argument, 0 or something else.
TraceSubmit(o, ctx) ==
    /\ pending[o] = Idle
    /\ pending' = [pending EXCEPT ![o] = [tsc |-> tsc + 1, ctx |-> ctx]]
    /\ Trace("NVME_IO_SUBMIT", o, ctx, tsc + 1)

TraceComplete(o) ==
    /\ pending[o] # Idle
    /\ pending' = [pending EXCEPT ![o] = Idle]
    /\ Trace("NVME_IO_COMPLETE", o, pending[o].ctx, pending[o].tsc)

\* Another tracepoint of the enabled groups.
TraceOther(o) ==
    /\ UNCHANGED pending
    /\ Trace("OTHER", o, 0, tsc + 1)

\* Wrong options, an output file that cannot be created, or no parser: exit.
StartFails ==
    /\ phase = "recording"
    /\ phase' = "failed"
    /\ UNCHANGED <<recorderVars, catcherVars>>

\* trace_catcher opens the file or the ring; the parser takes what is there.
StartCatcher ==
    /\ phase = "recording"
    /\ phase' = "parsing"
    /\ room' \in Rooms
    /\ UNCHANGED <<recorderVars, pos, start, g_tsc_base, output, remain_entry>>
-----------------------------------------------------------------------------
(* The loop over the entries.                                              *)

Entry == ring[pos + 1]

\* spdk_trace_parser_next_entry: a submission starts its object.
start_next ==
    IF Entry.tpoint = "NVME_IO_SUBMIT" THEN [start EXCEPT ![Entry.object_id] = Entry.tsc]
    ELSE start
object_start == start_next[Entry.object_id]

\* Mutants of Wanted: other tracepoints pass; unpaired completions pass.
WantedAny == Entry.ctx = 0 /\ object_start < Bit63
WantedUnpaired == Entry.tpoint \in {"NVME_IO_SUBMIT", "NVME_IO_COMPLETE"} /\ Entry.ctx = 0

\* main() l. 251 to 257.
Wanted ==
    /\ Entry.tpoint \in {"NVME_IO_SUBMIT", "NVME_IO_COMPLETE"}
    /\ Entry.ctx = 0
    /\ object_start < Bit63

base_next == IF g_tsc_base = 0 THEN Entry.tsc ELSE g_tsc_base

\* Mutant of trace_io_entry: the service time is measured from the base.
trace_io_entry_base ==
    [tpoint_name    |-> Entry.tpoint,
     obj_id         |-> Entry.object_id,
     tsc_timestamp  |-> Minus(Entry.tsc, base_next),
     tsc_obj_submit |-> Minus(object_start, base_next),
     tsc_sc_time    |-> IF Entry.tpoint = "NVME_IO_SUBMIT" THEN 0
                        ELSE Minus(Entry.tsc, base_next)]

\* process_output_file.  The command's fields are left out.
trace_io_entry ==
    [tpoint_name    |-> Entry.tpoint,
     obj_id         |-> Entry.object_id,
     tsc_timestamp  |-> Minus(Entry.tsc, base_next),
     tsc_obj_submit |-> Minus(object_start, base_next),
     tsc_sc_time    |-> IF Entry.tpoint = "NVME_IO_SUBMIT" THEN 0
                        ELSE Minus(Entry.tsc, object_start)]

NextEntry ==
    /\ phase = "parsing"
    /\ pos < Len(ring)
    /\ pos' = pos + 1
    /\ start' = start_next

Skip ==
    /\ NextEntry
    /\ ~Wanted
    /\ UNCHANGED <<recorderVars, phase, g_tsc_base, output, displayVars>>

\* The result of fwrite is not looked at: a full disk cuts the file.
Stored(e) == IF Len(output) < room THEN Append(output, e) ELSE output

\* Mutant of Write: an entry at the base is skipped.
WriteBehindBase ==
    /\ NextEntry
    /\ Wanted
    /\ g_tsc_base' = base_next
    /\ output' = IF Entry.tsc <= base_next THEN output ELSE Stored(trace_io_entry)
    /\ UNCHANGED <<recorderVars, phase, displayVars>>

\* The base is the first entry that gets here.  An entry before it (l. 263) is
\* skipped; NothingDropped says that there is none.
Write ==
    /\ NextEntry
    /\ Wanted
    /\ g_tsc_base' = base_next
    /\ output' = IF Entry.tsc < base_next THEN output ELSE Stored(trace_io_entry)
    /\ UNCHANGED <<recorderVars, phase, displayVars>>

CloseOutput ==
    /\ phase = "parsing"
    /\ pos = Len(ring)
    /\ \/ phase' = "display" /\ remain_entry' = Len(output)     \* -d
       \/ phase' = "done" /\ UNCHANGED remain_entry
    /\ UNCHANGED <<recorderVars, pos, start, g_tsc_base, output, room>>
-----------------------------------------------------------------------------
(* The display of the file.                                                *)

buffer_entry == IF remain_entry > ENTRY_MAX THEN ENTRY_MAX ELSE remain_entry

Display ==
    /\ phase = "display"
    /\ remain_entry > 0
    /\ remain_entry' = remain_entry - buffer_entry
    /\ UNCHANGED <<recorderVars, phase, pos, start, g_tsc_base, output, room>>

\* The file cannot be opened again, or is read short.
DisplayFails ==
    /\ phase = "display"
    /\ phase' = "failed"
    /\ UNCHANGED <<recorderVars, catcherVars>>

DisplayDone ==
    /\ phase = "display"
    /\ remain_entry = 0
    /\ phase' = "done"
    /\ UNCHANGED <<recorderVars, catcherVars>>

Terminated == phase \in {"done", "failed"} /\ UNCHANGED vars

Next ==
    \/ \E o \in Objects :
        \/ \E ctx \in {0, 1} : TraceSubmit(o, ctx)
        \/ TraceComplete(o)
        \/ TraceOther(o)
    \/ StartFails \/ StartCatcher
    \/ Skip \/ Write
    \/ CloseOutput
    \/ Display \/ DisplayFails \/ DisplayDone
    \/ Terminated

Spec == Init /\ [][Next]_vars
-----------------------------------------------------------------------------
(* Properties.                                                             *)

Times == 0 .. MaxTsc
Names == {"NVME_IO_SUBMIT", "NVME_IO_COMPLETE"}

TypeOK ==
    /\ tsc \in Times
    /\ pending \in [Objects -> [tsc : Times, ctx : {0, 1}]]
    /\ ring \in Seq([tpoint : Names \cup {"OTHER"}, object_id : Objects, ctx : {0, 1},
                     tsc : Times, born : Times])
    /\ Len(ring) <= RingSize
    /\ lossy \in BOOLEAN
    /\ phase \in {"recording", "parsing", "display", "done", "failed"}
    /\ room \in Rooms \cup {0} /\ remain_entry \in 0 .. Len(output)
    /\ pos \in 0 .. Len(ring)
    /\ start \in [Objects -> Times \cup {UINT64_MAX}]
    /\ g_tsc_base \in Times
    /\ output \in Seq([tpoint_name : Names, obj_id : Objects, tsc_timestamp : 0 .. UINT64_MAX,
                       tsc_obj_submit : 0 .. UINT64_MAX, tsc_sc_time : 0 .. UINT64_MAX])

\* The ring entry an output entry was made from.
Source(k) == CHOOSE e \in {ring[j] : j \in 1 .. pos} :
                 Minus(e.tsc, g_tsc_base) = output[k].tsc_timestamp

Completions == {k \in 1 .. Len(output) : output[k].tpoint_name = "NVME_IO_COMPLETE"}

\* "object from submit to complete" (trace_io.h l. 18): the service time of a
\* completion is measured from the submission of that command.  If the recorder
\* lost that one, from an earlier one: the service time is never too short.
ServiceTimeExact ==
    \A k \in Completions :
        LET time == Source(k).tsc - Source(k).born
        IN /\ output[k].tsc_sc_time >= time
           /\ ~lossy => output[k].tsc_sc_time = time

\* The entries of the ring whose submission is in the ring too; if the recorder
\* has lost entries, an earlier submission of the same object passes for it.
Paired(j) ==
    \E s \in 1 .. j :
        /\ ring[s].tpoint = "NVME_IO_SUBMIT"
        /\ IF lossy THEN ring[s].object_id = ring[j].object_id ELSE ring[s].tsc = ring[j].born

\* Nothing else is lost: unless the disk is full, the file has every command
\* entry of the ring with ctx 0 whose submission is still in the ring.
NothingDropped ==
    phase \in {"display", "done"} /\ Len(output) < room =>
        Len(output) = Cardinality({j \in 1 .. Len(ring) :
            ring[j].tpoint \in Names /\ ring[j].ctx = 0 /\ Paired(j)})

\* What is written is a trace file in the sense of its readers at every moment,
\* also when the ring has forgotten entries, the recorder has lost some and the
\* disk is full.
File == INSTANCE TraceFile WITH file <- output, gapless <- ~lossy
ImplementsTraceFile == File!FileSpec
=============================================================================
