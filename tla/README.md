# TraceIO: specification and verification

TraceIO records the NVMe commands an SPDK application issues, turns the recording into a
flat file of `struct trace_io_entry`, analyses that file and replays it on a device.
This directory holds TLA+ models of those programs, the TLC runs that check them and the
TLAPS proofs about them.

## 1. Inventory

    app (demo, access_zns, access_opz, reset_zns, or trace_replayer itself)
       |  submits commands on one I/O qpair, polls for completions (SPDK, external)
       |  lib/trace_io.c: switches tracepoints on, forks spdk_trace_record, stops it by SIGINT
       v
    SPDK trace rings in shared memory / .trace file   (external)
       v
    trace_catcher  -> *.bin, a sequence of struct trace_io_entry
       |-> trace_analyzer : prints, counts, latency, IOPS
       '-> trace_replayer : resets the namespace, replays, reports zones

| component | source | state it keeps | operations | what is hard |
|---|---|---|---|---|
| I/O qpair | SPDK (external), used by every program | commands in flight, completions not yet polled | allocate, submit, process_completions, free | completions arrive in any order, only when polled; a submission may be refused |
| trace_replayer: replay | `trace_replayer.c` `main`, `process_replay`, `process_zns_replay`, `replay_complete` | `outstanding_commands`, `g_queue_depth`, `g_num_io`, chunk cursor, heap tasks, file, qpair | read a chunk, skip, wait for room, submit, ignore, drain, tear down | the counter is incremented before the call that may fail; buffers belong to the device until the callback; chunks; three different ways out |
| trace_replayer: namespace commands | same file, `reset_ns`, `reset_all_zone`, `write_all_zero`, `report_zone` | LBA cursor, blocks left, a stack task, the zone cursor | synchronous loops on the qpair | block arithmetic, error completions that are only printed, one stack task reused |
| trace_catcher | `trace_catcher.cpp` | `g_tsc_base`, the output file | filter one parsed entry, convert, write | ring loss leaves completions without a submission; unsigned time arithmetic |
| trace_analyzer | `trace_analyzer.c` | counters, the latency list, histograms, per-block and per-zone arrays | two passes over the file | uninitialised return value, 16-bit counters, sizes that are set for ZNS only |
| trace_io library | `lib/trace_io.c` | enabled tracepoints, the recorder's pid, the SIGINT handler | enable tracing, fork/exec recorder, stop it | fork and exec failures, signal handler argument, early exits |
| workload apps | `app/access_zns`, `app/access_opz`, `app/demo`, `app/reset_zns` | read/write budgets, outstanding counter | sequential and random generators, zone management | open-zone limit, loop bounds, budgets computed in `float` |
| zones of the replayed device | the NVMe device (external) and the translation in `process_zns_replay` | state and write pointer per zone | execute append, open, close, finish, reset | the replay waits for nothing the recorded program waited for |
| controller attach | in all programs: `probe_cb`, `attach_cb`, `register_ns`, `cleanup` | lists of controllers and namespaces | probe, register, detach | a controller without an active namespace |

All programs have one thread. The concurrency is between that thread, the device (which
executes and completes commands in any order), the traced application beside its recorder
process, and signals. Completions change program state only inside
`spdk_nvme_qpair_process_completions`. `src/` has no tests; what is hard to test is listed,
line by line, under `hazards` in `PROJECT.json`.

## 2. Plan

Done, in this order: the replayer (the heart of the repository) and its queue pair; its
abstract specification and proofs; its namespace commands and proofs; the catcher; the
analyzer; the zone load generators; the recorder life cycle; what a trace file promises its
readers, with the catcher's faults (gaps, full disk); the replay composed with the zones of a
device; the lists of controllers and namespaces; `demo` and `reset_zns`. Then proofs: of the
catcher with its refinement, of the zones' accounts in the load generators, of the recorder's
tracepoints, of the synchronous protocol of `demo`, of the analyzer's statistics, of the
replay on a device, of the generators' budgets, and of what termination rests on beside
fairness.

Next, proofs:

1. That reading a `TraceFile` in chunks, as the analyzer does, gives it what `TraceAnalyzer`
   assumes of a trace.
2. `ZonedReplay` with the loop of `TraceReplayer` in place of `ReplayQueue`.

## 3. Modules and code

| module | models | how it corresponds |
|---|---|---|
| `IoQpair` | an SPDK queue pair (external) | `inflight` and `cq` hold the commands at the device and the completions not polled. Its operators are action fragments that the clients conjoin with what the code does. |
| `ReplayQueue` | what a replay promises (abstract) | issue in trace order, at most `depth` unanswered, complete only when all are answered |
| `TraceReplayer` | `trace_replayer.c`, `main` with `process_replay`, `process_zns_replay`, `replay_complete`, `alloc_qpair`, `cleanup` | `pc` is the place in `main`; one action per loop step or branch. `heap` is the set of `io_task` objects, named by the trace position that allocated them. The callback runs inside a poll (`ProcessCompletions`). `sent` and `ended` are history. |
| `NamespaceAdmin` | same file, `reset_ns`, `reset_all_zone`, `write_all_zero`, `report_zone` and their callbacks | the loop variables under their names; the stack task is `task`, and a command is the value the task had when it was submitted, which shows a reuse that comes too early. `TraceReplayer` takes each function as one step; `QuietAtReturn`, part of `StackTask`, is what permits that. |
| `Float` | conversion to `float` and division of floats | the nearest of the numbers a mantissa can hold, `Mantissa` of them between two powers of two, ties to even; used for the counts of the generators and the average of the analyzer |
| `TraceFile` | what a trace file promises (abstract) | it only grows, in the order of time from 0 on; the times of an entry agree; without gaps a completion answers the last submission of its object. A prefix of a trace file is one, so that its readers may rely on it whenever the writer stopped. |
| `TraceCatcher` | `trace_catcher.cpp`, all of `main` and `process_output_file` | a recorder (external) fills a ring that forgets its oldest entries and, if `lossy`, others; the parser (external) pairs by object; `Skip` and `Write` are the filter and the conversion, in arithmetic modulo `Word`; `Stored` is an `fwrite` nobody checks; `Display...` is the `-d` loop |
| `TraceAnalyzer` | `trace_analyzer.c`, all of `main` | the chunk loop is written once and used by three passes; `r_...` and `w_...` are one function of `"r"` and `"w"`; `heap` holds the arrays, a pair at a time; `fault` records a short read, an access outside an array, a failed allocation; `Averages` follows the float arithmetic of `latency_avg` |
| `ZoneWorkload` | `access_zns.c` and `access_opz.c` | `send_seq` and `send_rand` of both programs, which differ in the zones they use and in the finish commands (`app`). The device executes a command when it completes it: `wp`, `rejected`. |
| `TraceIo` | `trace_io.c`, in the frame `main` of `demo`, `access_zns` and `access_opz` have in common | `pc` per process; the child is a second copy of the application until `execvp` replaces it, and stays one if that fails; the load may end, exit, or hang in a zone report that was refused (`"hung"`) |
| `NvmeAttach` | `attach_cb`, `register_ns`, `cleanup`, the same in every program | action fragments over the two lists; the bus (external) has controllers with sets of active namespaces, attached in any order |
| `ZonedDevice` | a zoned namespace (external) | the zone state machine as operators: which commands succeed, what they do |
| `ZoneDemo` | `demo.c` and `reset_zns.c`, `main` to its return; composes `NvmeAttach`, `IoQpair` and `ZonedDevice` | `pc` is the place in `main`; one action per function or branch. The functions for the five kinds of request differ in the command only, so that `SendReq` is one action; `Polled` is their callbacks. `told` is history: the zones as the answers tell them. |
| `ZonedReplay` | `process_zns_replay` on a device; composes `ReplayQueue` and `ZonedDevice` | a recorded command is encoded into its dwords, its first block in two halves, and decoded again (`slba`, `Command`); an opcode or action without a case is dropped (`Op`), and the replay starts from empty zones or from what a failed reset has left (`start`); the loop is the abstract `ReplayQueue`, which `TraceReplayer` implements, and the device executes what is in flight in any order |

The `MC...` modules contain the small sets the runs use. An operator whose comment begins
with "Mutant of X" is a plausible mistake in `X`. No specification uses it: each shows that a
property of section 4 notices the mistake when it replaces `X`. What each definition
translates, by file and lines, is in `map` of `PROJECT.json`.

Commands are abstracted to what the properties tell apart: for the replayer, whether the
switch knows the opcode for this type of namespace and whether the driver accepts the
parameters; for the analyzer, opcode class, first block, length and times. Undefined
behaviour of the code is a choice over what a build can do: an uninitialised return value is
zero or not, an access outside an array goes unnoticed or ends the process (`"crash"`), a
second `free` corrupts (`"corrupt"`) or ends it.

## 4. Runs

| run | question | bounds |
|---|---|---|
| `replay` | counter, buffers, order and release; the loop implements `ReplayQueue`; every replay ends | traces of up to 5 entries over 4 kinds and of up to 3 over all 6, chunks of 3, depths default, 1 and 3, queue pair of 2 requests |
| `namespace_admin` | `reset_ns` wipes each block once and in range; both functions return quiet | 0 to 7 blocks, transfers of 1 to 4; 0 to 4 zones |
| `catcher` | the output is a `TraceFile`; service times; nothing dropped | 6 ticks, 2 interchangeable objects, ring of 3, with and without gaps; a disk for 1 entry or for all; display chunks of 2 |
| `analyzer` | counts, latencies and averages are the trace's; both rounds agree; arrays are respected; all passes end and release the arrays | traces of up to 3 entries over 5 kinds, 74 longer ones for wrapping counters, sums and odd entries; 2 namespaces; 16-bit words of 4 values, 64-bit words of 32, floats of 8 |
| `workload` | open-zone limit, no rejected append, budgets spent, zones finished, load ends | 5 zoned devices of 2 to 4 zones and one conventional; requests of 1, 2 and 4 blocks; ratios 0, 1/2, 1; depths default, 1 and 3 |
| `demo` | lists, one command at a time, empty zones at the start, release at the end, the program ends | 0 to 2 controllers with no namespace, or with 1 or 2; two zoned devices and a conventional one; 11 requests to 3 zones, of which the device has 2 |
| `zoned_replay` | when a replay leaves the zones as the recorded program did, which appends are accepted and how far one can be misplaced | loads of up to 2 commands over 16, of up to 3 over 9 and of up to 4 over 3, and one of six appends that fills both zones; 3 devices of 2 zones with different limits; empty zones or, after a failed reset, two other states; dwords of 4 values; depths 1 to 3 |
| `trace_io` | tracepoints exact, recorder stopped, both copies end or hang in a refused zone report | all arguments of 1 or 2 tokens over 2 groups of 2 tracepoints; at most one Ctrl-C |

Why the bounds suffice. A trace of five entries with chunks of three has a full and a short
chunk, one that ends exactly at a boundary, and none at all; a queue pair of two below a
depth of three makes submissions fail, and depth one makes every entry wait. A ring of three
under six events loses a submission before its completion, and reuses an object across the
loss; a room of one entry cuts a file in which the next entry would be a completion. Eleven
requests fill a zone of three blocks, run into both limits of the device and address a zone
it does not have. Three commands are enough to overtake one another twice at depth 3; six
appends are needed for one to meet the limit of open zones before the append that would have
closed another. With dwords of 4 values the second zone of a device begins in the upper half
of an address. The zones a failed reset leaves are closed, full, open and empty. 0 to 7
blocks by 1 to 4 gives a last transfer that is full, short or alone. The analyzer's words of
4 values wrap within five requests, its sums leave 5 bits within two completions, and
service times above 8 are rounded. Devices have zones that the request size divides and does
not, and a last group that is not full.

Four more runs end in a counterexample, each for a promise in the code's own text
(`findings` in `PROJECT.json`):

| run | promise | what happens |
|---|---|---|
| `replay_double_free` | the queue pair is freed after the replay (`trace_replayer.c:794`) | a short read frees queue pair and file inside the loop; both are released again behind it |
| `zone_report` | "0 indicate displaying all zone" (`trace_replayer.c:629`) | the print loop ignores how many descriptors the buffer has, reads behind it and asks for no more |
| `read_only_default` | the default is 100 % reads (`access_zns.c:557`) | a count rounded up in `float` leaves a negative, hence huge, unsigned number of writes. `Mantissa` is 4 here and 2^24 in the code. `BudgetsSpent` is therefore about counts that are `Countable`: no more reads than requests |
| `fork_failure` | "else 0 indicates a spdk_trace_record fork() failure" (`trace_io.h:46`) | `enable_spdk_trace_record` returns 1, and at the end its caller sends SIGINT to process 1 |

What the zoned runs say of the replay: at depth 1 (`-q 1`) it repeats what the recorded load
does to zones in the state the replay finds them in, provided that the load changes zones
with commands `process_zns_replay` has a case for. A recorded WRITE_ZEROES, or a zone action
other than open, close, finish, reset and offline, is dropped without a message, and what
follows it lands elsewhere (`NoneLost` in `ReplayedAsRecorded`); FLUSH is dropped too and
changes no zone. At a larger depth the replay repeats the load only if no two commands of it
depend on each other, because it does not wait where the recorded program waited; an append
lands at most `depth - 1` appends too early. A reset that the device answers with an error is
printed only, and the replay goes on over the old contents: `WipedOnce` therefore excepts the
blocks of failed commands, and in `ZonedReplay` the zones at the start (`start`) are then any
zones of `Leftovers`. The recorded effect, `Serial`, is counted from there; that the recorded
program itself had started from such zones is not claimed.

The average of the analyzer lies between the smallest and the largest service time only up to
the rounding of `float` (`trace_analyzer.c:264`): one service time of 2^24 + 1 ticks has the
average 2^24. `AverageBetween` gives the bound that holds.

On a conventional namespace `get_ns_info` leaves the sizes 0 (`trace_analyzer.c:676`), and
the counts of every read and write fall behind empty arrays, or end the process (`Outside`).
No run is about that alone: run `analyzer` has such a namespace, and `InArrays` says that on a
zoned one nothing of the kind happens unless a command is not one of that namespace.

Two things the models show that no text of the code contradicts: a namespace list may be
empty although a controller was found (`Registered` says that this is the only crash of
`AllocQpair`), and `access_opz` reports `g_num_zone` requests more than it sends, since it
finishes no zones (`BudgetsSpent` says that for `access_zns` the number is right, if the
count is `Countable`: below 2^32, and not rounded to more reads than there are requests).

Three hazards are covered in part. An uninitialised return value may end an analysis in the
middle (`trace_analyzer.c:366`): `SizesExact` and `Terminates` say that what was counted is
right and that everything is released, and allow the early end. The value of a latency node
behind the first is never initialised (`trace_analyzer.c:247`), and a service time of 0 is
taken for no minimum: `LatencyExact` leaves both out, as the code is wrong there. A recorder
signalled before it is one would record for ever: `Sleep` assumes that the second suffices.

### Fairness

`FairSpec` gives weak fairness to the program's thread as a whole (`Main`): it never sleeps,
its waits are busy polls, and a poll that finds nothing is a stuttering step. It gives weak
fairness to the device as a whole: while a command is in flight some completion is posted.
That suffices since the supply of commands is finite and the loops wait for all of them, or
for any one. In `TraceIo` every process and the delivery of each signal is weakly fair;
typing Ctrl-C is not. `ZoneWorkload` ends in `"hung"`, as `TraceIo` does, where the code
waits for the answer to a zone report that the driver refused (`access_zns.c:258`,
`demo.c:256`), and `Terminates` admits that end; in `ZoneDemo` it admits it only behind a
successful reset.

### Assumptions about what is external

- SPDK: `process_completions` calls any number of the posted callbacks; a submission is
  refused when no request object is left or when its parameters are invalid; freeing a queue
  pair aborts what is in it.
- The trace ring loses only its oldest entries, and the time stamp counter never sets bit 63.
  `spdk_trace_record` may lose entries anywhere (`lossy`); then the parser pairs a completion
  with an earlier submission of its object, which the catcher cannot tell, and service times
  are upper bounds.
- A zoned device refuses what exceeds its limits on open and active zones, with an error
  completion and no effect; it executes a command at one moment. The driver refuses an append
  above the limit of the device and may refuse any command. `ZoneWorkload` has a more lenient
  device without the limit, so that `OpenWithinLimit` says what the program asks of it.
- A request for a buffer of no bytes returns no buffer (`ZoneDemo`, `NoBuffer`).
- The second that the applications sleep before they signal the recorder is long enough for
  it to have installed its handler (`TraceIo`, `Sleep`), unless a signal cuts it short.
- Process 1 ignores the SIGINT that `disable_spdk_trace_record` sends it after a failed fork.
- The ratios of `ZoneWorkload` have exact products, so that `float` rounds only the count.
- A device answers every command. Its error completions change nothing in the replayer and
  the generators, which only print them; in `NamespaceAdmin` and `ZoneDemo` they are a choice.

`RecorderStopped` speaks of applications that return. One that leaves by `exit(1)` inside its
load (a failed reset, no memory, a refused command) never reaches
`disable_spdk_trace_record` and leaves its recorder running; the model has that exit
(`Load`), and no text of the code promises otherwise.

## 5. Proofs

Eight modules prove, with TLAPS, for every value of the constants, what the runs check on
small instances.

| module | properties proved for all instances |
|---|---|
| `TraceReplayerProofs` | all of run `replay` but `Terminates`, with the refinement of `ReplayQueue`; also `FlightBounded`; `Variant`, `WaitAnswered` |
| `NamespaceAdminProofs` | all of run `namespace_admin` but `Terminates`, and two of their parts on their own; `Variant`, `WaitAnswered` |
| `TraceCatcherProofs` | `TypeOK`, `ServiceTimeExact`, `NothingDropped`, the refinement of `TraceFile` |
| `TraceAnalyzerProofs` | `TypeOK`, `SizesExact`, `LatencyExact`, `AverageBetween`, `InArrays`, `RoundsAgree`, and `EndsReleased`, the safety half of `Terminates`; `Variant` |
| `ZoneWorkloadProofs` | all of run `workload` but `Terminates`; `Variant`, `WaitAnswered` |
| `TraceIoProofs` | `TypeOK`, `EnabledExact`, and `RecorderDoomed`, the safety half of `RecorderStopped`; `Variant` |
| `ZoneDemoProofs` | `TypeOK`, `Registered`, `Synchronous`, and `EndsReleased`, the safety half of `Terminates`; `Variant`, `WaitAnswered` |
| `ZonedReplayProofs` | `ReplayedAsRecorded`, `AppendsNearby` |

Assumed is what the named assumptions on the constants say, which TLC evaluates in every
run: sizes are positive, traces and loads are sequences of entries of the stated kinds
(`MaxRequestsAssumption`, `ReplayerAssumption`, `AdminAssumption`, `AnalyzerAssumption`,
`TraceIoAssumption`, `ZoneDemoAssumption`). Five say more. `AnalyzerAssumption`: a mantissa
has at least 8 values. `CatcherAssumption`: a time stamp is less than half a word, because
the code takes bit 63 for a sign. `WorkloadAssumption`: the external device reports no more
open zones than it has zones. `BusesAssumption`: a bus has finitely many controllers, and
each finitely many active namespaces. `ZonedReplayAssumption`: a command's offset lies in
its zone, its address in two dwords, its block count fits in half a dword, action codes are
distinct and fit below the Select All bit, and only actions have that bit.

Each module has an inductive invariant `IInv` and one step per action.

**Replayer.** `OutstandingExact` is not inductive: that a poll lowers the counter by what it
reaps needs `inflight` and `cq` to be disjoint and finite, and that a submission raises it by
one needs the position not to be in flight yet. The invariant `IInv` adds

- `Cursor`: chunk, buffer and file positions add up to the trace;
- `Place`: what is allocated at each place in `main`;
- `Queues`: what is in flight are positions already consumed, at the device or in the
  completion queue but not both;
- `Counted`: the counter is the number of commands in flight;
- `Bounded`: that number is at most the depth, and at most what the chunk has consumed;
- `Passed`: `sent` is exactly the replayable positions consumed, `g_num_io` their number, and
  `heap` the commands in flight and the entries ignored;
- `ReplayedAll` and `NoRoomFailure` themselves.

`StepInv` has one step per action. `Refinement` shows that each step of the program is a
step of `ReplayQueue` or a stutter under `issued <- sent`, `flying <- Flying`,
`work <- Todo`: a submission is `Issue` because the consumed positions are a prefix of the
trace, a poll is `Retire`, the end of the file is `Complete`, all other exits are `Abort`.

**Namespace commands.** `IInv` is `TypeOK`, `OneTask` (at most one command, the one the stack
task describes, and the counter is their number), `Progress` (the loop variables agree:
`slba + remain_ns_blk` is the size of the namespace), and `Wiped` (everything before the
frontier is wiped once or lost, nothing behind it). The frontier depends on the place in the
code: a command moves it when its completion is polled, not when it is submitted.

**Catcher.** A completion is paired with its submission by the parser's `start`, while the
ring forgets entries at its other end and, if `lossy`, anywhere. `RingOrder` and `RingPairs`
say what a ring holds after any forgetting: between a completion and the entry it
answers there is nothing else of its object. `Carried` says the same of the commands not
completed yet, and makes the other two inductive. `Starts` makes `start` the last submission
before `pos`, `Base` makes `g_tsc_base` the first entry written; `Written`, `Kept`, `Ordered`
and `Counted` relate the file to the entries wanted. The bit-63 arithmetic drops out because
every difference is between two times of the ring.

**Analyzer.** The counts are compared with sums over sets of positions (`SumOver`, a fold).
The library's induction over sets takes an operator as a parameter and cannot be used; the
lemma `Minimal` (a family of finite sets has a minimal member) takes its place, and from it
follow what one more summand does to a sum, that sums are monotone, and the bounds of an
average. What each rounding to `float` may lose is bounded by `UnitBounded`, `NearestWithin`
and `FloatWithin`. `Cursor` says that no entry is skipped or read twice across chunks,
unless a read was short; `Latencies` keeps the sum in pieces (`PartialSums`); `Counters`
relates what round 2 counts per block and per zone to the histogram of round 1, modulo the
width of a counter. `Found` and `Fresh` carry the sizes and the zeroed state between passes.
That nothing is left allocated (`Held`) excludes traces of a single entry: half an entry is
no request, and `latency_avg` then frees no list; a trace with a completion has its
submission too.

**Load generators.** `AppendsFit` depends on an order nobody chooses: the device
executes what is outstanding in any order. `Fitting` charges a zone with the appends in
flight (`Reserved`), and `Quotas` says how much the loops have charged at each place
(`Quota`). `FinishAlone` and `Finishes` say that a finish command is the last one for its
zone and that the loops go on only when it is executed; `Position` and `Before` tie the loop
variables to the place. That at most `max_open` zones are partly written follows: only
zones of the current group are.

`BudgetsSpent` is an account of requests, `BInv`. `Served` is the number of requests the
loops have had an occasion for, `Closed` that of the zones they have finished; together they
are what is sent. `SeqBudget` adds, for the sequential load, that what is sent of each kind
and what is left of its budget make up the plan, and that there is an occasion for each
request left. `RandBudget` says the same per zone: `Share` is what a zone has had of the
budgets of its group, one more while the round has passed it. `Slots` places `lba` on a
multiple of the request size, and `Plan` and `Words` hold what `main` computed, in 32 bits.
`ToFloat` finds the distance of floats by a recursive function; that it exists and returns a
number, the number itself up to `Mantissa`, is `Floats`, by induction over numbers
(`Upward`, from the well-foundedness of finite sets). `SmallCounts` concludes that the
condition `Countable` holds of every count a `float` represents exactly, whatever the ratio.

**Recorder.** `Forked` ties the pids to the existence of the child, `Slept` says that the
second of `sleep` lets the recorder start before it is signalled unless a Ctrl-C cuts it
short; `RecorderDoomed` follows.

**demo and reset_zns.** `OneFlying` says that there is a command in flight only at a place
that waits for it, and which command (`Awaited`); `Stage` counts what was sent, `Ahead` lets
the device be one command ahead of what the program was told, and `Clean` keeps what the
reset established until the first request. `Registered` needs an induction over the set of
active namespaces, by `Minimal` again: `register_ns` inserts each of them, in ascending
order (`active` is the order in which SPDK reports them). `Leaving` says that `cleanup`
detaches exactly what is still listed.

**Replay on a device.** What the recorded program left, `Serial`, is a recursive function of
the load: its values are proved to exist and to be zones by induction over numbers (`Upward`,
from the well-foundedness of finite sets). `RoundTrip` shows that a command survives its 64
bytes. For `ReplayedAsRecorded` at depth 1 the executed commands are the first n and the
zones are `Serial[n]` (`InOrder`). At larger depths they are any set of the issued
commands; if order makes no difference, either all are the same action on all zones, or each
zone has gone through as many equal commands as were executed for it, which determines the
zone (`Agrees`, `Iterations`). For `AppendsNearby` the write pointer of a zone is the number
of blocks appended to it (`Filled`): of the commands before an append at most `depth - 1` are
issued and not executed, and its zone misses their blocks at most.

The attempt to prove `AppendsNearby` in an earlier form, where a load that fits is never
refused, failed: with one open zone allowed, six appends that fill zone 0 and then zone 1, at
depth 2, can be executed so that the first append to zone 1 comes before the one that fills,
and so closes, zone 0. It is refused, and the load leaves a block of zone 1
unwritten. The property now says when nothing is refused, and the run has this load.

**Termination up to fairness.** A program here can fail to end in two ways: by taking steps
for ever, or by waiting for what never comes. Both are safety properties, and proved.
`Variant` is a natural number (for the load generators six of them, compared
lexicographically: they have loops within loops) that falls with every step of the program
and of the device: steps left at this place, entries, blocks or requests not yet processed,
and what the device and the queue pair still owe. `WaitAnswered` says that a loop that polls
has a command in flight or a completion posted. The analyzer waits for nobody. In `TraceIo`
a process waits for its own `sleep` and for signals, and after a refused zone report for a
completion that cannot come: the copy is then left in `"hung"`, where it takes no step, and
`ApplicationEnds` admits that. So these two have only `Variant`. That a busy poll finds the
completion, and that a scheduled process moves, is what the fairness of section 4 adds; that
step is left to TLC.

**Only model-checked.** Liveness: `Terminates` of five modules, `ApplicationEnds` and
`RecorderStopped`, beyond the safety halves, the variants and the answered waits named above.
TLAPS 1.4.5 proves neither liveness under fairness nor `ENABLED`; and facts by induction over
data only where, as above, the induction can be stated with sets. Every other property of a
passing run is a theorem.

## 6. Not modelled

Option parsing, usage texts, printed layout, units (ticks to microseconds), buffers'
contents. The SPDK library, its trace parser and `spdk_trace_record` are represented by what
the programs need of them. The replayer on a conventional namespace is not composed with a
device: its commands name their blocks, so that only their order is at stake, which
`ReplayQueue` covers. `usage`,
`format_argname` and the naming of opcodes and statuses have no behaviour to check.
