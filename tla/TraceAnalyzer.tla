--------------------------- MODULE TraceAnalyzer ----------------------------
(***************************************************************************)
(* trace_analyzer/trace_analyzer.c: main() with its two passes over the    *)
(* trace.                                                                  *)
(*                                                                         *)
(* The file is read up to three times, in chunks of at most ENTRY_MAX      *)
(* entries: pass "print" (with -d), "round1" (latency, request sizes) and  *)
(* "round2" (accesses per block and per zone).  Between the first two the  *)
(* program attaches the device only to learn the sizes of its arrays.      *)
(*                                                                         *)
(* pc is "start", a pass, "attach" (before spdk_nvme_probe), "average"     *)
(* (before latency_avg and its report), "arrays" (before the arrays of     *)
(* round 2), "counts" (before they are printed), or final: "done",         *)
(* "failed", "crash" (killed by the undefined behaviour of its own code).  *)
(*                                                                         *)
(* "r" and "w" index what the code keeps in two variables, r_... and w_... *)
(***************************************************************************)
EXTENDS Float, Integers, Sequences, FiniteSets, FiniteSetsExt

CONSTANTS
    ENTRY_MAX,      \* entries of the chunk buffer (10000)
    Word16,         \* 2^16
    UINT64_MAX,
    Traces,         \* the files that may be given with -f
    Namespaces      \* the first namespace of the attached device

Reads == {"READ", "COMPARE"}
Writes == {"WRITE", "ZONE_APPEND", "WRITE_ZEROES"}
\* The opcodes the switch statements know but do not count.
Uncounted == {"FLUSH", "DATASET_MANAGEMENT", "COPY", "ZONE_MGMT_RECV", "ZONE_MGMT_SEND"}
Opcodes == Reads \cup Writes \cup Uncounted \cup {"OTHER"}

\* struct trace_io_entry.  nlb is the field of cdw12, one less than the number
\* of blocks; action tells whether the zone action of cdw13 has a name.
Entries == [tpoint : {"NVME_IO_SUBMIT", "NVME_IO_COMPLETE", "OTHER"}, opc : Opcodes,
            slba : Nat, nlb : 0 .. Word16 - 1, action : BOOLEAN,
            tsc_timestamp : 0 .. UINT64_MAX, tsc_sc_time : 0 .. UINT64_MAX]

ASSUME AnalyzerAssumption ==
    /\ ENTRY_MAX \in Nat \ {0}
    /\ Word16 \in Nat \ {0}
    /\ UINT64_MAX \in Nat \ {0}
    /\ Mantissa \in Nat /\ Mantissa >= 8
    /\ \A t \in Traces : t \in Seq(Entries)
    /\ Namespaces \subseteq [zoned : BOOLEAN, ncap : Nat, max_transfer : Nat \ {0},
                             zone_size : Nat \ {0}, zones : Nat]

VARIABLES
    trace,          \* the entries of the input file
    ns,             \* the first namespace
    g_print_trace,  \* -d was given
    pc,
    file,           \* fptr: "none", "open" or "closed"
    eof,            \* feof(fptr)
    pos,            \* entries read in this pass
    remain_entry,
    read_entry,     \* entries in the buffer
    i,              \* index of the loop over the buffer
    g_zone, g_ns_block, g_ns_zone, g_max_transfer_block,
    g_end_tsc,
    latency,        \* g_latency_sum: the partial sums of the list
    g_latency_tsc_min, g_latency_tsc_max, g_latency_tsc_avg,
    rw_cnt,         \* g_read_cnt and g_write_cnt
    iosize,         \* r_iosize and w_iosize
    blk,            \* r_blk and w_blk
    zone,           \* r_zone and w_zone
    heap,           \* the arrays allocated
    fault           \* history: what has gone wrong so far

inputVars == <<trace, ns, g_print_trace>>
cursorVars == <<eof, pos, remain_entry, read_entry, i>>
sizeVars == <<g_zone, g_ns_block, g_ns_zone, g_max_transfer_block>>
latencyVars == <<g_end_tsc, latency, g_latency_tsc_min, g_latency_tsc_max, g_latency_tsc_avg>>
round1Vars == <<latencyVars, rw_cnt, iosize>>
round2Vars == <<blk, zone>>
vars == <<inputVars, pc, file, cursorVars, sizeVars, round1Vars, round2Vars, heap, fault>>

Passes == {"print", "round1", "round2"}
Final == {"done", "failed", "crash"}
RW == {"r", "w"}
Zeroes(n) == [d \in RW |-> [k \in 0 .. n - 1 |-> 0]]

Init ==
    /\ trace \in Traces
    /\ ns \in Namespaces
    /\ g_print_trace \in BOOLEAN
    /\ pc = "start"
    /\ file = "none"
    /\ eof = FALSE
    /\ pos = 0 /\ remain_entry = 0 /\ read_entry = 0 /\ i = 0
    /\ g_zone = FALSE
    /\ g_ns_block = 0 /\ g_ns_zone = 0 /\ g_max_transfer_block = 0
    /\ g_end_tsc = 0
    /\ latency = <<>>
    /\ g_latency_tsc_min = 0 /\ g_latency_tsc_max = 0 /\ g_latency_tsc_avg = 0
    /\ rw_cnt = [d \in RW |-> 0]
    /\ iosize = Zeroes(0) /\ blk = Zeroes(0) /\ zone = Zeroes(0)
    /\ heap = {}
    /\ fault = {}
-----------------------------------------------------------------------------
(* The loop over chunks, the same in all three passes.                     *)

\* rewind(fptr), remain_entry = total_entry.
Rewind ==
    /\ eof' = FALSE
    /\ pos' = 0
    /\ remain_entry' = Len(trace)
    /\ read_entry' = 0
    /\ i' = 0

\* parse_args, spdk_env_init and fopen.
Start ==
    /\ pc = "start"
    /\ \/ /\ pc' = IF g_print_trace THEN "print" ELSE "attach"
          /\ file' = "open"
          /\ Rewind
       \/ pc' = "failed" /\ UNCHANGED <<file, cursorVars>>
    /\ UNCHANGED <<inputVars, sizeVars, round1Vars, round2Vars, heap, fault>>

InBuffer == pc \in Passes /\ i < read_entry
BufferDone == pc \in Passes /\ i = read_entry
buffer_entry == IF remain_entry > ENTRY_MAX THEN ENTRY_MAX ELSE remain_entry

\* A short read is only reported; the pass goes on with what it got, and ends
\* after it when the file has ended.
ReadChunk ==
    /\ BufferDone
    /\ ~eof
    /\ remain_entry > 0
    /\ remain_entry' = remain_entry - buffer_entry
    /\ i' = 0
    /\ \/ read_entry' = buffer_entry /\ UNCHANGED <<eof, fault>>
       \/ /\ read_entry' \in 0 .. buffer_entry - 1
          /\ eof' \in BOOLEAN
          /\ fault' = fault \cup {"short read"}
    /\ UNCHANGED <<inputVars, pc, file, pos, sizeVars, round1Vars, round2Vars, heap>>

\* buffer[i], and the step to the next entry.
d == trace[pos + 1]
NextEntry ==
    /\ pos' = pos + 1
    /\ i' = i + 1
    /\ UNCHANGED <<eof, remain_entry, read_entry>>

\* Mutant of EndOfPass: a second round that missed entries is repeated.
EndOfPassRetry ==
    /\ BufferDone
    /\ eof \/ remain_entry = 0
    /\ IF pc = "round2" /\ pos < Len(trace) THEN Rewind /\ pc' = pc
       ELSE /\ pc' = CASE pc = "print" -> "attach" [] pc = "round1" -> "average"
                        [] pc = "round2" -> "counts"
            /\ UNCHANGED cursorVars
    /\ file' = IF pc = "round2" THEN "closed" ELSE file
    /\ UNCHANGED <<inputVars, sizeVars, round1Vars, round2Vars, heap, fault>>

EndOfPass ==
    /\ BufferDone
    /\ eof \/ remain_entry = 0
    /\ pc' = CASE pc = "print" -> "attach" [] pc = "round1" -> "average"
                [] pc = "round2" -> "counts"
    /\ file' = IF pc = "round2" THEN "closed" ELSE file
    /\ UNCHANGED <<inputVars, cursorVars, sizeVars, round1Vars, round2Vars, heap, fault>>
-----------------------------------------------------------------------------
(* Pass "print".                                                           *)

\* process_print_trace: an entry with another tracepoint ends the program; a
\* zone action without a name is printed through an uninitialised pointer.
PrintEntry ==
    /\ pc = "print" /\ InBuffer
    /\ \/ d.tpoint # "OTHER" /\ pc' = pc /\ file' = file
       \/ d.tpoint = "OTHER" /\ pc' = "failed" /\ file' = "closed"
       \/ /\ d.tpoint = "NVME_IO_SUBMIT" /\ d.opc \in {"ZONE_MGMT_SEND", "ZONE_MGMT_RECV"}
          /\ ~d.action
          /\ pc' = "crash" /\ file' = file
    /\ NextEntry
    /\ UNCHANGED <<inputVars, sizeVars, round1Vars, round2Vars, heap, fault>>
-----------------------------------------------------------------------------
(* Between the passes.                                                     *)

\* Mutant of GetNsInfo: the two sizes are exchanged.
GetNsInfoSwapped ==
    IF ns.zoned
    THEN /\ g_zone' = TRUE
         /\ g_ns_block' = ns.zones
         /\ g_ns_zone' = ns.ncap
         /\ g_max_transfer_block' = ns.max_transfer
    ELSE UNCHANGED sizeVars

\* get_ns_info: a conventional namespace leaves the sizes at 0.
GetNsInfo ==
    IF ns.zoned
    THEN /\ g_zone' = TRUE
         /\ g_ns_block' = ns.ncap
         /\ g_ns_zone' = ns.zones
         /\ g_max_transfer_block' = ns.max_transfer
    ELSE UNCHANGED sizeVars

\* spdk_nvme_probe, get_ns_info, cleanup.  A failed probe and an empty list of
\* controllers are reported, but the first namespace is taken all the same.
Attach ==
    /\ pc = "attach"
    /\ \/ pc' = "sizes" /\ GetNsInfo
       \/ pc' = "crash" /\ UNCHANGED sizeVars
    /\ UNCHANGED <<inputVars, file, cursorVars, round1Vars, round2Vars, heap, fault>>

\* Mutant of AllocSizes: the file is not rewound before round 1.
AllocSizesNoRewind ==
    /\ pc = "sizes"
    /\ \/ /\ pc' = "round1"
          /\ heap' = {"iosize"}
          /\ iosize' = Zeroes(g_max_transfer_block)
       \/ pc' = "failed" /\ UNCHANGED <<heap, iosize>>
    /\ UNCHANGED <<inputVars, file, cursorVars, sizeVars, latencyVars, rw_cnt, round2Vars,
                   fault>>

AllocSizes ==
    /\ pc = "sizes"
    /\ \/ /\ pc' = "round1"
          /\ heap' = {"iosize"}
          /\ iosize' = Zeroes(g_max_transfer_block)
          /\ Rewind
       \/ pc' = "failed" /\ UNCHANGED <<heap, iosize, cursorVars>>
    /\ UNCHANGED <<inputVars, file, sizeVars, latencyVars, rw_cnt, round2Vars, fault>>
-----------------------------------------------------------------------------
(* Pass "round1".                                                          *)

Direction == IF d.opc \in Reads THEN "r" ELSE "w"
Counted == d.opc \in Reads \cup Writes

\* An increment behind the end of an array: the process may be killed.
Outside ==
    /\ fault' = fault \cup {"outside"}
    /\ pc' \in {pc, "crash"}

\* iosize_rw_counter; an opcode it does not know ends the program.
Round1Submit ==
    /\ pc = "round1" /\ InBuffer
    /\ d.tpoint = "NVME_IO_SUBMIT"
    /\ IF Counted THEN rw_cnt' = [rw_cnt EXCEPT ![Direction] = @ + 1] ELSE UNCHANGED rw_cnt
    /\ \/ /\ Counted /\ d.nlb < g_max_transfer_block
          /\ iosize' = [iosize EXCEPT ![Direction][d.nlb] = @ + 1]
          /\ UNCHANGED <<pc, file, heap, fault>>
       \/ /\ Counted /\ d.nlb >= g_max_transfer_block
          /\ Outside
          /\ UNCHANGED <<iosize, file, heap>>
       \/ /\ d.opc \in Uncounted
          /\ UNCHANGED <<pc, iosize, file, heap, fault>>
       \/ /\ d.opc = "OTHER"
          /\ pc' = "failed" /\ file' = "closed" /\ heap' = {}
          /\ UNCHANGED <<iosize, fault>>
    /\ NextEntry
    /\ UNCHANGED <<inputVars, sizeVars, latencyVars, round2Vars>>

\* Mutant of latency_min_max: the first time is not taken as minimum.
latency_min_max_unset(t) ==
    /\ g_latency_tsc_max' = IF t > g_latency_tsc_max THEN t ELSE g_latency_tsc_max
    /\ g_latency_tsc_min' = IF t < g_latency_tsc_min THEN t ELSE g_latency_tsc_min

\* latency_min_max: 0 stands for no minimum yet.
latency_min_max(t) ==
    /\ g_latency_tsc_max' = IF t > g_latency_tsc_max THEN t ELSE g_latency_tsc_max
    /\ g_latency_tsc_min' =
           IF g_latency_tsc_min = 0 \/ t < g_latency_tsc_min THEN t ELSE g_latency_tsc_min

\* latency_total: a sum that would reach UINT64_MAX starts a new node, whose
\* value is not initialised.  A failed malloc leaves the list empty.
latency_total(t) ==
    LET sums == IF latency = <<>> THEN <<0>> ELSE latency
        last == Len(sums)
    IN \/ /\ t < UINT64_MAX - sums[last]
          /\ latency' = [sums EXCEPT ![last] = @ + t]
          /\ UNCHANGED fault
       \/ /\ t >= UINT64_MAX - sums[last]
          /\ \E val \in 0 .. UINT64_MAX : latency' = Append(sums, val)
          /\ UNCHANGED fault
       \/ /\ latency = <<>> \/ t >= UINT64_MAX - sums[last]
          /\ latency' = <<>>
          /\ fault' = fault \cup {"no memory"}

\* The value returned for a completion is not initialised; if it is not 0 the
\* program ends.
UndefinedRc ==
    \/ UNCHANGED <<pc, file, heap>>
    \/ pc' = "failed" /\ file' = "closed" /\ heap' = {}

Round1Complete ==
    /\ pc = "round1" /\ InBuffer
    /\ d.tpoint = "NVME_IO_COMPLETE"
    /\ g_end_tsc' = d.tsc_timestamp
    /\ latency_min_max(d.tsc_sc_time)
    /\ latency_total(d.tsc_sc_time)
    /\ UndefinedRc
    /\ NextEntry
    /\ UNCHANGED <<inputVars, sizeVars, g_latency_tsc_avg, rw_cnt, iosize, round2Vars>>

Round1Other ==
    /\ pc = "round1" /\ InBuffer
    /\ d.tpoint = "OTHER"
    /\ UndefinedRc
    /\ NextEntry
    /\ UNCHANGED <<inputVars, sizeVars, round1Vars, round2Vars, fault>>

\* Mutant of g_req_num: the entries are not halved.
g_req_num_entries == Len(trace)
g_req_num == Len(trace) \div 2

\* A sum of the list is divided as a float by half the number of entries, and added
\* as a float to the integer of the sums before.  The fractions of the two floats
\* are counted in parts of one, more of them than a float distinguishes.
Parts == Mantissa * Mantissa
AddQuotient(avg, val) ==
    LET quotient == Nearest[<<Parts * ToFloat(val), ToFloat(g_req_num)>>]
    IN ToFloat(Parts * ToFloat(avg) + quotient) \div Parts

Averages ==
    LET avg[n \in 0 .. Len(latency)] ==
            IF n = 0 THEN g_latency_tsc_avg ELSE AddQuotient(avg[n - 1], latency[n])
    IN avg[Len(latency)]

\* latency_avg, the report of round 1, and the release of its arrays.  A float
\* beyond 64 bits has no defined conversion.
Average ==
    /\ pc = "average"
    /\ pc' = "arrays"
    /\ heap' = {}
    /\ IF g_req_num = 0 \/ latency = <<>>
       THEN UNCHANGED <<latency, g_latency_tsc_avg>>
       ELSE /\ g_latency_tsc_avg' \in IF Averages \in 0 .. UINT64_MAX
                                      THEN {Averages} ELSE 0 .. UINT64_MAX
            /\ latency' = <<>>
    /\ UNCHANGED <<inputVars, file, cursorVars, sizeVars, g_end_tsc, g_latency_tsc_min,
                   g_latency_tsc_max, rw_cnt, iosize, round2Vars, fault>>
-----------------------------------------------------------------------------
(* Pass "round2".                                                          *)

\* The failure of the last malloc is tested on the wrong variable: the array is
\* cleared at address NULL, which matters unless it is empty.
AllocArrays ==
    /\ pc = "arrays"
    /\ \/ /\ pc' = "round2"
          /\ heap' = {"blk", "zone"}
          /\ blk' = Zeroes(g_ns_block)
          /\ zone' = Zeroes(g_ns_zone)
          /\ Rewind
       \/ pc' = "failed" /\ UNCHANGED <<heap, round2Vars, cursorVars>>
       \/ g_ns_zone > 0 /\ pc' = "crash" /\ UNCHANGED <<heap, round2Vars, cursorVars>>
    /\ UNCHANGED <<inputVars, file, sizeVars, round1Vars, fault>>

\* Mutant of Blocks: nlb is taken as the number of blocks.
BlocksFromZero == d.slba .. d.slba + d.nlb - 1
\* nlb is handed over as uint16_t.
Blocks == d.slba .. d.slba + ((d.nlb + 1) % Word16) - 1
HasBlocks == d.opc \notin {"DATASET_MANAGEMENT", "ZONE_MGMT_RECV", "ZONE_MGMT_SEND", "COPY"}
zidx == d.slba \div ns.zone_size

\* Mutant of block_counter: the counters have no width.
block_counter_wide ==
    blk' = [blk EXCEPT ![Direction] =
               [b \in DOMAIN @ |-> IF b \in Blocks THEN @[b] + 1 ELSE @[b]]]
\* block_counter and zone_counter: the counters are uint16_t.
block_counter ==
    blk' = [blk EXCEPT ![Direction] =
               [b \in DOMAIN @ |-> IF b \in Blocks THEN (@[b] + 1) % Word16 ELSE @[b]]]
zone_counter ==
    IF g_zone /\ zidx < g_ns_zone
    THEN zone' = [zone EXCEPT ![Direction][zidx] = (@ + 1) % Word16]
    ELSE UNCHANGED zone

\* The block or the zone has no counter.
Uncountable == (\E b \in Blocks : b >= g_ns_block) \/ (g_zone /\ zidx >= g_ns_zone)

Round2Count ==
    /\ pc = "round2" /\ InBuffer
    /\ d.tpoint = "NVME_IO_SUBMIT" /\ Counted
    /\ block_counter
    /\ zone_counter
    /\ IF Uncountable THEN Outside ELSE UNCHANGED <<pc, fault>>
    /\ NextEntry
    /\ UNCHANGED <<inputVars, file, sizeVars, round1Vars, heap>>

\* The commands that touch no counter; rc is set by the functions only.
Round2Pass ==
    /\ pc = "round2" /\ InBuffer
    /\ ~(d.tpoint = "NVME_IO_SUBMIT" /\ (Counted \/ d.opc = "OTHER"))
    /\ \/ /\ d.tpoint = "NVME_IO_SUBMIT"
          /\ d.opc # "DATASET_MANAGEMENT" /\ (HasBlocks \/ g_zone)
          /\ UNCHANGED <<pc, file, heap>>
       \/ /\ d.tpoint = "NVME_IO_SUBMIT" =>
                 d.opc = "DATASET_MANAGEMENT" \/ ~(HasBlocks \/ g_zone)
          /\ UndefinedRc
    /\ NextEntry
    /\ UNCHANGED <<inputVars, sizeVars, round1Vars, round2Vars, fault>>

\* An unknown opcode has already ended round 1, unless round 1 did not see it.
Round2Unknown ==
    /\ pc = "round2" /\ InBuffer
    /\ d.tpoint = "NVME_IO_SUBMIT" /\ d.opc = "OTHER"
    /\ pc' = "failed" /\ file' = "closed" /\ heap' = {}
    /\ NextEntry
    /\ UNCHANGED <<inputVars, sizeVars, round1Vars, round2Vars, fault>>

\* The counts are printed (-b, -z) and everything is released.
PrintCounts ==
    /\ pc = "counts"
    /\ pc' = "done"
    /\ heap' = {}
    /\ UNCHANGED <<inputVars, file, cursorVars, sizeVars, round1Vars, round2Vars, fault>>
-----------------------------------------------------------------------------
Terminated == pc \in Final /\ UNCHANGED vars

Main ==
    \/ Start \/ ReadChunk \/ EndOfPass
    \/ PrintEntry
    \/ Attach \/ AllocSizes
    \/ Round1Submit \/ Round1Complete \/ Round1Other
    \/ Average \/ AllocArrays
    \/ Round2Count \/ Round2Pass \/ Round2Unknown
    \/ PrintCounts

Next == Main \/ Terminated

Spec == Init /\ [][Next]_vars

\* One thread, which never waits for another.
FairSpec == Spec /\ WF_vars(Main)
-----------------------------------------------------------------------------
(* Properties.                                                             *)

TypeOK ==
    /\ trace \in Seq(Entries)
    /\ ns \in Namespaces
    /\ g_print_trace \in BOOLEAN
    /\ pc \in {"start", "attach", "sizes", "average", "arrays", "counts"}
                \cup Passes \cup Final
    /\ file \in {"none", "open", "closed"}
    /\ eof \in BOOLEAN
    /\ remain_entry \in 0 .. Len(trace)
    /\ read_entry \in 0 .. ENTRY_MAX
    /\ i \in 0 .. read_entry
    /\ pos \in 0 .. Len(trace)
    /\ g_zone \in BOOLEAN
    /\ g_ns_block \in Nat /\ g_ns_zone \in Nat /\ g_max_transfer_block \in Nat
    /\ g_end_tsc \in 0 .. UINT64_MAX
    /\ latency \in Seq(0 .. UINT64_MAX)
    /\ g_latency_tsc_min \in 0 .. UINT64_MAX
    /\ g_latency_tsc_max \in 0 .. UINT64_MAX
    /\ g_latency_tsc_avg \in 0 .. UINT64_MAX
    /\ rw_cnt \in [RW -> Nat]
    /\ \A rw \in RW :
           /\ iosize[rw] \in [DOMAIN iosize[rw] -> Nat]
           /\ blk[rw] \in [DOMAIN blk[rw] -> 0 .. Word16 - 1]
           /\ zone[rw] \in [DOMAIN zone[rw] -> 0 .. Word16 - 1]
    /\ heap \subseteq {"iosize", "blk", "zone"}
    /\ fault \subseteq {"short read", "outside", "no memory"}

\* Entries of the trace, up to the n-th.
Completions(n) == {k \in 1 .. n : trace[k].tpoint = "NVME_IO_COMPLETE"}
Submissions(n) == {k \in 1 .. n : trace[k].tpoint = "NVME_IO_SUBMIT"}
Moved(n, rw) ==
    {k \in Submissions(n) : trace[k].opc \in IF rw = "r" THEN Reads ELSE Writes}
Time(k) == trace[k].tsc_sc_time
TimeSum(n) == MapThenSumSet(Time, Completions(n))

\* pos is the position of round 1.
Round1 == pc \in {"round1", "average", "arrays"}

\* The histogram of request sizes and the numbers of reads and writes are those
\* of the entries read, however the reads were cut into chunks, and agree with
\* each other: no request is in one and not in the other.
SizesExact ==
    Round1 /\ "outside" \notin fault => \A rw \in RW :
        /\ rw_cnt[rw] = Cardinality(Moved(pos, rw))
        /\ \A n \in DOMAIN iosize[rw] :
              iosize[rw][n] = Cardinality({k \in Moved(pos, rw) : trace[k].nlb = n})

\* Minimum, maximum and sum of the service times are those of the completions
\* read, although 0 stands for "no minimum yet" and the sum is kept in pieces:
\* unless a service time is 0, memory was short or the sum left 64 bits.
LatencyExact ==
    Round1 /\ Completions(pos) # {} =>
        /\ \A k \in Completions(pos) : Time(k) <= g_latency_tsc_max
        /\ \E k \in Completions(pos) : Time(k) = g_latency_tsc_max
        /\ (\A k \in Completions(pos) : Time(k) # 0) =>
              /\ \A k \in Completions(pos) : Time(k) >= g_latency_tsc_min
              /\ \E k \in Completions(pos) : Time(k) = g_latency_tsc_min
        /\ "no memory" \notin fault /\ Len(latency) = 1 => latency[1] = TimeSum(pos)

\* When every submission of the trace has its completion, the division by half
\* the number of entries (g_req_num, l. 779) is a division by the number of
\* completions, and the average lies between minimum and maximum up to what is
\* lost on the way: the sum, the number, their quotient and the average are
\* rounded to float, each by one part in Mantissa, and the average is cut to an
\* integer.  It need not lie between them: one service time of 2^24 + 1 has the
\* average 2^24.
AverageBetween ==
    LET more == Mantissa + 1
        less == Mantissa - 1
    IN  pc = "arrays" /\ fault = {}
        /\ TimeSum(Len(trace)) < UINT64_MAX /\ 2 * g_latency_tsc_max <= UINT64_MAX
        /\ Cardinality(Submissions(Len(trace))) = Cardinality(Completions(Len(trace)))
        /\ Len(trace) = 2 * Cardinality(Submissions(Len(trace)))
        /\ (\A k \in Completions(pos) : Time(k) # 0)
      => /\ g_latency_tsc_avg * Parts * less <= g_latency_tsc_max * more * more * more
         /\ (g_latency_tsc_avg + 1) * Parts * more > g_latency_tsc_min * less * less * less

Total(f, weight(_)) == MapThenSumSet(LAMBDA n : f[n] * weight(n), DOMAIN f)

\* The two rounds read the file separately and count differently, by size and by
\* place, yet describe the same commands: per direction the zone counters add up
\* to the requests of the histogram and the block counters to their blocks, up
\* to the width of the counters.
RoundsAgree ==
    pc \in {"counts", "done"} /\ g_zone /\ fault = {} => \A rw \in RW :
        /\ Total(zone[rw], LAMBDA n : 1) % Word16 = Total(iosize[rw], LAMBDA n : 1) % Word16
        /\ Total(blk[rw], LAMBDA n : 1) % Word16 =
              Total(iosize[rw], LAMBDA n : n + 1) % Word16

\* The entry is a command the namespace and the driver can have seen.
Fits(e) ==
    e.opc \in Reads \cup Writes =>
        /\ e.nlb < ns.max_transfer
        /\ e.slba + e.nlb < ns.ncap
        /\ e.slba \div ns.zone_size < ns.zones

\* On a zoned namespace no count falls outside its array, for every trace that
\* was recorded on a namespace of that size.
InArrays ==
    "outside" \in fault => ~ns.zoned \/ \E k \in Submissions(Len(trace)) : ~Fits(trace[k])

\* Every array and, once the average has been taken, every node of the latency
\* list is freed.
Released == heap = {} /\ (pc = "done" => latency = <<>>)

\* Every pass ends, also when reads fail, and the program returns with nothing
\* allocated, whatever fails and in whichever pass.
Terminates == <>(pc \in Final /\ (pc # "crash" => Released))
=============================================================================
