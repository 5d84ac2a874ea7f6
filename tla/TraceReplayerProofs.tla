------------------------ MODULE TraceReplayerProofs ------------------------
(***************************************************************************)
(* Proofs about TraceReplayer, for every trace, chunk size, queue depth    *)
(* and queue pair size.                                                    *)
(*                                                                         *)
(* The invariant IInv below is inductive.  Its parts say where the thread  *)
(* is relative to the file (Cursor), to the queue pair (Place) and to the  *)
(* device (Queues), that the counter is exact (Counted) and bounded        *)
(* (Bounded), and what the passed entries have become (Passed).            *)
(***************************************************************************)
EXTENDS TraceReplayer, FiniteSetTheorems, TLAPS

Starting == {"start", "alloc", "reset", "open"}
Looping == {"chunk", "entry", "drain"}

\* The replay has not ended, or its loop has and the queue pair is still held.
Live == ended = "running" \/ Replaying

Cursor ==
    /\ remain_entry + read_entry <= Len(trace)
    /\ pc \in Starting => remain_entry = Len(trace) /\ read_entry = 0
    /\ pc \in {"chunk", "drain"} => i = read_entry
    /\ ended = "running" <=> pc \in Starting \cup Looping
    /\ ended = "running" => rc = "ok"

Place ==
    /\ pc \in {"start", "alloc"} => qpair = "none"
    /\ pc \in {"reset", "open"} \cup Looping => qpair = "live" /\ g_queue_depth > 0
    /\ pc \in {"report", "exit"} => qpair # "live"
    /\ ended = "complete" /\ pc = "finish" => qpair = "live"

\* Only commands for entries of the current chunk are in flight.
Queues ==
    /\ inflight \cap cq = {}
    /\ \A k \in Flying : Replayable(k)
    /\ Flying \subseteq Consumed - i + 1 .. Consumed
    /\ pc \notin {"entry", "drain", "failed", "crash"} => Flying = {}

Counted == Live => outstanding_commands = Cardinality(Flying)

Bounded == Cardinality(Flying) <= EffectiveDepth

Passed ==
    /\ ended = "running" =>
        /\ sent = {k \in 1 .. Consumed : Replayable(k)}
        /\ g_num_io = Cardinality(sent)
    /\ Live => heap = Flying \cup {k \in 1 .. Consumed : Ignored(k)}

IInv ==
    /\ TypeOK
    /\ Cursor
    /\ Place
    /\ Queues
    /\ Counted
    /\ Bounded
    /\ Passed
    /\ ReplayedAll
    /\ NoRoomFailure

-----------------------------------------------------------------------------
(* Facts about the operators.                                              *)

\* The classification of the entries depends on the input only.
LEMMA InputFixed ==
    ASSUME UNCHANGED <<trace, g_zone>>
    PROVE  /\ Positions' = Positions
           /\ Todo' = Todo
           /\ \A k : Replayable(k)' <=> Replayable(k)
           /\ \A k : Ignored(k)' <=> Ignored(k)
BY DEF Positions, Todo, Replayable, Ignored

\* An entry that is no completion record is replayable or ignored, not both.
LEMMA Classified ==
    ASSUME NEW k
    PROVE  /\ Replayable(k) => ~Ignored(k)
           /\ trace[k].tpoint # "NVME_IO_COMPLETE" => Replayable(k) \/ Ignored(k)
           /\ trace[k].tpoint = "NVME_IO_COMPLETE" => ~Replayable(k) /\ ~Ignored(k)
BY DEF Replayable, Ignored

\* Where the loops are, as numbers.
LEMMA Located ==
    ASSUME TypeOK, Cursor
    PROVE  /\ Len(trace) \in Nat
           /\ Consumed \in Nat
           /\ Consumed - i \in Nat
           /\ Consumed <= Len(trace)
           /\ EffectiveDepth \in Nat \ {0}
           /\ AtEntry => Current \in Positions /\ Current \notin 1 .. Consumed
BY ReplayerAssumption
DEF TypeOK, Cursor, Consumed, Current, Positions, AtEntry, EffectiveDepth

\* What is in flight is a finite set, no larger than the passed part of the
\* chunk.
LEMMA FlightFinite ==
    ASSUME TypeOK, Cursor, Queues
    PROVE  /\ IsFiniteSet(Flying)
           /\ Cardinality(Flying) \in Nat
           /\ Cardinality(Flying) <= i
<1>1. Consumed \in Nat /\ Consumed - i + 1 \in Nat /\ i \in Nat
  BY Located DEF TypeOK
<1> DEFINE C == Consumed - i + 1 .. Consumed
<1>2. IsFiniteSet(C) /\ Cardinality(C) = i
  BY <1>1, FS_Interval
<1>3. Flying \in SUBSET C
  BY DEF Queues
<1>4. IsFiniteSet(Flying) /\ Cardinality(Flying) <= Cardinality(C)
  BY <1>2, <1>3, FS_Subset
<1>5. Cardinality(Flying) \in Nat
  BY <1>4, FS_CardinalityType
<1> QED BY <1>2, <1>4, <1>5

\* A poll retires exactly the completions it finds.
LEMMA PollCounts ==
    ASSUME TypeOK, Cursor, Queues, NEW S \in SUBSET cq, Reap(S)
    PROVE  /\ Flying' = Flying \ S
           /\ Cardinality(S) \in Nat
           /\ Cardinality(S) <= Cardinality(Flying)
           /\ Cardinality(Flying') = Cardinality(Flying) - Cardinality(S)
<1>1. IsFiniteSet(Flying) /\ Cardinality(Flying) \in Nat
  BY FlightFinite
<1>2. Flying' = Flying \ S
  BY DEF Flying, Reap, Queues
<1>3. S \in SUBSET Flying
  BY DEF Flying
<1>4. IsFiniteSet(S) /\ Cardinality(S) <= Cardinality(Flying)
  BY <1>1, <1>3, FS_Subset
<1>5. Cardinality(S) \in Nat
  BY <1>4, FS_CardinalityType
<1>6. Flying \cap S = S
  BY <1>3
<1>7. Cardinality(Flying \ S) = Cardinality(Flying) - Cardinality(Flying \cap S)
  BY <1>1, FS_Difference
<1> QED BY <1>2, <1>4, <1>5, <1>6, <1>7

\* A submission adds one command, which is new.
LEMMA SubmitCounts ==
    ASSUME TypeOK, Cursor, Queues, AtEntry, Accept(Current)
    PROVE  /\ Current \notin Flying
           /\ Flying' = Flying \cup {Current}
           /\ Cardinality(Flying') = Cardinality(Flying) + 1
<1>1. Current \notin Flying
  BY Located DEF Queues, AtEntry, Current
<1>2. Flying' = Flying \cup {Current}
  BY DEF Accept, Flying
<1>3. IsFiniteSet(Flying)
  BY FlightFinite
<1> QED BY <1>1, <1>2, <1>3, FS_AddElement
-----------------------------------------------------------------------------
(* The invariant holds initially and every step preserves it.              *)

\* The inductive invariant holds before main runs.
LEMMA InitInv == Init => IInv
<1> SUFFICES ASSUME Init PROVE IInv
  OBVIOUS
<1>1. Flying = {} /\ Cardinality(Flying) = 0
  BY FS_EmptySet DEF Init, QpairInit, Flying
<1>2. trace \in Seq(Entries) /\ Len(trace) \in Nat
  BY ReplayerAssumption DEF Init
<1>3. TypeOK
  <2>1. QpairTypeOK(Positions)
    BY DEF Init, QpairInit, QpairTypeOK
  <2>2. g_queue_depth \in Nat /\ read_entry \in 0 .. ENTRY_MAX
    BY ReplayerAssumption DEF Init
  <2>3. remain_entry \in 0 .. Len(trace) /\ i \in 0 .. read_entry
    BY <1>2 DEF Init
  <2>4. g_zone \in BOOLEAN /\ g_report_zone \in BOOLEAN /\ attached \in BOOLEAN
    BY DEF Init
  <2> QED BY <1>2, <2>1, <2>2, <2>3, <2>4 DEF Init, TypeOK, Final
<1>4. Consumed = 0
  BY <1>2 DEF Init, Consumed
<1>5. Cursor /\ Place
  BY <1>2 DEF Init, QpairInit, Cursor, Place, Starting, Looping
<1>6. Queues /\ Counted
  BY <1>1 DEF Init, QpairInit, Queues, Counted
<1>7. Bounded
  BY <1>1, <1>3, <1>5, Located DEF Bounded
<1>8. Passed
  BY <1>1, <1>4, FS_EmptySet DEF Init, Passed
<1>9. ReplayedAll /\ NoRoomFailure
  BY DEF Init, ReplayedAll, NoRoomFailure
<1> QED BY <1>3, <1>5, <1>6, <1>7, <1>8, <1>9 DEF IInv

\* The trace and the kind of the device never change.
LEMMA InputUnchanged == [Next]_vars => UNCHANGED <<trace, g_zone>>
BY
DEF Next, vars, inputVars, Main, Device, Terminated, Probe, AllocQpair, ResetNs, OpenTrace,
       ReadChunk, ReadShort, ReadDone, SkipComplete, WaitForRoom, NoMemory, Ignore, Submit,
       Refuse, EntriesDone, Drain, Drained, Finish, Report, Exit

\* Every step of the program and of the device keeps the invariant.
LEMMA StepInv == IInv /\ [Next]_vars => IInv'
<1> SUFFICES ASSUME IInv, [Next]_vars PROVE IInv'
  OBVIOUS
<1> USE DEF inputVars, loopVars, ioVars, qpairVars, Starting, Looping
<1>i. /\ TypeOK /\ Cursor /\ Place /\ Queues /\ Counted /\ Bounded /\ Passed
      /\ ReplayedAll /\ NoRoomFailure
  BY DEF IInv
<1>t. UNCHANGED <<trace, g_zone>>
  BY InputUnchanged
<1>p. /\ Positions' = Positions
      /\ Todo' = Todo
      /\ \A k : Replayable(k)' <=> Replayable(k)
      /\ \A k : Ignored(k)' <=> Ignored(k)
  BY <1>t, InputFixed
<1>l. /\ Len(trace) \in Nat
      /\ Consumed \in Nat
      /\ Consumed - i \in Nat
      /\ EffectiveDepth \in Nat \ {0}
  BY <1>i, Located
<1>c. IsFiniteSet(Flying) /\ Cardinality(Flying) \in Nat /\ Cardinality(Flying) <= i
  BY <1>i, FlightFinite
<1>1. CASE Probe
  <2>1. Flying' = Flying /\ EffectiveDepth' = EffectiveDepth
    BY <1>1, <1>l DEF Probe, Flying, EffectiveDepth
  <2>2. Consumed' = Consumed
    BY <1>1, <1>i, <1>l, ReplayerAssumption DEF Probe, Consumed, Cursor, TypeOK
  <2>3. TypeOK'
    BY <1>1, <1>i, <1>p, <1>l, ReplayerAssumption
    DEF Probe, TypeOK, QpairTypeOK, Final, Cursor
  <2>4. Cursor' /\ Place'
    BY <1>1, <1>i, <1>l, ReplayerAssumption DEF Probe, Cursor, Place, TypeOK
  <2>5. Queues' /\ Counted' /\ Bounded'
    BY <1>p, <1>1, <1>i, <1>l, <1>c, <2>1, <2>2
    DEF Probe, Queues, Counted, Bounded, Live, Replaying, Cursor, Place
  <2>6. Passed'
    BY <1>1, <1>i, <1>p, <2>1, <2>2 DEF Probe, Passed, Live, Replaying, Cursor, Place
  <2>7. ReplayedAll' /\ NoRoomFailure'
    BY <1>1, <1>i, <1>p, <2>1 DEF Probe, ReplayedAll, NoRoomFailure, Cursor
  <2> QED BY <2>3, <2>4, <2>5, <2>6, <2>7 DEF IInv
<1>2. CASE AllocQpair
  <2>1. Flying' = Flying /\ EffectiveDepth' = EffectiveDepth
    BY <1>2, <1>l DEF AllocQpair, Flying, EffectiveDepth, AllocIoQpair
  <2>2. Consumed' = Consumed
    BY <1>2, <1>i, <1>l, ReplayerAssumption DEF AllocQpair, Consumed, Cursor, TypeOK
  <2>3. TypeOK'
    BY <1>2, <1>i, <1>p, <1>l, ReplayerAssumption
    DEF AllocQpair, TypeOK, QpairTypeOK, Final, Cursor, AllocIoQpair
  <2>4. Cursor' /\ Place'
    BY <1>2, <1>i, <1>l, ReplayerAssumption
    DEF AllocQpair, Cursor, Place, TypeOK, AllocIoQpair
  <2>5. Queues' /\ Counted' /\ Bounded'
    BY <1>p, <1>2, <1>i, <1>l, <1>c, <2>1, <2>2
    DEF AllocQpair, Queues, Counted, Bounded, Live, Replaying, Cursor, Place, AllocIoQpair
  <2>6. Passed'
    BY <1>2, <1>i, <1>p, <2>1, <2>2
    DEF AllocQpair, Passed, Live, Replaying, Cursor, Place, AllocIoQpair
  <2>7. ReplayedAll' /\ NoRoomFailure'
    BY <1>2, <1>i, <1>p, <2>1
    DEF AllocQpair, ReplayedAll, NoRoomFailure, Cursor, AllocIoQpair
  <2> QED BY <2>3, <2>4, <2>5, <2>6, <2>7 DEF IInv
<1>3. CASE ResetNs
  <2>1. Flying' = Flying /\ EffectiveDepth' = EffectiveDepth
    BY <1>3, <1>l DEF ResetNs, Flying, EffectiveDepth
  <2>2. Consumed' = Consumed
    BY <1>3, <1>i, <1>l, ReplayerAssumption DEF ResetNs, Consumed, Cursor, TypeOK
  <2>3. TypeOK'
    BY <1>3, <1>i, <1>p, <1>l, ReplayerAssumption
    DEF ResetNs, TypeOK, QpairTypeOK, Final, Cursor
  <2>4. Cursor' /\ Place'
    BY <1>3, <1>i, <1>l, ReplayerAssumption DEF ResetNs, Cursor, Place, TypeOK
  <2>5. Queues' /\ Counted' /\ Bounded'
    BY <1>p, <1>3, <1>i, <1>l, <1>c, <2>1, <2>2
    DEF ResetNs, Queues, Counted, Bounded, Live, Replaying, Cursor, Place
  <2>6. Passed'
    BY <1>3, <1>i, <1>p, <2>1, <2>2 DEF ResetNs, Passed, Live, Replaying, Cursor, Place
  <2>7. ReplayedAll' /\ NoRoomFailure'
    BY <1>3, <1>i, <1>p, <2>1 DEF ResetNs, ReplayedAll, NoRoomFailure, Cursor
  <2> QED BY <2>3, <2>4, <2>5, <2>6, <2>7 DEF IInv
<1>4. CASE OpenTrace
  <2>1. Flying' = Flying /\ EffectiveDepth' = EffectiveDepth
    BY <1>4, <1>l DEF OpenTrace, Flying, EffectiveDepth
  <2>2. Consumed' = Consumed
    BY <1>4, <1>i, <1>l, ReplayerAssumption DEF OpenTrace, Consumed, Cursor, TypeOK
  <2>3. TypeOK'
    BY <1>4, <1>i, <1>p, <1>l, ReplayerAssumption
    DEF OpenTrace, TypeOK, QpairTypeOK, Final, Cursor
  <2>4. Cursor' /\ Place'
    BY <1>4, <1>i, <1>l, ReplayerAssumption DEF OpenTrace, Cursor, Place, TypeOK
  <2>5. Queues' /\ Counted' /\ Bounded'
    BY <1>p, <1>4, <1>i, <1>l, <1>c, <2>1, <2>2
    DEF OpenTrace, Queues, Counted, Bounded, Live, Replaying, Cursor, Place
  <2>6. Passed'
    BY <1>4, <1>i, <1>p, <2>1, <2>2 DEF OpenTrace, Passed, Live, Replaying, Cursor, Place
  <2>7. ReplayedAll' /\ NoRoomFailure'
    BY <1>4, <1>i, <1>p, <2>1 DEF OpenTrace, ReplayedAll, NoRoomFailure, Cursor
  <2> QED BY <2>3, <2>4, <2>5, <2>6, <2>7 DEF IInv
<1>5. CASE ReadChunk
  <2>1. Flying' = Flying /\ EffectiveDepth' = EffectiveDepth
    BY <1>5, <1>l DEF ReadChunk, Flying, EffectiveDepth, buffer_entry
  <2>2. Consumed' = Consumed
    BY <1>5, <1>i, <1>l, ReplayerAssumption
    DEF ReadChunk, Consumed, Cursor, TypeOK, buffer_entry
  <2>3. TypeOK'
    BY <1>5, <1>i, <1>p, <1>l, ReplayerAssumption
    DEF ReadChunk, TypeOK, QpairTypeOK, Final, Cursor, buffer_entry
  <2>4. Cursor' /\ Place'
    BY <1>5, <1>i, <1>l, ReplayerAssumption
    DEF ReadChunk, Cursor, Place, TypeOK, buffer_entry
  <2>5. Queues' /\ Counted' /\ Bounded'
    BY <1>p, <1>5, <1>i, <1>l, <1>c, <2>1, <2>2
    DEF ReadChunk, Queues, Counted, Bounded, Live, Replaying, Cursor, Place, buffer_entry
  <2>6. Passed'
    BY <1>5, <1>i, <1>p, <2>1, <2>2
    DEF ReadChunk, Passed, Live, Replaying, Cursor, Place, buffer_entry
  <2>7. ReplayedAll' /\ NoRoomFailure'
    BY <1>5, <1>i, <1>p, <2>1
    DEF ReadChunk, ReplayedAll, NoRoomFailure, Cursor, buffer_entry
  <2> QED BY <2>3, <2>4, <2>5, <2>6, <2>7 DEF IInv
<1>6. CASE ReadDone
  <2>1. Flying' = Flying /\ EffectiveDepth' = EffectiveDepth
    BY <1>6, <1>l DEF ReadDone, Flying, EffectiveDepth
  <2>2. Consumed' = Consumed
    BY <1>6, <1>i, <1>l, ReplayerAssumption DEF ReadDone, Consumed, Cursor, TypeOK
  <2>3. TypeOK'
    BY <1>6, <1>i, <1>p, <1>l, ReplayerAssumption
    DEF ReadDone, TypeOK, QpairTypeOK, Final, Cursor
  <2>4. Cursor' /\ Place'
    BY <1>6, <1>i, <1>l, ReplayerAssumption DEF ReadDone, Cursor, Place, TypeOK
  <2>5. Queues' /\ Counted' /\ Bounded'
    BY <1>p, <1>6, <1>i, <1>l, <1>c, <2>1, <2>2
    DEF ReadDone, Queues, Counted, Bounded, Live, Replaying, Cursor, Place
  <2>6. Passed'
    BY <1>6, <1>i, <1>p, <2>1, <2>2 DEF ReadDone, Passed, Live, Replaying, Cursor, Place
  <2>7. Consumed = Len(trace)
    BY <1>6, <1>i, <1>l DEF ReadDone, Cursor, Consumed, TypeOK
  <2>8. sent = Todo /\ g_num_io = Cardinality(sent)
    BY <1>6, <1>i, <2>7 DEF ReadDone, Passed, Cursor, Todo, Positions
  <2>9. ReplayedAll'
    BY <1>6, <1>i, <1>p, <2>1, <2>8 DEF ReadDone, ReplayedAll, Queues
  <2>10. NoRoomFailure'
    BY <1>6, <1>i DEF ReadDone, NoRoomFailure
  <2> QED BY <2>3, <2>4, <2>5, <2>6, <2>9, <2>10 DEF IInv
<1>7. CASE NoMemory
  <2>1. Flying' = Flying /\ EffectiveDepth' = EffectiveDepth
    BY <1>7, <1>l DEF NoMemory, Flying, EffectiveDepth, AtCall, AtEntry
  <2>2. Consumed' = Consumed
    BY <1>7, <1>i, <1>l, ReplayerAssumption
    DEF NoMemory, Consumed, Cursor, TypeOK, AtCall, AtEntry
  <2>3. TypeOK'
    BY <1>7, <1>i, <1>p, <1>l, ReplayerAssumption
    DEF NoMemory, TypeOK, QpairTypeOK, Final, Cursor, AtCall, AtEntry
  <2>4. Cursor' /\ Place'
    BY <1>7, <1>i, <1>l, ReplayerAssumption
    DEF NoMemory, Cursor, Place, TypeOK, AtCall, AtEntry
  <2>5. Queues' /\ Counted' /\ Bounded'
    BY <1>p, <1>7, <1>i, <1>l, <1>c, <2>1, <2>2
    DEF NoMemory, Queues, Counted, Bounded, Live, Replaying, Cursor, Place, AtCall, AtEntry
  <2>6. Passed'
    BY <1>7, <1>i, <1>p, <2>1, <2>2
    DEF NoMemory, Passed, Live, Replaying, Cursor, Place, AtCall, AtEntry
  <2>7. ReplayedAll' /\ NoRoomFailure'
    BY <1>7, <1>i, <1>p, <2>1
    DEF NoMemory, ReplayedAll, NoRoomFailure, Cursor, AtCall, AtEntry
  <2> QED BY <2>3, <2>4, <2>5, <2>6, <2>7 DEF IInv
<1>8. CASE EntriesDone
  <2>1. Flying' = Flying /\ EffectiveDepth' = EffectiveDepth
    BY <1>8, <1>l DEF EntriesDone, Flying, EffectiveDepth
  <2>2. Consumed' = Consumed
    BY <1>8, <1>i, <1>l, ReplayerAssumption DEF EntriesDone, Consumed, Cursor, TypeOK
  <2>3. TypeOK'
    BY <1>8, <1>i, <1>p, <1>l, ReplayerAssumption
    DEF EntriesDone, TypeOK, QpairTypeOK, Final, Cursor
  <2>4. Cursor' /\ Place'
    BY <1>8, <1>i, <1>l, ReplayerAssumption DEF EntriesDone, Cursor, Place, TypeOK
  <2>5. Queues' /\ Counted' /\ Bounded'
    BY <1>p, <1>8, <1>i, <1>l, <1>c, <2>1, <2>2
    DEF EntriesDone, Queues, Counted, Bounded, Live, Replaying, Cursor, Place
  <2>6. Passed'
    BY <1>8, <1>i, <1>p, <2>1, <2>2 DEF EntriesDone, Passed, Live, Replaying, Cursor, Place
  <2>7. ReplayedAll' /\ NoRoomFailure'
    BY <1>8, <1>i, <1>p, <2>1 DEF EntriesDone, ReplayedAll, NoRoomFailure, Cursor
  <2> QED BY <2>3, <2>4, <2>5, <2>6, <2>7 DEF IInv
<1>9. CASE Drained
  <2>1. Flying' = Flying /\ EffectiveDepth' = EffectiveDepth
    BY <1>9, <1>l DEF Drained, Flying, EffectiveDepth
  <2>2. Consumed' = Consumed
    BY <1>9, <1>i, <1>l, ReplayerAssumption DEF Drained, Consumed, Cursor, TypeOK
  <2>3. TypeOK'
    BY <1>9, <1>i, <1>p, <1>l, ReplayerAssumption
    DEF Drained, TypeOK, QpairTypeOK, Final, Cursor
  <2>4. Cursor' /\ Place'
    BY <1>9, <1>i, <1>l, ReplayerAssumption DEF Drained, Cursor, Place, TypeOK
  <2>0. Flying = {}
    BY <1>9, <1>i, <1>c, FS_EmptySet DEF Drained, Counted, Live, Cursor
  <2>5. Queues' /\ Counted' /\ Bounded'
    BY <1>p, <1>9, <1>i, <1>l, <1>c, <2>0, <2>1, <2>2
    DEF Drained, Queues, Counted, Bounded, Live, Replaying, Cursor, Place
  <2>6. Passed'
    BY <1>9, <1>i, <1>p, <2>1, <2>2 DEF Drained, Passed, Live, Replaying, Cursor, Place
  <2>7. ReplayedAll' /\ NoRoomFailure'
    BY <1>9, <1>i, <1>p, <2>1 DEF Drained, ReplayedAll, NoRoomFailure, Cursor
  <2> QED BY <2>3, <2>4, <2>5, <2>6, <2>7 DEF IInv
<1>10. CASE Report
  <2>1. Flying' = Flying /\ EffectiveDepth' = EffectiveDepth
    BY <1>10, <1>l DEF Report, Flying, EffectiveDepth
  <2>2. Consumed' = Consumed
    BY <1>10, <1>i, <1>l, ReplayerAssumption DEF Report, Consumed, Cursor, TypeOK
  <2>3. TypeOK'
    BY <1>10, <1>i, <1>p, <1>l, ReplayerAssumption
    DEF Report, TypeOK, QpairTypeOK, Final, Cursor
  <2>4. Cursor' /\ Place'
    BY <1>10, <1>i, <1>l, ReplayerAssumption DEF Report, Cursor, Place, TypeOK
  <2>5. Queues' /\ Counted' /\ Bounded'
    BY <1>p, <1>10, <1>i, <1>l, <1>c, <2>1, <2>2
    DEF Report, Queues, Counted, Bounded, Live, Replaying, Cursor, Place
  <2>6. Passed'
    BY <1>10, <1>i, <1>p, <2>1, <2>2 DEF Report, Passed, Live, Replaying, Cursor, Place
  <2>7. ReplayedAll' /\ NoRoomFailure'
    BY <1>10, <1>i, <1>p, <2>1 DEF Report, ReplayedAll, NoRoomFailure, Cursor
  <2> QED BY <2>3, <2>4, <2>5, <2>6, <2>7 DEF IInv
<1>11. CASE Exit
  <2>1. Flying' = Flying /\ EffectiveDepth' = EffectiveDepth
    BY <1>11, <1>l DEF Exit, Flying, EffectiveDepth
  <2>2. Consumed' = Consumed
    BY <1>11, <1>i, <1>l, ReplayerAssumption DEF Exit, Consumed, Cursor, TypeOK
  <2>3. TypeOK'
    BY <1>11, <1>i, <1>p, <1>l, ReplayerAssumption
    DEF Exit, TypeOK, QpairTypeOK, Final, Cursor
  <2>4. Cursor' /\ Place'
    BY <1>11, <1>i, <1>l, ReplayerAssumption DEF Exit, Cursor, Place, TypeOK
  <2>5. Queues' /\ Counted' /\ Bounded'
    BY <1>p, <1>11, <1>i, <1>l, <1>c, <2>1, <2>2
    DEF Exit, Queues, Counted, Bounded, Live, Replaying, Cursor, Place
  <2>6. Passed'
    BY <1>11, <1>i, <1>p, <2>1, <2>2 DEF Exit, Passed, Live, Replaying, Cursor, Place
  <2>7. ReplayedAll' /\ NoRoomFailure'
    BY <1>11, <1>i, <1>p, <2>1 DEF Exit, ReplayedAll, NoRoomFailure, Cursor
  <2> QED BY <2>3, <2>4, <2>5, <2>6, <2>7 DEF IInv
<1>13. CASE ReadShort
  <2>1. Flying' = {} /\ EffectiveDepth' = EffectiveDepth
    BY <1>13 DEF ReadShort, FreeIoQpair, Flying, EffectiveDepth
  <2>2. TypeOK' /\ Consumed' \in Nat /\ Consumed' - i' \in Nat
    BY <1>13, <1>i, <1>p, <1>l, ReplayerAssumption
    DEF ReadShort, FreeIoQpair, buffer_entry, TypeOK, QpairTypeOK, Final, Cursor, Consumed
  <2>3. Cursor' /\ Place'
    BY <1>13, <1>i, <1>l, ReplayerAssumption
    DEF ReadShort, FreeIoQpair, buffer_entry, Cursor, Place, TypeOK
  <2>4. Queues'
    BY <1>13, <2>1 DEF ReadShort, FreeIoQpair, Queues
  <2>5. Counted' /\ Passed' /\ ReplayedAll' /\ NoRoomFailure'
    BY <1>13, <1>i
    DEF ReadShort, FreeIoQpair, Counted, Passed, ReplayedAll, NoRoomFailure, Live, Replaying,
        Place
  <2>6. Bounded'
    BY <1>l, <2>1, FS_EmptySet DEF Bounded
  <2> QED BY <2>2, <2>3, <2>4, <2>5, <2>6 DEF IInv
<1>14. CASE Finish
  <2>1. Flying' = {} /\ Flying = {} /\ EffectiveDepth' = EffectiveDepth
    BY <1>14, <1>i DEF Finish, FreeIoQpair, Flying, EffectiveDepth, Queues
  <2>2. TypeOK' /\ Consumed' = Consumed
    BY <1>14, <1>i, <1>p, <1>l DEF Finish, FreeIoQpair, TypeOK, QpairTypeOK, Final, Consumed
  <2>3. Cursor' /\ Place'
    BY <1>14, <1>i DEF Finish, FreeIoQpair, Cursor, Place
  <2>4. Queues'
    BY <1>14, <2>1 DEF Finish, FreeIoQpair, Queues
  <2>5. Counted' /\ Passed' /\ NoRoomFailure'
    BY <1>14, <1>i
    DEF Finish, FreeIoQpair, Counted, Passed, NoRoomFailure, Live, Replaying, Cursor
  <2>6. ReplayedAll'
    BY <1>14, <1>i, <1>p, <2>1 DEF Finish, ReplayedAll
  <2>7. Bounded'
    BY <1>l, <2>1, FS_EmptySet DEF Bounded
  <2> QED BY <2>2, <2>3, <2>4, <2>5, <2>6, <2>7 DEF IInv
<1>15. CASE SkipComplete
  <2>1. Flying' = Flying /\ EffectiveDepth' = EffectiveDepth
    BY <1>15 DEF SkipComplete, Flying, EffectiveDepth
  <2>2. Consumed' = Consumed + 1 /\ Consumed' - i' = Consumed - i
    BY <1>15, <1>i, <1>l, ReplayerAssumption DEF SkipComplete, AtEntry, TypeOK, Consumed
  <2>3. TypeOK' /\ Cursor' /\ Place'
    BY <1>15, <1>i, <1>p, <1>l, ReplayerAssumption
    DEF SkipComplete, AtEntry, TypeOK, QpairTypeOK, Cursor, Place
  <2>4. Queues' /\ Counted' /\ Bounded'
    BY <1>15, <1>i, <1>p, <1>l, <2>1, <2>2
    DEF SkipComplete, AtEntry, Queues, Counted, Bounded, Live, Replaying
  <2>5. ~Replayable(Consumed + 1) /\ ~Ignored(Consumed + 1)
    BY <1>15, Classified DEF SkipComplete, Current
  <2>6. Passed'
    BY <1>15, <1>i, <1>p, <1>l, <2>1, <2>2, <2>5
    DEF SkipComplete, AtEntry, Passed, Live, Replaying
  <2>7. ReplayedAll' /\ NoRoomFailure'
    BY <1>15, <1>i, <1>p, <2>1 DEF SkipComplete, AtEntry, ReplayedAll, NoRoomFailure
  <2> QED BY <2>3, <2>4, <2>6, <2>7 DEF IInv
<1>16. CASE WaitForRoom \/ Drain
  <2>1. PICK S \in SUBSET cq : ProcessCompletions(S)
    BY <1>16 DEF WaitForRoom, Drain
  <2>2. /\ pc \in {"entry", "drain"}
        /\ UNCHANGED <<inputVars, g_queue_depth, pc, attached, loopVars, g_num_io, rc, sent,
                       ended>>
    BY <1>16 DEF WaitForRoom, Drain, AtEntry
  <2>3. /\ Flying' = Flying \ S
        /\ Cardinality(S) \in Nat
        /\ Cardinality(S) <= Cardinality(Flying)
        /\ Cardinality(Flying') = Cardinality(Flying) - Cardinality(S)
    BY <1>i, <2>1, PollCounts DEF ProcessCompletions
  <2>4. Consumed' = Consumed /\ EffectiveDepth' = EffectiveDepth
    BY <2>2 DEF Consumed, EffectiveDepth
  <2>5. Live /\ outstanding_commands = Cardinality(Flying)
    BY <1>i, <2>2 DEF Live, Cursor, Counted
  <2>6. TypeOK'
    BY <1>i, <1>c, <1>p, <2>1, <2>2, <2>3, <2>5
    DEF ProcessCompletions, Reap, TypeOK, QpairTypeOK
  <2>7. Cursor' /\ Place' /\ ReplayedAll' /\ NoRoomFailure'
    BY <1>i, <2>1, <2>2
    DEF ProcessCompletions, Reap, Cursor, Place, ReplayedAll, NoRoomFailure
  <2>8. Queues'
    BY <1>i, <1>p, <2>1, <2>2, <2>3, <2>4 DEF ProcessCompletions, Reap, Queues
  <2>9. Counted' /\ Bounded'
    BY <1>i, <1>l, <1>c, <2>1, <2>3, <2>4, <2>5 DEF ProcessCompletions, Counted, Bounded
  <2>10. \A k \in S : k \in Flying
    BY <2>1 DEF ProcessCompletions, Reap, Flying
  <2>11. \A k \in S : ~Ignored(k)
    BY <1>i, <2>10, Classified DEF Queues
  <2>12. Passed'
    BY <1>i, <1>p, <2>1, <2>2, <2>3, <2>4, <2>5, <2>11
    DEF ProcessCompletions, Passed, Cursor
  <2> QED BY <2>6, <2>7, <2>8, <2>9, <2>12 DEF IInv
<1>17. CASE Ignore
  <2>1. Flying' = Flying /\ EffectiveDepth' = EffectiveDepth
    BY <1>17 DEF Ignore, Flying, EffectiveDepth
  <2>2. /\ Consumed' = Consumed + 1
        /\ Consumed' - i' = Consumed - i
        /\ Current = Consumed + 1
        /\ Current \in Positions
    BY <1>17, <1>i, <1>l, Located, ReplayerAssumption
    DEF Ignore, AtCall, AtEntry, TypeOK, Consumed, Current
  <2>3. TypeOK' /\ Cursor' /\ Place'
    BY <1>17, <1>i, <1>p, <1>l, <2>2, ReplayerAssumption
    DEF Ignore, AtCall, AtEntry, TypeOK, QpairTypeOK, Cursor, Place
  <2>4. Queues' /\ Counted' /\ Bounded'
    BY <1>17, <1>i, <1>p, <1>l, <2>1, <2>2
    DEF Ignore, AtCall, AtEntry, Queues, Counted, Bounded, Live, Replaying
  <2>5. Ignored(Consumed + 1) /\ ~Replayable(Consumed + 1)
    BY <1>17, <2>2, Classified DEF Ignore
  <2>6. Passed'
    BY <1>17, <1>i, <1>p, <1>l, <2>1, <2>2, <2>5
    DEF Ignore, AtCall, AtEntry, Passed, Live, Replaying, Cursor
  <2>7. ReplayedAll' /\ NoRoomFailure'
    BY <1>17, <1>i, <1>p, <2>1 DEF Ignore, ReplayedAll, NoRoomFailure
  <2> QED BY <2>3, <2>4, <2>6, <2>7 DEF IInv
<1>18. CASE Submit
  <2>1. /\ Current \notin Flying
        /\ Flying' = Flying \cup {Current}
        /\ Cardinality(Flying') = Cardinality(Flying) + 1
    BY <1>18, <1>i, SubmitCounts DEF Submit, AtCall
  <2>2. /\ Consumed' = Consumed + 1
        /\ Consumed' - i' = Consumed - i
        /\ Current = Consumed + 1
        /\ Current \in Positions
        /\ EffectiveDepth' = EffectiveDepth
    <3>1. Current \in Positions
      BY <1>18, <1>i, Located DEF Submit, AtCall
    <3>2. EffectiveDepth' = EffectiveDepth
      BY <1>18 DEF Submit, EffectiveDepth
    <3>3. Consumed' = Consumed + 1 /\ Consumed' - i' = Consumed - i
      BY <1>18, <1>i, <1>l, ReplayerAssumption DEF Submit, TypeOK, Consumed
    <3> QED BY <3>1, <3>2, <3>3 DEF Current
  <2>3. TypeOK' /\ Cursor' /\ Place'
    BY <1>18, <1>i, <1>p, <1>l, <2>2, ReplayerAssumption
    DEF Submit, AtCall, AtEntry, CountIo, Accept, TypeOK, QpairTypeOK, Cursor, Place
  <2>4. Live /\ outstanding_commands = Cardinality(Flying) /\ g_queue_depth = EffectiveDepth
    BY <1>18, <1>i DEF Submit, AtCall, AtEntry, Live, Cursor, Counted, Place, EffectiveDepth
  <2>5. Queues'
    <3>1. inflight' \cap cq' = {}
      BY <1>18, <1>i, <2>1 DEF Submit, Accept, Queues, Flying
    <3>2. \A k \in Flying' : Replayable(k)'
      BY <1>18, <1>i, <1>p, <2>1 DEF Submit, Queues
    <3>3. Flying' \subseteq Consumed' - i' + 1 .. Consumed'
      <4>1. Flying \subseteq Consumed - i + 1 .. Consumed
        BY <1>i DEF Queues
      <4>2. Current \in Consumed - i + 1 .. Consumed + 1
        BY <1>l, <1>i, <2>2 DEF TypeOK
      <4> QED BY <1>l, <2>1, <2>2, <4>1, <4>2
    <3> QED BY <1>18, <3>1, <3>2, <3>3 DEF Submit, AtCall, AtEntry, Queues
  <2>6. Counted' /\ Bounded'
    BY <1>18, <1>i, <1>l, <1>c, <2>1, <2>2, <2>4
    DEF Submit, AtCall, CountIo, Counted, Bounded
  <2>7. Replayable(Consumed + 1) /\ ~Ignored(Consumed + 1)
    BY <1>18, <2>2, Classified DEF Submit
  <2>8. sent' = {k \in 1 .. Consumed' : Replayable(k)'}
    BY <1>18, <1>i, <1>p, <1>l, <2>2, <2>7 DEF Submit, AtCall, AtEntry, Passed, Cursor
  <2>9. g_num_io' = Cardinality(sent')
    <3>1. sent \subseteq 1 .. Consumed /\ g_num_io = Cardinality(sent)
      BY <1>18, <1>i DEF Submit, AtCall, AtEntry, Passed, Cursor
    <3>2. IsFiniteSet(sent)
      <4>1. IsFiniteSet(1 .. Consumed)
        BY <1>l, FS_Interval
      <4> QED BY <3>1, <4>1, FS_Subset
    <3>3. Current \notin sent
      BY <1>l, <2>2, <3>1
    <3> QED BY <1>18, <3>1, <3>2, <3>3, FS_AddElement DEF Submit, CountIo
  <2>10. heap' = Flying' \cup {k \in 1 .. Consumed' : Ignored(k)'}
    BY <1>18, <1>i, <1>p, <1>l, <2>1, <2>2, <2>4, <2>7 DEF Submit, CountIo, Passed
  <2>11. Passed'
    BY <2>8, <2>9, <2>10 DEF Passed
  <2>12. ReplayedAll' /\ NoRoomFailure'
    BY <1>18, <1>i DEF Submit, AtCall, AtEntry, ReplayedAll, NoRoomFailure, Cursor
  <2> QED BY <2>3, <2>5, <2>6, <2>11, <2>12 DEF IInv
<1>19. CASE Refuse
  <2>1. Flying' = {} /\ EffectiveDepth' = EffectiveDepth
    BY <1>19 DEF Refuse, FreeIoQpair, Flying, EffectiveDepth
  <2>2. Consumed' = Consumed /\ Current \in Positions
    BY <1>19, <1>i, Located DEF Refuse, AtCall, Consumed
  <2>3. TypeOK' /\ Cursor' /\ Place'
    BY <1>19, <1>i, <1>p, <1>l, <2>2
    DEF Refuse, AtCall, AtEntry, CountIo, FreeIoQpair, TypeOK, QpairTypeOK, Final, Cursor, Place
  <2>4. Queues' /\ Counted' /\ Passed' /\ ReplayedAll'
    BY <1>19, <2>1
    DEF Refuse, FreeIoQpair, Queues, Counted, Passed, ReplayedAll, Live, Replaying
  <2>5. Bounded'
    BY <1>l, <2>1, FS_EmptySet DEF Bounded
  <2>6. outstanding_commands = Cardinality(Flying)
    BY <1>19, <1>i DEF Refuse, AtCall, AtEntry, Live, Cursor, Counted
  <2>7. Full => g_queue_depth > MaxRequests /\ ENTRY_MAX > MaxRequests
    BY <1>19, <1>i, <1>c, <2>6, ReplayerAssumption, MaxRequestsAssumption
    DEF Refuse, AtCall, AtEntry, Full, TypeOK
  <2>8. NoRoomFailure'
    BY <1>19, <2>7 DEF Refuse, NoRoomFailure
  <2> QED BY <2>3, <2>4, <2>5, <2>8 DEF IInv
<1>20. CASE Device
  <2>1. PICK c \in inflight : DeviceComplete(c)
    BY <1>20 DEF Device
  <2>2. UNCHANGED <<inputVars, g_queue_depth, pc, attached, loopVars, ioVars, rc, ended>>
    BY <1>20 DEF Device
  <2>3. Flying' = Flying /\ Consumed' = Consumed /\ EffectiveDepth' = EffectiveDepth
    BY <2>1, <2>2 DEF DeviceComplete, Flying, Consumed, EffectiveDepth
  <2>4. TypeOK' /\ Cursor' /\ Place'
    BY <1>i, <1>p, <2>1, <2>2 DEF DeviceComplete, TypeOK, QpairTypeOK, Cursor, Place
  <2>5. Queues'
    BY <1>i, <1>p, <2>1, <2>2, <2>3 DEF DeviceComplete, Queues
  <2>6. Counted' /\ Bounded' /\ Passed' /\ ReplayedAll' /\ NoRoomFailure'
    BY <1>i, <1>p, <2>1, <2>2, <2>3
    DEF DeviceComplete, Counted, Bounded, Passed, ReplayedAll, NoRoomFailure, Live, Replaying
  <2> QED BY <2>4, <2>5, <2>6 DEF IInv
<1>21. CASE UNCHANGED vars
  <2>1. Flying' = Flying /\ Consumed' = Consumed /\ EffectiveDepth' = EffectiveDepth
    BY <1>21 DEF vars, Flying, Consumed, EffectiveDepth
  <2>2. TypeOK' /\ Cursor' /\ Place'
    BY <1>21, <1>i, <1>p DEF vars, TypeOK, QpairTypeOK, Cursor, Place
  <2>3. Queues' /\ Counted' /\ Bounded' /\ Passed' /\ ReplayedAll' /\ NoRoomFailure'
    BY <1>21, <1>i, <1>p, <2>1
    DEF vars, Queues, Counted, Bounded, Passed, ReplayedAll, NoRoomFailure, Live, Replaying
  <2> QED BY <2>2, <2>3 DEF IInv
<1> QED
  BY <1>1, <1>2, <1>3, <1>4, <1>5, <1>6, <1>7, <1>8, <1>9, <1>10, <1>11, <1>13, <1>14, <1>15,
     <1>16, <1>17, <1>18, <1>19, <1>20, <1>21
  DEF Next, Main, Terminated
-----------------------------------------------------------------------------
(* The theorems.                                                           *)

\* Every reachable state satisfies the inductive invariant; in particular main()
\* never leaves its types.
THEOREM Invariance == Spec => []IInv
BY InitInv, StepInv, PTL DEF Spec

\* For every trace and every -q: the variables of main() keep their types.
THEOREM TypeCorrect == Spec => []TypeOK
<1>1. IInv => TypeOK
  BY DEF IInv
<1> QED BY <1>1, Invariance, PTL

\* outstanding_commands is always the number of unanswered commands, so the two
\* polling loops wait for exactly what they should.
THEOREM CounterExact == Spec => []OutstandingExact
<1>1. IInv => OutstandingExact
  BY DEF IInv, Counted, Live, OutstandingExact
<1> QED BY <1>1, Invariance, PTL

\* The device holds at most as many commands as the queue depth, all of one chunk.
THEOREM DepthKept == Spec => []FlightBounded
<1>1. IInv => FlightBounded
  BY DEF IInv, Bounded, Queues, FlightBounded
<1> QED BY <1>1, Invariance, PTL

\* A replay fails for want of request objects only if both the depth and the
\* chunk exceed the queue pair's supply.
THEOREM RoomEnough == Spec => []NoRoomFailure
<1>1. IInv => NoRoomFailure
  BY DEF IInv
<1> QED BY <1>1, Invariance, PTL

\* Every task and buffer is owned by a command in flight or by an ignored entry.
THEOREM HeapAccounted == Spec => []TasksAccounted
<1>1. IInv => TasksAccounted
  BY DEF IInv, Passed, Live, TasksAccounted
<1> QED BY <1>1, Invariance, PTL

\* A replay that ends as complete has submitted, retired and counted everything.
THEOREM CompleteReplay == Spec => []ReplayedAll
<1>1. IInv => ReplayedAll
  BY DEF IInv
<1> QED BY <1>1, Invariance, PTL
-----------------------------------------------------------------------------
(* The order of the releases.                                              *)

\* Only a refused submission releases a queue pair with commands in it, and
\* cleanup() never detaches a controller under an allocated queue pair.
THEOREM ReleaseOrder == Spec => ReleasedInOrder
<1>1. ASSUME IInv, [Next]_vars, qpair = "live", qpair' = "freed"
      PROVE  Flying = {} \/ rc' # "ok"
  <2> USE <1>1 DEF IInv, inputVars, loopVars, ioVars, qpairVars, vars
  <2>1. CASE Refuse
    BY <2>1 DEF Refuse
  <2>2. CASE Finish \/ ReadShort
    BY <2>2 DEF Finish, ReadShort, Queues
  <2>3. CASE UNCHANGED qpair
    BY <2>3
  <2>4. CASE Report
    BY <2>4 DEF Report, Place
  <2>5. qpair' = qpair \/ Refuse \/ Finish \/ ReadShort \/ Report
    BY
    DEF Next, Main, Device, Terminated, Probe, AllocQpair, AllocIoQpair, ResetNs, OpenTrace,
           ReadChunk, ReadDone, SkipComplete, WaitForRoom, ProcessCompletions, Reap, NoMemory,
           Ignore, Submit, Accept, EntriesDone, Drain, Drained, Exit, DeviceComplete
  <2> QED BY <2>1, <2>2, <2>3, <2>4, <2>5
<1>2. ASSUME IInv, [Next]_vars, attached, ~attached'
      PROVE  qpair # "live"
  <2>1. Exit \/ Probe \/ UNCHANGED attached
    BY <1>2
    DEF Next, Main, Device, Terminated, vars, AllocQpair, ResetNs, OpenTrace, ReadChunk, ReadShort,
        ReadDone, SkipComplete, WaitForRoom, NoMemory, Ignore, Submit, Refuse, EntriesDone, Drain,
        Drained, Finish, Report
  <2>2. CASE Exit
    BY <1>2, <2>2 DEF Exit, IInv, Place
  <2>3. CASE Probe
    BY <1>2, <2>3 DEF Probe, IInv, Place
  <2> QED BY <1>2, <2>1, <2>2, <2>3
<1>3. IInv /\ [Next]_vars =>
        [/\ qpair = "live" /\ qpair' = "freed" => Flying = {} \/ rc' # "ok"
         /\ attached /\ ~attached' => qpair # "live"]_vars
  BY <1>1, <1>2
<1> QED BY <1>3, Invariance, PTL DEF Spec, ReleasedInOrder
-----------------------------------------------------------------------------
(* The replay implements the abstract queue.                               *)

\* The first states of the replay are first states of the abstract queue.
LEMMA QueueInitMaps == Init => Queue!QueueInit
<1> SUFFICES ASSUME Init PROVE Queue!QueueInit
  OBVIOUS
<1>1. IInv
  BY InitInv
<1>2. EffectiveDepth \in Nat \ {0}
  BY <1>1, Located DEF IInv
<1>3. Todo \in SUBSET Nat
  BY DEF Todo, Positions
<1> QED BY <1>2, <1>3 DEF Queue!QueueInit, Init, QpairInit, Flying

\* Every step of the replay is a step of the abstract queue or leaves it as it is.
LEMMA QueueStepMaps == IInv /\ [Next]_vars => [Queue!QueueNext]_(Queue!queueVars)
<1> SUFFICES ASSUME IInv, [Next]_vars
             PROVE  Queue!QueueNext \/ UNCHANGED Queue!queueVars
  BY DEF Queue!queueVars
<1> USE DEF inputVars, loopVars, ioVars, qpairVars, Starting, Looping
<1>i. TypeOK /\ Cursor /\ Place /\ Queues /\ Counted /\ Passed
  BY DEF IInv
<1>l. /\ Len(trace) \in Nat
      /\ Consumed \in Nat
      /\ Consumed <= Len(trace)
      /\ EffectiveDepth \in Nat \ {0}
  BY <1>i, Located
<1>p. Todo' = Todo
  BY InputUnchanged, InputFixed
<1>c. IsFiniteSet(Flying) /\ Cardinality(Flying) \in Nat
  BY <1>i, FlightFinite
\* A submission issues the least position not issued yet.
<1>1. CASE Submit
  <2>1. Flying' = Flying \cup {Current} /\ sent' = sent \cup {Current} /\ UNCHANGED ended
    BY <1>1, <1>i, SubmitCounts DEF Submit, AtCall
  <2>2. EffectiveDepth' = EffectiveDepth
    BY <1>1 DEF Submit, EffectiveDepth
  <2>3. Current \in Positions /\ Current = Consumed + 1 /\ Replayable(Current)
    BY <1>1, <1>i, Located DEF Submit, AtCall, Current
  <2>4. ended = "running" /\ sent = {k \in 1 .. Consumed : Replayable(k)}
    BY <1>1, <1>i DEF Submit, AtCall, AtEntry, Cursor, Passed
  <2>5. Current \in Todo \ sent /\ \A j \in Todo \ sent : Current <= j
    BY <1>l, <2>3, <2>4 DEF Todo, Positions
  <2>6. Cardinality(Flying) < EffectiveDepth
    BY <1>1, <1>i DEF Submit, AtCall, AtEntry, Live, Cursor, Counted, Place, EffectiveDepth
  <2>7. Queue!Cardinality(Flying) = Cardinality(Flying)
    BY DEF Queue!Cardinality, Cardinality
  <2>8. Queue!Issue(Current)
    BY <1>p, <2>1, <2>2, <2>4, <2>5, <2>6, <2>7 DEF Queue!Issue
  <2> QED BY <2>5, <2>8 DEF Queue!QueueNext
\* A poll retires what it finds.
<1>2. CASE WaitForRoom \/ Drain
  <2>1. PICK S \in SUBSET cq : ProcessCompletions(S)
    BY <1>2 DEF WaitForRoom, Drain
  <2>2. Flying' = Flying \ S
    BY <1>i, <2>1, PollCounts DEF ProcessCompletions
  <2>3. ended = "running" /\ UNCHANGED <<sent, ended>> /\ EffectiveDepth' = EffectiveDepth
    BY <1>2, <1>i DEF WaitForRoom, Drain, AtEntry, Cursor, EffectiveDepth
  <2> QED BY <1>p, <2>2, <2>3 DEF Queue!Retire, Queue!QueueNext
\* The end of the file completes the queue.
<1>3. CASE ReadDone
  <2>1. Consumed = Len(trace)
    BY <1>3, <1>i, <1>l DEF ReadDone, Cursor, Consumed, TypeOK
  <2>2. sent = Todo /\ ended = "running" /\ Flying = {}
    BY <1>3, <1>i, <2>1 DEF ReadDone, Passed, Cursor, Queues, Todo, Positions
  <2>3. /\ UNCHANGED <<sent, EffectiveDepth, Flying>>
        /\ ended' = "complete"
    BY <1>3 DEF ReadDone, EffectiveDepth, Flying
  <2> QED BY <1>p, <2>2, <2>3 DEF Queue!Complete, Queue!QueueNext
\* Every other way out aborts it.
<1>4. CASE ended = "running" /\ ended' = "aborted" /\ UNCHANGED sent /\ Flying' \subseteq Flying
           /\ EffectiveDepth' = EffectiveDepth
  BY <1>p, <1>4 DEF Queue!Abort, Queue!QueueNext
\* Nothing else is visible.
<1>5. CASE UNCHANGED <<ended, sent, Flying, EffectiveDepth>>
  BY <1>p, <1>5 DEF Queue!queueVars
<1>6. CASE Probe \/ AllocQpair \/ ResetNs \/ OpenTrace
  <2>1. ended = "running" /\ Flying' = Flying /\ sent' = sent /\ EffectiveDepth' = EffectiveDepth
    BY <1>6, <1>i, <1>l
    DEF Probe, AllocQpair, AllocIoQpair, ResetNs, OpenTrace, Cursor, Flying, EffectiveDepth
  <2>2. ended' = ended \/ ended' = "aborted"
    BY <1>6 DEF Probe, AllocQpair, ResetNs, OpenTrace
  <2> QED BY <1>4, <1>5, <2>1, <2>2
<1>7. CASE ReadShort \/ Refuse \/ NoMemory
  BY <1>4, <1>7, <1>i
  DEF ReadShort, Refuse, NoMemory, AtCall, AtEntry, FreeIoQpair, Flying, EffectiveDepth, Cursor
<1>8. CASE Finish
  BY <1>5, <1>8, <1>i DEF Finish, FreeIoQpair, Flying, EffectiveDepth, Queues
<1>9. CASE Device
  BY <1>5, <1>9 DEF Device, DeviceComplete, Flying, EffectiveDepth
<1>10. CASE ReadChunk \/ SkipComplete \/ Ignore \/ EntriesDone \/ Drained \/ Report \/ Exit
            \/ UNCHANGED vars
  BY <1>5, <1>10
  DEF ReadChunk, SkipComplete, Ignore, EntriesDone, Drained, Report, Exit, vars, Flying,
      EffectiveDepth
<1> QED
  BY <1>1, <1>2, <1>3, <1>6, <1>7, <1>8, <1>9, <1>10 DEF Next, Main, Terminated

\* The chunked, polled loop of main() implements the replay queue: every behaviour
\* issues the replayable entries in trace order, each once, within the depth, and
\* completes only when all have been answered.
THEOREM Refinement == Spec => ImplementsReplayQueue
<1>1. Init => Queue!QueueInit
  BY QueueInitMaps
<1>2. IInv /\ [Next]_vars => [Queue!QueueNext]_(Queue!queueVars)
  BY QueueStepMaps
<1> QED BY <1>1, <1>2, Invariance, PTL DEF Spec, ImplementsReplayQueue, Queue!QueueSpec
-----------------------------------------------------------------------------
(* Progress.                                                               *)

\* How far a place in main() is from its end.
Rank ==
    [start |-> 10, alloc |-> 9, reset |-> 8, open |-> 7, entry |-> 6, drain |-> 5, chunk |-> 4,
     finish |-> 3, report |-> 2, exit |-> 1, done |-> 0, failed |-> 0, crash |-> 0]

\* What the device and the completion queue still owe: a command there is polled two
\* steps from now, a completion one.
Owed == 2 * Cardinality(inflight) + Cardinality(cq)

\* The work left.  An entry moves from the file to the buffer, from there to the
\* device, to the completion queue and out of it, losing some weight each time.
Variant == 6 * remain_entry + 3 * (read_entry - i) + Owed + Rank[pc]

\* A step of the queue pair takes from what is owed, and only a submission adds to it.
LEMMA OwedFacts ==
    ASSUME IsFiniteSet(inflight), IsFiniteSet(cq)
    PROVE  /\ Owed \in Nat
           /\ \A S : Reap(S) => Owed' \in Nat /\ Owed' < Owed
           /\ \A c : DeviceComplete(c) => Owed' \in Nat /\ Owed' < Owed
           /\ \A c : Accept(c) => Owed' \in Nat /\ Owed' <= Owed + 2
           /\ FreeIoQpair => Owed' = 0
           /\ UNCHANGED <<inflight, cq>> => Owed' = Owed
<1>1. Cardinality(inflight) \in Nat /\ Cardinality(cq) \in Nat
  BY FS_CardinalityType
<1>2. ASSUME NEW S, Reap(S) PROVE Owed' \in Nat /\ Owed' < Owed
  <2>1. PICK c \in S : c \in cq
    BY <1>2 DEF Reap
  <2>2. cq' \subseteq cq \ {c} /\ inflight' = inflight
    BY <1>2, <2>1 DEF Reap
  <2>3. IsFiniteSet(cq \ {c}) /\ Cardinality(cq \ {c}) = Cardinality(cq) - 1
    BY <2>1, FS_RemoveElement
  <2>4. IsFiniteSet(cq') /\ Cardinality(cq') <= Cardinality(cq) - 1
    BY <2>2, <2>3, FS_Subset
  <2>5. Cardinality(cq') \in Nat
    BY <2>4, FS_CardinalityType
  <2> QED BY <1>1, <2>2, <2>4, <2>5 DEF Owed
<1>3. ASSUME NEW c, DeviceComplete(c) PROVE Owed' \in Nat /\ Owed' < Owed
  <2>1. c \in inflight /\ inflight' = inflight \ {c} /\ cq' = cq \cup {c}
    BY <1>3 DEF DeviceComplete
  <2>2. Cardinality(inflight') = Cardinality(inflight) - 1 /\ IsFiniteSet(inflight')
    BY <2>1, FS_RemoveElement
  <2>3. Cardinality(cq') \in {Cardinality(cq), Cardinality(cq) + 1}
    BY <2>1, FS_AddElement
  <2>4. Cardinality(inflight') \in Nat
    BY <2>2, FS_CardinalityType
  <2> QED BY <1>1, <2>2, <2>3, <2>4 DEF Owed
<1>4. ASSUME NEW c, Accept(c) PROVE Owed' \in Nat /\ Owed' <= Owed + 2
  <2>1. inflight' = inflight \cup {c} /\ cq' = cq
    BY <1>4 DEF Accept
  <2>2. Cardinality(inflight') \in {Cardinality(inflight), Cardinality(inflight) + 1}
    BY <2>1, FS_AddElement
  <2> QED BY <1>1, <2>1, <2>2 DEF Owed
<1>5. FreeIoQpair => Owed' = 0
  BY FS_EmptySet DEF FreeIoQpair, Owed
<1> QED BY <1>1, <1>2, <1>3, <1>4, <1>5 DEF Owed

\* Both waits of the replayer are for commands that are there: while it polls for room
\* or for the end of a chunk, the device has a command of its or a completion is
\* posted.  Neither can poll for ever for an answer that cannot come.
WaitAnswered ==
    \/ AtEntry /\ outstanding_commands >= g_queue_depth
    \/ pc = "drain" /\ outstanding_commands > 0
    => Flying # {}

THEOREM WaitsAnswered == Spec => []WaitAnswered
<1>1. IInv => WaitAnswered
  <2> SUFFICES ASSUME IInv, outstanding_commands > 0, pc \in {"entry", "drain"} PROVE Flying # {}
    BY DEF IInv, Place, Looping, TypeOK, WaitAnswered, AtEntry
  <2>1. outstanding_commands = Cardinality(Flying)
    BY DEF IInv, Counted, Live, Cursor, Looping
  <2> QED BY <2>1, FS_EmptySet
<1> QED BY <1>1, Invariance, PTL

\* Every step of the program and of the device is a step towards the end of main():
\* the number Variant falls, whatever the trace, the depth and the order of the
\* completions.  Together with WaitsAnswered this is what Terminates rests on, for
\* every instance: a program that is scheduled while it has something to do, with a
\* device that answers, runs out of steps.
THEOREM Progress == Spec => [](Variant \in Nat) /\ [][Variant' < Variant]_vars
<1> DEFINE b == 6 * remain_entry + 3 * (read_entry - i)
<1>1. ASSUME IInv
      PROVE  /\ Variant \in Nat /\ b \in Nat /\ Owed \in Nat /\ Rank[pc] \in 0 .. 10
             /\ IsFiniteSet(inflight) /\ IsFiniteSet(cq)
             /\ remain_entry \in Nat /\ read_entry \in Nat /\ i \in Nat /\ i <= read_entry
  <2>1. IsFiniteSet(Flying)
    BY <1>1, FlightFinite DEF IInv
  <2>2. IsFiniteSet(inflight) /\ IsFiniteSet(cq)
    BY <2>1, FS_Subset DEF Flying
  <2>3. Owed \in Nat
    BY <2>2, OwedFacts
  <2>4. Rank[pc] \in 0 .. 10
    BY <1>1 DEF IInv, TypeOK, Rank, Final
  <2>5. /\ remain_entry \in Nat /\ read_entry \in Nat /\ i \in Nat /\ i <= read_entry
    BY <1>1, ReplayerAssumption DEF IInv, TypeOK
  <2> QED BY <2>2, <2>3, <2>4, <2>5 DEF Variant
<1>2. ASSUME IInv, [Next]_vars, vars' # vars PROVE Variant' < Variant
  <2> USE DEF inputVars, loopVars, ioVars, qpairVars
  <2>1. /\ b \in Nat /\ Owed \in Nat /\ Rank[pc] \in 0 .. 10
        /\ remain_entry \in Nat /\ read_entry \in Nat /\ i \in Nat /\ i <= read_entry
        /\ ENTRY_MAX \in Nat \ {0}
    BY <1>1, <1>2, ReplayerAssumption
  <2>2. /\ \A S : Reap(S) => Owed' \in Nat /\ Owed' < Owed
        /\ \A c : DeviceComplete(c) => Owed' \in Nat /\ Owed' < Owed
        /\ \A c : Accept(c) => Owed' \in Nat /\ Owed' <= Owed + 2
        /\ FreeIoQpair => Owed' = 0
        /\ UNCHANGED <<inflight, cq>> => Owed' = Owed
    BY <1>1, <1>2, OwedFacts
  <2> HIDE DEF b
  <2>3. ASSUME b' \in Nat, b' <= b, Owed' \in Nat, Owed' <= Owed, Rank[pc]' < Rank[pc],
               Rank[pc]' \in 0 .. 10
        PROVE  Variant' < Variant
    BY <2>1, <2>3 DEF Variant, b
  <2>4. ASSUME b' \in Nat, b' + 3 <= b, Owed' \in Nat, Owed' <= Owed + 2, pc' = pc
        PROVE  Variant' < Variant
    BY <2>1, <2>4 DEF Variant, b
  <2>5. ASSUME b' = b, Owed' \in Nat, Owed' < Owed, pc' = pc
        PROVE  Variant' < Variant
    BY <2>1, <2>5 DEF Variant, b
  <2>6. CASE Probe \/ ResetNs \/ OpenTrace \/ ReadDone \/ NoMemory \/ EntriesDone \/ Drained \/ Exit
    <3>1. b' = b /\ Owed' = Owed
      BY <2>2, <2>6 DEF Probe, ResetNs, OpenTrace, ReadDone, NoMemory, EntriesDone, Drained, Exit, b
    <3>2. Rank[pc]' < Rank[pc] /\ Rank[pc]' \in 0 .. 10
      BY <2>6 DEF Probe, ResetNs, OpenTrace, ReadDone, NoMemory, AtCall, AtEntry, EntriesDone,
                  Drained, Exit, Rank
    <3> QED BY <2>1, <2>3, <3>1, <3>2
  <2>7. CASE AllocQpair \/ Report
    <3>1. b' = b /\ Owed' = Owed
      BY <2>2, <2>7 DEF AllocQpair, AllocIoQpair, Report, b
    <3>2. Rank[pc]' < Rank[pc] /\ Rank[pc]' \in 0 .. 10
      BY <2>7 DEF AllocQpair, Report, Rank
    <3> QED BY <2>1, <2>3, <3>1, <3>2
  <2>8. CASE Finish \/ Refuse
    <3>1. b' = b /\ Owed' = 0
      BY <2>2, <2>8 DEF Finish, Refuse, CountIo, b
    <3>2. Rank[pc]' < Rank[pc] /\ Rank[pc]' \in 0 .. 10
      BY <2>8 DEF Finish, Refuse, AtCall, AtEntry, Rank
    <3> QED BY <2>1, <2>3, <3>1, <3>2
  <2>9. CASE ReadChunk
    <3>1. buffer_entry \in Nat \ {0} /\ buffer_entry <= remain_entry
      BY <2>1, <2>9 DEF ReadChunk, buffer_entry
    <3>2. /\ remain_entry' = remain_entry - buffer_entry /\ read_entry' = buffer_entry /\ i' = 0
          /\ pc = "chunk" /\ pc' = "entry" /\ Owed' = Owed /\ i = read_entry
      BY <1>2, <2>2, <2>9 DEF ReadChunk, IInv, Cursor
    <3>3. b' + 3 <= b /\ b' \in Nat
      <4>1. PICK n : n = buffer_entry
        OBVIOUS
      <4>2. b = 6 * remain_entry /\ b' = 6 * (remain_entry - n) + 3 * n
        BY <2>1, <3>1, <3>2, <4>1 DEF b
      <4>3. n \in Nat \ {0} /\ n <= remain_entry /\ remain_entry \in Nat
        BY <2>1, <3>1, <4>1
      <4> QED BY ONLY <4>2, <4>3
    <3>4. Rank[pc] = 4 /\ Rank[pc]' = 6
      BY <3>2 DEF Rank
    <3> QED BY <2>1, <3>2, <3>3, <3>4 DEF Variant, b
  <2>10. CASE ReadShort
    <3>1. buffer_entry \in Nat \ {0} /\ buffer_entry <= remain_entry
      BY <2>1, <2>10 DEF ReadShort, buffer_entry
    <3>2. /\ remain_entry' = remain_entry - buffer_entry /\ read_entry' \in 0 .. buffer_entry - 1
          /\ i' = 0 /\ pc = "chunk" /\ pc' = "finish" /\ Owed' = 0
      BY <2>2, <2>10 DEF ReadShort
    <3>3. b' <= b /\ b' \in Nat
      <4>1. PICK n, r : n = buffer_entry /\ r = read_entry'
        OBVIOUS
      <4>2. b = 6 * remain_entry + 3 * (read_entry - i) /\ b' = 6 * (remain_entry - n) + 3 * r
        BY <2>1, <3>2, <4>1 DEF b
      <4>3. n \in Nat \ {0} /\ n <= remain_entry /\ remain_entry \in Nat /\ r \in 0 .. n - 1
            /\ read_entry \in Nat /\ i \in Nat /\ i <= read_entry
        BY <2>1, <3>1, <3>2, <4>1
      <4> QED BY ONLY <4>2, <4>3
    <3>4. Rank[pc]' < Rank[pc] /\ Rank[pc]' \in 0 .. 10
      BY <3>2 DEF Rank
    <3> QED BY <2>1, <2>3, <3>2, <3>3, <3>4
  <2>11. CASE SkipComplete \/ Ignore \/ Submit
    <3>1. /\ i' = i + 1 /\ i < read_entry /\ UNCHANGED <<remain_entry, read_entry, pc>>
          /\ Owed' \in Nat /\ Owed' <= Owed + 2
      BY <2>1, <2>2, <2>11 DEF SkipComplete, Ignore, Submit, AtCall, AtEntry
    <3>2. b' + 3 <= b /\ b' \in Nat
      BY <2>1, <3>1 DEF b
    <3> QED BY <2>4, <3>1, <3>2
  <2>12. CASE WaitForRoom \/ Drain
    <3>1. b' = b /\ pc' = pc /\ \E S : Reap(S)
      BY <2>12 DEF WaitForRoom, Drain, ProcessCompletions, b
    <3> QED BY <2>2, <2>5, <3>1
  <2>13. CASE Device
    <3>1. b' = b /\ pc' = pc /\ \E c : DeviceComplete(c)
      BY <2>13 DEF Device, b
    <3> QED BY <2>2, <2>5, <3>1
  <2> QED BY <1>2, <2>6, <2>7, <2>8, <2>9, <2>10, <2>11, <2>12, <2>13 DEF Next, Main, Terminated
<1>3. IInv /\ [Next]_vars => [Variant' < Variant]_vars
  BY <1>2
<1> QED BY <1>1, <1>3, Invariance, PTL DEF Spec
=============================================================================
