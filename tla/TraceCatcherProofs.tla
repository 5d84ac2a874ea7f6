------------------------- MODULE TraceCatcherProofs -------------------------
(***************************************************************************)
(* Proofs about TraceCatcher, for every set of request objects, ring size, *)
(* length of recording, disk and word size.                                *)
(*                                                                         *)
(* The invariant IInv below is inductive.  Its first parts say what the    *)
(* ring holds whatever it has forgotten (RingOrder, RingPairs) and what    *)
(* the traced program still has to complete (Carried); the others what the *)
(* parser knows of the part it has passed (Cursor, Starts, Base) and what  *)
(* the file has of it (Written, Kept, Ordered, Counted).                   *)
(***************************************************************************)
EXTENDS TraceCatcher, FiniteSetTheorems, TLAPS

RingEntry == [tpoint : Names \cup {"OTHER"}, object_id : Objects, ctx : {0, 1}, tsc : Times,
              born : Times]
FileEntry == [tpoint_name : Names, obj_id : Objects, tsc_timestamp : 0 .. UINT64_MAX,
              tsc_obj_submit : 0 .. UINT64_MAX, tsc_sc_time : 0 .. UINT64_MAX]

\* Position j of the ring r is a submission of object o.
Submits(r, j, o) == r[j].tpoint = "NVME_IO_SUBMIT" /\ r[j].object_id = o

\* Position s is the last submission of object o among the first n.
LastSubmit(s, o, n) ==
    s \in 1 .. n /\ Submits(ring, s, o) /\ \A m \in s + 1 .. n : ~Submits(ring, m, o)

\* Position s of the ring r is a submission of object o with argument ctx, at the
\* given time.
Carries(r, s, o, time, ctx) == Submits(r, s, o) /\ r[s].tsc = time /\ r[s].ctx = ctx

\* Position j is one the catcher writes.
WantedAt(j) ==
    /\ ring[j].tpoint \in Names
    /\ ring[j].ctx = 0
    /\ \E s \in 1 .. j : Submits(ring, s, ring[j].object_id)
WantedUpTo(n) == {j \in 1 .. n : WantedAt(j)}

\* What it writes for position j, with the last submission at position s.
EntryOf(j, s) ==
    [tpoint_name    |-> ring[j].tpoint,
     obj_id         |-> ring[j].object_id,
     tsc_timestamp  |-> ring[j].tsc - g_tsc_base,
     tsc_obj_submit |-> Minus(ring[s].tsc, g_tsc_base),
     tsc_sc_time    |-> IF ring[j].tpoint = "NVME_IO_SUBMIT" THEN 0 ELSE ring[j].tsc - ring[s].tsc]
Makes(j, k) ==
    /\ WantedAt(j)
    /\ \E s \in 1 .. j : LastSubmit(s, ring[j].object_id, j) /\ output[k] = EntryOf(j, s)

RingOrder ==
    /\ \A j \in 1 .. Len(ring) :
          /\ ring[j].tsc \in 1 .. tsc
          /\ IF ring[j].tpoint = "NVME_IO_COMPLETE" THEN ring[j].born < ring[j].tsc
             ELSE ring[j].born = ring[j].tsc
    /\ \A j, k \in 1 .. Len(ring) : j < k => ring[j].tsc < ring[k].tsc

\* Nothing of the same object lies between a completion and its submission,
\* which is in the ring unless it was forgotten or lost.
RingPairs ==
    \A k \in 1 .. Len(ring) : ring[k].tpoint = "NVME_IO_COMPLETE" =>
        /\ \A j \in 1 .. k - 1 :
              ring[j].object_id = ring[k].object_id /\ ring[j].tpoint \in Names
                => ring[j].tsc <= ring[k].born
        /\ ~lossy /\ ring[1].tsc <= ring[k].born =>
              \E s \in 1 .. k - 1 : Carries(ring, s, ring[k].object_id, ring[k].born, ring[k].ctx)

\* The same for the commands that are not completed.
Carried ==
    \A o \in Objects : pending[o] # Idle =>
        /\ pending[o].tsc \in 1 .. tsc
        /\ \A j \in 1 .. Len(ring) :
              ring[j].object_id = o /\ ring[j].tpoint \in Names => ring[j].tsc <= pending[o].tsc
        /\ ~lossy /\ ring # <<>> /\ ring[1].tsc <= pending[o].tsc =>
              \E s \in 1 .. Len(ring) : Carries(ring, s, o, pending[o].tsc, pending[o].ctx)

Cursor ==
    /\ phase = "recording" => pos = 0 /\ output = <<>>
    /\ phase \in {"display", "done"} => pos = Len(ring)

Starts ==
    \A o \in Objects :
        IF start[o] = UINT64_MAX THEN \A m \in 1 .. pos : ~Submits(ring, m, o)
        ELSE \E s \in 1 .. pos : LastSubmit(s, o, pos) /\ start[o] = ring[s].tsc

\* The base is the time of the first entry wanted.
Base ==
    IF g_tsc_base = 0 THEN \A j \in 1 .. pos : ~WantedAt(j)
    ELSE \E b \in 1 .. pos : /\ g_tsc_base = ring[b].tsc /\ WantedAt(b)
                             /\ \A j \in 1 .. b - 1 : ~WantedAt(j)

Written == \A k \in 1 .. Len(output) : \E j \in 1 .. pos : Makes(j, k)
Kept == Len(output) < room => \A j \in 1 .. pos : WantedAt(j) => \E k \in 1 .. Len(output) : Makes(j, k)
Ordered ==
    \A k, l \in 1 .. Len(output) : k < l => output[k].tsc_timestamp < output[l].tsc_timestamp
Counted == Len(output) < room => Len(output) = Cardinality(WantedUpTo(pos))

IInv ==
    /\ TypeOK
    /\ RingOrder /\ RingPairs /\ Carried
    /\ Cursor /\ Starts /\ Base
    /\ Written /\ Kept /\ Ordered /\ Counted
-----------------------------------------------------------------------------
(* Facts about the operators.                                              *)

\* Times are far from the ends of the word.
LEMMA Words ==
    /\ Word \in Nat /\ Word > 2 * MaxTsc + 1 /\ MaxTsc \in Nat
    /\ UINT64_MAX \in Nat /\ UINT64_MAX \notin Times
    /\ Bit63 \in Nat /\ MaxTsc < Bit63 /\ Bit63 <= UINT64_MAX
BY CatcherAssumption DEF UINT64_MAX, Bit63, Times

\* A multiple of a number is at least as large as the number.
LEMMA Multiple ==
    ASSUME NEW w \in Nat, NEW q \in Int
    PROVE  /\ q >= 1 => w * q >= w
           /\ q <= -1 => w * q <= -w
<1>1. w * q = w + w * (q - 1) /\ w * q = w * (q + 1) - w
  OBVIOUS
<1>2. q >= 1 => w * (q - 1) >= 0
  OBVIOUS
<1>3. q <= -1 => w * (q + 1) <= 0
  OBVIOUS
<1> QED BY <1>1, <1>2, <1>3

\* A remainder modulo Word, for numbers that miss the word by less than a word.
LEMMA ModWord ==
    ASSUME NEW x \in Int
    PROVE  /\ x \in 0 .. Word - 1 => x % Word = x
           /\ x + Word \in 0 .. Word - 1 => x % Word = x + Word
           /\ x % Word \in 0 .. UINT64_MAX
<1>1. Word \in Nat \ {0}
  BY Words
<1> DEFINE q == x \div Word
           r == x % Word
           m == Word * q
<1>2. r \in 0 .. Word - 1 /\ q \in Int /\ m \in Int
  BY <1>1
<1>3. x = m + r
  BY <1>1
<1>4. /\ q >= 1 => m >= Word
      /\ q <= -1 => m <= -Word
      /\ q >= 0 => m >= 0
      /\ q = 0 => m = 0
      /\ q = -1 => m = -Word
      /\ q + 1 <= -1 => Word * (q + 1) <= -Word
      /\ Word * (q + 1) = m + Word
  <2> HIDE DEF q
  <2>1. q + 1 \in Int
    BY <1>2
  <2> QED BY <1>1, <1>2, <2>1, Multiple
<1>5. r \in 0 .. UINT64_MAX
  BY <1>1, <1>2 DEF UINT64_MAX
<1> HIDE DEF q, r, m
<1>6. ASSUME x \in 0 .. Word - 1 PROVE r = x
  BY <1>1, <1>2, <1>3, <1>4, <1>6
<1>7. ASSUME x + Word \in 0 .. Word - 1 PROVE r = x + Word
  BY <1>1, <1>2, <1>3, <1>4, <1>7
<1> QED BY <1>5, <1>6, <1>7 DEF r

\* The subtraction of two time stamps in 64 bits.
LEMMA MinusFacts ==
    ASSUME NEW a \in Times, NEW b \in Times
    PROVE  /\ Minus(a, b) \in 0 .. UINT64_MAX
           /\ b <= a => Minus(a, b) = a - b
           /\ a < b => Minus(a, b) = a - b + Word
<1>1. a \in 0 .. MaxTsc /\ b \in 0 .. MaxTsc /\ a - b \in Int
  BY Words DEF Times
<1>2. b <= a => a - b \in 0 .. Word - 1
  BY <1>1, Words
<1>3. a < b => a - b + Word \in 0 .. Word - 1
  BY <1>1, Words
<1> QED BY <1>1, <1>2, <1>3, ModWord DEF Minus

\* Differences from one time determine times.
LEMMA MinusInjective ==
    ASSUME NEW a \in Times, NEW b \in Times, NEW c \in Times, Minus(a, c) = Minus(b, c)
    PROVE  a = b
BY MinusFacts, Words, SMTT(60) DEF Times

\* Rebasing two times does not change their difference.
LEMMA MinusRebased ==
    ASSUME NEW a \in Times, NEW b \in Times, NEW c \in Times, b <= a, c <= a
    PROVE  (a - c - Minus(b, c)) % Word = a - b
<1> DEFINE x == a - c - Minus(b, c)
<1>1. a \in 0 .. MaxTsc /\ b \in 0 .. MaxTsc /\ c \in 0 .. MaxTsc
  BY DEF Times
<1>2. x = a - b \/ x + Word = a - b
  BY <1>1, MinusFacts, Words
<1>3. x \in Int /\ a - b \in 0 .. Word - 1
  BY <1>1, <1>2, Words, MinusFacts DEF UINT64_MAX
<1>4. x % Word = a - b
  <2> HIDE DEF x
  <2> QED BY <1>2, <1>3, ModWord
<1> QED BY <1>4
-----------------------------------------------------------------------------
(* Recording.                                                              *)

\* The ring forgets its first f entries and takes the entry e.
Appended(f, e) ==
    /\ Len(ring') = Len(ring) + 1 - f
    /\ ring'[Len(ring')] = e
    /\ \A j \in 1 .. Len(ring') - 1 : ring'[j] = ring[j + f]

\* After an entry was appended and at most one forgotten, the others have moved by
\* what was forgotten.
LEMMA Shifted ==
    ASSUME NEW e, NEW f \in {0, 1}, ring \in Seq(RingEntry), f <= Len(ring), Appended(f, e)
    PROVE  /\ Len(ring') = Len(ring) + 1 - f /\ Len(ring') \in Nat \ {0}
           /\ ring'[Len(ring')] = e
           /\ \A j \in 1 .. Len(ring') - 1 : j + f \in 1 .. Len(ring) /\ ring'[j] = ring[j + f]
<1>1. PICK n \in Nat : n = Len(ring)
  OBVIOUS
<1>2. Len(ring') = n + 1 - f
  BY <1>1 DEF Appended
<1>3. n + 1 - f \in Nat \ {0}
  BY <1>1
<1>4. ASSUME NEW j \in 1 .. (n + 1 - f) - 1 PROVE j + f \in 1 .. n
  OBVIOUS
<1> QED BY <1>1, <1>2, <1>3, <1>4 DEF Appended

\* An entry the tracepoints put into the ring.
LEMMA RingStep ==
    ASSUME TypeOK, NEW name \in Names \cup {"OTHER"}, NEW o \in Objects, NEW ctx \in {0, 1},
           NEW born \in Times, Trace(name, o, ctx, born),
           NEW e, e = [tpoint |-> name, object_id |-> o, ctx |-> ctx, tsc |-> tsc + 1,
                       born |-> born]
    PROVE  /\ tsc' = tsc + 1 /\ tsc' \in Times
           /\ ring' \in Seq(RingEntry) /\ Len(ring') <= RingSize
           /\ \/ lossy /\ ring' = ring
              \/ \E f \in {0, 1} : f <= Len(ring) /\ Appended(f, e)
<1>1. ring \in Seq(RingEntry) /\ Len(ring) \in 0 .. RingSize /\ RingSize \in Nat \ {0}
  BY CatcherAssumption DEF TypeOK, RingEntry
<1>2. tsc' = tsc + 1 /\ tsc' \in Times /\ e \in RingEntry
  BY Words DEF Trace, TypeOK, Times, RingEntry
<1>3. CASE lossy /\ ring' = ring
  BY <1>1, <1>2, <1>3
<1>4. CASE Len(ring) # RingSize /\ ring' = Append(ring, e)
  <2>1. Appended(0, e)
    BY <1>1, <1>4 DEF Appended
  <2> QED BY <1>1, <1>2, <1>4, <2>1
<1>5. CASE Len(ring) = RingSize /\ ring' = Append(Tail(ring), e)
  <2>1. Tail(ring) \in Seq(RingEntry) /\ Len(Tail(ring)) = Len(ring) - 1
    BY <1>1, <1>5
  <2>2. \A j \in 1 .. Len(ring) - 1 : Tail(ring)[j] = ring[j + 1]
    BY <1>1, <1>5
  <2>3. Appended(1, e)
    BY <1>1, <1>5, <2>1, <2>2 DEF Appended
  <2> QED BY <1>1, <1>2, <1>5, <2>1, <2>3
<1> QED BY <1>3, <1>4, <1>5 DEF Trace

\* What the traced program adds to the ring, and what it then carries.
LEMMA RecordInv ==
    ASSUME TypeOK, RingOrder, RingPairs, Carried, Cursor, NEW o \in Objects, NEW ctx \in {0, 1},
           TraceSubmit(o, ctx) \/ TraceComplete(o) \/ TraceOther(o)
    PROVE  TypeOK' /\ RingOrder' /\ RingPairs' /\ Carried'
<1> DEFINE name == IF TraceSubmit(o, ctx) THEN "NVME_IO_SUBMIT"
                   ELSE IF TraceComplete(o) THEN "NVME_IO_COMPLETE" ELSE "OTHER"
           arg == IF name = "NVME_IO_SUBMIT" THEN ctx
                  ELSE IF name = "NVME_IO_COMPLETE" THEN pending[o].ctx ELSE 0
           born == IF name = "NVME_IO_COMPLETE" THEN pending[o].tsc ELSE tsc + 1
           e == [tpoint |-> name, object_id |-> o, ctx |-> arg, tsc |-> tsc + 1, born |-> born]
<1>1. Trace(name, o, arg, born)
  BY DEF TraceSubmit, TraceComplete, TraceOther
<1>2. name \in Names \cup {"OTHER"} /\ arg \in {0, 1} /\ born \in Times
  BY <1>1, Words DEF Names, TypeOK, Trace, Times
<1>3. /\ tsc' = tsc + 1 /\ tsc' \in Times /\ tsc \in Nat
      /\ ring' \in Seq(RingEntry) /\ Len(ring') <= RingSize
      /\ \/ lossy /\ ring' = ring
         \/ \E f \in {0, 1} : f <= Len(ring) /\ Appended(f, e)
  <2>1. tsc \in Nat
    BY DEF TypeOK, Times
  <2> HIDE DEF name, arg, born
  <2> QED BY <1>1, <1>2, <2>1, RingStep
<1>4. UNCHANGED <<lossy, phase, catcherVars>> /\ phase = "recording"
  BY <1>1 DEF Trace
<1>5. /\ name = "NVME_IO_COMPLETE" => pending[o] # Idle
      /\ name = "NVME_IO_SUBMIT" => pending[o] = Idle
      /\ pending' = CASE name = "NVME_IO_SUBMIT" ->
                            [pending EXCEPT ![o] = [tsc |-> tsc + 1, ctx |-> ctx]]
                      [] name = "NVME_IO_COMPLETE" -> [pending EXCEPT ![o] = Idle]
                      [] OTHER -> pending
  BY DEF TraceSubmit, TraceComplete, TraceOther, Names
<1>t. TypeOK'
  <2>1. pending' \in [Objects -> [tsc : Times, ctx : {0, 1}]]
    BY <1>1, <1>5, Words, SMTT(60) DEF TypeOK, Idle, Times, Trace
  <2>2. pos = 0 /\ Len(ring') \in Nat
    BY <1>3, <1>4 DEF Cursor
  <2> QED BY <1>3, <1>4, <2>1, <2>2 DEF TypeOK, catcherVars, displayVars, RingEntry
<1>r. ring \in Seq(RingEntry) /\ Len(ring) \in Nat
  BY DEF TypeOK, RingEntry
<1>c. name = "NVME_IO_COMPLETE" => born < tsc + 1
  BY <1>3, <1>5 DEF Carried
<1>e. /\ e.tpoint = name /\ e.object_id = o /\ e.ctx = arg /\ e.tsc = tsc + 1 /\ e.born = born
      /\ name # "NVME_IO_COMPLETE" => born = tsc + 1
      /\ name = "NVME_IO_COMPLETE" => born = pending[o].tsc /\ arg = pending[o].ctx
      /\ name = "NVME_IO_SUBMIT" => arg = ctx
  OBVIOUS
<1>n. born \in Nat /\ tsc \in Nat
  BY <1>2, <1>3 DEF Times
<1> HIDE DEF name, arg, born, e
<1>o. RingOrder'
  <2>1. CASE lossy /\ ring' = ring
    BY <1>3, <1>r, <2>1 DEF RingOrder
  <2>2. ASSUME NEW f \in {0, 1}, f <= Len(ring), Appended(f, e) PROVE RingOrder'
    <3>1. /\ Len(ring') = Len(ring) + 1 - f /\ Len(ring') \in Nat \ {0}
          /\ ring'[Len(ring')] = e
          /\ \A j \in 1 .. Len(ring') - 1 : j + f \in 1 .. Len(ring) /\ ring'[j] = ring[j + f]
      BY <1>r, <2>2, Shifted
    <3>2. \A j \in 1 .. Len(ring') - 1 :
              /\ ring'[j].tsc \in 1 .. tsc
              /\ IF ring'[j].tpoint = "NVME_IO_COMPLETE" THEN ring'[j].born < ring'[j].tsc
                 ELSE ring'[j].born = ring'[j].tsc
      BY <3>1 DEF RingOrder
    <3>3. e.tsc \in 1 .. tsc' /\ \A n \in 1 .. tsc : n \in 1 .. tsc' /\ n < e.tsc
      BY <1>3, <1>e, <1>n
    <3>4. IF e.tpoint = "NVME_IO_COMPLETE" THEN e.born < e.tsc ELSE e.born = e.tsc
      BY <1>c, <1>e
    <3>5. \A j \in 1 .. Len(ring') :
              /\ ring'[j].tsc \in 1 .. tsc'
              /\ IF ring'[j].tpoint = "NVME_IO_COMPLETE" THEN ring'[j].born < ring'[j].tsc
                 ELSE ring'[j].born = ring'[j].tsc
      <4> SUFFICES ASSUME NEW j \in 1 .. Len(ring')
                   PROVE  /\ ring'[j].tsc \in 1 .. tsc'
                          /\ IF ring'[j].tpoint = "NVME_IO_COMPLETE" THEN ring'[j].born < ring'[j].tsc
                             ELSE ring'[j].born = ring'[j].tsc
        OBVIOUS
      <4>1. CASE j = Len(ring')
        BY <3>1, <3>3, <3>4, <4>1
      <4>2. CASE j \in 1 .. Len(ring') - 1
        BY <3>2, <3>3, <4>2
      <4> QED BY <3>1, <4>1, <4>2
    <3>6. ASSUME NEW j \in 1 .. Len(ring'), NEW k \in 1 .. Len(ring'), j < k
          PROVE  ring'[j].tsc < ring'[k].tsc
      <4>1. CASE k = Len(ring')
        <5>1. j \in 1 .. Len(ring') - 1 /\ ring'[k] = e
          BY <3>1, <3>6, <4>1
        <5>2. ring'[j].tsc \in 1 .. tsc
          BY <3>2, <5>1
        <5> QED BY <3>3, <5>1, <5>2
      <4>2. CASE k < Len(ring')
        <5>1. ring'[j] = ring[j + f] /\ ring'[k] = ring[k + f]
          BY <3>1, <3>6, <4>2
        <5>2. j + f \in 1 .. Len(ring) /\ k + f \in 1 .. Len(ring) /\ j + f < k + f
          BY <3>1, <3>6, <4>2
        <5> QED BY <5>1, <5>2 DEF RingOrder
      <4> QED BY <3>1, <4>1, <4>2
    <3> QED BY <3>5, <3>6 DEF RingOrder
  <2> QED BY <1>3, <2>1, <2>2
<1>p. RingPairs'
  <2>1. CASE lossy /\ ring' = ring
    BY <1>3, <1>4, <1>r, <2>1 DEF RingPairs, Carries, Submits
  <2>2. ASSUME NEW f \in {0, 1}, f <= Len(ring), Appended(f, e) PROVE RingPairs'
    <3>1. /\ Len(ring') = Len(ring) + 1 - f /\ Len(ring') \in Nat \ {0}
          /\ ring'[Len(ring')] = e
          /\ \A j \in 1 .. Len(ring') - 1 : j + f \in 1 .. Len(ring) /\ ring'[j] = ring[j + f]
      BY <1>r, <2>2, Shifted
    <3> SUFFICES ASSUME NEW k \in 1 .. Len(ring'), ring'[k].tpoint = "NVME_IO_COMPLETE"
                 PROVE  /\ \A j \in 1 .. k - 1 :
                              ring'[j].object_id = ring'[k].object_id /\ ring'[j].tpoint \in Names
                                => ring'[j].tsc <= ring'[k].born
                        /\ ~lossy' /\ ring'[1].tsc <= ring'[k].born =>
                              \E s \in 1 .. k - 1 :
                                  Carries(ring', s, ring'[k].object_id, ring'[k].born, ring'[k].ctx)
      BY DEF RingPairs
    <3>2. CASE k = Len(ring')
      <4>1. ring'[k] = e /\ pending[o] # Idle /\ name = "NVME_IO_COMPLETE"
        BY <1>5, <1>e, <3>1, <3>2
      <4>2. \A j \in 1 .. k - 1 : ring'[j].object_id = o /\ ring'[j].tpoint \in Names
                => ring'[j].tsc <= born
        BY <1>e, <3>1, <3>2, <4>1 DEF Carried
      <4>3. ASSUME ~lossy, ring'[1].tsc <= born
            PROVE  \E s \in 1 .. k - 1 : Carries(ring', s, o, born, arg)
        <5>1. k > 1 /\ ring'[1] = ring[1 + f] /\ ring # <<>>
          BY <1>3, <1>c, <1>e, <1>n, <1>r, <3>1, <3>2, <4>1, <4>3, SMTT(60)
        <5>2. ring[1].tsc <= ring[1 + f].tsc /\ 1 + f \in 1 .. Len(ring)
          BY <1>n, <1>r, <3>1, <3>2, <5>1 DEF RingOrder
        <5>3. ring[1].tsc <= pending[o].tsc
          BY <1>e, <1>r, <3>1, <4>1, <4>3, <5>1, <5>2, SMTT(60) DEF Carried, RingOrder
        <5>4. PICK s \in 1 .. Len(ring) : Carries(ring, s, o, pending[o].tsc, pending[o].ctx)
          BY <4>1, <4>3, <5>1, <5>3 DEF Carried
        <5>5. s >= 1 + f
          <6>1. ring[s].tsc = born /\ ring[1 + f].tsc <= born
            BY <1>e, <4>1, <4>3, <5>1, <5>4 DEF Carries
          <6>2. s < 1 + f => ring[s].tsc < ring[1 + f].tsc
            BY <1>r, <5>2, <5>4 DEF RingOrder
          <6>3. ring[s].tsc \in Int /\ ring[1 + f].tsc \in Int
            BY <5>2, <5>4 DEF RingOrder
          <6>4. s \in Int /\ f \in Int
            BY <5>4
          <6> QED BY ONLY <6>1, <6>2, <6>3, <6>4
        <5>6. s - f \in 1 .. k - 1 /\ ring'[s - f] = ring[s]
          BY <1>r, <3>1, <3>2, <5>4, <5>5
        <5> QED BY <1>e, <4>1, <5>4, <5>6 DEF Carries, Submits
      <4> QED BY <1>4, <1>e, <4>1, <4>2, <4>3
    <3>3. CASE k < Len(ring')
      <4>1. k + f \in 1 .. Len(ring) /\ ring'[k] = ring[k + f]
            /\ ring[k + f].tpoint = "NVME_IO_COMPLETE"
        BY <3>1, <3>3
      <4>2. \A j \in 1 .. k - 1 : j + f \in 1 .. k + f - 1 /\ ring'[j] = ring[j + f]
        BY <3>1, <3>3
      <4>3. \A j \in 1 .. k - 1 :
                ring'[j].object_id = ring'[k].object_id /\ ring'[j].tpoint \in Names
                  => ring'[j].tsc <= ring'[k].born
        <5> TAKE j \in 1 .. k - 1
        <5>1. j + f \in 1 .. (k + f) - 1 /\ ring'[j] = ring[j + f]
          BY <4>2
        <5> QED BY <4>1, <5>1 DEF RingPairs
      <4>4. ASSUME ~lossy, ring'[1].tsc <= ring'[k].born
            PROVE  \E s \in 1 .. k - 1 :
                       Carries(ring', s, ring'[k].object_id, ring'[k].born, ring'[k].ctx)
        <5>1. ring'[1] = ring[1 + f] /\ 1 + f \in 1 .. Len(ring)
          BY <3>1, <3>3
        <5>2. ring[1].tsc <= ring[1 + f].tsc /\ ring[1].tsc \in Nat /\ ring[1 + f].tsc \in Nat
          BY <1>r, <3>1, <5>1 DEF RingOrder
        <5>3. ring[k + f].born \in Nat
          <6>1. ring[k + f] \in RingEntry
            BY <1>r, <4>1
          <6> QED BY <6>1 DEF RingEntry, Times
        <5>4. ring[1].tsc <= ring[k + f].born
          BY <4>1, <4>4, <5>1, <5>2, <5>3
        <5>5. PICK s \in 1 .. k + f - 1 :
                  Carries(ring, s, ring[k + f].object_id, ring[k + f].born, ring[k + f].ctx)
          BY <4>1, <4>4, <5>4 DEF RingPairs
        <5>6. s >= 1 + f
          BY <1>r, <4>1, <4>4, <5>1, <5>2, <5>5 DEF RingOrder, Carries
        <5>7. s - f \in 1 .. k - 1 /\ s - f \in 1 .. Len(ring') - 1 /\ (s - f) + f = s
          BY <3>1, <3>3, <5>5, <5>6
        <5>8. ring'[s - f] = ring[s]
          BY <3>1, <5>7
        <5> QED BY <4>1, <5>5, <5>7, <5>8 DEF Carries, Submits
      <4> QED BY <1>4, <4>3, <4>4
    <3> QED BY <3>1, <3>2, <3>3, SMTT(60)
  <2> QED BY <1>3, <2>1, <2>2
<1>w. Carried'
  <2> SUFFICES ASSUME NEW x \in Objects, pending'[x] # Idle
               PROVE  /\ pending'[x].tsc \in 1 .. tsc'
                      /\ \A j \in 1 .. Len(ring') :
                            ring'[j].object_id = x /\ ring'[j].tpoint \in Names
                              => ring'[j].tsc <= pending'[x].tsc
                      /\ ~lossy' /\ ring' # <<>> /\ ring'[1].tsc <= pending'[x].tsc =>
                            \E s \in 1 .. Len(ring') :
                                Carries(ring', s, x, pending'[x].tsc, pending'[x].ctx)
    BY DEF Carried, Idle
  <2>1. \/ x = o /\ name = "NVME_IO_SUBMIT" /\ pending'[x] = [tsc |-> tsc + 1, ctx |-> ctx]
        \/ /\ pending'[x] = pending[x] /\ pending[x] # Idle
           /\ x = o => name = "OTHER"
    BY <1>2, <1>5 DEF TypeOK, Names
  <2>2. pending'[x].tsc \in 1 .. tsc'
    BY <1>3, <2>1 DEF Carried
  <2>3. CASE lossy /\ ring' = ring
    BY <1>3, <1>4, <1>r, <2>1, <2>2, <2>3 DEF Carried, RingOrder
  <2>4. ASSUME NEW f \in {0, 1}, f <= Len(ring), Appended(f, e)
        PROVE  /\ \A j \in 1 .. Len(ring') :
                     ring'[j].object_id = x /\ ring'[j].tpoint \in Names
                       => ring'[j].tsc <= pending'[x].tsc
               /\ ~lossy /\ ring'[1].tsc <= pending'[x].tsc =>
                     \E s \in 1 .. Len(ring') :
                         Carries(ring', s, x, pending'[x].tsc, pending'[x].ctx)
    <3>1. /\ Len(ring') = Len(ring) + 1 - f /\ Len(ring') \in Nat \ {0}
          /\ ring'[Len(ring')] = e
          /\ \A j \in 1 .. Len(ring') - 1 : j + f \in 1 .. Len(ring) /\ ring'[j] = ring[j + f]
      BY <1>r, <2>4 DEF Appended
    <3>2. \A j \in 1 .. Len(ring') :
              ring'[j].object_id = x /\ ring'[j].tpoint \in Names => ring'[j].tsc <= pending'[x].tsc
      <4> SUFFICES ASSUME NEW j \in 1 .. Len(ring'), ring'[j].object_id = x,
                          ring'[j].tpoint \in Names
                   PROVE  ring'[j].tsc <= pending'[x].tsc
        OBVIOUS
      <4>1. CASE j = Len(ring')
        BY <1>3, <1>e, <2>1, <3>1, <4>1 DEF Names
      <4>2. CASE j < Len(ring')
        <5>1. ring'[j] = ring[j + f] /\ j + f \in 1 .. Len(ring)
          BY <3>1, <4>2
        <5>2. ring[j + f].tsc \in 1 .. tsc
          BY <5>1 DEF RingOrder
        <5>3. CASE pending'[x].tsc = tsc + 1
          BY <1>3, <5>1, <5>2, <5>3
        <5>4. CASE pending'[x] = pending[x] /\ pending[x] # Idle
          BY <5>1, <5>4 DEF Carried
        <5> QED BY <2>1, <5>3, <5>4
      <4> QED BY <3>1, <4>1, <4>2
    <3>3. ASSUME ~lossy, ring'[1].tsc <= pending'[x].tsc
          PROVE  \E s \in 1 .. Len(ring') : Carries(ring', s, x, pending'[x].tsc, pending'[x].ctx)
      <4>1. CASE x = o /\ name = "NVME_IO_SUBMIT" /\ pending'[x] = [tsc |-> tsc + 1, ctx |-> ctx]
        <5>1. Carries(ring', Len(ring'), x, pending'[x].tsc, pending'[x].ctx)
          BY <1>e, <3>1, <4>1 DEF Carries, Submits
        <5> QED BY <3>1, <5>1
      <4>2. CASE pending'[x] = pending[x] /\ pending[x] # Idle
        <5>1. pending[x].tsc \in 1 .. tsc
          BY <4>2 DEF Carried
        <5>2. Len(ring') > 1 /\ ring'[1] = ring[1 + f] /\ ring # <<>> /\ 1 + f \in 1 .. Len(ring)
          BY <1>3, <1>e, <1>r, <3>1, <3>3, <4>2, <5>1
        <5>3. ring[1].tsc <= ring[1 + f].tsc /\ ring[1].tsc \in Nat /\ ring[1 + f].tsc \in Nat
          BY <1>r, <5>2 DEF RingOrder
        <5>4. ring[1].tsc <= pending[x].tsc
          BY <3>3, <4>2, <5>1, <5>2, <5>3
        <5>5. PICK s \in 1 .. Len(ring) : Carries(ring, s, x, pending[x].tsc, pending[x].ctx)
          BY <3>3, <4>2, <5>2, <5>4 DEF Carried
        <5>6. s >= 1 + f
          BY <1>r, <3>3, <4>2, <5>1, <5>2, <5>3, <5>5 DEF RingOrder, Carries
        <5>7. s - f \in 1 .. Len(ring') - 1 /\ ring'[s - f] = ring[s]
          BY <1>r, <3>1, <5>5, <5>6
        <5>8. Carries(ring', s - f, x, pending'[x].tsc, pending'[x].ctx)
          BY <4>2, <5>5, <5>7 DEF Carries, Submits
        <5> QED BY <3>1, <5>7, <5>8
      <4> QED BY <2>1, <4>1, <4>2
    <3> QED BY <3>2, <3>3
  <2> QED BY <1>3, <1>4, <2>2, <2>3, <2>4
<1> QED BY <1>t, <1>o, <1>p, <1>w
-----------------------------------------------------------------------------
(* Parsing.                                                                *)

\* What the parser knows of each object after the next entry, and what that says
\* of the entry.
LEMMA EntryFacts ==
    ASSUME TypeOK, RingOrder, Starts, NextEntry, NEW n, n = pos + 1
    PROVE  /\ n \in 1 .. Len(ring) /\ Entry = ring[n] /\ ring[n] \in RingEntry
           /\ start_next \in [Objects -> Times \cup {UINT64_MAX}]
           /\ \A o \in Objects :
                 IF start_next[o] = UINT64_MAX THEN \A m \in 1 .. n : ~Submits(ring, m, o)
                 ELSE \E s \in 1 .. n : LastSubmit(s, o, n) /\ start_next[o] = ring[s].tsc
           /\ Wanted <=> WantedAt(n)
           /\ Wanted => \E s \in 1 .. n : /\ LastSubmit(s, Entry.object_id, n)
                                         /\ object_start = ring[s].tsc
<1>1. n \in 1 .. Len(ring) /\ pos \in Nat /\ Entry = ring[n] /\ ring \in Seq(RingEntry)
  BY DEF NextEntry, TypeOK, Entry, RingEntry
<1>2. Entry \in RingEntry
  BY <1>1
<1>3. start_next \in [Objects -> Times \cup {UINT64_MAX}]
  BY <1>2 DEF TypeOK, start_next, RingEntry
<1>4. ASSUME NEW o \in Objects
      PROVE  IF start_next[o] = UINT64_MAX THEN \A m \in 1 .. n : ~Submits(ring, m, o)
             ELSE \E s \in 1 .. n : LastSubmit(s, o, n) /\ start_next[o] = ring[s].tsc
  <2>1. CASE Submits(ring, n, o)
    <3>1. start_next[o] = ring[n].tsc
      BY <1>1, <2>1 DEF TypeOK, start_next, Submits
    <3>2. ring[n].tsc # UINT64_MAX
      BY <1>1, <1>2, Words DEF RingEntry
    <3>3. LastSubmit(n, o, n)
      BY <1>1, <2>1 DEF LastSubmit
    <3> QED BY <1>1, <3>1, <3>2, <3>3
  <2>2. CASE ~Submits(ring, n, o)
    <3>1. start_next[o] = start[o]
      BY <1>1, <1>2, <2>2 DEF TypeOK, start_next, Submits, RingEntry
    <3>2. CASE start[o] = UINT64_MAX
      BY <1>1, <2>2, <3>1, <3>2 DEF Starts
    <3>3. CASE start[o] # UINT64_MAX
      <4>1. PICK s \in 1 .. pos : LastSubmit(s, o, pos) /\ start[o] = ring[s].tsc
        BY <3>3 DEF Starts
      <4>2. s \in 1 .. n /\ LastSubmit(s, o, n)
        BY <1>1, <2>2, <4>1 DEF LastSubmit
      <4> QED BY <3>1, <3>3, <4>1, <4>2
    <3> QED BY <3>2, <3>3
  <2> QED BY <2>1, <2>2
<1>5. Entry.object_id \in Objects
  BY <1>2 DEF RingEntry
<1>6. CASE object_start = UINT64_MAX
  <2>1. ~Wanted
    BY <1>6, Words DEF Wanted
  <2>2. ~WantedAt(n)
    BY <1>1, <1>4, <1>5, <1>6 DEF WantedAt, object_start
  <2> QED BY <1>1, <1>2, <1>3, <1>4, <2>1, <2>2
<1>7. CASE object_start # UINT64_MAX
  <2>1. PICK s \in 1 .. n : LastSubmit(s, Entry.object_id, n) /\ object_start = ring[s].tsc
    BY <1>4, <1>5, <1>7 DEF object_start
  <2>2. object_start < Bit63
    BY <1>3, <1>5, <1>7, Words DEF object_start, Times
  <2>3. Wanted <=> WantedAt(n)
    BY <1>1, <2>1, <2>2 DEF Wanted, WantedAt, LastSubmit, Names
  <2> QED BY <1>1, <1>2, <1>3, <1>4, <2>1, <2>3
<1> QED BY <1>6, <1>7

\* The entry that is written is the one its position makes, and it is not before
\* the base.
LEMMA WriteFacts ==
    ASSUME IInv, Write, NEW n, n = pos + 1
    PROVE  /\ WantedAt(n) /\ n \in 1 .. Len(ring)
           /\ g_tsc_base' \in Times \ {0} /\ g_tsc_base' <= ring[n].tsc
           /\ \/ g_tsc_base' = g_tsc_base
              \/ g_tsc_base = 0 /\ g_tsc_base' = ring[n].tsc /\ output = <<>>
           /\ trace_io_entry \in FileEntry
           /\ \E s \in 1 .. n : LastSubmit(s, ring[n].object_id, n) /\ trace_io_entry = EntryOf(n, s)'
           /\ output' = Stored(trace_io_entry)
<1>1. /\ NextEntry /\ Wanted /\ TypeOK /\ RingOrder /\ Starts /\ Base /\ Written
      /\ g_tsc_base' = base_next /\ UNCHANGED ring
  BY DEF IInv, Write, recorderVars
<1>2. n \in 1 .. Len(ring) /\ Entry = ring[n] /\ ring[n] \in RingEntry /\ WantedAt(n)
  BY <1>1, EntryFacts
<1>3. PICK s \in 1 .. n : LastSubmit(s, ring[n].object_id, n) /\ object_start = ring[s].tsc
  BY <1>1, <1>2, EntryFacts
<1>4. ring[n].tsc \in Times \ {0} /\ ring[s].tsc \in Times /\ ring[s].tsc <= ring[n].tsc
  <2>1. s \in 1 .. Len(ring) /\ (s = n \/ s < n)
    BY <1>2, <1>3
  <2>2. ring[n].tsc \in 1 .. tsc /\ ring[s].tsc \in 1 .. tsc /\ (s < n => ring[s].tsc < ring[n].tsc)
    BY <1>1, <1>2, <2>1 DEF RingOrder
  <2>3. tsc \in 0 .. MaxTsc /\ MaxTsc \in Nat
    BY <1>1, Words DEF TypeOK, Times
  <2> QED BY <2>1, <2>2, <2>3 DEF Times
\* Times in the ring increase, so the base never lies behind the entry.
<1>5. /\ base_next \in Times \ {0} /\ base_next <= ring[n].tsc
      /\ \/ base_next = g_tsc_base
         \/ g_tsc_base = 0 /\ base_next = ring[n].tsc /\ output = <<>>
  <2>1. CASE g_tsc_base = 0
    <3>1. base_next = ring[n].tsc
      BY <1>2, <2>1 DEF base_next
    <3>2. Len(output) = 0
      <4>1. \A j \in 1 .. pos : ~WantedAt(j)
        BY <1>1, <2>1 DEF Base
      <4>2. \A k \in 1 .. Len(output) : FALSE
        BY <1>1, <4>1 DEF Written, Makes
      <4>3. Len(output) \in Nat
        BY <1>1 DEF TypeOK
      <4> QED BY <4>2, <4>3
    <3>3. output = <<>>
      BY <1>1, <3>2 DEF TypeOK
    <3> QED BY <1>4, <2>1, <3>1, <3>3 DEF Times
  <2>2. CASE g_tsc_base # 0
    <3>1. base_next = g_tsc_base /\ g_tsc_base \in Times \ {0}
      BY <1>1, <2>2 DEF base_next, TypeOK
    <3>2. g_tsc_base <= ring[n].tsc
      <4>1. PICK b \in 1 .. pos : g_tsc_base = ring[b].tsc
        BY <1>1, <2>2 DEF Base
      <4>2. b \in 1 .. Len(ring) /\ b < n
        BY <1>1, <1>2 DEF NextEntry, TypeOK
      <4>3. ring[b].tsc < ring[n].tsc /\ ring[b].tsc \in 1 .. tsc /\ ring[n].tsc \in 1 .. tsc
        BY <1>1, <1>2, <4>2 DEF RingOrder
      <4> QED BY <4>1, <4>3
    <3> QED BY <3>1, <3>2
  <2> QED BY <2>1, <2>2
<1>6. /\ Minus(ring[n].tsc, base_next) = ring[n].tsc - base_next
      /\ Minus(ring[n].tsc, ring[s].tsc) = ring[n].tsc - ring[s].tsc
      /\ \A a, b \in Times : Minus(a, b) \in 0 .. UINT64_MAX
  BY <1>4, <1>5, MinusFacts
<1>7. trace_io_entry = EntryOf(n, s)'
  BY <1>1, <1>2, <1>3, <1>6 DEF trace_io_entry, EntryOf
<1>8. trace_io_entry \in FileEntry
  <2>1. ring[n].tpoint \in Names /\ ring[n].object_id \in Objects
    BY <1>1, <1>2 DEF Wanted, RingEntry
  <2>2. /\ Minus(ring[n].tsc, base_next) \in 0 .. UINT64_MAX
        /\ Minus(object_start, base_next) \in 0 .. UINT64_MAX
        /\ Minus(ring[n].tsc, object_start) \in 0 .. UINT64_MAX
        /\ 0 \in 0 .. UINT64_MAX
    BY <1>3, <1>4, <1>5, <1>6, Words
  <2> QED BY <1>2, <2>1, <2>2 DEF trace_io_entry, FileEntry
<1>9. output' = Stored(trace_io_entry)
  BY <1>2, <1>4, <1>5 DEF Write, Times
<1> QED BY <1>1, <1>2, <1>3, <1>5, <1>7, <1>8, <1>9
-----------------------------------------------------------------------------
(* The invariant holds initially and every step preserves it.              *)

\* The inductive invariant holds before the catcher starts.
LEMMA InitInv == Init => IInv
<1> SUFFICES ASSUME Init PROVE IInv
  OBVIOUS
<1>1. TypeOK
  <2>1. 0 \in Times /\ UINT64_MAX \in Nat
    BY Words DEF Times
  <2>2. Len(ring) = 0 /\ Len(output) = 0
    BY DEF Init
  <2> QED BY <2>1, <2>2, CatcherAssumption DEF Init, TypeOK, Idle
<1>2. Len(ring) = 0 /\ Len(output) = 0 /\ pos = 0
  BY DEF Init
<1>3. RingOrder /\ RingPairs /\ Carried
  BY <1>2 DEF Init, RingOrder, RingPairs, Carried, Idle
<1>4. Cursor /\ Starts /\ Base
  BY <1>2 DEF Init, Cursor, Starts, Base
<1>5. WantedUpTo(pos) = {}
  BY <1>2 DEF WantedUpTo
<1>6. Written /\ Kept /\ Ordered /\ Counted
  BY <1>2, <1>5, FS_EmptySet DEF Written, Kept, Ordered, Counted
<1> QED BY <1>1, <1>3, <1>4, <1>6 DEF IInv

\* While nothing is parsed nothing is known.
LEMMA NothingParsed ==
    ASSUME TypeOK, Starts, Base, pos = 0, output = <<>>,
           UNCHANGED <<pos, start, g_tsc_base, output>>
    PROVE  Starts' /\ Base' /\ Written' /\ Kept' /\ Ordered' /\ Counted'
<1>1. Len(output') = 0 /\ pos' = 0
  BY DEF TypeOK
<1>2. WantedUpTo(pos)' = {}
  BY <1>1 DEF WantedUpTo
<1> QED BY <1>1, <1>2, FS_EmptySet DEF Starts, Base, Written, Kept, Ordered, Counted

\* What the parser and the file have depends on nothing else.
LEMMA NothingMore ==
    ASSUME Starts, Base, Written, Kept, Ordered, Counted,
           UNCHANGED <<ring, pos, start, g_tsc_base, output, room>>
    PROVE  Starts' /\ Base' /\ Written' /\ Kept' /\ Ordered' /\ Counted'
<1>1. \A o, s, n : LastSubmit(s, o, n)' <=> LastSubmit(s, o, n)
  BY DEF LastSubmit, Submits
<1>2. \A j : WantedAt(j)' <=> WantedAt(j)
  BY DEF WantedAt, Submits
<1>3. \A j, s : EntryOf(j, s)' = EntryOf(j, s)
  BY DEF EntryOf
<1>4. \A j, k : Makes(j, k)' <=> Makes(j, k)
  BY <1>1, <1>2, <1>3 DEF Makes
<1>5. WantedUpTo(pos)' = WantedUpTo(pos)
  BY <1>2 DEF WantedUpTo
<1> QED BY <1>1, <1>2, <1>4, <1>5 DEF Starts, Base, Written, Kept, Ordered, Counted, Submits

\* A parsing step leaves the ring and its reader's knowledge in order.
LEMMA ParserStep ==
    ASSUME IInv, NextEntry, UNCHANGED <<recorderVars, phase>>
    PROVE  RingOrder' /\ RingPairs' /\ Carried' /\ Cursor' /\ Starts'
<1>1. TypeOK /\ RingOrder /\ RingPairs /\ Carried /\ Starts
  BY DEF IInv
<1>2. RingOrder' /\ RingPairs' /\ Carried'
  BY <1>1 DEF RingOrder, RingPairs, Carried, Carries, Submits, recorderVars
<1>3. Cursor'
  BY DEF NextEntry, Cursor
<1> DEFINE n == pos + 1
<1>4. \A o \in Objects :
          IF start_next[o] = UINT64_MAX THEN \A m \in 1 .. n : ~Submits(ring, m, o)
          ELSE \E s \in 1 .. n : LastSubmit(s, o, n) /\ start_next[o] = ring[s].tsc
  BY <1>1, EntryFacts
<1>5. pos' = n /\ start' = start_next /\ ring' = ring
  BY DEF NextEntry, recorderVars
<1>6. Starts'
  BY <1>4, <1>5 DEF Starts, LastSubmit, Submits
<1> QED BY <1>2, <1>3, <1>6

\* An entry that is not written keeps the invariant.
LEMMA SkipInv == IInv /\ Skip => IInv'
<1> SUFFICES ASSUME IInv, Skip PROVE IInv'
  OBVIOUS
<1>1. /\ TypeOK /\ RingOrder /\ Starts /\ Base /\ Written /\ Kept /\ Ordered /\ Counted
      /\ NextEntry /\ UNCHANGED <<recorderVars, phase, g_tsc_base, output, displayVars>>
  BY DEF IInv, Skip
<1>2. RingOrder' /\ RingPairs' /\ Carried' /\ Cursor' /\ Starts'
  BY <1>1, ParserStep
<1> DEFINE n == pos + 1
<1>3. n \in 1 .. Len(ring) /\ ~WantedAt(n)
      /\ start_next \in [Objects -> Times \cup {UINT64_MAX}]
  BY <1>1, EntryFacts DEF Skip
<1>4. pos \in Nat /\ pos' = n /\ start' = start_next
  BY <1>1 DEF TypeOK, NextEntry
<1>5. TypeOK'
  BY <1>1, <1>3, <1>4 DEF TypeOK, recorderVars, displayVars
<1>6. \A j : WantedAt(j)' <=> WantedAt(j)
  BY <1>1 DEF WantedAt, Submits, recorderVars
<1>7. \A j, k : Makes(j, k)' <=> Makes(j, k)
  BY <1>1, <1>6 DEF Makes, EntryOf, LastSubmit, Submits, recorderVars
<1>8. \A j \in 1 .. pos' : j \in 1 .. pos \/ ~WantedAt(j)
  BY <1>3, <1>4
<1>9. Base'
  BY <1>1, <1>4, <1>6, <1>8 DEF Base, recorderVars
<1>10. Written' /\ Kept' /\ Ordered'
  BY <1>1, <1>4, <1>6, <1>7, <1>8, SMTT(60) DEF Written, Kept, Ordered, displayVars
<1>11. WantedUpTo(pos)' = WantedUpTo(pos)
  BY <1>4, <1>6, <1>8 DEF WantedUpTo
<1>12. Counted'
  BY <1>1, <1>11 DEF Counted, displayVars
<1> QED BY <1>2, <1>5, <1>9, <1>10, <1>12 DEF IInv

\* An entry that is written keeps the invariant: it is the one the abstract file takes next.
LEMMA WriteInv ==
    ASSUME IInv, Write, NEW n, n = pos + 1
    PROVE  IInv'
<1>1. /\ TypeOK /\ RingOrder /\ Starts /\ Base /\ Written /\ Kept /\ Ordered /\ Counted
      /\ NextEntry /\ UNCHANGED <<recorderVars, phase, displayVars>>
  BY DEF IInv, Write
<1>2. RingOrder' /\ RingPairs' /\ Carried' /\ Cursor' /\ Starts'
  BY <1>1, ParserStep
<1> DEFINE e == trace_io_entry
<1>3. /\ n \in 1 .. Len(ring) /\ ring[n] \in RingEntry
      /\ start_next \in [Objects -> Times \cup {UINT64_MAX}]
  BY <1>1, EntryFacts
<1>4. /\ WantedAt(n)
      /\ g_tsc_base' \in Times \ {0}
      /\ \/ g_tsc_base' = g_tsc_base
         \/ g_tsc_base = 0 /\ g_tsc_base' = ring[n].tsc /\ output = <<>>
      /\ e \in FileEntry
      /\ output' = Stored(e)
  BY WriteFacts
<1>5. PICK s \in 1 .. n : LastSubmit(s, ring[n].object_id, n) /\ e = EntryOf(n, s)'
  BY WriteFacts
<1>6. pos \in Nat /\ pos' = n /\ start' = start_next /\ ring' = ring /\ room' = room
  BY <1>1 DEF TypeOK, NextEntry, recorderVars, displayVars
<1>7. /\ output \in Seq(FileEntry) /\ Len(output) \in Nat /\ room \in Nat
      /\ \/ Len(output) < room /\ output' = Append(output, e)
         \/ Len(output) >= room /\ output' = output
  BY <1>1, <1>4, CatcherAssumption, SMTT(60) DEF TypeOK, FileEntry, Stored
<1> HIDE DEF e
<1>8. /\ output' \in Seq(FileEntry) /\ Len(output') \in Nat
      /\ \A k \in 1 .. Len(output) : k \in 1 .. Len(output') /\ output'[k] = output[k]
      /\ \/ /\ Len(output) < room /\ Len(output') = Len(output) + 1
            /\ output'[Len(output')] = e
         \/ Len(output) >= room /\ Len(output') = Len(output)
  BY <1>4, <1>7
<1>9. TypeOK'
  <2>1. remain_entry' \in 0 .. Len(output')
    BY <1>1, <1>8 DEF TypeOK, displayVars
  <2>2. pos' \in 0 .. Len(ring') /\ start' \in [Objects -> Times \cup {UINT64_MAX}]
    BY <1>3, <1>6
  <2>3. /\ tsc' \in Times /\ pending' \in [Objects -> [tsc : Times, ctx : {0, 1}]]
        /\ ring' \in Seq(RingEntry) /\ Len(ring') <= RingSize /\ lossy' \in BOOLEAN
        /\ phase' \in {"recording", "parsing", "display", "done", "failed"}
        /\ room' \in Rooms \cup {0}
    BY <1>1 DEF TypeOK, recorderVars, displayVars, RingEntry
  <2> QED BY <1>4, <1>8, <2>1, <2>2, <2>3 DEF TypeOK, FileEntry, RingEntry
<1>10. /\ \A j : WantedAt(j)' <=> WantedAt(j)
       /\ \A j, o, m : LastSubmit(j, o, m)' <=> LastSubmit(j, o, m)
  BY <1>6 DEF WantedAt, LastSubmit, Submits
\* Entries written before keep their places, and the base they were rebased to.
<1>11. ASSUME NEW j, NEW k \in 1 .. Len(output), Makes(j, k) PROVE Makes(j, k)'
  <2>1. g_tsc_base' = g_tsc_base
    BY <1>4, <1>7
  <2> QED BY <1>6, <1>8, <1>10, <1>11, <2>1 DEF Makes, EntryOf
<1>12. ASSUME Len(output) < room PROVE Makes(n, Len(output))'
  <2>0. WantedAt(n)'
    BY <1>4, <1>10
  <2>1. ring' = ring /\ output'[Len(output')] = e
    BY <1>6, <1>7, <1>8, <1>12
  <2>2. LastSubmit(s, ring[n].object_id, n)' /\ s \in 1 .. n
    BY <1>5, <1>10, <2>1
  <2>3. output'[Len(output')] = EntryOf(n, s)'
    BY <1>5, <2>1
  <2> QED BY <2>0, <2>1, <2>2, <2>3 DEF Makes
<1>13. \A j : j \in 1 .. pos' <=> j \in 1 .. pos \/ j = n
  BY <1>3, <1>6
<1>14. Base'
  <2>1. CASE g_tsc_base = 0
    <3>1. g_tsc_base' = ring[n].tsc
      BY <1>4, <2>1
    <3>2. \A j \in 1 .. n - 1 : ~WantedAt(j)
      BY <1>1, <1>6, <2>1 DEF Base, NextEntry
    <3> QED BY <1>4, <1>6, <1>10, <1>13, <3>1, <3>2 DEF Base
  <2>2. CASE g_tsc_base # 0
    BY <1>1, <1>4, <1>6, <1>10, <1>13, <2>2 DEF Base
  <2> QED BY <2>1, <2>2
<1>15. Written'
  <2> SUFFICES ASSUME NEW k \in 1 .. Len(output') PROVE \E j \in 1 .. pos' : Makes(j, k)'
    BY DEF Written
  <2>1. CASE k \in 1 .. Len(output)
    BY <1>1, <1>11, <1>13, <2>1 DEF Written
  <2>2. CASE k \notin 1 .. Len(output)
    <3>1. Len(output) < room /\ k = Len(output')
      BY <1>7, <1>8, <2>2
    <3> QED BY <1>12, <1>13, <3>1
  <2> QED BY <2>1, <2>2
<1>16. Kept'
  <2> SUFFICES ASSUME Len(output') < room', NEW j \in 1 .. pos', WantedAt(j)'
               PROVE  \E k \in 1 .. Len(output') : Makes(j, k)'
    BY DEF Kept
  <2>1. Len(output) < room /\ Len(output') \in 1 .. Len(output')
    BY <1>6, <1>7, <1>8
  <2>2. CASE j \in 1 .. pos
    BY <1>1, <1>8, <1>10, <1>11, <2>1, <2>2 DEF Kept
  <2>3. CASE j = n
    BY <1>12, <2>1, <2>3
  <2> QED BY <1>13, <2>2, <2>3
<1>17. Ordered'
  <2> SUFFICES ASSUME NEW k \in 1 .. Len(output'), NEW l \in 1 .. Len(output'), k < l
               PROVE  output'[k].tsc_timestamp < output'[l].tsc_timestamp
    BY DEF Ordered
  <2>1. CASE l \in 1 .. Len(output)
    BY <1>1, <1>8, <2>1 DEF Ordered
  <2>2. CASE l \notin 1 .. Len(output)
    <3>1. Len(output) < room /\ l = Len(output') /\ k \in 1 .. Len(output)
      BY <1>7, <1>8, <2>2
    <3>2. PICK j \in 1 .. pos : Makes(j, k)
      BY <1>1, <3>1 DEF Written
    <3>3. g_tsc_base' = g_tsc_base /\ g_tsc_base \in Nat
      BY <1>1, <1>4, <3>1 DEF TypeOK, Times
    <3>4. output'[k].tsc_timestamp = ring[j].tsc - g_tsc_base
      BY <1>8, <3>1, <3>2 DEF Makes, EntryOf
    <3>5. output'[l].tsc_timestamp = ring[n].tsc - g_tsc_base
      <4>1. output'[l] = e
        BY <1>7, <1>8, <3>1
      <4>2. e.tsc_timestamp = ring[n].tsc - g_tsc_base
        BY <1>5, <1>6, <3>3 DEF EntryOf
      <4> QED BY <4>1, <4>2
    <3>6. /\ ring[j].tsc < ring[n].tsc /\ ring[j].tsc \in 1 .. tsc /\ ring[n].tsc \in 1 .. tsc
          /\ tsc \in Nat
      <4>1. j \in 1 .. Len(ring) /\ n \in 1 .. Len(ring) /\ j < n
        BY <1>3, <1>6, <3>2
      <4>2. tsc \in Nat
        BY <1>1 DEF TypeOK, Times
      <4> QED BY <1>1, <4>1, <4>2 DEF RingOrder
    <3> QED BY <3>3, <3>4, <3>5, <3>6, SMTT(60)
  <2> QED BY <2>1, <2>2
<1>18. Counted'
  <2> SUFFICES ASSUME Len(output') < room'
               PROVE  Len(output') = Cardinality(WantedUpTo(pos)')
    BY DEF Counted
  <2>1. WantedUpTo(pos)' = WantedUpTo(pos) \cup {n}
    BY <1>4, <1>10, <1>13 DEF WantedUpTo
  <2>2. n \notin WantedUpTo(pos)
    BY <1>6 DEF WantedUpTo, NextEntry
  <2>3. IsFiniteSet(WantedUpTo(pos))
    <3>1. IsFiniteSet(1 .. pos)
      BY <1>6, FS_Interval
    <3>2. WantedUpTo(pos) \in SUBSET (1 .. pos)
      BY DEF WantedUpTo
    <3> QED BY <3>1, <3>2, FS_Subset
  <2>4. Cardinality(WantedUpTo(pos)') = Cardinality(WantedUpTo(pos)) + 1
    BY <2>1, <2>2, <2>3, FS_AddElement
  <2> QED BY <1>1, <1>6, <1>7, <1>8, <2>4 DEF Counted
<1> QED BY <1>2, <1>9, <1>14, <1>15, <1>16, <1>17, <1>18 DEF IInv

\* Recording leaves the parser where it stands: before the first entry.
LEMMA TracedInv ==
    ASSUME IInv, NEW o \in Objects, NEW ctx \in {0, 1},
           TraceSubmit(o, ctx) \/ TraceComplete(o) \/ TraceOther(o)
    PROVE  IInv'
<1>1. TypeOK /\ RingOrder /\ RingPairs /\ Carried /\ Cursor /\ Starts /\ Base
  BY DEF IInv
<1>2. TypeOK' /\ RingOrder' /\ RingPairs' /\ Carried'
  BY <1>1, RecordInv
<1>3. phase = "recording" /\ UNCHANGED <<phase, pos, start, g_tsc_base, output>>
  BY DEF TraceSubmit, TraceComplete, TraceOther, Trace, catcherVars
<1>4. pos = 0 /\ output = <<>>
  BY <1>1, <1>3 DEF Cursor
<1>5. Starts' /\ Base' /\ Written' /\ Kept' /\ Ordered' /\ Counted'
  BY <1>1, <1>3, <1>4, NothingParsed
<1>6. Cursor'
  BY <1>3, <1>4 DEF Cursor
<1> QED BY <1>2, <1>5, <1>6 DEF IInv

\* Steps that touch neither the ring, nor the parser, nor the file.
LEMMA QuietInv ==
    ASSUME IInv, UNCHANGED <<recorderVars, pos, start, g_tsc_base, output>>,
           room' = room \/ (pos = 0 /\ output = <<>>),
           room' \in Rooms \cup {0}, remain_entry' \in 0 .. Len(output),
           phase' \in {"recording", "parsing", "display", "done", "failed"}, Cursor'
    PROVE  IInv'
<1>1. TypeOK /\ RingOrder /\ RingPairs /\ Carried /\ Starts /\ Base /\ Written /\ Kept /\ Ordered
      /\ Counted /\ UNCHANGED <<tsc, pending, ring, lossy>>
  BY DEF IInv, recorderVars
<1>2. TypeOK'
  BY <1>1 DEF TypeOK
<1>3. RingOrder' /\ RingPairs' /\ Carried'
  BY <1>1 DEF RingOrder, RingPairs, Carried, Carries, Submits
<1>4. Starts' /\ Base' /\ Written' /\ Kept' /\ Ordered' /\ Counted'
  BY <1>1, NothingParsed, NothingMore
<1> QED BY <1>2, <1>3, <1>4 DEF IInv

\* Every step of the program, of the ring and of the catcher keeps the invariant.
LEMMA StepInv == IInv /\ [Next]_vars => IInv'
<1> SUFFICES ASSUME IInv, [Next]_vars PROVE IInv'
  OBVIOUS
<1>t. /\ room \in Rooms \cup {0} /\ remain_entry \in 0 .. Len(output) /\ Len(output) \in Nat
      /\ phase \in {"recording", "parsing", "display", "done", "failed"}
      /\ Cursor
  BY DEF IInv, TypeOK
<1> USE DEF recorderVars, catcherVars, displayVars
<1>1. ASSUME NEW o \in Objects, NEW ctx \in {0, 1},
             TraceSubmit(o, ctx) \/ TraceComplete(o) \/ TraceOther(o)
      PROVE  IInv'
  BY <1>1, TracedInv
<1>2. CASE StartFails
  BY <1>t, <1>2, QuietInv DEF StartFails, Cursor
<1>3. CASE StartCatcher
  BY <1>t, <1>3, QuietInv DEF StartCatcher, Cursor
<1>4. CASE Skip
  BY <1>4, SkipInv
<1>5. CASE Write
  BY <1>5, WriteInv
<1>6. CASE CloseOutput
  <2>1. remain_entry' \in 0 .. Len(output)
    BY <1>t, <1>6 DEF CloseOutput
  <2> QED BY <1>t, <1>6, <2>1, QuietInv DEF CloseOutput, Cursor
<1>7. CASE Display
  <2>1. remain_entry' \in 0 .. Len(output)
    BY <1>t, <1>7, CatcherAssumption DEF Display, buffer_entry
  <2> QED BY <1>t, <1>7, <2>1, QuietInv DEF Display, Cursor
<1>8. CASE DisplayFails
  BY <1>t, <1>8, QuietInv DEF DisplayFails, Cursor
<1>9. CASE DisplayDone
  BY <1>t, <1>9, QuietInv DEF DisplayDone, Cursor
<1>10. CASE UNCHANGED vars
  BY <1>t, <1>10, QuietInv DEF vars, Cursor
<1> QED BY <1>1, <1>2, <1>3, <1>4, <1>5, <1>6, <1>7, <1>8, <1>9, <1>10 DEF Next, Terminated

\* The invariant holds at every moment of a recording and of its conversion.
THEOREM Invariance == Spec => []IInv
BY InitInv, StepInv, PTL DEF Spec

\* What the catcher keeps, counts and computes has the type it is declared with;
\* nothing that is subtracted modulo 2^64 leaves the word, and the ring never
\* holds more than it has entries for.
THEOREM TypeCorrect == Spec => []TypeOK
<1>1. IInv => TypeOK
  BY DEF IInv
<1> QED BY <1>1, Invariance, PTL
-----------------------------------------------------------------------------
(* What the file says of the recording.                                    *)

\* Times in the ring tell its positions apart.
LEMMA Positions ==
    ASSUME TypeOK, RingOrder
    PROVE  /\ \A j \in 1 .. Len(ring) : /\ ring[j].tsc \in Times /\ ring[j].tsc \in Nat
                                       /\ ring[j].born \in Nat
           /\ \A i, j \in 1 .. Len(ring) : ring[i].tsc = ring[j].tsc => i = j
<1>1. tsc \in 0 .. MaxTsc /\ MaxTsc \in Nat /\ Len(ring) \in Nat /\ ring \in Seq(RingEntry)
  BY Words DEF TypeOK, Times, RingEntry
<1>2. \A j \in 1 .. Len(ring) : ring[j].tsc \in Times /\ ring[j].tsc \in Nat
  BY <1>1 DEF RingOrder, Times
<1>3. ASSUME NEW j \in 1 .. Len(ring) PROVE ring[j].born \in Nat
  <2>1. ring[j] \in RingEntry
    BY <1>1
  <2> QED BY <2>1 DEF RingEntry, Times
<1>4. ASSUME NEW i \in 1 .. Len(ring), NEW j \in 1 .. Len(ring), ring[i].tsc = ring[j].tsc
      PROVE  i = j
  <2>1. ring[i].tsc \in Nat /\ ring[j].tsc \in Nat
    BY <1>2
  <2>2. i < j \/ j < i \/ i = j
    OBVIOUS
  <2> QED BY <1>4, <2>1, <2>2 DEF RingOrder
<1> QED BY <1>2, <1>3, <1>4

\* A position that is not later has a time that is not later.
LEMMA Later ==
    ASSUME TypeOK, RingOrder, NEW i \in 1 .. Len(ring), NEW j \in 1 .. Len(ring), i <= j
    PROVE  ring[i].tsc <= ring[j].tsc
<1>1. ring[i].tsc \in Nat /\ ring[j].tsc \in Nat
  BY Positions
<1>2. i = j \/ i < j
  OBVIOUS
<1> QED BY <1>1, <1>2 DEF RingOrder

\* Nothing that is written lies before the base.
LEMMA BehindBase ==
    ASSUME TypeOK, RingOrder, Base, NEW j \in 1 .. pos, WantedAt(j)
    PROVE  /\ g_tsc_base \in Times /\ g_tsc_base <= ring[j].tsc /\ ring[j].tsc \in Times
           /\ Minus(ring[j].tsc, g_tsc_base) = ring[j].tsc - g_tsc_base
<1>1. PICK b \in 1 .. pos : g_tsc_base = ring[b].tsc /\ \A i \in 1 .. b - 1 : ~WantedAt(i)
  BY DEF Base
<1>2. pos \in 0 .. Len(ring) /\ Len(ring) \in Nat /\ g_tsc_base \in Times
  BY DEF TypeOK
<1>3. j \in 1 .. Len(ring) /\ b \in 1 .. Len(ring) /\ b <= j
  BY <1>1, <1>2
<1>4. ring[b].tsc <= ring[j].tsc
  BY <1>3, Later
<1>c. ring[j].tsc \in Times
  BY <1>3, Positions
<1>5. g_tsc_base <= ring[j].tsc
  BY <1>1, <1>4
<1> QED BY <1>2, <1>5, <1>c, MinusFacts

\* The last submission of its object before a completion is not later than the
\* submission of its command, and is that one if nothing was lost in between.
LEMMA Answered ==
    ASSUME IInv, NEW j \in 1 .. Len(ring), ring[j].tpoint = "NVME_IO_COMPLETE",
           NEW s \in 1 .. j, LastSubmit(s, ring[j].object_id, j)
    PROVE  /\ s \in 1 .. j - 1 /\ ring[s].tsc <= ring[j].born
           /\ ~lossy => ring[s].tsc = ring[j].born /\ ring[s].ctx = ring[j].ctx
<1>1. TypeOK /\ RingOrder /\ RingPairs /\ Len(ring) \in Nat
  BY DEF IInv, TypeOK
<1>2. Submits(ring, s, ring[j].object_id) /\ s # j
  BY DEF LastSubmit, Submits
<1>3. s \in 1 .. j - 1
  BY <1>2
<1>4. ring[s].tsc <= ring[j].born
  BY <1>1, <1>2, <1>3 DEF RingPairs, Submits, Names
<1>5. ASSUME ~lossy PROVE ring[s].tsc = ring[j].born /\ ring[s].ctx = ring[j].ctx
  <2>1. s \in 1 .. Len(ring) /\ 1 \in 1 .. Len(ring) /\ 1 <= s
    BY <1>1, <1>3
  <2>2. ring[1].tsc <= ring[s].tsc
    BY <1>1, <2>1, Later
  <2>3. ring[j].born \in Nat /\ ring[1].tsc \in Nat /\ ring[s].tsc \in Nat
    BY <1>1, <2>1, Positions
  <2>4. ring[1].tsc <= ring[j].born
    BY <1>4, <2>2, <2>3
  <2>5. PICK i \in 1 .. j - 1 : Carries(ring, i, ring[j].object_id, ring[j].born, ring[j].ctx)
    BY <1>1, <1>5, <2>4 DEF RingPairs
  <2>6. ~(i \in s + 1 .. j)
    BY <2>5 DEF LastSubmit, Carries
  <2>7. i \in 1 .. Len(ring) /\ i <= s
    BY <1>1, <1>3, <2>5, <2>6
  <2>8. ring[i].tsc <= ring[s].tsc /\ ring[i].tsc = ring[j].born
    <3>1. ring[i].tsc <= ring[s].tsc
      BY <1>1, <2>1, <2>7, Later
    <3> QED BY <2>5, <3>1 DEF Carries
  <2>9. ring[i].tsc = ring[s].tsc
    BY <1>4, <2>2, <2>3, <2>8
  <2>10. i = s
    BY <1>1, <2>1, <2>7, <2>9, Positions
  <2> QED BY <2>5, <2>10 DEF Carries
<1> QED BY <1>3, <1>4, <1>5

\* The ring entry an output entry was made from is found by its time.
LEMMA SourceFound ==
    ASSUME IInv, NEW k \in 1 .. Len(output), NEW j \in 1 .. pos, Makes(j, k)
    PROVE  Source(k) = ring[j]
<1>1. TypeOK /\ RingOrder /\ Base /\ pos \in 0 .. Len(ring) /\ Len(ring) \in Nat
  BY DEF IInv, TypeOK
<1>2. WantedAt(j) /\ output[k].tsc_timestamp = ring[j].tsc - g_tsc_base
  BY DEF Makes, EntryOf
<1>3. /\ g_tsc_base \in Times /\ ring[j].tsc \in Times
      /\ Minus(ring[j].tsc, g_tsc_base) = output[k].tsc_timestamp
  BY <1>1, <1>2, BehindBase
<1> DEFINE entries == {ring[i] : i \in 1 .. pos}
<1>4. ASSUME NEW e \in entries, Minus(e.tsc, g_tsc_base) = output[k].tsc_timestamp
      PROVE  e = ring[j]
  <2>1. PICK i \in 1 .. pos : e = ring[i]
    OBVIOUS
  <2>2. i \in 1 .. Len(ring) /\ j \in 1 .. Len(ring)
    BY <1>1
  <2>3. ring[i].tsc \in Times
    BY <1>1, <2>2, Positions
  <2>4. ring[i].tsc = ring[j].tsc
    BY <1>3, <1>4, <2>1, <2>3, MinusInjective
  <2>5. i = j
    BY <1>1, <2>2, <2>4, Positions
  <2> QED BY <2>1, <2>5
<1>5. ring[j] \in entries
  OBVIOUS
<1> QED BY <1>3, <1>4, <1>5 DEF Source

\* The service time of a completion is never shorter than the time from the
\* submission of its own command, and is exactly that time when the recorder lost
\* nothing, whatever the ring has overwritten and however often the request
\* object has been used.
THEOREM ServiceTimeCorrect == Spec => []ServiceTimeExact
<1>1. IInv => ServiceTimeExact
  <2> SUFFICES ASSUME IInv, NEW k \in Completions
               PROVE  LET time == Source(k).tsc - Source(k).born
                      IN /\ output[k].tsc_sc_time >= time
                         /\ ~lossy => output[k].tsc_sc_time = time
    BY DEF ServiceTimeExact
  <2>1. k \in 1 .. Len(output) /\ output[k].tpoint_name = "NVME_IO_COMPLETE"
    BY DEF Completions
  <2>2. PICK j \in 1 .. pos : Makes(j, k)
    BY <2>1 DEF IInv, Written
  <2>3. PICK s \in 1 .. j : LastSubmit(s, ring[j].object_id, j) /\ output[k] = EntryOf(j, s)
    BY <2>2 DEF Makes
  <2>4. ring[j].tpoint = "NVME_IO_COMPLETE" /\ output[k].tsc_sc_time = ring[j].tsc - ring[s].tsc
    BY <2>1, <2>3 DEF EntryOf
  <2>5. j \in 1 .. Len(ring) /\ s \in 1 .. Len(ring)
    BY DEF IInv, TypeOK
  <2>6. ring[s].tsc <= ring[j].born /\ (~lossy => ring[s].tsc = ring[j].born)
    BY <2>3, <2>4, <2>5, Answered
  <2>7. ring[s].tsc \in Nat /\ ring[j].tsc \in Nat
    BY <2>5, Positions DEF IInv
  <2>8. ring[j].born \in Nat
    BY <2>5, Positions DEF IInv
  <2>9. Source(k) = ring[j]
    BY <2>1, <2>2, SourceFound
  <2> QED BY <2>4, <2>6, <2>7, <2>8, <2>9
<1> QED BY <1>1, Invariance, PTL

\* The parser finds the submission of exactly those commands whose submission the
\* ring still has.
LEMMA PairedIsWanted ==
    ASSUME IInv, NEW j \in 1 .. Len(ring), ring[j].tpoint \in Names, ring[j].ctx = 0
    PROVE  Paired(j) <=> WantedAt(j)
<1>1. TypeOK /\ RingOrder /\ RingPairs /\ Len(ring) \in Nat
  BY DEF IInv, TypeOK
<1>2. CASE lossy
  BY <1>2 DEF Paired, WantedAt, Submits
<1>3. CASE ring[j].tpoint = "NVME_IO_SUBMIT"
  <2>1. ring[j].born = ring[j].tsc /\ j \in 1 .. j
    BY <1>1, <1>3 DEF RingOrder
  <2> QED BY <1>3, <2>1 DEF Paired, WantedAt, Submits
<1>4. CASE ~lossy /\ ring[j].tpoint = "NVME_IO_COMPLETE"
  <2>1. ring[j].born \in Nat
    BY <1>1, Positions
  <2>2. ASSUME NEW s \in 1 .. j, ring[s].tsc <= ring[j].born, ring[s].tpoint = "NVME_IO_SUBMIT"
        PROVE  Paired(j) /\ WantedAt(j)
    <3>1. s \in 1 .. Len(ring) /\ 1 \in 1 .. Len(ring) /\ 1 <= s
      BY <1>1
    <3>2. ring[1].tsc <= ring[s].tsc
      BY <1>1, <3>1, Later
    <3>n. ring[1].tsc \in Nat /\ ring[s].tsc \in Nat
      BY <1>1, <3>1, Positions
    <3>3. ring[1].tsc <= ring[j].born
      BY <2>1, <2>2, <3>2, <3>n
    <3>4. PICK i \in 1 .. j - 1 : Carries(ring, i, ring[j].object_id, ring[j].born, ring[j].ctx)
      BY <1>1, <1>4, <3>3 DEF RingPairs
    <3>5. i \in 1 .. j
      BY <3>4
    <3> QED BY <1>4, <3>4, <3>5 DEF Paired, WantedAt, Carries, Submits
  <2>3. ASSUME WantedAt(j) PROVE Paired(j)
    <3>1. PICK s \in 1 .. j : Submits(ring, s, ring[j].object_id)
      BY <2>3 DEF WantedAt
    <3>2. s \in 1 .. j - 1
      BY <1>4, <3>1 DEF Submits
    <3>3. ring[s].tsc <= ring[j].born
      BY <1>1, <1>4, <3>1, <3>2 DEF RingPairs, Submits, Names
    <3> QED BY <2>2, <3>1, <3>3 DEF Submits
  <2>4. ASSUME Paired(j) PROVE WantedAt(j)
    <3>1. PICK s \in 1 .. j : ring[s].tpoint = "NVME_IO_SUBMIT" /\ ring[s].tsc = ring[j].born
      BY <1>4, <2>4 DEF Paired
    <3>2. ring[s].tsc <= ring[j].born
      BY <2>1, <3>1
    <3> QED BY <2>2, <3>1, <3>2
  <2> QED BY <2>3, <2>4
<1> QED BY <1>2, <1>3, <1>4 DEF Names

\* Unless the disk is full the file has an entry for every command entry of the
\* ring whose submission is still there, and no other.
THEOREM NothingIsDropped == Spec => []NothingDropped
<1>1. IInv => NothingDropped
  <2> SUFFICES ASSUME IInv, phase \in {"display", "done"}, Len(output) < room
               PROVE  Len(output) = Cardinality({j \in 1 .. Len(ring) :
                          ring[j].tpoint \in Names /\ ring[j].ctx = 0 /\ Paired(j)})
    BY DEF NothingDropped
  <2>1. Len(output) = Cardinality(WantedUpTo(Len(ring)))
    BY DEF IInv, Cursor, Counted
  <2>2. WantedUpTo(Len(ring)) = {j \in 1 .. Len(ring) :
            ring[j].tpoint \in Names /\ ring[j].ctx = 0 /\ Paired(j)}
    BY PairedIsWanted DEF WantedUpTo, WantedAt
  <2> QED BY <2>1, <2>2
<1> QED BY <1>1, Invariance, PTL
-----------------------------------------------------------------------------
(* The catcher implements TraceFile.                                       *)

\* A completion that is appended to a complete recording's file answers the last
\* entry of its object in the file.
LEMMA CompletionAnswers ==
    ASSUME IInv, IInv', Write, NEW n, n = pos + 1, Len(output) < room, ~lossy,
           trace_io_entry.tpoint_name = "NVME_IO_COMPLETE",
           NEW k, k = Len(output) + 1
    PROVE  File!AnswersLast(output', k)
<1> DEFINE e == trace_io_entry
<1>1. /\ TypeOK /\ RingOrder /\ RingPairs /\ Base /\ Written /\ Kept /\ Ordered
      /\ pos \in 0 .. Len(ring) /\ Len(ring) \in Nat /\ output \in Seq(FileEntry)
      /\ Len(output) \in Nat
  BY DEF IInv, TypeOK, FileEntry
<1>2. /\ WantedAt(n) /\ n \in 1 .. Len(ring) /\ output' = Append(output, e)
      /\ \/ g_tsc_base' = g_tsc_base
         \/ g_tsc_base = 0 /\ g_tsc_base' = ring[n].tsc /\ output = <<>>
      /\ e \in FileEntry /\ ring' = ring
  BY WriteFacts DEF Stored, Write, recorderVars
<1>3. PICK s \in 1 .. n : LastSubmit(s, ring[n].object_id, n) /\ e = EntryOf(n, s)'
  BY WriteFacts
<1>4. /\ e.obj_id = ring[n].object_id /\ ring[n].tpoint = "NVME_IO_COMPLETE"
      /\ e.tsc_obj_submit = Minus(ring[s].tsc, g_tsc_base')
  BY <1>2, <1>3 DEF EntryOf
<1> HIDE DEF e
<1>5. s \in 1 .. n - 1 /\ ring[s].tsc = ring[n].born /\ ring[s].ctx = 0
  BY <1>2, <1>3, <1>4, Answered DEF WantedAt
<1>6. s \in 1 .. pos /\ Submits(ring, s, ring[n].object_id) /\ s \in 1 .. s /\ s \in 1 .. Len(ring)
  BY <1>1, <1>3, <1>5 DEF LastSubmit
<1>7. WantedAt(s)
  BY <1>5, <1>6 DEF WantedAt, Submits, Names
<1>8. PICK m \in 1 .. Len(output) : Makes(s, m)
  BY <1>1, <1>6, <1>7 DEF Kept
<1>9. g_tsc_base' = g_tsc_base
  BY <1>1, <1>2, <1>8
<1>10. /\ output[m].tpoint_name = "NVME_IO_SUBMIT" /\ output[m].obj_id = ring[n].object_id
       /\ output[m].tsc_timestamp = ring[s].tsc - g_tsc_base
  BY <1>6, <1>8 DEF Makes, EntryOf, Submits
<1>11. /\ output[m].tsc_timestamp = e.tsc_obj_submit
       /\ g_tsc_base \in Times /\ ring[s].tsc \in Times
  BY <1>1, <1>4, <1>6, <1>7, <1>9, <1>10, BehindBase
<1>12. /\ m \in 1 .. k - 1 /\ output'[m] = output[m]
       /\ output'[k] = e
       /\ \A l \in m + 1 .. k - 1 : l \in 1 .. Len(output) /\ m < l /\ output'[l] = output[l]
  BY <1>1, <1>2
<1>13. ASSUME NEW l \in 1 .. Len(output), m < l, output[l].obj_id = ring[n].object_id
       PROVE  FALSE
  <2>1. output[m].tsc_timestamp < output[l].tsc_timestamp
    BY <1>1, <1>13 DEF Ordered
  <2>2. PICK j \in 1 .. pos : Makes(j, l)
    BY <1>1 DEF Written
  <2>3. /\ ring[j].object_id = ring[n].object_id /\ ring[j].tpoint \in Names
        /\ output[l].tsc_timestamp = ring[j].tsc - g_tsc_base
    BY <1>13, <2>2 DEF Makes, WantedAt, EntryOf
  <2>4. j \in 1 .. n - 1 /\ j \in 1 .. Len(ring)
    BY <1>1
  <2>5. ring[j].tsc <= ring[n].born
    BY <1>1, <1>2, <1>4, <2>3, <2>4 DEF RingPairs
  <2>6. ring[j].tsc \in Nat /\ ring[s].tsc \in Nat /\ g_tsc_base \in Nat
    BY <1>1, <1>6, <1>11, <2>4, Positions DEF Times
  <2> QED BY <1>5, <1>10, <2>1, <2>3, <2>5, <2>6, SMTT(60)
<1>14. /\ output'[m].tpoint_name = "NVME_IO_SUBMIT" /\ output'[m].obj_id = output'[k].obj_id
       /\ output'[m].tsc_timestamp = output'[k].tsc_obj_submit
  BY <1>4, <1>10, <1>11, <1>12
<1>15. \A l \in m + 1 .. k - 1 : output'[l].obj_id # output'[k].obj_id
  BY <1>4, <1>12, <1>13
<1> QED BY <1>12, <1>14, <1>15 DEF File!AnswersLast

\* An entry that is written may follow the entries before it.
LEMMA WriteAppends ==
    ASSUME IInv, IInv', Write, Len(output) < room, NEW n, n = pos + 1
    PROVE  File!AppendEntry
<1> DEFINE e == trace_io_entry
           k == Len(output) + 1
<1>1. /\ TypeOK /\ RingOrder /\ Base /\ Written /\ Kept /\ Ordered' /\ UNCHANGED <<lossy, ring>>
      /\ pos \in 0 .. Len(ring) /\ Len(ring) \in Nat /\ output \in Seq(FileEntry)
      /\ Len(output) \in Nat
  BY DEF IInv, TypeOK, FileEntry, Write, recorderVars
<1>2. /\ WantedAt(n) /\ n \in 1 .. Len(ring) /\ output' = Append(output, e)
      /\ g_tsc_base' \in Times /\ g_tsc_base' <= ring[n].tsc
      /\ \/ g_tsc_base' = g_tsc_base /\ g_tsc_base # 0
         \/ g_tsc_base' = ring[n].tsc
      /\ e \in FileEntry
  BY WriteFacts DEF Stored
<1>3. PICK s \in 1 .. n : LastSubmit(s, ring[n].object_id, n) /\ e = EntryOf(n, s)'
  BY WriteFacts
<1>4. s \in 1 .. Len(ring) /\ s <= n /\ Submits(ring, s, ring[n].object_id)
  BY <1>1, <1>2, <1>3 DEF LastSubmit
<1>5. ring[s].tsc <= ring[n].tsc
  BY <1>1, <1>2, <1>4, Later
<1>6. ring[s].tsc \in Times /\ ring[n].tsc \in Times /\ ring[s].tsc \in Nat /\ ring[n].tsc \in Nat
  BY <1>1, <1>2, <1>4, Positions
<1>7. /\ e.tpoint_name = ring[n].tpoint
      /\ e.tsc_timestamp = ring[n].tsc - g_tsc_base'
      /\ e.tsc_obj_submit = Minus(ring[s].tsc, g_tsc_base')
      /\ e.tsc_sc_time = IF ring[n].tpoint = "NVME_IO_SUBMIT" THEN 0 ELSE ring[n].tsc - ring[s].tsc
  BY <1>1, <1>3 DEF EntryOf
<1> HIDE DEF e
<1>8. ring[n].tpoint = "NVME_IO_SUBMIT" => s = n
  <2>1. ring[n].tpoint = "NVME_IO_SUBMIT" => Submits(ring, n, ring[n].object_id)
    BY DEF Submits
  <2>2. ring[n].tpoint = "NVME_IO_SUBMIT" => ~(n \in s + 1 .. n)
    BY <1>3, <2>1 DEF LastSubmit
  <2> QED BY <1>1, <1>2, <1>4, <2>2
<1>9. e.tsc_sc_time = (e.tsc_timestamp - e.tsc_obj_submit) % Word
      /\ (ring[n].tpoint = "NVME_IO_SUBMIT" => e.tsc_sc_time = 0)
  <2>1. (ring[n].tsc - g_tsc_base' - Minus(ring[s].tsc, g_tsc_base')) % Word
            = ring[n].tsc - ring[s].tsc
    BY <1>2, <1>5, <1>6, MinusRebased
  <2>2. ring[n].tpoint = "NVME_IO_SUBMIT" => ring[n].tsc - ring[s].tsc = 0
    BY <1>6, <1>8
  <2> QED BY <1>7, <2>1, <2>2
<1>10. Len(output') = k /\ SubSeq(output', 1, k - 1) = output /\ output'[k] = e
  BY <1>1, <1>2
<1>11. IF k = 1 THEN output'[k].tsc_timestamp = 0
       ELSE output'[k - 1].tsc_timestamp < output'[k].tsc_timestamp
  <2>1. CASE k = 1
    <3>1. g_tsc_base' = ring[n].tsc
      <4>1. ASSUME g_tsc_base # 0 PROVE FALSE
        <5>1. PICK b \in 1 .. pos : WantedAt(b)
          BY <1>1, <4>1 DEF Base
        <5>2. PICK m \in 1 .. Len(output) : TRUE
          BY <1>1, <5>1 DEF Kept
        <5> QED BY <1>1, <2>1, <5>2
      <4> QED BY <1>2, <4>1
    <3> QED BY <1>6, <1>7, <1>10, <2>1, <3>1
  <2>2. CASE k # 1
    <3>1. k - 1 \in 1 .. Len(output') /\ k \in 1 .. Len(output') /\ k - 1 < k
      BY <1>1, <1>10, <2>2
    <3> QED BY <1>1, <2>2, <3>1 DEF Ordered
  <2> QED BY <2>1, <2>2
<1>12. ASSUME e.tpoint_name = "NVME_IO_COMPLETE", ~lossy PROVE File!AnswersLast(output', k)
  BY <1>12, CompletionAnswers DEF e
<1>13. File!Legal(output', k)
  BY <1>7, <1>9, <1>10, <1>11, <1>12 DEF File!Legal
<1> QED BY <1>1, <1>10, <1>13 DEF File!AppendEntry

\* What is in the .bin file is at every moment a trace file in the sense of its
\* readers: entries are appended in the order of their times, from time 0 on, the
\* three times of an entry agree, and a completion of a complete recording
\* answers the submission that came last for its object.  It stays one when the
\* ring overwrites entries, when the disk fills up and when the catcher stops.
THEOREM Refinement == Spec => ImplementsTraceFile
<1>1. Init => File!FileInit
  BY DEF Init, File!FileInit
<1>2. ASSUME IInv, IInv', [Next]_vars PROVE [File!AppendEntry]_File!fileVars
  <2>1. CASE Write
    <3>1. CASE Len(output) < room
      BY <1>2, <2>1, <3>1, WriteAppends
    <3>2. CASE ~(Len(output) < room)
      BY <2>1, <3>2 DEF Write, Stored, recorderVars, File!fileVars
    <3> QED BY <3>1, <3>2
  <2>2. CASE ~Write
    <3>1. UNCHANGED <<output, lossy>>
      BY <1>2, <2>2 DEF Next, Terminated, TraceSubmit, TraceComplete, TraceOther, Trace, StartFails,
        StartCatcher, Skip, CloseOutput, Display, DisplayFails, DisplayDone, vars, recorderVars,
        catcherVars, displayVars
    <3> QED BY <3>1 DEF File!fileVars
  <2> QED BY <2>1, <2>2
<1> QED BY <1>1, <1>2, Invariance, PTL DEF Spec, ImplementsTraceFile, File!FileSpec
=============================================================================
