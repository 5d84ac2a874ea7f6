------------------------- MODULE TraceAnalyzerProofs -------------------------
(***************************************************************************)
(* Theorems about TraceAnalyzer, for every trace, chunk size, word size    *)
(* and namespace.  The counts and sums of the analyzer are compared with   *)
(* sums over sets of entries; the first part of the module proves what is  *)
(* needed of such sums.                                                    *)
(***************************************************************************)
EXTENDS TraceAnalyzer, FiniteSetTheorems, TLAPS

(* Induction over finite sets: a nonempty family has a minimal member.     *)

\* A family of finite sets has a member none of whose proper subsets is in it: what an
\* induction over finite sets would be used for.
LEMMA Minimal ==
  ASSUME NEW C, C # {}, \A T \in C : IsFiniteSet(T)
  PROVE \E T \in C : \A U \in C : U \subseteq T => U = T
<1> DEFINE D == UNION C
<1>1. C \subseteq FiniteSubsetsOf(D)
  BY DEF FiniteSubsetsOf
<1>2. PICK T \in C : \A U \in C : ~(<<U, T>> \in StrictSubsetOrdering(D))
  <2> HIDE DEF D
  <2> QED BY <1>1, FS_StrictSubsetOrderingWellFounded, WFMin
<1>3. \A U \in C : ~(<<U, T>> \in StrictSubsetOrdering(D)) => ~(U \subseteq T /\ U # T)
  BY DEF StrictSubsetOrdering
<1> QED BY <1>2, <1>3

-----------------------------------------------------------------------------
(* Sums over finite sets.                                                  *)

Chosen(s) == CHOOSE x \in s : TRUE

\* The sum of g over S, and the function MapThenFoldSet computes it with.
SumOver(g, S) == MapThenSumSet(LAMBDA k : g[k], S)
IsFold(f, g, S) ==
    f = [s \in SUBSET S |-> IF s = {} THEN 0 ELSE g[Chosen(s)] + f[s \ {Chosen(s)}]]

\* The element a sum takes next is one of those left.
LEMMA ChosenIn == ASSUME NEW s, s # {} PROVE Chosen(s) \in s
BY DEF Chosen

\* Two such functions agree where the summands do.
LEMMA FoldUnique ==
    ASSUME NEW S, NEW T, NEW R \in SUBSET (S \cap T), IsFiniteSet(R), NEW g, NEW h,
           \A k \in R : g[k] = h[k], NEW a, NEW b, IsFold(a, g, S), IsFold(b, h, T)
    PROVE  a[R] = b[R]
<1> DEFINE C == {s \in SUBSET R : a[s] # b[s]}
<1>1. SUFFICES ASSUME C # {} PROVE FALSE
  OBVIOUS
<1>2. \A s \in C : IsFiniteSet(s)
  BY FS_Subset
<1>3. PICK s \in C : \A t \in C : t \subseteq s => t = s
  <2> HIDE DEF C
  <2> QED BY <1>1, <1>2, Minimal
<1>4. s \in SUBSET R /\ s \in SUBSET S /\ s \in SUBSET T /\ a[s] # b[s]
  OBVIOUS
<1>5. /\ a[s] = IF s = {} THEN 0 ELSE g[Chosen(s)] + a[s \ {Chosen(s)}]
      /\ b[s] = IF s = {} THEN 0 ELSE h[Chosen(s)] + b[s \ {Chosen(s)}]
  BY <1>4 DEF IsFold
<1>6. s # {}
  BY <1>4, <1>5
<1>7. Chosen(s) \in s /\ g[Chosen(s)] = h[Chosen(s)]
  BY <1>4, <1>6, ChosenIn
<1>8. a[s \ {Chosen(s)}] = b[s \ {Chosen(s)}]
  BY <1>3, <1>4, <1>7
<1> QED BY <1>4, <1>5, <1>7, <1>8

\* There is one for every finite set: otherwise take a minimal set without one,
\* and put it together from those of its subsets.
LEMMA FoldExists ==
    ASSUME NEW S, IsFiniteSet(S), NEW g, \A k \in S : g[k] \in Nat
    PROVE  \E f \in [SUBSET S -> Nat] : IsFold(f, g, S)
<1> DEFINE Has(T) == \E f \in [SUBSET T -> Nat] : IsFold(f, g, T)
           C == {T \in SUBSET S : ~Has(T)}
<1>1. SUFFICES ASSUME C # {} PROVE FALSE
  OBVIOUS
<1>2. \A T \in C : IsFiniteSet(T)
  BY FS_Subset
<1>3. PICK T \in C : \A U \in C : U \subseteq T => U = T
  <2> HIDE DEF C
  <2> QED BY <1>1, <1>2, Minimal
<1>4. T \in SUBSET S /\ ~Has(T) /\ \A U \in SUBSET T : U # T => Has(U)
  BY <1>3
<1> HIDE DEF C
<1> DEFINE F(U) == CHOOSE f \in [SUBSET U -> Nat] : IsFold(f, g, U)
           val(U) == F(U)[U]
           f == [s \in SUBSET T |-> IF s = {} THEN 0 ELSE g[Chosen(s)] + val(s \ {Chosen(s)})]
<1>5. ASSUME NEW U \in SUBSET T, U # T
      PROVE  F(U) \in [SUBSET U -> Nat] /\ IsFold(F(U), g, U) /\ val(U) \in Nat
  <2>1. F(U) \in [SUBSET U -> Nat] /\ IsFold(F(U), g, U)
    BY <1>4, <1>5
  <2> HIDE DEF F
  <2> QED BY <2>1
<1>6. ASSUME NEW U \in SUBSET T, U # T PROVE f[U] = val(U)
  <2>1. CASE U = {}
    <3>1. IsFold(F(U), g, U)
      BY <1>5, <1>6
    <3>2. F(U)[U] = 0
      <4> HIDE DEF F
      <4> QED BY <2>1, <3>1 DEF IsFold
    <3> QED BY <2>1, <3>2
  <2>2. CASE U # {}
    <3> DEFINE c == Chosen(U)
               V == U \ {c}
    <3>1. c \in U /\ V \in SUBSET T /\ V # T /\ V \in SUBSET U
      BY <2>2, ChosenIn
    <3>2. IsFold(F(U), g, U) /\ IsFold(F(V), g, V)
      BY <1>5, <1>6, <3>1
    <3>3. IsFiniteSet(V)
      BY <1>4, <3>1, FS_Subset
    <3>4. F(U)[V] = F(V)[V]
      <4> HIDE DEF F, V
      <4> QED BY <3>1, <3>2, <3>3, FoldUnique
    <3>5. F(U)[U] = g[c] + F(U)[V]
      <4> HIDE DEF F
      <4> QED BY <2>2, <3>2 DEF IsFold
    <3> QED BY <2>2, <3>4, <3>5
  <2> QED BY <2>1, <2>2
<1> HIDE DEF val, F
<1>7. ASSUME NEW s \in SUBSET T, s # {}
      PROVE  /\ Chosen(s) \in s /\ g[Chosen(s)] \in Nat /\ val(s \ {Chosen(s)}) \in Nat
             /\ f[s \ {Chosen(s)}] = val(s \ {Chosen(s)})
  <2>1. Chosen(s) \in s /\ s \ {Chosen(s)} \in SUBSET T /\ s \ {Chosen(s)} # T
    BY <1>7, ChosenIn
  <2> QED BY <1>4, <1>5, <1>6, <2>1
<1>8. f \in [SUBSET T -> Nat]
  <2>1. ASSUME NEW s \in SUBSET T
        PROVE  (IF s = {} THEN 0 ELSE g[Chosen(s)] + val(s \ {Chosen(s)})) \in Nat
    <3>1. CASE s = {}
      BY <3>1
    <3>2. CASE s # {}
      <4>1. g[Chosen(s)] \in Nat /\ val(s \ {Chosen(s)}) \in Nat
        BY <1>7, <3>2
      <4> QED BY <3>2, <4>1
    <3> QED BY <3>1, <3>2
  <2> QED BY <2>1
<1>9. IsFold(f, g, T)
  BY <1>7 DEF IsFold
<1> QED BY <1>4, <1>8, <1>9

\* MapThenSumSet is the value of such a function.
LEMMA SumFold ==
    ASSUME NEW S, IsFiniteSet(S), NEW g, \A k \in S : g[k] \in Nat
    PROVE  \E f \in [SUBSET S -> Nat] : IsFold(f, g, S) /\ SumOver(g, S) = f[S]
<1> DEFINE c == CHOOSE f : IsFold(f, g, S)
<1>1. PICK f \in [SUBSET S -> Nat] : IsFold(f, g, S)
  BY FoldExists
<1>2. SumOver(g, S) = c[S]
  BY DEF SumOver, MapThenSumSet, MapThenFoldSet, IsFold, Chosen
<1>3. IsFold(c, g, S)
  BY <1>1
<1>4. c[S] = f[S]
  <2> HIDE DEF c
  <2> QED BY <1>1, <1>3, FoldUnique
<1> QED BY <1>1, <1>2, <1>4

\* The sum over no element.
LEMMA SumEmpty == ASSUME NEW g PROVE SumOver(g, {}) = 0
<1>1. PICK f \in [SUBSET {} -> Nat] : IsFold(f, g, {}) /\ SumOver(g, {}) = f[{}]
  BY SumFold, FS_EmptySet
<1> QED BY <1>1 DEF IsFold

\* A sum of naturals is a natural.
LEMMA SumType ==
    ASSUME NEW S, IsFiniteSet(S), NEW g, \A k \in S : g[k] \in Nat
    PROVE  SumOver(g, S) \in Nat
<1>1. PICK f \in [SUBSET S -> Nat] : IsFold(f, g, S) /\ SumOver(g, S) = f[S]
  BY SumFold
<1> QED BY <1>1

\* A sum is determined by its summands.
LEMMA SumSame ==
    ASSUME NEW S, IsFiniteSet(S), NEW g, NEW h, \A k \in S : g[k] \in Nat /\ g[k] = h[k]
    PROVE  SumOver(g, S) = SumOver(h, S)
<1>1. PICK a \in [SUBSET S -> Nat] : IsFold(a, g, S) /\ SumOver(g, S) = a[S]
  BY SumFold
<1>2. PICK b \in [SUBSET S -> Nat] : IsFold(b, h, S) /\ SumOver(h, S) = b[S]
  BY SumFold
<1> QED BY <1>1, <1>2, FoldUnique

\* The step of the fold, as a fact about sums.
LEMMA SumChosen ==
    ASSUME NEW S, IsFiniteSet(S), S # {}, NEW g, \A k \in S : g[k] \in Nat
    PROVE  SumOver(g, S) = g[Chosen(S)] + SumOver(g, S \ {Chosen(S)})
<1> DEFINE R == S \ {Chosen(S)}
<1>1. Chosen(S) \in S /\ R \in SUBSET S /\ IsFiniteSet(R)
  BY ChosenIn, FS_Subset
<1>2. PICK a \in [SUBSET S -> Nat] : IsFold(a, g, S) /\ SumOver(g, S) = a[S]
  BY SumFold
<1>3. PICK b \in [SUBSET R -> Nat] : IsFold(b, g, R) /\ SumOver(g, R) = b[R]
  <2> HIDE DEF R
  <2> QED BY <1>1, SumFold
<1>4. a[R] = b[R]
  <2> HIDE DEF R
  <2> QED BY <1>1, <1>2, <1>3, FoldUnique
<1>5. a[S] = g[Chosen(S)] + a[R]
  BY <1>2 DEF IsFold
<1> QED BY <1>2, <1>3, <1>4, <1>5

\* Any element can be taken out of a sum: in a minimal set in which some element
\* cannot, it and the chosen one can be exchanged.
LEMMA SumRemove ==
    ASSUME NEW S, IsFiniteSet(S), NEW g, \A k \in S : g[k] \in Nat, NEW x \in S
    PROVE  SumOver(g, S) = g[x] + SumOver(g, S \ {x})
<1> DEFINE Takes(T, y) == SumOver(g, T) = g[y] + SumOver(g, T \ {y})
           C == {T \in SUBSET S : \E y \in T : ~Takes(T, y)}
<1>1. SUFFICES ASSUME C # {} PROVE FALSE
  OBVIOUS
<1>2. \A T \in C : IsFiniteSet(T)
  BY FS_Subset
<1>3. PICK T \in C : \A U \in C : U \subseteq T => U = T
  <2> HIDE DEF C
  <2> QED BY <1>1, <1>2, Minimal
<1>4. PICK y \in T : ~Takes(T, y)
  OBVIOUS
<1>5. /\ T \in SUBSET S /\ IsFiniteSet(T)
      /\ \A U \in SUBSET T : U # T => \A z \in U : Takes(U, z)
  BY <1>2, <1>3
<1> HIDE DEF C
<1> DEFINE c == Chosen(T)
<1>6. c \in T /\ g[c] \in Nat /\ g[y] \in Nat
  BY <1>5, ChosenIn
<1>7. Takes(T, c)
  BY <1>5, <1>6, SumChosen
<1>8. c # y
  BY <1>4, <1>7
<1>9. Takes(T \ {c}, y) /\ Takes(T \ {y}, c)
  BY <1>5, <1>6, <1>8
<1>10. (T \ {c}) \ {y} = (T \ {y}) \ {c}
  OBVIOUS
<1>11. SumOver(g, (T \ {y}) \ {c}) \in Nat
  <2>1. (T \ {y}) \ {c} \in SUBSET S
    BY <1>5
  <2> QED BY <2>1, SumType, FS_Subset
<1>12. PICK r \in Nat : r = SumOver(g, (T \ {y}) \ {c})
  BY <1>11
<1>13. /\ SumOver(g, T) = g[c] + SumOver(g, T \ {c})
       /\ SumOver(g, T \ {c}) = g[y] + r
       /\ SumOver(g, T \ {y}) = g[c] + r
  BY <1>7, <1>9, <1>10, <1>12
<1>14. SumOver(g, T) = g[y] + SumOver(g, T \ {y})
  <2> HIDE DEF c
  <2> QED BY <1>6, <1>13
<1> QED BY <1>4, <1>14

\* One more element adds its own value to the sum, in whatever order the elements are taken.
LEMMA SumAdd ==
    ASSUME NEW S, IsFiniteSet(S), NEW x, x \notin S, NEW g, \A k \in S \cup {x} : g[k] \in Nat
    PROVE  SumOver(g, S \cup {x}) = SumOver(g, S) + g[x]
<1> DEFINE T == S \cup {x}
<1>1. IsFiniteSet(T) /\ x \in T /\ T \ {x} = S
  BY FS_AddElement
<1>2. SumOver(g, T) = g[x] + SumOver(g, S)
  <2>1. SumOver(g, T) = g[x] + SumOver(g, T \ {x})
    <3> HIDE DEF T
    <3> QED BY <1>1, SumRemove DEF T
  <2> QED BY <1>1, <2>1
<1>3. SumOver(g, S) \in Nat /\ g[x] \in Nat
  BY SumType
<1> QED BY <1>2, <1>3

\* A sum is bounded by the number of its summands times a bound of each.
LEMMA SumBounded ==
    ASSUME NEW S, IsFiniteSet(S), NEW g, NEW low \in Nat, NEW high \in Nat,
           \A k \in S : g[k] \in low .. high
    PROVE  /\ SumOver(g, S) >= Cardinality(S) * low
           /\ SumOver(g, S) <= Cardinality(S) * high
<1> DEFINE Bounded(T) == /\ SumOver(g, T) >= Cardinality(T) * low
                         /\ SumOver(g, T) <= Cardinality(T) * high
           C == {T \in SUBSET S : ~Bounded(T)}
<1>1. SUFFICES ASSUME C # {} PROVE FALSE
  OBVIOUS
<1>2. \A T \in C : IsFiniteSet(T)
  BY FS_Subset
<1>3. PICK T \in C : \A U \in C : U \subseteq T => U = T
  <2> HIDE DEF C
  <2> QED BY <1>1, <1>2, Minimal
<1>4. T \in SUBSET S /\ ~Bounded(T) /\ IsFiniteSet(T) /\ \A U \in SUBSET T : U # T => Bounded(U)
  BY <1>2, <1>3
<1> HIDE DEF C
<1>5. T # {}
  <2> SUFFICES ASSUME T = {} PROVE FALSE
    OBVIOUS
  <2>1. Cardinality(T) = 0 /\ SumOver(g, T) = 0
    BY SumEmpty, FS_EmptySet
  <2> QED BY <1>4, <2>1
<1>6. PICK x \in T : TRUE
  BY <1>5
<1> DEFINE U == T \ {x}
<1>7. /\ IsFiniteSet(U) /\ Cardinality(U) = Cardinality(T) - 1
      /\ Cardinality(T) \in Nat /\ Cardinality(U) \in Nat
  BY <1>4, <1>6, FS_RemoveElement, FS_CardinalityType
<1>8. Bounded(U)
  BY <1>4, <1>6
<1>9. g[x] \in low .. high /\ \A k \in T : g[k] \in Nat
  BY <1>4, <1>6
<1>10. SumOver(g, T) = g[x] + SumOver(g, U) /\ SumOver(g, U) \in Nat
  <2>1. \A k \in U : g[k] \in Nat
    BY <1>9
  <2> HIDE DEF U
  <2> QED BY <1>4, <1>6, <1>7, <1>9, <2>1, SumRemove, SumType DEF U
<1>11. PICK n \in Nat : n = Cardinality(U)
  BY <1>7
<1>12. PICK s \in Nat : s = SumOver(g, U)
  BY <1>10
<1>13. /\ Cardinality(T) = n + 1 /\ SumOver(g, T) = g[x] + s
       /\ s >= n * low /\ s <= n * high
  BY <1>7, <1>8, <1>10, <1>11, <1>12
<1>14. (n + 1) * low = n * low + low /\ (n + 1) * high = n * high + high
       /\ n * low \in Nat /\ n * high \in Nat
  OBVIOUS
<1>15. g[x] + s >= n * low + low /\ g[x] + s <= n * high + high
  BY <1>9, <1>13, <1>14
<1>16. Bounded(T)
  BY <1>13, <1>14, <1>15
<1> QED BY <1>4, <1>16
-----------------------------------------------------------------------------
(* The inductive invariant.  Its parts are predicates of the values they   *)
(* are about.                                                              *)

\* The reads and the writes among the first n entries of t, and the completions.
Moves(t, n, rw) ==
    {k \in 1 .. n : t[k].tpoint = "NVME_IO_SUBMIT" /\ t[k].opc \in IF rw = "r" THEN Reads ELSE Writes}
Comps(t, n) == {k \in 1 .. n : t[k].tpoint = "NVME_IO_COMPLETE"}
Times(t) == [k \in DOMAIN t |-> t[k].tsc_sc_time]
Lens(t) == [k \in DOMAIN t |-> t[k].nlb + 1]

\* The histogram io of request sizes describes the first n entries.
Weighted(f) == [b \in DOMAIN f |-> f[b] * (b + 1)]
CountedBy(S, t, c, f) ==
    /\ c = Cardinality(S)
    /\ \A b \in DOMAIN f : f[b] = Cardinality({k \in S : t[k].nlb = b})
    /\ SumOver(f, DOMAIN f) = Cardinality(S)
    /\ SumOver(Weighted(f), DOMAIN f) = SumOver(Lens(t), S)
Histogram(t, n, cnt, io) == \A rw \in RW : CountedBy(Moves(t, n, rw), t, cnt[rw], io[rw])

\* Minimum and maximum of the service times among the first n entries.
Extremes(t, n, min, max) ==
    /\ Comps(t, n) = {} => min = 0 /\ max = 0
    /\ Comps(t, n) # {} => \E k \in Comps(t, n) : t[k].tsc_sc_time = max
    /\ \A k \in Comps(t, n) : t[k].tsc_sc_time <= max
    /\ (\A k \in Comps(t, n) : t[k].tsc_sc_time # 0) =>
          /\ \A k \in Comps(t, n) : t[k].tsc_sc_time >= min
          /\ Comps(t, n) # {} => \E k \in Comps(t, n) : t[k].tsc_sc_time = min

\* The list of partial sums has one node until the sum leaves 64 bits.
PartialSums(t, n, sums, faults) ==
    /\ Comps(t, n) = {} => sums = <<>>
    /\ "no memory" \notin faults =>
          /\ Comps(t, n) # {} => sums # <<>>
          /\ Len(sums) = 1 => sums[1] = SumOver(Times(t), Comps(t, n))
          /\ SumOver(Times(t), Comps(t, n)) < UINT64_MAX => Len(sums) <= 1

\* The counters of blocks and zones add up to what the first n entries say, up to
\* their width.
PlacedBy(S, t, f, g) ==
    /\ SumOver(g, DOMAIN g) % Word16 = Cardinality(S) % Word16
    /\ SumOver(f, DOMAIN f) % Word16 = SumOver(Lens(t), S) % Word16
Places(t, n, b, z) == \A rw \in RW : PlacedBy(Moves(t, n, rw), t, b[rw], z[rw])

Stages == {"start", "attach", "sizes", "average", "arrays", "counts"} \cup Passes \cup Final

Typed ==
    /\ trace \in Traces /\ ns \in Namespaces /\ g_print_trace \in BOOLEAN
    /\ pc \in Stages
    /\ file \in {"none", "open", "closed"}
    /\ eof \in BOOLEAN
    /\ {remain_entry, read_entry, i, pos} \subseteq Nat
    /\ read_entry <= ENTRY_MAX /\ i <= read_entry
    /\ g_zone \in BOOLEAN
    /\ g_ns_block \in Nat /\ g_ns_zone \in Nat /\ g_max_transfer_block \in Nat
    /\ g_end_tsc \in 0 .. UINT64_MAX
    /\ latency \in Seq(0 .. UINT64_MAX)
    /\ g_latency_tsc_min \in 0 .. UINT64_MAX
    /\ g_latency_tsc_max \in 0 .. UINT64_MAX
    /\ g_latency_tsc_avg \in 0 .. UINT64_MAX
    /\ rw_cnt \in [RW -> Nat]
    /\ heap \subseteq {"iosize", "blk", "zone"}
    /\ fault \subseteq {"short read", "outside", "no memory"}

\* The arrays, with the sizes they were allocated for.
SizeArrays ==
    \E n \in Nat :
        /\ iosize \in [RW -> [0 .. n - 1 -> Nat]]
        /\ pc \in {"round1", "average", "arrays", "round2", "counts", "done"} =>
              n = g_max_transfer_block
PlaceArrays ==
    \E n, m \in Nat :
        /\ blk \in [RW -> [0 .. n - 1 -> 0 .. Word16 - 1]]
        /\ zone \in [RW -> [0 .. m - 1 -> 0 .. Word16 - 1]]
        /\ pc \in {"round2", "counts", "done"} => n = g_ns_block /\ m = g_ns_zone
Arrays == SizeArrays /\ PlaceArrays

\* Without a short read nothing of the trace is skipped.
Cursor ==
    /\ pos + (read_entry - i) + remain_entry <= Len(trace)
    /\ "short read" \notin fault =>
          ~eof /\ (pc \notin {"start", "failed"} => pos + (read_entry - i) + remain_entry = Len(trace))
    /\ pc \in {"average", "arrays", "counts", "done"} =>
          i = read_entry /\ (eof \/ remain_entry = 0)

\* What get_ns_info found.
Found ==
    /\ pc \in {"start", "print", "attach"} =>
          ~g_zone /\ g_ns_block = 0 /\ g_ns_zone = 0 /\ g_max_transfer_block = 0
    /\ pc \in {"sizes", "round1", "average", "arrays", "round2", "counts", "done"} =>
          /\ g_zone = ns.zoned
          /\ ns.zoned => g_ns_block = ns.ncap /\ g_ns_zone = ns.zones
                         /\ g_max_transfer_block = ns.max_transfer

\* The state round 1 starts from; the average stays 0 until it is taken.
Fresh ==
    /\ pc \in {"start", "print", "attach", "sizes"} =>
          /\ rw_cnt = [rw \in RW |-> 0] /\ latency = <<>>
          /\ g_latency_tsc_min = 0 /\ g_latency_tsc_max = 0
          /\ fault \subseteq {"short read"}
    /\ pc \in {"start", "print", "attach", "sizes", "round1", "average"} =>
          g_latency_tsc_avg = 0

Sizes ==
    /\ Round1 /\ "outside" \notin fault => Histogram(trace, pos, rw_cnt, iosize)
    /\ pc \in {"round2", "counts", "done"} /\ fault = {} =>
          Histogram(trace, Len(trace), rw_cnt, iosize)

Latencies ==
    /\ Round1 => Extremes(trace, pos, g_latency_tsc_min, g_latency_tsc_max)
    /\ pc \in {"round1", "average"} => PartialSums(trace, pos, latency, fault)
    /\ pc = "arrays" /\ "no memory" \notin fault /\ Len(latency) = 1 =>
          latency[1] = SumOver(Times(trace), Comps(trace, pos))

\* An average between two extremes but for the rounding.
Between(avg, low, high) ==
    /\ avg * Parts * (Mantissa - 1)
           <= high * (Mantissa + 1) * (Mantissa + 1) * (Mantissa + 1)
    /\ (avg + 1) * Parts * (Mantissa + 1)
           > low * (Mantissa - 1) * (Mantissa - 1) * (Mantissa - 1)

\* The average lies between the extremes if every second entry of the trace is a
\* completion.
Balanced(t) ==
    /\ SumOver(Times(t), Comps(t, Len(t))) < UINT64_MAX
    /\ Len(t) = 2 * Cardinality(Comps(t, Len(t)))
    /\ \A k \in Comps(t, Len(t)) : t[k].tsc_sc_time # 0
Averaged ==
    pc = "arrays" /\ fault = {} /\ Balanced(trace) /\ 2 * g_latency_tsc_max <= UINT64_MAX =>
        Between(g_latency_tsc_avg, g_latency_tsc_min, g_latency_tsc_max)

Counters ==
    pc \in {"round2", "counts", "done"} /\ g_zone /\ fault = {} => Places(trace, pos, blk, zone)

IInv ==
    Typed /\ Arrays /\ Cursor /\ Found /\ Fresh /\ Sizes /\ Latencies /\ Counters
          /\ InArrays /\ Averaged
-----------------------------------------------------------------------------
(* Lemmas about the parts, for a trace t and a number n of its entries.    *)

\* A sum in which one summand grows.
LEMMA SumUpdate ==
    ASSUME NEW S, IsFiniteSet(S), NEW x \in S, NEW f, NEW h, NEW v \in Nat,
           \A k \in S : f[k] \in Nat, \A k \in S \ {x} : h[k] = f[k], h[x] = f[x] + v
    PROVE  SumOver(h, S) = SumOver(f, S) + v
<1> DEFINE R == S \ {x}
<1>1. IsFiniteSet(R) /\ \A k \in R : f[k] \in Nat /\ f[k] = h[k]
  BY FS_Subset
<1>2. \A k \in S : h[k] \in Nat
  OBVIOUS
<1>3. SumOver(f, S) = f[x] + SumOver(f, R) /\ SumOver(h, S) = h[x] + SumOver(h, R)
  BY <1>2, SumRemove
<1>4. SumOver(f, R) = SumOver(h, R) /\ SumOver(f, R) \in Nat
  <2> HIDE DEF R
  <2> QED BY <1>1, SumSame, SumType
<1>5. f[x] \in Nat
  OBVIOUS
<1> QED BY <1>3, <1>4, <1>5

\* The types of the entries of a trace.
LEMMA Entry ==
    ASSUME NEW t \in Traces
    PROVE  /\ t \in Seq(Entries) /\ Len(t) \in Nat /\ DOMAIN t = 1 .. Len(t)
           /\ \A k \in 1 .. Len(t) :
                 /\ t[k] \in Entries /\ t[k].opc \in Opcodes /\ t[k].slba \in Nat
                 /\ t[k].tpoint \in {"NVME_IO_SUBMIT", "NVME_IO_COMPLETE", "OTHER"}
                 /\ t[k].nlb \in 0 .. Word16 - 1 /\ t[k].nlb \in Nat
                 /\ t[k].tsc_sc_time \in 0 .. UINT64_MAX /\ t[k].tsc_timestamp \in 0 .. UINT64_MAX
                 /\ Times(t)[k] = t[k].tsc_sc_time /\ Times(t)[k] \in Nat
                 /\ Lens(t)[k] = t[k].nlb + 1 /\ Lens(t)[k] \in Nat
<1>1. t \in Seq(Entries) /\ Word16 \in Nat \ {0} /\ UINT64_MAX \in Nat \ {0}
  BY AnalyzerAssumption
<1>2. Len(t) \in Nat /\ DOMAIN t = 1 .. Len(t) /\ \A k \in 1 .. Len(t) : t[k] \in Entries
  BY <1>1
<1>3. ASSUME NEW e \in Entries
      PROVE  /\ e.opc \in Opcodes /\ e.slba \in Nat
             /\ e.tpoint \in {"NVME_IO_SUBMIT", "NVME_IO_COMPLETE", "OTHER"}
             /\ e.nlb \in 0 .. Word16 - 1 /\ e.nlb \in Nat
             /\ e.tsc_sc_time \in 0 .. UINT64_MAX /\ e.tsc_timestamp \in 0 .. UINT64_MAX
             /\ e.tsc_sc_time \in Nat /\ e.nlb + 1 \in Nat
  BY <1>1 DEF Entries
<1> QED BY <1>1, <1>2, <1>3 DEF Times, Lens

\* The sets of entries among the first n, and what the next one adds.
IsMove(e, rw) == e.tpoint = "NVME_IO_SUBMIT" /\ e.opc \in IF rw = "r" THEN Reads ELSE Writes

\* The reads, writes and completions of one more entry.
LEMMA Grow ==
    ASSUME NEW t \in Traces, NEW n \in Nat, n < Len(t), NEW rw \in RW
    PROVE  /\ n + 1 \in 1 .. Len(t) /\ n + 1 \notin 1 .. n
           /\ Moves(t, n + 1, rw) = Moves(t, n, rw) \cup (IF IsMove(t[n + 1], rw) THEN {n + 1} ELSE {})
           /\ Comps(t, n + 1) = Comps(t, n) \cup
                 (IF t[n + 1].tpoint = "NVME_IO_COMPLETE" THEN {n + 1} ELSE {})
<1>1. n + 1 \in 1 .. Len(t) /\ n + 1 \notin 1 .. n /\ 1 .. n + 1 = (1 .. n) \cup {n + 1}
  BY Entry
<1> QED BY <1>1 DEF Moves, Comps, IsMove

\* The entries before a position are finitely many.
LEMMA Few ==
    ASSUME NEW t \in Traces, NEW n \in Nat, n <= Len(t), NEW rw \in RW
    PROVE  /\ IsFiniteSet(Moves(t, n, rw)) /\ Moves(t, n, rw) \subseteq 1 .. n
           /\ IsFiniteSet(Comps(t, n)) /\ Comps(t, n) \subseteq 1 .. n
           /\ 1 .. n \subseteq 1 .. Len(t)
           /\ Cardinality(Moves(t, n, rw)) \in Nat
           /\ SumOver(Lens(t), Moves(t, n, rw)) \in Nat
           /\ SumOver(Times(t), Comps(t, n)) \in Nat
<1>1. Len(t) \in Nat /\ 1 .. n \subseteq 1 .. Len(t)
  BY Entry
<1>2. IsFiniteSet(1 .. n)
  <2>1. 1 \in Int /\ n \in Int
    OBVIOUS
  <2> QED BY <2>1, FS_Interval
<1>3. Moves(t, n, rw) \subseteq 1 .. n /\ Comps(t, n) \subseteq 1 .. n
  BY DEF Moves, Comps
<1>4. IsFiniteSet(Moves(t, n, rw)) /\ IsFiniteSet(Comps(t, n))
  BY <1>2, <1>3, FS_Subset
<1>5. /\ \A k \in Moves(t, n, rw) : Lens(t)[k] \in Nat
      /\ \A k \in Comps(t, n) : Times(t)[k] \in Nat
  BY <1>1, <1>3, Entry
<1> QED BY <1>1, <1>3, <1>4, <1>5, SumType, FS_CardinalityType

\* There is no entry before the first.
LEMMA None ==
    ASSUME NEW t, NEW rw
    PROVE  Moves(t, 0, rw) = {} /\ Comps(t, 0) = {}
<1>1. 1 .. 0 = {}
  OBVIOUS
<1> QED BY <1>1 DEF Moves, Comps

\* Reads and writes are different commands.
LEMMA Directions ==
    /\ RW = {"r", "w"} /\ Reads \cap Writes = {}
    /\ Uncounted \cap (Reads \cup Writes) = {} /\ "OTHER" \notin Reads \cup Writes \cup Uncounted
    /\ Opcodes = Reads \cup Writes \cup Uncounted \cup {"OTHER"}
BY DEF RW, Reads, Writes, Uncounted, Opcodes

\* An entry is at most one of a read, a write and a completion.
LEMMA Kinds ==
    ASSUME NEW e \in Entries
    PROVE  /\ IsMove(e, "r") => ~IsMove(e, "w")
           /\ e.tpoint # "NVME_IO_SUBMIT" => \A rw \in RW : ~IsMove(e, rw)
           /\ e.opc \notin Reads \cup Writes => \A rw \in RW : ~IsMove(e, rw)
BY DEF IsMove, RW, Reads, Writes

\* One more request of x's size.
LEMMA CountedOne ==
    ASSUME NEW t \in Traces, NEW m \in Nat, NEW f \in [0 .. m - 1 -> Nat], NEW c \in Nat,
           NEW S, S \subseteq 1 .. Len(t), IsFiniteSet(S), NEW x \in 1 .. Len(t), x \notin S,
           t[x].nlb < m, CountedBy(S, t, c, f)
    PROVE  CountedBy(S \cup {x}, t, c + 1, [f EXCEPT ![t[x].nlb] = @ + 1])
<1> DEFINE D == 0 .. m - 1
           h == [f EXCEPT ![t[x].nlb] = @ + 1]
<1>1. PICK v \in Nat : v = t[x].nlb
  BY Entry
<1>2. v \in D /\ DOMAIN f = D /\ DOMAIN h = D /\ h = [f EXCEPT ![v] = @ + 1] /\ h \in [D -> Nat]
  BY <1>1
<1>3. \A b \in D : f[b] \in Nat /\ h[b] \in Nat /\ b \in Nat /\ h[b] = IF b = v THEN f[b] + 1 ELSE f[b]
  BY <1>2
<1>4. IsFiniteSet(D)
  <2>1. 0 \in Int /\ m - 1 \in Int
    OBVIOUS
  <2> QED BY <2>1, FS_Interval
<1>5. Cardinality(S \cup {x}) = Cardinality(S) + 1 /\ Cardinality(S) = c
  BY FS_AddElement DEF CountedBy
<1>6. ASSUME NEW b \in D
      PROVE  h[b] = Cardinality({k \in S \cup {x} : t[k].nlb = b})
  <2> DEFINE A == {k \in S : t[k].nlb = b}
  <2>1. IsFiniteSet(A) /\ x \notin A /\ f[b] = Cardinality(A)
    BY <1>2, <1>6, FS_Subset DEF CountedBy
  <2>2. CASE b = v
    <3>1. {k \in S \cup {x} : t[k].nlb = b} = A \cup {x}
      BY <1>1, <2>2
    <3>2. Cardinality(A \cup {x}) = Cardinality(A) + 1
      <4> HIDE DEF A
      <4> QED BY <2>1, FS_AddElement
    <3> QED BY <1>3, <2>1, <2>2, <3>1, <3>2
  <2>3. CASE b # v
    <3>1. {k \in S \cup {x} : t[k].nlb = b} = A
      BY <1>1, <2>3
    <3> QED BY <1>3, <2>1, <2>3, <3>1
  <2> QED BY <2>2, <2>3
<1>7. SumOver(h, D) = Cardinality(S \cup {x})
  <2>1. SumOver(f, D) = Cardinality(S)
    BY <1>2 DEF CountedBy
  <2>2. /\ \A k \in D \ {v} : h[k] = f[k]
        /\ h[v] = f[v] + 1
        /\ \A k \in D : f[k] \in Nat
    BY <1>2, <1>3
  <2>3. v \in D /\ 1 \in Nat
    BY <1>2
  <2>4. SumOver(h, D) = SumOver(f, D) + 1
    <3> HIDE DEF D, h
    <3> QED BY ONLY <1>4, <2>2, <2>3, SumUpdate, ZenonT(60)
  <2> QED BY <1>5, <2>1, <2>4
<1>8. SumOver(Weighted(h), D) = SumOver(Lens(t), S \cup {x})
  <2>1. SumOver(Weighted(f), D) = SumOver(Lens(t), S)
    BY <1>2 DEF CountedBy
  <2>2. \A k \in D : /\ Weighted(f)[k] = f[k] * (k + 1) /\ Weighted(h)[k] = h[k] * (k + 1)
                     /\ f[k] * (k + 1) \in Nat
    <3>1. \A k \in D : Weighted(f)[k] = f[k] * (k + 1) /\ Weighted(h)[k] = h[k] * (k + 1)
      BY <1>2 DEF Weighted
    <3>2. \A a, b \in Nat : a * (b + 1) \in Nat
      OBVIOUS
    <3>3. \A k \in D : f[k] * (k + 1) \in Nat
      <4> HIDE DEF D, h
      <4> QED BY <1>3, <3>2
    <3> QED BY <3>1, <3>3
  <2>3. h[v] * (v + 1) = f[v] * (v + 1) + (v + 1)
    <3>1. PICK a \in Nat : a = f[v]
      BY <1>2, <1>3
    <3>2. (a + 1) * (v + 1) = a * (v + 1) + (v + 1)
      OBVIOUS
    <3>3. h[v] = a + 1
      BY <1>2, <1>3, <3>1
    <3> QED BY <3>1, <3>2, <3>3
  <2>4. /\ \A k \in D : Weighted(f)[k] \in Nat
        /\ \A k \in D \ {v} : Weighted(h)[k] = Weighted(f)[k]
        /\ Weighted(h)[v] = Weighted(f)[v] + (v + 1)
        /\ v + 1 \in Nat
    <3>1. \A k \in D \ {v} : h[k] = f[k]
      BY <1>3
    <3>2. v \in D /\ v + 1 \in Nat
      BY <1>2
    <3> HIDE DEF D, h
    <3>3. \A k \in D \ {v} : Weighted(h)[k] = Weighted(f)[k]
      BY <2>2, <3>1
    <3>4. Weighted(h)[v] = Weighted(f)[v] + (v + 1)
      BY <2>2, <2>3, <3>2
    <3> QED BY <2>2, <3>2, <3>3, <3>4
  <2>5. SumOver(Weighted(h), D) = SumOver(Weighted(f), D) + (v + 1)
    <3>1. v \in D
      BY <1>2
    <3> HIDE DEF D, h
    <3> QED BY ONLY <1>4, <2>4, <3>1, SumUpdate, ZenonT(60)
  <2>6. SumOver(Lens(t), S \cup {x}) = SumOver(Lens(t), S) + (v + 1)
    <3>1. \A k \in S \cup {x} : Lens(t)[k] \in Nat
      BY Entry
    <3>2. Lens(t)[x] = v + 1
      BY <1>1, Entry
    <3>3. SumOver(Lens(t), S \cup {x}) = SumOver(Lens(t), S) + Lens(t)[x]
      BY <3>1, SumAdd
    <3> QED BY <3>2, <3>3
  <2> QED BY <2>1, <2>5, <2>6
<1>9. c + 1 = Cardinality(S \cup {x})
  BY <1>5
<1> HIDE DEF D
<1> QED BY <1>2, <1>6, <1>7, <1>8, <1>9 DEF CountedBy

\* Nothing has been counted.
LEMMA CountedNone ==
    ASSUME NEW t, NEW m \in Nat, NEW f, f = [k \in 0 .. m - 1 |-> 0]
    PROVE  CountedBy({}, t, 0, f)
<1> DEFINE D == 0 .. m - 1
<1>1. IsFiniteSet(D) /\ Cardinality(D) \in Nat
  <2>1. 0 \in Int /\ m - 1 \in Int
    OBVIOUS
  <2>2. IsFiniteSet(D)
    BY <2>1, FS_Interval
  <2> QED BY <2>2, FS_CardinalityType
<1>2. DOMAIN f = D /\ (\A k \in D : f[k] \in 0 .. 0 /\ Weighted(f)[k] \in 0 .. 0 /\ f[k] = 0)
  BY DEF Weighted
<1>3. ASSUME NEW h, \A k \in D : h[k] \in 0 .. 0 PROVE SumOver(h, D) = 0
  <2>1. SumOver(h, D) >= Cardinality(D) * 0 /\ SumOver(h, D) <= Cardinality(D) * 0
    <3>1. 0 \in Nat
      OBVIOUS
    <3> HIDE DEF D
    <3> QED BY <1>1, <1>3, <3>1, SumBounded
  <2>2. SumOver(h, D) \in Nat
    <3> HIDE DEF D
    <3>1. \A k \in D : h[k] \in Nat
      BY <1>3
    <3> QED BY <1>1, <3>1, SumType
  <2>3. Cardinality(D) * 0 = 0
    BY <1>1
  <2> QED BY <2>1, <2>2, <2>3
<1>4. SumOver(f, D) = 0 /\ SumOver(Weighted(f), D) = 0
  BY <1>2, <1>3
<1>5. Cardinality({}) = 0 /\ SumOver(Lens(t), {}) = 0
  BY FS_EmptySet, SumEmpty
<1>6. \A b \in D : {k \in {} : t[k].nlb = b} = {}
  OBVIOUS
<1> HIDE DEF D
<1> QED BY <1>2, <1>4, <1>5, <1>6 DEF CountedBy

\* The extremes after an entry that completes nothing, and after a completion.
LEMMA ExtremesStep ==
    ASSUME NEW t \in Traces, NEW n \in Nat, n < Len(t), NEW min \in Nat, NEW max \in Nat,
           Extremes(t, n, min, max)
    PROVE  /\ t[n + 1].tpoint # "NVME_IO_COMPLETE" => Extremes(t, n + 1, min, max)
           /\ t[n + 1].tpoint = "NVME_IO_COMPLETE" =>
                 \A v \in Nat : v = t[n + 1].tsc_sc_time =>
                    Extremes(t, n + 1, IF min = 0 \/ v < min THEN v ELSE min,
                                       IF v > max THEN v ELSE max)
<1> DEFINE A == Comps(t, n)
           B == Comps(t, n + 1)
<1>1. "r" \in RW
  BY DEF RW
<1>2. B = A \cup (IF t[n + 1].tpoint = "NVME_IO_COMPLETE" THEN {n + 1} ELSE {})
  BY <1>1, Grow
<1>3. CASE t[n + 1].tpoint # "NVME_IO_COMPLETE"
  <2>1. B = A
    BY <1>2, <1>3
  <2> QED BY <1>3, <2>1 DEF Extremes
<1>4. CASE t[n + 1].tpoint = "NVME_IO_COMPLETE"
  <2> SUFFICES ASSUME NEW v \in Nat, v = t[n + 1].tsc_sc_time
               PROVE  Extremes(t, n + 1, IF min = 0 \/ v < min THEN v ELSE min,
                                         IF v > max THEN v ELSE max)
    BY <1>4
  <2>1. PICK low \in Nat : low = IF min = 0 \/ v < min THEN v ELSE min
    OBVIOUS
  <2>2. PICK high \in Nat : high = IF v > max THEN v ELSE max
    OBVIOUS
  <2>3. B = A \cup {n + 1} /\ n + 1 \in B /\ B # {}
    BY <1>2, <1>4
  <2>4. \A k \in A : t[k].tsc_sc_time \in Nat
    <3>1. A \subseteq 1 .. Len(t)
      BY <1>1, Few
    <3>2. \A k \in 1 .. Len(t) : t[k].tsc_sc_time \in Nat
      BY Entry
    <3> QED BY <3>1, <3>2
  <2>5. /\ A = {} => min = 0 /\ max = 0
        /\ A # {} => \E k \in A : t[k].tsc_sc_time = max
        /\ \A k \in A : t[k].tsc_sc_time <= max
        /\ (\A k \in A : t[k].tsc_sc_time # 0) =>
              /\ \A k \in A : t[k].tsc_sc_time >= min
              /\ A # {} => \E k \in A : t[k].tsc_sc_time = min
    BY DEF Extremes
  <2> HIDE DEF A, B
  <2>6. \E k \in B : t[k].tsc_sc_time = high
    BY <2>2, <2>3, <2>4, <2>5
  <2>7. \A k \in B : t[k].tsc_sc_time <= high
    BY <2>2, <2>3, <2>4, <2>5
  <2>8. ASSUME \A k \in B : t[k].tsc_sc_time # 0
        PROVE  /\ \A k \in B : t[k].tsc_sc_time >= low
               /\ \E k \in B : t[k].tsc_sc_time = low
    <3>1. /\ \A k \in A : t[k].tsc_sc_time >= min /\ t[k].tsc_sc_time # 0
          /\ A # {} => \E k \in A : t[k].tsc_sc_time = min
      BY <2>3, <2>5, <2>8
    <3>2. A # {} => min # 0
      BY <3>1
    <3>3. \A k \in A : t[k].tsc_sc_time >= low
      BY <2>1, <2>4, <3>1, <3>2
    <3>4. v >= low
      BY <2>1
    <3>5. \E k \in B : t[k].tsc_sc_time = low
      BY <2>1, <2>3, <2>5, <3>1
    <3> QED BY <2>3, <3>3, <3>4, <3>5
  <2>9. Extremes(t, n + 1, low, high)
    BY <2>3, <2>6, <2>7, <2>8 DEF Extremes, B
  <2> QED BY <2>1, <2>2, <2>9
<1> QED BY <1>3, <1>4

\* Before the first entry.
LEMMA ExtremesNone == ASSUME NEW t PROVE Extremes(t, 0, 0, 0)
BY None DEF Extremes
\* The partial sums after an entry that completes nothing.
LEMMA PartialSame ==
    ASSUME NEW t \in Traces, NEW n \in Nat, n < Len(t), NEW sums, NEW faults,
           PartialSums(t, n, sums, faults), t[n + 1].tpoint # "NVME_IO_COMPLETE"
    PROVE  PartialSums(t, n + 1, sums, faults)
<1>1. Comps(t, n + 1) = Comps(t, n) \cup
          (IF t[n + 1].tpoint = "NVME_IO_COMPLETE" THEN {n + 1} ELSE {})
  BY Grow, Directions
<1>2. Comps(t, n + 1) = Comps(t, n)
  BY <1>1
<1> QED BY <1>2 DEF PartialSums

\* One more completion adds its time to the sum.
LEMMA SumTimes ==
    ASSUME NEW t \in Traces, NEW n \in Nat, n < Len(t), t[n + 1].tpoint = "NVME_IO_COMPLETE"
    PROVE  /\ Comps(t, n + 1) # {}
           /\ SumOver(Times(t), Comps(t, n)) \in Nat
           /\ SumOver(Times(t), Comps(t, n + 1)) =
                 SumOver(Times(t), Comps(t, n)) + t[n + 1].tsc_sc_time
<1> DEFINE A == Comps(t, n)
<1>1. "r" \in RW /\ Len(t) \in Nat /\ n <= Len(t)
  BY Entry DEF RW
<1>2. Comps(t, n + 1) = A \cup {n + 1}
  BY <1>1, Grow
<1>3. n + 1 \notin 1 .. n /\ n + 1 \in 1 .. Len(t)
  BY <1>1
<1>4. IsFiniteSet(A) /\ A \subseteq 1 .. n /\ A \subseteq 1 .. Len(t) /\ SumOver(Times(t), A) \in Nat
  BY <1>1, Few
<1>5. \A k \in A \cup {n + 1} : Times(t)[k] \in Nat
  BY <1>3, <1>4, Entry
<1>6. Times(t)[n + 1] = t[n + 1].tsc_sc_time
  BY <1>3, Entry
<1>7. SumOver(Times(t), A \cup {n + 1}) = SumOver(Times(t), A) + Times(t)[n + 1]
  <2>1. n + 1 \notin A
    BY <1>3, <1>4
  <2> HIDE DEF A
  <2> QED BY ONLY <1>4, <1>5, <2>1, SumAdd
<1> QED BY <1>2, <1>4, <1>6, <1>7

\* A sum below the limit is not taken for an overflow by latency_total.
LEMMA BelowLimit ==
    ASSUME NEW a \in Nat, NEW v \in Nat, NEW m \in Nat, a + v < m
    PROVE  a < m /\ ~(v >= m - a)
OBVIOUS

\* latency_total: the sum grows in the last node s[last], or starts a new one, or
\* the list is lost.
LastNode(sums, last, x) ==
    /\ sums = <<>> => last = 1 /\ x = 0
    /\ sums # <<>> => last = Len(sums) /\ x = sums[last]

\* One more completion: its time goes to the last node or to a new one, and the nodes
\* still add up to the times so far.
LEMMA PartialAdd ==
    ASSUME NEW t \in Traces, NEW n \in Nat, n < Len(t), NEW sums, NEW faults,
           PartialSums(t, n, sums, faults), t[n + 1].tpoint = "NVME_IO_COMPLETE",
           NEW v \in Nat, v = t[n + 1].tsc_sc_time, NEW last \in Nat, last >= 1, NEW x \in Nat,
           LastNode(sums, last, x), NEW new, NEW after
    PROVE  /\ v < UINT64_MAX - x /\ after = faults
                 /\ new # <<>> /\ Len(new) = last /\ new[last] = x + v
              => PartialSums(t, n + 1, new, after)
           /\ v >= UINT64_MAX - x /\ after = faults /\ new # <<>> /\ Len(new) = last + 1
              => PartialSums(t, n + 1, new, after)
           /\ new = <<>> /\ "no memory" \in after => PartialSums(t, n + 1, new, after)
<1> DEFINE A == Comps(t, n)
           B == Comps(t, n + 1)
<1>1. PICK a \in Nat : a = SumOver(Times(t), A)
  BY SumTimes
<1>2. B # {} /\ SumOver(Times(t), B) = a + v
  BY <1>1, SumTimes
<1>3. UINT64_MAX \in Nat
  BY AnalyzerAssumption
<1>4. /\ A = {} => sums = <<>>
      /\ "no memory" \notin faults =>
            /\ A # {} => sums # <<>>
            /\ Len(sums) = 1 => sums[1] = a
            /\ a < UINT64_MAX => Len(sums) <= 1
  BY <1>1 DEF PartialSums
<1>5. A = {} => a = 0
  BY <1>1, SumEmpty
<1> HIDE DEF A
<1>6. ASSUME "no memory" \notin faults
      PROVE  (last = 1 => x = a) /\ (a < UINT64_MAX => last = 1)
  <2>1. CASE sums = <<>>
    <3>1. last = 1 /\ x = 0
      BY <2>1 DEF LastNode
    <3>2. a = 0
      BY <1>4, <1>5, <1>6, <2>1
    <3> QED BY <3>1, <3>2
  <2>2. CASE sums # <<>>
    <3>1. last = Len(sums) /\ x = sums[last]
      BY <2>2 DEF LastNode
    <3>2. (Len(sums) = 1 => sums[1] = a) /\ (a < UINT64_MAX => Len(sums) <= 1)
      BY <1>4, <1>6
    <3> QED BY <3>1, <3>2
  <2> QED BY <2>1, <2>2
<1>7. SUFFICES ASSUME "no memory" \notin after => new # <<>>
                          /\ (Len(new) = 1 => new[1] = a + v)
                          /\ (a + v < UINT64_MAX => Len(new) <= 1)
               PROVE  PartialSums(t, n + 1, new, after)
  <2>1. CASE v < UINT64_MAX - x /\ after = faults
             /\ new # <<>> /\ Len(new) = last /\ new[last] = x + v
    <3>1. ASSUME "no memory" \notin after, last = 1 PROVE new[1] = a + v
      BY <1>6, <2>1, <3>1
    <3>2. ASSUME "no memory" \notin after, a + v < UINT64_MAX PROVE last <= 1
      <4>1. a < UINT64_MAX
        BY <1>3, <3>2, BelowLimit
      <4>2. last = 1
        BY <1>6, <2>1, <3>2, <4>1
      <4> QED BY <4>2
    <3> QED BY <1>7, <2>1, <3>1, <3>2
  <2>2. CASE v >= UINT64_MAX - x /\ after = faults /\ new # <<>> /\ Len(new) = last + 1
    <3>1. ASSUME "no memory" \notin after, a + v < UINT64_MAX PROVE FALSE
      <4>1. a < UINT64_MAX /\ ~(v >= UINT64_MAX - a)
        BY <1>3, <3>1, BelowLimit
      <4>2. x = a
        BY <1>6, <2>2, <3>1, <4>1
      <4> QED BY <2>2, <4>1, <4>2
    <3>2. Len(new) # 1
      <4>1. \A l \in Nat : l >= 1 => l + 1 # 1
        BY ONLY TRUE
      <4> QED BY <2>2, <4>1
    <3> QED BY <1>7, <2>2, <3>1, <3>2
  <2>3. CASE new = <<>> /\ "no memory" \in after
    BY <1>7, <2>3
  <2> QED BY <2>1, <2>2, <2>3
<1> QED BY <1>2, <1>7 DEF PartialSums

-----------------------------------------------------------------------------
(* Counters of Word16 values: sums up to the width of the counters.        *)

\* A multiple of w that is not 0 is at least w away from 0.
LEMMA Multiple ==
    ASSUME NEW w \in Nat, NEW q \in Int
    PROVE  /\ q >= 1 => w * q >= w
           /\ q <= -1 => w * q <= -w
<1>1. w * q = w + w * (q - 1) /\ w * q = w * (q + 1) - w
  OBVIOUS
<1>2. q >= 1 => w * (q - 1) >= 0
  OBVIOUS
<1>3. q <= -1 => w * (q + 1) <= 0
  OBVIOUS
<1> QED BY <1>1, <1>2, <1>3

\* Division with remainder, as an equation.
LEMMA Division ==
    ASSUME NEW w \in Nat, w > 0, NEW a \in Int
    PROVE  \E q \in Int, r \in 0 .. w - 1 : a = w * q + r /\ a % w = r /\ a \div w = q
<1> DEFINE q == a \div w
           r == a % w
           m == w * q
<1>1. r \in 0 .. w - 1 /\ q \in Int /\ m \in Int
  OBVIOUS
<1>2. a = m + r
  OBVIOUS
<1> QED BY <1>1, <1>2

\* Two numbers have the same remainder exactly if they differ by a multiple.
Apart(a, b, w) == \E q \in Int : a = b + w * q

\* Two integers have the same remainder just when a multiple of w lies between them.
LEMMA Congruent ==
    ASSUME NEW w \in Nat, w > 0, NEW a \in Int, NEW b \in Int
    PROVE  a % w = b % w <=> Apart(a, b, w)
<1>1. PICK qa \in Int, ra \in 0 .. w - 1 : a = w * qa + ra /\ a % w = ra
  BY Division
<1>2. PICK qb \in Int, rb \in 0 .. w - 1 : b = w * qb + rb /\ b % w = rb
  BY Division
<1>3. ASSUME ra = rb PROVE Apart(a, b, w)
  <2>1. w * qa = w * qb + w * (qa - qb) /\ qa - qb \in Int
    OBVIOUS
  <2>2. a = b + w * (qa - qb)
    BY <1>1, <1>2, <1>3, <2>1
  <2> QED BY <2>1, <2>2 DEF Apart
<1>4. ASSUME NEW q \in Int, a = b + w * q PROVE ra = rb
  <2>1. w * (qa - qb - q) = w * qa - w * qb - w * q /\ qa - qb - q \in Int
    OBVIOUS
  <2>2. PICK k \in Int : k = qa - qb - q
    BY <2>1
  <2>3. PICK m \in Int : m = w * k
    OBVIOUS
  <2>4. m = rb - ra
    BY <1>1, <1>2, <1>4, <2>1, <2>2, <2>3
  <2>5. (k >= 1 => m >= w) /\ (k <= -1 => m <= -w) /\ (k = 0 => m = 0)
    BY <2>3, Multiple
  <2> QED BY <2>4, <2>5
<1> QED BY <1>1, <1>2, <1>3, <1>4 DEF Apart

Alike(a, b, w) == a % w = b % w

\* Remainders may be added.
LEMMA ModSum ==
    ASSUME NEW w \in Nat, w > 0, NEW a \in Int, NEW b \in Int, NEW c \in Int, NEW e \in Int,
           Alike(a, b, w), Alike(c, e, w)
    PROVE  Alike(a + c, b + e, w)
<1>1. PICK p \in Int : a = b + w * p
  BY Congruent DEF Apart, Alike
<1>2. PICK q \in Int : c = e + w * q
  BY Congruent DEF Apart, Alike
<1>3. w * (p + q) = w * p + w * q /\ p + q \in Int
  OBVIOUS
<1>4. PICK x \in Int : x = w * p
  OBVIOUS
<1>5. PICK y \in Int : y = w * q
  OBVIOUS
<1>6. a + c = (b + e) + w * (p + q)
  BY <1>1, <1>2, <1>3, <1>4, <1>5
<1>7. PICK s \in Int : s = a + c
  OBVIOUS
<1>8. PICK r \in Int : r = b + e
  OBVIOUS
<1>9. Apart(s, r, w)
  BY <1>3, <1>6, <1>7, <1>8 DEF Apart
<1>10. s % w = r % w
  BY <1>9, Congruent
<1> QED BY <1>7, <1>8, <1>10 DEF Alike

\* A remainder is its own remainder.
LEMMA ModTwice ==
    ASSUME NEW w \in Nat, w > 0, NEW a \in Int
    PROVE  a % w \in 0 .. w - 1 /\ (a % w) % w = a % w
<1>1. PICK q \in Int, r \in 0 .. w - 1 : a = w * q + r /\ a % w = r
  BY Division
<1>2. w * (-q) = -(w * q) /\ -q \in Int
  OBVIOUS
<1>3. r = a + w * (-q)
  BY <1>1, <1>2
<1>4. Apart(r, a, w)
  BY <1>2, <1>3 DEF Apart
<1>5. r % w = a % w
  <2>1. r \in Int
    OBVIOUS
  <2> QED BY <1>4, <2>1, Congruent
<1> QED BY <1>1, <1>5

\* The counters of B go on by one, each within its width: so does their sum, once
\* for each.
LEMMA SumWrapped ==
    ASSUME NEW w \in Nat, w > 0, NEW S, IsFiniteSet(S), NEW B, B \subseteq S, NEW f, NEW h,
           \A k \in S : f[k] \in Nat /\ h[k] = IF k \in B THEN (f[k] + 1) % w ELSE f[k]
    PROVE  SumOver(h, S) % w = (SumOver(f, S) + Cardinality(B)) % w
<1> DEFINE Agree(T) == SumOver(h, T) % w = (SumOver(f, T) + Cardinality(B \cap T)) % w
           C == {T \in SUBSET S : ~Agree(T)}
<1>1. SUFFICES ASSUME C # {} PROVE FALSE
  <2>1. B \cap S = B
    OBVIOUS
  <2> QED BY <2>1
<1>2. \A T \in C : IsFiniteSet(T)
  BY FS_Subset
<1>3. PICK T \in C : \A U \in C : U \subseteq T => U = T
  <2> HIDE DEF C
  <2> QED BY <1>1, <1>2, Minimal
<1>4. T \in SUBSET S /\ ~Agree(T) /\ IsFiniteSet(T) /\ \A U \in SUBSET T : U # T => Agree(U)
  BY <1>2, <1>3
<1> HIDE DEF C
<1>5. T # {}
  <2> SUFFICES ASSUME T = {} PROVE FALSE
    OBVIOUS
  <2>1. SumOver(h, T) = 0 /\ SumOver(f, T) = 0 /\ Cardinality(B \cap T) = 0
    BY SumEmpty, FS_EmptySet
  <2> QED BY <1>4, <2>1
<1>6. PICK x \in T : TRUE
  BY <1>5
<1> DEFINE U == T \ {x}
<1>7. Agree(U) /\ IsFiniteSet(U)
  BY <1>4, <1>6, FS_Subset
<1>8. \A k \in T : f[k] \in Nat /\ h[k] \in Nat
  <2>1. \A k \in T : f[k] + 1 \in Int /\ (f[k] + 1) % w \in 0 .. w - 1
    BY <1>4, ModTwice
  <2> QED BY <1>4, <2>1
<1>9. PICK a \in Nat : a = f[x]
  BY <1>8
<1>10. PICK b \in Nat : b = h[x]
  BY <1>8
<1>11. PICK p \in Nat : p = SumOver(f, U)
  BY <1>7, <1>8, SumType
<1>12. PICK q \in Nat : q = SumOver(h, U)
  BY <1>7, <1>8, SumType
<1>13. SumOver(f, T) = a + p /\ SumOver(h, T) = b + q
  BY <1>4, <1>6, <1>8, <1>9, <1>10, <1>11, <1>12, SumRemove
<1>14. IsFiniteSet(B \cap U) /\ Cardinality(B \cap U) \in Nat
  BY <1>7, FS_Intersection, FS_CardinalityType
<1>15. PICK c \in Nat : c = Cardinality(B \cap U)
  BY <1>14
<1>16. q % w = (p + c) % w
  BY <1>7, <1>11, <1>12, <1>15
<1>17. CASE x \in B
  <2>1. B \cap T = (B \cap U) \cup {x} /\ x \notin B \cap U
    BY <1>6, <1>17
  <2>2. Cardinality(B \cap T) = c + 1
    BY <1>14, <1>15, <2>1, FS_AddElement
  <2>3. b = (a + 1) % w
    BY <1>4, <1>6, <1>9, <1>10, <1>17
  <2>4. b % w = (a + 1) % w
    BY <2>3, ModTwice
  <2>5. (b + q) % w = ((a + 1) + (p + c)) % w
    <3>1. PICK y \in Int : y = a + 1
      OBVIOUS
    <3>2. PICK z \in Int : z = p + c
      OBVIOUS
    <3>3. Alike(b, y, w) /\ Alike(q, z, w)
      BY <1>16, <2>4, <3>1, <3>2 DEF Alike
    <3>4. Alike(b + q, y + z, w)
      BY <3>3, ModSum
    <3> QED BY <3>1, <3>2, <3>4 DEF Alike
  <2>6. (a + 1) + (p + c) = (a + p) + (c + 1)
    OBVIOUS
  <2> QED BY <1>4, <1>13, <2>2, <2>5, <2>6
<1>18. CASE x \notin B
  <2>1. B \cap T = B \cap U
    BY <1>18
  <2>2. b = a
    BY <1>4, <1>6, <1>9, <1>10, <1>18
  <2>3. (b + q) % w = (a + (p + c)) % w
    <3>1. PICK z \in Int : z = p + c
      OBVIOUS
    <3>2. Alike(b, a, w) /\ Alike(q, z, w)
      BY <1>16, <2>2, <3>1 DEF Alike
    <3>3. Alike(b + q, a + z, w)
      BY <3>2, ModSum
    <3> QED BY <3>1, <3>3 DEF Alike
  <2>4. a + (p + c) = (a + p) + c
    OBVIOUS
  <2> QED BY <1>4, <1>13, <1>15, <2>1, <2>3, <2>4
<1> QED BY <1>17, <1>18

\* One more request, counted in the zone z and in the blocks of B.
Counting(f, B) == [k \in DOMAIN f |-> IF k \in B THEN (f[k] + 1) % Word16 ELSE f[k]]
BlocksOf(e) == e.slba .. e.slba + ((e.nlb + 1) % Word16) - 1

\* One more command adds one at every place it touches, in the width of the counters.
LEMMA PlacedOne ==
    ASSUME NEW t \in Traces, NEW S, S \subseteq 1 .. Len(t), IsFiniteSet(S),
           NEW x \in 1 .. Len(t), x \notin S, NEW m \in Nat, NEW n \in Nat,
           NEW f \in [0 .. m - 1 -> 0 .. Word16 - 1], NEW g \in [0 .. n - 1 -> 0 .. Word16 - 1],
           NEW B, B = BlocksOf(t[x]),
           B \subseteq 0 .. m - 1, NEW z \in 0 .. n - 1, PlacedBy(S, t, f, g)
    PROVE  PlacedBy(S \cup {x}, t, Counting(f, B), Counting(g, {z}))
<1> DEFINE D == 0 .. m - 1
           E == 0 .. n - 1
           h == Counting(f, B)
           e == Counting(g, {z})
<1>1. /\ Word16 \in Nat /\ Word16 > 0
      /\ DOMAIN f = D /\ DOMAIN g = E /\ DOMAIN h = D /\ DOMAIN e = E
  BY AnalyzerAssumption DEF Counting
<1>2. IsFiniteSet(D) /\ IsFiniteSet(E)
  <2>1. 0 \in Int /\ m - 1 \in Int /\ n - 1 \in Int
    OBVIOUS
  <2> QED BY <2>1, FS_Interval
<1>3. PICK v \in Nat : v = t[x].nlb + 1
  BY Entry
<1>4. PICK r \in Nat : r = v % Word16
  <2>1. v \in Int
    OBVIOUS
  <2>2. v % Word16 \in 0 .. Word16 - 1
    BY <1>1, <2>1, ModTwice
  <2> QED BY <1>1, <2>2
<1>5. Alike(r, v, Word16)
  <2>1. v \in Int
    OBVIOUS
  <2> QED BY <1>1, <1>4, <2>1, ModTwice DEF Alike
<1>6. Cardinality(B) = r
  <2>1. PICK s \in Nat : s = t[x].slba
    BY Entry
  <2>2. B = s .. s + r - 1
    BY <1>3, <1>4, <2>1 DEF BlocksOf
  <2>3. s \in Int /\ s + r - 1 \in Int
    OBVIOUS
  <2>4. Cardinality(s .. s + r - 1) = IF s > s + r - 1 THEN 0 ELSE (s + r - 1) - s + 1
    BY <2>3, FS_Interval
  <2>5. (s > s + r - 1 => r = 0) /\ (s + r - 1) - s + 1 = r
    OBVIOUS
  <2> QED BY <2>2, <2>4, <2>5
<1>7. PICK c \in Nat : c = Cardinality(S)
  BY FS_CardinalityType
<1>8. Cardinality(S \cup {x}) = c + 1
  BY <1>7, FS_AddElement
<1>9. /\ \A k \in S \cup {x} : Lens(t)[k] \in Nat
      /\ Lens(t)[x] = v
  BY <1>3, Entry
<1>10. PICK l \in Nat : l = SumOver(Lens(t), S)
  BY <1>9, SumType
<1>11. SumOver(Lens(t), S \cup {x}) = l + v
  BY <1>9, <1>10, SumAdd
<1>12. Alike(SumOver(e, E), c + 1, Word16)
  <2>1. \A k \in E : g[k] \in Nat /\ e[k] = IF k \in {z} THEN (g[k] + 1) % Word16 ELSE g[k]
    BY <1>1 DEF Counting
  <2>2. {z} \subseteq E /\ Cardinality({z}) = 1
    BY FS_Singleton
  <2>3. SumOver(e, E) % Word16 = (SumOver(g, E) + Cardinality({z})) % Word16
    <3>1. Word16 \in Nat /\ Word16 > 0 /\ IsFiniteSet(E)
      BY <1>1, <1>2
    <3> HIDE DEF E, e
    <3> QED BY ONLY <2>1, <2>2, <3>1, SumWrapped, ZenonT(60)
  <2>4. PICK a \in Nat : a = SumOver(g, E)
    <3> HIDE DEF E
    <3> QED BY <1>2, <2>1, SumType
  <2>5. Alike(a, c, Word16) /\ Alike(1, 1, Word16)
    BY <1>1, <1>7, <2>4 DEF PlacedBy, Alike
  <2>6. Alike(a + 1, c + 1, Word16)
    <3>1. 1 \in Int
      OBVIOUS
    <3> QED BY <1>1, <2>5, <3>1, ModSum
  <2> QED BY <2>2, <2>3, <2>4, <2>6 DEF Alike
<1>13. Alike(SumOver(h, D), l + v, Word16)
  <2>1. \A k \in D : f[k] \in Nat /\ h[k] = IF k \in B THEN (f[k] + 1) % Word16 ELSE f[k]
    BY <1>1 DEF Counting
  <2>2. SumOver(h, D) % Word16 = (SumOver(f, D) + Cardinality(B)) % Word16
    <3>1. B \subseteq D
      OBVIOUS
    <3>2. Word16 \in Nat /\ Word16 > 0 /\ IsFiniteSet(D)
      BY <1>1, <1>2
    <3> HIDE DEF D, h
    <3> QED BY ONLY <2>1, <3>1, <3>2, SumWrapped, ZenonT(60)
  <2>3. PICK a \in Nat : a = SumOver(f, D)
    <3> HIDE DEF D
    <3> QED BY <1>2, <2>1, SumType
  <2>4. Alike(a, l, Word16)
    BY <1>1, <1>10, <2>3 DEF PlacedBy, Alike
  <2>5. Alike(a + r, l + v, Word16)
    BY <1>1, <1>5, <2>4, ModSum
  <2> QED BY <1>6, <2>2, <2>3, <2>5 DEF Alike
<1> HIDE DEF D, E, h, e
<1>14. PlacedBy(S \cup {x}, t, h, e)
  BY <1>1, <1>8, <1>11, <1>12, <1>13 DEF PlacedBy, Alike
<1> QED BY <1>14 DEF h, e

\* No request has been counted.
LEMMA PlacedNone ==
    ASSUME NEW t, NEW m \in Nat, NEW n \in Nat,
           NEW f, f = [k \in 0 .. m - 1 |-> 0], NEW g, g = [k \in 0 .. n - 1 |-> 0]
    PROVE  PlacedBy({}, t, f, g)
<1>1. CountedBy({}, t, 0, f) /\ CountedBy({}, t, 0, g)
  BY CountedNone
<1>2. SumOver(f, DOMAIN f) = 0 /\ SumOver(g, DOMAIN g) = 0 /\ Cardinality({}) = 0
  BY <1>1, FS_EmptySet DEF CountedBy
<1> QED BY <1>2, SumEmpty DEF PlacedBy
-----------------------------------------------------------------------------
(* The parts of the invariant over one entry.                              *)

\* An entry that is no read and no write leaves the counts right.
LEMMA HistogramSame ==
    ASSUME NEW t \in Traces, NEW n \in Nat, n < Len(t), NEW cnt, NEW io,
           Histogram(t, n, cnt, io), \A rw \in RW : ~IsMove(t[n + 1], rw)
    PROVE  Histogram(t, n + 1, cnt, io)
<1>1. \A rw \in RW : Moves(t, n + 1, rw) = Moves(t, n, rw)
  <2> TAKE rw \in RW
  <2>1. Moves(t, n + 1, rw) = Moves(t, n, rw) \cup (IF IsMove(t[n + 1], rw) THEN {n + 1} ELSE {})
    BY Grow
  <2> QED BY <2>1
<1> QED BY <1>1 DEF Histogram

\* An entry that is no read or write leaves the counts of the places alone.
LEMMA PlacesSame ==
    ASSUME NEW t \in Traces, NEW n \in Nat, n < Len(t), NEW b, NEW z,
           Places(t, n, b, z), \A rw \in RW : ~IsMove(t[n + 1], rw)
    PROVE  Places(t, n + 1, b, z)
<1>1. \A rw \in RW : Moves(t, n + 1, rw) = Moves(t, n, rw)
  <2> TAKE rw \in RW
  <2>1. Moves(t, n + 1, rw) = Moves(t, n, rw) \cup (IF IsMove(t[n + 1], rw) THEN {n + 1} ELSE {})
    BY Grow
  <2> QED BY <2>1
<1> QED BY <1>1 DEF Places

\* A read or a write belongs to one direction.
LEMMA OneMove ==
    ASSUME NEW t \in Traces, NEW n \in Nat, n < Len(t), NEW dir \in RW, IsMove(t[n + 1], dir)
    PROVE  /\ Moves(t, n + 1, dir) = Moves(t, n, dir) \cup {n + 1}
           /\ Moves(t, n, dir) \subseteq 1 .. Len(t) /\ IsFiniteSet(Moves(t, n, dir))
           /\ n + 1 \in 1 .. Len(t) /\ n + 1 \notin Moves(t, n, dir)
           /\ \A rw \in RW : rw # dir => Moves(t, n + 1, rw) = Moves(t, n, rw)
<1>1. Len(t) \in Nat /\ n <= Len(t) /\ n + 1 \in 1 .. Len(t) /\ n + 1 \notin 1 .. n
  BY Entry
<1>2. \A rw \in RW :
        Moves(t, n + 1, rw) = Moves(t, n, rw) \cup (IF IsMove(t[n + 1], rw) THEN {n + 1} ELSE {})
  BY Grow
<1>3. /\ Moves(t, n, dir) \subseteq 1 .. Len(t) /\ IsFiniteSet(Moves(t, n, dir))
      /\ n + 1 \notin Moves(t, n, dir)
  BY <1>1, Few
<1>4. t[n + 1] \in Entries
  BY <1>1, Entry
<1>5. \A rw \in RW : rw # dir => ~IsMove(t[n + 1], rw)
  BY <1>4, Kinds DEF RW
<1>6. \A rw \in RW : rw # dir => Moves(t, n + 1, rw) = Moves(t, n, rw)
  BY <1>2, <1>5
<1>7. Moves(t, n + 1, dir) = Moves(t, n, dir) \cup {n + 1}
  BY <1>2
<1> QED BY <1>1, <1>3, <1>6, <1>7

\* One more command adds one in its direction and one at its size.
LEMMA HistogramAdd ==
    ASSUME NEW t \in Traces, NEW n \in Nat, n < Len(t), NEW m \in Nat,
           NEW cnt \in [RW -> Nat], NEW io \in [RW -> [0 .. m - 1 -> Nat]],
           Histogram(t, n, cnt, io), NEW dir \in RW, IsMove(t[n + 1], dir),
           NEW v, v = t[n + 1].nlb, v < m
    PROVE  Histogram(t, n + 1, [cnt EXCEPT ![dir] = @ + 1], [io EXCEPT ![dir][v] = @ + 1])
<1> DEFINE c2 == [cnt EXCEPT ![dir] = @ + 1]
           io2 == [io EXCEPT ![dir][v] = @ + 1]
<1>0. /\ Moves(t, n + 1, dir) = Moves(t, n, dir) \cup {n + 1}
      /\ \A rw \in RW : rw # dir => Moves(t, n + 1, rw) = Moves(t, n, rw)
  BY OneMove
<1>1. CountedBy(Moves(t, n, dir) \cup {n + 1}, t, cnt[dir] + 1, [io[dir] EXCEPT ![v] = @ + 1])
  BY OneMove, CountedOne DEF Histogram
<1>2. c2[dir] = cnt[dir] + 1 /\ io2[dir] = [io[dir] EXCEPT ![v] = @ + 1]
  OBVIOUS
<1>3. \A rw \in RW : rw # dir => c2[rw] = cnt[rw] /\ io2[rw] = io[rw]
  OBVIOUS
<1>4. ASSUME NEW rw \in RW PROVE CountedBy(Moves(t, n + 1, rw), t, c2[rw], io2[rw])
  <2>1. CASE rw = dir
    <3> HIDE DEF c2, io2
    <3> QED BY <1>0, <1>1, <1>2, <2>1
  <2>2. CASE rw # dir
    <3>1. Moves(t, n + 1, rw) = Moves(t, n, rw)
      BY <1>0, <2>2
    <3>2. CountedBy(Moves(t, n, rw), t, cnt[rw], io[rw])
      BY DEF Histogram
    <3> HIDE DEF c2, io2
    <3> QED BY <1>3, <2>2, <3>1, <3>2
  <2> QED BY <2>1, <2>2
<1> HIDE DEF c2, io2
<1>5. Histogram(t, n + 1, c2, io2)
  BY <1>4 DEF Histogram
<1> QED BY <1>5 DEF c2, io2

\* block_counter and zone_counter, for a command that fits.
LEMMA PlacesAdd ==
    ASSUME NEW t \in Traces, NEW n \in Nat, n < Len(t), NEW m \in Nat, NEW l \in Nat,
           NEW b \in [RW -> [0 .. m - 1 -> 0 .. Word16 - 1]],
           NEW z \in [RW -> [0 .. l - 1 -> 0 .. Word16 - 1]],
           Places(t, n, b, z), NEW dir \in RW, IsMove(t[n + 1], dir),
           NEW B, B = BlocksOf(t[n + 1]), B \subseteq 0 .. m - 1, NEW x \in 0 .. l - 1
    PROVE  Places(t, n + 1, [b EXCEPT ![dir] = Counting(@, B)], [z EXCEPT ![dir] = Counting(@, {x})])
<1> DEFINE b2 == [b EXCEPT ![dir] = Counting(@, B)]
           z2 == [z EXCEPT ![dir] = Counting(@, {x})]
<1>1. /\ Moves(t, n + 1, dir) = Moves(t, n, dir) \cup {n + 1}
      /\ Moves(t, n, dir) \subseteq 1 .. Len(t) /\ IsFiniteSet(Moves(t, n, dir))
      /\ n + 1 \in 1 .. Len(t) /\ n + 1 \notin Moves(t, n, dir)
      /\ \A rw \in RW : rw # dir => Moves(t, n + 1, rw) = Moves(t, n, rw)
  BY OneMove
<1>2. PlacedBy(Moves(t, n, dir) \cup {n + 1}, t, Counting(b[dir], B), Counting(z[dir], {x}))
  <2>1. b[dir] \in [0 .. m - 1 -> 0 .. Word16 - 1] /\ z[dir] \in [0 .. l - 1 -> 0 .. Word16 - 1]
    OBVIOUS
  <2>2. PlacedBy(Moves(t, n, dir), t, b[dir], z[dir])
    BY DEF Places
  <2> HIDE DEF b2, z2
  <2> QED BY <1>1, <2>1, <2>2, PlacedOne
<1>3. b2[dir] = Counting(b[dir], B) /\ z2[dir] = Counting(z[dir], {x})
  OBVIOUS
<1>4. \A rw \in RW : rw # dir => b2[rw] = b[rw] /\ z2[rw] = z[rw]
  OBVIOUS
<1> HIDE DEF b2, z2
<1>5. ASSUME NEW rw \in RW PROVE PlacedBy(Moves(t, n + 1, rw), t, b2[rw], z2[rw])
  <2>1. CASE rw = dir
    BY <1>1, <1>2, <1>3, <2>1
  <2>2. CASE rw # dir
    <3>1. PlacedBy(Moves(t, n, rw), t, b[rw], z[rw])
      BY DEF Places
    <3> QED BY <1>1, <1>4, <2>2, <3>1
  <2> QED BY <2>1, <2>2
<1>6. Places(t, n + 1, b2, z2)
  BY <1>5 DEF Places
<1> QED BY <1>6 DEF b2, z2

\* The counts of no entry.
LEMMA HistogramNone ==
    ASSUME NEW t, NEW m \in Nat
    PROVE  Histogram(t, 0, [rw \in RW |-> 0], Zeroes(m))
<1>1. ASSUME NEW rw \in RW
      PROVE  CountedBy(Moves(t, 0, rw), t, [d1 \in RW |-> 0][rw], Zeroes(m)[rw])
  <2>1. Zeroes(m)[rw] = [k \in 0 .. m - 1 |-> 0] /\ [d1 \in RW |-> 0][rw] = 0
    BY <1>1 DEF Zeroes
  <2>2. CountedBy({}, t, 0, Zeroes(m)[rw])
    BY <2>1, CountedNone
  <2> QED BY <2>1, <2>2, None
<1> QED BY <1>1 DEF Histogram

\* Before the first entry no place has been touched.
LEMMA PlacesNone ==
    ASSUME NEW t, NEW m \in Nat, NEW n \in Nat
    PROVE  Places(t, 0, Zeroes(m), Zeroes(n))
<1>1. ASSUME NEW rw \in RW
      PROVE  PlacedBy(Moves(t, 0, rw), t, Zeroes(m)[rw], Zeroes(n)[rw])
  <2>1. Zeroes(m)[rw] = [k \in 0 .. m - 1 |-> 0] /\ Zeroes(n)[rw] = [k \in 0 .. n - 1 |-> 0]
    BY <1>1 DEF Zeroes
  <2>2. PlacedBy({}, t, Zeroes(m)[rw], Zeroes(n)[rw])
    BY <2>1, PlacedNone
  <2> QED BY <2>2, None
<1> QED BY <1>1 DEF Places
-----------------------------------------------------------------------------
(* The sums of the model are sums of these.                                *)

\* The reference sum of the times, as a sum over the completions.
LEMMA TimeSumIs ==
    ASSUME NEW n \in Nat, n <= Len(trace), trace \in Traces
    PROVE  TimeSum(n) = SumOver(Times(trace), Comps(trace, n))
<1> DEFINE S == Completions(n)
           g == Times(trace)
           C == CHOOSE f : f = [s \in SUBSET S |->
                    IF s = {} THEN 0 ELSE Time(Chosen(s)) + f[s \ {Chosen(s)}]]
<1>1. S = Comps(trace, n)
  BY DEF Completions, Comps
<1>2. IsFiniteSet(S) /\ \A k \in S : g[k] \in Nat /\ g[k] = Time(k)
  <2>1. IsFiniteSet(S) /\ S \subseteq 1 .. n /\ 1 .. n \subseteq 1 .. Len(trace)
    BY <1>1, Few, Directions
  <2>2. \A k \in 1 .. Len(trace) : g[k] \in Nat /\ g[k] = Time(k)
    BY Entry DEF Time
  <2> QED BY <2>1, <2>2
<1>3. TimeSum(n) = C[S]
  BY DEF TimeSum, MapThenSumSet, MapThenFoldSet, Chosen
<1>4. PICK f \in [SUBSET S -> Nat] : IsFold(f, g, S) /\ SumOver(g, S) = f[S]
  <2> HIDE DEF S, g
  <2> QED BY <1>2, SumFold
<1>5. f = [s \in SUBSET S |-> IF s = {} THEN 0 ELSE Time(Chosen(s)) + f[s \ {Chosen(s)}]]
  <2>1. \A s \in SUBSET S : s # {} => g[Chosen(s)] = Time(Chosen(s))
    BY <1>2, ChosenIn
  <2> HIDE DEF S, g
  <2> QED BY <1>4, <2>1 DEF IsFold
<1>6. C = [s \in SUBSET S |-> IF s = {} THEN 0 ELSE Time(Chosen(s)) + C[s \ {Chosen(s)}]]
  <2> HIDE DEF S
  <2> QED BY <1>5
<1>7. IsFold(C, g, S)
  <2>1. \A s \in SUBSET S : s # {} => g[Chosen(s)] = Time(Chosen(s))
    BY <1>2, ChosenIn
  <2> HIDE DEF S, g, C
  <2> QED BY <1>6, <2>1 DEF IsFold
<1>8. C[S] = f[S]
  <2> HIDE DEF S, g, C
  <2> QED BY <1>2, <1>4, <1>7, FoldUnique
<1> QED BY <1>1, <1>3, <1>4, <1>8

\* The totals of a row of counters.
LEMMA TotalIs ==
    ASSUME NEW m \in Nat, NEW f \in [0 .. m - 1 -> Nat]
    PROVE  Total(f, LAMBDA n : 1) = SumOver(f, DOMAIN f)
<1> DEFINE S == DOMAIN f
           g == f
           C == CHOOSE h : h = [s \in SUBSET S |->
                    IF s = {} THEN 0 ELSE (f[Chosen(s)] * 1) + h[s \ {Chosen(s)}]]
<1>1. IsFiniteSet(S) /\ \A k \in S : g[k] \in Nat
  <2>1. IsFiniteSet(0 .. m - 1)
    <3>1. 0 \in Int /\ m - 1 \in Int
      OBVIOUS
    <3> QED BY <3>1, FS_Interval
  <2> QED BY <2>1
<1>2. \A s \in SUBSET S : s # {} => g[Chosen(s)] = (f[Chosen(s)] * 1)
  <2>1. \A x \in Nat : x = x * 1
    OBVIOUS
  <2> HIDE DEF S
  <2> QED BY <1>1, <2>1, ChosenIn
<1>3. Total(f, LAMBDA n : 1) = C[S]
  BY DEF Total, MapThenSumSet, MapThenFoldSet, Chosen
<1>4. PICK h \in [SUBSET S -> Nat] : IsFold(h, g, S) /\ SumOver(g, S) = h[S]
  <2> HIDE DEF S, g
  <2> QED BY <1>1, SumFold
<1>5. h = [s \in SUBSET S |-> IF s = {} THEN 0 ELSE (f[Chosen(s)] * 1) + h[s \ {Chosen(s)}]]
  <2> HIDE DEF S, g
  <2> QED BY <1>2, <1>4 DEF IsFold
<1>6. C = [s \in SUBSET S |-> IF s = {} THEN 0 ELSE (f[Chosen(s)] * 1) + C[s \ {Chosen(s)}]]
  <2> HIDE DEF S
  <2> QED BY <1>5
<1>7. IsFold(C, g, S)
  <2> HIDE DEF S, g, C
  <2> QED BY <1>2, <1>6 DEF IsFold
<1>8. C[S] = h[S]
  <2> HIDE DEF S, g, C
  <2> QED BY <1>1, <1>4, <1>7, FoldUnique
<1> QED BY <1>3, <1>4, <1>8

\* The weighted total of a counter array, as a sum over its indices.
LEMMA TotalWeightedIs ==
    ASSUME NEW m \in Nat, NEW f \in [0 .. m - 1 -> Nat]
    PROVE  Total(f, LAMBDA n : n + 1) = SumOver(Weighted(f), DOMAIN f)
<1> DEFINE S == DOMAIN f
           g == Weighted(f)
           C == CHOOSE h : h = [s \in SUBSET S |->
                    IF s = {} THEN 0 ELSE (f[Chosen(s)] * (Chosen(s) + 1)) + h[s \ {Chosen(s)}]]
<1>1. IsFiniteSet(S) /\ \A k \in S : g[k] \in Nat
  <2>1. IsFiniteSet(0 .. m - 1)
    <3>1. 0 \in Int /\ m - 1 \in Int
      OBVIOUS
    <3> QED BY <3>1, FS_Interval
  <2>2. \A a, b \in Nat : a * (b + 1) \in Nat
    OBVIOUS
  <2>3. DOMAIN f = 0 .. m - 1 /\ \A k \in DOMAIN f : f[k] \in Nat /\ k \in Nat
    OBVIOUS
  <2>4. \A k \in DOMAIN f : f[k] * (k + 1) \in Nat
    BY <2>2, <2>3
  <2> QED BY <2>1, <2>3, <2>4 DEF Weighted
<1>2. \A s \in SUBSET S : s # {} => g[Chosen(s)] = (f[Chosen(s)] * (Chosen(s) + 1))
  BY ChosenIn DEF Weighted
<1>3. Total(f, LAMBDA n : n + 1) = C[S]
  BY DEF Total, MapThenSumSet, MapThenFoldSet, Chosen
<1>4. PICK h \in [SUBSET S -> Nat] : IsFold(h, g, S) /\ SumOver(g, S) = h[S]
  <2> HIDE DEF S, g
  <2> QED BY <1>1, SumFold
<1>5. h = [s \in SUBSET S |-> IF s = {} THEN 0 ELSE (f[Chosen(s)] * (Chosen(s) + 1)) + h[s \ {Chosen(s)}]]
  <2> HIDE DEF S, g
  <2> QED BY <1>2, <1>4 DEF IsFold
<1>6. C = [s \in SUBSET S |-> IF s = {} THEN 0 ELSE (f[Chosen(s)] * (Chosen(s) + 1)) + C[s \ {Chosen(s)}]]
  <2> HIDE DEF S
  <2> QED BY <1>5
<1>7. IsFold(C, g, S)
  <2> HIDE DEF S, g, C
  <2> QED BY <1>2, <1>6 DEF IsFold
<1>8. C[S] = h[S]
  <2> HIDE DEF S, g, C
  <2> QED BY <1>1, <1>4, <1>7, FoldUnique
<1> QED BY <1>3, <1>4, <1>8

\* A remainder is no greater than the number.
LEMMA ModLess ==
    ASSUME NEW w \in Nat, w > 0, NEW a \in Nat
    PROVE  a % w <= a /\ a % w \in Nat
<1>1. PICK q \in Int, r \in 0 .. w - 1 : a = w * q + r /\ a % w = r
  <2>1. a \in Int
    OBVIOUS
  <2> QED BY <2>1, Division
<1>2. q >= 0
  <2> SUFFICES ASSUME q <= -1 PROVE FALSE
    OBVIOUS
  <2>1. w * q <= -w
    BY Multiple
  <2> QED BY <1>1, <2>1
<1>3. w * q >= 0
  BY <1>2
<1> QED BY <1>1, <1>3

\* The partial sums of no entry, and with further faults.
LEMMA PartialNone == ASSUME NEW t, NEW faults PROVE PartialSums(t, 0, <<>>, faults)
<1>1. Comps(t, 0) = {}
  BY None
<1>2. Len(<<>>) # 1 /\ Len(<<>>) <= 1
  OBVIOUS
<1> QED BY <1>1, <1>2 DEF PartialSums

\* Another fault does not undo what holds unless a fault occurred.
LEMMA PartialMore ==
    ASSUME NEW t, NEW n, NEW sums, NEW faults, NEW after, faults \subseteq after,
           PartialSums(t, n, sums, faults)
    PROVE  PartialSums(t, n, sums, after)
BY DEF PartialSums
-----------------------------------------------------------------------------
(* Rounding to float: an error of at most one part in Mantissa.            *)

\* A product of natural numbers keeps their order.
LEMMA Ordered ==
    ASSUME NEW a \in Nat, NEW b \in Nat, NEW c \in Nat
    PROVE  /\ c * a \in Nat
           /\ a <= b => c * a <= c * b
           /\ c > 0 /\ c * a <= c * b => a <= b
           /\ c > 0 /\ a < b => c * a < c * b
<1>1. c * a \in Nat /\ c * b \in Nat
  OBVIOUS
<1>2. ASSUME NEW x \in Nat, NEW y \in Nat, x < y, c > 0 PROVE c * x < c * y
  <2>1. PICK e \in Nat : y = x + 1 + e
    <3>1. y - x - 1 \in Nat /\ y = x + 1 + (y - x - 1)
      BY <1>2
    <3> QED BY <3>1
  <2>2. c * y = c * x + c + c * e /\ c * e \in Nat /\ c * x \in Nat
    BY <2>1
  <2> QED BY <1>2, <2>2
<1>3. a < b /\ c > 0 => c * a < c * b
  BY <1>2
<1>4. b < a /\ c > 0 => c * b < c * a
  BY <1>2
<1>5. c = 0 => c * a = 0 /\ c * b = 0
  OBVIOUS
<1>6. a = b => c * a = c * b
  OBVIOUS
<1> QED BY <1>1, <1>3, <1>4, <1>5, <1>6

\* What is closed under adding one, up to n, holds every number up to n.
LEMMA Upward ==
    ASSUME NEW S, 0 \in S, NEW n \in Nat, \A k \in 0 .. n : k \in S /\ k < n => k + 1 \in S
    PROVE  0 .. n \subseteq S
<1> DEFINE gaps == {0 .. k : k \in (0 .. n) \ S}
<1>1. SUFFICES ASSUME gaps # {} PROVE FALSE
  OBVIOUS
<1>2. \A T \in gaps : IsFiniteSet(T)
  <2>1. ASSUME NEW k \in 0 .. n PROVE IsFiniteSet(0 .. k)
    <3>1. 0 \in Int /\ k \in Int
      OBVIOUS
    <3> QED BY <3>1, FS_Interval
  <2> QED BY <2>1
<1>3. PICK T \in gaps : \A U \in gaps : U \subseteq T => U = T
  <2> HIDE DEF gaps
  <2> QED BY <1>1, <1>2, Minimal
<1>4. PICK k \in (0 .. n) \ S : T = 0 .. k
  OBVIOUS
<1>5. k # 0 /\ k - 1 \in 0 .. n /\ k - 1 < n /\ (k - 1) + 1 = k
  BY <1>4
<1>6. k - 1 \in (0 .. n) \ S
  BY <1>5
<1>7. 0 .. k - 1 \in gaps /\ 0 .. k - 1 \subseteq T /\ k \in T /\ k \notin 0 .. k - 1
  BY <1>4, <1>5, <1>6
<1> QED BY <1>3, <1>7

\* The distances between the floats up to m.
Distances(f, m) ==
    \A n \in 0 .. m : f[n] = IF n <= Mantissa THEN 1 ELSE 2 * f[(n + 1) \div 2]

\* Half of a number beyond 1, rounded up, is smaller, and not much less than half.
LEMMA Half ==
    ASSUME NEW n \in Nat, n > Mantissa
    PROVE  /\ (n + 1) \div 2 \in 0 .. n - 1
           /\ 2 * ((n + 1) \div 2) <= n + 1
           /\ n > 2 * Mantissa => (n + 1) \div 2 > Mantissa
           /\ n <= 2 * Mantissa => (n + 1) \div 2 <= Mantissa
<1>1. Mantissa \in Nat /\ Mantissa >= 8
  BY AnalyzerAssumption
<1>2. PICK h \in Int, r \in 0 .. 1 : n + 1 = 2 * h + r /\ (n + 1) \div 2 = h
  <2>1. n + 1 \in Int /\ 2 \in Nat /\ 2 > 0
    OBVIOUS
  <2> QED BY <2>1, Division
<1> QED BY <1>1, <1>2

\* There is such a function: each distance needs only that at half the number.
LEMMA DistancesExist ==
    ASSUME NEW x \in Nat
    PROVE  \E f \in [0 .. x -> Nat] : Distances(f, x)
<1> DEFINE S == {m \in Nat : \E f \in [0 .. m -> Nat] : Distances(f, m)}
<1>0. Mantissa \in Nat /\ Mantissa >= 8
  BY AnalyzerAssumption
<1>1. 0 \in S
  <2> DEFINE f == [n \in 0 .. 0 |-> 1]
  <2>1. f \in [0 .. 0 -> Nat] /\ Distances(f, 0)
    BY <1>0 DEF Distances
  <2> QED BY <2>1
<1>2. ASSUME NEW m \in 0 .. x, m \in S PROVE m + 1 \in S
  <2>1. PICK f \in [0 .. m -> Nat] : Distances(f, m)
    BY <1>2
  <2> DEFINE v == IF m + 1 <= Mantissa THEN 1 ELSE 2 * f[(m + 1 + 1) \div 2]
             g == [n \in 0 .. m + 1 |-> IF n = m + 1 THEN v ELSE f[n]]
  <2>2. ASSUME NEW n \in 0 .. m + 1, n > Mantissa PROVE (n + 1) \div 2 \in 0 .. m
    BY <2>2, Half
  <2>3. v \in Nat
    <3>1. CASE m + 1 <= Mantissa
      BY <3>1
    <3>2. CASE m + 1 > Mantissa
      <4>1. f[(m + 1 + 1) \div 2] \in Nat
        BY <2>1, <2>2, <3>2
      <4> QED BY <1>0, <3>2, <4>1
    <3> QED BY <1>0, <3>1, <3>2
  <2> HIDE DEF v
  <2>4. g[m + 1] = v /\ \A n \in 0 .. m : g[n] = f[n]
    OBVIOUS
  <2>5. g \in [0 .. m + 1 -> Nat]
    BY <2>1, <2>3
  <2> HIDE DEF g
  <2>6. ASSUME NEW n \in 0 .. m + 1
        PROVE  g[n] = IF n <= Mantissa THEN 1 ELSE 2 * g[(n + 1) \div 2]
    <3>1. n > Mantissa => g[(n + 1) \div 2] = f[(n + 1) \div 2]
      BY <2>2, <2>4
    <3>2. CASE n = m + 1
      BY <1>0, <2>4, <3>1, <3>2 DEF v
    <3>3. CASE n \in 0 .. m
      BY <1>0, <2>1, <2>4, <3>1, <3>3 DEF Distances
    <3> QED BY <3>2, <3>3
  <2>7. Distances(g, m + 1)
    BY <2>6 DEF Distances
  <2> QED BY <2>5, <2>7
<1>3. 0 .. x \subseteq S
  <2> HIDE DEF S
  <2> QED BY <1>1, <1>2, Upward
<1> QED BY <1>3

\* The floats around x lie next to each other up to Mantissa, and beyond it no
\* farther apart than two parts of x in Mantissa.
LEMMA UnitBounded ==
    ASSUME NEW x \in Nat
    PROVE  /\ Unit(x) \in Nat /\ Unit(x) > 0
           /\ x <= Mantissa => Unit(x) = 1
           /\ x > Mantissa => Mantissa * Unit(x) <= 2 * x - 2
<1> DEFINE Is(f) == f = [n \in 0 .. x |-> IF n <= Mantissa THEN 1 ELSE 2 * f[(n + 1) \div 2]]
           u == CHOOSE f : Is(f)
<1>1. PICK f \in [0 .. x -> Nat] : Distances(f, x)
  BY DistancesExist
<1>2. Is(f)
  <2>1. f = [n \in 0 .. x |-> f[n]]
    BY <1>1
  <2>2. [n \in 0 .. x |-> f[n]]
           = [n \in 0 .. x |-> IF n <= Mantissa THEN 1 ELSE 2 * f[(n + 1) \div 2]]
    BY <1>1 DEF Distances
  <2> QED BY <2>1, <2>2
<1>3. Is(u)
  <2> HIDE DEF Is
  <2> QED BY <1>2
<1>4. Unit(x) = u[x]
  BY DEF Unit
<1> HIDE DEF u
<1>5. \A n \in 0 .. x : u[n] = IF n <= Mantissa THEN 1 ELSE 2 * u[(n + 1) \div 2]
  BY <1>3
<1> HIDE DEF Is
<1>6. Mantissa \in Nat /\ Mantissa >= 8
  BY AnalyzerAssumption
<1> DEFINE Good(n) == /\ u[n] \in Nat /\ u[n] > 0
                      /\ n <= Mantissa => u[n] = 1
                      /\ n > Mantissa => Mantissa * u[n] <= 2 * n - 2
           S == {m \in Nat : \A n \in 0 .. m : n <= x => Good(n)}
<1>7. 0 \in S
  BY <1>5, <1>6
<1>8. ASSUME NEW m \in 0 .. x, m \in S PROVE m + 1 \in S
  <2> SUFFICES ASSUME NEW n \in 0 .. m + 1, n <= x PROVE Good(n)
    OBVIOUS
  <2>1. CASE n <= Mantissa
    BY <1>5, <1>6, <2>1
  <2>2. CASE n > Mantissa
    <3>1. PICK h : h = (n + 1) \div 2
      OBVIOUS
    <3>2. /\ h \in 0 .. n - 1 /\ 2 * h <= n + 1
          /\ (n > 2 * Mantissa => h > Mantissa) /\ (n <= 2 * Mantissa => h <= Mantissa)
      BY <2>2, <3>1, Half
    <3>3. h \in 0 .. m /\ h <= x
      BY <3>2
    <3>4. Good(h)
      BY <1>8, <3>3
    <3>5. PICK v : v = u[h]
      OBVIOUS
    <3>6. u[n] = 2 * v
      BY <1>5, <1>6, <2>2, <3>1, <3>5
    <3>7. v \in Nat /\ v > 0 /\ (h <= Mantissa => v = 1)
          /\ (h > Mantissa => Mantissa * v <= 2 * h - 2)
      BY <3>4, <3>5
    <3>8. Mantissa * (2 * v) = 2 * (Mantissa * v) /\ Mantissa * v \in Nat
      BY <1>6, <3>7
    <3>9. CASE n <= 2 * Mantissa
      <4>1. v = 1 /\ Mantissa * v = Mantissa
        BY <1>6, <3>2, <3>7, <3>9
      <4>2. Mantissa * (2 * v) <= 2 * n - 2
        BY <1>6, <2>2, <3>8, <4>1
      <4> QED BY <1>6, <2>2, <3>6, <3>7, <4>2
    <3>10. CASE n > 2 * Mantissa
      <4>1. Mantissa * v <= 2 * h - 2
        BY <3>2, <3>7, <3>10
      <4>2. Mantissa * (2 * v) <= 2 * n - 2
        BY <3>2, <3>8, <4>1
      <4> QED BY <1>6, <2>2, <3>6, <3>7, <4>2
    <3> QED BY <1>6, <3>9, <3>10
  <2> QED BY <1>6, <2>1, <2>2
<1>9. x \in S
  <2> HIDE DEF S
  <2>1. 0 .. x \subseteq S
    BY <1>7, <1>8, Upward
  <2> QED BY <2>1
<1> QED BY <1>4, <1>9

\* A nonempty quotient counted in parts exceeds Mantissa, where rounding is relative:
\* the float nearest to a / b is off by no more than one part of it in Mantissa.
LEMMA NearestWithin ==
    ASSUME NEW a \in Nat, NEW b \in Nat, b > 0, a > b * Mantissa
    PROVE  \E r \in Nat : /\ Nearest[<<a, b>>] = r
                          /\ Mantissa * (r * b) <= Mantissa * a + a
                          /\ Mantissa * a <= Mantissa * (r * b) + a
<1>1. PICK m \in Nat : m = Mantissa /\ m >= 8
  BY AnalyzerAssumption
<1>2. PICK c \in Int, t \in 0 .. b - 1 : a + b - 1 = b * c + t /\ (a + b - 1) \div b = c
  <2>1. a + b - 1 \in Int
    OBVIOUS
  <2> QED BY <2>1, Division
<1>3. c \in Nat /\ c > m
  <2>1. b * m \in Nat /\ b * c \in Int /\ b * c > b * m - 1
    BY <1>1, <1>2
  <2>2. ASSUME c <= m PROVE FALSE
    <3>1. PICK gap \in Int : gap = m - c
      BY <1>1, <1>2
    <3>2. gap >= 0 /\ b * gap = b * m - b * c
      BY <1>1, <1>2, <2>2, <3>1
    <3>3. gap = 0
      <4>1. gap >= 1 => b * gap >= b
        BY <3>2, Multiple
      <4> QED BY <2>1, <3>2, <4>1
    <3>4. b * c = b * m /\ a > b * m
      BY <1>1, <1>2, <3>1, <3>3
    <3>5. PICK p \in Int : p = b * c
      BY <1>2
    <3> QED BY <1>1, <1>2, <3>4, <3>5
  <2> QED BY <1>1, <1>2, <2>2
<1>4. PICK w \in Nat : w = Unit(c) /\ w > 0 /\ m * w <= 2 * c - 2
  BY <1>1, <1>3, UnitBounded
<1>5. PICK v \in Nat : v = b * w /\ v > 0
  <2>1. b * w \in Nat /\ b * w >= b
    BY <1>4, Multiple
  <2> QED BY <2>1
<1>6. PICK low \in Int, rem \in 0 .. v - 1 :
         a = v * low + rem /\ a % v = rem /\ a \div v = low
  <2>1. a \in Int
    OBVIOUS
  <2> QED BY <1>5, <2>1, Division
<1>7. low \in Nat
  <2> SUFFICES ASSUME low <= -1 PROVE FALSE
    BY <1>6
  <2>1. v * low <= -v
    BY <1>5, <1>6, Multiple
  <2> QED BY <1>5, <1>6, <2>1
<1>8. PICK up \in 0 .. 1 : /\ Nearest[<<a, b>>] = (low + up) * w
                           /\ up = 0 => 2 * rem <= v
                           /\ up = 1 => 2 * rem >= v
  <2>1. <<a, b>> \in Nat \X (Nat \ {0}) /\ <<a, b>>[1] = a /\ <<a, b>>[2] = b
    OBVIOUS
  <2>2. Nearest[<<a, b>>] = IF 2 * rem < v \/ (2 * rem = v /\ low % 2 = 0)
                            THEN low * w ELSE (low + 1) * w
    BY <1>2, <1>4, <1>5, <1>6, <2>1 DEF Nearest
  <2>3. CASE 2 * rem < v \/ (2 * rem = v /\ low % 2 = 0)
    <3>1. Nearest[<<a, b>>] = (low + 0) * w
      BY <1>7, <2>2, <2>3
    <3>2. 2 * rem <= v
      BY <1>5, <1>6, <2>3
    <3> QED BY <3>1, <3>2
  <2>4. CASE ~(2 * rem < v \/ (2 * rem = v /\ low % 2 = 0))
    <3>1. Nearest[<<a, b>>] = (low + 1) * w
      BY <2>2, <2>4
    <3>2. 2 * rem >= v
      BY <1>5, <1>6, <2>4
    <3> QED BY <3>1, <3>2
  <2> QED BY <2>3, <2>4
<1>9. PICK r \in Nat : r = (low + up) * w
  BY <1>4, <1>7, <1>8
<1>10. r * b = v * low + v * up
  BY ONLY <1>5, <1>7, <1>9, w \in Nat, b \in Nat, up \in 0 .. 1
<1>11. PICK p \in Nat : p = r * b
  BY <1>9
<1>12. PICK h \in Nat : h = v * low
  BY <1>5, <1>7
<1>13. 2 * p <= 2 * a + v /\ 2 * a <= 2 * p + v
  <2>1. CASE up = 0
    <3>1. p = h
      BY <1>5, <1>10, <1>11, <1>12, <2>1
    <3> QED BY <1>5, <1>6, <1>8, <1>12, <2>1, <3>1
  <2>2. CASE up = 1
    <3>1. p = h + v
      BY <1>5, <1>10, <1>11, <1>12, <2>2
    <3> QED BY <1>5, <1>6, <1>8, <1>12, <2>2, <3>1
  <2> QED BY <2>1, <2>2
<1>14. PICK e \in Nat : e = m * v /\ e <= 2 * a
  <2>1. b * (m * w) <= b * (2 * c - 2)
    BY <1>1, <1>3, <1>4, Ordered
  <2>2. b * (m * w) = m * v /\ b * (2 * c - 2) = 2 * (b * c) - 2 * b
    BY <1>1, <1>3, <1>5
  <2>3. PICK k \in Nat : k = b * c
    BY <1>3
  <2>4. m * v \in Nat
    BY <1>1, <1>5
  <2> QED BY <1>2, <2>1, <2>2, <2>3, <2>4
<1>15. m * (2 * p) <= m * (2 * a + v) /\ m * (2 * a) <= m * (2 * p + v)
  BY <1>1, <1>5, <1>11, <1>13, Ordered
<1>16. /\ m * (2 * p) = 2 * (m * p) /\ m * (2 * a) = 2 * (m * a)
       /\ m * (2 * a + v) = 2 * (m * a) + e /\ m * (2 * p + v) = 2 * (m * p) + e
  BY <1>1, <1>5, <1>11, <1>14
<1>17. m * p <= m * a + a /\ m * a <= m * p + a
  <2>1. PICK x \in Nat, y \in Nat : x = m * p /\ y = m * a
    BY <1>1, <1>11
  <2> QED BY <1>14, <1>15, <1>16, <2>1
<1> QED BY <1>1, <1>8, <1>9, <1>11, <1>17

\* An integer is a float, or off by no more than one part in Mantissa.
LEMMA FloatWithin ==
    ASSUME NEW x \in Nat
    PROVE  \E r \in Nat : /\ ToFloat(x) = r
                          /\ Mantissa * r <= Mantissa * x + x
                          /\ Mantissa * x <= Mantissa * r + x
                          /\ x = 0 => r = 0
<1>1. Mantissa \in Nat /\ Mantissa >= 8
  BY AnalyzerAssumption
<1>2. CASE x > Mantissa
  <2>1. x > 1 * Mantissa /\ 1 \in Nat
    BY <1>1, <1>2
  <2>2. PICK r \in Nat : /\ Nearest[<<x, 1>>] = r
                         /\ Mantissa * (r * 1) <= Mantissa * x + x
                         /\ Mantissa * x <= Mantissa * (r * 1) + x
    BY <2>1, NearestWithin
  <2>3. r * 1 = r
    OBVIOUS
  <2> QED BY <1>1, <1>2, <2>2, <2>3 DEF ToFloat
<1>3. CASE x <= Mantissa
  <2>1. (x + 1 - 1) \div 1 = x /\ 1 * 1 = 1 /\ x \div 1 = x /\ x % 1 = 0 /\ x * 1 = x
    OBVIOUS
  <2>2. Unit(x) = 1
    BY <1>3, UnitBounded
  <2>3. <<x, 1>> \in Nat \X (Nat \ {0})
    OBVIOUS
  <2>4. ToFloat(x) = x
    BY <2>1, <2>2, <2>3 DEF ToFloat, Nearest
  <2>5. Mantissa * x \in Nat
    BY <1>1
  <2> QED BY <2>4, <2>5
<1> QED BY <1>1, <1>2, <1>3

\* One sum is one quotient.
LEMMA OneSum ==
    ASSUME latency \in Seq(0 .. UINT64_MAX), Len(latency) = 1
    PROVE  Averages = AddQuotient(g_latency_tsc_avg, latency[1])
<1> DEFINE Is(f) == f = [n \in 0 .. 1 |-> IF n = 0 THEN g_latency_tsc_avg
                                          ELSE AddQuotient(f[n - 1], latency[n])]
           first == AddQuotient(g_latency_tsc_avg, latency[1])
           f == [n \in 0 .. 1 |-> IF n = 0 THEN g_latency_tsc_avg ELSE first]
           u == CHOOSE g : Is(g)
<1>1. Is(f)
  <2> HIDE DEF first
  <2>1. f[0] = g_latency_tsc_avg
    OBVIOUS
  <2>2. ASSUME NEW n \in 0 .. 1
        PROVE  f[n] = IF n = 0 THEN g_latency_tsc_avg ELSE AddQuotient(f[n - 1], latency[n])
    <3>1. CASE n = 0
      BY <2>1, <3>1
    <3>2. CASE n = 1
      <4>1. f[n] = first /\ n - 1 = 0
        BY <3>2
      <4> QED BY <2>1, <3>2, <4>1 DEF first
    <3> QED BY <3>1, <3>2
  <2>3. f = [n \in 0 .. 1 |-> f[n]]
    OBVIOUS
  <2> HIDE DEF f
  <2> QED BY <2>2, <2>3
<1> HIDE DEF f
<1>2. Is(u)
  <2> HIDE DEF Is
  <2> QED BY <1>1
<1>3. Averages = u[1]
  BY DEF Averages
<1> HIDE DEF u
<1>4. u[0] = g_latency_tsc_avg /\ u[1] = AddQuotient(u[1 - 1], latency[1])
  BY <1>2
<1>5. 1 - 1 = 0
  OBVIOUS
<1> QED BY <1>3, <1>4, <1>5

\* The average of no requests lies between no service times.
LEMMA BetweenZero == Between(0, 0, 0)
<1>1. PICK m \in Nat : m = Mantissa /\ m >= 8
  BY AnalyzerAssumption
<1>2. 0 * (m * m) * (m - 1) = 0 /\ 0 * (m + 1) * (m + 1) * (m + 1) = 0
  BY <1>1
<1>3. 0 * (m - 1) * (m - 1) * (m - 1) = 0 /\ (0 + 1) * (m * m) * (m + 1) > 0
  <2>1. (0 + 1) * (m * m) * (m + 1) = m * (m * (m + 1))
    BY <1>1
  <2>2. m * 0 < m * (m + 1) /\ m * (m + 1) \in Nat
    BY <1>1, Ordered
  <2>3. m * 0 < m * (m * (m + 1))
    BY <1>1, <2>2, Ordered
  <2> QED BY <1>1, <2>1, <2>3
<1> QED BY <1>1, <1>2, <1>3 DEF Between, Parts

\* Rounded up in each of the four places, the average stays below this bound.
LEMMA RoundedUp ==
    ASSUME NEW m \in Nat, m >= 8, NEW n \in Nat, n > 0, NEW high \in Nat, NEW s \in Nat, s <= n * high,
           NEW f \in Nat, m * f <= m * s + s,
           NEW g \in Nat, m * n <= m * g + n,
           NEW q \in Nat, m * (q * g) <= m * ((m * m) * f) + (m * m) * f,
           NEW t \in Nat, m * t <= m * q + q,
           NEW avg \in Nat, (m * m) * avg <= t
    PROVE  avg * (m * m) * (m - 1) <= high * (m + 1) * (m + 1) * (m + 1)
<1>1. PICK k \in Nat : k = m * m /\ k > 0
  <2>1. m * 0 < m * m
    BY Ordered
  <2> QED BY <2>1
<1>2. (m * m) * avg \in Nat
  BY <1>1
<1>3. m * (k * avg) <= (m + 1) * q
  <2>1. m * (k * avg) <= m * t
    BY <1>1, <1>2, Ordered
  <2>2. m * q + q = (m + 1) * q /\ m * q \in Nat /\ m * t \in Nat /\ m * (k * avg) \in Nat
    BY <1>1
  <2> QED BY <2>1, <2>2
<1>4. (m * g) * (m * (k * avg)) <= (m + 1) * ((m + 1) * (k * f))
  <2>1. (m * g) * (m * (k * avg)) <= (m * g) * ((m + 1) * q)
    <3>1. m * g \in Nat /\ m * (k * avg) \in Nat /\ (m + 1) * q \in Nat
      BY <1>1
    <3> QED BY ONLY <1>3, <3>1, Ordered
  <2>2. (m * g) * ((m + 1) * q) = (m + 1) * (m * (q * g))
    OBVIOUS
  <2>3. m * ((m * m) * f) + (m * m) * f = (m + 1) * (k * f)
    BY <1>1
  <2>4. (m + 1) * (m * (q * g)) <= (m + 1) * ((m + 1) * (k * f))
    <3>1. m * (q * g) \in Nat /\ (m + 1) * (k * f) \in Nat /\ m + 1 \in Nat
      BY <1>1
    <3> QED BY ONLY <2>3, <3>1, Ordered, m * (q * g) <= m * ((m * m) * f) + (m * m) * f
  <2>5. /\ (m * g) * (m * (k * avg)) \in Int /\ (m + 1) * (m * (q * g)) \in Int
        /\ (m + 1) * ((m + 1) * (k * f)) \in Int
    BY <1>1
  <2> QED BY <2>1, <2>2, <2>4, <2>5
<1>5. (m * g) * (m * avg) <= (m + 1) * ((m + 1) * f)
  <2>1. PICK x \in Nat, y \in Nat : x = (m * g) * (m * avg) /\ y = (m + 1) * ((m + 1) * f)
    OBVIOUS
  <2>2. (m * g) * (m * (k * avg)) = k * x /\ (m + 1) * ((m + 1) * (k * f)) = k * y
    BY <1>1, <2>1
  <2> QED BY <1>1, <1>4, <2>1, <2>2, Ordered
<1>6. m * ((m * g) * (m * avg)) <= (m + 1) * ((m + 1) * ((m + 1) * s))
  <2>1. m * ((m * g) * (m * avg)) <= m * ((m + 1) * ((m + 1) * f))
    <3>1. (m * g) * (m * avg) \in Nat /\ (m + 1) * ((m + 1) * f) \in Nat
      OBVIOUS
    <3> QED BY ONLY <1>5, <3>1, Ordered, m \in Nat
  <2>2. m * ((m + 1) * ((m + 1) * f)) = (m + 1) * ((m + 1) * (m * f))
    OBVIOUS
  <2>3. m * f <= (m + 1) * s /\ m * f \in Nat /\ (m + 1) * s \in Nat
    OBVIOUS
  <2>4. /\ (m + 1) * (m * f) <= (m + 1) * ((m + 1) * s)
        /\ (m + 1) * (m * f) \in Nat /\ (m + 1) * ((m + 1) * s) \in Nat /\ m + 1 \in Nat
    BY <2>3, Ordered
  <2>5. (m + 1) * ((m + 1) * (m * f)) <= (m + 1) * ((m + 1) * ((m + 1) * s))
    BY ONLY <2>4, Ordered
  <2>6. /\ m * ((m * g) * (m * avg)) \in Int /\ (m + 1) * ((m + 1) * (m * f)) \in Int
        /\ (m + 1) * ((m + 1) * ((m + 1) * s)) \in Int
    OBVIOUS
  <2> QED BY <2>1, <2>2, <2>5, <2>6
<1>7. (m + 1) * ((m + 1) * ((m + 1) * s)) <= n * ((m + 1) * ((m + 1) * ((m + 1) * high)))
  <2>1. PICK c \in Nat : c = (m + 1) * ((m + 1) * (m + 1))
    OBVIOUS
  <2>2. c * s <= c * (n * high)
    BY Ordered
  <2>3. c * s = (m + 1) * ((m + 1) * ((m + 1) * s))
        /\ c * (n * high) = n * ((m + 1) * ((m + 1) * ((m + 1) * high)))
    BY <2>1
  <2> QED BY <2>2, <2>3
<1>8. n * ((m - 1) * (k * avg)) <= m * ((m * g) * (m * avg))
  <2>1. PICK x \in Nat : x = k * avg
    BY <1>1
  <2>2. (m - 1) * n <= m * g /\ (m - 1) * n \in Nat /\ m * g \in Nat
    <3>1. (m - 1) * n = m * n - n /\ m * n \in Nat /\ m - 1 \in Nat
      OBVIOUS
    <3> QED BY <3>1
  <2>3. x * ((m - 1) * n) <= x * (m * g)
    BY <2>2, Ordered
  <2>4. /\ n * ((m - 1) * (k * avg)) = x * ((m - 1) * n)
        /\ m * ((m * g) * (m * avg)) = x * (m * g)
    BY <1>1, <2>1
  <2> QED BY <2>3, <2>4
<1>9. PICK x \in Nat, y \in Nat :
         x = avg * (m * m) * (m - 1) /\ y = high * (m + 1) * (m + 1) * (m + 1)
  <2>1. m - 1 \in Nat
    OBVIOUS
  <2> QED BY <2>1
<1>10. /\ n * ((m - 1) * (k * avg)) = n * x
       /\ n * ((m + 1) * ((m + 1) * ((m + 1) * high))) = n * y
  BY <1>1, <1>9
<1>11. n * x <= n * y
  <2>1. /\ n * x \in Int /\ n * y \in Int /\ m * ((m * g) * (m * avg)) \in Int
        /\ (m + 1) * ((m + 1) * ((m + 1) * s)) \in Int
    BY <1>9
  <2> QED BY <1>6, <1>7, <1>8, <1>10, <2>1
<1> QED BY <1>9, <1>11, Ordered

\* Rounded down in each of the four places, the average stays above this bound.
LEMMA RoundedDown ==
    ASSUME NEW m \in Nat, m >= 8, NEW n \in Nat, n > 0, NEW low \in Nat, NEW s \in Nat, n * low <= s,
           NEW f \in Nat, m * s <= m * f + s,
           NEW g \in Nat, g > 0, m * g <= m * n + n,
           NEW q \in Nat, m * ((m * m) * f) <= m * (q * g) + (m * m) * f,
           NEW t \in Nat, m * q <= m * t + q,
           NEW more \in Nat, t < (m * m) * more
    PROVE  more * (m * m) * (m + 1) > low * (m - 1) * (m - 1) * (m - 1)
<1>1. PICK k \in Nat : k = m * m /\ k > 0
  <2>1. m * 0 < m * m
    BY Ordered
  <2> QED BY <2>1
<1>2. PICK l \in Nat : l = m - 1
  OBVIOUS
<1>3. l * q < m * (k * more)
  <2>1. m * t < m * (k * more)
    <3>1. k * more \in Nat /\ t < k * more /\ m > 0
      BY <1>1
    <3> QED BY ONLY <3>1, Ordered, m \in Nat, t \in Nat
  <2>2. l * q = m * q - q /\ m * q \in Nat /\ m * t \in Nat /\ m * (k * more) \in Nat
    BY <1>1, <1>2
  <2> QED BY <2>1, <2>2
<1>4. l * (l * (k * f)) < (m * g) * (m * (k * more))
  <2>1. (m * g) * (l * q) < (m * g) * (m * (k * more))
    <3>1. m * g \in Nat /\ m * (k * more) \in Nat /\ l * q \in Nat
      BY <1>1, <1>2
    <3>2. m * g > 0
      <4>1. m * 0 < m * g
        BY Ordered
      <4> QED BY <4>1
    <3> QED BY ONLY <1>3, <3>1, <3>2, Ordered
  <2>2. (m * g) * (l * q) = l * (m * (q * g))
    BY <1>2
  <2>3. l * (k * f) <= m * (q * g)
    <3>1. l * (k * f) = m * (k * f) - k * f /\ m * (k * f) \in Nat /\ k * f \in Nat
      BY <1>1, <1>2
    <3>2. m * (k * f) <= m * (q * g) + k * f /\ m * (q * g) \in Nat
      BY <1>1
    <3> QED BY <3>1, <3>2
  <2>4. l * (l * (k * f)) <= l * (m * (q * g))
    <3>1. m * (q * g) \in Nat /\ l * (k * f) \in Nat
      BY <1>1, <1>2
    <3> QED BY ONLY <1>2, <2>3, <3>1, Ordered
  <2>5. /\ (m * g) * (m * (k * more)) \in Int /\ l * (m * (q * g)) \in Int
        /\ l * (l * (k * f)) \in Int
    BY <1>1, <1>2
  <2> QED BY <2>1, <2>2, <2>4, <2>5
<1>5. l * (l * f) < (m * g) * (m * more)
  <2>1. PICK x \in Nat, y \in Nat : x = (m * g) * (m * more) /\ y = l * (l * f)
    BY <1>2
  <2>2. (m * g) * (m * (k * more)) = k * x /\ l * (l * (k * f)) = k * y
    BY <1>1, <1>2, <2>1
  <2>3. k * y < k * x /\ k * x \in Int /\ k * y \in Int
    BY <1>1, <1>4, <2>1, <2>2
  <2>4. x <= y => k * x <= k * y
    BY <1>1, <2>1, Ordered
  <2> QED BY <2>1, <2>3, <2>4
<1>6. l * (l * (l * s)) < m * ((m * g) * (m * more))
  <2>1. m * (l * (l * f)) < m * ((m * g) * (m * more))
    <3>1. (m * g) * (m * more) \in Nat /\ l * (l * f) \in Nat /\ m > 0
      BY <1>2
    <3> QED BY ONLY <1>5, <3>1, Ordered, m \in Nat
  <2>2. m * (l * (l * f)) = l * (l * (m * f))
    BY <1>2
  <2>3. l * s <= m * f /\ m * f \in Nat /\ l * s \in Nat
    <3>1. l * s = m * s - s /\ m * s \in Nat /\ m * f \in Nat
      BY <1>2
    <3> QED BY <1>2, <3>1
  <2>4. l * (l * s) <= l * (m * f) /\ l * (m * f) \in Nat /\ l * (l * s) \in Nat
    BY <1>2, <2>3, Ordered
  <2>5. l * (l * (l * s)) <= l * (l * (m * f))
    BY ONLY <1>2, <2>4, Ordered
  <2>6. /\ m * ((m * g) * (m * more)) \in Int /\ l * (l * (m * f)) \in Int
        /\ l * (l * (l * s)) \in Int
    BY <1>2
  <2> QED BY <2>1, <2>2, <2>5, <2>6
<1>7. n * (l * (l * (l * low))) <= l * (l * (l * s))
  <2>1. PICK c \in Nat : c = l * (l * l)
    BY <1>2
  <2>2. c * (n * low) <= c * s
    BY <2>1, Ordered
  <2>3. c * s = l * (l * (l * s)) /\ c * (n * low) = n * (l * (l * (l * low)))
    BY <1>2, <2>1
  <2> QED BY <2>2, <2>3
<1>8. m * ((m * g) * (m * more)) <= n * ((m + 1) * (k * more))
  <2>1. PICK x \in Nat : x = k * more
    BY <1>1
  <2>2. m * g <= (m + 1) * n /\ (m + 1) * n \in Nat /\ m * g \in Nat
    OBVIOUS
  <2>3. x * (m * g) <= x * ((m + 1) * n)
    BY <2>2, Ordered
  <2>4. /\ n * ((m + 1) * (k * more)) = x * ((m + 1) * n)
        /\ m * ((m * g) * (m * more)) = x * (m * g)
    BY <1>1, <2>1
  <2> QED BY <2>3, <2>4
<1>9. PICK x \in Nat, y \in Nat :
         x = low * (m - 1) * (m - 1) * (m - 1) /\ y = more * (m * m) * (m + 1)
  BY <1>2
<1>10. /\ n * (l * (l * (l * low))) = n * x
       /\ n * ((m + 1) * (k * more)) = n * y
  BY <1>1, <1>2, <1>9
<1>11. n * x < n * y
  <2>1. /\ n * x \in Int /\ n * y \in Int /\ m * ((m * g) * (m * more)) \in Int
        /\ l * (l * (l * s)) \in Int
    BY <1>2, <1>9
  <2> QED BY <1>6, <1>7, <1>8, <1>10, <2>1
<1>12. y <= x => n * y <= n * x
  BY <1>9, Ordered
<1>13. n * x \in Int /\ n * y \in Int
  BY <1>9
<1> QED BY <1>9, <1>11, <1>12, <1>13

\* The average latency_avg takes of one sum lies between the extremes of the times
\* it is the sum of, up to the rounding, and far from twice the larger.
LEMMA QuotientBetween ==
    ASSUME NEW n \in Nat, n > 0, n = g_req_num, NEW s \in Nat, NEW low \in Nat, NEW high \in Nat,
           low >= 1, n * low <= s, s <= n * high
    PROVE  \E avg \in Nat : /\ AddQuotient(0, s) = avg
                            /\ Between(avg, low, high)
                            /\ avg <= 2 * high
<1>1. PICK m \in Nat : m = Mantissa /\ m >= 8
  BY AnalyzerAssumption
<1>2. PICK f \in Nat : ToFloat(s) = f /\ m * f <= m * s + s /\ m * s <= m * f + s
  BY <1>1, FloatWithin
<1>3. PICK g \in Nat : ToFloat(n) = g /\ m * g <= m * n + n /\ m * n <= m * g + n
  BY <1>1, FloatWithin
<1>4. g > 0
  <2>1. m * n >= 2 * n
    <3>1. n * 2 <= n * m
      BY <1>1, Ordered
    <3> QED BY <1>1, <3>1
  <2>2. g = 0 => m * g = 0
    BY <1>1
  <2> QED BY <1>1, <1>3, <2>1, <2>2
<1>5. (m * m) * f > g * m /\ (m * m) * f \in Nat
  <2>1. s >= n
    <3>1. n * 1 <= n * low
      BY Ordered
    <3> QED BY <3>1
  <2>2. m * f >= 7 * n
    <3>1. 8 * s <= m * s
      <4>1. s * 8 <= s * m
        BY <1>1, Ordered
      <4> QED BY <1>1, <4>1
    <3>2. m * f \in Nat /\ m * s \in Nat
      BY <1>1
    <3> QED BY <1>2, <2>1, <3>1, <3>2
  <2>3. g <= 2 * n
    <3>1. m * g <= m * (2 * n)
      <4>1. n <= m * n /\ m * n \in Nat
        <5>1. n * 1 <= n * m
          BY <1>1, Ordered
        <5> QED BY <1>1, <5>1
      <4>2. m * (2 * n) = m * n + m * n /\ m * g \in Nat
        BY <1>1
      <4> QED BY <1>3, <4>1, <4>2
    <3> QED BY <1>1, <3>1, Ordered
  <2>4. g < m * f /\ m * f \in Nat
    BY <1>1, <2>2, <2>3
  <2>5. m * g < m * (m * f)
    BY <1>1, <2>4, Ordered
  <2>6. m * g = g * m /\ m * (m * f) = (m * m) * f /\ (m * m) * f \in Nat
    BY <1>1
  <2> QED BY <2>5, <2>6
<1>6. PICK q \in Nat : /\ Nearest[<<(m * m) * f, g>>] = q
                       /\ m * (q * g) <= m * ((m * m) * f) + (m * m) * f
                       /\ m * ((m * m) * f) <= m * (q * g) + (m * m) * f
  <2>1. PICK a \in Nat : a = (m * m) * f
    BY <1>5
  <2>2. a > g * Mantissa
    BY <1>1, <1>5, <2>1
  <2>3. PICK r \in Nat : /\ Nearest[<<a, g>>] = r
                         /\ Mantissa * (r * g) <= Mantissa * a + a
                         /\ Mantissa * a <= Mantissa * (r * g) + a
    BY <1>4, <2>2, NearestWithin
  <2> QED BY <1>1, <2>1, <2>3
<1>7. PICK t \in Nat : ToFloat(q) = t /\ m * t <= m * q + q /\ m * q <= m * t + q
  BY <1>1, FloatWithin
<1>8. PICK k \in Nat : k = m * m /\ k > 0
  <2>1. m * 0 < m * m
    BY <1>1, Ordered
  <2> QED BY <1>1, <2>1
<1>9. PICK avg \in Int, rem \in 0 .. k - 1 : t = k * avg + rem /\ t \div k = avg
  <2>1. t \in Int
    OBVIOUS
  <2> QED BY <1>8, <2>1, Division
<1>10. avg \in Nat
  <2> SUFFICES ASSUME avg <= -1 PROVE FALSE
    BY <1>9
  <2>1. k * avg <= -k
    BY <1>8, <1>9, Multiple
  <2> QED BY <1>8, <1>9, <2>1
<1>11. AddQuotient(0, s) = avg
  <2>1. ToFloat(0) = 0
    BY FloatWithin
  <2>2. (m * m) * 0 + q = q
    BY <1>1
  <2> QED BY <1>1, <1>2, <1>3, <1>6, <1>7, <1>8, <1>9, <2>1, <2>2 DEF AddQuotient, Parts
<1>12. avg * (m * m) * (m - 1) <= high * (m + 1) * (m + 1) * (m + 1)
  <2>1. (m * m) * avg <= t
    BY <1>8, <1>9, <1>10
  <2> QED BY <1>1, <1>2, <1>3, <1>6, <1>7, <1>10, <2>1, RoundedUp
<1>13. (avg + 1) * (m * m) * (m + 1) > low * (m - 1) * (m - 1) * (m - 1)
  <2>1. t < (m * m) * (avg + 1) /\ avg + 1 \in Nat
    BY <1>8, <1>9, <1>10
  <2> QED BY <1>1, <1>2, <1>3, <1>4, <1>6, <1>7, <2>1, RoundedDown
<1>14. avg <= 2 * high
  <2>1. PICK c \in Nat : c = (m * m) * (m - 1) /\ c > 0
    <3>1. m * m > 0 /\ m - 1 \in Nat /\ m - 1 > 0 /\ m * m \in Nat
      BY <1>1, <1>8
    <3>2. (m * m) * 0 < (m * m) * (m - 1) /\ (m * m) * (m - 1) \in Nat
      BY <3>1, Ordered
    <3> QED BY <3>1, <3>2
  <2>2. (m + 1) * (m + 1) * (m + 1) <= 2 * c
    <3>1. PICK j \in Nat : m = j + 8
      <4>1. m - 8 \in Nat /\ m = (m - 8) + 8
        BY <1>1
      <4> QED BY <4>1
    <3>2. 2 * c = 896 + 352 * j + 46 * (j * j) + 2 * (j * j * j)
      BY <2>1, <3>1
    <3>3. (m + 1) * (m + 1) * (m + 1) = 729 + 243 * j + 27 * (j * j) + j * j * j
      BY <3>1
    <3>4. j * j \in Nat /\ j * j * j \in Nat
      OBVIOUS
    <3> QED BY <3>2, <3>3, <3>4
  <2>3. high * ((m + 1) * (m + 1) * (m + 1)) <= high * (2 * c)
    <3>1. (m + 1) * (m + 1) * (m + 1) \in Nat /\ 2 * c \in Nat
      BY <1>1, <2>1
    <3> QED BY ONLY <2>2, <3>1, Ordered, high \in Nat
  <2>4. high * (m + 1) * (m + 1) * (m + 1) = high * ((m + 1) * (m + 1) * (m + 1))
    BY <1>1
  <2>5. avg * (m * m) * (m - 1) = c * avg /\ high * (2 * c) = c * (2 * high)
    BY <1>1, <1>10, <2>1
  <2>6. c * avg <= c * (2 * high)
    <3>1. c * avg \in Int /\ high * (m + 1) * (m + 1) * (m + 1) \in Int /\ c * (2 * high) \in Int
      BY <1>1, <1>10, <2>1
    <3> QED BY <1>12, <2>3, <2>4, <2>5, <3>1
  <2> QED BY <1>10, <2>1, <2>6, Ordered
<1>15. Between(avg, low, high)
  BY <1>1, <1>12, <1>13 DEF Between, Parts
<1> QED BY <1>10, <1>11, <1>14, <1>15
-----------------------------------------------------------------------------
(* The steps.                                                              *)

\* The entry a pass stands at.
LEMMA Here ==
    ASSUME Typed, Cursor, InBuffer
    PROVE  /\ trace \in Traces /\ pos \in Nat /\ pos < Len(trace) /\ pos + 1 \in 1 .. Len(trace)
           /\ d \in Entries /\ d.opc \in Opcodes /\ d.slba \in Nat
           /\ d.tpoint \in {"NVME_IO_SUBMIT", "NVME_IO_COMPLETE", "OTHER"}
           /\ d.nlb \in 0 .. Word16 - 1 /\ d.nlb \in Nat
           /\ d.tsc_sc_time \in 0 .. UINT64_MAX /\ d.tsc_sc_time \in Nat
           /\ d.tsc_timestamp \in 0 .. UINT64_MAX
           /\ Direction \in RW
           /\ d.tpoint = "NVME_IO_SUBMIT" /\ Counted => IsMove(d, Direction)
           /\ ~(d.tpoint = "NVME_IO_SUBMIT" /\ Counted) => \A rw \in RW : ~IsMove(d, rw)
<1>1. trace \in Traces /\ {remain_entry, read_entry, i, pos} \subseteq Nat
  BY DEF Typed
<1>2. Len(trace) \in Nat
  BY <1>1, Entry
<1>3. pos + 1 \in 1 .. Len(trace) /\ pos \in Nat /\ pos < Len(trace)
  <2>1. /\ pos \in Nat /\ i \in Nat /\ read_entry \in Nat /\ remain_entry \in Nat /\ i < read_entry
        /\ pos + (read_entry - i) + remain_entry <= Len(trace)
    BY <1>1 DEF Cursor, InBuffer
  <2> QED BY <1>2, <2>1
<1>4. /\ d \in Entries /\ d.opc \in Opcodes /\ d.slba \in Nat
      /\ d.tpoint \in {"NVME_IO_SUBMIT", "NVME_IO_COMPLETE", "OTHER"}
      /\ d.nlb \in 0 .. Word16 - 1 /\ d.nlb \in Nat
      /\ d.tsc_sc_time \in 0 .. UINT64_MAX /\ d.tsc_timestamp \in 0 .. UINT64_MAX
  BY <1>1, <1>3, Entry DEF d
<1>5. d.tsc_sc_time \in Nat
  BY <1>4, AnalyzerAssumption
<1>6. Direction \in RW
  BY DEF Direction, RW
<1>7. d.tpoint = "NVME_IO_SUBMIT" /\ Counted => IsMove(d, Direction)
  BY DEF Direction, Counted, IsMove
<1>8. ~(d.tpoint = "NVME_IO_SUBMIT" /\ Counted) => \A rw \in RW : ~IsMove(d, rw)
  BY DEF Counted, IsMove
<1> QED BY <1>1, <1>3, <1>4, <1>5, <1>6, <1>7, <1>8

\* Sequences that are not empty, and their last elements.
LEMMA OneNode ==
    ASSUME NEW S, NEW x \in S
    PROVE  <<x>> \in Seq(S) /\ Len(<<x>>) = 1 /\ <<x>>[1] = x /\ <<x>> # <<>>
OBVIOUS

\* The last element of a sequence that is not empty.
LEMMA Ending ==
    ASSUME NEW S, NEW s \in Seq(S), s # <<>>
    PROVE  Len(s) \in Nat /\ Len(s) >= 1 /\ s[Len(s)] \in S
OBVIOUS

\* The last element replaced.
LEMMA Replaced ==
    ASSUME NEW S, NEW s \in Seq(S), s # <<>>, NEW v \in S, NEW u, u = [s EXCEPT ![Len(s)] = v]
    PROVE  u \in Seq(S) /\ Len(u) = Len(s) /\ u[Len(s)] = v /\ u # <<>>
<1>1. Len(s) \in DOMAIN s /\ Len(s) \in Nat /\ Len(s) # 0
  BY Ending
<1>2. u \in Seq(S) /\ Len(u) = Len(s)
  OBVIOUS
<1>3. u[Len(s)] = v
  BY <1>1
<1> QED BY <1>1, <1>2, <1>3

\* An element appended.
LEMMA Appended ==
    ASSUME NEW S, NEW s \in Seq(S), NEW v \in S, NEW u, u = Append(s, v)
    PROVE  u \in Seq(S) /\ Len(u) = Len(s) + 1 /\ u # <<>>
OBVIOUS

\* latency_total starts from a list of one node.
LEMMA WithNode ==
    ASSUME NEW sums \in Seq(0 .. UINT64_MAX), NEW s, s = IF sums = <<>> THEN << 0 >> ELSE sums
    PROVE  /\ s \in Seq(0 .. UINT64_MAX) /\ s # <<>>
           /\ LastNode(sums, Len(s), s[Len(s)])
<1>1. 0 \in 0 .. UINT64_MAX
  BY AnalyzerAssumption
<1>2. <<0>> \in Seq(0 .. UINT64_MAX) /\ Len(<<0>>) = 1 /\ <<0>>[1] = 0 /\ <<0>> # <<>>
  BY <1>1, OneNode
<1>3. CASE sums = <<>>
  BY ONLY <1>2, <1>3, s = IF sums = <<>> THEN <<0>> ELSE sums DEF LastNode
<1>4. CASE sums # <<>>
  BY ONLY <1>4, s = IF sums = <<>> THEN <<0>> ELSE sums, sums \in Seq(0 .. UINT64_MAX) DEF LastNode
<1> QED BY <1>3, <1>4

\* What one entry adds to the partial sums.
LEMMA LatencyTotal ==
    ASSUME NEW t \in Nat, latency \in Seq(0 .. UINT64_MAX), latency_total(t)
    PROVE  \E last \in Nat, x \in Nat :
              /\ last >= 1 /\ LastNode(latency, last, x) /\ latency' \in Seq(0 .. UINT64_MAX)
              /\ \/ /\ t < UINT64_MAX - x /\ fault' = fault
                    /\ latency' # <<>> /\ Len(latency') = last /\ latency'[last] = x + t
                 \/ /\ t >= UINT64_MAX - x /\ fault' = fault
                    /\ latency' # <<>> /\ Len(latency') = last + 1
                 \/ latency' = <<>> /\ fault' = fault \cup {"no memory"}
<1>1. PICK M : M = 0 .. UINT64_MAX
  OBVIOUS
<1>2. PICK s : s = IF latency = <<>> THEN <<0>> ELSE latency
  OBVIOUS
<1>3. s \in Seq(M) /\ s # <<>> /\ LastNode(latency, Len(s), s[Len(s)])
  BY ONLY <1>1, <1>2, latency \in Seq(0 .. UINT64_MAX), WithNode
<1>4. Len(s) \in Nat /\ Len(s) >= 1 /\ s[Len(s)] \in M
  BY ONLY <1>3, Ending
<1>5. PICK x : x = s[Len(s)]
  OBVIOUS
<1>6. x \in Nat /\ x \in M /\ \A y \in Nat : y < UINT64_MAX - x => x + y \in M
  <2>1. UINT64_MAX \in Nat /\ x \in 0 .. UINT64_MAX
    BY <1>1, <1>4, <1>5, AnalyzerAssumption
  <2>2. x \in Nat /\ \A y \in Nat : y < UINT64_MAX - x => x + y \in 0 .. UINT64_MAX
    BY ONLY <2>1
  <2> QED BY <1>1, <2>1, <2>2
<1>7. \/ t < UINT64_MAX - x /\ latency' = [s EXCEPT ![Len(s)] = x + t] /\ fault' = fault
      \/ /\ t >= UINT64_MAX - x /\ fault' = fault
         /\ \E val \in M : latency' = Append(s, val)
      \/ latency' = <<>> /\ fault' = fault \cup {"no memory"}
  <2>1. \/ t < UINT64_MAX - s[Len(s)] /\ latency' = [s EXCEPT ![Len(s)] = @ + t] /\ fault' = fault
        \/ /\ t >= UINT64_MAX - s[Len(s)] /\ fault' = fault
           /\ \E val \in M : latency' = Append(s, val)
        \/ latency' = <<>> /\ fault' = fault \cup {"no memory"}
    BY <1>1, <1>2 DEF latency_total
  <2> QED BY <1>5, <2>1
<1>8. PICK new : new = latency'
  OBVIOUS
<1>9. CASE t < UINT64_MAX - x /\ latency' = [s EXCEPT ![Len(s)] = x + t] /\ fault' = fault
  <2>1. x + t \in M
    BY <1>6, <1>9
  <2>2. new \in Seq(M) /\ Len(new) = Len(s) /\ new[Len(s)] = x + t /\ new # <<>>
    BY ONLY <1>3, <1>8, <1>9, <2>1, Replaced
  <2> QED BY ONLY <1>1, <1>3, <1>4, <1>5, <1>6, <1>8, <1>9, <2>2
<1>10. CASE /\ t >= UINT64_MAX - x /\ fault' = fault
            /\ \E val \in M : latency' = Append(s, val)
  <2>1. new \in Seq(M) /\ Len(new) = Len(s) + 1 /\ new # <<>>
    BY ONLY <1>3, <1>8, <1>10, Appended
  <2> QED BY ONLY <1>1, <1>3, <1>4, <1>5, <1>6, <1>8, <1>10, <2>1
<1>11. CASE latency' = <<>> /\ fault' = fault \cup {"no memory"}
  <2>1. <<>> \in Seq(M)
    OBVIOUS
  <2> QED BY ONLY <1>1, <1>3, <1>4, <1>5, <1>6, <1>11, <2>1
<1> QED BY <1>7, <1>9, <1>10, <1>11

\* The constants are natural numbers.
LEMMA Numbers ==
    /\ ENTRY_MAX \in Nat /\ ENTRY_MAX > 0 /\ Word16 \in Nat /\ Word16 > 0
    /\ UINT64_MAX \in Nat /\ UINT64_MAX > 0
BY AnalyzerAssumption

\* The entries of a chunk.
LEMMA Chunk ==
    ASSUME NEW r \in Nat, r > 0, r = remain_entry
    PROVE  buffer_entry \in Nat /\ buffer_entry <= ENTRY_MAX /\ r - buffer_entry \in Nat
BY Numbers DEF buffer_entry

\* Every step keeps the types.
LEMMA TypedStep ==
    ASSUME Typed, Arrays, Cursor, Next
    PROVE  Typed'
<1> USE DEF inputVars, cursorVars, sizeVars, latencyVars, round1Vars, round2Vars, Stages, Passes, Final
<1>0. ASSUME Rewind \/ UNCHANGED cursorVars
      PROVE  {remain_entry', read_entry', i', pos'} \subseteq Nat
             /\ read_entry' <= ENTRY_MAX /\ i' <= read_entry' /\ eof' \in BOOLEAN
  <2>1. CASE Rewind
    <3>1. Len(trace) \in Nat
      BY Entry DEF Typed
    <3>2. 0 <= ENTRY_MAX
      BY Numbers
    <3>3. pos' = 0 /\ remain_entry' = Len(trace) /\ read_entry' = 0 /\ i' = 0 /\ eof' = FALSE
      BY <2>1 DEF Rewind
    <3>4. 0 \in Nat /\ 0 <= 0
      OBVIOUS
    <3> QED BY <3>1, <3>2, <3>3, <3>4
  <2>2. CASE UNCHANGED cursorVars
    BY <2>2 DEF Typed
  <2> QED BY <1>0, <2>1, <2>2
<1>1. CASE Start
  BY <1>0, <1>1 DEF Start, Typed
<1>2. CASE ReadChunk
  <2>1. PICK r \in Nat : r = remain_entry /\ r > 0
    BY <1>2 DEF Typed, ReadChunk
  <2>2. PICK b \in Nat : b = buffer_entry /\ b <= ENTRY_MAX /\ r - b \in Nat
    BY <2>1, Chunk
  <2>3. remain_entry' = r - b /\ i' = 0 /\ eof' \in BOOLEAN
    BY <1>2, <2>1, <2>2 DEF ReadChunk, Typed
  <2>4. read_entry' \in 0 .. b
    <3>1. read_entry' = b \/ read_entry' \in 0 .. b - 1
      BY <1>2, <2>2 DEF ReadChunk
    <3> QED BY ONLY <3>1, b \in Nat
  <2>5. {remain_entry', read_entry', i'} \subseteq Nat /\ read_entry' <= ENTRY_MAX /\ i' <= read_entry'
    BY <2>2, <2>3, <2>4, Numbers
  <2>6. fault' \subseteq {"short read", "outside", "no memory"}
    BY <1>2 DEF ReadChunk, Typed
  <2> QED BY <1>2, <2>3, <2>5, <2>6 DEF ReadChunk, Typed
<1>3. CASE EndOfPass
  BY <1>3 DEF EndOfPass, BufferDone, Typed
<1>4. ASSUME NextEntry, InBuffer
      PROVE  {remain_entry', read_entry', i', pos'} \subseteq Nat
             /\ read_entry' <= ENTRY_MAX /\ i' <= read_entry' /\ eof' \in BOOLEAN
  <2>1. i \in Nat /\ read_entry \in Nat /\ i < read_entry /\ pos \in Nat
    BY <1>4 DEF InBuffer, Typed
  <2>2. i + 1 \in Nat /\ pos + 1 \in Nat /\ i + 1 <= read_entry
    BY <2>1
  <2> QED BY <1>4, <2>2 DEF NextEntry, Typed
<1>5. CASE PrintEntry
  BY <1>4, <1>5 DEF PrintEntry, Typed
<1>6. CASE Attach
  <2>1. ns.ncap \in Nat /\ ns.zones \in Nat /\ ns.max_transfer \in Nat
    BY AnalyzerAssumption DEF Typed
  <2> QED BY <1>6, <2>1 DEF Attach, GetNsInfo, Typed
<1>7. CASE AllocSizes
  BY <1>0, <1>7 DEF AllocSizes, Typed
<1>8. CASE Round1Submit
  <2>1. rw_cnt' \in [RW -> Nat]
    <3>1. rw_cnt \in [RW -> Nat]
      BY DEF Typed
    <3>2. rw_cnt' = [rw_cnt EXCEPT ![Direction] = @ + 1] \/ rw_cnt' = rw_cnt
      BY <1>8 DEF Round1Submit
    <3> QED BY <3>1, <3>2
  <2>2. pc' \in Stages /\ fault' \subseteq {"short read", "outside", "no memory"}
        /\ file' \in {"none", "open", "closed"} /\ heap' \subseteq {"iosize", "blk", "zone"}
    BY <1>8 DEF Round1Submit, Outside, Typed
  <2> QED BY <1>4, <1>8, <2>1, <2>2 DEF Round1Submit, Typed
<1>9. CASE Round1Complete
  <2>1. InBuffer /\ latency_total(d.tsc_sc_time) /\ latency \in Seq(0 .. UINT64_MAX)
    BY <1>9 DEF Round1Complete, Typed
  <2>2. latency' \in Seq(0 .. UINT64_MAX) /\ fault' \subseteq fault \cup {"no memory"}
    <3>1. d.tsc_sc_time \in Nat
      BY <2>1, Here
    <3>2. PICK t \in Nat : t = d.tsc_sc_time
      BY <3>1
    <3>3. latency_total(t)
      BY <2>1, <3>2
    <3> QED BY <2>1, <3>3, LatencyTotal
  <2>3. g_latency_tsc_min' \in 0 .. UINT64_MAX /\ g_latency_tsc_max' \in 0 .. UINT64_MAX
    BY <1>9, <2>1, Here DEF Round1Complete, latency_min_max, Typed
  <2>4. g_end_tsc' \in 0 .. UINT64_MAX
    BY <1>9, <2>1, Here DEF Round1Complete
  <2> QED BY <1>4, <1>9, <2>2, <2>3, <2>4 DEF Round1Complete, UndefinedRc, Typed
<1>10. CASE Round1Other
  BY <1>4, <1>10 DEF Round1Other, UndefinedRc, Typed
<1>11. CASE Average
  <2>1. g_latency_tsc_avg' \in 0 .. UINT64_MAX /\ latency' \in Seq(0 .. UINT64_MAX)
    <3>1. CASE g_req_num = 0 \/ latency = <<>>
      BY <1>11, <3>1 DEF Average, Typed
    <3>2. CASE ~(g_req_num = 0 \/ latency = <<>>)
      <4>1. PICK average : average = Averages
        OBVIOUS
      <4>2. g_latency_tsc_avg' \in IF average \in 0 .. UINT64_MAX THEN {average} ELSE 0 .. UINT64_MAX
        BY <1>11, <3>2, <4>1 DEF Average
      <4>3. g_latency_tsc_avg' \in 0 .. UINT64_MAX
        BY <4>2
      <4>4. latency' = <<>>
        BY <1>11, <3>2 DEF Average
      <4> QED BY <4>3, <4>4
    <3> QED BY <3>1, <3>2
  <2>2. /\ UNCHANGED <<inputVars, file, cursorVars, sizeVars, g_end_tsc, g_latency_tsc_min,
                       g_latency_tsc_max, rw_cnt, fault>>
        /\ pc' = "arrays" /\ heap' = {}
    BY <1>11 DEF Average
  <2> QED BY <2>1, <2>2 DEF Typed
<1>12. CASE AllocArrays
  BY <1>0, <1>12 DEF AllocArrays, Typed
<1>13. CASE Round2Count
  BY <1>4, <1>13 DEF Round2Count, Outside, Typed
<1>14. CASE Round2Pass
  BY <1>4, <1>14 DEF Round2Pass, UndefinedRc, Typed
<1>15. CASE Round2Unknown
  BY <1>4, <1>15 DEF Round2Unknown, Typed
<1>16. CASE PrintCounts
  BY <1>16 DEF PrintCounts, Typed
<1>17. CASE Terminated
  BY <1>17 DEF Terminated, vars, Typed
<1> QED BY <1>1, <1>2, <1>3, <1>5, <1>6, <1>7, <1>8, <1>9, <1>10, <1>11, <1>12, <1>13, <1>14, <1>15,
           <1>16, <1>17 DEF Next, Main

\* Every step keeps what get_ns_info found.
LEMMA FoundStep ==
    ASSUME Typed, Found, Next
    PROVE  Found'
<1> USE DEF inputVars, cursorVars, sizeVars, latencyVars, round1Vars, round2Vars, Found
<1>1. CASE Start
  BY <1>1 DEF Start
<1>2. CASE ReadChunk
  BY <1>2 DEF ReadChunk
<1>3. CASE EndOfPass
  BY <1>3 DEF EndOfPass, BufferDone, Passes
<1>4. CASE PrintEntry
  BY <1>4 DEF PrintEntry
<1>5. CASE Attach
  <2>1. ns.zoned \in BOOLEAN
    BY AnalyzerAssumption DEF Typed
  <2>2. ~g_zone /\ g_zone \in BOOLEAN
    BY <1>5 DEF Attach, Typed
  <2>3. CASE ns.zoned
    BY <1>5, <2>1, <2>3 DEF Attach, GetNsInfo
  <2>4. CASE ~ns.zoned
    <3>1. g_zone' = ns.zoned
      BY <1>5, <2>1, <2>2, <2>4 DEF Attach, GetNsInfo
    <3> QED BY <1>5, <2>4, <3>1 DEF Attach
  <2> QED BY <2>3, <2>4
<1>6. CASE AllocSizes
  BY <1>6 DEF AllocSizes
<1>7. CASE Round1Submit
  BY <1>7 DEF Round1Submit, Outside
<1>8. CASE Round1Complete
  BY <1>8 DEF Round1Complete, UndefinedRc
<1>9. CASE Round1Other
  BY <1>9 DEF Round1Other, UndefinedRc
<1>10. CASE Average
  BY <1>10 DEF Average
<1>11. CASE AllocArrays
  BY <1>11 DEF AllocArrays
<1>12. CASE Round2Count
  BY <1>12 DEF Round2Count, Outside
<1>13. CASE Round2Pass
  BY <1>13 DEF Round2Pass, UndefinedRc
<1>14. CASE Round2Unknown
  BY <1>14 DEF Round2Unknown
<1>15. CASE PrintCounts
  BY <1>15 DEF PrintCounts
<1>16. CASE Terminated
  BY <1>16 DEF Terminated, vars
<1> QED BY <1>1, <1>2, <1>3, <1>4, <1>5, <1>6, <1>7, <1>8, <1>9, <1>10, <1>11, <1>12, <1>13, <1>14,
           <1>15, <1>16 DEF Next, Main

\* Every step keeps the counters at zero until the pass that counts begins.
LEMMA FreshStep ==
    ASSUME Fresh, Next
    PROVE  Fresh'
<1> USE DEF inputVars, cursorVars, sizeVars, latencyVars, round1Vars, round2Vars, Fresh
<1>1. CASE Start
  BY <1>1 DEF Start
<1>2. CASE ReadChunk
  BY <1>2 DEF ReadChunk
<1>3. CASE EndOfPass
  BY <1>3 DEF EndOfPass, BufferDone, Passes
<1>4. CASE PrintEntry
  BY <1>4 DEF PrintEntry
<1>5. CASE Attach
  BY <1>5 DEF Attach
<1>6. CASE AllocSizes
  BY <1>6 DEF AllocSizes
<1>7. CASE Round1Submit
  BY <1>7 DEF Round1Submit, Outside
<1>8. CASE Round1Complete
  BY <1>8 DEF Round1Complete, UndefinedRc
<1>9. CASE Round1Other
  BY <1>9 DEF Round1Other, UndefinedRc
<1>10. CASE Average
  BY <1>10 DEF Average
<1>11. CASE AllocArrays
  BY <1>11 DEF AllocArrays
<1>12. CASE Round2Count
  BY <1>12 DEF Round2Count, Outside
<1>13. CASE Round2Pass
  BY <1>13 DEF Round2Pass, UndefinedRc
<1>14. CASE Round2Unknown
  BY <1>14 DEF Round2Unknown
<1>15. CASE PrintCounts
  BY <1>15 DEF PrintCounts
<1>16. CASE Terminated
  BY <1>16 DEF Terminated, vars
<1> QED BY <1>1, <1>2, <1>3, <1>4, <1>5, <1>6, <1>7, <1>8, <1>9, <1>10, <1>11, <1>12, <1>13, <1>14,
           <1>15, <1>16 DEF Next, Main

\* Every step keeps the accounting of the entries: those handled, those in the buffer
\* and those left are the entries of the trace.
LEMMA CursorStep ==
    ASSUME Typed, Cursor, Next
    PROVE  Cursor'
<1> USE DEF inputVars, cursorVars, sizeVars, latencyVars, round1Vars, round2Vars, Passes
<1>0. /\ Len(trace) \in Nat /\ pos \in Nat /\ i \in Nat /\ read_entry \in Nat /\ remain_entry \in Nat
      /\ i <= read_entry /\ pos + (read_entry - i) + remain_entry <= Len(trace)
  BY Entry DEF Typed, Cursor
<1> DEFINE rest == pos + (read_entry - i) + remain_entry
<1>1. ASSUME Rewind, UNCHANGED <<trace, fault>>, "short read" \notin fault' => ~eof,
             pc' \in {"print", "attach", "round1", "round2"}
      PROVE  Cursor'
  <2>1. /\ pos' = 0 /\ remain_entry' = Len(trace) /\ read_entry' = 0 /\ i' = 0 /\ eof' = FALSE
        /\ Len(trace') = Len(trace)
    BY <1>1 DEF Rewind
  <2>2. rest' = Len(trace')
    BY <1>0, <2>1
  <2>3. rest' <= Len(trace')
    BY <1>0, <2>1
  <2> HIDE DEF rest
  <2> QED BY <1>1, <2>1, <2>2, <2>3 DEF Cursor, rest
<1>2. ASSUME NextEntry, InBuffer, trace' = trace, fault \subseteq fault',
             pc' \in {pc, "failed", "crash"}
      PROVE  Cursor'
  <2>1. pos' = pos + 1 /\ i' = i + 1 /\ eof' = eof /\ UNCHANGED <<remain_entry, read_entry>>
    BY <1>2 DEF NextEntry
  <2>2. rest' = rest
    BY <1>0, <2>1
  <2>3. pc \in {"print", "round1", "round2"}
    BY <1>2 DEF InBuffer
  <2>4. /\ rest <= Len(trace)
        /\ "short read" \notin fault => ~eof /\ rest = Len(trace)
    BY <2>3 DEF Cursor
  <2>5. pc' \notin {"average", "arrays", "counts", "done"}
    BY <1>2, <2>3
  <2> HIDE DEF rest
  <2>6. rest' <= Len(trace') /\ ("short read" \notin fault' => ~eof' /\ rest' = Len(trace'))
    BY <1>2, <2>1, <2>2, <2>4
  <2> QED BY <2>5, <2>6 DEF Cursor, rest
<1>3. ASSUME UNCHANGED <<cursorVars, trace, fault>>,
             pc' \in {"start", "failed"} \/ pc \notin {"start", "failed"},
             pc' \in {"average", "arrays", "counts", "done"} =>
                 i = read_entry /\ (eof \/ remain_entry = 0)
      PROVE  Cursor'
  BY <1>3 DEF Cursor
<1>4. CASE Start
  <2>1. CASE Rewind /\ pc' \in {"print", "attach"}
    <3>1. "short read" \notin fault' => ~eof
      BY <1>4 DEF Start, Cursor
    <3> QED BY <1>1, <1>4, <2>1, <3>1 DEF Start
  <2>2. CASE pc' = "failed" /\ UNCHANGED cursorVars
    BY <1>3, <1>4, <2>2 DEF Start
  <2> QED BY <1>4, <2>1, <2>2 DEF Start
<1>5. CASE ReadChunk
  <2>1. PICK r \in Nat : r = remain_entry /\ r > 0
    BY <1>5 DEF Typed, ReadChunk
  <2>2. PICK b \in Nat : b = buffer_entry /\ b <= ENTRY_MAX /\ r - b \in Nat
    BY <2>1, Chunk
  <2>3. remain_entry' = r - b /\ i' = 0 /\ pos' = pos /\ trace' = trace /\ pc' = pc /\ pc \in Passes
    BY <1>5, <2>1, <2>2 DEF ReadChunk, BufferDone
  <2>4. PICK p \in Nat : p = pos
    BY <1>0
  <2>5. PICK l \in Nat : l = Len(trace)
    BY <1>0
  <2>6. rest = p + r /\ p + r <= l
    <3>1. i = read_entry /\ i \in Nat
      BY <1>0, <1>5 DEF ReadChunk, BufferDone
    <3>2. rest = p + (i - i) + r /\ rest <= l
      BY <1>0, <2>1, <2>4, <2>5, <3>1
    <3>3. i - i = 0
      BY <3>1
    <3> HIDE DEF rest
    <3> QED BY <3>2, <3>3
  <2>7. CASE read_entry' = b /\ UNCHANGED <<eof, fault>>
    <3>1. rest' = p + r
      BY <2>1, <2>2, <2>3, <2>4, <2>7
    <3>2. "short read" \notin fault => ~eof /\ p + r = l
      BY <2>3, <2>5, <2>6 DEF Cursor
    <3> HIDE DEF rest
    <3> QED BY <2>3, <2>5, <2>6, <2>7, <3>1, <3>2 DEF Cursor, rest
  <2>8. CASE read_entry' \in 0 .. b - 1 /\ fault' = fault \cup {"short read"}
    <3>1. PICK k \in 0 .. b - 1 : k = read_entry'
      BY <2>8
    <3>2. rest' = p + k + (r - b)
      BY <2>1, <2>2, <2>3, <2>4, <3>1
    <3>3. p + k + (r - b) <= l
      BY ONLY <2>6, k \in 0 .. b - 1, p \in Nat, r \in Nat, b \in Nat, l \in Nat
    <3> HIDE DEF rest
    <3> QED BY <2>3, <2>5, <2>8, <3>2, <3>3 DEF Cursor, rest
  <2> QED BY <1>5, <2>2, <2>7, <2>8 DEF ReadChunk
<1>6. CASE EndOfPass
  <2>1. i = read_entry /\ (eof \/ remain_entry = 0) /\ pc \in {"print", "round1", "round2"}
        /\ UNCHANGED <<cursorVars, trace, fault>>
    BY <1>6 DEF EndOfPass, BufferDone
  <2> QED BY <1>3, <2>1
<1>7. CASE PrintEntry
  BY <1>2, <1>7 DEF PrintEntry
<1>8. CASE Attach
  BY <1>3, <1>8 DEF Attach
<1>9. CASE AllocSizes
  <2>1. CASE Rewind /\ pc' = "round1"
    <3>1. "short read" \notin fault' => ~eof
      BY <1>9 DEF AllocSizes, Cursor
    <3> QED BY <1>1, <1>9, <2>1, <3>1 DEF AllocSizes
  <2>2. CASE pc' = "failed" /\ UNCHANGED cursorVars
    BY <1>3, <1>9, <2>2 DEF AllocSizes
  <2> QED BY <1>9, <2>1, <2>2 DEF AllocSizes
<1>10. CASE Round1Submit
  BY <1>2, <1>10 DEF Round1Submit, Outside
<1>11. CASE Round1Complete
  BY <1>2, <1>11 DEF Round1Complete, UndefinedRc, latency_total
<1>12. CASE Round1Other
  BY <1>2, <1>12 DEF Round1Other, UndefinedRc
<1>13. CASE Average
  BY <1>3, <1>13 DEF Average, Cursor
<1>14. CASE AllocArrays
  <2>1. CASE Rewind /\ pc' = "round2"
    <3>1. "short read" \notin fault' => ~eof
      BY <1>14 DEF AllocArrays, Cursor
    <3> QED BY <1>1, <1>14, <2>1, <3>1 DEF AllocArrays
  <2>2. CASE pc' \in {"failed", "crash"} /\ UNCHANGED cursorVars
    BY <1>3, <1>14, <2>2 DEF AllocArrays
  <2> QED BY <1>14, <2>1, <2>2 DEF AllocArrays
<1>15. CASE Round2Count
  BY <1>2, <1>15 DEF Round2Count, Outside
<1>16. CASE Round2Pass
  BY <1>2, <1>16 DEF Round2Pass, UndefinedRc
<1>17. CASE Round2Unknown
  BY <1>2, <1>17 DEF Round2Unknown
<1>18. CASE PrintCounts
  BY <1>3, <1>18 DEF PrintCounts, Cursor
<1>19. CASE Terminated
  BY <1>19 DEF Terminated, vars, Cursor
<1> QED BY <1>4, <1>5, <1>6, <1>7, <1>8, <1>9, <1>10, <1>11, <1>12, <1>13, <1>14, <1>15, <1>16, <1>17,
           <1>18, <1>19 DEF Next, Main

\* Cleared arrays.
LEMMA ZeroesType ==
    ASSUME NEW n \in Nat
    PROVE  /\ Zeroes(n) \in [RW -> [0 .. n - 1 -> Nat]]
           /\ Zeroes(n) \in [RW -> [0 .. n - 1 -> 0 .. Word16 - 1]]
<1>1. 0 \in Nat /\ 0 \in 0 .. Word16 - 1
  BY Numbers
<1> QED BY <1>1 DEF Zeroes

\* Counting keeps an array's domain and its width.
LEMMA CountingType ==
    ASSUME NEW n, NEW f \in [0 .. n - 1 -> 0 .. Word16 - 1], NEW B
    PROVE  Counting(f, B) \in [0 .. n - 1 -> 0 .. Word16 - 1]
<1>1. ASSUME NEW k \in 0 .. n - 1 PROVE (f[k] + 1) % Word16 \in 0 .. Word16 - 1
  <2>1. f[k] + 1 \in Int
    BY Numbers
  <2> QED BY <2>1, Numbers, ModTwice
<1> QED BY <1>1 DEF Counting

\* A step that leaves the arrays and their sizes alone.
LEMMA ArraysKept ==
    /\ SizeArrays /\ UNCHANGED <<iosize, g_max_transfer_block>>
          /\ (pc' \in {"round1", "average", "arrays", "round2", "counts", "done"} =>
                 pc \in {"round1", "average", "arrays", "round2", "counts", "done"})
       => SizeArrays'
    /\ PlaceArrays /\ UNCHANGED <<blk, zone, g_ns_block, g_ns_zone>>
          /\ (pc' \in {"round2", "counts", "done"} => pc \in {"round2", "counts", "done"})
       => PlaceArrays'
BY DEF SizeArrays, PlaceArrays

\* The counters after round 2 counted the command it stands at.
LEMMA Counted2 ==
    ASSUME PlaceArrays, Typed, Cursor, Round2Count
    PROVE  /\ Direction \in RW /\ Blocks = BlocksOf(d)
           /\ blk' = [blk EXCEPT ![Direction] = Counting(@, Blocks)]
           /\ g_zone /\ zidx < g_ns_zone => zone' = [zone EXCEPT ![Direction] = Counting(@, {zidx})]
           /\ ~(g_zone /\ zidx < g_ns_zone) => zone' = zone
<1>1. Direction \in RW
  BY DEF Direction, RW
<1>2. Blocks = BlocksOf(d)
  BY DEF Blocks, BlocksOf
<1>3. blk' = [blk EXCEPT ![Direction] = Counting(@, Blocks)]
  BY DEF Round2Count, block_counter, Counting
<1>4. ~(g_zone /\ zidx < g_ns_zone) => zone' = zone
  BY DEF Round2Count, zone_counter
<1>5. ASSUME g_zone /\ zidx < g_ns_zone
      PROVE  zone' = [zone EXCEPT ![Direction] = Counting(@, {zidx})]
  <2>1. zone' = [zone EXCEPT ![Direction][zidx] = (@ + 1) % Word16]
    BY <1>5 DEF Round2Count, zone_counter
  <2>2. PICK m \in Nat : zone \in [RW -> [0 .. m - 1 -> 0 .. Word16 - 1]]
    BY DEF PlaceArrays
  <2>3. PICK f : f = zone[Direction]
    OBVIOUS
  <2>4. f \in [0 .. m - 1 -> 0 .. Word16 - 1]
    BY <1>1, <2>2, <2>3
  <2>5. [f EXCEPT ![zidx] = (@ + 1) % Word16] = Counting(f, {zidx})
    BY <2>4 DEF Counting
  <2>6. zone' = [zone EXCEPT ![Direction] = [f EXCEPT ![zidx] = (@ + 1) % Word16]]
    BY <2>1, <2>3
  <2> QED BY <2>3, <2>5, <2>6
<1> QED BY <1>1, <1>2, <1>3, <1>4, <1>5

\* Every step keeps the arrays at the sizes they were allocated for.
LEMMA ArraysStep ==
    ASSUME Typed, Cursor, Arrays, Next
    PROVE  Arrays'
<1> USE DEF inputVars, cursorVars, sizeVars, latencyVars, round1Vars, round2Vars, Arrays
<1>1. CASE Start
  BY <1>1, ArraysKept DEF Start
<1>2. CASE ReadChunk
  BY <1>2, ArraysKept DEF ReadChunk
<1>3. CASE EndOfPass
  BY <1>3, ArraysKept DEF EndOfPass, BufferDone, Passes
<1>4. CASE PrintEntry
  BY <1>4, ArraysKept DEF PrintEntry
<1>5. CASE Attach
  BY <1>5 DEF Attach, SizeArrays, PlaceArrays
<1>6. CASE AllocSizes
  <2>1. PlaceArrays'
    BY <1>6, ArraysKept DEF AllocSizes
  <2>2. CASE pc' = "round1" /\ iosize' = Zeroes(g_max_transfer_block)
    BY <1>6, <2>1, <2>2, ZeroesType DEF AllocSizes, SizeArrays, Typed
  <2>3. CASE pc' = "failed" /\ iosize' = iosize
    BY <1>6, <2>1, <2>3, ArraysKept DEF AllocSizes
  <2> QED BY <1>6, <2>2, <2>3 DEF AllocSizes
<1>7. CASE Round1Submit
  <2>1. PlaceArrays'
    BY <1>7, ArraysKept DEF Round1Submit, Outside
  <2>2. CASE UNCHANGED iosize
    BY <1>7, <2>1, <2>2, ArraysKept DEF Round1Submit, Outside
  <2>3. CASE d.nlb < g_max_transfer_block /\ iosize' = [iosize EXCEPT ![Direction][d.nlb] = @ + 1]
             /\ pc' = pc
    <3>1. Direction \in RW /\ d.nlb \in Nat
      BY <1>7, Here DEF Round1Submit
    <3>2. PICK n \in Nat : iosize \in [RW -> [0 .. n - 1 -> Nat]] /\ n = g_max_transfer_block
      BY <1>7 DEF Round1Submit, SizeArrays
    <3>3. PICK v \in 0 .. n - 1 : v = d.nlb
      BY <2>3, <3>1, <3>2
    <3>4. iosize' \in [RW -> [0 .. n - 1 -> Nat]]
      BY <2>3, <3>1, <3>2, <3>3
    <3>5. g_max_transfer_block' = g_max_transfer_block
      BY <1>7 DEF Round1Submit
    <3> QED BY <2>1, <3>2, <3>4, <3>5 DEF SizeArrays
  <2> QED BY <1>7, <2>2, <2>3 DEF Round1Submit
<1>8. CASE Round1Complete
  BY <1>8, ArraysKept DEF Round1Complete, UndefinedRc
<1>9. CASE Round1Other
  BY <1>9, ArraysKept DEF Round1Other, UndefinedRc
<1>10. CASE Average
  BY <1>10, ArraysKept DEF Average
<1>11. CASE AllocArrays
  <2>1. SizeArrays'
    BY <1>11, ArraysKept DEF AllocArrays
  <2>2. CASE pc' = "round2" /\ blk' = Zeroes(g_ns_block) /\ zone' = Zeroes(g_ns_zone)
    BY <1>11, <2>1, <2>2, ZeroesType DEF AllocArrays, PlaceArrays, Typed
  <2>3. CASE pc' \in {"failed", "crash"} /\ UNCHANGED round2Vars
    BY <1>11, <2>1, <2>3, ArraysKept DEF AllocArrays
  <2> QED BY <1>11, <2>2, <2>3 DEF AllocArrays
<1>12. CASE Round2Count
  <2>1. SizeArrays'
    BY <1>12, ArraysKept DEF Round2Count, Outside
  <2>2. PICK n, m \in Nat : /\ blk \in [RW -> [0 .. n - 1 -> 0 .. Word16 - 1]]
                            /\ zone \in [RW -> [0 .. m - 1 -> 0 .. Word16 - 1]]
                            /\ n = g_ns_block /\ m = g_ns_zone
    BY <1>12 DEF Round2Count, PlaceArrays
  <2>3. PICK dir \in RW : dir = Direction
    BY <1>12, Counted2
  <2>4. blk[dir] \in [0 .. n - 1 -> 0 .. Word16 - 1] /\ zone[dir] \in [0 .. m - 1 -> 0 .. Word16 - 1]
    BY <2>2
  <2>5. \A B : /\ Counting(blk[dir], B) \in [0 .. n - 1 -> 0 .. Word16 - 1]
               /\ Counting(zone[dir], B) \in [0 .. m - 1 -> 0 .. Word16 - 1]
    BY <2>4, CountingType
  <2>6. blk' \in [RW -> [0 .. n - 1 -> 0 .. Word16 - 1]]
    <3>1. PICK f \in [0 .. n - 1 -> 0 .. Word16 - 1] : f = Counting(blk[dir], Blocks)
      BY <2>5
    <3>2. blk' = [blk EXCEPT ![dir] = f]
      BY <1>12, <2>3, <3>1, Counted2
    <3> QED BY <2>2, <3>2
  <2>7. zone' \in [RW -> [0 .. m - 1 -> 0 .. Word16 - 1]]
    <3>1. PICK f \in [0 .. m - 1 -> 0 .. Word16 - 1] : f = Counting(zone[dir], {zidx})
      BY <2>5
    <3>2. zone' = [zone EXCEPT ![dir] = f] \/ zone' = zone
      BY <1>12, <2>3, <3>1, Counted2
    <3> QED BY <2>2, <3>2
  <2>8. UNCHANGED <<g_ns_block, g_ns_zone>>
    BY <1>12 DEF Round2Count
  <2> QED BY <2>1, <2>2, <2>6, <2>7, <2>8 DEF PlaceArrays
<1>13. CASE Round2Pass
  BY <1>13, ArraysKept DEF Round2Pass, UndefinedRc
<1>14. CASE Round2Unknown
  BY <1>14, ArraysKept DEF Round2Unknown
<1>15. CASE PrintCounts
  BY <1>15, ArraysKept DEF PrintCounts
<1>16. CASE Terminated
  BY <1>16, ArraysKept DEF Terminated, vars
<1> QED BY <1>1, <1>2, <1>3, <1>4, <1>5, <1>6, <1>7, <1>8, <1>9, <1>10, <1>11, <1>12, <1>13, <1>14,
           <1>15, <1>16 DEF Next, Main

\* With an empty buffer and nothing left the position is that of the end.
LEMMA NothingLeft == ASSUME NEW p \in Nat, NEW k \in Nat PROVE p + (k - k) + 0 = p
OBVIOUS

\* The position stays in the trace.
LEMMA Reached ==
    ASSUME Typed, Cursor
    PROVE  pos \in 0 .. Len(trace)
<1>1. /\ Len(trace) \in Nat /\ pos \in Nat /\ i \in Nat /\ read_entry \in Nat /\ remain_entry \in Nat
      /\ i <= read_entry /\ pos + (read_entry - i) + remain_entry <= Len(trace)
  BY Entry DEF Typed, Cursor
<1> QED BY <1>1

\* After a pass without a short read every entry has been read.
LEMMA AtEnd ==
    ASSUME Typed, Cursor, pc \in {"average", "arrays", "counts", "done"}, "short read" \notin fault
    PROVE  pos = Len(trace)
<1>1. i = read_entry /\ remain_entry = 0 /\ pos + (read_entry - i) + remain_entry = Len(trace)
  BY DEF Cursor
<1>2. i \in Nat /\ pos \in Nat
  BY DEF Typed
<1> QED BY <1>1, <1>2, NothingLeft

\* A step that handles no entry keeps the histogram.
LEMMA SizesKept ==
    Sizes /\ UNCHANGED <<trace, rw_cnt, iosize>> /\ fault \subseteq fault'
        /\ (pc' \in {"round1", "average", "arrays"} =>
               pc \in {"round1", "average", "arrays"} /\ pos' = pos)
        /\ (pc' \in {"round2", "counts", "done"} => pc \in {"round2", "counts", "done"})
     => Sizes'
BY DEF Sizes, Round1

\* Every step keeps the histogram equal to the reads and writes before the position.
LEMMA SizesStep ==
    ASSUME Typed, Cursor, Arrays, Fresh, Sizes, Next
    PROVE  Sizes'
<1> USE DEF inputVars, cursorVars, sizeVars, latencyVars, round1Vars, round2Vars
<1>1. CASE Start
  BY <1>1, SizesKept DEF Start
<1>2. CASE ReadChunk
  BY <1>2, SizesKept DEF ReadChunk
<1>3. CASE EndOfPass
  BY <1>3, SizesKept DEF EndOfPass, BufferDone, Passes
<1>4. CASE PrintEntry
  BY <1>4, SizesKept DEF PrintEntry
<1>5. CASE Attach
  BY <1>5, SizesKept DEF Attach
<1>6. CASE AllocSizes
  <2>1. CASE pc' = "failed" /\ UNCHANGED iosize
    BY <1>6, <2>1, SizesKept DEF AllocSizes
  <2>2. CASE pc' = "round1" /\ iosize' = Zeroes(g_max_transfer_block) /\ Rewind
    <3>1. pos' = 0 /\ rw_cnt' = [rw \in RW |-> 0]
      BY <1>6, <2>2 DEF AllocSizes, Rewind, Fresh
    <3>2. Histogram(trace', 0, [rw \in RW |-> 0], Zeroes(g_max_transfer_block))
      BY HistogramNone DEF Typed
    <3>3. Histogram(trace', pos', rw_cnt', iosize')
      BY <2>2, <3>1, <3>2
    <3> QED BY <2>2, <3>3 DEF Sizes, Round1
  <2> QED BY <1>6, <2>1, <2>2 DEF AllocSizes
<1>7. ASSUME pc = "round1", InBuffer, NextEntry, \A rw \in RW : ~IsMove(d, rw),
             UNCHANGED <<trace, rw_cnt, iosize>>, fault \subseteq fault', pc' \in {pc, "failed"}
      PROVE  Sizes'
  <2>1. trace \in Traces /\ pos \in Nat /\ pos < Len(trace) /\ pos' = pos + 1
    BY <1>7, Here DEF NextEntry
  <2>2. ASSUME Histogram(trace, pos, rw_cnt, iosize) PROVE Histogram(trace, pos', rw_cnt, iosize)
    BY <1>7, <2>1, <2>2, HistogramSame DEF d
  <2> QED BY <1>7, <2>2 DEF Sizes, Round1
<1>8. CASE Round1Submit
  <2>1. CASE d.opc = "OTHER" /\ pc' = "failed"
    BY <2>1 DEF Sizes, Round1
  <2>2. CASE "outside" \in fault'
    BY <1>8, <2>2 DEF Sizes, Round1, Round1Submit, Outside
  <2>3. CASE d.opc \in Uncounted /\ UNCHANGED <<pc, iosize, fault>>
    <3>1. ~Counted
      BY <2>3, Directions DEF Counted
    <3>2. \A rw \in RW : ~IsMove(d, rw)
      BY <1>8, <3>1, Here DEF Round1Submit
    <3> QED BY <1>7, <1>8, <2>3, <3>1, <3>2 DEF Round1Submit
  <2>4. CASE /\ Counted /\ d.nlb < g_max_transfer_block /\ UNCHANGED <<pc, fault>>
             /\ iosize' = [iosize EXCEPT ![Direction][d.nlb] = @ + 1]
    <3>1. /\ trace \in Traces /\ pos \in Nat /\ pos < Len(trace)
          /\ Direction \in RW /\ IsMove(d, Direction)
      BY <1>8, <2>4, Here DEF Round1Submit
    <3>2. PICK m \in Nat : iosize \in [RW -> [0 .. m - 1 -> Nat]] /\ m = g_max_transfer_block
      BY <1>8 DEF Round1Submit, Arrays, SizeArrays
    <3>3. rw_cnt \in [RW -> Nat] /\ rw_cnt' = [rw_cnt EXCEPT ![Direction] = @ + 1]
      BY <1>8, <2>4 DEF Round1Submit, Typed
    <3>4. pos' = pos + 1 /\ trace' = trace /\ pc = "round1"
      BY <1>8 DEF Round1Submit, NextEntry
    <3>5. ASSUME Histogram(trace, pos, rw_cnt, iosize)
          PROVE  Histogram(trace, pos + 1, [rw_cnt EXCEPT ![Direction] = @ + 1],
                           [iosize EXCEPT ![Direction][d.nlb] = @ + 1])
      <4>1. PICK dir \in RW : dir = Direction
        BY <3>1
      <4>2. PICK v : v = trace[pos + 1].nlb
        OBVIOUS
      <4>3. d.nlb = v /\ v < m /\ IsMove(trace[pos + 1], dir)
        BY <2>4, <3>1, <3>2, <4>1, <4>2 DEF d
      <4>4. Histogram(trace, pos + 1, [rw_cnt EXCEPT ![dir] = @ + 1], [iosize EXCEPT ![dir][v] = @ + 1])
        BY <3>1, <3>2, <3>3, <3>5, <4>2, <4>3, HistogramAdd
      <4> QED BY <4>1, <4>3, <4>4
    <3>6. Histogram(trace, pos, rw_cnt, iosize) => Histogram(trace, pos', rw_cnt', iosize')
      BY <2>4, <3>3, <3>4, <3>5
    <3> QED BY <2>4, <3>4, <3>6 DEF Sizes, Round1
  <2> QED BY <1>8, <2>1, <2>2, <2>3, <2>4 DEF Round1Submit, Outside
<1>9. CASE Round1Complete
  <2>1. \A rw \in RW : ~IsMove(d, rw)
    BY <1>9, Here DEF Round1Complete
  <2>2. fault \subseteq fault'
    BY <1>9 DEF Round1Complete, latency_total
  <2> QED BY <1>7, <1>9, <2>1, <2>2 DEF Round1Complete, UndefinedRc
<1>10. CASE Round1Other
  <2>1. \A rw \in RW : ~IsMove(d, rw)
    BY <1>10, Here DEF Round1Other
  <2> QED BY <1>7, <1>10, <2>1 DEF Round1Other, UndefinedRc
<1>11. CASE Average
  BY <1>11, SizesKept DEF Average
<1>12. CASE AllocArrays
  <2>1. CASE pc' \in {"failed", "crash"}
    BY <1>12, <2>1, SizesKept DEF AllocArrays
  <2>2. CASE pc' = "round2"
    <3>1. pc = "arrays" /\ UNCHANGED <<trace, rw_cnt, iosize, fault>>
      BY <1>12 DEF AllocArrays
    <3>2. ASSUME fault = {} PROVE Histogram(trace, Len(trace), rw_cnt, iosize)
      BY <3>1, <3>2, AtEnd DEF Sizes, Round1
    <3> QED BY <2>2, <3>1, <3>2 DEF Sizes, Round1
  <2> QED BY <1>12, <2>1, <2>2 DEF AllocArrays
<1>13. CASE Round2Count
  BY <1>13, SizesKept DEF Round2Count, Outside
<1>14. CASE Round2Pass
  BY <1>14, SizesKept DEF Round2Pass, UndefinedRc
<1>15. CASE Round2Unknown
  BY <1>15, SizesKept DEF Round2Unknown
<1>16. CASE PrintCounts
  BY <1>16, SizesKept DEF PrintCounts
<1>17. CASE Terminated
  BY <1>17, SizesKept DEF Terminated, vars
<1> QED BY <1>1, <1>2, <1>3, <1>4, <1>5, <1>6, <1>8, <1>9, <1>10, <1>11, <1>12, <1>13, <1>14, <1>15,
           <1>16, <1>17 DEF Next, Main

\* A step that handles no entry keeps the latencies.
LEMMA LatenciesKept ==
    Latencies /\ UNCHANGED <<trace, latency, g_latency_tsc_min, g_latency_tsc_max>>
        /\ fault \subseteq fault'
        /\ (pc' \in {"round1", "average", "arrays"} =>
               pc \in {"round1", "average", "arrays"} /\ pos' = pos)
        /\ (pc' \in {"round1", "average"} => pc \in {"round1", "average"})
        /\ (pc' = "arrays" => pc = "arrays")
     => Latencies'
<1> SUFFICES ASSUME Latencies,
                    UNCHANGED <<trace, latency, g_latency_tsc_min, g_latency_tsc_max>>,
                    fault \subseteq fault',
                    pc' \in {"round1", "average", "arrays"} =>
                        pc \in {"round1", "average", "arrays"} /\ pos' = pos,
                    pc' \in {"round1", "average"} => pc \in {"round1", "average"},
                    pc' = "arrays" => pc = "arrays"
             PROVE  Latencies'
  OBVIOUS
<1>1. Round1' => Extremes(trace', pos', g_latency_tsc_min', g_latency_tsc_max')
  BY DEF Latencies, Round1
<1>2. pc' \in {"round1", "average"} => PartialSums(trace', pos', latency', fault')
  <2> SUFFICES ASSUME pc' \in {"round1", "average"} PROVE PartialSums(trace', pos', latency', fault')
    OBVIOUS
  <2>1. PartialSums(trace, pos, latency, fault)
    BY DEF Latencies
  <2>2. PartialSums(trace, pos, latency, fault')
    BY <2>1, PartialMore
  <2> QED BY <2>2
<1>3. pc' = "arrays" /\ "no memory" \notin fault' /\ Len(latency') = 1 =>
          latency'[1] = SumOver(Times(trace'), Comps(trace', pos'))
  BY DEF Latencies
<1> QED BY <1>1, <1>2, <1>3 DEF Latencies

\* The extreme latencies are natural numbers.
LEMMA MinMaxNat ==
    ASSUME Typed
    PROVE  g_latency_tsc_min \in Nat /\ g_latency_tsc_max \in Nat
<1>1. g_latency_tsc_min \in 0 .. UINT64_MAX /\ g_latency_tsc_max \in 0 .. UINT64_MAX
  BY DEF Typed
<1> QED BY <1>1, Numbers

\* Every step keeps the sums and the extremes those of the completions before the position.
LEMMA LatenciesStep ==
    ASSUME Typed, Cursor, Fresh, Latencies, Next
    PROVE  Latencies'
<1> USE DEF inputVars, cursorVars, sizeVars, latencyVars, round1Vars, round2Vars
<1>1. CASE Start
  BY <1>1, LatenciesKept DEF Start
<1>2. CASE ReadChunk
  BY <1>2, LatenciesKept DEF ReadChunk
<1>3. CASE EndOfPass
  BY <1>3, LatenciesKept DEF EndOfPass, BufferDone, Passes
<1>4. CASE PrintEntry
  BY <1>4, LatenciesKept DEF PrintEntry
<1>5. CASE Attach
  BY <1>5, LatenciesKept DEF Attach
<1>6. CASE AllocSizes
  <2>1. CASE pc' = "failed"
    BY <1>6, <2>1, LatenciesKept DEF AllocSizes
  <2>2. CASE pc' = "round1" /\ Rewind
    <3>1. pos' = 0 /\ latency' = <<>> /\ g_latency_tsc_min' = 0 /\ g_latency_tsc_max' = 0
      BY <1>6, <2>2 DEF AllocSizes, Rewind, Fresh
    <3>2. Extremes(trace', 0, 0, 0) /\ PartialSums(trace', 0, <<>>, fault')
      BY ExtremesNone, PartialNone
    <3> QED BY <2>2, <3>1, <3>2 DEF Latencies
  <2> QED BY <1>6, <2>1, <2>2 DEF AllocSizes
<1>7. ASSUME pc = "round1", InBuffer, NextEntry, d.tpoint # "NVME_IO_COMPLETE",
             UNCHANGED <<trace, latency, g_latency_tsc_min, g_latency_tsc_max>>,
             fault \subseteq fault', pc' \in {pc, "failed", "crash"}
      PROVE  Latencies'
  <2>1. trace \in Traces /\ pos \in Nat /\ pos < Len(trace) /\ pos' = pos + 1
    BY <1>7, Here DEF NextEntry
  <2>2. g_latency_tsc_min \in Nat /\ g_latency_tsc_max \in Nat
    BY MinMaxNat
  <2>3. /\ Extremes(trace, pos, g_latency_tsc_min, g_latency_tsc_max)
        /\ PartialSums(trace, pos, latency, fault)
    BY <1>7 DEF Latencies, Round1
  <2>4. Extremes(trace, pos', g_latency_tsc_min, g_latency_tsc_max)
    BY <1>7, <2>1, <2>2, <2>3, ExtremesStep DEF d
  <2>5. PartialSums(trace, pos', latency, fault)
    BY <1>7, <2>1, <2>3, PartialSame DEF d
  <2>6. PartialSums(trace, pos', latency, fault')
    BY <1>7, <2>5, PartialMore
  <2> QED BY <1>7, <2>4, <2>6 DEF Latencies, Round1
<1>8. CASE Round1Submit
  BY <1>7, <1>8 DEF Round1Submit, Outside
<1>9. CASE Round1Complete
  <2>1. /\ trace \in Traces /\ pos \in Nat /\ pos < Len(trace) /\ pos' = pos + 1
        /\ trace' = trace /\ d.tsc_sc_time \in Nat /\ trace[pos + 1].tpoint = "NVME_IO_COMPLETE"
    BY <1>9, Here DEF Round1Complete, NextEntry, d
  <2>2. g_latency_tsc_min \in Nat /\ g_latency_tsc_max \in Nat /\ latency \in Seq(0 .. UINT64_MAX)
    BY MinMaxNat DEF Typed
  <2>3. /\ Extremes(trace, pos, g_latency_tsc_min, g_latency_tsc_max)
        /\ PartialSums(trace, pos, latency, fault)
    BY <1>9 DEF Latencies, Round1, Round1Complete
  <2>4. PICK v \in Nat : v = d.tsc_sc_time /\ v = trace[pos + 1].tsc_sc_time
    BY <2>1 DEF d
  <2>5. Extremes(trace, pos + 1, g_latency_tsc_min', g_latency_tsc_max')
    <3>1. /\ g_latency_tsc_max' = IF v > g_latency_tsc_max THEN v ELSE g_latency_tsc_max
          /\ g_latency_tsc_min' = IF g_latency_tsc_min = 0 \/ v < g_latency_tsc_min THEN v
                                  ELSE g_latency_tsc_min
      BY <1>9, <2>4 DEF Round1Complete, latency_min_max
    <3> QED BY <2>1, <2>2, <2>3, <2>4, <3>1, ExtremesStep
  <2>6. PartialSums(trace, pos + 1, latency', fault')
    <3>1. latency_total(v)
      BY <1>9, <2>4 DEF Round1Complete
    <3>2. PICK last \in Nat, x \in Nat :
              /\ last >= 1 /\ LastNode(latency, last, x)
              /\ \/ /\ v < UINT64_MAX - x /\ fault' = fault
                    /\ latency' # <<>> /\ Len(latency') = last /\ latency'[last] = x + v
                 \/ /\ v >= UINT64_MAX - x /\ fault' = fault
                    /\ latency' # <<>> /\ Len(latency') = last + 1
                 \/ latency' = <<>> /\ fault' = fault \cup {"no memory"}
      BY <2>2, <3>1, LatencyTotal
    <3>3. PICK new : new = latency'
      OBVIOUS
    <3>4. PICK after : after = fault'
      OBVIOUS
    <3>5. \/ /\ v < UINT64_MAX - x /\ after = fault
             /\ new # <<>> /\ Len(new) = last /\ new[last] = x + v
          \/ /\ v >= UINT64_MAX - x /\ after = fault
             /\ new # <<>> /\ Len(new) = last + 1
          \/ new = <<>> /\ "no memory" \in after
      BY <3>2, <3>3, <3>4
    <3>6. PartialSums(trace, pos + 1, new, after)
      BY <2>1, <2>3, <2>4, <3>2, <3>5, PartialAdd
    <3> QED BY <3>3, <3>4, <3>6
  <2>7. pc' \in {"round1", "failed"}
    BY <1>9 DEF Round1Complete, UndefinedRc
  <2> QED BY <2>1, <2>5, <2>6, <2>7 DEF Latencies, Round1
<1>10. CASE Round1Other
  BY <1>7, <1>10 DEF Round1Other, UndefinedRc
<1>11. CASE Average
  <2>1. /\ pc = "average" /\ pc' = "arrays"
        /\ UNCHANGED <<trace, pos, g_latency_tsc_min, g_latency_tsc_max, fault>>
    BY <1>11 DEF Average
  <2>2. latency' = latency \/ latency' = <<>>
    BY <1>11 DEF Average
  <2>3. /\ Extremes(trace, pos, g_latency_tsc_min, g_latency_tsc_max)
        /\ PartialSums(trace, pos, latency, fault)
    BY <2>1 DEF Latencies, Round1
  <2>4. "no memory" \notin fault' /\ Len(latency') = 1 =>
            latency'[1] = SumOver(Times(trace), Comps(trace, pos))
    <3>1. CASE latency' = latency
      BY <2>1, <2>3, <3>1 DEF PartialSums
    <3>2. CASE latency' = <<>>
      <4>1. Len(<<>>) # 1
        OBVIOUS
      <4> QED BY <3>2, <4>1
    <3> QED BY <2>2, <3>1, <3>2
  <2> QED BY <2>1, <2>3, <2>4 DEF Latencies, Round1
<1>12. CASE AllocArrays
  BY <1>12, LatenciesKept DEF AllocArrays
<1>13. CASE Round2Count
  BY <1>13, LatenciesKept DEF Round2Count, Outside
<1>14. CASE Round2Pass
  BY <1>14, LatenciesKept DEF Round2Pass, UndefinedRc
<1>15. CASE Round2Unknown
  BY <1>15, LatenciesKept DEF Round2Unknown
<1>16. CASE PrintCounts
  BY <1>16, LatenciesKept DEF PrintCounts
<1>17. CASE Terminated
  BY <1>17, LatenciesKept DEF Terminated, vars
<1> QED BY <1>1, <1>2, <1>3, <1>4, <1>5, <1>6, <1>8, <1>9, <1>10, <1>11, <1>12, <1>13, <1>14, <1>15,
           <1>16, <1>17 DEF Next, Main

\* The types of a namespace.
LEMMA NamespaceFields ==
    ASSUME NEW n \in Namespaces
    PROVE  /\ n.zoned \in BOOLEAN /\ n.ncap \in Nat /\ n.zones \in Nat
           /\ n.max_transfer \in Nat /\ n.zone_size \in Nat /\ n.zone_size > 0
<1>1. n \in [zoned : BOOLEAN, ncap : Nat, max_transfer : Nat \ {0}, zone_size : Nat \ {0}, zones : Nat]
  BY AnalyzerAssumption
<1>2. n.zone_size \in Nat \ {0} /\ n.max_transfer \in Nat \ {0}
  BY <1>1
<1> QED BY <1>1, <1>2

\* The numbers of the blocks and of the zone of a command.
LEMMA BlockNumbers ==
    ASSUME Typed, Cursor, InBuffer
    PROVE  /\ zidx \in Nat
           /\ \A b \in Blocks : b \in Nat /\ b <= d.slba + d.nlb
<1>1. d.slba \in Nat /\ d.nlb \in Nat
  BY Here
<1>2. ns.zone_size \in Nat /\ ns.zone_size > 0
  BY NamespaceFields DEF Typed
<1>3. zidx \in Nat
  <2>1. \A s, z \in Nat : z > 0 => s \div z \in Nat
    OBVIOUS
  <2> QED BY <1>1, <1>2, <2>1 DEF zidx
<1>4. PICK s \in Nat : s = d.slba
  BY <1>1
<1>5. PICK n \in Nat : n = d.nlb
  BY <1>1
<1>6. PICK r \in Nat : r = (n + 1) % Word16 /\ r <= n + 1
  BY Numbers, ModLess
<1>7. Blocks = s .. s + r - 1
  BY <1>4, <1>5, <1>6 DEF Blocks
<1>8. \A b \in s .. s + r - 1 : b \in Nat /\ b <= s + n
  BY <1>6
<1> QED BY <1>3, <1>4, <1>5, <1>7, <1>8

\* A step that handles no entry keeps the counters of round 2.
LEMMA CountersKept ==
    Counters /\ UNCHANGED <<trace, blk, zone, g_zone>> /\ fault \subseteq fault'
        /\ (pc' \in {"round2", "counts", "done"} =>
               pc \in {"round2", "counts", "done"} /\ pos' = pos)
     => Counters'
BY DEF Counters

\* Every step keeps the counters of round 2 those of the entries before the position.
LEMMA CountersStep ==
    ASSUME Typed, Cursor, Arrays, Counters, Next
    PROVE  Counters'
<1> USE DEF inputVars, cursorVars, sizeVars, latencyVars, round1Vars, round2Vars
<1>1. CASE Start
  BY <1>1, CountersKept DEF Start
<1>2. CASE ReadChunk
  BY <1>2, CountersKept DEF ReadChunk
<1>3. CASE EndOfPass
  BY <1>3, CountersKept DEF EndOfPass, BufferDone, Passes
<1>4. CASE PrintEntry
  BY <1>4, CountersKept DEF PrintEntry
<1>5. CASE Attach
  BY <1>5 DEF Attach, Counters
<1>6. CASE AllocSizes
  BY <1>6 DEF AllocSizes, Counters
<1>7. CASE Round1Submit
  BY <1>7 DEF Round1Submit, Outside, Counters
<1>8. CASE Round1Complete
  BY <1>8 DEF Round1Complete, UndefinedRc, Counters
<1>9. CASE Round1Other
  BY <1>9 DEF Round1Other, UndefinedRc, Counters
<1>10. CASE Average
  BY <1>10 DEF Average, Counters
<1>11. CASE AllocArrays
  <2>1. CASE pc' \in {"failed", "crash"}
    BY <2>1 DEF Counters
  <2>2. CASE blk' = Zeroes(g_ns_block) /\ zone' = Zeroes(g_ns_zone) /\ Rewind
    <3>1. Places(trace', 0, blk', zone')
      BY <2>2, PlacesNone DEF Typed
    <3>2. pos' = 0
      BY <2>2 DEF Rewind
    <3> QED BY <3>1, <3>2 DEF Counters
  <2> QED BY <1>11, <2>1, <2>2 DEF AllocArrays
<1>12. CASE Round2Count
  <2>1. CASE Uncountable
    <3>1. fault' # {}
      BY <1>12, <2>1 DEF Round2Count, Outside
    <3> QED BY <3>1 DEF Counters
  <2>2. CASE ~Uncountable
    <3>1. /\ UNCHANGED <<pc, fault, trace, g_zone>> /\ pc = "round2" /\ InBuffer /\ pos' = pos + 1
          /\ d.tpoint = "NVME_IO_SUBMIT" /\ Counted
      BY <1>12, <2>2 DEF Round2Count, NextEntry
    <3> SUFFICES ASSUME g_zone, Places(trace, pos, blk, zone)
                 PROVE  Places(trace, pos + 1, blk', zone')
      BY <3>1 DEF Counters
    <3>2. PICK m, l \in Nat : /\ blk \in [RW -> [0 .. m - 1 -> 0 .. Word16 - 1]]
                              /\ zone \in [RW -> [0 .. l - 1 -> 0 .. Word16 - 1]]
                              /\ m = g_ns_block /\ l = g_ns_zone
      BY <3>1 DEF Arrays, PlaceArrays
    <3>3. ~(\E b \in Blocks : b >= m) /\ ~(zidx >= l)
      BY <2>2, <3>2 DEF Uncountable
    <3>4. zidx \in Nat /\ \A b \in Blocks : b \in Nat
      BY <3>1, BlockNumbers
    <3>5. PICK x \in 0 .. l - 1 : x = zidx
      BY <3>3, <3>4
    <3>6. PICK B : B = Blocks
      OBVIOUS
    <3>7. B \subseteq 0 .. m - 1
      BY <3>3, <3>4, <3>6
    <3>8. PICK dir \in RW : dir = Direction
      BY <1>12, Counted2 DEF Arrays
    <3>9. /\ trace \in Traces /\ pos \in Nat /\ pos < Len(trace)
          /\ IsMove(trace[pos + 1], dir) /\ B = BlocksOf(trace[pos + 1])
      BY <1>12, <3>1, <3>6, <3>8, Here, Counted2 DEF Arrays, d
    <3>10. Places(trace, pos + 1, [blk EXCEPT ![dir] = Counting(@, B)],
                  [zone EXCEPT ![dir] = Counting(@, {x})])
      BY <3>2, <3>7, <3>9, PlacesAdd
    <3>11. zidx < g_ns_zone
      BY <3>2, <3>5
    <3>12. /\ blk' = [blk EXCEPT ![dir] = Counting(@, B)]
           /\ zone' = [zone EXCEPT ![dir] = Counting(@, {x})]
      BY <1>12, <3>5, <3>6, <3>8, <3>11, Counted2 DEF Arrays
    <3> QED BY <3>10, <3>12
  <2> QED BY <2>1, <2>2
<1>13. CASE Round2Pass
  <2>1. /\ UNCHANGED <<trace, g_zone, blk, zone, fault>> /\ pc = "round2" /\ InBuffer
        /\ pos' = pos + 1 /\ pc' \in {"round2", "failed"}
        /\ ~(d.tpoint = "NVME_IO_SUBMIT" /\ Counted)
    BY <1>13 DEF Round2Pass, UndefinedRc, NextEntry
  <2>2. trace \in Traces /\ pos \in Nat /\ pos < Len(trace) /\ \A rw \in RW : ~IsMove(d, rw)
    BY <2>1, Here
  <2>3. ASSUME Places(trace, pos, blk, zone) PROVE Places(trace, pos + 1, blk, zone)
    BY <2>2, <2>3, PlacesSame DEF d
  <2> QED BY <2>1, <2>3 DEF Counters
<1>14. CASE Round2Unknown
  BY <1>14 DEF Round2Unknown, Counters
<1>15. CASE PrintCounts
  BY <1>15, CountersKept DEF PrintCounts
<1>16. CASE Terminated
  BY <1>16, CountersKept DEF Terminated, vars
<1> QED BY <1>1, <1>2, <1>3, <1>4, <1>5, <1>6, <1>7, <1>8, <1>9, <1>10, <1>11, <1>12, <1>13, <1>14,
           <1>15, <1>16 DEF Next, Main

\* An increment behind an array needs a command that does not fit.
LEMMA InArraysKept ==
    ASSUME InArrays, UNCHANGED <<trace, ns>>, "outside" \in fault' => "outside" \in fault
    PROVE  InArrays'
BY DEF InArrays, Submissions, Fits

\* The command that just went outside an array is one of the trace that does not fit.
LEMMA InArraysNow ==
    ASSUME UNCHANGED <<trace, ns>>, Typed, Cursor, InBuffer, d.tpoint = "NVME_IO_SUBMIT",
           ns.zoned => ~Fits(d)
    PROVE  InArrays'
<1>1. pos + 1 \in 1 .. Len(trace)
  BY Here
<1>2. pos + 1 \in Submissions(Len(trace)) /\ d = trace[pos + 1]
  BY <1>1 DEF Submissions, d
<1>3. ns.zoned => \E k \in Submissions(Len(trace)) : ~Fits(trace[k])
  BY <1>2
<1>4. Submissions(Len(trace))' = Submissions(Len(trace))
  BY DEF Submissions
<1> QED BY <1>3, <1>4 DEF InArrays, Fits

\* Every access outside an array is that of a command of the trace that does not fit.
LEMMA InArraysStep ==
    ASSUME Typed, Cursor, Found, InArrays, Next
    PROVE  InArrays'
<1> USE DEF inputVars, cursorVars, sizeVars, latencyVars, round1Vars, round2Vars
<1>1. CASE Start
  BY <1>1, InArraysKept DEF Start
<1>2. CASE ReadChunk
  BY <1>2, InArraysKept DEF ReadChunk
<1>3. CASE EndOfPass
  BY <1>3, InArraysKept DEF EndOfPass
<1>4. CASE PrintEntry
  BY <1>4, InArraysKept DEF PrintEntry
<1>5. CASE Attach
  BY <1>5, InArraysKept DEF Attach
<1>6. CASE AllocSizes
  BY <1>6, InArraysKept DEF AllocSizes
<1>7. CASE Round1Submit
  <2>1. CASE fault' = fault
    BY <1>7, <2>1, InArraysKept DEF Round1Submit
  <2>2. CASE Counted /\ d.nlb >= g_max_transfer_block
    <3>1. /\ UNCHANGED <<trace, ns>> /\ InBuffer /\ d.tpoint = "NVME_IO_SUBMIT" /\ pc = "round1"
      BY <1>7 DEF Round1Submit
    <3>2. ASSUME ns.zoned PROVE ~Fits(d)
      <4>1. g_max_transfer_block = ns.max_transfer /\ ns.max_transfer \in Nat /\ d.nlb \in Nat
        BY <3>1, <3>2, Here, NamespaceFields DEF Found, Typed
      <4>2. ~(d.nlb < ns.max_transfer) /\ d.opc \in Reads \cup Writes
        BY <2>2, <4>1 DEF Counted
      <4> QED BY <4>2 DEF Fits
    <3> QED BY <3>1, <3>2, InArraysNow
  <2> QED BY <1>7, <2>1, <2>2 DEF Round1Submit
<1>8. CASE Round1Complete
  BY <1>8, InArraysKept DEF Round1Complete, latency_total
<1>9. CASE Round1Other
  BY <1>9, InArraysKept DEF Round1Other
<1>10. CASE Average
  BY <1>10, InArraysKept DEF Average
<1>11. CASE AllocArrays
  BY <1>11, InArraysKept DEF AllocArrays
<1>12. CASE Round2Count
  <2>1. CASE ~Uncountable
    BY <1>12, <2>1, InArraysKept DEF Round2Count
  <2>2. CASE Uncountable
    <3>1. /\ UNCHANGED <<trace, ns>> /\ InBuffer /\ d.tpoint = "NVME_IO_SUBMIT" /\ Counted
          /\ pc = "round2"
      BY <1>12 DEF Round2Count
    <3>2. ASSUME ns.zoned PROVE ~Fits(d)
      <4>1. /\ g_ns_block = ns.ncap /\ g_ns_zone = ns.zones /\ ns.ncap \in Nat /\ ns.zones \in Nat
            /\ d.opc \in Reads \cup Writes /\ d.slba \in Nat /\ d.nlb \in Nat
        BY <3>1, <3>2, Here, NamespaceFields DEF Found, Typed, Counted
      <4>2. zidx \in Nat /\ \A b \in Blocks : b \in Nat /\ b <= d.slba + d.nlb
        BY <3>1, BlockNumbers
      <4>3. CASE \E b \in Blocks : b >= g_ns_block
        <5>1. PICK b \in Blocks : b >= ns.ncap /\ b \in Nat /\ b <= d.slba + d.nlb
          BY <4>1, <4>2, <4>3
        <5>2. ~(d.slba + d.nlb < ns.ncap)
          BY <4>1, <5>1
        <5> QED BY <4>1, <5>2 DEF Fits
      <4>4. CASE zidx >= g_ns_zone
        <5>1. ~(zidx < ns.zones)
          BY <4>1, <4>2, <4>4
        <5> QED BY <4>1, <5>1 DEF Fits, zidx
      <4> QED BY <2>2, <4>3, <4>4 DEF Uncountable
    <3> QED BY <3>1, <3>2, InArraysNow
  <2> QED BY <2>1, <2>2
<1>13. CASE Round2Pass
  BY <1>13, InArraysKept DEF Round2Pass
<1>14. CASE Round2Unknown
  BY <1>14, InArraysKept DEF Round2Unknown
<1>15. CASE PrintCounts
  BY <1>15, InArraysKept DEF PrintCounts
<1>16. CASE Terminated
  BY <1>16, InArraysKept DEF Terminated, vars
<1> QED BY <1>1, <1>2, <1>3, <1>4, <1>5, <1>6, <1>7, <1>8, <1>9, <1>10, <1>11, <1>12, <1>13, <1>14,
           <1>15, <1>16 DEF Next, Main

\* The average of the service times of all completions, when it is taken.
LEMMA AverageNow ==
    ASSUME Typed, Cursor, Fresh, Latencies, Average, fault = {}, Balanced(trace),
           2 * g_latency_tsc_max <= UINT64_MAX
    PROVE  Between(g_latency_tsc_avg', g_latency_tsc_min, g_latency_tsc_max)
<1> USE DEF inputVars, cursorVars, sizeVars, latencyVars, round1Vars, round2Vars
<1>1. /\ trace \in Traces /\ pos = Len(trace) /\ pos \in Nat /\ latency \in Seq(0 .. UINT64_MAX)
      /\ pc = "average"
  BY AtEnd DEF Average, Typed
<1>2. /\ Extremes(trace, pos, g_latency_tsc_min, g_latency_tsc_max)
      /\ PartialSums(trace, pos, latency, fault)
  BY <1>1 DEF Latencies, Round1
<1> DEFINE S == Comps(trace, pos)
<1>3. IsFiniteSet(S) /\ S \subseteq 1 .. Len(trace) /\ SumOver(Times(trace), S) \in Nat
  <2>1. "r" \in RW /\ pos <= Len(trace)
    BY <1>1, Directions
  <2>2. /\ IsFiniteSet(Comps(trace, pos)) /\ Comps(trace, pos) \subseteq 1 .. pos
        /\ SumOver(Times(trace), Comps(trace, pos)) \in Nat
    BY ONLY <1>1, <2>1, Few
  <2> QED BY <1>1, <2>2
<1>4. PICK n \in Nat : n = Cardinality(S)
  BY <1>3, FS_CardinalityType
<1>5. Len(trace) = 2 * n /\ g_req_num = n
  <2>1. Len(trace) = 2 * n
    BY <1>1, <1>4 DEF Balanced
  <2>2. (2 * n) \div 2 = n
    OBVIOUS
  <2> QED BY <2>1, <2>2 DEF g_req_num
<1>6. PICK sum \in Nat : sum = SumOver(Times(trace), S) /\ sum < UINT64_MAX
  BY <1>1, <1>3 DEF Balanced
<1>7. PICK low \in Nat : low = g_latency_tsc_min
  BY MinMaxNat
<1>8. PICK high \in Nat : high = g_latency_tsc_max
  BY MinMaxNat
<1>9. CASE n = 0
  <2>1. S = {}
    BY <1>3, <1>4, <1>9, FS_EmptySet
  <2>2. g_latency_tsc_min = 0 /\ g_latency_tsc_max = 0
    BY <1>2, <2>1 DEF Extremes
  <2>3. g_latency_tsc_avg' = 0
    BY <1>1, <1>5, <1>9 DEF Average, Fresh
  <2> QED BY <2>2, <2>3, BetweenZero
<1>10. CASE n > 0
  <2>1. S # {}
    BY <1>3, <1>4, <1>10, FS_EmptySet
  <2>2. latency # <<>> /\ Len(latency) = 1 /\ latency[1] = sum
    <3>1. latency # <<>> /\ Len(latency) <= 1 /\ (Len(latency) = 1 => latency[1] = sum)
      BY <1>2, <1>6, <2>1 DEF PartialSums
    <3>2. Len(latency) >= 1 /\ Len(latency) \in Nat
      BY <1>1, <3>1, Ending
    <3>3. PICK l \in Nat : l = Len(latency)
      BY <3>2
    <3>4. l = 1
      BY ONLY <3>1, <3>2, <3>3, l \in Nat
    <3> QED BY <3>1, <3>3, <3>4
  <2>3. Averages = AddQuotient(0, sum)
    BY <1>1, <2>2, OneSum DEF Fresh
  <2>4. PICK average : average = Averages
    OBVIOUS
  <2>5. g_latency_tsc_avg' \in IF average \in 0 .. UINT64_MAX THEN {average} ELSE 0 .. UINT64_MAX
    <3>1. ~(g_req_num = 0 \/ latency = <<>>)
      BY <1>5, <1>10, <2>2
    <3> QED BY ONLY <2>4, <3>1, Average DEF Average
  <2>6. \A k \in S : Times(trace)[k] \in low .. high
    <3> SUFFICES ASSUME NEW k \in S PROVE Times(trace)[k] \in low .. high
      OBVIOUS
    <3>1. Times(trace)[k] = trace[k].tsc_sc_time /\ Times(trace)[k] \in Nat
      BY <1>1, <1>3, Entry
    <3>2. \A j \in S : trace[j].tsc_sc_time # 0
      BY <1>1 DEF Balanced
    <3>3. trace[k].tsc_sc_time <= high /\ trace[k].tsc_sc_time >= low
      BY <1>2, <1>7, <1>8, <3>2 DEF Extremes
    <3> QED BY <3>1, <3>3
  <2>7. sum >= n * low /\ sum <= n * high
    <3> HIDE DEF S
    <3> QED BY <1>3, <1>4, <1>6, <2>6, SumBounded
  <2>8. low >= 1
    <3>1. \A k \in S : trace[k].tsc_sc_time # 0
      BY <1>1 DEF Balanced
    <3>2. \E k \in S : trace[k].tsc_sc_time = g_latency_tsc_min
      BY <1>2, <2>1, <3>1 DEF Extremes
    <3> QED BY <1>7, <3>1, <3>2
  <2>9. average \in Nat /\ Between(average, low, high) /\ average <= 2 * high
    <3>1. n = g_req_num /\ n * low <= sum /\ sum <= n * high
      BY <1>5, <2>7
    <3>2. \E avg \in Nat : /\ AddQuotient(0, sum) = avg /\ Between(avg, low, high)
                            /\ avg <= 2 * high
      BY ONLY <1>10, <2>8, <3>1, QuotientBetween, n \in Nat, sum \in Nat, low \in Nat, high \in Nat
    <3> QED BY ONLY <2>3, <2>4, <3>2
  <2>10. UINT64_MAX \in Nat /\ 2 * high <= UINT64_MAX
    BY <1>8, AnalyzerAssumption
  <2>11. average \in 0 .. UINT64_MAX
    BY <2>9, <2>10
  <2> QED BY <1>7, <1>8, <2>5, <2>9, <2>11
<1> QED BY <1>9, <1>10

\* Every step keeps the average between the extremes.
LEMMA AverageStep ==
    ASSUME Typed, Cursor, Fresh, Latencies, Averaged, Next
    PROVE  Averaged'
<1> USE DEF inputVars, cursorVars, sizeVars, latencyVars, round1Vars, round2Vars
<1>1. CASE Average
  <2>1. UNCHANGED <<trace, pos, fault, g_latency_tsc_min, g_latency_tsc_max>>
    BY <1>1 DEF Average
  <2> QED BY <1>1, <2>1, AverageNow DEF Averaged
<1>2. CASE Terminated
  BY <1>2 DEF Terminated, vars, Averaged
<1>3. CASE Main /\ ~Average
  <2>1. ASSUME pc' = "arrays" PROVE FALSE
    BY <1>3, <2>1 DEF Main, Start, ReadChunk, EndOfPass, BufferDone, Passes, PrintEntry, Attach,
       AllocSizes, Round1Submit, Outside, Round1Complete, Round1Other, UndefinedRc, AllocArrays,
       Round2Count, Round2Pass, Round2Unknown, PrintCounts
  <2> QED BY <2>1 DEF Averaged
<1> QED BY <1>1, <1>2, <1>3 DEF Next
-----------------------------------------------------------------------------
(* The theorems.                                                           *)

\* The inductive invariant holds before main runs.
LEMMA InitInv == Init => IInv
<1> SUFFICES ASSUME Init PROVE IInv
  OBVIOUS
<1>1. Typed
  <2>1. rw_cnt \in [RW -> Nat] /\ latency \in Seq(0 .. UINT64_MAX)
    BY DEF Init
  <2>2. 0 \in 0 .. UINT64_MAX /\ 0 <= ENTRY_MAX
    BY Numbers
  <2>3. /\ trace \in Traces /\ ns \in Namespaces /\ g_print_trace \in BOOLEAN
        /\ pc \in Stages /\ file \in {"none", "open", "closed"} /\ eof \in BOOLEAN
        /\ g_zone \in BOOLEAN
    BY DEF Init, Stages
  <2>4. /\ {remain_entry, read_entry, i, pos} \subseteq Nat
        /\ i <= read_entry
        /\ g_ns_block \in Nat /\ g_ns_zone \in Nat /\ g_max_transfer_block \in Nat
    BY DEF Init
  <2>5. read_entry <= ENTRY_MAX
    BY <2>2 DEF Init
  <2>6. /\ g_end_tsc \in 0 .. UINT64_MAX
        /\ g_latency_tsc_min \in 0 .. UINT64_MAX /\ g_latency_tsc_max \in 0 .. UINT64_MAX
        /\ g_latency_tsc_avg \in 0 .. UINT64_MAX
    BY <2>2 DEF Init
  <2>7. /\ heap \subseteq {"iosize", "blk", "zone"}
        /\ fault \subseteq {"short read", "outside", "no memory"}
    BY DEF Init
  <2> QED BY <2>1, <2>3, <2>4, <2>5, <2>6, <2>7 DEF Typed
<1>2. Arrays
  <2>1. 0 \in Nat
    OBVIOUS
  <2> QED BY <2>1, ZeroesType DEF Init, Arrays, SizeArrays, PlaceArrays
<1>3. Cursor
  <2>1. Len(trace) \in Nat
    BY Entry DEF Init
  <2>2. 0 + (0 - 0) + 0 <= Len(trace)
    BY <2>1
  <2> QED BY <2>2 DEF Init, Cursor
<1>4. Found /\ Fresh
  BY DEF Init, Found, Fresh
<1>5. Sizes /\ Latencies /\ Counters /\ InArrays /\ Averaged
  BY DEF Init, Sizes, Latencies, Counters, InArrays, Averaged, Round1
<1> QED BY <1>1, <1>2, <1>3, <1>4, <1>5 DEF IInv

\* The inductive invariant: the positions account for every entry of the trace,
\* and at each of them the counts and sums of the pass are those of the entries
\* before it.
THEOREM Invariance == Spec => []IInv
<1>1. IInv /\ Next => IInv'
  BY TypedStep, ArraysStep, CursorStep, FoundStep, FreshStep, SizesStep, LatenciesStep, CountersStep,
     InArraysStep, AverageStep DEF IInv
<1>2. IInv /\ UNCHANGED vars => IInv'
  <2> SUFFICES ASSUME IInv, UNCHANGED vars PROVE IInv'
    OBVIOUS
  <2> USE DEF inputVars, cursorVars, sizeVars, latencyVars, round1Vars, round2Vars, vars
  <2>1. /\ Typed'
        /\ Arrays'
        /\ Cursor'
        /\ Found' /\ Fresh'
    <3>1. Typed /\ Arrays /\ Cursor /\ Found /\ Fresh
      BY DEF IInv
    <3>2. Typed'
      BY <3>1 DEF Typed
    <3>3. Arrays'
      BY <3>1 DEF Arrays, SizeArrays, PlaceArrays
    <3>4. Cursor'
      BY <3>1 DEF Cursor
    <3>5. Found' /\ Fresh'
      BY <3>1 DEF Found, Fresh
    <3> QED BY <3>2, <3>3, <3>4, <3>5
  <2>2. Sizes' /\ Counters' /\ Averaged' /\ InArrays'
    BY InArraysKept DEF IInv, Sizes, Round1, Counters, Averaged
  <2>3. Latencies'
    BY LatenciesKept DEF IInv
  <2> QED BY <2>1, <2>2, <2>3 DEF IInv
<1> QED BY InitInv, <1>1, <1>2, PTL DEF Spec

\* Every variable keeps its type; in particular the counters of round 2 keep to
\* their width and the remainder of the file is never larger than the file.
THEOREM TypeCorrect == Spec => []TypeOK
<1>1. IInv => TypeOK
  <2> SUFFICES ASSUME IInv PROVE TypeOK
    OBVIOUS
  <2>1. Typed /\ Arrays /\ Cursor
    BY DEF IInv
  <2>2. trace \in Seq(Entries) /\ Len(trace) \in Nat
    BY <2>1, Entry DEF Typed
  <2>3. /\ remain_entry \in Nat /\ read_entry \in Nat /\ i \in Nat /\ pos \in Nat
        /\ read_entry <= ENTRY_MAX /\ i <= read_entry
        /\ pos + (read_entry - i) + remain_entry <= Len(trace)
    BY <2>1 DEF Typed, Cursor
  <2>4. /\ remain_entry \in 0 .. Len(trace) /\ pos \in 0 .. Len(trace)
        /\ read_entry \in 0 .. ENTRY_MAX /\ i \in 0 .. read_entry
    BY <2>2, <2>3, Numbers
  <2>5. \A rw \in RW :
           /\ iosize[rw] \in [DOMAIN iosize[rw] -> Nat]
           /\ blk[rw] \in [DOMAIN blk[rw] -> 0 .. Word16 - 1]
           /\ zone[rw] \in [DOMAIN zone[rw] -> 0 .. Word16 - 1]
    BY <2>1 DEF Arrays, SizeArrays, PlaceArrays
  <2> QED BY <2>1, <2>2, <2>4, <2>5 DEF TypeOK, Typed, Stages
<1> QED BY Invariance, <1>1, PTL

\* While the position is that of round 1 the histogram of request sizes and the
\* numbers of reads and writes are those of the entries read, in however many
\* chunks, unless an increment fell outside its array.
THEOREM SizesCorrect == Spec => []SizesExact
<1>1. IInv => SizesExact
  <2>1. \A rw \in RW : Moved(pos, rw) = Moves(trace, pos, rw)
    BY DEF Moved, Submissions, Moves
  <2> QED BY <2>1 DEF IInv, Sizes, SizesExact, Histogram, CountedBy
<1> QED BY Invariance, <1>1, PTL

\* Minimum, maximum and sum of the service times are those of the completions
\* read.
THEOREM LatencyCorrect == Spec => []LatencyExact
<1>1. IInv => LatencyExact
  <2> SUFFICES ASSUME IInv, Round1, Completions(pos) # {} PROVE LatencyExact
    BY DEF LatencyExact
  <2>1. Completions(pos) = Comps(trace, pos)
    BY DEF Completions, Comps
  <2>2. Extremes(trace, pos, g_latency_tsc_min, g_latency_tsc_max)
    BY DEF IInv, Latencies
  <2>3. "no memory" \notin fault /\ Len(latency) = 1 => latency[1] = TimeSum(pos)
    <3>1. Typed /\ Cursor /\ Latencies
      BY DEF IInv
    <3>2. trace \in Traces /\ pos \in Nat /\ pos <= Len(trace)
      <4>1. trace \in Traces /\ pos \in Nat /\ pos \in 0 .. Len(trace)
        BY <3>1, Reached DEF Typed
      <4>2. Len(trace) \in Nat
        BY <4>1, Entry
      <4> QED BY <4>1, <4>2
    <3>3. TimeSum(pos) = SumOver(Times(trace), Comps(trace, pos))
      BY <3>2, TimeSumIs
    <3> QED BY <3>1, <3>3 DEF Latencies, Round1, PartialSums
  <2> QED BY <2>1, <2>2, <2>3 DEF LatencyExact, Extremes, Time
<1> QED BY Invariance, <1>1, PTL

\* The average of a trace in which every submission has its completion lies
\* between minimum and maximum, up to the rounding to float, if no service time is
\* 0, nothing failed and the sum fits in 64 bits.
THEOREM AverageCorrect == Spec => []AverageBetween
<1>1. IInv => AverageBetween
  <2> SUFFICES ASSUME IInv, pc = "arrays", fault = {}, TimeSum(Len(trace)) < UINT64_MAX,
                      2 * g_latency_tsc_max <= UINT64_MAX,
                      Cardinality(Submissions(Len(trace))) = Cardinality(Completions(Len(trace))),
                      Len(trace) = 2 * Cardinality(Submissions(Len(trace))),
                      \A k \in Completions(pos) : Time(k) # 0
               PROVE  Between(g_latency_tsc_avg, g_latency_tsc_min, g_latency_tsc_max)
    BY DEF AverageBetween, Between
  <2>1. Typed /\ Cursor /\ Averaged
    BY DEF IInv
  <2>2. pos = Len(trace) /\ trace \in Traces /\ Len(trace) \in Nat /\ Len(trace) <= Len(trace)
    BY <2>1, AtEnd, Entry DEF Typed
  <2>3. Completions(Len(trace)) = Comps(trace, Len(trace))
    BY DEF Completions, Comps
  <2>4. TimeSum(Len(trace)) = SumOver(Times(trace), Comps(trace, Len(trace)))
    BY <2>2, TimeSumIs
  <2>5. Balanced(trace)
    BY <2>2, <2>3, <2>4 DEF Balanced, Time
  <2> QED BY <2>1, <2>5 DEF Averaged
<1> QED BY Invariance, <1>1, PTL

\* On a zoned namespace no count falls outside its array, for a trace recorded on
\* a namespace of that size.
THEOREM InArraysAlways == Spec => []InArrays
<1>1. IInv => InArrays
  BY DEF IInv
<1> QED BY Invariance, <1>1, PTL

\* The counts of the two rounds describe the same commands, up to the width of
\* the counters.
THEOREM RoundsCorrect == Spec => []RoundsAgree
<1>1. IInv => RoundsAgree
  <2> SUFFICES ASSUME IInv, pc \in {"counts", "done"}, g_zone, fault = {}, NEW rw \in RW
               PROVE  /\ Total(zone[rw], LAMBDA n : 1) % Word16 = Total(iosize[rw], LAMBDA n : 1) % Word16
                      /\ Total(blk[rw], LAMBDA n : 1) % Word16 =
                            Total(iosize[rw], LAMBDA n : n + 1) % Word16
    BY DEF RoundsAgree
  <2>1. Typed /\ Cursor /\ Arrays /\ Sizes /\ Counters
    BY DEF IInv
  <2>2. pos = Len(trace)
    BY <2>1, AtEnd
  <2>3. Histogram(trace, Len(trace), rw_cnt, iosize) /\ Places(trace, Len(trace), blk, zone)
    BY <2>1, <2>2 DEF Sizes, Counters
  <2>4. PICK m \in Nat : iosize[rw] \in [0 .. m - 1 -> Nat]
    BY <2>1 DEF Arrays, SizeArrays
  <2>5. PICK b \in Nat, z \in Nat : blk[rw] \in [0 .. b - 1 -> Nat] /\ zone[rw] \in [0 .. z - 1 -> Nat]
    <3>1. PICK b \in Nat, z \in Nat : /\ blk[rw] \in [0 .. b - 1 -> 0 .. Word16 - 1]
                                      /\ zone[rw] \in [0 .. z - 1 -> 0 .. Word16 - 1]
      BY <2>1 DEF Arrays, PlaceArrays
    <3>2. 0 .. Word16 - 1 \subseteq Nat
      BY Numbers
    <3> QED BY <3>1, <3>2
  <2>6. PICK f \in [0 .. m - 1 -> Nat] : f = iosize[rw]
    BY <2>4
  <2>7. PICK g \in [0 .. b - 1 -> Nat] : g = blk[rw]
    BY <2>5
  <2>8. PICK h \in [0 .. z - 1 -> Nat] : h = zone[rw]
    BY <2>5
  <2>9. /\ Total(f, LAMBDA n : 1) = SumOver(f, DOMAIN f)
        /\ Total(f, LAMBDA n : n + 1) = SumOver(Weighted(f), DOMAIN f)
    BY TotalIs, TotalWeightedIs
  <2>10. Total(g, LAMBDA n : 1) = SumOver(g, DOMAIN g)
    BY TotalIs
  <2>11. Total(h, LAMBDA n : 1) = SumOver(h, DOMAIN h)
    BY TotalIs
  <2>12. CountedBy(Moves(trace, Len(trace), rw), trace, rw_cnt[rw], f)
    BY <2>3, <2>6 DEF Histogram
  <2>13. PlacedBy(Moves(trace, Len(trace), rw), trace, g, h)
    BY <2>3, <2>7, <2>8 DEF Places
  <2>14. /\ SumOver(h, DOMAIN h) % Word16 = SumOver(f, DOMAIN f) % Word16
         /\ SumOver(g, DOMAIN g) % Word16 = SumOver(Weighted(f), DOMAIN f) % Word16
    BY <2>12, <2>13 DEF CountedBy, PlacedBy
  <2>15. Total(h, LAMBDA n : 1) % Word16 = Total(f, LAMBDA n : 1) % Word16
    BY <2>9, <2>11, <2>14
  <2>16. Total(g, LAMBDA n : 1) % Word16 = Total(f, LAMBDA n : n + 1) % Word16
    BY <2>9, <2>10, <2>14
  <2> QED BY <2>6, <2>7, <2>8, <2>15, <2>16
<1> QED BY Invariance, <1>1, PTL
-----------------------------------------------------------------------------
(* The arrays and the list.                                                *)

\* Whatever ends the program, but for a crash, it ends with every array freed; and
\* when all passes are done, with the latency list freed, if latency_avg was told of
\* any request: the safety half of Terminates.
EndsReleased ==
    pc \in Final /\ pc # "crash" =>
        heap = {} /\ (pc = "done" /\ Len(trace) >= 2 => latency = <<>>)

\* Between the passes nothing is allocated, and once the average has been taken the
\* list is gone.
Held ==
    /\ pc \notin {"round1", "average", "round2", "counts", "crash"} => heap = {}
    /\ pc \in {"arrays", "round2", "counts", "done"} /\ Len(trace) >= 2 => latency = <<>>

\* Every step keeps it.
LEMMA HeldStep ==
    ASSUME Held, trace \in Seq(Entries), [Next]_vars
    PROVE  Held'
<1>1. CASE Start \/ PrintEntry \/ Attach \/ AllocSizes
  BY <1>1 DEF Start, PrintEntry, Attach, AllocSizes, Held, inputVars, round1Vars, latencyVars
<1>2. CASE ReadChunk
  BY <1>2 DEF ReadChunk, Held, inputVars, round1Vars, latencyVars
<1>3. CASE EndOfPass
  BY <1>3 DEF EndOfPass, BufferDone, Passes, Held, inputVars, round1Vars, latencyVars
<1>4. CASE Round1Submit
  <2>1. pc' \in {"round1", "crash"} \/ (pc' = "failed" /\ heap' = {})
    BY <1>4 DEF Round1Submit, Outside
  <2> QED BY <2>1 DEF Held
<1>5. CASE Round1Complete \/ Round1Other
  <2>1. pc' = "round1" \/ (pc' = "failed" /\ heap' = {})
    BY <1>5 DEF Round1Complete, Round1Other, UndefinedRc
  <2> QED BY <2>1 DEF Held
<1>6. CASE Average
  <2>1. heap' = {} /\ pc' = "arrays" /\ trace' = trace
        /\ \/ (g_req_num = 0 \/ latency = <<>>) /\ latency' = latency
           \/ latency' = <<>>
    BY <1>6 DEF Average, inputVars
  <2>2. Len(trace) >= 2 => g_req_num # 0
    <3>1. PICK n \in Nat : n = Len(trace)
      OBVIOUS
    <3>2. n >= 2 => n \div 2 # 0
      OBVIOUS
    <3> QED BY <3>1, <3>2 DEF g_req_num
  <2> QED BY <2>1, <2>2 DEF Held
<1>7. CASE AllocArrays
  BY <1>7 DEF AllocArrays, Held, inputVars, round1Vars, latencyVars
<1>8. CASE Round2Count
  <2>1. pc = "round2" /\ pc' \in {"round2", "crash"} /\ latency' = latency /\ trace' = trace
    BY <1>8 DEF Round2Count, Outside, inputVars, round1Vars, latencyVars
  <2> QED BY <2>1 DEF Held
<1>9. CASE Round2Pass \/ Round2Unknown
  <2>1. /\ pc = "round2" /\ latency' = latency /\ trace' = trace
        /\ pc' = "round2" \/ (pc' = "failed" /\ heap' = {})
    BY <1>9 DEF Round2Pass, Round2Unknown, UndefinedRc, inputVars, round1Vars, latencyVars
  <2> QED BY <2>1 DEF Held
<1>10. CASE PrintCounts
  BY <1>10 DEF PrintCounts, Held, inputVars, round1Vars, latencyVars
<1>11. CASE UNCHANGED vars
  BY <1>11 DEF Held, vars, inputVars, round1Vars, latencyVars
<1> QED BY <1>1, <1>2, <1>3, <1>4, <1>5, <1>6, <1>7, <1>8, <1>9, <1>10, <1>11
        DEF Next, Main, Terminated

\* No way out of the analyzer leaks an array, and no complete run the latency list, for
\* any trace of a request or more.
THEOREM ReleasedAtEnd == Spec => []EndsReleased
<1>1. Init => Held
  BY DEF Init, Held
<1>2. IInv => trace \in Seq(Entries)
  BY AnalyzerAssumption DEF IInv, Typed
<1>3. IInv /\ Held /\ [Next]_vars => Held'
  BY <1>2, HeldStep
<1>4. Held => EndsReleased
  BY DEF Held, EndsReleased, Final
<1> QED BY <1>1, <1>3, <1>4, Invariance, PTL DEF Spec
-----------------------------------------------------------------------------
(* The passes end.                                                         *)

\* The stages of main() in their order, ...
Rank == [start |-> 9, print |-> 8, attach |-> 7, sizes |-> 6, round1 |-> 5, average |-> 4,
         arrays |-> 3, round2 |-> 2, counts |-> 1, done |-> 0, failed |-> 0, crash |-> 0]

\* ... what is left of a pass: the entries in the buffer, and those not yet read twice,
\* once for the read,
LeftOfPass == IF pc \in Passes THEN 2 * remain_entry + (read_entry - i) ELSE 0

\* ... and the length of the passes to come.
Twice == 2 * Len(trace)
PassesToCome ==
    (IF pc = "start" THEN Twice ELSE 0)
    + (IF pc \in {"start", "print", "attach", "sizes"} THEN Twice ELSE 0)
    + (IF pc \in {"start", "print", "attach", "sizes", "round1", "average", "arrays"}
       THEN Twice ELSE 0)

Variant == PassesToCome + LeftOfPass + Rank[pc]

\* Every stage has its rank.
LEMMA Ranked == TypeOK => Rank[pc] \in 0 .. 9 /\ (pc \notin Final => Rank[pc] > 0)
<1>1. TypeOK => pc \in Stages
  BY DEF TypeOK, Stages
<1>2. ASSUME NEW p \in Stages PROVE Rank[p] \in 0 .. 9 /\ (p \notin Final => Rank[p] > 0)
  BY DEF Stages, Rank, Passes, Final
<1> QED BY <1>1, <1>2

\* Every step of main() is a step towards its end: Variant falls, whatever the file, the
\* chunk and the reads that come short.  The program waits for nobody, so this is what
\* Terminates rests on, for every instance.
THEOREM StepsRunOut == Spec => [](Variant \in Nat) /\ [][Variant' < Variant]_vars
<1>1. ASSUME TypeOK
      PROVE  /\ Variant \in Nat /\ Twice \in Nat /\ PassesToCome \in Nat /\ LeftOfPass \in Nat
             /\ Rank[pc] \in 0 .. 9
             /\ remain_entry \in Nat /\ remain_entry <= Len(trace) /\ Len(trace) \in Nat
             /\ read_entry \in Nat /\ i \in 0 .. read_entry
  <2>1. /\ remain_entry \in Nat /\ remain_entry <= Len(trace) /\ Len(trace) \in Nat
        /\ read_entry \in Nat /\ i \in 0 .. read_entry
    <3>1. /\ trace \in Seq(Entries) /\ remain_entry \in 0 .. Len(trace)
          /\ read_entry \in 0 .. ENTRY_MAX /\ i \in 0 .. read_entry
      BY <1>1 DEF TypeOK
    <3>2. Len(trace) \in Nat
      BY <3>1
    <3> QED BY <3>1, <3>2, Numbers
  <2>2. Rank[pc] \in 0 .. 9
    BY <1>1, Ranked
  <2>3. LeftOfPass \in Nat
    BY <2>1 DEF LeftOfPass
  <2>4. Twice \in Nat
    BY <2>1 DEF Twice
  <2>5. PassesToCome \in Nat
    BY <2>4 DEF PassesToCome
  <2> QED BY <2>1, <2>2, <2>3, <2>4, <2>5 DEF Variant
<1>2. ASSUME TypeOK, [Next]_vars, vars' # vars PROVE Variant' < Variant
  <2>1. /\ Twice \in Nat /\ PassesToCome \in Nat /\ LeftOfPass \in Nat /\ Rank[pc] \in 0 .. 9
        /\ remain_entry \in Nat /\ remain_entry <= Len(trace) /\ Len(trace) \in Nat
        /\ read_entry \in Nat /\ i \in 0 .. read_entry /\ ENTRY_MAX \in Nat \ {0}
    BY <1>1, <1>2, AnalyzerAssumption
  <2>2. UNCHANGED trace => Twice' = Twice
    BY DEF Twice
  <2>3. ASSUME Twice' = Twice, PassesToCome' = PassesToCome, LeftOfPass' \in Nat,
               LeftOfPass' < LeftOfPass, pc' = pc
        PROVE  Variant' < Variant
    BY <2>1, <2>3 DEF Variant
  <2>4. ASSUME PassesToCome' \in Nat, LeftOfPass' \in Nat, Rank[pc]' \in 0 .. 9,
               PassesToCome' + LeftOfPass' <= PassesToCome + LeftOfPass, Rank[pc]' < Rank[pc]
        PROVE  Variant' < Variant
    <3>1. PICK p, q, r, k, l, m :
              /\ p = PassesToCome /\ q = LeftOfPass /\ r = Rank[pc]
              /\ k = PassesToCome' /\ l = LeftOfPass' /\ m = Rank[pc]'
      OBVIOUS
    <3>2. /\ p \in Nat /\ q \in Nat /\ r \in 0 .. 9 /\ k \in Nat /\ l \in Nat /\ m \in 0 .. 9
          /\ k + l <= p + q /\ m < r
      BY <2>1, <2>4, <3>1
    <3>3. k + l + m < p + q + r
      BY ONLY <3>2
    <3> QED BY <3>1, <3>3 DEF Variant
  <2>5. ASSUME pc' \in Final, pc \notin Final PROVE Variant' < Variant
    <3>1. PassesToCome' = 0 /\ LeftOfPass' = 0 /\ Rank[pc]' = 0
      BY <2>5 DEF PassesToCome, LeftOfPass, Rank, Final, Passes
    <3>3. Rank[pc] > 0
      BY <1>2, <2>5, Ranked
    <3> QED BY <2>1, <3>1, <3>3 DEF Variant
  <2>6. CASE Start
    <3>1. pc = "start" /\ pc' \in {"print", "attach", "failed"} /\ UNCHANGED trace
      BY <2>6 DEF Start, inputVars
    <3>2. CASE pc' = "print"
      <4>1. remain_entry' = Len(trace) /\ read_entry' = 0 /\ i' = 0
        BY <2>6, <3>2 DEF Start, Rewind
      <4>2. PassesToCome = 3 * Twice /\ LeftOfPass = 0 /\ PassesToCome' = 2 * Twice
        BY <2>1, <2>2, <3>1, <3>2 DEF PassesToCome, LeftOfPass, Passes
      <4>3. LeftOfPass' = Twice
        BY <2>1, <3>2, <4>1 DEF LeftOfPass, Passes, Twice
      <4>4. Rank[pc] = 9 /\ Rank[pc]' = 8
        BY <3>1, <3>2 DEF Rank
      <4> QED BY <2>1, <2>4, <4>2, <4>3, <4>4
    <3>3. CASE pc' = "attach"
      <4>1. /\ PassesToCome = 3 * Twice /\ LeftOfPass = 0
            /\ PassesToCome' = 2 * Twice /\ LeftOfPass' = 0
        BY <2>1, <2>2, <3>1, <3>3 DEF PassesToCome, LeftOfPass, Passes
      <4>2. Rank[pc] = 9 /\ Rank[pc]' = 7
        BY <3>1, <3>3 DEF Rank
      <4> QED BY <2>1, <2>4, <4>1, <4>2
    <3> QED BY <2>5, <3>1, <3>2, <3>3 DEF Final
  <2>7. CASE ReadChunk
    <3>1. buffer_entry \in Nat \ {0} /\ buffer_entry <= remain_entry
      <4>1. remain_entry > 0
        BY <2>7 DEF ReadChunk
      <4> QED BY <2>1, <4>1 DEF buffer_entry
    <3>2. /\ pc \in Passes /\ i = read_entry /\ pc' = pc /\ UNCHANGED trace
          /\ remain_entry' = remain_entry - buffer_entry /\ i' = 0
          /\ read_entry' \in 0 .. buffer_entry
      <4>1. /\ pc \in Passes /\ i = read_entry /\ pc' = pc /\ UNCHANGED trace
            /\ remain_entry' = remain_entry - buffer_entry /\ i' = 0
            /\ read_entry' = buffer_entry \/ read_entry' \in 0 .. buffer_entry - 1
        BY <2>7 DEF ReadChunk, BufferDone, inputVars
      <4> QED BY <3>1, <4>1
    <3>3. PassesToCome' = PassesToCome /\ Twice' = Twice
      BY <2>2, <3>2 DEF PassesToCome
    <3>4. LeftOfPass' \in Nat /\ LeftOfPass' < LeftOfPass
      <4>1. PICK n, r : n = buffer_entry /\ r = read_entry'
        OBVIOUS
      <4>2. LeftOfPass = 2 * remain_entry /\ LeftOfPass' = 2 * (remain_entry - n) + r
        BY <2>1, <3>2, <4>1 DEF LeftOfPass
      <4>3. n \in Nat \ {0} /\ n <= remain_entry /\ remain_entry \in Nat /\ r \in 0 .. n
        BY <2>1, <3>1, <3>2, <4>1
      <4> QED BY ONLY <4>2, <4>3
    <3> QED BY <2>3, <3>2, <3>3, <3>4
  <2>8. CASE EndOfPass
    <3>1. /\ pc \in Passes /\ UNCHANGED trace
          /\ pc = "print" => pc' = "attach"
          /\ pc = "round1" => pc' = "average"
          /\ pc = "round2" => pc' = "counts"
      BY <2>8 DEF EndOfPass, BufferDone, inputVars
    <3>2. PassesToCome' = PassesToCome /\ LeftOfPass' = 0
      BY <2>2, <3>1 DEF PassesToCome, LeftOfPass, Passes
    <3>3. Rank[pc]' < Rank[pc] /\ Rank[pc]' \in 0 .. 9
      BY <3>1 DEF Rank, Passes
    <3> QED BY <2>1, <2>4, <3>2, <3>3
  <2>9. ASSUME pc \in Passes, InBuffer, NextEntry, UNCHANGED trace, pc' = pc \/ pc' \in Final
        PROVE  Variant' < Variant
    <3>1. CASE pc' = pc
      <4>1. PassesToCome' = PassesToCome /\ Twice' = Twice
        BY <2>2, <2>9, <3>1 DEF PassesToCome
      <4>2. LeftOfPass' \in Nat /\ LeftOfPass' < LeftOfPass
        BY <2>1, <2>9, <3>1 DEF LeftOfPass, NextEntry, InBuffer
      <4> QED BY <2>3, <3>1, <4>1, <4>2
    <3> QED BY <2>5, <2>9, <3>1 DEF Final, Passes
  <2>10. CASE PrintEntry
    BY <2>9, <2>10 DEF PrintEntry, Passes, Final, inputVars
  <2>11. CASE Round1Submit
    BY <2>9, <2>11 DEF Round1Submit, Outside, Passes, Final, inputVars
  <2>12. CASE Round1Complete \/ Round1Other
    BY <2>9, <2>12 DEF Round1Complete, Round1Other, UndefinedRc, Passes, Final, inputVars
  <2>13. CASE Round2Count
    <3>1. UNCHANGED trace /\ pc' \in {pc, "crash"}
      BY <2>13 DEF Round2Count, Outside, inputVars
    <3> QED BY <2>9, <2>13, <3>1 DEF Round2Count, Passes, Final
  <2>14. CASE Round2Pass \/ Round2Unknown
    BY <2>9, <2>14 DEF Round2Pass, Round2Unknown, UndefinedRc, Passes, Final, inputVars
  <2>15. CASE Attach
    <3>1. pc = "attach" /\ pc' \in {"sizes", "crash"} /\ UNCHANGED trace
      BY <2>15 DEF Attach, inputVars
    <3>2. CASE pc' = "sizes"
      <4>1. PassesToCome' = PassesToCome /\ LeftOfPass' = 0
        BY <2>2, <3>1, <3>2 DEF PassesToCome, LeftOfPass, Passes
      <4>2. Rank[pc] = 7 /\ Rank[pc]' = 6
        BY <3>1, <3>2 DEF Rank
      <4> QED BY <2>1, <2>4, <4>1, <4>2
    <3> QED BY <2>5, <3>1, <3>2 DEF Final
  <2>16. CASE AllocSizes
    <3>1. pc = "sizes" /\ pc' \in {"round1", "failed"} /\ UNCHANGED trace
      BY <2>16 DEF AllocSizes, inputVars
    <3>2. CASE pc' = "round1"
      <4>1. remain_entry' = Len(trace) /\ read_entry' = 0 /\ i' = 0
        BY <2>16, <3>2 DEF AllocSizes, Rewind
      <4>2. PassesToCome = 2 * Twice /\ LeftOfPass = 0 /\ PassesToCome' = Twice
        BY <2>1, <2>2, <3>1, <3>2 DEF PassesToCome, LeftOfPass, Passes
      <4>3. LeftOfPass' = Twice
        BY <2>1, <3>2, <4>1 DEF LeftOfPass, Passes, Twice
      <4>4. Rank[pc] = 6 /\ Rank[pc]' = 5
        BY <3>1, <3>2 DEF Rank
      <4> QED BY <2>1, <2>4, <4>2, <4>3, <4>4
    <3> QED BY <2>5, <3>1, <3>2 DEF Final
  <2>17. CASE Average
    <3>1. pc = "average" /\ pc' = "arrays" /\ UNCHANGED trace
      BY <2>17 DEF Average, inputVars
    <3>2. PassesToCome' = PassesToCome /\ LeftOfPass' = 0 /\ Rank[pc] = 4 /\ Rank[pc]' = 3
      BY <2>2, <3>1 DEF PassesToCome, LeftOfPass, Passes, Rank
    <3> QED BY <2>1, <2>4, <3>2
  <2>18. CASE AllocArrays
    <3>1. pc = "arrays" /\ pc' \in {"round2", "failed", "crash"} /\ UNCHANGED trace
      BY <2>18 DEF AllocArrays, inputVars
    <3>2. CASE pc' = "round2"
      <4>1. remain_entry' = Len(trace) /\ read_entry' = 0 /\ i' = 0
        BY <2>18, <3>2 DEF AllocArrays, Rewind
      <4>2. PassesToCome = Twice /\ LeftOfPass = 0 /\ PassesToCome' = 0
        BY <2>1, <2>2, <3>1, <3>2 DEF PassesToCome, LeftOfPass, Passes
      <4>3. LeftOfPass' = Twice
        BY <2>1, <3>2, <4>1 DEF LeftOfPass, Passes, Twice
      <4>4. Rank[pc] = 3 /\ Rank[pc]' = 2
        BY <3>1, <3>2 DEF Rank
      <4> QED BY <2>1, <2>4, <4>2, <4>3, <4>4
    <3> QED BY <2>5, <3>1, <3>2 DEF Final
  <2>19. CASE PrintCounts
    BY <2>5, <2>19 DEF PrintCounts, Final
  <2> QED
    BY <1>2, <2>6, <2>7, <2>8, <2>10, <2>11, <2>12, <2>13, <2>14, <2>15, <2>16, <2>17, <2>18,
       <2>19 DEF Next, Main, Terminated
<1>3. TypeOK /\ [Next]_vars => [Variant' < Variant]_vars
  BY <1>2
<1> QED BY <1>1, <1>3, TypeCorrect, PTL DEF Spec
=============================================================================
