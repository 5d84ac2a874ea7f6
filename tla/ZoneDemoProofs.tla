--------------------------- MODULE ZoneDemoProofs ---------------------------
(***************************************************************************)
(* Theorems about ZoneDemo: the types, the lists of controllers and        *)
(* namespaces, and the synchronous protocol, for any bus, any device and   *)
(* any number of requests.  IInv is the inductive invariant they follow    *)
(* from.                                                                   *)
(***************************************************************************)
EXTENDS ZoneDemo, FiniteSetTheorems, TLAPS

Places == {"start", "probe", "alloc", "reset", "info", "send", "free", "exit"} \cup Waits \cup Final
ZoneMaps == [0 .. dev.num_zone - 1 -> [state : ZoneStates, wp : 0 .. dev.zcap]]

Typed ==
    /\ app \in Apps /\ dev \in Devices
    /\ pc \in Places
    /\ outstanding_commands \in 0 .. 1
    /\ sent \in 0 .. Requests + 2
    /\ heap \subseteq Command /\ failed \subseteq cq
    /\ QpairTypeOK(Command) /\ qpair # "corrupt"
    /\ AttachTypeOK
    /\ zones \in ZoneMaps /\ told \in ZoneMaps

\* What main() has done when it is at pc.
Stage ==
    /\ pc \in {"start", "probe", "alloc"} => qpair = "none"
    /\ pc \in {"reset", "info", "send", "free"} \cup Waits => qpair = "live"
    /\ pc \in {"exit", "done"} => qpair # "live"
    /\ pc \in {"start", "probe", "alloc", "reset"} => sent = 0
    /\ pc = "reset" => dev.zoned
    /\ pc = "wait_reset" => sent = 1 /\ dev.zoned
    /\ pc = "info" => sent = IF dev.zoned THEN 1 ELSE 0
    /\ pc = "wait_report" => sent = 2 /\ dev.zoned
    /\ pc = "send" /\ dev.zoned => sent >= 2
    /\ pc = "wait" => sent >= 3 /\ dev.zoned

\* The command pc waits for.
Awaited(c) ==
    /\ pc = "wait_reset" => c.op = "reset" /\ c.all
    /\ pc = "wait_report" => c.op = "report" /\ ~c.all
    /\ pc = "wait" => c.op \notin {"reset", "report"}

\* At most one command is flying, and only while main() waits for it.
OneFlying ==
    /\ \/ outstanding_commands = 0 /\ Flying = {}
       \/ /\ outstanding_commands = 1 /\ pc \in Waits
          /\ \E c \in Flying : Awaited(c) /\ <<inflight, cq>> \in {<<{c}, {}>>, <<{}, {c}>>}
    /\ heap = {c \in Flying : c.op \notin {"reset", "report"}}

\* The zones are ahead of what the program was told by the one command that
\* succeeded and was not polled yet.
Ahead ==
    /\ \A c \in cq \ failed : Succeeds(dev, told, c) /\ zones = After(dev, told, c)
    /\ cq \ failed = {} => zones = told

\* From the answer to the reset to the first request the program knows that the
\* zones are empty.
Clean ==
    \/ pc = "wait_reset" /\ Flying = {}
    \/ pc = "wait_report"
    \/ sent = 1 /\ pc \in {"info", "free", "exit", "done"}
    \/ sent = 2 /\ pc = "send"
    => \A z \in DOMAIN told : told[z] = EmptyZone

IInv == Typed /\ Stage /\ OneFlying /\ Ahead /\ Clean /\ Registered
-----------------------------------------------------------------------------
(* Induction over finite sets: a nonempty family has a minimal member.     *)

\* A family of finite sets has a member none of whose proper subsets is in it: what an
\* induction over finite sets would be used for.
LEMMA Minimal ==
  ASSUME NEW C, C # {}, \A T \in C : IsFiniteSet(T)
  PROVE \E T \in C : \A U \in C : U \subseteq T => U = T
<1> DEFINE D == UNION C
<1>1. C \subseteq FiniteSubsetsOf(D)
  BY DEF FiniteSubsetsOf
<1>2. PICK T \in C : \A U \in C : ~(<<U, T>> \in StrictSubsetOrdering(D))
  <2> HIDE DEF D
  <2> QED BY <1>1, FS_StrictSubsetOrderingWellFounded, WFMin
<1>3. \A U \in C : ~(<<U, T>> \in StrictSubsetOrdering(D)) => ~(U \subseteq T /\ U # T)
  BY DEF StrictSubsetOrdering
<1> QED BY <1>2, <1>3

\* A set of naturals has a least element.
LEMMA Least ==
  ASSUME NEW T \in SUBSET Nat, T # {}
  PROVE \E x \in T : \A y \in T : x <= y
<1> DEFINE C == {0 .. x : x \in T}
<1>1. C # {}
  OBVIOUS
<1>2. \A U \in C : U \subseteq Nat /\ IsFiniteSet(U)
  <2>1. ASSUME NEW x \in T PROVE 0 .. x \subseteq Nat /\ IsFiniteSet(0 .. x)
    <3>1. x \in Int /\ 0 \in Int
      OBVIOUS
    <3>2. IsFiniteSet(0 .. x)
      BY <3>1, FS_Interval
    <3> QED BY <3>2
  <2> QED BY <2>1
<1>5. PICK M \in C : \A U \in C : U \subseteq M => U = M
  <2> HIDE DEF C
  <2> QED BY <1>1, <1>2, Minimal
<1>3. PICK x \in T : M = 0 .. x
  OBVIOUS
<1>4. ASSUME NEW y \in T, y < x PROVE FALSE
  <2>1. 0 .. y \in C /\ 0 .. y \subseteq M /\ x \in M /\ x \notin 0 .. y
    BY <1>3, <1>4
  <2> QED BY <2>1, <1>5
<1> QED BY <1>4

\* A finite set of numbers can be listed in ascending order: otherwise the least
\* element could be taken out of a minimal set that cannot.
LEMMA Sorted ==
    ASSUME NEW S \in SUBSET Nat, IsFiniteSet(S)
    PROVE  \E f \in [1 .. Cardinality(S) -> S] : \A i, j \in DOMAIN f : i < j => f[i] < f[j]
<1> DEFINE Listed(T) == \E f \in [1 .. Cardinality(T) -> T] : \A i, j \in DOMAIN f : i < j => f[i] < f[j]
           C == {T \in SUBSET S : ~Listed(T)}
<1>1. \A T \in C : IsFiniteSet(T)
  BY FS_Subset
<1>2. SUFFICES ASSUME C # {} PROVE FALSE
  BY <1>1
<1>3. PICK T \in C : \A U \in C : U \subseteq T => U = T
  <2> HIDE DEF C
  <2> QED BY <1>1, <1>2, Minimal
<1>4. T \in SUBSET Nat /\ IsFiniteSet(T) /\ ~Listed(T) /\ Cardinality(T) \in Nat
  BY <1>1, <1>3, FS_CardinalityType
<1>5. T # {}
  <2>1. SUFFICES ASSUME T = {} PROVE Listed(T)
    BY <1>4
  <2>2. Cardinality(T) = 0 /\ 1 .. 0 = {}
    BY <2>1, FS_EmptySet
  <2>3. [i \in 1 .. Cardinality(T) |-> i] \in [1 .. Cardinality(T) -> T]
    BY <2>2
  <2> QED BY <2>2, <2>3
<1>6. PICK x \in T : \A y \in T : x <= y
  BY <1>4, <1>5, Least
<1> DEFINE R == T \ {x}  n == Cardinality(T)
<1>7. IsFiniteSet(R) /\ Cardinality(R) = n - 1 /\ n \in Nat \ {0}
  BY <1>4, <1>6, FS_RemoveElement, FS_EmptySet
<1>8. Listed(R)
  <2>1. R \in SUBSET S /\ R \subseteq T /\ R # T
    BY <1>3, <1>6
  <2> QED BY <1>3, <2>1
<1>9. PICK f \in [1 .. n - 1 -> R] : \A i, j \in 1 .. n - 1 : i < j => f[i] < f[j]
  BY <1>7, <1>8
<1> DEFINE g == [i \in 1 .. n |-> IF i = 1 THEN x ELSE f[i - 1]]
<1> HIDE DEF n
<1>10. ASSUME NEW i \in 1 .. n PROVE i = 1 \/ i - 1 \in 1 .. n - 1
  BY <1>7
<1>11. g \in [1 .. n -> T]
  BY <1>9, <1>10
<1>12. ASSUME NEW i \in 1 .. n, NEW j \in 1 .. n, i < j PROVE g[i] < g[j]
  <2>1. j - 1 \in 1 .. n - 1 /\ g[j] = f[j - 1] /\ f[j - 1] \in R
    BY <1>7, <1>9, <1>12
  <2>2. CASE i = 1
    <3>1. x <= f[j - 1] /\ x # f[j - 1] /\ x \in Nat /\ f[j - 1] \in Nat
      BY <1>4, <1>6, <2>1
    <3> QED BY <2>1, <2>2, <3>1
  <2>3. CASE i # 1
    <3>1. i - 1 \in 1 .. n - 1 /\ i - 1 < j - 1 /\ g[i] = f[i - 1]
      BY <1>7, <1>10, <1>12, <2>3
    <3> QED BY <1>9, <2>1, <3>1
  <2> QED BY <2>2, <2>3
<1>13. Listed(T)
  <2>1. \A i, j \in DOMAIN g : i < j => g[i] < g[j]
    BY <1>11, <1>12
  <2> HIDE DEF g
  <2> QED BY <1>11, <2>1 DEF n
<1> QED BY <1>4, <1>13
-----------------------------------------------------------------------------
(* The lists of NvmeAttach.                                                *)

\* register_ns lists the active namespaces of a controller, each once, the ids
\* ascending.
LEMMA ActiveExact ==
    ASSUME bus \in Buses, NEW c \in DOMAIN bus
    PROVE  /\ active(c) \in Seq(Nat)
           /\ {active(c)[i] : i \in DOMAIN active(c)} = bus[c]
           /\ \A i, j \in DOMAIN active(c) : i < j => active(c)[i] < active(c)[j]
<1> DEFINE S == bus[c]
           n == Cardinality(S)
           Ascending(f) == \A i, j \in DOMAIN f : i < j => f[i] < f[j]
<1>1. S \in SUBSET Nat /\ IsFiniteSet(S)
  BY BusesAssumption
<1>2. n \in Nat
  BY <1>1, FS_CardinalityType
<1>3. active(c) = CHOOSE f \in [1 .. n -> S] : Ascending(f)
  BY DEF active
<1>4. \E f \in [1 .. n -> S] : Ascending(f)
  <2> HIDE DEF S
  <2> QED BY <1>1, Sorted
<1> DEFINE f == active(c)
<1> HIDE DEF n, S
<1>5. f \in [1 .. n -> S] /\ Ascending(f)
  <2> HIDE DEF Ascending
  <2> QED BY <1>3, <1>4
<1> HIDE DEF f
<1>6. f \in Seq(Nat)
  <2>1. f \in [1 .. n -> Nat]
    BY <1>1, <1>5
  <2> QED BY <1>2, <2>1
<1>7. f \in Surjection(1 .. n, S)
  <2>1. \A i, j \in 1 .. n : i # j => f[i] # f[j]
    <3>1. ASSUME NEW i \in 1 .. n, NEW j \in 1 .. n, i < j PROVE f[i] # f[j]
      <4>1. f[i] < f[j] /\ f[i] \in Nat /\ f[j] \in Nat
        BY <1>1, <1>5, <3>1
      <4> QED BY <4>1
    <3>2. \A i, j \in 1 .. n : i # j => i < j \/ j < i
      BY <1>2
    <3> QED BY <3>1, <3>2
  <2>2. f \in Injection(1 .. n, S)
    BY <1>5, <2>1 DEF Injection, IsInjective
  <2>3. Cardinality(1 .. n) = n /\ IsFiniteSet(1 .. n)
    <3>1. 1 \in Int /\ n \in Int /\ n - 1 + 1 = n /\ (1 > n => n = 0)
      BY <1>2
    <3> QED BY <3>1, FS_Interval
  <2> QED BY <1>1, <2>2, <2>3, FS_Injection DEF n
<1>8. {f[i] : i \in DOMAIN f} = S
  BY <1>5, <1>7 DEF Surjection
<1> QED BY <1>5, <1>6, <1>8 DEF f, S

Entries == UNION {ns_entries(c, bus[c]) : c \in DOMAIN bus}

\* The elements of two lists put one after the other.
LEMMA Concatenated ==
    ASSUME NEW S, NEW s \in Seq(S), NEW t \in Seq(S)
    PROVE  /\ s \o t \in Seq(S) /\ Len(s \o t) = Len(s) + Len(t)
           /\ Len(s) \in Nat /\ Len(t) \in Nat
           /\ DOMAIN (s \o t) = 1 .. Len(s) + Len(t)
           /\ \A i \in 1 .. Len(s) : (s \o t)[i] = s[i] /\ s[i] \in S
           /\ \A i \in 1 .. Len(s) + Len(t) : i > Len(s) =>
                 /\ i - Len(s) \in 1 .. Len(t)
                 /\ (s \o t)[i] = t[i - Len(s)]
<1> QED OBVIOUS

Elems(s) == {s[i] : i \in DOMAIN s}

\* The elements of a concatenation.
LEMMA Elements ==
    ASSUME NEW S, NEW s \in Seq(S), NEW t \in Seq(S)
    PROVE  Elems(s \o t) = Elems(s) \cup Elems(t)
<1> DEFINE u == s \o t  m == Len(s)  n == Len(t)
<1>1. u \in Seq(S) /\ Len(u) = m + n /\ m \in Nat /\ n \in Nat
      /\ DOMAIN s = 1 .. m /\ DOMAIN t = 1 .. n /\ DOMAIN u = 1 .. m + n
  OBVIOUS
<1>2. \A i \in 1 .. m : u[i] = s[i] /\ s[i] \in S
  OBVIOUS
<1>3. \A i \in 1 .. m + n : i > m => i - m \in 1 .. n /\ u[i] = t[i - m]
  OBVIOUS
<1>4. \A i \in 1 .. n : i + m \in 1 .. m + n /\ u[i + m] = t[i]
  OBVIOUS
<1>5. \A i \in 1 .. m + n : i > m \/ i \in 1 .. m
  BY <1>1
<1>6. \A i \in 1 .. m : i \in 1 .. m + n
  BY <1>1
<1> HIDE DEF u, m, n
<1>7. {u[i] : i \in 1 .. m + n} = {s[i] : i \in 1 .. m} \cup {t[i] : i \in 1 .. n}
  <2>1. ASSUME NEW i \in 1 .. m + n PROVE u[i] \in {s[j] : j \in 1 .. m} \cup {t[j] : j \in 1 .. n}
    BY <1>2, <1>3, <1>5
  <2>2. ASSUME NEW i \in 1 .. m PROVE s[i] \in {u[j] : j \in 1 .. m + n}
    BY <1>2, <1>6
  <2>3. ASSUME NEW i \in 1 .. n PROVE t[i] \in {u[j] : j \in 1 .. m + n}
    BY <1>4
  <2> QED BY <2>1, <2>2, <2>3
<1> QED BY <1>1, <1>7 DEF u, m, n, Elems

\* What register_ns appends for a controller.
LEMMA Registering ==
    ASSUME bus \in Buses, NEW c \in DOMAIN bus
    PROVE  /\ register_ns(c) \in Seq(ns_entries(c, bus[c]))
           /\ {register_ns(c)[i] : i \in DOMAIN register_ns(c)} = ns_entries(c, bus[c])
           /\ \A i, j \in DOMAIN register_ns(c) :
                 i < j => register_ns(c)[i].ns < register_ns(c)[j].ns
           /\ \A i \in DOMAIN register_ns(c) : register_ns(c)[i].ctrlr = c
<1> DEFINE f == active(c)
           r == register_ns(c)
<1>1. /\ f \in Seq(Nat) /\ {f[i] : i \in DOMAIN f} = bus[c]
      /\ \A i, j \in DOMAIN f : i < j => f[i] < f[j]
  BY ActiveExact
<1>2. r = [i \in DOMAIN f |-> [ctrlr |-> c, ns |-> f[i]]]
  BY DEF register_ns
<1> HIDE DEF f, r
<1>3. DOMAIN f = 1 .. Len(f) /\ Len(f) \in Nat /\ DOMAIN r = DOMAIN f
  BY <1>1, <1>2
<1>4. \A i \in DOMAIN f : r[i] = [ctrlr |-> c, ns |-> f[i]] /\ r[i].ctrlr = c /\ r[i].ns = f[i]
  BY <1>2
<1>5. {r[i] : i \in DOMAIN r} = ns_entries(c, bus[c])
  BY <1>1, <1>3, <1>4 DEF ns_entries
<1>6. r \in Seq(ns_entries(c, bus[c]))
  <2>1. r \in [1 .. Len(f) -> ns_entries(c, bus[c])]
    BY <1>2, <1>3, <1>5
  <2> QED BY <1>3, <2>1
<1> QED BY <1>1, <1>3, <1>4, <1>5, <1>6 DEF r

\* attach_cb keeps the lists exact.
LEMMA Attaching ==
    ASSUME AttachTypeOK, ListsExact, NEW c \in DOMAIN bus, AttachCb(c)
    PROVE  AttachTypeOK' /\ ListsExact'
<1> DEFINE s == g_namespaces
           r == register_ns(c)
           k == g_controllers
           m == Len(s)  n == Len(r)
<1>1. /\ bus \in Buses /\ bus' = bus /\ attached \subseteq DOMAIN bus
      /\ attached' = attached \cup {c} /\ c \notin attached
      /\ k \in Seq(DOMAIN bus) /\ g_controllers' = Append(k, c)
      /\ s \in Seq(Entries) /\ g_namespaces' = s \o r
  BY DEF AttachTypeOK, AttachCb, Entries
<1>2. /\ r \in Seq(Entries)
      /\ {r[i] : i \in DOMAIN r} = ns_entries(c, bus[c])
      /\ \A i, j \in DOMAIN r : i < j => r[i].ns < r[j].ns
      /\ \A i \in DOMAIN r : r[i].ctrlr = c
  <2>1. ns_entries(c, bus[c]) \subseteq Entries
    BY DEF Entries
  <2>2. r \in Seq(ns_entries(c, bus[c]))
    BY <1>1, Registering
  <2>3. r \in Seq(Entries)
    <3> HIDE DEF r
    <3> QED BY <2>1, <2>2
  <2> QED BY <1>1, <2>3, Registering
<1>3. /\ {k[i] : i \in DOMAIN k} = attached
      /\ {s[i] : i \in DOMAIN s} = UNION {ns_entries(d, bus[d]) : d \in attached}
      /\ \A i, j \in DOMAIN s : i < j =>
           \/ s[i].ctrlr = s[j].ctrlr /\ s[i].ns < s[j].ns
           \/ \E p, q \in DOMAIN k : p < q /\ k[p] = s[i].ctrlr /\ k[q] = s[j].ctrlr
  BY DEF ListsExact
<1> DEFINE u == s \o r
           kk == Append(k, c)
<1>4. /\ u \in Seq(Entries) /\ m \in Nat /\ n \in Nat
      /\ DOMAIN u = 1 .. m + n /\ DOMAIN s = 1 .. m /\ DOMAIN r = 1 .. n
      /\ \A i \in 1 .. m : u[i] = s[i] /\ s[i] \in Entries
      /\ \A i \in 1 .. m + n : i > m => i - m \in 1 .. n /\ u[i] = r[i - m]
      /\ {u[i] : i \in DOMAIN u} = {s[i] : i \in DOMAIN s} \cup {r[i] : i \in DOMAIN r}
  <2>1. r \in Seq(Entries) /\ s \in Seq(Entries)
    BY <1>1, <1>2
  <2>2. DOMAIN s = 1 .. Len(s) /\ DOMAIN r = 1 .. Len(r)
    BY <2>1
  <2> HIDE DEF r, s
  <2>3. /\ s \o r \in Seq(Entries) /\ Len(s) \in Nat /\ Len(r) \in Nat
        /\ DOMAIN (s \o r) = 1 .. Len(s) + Len(r)
        /\ \A i \in 1 .. Len(s) : (s \o r)[i] = s[i] /\ s[i] \in Entries
    BY <2>1, Concatenated
  <2>4. \A i \in 1 .. Len(s) + Len(r) : i > Len(s) =>
           i - Len(s) \in 1 .. Len(r) /\ (s \o r)[i] = r[i - Len(s)]
    BY <2>1, Concatenated
  <2>5. {(s \o r)[i] : i \in DOMAIN (s \o r)}
          = {s[i] : i \in DOMAIN s} \cup {r[i] : i \in DOMAIN r}
    <3>1. Elems(s \o r) = Elems(s) \cup Elems(r)
      BY <2>1, Elements
    <3> QED BY <3>1 DEF Elems
  <2> QED BY <2>2, <2>3, <2>4, <2>5
<1>5. /\ kk \in Seq(DOMAIN bus) /\ Len(kk) = Len(k) + 1 /\ Len(k) \in Nat
      /\ DOMAIN kk = 1 .. Len(k) + 1 /\ kk[Len(k) + 1] = c /\ DOMAIN k = 1 .. Len(k)
      /\ \A i \in 1 .. Len(k) : kk[i] = k[i]
  BY <1>1
<1>6. u \in Seq(Entries) /\ AttachTypeOK'
  BY <1>1, <1>4, <1>5 DEF AttachTypeOK, Entries
<1> HIDE DEF u, r, s, k, kk, m, n
<1>7. {kk[i] : i \in DOMAIN kk} = attached \cup {c}
  <2>1. \A i \in DOMAIN kk : (i \in DOMAIN k /\ kk[i] = k[i]) \/ kk[i] = c
    BY <1>5
  <2>2. \A i \in DOMAIN k : i \in DOMAIN kk /\ kk[i] = k[i]
    BY <1>5
  <2>3. Len(k) + 1 \in DOMAIN kk
    BY <1>5
  <2> QED BY <1>3, <1>5, <2>1, <2>2, <2>3
<1>8. {u[i] : i \in DOMAIN u} = UNION {ns_entries(d, bus[d]) : d \in attached \cup {c}}
  BY <1>2, <1>3, <1>4, SMTT(60)
<1>9. ASSUME NEW i \in DOMAIN u, NEW j \in DOMAIN u, i < j
      PROVE  \/ u[i].ctrlr = u[j].ctrlr /\ u[i].ns < u[j].ns
             \/ \E p, q \in DOMAIN kk : p < q /\ kk[p] = u[i].ctrlr /\ kk[q] = u[j].ctrlr
  <2>1. CASE j <= m
    <3>1. i \in DOMAIN s /\ j \in DOMAIN s /\ u[i] = s[i] /\ u[j] = s[j]
      BY <1>4, <1>9, <2>1
    <3>2. CASE s[i].ctrlr = s[j].ctrlr /\ s[i].ns < s[j].ns
      BY <3>1, <3>2
    <3>3. CASE \E p, q \in DOMAIN k : p < q /\ k[p] = s[i].ctrlr /\ k[q] = s[j].ctrlr
      <4>1. PICK p \in DOMAIN k, q \in DOMAIN k : p < q /\ k[p] = s[i].ctrlr /\ k[q] = s[j].ctrlr
        BY <3>3
      <4>2. p \in DOMAIN kk /\ q \in DOMAIN kk /\ kk[p] = k[p] /\ kk[q] = k[q]
        BY <1>5, <4>1
      <4> QED BY <3>1, <4>1, <4>2
    <3> QED BY <1>3, <1>9, <3>1, <3>2, <3>3
  <2>2. CASE i <= m /\ j > m
    <3>1. i \in DOMAIN s /\ u[i] = s[i] /\ j - m \in DOMAIN r /\ u[j] = r[j - m]
      BY <1>4, <1>9, <2>2
    <3>2. u[j].ctrlr = c
      BY <1>2, <3>1
    <3>3. s[i].ctrlr \in attached
      <4>1. s[i] \in UNION {ns_entries(d, bus[d]) : d \in attached}
        BY <1>3, <3>1
      <4> QED BY <4>1 DEF ns_entries
    <3>4. PICK p \in DOMAIN k : k[p] = s[i].ctrlr
      BY <1>3, <3>3
    <3>5. p \in DOMAIN kk /\ kk[p] = k[p] /\ p < Len(k) + 1 /\ Len(k) + 1 \in DOMAIN kk
      BY <1>5, <3>4
    <3> QED BY <1>5, <3>1, <3>2, <3>4, <3>5
  <2>3. CASE i > m
    <3>1. /\ i - m \in DOMAIN r /\ j - m \in DOMAIN r /\ i - m < j - m
          /\ u[i] = r[i - m] /\ u[j] = r[j - m]
      BY <1>4, <1>9, <2>3
    <3> QED BY <1>2, <3>1
  <2> QED BY <1>4, <2>1, <2>2, <2>3
<1>10. ListsExact'
  <2>1. g_namespaces' = u /\ g_controllers' = kk /\ attached' = attached \cup {c} /\ bus' = bus
    BY <1>1 DEF u, kk, s, k, r
  <2> QED BY <2>1, <1>7, <1>8, <1>9 DEF ListsExact, ns_entries
<1> QED BY <1>6, <1>10

\* The other changes of the lists keep the types.
LEMMA Detaching ==
    ASSUME AttachTypeOK, \/ \E c \in DOMAIN bus : AttachFails(c)
                         \/ FreeNamespaces \/ DetachFirst \/ UNCHANGED attachVars
    PROVE  AttachTypeOK'
<1>1. CASE \E c \in DOMAIN bus : AttachFails(c)
  BY <1>1 DEF AttachTypeOK, AttachFails
<1>2. CASE FreeNamespaces
  BY <1>2 DEF AttachTypeOK, FreeNamespaces
<1>3. CASE DetachFirst
  BY <1>3 DEF AttachTypeOK, DetachFirst
<1>4. CASE UNCHANGED attachVars
  BY <1>4 DEF AttachTypeOK, attachVars
<1> QED BY <1>1, <1>2, <1>3, <1>4

\* A listed namespace is one of an attached controller; when none is listed, no
\* attached controller has an active namespace.
LEMMA Heads ==
    ASSUME AttachTypeOK, ListsExact
    PROVE  /\ g_namespaces # <<>> => Head(g_namespaces).ctrlr \in attached
           /\ g_namespaces = <<>> => \A c \in attached : bus[c] = {}
<1> DEFINE s == g_namespaces
<1>1. s \in Seq(Entries) /\ {s[i] : i \in DOMAIN s} = UNION {ns_entries(d, bus[d]) : d \in attached}
  BY DEF AttachTypeOK, ListsExact, Entries
<1>2. ASSUME s # <<>> PROVE Head(s).ctrlr \in attached
  <2>1. 1 \in DOMAIN s /\ Head(s) = s[1]
    BY <1>1, <1>2
  <2>2. s[1] \in UNION {ns_entries(d, bus[d]) : d \in attached}
    BY <1>1, <2>1
  <2> QED BY <2>1, <2>2 DEF ns_entries
<1>3. ASSUME s = <<>>, NEW c \in attached PROVE bus[c] = {}
  <2>1. UNION {ns_entries(d, bus[d]) : d \in attached} = {}
    BY <1>1, <1>3
  <2>2. ASSUME NEW n \in bus[c] PROVE FALSE
    <3>1. [ctrlr |-> c, ns |-> n] \in ns_entries(c, bus[c])
      BY DEF ns_entries
    <3> QED BY <2>1, <3>1
  <2> QED BY <2>2
<1> QED BY <1>2, <1>3
-----------------------------------------------------------------------------
(* What a command does to the zones of a device.                           *)

\* The zone maps of device d.
Maps(d) == [0 .. d.num_zone - 1 -> [state : ZoneStates, wp : 0 .. d.zcap]]

\* A command that succeeds keeps the write pointers within the zones.
LEMMA AfterTyped ==
    ASSUME NEW d \in Devices, NEW zs \in Maps(d), NEW c \in Command, Succeeds(d, zs, c)
    PROVE  After(d, zs, c) \in Maps(d)
<1>1. d.num_zone \in Nat /\ d.zcap \in Nat /\ c.nlb \in Nat
  BY ZoneDemoAssumption DEF Command
<1>2. DOMAIN zs = 0 .. d.num_zone - 1
  BY DEF Maps
<1>3. ASSUME NEW z \in DOMAIN zs, z \in Targets(zs, c)
      PROVE  ZoneAfter(d, zs[z], c) \in [state : ZoneStates, wp : 0 .. d.zcap]
  <2>1. zs[z] \in [state : ZoneStates, wp : 0 .. d.zcap]
    BY <1>2 DEF Maps
  <2>2. PICK zn : zn = zs[z]
    OBVIOUS
  <2>3. zn.state \in ZoneStates /\ zn.wp \in 0 .. d.zcap
        /\ zn \in [state : ZoneStates, wp : 0 .. d.zcap]
    BY <2>1, <2>2
  <2>4. c.op = "append" => zn.wp + c.nlb <= d.zcap
    <3>1. c.op = "append" => \A y \in Targets(zs, c) : zs[y].wp + c.nlb <= d.zcap
      BY DEF Succeeds
    <3> QED BY <1>3, <2>2, <3>1
  <2>5. c.op = "append" => zn.wp + c.nlb \in 0 .. d.zcap
    BY <1>1, <2>3, <2>4
  <2>6. ZoneAfter(d, zn, c) \in [state : ZoneStates, wp : 0 .. d.zcap]
    <3>1. CASE c.op = "append"
      BY <2>5, <3>1 DEF ZoneAfter, ZoneStates
    <3>2. CASE c.op \in {"finish", "reset"}
      BY <1>1, <3>2 DEF ZoneAfter, ZoneStates, EmptyZone
    <3>3. CASE c.op \in {"open", "close"}
      BY <2>3, <3>3 DEF ZoneAfter, ZoneStates
    <3>4. CASE c.op \in {"report", "read"}
      BY <2>3, <3>4 DEF ZoneAfter
    <3> QED BY <3>1, <3>2, <3>3, <3>4 DEF Command
  <2> QED BY <2>2, <2>6
<1>4. After(d, zs, c) = [z \in DOMAIN zs |->
                            IF z \in Targets(zs, c) THEN ZoneAfter(d, zs[z], c) ELSE zs[z]]
  BY DEF After
<1>5. \A z \in DOMAIN zs : zs[z] \in [state : ZoneStates, wp : 0 .. d.zcap]
  BY <1>2 DEF Maps
<1> QED BY <1>2, <1>3, <1>4, <1>5 DEF Maps

\* The reset of all zones leaves them empty; a report changes none.
LEMMA AfterReset ==
    ASSUME NEW d, NEW zs, NEW c, Succeeds(d, zs, c), c.op = "reset", c.all
    PROVE  /\ DOMAIN After(d, zs, c) = DOMAIN zs
           /\ \A z \in DOMAIN zs : After(d, zs, c)[z] = EmptyZone
BY DEF After, Targets, ZoneAfter

\* A report of the zones changes none of them.
LEMMA AfterReport ==
    ASSUME NEW d \in Devices, NEW zs \in Maps(d), NEW c, Succeeds(d, zs, c), c.op = "report"
    PROVE  After(d, zs, c) = zs
<1>1. After(d, zs, c) = [z \in DOMAIN zs |->
                            IF z \in Targets(zs, c) THEN ZoneAfter(d, zs[z], c) ELSE zs[z]]
  BY DEF After
<1>2. \A z \in DOMAIN zs : ZoneAfter(d, zs[z], c) = zs[z]
  BY DEF ZoneAfter
<1>3. After(d, zs, c) = [z \in DOMAIN zs |-> zs[z]]
  BY <1>1, <1>2
<1>4. DOMAIN zs = 0 .. d.num_zone - 1 /\ zs = [z \in 0 .. d.num_zone - 1 |-> zs[z]]
  BY DEF Maps
<1> QED BY <1>3, <1>4
-----------------------------------------------------------------------------
(* The steps of main().                                                    *)

\* The constants of both programs are natural numbers.
LEMMA Counts == Requests \in Nat /\ RandZones \in Nat /\ Sizes \subseteq Nat
BY ZoneDemoAssumption DEF Requests

\* The inductive invariant holds before the attach.
LEMMA Initially == Init => IInv
<1> SUFFICES ASSUME Init PROVE IInv
  OBVIOUS
<1>1. dev \in Devices /\ dev.zcap \in Nat
  BY ZoneDemoAssumption DEF Init
<1>2. zones \in ZoneMaps /\ told = zones
  <2>1. [state |-> "full", wp |-> dev.zcap] \in [state : ZoneStates, wp : 0 .. dev.zcap]
    BY <1>1 DEF ZoneStates
  <2>2. EmptyZone \in [state : ZoneStates, wp : 0 .. dev.zcap]
    BY <1>1 DEF ZoneStates, EmptyZone
  <2> QED BY <2>1, <2>2 DEF Init, ZoneMaps
<1>3. AttachTypeOK
  BY DEF Init, AttachInit, AttachTypeOK
<1>4. Typed
  BY <1>1, <1>2, <1>3, Counts DEF Init, Typed, Places, QpairInit, QpairTypeOK
<1>5. Stage /\ OneFlying /\ Ahead /\ Clean
  BY DEF Init, QpairInit, Stage, OneFlying, Ahead, Clean, Waits, Flying
<1>6. ListsExact
  BY DEF Init, AttachInit, ListsExact
<1> QED BY <1>4, <1>5, <1>6 DEF IInv, Registered, Init, QpairInit

\* Outside of its waits the program has no command at the device.
LEMMA Idle ==
    ASSUME IInv, pc \notin Waits \/ outstanding_commands = 0
    PROVE  /\ inflight = {} /\ cq = {} /\ heap = {} /\ failed = {}
           /\ zones = told /\ outstanding_commands = 0
BY DEF IInv, Typed, OneFlying, Ahead, Flying

\* Steps of main() that send nothing and poll nothing.
LEMMA QuietInv ==
    ASSUME IInv, pc \notin Waits \/ outstanding_commands = 0,
           UNCHANGED <<app, dev, outstanding_commands, heap, sent, devVars, told, inflight, cq>>,
           pc' \in Places, qpair' \in {"none", "live", "freed"}, AttachTypeOK'
    PROVE  Typed' /\ OneFlying' /\ Ahead'
<1>1. /\ inflight = {} /\ cq = {} /\ heap = {} /\ failed = {}
      /\ zones = told /\ outstanding_commands = 0
  BY Idle
<1>2. Typed'
  BY DEF IInv, Typed, QpairTypeOK, ZoneMaps, devVars
<1>3. OneFlying' /\ Ahead'
  BY <1>1 DEF OneFlying, Ahead, Flying, devVars
<1> QED BY <1>2, <1>3

\* The lists stay as they are while neither they nor the buses change.
LEMMA SameLists ==
    ASSUME UNCHANGED attachVars, ListsExact
    PROVE  ListsExact'
BY DEF attachVars, ListsExact, ns_entries

\* From the environment to the queue pair.
LEMMA StartInv == IInv /\ (Start \/ Probe \/ NoNamespace \/ AllocQpair) => IInv'
<1> SUFFICES ASSUME IInv, Start \/ Probe \/ NoNamespace \/ AllocQpair PROVE IInv'
  OBVIOUS
<1>1. /\ Typed /\ Stage /\ Registered /\ pc \in {"start", "probe", "alloc"}
      /\ qpair = "none" /\ sent = 0 /\ ListsExact /\ AttachTypeOK
  BY DEF IInv, Registered, Start, Probe, NoNamespace, AllocQpair, Stage, Typed
<1>2. pc \notin Waits
  BY <1>1 DEF Waits
<1>3. ASSUME NEW l \in Places, Goto(l), inflight' = {} /\ cq' = {}, AttachTypeOK',
             qpair' \in {"none", "live"}
      PROVE  Typed' /\ OneFlying' /\ Ahead'
  BY <1>2, <1>3, QuietInv, Idle DEF Goto
<1>4. ASSUME NEW l \in Places, Goto(l), qpair' \in {"none", "live"},
             l \in {"probe", "alloc"} => qpair' = "none",
             l \in {"probe", "alloc", "failed", "crash", "exit", "reset", "info", "free"},
             l = "exit" => qpair' = "none",
             l \in {"reset", "info", "free"} => qpair' = "live",
             l = "reset" => dev.zoned, l = "info" => ~dev.zoned
      PROVE  Stage' /\ Clean'
  BY <1>1, <1>4 DEF Goto, Stage, Clean, Waits
<1>5. inflight = {} /\ cq = {}
  BY <1>2, Idle
<1>6. CASE Start
  <2>1. PICK l \in {"probe", "failed", "exit"} : Goto(l)
    BY <1>6 DEF Start
  <2>2. UNCHANGED <<qpairVars, attachVars>> /\ AttachTypeOK' /\ ListsExact'
    BY <1>1, <1>6, SameLists, Detaching DEF Start
  <2>3. l \in Places
    BY <2>1 DEF Places, Final
  <2>4. Typed' /\ OneFlying' /\ Ahead' /\ Stage' /\ Clean'
    <3>1. inflight' = {} /\ cq' = {} /\ qpair' = "none"
      BY <1>1, <1>5, <2>2 DEF qpairVars
    <3>2. Typed' /\ OneFlying' /\ Ahead'
      BY <1>3, <2>1, <2>2, <2>3, <3>1
    <3>3. Stage' /\ Clean'
      BY <1>4, <2>1, <2>3, <3>1
    <3> QED BY <3>2, <3>3
  <2>5. Registered'
    BY <1>1, <2>1, <2>2 DEF Registered, Goto, qpairVars
  <2> QED BY <2>4, <2>5 DEF IInv
<1>7. CASE Probe
  <2>1. PICK l \in {"probe", "alloc", "failed", "exit"} : Goto(l)
    BY <1>7 DEF Probe
  <2>2. /\ \/ \E c \in DOMAIN bus : AttachCb(c)
           \/ \E c \in DOMAIN bus : AttachFails(c) /\ l = "failed"
           \/ UNCHANGED attachVars
        /\ UNCHANGED qpairVars
    BY <1>7, <2>1 DEF Probe, Goto
  <2>3. AttachTypeOK' /\ (l = "failed" \/ ListsExact')
    BY <1>1, <2>2, Attaching, SameLists, Detaching
  <2>4. l \in Places
    BY <2>1 DEF Places, Final
  <2>5. Typed' /\ OneFlying' /\ Ahead' /\ Stage' /\ Clean'
    <3>1. inflight' = {} /\ cq' = {} /\ qpair' = "none"
      BY <1>1, <1>5, <2>2 DEF qpairVars
    <3>2. Typed' /\ OneFlying' /\ Ahead'
      BY <1>3, <2>1, <2>3, <2>4, <3>1
    <3>3. Stage' /\ Clean'
      BY <1>4, <2>1, <2>4, <3>1
    <3> QED BY <3>2, <3>3
  <2>6. Registered'
    BY <1>1, <2>1, <2>2, <2>3 DEF Registered, Goto, qpairVars
  <2> QED BY <2>5, <2>6 DEF IInv
<1>8. CASE NoNamespace
  <2>1. Goto("crash") /\ UNCHANGED <<qpairVars, attachVars>> /\ AttachTypeOK' /\ ListsExact'
        /\ g_namespaces = <<>>
    BY <1>1, <1>8, SameLists, Detaching DEF NoNamespace
  <2>2. "crash" \in Places
    BY DEF Places, Final
  <2>3. Typed' /\ OneFlying' /\ Ahead' /\ Stage' /\ Clean'
    <3>1. inflight' = {} /\ cq' = {} /\ qpair' = "none"
      BY <1>1, <1>5, <2>1 DEF qpairVars
    <3>2. Typed' /\ OneFlying' /\ Ahead'
      BY <1>3, <2>1, <2>2, <3>1
    <3>3. Stage' /\ Clean'
      BY <1>4, <2>1, <2>2, <3>1
    <3> QED BY <3>2, <3>3
  <2>4. \A c \in attached : bus[c] = {}
    BY <1>1, <2>1, Heads
  <2>5. Registered'
    BY <1>1, <2>1, <2>4 DEF Registered, Goto, qpairVars, attachVars
  <2> QED BY <2>3, <2>5 DEF IInv
<1>9. CASE AllocQpair
  <2>1. PICK l \in {"reset", "info", "free", "exit"} :
          /\ Goto(l) /\ inflight' = inflight /\ cq' = cq
          /\ (qpair' = IF l = "exit" THEN "none" ELSE "live")
          /\ (l = "reset" => dev.zoned) /\ (l = "info" => ~dev.zoned)
    <3> DEFINE next == IF dev.zoned THEN "reset" ELSE IF app = "demo" THEN "info" ELSE "free"
    <3>1. (AllocIoQpair /\ Goto(next)) \/ (Goto("exit") /\ UNCHANGED qpairVars)
      BY <1>9 DEF AllocQpair
    <3>2. /\ next \in {"reset", "info", "free"}
          /\ (next = "reset" => dev.zoned) /\ (next = "info" => ~dev.zoned)
      OBVIOUS
    <3> HIDE DEF next
    <3>3. CASE AllocIoQpair /\ Goto(next)
      BY <3>2, <3>3 DEF AllocIoQpair
    <3>4. CASE Goto("exit") /\ UNCHANGED qpairVars
      BY <1>1, <3>4 DEF qpairVars
    <3> QED BY <3>1, <3>3, <3>4
  <2>2. UNCHANGED attachVars /\ AttachTypeOK' /\ ListsExact' /\ g_namespaces # <<>>
    BY <1>1, <1>9, SameLists, Detaching DEF AllocQpair
  <2>3. l \in Places
    BY <2>1 DEF Places
  <2>4. Typed' /\ OneFlying' /\ Ahead'
    BY <1>3, <1>5, <2>1, <2>2, <2>3
  <2>5. Stage' /\ Clean'
    BY <1>4, <2>1, <2>3
  <2>6. Head(g_namespaces).ctrlr \in attached
    BY <1>1, <2>2, Heads
  <2>7. Registered'
    BY <1>1, <2>1, <2>2, <2>6 DEF Registered, Goto, attachVars
  <2> QED BY <2>4, <2>5, <2>7 DEF IInv
<1> QED BY <1>6, <1>7, <1>8, <1>9

\* The steps between the commands, and the way out.
LEMMA BetweenInv ==
    IInv /\ (RequestFails \/ NoBuffer \/ RequestsDone \/ Return \/ FreeQpair \/ Cleanup) => IInv'
<1> SUFFICES ASSUME IInv, RequestFails \/ NoBuffer \/ RequestsDone \/ Return \/ FreeQpair \/ Cleanup
             PROVE  IInv'
  OBVIOUS
<1>1. /\ Typed /\ Stage /\ Registered /\ AttachTypeOK /\ Clean
      /\ pc \notin Waits \/ outstanding_commands = 0
  BY DEF IInv, Typed, RequestFails, NoBuffer, RequestsDone, Return, Waited, FreeQpair, Cleanup, Waits
<1>2. inflight = {} /\ cq = {}
  BY <1>1, Idle
<1>3. ASSUME NEW l \in Places, Goto(l), UNCHANGED <<inflight, cq>>, AttachTypeOK',
             qpair' \in {"none", "live", "freed"}
      PROVE  Typed' /\ OneFlying' /\ Ahead'
  BY <1>1, <1>3, QuietInv DEF Goto
<1>4. ASSUME NEW l \in Places, Goto(l), UNCHANGED <<qpairVars, attachVars>>
      PROVE  Typed' /\ OneFlying' /\ Ahead'
  <2>1. AttachTypeOK' /\ qpair \in {"none", "live", "freed"}
    BY <1>1, <1>4, Detaching DEF Typed, QpairTypeOK
  <2> QED BY <1>3, <1>4, <2>1 DEF qpairVars
<1>5. ASSUME UNCHANGED <<qpairVars, attachVars>>,
             NEW l \in Places, Goto(l), pc \in {"send"} \cup Waits, l # "crash"
      PROVE  Registered'
  <2>1. ListsExact /\ ListsExact'
    BY <1>1, <1>5, SameLists DEF Registered, Waits
  <2>2. pc # "failed"
    BY <1>5 DEF Waits
  <2> QED BY <1>1, <1>5, <2>1, <2>2 DEF Registered, Goto, qpairVars, attachVars
<1>6. CASE RequestFails
  <2>1. PICK l \in {"failed", "crash"} : Goto(l)
    BY <1>6 DEF RequestFails
  <2>2. UNCHANGED <<qpairVars, attachVars>> /\ pc = "send" /\ qpair = "live" /\ l \in Places
    BY <1>1, <1>6, <2>1 DEF RequestFails, Places, Final, Stage
  <2>3. Typed' /\ OneFlying' /\ Ahead'
    BY <1>4, <2>1, <2>2
  <2>4. Stage' /\ Clean'
    BY <2>1, <2>2 DEF Stage, Clean, Goto, Waits
  <2>5. ListsExact /\ ListsExact'
    BY <1>1, <2>2, SameLists DEF Registered
  <2>6. Registered'
    BY <1>1, <2>1, <2>2, <2>5 DEF Registered, Goto, qpairVars, attachVars
  <2> QED BY <2>3, <2>4, <2>6 DEF IInv
<1>7. CASE NoBuffer
  <2>1. Goto("failed") /\ UNCHANGED <<qpairVars, attachVars>> /\ pc = "send" /\ "failed" \in Places
    BY <1>7 DEF NoBuffer, Places, Final
  <2>2. Typed' /\ OneFlying' /\ Ahead'
    BY <1>4, <2>1
  <2>3. Stage' /\ Clean'
    BY <2>1 DEF Stage, Clean, Goto, Waits
  <2> QED BY <1>5, <2>1, <2>2, <2>3 DEF IInv
<1>8. CASE RequestsDone
  <2>1. /\ Goto("free") /\ UNCHANGED <<qpairVars, attachVars>> /\ pc = "send" /\ "free" \in Places
        /\ dev.zoned /\ qpair = "live" /\ sent >= 2 /\ sent \in Nat
    BY <1>1, <1>8, Counts DEF RequestsDone, Places, Stage, Typed
  <2>2. Typed' /\ OneFlying' /\ Ahead'
    BY <1>4, <2>1
  <2>3. Stage' /\ Clean'
    BY <2>1 DEF Stage, Clean, Goto, Waits, qpairVars
  <2> QED BY <1>5, <2>1, <2>2, <2>3 DEF IInv
<1>9. CASE Return
  <2>1. PICK l \in {"info", "free", "send"} :
          /\ Goto(l)
          /\ l = IF pc = "wait_reset" THEN (IF app = "demo" THEN "info" ELSE "free") ELSE "send"
    BY <1>9 DEF Return
  <2>2. /\ UNCHANGED <<qpairVars, attachVars>> /\ pc \in Waits /\ l \in Places
        /\ qpair = "live" /\ Flying = {}
        /\ (pc = "wait_reset" => sent = 1 /\ dev.zoned) /\ (pc = "wait_report" => sent = 2 /\ dev.zoned)
        /\ (pc = "wait" => sent >= 3 /\ dev.zoned)
    BY <1>1, <1>2, <1>9 DEF Return, Places, Stage, Flying
  <2>3. Typed' /\ OneFlying' /\ Ahead'
    BY <1>4, <2>1, <2>2
  <2>4. Stage'
    <3>1. sent \in Nat
      BY <1>1, Counts DEF Typed
    <3>2. pc # "wait_reset" => sent >= 2 /\ dev.zoned
      BY <2>2, <3>1 DEF Waits
    <3> QED BY <2>1, <2>2, <3>2 DEF Stage, Goto, qpairVars
  <2>5. Clean'
    BY <1>1, <2>1, <2>2 DEF Clean, Goto, Waits
  <2> QED BY <1>5, <2>1, <2>2, <2>3, <2>4, <2>5 DEF IInv
<1>10. CASE FreeQpair
  <2>1. /\ Goto("exit") /\ UNCHANGED attachVars /\ pc = "free" /\ "exit" \in Places
        /\ qpair' = "freed" /\ inflight' = inflight /\ cq' = cq
    BY <1>1, <1>2, <1>10 DEF FreeQpair, FreeIoQpair, Stage, Places
  <2>2. AttachTypeOK'
    BY <1>1, <2>1, Detaching
  <2>3. Typed' /\ OneFlying' /\ Ahead'
    BY <1>3, <2>1, <2>2
  <2>4. Stage' /\ Clean'
    BY <1>1, <2>1 DEF Stage, Clean, Goto, Waits
  <2>5. Registered'
    BY <2>1 DEF Registered, Goto
  <2> QED BY <2>3, <2>4, <2>5 DEF IInv
<1>11. CASE Cleanup
  <2>1. PICK l \in {"exit", "done"} : Goto(l)
    BY <1>11 DEF Cleanup
  <2>2. /\ UNCHANGED qpairVars /\ pc = "exit" /\ l \in Places
        /\ FreeNamespaces \/ DetachFirst \/ UNCHANGED attachVars
        /\ qpair # "live" /\ qpair \in {"none", "live", "freed"}
    BY <1>1, <1>11, <2>1 DEF Cleanup, Places, Final, Stage, Typed, QpairTypeOK
  <2>3. AttachTypeOK'
    BY <1>1, <2>2, Detaching
  <2>4. Typed' /\ OneFlying' /\ Ahead'
    BY <1>3, <2>1, <2>2, <2>3 DEF qpairVars
  <2>5. Stage' /\ Clean'
    BY <1>1, <2>1, <2>2 DEF Stage, Clean, Goto, Waits, qpairVars
  <2>6. Registered'
    BY <2>1, <2>2 DEF Registered, Goto, qpairVars
  <2> QED BY <2>4, <2>5, <2>6 DEF IInv
<1> QED BY <1>6, <1>7, <1>8, <1>9, <1>10, <1>11

\* A command is handed to the driver.
LEMMA SubmitInv ==
    ASSUME IInv, pc \notin Waits, pc \notin Final, sent + 1 \in 1 .. Requests + 2,
           qpair = "live", dev.zoned,
           NEW op \in {"reset", "report", "append", "read", "open", "close", "finish"},
           NEW zone \in Nat, NEW nlb \in Nat, NEW all \in BOOLEAN, NEW l \in Waits,
           l = "wait_reset" => op = "reset" /\ all /\ sent = 0,
           l = "wait_report" => op = "report" /\ ~all /\ sent = 1 /\ pc = "info",
           l = "wait" => op \notin {"reset", "report"} /\ sent >= 2,
           pc \in {"reset", "info", "send"},
           Submit([op |-> op, zone |-> zone, nlb |-> nlb, all |-> all], l)
    PROVE  IInv'
<1> DEFINE n == sent + 1
<1>1. PICK c \in Command : /\ c = [op |-> op, zone |-> zone, nlb |-> nlb, all |-> all, n |-> n]
                           /\ c.op = op /\ c.all = all
  <2>1. [op |-> op, zone |-> zone, nlb |-> nlb, all |-> all, n |-> n] \in Command
    BY DEF Command
  <2> QED BY <2>1
<1>2. /\ Accept(c)
      /\ outstanding_commands' = outstanding_commands + 1
      /\ sent' = n
      /\ heap' = IF l = "wait" THEN heap \cup {c} ELSE heap
      /\ pc' = l
      /\ UNCHANGED <<app, dev, devVars, told, attachVars>>
  BY <1>1 DEF Submit
<1>3. /\ inflight = {} /\ cq = {} /\ heap = {} /\ failed = {}
      /\ zones = told /\ outstanding_commands = 0
  BY Idle
<1>4. inflight' = {c} /\ cq' = {} /\ qpair' = "live"
  BY <1>2, <1>3 DEF Accept
<1>5. Typed'
  <2>1. AttachTypeOK'
    BY <1>2, Detaching DEF IInv, Typed
  <2>2. sent' \in 0 .. Requests + 2 /\ outstanding_commands' \in 0 .. 1
    BY <1>2, <1>3, Counts
  <2>3. pc' \in Places
    BY <1>2 DEF Places
  <2> QED BY <1>1, <1>2, <1>3, <1>4, <2>1, <2>2, <2>3
          DEF IInv, Typed, QpairTypeOK, ZoneMaps, devVars
<1>6. Stage'
  <2>1. sent \in Nat
    BY Counts DEF IInv, Typed
  <2>2. (l = "wait_reset" => n = 1) /\ (l = "wait_report" => n = 2) /\ (l = "wait" => n >= 3)
    BY <2>1
  <2> QED BY <1>2, <1>4, <2>2 DEF Stage, Waits
<1>7. OneFlying'
  <2>1. Awaited(c)' /\ c \in Flying'
    BY <1>1, <1>2, <1>4 DEF Awaited, Flying
  <2>2. heap' = {d \in Flying' : d.op \notin {"reset", "report"}}
    BY <1>1, <1>2, <1>3, <1>4 DEF Flying, Waits
  <2> QED BY <1>2, <1>3, <1>4, <2>1, <2>2 DEF OneFlying
<1>8. Ahead'
  BY <1>2, <1>3, <1>4 DEF Ahead, devVars
<1>9. Clean'
  <2>1. CASE l = "wait_report"
    BY <1>2, <2>1 DEF IInv, Clean
  <2>2. CASE l # "wait_report"
    <3>1. Flying' # {}
      BY <1>4 DEF Flying
    <3> QED BY <1>2, <2>2, <3>1 DEF Clean, Waits
  <2> QED BY <2>1, <2>2
<1>10. Registered'
  <2>1. ListsExact /\ ListsExact'
    BY <1>2, SameLists DEF IInv, Registered
  <2> QED BY <1>2, <1>4, <2>1 DEF IInv, Registered, attachVars, Waits, Final
<1> QED BY <1>5, <1>6, <1>7, <1>8, <1>9, <1>10 DEF IInv

\* A step that gives up, or goes on without a command.
LEMMA SkipInv ==
    ASSUME IInv, pc \in {"reset", "info"}, NEW l \in {"failed", "hung", "send"}, Goto(l),
           l = "send" => ~dev.zoned /\ pc = "info", UNCHANGED <<qpairVars, attachVars>>
    PROVE  IInv'
<1>1. /\ Typed /\ Stage /\ Registered /\ AttachTypeOK /\ ListsExact /\ ListsExact' /\ AttachTypeOK'
      /\ pc \notin Waits /\ qpair = "live" /\ l \in Places
  BY SameLists, Detaching DEF IInv, Typed, Registered, Stage, Waits, Places, Final
<1>2. Typed' /\ OneFlying' /\ Ahead'
  BY <1>1, QuietInv DEF Goto, qpairVars
<1>3. Stage' /\ Clean'
  BY <1>1 DEF Stage, Clean, Goto, Waits, qpairVars
<1>4. Registered'
  BY <1>1 DEF Registered, Goto, qpairVars, attachVars
<1> QED BY <1>2, <1>3, <1>4 DEF IInv

\* The steps that send a command.
LEMMA SendInv == IInv /\ (ResetAllZone \/ ZnsInfo \/ SendReq) => IInv'
<1> SUFFICES ASSUME IInv, ResetAllZone \/ ZnsInfo \/ SendReq PROVE IInv'
  OBVIOUS
<1>1. Typed /\ Stage /\ Requests \in Nat /\ sent \in Nat
  BY Counts DEF IInv, Typed
<1>2. CASE ResetAllZone
  <2>1. pc = "reset" /\ sent = 0 /\ qpair = "live" /\ pc \notin Waits \cup Final
    BY <1>1, <1>2 DEF ResetAllZone, Stage, Waits, Final
  <2>2. CASE Submit([op |-> "reset", zone |-> 0, nlb |-> 0, all |-> TRUE], "wait_reset")
    <3>1. dev.zoned
      BY <1>1, <2>1 DEF Stage
    <3>2. sent + 1 \in 1 .. Requests + 2
      BY <1>1, <2>1
    <3> QED BY <2>1, <2>2, <3>1, <3>2, SubmitInv DEF Waits
  <2>3. CASE Goto("failed") /\ UNCHANGED <<qpairVars, attachVars>>
    BY <2>1, <2>3, SkipInv
  <2> QED BY <1>2, <2>2, <2>3 DEF ResetAllZone
<1>3. CASE ZnsInfo
  <2>1. pc = "info" /\ qpair = "live" /\ pc \notin Waits \cup Final
    BY <1>1, <1>3 DEF ZnsInfo, Stage, Waits, Final
  <2>2. CASE dev.zoned /\ Submit([op |-> "report", zone |-> 0, nlb |-> 0, all |-> FALSE], "wait_report")
    <3>1. sent = 1 /\ sent + 1 \in 1 .. Requests + 2
      BY <1>1, <2>1, <2>2 DEF Stage
    <3> QED BY <2>1, <2>2, <3>1, SubmitInv DEF Waits
  <2>3. CASE \E l \in {"failed", "hung"} : Goto(l) /\ UNCHANGED <<qpairVars, attachVars>>
    BY <2>1, <2>3, SkipInv
  <2>4. CASE ~dev.zoned /\ Goto("send") /\ UNCHANGED <<qpairVars, attachVars>>
    BY <2>1, <2>4, SkipInv
  <2> QED BY <1>3, <2>2, <2>3, <2>4 DEF ZnsInfo
<1>4. CASE SendReq
  <2>1. PICK zone \in 0 .. RandZones - 1, nlb \in Sizes :
          Submit([op |-> Request(Done), zone |-> zone, all |-> FALSE,
                  nlb |-> IF Request(Done) \in {"append", "read"} THEN nlb ELSE 1], "wait")
    BY <1>4 DEF SendReq
  <2>2. PICK op \in {"append", "read", "open", "close", "finish"} : op = Request(Done)
    BY DEF Request
  <2>3. PICK k \in Nat : k = IF op \in {"append", "read"} THEN nlb ELSE 1
    BY Counts
  <2>4. Submit([op |-> op, zone |-> zone, nlb |-> k, all |-> FALSE], "wait")
    BY <2>1, <2>2, <2>3
  <2>5. pc = "send" /\ dev.zoned /\ sent - 2 < Requests /\ qpair = "live" /\ pc \notin Waits \cup Final
        /\ sent >= 2
    BY <1>1, <1>4 DEF SendReq, Done, Stage, Waits, Final
  <2>6. sent + 1 \in 1 .. Requests + 2 /\ zone \in Nat
    BY <1>1, <2>5, Counts
  <2> QED BY <2>4, <2>5, <2>6, SubmitInv DEF Waits
<1> QED BY <1>2, <1>3, <1>4

\* The device executes the command, or fails it.
LEMMA DeviceInv == IInv /\ Device => IInv'
<1> SUFFICES ASSUME IInv, Device PROVE IInv'
  OBVIOUS
<1>1. PICK c \in inflight, ok \in BOOLEAN :
        /\ DeviceComplete(c)
        /\ IF ok /\ Succeeds(dev, zones, c)
           THEN zones' = After(dev, zones, c) /\ UNCHANGED failed
           ELSE failed' = failed \cup {c} /\ UNCHANGED zones
        /\ UNCHANGED <<app, dev, progVars, told, attachVars>>
  BY DEF Device
<1>2. /\ Typed /\ Stage /\ Registered /\ OneFlying /\ Ahead /\ Clean
  BY DEF IInv
<1>3. /\ c \in Command /\ Awaited(c) /\ inflight = {c} /\ cq = {}
      /\ outstanding_commands = 1 /\ pc \in Waits /\ failed = {} /\ Flying = {c}
  BY <1>1, <1>2 DEF OneFlying, Typed, QpairTypeOK, Flying
<1>4. zones = told
  BY <1>2, <1>3 DEF Ahead
<1>5. inflight' = {} /\ cq' = {c} /\ qpair' = qpair /\ Flying' = {c}
  BY <1>1, <1>3 DEF DeviceComplete, Flying
<1>6. UNCHANGED <<app, dev, pc, outstanding_commands, heap, sent, told, attachVars>>
  BY <1>1 DEF progVars
<1>7. PICK d : d = dev
  OBVIOUS
<1>8. PICK zs : zs = told
  OBVIOUS
<1>9. d \in Devices /\ zs \in Maps(d)
  BY <1>2, <1>7, <1>8 DEF Typed, ZoneMaps, Maps
<1>10. \/ Succeeds(d, zs, c) /\ zones' = After(d, zs, c) /\ failed' = {}
       \/ failed' = {c} /\ zones' = zs
  BY <1>1, <1>3, <1>4, <1>7, <1>8
<1>11. zones' \in Maps(d)
  BY <1>3, <1>9, <1>10, AfterTyped
<1>12. Typed'
  <2>1. AttachTypeOK'
    BY <1>2, <1>6, Detaching DEF Typed
  <2>2. zones' \in ZoneMaps'
    BY <1>6, <1>7, <1>11 DEF ZoneMaps, Maps
  <2>3. failed' \subseteq cq'
    BY <1>5, <1>10
  <2> QED BY <1>2, <1>3, <1>5, <1>6, <2>1, <2>2, <2>3 DEF Typed, QpairTypeOK, ZoneMaps
<1>13. Stage'
  BY <1>2, <1>5, <1>6 DEF Stage
<1>14. OneFlying'
  <2>1. Awaited(c)'
    BY <1>3, <1>6 DEF Awaited
  <2> QED BY <1>2, <1>3, <1>5, <1>6, <2>1 DEF OneFlying
<1>15. Ahead'
  BY <1>5, <1>6, <1>7, <1>8, <1>10 DEF Ahead
<1>16. Clean'
  BY <1>2, <1>3, <1>5, <1>6 DEF Clean, Waits
<1>17. Registered'
  <2>1. ListsExact => ListsExact'
    BY <1>6, SameLists
  <2> QED BY <1>2, <1>5, <1>6, <2>1 DEF Registered, attachVars
<1> QED BY <1>12, <1>13, <1>14, <1>15, <1>16, <1>17 DEF IInv

\* A callback runs.
LEMMA PollInv == IInv /\ Poll => IInv'
<1> SUFFICES ASSUME IInv, Poll PROVE IInv'
  OBVIOUS
<1>1. PICK c \in cq :
        /\ Reap({c})
        /\ Polled(c)
        /\ told' = IF c \in failed THEN told ELSE After(dev, told, c)
        /\ failed' = failed \ {c}
  BY DEF Poll
<1>2. /\ Typed /\ Stage /\ Registered /\ OneFlying /\ Ahead /\ Clean
  BY DEF IInv
<1>3. /\ c \in Command /\ Awaited(c) /\ inflight = {} /\ cq = {c}
      /\ outstanding_commands = 1 /\ pc \in Waits /\ Flying = {c}
      /\ failed \subseteq {c} /\ heap \subseteq {c}
  BY <1>1, <1>2 DEF OneFlying, Typed, QpairTypeOK, Flying
<1>4. /\ inflight' = {} /\ cq' = {} /\ qpair' = qpair /\ Flying' = {}
      /\ failed' = {} /\ heap' = {} /\ outstanding_commands' = 0
  BY <1>1, <1>3 DEF Reap, Polled, Flying
<1>5. UNCHANGED <<app, dev, sent, zones, attachVars>>
  BY DEF Poll
<1>6. PICK d : d = dev
  OBVIOUS
<1>7. PICK zs : zs = told
  OBVIOUS
<1>8. d \in Devices /\ zs \in Maps(d) /\ zones \in Maps(d)
  BY <1>2, <1>6, <1>7 DEF Typed, ZoneMaps, Maps
<1>9. /\ told' = zones
      /\ c \in failed => told' = zs
      /\ c \notin failed => Succeeds(d, zs, c) /\ told' = After(d, zs, c)
  <2>1. CASE c \in failed
    BY <1>1, <1>2, <1>3, <1>7, <2>1 DEF Ahead
  <2>2. CASE c \notin failed
    BY <1>1, <1>2, <1>3, <1>6, <1>7, <2>2 DEF Ahead
  <2> QED BY <2>1, <2>2
<1>10. pc' = IF c \in failed /\ pc # "wait" THEN "failed" ELSE pc
  BY <1>1 DEF Polled
<1>11. Typed'
  <2>1. AttachTypeOK'
    BY <1>2, <1>5, Detaching DEF Typed
  <2>2. zones' \in ZoneMaps' /\ told' \in ZoneMaps'
    BY <1>5, <1>6, <1>8, <1>9 DEF ZoneMaps, Maps
  <2>3. pc' \in Places
    BY <1>2, <1>10 DEF Typed, Places, Final
  <2> QED BY <1>2, <1>4, <1>5, <2>1, <2>2, <2>3 DEF Typed, QpairTypeOK
<1>12. Stage'
  BY <1>2, <1>3, <1>4, <1>5, <1>10 DEF Stage, Waits
<1>13. OneFlying' /\ Ahead'
  BY <1>4, <1>5, <1>9 DEF OneFlying, Ahead
<1>14. Clean'
  <2>1. CASE pc' = "wait_reset"
    <3>1. c.op = "reset" /\ c.all /\ c \notin failed
      BY <1>3, <1>10, <2>1 DEF Awaited
    <3> QED BY <1>9, <3>1, AfterReset DEF Clean
  <2>2. CASE pc' = "wait_report"
    <3>1. c.op = "report" /\ c \notin failed /\ pc = "wait_report"
      BY <1>3, <1>10, <2>2 DEF Awaited
    <3>2. told' = told
      BY <1>7, <1>8, <1>9, <3>1, AfterReport
    <3> QED BY <1>2, <3>1, <3>2 DEF Clean
  <2>3. CASE pc' \in {"wait", "failed"}
    BY <2>3 DEF Clean
  <2> QED BY <1>3, <1>10, <2>1, <2>2, <2>3 DEF Waits
<1>15. Registered'
  <2>1. ListsExact /\ ListsExact'
    BY <1>2, <1>3, <1>5, SameLists DEF Registered, Waits
  <2> QED BY <1>2, <1>3, <1>4, <1>5, <1>10, <2>1 DEF Registered, attachVars, Waits
<1> QED BY <1>11, <1>12, <1>13, <1>14, <1>15 DEF IInv

\* Every step of both programs and of the controller keeps the invariant.
LEMMA StepInv == IInv /\ [Next]_vars => IInv'
<1> SUFFICES ASSUME IInv, [Next]_vars PROVE IInv'
  OBVIOUS
<1>1. CASE App
  BY <1>1, StartInv, BetweenInv, SendInv, PollInv DEF App
<1>2. CASE Device
  BY <1>2, DeviceInv
<1>3. CASE UNCHANGED vars
  <2>1. UNCHANGED <<app, dev, pc, outstanding_commands, heap, sent, zones, failed, told,
                    qpair, inflight, cq, attachVars>>
    BY <1>3 DEF vars, progVars, devVars, qpairVars
  <2>2. AttachTypeOK' /\ (ListsExact => ListsExact')
    BY <2>1, SameLists, Detaching DEF IInv, Typed
  <2>3. Typed'
    BY <2>1, <2>2 DEF IInv, Typed, QpairTypeOK, ZoneMaps
  <2>4. Stage' /\ Clean' /\ Ahead' /\ OneFlying'
    BY <2>1 DEF IInv, Stage, Clean, Flying, Ahead, OneFlying, Awaited
  <2>5. Registered'
    BY <2>1, <2>2 DEF IInv, Registered, attachVars
  <2> QED BY <2>3, <2>4, <2>5 DEF IInv
<1> QED BY <1>1, <1>2, <1>3 DEF Next, Spin, Ended

\* The inductive invariant: the lists of controllers and namespaces, the stage of the
\* program, and that at most one command is outstanding, the one being waited for.
THEOREM Invariance == Spec => []IInv
<1> QED BY Initially, StepInv, PTL DEF Spec

\* Every variable keeps its type; in particular no write pointer leaves its zone.
THEOREM TypeCorrect == Spec => []TypeOK
<1>1. IInv => TypeOK
  <2> SUFFICES ASSUME IInv PROVE TypeOK
    OBVIOUS
  <2>1. ASSUME NEW zs \in {zones, told}, NEW z \in 0 .. dev.num_zone - 1
        PROVE  zs[z].state \in ZoneStates /\ zs[z].wp \in 0 .. dev.zcap
    <3>1. zs[z] \in [state : ZoneStates, wp : 0 .. dev.zcap]
      BY DEF IInv, Typed, ZoneMaps
    <3> QED BY <3>1
  <2> QED BY <2>1 DEF IInv, Typed, TypeOK, Places
<1> QED BY <1>1, Invariance, PTL

\* Until cleanup the two lists are those of the controllers attached, on any bus,
\* and the namespace the program drives is listed and attached.
THEOREM ListsKept == Spec => []Registered
<1> QED BY Invariance, PTL DEF IInv

\* One command at a time: each is answered and released before the next is sent,
\* and between commands the program knows the zones, for any device and any
\* number of requests.
THEOREM OneAtATime == Spec => []Synchronous
<1>1. IInv => Synchronous
  <2> SUFFICES ASSUME IInv PROVE Synchronous
    OBVIOUS
  <2>1. OneFlying /\ Ahead /\ Clean /\ Typed
    BY DEF IInv
  <2>2. Cardinality(Flying) <= 1 /\ outstanding_commands = Cardinality(Flying)
    <3>1. CASE outstanding_commands = 0 /\ Flying = {}
      BY <3>1, FS_EmptySet
    <3>2. CASE outstanding_commands = 1 /\ \E c \in Command : Flying = {c}
      BY <3>2, FS_Singleton
    <3>3. outstanding_commands = 1 => \E c \in Command : Flying = {c}
      BY <2>1 DEF OneFlying, Flying, Typed, QpairTypeOK
    <3> QED BY <2>1, <3>1, <3>2, <3>3 DEF OneFlying
  <2>3. Flying = {} => zones = told
    BY <2>1 DEF Ahead, Flying
  <2>4. ASSUME \/ sent = 1 /\ pc \in {"info", "free", "exit", "done"}
               \/ sent = 2 /\ pc = "send",
               NEW z \in DOMAIN zones
        PROVE  zones[z] = EmptyZone
    <3>1. Flying = {}
      BY <2>1, <2>4 DEF OneFlying, Waits
    <3>2. \A y \in DOMAIN told : told[y] = EmptyZone
      BY <2>1, <2>4 DEF Clean
    <3> QED BY <2>3, <3>1, <3>2
  <2>5. heap = {c \in Flying : c.op \notin {"reset", "report"}}
    BY <2>1 DEF OneFlying
  <2> QED BY <2>2, <2>3, <2>4, <2>5 DEF Synchronous
<1> QED BY <1>1, Invariance, PTL
-----------------------------------------------------------------------------
(* The way out.                                                            *)

\* What a program leaves behind when it returns, and the one place where it hangs: the
\* safety half of Terminates.
EndsReleased ==
    /\ pc = "done" => attached = {} /\ qpair \in {"none", "freed"} /\ heap = {}
    /\ pc = "hung" => app = "demo" /\ sent = 1

\* While cleanup detaches the head of the list, what is attached is listed; only demo
\* asks for a report of the zones.
Leaving ==
    /\ pc = "exit" => attached \subseteq {g_controllers[j] : j \in DOMAIN g_controllers}
    /\ pc = "done" => attached = {}
    /\ pc \in {"info", "hung"} => app = "demo"
    /\ pc = "hung" => sent = 1

\* What is in a list and not its head is in the tail.
LEMMA Tails ==
    ASSUME NEW S, NEW s \in Seq(S), s # << >>, NEW j \in DOMAIN s
    PROVE  s[j] = Head(s) \/ \E k \in DOMAIN Tail(s) : Tail(s)[k] = s[j]
<1>1. Len(s) \in Nat /\ Len(s) > 0 /\ DOMAIN s = 1 .. Len(s) /\ Head(s) = s[1]
  OBVIOUS
<1>2. DOMAIN Tail(s) = 1 .. Len(s) - 1 /\ \A k \in 1 .. Len(s) - 1 : Tail(s)[k] = s[k + 1]
  OBVIOUS
<1>3. CASE j = 1
  BY <1>1, <1>3
<1>4. CASE j # 1
  <2>1. j - 1 \in 1 .. Len(s) - 1 /\ (j - 1) + 1 = j
    BY <1>1, <1>4
  <2>2. Tail(s)[j - 1] = s[j]
    BY <1>2, <2>1
  <2> QED BY <1>2, <2>1, <2>2
<1> QED BY <1>3, <1>4

\* Steps that go somewhere else than to the exit or a report keep it.
LEMMA ElsewhereInv ==
    ASSUME pc' \notin {"exit", "done", "info", "hung"}
    PROVE  Leaving'
BY DEF Leaving

\* A step of main() to the label exit finds the lists complete.
LEMMA ExitInv ==
    ASSUME IInv, pc \notin {"exit", "done", "failed"}, Goto("exit"), UNCHANGED attachVars
    PROVE  Leaving'
<1>1. ListsExact
  BY DEF IInv, Registered
<1>2. attached' \subseteq {g_controllers'[j] : j \in DOMAIN g_controllers'}
  BY <1>1 DEF ListsExact, attachVars
<1> QED BY <1>2 DEF Leaving, Goto

\* cleanup detaches what it takes from the list.
LEMMA CleanupInv ==
    ASSUME IInv, Leaving, Cleanup
    PROVE  Leaving'
<1>1. pc = "exit" /\ attached \subseteq {g_controllers[j] : j \in DOMAIN g_controllers}
      /\ g_controllers \in Seq(DOMAIN bus)
  BY DEF Cleanup, Leaving, IInv, Typed, AttachTypeOK
<1>2. CASE FreeNamespaces /\ Goto("exit")
  BY <1>1, <1>2 DEF Leaving, Goto, FreeNamespaces
<1>3. CASE DetachFirst /\ Goto("exit")
  <2>1. /\ g_controllers # << >> /\ attached' = attached \ {Head(g_controllers)}
        /\ g_controllers' = Tail(g_controllers) /\ pc' = "exit"
    BY <1>3 DEF DetachFirst, Goto
  <2>2. PICK g \in Seq(DOMAIN bus) : g = g_controllers
    BY <1>1
  <2>3. ASSUME NEW c \in attached, c # Head(g) PROVE \E k \in DOMAIN Tail(g) : Tail(g)[k] = c
    <3>1. PICK j \in DOMAIN g : g[j] = c
      BY <1>1, <2>2
    <3> QED BY <2>1, <2>2, <2>3, <3>1, Tails
  <2>4. attached' \subseteq {g_controllers'[j] : j \in DOMAIN g_controllers'}
    BY <2>1, <2>2, <2>3
  <2> QED BY <2>1, <2>4 DEF Leaving
<1>4. CASE g_controllers = << >> /\ Goto("done") /\ UNCHANGED attachVars
  <2>1. attached = {} /\ pc' = "done" /\ attached' = attached
    BY <1>1, <1>4 DEF Goto, attachVars
  <2> QED BY <2>1 DEF Leaving
<1> QED BY <1>2, <1>3, <1>4 DEF Cleanup

\* Every step keeps it.
LEMMA LeavingStep ==
    ASSUME IInv, Leaving, [Next]_vars
    PROVE  Leaving'
<1>1. CASE Start
  <2>1. pc = "start" /\ UNCHANGED attachVars /\ \E l \in {"probe", "failed", "exit"} : Goto(l)
    BY <1>1 DEF Start
  <2>2. CASE Goto("exit")
    BY <2>1, <2>2, ExitInv
  <2>3. CASE ~Goto("exit")
    BY <2>1, <2>3, ElsewhereInv DEF Goto
  <2> QED BY <2>2, <2>3
<1>2. CASE Probe
  <2>1. pc = "probe" /\ \/ \E l \in {"probe", "failed", "alloc"} : Goto(l)
                        \/ Goto("exit") /\ UNCHANGED attachVars
    BY <1>2 DEF Probe
  <2>2. CASE Goto("exit") /\ UNCHANGED attachVars
    BY <2>1, <2>2, ExitInv
  <2>3. CASE \E l \in {"probe", "failed", "alloc"} : Goto(l)
    BY <2>3, ElsewhereInv DEF Goto
  <2> QED BY <2>1, <2>2, <2>3
<1>3. CASE AllocQpair
  <2>1. pc = "alloc" /\ UNCHANGED attachVars
        /\ \/ Goto("exit")
           \/ \E l \in {"reset", "info", "free"} : Goto(l) /\ (l = "info" => app = "demo")
    BY <1>3 DEF AllocQpair
  <2>2. CASE Goto("exit")
    BY <2>1, <2>2, ExitInv
  <2>3. CASE \E l \in {"reset", "info", "free"} : Goto(l) /\ (l = "info" => app = "demo")
    BY <2>3 DEF Goto, Leaving
  <2> QED BY <2>1, <2>2, <2>3
<1>4. CASE ZnsInfo
  <2>1. pc = "info" /\ app = "demo" /\ app' = app /\ (dev.zoned => sent = 1)
    BY <1>4 DEF ZnsInfo, Submit, Goto, Leaving, IInv, Stage
  <2>2. pc' \in {"wait_report", "failed", "send"} \/ (pc' = "hung" /\ sent' = sent /\ dev.zoned)
    BY <1>4 DEF ZnsInfo, Submit, Goto
  <2> QED BY <2>1, <2>2 DEF Leaving
<1>5. CASE Return
  <2>1. \E l \in {"info", "free", "send"} : Goto(l) /\ (l = "info" => app = "demo")
    BY <1>5 DEF Return
  <2> QED BY <2>1 DEF Goto, Leaving
<1>6. CASE FreeQpair
  BY <1>6, ExitInv DEF FreeQpair
<1>7. CASE Cleanup
  BY <1>7, CleanupInv
<1>8. CASE NoNamespace \/ ResetAllZone \/ SendReq \/ RequestFails \/ NoBuffer \/ RequestsDone
  <2>1. pc' \in {"crash", "wait_reset", "failed", "wait", "free"}
    BY <1>8 DEF NoNamespace, ResetAllZone, SendReq, RequestFails, NoBuffer, RequestsDone, Submit, Goto
  <2> QED BY <2>1, ElsewhereInv
<1>9. CASE Poll
  <2>1. pc \in Waits /\ pc' \in {pc, "failed"}
    BY <1>9 DEF Poll, Polled
  <2> QED BY <2>1, ElsewhereInv DEF Waits
<1>10. CASE Device
  BY <1>10 DEF Device, Leaving, progVars, attachVars
<1>11. CASE UNCHANGED vars
  BY <1>11 DEF Leaving, vars, progVars, attachVars
<1> QED BY <1>1, <1>2, <1>3, <1>4, <1>5, <1>6, <1>7, <1>8, <1>9, <1>10, <1>11
        DEF Next, App, Spin, Ended

\* A program that returns has freed its queue pair and its memory and detached every
\* controller, and only a refused zone report of demo can hang it.
THEOREM Released == Spec => []EndsReleased
<1>1. Init => Leaving
  BY DEF Init, Leaving
<1>2. IInv /\ Leaving /\ [Next]_vars => Leaving'
  BY LeavingStep
<1>3. IInv /\ Leaving => EndsReleased
  <2> SUFFICES ASSUME IInv, Leaving PROVE EndsReleased
    OBVIOUS
  <2>1. CASE pc = "done"
    <3>1. heap = {} /\ qpair # "live" /\ qpair \in {"none", "freed", "live"}
      BY <2>1, Idle DEF IInv, Stage, Typed, QpairTypeOK, Waits
    <3> QED BY <2>1, <3>1 DEF Leaving, EndsReleased
  <2>2. CASE pc # "done"
    BY <2>2 DEF Leaving, EndsReleased
  <2> QED BY <2>1, <2>2
<1> QED BY <1>1, <1>2, <1>3, Invariance, PTL DEF Spec
-----------------------------------------------------------------------------
(* The program runs out of steps.                                          *)

\* The places of main() in the order in which they are left for good, ...
Rank == [start |-> 9, probe |-> 8, alloc |-> 7, reset |-> 6, wait_reset |-> 6, info |-> 5,
         wait_report |-> 5, wait |-> 4, send |-> 3, free |-> 2, exit |-> 1,
         done |-> 0, failed |-> 0, crash |-> 0, hung |-> 0]

\* the steps of the command in flight (the device answers it and the program polls it),
Owed == IF inflight # {} THEN 2 ELSE IF cq # {} THEN 1 ELSE 0

\* the commands that may still be sent,
Unsent == Requests + 2 - sent

\* the controllers the probe has not come to, and the rounds of the loops of cleanup.
Unprobed == IF pc \in {"start", "probe"} THEN Cardinality(DOMAIN bus \ attached) ELSE 0
Listed == Len(g_controllers) + (IF g_namespaces = <<>> THEN 0 ELSE 1)

Variant == 4 * Unsent + 3 * Unprobed + Listed + Rank[pc] + Owed

\* A program that waits has a command the device or the queue pair still holds: the
\* three loops that poll until outstanding_commands is zero get the answer they need.
WaitAnswered == pc \in Waits /\ ~Waited => Flying # {}

THEOREM WaitsAnswered == Spec => []WaitAnswered
<1>1. IInv => WaitAnswered
  BY DEF IInv, OneFlying, WaitAnswered, Waited
<1> QED BY <1>1, Invariance, PTL

\* What each operation of the driver leaves to be done.
LEMMA OwedFacts ==
    ASSUME OneFlying
    PROVE  /\ Owed \in 0 .. 2 /\ Owed' \in 0 .. 2
           /\ pc \notin Waits \/ outstanding_commands = 0 => Owed = 0
           /\ \A c \in cq : Reap({c}) => Owed' < Owed
           /\ \A c : DeviceComplete(c) => Owed' < Owed
           /\ inflight' = {} /\ cq' = {} => Owed' = 0
           /\ UNCHANGED <<inflight, cq>> => Owed' = Owed
<1>1. Owed \in 0 .. 2 /\ Owed' \in 0 .. 2
  BY DEF Owed
<1>2. pc \notin Waits \/ outstanding_commands = 0 => Owed = 0
  BY DEF OneFlying, Flying, Owed
<1>3. ASSUME NEW c \in cq, Reap({c}) PROVE Owed' < Owed
  <2>1. inflight = {} /\ cq = {c}
    BY <1>3 DEF OneFlying, Flying
  <2>2. inflight' = {} /\ cq' = {}
    BY <1>3, <2>1 DEF Reap
  <2> QED BY <2>1, <2>2 DEF Owed
<1>4. ASSUME NEW c, DeviceComplete(c) PROVE Owed' < Owed
  <2>1. inflight = {c} /\ cq = {}
    BY <1>4 DEF OneFlying, Flying, DeviceComplete
  <2>2. inflight' = {} /\ cq' # {}
    BY <1>4, <2>1 DEF DeviceComplete
  <2> QED BY <2>1, <2>2 DEF Owed
<1>5. (inflight' = {} /\ cq' = {} => Owed' = 0) /\ (UNCHANGED <<inflight, cq>> => Owed' = Owed)
  BY DEF Owed
<1> QED BY <1>1, <1>2, <1>3, <1>4, <1>5

\* What the operations on the lists leave to be done.
LEMMA ListFacts ==
    ASSUME AttachTypeOK
    PROVE  /\ Unprobed \in Nat /\ Listed \in Nat
           /\ \A c : AttachCb(c) /\ pc = "probe" /\ pc' = "probe" =>
                /\ Unprobed' \in Nat /\ Unprobed' + 1 = Unprobed
                /\ Listed' \in Nat /\ Listed' <= Listed + 2
           /\ FreeNamespaces \/ DetachFirst => Listed' \in Nat /\ Listed' < Listed
           /\ UNCHANGED <<g_controllers, g_namespaces>> => Listed' = Listed
           /\ (UNCHANGED attachVars) /\ pc' \in {pc, "probe"} /\ pc \in {"start", "probe"} =>
                Unprobed' = Unprobed
           /\ pc' \notin {"start", "probe"} => Unprobed' = 0
<1>1. IsFiniteSet(DOMAIN bus \ attached) /\ Len(g_controllers) \in Nat
  BY BusesAssumption, FS_Subset DEF AttachTypeOK
<1>2. Cardinality(DOMAIN bus \ attached) \in Nat
  BY <1>1, FS_CardinalityType
<1>3. Unprobed \in Nat /\ Listed \in Nat
  BY <1>1, <1>2 DEF Unprobed, Listed
<1>4. ASSUME NEW c, AttachCb(c), pc = "probe", pc' = "probe"
      PROVE  /\ Unprobed' \in Nat /\ Unprobed' + 1 = Unprobed
             /\ Listed' \in Nat /\ Listed' <= Listed + 2
  <2>1. /\ c \in DOMAIN bus \ attached /\ bus' = bus
        /\ DOMAIN bus' \ attached' = (DOMAIN bus \ attached) \ {c}
        /\ g_controllers' = Append(g_controllers, c)
    BY <1>4 DEF AttachCb
  <2>2. Cardinality((DOMAIN bus \ attached) \ {c}) = Cardinality(DOMAIN bus \ attached) - 1
    BY <1>1, <2>1, FS_RemoveElement
  <2>3. Cardinality((DOMAIN bus \ attached) \ {c}) \in Nat
    BY <1>1, FS_Subset, FS_CardinalityType
  <2>4. Unprobed' \in Nat /\ Unprobed' + 1 = Unprobed
    <3>1. Unprobed = Cardinality(DOMAIN bus \ attached)
      BY <1>4 DEF Unprobed
    <3>2. Unprobed' = Cardinality(DOMAIN bus' \ attached')
      BY <1>4 DEF Unprobed
    <3>3. Unprobed' = Cardinality((DOMAIN bus \ attached) \ {c})
      BY <2>1, <3>2
    <3> QED BY <1>2, <2>2, <2>3, <3>1, <3>3
  <2>5. Len(g_controllers') = Len(g_controllers) + 1
    BY <2>1 DEF AttachTypeOK
  <2> QED BY <1>1, <2>4, <2>5 DEF Listed
<1>5. ASSUME FreeNamespaces PROVE Listed' \in Nat /\ Listed' < Listed
  BY <1>1, <1>5 DEF FreeNamespaces, Listed
<1>6. ASSUME DetachFirst PROVE Listed' \in Nat /\ Listed' < Listed
  <2>1. Len(g_controllers') = Len(g_controllers) - 1 /\ Len(g_controllers) > 0
    BY <1>6 DEF DetachFirst, AttachTypeOK
  <2> QED BY <1>1, <1>6, <2>1 DEF DetachFirst, Listed
<1>7. UNCHANGED <<g_controllers, g_namespaces>> => Listed' = Listed
  BY DEF Listed
<1>8. (UNCHANGED attachVars) /\ pc' \in {pc, "probe"} /\ pc \in {"start", "probe"} =>
          Unprobed' = Unprobed
  BY DEF Unprobed, attachVars
<1>9. pc' \notin {"start", "probe"} => Unprobed' = 0
  BY DEF Unprobed
<1> QED BY <1>3, <1>4, <1>5, <1>6, <1>7, <1>8, <1>9

\* Every step of the program and of the device is a step towards the end of main():
\* Variant falls, for any bus, any device and any number of requests, whatever the
\* device answers.  With WaitsAnswered this is what Terminates rests on, for every
\* instance.
THEOREM StepsRunOut == Spec => [](Variant \in Nat) /\ [][Variant' < Variant]_vars
<1>1. ASSUME IInv
      PROVE  /\ Variant \in Nat /\ Unsent \in Nat /\ Owed \in 0 .. 2 /\ Rank[pc] \in 0 .. 9
             /\ Unprobed \in Nat /\ Listed \in Nat
  <2>1. Unsent \in Nat
    BY <1>1, Counts DEF IInv, Typed, Unsent
  <2>2. Rank[pc] \in 0 .. 9
    <3>1. pc \in Places
      BY <1>1 DEF IInv, Typed
    <3> QED BY <3>1 DEF Places, Waits, Final, Rank
  <2>3. Owed \in 0 .. 2
    BY <1>1, OwedFacts DEF IInv
  <2>4. Unprobed \in Nat /\ Listed \in Nat
    BY <1>1, ListFacts DEF IInv, Typed
  <2> QED BY <2>1, <2>2, <2>3, <2>4 DEF Variant
<1>2. ASSUME IInv, [Next]_vars, vars' # vars PROVE Variant' < Variant
  <2>1. /\ Unsent \in Nat /\ Owed \in 0 .. 2 /\ Rank[pc] \in 0 .. 9
        /\ Unprobed \in Nat /\ Listed \in Nat
    BY <1>1, <1>2
  <2>2. /\ Owed' \in 0 .. 2
        /\ pc \notin Waits \/ outstanding_commands = 0 => Owed = 0
        /\ \A c \in cq : Reap({c}) => Owed' < Owed
        /\ \A c : DeviceComplete(c) => Owed' < Owed
        /\ inflight' = {} /\ cq' = {} => Owed' = 0
        /\ UNCHANGED <<inflight, cq>> => Owed' = Owed
    BY <1>2, OwedFacts DEF IInv
  <2>3. /\ \A c : AttachCb(c) /\ pc = "probe" /\ pc' = "probe" =>
             /\ Unprobed' \in Nat /\ Unprobed' + 1 = Unprobed
             /\ Listed' \in Nat /\ Listed' <= Listed + 2
        /\ FreeNamespaces \/ DetachFirst => Listed' \in Nat /\ Listed' < Listed
        /\ UNCHANGED <<g_controllers, g_namespaces>> => Listed' = Listed
        /\ (UNCHANGED attachVars) /\ pc' \in {pc, "probe"} /\ pc \in {"start", "probe"} =>
             Unprobed' = Unprobed
        /\ pc' \notin {"start", "probe"} => Unprobed' = 0
    BY <1>2, ListFacts DEF IInv, Typed
  <2>4. sent' = sent => Unsent' = Unsent
    BY DEF Unsent, Requests
  <2>5. ASSUME Unsent' = Unsent, Unprobed' \in Nat, Unprobed' <= Unprobed, Listed' \in Nat,
               Rank[pc]' \in 0 .. 9,
               3 * Unprobed' + Listed' + Rank[pc]' + Owed' < 3 * Unprobed + Listed + Rank[pc] + Owed
        PROVE  Variant' < Variant
    <3>1. PICK u, p, l, r, o, pp, ll, rr, oo :
              /\ u = Unsent /\ p = Unprobed /\ l = Listed /\ r = Rank[pc] /\ o = Owed
              /\ pp = Unprobed' /\ ll = Listed' /\ rr = Rank[pc]' /\ oo = Owed'
      OBVIOUS
    <3>2. /\ u \in Nat /\ p \in Nat /\ l \in Nat /\ r \in 0 .. 9 /\ o \in 0 .. 2
          /\ pp \in Nat /\ ll \in Nat /\ rr \in 0 .. 9 /\ oo \in 0 .. 2
          /\ 3 * pp + ll + rr + oo < 3 * p + l + r + o
      BY <2>1, <2>2, <2>5, <3>1
    <3>3. 4 * u + 3 * pp + ll + rr + oo < 4 * u + 3 * p + l + r + o
      BY ONLY <3>2
    <3> QED BY <2>5, <3>1, <3>3 DEF Variant
  \* A step of main() to another place that leaves the rest alone.
  <2>6. ASSUME NEW l, Goto(l), UNCHANGED <<attachVars, inflight, cq>>, Rank[l] < Rank[pc],
               Rank[l] \in 0 .. 9, l \notin {"start", "probe"} \/ (l = "probe" /\ pc = "start")
        PROVE  Variant' < Variant
    <3>1. pc' = l /\ sent' = sent /\ Owed' = Owed /\ Listed' = Listed
      BY <2>2, <2>3, <2>6 DEF Goto, attachVars
    <3>2. Unprobed' \in Nat /\ Unprobed' <= Unprobed
      BY <2>1, <2>3, <2>6, <3>1
    <3>3. Rank[pc]' = Rank[l]
      BY <3>1 DEF Rank
    <3> QED BY <2>1, <2>2, <2>4, <2>5, <2>6, <3>1, <3>2, <3>3
  \* A command is sent from a place of which the wait is not left for more.
  <2>7. ASSUME NEW c, NEW l \in Waits, Submit(c, l), pc \notin Waits, Rank[l] <= Rank[pc] + 1,
               pc \notin {"start", "probe"}
        PROVE  Variant' < Variant
    <3>1. pc' = l /\ sent' = sent + 1 /\ (UNCHANGED attachVars) /\ Owed = 0
      BY <2>2, <2>7 DEF Submit
    <3>2. Unsent' + 1 = Unsent /\ Unsent' \in Int
      BY <2>1, <3>1, <1>2, Counts DEF Unsent, Requests, IInv, Typed
    <3>3. Listed' = Listed /\ Unprobed' = 0 /\ Unprobed = 0
      BY <2>3, <2>7, <3>1 DEF attachVars, Waits, Unprobed
    <3>4. Rank[pc]' \in 0 .. 9 /\ Rank[pc]' <= Rank[pc] + 1
      BY <2>7, <3>1 DEF Rank, Waits
    <3>5. PICK u, v, n, r, o, rr, oo :
              /\ u = Unsent /\ v = Unsent' /\ n = Listed /\ r = Rank[pc] /\ o = Owed
              /\ rr = Rank[pc]' /\ oo = Owed'
      OBVIOUS
    <3>6. /\ u \in Nat /\ v \in Int /\ v + 1 = u /\ n \in Nat /\ r \in 0 .. 9 /\ o = 0
          /\ rr \in 0 .. 9 /\ rr <= r + 1 /\ oo \in 0 .. 2
      BY <2>1, <2>2, <3>1, <3>2, <3>4, <3>5
    <3>7. 4 * v + 3 * 0 + n + rr + oo < 4 * u + 3 * 0 + n + r + o
      BY ONLY <3>6
    <3> QED BY <3>3, <3>5, <3>7 DEF Variant
  <2>8. CASE Start
    <3>1. pc = "start" /\ (UNCHANGED <<qpairVars, attachVars>>)
          /\ \E l \in {"probe", "failed", "exit"} : Goto(l)
      BY <2>8 DEF Start
    <3> QED BY <2>6, <3>1 DEF Rank, qpairVars
  <2>9. CASE Probe
    <3>1. pc = "probe" /\ (UNCHANGED qpairVars)
      BY <2>9 DEF Probe
    <3>2. ASSUME NEW c, AttachCb(c), Goto("probe") PROVE Variant' < Variant
      <4>1. pc' = "probe" /\ sent' = sent /\ Owed' = Owed
        BY <2>2, <3>1, <3>2 DEF Goto, qpairVars
      <4>2. /\ Unprobed' \in Nat /\ Unprobed' + 1 = Unprobed
            /\ Listed' \in Nat /\ Listed' <= Listed + 2
        BY <2>3, <3>1, <3>2, <4>1
      <4>3. Rank[pc]' = Rank[pc]
        BY <3>1, <4>1
      <4>4. 3 * Unprobed' + Listed' + Rank[pc]' + Owed' < 3 * Unprobed + Listed + Rank[pc] + Owed
        <5>1. PICK u, v, l, ll, r, o :
                  /\ u = Unprobed /\ v = Unprobed' /\ l = Listed /\ ll = Listed'
                  /\ r = Rank[pc] /\ o = Owed
          OBVIOUS
        <5>2. /\ u \in Nat /\ v \in Nat /\ v + 1 = u /\ l \in Nat /\ ll \in Nat /\ ll <= l + 2
              /\ r \in 0 .. 9 /\ o \in 0 .. 2
          BY <2>1, <4>2, <5>1
        <5>3. 3 * v + ll + r + o < 3 * u + l + r + o
          BY ONLY <5>2
        <5> QED BY <4>1, <4>3, <5>1, <5>3
      <4>5. Unprobed' \in Nat /\ Unprobed' <= Unprobed /\ Listed' \in Nat /\ Rank[pc]' \in 0 .. 9
        <5>1. \A u, v \in Nat : v + 1 = u => v <= u
          OBVIOUS
        <5> QED BY <2>1, <4>2, <4>3, <5>1
      <4> QED BY <2>4, <2>5, <4>1, <4>4, <4>5
    <3>3. ASSUME NEW c, AttachFails(c), Goto("failed") PROVE Variant' < Variant
      <4>1. pc' = "failed" /\ sent' = sent /\ Owed' = Owed
        BY <2>2, <3>1, <3>3 DEF Goto, qpairVars
      <4>2. Unprobed' = 0 /\ Listed' = Listed
        BY <2>3, <3>3, <4>1 DEF AttachFails
      <4>3. Rank[pc]' = 0 /\ Rank[pc] = 8
        BY <3>1, <4>1 DEF Rank
      <4> QED BY <2>1, <2>4, <2>5, <4>1, <4>2, <4>3
    <3>4. ASSUME NEW l \in {"alloc", "exit"}, Goto(l), UNCHANGED attachVars
          PROVE  Variant' < Variant
      BY <2>6, <3>1, <3>4 DEF Rank, qpairVars
    <3> QED BY <2>9, <3>2, <3>3, <3>4 DEF Probe
  <2>10. CASE NoNamespace
    BY <2>6, <2>10 DEF NoNamespace, Rank, qpairVars
  <2>11. CASE AllocQpair
    <3>1. pc = "alloc" /\ (UNCHANGED <<attachVars, inflight, cq>>)
          /\ \E l \in {"reset", "info", "free", "exit"} : Goto(l)
      BY <2>11 DEF AllocQpair, AllocIoQpair, qpairVars
    <3> QED BY <2>6, <3>1 DEF Rank
  <2>12. CASE ResetAllZone
    <3>1. pc = "reset" /\ \/ \E c : Submit(c, "wait_reset")
                          \/ Goto("failed") /\ (UNCHANGED <<qpairVars, attachVars>>)
      BY <2>12 DEF ResetAllZone
    <3>2. Rank["wait_reset"] <= Rank["reset"] + 1 /\ Rank["failed"] = 0 /\ Rank["reset"] = 6
      BY DEF Rank
    <3> QED BY <2>6, <2>7, <3>1, <3>2 DEF Waits, qpairVars
  <2>13. CASE ZnsInfo
    <3>1. pc = "info" /\ \/ \E c : Submit(c, "wait_report")
                         \/ \E l \in {"failed", "hung", "send"} :
                                Goto(l) /\ (UNCHANGED <<qpairVars, attachVars>>)
      BY <2>13 DEF ZnsInfo
    <3>2. /\ Rank["wait_report"] <= Rank["info"] + 1 /\ Rank["info"] = 5
          /\ \A l \in {"failed", "hung", "send"} : Rank[l] \in 0 .. 3
      BY DEF Rank
    <3> QED BY <2>6, <2>7, <3>1, <3>2 DEF Waits, qpairVars
  <2>14. CASE SendReq
    <3>1. pc = "send" /\ \E c : Submit(c, "wait")
      BY <2>14 DEF SendReq
    <3>2. Rank["wait"] <= Rank["send"] + 1
      BY DEF Rank
    <3> QED BY <2>7, <3>1, <3>2 DEF Waits
  <2>15. CASE RequestFails \/ NoBuffer \/ RequestsDone
    <3>1. pc = "send" /\ (UNCHANGED <<qpairVars, attachVars>>)
          /\ \E l \in {"failed", "crash", "free"} : Goto(l)
      BY <2>15 DEF RequestFails, NoBuffer, RequestsDone
    <3> QED BY <2>6, <3>1 DEF Rank, qpairVars
  <2>16. CASE Poll
    <3>1. PICK c \in cq : Reap({c}) /\ Polled(c)
      BY <2>16 DEF Poll
    <3>2. pc \in Waits /\ pc' \in {pc, "failed"} /\ sent' = sent /\ (UNCHANGED attachVars)
      BY <2>16 DEF Poll, Polled
    <3>3. Owed' < Owed /\ Listed' = Listed /\ Unprobed' = 0
      BY <2>2, <2>3, <3>1, <3>2 DEF attachVars, Waits
    <3>4. Rank[pc]' \in 0 .. 9 /\ Rank[pc]' <= Rank[pc]
      BY <3>2 DEF Rank, Waits
    <3> QED BY <2>1, <2>2, <2>4, <2>5, <3>2, <3>3, <3>4
  <2>17. CASE Return
    <3>1. pc \in Waits /\ (UNCHANGED <<qpairVars, attachVars>>)
          /\ \/ pc = "wait_reset" /\ \E l \in {"info", "free"} : Goto(l)
             \/ Goto("send")
      BY <2>17 DEF Return
    <3> QED BY <2>6, <3>1 DEF Rank, Waits, qpairVars
  <2>18. CASE FreeQpair
    <3>1. pc = "free" /\ Goto("exit") /\ (UNCHANGED attachVars) /\ inflight' = {} /\ cq' = {}
      BY <2>18 DEF FreeQpair, FreeIoQpair
    <3>2. inflight = {} /\ cq = {}
      BY <1>2, <3>1, Idle DEF Waits
    <3> QED BY <2>6, <3>1, <3>2 DEF Rank
  <2>19. CASE Cleanup
    <3>1. pc = "exit" /\ (UNCHANGED qpairVars)
      BY <2>19 DEF Cleanup
    <3>2. ASSUME FreeNamespaces \/ DetachFirst, Goto("exit") PROVE Variant' < Variant
      <4>1. pc' = "exit" /\ sent' = sent /\ Owed' = Owed
        BY <2>2, <3>1, <3>2 DEF Goto, qpairVars
      <4>2. Listed' \in Nat /\ Listed' < Listed /\ Unprobed' = 0
        BY <2>3, <3>2, <4>1
      <4>3. Rank[pc]' = Rank[pc]
        BY <3>1, <4>1
      <4> QED BY <2>1, <2>4, <2>5, <4>1, <4>2, <4>3
    <3>3. ASSUME Goto("done"), UNCHANGED attachVars PROVE Variant' < Variant
      BY <2>6, <3>1, <3>3 DEF Rank, qpairVars
    <3> QED BY <2>19, <3>2, <3>3 DEF Cleanup
  <2>20. CASE Device
    <3>1. PICK c \in inflight : DeviceComplete(c)
      BY <2>20 DEF Device
    <3>2. pc' = pc /\ sent' = sent /\ (UNCHANGED attachVars)
      BY <2>20 DEF Device, progVars
    <3>3. pc \in Waits
      BY <1>2, <3>1, Idle
    <3>4. Owed' < Owed /\ Listed' = Listed /\ Unprobed' = 0 /\ Rank[pc]' = Rank[pc]
      BY <2>2, <2>3, <3>1, <3>2, <3>3 DEF attachVars, Waits
    <3> QED BY <2>1, <2>2, <2>4, <2>5, <3>2, <3>4
  <2> QED
    BY <1>2, <2>8, <2>9, <2>10, <2>11, <2>12, <2>13, <2>14, <2>15, <2>16, <2>17, <2>18, <2>19,
       <2>20 DEF Next, App, Spin, Ended
<1>3. IInv /\ [Next]_vars => [Variant' < Variant]_vars
  BY <1>2
<1> QED BY <1>1, <1>3, Invariance, PTL DEF Spec
=============================================================================
