------------------------- MODULE ZonedReplayProofs -------------------------
(***************************************************************************)
(* Theorems about ZonedReplay, for every load, namespace and depth.  What  *)
(* the recorded program left in the zones is computed command by command   *)
(* (Serial); the invariants say how far the replay agrees with it, however *)
(* the device orders the commands it holds.                                *)
(***************************************************************************)
EXTENDS ZonedReplay, FiniteSetTheorems, TLAPS

(* Induction over numbers, stated with sets.                               *)

\* A set that holds 0 and with a number below N the next one holds them all.
LEMMA Upward ==
    ASSUME NEW S, 0 \in S, NEW N \in Nat, \A n \in 0 .. N : n \in S /\ n < N => n + 1 \in S
    PROVE  0 .. N \subseteq S
<1> DEFINE C == {0 .. x : x \in (0 .. N) \ S}
<1>1. SUFFICES ASSUME C # {} PROVE FALSE
  OBVIOUS
<1>2. ASSUME NEW x \in 0 .. N PROVE 0 .. x \in SUBSET (0 .. N) /\ IsFiniteSet(0 .. x)
  <2>1. x \in Int /\ 0 \in Int
    OBVIOUS
  <2>2. IsFiniteSet(0 .. x)
    BY <2>1, FS_Interval
  <2> QED BY <2>2
<1>3. PICK M \in C : \A U \in C : ~(<<U, M>> \in StrictSubsetOrdering(0 .. N))
  <2>1. IsFiniteSet(0 .. N) /\ C \subseteq FiniteSubsetsOf(0 .. N)
    BY <1>2 DEF FiniteSubsetsOf
  <2> HIDE DEF C
  <2> QED BY <1>1, <2>1, FS_StrictSubsetOrderingWellFounded, WFMin
<1>4. PICK x \in (0 .. N) \ S : M = 0 .. x
  OBVIOUS
<1>5. x # 0 /\ x - 1 \in 0 .. N /\ x - 1 < N /\ (x - 1) + 1 = x
  BY <1>4
<1>6. x - 1 \in (0 .. N) \ S
  BY <1>5
<1>7. 0 .. x - 1 \in C /\ x \notin 0 .. x - 1 /\ x \in 0 .. x /\ 0 .. x - 1 \subseteq 0 .. x
  BY <1>5, <1>6
<1>8. <<0 .. x - 1, M>> \in StrictSubsetOrdering(0 .. N)
  BY <1>2, <1>4, <1>5, <1>7 DEF StrictSubsetOrdering
<1> QED BY <1>3, <1>7, <1>8

\* What a step function computes from a start, N steps far.
Computes(f, e, G, N) == f[0] = e /\ \A n \in 1 .. N : f[n] = G[<<n, f[n - 1]>>]

\* There is such a function: what has one up to n is a set as above.
LEMMA Recursion ==
    ASSUME NEW V, NEW e \in V, NEW G \in [Nat \X V -> V], NEW N \in Nat
    PROVE  \E f \in [0 .. N -> V] : Computes(f, e, G, N)
<1> DEFINE S == {m \in Nat : \E f \in [0 .. m -> V] : Computes(f, e, G, m)}
<1>1. 0 \in S
  <2> DEFINE f == [n \in 0 .. 0 |-> e]
  <2>1. f \in [0 .. 0 -> V] /\ Computes(f, e, G, 0)
    BY DEF Computes
  <2> QED BY <2>1
<1>2. ASSUME NEW m \in 0 .. N, m \in S PROVE m + 1 \in S
  <2>1. PICK f \in [0 .. m -> V] : Computes(f, e, G, m)
    BY <1>2
  <2> DEFINE g == [n \in 0 .. m + 1 |-> IF n = m + 1 THEN G[<<m + 1, f[m]>>] ELSE f[n]]
  <2>2. m \in Nat /\ m + 1 \in Nat /\ m \in 0 .. m /\ m + 1 \in 0 .. m + 1 /\ 0 \in 0 .. m
    OBVIOUS
  <2>3. g[m + 1] = G[<<m + 1, f[m]>>] /\ g[m + 1] \in V
    BY <2>2
  <2>4. ASSUME NEW n \in 0 .. m PROVE g[n] = f[n] /\ g[n] \in V /\ n \in 0 .. m + 1
    BY <2>2
  <2>5. g \in [0 .. m + 1 -> V]
    BY <2>2
  <2>6. ASSUME NEW n \in 1 .. m + 1 PROVE g[n] = G[<<n, g[n - 1]>>]
    <3>1. CASE n = m + 1
      <4>1. n - 1 = m
        BY <3>1
      <4> HIDE DEF g
      <4> QED BY <2>2, <2>3, <2>4, <3>1, <4>1
    <3>2. CASE n \in 1 .. m
      <4>1. n \in 0 .. m /\ n - 1 \in 0 .. m
        BY <3>2
      <4> HIDE DEF g
      <4> QED BY <2>1, <2>4, <3>2, <4>1 DEF Computes
    <3> QED BY <3>1, <3>2
  <2>7. Computes(g, e, G, m + 1)
    <3>1. g[0] = e
      <4> HIDE DEF g
      <4> QED BY <2>1, <2>2, <2>4 DEF Computes
    <3> HIDE DEF g
    <3> QED BY <2>6, <3>1 DEF Computes
  <2> HIDE DEF g
  <2> QED BY <2>2, <2>5, <2>7
<1>3. 0 .. N \subseteq S
  <2> HIDE DEF S
  <2> QED BY <1>1, <1>2, Upward
<1> QED BY <1>3
-----------------------------------------------------------------------------
(* Commands and zones.                                                     *)

\* The commands as the device receives them, and the zones of a namespace.
Orders == [op : {"read", "append", "extend", "other"} \cup Actions, zone : Nat, nlb : 1 .. BlockWord, all : BOOLEAN]
ZoneValues(d) == [state : ZoneStates, wp : 0 .. d.zcap]
Maps(d) == [0 .. d.num_zone - 1 -> ZoneValues(d)]

\* The types of a namespace and of a command.
LEMMA DeviceFacts ==
    ASSUME NEW d \in Devices
    PROVE  /\ d.num_zone \in Nat /\ d.max_open \in Nat /\ d.max_active \in Nat
           /\ d.zone_size \in Nat /\ d.zone_size > 0 /\ d.zcap \in Nat /\ d.zcap > 0
BY ZonedReplayAssumption

\* The types of a load's commands, and of what the device receives for them.
LEMMA CommandFacts ==
    ASSUME NEW l \in Loads
    PROVE  /\ l \in Seq(Commands) /\ Len(l) \in Nat /\ DOMAIN l = 1 .. Len(l)
           /\ \A k \in 1 .. Len(l) :
                 /\ l[k] \in Commands
                 /\ l[k].all => l[k].op \in Actions
                 /\ Meant(l[k]) \in Orders
<1>1. l \in Seq(Commands)
  BY ZonedReplayAssumption
<1>2. Len(l) \in Nat /\ DOMAIN l = 1 .. Len(l)
  BY <1>1
<1>3. ASSUME NEW k \in 1 .. Len(l)
      PROVE  l[k] \in Commands /\ (l[k].all => l[k].op \in Actions) /\ Meant(l[k]) \in Orders
  <2>1. l[k] \in Commands
    BY <1>1
  <2>2. l[k].all => l[k].op \in Actions
    BY <1>2, ZonedReplayAssumption
  <2>3. Meant(l[k]) \in Orders
    BY <2>1 DEF Meant, Orders, Commands, Actions, Ignored
  <2> QED BY <2>1, <2>2, <2>3
<1> QED BY <1>1, <1>2, <1>3

\* Remainder and quotient by what was added last.
LEMMA Packed ==
    ASSUME NEW w \in Nat, w > 0, NEW q \in Nat, NEW r \in 0 .. w - 1
    PROVE  (q * w + r) % w = r /\ (q * w + r) \div w = q
<1>1. PICK a \in Nat : a = q * w + r
  <2>1. q * w \in Nat
    OBVIOUS
  <2> QED BY <2>1
<1>2. PICK b \in Int, c \in 0 .. w - 1 : a = w * b + c /\ a % w = c /\ a \div w = b
  <2>1. a = w * (a \div w) + (a % w) /\ a % w \in 0 .. w - 1 /\ a \div w \in Int
    BY <1>1
  <2> QED BY <2>1
<1>3. w * (q - b) = c - r
  BY <1>1, <1>2
<1>4. PICK t \in Int : t = q - b
  OBVIOUS
<1>5. t >= 1 => w * t >= w
  OBVIOUS
<1>6. t <= -1 => w * t <= -w
  OBVIOUS
<1>7. w * t < w /\ w * t > -w
  BY <1>2, <1>3, <1>4
<1>8. t = 0
  BY ONLY t \in Int, w \in Nat, <1>5, <1>6, <1>7
<1>9. q = b /\ w * t = 0
  BY <1>4, <1>8
<1>10. c = r
  BY <1>2, <1>3, <1>4, <1>9
<1> QED BY <1>1, <1>2, <1>9, <1>10

\* Two words hold a number below the square of their range.
LEMMA Joined ==
    ASSUME NEW w \in Nat, w > 0, NEW a \in Nat, a < w * w
    PROVE  (a % w) + ((a \div w) % w) * w = a
<1>1. PICK q \in Nat, r \in 0 .. w - 1 : a = w * q + r /\ a % w = r /\ a \div w = q
  <2>1. a = w * (a \div w) + (a % w) /\ a % w \in 0 .. w - 1 /\ a \div w \in Nat
    OBVIOUS
  <2> QED BY <2>1
<1>2. q < w
  <2>1. SUFFICES ASSUME q >= w PROVE FALSE
    OBVIOUS
  <2>2. PICK t \in Nat : q = w + t
    <3>1. q - w \in Nat /\ q = w + (q - w)
      BY <2>1
    <3> QED BY <3>1
  <2>3. w * q = w * w + w * t /\ w * t \in Nat /\ w * w \in Nat
    BY <2>2
  <2> QED BY <1>1, <2>3
<1>3. q % w = q
  <2>1. q \in 0 .. w - 1 /\ 0 \in Nat /\ 0 * w + q = q
    BY <1>2
  <2>2. (0 * w + q) % w = q
    BY ONLY <2>1, Packed, w \in Nat, w > 0
  <2> QED BY <2>1, <2>2
<1>4. r + q * w = a
  BY <1>1
<1> QED BY <1>1, <1>3, <1>4

\* The replay decodes what was recorded, unless it ignores it: only a write has
\* become an append.
LEMMA RoundTrip ==
    ASSUME dev \in Devices, load \in Loads, NEW k \in 1 .. Len(load)
    PROVE  /\ Op(Encode(load[k])) # "none" <=> load[k].op \notin Ignored
           /\ load[k].op \notin Ignored => Command(Encode(load[k])) = Meant(load[k])
<1> DEFINE c == load[k]
           e == Encode(c)
<1>1. /\ c \in Commands /\ (c.all => c.op \in Actions) /\ c.off < dev.zone_size
      /\ c.zone * dev.zone_size + c.off < DWord * DWord
  <2>1. k \in DOMAIN load
    BY CommandFacts
  <2> QED BY <2>1, CommandFacts, ZonedReplayAssumption
<1> HIDE DEF c
<1>2. /\ c.op \in {"read", "write", "append"} \cup Actions \cup Ignored
      /\ c.zone \in Nat /\ c.off \in Nat /\ c.nlb \in 1 .. BlockWord /\ c.all \in BOOLEAN
      /\ c.flags \in Nat
  BY <1>1 DEF Commands
<1>3. slba(e) \div dev.zone_size = c.zone
  <2>1. dev.zone_size \in Nat /\ dev.zone_size > 0 /\ c.off \in 0 .. dev.zone_size - 1
    BY <1>1, <1>2, DeviceFacts
  <2>2. (c.zone * dev.zone_size + c.off) \div dev.zone_size = c.zone
    BY <1>2, <2>1, Packed
  <2>3. PICK a \in Nat : a = c.zone * dev.zone_size + c.off
    <3>1. c.zone * dev.zone_size \in Nat
      BY <1>2, <2>1
    <3>2. c.zone * dev.zone_size + c.off \in Nat
      BY ONLY <1>2, <3>1
    <3> QED BY <3>2
  <2>4. (a % DWord) + ((a \div DWord) % DWord) * DWord = a
    <3>1. DWord \in Nat /\ DWord > 0
      BY ZonedReplayAssumption
    <3>2. a < DWord * DWord
      BY <1>1, <2>3
    <3> QED BY <3>1, <3>2, Joined
  <2>5. e.cdw10 = a % DWord /\ e.cdw11 = a \div DWord
    BY <2>3 DEF Encode
  <2>6. slba(e) = a
    <3> HIDE DEF e
    <3> QED BY <2>4, <2>5 DEF slba
  <2> QED BY <2>2, <2>3, <2>6
<1>4. (e.cdw12 % BlockWord) + 1 = c.nlb
  <2>1. BlockWord \in Nat /\ BlockWord > 0 /\ c.nlb - 1 \in 0 .. BlockWord - 1
    BY <1>2, ZonedReplayAssumption
  <2>2. (c.flags * BlockWord + (c.nlb - 1)) % BlockWord = c.nlb - 1
    BY <1>2, <2>1, Packed
  <2>3. c.flags * BlockWord + c.nlb - 1 = c.flags * BlockWord + (c.nlb - 1)
    <3>1. c.flags * BlockWord \in Int /\ c.nlb \in Int
      BY <1>2, <2>1
    <3> QED BY ONLY <3>1
  <2>4. e.cdw12 = c.flags * BlockWord + c.nlb - 1
    BY DEF Encode
  <2>5. (c.nlb - 1) + 1 = c.nlb
    BY <1>2
  <2> QED BY <2>2, <2>3, <2>4, <2>5
<1>5. ASSUME c.op \in Actions \cup {"extend"}
      PROVE  /\ e.opc = "ZONE_MGMT_SEND" /\ e.cdw13 % SelectAll = ActionCode[c.op]
             /\ select_all(e) = c.all
  <2>1. c.op \notin {"read", "write", "append", "zeroes", "other"}
    BY <1>5 DEF Actions
  <2>2. e.opc = "ZONE_MGMT_SEND"
    BY <2>1 DEF Encode
  <2>3. PICK a \in 1 .. SelectAll - 1 : a = ActionCode[c.op]
    BY <1>5, ZonedReplayAssumption
  <2>4. PICK b \in {0, 1} : b = IF c.all THEN 1 ELSE 0
    OBVIOUS
  <2>5. e.cdw13 = b * SelectAll + a
    <3>1. e.cdw13 = a + (IF c.all THEN SelectAll ELSE 0)
      BY <1>5, <2>3 DEF Encode
    <3>2. SelectAll \in Nat
      BY ZonedReplayAssumption
    <3> QED BY <2>4, <3>1, <3>2
  <2>6. e.cdw13 % SelectAll = a /\ e.cdw13 \div SelectAll = b
    <3>1. SelectAll \in Nat /\ SelectAll > 0 /\ a \in 0 .. SelectAll - 1
      BY ZonedReplayAssumption
    <3> QED BY <2>5, <3>1, Packed
  <2>7. b % 2 = b
    OBVIOUS
  <2>8. select_all(e) = c.all
    <3> HIDE DEF e
    <3> QED BY <1>2, <2>2, <2>4, <2>6, <2>7 DEF select_all
  <2> QED BY <2>2, <2>3, <2>6, <2>8
<1>6. CASE c.op \in Actions
  <2>1. c.op \notin {"write", "zeroes", "none"} \cup Ignored
    BY <1>6 DEF Actions, Ignored
  <2>2. Op(e) = c.op
    <3>1. c.op = CHOOSE x \in Actions : ActionCode[x] = ActionCode[c.op]
      BY <1>6, ZonedReplayAssumption
    <3>2. Op(e) = CHOOSE x \in Actions : ActionCode[x] = e.cdw13 % SelectAll
      <4>1. \E x \in Actions : ActionCode[x] = e.cdw13 % SelectAll
        BY <1>5, <1>6
      <4> HIDE DEF e
      <4> QED BY <1>5, <1>6, <4>1 DEF Op
    <3> QED BY <1>5, <1>6, <3>1, <3>2
  <2>3. Meant(c).op = c.op
    BY <2>1 DEF Meant
  <2> HIDE DEF e
  <2>4. Command(e) = Meant(c)
    BY <1>2, <1>3, <1>4, <1>5, <1>6, <2>2, <2>3 DEF Command, Meant
  <2> QED BY <2>1, <2>2, <2>4 DEF c, e
<1>7. CASE c.op \in {"read", "write", "append"}
  <2>1. c.op \notin Actions \cup Ignored /\ ~c.all
    BY <1>1, <1>7 DEF Actions, Ignored
  <2>2. /\ c.op = "read" => e.opc = "READ"
        /\ c.op = "write" => e.opc = "WRITE"
        /\ c.op = "append" => e.opc = "ZONE_APPEND"
    BY DEF Encode
  <2>3. Op(e) = Meant(c).op /\ Op(e) # "none"
    <3> HIDE DEF e
    <3> QED BY <1>7, <2>2 DEF Op, Meant
  <2>4. select_all(e) = c.all
    <3> HIDE DEF e
    <3> QED BY <1>2, <1>7, <2>1, <2>2 DEF select_all
  <2> HIDE DEF e
  <2>5. Command(e) = Meant(c)
    BY <1>2, <1>3, <1>4, <2>1, <2>3, <2>4 DEF Command, Meant
  <2> QED BY <2>1, <2>3, <2>5 DEF c, e
<1>8. CASE c.op \in Ignored
  <2>1. Op(e) = "none"
    <3>1. CASE c.op \in {"zeroes", "other"}
      <4>1. e.opc \in {"WRITE_ZEROES", "FLUSH"}
        BY <3>1 DEF Encode
      <4> HIDE DEF e
      <4> QED BY <4>1 DEF Op
    <3>2. CASE c.op = "extend"
      <4>1. "extend" \notin Actions
        BY DEF Actions
      <4>2. ~(\E x \in Actions : ActionCode[x] = e.cdw13 % SelectAll)
        BY <1>5, <3>2, <4>1, ZonedReplayAssumption
      <4>3. e.opc = "ZONE_MGMT_SEND"
        BY <1>5, <3>2
      <4> HIDE DEF e
      <4> QED BY <4>2, <4>3 DEF Op
    <3> QED BY <1>8, <3>1, <3>2 DEF Ignored
  <2> QED BY <1>8, <2>1 DEF c, e
<1> QED BY <1>2, <1>6, <1>7, <1>8
-----------------------------------------------------------------------------
(* What a command does to the zones.                                       *)

\* A zone, for a command to this zone only, when no limit is in the way.
Allowed(d, zn, c) ==
    /\ c.op = "append" => zn.state # "full" /\ zn.wp + c.nlb <= d.zcap
    /\ c.op = "open" => zn.state # "full"
    /\ c.op = "close" => zn.state \in {"implicit", "explicit", "closed"}
    /\ c.op # "offline"
Alone(d, zn, c) == IF Allowed(d, zn, c) THEN ZoneAfter(d, zn, c) ELSE zn

\* A command that is executed leaves zones of the namespace.
LEMMA AfterType ==
    ASSUME NEW d \in Devices, NEW zs \in Maps(d), NEW c \in Orders
    PROVE  After(d, zs, c) \in Maps(d)
<1>1. CASE ~Succeeds(d, zs, c)
  BY <1>1 DEF After
<1>2. CASE Succeeds(d, zs, c)
  <2>1. ASSUME NEW z \in 0 .. d.num_zone - 1, z \in Targets(zs, c)
        PROVE  ZoneAfter(d, zs[z], c) \in ZoneValues(d)
    <3>1. PICK zn \in ZoneValues(d) : zn = zs[z]
      BY DEF Maps
    <3>2. zn.state \in ZoneStates /\ zn.wp \in 0 .. d.zcap /\ d.zcap \in Nat /\ c.nlb \in Nat
      BY <3>1, DeviceFacts DEF ZoneValues, Orders
    <3>3. CASE c.op = "append"
      <4>1. zn.wp + c.nlb <= d.zcap
        BY <1>2, <2>1, <3>1, <3>3 DEF Succeeds
      <4>2. zn.wp + c.nlb \in 0 .. d.zcap
        BY <3>2, <4>1
      <4>3. ZoneAfter(d, zn, c) = [wp |-> zn.wp + c.nlb,
                                   state |-> IF zn.wp + c.nlb = d.zcap THEN "full"
                                             ELSE IF zn.state = "explicit" THEN "explicit"
                                             ELSE "implicit"]
        BY <3>3 DEF ZoneAfter
      <4> QED BY <3>1, <4>2, <4>3 DEF ZoneValues, ZoneStates
    <3>4. CASE c.op = "finish"
      BY <3>1, <3>2, <3>4 DEF ZoneAfter, ZoneValues, ZoneStates
    <3>5. CASE c.op = "reset"
      BY <3>1, <3>2, <3>5 DEF ZoneAfter, ZoneValues, ZoneStates, EmptyZone
    <3>6. CASE c.op \in {"open", "close"}
      BY <3>1, <3>2, <3>6 DEF ZoneAfter, ZoneValues, ZoneStates
    <3>7. CASE c.op \notin {"append", "finish", "reset", "open", "close"}
      BY <3>1, <3>7 DEF ZoneAfter
    <3> QED BY <3>3, <3>4, <3>5, <3>6, <3>7
  <2> QED BY <1>2, <2>1 DEF After, Maps
<1> QED BY <1>1, <1>2

\* Reads and the like change no zone.
LEMMA AfterRead ==
    ASSUME NEW d, NEW zs \in Maps(d), NEW c, c.op \in {"read", "other"}
    PROVE  After(d, zs, c) = zs
<1>1. \A z \in DOMAIN zs : ZoneAfter(d, zs[z], c) = zs[z]
  BY DEF ZoneAfter
<1>2. zs = [z \in DOMAIN zs |-> zs[z]]
  BY DEF Maps
<1> QED BY <1>1, <1>2 DEF After

\* An action with Select All that is repeated finds nothing more to do.
LEMMA AfterTwice ==
    ASSUME NEW d, NEW zs \in Maps(d), NEW c, c.all, c.op \in Actions
    PROVE  After(d, After(d, zs, c), c) = After(d, zs, c)
<1> DEFINE ys == After(d, zs, c)
<1>1. CASE ~Succeeds(d, zs, c)
  BY <1>1 DEF After
<1>2. CASE Succeeds(d, zs, c)
  <2>1. /\ ys = [z \in DOMAIN zs |-> IF z \in Targets(zs, c) THEN ZoneAfter(d, zs[z], c) ELSE zs[z]]
        /\ c.op # "offline"
    BY <1>2 DEF After, Succeeds
  <2> HIDE DEF ys
  <2>2. /\ DOMAIN ys = DOMAIN zs
        /\ \A z \in DOMAIN zs : ys[z] = IF z \in Targets(zs, c) THEN ZoneAfter(d, zs[z], c) ELSE zs[z]
    BY <2>1
  <2>3. \A z \in DOMAIN zs : \E st, w : zs[z] = [state |-> st, wp |-> w]
    BY DEF Maps, ZoneValues
  <2>4. ASSUME NEW z \in DOMAIN ys, z \in Targets(ys, c) PROVE ZoneAfter(d, ys[z], c) = ys[z]
    <3>1. CASE c.op = "reset"
      <4>1. ys[z] = EmptyZone
        BY <2>2, <2>4, <3>1 DEF Targets, ZoneAfter
      <4> QED BY <3>1, <4>1 DEF ZoneAfter
    <3>2. CASE c.op = "open"
      <4>1. ys[z].state = "closed"
        BY <2>4, <3>2 DEF Targets, InState
      <4>2. z \in Targets(zs, c) => ys[z].state = "explicit"
        BY <2>2, <2>3, <2>4, <3>2 DEF ZoneAfter
      <4>3. z \notin Targets(zs, c) => zs[z].state # "closed"
        BY <2>2, <2>4, <3>2 DEF Targets, InState
      <4> QED BY <2>2, <2>4, <4>1, <4>2, <4>3
    <3>3. CASE c.op = "close"
      <4>1. ys[z].state \in {"implicit", "explicit"}
        BY <2>4, <3>3 DEF Targets, InState, Open
      <4>2. z \in Targets(zs, c) => ys[z].state \in {"empty", "closed"}
        BY <2>2, <2>3, <2>4, <3>3 DEF ZoneAfter
      <4>3. z \notin Targets(zs, c) => zs[z].state \notin {"implicit", "explicit"}
        BY <2>2, <2>4, <3>3 DEF Targets, InState, Open
      <4> QED BY <2>2, <2>4, <4>1, <4>2, <4>3
    <3>4. CASE c.op = "finish"
      <4>1. ys[z].state \in {"implicit", "explicit", "closed"}
        BY <2>4, <3>4 DEF Targets, InState, Open, Active
      <4>2. z \in Targets(zs, c) => ys[z].state = "full"
        BY <2>2, <2>4, <3>4 DEF ZoneAfter
      <4>3. z \notin Targets(zs, c) => zs[z].state \notin {"implicit", "explicit", "closed"}
        BY <2>2, <2>4, <3>4 DEF Targets, InState, Open, Active
      <4> QED BY <2>2, <2>4, <4>1, <4>2, <4>3
    <3> QED BY <2>1, <3>1, <3>2, <3>3, <3>4 DEF Actions
  <2>5. [z \in DOMAIN ys |-> IF z \in Targets(ys, c) THEN ZoneAfter(d, ys[z], c) ELSE ys[z]]
           = [z \in DOMAIN ys |-> ys[z]]
    BY <2>4
  <2>6. ys = [z \in DOMAIN ys |-> ys[z]]
    BY <2>1
  <2> QED BY <2>5, <2>6 DEF After, ys
<1> QED BY <1>1, <1>2

\* Such actions of one kind do the same.
LEMMA SameForAll ==
    ASSUME NEW d, NEW zs, NEW a, NEW b, a.all, b.all, a.op = b.op, a.op \in Actions
    PROVE  After(d, zs, a) = After(d, zs, b)
<1>1. Targets(zs, a) = Targets(zs, b) /\ a.op # "append"
  BY DEF Targets, Actions
<1>2. Succeeds(d, zs, a) <=> Succeeds(d, zs, b)
  BY <1>1 DEF Succeeds
<1>3. \A z : ZoneAfter(d, zs[z], a) = ZoneAfter(d, zs[z], b)
  BY <1>1 DEF ZoneAfter
<1> QED BY <1>1, <1>2, <1>3 DEF After

\* Where every zone may be open, a command to one zone depends on this zone alone.
LEMMA Independent ==
    ASSUME NEW d \in Devices, NEW zs \in Maps(d), NEW c \in Orders, ~c.all,
           d.num_zone <= d.max_open, d.num_zone <= d.max_active
    PROVE  /\ Succeeds(d, zs, c) <=> c.zone \in 0 .. d.num_zone - 1 /\ Allowed(d, zs[c.zone], c)
           /\ After(d, zs, c) =
                 [z \in 0 .. d.num_zone - 1 |-> IF z = c.zone THEN Alone(d, zs[z], c) ELSE zs[z]]
<1>1. Targets(zs, c) = {c.zone} /\ DOMAIN zs = 0 .. d.num_zone - 1
  BY DEF Targets, Maps
<1>2. ASSUME c.zone \in DOMAIN zs PROVE CanOpen(d, zs, {c.zone})
  <2>1. IsFiniteSet(DOMAIN zs) /\ Cardinality(DOMAIN zs) = d.num_zone
    <3>1. 0 \in Int /\ d.num_zone - 1 \in Int /\ d.num_zone \in Nat
      BY DeviceFacts
    <3>2. IsFiniteSet(0 .. d.num_zone - 1)
          /\ Cardinality(0 .. d.num_zone - 1) =
                IF 0 > d.num_zone - 1 THEN 0 ELSE d.num_zone - 1 - 0 + 1
      BY <3>1, FS_Interval
    <3> QED BY <1>1, <3>1, <3>2
  <2>2. \A X \in SUBSET DOMAIN zs : Cardinality(X) \in Nat /\ Cardinality(X) <= d.num_zone
    <3>1. ASSUME NEW X \in SUBSET DOMAIN zs
          PROVE  Cardinality(X) \in Nat /\ Cardinality(X) <= d.num_zone
      <4>1. IsFiniteSet(X) /\ Cardinality(X) <= Cardinality(DOMAIN zs)
        BY <2>1, FS_Subset
      <4> QED BY <2>1, <4>1, FS_CardinalityType
    <3> QED BY <3>1
  <2>3. /\ Open(zs) \cup {c.zone} \in SUBSET DOMAIN zs
        /\ Active(zs) \cup {c.zone} \in SUBSET DOMAIN zs
    BY <1>2 DEF Open, Active, InState
  <2>4. d.num_zone \in Nat /\ d.max_open \in Nat /\ d.max_active \in Nat
    BY DeviceFacts
  <2> QED BY <2>2, <2>3, <2>4 DEF CanOpen
<1>3. c.zone \in DOMAIN zs => (c.zone \in Active(zs) <=>
          zs[c.zone].state \in {"implicit", "explicit", "closed"})
  BY DEF Active, Open, InState
<1>4. Succeeds(d, zs, c) <=> c.zone \in 0 .. d.num_zone - 1 /\ Allowed(d, zs[c.zone], c)
  BY <1>1, <1>2, <1>3 DEF Succeeds, Allowed
<1>5. After(d, zs, c) =
        [z \in 0 .. d.num_zone - 1 |-> IF z = c.zone THEN Alone(d, zs[z], c) ELSE zs[z]]
  <2>1. CASE Succeeds(d, zs, c)
    BY <1>1, <1>4, <2>1 DEF After, Alone
  <2>2. CASE ~Succeeds(d, zs, c)
    <3>1. \A z \in DOMAIN zs : zs[z] = IF z = c.zone THEN Alone(d, zs[z], c) ELSE zs[z]
      BY <1>1, <1>4, <2>2 DEF Alone
    <3>2. zs = [z \in DOMAIN zs |-> zs[z]]
      BY DEF Maps
    <3>3. zs = [z \in DOMAIN zs |-> IF z = c.zone THEN Alone(d, zs[z], c) ELSE zs[z]]
      BY <3>1, <3>2
    <3> QED BY <1>1, <2>2, <3>3 DEF After
  <2> QED BY <2>1, <2>2
<1> QED BY <1>4, <1>5
-----------------------------------------------------------------------------
(* What the recorded program left.                                         *)

\* The function that Serial is.
IsSerial(f) ==
    f = [n \in 0 .. Len(load) |-> IF n = 0 THEN start
                                  ELSE After(dev, f[n - 1], Meant(load[n]))]

Typed ==
    /\ dev \in Devices /\ load \in Loads /\ depth \in Nat \ {0}
    /\ start \in Maps(dev)
    /\ \A z \in DOMAIN start : start[z].state = "full" => start[z].wp = dev.zcap
    /\ zones \in Maps(dev)

\* It exists, and it is computed from the first zones command by command.
LEMMA SerialIs ==
    ASSUME Typed
    PROVE  /\ Serial[0] = start
           /\ \A n \in 1 .. Len(load) : Serial[n] = After(dev, Serial[n - 1], Meant(load[n]))
           /\ \A n \in 0 .. Len(load) : Serial[n] \in Maps(dev)
<1> DEFINE G == [x \in Nat \X Maps(dev) |->
                    IF x[1] \in 1 .. Len(load) THEN After(dev, x[2], Meant(load[x[1]])) ELSE x[2]]
<1>1. dev \in Devices /\ load \in Loads /\ Len(load) \in Nat /\ start \in Maps(dev)
  BY CommandFacts DEF Typed
<1>2. G \in [Nat \X Maps(dev) -> Maps(dev)]
  <2>1. ASSUME NEW x \in Nat \X Maps(dev), x[1] \in 1 .. Len(load)
        PROVE  After(dev, x[2], Meant(load[x[1]])) \in Maps(dev)
    <3>1. x[2] \in Maps(dev) /\ Meant(load[x[1]]) \in Orders
      BY <1>1, <2>1, CommandFacts
    <3> QED BY <1>1, <3>1, AfterType
  <2>2. \A x \in Nat \X Maps(dev) : x[2] \in Maps(dev)
    OBVIOUS
  <2> QED BY <2>1, <2>2
<1>3. PICK f \in [0 .. Len(load) -> Maps(dev)] : Computes(f, start, G, Len(load))
  <2> HIDE DEF G
  <2> QED BY <1>1, <1>2, Recursion
<1>4. ASSUME NEW n \in 1 .. Len(load) PROVE f[n] = After(dev, f[n - 1], Meant(load[n]))
  <2>1. n \in Nat /\ n - 1 \in 0 .. Len(load) /\ f[n - 1] \in Maps(dev)
    BY <1>1, <1>3
  <2>2. G[<<n, f[n - 1]>>] = After(dev, f[n - 1], Meant(load[n]))
    BY <1>4, <2>1
  <2>3. f[n] = G[<<n, f[n - 1]>>]
    <3> HIDE DEF G
    <3> QED BY <1>3, <1>4 DEF Computes
  <2> QED BY <2>2, <2>3
<1>5. f[0] = start
  BY <1>3 DEF Computes
<1>6. IsSerial(f)
  <2>1. ASSUME NEW n \in 0 .. Len(load)
        PROVE  f[n] = IF n = 0 THEN start
                      ELSE After(dev, f[n - 1], Meant(load[n]))
    BY <1>1, <1>4, <1>5
  <2>2. f = [n \in 0 .. Len(load) |-> f[n]]
    BY <1>3
  <2>3. [n \in 0 .. Len(load) |-> f[n]]
          = [n \in 0 .. Len(load) |-> IF n = 0 THEN start
                                      ELSE After(dev, f[n - 1], Meant(load[n]))]
    BY <2>1
  <2> QED BY <2>2, <2>3 DEF IsSerial
<1>7. Serial = CHOOSE s : IsSerial(s)
  BY DEF Serial, IsSerial
<1>8. IsSerial(Serial)
  <2> HIDE DEF IsSerial
  <2> QED BY <1>6, <1>7
<1>9. PICK s : s = Serial /\ IsSerial(s)
  BY <1>8
<1>10. /\ s[0] = start
       /\ \A n \in 1 .. Len(load) : s[n] = After(dev, s[n - 1], Meant(load[n]))
  <2>1. 0 \in 0 .. Len(load) /\ \A n \in 1 .. Len(load) : n \in 0 .. Len(load) /\ n # 0
    BY <1>1
  <2> QED BY <1>1, <1>9, <2>1 DEF IsSerial
<1>11. ASSUME NEW n \in 0 .. Len(load) PROVE s[n] \in Maps(dev)
  <2> DEFINE S == {m \in Nat : s[m] \in Maps(dev)}
  <2>1. 0 \in S
    BY <1>1, <1>10
  <2>2. ASSUME NEW m \in 0 .. Len(load), m \in S, m < Len(load) PROVE m + 1 \in S
    <3>1. m + 1 \in 1 .. Len(load) /\ (m + 1) - 1 = m /\ m + 1 \in Nat
      BY <1>1, <2>2
    <3>2. s[m + 1] = After(dev, s[m], Meant(load[m + 1]))
      BY <1>10, <3>1
    <3>3. After(dev, s[m], Meant(load[m + 1])) \in Maps(dev)
      BY <1>1, <2>2, <3>1, CommandFacts, AfterType
    <3> QED BY <3>1, <3>2, <3>3
  <2>3. 0 .. Len(load) \subseteq S
    <3> HIDE DEF S
    <3> QED BY <1>1, <2>1, <2>2, Upward
  <2> QED BY <2>3
<1> QED BY <1>9, <1>10, <1>11

\* What the replay ignores has left no trace in the zones, if nothing is lost.
LEMMA SerialSkips ==
    ASSUME Typed, NoneLost, NEW m \in 0 .. Len(load), NEW n \in 0 .. Len(load), m <= n,
           \A j \in m + 1 .. n : load[j].op \in Ignored
    PROVE  Serial[n] = Serial[m]
<1>1. Len(load) \in Nat /\ DOMAIN load = 1 .. Len(load) /\ m \in Nat /\ n \in Nat
  BY CommandFacts DEF Typed
<1>2. PICK s : s = Serial
  OBVIOUS
<1>3. /\ \A j \in 1 .. Len(load) : s[j] = After(dev, s[j - 1], Meant(load[j]))
      /\ \A j \in 0 .. Len(load) : s[j] \in Maps(dev)
  BY <1>2, SerialIs
<1>4. PICK N \in Nat : n = m + N
  <2>1. n - m \in Nat /\ n = m + (n - m)
    BY <1>1
  <2> QED BY <2>1
<1> DEFINE S == {x \in Nat : s[m + x] = s[m]}
<1>5. 0 \in S
  <2>1. m + 0 = m
    BY <1>1
  <2> QED BY <2>1
<1>6. ASSUME NEW x \in 0 .. N, x \in S, x < N PROVE x + 1 \in S
  <2>1. /\ m + (x + 1) \in m + 1 .. n /\ m + (x + 1) \in 1 .. Len(load) /\ x + 1 \in Nat
        /\ m + (x + 1) - 1 = m + x /\ m + x \in 0 .. Len(load)
    BY <1>1, <1>4, <1>6
  <2>2. PICK j : j = m + (x + 1)
    OBVIOUS
  <2>3. load[j].op = "other"
    BY <1>1, <2>1, <2>2 DEF NoneLost, Ignored
  <2>4. Meant(load[j]).op = "other"
    BY <2>3 DEF Meant
  <2>5. s[j] = After(dev, s[m + x], Meant(load[j])) /\ s[m + x] \in Maps(dev)
    BY <1>3, <2>1, <2>2
  <2>6. s[j] = s[m + x]
    BY <2>4, <2>5, AfterRead
  <2> QED BY <1>6, <2>1, <2>2, <2>6
<1>7. 0 .. N \subseteq S
  <2> HIDE DEF S
  <2> QED BY <1>5, <1>6, Upward
<1> QED BY <1>2, <1>4, <1>7
-----------------------------------------------------------------------------
(* Loads of reads, writes and appends: the write pointer of a zone is the  *)
(* number of blocks appended to it.                                        *)

\* The blocks the commands at the positions E write to zone z.
Blocks(z, E) ==
    {p \in E \X (1 .. BlockWord) :
        load[p[1]].op # "read" /\ load[p[1]].zone = z /\ p[2] <= load[p[1]].nlb}

Filled(zs, E) ==
    \A z \in DOMAIN zs : /\ zs[z].wp = start[z].wp + Cardinality(Blocks(z, E))
                         /\ zs[z].state = "full" => zs[z].wp = dev.zcap

\* Finitely many commands write finitely many blocks, and fewer write fewer.
LEMMA BlocksFew ==
    ASSUME NEW z, NEW E, IsFiniteSet(E)
    PROVE  /\ IsFiniteSet(Blocks(z, E)) /\ Cardinality(Blocks(z, E)) \in Nat
           /\ \A F \in SUBSET E : /\ Blocks(z, F) \subseteq Blocks(z, E)
                                  /\ Cardinality(Blocks(z, F)) <= Cardinality(Blocks(z, E))
<1>1. IsFiniteSet(1 .. BlockWord)
  <2>1. 1 \in Int /\ BlockWord \in Int
    BY ZonedReplayAssumption
  <2> QED BY <2>1, FS_Interval
<1>2. IsFiniteSet(E \X (1 .. BlockWord))
  BY <1>1, FS_Product
<1>3. Blocks(z, E) \subseteq E \X (1 .. BlockWord)
  BY DEF Blocks
<1>4. IsFiniteSet(Blocks(z, E))
  BY <1>2, <1>3, FS_Subset
<1>5. \A F \in SUBSET E : Blocks(z, F) \subseteq Blocks(z, E)
  BY DEF Blocks
<1> QED BY <1>4, <1>5, FS_Subset, FS_CardinalityType

\* The blocks of some commands are at most as many as the commands times the longest.
LEMMA BlocksBounded ==
    ASSUME NEW z, NEW E, IsFiniteSet(E), NEW m \in Nat,
           \A k \in E : load[k].nlb \in Nat /\ load[k].nlb <= m
    PROVE  Cardinality(Blocks(z, E)) <= Cardinality(E) * m
<1>1. IsFiniteSet(1 .. m) /\ Cardinality(1 .. m) = m
  <2>1. 1 \in Int /\ m \in Int
    OBVIOUS
  <2>2. IsFiniteSet(1 .. m) /\ Cardinality(1 .. m) = IF 1 > m THEN 0 ELSE m - 1 + 1
    BY <2>1, FS_Interval
  <2> QED BY <2>2
<1>2. IsFiniteSet(E \X (1 .. m)) /\ Cardinality(E \X (1 .. m)) = Cardinality(E) * m
  BY <1>1, FS_Product
<1>3. Blocks(z, E) \subseteq E \X (1 .. m)
  <2>1. ASSUME NEW p \in Blocks(z, E) PROVE p \in E \X (1 .. m)
    <3>1. p \in E \X (1 .. BlockWord) /\ p[2] <= load[p[1]].nlb
      BY DEF Blocks
    <3>2. p[1] \in E /\ p[2] \in 1 .. BlockWord /\ p = <<p[1], p[2]>>
      BY <3>1
    <3>3. PICK b \in 1 .. BlockWord, n \in Nat : b = p[2] /\ n = load[p[1]].nlb /\ n <= m
      BY <3>2
    <3>4. b \in 1 .. m
      BY <3>1, <3>3
    <3> QED BY <3>2, <3>3, <3>4
  <2> QED BY <2>1
<1> QED BY <1>2, <1>3, FS_Subset

\* A command more adds its own blocks to its own zone.
LEMMA BlocksAdd ==
    ASSUME load \in Loads, NEW E \in SUBSET (1 .. Len(load)), IsFiniteSet(E),
           NEW k \in 1 .. Len(load), k \notin E, NEW z
    PROVE  Cardinality(Blocks(z, E \cup {k})) =
             IF load[k].op # "read" /\ load[k].zone = z THEN Cardinality(Blocks(z, E)) + load[k].nlb
             ELSE Cardinality(Blocks(z, E))
<1>1. PICK n \in 1 .. BlockWord : n = load[k].nlb
  BY CommandFacts DEF Commands
<1>2. n \in Nat /\ 1 .. n \subseteq 1 .. BlockWord
  BY <1>1, ZonedReplayAssumption
<1>3. CASE ~(load[k].op # "read" /\ load[k].zone = z)
  <2>1. Blocks(z, E \cup {k}) = Blocks(z, E)
    BY <1>3 DEF Blocks
  <2> QED BY <1>3, <2>1
<1>4. CASE load[k].op # "read" /\ load[k].zone = z
  <2> DEFINE N == {k} \X (1 .. n)
  <2>1. Blocks(z, E \cup {k}) = Blocks(z, E) \cup N
    <3>1. ASSUME NEW p \in Blocks(z, E \cup {k}) PROVE p \in Blocks(z, E) \cup N
      BY <1>1, <1>4 DEF Blocks
    <3>2. ASSUME NEW p \in Blocks(z, E) \cup N PROVE p \in Blocks(z, E \cup {k})
      BY <1>1, <1>2, <1>4 DEF Blocks
    <3> QED BY <3>1, <3>2
  <2>2. Blocks(z, E) \cap N = {}
    BY DEF Blocks
  <2>3. IsFiniteSet(N) /\ Cardinality(N) = n
    <3>1. 1 \in Int /\ n \in Int
      BY <1>2
    <3>2. IsFiniteSet(1 .. n) /\ Cardinality(1 .. n) = IF 1 > n THEN 0 ELSE n - 1 + 1
      BY <3>1, FS_Interval
    <3>3. IsFiniteSet({k}) /\ Cardinality({k}) = 1
      BY FS_Singleton
    <3>4. Cardinality({k} \X (1 .. n)) = Cardinality({k}) * Cardinality(1 .. n)
          /\ IsFiniteSet({k} \X (1 .. n))
      BY <3>2, <3>3, FS_Product
    <3> QED BY <1>1, <3>2, <3>3, <3>4
  <2>4. IsFiniteSet(Blocks(z, E)) /\ Cardinality(Blocks(z, E)) \in Nat
    BY BlocksFew
  <2>5. Cardinality(Blocks(z, E) \cup N) =
          Cardinality(Blocks(z, E)) + Cardinality(N) - Cardinality(Blocks(z, E) \cap N)
    <3> HIDE DEF N
    <3> QED BY <2>3, <2>4, FS_Union
  <2>6. Cardinality(Blocks(z, E) \cap N) = 0
    BY <2>2, FS_EmptySet
  <2>7. PICK a \in Nat : a = Cardinality(Blocks(z, E))
    BY <2>4
  <2>8. Cardinality(Blocks(z, E) \cup N) = a + n
    <3>1. a + n - 0 = a + n
      BY <1>2, <2>7
    <3> HIDE DEF N
    <3> QED BY <2>3, <2>5, <2>6, <2>7, <3>1
  <2> HIDE DEF N
  <2> QED BY <1>1, <1>4, <2>1, <2>7, <2>8
<1> QED BY <1>3, <1>4

\* An executed command leaves the zones filled by one command more.
LEMMA FilledMore ==
    ASSUME Typed, NEW zs \in Maps(dev), NEW E \in SUBSET (1 .. Len(load)), Filled(zs, E),
           NEW k \in 1 .. Len(load), k \notin E, load[k].op \in {"read", "write", "append"},
           load[k].op # "read" => Succeeds(dev, zs, Meant(load[k]))
    PROVE  Filled(After(dev, zs, Meant(load[k])), E \cup {k})
<1>1. /\ dev \in Devices /\ load \in Loads /\ Len(load) \in Nat /\ load[k] \in Commands
      /\ (load[k].all => load[k].op \in Actions)
  BY CommandFacts DEF Typed
<1>2. IsFiniteSet(E)
  <2>1. 1 \in Int /\ Len(load) \in Int
    BY <1>1
  <2>2. IsFiniteSet(1 .. Len(load))
    BY <2>1, FS_Interval
  <2> QED BY <2>2, FS_Subset
<1>3. \A z : Cardinality(Blocks(z, E \cup {k})) =
               IF load[k].op # "read" /\ load[k].zone = z
               THEN Cardinality(Blocks(z, E)) + load[k].nlb
               ELSE Cardinality(Blocks(z, E))
  BY <1>1, <1>2, BlocksAdd
<1>4. CASE load[k].op = "read"
  <2>1. Meant(load[k]).op = "read"
    BY <1>4 DEF Meant
  <2>2. After(dev, zs, Meant(load[k])) = zs
    BY <2>1, AfterRead
  <2> QED BY <1>3, <1>4, <2>2 DEF Filled
<1>5. CASE load[k].op # "read"
  <2> DEFINE c == Meant(load[k])
             after == After(dev, zs, c)
  <2>1. c.op = "append" /\ ~c.all /\ c.zone = load[k].zone /\ c.nlb = load[k].nlb
    BY <1>1, <1>5 DEF Meant, Actions
  <2>2. Succeeds(dev, zs, c)
    BY <1>5
  <2> HIDE DEF c
  <2>3. Targets(zs, c) = {c.zone} /\ c.zone \in DOMAIN zs
    BY <2>1, <2>2 DEF Targets, Succeeds
  <2>4. DOMAIN after = DOMAIN zs
        /\ \A z \in DOMAIN zs : after[z] = IF z = c.zone THEN ZoneAfter(dev, zs[z], c) ELSE zs[z]
    BY <2>2, <2>3 DEF After
  <2>5. PICK zn : zn = zs[c.zone]
    OBVIOUS
  <2>6. /\ ZoneAfter(dev, zn, c).wp = zn.wp + c.nlb
        /\ ZoneAfter(dev, zn, c).state = "full" => zn.wp + c.nlb = dev.zcap
    BY <2>1 DEF ZoneAfter
  <2> HIDE DEF after
  <2>7. ASSUME NEW z \in DOMAIN after
        PROVE  /\ after[z].wp = start[z].wp + Cardinality(Blocks(z, E \cup {k}))
               /\ after[z].state = "full" => after[z].wp = dev.zcap
    <3>1. CASE z = c.zone
      <4>1. PICK s, b, n \in Nat :
                s = start[z].wp /\ b = Cardinality(Blocks(z, E)) /\ n = load[k].nlb
        <5>1. start[z].wp \in Nat
          BY <1>1, <2>3, <3>1, DeviceFacts DEF Typed, Maps, ZoneValues
        <5>2. load[k].nlb \in Nat
          <6>1. BlockWord \in Nat
            BY ONLY ZonedReplayAssumption
          <6>2. load[k].nlb \in 1 .. BlockWord
            BY ONLY <1>1 DEF Commands
          <6> QED BY ONLY <6>1, <6>2
        <5> QED BY <1>2, <5>1, <5>2, BlocksFew
      <4>2. zn.wp = s + b
        BY <2>1, <2>3, <2>5, <3>1, <4>1 DEF Filled
      <4>3. Cardinality(Blocks(z, E \cup {k})) = b + n
        BY <1>3, <1>5, <2>1, <3>1, <4>1
      <4>4. (s + b) + n = s + (b + n)
        OBVIOUS
      <4>5. after[z].wp = zn.wp + n /\ (after[z].state = "full" => zn.wp + n = dev.zcap)
        BY <2>1, <2>3, <2>4, <2>5, <2>6, <3>1, <4>1
      <4> QED BY <4>1, <4>2, <4>3, <4>4, <4>5
    <3>2. CASE z # c.zone
      <4>1. z \in DOMAIN zs /\ after[z] = zs[z]
        BY <2>4, <2>7, <3>2
      <4>2. Cardinality(Blocks(z, E \cup {k})) = Cardinality(Blocks(z, E))
        BY <1>3, <2>1, <3>2
      <4> QED BY <4>1, <4>2 DEF Filled
    <3> QED BY <3>1, <3>2
  <2> QED BY <2>7 DEF Filled, after, c
<1> QED BY <1>4, <1>5
-----------------------------------------------------------------------------
(* Loads whose order makes no difference.                                  *)

Moving(k) == load[k].op \notin {"read", "other"}

\* The commands at the positions E that are about zone z.
Done(z, E) == {k \in E : Moving(k) /\ load[k].zone = z}

\* What a zone goes through as the commands about it are executed, in any order.
Iterations(z) ==
    {f \in [0 .. Len(load) -> ZoneValues(dev)] :
        /\ f[0] = start[z]
        /\ \A n \in 1 .. Len(load), k \in Done(z, 1 .. Len(load)) :
              f[n] = Alone(dev, f[n - 1], Meant(load[k]))}

\* The zones after the commands at the positions E: either all commands are the same
\* action on every zone, or each zone depends on how many there were for it.
Everywhere == \E k \in 1 .. Len(load) : Moving(k) /\ load[k].all
Agrees(zs, E) ==
    IF Everywhere
    THEN /\ (\A k \in E : ~Moving(k)) => zs = start
         /\ \A k \in E : Moving(k) => zs = After(dev, start, Meant(load[k]))
    ELSE \A z \in DOMAIN zs : \A f \in Iterations(z) : zs[z] = f[Cardinality(Done(z, E))]

\* What it means for two commands to commute, by position.
LEMMA Commuting ==
    ASSUME Typed, ~OrderMatters, NEW j \in 1 .. Len(load), NEW k \in 1 .. Len(load),
           Moving(j), Moving(k)
    PROVE  /\ load[j].all => load[k].all /\ load[j].op = load[k].op
           /\ ~load[j].all /\ load[j].zone = load[k].zone =>
                Meant(load[j]).op = Meant(load[k]).op /\ load[j].nlb = load[k].nlb
           /\ dev.num_zone <= dev.max_open /\ dev.num_zone <= dev.max_active
<1>1. /\ load \in Loads /\ DOMAIN load = 1 .. Len(load) /\ dev \in Devices
      /\ load[j] \in Commands /\ load[k] \in Commands
      /\ load[j].all => load[j].op \in Actions
      /\ load[k].all => load[k].op \in Actions
  BY CommandFacts DEF Typed
<1>2. Commute(Meant(load[j]), Meant(load[k]))
  BY <1>1 DEF OrderMatters
<1>3. /\ {"read", "other"} \cap {Meant(load[j]).op, Meant(load[k]).op} = {}
      /\ load[j].all => Meant(load[j]).op = load[j].op
      /\ load[k].all => Meant(load[k]).op = load[k].op
      /\ \A n \in {j, k} : /\ Meant(load[n]).zone = load[n].zone
                           /\ Meant(load[n]).nlb = load[n].nlb
                           /\ Meant(load[n]).all = load[n].all
  BY <1>1 DEF Meant, Moving, Actions
<1>4. /\ load[j].all => load[k].all /\ load[j].op = load[k].op
      /\ ~load[j].all /\ load[j].zone = load[k].zone =>
           Meant(load[j]).op = Meant(load[k]).op /\ load[j].nlb = load[k].nlb
  BY <1>2, <1>3 DEF Commute
<1>5. dev.num_zone <= dev.max_open /\ dev.num_zone <= dev.max_active
  <2>1. Cardinality(DOMAIN zones) = dev.num_zone
    <3>1. DOMAIN zones = 0 .. dev.num_zone - 1 /\ dev.num_zone \in Nat
      BY <1>1, DeviceFacts DEF Typed, Maps
    <3>2. 0 \in Int /\ dev.num_zone - 1 \in Int
      BY <3>1
    <3>3. Cardinality(0 .. dev.num_zone - 1) =
            IF 0 > dev.num_zone - 1 THEN 0 ELSE dev.num_zone - 1 - 0 + 1
      BY <3>2, FS_Interval
    <3> QED BY <3>1, <3>3
  <2>2. dev.num_zone \in Nat /\ dev.max_open \in Nat /\ dev.max_active \in Nat
    BY <1>1, DeviceFacts
  <2> QED BY <2>1, <2>2 DEF OrderMatters, Limited
<1> QED BY <1>4, <1>5

\* One command more.
LEMMA AgreesMore ==
    ASSUME Typed, ~OrderMatters, NEW zs \in Maps(dev), NEW E \in SUBSET (1 .. Len(load)),
           Agrees(zs, E), NEW k \in 1 .. Len(load), k \notin E
    PROVE  Agrees(After(dev, zs, Meant(load[k])), E \cup {k})
<1> DEFINE c == Meant(load[k])
<1>1. /\ load \in Loads /\ dev \in Devices /\ Len(load) \in Nat /\ load[k] \in Commands
      /\ c \in Orders /\ (load[k].all => load[k].op \in Actions)
  BY CommandFacts DEF Typed
<1>2. /\ c.op \in {"read", "other"} <=> ~Moving(k)
      /\ c.all = load[k].all /\ c.zone = load[k].zone
      /\ load[k].all => c.op = load[k].op
  BY <1>1 DEF Meant, Moving, Actions
<1>3. IsFiniteSet(E) /\ \A z : IsFiniteSet(Done(z, E)) /\ Cardinality(Done(z, E)) \in Nat
  <2>1. 1 \in Int /\ Len(load) \in Int
    BY <1>1
  <2>2. IsFiniteSet(1 .. Len(load))
    BY <2>1, FS_Interval
  <2>3. \A z : Done(z, E) \subseteq 1 .. Len(load)
    BY DEF Done
  <2> QED BY <2>2, <2>3, FS_Subset, FS_CardinalityType
<1> HIDE DEF c
<1>4. CASE ~Moving(k)
  <2>1. After(dev, zs, c) = zs
    BY <1>2, <1>4, AfterRead
  <2>2. \A z : Done(z, E \cup {k}) = Done(z, E)
    BY <1>4 DEF Done
  <2>3. \A j \in E \cup {k} : Moving(j) => j \in E
    BY <1>4
  <2> QED BY <2>1, <2>2, <2>3 DEF Agrees, c
<1>5. CASE Moving(k) /\ Everywhere
  <2>1. load[k].all
    BY <1>5, Commuting DEF Everywhere
  <2>2. c.all /\ c.op \in Actions
    BY <1>1, <1>2, <2>1
  <2>3. ASSUME NEW j \in 1 .. Len(load), Moving(j)
        PROVE  \A ys : After(dev, ys, Meant(load[j])) = After(dev, ys, c)
    <3>1. load[j].all /\ load[j].op = load[k].op
      BY <1>5, <2>1, <2>3, Commuting
    <3>2. Meant(load[j]).all /\ Meant(load[j]).op = c.op
      BY <2>2, <3>1 DEF Meant, c
    <3> QED BY <2>2, <3>2, SameForAll
  <2>4. After(dev, zs, c) = After(dev, start, c)
    <3>1. CASE \A j \in E : ~Moving(j)
      BY <1>5, <3>1 DEF Agrees
    <3>2. CASE \E j \in E : Moving(j)
      <4>1. PICK j \in E : Moving(j)
        BY <3>2
      <4>2. zs = After(dev, start, c)
        BY <1>5, <2>3, <4>1 DEF Agrees
      <4>3. start \in Maps(dev)
        BY DEF Typed
      <4> QED BY <2>2, <4>2, <4>3, AfterTwice
    <3> QED BY <3>1, <3>2
  <2>5. \A j \in E \cup {k} : Moving(j) => After(dev, zs, c) = After(dev, start, Meant(load[j]))
    BY <1>1, <2>3, <2>4
  <2> QED BY <1>5, <2>5 DEF Agrees, c
<1>6. CASE Moving(k) /\ ~Everywhere
  <2>1. ~c.all /\ dev.num_zone <= dev.max_open /\ dev.num_zone <= dev.max_active
    BY <1>2, <1>6, Commuting DEF Everywhere
  <2>2. After(dev, zs, c) =
          [z \in 0 .. dev.num_zone - 1 |-> IF z = c.zone THEN Alone(dev, zs[z], c) ELSE zs[z]]
    BY <1>1, <2>1, Independent
  <2> DEFINE after == After(dev, zs, c)
  <2>3. /\ DOMAIN after = DOMAIN zs
        /\ \A z \in DOMAIN zs : after[z] = IF z = c.zone THEN Alone(dev, zs[z], c) ELSE zs[z]
    BY <2>2 DEF Maps
  <2> HIDE DEF after
  <2>4. ASSUME NEW z \in DOMAIN zs, NEW f \in Iterations(z)
        PROVE  after[z] = f[Cardinality(Done(z, E \cup {k}))]
    <3>1. zs[z] = f[Cardinality(Done(z, E))]
      BY <1>6, <2>4 DEF Agrees
    <3>2. CASE z # c.zone
      <4>1. Done(z, E \cup {k}) = Done(z, E)
        BY <1>2, <3>2 DEF Done
      <4> QED BY <2>3, <3>1, <3>2, <4>1
    <3>3. CASE z = c.zone
      <4>1. /\ Done(z, E \cup {k}) = Done(z, E) \cup {k} /\ k \notin Done(z, E)
            /\ k \in Done(z, 1 .. Len(load))
        BY <1>2, <1>6, <3>3 DEF Done
      <4>2. PICK n \in Nat : n = Cardinality(Done(z, E))
        BY <1>3
      <4>3. Cardinality(Done(z, E \cup {k})) = n + 1
        BY <1>3, <4>1, <4>2, FS_AddElement
      <4>4. n + 1 <= Len(load)
        <5>1. Done(z, E \cup {k}) \subseteq 1 .. Len(load)
          BY DEF Done
        <5>2. 1 \in Int /\ Len(load) \in Int
          BY <1>1
        <5>3. /\ IsFiniteSet(1 .. Len(load))
              /\ Cardinality(1 .. Len(load)) = IF 1 > Len(load) THEN 0 ELSE Len(load) - 1 + 1
          BY <5>2, FS_Interval
        <5>4. Cardinality(1 .. Len(load)) = Len(load)
          BY <1>1, <5>3
        <5> QED BY <4>3, <5>1, <5>3, <5>4, FS_Subset
      <4>5. n + 1 \in 1 .. Len(load) /\ (n + 1) - 1 = n
        BY <1>1, <4>2, <4>4
      <4>6. f[n + 1] = Alone(dev, f[n], c)
        BY <2>4, <4>1, <4>5 DEF Iterations, c
      <4> QED BY <2>3, <3>1, <3>3, <4>2, <4>3, <4>6
    <3> QED BY <3>2, <3>3
  <2> QED BY <1>6, <2>3, <2>4 DEF Agrees, after, c
<1> QED BY <1>4, <1>5, <1>6

\* Before any command.
LEMMA AgreesEmpty ==
    ASSUME Typed
    PROVE  Agrees(start, {})
<1>1. \A z : Done(z, {}) = {}
  BY DEF Done
<1>2. Cardinality({}) = 0
  BY FS_EmptySet
<1> QED BY <1>1, <1>2 DEF Agrees, Iterations

\* Zones that agree with the same commands are the same.
LEMMA AgreesOnce ==
    ASSUME Typed, ~OrderMatters, NEW zs \in Maps(dev), NEW ys \in Maps(dev), NEW E,
           Agrees(zs, E), Agrees(ys, E)
    PROVE  zs = ys
<1>1. CASE Everywhere
  BY <1>1 DEF Agrees
<1>2. CASE ~Everywhere
  <2>1. /\ load \in Loads /\ dev \in Devices /\ Len(load) \in Nat
    BY CommandFacts DEF Typed
  <2>2. ASSUME NEW z \in 0 .. dev.num_zone - 1 PROVE \E f : f \in Iterations(z)
    <3> DEFINE All == Done(z, 1 .. Len(load))
    <3>1. CASE All = {}
      <4> DEFINE f == [n \in 0 .. Len(load) |-> start[z]]
      <4>1. start[z] \in ZoneValues(dev)
        BY <2>2 DEF Typed, Maps
      <4>2. f \in Iterations(z)
        BY <2>1, <3>1, <4>1 DEF Iterations
      <4> QED BY <4>2
    <3>2. CASE All # {}
      <4>1. PICK k \in 1 .. Len(load) : Moving(k) /\ load[k].zone = z
        BY <3>2 DEF Done
      <4>2. /\ ~load[k].all /\ dev.num_zone <= dev.max_open /\ dev.num_zone <= dev.max_active
        BY <1>2, <4>1, Commuting DEF Everywhere
      <4>3. Meant(load[k]) \in Orders /\ ~Meant(load[k]).all /\ Meant(load[k]).zone = z
        BY <2>1, <4>1, <4>2, CommandFacts DEF Meant
      <4> DEFINE G == [x \in Nat \X ZoneValues(dev) |-> Alone(dev, x[2], Meant(load[k]))]
      <4>4. ASSUME NEW v \in ZoneValues(dev) PROVE Alone(dev, v, Meant(load[k])) \in ZoneValues(dev)
        <5> DEFINE vs == [y \in 0 .. dev.num_zone - 1 |-> v]
        <5>1. vs \in Maps(dev)
          BY DEF Maps
        <5>2. vs[z] = v
          BY <2>2
        <5> HIDE DEF vs
        <5>3. After(dev, vs, Meant(load[k])) \in Maps(dev)
          BY <2>1, <4>3, <5>1, AfterType
        <5>4. After(dev, vs, Meant(load[k]))[z] = Alone(dev, vs[z], Meant(load[k]))
          BY <2>1, <2>2, <4>2, <4>3, <5>1, Independent
        <5> QED BY <2>2, <5>2, <5>3, <5>4 DEF Maps
      <4>5. G \in [Nat \X ZoneValues(dev) -> ZoneValues(dev)]
        BY <4>4
      <4>6. start[z] \in ZoneValues(dev)
        BY <2>2 DEF Typed, Maps
      <4>7. PICK f \in [0 .. Len(load) -> ZoneValues(dev)] : Computes(f, start[z], G, Len(load))
        <5> HIDE DEF G
        <5> QED BY <2>1, <4>5, <4>6, Recursion
      <4>8. ASSUME NEW n \in 1 .. Len(load), NEW j \in All
            PROVE  f[n] = Alone(dev, f[n - 1], Meant(load[j]))
        <5>1. n \in Nat /\ n - 1 \in 0 .. Len(load) /\ f[n - 1] \in ZoneValues(dev)
          BY <2>1, <4>7
        <5>2. G[<<n, f[n - 1]>>] = Alone(dev, f[n - 1], Meant(load[k]))
          BY <5>1
        <5>3. f[n] = G[<<n, f[n - 1]>>]
          <6> HIDE DEF G
          <6> QED BY <4>7, <4>8 DEF Computes
        <5>4. j \in 1 .. Len(load) /\ Moving(j) /\ load[j].zone = load[k].zone
          BY <4>1, <4>8 DEF Done
        <5>5. Meant(load[k]).op = Meant(load[j]).op /\ load[k].nlb = load[j].nlb
          BY <4>1, <4>2, <5>4, Commuting
        <5>6. Meant(load[k]).nlb = Meant(load[j]).nlb
          BY <5>5 DEF Meant
        <5>7. \A v : Alone(dev, v, Meant(load[j])) = Alone(dev, v, Meant(load[k]))
          BY <5>5, <5>6 DEF Alone, Allowed, ZoneAfter
        <5> QED BY <5>2, <5>3, <5>7
      <4>9. f \in Iterations(z)
        BY <4>7, <4>8 DEF Iterations, Computes
      <4> QED BY <4>9
    <3> QED BY <3>1, <3>2
  <2>3. \A z \in 0 .. dev.num_zone - 1 : zs[z] = ys[z]
    BY <1>2, <2>2 DEF Agrees, Maps
  <2>4. /\ zs = [z \in 0 .. dev.num_zone - 1 |-> zs[z]]
        /\ ys = [z \in 0 .. dev.num_zone - 1 |-> ys[z]]
    BY DEF Maps
  <2>5. [z \in 0 .. dev.num_zone - 1 |-> zs[z]] = [z \in 0 .. dev.num_zone - 1 |-> ys[z]]
    BY <2>3
  <2> QED BY ONLY <2>4, <2>5
<1> QED BY <1>1, <1>2
-----------------------------------------------------------------------------
(* The inductive invariant.                                                *)

\* What is executed has been issued, what has been answered was executed, and at
\* most `depth' commands are issued and not executed.
Queue ==
    /\ work = {k \in 1 .. Len(load) : load[k].op \notin Ignored}
    /\ \E n \in 0 .. Len(load) : issued = work \cap 1 .. n
    /\ flying \subseteq issued
    /\ executed \in Seq(1 .. Len(load)) /\ Executed \subseteq issued
    /\ status = "running" => issued \ flying \subseteq Executed
    /\ status = "complete" => Executed = work
    /\ Cardinality(issued \ Executed) <= depth

\* At depth 1 the device cannot reorder.
InOrder ==
    depth = 1 /\ NoneLost =>
        \E n \in 0 .. Len(load) : Executed = work \cap 1 .. n /\ zones = Serial[n]

Unordered == ~OrderMatters => Agrees(zones, Executed)

\* Appends that landed.
Recorded(k) == Serial[k - 1][load[k].zone].wp
Accepted == {k \in Executed : load[k].op # "read"} \subseteq DOMAIN landed
Landed ==
    /\ DOMAIN landed \subseteq Executed
    /\ \A k \in DOMAIN landed : Meant(load[k]).op = "append" /\ landed[k] \in Nat
    /\ depth = 1 /\ NoneLost => \A k \in DOMAIN landed : landed[k] = Recorded(k)

Nearby ==
    FittingLoad =>
        /\ depth = 1 \/ ~Limited => Accepted
        /\ Accepted => /\ Filled(zones, Executed)
                       /\ \A k \in DOMAIN landed :
                             landed[k] >= Recorded(k) - (depth - 1) * LongestAppend

IInv == Typed /\ Queue /\ InOrder /\ Unordered /\ Landed /\ Nearby

\* The numbers up to n + 1.
LEMMA UpTo ==
    ASSUME NEW n \in Nat
    PROVE  /\ 1 .. n + 1 = (1 .. n) \cup {n + 1} /\ n + 1 \notin 1 .. n /\ (n + 1) - 1 = n
           /\ IsFiniteSet(1 .. n) /\ Cardinality(1 .. n) = n
<1>1. 1 \in Int /\ n \in Int
  OBVIOUS
<1>2. IsFiniteSet(1 .. n) /\ Cardinality(1 .. n) = IF 1 > n THEN 0 ELSE n - 1 + 1
  BY <1>1, FS_Interval
<1> QED BY <1>2

\* What the recorded program left agrees with the number of commands for each zone.
LEMMA SerialAgrees ==
    ASSUME Typed, ~OrderMatters
    PROVE  Agrees(Serial[Len(load)], 1 .. Len(load))
<1>1. Len(load) \in Nat
  BY CommandFacts DEF Typed
<1>2. PICK s : s = Serial
  OBVIOUS
<1>3. /\ s[0] = start
      /\ \A n \in 1 .. Len(load) : s[n] = After(dev, s[n - 1], Meant(load[n]))
      /\ \A n \in 0 .. Len(load) : s[n] \in Maps(dev)
  BY <1>2, SerialIs
<1> DEFINE S == {n \in Nat : Agrees(s[n], 1 .. n)}
<1>4. 0 \in S
  <2>1. 1 .. 0 = {}
    OBVIOUS
  <2> QED BY <1>3, <2>1, AgreesEmpty
<1>5. ASSUME NEW n \in 0 .. Len(load), n \in S, n < Len(load) PROVE n + 1 \in S
  <2>1. n + 1 \in 1 .. Len(load) /\ 1 .. n \in SUBSET (1 .. Len(load)) /\ n \in Nat
    BY <1>1, <1>5
  <2>2. s[n + 1] = After(dev, s[n], Meant(load[n + 1])) /\ s[n] \in Maps(dev)
    BY <1>3, <2>1, UpTo
  <2>3. Agrees(After(dev, s[n], Meant(load[n + 1])), (1 .. n) \cup {n + 1})
    BY <1>5, <2>1, <2>2, UpTo, AgreesMore
  <2>4. 1 .. n + 1 = (1 .. n) \cup {n + 1}
    BY <2>1, UpTo
  <2>5. Agrees(s[n + 1], 1 .. n + 1)
    <3> HIDE DEF S
    <3> QED BY <2>2, <2>3, <2>4
  <2>6. n + 1 \in Nat
    BY <2>1
  <2> QED BY <2>5, <2>6
<1>6. 0 .. Len(load) \subseteq S
  <2> HIDE DEF S
  <2> QED BY <1>1, <1>4, <1>5, Upward
<1>7. Len(load) \in 0 .. Len(load)
  BY <1>1
<1> QED BY <1>2, <1>6, <1>7

\* What a load that fits left, and that none of its writes was refused.
LEMMA SerialFilled ==
    ASSUME Typed, FittingLoad
    PROVE  /\ \A n \in 0 .. Len(load) : Filled(Serial[n], 1 .. n)
           /\ NoneLost
           /\ \A k \in 1 .. Len(load) :
                 /\ load[k].op \in {"read", "write", "append"} /\ load[k].op \notin Ignored
                 /\ load[k].op # "read" => Succeeds(dev, Serial[k - 1], Meant(load[k]))
<1>1. Len(load) \in Nat /\ DOMAIN load = 1 .. Len(load) /\ dev \in Devices
  BY CommandFacts DEF Typed
<1>2. PICK s : s = Serial
  OBVIOUS
<1>3. /\ s[0] = start
      /\ \A n \in 1 .. Len(load) : s[n] = After(dev, s[n - 1], Meant(load[n]))
      /\ \A n \in 0 .. Len(load) : s[n] \in Maps(dev)
  BY <1>2, SerialIs
<1>4. \A k \in 1 .. Len(load) :
         /\ load[k].op \in {"read", "write", "append"}
         /\ load[k].op # "read" => Succeeds(dev, s[k - 1], Meant(load[k]))
  BY <1>1, <1>2 DEF FittingLoad
<1> DEFINE S == {n \in Nat : Filled(s[n], 1 .. n)}
<1>5. 0 \in S
  <2>1. 1 .. 0 = {} /\ \A z : Blocks(z, {}) = {}
    BY DEF Blocks
  <2>2. Cardinality({}) = 0
    BY FS_EmptySet
  <2>3. \A z \in DOMAIN s[0] : /\ s[0][z].wp = start[z].wp /\ start[z].wp \in Nat
                               /\ s[0][z].state = "full" => s[0][z].wp = dev.zcap
    BY <1>1, <1>3, DeviceFacts DEF Typed, Maps, ZoneValues
  <2>4. \A z : Cardinality(Blocks(z, 1 .. 0)) = 0
    BY <2>1, <2>2
  <2>5. ASSUME NEW z \in DOMAIN s[0]
        PROVE  /\ s[0][z].wp = start[z].wp + Cardinality(Blocks(z, 1 .. 0))
               /\ s[0][z].state = "full" => s[0][z].wp = dev.zcap
    <3>1. PICK c : c = Cardinality(Blocks(z, 1 .. 0)) /\ c = 0
      BY <2>4
    <3>2. PICK w \in Nat : w = start[z].wp /\ w = s[0][z].wp
      BY <2>3
    <3>3. w = w + c
      BY <3>1, <3>2
    <3>4. s[0][z].wp = start[z].wp + Cardinality(Blocks(z, 1 .. 0))
      BY ONLY <3>1, <3>2, <3>3
    <3> QED BY <2>3, <3>4
  <2>6. Filled(s[0], 1 .. 0)
    BY <2>5 DEF Filled
  <2> QED BY <2>6
<1>6. ASSUME NEW n \in 0 .. Len(load), n \in S, n < Len(load) PROVE n + 1 \in S
  <2>1. n + 1 \in 1 .. Len(load) /\ 1 .. n \in SUBSET (1 .. Len(load)) /\ n \in Nat
    BY <1>1, <1>6
  <2>2. /\ s[n + 1] = After(dev, s[n], Meant(load[n + 1])) /\ s[n] \in Maps(dev)
        /\ load[n + 1].op # "read" => Succeeds(dev, s[n], Meant(load[n + 1]))
        /\ load[n + 1].op \in {"read", "write", "append"}
    BY <1>3, <1>4, <2>1, UpTo
  <2>3. Filled(After(dev, s[n], Meant(load[n + 1])), (1 .. n) \cup {n + 1})
    <3>1. Filled(s[n], 1 .. n) /\ n + 1 \notin 1 .. n
      BY <1>6, <2>1, UpTo
    <3> HIDE DEF S
    <3> QED BY <2>1, <2>2, <3>1, FilledMore
  <2>4. 1 .. n + 1 = (1 .. n) \cup {n + 1}
    BY <2>1, UpTo
  <2>5. Filled(s[n + 1], 1 .. n + 1)
    <3> HIDE DEF S
    <3> QED BY <2>2, <2>3, <2>4
  <2>6. n + 1 \in Nat
    BY <2>1
  <2> QED BY <2>5, <2>6
<1>7. 0 .. Len(load) \subseteq S
  <2> HIDE DEF S
  <2> QED BY <1>1, <1>5, <1>6, Upward
<1>8. NoneLost /\ \A k \in 1 .. Len(load) : load[k].op \notin Ignored
  BY <1>1, <1>4 DEF NoneLost, Ignored
<1> QED BY <1>2, <1>4, <1>7, <1>8

\* There is a longest command.
LEMMA LongestIs ==
    ASSUME Typed, NEW j \in 1 .. Len(load)
    PROVE  /\ LongestAppend \in Nat
           /\ \A k \in 1 .. Len(load) : load[k].nlb \in Nat /\ load[k].nlb <= LongestAppend
<1> DEFINE L == {load[k].nlb : k \in DOMAIN load}
           Longest(m) == \A k \in DOMAIN load : load[k].nlb <= m
           S == {n \in Nat : \E x \in L : n <= x}
<1>1. DOMAIN load = 1 .. Len(load) /\ L \subseteq 1 .. BlockWord /\ BlockWord \in Nat
  <2>1. DOMAIN load = 1 .. Len(load) /\ \A k \in 1 .. Len(load) : load[k] \in Commands
    BY CommandFacts DEF Typed
  <2>2. \A k \in 1 .. Len(load) : load[k].nlb \in 1 .. BlockWord
    BY <2>1 DEF Commands
  <2> QED BY <2>1, <2>2, ZonedReplayAssumption
<1>2. L # {} /\ \A x \in L : x \in Nat /\ x <= BlockWord
  BY <1>1
<1>3. SUFFICES ASSUME ~(\E m \in L : Longest(m)) PROVE FALSE
  <2>1. PICK m \in L : Longest(m)
    BY <1>3
  <2>2. LongestAppend = CHOOSE x \in L : Longest(x)
    BY DEF LongestAppend
  <2>3. LongestAppend \in L /\ Longest(LongestAppend)
    <3> HIDE DEF Longest, L
    <3> QED BY <2>1, <2>2
  <2>4. LongestAppend \in Nat
    <3> HIDE DEF L
    <3> QED BY <1>2, <2>3
  <2>5. \A k \in 1 .. Len(load) : load[k].nlb \in L
    BY <1>1
  <2>6. \A k \in 1 .. Len(load) : load[k].nlb \in Nat
    <3> HIDE DEF L
    <3> QED BY <1>2, <2>5
  <2> QED BY <1>1, <2>3, <2>4, <2>6
<1>4. \A x \in L : \E y \in L : x + 1 <= y
  <2>1. ASSUME NEW x \in L PROVE \E y \in L : ~(y <= x)
    BY <1>3
  <2>2. ASSUME NEW x \in L, NEW y \in L, ~(y <= x) PROVE x + 1 <= y
    <3>1. x \in Int /\ y \in Int
      BY <1>1
    <3> QED BY ONLY <3>1, <2>2
  <2> QED BY <2>1, <2>2
<1> HIDE DEF L, Longest
<1>5. 0 \in S
  <2>1. PICK x \in L : x \in Nat
    BY <1>2
  <2>2. 0 <= x
    BY ONLY <2>1
  <2> QED BY <2>2
<1>6. ASSUME NEW n \in 0 .. BlockWord + 1, n \in S, n < BlockWord + 1 PROVE n + 1 \in S
  <2>1. PICK x \in L : n <= x
    BY <1>6
  <2>2. PICK y \in L : x + 1 <= y
    BY <1>4
  <2>3. n + 1 <= y /\ n + 1 \in Nat
    <3>1. x \in Nat /\ y \in Nat
      BY <1>2
    <3> QED BY <2>1, <2>2, <3>1
  <2> QED BY <2>3
<1>7. 0 .. BlockWord + 1 \subseteq S
  <2> HIDE DEF S
  <2> QED BY <1>1, <1>5, <1>6, Upward
<1>8. PICK x \in L : BlockWord + 1 <= x
  <2>1. BlockWord + 1 \in 0 .. BlockWord + 1
    BY <1>1
  <2> QED BY <1>7, <2>1
<1> QED BY <1>1, <1>2, <1>8

\* What does not change while the load and the namespace do not.
LEMMA SameLoad ==
    ASSUME UNCHANGED <<load, dev, start>>, DOMAIN zones' = DOMAIN zones
    PROVE  /\ Serial' = Serial /\ FittingLoad' = FittingLoad /\ Limited' = Limited
           /\ OrderMatters' = OrderMatters /\ LongestAppend' = LongestAppend
           /\ NoneLost' = NoneLost
<1>1. Serial' = Serial
  BY DEF Serial
<1>2. Limited' = Limited
  BY DEF Limited
<1>3. OrderMatters' = OrderMatters
  BY <1>2 DEF OrderMatters
<1>4. LongestAppend' = LongestAppend
  BY DEF LongestAppend
<1>5. FittingLoad' = FittingLoad
  <2> HIDE DEF Serial
  <2> QED BY <1>1 DEF FittingLoad
<1>6. NoneLost' = NoneLost
  BY DEF NoneLost
<1> QED BY <1>1, <1>2, <1>3, <1>4, <1>5, <1>6

\* The zones that agree with some commands still do in the next state.
LEMMA AgreesNext ==
    ASSUME UNCHANGED <<load, dev, start>>, NEW zs, NEW E, zones' = zs, Executed' = E
    PROVE  /\ Agrees(zs, E) => Agrees(zones, Executed)'
           /\ Filled(zs, E) => Filled(zones, Executed)'
<1>1. Agrees(zs, E) => Agrees(zones, Executed)'
  BY DEF Agrees, Everywhere, Moving, Iterations, Done
<1>2. Filled(zs, E) => Filled(zones, Executed)'
  BY DEF Filled, Blocks
<1> QED BY <1>1, <1>2

\* The replay's own steps change nothing on the device.
LEMMA Kept ==
    ASSUME Typed, InOrder, Unordered, Landed, Nearby, UNCHANGED zonedVars,
           UNCHANGED <<work, depth>>
    PROVE  (Typed /\ InOrder /\ Unordered /\ Landed /\ Nearby)'
<1>1. UNCHANGED <<load, dev, start, zones, executed, landed>> /\ Executed' = Executed
  BY DEF zonedVars, Executed
<1>2. /\ Serial' = Serial /\ FittingLoad' = FittingLoad /\ Limited' = Limited
      /\ OrderMatters' = OrderMatters /\ LongestAppend' = LongestAppend
      /\ NoneLost' = NoneLost
  BY <1>1, SameLoad
<1>3. Typed'
  BY <1>1 DEF Typed, Maps, ZoneValues
<1>4. InOrder'
  BY <1>1, <1>2 DEF InOrder
<1>5. Unordered'
  <2>1. OrderMatters' \/ Agrees(zones, Executed)
    BY <1>2 DEF Unordered
  <2>2. OrderMatters' \/ Agrees(zones, Executed)'
    BY <1>1, <2>1, AgreesNext
  <2> QED BY <2>2 DEF Unordered
<1>6. Landed'
  BY <1>1, <1>2 DEF Landed, Recorded
<1>7. Nearby'
  <2>1. Accepted' = Accepted
    BY <1>1 DEF Accepted
  <2>2. Filled(zones, Executed) => Filled(zones, Executed)'
    BY <1>1, AgreesNext
  <2> QED BY <1>1, <1>2, <2>1, <2>2 DEF Nearby, Recorded
<1> QED BY <1>3, <1>4, <1>5, <1>6, <1>7

\* At the start nothing is issued and the zones are as the reset left them.
LEMMA InitInv ==
    ASSUME Init
    PROVE  IInv
<1>1. dev \in Devices /\ load \in Loads /\ depth \in Nat \ {0}
  BY ZonedReplayAssumption DEF Init
<1>2. /\ zones = start /\ start \in Maps(dev)
      /\ \A z \in DOMAIN start : start[z].state = "full" => start[z].wp = dev.zcap
  <2>1. CASE start = Empty
    <3>1. 0 \in 0 .. dev.zcap
      BY <1>1, DeviceFacts
    <3> QED BY <2>1, <3>1 DEF Init, Empty, EmptyZone, Maps, ZoneValues, ZoneStates
  <2>2. CASE start \in NotReset
    BY <2>2 DEF Init, NotReset, WellFormed, Maps, ZoneValues
  <2> QED BY <2>1, <2>2 DEF Init
<1>3. Executed = {} /\ executed = << >> /\ DOMAIN landed = {}
  BY DEF Init, Executed
<1>4. Len(load) \in Nat /\ DOMAIN load = 1 .. Len(load)
  BY <1>1, CommandFacts
<1>5. Typed
  BY <1>1, <1>2 DEF Typed
<1>6. Queue
  <2>1. work \cap 1 .. 0 = {} /\ 0 \in 0 .. Len(load)
    BY <1>4
  <2>2. Cardinality({}) = 0
    BY FS_EmptySet
  <2>3. /\ issued = {} /\ flying = {} /\ status = "running"
        /\ work = {k \in 1 .. Len(load) : load[k].op \notin Ignored}
    <3>1. \A k \in 1 .. Len(load) : Op(Encode(load[k])) # "none" <=> load[k].op \notin Ignored
      BY <1>1, RoundTrip
    <3>2. work = {k \in 1 .. Len(load) : Op(Encode(load[k])) # "none"}
      BY <1>4 DEF Init
    <3>3. issued = {} /\ flying = {} /\ status = "running"
      BY DEF Init
    <3> QED BY <3>1, <3>2, <3>3
  <2>4. \E n \in 0 .. Len(load) : issued = work \cap 1 .. n
    BY <2>1, <2>3
  <2>5. executed \in Seq(1 .. Len(load))
    BY <1>3
  <2>6. Cardinality(issued \ Executed) <= depth
    <3>1. issued \ Executed = {}
      BY <2>3
    <3> QED BY <1>1, <2>2, <3>1
  <2> QED BY <1>3, <2>3, <2>4, <2>5, <2>6 DEF Queue
<1>7. InOrder
  <2>1. work \cap 1 .. 0 = {} /\ 0 \in 0 .. Len(load)
    BY <1>4
  <2> QED BY <1>2, <1>3, <1>5, <2>1, SerialIs DEF InOrder
<1>8. Unordered
  BY <1>2, <1>3, <1>5, AgreesEmpty DEF Unordered
<1>9. Landed
  BY <1>3 DEF Landed
<1>10. Nearby
  <2>1. Accepted
    BY <1>3 DEF Accepted
  <2>2. Filled(zones, Executed)
    <3>1. \A z : Blocks(z, {}) = {}
      BY DEF Blocks
    <3>2. \A z \in DOMAIN zones : /\ zones[z].wp = start[z].wp /\ start[z].wp \in Nat
                                  /\ zones[z].state = "full" => zones[z].wp = dev.zcap
      BY <1>1, <1>2, DeviceFacts DEF Maps, ZoneValues
    <3>3. \A z : Cardinality(Blocks(z, Executed)) = 0
      BY <1>3, <3>1, FS_EmptySet
    <3>4. ASSUME NEW z \in DOMAIN zones
          PROVE  /\ zones[z].wp = start[z].wp + Cardinality(Blocks(z, Executed))
                 /\ zones[z].state = "full" => zones[z].wp = dev.zcap
      <4>1. PICK c : c = Cardinality(Blocks(z, Executed)) /\ c = 0
        BY <3>3
      <4>2. PICK w \in Nat : w = start[z].wp /\ w = zones[z].wp
        BY <3>2
      <4>3. w = w + c
        BY <4>1, <4>2
      <4>4. zones[z].wp = start[z].wp + Cardinality(Blocks(z, Executed))
        BY ONLY <4>1, <4>2, <4>3
      <4> QED BY <3>2, <4>4
    <3> QED BY <3>4 DEF Filled
  <2> QED BY <1>3, <2>1, <2>2 DEF Nearby
<1> QED BY <1>5, <1>6, <1>7, <1>8, <1>9, <1>10 DEF IInv

\* The commands taken so far, and what can be said of their number.
LEMMA IssuedIs ==
    ASSUME Typed, Queue
    PROVE  /\ Len(load) \in Nat /\ IsFiniteSet(1 .. Len(load)) /\ work \subseteq 1 .. Len(load)
           /\ issued \subseteq 1 .. Len(load) /\ Executed \subseteq 1 .. Len(load)
           /\ IsFiniteSet(issued) /\ IsFiniteSet(Executed) /\ IsFiniteSet(flying)
           /\ IsFiniteSet(issued \ Executed) /\ Cardinality(issued \ Executed) \in Nat
<1>1. Len(load) \in Nat /\ IsFiniteSet(1 .. Len(load))
  BY CommandFacts, UpTo DEF Typed
<1>2. issued \subseteq 1 .. Len(load)
  BY <1>1 DEF Queue
<1>3. IsFiniteSet(issued)
  BY <1>1, <1>2, FS_Subset
<1>4. IsFiniteSet(Executed) /\ IsFiniteSet(flying) /\ IsFiniteSet(issued \ Executed)
  <2>1. Executed \in SUBSET issued /\ flying \in SUBSET issued /\ issued \ Executed \in SUBSET issued
    BY DEF Queue
  <2> QED BY <1>3, <2>1, FS_Subset
<1>5. Cardinality(issued \ Executed) \in Nat
  BY <1>4, FS_CardinalityType
<1> QED BY <1>1, <1>2, <1>3, <1>4, <1>5 DEF Queue

\* The replay's steps keep the queue as it should be.
LEMMA QueueKept ==
    ASSUME Typed, Queue, UNCHANGED zonedVars,
           (\E k \in work : Replay(k)) \/ Reap \/ Finish \/ GiveUp \/ UNCHANGED vars
    PROVE  Queue'
<1>1. UNCHANGED <<load, dev, start, zones, executed, landed>> /\ Executed' = Executed
  BY DEF zonedVars, Executed
<1>2. ASSUME NEW k \in work, Replay(k) PROVE Queue'
  <2>1. /\ status = "running" /\ status' = status /\ k \in work \ issued
        /\ \A j \in work \ issued : k <= j
        /\ Cardinality(flying) < depth
        /\ issued' = issued \cup {k} /\ flying' = flying \cup {k}
        /\ work' = work /\ depth' = depth
    BY <1>2 DEF Replay, Issue
  <2>2. PICK n \in 0 .. Len(load) : issued = work \cap 1 .. n
    BY DEF Queue
  <2>3. /\ Len(load) \in Nat /\ work \subseteq 1 .. Len(load) /\ n \in Nat
        /\ k \in 1 .. Len(load) /\ depth \in Nat
    BY <2>2, IssuedIs DEF Typed
  <2>4. \A j \in work : j \in issued \cup {k} <=> j <= k
    <3>1. ASSUME NEW j \in work PROVE j \in issued \cup {k} <=> j <= k
      <4>1. j \in Nat /\ k \in Nat /\ k > n
        BY <2>1, <2>2, <2>3
      <4>2. CASE j \in issued
        BY <2>2, <2>3, <4>1, <4>2
      <4>3. CASE j \notin issued
        BY <2>1, <4>1, <4>3
      <4> QED BY <4>2, <4>3
    <3> QED BY <3>1
  <2>5. issued' = work \cap 1 .. k /\ k \in 0 .. Len(load)
    <3>1. issued \cup {k} \subseteq work
      BY <2>1, <2>2
    <3>2. \A j \in work : j <= k <=> j \in 1 .. k
      BY <2>3
    <3>3. issued' = issued \cup {k} /\ k \in 0 .. Len(load)
      BY <2>1, <2>3
    <3> QED BY <2>4, <3>1, <3>2, <3>3
  <2>6. Cardinality(issued' \ Executed) <= depth
    <3>1. IsFiniteSet(flying) /\ k \notin flying
      BY <2>1, IssuedIs DEF Queue
    <3>2. IsFiniteSet(flying \cup {k}) /\ Cardinality(flying \cup {k}) = Cardinality(flying) + 1
      BY <3>1, FS_AddElement
    <3>3. issued' \ Executed \in SUBSET (flying \cup {k})
      BY <2>1 DEF Queue
    <3>4. IsFiniteSet(issued' \ Executed)
          /\ Cardinality(issued' \ Executed) <= Cardinality(flying \cup {k})
      BY <3>2, <3>3, FS_Subset
    <3>5. Cardinality(issued' \ Executed) \in Nat /\ Cardinality(flying) \in Nat
      BY <3>1, <3>4, FS_CardinalityType
    <3> QED BY <2>1, <2>3, <3>2, <3>4, <3>5
  <2>7. \E m \in 0 .. Len(load) : issued' = work' \cap 1 .. m
    BY <2>1, <2>5
  <2> QED BY <1>1, <2>1, <2>6, <2>7 DEF Queue
<1>3. CASE Reap
  BY <1>1, <1>3 DEF Queue, Reap, Retire
<1>4. CASE Finish
  <2>1. issued = work /\ flying = {} /\ status = "running"
        /\ UNCHANGED <<work, depth, issued, flying>> /\ status' = "complete"
    BY <1>4 DEF Finish, Complete
  <2>2. Executed = work
    BY <2>1, IssuedIs DEF Queue
  <2> QED BY <1>1, <2>1, <2>2 DEF Queue
<1>5. CASE GiveUp
  BY <1>1, <1>5 DEF Queue, GiveUp, Abort
<1>6. CASE UNCHANGED vars
  BY <1>1, <1>6 DEF Queue, vars, queueVars
<1> QED BY <1>2, <1>3, <1>4, <1>5, <1>6
-----------------------------------------------------------------------------
(* The device executes a command.                                          *)

\* What an execution does, in terms of the command that was issued.
LEMMA ExecuteIs ==
    ASSUME Typed, Queue, Landed, NEW k, Execute(k)
    PROVE  /\ k \in 1 .. Len(load) /\ k \in issued /\ k \notin Executed
           /\ UNCHANGED <<work, depth, issued, flying, status, load, dev, start>>
           /\ zones' = After(dev, zones, Meant(load[k])) /\ zones' \in Maps(dev)
           /\ DOMAIN zones' = DOMAIN zones
           /\ executed' \in Seq(1 .. Len(load)) /\ Executed' = Executed \cup {k}
           /\ IF Meant(load[k]).op = "append" /\ Succeeds(dev, zones, Meant(load[k]))
              THEN /\ DOMAIN landed' = DOMAIN landed \cup {k}
                   /\ landed'[k] = zones[load[k].zone].wp
                   /\ \A j \in DOMAIN landed : landed'[j] = landed[j]
              ELSE landed' = landed
<1>1. /\ k \in flying /\ k \notin Executed
      /\ UNCHANGED <<work, depth, issued, flying, status, load, dev, start>>
  BY DEF Execute, queueVars
<1>2. k \in issued /\ k \in work /\ k \in 1 .. Len(load) /\ dev \in Devices /\ load \in Loads
  BY <1>1, IssuedIs DEF Queue, Typed
<1>3. Command(Encode(load[k])) = Meant(load[k]) /\ Meant(load[k]) \in Orders
      /\ Meant(load[k]).zone = load[k].zone
  BY <1>2, RoundTrip, CommandFacts DEF Meant, Queue
<1>4. zones' = After(dev, zones, Meant(load[k]))
  BY <1>3 DEF Execute
<1>5. zones' \in Maps(dev) /\ DOMAIN zones' = DOMAIN zones
  <2>1. After(dev, zones, Meant(load[k])) \in Maps(dev)
    BY <1>2, <1>3, AfterType DEF Typed
  <2> QED BY <1>4, <2>1 DEF Typed, Maps
<1>6. executed' \in Seq(1 .. Len(load)) /\ Executed' = Executed \cup {k}
  <2>1. executed' = Append(executed, k) /\ executed \in Seq(1 .. Len(load))
    BY DEF Execute, Queue
  <2>2. PICK s, D, t : s = executed /\ D = 1 .. Len(load) /\ t = executed'
    OBVIOUS
  <2>3. s \in Seq(D) /\ k \in D /\ t = Append(s, k)
    BY <1>2, <2>1, <2>2
  <2>4. /\ Len(s) \in Nat /\ DOMAIN s = 1 .. Len(s)
        /\ t \in Seq(D) /\ DOMAIN t = 1 .. Len(s) + 1
        /\ \A n \in 1 .. Len(s) : t[n] = s[n]
        /\ t[Len(s) + 1] = k
    BY ONLY <2>3
  <2>5. 1 .. Len(s) + 1 = (1 .. Len(s)) \cup {Len(s) + 1}
    BY <2>4, UpTo
  <2>6. {t[n] : n \in DOMAIN t} = {s[n] : n \in DOMAIN s} \cup {k}
    BY ONLY <2>4, <2>5
  <2>7. Executed = {s[n] : n \in DOMAIN s} /\ Executed' = {t[n] : n \in DOMAIN t}
    BY <2>2 DEF Executed
  <2> QED BY <2>2, <2>4, <2>6, <2>7
<1>7. landed' = IF Meant(load[k]).op = "append" /\ Succeeds(dev, zones, Meant(load[k]))
                THEN [j \in DOMAIN landed \cup {k} |->
                         IF j = k THEN zones[load[k].zone].wp ELSE landed[j]]
                ELSE landed
  BY <1>3 DEF Execute
<1>8. k \notin DOMAIN landed
  BY <1>1 DEF Landed
<1> QED BY <1>1, <1>2, <1>4, <1>5, <1>6, <1>7, <1>8

\* At depth 1 the device executes the command after those it has executed, and finds
\* the zones as they were recorded.
LEMMA NextInOrder ==
    ASSUME Typed, Queue, InOrder, depth = 1, NoneLost, NEW k \in issued \ Executed
    PROVE  /\ k \in 1 .. Len(load) /\ zones = Serial[k - 1]
           /\ Executed \cup {k} = work \cap 1 .. k
<1>1. PICK i \in 0 .. Len(load) : issued = work \cap 1 .. i
  BY DEF Queue
<1>2. PICK m \in 0 .. Len(load) : Executed = work \cap 1 .. m /\ zones = Serial[m]
  BY DEF InOrder
<1>3. /\ Len(load) \in Nat /\ i \in Nat /\ m \in Nat /\ k \in 1 .. i /\ k \notin 1 .. m
      /\ k \in 1 .. Len(load) /\ k \in work /\ work \subseteq 1 .. Len(load)
  BY <1>1, <1>2, IssuedIs
<1>4. k \in Nat /\ m + 1 <= k /\ k - 1 \in 0 .. Len(load) /\ m <= k - 1
  BY <1>3
<1>5. issued \ Executed = {k}
  <2>1. IsFiniteSet(issued \ Executed) /\ Cardinality(issued \ Executed) \in Nat
        /\ Cardinality(issued \ Executed) <= 1
    BY IssuedIs DEF Queue
  <2>2. IsFiniteSet((issued \ Executed) \ {k})
        /\ Cardinality((issued \ Executed) \ {k}) = Cardinality(issued \ Executed) - 1
    BY <2>1, FS_RemoveElement
  <2>3. Cardinality((issued \ Executed) \ {k}) \in Nat
    BY <2>2, FS_CardinalityType
  <2>4. Cardinality((issued \ Executed) \ {k}) = 0
    BY ONLY <2>1, <2>2, <2>3
  <2>5. (issued \ Executed) \ {k} = {}
    BY <2>2, <2>4, FS_EmptySet
  <2> QED BY <2>5
<1>6. ASSUME NEW j \in m + 1 .. k - 1 PROVE j \notin work
  <2>1. j \in 1 .. i /\ j \notin 1 .. m /\ j # k
    BY <1>3, <1>4
  <2> QED BY <1>1, <1>2, <1>5, <2>1
<1>7. \A j \in m + 1 .. k - 1 : load[j].op \in Ignored
  <2>1. \A j \in m + 1 .. k - 1 : j \in 1 .. Len(load)
    BY <1>3, <1>4
  <2> QED BY <1>6, <2>1 DEF Queue
<1>8. zones = Serial[k - 1]
  <2>1. PICK x, y : x = Serial[m] /\ y = Serial[k - 1]
    OBVIOUS
  <2>2. x = y
    BY <1>4, <1>7, <2>1, SerialSkips
  <2> QED BY <1>2, <2>1, <2>2
<1>9. Executed \cup {k} = work \cap 1 .. k
  <2>1. ASSUME NEW j \in work PROVE j \in Executed \cup {k} <=> j \in 1 .. k
    <3>1. j \in Nat /\ j >= 1
      BY <1>3
    <3>2. CASE j <= m
      BY <1>2, <1>4, <3>1, <3>2
    <3>3. CASE m < j /\ j < k
      <4>1. j \in m + 1 .. k - 1
        BY <1>3, <1>4, <3>1, <3>3
      <4> QED BY <1>6, <4>1
    <3>4. CASE j >= k
      BY <1>2, <1>4, <3>1, <3>4
    <3> QED BY <1>3, <1>4, <3>1, <3>2, <3>3, <3>4
  <2> QED BY <1>2, <1>3, <2>1
<1> QED BY <1>3, <1>8, <1>9

\* While none is refused, the next append that fits the recorded program's zones is
\* not refused either: at depth 1, where the zones are the same, and at any depth
\* when no limit can be met, since fewer blocks are in the zone than in the end.
LEMMA NextAccepted ==
    ASSUME Typed, Queue, InOrder, FittingLoad, Filled(zones, Executed), depth = 1 \/ ~Limited,
           NEW k \in issued \ Executed, load[k].op # "read"
    PROVE  Succeeds(dev, zones, Meant(load[k]))
<1>1. /\ k \in 1 .. Len(load) /\ Len(load) \in Nat /\ load \in Loads /\ dev \in Devices
      /\ IsFiniteSet(1 .. Len(load)) /\ IsFiniteSet(Executed) /\ Executed \subseteq 1 .. Len(load)
  BY IssuedIs DEF Typed
<1>2. CASE depth = 1
  <2>1. zones = Serial[k - 1]
    BY <1>2, NextInOrder, SerialFilled
  <2>2. Succeeds(dev, Serial[k - 1], Meant(load[k]))
    BY <1>1, SerialFilled
  <2> QED BY <2>1, <2>2
<1>3. CASE ~Limited
  <2> DEFINE c == Meant(load[k])
             z == load[k].zone
  <2>1. /\ load[k] \in Commands /\ load[k].op \in {"write", "append"} /\ ~load[k].all
        /\ c \in Orders
    BY <1>1, CommandFacts, SerialFilled DEF Actions
  <2>2. c.op = "append" /\ ~c.all /\ c.zone = z /\ c.nlb = load[k].nlb
    BY <2>1 DEF Meant
  <2>3. dev.num_zone <= dev.max_open /\ dev.num_zone <= dev.max_active
    <3>1. 0 \in Int /\ dev.num_zone - 1 \in Int /\ dev.num_zone \in Nat
          /\ dev.max_open \in Nat /\ dev.max_active \in Nat
      BY <1>1, DeviceFacts
    <3>2. Cardinality(0 .. dev.num_zone - 1) =
             IF 0 > dev.num_zone - 1 THEN 0 ELSE dev.num_zone - 1 - 0 + 1
      BY <3>1, FS_Interval
    <3>3. DOMAIN zones = 0 .. dev.num_zone - 1
      BY DEF Typed, Maps
    <3>4. Cardinality(DOMAIN zones) = dev.num_zone
      BY ONLY <3>1, <3>2, <3>3
    <3> QED BY <1>3, <3>1, <3>4 DEF Limited
  <2>4. z \in 0 .. dev.num_zone - 1
    <3>1. PICK zs : zs = Serial[k - 1]
      OBVIOUS
    <3>2. Succeeds(dev, zs, c) /\ zs \in Maps(dev)
      <4>1. k - 1 \in 0 .. Len(load) /\ load[k].op # "read"
        BY <1>1, <2>1
      <4> QED BY <1>1, <3>1, <4>1, SerialIs, SerialFilled
    <3> HIDE DEF c, z
    <3> QED BY <1>1, <2>1, <2>2, <2>3, <3>2, Independent
  <2>5. Allowed(dev, zones[z], c)
    <3>1. PICK all : all = Serial[Len(load)]
      OBVIOUS
    <3>2. all \in Maps(dev) /\ Filled(all, 1 .. Len(load))
      BY <1>1, <3>1, SerialIs, SerialFilled
    <3>3. /\ all[z].wp = start[z].wp + Cardinality(Blocks(z, 1 .. Len(load)))
          /\ all[z].wp <= dev.zcap /\ all[z].wp \in Nat /\ start[z].wp \in Nat
      BY <1>1, <2>4, <3>2, DeviceFacts DEF Filled, Maps, ZoneValues, Typed
    <3>4. /\ zones[z].wp = start[z].wp + Cardinality(Blocks(z, Executed)) /\ zones[z].wp \in Nat
          /\ zones[z].state = "full" => zones[z].wp = dev.zcap
      BY <1>1, <2>4, DeviceFacts DEF Typed, Filled, Maps, ZoneValues
    <3>5. Cardinality(Blocks(z, Executed \cup {k})) = Cardinality(Blocks(z, Executed)) + load[k].nlb
      BY <1>1, <2>1, BlocksAdd
    <3>6. /\ Cardinality(Blocks(z, Executed \cup {k})) <= Cardinality(Blocks(z, 1 .. Len(load)))
          /\ Cardinality(Blocks(z, 1 .. Len(load))) \in Nat /\ Cardinality(Blocks(z, Executed)) \in Nat
      BY <1>1, BlocksFew
    <3>7. c.nlb \in Nat /\ c.nlb > 0 /\ dev.zcap \in Nat
      <4>1. load[k].nlb \in 1 .. BlockWord
        BY <2>1 DEF Commands
      <4> QED BY <1>1, <2>2, <4>1, DeviceFacts, ZonedReplayAssumption
    <3>8. PICK w \in Nat : w = zones[z].wp
      BY <3>4
    <3>9. w + c.nlb <= dev.zcap
      <4>1. w + c.nlb <= all[z].wp
        <5>1. PICK s, b, e, n \in Nat :
                  /\ s = start[z].wp /\ b = Cardinality(Blocks(z, Executed))
                  /\ e = Cardinality(Blocks(z, 1 .. Len(load))) /\ n = c.nlb
          BY <3>3, <3>6, <3>7
        <5>2. w = s + b /\ all[z].wp = s + e /\ b + n <= e
          BY <2>2, <3>3, <3>4, <3>5, <3>6, <3>8, <5>1
        <5>3. w + n <= s + e
          BY ONLY <5>2, w \in Nat, s \in Nat, b \in Nat, e \in Nat, n \in Nat
        <5> HIDE DEF c, z
        <5> QED BY <5>1, <5>2, <5>3
      <4> HIDE DEF c, z
      <4> QED BY ONLY <3>3, <3>7, <4>1
    <3>10. w # dev.zcap
      <4> HIDE DEF c, z
      <4> QED BY ONLY <3>7, <3>9
    <3> QED BY <2>2, <3>4, <3>8, <3>9, <3>10 DEF Allowed
  <2> HIDE DEF c, z
  <2> QED BY <1>1, <2>1, <2>2, <2>3, <2>4, <2>5, Independent DEF c, Typed
<1> QED BY <1>2, <1>3

\* A command lands at most the blocks of the depth - 1 others that may be pending
\* before the place where the recorded one did.
LEMMA LandsNearby ==
    ASSUME Typed, Queue, FittingLoad, Filled(zones, Executed),
           NEW k \in issued \ Executed, load[k].zone \in DOMAIN zones
    PROVE  zones[load[k].zone].wp >= Recorded(k) - (depth - 1) * LongestAppend
<1> DEFINE z == load[k].zone
           P == (1 .. k - 1) \ Executed
<1>1. /\ k \in 1 .. Len(load) /\ Len(load) \in Nat /\ load \in Loads /\ dev \in Devices
      /\ IsFiniteSet(1 .. Len(load)) /\ IsFiniteSet(Executed)
      /\ IsFiniteSet(issued \ Executed) /\ Cardinality(issued \ Executed) \in Nat
  BY IssuedIs DEF Typed
<1>2. k \in Nat /\ k - 1 \in Nat /\ k - 1 \in 0 .. Len(load) /\ 1 .. k - 1 \subseteq 1 .. Len(load)
  BY <1>1
<1>3. Recorded(k) = start[z].wp + Cardinality(Blocks(z, 1 .. k - 1)) /\ start[z].wp \in Nat
  <2>1. PICK zs : zs = Serial[k - 1]
    OBVIOUS
  <2>2. zs \in Maps(dev) /\ Filled(zs, 1 .. k - 1)
    BY <1>2, <2>1, SerialIs, SerialFilled
  <2>3. z \in DOMAIN zs
    BY <2>2 DEF Maps, Typed
  <2>4. start[z].wp \in Nat
    BY <1>1, DeviceFacts DEF Typed, Maps, ZoneValues
  <2> QED BY <2>1, <2>2, <2>3, <2>4 DEF Filled, Recorded
<1>4. zones[z].wp = start[z].wp + Cardinality(Blocks(z, Executed))
  BY DEF Filled
<1>5. IsFiniteSet(P) /\ P \subseteq 1 .. Len(load) /\ Cardinality(P) \in Nat
      /\ Cardinality(P) <= depth - 1
  <2>1. PICK i \in 0 .. Len(load) : issued = 1 .. i
    <3>1. \A j \in 1 .. Len(load) : load[j].op \notin Ignored
      BY SerialFilled
    <3>2. work = 1 .. Len(load)
      BY <3>1 DEF Queue
    <3>3. PICK i \in 0 .. Len(load) : issued = work \cap 1 .. i
      BY DEF Queue
    <3>4. work \cap 1 .. i = 1 .. i
      BY <1>1, <3>2
    <3> QED BY <3>3, <3>4
  <2>2. P \in SUBSET ((issued \ Executed) \ {k})
    BY <1>1, <1>2, <2>1
  <2>3. IsFiniteSet((issued \ Executed) \ {k})
        /\ Cardinality((issued \ Executed) \ {k}) = Cardinality(issued \ Executed) - 1
    BY <1>1, FS_RemoveElement
  <2>4. IsFiniteSet(P) /\ Cardinality(P) <= Cardinality((issued \ Executed) \ {k})
    BY <2>2, <2>3, FS_Subset
  <2>5. Cardinality(P) \in Nat
    BY <2>4, FS_CardinalityType
  <2>6. Cardinality(issued \ Executed) <= depth /\ depth \in Nat
    BY DEF Queue, Typed
  <2>7. P \subseteq 1 .. Len(load)
    BY <1>2
  <2> HIDE DEF P
  <2> QED BY <1>1, <2>3, <2>4, <2>5, <2>6, <2>7
<1>6. Cardinality(Blocks(z, P)) <= Cardinality(P) * LongestAppend
  <2>1. LongestAppend \in Nat /\ \A j \in P : load[j].nlb \in Nat /\ load[j].nlb <= LongestAppend
    BY <1>1, <1>5, LongestIs
  <2> HIDE DEF P
  <2> QED BY <1>5, <2>1, BlocksBounded
<1>7. Cardinality(Blocks(z, 1 .. k - 1)) <= Cardinality(Blocks(z, Executed)) + Cardinality(Blocks(z, P))
  <2>1. /\ IsFiniteSet(Blocks(z, Executed)) /\ Cardinality(Blocks(z, Executed)) \in Nat
        /\ IsFiniteSet(Blocks(z, P)) /\ Cardinality(Blocks(z, P)) \in Nat
    BY <1>1, <1>5, BlocksFew
  <2>2. Blocks(z, 1 .. k - 1) \in SUBSET (Blocks(z, Executed) \cup Blocks(z, P))
    BY DEF Blocks
  <2>3. IsFiniteSet(Blocks(z, Executed) \cup Blocks(z, P))
        /\ Cardinality(Blocks(z, Executed) \cup Blocks(z, P)) =
              Cardinality(Blocks(z, Executed)) + Cardinality(Blocks(z, P))
                 - Cardinality(Blocks(z, Executed) \cap Blocks(z, P))
    BY <2>1, FS_Union
  <2>4. IsFiniteSet(Blocks(z, 1 .. k - 1)) /\ Cardinality(Blocks(z, 1 .. k - 1)) <=
            Cardinality(Blocks(z, Executed) \cup Blocks(z, P))
    BY <2>2, <2>3, FS_Subset
  <2>5. IsFiniteSet(Blocks(z, Executed) \cap Blocks(z, P))
    BY <2>1, FS_Intersection
  <2>6. /\ Cardinality(Blocks(z, Executed) \cap Blocks(z, P)) \in Nat
        /\ Cardinality(Blocks(z, 1 .. k - 1)) \in Nat
    BY <2>4, <2>5, FS_CardinalityType
  <2> HIDE DEF P, z
  <2> QED BY ONLY <2>1, <2>3, <2>4, <2>6
<1>8. PICK L \in Nat : L = LongestAppend
  BY <1>1, LongestIs
<1>9. PICK p \in Nat, e \in Nat, d \in Nat :
         p = Cardinality(P) /\ e = depth - 1 - p /\ d = depth - 1 /\ d = p + e
  <2>1. depth \in Nat
    BY DEF Typed
  <2> HIDE DEF P
  <2>2. Cardinality(P) \in Nat /\ depth - 1 - Cardinality(P) \in Nat /\ depth - 1 \in Nat
    BY <1>5, <2>1
  <2> QED BY <1>5, <2>1, <2>2
<1>10. p * L <= d * L /\ p * L \in Nat /\ d * L \in Nat
  <2>1. p * L \in Nat /\ e * L \in Nat /\ d * L = p * L + e * L
    BY <1>9
  <2> QED BY ONLY <2>1, d * L = p * L + e * L
<1>11. /\ Cardinality(Blocks(z, P)) \in Nat /\ Cardinality(Blocks(z, Executed)) \in Nat
       /\ Cardinality(Blocks(z, 1 .. k - 1)) \in Nat
  <2>1. IsFiniteSet(1 .. k - 1)
    BY <1>2, UpTo
  <2> QED BY <1>1, <1>5, <2>1, BlocksFew
<1>12. Cardinality(Blocks(z, P)) <= d * L
  <2> HIDE DEF P, z
  <2> QED BY <1>6, <1>8, <1>9, <1>10, <1>11
<1>13. Cardinality(Blocks(z, Executed)) >= Cardinality(Blocks(z, 1 .. k - 1)) - d * L
  <2> HIDE DEF P, z
  <2> QED BY ONLY <1>7, <1>10, <1>11, <1>12
<1>14. PICK s, b, r, x \in Nat :
           /\ s = start[z].wp /\ b = Cardinality(Blocks(z, Executed))
           /\ r = Cardinality(Blocks(z, 1 .. k - 1)) /\ x = d * L
  BY <1>3, <1>10, <1>11
<1>15. s + b >= s + r - x
  BY <1>13, <1>14
<1>16. zones[z].wp = s + b /\ Recorded(k) = s + r /\ (depth - 1) * LongestAppend = x
  BY <1>3, <1>4, <1>8, <1>9, <1>14
<1> QED BY <1>15, <1>16

\* The command that is executed keeps the invariant.
LEMMA ExecuteInv ==
    ASSUME IInv, NEW k, Execute(k)
    PROVE  IInv'
<1> USE DEF IInv
<1> DEFINE c == Meant(load[k])
           lands == c.op = "append" /\ Succeeds(dev, zones, c)
<1>1. /\ k \in 1 .. Len(load) /\ k \in issued /\ k \notin Executed
      /\ UNCHANGED <<work, depth, issued, flying, status, load, dev, start>>
      /\ zones' = After(dev, zones, c) /\ zones' \in Maps(dev)
      /\ DOMAIN zones' = DOMAIN zones
      /\ executed' \in Seq(1 .. Len(load)) /\ Executed' = Executed \cup {k}
  BY ExecuteIs
<1>2. /\ lands => /\ DOMAIN landed' = DOMAIN landed \cup {k}
                  /\ landed'[k] = zones[load[k].zone].wp
                  /\ \A j \in DOMAIN landed : landed'[j] = landed[j]
      /\ ~lands => landed' = landed
  BY ExecuteIs
<1>3. /\ Serial' = Serial /\ FittingLoad' = FittingLoad /\ Limited' = Limited
      /\ OrderMatters' = OrderMatters /\ LongestAppend' = LongestAppend
      /\ NoneLost' = NoneLost
  BY <1>1, SameLoad
<1>4. /\ Len(load) \in Nat /\ load \in Loads /\ dev \in Devices /\ depth \in Nat
      /\ Executed \subseteq 1 .. Len(load) /\ Executed \in SUBSET (1 .. Len(load))
      /\ IsFiniteSet(issued \ Executed) /\ Cardinality(issued \ Executed) \in Nat
      /\ c \in Orders /\ c.zone = load[k].zone
  BY <1>1, IssuedIs, CommandFacts DEF Typed, Meant
<1>5. lands => load[k].zone \in DOMAIN zones /\ zones[load[k].zone].wp \in Nat
  <2>1. ASSUME lands PROVE load[k].zone \in DOMAIN zones
    <3>1. c.op = "append" /\ Targets(zones, c) \subseteq DOMAIN zones
      BY <2>1 DEF Succeeds
    <3>2. ~c.all
      BY <1>1, <1>4, <3>1, CommandFacts DEF Meant, Actions
    <3> QED BY <1>4, <3>1, <3>2 DEF Targets
  <2> HIDE DEF lands
  <2> QED BY <1>4, <2>1, DeviceFacts DEF Typed, Maps, ZoneValues
<1> HIDE DEF lands
<1>6. Typed'
  BY <1>1 DEF Typed, Maps, ZoneValues
<1>7. Queue'
  <2>1. Cardinality(issued \ (Executed \cup {k})) <= depth
    <3>1. IsFiniteSet(issued \ (Executed \cup {k}))
          /\ Cardinality(issued \ (Executed \cup {k})) <= Cardinality(issued \ Executed)
      <4>1. issued \ (Executed \cup {k}) \in SUBSET (issued \ Executed)
        OBVIOUS
      <4> QED BY <1>4, <4>1, FS_Subset
    <3>2. Cardinality(issued \ (Executed \cup {k})) \in Nat
      BY <3>1, FS_CardinalityType
    <3>3. Cardinality(issued \ Executed) <= depth
      BY DEF Queue
    <3> QED BY ONLY <1>4, <3>1, <3>2, <3>3
  <2>2. status = "complete" => Executed \cup {k} = work
    BY <1>1 DEF Queue
  <2> QED BY <1>1, <2>1, <2>2 DEF Queue
<1>8. depth = 1 /\ NoneLost => Executed \cup {k} = work \cap 1 .. k /\ zones = Serial[k - 1]
  BY <1>1, NextInOrder
<1>9. InOrder'
  <2>1. ASSUME depth = 1, NoneLost PROVE Executed \cup {k} = work \cap 1 .. k /\ zones' = Serial[k]
    <3>1. PICK s : s = Serial
      OBVIOUS
    <3>2. s[k] = After(dev, s[k - 1], c)
      BY <1>1, <3>1, SerialIs
    <3> QED BY <1>1, <1>8, <2>1, <3>1, <3>2
  <2>2. k \in 0 .. Len(load)
    BY <1>1, <1>4
  <2>3. depth = 1 /\ NoneLost =>
            \E n \in 0 .. Len(load) : Executed' = work \cap 1 .. n /\ zones' = Serial[n]
    BY <1>1, <2>1, <2>2
  <2> QED BY <1>1, <1>3, <2>3 DEF InOrder
<1>10. Unordered'
  <2>1. ASSUME ~OrderMatters PROVE Agrees(zones', Executed \cup {k})
    <3>1. Agrees(zones, Executed) /\ zones \in Maps(dev)
      BY <2>1 DEF Unordered, Typed
    <3>2. Agrees(After(dev, zones, c), Executed \cup {k})
      BY <1>1, <1>4, <2>1, <3>1, AgreesMore
    <3> QED BY <1>1, <3>2
  <2>2. ~OrderMatters' => Agrees(zones, Executed)'
    BY <1>1, <1>3, <2>1, AgreesNext
  <2> QED BY <2>2 DEF Unordered
<1>11. Landed'
  <2>1. DOMAIN landed' \subseteq Executed'
    BY <1>1, <1>2 DEF Landed
  <2>2. ASSUME NEW j \in DOMAIN landed' PROVE Meant(load[j]).op = "append" /\ landed'[j] \in Nat
    BY <1>2, <1>5, <2>2 DEF Landed, lands
  <2>3. ASSUME depth = 1, NoneLost, NEW j \in DOMAIN landed' PROVE landed'[j] = Recorded(j)
    BY <1>2, <1>8, <2>3 DEF Landed, Recorded
  <2> QED BY <1>1, <1>3, <2>1, <2>2, <2>3 DEF Landed, Recorded
<1>12. Nearby'
  <2>1. ASSUME FittingLoad, depth = 1 \/ ~Limited PROVE Accepted'
    <3>1. Accepted /\ Filled(zones, Executed)
      BY <2>1 DEF Nearby
    <3>2. ASSUME load[k].op # "read" PROVE lands
      <4>1. Succeeds(dev, zones, c)
        BY <1>1, <2>1, <3>1, <3>2, NextAccepted
      <4>2. c.op = "append"
        BY <1>1, <2>1, <3>2, SerialFilled DEF Meant
      <4> QED BY <4>1, <4>2 DEF lands
    <3>3. {j \in Executed \cup {k} : load[j].op # "read"} \subseteq DOMAIN landed'
      BY <1>2, <3>1, <3>2 DEF Accepted
    <3> QED BY <1>1, <3>3 DEF Accepted
  <2>2. ASSUME FittingLoad, Accepted'
        PROVE  /\ Filled(zones', Executed \cup {k})
               /\ \A j \in DOMAIN landed' : landed'[j] >= Recorded(j) - (depth - 1) * LongestAppend
    <3>1. {j \in Executed \cup {k} : load[j].op # "read"} \subseteq DOMAIN landed'
      BY <1>1, <2>2 DEF Accepted
    <3>2. k \notin DOMAIN landed
      BY <1>1 DEF Landed
    <3>3. Accepted
      BY <1>1, <1>2, <3>1 DEF Accepted
    <3>4. load[k].op # "read" => lands
      BY <1>2, <3>1, <3>2
    <3>5. /\ Filled(zones, Executed)
          /\ \A j \in DOMAIN landed : landed[j] >= Recorded(j) - (depth - 1) * LongestAppend
      BY <2>2, <3>3 DEF Nearby
    <3>6. load[k].op \in {"read", "write", "append"}
      BY <1>1, <2>2, SerialFilled
    <3>7. Filled(zones', Executed \cup {k})
      <4>1. zones \in Maps(dev) /\ (load[k].op # "read" => Succeeds(dev, zones, c))
        BY <3>4 DEF Typed, lands
      <4>2. Filled(After(dev, zones, c), Executed \cup {k})
        BY <1>1, <1>4, <3>5, <3>6, <4>1, FilledMore
      <4> QED BY <1>1, <4>2
    <3>8. ASSUME lands PROVE landed'[k] >= Recorded(k) - (depth - 1) * LongestAppend
      BY <1>1, <1>2, <1>5, <2>2, <3>5, <3>8, LandsNearby
    <3>9. ASSUME NEW j \in DOMAIN landed'
          PROVE  landed'[j] >= Recorded(j) - (depth - 1) * LongestAppend
      BY <1>2, <3>5, <3>8
    <3> QED BY <3>7, <3>9
  <2>3. Filled(zones', Executed \cup {k}) => Filled(zones, Executed)'
    BY <1>1, AgreesNext
  <2> QED BY <1>1, <1>3, <2>1, <2>2, <2>3 DEF Nearby, Recorded
<1> QED BY <1>6, <1>7, <1>9, <1>10, <1>11, <1>12

\* The invariant holds throughout.
THEOREM Invariance == Spec => []IInv
<1>1. Init => IInv
  BY InitInv
<1>2. ASSUME IInv, [Next]_vars PROVE IInv'
  <2>1. ASSUME NEW k \in work, Replay(k) PROVE IInv'
    BY <1>2, <2>1, QueueKept, Kept DEF IInv, Replay, Issue
  <2>2. ASSUME NEW k \in work, Execute(k) PROVE IInv'
    BY <1>2, <2>2, ExecuteInv
  <2>3. CASE Reap
    BY <1>2, <2>3, QueueKept, Kept DEF IInv, Reap, Retire
  <2>4. CASE Finish
    BY <1>2, <2>4, QueueKept, Kept DEF IInv, Finish, Complete
  <2>5. CASE GiveUp
    BY <1>2, <2>5, QueueKept, Kept DEF IInv, GiveUp, Abort
  <2>6. CASE UNCHANGED vars
    BY <1>2, <2>6, QueueKept, Kept DEF IInv, vars, queueVars
  <2> QED BY <1>2, <2>1, <2>2, <2>3, <2>4, <2>5, <2>6 DEF Next, Terminated
<1> QED BY <1>1, <1>2, PTL DEF Spec

\* A complete replay leaves the zones as the recorded commands would have, at depth 1
\* and at any depth when their order makes no difference, in whatever order the device
\* executes what process_zns_replay has sent and whatever the reset left in the zones,
\* unless the load holds a command that changes a zone and that the switch ignores.
THEOREM RecordedEffect == Spec => []ReplayedAsRecorded
<1>1. ASSUME IInv PROVE ReplayedAsRecorded
  <2>1. SUFFICES ASSUME status = "complete", NoneLost, depth = 1 \/ ~OrderMatters
                 PROVE  zones = Serial[Len(load)]
    BY DEF ReplayedAsRecorded
  <2>2. Executed = work /\ Len(load) \in Nat /\ work \subseteq 1 .. Len(load) /\ Typed
    BY <1>1, <2>1, IssuedIs DEF IInv, Queue
  <2>3. \A j \in (1 .. Len(load)) \ work : load[j].op \in Ignored
    BY <1>1 DEF IInv, Queue
  <2>4. CASE depth = 1
    <3>1. PICK n \in 0 .. Len(load) : Executed = work \cap 1 .. n /\ zones = Serial[n]
      BY <1>1, <2>1, <2>4 DEF IInv, InOrder
    <3>2. \A j \in n + 1 .. Len(load) : j \in (1 .. Len(load)) \ work
      BY <2>2, <3>1
    <3>3. PICK x, y : x = Serial[n] /\ y = Serial[Len(load)]
      OBVIOUS
    <3>4. x = y
      <4>1. Len(load) \in 0 .. Len(load) /\ n <= Len(load)
        BY <2>2
      <4> QED BY <2>1, <2>2, <2>3, <3>2, <3>3, <4>1, SerialSkips
    <3> QED BY <3>1, <3>3, <3>4
  <2>5. CASE ~OrderMatters
    <3>1. \A j \in (1 .. Len(load)) \ work : ~Moving(j)
      <4>1. DOMAIN load = 1 .. Len(load)
        BY <2>2, CommandFacts DEF Typed
      <4> QED BY <2>1, <2>3, <4>1 DEF NoneLost, Ignored, Moving
    <3>2. \A z : Done(z, work) = Done(z, 1 .. Len(load))
      BY <2>2, <3>1 DEF Done
    <3>3. Agrees(zones, 1 .. Len(load)) /\ zones \in Maps(dev)
      <4>1. Agrees(zones, work)
        BY <1>1, <2>2, <2>5 DEF IInv, Unordered
      <4> QED BY <2>2, <3>1, <3>2, <4>1 DEF Agrees, Typed
    <3>4. PICK ys : ys = Serial[Len(load)]
      OBVIOUS
    <3>5. Agrees(ys, 1 .. Len(load)) /\ ys \in Maps(dev)
      BY <2>2, <2>5, <3>4, SerialAgrees, SerialIs
    <3> QED BY <2>2, <2>5, <3>3, <3>4, <3>5, AgreesOnce
  <2> QED BY <2>1, <2>4, <2>5
<1> QED BY <1>1, Invariance, PTL

\* Where a program only reads, writes and appends, and all fits, the replay's appends
\* are accepted and land as near to the recorded place as the depth allows.
THEOREM AppendsLandNearby == Spec => []AppendsNearby
<1>1. ASSUME IInv PROVE AppendsNearby
  <2>1. FittingLoad => NoneLost
    BY <1>1, SerialFilled DEF IInv
  <2> QED BY <1>1, <2>1 DEF IInv, Nearby, Landed, Recorded, Accepted, AppendsNearby
<1> QED BY <1>1, Invariance, PTL
=============================================================================
