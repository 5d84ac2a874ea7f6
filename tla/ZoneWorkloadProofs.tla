------------------------- MODULE ZoneWorkloadProofs -------------------------
(***************************************************************************)
(* Proofs about ZoneWorkload, for every zoned device, option, queue depth, *)
(* number of request objects and order in which the device executes what   *)
(* is outstanding.                                                         *)
(*                                                                         *)
(* The invariant IInv below is inductive.  Its heart is an account per     *)
(* zone: what is written and what the appends in flight will write         *)
(* (Reserved) stays within what the loops have accounted for so far        *)
(* (Quota); with it, which zones have had their finish command (Past) and  *)
(* that nothing is outstanding where the loops rely on it (Position).      *)
(*                                                                         *)
(* On top of it, BInv is an account of the budgets: the requests the loops *)
(* have had an occasion for (Served) and the zones they have finished      *)
(* (Closed) make up what is sent, and what is sent of each kind and what   *)
(* is left of its budget make up the plan of main().                       *)
(***************************************************************************)
EXTENDS ZoneWorkload, FiniteSetTheorems, TLAPS

Command == [op : {"append", "read", "finish"}, zone : Zones]

Typed ==
    /\ dev \in Devices /\ g_num_io_block \in BlockArgs
    /\ app \in {"zns", "opz"} /\ g_access_rand \in BOOLEAN
    /\ g_queue_depth \in Nat
    /\ pc \in {"start", "alloc", "info", "check", "request", "drain", "finish", "loop",
               "report"} \cup Final
    /\ loop \in Nat /\ zone \in Nat
    /\ lba \in 0 .. dev.zcap
    /\ cmds \in Seq(Command)
    /\ outstanding_commands \in Nat
    /\ wp \in [Zones -> 0 .. dev.zcap]
    /\ rejected = {}
    /\ QpairTypeOK(DOMAIN cmds)

\* The first zone of the group.
First == loop * dev.max_open

\* The appends to zone z the device has not executed, and what the zone will have
\* when it has.
Appending(z) == {c \in inflight : cmds[c].op = "append" /\ cmds[c].zone = z}
Reserved(z) == wp[z] + g_num_io_block * Cardinality(Appending(z))

\* No zone is ever promised more than it holds, and a finish command has the zone
\* for itself.
Fitting == \A z \in Zones : Reserved(z) <= dev.zcap
FinishAlone ==
    \A c \in inflight, z \in Zones :
        cmds[c].op = "finish" /\ cmds[c].zone = z => Appending(z) = {}

\* The counter is the number of commands without an answer.
Exact == outstanding_commands = Cardinality(Flying) /\ inflight \cap cq = {}

\* Before the load nothing is sent, and the zones are reset.
Before ==
    pc \in {"start", "alloc", "info", "check"} =>
        /\ loop = 0 /\ zone = 0 /\ lba = 0 /\ cmds = <<>> /\ outstanding_commands = 0
        /\ pc \in {"info", "check"} => g_queue_depth > 0
        /\ pc \in {"info", "check"} /\ dev.zoned => \A z \in Zones : wp[z] = 0

\* Where the loops stand.
Position ==
    Loading =>
        /\ g_queue_depth > 0 /\ outstanding_commands <= g_queue_depth
        /\ dev.max_open = 0 => pc = "report" /\ loop = 0 /\ app = "opz"
        /\ dev.max_open > 0 => loop < groups /\ zone \in Group
        /\ pc = "finish" => g_access_rand /\ app = "zns"
        /\ pc = "loop" => app = "zns"
        /\ pc = "report" => outstanding_commands = 0
        /\ pc = "report" /\ app = "zns" => loop + 1 = groups
        /\ g_access_rand /\ pc = "drain" => Fits
        /\ g_access_rand /\ pc = "request" => IF zone = First THEN outstanding_commands = 0
                                              ELSE Fits

\* What the loops have accounted for in zone z.
Quota(z) ==
    IF z >= First + dev.max_open THEN 0
    ELSE IF z < First \/ pc \notin {"request", "drain"} THEN dev.zcap
    ELSE IF g_access_rand THEN IF z < zone \/ pc = "drain" THEN lba + g_num_io_block ELSE lba
    ELSE IF z < zone THEN dev.zcap ELSE IF z = zone THEN lba ELSE 0
Quotas == Loading => \A z \in Zones : Reserved(z) <= Quota(z)

\* Zone z has had its finish command.
Past(z) ==
    /\ app = "zns"
    /\ \/ z < First
       \/ z < zone /\ (g_access_rand => pc = "finish")
       \/ z < First + dev.max_open /\ pc \in {"loop", "report"}

\* f is the only finish command of zone z and comes after all others.
FinishedBy(f, z) ==
    /\ SentTo("finish", z) = {f}
    /\ \A c \in DOMAIN cmds : cmds[c].zone = z => c <= f
    /\ f \in inflight \/ wp[z] = dev.zcap

Finishes ==
    Loading =>
        /\ \A z \in Zones :
              IF Past(z) THEN Appending(z) = {} /\ \E f \in DOMAIN cmds : FinishedBy(f, z)
              ELSE SentTo("finish", z) = {}
        /\ app = "zns" => \A z \in Zones : z < First => wp[z] = dev.zcap
        /\ pc = "finish" => \A z \in Zones : Appending(z) = {}

IInv ==
    /\ Typed
    /\ Fitting /\ FinishAlone /\ Exact
    /\ Before /\ Position /\ Quotas /\ Finishes
-----------------------------------------------------------------------------
(* Facts about the constants and the operators.                            *)

\* What the assumptions on the constants say of the device and of the parameters.
LEMMA Sizes ==
    ASSUME Typed
    PROVE  /\ dev.num_zone \in Nat /\ dev.zcap \in Nat \ {0} /\ dev.max_open \in Nat
           /\ dev.zoned \in BOOLEAN /\ dev.max_open <= dev.num_zone
           /\ g_num_io_block \in Nat \ {0} /\ lba \in Nat /\ IoQueueSize \in Nat \ {0}
BY WorkloadAssumption DEF Typed

\* A product of natural numbers is a natural number, and grows with a factor.
LEMMA Product ==
    ASSUME NEW a \in Nat, NEW b \in Nat
    PROVE  a * b \in Nat /\ a * (b + 1) = a * b + a /\ (b + 1) * a = b * a + a /\ a * 0 = 0
OBVIOUS

\* A group of zones lies within the device.
LEMMA GroupFits ==
    ASSUME Typed, dev.max_open > 0, loop < groups
    PROVE  First \in Nat /\ First + dev.max_open <= dev.num_zone
<1> DEFINE m == dev.max_open
           n == dev.num_zone
<1>1. m \in Nat \ {0} /\ n \in Nat /\ m <= n /\ loop \in Nat
  BY Sizes DEF Typed
<1>2. CASE app = "opz"
  <2>1. loop = 0
    BY <1>1, <1>2 DEF groups
  <2>2. First = 0
    BY <1>1, <2>1 DEF First
  <2> QED BY <1>1, <2>2
<1>3. CASE app = "zns"
  <2> DEFINE q == n \div m
             r == q - (loop + 1)
  <2>1. q \in Nat /\ m * q <= n /\ groups = q
    BY <1>1, <1>3 DEF groups
  <2>2. r \in Nat
    BY <1>1, <2>1
  <2>3. First = loop * m /\ First \in Nat /\ r * m \in Nat
    BY <1>1, <2>2, Product DEF First
  <2>4. q = (loop + 1) + r /\ loop + 1 \in Nat
    BY <1>1, <2>1
  <2> HIDE DEF q, r
  <2>5. m * ((loop + 1) + r) = loop * m + m + r * m
    BY <1>1, <2>2
  <2> QED BY <1>1, <2>1, <2>3, <2>4, <2>5
<1> QED BY <1>2, <1>3 DEF Typed

\* The commands outstanding are finitely many.
LEMMA Finite ==
    ASSUME Typed
    PROVE  /\ IsFiniteSet(Flying) /\ Cardinality(Flying) \in Nat
           /\ IsFiniteSet(inflight) /\ IsFiniteSet(cq)
           /\ \A z : IsFiniteSet(Appending(z)) /\ Cardinality(Appending(z)) \in Nat
           /\ DOMAIN cmds = 1 .. Len(cmds) /\ Len(cmds) \in Nat
<1>1. DOMAIN cmds = 1 .. Len(cmds) /\ Len(cmds) \in Nat
  BY DEF Typed
<1>2. IsFiniteSet(DOMAIN cmds)
  BY <1>1, FS_Interval
<1>3. Flying \in SUBSET DOMAIN cmds /\ inflight \in SUBSET DOMAIN cmds /\ cq \in SUBSET DOMAIN cmds
  BY DEF Typed, QpairTypeOK, Flying
<1>4. \A z : Appending(z) \in SUBSET DOMAIN cmds
  BY <1>3 DEF Appending
<1>5. \A S \in SUBSET DOMAIN cmds : IsFiniteSet(S) /\ Cardinality(S) \in Nat
  BY <1>2, FS_Subset, FS_CardinalityType
<1> QED BY <1>1, <1>3, <1>4, <1>5

\* Every command in flight is one that was sent.
LEMMA CommandSent ==
    ASSUME Typed, NEW c \in inflight
    PROVE  /\ c \in DOMAIN cmds /\ cmds[c] \in Command
           /\ cmds[c].zone \in Zones /\ cmds[c].op \in {"append", "read", "finish"}
<1>1. c \in 1 .. Len(cmds) /\ cmds \in Seq(Command) /\ DOMAIN cmds = 1 .. Len(cmds)
  BY DEF Typed, QpairTypeOK
<1>2. cmds[c] \in Command
  BY <1>1
<1> QED BY <1>1, <1>2 DEF Command

\* A zone is promised at least what it has, and more while appends are in flight.
LEMMA Account ==
    ASSUME Typed, NEW z \in Zones
    PROVE  /\ Reserved(z) \in Nat /\ wp[z] \in 0 .. dev.zcap /\ wp[z] <= Reserved(z)
           /\ Appending(z) = {} => Reserved(z) = wp[z]
           /\ Appending(z) # {} => wp[z] + g_num_io_block <= Reserved(z)
<1> DEFINE k == Cardinality(Appending(z))
           b == g_num_io_block
<1>1. wp[z] \in 0 .. dev.zcap /\ b \in Nat \ {0} /\ dev.zcap \in Nat
  BY Sizes DEF Typed
<1>2. IsFiniteSet(Appending(z)) /\ k \in Nat
  BY Finite
<1>3. Appending(z) = {} <=> k = 0
  BY <1>2, FS_EmptySet
<1>4. Reserved(z) = wp[z] + b * k
  BY DEF Reserved
<1> HIDE DEF k, b
<1>5. b * k \in Nat /\ (k = 0 => b * k = 0)
  BY <1>1, <1>2, Product
<1>6. k # 0 => b * k >= b
  <2> SUFFICES ASSUME k # 0 PROVE b * k >= b
    OBVIOUS
  <2>1. k - 1 \in Nat /\ (k - 1) + 1 = k
    BY <1>2
  <2>2. b * ((k - 1) + 1) = b * (k - 1) + b /\ b * (k - 1) \in Nat
    BY <1>1, <2>1, Product
  <2> QED BY <1>1, <2>1, <2>2
<1> QED BY <1>1, <1>3, <1>4, <1>5, <1>6 DEF b
-----------------------------------------------------------------------------
(* What the steps do to the account.                                       *)

Commands == <<cmds, outstanding_commands, inflight, cq>>
Options == <<app, dev, g_access_rand, g_num_io_block>>

\* A command that is accepted is the newest one, and only an append is promised
\* blocks.
LEMMA SubmitFacts ==
    ASSUME Typed, Exact, FinishAlone, zone \in Zones, NEW op \in {"append", "read", "finish"},
           Submit(op), UNCHANGED <<Options, wp, rejected>>, NEW n, n = Len(cmds) + 1
    PROVE  /\ cmds' \in Seq(Command) /\ n \in DOMAIN cmds' /\ n \notin DOMAIN cmds
           /\ DOMAIN cmds' = DOMAIN cmds \cup {n}
           /\ \A c \in DOMAIN cmds : cmds'[c] = cmds[c] /\ c <= n
           /\ cmds'[n].op = op /\ cmds'[n].zone = zone
           /\ inflight' = inflight \cup {n} /\ QpairTypeOK(DOMAIN cmds)'
           /\ outstanding_commands' = outstanding_commands + 1 /\ Exact'
           /\ \A z \in Zones :
                 IF op = "append" /\ z = zone
                 THEN Appending(z)' = Appending(z) \cup {n} /\ Reserved(z)' = Reserved(z) + g_num_io_block
                 ELSE Appending(z)' = Appending(z) /\ Reserved(z)' = Reserved(z)
           /\ \A z \in Zones, name \in {"append", "read", "finish"} :
                 SentTo(name, z)' = IF op = name /\ z = zone THEN SentTo(name, z) \cup {n}
                                    ELSE SentTo(name, z)
<1>1. /\ cmds' = Append(cmds, [op |-> op, zone |-> zone]) /\ inflight' = inflight \cup {n}
      /\ outstanding_commands' = outstanding_commands + 1 /\ UNCHANGED <<qpair, cq>>
  BY DEF Submit, Accept
<1>2. cmds \in Seq(Command) /\ DOMAIN cmds = 1 .. Len(cmds) /\ Len(cmds) \in Nat
      /\ [op |-> op, zone |-> zone] \in Command
  BY Finite DEF Typed, Command
<1>3. /\ cmds' \in Seq(Command) /\ n \in DOMAIN cmds' /\ n \notin DOMAIN cmds
      /\ DOMAIN cmds' = DOMAIN cmds \cup {n}
  BY <1>1, <1>2
<1>4. \A c \in DOMAIN cmds : cmds'[c] = cmds[c] /\ c <= n
  BY <1>1, <1>2
<1>5. cmds'[n].op = op /\ cmds'[n].zone = zone
  BY <1>1, <1>2
<1>6. inflight \subseteq DOMAIN cmds /\ cq \subseteq DOMAIN cmds /\ n \notin Flying
  BY <1>3 DEF Typed, QpairTypeOK, Flying
<1>7. QpairTypeOK(DOMAIN cmds)'
  BY <1>1, <1>3, <1>6 DEF Typed, QpairTypeOK
<1>8. Exact'
  <2>1. Flying' = Flying \cup {n}
    BY <1>1 DEF Flying
  <2>2. Cardinality(Flying') = Cardinality(Flying) + 1
    BY <1>6, <2>1, Finite, FS_AddElement
  <2>3. inflight' \cap cq' = {}
    BY <1>1, <1>6 DEF Exact, Flying
  <2> QED BY <1>1, <2>2, <2>3 DEF Exact
<1>9. ASSUME NEW z \in Zones
      PROVE  IF op = "append" /\ z = zone
             THEN Appending(z)' = Appending(z) \cup {n} /\ Reserved(z)' = Reserved(z) + g_num_io_block
             ELSE Appending(z)' = Appending(z) /\ Reserved(z)' = Reserved(z)
  <2>1. Appending(z)' = IF op = "append" /\ z = zone THEN Appending(z) \cup {n} ELSE Appending(z)
    BY <1>1, <1>3, <1>4, <1>5, <1>6 DEF Appending
  <2>2. CASE op = "append" /\ z = zone
    <3>1. n \notin Appending(z)
      BY <1>6 DEF Appending, Flying
    <3>2. Cardinality(Appending(z)') = Cardinality(Appending(z)) + 1
      BY <2>1, <2>2, <3>1, Finite, FS_AddElement
    <3>3. /\ wp[z] \in Nat /\ g_num_io_block \in Nat /\ Cardinality(Appending(z)) \in Nat
          /\ wp' = wp /\ g_num_io_block' = g_num_io_block
      BY Sizes, Finite DEF Typed, Options
    <3>4. g_num_io_block * (Cardinality(Appending(z)) + 1)
              = g_num_io_block * Cardinality(Appending(z)) + g_num_io_block
          /\ g_num_io_block * Cardinality(Appending(z)) \in Nat
      BY <3>3, Product
    <3>5. Reserved(z)' = wp[z] + g_num_io_block * (Cardinality(Appending(z)) + 1)
      BY <3>2, <3>3 DEF Reserved
    <3> QED BY <2>1, <2>2, <3>3, <3>4, <3>5 DEF Reserved
  <2>3. CASE ~(op = "append" /\ z = zone)
    BY <2>1, <2>3 DEF Reserved, Options
  <2> QED BY <2>2, <2>3
<1>10. ASSUME NEW z \in Zones, NEW name \in {"append", "read", "finish"}
       PROVE  SentTo(name, z)' = IF op = name /\ z = zone THEN SentTo(name, z) \cup {n}
                                 ELSE SentTo(name, z)
  BY <1>3, <1>4, <1>5 DEF SentTo, Sent
<1> QED BY <1>1, <1>3, <1>4, <1>5, <1>7, <1>8, <1>9, <1>10

\* A step that sends nothing and executes nothing leaves the account as it is.
LEMMA QuietFacts ==
    ASSUME UNCHANGED <<Options, Commands, wp, rejected>>
    PROVE  /\ Zones' = Zones /\ Flying' = Flying
           /\ \A z : Appending(z)' = Appending(z) /\ Reserved(z)' = Reserved(z)
           /\ \A z, name : SentTo(name, z)' = SentTo(name, z)
           /\ \A f, z : FinishedBy(f, z)' <=> FinishedBy(f, z)
           /\ Fitting => Fitting'
           /\ FinishAlone => FinishAlone'
           /\ Exact => Exact'
<1> USE DEF Options, Commands
<1>1. \A z : Appending(z)' = Appending(z)
  BY DEF Appending
<1>2. \A z : Reserved(z)' = Reserved(z)
  BY <1>1 DEF Reserved
<1>3. \A z, name : SentTo(name, z)' = SentTo(name, z)
  BY DEF SentTo, Sent
<1>4. Zones' = Zones /\ Flying' = Flying
  BY DEF Zones, Flying
<1> QED BY <1>1, <1>2, <1>3, <1>4 DEF FinishedBy, Fitting, FinishAlone, Exact
-----------------------------------------------------------------------------
(* The invariant holds initially and every step preserves it.              *)

\* The inductive invariant holds before main runs.
LEMMA InitInv == Init => IInv
<1> SUFFICES ASSUME Init PROVE IInv
  OBVIOUS
<1>1. dev \in Devices /\ g_num_io_block \in BlockArgs
  BY DEF Init
<1>2. dev.zcap \in Nat \ {0} /\ dev.num_zone \in Nat
  BY <1>1, WorkloadAssumption
<1>3. PICK k \in 0 .. dev.zcap : wp = [z \in Zones |-> k]
  BY DEF Init
<1>4. Typed
  BY <1>1, <1>2, <1>3, WorkloadAssumption DEF Init, Typed, QpairInit, QpairTypeOK
<1>5. inflight = {} /\ cq = {} /\ Flying = {} /\ outstanding_commands = 0
  BY DEF Init, QpairInit, Flying
<1>6. \A z : Appending(z) = {}
  BY <1>5 DEF Appending
<1>7. Fitting /\ FinishAlone
  BY <1>2, <1>4, <1>5, <1>6, Account DEF Fitting, FinishAlone
<1>8. Exact
  BY <1>5, FS_EmptySet DEF Exact
<1>9. Before /\ Position /\ Quotas /\ Finishes
  BY DEF Init, Before, Position, Quotas, Finishes, Loading
<1> QED BY <1>4, <1>7, <1>8, <1>9 DEF IInv

\* A program that has given up leaves its commands to the device.
LEMMA EndInv ==
    ASSUME IInv, UNCHANGED <<Options, Commands, wp, rejected, loop, zone, lba, qpair>>,
           g_queue_depth' \in Nat, pc' \in Final
    PROVE  IInv'
<1>1. Typed'
  BY DEF IInv, Typed, Options, Commands, Command, Zones, QpairTypeOK
<1>2. Fitting' /\ FinishAlone' /\ Exact'
  BY QuietFacts DEF IInv
<1>3. Before' /\ Position' /\ Quotas' /\ Finishes'
  BY DEF Before, Position, Quotas, Finishes, Loading, Final
<1> QED BY <1>1, <1>2, <1>3 DEF IInv

\* The set-up of the device touches no zone.
LEMMA StartInv ==
    ASSUME IInv, Probe \/ AllocQpair \/ ZnsInfo
    PROVE  IInv'
<1> USE DEF optionVars, loopVars, ioVars, deviceVars, qpairVars, Options, Commands
<1>1. /\ Typed /\ UNCHANGED <<Options, Commands, rejected, loop, zone, lba>>
      /\ g_queue_depth' \in Nat
  BY Sizes DEF IInv, Typed, Probe, AllocQpair, ZnsInfo, AllocIoQpair
<1>2. CASE pc' \in Final
  <2>1. UNCHANGED <<wp, qpair>>
    BY <1>2 DEF Probe, AllocQpair, ZnsInfo, Final
  <2> QED BY <1>1, <1>2, <2>1, EndInv
<1>3. CASE pc' \notin Final
  <2>0. qpair \in {"none", "live", "freed", "corrupt"}
    BY <1>1 DEF Typed, QpairTypeOK
  <2>1. /\ pc \in {"start", "alloc", "info"} /\ pc' \in {"alloc", "info", "check"}
        /\ qpair' \in {"none", "live", "freed", "corrupt"}
        /\ wp' = wp \/ (dev.zoned /\ wp' = [z \in Zones |-> 0])
    <3>1. CASE Probe
      BY <1>3, <2>0, <3>1 DEF Probe, Final
    <3>2. CASE AllocQpair
      BY <1>3, <2>0, <3>2 DEF AllocQpair, AllocIoQpair, Final
    <3>3. CASE ZnsInfo
      BY <1>3, <2>0, <3>3 DEF ZnsInfo, Final
    <3> QED BY <3>1, <3>2, <3>3
  <2>2. wp' \in [Zones -> 0 .. dev.zcap]
    BY <1>1, <2>1, Sizes DEF Typed
  <2>3. Typed'
    BY <1>1, <2>1, <2>2 DEF IInv, Typed, Command, Zones, QpairTypeOK
  <2>4. cmds = <<>> /\ outstanding_commands = 0 /\ inflight = {} /\ cq = {}
    BY <1>1, <2>1 DEF IInv, Before, Typed, QpairTypeOK
  <2>5. inflight' = {} /\ cq' = {} /\ outstanding_commands' = 0 /\ Flying' = {}
    BY <1>1, <2>4 DEF Flying
  <2>6. Exact'
    BY <2>5, FS_EmptySet DEF Exact
  <2>7. \A z : Appending(z)' = {}
    BY <2>5 DEF Appending
  <2>8. \A z \in Zones : Reserved(z)' = wp'[z]
    <3>1. \A z : Cardinality(Appending(z)') = 0
      BY <2>7, FS_EmptySet
    <3>2. \A z \in Zones : wp'[z] \in Nat /\ g_num_io_block \in Nat
      BY <1>1, <2>2, Sizes
    <3> QED BY <1>1, <3>1, <3>2 DEF Reserved
  <2>9. \A z \in Zones : wp'[z] <= dev.zcap
    BY <1>1, <2>2, Sizes
  <2>10. Fitting' /\ FinishAlone'
    BY <1>1, <2>5, <2>8, <2>9 DEF Fitting, FinishAlone, Zones
  <2>11. Before'
    BY <1>1, <1>3, <2>1, Sizes DEF IInv, Before, Probe, AllocQpair, ZnsInfo, Zones, Final
  <2>12. Position' /\ Quotas' /\ Finishes'
    BY <2>1 DEF Position, Quotas, Finishes, Loading
  <2> QED BY <2>3, <2>6, <2>10, <2>11, <2>12 DEF IInv
<1> QED BY <1>2, <1>3

\* The checks of main on the load.
LEMMA CheckInv == IInv /\ CheckLoad => IInv'
<1> SUFFICES ASSUME IInv, CheckLoad PROVE IInv'
  OBVIOUS
<1> USE DEF optionVars, ioVars, deviceVars, qpairVars, Options, Commands
<1>1. /\ Typed /\ pc = "check"
      /\ UNCHANGED <<Options, Commands, wp, rejected, loop, zone, lba, qpair, g_queue_depth>>
  BY DEF IInv, CheckLoad
<1>2. CASE pc' \in Final
  BY <1>1, <1>2, EndInv DEF Typed
<1>3. CASE pc' \notin Final
  <2>1. /\ dev.zoned /\ (app = "zns" => dev.max_open # 0)
        /\ pc' = IF groups = 0 \/ dev.max_open = 0 THEN "report" ELSE "request"
    BY <1>3 DEF CheckLoad, Final
  <2>2. /\ loop = 0 /\ zone = 0 /\ lba = 0 /\ cmds = <<>> /\ outstanding_commands = 0
        /\ g_queue_depth > 0 /\ (\A z \in Zones : wp[z] = 0) /\ inflight = {}
    BY <1>1, <2>1 DEF IInv, Before, Typed, QpairTypeOK
  <2>3. /\ dev.max_open \in Nat /\ dev.num_zone \in Nat /\ dev.max_open <= dev.num_zone
        /\ groups = 0 => dev.max_open = 0
    <3>1. dev.max_open \in Nat /\ dev.num_zone \in Nat /\ dev.max_open <= dev.num_zone
      BY <1>1, Sizes
    <3>2. ASSUME groups = 0, dev.max_open # 0 PROVE FALSE
      <4>1. app = "zns"
        BY <1>1, <3>2 DEF Typed, groups
      <4>2. dev.num_zone \div dev.max_open = 0
        BY <3>2, <4>1 DEF groups
      <4> QED BY <3>1, <3>2, <4>2
    <3> QED BY <3>1, <3>2
  <2>4. Typed'
    BY <1>1, <2>1 DEF Typed, Command, Zones, QpairTypeOK
  <2>5. Fitting' /\ FinishAlone' /\ Exact'
    BY <1>1, QuietFacts DEF IInv
  <2>6. Before'
    BY <2>1 DEF Before
  <2>7. First = 0
    BY <2>2, <2>3 DEF First
  <2>8. /\ groups' = groups /\ First' = First /\ Group' = Group /\ Fits' = Fits /\ Zones' = Zones
    BY <1>1 DEF groups, First, Group, Fits, Zones
  <2>9. groups \in Nat
    <3>1. CASE app = "opz"
      BY <3>1 DEF groups
    <3>2. CASE app = "zns"
      BY <2>1, <2>3, <3>2 DEF groups
    <3> QED BY <1>1, <3>1, <3>2 DEF Typed
  <2>10. dev.max_open # 0 => 0 < groups /\ 0 \in Group
    BY <2>2, <2>3, <2>9 DEF Group
  <2>11. Position'
    BY <1>1, <2>1, <2>2, <2>3, <2>7, <2>8, <2>10 DEF Position, Typed
  <2>12. \A z \in Zones : Appending(z)' = {} /\ Reserved(z)' = 0 /\ z \in Nat
    <3> TAKE z \in Zones
    <3>1. Appending(z) = {}
      BY <2>2 DEF Appending
    <3>2. Reserved(z) = 0
      BY <1>1, <2>2, <3>1, Account
    <3> QED BY <1>1, <3>1, <3>2, QuietFacts DEF Zones
  <2>13. Quotas'
    <3>1. \A z \in Zones : Quota(z)' = 0 \/ Quota(z)' = dev.zcap
      BY <1>1, <2>1, <2>2, <2>3, <2>7, <2>8 DEF Quota
    <3> QED BY <1>1, <2>8, <2>12, <3>1, Sizes DEF Quotas
  <2>14. Finishes'
    <3>1. ASSUME NEW z \in Zones PROVE ~Past(z)' /\ ~(z < First')
      <4>1. z \in Nat /\ First' = 0 /\ zone' = 0
        BY <1>1, <2>2, <2>7, <2>8, <2>12
      <4>2. ~(z < First') /\ ~(z < zone')
        BY <4>1
      <4>3. app' = "zns" => pc' = "request"
        BY <1>1, <2>1, <2>3
      <4> QED BY <4>2, <4>3 DEF Past
    <3>2. \A z : SentTo("finish", z)' = {}
      BY <1>1, <2>2 DEF SentTo, Sent
    <3> QED BY <2>1, <2>7, <2>8, <2>12, <3>1, <3>2 DEF Finishes
  <2> QED BY <2>4, <2>5, <2>6, <2>11, <2>13, <2>14 DEF IInv
<1> QED BY <1>2, <1>3

\* Polling only makes room.
LEMMA PollInv == IInv /\ Poll => IInv'
<1> SUFFICES ASSUME IInv, Poll PROVE IInv'
  OBVIOUS
<1>1. /\ Typed /\ Exact /\ UNCHANGED <<Options, wp, rejected, cmds, inflight, qpair>>
      /\ UNCHANGED <<g_queue_depth, pc, loop, zone, lba>>
  BY DEF IInv, Poll, Reap, optionVars, loopVars, deviceVars, Options
<1>2. PICK S \in SUBSET cq : /\ cq' = cq \ S
                            /\ outstanding_commands' = outstanding_commands - Cardinality(S)
  BY DEF Poll, Reap
<1>3. /\ IsFiniteSet(S) /\ Cardinality(S) \in Nat /\ S \in SUBSET Flying
      /\ Flying' = Flying \ S
  <2>1. S \in SUBSET Flying
    BY DEF Flying
  <2>2. Flying' = Flying \ S
    BY <1>1, <1>2 DEF Flying, Exact
  <2> QED BY <1>1, <2>1, <2>2, Finite, FS_Subset, FS_CardinalityType
<1>4. /\ Exact' /\ outstanding_commands' \in Nat /\ outstanding_commands' <= outstanding_commands
  <2>1. Flying \cap S = S
    BY <1>3
  <2>2. Cardinality(Flying') = Cardinality(Flying) - Cardinality(S) /\ IsFiniteSet(Flying')
    <3>1. IsFiniteSet(Flying)
      BY <1>1, Finite
    <3>2. /\ IsFiniteSet(Flying \ S)
          /\ Cardinality(Flying \ S) = Cardinality(Flying) - Cardinality(Flying \cap S)
      BY <1>3, <3>1, FS_Difference
    <3> QED BY <1>3, <2>1, <3>2
  <2>3. Cardinality(Flying') \in Nat
    BY <2>2, FS_CardinalityType
  <2>4. inflight' \cap cq' = {}
    BY <1>1, <1>2 DEF Exact
  <2> QED BY <1>1, <1>2, <1>3, <2>2, <2>3, <2>4 DEF Exact, Typed
<1>5. Typed'
  BY <1>1, <1>2, <1>4 DEF Typed, Options, Command, Zones, QpairTypeOK
<1>6. \A z : Appending(z)' = Appending(z) /\ Reserved(z)' = Reserved(z)
  BY <1>1 DEF Appending, Reserved, Options
<1>7. /\ Zones' = Zones /\ First' = First /\ Group' = Group /\ groups' = groups /\ Fits' = Fits
      /\ dev' = dev /\ Loading' = Loading /\ app' = app /\ wp' = wp
  BY <1>1 DEF Options, Zones, First, Group, groups, Fits, Loading
<1>8. Fitting' /\ FinishAlone'
  BY <1>1, <1>6, <1>7 DEF IInv, Fitting, FinishAlone
<1>9. Before'
  BY <1>1 DEF Poll, Polling, Before, IInv
<1>10. Position'
  BY <1>1, <1>4, <1>7 DEF IInv, Position, Options, Typed
<1>11. Quotas'
  BY <1>1, <1>6, <1>7 DEF IInv, Quotas, Quota, Options
<1>12. Finishes'
  BY <1>1, <1>6, <1>7 DEF IInv, Finishes, Past, FinishedBy, SentTo, Sent, Options
<1> QED BY <1>4, <1>5, <1>8, <1>9, <1>10, <1>11, <1>12 DEF IInv

\* What a command does to its zone when the device executes it.
LEMMA ExecuteFacts ==
    ASSUME IInv, NEW c \in inflight, DeviceComplete(c), Execute(c),
           UNCHANGED <<Options, cmds, outstanding_commands>>,
           NEW z \in Zones
    PROVE  /\ cmds[c] \in Command
           /\ rejected' = {} /\ wp' \in [Zones -> 0 .. dev.zcap]
           /\ Appending(z)' = Appending(z) \ {c}
           /\ IF cmds[c].op = "finish" /\ cmds[c].zone = z
              THEN Appending(z) = {} /\ wp'[z] = dev.zcap /\ Reserved(z)' = dev.zcap
              ELSE Reserved(z)' = Reserved(z)
           /\ Appending(z) = {} /\ wp[z] = dev.zcap => wp'[z] = dev.zcap
<1>1. Typed /\ Fitting /\ FinishAlone
  BY DEF IInv
<1>2. cmds[c] \in Command /\ cmds[c].zone \in Zones /\ cmds[c].op \in {"append", "read", "finish"}
  BY <1>1, CommandSent
<1>3. inflight' = inflight \ {c}
  BY DEF DeviceComplete
<1>4. Appending(z)' = Appending(z) \ {c}
  BY <1>3 DEF Appending
<1>5. \A x \in Zones : wp[x] \in 0 .. dev.zcap
  BY <1>1 DEF Typed
<1>6. /\ dev.zcap \in Nat /\ g_num_io_block \in Nat \ {0} /\ wp \in [Zones -> 0 .. dev.zcap]
      /\ g_num_io_block' = g_num_io_block /\ rejected = {}
  BY <1>1, Sizes DEF Options, Typed
<1>7. IsFiniteSet(Appending(z)) /\ Cardinality(Appending(z)) \in Nat
  BY <1>1, Finite
<1>8. CASE cmds[c].op = "append"
  <2>1. wp[cmds[c].zone] + g_num_io_block <= dev.zcap
    <3>1. c \in Appending(cmds[c].zone)
      BY <1>8 DEF Appending
    <3>2. wp[cmds[c].zone] + g_num_io_block <= Reserved(cmds[c].zone)
          /\ Reserved(cmds[c].zone) \in Nat /\ wp[cmds[c].zone] \in Nat
      BY <1>1, <1>2, <1>6, <3>1, Account
    <3>3. Reserved(cmds[c].zone) <= dev.zcap
      BY <1>1, <1>2 DEF Fitting
    <3> QED BY <1>6, <3>2, <3>3
  <2>2. /\ wp' = [wp EXCEPT ![cmds[c].zone] = @ + g_num_io_block] /\ rejected' = {}
    <3>1. wp[cmds[c].zone] \in Nat
      BY <1>2, <1>5, <1>6
    <3> QED BY <1>6, <1>8, <2>1, <3>1 DEF Execute
  <2>3. wp' \in [Zones -> 0 .. dev.zcap]
    <3>1. wp[cmds[c].zone] + g_num_io_block \in 0 .. dev.zcap
      BY <1>2, <1>5, <1>6, <2>1
    <3> QED BY <1>2, <1>6, <2>2, <3>1
  <2>4. CASE z = cmds[c].zone
    <3>1. c \in Appending(z) /\ wp'[z] = wp[z] + g_num_io_block
      BY <1>2, <1>6, <1>8, <2>2, <2>4 DEF Appending
    <3>2. Cardinality(Appending(z)') = Cardinality(Appending(z)) - 1
          /\ Cardinality(Appending(z)') \in Nat
      BY <1>4, <1>7, <3>1, FS_RemoveElement, FS_CardinalityType
    <3> DEFINE k == Cardinality(Appending(z)')
    <3>3. Cardinality(Appending(z)) = k + 1
      BY <1>7, <3>2
    <3>4. /\ Reserved(z)' = wp[z] + g_num_io_block + g_num_io_block * k
          /\ Reserved(z) = wp[z] + g_num_io_block * (k + 1)
      BY <1>6, <3>1, <3>3 DEF Reserved
    <3>5. k \in Nat /\ wp[z] \in Nat
      BY <1>5, <1>6, <3>2
    <3> HIDE DEF k
    <3>6. g_num_io_block * (k + 1) = g_num_io_block * k + g_num_io_block
          /\ g_num_io_block * k \in Nat
      BY <1>6, <3>5, Product
    <3>7. Reserved(z)' = Reserved(z)
      BY <1>6, <3>4, <3>5, <3>6
    <3> QED BY <1>2, <1>4, <1>8, <2>2, <2>3, <3>1, <3>7
  <2>5. CASE z # cmds[c].zone
    <3>1. wp'[z] = wp[z] /\ Appending(z)' = Appending(z)
      BY <1>4, <1>6, <2>2, <2>5 DEF Appending
    <3>2. Reserved(z)' = Reserved(z)
      BY <1>6, <3>1 DEF Reserved
    <3> QED BY <1>2, <1>4, <1>8, <2>2, <2>3, <3>1, <3>2
  <2> QED BY <2>4, <2>5
<1>9. CASE cmds[c].op = "finish"
  <2>1. wp' = [wp EXCEPT ![cmds[c].zone] = dev.zcap] /\ rejected' = {}
    BY <1>6, <1>9 DEF Execute
  <2>2. wp' \in [Zones -> 0 .. dev.zcap] /\ Appending(z)' = Appending(z)
    <3>1. dev.zcap \in 0 .. dev.zcap
      BY <1>6
    <3>2. wp' \in [Zones -> 0 .. dev.zcap]
      BY <1>2, <1>6, <2>1, <3>1
    <3> QED BY <1>4, <1>9, <3>2 DEF Appending
  <2>3. CASE z = cmds[c].zone
    <3>1. Appending(z) = {} /\ wp'[z] = dev.zcap
      BY <1>1, <1>6, <1>9, <2>1, <2>3 DEF FinishAlone
    <3>2. Cardinality(Appending(z)') = 0 /\ g_num_io_block * 0 = 0
      BY <1>6, <2>2, <3>1, FS_EmptySet
    <3>3. Reserved(z)' = dev.zcap
      BY <1>6, <3>1, <3>2 DEF Reserved
    <3> QED BY <1>2, <1>4, <1>9, <2>1, <2>2, <2>3, <3>1, <3>3
  <2>4. CASE z # cmds[c].zone
    <3>1. wp'[z] = wp[z]
      BY <1>6, <2>1, <2>4
    <3>2. Reserved(z)' = Reserved(z)
      BY <1>6, <2>2, <3>1 DEF Reserved
    <3> QED BY <1>2, <1>4, <2>1, <2>2, <2>4, <3>1, <3>2
  <2> QED BY <2>3, <2>4
<1>10. CASE cmds[c].op = "read"
  <2>1. wp' = wp /\ rejected' = {} /\ Appending(z)' = Appending(z)
    BY <1>4, <1>6, <1>10 DEF Execute, deviceVars, Appending
  <2>2. Reserved(z)' = Reserved(z)
    BY <1>6, <2>1 DEF Reserved
  <2> QED BY <1>2, <1>4, <1>6, <1>10, <2>1, <2>2
<1> QED BY <1>2, <1>8, <1>9, <1>10

\* The device may execute what is outstanding in any order.
LEMMA DeviceInv == IInv /\ Device => IInv'
<1> SUFFICES ASSUME IInv, Device PROVE IInv'
  OBVIOUS
<1>1. PICK c \in inflight : DeviceComplete(c) /\ Execute(c)
  BY DEF Device
<1>2. /\ Typed /\ Fitting /\ FinishAlone /\ Exact /\ Before /\ Position /\ Quotas /\ Finishes
      /\ UNCHANGED <<Options, cmds, outstanding_commands>>
      /\ UNCHANGED <<g_queue_depth, pc, loop, zone, lba>>
  BY DEF IInv, Device, optionVars, loopVars, ioVars, Options
<1>3. /\ inflight' = inflight \ {c} /\ cq' = cq \cup {c} /\ qpair' = qpair
  BY <1>1 DEF DeviceComplete
<1>4. \A z \in Zones :
          /\ cmds[c] \in Command
          /\ rejected' = {} /\ wp' \in [Zones -> 0 .. dev.zcap]
          /\ Appending(z)' = Appending(z) \ {c}
          /\ IF cmds[c].op = "finish" /\ cmds[c].zone = z
             THEN Appending(z) = {} /\ wp'[z] = dev.zcap /\ Reserved(z)' = dev.zcap
             ELSE Reserved(z)' = Reserved(z)
          /\ Appending(z) = {} /\ wp[z] = dev.zcap => wp'[z] = dev.zcap
  BY <1>1, <1>2, ExecuteFacts
<1>5. c \in DOMAIN cmds /\ cmds[c].zone \in Zones /\ inflight \subseteq DOMAIN cmds
  BY <1>2, CommandSent DEF Typed, QpairTypeOK
<1>6. /\ Zones' = Zones /\ First' = First /\ Group' = Group /\ groups' = groups /\ Fits' = Fits
      /\ dev' = dev /\ Loading' = Loading /\ app' = app /\ cmds' = cmds /\ pc' = pc
  BY <1>2 DEF Options, Zones, First, Group, groups, Fits, Loading
<1>7. Typed'
  <2>1. rejected' = {} /\ wp' \in [Zones -> 0 .. dev.zcap]
    BY <1>4, <1>5
  <2>2. QpairTypeOK(DOMAIN cmds)'
    BY <1>2, <1>3, <1>5, <1>6 DEF Typed, QpairTypeOK
  <2> QED BY <1>2, <1>6, <2>1, <2>2 DEF Typed, Options, Command
<1>8. Exact'
  <2>1. Flying' = Flying /\ inflight' \cap cq' = {}
    BY <1>2, <1>3 DEF Flying, Exact
  <2> QED BY <1>2, <2>1 DEF Exact
<1>9. Fitting'
  <2>1. dev.zcap <= dev.zcap
    BY <1>2, Sizes
  <2> QED BY <1>2, <1>4, <1>6, <2>1 DEF Fitting
<1>10. FinishAlone'
  <2> SUFFICES ASSUME NEW d \in inflight', NEW z \in Zones,
                      cmds[d].op = "finish", cmds[d].zone = z
               PROVE  Appending(z)' = {}
    BY <1>6 DEF FinishAlone
  <2>1. d \in inflight
    BY <1>3
  <2> QED BY <1>2, <1>4, <2>1 DEF FinishAlone
<1>11. Before'
  <2>1. pc \notin {"start", "alloc", "info", "check"}
    BY <1>2, <1>5 DEF Before
  <2> QED BY <1>6, <2>1 DEF Before
<1>12. Position'
  BY <1>2, <1>6 DEF Position, Options
<1>13. SentTo("finish", cmds[c].zone) # {} \/ cmds[c].op # "finish"
  BY <1>5 DEF SentTo, Sent
<1>14. \A z \in Zones : Quota(z)' = Quota(z)
  BY <1>2, <1>6 DEF Quota, Options
<1>15. Quotas'
  <2> SUFFICES ASSUME Loading, NEW z \in Zones PROVE Reserved(z)' <= Quota(z)
    BY <1>6, <1>14 DEF Quotas
  <2>1. CASE cmds[c].op = "finish" /\ cmds[c].zone = z
    <3>1. Past(z)
      BY <1>2, <1>13, <2>1 DEF Finishes
    <3>2. dev.max_open > 0 /\ loop < groups /\ zone \in Group
      BY <1>2, <3>1, Sizes DEF Position, Past
    <3>3. First \in Nat /\ z \in Nat /\ zone \in First .. First + dev.max_open - 1
      BY <1>2, <3>2, GroupFits, Sizes DEF Group, First, Zones
    <3>4. Quota(z) = dev.zcap
      <4>1. z < First + dev.max_open
        BY <1>2, <3>1, <3>3, Sizes DEF Past
      <4>2. z < First \/ pc \notin {"request", "drain"} \/ (z < zone /\ ~g_access_rand)
        BY <3>1 DEF Past
      <4> QED BY <1>2, <3>3, <4>1, <4>2, Sizes DEF Quota
    <3>5. dev.zcap <= dev.zcap
      BY <1>2, Sizes
    <3> QED BY <1>4, <2>1, <3>4, <3>5
  <2>2. CASE ~(cmds[c].op = "finish" /\ cmds[c].zone = z)
    BY <1>2, <1>4, <2>2 DEF Quotas
  <2> QED BY <2>1, <2>2
<1>16. Finishes'
  <2> SUFFICES ASSUME Loading PROVE Finishes'
    BY <1>6 DEF Finishes
  <2>1. \A z : Past(z)' <=> Past(z)
    BY <1>2, <1>6 DEF Past, Options
  <2>2. \A z : SentTo("finish", z)' = SentTo("finish", z)
    BY <1>6 DEF SentTo, Sent
  <2>3. ASSUME NEW z \in Zones, Past(z)
        PROVE  Appending(z)' = {} /\ \E f \in DOMAIN cmds : FinishedBy(f, z)'
    <3>1. PICK f \in DOMAIN cmds : FinishedBy(f, z)
      BY <1>2, <2>3 DEF Finishes
    <3>2. Appending(z) = {} /\ Appending(z)' = {}
      BY <1>2, <1>4, <2>3 DEF Finishes
    <3>3. cmds[f].op = "finish" /\ cmds[f].zone = z
      BY <3>1 DEF FinishedBy, SentTo, Sent
    <3>4. f \in inflight' \/ wp'[z] = dev.zcap
      BY <1>3, <1>4, <3>1, <3>2, <3>3 DEF FinishedBy
    <3> QED BY <1>6, <2>2, <3>1, <3>2, <3>4 DEF FinishedBy
  <2>4. app = "zns" => \A z \in Zones : z < First => wp'[z] = dev.zcap
    <3> SUFFICES ASSUME app = "zns", NEW z \in Zones, z < First PROVE wp'[z] = dev.zcap
      OBVIOUS
    <3>1. Past(z)
      BY DEF Past
    <3> QED BY <1>2, <1>4, <3>1 DEF Finishes
  <2>5. pc = "finish" => \A z \in Zones : Appending(z)' = {}
    BY <1>2, <1>4 DEF Finishes
  <2> QED BY <1>2, <1>6, <2>1, <2>2, <2>3, <2>4, <2>5 DEF Finishes
<1> QED BY <1>7, <1>8, <1>9, <1>10, <1>11, <1>12, <1>15, <1>16 DEF IInv

\* What is accounted for in a zone is never more than it holds.
LEMMA QuotaFits ==
    Typed /\ Position /\ Loading => \A z \in Zones : Quota(z) \in 0 .. dev.zcap
<1> SUFFICES ASSUME Typed, Position, Loading, NEW z \in Zones
             PROVE  Quota(z) \in 0 .. dev.zcap
  OBVIOUS
<1>1. /\ dev.zcap \in Nat /\ dev.max_open \in Nat /\ g_num_io_block \in Nat /\ lba \in 0 .. dev.zcap
      /\ dev.num_zone \in Nat
  BY Sizes DEF Typed
<1>2. CASE dev.max_open = 0
  <2>1. pc = "report"
    BY <1>2 DEF Position
  <2> QED BY <1>1, <2>1 DEF Quota
<1>3. CASE dev.max_open > 0
  <2>1. /\ loop < groups /\ zone \in First .. First + dev.max_open - 1
        /\ g_access_rand /\ pc = "drain" => lba + g_num_io_block <= dev.zcap
        /\ g_access_rand /\ pc = "request" /\ zone # First => lba + g_num_io_block <= dev.zcap
    BY <1>3 DEF Position, Group, First, Fits
  <2>2. First \in Nat /\ z \in Nat
    BY <1>1, <1>3, <2>1, GroupFits DEF Zones
  <2> QED BY <1>1, <2>1, <2>2 DEF Quota
<1> QED BY <1>1, <1>2, <1>3

\* The share of a zone fits its capacity, in the next state too.
LEMMA QuotaFitsNext ==
    (Typed /\ Position /\ Loading => \A z \in Zones : Quota(z) \in 0 .. dev.zcap)'
BY QuotaFits, PTL

\* Where the loops are, they are in a zone of the device.
LEMMA InGroup ==
    ASSUME IInv, Loading, dev.max_open > 0
    PROVE  /\ First \in Nat /\ First + dev.max_open <= dev.num_zone
           /\ zone \in First .. First + dev.max_open - 1 /\ zone \in Nat /\ zone \in Zones
           /\ Group = First .. First + dev.max_open - 1
           /\ \A z \in Zones : z \in Nat
           /\ dev.max_open \in Nat /\ dev.num_zone \in Nat /\ dev.zcap \in Nat
           /\ g_num_io_block \in Nat \ {0} /\ lba \in 0 .. dev.zcap /\ lba \in Nat
<1>1. /\ Typed /\ loop < groups /\ zone \in Group /\ Group = First .. First + dev.max_open - 1
  BY DEF IInv, Position, Group, First
<1>2. /\ dev.max_open \in Nat /\ dev.num_zone \in Nat /\ dev.zcap \in Nat
      /\ g_num_io_block \in Nat \ {0} /\ lba \in 0 .. dev.zcap /\ lba \in Nat
  BY <1>1, Sizes DEF Typed
<1>3. First \in Nat /\ First + dev.max_open <= dev.num_zone
  BY <1>1, GroupFits
<1> QED BY <1>1, <1>2, <1>3 DEF Zones

\* A step of the loops that sends nothing.
LEMMA MoveInv ==
    ASSUME IInv, Loading, UNCHANGED <<Options, Commands, wp, rejected, qpair, g_queue_depth>>,
           loop' \in Nat, zone' \in Nat, lba' \in 0 .. dev.zcap,
           pc' \in {"request", "drain", "finish", "loop", "report"},
           Position',
           \A z \in Zones : Reserved(z) <= Quota(z)',
           \A z \in Zones : Past(z)' <=> Past(z),
           app = "zns" => \A z \in Zones : z < First' => wp[z] = dev.zcap,
           pc' = "finish" => \A z \in Zones : Appending(z) = {}
    PROVE  IInv'
<1>1. /\ Zones' = Zones /\ dev' = dev /\ app' = app /\ wp' = wp /\ cmds' = cmds
      /\ \A z : Appending(z)' = Appending(z) /\ Reserved(z)' = Reserved(z)
      /\ \A z, name : SentTo(name, z)' = SentTo(name, z)
      /\ \A f, z : FinishedBy(f, z)' <=> FinishedBy(f, z)
  BY QuietFacts DEF Options, Commands
<1>2. Typed'
  BY DEF IInv, Typed, Options, Commands, Command, Zones, QpairTypeOK
<1>3. Fitting' /\ FinishAlone' /\ Exact'
  BY QuietFacts DEF IInv
<1>4. Before'
  BY DEF Before
<1>5. Quotas'
  BY <1>1 DEF Quotas
<1>6. Finishes'
  BY <1>1 DEF IInv, Finishes
<1> QED BY <1>2, <1>3, <1>4, <1>5, <1>6 DEF IInv

\* A step of the loops that sends a read or an append, to a zone that has not had
\* its finish command.
LEMMA RequestInv ==
    ASSUME IInv, Loading, zone \in Zones, ~Past(zone), NEW op \in {"append", "read"}, Submit(op),
           UNCHANGED <<Options, wp, rejected, g_queue_depth, loop>>,
           zone' \in Nat, lba' \in 0 .. dev.zcap, pc # "finish", pc' \in {"request", "drain"},
           Position',
           \A z \in Zones :
               (IF z = zone THEN Reserved(z) + g_num_io_block ELSE Reserved(z)) <= Quota(z)',
           \A z \in Zones : Past(z)' <=> Past(z)
    PROVE  IInv'
<1> DEFINE n == Len(cmds) + 1
<1>1. /\ Typed /\ Exact /\ FinishAlone /\ Fitting /\ Finishes
      /\ Zones' = Zones /\ dev' = dev /\ app' = app /\ wp' = wp /\ First' = First
  BY DEF IInv, Options, Zones, First
<1>2. /\ cmds' \in Seq(Command) /\ n \in DOMAIN cmds' /\ n \notin DOMAIN cmds
      /\ DOMAIN cmds' = DOMAIN cmds \cup {n}
      /\ \A c \in DOMAIN cmds : cmds'[c] = cmds[c] /\ c <= n
      /\ cmds'[n].op = op /\ cmds'[n].zone = zone
      /\ inflight' = inflight \cup {n} /\ QpairTypeOK(DOMAIN cmds)'
      /\ outstanding_commands' = outstanding_commands + 1 /\ Exact'
      /\ \A z \in Zones :
            IF op = "append" /\ z = zone
            THEN Appending(z)' = Appending(z) \cup {n} /\ Reserved(z)' = Reserved(z) + g_num_io_block
            ELSE Appending(z)' = Appending(z) /\ Reserved(z)' = Reserved(z)
      /\ \A z \in Zones, name \in {"append", "read", "finish"} :
            SentTo(name, z)' = IF op = name /\ z = zone THEN SentTo(name, z) \cup {n}
                               ELSE SentTo(name, z)
  BY <1>1, SubmitFacts
<1> HIDE DEF n
<1>3. Typed'
  BY <1>1, <1>2 DEF Typed, Options, Command
<1>4. \A z \in Zones : Reserved(z)' <= Quota(z)'
  <2> TAKE z \in Zones
  <2>1. Reserved(z) \in Nat /\ g_num_io_block \in Nat
    BY <1>1, Account, Sizes
  <2>2. Reserved(z)' = Reserved(z) \/ (z = zone /\ Reserved(z)' = Reserved(z) + g_num_io_block)
    BY <1>2
  <2>3. Typed' /\ Position' /\ Loading' /\ z \in Zones'
    BY <1>1, <1>3 DEF Loading
  <2>4. Quota(z)' \in 0 .. dev.zcap /\ dev.zcap \in Nat
    BY <1>1, <2>3, QuotaFitsNext, Sizes
  <2> QED BY <2>1, <2>2, <2>4
<1>5. Quotas'
  BY <1>1, <1>4 DEF Quotas
<1>6. Fitting'
  <2> SUFFICES ASSUME NEW z \in Zones PROVE Reserved(z)' <= dev.zcap
    BY <1>1 DEF Fitting
  <2>1. Typed' /\ Position' /\ Loading' /\ z \in Zones'
    BY <1>1, <1>3 DEF Loading
  <2>2. Quota(z)' \in 0 .. dev.zcap /\ dev.zcap \in Nat
    BY <1>1, <2>1, QuotaFitsNext, Sizes
  <2>3. Reserved(z)' \in Nat
    <3>1. Reserved(z) \in Nat /\ g_num_io_block \in Nat
      BY <1>1, Account, Sizes
    <3> QED BY <1>2, <3>1
  <2>4. Reserved(z)' <= Quota(z)'
    BY <1>4
  <2> QED BY <2>2, <2>3, <2>4
<1>7. SentTo("finish", zone) = {}
  BY <1>1 DEF Finishes
<1>8. FinishAlone'
  <2> SUFFICES ASSUME NEW c \in inflight', NEW z \in Zones,
                      cmds'[c].op = "finish", cmds'[c].zone = z
               PROVE  Appending(z)' = {}
    BY <1>1 DEF FinishAlone
  <2>1. c \in inflight
    BY <1>2
  <2>2. c \in DOMAIN cmds /\ cmds[c].zone \in Zones /\ cmds'[c] = cmds[c]
    BY <1>1, <1>2, <2>1, CommandSent
  <2>3. z # zone
    BY <1>7, <2>2 DEF SentTo, Sent
  <2> QED BY <1>1, <1>2, <2>1, <2>2, <2>3 DEF FinishAlone
<1>9. Before'
  BY DEF Before
<1>10. Finishes'
  <2>1. ASSUME NEW z \in Zones, ~Past(z) PROVE SentTo("finish", z)' = {}
    BY <1>1, <1>2, <2>1 DEF Finishes
  <2>2. ASSUME NEW z \in Zones, Past(z)
        PROVE  Appending(z)' = {} /\ \E f \in DOMAIN cmds' : FinishedBy(f, z)'
    <3>1. PICK f \in DOMAIN cmds : FinishedBy(f, z)
      BY <1>1, <2>2 DEF Finishes
    <3>2. z # zone /\ Appending(z)' = {} /\ SentTo("finish", z)' = SentTo("finish", z)
      BY <1>1, <1>2, <2>2 DEF Finishes
    <3>3. \A c \in DOMAIN cmds' : cmds'[c].zone = z => c <= f
      BY <1>2, <3>1, <3>2 DEF FinishedBy
    <3> QED BY <1>1, <1>2, <3>1, <3>2, <3>3 DEF FinishedBy
  <2>3. app = "zns" => \A z \in Zones : z < First => wp[z] = dev.zcap
    BY <1>1 DEF Finishes
  <2> QED BY <1>1, <2>1, <2>2, <2>3 DEF Finishes
<1> QED BY <1>2, <1>3, <1>5, <1>6, <1>8, <1>9, <1>10 DEF IInv

\* A step of the loops that sends the finish command of a zone.
LEMMA FinishInv ==
    ASSUME IInv, Loading, zone \in Zones, ~Past(zone), Appending(zone) = {}, Submit("finish"),
           UNCHANGED <<Options, wp, rejected, g_queue_depth, loop>>,
           zone' \in Nat, lba' \in 0 .. dev.zcap, pc' \in {"request", "finish", "loop"},
           Position',
           \A z \in Zones : Reserved(z) <= Quota(z)',
           \A z \in Zones : Past(z)' <=> Past(z) \/ z = zone,
           pc' = "finish" => \A z \in Zones : Appending(z) = {}
    PROVE  IInv'
<1>0. PICK n : n = Len(cmds) + 1
  OBVIOUS
<1>1. /\ Typed /\ Exact /\ FinishAlone /\ Fitting /\ Finishes
      /\ Zones' = Zones /\ dev' = dev /\ app' = app /\ wp' = wp /\ First' = First
  BY DEF IInv, Options, Zones, First
<1>2. /\ cmds' \in Seq(Command) /\ n \in DOMAIN cmds' /\ n \notin DOMAIN cmds
      /\ DOMAIN cmds' = DOMAIN cmds \cup {n}
      /\ \A c \in DOMAIN cmds : cmds'[c] = cmds[c] /\ c <= n
      /\ cmds'[n].op = "finish" /\ cmds'[n].zone = zone
      /\ inflight' = inflight \cup {n} /\ QpairTypeOK(DOMAIN cmds)'
      /\ outstanding_commands' = outstanding_commands + 1 /\ Exact'
      /\ \A z \in Zones : Appending(z)' = Appending(z) /\ Reserved(z)' = Reserved(z)
      /\ \A z \in Zones :
            SentTo("finish", z)' = IF z = zone THEN SentTo("finish", z) \cup {n}
                                   ELSE SentTo("finish", z)
  BY <1>0, <1>1, SubmitFacts
<1>n. n <= n
  BY <1>0, <1>1, Finite
<1>3. Typed'
  BY <1>1, <1>2 DEF Typed, Options, Command
<1>4. Quotas'
  BY <1>1, <1>2 DEF Quotas
<1>5. Fitting'
  BY <1>1, <1>2 DEF Fitting
<1>6. FinishAlone'
  <2> SUFFICES ASSUME NEW c \in inflight', NEW z \in Zones,
                      cmds'[c].op = "finish", cmds'[c].zone = z
               PROVE  Appending(z)' = {}
    BY <1>1 DEF FinishAlone
  <2>1. CASE c = n
    BY <1>2, <2>1
  <2>2. CASE c # n
    <3>1. c \in inflight /\ cmds'[c] = cmds[c]
      BY <1>1, <1>2, <2>2, CommandSent
    <3> QED BY <1>1, <1>2, <3>1 DEF FinishAlone
  <2> QED BY <2>1, <2>2
<1>7. Before'
  BY DEF Before
<1>8. ASSUME NEW z \in Zones, z = zone PROVE FinishedBy(n, z)'
  <2>1. SentTo("finish", z)' = {n}
    BY <1>1, <1>2, <1>8 DEF Finishes
  <2>2. \A c \in DOMAIN cmds' : c <= n
    BY <1>2, <1>n
  <2> QED BY <1>2, <2>1, <2>2 DEF FinishedBy
<1>9. ASSUME NEW z \in Zones, z # zone, Past(z)
      PROVE  Appending(z)' = {} /\ \E f \in DOMAIN cmds' : FinishedBy(f, z)'
  <2>1. PICK f \in DOMAIN cmds : FinishedBy(f, z)
    BY <1>1, <1>9 DEF Finishes
  <2>2. Appending(z)' = {} /\ SentTo("finish", z)' = SentTo("finish", z)
    BY <1>1, <1>2, <1>9 DEF Finishes
  <2>3. \A c \in DOMAIN cmds' : cmds'[c].zone = z => c <= f
    BY <1>2, <1>9, <2>1 DEF FinishedBy
  <2> QED BY <1>1, <1>2, <2>1, <2>2, <2>3 DEF FinishedBy
<1>10. Finishes'
  <2>1. ASSUME NEW z \in Zones, z # zone, ~Past(z) PROVE SentTo("finish", z)' = {}
    BY <1>1, <1>2, <2>1 DEF Finishes
  <2>2. app = "zns" => \A z \in Zones : z < First => wp[z] = dev.zcap
    BY <1>1 DEF Finishes
  <2>3. pc' = "finish" => \A z \in Zones : Appending(z)' = {}
    BY <1>2
  <2>4. \A z \in Zones : IF Past(z)' THEN Appending(z)' = {} /\ \E f \in DOMAIN cmds' : FinishedBy(f, z)'
                         ELSE SentTo("finish", z)' = {}
    BY <1>2, <1>8, <1>9, <2>1
  <2> QED BY <1>1, <2>2, <2>3, <2>4 DEF Finishes
<1> QED BY <1>2, <1>3, <1>4, <1>5, <1>6, <1>7, <1>10 DEF IInv

\* Nothing is in flight where nothing is outstanding.
LEMMA Drained ==
    ASSUME IInv, outstanding_commands = 0
    PROVE  inflight = {} /\ cq = {} /\ \A z : Appending(z) = {}
<1>1. Flying = {}
  BY Finite, FS_EmptySet DEF IInv, Exact
<1> QED BY <1>1 DEF Flying, Appending

\* Sequential load: a request, written first and read then.
LEMMA SeqRequestInv == IInv /\ SeqRequest => IInv'
<1> SUFFICES ASSUME IInv, SeqRequest PROVE IInv'
  OBVIOUS
<1>1. /\ pc = "request" /\ ~g_access_rand /\ Fits /\ Room /\ Loading
      /\ UNCHANGED <<Options, wp, rejected, g_queue_depth, loop, zone, pc>>
      /\ lba' = lba + g_num_io_block
  BY DEF SeqRequest, Loading, optionVars, deviceVars, Options
<1>2. /\ Typed /\ Position /\ Quotas /\ Finishes
      /\ dev.max_open > 0
  BY <1>1, Sizes DEF IInv, Position
<1>3. /\ First \in Nat /\ First + dev.max_open <= dev.num_zone
      /\ zone \in First .. First + dev.max_open - 1 /\ zone \in Nat /\ zone \in Zones
      /\ Group = First .. First + dev.max_open - 1
      /\ \A z \in Zones : z \in Nat
      /\ dev.max_open \in Nat /\ dev.num_zone \in Nat /\ dev.zcap \in Nat
      /\ g_num_io_block \in Nat \ {0} /\ lba \in 0 .. dev.zcap /\ lba \in Nat
  BY <1>1, <1>2, InGroup
<1>4. /\ Zones' = Zones /\ First' = First /\ Group' = Group /\ groups' = groups /\ dev' = dev
      /\ lba' \in 0 .. dev.zcap /\ zone' \in Nat
  BY <1>1, <1>3 DEF Options, Zones, First, Group, groups, Fits
<1>5. /\ ~Past(zone)
      /\ \A z \in Zones : Past(z)' <=> Past(z)
  BY <1>1, <1>3, <1>4 DEF Past, Options
<1>6. \A z \in Zones :
          IF z = zone THEN Reserved(z) <= lba /\ Quota(z)' = lba + g_num_io_block
          ELSE Reserved(z) <= Quota(z)'
  <2> TAKE z \in Zones
  <2>1. Reserved(z) <= Quota(z) /\ z \in Nat
    BY <1>1, <1>2, <1>3 DEF Quotas
  <2>2. IF z = zone THEN Quota(z) = lba /\ Quota(z)' = lba + g_num_io_block ELSE Quota(z)' = Quota(z)
    BY <1>1, <1>3, <1>4, <2>1 DEF Quota, Options
  <2> QED BY <2>1, <2>2
<1>7. \A z \in Zones :
          (IF z = zone THEN Reserved(z) + g_num_io_block ELSE Reserved(z)) <= Quota(z)'
  <2> TAKE z \in Zones
  <2>1. Reserved(z) \in Nat
    BY <1>2, Account
  <2> QED BY <1>3, <1>6, <2>1
<1>8. outstanding_commands \in Nat /\ g_queue_depth \in Nat
  BY <1>2 DEF Typed
<1>9. ASSUME NEW op \in {"append", "read"}, Submit(op) PROVE IInv'
  <2>1. outstanding_commands' = outstanding_commands + 1
    BY <1>9 DEF Submit
  <2>2. Position'
    BY <1>1, <1>2, <1>4, <1>8, <2>1 DEF Position, Room, Options
  <2> QED BY <1>1, <1>3, <1>4, <1>5, <1>7, <1>9, <2>2, RequestInv
<1>10. ASSUME Nothing PROVE IInv'
  <2>1. UNCHANGED <<Commands, qpair>>
    BY <1>10 DEF Nothing, ioVars, qpairVars, Commands
  <2>2. Position'
    BY <1>1, <1>2, <1>4, <2>1 DEF Position, Options, Commands
  <2>3. \A z \in Zones : Reserved(z) <= Quota(z)'
    <3> TAKE z \in Zones
    <3>1. Reserved(z) \in Nat
      BY <1>2, Account
    <3> QED BY <1>3, <1>6, <3>1
  <2>4. app = "zns" => \A z \in Zones : z < First' => wp[z] = dev.zcap
    BY <1>1, <1>2, <1>4 DEF Finishes
  <2>5. pc' # "finish" /\ pc' \in {"request", "drain", "finish", "loop", "report"}
        /\ loop' \in Nat
    BY <1>1, <1>2 DEF Typed
  <2> QED BY <1>1, <1>4, <1>5, <2>1, <2>2, <2>3, <2>4, <2>5, MoveInv
<1> QED BY <1>9, <1>10 DEF SeqRequest, append_zone, read_block

\* Sequential load: the end of a zone.
LEMMA SeqZoneEndInv == IInv /\ SeqZoneEnd => IInv'
<1> SUFFICES ASSUME IInv, SeqZoneEnd PROVE IInv'
  OBVIOUS
<1>1. /\ pc = "request" /\ ~g_access_rand /\ pc' = "drain" /\ Loading
      /\ UNCHANGED <<Options, Commands, wp, rejected, qpair, g_queue_depth, loop, zone, lba>>
  BY DEF SeqZoneEnd, Loading, optionVars, loopVars, ioVars, deviceVars, qpairVars, Options, Commands
<1>2. Typed /\ Position /\ Quotas /\ Finishes /\ dev.max_open > 0
  BY <1>1, Sizes DEF IInv, Position
<1>3. First' = First /\ Group' = Group /\ groups' = groups /\ Zones' = Zones
  BY <1>1 DEF Options, First, Group, groups, Zones
<1>4. \A z \in Zones : Quota(z)' = Quota(z) /\ (Past(z)' <=> Past(z))
  BY <1>1, <1>3 DEF Quota, Past, Options
<1>5. Position'
  BY <1>1, <1>2, <1>3 DEF Position, Options, Commands
<1>6. \A z \in Zones : Reserved(z) <= Quota(z)'
  BY <1>1, <1>2, <1>4 DEF Quotas
<1>7. app = "zns" => \A z \in Zones : z < First' => wp[z] = dev.zcap
  BY <1>1, <1>2, <1>3 DEF Finishes
<1>8. /\ pc' # "finish" /\ pc' \in {"request", "drain", "finish", "loop", "report"}
      /\ loop' \in Nat /\ zone' \in Nat /\ lba' \in 0 .. dev.zcap
  BY <1>1, <1>2 DEF Typed
<1> QED BY <1>1, <1>4, <1>5, <1>6, <1>7, <1>8, MoveInv

\* Sequential load: on to the next zone, with the finish command of the last on
\* its way (access_zns) or without one (access_opz).
LEMMA SeqZoneFinishInv == IInv /\ (SeqZoneFinish \/ SeqZoneNext) => IInv'
<1> SUFFICES ASSUME IInv, SeqZoneFinish \/ SeqZoneNext PROVE IInv'
  OBVIOUS
<1> DEFINE end == IF app = "zns" THEN "loop" ELSE "report"
<1>1. /\ pc = "drain" /\ ~g_access_rand /\ outstanding_commands = 0 /\ Loading
      /\ UNCHANGED <<Options, wp, rejected, g_queue_depth, loop>>
      /\ NextZone(end)
      /\ IF app = "zns" THEN finish_zone ELSE UNCHANGED <<Commands, qpair>>
  BY DEF SeqZoneFinish, SeqZoneNext, Loading, optionVars, deviceVars, Options, Nothing, ioVars,
     qpairVars, Commands
<1>2. Typed /\ Position /\ Quotas /\ Finishes /\ dev.max_open > 0
  BY <1>1, Sizes DEF IInv, Position
<1>3. /\ First \in Nat /\ First + dev.max_open <= dev.num_zone
      /\ zone \in First .. First + dev.max_open - 1 /\ zone \in Nat /\ zone \in Zones
      /\ Group = First .. First + dev.max_open - 1
      /\ \A z \in Zones : z \in Nat
      /\ dev.max_open \in Nat /\ dev.num_zone \in Nat /\ dev.zcap \in Nat
      /\ g_num_io_block \in Nat \ {0} /\ lba \in 0 .. dev.zcap /\ lba \in Nat
  BY <1>1, <1>2, InGroup
<1>4. /\ First' = First /\ Group' = Group /\ groups' = groups /\ Zones' = Zones /\ dev' = dev
  BY <1>1 DEF Options, First, Group, groups, Zones
<1>5. \/ zone' = zone + 1 /\ zone' \in Group /\ lba' = 0 /\ pc' = "request"
      \/ zone' = zone /\ lba' = lba /\ pc' = end /\ zone = First + dev.max_open - 1
  BY <1>1, <1>3 DEF NextZone
<1>6. /\ zone' \in Nat /\ lba' \in 0 .. dev.zcap /\ loop' \in Nat
      /\ pc' \in {"request", end} /\ pc' # "finish"
  BY <1>1, <1>2, <1>3, <1>5, SMTT(60) DEF Typed
<1>7. app = "zns" =>
          ~Past(zone) /\ \A z \in Zones : Past(z)' <=> Past(z) \/ z = zone
  BY <1>1, <1>3, <1>4, <1>5 DEF Past, Options
<1>8. \A z \in Zones : Reserved(z) <= Quota(z)'
  <2> TAKE z \in Zones
  <2>1. Reserved(z) <= Quota(z) /\ z \in Nat /\ Reserved(z) \in Nat
    BY <1>1, <1>2, <1>3, Account DEF Quotas
  <2>2. Quota(z) = IF z >= First + dev.max_open THEN 0
                   ELSE IF z < zone THEN dev.zcap ELSE IF z = zone THEN lba ELSE 0
    BY <1>1, <1>3, <2>1 DEF Quota
  <2>3. Quota(z)' = IF z >= First + dev.max_open THEN 0
                    ELSE IF z < zone + 1 \/ pc' # "request" THEN dev.zcap ELSE 0
    BY <1>1, <1>3, <1>4, <1>5, <2>1 DEF Quota, Options
  <2> QED BY <1>3, <1>5, <2>1, <2>2, <2>3
<1>9. outstanding_commands \in Nat /\ g_queue_depth \in Nat /\ g_queue_depth > 0
  BY <1>1, <1>2 DEF Typed, Position
<1>10. zone' \in Group'
  BY <1>2, <1>3, <1>4, <1>5
<1>11. CASE app = "zns"
  <2>1. Submit("finish") /\ outstanding_commands' = 1 /\ pc' \in {"request", "loop"}
    BY <1>1, <1>5, <1>11 DEF finish_zone, Submit
  <2>2. Position'
    BY <1>1, <1>2, <1>4, <1>9, <1>10, <1>11, <2>1 DEF Position, Options
  <2>3. Appending(zone) = {}
    BY <1>1, Drained
  <2> QED BY <1>1, <1>3, <1>6, <1>7, <1>8, <1>11, <2>1, <2>2, <2>3, FinishInv
<1>12. CASE app = "opz"
  <2>1. UNCHANGED <<Commands, qpair>> /\ pc' \in {"request", "report"}
    BY <1>1, <1>5, <1>12
  <2>2. outstanding_commands' = 0
    BY <1>1, <2>1 DEF Commands
  <2>3. Position'
    BY <1>1, <1>2, <1>4, <1>9, <1>10, <1>12, <2>1, <2>2 DEF Position, Options
  <2>4. \A z \in Zones : Past(z)' <=> Past(z)
    BY <1>1, <1>12 DEF Past, Options
  <2>5. pc' \in {"request", "drain", "finish", "loop", "report"} /\ app # "zns"
    BY <1>12, <2>1
  <2> QED BY <1>1, <1>6, <1>8, <2>1, <2>3, <2>4, <2>5, MoveInv
<1> QED BY <1>2, <1>11, <1>12 DEF Typed

\* Random load: the request of one zone in a round over the group.
LEMMA RandRequestInv == IInv /\ RandRequest => IInv'
<1> SUFFICES ASSUME IInv, RandRequest PROVE IInv'
  OBVIOUS
<1>1. /\ pc = "request" /\ g_access_rand /\ Fits /\ Room /\ Loading
      /\ UNCHANGED <<Options, wp, rejected, g_queue_depth, loop, lba>>
      /\ \/ zone + 1 \in Group /\ zone' = zone + 1 /\ pc' = pc
         \/ zone + 1 \notin Group /\ zone' = zone /\ pc' = "drain"
  BY DEF RandRequest, Loading, optionVars, deviceVars, Options
<1>2. Typed /\ Position /\ Quotas /\ Finishes /\ dev.max_open > 0
  BY <1>1, Sizes DEF IInv, Position
<1>3. /\ First \in Nat /\ First + dev.max_open <= dev.num_zone
      /\ zone \in First .. First + dev.max_open - 1 /\ zone \in Nat /\ zone \in Zones
      /\ Group = First .. First + dev.max_open - 1
      /\ \A z \in Zones : z \in Nat
      /\ dev.max_open \in Nat /\ dev.num_zone \in Nat /\ dev.zcap \in Nat
      /\ g_num_io_block \in Nat \ {0} /\ lba \in 0 .. dev.zcap /\ lba \in Nat
  BY <1>1, <1>2, InGroup
<1>4. /\ First' = First /\ Group' = Group /\ groups' = groups /\ Zones' = Zones /\ dev' = dev
      /\ Fits' = Fits
  BY <1>1 DEF Options, First, Group, groups, Zones, Fits
<1>5. /\ zone' \in Nat /\ zone' \in Group /\ lba' \in 0 .. dev.zcap /\ loop' \in Nat
      /\ pc' \in {"request", "drain"} /\ pc # "finish" /\ pc' # "finish"
      /\ pc' = "request" => zone' # First
  BY <1>1, <1>2, <1>3, SMTT(60) DEF Typed
<1>6. ~Past(zone) /\ \A z \in Zones : Past(z)' <=> Past(z)
  BY <1>1, <1>3, <1>4 DEF Past, Options
<1>7. \A z \in Zones :
          /\ Reserved(z) \in Nat
          /\ IF z = zone THEN Reserved(z) <= lba /\ Quota(z)' = lba + g_num_io_block
             ELSE Reserved(z) <= Quota(z)'
  <2> TAKE z \in Zones
  <2>1. Reserved(z) <= Quota(z) /\ z \in Nat /\ Reserved(z) \in Nat
    BY <1>1, <1>2, <1>3, Account DEF Quotas
  <2>2. Quota(z) = IF z >= First + dev.max_open THEN 0
                   ELSE IF z < First THEN dev.zcap
                   ELSE IF z < zone THEN lba + g_num_io_block ELSE lba
    BY <1>1, <1>3, <2>1 DEF Quota
  <2>3. Quota(z)' = IF z >= First + dev.max_open THEN 0
                    ELSE IF z < First THEN dev.zcap
                    ELSE IF z < zone + 1 THEN lba + g_num_io_block ELSE lba
    BY <1>1, <1>3, <1>4, <2>1 DEF Quota, Options
  <2> QED BY <1>3, <2>1, <2>2, <2>3
<1>8. outstanding_commands \in Nat /\ g_queue_depth \in Nat
  BY <1>2 DEF Typed
<1>9. \A z \in Zones :
          /\ (IF z = zone THEN Reserved(z) + g_num_io_block ELSE Reserved(z)) <= Quota(z)'
          /\ Reserved(z) <= Quota(z)'
  BY <1>3, <1>7
<1>10. ASSUME outstanding_commands' \in {outstanding_commands, outstanding_commands + 1}
       PROVE  Position'
  <2>1. outstanding_commands' <= g_queue_depth
    BY <1>1, <1>8, <1>10 DEF Room
  <2>2. g_access_rand' /\ Fits' /\ (pc' = "request" => zone' # First')
    BY <1>1, <1>4, <1>5 DEF Options
  <2>3. loop' < groups' /\ zone' \in Group' /\ g_queue_depth > 0 /\ dev' = dev
        /\ g_queue_depth' = g_queue_depth
    BY <1>1, <1>2, <1>4, <1>5 DEF Position
  <2> QED BY <1>2, <1>3, <1>5, <2>1, <2>2, <2>3 DEF Position
<1>11. ASSUME NEW op \in {"append", "read"}, Submit(op) PROVE IInv'
  <2>1. Position'
    BY <1>8, <1>10, <1>11 DEF Submit
  <2> QED BY <1>1, <1>3, <1>5, <1>6, <1>9, <1>11, <2>1, RequestInv
<1>12. ASSUME Nothing PROVE IInv'
  <2>1. UNCHANGED <<Commands, qpair>>
    BY <1>12 DEF Nothing, ioVars, qpairVars, Commands
  <2>2. Position'
    BY <1>8, <1>10, <2>1 DEF Commands
  <2>3. app = "zns" => \A z \in Zones : z < First' => wp[z] = dev.zcap
    BY <1>1, <1>2, <1>4 DEF Finishes
  <2>4. pc' \in {"request", "drain", "finish", "loop", "report"}
    BY <1>5
  <2> QED BY <1>1, <1>5, <1>6, <1>9, <2>1, <2>2, <2>3, <2>4, MoveInv
<1> QED BY <1>11, <1>12 DEF RandRequest, append_zone, read_block

\* Random load: the next round, once the last one is answered.
LEMMA RandRoundDoneInv == IInv /\ RandRoundDone => IInv'
<1> SUFFICES ASSUME IInv, RandRoundDone PROVE IInv'
  OBVIOUS
<1>1. /\ pc = "drain" /\ g_access_rand /\ outstanding_commands = 0 /\ Loading
      /\ UNCHANGED <<Options, Commands, wp, rejected, qpair, g_queue_depth, loop>>
      /\ pc' = "request" /\ lba' = lba + g_num_io_block /\ zone' = First
  BY DEF RandRoundDone, Loading, optionVars, ioVars, deviceVars, qpairVars, Options, Commands, First
<1>2. Typed /\ Position /\ Quotas /\ Finishes /\ dev.max_open > 0
  BY <1>1, Sizes DEF IInv, Position
<1>3. /\ First \in Nat /\ zone \in First .. First + dev.max_open - 1
      /\ Group = First .. First + dev.max_open - 1
      /\ \A z \in Zones : z \in Nat
      /\ dev.max_open \in Nat /\ dev.zcap \in Nat
      /\ g_num_io_block \in Nat \ {0} /\ lba \in 0 .. dev.zcap /\ lba \in Nat
  BY <1>1, <1>2, InGroup
<1>4. /\ First' = First /\ Group' = Group /\ groups' = groups /\ dev' = dev
  BY <1>1 DEF Options, First, Group, groups
<1>5. /\ zone' \in Nat /\ zone' \in Group /\ lba' \in 0 .. dev.zcap /\ loop' \in Nat
      /\ pc' \in {"request", "drain", "finish", "loop", "report"} /\ pc' # "finish"
  <2>1. Fits
    BY <1>1, <1>2 DEF Position
  <2> QED BY <1>1, <1>2, <1>3, <2>1 DEF Fits, Typed
<1>6. Position'
  BY <1>1, <1>2, <1>4, <1>5 DEF Position, Options, Commands
<1>7. \A z \in Zones : (Past(z)' <=> Past(z)) /\ Reserved(z) <= Quota(z)'
  <2> TAKE z \in Zones
  <2>1. Reserved(z) <= Quota(z) /\ z \in Nat
    BY <1>1, <1>2, <1>3 DEF Quotas
  <2>2. Quota(z)' = Quota(z)
    BY <1>1, <1>3, <1>4, <2>1 DEF Quota, Options
  <2> QED BY <1>1, <1>3, <1>4, <2>1, <2>2 DEF Past, Options
<1>8. app = "zns" => \A z \in Zones : z < First' => wp[z] = dev.zcap
  BY <1>1, <1>2, <1>4 DEF Finishes
<1> QED BY <1>1, <1>5, <1>6, <1>7, <1>8, MoveInv

\* Random load: the end of the rounds.
LEMMA RandRoundsEndInv == IInv /\ RandRoundsEnd => IInv'
<1> SUFFICES ASSUME IInv, RandRoundsEnd PROVE IInv'
  OBVIOUS
<1>1. /\ pc = "request" /\ g_access_rand /\ ~Fits /\ Loading
      /\ UNCHANGED <<Options, Commands, wp, rejected, qpair, g_queue_depth, loop, zone, lba>>
      /\ pc' = IF app = "zns" THEN "finish" ELSE "report"
  BY DEF RandRoundsEnd, Loading, optionVars, loopVars, ioVars, deviceVars, qpairVars, Options,
     Commands
<1>2. Typed /\ Position /\ Quotas /\ Finishes /\ Fitting /\ dev.max_open > 0
  BY <1>1, Sizes DEF IInv, Position
<1>3. /\ First \in Nat /\ zone \in First .. First + dev.max_open - 1
      /\ \A z \in Zones : z \in Nat
      /\ dev.max_open \in Nat /\ dev.zcap \in Nat
  BY <1>1, <1>2, InGroup
<1>4. /\ First' = First /\ Group' = Group /\ groups' = groups /\ dev' = dev
  BY <1>1 DEF Options, First, Group, groups
<1>5. zone = First /\ outstanding_commands = 0
  BY <1>1, <1>2 DEF Position
<1>6. /\ pc' \in {"request", "drain", "finish", "loop", "report"}
      /\ loop' \in Nat /\ zone' \in Nat /\ lba' \in 0 .. dev.zcap
  BY <1>1, <1>2 DEF Typed
<1>7. Position'
  BY <1>1, <1>2, <1>4, <1>5 DEF Position, Options, Commands
<1>8. \A z \in Zones : (Past(z)' <=> Past(z)) /\ Reserved(z) <= Quota(z)'
  <2> TAKE z \in Zones
  <2>1. Reserved(z) <= Quota(z) /\ z \in Nat /\ Reserved(z) <= dev.zcap
    BY <1>1, <1>2, <1>3 DEF Quotas, Fitting
  <2>2. Quota(z)' = IF z >= First + dev.max_open THEN Quota(z) ELSE dev.zcap
    BY <1>1, <1>3, <1>4, <2>1 DEF Quota, Options
  <2> QED BY <1>1, <1>3, <1>4, <1>5, <2>1, <2>2 DEF Past, Options
<1>9. app = "zns" => \A z \in Zones : z < First' => wp[z] = dev.zcap
  BY <1>1, <1>2, <1>4 DEF Finishes
<1>10. \A z \in Zones : Appending(z) = {}
  BY <1>5, Drained
<1> QED BY <1>1, <1>6, <1>7, <1>8, <1>9, <1>10, MoveInv

\* Random load: the finish command of one zone of the group.
LEMMA RandFinishInv == IInv /\ RandFinish => IInv'
<1> SUFFICES ASSUME IInv, RandFinish PROVE IInv'
  OBVIOUS
<1>1. /\ pc = "finish" /\ Room /\ Loading /\ Submit("finish")
      /\ UNCHANGED <<Options, wp, rejected, g_queue_depth, loop, lba>>
      /\ \/ zone + 1 \in Group /\ zone' = zone + 1 /\ pc' = pc
         \/ zone + 1 \notin Group /\ zone' = zone /\ pc' = "loop"
  BY DEF RandFinish, finish_zone, Loading, optionVars, deviceVars, Options
<1>2. /\ Typed /\ Position /\ Quotas /\ Finishes /\ dev.max_open > 0
      /\ g_access_rand /\ app = "zns"
  BY <1>1, Sizes DEF IInv, Position
<1>3. /\ First \in Nat /\ First + dev.max_open <= dev.num_zone
      /\ zone \in First .. First + dev.max_open - 1 /\ zone \in Nat /\ zone \in Zones
      /\ Group = First .. First + dev.max_open - 1
      /\ \A z \in Zones : z \in Nat
      /\ dev.max_open \in Nat /\ dev.zcap \in Nat
  BY <1>1, <1>2, InGroup
<1>4. /\ First' = First /\ Group' = Group /\ groups' = groups /\ dev' = dev
  BY <1>1 DEF Options, First, Group, groups
<1>5. /\ zone' \in Nat /\ zone' \in Group /\ lba' \in 0 .. dev.zcap
      /\ pc' \in {"request", "finish", "loop"} /\ pc' # "request"
  BY <1>1, <1>2, <1>3 DEF Typed
<1>6. ~Past(zone) /\ \A z \in Zones : Past(z)' <=> Past(z) \/ z = zone
  BY <1>1, <1>2, <1>3, <1>4 DEF Past, Options
<1>7. \A z \in Zones : Reserved(z) <= Quota(z)'
  <2> TAKE z \in Zones
  <2>1. Reserved(z) <= Quota(z) /\ z \in Nat
    BY <1>1, <1>2, <1>3 DEF Quotas
  <2>2. Quota(z)' = Quota(z)
    BY <1>1, <1>3, <1>4, <2>1 DEF Quota, Options
  <2> QED BY <2>1, <2>2
<1>8. Position'
  <2>1. outstanding_commands \in Nat /\ g_queue_depth \in Nat
        /\ outstanding_commands' = outstanding_commands + 1
    BY <1>1, <1>2 DEF Typed, Submit
  <2>2. outstanding_commands' <= g_queue_depth
    BY <1>1, <2>1 DEF Room
  <2> QED BY <1>1, <1>2, <1>3, <1>4, <1>5, <2>2 DEF Position, Options
<1>9. \A z \in Zones : Appending(z) = {}
  BY <1>1, <1>2 DEF Finishes
<1> QED BY <1>1, <1>3, <1>5, <1>6, <1>7, <1>8, <1>9, FinishInv

\* access_zns: the end of a group, when everything it sent is answered.
LEMMA LoopDoneInv == IInv /\ LoopDone => IInv'
<1> SUFFICES ASSUME IInv, LoopDone PROVE IInv'
  OBVIOUS
<1>1. /\ pc = "loop" /\ outstanding_commands = 0 /\ Loading
      /\ UNCHANGED <<Options, Commands, wp, rejected, qpair, g_queue_depth>>
      /\ \/ /\ loop + 1 < groups /\ pc' = "request" /\ loop' = loop + 1 /\ lba' = 0
            /\ zone' = loop' * dev.max_open
         \/ ~(loop + 1 < groups) /\ pc' = "report" /\ UNCHANGED <<loop, zone, lba>>
  BY DEF LoopDone, Loading, optionVars, loopVars, ioVars, deviceVars, qpairVars, Options, Commands
<1>2. Typed /\ Position /\ Quotas /\ Finishes /\ Fitting /\ dev.max_open > 0 /\ app = "zns"
  BY <1>1, Sizes DEF IInv, Position
<1>3. /\ First \in Nat /\ First + dev.max_open <= dev.num_zone
      /\ zone \in First .. First + dev.max_open - 1
      /\ \A z \in Zones : z \in Nat
      /\ dev.max_open \in Nat /\ dev.zcap \in Nat /\ dev.num_zone \in Nat
  BY <1>1, <1>2, InGroup
<1>4. /\ groups' = groups /\ dev' = dev /\ app' = app /\ loop \in Nat /\ groups \in Nat
      /\ Group' = First' .. First' + dev.max_open - 1
      /\ g_queue_depth \in Nat /\ g_queue_depth > 0 /\ loop < groups
  BY <1>1, <1>2, <1>3, SMTT(60) DEF Options, Group, First, groups, Typed, Position
<1>5. \A z \in Zones : z < First + dev.max_open => wp[z] = dev.zcap
  <2> SUFFICES ASSUME NEW z \in Zones, z < First + dev.max_open PROVE wp[z] = dev.zcap
    OBVIOUS
  <2>1. Past(z)
    BY <1>1, <1>2 DEF Past
  <2>2. inflight = {}
    BY <1>1, Drained
  <2> QED BY <1>1, <1>2, <2>1, <2>2 DEF Finishes, FinishedBy
<1>6. CASE loop + 1 < groups
  <2>1. pc' = "request" /\ loop' = loop + 1 /\ lba' = 0 /\ zone' = First'
    BY <1>1, <1>4, <1>6 DEF First
  <2>2. First' = First + dev.max_open
    <3>1. First' = (loop + 1) * dev.max_open
      BY <1>4, <2>1 DEF First
    <3> QED BY <1>3, <1>4, <3>1, Product DEF First
  <2>3. /\ loop' \in Nat /\ zone' \in Nat /\ lba' \in 0 .. dev.zcap
        /\ zone' \in Group'
    BY <1>2, <1>3, <1>4, <2>1, <2>2, Sizes, SMTT(60)
  <2>4. Position'
    BY <1>1, <1>2, <1>4, <1>6, <2>1, <2>3 DEF Position, Options, Commands
  <2>5. \A z \in Zones : Reserved(z) <= Quota(z)'
    <3> TAKE z \in Zones
    <3>1. /\ Reserved(z) <= Quota(z) /\ Reserved(z) <= dev.zcap /\ z \in Nat /\ Reserved(z) \in Nat
      BY <1>1, <1>2, <1>3, Account DEF Quotas, Fitting
    <3>2. z >= First + dev.max_open => Quota(z) = 0
      BY DEF Quota
    <3>3. z < First + dev.max_open => Quota(z)' = dev.zcap
      BY <1>3, <1>4, <2>2, <3>1 DEF Quota
    <3>4. Quota(z)' \in Nat
      BY <1>3, <1>4, <2>1, <2>2, <3>1, Sizes, <1>2 DEF Quota, Options
    <3> QED BY <1>3, <3>1, <3>2, <3>3, <3>4
  <2>6. \A z \in Zones : Past(z)' <=> Past(z)
    BY <1>1, <1>2, <1>3, <1>4, <2>1, <2>2, SMTT(60) DEF Past, Options
  <2>7. pc' \in {"request", "drain", "finish", "loop", "report"} /\ pc' # "finish"
        /\ \A z \in Zones : z < First' => wp[z] = dev.zcap
    BY <1>5, <2>1, <2>2
  <2> QED BY <1>1, <2>3, <2>4, <2>5, <2>6, <2>7, MoveInv
<1>7. CASE ~(loop + 1 < groups)
  <2>1. pc' = "report" /\ UNCHANGED <<loop, zone, lba>>
    BY <1>1, <1>7
  <2>2. First' = First /\ Group' = Group /\ loop + 1 = groups
    BY <1>1, <1>4, <1>7, <2>1 DEF First, Group
  <2>3. Position'
    BY <1>1, <1>2, <1>4, <2>1, <2>2 DEF Position, Options, Commands
  <2>4. \A z \in Zones : Quota(z)' = Quota(z) /\ (Past(z)' <=> Past(z))
    BY <1>1, <1>4, <2>1, <2>2 DEF Quota, Past, Options
  <2>5. \A z \in Zones : Reserved(z) <= Quota(z)'
    BY <1>1, <1>2, <2>4 DEF Quotas
  <2>6. /\ loop' \in Nat /\ zone' \in Nat /\ lba' \in 0 .. dev.zcap
        /\ pc' \in {"request", "drain", "finish", "loop", "report"} /\ pc' # "finish"
        /\ \A z \in Zones : z < First' => wp[z] = dev.zcap
    BY <1>1, <1>2, <2>1, <2>2 DEF Typed, Finishes
  <2> QED BY <1>1, <2>3, <2>4, <2>5, <2>6, MoveInv
<1> QED BY <1>6, <1>7

\* The end of the program: what is still queued is aborted.
LEMMA ReportInv == IInv /\ Report => IInv'
<1> SUFFICES ASSUME IInv, Report PROVE IInv'
  OBVIOUS
<1>1. /\ Typed /\ Fitting /\ outstanding_commands = 0 /\ Loading
      /\ UNCHANGED <<Options, cmds, outstanding_commands, wp, rejected, loop, zone, lba>>
      /\ g_queue_depth' = g_queue_depth
      /\ pc' = "done" /\ inflight' = {} /\ cq' = {} /\ qpair' \in {"freed", "corrupt"}
  BY DEF IInv, Report, FreeIoQpair, optionVars, loopVars, ioVars, deviceVars, Options, Loading,
     Position
<1>2. \A z : Appending(z) = {} /\ Appending(z)' = {}
  BY <1>1, Drained DEF Appending
<1>3. Typed'
  BY <1>1 DEF Typed, Options, Command, Zones, QpairTypeOK, Final
<1>4. Exact'
  BY <1>1, FS_EmptySet DEF Exact, Flying
<1>5. Fitting' /\ FinishAlone'
  BY <1>1, <1>2 DEF Fitting, FinishAlone, Reserved, Options, Zones
<1>6. Before' /\ Position' /\ Quotas' /\ Finishes'
  BY <1>1 DEF Before, Position, Quotas, Finishes, Loading
<1> QED BY <1>3, <1>4, <1>5, <1>6 DEF IInv

\* Every step of the program and of the device keeps the invariant.
LEMMA StepInv == IInv /\ [Next]_vars => IInv'
<1> SUFFICES ASSUME IInv, [Next]_vars PROVE IInv'
  OBVIOUS
<1>1. CASE Probe \/ AllocQpair \/ ZnsInfo
  BY <1>1, StartInv
<1>2. CASE CheckLoad
  BY <1>2, CheckInv
<1>3. CASE SeqRequest \/ SeqZoneEnd \/ SeqZoneFinish \/ SeqZoneNext
  BY <1>3, SeqRequestInv, SeqZoneEndInv, SeqZoneFinishInv
<1>4. CASE RandRequest \/ RandRoundDone \/ RandRoundsEnd \/ RandFinish
  BY <1>4, RandRequestInv, RandRoundDoneInv, RandRoundsEndInv, RandFinishInv
<1>5. CASE LoopDone \/ Report
  BY <1>5, LoopDoneInv, ReportInv
<1>6. CASE Poll \/ Device
  BY <1>6, PollInv, DeviceInv
<1>7. CASE GiveUp
  <2>1. /\ UNCHANGED <<Options, Commands, wp, rejected, loop, zone, lba, qpair>>
        /\ g_queue_depth' \in Nat /\ pc' \in Final
    BY <1>7 DEF GiveUp, optionVars, loopVars, ioVars, deviceVars, qpairVars, Options, Commands,
       Final, IInv, Typed
  <2> QED BY <2>1, EndInv
<1>8. CASE UNCHANGED vars
  <2>1. /\ UNCHANGED <<Options, Commands, wp, rejected, loop, zone, lba, qpair>>
        /\ UNCHANGED <<g_queue_depth, pc>>
    BY <1>8 DEF vars, optionVars, loopVars, ioVars, deviceVars, qpairVars, Options, Commands
  <2>2. Typed'
    BY <2>1 DEF IInv, Typed, Options, Commands, Command, Zones, QpairTypeOK
  <2>3. /\ Zones' = Zones /\ Loading' = Loading /\ First' = First /\ Group' = Group
        /\ groups' = groups /\ Fits' = Fits
        /\ \A z : Appending(z)' = Appending(z) /\ Reserved(z)' = Reserved(z)
        /\ \A z, name : SentTo(name, z)' = SentTo(name, z)
        /\ \A f, z : FinishedBy(f, z)' <=> FinishedBy(f, z)
        /\ Fitting' /\ FinishAlone' /\ Exact'
    BY <2>1, QuietFacts DEF IInv, Options, Loading, First, Group, groups, Fits
  <2>4. \A z : Quota(z)' = Quota(z) /\ (Past(z)' <=> Past(z))
    BY <2>1, <2>3 DEF Quota, Past, Options
  <2>5. Before' /\ Position'
    BY <2>1, <2>3 DEF IInv, Before, Position, Options, Commands
  <2>6. Quotas' /\ Finishes'
    BY <2>1, <2>3, <2>4 DEF IInv, Quotas, Finishes, Options, Commands
  <2> QED BY <2>2, <2>3, <2>5, <2>6 DEF IInv
<1> QED BY <1>1, <1>2, <1>3, <1>4, <1>5, <1>6, <1>7, <1>8 DEF Next, Main, Terminated

\* The invariant holds at every moment of a load, also of one that was given up
\* while the device still has commands.
THEOREM Invariance == Spec => []IInv
BY InitInv, StepInv, PTL DEF Spec
-----------------------------------------------------------------------------
(* The properties.                                                         *)

\* Both wait loops rely on outstanding_commands: it is always the number of
\* commands whose callback has not run, and never exceeds the queue depth,
\* although access_zns sends the finish command of a zone without asking for room.
THEOREM OutstandingIsExact == Spec => []OutstandingExact
<1>1. IInv => OutstandingExact
  BY DEF IInv, Exact, Position, OutstandingExact
<1> QED BY <1>1, Invariance, PTL

\* No append is rejected for want of room in its zone, or because the zone has
\* been finished already, whatever the order in which the device executes what is
\* outstanding.
THEOREM NoAppendRejected == Spec => []AppendsFit
<1>1. IInv => AppendsFit
  BY DEF IInv, Typed, AppendsFit
<1> QED BY <1>1, Invariance, PTL

\* The zones that are partially written are zones of the current group, so that
\* a device never has more of them than it allows open.
THEOREM OpenLimitKept == Spec => []OpenWithinLimit
<1>1. IInv => OpenWithinLimit
  <2> SUFFICES ASSUME IInv, Loading
               PROVE  Cardinality({z \in Zones : wp[z] \in 1 .. dev.zcap - 1}) <= dev.max_open
    BY DEF OpenWithinLimit
  <2> DEFINE partial == {z \in Zones : wp[z] \in 1 .. dev.zcap - 1}
  <2>1. /\ Typed /\ Position /\ Quotas /\ Finishes
        /\ dev.zcap \in Nat /\ dev.max_open \in Nat /\ dev.num_zone \in Nat
    BY Sizes DEF IInv
  <2>2. First \in Nat
    <3>1. CASE dev.max_open = 0
      BY <2>1, <3>1 DEF First, Position
    <3>2. CASE dev.max_open > 0
      BY <3>2, InGroup
    <3> QED BY <2>1, <3>1, <3>2
  <2>3. ASSUME NEW z \in partial PROVE z \in First .. First + dev.max_open - 1
    <3>1. z \in Nat /\ z \in Zones /\ wp[z] \in 1 .. dev.zcap - 1
      BY <2>1 DEF Zones
    <3>2. Reserved(z) <= Quota(z) /\ Reserved(z) \in Nat /\ wp[z] <= Reserved(z) /\ wp[z] # 0
          /\ wp[z] \in Nat
      BY <2>1, <3>1, Account DEF Quotas
    <3>3. ~(z >= First + dev.max_open)
      BY <3>2 DEF Quota
    <3>4. ~(z < First)
      <4>1. CASE app = "zns"
        <5>1. z < First => wp[z] = dev.zcap
          BY <2>1, <3>1, <4>1 DEF Finishes
        <5> QED BY <2>1, <3>1, <5>1
      <4>2. CASE app = "opz"
        <5>1. loop = 0
          BY <2>1, <4>2 DEF Position, groups, Typed
        <5> QED BY <2>1, <3>1, <5>1 DEF First
      <4> QED BY <2>1, <4>1, <4>2 DEF Typed
    <3> QED BY <2>1, <2>2, <3>1, <3>3, <3>4
  <2>4. /\ IsFiniteSet(First .. First + dev.max_open - 1)
        /\ Cardinality(First .. First + dev.max_open - 1) = dev.max_open
    <3> DEFINE last == First + dev.max_open - 1
    <3>1. First \in Int /\ last \in Int /\ last - First + 1 = dev.max_open
          /\ (First > last <=> dev.max_open = 0)
      BY <2>1, <2>2
    <3>2. /\ IsFiniteSet(First .. last)
          /\ Cardinality(First .. last) = IF First > last THEN 0 ELSE last - First + 1
      <4> HIDE DEF last
      <4> QED BY <3>1, FS_Interval
    <3>3. Cardinality(First .. last) = dev.max_open
      <4> HIDE DEF last
      <4>1. CASE First > last
        BY <3>1, <3>2, <4>1
      <4>2. CASE ~(First > last)
        BY <3>1, <3>2, <4>2
      <4> QED BY <4>1, <4>2
    <3> QED BY <3>2, <3>3
  <2>5. partial \in SUBSET (First .. First + dev.max_open - 1)
    BY <2>3
  <2> HIDE DEF partial
  <2>6. Cardinality(partial) <= dev.max_open
    BY <2>4, <2>5, FS_Subset
  <2> QED BY <2>6 DEF partial
<1> QED BY <1>1, Invariance, PTL

\* When access_zns reports, every zone of its groups is full and has had exactly
\* one finish command, sent after everything else for that zone; the zones
\* beyond the last whole group are untouched.
THEOREM AllFinished == Spec => []ZonesFinished
<1>1. IInv => ZonesFinished
  <2> SUFFICES ASSUME IInv, pc = "report", app = "zns", dev.max_open > 0, NEW z \in Zones
               PROVE  /\ z < groups * dev.max_open =>
                            /\ wp[z] = dev.zcap
                            /\ \E f \in SentTo("finish", z) :
                                  /\ SentTo("finish", z) = {f}
                                  /\ \A c \in DOMAIN cmds : cmds[c].zone = z => c <= f
                      /\ z >= groups * dev.max_open => wp[z] = 0
    BY DEF ZonesFinished
  <2>1. /\ Typed /\ Position /\ Quotas /\ Finishes /\ Loading
    BY DEF IInv, Loading
  <2>2. /\ loop + 1 = groups /\ inflight = {} /\ loop \in Nat
    BY <2>1, Drained DEF Position, Typed
  <2>3. /\ First \in Nat /\ z \in Nat /\ dev.max_open \in Nat /\ dev.zcap \in Nat
    BY <2>1, InGroup
  <2>4. groups * dev.max_open = First + dev.max_open
    <3>1. (loop + 1) * dev.max_open = loop * dev.max_open + dev.max_open
      BY <2>2, <2>3, Product
    <3> QED BY <2>2, <3>1 DEF First
  <2>5. ASSUME z < First + dev.max_open
        PROVE  /\ wp[z] = dev.zcap
               /\ \E f \in SentTo("finish", z) :
                     /\ SentTo("finish", z) = {f}
                     /\ \A c \in DOMAIN cmds : cmds[c].zone = z => c <= f
    <3>1. Past(z)
      BY <2>5 DEF Past
    <3>2. PICK f \in DOMAIN cmds : FinishedBy(f, z)
      BY <2>1, <3>1 DEF Finishes
    <3> QED BY <2>2, <3>2 DEF FinishedBy
  <2>6. ASSUME z >= First + dev.max_open PROVE wp[z] = 0
    <3>1. Quota(z) = 0
      BY <2>6 DEF Quota
    <3>2. Reserved(z) <= 0 /\ Reserved(z) \in Nat /\ wp[z] <= Reserved(z) /\ wp[z] \in 0 .. dev.zcap
      BY <2>1, <3>1, Account DEF Quotas
    <3> QED BY <2>3, <3>2
  <2> QED BY <2>4, <2>5, <2>6
<1> QED BY <1>1, Invariance, PTL
-----------------------------------------------------------------------------
(* The budgets.                                                            *)

\* The budgets are 32 bit words, the rounding to float notwithstanding.
Words ==
    /\ ratio \in Ratios /\ attached \in BOOLEAN /\ g_num_rw \in Nat
    /\ {g_num_r, g_num_w, g_num_zone_r, g_num_zone_w, write, read} \subseteq 0 .. Word32 - 1

\* What main() plans from the geometry, and what send_seq starts with.
Plan ==
    pc = "check" \/ Loading =>
        /\ Loading => dev.zoned
        /\ dev.zoned =>
              /\ g_num_rw = used_zones * per_zone
              /\ g_num_zone_r = Reads(per_zone) % Word32
              /\ g_num_zone_w = (per_zone - g_num_zone_r) % Word32
              /\ pc = "check" => /\ g_num_r = Reads(g_num_rw) % Word32
                                 /\ g_num_w = (g_num_rw - g_num_r) % Word32

Working == Loading /\ dev.max_open > 0

\* The place in the zone counts in requests, and the loops leave a zone when
\* no other fits.
Slot == lba \div g_num_io_block
Slots ==
    Working =>
        /\ lba = Slot * g_num_io_block
        /\ pc \in (IF g_access_rand THEN {"finish"} ELSE {"drain"}) \cup {"loop", "report"} =>
               Slot = per_zone
        /\ ~g_access_rand /\ pc \in {"loop", "report"} => zone + 1 = First + dev.max_open

\* How many requests the loops have had an occasion for, and how many zones they
\* have finished.
Served ==
    IF ~g_access_rand THEN zone * per_zone + Slot
    ELSE First * per_zone + (IF pc = "request" THEN Slot * dev.max_open + (zone - First)
                             ELSE IF pc = "drain" THEN (Slot + 1) * dev.max_open
                             ELSE per_zone * dev.max_open)
Closed ==
    IF app = "opz" THEN 0
    ELSE IF pc \in {"loop", "report"} THEN First + dev.max_open
    ELSE IF g_access_rand /\ pc # "finish" THEN First ELSE zone

\* Sequential load: what is sent and what is left of the budgets make up the plan,
\* and there is an occasion for each of the latter.
SeqBudget ==
    Working /\ ~g_access_rand /\ Countable(g_num_rw) =>
        /\ Served + g_num_w + g_num_r = g_num_rw
        /\ Len(cmds) = Served + Closed
        /\ Cardinality(Sent("read")) + g_num_r = Reads(g_num_rw)
        /\ Cardinality(Sent("append")) + g_num_w = g_num_rw - Reads(g_num_rw)

\* Random load: what zone z has had of each kind, rounds being counted when their
\* last request has been sent.
Planned(op) == IF op = "append" THEN g_num_zone_w ELSE g_num_zone_r
Left(op) == IF op = "append" THEN write ELSE read
Turn(op) == (op = "append") = (write > 0)
Share(op, z) ==
    IF z >= First + dev.max_open THEN 0
    ELSE IF z < First THEN Planned(op)
    ELSE Planned(op) - Left(op) + (IF pc = "request" /\ z < zone /\ Turn(op) THEN 1 ELSE 0)

\* There is a round for each request left in the budgets.
RandBudget ==
    Working /\ g_access_rand /\ Countable(per_zone) =>
        /\ Len(cmds) = Served + Closed
        /\ write + read + Slot + (IF pc = "drain" THEN 1 ELSE 0) = per_zone
        /\ write <= g_num_zone_w /\ read <= g_num_zone_r
        /\ \A z \in Zones, op \in {"read", "append"} : Cardinality(SentTo(op, z)) = Share(op, z)

BInv == Words /\ Plan /\ Slots /\ SeqBudget /\ RandBudget
-----------------------------------------------------------------------------
(* Numbers.                                                                *)

\* What is closed under adding one, up to N, holds every number up to N.
LEMMA Upward ==
    ASSUME NEW S, 0 \in S, NEW N \in Nat, \A n \in 0 .. N : n \in S /\ n < N => n + 1 \in S
    PROVE  0 .. N \subseteq S
<1> DEFINE missing == {0 .. x : x \in (0 .. N) \ S}
<1>1. SUFFICES ASSUME missing # {} PROVE FALSE
  OBVIOUS
<1>2. ASSUME NEW x \in 0 .. N PROVE 0 .. x \in SUBSET (0 .. N) /\ IsFiniteSet(0 .. x)
  <2>1. x \in Int /\ 0 \in Int
    OBVIOUS
  <2>2. IsFiniteSet(0 .. x)
    BY <2>1, FS_Interval
  <2> QED BY <2>2
<1>3. PICK M \in missing : \A U \in missing : ~(<<U, M>> \in StrictSubsetOrdering(0 .. N))
  <2>1. IsFiniteSet(0 .. N) /\ missing \subseteq FiniteSubsetsOf(0 .. N)
    BY <1>2 DEF FiniteSubsetsOf
  <2> HIDE DEF missing
  <2> QED BY <1>1, <2>1, FS_StrictSubsetOrderingWellFounded, WFMin
<1>4. PICK x \in (0 .. N) \ S : M = 0 .. x
  OBVIOUS
<1>5. x # 0 /\ x - 1 \in 0 .. N /\ x - 1 < N /\ (x - 1) + 1 = x
  BY <1>4
<1>6. x - 1 \in (0 .. N) \ S
  BY <1>5
<1>7. 0 .. x - 1 \in missing /\ x \notin 0 .. x - 1 /\ x \in 0 .. x /\ 0 .. x - 1 \subseteq 0 .. x
  BY <1>5, <1>6
<1>8. <<0 .. x - 1, M>> \in StrictSubsetOrdering(0 .. N)
  BY <1>2, <1>4, <1>5, <1>7 DEF StrictSubsetOrdering
<1> QED BY <1>3, <1>7, <1>8

\* A function that doubles from the half of its argument, up to m.
Doubles(f, m) ==
    \A n \in 0 .. m : f[n] = IF n <= Mantissa THEN 1 ELSE 2 * f[(n + 1) \div 2]

\* There is one: a value only needs the value of a smaller number.
LEMMA Doubling ==
    ASSUME NEW x \in Nat
    PROVE  \E f \in [0 .. x -> Nat \ {0}] : Doubles(f, x)
<1> DEFINE S == {m \in Nat : \E f \in [0 .. m -> Nat \ {0}] : Doubles(f, m)}
<1>0. Mantissa \in Nat \ {0}
  BY WorkloadAssumption
<1>1. 0 \in S
  <2> DEFINE f == [n \in 0 .. 0 |-> 1]
  <2>1. f \in [0 .. 0 -> Nat \ {0}] /\ Doubles(f, 0)
    BY <1>0 DEF Doubles
  <2> QED BY <2>1
<1>2. ASSUME NEW m \in 0 .. x, m \in S PROVE m + 1 \in S
  <2>1. PICK f \in [0 .. m -> Nat \ {0}] : Doubles(f, m)
    BY <1>2
  <2>2. m \in Nat /\ m + 1 \in Nat
    OBVIOUS
  <2>3. ASSUME NEW n \in 0 .. m + 1, n > Mantissa
        PROVE  (n + 1) \div 2 \in 0 .. m
    BY <1>0, <2>2, <2>3
  <2> DEFINE v == IF m + 1 <= Mantissa THEN 1 ELSE 2 * f[(m + 2) \div 2]
             g == [n \in 0 .. m + 1 |-> IF n = m + 1 THEN v ELSE f[n]]
  <2>4. v \in Nat \ {0}
    <3>1. CASE m + 1 <= Mantissa
      BY <3>1
    <3>2. CASE m + 1 > Mantissa
      <4>1. (m + 2) \div 2 \in 0 .. m
        BY <2>2, <2>3, <3>2
      <4>2. f[(m + 2) \div 2] \in Nat \ {0}
        BY <2>1, <4>1
      <4> QED BY <1>0, <2>2, <3>2, <4>2
    <3> QED BY <1>0, <2>2, <3>1, <3>2
  <2> HIDE DEF v
  <2>5. g[m + 1] = v /\ \A n \in 0 .. m : g[n] = f[n]
    BY <2>2
  <2>6. g \in [0 .. m + 1 -> Nat \ {0}]
    BY <2>1, <2>2, <2>4
  <2> HIDE DEF g
  <2>7. ASSUME NEW n \in 0 .. m + 1
        PROVE  g[n] = IF n <= Mantissa THEN 1 ELSE 2 * g[(n + 1) \div 2]
    <3>1. n > Mantissa => g[(n + 1) \div 2] = f[(n + 1) \div 2]
      BY <2>3, <2>5
    <3>2. CASE n = m + 1
      BY <1>0, <2>2, <2>5, <3>1, <3>2 DEF v
    <3>3. CASE n \in 0 .. m
      BY <1>0, <2>1, <2>2, <2>5, <3>1, <3>3 DEF Doubles
    <3> QED BY <2>2, <3>2, <3>3
  <2>8. Doubles(g, m + 1)
    BY <2>7 DEF Doubles
  <2> QED BY <2>2, <2>6, <2>8
<1>3. 0 .. x \subseteq S
  <2> HIDE DEF S
  <2> QED BY <1>1, <1>2, Upward
<1> QED BY <1>3

\* Division of a natural number.
LEMMA Division ==
    ASSUME NEW n \in Nat, NEW d \in Nat \ {0}
    PROVE  /\ n \div d \in Nat /\ n % d \in 0 .. d - 1
           /\ (d = 1 => n \div d = n /\ n % d = 0)
<1>1. n \div d \in Nat
  OBVIOUS
<1>2. n % d \in 0 .. d - 1
  OBVIOUS
<1>3. d = 1 => n \div d = n
  <2>1. n \div 1 = n
    OBVIOUS
  <2> QED BY <2>1
<1>4. d = 1 => n % d = 0
  <2>1. n % 1 = 0
    OBVIOUS
  <2> QED BY <2>1
<1> QED BY <1>1, <1>2, <1>3, <1>4

\* A float is a number, and numbers up to Mantissa are floats.
LEMMA Floats ==
    ASSUME NEW x \in Nat
    PROVE  ToFloat(x) \in Nat /\ (x <= Mantissa => ToFloat(x) = x)
<1> DEFINE Is(f) == f = [n \in 0 .. x |-> IF n <= Mantissa THEN 1 ELSE 2 * f[(n + 1) \div 2]]
           u == CHOOSE f : Is(f)
<1>1. PICK f \in [0 .. x -> Nat \ {0}] : Doubles(f, x)
  BY Doubling
<1>2. Is(f)
  <2>1. f = [n \in 0 .. x |-> f[n]]
    BY <1>1
  <2>2. [n \in 0 .. x |-> f[n]]
           = [n \in 0 .. x |-> IF n <= Mantissa THEN 1 ELSE 2 * f[(n + 1) \div 2]]
    BY <1>1 DEF Doubles
  <2> QED BY <2>1, <2>2
<1>3. Is(u)
  <2> HIDE DEF Is
  <2> QED BY <1>2
<1>4. Unit(x) = u[x]
  BY DEF Unit
<1> HIDE DEF u
<1>5. \A n \in 0 .. x : u[n] = IF n <= Mantissa THEN 1 ELSE 2 * u[(n + 1) \div 2]
  BY <1>3
<1> HIDE DEF Is
<1>6. Mantissa \in Nat \ {0}
  BY WorkloadAssumption
<1> DEFINE S == {m \in Nat : \A n \in 0 .. m : n <= x => u[n] \in Nat \ {0}}
<1>7. 0 \in S
  BY <1>5, <1>6
<1>8. ASSUME NEW m \in 0 .. x, m \in S PROVE m + 1 \in S
  <2> SUFFICES ASSUME NEW n \in 0 .. m + 1, n <= x PROVE u[n] \in Nat \ {0}
    OBVIOUS
  <2>1. CASE n <= Mantissa
    BY <1>5, <2>1
  <2>2. CASE n > Mantissa
    <3>1. (n + 1) \div 2 \in 0 .. m /\ (n + 1) \div 2 <= x
      BY <1>6, <2>2
    <3>2. u[(n + 1) \div 2] \in Nat \ {0}
      BY <1>8, <3>1
    <3>3. u[n] = 2 * u[(n + 1) \div 2]
      BY <1>5, <1>6, <2>2
    <3> QED BY <3>2, <3>3
  <2> QED BY <1>6, <2>1, <2>2
<1>9. x \in S
  <2> HIDE DEF S
  <2>1. 0 .. x \subseteq S
    BY <1>7, <1>8, Upward
  <2> QED BY <2>1
<1>10. u[x] \in Nat \ {0} /\ (x <= Mantissa => u[x] = 1)
  BY <1>5, <1>9
<1>11. PICK w : w = u[x]
  OBVIOUS
<1>12. /\ w \in Nat \ {0} /\ x \div w \in Nat /\ x % w \in 0 .. w - 1
       /\ (w = 1 => x \div w = x /\ x % w = 0)
  <2>1. w \in Nat \ {0}
    BY <1>10, <1>11
  <2> QED BY <2>1, Division
<1>13. ToFloat(x) = IF 2 * (x % w) < w \/ (2 * (x % w) = w /\ (x \div w) % 2 = 0)
                    THEN (x \div w) * w ELSE (x \div w + 1) * w
  <2>1. (x + 1 - 1) \div 1 = x /\ 1 * w = w
    BY <1>12
  <2>2. <<x, 1>> \in Nat \X (Nat \ {0})
    OBVIOUS
  <2> QED BY <1>4, <1>11, <2>1, <2>2 DEF ToFloat, Nearest
<1>14. (x \div w) * w \in Nat /\ (x \div w + 1) * w \in Nat
  BY <1>12, Product
<1>15. ToFloat(x) \in Nat
  BY <1>13, <1>14
<1>16. w = 1 => ToFloat(x) = x
  BY <1>12, <1>13
<1> QED BY <1>10, <1>11, <1>15, <1>16

\* The reads of a count, whatever the ratio; as many as requests at most when the
\* count is a float.
LEMMA ReadsFacts ==
    ASSUME ratio \in Ratios, NEW x \in Nat
    PROVE  Reads(x) \in Nat /\ (x <= Mantissa => Reads(x) <= x)
<1>1. PICK a, p, q : a = ToFloat(x) /\ p = ratio.p /\ q = ratio.q
  OBVIOUS
<1>2. a \in Nat /\ p \in Nat /\ q \in Nat \ {0} /\ p <= q
  BY <1>1, Floats, WorkloadAssumption
<1>3. PICK c, r : c = a * p /\ r = c \div q
  OBVIOUS
<1>4. c \in Nat /\ r \in Nat /\ r * q <= c
  <2>1. c \in Nat
    BY <1>2, <1>3, Product
  <2> QED BY ONLY <1>2, <1>3, <2>1
<1>5. r <= a
  <2> SUFFICES ASSUME r > a PROVE FALSE
    BY <1>2, <1>4
  <2> DEFINE d == r - a - 1
             e == q - p
  <2>1. d \in Nat /\ e \in Nat /\ r = a + 1 + d /\ q = p + e
    BY <1>2, <1>4
  <2> HIDE DEF d, e
  <2>2. r * q = a * p + a * e + q + d * q
    BY ONLY <1>2, <2>1
  <2>3. a * e \in Nat /\ d * q \in Nat /\ a * p \in Nat
    BY <1>2, <2>1, Product
  <2> QED BY <1>2, <1>3, <1>4, <2>2, <2>3
<1>6. Reads(x) = r
  BY <1>1, <1>3 DEF Reads
<1>7. x <= Mantissa => a = x
  BY <1>1, Floats
<1> QED BY <1>4, <1>5, <1>6, <1>7
-----------------------------------------------------------------------------
(* The steps.                                                              *)

\* s requests of b blocks fit c blocks when s is at most the quotient.
LEMMA Quotient ==
    ASSUME NEW b \in Nat \ {0}, NEW c \in Nat, NEW s \in Nat
    PROVE  /\ c \div b \in Nat /\ (s * b <= c <=> s <= c \div b)
           /\ (s * b) \div b = s /\ s * b \in Nat /\ (s + 1) * b = s * b + b
<1>1. \A x \in Nat : x \div b \in Nat /\ (x \div b) * b <= x /\ x < (x \div b) * b + b
  OBVIOUS
<1>2. ASSUME NEW q \in Nat, s <= q PROVE s * b <= q * b
  <2> DEFINE d == q - s
  <2>1. d \in Nat /\ q = s + d
    BY <1>2
  <2> HIDE DEF d
  <2>2. q * b = s * b + d * b /\ d * b \in Nat /\ s * b \in Nat
    BY <2>1, Product
  <2> QED BY <2>2
<1>3. ASSUME NEW q \in Nat, s > q PROVE q * b + b <= s * b
  <2> DEFINE d == s - q - 1
  <2>1. d \in Nat /\ s = q + 1 + d
    BY <1>3
  <2> HIDE DEF d
  <2>2. s * b = q * b + b + d * b /\ d * b \in Nat /\ q * b \in Nat
    BY <2>1, Product
  <2> QED BY <2>2
<1>4. s * b \in Nat /\ (s + 1) * b = s * b + b
  BY Product
<1>5. s * b <= c <=> s <= c \div b
  <2>1. PICK q \in Nat : q = c \div b /\ q * b <= c /\ c < q * b + b
    BY <1>1
  <2>2. q * b \in Nat
    BY Product
  <2>3. CASE s <= q
    <3>1. s * b <= q * b
      BY <1>2, <2>3
    <3> QED BY <1>4, <2>1, <2>2, <2>3, <3>1
  <2>4. CASE s > q
    <3>1. q * b + b <= s * b
      BY <1>3, <2>4
    <3> QED BY <1>4, <2>1, <2>2, <2>4, <3>1
  <2> QED BY <2>1, <2>3, <2>4
<1>6. (s * b) \div b = s
  <2>1. PICK q \in Nat : q = (s * b) \div b /\ q * b <= s * b /\ s * b < q * b + b
    BY <1>1, <1>4
  <2>2. q * b \in Nat
    BY Product
  <2>3. ~(s > q)
    BY <1>3, <1>4, <2>1, <2>2
  <2>4. ~(q > s)
    <3> SUFFICES ASSUME q > s PROVE FALSE
      OBVIOUS
    <3> DEFINE d == q - s - 1
    <3>1. d \in Nat /\ q = s + 1 + d
      OBVIOUS
    <3> HIDE DEF d
    <3>2. q * b = s * b + b + d * b /\ d * b \in Nat
      BY <3>1, Product
    <3> QED BY <1>4, <2>1, <2>2, <3>2
  <2> QED BY <2>1, <2>3, <2>4
<1> QED BY <1>1, <1>4, <1>5, <1>6

\* Where the loops work, a place in a zone is a number of requests.
LEMMA Places ==
    ASSUME IInv, Slots, Working
    PROVE  /\ Slot \in Nat /\ per_zone \in Nat /\ Slot <= per_zone
           /\ lba = Slot * g_num_io_block /\ (Fits <=> Slot < per_zone)
           /\ (lba + g_num_io_block) \div g_num_io_block = Slot + 1
           /\ lba + g_num_io_block = (Slot + 1) * g_num_io_block
<1> DEFINE b == g_num_io_block
           s == Slot
<1>1. b \in Nat \ {0} /\ dev.zcap \in Nat /\ lba \in 0 .. dev.zcap /\ per_zone = dev.zcap \div b
  BY InGroup DEF Working, per_zone
<1>2. s \in Nat
  BY <1>1 DEF Slot
<1>3. lba = s * b
  BY DEF Slots
<1> HIDE DEF b, s
<1>4. /\ per_zone \in Nat /\ (s * b <= dev.zcap <=> s <= per_zone)
      /\ s * b \in Nat /\ (s + 1) * b = s * b + b
  BY <1>1, <1>2, Quotient
<1>5. /\ (s + 1) * b <= dev.zcap <=> s + 1 <= per_zone
      /\ ((s + 1) * b) \div b = s + 1
  <2>1. s + 1 \in Nat
    BY <1>2
  <2> QED BY <1>1, <2>1, Quotient
<1>6. s <= per_zone
  BY <1>1, <1>3, <1>4
<1>7. (lba + b <= dev.zcap <=> s < per_zone) /\ (lba + b) \div b = s + 1 /\ lba + b = (s + 1) * b
  BY <1>2, <1>3, <1>4, <1>5
<1> QED BY <1>2, <1>3, <1>4, <1>6, <1>7 DEF Fits, b, s

\* A command that is sent counts for its kind and its zone.
LEMMA Counted ==
    ASSUME IInv, zone \in Zones, NEW op \in {"append", "read", "finish"},
           Submit(op), UNCHANGED <<Options, wp, rejected>>
    PROVE  /\ Len(cmds') = Len(cmds) + 1 /\ Len(cmds) \in Nat
           /\ \A name \in {"append", "read", "finish"} :
                 /\ Cardinality(Sent(name)) \in Nat
                 /\ Cardinality(Sent(name)') = Cardinality(Sent(name)) + IF op = name THEN 1 ELSE 0
           /\ \A z \in Zones, name \in {"append", "read", "finish"} :
                 /\ Cardinality(SentTo(name, z)) \in Nat
                 /\ Cardinality(SentTo(name, z)')
                      = Cardinality(SentTo(name, z)) + IF op = name /\ z = zone THEN 1 ELSE 0
<1>0. PICK n : n = Len(cmds) + 1
  OBVIOUS
<1>1. Typed /\ Exact /\ FinishAlone
  BY DEF IInv
<1>2. /\ n \notin DOMAIN cmds /\ DOMAIN cmds' = DOMAIN cmds \cup {n} /\ cmds' \in Seq(Command)
      /\ \A c \in DOMAIN cmds : cmds'[c] = cmds[c]
      /\ cmds'[n].op = op /\ cmds'[n].zone = zone
      /\ \A z \in Zones, name \in {"append", "read", "finish"} :
            SentTo(name, z)' = IF op = name /\ z = zone THEN SentTo(name, z) \cup {n}
                               ELSE SentTo(name, z)
  BY <1>0, <1>1, SubmitFacts
<1>3. IsFiniteSet(DOMAIN cmds) /\ Len(cmds) \in Nat /\ DOMAIN cmds = 1 .. Len(cmds)
  BY <1>1, Finite, FS_Interval
<1>4. Len(cmds') = Len(cmds) + 1
  BY <1>1 DEF Submit, Typed
<1>5. \A name \in {"append", "read", "finish"} :
          Sent(name)' = IF op = name THEN Sent(name) \cup {n} ELSE Sent(name)
  BY <1>2 DEF Sent
<1>6. \A name, z : Sent(name) \in SUBSET DOMAIN cmds /\ SentTo(name, z) \in SUBSET DOMAIN cmds
  BY DEF Sent, SentTo
<1>7. ASSUME NEW X \in SUBSET DOMAIN cmds
      PROVE  Cardinality(X) \in Nat /\ Cardinality(X \cup {n}) = Cardinality(X) + 1
  <2>1. IsFiniteSet(X) /\ n \notin X
    BY <1>2, <1>3, FS_Subset
  <2> QED BY <2>1, FS_AddElement, FS_CardinalityType
<1>8. ASSUME NEW name \in {"append", "read", "finish"}
      PROVE  /\ Cardinality(Sent(name)) \in Nat
             /\ Cardinality(Sent(name)') = Cardinality(Sent(name)) + IF op = name THEN 1 ELSE 0
  <2>1. Cardinality(Sent(name)) \in Nat
        /\ Cardinality(Sent(name) \cup {n}) = Cardinality(Sent(name)) + 1
    BY <1>6, <1>7
  <2>2. CASE op = name
    BY <1>5, <2>1, <2>2
  <2>3. CASE op # name
    BY <1>5, <2>1, <2>3
  <2> QED BY <2>2, <2>3
<1>9. ASSUME NEW z \in Zones, NEW name \in {"append", "read", "finish"}
      PROVE  /\ Cardinality(SentTo(name, z)) \in Nat
             /\ Cardinality(SentTo(name, z)')
                  = Cardinality(SentTo(name, z)) + IF op = name /\ z = zone THEN 1 ELSE 0
  <2>1. Cardinality(SentTo(name, z)) \in Nat
        /\ Cardinality(SentTo(name, z) \cup {n}) = Cardinality(SentTo(name, z)) + 1
    BY <1>6, <1>7
  <2>2. CASE op = name /\ z = zone
    BY <1>2, <2>1, <2>2
  <2>3. CASE ~(op = name /\ z = zone)
    BY <1>2, <2>1, <2>3
  <2> QED BY <2>2, <2>3
<1> QED BY <1>3, <1>4, <1>8, <1>9

\* The next word after one is a word, also when it wraps.
LEMMA Wraps == \A x \in Int : x % Word32 \in 0 .. Word32 - 1
BY WorkloadAssumption

\* A word wraps to itself.
LEMMA Fitted == \A x \in 0 .. Word32 - 1 : x % Word32 = x
BY WorkloadAssumption

\* The budgets stay words.
LEMMA WordsStep == IInv /\ Words /\ [Next]_vars => Words'
<1> SUFFICES ASSUME IInv, Words, [Next]_vars PROVE Words'
  OBVIOUS
<1> USE DEF optionVars, budgetVars, loopVars
<1>1. CASE ZnsInfo
  <2>1. /\ dev \in Devices /\ app \in {"zns", "opz"} /\ Typed
    BY DEF IInv, Typed
  <2>2. used_zones \in Nat /\ per_zone \in Nat
    BY <2>1, Sizes DEF used_zones, per_zone
  <2>3. used_zones * per_zone \in Nat
    BY <2>2, Product
  <2>4. UNCHANGED <<ratio, attached, write, read>>
    BY <1>1 DEF ZnsInfo
  <2>5. CASE UNCHANGED budgetVars
    BY <2>4, <2>5 DEF Words
  <2>6. CASE ~UNCHANGED budgetVars
    <3>1. /\ g_num_rw' = used_zones * per_zone
          /\ g_num_r' = Reads(g_num_rw') % Word32
          /\ g_num_w' = (g_num_rw' - g_num_r') % Word32
          /\ g_num_zone_r' = Reads(per_zone) % Word32
          /\ g_num_zone_w' = (per_zone - g_num_zone_r') % Word32
      BY <1>1, <2>6 DEF ZnsInfo
    <3>2. g_num_rw' \in Nat /\ Reads(g_num_rw') \in Nat /\ Reads(per_zone) \in Nat
      BY <2>2, <2>3, <3>1, ReadsFacts DEF Words
    <3>3. g_num_r' \in 0 .. Word32 - 1 /\ g_num_zone_r' \in 0 .. Word32 - 1
      BY <3>1, <3>2, Wraps
    <3>4. g_num_w' \in 0 .. Word32 - 1 /\ g_num_zone_w' \in 0 .. Word32 - 1
      <4>1. g_num_rw' - g_num_r' \in Int /\ per_zone - g_num_zone_r' \in Int
        BY <2>2, <3>2, <3>3
      <4> QED BY <3>1, <4>1, Wraps
    <3> QED BY <2>4, <3>2, <3>3, <3>4 DEF Words
  <2> QED BY <2>5, <2>6
<1>2. CASE SeqRequest
  <2>1. UNCHANGED <<ratio, attached, write, read, g_num_rw, g_num_zone_r, g_num_zone_w>>
    BY <1>2 DEF SeqRequest
  <2>2. g_num_w' \in 0 .. Word32 - 1 /\ g_num_r' \in 0 .. Word32 - 1
    <3>1. g_num_w \in 0 .. Word32 - 1 /\ g_num_r \in 0 .. Word32 - 1
      BY DEF Words
    <3>2. /\ g_num_w' = g_num_w \/ (g_num_w > 0 /\ g_num_w' = g_num_w - 1)
          /\ g_num_r' = g_num_r \/ (g_num_r > 0 /\ g_num_r' = g_num_r - 1)
      BY <1>2 DEF SeqRequest
    <3> QED BY <3>1, <3>2, WorkloadAssumption
  <2> QED BY <2>1, <2>2 DEF Words
<1>3. CASE RandRequest
  <2>1. UNCHANGED <<ratio, attached, g_num_rw, g_num_r, g_num_w, g_num_zone_r, g_num_zone_w>>
    BY <1>3 DEF RandRequest
  <2>2. write' \in 0 .. Word32 - 1 /\ read' \in 0 .. Word32 - 1
    <3>1. write \in 0 .. Word32 - 1 /\ read \in 0 .. Word32 - 1
      BY DEF Words
    <3>2. /\ write' = write \/ (write > 0 /\ write' = write - 1)
          /\ read' = read \/ read' = (read - 1) % Word32
      BY <1>3 DEF RandRequest
    <3>3. (read - 1) % Word32 \in 0 .. Word32 - 1
      <4>1. read - 1 \in Int
        BY <3>1
      <4> QED BY <4>1, Wraps
    <3> QED BY <3>1, <3>2, <3>3, WorkloadAssumption
  <2> QED BY <2>1, <2>2 DEF Words
<1>4. CASE CheckLoad \/ LoopDone
  <2>1. /\ UNCHANGED <<ratio, attached, g_num_rw, g_num_r, g_num_w, g_num_zone_r, g_num_zone_w>>
        /\ write' \in {write, g_num_zone_w} /\ read' \in {read, g_num_zone_r}
    BY <1>4 DEF CheckLoad, LoopDone
  <2> QED BY <2>1 DEF Words
<1>5. CASE Probe \/ AllocQpair \/ Report
  BY <1>5 DEF Words, Probe, AllocQpair, Report
<1>6. CASE SeqZoneEnd \/ SeqZoneFinish \/ SeqZoneNext
  BY <1>6 DEF Words, SeqZoneEnd, SeqZoneFinish, SeqZoneNext
<1>7. CASE RandRoundDone \/ RandRoundsEnd \/ RandFinish
  BY <1>7 DEF Words, RandRoundDone, RandRoundsEnd, RandFinish
<1>8. CASE Poll \/ GiveUp \/ Device
  BY <1>8 DEF Words, Poll, GiveUp, Device
<1>9. CASE UNCHANGED vars
  BY <1>9 DEF Words, vars
<1> QED BY <1>1, <1>2, <1>3, <1>4, <1>5, <1>6, <1>7, <1>8, <1>9 DEF Next, Main, Terminated

\* What the options determine does not change.
LEMMA Geometry ==
    ASSUME UNCHANGED optionVars
    PROVE  /\ UNCHANGED Options /\ ratio' = ratio /\ per_zone' = per_zone
           /\ used_zones' = used_zones /\ groups' = groups /\ Zones' = Zones
           /\ Reads(per_zone)' = Reads(per_zone)
           /\ Countable(per_zone)' <=> Countable(per_zone)
           /\ UNCHANGED g_num_rw => /\ Reads(g_num_rw)' = Reads(g_num_rw)
                                    /\ Countable(g_num_rw)' <=> Countable(g_num_rw)
<1> USE DEF optionVars
<1>1. UNCHANGED Options /\ ratio' = ratio /\ per_zone' = per_zone
  BY DEF Options, per_zone
<1>2. used_zones' = used_zones /\ groups' = groups /\ Zones' = Zones
  BY DEF used_zones, groups, Zones
<1>3. Reads(per_zone)' = Reads(per_zone) /\ (Countable(per_zone)' <=> Countable(per_zone))
  BY <1>1 DEF Countable, Reads
<1>4. UNCHANGED g_num_rw => /\ Reads(g_num_rw)' = Reads(g_num_rw)
                            /\ Countable(g_num_rw)' <=> Countable(g_num_rw)
  BY DEF Countable, Reads
<1> QED BY <1>1, <1>2, <1>3, <1>4

\* The plan is made once, and what send_seq does to it starts from there.
LEMMA PlanStep == IInv /\ Plan /\ [Next]_vars => Plan'
<1> SUFFICES ASSUME IInv, Plan, [Next]_vars, pc' = "check" \/ Loading' PROVE Plan'
  BY DEF Plan
<1>1. pc' \notin Final /\ pc' \notin {"start", "alloc", "info"}
  BY DEF Loading, Final
<1>2. UNCHANGED optionVars
  BY DEF Next, Main, Probe, AllocQpair, ZnsInfo, CheckLoad, SeqRequest, SeqZoneEnd, SeqZoneFinish,
     SeqZoneNext, RandRequest, RandRoundDone, RandRoundsEnd, RandFinish, LoopDone, Poll, GiveUp,
     Report, Device, Terminated, vars
<1>3. /\ per_zone' = per_zone /\ used_zones' = used_zones /\ dev' = dev
      /\ Reads(per_zone)' = Reads(per_zone)
      /\ UNCHANGED g_num_rw => Reads(g_num_rw)' = Reads(g_num_rw)
  BY <1>2, Geometry DEF optionVars
<1>4. CASE ZnsInfo
  <2>1. pc' = "check"
    BY <1>1, <1>4 DEF ZnsInfo, Final
  <2>2. dev.zoned =>
          /\ g_num_rw' = used_zones * per_zone
          /\ g_num_r' = Reads(g_num_rw') % Word32
          /\ g_num_w' = (g_num_rw' - g_num_r') % Word32
          /\ g_num_zone_r' = Reads(per_zone) % Word32
          /\ g_num_zone_w' = (per_zone - g_num_zone_r') % Word32
    BY <1>4, <2>1 DEF ZnsInfo
  <2>3. Reads(g_num_rw)' = Reads(g_num_rw')
    BY <1>2 DEF Reads, optionVars
  <2> QED BY <1>3, <2>1, <2>2, <2>3 DEF Plan, Loading
<1>5. CASE CheckLoad
  <2>1. dev.zoned /\ pc = "check" /\ UNCHANGED <<g_num_rw, g_num_zone_r, g_num_zone_w>>
        /\ pc' # "check"
    BY <1>1, <1>5 DEF CheckLoad, Final, budgetVars
  <2> QED BY <1>3, <2>1 DEF Plan
<1>6. ASSUME UNCHANGED <<g_num_rw, g_num_zone_r, g_num_zone_w>>, Loading, Loading' PROVE Plan'
  <2>1. pc' # "check"
    BY <1>6 DEF Loading
  <2> QED BY <1>3, <1>6, <2>1 DEF Plan
<1>7. ASSUME UNCHANGED <<budgetVars, pc>> PROVE Plan'
  BY <1>3, <1>7 DEF Plan, Loading, budgetVars
<1> USE DEF budgetVars
<1>8. CASE Probe \/ AllocQpair \/ GiveUp \/ Report
  BY <1>1, <1>8 DEF Probe, AllocQpair, GiveUp, Report, Final
<1>9. CASE SeqRequest \/ SeqZoneEnd
  BY <1>6, <1>9 DEF SeqRequest, SeqZoneEnd, Loading
<1>10. CASE SeqZoneFinish \/ SeqZoneNext
  BY <1>6, <1>10 DEF SeqZoneFinish, SeqZoneNext, NextZone, Loading
<1>11. CASE RandRequest \/ RandRoundDone \/ RandRoundsEnd \/ RandFinish
  BY <1>6, <1>11 DEF RandRequest, RandRoundDone, RandRoundsEnd, RandFinish, Loading
<1>12. CASE LoopDone
  BY <1>6, <1>12 DEF LoopDone, Loading
<1>13. CASE Poll \/ Device \/ UNCHANGED vars
  BY <1>7, <1>13 DEF Poll, Device, vars
<1> QED BY <1>4, <1>5, <1>8, <1>9, <1>10, <1>11, <1>12, <1>13 DEF Next, Main, Terminated

\* The parts of the invariant that follow the loops.
Loops == Slots /\ SeqBudget /\ RandBudget

\* What they depend on.
Place == <<optionVars, pc, budgetVars, loopVars, cmds>>

\* A step of the device, a poll and the end of the program leave the account.
LEMMA LoopsRest ==
    ASSUME Loops, UNCHANGED Place \/ ~Working'
    PROVE  Loops'
<1>1. CASE ~Working'
  BY <1>1 DEF Loops, Slots, SeqBudget, RandBudget
<1>2. CASE UNCHANGED Place
  <2> USE DEF Place, budgetVars, loopVars
  <2>1. /\ dev' = dev /\ app' = app /\ g_access_rand' = g_access_rand
        /\ g_num_io_block' = g_num_io_block /\ per_zone' = per_zone /\ Zones' = Zones
        /\ Reads(g_num_rw)' = Reads(g_num_rw)
        /\ Countable(g_num_rw)' <=> Countable(g_num_rw)
        /\ Countable(per_zone)' <=> Countable(per_zone)
    BY <1>2, Geometry DEF Options
  <2>2. /\ Working' <=> Working
        /\ First' = First /\ Slot' = Slot
        /\ \A op : Sent(op)' = Sent(op)
        /\ \A op, z : SentTo(op, z)' = SentTo(op, z)
    BY <1>2, <2>1 DEF Working, Loading, First, Slot, Sent, SentTo
  <2>3. Served' = Served /\ Closed' = Closed
    BY <1>2, <2>1, <2>2 DEF Served, Closed
  <2>4. \A op, z : Share(op, z)' = Share(op, z)
    BY <1>2, <2>1, <2>2 DEF Share, Planned, Left, Turn
  <2>5. Slots'
    BY <1>2, <2>1, <2>2 DEF Loops, Slots
  <2>6. SeqBudget'
    BY <1>2, <2>1, <2>2, <2>3 DEF Loops, SeqBudget
  <2>7. RandBudget'
    BY <1>2, <2>1, <2>2, <2>3, <2>4 DEF Loops, RandBudget
  <2> QED BY <2>5, <2>6, <2>7 DEF Loops
<1> QED BY <1>1, <1>2

\* There is no occasion for a request beyond the zones in use.
LEMMA Occasions ==
    ASSUME NEW u \in Nat, NEW z \in Nat, NEW p \in Nat, NEW s \in Nat, z + 1 <= u, s < p
    PROVE  z * p + s \in Nat /\ z * p + s < u * p /\ (z + 1) * p = z * p + p
<1> DEFINE d == u - (z + 1)
<1>1. d \in Nat /\ u = z + 1 + d
  OBVIOUS
<1> HIDE DEF d
<1>2. u * p = z * p + p + d * p /\ d * p \in Nat /\ z * p \in Nat
  BY <1>1, Product
<1>3. (z + 1) * p = z * p + p
  BY Product
<1> QED BY <1>2, <1>3

\* The zones of the group are zones in use.
LEMMA ZonesInUse ==
    ASSUME IInv, Working
    PROVE  /\ used_zones \in Nat /\ groups \in Nat /\ loop \in Nat /\ loop < groups
           /\ First + dev.max_open <= used_zones /\ zone + 1 <= used_zones
           /\ app = "opz" => First = 0 /\ used_zones = dev.max_open
           /\ app = "zns" => used_zones = dev.num_zone
<1>1. /\ First \in Nat /\ First + dev.max_open <= dev.num_zone
      /\ zone \in First .. First + dev.max_open - 1 /\ zone \in Nat
      /\ dev.max_open \in Nat /\ dev.num_zone \in Nat
  BY InGroup DEF Working
<1>2. loop \in Nat /\ loop < groups /\ app \in {"zns", "opz"}
  BY DEF IInv, Typed, Working, Position
<1>3. CASE app = "opz"
  <2>1. groups = 1 /\ used_zones = dev.max_open
    BY <1>3 DEF groups, used_zones
  <2>2. loop = 0
    BY <1>2, <2>1
  <2>3. First = 0
    BY <1>1, <2>2 DEF First
  <2> QED BY <1>1, <1>2, <1>3, <2>1, <2>3
<1>4. CASE app = "zns"
  <2>1. groups = dev.num_zone \div dev.max_open /\ used_zones = dev.num_zone
    BY <1>4 DEF groups, used_zones
  <2>2. groups \in Nat
    BY <1>1, <2>1 DEF Working
  <2> QED BY <1>1, <1>2, <1>4, <2>1, <2>2
<1> QED BY <1>2, <1>3, <1>4

\* Sequential load: a request moves one from the budgets to the device.
LEMMA SeqRequestLoops == IInv /\ Words /\ Plan /\ Loops /\ SeqRequest => Loops'
<1> SUFFICES ASSUME IInv, Words, Plan, Loops, SeqRequest PROVE Loops'
  OBVIOUS
<1>1. /\ pc = "request" /\ ~g_access_rand /\ Fits /\ Working /\ pc' = pc
      /\ UNCHANGED <<optionVars, wp, rejected, g_num_rw, loop, zone>>
      /\ lba' = lba + g_num_io_block /\ dev.zoned
  <2>1. /\ pc = "request" /\ ~g_access_rand /\ Fits /\ Loading /\ pc' = pc
        /\ UNCHANGED <<optionVars, wp, rejected, g_num_rw, loop, zone>>
        /\ lba' = lba + g_num_io_block
    BY DEF SeqRequest, Loading, deviceVars
  <2>2. dev.max_open > 0
    BY <2>1, Sizes DEF IInv, Position
  <2> QED BY <2>1, <2>2 DEF Working, Plan
<1>2. /\ UNCHANGED Options /\ per_zone' = per_zone /\ Reads(g_num_rw)' = Reads(g_num_rw)
      /\ Countable(g_num_rw)' <=> Countable(g_num_rw)
      /\ g_access_rand' = g_access_rand /\ app' = app /\ dev' = dev
      /\ g_num_io_block' = g_num_io_block
  BY <1>1, Geometry DEF optionVars
<1>3. /\ Slot \in Nat /\ per_zone \in Nat /\ Slot < per_zone
      /\ (lba + g_num_io_block) \div g_num_io_block = Slot + 1
      /\ lba + g_num_io_block = (Slot + 1) * g_num_io_block
  BY <1>1, Places DEF Loops
<1>4. Slot' = Slot + 1
  BY <1>1, <1>2, <1>3 DEF Slot
<1>5. zone \in Nat /\ zone \in Zones
  BY <1>1, InGroup DEF Working
<1>6. Slots'
  BY <1>1, <1>2, <1>3, <1>4 DEF Slots
<1>7. RandBudget'
  BY <1>1, <1>2 DEF RandBudget
<1>8. SeqBudget'
  <2> SUFFICES ASSUME Countable(g_num_rw) PROVE SeqBudget'
    BY <1>2 DEF SeqBudget
  <2>1. /\ Served + g_num_w + g_num_r = g_num_rw
        /\ Len(cmds) = Served + Closed
        /\ Cardinality(Sent("read")) + g_num_r = Reads(g_num_rw)
        /\ Cardinality(Sent("append")) + g_num_w = g_num_rw - Reads(g_num_rw)
    BY <1>1 DEF Loops, SeqBudget
  <2>2. Served = zone * per_zone + Slot /\ Served' = zone * per_zone + (Slot + 1)
    BY <1>1, <1>2, <1>4 DEF Served
  <2>3. used_zones \in Nat /\ zone + 1 <= used_zones
    BY <1>1, ZonesInUse
  <2>4. Served \in Nat /\ Served < used_zones * per_zone
    BY <1>3, <1>5, <2>2, <2>3, Occasions
  <2>5. zone * per_zone \in Nat
    BY <1>3, <1>5, Product
  <2>6. Served' = Served + 1
    BY <1>3, <2>2, <2>5
  <2>7. g_num_rw = used_zones * per_zone
    BY <1>1 DEF Plan, Loading
  <2>8. g_num_w \in Nat /\ g_num_r \in Nat /\ g_num_rw \in Nat /\ Reads(g_num_rw) \in Nat
    BY ReadsFacts DEF Words
  <2>9. Closed' = Closed
    BY <1>1, <1>2 DEF Closed, First
  <2>10. \/ g_num_w > 0 /\ Submit("append") /\ g_num_w' = g_num_w - 1 /\ g_num_r' = g_num_r
         \/ g_num_r > 0 /\ Submit("read") /\ g_num_r' = g_num_r - 1 /\ g_num_w' = g_num_w
    <3>1. ~(g_num_w = 0 /\ g_num_r = 0)
      BY <2>1, <2>4, <2>7, <2>8
    <3> QED BY <2>8, <3>1 DEF SeqRequest, append_zone, read_block
  <2>11. /\ Served' + g_num_w' + g_num_r' = g_num_rw
         /\ Len(cmds') = Served' + Closed'
         /\ Cardinality(Sent("read")') + g_num_r' = Reads(g_num_rw)
         /\ Cardinality(Sent("append")') + g_num_w' = g_num_rw - Reads(g_num_rw)
    <3>0. Closed \in Nat
      <4>1. /\ First \in Nat /\ dev.max_open \in Nat
        BY <1>1, InGroup DEF Working
      <4> QED BY <1>1, <1>5, <4>1 DEF Closed
    <3>1. CASE g_num_w > 0 /\ Submit("append") /\ g_num_w' = g_num_w - 1 /\ g_num_r' = g_num_r
      <4>1. /\ Len(cmds') = Len(cmds) + 1 /\ Cardinality(Sent("append")) \in Nat
            /\ Cardinality(Sent("append")') = Cardinality(Sent("append")) + 1
            /\ Cardinality(Sent("read")') = Cardinality(Sent("read"))
        BY <1>1, <1>2, <1>5, <3>1, Counted
      <4> QED BY <2>1, <2>4, <2>6, <2>8, <2>9, <3>0, <3>1, <4>1
    <3>2. CASE g_num_r > 0 /\ Submit("read") /\ g_num_r' = g_num_r - 1 /\ g_num_w' = g_num_w
      <4>1. /\ Len(cmds') = Len(cmds) + 1 /\ Cardinality(Sent("read")) \in Nat
            /\ Cardinality(Sent("read")') = Cardinality(Sent("read")) + 1
            /\ Cardinality(Sent("append")') = Cardinality(Sent("append"))
        BY <1>1, <1>2, <1>5, <3>2, Counted
      <4> QED BY <2>1, <2>4, <2>6, <2>8, <2>9, <3>0, <3>2, <4>1
    <3> QED BY <2>10, <3>1, <3>2
  <2> QED BY <1>1, <1>2, <2>11 DEF SeqBudget
<1> QED BY <1>6, <1>7, <1>8 DEF Loops

\* Sequential load: the end of a zone.
LEMMA SeqZoneEndLoops == IInv /\ Loops /\ SeqZoneEnd => Loops'
<1> SUFFICES ASSUME IInv, Loops, SeqZoneEnd PROVE Loops'
  OBVIOUS
<1>1. /\ pc = "request" /\ ~g_access_rand /\ ~Fits /\ Loading /\ pc' = "drain" /\ Loading'
      /\ UNCHANGED <<optionVars, budgetVars, loop, zone, lba, cmds>>
  BY DEF SeqZoneEnd, Loading, loopVars, ioVars
<1>2. Working
  BY <1>1, Sizes DEF IInv, Position, Working
<1>3. /\ UNCHANGED Options /\ per_zone' = per_zone /\ Reads(g_num_rw)' = Reads(g_num_rw)
      /\ Countable(g_num_rw)' <=> Countable(g_num_rw)
      /\ g_access_rand' = g_access_rand /\ app' = app /\ dev' = dev
      /\ g_num_io_block' = g_num_io_block
  BY <1>1, Geometry DEF optionVars, budgetVars
<1>4. Slot \in Nat /\ per_zone \in Nat /\ Slot = per_zone /\ Slot' = Slot
  <2>1. Slot \in Nat /\ per_zone \in Nat /\ Slot <= per_zone /\ ~(Slot < per_zone)
    BY <1>1, <1>2, Places DEF Loops
  <2> QED BY <1>1, <1>3, <2>1 DEF Slot
<1>5. Slots'
  BY <1>1, <1>2, <1>3, <1>4 DEF Loops, Slots
<1>6. Served' = Served /\ Closed' = Closed /\ \A op : Sent(op)' = Sent(op)
  BY <1>1, <1>3, <1>4 DEF Served, Closed, First, Sent
<1>7. SeqBudget' /\ RandBudget'
  BY <1>1, <1>2, <1>3, <1>6 DEF Loops, SeqBudget, RandBudget, budgetVars
<1> QED BY <1>5, <1>7 DEF Loops

\* Sequential load: the next zone, after the finish command of the last or without
\* one.
LEMMA SeqZoneFinishLoops == IInv /\ Loops /\ (SeqZoneFinish \/ SeqZoneNext) => Loops'
<1> SUFFICES ASSUME IInv, Loops, SeqZoneFinish \/ SeqZoneNext PROVE Loops'
  OBVIOUS
<1> DEFINE end == IF app = "zns" THEN "loop" ELSE "report"
<1>1. /\ pc = "drain" /\ ~g_access_rand /\ Loading
      /\ UNCHANGED <<optionVars, wp, rejected, budgetVars, loop>>
      /\ NextZone(end)
      /\ IF app = "zns" THEN Submit("finish") ELSE UNCHANGED cmds
  BY DEF SeqZoneFinish, SeqZoneNext, Loading, deviceVars, Nothing, ioVars, finish_zone
<1>2. Working
  BY <1>1, Sizes DEF IInv, Position, Working
<1>3. /\ UNCHANGED Options /\ per_zone' = per_zone /\ Reads(g_num_rw)' = Reads(g_num_rw)
      /\ Countable(g_num_rw)' <=> Countable(g_num_rw)
      /\ g_access_rand' = g_access_rand /\ app' = app /\ dev' = dev
      /\ g_num_io_block' = g_num_io_block /\ First' = First
  BY <1>1, Geometry DEF optionVars, budgetVars, First
<1>4. /\ First \in Nat /\ zone \in First .. First + dev.max_open - 1 /\ zone \in Nat
      /\ zone \in Zones /\ Group = First .. First + dev.max_open - 1
      /\ dev.max_open \in Nat /\ g_num_io_block \in Nat \ {0}
  BY <1>2, InGroup DEF Working
<1>5. \/ zone' = zone + 1 /\ lba' = 0 /\ pc' = "request"
      \/ zone' = zone /\ lba' = lba /\ pc' = end /\ zone = First + dev.max_open - 1
  BY <1>1, <1>4 DEF NextZone
<1>6. Slot \in Nat /\ per_zone \in Nat /\ Slot = per_zone /\ lba = Slot * g_num_io_block
  <2>1. Slot \in Nat /\ per_zone \in Nat /\ lba = Slot * g_num_io_block
    BY <1>2, Places DEF Loops
  <2> QED BY <1>1, <1>2, <2>1 DEF Loops, Slots
<1>7. pc' = "request" => Slot' = 0 /\ lba' = 0 * g_num_io_block /\ zone' = zone + 1
  BY <1>3, <1>4, <1>5 DEF Slot
<1>8. pc' # "request" =>
          Slot' = Slot /\ lba' = lba /\ zone' = zone /\ zone + 1 = First + dev.max_open
          /\ pc' = end
  BY <1>3, <1>4, <1>5 DEF Slot
<1>9. Slots'
  BY <1>1, <1>3, <1>6, <1>7, <1>8 DEF Slots
<1>10. RandBudget'
  BY <1>1, <1>3 DEF RandBudget
<1>11. Served \in Nat /\ Served' = Served
  <2>1. Served = zone * per_zone + Slot /\ zone * per_zone \in Nat
    BY <1>1, <1>4, <1>6, Product DEF Served
  <2>2. CASE pc' = "request"
    <3>1. Served' = (zone + 1) * per_zone + 0
      BY <1>1, <1>3, <1>7, <2>2 DEF Served
    <3>2. (zone + 1) * per_zone = zone * per_zone + per_zone
      BY <1>4, <1>6, Product
    <3> QED BY <1>6, <2>1, <3>1, <3>2
  <2>3. CASE pc' # "request"
    <3>1. Served' = zone * per_zone + Slot
      BY <1>1, <1>3, <1>8, <2>3 DEF Served
    <3> QED BY <1>6, <2>1, <3>1
  <2> QED BY <2>2, <2>3
<1>12. /\ Len(cmds) \in Nat
       /\ Len(cmds') = Len(cmds) + (IF app = "zns" THEN 1 ELSE 0)
       /\ Cardinality(Sent("read")') = Cardinality(Sent("read"))
       /\ Cardinality(Sent("append")') = Cardinality(Sent("append"))
  <2>1. CASE app = "zns"
    <3>1. /\ Len(cmds') = Len(cmds) + 1 /\ Len(cmds) \in Nat
          /\ Cardinality(Sent("read")') = Cardinality(Sent("read")) + 0
          /\ Cardinality(Sent("append")') = Cardinality(Sent("append")) + 0
          /\ Cardinality(Sent("read")) \in Nat /\ Cardinality(Sent("append")) \in Nat
      BY <1>1, <1>3, <1>4, <2>1, Counted
    <3> QED BY <2>1, <3>1
  <2>2. CASE app # "zns"
    <3>1. cmds' = cmds /\ Len(cmds) \in Nat
      BY <1>1, <2>2, Finite DEF IInv
    <3>2. \A op : Sent(op)' = Sent(op)
      BY <3>1 DEF Sent
    <3> QED BY <2>2, <3>1, <3>2
  <2> QED BY <2>1, <2>2
<1>13. Closed \in Nat /\ Closed' = Closed + (IF app = "zns" THEN 1 ELSE 0)
  <2>1. app \in {"zns", "opz"}
    BY DEF IInv, Typed
  <2>2. CASE app = "opz"
    BY <1>3, <2>2 DEF Closed
  <2>3. CASE app = "zns"
    <3>1. Closed = zone
      BY <1>1, <2>3 DEF Closed
    <3>2. Closed' = zone + 1
      <4>1. CASE pc' = "request"
        BY <1>1, <1>3, <1>7, <2>3, <4>1 DEF Closed
      <4>2. CASE pc' # "request"
        BY <1>1, <1>3, <1>8, <2>3, <4>2 DEF Closed
      <4> QED BY <4>1, <4>2
    <3> QED BY <1>4, <2>3, <3>1, <3>2
  <2> QED BY <2>1, <2>2, <2>3
<1>14. SeqBudget'
  <2> SUFFICES ASSUME Countable(g_num_rw) PROVE SeqBudget'
    BY <1>3 DEF SeqBudget
  <2>1. /\ Served + g_num_w + g_num_r = g_num_rw
        /\ Len(cmds) = Served + Closed
        /\ Cardinality(Sent("read")) + g_num_r = Reads(g_num_rw)
        /\ Cardinality(Sent("append")) + g_num_w = g_num_rw - Reads(g_num_rw)
    BY <1>1, <1>2 DEF Loops, SeqBudget
  <2>2. Len(cmds') = Served' + Closed'
    BY <1>11, <1>12, <1>13, <2>1
  <2>3. g_num_w' = g_num_w /\ g_num_r' = g_num_r /\ g_num_rw' = g_num_rw
    BY <1>1 DEF budgetVars
  <2> QED BY <1>3, <1>11, <1>12, <2>1, <2>2, <2>3 DEF SeqBudget
<1> QED BY <1>9, <1>10, <1>14 DEF Loops

\* What a random load knows of its budgets.
LEMMA RandFacts ==
    ASSUME IInv, Words, Plan, Loops, Working, g_access_rand
    PROVE  /\ write \in Nat /\ read \in Nat /\ g_num_zone_r \in Nat /\ g_num_zone_w \in Nat
           /\ Served \in Nat /\ Closed \in Nat
           /\ First \in Nat /\ zone \in First .. First + dev.max_open - 1 /\ zone \in Nat
           /\ zone \in Zones /\ Group = First .. First + dev.max_open - 1
           /\ dev.max_open \in Nat \ {0} /\ g_num_io_block \in Nat \ {0}
           /\ \A z \in Zones : z \in Nat
           /\ Slot \in Nat /\ per_zone \in Nat /\ Slot <= per_zone
           /\ First * per_zone \in Nat /\ Slot * dev.max_open \in Nat
           /\ per_zone * dev.max_open \in Nat
           /\ (Slot + 1) * dev.max_open = Slot * dev.max_open + dev.max_open
           /\ Countable(per_zone) => g_num_zone_r + g_num_zone_w = per_zone
<1>1. /\ First \in Nat /\ zone \in First .. First + dev.max_open - 1 /\ zone \in Nat
      /\ zone \in Zones /\ Group = First .. First + dev.max_open - 1
      /\ dev.max_open \in Nat \ {0} /\ g_num_io_block \in Nat \ {0}
      /\ \A z \in Zones : z \in Nat
  BY InGroup DEF Working
<1>2. Slot \in Nat /\ per_zone \in Nat /\ Slot <= per_zone
  BY Places DEF Loops
<1>3. /\ First * per_zone \in Nat /\ Slot * dev.max_open \in Nat
      /\ per_zone * dev.max_open \in Nat
      /\ (Slot + 1) * dev.max_open = Slot * dev.max_open + dev.max_open
  BY <1>1, <1>2, Product
<1>4. write \in Nat /\ read \in Nat /\ g_num_zone_r \in Nat /\ g_num_zone_w \in Nat
  BY WorkloadAssumption DEF Words
<1>5. Served \in Nat /\ Closed \in Nat
  <2>1. zone - First \in Nat
    BY <1>1
  <2>2. Served \in Nat
    BY <1>3, <1>1, <2>1 DEF Served
  <2>3. Closed \in Nat
    BY <1>1 DEF Closed
  <2> QED BY <2>2, <2>3
<1>6. ASSUME Countable(per_zone) PROVE g_num_zone_r + g_num_zone_w = per_zone
  <2>1. PICK r : r = Reads(per_zone)
    OBVIOUS
  <2>2. r \in Nat /\ r <= per_zone /\ per_zone < Word32 /\ Word32 \in Nat \ {0}
    BY <1>2, <1>6, <2>1, ReadsFacts, WorkloadAssumption DEF Countable, Words
  <2>3. r % Word32 = r /\ (per_zone - r) % Word32 = per_zone - r
    BY <1>2, <2>2
  <2>4. g_num_zone_r = r % Word32 /\ g_num_zone_w = (per_zone - g_num_zone_r) % Word32
    BY <2>1 DEF Plan, Working
  <2> QED BY <1>2, <2>2, <2>3, <2>4
<1> QED BY <1>1, <1>2, <1>3, <1>4, <1>5, <1>6

\* What each step of a random load leaves alone.
LEMMA RandSame ==
    ASSUME UNCHANGED <<optionVars, budgetVars, loop>>
    PROVE  /\ UNCHANGED Options /\ per_zone' = per_zone /\ Zones' = Zones
           /\ Countable(per_zone)' <=> Countable(per_zone)
           /\ g_access_rand' = g_access_rand /\ app' = app /\ dev' = dev
           /\ g_num_io_block' = g_num_io_block /\ First' = First
           /\ g_num_zone_r' = g_num_zone_r /\ g_num_zone_w' = g_num_zone_w
BY Geometry DEF optionVars, budgetVars, First

\* Random load: the request of one zone in a round.
LEMMA RandRequestLoops == IInv /\ Words /\ Plan /\ Loops /\ RandRequest => Loops'
<1> SUFFICES ASSUME IInv, Words, Plan, Loops, RandRequest PROVE Loops'
  OBVIOUS
<1>1. /\ pc = "request" /\ g_access_rand /\ Fits /\ Loading
      /\ UNCHANGED <<optionVars, wp, rejected, budgetVars, loop, lba>>
      /\ \/ zone + 1 \in Group /\ zone' = zone + 1 /\ pc' = pc /\ UNCHANGED <<write, read>>
         \/ /\ zone + 1 \notin Group /\ zone' = zone /\ pc' = "drain"
            /\ IF write > 0 THEN write' = write - 1 /\ read' = read
               ELSE read' = (read - 1) % Word32 /\ write' = write
  BY DEF RandRequest, Loading, deviceVars
<1>2. Working
  BY <1>1, Sizes DEF IInv, Position, Working
<1>3. /\ UNCHANGED Options /\ per_zone' = per_zone /\ Zones' = Zones
      /\ Countable(per_zone)' <=> Countable(per_zone)
      /\ g_access_rand' = g_access_rand /\ app' = app /\ dev' = dev
      /\ g_num_io_block' = g_num_io_block /\ First' = First
      /\ g_num_zone_r' = g_num_zone_r /\ g_num_zone_w' = g_num_zone_w
  BY <1>1, RandSame
<1>4. /\ write \in Nat /\ read \in Nat /\ g_num_zone_r \in Nat /\ g_num_zone_w \in Nat
      /\ Served \in Nat /\ Closed \in Nat
      /\ First \in Nat /\ zone \in First .. First + dev.max_open - 1 /\ zone \in Nat
      /\ zone \in Zones /\ Group = First .. First + dev.max_open - 1
      /\ dev.max_open \in Nat \ {0}
      /\ \A z \in Zones : z \in Nat
      /\ Slot \in Nat /\ per_zone \in Nat
      /\ First * per_zone \in Nat /\ Slot * dev.max_open \in Nat
      /\ (Slot + 1) * dev.max_open = Slot * dev.max_open + dev.max_open
  BY <1>1, <1>2, RandFacts
<1>5. Slot < per_zone /\ Slot' = Slot
  <2>1. Slot < per_zone
    BY <1>1, <1>2, Places DEF Loops
  <2> QED BY <1>1, <1>3, <2>1 DEF Slot
<1>6. Slots'
  <2>1. lba' = Slot' * g_num_io_block'
    BY <1>1, <1>2, <1>3, <1>5 DEF Loops, Slots
  <2> QED BY <1>1, <1>3, <2>1 DEF Slots
<1>7. SeqBudget'
  BY <1>1, <1>3 DEF SeqBudget
<1>8. RandBudget'
  <2> SUFFICES ASSUME Countable(per_zone) PROVE RandBudget'
    BY <1>3 DEF RandBudget
  <2>1. /\ Len(cmds) = Served + Closed
        /\ write + read + Slot = per_zone
        /\ write <= g_num_zone_w /\ read <= g_num_zone_r
        /\ \A z \in Zones, op \in {"read", "append"} : Cardinality(SentTo(op, z)) = Share(op, z)
    <3>1. write + read + Slot + 0 = per_zone
      BY <1>1, <1>2 DEF Loops, RandBudget
    <3> QED BY <1>1, <1>2, <1>4, <3>1 DEF Loops, RandBudget
  <2>2. ~(write = 0 /\ read = 0)
    BY <1>4, <1>5, <2>1
  <2>3. PICK now \in {"read", "append"} : Submit(now) /\ now = IF write > 0 THEN "append" ELSE "read"
    BY <1>4, <2>2 DEF RandRequest, append_zone, read_block
  <2>4. Turn(now) /\ \A op \in {"read", "append"} : Turn(op) => op = now
    BY <2>3 DEF Turn
  <2>5. /\ Len(cmds') = Len(cmds) + 1 /\ Len(cmds) \in Nat
        /\ \A z \in Zones, op \in {"append", "read", "finish"} :
              /\ Cardinality(SentTo(op, z)) \in Nat
              /\ Cardinality(SentTo(op, z)')
                   = Cardinality(SentTo(op, z)) + IF now = op /\ z = zone THEN 1 ELSE 0
    BY <1>1, <1>3, <1>4, <2>3, Counted
  <2>6. Closed' = Closed
    BY <1>1, <1>3 DEF Closed
  <2>7. Left(now) \in Nat /\ Left(now) > 0
    BY <1>4, <2>2, <2>3 DEF Left
  <2>8. CASE zone + 1 \in Group
    <3>1. zone' = zone + 1 /\ pc' = "request" /\ write' = write /\ read' = read
      BY <1>1, <2>8
    <3>2. Served' = Served + 1
      <4>1. Served = First * per_zone + (Slot * dev.max_open + (zone - First))
        BY <1>1 DEF Served
      <4>2. Served' = First * per_zone + (Slot * dev.max_open + (zone' - First))
        BY <1>1, <1>3, <1>5, <3>1 DEF Served
      <4>3. PICK x, y : x = First * per_zone /\ y = Slot * dev.max_open
        OBVIOUS
      <4>4. /\ x \in Nat /\ y \in Nat /\ zone \in Nat /\ First \in Nat
            /\ (Slot + 1) * dev.max_open = y + dev.max_open /\ dev.max_open \in Nat
        BY <1>4, <4>3
      <4> QED BY ONLY <3>1, <4>1, <4>2, <4>3, <4>4
    <3>3. Len(cmds') = Served' + Closed'
      BY <1>4, <2>1, <2>5, <2>6, <3>2
    <3>4. ASSUME NEW z \in Zones, NEW op \in {"read", "append"}
          PROVE  Cardinality(SentTo(op, z)') = Share(op, z)'
      <4>1. Turn(op)' = Turn(op) /\ Planned(op)' = Planned(op) /\ Left(op)' = Left(op)
        BY <1>3, <3>1 DEF Turn, Planned, Left
      <4>2. Planned(op) - Left(op) \in Int /\ z \in Nat
        BY <1>4 DEF Planned, Left
      <4>3. CASE z = zone /\ op = now
        <5>1. Share(op, z) = Planned(op) - Left(op) + 0
          BY <1>4, <4>3 DEF Share
        <5>2. Share(op, z)' = Planned(op) - Left(op) + 1
          BY <1>3, <1>4, <2>4, <3>1, <4>1, <4>3 DEF Share
        <5>3. Cardinality(SentTo(op, z)') = Cardinality(SentTo(op, z)) + 1
          BY <2>5, <4>3
        <5> QED BY <2>1, <4>2, <5>1, <5>2, <5>3
      <4>4. CASE ~(z = zone /\ op = now)
        <5>1. Share(op, z)' = Share(op, z)
          <6>1. (z < zone + 1 /\ Turn(op)) <=> (z < zone /\ Turn(op))
            BY <1>4, <2>4, <4>2, <4>4
          <6>2. Share(op, z)' = IF z >= First + dev.max_open THEN 0
                                ELSE IF z < First THEN Planned(op)
                                ELSE Planned(op) - Left(op) + (IF z < zone + 1 /\ Turn(op) THEN 1 ELSE 0)
            BY <1>3, <3>1, <4>1 DEF Share
          <6>3. Share(op, z) = IF z >= First + dev.max_open THEN 0
                               ELSE IF z < First THEN Planned(op)
                               ELSE Planned(op) - Left(op) + (IF z < zone /\ Turn(op) THEN 1 ELSE 0)
            BY <1>1 DEF Share
          <6> QED BY <6>1, <6>2, <6>3
        <5>2. Cardinality(SentTo(op, z)') = Cardinality(SentTo(op, z)) + 0
          BY <2>5, <4>4
        <5>3. Cardinality(SentTo(op, z)) \in Nat
          BY <2>5
        <5> QED BY <2>1, <5>1, <5>2, <5>3
      <4> QED BY <4>3, <4>4
    <3>5. write' + read' + Slot' + 0 = per_zone /\ pc' # "drain"
      BY <1>4, <1>5, <2>1, <3>1
    <3> QED BY <1>3, <2>1, <3>1, <3>3, <3>4, <3>5 DEF RandBudget
  <2>9. CASE zone + 1 \notin Group
    <3>1. zone' = zone /\ pc' = "drain" /\ zone + 1 = First + dev.max_open
      BY <1>1, <1>4, <2>9
    <3>2. /\ Left(now)' = Left(now) - 1
          /\ \A op \in {"read", "append"} : op # now => Left(op)' = Left(op)
      <4>1. CASE write > 0
        BY <1>1, <2>3, <2>9, <4>1 DEF Left
      <4>2. CASE ~(write > 0)
        <5>1. read > 0 /\ read < Word32 /\ Word32 \in Nat \ {0}
          <6>1. read \in 0 .. Word32 - 1 /\ Word32 \in Nat \ {0}
            BY WorkloadAssumption DEF Words
          <6> QED BY <1>4, <2>2, <4>2, <6>1
        <5>2. (read - 1) % Word32 = read - 1
          <6>1. read - 1 \in 0 .. Word32 - 1 /\ read - 1 \in Int
            BY <1>4, <5>1
          <6> QED BY <6>1, Fitted
        <5> QED BY <1>1, <2>3, <2>9, <4>2, <5>2 DEF Left
      <4> QED BY <4>1, <4>2
    <3>3. /\ write' \in Nat /\ read' \in Nat /\ write' + read' + 1 = write + read
          /\ write' <= write /\ read' <= read
      <4>1. CASE now = "append"
        BY <1>4, <2>7, <3>2, <4>1 DEF Left
      <4>2. CASE now = "read"
        BY <1>4, <2>7, <3>2, <4>2 DEF Left
      <4> QED BY <4>1, <4>2
    <3>4. Served' = Served + 1
      <4>1. Served = First * per_zone + (Slot * dev.max_open + (zone - First))
        BY <1>1 DEF Served
      <4>2. Served' = First * per_zone + (Slot + 1) * dev.max_open
        BY <1>1, <1>3, <1>5, <3>1 DEF Served
      <4>3. PICK x, y : x = First * per_zone /\ y = Slot * dev.max_open
        OBVIOUS
      <4>4. /\ x \in Nat /\ y \in Nat /\ zone \in Nat /\ First \in Nat
            /\ (Slot + 1) * dev.max_open = y + dev.max_open /\ dev.max_open \in Nat
        BY <1>4, <4>3
      <4> QED BY ONLY <3>1, <4>1, <4>2, <4>3, <4>4
    <3>5. Len(cmds') = Served' + Closed'
      BY <1>4, <2>1, <2>5, <2>6, <3>4
    <3>6. ASSUME NEW z \in Zones, NEW op \in {"read", "append"}
          PROVE  Cardinality(SentTo(op, z)') = Share(op, z)'
      <4>1. Planned(op)' = Planned(op) /\ Planned(op) - Left(op) \in Int /\ z \in Nat
            /\ Left(op) \in Nat /\ Planned(op) \in Nat
        BY <1>3, <1>4 DEF Planned, Left
      <4>2. Share(op, z)' = IF z >= First + dev.max_open THEN 0
                            ELSE IF z < First THEN Planned(op)
                            ELSE Planned(op) - Left(op)' + 0
        BY <1>3, <3>1, <4>1 DEF Share
      <4>3. Share(op, z) = IF z >= First + dev.max_open THEN 0
                           ELSE IF z < First THEN Planned(op)
                           ELSE Planned(op) - Left(op) + (IF z < zone /\ Turn(op) THEN 1 ELSE 0)
        BY <1>1 DEF Share
      <4>4. CASE op = now
        <5>1. Left(op)' = Left(op) - 1 /\ Turn(op)
          BY <2>4, <3>2, <4>4
        <5>2. CASE z = zone
          <6>1. Cardinality(SentTo(op, z)') = Cardinality(SentTo(op, z)) + 1
            BY <2>5, <4>4, <5>2
          <6>2. Share(op, z) = Planned(op) - Left(op) + 0
            BY <1>4, <4>3, <5>2
          <6>3. Share(op, z)' = Planned(op) - (Left(op) - 1) + 0
            BY <1>4, <4>2, <5>1, <5>2
          <6> QED BY <2>1, <4>1, <6>1, <6>2, <6>3
        <5>3. CASE z # zone
          <6>1. Cardinality(SentTo(op, z)') = Cardinality(SentTo(op, z)) + 0
                /\ Cardinality(SentTo(op, z)) \in Nat
            BY <2>5, <5>3
          <6>2. Share(op, z)' = Share(op, z)
            <7>1. z < zone \/ z >= First + dev.max_open
              BY <1>4, <3>1, <4>1, <5>3
            <7> QED BY <4>1, <4>2, <4>3, <5>1, <7>1
          <6> QED BY <2>1, <6>1, <6>2
        <5> QED BY <5>2, <5>3
      <4>5. CASE op # now
        <5>1. Cardinality(SentTo(op, z)') = Cardinality(SentTo(op, z)) + 0
              /\ Cardinality(SentTo(op, z)) \in Nat
          BY <2>5, <4>5
        <5>2. Share(op, z)' = Share(op, z)
          <6>1. Left(op)' = Left(op) /\ ~Turn(op)
            BY <2>4, <3>2, <4>5
          <6> QED BY <4>2, <4>3, <6>1
        <5> QED BY <2>1, <5>1, <5>2
      <4> QED BY <4>4, <4>5
    <3>7. write' + read' + Slot' + 1 = per_zone /\ write' <= g_num_zone_w /\ read' <= g_num_zone_r
      <4>1. write + read = per_zone - Slot /\ Slot' = Slot
        BY <1>4, <1>5, <2>1
      <4>2. PICK w, r, wn, rn, s, p : /\ w = write /\ r = read /\ wn = write' /\ rn = read'
                                       /\ s = Slot /\ p = per_zone
        OBVIOUS
      <4>3. write' + read' + Slot' + 1 = per_zone
        <5>1. /\ w \in Nat /\ r \in Nat /\ wn \in Nat /\ rn \in Nat /\ s \in Nat /\ p \in Nat
              /\ wn + rn + 1 = w + r /\ w + r = p - s
          BY <1>4, <3>3, <4>1, <4>2
        <5>2. wn + rn + s + 1 = p
          BY ONLY <5>1
        <5> QED BY <4>1, <4>2, <5>2
      <4>4. write <= g_num_zone_w /\ read <= g_num_zone_r
        BY <2>1
      <4>5. write' <= g_num_zone_w /\ read' <= g_num_zone_r
        BY <1>4, <3>3, <4>4
      <4> QED BY <4>3, <4>5
    <3> QED BY <1>3, <3>1, <3>5, <3>6, <3>7 DEF RandBudget
  <2> QED BY <2>8, <2>9
<1> QED BY <1>6, <1>7, <1>8 DEF Loops

\* Random load: the next round, and the end of the rounds.  Both send nothing and
\* leave each zone its share.
LEMMA RandRoundLoops ==
    IInv /\ Words /\ Plan /\ Loops /\ (RandRoundDone \/ RandRoundsEnd) => Loops'
<1> SUFFICES ASSUME IInv, Words, Plan, Loops, RandRoundDone \/ RandRoundsEnd PROVE Loops'
  OBVIOUS
<1>1. /\ g_access_rand /\ Loading /\ UNCHANGED <<optionVars, budgetVars, write, read, loop, cmds>>
      /\ \/ /\ pc = "drain" /\ pc' = "request" /\ lba' = lba + g_num_io_block /\ zone' = First
         \/ /\ pc = "request" /\ ~Fits /\ UNCHANGED <<zone, lba>>
            /\ pc' = IF app = "zns" THEN "finish" ELSE "report"
  BY DEF RandRoundDone, RandRoundsEnd, Loading, loopVars, ioVars, First
<1>2. Working
  BY <1>1, Sizes DEF IInv, Position, Working
<1>3. /\ UNCHANGED Options /\ per_zone' = per_zone /\ Zones' = Zones
      /\ Countable(per_zone)' <=> Countable(per_zone)
      /\ g_access_rand' = g_access_rand /\ app' = app /\ dev' = dev
      /\ g_num_io_block' = g_num_io_block /\ First' = First
      /\ g_num_zone_r' = g_num_zone_r /\ g_num_zone_w' = g_num_zone_w
  BY <1>1, RandSame
<1>4. /\ write \in Nat /\ read \in Nat
      /\ First \in Nat /\ zone \in First .. First + dev.max_open - 1
      /\ dev.max_open \in Nat \ {0} /\ \A z \in Zones : z \in Nat
      /\ Slot \in Nat /\ per_zone \in Nat
      /\ First * per_zone \in Nat /\ per_zone * dev.max_open \in Nat
      /\ (Slot + 1) * dev.max_open \in Nat
  <2>1. /\ dev.max_open \in Nat /\ Slot * dev.max_open \in Nat
        /\ (Slot + 1) * dev.max_open = Slot * dev.max_open + dev.max_open
    BY <1>1, <1>2, RandFacts
  <2>2. (Slot + 1) * dev.max_open \in Nat
    BY <2>1
  <2> QED BY <1>1, <1>2, <2>2, RandFacts
<1>5. pc = "drain" => /\ Slot' = Slot + 1 /\ lba' = Slot' * g_num_io_block
  <2>1. /\ (lba + g_num_io_block) \div g_num_io_block = Slot + 1
        /\ lba + g_num_io_block = (Slot + 1) * g_num_io_block
    BY <1>2, Places DEF Loops
  <2> QED BY <1>1, <1>3, <2>1 DEF Slot
<1>6. pc = "request" => /\ Slot = per_zone /\ Slot' = Slot /\ lba' = Slot' * g_num_io_block
                        /\ zone = First
  <2> SUFFICES ASSUME pc = "request" PROVE /\ Slot = per_zone /\ Slot' = Slot
                                           /\ lba' = Slot' * g_num_io_block /\ zone = First
    OBVIOUS
  <2>1. ~Fits /\ zone' = zone /\ lba' = lba
    BY <1>1
  <2>2. Slot <= per_zone /\ ~(Slot < per_zone) /\ lba = Slot * g_num_io_block
    BY <1>2, <2>1, Places DEF Loops
  <2>3. Slot' = Slot
    BY <1>3, <2>1 DEF Slot
  <2>4. zone = First
    BY <1>1, <1>2, <2>1 DEF IInv, Position, Working
  <2> QED BY <1>4, <2>1, <2>2, <2>3, <2>4
<1>7. Slots'
  BY <1>1, <1>3, <1>5, <1>6 DEF Slots
<1>8. SeqBudget'
  BY <1>1, <1>3 DEF SeqBudget
<1>9. Served' = Served
  <2>1. CASE pc = "drain"
    <3>1. Served = First * per_zone + (Slot + 1) * dev.max_open
      BY <1>1, <2>1 DEF Served
    <3>2. Served' = First * per_zone + ((Slot + 1) * dev.max_open + (First - First))
      BY <1>1, <1>3, <1>5, <2>1 DEF Served
    <3> QED BY <1>4, <3>1, <3>2
  <2>2. CASE pc = "request"
    <3>1. Served = First * per_zone + (per_zone * dev.max_open + (First - First))
      BY <1>1, <1>6, <2>2 DEF Served
    <3>2. Served' = First * per_zone + per_zone * dev.max_open
      BY <1>1, <1>3, <2>2 DEF Served
    <3> QED BY <1>4, <3>1, <3>2
  <2> QED BY <1>1, <2>1, <2>2
<1>10. Closed' = Closed
  <2>1. CASE app = "zns"
    <3>1. Closed = First
      BY <1>1, <2>1 DEF Closed
    <3>2. Closed' = First
      BY <1>1, <1>3, <1>6, <2>1 DEF Closed
    <3> QED BY <3>1, <3>2
  <2>2. CASE app # "zns"
    <3>1. app = "opz"
      BY <2>2 DEF IInv, Typed
    <3> QED BY <1>3, <3>1 DEF Closed
  <2> QED BY <2>1, <2>2
<1>11. ASSUME NEW z \in Zones, NEW op \in {"read", "append"} PROVE Share(op, z)' = Share(op, z)
  <2>1. Planned(op)' = Planned(op) /\ Left(op)' = Left(op)
    BY <1>1, <1>3 DEF Planned, Left
  <2>2. ~(pc = "request" /\ z < zone /\ z >= First) /\ ~(pc' = "request" /\ z < zone' /\ z >= First)
    BY <1>1, <1>4, <1>6
  <2>3. z < First \/ z >= First
    BY <1>4
  <2> QED BY <1>3, <2>1, <2>2, <2>3 DEF Share
<1>12. \A op, z : SentTo(op, z)' = SentTo(op, z)
  BY <1>1 DEF SentTo, Sent
<1>13. RandBudget'
  <2> SUFFICES ASSUME Countable(per_zone) PROVE RandBudget'
    BY <1>3 DEF RandBudget
  <2>1. /\ Len(cmds) = Served + Closed
        /\ write + read + Slot + (IF pc = "drain" THEN 1 ELSE 0) = per_zone
        /\ write <= g_num_zone_w /\ read <= g_num_zone_r
        /\ \A z \in Zones, op \in {"read", "append"} : Cardinality(SentTo(op, z)) = Share(op, z)
    BY <1>1, <1>2 DEF Loops, RandBudget
  <2>2. write' + read' + Slot' + (IF pc' = "drain" THEN 1 ELSE 0) = per_zone
    <3>1. pc' # "drain" /\ write' = write /\ read' = read
      BY <1>1
    <3>2. CASE pc = "drain"
      BY <1>4, <1>5, <2>1, <3>1, <3>2
    <3>3. CASE pc = "request"
      BY <1>4, <1>6, <2>1, <3>1, <3>3
    <3> QED BY <1>1, <3>2, <3>3
  <2> QED BY <1>1, <1>3, <1>9, <1>10, <1>11, <1>12, <2>1, <2>2 DEF RandBudget
<1> QED BY <1>7, <1>8, <1>13 DEF Loops

\* Random load: the finish command of a zone closes one more.
LEMMA RandFinishLoops == IInv /\ Words /\ Plan /\ Loops /\ RandFinish => Loops'
<1> SUFFICES ASSUME IInv, Words, Plan, Loops, RandFinish PROVE Loops'
  OBVIOUS
<1>1. /\ pc = "finish" /\ Loading /\ Submit("finish")
      /\ UNCHANGED <<optionVars, wp, rejected, budgetVars, write, read, loop, lba>>
      /\ \/ zone + 1 \in Group /\ zone' = zone + 1 /\ pc' = pc
         \/ zone + 1 \notin Group /\ zone' = zone /\ pc' = "loop"
  BY DEF RandFinish, finish_zone, Loading, deviceVars
<1>2. Working /\ g_access_rand /\ app = "zns"
  BY <1>1, Sizes DEF IInv, Position, Working
<1>3. /\ UNCHANGED Options /\ per_zone' = per_zone /\ Zones' = Zones
      /\ Countable(per_zone)' <=> Countable(per_zone)
      /\ g_access_rand' = g_access_rand /\ app' = app /\ dev' = dev
      /\ g_num_io_block' = g_num_io_block /\ First' = First
      /\ g_num_zone_r' = g_num_zone_r /\ g_num_zone_w' = g_num_zone_w
  BY <1>1, RandSame
<1>4. /\ write \in Nat /\ read \in Nat /\ Served \in Nat
      /\ First \in Nat /\ zone \in First .. First + dev.max_open - 1 /\ zone \in Nat
      /\ zone \in Zones /\ Group = First .. First + dev.max_open - 1
      /\ dev.max_open \in Nat \ {0} /\ Slot \in Nat
  BY <1>2, RandFacts
<1>5. Slot' = Slot /\ Slot = per_zone /\ lba' = Slot' * g_num_io_block
  BY <1>1, <1>2, <1>3 DEF Loops, Slots, Slot
<1>6. Slots'
  BY <1>1, <1>2, <1>3, <1>5 DEF Slots
<1>7. SeqBudget'
  BY <1>2, <1>3 DEF SeqBudget
<1>8. Served' = Served
  BY <1>1, <1>2, <1>3 DEF Served
<1>9. Closed = zone /\ Closed' = zone + 1
  BY <1>1, <1>2, <1>3, <1>4 DEF Closed
<1>10. ASSUME NEW z \in Zones, NEW op \in {"read", "append"}
       PROVE  /\ Share(op, z)' = Share(op, z)
              /\ Cardinality(SentTo(op, z)') = Cardinality(SentTo(op, z))
  <2>1. Planned(op)' = Planned(op) /\ Left(op)' = Left(op)
    BY <1>1, <1>3 DEF Planned, Left
  <2>2. Share(op, z)' = Share(op, z)
    BY <1>1, <1>3, <2>1 DEF Share
  <2>3. Cardinality(SentTo(op, z)') = Cardinality(SentTo(op, z)) + 0
        /\ Cardinality(SentTo(op, z)) \in Nat
    BY <1>1, <1>3, <1>4, Counted
  <2> QED BY <2>2, <2>3
<1>11. Len(cmds') = Len(cmds) + 1 /\ Len(cmds) \in Nat
  BY <1>1, <1>3, <1>4, Counted
<1>12. RandBudget'
  <2> SUFFICES ASSUME Countable(per_zone) PROVE RandBudget'
    BY <1>3 DEF RandBudget
  <2>1. /\ Len(cmds) = Served + Closed
        /\ write + read + Slot + (IF pc = "drain" THEN 1 ELSE 0) = per_zone
        /\ write <= g_num_zone_w /\ read <= g_num_zone_r
        /\ \A z \in Zones, op \in {"read", "append"} : Cardinality(SentTo(op, z)) = Share(op, z)
    BY <1>2 DEF Loops, RandBudget
  <2>2. Len(cmds') = Served' + Closed'
    BY <1>4, <1>8, <1>9, <1>11, <2>1
  <2>3. pc # "drain" /\ pc' # "drain" /\ write' = write /\ read' = read
    BY <1>1
  <2> QED BY <1>3, <1>5, <1>10, <2>1, <2>2, <2>3 DEF RandBudget
<1> QED BY <1>6, <1>7, <1>12 DEF Loops

\* The next group starts with the budgets of the first, and what the zones before
\* it have had is their plan.
LEMMA LoopDoneLoops == IInv /\ Words /\ Plan /\ Loops /\ LoopDone => Loops'
<1> SUFFICES ASSUME IInv, Words, Plan, Loops, LoopDone PROVE Loops'
  OBVIOUS
<1>1. /\ pc = "loop" /\ Loading /\ UNCHANGED <<optionVars, budgetVars, cmds>>
      /\ \/ /\ pc' = "request" /\ loop' = loop + 1 /\ lba' = 0 /\ zone' = loop' * dev.max_open
            /\ write' = g_num_zone_w /\ read' = g_num_zone_r
         \/ pc' = "report" /\ UNCHANGED <<loop, zone, lba, write, read>>
  BY DEF LoopDone, Loading, loopVars, ioVars
<1>2. Working /\ app = "zns" /\ loop \in Nat
  BY <1>1, Sizes DEF IInv, Typed, Position, Working
<1>3. /\ UNCHANGED Options /\ per_zone' = per_zone /\ Zones' = Zones
      /\ Countable(per_zone)' <=> Countable(per_zone)
      /\ Countable(g_num_rw)' <=> Countable(g_num_rw)
      /\ Reads(g_num_rw)' = Reads(g_num_rw)
      /\ g_access_rand' = g_access_rand /\ app' = app /\ dev' = dev
      /\ g_num_io_block' = g_num_io_block
      /\ g_num_zone_r' = g_num_zone_r /\ g_num_zone_w' = g_num_zone_w
      /\ g_num_r' = g_num_r /\ g_num_w' = g_num_w /\ g_num_rw' = g_num_rw
  BY <1>1, Geometry DEF optionVars, budgetVars
<1>4. /\ First \in Nat /\ zone \in First .. First + dev.max_open - 1 /\ zone \in Nat
      /\ dev.max_open \in Nat \ {0} /\ g_num_io_block \in Nat \ {0} /\ \A z \in Zones : z \in Nat
      /\ Slot \in Nat /\ per_zone \in Nat
  BY <1>2, InGroup, Places DEF Working, Loops
<1>5. Slot = per_zone /\ lba = Slot * g_num_io_block
      /\ (~g_access_rand => zone + 1 = First + dev.max_open)
  BY <1>1, <1>2 DEF Loops, Slots
<1>6. pc' = "request" => /\ First' = First + dev.max_open /\ zone' = First' /\ Slot' = 0
                         /\ lba' = 0 * g_num_io_block
  <2> SUFFICES ASSUME pc' = "request" PROVE /\ First' = First + dev.max_open /\ zone' = First'
                                            /\ Slot' = 0 /\ lba' = 0 * g_num_io_block
    OBVIOUS
  <2>1. loop' = loop + 1 /\ lba' = 0 /\ zone' = (loop + 1) * dev.max_open
    BY <1>1
  <2>2. First' = (loop + 1) * dev.max_open
    BY <1>3, <2>1 DEF First
  <2>3. (loop + 1) * dev.max_open = First + dev.max_open
    BY <1>2, <1>4, Product DEF First
  <2>4. Slot' = 0
    BY <1>3, <1>4, <2>1 DEF Slot
  <2> QED BY <1>4, <2>1, <2>2, <2>3, <2>4
<1>7. pc' # "request" => pc' = "report" /\ First' = First /\ Slot' = Slot /\ zone' = zone
                         /\ lba' = lba /\ write' = write /\ read' = read
  BY <1>1, <1>3 DEF First, Slot
<1>8. pc' \in {"request", "report"}
  BY <1>1
<1>9. Slots'
  <2>1. CASE pc' = "request"
    BY <1>3, <1>6, <2>1 DEF Slots
  <2>2. CASE pc' # "request"
    BY <1>3, <1>5, <1>7, <2>2 DEF Slots
  <2> QED BY <2>1, <2>2
<1>10. Served' = Served
  <2>1. CASE pc' # "request"
    BY <1>1, <1>3, <1>7, <2>1 DEF Served
  <2>2. CASE pc' = "request" /\ ~g_access_rand
    <3>1. Served = zone * per_zone + per_zone
      BY <1>5, <2>2 DEF Served
    <3>2. Served' = (zone + 1) * per_zone + 0
      BY <1>3, <1>5, <1>6, <2>2 DEF Served
    <3>3. (zone + 1) * per_zone = zone * per_zone + per_zone /\ zone * per_zone \in Nat
      BY <1>4, Product
    <3> QED BY <1>4, <3>1, <3>2, <3>3
  <2>3. CASE pc' = "request" /\ g_access_rand
    <3>1. Served = First * per_zone + per_zone * dev.max_open
      BY <1>1, <2>3 DEF Served
    <3>2. Served' = First' * per_zone + (0 * dev.max_open + (First' - First'))
      BY <1>3, <1>6, <2>3 DEF Served
    <3>3. PICK f, p, m : f = First /\ p = per_zone /\ m = dev.max_open
      OBVIOUS
    <3>4. /\ f \in Nat /\ p \in Nat /\ m \in Nat /\ First' = f + m
          /\ Served = f * p + p * m /\ Served' = First' * p + (0 * m + (First' - First'))
      BY <1>4, <1>6, <2>3, <3>1, <3>2, <3>3
    <3>5. (f + m) * p = f * p + p * m /\ 0 * m = 0 /\ (f + m) * p \in Nat
      BY ONLY <3>4
    <3> QED BY <3>4, <3>5
  <2> QED BY <2>1, <2>2, <2>3
<1>11. Closed' = Closed
  <2>1. Closed = First + dev.max_open
    BY <1>1, <1>2 DEF Closed
  <2>2. CASE pc' = "request"
    BY <1>2, <1>3, <1>6, <2>1, <2>2 DEF Closed
  <2>3. CASE pc' # "request"
    BY <1>2, <1>3, <1>7, <2>1, <2>3 DEF Closed
  <2> QED BY <2>2, <2>3
<1>12. \A op : Sent(op)' = Sent(op)
  BY <1>1 DEF Sent
<1>13. SeqBudget'
  <2> SUFFICES ASSUME ~g_access_rand, Countable(g_num_rw) PROVE SeqBudget'
    BY <1>3 DEF SeqBudget
  <2>1. /\ Served + g_num_w + g_num_r = g_num_rw
        /\ Len(cmds) = Served + Closed
        /\ Cardinality(Sent("read")) + g_num_r = Reads(g_num_rw)
        /\ Cardinality(Sent("append")) + g_num_w = g_num_rw - Reads(g_num_rw)
    BY <1>2 DEF Loops, SeqBudget
  <2> QED BY <1>1, <1>3, <1>10, <1>11, <1>12, <2>1 DEF SeqBudget
<1>14. RandBudget'
  <2> SUFFICES ASSUME g_access_rand, Countable(per_zone) PROVE RandBudget'
    BY <1>3 DEF RandBudget
  <2>1. /\ Len(cmds) = Served + Closed
        /\ write + read + Slot + 0 = per_zone
        /\ write <= g_num_zone_w /\ read <= g_num_zone_r
        /\ \A z \in Zones, op \in {"read", "append"} : Cardinality(SentTo(op, z)) = Share(op, z)
    BY <1>1, <1>2 DEF Loops, RandBudget
  <2>2. /\ write \in Nat /\ read \in Nat /\ g_num_zone_r \in Nat /\ g_num_zone_w \in Nat
        /\ g_num_zone_r + g_num_zone_w = per_zone
    BY <1>2, RandFacts
  <2>3. write = 0 /\ read = 0
    BY <1>4, <1>5, <2>1, <2>2
  <2>4. /\ write' + read' + Slot' + 0 = per_zone
        /\ write' <= g_num_zone_w /\ read' <= g_num_zone_r
    <3>1. CASE pc' = "request"
      BY <1>1, <1>4, <1>6, <2>2, <3>1
    <3>2. CASE pc' # "request"
      BY <1>7, <2>1, <3>2
    <3> QED BY <3>1, <3>2
  <2>5. ASSUME NEW z \in Zones, NEW op \in {"read", "append"} PROVE Share(op, z)' = Share(op, z)
    <3>1. Planned(op)' = Planned(op) /\ Planned(op) \in Nat /\ z \in Nat /\ Left(op) = 0
      BY <1>3, <1>4, <2>2, <2>3 DEF Planned, Left
    <3>2. Share(op, z) = IF z >= First + dev.max_open THEN 0 ELSE Planned(op)
      BY <1>1, <3>1 DEF Share
    <3>3. CASE pc' = "request"
      <4>1. Left(op)' = Planned(op)
        BY <1>1, <3>3 DEF Left, Planned
      <4>2. Share(op, z)' = IF z >= First + dev.max_open + dev.max_open THEN 0
                            ELSE IF z < First + dev.max_open THEN Planned(op)
                            ELSE Planned(op) - Planned(op) + 0
        BY <1>3, <1>4, <1>6, <3>1, <3>3, <4>1 DEF Share
      <4> QED BY <1>4, <3>1, <3>2, <4>2
    <3>4. CASE pc' # "request"
      <4>1. Left(op)' = 0
        BY <1>7, <3>1, <3>4 DEF Left
      <4>2. Share(op, z)' = IF z >= First + dev.max_open THEN 0
                            ELSE IF z < First THEN Planned(op) ELSE Planned(op) - 0 + 0
        BY <1>3, <1>7, <3>1, <3>4, <4>1 DEF Share
      <4> QED BY <3>1, <3>2, <4>2
    <3> QED BY <3>3, <3>4
  <2>6. \A z \in Zones, op \in {"read", "append"} : SentTo(op, z)' = SentTo(op, z)
    BY <1>1 DEF SentTo, Sent
  <2>7. Len(cmds') = Len(cmds) /\ pc' # "drain"
    BY <1>1
  <2> QED BY <1>3, <1>10, <1>11, <2>1, <2>4, <2>5, <2>6, <2>7 DEF RandBudget
<1> QED BY <1>9, <1>13, <1>14 DEF Loops

\* A countable number is split into reads and writes without a remainder.
LEMMA Split ==
    ASSUME Words, NEW n \in Nat, Countable(n), NEW r, r = Reads(n) % Word32
    PROVE  r = Reads(n) /\ (n - r) % Word32 = n - r /\ r \in Nat /\ n - r \in Nat
<1>1. PICK a : a = Reads(n)
  OBVIOUS
<1>2. a \in Nat /\ a <= n /\ n < Word32 /\ Word32 \in Nat \ {0} /\ r = a % Word32
  BY <1>1, ReadsFacts, WorkloadAssumption DEF Countable, Words
<1>3. r = a
  BY ONLY <1>2
<1>4. n - a \in 0 .. Word32 - 1
  BY ONLY <1>2, n \in Nat
<1> QED BY <1>1, <1>2, <1>3, <1>4, Fitted

\* The load starts with nothing served.
LEMMA CheckLoadLoops == IInv /\ IInv' /\ Words /\ Plan /\ Loops /\ CheckLoad => Loops'
<1> SUFFICES ASSUME IInv, IInv', Words, Plan, Loops, CheckLoad, Working' PROVE Loops'
  BY LoopsRest
<1>1. /\ pc = "check" /\ UNCHANGED <<optionVars, budgetVars, loop, zone, lba, cmds>>
      /\ write' = g_num_zone_w /\ read' = g_num_zone_r
  BY DEF CheckLoad, ioVars
<1>2. /\ UNCHANGED Options /\ per_zone' = per_zone /\ Zones' = Zones
      /\ Countable(per_zone)' <=> Countable(per_zone)
      /\ Countable(g_num_rw)' <=> Countable(g_num_rw)
      /\ Reads(g_num_rw)' = Reads(g_num_rw)
      /\ g_access_rand' = g_access_rand /\ app' = app /\ dev' = dev
      /\ g_num_io_block' = g_num_io_block
      /\ g_num_zone_r' = g_num_zone_r /\ g_num_zone_w' = g_num_zone_w
      /\ g_num_r' = g_num_r /\ g_num_w' = g_num_w /\ g_num_rw' = g_num_rw
  BY <1>1, Geometry DEF optionVars, budgetVars
<1>3. loop' = 0 /\ zone' = 0 /\ lba' = 0 /\ cmds' = <<>>
  BY <1>1 DEF IInv, Before
<1>4. /\ dev.max_open \in Nat \ {0} /\ dev.num_zone \in Nat /\ dev.zcap \in Nat
      /\ g_num_io_block \in Nat \ {0} /\ dev.zoned /\ pc' = "request"
  <2>1. /\ dev.max_open \in Nat \ {0} /\ dev.num_zone \in Nat /\ dev.zcap \in Nat
        /\ g_num_io_block \in Nat \ {0}
    BY <1>2, Sizes DEF IInv, Working
  <2>2. groups # 0
    <3>1. loop' < groups'
      BY <1>2, <2>1 DEF IInv, Position, Working
    <3>2. groups' = groups
      BY <1>1, Geometry
    <3> QED BY <1>3, <3>1, <3>2
  <2>3. dev.zoned /\ pc' = "request"
    BY <2>1, <2>2 DEF CheckLoad, Working, Loading
  <2> QED BY <2>1, <2>3
<1>5. per_zone \in Nat /\ \A z \in Zones : z \in Nat
  BY <1>4 DEF per_zone, Zones
<1>6. First' = 0 /\ Slot' = 0
  BY <1>2, <1>3, <1>4 DEF First, Slot
<1>7. Slots'
  BY <1>2, <1>3, <1>4, <1>6 DEF Slots
<1>8. Served' = 0
  <2>1. CASE ~g_access_rand
    BY <1>2, <1>3, <1>4, <1>5, <1>6, <2>1 DEF Served
  <2>2. CASE g_access_rand
    <3>1. Served' = 0 * per_zone + (0 * dev.max_open + (0 - 0))
      BY <1>2, <1>3, <1>4, <1>6, <2>2 DEF Served
    <3> QED BY <1>4, <1>5, <3>1
  <2> QED BY <2>1, <2>2
<1>9. Closed' = 0
  BY <1>2, <1>3, <1>4, <1>6 DEF Closed
<1>10. /\ Len(cmds') = 0
       /\ \A op : Cardinality(Sent(op)') = 0
       /\ \A op, z : Cardinality(SentTo(op, z)') = 0
  <2>1. DOMAIN cmds' = {} /\ Len(cmds') = 0
    BY <1>3
  <2>2. \A op : Sent(op)' = {}
    BY <2>1 DEF Sent
  <2>3. \A op, z : SentTo(op, z)' = {}
    BY <2>1 DEF Sent, SentTo
  <2> QED BY <2>1, <2>2, <2>3, FS_EmptySet
<1>11. SeqBudget'
  <2> SUFFICES ASSUME Countable(g_num_rw) PROVE SeqBudget'
    BY <1>2 DEF SeqBudget
  <2>1. /\ g_num_r = Reads(g_num_rw) % Word32 /\ g_num_w = (g_num_rw - g_num_r) % Word32
        /\ g_num_rw \in Nat
    BY <1>1, <1>4 DEF Plan, Words
  <2>2. g_num_r = Reads(g_num_rw) /\ g_num_w = g_num_rw - g_num_r /\ g_num_r \in Nat
        /\ g_num_w \in Nat
    BY <2>1, Split
  <2>3. /\ 0 + g_num_w + g_num_r = g_num_rw
        /\ 0 + g_num_r = Reads(g_num_rw)
        /\ 0 + g_num_w = g_num_rw - Reads(g_num_rw)
    BY <2>1, <2>2
  <2> QED BY <1>2, <1>8, <1>9, <1>10, <2>3 DEF SeqBudget
<1>12. RandBudget'
  <2> SUFFICES ASSUME Countable(per_zone) PROVE RandBudget'
    BY <1>2 DEF RandBudget
  <2>1. /\ g_num_zone_r = Reads(per_zone) % Word32
        /\ g_num_zone_w = (per_zone - g_num_zone_r) % Word32
    BY <1>1, <1>4 DEF Plan
  <2>2. g_num_zone_w = per_zone - g_num_zone_r /\ g_num_zone_r \in Nat /\ g_num_zone_w \in Nat
    BY <1>5, <2>1, Split
  <2>3. /\ g_num_zone_w + g_num_zone_r + 0 + 0 = per_zone
        /\ g_num_zone_w <= g_num_zone_w /\ g_num_zone_r <= g_num_zone_r
    BY <1>5, <2>2
  <2>4. ASSUME NEW z \in Zones, NEW op \in {"read", "append"} PROVE Share(op, z)' = 0
    <3>1. Planned(op)' = Left(op)' /\ Planned(op)' \in Nat
      BY <1>1, <1>2, <2>2 DEF Planned, Left
    <3>2. Share(op, z)' = IF z >= 0 + dev.max_open THEN 0
                          ELSE IF z < 0 THEN Planned(op)'
                          ELSE Planned(op)' - Left(op)'
                               + (IF pc' = "request" /\ z < 0 /\ Turn(op)' THEN 1 ELSE 0)
      BY <1>2, <1>3, <1>6 DEF Share
    <3> QED BY <1>5, <3>1, <3>2
  <2> QED BY <1>1, <1>2, <1>4, <1>6, <1>8, <1>9, <1>10, <2>3, <2>4 DEF RandBudget
<1> QED BY <1>7, <1>11, <1>12 DEF Loops

\* Every step keeps the account of the budgets.
LEMMA LoopsStep == IInv /\ IInv' /\ Words /\ Plan /\ Loops /\ [Next]_vars => Loops'
<1> SUFFICES ASSUME IInv, IInv', Words, Plan, Loops, [Next]_vars PROVE Loops'
  OBVIOUS
<1>1. CASE CheckLoad
  BY <1>1, CheckLoadLoops
<1>2. CASE SeqRequest \/ SeqZoneEnd \/ SeqZoneFinish \/ SeqZoneNext
  BY <1>2, SeqRequestLoops, SeqZoneEndLoops, SeqZoneFinishLoops
<1>3. CASE RandRequest \/ RandRoundDone \/ RandRoundsEnd \/ RandFinish
  BY <1>3, RandRequestLoops, RandRoundLoops, RandFinishLoops
<1>4. CASE LoopDone
  BY <1>4, LoopDoneLoops
<1>5. CASE Probe \/ AllocQpair \/ ZnsInfo \/ GiveUp \/ Report
  <2>1. pc' \in Final \cup {"alloc", "info", "check"}
    BY <1>5 DEF Probe, AllocQpair, ZnsInfo, GiveUp, Report, Final
  <2>2. ~Working'
    BY <2>1 DEF Working, Loading, Final
  <2> QED BY <2>2, LoopsRest
<1>6. CASE Poll \/ Device \/ UNCHANGED vars
  <2>1. UNCHANGED Place
    BY <1>6 DEF Poll, Device, vars, Place, ioVars
  <2> QED BY <2>1, LoopsRest
<1> QED BY <1>1, <1>2, <1>3, <1>4, <1>5, <1>6 DEF Next, Main, Terminated

\* The account of the budgets holds at every moment of a load.
THEOREM BudgetInvariance == Spec => [](IInv /\ BInv)
<1>1. Init => IInv /\ BInv
  <2> SUFFICES ASSUME Init PROVE IInv /\ BInv
    OBVIOUS
  <2>1. Words
    <3>1. 0 \in 0 .. Word32 - 1
      BY WorkloadAssumption
    <3> QED BY <3>1 DEF Init, Words
  <2>2. Plan /\ Slots /\ SeqBudget /\ RandBudget
    BY DEF Init, Plan, Slots, SeqBudget, RandBudget, Working, Loading
  <2> QED BY <2>1, <2>2, InitInv DEF BInv
<1>2. IInv /\ BInv /\ [Next]_vars => (IInv /\ BInv)'
  BY StepInv, WordsStep, PlanStep, LoopsStep DEF BInv, Loops
<1> QED BY <1>1, <1>2, PTL DEF Spec

\* The budgets are 32 bit words and the loops stay within the device and the zone,
\* whatever the rounding of the requests to float makes of the plan.
THEOREM TypeCorrect == Spec => []TypeOK
<1>1. IInv /\ BInv => TypeOK
  BY DEF IInv, Typed, BInv, Words, TypeOK, Command
<1> QED BY <1>1, BudgetInvariance, PTL

\* When the load ends, the zones before the end of the last group are all in use.
LEMMA LastGroup ==
    ASSUME IInv, Working, pc = "report", AllZonesUsed
    PROVE  First + dev.max_open = used_zones
<1>1. dev.max_open \in Nat \ {0} /\ dev.num_zone \in Nat /\ app \in {"zns", "opz"}
      /\ loop \in Nat
  BY Sizes DEF IInv, Typed, Working
<1>2. CASE app = "opz"
  BY <1>1, <1>2, ZonesInUse
<1>3. CASE app = "zns"
  <2>1. loop + 1 = dev.num_zone \div dev.max_open /\ dev.num_zone % dev.max_open = 0
    BY <1>3 DEF IInv, Position, Working, groups, AllZonesUsed
  <2>2. \A n \in Nat, m \in Nat \ {0} : n % m = 0 => m * (n \div m) = n
    OBVIOUS
  <2>3. dev.max_open * (loop + 1) = dev.num_zone
    BY <1>1, <2>1, <2>2
  <2>4. dev.max_open * (loop + 1) = First + dev.max_open
    <3>1. \A m, l \in Nat : m * (l + 1) = l * m + m
      OBVIOUS
    <3> QED BY <1>1, <3>1 DEF First
  <2> QED BY <1>3, <2>3, <2>4 DEF used_zones
<1> QED BY <1>1, <1>2, <1>3

\* A load that ends has spent its budgets to the last request: as many appends and
\* reads were sent as planned, in random mode to each zone, and access_zns has sent
\* what it reports and a finish for each zone.
THEOREM BudgetsAreSpent == Spec => []BudgetsSpent
<1>1. IInv /\ BInv => BudgetsSpent
  <2> SUFFICES ASSUME IInv, BInv, pc = "report", dev.max_open > 0, AllZonesUsed,
                      Countable(IF g_access_rand THEN per_zone ELSE g_num_rw)
               PROVE  /\ app = "zns" => Len(cmds) = g_num_rw + dev.num_zone
                      /\ IF g_access_rand
                         THEN /\ write = 0 /\ read = 0
                              /\ \A z \in 0 .. used_zones - 1 :
                                     /\ Cardinality(SentTo("read", z)) = g_num_zone_r
                                     /\ Cardinality(SentTo("append", z)) = g_num_zone_w
                         ELSE /\ g_num_w = 0 /\ g_num_r = 0
                              /\ Cardinality(Sent("read")) = Reads(g_num_rw)
                              /\ Cardinality(Sent("read") \cup Sent("append")) = g_num_rw
    BY DEF BudgetsSpent
  <2>1. Words /\ Plan /\ Loops /\ Working /\ Loading
    BY DEF BInv, Loops, Working, Loading
  <2>2. /\ First \in Nat /\ zone \in Nat /\ dev.max_open \in Nat /\ dev.num_zone \in Nat
        /\ First + dev.max_open <= dev.num_zone
    BY <2>1, InGroup DEF Working
  <2>3. Slot \in Nat /\ per_zone \in Nat /\ Slot = per_zone
        /\ (~g_access_rand => zone + 1 = First + dev.max_open)
    BY <2>1, Places DEF Loops, Slots
  <2>4. used_zones = First + dev.max_open /\ (app = "zns" => used_zones = dev.num_zone)
    BY <2>1, LastGroup, ZonesInUse
  <2>5. Served = g_num_rw /\ g_num_rw \in Nat
    <3>1. g_num_rw = used_zones * per_zone /\ g_num_rw \in Nat
      BY <2>1 DEF Plan, Words
    <3>2. CASE ~g_access_rand
      <4>1. Served = zone * per_zone + per_zone
        BY <2>3, <3>2 DEF Served
      <4>2. (zone + 1) * per_zone = zone * per_zone + per_zone
        BY <2>2, <2>3, Product
      <4> QED BY <2>3, <2>4, <3>1, <3>2, <4>1, <4>2
    <3>3. CASE g_access_rand
      <4>1. Served = First * per_zone + per_zone * dev.max_open
        BY <3>3 DEF Served
      <4>2. PICK f, p, m : f = First /\ p = per_zone /\ m = dev.max_open
        OBVIOUS
      <4>3. f \in Nat /\ p \in Nat /\ m \in Nat
        BY <2>2, <2>3, <4>2
      <4>4. (f + m) * p = f * p + p * m
        BY ONLY <4>3
      <4> QED BY <2>4, <3>1, <4>1, <4>2, <4>4
    <3> QED BY <3>1, <3>2, <3>3
  <2>6. app = "zns" => Closed = dev.num_zone
    BY <2>4 DEF Closed
  <2>7. CASE ~g_access_rand
    <3>1. /\ Served + g_num_w + g_num_r = g_num_rw
          /\ Len(cmds) = Served + Closed
          /\ Cardinality(Sent("read")) + g_num_r = Reads(g_num_rw)
          /\ Cardinality(Sent("append")) + g_num_w = g_num_rw - Reads(g_num_rw)
      BY <2>1, <2>7 DEF Loops, SeqBudget
    <3>2. g_num_w \in Nat /\ g_num_r \in Nat /\ Reads(g_num_rw) \in Nat
      BY <2>1, ReadsFacts DEF Words
    <3>3. g_num_w = 0 /\ g_num_r = 0
      BY <2>5, <3>1, <3>2
    <3>4. /\ IsFiniteSet(Sent("read")) /\ IsFiniteSet(Sent("append"))
          /\ Sent("read") \cap Sent("append") = {}
      <4>1. IsFiniteSet(DOMAIN cmds)
        BY Finite, FS_Interval DEF IInv
      <4>2. \A op : Sent(op) \in SUBSET DOMAIN cmds
        BY DEF Sent
      <4>3. Sent("read") \cap Sent("append") = {}
        BY DEF Sent
      <4> QED BY <4>1, <4>2, <4>3, FS_Subset
    <3>5. /\ Cardinality(Sent("read")) \in Nat /\ Cardinality(Sent("append")) \in Nat
          /\ Cardinality(Sent("read") \cup Sent("append"))
               = Cardinality(Sent("read")) + Cardinality(Sent("append"))
      <4>1. Cardinality(Sent("read") \cap Sent("append")) = 0
        BY <3>4, FS_EmptySet
      <4>2. Cardinality(Sent("read")) \in Nat /\ Cardinality(Sent("append")) \in Nat
        BY <3>4, FS_CardinalityType
      <4>3. Cardinality(Sent("read") \cup Sent("append"))
              = Cardinality(Sent("read")) + Cardinality(Sent("append"))
                  - Cardinality(Sent("read") \cap Sent("append"))
        BY <3>4, FS_Union
      <4> QED BY <4>1, <4>2, <4>3
    <3>6. /\ Cardinality(Sent("read")) = Reads(g_num_rw)
          /\ Cardinality(Sent("read") \cup Sent("append")) = g_num_rw
      BY <2>5, <3>1, <3>2, <3>3, <3>5
    <3> QED BY <2>5, <2>6, <2>7, <3>1, <3>3, <3>6
  <2>8. CASE g_access_rand
    <3>1. /\ Len(cmds) = Served + Closed
          /\ write + read + Slot + 0 = per_zone
          /\ \A z \in Zones, op \in {"read", "append"} : Cardinality(SentTo(op, z)) = Share(op, z)
      BY <2>1, <2>8 DEF Loops, RandBudget
    <3>2. write \in Nat /\ read \in Nat /\ g_num_zone_r \in Nat /\ g_num_zone_w \in Nat
      BY <2>1, <2>8, RandFacts
    <3>3. write = 0 /\ read = 0
      BY <2>3, <3>1, <3>2
    <3>4. ASSUME NEW z \in 0 .. used_zones - 1, NEW op \in {"read", "append"}
          PROVE  Cardinality(SentTo(op, z)) = Planned(op)
      <4>1. z \in Zones /\ z \in Nat /\ z < First + dev.max_open
        BY <2>2, <2>4 DEF Zones
      <4>2. Left(op) = 0 /\ Planned(op) \in Nat
        BY <3>2, <3>3 DEF Left, Planned
      <4>3. Share(op, z) = Planned(op)
        BY <2>2, <4>1, <4>2 DEF Share
      <4> QED BY <3>1, <4>1, <4>3
    <3>5. \A z \in 0 .. used_zones - 1 : /\ Cardinality(SentTo("read", z)) = g_num_zone_r
                                         /\ Cardinality(SentTo("append", z)) = g_num_zone_w
      BY <3>4 DEF Planned
    <3> QED BY <2>5, <2>6, <2>8, <3>1, <3>3, <3>5
  <2> QED BY <2>7, <2>8
<1> QED BY <1>1, BudgetInvariance, PTL

\* The counts a device can have are countable as long as they are floats: up to
\* Mantissa requests and 32 bits nothing is rounded, whatever the ratio.
THEOREM SmallCounts ==
    ASSUME ratio \in Ratios, NEW n \in Nat, n <= Mantissa, n < Word32
    PROVE  Countable(n)
BY ReadsFacts DEF Countable
-----------------------------------------------------------------------------
(* A load runs out of steps.                                               *)

\* What is left of a load, from the coarse to the fine: the stages of main(),
Rank == [start |-> 6, alloc |-> 5, info |-> 4, check |-> 3, request |-> 2, drain |-> 2,
         finish |-> 2, loop |-> 2, report |-> 1,
         done |-> 0, failed |-> 0, crash |-> 0, hung |-> 0]

\* the groups that follow and this one, the zones of the group, ...
InLoops == pc \in {"request", "drain", "finish", "loop"}
GroupsLeft == IF InLoops THEN groups - loop ELSE 0
ZonesLeft == First + dev.max_open - zone

\* ... the passes over them: zone by zone in send_seq; in send_rand the requests and
\* then the finish commands,
PassesLeft ==
    IF ~InLoops \/ pc = "loop" THEN 0
    ELSE IF g_access_rand THEN IF pc = "finish" THEN 1 ELSE 2
    ELSE ZonesLeft

\* the blocks of the zone, the requests of the round and
BlocksLeft == IF InLoops THEN dev.zcap - lba ELSE 0
RoundLeft == IF ~InLoops \/ pc = "drain" THEN 0 ELSE ZonesLeft

\* the steps of the commands that were sent: the device answers each and a poll takes
\* the answer.
Owed == 2 * Cardinality(inflight) + Cardinality(cq)

Variant == <<Rank[pc], GroupsLeft, PassesLeft, BlocksLeft, RoundLeft, Owed>>

\* The first difference decides.
Precedes(v, w) == \E k \in 1 .. 6 : v[k] < w[k] /\ \A j \in 1 .. k - 1 : v[j] = w[j]

\* The loops that wait poll for commands that are there: none waits for room in a queue
\* nothing is in, or for an answer nobody owes.
WaitAnswered == Polling => Flying # {}

THEOREM WaitsAnswered == Spec => []WaitAnswered
<1>1. IInv => WaitAnswered
  <2> SUFFICES ASSUME IInv, Polling PROVE Flying # {}
    BY DEF WaitAnswered
  <2>1. g_queue_depth > 0 /\ g_queue_depth \in Nat /\ outstanding_commands \in Nat
    BY DEF IInv, Typed, Position, Polling, Loading
  <2>2. outstanding_commands > 0
    BY <2>1 DEF Polling, Room
  <2> QED BY <2>2, FS_EmptySet DEF IInv, Exact
<1> QED BY <1>1, Invariance, PTL

\* A poll and an answer of the device leave less to be done.
LEMMA OwedFacts ==
    ASSUME IsFiniteSet(inflight), IsFiniteSet(cq)
    PROVE  /\ Owed \in Nat
           /\ \A S : Reap(S) => Owed' < Owed
           /\ \A c : DeviceComplete(c) => Owed' < Owed
<1>1. Cardinality(inflight) \in Nat /\ Cardinality(cq) \in Nat
  BY FS_CardinalityType
<1>2. ASSUME NEW S, Reap(S) PROVE Owed' < Owed
  <2>1. PICK c \in S : c \in cq
    BY <1>2 DEF Reap
  <2>2. cq' \subseteq cq \ {c} /\ inflight' = inflight
    BY <1>2, <2>1 DEF Reap
  <2>3. IsFiniteSet(cq \ {c}) /\ Cardinality(cq \ {c}) = Cardinality(cq) - 1
    BY <2>1, FS_RemoveElement
  <2>4. IsFiniteSet(cq') /\ Cardinality(cq') <= Cardinality(cq) - 1
    BY <2>2, <2>3, FS_Subset
  <2>5. Cardinality(cq') \in Nat
    BY <2>4, FS_CardinalityType
  <2> QED BY <1>1, <2>2, <2>4, <2>5 DEF Owed
<1>3. ASSUME NEW c, DeviceComplete(c) PROVE Owed' < Owed
  <2>1. c \in inflight /\ inflight' = inflight \ {c} /\ cq' = cq \cup {c}
    BY <1>3 DEF DeviceComplete
  <2>2. Cardinality(inflight') = Cardinality(inflight) - 1 /\ IsFiniteSet(inflight')
    BY <2>1, FS_RemoveElement
  <2>3. Cardinality(cq') \in {Cardinality(cq), Cardinality(cq) + 1}
    BY <2>1, FS_AddElement
  <2>4. Cardinality(inflight') \in Nat
    BY <2>2, FS_CardinalityType
  <2> QED BY <1>1, <2>2, <2>3, <2>4 DEF Owed
<1> QED BY <1>1, <1>2, <1>3 DEF Owed

\* The parts of the variant are natural numbers; in the loops the zone is one of the
\* group.
LEMMA Measured ==
    ASSUME IInv
    PROVE  /\ Rank[pc] \in 0 .. 6 /\ GroupsLeft \in Nat /\ PassesLeft \in Nat
           /\ BlocksLeft \in Nat /\ RoundLeft \in Nat /\ Owed \in Nat
           /\ InLoops => /\ Working /\ groups \in Nat /\ loop \in Nat /\ loop < groups
                         /\ ZonesLeft \in Nat \ {0} /\ zone \in Nat
                         /\ First \in Nat /\ dev.max_open \in Nat \ {0}
                         /\ lba \in Nat /\ dev.zcap \in Nat /\ lba <= dev.zcap
                         /\ g_num_io_block \in Nat \ {0}
<1>1. Rank[pc] \in 0 .. 6
  <2>1. pc \in {"start", "alloc", "info", "check", "request", "drain", "finish", "loop",
                "report"} \cup Final
    BY DEF IInv, Typed
  <2> QED BY <2>1 DEF Rank, Final
<1>2. Owed \in Nat
  BY Finite, OwedFacts DEF IInv
<1>3. CASE ~InLoops
  BY <1>1, <1>2, <1>3 DEF GroupsLeft, PassesLeft, BlocksLeft, RoundLeft
<1>4. CASE InLoops
  <2>1. Working
    <3>1. dev.max_open \in Nat
      BY Sizes DEF IInv
    <3> QED BY <1>4, <3>1 DEF IInv, InLoops, Position, Working, Loading
  <2>2. groups \in Nat /\ loop \in Nat /\ loop < groups
    BY <2>1, ZonesInUse
  <2>3. /\ First \in Nat /\ zone \in First .. First + dev.max_open - 1 /\ zone \in Nat
        /\ dev.max_open \in Nat
    BY <2>1, InGroup DEF Working
  <2>4. ZonesLeft \in Nat \ {0} /\ dev.max_open \in Nat \ {0}
    BY <2>1, <2>3 DEF ZonesLeft, Working
  <2>5. lba \in Nat /\ dev.zcap \in Nat /\ lba <= dev.zcap /\ g_num_io_block \in Nat \ {0}
    BY Sizes DEF IInv, Typed
  <2>6. GroupsLeft \in Nat
    BY <1>4, <2>2 DEF GroupsLeft
  <2>7. PassesLeft \in Nat /\ RoundLeft \in Nat
    BY <2>4 DEF PassesLeft, RoundLeft
  <2>8. BlocksLeft \in Nat
    BY <2>5 DEF BlocksLeft
  <2> QED BY <1>1, <1>2, <2>1, <2>2, <2>3, <2>4, <2>5, <2>6, <2>7, <2>8
<1> QED BY <1>3, <1>4

\* Every step of a load and of the device is a step towards its end: Variant falls in
\* the lexicographic order of six natural numbers, whatever the device, the options,
\* the split of the budgets and the order of the answers.  With WaitsAnswered this is
\* what Terminates rests on, for every instance.
THEOREM StepsRunOut ==
    Spec => /\ [](Variant \in Nat \X Nat \X Nat \X Nat \X Nat \X Nat)
            /\ [][Precedes(Variant', Variant)]_vars
<1>1. IInv => Variant \in Nat \X Nat \X Nat \X Nat \X Nat \X Nat
  BY Measured DEF Variant
<1>2. ASSUME IInv, [Next]_vars, vars' # vars PROVE Precedes(Variant', Variant)
  <2> DEFINE r == Rank[pc]
  <2>1. /\ r \in 0 .. 6 /\ GroupsLeft \in Nat /\ PassesLeft \in Nat
        /\ BlocksLeft \in Nat /\ RoundLeft \in Nat /\ Owed \in Nat
        /\ InLoops => /\ Working /\ groups \in Nat /\ loop \in Nat /\ loop < groups
                      /\ ZonesLeft \in Nat \ {0} /\ zone \in Nat
                      /\ First \in Nat /\ dev.max_open \in Nat \ {0}
                      /\ lba \in Nat /\ dev.zcap \in Nat /\ lba <= dev.zcap
                      /\ g_num_io_block \in Nat \ {0}
    BY <1>2, Measured
  <2>2. \/ r' < r
        \/ r' = r /\ GroupsLeft' < GroupsLeft
        \/ r' = r /\ GroupsLeft' = GroupsLeft /\ PassesLeft' < PassesLeft
        \/ r' = r /\ GroupsLeft' = GroupsLeft /\ PassesLeft' = PassesLeft
                  /\ BlocksLeft' < BlocksLeft
        \/ r' = r /\ GroupsLeft' = GroupsLeft /\ PassesLeft' = PassesLeft
                  /\ BlocksLeft' = BlocksLeft /\ RoundLeft' < RoundLeft
        \/ r' = r /\ GroupsLeft' = GroupsLeft /\ PassesLeft' = PassesLeft
                  /\ BlocksLeft' = BlocksLeft /\ RoundLeft' = RoundLeft /\ Owed' < Owed
    <3> USE DEF optionVars, loopVars
    <3>1. ASSUME UNCHANGED <<optionVars, loop>> PROVE First' = First /\ groups' = groups
      BY <3>1 DEF First, groups
    \* A step within the loops of one group.
    <3>2. ASSUME UNCHANGED <<optionVars, loop>>, InLoops, InLoops'
          PROVE  r' = r /\ GroupsLeft' = GroupsLeft
      BY <3>1, <3>2 DEF InLoops, Rank, GroupsLeft
    <3>3. CASE Probe \/ AllocQpair \/ ZnsInfo \/ Report
      BY <3>3 DEF Probe, AllocQpair, ZnsInfo, Report, Rank
    <3>4. CASE CheckLoad
      BY <3>4 DEF CheckLoad, Rank
    <3>5. CASE GiveUp
      BY <3>5 DEF GiveUp, Rank
    <3>6. CASE SeqRequest
      <4>1. /\ pc = "request" /\ pc' = "request" /\ ~g_access_rand
            /\ (UNCHANGED <<optionVars, loop, zone>>) /\ lba' = lba + g_num_io_block
        BY <3>6 DEF SeqRequest
      <4>2. InLoops /\ InLoops'
        BY <4>1 DEF InLoops
      <4>3. PassesLeft' = PassesLeft
        BY <3>1, <4>1, <4>2 DEF PassesLeft, ZonesLeft
      <4>4. BlocksLeft' < BlocksLeft
        BY <2>1, <4>1, <4>2 DEF BlocksLeft
      <4> QED BY <3>2, <4>1, <4>2, <4>3, <4>4
    <3>7. CASE SeqZoneEnd
      <4>1. /\ pc = "request" /\ pc' = "drain" /\ ~g_access_rand
            /\ (UNCHANGED <<optionVars, loop, zone, lba>>)
        BY <3>7 DEF SeqZoneEnd
      <4>2. InLoops /\ InLoops'
        BY <4>1 DEF InLoops
      <4>3. PassesLeft' = PassesLeft /\ BlocksLeft' = BlocksLeft
        BY <3>1, <4>1, <4>2 DEF PassesLeft, BlocksLeft, ZonesLeft
      <4>4. RoundLeft' < RoundLeft
        BY <2>1, <4>1, <4>2 DEF RoundLeft
      <4> QED BY <3>2, <4>1, <4>2, <4>3, <4>4
    <3>8. CASE SeqZoneFinish \/ SeqZoneNext
      <4>1. /\ pc = "drain" /\ ~g_access_rand /\ (UNCHANGED <<optionVars, loop>>)
            /\ \/ zone' = zone + 1 /\ pc' = "request"
               \/ zone' = zone /\ pc' \in {"loop", "report"}
        BY <3>8 DEF SeqZoneFinish, SeqZoneNext, NextZone
      <4>2. InLoops
        BY <4>1 DEF InLoops
      <4>3. CASE pc' = "report"
        BY <4>1, <4>3 DEF Rank
      <4>4. CASE pc' = "loop"
        <5>1. InLoops' /\ PassesLeft' = 0 /\ PassesLeft = ZonesLeft
          BY <4>1, <4>2, <4>4 DEF InLoops, PassesLeft
        <5> QED BY <2>1, <3>2, <4>1, <4>2, <5>1
      <4>5. CASE pc' = "request"
        <5>1. InLoops' /\ PassesLeft' = ZonesLeft' /\ PassesLeft = ZonesLeft
          BY <4>1, <4>2, <4>5 DEF InLoops, PassesLeft
        <5>2. ZonesLeft' < ZonesLeft
          BY <2>1, <3>1, <4>1, <4>2, <4>5 DEF ZonesLeft
        <5> QED BY <3>2, <4>1, <4>2, <5>1, <5>2
      <4> QED BY <4>1, <4>3, <4>4, <4>5
    <3>9. CASE RandRequest
      <4>1. /\ pc = "request" /\ g_access_rand /\ (UNCHANGED <<optionVars, loop, lba>>)
            /\ \/ zone' = zone + 1 /\ pc' = "request"
               \/ zone' = zone /\ pc' = "drain"
        BY <3>9 DEF RandRequest
      <4>2. InLoops /\ InLoops'
        BY <4>1 DEF InLoops
      <4>3. PassesLeft' = PassesLeft /\ BlocksLeft' = BlocksLeft
        BY <4>1, <4>2 DEF PassesLeft, BlocksLeft
      <4>4. RoundLeft' < RoundLeft
        BY <2>1, <3>1, <4>1, <4>2 DEF RoundLeft, ZonesLeft
      <4> QED BY <3>2, <4>1, <4>2, <4>3, <4>4
    <3>10. CASE RandRoundDone
      <4>1. /\ pc = "drain" /\ pc' = "request" /\ g_access_rand /\ (UNCHANGED <<optionVars, loop>>)
            /\ lba' = lba + g_num_io_block
        BY <3>10 DEF RandRoundDone
      <4>2. InLoops /\ InLoops'
        BY <4>1 DEF InLoops
      <4>3. PassesLeft' = PassesLeft
        BY <4>1, <4>2 DEF PassesLeft
      <4>4. BlocksLeft' < BlocksLeft
        BY <2>1, <4>1, <4>2 DEF BlocksLeft
      <4> QED BY <3>2, <4>1, <4>2, <4>3, <4>4
    <3>11. CASE RandRoundsEnd
      <4>1. /\ pc = "request" /\ pc' \in {"finish", "report"} /\ g_access_rand
            /\ (UNCHANGED <<optionVars, loop>>)
        BY <3>11 DEF RandRoundsEnd
      <4>2. CASE pc' = "report"
        BY <4>1, <4>2 DEF Rank
      <4>3. CASE pc' = "finish"
        <5>1. InLoops /\ InLoops' /\ PassesLeft = 2 /\ PassesLeft' = 1
          BY <4>1, <4>3 DEF InLoops, PassesLeft
        <5> QED BY <3>2, <4>1, <5>1
      <4> QED BY <4>1, <4>2, <4>3
    <3>12. CASE RandFinish
      <4>1. /\ pc = "finish" /\ (UNCHANGED <<optionVars, loop, lba>>)
            /\ \/ zone' = zone + 1 /\ pc' = "finish"
               \/ zone' = zone /\ pc' = "loop"
        BY <3>12 DEF RandFinish
      <4>2. InLoops /\ InLoops' /\ g_access_rand
        BY <1>2, <4>1 DEF InLoops, IInv, Position, Loading
      <4>3. CASE pc' = "loop"
        <5>1. PassesLeft' = 0 /\ PassesLeft = 1
          BY <4>1, <4>2, <4>3 DEF PassesLeft
        <5> QED BY <3>2, <4>1, <4>2, <5>1
      <4>4. CASE pc' = "finish"
        <5>1. PassesLeft' = PassesLeft /\ BlocksLeft' = BlocksLeft
          BY <4>1, <4>2, <4>4 DEF PassesLeft, BlocksLeft
        <5>2. RoundLeft' < RoundLeft
          BY <2>1, <3>1, <4>1, <4>2, <4>4 DEF RoundLeft, ZonesLeft
        <5> QED BY <3>2, <4>1, <4>2, <5>1, <5>2
      <4> QED BY <4>1, <4>3, <4>4
    <3>13. CASE LoopDone
      <4>1. /\ pc = "loop" /\ (UNCHANGED optionVars)
            /\ \/ loop' = loop + 1 /\ pc' = "request"
               \/ pc' = "report"
        BY <3>13 DEF LoopDone
      <4>2. CASE pc' = "report"
        BY <4>1, <4>2 DEF Rank
      <4>3. CASE loop' = loop + 1 /\ pc' = "request"
        <5>1. InLoops /\ InLoops' /\ r' = r /\ groups' = groups
          BY <4>1, <4>3 DEF InLoops, Rank, groups
        <5>2. GroupsLeft' < GroupsLeft
          BY <2>1, <4>3, <5>1 DEF GroupsLeft
        <5> QED BY <5>1, <5>2
      <4> QED BY <4>1, <4>2, <4>3
    <3>14. CASE Poll \/ Device
      <4>1. UNCHANGED <<optionVars, pc, loopVars>>
        BY <3>14 DEF Poll, Device
      <4>2. /\ r' = r /\ GroupsLeft' = GroupsLeft /\ PassesLeft' = PassesLeft
            /\ BlocksLeft' = BlocksLeft /\ RoundLeft' = RoundLeft
        BY <3>1, <4>1 DEF GroupsLeft, PassesLeft, BlocksLeft, RoundLeft, ZonesLeft, InLoops
      <4>3. (\E S : Reap(S)) \/ (\E c : DeviceComplete(c))
        BY <3>14 DEF Poll, Device
      <4>4. Owed' < Owed
        BY <1>2, <4>3, Finite, OwedFacts DEF IInv
      <4> QED BY <4>2, <4>4
    <3> QED
      BY <1>2, <3>3, <3>4, <3>5, <3>6, <3>7, <3>8, <3>9, <3>10, <3>11, <3>12, <3>13, <3>14
         DEF Next, Main, Terminated
  <2> HIDE DEF r
  <2>3. Variant = <<r, GroupsLeft, PassesLeft, BlocksLeft, RoundLeft, Owed>>
    BY DEF Variant, r
  <2>4. Variant' = <<r', GroupsLeft', PassesLeft', BlocksLeft', RoundLeft', Owed'>>
    BY DEF Variant, r
  <2>5. ASSUME NEW v, NEW w, NEW a, NEW b, NEW c, NEW d, NEW e, NEW f,
               NEW g, NEW h, NEW i, NEW j, NEW k, NEW l,
               w = <<a, b, c, d, e, f>>, v = <<g, h, i, j, k, l>>,
               \/ g < a
               \/ g = a /\ h < b
               \/ g = a /\ h = b /\ i < c
               \/ g = a /\ h = b /\ i = c /\ j < d
               \/ g = a /\ h = b /\ i = c /\ j = d /\ k < e
               \/ g = a /\ h = b /\ i = c /\ j = d /\ k = e /\ l < f
        PROVE  Precedes(v, w)
    BY <2>5 DEF Precedes
  <2> QED BY <2>2, <2>3, <2>4, <2>5
<1>3. IInv /\ [Next]_vars => [Precedes(Variant', Variant)]_vars
  BY <1>2
<1> QED BY <1>1, <1>3, Invariance, PTL DEF Spec
=============================================================================
