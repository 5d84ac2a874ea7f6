------------------------ MODULE NamespaceAdminProofs ------------------------
(***************************************************************************)
(* Proofs about NamespaceAdmin, for every namespace size, transfer size,   *)
(* zone layout and report limit.  The inductive invariant IInv says that   *)
(* at most the stack task is in flight (OneTask), where the loop of        *)
(* write_all_zero is (Progress), and which blocks have been wiped by then  *)
(* (Wiped).                                                                *)
(***************************************************************************)
EXTENDS NamespaceAdmin, FiniteSetTheorems, TLAPS

Waits == {"wait_zero", "wait_reset", "wait_report"}

\* The driver holds the stack task or nothing, and the counter tells which.
OneTask ==
    /\ inflight \cap cq = {}
    /\ pc \in Waits => Flying \subseteq {task}
    /\ pc \notin Waits => Flying = {}
    /\ pc # "failed" => outstanding_commands = IF Flying = {} THEN 0 ELSE 1

Progress ==
    /\ pc \in {"zero", "wait_zero"} => slba + remain_ns_blk = dev.blocks
    /\ pc = "wait_zero" =>
        /\ remain_ns_blk > 0
        /\ task = [opc |-> "WRITE_ZEROES", slba |-> slba, nlb |-> lba_count]
    /\ pc = "wait_reset" => task.opc = "ZONE_MGMT_SEND"
    /\ pc = "wait_report" => task.opc = "ZONE_MGMT_RECV"
    /\ pc \in {"report", "wait_report"} => handled_zones <= zones_to_print

\* Block 0 to n - 1 have been wiped once or lost, the others not touched.
WipedUpTo(n) ==
    \A b \in Lbas :
        /\ b < n => wiped[b] = IF b \in lost THEN 0 ELSE 1
        /\ b >= n => wiped[b] = 0 /\ b \notin lost

\* How far the wiping has come.
Frontier ==
    CASE pc = "reset"                        -> 0
      [] pc = "zero"                         -> slba
      [] pc = "wait_zero" /\ Flying # {}     -> slba
      [] pc = "wait_zero" /\ Flying = {}     -> slba + lba_count
      [] pc = "wait_reset" /\ Flying # {}    -> 0
      [] OTHER                               -> dev.blocks

Wiped == pc # "failed" => WipedUpTo(Frontier)

IInv == TypeOK /\ OneTask /\ Progress /\ Wiped
-----------------------------------------------------------------------------
(* Facts about the operators.                                              *)

\* The types and the relations of the fields of a device.
LEMMA DeviceFacts ==
    ASSUME TypeOK
    PROVE  /\ dev.zoned \in BOOLEAN
           /\ dev.blocks \in Nat
           /\ dev.xfer \in Nat \ {0}
           /\ dev.zones \in Nat
           /\ dev.zone_size \in Nat \ {0}
           /\ dev.per_buf \in Nat
           /\ zones_to_print \in Nat
           /\ zones_to_print <= dev.zones
           /\ lba_count \in Nat
           /\ lba_count <= remain_ns_blk
           /\ remain_ns_blk > 0 => lba_count > 0
<1>1. dev \in Device /\ remain_ns_blk \in Nat /\ g_zone_report_limit \in Nat
  BY DEF TypeOK
<1>2. /\ dev.zoned \in BOOLEAN /\ dev.blocks \in Nat /\ dev.xfer \in Nat \ {0}
      /\ dev.zones \in Nat /\ dev.zone_size \in Nat \ {0} /\ dev.per_buf \in Nat
  BY <1>1 DEF Device
<1>3. zones_to_print \in Nat /\ zones_to_print <= dev.zones
  BY <1>1, <1>2 DEF zones_to_print
<1>4. lba_count \in Nat /\ lba_count <= remain_ns_blk /\ (remain_ns_blk > 0 => lba_count > 0)
  BY <1>1, <1>2 DEF lba_count
<1> QED BY <1>2, <1>3, <1>4

\* The derived quantities depend on the device and the loop only.
LEMMA Framed ==
    ASSUME UNCHANGED inputVars
    PROVE  /\ Lbas' = Lbas
           /\ zones_to_print' = zones_to_print
           /\ \A c : Extent(c)' = Extent(c)
           /\ UNCHANGED remain_ns_blk => lba_count' = lba_count
BY DEF inputVars, Lbas, zones_to_print, Extent, lba_count

\* A poll while the stack task is in flight finds exactly that task.
LEMMA PollsTask ==
    ASSUME TypeOK, OneTask, pc \in Waits, NEW S \in SUBSET cq, Poll(S)
    PROVE  /\ S = {task}
           /\ Flying = {task}
           /\ Flying' = {}
           /\ inflight' \cap cq' = {}
           /\ outstanding_commands' = 0
<1>1. S = {task} /\ Flying = {task} /\ cq = {task} /\ inflight = {}
  BY DEF Poll, Reap, OneTask, Flying
<1>2. Cardinality(S) = 1
  BY <1>1, FS_Singleton
<1>3. Flying' = {} /\ inflight' \cap cq' = {}
  BY <1>1 DEF Poll, Reap, Flying
<1>4. outstanding_commands' = 0
  BY <1>1, <1>2 DEF Poll, OneTask, Waits
<1> QED BY <1>1, <1>3, <1>4

\* Issue hands the new stack task to an idle driver, or ends the process.
LEMMA IssuesTask ==
    ASSUME TypeOK, OneTask, pc \notin Waits, pc # "failed",
           NEW c \in Tasks, NEW next \in Waits, Issue(c, next)
    PROVE  /\ task' = c
           /\ outstanding_commands' = 1
           /\ inflight' \cap cq' = {}
           /\ QpairTypeOK(Tasks)'
           /\ \/ pc' = next /\ Flying' = {c}
              \/ pc' = "failed" /\ Flying' = {}
<1>1. Flying = {} /\ outstanding_commands = 0
  BY DEF OneTask
<1>2. task' = c /\ outstanding_commands' = 1
  BY <1>1 DEF Issue
<1>3. CASE pc' = next /\ Accept(c)
  BY <1>1, <1>2, <1>3 DEF Accept, Flying, TypeOK, QpairTypeOK
<1>4. CASE pc' = "failed" /\ UNCHANGED qpairVars
  BY <1>1, <1>2, <1>4 DEF qpairVars, Flying, TypeOK, QpairTypeOK
<1> QED BY <1>3, <1>4 DEF Issue
-----------------------------------------------------------------------------
(* The invariant.                                                          *)

\* The inductive invariant holds before main runs.
LEMMA InitInv == Init => IInv
<1> SUFFICES ASSUME Init PROVE IInv
  OBVIOUS
<1>1. dev \in Device /\ g_zone_report_limit \in Nat /\ dev.blocks \in Nat
  BY AdminAssumption DEF Init, Device
<1>2. TypeOK
  BY <1>1 DEF Init, TypeOK, QpairTypeOK, Tasks, NoTask
<1>3. OneTask /\ Progress
  BY DEF Init, OneTask, Progress, Waits, Flying
<1>4. Wiped
  BY <1>1 DEF Init, Wiped, WipedUpTo, Frontier, Lbas
<1> QED BY <1>2, <1>3, <1>4 DEF IInv

\* Every step of main keeps the invariant.
LEMMA StepInv == IInv /\ [Next]_vars => IInv'
<1> SUFFICES ASSUME IInv, [Next]_vars PROVE IInv'
  OBVIOUS
<1> USE DEF inputVars, loopVars, wipeVars, reportVars, qpairVars, Waits
<1>i. TypeOK /\ OneTask /\ Progress /\ Wiped
  BY DEF IInv
<1>u. UNCHANGED inputVars
  BY DEF Next, vars, Main, DeviceAnswers, Terminated, ResetAllZone, WriteAllZero, ZeroChunk,
         PollWipe, NextChunk, ResetReturns, ReportZone, RequestReport, PollReport, PrintZones,
         ReportReturns
<1>p. /\ Lbas' = Lbas
      /\ zones_to_print' = zones_to_print
      /\ \A c : Extent(c)' = Extent(c)
      /\ UNCHANGED remain_ns_blk => lba_count' = lba_count
      /\ UNCHANGED dev
  BY <1>u, Framed
<1>d. /\ dev.blocks \in Nat
      /\ dev.zones \in Nat
      /\ dev.zone_size \in Nat
      /\ zones_to_print \in Nat
      /\ lba_count \in Nat
      /\ lba_count <= remain_ns_blk
      /\ remain_ns_blk > 0 => lba_count > 0
      /\ remain_ns_blk \in Nat
      /\ slba \in Nat
      /\ handled_zones \in Nat
  BY <1>i, DeviceFacts DEF TypeOK
<1>1. CASE ResetAllZone
  <2> DEFINE c == [opc |-> "ZONE_MGMT_SEND", slba |-> 0, nlb |-> 0]
  <2>1. c \in Tasks /\ c.opc = "ZONE_MGMT_SEND"
    BY DEF Tasks
  <2>2. /\ task' = c
        /\ outstanding_commands' = 1
        /\ inflight' \cap cq' = {}
        /\ QpairTypeOK(Tasks)'
        /\ \/ pc' = "wait_reset" /\ Flying' = {c}
           \/ pc' = "failed" /\ Flying' = {}
    BY <1>1, <1>i, <2>1, IssuesTask DEF ResetAllZone
  <2>3. TypeOK'
    BY <1>1, <1>i, <1>p, <2>1, <2>2 DEF ResetAllZone, TypeOK
  <2>4. OneTask' /\ Progress'
    BY <2>1, <2>2 DEF OneTask, Progress
  <2>5. Wiped'
    BY <1>1, <1>i, <1>p, <2>2 DEF ResetAllZone, Wiped, WipedUpTo, Frontier
  <2> QED BY <2>3, <2>4, <2>5 DEF IInv
<1>2. CASE WriteAllZero
  <2>1. TypeOK'
    BY <1>2, <1>i, <1>p, <1>d DEF WriteAllZero, TypeOK, QpairTypeOK
  <2>2. OneTask' /\ Progress'
    BY <1>2, <1>i, <1>p, <1>d DEF WriteAllZero, OneTask, Progress, Flying
  <2>3. Wiped'
    BY <1>2, <1>i, <1>p DEF WriteAllZero, Wiped, WipedUpTo, Frontier
  <2> QED BY <2>1, <2>2, <2>3 DEF IInv
<1>3. CASE ZeroChunk
  <2> DEFINE c == [opc |-> "WRITE_ZEROES", slba |-> slba, nlb |-> lba_count]
  <2>1. c \in Tasks /\ c.opc = "WRITE_ZEROES"
    BY <1>d DEF Tasks
  <2>2. /\ task' = c
        /\ outstanding_commands' = 1
        /\ inflight' \cap cq' = {}
        /\ QpairTypeOK(Tasks)'
        /\ \/ pc' = "wait_zero" /\ Flying' = {c}
           \/ pc' = "failed" /\ Flying' = {}
    BY <1>3, <1>i, <2>1, IssuesTask DEF ZeroChunk
  <2>3. TypeOK'
    BY <1>3, <1>i, <1>p, <2>1, <2>2 DEF ZeroChunk, TypeOK
  <2>4. OneTask'
    BY <2>2 DEF OneTask
  <2>5. remain_ns_blk > 0 /\ slba + remain_ns_blk = dev.blocks
    BY <1>3, <1>i, <1>d DEF ZeroChunk, Progress
  <2>6. Progress'
    BY <1>3, <1>p, <2>1, <2>2, <2>5 DEF ZeroChunk, Progress
  <2>7. Wiped'
    BY <1>3, <1>i, <1>p, <2>2 DEF ZeroChunk, Wiped, WipedUpTo, Frontier
  <2> QED BY <2>3, <2>4, <2>6, <2>7 DEF IInv
<1>4. ASSUME NEW ok \in BOOLEAN, PollWipe(ok) PROVE IInv'
  <2>1. PICK S \in SUBSET cq :
            /\ Poll(S)
            /\ LET blocks == UNION {Extent(c) : c \in S}
               IN IF ok
                  THEN /\ wiped' = [b \in Lbas |-> IF b \in blocks THEN wiped[b] + 1 ELSE wiped[b]]
                       /\ UNCHANGED lost
                  ELSE /\ lost' = lost \cup blocks
                       /\ UNCHANGED wiped
    BY <1>4 DEF PollWipe
  <2>2. /\ pc \in {"wait_zero", "wait_reset"}
        /\ UNCHANGED <<inputVars, pc, loopVars, reportVars>>
    BY <1>4 DEF PollWipe, Waiting
  <2>3. /\ S = {task}
        /\ Flying = {task}
        /\ Flying' = {}
        /\ inflight' \cap cq' = {}
        /\ outstanding_commands' = 0
    BY <1>i, <2>1, <2>2, PollsTask
  <2>4. UNION {Extent(c) : c \in S} = Extent(task)
    BY <2>3
  <2>5. IF ok
        THEN /\ wiped' = [b \in Lbas |-> IF b \in Extent(task) THEN wiped[b] + 1 ELSE wiped[b]]
             /\ UNCHANGED lost
        ELSE lost' = lost \cup Extent(task) /\ UNCHANGED wiped
    BY <2>1, <2>4
  <2>6. /\ pc = "wait_zero" => Extent(task) = slba .. slba + lba_count - 1
        /\ pc = "wait_reset" => Extent(task) = Lbas
    BY <1>i DEF Progress, Extent
  <2>7. Extent(task) \subseteq Lbas
    BY <1>i, <1>d, <2>2, <2>6 DEF Progress, Lbas
  <2>8. wiped' \in [Lbas -> Nat] /\ lost' \subseteq Lbas
    BY <1>i, <2>5, <2>7 DEF TypeOK
  <2>9. TypeOK'
    BY <1>i, <1>p, <2>1, <2>2, <2>3, <2>8 DEF TypeOK, QpairTypeOK, Poll, Reap
  <2>10. OneTask' /\ Progress'
    BY <1>i, <1>p, <2>2, <2>3 DEF OneTask, Progress
  <2>11. Frontier' = (IF pc = "wait_zero" THEN slba + lba_count ELSE dev.blocks)
    BY <1>p, <2>2, <2>3 DEF Frontier
  <2>12. WipedUpTo(IF pc = "wait_zero" THEN slba ELSE 0)
    BY <1>i, <2>2, <2>3 DEF Wiped, Frontier
  <2>13. WipedUpTo(Frontier)'
    <3> SUFFICES ASSUME NEW b \in Lbas
                 PROVE  /\ b < Frontier' => wiped'[b] = IF b \in lost' THEN 0 ELSE 1
                        /\ b >= Frontier' => wiped'[b] = 0 /\ b \notin lost'
      BY <1>p DEF WipedUpTo
    <3>1. b \in Nat /\ b < dev.blocks /\ wiped[b] \in Nat
      BY <1>i, <1>d DEF Lbas, TypeOK
    <3>2. CASE pc = "wait_zero"
      <4>1. b \in Extent(task) <=> slba <= b /\ b < slba + lba_count
        BY <1>d, <2>6, <3>1, <3>2
      <4>2. /\ b < slba => wiped[b] = IF b \in lost THEN 0 ELSE 1
            /\ b >= slba => wiped[b] = 0 /\ b \notin lost
        BY <2>12, <3>2 DEF WipedUpTo
      <4> QED BY <1>d, <2>5, <2>11, <3>1, <3>2, <4>1, <4>2
    <3>3. CASE pc = "wait_reset"
      <4>1. b \in Extent(task)
        BY <2>6, <3>3
      <4>2. wiped[b] = 0 /\ b \notin lost
        BY <2>12, <3>1, <3>3 DEF WipedUpTo
      <4> QED BY <1>d, <2>5, <2>11, <3>1, <3>3, <4>1, <4>2
    <3> QED BY <2>2, <3>2, <3>3
  <2>14. Wiped'
    BY <2>13 DEF Wiped
  <2> QED BY <2>9, <2>10, <2>14 DEF IInv
<1>5. CASE NextChunk
  <2>1. slba' \in Nat /\ remain_ns_blk' \in Nat /\ slba' + remain_ns_blk' = dev.blocks
    BY <1>5, <1>i, <1>d DEF NextChunk, Waited, Progress
  <2>2. TypeOK'
    BY <1>5, <1>i, <1>p, <2>1 DEF NextChunk, TypeOK, QpairTypeOK
  <2>3. Flying = {} /\ Flying' = {}
    BY <1>5, <1>i DEF NextChunk, Waited, OneTask, Flying
  <2>4. OneTask' /\ Progress'
    BY <1>5, <1>i, <1>p, <2>1, <2>3 DEF NextChunk, Waited, OneTask, Progress
  <2>5. Wiped'
    BY <1>5, <1>i, <1>p, <2>3 DEF NextChunk, Waited, Wiped, WipedUpTo, Frontier
  <2> QED BY <2>2, <2>4, <2>5 DEF IInv
<1>6. CASE ResetReturns
  <2>1. TypeOK'
    BY <1>6, <1>i, <1>p DEF ResetReturns, TypeOK, QpairTypeOK
  <2>2. Flying = {} /\ Flying' = {} /\ outstanding_commands = 0
    BY <1>6, <1>i DEF ResetReturns, Waited, OneTask, Flying
  <2>3. OneTask' /\ Progress'
    BY <1>6, <1>i, <2>2 DEF ResetReturns, OneTask, Progress
  <2>4. pc = "zero" => slba = dev.blocks
    BY <1>6, <1>i, <1>d DEF ResetReturns, Waited, Progress
  <2>5. Wiped'
    BY <1>6, <1>i, <1>p, <2>2, <2>4 DEF ResetReturns, Waited, Wiped, WipedUpTo, Frontier
  <2> QED BY <2>1, <2>3, <2>5 DEF IInv
<1>7. CASE ReportZone
  <2>1. TypeOK'
    BY <1>7, <1>i, <1>p DEF ReportZone, FreeIoQpair, TypeOK, QpairTypeOK
  <2>2. OneTask' /\ Progress'
    BY <1>7, <1>i, <1>p, <1>d DEF ReportZone, FreeIoQpair, OneTask, Progress, Flying
  <2>3. Wiped'
    BY <1>7, <1>i, <1>p DEF ReportZone, Wiped, WipedUpTo, Frontier
  <2> QED BY <2>1, <2>2, <2>3 DEF IInv
<1>8. CASE RequestReport
  <2> DEFINE c == [opc |-> "ZONE_MGMT_RECV", slba |-> slba, nlb |-> 0]
  <2>1. c \in Tasks /\ c.opc = "ZONE_MGMT_RECV"
    BY <1>d DEF Tasks
  <2>2. /\ task' = c
        /\ outstanding_commands' = 1
        /\ inflight' \cap cq' = {}
        /\ QpairTypeOK(Tasks)'
        /\ \/ pc' = "wait_report" /\ Flying' = {c}
           \/ pc' = "failed" /\ Flying' = {}
    BY <1>8, <1>i, <2>1, IssuesTask DEF RequestReport
  <2>3. TypeOK'
    BY <1>8, <1>i, <1>p, <2>1, <2>2 DEF RequestReport, TypeOK
  <2>4. OneTask' /\ Progress'
    BY <1>8, <1>i, <1>p, <2>1, <2>2 DEF RequestReport, OneTask, Progress
  <2>5. Wiped'
    BY <1>8, <1>i, <1>p, <2>2 DEF RequestReport, Wiped, WipedUpTo, Frontier
  <2> QED BY <2>3, <2>4, <2>5 DEF IInv
<1>9. ASSUME NEW ok \in BOOLEAN, PollReport(ok) PROVE IInv'
  <2>1. PICK S \in SUBSET cq : Poll(S)
    BY <1>9 DEF PollReport
  <2>2. /\ pc = "wait_report"
        /\ UNCHANGED <<inputVars, pc, loopVars, wipeVars, shown>>
        /\ buffered' \subseteq 0 .. dev.zones - 1
    BY <1>9, <1>i DEF PollReport, Waiting, TypeOK
  <2>3. Flying' = {} /\ inflight' \cap cq' = {} /\ outstanding_commands' = 0
    BY <1>i, <2>1, <2>2, PollsTask
  <2>4. TypeOK'
    BY <1>i, <1>p, <2>1, <2>2, <2>3 DEF TypeOK, QpairTypeOK, Poll, Reap
  <2>5. OneTask' /\ Progress'
    BY <1>i, <1>p, <2>2, <2>3 DEF OneTask, Progress
  <2>6. Wiped'
    BY <1>i, <1>p, <2>2 DEF Wiped, WipedUpTo, Frontier
  <2> QED BY <2>4, <2>5, <2>6 DEF IInv
<1>10. CASE PrintZones
  <2>1. zones_to_print - handled_zones \in Nat
    BY <1>10, <1>i, <1>d DEF PrintZones, Waited, Progress
  <2>2. (zones_to_print - handled_zones) * dev.zone_size \in Nat
    BY <1>d, <2>1
  <2>3. slba' \in Nat /\ handled_zones' \in Nat
    BY <1>10, <1>d, <2>2 DEF PrintZones
  <2>4. shown' \subseteq 0 .. dev.zones - 1
    BY <1>10, <1>i DEF PrintZones, TypeOK
  <2>5. TypeOK'
    BY <1>10, <1>i, <1>p, <2>3, <2>4 DEF PrintZones, TypeOK, QpairTypeOK
  <2>6. Flying = {} /\ Flying' = {}
    BY <1>10, <1>i DEF PrintZones, Waited, OneTask, Flying
  <2>7. OneTask' /\ Progress'
    BY <1>10, <1>i, <1>p, <1>d, <2>6 DEF PrintZones, Waited, OneTask, Progress
  <2>8. Wiped'
    BY <1>10, <1>i, <1>p DEF PrintZones, Waited, Wiped, WipedUpTo, Frontier
  <2> QED BY <2>5, <2>7, <2>8 DEF IInv
<1>11. CASE ReportReturns
  <2>1. TypeOK'
    BY <1>11, <1>i, <1>p DEF ReportReturns, FreeIoQpair, TypeOK, QpairTypeOK
  <2>2. OneTask' /\ Progress'
    BY <1>11, <1>i DEF ReportReturns, FreeIoQpair, OneTask, Progress, Flying
  <2>3. Wiped'
    BY <1>11, <1>i, <1>p DEF ReportReturns, Wiped, WipedUpTo, Frontier
  <2> QED BY <2>1, <2>2, <2>3 DEF IInv
<1>12. CASE DeviceAnswers
  <2>1. PICK c \in inflight : DeviceComplete(c)
    BY <1>12 DEF DeviceAnswers
  <2>2. Flying' = Flying /\ inflight' \cap cq' = {} /\ QpairTypeOK(Tasks)'
    BY <1>i, <2>1 DEF DeviceComplete, Flying, OneTask, TypeOK, QpairTypeOK
  <2>3. UNCHANGED <<inputVars, pc, loopVars, outstanding_commands, wipeVars, reportVars>>
    BY <1>12 DEF DeviceAnswers
  <2>4. TypeOK'
    BY <1>i, <1>p, <2>2, <2>3 DEF TypeOK
  <2>5. OneTask' /\ Progress' /\ Wiped'
    BY <1>i, <1>p, <2>2, <2>3 DEF OneTask, Progress, Wiped, WipedUpTo, Frontier
  <2> QED BY <2>4, <2>5 DEF IInv
<1>13. CASE UNCHANGED vars
  <2>1. Flying' = Flying
    BY <1>13 DEF vars, Flying
  <2>2. TypeOK'
    BY <1>13, <1>i, <1>p DEF vars, TypeOK, QpairTypeOK
  <2>3. OneTask' /\ Progress' /\ Wiped'
    BY <1>13, <1>i, <1>p, <2>1 DEF vars, OneTask, Progress, Wiped, WipedUpTo, Frontier
  <2> QED BY <2>2, <2>3 DEF IInv
<1> QED
  BY <1>1, <1>2, <1>3, <1>4, <1>5, <1>6, <1>7, <1>8, <1>9, <1>10, <1>11, <1>12, <1>13
  DEF Next, Main, Terminated
-----------------------------------------------------------------------------
(* The theorems.                                                           *)

\* Every reachable state satisfies the inductive invariant.
THEOREM Invariance == Spec => []IInv
BY InitInv, StepInv, PTL DEF Spec

\* For every device: the loops keep their types; no cursor goes negative.
THEOREM TypeCorrect == Spec => []TypeOK
<1>1. IInv => TypeOK
  BY DEF IInv
<1> QED BY <1>1, Invariance, PTL

\* reset_ns and report_zone leave nothing outstanding: the step TraceReplayer
\* takes for each of them is sound.
THEOREM QuietReturn == Spec => []QuietAtReturn
<1>1. IInv => QuietAtReturn
  BY DEF IInv, OneTask, QuietAtReturn, Waits
<1> QED BY <1>1, Invariance, PTL

\* A callback reads the stack task of the command it belongs to, while the
\* function that owns it is waiting.
THEOREM TaskOnStack == Spec => []StackTask
<1>1. IInv => StackTask
  BY DEF IInv, OneTask, StackTask, QuietAtReturn, Waits
<1> QED BY <1>1, Invariance, PTL

\* No write-zeroes command is empty or leaves the namespace.
THEOREM ZeroesBounded == Spec => []ZeroesInRange
<1>1. ASSUME IInv, NEW c \in Flying, c.opc = "WRITE_ZEROES"
      PROVE  c.nlb > 0 /\ c.slba + c.nlb <= dev.blocks
  <2>1. c = task /\ pc = "wait_zero"
    BY <1>1 DEF IInv, OneTask, Progress, Waits
  <2>2. task.slba = slba /\ task.nlb = lba_count /\ remain_ns_blk > 0
        /\ slba + remain_ns_blk = dev.blocks
    BY <1>1, <2>1 DEF IInv, Progress
  <2>3. lba_count \in Nat /\ lba_count <= remain_ns_blk /\ lba_count > 0
        /\ slba \in Nat /\ remain_ns_blk \in Nat /\ dev.blocks \in Nat
    BY <1>1, <2>2, DeviceFacts DEF IInv, TypeOK
  <2> QED BY <2>1, <2>2, <2>3
<1>2. IInv => ZeroesInRange
  BY <1>1 DEF ZeroesInRange
<1> QED BY <1>2, Invariance, PTL

\* When reset_ns has returned, every block has been wiped exactly once, except
\* those of the commands the device failed, and none behind the namespace.
THEOREM EachBlockOnce == Spec => []WipedOnce
<1>1. ASSUME IInv, pc \in {"replay", "report", "wait_report", "done"}, NEW b \in Lbas
      PROVE  wiped[b] = IF b \in lost THEN 0 ELSE 1
  <2>1. WipedUpTo(dev.blocks)
    BY <1>1 DEF IInv, Wiped, Frontier
  <2>2. b < dev.blocks
    BY <1>1, DeviceFacts DEF IInv, Lbas
  <2> QED BY <2>1, <2>2 DEF WipedUpTo
<1>2. IInv /\ ZeroesInRange => WipedOnce
  BY <1>1 DEF WipedOnce
<1> QED BY <1>2, Invariance, ZeroesBounded, PTL
-----------------------------------------------------------------------------
(* Both functions run out of steps.                                        *)

\* The phases of the two functions, the end of the report loop set apart, ...
Phase == IF pc = "report" /\ handled_zones >= zones_to_print THEN "reported" ELSE pc

\* ... the steps that are left from each, without those of the loop of write_all_zero,
Rank == [failed |-> 0, done |-> 1, reported |-> 2, wait_report |-> 3, report |-> 6, replay |-> 7,
         wait_reset |-> 8, wait_zero |-> 8, zero |-> 11, reset |-> 12]

\* the steps of the command in flight (the device answers it and the program polls it),
Owed == IF inflight # {} THEN 2 ELSE IF cq # {} THEN 1 ELSE 0

\* and the blocks write_all_zero has still to issue.
Unzeroed ==
    IF pc = "reset" THEN dev.blocks ELSE IF pc \in {"zero", "wait_zero"} THEN remain_ns_blk ELSE 0

Variant == 4 * Unzeroed + Rank[Phase] + Owed

\* A function that waits has a command the device or the queue pair still holds.
WaitAnswered == outstanding_commands > 0 /\ pc \in Waits => Flying # {}

THEOREM WaitsAnswered == Spec => []WaitAnswered
<1>1. IInv => WaitAnswered
  BY DEF IInv, OneTask, WaitAnswered, Waits
<1> QED BY <1>1, Invariance, PTL

\* What each operation of the driver leaves to be done.
LEMMA OwedFacts ==
    ASSUME TypeOK, OneTask
    PROVE  /\ Owed \in 0 .. 2 /\ Owed' \in 0 .. 2
           /\ pc \notin Waits => Owed = 0
           /\ \A S \in SUBSET cq : pc \in Waits /\ Poll(S) => Owed' < Owed
           /\ \A c : DeviceComplete(c) => Owed' < Owed
           /\ FreeIoQpair => Owed' = 0
           /\ UNCHANGED <<inflight, cq>> => Owed' = Owed
<1>1. Owed \in 0 .. 2 /\ Owed' \in 0 .. 2
  BY DEF Owed
<1>2. pc \notin Waits => Owed = 0
  BY DEF OneTask, Flying, Owed
<1>3. ASSUME NEW S \in SUBSET cq, pc \in Waits, Poll(S) PROVE Owed' < Owed
  <2>1. S = {task} /\ Flying' = {}
    BY <1>3, PollsTask
  <2>2. cq # {}
    BY <2>1
  <2> QED BY <2>1, <2>2 DEF Owed, Flying
<1>4. ASSUME NEW c, DeviceComplete(c) PROVE Owed' < Owed
  <2>1. inflight \subseteq {task}
    BY DEF OneTask, Flying
  <2>2. inflight' = {} /\ cq' # {} /\ inflight # {}
    BY <1>4, <2>1 DEF DeviceComplete
  <2> QED BY <2>2 DEF Owed
<1>5. FreeIoQpair => Owed' = 0
  BY DEF FreeIoQpair, Owed
<1>6. UNCHANGED <<inflight, cq>> => Owed' = Owed
  BY DEF Owed
<1> QED BY <1>1, <1>2, <1>3, <1>4, <1>5, <1>6

\* Every step of reset_ns, of report_zone and of the device brings both functions
\* nearer to their return: Variant falls, whatever the device, the limit and the status
\* of the completions.  With WaitsAnswered this is what Terminates rests on, for every
\* instance.
THEOREM StepsRunOut == Spec => [](Variant \in Nat) /\ [][Variant' < Variant]_vars
<1>1. ASSUME IInv
      PROVE  /\ Variant \in Nat /\ Unzeroed \in Nat /\ Owed \in 0 .. 2 /\ Rank[Phase] \in 0 .. 12
             /\ zones_to_print \in Nat /\ handled_zones \in Nat /\ remain_ns_blk \in Nat
             /\ slba \in Nat /\ dev.blocks \in Nat
  <2>1. /\ zones_to_print \in Nat /\ handled_zones \in Nat /\ remain_ns_blk \in Nat
        /\ slba \in Nat /\ dev.blocks \in Nat
    BY <1>1, DeviceFacts DEF IInv, TypeOK
  <2>2. Unzeroed \in Nat
    BY <2>1 DEF Unzeroed
  <2>3. Rank[Phase] \in 0 .. 12
    BY <1>1 DEF IInv, TypeOK, Rank, Phase
  <2>4. Owed \in 0 .. 2
    BY <1>1, OwedFacts DEF IInv
  <2> QED BY <2>1, <2>2, <2>3, <2>4 DEF Variant
<1>2. ASSUME IInv, [Next]_vars, vars' # vars PROVE Variant' < Variant
  <2>1. /\ Unzeroed \in Nat /\ Owed \in 0 .. 2 /\ Rank[Phase] \in 0 .. 12
        /\ zones_to_print \in Nat /\ handled_zones \in Nat /\ remain_ns_blk \in Nat
        /\ slba \in Nat /\ dev.blocks \in Nat
    BY <1>1, <1>2
  <2>2. /\ Owed' \in 0 .. 2
        /\ pc \notin Waits => Owed = 0
        /\ \A S \in SUBSET cq : pc \in Waits /\ Poll(S) => Owed' < Owed
        /\ \A c : DeviceComplete(c) => Owed' < Owed
        /\ FreeIoQpair => Owed' = 0
        /\ UNCHANGED <<inflight, cq>> => Owed' = Owed
    BY <1>2, OwedFacts DEF IInv
  <2>3. UNCHANGED inputVars => zones_to_print' = zones_to_print /\ dev' = dev
    BY Framed DEF inputVars
  <2>4. ASSUME Unzeroed' \in Nat, Unzeroed' <= Unzeroed, Rank[Phase]' \in 0 .. 12,
               Rank[Phase]' + Owed' < Rank[Phase] + Owed
        PROVE  Variant' < Variant
    BY <2>1, <2>2, <2>4 DEF Variant
  <2> USE DEF qpairVars, loopVars
  <2>5. CASE ResetAllZone
    <3>1. pc = "reset" /\ Owed = 0
      BY <2>2, <2>5 DEF ResetAllZone, Waits
    <3>2. pc' \in {"wait_reset", "failed"}
      BY <2>5 DEF ResetAllZone, Issue
    <3>3. Unzeroed' = 0 /\ Rank[Phase] = 12 /\ Rank[Phase]' \in {0, 8}
      BY <3>1, <3>2 DEF Unzeroed, Rank, Phase
    <3> QED BY <2>1, <2>2, <2>4, <3>1, <3>3
  <2>6. CASE WriteAllZero
    <3>1. /\ pc = "reset" /\ pc' = "zero" /\ remain_ns_blk' = dev.blocks /\ Owed' = Owed
      BY <2>2, <2>6 DEF WriteAllZero
    <3>2. Unzeroed' = Unzeroed /\ Rank[Phase] = 12 /\ Rank[Phase]' = 11
      BY <3>1 DEF Unzeroed, Rank, Phase
    <3> QED BY <2>1, <2>2, <2>4, <3>1, <3>2
  <2>7. CASE ZeroChunk
    <3>1. pc = "zero" /\ Owed = 0 /\ remain_ns_blk' = remain_ns_blk
      BY <2>2, <2>7 DEF ZeroChunk, Waits
    <3>2. pc' \in {"wait_zero", "failed"}
      BY <2>7 DEF ZeroChunk, Issue
    <3>3. Unzeroed' \in {0, Unzeroed} /\ Rank[Phase] = 11 /\ Rank[Phase]' \in {0, 8}
      BY <3>1, <3>2 DEF Unzeroed, Rank, Phase
    <3> QED BY <2>1, <2>2, <2>4, <3>1, <3>3
  <2>8. ASSUME NEW ok \in BOOLEAN, PollWipe(ok) \/ PollReport(ok) PROVE Variant' < Variant
    <3>1. PICK S \in SUBSET cq : Poll(S)
      BY <2>8 DEF PollWipe, PollReport
    <3>2. pc \in Waits
      BY <2>8 DEF PollWipe, PollReport, Waiting, Waits
    <3>3. UNCHANGED <<inputVars, pc, remain_ns_blk, handled_zones>>
      BY <2>8 DEF PollWipe, PollReport
    <3>4. Unzeroed' = Unzeroed /\ Rank[Phase]' = Rank[Phase]
      BY <2>3, <3>3 DEF Unzeroed, Phase, Rank, inputVars
    <3> QED BY <2>1, <2>2, <2>4, <3>1, <3>2, <3>4
  <2>9. CASE NextChunk
    <3>1. lba_count \in Nat /\ lba_count > 0 /\ lba_count <= remain_ns_blk
      BY <1>2, <2>9, DeviceFacts DEF NextChunk, Waited, IInv, Progress
    <3>2. /\ pc = "wait_zero" /\ pc' = "zero" /\ remain_ns_blk' = remain_ns_blk - lba_count
          /\ Owed' = Owed
      BY <2>2, <2>9 DEF NextChunk, Waited
    <3>3. Unzeroed' + 1 <= Unzeroed /\ Unzeroed' \in Nat
      BY <2>1, <3>1, <3>2 DEF Unzeroed
    <3>4. Rank[Phase] = 8 /\ Rank[Phase]' = 11
      BY <3>2 DEF Rank, Phase
    <3>5. Variant = 4 * Unzeroed + 8 + Owed /\ Variant' = 4 * Unzeroed' + 11 + Owed
      BY <3>2, <3>4 DEF Variant
    <3>6. Unzeroed \in Nat /\ Owed \in 0 .. 2
      BY <2>1
    <3>7. \A u, v \in Nat, o \in 0 .. 2 : v + 1 <= u => 4 * v + 11 + o < 4 * u + 8 + o
      OBVIOUS
    <3> QED BY <3>3, <3>5, <3>6, <3>7
  <2>10. CASE ResetReturns
    <3>1. /\ pc \in {"zero", "wait_reset"} /\ pc' = "replay" /\ remain_ns_blk' = remain_ns_blk
          /\ Owed' = Owed
      BY <2>2, <2>10 DEF ResetReturns, Waited
    <3>2. Unzeroed' = 0 /\ Rank[Phase] \in {8, 11} /\ Rank[Phase]' = 7
      BY <3>1 DEF Unzeroed, Rank, Phase
    <3> QED BY <2>1, <2>2, <2>4, <3>1, <3>2
  <2>11. CASE ReportZone
    <3>1. /\ pc = "replay" /\ pc' \in {"report", "failed", "done"}
          /\ remain_ns_blk' = remain_ns_blk /\ Owed = 0
      BY <2>2, <2>11 DEF ReportZone, Waits
    <3>2. Owed' = 0
      BY <2>2, <2>11, <3>1 DEF ReportZone
    <3>3. Unzeroed' = Unzeroed /\ Rank[Phase] = 7 /\ Rank[Phase]' \in {0, 1, 2, 6}
      BY <3>1 DEF Unzeroed, Rank, Phase
    <3> QED BY <2>1, <2>4, <3>1, <3>2, <3>3
  <2>12. CASE RequestReport
    <3>1. /\ pc = "report" /\ handled_zones < zones_to_print /\ Owed = 0
          /\ remain_ns_blk' = remain_ns_blk
      BY <2>2, <2>12 DEF RequestReport, Waits
    <3>2. pc' \in {"wait_report", "failed"}
      BY <2>12 DEF RequestReport, Issue
    <3>3. Unzeroed' = Unzeroed /\ Rank[Phase] = 6 /\ Rank[Phase]' \in {0, 3}
      BY <2>1, <3>1, <3>2 DEF Unzeroed, Rank, Phase
    <3> QED BY <2>1, <2>2, <2>4, <3>1, <3>3
  <2>13. CASE PrintZones
    <3>1. /\ pc = "wait_report" /\ pc' = "report" /\ handled_zones' = zones_to_print
          /\ remain_ns_blk' = remain_ns_blk /\ Owed' = Owed /\ zones_to_print' = zones_to_print
      BY <2>2, <2>3, <2>13 DEF PrintZones, Waited
    <3>2. Phase' = "reported"
      BY <2>1, <3>1 DEF Phase
    <3>3. Unzeroed' = Unzeroed /\ Rank[Phase] = 3 /\ Rank[Phase]' = 2
      BY <3>1, <3>2 DEF Unzeroed, Rank, Phase
    <3> QED BY <2>1, <2>2, <2>4, <3>1, <3>3
  <2>14. CASE ReportReturns
    <3>1. /\ pc = "report" /\ handled_zones >= zones_to_print /\ pc' = "done"
          /\ remain_ns_blk' = remain_ns_blk /\ Owed' = 0
      BY <2>2, <2>14 DEF ReportReturns
    <3>2. Unzeroed' = Unzeroed /\ Rank[Phase] = 2 /\ Rank[Phase]' = 1
      BY <3>1 DEF Unzeroed, Rank, Phase
    <3> QED BY <2>1, <2>4, <3>1, <3>2
  <2>15. CASE DeviceAnswers
    <3>1. (UNCHANGED <<inputVars, pc, remain_ns_blk, handled_zones>>) /\ \E c : DeviceComplete(c)
      BY <2>15 DEF DeviceAnswers
    <3>2. Unzeroed' = Unzeroed /\ Rank[Phase]' = Rank[Phase]
      BY <2>3, <3>1 DEF Unzeroed, Phase, Rank, inputVars
    <3> QED BY <2>1, <2>2, <2>4, <3>1, <3>2
  <2> QED
    BY <1>2, <2>5, <2>6, <2>7, <2>8, <2>9, <2>10, <2>11, <2>12, <2>13, <2>14, <2>15
       DEF Next, Main, Terminated
<1>3. IInv /\ [Next]_vars => [Variant' < Variant]_vars
  BY <1>2
<1> QED BY <1>1, <1>3, Invariance, PTL DEF Spec
=============================================================================
