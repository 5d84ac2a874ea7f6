--------------------------- MODULE TraceIoProofs ----------------------------
(***************************************************************************)
(* Theorems about TraceIo: the types, the tracepoints that are switched on *)
(* and the safety half of RecorderStopped.  IInv is the inductive          *)
(* invariant they follow from.                                             *)
(***************************************************************************)
EXTENDS TraceIo, TLAPS

\* What an uninterrupted application leaves behind: once it has returned, a child
\* that is or will be a recorder is recording, ends at a SIGINT, and has one on
\* its way.
RecorderDoomed ==
    pc["app"] = "returned" /\ interrupts = 0 /\ pc["child"] \in Recorder \cup {"forked"} =>
        pc["child"] = "recording" /\ "child" \in pending \ handler

\* The child exists once the application has its pid, and only then is it signalled;
\* it has no pid of its own to signal.  A recorder has lost the handler by execvp.
Forked ==
    /\ pc["child"] # "absent" <=> spdk_pid["app"] = "child"
    /\ pc["child"] # "absent" => pc["app"] \notin {"tokens", "record"}
    /\ "child" \in pending => pc["child"] # "absent"
    /\ spdk_pid["child"] = "0"
    /\ pc["child"] \in Recorder => "child" \notin handler

\* The second of sleep gives the recorder the time to start.
Slept ==
    interrupts = 0 /\ pc["app"] \in {"stop", "returned"} =>
        pc["child"] \notin {"forked", "starting"}

IInv == TypeOK /\ EnabledExact /\ Forked /\ Slept /\ RecorderDoomed

\* The inductive invariant holds before main runs.
LEMMA Initially == Init => IInv
<1> SUFFICES ASSUME Init PROVE IInv
  OBVIOUS
<1>1. \A a \in GroupArgs : a \in Seq(Tokens) /\ Len(a) \in Nat
  BY TraceIoAssumption
<1>2. TypeOK
  BY <1>1, TraceIoAssumption DEF Init, TypeOK, Places, Processes
<1>3. EnabledExact
  <2>1. 1 .. token = {} /\ token = 0
    BY DEF Init
  <2> QED BY <2>1 DEF Init, EnabledExact, Processes
<1>4. Forked /\ Slept /\ RecorderDoomed
  BY DEF Init, Forked, Slept, RecorderDoomed, Recorder, Processes
<1> QED BY <1>2, <1>3, <1>4 DEF IInv

\* A step that takes no token keeps the tracepoints exact if it brings the
\* application past enable_spdk_trace only after the last token.
LEMMA SameTokens ==
    ASSUME EnabledExact, UNCHANGED <<argVars, traceVars>>,
           pc'["app"] \in {"record", "attach", "load"} =>
               pc["app"] \in {"record", "attach", "load"} \/ token = Len(tpoint_group_name)
    PROVE  EnabledExact'
BY DEF EnabledExact, argVars, traceVars

\* enable_spdk_trace adds what its next token selects.
LEMMA TakeTokenInv == IInv /\ TakeToken => IInv'
<1> SUFFICES ASSUME IInv, TakeToken PROVE IInv'
  OBVIOUS
<1> DEFINE k == tpoint_group_name[token + 1]
<1>1. /\ token \in Nat /\ token' = token + 1 /\ token + 1 \in 1 .. Len(tpoint_group_name)
      /\ tpoint_group_name \in Seq(Tokens) /\ tpoint_group_name' = tpoint_group_name
  BY DEF IInv, TypeOK, TakeToken, argVars
<1>2. k \in Tokens /\ Selected(k) \in SUBSET Tpoints
  <2>1. k \in Tokens
    BY <1>1
  <2> QED BY <2>1 DEF Tokens, Selected
<1>3. enabled' = [g \in Groups |-> enabled[g] \cup IF g \in k.groups THEN Selected(k) ELSE {}]
  BY DEF TakeToken
<1>4. UNCHANGED <<g_spdk_trace_record, pc, spdk_pid, handler, pending, interrupts, holding>>
  BY DEF TakeToken, argVars, signalVars
<1>5. TypeOK'
  <2>1. enabled' \in [Groups -> SUBSET Tpoints]
    <3> HIDE DEF k
    <3>1. enabled \in [Groups -> SUBSET Tpoints]
      BY DEF IInv, TypeOK
    <3> QED BY <1>2, <1>3, <3>1
  <2>2. token' \in 0 .. Len(tpoint_group_name')
    BY <1>1
  <2> QED BY <1>1, <1>4, <2>1, <2>2 DEF IInv, TypeOK
<1>6. ASSUME NEW g \in Groups
      PROVE  enabled'[g] = UNION {Selected(tpoint_group_name[n]) :
                  n \in {m \in 1 .. token + 1 : g \in tpoint_group_name[m].groups}}
  <2> DEFINE named(t) == {m \in 1 .. t : g \in tpoint_group_name[m].groups}
             on(t) == UNION {Selected(tpoint_group_name[n]) : n \in named(t)}
  <2>1. enabled[g] = on(token)
    BY DEF IInv, EnabledExact
  <2>2. named(token + 1) = named(token) \cup (IF g \in k.groups THEN {token + 1} ELSE {})
    <3>1. 1 .. token + 1 = (1 .. token) \cup {token + 1}
      BY <1>1
    <3> QED BY <3>1
  <2>3. on(token + 1) = on(token) \cup (IF g \in k.groups THEN Selected(k) ELSE {})
    <3> HIDE DEF named
    <3> QED BY <2>2
  <2> QED BY <1>3, <2>1, <2>3
<1>7. EnabledExact'
  BY <1>1, <1>4, <1>6 DEF EnabledExact, TakeToken
<1> QED BY <1>4, <1>5, <1>7 DEF IInv, Forked, Slept, RecorderDoomed

\* The other steps of the application before it attaches, and of the child.
LEMMA EarlyInv == IInv /\ (TraceFails \/ TraceEnabled \/ Fork \/ ForkFails \/ Child) => IInv'
<1> SUFFICES ASSUME IInv, TraceFails \/ TraceEnabled \/ Fork \/ ForkFails \/ Child PROVE IInv'
  OBVIOUS
<1> USE DEF IInv, Processes, Goto
<1>1. CASE TraceFails
  <2>1. TypeOK'
    BY <1>1 DEF TraceFails, TypeOK, Places, Recorder, Ended, argVars, traceVars, signalVars
  <2>2. EnabledExact'
    BY <1>1, SameTokens DEF TraceFails, TypeOK
  <2>3. Forked' /\ Slept' /\ RecorderDoomed'
    BY <1>1 DEF TraceFails, TypeOK, Forked, Slept, RecorderDoomed, Recorder, signalVars
  <2> QED BY <2>1, <2>2, <2>3
<1>2. CASE TraceEnabled
  <2>1. TypeOK'
    BY <1>2 DEF TraceEnabled, TypeOK, Places, Recorder, Ended, argVars, traceVars, signalVars
  <2>2. EnabledExact'
    BY <1>2, SameTokens DEF TraceEnabled, TypeOK
  <2>3. Forked' /\ Slept' /\ RecorderDoomed'
    BY <1>2 DEF TraceEnabled, TypeOK, Forked, Slept, RecorderDoomed, Recorder, signalVars
  <2> QED BY <2>1, <2>2, <2>3
<1>3. CASE Fork
  <2>1. TypeOK'
    BY <1>3 DEF Fork, TypeOK, Places, Recorder, Ended, argVars, traceVars, signalVars
  <2>2. EnabledExact'
    BY <1>3, SameTokens DEF Fork, TypeOK
  <2>3. Forked' /\ Slept' /\ RecorderDoomed'
    BY <1>3 DEF Fork, TypeOK, Forked, Slept, RecorderDoomed, Recorder, signalVars
  <2> QED BY <2>1, <2>2, <2>3
<1>4. CASE ForkFails
  <2>1. TypeOK'
    BY <1>4 DEF ForkFails, TypeOK, Places, Recorder, Ended, argVars, traceVars, signalVars
  <2>2. EnabledExact'
    BY <1>4, SameTokens DEF ForkFails, TypeOK
  <2>3. Forked' /\ Slept' /\ RecorderDoomed'
    BY <1>4 DEF ForkFails, TypeOK, Forked, Slept, RecorderDoomed, Recorder, signalVars
  <2> QED BY <2>1, <2>2, <2>3
<1>5. CASE Exec
  <2>1. TypeOK'
    BY <1>5 DEF Exec, TypeOK, Places, Recorder, Ended, argVars, traceVars, signalVars
  <2>2. EnabledExact'
    BY <1>5, SameTokens DEF Exec, TypeOK
  <2>3. Forked' /\ Slept' /\ RecorderDoomed'
    BY <1>5 DEF Exec, TypeOK, Forked, Slept, RecorderDoomed, Recorder, signalVars
  <2> QED BY <2>1, <2>2, <2>3
<1>6. CASE ExecFails
  <2>1. TypeOK'
    BY <1>6 DEF ExecFails, TypeOK, Places, Recorder, Ended, argVars, traceVars, signalVars
  <2>2. EnabledExact'
    BY <1>6, SameTokens DEF ExecFails, TypeOK
  <2>3. Forked' /\ Slept' /\ RecorderDoomed'
    BY <1>6 DEF ExecFails, TypeOK, Forked, Slept, RecorderDoomed, Recorder, signalVars
  <2> QED BY <2>1, <2>2, <2>3
<1>7. CASE RecorderReady
  <2>1. TypeOK'
    BY <1>7 DEF RecorderReady, TypeOK, Places, Recorder, Ended, argVars, traceVars, signalVars
  <2>2. EnabledExact'
    BY <1>7, SameTokens DEF RecorderReady, TypeOK
  <2>3. Forked' /\ Slept' /\ RecorderDoomed'
    BY <1>7 DEF RecorderReady, TypeOK, Forked, Slept, RecorderDoomed, Recorder, signalVars
  <2> QED BY <2>1, <2>2, <2>3
<1> QED BY <1>1, <1>2, <1>3, <1>4, <1>5, <1>6, <1>7 DEF Child

\* The rest of main(), in either copy, and the signals.
LEMMA FrameInv == ASSUME NEW p \in Processes, IInv, Frame(p) \/ Deliver(p) PROVE IInv'
<1> USE DEF IInv, Processes, Goto
<1>1. CASE Attach(p)
  <2>1. TypeOK'
    <3>1. pc' \in [Processes -> Places \cup Recorder \cup Ended]
      BY <1>1 DEF Attach, TypeOK, Places, Recorder, Ended
    <3>2. holding' \subseteq Processes
      BY <1>1 DEF Attach, TypeOK
    <3> QED BY <1>1, <3>1, <3>2 DEF Attach, TypeOK, argVars, traceVars, signalVars
  <2>2. EnabledExact'
    BY <1>1, SameTokens DEF Attach, TypeOK
  <2>3. Forked' /\ Slept' /\ RecorderDoomed'
    BY <1>1 DEF Attach, TypeOK, Forked, Slept, RecorderDoomed, Recorder, Ended, signalVars
  <2> QED BY <2>1, <2>2, <2>3
<1>2. CASE Load(p)
  <2>1. TypeOK'
    <3>1. pc' \in [Processes -> Places \cup Recorder \cup Ended]
      BY <1>2 DEF Load, TypeOK, Places, Recorder, Ended
    <3>2. holding' \subseteq Processes
      BY <1>2 DEF Load, TypeOK
    <3> QED BY <1>2, <3>1, <3>2 DEF Load, TypeOK, argVars, traceVars, signalVars
  <2>2. EnabledExact'
    BY <1>2, SameTokens DEF Load, TypeOK
  <2>3. Forked' /\ Slept' /\ RecorderDoomed'
    BY <1>2 DEF Load, TypeOK, Forked, Slept, RecorderDoomed, Recorder, Ended, signalVars
  <2> QED BY <2>1, <2>2, <2>3
<1>3. CASE Cleanup(p)
  <2>1. TypeOK'
    BY <1>3 DEF Cleanup, TypeOK, Places, Recorder, Ended, argVars, traceVars, signalVars
  <2>2. EnabledExact'
    BY <1>3, SameTokens DEF Cleanup, TypeOK
  <2>3. Forked' /\ Slept' /\ RecorderDoomed'
    BY <1>3 DEF Cleanup, TypeOK, Forked, Slept, RecorderDoomed, Recorder, Ended, signalVars
  <2> QED BY <2>1, <2>2, <2>3
<1>4. CASE Sleep(p)
  <2>1. TypeOK'
    BY <1>4 DEF Sleep, TypeOK, Places, Recorder, Ended, argVars, traceVars, signalVars
  <2>2. EnabledExact'
    BY <1>4, SameTokens DEF Sleep, TypeOK
  <2>3. Forked' /\ Slept' /\ RecorderDoomed'
    BY <1>4 DEF Sleep, TypeOK, Forked, Slept, RecorderDoomed, Recorder, Ended, signalVars
  <2> QED BY <2>1, <2>2, <2>3
<1>5. CASE Stop(p)
  <2>1. TypeOK'
    BY <1>5 DEF Stop, TypeOK, Places, Recorder, Ended, argVars, traceVars, signalVars
  <2>2. EnabledExact'
    BY <1>5, SameTokens DEF Stop, TypeOK
  <2>3. Forked' /\ Slept' /\ RecorderDoomed'
    BY <1>5 DEF Stop, TypeOK, Forked, Slept, RecorderDoomed, Recorder, Ended, signalVars
  <2> QED BY <2>1, <2>2, <2>3
<1>6. CASE Deliver(p)
  <2>1. TypeOK'
    BY <1>6 DEF Deliver, TypeOK, Places, Recorder, Ended, argVars, traceVars, signalVars
  <2>2. EnabledExact'
    BY <1>6, SameTokens DEF Deliver, TypeOK
  <2>3. CASE p = "app"
    BY <1>6, <2>1, <2>2, <2>3 DEF Deliver, TypeOK, Forked, Slept, RecorderDoomed, Recorder, Ended, signalVars
  <2>4. CASE p = "child"
    BY <1>6, <2>1, <2>2, <2>4 DEF Deliver, TypeOK, Forked, Slept, RecorderDoomed, Recorder, Ended, signalVars
  <2> QED BY <2>3, <2>4
<1> QED BY <1>1, <1>2, <1>3, <1>4, <1>5, <1>6 DEF Frame

\* Every step of the parent, of the recorder and of the user keeps the invariant.
LEMMA StepInv == IInv /\ [Next]_vars => IInv'
<1> SUFFICES ASSUME IInv, [Next]_vars PROVE IInv'
  OBVIOUS
<1>1. CASE App \/ Child
  BY <1>1, TakeTokenInv, EarlyInv DEF App
<1>2. CASE \E p \in Processes : Frame(p) \/ Deliver(p)
  BY <1>2, FrameInv
<1>3. CASE Interrupt
  <2>1. TypeOK'
    BY <1>3, TraceIoAssumption DEF IInv, Interrupt, TypeOK, argVars, traceVars
  <2>2. EnabledExact'
    BY <1>3, SameTokens DEF IInv, Interrupt
  <2>3. interrupts' # 0
    BY <1>3 DEF IInv, Interrupt, TypeOK
  <2> QED BY <1>3, <2>1, <2>2, <2>3 DEF IInv, Interrupt, Forked, Slept, RecorderDoomed
<1>4. CASE UNCHANGED vars
  BY <1>4 DEF IInv, TypeOK, EnabledExact, Forked, Slept, RecorderDoomed,
              vars, argVars, traceVars, signalVars
<1> QED BY <1>1, <1>2, <1>3, <1>4 DEF Next, Terminated

\* The inductive invariant: the types, the group mask against the calls that set it,
\* and where the forked recorder stands relative to the signal of its parent.
THEOREM Invariance == Spec => []IInv
<1> QED BY Initially, StepInv, PTL DEF Spec

\* Every variable keeps its type.
THEOREM TypeCorrect == Spec => []TypeOK
<1> QED BY Invariance, PTL DEF IInv

\* enable_spdk_trace switches on exactly what the tokens of -e select, for any
\* groups, tracepoints and arguments, and the application goes on only when it
\* accepted all of them.
THEOREM TracepointsExact == Spec => []EnabledExact
<1> QED BY Invariance, PTL DEF IInv

\* An application that returns uninterrupted has signalled its recorder, at a
\* time when the signal ends it: the order of fork, exec, load and
\* disable_spdk_trace_record leaves no other case.  That the signal is delivered
\* is RecorderStopped.
THEOREM RecorderSignalled == Spec => []RecorderDoomed
<1> QED BY Invariance, PTL DEF IInv
-----------------------------------------------------------------------------
(* The processes run out of steps.                                         *)

\* The steps a process has left from each place, the child's counted in the fork.
\* A process that hangs has none: its polls find nothing.
Rank == [tokens |-> 16, record |-> 15, forked |-> 7, attach |-> 6, load |-> 5, cleanup |-> 4,
         sleep |-> 3, stop |-> 2, starting |-> 1, recording |-> 0, absent |-> 0,
         hung |-> 0, returned |-> 0, exited |-> 0, killed |-> 0, stopped |-> 0]
Ranks == Rank[pc["app"]] + Rank[pc["child"]]

\* The signals on their way, and those the user may still send to both processes.
Signals == (IF "app" \in pending THEN 1 ELSE 0) + (IF "child" \in pending THEN 1 ELSE 0)
InterruptsLeft == MaxInterrupts - interrupts

TokensLeft == Len(tpoint_group_name) - token

Variant == TokensLeft + Ranks + Signals + 3 * InterruptsLeft

\* The variant is made of natural numbers.
LEMMA Measured ==
    ASSUME TypeOK
    PROVE  /\ TokensLeft \in Nat /\ Signals \in 0 .. 2 /\ InterruptsLeft \in Nat
           /\ Rank[pc["app"]] \in 0 .. 16 /\ Rank[pc["child"]] \in 0 .. 16
           /\ Ranks \in Nat
<1>1. ASSUME NEW p \in Places \cup Recorder \cup Ended PROVE Rank[p] \in 0 .. 16
  BY DEF Places, Recorder, Ended, Rank
<1>2. pc["app"] \in Places \cup Recorder \cup Ended /\ pc["child"] \in Places \cup Recorder \cup Ended
  BY DEF TypeOK, Processes
<1>3. Rank[pc["app"]] \in 0 .. 16 /\ Rank[pc["child"]] \in 0 .. 16
  BY <1>1, <1>2
<1>4. Ranks \in Nat
  BY <1>3 DEF Ranks
<1>5. TokensLeft \in Nat
  <2>1. Len(tpoint_group_name) \in Nat /\ token \in 0 .. Len(tpoint_group_name)
    BY DEF TypeOK
  <2> QED BY <2>1 DEF TokensLeft
<1>6. Signals \in 0 .. 2
  BY DEF Signals
<1>7. InterruptsLeft \in Nat
  BY TraceIoAssumption DEF TypeOK, InterruptsLeft
<1> QED BY <1>3, <1>4, <1>5, <1>6, <1>7

\* A process that goes on has fewer steps left, by so much as its place says.
LEMMA GoesOn ==
    ASSUME TypeOK, NEW p \in Processes, NEW l, Goto(p, l), Rank[l] \in Nat
    PROVE  Ranks' = Ranks - Rank[pc[p]] + Rank[l]
<1>1. p \in {"app", "child"} /\ pc \in [{"app", "child"} -> Places \cup Recorder \cup Ended]
  BY DEF Processes, TypeOK
<1>2. Rank[pc["app"]] \in 0 .. 16 /\ Rank[pc["child"]] \in 0 .. 16
  BY Measured
<1>3. Rank' = Rank
  BY DEF Rank
<1>4. CASE p = "app"
  <2>1. pc'["app"] = l /\ pc'["child"] = pc["child"]
    BY <1>1, <1>4 DEF Goto
  <2>2. Ranks' = Rank[l] + Rank[pc["child"]]
    BY <1>3, <2>1 DEF Ranks
  <2> QED BY <1>2, <1>4, <2>2 DEF Ranks
<1>5. CASE p = "child"
  <2>1. pc'["child"] = l /\ pc'["app"] = pc["app"]
    BY <1>1, <1>5 DEF Goto
  <2>2. Ranks' = Rank[pc["app"]] + Rank[l]
    BY <1>3, <2>1 DEF Ranks
  <2> QED BY <1>2, <1>5, <2>2 DEF Ranks
<1> QED BY <1>1, <1>4, <1>5

\* Every step of the application, of its child and of the user is one of finitely many:
\* Variant falls.  So no order of fork, exec, load, signals and exits sends the two
\* copies of main() round for ever.  A copy can still be left polling after a refused
\* zone report, which changes nothing ("hung"); that it is the only place where one
\* stays is ApplicationEnds, which needs no more beside this than that each copy is
\* scheduled and signals arrive.
THEOREM StepsRunOut == Spec => [](Variant \in Nat) /\ [][Variant' < Variant]_vars
<1>1. ASSUME IInv PROVE Variant \in Nat
  BY <1>1, Measured DEF IInv, Variant
<1>2. ASSUME IInv, [Next]_vars, vars' # vars PROVE Variant' < Variant
  <2>1. TypeOK /\ Forked
    BY <1>2 DEF IInv
  <2>2. /\ TokensLeft \in Nat /\ Signals \in 0 .. 2 /\ InterruptsLeft \in Nat
        /\ Rank[pc["app"]] \in 0 .. 16 /\ Rank[pc["child"]] \in 0 .. 16
        /\ Ranks \in Nat
    BY <2>1, Measured
  <2>3. /\ UNCHANGED <<tpoint_group_name, token>> => TokensLeft' = TokensLeft
        /\ UNCHANGED pending => Signals' = Signals
        /\ UNCHANGED interrupts => InterruptsLeft' = InterruptsLeft
        /\ UNCHANGED pc => Ranks' = Ranks
    <3>1. Rank' = Rank
      BY DEF Rank
    <3> QED BY <3>1 DEF TokensLeft, Signals, InterruptsLeft, Ranks
  <2> USE DEF argVars, traceVars, signalVars
  \* A process goes on and nothing else changes.
  <2>4. ASSUME NEW p \in Processes, NEW l, Goto(p, l), Rank[l] \in Nat, Rank[l] < Rank[pc[p]],
               UNCHANGED <<argVars, token, pending, interrupts>>
        PROVE  Variant' < Variant
    <3>1. Ranks' = Ranks - Rank[pc[p]] + Rank[l]
      BY <2>1, <2>4, GoesOn
    <3>2. Rank[pc[p]] \in Nat
      BY <2>2 DEF Processes
    <3> QED BY <2>2, <2>3, <2>4, <3>1, <3>2 DEF Variant
  <2>5. CASE TakeToken
    <3>1. TokensLeft' = TokensLeft - 1
      BY <2>1, <2>5 DEF TakeToken, TokensLeft, TypeOK
    <3>2. Ranks' = Ranks /\ Signals' = Signals /\ InterruptsLeft' = InterruptsLeft
      BY <2>3, <2>5 DEF TakeToken
    <3> QED BY <2>2, <3>1, <3>2 DEF Variant
  <2>6. CASE TraceFails \/ TraceEnabled
    <3>1. pc["app"] = "tokens" /\ \E l \in {"cleanup", "record", "attach"} : Goto("app", l)
      BY <2>6 DEF TraceFails, TraceEnabled
    <3>2. UNCHANGED <<argVars, token, pending, interrupts>>
      BY <2>6 DEF TraceFails, TraceEnabled
    <3> QED BY <2>4, <3>1, <3>2 DEF Processes, Rank
  <2>7. CASE Fork
    <3>1. /\ pc["app"] = "record" /\ pc["child"] = "absent"
          /\ pc'["app"] = "attach" /\ pc'["child"] = "forked"
      BY <2>1, <2>7 DEF Fork, Forked, TypeOK, Processes
    <3>2. Ranks = 15 /\ Ranks' = 13
      BY <3>1 DEF Ranks, Rank
    <3>3. TokensLeft' = TokensLeft /\ Signals' = Signals /\ InterruptsLeft' = InterruptsLeft
      BY <2>3, <2>7 DEF Fork
    <3> QED BY <2>2, <3>2, <3>3 DEF Variant
  <2>8. CASE ForkFails
    BY <2>4, <2>8 DEF ForkFails, Processes, Rank
  <2>9. CASE Child
    <3>1. \/ pc["child"] = "forked" /\ \E l \in {"starting", "attach"} : Goto("child", l)
          \/ pc["child"] = "starting" /\ Goto("child", "recording")
      BY <2>9 DEF Child, Exec, ExecFails, RecorderReady
    <3>2. UNCHANGED <<argVars, token, pending, interrupts>>
      BY <2>9 DEF Child, Exec, ExecFails, RecorderReady
    <3> QED BY <2>4, <3>1, <3>2 DEF Processes, Rank
  <2>10. ASSUME NEW p \in Processes, Attach(p) \/ Load(p) \/ Cleanup(p) \/ Sleep(p)
         PROVE  Variant' < Variant
    <3>1. \/ pc[p] = "attach" /\ \E l \in {"load", "cleanup", "exited"} : Goto(p, l)
          \/ pc[p] = "load" /\ \E l \in {"cleanup", "hung", "exited"} : Goto(p, l)
          \/ pc[p] = "cleanup" /\ Goto(p, "sleep")
          \/ pc[p] = "sleep" /\ Goto(p, "stop")
      BY <2>10 DEF Attach, Load, Cleanup, Sleep
    <3>2. UNCHANGED <<argVars, token, pending, interrupts>>
      BY <2>10 DEF Attach, Load, Cleanup, Sleep
    <3> QED BY <2>4, <3>1, <3>2 DEF Rank
  <2>11. ASSUME NEW p \in Processes, Stop(p) PROVE Variant' < Variant
    <3>1. Ranks' = Ranks - 2
      <4>1. pc[p] = "stop" /\ Goto(p, "returned")
        BY <2>11 DEF Stop
      <4>2. Rank["stop"] = 2 /\ Rank["returned"] = 0
        BY DEF Rank
      <4> QED BY <2>1, <2>2, <4>1, <4>2, GoesOn
    <3>2. Signals' <= Signals + 1 /\ Signals' \in Nat
      <4>1. pending' \in {pending, pending \cup {"child"}}
        BY <2>11 DEF Stop
      <4> QED BY <4>1 DEF Signals
    <3>3. TokensLeft' = TokensLeft /\ InterruptsLeft' = InterruptsLeft
      BY <2>3, <2>11 DEF Stop
    <3>4. PICK t, r, r2, s, s2, k, k2 :
            /\ t = TokensLeft /\ r = Ranks /\ r2 = Ranks' /\ s = Signals /\ s2 = Signals'
            /\ k = InterruptsLeft /\ k2 = InterruptsLeft'
      OBVIOUS
    <3>5. /\ t \in Int /\ r \in Int /\ r2 \in Int /\ s \in Int /\ s2 \in Int
          /\ k \in Int /\ k2 \in Int /\ r2 = r - 2 /\ s2 <= s + 1 /\ k2 = k
      BY <2>2, <3>1, <3>2, <3>3, <3>4
    <3>6. t + r2 + s2 + 3 * k2 < t + r + s + 3 * k
      BY ONLY <3>5
    <3> QED BY <3>3, <3>4, <3>6 DEF Variant
  <2>12. ASSUME NEW p \in Processes, Deliver(p) PROVE Variant' < Variant
    <3>1. Signals' < Signals /\ Signals' \in Nat
      <4>1. p \in pending /\ pending' = pending \ {p} /\ p \in {"app", "child"}
        BY <2>12 DEF Deliver, Processes
      <4> QED BY <4>1 DEF Signals
    <3>2. Ranks' <= Ranks /\ Ranks' \in Int
      <4>1. CASE UNCHANGED pc
        BY <2>2, <2>3, <4>1
      <4>2. CASE \E l \in {"stopped", "killed"} : Goto(p, l)
        <5>1. PICK l \in {"stopped", "killed"} : Goto(p, l)
          BY <4>2
        <5>2. Rank[l] = 0
          BY DEF Rank
        <5>3. Ranks' = Ranks - Rank[pc[p]] + 0
          BY <2>1, <2>12, <5>1, <5>2, GoesOn
        <5>4. Rank[pc[p]] \in Nat
          BY <2>2, <2>12 DEF Processes
        <5> QED BY <2>2, <5>3, <5>4
      <4> QED BY <2>12, <4>1, <4>2 DEF Deliver
    <3>3. TokensLeft' = TokensLeft /\ InterruptsLeft' = InterruptsLeft
      BY <2>3, <2>12 DEF Deliver
    <3>4. PICK t, r, r2, s, s2, k, k2 :
            /\ t = TokensLeft /\ r = Ranks /\ r2 = Ranks' /\ s = Signals /\ s2 = Signals'
            /\ k = InterruptsLeft /\ k2 = InterruptsLeft'
      OBVIOUS
    <3>5. /\ t \in Int /\ r \in Int /\ r2 \in Int /\ s \in Int /\ s2 \in Int
          /\ k \in Int /\ k2 \in Int /\ r2 <= r /\ s2 < s /\ k2 = k
      BY <2>2, <3>1, <3>2, <3>3, <3>4
    <3>6. t + r2 + s2 + 3 * k2 < t + r + s + 3 * k
      BY ONLY <3>5
    <3> QED BY <3>3, <3>4, <3>6 DEF Variant
  <2>13. CASE Interrupt
    <3>1. InterruptsLeft' = InterruptsLeft - 1
      BY <2>1, <2>13, TraceIoAssumption DEF Interrupt, InterruptsLeft, TypeOK
    <3>2. Signals' \in 0 .. 2 /\ Signals' <= Signals + 2
      BY <2>2 DEF Signals
    <3>3. TokensLeft' = TokensLeft /\ Ranks' = Ranks
      BY <2>3, <2>13 DEF Interrupt
    <3>4. PICK t, r, r2, s, s2, k, k2 :
            /\ t = TokensLeft /\ r = Ranks /\ r2 = Ranks' /\ s = Signals /\ s2 = Signals'
            /\ k = InterruptsLeft /\ k2 = InterruptsLeft'
      OBVIOUS
    <3>5. /\ t \in Int /\ r \in Int /\ r2 \in Int /\ s \in Int /\ s2 \in Int
          /\ k \in Int /\ k2 \in Int /\ r2 = r /\ s2 <= s + 2 /\ k2 = k - 1
      BY <2>2, <3>1, <3>2, <3>3, <3>4
    <3>6. t + r2 + s2 + 3 * k2 < t + r + s + 3 * k
      BY ONLY <3>5
    <3> QED BY <3>3, <3>4, <3>6 DEF Variant
  <2> QED
    BY <1>2, <2>5, <2>6, <2>7, <2>8, <2>9, <2>10, <2>11, <2>12, <2>13
       DEF Next, App, Frame, Terminated
<1>3. IInv /\ [Next]_vars => [Variant' < Variant]_vars
  BY <1>2
<1> QED BY <1>1, <1>3, Invariance, PTL DEF Spec
=============================================================================
