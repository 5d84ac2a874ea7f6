------------------------------ MODULE TraceIo -------------------------------
(***************************************************************************)
(* lib/trace_io.c as main() of the load generators uses it (app/demo,      *)
(* app/access_zns and app/access_opz have the same frame).                 *)
(*                                                                         *)
(* enable_spdk_trace switches tracepoints on, token by token.              *)
(* enable_spdk_trace_record forks; the child becomes spdk_trace_record, or *)
(* returns into main() as a second copy of the application when it cannot. *)
(* disable_spdk_trace_record sends it SIGINT.                              *)
(*                                                                         *)
(* pc of a process: "tokens" (in enable_spdk_trace), "record", "attach",   *)
(* "load", "hung" (polling for ever in the load), "cleanup" (label exit),  *)
(* "sleep", "stop" (before disable_spdk_trace_record), and the ends        *)
(* "returned", "exited", "killed"; of the child also "absent", "forked"    *)
(* (before execvp), "starting" (a recorder without a signal handler yet),  *)
(* "recording", "stopped".                                                 *)
(***************************************************************************)
EXTENDS Integers, Sequences, FiniteSets

CONSTANTS
    GroupArgs,      \* the arguments of -e, split at the commas
    Groups,         \* 0 .. SPDK_TRACE_MAX_GROUP_ID - 1
    Tpoints,        \* the tracepoints of a group
    MaxInterrupts   \* bound on the SIGINTs typed at the terminal

\* A token names groups, by mask or by name, and after a colon tracepoints.
\* known: the group part is a number or a registered name; number: the
\* tracepoint part is a number.  A mask may have bits that are no group.
Tokens == [known : BOOLEAN, groups : SUBSET Int, colon : BOOLEAN, number : BOOLEAN,
           tpoints : SUBSET Tpoints]

ASSUME TraceIoAssumption ==
    /\ \A a \in GroupArgs : a \in Seq(Tokens) /\ \A n \in DOMAIN a : IsFiniteSet(a[n].groups)
    /\ MaxInterrupts \in Nat

Processes == {"app", "child"}

VARIABLES
    tpoint_group_name,      \* the argument of -e
    g_spdk_trace_record,    \* -t was given
    pc,
    token,                  \* tokens handled
    enabled,                \* group -> tracepoints switched on
    spdk_pid,               \* per process: "0", "1" or "child"
    handler,                \* processes with sigint_handler installed
    pending,                \* processes a SIGINT is on its way to
    holding,                \* processes with the controllers attached
    interrupts              \* SIGINTs typed

argVars == <<tpoint_group_name, g_spdk_trace_record>>
traceVars == <<token, enabled>>
signalVars == <<handler, pending, interrupts>>
vars == <<argVars, pc, traceVars, spdk_pid, signalVars, holding>>

Ended == {"returned", "exited", "killed", "stopped"}
Recorder == {"starting", "recording"}

Init ==
    /\ tpoint_group_name \in GroupArgs
    /\ g_spdk_trace_record \in BOOLEAN
    /\ pc = [p \in Processes |-> IF p = "app" THEN "tokens" ELSE "absent"]
    /\ token = 0
    /\ enabled = [g \in Groups |-> {}]
    /\ spdk_pid = [p \in Processes |-> "0"]
    /\ handler = {}
    /\ pending = {}
    /\ holding = {}
    /\ interrupts = 0

Goto(p, to) == pc' = [pc EXCEPT ![p] = to]
-----------------------------------------------------------------------------
(* enable_spdk_trace, run by the application before it forks.              *)

\* The tests of one token: a token with tracepoints must name one group.
Accepted(k) == k.known /\ (k.colon => Cardinality(k.groups) = 1 /\ k.number)
Selected(k) == IF k.colon THEN k.tpoints ELSE Tpoints

\* Mutant of TakeToken: the tracepoint mask of the last token is kept.
TakeTokenReplacing ==
    /\ pc["app"] = "tokens"
    /\ token < Len(tpoint_group_name)
    /\ LET k == tpoint_group_name[token + 1]
       IN /\ Accepted(k)
          /\ enabled' = [g \in Groups |->
                            IF g \in k.groups THEN Selected(k) ELSE enabled[g]]
    /\ token' = token + 1
    /\ UNCHANGED <<argVars, pc, spdk_pid, signalVars, holding>>

TakeToken ==
    /\ pc["app"] = "tokens"
    /\ token < Len(tpoint_group_name)
    /\ LET k == tpoint_group_name[token + 1]
       IN /\ Accepted(k)
          /\ enabled' = [g \in Groups |->
                            enabled[g] \cup IF g \in k.groups THEN Selected(k) ELSE {}]
    /\ token' = token + 1
    /\ UNCHANGED <<argVars, pc, spdk_pid, signalVars, holding>>

\* A token that is not accepted, or a failed spdk_trace_init or strdup: the
\* application goes to the label exit.
TraceFails ==
    /\ pc["app"] = "tokens"
    /\ \/ token = 0
       \/ token < Len(tpoint_group_name) /\ ~Accepted(tpoint_group_name[token + 1])
    /\ Goto("app", "cleanup")
    /\ UNCHANGED <<argVars, traceVars, spdk_pid, signalVars, holding>>

TraceEnabled ==
    /\ pc["app"] = "tokens"
    /\ token = Len(tpoint_group_name)
    /\ Goto("app", IF g_spdk_trace_record THEN "record" ELSE "attach")
    /\ UNCHANGED <<argVars, traceVars, spdk_pid, signalVars, holding>>
-----------------------------------------------------------------------------
(* enable_spdk_trace_record.                                               *)

\* The handler is installed before the fork, and the child inherits it.
Fork ==
    /\ pc["app"] = "record"
    /\ pc' = [pc EXCEPT !["app"] = "attach", !["child"] = "forked"]
    /\ handler' = {"app", "child"}
    /\ spdk_pid' = [spdk_pid EXCEPT !["app"] = "child"]
    /\ UNCHANGED <<argVars, traceVars, pending, interrupts, holding>>

\* The value returned for a failed fork is 1, where the header promises 0.
ForkFails ==
    /\ pc["app"] = "record"
    /\ Goto("app", "attach")
    /\ handler' = {"app"}
    /\ spdk_pid' = [spdk_pid EXCEPT !["app"] = "1"]
    /\ UNCHANGED <<argVars, traceVars, pending, interrupts, holding>>

Exec ==
    /\ pc["child"] = "forked"
    /\ Goto("child", "starting")
    /\ handler' = handler \ {"child"}
    /\ UNCHANGED <<argVars, traceVars, spdk_pid, pending, interrupts, holding>>

\* Mutant of ExecFails: the child returns what execvp returned.
ExecFailsNegative ==
    /\ pc["child"] = "forked"
    /\ Goto("child", "attach")
    /\ spdk_pid' = [spdk_pid EXCEPT !["child"] = "-1"]
    /\ UNCHANGED <<argVars, traceVars, signalVars, holding>>

\* The child returns 0 to its caller, which reports it and goes on.
ExecFails ==
    /\ pc["child"] = "forked"
    /\ Goto("child", "attach")
    /\ UNCHANGED <<argVars, traceVars, spdk_pid, signalVars, holding>>
-----------------------------------------------------------------------------
(* The rest of main(), in the application and in a child that failed to    *)
(* become a recorder.                                                      *)

Attach(p) ==
    /\ pc[p] = "attach"
    /\ \/ Goto(p, "load") /\ holding' = holding \cup {p}
       \/ Goto(p, "cleanup") /\ UNCHANGED holding
       \/ Goto(p, "exited") /\ UNCHANGED holding
    /\ UNCHANGED <<argVars, traceVars, spdk_pid, signalVars>>

\* alloc_qpair, zns_info and the load; an error in any of them may end the
\* process at once.  When the zone report of zns_info is refused, report_zone
\* polls for its completion all the same, and never returns.
Load(p) ==
    /\ pc[p] = "load"
    /\ \/ Goto(p, "cleanup") /\ UNCHANGED holding
       \/ Goto(p, "hung") /\ UNCHANGED holding
       \/ Goto(p, "exited") /\ holding' = holding \ {p}
    /\ UNCHANGED <<argVars, traceVars, spdk_pid, signalVars>>

Cleanup(p) ==
    /\ pc[p] = "cleanup"
    /\ Goto(p, "sleep")
    /\ holding' = holding \ {p}
    /\ UNCHANGED <<argVars, traceVars, spdk_pid, signalVars>>

\* The second is taken to be long enough for the recorder to have installed
\* its handler; a SIGINT cuts it short.
Sleep(p) ==
    /\ pc[p] = "sleep"
    /\ interrupts = 0 => pc["child"] \notin {"forked", "starting"}
    /\ Goto(p, "stop")
    /\ UNCHANGED <<argVars, traceVars, spdk_pid, signalVars, holding>>

\* Mutant of Stop: the recorder is not signalled.
StopNobody(p) ==
    /\ pc[p] = "stop"
    /\ Goto(p, "returned")
    /\ UNCHANGED <<argVars, traceVars, spdk_pid, signalVars, holding>>

\* Mutant of Stop: the recorder is waited for, and signalled only then.
StopWaiting(p) ==
    /\ pc[p] = "stop"
    /\ IF spdk_pid[p] = "child" /\ pc["child"] \notin Ended
       THEN UNCHANGED <<pc, pending>>
       ELSE Goto(p, "returned") /\ UNCHANGED pending
    /\ UNCHANGED <<argVars, traceVars, spdk_pid, handler, interrupts, holding>>

\* disable_spdk_trace_record, unless the recorder's pid is 0.  Process 1 ignores
\* the signal or is beyond the models.
Stop(p) ==
    /\ pc[p] = "stop"
    /\ Goto(p, "returned")
    /\ pending' = IF spdk_pid[p] = "child" /\ pc["child"] \notin Ended
                  THEN pending \cup {"child"} ELSE pending
    /\ UNCHANGED <<argVars, traceVars, spdk_pid, handler, interrupts, holding>>
-----------------------------------------------------------------------------
(* spdk_trace_record and the signals.                                      *)

RecorderReady ==
    /\ pc["child"] = "starting"
    /\ Goto("child", "recording")
    /\ UNCHANGED <<argVars, traceVars, spdk_pid, signalVars, holding>>

\* Ctrl-C reaches the whole foreground group.
Interrupt ==
    /\ interrupts < MaxInterrupts
    /\ interrupts' = interrupts + 1
    /\ pending' = pending \cup {p \in Processes : pc[p] \notin Ended \cup {"absent"}}
    /\ UNCHANGED <<argVars, pc, traceVars, spdk_pid, handler, holding>>

\* sigint_handler is called with the signal number for the pid: the process
\* signals process 2 and goes on.  Without the handler a SIGINT ends it.
Deliver(p) ==
    /\ p \in pending
    /\ pending' = pending \ {p}
    /\ IF p \in handler \/ pc[p] \in Ended
       THEN UNCHANGED <<pc, holding>>
       ELSE /\ Goto(p, IF pc[p] = "recording" THEN "stopped" ELSE "killed")
            /\ holding' = holding \ {p}
    /\ UNCHANGED <<argVars, traceVars, spdk_pid, handler, interrupts>>
-----------------------------------------------------------------------------
Terminated ==
    /\ \A p \in Processes : pc[p] \in Ended \cup {"absent", "hung"} \cup Recorder
    /\ pending = {}
    /\ UNCHANGED vars

App == TakeToken \/ TraceFails \/ TraceEnabled \/ Fork \/ ForkFails
Child == Exec \/ ExecFails \/ RecorderReady
Frame(p) == Attach(p) \/ Load(p) \/ Cleanup(p) \/ Sleep(p) \/ Stop(p)

Next ==
    \/ App \/ Child
    \/ \E p \in Processes : Frame(p) \/ Deliver(p)
    \/ Interrupt
    \/ Terminated

Spec == Init /\ [][Next]_vars

\* The scheduler runs every process, and signals arrive; nobody has to type.
FairSpec ==
    /\ Spec
    /\ WF_vars(App) /\ WF_vars(Child)
    /\ \A p \in Processes : WF_vars(Frame(p)) /\ WF_vars(Deliver(p))
-----------------------------------------------------------------------------
(* Properties.                                                             *)

Places == {"absent", "tokens", "record", "forked", "attach", "load", "hung", "cleanup",
           "sleep", "stop"}

\* Every variable has its type.  No copy of the application takes a negative
\* number for the recorder's pid, with which kill would signal every process.
TypeOK ==
    /\ tpoint_group_name \in Seq(Tokens)
    /\ g_spdk_trace_record \in BOOLEAN
    /\ pc \in [Processes -> Places \cup Recorder \cup Ended]
    /\ token \in 0 .. Len(tpoint_group_name)
    /\ enabled \in [Groups -> SUBSET Tpoints]
    /\ spdk_pid \in [Processes -> {"0", "1", "child"}]
    /\ handler \subseteq Processes /\ pending \subseteq Processes /\ holding \subseteq Processes
    /\ interrupts \in 0 .. MaxInterrupts

\* What is switched on is what the tokens taken so far name, each group with
\* every tracepoint any of them selects; the application goes on only when no
\* token was wrong.
EnabledExact ==
    /\ \A g \in Groups :
          enabled[g] = UNION {Selected(tpoint_group_name[n]) :
                                 n \in {m \in 1 .. token : g \in tpoint_group_name[m].groups}}
    /\ pc["app"] \in {"record", "attach", "load"} => token = Len(tpoint_group_name)

\* "It is used after enable_spdk_trace() and before app finish" (trace_io.h
\* l. 52): an application that returns leaves no recorder behind, whatever the
\* order of fork, exec, load and signal, provided that nobody interrupts it.
RecorderStopped ==
    pc["app"] = "returned" /\ interrupts = 0 ~>
        pc["child"] \notin Recorder \cup {"forked"} \/ interrupts > 0

\* "\return spdk_trace_record pid, else 0 indicates a spdk_trace_record fork()
\* failure" (trace_io.h l. 46): an application without a recorder has the pid 0.
\* It has 1 after a failed fork, and goes on to signal process 1.
ForkFailureReported == pc["child"] = "absent" => spdk_pid["app"] = "0"

\* Both copies of the application come to an end, interrupted or not, or are
\* left polling for a zone report that was refused, the one wait of main() that
\* nothing ends: Ctrl-C does not stop a load once the recorder was forked, but
\* does not hang it either, and neither copy waits for the recorder.
ApplicationEnds ==
    /\ <>(pc["app"] \in Ended \cup {"hung"})
    /\ pc["child"] = "attach" ~> pc["child"] \in Ended \cup {"hung"}
=============================================================================
