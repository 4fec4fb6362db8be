------------------------------ MODULE ToolLoop ------------------------------
(***************************************************************************)
(* The life of a command line tool (pcm, pcm-memory, pcm-raw, ...): its    *)
(* prologue, the external program it may start, its measurement loop, the  *)
(* signals it handles and its end.  The tools differ in when they start    *)
(* the external program and in how they pair the counter reads; those      *)
(* differences are the records below.                                      *)
(*                                                                         *)
(* now counts the events that matter, and a counter read is represented by *)
(* the event at which it happened.                                         *)
(***************************************************************************)
EXTENDS Integers, Sequences

CONSTANTS
    Cases,      \* command lines: tool, groups of events, whether an external
                \* program and a delay are given, number of iterations (0: no limit)
    MaxRounds,  \* bound: rounds of a loop without limit
    MaxSignals  \* bound: signals sent from outside

(***************************************************************************)
(* first: whether counters are read before the external program is         *)
(* started, after it, or there is none.  one, many: how reads are paired   *)
(* with one and with several groups of events:                             *)
(*   swap     the read that ends a window begins the next                  *)
(*   rotate   so, but between them the next group is programmed and the    *)
(*            counters are read once more                                  *)
(*   program  a group is programmed and read before every window           *)
(*   reread   the counters are read before every window                    *)
(***************************************************************************)
pcm         == [name |-> "pcm",         first |-> "read",   one |-> "swap",    many |-> "none"]
pcm_numa    == [name |-> "pcm-numa",    first |-> "read",   one |-> "swap",    many |-> "none"]
pcm_tsx     == [name |-> "pcm-tsx",     first |-> "read",   one |-> "swap",    many |-> "none"]
pcm_core    == [name |-> "pcm-core",    first |-> "read",   one |-> "swap",    many |-> "none"]
pcm_power   == [name |-> "pcm-power",   first |-> "read",   one |-> "swap",    many |-> "none"]
pcm_memory  == [name |-> "pcm-memory",  first |-> "read",   one |-> "swap",    many |-> "rotate"]
pcm_raw     == [name |-> "pcm-raw",     first |-> "launch", one |-> "swap",    many |-> "program"]
pcm_pcie    == [name |-> "pcm-pcie",    first |-> "launch", one |-> "program", many |-> "program"]
pcm_iio     == [name |-> "pcm-iio",     first |-> "none",   one |-> "program", many |-> "program"]
pcm_latency == [name |-> "pcm-latency", first |-> "none",   one |-> "reread",  many |-> "none"]
pcm_accel   == [name |-> "pcm-accel",   first |-> "none",   one |-> "reread",  many |-> "none"]

Tools == {pcm, pcm_numa, pcm_tsx, pcm_core, pcm_power, pcm_memory, pcm_raw, pcm_pcie, pcm_iio,
          pcm_latency, pcm_accel}

ASSUME ToolAssumption ==
    /\ MaxRounds \in Nat /\ MaxSignals \in Nat
    /\ \A c \in Cases : /\ c.tool \in Tools
                        /\ c.groups \in Nat \ {0} /\ c.iterations \in Nat
                        /\ c.cmd \in BOOLEAN /\ c.delay \in BOOLEAN
                        /\ c.groups > 1 => c.tool.many # "none"
                        /\ c.cmd => c.tool.first # "none"

VARIABLES
    case,       \* the command line
    pc,         \* where the tool is
    blocked,    \* PCM::blocked
    rounds,     \* rounds of the main loop that were completed
    group,      \* the group being measured
    programmed, \* when the PMU was programmed last, and with which group
    before,     \* when the read was that begins the current window
    windows,    \* the windows of this round
    previous,   \* the windows of the round before
    child,      \* the external program: where it is, and when it ran
    pmu,        \* whether the counters run for this tool
    suspended,  \* the stop signal in whose handler the tool sleeps
    runState,   \* PCM::run_state
    pending,    \* signals that have not been delivered
    sent,       \* signals sent from outside
    now

toolVars == <<case, pc, blocked, rounds, group, programmed, before, windows, previous>>
signalVars == <<suspended, runState, pending, sent>>
vars == <<toolVars, child, pmu, signalVars, now>>

StopSignals == {"TSTP", "TTIN"}
OutsideSignals == {"INT", "CONT"} \cup StopSignals
NotSuspended == "no"

Style == IF case.groups = 1 THEN case.tool.one ELSE case.tool.many

PrologueLaunchesFirst ==
    [read |-> <<"program", "block", "launch", "read", "loop">>,
     launch |-> <<"block", "launch", "program", "read", "loop">>,
     none |-> <<"program", "loop">>][case.tool.first]

\* The order of main() up to the loop.
Prologue ==
    [read |-> <<"program", "block", "read", "launch", "loop">>,
     launch |-> <<"block", "launch", "program", "read", "loop">>,
     none |-> <<"program", "loop">>][case.tool.first]

Following(step) == LET i == CHOOSE n \in DOMAIN Prologue : Prologue[n] = step
                   IN  Prologue[i + 1]

Window == [from : Nat, to : Nat, group : Nat, programmed : Nat]

TypeOK ==
    /\ case \in Cases
    /\ pc \in {"program", "block", "read", "launch", "wait", "loop", "before", "sleep", "after",
               "print", "exit", "cleaning", "gone", "killed"}
    /\ blocked \in BOOLEAN /\ pmu \in BOOLEAN
    /\ rounds \in Nat /\ group \in 1 .. case.groups
    /\ programmed \in [at : Nat, group : Nat] /\ before \in Nat
    /\ windows \in Seq(Window) /\ previous \in Seq(Window)
    /\ child \in [at : {"none", "forked", "running", "failing", "done"}, start : Nat, end : Nat,
                  execfailed : BOOLEAN]
    /\ suspended \in StopSignals \cup {NotSuspended}
    /\ runState \in {0, 1}
    /\ pending \subseteq OutsideSignals \cup {"CHLD"}
    /\ sent \in 0 .. MaxSignals /\ now \in Nat

Init ==
    /\ case \in Cases
    /\ pc = Prologue[1]
    /\ blocked = FALSE /\ rounds = 0 /\ group = 1
    /\ programmed = [at |-> 0, group |-> 0] /\ before = 0
    /\ windows = <<>> /\ previous = <<>>
    /\ child = [at |-> "none", start |-> 0, end |-> 0, execfailed |-> FALSE]
    /\ pmu = FALSE /\ suspended = NotSuspended /\ runState = 1
    /\ pending = {} /\ sent = 0 /\ now = 0

-----------------------------------------------------------------------------
(* The main thread *)

\* Tools that program before every window do nothing here.
Program ==
    /\ pc = "program"
    /\ IF Style = "program" THEN UNCHANGED <<programmed, pmu, now>>
       ELSE /\ programmed' = [at |-> now + 1, group |-> 1]
            /\ pmu' = TRUE
            /\ now' = now + 1
    /\ pc' = Following("program")
    /\ UNCHANGED <<case, blocked, rounds, group, before, windows, previous, child, signalVars>>

SetBlocked ==
    /\ pc = "block"
    /\ blocked' = (case.cmd /\ ~case.delay)
    /\ pc' = Following("block")
    /\ UNCHANGED <<case, rounds, group, programmed, before, windows, previous, child, pmu,
                   signalVars, now>>

FirstRead ==
    /\ pc = "read"
    /\ IF Style = "program" THEN UNCHANGED <<before, now>>
       ELSE before' = now + 1 /\ now' = now + 1
    /\ pc' = Following("read")
    /\ UNCHANGED <<case, blocked, rounds, group, programmed, windows, previous, child, pmu,
                   signalVars>>

\* MySystem: fork, and waitpid if blocked
Launch ==
    /\ pc = "launch"
    /\ child' = IF case.cmd THEN [child EXCEPT !.at = "forked"] ELSE child
    /\ pc' = IF case.cmd /\ blocked THEN "wait" ELSE Following("launch")
    /\ UNCHANGED <<case, blocked, rounds, group, programmed, before, windows, previous, pmu,
                   signalVars, now>>

WaitForChild ==
    /\ pc = "wait" /\ child.at = "done"
    /\ pc' = Following("launch")
    /\ UNCHANGED <<case, blocked, rounds, group, programmed, before, windows, previous, child, pmu,
                   signalVars, now>>

\* MainLoop::operator()
AnotherRound == rounds + 1 <= case.iterations \/ case.iterations = 0

LoopTest ==
    /\ pc = "loop"
    /\ \/ /\ AnotherRound /\ (case.iterations = 0 => rounds < MaxRounds)
          /\ group' = 1 /\ windows' = <<>> /\ previous' = windows
          /\ pc' = "before"
       \/ /\ ~AnotherRound
          /\ pc' = "exit"
          /\ UNCHANGED <<group, windows, previous>>
    /\ UNCHANGED <<case, blocked, rounds, programmed, before, child, pmu, signalVars, now>>

\* programAndReadGroup of pcm-raw, getEventGroup of pcm-pcie, getSample of
\* pcm-iio; collect_beforestate_* of pcm-latency, collect_data of pcm-accel.
Before ==
    /\ pc = "before"
    /\ CASE Style = "program" -> /\ programmed' = [at |-> now + 1, group |-> group]
                                 /\ before' = now + 2
                                 /\ now' = now + 2
                                 /\ pmu' = TRUE
         [] Style = "reread"  -> /\ before' = now + 1
                                 /\ now' = now + 1
                                 /\ UNCHANGED <<programmed, pmu>>
         [] OTHER -> UNCHANGED <<programmed, before, now, pmu>>
    /\ pc' = "sleep"
    /\ UNCHANGED <<case, blocked, rounds, group, windows, previous, child, signalVars>>

\* calibratedSleep or MySleepMs; a signal may cut it short.
Sleep ==
    /\ pc = "sleep"
    /\ pc' = "after"
    /\ UNCHANGED <<case, blocked, rounds, group, programmed, before, windows, previous, child, pmu,
                   signalVars, now>>

SameGroup == group
\* The group programmed next in a tool that rotates its groups.
NextGroup == IF group < case.groups THEN group + 1 ELSE 1

SwapForgotten == before

\* The read that begins the next window of a tool that swaps its states.
SwappedBefore == now + 1

PastLastGroup == group > case.groups
LastGroup == group = case.groups

After ==
    /\ pc = "after"
    /\ windows' = Append(windows, [from |-> before, to |-> now + 1, group |-> programmed.group,
                                   programmed |-> programmed.at])
    /\ CASE Style = "swap" -> /\ before' = SwappedBefore
                              /\ now' = now + 1
                              /\ UNCHANGED programmed
         [] Style = "rotate" -> /\ programmed' = [at |-> now + 2, group |-> NextGroup]
                                /\ before' = now + 3
                                /\ now' = now + 3
         [] OTHER -> /\ now' = now + 1
                     /\ UNCHANGED <<before, programmed>>
    /\ \/ ~LastGroup /\ group' = group + 1 /\ pc' = "before"
       \/ LastGroup /\ group' = group /\ pc' = "print"
    /\ UNCHANGED <<case, blocked, rounds, previous, child, pmu, signalVars>>

\* The body returns false if blocked, and the loop ends.
PrintRound ==
    /\ pc = "print"
    /\ rounds' = rounds + 1
    /\ pc' = IF blocked THEN "exit" ELSE "loop"
    /\ UNCHANGED <<case, blocked, group, programmed, before, windows, previous, child, pmu,
                   signalVars, now>>

ExitWaits ==
    /\ pc = "exit" /\ child.at \in {"none", "done"}
    /\ pc' = "cleaning"
    /\ UNCHANGED <<case, blocked, rounds, group, programmed, before, windows, previous, child, pmu,
                   signalVars, now>>

\* exit() runs exit_cleanup, which first gives up the signal handlers.
Exit ==
    /\ pc = "exit"
    /\ pc' = "cleaning"
    /\ UNCHANGED <<case, blocked, rounds, group, programmed, before, windows, previous, child, pmu,
                   signalVars, now>>

ExitCleanup ==
    /\ pc = "cleaning"
    /\ pmu' = FALSE
    /\ pc' = "gone"
    /\ UNCHANGED <<case, blocked, rounds, group, programmed, before, windows, previous, child,
                   signalVars, now>>

Ended == {"gone", "killed"}

Main ==
    /\ suspended = NotSuspended
    /\ \/ Program \/ SetBlocked \/ FirstRead \/ Launch \/ WaitForChild \/ LoopTest \/ Before
       \/ Sleep \/ After \/ PrintRound \/ Exit \/ ExitCleanup

-----------------------------------------------------------------------------
(* The external program *)

Raised(s) == IF pc \in Ended THEN pending ELSE pending \cup {s}

\* If exec fails the forked copy of the tool calls exit().
ChildExec ==
    /\ child.at = "forked"
    /\ \/ child' = [child EXCEPT !.at = "running", !.start = now + 1] /\ now' = now + 1
       \/ child' = [child EXCEPT !.at = "failing", !.execfailed = TRUE] /\ now' = now
    /\ UNCHANGED <<toolVars, pmu, signalVars>>

\* and with that runs exit_cleanup as well.
ChildCleanup ==
    /\ child.at = "failing"
    /\ pmu' = FALSE
    /\ child' = [child EXCEPT !.at = "done"]
    /\ pending' = Raised("CHLD")
    /\ UNCHANGED <<toolVars, suspended, runState, sent, now>>

ChildExit ==
    /\ child.at = "running"
    /\ child' = [child EXCEPT !.at = "done", !.end = now + 1]
    /\ now' = now + 1
    /\ pending' = Raised("CHLD")
    /\ UNCHANGED <<toolVars, pmu, suspended, runState, sent>>

-----------------------------------------------------------------------------
(* Signals *)

SendSignal(s) ==
    /\ sent < MaxSignals /\ pc \notin Ended /\ s \notin pending
    /\ pending' = pending \cup {s}
    /\ sent' = sent + 1
    /\ UNCHANGED <<toolVars, child, pmu, suspended, runState, now>>

\* The tool's own handlers are in place from the start of main() until
\* exit_cleanup; a handler's own signal is held back while it runs.
Deliverable(s) == s \in pending /\ s # suspended /\ pc \notin Ended
Handled == pc # "cleaning"
Taken(s) == pending' = pending \ {s}

TerminationReturns(s) ==
    /\ s \in {"INT", "CHLD"} /\ Deliverable(s) /\ Handled
    /\ Taken(s)
    /\ suspended' = NotSuspended
    /\ pmu' = (pmu /\ blocked)
    /\ UNCHANGED <<toolVars, child, runState, sent, now>>

TerminationAtOnce(s) ==
    /\ s \in {"INT", "CHLD"} /\ Deliverable(s) /\ Handled
    /\ Taken(s)
    /\ suspended' = NotSuspended
    /\ pc' = IF blocked THEN pc ELSE "gone"
    /\ UNCHANGED <<case, blocked, rounds, group, programmed, before, windows, previous, child, pmu,
                   runState, sent, now>>

TerminationNotOfChild(s) ==
    /\ s \in {"INT", "CHLD"} /\ Deliverable(s) /\ Handled
    /\ Taken(s)
    /\ suspended' = NotSuspended
    /\ pc' = IF blocked \/ s = "CHLD" THEN pc ELSE "cleaning"
    /\ UNCHANGED <<case, blocked, rounds, group, programmed, before, windows, previous, child, pmu,
                   runState, sent, now>>

\* sigINT_handler, for SIGINT and its like and for SIGCHLD.  Either way it
\* ends the sleep() of the handler it interrupts.
TerminationSignal(s) ==
    /\ s \in {"INT", "CHLD"} /\ Deliverable(s) /\ Handled
    /\ Taken(s)
    /\ suspended' = NotSuspended
    /\ pc' = IF blocked THEN pc ELSE "cleaning"
    /\ UNCHANGED <<case, blocked, rounds, group, programmed, before, windows, previous, child, pmu,
                   runState, sent, now>>

\* sigSTOP_handler
StopSignal(s) ==
    /\ s \in StopSignals /\ Deliverable(s) /\ Handled
    /\ Taken(s)
    /\ runState' = 1 - runState
    /\ suspended' = IF runState = 1 THEN s ELSE NotSuspended
    /\ UNCHANGED <<toolVars, child, pmu, sent, now>>

\* sigCONT_handler, for SIGCONT and SIGALRM; sigHUP_handler and
\* sigUSR_handler do no more either.
ContinueSignal ==
    /\ Deliverable("CONT") /\ Handled
    /\ Taken("CONT")
    /\ suspended' = NotSuspended
    /\ UNCHANGED <<toolVars, child, pmu, runState, sent, now>>

\* What signals do once restore_signal_handlers has run.  (A stop and the
\* continuation that ends it are not told apart from slowness.)
DefaultSignal(s) ==
    /\ Deliverable(s) /\ ~Handled
    /\ Taken(s)
    /\ pc' = IF s = "INT" THEN "killed" ELSE pc
    /\ UNCHANGED <<case, blocked, rounds, group, programmed, before, windows, previous, child, pmu,
                   suspended, runState, sent, now>>

Deliver(s) == TerminationSignal(s) \/ StopSignal(s) \/ (s = "CONT" /\ ContinueSignal)
              \/ DefaultSignal(s)

-----------------------------------------------------------------------------
AllSignals == OutsideSignals \cup {"CHLD"}

Next ==
    \/ Main
    \/ ChildExec \/ ChildCleanup \/ ChildExit
    \/ \E s \in OutsideSignals : SendSignal(s)
    \/ \E s \in AllSignals : Deliver(s)

Spec == Init /\ [][Next]_vars

\* The tool and the kernel go on; the external program need not end.
FairSpec ==
    /\ Spec
    /\ WF_vars(Main) /\ WF_vars(ChildExec) /\ WF_vars(ChildCleanup)
    /\ \A s \in AllSignals : WF_vars(Deliver(s))

-----------------------------------------------------------------------------
(* Properties *)

\* A window lies within one programming of the PMU, and a round has one
\* window for every group, in the order of the groups (CHAEventCollector of
\* pcm-memory, programAndReadGroup of pcm-raw, getEventGroup of pcm-pcie).
OneGroupPerWindow ==
    /\ \A i \in DOMAIN windows : /\ windows[i].programmed < windows[i].from
                                 /\ windows[i].from < windows[i].to
                                 /\ windows[i].group = i
    /\ pc = "print" => Len(windows) = case.groups

\* A tool with one group that swaps its before and after states loses nothing
\* between two rounds and counts nothing twice.
RoundsMeet ==
    (Style = "swap" /\ windows # <<>> /\ previous # <<>>) => windows[1].from = previous[1].to

\* When an external program is given and no delay, what is printed covers
\* all of its run, in the tools that read the counters before they start it.
ProgramCovered ==
    (pc = "print" /\ blocked /\ case.tool.first = "read" /\ ~child.execfailed) =>
        \E i \in DOMAIN windows : windows[i].from < child.start /\ child.end < windows[i].to

\* Nothing takes the PMU away from a tool that still prints, whatever signals
\* arrive, but the copy of the tool that could not execute the program.
CountersLive == (pc = "print" /\ ~child.execfailed) => pmu

\* A tool that was not killed in the middle of its cleanup has stopped the
\* counters (exit_cleanup, sigINT_handler).
Released == pc = "gone" => ~pmu

\* The end of the external program ends a tool that did not wait for it, even
\* one that is suspended (SIGCHLD).
EndsWithProgram == (child.at = "done" /\ case.cmd /\ case.delay) ~> pc \in Ended

\* A tool with a number of iterations ends unless it stays suspended or waits
\* for an external program that does not end.
EndsAfterIterations ==
    (case.iterations > 0) =>
        <>(pc \in Ended \/ [](suspended # NotSuspended) \/ [](pc = "wait"))

\* Types, the windows of a round and between rounds, and the PMU at the end.
ToolInv == TypeOK /\ OneGroupPerWindow /\ RoundsMeet /\ Released

\* A tool ends: with its external program, or after its iterations.
ToolEnds == EndsWithProgram /\ EndsAfterIterations

=============================================================================
