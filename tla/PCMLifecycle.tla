---------------------------- MODULE PCMLifecycle ----------------------------
(***************************************************************************)
(* The life of PCM processes that share one machine: PCM::program,         *)
(* checkError, cleanup and resetPMU (cpucounters.cpp) with the exit and    *)
(* signal handlers of utils.cpp around them.  Nothing but the contents of  *)
(* the event select registers tells one process about another, and         *)
(* nothing but the processes themselves undoes what they did to the        *)
(* registers and to the kernel's NMI watchdog.                             *)
(*                                                                         *)
(* One register per core stands for the core's event selects; its value    *)
(* is who programmed it.  A process's MSR writes to one core are one step, *)
(* the cores are separate steps.                                           *)
(***************************************************************************)
EXTENDS Integers, FiniteSets

CONSTANTS
    Procs,         \* the processes
    NumCores,
    Environments,  \* what a process may find: can it open the MSRs (msr), is
                   \* PCM_KEEP_NMI_WATCHDOG set (keep), can it use perf (perf)
    SignalPoints,  \* values of pc at which a termination signal may arrive
    NmiAtStart,    \* is the NMI watchdog enabled when nobody runs?
    MaxKills       \* bound: processes that die without their handlers

Cores == 1 .. NumCores
Zero == "zero"       \* a cleared event select
Kernel == "kernel"   \* programmed by the kernel for perf
NMI == "nmi"         \* programmed by the kernel for the NMI watchdog

ASSUME ConstantsAssumption ==
    /\ NumCores \in Nat \ {0}
    /\ Environments \subseteq [msr : BOOLEAN, keep : BOOLEAN, perf : BOOLEAN]
    /\ NmiAtStart \in BOOLEAN /\ MaxKills \in Nat
    /\ Procs \cap {Zero, Kernel, NMI} = {}

Program == {"nmi", "disable", "flag", "msr", "perf", "inuse", "check", "tasks"}
Points == Program \cup {"off", "counting", "error", "reset",
                        "cleanup", "clear", "restore"}
ASSUME SignalPointsAssumption == SignalPoints \subseteq Program \cup {"counting"}

VARIABLES
    evtsel,      \* IA32_PERFEVTSELx of each core: Zero, Kernel, NMI or a process
    nmi,         \* /proc/sys/kernel/nmi_watchdog
    perfEvents,  \* the open perf events: pairs of process and core
    me,          \* the state of each process, see Process
    tasks,       \* cores whose programming task is still queued
    killed,      \* history: processes that died without running their handlers
    rivals       \* history: who was counting when the process began PMUinUse

hardware == <<evtsel, nmi, perfEvents>>
history == <<killed, rivals>>
vars == <<hardware, me, tasks, history>>

ErrorCode == {"Success", "MSRAccessDenied", "PMUBusy", "UnknownError"}

\* pc: what the process is doing; core: the variable of the loops over cores;
\* env: what it found; status: what program() is about to return; the others
\* are members of class PCM.
Process == [pc : Points, core : 1 .. NumCores + 1, status : ErrorCode,
            env : [msr : BOOLEAN, keep : BOOLEAN, perf : BOOLEAN],
            canUsePerf : BOOLEAN, programmed_core_pmu : BOOLEAN,
            needToRestoreNMIWatchdog : BOOLEAN]

TypeOK ==
    /\ evtsel \in [Cores -> Procs \cup {Zero, Kernel, NMI}]
    /\ nmi \in BOOLEAN
    /\ perfEvents \subseteq Procs \X Cores
    /\ me \in [Procs -> Process]
    /\ tasks \in [Procs -> SUBSET Cores]
    /\ killed \subseteq Procs
    /\ rivals \in [Procs -> SUBSET Procs]

At(p, point) == me[p].pc = point

\* p counts with event selects it wrote itself.
Direct(p) == At(p, "counting") /\ ~me[p].canUsePerf

-----------------------------------------------------------------------------
(* The kernel. *)

\* Closing p's perf events on core c frees the event select when nobody else
\* has events there; the kernel may or may not clear the register.
AfterClose(p, c) ==
    IF evtsel[c] = Kernel /\ <<p, c>> \in perfEvents
         /\ ~ \E q \in Procs \ {p} : <<q, c>> \in perfEvents
    THEN {Zero, Kernel} ELSE {evtsel[c]}

Freed(p) == {f \in [Cores -> Procs \cup {Zero, Kernel, NMI}] :
               \A c \in Cores : f[c] \in AfterClose(p, c)}

ClosePerf(p) ==
    /\ perfEvents' = {e \in perfEvents : e[1] # p}
    /\ evtsel' \in Freed(p)

\* writeSysFS(nmi_watchdog, "0"): the watchdog may leave its event behind.
KernelDisablesNMI ==
    /\ nmi' = FALSE
    /\ \/ evtsel' = evtsel
       \/ evtsel' = [c \in Cores |-> IF evtsel[c] = NMI THEN Zero ELSE evtsel[c]]

\* writeSysFS(nmi_watchdog, "1"): the watchdog takes a counter on every core,
\* which may be one that somebody programmed.
KernelEnablesNMI ==
    /\ nmi' = TRUE
    /\ evtsel' \in {f \in [Cores -> Procs \cup {Kernel, NMI}] :
                      \A c \in Cores : f[c] \in {NMI} \cup ({evtsel[c]} \ {Zero})}

-----------------------------------------------------------------------------
\* A process that does not run.
Fresh == [pc |-> "off", core |-> 1, status |-> "Success",
          env |-> [msr |-> FALSE, keep |-> FALSE, perf |-> FALSE],
          canUsePerf |-> FALSE, programmed_core_pmu |-> FALSE,
          needToRestoreNMIWatchdog |-> FALSE]

Init ==
    /\ nmi = NmiAtStart
    /\ evtsel = [c \in Cores |-> IF NmiAtStart THEN NMI ELSE Zero]
    /\ perfEvents = {}
    /\ me = [p \in Procs |-> Fresh]
    /\ tasks = [p \in Procs |-> {}]
    /\ killed = {}
    /\ rivals = [p \in Procs |-> {}]

\* Process p goes to a point; it fails with an error code.
Goto(p, point) == me' = [me EXCEPT ![p].pc = point]
Fail(p, code) == me' = [me EXCEPT ![p].pc = "error", ![p].status = code]

\* PCM::PCM and the first call of program().
Start(p) ==
    /\ At(p, "off")
    /\ \E e \in Environments :
         me' = [me EXCEPT ![p].pc = "nmi", ![p].env = e, ![p].canUsePerf = e.perf]
    /\ UNCHANGED <<hardware, tasks, history>>

\* program() is called again by a process that counts already.
Reprogram(p) ==
    /\ At(p, "counting")
    /\ Goto(p, "nmi")
    /\ UNCHANGED <<hardware, tasks, history>>

IsNMIWatchdogEnabled(p) ==
    /\ At(p, "nmi")
    /\ Goto(p, IF nmi /\ ~me[p].env.keep THEN "disable" ELSE "msr")
    /\ UNCHANGED <<hardware, tasks, history>>

DisableNMIWatchdog(p) ==
    /\ At(p, "disable")
    /\ KernelDisablesNMI
    /\ Goto(p, "flag")
    /\ UNCHANGED <<perfEvents, tasks, history>>

\* The mutant of SetRestoreFlag: the watchdog's state is forgotten.
ForgetRestoreFlag(p) ==
    /\ At(p, "flag")
    /\ Goto(p, "msr")
    /\ UNCHANGED <<hardware, tasks, history>>

SetRestoreFlag(p) ==
    /\ At(p, "flag")
    /\ me' = [me EXCEPT ![p].pc = "msr", ![p].needToRestoreNMIWatchdog = TRUE]
    /\ UNCHANGED <<hardware, tasks, history>>

CheckMSR(p) ==
    /\ At(p, "msr")
    /\ IF me[p].env.msr THEN Goto(p, "perf") ELSE Fail(p, "MSRAccessDenied")
    /\ UNCHANGED <<hardware, tasks, history>>

\* The mutant of ClosesHandles: the handles are closed after the decision.
ClosesHandlesLate(p, usePerf) == usePerf

\* closePerfHandles closes something: it looks at canUsePerf before the
\* decision usePerf of this call of program() is stored.
ClosesHandles(p, usePerf) == me[p].canUsePerf

\* closePerfHandles, then the reasons not to use perf: the decision against it
\* is never taken back.  PMUinUse follows unless the process has programmed the
\* core PMU already.
DecidePerf(p) ==
    /\ At(p, "perf")
    /\ \E usePerf \in {me[p].canUsePerf, FALSE} :
         /\ IF ClosesHandles(p, usePerf) THEN ClosePerf(p)
            ELSE UNCHANGED <<evtsel, perfEvents>>
         /\ IF usePerf \/ me[p].programmed_core_pmu
            THEN /\ me' = [me EXCEPT ![p].pc = "check", ![p].canUsePerf = usePerf]
                 /\ UNCHANGED rivals
            ELSE /\ me' = [me EXCEPT ![p].pc = "inuse", ![p].core = 1,
                                     ![p].canUsePerf = usePerf]
                 /\ rivals' = [rivals EXCEPT ![p] =
                       {q \in Procs \ {p} : Direct(q) /\ \A c \in Cores : evtsel[c] = q}]
    /\ UNCHANGED <<nmi, tasks, killed>>

\* The mutant of CoreInUse: an event select of another PCM passes for free.
OnlyKernelInUse(p, c) ==
    evtsel[c] = Kernel \/ (evtsel[c] = NMI /\ ~me[p].needToRestoreNMIWatchdog)

\* A core's registers show somebody else at work; what the NMI watchdog left
\* behind is ignored by the process that disabled it.
CoreInUse(p, c) ==
    evtsel[c] # Zero /\ ~(evtsel[c] = NMI /\ me[p].needToRestoreNMIWatchdog)

PMUinUse(p) ==
    /\ At(p, "inuse")
    /\ IF me[p].core > NumCores THEN Goto(p, "check")
       ELSE IF CoreInUse(p, me[p].core) THEN Fail(p, "PMUBusy")
            ELSE me' = [me EXCEPT ![p].core = @ + 1]
    /\ UNCHANGED <<hardware, tasks, history>>

\* The NMI watchdog is on and the counters would be programmed directly.
Unsupported(p) == nmi /\ ~me[p].canUsePerf

\* The remaining checks of program(), any of which may refuse the request;
\* then one task per core is queued.
CheckAndQueue(p) ==
    /\ At(p, "check")
    /\ \/ /\ Fail(p, "UnknownError")
          /\ UNCHANGED tasks
       \/ /\ ~Unsupported(p)
          /\ tasks' = [tasks EXCEPT ![p] = Cores]
          /\ me' = [me EXCEPT ![p].pc = "tasks", ![p].status = "Success"]
    /\ UNCHANGED <<hardware, history>>

\* programCoreCounters for core c, run by the core's own thread: with perf an
\* event may fail to open, otherwise the event selects are overwritten.
ProgramCoreCounters(p, c) ==
    /\ ~At(p, "off") /\ c \in tasks[p]
    /\ tasks' = [tasks EXCEPT ![p] = @ \ {c}]
    /\ IF me[p].canUsePerf
       THEN \/ /\ perfEvents' = perfEvents \cup {<<p, c>>}
               /\ evtsel' = [evtsel EXCEPT ![c] = Kernel]
               /\ UNCHANGED me
            \/ /\ me' = [me EXCEPT ![p].status = "UnknownError"]
               /\ UNCHANGED <<perfEvents, evtsel>>
       ELSE /\ evtsel' = [evtsel EXCEPT ![c] = p]
            /\ UNCHANGED <<perfEvents, me>>
    /\ UNCHANGED <<nmi, history>>

\* All futures are ready: program() returns.
ProgramReturns(p) ==
    /\ At(p, "tasks") /\ tasks[p] = {}
    /\ IF me[p].status = "Success"
       THEN me' = [me EXCEPT ![p].pc = "counting", ![p].programmed_core_pmu = TRUE]
       ELSE Goto(p, "error")
    /\ UNCHANGED <<hardware, tasks, history>>

\* checkError: a busy PMU may be reset if the user says so; exit() follows.
CheckError(p) ==
    /\ At(p, "error")
    /\ \/ /\ me[p].status = "PMUBusy"
          /\ me' = [me EXCEPT ![p].pc = "reset", ![p].core = 1]
       \/ Goto(p, "cleanup")
    /\ UNCHANGED <<hardware, tasks, history>>

\* One round of a loop over the cores that clears the event selects.
ClearRound(p, last, points) ==
    /\ IF me[p].core > last
       THEN (\E point \in points : Goto(p, point)) /\ UNCHANGED evtsel
       ELSE /\ evtsel' = [evtsel EXCEPT ![me[p].core] = Zero]
            /\ me' = [me EXCEPT ![p].core = @ + 1]
    /\ UNCHANGED <<nmi, perfEvents, tasks, history>>

\* resetPMU: most programs end after it, pcm-sensor-server programs again.
ResetPMU(p) == At(p, "reset") /\ ClearRound(p, NumCores, {"cleanup", "nmi"})

\* A termination signal, or the end of the program: the handler runs
\* exit_cleanup while the core threads keep running.
Signal(p) ==
    /\ me[p].pc \in SignalPoints
    /\ Goto(p, "cleanup")
    /\ UNCHANGED <<hardware, tasks, history>>

\* The process is gone: its threads stop, the kernel closes its perf events.
Vanish(p) ==
    /\ me' = [me EXCEPT ![p] = Fresh]
    /\ tasks' = [tasks EXCEPT ![p] = {}]
    /\ perfEvents' = {e \in perfEvents : e[1] # p}
    /\ rivals' = [q \in Procs |-> IF q = p THEN {} ELSE rivals[q] \ {p}]

\* PCM::cleanup without MSRs does nothing; otherwise cleanupPMU comes first.
CleanupPMU(p) ==
    /\ At(p, "cleanup")
    /\ IF ~me[p].env.msr
       THEN Vanish(p) /\ UNCHANGED evtsel
       ELSE /\ IF me[p].canUsePerf
               THEN /\ me' = [me EXCEPT ![p].pc = "restore",
                                        ![p].programmed_core_pmu = FALSE]
                    /\ ClosePerf(p)
               ELSE /\ me' = [me EXCEPT ![p].pc = "clear", ![p].core = 1,
                                        ![p].programmed_core_pmu = FALSE]
                    /\ UNCHANGED <<evtsel, perfEvents>>
            /\ rivals' = [q \in Procs |-> rivals[q] \ {p}]
            /\ UNCHANGED tasks
    /\ UNCHANGED <<nmi, killed>>

\* Mutants of LastCore: the loop of cleanupPMU stops one core early, or late.
LastCoreButOne == NumCores - 1
PastLastCore == NumCores + 1

\* Where the loop of cleanupPMU ends.
LastCore == NumCores

\* The loop of cleanupPMU.
ClearEventSelects(p) == At(p, "clear") /\ ClearRound(p, LastCore, {"restore"})

\* The end of cleanup() and of the process: the NMI watchdog comes last, after
\* the uncore PMUs and the RMIDs.
RestoreAndExit(p) ==
    /\ At(p, "restore")
    /\ Vanish(p)
    /\ IF me[p].needToRestoreNMIWatchdog
       THEN KernelEnablesNMI
       ELSE nmi' = nmi /\ evtsel' \in Freed(p)
    /\ UNCHANGED killed

\* SIGKILL, or a second Ctrl-C after exit_cleanup restored the default handlers.
Kill(p) ==
    /\ ~At(p, "off")
    /\ Cardinality(killed) < MaxKills
    /\ Vanish(p)
    /\ evtsel' \in Freed(p)
    /\ killed' = killed \cup {p}
    /\ UNCHANGED nmi

Step(p) ==
    \/ Start(p) \/ Reprogram(p) \/ IsNMIWatchdogEnabled(p)
    \/ DisableNMIWatchdog(p) \/ SetRestoreFlag(p) \/ CheckMSR(p)
    \/ DecidePerf(p) \/ PMUinUse(p) \/ CheckAndQueue(p) \/ ProgramReturns(p)
    \/ CheckError(p) \/ ResetPMU(p) \/ Signal(p) \/ CleanupPMU(p)
    \/ ClearEventSelects(p) \/ RestoreAndExit(p) \/ Kill(p)
    \/ \E c \in Cores : ProgramCoreCounters(p, c)

Next == \E p \in Procs : Step(p)

Spec == Init /\ [][Next]_vars

-----------------------------------------------------------------------------
\* Once every process has ended, and each by its handlers, the NMI watchdog is
\* as it was before the first one started.
WatchdogRestored ==
    (\A p \in Procs : At(p, "off")) /\ killed = {} => nmi = NmiAtStart

\* A process that ended by its handlers has left no event select behind.
PMUReleased ==
    \A p \in Procs \ killed : At(p, "off") =>
        \A c \in Cores : evtsel[c] # p

\* A process that gave up perf holds no perf event: closePerfHandles closes
\* nothing once canUsePerf is false.
NoPerfLeak == \A e \in perfEvents : me[e[1]].canUsePerf

\* The NMI watchdog never runs while a process counts without perf.
\* The code does not have this property (README, section 4).
NoWatchdogWhileDirect == \A p \in Procs : Direct(p) => ~nmi

\* A process that looked at the PMU while another one was counting, and which
\* goes on counting, never overwrites an event select of that other one.
NoTakeover ==
    [][\A p \in Procs, c \in Cores :
         evtsel'[c] = p /\ evtsel[c] # p => evtsel[c] \notin rivals[p]]_vars

\* The state of every process and of the PMU is consistent, and a process that
\* ended or gave up a way to count has nothing left of it (program and cleanup).
LifecycleInv == TypeOK /\ PMUReleased /\ NoPerfLeak

=============================================================================
