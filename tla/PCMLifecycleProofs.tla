------------------------- MODULE PCMLifecycleProofs -------------------------
(***************************************************************************)
(* What the life cycle of PCM processes guarantees for any number of       *)
(* processes and cores: nothing is left of a process that ended by its     *)
(* handlers, the NMI watchdog comes back, and a process does not take the  *)
(* PMU from one that was counting when it looked.                          *)
(***************************************************************************)
EXTENDS PCMLifecycle, TLAPS

\* When signals may arrive for cleanup to find all there is to undo: not while
\* tasks of program() are still queued, and not between the write to
\* nmi_watchdog and the flag that remembers it (program and exit_cleanup).
SignalsMissTasks == "tasks" \notin SignalPoints
SignalsMissFlag == "flag" \notin SignalPoints

\* A process that cannot open the MSRs, whose cleanup does nothing, was told to
\* leave the watchdog alone.
DeniedKeepWatchdog == \A e \in Environments : ~e.msr => e.keep

-----------------------------------------------------------------------------
(* The inductive invariants *)

\* Queued tasks belong to a process inside program(), which has the MSRs.
TasksInProgram ==
    \A p \in Procs :
        /\ tasks[p] # {} => me[p].pc = "tasks"
        /\ me[p].pc = "off" => ~me[p].canUsePerf
        /\ me[p].pc \in {"perf", "inuse", "check", "tasks", "counting"} => me[p].env.msr

\* An event select is its owner's to clear: the owner has still to come to the
\* loop of cleanupPMU, or the loop has still to come to the core.
OwnerClears ==
    \A p \in Procs \ killed, c \in Cores : evtsel[c] = p =>
        /\ me[p].env.msr /\ ~me[p].canUsePerf
        /\ me[p].pc \notin {"off", "restore"}
        /\ me[p].pc = "clear" => me[p].core <= c

ReleaseInv == TypeOK /\ NoPerfLeak /\ TasksInProgram /\ OwnerClears

\* A process that does not run has its initial state, and a process that
\* disabled the watchdog can enable it again.
EnvironmentKept ==
    \A p \in Procs :
        /\ me[p].pc = "off" => me[p] = Fresh
        /\ me[p].pc # "off" => me[p].env \in Environments
        /\ ~me[p].env.msr => ~me[p].needToRestoreNMIWatchdog
                             /\ me[p].pc \notin {"disable", "flag"}

\* A watchdog that was on is on, or somebody knows that it has to be enabled; one
\* that was off stays off.
WatchdogRemembered ==
    /\ NmiAtStart /\ killed = {} /\ ~nmi =>
          \E p \in Procs : me[p].needToRestoreNMIWatchdog \/ me[p].pc = "flag"
    /\ ~NmiAtStart => /\ ~nmi
                      /\ \A p \in Procs : /\ ~me[p].needToRestoreNMIWatchdog
                                          /\ me[p].pc \notin {"disable", "flag"}

WatchdogInv == TypeOK /\ EnvironmentKept /\ WatchdogRemembered

\* Queued tasks belong to a process that found nobody counting and that has not
\* ended since; a signal may have made it begin its clean-up.
QueuedAlone ==
    \A p \in Procs : tasks[p] # {} =>
        /\ me[p].pc \in {"tasks", "cleanup", "clear", "restore"}
        /\ rivals[p] = {}

\* A process that programmed the core PMU counts, reprograms or fails, and does
\* not come to look for others again.
Counted ==
    \A p \in Procs :
        /\ me[p].pc = "counting" => me[p].programmed_core_pmu
        /\ me[p].programmed_core_pmu =>
              /\ me[p].status # "PMUBusy"
              /\ me[p].pc \notin {"off", "inuse", "reset", "clear", "restore"}

\* Whom p found counting still owns the PMU; it holds every event select when p
\* looks, and p has not come past PMUinUse.
RivalsHold ==
    \A p \in Procs : \A q \in rivals[p] :
        /\ q # p
        /\ me[q].programmed_core_pmu /\ ~me[q].canUsePerf
        /\ ~me[p].programmed_core_pmu /\ ~me[p].canUsePerf
        /\ me[p].pc \notin {"off", "check", "tasks", "counting"}
        /\ me[p].pc = "inuse" => me[p].core = 1 /\ \A c \in Cores : evtsel[c] = q

TakeoverInv == TypeOK /\ QueuedAlone /\ Counted /\ RivalsHold

-----------------------------------------------------------------------------
(* Types *)

Env == [msr : BOOLEAN, keep : BOOLEAN, perf : BOOLEAN]
Selects == Procs \cup {Zero, Kernel, NMI}

\* The state of a process, field by field
LEMMA Fields ==
    ASSUME TypeOK, NEW p \in Procs
    PROVE  /\ me \in [Procs -> Process] /\ me[p] \in Process
           /\ me[p].pc \in Points /\ me[p].core \in 1 .. NumCores + 1 /\ me[p].status \in ErrorCode
           /\ me[p].env \in Env /\ me[p].canUsePerf \in BOOLEAN
           /\ me[p].programmed_core_pmu \in BOOLEAN /\ me[p].needToRestoreNMIWatchdog \in BOOLEAN
  BY DEF TypeOK, Process, Env

\* A process that has not started.
LEMMA FreshType ==
    /\ Fresh \in Process
    /\ Fresh.pc = "off" /\ ~Fresh.canUsePerf /\ ~Fresh.needToRestoreNMIWatchdog
    /\ ~Fresh.programmed_core_pmu /\ ~Fresh.env.msr
  BY ConstantsAssumption DEF Fresh, Process, Points, ErrorCode

\* Only process p changes, and what becomes of it
Only(p) == me' \in [Procs -> Process] /\ \A q \in Procs \ {p} : me'[q] = me[q]

Becomes(p, there, core, status, canUsePerf, programmed, restore) ==
    /\ Only(p)
    /\ me'[p].env = me[p].env
    /\ me'[p].pc = there /\ me'[p].core = core /\ me'[p].status = status
    /\ me'[p].canUsePerf = canUsePerf /\ me'[p].programmed_core_pmu = programmed
    /\ me'[p].needToRestoreNMIWatchdog = restore

Keeps(p, there) ==
    Becomes(p, there, me[p].core, me[p].status, me[p].canUsePerf,
            me[p].programmed_core_pmu, me[p].needToRestoreNMIWatchdog)

\* Shapes of assignment to the members of PCM
LEMMA Going ==
    ASSUME TypeOK, NEW p \in Procs, NEW there \in Points, Goto(p, there)
    PROVE  Keeps(p, there)
<1>1. me \in [Procs -> Process]
  BY DEF TypeOK
<1> QED
  BY <1>1 DEF Goto, Process, Keeps, Becomes, Only

\* program() returns an error code.
LEMMA Failing ==
    ASSUME TypeOK, NEW p \in Procs, NEW code \in ErrorCode, Fail(p, code)
    PROVE  Becomes(p, "error", me[p].core, code, me[p].canUsePerf,
                   me[p].programmed_core_pmu, me[p].needToRestoreNMIWatchdog)
<1>1. me \in [Procs -> Process] /\ me[p] \in Process /\ "error" \in Points
  BY DEF TypeOK, Points
<1>2. [me[p] EXCEPT !.pc = "error", !.status = code] \in Process
  BY <1>1 DEF Process
<1>3. me' = [me EXCEPT ![p] = [me[p] EXCEPT !.pc = "error", !.status = code]]
  BY <1>1 DEF Fail
<1>4. Only(p) /\ me'[p] = [me[p] EXCEPT !.pc = "error", !.status = code]
  BY <1>1, <1>2, <1>3 DEF Only
<1> QED
  BY <1>1, <1>4 DEF Process, Becomes

\* A loop over the cores goes on to core k.
LEMMA Numbering ==
    ASSUME TypeOK, NEW p \in Procs, NEW k \in 1 .. NumCores + 1, me' = [me EXCEPT ![p].core = k]
    PROVE  Becomes(p, me[p].pc, k, me[p].status, me[p].canUsePerf,
                   me[p].programmed_core_pmu, me[p].needToRestoreNMIWatchdog)
<1>1. me \in [Procs -> Process]
  BY DEF TypeOK
<1> QED
  BY <1>1 DEF Process, Becomes, Only

\* The process goes on to another point and to core k of its loop.
LEMMA Looping ==
    ASSUME TypeOK, NEW p \in Procs, NEW there \in Points, NEW k \in 1 .. NumCores + 1,
           me' = [me EXCEPT ![p].pc = there, ![p].core = k]
    PROVE  Becomes(p, there, k, me[p].status, me[p].canUsePerf,
                   me[p].programmed_core_pmu, me[p].needToRestoreNMIWatchdog)
<1>1. me \in [Procs -> Process] /\ me[p] \in Process
  BY DEF TypeOK
<1>2. [me[p] EXCEPT !.pc = there, !.core = k] \in Process
  BY <1>1 DEF Process
<1>3. me' = [me EXCEPT ![p] = [me[p] EXCEPT !.pc = there, !.core = k]]
  BY <1>1
<1>4. Only(p) /\ me'[p] = [me[p] EXCEPT !.pc = there, !.core = k]
  BY <1>1, <1>2, <1>3 DEF Only
<1> QED
  BY <1>1, <1>4 DEF Process, Becomes

\* The process goes on and has decided whether to use perf.
LEMMA Deciding ==
    ASSUME TypeOK, NEW p \in Procs, NEW there \in Points, NEW k \in 1 .. NumCores + 1,
           NEW perf \in BOOLEAN,
           \/ k = me[p].core /\ me' = [me EXCEPT ![p].pc = there, ![p].canUsePerf = perf]
           \/ me' = [me EXCEPT ![p].pc = there, ![p].core = k, ![p].canUsePerf = perf]
    PROVE  Becomes(p, there, k, me[p].status, perf,
                   me[p].programmed_core_pmu, me[p].needToRestoreNMIWatchdog)
<1>1. me \in [Procs -> Process]
  BY DEF TypeOK
<1> QED
  BY <1>1 DEF Process, Becomes, Only

\* The process goes on and notes whether it has programmed the core PMU.
LEMMA Programming ==
    ASSUME TypeOK, NEW p \in Procs, NEW there \in Points, NEW k \in 1 .. NumCores + 1,
           NEW done \in BOOLEAN,
           \/ k = me[p].core /\ me' = [me EXCEPT ![p].pc = there, ![p].programmed_core_pmu = done]
           \/ me' = [me EXCEPT ![p].pc = there, ![p].core = k, ![p].programmed_core_pmu = done]
    PROVE  Becomes(p, there, k, me[p].status, me[p].canUsePerf,
                   done, me[p].needToRestoreNMIWatchdog)
<1>1. me \in [Procs -> Process]
  BY DEF TypeOK
<1> QED
  BY <1>1 DEF Process, Becomes, Only

\* The status of program() is set.
LEMMA Reporting ==
    ASSUME TypeOK, NEW p \in Procs, NEW there \in Points, NEW code \in ErrorCode,
           \/ there = me[p].pc /\ me' = [me EXCEPT ![p].status = code]
           \/ me' = [me EXCEPT ![p].pc = there, ![p].status = code]
    PROVE  Becomes(p, there, me[p].core, code, me[p].canUsePerf,
                   me[p].programmed_core_pmu, me[p].needToRestoreNMIWatchdog)
<1>1. me \in [Procs -> Process]
  BY DEF TypeOK
<1> QED
  BY <1>1 DEF Process, Becomes, Only

\* The process goes on and will restore the NMI watchdog.
LEMMA Remembering ==
    ASSUME TypeOK, NEW p \in Procs, NEW there \in Points,
           me' = [me EXCEPT ![p].pc = there, ![p].needToRestoreNMIWatchdog = TRUE]
    PROVE  Becomes(p, there, me[p].core, me[p].status, me[p].canUsePerf,
                   me[p].programmed_core_pmu, TRUE)
<1>1. me \in [Procs -> Process] /\ me[p] \in Process
  BY DEF TypeOK
<1>2. [me[p] EXCEPT !.pc = there, !.needToRestoreNMIWatchdog = TRUE] \in Process
  BY <1>1 DEF Process
<1>3. me' = [me EXCEPT ![p] = [me[p] EXCEPT !.pc = there, !.needToRestoreNMIWatchdog = TRUE]]
  BY <1>1
<1>4. Only(p) /\ me'[p] = [me[p] EXCEPT !.pc = there, !.needToRestoreNMIWatchdog = TRUE]
  BY <1>1, <1>2, <1>3 DEF Only
<1> QED
  BY <1>1, <1>4 DEF Process, Becomes

\* A process starts in an environment of its own.
LEMMA Starting ==
    ASSUME TypeOK, NEW p \in Procs, Start(p)
    PROVE  /\ Only(p) /\ me[p].pc = "off" /\ me'[p].pc = "nmi"
           /\ me'[p].core = me[p].core /\ me'[p].status = me[p].status
           /\ me'[p].env \in Environments
           /\ me'[p].programmed_core_pmu = me[p].programmed_core_pmu
           /\ me'[p].needToRestoreNMIWatchdog = me[p].needToRestoreNMIWatchdog
<1>1. me \in [Procs -> Process]
  BY DEF TypeOK
<1>2. PICK e \in Environments : 
         me' = [me EXCEPT ![p].pc = "nmi", ![p].env = e, ![p].canUsePerf = e.perf]
  BY DEF Start
<1>3. e \in Env /\ e.perf \in BOOLEAN
  BY ConstantsAssumption DEF Env
<1>4. me' \in [Procs -> Process]
  <2>1. Process = [pc : Points, core : 1 .. NumCores + 1, status : ErrorCode, env : Env,
                   canUsePerf : BOOLEAN, programmed_core_pmu : BOOLEAN,
                   needToRestoreNMIWatchdog : BOOLEAN]
    BY DEF Process, Env
  <2>2. "nmi" \in Points
    BY DEF Points, Program
  <2>3. me[p] \in Process
    BY <1>1
  <2>4. [me[p] EXCEPT !.pc = "nmi", !.env = e, !.canUsePerf = e.perf] \in Process
    BY <1>3, <2>1, <2>2, <2>3
  <2>5. me' = [me EXCEPT ![p] = [me[p] EXCEPT !.pc = "nmi", !.env = e, !.canUsePerf = e.perf]]
    BY <1>1, <1>2
  <2> QED
    BY <1>1, <2>4, <2>5
<1>5. /\ \A q \in Procs \ {p} : me'[q] = me[q]
      /\ me'[p].pc = "nmi" /\ me'[p].core = me[p].core /\ me'[p].status = me[p].status
      /\ me'[p].env = e /\ me'[p].canUsePerf = e.perf
      /\ me'[p].programmed_core_pmu = me[p].programmed_core_pmu
      /\ me'[p].needToRestoreNMIWatchdog = me[p].needToRestoreNMIWatchdog
  BY <1>1, <1>2 DEF Process
<1> QED
  BY <1>4, <1>5 DEF Start, At, Only

\* A process that ends leaves no tasks, no perf events and no rivals behind.
LEMMA Vanishing ==
    ASSUME TypeOK, NEW p \in Procs, Vanish(p)
    PROVE  /\ Only(p) /\ me'[p] = Fresh
           /\ tasks' \in [Procs -> SUBSET Cores] /\ tasks'[p] = {}
           /\ \A q \in Procs \ {p} : tasks'[q] = tasks[q]
           /\ perfEvents' \subseteq perfEvents /\ \A e \in perfEvents' : e[1] # p
           /\ rivals' \in [Procs -> SUBSET Procs] /\ rivals'[p] = {}
           /\ \A q \in Procs \ {p} : rivals'[q] = rivals[q] \ {p}
<1>1. /\ me \in [Procs -> Process] /\ tasks \in [Procs -> SUBSET Cores]
      /\ rivals \in [Procs -> SUBSET Procs]
  BY DEF TypeOK
<1>2. Only(p) /\ me'[p] = Fresh
  BY <1>1, FreshType DEF Vanish, Only
<1> QED
  BY <1>1, <1>2 DEF Vanish

\* What the kernel does to the event selects stays within what may be there.
LEMMA FreedType ==
    ASSUME TypeOK, NEW p \in Procs, evtsel' \in Freed(p)
    PROVE  /\ evtsel' \in [Cores -> Selects]
           /\ \A c \in Cores : evtsel'[c] = evtsel[c] \/ (evtsel[c] = Kernel /\ evtsel'[c] = Zero)
<1>1. evtsel' \in [Cores -> Selects] /\ \A c \in Cores : evtsel'[c] \in AfterClose(p, c)
  BY DEF Freed, Selects
<1>2. ASSUME NEW c \in Cores
      PROVE  evtsel'[c] = evtsel[c] \/ (evtsel[c] = Kernel /\ evtsel'[c] = Zero)
  <2>1. AfterClose(p, c) = {evtsel[c]} \/ (evtsel[c] = Kernel /\ AfterClose(p, c) = {Zero, Kernel})
    BY Zenon DEF AfterClose
  <2> QED
    BY <1>1, <2>1
<1> QED
  BY <1>1, <1>2

\* The kernel, enabling the NMI watchdog, may take a counter of any core.
LEMMA EnablesType ==
    ASSUME TypeOK, KernelEnablesNMI
    PROVE  /\ evtsel' \in [Cores -> Selects]
           /\ \A c \in Cores : evtsel'[c] \in {evtsel[c], NMI}
  BY DEF KernelEnablesNMI, Selects

\* The kernel, disabling the NMI watchdog, gives back its own counters only.
LEMMA DisablesType ==
    ASSUME TypeOK, KernelDisablesNMI
    PROVE  /\ evtsel' \in [Cores -> Selects]
           /\ \A c \in Cores : evtsel'[c] = evtsel[c] \/ (evtsel[c] = NMI /\ evtsel'[c] = Zero)
<1>1. evtsel \in [Cores -> Selects]
  BY DEF TypeOK, Selects
<1>2. CASE evtsel' = evtsel
  BY <1>1, <1>2
<1>3. CASE evtsel' = [c \in Cores |-> IF evtsel[c] = NMI THEN Zero ELSE evtsel[c]]
  BY <1>1, <1>3 DEF Selects
<1> QED
  BY <1>2, <1>3 DEF KernelDisablesNMI

\* A step that only moves a process
Moves(p) == Only(p) /\ UNCHANGED <<hardware, tasks, history>>

\* A step that changes nothing but its process keeps the types.
LEMMA MoveTypes ==
    ASSUME TypeOK, NEW p \in Procs, Moves(p)
    PROVE  TypeOK'
<1>1. /\ evtsel' = evtsel /\ nmi' = nmi /\ perfEvents' = perfEvents /\ tasks' = tasks
      /\ killed' = killed /\ rivals' = rivals /\ me' \in [Procs -> Process]
  BY DEF Moves, Only, hardware, history
<1> QED
  BY <1>1 DEF TypeOK

\* The points and codes that the steps name
LEMMA PointsNamed ==
    /\ Program \subseteq Points
    /\ {"off", "counting", "error", "reset", "cleanup", "clear", "restore"} \subseteq Points
    /\ {"nmi", "disable", "flag", "msr", "perf", "inuse", "check", "tasks"} \subseteq Points
    /\ {"Success", "MSRAccessDenied", "PMUBusy", "UnknownError"} \subseteq ErrorCode
    /\ NumCores \in Nat /\ NumCores >= 1 /\ 1 \in 1 .. NumCores + 1 /\ 1 \in Cores
  BY ConstantsAssumption DEF Points, Program, ErrorCode, Cores

\* What each step does to the process that takes it
LEMMA ReprogramMoves ==
    ASSUME TypeOK, NEW p \in Procs, Reprogram(p)
    PROVE  Moves(p) /\ me[p].pc = "counting" /\ Keeps(p, "nmi")
  BY PointsNamed, Going DEF Reprogram, Moves, At, Keeps, Becomes

\* isNMIWatchdogEnabled looks at the watchdog.
LEMMA IsNMIMoves ==
    ASSUME TypeOK, NEW p \in Procs, IsNMIWatchdogEnabled(p)
    PROVE  /\ Moves(p) /\ me[p].pc = "nmi"
           /\ \/ nmi /\ ~me[p].env.keep /\ Keeps(p, "disable")
              \/ Keeps(p, "msr")
<1>1. CASE nmi /\ ~me[p].env.keep
  BY <1>1, PointsNamed, Going DEF IsNMIWatchdogEnabled, Moves, At, Keeps, Becomes
<1>2. CASE ~(nmi /\ ~me[p].env.keep)
  BY <1>2, PointsNamed, Going DEF IsNMIWatchdogEnabled, Moves, At, Keeps, Becomes
<1> QED
  BY <1>1, <1>2

\* needToRestoreNMIWatchdog is set.
LEMMA SetFlagMoves ==
    ASSUME TypeOK, NEW p \in Procs, SetRestoreFlag(p)
    PROVE  /\ Moves(p) /\ me[p].pc = "flag"
           /\ Becomes(p, "msr", me[p].core, me[p].status, me[p].canUsePerf,
                      me[p].programmed_core_pmu, TRUE)
  BY PointsNamed, Remembering DEF SetRestoreFlag, Moves, At, Becomes

\* program() ends early without access to MSRs.
LEMMA CheckMSRMoves ==
    ASSUME TypeOK, NEW p \in Procs, CheckMSR(p)
    PROVE  /\ Moves(p) /\ me[p].pc = "msr"
           /\ \/ me[p].env.msr /\ Keeps(p, "perf")
              \/ /\ ~me[p].env.msr
                 /\ Becomes(p, "error", me[p].core, "MSRAccessDenied", me[p].canUsePerf,
                            me[p].programmed_core_pmu, me[p].needToRestoreNMIWatchdog)
<1>1. CASE me[p].env.msr
  BY <1>1, PointsNamed, Going DEF CheckMSR, Moves, At, Keeps, Becomes
<1>2. CASE ~me[p].env.msr
  BY <1>2, PointsNamed, Failing DEF CheckMSR, Moves, At, Becomes
<1> QED
  BY <1>1, <1>2

\* PMUinUse looks at one core after another.
LEMMA PMUinUseMoves ==
    ASSUME TypeOK, NEW p \in Procs, PMUinUse(p)
    PROVE  /\ Moves(p) /\ me[p].pc = "inuse"
           /\ \/ me[p].core > NumCores /\ Keeps(p, "check")
              \/ Becomes(p, "error", me[p].core, "PMUBusy", me[p].canUsePerf,
                         me[p].programmed_core_pmu, me[p].needToRestoreNMIWatchdog)
              \/ /\ me[p].core \in Cores /\ ~CoreInUse(p, me[p].core)
                 /\ Becomes(p, "inuse", me[p].core + 1, me[p].status, me[p].canUsePerf,
                            me[p].programmed_core_pmu, me[p].needToRestoreNMIWatchdog)
<1>0. me[p].pc = "inuse" /\ me[p].core \in 1 .. NumCores + 1
  BY Fields DEF PMUinUse, At
<1>1. CASE me[p].core > NumCores
  BY <1>0, <1>1, PointsNamed, Going DEF PMUinUse, Moves, Keeps, Becomes
<1>2. CASE ~(me[p].core > NumCores) /\ CoreInUse(p, me[p].core)
  BY <1>0, <1>2, PointsNamed, Failing DEF PMUinUse, Moves, Becomes
<1>3. CASE ~(me[p].core > NumCores) /\ ~CoreInUse(p, me[p].core)
  <2>1. me[p].core + 1 \in 1 .. NumCores + 1 /\ me[p].core \in Cores
    BY <1>0, <1>3, PointsNamed DEF Cores
  <2>2. me' = [me EXCEPT ![p].core = me[p].core + 1]
    BY <1>3 DEF PMUinUse
  <2> QED
    BY <1>0, <1>3, <2>1, <2>2, Numbering DEF PMUinUse, Moves, Becomes
<1> QED
  BY <1>1, <1>2, <1>3

\* program() returns once all its tasks are done.
LEMMA ReturnsMoves ==
    ASSUME TypeOK, NEW p \in Procs, ProgramReturns(p)
    PROVE  /\ Moves(p) /\ me[p].pc = "tasks" /\ tasks[p] = {}
           /\ \/ /\ me[p].status = "Success"
                 /\ Becomes(p, "counting", me[p].core, me[p].status, me[p].canUsePerf,
                            TRUE, me[p].needToRestoreNMIWatchdog)
              \/ Keeps(p, "error")
<1>1. CASE me[p].status = "Success"
  <2>1. me' = [me EXCEPT ![p].pc = "counting", ![p].programmed_core_pmu = TRUE]
    BY <1>1 DEF ProgramReturns
  <2>2. "counting" \in Points /\ me[p].core \in 1 .. NumCores + 1
    BY PointsNamed, Fields
  <2>3. Becomes(p, "counting", me[p].core, me[p].status, me[p].canUsePerf,
                TRUE, me[p].needToRestoreNMIWatchdog)
    BY <2>1, <2>2, Programming
  <2> QED
    BY <1>1, <2>3 DEF ProgramReturns, Moves, At, Becomes
<1>2. CASE me[p].status # "Success"
  BY <1>2, PointsNamed, Going DEF ProgramReturns, Moves, At, Keeps, Becomes
<1> QED
  BY <1>1, <1>2

\* checkError resets a busy PMU or cleans up.
LEMMA CheckErrorMoves ==
    ASSUME TypeOK, NEW p \in Procs, CheckError(p)
    PROVE  /\ Moves(p) /\ me[p].pc = "error"
           /\ \/ /\ me[p].status = "PMUBusy"
                 /\ Becomes(p, "reset", 1, me[p].status, me[p].canUsePerf,
                            me[p].programmed_core_pmu, me[p].needToRestoreNMIWatchdog)
              \/ Keeps(p, "cleanup")
<1>1. CASE Goto(p, "cleanup")
  BY <1>1, PointsNamed, Going DEF CheckError, Moves, At, Keeps, Becomes
<1>2. CASE ~Goto(p, "cleanup")
  <2>1. me[p].status = "PMUBusy" /\ me' = [me EXCEPT ![p].pc = "reset", ![p].core = 1]
    BY <1>2 DEF CheckError
  <2>2. "reset" \in Points /\ 1 \in 1 .. NumCores + 1
    BY PointsNamed
  <2>3. Becomes(p, "reset", 1, me[p].status, me[p].canUsePerf,
                me[p].programmed_core_pmu, me[p].needToRestoreNMIWatchdog)
    BY <2>1, <2>2, Looping
  <2> QED
    BY <2>1, <2>3 DEF CheckError, Moves, At, Becomes
<1> QED
  BY <1>1, <1>2

\* A signal leads to cleanup.
LEMMA SignalMoves ==
    ASSUME TypeOK, NEW p \in Procs, Signal(p)
    PROVE  Moves(p) /\ me[p].pc \in SignalPoints /\ Keeps(p, "cleanup")
  BY PointsNamed, Going DEF Signal, Moves, Keeps, Becomes

\* A process that starts changes nothing else.
LEMMA StartMoves ==
    ASSUME TypeOK, NEW p \in Procs, Start(p)
    PROVE  Moves(p)
  BY Starting DEF Start, Moves

\* disableNMIWatchdog takes the counters of the watchdog away.
LEMMA DisableEffect ==
    ASSUME TypeOK, NEW p \in Procs, DisableNMIWatchdog(p)
    PROVE  /\ me[p].pc = "disable" /\ Keeps(p, "flag")
           /\ ~nmi' /\ UNCHANGED <<perfEvents, tasks, killed, rivals>>
           /\ evtsel' \in [Cores -> Selects]
           /\ \A c \in Cores : evtsel'[c] = evtsel[c] \/ (evtsel[c] = NMI /\ evtsel'[c] = Zero)
           /\ TypeOK'
<1>1. me[p].pc = "disable" /\ Keeps(p, "flag") /\ nmi' = FALSE
      /\ UNCHANGED <<perfEvents, tasks, killed, rivals>>
  BY PointsNamed, Going DEF DisableNMIWatchdog, At, KernelDisablesNMI, history
<1>2. /\ evtsel' \in [Cores -> Selects]
      /\ \A c \in Cores : evtsel'[c] = evtsel[c] \/ (evtsel[c] = NMI /\ evtsel'[c] = Zero)
  BY DisablesType DEF DisableNMIWatchdog
<1>3. TypeOK'
  BY <1>1, <1>2 DEF TypeOK, Keeps, Becomes, Only, Selects
<1> QED
  BY <1>1, <1>2, <1>3

\* Deciding for or against perf: the perf events of the process are closed.
LEMMA DecideEffect ==
    ASSUME TypeOK, NEW p \in Procs, DecidePerf(p)
    PROVE  /\ me[p].pc = "perf" /\ UNCHANGED <<nmi, tasks, killed>>
           /\ evtsel' \in [Cores -> Selects]
           /\ \A c \in Cores : evtsel'[c] = evtsel[c] \/ (evtsel[c] = Kernel /\ evtsel'[c] = Zero)
           /\ perfEvents' \subseteq perfEvents
           /\ me[p].canUsePerf => \A e \in perfEvents' : e[1] # p
           /\ \E usePerf \in {me[p].canUsePerf, FALSE} :
                \/ /\ usePerf \/ me[p].programmed_core_pmu
                   /\ Becomes(p, "check", me[p].core, me[p].status, usePerf,
                              me[p].programmed_core_pmu, me[p].needToRestoreNMIWatchdog)
                   /\ rivals' = rivals
                \/ /\ ~usePerf /\ ~me[p].programmed_core_pmu
                   /\ Becomes(p, "inuse", 1, me[p].status, usePerf,
                              me[p].programmed_core_pmu, me[p].needToRestoreNMIWatchdog)
                   /\ rivals' = [rivals EXCEPT ![p] =
                         {q \in Procs \ {p} : Direct(q) /\ \A c \in Cores : evtsel[c] = q}]
           /\ TypeOK'
<1>0. me[p].pc = "perf" /\ UNCHANGED <<nmi, tasks, killed>>
  BY DEF DecidePerf, At
<1>1. PICK usePerf \in {me[p].canUsePerf, FALSE} :
        /\ IF ClosesHandles(p, usePerf) THEN ClosePerf(p) ELSE UNCHANGED <<evtsel, perfEvents>>
        /\ IF usePerf \/ me[p].programmed_core_pmu
           THEN /\ me' = [me EXCEPT ![p].pc = "check", ![p].canUsePerf = usePerf]
                /\ UNCHANGED rivals
           ELSE /\ me' = [me EXCEPT ![p].pc = "inuse", ![p].core = 1, ![p].canUsePerf = usePerf]
                /\ rivals' = [rivals EXCEPT ![p] =
                      {q \in Procs \ {p} : Direct(q) /\ \A c \in Cores : evtsel[c] = q}]
  BY DEF DecidePerf
<1>2. usePerf \in BOOLEAN
  BY Fields
<1>3. /\ evtsel' \in [Cores -> Selects]
      /\ \A c \in Cores : evtsel'[c] = evtsel[c] \/ (evtsel[c] = Kernel /\ evtsel'[c] = Zero)
      /\ perfEvents' \subseteq perfEvents
      /\ me[p].canUsePerf => \A e \in perfEvents' : e[1] # p
  <2>1. CASE me[p].canUsePerf
    BY <1>1, <2>1, FreedType DEF ClosesHandles, ClosePerf
  <2>2. CASE ~me[p].canUsePerf
    BY <1>1, <2>2 DEF ClosesHandles, TypeOK, Selects
  <2> QED
    BY <2>1, <2>2
<1>4. CASE usePerf \/ me[p].programmed_core_pmu
  <2>1. Becomes(p, "check", me[p].core, me[p].status, usePerf,
                me[p].programmed_core_pmu, me[p].needToRestoreNMIWatchdog)
    <3>1. me' = [me EXCEPT ![p].pc = "check", ![p].canUsePerf = usePerf]
      BY <1>1, <1>4
    <3>2. "check" \in Points /\ me[p].core \in 1 .. NumCores + 1
      BY PointsNamed, Fields
    <3> QED
      BY <1>2, <3>1, <3>2, Deciding
  <2>2. TypeOK'
    BY <1>0, <1>1, <1>3, <1>4, <2>1 DEF TypeOK, Becomes, Only, Selects
  <2> QED
    BY <1>0, <1>1, <1>3, <1>4, <2>1, <2>2
<1>5. CASE ~usePerf /\ ~me[p].programmed_core_pmu
  <2>1. Becomes(p, "inuse", 1, me[p].status, usePerf,
                me[p].programmed_core_pmu, me[p].needToRestoreNMIWatchdog)
    <3>1. me' = [me EXCEPT ![p].pc = "inuse", ![p].core = 1, ![p].canUsePerf = usePerf]
      BY <1>1, <1>5
    <3>2. "inuse" \in Points /\ 1 \in 1 .. NumCores + 1
      BY PointsNamed
    <3> QED
      BY <1>2, <3>1, <3>2, Deciding
  <2>2. rivals' = [rivals EXCEPT ![p] =
                     {q \in Procs \ {p} : Direct(q) /\ \A c \in Cores : evtsel[c] = q}]
    BY <1>1, <1>5
  <2>3. rivals' \in [Procs -> SUBSET Procs]
    BY <2>2 DEF TypeOK
  <2>4. TypeOK'
    BY <1>0, <1>3, <2>1, <2>3 DEF TypeOK, Becomes, Only, Selects
  <2> QED
    BY <1>0, <1>1, <1>3, <1>5, <2>1, <2>2, <2>4
<1> QED
  BY <1>4, <1>5

\* program() queues one task per core, or fails.
LEMMA QueueEffect ==
    ASSUME TypeOK, NEW p \in Procs, CheckAndQueue(p)
    PROVE  /\ me[p].pc = "check" /\ UNCHANGED <<evtsel, nmi, perfEvents, killed, rivals>>
           /\ \/ /\ tasks' = tasks
                 /\ Becomes(p, "error", me[p].core, "UnknownError", me[p].canUsePerf,
                            me[p].programmed_core_pmu, me[p].needToRestoreNMIWatchdog)
              \/ /\ tasks' = [tasks EXCEPT ![p] = Cores]
                 /\ Becomes(p, "tasks", me[p].core, "Success", me[p].canUsePerf,
                            me[p].programmed_core_pmu, me[p].needToRestoreNMIWatchdog)
           /\ TypeOK'
<1>0. me[p].pc = "check" /\ UNCHANGED <<evtsel, nmi, perfEvents, killed, rivals>>
  BY DEF CheckAndQueue, At, hardware, history
<1>1. CASE Fail(p, "UnknownError") /\ UNCHANGED tasks
  <2>1. Becomes(p, "error", me[p].core, "UnknownError", me[p].canUsePerf,
                me[p].programmed_core_pmu, me[p].needToRestoreNMIWatchdog)
    BY <1>1, PointsNamed, Failing
  <2>2. TypeOK'
    BY <1>0, <1>1, <2>1 DEF TypeOK, Becomes, Only
  <2> QED
    BY <1>0, <1>1, <2>1, <2>2
<1>2. CASE /\ tasks' = [tasks EXCEPT ![p] = Cores]
           /\ me' = [me EXCEPT ![p].pc = "tasks", ![p].status = "Success"]
  <2>1. Becomes(p, "tasks", me[p].core, "Success", me[p].canUsePerf,
                me[p].programmed_core_pmu, me[p].needToRestoreNMIWatchdog)
    BY <1>2, PointsNamed, Reporting
  <2>2. TypeOK'
    BY <1>0, <1>2, <2>1 DEF TypeOK, Becomes, Only
  <2> QED
    BY <1>0, <1>2, <2>1, <2>2
<1> QED
  BY <1>1, <1>2 DEF CheckAndQueue

\* The task of a core programs its counters, with perf or with MSRs.
LEMMA TaskEffect ==
    ASSUME TypeOK, NEW p \in Procs, NEW c \in Cores, ProgramCoreCounters(p, c)
    PROVE  /\ c \in tasks[p] /\ UNCHANGED <<nmi, killed, rivals>>
           /\ tasks' = [tasks EXCEPT ![p] = @ \ {c}]
           /\ \/ /\ me[p].canUsePerf /\ me' = me
                 /\ perfEvents' = perfEvents \cup {<<p, c>>}
                 /\ evtsel' = [evtsel EXCEPT ![c] = Kernel]
              \/ /\ me[p].canUsePerf /\ UNCHANGED <<perfEvents, evtsel>>
                 /\ Becomes(p, me[p].pc, me[p].core, "UnknownError", me[p].canUsePerf,
                            me[p].programmed_core_pmu, me[p].needToRestoreNMIWatchdog)
              \/ /\ ~me[p].canUsePerf /\ UNCHANGED <<perfEvents, me>>
                 /\ evtsel' = [evtsel EXCEPT ![c] = p]
           /\ TypeOK'
<1>0. /\ c \in tasks[p] /\ UNCHANGED <<nmi, killed, rivals>>
      /\ tasks' = [tasks EXCEPT ![p] = @ \ {c}] /\ tasks' \in [Procs -> SUBSET Cores]
  BY DEF ProgramCoreCounters, TypeOK, history
<1>1. CASE /\ me[p].canUsePerf /\ me' = me
           /\ perfEvents' = perfEvents \cup {<<p, c>>}
           /\ evtsel' = [evtsel EXCEPT ![c] = Kernel]
  BY <1>0, <1>1 DEF TypeOK
<1>2. CASE /\ me[p].canUsePerf /\ UNCHANGED <<perfEvents, evtsel>>
           /\ me' = [me EXCEPT ![p].status = "UnknownError"]
  <2>1. Becomes(p, me[p].pc, me[p].core, "UnknownError", me[p].canUsePerf,
                me[p].programmed_core_pmu, me[p].needToRestoreNMIWatchdog)
    BY <1>2, PointsNamed, Fields, Reporting
  <2>2. TypeOK'
    BY <1>0, <1>2, <2>1 DEF TypeOK, Becomes, Only
  <2> QED
    BY <1>0, <1>2, <2>1, <2>2
<1>3. CASE /\ ~me[p].canUsePerf /\ UNCHANGED <<perfEvents, me>>
           /\ evtsel' = [evtsel EXCEPT ![c] = p]
  BY <1>0, <1>3 DEF TypeOK
<1> QED
  BY <1>1, <1>2, <1>3 DEF ProgramCoreCounters

\* One round of a clearing loop over all cores, or its end
LEMMA RoundEffect ==
    ASSUME TypeOK, NEW p \in Procs, NEW points \in SUBSET Points, ClearRound(p, NumCores, points)
    PROVE  /\ UNCHANGED <<nmi, perfEvents, tasks, killed, rivals>>
           /\ \/ /\ me[p].core > NumCores /\ evtsel' = evtsel
                 /\ \E point \in points : Keeps(p, point)
              \/ /\ me[p].core \in Cores
                 /\ evtsel' = [evtsel EXCEPT ![me[p].core] = Zero]
                 /\ Becomes(p, me[p].pc, me[p].core + 1, me[p].status, me[p].canUsePerf,
                            me[p].programmed_core_pmu, me[p].needToRestoreNMIWatchdog)
           /\ TypeOK'
<1>0. UNCHANGED <<nmi, perfEvents, tasks, killed, rivals>> /\ me[p].core \in 1 .. NumCores + 1
  BY Fields DEF ClearRound, history
<1>1. CASE me[p].core > NumCores
  <2>1. PICK point \in points : Goto(p, point)
    BY <1>1 DEF ClearRound
  <2>2. Keeps(p, point) /\ evtsel' = evtsel
    BY <1>1, <2>1, Going DEF ClearRound
  <2>3. TypeOK'
    BY <1>0, <2>2 DEF TypeOK, Keeps, Becomes, Only
  <2> QED
    BY <1>0, <1>1, <2>2, <2>3
<1>2. CASE ~(me[p].core > NumCores)
  <2>1. me[p].core + 1 \in 1 .. NumCores + 1 /\ me[p].core \in Cores
    BY <1>0, <1>2, PointsNamed DEF Cores
  <2>2. me' = [me EXCEPT ![p].core = me[p].core + 1] /\ evtsel' = [evtsel EXCEPT ![me[p].core] = Zero]
    BY <1>2 DEF ClearRound
  <2>3. Becomes(p, me[p].pc, me[p].core + 1, me[p].status, me[p].canUsePerf,
                me[p].programmed_core_pmu, me[p].needToRestoreNMIWatchdog)
    BY <2>1, <2>2, Numbering
  <2>4. TypeOK'
    BY <1>0, <2>2, <2>3 DEF TypeOK, Becomes, Only
  <2> QED
    BY <1>0, <2>1, <2>2, <2>3, <2>4
<1> QED
  BY <1>1, <1>2

\* cleanupPMU: three ways out, by the access the process has.
LEMMA CleanupEffect ==
    ASSUME TypeOK, NEW p \in Procs, CleanupPMU(p)
    PROVE  /\ me[p].pc = "cleanup" /\ UNCHANGED <<nmi, killed>>
           /\ \A q \in Procs \ {p} : rivals'[q] = rivals[q] \ {p}
           /\ \/ ~me[p].env.msr /\ Vanish(p) /\ evtsel' = evtsel
              \/ /\ me[p].env.msr /\ me[p].canUsePerf /\ ClosePerf(p)
                 /\ tasks' = tasks /\ rivals'[p] = rivals[p] \ {p}
                 /\ Becomes(p, "restore", me[p].core, me[p].status, me[p].canUsePerf,
                            FALSE, me[p].needToRestoreNMIWatchdog)
              \/ /\ me[p].env.msr /\ ~me[p].canUsePerf /\ UNCHANGED <<evtsel, perfEvents>>
                 /\ tasks' = tasks /\ rivals'[p] = rivals[p] \ {p}
                 /\ Becomes(p, "clear", 1, me[p].status, me[p].canUsePerf,
                            FALSE, me[p].needToRestoreNMIWatchdog)
           /\ TypeOK'
<1>0. me[p].pc = "cleanup" /\ UNCHANGED <<nmi, killed>>
  BY DEF CleanupPMU, At
<1>1. CASE ~me[p].env.msr
  <2>1. Vanish(p) /\ evtsel' = evtsel
    BY <1>1 DEF CleanupPMU
  <2>2. TypeOK'
    BY <1>0, <2>1, Vanishing DEF TypeOK, Only
  <2> QED
    BY <1>0, <1>1, <2>1, <2>2, Vanishing
<1>2. CASE me[p].env.msr
  <2>1. /\ tasks' = tasks /\ rivals' = [q \in Procs |-> rivals[q] \ {p}]
    BY <1>2 DEF CleanupPMU
  <2>2. /\ rivals' \in [Procs -> SUBSET Procs]
        /\ \A q \in Procs : rivals'[q] = rivals[q] \ {p}
    BY <2>1 DEF TypeOK
  <2>3. CASE me[p].canUsePerf
    <3>1. /\ me' = [me EXCEPT ![p].pc = "restore", ![p].programmed_core_pmu = FALSE]
          /\ ClosePerf(p)
      BY <1>2, <2>3 DEF CleanupPMU
    <3>2. "restore" \in Points /\ me[p].core \in 1 .. NumCores + 1
      BY PointsNamed, Fields
    <3>3. Becomes(p, "restore", me[p].core, me[p].status, me[p].canUsePerf,
                  FALSE, me[p].needToRestoreNMIWatchdog)
      BY <3>1, <3>2, Programming
    <3>4. evtsel' \in [Cores -> Selects] /\ perfEvents' \subseteq perfEvents
      BY <3>1, FreedType DEF ClosePerf
    <3>5. TypeOK'
      BY <1>0, <2>1, <2>2, <3>3, <3>4 DEF TypeOK, Becomes, Only, Selects
    <3> QED
      BY <1>0, <1>2, <2>1, <2>2, <2>3, <3>1, <3>3, <3>5
  <2>4. CASE ~me[p].canUsePerf
    <3>1. /\ me' = [me EXCEPT ![p].pc = "clear", ![p].core = 1, ![p].programmed_core_pmu = FALSE]
          /\ UNCHANGED <<evtsel, perfEvents>>
      BY <1>2, <2>4 DEF CleanupPMU
    <3>2. "clear" \in Points /\ 1 \in 1 .. NumCores + 1
      BY PointsNamed
    <3>3. Becomes(p, "clear", 1, me[p].status, me[p].canUsePerf,
                  FALSE, me[p].needToRestoreNMIWatchdog)
      BY <3>1, <3>2, Programming
    <3>4. TypeOK'
      BY <1>0, <2>1, <2>2, <3>1, <3>3 DEF TypeOK, Becomes, Only
    <3> QED
      BY <1>0, <1>2, <2>1, <2>2, <2>4, <3>1, <3>3, <3>4
  <2> QED
    BY <2>3, <2>4
<1> QED
  BY <1>1, <1>2

\* The process restores the watchdog and ends, or is killed.
LEMMA ExitEffect ==
    ASSUME TypeOK, NEW p \in Procs, RestoreAndExit(p) \/ Kill(p)
    PROVE  /\ Vanish(p) /\ evtsel' \in [Cores -> Selects]
           /\ \A c \in Cores : evtsel'[c] \in {evtsel[c], NMI, Zero}
           /\ RestoreAndExit(p) => /\ killed' = killed /\ me[p].pc = "restore"
                                   /\ nmi' = (nmi \/ me[p].needToRestoreNMIWatchdog)
           /\ Kill(p) => killed' = killed \cup {p} /\ nmi' = nmi
           /\ ~RestoreAndExit(p) => Kill(p)
           /\ TypeOK'
<1>0. nmi \in BOOLEAN /\ me[p].needToRestoreNMIWatchdog \in BOOLEAN
  BY Fields DEF TypeOK
<1>1. CASE RestoreAndExit(p)
  <2>1. /\ Vanish(p) /\ killed' = killed /\ me[p].pc = "restore"
        /\ nmi' = (nmi \/ me[p].needToRestoreNMIWatchdog)
        /\ KernelEnablesNMI \/ evtsel' \in Freed(p)
    BY <1>0, <1>1 DEF RestoreAndExit, At, KernelEnablesNMI
  <2>2. evtsel' \in [Cores -> Selects] /\ \A c \in Cores : evtsel'[c] \in {evtsel[c], NMI, Zero}
    BY <2>1, FreedType, EnablesType
  <2>3. TypeOK'
    BY <1>0, <2>1, <2>2, Vanishing DEF TypeOK, Only, Selects
  <2>4. ~Kill(p) \/ (killed' = killed \cup {p} /\ nmi' = nmi)
    BY DEF Kill
  <2> QED
    BY <1>1, <2>1, <2>2, <2>3, <2>4
<1>2. CASE ~RestoreAndExit(p)
  <2>1. Kill(p) /\ Vanish(p) /\ evtsel' \in Freed(p) /\ killed' = killed \cup {p} /\ nmi' = nmi
    BY <1>2 DEF Kill
  <2>2. evtsel' \in [Cores -> Selects] /\ \A c \in Cores : evtsel'[c] \in {evtsel[c], NMI, Zero}
    BY <2>1, FreedType
  <2>3. TypeOK'
    BY <2>1, <2>2, Vanishing DEF TypeOK, Only, Selects
  <2> QED
    BY <1>2, <2>1, <2>2, <2>3
<1> QED
  BY <1>1, <1>2

\* Every step of a process keeps the types.
LEMMA StepTypes ==
    ASSUME TypeOK, NEW p \in Procs, Step(p)
    PROVE  TypeOK'
<1>1. CASE \/ Start(p) \/ Reprogram(p) \/ IsNMIWatchdogEnabled(p) \/ SetRestoreFlag(p)
           \/ CheckMSR(p) \/ PMUinUse(p) \/ ProgramReturns(p) \/ CheckError(p) \/ Signal(p)
  BY <1>1, MoveTypes, StartMoves, ReprogramMoves, IsNMIMoves, SetFlagMoves, CheckMSRMoves,
     PMUinUseMoves, ReturnsMoves, CheckErrorMoves, SignalMoves
<1>2. CASE DisableNMIWatchdog(p)
  BY <1>2, DisableEffect
<1>3. CASE DecidePerf(p)
  BY <1>3, DecideEffect
<1>4. CASE CheckAndQueue(p)
  BY <1>4, QueueEffect
<1>5. CASE \E c \in Cores : ProgramCoreCounters(p, c)
  BY <1>5, TaskEffect
<1>6. CASE ResetPMU(p)
  <2>1. {"cleanup", "nmi"} \in SUBSET Points
    BY PointsNamed
  <2> QED
    BY <1>6, <2>1, RoundEffect DEF ResetPMU
<1>7. CASE ClearEventSelects(p)
  <2>1. {"restore"} \in SUBSET Points
    BY PointsNamed
  <2> QED
    BY <1>7, <2>1, RoundEffect DEF ClearEventSelects, LastCore
<1>8. CASE CleanupPMU(p)
  BY <1>8, CleanupEffect
<1>9. CASE RestoreAndExit(p) \/ Kill(p)
  BY <1>9, ExitEffect
<1> QED
  BY <1>1, <1>2, <1>3, <1>4, <1>5, <1>6, <1>7, <1>8, <1>9 DEF Step

-----------------------------------------------------------------------------
(* What is left of a process *)

\* Program points from which a process has the MSRs
Privileged == {"perf", "inuse", "check", "tasks", "counting"}

\* A move that takes no obligation from the process
LEMMA MoveReleases ==
    ASSUME ReleaseInv, NEW p \in Procs, Moves(p), TypeOK',
           tasks[p] # {} => me'[p].pc = "tasks",
           me'[p].pc \in Privileged => me'[p].env.msr,
           me'[p].pc \notin {"off", "restore", "clear"},
           \/ me'[p].canUsePerf = me[p].canUsePerf /\ me'[p].env = me[p].env
           \/ me[p].pc = "off"
    PROVE  ReleaseInv'
<1>0. /\ TypeOK /\ NoPerfLeak /\ TasksInProgram /\ OwnerClears
      /\ \A q \in Procs \ {p} : me'[q] = me[q]
      /\ evtsel' = evtsel /\ perfEvents' = perfEvents /\ tasks' = tasks /\ killed' = killed
  BY DEF ReleaseInv, Moves, Only, hardware, history
<1>1. NoPerfLeak'
  BY <1>0 DEF NoPerfLeak, TasksInProgram, TypeOK
<1>2. TasksInProgram'
  BY <1>0 DEF TasksInProgram, Privileged
<1>3. OwnerClears'
  BY <1>0 DEF OwnerClears
<1> QED
  BY <1>1, <1>2, <1>3 DEF ReleaseInv

\* A process that leaves none of its event selects behind
LEMMA VanishReleases ==
    ASSUME ReleaseInv, NEW p \in Procs, Vanish(p), TypeOK',
           \A c \in Cores : evtsel'[c] \in {evtsel[c], NMI, Zero},
           p \in killed' \/ \A c \in Cores : evtsel[c] # p,
           killed \subseteq killed'
    PROVE  ReleaseInv'
<1>0. TypeOK /\ NoPerfLeak /\ TasksInProgram /\ OwnerClears
  BY DEF ReleaseInv
<1>1. /\ \A q \in Procs \ {p} : me'[q] = me[q] /\ tasks'[q] = tasks[q]
      /\ me'[p] = Fresh /\ tasks'[p] = {}
      /\ perfEvents' \subseteq perfEvents /\ \A e \in perfEvents' : e[1] # p
  BY <1>0, Vanishing DEF Only
<1>2. NoPerfLeak'
  BY <1>0, <1>1 DEF NoPerfLeak, TypeOK
<1>3. TasksInProgram'
  BY <1>0, <1>1, FreshType DEF TasksInProgram
<1>4. OwnerClears'
  <2> SUFFICES ASSUME NEW q \in Procs \ killed', NEW c \in Cores, evtsel'[c] = q
               PROVE  /\ q # p /\ evtsel[c] = q /\ q \notin killed
    BY <1>0, <1>1 DEF OwnerClears
  <2>1. evtsel[c] = q
    BY ConstantsAssumption
  <2> QED
    BY <2>1
<1> QED
  BY <1>2, <1>3, <1>4 DEF ReleaseInv

\* Every step of a process keeps the invariant behind LifecycleInv.
LEMMA ReleaseKept ==
    ASSUME SignalsMissTasks, ReleaseInv, NEW p \in Procs, Step(p)
    PROVE  ReleaseInv'
<1>0. TypeOK /\ NoPerfLeak /\ TasksInProgram /\ OwnerClears /\ TypeOK'
  BY StepTypes DEF ReleaseInv
<1>a. tasks[p] # {} => me[p].pc = "tasks"
  BY <1>0 DEF TasksInProgram
<1>b. me[p].pc \in Privileged => me[p].env.msr
  BY <1>0 DEF TasksInProgram, Privileged
<1>1. CASE Start(p)
  BY <1>0, <1>a, <1>1, Starting, StartMoves, MoveReleases DEF Privileged
<1>2. CASE Reprogram(p)
  BY <1>0, <1>a, <1>2, ReprogramMoves, MoveReleases DEF Keeps, Becomes, Privileged
<1>3. CASE IsNMIWatchdogEnabled(p)
  BY <1>0, <1>a, <1>3, IsNMIMoves, MoveReleases DEF Keeps, Becomes, Privileged
<1>4. CASE SetRestoreFlag(p)
  BY <1>0, <1>a, <1>4, SetFlagMoves, MoveReleases DEF Becomes, Privileged
<1>5. CASE CheckMSR(p)
  BY <1>0, <1>a, <1>5, CheckMSRMoves, MoveReleases DEF Keeps, Becomes, Privileged
<1>6. CASE PMUinUse(p)
  BY <1>0, <1>a, <1>b, <1>6, PMUinUseMoves, MoveReleases DEF Keeps, Becomes, Privileged
<1>7. CASE ProgramReturns(p)
  BY <1>0, <1>a, <1>b, <1>7, ReturnsMoves, MoveReleases DEF Keeps, Becomes, Privileged
<1>8. CASE CheckError(p)
  BY <1>0, <1>a, <1>8, CheckErrorMoves, MoveReleases DEF Keeps, Becomes, Privileged
<1>9. CASE Signal(p)
  BY <1>0, <1>a, <1>9, SignalMoves, MoveReleases DEF Keeps, Becomes, Privileged, SignalsMissTasks
<1>10. CASE DisableNMIWatchdog(p)
  <2>1. /\ \A q \in Procs \ {p} : me'[q] = me[q]
        /\ me[p].pc = "disable" /\ me'[p].pc = "flag"
        /\ me'[p].canUsePerf = me[p].canUsePerf /\ me'[p].env = me[p].env
        /\ UNCHANGED <<perfEvents, tasks, killed>>
        /\ \A c \in Cores : evtsel'[c] \in {evtsel[c], Zero}
    BY <1>0, <1>10, DisableEffect DEF Keeps, Becomes, Only
  <2>2. NoPerfLeak'
    BY <1>0, <2>1 DEF NoPerfLeak, TypeOK
  <2>3. TasksInProgram'
    BY <1>0, <2>1 DEF TasksInProgram
  <2>4. OwnerClears'
    BY <1>0, <2>1, ConstantsAssumption DEF OwnerClears
  <2> QED
    BY <1>0, <2>2, <2>3, <2>4 DEF ReleaseInv
<1>11. CASE DecidePerf(p)
  <2>1. /\ \A q \in Procs \ {p} : me'[q] = me[q]
        /\ me[p].pc = "perf" /\ me'[p].pc \in {"check", "inuse"}
        /\ me'[p].canUsePerf => me[p].canUsePerf
        /\ me'[p].env = me[p].env
        /\ UNCHANGED <<tasks, killed>>
        /\ perfEvents' \subseteq perfEvents
        /\ me[p].canUsePerf => \A e \in perfEvents' : e[1] # p
        /\ \A c \in Cores : evtsel'[c] \in {evtsel[c], Zero}
    BY <1>0, <1>11, DecideEffect DEF Becomes, Only
  <2>2. NoPerfLeak'
    BY <1>0, <2>1 DEF NoPerfLeak, TypeOK
  <2>3. TasksInProgram'
    BY <1>0, <2>1 DEF TasksInProgram
  <2>4. OwnerClears'
    BY <1>0, <2>1, ConstantsAssumption DEF OwnerClears
  <2> QED
    BY <1>0, <2>2, <2>3, <2>4 DEF ReleaseInv
<1>12. CASE CheckAndQueue(p)
  <2>1. /\ \A q \in Procs \ {p} : me'[q] = me[q] /\ tasks'[q] = tasks[q]
        /\ me[p].pc = "check" /\ me'[p].pc \in {"error", "tasks"}
        /\ tasks'[p] = tasks[p] \/ me'[p].pc = "tasks"
        /\ me'[p].canUsePerf = me[p].canUsePerf /\ me'[p].env = me[p].env
        /\ UNCHANGED <<evtsel, perfEvents, killed>>
    BY <1>0, <1>12, QueueEffect DEF Becomes, Only, TypeOK
  <2>2. NoPerfLeak'
    BY <1>0, <2>1 DEF NoPerfLeak, TypeOK
  <2>3. TasksInProgram'
    BY <1>0, <2>1 DEF TasksInProgram
  <2>4. OwnerClears'
    BY <1>0, <2>1 DEF OwnerClears
  <2> QED
    BY <1>0, <2>2, <2>3, <2>4 DEF ReleaseInv
<1>13. ASSUME NEW c \in Cores, ProgramCoreCounters(p, c) PROVE ReleaseInv'
  <2>1. /\ \A q \in Procs \ {p} : me'[q] = me[q] /\ tasks'[q] = tasks[q]
        /\ me[p].pc = "tasks" /\ me'[p].pc = "tasks" /\ me[p].env.msr
        /\ me'[p].canUsePerf = me[p].canUsePerf /\ me'[p].env = me[p].env
        /\ killed' = killed
    BY <1>0, <1>a, <1>b, <1>13, TaskEffect DEF Becomes, Only, TypeOK, Privileged
  <2>2. NoPerfLeak'
    <3>1. \A e \in perfEvents' : e \in perfEvents \/ (e = <<p, c>> /\ me[p].canUsePerf)
      BY <1>0, <1>13, TaskEffect
    <3>2. \A e \in perfEvents : e[1] \in Procs
      BY <1>0 DEF TypeOK
    <3> QED
      BY <1>0, <2>1, <3>1, <3>2 DEF NoPerfLeak
  <2>3. TasksInProgram'
    BY <1>0, <2>1 DEF TasksInProgram
  <2>4. OwnerClears'
    <3>1. \A k \in Cores : \/ evtsel'[k] = evtsel[k]
                           \/ evtsel'[k] = Kernel
                           \/ evtsel'[k] = p /\ ~me[p].canUsePerf
      BY <1>0, <1>13, TaskEffect DEF TypeOK
    <3> QED
      BY <1>0, <2>1, <3>1, ConstantsAssumption DEF OwnerClears
  <2> QED
    BY <1>0, <2>2, <2>3, <2>4 DEF ReleaseInv
<1>14. CASE ResetPMU(p)
  <2>0. {"cleanup", "nmi"} \in SUBSET Points
    BY PointsNamed
  <2>1. /\ \A q \in Procs \ {p} : me'[q] = me[q]
        /\ me[p].pc = "reset" /\ me'[p].pc \in {"reset", "cleanup", "nmi"}
        /\ me'[p].canUsePerf = me[p].canUsePerf /\ me'[p].env = me[p].env
        /\ UNCHANGED <<perfEvents, tasks, killed>>
        /\ \A c \in Cores : evtsel'[c] \in {evtsel[c], Zero}
    BY <1>0, <1>14, <2>0, RoundEffect DEF ResetPMU, At, Keeps, Becomes, Only, TypeOK
  <2>2. NoPerfLeak'
    BY <1>0, <2>1 DEF NoPerfLeak, TypeOK
  <2>3. TasksInProgram'
    BY <1>0, <2>1 DEF TasksInProgram
  <2>4. OwnerClears'
    BY <1>0, <2>1, ConstantsAssumption DEF OwnerClears
  <2> QED
    BY <1>0, <2>2, <2>3, <2>4 DEF ReleaseInv
<1>15. CASE ClearEventSelects(p)
  <2>0. {"restore"} \in SUBSET Points
    BY PointsNamed
  <2>1. /\ me[p].pc = "clear" /\ me[p].core \in 1 .. NumCores + 1 /\ NumCores \in Nat
        /\ ClearRound(p, NumCores, {"restore"})
    BY <1>0, <1>15, Fields, PointsNamed DEF ClearEventSelects, At, LastCore
  <2>2. /\ \A q \in Procs \ {p} : me'[q] = me[q]
        /\ me'[p].canUsePerf = me[p].canUsePerf /\ me'[p].env = me[p].env
        /\ UNCHANGED <<perfEvents, tasks, killed>>
        /\ \/ me[p].core > NumCores /\ me'[p].pc = "restore" /\ evtsel' = evtsel
           \/ /\ me'[p].pc = "clear" /\ me'[p].core = me[p].core + 1
              /\ \A c \in Cores : evtsel'[c] = IF c = me[p].core THEN Zero ELSE evtsel[c]
    BY <1>0, <2>0, <2>1, RoundEffect DEF Keeps, Becomes, Only, TypeOK
  <2>3. NoPerfLeak'
    BY <1>0, <2>2 DEF NoPerfLeak, TypeOK
  <2>4. TasksInProgram'
    BY <1>0, <2>1, <2>2 DEF TasksInProgram
  <2>5. OwnerClears'
    <3> SUFFICES ASSUME NEW q \in Procs \ killed, NEW c \in Cores, evtsel'[c] = q
                 PROVE  /\ me'[q].env.msr /\ ~me'[q].canUsePerf
                        /\ me'[q].pc \notin {"off", "restore"}
                        /\ me'[q].pc = "clear" => me'[q].core <= c
      BY <2>2 DEF OwnerClears
    <3>1. evtsel[c] = q
      BY <2>2, ConstantsAssumption
    <3>2. CASE q # p
      BY <1>0, <2>2, <3>1, <3>2 DEF OwnerClears
    <3>3. CASE q = p
      <4>1. me[p].core <= c /\ me[p].env.msr /\ ~me[p].canUsePerf
        BY <1>0, <2>1, <3>1, <3>3 DEF OwnerClears
      <4>2. c \in Nat /\ c <= NumCores
        BY PointsNamed DEF Cores
      <4>3. ~(me[p].core > NumCores)
        BY <2>1, <4>1, <4>2
      <4>4. c # me[p].core
        BY <2>2, <3>3, <4>3, ConstantsAssumption
      <4> QED
        BY <2>1, <2>2, <3>3, <4>1, <4>2, <4>3, <4>4
    <3> QED
      BY <3>2, <3>3
  <2> QED
    BY <1>0, <2>3, <2>4, <2>5 DEF ReleaseInv
<1>16. CASE CleanupPMU(p)
  <2>0. \A c \in Cores : evtsel[c] = p => p \in killed \/ (me[p].env.msr /\ ~me[p].canUsePerf)
    BY <1>0 DEF OwnerClears
  <2>1. CASE ~me[p].env.msr
    BY <1>0, <1>16, <2>0, <2>1, CleanupEffect, VanishReleases
  <2>2. CASE me[p].env.msr
    <3>1. /\ \A q \in Procs \ {p} : me'[q] = me[q]
          /\ me[p].pc = "cleanup"
          /\ me'[p].canUsePerf = me[p].canUsePerf /\ me'[p].env = me[p].env
          /\ tasks' = tasks /\ killed' = killed /\ perfEvents' \subseteq perfEvents
          /\ \/ me'[p].pc = "restore" /\ me[p].canUsePerf
             \/ me'[p].pc = "clear" /\ me'[p].core = 1
          /\ \A c \in Cores : evtsel'[c] \in {evtsel[c], Zero}
      <4>1. CASE me[p].canUsePerf
        BY <1>0, <1>16, <2>2, <4>1, CleanupEffect, FreedType DEF ClosePerf, Becomes, Only
      <4>2. CASE ~me[p].canUsePerf
        BY <1>0, <1>16, <2>2, <4>2, CleanupEffect DEF Becomes, Only
      <4> QED
        BY <4>1, <4>2
    <3>2. NoPerfLeak'
      BY <1>0, <3>1 DEF NoPerfLeak, TypeOK
    <3>3. TasksInProgram'
      BY <1>0, <3>1 DEF TasksInProgram
    <3>4. OwnerClears'
      <4>1. \A c \in Cores : 1 <= c
        BY PointsNamed DEF Cores
      <4> QED
        BY <1>0, <2>0, <3>1, <4>1, ConstantsAssumption DEF OwnerClears
    <3> QED
      BY <1>0, <3>2, <3>3, <3>4 DEF ReleaseInv
  <2> QED
    BY <2>1, <2>2
<1>17. CASE RestoreAndExit(p)
  <2>1. \A c \in Cores : evtsel[c] # p \/ p \in killed
    BY <1>0, <1>17, ExitEffect DEF OwnerClears
  <2> QED
    BY <1>0, <1>17, <2>1, ExitEffect, VanishReleases
<1>18. CASE Kill(p)
  BY <1>0, <1>18, ExitEffect, VanishReleases
<1> QED
  BY <1>1, <1>2, <1>3, <1>4, <1>5, <1>6, <1>7, <1>8, <1>9, <1>10, <1>11, <1>12, <1>13, <1>14,
     <1>15, <1>16, <1>17, <1>18 DEF Step

-----------------------------------------------------------------------------
(* The NMI watchdog *)

\* A step of a process that goes on, keeps its environment and does not forget
\* the watchdog
LEMMA GoesOn ==
    ASSUME WatchdogInv, NEW p \in Procs, Only(p), TypeOK', killed' = killed,
           me'[p].pc # "off", me[p].pc # "off", me'[p].env = me[p].env,
           nmi' = nmi \/ (~nmi' /\ nmi /\ me'[p].pc = "flag"),
           me'[p].pc \in {"disable", "flag"} => me[p].env.msr /\ (NmiAtStart \/ nmi),
           me[p].needToRestoreNMIWatchdog => me'[p].needToRestoreNMIWatchdog,
           me'[p].needToRestoreNMIWatchdog =>
              me[p].needToRestoreNMIWatchdog \/ me[p].pc = "flag",
           me[p].pc = "flag" => me'[p].needToRestoreNMIWatchdog \/ me'[p].pc = "flag"
    PROVE  WatchdogInv'
<1>0. /\ TypeOK /\ EnvironmentKept /\ WatchdogRemembered
      /\ \A q \in Procs \ {p} : me'[q] = me[q]
  BY DEF WatchdogInv, Only
<1>1. EnvironmentKept'
  BY <1>0 DEF EnvironmentKept
<1>2. WatchdogRemembered'
  BY <1>0 DEF WatchdogRemembered
<1> QED
  BY <1>1, <1>2 DEF WatchdogInv

\* The decision for or against perf ends in one of two ways.
LEMMA DecideBecomes ==
    ASSUME TypeOK, NEW p \in Procs, DecidePerf(p)
    PROVE  \E usePerf \in {me[p].canUsePerf, FALSE} :
             \/ /\ usePerf \/ me[p].programmed_core_pmu
                /\ Becomes(p, "check", me[p].core, me[p].status, usePerf,
                           me[p].programmed_core_pmu, me[p].needToRestoreNMIWatchdog)
                /\ rivals' = rivals
             \/ /\ ~usePerf /\ ~me[p].programmed_core_pmu
                /\ Becomes(p, "inuse", 1, me[p].status, usePerf,
                           me[p].programmed_core_pmu, me[p].needToRestoreNMIWatchdog)
                /\ rivals' = [rivals EXCEPT ![p] =
                      {q \in Procs \ {p} : Direct(q) /\ \A c \in Cores : evtsel[c] = q}]
  BY DecideEffect

\* Every step of a process keeps the invariant behind WatchdogRestored.
LEMMA WatchdogKept ==
    ASSUME SignalsMissFlag, DeniedKeepWatchdog, WatchdogInv, NEW p \in Procs, Step(p)
    PROVE  WatchdogInv'
<1>0. TypeOK /\ EnvironmentKept /\ WatchdogRemembered /\ TypeOK'
  BY StepTypes DEF WatchdogInv
<1>a. nmi \in BOOLEAN /\ nmi' \in BOOLEAN
  BY <1>0 DEF TypeOK
<1>1. CASE Start(p)
  <2>1. /\ \A q \in Procs \ {p} : me'[q] = me[q]
        /\ me[p] = Fresh /\ me'[p].pc = "nmi" /\ me'[p].env \in Environments
        /\ ~me'[p].needToRestoreNMIWatchdog
        /\ nmi' = nmi /\ killed' = killed
    BY <1>0, <1>1, Starting, StartMoves, FreshType
       DEF EnvironmentKept, Only, Moves, hardware, history
  <2>2. EnvironmentKept'
    BY <1>0, <2>1 DEF EnvironmentKept
  <2>3. WatchdogRemembered'
    BY <1>0, <2>1, FreshType DEF WatchdogRemembered
  <2> QED
    BY <1>0, <2>2, <2>3 DEF WatchdogInv
<1>2. CASE IsNMIWatchdogEnabled(p)
  <2>1. me[p].env \in Environments
    BY <1>0, <1>2, IsNMIMoves DEF EnvironmentKept
  <2>2. me'[p].pc = "disable" => nmi /\ me[p].env.msr
    BY <1>0, <1>2, <2>1, IsNMIMoves DEF Keeps, Becomes, DeniedKeepWatchdog
  <2> QED
    BY <1>0, <1>2, <2>2, IsNMIMoves, GoesOn DEF Keeps, Becomes, Moves, hardware, history
<1>3. CASE SetRestoreFlag(p)
  BY <1>0, <1>3, SetFlagMoves, GoesOn DEF Becomes, Moves, hardware, history
<1>4. CASE Reprogram(p)
  BY <1>0, <1>4, ReprogramMoves, GoesOn DEF Keeps, Becomes, Moves, hardware, history
<1>5. CASE CheckMSR(p)
  BY <1>0, <1>5, CheckMSRMoves, GoesOn DEF Keeps, Becomes, Moves, hardware, history
<1>6. CASE PMUinUse(p)
  BY <1>0, <1>6, PMUinUseMoves, GoesOn DEF Keeps, Becomes, Moves, hardware, history
<1>7. CASE ProgramReturns(p)
  BY <1>0, <1>7, ReturnsMoves, GoesOn DEF Keeps, Becomes, Moves, hardware, history
<1>8. CASE CheckError(p)
  BY <1>0, <1>8, CheckErrorMoves, GoesOn DEF Keeps, Becomes, Moves, hardware, history
<1>9. CASE Signal(p)
  <2>1. me[p].pc \notin {"off", "flag"}
    BY <1>0, <1>9, SignalMoves, SignalPointsAssumption DEF SignalsMissFlag, Program
  <2> QED
    BY <1>0, <1>9, <2>1, SignalMoves, GoesOn DEF Keeps, Becomes, Moves, hardware, history
<1>10. CASE DisableNMIWatchdog(p)
  <2>1. me[p].env.msr /\ NmiAtStart /\ me[p].pc = "disable"
    BY <1>0, <1>10, DisableEffect DEF EnvironmentKept, WatchdogRemembered
  <2> QED
    BY <1>0, <1>a, <1>10, <2>1, DisableEffect, GoesOn DEF Keeps, Becomes
<1>11. CASE DecidePerf(p)
  <2>1. me[p].pc = "perf" /\ nmi' = nmi /\ killed' = killed
    BY <1>0, <1>11, DecideEffect
  <2>2. /\ Only(p) /\ me'[p].env = me[p].env /\ me'[p].pc \in {"check", "inuse"}
        /\ me'[p].needToRestoreNMIWatchdog = me[p].needToRestoreNMIWatchdog
    BY <1>0, <1>11, DecideBecomes DEF Becomes
  <2> QED
    BY <1>0, <2>1, <2>2, GoesOn
<1>12. CASE CheckAndQueue(p)
  <2>1. /\ me[p].pc = "check" /\ nmi' = nmi /\ killed' = killed
        /\ Only(p) /\ me'[p].env = me[p].env /\ me'[p].pc \in {"error", "tasks"}
        /\ me'[p].needToRestoreNMIWatchdog = me[p].needToRestoreNMIWatchdog
    BY <1>0, <1>12, QueueEffect DEF Becomes
  <2> QED
    BY <1>0, <2>1, GoesOn
<1>13. ASSUME NEW c \in Cores, ProgramCoreCounters(p, c) PROVE WatchdogInv'
  <2>1. /\ me[p].pc # "off" /\ nmi' = nmi /\ killed' = killed
        /\ me' = me \/ Becomes(p, me[p].pc, me[p].core, "UnknownError", me[p].canUsePerf,
                               me[p].programmed_core_pmu, me[p].needToRestoreNMIWatchdog)
    BY <1>0, <1>13, TaskEffect DEF ProgramCoreCounters, At
  <2>2. CASE me' = me
    BY <1>0, <2>1, <2>2 DEF WatchdogInv, EnvironmentKept, WatchdogRemembered
  <2>3. CASE me' # me
    <3>1. me[p].pc \in {"disable", "flag"} => me[p].env.msr /\ NmiAtStart
      BY <1>0 DEF EnvironmentKept, WatchdogRemembered
    <3> QED
      BY <1>0, <2>1, <2>3, <3>1, GoesOn DEF Becomes
  <2> QED
    BY <2>2, <2>3
<1>14. CASE ResetPMU(p)
  <2>0. {"cleanup", "nmi"} \in SUBSET Points
    BY PointsNamed
  <2>1. me[p].pc = "reset" /\ ClearRound(p, NumCores, {"cleanup", "nmi"})
    BY <1>14 DEF ResetPMU, At
  <2> QED
    BY <1>0, <2>0, <2>1, RoundEffect, GoesOn DEF Keeps, Becomes
<1>15. CASE ClearEventSelects(p)
  <2>0. {"restore"} \in SUBSET Points
    BY PointsNamed
  <2>1. me[p].pc = "clear" /\ ClearRound(p, NumCores, {"restore"})
    BY <1>15 DEF ClearEventSelects, At, LastCore
  <2> QED
    BY <1>0, <2>0, <2>1, RoundEffect, GoesOn DEF Keeps, Becomes
<1>16. CASE CleanupPMU(p)
  <2>1. CASE me[p].env.msr
    <3>1. /\ me[p].pc = "cleanup" /\ nmi' = nmi /\ killed' = killed /\ Only(p)
          /\ me'[p].env = me[p].env /\ me'[p].pc \in {"restore", "clear"}
          /\ me'[p].needToRestoreNMIWatchdog = me[p].needToRestoreNMIWatchdog
      BY <1>0, <1>16, <2>1, CleanupEffect DEF Becomes
    <3> QED
      BY <1>0, <3>1, GoesOn
  <2>2. CASE ~me[p].env.msr
    <3>1. /\ \A q \in Procs \ {p} : me'[q] = me[q]
          /\ me'[p] = Fresh /\ nmi' = nmi /\ killed' = killed
          /\ ~me[p].needToRestoreNMIWatchdog /\ me[p].pc # "flag"
      BY <1>0, <1>16, <2>2, CleanupEffect, Vanishing DEF Only, EnvironmentKept
    <3>2. EnvironmentKept'
      BY <1>0, <3>1, FreshType DEF EnvironmentKept
    <3>3. WatchdogRemembered'
      BY <1>0, <3>1, FreshType DEF WatchdogRemembered
    <3> QED
      BY <1>0, <3>2, <3>3 DEF WatchdogInv
  <2> QED
    BY <2>1, <2>2
<1>17. CASE RestoreAndExit(p) \/ Kill(p)
  <2>1. /\ \A q \in Procs \ {p} : me'[q] = me[q]
        /\ me'[p] = Fresh
        /\ \/ /\ killed' = killed /\ me[p].pc = "restore"
              /\ nmi' = (nmi \/ me[p].needToRestoreNMIWatchdog)
           \/ killed' = killed \cup {p} /\ nmi' = nmi
    BY <1>0, <1>17, ExitEffect, Vanishing DEF Only
  <2>2. EnvironmentKept'
    BY <1>0, <2>1, FreshType DEF EnvironmentKept
  <2>3. WatchdogRemembered'
    BY <1>0, <1>a, <2>1, FreshType DEF WatchdogRemembered
  <2> QED
    BY <1>0, <2>2, <2>3 DEF WatchdogInv
<1> QED
  BY <1>1, <1>2, <1>3, <1>4, <1>5, <1>6, <1>7, <1>8, <1>9, <1>10, <1>11, <1>12, <1>13, <1>14,
     <1>15, <1>16, <1>17 DEF Step

-----------------------------------------------------------------------------
(* Looking at the PMU while another process counts *)

\* The machine is shared by two processes at most.
TwoProcesses == \A p, q, r \in Procs : p = q \/ p = r \/ q = r

\* A step of a process that neither loses what makes it a rival nor, having
\* found rivals, comes past PMUinUse
LEMMA StaysInPlace ==
    ASSUME TwoProcesses, TakeoverInv, NEW p \in Procs, Only(p), TypeOK',
           \A x \in Procs \ {p} : tasks'[x] = tasks[x] /\ rivals'[x] \subseteq rivals[x],
           rivals'[p] \subseteq rivals[p],
           tasks'[p] # {} => /\ me'[p].pc \in {"tasks", "cleanup", "clear", "restore"}
                             /\ rivals[p] = {},
           me'[p].pc = "counting" => me'[p].programmed_core_pmu,
           me'[p].programmed_core_pmu =>
              /\ me'[p].status # "PMUBusy"
              /\ me'[p].pc \notin {"off", "inuse", "reset", "clear", "restore"},
           rivals'[p] # {} =>
              /\ ~me'[p].programmed_core_pmu /\ ~me'[p].canUsePerf
              /\ me'[p].pc \notin {"off", "check", "tasks", "counting"}
              /\ me'[p].pc = "inuse" => /\ me[p].pc = "inuse" /\ me'[p].core = 1
                                        /\ evtsel' = evtsel,
           (\E x \in Procs : p \in rivals'[x]) =>
              /\ me'[p].programmed_core_pmu /\ ~me'[p].canUsePerf
              /\ \A c \in Cores : evtsel[c] = p => evtsel'[c] = p
    PROVE  TakeoverInv'
<1>0. /\ TypeOK /\ QueuedAlone /\ Counted /\ RivalsHold
      /\ \A q \in Procs \ {p} : me'[q] = me[q]
      /\ rivals \in [Procs -> SUBSET Procs] /\ rivals' \in [Procs -> SUBSET Procs]
  BY DEF TakeoverInv, Only, TypeOK
<1>1. QueuedAlone'
  BY <1>0 DEF QueuedAlone
<1>2. Counted'
  BY <1>0 DEF Counted
<1>3. RivalsHold'
  <2> SUFFICES ASSUME NEW x \in Procs, NEW q \in rivals'[x]
               PROVE  /\ q # x
                      /\ me'[q].programmed_core_pmu /\ ~me'[q].canUsePerf
                      /\ ~me'[x].programmed_core_pmu /\ ~me'[x].canUsePerf
                      /\ me'[x].pc \notin {"off", "check", "tasks", "counting"}
                      /\ me'[x].pc = "inuse" => /\ me'[x].core = 1
                                                /\ \A c \in Cores : evtsel'[c] = q
    BY DEF RivalsHold
  <2>1. q \in rivals[x] /\ q \in Procs
    BY <1>0
  <2>2. /\ q # x /\ me[q].programmed_core_pmu /\ ~me[q].canUsePerf
        /\ ~me[x].programmed_core_pmu /\ ~me[x].canUsePerf
        /\ me[x].pc \notin {"off", "check", "tasks", "counting"}
        /\ me[x].pc = "inuse" => me[x].core = 1 /\ \A c \in Cores : evtsel[c] = q
    BY <1>0, <2>1 DEF RivalsHold
  <2>3. CASE x = p
    BY <1>0, <2>1, <2>2, <2>3
  <2>4. CASE q = p
    BY <1>0, <2>1, <2>2, <2>4
  <2> QED
    BY <2>1, <2>2, <2>3, <2>4 DEF TwoProcesses
<1> QED
  BY <1>1, <1>2, <1>3 DEF TakeoverInv

\* The same for a step that only moves a process inside program() and that
\* takes no decision
LEMMA MovesInPlace ==
    ASSUME TwoProcesses, TakeoverInv, NEW p \in Procs, Moves(p), TypeOK',
           tasks[p] # {} => me'[p].pc \in {"tasks", "cleanup", "clear", "restore"},
           me'[p].pc = "counting" => me'[p].programmed_core_pmu,
           me'[p].programmed_core_pmu =>
              /\ me'[p].status # "PMUBusy"
              /\ me'[p].pc \notin {"off", "inuse", "reset", "clear", "restore"},
           me'[p].canUsePerf = me[p].canUsePerf,
           me[p].programmed_core_pmu => me'[p].programmed_core_pmu,
           rivals[p] # {} =>
              /\ ~me'[p].programmed_core_pmu
              /\ me'[p].pc \notin {"off", "check", "tasks", "counting", "inuse"}
    PROVE  TakeoverInv'
<1>1. /\ Only(p) /\ evtsel' = evtsel /\ tasks' = tasks /\ rivals' = rivals
      /\ QueuedAlone /\ RivalsHold
  BY DEF Moves, hardware, history, TakeoverInv
<1>2. tasks[p] # {} => rivals[p] = {}
  BY <1>1 DEF QueuedAlone
<1>3. rivals[p] # {} => ~me[p].canUsePerf
  BY <1>1 DEF RivalsHold
<1>4. (\E x \in Procs : p \in rivals[x]) => me[p].programmed_core_pmu /\ ~me[p].canUsePerf
  BY <1>1 DEF RivalsHold
<1> QED
  BY <1>1, <1>2, <1>3, <1>4, StaysInPlace

\* Every step of a process keeps what NoTakeover rests on
LEMMA TakeoverKept ==
    ASSUME TwoProcesses, TakeoverInv, NEW p \in Procs, Step(p)
    PROVE  TakeoverInv'
<1>0. TypeOK /\ QueuedAlone /\ Counted /\ RivalsHold /\ TypeOK'
  BY StepTypes DEF TakeoverInv
<1>a. /\ tasks[p] # {} => /\ me[p].pc \in {"tasks", "cleanup", "clear", "restore"}
                          /\ rivals[p] = {}
      /\ me[p].pc = "counting" => me[p].programmed_core_pmu
      /\ me[p].programmed_core_pmu =>
            /\ me[p].status # "PMUBusy"
            /\ me[p].pc \notin {"off", "inuse", "reset", "clear", "restore"}
  BY <1>0 DEF QueuedAlone, Counted
<1>b. rivals[p] # {} =>
        /\ ~me[p].programmed_core_pmu /\ ~me[p].canUsePerf
        /\ me[p].pc \notin {"off", "check", "tasks", "counting"}
        /\ me[p].pc = "inuse" =>
              me[p].core = 1 /\ \E q \in Procs : \A c \in Cores : evtsel[c] = q
  BY <1>0 DEF RivalsHold, TypeOK
<1>c. (\E x \in Procs : p \in rivals[x]) => me[p].programmed_core_pmu /\ ~me[p].canUsePerf
  BY <1>0 DEF RivalsHold
<1>d. p \notin {Zero, Kernel, NMI}
  BY ConstantsAssumption
<1>1. CASE Start(p)
  <2>1. /\ Only(p) /\ evtsel' = evtsel /\ tasks' = tasks /\ rivals' = rivals
        /\ me[p].pc = "off" /\ me'[p].pc = "nmi"
        /\ me'[p].programmed_core_pmu = me[p].programmed_core_pmu
    BY <1>0, <1>1, Starting, StartMoves DEF Moves, hardware, history
  <2> QED
    BY <1>0, <1>a, <1>b, <1>c, <2>1, StaysInPlace
<1>2. CASE Reprogram(p)
  BY <1>0, <1>a, <1>b, <1>2, ReprogramMoves, MovesInPlace DEF Keeps, Becomes
<1>3. CASE IsNMIWatchdogEnabled(p)
  BY <1>0, <1>a, <1>b, <1>3, IsNMIMoves, MovesInPlace DEF Keeps, Becomes
<1>4. CASE SetRestoreFlag(p)
  BY <1>0, <1>a, <1>b, <1>4, SetFlagMoves, MovesInPlace DEF Becomes
<1>5. CASE CheckMSR(p)
  BY <1>0, <1>a, <1>b, <1>5, CheckMSRMoves, MovesInPlace DEF Keeps, Becomes
<1>6. CASE PMUinUse(p)
  <2>1. rivals[p] # {} => me[p].core = 1 /\ CoreInUse(p, 1)
    BY <1>b, <1>6, PMUinUseMoves, <1>0, ConstantsAssumption, PointsNamed DEF CoreInUse
  <2>2. rivals[p] # {} => ~(me[p].core > NumCores)
    BY <2>1, PointsNamed
  <2>3. /\ Moves(p) /\ me[p].pc = "inuse" /\ me'[p].canUsePerf = me[p].canUsePerf
        /\ me'[p].programmed_core_pmu = me[p].programmed_core_pmu
        /\ me'[p].pc \in {"check", "error", "inuse"}
        /\ rivals[p] # {} => me'[p].pc = "error"
    BY <1>0, <1>6, <2>1, <2>2, PMUinUseMoves DEF Keeps, Becomes
  <2> QED
    BY <1>0, <1>a, <1>b, <2>3, MovesInPlace
<1>7. CASE ProgramReturns(p)
  <2>1. /\ Moves(p) /\ me[p].pc = "tasks" /\ tasks[p] = {} /\ me'[p].status = me[p].status
        /\ me'[p].canUsePerf = me[p].canUsePerf
        /\ \/ me[p].status = "Success" /\ me'[p].pc = "counting" /\ me'[p].programmed_core_pmu
           \/ /\ me'[p].pc = "error"
              /\ me'[p].programmed_core_pmu = me[p].programmed_core_pmu
    BY <1>0, <1>7, ReturnsMoves DEF Keeps, Becomes
  <2> QED
    BY <1>0, <1>a, <1>b, <2>1, MovesInPlace
<1>8. CASE CheckError(p)
  BY <1>0, <1>a, <1>b, <1>8, CheckErrorMoves, MovesInPlace DEF Keeps, Becomes
<1>9. CASE Signal(p)
  BY <1>0, <1>a, <1>b, <1>9, SignalMoves, MovesInPlace DEF Keeps, Becomes
<1>10. CASE DisableNMIWatchdog(p)
  <2>1. /\ Only(p) /\ tasks' = tasks /\ rivals' = rivals
        /\ me[p].pc = "disable" /\ me'[p].pc = "flag"
        /\ me'[p].status = me[p].status /\ me'[p].canUsePerf = me[p].canUsePerf
        /\ me'[p].programmed_core_pmu = me[p].programmed_core_pmu
        /\ \A c \in Cores : evtsel[c] = p => evtsel'[c] = p
    BY <1>0, <1>d, <1>10, DisableEffect DEF Keeps, Becomes
  <2> QED
    BY <1>0, <1>a, <1>b, <1>c, <2>1, StaysInPlace
<1>11. CASE DecidePerf(p)
  <2>0. PICK usePerf \in {me[p].canUsePerf, FALSE} :
             \/ /\ usePerf \/ me[p].programmed_core_pmu
                /\ Becomes(p, "check", me[p].core, me[p].status, usePerf,
                           me[p].programmed_core_pmu, me[p].needToRestoreNMIWatchdog)
                /\ rivals' = rivals
             \/ /\ ~usePerf /\ ~me[p].programmed_core_pmu
                /\ Becomes(p, "inuse", 1, me[p].status, usePerf,
                           me[p].programmed_core_pmu, me[p].needToRestoreNMIWatchdog)
                /\ rivals' = [rivals EXCEPT ![p] =
                      {q \in Procs \ {p} : Direct(q) /\ \A c \in Cores : evtsel[c] = q}]
    BY <1>0, <1>11, DecideBecomes
  <2>d. me[p].pc = "perf" /\ tasks' = tasks
    BY <1>0, <1>11, DecideEffect
  <2>e. /\ Only(p) /\ me'[p].status = me[p].status
        /\ me'[p].programmed_core_pmu = me[p].programmed_core_pmu
        /\ me'[p].canUsePerf = usePerf
    BY <2>0 DEF Becomes
  <2>1. /\ me[p].pc = "perf" /\ tasks' = tasks /\ Only(p)
        /\ me'[p].status = me[p].status
        /\ me'[p].programmed_core_pmu = me[p].programmed_core_pmu
        /\ ~me[p].canUsePerf => ~me'[p].canUsePerf
    BY <2>d, <2>e
  <2>a. \A c \in Cores : evtsel'[c] = evtsel[c] \/ evtsel[c] = Kernel
    BY <1>0, <1>11, DecideEffect
  <2>b. \A c \in Cores : evtsel[c] = p => evtsel'[c] = p
    BY <1>d, <2>a
  <2>2. CASE /\ rivals' = rivals /\ me'[p].pc = "check"
             /\ me'[p].canUsePerf \/ me[p].programmed_core_pmu
    BY <1>0, <1>a, <1>b, <1>c, <2>1, <2>b, <2>2, StaysInPlace
  <2>3. CASE /\ ~me[p].programmed_core_pmu /\ me'[p].pc = "inuse" /\ me'[p].core = 1
             /\ ~me'[p].canUsePerf
             /\ rivals' = [rivals EXCEPT ![p] =
                   {q \in Procs \ {p} : Direct(q) /\ \A c \in Cores : evtsel[c] = q}]
    <3>1. /\ \A q \in Procs \ {p} : me'[q] = me[q] /\ rivals'[q] = rivals[q]
          /\ \A q \in rivals'[p] :
                /\ q \in Procs /\ q # p /\ me[q].pc = "counting" /\ ~me[q].canUsePerf
                /\ \A c \in Cores : evtsel[c] = q
      BY <1>0, <2>1, <2>3 DEF Only, Direct, At, TypeOK
    <3>2. QueuedAlone'
      BY <1>0, <1>a, <2>1, <2>3, <3>1 DEF QueuedAlone
    <3>3. Counted'
      BY <1>0, <1>a, <2>1, <2>3, <3>1 DEF Counted
    <3>4. \A x \in Procs : p \notin rivals[x]
      BY <1>c, <2>3
    <3>5. \A q \in rivals'[p] : /\ me'[q].programmed_core_pmu /\ ~me'[q].canUsePerf
                                /\ \A c \in Cores : evtsel'[c] = q
      BY <1>0, <2>a, <3>1, ConstantsAssumption DEF Counted
    <3>6. \A x \in Procs \ {p} : rivals'[x] = {}
      <4> SUFFICES ASSUME NEW x \in Procs \ {p}, NEW q \in rivals[x] PROVE FALSE
        BY <3>1
      <4> QED
        BY <1>0, <3>4 DEF RivalsHold, TwoProcesses, TypeOK
    <3>7. RivalsHold'
      BY <2>1, <2>3, <3>1, <3>5, <3>6 DEF RivalsHold
    <3> QED
      BY <1>0, <3>2, <3>3, <3>7 DEF TakeoverInv
  <2> QED
    BY <2>0, <2>2, <2>3 DEF Becomes
<1>12. CASE CheckAndQueue(p)
  <2>1. /\ Only(p) /\ rivals' = rivals /\ evtsel' = evtsel /\ me[p].pc = "check"
        /\ me'[p].pc \in {"error", "tasks"} /\ me'[p].status \in {"UnknownError", "Success"}
        /\ \A x \in Procs \ {p} : tasks'[x] = tasks[x]
        /\ me'[p].pc = "error" => tasks' = tasks
        /\ me'[p].canUsePerf = me[p].canUsePerf
        /\ me'[p].programmed_core_pmu = me[p].programmed_core_pmu
    BY <1>0, <1>12, QueueEffect DEF Becomes, TypeOK
  <2> QED
    BY <1>0, <1>a, <1>b, <1>c, <2>1, StaysInPlace
<1>13. ASSUME NEW c \in Cores, ProgramCoreCounters(p, c) PROVE TakeoverInv'
  <2>1. /\ tasks[p] # {} /\ rivals' = rivals
        /\ tasks'[p] \subseteq tasks[p] /\ \A x \in Procs \ {p} : tasks'[x] = tasks[x]
        /\ Only(p) /\ me'[p].pc = me[p].pc /\ me'[p].status \in {me[p].status, "UnknownError"}
        /\ me'[p].canUsePerf = me[p].canUsePerf
        /\ me'[p].programmed_core_pmu = me[p].programmed_core_pmu
        /\ ~me[p].canUsePerf => evtsel' = [evtsel EXCEPT ![c] = p]
    BY <1>0, <1>13, TaskEffect DEF Becomes, Only, TypeOK
  <2>2. ~me[p].canUsePerf => \A k \in Cores : evtsel[k] = p => evtsel'[k] = p
    BY <1>0, <2>1 DEF TypeOK
  <2> QED
    BY <1>0, <1>a, <1>b, <1>c, <2>1, <2>2, StaysInPlace
<1>14. CASE ResetPMU(p)
  <2>0. {"cleanup", "nmi"} \in SUBSET Points
    BY PointsNamed
  <2>1. me[p].pc = "reset" /\ ClearRound(p, NumCores, {"cleanup", "nmi"})
    BY <1>14 DEF ResetPMU, At
  <2>2. /\ Only(p) /\ tasks' = tasks /\ rivals' = rivals
        /\ me'[p].pc \in {"reset", "cleanup", "nmi"}
        /\ me'[p].canUsePerf = me[p].canUsePerf
        /\ me'[p].programmed_core_pmu = me[p].programmed_core_pmu
    BY <1>0, <2>0, <2>1, RoundEffect DEF Keeps, Becomes
  <2> QED
    BY <1>0, <1>a, <1>b, <1>c, <2>1, <2>2, StaysInPlace
<1>15. CASE ClearEventSelects(p)
  <2>0. {"restore"} \in SUBSET Points
    BY PointsNamed
  <2>1. me[p].pc = "clear" /\ ClearRound(p, NumCores, {"restore"})
    BY <1>15 DEF ClearEventSelects, At, LastCore
  <2>2. /\ Only(p) /\ tasks' = tasks /\ rivals' = rivals
        /\ me'[p].pc \in {"clear", "restore"}
        /\ me'[p].canUsePerf = me[p].canUsePerf
        /\ me'[p].programmed_core_pmu = me[p].programmed_core_pmu
    BY <1>0, <2>0, <2>1, RoundEffect DEF Keeps, Becomes
  <2> QED
    BY <1>0, <1>a, <1>b, <1>c, <2>1, <2>2, StaysInPlace
<1>16. CASE CleanupPMU(p)
  <2>1. /\ Only(p) /\ \A x \in Procs \ {p} : rivals'[x] = rivals[x] \ {p} /\ tasks'[x] = tasks[x]
        /\ p \notin rivals'[p] /\ rivals'[p] \subseteq rivals[p]
        /\ ~me'[p].programmed_core_pmu
        /\ \/ me'[p].pc = "off" /\ tasks'[p] = {} /\ rivals'[p] = {}
           \/ /\ me'[p].pc \in {"clear", "restore"} /\ tasks'[p] = tasks[p]
              /\ me'[p].canUsePerf = me[p].canUsePerf
    <3>1. CASE ~me[p].env.msr
      <4>1. Vanish(p)
        BY <1>0, <1>16, <3>1, CleanupEffect
      <4> QED
        BY <1>0, <4>1, Vanishing, FreshType
    <3>2. CASE me[p].env.msr
      <4>1. /\ tasks' = tasks /\ rivals'[p] = rivals[p] \ {p}
            /\ \A x \in Procs \ {p} : rivals'[x] = rivals[x] \ {p}
            /\ \E there \in {"restore", "clear"}, core \in {me[p].core, 1} :
                  Becomes(p, there, core, me[p].status, me[p].canUsePerf, FALSE,
                          me[p].needToRestoreNMIWatchdog)
        BY <1>0, <1>16, <3>2, CleanupEffect
      <4> QED
        BY <4>1 DEF Becomes
    <3> QED
      BY <3>1, <3>2
  <2> QED
    BY <1>0, <1>a, <1>b, <2>1, StaysInPlace
<1>17. CASE RestoreAndExit(p) \/ Kill(p)
  <2>1. /\ Only(p) /\ \A x \in Procs \ {p} : rivals'[x] = rivals[x] \ {p} /\ tasks'[x] = tasks[x]
        /\ me'[p].pc = "off" /\ ~me'[p].programmed_core_pmu
        /\ tasks'[p] = {} /\ rivals'[p] = {}
    BY <1>0, <1>17, ExitEffect, Vanishing, FreshType
  <2> QED
    BY <1>0, <2>1, StaysInPlace
<1> QED
  BY <1>1, <1>2, <1>3, <1>4, <1>5, <1>6, <1>7, <1>8, <1>9, <1>10, <1>11, <1>12, <1>13, <1>14,
     <1>15, <1>16, <1>17 DEF Step

\* Only the core task of a process puts the process into an event select
LEMMA WritersQueue ==
    ASSUME TypeOK, NEW p \in Procs, Step(p), NEW q \in Procs, NEW c \in Cores,
           evtsel'[c] = q, evtsel[c] # q
    PROVE  q = p /\ c \in tasks[p]
<1>0. evtsel \in [Cores -> Selects] /\ q \notin {Zero, Kernel, NMI}
  BY ConstantsAssumption DEF TypeOK, Selects
<1>1. CASE \E k \in Cores : ProgramCoreCounters(p, k)
  BY <1>0, <1>1, TaskEffect
<1>2. CASE ~ \E k \in Cores : ProgramCoreCounters(p, k)
  <2>1. CASE \/ Start(p) \/ Reprogram(p) \/ IsNMIWatchdogEnabled(p) \/ SetRestoreFlag(p)
             \/ CheckMSR(p) \/ PMUinUse(p) \/ ProgramReturns(p) \/ CheckError(p) \/ Signal(p)
             \/ CheckAndQueue(p)
    BY <2>1 DEF Start, Reprogram, IsNMIWatchdogEnabled, SetRestoreFlag, CheckMSR, PMUinUse,
                ProgramReturns, CheckError, Signal, CheckAndQueue, hardware
  <2>2. CASE DisableNMIWatchdog(p)
    BY <1>0, <2>2, DisableEffect
  <2>3. CASE DecidePerf(p)
    BY <1>0, <2>3, DecideEffect
  <2>4. CASE ResetPMU(p) \/ ClearEventSelects(p)
    <3>1. ClearRound(p, NumCores, {"cleanup", "nmi"}) \/ ClearRound(p, NumCores, {"restore"})
      BY <2>4 DEF ResetPMU, ClearEventSelects, LastCore
    <3>2. evtsel' = evtsel \/ evtsel' = [evtsel EXCEPT ![me[p].core] = Zero]
      BY <3>1 DEF ClearRound
    <3> QED
      BY <1>0, <3>2
  <2>5. CASE CleanupPMU(p)
    BY <1>0, <2>5, CleanupEffect, FreedType DEF ClosePerf
  <2>6. CASE RestoreAndExit(p) \/ Kill(p)
    BY <1>0, <2>6, ExitEffect
  <2> QED
    BY <1>2, <2>1, <2>2, <2>3, <2>4, <2>5, <2>6 DEF Step
<1> QED
  BY <1>1, <1>2

-----------------------------------------------------------------------------
(* The theorems *)

\* The machine before the first process starts
LEMMA Initially ==
    ASSUME Init
    PROVE  TypeOK /\ ReleaseInv /\ WatchdogInv /\ TakeoverInv
<1>1. TypeOK
  <2>1. me \in [Procs -> Process]
    BY FreshType DEF Init
  <2> QED
    BY <2>1, ConstantsAssumption DEF Init, TypeOK
<1>2. /\ \A p \in Procs : me[p] = Fresh /\ tasks[p] = {} /\ rivals[p] = {}
      /\ perfEvents = {} /\ killed = {} /\ nmi = NmiAtStart /\ NmiAtStart \in BOOLEAN
      /\ \A c \in Cores : evtsel[c] \in {NMI, Zero}
  BY ConstantsAssumption DEF Init
<1>3. ReleaseInv
  BY <1>1, <1>2, FreshType, ConstantsAssumption
     DEF ReleaseInv, NoPerfLeak, TasksInProgram, OwnerClears
<1>4. WatchdogInv
  BY <1>1, <1>2, FreshType DEF WatchdogInv, EnvironmentKept, WatchdogRemembered
<1>5. TakeoverInv
  BY <1>1, <1>2, FreshType DEF TakeoverInv, QueuedAlone, Counted, RivalsHold
<1> QED
  BY <1>1, <1>3, <1>4, <1>5

\* The perf events need no hypothesis about signals: a process that does not run
\* does not use perf.
PerfInv == /\ TypeOK /\ NoPerfLeak
           /\ \A p \in Procs : me[p].pc = "off" => ~me[p].canUsePerf

\* A step that opens events only for a process that uses perf, and gives perf up
\* only together with the events
LEMMA PerfStep ==
    ASSUME PerfInv, NEW p \in Procs, Only(p), TypeOK',
           \A e \in perfEvents' : e \in perfEvents \/ (e[1] = p /\ me[p].canUsePerf),
           me[p].canUsePerf => me'[p].canUsePerf \/ \A e \in perfEvents' : e[1] # p,
           me'[p].pc = "off" => ~me'[p].canUsePerf
    PROVE  PerfInv'
<1>1. TypeOK /\ NoPerfLeak /\ \A q \in Procs \ {p} : me'[q] = me[q]
  BY DEF PerfInv, Only
<1>2. \A e \in perfEvents : e[1] \in Procs
  BY <1>1 DEF TypeOK
<1>3. NoPerfLeak'
  BY <1>1, <1>2 DEF NoPerfLeak
<1> QED
  BY <1>1, <1>3 DEF PerfInv

\* Every step of a process keeps PerfInv
LEMMA PerfKept ==
    ASSUME PerfInv, NEW p \in Procs, Step(p)
    PROVE  PerfInv'
<1>0. TypeOK /\ TypeOK' /\ (me[p].pc = "off" => ~me[p].canUsePerf)
  BY StepTypes DEF PerfInv
<1>1. CASE Start(p)
  BY <1>0, <1>1, Starting, StartMoves, PerfStep DEF Moves, hardware
<1>2. CASE \/ Reprogram(p) \/ IsNMIWatchdogEnabled(p) \/ SetRestoreFlag(p) \/ CheckMSR(p)
           \/ PMUinUse(p) \/ ProgramReturns(p) \/ CheckError(p) \/ Signal(p)
  <2>1. Moves(p) /\ me'[p].canUsePerf = me[p].canUsePerf /\ me'[p].pc # "off"
    <3>1. CASE Reprogram(p)
      BY <1>0, <3>1, ReprogramMoves DEF Keeps, Becomes
    <3>2. CASE IsNMIWatchdogEnabled(p)
      BY <1>0, <3>2, IsNMIMoves DEF Keeps, Becomes
    <3>3. CASE SetRestoreFlag(p)
      BY <1>0, <3>3, SetFlagMoves DEF Keeps, Becomes
    <3>4. CASE CheckMSR(p)
      BY <1>0, <3>4, CheckMSRMoves DEF Keeps, Becomes
    <3>5. CASE PMUinUse(p)
      BY <1>0, <3>5, PMUinUseMoves DEF Keeps, Becomes
    <3>6. CASE ProgramReturns(p)
      BY <1>0, <3>6, ReturnsMoves DEF Keeps, Becomes
    <3>7. CASE CheckError(p)
      BY <1>0, <3>7, CheckErrorMoves DEF Keeps, Becomes
    <3>8. CASE Signal(p)
      BY <1>0, <3>8, SignalMoves DEF Keeps, Becomes
    <3> QED
      BY <1>2, <3>1, <3>2, <3>3, <3>4, <3>5, <3>6, <3>7, <3>8
  <2> QED
    BY <1>0, <2>1, PerfStep DEF Moves, hardware
<1>3. CASE DisableNMIWatchdog(p)
  BY <1>0, <1>3, DisableEffect, PerfStep DEF Keeps, Becomes
<1>4. CASE DecidePerf(p)
  <2>1. /\ Only(p) /\ me'[p].pc # "off" /\ perfEvents' \subseteq perfEvents
        /\ me[p].canUsePerf => \A e \in perfEvents' : e[1] # p
    BY <1>0, <1>4, DecideEffect DEF Becomes
  <2> QED
    BY <1>0, <2>1, PerfStep
<1>5. CASE CheckAndQueue(p)
  BY <1>0, <1>5, QueueEffect, PerfStep DEF Becomes
<1>6. ASSUME NEW c \in Cores, ProgramCoreCounters(p, c) PROVE PerfInv'
  <2>1. /\ Only(p) /\ me'[p].canUsePerf = me[p].canUsePerf /\ me'[p].pc = me[p].pc
        /\ \A e \in perfEvents' : e \in perfEvents \/ (e = <<p, c>> /\ me[p].canUsePerf)
    BY <1>0, <1>6, TaskEffect DEF Becomes, Only, TypeOK
  <2> QED
    BY <1>0, <2>1, PerfStep
<1>7. CASE ResetPMU(p) \/ ClearEventSelects(p)
  <2>0. {"cleanup", "nmi"} \in SUBSET Points /\ {"restore"} \in SUBSET Points
    BY PointsNamed
  <2>1. CASE ResetPMU(p)
    BY <1>0, <2>0, <2>1, RoundEffect, PerfStep DEF ResetPMU, Keeps, Becomes, At
  <2>2. CASE ClearEventSelects(p)
    BY <1>0, <2>0, <2>2, RoundEffect, PerfStep DEF ClearEventSelects, LastCore, Keeps, Becomes, At
  <2> QED
    BY <1>7, <2>1, <2>2
<1>8. CASE CleanupPMU(p)
  <2>1. CASE ~me[p].env.msr
    <3>1. Vanish(p)
      BY <1>0, <1>8, <2>1, CleanupEffect
    <3>2. /\ Only(p) /\ me'[p] = Fresh /\ perfEvents' \subseteq perfEvents
          /\ \A e \in perfEvents' : e[1] # p
      BY <1>0, <3>1, Vanishing
    <3> QED
      BY <1>0, <3>2, FreshType, PerfStep
  <2>2. CASE me[p].env.msr
    <3>1. /\ Only(p) /\ me'[p].pc # "off" /\ me'[p].canUsePerf = me[p].canUsePerf
          /\ perfEvents' \subseteq perfEvents
      BY <1>0, <1>8, <2>2, CleanupEffect DEF Becomes, ClosePerf
    <3> QED
      BY <1>0, <3>1, PerfStep
  <2> QED
    BY <2>1, <2>2
<1>9. CASE RestoreAndExit(p) \/ Kill(p)
  BY <1>0, <1>9, ExitEffect, Vanishing, FreshType, PerfStep
<1> QED
  BY <1>1, <1>2, <1>3, <1>4, <1>5, <1>6, <1>7, <1>8, <1>9 DEF Step

\* Whatever signals and kills do, the state stays well formed and a process that
\* gave up perf holds no perf event: closePerfHandles comes before the decision.
THEOREM NoEventOutlivesPerf ==
    Spec => [](TypeOK /\ NoPerfLeak)
<1>1. Init => PerfInv
  BY Initially, FreshType DEF PerfInv, ReleaseInv, Init
<1>2. PerfInv /\ [Next]_vars => PerfInv'
  <2>1. ASSUME PerfInv, Next PROVE PerfInv'
    BY <2>1, PerfKept DEF Next
  <2>2. ASSUME PerfInv, UNCHANGED vars PROVE PerfInv'
    BY <2>2 DEF PerfInv, TypeOK, NoPerfLeak, vars, hardware, history
  <2> QED
    BY <2>1, <2>2
<1>3. PerfInv => TypeOK /\ NoPerfLeak
  BY DEF PerfInv
<1> QED
  BY <1>1, <1>2, <1>3, PTL DEF Spec

\* program, checkError, cleanup and resetPMU leave nothing behind of a process
\* that ended by its handlers, however the processes interleave and however many
\* there are, as long as no signal arrives while tasks are queued.
THEOREM Releases ==
    ASSUME SignalsMissTasks PROVE Spec => []LifecycleInv
<1>1. Init => ReleaseInv
  BY Initially
<1>2. ReleaseInv /\ [Next]_vars => ReleaseInv'
  <2>1. ASSUME ReleaseInv, Next PROVE ReleaseInv'
    BY <2>1, ReleaseKept DEF Next
  <2>2. ASSUME ReleaseInv, UNCHANGED vars PROVE ReleaseInv'
    BY <2>2 DEF ReleaseInv, TypeOK, NoPerfLeak, TasksInProgram, OwnerClears,
                vars, hardware, history
  <2> QED
    BY <2>1, <2>2
<1>3. ReleaseInv => LifecycleInv
  BY DEF ReleaseInv, LifecycleInv, PMUReleased, OwnerClears, At
<1> QED
  BY <1>1, <1>2, <1>3, PTL DEF Spec

\* When all processes have ended by their handlers, the NMI watchdog is as it
\* was: disableNMIWatchdog and the flag that remembers it are not torn apart by
\* a signal, and whoever disables it has the MSRs that cleanup asks for.
THEOREM WatchdogComesBack ==
    ASSUME SignalsMissFlag, DeniedKeepWatchdog PROVE Spec => []WatchdogRestored
<1>1. Init => WatchdogInv
  BY Initially
<1>2. WatchdogInv /\ [Next]_vars => WatchdogInv'
  <2>1. ASSUME WatchdogInv, Next PROVE WatchdogInv'
    BY <2>1, WatchdogKept DEF Next
  <2>2. ASSUME WatchdogInv, UNCHANGED vars PROVE WatchdogInv'
    BY <2>2 DEF WatchdogInv, TypeOK, EnvironmentKept, WatchdogRemembered,
                vars, hardware, history
  <2> QED
    BY <2>1, <2>2
<1>3. WatchdogInv => WatchdogRestored
  <2> SUFFICES ASSUME WatchdogInv, \A p \in Procs : At(p, "off"), killed = {}
               PROVE  nmi = NmiAtStart
    BY DEF WatchdogRestored
  <2>1. \A p \in Procs : me[p].pc = "off" /\ ~me[p].needToRestoreNMIWatchdog
    BY FreshType DEF WatchdogInv, EnvironmentKept, At
  <2>2. NmiAtStart <=> nmi
    BY <2>1 DEF WatchdogInv, WatchdogRemembered
  <2> QED
    BY <2>2, ConstantsAssumption DEF WatchdogInv, TypeOK
<1> QED
  BY <1>1, <1>2, <1>3, PTL DEF Spec

\* PMUinUse keeps a process from overwriting the event selects of the one it
\* found counting, wherever signals strike and whoever is killed, as long as no
\* third process interferes.
THEOREM TakesNothingOver ==
    ASSUME TwoProcesses PROVE Spec => NoTakeover
<1>1. Init => TakeoverInv
  BY Initially
<1>2. TakeoverInv /\ [Next]_vars => TakeoverInv'
  <2>1. ASSUME TakeoverInv, Next PROVE TakeoverInv'
    BY <2>1, TakeoverKept DEF Next
  <2>2. ASSUME TakeoverInv, UNCHANGED vars PROVE TakeoverInv'
    BY <2>2 DEF TakeoverInv, TypeOK, QueuedAlone, Counted, RivalsHold,
                vars, hardware, history
  <2> QED
    BY <2>1, <2>2
<1>3. TakeoverInv /\ [Next]_vars =>
        [\A p \in Procs, c \in Cores :
           evtsel'[c] = p /\ evtsel[c] # p => evtsel[c] \notin rivals[p]]_vars
  <2> SUFFICES ASSUME TakeoverInv, Next, NEW p \in Procs, NEW c \in Cores,
                      evtsel'[c] = p, evtsel[c] # p
               PROVE  evtsel[c] \notin rivals[p]
    OBVIOUS
  <2>1. c \in tasks[p]
    BY WritersQueue DEF Next, TakeoverInv
  <2> QED
    BY <2>1 DEF TakeoverInv, QueuedAlone
<1> QED
  BY <1>1, <1>2, <1>3, PTL DEF Spec, NoTakeover
=============================================================================
