--------------------------------- MODULE RDT ---------------------------------
(***************************************************************************)
(* Resource Director Technology on top of the topology that Startup found: *)
(* initRDT gives every online core a resource monitoring id (RMID) and two *)
(* bandwidth counters, getCoreCounterState reads L3 occupancy and both     *)
(* bandwidths of a core, the watchdog threads of the bandwidth counters    *)
(* read them in the background, and cleanupRDT gives the ids back.         *)
(*                                                                         *)
(* A core has one pair of registers for this: IA32_QM_EVTSEL selects RMID  *)
(* and event, IA32_QM_CTR then shows the value.  Every reader therefore    *)
(* writes the first and reads the second, under the lock of the core's MSR *)
(* handle; cleanupRDT takes no lock.  A counter value is modelled by the   *)
(* selection it was read under.                                            *)
(***************************************************************************)
EXTENDS Startup

CONSTANTS
  MaxRMID,      \* what getMaxRMID returns, the number of ids of a socket
  MaxReads      \* how many times each watchdog and the reading thread read

ASSUME RDTAssumption == MaxRMID \in 1 .. 1024 /\ MaxReads \in Nat \ {0}

L3Occ == 1    \* event numbers of IA32_QM_EVTSEL
MBT == 2
MBL == 3
BWEvents == {MBT, MBL}

VARIABLES
  assoc,        \* core -> RMID in IA32_PQR_ASSOC
  evtsel,       \* core -> [rmid, event] in IA32_QM_EVTSEL
  memory_bw,    \* event -> sequence of the cores whose MSR handles the extenders use
  groups,       \* the cores with a directory /sys/fs/resctrl/mon_groups/pcm<core>
  files,        \* the cores whose metric files Resctrl::init recorded
  lock,         \* core -> the thread holding the lock of its MSR handle
  job,          \* thread -> the read it performs
  reads,        \* thread -> reads left
  got,          \* the last value read: core and event asked for, core and selection it came from
  cleanup       \* the next core cleanupRDT treats, -1 before the call, CleanupDone after it

rdtVars == <<assoc, evtsel, memory_bw, groups, files, lock, job, reads, got, cleanup>>
vars == <<startupVars, rdtVars>>

\* the thread in getCoreCounterState, and one watchdog per extender named by event and position
Main == <<0, 0>>
Readers == {Main} \cup (BWEvents \X (1 .. Cardinality(CPUs)))
Nobody == <<-1, -1>>
NoRMID == [rmid |-> 0, event |-> 0]
Idle == [at |-> "idle", asked |-> -1, core |-> -1, event |-> 0, sel |-> NoRMID]
Nothing == [asked |-> -1, event |-> 0, on |-> -1, sel |-> NoRMID]
CleanupDone == Cardinality(CPUs)

\* monitoring groups may be left over from a process that was killed
RDTInit ==
  /\ assoc = [c \in CPUs |-> 0]
  /\ evtsel = [c \in CPUs |-> NoRMID]
  /\ memory_bw = [e \in BWEvents |-> <<>>]
  /\ groups \in {{}, IF machine.resctrl THEN {Max(CPUs)} ELSE {}} /\ files = {}
  /\ lock = [c \in CPUs |-> Nobody]
  /\ job = [r \in Readers |-> Idle]
  /\ reads = [r \in Readers |-> MaxReads]
  /\ got = Nothing
  /\ cleanup = -1

-----------------------------------------------------------------------------
\* online cores in the order of the loops
OnlineSeq == LET before(c) == Cardinality({d \in Online : d < c})
             IN [i \in 1 .. Cardinality(Online) |-> CHOOSE c \in Online : before(c) = i - 1]

\* rmid[socket] counts down from maxRMID - 1, one step per online core of the socket; ten bits
\* of it are written
AssignedRMID(c) ==
  LET earlier == Cardinality({d \in Online : d < c /\ topology[d].socket = topology[c].socket})
  IN (MaxRMID - 1 - earlier) % 1024

RestOfPCM == UNCHANGED <<machine, cpu_family_model, topology, systemTopology, offlined,
                         threads_per_core, num_sockets, num_phys_cores_per_socket, socketRefCore,
                         MSR, energy, lock, job, reads, got, cleanup>>

\* the extenders are pushed back for online cores only
initRDT ==
  /\ pc = "initRDT" /\ ~machine.resctrl
  /\ pc' = "ready"
  /\ assoc' = [c \in CPUs |-> IF c \in Online THEN AssignedRMID(c) ELSE assoc[c]]
  /\ evtsel' = [c \in CPUs |-> IF c \in Online THEN [rmid |-> AssignedRMID(c), event |-> 0]
                               ELSE evtsel[c]]
  /\ memory_bw' = [e \in BWEvents |-> IF machine.mbm THEN OnlineSeq ELSE <<>>]
  /\ RestOfPCM /\ UNCHANGED <<groups, files>>

\* Resctrl::init: a group per online core, up to the first one that cannot be created
ResctrlInit ==
  /\ pc = "initRDT" /\ machine.resctrl
  /\ pc' = "ready"
  /\ \E n \in 0 .. Len(OnlineSeq) :
       /\ n < Len(OnlineSeq) => OnlineSeq[n + 1] \notin groups
       /\ files' = {OnlineSeq[i] : i \in 1 .. n}
       /\ groups' = groups \cup files'
  /\ RestOfPCM /\ UNCHANGED <<assoc, evtsel, memory_bw>>

\* A call starts: getCoreCounterState asks for a core and takes the extender at the position of
\* the core's number; a watchdog reads its own extender.
Start(r, asked, core, event) ==
  /\ pc = "ready" /\ job[r] = Idle /\ reads[r] > 0
  /\ job' = [job EXCEPT ![r] = [Idle EXCEPT !.at = "lock", !.asked = asked, !.core = core,
                                            !.event = event]]
  /\ reads' = [reads EXCEPT ![r] = @ - 1]
  /\ UNCHANGED <<startupVars, assoc, evtsel, memory_bw, groups, files, lock, got, cleanup>>

ReadL3Occupancy ==
  /\ ~machine.resctrl /\ cleanup = -1
  /\ \E c \in Online : Start(Main, c, c, L3Occ)

readAndAggregateMemoryBWCounters ==
  /\ ~machine.resctrl /\ cleanup = -1
  /\ \E c \in Online, e \in BWEvents :
       /\ c < Len(memory_bw[e])
       /\ Start(Main, c, memory_bw[e][c + 1], e)

Watchdog ==
  \E e \in BWEvents : \E i \in 1 .. Len(memory_bw[e]) :
    Start(<<e, i>>, memory_bw[e][i], memory_bw[e][i], e)

\* mutant: the MSR handle is not locked
LockNothing(r) ==
  /\ job[r].at = "lock"
  /\ job' = [job EXCEPT ![r].at = "readsel"]
  /\ UNCHANGED <<startupVars, assoc, evtsel, memory_bw, groups, files, lock, reads, got, cleanup>>

Lock(r) ==
  /\ job[r].at = "lock" /\ lock[job[r].core] = Nobody
  /\ lock' = [lock EXCEPT ![job[r].core] = r]
  /\ job' = [job EXCEPT ![r].at = "readsel"]
  /\ UNCHANGED <<startupVars, assoc, evtsel, memory_bw, groups, files, reads, got, cleanup>>

ReadEvtsel(r) ==
  /\ job[r].at = "readsel"
  /\ job' = [job EXCEPT ![r].at = "writesel", ![r].sel = evtsel[job[r].core]]
  /\ UNCHANGED <<startupVars, assoc, evtsel, memory_bw, groups, files, lock, reads, got, cleanup>>

WriteEvtsel(r) ==
  /\ job[r].at = "writesel"
  /\ evtsel' = [evtsel EXCEPT ![job[r].core] = [rmid |-> job[r].sel.rmid, event |-> job[r].event]]
  /\ job' = [job EXCEPT ![r].at = "readctr"]
  /\ UNCHANGED <<startupVars, assoc, memory_bw, groups, files, lock, reads, got, cleanup>>

\* IA32_QM_CTR is read, the lock is given back and the caller has its value
ReadCtr(r) ==
  /\ job[r].at = "readctr"
  /\ lock' = [lock EXCEPT ![job[r].core] = Nobody]
  /\ job' = [job EXCEPT ![r] = Idle]
  /\ got' = IF cleanup = -1 THEN [asked |-> job[r].asked, event |-> job[r].event,
                                  on |-> job[r].core, sel |-> evtsel[job[r].core]]
            ELSE Nothing
  /\ UNCHANGED <<startupVars, assoc, evtsel, memory_bw, groups, files, reads, cleanup>>

\* Resctrl::getMetric: the kernel selects and reads; 0 for a core without files
getMetric ==
  /\ pc = "ready" /\ machine.resctrl /\ cleanup = -1
  /\ \E c \in Online, e \in {L3Occ, MBT, MBL} :
       got' = IF c \in files THEN [asked |-> c, event |-> e, on |-> c,
                                   sel |-> [rmid |-> AssignedRMID(c), event |-> e]]
              ELSE Nothing
  /\ UNCHANGED <<startupVars, assoc, evtsel, memory_bw, groups, files, lock, job, reads, cleanup>>

\* PCM::cleanup calls cleanupRDT while the watchdogs go on: a core per step, without the lock
StartCleanupRDT ==
  /\ pc = "ready" /\ cleanup = -1 /\ job[Main] = Idle
  /\ cleanup' = 0 /\ got' = Nothing
  /\ UNCHANGED <<startupVars, assoc, evtsel, memory_bw, groups, files, lock, job, reads>>

cleanupRDT ==
  /\ cleanup \in CPUs /\ ~machine.resctrl
  /\ cleanup' = cleanup + 1
  /\ assoc' = IF cleanup \in Online THEN [assoc EXCEPT ![cleanup] = 0] ELSE assoc
  /\ evtsel' = IF cleanup \in Online THEN [evtsel EXCEPT ![cleanup] = NoRMID] ELSE evtsel
  /\ UNCHANGED <<startupVars, memory_bw, groups, files, lock, job, reads, got>>

\* mutant: only the groups whose files were recorded are removed
RemoveRecorded ==
  /\ cleanup \in CPUs /\ machine.resctrl
  /\ cleanup' = cleanup + 1
  /\ groups' = IF cleanup \in files THEN groups \ {cleanup} ELSE groups
  /\ UNCHANGED <<startupVars, assoc, evtsel, memory_bw, files, lock, job, reads, got>>

ResctrlCleanup ==
  /\ cleanup \in CPUs /\ machine.resctrl
  /\ cleanup' = cleanup + 1
  /\ groups' = IF cleanup \in Online THEN groups \ {cleanup} ELSE groups
  /\ UNCHANGED <<startupVars, assoc, evtsel, memory_bw, files, lock, job, reads, got>>

Init == StartupInit /\ RDTInit

Next ==
  \/ StartupNext /\ UNCHANGED rdtVars
  \/ initRDT \/ ResctrlInit
  \/ ReadL3Occupancy \/ readAndAggregateMemoryBWCounters \/ Watchdog \/ getMetric
  \/ \E r \in Readers : Lock(r) \/ ReadEvtsel(r) \/ WriteEvtsel(r) \/ ReadCtr(r)
  \/ StartCleanupRDT \/ cleanupRDT \/ ResctrlCleanup

Spec == Init /\ [][Next]_vars
-----------------------------------------------------------------------------
\* online cores are the first ones, so that positions and core numbers agree
OnlineFirst == Online = 0 .. Cardinality(Online) - 1

ValueIsOfCore(g) ==
  g # Nothing =>
    /\ g.on = g.asked
    /\ g.sel = [rmid |-> AssignedRMID(g.asked), event |-> g.event]
    /\ \A d \in Online \ {g.asked} :
         topology[d].socket = topology[g.asked].socket => AssignedRMID(d) # g.sel.rmid

(***************************************************************************)
(* Whatever the watchdogs do between the steps of a read, the value that   *)
(* is reported for a core and a metric was counted for that core and that  *)
(* event, under a monitoring id no other core of its socket has, where the *)
(* online cores are the first ones (initRDT, MBLCounter, MBTCounter,       *)
(* initQOSevent, readAndAggregateMemoryBWCounters, Resctrl::getMetric).    *)
(***************************************************************************)
MonitoredCore == OnlineFirst => ValueIsOfCore(got)

\* the same wherever the offline cores are
\* The code does not have this property (README, section 4).
EveryMonitoredCore == ValueIsOfCore(got)

(***************************************************************************)
(* After cleanupRDT no online core is associated with a monitoring id and  *)
(* no monitoring group of PCM exists for one, leftovers of an earlier      *)
(* process included, even though watchdogs still run ("Freeing up all      *)
(* RMIDs"; Resctrl::cleanup).                                              *)
(***************************************************************************)
RMIDsFreed ==
  cleanup = CleanupDone => /\ \A c \in Online : assoc[c] = 0
                           /\ groups \cap Online = {}
=============================================================================
