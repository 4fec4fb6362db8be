------------------------------- MODULE Startup -------------------------------
(***************************************************************************)
(* The constructor PCM::PCM(): CPU detection, topology discovery, MSR       *)
(* access, frequency and energy units, step by step with the early returns *)
(* that leave an instance whose good() is false.                           *)
(*                                                                         *)
(* The machine PCM meets is chosen once and never changes: where each      *)
(* logical CPU really sits (place), how the bits of its APIC id are laid    *)
(* out (layout), which CPUs /proc/cpuinfo lists, and on which of them the   *)
(* process may run (a cpuset may forbid the others).  What the code makes  *)
(* of the APIC ids is compared with where the CPUs really sit.             *)
(***************************************************************************)
EXTENDS CpuModels, Sequences, FiniteSets, FiniteSetsExt

CONSTANTS
  CPUs,        \* the logical CPUs, 0 .. num_cores - 1
  Machines     \* the machines PCM may be started on

ASSUME CPUsAssumption == IsFiniteSet(CPUs) /\ CPUs = 0 .. Cardinality(CPUs) - 1 /\ CPUs # {}

VARIABLES
  machine,           \* [model, stepping, place, layout, listed, allowed, vpmu]
  pc,                \* the step of the constructor that comes next
  cpu_family_model,  \* the model after checkModel
  topology,          \* CPU -> TopologyEntry, NoEntry while unknown or offline
  systemTopology,    \* the tree: a sequence of [socket, threads], one per Core object
  offlined,          \* offlinedThreadsAtStart_
  threads_per_core, num_sockets, num_phys_cores_per_socket,
  socketRefCore,     \* socket -> CPU
  MSR,               \* <<>> until initMSR; then per CPU whether the handle is valid
  energy             \* the CPUs whose MSR the energy counters read, by kind

startupVars == <<machine, pc, cpu_family_model, topology, systemTopology, offlined,
                 threads_per_core, num_sockets, num_phys_cores_per_socket, socketRefCore, MSR,
                 energy>>

NoEntry == [thread |-> -1, core |-> -1, tile |-> -1, die |-> -1, socket |-> -1]
OtherModel == "other"   \* stands for every model PCM does not know
NoEnergy == [pkg |-> <<>>, dram |-> <<>>, pp |-> <<>>, sys |-> <<>>]

Above(v, lo) == v \div 2^lo                          \* extract_bits_32(v, lo, 31)
Bits(v, lo, hi) == Above(v, lo) % 2^(hi - lo + 1)    \* extract_bits_32(v, lo, hi)

-----------------------------------------------------------------------------
(* The hardware: the APIC id of a CPU and the levels CPUID reports.         *)

\* layout: widths in bits of the levels below the package, from the lowest
APICID(m, c) ==
  LET p == m.place[c]
      w == m.layout
  IN p.thread + 2^w.smt * (p.core + 2^w.core * (p.die + 2^w.die * p.package))

\* What hardware and kernel guarantee: a number at a level fits the bits of the level, the L2
\* cache is shared by whole cores, CPUID reports the bits of the cores (leaf 0x1F with at least
\* one), and the process runs on a CPU that is listed
WellFormed(m) ==
  LET w == m.layout
  IN /\ m.model \in SupportedCPUModels \cup {OtherModel}
     /\ {w.smt, w.core, w.die, w.l2} \subseteq Nat /\ w.smt <= w.l2
     /\ IF w.leaf1F THEN w.core > 0 ELSE w.coreReported
     /\ \A c \in CPUs : LET p == m.place[c]
                       IN /\ p.thread \in 0 .. 2^w.smt - 1 /\ p.core \in 0 .. 2^w.core - 1
                          /\ p.die \in 0 .. 2^w.die - 1 /\ p.package \in Nat
     /\ m.listed \subseteq CPUs /\ m.listed \cap m.allowed # {}

ASSUME MachinesAssumption == \A m \in Machines : WellFormed(m)

\* leaf 0x1F: the domains in order with the shift to the next one; <<>> when max_cpuid is lower
Levels(m) ==
  LET w == m.layout
  IN IF ~w.leaf1F THEN <<>>
     ELSE <<<<"LogicalProcessor", w.smt>>, <<"Core", w.smt + w.core>>>>
          \o (IF w.die > 0 THEN <<<<"Die", w.smt + w.core + w.die>>>> ELSE <<>>)

\* the bit range of a domain is everything from the previous level's shift to its own
topologyDomain(m, type) ==
  LET l == CHOOSE i \in DOMAIN Levels(m) : Levels(m)[i][1] = type
  IN [lo |-> IF l = 1 THEN 0 ELSE Levels(m)[l - 1][2], next |-> Levels(m)[l][2]]

HasDomain(m, type) == \E l \in DOMAIN Levels(m) : Levels(m)[l][1] = type

PackageShift(m) == Levels(m)[Len(Levels(m))][2]

\* extract_bits_32(id, lo, next - 1).  For a level without bits the bounds come reversed and are
\* swapped back, and next - 1 = -1 is the unsigned bound that means every bit.
getID(m, id, type) ==
  IF ~HasDomain(m, type) THEN 0
  ELSE LET d == topologyDomain(m, type)
       IN IF d.next > d.lo THEN Bits(id, d.lo, d.next - 1)
          ELSE IF d.lo > 0 THEN Bits(id, d.lo - 1, d.lo) ELSE id

\* leaf 0xB: smtMaskWidth and coreMaskWidth, the second one up to the package
initCoreMasks(m) ==
  LET w == m.layout
  IN IF w.coreReported THEN [smt |-> w.smt, core |-> w.core + w.die]
     ELSE [smt |-> w.smt, core |-> w.smt]

populateEntry(m, c) ==
  LET id == APICID(m, c)
      mask == initCoreMasks(m)
      fromLeaf1F == [thread |-> getID(m, id, "LogicalProcessor"), core |-> getID(m, id, "Core"),
                     tile |-> Above(id, m.layout.l2), die |-> getID(m, id, "Die"),
                     socket |-> Above(id, PackageShift(m))]
      fillEntry == [thread |-> IF mask.smt > 0 THEN Bits(id, 0, mask.smt - 1) ELSE 0,
                    core |-> IF mask.core > 0 THEN Bits(id, mask.smt, mask.smt + mask.core - 1)
                             ELSE 0,
                    tile |-> Above(id, m.layout.l2), die |-> -1,
                    socket |-> Above(id, mask.smt + mask.core)]
  IN IF m.layout.leaf1F THEN fromLeaf1F ELSE fillEntry

\* mutant: core ids are taken to be unique in a socket
SameCoreId(a, b) == a.core = b.core /\ a.socket = b.socket

isSameCore(a, b) ==
  /\ a.core = b.core /\ a.tile = b.tile /\ a.die = b.die /\ a.socket = b.socket

-----------------------------------------------------------------------------
good == MSR # <<>>

isCoreOnline(c) == topology[c] # NoEntry

Online == {c \in CPUs : isCoreOnline(c)}

\* an early return of the constructor, or an exception that leaves it
Return == pc' = "returned"
Throw == pc' = "threw"

\* vPMU: a virtual machine without arch_perfmon is refused unless the user insists
detectModel ==
  /\ pc = "detectModel"
  /\ cpu_family_model' = machine.model
  /\ IF machine.vpmu THEN pc' = "checkModel" ELSE Return
  /\ UNCHANGED <<machine, topology, systemTopology, offlined, threads_per_core, num_sockets,
                 num_phys_cores_per_socket, socketRefCore, MSR, energy>>

\* checkModel followed by initCStateSupportTables
checkModel ==
  /\ pc = "checkModel"
  /\ cpu_family_model' = checkModelAlias(cpu_family_model)
  /\ IF isCPUModelSupported(cpu_family_model') THEN pc' = "topology" ELSE Return
  /\ UNCHANGED <<machine, topology, systemTopology, offlined, threads_per_core, num_sockets,
                 num_phys_cores_per_socket, socketRefCore, MSR, energy>>

\* one entry per processor of /proc/cpuinfo; a CPU the process may not run on is marked offline
RawTopology(m) ==
  [c \in CPUs |-> IF c \in m.listed \cap m.allowed THEN populateEntry(m, c) ELSE NoEntry]

\* std::map socketIdMap: package numbers in ascending order become 0, 1, ...
SocketIndex(raw, s) ==
  Cardinality({raw[c].socket : c \in {d \in CPUs : raw[d] # NoEntry /\ raw[d].socket < s}})

LogicalSockets(raw) ==
  [c \in CPUs |-> IF raw[c] = NoEntry THEN NoEntry
                  ELSE [raw[c] EXCEPT !.socket = SocketIndex(raw, raw[c].socket)]]

\* the longest run of entries of one core in the sorted topology
ThreadsPerCore(topo) ==
  Max({Cardinality({d \in CPUs : topo[d] # NoEntry /\ isSameCore(topo[d], topo[c])}) :
         c \in {d \in CPUs : topo[d] # NoEntry}})

\* SystemRoot::addThread for CPU 0, 1, ...: a Core object holds the CPUs whose entries compare
\* equal to its first thread's
CoreObjects(topo) ==
  LET leads == {c \in CPUs : /\ topo[c] # NoEntry
                             /\ \A d \in 0 .. c - 1 : topo[d] = NoEntry \/ ~isSameCore(topo[d], topo[c])}
  IN {[socket |-> topo[c].socket,
       threads |-> {d \in CPUs : topo[d] # NoEntry /\ isSameCore(topo[d], topo[c])}] : c \in leads}

discoverSystemTopologyFails ==    \* CPUID leaf 0xB, /sys/.../present or /proc/cpuinfo is missing
  /\ pc = "topology"
  /\ Return
  /\ UNCHANGED <<machine, cpu_family_model, topology, systemTopology, offlined, threads_per_core,
                 num_sockets, num_phys_cores_per_socket, socketRefCore, MSR, energy>>

discoverSystemTopology ==
  LET topo == LogicalSockets(RawTopology(machine))
      online == {c \in CPUs : topo[c] # NoEntry}
      sockets == {topo[c].socket : c \in online}
      tpc == ThreadsPerCore(topo)
  IN /\ pc = "topology"
     /\ topology' = topo
     /\ num_sockets' = Cardinality(sockets)
     /\ threads_per_core' = tpc
     /\ num_phys_cores_per_socket' =
          IF online = CPUs THEN (Cardinality(CPUs) \div Cardinality(sockets)) \div tpc ELSE 0
     \* Core::addHyperThreadInfo throws for a thread id that threads_per_core does not allow
     /\ IF \E c \in online : topo[c].thread >= tpc
        THEN Throw /\ UNCHANGED <<systemTopology, offlined, socketRefCore>>
        ELSE /\ pc' = "initMSR"
             /\ systemTopology' = CoreObjects(topo)
             /\ offlined' = CPUs \ online
             /\ socketRefCore' = [s \in sockets |-> Max({c \in online : topo[c].socket = s})]
     /\ UNCHANGED <<machine, cpu_family_model, MSR, energy>>

initMSR ==
  /\ pc = "initMSR"
  /\ \/ MSR' = [c \in CPUs |-> isCoreOnline(c)] /\ pc' = "frequency"
     \/ MSR' = <<>> /\ Return                   \* a handle could not be opened
  /\ UNCHANGED <<machine, cpu_family_model, topology, systemTopology, offlined, threads_per_core,
                 num_sockets, num_phys_cores_per_socket, socketRefCore, energy>>

\* mutant: destroyMSR is forgotten
FrequencyUnknown ==
  /\ pc = "frequency"
  /\ pc' = "energy" \/ Return
  /\ UNCHANGED <<machine, cpu_family_model, topology, systemTopology, offlined, threads_per_core,
                 num_sockets, num_phys_cores_per_socket, socketRefCore, MSR, energy>>

\* CPUID leaf 0x16, the platform info MSR, the brand string and a measurement, in this order;
\* the frequency matters only in that none of them may have given one
detectNominalFrequency ==
  /\ pc = "frequency"
  /\ \/ pc' = "energy" /\ UNCHANGED MSR
     \/ MSR' = <<>> /\ Return                   \* destroyMSR
  /\ UNCHANGED <<machine, cpu_family_model, topology, systemTopology, offlined, threads_per_core,
                 num_sockets, num_phys_cores_per_socket, socketRefCore, energy>>

\* the socket of the first CPU in the node's cpulist; a node is a package here
mapNUMANodeToSocket(node) ==
  LET cpus == {c \in machine.listed : machine.place[c].package = node}
  IN IF cpus = {} THEN -1 ELSE topology[Min(cpus)].socket

Platform == [model |-> cpu_family_model, stepping |-> machine.stepping, sockets |-> num_sockets,
             ports |-> 0, hbm |-> FALSE]

PerSocket == [s \in 0 .. num_sockets - 1 |-> socketRefCore[s]]

initEnergyMonitoring ==
  /\ pc = "energy"
  /\ pc' = "initRDT"
  /\ energy' = [pkg |-> IF packageEnergyMetricsAvailable(cpu_family_model) THEN PerSocket ELSE <<>>,
                dram |-> IF packageEnergyMetricsAvailable(cpu_family_model)
                            /\ dramEnergyMetricsAvailable(cpu_family_model) THEN PerSocket ELSE <<>>,
                pp |-> IF ppEnergyMetricsAvailable(Platform)
                       THEN <<socketRefCore[0], socketRefCore[0]>> ELSE <<>>,
                sys |-> IF systemEnergyMetricAvailable(cpu_family_model) THEN <<socketRefCore[0]>>
                        ELSE <<>>]
  /\ UNCHANGED <<machine, cpu_family_model, topology, systemTopology, offlined, threads_per_core,
                 num_sockets, num_phys_cores_per_socket, socketRefCore, MSR>>

StartupInit ==
  /\ machine \in Machines
  /\ pc = "detectModel"
  /\ cpu_family_model = "none"
  /\ topology = [c \in CPUs |-> NoEntry]
  /\ systemTopology = {} /\ offlined = {}
  /\ threads_per_core = 0 /\ num_sockets = 0 /\ num_phys_cores_per_socket = 0
  /\ socketRefCore = <<>> /\ MSR = <<>> /\ energy = NoEnergy

StartupNext ==
  \/ detectModel \/ checkModel \/ discoverSystemTopologyFails \/ discoverSystemTopology
  \/ initMSR \/ detectNominalFrequency \/ initEnergyMonitoring
-----------------------------------------------------------------------------
Steps == {"detectModel", "checkModel", "topology", "initMSR", "frequency", "energy", "initRDT",
          "ready", "returned", "threw"}
Discovered == pc \in {"initMSR", "frequency", "energy", "initRDT", "ready"}

StartupTypeOK ==
  /\ pc \in Steps
  /\ cpu_family_model \in SupportedCPUModels \cup {"none", OtherModel}
  /\ DOMAIN topology = CPUs /\ offlined \subseteq CPUs
  /\ threads_per_core \in Nat /\ num_sockets \in Nat /\ num_phys_cores_per_socket \in Nat
  /\ MSR \in {<<>>} \cup [CPUs -> BOOLEAN]

(***************************************************************************)
(* A constructor that gives up, at whichever step, leaves an object that   *)
(* says so: good() is false, so no tool programs a PMU with half of the    *)
(* tables; and an object that calls itself good has been built to the end  *)
(* (PCM::PCM, its early returns, destroyMSR).                              *)
(***************************************************************************)
ReadyOrNothing ==
  /\ StartupTypeOK
  /\ pc \in {"returned", "threw"} => ~good
  /\ pc = "ready" => good /\ Discovered

\* The tables that are consulted later without a test, for model m on platform p
TablesServe(m, p) ==
  LET tables == {pkgCStateMsr(m), coreCStateMsr(m)}
  IN /\ getMaxIPC(m) > 0
     /\ m \in HasCodename
     /\ pkgCStateMsr(m) # {}
     /\ coreCStateMsr(m) = {} => m \in {"ATOM", "CENTERTON"}
     /\ \A t \in tables : \A x, y \in t : x[2] = y[2] => x = y
     /\ \A x \in pkgCStateMsr(m), y \in coreCStateMsr(m) : x[2] # y[2]
     /\ dramEnergyMetricsAvailable(m) => packageEnergyMetricsAvailable(m)
     /\ PMMMemoryModeMetricsAvailable(p) => PMMTrafficMetricsAvailable(p)
     /\ hasUPI(m) => hasCHA(m) /\ IIOEventsAvailable(m)
     /\ hasPCICFGUncore(m) \/ hasBecktonUncore(m) => isServerCPU(m)
     /\ getPCUFrequency(m) > 0 => hasPCICFGUncore(m)
     /\ hasClientMCCounters(m) => ~isServerCPU(m)

(***************************************************************************)
(* A model that checkModel lets pass is known to all the tables that are   *)
(* consulted without a test later: getMaxIPC does not run into its         *)
(* assertion, the code name is not "unknown", package C-states are shown   *)
(* with one register each, and the metrics build on each other: DRAM       *)
(* energy on package energy, memory mode on PMM traffic, UPI on CHAs, and  *)
(* server uncore PMUs only on server parts.                                *)
(***************************************************************************)
TablesComplete ==
  pc \notin {"detectModel", "checkModel", "returned"} => TablesServe(cpu_family_model, Platform)

(***************************************************************************)
(* The tree built from APIC ids and the packages, dies, cores and threads  *)
(* the CPUs really belong to agree: two online CPUs share a Core object    *)
(* exactly when they are threads of one core, and a socket number exactly  *)
(* when they are in one package; socket numbers are 0, 1, ... whatever the *)
(* package numbers are; offline CPUs hang in no core; the reference core   *)
(* of a socket, through which its energy counters are read, is an online   *)
(* CPU of that socket (discoverSystemTopology, SystemRoot::addThread,      *)
(* initEnergyMonitoring, mapNUMANodeToSocket).                             *)
(***************************************************************************)
TopologyFaithful ==
  Discovered =>
    LET place == machine.place
        SamePackage(c, d) == place[c].package = place[d].package
        SameCore(c, d) == SamePackage(c, d) /\ place[c].die = place[d].die
                                            /\ place[c].core = place[d].core
        Together(c, d) == \E core \in systemTopology : {c, d} \subseteq core.threads
    IN /\ Online = machine.listed \cap machine.allowed /\ offlined = CPUs \ Online
       /\ UNION {core.threads : core \in systemTopology} = Online
       /\ \A c, d \in Online :
            /\ Together(c, d) <=> SameCore(c, d)
            /\ topology[c].socket = topology[d].socket <=> SamePackage(c, d)
       /\ {topology[c].socket : c \in Online} = 0 .. num_sockets - 1
       /\ \A s \in 0 .. num_sockets - 1 : topology[socketRefCore[s]].socket = s
       /\ \A s \in DOMAIN energy.pkg : MSR[energy.pkg[s]]
       /\ \A c \in Online :
            mapNUMANodeToSocket(place[c].package) \in {-1, topology[c].socket}

\* Every thread id is below the number of threads per core that was found, as
\* Core::addHyperThreadInfo demands.
ThreadIdsFit == pc # "threw"

\* An instance is ready with all its tables, or nothing of it is left.
StartsComplete == ReadyOrNothing /\ TablesComplete

=============================================================================
