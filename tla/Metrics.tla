------------------------------- MODULE Metrics -------------------------------
(***************************************************************************)
(* What the metrics of cpucounters.h say about the machine.                 *)
(*                                                                         *)
(* program() chooses, by CPU model and number of counters, the events of    *)
(* the general purpose counters and the metrics that are available; samples *)
(* are added up from cores to sockets and to the system; a metric of two    *)
(* samples picks counters by position and combines them.  The three steps   *)
(* are separate tables by CPU model, and nothing but convention holds them  *)
(* together.                                                               *)
(*                                                                         *)
(* The machine is a set of cores in sockets that do one activity after the  *)
(* other: a load that is served by one of the caches or by memory, a pause, *)
(* an issue slot of some category, a transfer of an uncore box.  How often  *)
(* each happened is the truth the metrics are compared with.  Counters are  *)
(* frozen while a core is read (see CoreCounters), so a sample is taken in  *)
(* one step; their width and overflow are CoreCounters' subject.            *)
(***************************************************************************)
EXTENDS CpuModels, Sequences, FiniteSets, FiniteSetsExt

CONSTANTS MetricPlatforms,   \* platforms with the fields gen (core_gen_counter_num_max), threads, tma
          MaxActivities      \* bound: activities of the whole machine

ASSUME ActivitiesAssumption == MaxActivities \in Nat /\ \A p \in MetricPlatforms : p.gen \in 2 .. 8

VARIABLES plat,        \* the platform
          eventsOf,    \* the events of the general purpose counters, coreEventDesc
          available,   \* the metrics whose ...Available flag is set
          did,         \* what the cores did: a set of occurrences [who, what, nr]
          moved,       \* what the uncore of the sockets did, likewise
          first        \* did and moved when the earlier sample was taken

metricVars == <<plat, eventsOf, available, did, moved, first>>

Threads == 1 .. 2
Packages(p) == 0 .. p.sockets - 1
PackageOf(p, c) == IF c = 2 THEN p.sockets - 1 ELSE 0
\* the occurrences in t by someone in S of something in X
Count(t, S, X) == Cardinality({o \in t : o.who \in S /\ o.what \in X})
\* t with what happening once more to who
Happened(t, who, what) == t \cup {[who |-> who, what |-> what, nr |-> Count(t, {who}, {what}) + 1]}

-----------------------------------------------------------------------------
(* Activities and the hardware events that count them.                      *)

TwoLevels(m) == isAtom(m) \/ m = "KNL"
Loads(m) == IF TwoLevels(m) THEN {"L2Hit", "L3Miss"} ELSE {"L2Hit", "L3NoSnoop", "L3Snoop", "L3Miss"}
IssueSlots == {"FetchLat", "FetchBW", "BrMispred", "MachClear", "Mem", "Core", "Heavy", "Light"}
Activities == {"L2Hit", "L3NoSnoop", "L3Snoop", "L3Miss", "Pause", "Boost", "Local", "Remote", "SMI"} \cup IssueSlots
Happens(m) == Loads(m) \cup (Activities \ {"L2Hit", "L3NoSnoop", "L3Snoop", "L3Miss"})

BeyondL2 == {"L3NoSnoop", "L3Snoop", "L3Miss"}
AnyLoad == BeyondL2 \cup {"L2Hit"}

\* the loads an event counts; the last level cache of TwoLevels is the L2
CountedBy(e, m) ==
  CASE e = "ARCH_LLC_MISS" -> IF TwoLevels(m) THEN BeyondL2 ELSE {"L3Miss"}
    [] e = "ARCH_LLC_REFERENCE" -> IF TwoLevels(m) THEN AnyLoad ELSE BeyondL2
    [] e = "HSX_L2_RQSTS_REFERENCES" -> AnyLoad
    [] e \in {"HSX_L2_RQSTS_MISS", "MEM_LOAD_RETIRED_L2_MISS"} -> BeyondL2
    [] e = "MEM_LOAD_RETIRED_L2_HIT" -> {"L2Hit"}
    [] e = "MEM_LOAD_RETIRED_L3_MISS" -> {"L3Miss"}
    [] e = "MEM_LOAD_RETIRED_L3_HIT" -> {"L3NoSnoop", "L3Snoop"}
    [] e = "MEM_LOAD_RETIRED_L3_UNSHAREDHIT" -> {"L3NoSnoop"}
    [] e = "MEM_LOAD_RETIRED_L2_HITM" -> {"L3Snoop"}
    [] e = "CUSTOM" -> {"L3Snoop", "L2Hit"}

-----------------------------------------------------------------------------
(* program(): events and available metrics.                                 *)

LLCArchEventInit == <<"ARCH_LLC_MISS", "ARCH_LLC_REFERENCE">>
SkylakeEvents ==
  <<"MEM_LOAD_RETIRED_L3_MISS", "MEM_LOAD_RETIRED_L3_HIT", "MEM_LOAD_RETIRED_L2_MISS", "MEM_LOAD_RETIRED_L2_HIT">>
TremontEvents == LLCArchEventInit \o <<"MEM_LOAD_RETIRED_L2_MISS", "MEM_LOAD_RETIRED_L2_HIT">>
SnoopEvents(first0) ==
  <<first0, "MEM_LOAD_RETIRED_L3_UNSHAREDHIT", "MEM_LOAD_RETIRED_L2_HITM", "MEM_LOAD_RETIRED_L2_HIT">>

L3Metrics == {"L3HitRatio", "L3Misses", "L3Hits"}
AllMetrics == L3Metrics \cup {"L2HitRatio", "L2Misses", "L2Hits", "L3HitsSnoop"}
Plan(events, metrics) == [events |-> events, metrics |-> metrics]
FirstOf(n, events) == SubSeq(events, 1, n)

ErrataPlan(m) ==
  IF m \in {"HASWELL", "HASWELLX"}
  THEN Plan(LLCArchEventInit \o <<"HSX_L2_RQSTS_MISS", "HSX_L2_RQSTS_REFERENCES">>,
            L3Metrics \cup {"L2HitRatio", "L2Misses", "L2Hits"})
  ELSE Plan(LLCArchEventInit, L3Metrics \cup {"L2Misses"})

HybridModels == {"ADL", "RPL", "MTL", "LNL", "ARL", "PTL"}
TremontModels == {"SNOWRIDGE", "ELKHART_LAKE", "JASPER_LAKE", "GRR", "SRF"}

SkylakePlan(gen) ==
  CASE gen = 2 -> Plan(FirstOf(2, SkylakeEvents), L3Metrics \cup {"L3HitsSnoop"})
    [] gen = 3 -> Plan(FirstOf(3, SkylakeEvents), L3Metrics \cup {"L3HitsSnoop", "L2Misses"})
    [] OTHER -> Plan(SkylakeEvents, AllMetrics)

SandyBridgePlan(gen) ==
  IF gen = 3
  THEN Plan(FirstOf(3, SnoopEvents("ARCH_LLC_MISS")), L3Metrics \cup {"L2Misses", "L3HitsNoSnoop", "L3HitsSnoop"})
  ELSE Plan(SnoopEvents("ARCH_LLC_MISS"), AllMetrics \cup {"L3HitsNoSnoop"})

DefaultPlan(p) ==
  CASE TwoLevels(p.model) -> Plan(LLCArchEventInit, {"L2HitRatio", "L2Misses", "L2Hits"})
    [] ~TwoLevels(p.model) /\ memoryEventErrata(p.model) -> ErrataPlan(p.model)
    [] p.model \in HybridModels \cup TremontModels -> Plan(TremontEvents, AllMetrics)
    [] useSkylakeEvents(p.model) -> SkylakePlan(p.gen)
    [] p.model \in {"SANDY_BRIDGE", "JAKETOWN", "IVYTOWN", "IVY_BRIDGE", "HASWELL", "HASWELLX", "BROADWELL", "BDX_DE",
                    "BDX"} -> SandyBridgePlan(p.gen)
    [] p.model \in {"NEHALEM_EP", "WESTMERE_EP", "CLARKDALE"} ->
         Plan(SnoopEvents("MEM_LOAD_RETIRED_L3_MISS"), AllMetrics \cup {"L3HitsNoSnoop"})
    [] OTHER -> Plan(SnoopEvents("ARCH_LLC_MISS"), AllMetrics \cup {"L3HitsNoSnoop"})

CustomEvents(p) ==
  FirstOf(IF TwoLevels(p.model) THEN 2 ELSE IF p.gen > 3 THEN 4 ELSE 3, <<"CUSTOM", "CUSTOM", "CUSTOM", "CUSTOM">>)

-----------------------------------------------------------------------------
(* Samples.                                                                 *)

\* CPUID and IA32_PERF_CAPABILITIES say whether there are slot counters
isHWTMAL1Supported(p) == p.tma
isHWTMAL2Supported(p) == p.tma /\ p.model \in {"SPR", "EMR", "GNR", "GNR_D"}

L1Slots == {"FrontendBound", "BadSpeculation", "BackendBound", "Retiring"}
L2Slots == {"MemBound", "FetchLat", "BrMispred", "HeavyOps"}
SlotsIn(k) ==
  CASE k = "FrontendBound" -> {"FetchLat", "FetchBW"} [] k = "BadSpeculation" -> {"BrMispred", "MachClear"}
    [] k = "BackendBound" -> {"Mem", "Core"} [] k = "Retiring" -> {"Heavy", "Light"}
    [] k = "MemBound" -> {"Mem"} [] k = "FetchLat" -> {"FetchLat"}
    [] k = "BrMispred" -> {"BrMispred"} [] k = "HeavyOps" -> {"Heavy"}
    [] k = "AllSlotsRaw" -> IssueSlots

\* positions of the general purpose counters in Event
Event(i) == CASE i = 0 -> "Event0" [] i = 1 -> "Event1" [] i = 2 -> "Event2" [] i = 3 -> "Event3"
L3MissPos == Event(0)
ArchLLCMissPos == Event(0)
L3UnsharedHitPos == Event(1)
ArchLLCRefPos == Event(1)
SKLL3HitPos == Event(1)
L2HitMPos == Event(2)
SKLL2MissPos == Event(2)
HSXL2MissPos == Event(2)
L2HitPos == Event(3)
HSXL2RefPos == Event(3)

\* the activities that advance a field of BasicCounterState; Boost adds two clocks, see CoreSample
AdvancedBy(f, p, events) ==
  CASE f \in {"InstRetiredAny"} -> AnyLoad
    [] f \in {"CpuClkUnhaltedThread", "CpuClkUnhaltedRef"} -> AnyLoad \cup {"Boost"}
    [] f = "InvariantTSC" -> AnyLoad \cup {"Boost", "Pause"}
    [] f = "CStateResidency6" -> {"Pause"}
    [] f = "MemoryBWLocal" -> {"Local"}
    [] f = "MemoryBWTotal" -> {"Local", "Remote"}
    [] f = "SMICount" -> {"SMI"}
    [] f \in L1Slots \cup {"AllSlotsRaw"} -> IF isHWTMAL1Supported(p) THEN SlotsIn(f) ELSE {}
    [] f \in L2Slots -> IF isHWTMAL2Supported(p) THEN SlotsIn(f) ELSE {}
    [] OTHER -> UNION {CountedBy(events[i + 1], p.model) : i \in {j \in 0 .. Len(events) - 1 : Event(j) = f}}

CoreFields == {"InstRetiredAny", "CpuClkUnhaltedThread", "CpuClkUnhaltedRef", "InvariantTSC", "CStateResidency6",
               "Event0", "Event1", "Event2", "Event3", "MemoryBWLocal", "MemoryBWTotal", "SMICount", "AllSlotsRaw"}
              \cup L1Slots \cup L2Slots

\* BasicCounterState::readAndAggregate of core c
CoreSample(p, events, t, c) ==
  [f \in CoreFields |-> Count(t.did, {c}, AdvancedBy(f, p, events))
                        + IF f = "CpuClkUnhaltedThread" THEN Count(t.did, {c}, {"Boost"}) ELSE 0]

Transfers == {"MCNormalReads", "MCFullWrites", "HARequests", "HALocalRequests", "NMHit", "NMMiss", "PMMReads",
              "PMMWrites", "EDCNormalReads", "EDCFullWrites", "MCGTRequests", "MCIARequests", "MCIORequests",
              "PackageEnergy", "DRAMEnergy", "PPEnergy", "UncClocks", "Incoming0", "Incoming1"}

\* the fields that readAndAggregateUncoreMCCounters and readAndAggregateEnergyCounters fill for a socket
FilledFor(p, s) ==
  {"UncClocks"}
  \cup (IF \/ hasPCICFGUncore(p.model)
           \/ hasClientMCCounters(p.model) /\ s = 0
           \/ p.model \in {"NEHALEM_EP", "WESTMERE_EP", "NEHALEM_EX", "WESTMERE_EX"}
        THEN {"MCNormalReads", "MCFullWrites"} ELSE {})
  \cup (IF hasPCICFGUncore(p.model)
        THEN (IF nearMemoryMetricsAvailable(p.model) THEN {"NMHit", "NMMiss"} ELSE {})
             \cup (IF localMemoryRequestRatioMetricAvailable(p.model) THEN {"HARequests", "HALocalRequests"} ELSE {})
             \cup (IF PMMTrafficMetricsAvailable(p) THEN {"PMMReads", "PMMWrites"} ELSE {})
             \cup (IF p.hbm THEN {"EDCNormalReads", "EDCFullWrites"} ELSE {})
        ELSE IF hasClientMCCounters(p.model) /\ s = 0 THEN {"MCGTRequests", "MCIARequests", "MCIORequests"} ELSE {})
  \cup (IF incomingQPITrafficMetricsAvailable(p) THEN {"Incoming0", "Incoming1"} ELSE {})
  \cup (IF packageEnergyMetricsAvailable(p.model) THEN {"PackageEnergy"} ELSE {})
  \cup (IF dramEnergyMetricsAvailable(p.model) THEN {"DRAMEnergy"} ELSE {})
  \cup (IF s = 0 /\ ppEnergyMetricsAvailable(p) THEN {"PPEnergy"} ELSE {})

UncoreSample(p, t, s) == [f \in Transfers |-> IF f \in FilledFor(p, s) THEN Count(t.moved, {s}, {f}) ELSE 0]

\* mutant: the writes are not added either
UncoreAddWithoutWrites(a, b) ==
  [f \in Transfers |-> IF f \in {"NMHit", "NMMiss", "PPEnergy", "MCFullWrites", "Incoming0", "Incoming1"} THEN a[f] ELSE a[f] + b[f]]
\* UncoreCounterState::operator +=
UncoreAdd(a, b) == [f \in Transfers |-> IF f \in {"NMHit", "NMMiss", "PPEnergy", "Incoming0", "Incoming1"} THEN a[f] ELSE a[f] + b[f]]
\* BasicCounterState::operator +=
BasicAdd(a, b) == [f \in CoreFields |-> a[f] + b[f]]

NoCounts == [f \in CoreFields |-> 0]
NoTransfers == [f \in Transfers |-> 0]

\* the core and uncore counts of a thread, a package and the system at a moment t = [did, moved];
\* getAllCounterStates adds cores to sockets and sockets to the system
CoreState(t, c) == [core |-> CoreSample(plat, eventsOf, t, c)]
SocketState(t, s) ==
  [core |-> FoldSet(LAMBDA c, acc : BasicAdd(acc, CoreSample(plat, eventsOf, t, c)), NoCounts,
                    {c \in Threads : PackageOf(plat, c) = s})]
SystemState(t) ==
  [core |-> FoldSet(LAMBDA s, acc : BasicAdd(acc, SocketState(t, s).core), NoCounts, Packages(plat))]
SocketUncore(t, s) == [uncore |-> UncoreSample(plat, t, s)]
SystemUncore(t) ==
  [uncore |-> FoldSet(LAMBDA s, acc : UncoreAdd(acc, UncoreSample(plat, t, s)), NoTransfers, Packages(plat))]

-----------------------------------------------------------------------------
(* Metrics of two states b and a.  A quotient is a pair; NoValue is -1.     *)

D(f, b, a) == a.core[f] - b.core[f]
U(f, b, a) == a.uncore[f] - b.uncore[f]
NoValue == <<-1, 1>>
Quotient(num, den, otherwise) == IF den = 0 THEN otherwise ELSE <<num, den>>
SameRatio(x, y) == x[1] * y[2] = y[1] * x[2]
IfAvailable(metric, v) == IF metric \in available THEN v ELSE 0
NotNegative(n) == IF n > 0 THEN n ELSE 0

getIPC(b, a) == Quotient(D("InstRetiredAny", b, a), D("CpuClkUnhaltedThread", b, a), NoValue)
getExecUsage(b, a) == Quotient(D("InstRetiredAny", b, a), D("InvariantTSC", b, a), NoValue)
getRelativeFrequency(b, a) == Quotient(D("CpuClkUnhaltedThread", b, a), D("InvariantTSC", b, a), NoValue)
\* in units of the nominal frequency
getAverageFrequencyFromClocks(clocks, b, a) == Quotient(clocks, D("InvariantTSC", b, a), NoValue)
getAverageFrequency(b, a) == getAverageFrequencyFromClocks(D("CpuClkUnhaltedThread", b, a), b, a)
getActiveAverageFrequency(b, a) == Quotient(D("CpuClkUnhaltedThread", b, a), D("CpuClkUnhaltedRef", b, a), NoValue)
PerPhysicalCore(q) == IF q[1] >= 0 THEN <<q[1] * plat.threads, q[2]>> ELSE NoValue
getCoreIPC(b, a) == PerPhysicalCore(getIPC(b, a))
getTotalExecUsage(b, a) == PerPhysicalCore(getExecUsage(b, a))
getSMICount(b, a) == D("SMICount", b, a)
getActiveRelativeFrequency(b, a) ==
  IF isAtom(plat.model) THEN NoValue
  ELSE Quotient(D("CpuClkUnhaltedThread", b, a), D("CpuClkUnhaltedRef", b, a), NoValue)

getL3CacheMisses(b, a) == IfAvailable("L3Misses", D(L3MissPos, b, a))

\* mutant: the Tremont servers were not added to the first branch
L2MissesWithoutTremont(b, a) ==
  IfAvailable("L2Misses",
    CASE useSkylakeEvents(plat.model) \/ plat.model \in HybridModels -> D(SKLL2MissPos, b, a)
      [] TwoLevels(plat.model) -> D(ArchLLCMissPos, b, a)
      [] memoryEventErrata(plat.model) -> D(ArchLLCRefPos, b, a)
      [] OTHER -> D(L2HitMPos, b, a) + D(L3UnsharedHitPos, b, a) + D(L3MissPos, b, a))
getL2CacheMisses(b, a) ==
  IfAvailable("L2Misses",
    CASE useSkylakeEvents(plat.model) \/ plat.model \in HybridModels \cup TremontModels -> D(SKLL2MissPos, b, a)
      [] TwoLevels(plat.model) -> D(ArchLLCMissPos, b, a)
      [] memoryEventErrata(plat.model) -> D(ArchLLCRefPos, b, a)
      [] OTHER -> D(L2HitMPos, b, a) + D(L3UnsharedHitPos, b, a) + D(L3MissPos, b, a))

getL2CacheHits(b, a) ==
  IfAvailable("L2Hits",
    CASE TwoLevels(plat.model) -> D(ArchLLCRefPos, b, a) - D(ArchLLCMissPos, b, a)
      [] ~TwoLevels(plat.model) /\ memoryEventErrata(plat.model) ->
           NotNegative(D(HSXL2RefPos, b, a) - D(HSXL2MissPos, b, a))
      [] OTHER -> D(L2HitPos, b, a))

getL3CacheHitsNoSnoop(b, a) == IfAvailable("L3HitsNoSnoop", D(L3UnsharedHitPos, b, a))

getL3CacheHitsSnoop(b, a) ==
  IfAvailable("L3HitsSnoop",
    CASE plat.model \in HybridModels \cup TremontModels -> NotNegative(D(ArchLLCRefPos, b, a) - getL3CacheMisses(b, a))
      [] useSkylakeEvents(plat.model) -> D(SKLL3HitPos, b, a)
      [] OTHER -> D(L2HitMPos, b, a))

getL3CacheHits(b, a) ==
  IfAvailable("L3Hits",
    IF memoryEventErrata(plat.model) THEN NotNegative(D(ArchLLCRefPos, b, a) - D(ArchLLCMissPos, b, a))
    ELSE getL3CacheHitsSnoop(b, a) + getL3CacheHitsNoSnoop(b, a))

getL2CacheHitRatio(b, a) ==
  IF "L2HitRatio" \notin available THEN <<0, 1>>
  ELSE IF memoryEventErrata(plat.model) THEN Quotient(getL2CacheHits(b, a), D(HSXL2RefPos, b, a), <<0, 1>>)
  ELSE Quotient(getL2CacheHits(b, a), getL2CacheHits(b, a) + getL2CacheMisses(b, a), <<0, 1>>)

getL3CacheHitRatio(b, a) ==
  IF "L3HitRatio" \notin available THEN <<0, 1>>
  ELSE Quotient(getL3CacheHits(b, a), getL3CacheHits(b, a) + getL3CacheMisses(b, a), <<0, 1>>)

getLocalMemoryBW(b, a) == D("MemoryBWLocal", b, a)
getRemoteMemoryBW(b, a) == NotNegative(D("MemoryBWTotal", b, a) - getLocalMemoryBW(b, a))

\* the time in C1 is what is left of the interval
getCoreCStateResidency(state, b, a) ==
  CASE state = 0 -> Quotient(D("CpuClkUnhaltedRef", b, a), D("InvariantTSC", b, a), NoValue)
    [] state = 1 -> Quotient(NotNegative(D("InvariantTSC", b, a) - D("CpuClkUnhaltedRef", b, a) - D("CStateResidency6", b, a)),
                             D("InvariantTSC", b, a), NoValue)
    [] state = 6 -> Quotient(D("CStateResidency6", b, a), D("InvariantTSC", b, a), NoValue)

getAllSlots(b, a) ==
  D("BackendBound", b, a) + D("FrontendBound", b, a) + D("BadSpeculation", b, a) + D("Retiring", b, a)
L1Bound(k, b, a) == IF isHWTMAL1Supported(plat) THEN <<D(k, b, a), getAllSlots(b, a)>> ELSE <<0, 1>>
L2Bound(k, b, a) == IF isHWTMAL2Supported(plat) THEN <<D(k, b, a), getAllSlots(b, a)>> ELSE <<0, 1>>
RestOf(k, part, b, a) ==
  IF isHWTMAL2Supported(plat) THEN <<L1Bound(k, b, a)[1] - L2Bound(part, b, a)[1], getAllSlots(b, a)>> ELSE <<0, 1>>
getBackendBound(b, a) == L1Bound("BackendBound", b, a)
getMemoryBound(b, a) == L2Bound("MemBound", b, a)
getCoreBound(b, a) == RestOf("BackendBound", "MemBound", b, a)
getFrontendBound(b, a) == L1Bound("FrontendBound", b, a)
getFetchLatencyBound(b, a) == L2Bound("FetchLat", b, a)
getFetchBandwidthBound(b, a) == RestOf("FrontendBound", "FetchLat", b, a)
getBadSpeculation(b, a) == L1Bound("BadSpeculation", b, a)
getBranchMispredictionBound(b, a) == L2Bound("BrMispred", b, a)
getMachineClearsBound(b, a) == RestOf("BadSpeculation", "BrMispred", b, a)
getRetiring(b, a) == L1Bound("Retiring", b, a)
getHeavyOperationsBound(b, a) == L2Bound("HeavyOps", b, a)
getLightOperationsBound(b, a) == RestOf("Retiring", "HeavyOps", b, a)

BytesOf(cond, f, size, b, a) == IF cond THEN U(f, b, a) * size ELSE 0
getBytesReadFromMC(b, a) == BytesOf(memoryTrafficMetricsAvailable(plat.model), "MCNormalReads", 64, b, a)
getBytesWrittenToMC(b, a) == BytesOf(memoryTrafficMetricsAvailable(plat.model), "MCFullWrites", 64, b, a)
getNMHits(b, a) == BytesOf(nearMemoryMetricsAvailable(plat.model), "NMHit", 1, b, a)
getNMMissBW(b, a) == BytesOf(nearMemoryMetricsAvailable(plat.model), "NMMiss", 64 * 2, b, a)
getBytesReadFromPMM(b, a) == BytesOf(PMMTrafficMetricsAvailable(plat), "PMMReads", 64, b, a)
getBytesWrittenToPMM(b, a) == BytesOf(PMMTrafficMetricsAvailable(plat), "PMMWrites", 64, b, a)
getHBMCASTransferSize(m) == IF m = "SPR" THEN 32 ELSE 64
getBytesReadFromEDC(b, a) == BytesOf(plat.hbm, "EDCNormalReads", getHBMCASTransferSize(plat.model), b, a)
getBytesWrittenToEDC(b, a) == BytesOf(plat.hbm, "EDCFullWrites", getHBMCASTransferSize(plat.model), b, a)
getGTRequestBytesFromMC(b, a) == BytesOf(memoryIOTrafficMetricAvailable(plat.model), "MCGTRequests", 64, b, a)
getIARequestBytesFromMC(b, a) == BytesOf(memoryIOTrafficMetricAvailable(plat.model), "MCIARequests", 64, b, a)
getIORequestBytesFromMC(b, a) == BytesOf(memoryIOTrafficMetricAvailable(plat.model), "MCIORequests", 64, b, a)
getConsumedEnergy(b, a) == U("PackageEnergy", b, a)
getDRAMConsumedEnergy(b, a) == U("DRAMEnergy", b, a)
getUncoreClocks(b, a) == U("UncClocks", b, a)

\* incomingQPIPackets are kept by socket and link in the system state
Link(l) == IF l = 0 THEN "Incoming0" ELSE "Incoming1"
getIncomingQPILinkBytes(s, l) ==
  IF incomingQPITrafficMetricsAvailable(plat)
  THEN 64 * NotNegative(U(Link(l), SocketUncore(first, s), SocketUncore([did |-> did, moved |-> moved], s))) ELSE 0
getSocketIncomingQPILinkBytes(s) == MapThenSumSet(LAMBDA l : getIncomingQPILinkBytes(s, l), {0, 1})
getAllIncomingQPILinkBytes == MapThenSumSet(getSocketIncomingQPILinkBytes, Packages(plat))

getNumberOfCustomEvents(i, b, a) == D(Event(i), b, a)

-----------------------------------------------------------------------------
(* Behaviour.                                                               *)

\* everything has happened once on core 1 and socket 0 before the first sample
Before(p) == [did |-> [who : {1}, what : Happens(p.model), nr : {1}], moved |-> [who : {0}, what : Transfers, nr : {1}]]
Programmed == eventsOf # <<>>
Now == [did |-> did, moved |-> moved]
Since(t) == Cardinality(did \ t.did) + Cardinality(moved \ t.moved)

MetricsInit ==
  /\ plat \in MetricPlatforms
  /\ eventsOf = <<>> /\ available = {}
  /\ first = Before(plat)
  /\ did = first.did /\ moved = first.moved

ProgramDefaultEvents ==
  /\ ~Programmed
  /\ eventsOf' = DefaultPlan(plat).events
  /\ available' = DefaultPlan(plat).metrics
  /\ UNCHANGED <<plat, did, moved, first>>

ProgramCustomEvents ==
  /\ ~Programmed
  /\ eventsOf' = CustomEvents(plat)
  /\ UNCHANGED <<plat, available, did, moved, first>>

\* core and uncore counts are independent: a behaviour has activities of one kind
Works(c, x) ==
  /\ Programmed /\ moved = first.moved /\ Since(first) < MaxActivities
  /\ did' = Happened(did, c, x)
  /\ UNCHANGED <<plat, eventsOf, available, moved, first>>

Moves(s, f) ==
  /\ Programmed /\ did = first.did /\ Since(first) < MaxActivities
  /\ moved' = Happened(moved, s, f)
  /\ UNCHANGED <<plat, eventsOf, available, did, first>>

MetricsNext ==
  \/ ProgramDefaultEvents \/ ProgramCustomEvents
  \/ \E c \in Threads, x \in Happens(plat.model) : Works(c, x)
  \/ \E s \in Packages(plat), f \in Transfers : Moves(s, f)

MetricsSpec == MetricsInit /\ [][MetricsNext]_metricVars

-----------------------------------------------------------------------------
(* Properties.                                                              *)

\* what the threads in S did of the activities in X since the earlier sample
Truth(S, X) == Count(did \ first.did, S, X)

CacheExact(b, a, S) ==
  /\ "L2Hits" \in available => getL2CacheHits(b, a) = Truth(S, {"L2Hit"})
  /\ "L2Misses" \in available => getL2CacheMisses(b, a) = Truth(S, BeyondL2)
  /\ "L3Misses" \in available => getL3CacheMisses(b, a) = Truth(S, {"L3Miss"})
  /\ "L3Hits" \in available => getL3CacheHits(b, a) = Truth(S, {"L3NoSnoop", "L3Snoop"})
  /\ "L2HitRatio" \in available /\ Truth(S, AnyLoad) > 0 =>
       SameRatio(getL2CacheHitRatio(b, a), <<Truth(S, {"L2Hit"}), Truth(S, AnyLoad)>>)
  /\ "L3HitRatio" \in available /\ Truth(S, BeyondL2) > 0 =>
       SameRatio(getL3CacheHitRatio(b, a), <<Truth(S, {"L3NoSnoop", "L3Snoop"}), Truth(S, BeyondL2)>>)

TimeExact(b, a, S) ==
  LET cycles == Truth(S, AnyLoad \cup {"Boost"})
      time == cycles + Truth(S, {"Pause"})
  IN /\ cycles > 0 => /\ SameRatio(getCoreIPC(b, a), <<plat.threads * Truth(S, AnyLoad), cycles + Truth(S, {"Boost"})>>)
                       /\ SameRatio(getActiveAverageFrequency(b, a), <<cycles + Truth(S, {"Boost"}), cycles>>)
     /\ time > 0 => /\ SameRatio(getTotalExecUsage(b, a), <<plat.threads * Truth(S, AnyLoad), time>>)
                     /\ SameRatio(getAverageFrequency(b, a), <<cycles + Truth(S, {"Boost"}), time>>)
                     /\ SameRatio(getRelativeFrequency(b, a), <<cycles + Truth(S, {"Boost"}), time>>)
                     /\ SameRatio(getCoreCStateResidency(0, b, a), <<cycles, time>>)
                     /\ SameRatio(getCoreCStateResidency(1, b, a), <<0, 1>>)
                     /\ SameRatio(getCoreCStateResidency(6, b, a), <<Truth(S, {"Pause"}), time>>)
     /\ cycles > 0 /\ ~isAtom(plat.model) =>
          SameRatio(getActiveRelativeFrequency(b, a), <<cycles + Truth(S, {"Boost"}), cycles>>)
     /\ getLocalMemoryBW(b, a) = Truth(S, {"Local"}) /\ getRemoteMemoryBW(b, a) = Truth(S, {"Remote"})
     /\ getSMICount(b, a) = Truth(S, {"SMI"})

SlotsAttributed(b, a, S) ==
  isHWTMAL1Supported(plat) =>
    /\ getAllSlots(b, a) = Truth(S, IssueSlots)
    /\ getBackendBound(b, a)[1] = Truth(S, {"Mem", "Core"})
    /\ getFrontendBound(b, a)[1] = Truth(S, {"FetchLat", "FetchBW"})
    /\ getBadSpeculation(b, a)[1] = Truth(S, {"BrMispred", "MachClear"})
    /\ getRetiring(b, a)[1] = Truth(S, {"Heavy", "Light"})
    /\ isHWTMAL2Supported(plat) =>
         /\ getMemoryBound(b, a)[1] = Truth(S, {"Mem"}) /\ getCoreBound(b, a)[1] = Truth(S, {"Core"})
         /\ getFetchLatencyBound(b, a)[1] = Truth(S, {"FetchLat"})
         /\ getFetchBandwidthBound(b, a)[1] = Truth(S, {"FetchBW"})
         /\ getBranchMispredictionBound(b, a)[1] = Truth(S, {"BrMispred"})
         /\ getMachineClearsBound(b, a)[1] = Truth(S, {"MachClear"})
         /\ getHeavyOperationsBound(b, a)[1] = Truth(S, {"Heavy"})
         /\ getLightOperationsBound(b, a)[1] = Truth(S, {"Light"})

UnitExact(b, a, S) == CacheExact(b, a, S) /\ TimeExact(b, a, S) /\ SlotsAttributed(b, a, S)

\* Whatever the CPU model and the number of counters: every metric that program() has declared
\* available says what the cores did between the two samples, for a core, a socket and the
\* system, and the events of the caller's own choice are counted in the order it gave them.
CoresExact ==
    /\ \A c \in Threads : UnitExact(CoreState(first, c), CoreState(Now, c), {c})
    /\ \A s \in Packages(plat) :
         UnitExact(SocketState(first, s), SocketState(Now, s), {c \in Threads : PackageOf(plat, c) = s})
    /\ UnitExact(SystemState(first), SystemState(Now), Threads)
    /\ "CUSTOM" = eventsOf[1] => \A i \in 0 .. Len(eventsOf) - 1 :
         getNumberOfCustomEvents(i, SystemState(first), SystemState(Now)) = Truth(Threads, CountedBy("CUSTOM", plat.model))

UncoreMetrics(b, a) ==
  <<getBytesReadFromMC(b, a), getBytesWrittenToMC(b, a), getBytesReadFromPMM(b, a), getBytesWrittenToPMM(b, a),
    getBytesReadFromEDC(b, a), getBytesWrittenToEDC(b, a), getGTRequestBytesFromMC(b, a), getIARequestBytesFromMC(b, a),
    getIORequestBytesFromMC(b, a), getConsumedEnergy(b, a), getDRAMConsumedEnergy(b, a), getUncoreClocks(b, a)>>
NearMemoryMetrics(b, a) == <<getNMHits(b, a), getNMMissBW(b, a)>>

\* the system's metrics M are the sums of those of its sockets
Adds(M(_, _)) ==
  LET system == M(SystemUncore(first), SystemUncore(Now))
      socket == [s \in Packages(plat) |-> M(SocketUncore(first, s), SocketUncore(Now, s))]
  IN \A i \in DOMAIN system : system[i] = MapThenSumSet(LAMBDA s : socket[s][i], Packages(plat))

\* The traffic and energy of the system is that of its sockets taken together, and its link
\* traffic that of all their links (the near memory and power
\* plane counts are left out of operator +=, see NearMemoryOfSystem).
LevelsAgree ==
  /\ Adds(UncoreMetrics)
  /\ incomingQPITrafficMetricsAvailable(plat) =>
       getAllIncomingQPILinkBytes = 64 * Count(moved \ first.moved, Packages(plat), {"Incoming0", "Incoming1"})

\* Two samples of a programmed machine tell what it did in between, core by core, socket by
\* socket and for the system: no metric reads a counter that program() gave to another event
\* on that CPU model, and no sum over sockets leaves a counter out.
MetricsExact == Programmed => CoresExact /\ LevelsAgree

\* The same for near memory: the system-wide counter state has the hits and misses of all sockets.
\* The code does not have this property (README, section 4).
NearMemoryOfSystem == Programmed => Adds(NearMemoryMetrics)
=============================================================================
