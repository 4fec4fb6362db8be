---------------------------- MODULE UncoreEvents ----------------------------
(***************************************************************************)
(* Which event each counter of the server uncore counts, and which event   *)
(* the code that reads the counter takes it for.                           *)
(*                                                                         *)
(* The two are written in different places: src/cpucounters.cpp fills the  *)
(* event select registers in a switch over CPU models per call, and the    *)
(* readers - readAndAggregateUncoreMCCounters and readQPICounters of the   *)
(* library, calculate_bandwidth of pcm-memory, printAll of pcm-power,      *)
(* store_latency_uncore of pcm-latency - index the counters by constants   *)
(* that several events share (READ2, PARTIAL, PMM_READ and MM_MISS_CLEAN   *)
(* are all counter 2).  A process may issue the calls in any order; what a *)
(* call does not program stays as the last one left it.                    *)
(*                                                                         *)
(* An event is <<name, umask>>; the umask is kept where readers depend on  *)
(* it (the DIMM rank) and is 0 elsewhere.                                  *)
(***************************************************************************)
EXTENDS CpuModels, Sequences, FiniteSets, TLC

CONSTANTS Platforms,     \* platform records with a server uncore (hasPCICFGUncore)
          Metrics,       \* the ServerUncoreMemoryMetrics that are asked for
          Ranks,         \* DIMM ranks; -1 is "no rank"
          ImcProfiles,   \* pcm-power -m
          PcuProfiles    \* pcm-power -p

ASSUME PlatformsAssumption == \A p \in Platforms : hasPCICFGUncore(p.model)
ASSUME MetricsAssumption ==
  Metrics \subseteq {"PartialWrites", "Pmem", "PmemMemoryMode", "PmemMixedMode"}

VARIABLES platform,
          slots,       \* box -> counter -> event
          links,       \* the xpiPMUs vector is not empty
          last,        \* the last call: what its caller goes on to read
          reported     \* the last call printed an error and programmed nothing, or not all

eventsVars == <<platform, slots, links, last, reported>>

Ev(name) == <<name, 0>>
Off == Ev("off")

Boxes == {"imc", "edc", "m2m", "ha", "xpi", "cbo", "pcu", "cxlcm", "cxldp"}
Counters(box) == 0 .. (IF box = "cxlcm" THEN 7 ELSE 3)
Cfg(box, f) == [c \in Counters(box) |-> IF c \in DOMAIN f THEN f[c] ELSE Off]
Nothing == [b \in Boxes |-> Cfg(b, <<>>)]

\* ServerUncorePMUs::EventPosition and PCM::EventPosition
READ == 0
WRITE == 1
READ2 == 2
WRITE2 == 3
PARTIAL == 2
PMM_READ == 2
PMM_WRITE == 3
MM_MISS_CLEAN == 2
MM_MISS_DIRTY == 3
NM_HIT == 0
TOR_OCCUPANCY == 0
TOR_INSERTS == 1
REQUESTS_ALL == 2
REQUESTS_LOCAL == 3
CXL_TxC_MEM == 0
CXL_TxC_CACHE == 1
CXL_RxC_MEM == 4
CXL_RxC_CACHE == 5
xPI_TxL0P == 0
xPI_L1 == 2
xPI_CLOCKTICKS == 3

TwoSubchannels(m) == m \in {"GNR", "GNR_D", "GRR", "SRF"}
anyPmem(metrics) == metrics \in {"Pmem", "PmemMixedMode", "PmemMemoryMode"}

----------------------------------------------------------------------------
(* ServerUncorePMUs: what the calls write.                                 *)

ReadWrite == (READ :> Ev("CAS_RD")) @@ (WRITE :> Ev("CAS_WR"))
Subchannel1 == (READ2 :> Ev("CAS_RD_SCH1")) @@ (WRITE2 :> Ev("CAS_WR_SCH1"))
PmmRequests == (PMM_READ :> Ev("PMM_RDQ")) @@ (PMM_WRITE :> Ev("PMM_WPQ"))
TagMisses == (MM_MISS_CLEAN :> Ev("MISS_CLEAN")) @@ (MM_MISS_DIRTY :> Ev("MISS_DIRTY"))

\* the PMM events overwrite what was set before them
ProgramImc(p) ==
  (IF PMMTrafficMetricsAvailable(p) THEN PmmRequests ELSE <<>>)
  @@ (IF TwoSubchannels(p.model) THEN ReadWrite @@ Subchannel1 ELSE ReadWrite)

\* setEvents2_3
Events2_3(metrics) ==
  CASE metrics \in {"PmemMemoryMode", "PmemMixedMode"} -> TagMisses
    [] metrics = "Pmem" -> PmmRequests
    [] OTHER -> PARTIAL :> Ev("PARTIAL")

\* programServerUncoreMemoryMetrics refuses the combination, prints and returns
MemoryRefused(p, metrics, rankA, rankB) ==
  IF rankA < 0 /\ rankB < 0
  THEN \/ TwoSubchannels(p.model) /\ metrics = "PmemMemoryMode"
       \/ /\ ~TwoSubchannels(p.model)
          /\ p.model # "KNL"
          /\ anyPmem(metrics)
          /\ ~PMMTrafficMetricsAvailable(p)
  ELSE \/ rankA < 0 \/ rankA > 7
       \/ p.model \notin {"IVYTOWN", "HASWELLX", "BDX_DE", "BDX", "SKX", "KNL"}

RankEvents(rank, read, write) == (read :> <<"RANK_RD", rank>>) @@ (write :> <<"RANK_WR", rank>>)

MemoryImc(p, metrics, rankA, rankB) ==
  CASE p.model = "KNL" -> ReadWrite
    [] rankA >= 0 ->
         RankEvents(rankA, READ, WRITE)
         @@ (IF rankB >= 0 /\ rankB <= 7 THEN RankEvents(rankB, 2, 3) ELSE <<>>)
    [] TwoSubchannels(p.model) -> ReadWrite @@ Subchannel1
    [] p.model \in {"SNOWRIDGE", "ICX"} /\ metrics = "PmemMemoryMode" ->
         (NM_HIT :> Ev("TAG_HIT")) @@ TagMisses
    [] OTHER -> ReadWrite @@ Events2_3(metrics)

\* the EDC events are set on KNL, SPR and EMR only and programmed where there is HBM
HBMmemoryTrafficMetricsAvailable(p) == p.hbm
Edc(p) == IF p.model \in {"KNL", "SPR", "EMR"} THEN ReadWrite ELSE <<>>

ProgramM2MWithoutGNR(p) ==
  CASE p.model \in {"SPR", "EMR"} ->
         (1 :> Ev("M2M_CLOCKTICKS")) @@ (PMM_READ :> Ev("TO_PMM_RD")) @@ (PMM_WRITE :> Ev("TO_PMM_WR"))
    [] OTHER ->
         (NM_HIT :> Ev("NM_DRD_HIT")) @@ (PMM_READ :> Ev("TO_PMM_RD")) @@ (PMM_WRITE :> Ev("TO_PMM_WR"))
programM2M(p) ==
  CASE p.model \in {"SPR", "EMR"} ->
         (1 :> Ev("M2M_CLOCKTICKS")) @@ (PMM_READ :> Ev("TO_PMM_RD")) @@ (PMM_WRITE :> Ev("TO_PMM_WR"))
    [] p.model \in {"GNR", "GNR_D", "SRF"} ->
         (NM_HIT :> Ev("TAG_HIT")) @@ TagMisses
    [] OTHER ->
         (NM_HIT :> Ev("NM_DRD_HIT")) @@ (PMM_READ :> Ev("TO_PMM_RD")) @@ (PMM_WRITE :> Ev("TO_PMM_WR"))

programHA == (REQUESTS_ALL :> Ev("REQUESTS_ALL")) @@ (REQUESTS_LOCAL :> Ev("REQUESTS_LOCAL"))

programXPI(p) ==
  (xPI_CLOCKTICKS :> Ev("CLOCKTICKS")) @@ (2 :> Ev("TX_FLITS")) @@
  (IF hasUPI(p.model)
   THEN (0 :> Ev("TX_L0")) @@ (1 :> Ev("RX_DATA"))
   ELSE (0 :> Ev("RX_DRS")) @@ (1 :> Ev("RX_NCB")))

initLLCReadMissLatencyEvents(p) ==
  IF LLCReadMissLatencyMetricsAvailable(p)
  THEN (TOR_OCCUPANCY :> Ev("TOR_OCCUPANCY")) @@ (TOR_INSERTS :> Ev("TOR_INSERTS")) ELSE <<>>
initCHARequestEvents(p) ==
  IF localMemoryRequestRatioMetricAvailable(p.model) /\ hasCHA(p.model) THEN programHA ELSE <<>>
programCbo(p) == initLLCReadMissLatencyEvents(p) @@ initCHARequestEvents(p)

programCXLCM ==
  (CXL_RxC_MEM :> Ev("RXC_MEM")) @@ (CXL_TxC_MEM :> Ev("TXC_MEM"))
  @@ (CXL_RxC_CACHE :> Ev("RXC_CACHE")) @@ (CXL_TxC_CACHE :> Ev("TXC_CACHE"))
programCXLDP == CXL_TxC_MEM :> Ev("M2S_DATA")

\* program_power_metrics: the CKE events of two ranks, or the self refresh
PowerImc(mc) ==
  CASE mc \in 0 .. 3 ->
         LET first == 2 ^ (2 * mc)  second == 2 ^ (2 * mc + 1)
         IN (0 :> <<"CKE_OFF", first>>) @@ (1 :> <<"CKE_TRANSITIONS", first>>)
            @@ (2 :> <<"CKE_OFF", second>>) @@ (3 :> <<"CKE_TRANSITIONS", second>>)
    [] mc = 4 ->
         (0 :> Ev("SELF_REFRESH")) @@ (1 :> Ev("SELF_REFRESH_ENTER")) @@ (2 :> Ev("PPD"))
    [] OTHER -> <<>>
PowerXpi ==
  (xPI_TxL0P :> Ev("TX_L0P")) @@ (xPI_L1 :> Ev("L1")) @@ (xPI_CLOCKTICKS :> Ev("CLOCKTICKS"))

NewPcu == {"SKX", "ICX", "SNOWRIDGE", "SPR", "EMR", "SRF", "GNR", "GNR_D"}
HaswellPcu == {"HASWELLX", "BDX_DE", "BDX"}
Four(a, b, c, d) == (0 :> Ev(a)) @@ (1 :> Ev(b)) @@ (2 :> Ev(c)) @@ (3 :> Ev(d))

\* the switch over pcu_profile in programServerUncorePowerMetrics
PowerPcu(m, pcu) ==
  CASE pcu = 0 -> Four("PCU_CLOCKS", "BAND0", "BAND1", "BAND2")
    [] pcu = 1 -> Four("PCU_CLOCKS", "C0", "C3", "C6")
    [] pcu = 2 -> Four("PCU_CLOCKS", "PROCHOT_INT", "PROCHOT_EXT", "THERMAL")
    [] pcu = 3 -> Four("PCU_CLOCKS", "THERMAL", "POWER", "CURRENT")
    [] pcu = 4 -> Four("PCU_CLOCKS", "OS", "POWER", "CURRENT")
    [] pcu = 5 /\ m = "HASWELLX" ->
         Four("UFS_CYCLES", "FREQ_TRANS", "FREQ_TRANS_CYCLES", "UFS_TRANS")
    [] pcu = 5 /\ m \in NewPcu \cup HaswellPcu \cup {"JAKETOWN", "IVYTOWN"} ->
         Four("PCU_CLOCKS", "FREQ_TRANS", "FREQ_TRANS_CYCLES", "off")
    [] pcu = 6 /\ m = "IVYTOWN" -> Four("PCU_CLOCKS", "off", "PC2_TRANS", "PC6_TRANS")
    [] pcu = 6 /\ m \in NewPcu \cup HaswellPcu -> Four("PC1E", "PC1E_TRANS", "PC2_TRANS", "PC6_TRANS")
    [] pcu = 7 /\ m \in HaswellPcu -> Four("UFS_PERF", "UFS_IO", "UFS_RING", "UFS_STALL")
    [] pcu = 8 /\ m \in HaswellPcu -> Four("UFS_DOWN", "off", "off", "off")
    [] OTHER -> Four("PCU_CLOCKS", "off", "off", "off")
\* printError, or the default of the switch
PcuRefused(m, pcu) ==
  \/ pcu = 5 /\ m \notin NewPcu \cup HaswellPcu \cup {"JAKETOWN", "IVYTOWN"}
  \/ pcu = 6 /\ m \notin NewPcu \cup HaswellPcu \cup {"IVYTOWN"}
  \/ pcu \in {7, 8} /\ m \notin HaswellPcu
  \/ pcu \notin 0 .. 8

LatencyImc(pmm) ==
  IF pmm THEN Four("PMM_RDQ_OCC", "PMM_RDQ", "PMM_WPQ_OCC", "PMM_WPQ")
  ELSE Four("RPQ_OCC", "RPQ_INS", "WPQ_OCC", "WPQ_INS")

----------------------------------------------------------------------------
(* The calls.                                                              *)

EventsInit ==
  /\ platform \in Platforms
  /\ slots = Nothing
  /\ links = (platform.ports > 0)
  /\ last = [call |-> "none"]
  /\ reported = FALSE

\* boxes that get a new configuration; a box the platform does not have keeps Nothing
Write(new) ==
  slots' = [b \in Boxes |->
              IF b \in DOMAIN new /\ (b = "edc" => HBMmemoryTrafficMetricsAvailable(platform))
                                  /\ (b = "xpi" => links)
              THEN Cfg(b, new[b]) ELSE slots[b]]

\* PCM::program: ServerUncorePMUs::program on every socket, then programCbo
Program ==
  /\ Write([imc |-> ProgramImc(platform), edc |-> Edc(platform), m2m |-> programM2M(platform),
            xpi |-> programXPI(platform), ha |-> programHA, cbo |-> programCbo(platform)])
  /\ last' = [call |-> "program"]
  /\ reported' = FALSE
  /\ UNCHANGED <<platform, links>>

\* pcm-memory: the checks of mainThrows, then PCM::programServerUncoreMemoryMetrics, which
\* programs the CXL boxes and returns Success also when the memory boxes were refused
ProgramMemory(metrics, rankA, rankB) ==
  /\ anyPmem(metrics) => PMMTrafficMetricsAvailable(platform) /\ rankA < 0 /\ rankB < 0
  /\ metrics \in {"PmemMemoryMode", "PmemMixedMode"} => PMMMemoryModeMetricsAvailable(platform)
  /\ rankB >= 0 => rankA >= 0
  /\ IF MemoryRefused(platform, metrics, rankA, rankB)
     THEN /\ Write([cxlcm |-> programCXLCM, cxldp |-> programCXLDP])
          /\ UNCHANGED links
     ELSE /\ Write([imc |-> MemoryImc(platform, metrics, rankA, rankB), edc |-> Edc(platform),
                    m2m |-> programM2M(platform), cxlcm |-> programCXLCM, cxldp |-> programCXLDP])
          /\ links' = FALSE
  /\ last' = [call |-> "memory", metrics |-> metrics, rankA |-> rankA, rankB |-> rankB]
  /\ reported' = MemoryRefused(platform, metrics, rankA, rankB)
  /\ UNCHANGED platform

\* pcm-power: PCM::programServerUncorePowerMetrics
ProgramPower(mc, pcu) ==
  /\ Write([xpi |-> PowerXpi, imc |-> PowerImc(mc), pcu |-> PowerPcu(platform.model, pcu)])
  /\ last' = [call |-> "power", mc |-> mc, pcu |-> pcu]
  /\ reported' = PcuRefused(platform.model, pcu)
  /\ UNCHANGED <<platform, links>>

\* pcm-latency: PCM::program, check_status, PCM::programServerUncoreLatencyMetrics
ProgramLatency(pmm) ==
  /\ LatencyMetricsAvailable(platform.model)
  /\ LET default == [imc |-> ProgramImc(platform), edc |-> Edc(platform), m2m |-> programM2M(platform),
                     xpi |-> programXPI(platform), ha |-> programHA, cbo |-> programCbo(platform)]
     IN Write(IF DDRLatencyMetricsAvailable(platform.model)
              THEN [default EXCEPT !.imc = LatencyImc(pmm)] ELSE default)
  /\ last' = [call |-> "latency", pmm |-> pmm]
  /\ reported' = FALSE
  /\ UNCHANGED <<platform, links>>

EventsNext ==
  \/ Program
  \/ \E metrics \in Metrics, rankA \in Ranks, rankB \in Ranks : ProgramMemory(metrics, rankA, rankB)
  \/ \E mc \in ImcProfiles, pcu \in PcuProfiles : ProgramPower(mc, pcu)
  \/ \E pmm \in BOOLEAN : ProgramLatency(pmm)

EventsSpec == EventsInit /\ [][EventsNext]_eventsVars

----------------------------------------------------------------------------
(* The readers: <<box, counter, event the printed name stands for>>.       *)

When(cond, reads) == IF cond THEN reads ELSE {}

ReadWriteReads(p, box) ==
  {<<box, READ, Ev("CAS_RD")>>, <<box, WRITE, Ev("CAS_WR")>>}
  \cup When(box = "imc" /\ TwoSubchannels(p.model),
            {<<box, READ2, Ev("CAS_RD_SCH1")>>, <<box, WRITE2, Ev("CAS_WR_SCH1")>>})

NearMemoryReads(p) ==
  When(nearMemoryMetricsAvailable(p.model),
       {<<"m2m", NM_HIT, Ev("TAG_HIT")>>, <<"m2m", MM_MISS_CLEAN, Ev("MISS_CLEAN")>>,
        <<"m2m", MM_MISS_DIRTY, Ev("MISS_DIRTY")>>})

PmmReads == {<<"m2m", PMM_READ, Ev("TO_PMM_RD")>>, <<"m2m", PMM_WRITE, Ev("TO_PMM_WR")>>}

RequestReads(box) ==
  {<<box, REQUESTS_ALL, Ev("REQUESTS_ALL")>>, <<box, REQUESTS_LOCAL, Ev("REQUESTS_LOCAL")>>}

\* readAndAggregateUncoreMCCounters
readAndAggregateUncoreMCCounters(p) ==
  ReadWriteReads(p, "imc") \cup NearMemoryReads(p)
  \cup When(LLCReadMissLatencyMetricsAvailable(p),
            {<<"cbo", TOR_OCCUPANCY, Ev("TOR_OCCUPANCY")>>, <<"cbo", TOR_INSERTS, Ev("TOR_INSERTS")>>})
  \cup When(localMemoryRequestRatioMetricAvailable(p.model),
            RequestReads(IF hasCHA(p.model) THEN "cbo" ELSE "ha"))
  \cup When(PMMTrafficMetricsAvailable(p), PmmReads)
  \cup When(HBMmemoryTrafficMetricsAvailable(p), ReadWriteReads(p, "edc"))

\* readQPICounters: getIncomingDataFlits, getOutgoingFlits, getUPIL0TxCycles; without a
\* link PMU all of them return 0
readQPICounters(p) ==
  {<<"xpi", 2, Ev("TX_FLITS")>>} \cup
  IF hasUPI(p.model) THEN {<<"xpi", 1, Ev("RX_DATA")>>, <<"xpi", 0, Ev("TX_L0")>>}
  ELSE {<<"xpi", 0, Ev("RX_DRS")>>, <<"xpi", 1, Ev("RX_NCB")>>}

\* calculate_bandwidth: the counters whose values are printed
calculate_bandwidth(p, metrics) ==
  When(metrics # "PmemMemoryMode", ReadWriteReads(p, "imc"))
  \cup When(metrics = "Pmem",
            {<<"imc", PMM_READ, Ev("PMM_RDQ")>>, <<"imc", PMM_WRITE, Ev("PMM_WPQ")>>})
  \cup When(metrics = "Pmem" /\ p.model = "SKX", {<<"m2m", NM_HIT, Ev("NM_DRD_HIT")>>})
  \cup When(metrics \in {"PmemMixedMode", "PmemMemoryMode"}, PmmReads)
  \cup When(metrics = "PmemMixedMode" \/ (metrics = "PmemMemoryMode" /\ p.model = "ICX"),
            {<<"imc", MM_MISS_CLEAN, Ev("MISS_CLEAN")>>, <<"imc", MM_MISS_DIRTY, Ev("MISS_DIRTY")>>})
  \cup When(metrics = "PmemMemoryMode" /\ p.model = "ICX", {<<"imc", NM_HIT, Ev("TAG_HIT")>>})
  \cup When(metrics = "PartialWrites" /\ ~TwoSubchannels(p.model) /\ ~HBMmemoryTrafficMetricsAvailable(p),
            {<<"imc", PARTIAL, Ev("PARTIAL")>>})
  \cup When(HBMmemoryTrafficMetricsAvailable(p), ReadWriteReads(p, "edc"))
  \cup NearMemoryReads(p)

\* the CXL ports: both directions with near memory metrics, else the transmit side
CXLReads(p) ==
  {<<"cxlcm", CXL_TxC_CACHE, Ev("TXC_CACHE")>>} \cup
  IF nearMemoryMetricsAvailable(p.model)
  THEN {<<"cxlcm", CXL_RxC_MEM, Ev("RXC_MEM")>>, <<"cxldp", CXL_TxC_MEM, Ev("M2S_DATA")>>,
        <<"cxlcm", CXL_RxC_CACHE, Ev("RXC_CACHE")>>}
  ELSE {<<"cxlcm", CXL_TxC_MEM, Ev("TXC_MEM")>>}

\* printSocketChannelBW for ranks; KNL counts all ranks whatever was asked for
RankReads(rankA, rankB) ==
  {<<"imc", READ, <<"RANK_RD", rankA>>>>, <<"imc", WRITE, <<"RANK_WR", rankA>>>>}
  \cup When(rankB >= 0, {<<"imc", 2, <<"RANK_RD", rankB>>>>, <<"imc", 3, <<"RANK_WR", rankB>>>>})

\* pcm-power: getCKEOffResidency and the others index by the parity of the rank
CKEReads(rank) ==
  {<<"imc", IF rank % 2 = 1 THEN 2 ELSE 0, <<"CKE_OFF", 2 ^ rank>>>>,
   <<"imc", IF rank % 2 = 1 THEN 3 ELSE 1, <<"CKE_TRANSITIONS", 2 ^ rank>>>>}

At(box, names) == {<<box, c, Ev(names[c + 1])>> : c \in 0 .. Len(names) - 1}

PcuReads(m, pcu) ==
  CASE pcu = 0 -> When(m \notin {"HASWELLX", "BDX_DE", "SKX"},
                       At("pcu", <<"PCU_CLOCKS", "BAND0", "BAND1", "BAND2">>))
    [] pcu = 1 -> At("pcu", <<"PCU_CLOCKS", "C0", "C3", "C6">>)
    [] pcu = 2 -> At("pcu", <<"PCU_CLOCKS", "PROCHOT_INT", "PROCHOT_EXT", "THERMAL">>)
    [] pcu = 3 -> At("pcu", <<"PCU_CLOCKS", "THERMAL", "POWER">>)
                  \cup When(m \notin NewPcu, {<<"pcu", 3, Ev("CURRENT")>>})
    [] pcu = 4 -> When(m \notin NewPcu, At("pcu", <<"PCU_CLOCKS", "OS", "POWER", "CURRENT">>))
    [] pcu = 5 -> At("pcu", <<"PCU_CLOCKS", "FREQ_TRANS", "FREQ_TRANS_CYCLES">>)
                  \cup When(m = "HASWELLX", {<<"pcu", 3, Ev("UFS_TRANS")>>, <<"pcu", 0, Ev("UFS_CYCLES")>>})
    [] pcu = 6 -> When(m \in {"HASWELLX", "BDX_DE"}, At("pcu", <<"PC1E", "PC1E_TRANS">>))
                  \cup When(m \in NewPcu \cup {"IVYTOWN", "HASWELLX", "BDX_DE"},
                            {<<"pcu", 2, Ev("PC2_TRANS")>>, <<"pcu", 3, Ev("PC6_TRANS")>>})
    [] pcu = 7 -> When(m \in HaswellPcu, At("pcu", <<"UFS_PERF", "UFS_IO", "UFS_RING", "UFS_STALL">>))
    [] pcu = 8 -> When(m \in HaswellPcu, At("pcu", <<"UFS_DOWN">>))
    [] OTHER -> {}

PowerReads(p, mc, pcu) ==
  {<<"xpi", xPI_CLOCKTICKS, Ev("CLOCKTICKS")>>, <<"xpi", xPI_TxL0P, Ev("TX_L0P")>>,
   <<"xpi", xPI_L1, Ev("L1")>>}
  \cup When(mc \in 0 .. 3, CKEReads(2 * mc) \cup CKEReads(2 * mc + 1))
  \cup When(mc = 4, At("imc", <<"SELF_REFRESH", "SELF_REFRESH_ENTER", "PPD">>))
  \cup PcuReads(p.model, pcu)

\* store_latency_uncore, printed by print_ddr
LatencyReads(p, pmm) ==
  When(DDRLatencyMetricsAvailable(p.model) /\ (pmm => PMMTrafficMetricsAvailable(p)),
       At("imc", IF pmm THEN <<"PMM_RDQ_OCC", "PMM_RDQ", "PMM_WPQ_OCC", "PMM_WPQ">>
                 ELSE <<"RPQ_OCC", "RPQ_INS", "WPQ_OCC", "WPQ_INS">>))

Reads ==
  CASE last.call = "program" ->
         readAndAggregateUncoreMCCounters(platform) \cup readQPICounters(platform)
    [] last.call = "memory" /\ last.rankA < 0 /\ last.rankB < 0 ->
         calculate_bandwidth(platform, last.metrics) \cup CXLReads(platform)
    [] last.call = "memory" /\ (last.rankA >= 0 \/ last.rankB >= 0) ->
         When(platform.model # "KNL", RankReads(last.rankA, last.rankB))
    [] last.call = "power" -> PowerReads(platform, last.mc, last.pcu)
    [] last.call = "latency" -> LatencyReads(platform, last.pmm) \cup readQPICounters(platform)
    [] OTHER -> {}

\* Profile 5 of pcm-power on Haswell-EP prints counter 0 as PCUClocks and as UFS transition cycles.
Misnamed(r) ==
  /\ last.call = "power" /\ last.pcu = 5 /\ platform.model = "HASWELLX"
  /\ r = <<"pcu", 0, Ev("PCU_CLOCKS")>>

\* Every counter the library and the tools print under a name counts the event of that name,
\* on every CPU model, whatever calls came before, unless the last call reported an error,
\* the read is Misnamed, or the link PMUs are gone (programServerUncoreMemoryMetrics drops them for the life of the
\* process, and their readers return 0).  The positions are shared constants and the switches
\* over CPU models are separate, so a model added to one of them and not to another shows here.
EventsMeetReaders ==
  reported \/ \A r \in Reads : (r[1] = "xpi" /\ ~links) \/ Misnamed(r) \/ slots[r[1]][r[2]] = r[3]

\* The same without that exception.
\* The code does not have this property (README, section 4).
EveryNameItsEvent ==
  reported \/ \A r \in Reads : (r[1] = "xpi" /\ ~links) \/ slots[r[1]][r[2]] = r[3]
=============================================================================
