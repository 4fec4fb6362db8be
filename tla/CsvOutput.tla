----------------------------- MODULE CsvOutput -----------------------------
(***************************************************************************)
(* The -csv output of pcm and pcm-memory.                                  *)
(*                                                                         *)
(* A table has two header lines and one row per interval.  Header 1 names  *)
(* the block a column belongs to (a socket, a core, a link), header 2 the  *)
(* metric; a row holds values, here <<block, metric>>, the value that is   *)
(* printed there.  pcm writes the three in three functions with the same   *)
(* conditions repeated; pcm-memory calls one function three                *)
(* times, and what it prints may depend on the data of the interval.       *)
(*                                                                         *)
(* The text of a cell is left out, and pcm's list of C-states and links is *)
(* one entry per supported state and per port.                             *)
(***************************************************************************)
EXTENDS CpuModels, SequencesExt

CONSTANTS CsvPlatforms,   \* platform records
          CoreFlags,      \* sets of the flags of the core part, see BasicNames
          Cores,          \* core numbers 0, 1, ..: core c is on socket c % sockets
          EdcChannels     \* HBM channels per socket where there is HBM

VARIABLES machine,        \* what the availability functions answer, and the options
          table           \* the lines printed so far: [h1, h2, row]

csvVars == <<machine, table>>

Opt(cond, seq) == IF cond THEN seq ELSE <<>>
Rep(x, n) == [i \in 1 .. n |-> x]
\* F(0), F(1), .. F(n - 1), one after the other
Each(n, F(_)) == FlattenSeq([i \in 1 .. n |-> F(i - 1)])
Block(name, i) == <<name, i>>
N(name) == Block(name, 0)
Names(seq) == [i \in DOMAIN seq |-> N(seq[i])]
Has(x, cond) == IF cond THEN {x} ELSE {}

----------------------------------------------------------------------------
(* pcm.  a is the set of metrics that are available, as in                 *)
(* isL3CacheMissesAvailable and the like.                                  *)


Available(p, flags) ==
  (flags \ Has("UFREQ", p.model \in {"GNR", "GNR_D", "SRF"}))
  \cup Has("MC", memoryTrafficMetricsAvailable(p.model))
  \cup Has("LOCAL", localMemoryRequestRatioMetricAvailable(p.model))
  \cup Has("PMM", PMMTrafficMetricsAvailable(p)) \cup Has("HBM", p.hbm)
  \cup Has("IO", memoryIOTrafficMetricAvailable(p.model))
  \cup Has("IN", p.sockets > 1 /\ incomingQPITrafficMetricsAvailable(p))
  \cup Has("OUT", p.sockets > 1 /\ outgoingQPITrafficMetricsAvailable(p))
  \cup Has("UTIL", outgoingQPITrafficMetricsAvailable(p))
  \cup Has("PKG", packageEnergyMetricsAvailable(p.model))
  \cup Has("PP", ppEnergyMetricsAvailable(p))
  \cup Has("DRAM", dramEnergyMetricsAvailable(p.model))
  \cup Has("SYS", systemEnergyMetricAvailable(p.model))
  \cup Has("LAT", LLCReadMissLatencyMetricsAvailable(p))

\* print_basic_metrics_csv_header
BasicNames(a) ==
  <<"EXEC", "IPC", "FREQ">> \o Opt("AFREQ" \in a, <<"AFREQ", "CFREQ">>)
  \o Opt("L3MISS" \in a, <<"L3MISS">>) \o Opt("L2MISS" \in a, <<"L2MISS">>)
  \o Opt("L3HIT" \in a, <<"L3HIT">>) \o Opt("L2HIT" \in a, <<"L2HIT">>)
  \o Opt("L3MISS" \in a, <<"L3MPI">>) \o Opt("L2MISS" \in a, <<"L2MPI">>)
  \o Opt("TMA1" \in a, <<"Frontend", "BadSpec", "Backend", "Retiring">>)
  \o Opt("TMA2" \in a, <<"FetchLat", "FetchBw", "Mispredict", "Clears",
                         "Memory", "Core", "Heavy", "Light">>)

\* print_basic_metrics_csv_semicolons: only the number of columns
SemicolonsWithoutMPI(a, header) ==
  Rep(header, 3 + (IF "AFREQ" \in a THEN 2 ELSE 0)
              + Cardinality(a \cap {"L3MISS", "L2MISS", "L3HIT", "L2HIT"})
              + (IF "TMA1" \in a THEN 4 ELSE 0) + (IF "TMA2" \in a THEN 8 ELSE 0))
BasicSemicolons(a, header) ==
  Rep(header, 3 + (IF "AFREQ" \in a THEN 2 ELSE 0)
              + 2 * Cardinality(a \cap {"L3MISS", "L2MISS"}) + Cardinality(a \cap {"L3HIT", "L2HIT"})
              + (IF "TMA1" \in a THEN 4 ELSE 0) + (IF "TMA2" \in a THEN 8 ELSE 0))

\* print_basic_metrics_csv: the getters it calls
BasicRow(a, block) ==
  LET Cell(name) == <<block, N(name)>>
  IN <<Cell("EXEC"), Cell("IPC"), Cell("FREQ")>>
     \o Opt("AFREQ" \in a, <<Cell("AFREQ"), Cell("CFREQ")>>)
     \o Opt("L3MISS" \in a, <<Cell("L3MISS")>>) \o Opt("L2MISS" \in a, <<Cell("L2MISS")>>)
     \o Opt("L3HIT" \in a, <<Cell("L3HIT")>>) \o Opt("L2HIT" \in a, <<Cell("L2HIT")>>)
     \o Opt("L3MISS" \in a, <<Cell("L3MPI")>>) \o Opt("L2MISS" \in a, <<Cell("L2MPI")>>)
     \o Opt("TMA1" \in a, <<Cell("Frontend"), Cell("BadSpec"), Cell("Backend"), Cell("Retiring")>>)
     \o Opt("TMA2" \in a, <<Cell("FetchLat"), Cell("FetchBw"), Cell("Mispredict"), Cell("Clears"),
                            Cell("Memory"), Cell("Core"), Cell("Heavy"), Cell("Light")>>)

Other == <<"L3OCC", "LMB", "RMB">>
OtherNames(a) == SelectSeq(Other, LAMBDA n : n \in a)
Last7 == <<"INST", "ACYC", "TIME", "PhysIPC", "PhysIPC%", "INSTnom", "INSTnom%">>
CStates(n) == [s \in 1 .. n |-> <<"Cres%", s>>]
MemoryNames(a) ==
  Opt("MC" \in a, <<"READ", "WRITE">>) \o Opt("LOCAL" \in a, <<"LOCAL">>)
  \o Opt("PMM" \in a, <<"PMM_RD", "PMM_WR">>) \o Opt("HBM" \in a, <<"HBM_READ", "HBM_WRITE">>)

\* the (socket, die) pairs with an online core, in the order of the std::map (dies < 10)
Dies(m) == SetToSortSeq({10 * (c % m.p.sockets) + m.die[c] : c \in m.online}, <)
ShownCores(m) == SelectSeq([i \in 1 .. Cardinality(Cores) |-> i - 1],
                           LAMBDA c : ~m.opt.partial \/ c \in m.ycores)

\* print_csv_header, first line
SystemHeader1(m) ==
  LET a == m.a
  IN BasicSemicolons(a, N("System")) \o Rep(N("System"), Len(MemoryNames(a)) + 7)
     \o Opt("IN" \in a, Rep(N("System"), 2)) \o Opt("OUT" \in a, Rep(N("System"), 1))
     \o Rep(N("System Core C-States"), m.corec) \o Rep(N("System Pack C-States"), m.pkgc)
     \o Opt("PKG" \in a, Rep(N("System"), 1)) \o Opt("PP" \in a, Rep(N("System"), 2))
     \o Rep(N("System"), Cardinality(a \cap {"DRAM", "SYS", "LAT", "UFREQ"}))
SocketHeader1(m) ==
  LET a == m.a  n == m.p.sockets  ports == m.p.ports
      Socket(i) == LET h == Block("Socket", i)
                   IN BasicSemicolons(a, h) \o Rep(h, Len(OtherNames(a)))
                      \o Rep(h, Len(MemoryNames(a)) + (IF "IO" \in a THEN 3 ELSE 0)) \o Rep(h, 8)
      DataIn(s) == Rep(Block("dataIn", s), ports) \o Opt("UTIL" \in a, Rep(Block("dataIn%", s), ports))
      DataOut(s) == Rep(Block("trafficOut", s), ports) \o Rep(Block("trafficOut%", s), ports)
      Residency(i) == Rep(Block("Core C-State", i), m.corec) \o Rep(Block("Package C-State", i), m.pkgc)
      Energy(name) == Opt(name \in a, Rep(N(name), n))
      UfsDies(s) == [d \in 1 .. m.ufs |-> Block("UncFREQ Die", d)]
  IN Each(n, Socket) \o Opt("IN" \in a, Each(n, DataIn)) \o Opt("OUT" \in a, Each(n, DataOut))
     \o Each(n, Residency) \o Energy("PKG") \o Opt("PP" \in a, Rep(N("PP0"), n) \o Rep(N("PP1"), n))
     \o Energy("DRAM") \o Energy("LAT") \o Energy("UFREQ") \o Each(n, UfsDies)
CoreHeader1(m) ==
  LET a == m.a
      Die(i) == LET h == Block("SKT.die", Dies(m)[i + 1])
                IN BasicSemicolons(a, h) \o Rep(h, Len(OtherNames(a)) + 8)
      Core(i) == LET h == Block("Core", ShownCores(m)[i + 1])
                 IN BasicSemicolons(a, h) \o Rep(h, Len(OtherNames(a)) + m.corec + 8)
  IN Opt(m.opt.die, Each(Len(Dies(m)), Die)) \o Opt(m.opt.core, Each(Len(ShownCores(m)), Core))
PcmHeader1(m) ==
  Rep(N("System"), 2) \o Opt(m.opt.system, SystemHeader1(m)) \o Opt(m.opt.socket, SocketHeader1(m))
  \o CoreHeader1(m)

\* print_csv_header, second line
SystemHeader2(m) ==
  LET a == m.a
  IN Names(BasicNames(a) \o MemoryNames(a) \o Last7
           \o Opt("IN" \in a, <<"TotalIn", "toMC">>) \o Opt("OUT" \in a, <<"TotalOut">>))
     \o CStates(m.corec) \o CStates(m.pkgc)
     \o Names(Opt("PKG" \in a, <<"PKG">>) \o Opt("PP" \in a, <<"PP0", "PP1">>)
              \o SelectSeq(<<"DRAM", "SYS", "LAT", "UFREQ">>, LAMBDA e : e \in a))
SocketHeader2(m) ==
  LET a == m.a  n == m.p.sockets
      Socket(i) == Names(BasicNames(a) \o OtherNames(a) \o MemoryNames(a)
                         \o Opt("IO" \in a, <<"IO", "IA", "GT">>) \o <<"TEMP">> \o Last7)
      Ports == [l \in 1 .. m.p.ports |-> Block("xPI", l)]
      DataIn(s) == Ports \o Opt("UTIL" \in a, Ports)
      DataOut(s) == Ports \o Ports
      Residency(i) == CStates(m.corec) \o CStates(m.pkgc)
      SKT(name, count) == Opt(name \in a, Each(n, LAMBDA i : Rep(Block("SKT", i), count)))
  IN Each(n, Socket) \o Opt("IN" \in a, Each(n, DataIn)) \o Opt("OUT" \in a, Each(n, DataOut))
     \o Each(n, Residency) \o SKT("PKG", 1) \o SKT("PP", 2) \o SKT("DRAM", 1) \o SKT("LAT", 1)
     \o SKT("UFREQ", 1) \o Each(n, LAMBDA i : Rep(Block("SKT", i), m.ufs))
CoreHeader2(m) ==
  LET a == m.a
      Die(i) == Names(BasicNames(a) \o OtherNames(a) \o <<"TEMP">> \o Last7)
      Core(i) == Names(BasicNames(a) \o OtherNames(a)) \o CStates(m.corec) \o Names(<<"TEMP">> \o Last7)
  IN Opt(m.opt.die, Each(Len(Dies(m)), Die)) \o Opt(m.opt.core, Each(Len(ShownCores(m)), Core))
PcmHeader2(m) ==
  Names(<<"Date", "Time">>) \o Opt(m.opt.system, SystemHeader2(m)) \o Opt(m.opt.socket, SocketHeader2(m))
  \o CoreHeader2(m)

\* print_csv: blocks and metrics of the getters it calls
Cells(block, names) == [i \in DOMAIN names |-> <<block, N(names[i])>>]
Res(block, count) == [s \in 1 .. count |-> <<block, Block("Cres%", s)>>]
SystemRow(m) ==
  LET a == m.a
  IN BasicRow(a, N("System"))
     \o Cells(N("System"), MemoryNames(a) \o Last7
              \o Opt("IN" \in a, <<"TotalIn", "toMC">>) \o Opt("OUT" \in a, <<"TotalOut">>))
     \o Res(N("System Core C-States"), m.corec) \o Res(N("System Pack C-States"), m.pkgc)
     \o Cells(N("System"), Opt("PKG" \in a, <<"PKG">>) \o Opt("PP" \in a, <<"PP0", "PP1">>)
              \o SelectSeq(<<"DRAM", "SYS", "LAT", "UFREQ">>, LAMBDA e : e \in a))
SocketRow(m) ==
  LET a == m.a  n == m.p.sockets
      PerLink(block) == [l \in 1 .. m.p.ports |-> <<block, Block("xPI", l)>>]
      Socket(i) == LET b == Block("Socket", i)
                   IN BasicRow(a, b) \o Cells(b, OtherNames(a) \o MemoryNames(a))
                      \o Cells(b, Opt("IO" \in a, <<"IO", "IA", "GT">>) \o <<"TEMP">> \o Last7)
      DataIn(i) == PerLink(Block("dataIn", i)) \o Opt("UTIL" \in a, PerLink(Block("dataIn%", i)))
      DataOut(i) == PerLink(Block("trafficOut", i)) \o PerLink(Block("trafficOut%", i))
      Residency(i) == Res(Block("Core C-State", i), m.corec) \o Res(Block("Package C-State", i), m.pkgc)
      PerSocket(name) == Opt(name \in a, [i \in 1 .. n |-> <<N(name), Block("SKT", i - 1)>>])
      Planes(i) == <<<<N("PP0"), Block("SKT", i)>>, <<N("PP1"), Block("SKT", i)>>>>
      UfsDies(i) == [d \in 1 .. m.ufs |-> <<Block("UncFREQ Die", d), Block("SKT", i)>>]
  IN Each(n, Socket) \o Opt("IN" \in a, Each(n, DataIn)) \o Opt("OUT" \in a, Each(n, DataOut))
     \o Each(n, Residency) \o PerSocket("PKG") \o Opt("PP" \in a, Each(n, Planes))
     \o PerSocket("DRAM") \o PerSocket("LAT") \o PerSocket("UFREQ") \o Each(n, UfsDies)
CoreRow(m) ==
  LET a == m.a
      Die(i) == LET b == Block("SKT.die", Dies(m)[i + 1])
                IN BasicRow(a, b) \o Cells(b, OtherNames(a) \o <<"TEMP">> \o Last7)
      Core(i) == LET b == Block("Core", ShownCores(m)[i + 1])
                 IN BasicRow(a, b) \o Cells(b, OtherNames(a)) \o Res(b, m.corec) \o Cells(b, <<"TEMP">> \o Last7)
  IN Opt(m.opt.die, Each(Len(Dies(m)), Die)) \o Opt(m.opt.core, Each(Len(ShownCores(m)), Core))
PcmRow(m) ==
  Cells(N("System"), <<"Date", "Time">>) \o Opt(m.opt.system, SystemRow(m))
  \o Opt(m.opt.socket, SocketRow(m)) \o CoreRow(m)

----------------------------------------------------------------------------
(* pcm-memory.  One function prints all three lines, from the data of the  *)
(* interval: data.imc and data.edc are the channels with traffic           *)
(* (<<socket, channel>>), the others hold -1.                              *)

Empty == N("")   \* ",,": a cell without a value

\* display_bandwidth_csv, as the list of its columns: <<block, metric, value>>
Col(skt, name) == <<Block("SKT", skt), name, name>>
Cols(skt, names) == [i \in DOMAIN names |-> Col(skt, N(names[i]))]
PMem(metrics) == metrics \in {"Pmem", "PmemMixedMode", "PmemMemoryMode"}
ChannelColumns(m, skt, data) ==
  LET Imc(ch) ==
        LET Value(name) == IF <<skt, ch>> \in data.imc THEN name ELSE Empty
            Pair(rd, wr) == <<<<Block("SKT", skt), Block(rd, ch), Value(Block(rd, ch))>>,
                              <<Block("SKT", skt), Block(wr, ch), Value(Block(wr, ch))>>>>
        IN Pair("Read", "Write") \o Opt(m.opt.metrics = "Pmem", Pair("PMM_Read", "PMM_Write"))
  IN Opt(m.opt.channels, Each(m.imc, Imc))
SocketColumns(m, skt) ==
  LET metrics == m.opt.metrics
  IN Cols(skt, <<"Mem Read", "Mem Write">>)
     \o Opt(PMem(metrics), Cols(skt, <<"PMM_Read", "PMM_Write">>))
     \o Opt(nearMemoryMetricsAvailable(m.p.model) \/ (metrics = "PmemMemoryMode" /\ m.p.model = "ICX"),
            Cols(skt, <<"NM hit rate", "NM hits", "NM misses">>))
     \o Opt(nearMemoryMetricsAvailable(m.p.model), Cols(skt, <<"NM miss Bw">>))
     \o Opt(metrics = "Pmem" /\ m.p.model = "SKX",
            Each(2, LAMBDA c : <<Col(skt, Block("NM read hit rate", c))>>))
     \o Opt(metrics = "PmemMixedMode", Cols(skt, <<"PMM_AD", "PMM_MM", "PMM_MM_Bw/DRAM_Bw">>))
     \o Opt(~m.p.hbm /\ metrics = "PartialWrites" /\ m.p.model \notin {"GNR", "GNR_D", "SRF", "GRR"},
            Cols(skt, <<"P. Write">>))
     \o Cols(skt, <<"Memory">>)
HbmColumns(m, skt, data) ==
  LET Edc(ch) == Opt(<<skt, ch>> \in data.edc,
                     <<Col(skt, Block("EDC_Read", ch)), Col(skt, Block("EDC_Write", ch))>>)
  IN Opt(m.p.hbm, Opt(m.opt.channels, Each(EdcChannels, Edc)) \o Cols(skt, <<"HBM Read", "HBM Write", "HBM">>))
CxlColumns(m, skt) ==
  LET Names4 == IF nearMemoryMetricsAvailable(m.p.model)
                THEN <<"CXL.mem Read", "CXL.mem Write", "dv->hst", "hst->dv">>
                ELSE <<"CXL.mem Write", "hst->dv">>
  IN Opt(m.opt.cxl, Each(m.cxl, LAMBDA port : [i \in DOMAIN Names4 |-> Col(skt, Block(Names4[i], port))]))
SystemColumns(m) ==
  LET System(names) == [i \in DOMAIN names |-> <<N("System"), N(names[i]), N(names[i])>>]
  IN Opt(PMem(m.opt.metrics), System(<<"DRAMRead", "DRAMWrite", "PMMREAD", "PMMWrite">>))
     \o Opt(m.p.model \in {"SPR", "EMR"} /\ m.cxl > 0, System(<<"CXLRead">>))
     \o System(<<"Read", "Write", "Memory">>)
MemoryColumns(m, data) ==
  Each(m.p.sockets, LAMBDA skt : ChannelColumns(m, skt, data) \o SocketColumns(m, skt)
                                 \o HbmColumns(m, skt, data) \o CxlColumns(m, skt))
  \o SystemColumns(m)

\* printSocketRankBWHeader_cvt and printSocketChannelBW_cvt
RankColumns(m) ==
  LET Rank(skt, ch, r) == Opt(r >= 0, <<<<Block("SKT", skt), <<"reads", ch, r>>, <<"reads", ch, r>>>>,
                                        <<Block("SKT", skt), <<"writes", ch, r>>, <<"writes", ch, r>>>>>>)
      Channel(skt, ch) == Rank(skt, ch, m.opt.rankA) \o Rank(skt, ch, m.opt.rankB)
  IN Each(m.p.sockets, LAMBDA skt : Each(m.imc, LAMBDA ch : Channel(skt, ch)))

----------------------------------------------------------------------------
(* The tools print the headers once and then a row per interval.           *)

DateAndTime == <<<<N(""), N("Date"), N("Date")>>, <<N(""), N("Time"), N("Time")>>>>
Column(columns, k) == [i \in DOMAIN columns |-> columns[i][k]]
Row(columns) == [i \in DOMAIN columns |-> <<columns[i][1], columns[i][3]>>]
Channels(sockets, count) == (0 .. sockets - 1) \X (0 .. count - 1)

\* -csv with any of -nsys, -ns, -nc, -die and -yc
PcmMachine ==
  \E p \in CsvPlatforms, flags \in CoreFlags, opt \in [{"system", "socket", "die", "core", "partial"} -> BOOLEAN],
     corec \in {0, 2}, ufs \in {0, 2}, online \in {Cores, Cores \ {1}}, dies \in {1, 2} :
    machine = [tool |-> "pcm", p |-> p, a |-> Available(p, flags), opt |-> opt, corec |-> corec,
               pkgc |-> 2 * corec, ufs |-> ufs, online |-> online, die |-> [c \in Cores |-> c % dies],
               ycores |-> {0}]

\* the options that mainThrows of pcm-memory accepts together; -all is opt.all
MemoryMachine ==
  \E p \in CsvPlatforms, metrics \in {"PartialWrites", "Pmem", "PmemMemoryMode", "PmemMixedMode"},
     channels \in BOOLEAN, all \in BOOLEAN, cxl \in 0 .. 1, rankA \in {0 - 1, 0}, rankB \in {0 - 1, 5} :
    /\ hasPCICFGUncore(p.model)
    /\ metrics # "PartialWrites" => PMMTrafficMetricsAvailable(p) /\ rankA < 0 /\ rankB < 0
    /\ metrics \in {"PmemMemoryMode", "PmemMixedMode"} => PMMMemoryModeMetricsAvailable(p)
    /\ metrics = "PmemMemoryMode" => ~channels
    /\ rankA >= 0 \/ rankB >= 0 => channels
    /\ rankB >= 0 => rankA >= 0
    /\ machine = [tool |-> "pcm-memory", p |-> p, imc |-> 2, cxl |-> cxl,
                  opt |-> [metrics |-> metrics, channels |-> channels, all |-> all, cxl |-> cxl > 0,
                           rankA |-> rankA, rankB |-> rankB]]

NoTable == [h1 |-> <<>>, h2 |-> <<>>, row |-> <<>>]
CsvInit == table = NoTable /\ (PcmMachine \/ MemoryMachine)

\* pcm prints the headers before its main loop
PcmHeader ==
  /\ machine.tool = "pcm" /\ table = NoTable
  /\ table' = [table EXCEPT !.h1 = PcmHeader1(machine), !.h2 = PcmHeader2(machine)]
  /\ UNCHANGED machine

PcmInterval ==
  /\ machine.tool = "pcm" /\ table # NoTable
  /\ table' = [table EXCEPT !.row = PcmRow(machine)]
  /\ UNCHANGED machine

\* calculate_bandwidth or calculate_bandwidth_rank: csvheader is true in the first interval only
MemoryInterval(data) ==
  /\ machine.tool = "pcm-memory"
  /\ machine.opt.all => data = [imc |-> Channels(machine.p.sockets, machine.imc),
                                edc |-> Channels(machine.p.sockets, EdcChannels)]
  /\ LET columns == DateAndTime \o (IF machine.opt.rankA >= 0 THEN RankColumns(machine)
                                    ELSE MemoryColumns(machine, data))
     IN table' = [h1 |-> IF table = NoTable THEN Column(columns, 1) ELSE table.h1,
                  h2 |-> IF table = NoTable THEN Column(columns, 2) ELSE table.h2,
                  row |-> Row(columns)]
  /\ UNCHANGED machine

MemoryData ==
  [imc : SUBSET Channels(machine.p.sockets, IF machine.tool = "pcm" THEN 0 ELSE machine.imc),
   edc : IF machine.p.hbm THEN SUBSET Channels(machine.p.sockets, EdcChannels)
         ELSE {Channels(machine.p.sockets, EdcChannels)}]

CsvNext == PcmHeader \/ PcmInterval \/ \E data \in MemoryData : MemoryInterval(data)

CsvSpec == CsvInit /\ [][CsvNext]_csvVars

----------------------------------------------------------------------------
Aligned ==
  table.row # <<>> =>
    /\ Len(table.h1) = Len(table.row) /\ Len(table.h2) = Len(table.row)
    /\ \A i \in DOMAIN table.row :
         /\ table.row[i][1] = table.h1[i]
         /\ table.row[i][2] \in {table.h2[i], Empty}

\* Every value of every row stands under the block and the metric it belongs to, on every CPU
\* model, for every set of available metrics and every choice of options: the conditions are
\* written once per header line and once per row, in three functions of pcm.  Excepted are the
\* HBM channels of pcm-memory without -all (see EveryRowAligned).
CsvAligned ==
  \/ machine.tool = "pcm-memory" /\ machine.p.hbm /\ machine.opt.channels /\ ~machine.opt.all
  \/ Aligned

\* A channel without traffic "is not working; skip it" (pcm-memory.cpp): for an HBM channel the
\* columns are left out of the row as well, while the headers keep those of the first interval.
\* The code does not have this property (README, section 4).
EveryRowAligned == Aligned
=============================================================================
