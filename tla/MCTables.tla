------------------------------ MODULE MCTables ------------------------------
(***************************************************************************)
(* The parts whose correctness is that two tables written apart agree,     *)
(* checked in one run: events and their readers, metrics, CSV headers and  *)
(* rows, documents and dashboards, the HTTP exchange, PCIe, pcm-raw.  A   *)
(* behaviour is one of a single part; the others stay idle.                *)
(***************************************************************************)
EXTENDS UncoreEvents, CsvOutput, HttpExchange, Metrics, Dashboard, PCIe, PcmRaw

VARIABLE part

\* A part that is not the one at work, before it has begun.
EventsIdle  == platform = "none" /\ slots = <<>> /\ links = FALSE /\ last = [call |-> "none"] /\ reported = FALSE
CsvIdle     == machine = [tool |-> "none"] /\ table = NoTable
MetricsIdle == plat = "none" /\ eventsOf = <<>> /\ available = {} /\ did = {} /\ moved = {} /\ first = <<>>
DocsIdle    == host = "none" /\ document = "none" /\ calls = <<>> /\ text = <<>> /\ hierarchy_ = <<>>
               /\ reader = ReaderInit
PCIeIdle    == cpu = "none" /\ traffic = <<>> /\ evGroup = 0 /\ eventSample = <<>> /\ cum = <<>>
               /\ published = <<>> /\ bgRunning_ = FALSE /\ collector = "idle" /\ collections = 0
               /\ measured = <<>> /\ seen = <<>> /\ documents = <<>>
RawIdle     == rawPc = "exited" /\ rawMachine = "none" /\ rawOptions = NoOptions /\ PMUConfigs = <<>>
               /\ curConfig = NoGroup /\ offcoreEventIndex = 0 /\ mixed = FALSE /\ described = 0
               /\ groupNr = 0 /\ readable = {} /\ header = NoHeader /\ printOffsets = <<>> /\ rows = <<>>

Init ==
    /\ part \in {"events", "csv", "http", "metrics", "docs", "pcie", "raw"}
    /\ IF part = "events" THEN EventsInit ELSE EventsIdle
    /\ IF part = "csv" THEN CsvInit ELSE CsvIdle
    /\ HttpInit
    /\ IF part = "metrics" THEN MetricsInit ELSE MetricsIdle
    /\ IF part = "docs" THEN DocsInit ELSE DocsIdle
    /\ IF part = "pcie" THEN PCIeInit ELSE PCIeIdle
    /\ IF part = "raw" THEN RawInit ELSE RawIdle

Next ==
    /\ UNCHANGED part
    /\ \/ /\ part = "events" /\ EventsNext
          /\ UNCHANGED <<csvVars, httpVars, metricVars, docVars, pcieVars, rawVars>>
       \/ /\ part = "csv" /\ CsvNext
          /\ UNCHANGED <<eventsVars, httpVars, metricVars, docVars, pcieVars, rawVars>>
       \/ /\ part = "http" /\ HttpNext
          /\ UNCHANGED <<eventsVars, csvVars, metricVars, docVars, pcieVars, rawVars>>
       \/ /\ part = "metrics" /\ MetricsNext
          /\ UNCHANGED <<eventsVars, csvVars, httpVars, docVars, pcieVars, rawVars>>
       \/ /\ part = "docs" /\ DocsNext
          /\ UNCHANGED <<eventsVars, csvVars, httpVars, metricVars, pcieVars, rawVars>>
       \/ /\ part = "pcie" /\ PCIeNext
          /\ UNCHANGED <<eventsVars, csvVars, httpVars, metricVars, docVars, rawVars>>
       \/ /\ part = "raw" /\ RawNext
          /\ UNCHANGED <<eventsVars, csvVars, httpVars, metricVars, docVars, pcieVars>>

Spec == Init /\ [][Next]_<<part, eventsVars, csvVars, httpVars, metricVars, docVars, pcieVars, rawVars>>

-----------------------------------------------------------------------------
(* Platforms: model, stepping, sockets, ports, HBM.                        *)
P(m, st, s, po, h) == [model |-> m, stepping |-> st, sockets |-> s, ports |-> po, hbm |-> h]
MCPlatforms ==
    {P(m, 1, 2, 2, FALSE) : m \in {"JAKETOWN", "IVYTOWN", "HASWELLX", "BDX", "SKX", "ICX", "SPR",
                                   "EMR", "GNR", "SRF"}}
    \cup {P(m, 1, 1, 0, FALSE) : m \in {"SNOWRIDGE", "BDX_DE", "SKX", "GRR", "GNR_D"}}
    \cup {P("SKX", 6, 2, 2, FALSE), P("SKX", 11, 2, 2, FALSE), P("KNL", 1, 1, 0, TRUE),
          P("SPR", 1, 2, 2, TRUE)}
MCRanks == {-1, 0, 5}
MCImc   == {-1, 1, 3, 4}
MCPcu   == {-1} \cup 0 .. 8

MCCsvPlatforms ==
    {P("SKX", 6, 2, 2, FALSE), P("SPR", 1, 2, 2, TRUE), P("GNR", 1, 2, 2, FALSE),
     P("SKL", 1, 1, 0, FALSE), P("HASWELLX", 1, 2, 2, FALSE), P("ATOM", 1, 1, 0, FALSE),
     P("ICX", 1, 1, 0, FALSE), P("EMR", 1, 1, 0, FALSE)}
AllFlags == {"AFREQ", "L3MISS", "L2MISS", "L3HIT", "L2HIT", "TMA1", "TMA2", "L3OCC", "LMB", "RMB",
             "UFREQ"}
MCCoreFlags == {AllFlags, {}}
               \cup {AllFlags \ {f} : f \in {"L3MISS", "L2HIT", "TMA2", "L3OCC", "UFREQ"}}

MP(m, st, s, h, g, t) == [model |-> m, stepping |-> st, sockets |-> s, ports |-> 2, hbm |-> h,
                          gen |-> g, threads |-> 2, tma |-> t]
MCMetricPlatforms ==
    {MP("SKX", 6, 2, FALSE, 4, FALSE), MP("SPR", 1, 2, TRUE, 8, TRUE), MP("GNR", 1, 2, FALSE, 8, TRUE)}
    \cup {MP(m, 1, 1, FALSE, 4, FALSE) : m \in {"ATOM", "KNL", "HASWELL", "IVYTOWN", "BDX",
                                                "NEHALEM_EP", "SRF"}}
    \cup {MP("SKL", 1, 1, FALSE, 2, FALSE), MP("ICX", 1, 2, FALSE, 3, TRUE),
          MP("BROADWELL", 1, 1, FALSE, 3, FALSE), MP("ADL", 1, 1, FALSE, 6, TRUE)}

NoAccel == [name |-> "", devices |-> 0, counters |-> <<>>]
IAA == [name |-> "iaa", devices |-> 2, counters |-> << <<"Inbound_BW", "(Bps)">>, <<"ShareWQ_ReqNb", "">> >>]
OneThread(id)  == [id |-> id, threads |-> <<0>>]
TwoThreads(id) == [id |-> id, threads |-> <<0, 1>>]
H(sockets, server, ports, nm, dies, ufreq, accel, pcie) ==
    [sockets |-> sockets, server |-> server, links |-> ports, nearMemory |-> nm, ufsDies |-> dies,
     ufreq |-> ufreq, accel |-> accel, pcie |-> pcie]
MCHosts ==
    {H(<< <<OneThread(0)>> >>, FALSE, 0, FALSE, 0, FALSE, NoAccel, <<>>),
     H(<< <<OneThread(0), TwoThreads(4)>> >>, TRUE, 2, FALSE, 0, TRUE, NoAccel, <<>>),
     H(<< <<TwoThreads(0), TwoThreads(1)>>, <<TwoThreads(0), OneThread(1)>> >>, TRUE, 2, FALSE, 1, TRUE,
       NoAccel, <<"PCIRdCur", "ItoM">>),
     H(<< <<TwoThreads(0)>>, <<TwoThreads(0)>> >>, TRUE, 1, TRUE, 2, TRUE, IAA, <<"PCIRdCur", "ItoM">>)}

R(method, framing) ==
    [n |-> 0, lineok |-> TRUE, headersok |-> TRUE, method |-> method, proto |-> "1.1",
     path |-> "/persecond", host |-> TRUE, accept |-> "JSON", connection |-> "keep-alive",
     framing |-> framing, chunk |-> FALSE, trailer |-> FALSE, expect |-> "none"]
Get == R("GET", "none")
MCRequests ==
    {Get, [Get EXCEPT !.connection = ""], [Get EXCEPT !.host = FALSE], [Get EXCEPT !.accept = "other"],
     [Get EXCEPT !.lineok = FALSE], [Get EXCEPT !.headersok = FALSE],
     [R("HEAD", "none") EXCEPT !.path = "/persecond/31"],
     R("POST", "none"), R("POST", "length"), R("OPTIONS", "none"), R("PUT", "chunked"),
     [R("PUT", "length") EXCEPT !.expect = "other"], [R("PUT", "chunked") EXCEPT !.chunk = TRUE],
     [R("PUT", "chunked") EXCEPT !.trailer = TRUE]}

RawEvent(id, by, pmu) ==
    [id |-> id, by |-> by, pmu |-> pmu, known |-> TRUE, fixed |-> {}, tma |-> FALSE, counters |-> {0, 1, 2},
     offcore |-> 0, modifier |-> "supported", found |-> 1, last |-> ","]
Offcore(id) == [RawEvent(id, "name", "core") EXCEPT !.offcore = 2, !.counters = {0, 1}]
MCRawEvents ==
  {Offcore("ocr_a"), [Offcore("ocr_b") EXCEPT !.last = ";"], [Offcore("ocr_c") EXCEPT !.modifier = "ignored"],
   [Offcore("latency") EXCEPT !.offcore = 1],
   [RawEvent("inst", "name", "core") EXCEPT !.last = ";"], [RawEvent("one", "name", "core") EXCEPT !.counters = {0}],
   RawEvent("raw", "config", "core"), [RawEvent("fixed", "config", "core") EXCEPT !.fixed = {1, 4}],
   [RawEvent("slots", "config", "core") EXCEPT !.fixed = {4}, !.tma = TRUE],
   RawEvent("atom", "config", "atom"), RawEvent("tor", "name", "cha"),
   [RawEvent("flits", "config", "xpi") EXCEPT !.last = ";"], RawEvent("clocks", "config", "imc"),
   [RawEvent("clk", "config", "ubox") EXCEPT !.fixed = {1}], RawEvent("freq", "config", "pcu"),
   RawEvent("msr", "MSR_EVENT", "package_msr"), RawEvent("therm", "config", "thread_msr"),
   [RawEvent("reg", "config", "pcicfg") EXCEPT !.found = 2], RawEvent("uncore_freq", "config", "tpmi"),
   [RawEvent("bad_mod", "name", "core") EXCEPT !.modifier = "unsupported"],
   [RawEvent("no_pmu", "name", "cxlcm") EXCEPT !.known = FALSE],
   RawEvent("no_event", "missing", "core"), RawEvent("text", "malformed", "core")}
RawUnits(pcu) ==
  [links |-> 2, channels |-> 1, controllers |-> 1, stacks |-> 1, ports |-> 1, boxes |-> 2, pcu |-> pcu]
MCRawMachines ==
  {[sockets |-> 2, cores |-> <<"core", "core">>, hybrid |-> FALSE, units |-> RawUnits(1),
    maxCore |-> 2, maxUncore |-> 1, tma |-> 4],
   [sockets |-> 1, cores |-> <<"core", "atom">>, hybrid |-> TRUE, units |-> RawUnits(2),
    maxCore |-> 1, maxUncore |-> 2, tma |-> 8]}
RawOption(t, e, p) == [transpose |-> t, extend |-> e, partial |-> p]
MCRawOptions ==
  {RawOption(FALSE, FALSE, {}), RawOption(TRUE, TRUE, {}), RawOption(TRUE, FALSE, {2}), RawOption(TRUE, TRUE, {2})}
=============================================================================
