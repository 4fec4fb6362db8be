------------------------------ MODULE Printers ------------------------------
(***************************************************************************)
(* The documents of pcm-sensor-server: the counters as JSON (JSONPrinter),  *)
(* the counters as Prometheus text (PrometheusPrinter), and the Grafana     *)
(* dashboards (dashboard.cpp) that query what the other two publish.        *)
(*                                                                         *)
(* A visitor is a script: the calls of startObject, endObject and          *)
(* printCounter, or of addToHierarchy, removeFromHierarchy and             *)
(* printCounter, in the order the dispatch methods make them on the        *)
(* topology of the host.  The values of counters are left out.             *)
(***************************************************************************)
EXTENDS Naturals, Sequences, FiniteSets, SequencesExt

\* The hosts: [sockets, server, links, nearMemory, ufsDies, ufreq, accel, pcie]
\*   sockets    sequence of sockets, each a sequence of cores [id, threads]
\*   links      getQPILinksPerSocket
\*   ufsDies    getNumUFSDies; ufreq: uncoreFrequencyMetricAvailable
\*   accel      [name, devices, counters]; counters, pairs of name and unit, <<>> for ACCEL_NOCONFIG
\*   pcie       the event names of the PCIeCollector, <<>> where it is not supported
CONSTANT Hosts

VARIABLES
  host,
  document,      \* what the request asked for: "JSON", "Prometheus", "none" before
  calls,         \* the calls of the visitor still to be made
  text,          \* the tokens of the JSON, or the lines of the Prometheus text
  hierarchy_,    \* the labels of PrometheusPrinter
  reader         \* who reads the JSON, see Dashboard

docVars == <<host, document, calls, text, hierarchy_, reader>>

MAX_C_STATE == 10
KeyAt(name, index) == <<name, index>>
Key(name) == KeyAt(name, 0)
Keys(strings) == [i \in DOMAIN strings |-> Key(strings[i])]
KeysUpTo(name, n) == [i \in 1 .. n |-> KeyAt(name, i - 1)]
Concat(parts) == FlattenSeq(parts)
NumSockets == Len(host.sockets)
HasAccel == host.accel.counters # <<>>
FullName(counter) == Key(counter[1] \o counter[2])
remove_string_inside_use(counter) == Key(counter[1])
AccelNames == [j \in DOMAIN host.accel.counters |-> FullName(host.accel.counters[j])]

----------------------------------------------------------------------------
(* JSONPrinter.                                                            *)

Start(name, ch) == <<[op |-> "start", name |-> name, ch |-> ch, more |-> FALSE]>>
End(ch, more) == <<[op |-> "end", name |-> Key(""), ch |-> ch, more |-> more]>>
Pairs(names) == [i \in DOMAIN names |-> [op |-> "counter", name |-> names[i], ch |-> "", more |-> TRUE]]
Object(name, members, more) == Start(name, "{") \o members \o End("}", more)

\* iterateVectorAndCallAccept: inside a list objects are not named
List(name, elements) ==
  Start(Key(name), "[")
  \o Concat([i \in DOMAIN elements |-> Object(Key(""), elements[i], TRUE)])
  \o End("]", TRUE)

CoreNames == <<"Instructions Retired Any", "Clock Unhalted Thread", "Clock Unhalted Ref",
  "L3 Cache Misses", "L3 Cache Hits", "L2 Cache Misses", "L2 Cache Hits", "L3 Cache Occupancy",
  "Invariant TSC", "SMI Count">>
StallNames == <<"Frontend Bound", "Bad Speculation", "Backend Bound", "Retiring",
  "Fetch Latency Bound", "Fetch Bandwidth Bound", "Branch Misprediction Bound",
  "Machine Clears Bound", "Memory Bound", "Core Bound", "Heavy Operations Bound",
  "Light Operations Bound">>
BandwidthNames == <<"Local Memory Bandwidth", "Remote Memory Bandwidth">>
NearMemoryNames == IF host.nearMemory THEN <<"NM HitRate", "NM Hits", "NM Misses", "NM Miss Bw">> ELSE <<>>
UncoreNames == <<"DRAM Writes", "DRAM Reads">> \o NearMemoryNames \o
  <<"Persistent Memory Writes", "Persistent Memory Reads", "Embedded DRAM Writes",
    "Embedded DRAM Reads", "Memory Controller IA Requests", "Memory Controller GT Requests",
    "Memory Controller IO Requests", "Package Joules Consumed", "PP0 Joules Consumed",
    "PP1 Joules Consumed", "DRAM Joules Consumed">>

\* getUncoreFrequencies: the dies' frequencies, then the average
UncoreFrequencies == host.ufsDies + (IF host.ufreq THEN 1 ELSE 0)

JsonBasicCounterState ==
  Object(Key("Core Counters"),
         Pairs(Keys(CoreNames \o <<"Core Frequency">> \o StallNames)), TRUE)
  \o Object(Key("Energy Counters"),
            Pairs(<<Key("Thermal Headroom")>> \o KeysUpTo("CStateResidency", MAX_C_STATE + 1)), TRUE)
  \o Object(Key("Core Memory Bandwidth Counters"), Pairs(Keys(BandwidthNames)), FALSE)

JsonUncoreCounterState ==
  Object(Key("Uncore Counters"),
         Pairs(Keys(UncoreNames)
                  \o KeysUpTo("Uncore Frequency Die", UncoreFrequencies)
                  \o Keys(<<"Local Memory Request Ratio", "Remote Memory Request Ratio">>)
                  \o KeysUpTo("CStateResidency", MAX_C_STATE + 1)), FALSE)

PCIeNames == Keys(<<"PCIe Read Bytes", "PCIe Write Bytes">> \o host.pcie)
JsonPCIeCounterState ==
  IF host.pcie = <<>> THEN <<>>
  ELSE Concat([s \in 1 .. NumSockets |->
                 Object(KeyAt("PCIe Counters Socket", s - 1), Pairs(PCIeNames), TRUE)])
       \o Object(Key("PCIe Counters Aggregate"), Pairs(PCIeNames), FALSE)

JsonAccelCounterState ==
  Concat([i \in 1 .. host.accel.devices |->
            Object(KeyAt(host.accel.name \o " Counters Device", i - 1), Pairs(AccelNames), TRUE)])

LinkNames == <<"Incoming Data Traffic On Link", "Outgoing Data And Non-Data Traffic On Link",
  "Utilization Incoming Data Traffic On Link",
  "Utilization Outgoing Data And Non-Data Traffic On Link">>
CXLNames == <<"CXL Write Cache", "CXL Write Mem">>
LinkCounters ==
  Keys(CXLNames) \o Concat([j \in 1 .. host.links |-> [k \in DOMAIN LinkNames |-> KeyAt(LinkNames[k], j - 1)]])
JsonSystemCounterState ==
  Concat([s \in 1 .. NumSockets |-> Object(KeyAt("QPI Counters Socket", s - 1), Pairs(LinkCounters), TRUE)])

JsonThread == Pairs(Keys(<<"Object", "Thread ID", "OS ID">>)) \o JsonBasicCounterState
JsonCore(core) ==
  Pairs(Keys(<<"Object", "Number of threads">>))
  \o List("Threads", [t \in DOMAIN core.threads |-> JsonThread])
  \o Pairs(Keys(<<"Core ID", "HW Core ID", "Module ID", "Tile ID", "Die ID", "Die Group ID", "Socket ID">>))
JsonUncore == Pairs(<<Key("Object")>>) \o JsonUncoreCounterState
JsonSocket(cores) ==
  Pairs(Keys(<<"Object", "Socket ID", "Number of cores">>))
  \o List("Cores", [c \in DOMAIN cores |-> JsonCore(cores[c])])
  \o Object(Key("Uncore"), JsonUncore, TRUE)
  \o Object(Key("Core Aggregate"), JsonBasicCounterState, FALSE)
JsonSystemRoot ==
  Object(Key(""),
    Pairs(Keys(<<"Interval us", "Object", "Number of sockets">>))
    \o List("Sockets", [s \in 1 .. NumSockets |-> JsonSocket(host.sockets[s])])
    \o (IF HasAccel THEN Object(Key("Accelerators"), JsonAccelCounterState, TRUE) ELSE <<>>)
    \o Object(Key("QPI/UPI Links"), JsonSystemCounterState, TRUE)
    \o Object(Key("Core Aggregate"), JsonBasicCounterState, TRUE)
    \o Object(Key("Uncore Aggregate"), JsonUncoreCounterState, TRUE)
    \o Object(Key("PCIe Bandwidth"), JsonPCIeCounterState, FALSE), FALSE)

\* the text: tokens "open", "pair", "close" and "comma"
Token(t, name, ch) == [t |-> t, name |-> name, ch |-> ch]
Comma == Token("comma", Key(""), "")
startObject(name, ch) == Append(text, Token("open", name, ch))
printCounter(name) == text \o <<Token("pair", name, ""), Comma>>

\* endObject looks three characters back and deletes a delimiter it finds there
EndObjectKeepsComma(ch, more) ==
  text \o <<Token("close", Key(""), ch)>> \o (IF more THEN <<Comma>> ELSE <<>>)
endObject(ch, more) ==
  (IF text # <<>> /\ Last(text).t = "comma" THEN Front(text) ELSE text)
  \o <<Token("close", Key(""), ch)>> \o (IF more THEN <<Comma>> ELSE <<>>)

PrintJson ==
  /\ document = "JSON" /\ calls # <<>>
  /\ LET call == Head(calls)
     IN text' = CASE call.op = "start" -> startObject(call.name, call.ch)
                  [] call.op = "counter" -> printCounter(call.name)
                  [] call.op = "end" -> endObject(call.ch, call.more)
  /\ calls' = Tail(calls)
  /\ UNCHANGED <<host, document, hierarchy_, reader>>

----------------------------------------------------------------------------
(* PrometheusPrinter.  A label is <<key, value, number>>.                  *)

Tag(key, value, number) == <<key, value, number>>
Source(s) == Tag("source", s, 0)
\* the blank and the hyphen become an underbar: no two names differ in nothing else
replaceIllegalCharsWithUnderbar(name) == [metric |-> name]

Series(name) == [op |-> "counter", name |-> name]
AllSeries(names) == [i \in DOMAIN names |-> Series(names[i])]
Under(label, script) == <<[op |-> "add", label |-> label]>> \o script \o <<[op |-> "remove"]>>

PromCStates ==
  Concat([i \in 1 .. MAX_C_STATE + 1 |->
            Under(Tag("index", "", i - 1), AllSeries(Keys(<<"CStateResidency", "RawCStateResidency">>)))])
PromBasicCounterState ==
  Under(Source("core"), AllSeries(Keys(CoreNames \o <<"Thermal Headroom">>)) \o PromCStates
                        \o AllSeries(Keys(BandwidthNames)))
PromUncoreCounterState == Under(Source("uncore"), AllSeries(Keys(UncoreNames)) \o PromCStates)

PromSocketLabel(s) == Tag("socket", "", s - 1)
PromPCIeCounterState ==
  IF host.pcie = <<>> THEN <<>>
  ELSE Under(Source("uncore"),
             Concat([s \in 1 .. NumSockets |-> Under(PromSocketLabel(s), AllSeries(PCIeNames))])
             \o AllSeries(PCIeNames))
AccelDevice(i) == Tag(host.accel.name \o "device", "", i - 1)
PromAccelCounterState ==
  Under(Source("accel"),
        Concat([i \in 1 .. host.accel.devices |->
                  Under(AccelDevice(i),
                        [j \in DOMAIN host.accel.counters |->
                           Series(remove_string_inside_use(host.accel.counters[j]))])]))
PromSystemCounterState ==
  Under(Source("uncore"),
        Concat([s \in 1 .. NumSockets |-> Under(PromSocketLabel(s), AllSeries(LinkCounters))]))

PromThread(thread) ==
  Under(Tag("thread", "", thread), <<Series(Key("OS ID"))>> \o PromBasicCounterState)
PromCore(core) ==
  Under(Tag("core", "", core.id), Concat([t \in DOMAIN core.threads |-> PromThread(core.threads[t])]))
PromSocket(cores, s) ==
  Under(PromSocketLabel(s),
        Concat([c \in DOMAIN cores |-> PromCore(cores[c])])
        \o PromUncoreCounterState
        \o Under(Tag("aggregate", "socket", 0), PromBasicCounterState))
PromSystemRoot ==
  AllSeries(Keys(<<"Measurement Interval in us", "Number of sockets">>))
  \o Concat([s \in 1 .. NumSockets |-> PromSocket(host.sockets[s], s)])
  \o Under(Tag("aggregate", "system", 0),
       (IF HasAccel THEN PromAccelCounterState ELSE <<>>)
       \o (IF host.server /\ NumSockets >= 2 THEN PromSystemCounterState ELSE <<>>)
       \o PromBasicCounterState \o PromUncoreCounterState \o PromPCIeCounterState)

PrintPrometheus ==
  /\ document = "Prometheus" /\ calls # <<>>
  /\ LET call == Head(calls)
     IN \/ call.op = "add" /\ hierarchy_' = Append(hierarchy_, call.label) /\ UNCHANGED text
        \/ call.op = "remove" /\ hierarchy_' = Front(hierarchy_) /\ UNCHANGED text
        \/ /\ call.op = "counter" /\ UNCHANGED hierarchy_
           /\ text' = Append(text, [name |-> replaceIllegalCharsWithUnderbar(call.name),
                                    labels |-> hierarchy_])
  /\ calls' = Tail(calls)
  /\ UNCHANGED <<host, document, reader>>
=============================================================================
