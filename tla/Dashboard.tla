------------------------------ MODULE Dashboard ------------------------------
(***************************************************************************)
(* getPCMDashboardJSON of dashboard.cpp: the queries of the Grafana         *)
(* dashboards for InfluxDB (paths into the JSON document) and Prometheus    *)
(* (selectors over the Prometheus text).  Titles, sizes and positions of    *)
(* panels and the arithmetic around a query are left out; a panel is the    *)
(* set of its targets, a target the set of the queries in its expression.   *)
(***************************************************************************)
EXTENDS Printers

Sockets == 0 .. NumSockets - 1
Links == 0 .. host.links - 1

\* createTarget: one of the two expressions, by the type of the dashboard
Target(paths, selectors) == [InfluxDB |-> paths, Prometheus |-> selectors]

\* influxDB_Counters
InSocket(s, path) == <<Key("Sockets"), KeyAt("", s)>> \o path
CoreAggregate(m) == Keys(<<"Core Aggregate", "Core Counters", m>>)
UncoreCounters(key) == <<Key("Uncore"), Key("Uncore Counters"), key>>
LinkPath(s, key) == <<Key("QPI/UPI Links"), KeyAt("QPI Counters Socket", s), key>>

prometheusMetric(key) == [metric |-> key]
prometheusSystem == {Tag("aggregate", "system", 0)}
SocketNotAggregated(s, aggregate) == {Tag("socket", "", s)}
prometheusSocket(s, aggregate) ==
  {Tag("socket", "", s)} \cup (IF aggregate THEN {Tag("aggregate", "socket", 0)} ELSE {})
prometheusCounters(key, labels) == [name |-> prometheusMetric(key), labels |-> labels]

\* a counter of the uncore of a socket, in both backends
Uncore(s, key) == Target({InSocket(s, UncoreCounters(key))}, {prometheusCounters(key, prometheusSocket(s, FALSE))})
Merge(targets) == Target(UNION {t.InfluxDB : t \in targets}, UNION {t.Prometheus : t \in targets})
CoreOf(s, m) == Target({InSocket(s, CoreAggregate(m))}, {prometheusCounters(Key(m), prometheusSocket(s, TRUE))})
CoreOfSystem(m) == Target({CoreAggregate(m)}, {prometheusCounters(Key(m), prometheusSystem)})

----------------------------------------------------------------------------
(* The panels, in the order of the code.                                   *)

Scaled(m) == {CoreOf(s, m) : s \in Sockets} \cup {CoreOfSystem(m)}

UncoreFrequencyPanels ==
  {Uncore(s, KeyAt("Uncore Frequency Die", d)) :
     s \in Sockets, d \in 0 .. (IF host.ufsDies > 1 THEN host.ufsDies ELSE 1) - 1}

EnergyPanels ==
  {Uncore(s, Key(m)) : s \in Sockets, m \in {"Package Joules Consumed", "DRAM Joules Consumed",
                                              "PP0 Joules Consumed", "PP1 Joules Consumed"}}

Traffic == {"DRAM Reads", "DRAM Writes", "Persistent Memory Reads", "Persistent Memory Writes"}
MemoryPanels ==
  {Merge({Uncore(s, Key(m)) : m \in Traffic}) : s \in Sockets}
  \cup {Merge({Target({Keys(<<"Uncore Aggregate", "Uncore Counters", m>>)},
                      {prometheusCounters(Key(m), prometheusSystem)}) : m \in Traffic})}
SocketMemoryPanels ==
  {Uncore(s, Key(m)) : s \in Sockets, m \in Traffic}
  \cup {Target({LinkPath(s, Key(m))}, {prometheusCounters(Key(m), prometheusSocket(s, FALSE))}) :
          s \in Sockets, m \in {"CXL Write Mem", "CXL Write Cache"}}
  \cup {Merge({Uncore(s, Key(m \o "Writes")), Uncore(s, Key(m \o "Reads"))}) :
          s \in Sockets, m \in {"DRAM ", "Persistent Memory "}}
NearMemoryPanels ==
  IF host.nearMemory
  THEN {Uncore(s, Key(m)) : s \in Sockets, m \in {"NM Hits", "NM Misses", "NM Miss Bw", "NM HitRate"}}
  ELSE {}
RatioPanels == {Merge({Uncore(s, Key(m)) : m \in Traffic}) : s \in Sockets}

\* stacked, for InfluxDB only
RequestRatioPanels ==
  {Uncore(s, Key(m)) : s \in Sockets, m \in {"Local Memory Request Ratio", "Remote Memory Request Ratio"}}
StallPanels == {CoreOf(s, m) : s \in Sockets, m \in Range(StallNames)}

upi(m) ==
  {Target({LinkPath(s, KeyAt(m, l))},
          {prometheusCounters(KeyAt(m, l), prometheusSystem \cup {Tag("socket", "", s)})}) :
     s \in Sockets, l \in Links}

ResidencyStates == 0 .. MAX_C_STATE
cstate(path, source) ==
  LET Raw(c) == {prometheusCounters(Key("RawCStateResidency"),
                                    prometheusSystem \cup {Tag("index", "", c), Source(source)}),
                 prometheusCounters(Key("Invariant TSC"), prometheusSystem)}
      Computed(e) == UNION {Raw(c) : c \in ResidencyStates \ {e}}
      computed == IF source = "core" THEN 1 ELSE 0
  IN {Target({path \o <<KeyAt("CStateResidency", c)>>}, IF c = computed THEN Computed(c) ELSE Raw(c)) :
        c \in ResidencyStates}

derived(dividend, divisor) ==
  {Merge({CoreOf(s, dividend), CoreOf(s, divisor)}) : s \in Sockets}
  \cup {Merge({CoreOfSystem(dividend), CoreOfSystem(divisor)})}

AccelPanels ==
  {Target({<<Key("Accelerators"), KeyAt(host.accel.name \o " Counters Device", i - 1), FullName(host.accel.counters[j])>>},
          {prometheusCounters(remove_string_inside_use(host.accel.counters[j]),
                              prometheusSystem \cup {Source("accel"), AccelDevice(i)})}) :
     i \in 1 .. host.accel.devices, j \in DOMAIN host.accel.counters}

OnlyInfluxDB(type, panels) == IF type = "InfluxDB" THEN panels ELSE {}

getPCMDashboardJSON(type) ==
  OnlyInfluxDB(type, Scaled("Core Frequency") \cup UncoreFrequencyPanels)
  \cup EnergyPanels \cup MemoryPanels \cup SocketMemoryPanels \cup NearMemoryPanels \cup RatioPanels
  \cup OnlyInfluxDB(type, RequestRatioPanels)
  \cup UNION {upi(LinkNames[k]) : k \in DOMAIN LinkNames}
  \cup cstate(Keys(<<"Core Aggregate", "Energy Counters">>), "core")
  \cup cstate(Keys(<<"Uncore Aggregate", "Uncore Counters">>), "uncore")
  \cup derived("Instructions Retired Any", "Clock Unhalted Thread")
  \cup OnlyInfluxDB(type, StallPanels)
  \cup derived("Clock Unhalted Thread", "Clock Unhalted Ref")
  \cup derived("L3 Cache Misses", "Instructions Retired Any")
  \cup derived("L2 Cache Misses", "Instructions Retired Any")
  \cup UNION {Scaled(m) : m \in {"Instructions Retired Any", "Clock Unhalted Thread", "L2 Cache Hits",
                                 "L2 Cache Misses", "L3 Cache Hits", "L3 Cache Misses"}}
  \cup (IF HasAccel THEN AccelPanels ELSE {})

\* the host variable of a Prometheus dashboard: label_values(Number_of_sockets, instance)
HostQuery == prometheusCounters(Key("Number of sockets"), {})

Paths == UNION {t.InfluxDB : t \in getPCMDashboardJSON("InfluxDB")}
Selectors == UNION {t.Prometheus : t \in getPCMDashboardJSON("Prometheus")} \cup {HostQuery}

----------------------------------------------------------------------------
(* What a reader makes of the documents: a parser of JSON, which knows     *)
(* nothing of the printer, and the matching of selectors.                  *)

Level(path, ch) == [path |-> path, ch |-> ch, keys |-> {}, count |-> 0]
ReaderInit == [ok |-> TRUE, want |-> "value", stack |-> <<>>, leaves |-> {}]

\* the parser after a member, open or pair, of the innermost level
MemberOf(p, token) ==
  IF p.stack = <<>> THEN [ok |-> token.t = "open" /\ token.name = Key(""), step |-> <<>>]
  ELSE LET level == Last(p.stack)
       IN IF level.ch = "{"
          THEN [ok |-> token.name # Key("") /\ token.name \notin level.keys, step |-> <<token.name>>]
          ELSE [ok |-> token.t = "open" /\ token.name = Key(""), step |-> <<KeyAt("", level.count)>>]
Entered(stack, name) ==
  IF stack = <<>> THEN stack
  ELSE Front(stack) \o <<[Last(stack) EXCEPT !.keys = @ \cup {name}, !.count = @ + 1]>>
ParseToken(p, token) ==
  LET path == IF p.stack = <<>> THEN <<>> ELSE Last(p.stack).path
      member == MemberOf(p, token)
      good == p.ok /\ member.ok /\ p.want \in {"value", "first"}
  IN CASE token.t = "open" ->
            [p EXCEPT !.ok = good, !.want = "first",
                      !.stack = Append(Entered(p.stack, token.name), Level(path \o member.step, token.ch))]
       [] token.t = "pair" ->
            [p EXCEPT !.ok = good, !.want = "comma", !.stack = Entered(p.stack, token.name),
                      !.leaves = @ \cup {path \o member.step}]
       [] token.t = "comma" -> [p EXCEPT !.ok = @ /\ p.want = "comma" /\ p.stack # <<>>, !.want = "value"]
       [] token.t = "close" ->
            IF p.stack = <<>> THEN [p EXCEPT !.ok = FALSE]
            ELSE [p EXCEPT !.ok = @ /\ p.want \in {"first", "comma"}
                                    /\ <<Last(p.stack).ch, token.ch>> \in {<<"{", "}">>, <<"[", "]">>},
                           !.want = "comma", !.stack = Front(@)]

\* a client reads the JSON when all of it is there
ReadJson ==
  /\ document = "JSON" /\ calls = <<>> /\ text # <<>>
  /\ reader' = ParseToken(reader, Head(text))
  /\ text' = Tail(text)
  /\ UNCHANGED <<host, document, calls, hierarchy_>>

Selects(selector, line) == selector.name = line.name /\ selector.labels \subseteq Range(line.labels)

----------------------------------------------------------------------------
(* The server: a request prints one document (my_get_callback).            *)

DocsInit ==
  /\ host \in Hosts
  /\ document = "none" /\ calls = <<>> /\ text = <<>> /\ hierarchy_ = <<>>
  /\ reader = ReaderInit

Serve(kind) ==
  /\ document = "none"
  /\ document' = kind
  /\ calls' = IF kind = "JSON" THEN JsonSystemRoot ELSE PromSystemRoot
  /\ UNCHANGED <<host, text, hierarchy_, reader>>

DocsNext == (\E kind \in {"JSON", "Prometheus"} : Serve(kind)) \/ PrintJson \/ PrintPrometheus \/ ReadJson
DocsSpec == DocsInit /\ [][DocsNext]_docVars

JsonRead == document = "JSON" /\ calls = <<>> /\ text = <<>>
PrometheusPrinted == document = "Prometheus" /\ calls = <<>>

----------------------------------------------------------------------------
(* Properties.                                                             *)

\* Every document is well formed, for every topology and every set of available metrics.  The
\* JSON has its delimiters exactly between members, closes what it opens with the bracket that
\* belongs to it, and repeats no key of an object (startObject, endObject and the trailing
\* delimiters of printCounter).  The Prometheus text leaves no label behind in hierarchy_,
\* repeats no label key in a line, and prints no series twice (addToHierarchy and
\* removeFromHierarchy over the whole traversal).
DocumentsWellFormed ==
  /\ reader.ok
  /\ JsonRead => reader.stack = <<>> /\ reader.want = "comma"
  /\ PrometheusPrinted =>
       LET series == {[name |-> text[i].name, labels |-> Range(text[i].labels)] : i \in DOMAIN text}
       IN /\ hierarchy_ = <<>>
          /\ Cardinality(series) = Len(text)
          /\ \A l \in series : \A a, b \in l.labels : a[1] = b[1] => a = b

\* The queries of the dashboards meet the printers: every path of the InfluxDB dashboard is a
\* value of the JSON document, and every selector of the Prometheus dashboard selects exactly
\* one series of the Prometheus text.  Not so, by the code: the queries for CXL and links where
\* the Prometheus printer leaves the links out (one socket, or no server), and the frequency of
\* die 0 where no uncore frequency is known (getPCMDashboardJSON and the two printers, which
\* share no names).
LinksPublished == host.server /\ NumSockets >= 2
DashboardFinds ==
  /\ JsonRead =>
       \A p \in Paths \ reader.leaves :
         UncoreFrequencies = 0 /\ Last(p) = KeyAt("Uncore Frequency Die", 0)
  /\ PrometheusPrinted =>
       \A q \in Selectors :
         IF q.name.metric[1] \in Range(LinkNames \o CXLNames) /\ ~LinksPublished
         THEN \A i \in DOMAIN text : ~Selects(q, text[i])
         ELSE Cardinality({i \in DOMAIN text : Selects(q, text[i])}) = 1

\* What the server prints can be read, and what the dashboards ask for is there:
\* DocumentsWellFormed and DashboardFinds (the printers of pcm-sensor-server and dashboard.cpp).
DocumentsServe == DocumentsWellFormed /\ DashboardFinds
=============================================================================
