-------------------------------- MODULE PCIe --------------------------------
(***************************************************************************)
(* pcm-pcie: the platforms, which count the transfers of PCIe devices in   *)
(* the caching agents, group of events after group of events, and the      *)
(* PCIeCollector, which runs a platform in a thread of pcm-sensor-server   *)
(* and accumulates what it counts for the threads that print.              *)
(*                                                                         *)
(* An event code is a record of the fields that the code extracts from it. *)
(* traffic is what happens on each socket in every window of time (groups  *)
(* are scaled as if it were the same in all): transfers of one kind that   *)
(* miss and that hit the cache, and requests of the cores that use the     *)
(* same opcode.                                                            *)
(***************************************************************************)
EXTENDS Integers, Sequences, FiniteSets, SequencesExt, FiniteSetsExt

CONSTANTS
    PCIeModels,      \* CPU models
    SocketCount,     \* m_socketCount
    MaxCollections,  \* bound: collections of the background thread
    MaxDocuments     \* bound: documents printed

Skts == 0 .. SocketCount - 1

VARIABLES
    cpu,          \* the CPU model
    traffic,      \* what every socket does in each window
    evGroup,      \* number of groups of events measured in this collection
    eventSample,  \* [socket -> [position -> count]]
    cum,          \* cumSnapshot_, cumAggregate_, cumRawValues_
    published,    \* snapshot_, aggregate_, rawValues_, rawAggValues_, under mu_
    bgRunning_,
    collector,    \* the background thread: "idle", "collect", "measure", "publish", "wait", "ended"
    collections,
    measured,     \* what the devices transferred in all windows: [socket -> [kind -> count]]
    seen,         \* what the document in the making has read
    documents     \* the finished documents

pcieVars == <<cpu, traffic, evGroup, eventSample, cum, published, bgRunning_, collector,
              collections, measured, seen, documents>>

-----------------------------------------------------------------------------
(***************************************************************************)
(* The platforms: names of events, groups of event codes (those of one     *)
(* group count together), the positions of each name's counts, and the     *)
(* names whose transfers make up the read and the write bandwidth.         *)
(***************************************************************************)
\* Codes with an extended unit mask, which selects the requests of I/O
\* devices (or of the cores, for MMIO) and the outcome.
Miss(kind) == [opc |-> kind, hit |-> FALSE, nc |-> FALSE, flt |-> FALSE, tid |-> FALSE]
Hit(kind)  == [Miss(kind) EXCEPT !.hit = TRUE]

TwoGroups == << <<Miss("PCIRdCur"), Hit("PCIRdCur"), Miss("ItoM"), Hit("ItoM")>>,
                <<Miss("ItoMCacheNear"), Hit("ItoMCacheNear"), Miss("UCRdF"), Miss("WiL")>> >>
ThreeGroups == Append(TwoGroups, <<Miss("WCiL"), Miss("WCiLF")>>)

\* Positions of an enumeration: a name counted by miss and hit, or by miss only.
Both(i)     == [miss |-> i, hit |-> i + 1]
OnlyMiss(i) == [miss |-> i, hit |-> -1]

SevenNames == <<"PCIRdCur", "ItoM", "ItoMCacheNear", "UCRdF", "WiL", "WCiL", "WCiLF">>
SevenAt    == <<Both(0), Both(2), Both(4), OnlyMiss(6), OnlyMiss(7), OnlyMiss(8), OnlyMiss(9)>>

BirchStreamPlatform ==
    [names |-> SevenNames, groups |-> ThreeGroups, style |-> "hit", at |-> SevenAt,
     read |-> <<"PCIRdCur">>, write |-> <<"ItoM", "ItoMCacheNear">>]

LoganvillePlatform ==
    [names |-> SevenNames, groups |-> ThreeGroups, style |-> "hit", at |-> SevenAt,
     read |-> <<"PCIRdCur">>, write |-> <<"ItoM", "ItoMCacheNear">>]

EagleStreamPlatform ==
    [names |-> SevenNames, groups |-> ThreeGroups, style |-> "hit", at |-> SevenAt,
     read |-> <<"PCIRdCur">>, write |-> <<"ItoM", "ItoMCacheNear">>]

WhitleyPlatform ==
    [names |-> SubSeq(SevenNames, 1, 5), groups |-> TwoGroups, style |-> "hit",
     at |-> SubSeq(SevenAt, 1, 5), read |-> <<"PCIRdCur">>, write |-> <<"ItoM", "ItoMCacheNear">>]

\* One event at a time: the groups hold one code each.
InPairs(names, first(_), second(_)) ==
    [i \in 1 .. 2 * Len(names) |->
        IF i % 2 = 1 THEN <<first(names[(i + 1) \div 2])>> ELSE <<second(names[i \div 2])>>]
PairAt(names) == [i \in 1 .. Len(names) |-> Both(2 * (i - 1))]

LegacyNames == <<"PCIRdCur", "RFO", "CRd", "DRd", "ItoM", "PRd", "WiL">>

PurleyPlatform ==
    LET NonCoherent(k) == k \in {"PRd", "WiL"}
    IN  [names |-> LegacyNames, style |-> "hit", at |-> PairAt(LegacyNames),
         groups |-> InPairs(LegacyNames, LAMBDA k : [Miss(k) EXCEPT !.nc = NonCoherent(k)],
                                        LAMBDA k : [Hit(k) EXCEPT !.nc = NonCoherent(k)]),
         read |-> <<"PCIRdCur", "RFO", "CRd", "DRd">>, write |-> <<"RFO", "ItoM">>]

GrantleyPlatform ==
    LET ByThread(k) == k \in {"RFO", "ItoM"}
    IN  [names |-> LegacyNames, style |-> "total", at |-> PairAt(LegacyNames),
         groups |-> InPairs(LegacyNames,
                           LAMBDA k : [Miss(k) EXCEPT !.flt = TRUE, !.tid = ByThread(k)],
                           LAMBDA k : [Miss(k) EXCEPT !.tid = ByThread(k)]),
         read |-> <<"PCIRdCur", "RFO", "CRd", "DRd">>, write |-> <<"RFO", "ItoM">>]

BromolowNames == <<"PCIeRdCur", "PCIeNSRd", "PCIeWiLF", "PCIeItoM", "PCIeNSWr", "PCIeNSWrF">>
BromolowPlatform ==
    [names |-> BromolowNames, style |-> "total", at |-> PairAt(BromolowNames),
     groups |-> InPairs(BromolowNames, LAMBDA k : [Miss(k) EXCEPT !.flt = TRUE], Miss),
     read |-> <<"PCIeRdCur", "PCIeNSWr">>,
     write |-> <<"PCIeWiLF", "PCIeItoM", "PCIeNSWr", "PCIeNSWrF">>]

\* IPlatform::getPlatform
getPlatform ==
    CASE cpu \in {"GNR", "GNR_D", "SRF"}                 -> BirchStreamPlatform
      [] cpu \in {"GRR"}                                 -> LoganvillePlatform
      [] cpu \in {"SPR", "EMR"}                          -> EagleStreamPlatform
      [] cpu \in {"ICX", "SNOWRIDGE"}                    -> WhitleyPlatform
      [] cpu \in {"SKX"}                                 -> PurleyPlatform
      [] cpu \in {"BDX_DE", "BDX", "KNL", "HASWELLX"}    -> GrantleyPlatform
      [] cpu \in {"IVYTOWN", "JAKETOWN"}                 -> BromolowPlatform

-----------------------------------------------------------------------------
(***************************************************************************)
(* PCM::programPCIeEventGroup: the unit mask of a code.  The older models  *)
(* are programmed with the first code of the group only.                   *)
(***************************************************************************)
Wide == {"GNR", "GNR_D", "GRR", "SRF", "SPR", "EMR", "ICX", "SNOWRIDGE"}

UMaskWithoutNC(code) ==
    CASE cpu \in Wide \cup {"SKX"} -> {IF cpu = "SKX" THEN "PRQ" ELSE "DEVICE",
                                       IF code.hit THEN "HIT" ELSE "MISS"}
      [] OTHER -> IF code.flt THEN {"MISS"} ELSE {"HIT", "MISS"}
UMask(code) ==
    CASE cpu \in Wide  -> {"DEVICE", IF code.hit THEN "HIT" ELSE "MISS"}
      [] cpu = "SKX"   -> {IF code.nc THEN "IRQ" ELSE "PRQ", IF code.hit THEN "HIT" ELSE "MISS"}
      [] OTHER         -> IF code.flt THEN {"MISS"} ELSE {"HIT", "MISS"}

programPCIeEventGroup(codes) ==
    [i \in 1 .. IF cpu \in Wide THEN Len(codes) ELSE 1 |->
        [opc |-> codes[i].opc, umask |-> UMask(codes[i]), tid |-> codes[i].tid, nc |-> codes[i].nc]]

\* External: the counter of a caching agent counts the requests of its opcode
\* that enter its table through the selected queue with the selected outcome.
\* PRd and WiL are MMIO requests of the cores (non-coherent, queue IRQ); the
\* requests of devices come through PRQ, or have the thread id of the devices.
MMIO == {"PRd", "WiL", "UCRdF", "WCiL", "WCiLF"}
CountsDevices(ctl) ==
    cpu = "SKX" => /\ (ctl.opc \in MMIO) = ("IRQ" \in ctl.umask)
                   /\ (ctl.opc \in MMIO) = ctl.nc
CountsCores(ctl) == CASE cpu \in Wide -> FALSE
                      [] cpu = "SKX"  -> "IRQ" \in ctl.umask /\ ctl.opc \notin MMIO
                      [] OTHER        -> ~ctl.tid
Counted(ctl, t) ==
    IF ctl.opc # t.kind THEN 0
    ELSE (IF CountsDevices(ctl) /\ "MISS" \in ctl.umask THEN t.miss ELSE 0)
         + (IF CountsDevices(ctl) /\ "HIT" \in ctl.umask THEN t.hit ELSE 0)
         + (IF CountsCores(ctl) THEN t.cores ELSE 0)

-----------------------------------------------------------------------------
(***************************************************************************)
(* LegacyPlatform                                                          *)
(***************************************************************************)
NumEvents == FoldSeq(LAMBDA g, n : n + Len(g), 0, getPlatform.groups)

\* eventGroupOffset of the g-th group
Offset(g) == FoldSeq(LAMBDA x, n : n + Len(x), 0, SubSeq(getPlatform.groups, 1, g - 1))

\* cleanup
Zeroes == [s \in Skts |-> [i \in 0 .. NumEvents - 1 |-> 0]]

\* getEventCount: what the counters gained between the two reads, scaled by
\* the number of groups that share the time.
getEventCount(before, after) == Len(getPlatform.groups) * (after - before)

\* getEventGroup: program a group, read its counters, wait, read them again.
\* lead is what the counters gained before the first read.
GroupSample(g, lead) ==
    LET ctl == programPCIeEventGroup(getPlatform.groups[g])
        gained(s, i) == IF i \in DOMAIN ctl THEN Counted(ctl[i], traffic[s]) ELSE 0
    IN  [s \in Skts |-> [p \in 0 .. NumEvents - 1 |->
            eventSample[s][p] +
            IF p \in Offset(g) .. Offset(g) + Len(getPlatform.groups[g]) - 1
            THEN LET i == p - Offset(g) + 1
                 IN  getEventCount(lead * gained(s, i), (lead + 1) * gained(s, i))
            ELSE 0]]

\* event(socket, filter, idx): the count of the idx-th name, from its misses
\* and hits, or from its misses and its total.
event(s, filter, i) ==
    LET at     == getPlatform.at[i]
        first  == eventSample[s][at.miss]
        second == IF at.hit = -1 THEN 0 ELSE eventSample[s][at.hit]
    IN  CASE filter = "MISS" -> first
          [] filter = "HIT" /\ getPlatform.style = "hit"     -> second
          [] filter = "HIT" /\ getPlatform.style = "total"   -> IF first < second THEN second - first ELSE 0
          [] filter = "TOTAL" /\ getPlatform.style = "hit"   -> first + second
          [] filter = "TOTAL" /\ getPlatform.style = "total" -> second

IndexOf(name) == CHOOSE i \in DOMAIN getPlatform.names : getPlatform.names[i] = name
Lines(s, filter, names) == FoldSeq(LAMBDA n, sum : sum + event(s, filter, IndexOf(n)), 0, names)
getReadBw(s, filter)  == 64 * Lines(s, filter, getPlatform.read)
getWriteBw(s, filter) == 64 * Lines(s, filter, getPlatform.write)

-----------------------------------------------------------------------------
(***************************************************************************)
(* PCIeCollector                                                           *)
(***************************************************************************)
NoBytes == [readBytes |-> 0, writeBytes |-> 0]
NameIndexes == DOMAIN getPlatform.names
NoTotals == [socket |-> [s \in Skts |-> NoBytes], aggregate |-> NoBytes,
             raw |-> [s \in Skts |-> [i \in NameIndexes |-> 0]], rawAggregate |-> [i \in NameIndexes |-> 0]]

PlusBytes(b, r, w) == [readBytes |-> b.readBytes + r, writeBytes |-> b.writeBytes + w]
OverSkts(f(_)) == FoldSet(LAMBDA s, n : n + f(s), 0, Skts)

\* The sums that collect() forms after the measurement.
Accumulated ==
    LET raw == [s \in Skts |-> [i \in NameIndexes |-> cum.raw[s][i] + event(s, "TOTAL", i)]]
    IN  [socket |-> [s \in Skts |->
                        PlusBytes(cum.socket[s], getReadBw(s, "TOTAL"), getWriteBw(s, "TOTAL"))],
         aggregate |-> PlusBytes(cum.aggregate, OverSkts(LAMBDA s : getReadBw(s, "TOTAL")),
                                                OverSkts(LAMBDA s : getWriteBw(s, "TOTAL"))),
         raw |-> raw,
         rawAggregate |-> [i \in NameIndexes |-> OverSkts(LAMBDA s : raw[s][i])]]

Kinds == ToSet(getPlatform.names)

\* One kind of transfers per socket.  MMIO requests of the new platforms
\* always miss; the cores use the opcodes of RFO and ItoM too.
LoadOf(k) == [kind |-> k, miss |-> 1, hit |-> IF k \in MMIO /\ cpu \in Wide THEN 0 ELSE 2,
              cores |-> IF k \in {"RFO", "ItoM"} THEN 1 ELSE 0]
Loads0 == {LoadOf(k) : k \in Kinds}
OtherLoad == [kind |-> getPlatform.names[1], miss |-> 2, hit |-> 1, cores |-> 0]

PCIeInit ==
    /\ cpu \in PCIeModels
    /\ \E load \in Loads0 : traffic = [s \in Skts |-> IF s = 0 THEN load ELSE OtherLoad]
    /\ evGroup = 0 /\ eventSample = Zeroes
    /\ cum = NoTotals /\ published = NoTotals
    /\ bgRunning_ = FALSE /\ collector = "idle" /\ collections = 0
    /\ measured = [s \in Skts |-> [k \in Kinds |-> 0]]
    /\ seen = <<>> /\ documents = <<>>

startBackground ==
    /\ collector = "idle" /\ ~bgRunning_
    /\ bgRunning_' = TRUE /\ collector' = "collect"
    /\ UNCHANGED <<cpu, traffic, evGroup, eventSample, cum, published, collections, measured,
                   seen, documents>>

\* collect(): begin, unless stopped, with cleared samples.
CollectBegins ==
    /\ collector = "collect"
    /\ IF bgRunning_
       THEN /\ collections < MaxCollections
            /\ eventSample' = Zeroes /\ evGroup' = 0
            /\ collections' = collections + 1
            /\ collector' = "measure"
       ELSE collector' = "ended" /\ UNCHANGED <<eventSample, evGroup, collections>>
    /\ UNCHANGED <<cpu, traffic, cum, published, bgRunning_, measured, seen, documents>>

\* getEvents(): one group after the other.
getEventGroup ==
    /\ collector = "measure" /\ evGroup < Len(getPlatform.groups)
    /\ eventSample' = GroupSample(evGroup + 1, collections)
    /\ evGroup' = evGroup + 1
    /\ measured' = [s \in Skts |-> [k \in Kinds |-> measured[s][k] +
                        IF k = traffic[s].kind THEN traffic[s].miss + traffic[s].hit ELSE 0]]
    /\ UNCHANGED <<cpu, traffic, cum, published, bgRunning_, collector, collections, seen, documents>>

CollectSums ==
    /\ collector = "measure" /\ evGroup = Len(getPlatform.groups)
    /\ cum' = Accumulated
    /\ collector' = "publish"
    /\ UNCHANGED <<cpu, traffic, evGroup, eventSample, published, bgRunning_, collections, measured,
                   seen, documents>>

\* The four results are published under one lock.
CollectPublished == published' = cum
CollectPublishes ==
    /\ collector = "publish"
    /\ CollectPublished
    /\ collector' = "wait"
    /\ UNCHANGED <<cpu, traffic, evGroup, eventSample, cum, bgRunning_, collections, measured, seen, documents>>

\* wait_for with a predicate: after the interval, or when stopped.
WaitEnds ==
    /\ collector = "wait"
    /\ collector' = IF bgRunning_ THEN "collect" ELSE "ended"
    /\ UNCHANGED <<cpu, traffic, evGroup, eventSample, cum, published, bgRunning_, collections, measured,
                   seen, documents>>

\* stop() of the main thread, which then joins the thread.
stop ==
    /\ bgRunning_ /\ bgRunning_' = FALSE
    /\ UNCHANGED <<cpu, traffic, evGroup, eventSample, cum, published, collector, collections, measured,
                   seen, documents>>

(***************************************************************************)
(* printPCIeCounterState: the bytes and the counts of one socket after the *)
(* other, then those of the aggregate, each read under the lock for itself.*)
(***************************************************************************)
ReadsAggregateFirst == [n \in 1 .. 2 * SocketCount + 2 |->
    IF n <= 2 THEN IF n % 2 = 1 THEN published.aggregate ELSE published.rawAggregate
    ELSE IF n % 2 = 1 THEN published.socket[(n - 3) \div 2] ELSE published.raw[(n - 3) \div 2]]
ReadsInOrder == [n \in 1 .. 2 * SocketCount + 2 |->
    IF n > 2 * SocketCount
    THEN IF n % 2 = 1 THEN published.aggregate ELSE published.rawAggregate
    ELSE IF n % 2 = 1 THEN published.socket[(n - 1) \div 2] ELSE published.raw[(n - 1) \div 2]]
printPCIeCounterState ==
    /\ Len(documents) < MaxDocuments
    /\ LET next == Append(seen, ReadsInOrder[Len(seen) + 1])
       IN  IF Len(next) < 2 * SocketCount + 2
           THEN seen' = next /\ UNCHANGED documents
           ELSE seen' = <<>> /\ documents' = Append(documents, next)
    /\ UNCHANGED <<cpu, traffic, evGroup, eventSample, cum, published, bgRunning_, collector,
                   collections, measured>>

PCIeNext ==
    \/ startBackground \/ CollectBegins \/ getEventGroup \/ CollectSums \/ CollectPublishes
    \/ WaitEnds \/ stop \/ printPCIeCounterState

PCIeSpec == PCIeInit /\ [][PCIeNext]_pcieVars

-----------------------------------------------------------------------------
(***************************************************************************)
(* After the last group every event of every socket is what the devices    *)
(* transferred in all windows, its misses and hits are those of the        *)
(* traffic, and the totals sum up all collections: event codes, unit       *)
(* masks, positions in the groups and the scaling fit together, and what   *)
(* the cores do by themselves is not counted.                              *)
(***************************************************************************)
Full == collector = "publish"
Transferred(s, names) ==
    FoldSet(LAMBDA k, n : n + measured[s][k], 0, Kinds \cap names)
Share(s, i, n) == IF getPlatform.names[i] = traffic[s].kind THEN Len(getPlatform.groups) * n ELSE 0

EventsExact ==
    \A s \in Skts, i \in NameIndexes :
        /\ event(s, "MISS", i)  = Share(s, i, traffic[s].miss)
        /\ event(s, "HIT", i)   = Share(s, i, traffic[s].hit)
        /\ event(s, "TOTAL", i) = Share(s, i, traffic[s].miss + traffic[s].hit)
        /\ cum.raw[s][i] = measured[s][getPlatform.names[i]]

\* The documented meaning of the events (print_events of pcm-pcie).
ReadEvents  == {"PCIRdCur", "PCIeRdCur", "RFO", "CRd", "DRd", "PCIeNSRd"}
WriteEvents == {"PCIeWiLF", "PCIeItoM", "PCIeNSWr", "PCIeNSWrF", "ItoM", "ItoMCacheNear", "RFO"}

\* pcm-pcie multiplies the transfers by 64: the bytes of the documented read
\* events on every platform.
ReadsDocumented ==
    Full => \A s \in Skts : cum.socket[s].readBytes = 64 * Transferred(s, ReadEvents)

\* After a collection each event, MISS, HIT and TOTAL, has the count of the transfers of that
\* name, and the bandwidths are the bytes of the documented events (EventsExact,
\* ReadsDocumented; the tables of eventGroups and getReadBw, getWriteBw of the platforms).
\* Excepted are the read bandwidths of Ivytown and Jaketown, see the run pcie_reads.
PCIeExact ==
    Full => /\ EventsExact
            /\ \A s \in Skts : cum.socket[s].writeBytes = 64 * Transferred(s, WriteEvents)
            /\ cpu \notin {"IVYTOWN", "JAKETOWN"} => ReadsDocumented

(***************************************************************************)
(* A document printed while the collector publishes never shows an         *)
(* aggregate below the sum of its sockets, nor a counter below the one     *)
(* that an earlier document showed.                                        *)
(***************************************************************************)
AggregateOf(d) == d[2 * SocketCount + 1]
SocketOf(d, s) == d[2 * s + 1]
PCIeConsistent ==
    /\ \A n \in DOMAIN documents :
          LET d == documents[n]
          IN  /\ OverSkts(LAMBDA s : SocketOf(d, s).readBytes) <= AggregateOf(d).readBytes
              /\ OverSkts(LAMBDA s : SocketOf(d, s).writeBytes) <= AggregateOf(d).writeBytes
              /\ \A i \in NameIndexes : OverSkts(LAMBDA s : d[2 * s + 2][i]) <= d[2 * SocketCount + 2][i]
    /\ \A n \in 2 .. Len(documents), s \in Skts :
          /\ SocketOf(documents[n - 1], s).readBytes <= SocketOf(documents[n], s).readBytes
          /\ SocketOf(documents[n - 1], s).writeBytes <= SocketOf(documents[n], s).writeBytes

(***************************************************************************)
(* The PCIe collector counts every event as what it is named for, and what *)
(* it publishes can be read without a lock over the whole document:        *)
(* PCIeExact and PCIeConsistent.                                           *)
(***************************************************************************)
PCIeFaithful == PCIeExact /\ PCIeConsistent
=============================================================================
