------------------------------- MODULE PcmRaw -------------------------------
(***************************************************************************)
(* pcm-raw: from the events on the command line and in event lists to the  *)
(* groups that are programmed one after the other, and to the columns that *)
(* are printed for them.                                                   *)
(*                                                                         *)
(* An event description is the record that its text or the event database  *)
(* stands for:                                                             *)
(*   id        its name,                                                   *)
(*   by        "config" (pmu/config=.../), "name" (in the event database), *)
(*             "MSR_EVENT", "missing" (not in the database) or "malformed",*)
(*   pmu       the PMU, and known, whether PMURegisterDeclarations has it, *)
(*   fixed     the fixed counters it sets; not empty for a fixed event,    *)
(*   tma       perf_metrics,                                               *)
(*   counters  the programmable counters that can count it,                *)
(*   offcore   how many MSRs can hold its filter, 0: not an offcore event, *)
(*   modifier  "supported", "ignored" or "unsupported",                    *)
(*   found     how many instances of a register the machine has,           *)
(*   last      the character at the end of its line.                       *)
(***************************************************************************)
EXTENDS Naturals, Sequences, FiniteSets, SequencesExt, TLC

CONSTANTS RawEvents,      \* event descriptions
          RawMachines,    \* [sockets, cores, hybrid, units, maxCore, maxUncore, tma], see Units
          RawOptions,     \* [transpose, extend, partial]: -tr, -ext, the cores of -yc
          MaxDescriptions \* bound: event descriptions of one command line

VARIABLES
  rawPc,              \* "options", "list" while an event list is read, "run", "measured", "exited"
  rawMachine,
  rawOptions,
  PMUConfigs,         \* the groups: PMU -> [fixed, programmable], sequences of configs
  curConfig,          \* the group of the event list that is being read
  offcoreEventIndex,
  mixed,              \* an event list has been read before an -e
  described,          \* event descriptions so far
  groupNr,
  readable,           \* the registers of program() that are read with the states
  header,             \* [h1, h2]: unit and PMU of each column; "none" before it is printed
  printOffsets,       \* PMU -> first column
  rows                \* what was printed for the latest group: [pmu, name, start, cells]

rawVars == <<rawPc, rawMachine, rawOptions, PMUConfigs, curConfig, offcoreEventIndex, mixed, described,
             groupNr, readable, header, printOffsets, rows>>

NoGroup == <<>>
NoOptions == [transpose |-> FALSE, extend |-> FALSE, partial |-> {}]
NoHeader == [h1 |-> <<>>, h2 |-> <<>>, printed |-> FALSE]
RawInit ==
  /\ rawPc = "options" /\ rawMachine \in RawMachines /\ rawOptions = NoOptions
  /\ PMUConfigs = <<NoGroup>> /\ curConfig = NoGroup /\ offcoreEventIndex = 0 /\ mixed = FALSE
  /\ described = 0 /\ groupNr = 0 /\ readable = {} /\ header = NoHeader /\ printOffsets = <<>>
  /\ rows = <<>>

----------------------------------------------------------------------------
(* Event descriptions to groups.                                            *)

isRegisterEvent(pmu) == pmu \in {"mmio", "pcicfg", "pmt", "tpmi", "package_msr", "thread_msr"}

\* operator[] of the map: an entry that is asked for is there from then on
Entry(group, pmu) ==
  IF pmu \in DOMAIN group THEN group ELSE (pmu :> [fixed |-> <<>>, programmable |-> <<>>]) @@ group

tooManyEvents(pmu, event_pos) ==
  /\ ~isRegisterEvent(pmu)
  /\ event_pos >= IF pmu \in {"core", "atom"} THEN rawMachine.maxCore ELSE rawMachine.maxUncore

NoFilter == "none"
OffcoreMSRs == 0 .. 1
\* msr: the filters program() will take from this config if it is the first of the group;
\* index: which of the offcore event codes, and so which MSR, the event uses
initCoreConfig(e) == [event |-> e, msr |-> [i \in OffcoreMSRs |-> NoFilter], index |-> 0]

Push(group, e, config) ==
  IF e.fixed # {} \/ e.by = "MSR_EVENT"
  THEN [Entry(group, e.pmu) EXCEPT ![e.pmu].fixed = Append(@, config)]
  ELSE [Entry(group, e.pmu) EXCEPT ![e.pmu].programmable = Append(@, config)]

SetOwnMSRValue(group, e, index) == group
\* the filter goes into the first event of the group, the one program() looks at
setMSRValue(group, e, index) ==
  IF e.offcore = 0 \/ group[e.pmu].programmable = <<>> THEN group
  ELSE [group EXCEPT ![e.pmu].programmable[1].msr[index] = e.id]
setConfig(e, index) ==
  IF e.offcore = 0 THEN initCoreConfig(e)
  ELSE [initCoreConfig(e) EXCEPT !.msr[index] = e.id, !.index = index]

Added(status, group, index) == [status |-> status, group |-> group, index |-> index]

\* what follows once PMU and position are known: registers, then modifiers
SetFields(group, index, e) ==
  IF ~e.known THEN Added("OK", group, index)
  ELSE IF e.offcore > 0 /\ index >= e.offcore THEN Added("FailedTooManyEvents", group, index)
  ELSE LET set == setMSRValue(group, e, index)
       IN CASE e.modifier = "ignored" -> Added("OK", set, index)
            [] e.modifier = "unsupported" -> Added("Failed", set, index)
            [] e.modifier = "supported" ->
                 Added("OK", Push(set, e, setConfig(e, index)), IF e.offcore > 0 THEN index + 1 ELSE index)

addEventFromDB(group, index, e) ==
  LET event_pos == Len(Entry(group, e.pmu)[e.pmu].programmable)
      \* a fixed uncore event is looked up in PMURegisterDeclarations first
      entered == IF e.fixed # {} /\ e.pmu # "core" /\ ~e.known THEN group ELSE Entry(group, e.pmu)
      first == e.pmu = "core" /\ event_pos = 0 /\ e.fixed = {}
  IN CASE e.by = "MSR_EVENT" -> Added("OK", Push(group, e, initCoreConfig(e)), index)
       [] e.by = "missing" -> Added("OK", group, index)
       [] e.by = "name" ->
            IF e.fixed = {} /\ event_pos \notin e.counters THEN Added("Failed", entered, index)
            ELSE IF e.fixed = {} /\ tooManyEvents(e.pmu, event_pos)
            THEN Added("FailedTooManyEvents", entered, index)
            ELSE SetFields(entered, IF first THEN 0 ELSE index, e)

addEvent(group, index, e) ==
  CASE e.by = "malformed" -> Added("Failed", group, index)
    [] e.by = "config" ->
         LET entered == Entry(group, e.pmu)
         IN IF e.fixed = {} /\ tooManyEvents(e.pmu, Len(entered[e.pmu].programmable))
            THEN Added("FailedTooManyEvents", entered, index)
            ELSE Added("OK", Push(entered, e, initCoreConfig(e)), index)
    [] OTHER -> addEventFromDB(group, index, e)

doFinishGroup(groups, group) == IF DOMAIN group = {} THEN groups ELSE Append(groups, group)

Unprinted == <<groupNr, readable, header, printOffsets, rows>>
\* a failure of addEvent or addEvents ends the tool
Exits == rawPc' = "exited" /\ UNCHANGED <<PMUConfigs, curConfig, offcoreEventIndex>>

\* -e
OptionEvent(e) ==
  /\ rawPc = "options" /\ described < MaxDescriptions
  /\ described' = described + 1
  /\ LET r == addEvent(PMUConfigs[1], offcoreEventIndex, e)
     IN IF r.status = "OK"
        THEN /\ PMUConfigs' = [PMUConfigs EXCEPT ![1] = r.group]
             /\ offcoreEventIndex' = r.index
             /\ UNCHANGED <<rawPc, curConfig>>
        ELSE Exits
  /\ mixed' = (mixed \/ Len(PMUConfigs) > 1)
  /\ UNCHANGED <<rawMachine, rawOptions, Unprinted>>

\* -el: addEvents, line by line
OpenList ==
  /\ rawPc = "options" /\ described < MaxDescriptions
  /\ rawPc' \in {"list", "exited"}     \* the tool ends when the file cannot be opened
  /\ curConfig' = NoGroup
  /\ UNCHANGED <<rawMachine, rawOptions, PMUConfigs, offcoreEventIndex, mixed, described, Unprinted>>

\* A line that does not fit begins a new group; the rest of the group goes there with it.
ListLine(e) ==
  /\ rawPc = "list" /\ described < MaxDescriptions
  /\ described' = described + 1
  /\ LET r == addEvent(curConfig, offcoreEventIndex, e)
         split == r.status = "FailedTooManyEvents"
         a == IF split THEN addEvent(NoGroup, r.index, e) ELSE r
         groups == IF split THEN doFinishGroup(PMUConfigs, r.group) ELSE PMUConfigs
     IN IF a.status # "OK" THEN Exits
        ELSE /\ PMUConfigs' = IF e.last = ";" THEN doFinishGroup(groups, a.group) ELSE groups
             /\ curConfig' = IF e.last = ";" THEN NoGroup ELSE a.group
             /\ offcoreEventIndex' = a.index
             /\ UNCHANGED rawPc
  /\ UNCHANGED <<rawMachine, rawOptions, mixed, Unprinted>>

CloseList ==
  /\ rawPc = "list"
  /\ rawPc' = "options"
  /\ PMUConfigs' = doFinishGroup(PMUConfigs, curConfig)
  /\ curConfig' = NoGroup
  /\ UNCHANGED <<rawMachine, rawOptions, offcoreEventIndex, mixed, described, Unprinted>>

\* After the command line, with the options for the output: empty groups are dropped, several
\* groups are printed transposed.
Collect(options) ==
  /\ rawPc = "options"
  /\ PMUConfigs' = SelectSeq(PMUConfigs, LAMBDA g : DOMAIN g # {})
  /\ rawPc' = IF PMUConfigs' = <<>> THEN "exited" ELSE "run"
  /\ rawOptions' = [options EXCEPT !.transpose = @ \/ Len(PMUConfigs') > 1]
  /\ UNCHANGED <<rawMachine, curConfig, offcoreEventIndex, mixed, described, Unprinted>>

----------------------------------------------------------------------------
(* Groups to rows and columns.                                             *)

\* RawPMUConfigs is a sorted map
PMUOrder == <<"atom", "cbo", "cha", "core", "cxlcm", "cxldp", "ha", "iio", "imc", "irp", "m2m", "m3upi", "mdf",
              "mmio", "package_msr", "pcicfg", "pcu", "pmt", "qpi", "thread_msr", "tpmi", "ubox", "upi", "xpi">>
PMUsOf(group) == SelectSeq(PMUOrder, LAMBDA p : p \in DOMAIN group)
Registers == {"tpmi", "pcicfg", "mmio", "pmt"}
Sequence(n, F(_)) == FlattenSeq([i \in 1 .. n |-> F(i)])

\* the cores of printRow, the cores of print
CoreUnits == [c \in DOMAIN rawMachine.cores |-> <<"CORE", 0, c>>]
Shown(c) == rawOptions.partial = {} \/ c[3] \in rawOptions.partial
OfType(c, pmu) == ~rawMachine.hybrid \/ rawMachine.cores[c[3]] = pmu
printRow(pmu) ==
  SelectSeq(CoreUnits, LAMBDA c : Shown(c) /\ (rawOptions.extend => OfType(c, pmu)))
printCores(pmu) == SelectSeq(CoreUnits, LAMBDA c : Shown(c) /\ OfType(c, pmu))

SocketUnits(n) == Sequence(rawMachine.sockets, LAMBDA s : [u \in 1 .. n |-> <<"SKT", s, u>>])

\* the number of units of a PMU per socket: links, channels, memory controllers, stacks, ports, boxes
maxUnit(pmu) ==
  CASE pmu \in {"m3upi", "xpi", "upi", "qpi"} -> rawMachine.units.links
    [] pmu = "imc" -> rawMachine.units.channels
    [] pmu \in {"m2m", "ha"} -> rawMachine.units.controllers
    [] pmu \in {"irp", "iio"} -> rawMachine.units.stacks
    [] pmu \in {"cxlcm", "cxldp"} -> rawMachine.units.ports
    [] pmu = "pcu" -> rawMachine.units.pcu
    [] OTHER -> rawMachine.units.boxes

\* the readers of the registers: one value for each instance that was found
readRegisters(e) == [r \in 1 .. e.found |-> <<"SYSTEM", 0, r>>]
\* no value where the states do not have the register
getRegisterEvent(e) == IF e \in readable THEN readRegisters(e) ELSE <<>>

\* the units of one line of printTransposed; a pcu row has one value per socket
UnitsInRow(pmu, e, isHeader) ==
  CASE pmu \in {"core", "atom"} -> printRow(pmu)
    [] pmu = "thread_msr" -> CoreUnits
    [] pmu = "package_msr" -> SocketUnits(1)
    [] pmu \in Registers -> getRegisterEvent(e)
    [] pmu = "pcu" /\ ~isHeader -> SocketUnits(1)
    [] OTHER -> SocketUnits(maxUnit(pmu))

\* The events of a PMU that get a row, by name: core PMUs print each fixed counter with the
\* topdown metrics after the slots, uncore PMUs one row for the fixed events, registers both kinds.
numTMAEvents == rawMachine.tma
FixedCoreRows(config) ==
  Sequence(4, LAMBDA cnt :
    IF cnt \notin config.event.fixed THEN <<>>
    ELSE <<[name |-> <<config.event.id, cnt>>, event |-> config.event]>>
         \o (IF cnt = 4 /\ config.event.tma
             THEN [t \in 1 .. numTMAEvents |-> [name |-> <<"PERF_METRICS", t>>, event |-> config.event]]
             ELSE <<>>))
EventRows(configs) == [i \in DOMAIN configs |-> [name |-> <<configs[i].event.id, 0>>, event |-> configs[i].event]]
RowsOf(pmu, config) ==
  CASE pmu \in {"core", "atom"} ->
         Sequence(Len(config.fixed), LAMBDA i : FixedCoreRows(config.fixed[i])) \o EventRows(config.programmable)
    [] isRegisterEvent(pmu) -> EventRows(config.programmable) \o EventRows(config.fixed)
    [] OTHER -> (IF config.fixed = <<>> THEN <<>> ELSE <<[name |-> <<"fixed", 0>>, event |-> config.fixed[1].event]>>)
                \o EventRows(config.programmable)

\* A header has the units of the first row only - and of the topdown metrics, if the slots come first.
IsTopdown(row) == row.name \in {"PERF_METRICS"} \X (1 .. numTMAEvents)
HeaderRows(all) ==
  SelectSeq([i \in DOMAIN all |-> [row |-> all[i], i |-> i]],
            LAMBDA x : x.i = 1 \/ \A j \in 2 .. x.i : IsTopdown(all[j]))
HeaderUnits(pmu, config) ==
  LET first == HeaderRows(RowsOf(pmu, config))
  IN Sequence(Len(first), LAMBDA i : UnitsInRow(pmu, first[i].row.event, TRUE))

\* printTransposed with Header1, Header2 or Header21 for all groups: the first group with a PMU
\* decides about its columns, with the states at hand, those of the first group
Blocks == Sequence(Len(PMUConfigs), LAMBDA g :
            LET pmus == PMUsOf(PMUConfigs[g]) IN [i \in DOMAIN pmus |-> [pmu |-> pmus[i], config |-> PMUConfigs[g][pmus[i]]]])
AppendFromStart(h, b) ==
  LET units == HeaderUnits(b.pmu, b.config)
  IN IF b.pmu \in DOMAIN h.offsets THEN h
     ELSE [h1 |-> h.h1 \o units, h2 |-> h.h2 \o [i \in DOMAIN units |-> b.pmu], offsets |-> (b.pmu :> 0) @@ h.offsets]
AppendBlock(h, b) ==
  IF b.pmu \in DOMAIN h.offsets THEN h
  ELSE LET units == HeaderUnits(b.pmu, b.config)
       IN [h1 |-> h.h1 \o units, h2 |-> h.h2 \o [i \in DOMAIN units |-> b.pmu],
           offsets |-> (b.pmu :> Len(h.h1)) @@ h.offsets]
printHeaders == FoldLeft(AppendBlock, [h1 |-> <<>>, h2 |-> <<>>, offsets |-> <<>>], Blocks)

\* printTransposed with Data
TransposedRows(group, offsets) ==
  LET pmus == PMUsOf(group)
      Start(pmu) == IF DOMAIN offsets = {} THEN 0 ELSE offsets[pmu]
      Of(pmu) == LET all == RowsOf(pmu, group[pmu])
                 IN [i \in DOMAIN all |->
                       [pmu |-> pmu, name |-> all[i].name, start |-> Start(pmu),
                        cells |-> UnitsInRow(pmu, all[i].event, FALSE)]]
  IN Sequence(Len(pmus), LAMBDA i : Of(pmus[i]))

\* print: unit by unit and in it event by event, the headers and the row alike
PrintedUnits(pmu) ==
  CASE pmu \in {"core", "atom"} -> printCores(pmu)
    [] pmu = "thread_msr" -> CoreUnits
    [] pmu = "package_msr" -> SocketUnits(1)
    [] OTHER -> SocketUnits(maxUnit(pmu))
printRegisters(pmu, config) ==
  LET all == RowsOf(pmu, config)
  IN Sequence(Len(all), LAMBDA i :
       LET v == getRegisterEvent(all[i].event) IN [r \in DOMAIN v |-> [pmu |-> pmu, name |-> all[i].name, unit |-> v[r]]])
print(pmu, config) ==
  LET all == IF pmu \in {"core", "atom", "imc", "ubox", "package_msr", "thread_msr"} THEN RowsOf(pmu, config)
             ELSE EventRows(config.programmable)
      units == PrintedUnits(pmu)
      Cells(u, these) == [i \in DOMAIN these |-> [pmu |-> pmu, name |-> these[i].name, unit |-> u]]
  IN CASE pmu \in Registers -> printRegisters(pmu, config)
       [] pmu = "ubox" ->
            Sequence(rawMachine.sockets, LAMBDA s :
              Cells(<<"SKT", s, 1>>, SubSeq(all, 1, Len(all) - Len(config.programmable)))
              \o Sequence(maxUnit(pmu), LAMBDA u : Cells(<<"SKT", s, u>>, EventRows(config.programmable))))
       [] OTHER -> Sequence(Len(units), LAMBDA u : Cells(units[u], all))
PrintedRow(group) ==
  LET pmus == PMUsOf(group)
      cells == Sequence(Len(pmus), LAMBDA i : print(pmus[i], group[pmus[i]]))
  IN [i \in DOMAIN cells |-> [pmu |-> cells[i].pmu, name |-> cells[i].name, start |-> i - 1, cells |-> <<cells[i].unit>>]]

\* program(): the registers that are read from now on; tpmiConfig is not reset
RegistersOf(group) ==
  {c.event : c \in UNION {Range(group[p].fixed) \cup Range(group[p].programmable) : p \in Registers \cap DOMAIN group}}
programRegisters(group) ==
  RegistersOf(group) \cup IF "tpmi" \in DOMAIN group THEN {} ELSE {e \in readable : e.pmu = "tpmi"}


\* One group: program it, read before and after; with one group program() is called once, which
\* comes to the same.
programAndReadGroup ==
  /\ rawPc = "run"
  /\ rawPc' = "measured"
  /\ groupNr' = (groupNr % Len(PMUConfigs)) + 1
  /\ readable' = programRegisters(PMUConfigs[groupNr'])
  /\ rows' = <<>>
  /\ UNCHANGED <<rawMachine, rawOptions, PMUConfigs, curConfig, offcoreEventIndex, mixed, described, header, printOffsets>>

\* The header is printed once, with the first group, and only with -ext when the output is transposed.
Line(row) == [h1 |-> [i \in DOMAIN row |-> row[i].cells[1]], h2 |-> [i \in DOMAIN row |-> row[i].name], offsets |-> <<>>]
printAll ==
  /\ rawPc = "measured"
  /\ rawPc' = "run"
  /\ LET group == PMUConfigs[groupNr]
         row == PrintedRow(group)
         h == IF rawOptions.transpose THEN printHeaders ELSE Line(row)
         displayHeader == ~header.printed /\ (rawOptions.transpose => rawOptions.extend)
     IN /\ printOffsets' = IF displayHeader THEN h.offsets ELSE printOffsets
        /\ header' = IF displayHeader THEN [h1 |-> h.h1, h2 |-> h.h2, printed |-> TRUE] ELSE header
        /\ rows' = IF rawOptions.transpose THEN TransposedRows(group, printOffsets') ELSE row
  /\ UNCHANGED <<rawMachine, rawOptions, PMUConfigs, curConfig, offcoreEventIndex, mixed, described, groupNr, readable>>

RawNext ==
  \/ \E e \in RawEvents : OptionEvent(e) \/ ListLine(e)
  \/ OpenList \/ CloseList
  \/ \E o \in RawOptions : Collect(o)
  \/ programAndReadGroup \/ printAll

RawSpec == RawInit /\ [][RawNext]_rawVars

----------------------------------------------------------------------------
Groups == Range(PMUConfigs) \cup {curConfig}

\* No group is larger than what program() accepts, and every event stands at a position its
\* counter can have.
GroupsFit ==
  \A g \in Groups : \A p \in DOMAIN g : \A i \in DOMAIN g[p].programmable :
    /\ ~tooManyEvents(p, i - 1)
    /\ g[p].programmable[i].event.by = "name" => i - 1 \in g[p].programmable[i].event.counters

\* program() takes the filters of offcore events from the first event of the group: there each
\* offcore event of the group finds its own, in the MSR that belongs to its event code.
OffcoreOf(g) == IF "core" \in DOMAIN g THEN {c \in Range(g["core"].programmable) : c.event.offcore > 0} ELSE {}
FiltersProgrammed ==
  \A g \in Groups : \A c \in OffcoreOf(g) : g["core"].programmable[1].msr[c.index] = c.event.id

\* The columns of a row stand under the unit and the PMU (transposed) or the event they belong to.
StandsUnder(row) ==
  \A i \in DOMAIN row.cells :
    /\ row.start + i \in DOMAIN header.h1
    /\ header.h1[row.start + i] = row.cells[i]
    /\ header.h2[row.start + i] = IF rawOptions.transpose THEN row.pmu ELSE row.name

\* Every event of the group is printed for every unit that counts it.
UnitsCounting(pmu, e) ==
  CASE pmu \in {"core", "atom"} -> {c \in Range(CoreUnits) : Shown(c) /\ OfType(c, pmu)}
    [] pmu = "thread_msr" -> Range(CoreUnits)
    [] pmu = "package_msr" -> {<<"SKT", s, 1>> : s \in 1 .. rawMachine.sockets}
    [] pmu \in Registers -> {<<"SYSTEM", 0, r>> : r \in 1 .. e.found}
    [] OTHER -> {"SKT"} \X (1 .. rawMachine.sockets) \X (1 .. maxUnit(pmu))
Printed(pmu, config) ==
  \A c \in Range(config.programmable) : \A u \in UnitsCounting(pmu, c.event) :
    \E i \in DOMAIN rows : rows[i].pmu = pmu /\ rows[i].name = <<c.event.id, 0>> /\ u \in Range(rows[i].cells)

\* Where the columns of a block cannot be trusted: a transposed pcu row has one value per socket
\* however many units there are, the columns of registers are those of the first register, as
\* far as the states of the first group have it, and a PMU whose first group holds only events
\* that were ignored has no columns at all.
FirstBlock(pmu) == Blocks[CHOOSE i \in DOMAIN Blocks : Blocks[i].pmu = pmu /\ \A j \in 1 .. i - 1 : Blocks[j].pmu # pmu]
Uncertain(pmu) ==
  \/ RowsOf(pmu, FirstBlock(pmu).config) = <<>>
  \/ pmu = "pcu" /\ rawMachine.units.pcu > 1
  \/ pmu \in Registers /\ (Len(PMUConfigs) > 1 \/ Cardinality({e.found : e \in readable}) > 1)

\* Events end up in groups that can be programmed, with their filters, and their values under
\* their names and units, for all groups and all sorts of output.  Excepted are the blocks of
\* Uncertain, and filters after an -e that follows an event list (see FiltersProgrammed).
RawFaithful ==
  /\ GroupsFit
  /\ mixed \/ FiltersProgrammed
  /\ header.printed => \A i \in DOMAIN rows : (rawOptions.transpose /\ Uncertain(rows[i].pmu)) \/ StandsUnder(rows[i])
  /\ rows # <<>> => \A p \in DOMAIN PMUConfigs[groupNr] :
       (rawOptions.transpose /\ Uncertain(p)) \/ Printed(p, PMUConfigs[groupNr][p])

\* The same without the exceptions of the output.
\* The code does not have this property (README, section 4).
EveryRawRowAligned == header.printed => \A i \in DOMAIN rows : StandsUnder(rows[i])
=============================================================================
