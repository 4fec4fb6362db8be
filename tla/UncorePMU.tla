----------------------------- MODULE UncorePMU ------------------------------
(***************************************************************************)
(* The uncore PMUs of a server: the boxes of every socket, the lists of    *)
(* boxes a process keeps (class ServerUncorePMUs and the members           *)
(* uncorePMUs, iioPMUs, irpPMUs, idxPMUs and cxlPMUs of class PCM), and    *)
(* the functions that program, read, freeze and clear them.                *)
(*                                                                         *)
(* A call makes passes over lists of boxes, socket by socket; what it does *)
(* to one box is a sequence of stages, and a stage accesses one register   *)
(* or those of all counters.  The process makes the accesses one by one    *)
(* (Step) while the hardware counts (Tick), a signal ends the process      *)
(* through its handler or it is killed.                                    *)
(* There is at most one box of each kind per socket and a counter's event  *)
(* is the name of the set of metrics it was programmed for.                *)
(***************************************************************************)
EXTENDS Naturals, Sequences, FiniteSets

CONSTANTS
    NumSockets,
    Boxes,         \* the boxes of this machine: pairs of a socket and a kind
    Platforms,     \* CPU generations that differ in how boxes are accessed
    NumSlots,      \* counters per box
    Leftovers,     \* event selects the boxes may hold before PCM runs
    DisabledLinks, \* xpi boxes of disabled links: their registers read zero
    MaxTicks,      \* bound: counts of all counters together
    MaxCalls       \* bound: calls of a process

Server == {"imc", "edc", "xpi", "m3upi", "m2m", "ha", "hbm_m2m"}
AllKinds == Server \cup {"cbo", "mdf", "pcu", "ubox", "pcie", "iio", "irp",
                         "idx", "cxlcm", "cxldp"}
Metrics == {"default", "memory", "latency", "power", "raw"}
Sockets == 1 .. NumSockets
Slots == 1 .. NumSlots
Kinds == {b[2] : b \in Boxes}

ASSUME UncoreAssumption ==
    /\ NumSockets \in Nat \ {0} /\ NumSlots \in Nat \ {0}
    /\ Boxes \subseteq Sockets \X AllKinds
    /\ Platforms \subseteq {"jkt", "skx", "icx", "spr", "perf"}
    /\ DisabledLinks \subseteq Boxes \cap (Sockets \X {"xpi"})
    /\ Leftovers \subseteq Metrics \cup {"zero", "none"}
    /\ MaxTicks \in Nat /\ MaxCalls \in Nat

VARIABLES
    platform,
    regs,      \* the registers of each box
    pmus,      \* the boxes in the lists of the process
    pc,        \* "off", "run", "cleanup" or "done"
    call,      \* the passes of the call the process is in
    pass,      \* the one it is at
    left,      \* the boxes the pass has still to come to
    task,      \* what is done to a box, and how far it is
    calls,     \* calls made so far
    ticks,     \* counts so far
    sample,    \* the values last read
    measured,  \* history: boxes completely programmed since
    touched,   \* history: boxes this process wrote event selects of
    dirty      \* history: the box being read and the slots read since its freeze

work == <<call, pass, left, task>>
process == <<pmus, pc, work, calls>>
vars == <<platform, regs, process, ticks, sample, measured, touched, dirty>>

Zeros == [i \in Slots |-> 0]
NoEvents == [i \in Slots |-> "zero"]
Registers == [frz : BOOLEAN, ctl : [Slots -> Metrics \cup {"zero", "none"}],
              ctr : [Slots -> 0 .. MaxTicks]]
Off == [frz |-> FALSE, ctl |-> NoEvents, ctr |-> Zeros]

TypeOK ==
    /\ platform \in Platforms
    /\ regs \in [Boxes -> Registers]
    /\ pmus \subseteq Boxes /\ left \subseteq pmus /\ pass \in 0 .. Len(call)
    /\ pc \in {"off", "run", "cleanup", "done"}
    /\ calls \in 0 .. MaxCalls /\ ticks \in 0 .. MaxTicks
    /\ sample \in [Boxes -> [Slots -> 0 .. MaxTicks]]
    /\ measured \subseteq Boxes /\ touched \subseteq Boxes
    /\ dirty \in [Boxes -> SUBSET Slots]

-----------------------------------------------------------------------------
(* Which boxes a process finds, and how. *)

Direct == platform # "perf"
NewStyle == platform = "spr"       \* SPR, EMR, GNR, GNR_D, GRR and SRF

\* initRegisterLocations: memory and link devices a generation is known to have.
MemoryLocations == CASE platform = "jkt" -> {"imc", "ha"}
                     [] platform = "skx" -> {"imc", "m2m"}
                     [] platform = "icx" -> {"m2m"}
                     [] OTHER -> {"m2m", "hbm_m2m"}
LinkLocations == IF platform = "jkt" THEN {"xpi"} ELSE {"xpi", "m3upi"}

\* initBuses: a bus is in use when its devices answered on every socket; one
\* socket has no links to monitor.
Buses(mem, link) == [mem |-> mem, link |-> link /\ NumSockets > 1]

\* initDirect, list by list; d: the PMU discovery table was found.
OnBus(bus, known, kinds) == IF bus THEN known \cap kinds ELSE {}
M2mList(bus) == OnBus(bus.mem, MemoryLocations, {"m2m", "hbm_m2m"})
ImcList(bus, d) ==
    CASE platform \in {"jkt", "skx"} -> OnBus(bus.mem, MemoryLocations, {"imc"})
      [] platform = "icx" -> IF "m2m" \in M2mList(bus) THEN {"imc"} ELSE {}
      [] OTHER -> IF d THEN {"imc"} ELSE {}
EdcList(bus) == IF "hbm_m2m" \in M2mList(bus) THEN {"edc"} ELSE {}
M3upiList(bus) == OnBus(bus.link, LinkLocations, {"m3upi"})
HaList(bus) == OnBus(bus.mem, MemoryLocations, {"ha"})
XpiList(bus) == OnBus(bus.link, LinkLocations, {"xpi"})

\* ServerUncorePMUs: without memory controllers the constructor throws.
PerfServer == {"imc", "m2m", "ha", "xpi", "m3upi"}
ServerLists(bus, d) ==
    CASE ~Direct -> PerfServer
      [] Direct /\ ImcList(bus, d) = {} -> {}
      [] OTHER -> UNION {M2mList(bus), ImcList(bus, d), EdcList(bus),
                         M3upiList(bus), HaList(bus), XpiList(bus)}

\* The other lists, by generation.  On SPR and later d says whether the PMU
\* discovery table was found (for PCIe: or the manual fallback asked for).
UboxList == {"ubox"}
PcuList(d) == IF NewStyle /\ ~d THEN {} ELSE {"pcu"}
MdfList(d) == IF NewStyle /\ d THEN {"mdf"} ELSE {}
PcieList(d) == IF NewStyle /\ d THEN {"pcie"} ELSE {}
IioList == IF platform = "jkt" THEN {} ELSE {"iio"}
IdxList == IF NewStyle THEN {"idx"} ELSE {}
IrpList == IF platform = "jkt" THEN {} ELSE {"irp"}
CboList == {"cbo"}
CxlList(d) == IF NewStyle /\ d THEN {"cxlcm", "cxldp"} ELSE {}
DirectLists(d) == UNION {UboxList, PcuList(d), MdfList(d), PcieList(d), IioList,
                         IdxList, IrpList, CboList, CxlList(d)}
PerfLists == {"pcu", "ubox", "cbo", "mdf", "iio", "irp", "idx"}

\* initUncoreObjects: when a socket fails the server lists of all are dropped.
Found(failed, bus, d) ==
    LET server == IF failed THEN {} ELSE ServerLists(bus, d)
        others == IF Direct THEN DirectLists(d) ELSE PerfLists
    IN Boxes \cap (Sockets \X (server \cup others))

\* Registers of a disabled link read zero; SPR and later do not check for it.
Dead(b) == b \in DisabledLinks /\ Direct /\ ~NewStyle

\* A box without unit control register: freezing it is impossible.
HasUnitControl(b) == b[2] # "ubox" \/ NewStyle

-----------------------------------------------------------------------------
(* What is done to one box. *)

\* One stage: the flags written to the unit control or reset register, or the
\* values written to each event select, one of them first if need be.  The
\* marks say where the box stops and where it starts to count a set of events.
Stage(op, flags, first, event, mark) ==
    [op |-> op, flags |-> flags, first |-> first, event |-> event, mark |-> mark]
Unit(flags, mark) == Stage("unit", flags, "no", "no", mark)
Ctl(first, event, mark) == Stage("ctl", {}, first, event, mark)
Read == Stage("read", {}, "no", "no", "no")

\* UncorePMU::initFreeze, with the check of a link when it is one.
InitFreeze ==
    IF NewStyle THEN <<Unit({"frz"}, "begin"), Unit({"frz", "rstctl"}, "no")>>
    ELSE <<Unit({}, "begin"), Stage("check", {}, "no", "no", "no"), Unit({"frz"}, "no")>>

\* UncorePMU::resetUnfreeze.
ResetUnfreeze == <<Unit({"frz", "rstctr"}, "no"), Unit({}, "end")>>

\* PCM::program(pmu, begin, end, extra): the event selects, in order.
ProgramEvents(m, mark) == <<Ctl(IF NewStyle THEN "no" ELSE "none", m, mark)>>
ProgramBox(m) == InitFreeze \o ProgramEvents(m, "no") \o ResetUnfreeze

\* programCbo writes zero to the counters of the running box.
ProgramCbo(m) ==
    InitFreeze \o ProgramEvents(m, "no")
      \o <<Unit({"frz", "rstctr"}, "no"), Unit({}, "no"), Stage("ctr", {}, "no", "no", "end")>>

\* programUBOX enables the fixed counter and does not unfreeze.
ProgramUbox(m) == InitFreeze \o (IF m = "raw" THEN ProgramEvents(m, "no") ELSE <<>>)

\* IDX_PMU: initFreeze, the event selects, resetUnfreeze.
ProgramIdx(m) ==
    <<Stage("reset", {"rstctr"}, "no", "no", "begin"), Unit({"frz"}, "no"),
      Ctl("zero", m, "no"), Unit({}, "end")>>

\* PCIe boxes are programmed without freezing them first.
ProgramPcie(m) == ProgramEvents(m, "begin") \o ResetUnfreeze

\* programServerUncoreMemoryMetrics ends with xpiPMUs.clear(): the links are not
\* programmed, they leave the list.
ClearLinks == <<Stage("clear", {}, "no", "no", "begin")>>

ProgramKind(k, m) == CASE k = "xpi" /\ m = "memory" -> ClearLinks
                       [] k = "cbo" -> ProgramCbo(m)
                       [] k = "pcie" -> ProgramPcie(m)
                       [] k = "ubox" -> ProgramUbox(m)
                       [] k = "idx" -> ProgramIdx(m)
                       [] OTHER -> ProgramBox(m)

\* UncorePMU::cleanup; an accelerator is reset and its freeze register left alone.
CleanupBox(k) ==
    <<Ctl("no", "zero", "begin"),
      IF k = "idx" THEN Stage("reset", {"rstctr", "rstctl"}, "no", "no", "no") ELSE Unit({}, "no")>>

\* UncorePMU::freeze and unfreeze.  The mutant clears the counters.
FreezeBox == <<Unit({"frz"}, "no")>>
UnfreezeAndClear == <<Unit({"rstctr"}, "no")>>
UnfreezeBox == <<Unit({}, "no")>>

ReadBox == <<Read>>

Stages(op, k, m) == CASE op = "program" -> ProgramKind(k, m)
                      [] op = "cleanup" -> CleanupBox(k)
                      [] op = "freeze" -> FreezeBox
                      [] op = "unfreeze" -> UnfreezeBox
                      [] op = "read" -> ReadBox

-----------------------------------------------------------------------------
(* The functions that change boxes. *)

\* One thing done to all boxes of these kinds on these sockets.
Pass(op, sockets, kinds, m) ==
    [op |-> op, sockets |-> sockets, kinds |-> kinds, metrics |-> m]
KindsOf(p) == {p.kinds[n] : n \in DOMAIN p.kinds}
Covers(p, b) == b[1] \in p.sockets /\ b[2] \in KindsOf(p)

\* The boxes a pass comes to, and their order: sockets, then lists.
forAllUncorePMUs(p) == {b \in pmus : Covers(p, b)}
Precedes(p, b, c) ==
    \/ b[1] < c[1]
    \/ b[1] = c[1] /\ \E n, m \in DOMAIN p.kinds :
                        n <= m /\ p.kinds[n] = b[2] /\ p.kinds[m] = c[2]

Programs(kinds, m) == Pass("program", Sockets, kinds, m)
Others(op, sockets, kinds) == Pass(op, sockets, kinds, "none")

\* PCM::program: ServerUncorePMUs::program of every socket, then programCbo.
ProgramDefault == <<Programs(<<"imc", "edc", "m2m", "xpi", "ha">>, "default"),
                    Programs(<<"cbo", "ubox">>, "default")>>

\* programServerUncoreMemoryMetrics, then programCXLCM and programCXLDP.
ProgramMemory == <<Programs(<<"imc", "edc", "m2m", "xpi">>, "memory"),
                   Programs(<<"cxlcm">>, "memory"), Programs(<<"cxldp">>, "memory")>>

\* programServerUncoreLatencyMetrics.
ProgramLatency == <<Programs(<<"imc">>, "latency")>>

\* programServerUncorePowerMetrics.
ProgramPower == <<Programs(<<"xpi", "imc">>, "power"), Programs(<<"pcu">>, "power")>>

\* PCM::program(RawPMUConfigs): one kind at a time.
ProgramRaw(k) == <<Programs(<<k>>, "raw")>>

\* programIIOCounters, programIRPCounters, programPCIeEventGroup and
\* programIDXAccelCounters: events the caller gives.
ProgramIIO == <<Programs(<<"iio">>, "raw")>>
ProgramIRP == <<Programs(<<"irp">>, "raw")>>
ProgramPCIeEventGroup == <<Programs(<<"cbo">>, "raw")>>
ProgramAccel == <<Programs(<<"idx">>, "raw")>>

ServerSeq == <<"imc", "edc", "xpi", "m3upi", "m2m", "ha", "hbm_m2m">>
ReadSeq == <<"imc", "edc", "m2m", "ha">>
OtherSeq == <<"cbo", "mdf", "pcu", "ubox", "pcie", "iio", "irp", "cxlcm", "cxldp">>

\* The link layers are read port by port: M3UPI for as many ports as xpiPMUs has.
ReadServer(s) ==
    Others("read", {s}, IF <<s, "xpi">> \in pmus THEN <<"xpi", "m3upi">> \o ReadSeq ELSE ReadSeq)

\* getServerUncoreCounterState: the server lists are read frozen, the other
\* boxes while they count.  The mutant reads without freezing.
ReadRunning(s) == <<ReadServer(s), Others("read", {s}, OtherSeq)>>
GetServerUncoreCounterState(s) ==
    <<Others("freeze", {s}, ServerSeq), ReadServer(s),
      Others("unfreeze", {s}, ServerSeq), Others("read", {s}, OtherSeq)>>

\* readAndAggregateUncoreMCCounters, for the counter states of a socket: the CHAs
\* run, the memory controllers and home agents are frozen meanwhile.
ReadAndAggregateUncoreMC(s) ==
    <<Others("read", {s}, <<"cbo", "ubox">>), Others("freeze", {s}, ServerSeq),
      Others("read", {s}, <<"imc", "m2m", "cbo", "ha", "edc">>),
      Others("unfreeze", {s}, ServerSeq)>>

\* serverUncorePMUs is not empty: no ServerUncorePMUs goes without controllers.
Served == Direct => \E b \in pmus : b[2] = "imc"

\* freezeServerUncoreCounters and unfreezeServerUncoreCounters: the lists of the
\* sockets that have a ServerUncorePMUs, then all CXL boxes.
ServedSockets == IF Served THEN Sockets ELSE {}
SocketSeq == <<"imc", "edc", "xpi", "m3upi", "m2m", "ha", "hbm_m2m",
               "pcu", "iio", "irp", "cbo", "mdf">>
CxlSeq == <<"cxlcm", "cxldp">>
FreezeServer == <<Others("freeze", ServedSockets, SocketSeq), Others("freeze", Sockets, CxlSeq)>>
\* The mutant forgets the lists outside ServerUncorePMUs.
UnfreezeOwn == <<Others("unfreeze", ServedSockets, ServerSeq), Others("unfreeze", Sockets, CxlSeq)>>
UnfreezeServer ==
    <<Others("unfreeze", ServedSockets, SocketSeq), Others("unfreeze", Sockets, CxlSeq)>>

\* cleanupUncorePMUs, list by list, and ServerUncorePMUs::cleanupPMUs of every
\* socket.  The mutant stops before the server lists.
Cleanups(kinds) == Others("cleanup", Sockets, kinds)
CleanupOthers ==
    <<Cleanups(<<"iio">>), Cleanups(<<"idx">>), Cleanups(<<"irp">>),
      Cleanups(<<"cbo", "mdf", "pcu", "ubox", "pcie">>), Cleanups(CxlSeq)>>
CleanupUncorePMUs == CleanupOthers \o <<Cleanups(<<"xpi", "imc", "edc", "m2m", "ha">>)>>

-----------------------------------------------------------------------------
NoBox == <<0, "none">>
Idle == [box |-> NoBox, stage |-> 1, slot |-> 1, again |-> FALSE]
Busy == task.box # NoBox

Init ==
    /\ platform \in Platforms
    /\ \E e \in Leftovers, f \in BOOLEAN :
         regs = [b \in Boxes |->
                   IF Dead(b) THEN Off
                   ELSE [Off EXCEPT !.frz = f, !.ctl = [i \in Slots |-> e]]]
    /\ pmus = {} /\ pc = "off" /\ calls = 0 /\ ticks = 0
    /\ call = <<>> /\ pass = 0 /\ left = {} /\ task = Idle
    /\ sample = [b \in Boxes |-> Zeros]
    /\ measured = {} /\ touched = {}
    /\ dirty = [b \in Boxes |-> {}]

\* PCM::PCM, initUncoreObjects: the boxes are found, or not.
Start ==
    /\ pc = "off"
    /\ \E failed, mem, link, d \in BOOLEAN :
         pmus' = Found(failed, Buses(mem, link), d)
    /\ pc' = "run"
    /\ UNCHANGED <<platform, regs, work, calls, ticks, sample, measured, touched, dirty>>

Begin(c) == call' = c /\ pass' = 0 /\ left' = {} /\ task' = Idle

Call(c) ==
    /\ pc = "run" /\ call = <<>> /\ calls < MaxCalls
    /\ Begin(c) /\ calls' = calls + 1
    /\ UNCHANGED <<platform, regs, pc, ticks, sample, measured, touched, dirty>>

CallProgram == Call(ProgramDefault) /\ UNCHANGED pmus
CallLatency == Call(ProgramLatency) /\ UNCHANGED pmus
CallPower == Served /\ Call(ProgramPower) /\ UNCHANGED pmus
CallRaw == \E k \in Kinds : Call(ProgramRaw(k)) /\ UNCHANGED pmus
CallMemory == Served /\ Call(ProgramMemory) /\ UNCHANGED pmus
CallRead == \E s \in Sockets : Call(GetServerUncoreCounterState(s)) /\ UNCHANGED pmus
CallAggregate == \E s \in Sockets : Call(ReadAndAggregateUncoreMC(s)) /\ UNCHANGED pmus
CallTool == \E c \in {ProgramIIO, ProgramIRP, ProgramPCIeEventGroup, ProgramAccel} :
              Call(c) /\ UNCHANGED pmus
CallFreeze == Call(FreezeServer \o UnfreezeServer) /\ UNCHANGED pmus

\* The next pass, or the end of the call.
NextPass ==
    /\ call # <<>> /\ ~Busy /\ left = {}
    /\ IF pass < Len(call)
       THEN pass' = pass + 1 /\ left' = forAllUncorePMUs(call[pass + 1]) /\ UNCHANGED <<call, task>>
       ELSE Begin(<<>>)
    /\ UNCHANGED <<platform, regs, pmus, pc, calls, ticks, sample, measured, touched, dirty>>

\* The next box of the pass.
NextBox ==
    /\ ~Busy
    /\ \E b \in left :
         /\ \A c \in left : Precedes(call[pass], b, c)
         /\ task' = [Idle EXCEPT !.box = b] /\ left' = left \ {b}
    /\ UNCHANGED <<platform, regs, pmus, pc, call, pass, calls, ticks, sample, measured,
                   touched, dirty>>

\* An event select is written a second time; the same is done to the next counter.
Again(a) == a.op = "ctl" /\ a.first # "no" /\ ~task.again
More(a) == a.op \in {"ctl", "ctr", "read"} /\ task.slot < NumSlots

\* What an access does to the registers of its box.  With perf the unit
\* control is a dummy register and writing an event select opens a new event.
Effect(r, a) ==
    CASE a.op = "unit" /\ Direct /\ HasUnitControl(task.box) ->
           [frz |-> "frz" \in a.flags,
            ctl |-> IF "rstctl" \in a.flags THEN NoEvents ELSE r.ctl,
            ctr |-> IF "rstctr" \in a.flags THEN Zeros ELSE r.ctr]
      [] a.op = "reset" /\ Direct ->
           [frz |-> r.frz,
            ctl |-> IF "rstctl" \in a.flags THEN NoEvents ELSE r.ctl,
            ctr |-> IF "rstctr" \in a.flags THEN Zeros ELSE r.ctr]
      [] a.op = "ctl" ->
           [frz |-> r.frz /\ Direct,
            ctl |-> [r.ctl EXCEPT ![task.slot] = IF Again(a) THEN a.first ELSE a.event],
            ctr |-> IF Direct THEN r.ctr ELSE [r.ctr EXCEPT ![task.slot] = 0]]
      [] a.op = "ctr" /\ Direct -> [r EXCEPT !.ctr[task.slot] = 0]
      [] OTHER -> r

\* The access that comes after the one at hand, if any.
Advance(stages) ==
    LET a == stages[task.stage] IN
    task' = CASE Again(a) -> [task EXCEPT !.again = TRUE]
              [] ~Again(a) /\ More(a) -> [task EXCEPT !.slot = @ + 1, !.again = FALSE]
              [] ~Again(a) /\ ~More(a) /\ task.stage < Len(stages) ->
                   [Idle EXCEPT !.box = task.box, !.stage = task.stage + 1]
              [] OTHER -> Idle

\* The link of b is disabled or not monitored: the box is erased from the list.
DropLink(b) == pmus' = pmus \ {b} /\ task' = Idle

Step ==
    /\ Busy
    /\ LET b == task.box
           stages == Stages(call[pass].op, b[2], call[pass].metrics)
           a == stages[task.stage]
           dropped == a.op = "clear" \/ (a.op = "check" /\ Dead(b))
           end == a.mark = "end" /\ ~Again(a) /\ ~More(a)
       IN /\ IF dropped THEN DropLink(b) ELSE Advance(stages) /\ UNCHANGED pmus
          /\ regs' = IF Dead(b) THEN regs ELSE [regs EXCEPT ![b] = Effect(@, a)]
          /\ sample' = CASE a.op = "read" ->
                              [sample EXCEPT ![b][task.slot] = regs[b].ctr[task.slot]]
                         [] a.mark = "begin" -> [sample EXCEPT ![b] = Zeros]
                         [] OTHER -> sample
          /\ measured' = CASE a.mark = "begin" \/ dropped -> measured \ {b}
                           [] end -> measured \cup {b}
                           [] OTHER -> measured
          /\ touched' = IF a.op = "ctl" /\ pc = "run" THEN touched \cup {b} ELSE touched
          /\ dirty' = [dirty EXCEPT ![b] = IF a.op = "read" THEN @ \cup {task.slot} ELSE {}]
    /\ UNCHANGED <<platform, pc, call, pass, left, calls, ticks>>

\* PCM::cleanup, at the end or from the signal handler in the middle of a call.
Cleanup ==
    /\ pc = "run"
    /\ pc' = "cleanup" /\ Begin(CleanupUncorePMUs)
    /\ UNCHANGED <<platform, regs, pmus, calls, ticks, sample, measured, touched, dirty>>

Exit ==
    /\ pc = "cleanup" /\ call = <<>>
    /\ pc' = "done"
    /\ UNCHANGED <<platform, regs, pmus, work, calls, ticks, sample, measured, touched, dirty>>

\* The process dies without its handlers, or a new one follows one that ended.
Gone ==
    /\ pc' = "off" /\ Begin(<<>>) /\ pmus' = {}
    /\ measured' = {} /\ touched' = {} /\ sample' = [b \in Boxes |-> Zeros]
    /\ dirty' = [b \in Boxes |-> {}]
    /\ UNCHANGED <<platform, regs, calls, ticks>>
Kill == pc \in {"run", "cleanup"} /\ calls < MaxCalls /\ Gone
Restart == pc = "done" /\ calls < MaxCalls /\ Gone

\* A counter that is enabled counts unless its box is frozen.
Tick(b, i) ==
    /\ ~regs[b].frz /\ regs[b].ctl[i] # "zero" /\ ticks < MaxTicks
    /\ ticks' = ticks + 1
    /\ regs' = [regs EXCEPT ![b].ctr[i] = @ + 1]
    /\ UNCHANGED <<platform, process, sample, measured, touched, dirty>>

Next ==
    \/ Start \/ CallProgram \/ CallMemory \/ CallLatency \/ CallPower \/ CallRaw
    \/ CallRead \/ CallAggregate \/ CallTool \/ CallFreeze
    \/ NextPass \/ NextBox \/ Step \/ Cleanup \/ Exit \/ Kill \/ Restart
    \/ \E b \in Boxes, i \in Slots : Tick(b, i)

Spec == Init /\ [][Next]_vars

-----------------------------------------------------------------------------
(* What the readers of the boxes rely on. *)

Abs == INSTANCE CounterBox WITH
    phase <- [b \in Boxes |-> IF b \notin measured THEN "idle"
                              ELSE IF regs[b].frz THEN "paused" ELSE "running"],
    event <- [b \in Boxes |-> IF b \in measured THEN regs[b].ctl ELSE NoEvents],
    count <- [b \in Boxes |-> IF b \in measured THEN regs[b].ctr ELSE Zeros],
    seen <- [b \in Boxes |-> IF b \in measured THEN sample[b] ELSE Zeros],
    Events <- Metrics,
    MaxCount <- MaxTicks

\* From the end of its programming until it is programmed or cleared again, a
\* box counts one set of events in all its counters and no access of program,
\* freeze, unfreeze or getServerUncoreCounterState takes a counter back, so the
\* difference of two samples (getNumberOfEvents) is what happened between them.
Refines == Abs!Spec

\* ServerUncorePMUs::freezeCounters around the reads: when a server box is read,
\* the counters read so far still hold the sampled values, so all counters of a
\* socket are of one instant.  perf has no unit control and promises nothing.
SamplesTogether ==
    Direct => \A b \in measured : b[2] \in Server =>
                \A i \in dirty[b] : sample[b][i] = regs[b].ctr[i]

\* The types, and: between two calls no programmed box is left frozen: freezeServerUncoreCounters,
\* getServerUncoreCounterState and the programming functions all end unfreezing
\* every list they froze.
NotLeftFrozen ==
    /\ TypeOK
    /\ pc = "run" /\ call = <<>> => \A b \in measured : ~regs[b].frz

Clear(b) == regs[b].ctl = NoEvents /\ (b[2] # "idx" /\ HasUnitControl(b) => ~regs[b].frz)

\* cleanupUncorePMUs: after PCM::cleanup, also one that interrupted a call, no box
\* still in a list that cleanup walks counts an event this process selected.
Released ==
    pc = "done" => \A b \in touched \cap pmus : b[2] \notin {"m3upi", "hbm_m2m"} => Clear(b)

\* The message "Zeroed uncore PMU registers" of cleanupUncorePMUs, taken at its
\* word: no box this process programmed is left with an event.
\* The code does not have this property (README, section 4).
ZeroedUncorePMU == pc = "done" => \A b \in touched : regs[b].ctl = NoEvents

\* The counters of a socket are frozen while they are read, and only then.
FrozenWhileRead == SamplesTogether /\ NotLeftFrozen

=============================================================================
