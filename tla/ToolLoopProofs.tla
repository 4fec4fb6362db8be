--------------------------- MODULE ToolLoopProofs ---------------------------
(***************************************************************************)
(* The measurement loops of the command line tools, for every command      *)
(* line, any number of groups, rounds and signals: windows lie within one  *)
(* programming of the PMU, rounds meet, the run of an external program is  *)
(* covered, and the counters run as long as the tool prints and no longer. *)
(***************************************************************************)
EXTENDS ToolLoop, TLAPS

First == case.tool.first

\* Where the tool can be once it has programmed the PMU and once it has read the
\* counters for the first time
Looping == {"loop", "before", "sleep", "after", "print"}
Measuring == {"before", "sleep", "after"}
Early == {"program", "block", "read", "launch", "wait"}
PastProgram == Looping \cup {"read"} \cup (IF First = "read" THEN {"block", "launch", "wait"} ELSE {})
PastRead == Looping \cup (IF First = "read" THEN {"launch", "wait"} ELSE {})

-----------------------------------------------------------------------------
(* The inductive invariant *)

\* main() of a tool without external program has a short prologue, and a tool
\* waits for the program it was given.
PrologueKept == /\ First = "none" => pc \notin {"block", "read", "launch", "wait"}
                /\ blocked => case.cmd

\* The PMU counts for a tool that has programmed it, unless the copy of the tool
\* that could not execute the program has cleaned up.
PMUHeld ==
    /\ child.at = "failing" => child.execfailed
    /\ (Style # "program" /\ pc \in PastProgram) \/ pc \in {"sleep", "after", "print"} =>
          child.execfailed \/ pmu

\* The group of the next window is programmed.
GroupReady ==
    /\ Style # "program" /\ pc \in PastProgram =>
          /\ programmed.at <= now
          /\ programmed.group = IF pc \in Measuring THEN group ELSE 1
    /\ pc \in {"sleep", "after"} => programmed.group = group

\* The read that begins the next window comes after the programming.
ReadReady ==
    (Style \in {"swap", "rotate"} /\ pc \in PastRead) \/ pc \in {"sleep", "after"} =>
        programmed.at < before /\ before <= now

\* The windows of the round so far
WindowsOrdered ==
    /\ \A i \in DOMAIN windows : /\ windows[i].programmed < windows[i].from
                                 /\ windows[i].from < windows[i].to
                                 /\ windows[i].group = i
    /\ pc \in Early \/ (pc = "loop" /\ blocked) => windows = <<>>
    /\ pc \in Measuring => Len(windows) = group - 1
    /\ pc = "print" => Len(windows) = case.groups

\* What a tool that swaps its states carries from one round to the next
StateCarried ==
    Style = "swap" =>
        /\ windows # <<>> /\ pc \in {"loop", "print"} => before = windows[1].to
        /\ previous # <<>> /\ pc \in Measuring => before = previous[1].to

\* The external program of a tool that waits for it runs between the first read
\* and the end of the first window.
ProgramInside ==
    First = "read" =>
        /\ pc \in {"program", "block", "read", "launch"} => child.at = "none"
        /\ child.at \in {"none", "forked", "running"} => child.end = 0
        /\ blocked /\ ~child.execfailed =>
              /\ pc \in Looping => child.at = "done"
              /\ windows = <<>> /\ pc \in PastRead /\ child.at \in {"running", "done"} =>
                    before < child.start /\ child.start <= now /\ child.end <= now
              /\ windows # <<>> /\ pc \in Looping =>
                    windows[1].from < child.start /\ child.end < windows[1].to

IInv ==
    /\ TypeOK /\ PrologueKept /\ PMUHeld /\ GroupReady /\ ReadReady
    /\ WindowsOrdered /\ StateCarried /\ RoundsMeet /\ Released /\ ProgramInside

-----------------------------------------------------------------------------
(* The tools *)

\* What the table of tools says about the order of main() and the pairing of reads
LEMMA ToolKinds ==
    ASSUME TypeOK
    PROVE  /\ case.groups \in Nat /\ case.groups >= 1 /\ case.iterations \in Nat
           /\ First \in {"read", "launch", "none"}
           /\ Style \in {"swap", "rotate", "program", "reread"}
           /\ Style \in {"swap", "reread"} => case.groups = 1
           /\ Style = "rotate" => First = "read"
           /\ First = "none" => Style \in {"program", "reread"}
           /\ First = "read" => Style \in {"swap", "rotate"}
<1>1. /\ case.tool \in Tools /\ case.groups \in Nat /\ case.groups >= 1 /\ case.iterations \in Nat
      /\ case.groups > 1 => case.tool.many # "none"
  BY ToolAssumption DEF TypeOK
<1>2. \A t \in Tools :
        /\ t.first \in {"read", "launch", "none"}
        /\ t.one \in {"swap", "program", "reread"} /\ t.many \in {"none", "rotate", "program"}
        /\ t.first = "none" => t.one \in {"program", "reread"} /\ t.many \in {"none", "program"}
        /\ t.first = "read" => t.one = "swap" /\ t.many \in {"none", "rotate"}
        /\ t.many = "rotate" => t.first = "read"
  BY DEF Tools, pcm, pcm_numa, pcm_tsx, pcm_core, pcm_power, pcm_memory, pcm_raw, pcm_pcie,
         pcm_iio, pcm_latency, pcm_accel
<1> QED
  BY <1>1, <1>2 DEF First, Style

\* The order of main()
LEMMA PrologueOrder ==
    /\ First = "read" => Prologue = <<"program", "block", "read", "launch", "loop">>
    /\ First = "launch" => Prologue = <<"block", "launch", "program", "read", "loop">>
    /\ First = "none" => Prologue = <<"program", "loop">>
  BY DEF Prologue, First

\* Each step of the prologue names the next.
LEMMA Follows ==
    /\ First = "read" => /\ Following("program") = "block" /\ Following("block") = "read"
                         /\ Following("read") = "launch" /\ Following("launch") = "loop"
    /\ First = "launch" => /\ Following("block") = "launch" /\ Following("launch") = "program"
                           /\ Following("program") = "read" /\ Following("read") = "loop"
    /\ First = "none" => Following("program") = "loop"
<1>1. CASE First = "read"
  BY <1>1, PrologueOrder DEF Following
<1>2. CASE First = "launch"
  BY <1>2, PrologueOrder DEF Following
<1>3. CASE First = "none"
  BY <1>3, PrologueOrder DEF Following
<1> QED
  BY <1>1, <1>2, <1>3

-----------------------------------------------------------------------------
(* Types *)

Places == {"program", "block", "read", "launch", "wait", "loop", "before", "sleep", "after",
           "print", "exit", "cleaning", "gone", "killed"}
ChildType == [at : {"none", "forked", "running", "failing", "done"}, start : Nat, end : Nat,
              execfailed : BOOLEAN]

\* What TypeOK says of each variable
LEMMA Typed ==
    ASSUME TypeOK
    PROVE  /\ case \in Cases /\ pc \in Places /\ blocked \in BOOLEAN /\ pmu \in BOOLEAN
           /\ rounds \in Nat /\ group \in 1 .. case.groups /\ group \in Nat /\ group >= 1
           /\ programmed \in [at : Nat, group : Nat] /\ before \in Nat
           /\ programmed.at \in Nat /\ programmed.group \in Nat
           /\ windows \in Seq(Window) /\ previous \in Seq(Window) /\ child \in ChildType
           /\ child.start \in Nat /\ child.end \in Nat /\ child.execfailed \in BOOLEAN
           /\ now \in Nat /\ now + 1 \in Nat /\ now + 2 \in Nat /\ now + 3 \in Nat
<1>1. case.groups \in Nat
  BY ToolKinds
<1> QED
  BY <1>1 DEF TypeOK, Places, ChildType

\* The steps of the main thread keep the types.
LEMMA MainTypes ==
    ASSUME TypeOK, PrologueKept, Main PROVE TypeOK'
<1>0. /\ case.groups \in Nat /\ group \in 1 .. case.groups /\ case.groups >= 1
      /\ First \in {"read", "launch", "none"}
  BY Typed, ToolKinds
<1>1. CASE Program
  <2>1. /\ pc' \in Places /\ programmed' \in [at : Nat, group : Nat] /\ pmu' \in BOOLEAN
        /\ now' \in Nat
    <3>1. pc' \in Places
      BY <1>0, <1>1, Follows DEF Program, Places, PrologueKept
    <3>2. CASE Style = "program"
      <4>1. programmed' = programmed /\ pmu' = pmu /\ now' = now
        BY <1>1, <3>2 DEF Program
      <4> QED
        BY <3>1, <4>1, Typed
    <3>3. CASE Style # "program"
      <4>1. programmed' = [at |-> now + 1, group |-> 1] /\ pmu' = TRUE /\ now' = now + 1
        BY <1>1, <3>3 DEF Program
      <4> QED
        BY <3>1, <4>1, Typed
    <3> QED
      BY <3>2, <3>3
  <2> QED
    BY <1>1, <2>1 DEF Program, TypeOK, Places, signalVars
<1>2. CASE SetBlocked
  <2>1. pc' \in Places
    BY <1>0, <1>2, Follows DEF SetBlocked, Places, PrologueKept
  <2>2. blocked' \in BOOLEAN
    BY <1>2 DEF SetBlocked
  <2> QED
    BY <1>2, <2>1, <2>2 DEF SetBlocked, TypeOK, Places, signalVars
<1>3. CASE FirstRead
  <2>1. pc' \in Places /\ before' \in Nat /\ now' \in Nat
    BY <1>0, <1>3, Follows, Typed DEF FirstRead, Places, PrologueKept
  <2> QED
    BY <1>3, <2>1 DEF FirstRead, TypeOK, Places, signalVars
<1>4. CASE Launch
  <2>1. pc' \in Places
    BY <1>0, <1>4, Follows DEF Launch, Places, PrologueKept
  <2>2. child' \in ChildType
    BY <1>4, Typed DEF Launch, ChildType
  <2> QED
    BY <1>4, <2>1, <2>2 DEF Launch, TypeOK, Places, signalVars, ChildType
<1>5. CASE WaitForChild
  <2>1. pc' \in Places
    BY <1>0, <1>5, Follows DEF WaitForChild, Places, PrologueKept
  <2> QED
    BY <1>5, <2>1 DEF WaitForChild, TypeOK, Places, signalVars
<1>6. CASE LoopTest
  <2>1. pc' \in Places /\ group' \in 1 .. case.groups
    BY <1>0, <1>6 DEF LoopTest, Places
  <2>2. windows' \in Seq(Window) /\ previous' \in Seq(Window)
    <3>1. <<>> \in Seq(Window) /\ windows \in Seq(Window) /\ previous \in Seq(Window)
      BY Typed
    <3>2. \/ windows' = <<>> /\ previous' = windows
          \/ windows' = windows /\ previous' = previous
      BY <1>6 DEF LoopTest
    <3> QED
      BY <3>1, <3>2
  <2> QED
    BY <1>6, <2>1, <2>2 DEF LoopTest, TypeOK, Places, signalVars
<1>7. CASE Before
  <2>1. /\ programmed' \in [at : Nat, group : Nat] /\ pmu' \in BOOLEAN
        /\ now' \in Nat /\ before' \in Nat
    <3>1. CASE Style = "program"
      BY <1>7, <3>1, Typed DEF Before
    <3>2. CASE Style = "reread"
      BY <1>7, <3>2, Typed DEF Before
    <3>3. CASE Style \notin {"program", "reread"}
      BY <1>7, <3>3, Typed DEF Before
    <3> QED
      BY <3>1, <3>2, <3>3
  <2> QED
    BY <1>7, <2>1 DEF Before, TypeOK, signalVars
<1>8. CASE Sleep
  BY <1>8 DEF Sleep, TypeOK, signalVars
<1>9. CASE After
  <2>1. NextGroup \in Nat
    BY <1>0, Typed DEF NextGroup
  <2>2. /\ programmed' \in [at : Nat, group : Nat] /\ now' \in Nat /\ before' \in Nat
    <3>1. CASE Style = "swap"
      <4>1. before' = now + 1 /\ now' = now + 1 /\ programmed' = programmed
        BY <1>9, <3>1 DEF After, SwappedBefore
      <4> QED
        BY <4>1, Typed
    <3>2. CASE Style = "rotate"
      <4>1. /\ programmed' = [at |-> now + 2, group |-> NextGroup]
            /\ before' = now + 3 /\ now' = now + 3
        BY <1>9, <3>2 DEF After
      <4> QED
        BY <2>1, <4>1, Typed
    <3>3. CASE Style \notin {"swap", "rotate"}
      <4>1. before' = before /\ now' = now + 1 /\ programmed' = programmed
        BY <1>9, <3>3 DEF After
      <4> QED
        BY <4>1, Typed
    <3> QED
      BY <3>1, <3>2, <3>3
  <2>3. windows' \in Seq(Window)
    <3>1. [from |-> before, to |-> now + 1, group |-> programmed.group,
           programmed |-> programmed.at] \in Window
      BY Typed DEF Window
    <3> QED
      BY <1>9, <3>1, Typed DEF After
  <2>4. group' \in 1 .. case.groups /\ pc' \in Places
    BY <1>0, <1>9 DEF After, LastGroup, Places
  <2> QED
    BY <1>9, <2>2, <2>3, <2>4 DEF After, TypeOK, Places, signalVars
<1>10. CASE PrintRound
  BY <1>10 DEF PrintRound, TypeOK, signalVars
<1>11. CASE Exit \/ ExitCleanup
  BY <1>11 DEF Exit, ExitCleanup, TypeOK, signalVars
<1> QED
  BY <1>1, <1>2, <1>3, <1>4, <1>5, <1>6, <1>7, <1>8, <1>9, <1>10, <1>11 DEF Main

\* So do those of the external program and the signals.
LEMMA OtherTypes ==
    ASSUME TypeOK,
           \/ ChildExec \/ ChildCleanup \/ ChildExit
           \/ \E s \in OutsideSignals : SendSignal(s)
           \/ \E s \in AllSignals : Deliver(s)
    PROVE  TypeOK'
<1>1. CASE ChildExec \/ ChildCleanup \/ ChildExit
  <2>1. child' \in ChildType /\ now' \in Nat /\ pmu' \in BOOLEAN
    BY <1>1, Typed DEF ChildExec, ChildCleanup, ChildExit, ChildType
  <2>2. pending' \subseteq OutsideSignals \cup {"CHLD"} /\ UNCHANGED <<suspended, runState, sent>>
    BY <1>1 DEF ChildExec, ChildCleanup, ChildExit, signalVars, Raised, TypeOK
  <2>3. UNCHANGED toolVars
    BY <1>1 DEF ChildExec, ChildCleanup, ChildExit
  <2> QED
    BY <2>1, <2>2, <2>3 DEF TypeOK, toolVars, ChildType
<1>2. ASSUME NEW s \in OutsideSignals, SendSignal(s) PROVE TypeOK'
  BY <1>2, ToolAssumption DEF SendSignal, TypeOK, toolVars
<1>3. ASSUME NEW s \in AllSignals, Deliver(s) PROVE TypeOK'
  <2>1. CASE TerminationSignal(s)
    BY <2>1 DEF TerminationSignal, Taken, TypeOK
  <2>2. CASE StopSignal(s)
    BY <2>2 DEF StopSignal, Taken, TypeOK, toolVars
  <2>3. CASE ContinueSignal
    BY <2>3 DEF ContinueSignal, Taken, TypeOK, toolVars
  <2>4. CASE DefaultSignal(s)
    BY <2>4 DEF DefaultSignal, Taken, TypeOK
  <2> QED
    BY <1>3, <2>1, <2>2, <2>3, <2>4 DEF Deliver
<1> QED
  BY <1>1, <1>2, <1>3

-----------------------------------------------------------------------------
(* Steps that leave the windows alone *)

\* The command line does not change.
LEMMA SameCase ==
    ASSUME case' = case
    PROVE  First' = First /\ Style' = Style /\ PastProgram' = PastProgram /\ PastRead' = PastRead
  BY DEF First, Style, PastProgram, PastRead

\* The tool is stopped, interrupted or left alone: nothing else changes.
LEMMA Interrupted ==
    ASSUME IInv, TypeOK', pc' \in {pc, "exit", "cleaning", "killed"}, pmu' = pmu,
           UNCHANGED <<case, blocked, rounds, group, programmed, before, windows, previous,
                       child, now>>
    PROVE  IInv'
<1>0. /\ TypeOK /\ PrologueKept /\ PMUHeld /\ GroupReady /\ ReadReady
      /\ WindowsOrdered /\ StateCarried /\ RoundsMeet /\ Released /\ ProgramInside
  BY DEF IInv
<1>1. First' = First /\ Style' = Style
  BY SameCase
<1>2. /\ pc' # pc => pc' \notin Looping \cup Early \cup Measuring \cup PastProgram \cup PastRead
      /\ PastProgram' = PastProgram /\ PastRead' = PastRead
  BY SameCase DEF Looping, Early, Measuring, PastProgram, PastRead
<1>3. PrologueKept' /\ Released'
  BY <1>0, <1>1 DEF PrologueKept, Released
<1>4. PMUHeld'
  BY <1>0, <1>1, <1>2 DEF PMUHeld
<1>5. GroupReady' /\ ReadReady'
  BY <1>0, <1>1, <1>2 DEF GroupReady, ReadReady
<1>6. WindowsOrdered'
  BY <1>0, <1>2 DEF WindowsOrdered, Early
<1>7. StateCarried' /\ RoundsMeet'
  BY <1>0, <1>1, <1>2 DEF StateCarried, RoundsMeet
<1>8. ProgramInside'
  BY <1>0, <1>1, <1>2 DEF ProgramInside, Early
<1> QED
  BY <1>3, <1>4, <1>5, <1>6, <1>7, <1>8 DEF IInv

\* The external program runs beside the tool.
LEMMA ChildSteps ==
    ASSUME IInv, TypeOK', ChildExec \/ ChildCleanup \/ ChildExit
    PROVE  IInv'
<1>0. /\ TypeOK /\ PrologueKept /\ PMUHeld /\ GroupReady /\ ReadReady
      /\ WindowsOrdered /\ StateCarried /\ RoundsMeet /\ Released /\ ProgramInside
  BY DEF IInv
<1>1. /\ UNCHANGED <<case, pc, blocked, rounds, group, programmed, before, windows, previous>>
      /\ now' \in Nat /\ now \in Nat /\ now <= now' /\ programmed.at \in Nat /\ before \in Nat
      /\ pmu \in BOOLEAN /\ child.start \in Nat /\ child.end \in Nat
  <2>1. UNCHANGED <<case, pc, blocked, rounds, group, programmed, before, windows, previous>>
    BY DEF ChildExec, ChildCleanup, ChildExit, toolVars
  <2>2. now' = now \/ now' = now + 1
    BY DEF ChildExec, ChildCleanup, ChildExit
  <2>3. /\ now \in Nat /\ programmed.at \in Nat /\ before \in Nat
        /\ pmu \in BOOLEAN /\ child.start \in Nat /\ child.end \in Nat
    BY <1>0, Typed
  <2>4. now' \in Nat /\ now <= now'
    BY <2>2, <2>3
  <2> QED
    BY <2>1, <2>3, <2>4
<1>2. First' = First /\ Style' = Style /\ PastProgram' = PastProgram /\ PastRead' = PastRead
  BY <1>1, SameCase
<1>3. /\ child'.execfailed \/ (child'.execfailed = child.execfailed /\ pmu' = pmu)
      /\ child'.at # "failing" \/ child'.execfailed
      /\ child.execfailed => child'.execfailed
      /\ pmu' => pmu
      /\ child.at \in {"forked", "running", "failing"} /\ child'.at # "none"
  <2>0. pmu \in BOOLEAN /\ child \in ChildType
    BY <1>0, Typed
  <2>1. CASE ChildExec
    BY <2>0, <2>1 DEF ChildExec, ChildType
  <2>2. CASE ChildCleanup
    BY <1>0, <2>0, <2>2 DEF ChildCleanup, PMUHeld, ChildType
  <2>3. CASE ChildExit
    BY <2>0, <2>3 DEF ChildExit, ChildType
  <2> QED
    BY <2>1, <2>2, <2>3
<1>4. PrologueKept' /\ Released'
  BY <1>0, <1>1, <1>2, <1>3 DEF PrologueKept, Released
<1>5. PMUHeld'
  BY <1>0, <1>1, <1>2, <1>3 DEF PMUHeld
<1>6. GroupReady' /\ ReadReady'
  BY <1>0, <1>1, <1>2 DEF GroupReady, ReadReady
<1>7. WindowsOrdered'
  BY <1>0, <1>1 DEF WindowsOrdered
<1>8. StateCarried' /\ RoundsMeet'
  BY <1>0, <1>1, <1>2 DEF StateCarried, RoundsMeet
<1>9. ProgramInside'
  <2> SUFFICES ASSUME First = "read"
               PROVE  /\ pc \in {"program", "block", "read", "launch"} => child'.at = "none"
                      /\ child'.at \in {"none", "forked", "running"} => child'.end = 0
                      /\ blocked /\ ~child'.execfailed =>
                            /\ pc \in Looping => child'.at = "done"
                            /\ windows = <<>> /\ pc \in PastRead /\ child'.at \in {"running", "done"} =>
                                  before < child'.start /\ child'.start <= now' /\ child'.end <= now'
                            /\ windows # <<>> /\ pc \in Looping =>
                                  windows[1].from < child'.start /\ child'.end < windows[1].to
    BY <1>1, <1>2 DEF ProgramInside
  <2>1. pc \notin {"program", "block", "read", "launch"}
    BY <1>0, <1>3 DEF ProgramInside
  <2>a. child \in ChildType
    BY <1>0, Typed
  <2>b. child'.at \in {"none", "forked", "running"} => child'.end = 0
    BY <1>0, <2>a DEF ProgramInside, ChildExec, ChildCleanup, ChildExit, ChildType
  <2> SUFFICES ASSUME blocked, ~child'.execfailed, ~child.execfailed
               PROVE  /\ pc \in Looping => child'.at = "done"
                      /\ windows = <<>> /\ pc \in PastRead /\ child'.at \in {"running", "done"} =>
                            before < child'.start /\ child'.start <= now' /\ child'.end <= now'
                      /\ windows # <<>> /\ pc \in Looping =>
                            windows[1].from < child'.start /\ child'.end < windows[1].to
    BY <1>3, <2>1, <2>b
  <2>2. pc \notin Looping
    BY <1>0, <1>3 DEF ProgramInside
  <2>3. pc \in PastRead => pc = "wait"
    BY <2>1, <2>2 DEF PastRead
  <2>4. pc \in PastRead => before <= now
    BY <1>0, ToolKinds DEF ReadReady
  <2>5. CASE ChildExec
    <3>1. child' = [child EXCEPT !.at = "running", !.start = now + 1] /\ now' = now + 1
      BY <2>5, <2>a DEF ChildExec, ChildType
    <3>2. child'.at = "running" /\ child'.start = now + 1 /\ child'.end = 0
      BY <2>a, <2>b, <3>1 DEF ChildType
    <3>3. /\ windows = <<>> /\ pc \in PastRead =>
                before < child'.start /\ child'.start <= now' /\ child'.end <= now'
      BY <1>1, <2>4, <3>1, <3>2
    <3> QED
      BY <2>2, <3>3
  <2>6. CASE ChildCleanup
    BY <1>0, <2>6 DEF ChildCleanup, PMUHeld
  <2>7. CASE ChildExit
    <3>1. windows = <<>> /\ pc \in PastRead => before < child.start /\ child.start <= now
      BY <1>0, <2>7 DEF ChildExit, ProgramInside
    <3>2. child'.start = child.start /\ child'.end = now + 1 /\ now' = now + 1
      BY <2>7, <2>a DEF ChildExit, ChildType
    <3> QED
      BY <1>1, <2>2, <3>1, <3>2
  <2> QED
    BY <2>5, <2>6, <2>7
<1> QED
  BY <1>4, <1>5, <1>6, <1>7, <1>8, <1>9 DEF IInv

\* The prologue: each step makes ready what the later ones rely on.
LEMMA PrologueSteps ==
    ASSUME IInv, TypeOK', Program \/ SetBlocked \/ FirstRead \/ Launch \/ WaitForChild
    PROVE  IInv'
<1>0. /\ TypeOK /\ PrologueKept /\ PMUHeld /\ GroupReady /\ ReadReady
      /\ WindowsOrdered /\ StateCarried /\ RoundsMeet /\ Released /\ ProgramInside
  BY DEF IInv
<1>1. /\ UNCHANGED <<case, rounds, group, windows, previous>> /\ windows = <<>>
      /\ pc \in Early /\ child'.execfailed = child.execfailed /\ now' \in {now, now + 1}
      /\ programmed'.at \in Nat /\ before' \in Nat /\ now \in Nat /\ before \in Nat
      /\ programmed.at \in Nat
  <2>1. UNCHANGED <<case, rounds, group, windows, previous>> /\ pc \in Early
    BY DEF Program, SetBlocked, FirstRead, Launch, WaitForChild, Early
  <2>2. child'.execfailed = child.execfailed
    BY <1>0, Typed DEF Program, SetBlocked, FirstRead, Launch, WaitForChild, ChildType
  <2>3. now' \in {now, now + 1}
    BY DEF Program, SetBlocked, FirstRead, Launch, WaitForChild
  <2> QED
    BY <1>0, <2>1, <2>2, <2>3, Typed DEF WindowsOrdered, TypeOK
<1>2. First' = First /\ Style' = Style /\ PastProgram' = PastProgram /\ PastRead' = PastRead
  BY <1>1, SameCase
<1>3. /\ First \in {"read", "launch", "none"} /\ Style \in {"swap", "rotate", "program", "reread"}
      /\ First = "none" => Style \in {"program", "reread"}
      /\ First = "read" => Style \in {"swap", "rotate"}
  BY <1>0, ToolKinds
\* where the tool comes from and where it goes
<1>4. /\ pc' \in Early \cup {"loop"}
      /\ First = "none" => pc = "program" /\ pc' = "loop"
      /\ First = "read" => \/ pc = "program" /\ pc' = "block"
                           \/ pc = "block" /\ pc' = "read"
                           \/ pc = "read" /\ pc' = "launch"
                           \/ pc = "launch" /\ pc' = "wait" /\ blocked
                           \/ pc = "launch" /\ pc' = "loop" /\ ~(case.cmd /\ blocked)
                           \/ pc = "wait" /\ pc' = "loop" /\ child.at = "done"
      /\ First = "launch" => \/ pc = "block" /\ pc' = "launch"
                             \/ pc = "launch" /\ pc' \in {"wait", "program"}
                             \/ pc = "wait" /\ pc' = "program"
                             \/ pc = "program" /\ pc' = "read"
                             \/ pc = "read" /\ pc' = "loop"
  BY <1>0, <1>3, Follows
     DEF Program, SetBlocked, FirstRead, Launch, WaitForChild, PrologueKept, Early
<1>5. PrologueKept' /\ Released'
  <2>1. blocked' => case.cmd
    BY <1>0 DEF Program, SetBlocked, FirstRead, Launch, WaitForChild, PrologueKept
  <2> QED
    BY <1>1, <1>2, <1>4, <1>3, <2>1 DEF PrologueKept, Released, Early
<1>6. PMUHeld'
  <2>1. child'.at \in {child.at, "forked"}
    BY <1>0, Typed DEF Program, SetBlocked, FirstRead, Launch, WaitForChild, ChildType
  <2>2. Style # "program" /\ pc' \in PastProgram =>
           \/ pc \in PastProgram /\ pmu' = pmu
           \/ pmu'
    <3>1. CASE Program
      BY <3>1 DEF Program
    <3>2. CASE ~Program
      BY <1>3, <1>4, <3>2 DEF SetBlocked, FirstRead, Launch, WaitForChild, PastProgram,
                              Looping, Early
    <3> QED
      BY <3>1, <3>2
  <2>3. pc' \notin {"sleep", "after", "print"}
    BY <1>4 DEF Early
  <2> QED
    BY <1>0, <1>1, <1>2, <2>1, <2>2, <2>3 DEF PMUHeld
<1>7. GroupReady'
  <2>1. pc' \notin Measuring /\ pc \notin Measuring
    BY <1>1, <1>4 DEF Early, Measuring
  <2>2. CASE Program
    BY <1>1, <1>2, <2>1, <2>2 DEF Program, GroupReady, Measuring
  <2>3. CASE ~Program
    <3>1. /\ programmed' = programmed
          /\ pc' \in PastProgram => pc \in PastProgram
      BY <1>3, <1>4, <2>3 DEF SetBlocked, FirstRead, Launch, WaitForChild, PastProgram,
                              Looping, Early
    <3> QED
      BY <1>0, <1>1, <1>2, <2>1, <3>1 DEF GroupReady, Measuring
  <2> QED
    BY <2>2, <2>3
<1>8. ReadReady'
  <2>1. pc' \notin {"sleep", "after"}
    BY <1>4 DEF Early
  <2>2. CASE FirstRead
    <3>1. Style # "program" => pc \in PastProgram /\ before' = now + 1 /\ now' = now + 1
      BY <2>2 DEF FirstRead, PastProgram
    <3>2. Style # "program" => programmed.at <= now /\ programmed' = programmed
      BY <1>0, <2>2, <3>1 DEF GroupReady, FirstRead
    <3> QED
      BY <1>1, <1>2, <2>1, <3>1, <3>2 DEF ReadReady
  <2>3. CASE ~FirstRead
    <3>1. Style \in {"swap", "rotate"} /\ pc' \in PastRead =>
             /\ pc \in PastRead
             /\ programmed' = programmed /\ before' = before /\ now' = now
      BY <1>3, <1>4, <2>3 DEF Program, SetBlocked, Launch, WaitForChild, PastRead,
                              Looping, Early
    <3> QED
      BY <1>0, <1>2, <2>1, <3>1 DEF ReadReady
  <2> QED
    BY <2>2, <2>3
<1>9. WindowsOrdered' /\ StateCarried' /\ RoundsMeet'
  <2>1. pc' \notin Measuring /\ pc' # "print" /\ windows' = <<>>
    BY <1>1, <1>4 DEF Early, Measuring
  <2> QED
    BY <2>1 DEF WindowsOrdered, StateCarried, RoundsMeet
<1>10. ProgramInside'
  <2> SUFFICES ASSUME First = "read"
               PROVE  /\ pc' \in {"program", "block", "read", "launch"} => child'.at = "none"
                      /\ child'.at \in {"none", "forked", "running"} => child'.end = 0
                      /\ blocked' /\ ~child'.execfailed =>
                            /\ pc' \in Looping => child'.at = "done"
                            /\ pc' \in PastRead /\ child'.at \in {"running", "done"} =>
                                  before' < child'.start /\ child'.start <= now' /\ child'.end <= now'
    BY <1>1, <1>2 DEF ProgramInside
  <2>1. CASE pc \in {"program", "block", "read"}
    <3>1. child' = child /\ child.at = "none" /\ child.end = 0 /\ pc' \in {"block", "read", "launch"}
      BY <1>0, <1>4, <2>1 DEF Program, SetBlocked, FirstRead, Launch, WaitForChild, ProgramInside
    <3> QED
      BY <3>1 DEF Looping
  <2>2. CASE pc = "launch"
    <3>1. /\ child.at = "none" /\ child.end = 0 /\ blocked' = blocked
          /\ child' = [child EXCEPT !.at = "forked"] \/ (child' = child /\ ~case.cmd)
          /\ pc' \in {"wait", "loop"}
          /\ pc' = "loop" => ~blocked
      BY <1>0, <1>4, <2>2 DEF Program, SetBlocked, FirstRead, Launch, WaitForChild, ProgramInside,
                              PrologueKept
    <3>2. child'.at \in {"none", "forked"} /\ child'.end = 0
      BY <1>0, <3>1, Typed DEF ChildType
    <3> QED
      BY <3>1, <3>2 DEF Looping
  <2>3. CASE pc = "wait"
    <3>1. UNCHANGED <<child, blocked, before, now>> /\ child.at = "done" /\ pc' = "loop"
          /\ "wait" \in PastRead
      BY <1>4, <2>3 DEF Program, SetBlocked, FirstRead, Launch, WaitForChild, PastRead
    <3> QED
      BY <1>0, <1>1, <2>3, <3>1 DEF ProgramInside
  <2> QED
    BY <1>4, <2>1, <2>2, <2>3
<1> QED
  BY <1>5, <1>6, <1>7, <1>8, <1>9, <1>10 DEF IInv

-----------------------------------------------------------------------------
(* The loop *)

\* Another round begins, or the loop ends.
LEMMA LoopTestKeeps ==
    ASSUME IInv, TypeOK', LoopTest
    PROVE  IInv'
<1>1. CASE pc' = "exit" /\ UNCHANGED <<group, windows, previous>>
  BY <1>1, Interrupted DEF LoopTest
<1>2. CASE /\ pc = "loop" /\ group' = 1 /\ windows' = <<>> /\ previous' = windows /\ pc' = "before"
           /\ UNCHANGED <<case, blocked, rounds, programmed, before, child, pmu, signalVars, now>>
  <2>0. /\ TypeOK /\ PrologueKept /\ PMUHeld /\ GroupReady /\ ReadReady
        /\ WindowsOrdered /\ StateCarried /\ ProgramInside
    BY DEF IInv
  <2>1. First' = First /\ Style' = Style /\ PastProgram' = PastProgram /\ PastRead' = PastRead
    BY <1>2, SameCase
  <2>2. /\ {"loop", "before"} \subseteq PastProgram /\ {"loop", "before"} \subseteq PastRead
        /\ {"loop", "before"} \subseteq Looping /\ "loop" \notin Measuring /\ "before" \in Measuring
        /\ "before" \notin Early
    BY DEF PastProgram, PastRead, Looping, Measuring, Early
  <2>3. PrologueKept' /\ PMUHeld' /\ Released'
    BY <1>2, <2>0, <2>1, <2>2 DEF PrologueKept, PMUHeld, Released
  <2>4. GroupReady' /\ ReadReady'
    BY <1>2, <2>0, <2>1, <2>2 DEF GroupReady, ReadReady
  <2>5. WindowsOrdered'
    BY <1>2, <2>2 DEF WindowsOrdered
  <2>6. StateCarried' /\ RoundsMeet'
    BY <1>2, <2>0, <2>1 DEF StateCarried, RoundsMeet
  <2>7. ProgramInside'
    BY <1>2, <2>0, <2>1, <2>2 DEF ProgramInside, WindowsOrdered
  <2> QED
    BY <2>3, <2>4, <2>5, <2>6, <2>7 DEF IInv
<1> QED
  BY <1>1, <1>2 DEF LoopTest

\* Before the sleep the group is programmed or the counters are read, if the
\* tool does so before every window.
LEMMA BeforeKeeps ==
    ASSUME IInv, TypeOK', Before
    PROVE  IInv'
<1>0. /\ TypeOK /\ PrologueKept /\ PMUHeld /\ GroupReady /\ ReadReady
      /\ WindowsOrdered /\ StateCarried /\ RoundsMeet /\ ProgramInside
  BY DEF IInv
<1>1. /\ UNCHANGED <<case, blocked, rounds, group, windows, previous, child>>
      /\ pc = "before" /\ pc' = "sleep"
  BY DEF Before
<1>2. First' = First /\ Style' = Style /\ PastProgram' = PastProgram /\ PastRead' = PastRead
  BY <1>1, SameCase
<1>3. /\ {"before", "sleep"} \subseteq PastProgram /\ {"before", "sleep"} \subseteq PastRead
      /\ {"before", "sleep"} \subseteq Looping /\ {"before", "sleep"} \subseteq Measuring
      /\ "sleep" \notin Early
  BY DEF PastProgram, PastRead, Looping, Measuring, Early
<1>4. /\ Style \in {"swap", "rotate", "program", "reread"}
      /\ First = "read" => Style \in {"swap", "rotate"}
      /\ now \in Nat /\ before \in Nat /\ programmed.at \in Nat
  BY <1>0, ToolKinds, Typed
<1>5. /\ Style \in {"swap", "rotate"} => UNCHANGED <<programmed, before, now, pmu>>
      /\ Style = "reread" => before' = now + 1 /\ now' = now + 1 /\ UNCHANGED <<programmed, pmu>>
      /\ Style = "program" => /\ programmed' = [at |-> now + 1, group |-> group]
                              /\ before' = now + 2 /\ now' = now + 2 /\ pmu'
  BY <1>4 DEF Before
<1>6. PrologueKept' /\ Released'
  BY <1>0, <1>1, <1>2 DEF PrologueKept, Released
<1>7. PMUHeld'
  BY <1>0, <1>1, <1>2, <1>3, <1>4, <1>5 DEF PMUHeld
<1>8. programmed'.at < before' /\ before' <= now' /\ programmed'.group = group /\ programmed'.at <= now'
  <2>1. CASE Style = "program"
    BY <1>4, <1>5, <2>1
  <2>2. CASE Style = "reread"
    BY <1>0, <1>1, <1>3, <1>4, <1>5, <2>2 DEF GroupReady
  <2>3. CASE Style \in {"swap", "rotate"}
    BY <1>0, <1>1, <1>3, <1>4, <1>5, <2>3 DEF GroupReady, ReadReady
  <2> QED
    BY <1>4, <2>1, <2>2, <2>3
<1>9. GroupReady' /\ ReadReady'
  BY <1>1, <1>2, <1>3, <1>8 DEF GroupReady, ReadReady
<1>10. WindowsOrdered'
  BY <1>0, <1>1, <1>3 DEF WindowsOrdered
<1>11. StateCarried' /\ RoundsMeet'
  BY <1>0, <1>1, <1>2, <1>3, <1>5 DEF StateCarried, RoundsMeet
<1>12. ProgramInside'
  BY <1>0, <1>1, <1>2, <1>3, <1>4, <1>5 DEF ProgramInside
<1> QED
  BY <1>6, <1>7, <1>9, <1>10, <1>11, <1>12 DEF IInv

\* The sleep changes nothing.
LEMMA SleepKeeps ==
    ASSUME IInv, TypeOK', Sleep
    PROVE  IInv'
<1>0. /\ TypeOK /\ PrologueKept /\ PMUHeld /\ GroupReady /\ ReadReady
      /\ WindowsOrdered /\ StateCarried /\ RoundsMeet /\ ProgramInside
  BY DEF IInv
<1>1. /\ UNCHANGED <<case, blocked, rounds, group, windows, previous, child, programmed, before,
                     pmu, now>>
      /\ pc = "sleep" /\ pc' = "after"
  BY DEF Sleep
<1>2. First' = First /\ Style' = Style /\ PastProgram' = PastProgram /\ PastRead' = PastRead
  BY <1>1, SameCase
<1>3. /\ {"sleep", "after"} \subseteq PastProgram /\ {"sleep", "after"} \subseteq PastRead
      /\ {"sleep", "after"} \subseteq Looping /\ {"sleep", "after"} \subseteq Measuring
      /\ "after" \notin Early
  BY DEF PastProgram, PastRead, Looping, Measuring, Early
<1>4. PrologueKept' /\ Released' /\ PMUHeld'
  BY <1>0, <1>1, <1>2 DEF PrologueKept, Released, PMUHeld
<1>5. GroupReady' /\ ReadReady'
  BY <1>0, <1>1, <1>2, <1>3 DEF GroupReady, ReadReady
<1>6. WindowsOrdered' /\ StateCarried' /\ RoundsMeet'
  BY <1>0, <1>1, <1>2, <1>3 DEF WindowsOrdered, StateCarried, RoundsMeet
<1>7. ProgramInside'
  BY <1>0, <1>1, <1>2, <1>3 DEF ProgramInside
<1> QED
  BY <1>4, <1>5, <1>6, <1>7 DEF IInv

\* The read after the sleep ends a window, and in some tools begins the next.
LEMMA AfterKeeps ==
    ASSUME IInv, TypeOK', After
    PROVE  IInv'
<1> DEFINE w == [from |-> before, to |-> now + 1, group |-> programmed.group,
                 programmed |-> programmed.at]
<1>0. /\ TypeOK /\ PrologueKept /\ PMUHeld /\ GroupReady /\ ReadReady
      /\ WindowsOrdered /\ StateCarried /\ RoundsMeet /\ ProgramInside
  BY DEF IInv
<1>1. /\ UNCHANGED <<case, blocked, rounds, previous, child, pmu>>
      /\ pc = "after" /\ windows' = Append(windows, w)
      /\ \/ group < case.groups /\ group' = group + 1 /\ pc' = "before"
         \/ group = case.groups /\ group' = group /\ pc' = "print"
  <2>1. /\ UNCHANGED <<case, blocked, rounds, previous, child, pmu>>
        /\ pc = "after" /\ windows' = Append(windows, w)
    BY DEF After
  <2>2. \/ group # case.groups /\ group' = group + 1 /\ pc' = "before"
        \/ group = case.groups /\ group' = group /\ pc' = "print"
    BY DEF After, LastGroup
  <2>3. group # case.groups => group < case.groups
    <3>1. group \in 1 .. case.groups /\ case.groups \in Nat
      BY <1>0, Typed, ToolKinds
    <3> QED
      BY <3>1
  <2> QED
    BY <2>1, <2>2, <2>3
<1>2. First' = First /\ Style' = Style /\ PastProgram' = PastProgram /\ PastRead' = PastRead
  BY <1>1, SameCase
<1>3. /\ {"after", "before", "print"} \subseteq PastProgram
      /\ {"after", "before", "print"} \subseteq PastRead
      /\ {"after", "before", "print"} \subseteq Looping
      /\ {"after", "before"} \subseteq Measuring /\ "print" \notin Measuring
      /\ Early \cap {"before", "print", "loop"} = {}
  BY DEF PastProgram, PastRead, Looping, Measuring, Early
<1>4. /\ Style \in {"swap", "rotate", "program", "reread"}
      /\ Style \in {"swap", "reread"} => case.groups = 1
      /\ First = "read" => Style \in {"swap", "rotate"}
      /\ now \in Nat /\ before \in Nat /\ programmed.at \in Nat /\ programmed.group \in Nat
      /\ case.groups \in Nat /\ group \in Nat /\ group >= 1 /\ windows \in Seq(Window)
      /\ child.end \in Nat /\ child.start \in Nat
  BY <1>0, ToolKinds, Typed
<1>5. /\ Style = "swap" => before' = now + 1 /\ now' = now + 1 /\ programmed' = programmed
      /\ Style = "rotate" => /\ programmed' = [at |-> now + 2, group |-> NextGroup]
                             /\ before' = now + 3 /\ now' = now + 3
      /\ Style \in {"program", "reread"} => now' = now + 1 /\ UNCHANGED <<before, programmed>>
  BY <1>4 DEF After, SwappedBefore
<1>6. /\ programmed.at < before /\ before <= now /\ programmed.group = group
      /\ Len(windows) = group - 1
  BY <1>0, <1>1, <1>3 DEF GroupReady, ReadReady, WindowsOrdered
<1>7. /\ w.from = before /\ w.to = now + 1 /\ w.group = group /\ w.programmed = programmed.at
      /\ w.programmed < w.from /\ w.from < w.to
  BY <1>4, <1>6
<1>8. /\ Len(windows') = group /\ windows'[group] = w /\ windows' # <<>>
      /\ DOMAIN windows' = 1 .. group
      /\ \A i \in 1 .. group : i # group => windows'[i] = windows[i] /\ i \in DOMAIN windows
      /\ windows = <<>> <=> group = 1
  <2> HIDE DEF w
  <2>1. w \in Window
    BY <1>4 DEF w, Window
  <2>2. /\ Len(windows') = Len(windows) + 1 /\ windows'[Len(windows) + 1] = w
        /\ \A i \in 1 .. Len(windows) : windows'[i] = windows[i]
        /\ DOMAIN windows = 1 .. Len(windows) /\ DOMAIN windows' = 1 .. Len(windows')
        /\ windows = <<>> <=> Len(windows) = 0
        /\ windows' # <<>>
    BY <1>1, <1>4, <2>1
  <2> QED
    BY <1>4, <1>6, <2>2
<1> HIDE DEF w
<1>9. PrologueKept' /\ Released' /\ PMUHeld'
  BY <1>0, <1>1, <1>2, <1>3 DEF PrologueKept, Released, PMUHeld
<1>10. GroupReady'
  <2>1. CASE Style = "rotate"
    <3>1. NextGroup = IF pc' \in Measuring THEN group' ELSE 1
      BY <1>1, <1>3, <1>4 DEF NextGroup
    <3>2. programmed'.group = NextGroup /\ programmed'.at = now + 2 /\ now' = now + 3
      BY <1>5, <2>1
    <3> QED
      BY <1>1, <1>2, <1>4, <3>1, <3>2 DEF GroupReady
  <2>2. CASE Style \in {"swap", "reread"}
    <3>1. group = 1 /\ pc' = "print" /\ programmed' = programmed /\ now' = now + 1
      BY <1>1, <1>4, <1>5, <2>2
    <3> QED
      BY <1>2, <1>3, <1>4, <1>6, <3>1 DEF GroupReady
  <2>3. CASE Style = "program"
    BY <1>1, <1>2, <2>3 DEF GroupReady
  <2> QED
    BY <1>4, <2>1, <2>2, <2>3
<1>11. ReadReady'
  <2>1. Style \in {"swap", "rotate"} => programmed'.at < before' /\ before' <= now'
    BY <1>4, <1>5, <1>6
  <2> QED
    BY <1>1, <1>2, <2>1 DEF ReadReady
<1>12. WindowsOrdered'
  <2>1. \A i \in DOMAIN windows' : /\ windows'[i].programmed < windows'[i].from
                                   /\ windows'[i].from < windows'[i].to
                                   /\ windows'[i].group = i
    BY <1>0, <1>7, <1>8 DEF WindowsOrdered
  <2> QED
    BY <1>1, <1>3, <1>4, <1>8, <2>1 DEF WindowsOrdered
<1>13. StateCarried' /\ RoundsMeet'
  <2> SUFFICES ASSUME Style = "swap" PROVE StateCarried' /\ RoundsMeet'
    BY <1>2 DEF StateCarried, RoundsMeet
  <2>1. group = 1 /\ pc' = "print" /\ windows'[1] = w /\ before' = now + 1
    BY <1>1, <1>4, <1>5, <1>8
  <2>2. previous # <<>> => before = previous[1].to
    BY <1>0, <1>1, <1>3 DEF StateCarried
  <2> QED
    BY <1>1, <1>3, <1>7, <2>1, <2>2 DEF StateCarried, RoundsMeet
<1>14. ProgramInside'
  <2>1. First = "read" /\ blocked /\ ~child.execfailed =>
           windows'[1].from < child.start /\ child.end < windows'[1].to
    <3> SUFFICES ASSUME First = "read", blocked, ~child.execfailed
                 PROVE  windows'[1].from < child.start /\ child.end < windows'[1].to
      OBVIOUS
    <3>1. CASE group = 1
      <4>1. before < child.start /\ child.end <= now
        BY <1>0, <1>1, <1>3, <1>8, <3>1 DEF ProgramInside
      <4>2. windows'[1] = w
        BY <1>8, <3>1
      <4> QED
        BY <1>4, <1>7, <4>1, <4>2
    <3>2. CASE group # 1
      <4>1. windows # <<>> /\ windows'[1] = windows[1]
        BY <1>4, <1>8, <3>2
      <4> QED
        BY <1>0, <1>1, <1>3, <4>1 DEF ProgramInside
    <3> QED
      BY <3>1, <3>2
  <2> QED
    BY <1>0, <1>1, <1>2, <1>3, <1>8, <2>1 DEF ProgramInside
<1> QED
  BY <1>9, <1>10, <1>11, <1>12, <1>13, <1>14 DEF IInv

\* The end of a round, and of the loop if the tool waited for its program
LEMMA PrintKeeps ==
    ASSUME IInv, TypeOK', PrintRound
    PROVE  IInv'
<1>0. /\ TypeOK /\ PrologueKept /\ PMUHeld /\ GroupReady /\ ReadReady
      /\ WindowsOrdered /\ StateCarried /\ RoundsMeet /\ Released /\ ProgramInside
  BY DEF IInv
<1>1. /\ UNCHANGED <<case, blocked, group, programmed, before, windows, previous, child, pmu, now>>
      /\ pc = "print" /\ ((blocked /\ pc' = "exit") \/ (~blocked /\ pc' = "loop"))
  BY DEF PrintRound
<1>2. First' = First /\ Style' = Style /\ PastProgram' = PastProgram /\ PastRead' = PastRead
  BY <1>1, SameCase
<1>3. /\ {"print", "loop"} \subseteq PastProgram /\ {"print", "loop"} \subseteq PastRead
      /\ {"print", "loop"} \subseteq Looping /\ Measuring \cap {"print", "loop", "exit"} = {}
      /\ Early \cap {"loop", "exit"} = {}
      /\ "exit" \notin PastProgram /\ "exit" \notin PastRead /\ "exit" \notin Looping
  BY DEF PastProgram, PastRead, Looping, Measuring, Early
<1>4. PrologueKept' /\ Released' /\ PMUHeld'
  BY <1>0, <1>1, <1>2, <1>3 DEF PrologueKept, Released, PMUHeld
<1>5. GroupReady' /\ ReadReady'
  BY <1>0, <1>1, <1>2, <1>3 DEF GroupReady, ReadReady
<1>6. WindowsOrdered' /\ StateCarried' /\ RoundsMeet'
  BY <1>0, <1>1, <1>2, <1>3 DEF WindowsOrdered, StateCarried, RoundsMeet
<1>7. ProgramInside'
  BY <1>0, <1>1, <1>2, <1>3 DEF ProgramInside
<1> QED
  BY <1>4, <1>5, <1>6, <1>7 DEF IInv

\* The counters stop with the tool.
LEMMA CleanupKeeps ==
    ASSUME IInv, TypeOK', ExitCleanup
    PROVE  IInv'
<1>0. WindowsOrdered /\ RoundsMeet /\ PMUHeld /\ PrologueKept /\ ProgramInside
  BY DEF IInv
<1>1. /\ UNCHANGED <<case, blocked, windows, previous, child>>
      /\ pc' = "gone" /\ ~pmu'
  BY DEF ExitCleanup
<1>2. First' = First /\ Style' = Style /\ PastProgram' = PastProgram /\ PastRead' = PastRead
  BY <1>1, SameCase
<1>3. "gone" \notin Looping \cup Early \cup Measuring \cup PastProgram \cup PastRead
  BY DEF Looping, Early, Measuring, PastProgram, PastRead
<1>4. PrologueKept' /\ Released' /\ PMUHeld' /\ GroupReady' /\ ReadReady'
  BY <1>0, <1>1, <1>2, <1>3 DEF PrologueKept, Released, PMUHeld, GroupReady, ReadReady
<1>5. WindowsOrdered' /\ StateCarried' /\ RoundsMeet'
  BY <1>0, <1>1, <1>2, <1>3 DEF WindowsOrdered, StateCarried, RoundsMeet
<1>6. ProgramInside'
  BY <1>0, <1>1, <1>2, <1>3 DEF ProgramInside
<1> QED
  BY <1>4, <1>5, <1>6 DEF IInv

-----------------------------------------------------------------------------
(* The theorems *)

\* A tool that has just been started
LEMMA Initially ==
    ASSUME Init PROVE IInv
<1>1. TypeOK
  <2>1. /\ case \in Cases /\ case.groups \in Nat /\ case.groups >= 1
        /\ case.tool.first \in {"read", "launch", "none"}
    <3>1. \A t \in Tools : t.first \in {"read", "launch", "none"}
      BY DEF Tools, pcm, pcm_numa, pcm_tsx, pcm_core, pcm_power, pcm_memory, pcm_raw, pcm_pcie,
             pcm_iio, pcm_latency, pcm_accel
    <3> QED
      BY <3>1, ToolAssumption DEF Init
  <2>2. pc \in {"program", "block"}
    BY <2>1, PrologueOrder DEF Init, First
  <2>3. <<>> \in Seq(Window)
    OBVIOUS
  <2>4. programmed \in [at : Nat, group : Nat] /\ child \in ChildType
    BY DEF Init, ChildType
  <2>5. /\ suspended \in StopSignals \cup {NotSuspended} /\ runState \in {0, 1}
        /\ pending \subseteq OutsideSignals \cup {"CHLD"} /\ sent \in 0 .. MaxSignals
    BY ToolAssumption DEF Init
  <2>6. group \in 1 .. case.groups /\ rounds \in Nat /\ before \in Nat /\ now \in Nat
    BY <2>1 DEF Init
  <2> QED
    BY <2>1, <2>2, <2>3, <2>4, <2>5, <2>6 DEF Init, TypeOK, ChildType
<1>2. /\ First = "read" => pc = "program"
      /\ First = "launch" => pc = "block"
      /\ First = "none" => pc = "program"
  BY PrologueOrder DEF Init
<1>3. pc \in {"program", "block"} /\ pc \notin PastProgram /\ pc \notin PastRead
  BY <1>1, <1>2, ToolKinds DEF PastProgram, PastRead, Looping
<1> QED
  BY <1>1, <1>2, <1>3
     DEF Init, IInv, PrologueKept, PMUHeld, GroupReady, ReadReady, WindowsOrdered, StateCarried,
         RoundsMeet, Released, ProgramInside, Looping, Measuring

\* Every step keeps the invariant.
LEMMA Kept ==
    ASSUME IInv, [Next]_vars PROVE IInv'
<1>0. TypeOK /\ PrologueKept
  BY DEF IInv
<1>1. CASE Main
  <2>1. TypeOK'
    BY <1>0, <1>1, MainTypes
  <2>2. CASE Exit
    BY <2>1, <2>2, Interrupted DEF Exit
  <2> QED
    BY <1>1, <2>1, <2>2, PrologueSteps, LoopTestKeeps, BeforeKeeps, SleepKeeps, AfterKeeps,
       PrintKeeps, CleanupKeeps DEF Main
<1>2. CASE ChildExec \/ ChildCleanup \/ ChildExit
  BY <1>0, <1>2, OtherTypes, ChildSteps
<1>3. ASSUME NEW s \in OutsideSignals, SendSignal(s) PROVE IInv'
  BY <1>0, <1>3, OtherTypes, Interrupted DEF SendSignal, toolVars
<1>4. ASSUME NEW s \in AllSignals, Deliver(s) PROVE IInv'
  <2>1. TypeOK'
    BY <1>0, <1>4, OtherTypes
  <2>2. /\ pc' \in {pc, "cleaning", "killed"} /\ pmu' = pmu
        /\ UNCHANGED <<case, blocked, rounds, group, programmed, before, windows, previous,
                       child, now>>
    BY <1>4 DEF Deliver, TerminationSignal, StopSignal, ContinueSignal, DefaultSignal, toolVars
  <2> QED
    BY <2>1, <2>2, Interrupted
<1>5. CASE UNCHANGED vars
  <2>1. TypeOK'
    BY <1>0, <1>5 DEF TypeOK, vars, toolVars, signalVars
  <2> QED
    BY <1>5, <2>1, Interrupted DEF vars, toolVars
<1> QED
  BY <1>1, <1>2, <1>3, <1>4, <1>5 DEF Next

\* The invariant holds in every state of every tool.
THEOREM Inductive == Spec => []IInv
<1>1. Init => IInv
  BY Initially
<1>2. IInv /\ [Next]_vars => IInv'
  BY Kept
<1> QED
  BY <1>1, <1>2, PTL DEF Spec

\* For every command line the windows of a round are in order and within one
\* programming of the PMU, rounds meet where the states are swapped, and a tool
\* that is gone has released the counters (the main() functions, exit_cleanup).
THEOREM ToolsMeasure == Spec => []ToolInv
<1>1. IInv => ToolInv
  BY DEF IInv, ToolInv, OneGroupPerWindow, WindowsOrdered
<1> QED
  BY <1>1, Inductive, PTL

\* What a tool prints that reads the counters, starts the external program and
\* waits for it (MySystem) covers the whole run of that program.
THEOREM RunsCovered == Spec => []ProgramCovered
<1>1. IInv => ProgramCovered
  <2> SUFFICES ASSUME IInv, pc = "print", blocked, First = "read", ~child.execfailed
               PROVE  \E i \in DOMAIN windows :
                         windows[i].from < child.start /\ child.end < windows[i].to
    BY DEF ProgramCovered, First
  <2>1. Len(windows) >= 1 /\ windows \in Seq(Window)
    BY ToolKinds, Typed DEF IInv, WindowsOrdered
  <2>2. 1 \in DOMAIN windows /\ windows # <<>>
    BY <2>1
  <2>3. windows[1].from < child.start /\ child.end < windows[1].to
    BY <2>2 DEF IInv, ProgramInside, Looping
  <2> QED
    BY <2>2, <2>3
<1> QED
  BY <1>1, Inductive, PTL

\* No signal and no end of the external program takes the PMU from a tool that
\* still prints (sigINT_handler, exit_cleanup).
THEOREM CountersRun == Spec => []CountersLive
<1>1. IInv => CountersLive
  BY DEF IInv, PMUHeld, CountersLive
<1> QED
  BY <1>1, Inductive, PTL
=============================================================================
