-------------------------- MODULE UncorePMUProofs ---------------------------
(***************************************************************************)
(* The uncore PMUs, for every machine, generation and number of counters:  *)
(* UncoreIInv is inductive; the boxes of a socket are read frozen and not  *)
(* left so, cleanup clears what it walks, and CounterBox is implemented.   *)
(***************************************************************************)
EXTENDS UncorePMU, TLAPS, SequenceTheorems

-----------------------------------------------------------------------------
(* The invariant.                                                          *)

\* What is done to the box at hand, and the stage it is at.
Op == call[pass].op
Now == Stages(Op, task.box[2], call[pass].metrics)
This == Now[task.stage]

\* Calls of a running process: programming is done by itself, what is frozen is
\* unfrozen later, and server boxes are read in passes that follow their freeze.
GoodPass(c, p) ==
    /\ c[p].op \in {"program", "read", "freeze", "unfreeze"}
    /\ c[p].op = "program" => c[p].metrics \in Metrics
    /\ c[p].op = "freeze" =>
          \E q \in p + 1 .. Len(c) : /\ c[q].op = "unfreeze" /\ c[q].sockets = c[p].sockets
                                     /\ KindsOf(c[p]) \subseteq KindsOf(c[q])
    /\ c[p].op = "read" =>
          \/ KindsOf(c[p]) \cap Server = {}
          \/ p > 1 /\ c[p - 1].op = "freeze" /\ c[p - 1].sockets = c[p].sockets
               /\ Server \subseteq KindsOf(c[p - 1])
GoodCall(c) == \A p \in 1 .. Len(c) : GoodPass(c, p)

Events == Metrics \cup {"zero", "none"}

Types ==
    /\ platform \in Platforms
    /\ regs \in [Boxes -> Registers]
    /\ pmus \subseteq Boxes /\ left \subseteq pmus
    /\ pc \in {"off", "run", "cleanup", "done"}
    /\ Len(call) \in Nat /\ pass \in 0 .. Len(call)
    /\ task \in [box : Boxes \cup {NoBox}, stage : Nat, slot : Slots, again : BOOLEAN]
    /\ calls \in 0 .. MaxCalls /\ ticks \in 0 .. MaxTicks
    /\ sample \in [Boxes -> [Slots -> 0 .. MaxTicks]]
    /\ measured \subseteq Boxes /\ touched \subseteq Boxes
    /\ dirty \in [Boxes -> SUBSET Slots]
    /\ \A b \in Boxes, i \in Slots : regs[b].ctr[i] <= ticks

Control ==
    /\ pc = "run" => GoodCall(call)
    /\ pc = "cleanup" => call \in {<<>>, CleanupUncorePMUs}
    /\ pc \in {"off", "done"} \/ call = <<>> => call = <<>> /\ ~Busy /\ left = {} /\ pass = 0
    /\ pc = "off" => measured = {}
    /\ left # {} \/ Busy => pass > 0
    /\ \A b \in left : Covers(call[pass], b)
    /\ Busy => /\ task.box \in pmus \ left /\ Covers(call[pass], task.box)
               /\ task.stage \in 1 .. Len(Now)

\* A box that is being programmed or cleared.
Programming ==
    Busy /\ Op = "program" =>
        LET b == task.box  m == call[pass].metrics IN
        /\ task.stage > 1 => b \notin measured /\ sample[b] = Zeros
        /\ Dead(b) => task.stage <= 2
        /\ ~Dead(b) =>
              /\ \A j \in 1 .. task.stage - 1 : Now[j].op = "ctl" =>
                    regs[b].ctl = [i \in Slots |-> m] /\ (Direct \/ ~regs[b].frz)
              /\ This.op = "ctl" => \A i \in Slots : i < task.slot => regs[b].ctl[i] = m
              /\ This.op = "ctr" /\ Direct => ~regs[b].frz

Clearing ==
    Busy /\ Op = "cleanup" =>
        LET b == task.box IN
        /\ task.stage > 1 => b \notin measured
        /\ task.stage = 1 => \A i \in Slots : i < task.slot => regs[b].ctl[i] = "zero"
        /\ task.stage > 1 => regs[b].ctl = NoEvents /\ (Direct \/ ~regs[b].frz)

\* What never counts: a disabled link.  A box that counts has a unit control
\* register; with perf nothing is ever frozen.
DeadOff ==
    \A b \in Boxes : /\ Dead(b) => regs[b] = Off /\ b \notin measured
                     /\ b \in measured => b[2] # "ubox" /\ (Direct \/ ~regs[b].frz)

\* The box has still to be treated by pass p of the call.
Pending(p, b) ==
    /\ b \in pmus /\ Covers(call[p], b)
    /\ p > pass \/ (p = pass /\ (b \in left \/ task.box = b))

\* A box that is frozen will be unfrozen.
Thaws ==
    pc = "run" => \A b \in measured : regs[b].frz =>
                     \E p \in 1 .. Len(call) : call[p].op = "unfreeze" /\ Pending(p, b)

\* A server box that is read stays frozen.
ReadFrozen ==
    pc = "run" /\ Direct =>
      \A p \in 1 .. pass, b \in measured \cap pmus :
        (call[p].op = "freeze" /\ (p = pass \/ (p + 1 = pass /\ Op = "read"))
            /\ Covers(call[p], b) /\ b[2] \in Server)
          => regs[b].frz \/ (p = pass /\ Pending(p, b))

Together ==
    Direct => \A b \in measured : b[2] \in Server =>
                \A i \in dirty[b] : regs[b].frz /\ sample[b][i] = regs[b].ctr[i]

\* cleanup has cleared a box, or comes to it.
Clears ==
    pc \in {"cleanup", "done"} =>
      \A b \in pmus : b[2] \notin {"m3upi", "hbm_m2m"} =>
        Clear(b) \/ \E p \in 1 .. Len(call) : Pending(p, b)

UncoreIInv ==
    /\ Types /\ Control /\ Programming /\ Clearing /\ DeadOff
    /\ Thaws /\ ReadFrozen /\ Together /\ Clears

-----------------------------------------------------------------------------
(* Sequences put together from short ones.                                 *)

\* Two, one and two.
LEMMA Join212 ==
    ASSUME NEW a, NEW b, NEW c, NEW d, NEW e, NEW p, p = <<a, b>> \o <<c>> \o <<d, e>>
    PROVE  Len(p) = 5 /\ p[1] = a /\ p[2] = b /\ p[3] = c /\ p[4] = d /\ p[5] = e
<1> DEFINE S == {a, b, c, d, e}
<1>1. <<a, b>> \in Seq(S) /\ <<c>> \in Seq(S) /\ <<d, e>> \in Seq(S)  OBVIOUS
<1>2. Len(<<a, b>>) = 2 /\ Len(<<c>>) = 1 /\ Len(<<d, e>>) = 2  OBVIOUS
<1> HIDE DEF S
<1>3. PICK q \in Seq(S) : q = <<a, b>> \o <<c>>  BY <1>1, ConcatProperties
<1>4. Len(q) = 3 /\ q[1] = a /\ q[2] = b /\ q[3] = c
    BY <1>1, <1>2, <1>3, ConcatProperties
<1>5. p = q \o <<d, e>>  BY <1>3
<1> QED BY <1>1, <1>2, <1>4, <1>5, ConcatProperties

\* Three, one and two.
LEMMA Join312 ==
    ASSUME NEW a, NEW b, NEW c, NEW d, NEW e, NEW f, NEW p, p = <<a, b, c>> \o <<d>> \o <<e, f>>
    PROVE  Len(p) = 6 /\ p[1] = a /\ p[2] = b /\ p[3] = c /\ p[4] = d /\ p[5] = e /\ p[6] = f
<1> DEFINE S == {a, b, c, d, e, f}
<1>1. <<a, b, c>> \in Seq(S) /\ <<d>> \in Seq(S) /\ <<e, f>> \in Seq(S)  OBVIOUS
<1>2. Len(<<a, b, c>>) = 3 /\ Len(<<d>>) = 1 /\ Len(<<e, f>>) = 2  OBVIOUS
<1> HIDE DEF S
<1>3. PICK q \in Seq(S) : q = <<a, b, c>> \o <<d>>  BY <1>1, ConcatProperties
<1>4. Len(q) = 4 /\ q[1] = a /\ q[2] = b /\ q[3] = c /\ q[4] = d
    BY <1>1, <1>2, <1>3, ConcatProperties
<1>5. p = q \o <<e, f>>  BY <1>3
<1> QED BY <1>1, <1>2, <1>4, <1>5, ConcatProperties

\* Two, one and three.
LEMMA Join213 ==
    ASSUME NEW a, NEW b, NEW c, NEW d, NEW e, NEW f, NEW p, p = <<a, b>> \o <<c>> \o <<d, e, f>>
    PROVE  Len(p) = 6 /\ p[1] = a /\ p[2] = b /\ p[3] = c /\ p[4] = d /\ p[5] = e /\ p[6] = f
<1> DEFINE S == {a, b, c, d, e, f}
<1>1. <<a, b>> \in Seq(S) /\ <<c>> \in Seq(S) /\ <<d, e, f>> \in Seq(S)  OBVIOUS
<1>2. Len(<<a, b>>) = 2 /\ Len(<<c>>) = 1 /\ Len(<<d, e, f>>) = 3  OBVIOUS
<1> HIDE DEF S
<1>3. PICK q \in Seq(S) : q = <<a, b>> \o <<c>>  BY <1>1, ConcatProperties
<1>4. Len(q) = 3 /\ q[1] = a /\ q[2] = b /\ q[3] = c
    BY <1>1, <1>2, <1>3, ConcatProperties
<1>5. p = q \o <<d, e, f>>  BY <1>3
<1> QED BY <1>1, <1>2, <1>4, <1>5, ConcatProperties

\* Three, one and three.
LEMMA Join313 ==
    ASSUME NEW a, NEW b, NEW c, NEW d, NEW e, NEW f, NEW g, NEW p, p = <<a, b, c>> \o <<d>> \o <<e, f, g>>
    PROVE  Len(p) = 7 /\ p[1] = a /\ p[2] = b /\ p[3] = c /\ p[4] = d /\ p[5] = e /\ p[6] = f /\ p[7] = g
<1> DEFINE S == {a, b, c, d, e, f, g}
<1>1. <<a, b, c>> \in Seq(S) /\ <<d>> \in Seq(S) /\ <<e, f, g>> \in Seq(S)  OBVIOUS
<1>2. Len(<<a, b, c>>) = 3 /\ Len(<<d>>) = 1 /\ Len(<<e, f, g>>) = 3  OBVIOUS
<1> HIDE DEF S
<1>3. PICK q \in Seq(S) : q = <<a, b, c>> \o <<d>>  BY <1>1, ConcatProperties
<1>4. Len(q) = 4 /\ q[1] = a /\ q[2] = b /\ q[3] = c /\ q[4] = d
    BY <1>1, <1>2, <1>3, ConcatProperties
<1>5. p = q \o <<e, f, g>>  BY <1>3
<1> QED BY <1>1, <1>2, <1>4, <1>5, ConcatProperties

\* Two and one.
LEMMA Join21 ==
    ASSUME NEW a, NEW b, NEW c, NEW p, p = <<a, b>> \o <<c>>
    PROVE  Len(p) = 3 /\ p[1] = a /\ p[2] = b /\ p[3] = c
<1> DEFINE S == {a, b, c}
<1>1. <<a, b>> \in Seq(S) /\ <<c>> \in Seq(S)  OBVIOUS
<1>2. Len(<<a, b>>) = 2 /\ Len(<<c>>) = 1  OBVIOUS
<1> HIDE DEF S
<1> QED BY <1>1, <1>2, ConcatProperties

\* Three and one.
LEMMA Join31 ==
    ASSUME NEW a, NEW b, NEW c, NEW d, NEW p, p = <<a, b, c>> \o <<d>>
    PROVE  Len(p) = 4 /\ p[1] = a /\ p[2] = b /\ p[3] = c /\ p[4] = d
<1> DEFINE S == {a, b, c, d}
<1>1. <<a, b, c>> \in Seq(S) /\ <<d>> \in Seq(S)  OBVIOUS
<1>2. Len(<<a, b, c>>) = 3 /\ Len(<<d>>) = 1  OBVIOUS
<1> HIDE DEF S
<1> QED BY <1>1, <1>2, ConcatProperties

\* Two and two.
LEMMA Join22 ==
    ASSUME NEW a, NEW b, NEW c, NEW d, NEW p, p = <<a, b>> \o <<c, d>>
    PROVE  Len(p) = 4 /\ p[1] = a /\ p[2] = b /\ p[3] = c /\ p[4] = d
<1> DEFINE S == {a, b, c, d}
<1>1. <<a, b>> \in Seq(S) /\ <<c, d>> \in Seq(S)  OBVIOUS
<1>2. Len(<<a, b>>) = 2 /\ Len(<<c, d>>) = 2  OBVIOUS
<1> HIDE DEF S
<1> QED BY <1>1, <1>2, ConcatProperties

\* Five and one.
LEMMA Join51 ==
    ASSUME NEW a, NEW b, NEW c, NEW d, NEW e, NEW f, NEW p, p = <<a, b, c, d, e>> \o <<f>>
    PROVE  /\ Len(p) = 6 /\ p[1] = a /\ p[2] = b /\ p[3] = c /\ p[4] = d /\ p[5] = e
           /\ p[6] = f
<1> DEFINE S == {a, b, c, d, e, f}
<1>1. <<a, b, c, d, e>> \in Seq(S) /\ <<f>> \in Seq(S)  OBVIOUS
<1>2. Len(<<a, b, c, d, e>>) = 5 /\ Len(<<f>>) = 1  OBVIOUS
<1> HIDE DEF S
<1> QED BY <1>1, <1>2, ConcatProperties

\* One and two.
LEMMA Join12 ==
    ASSUME NEW a, NEW b, NEW c, NEW p, p = <<a>> \o <<b, c>>
    PROVE  Len(p) = 3 /\ p[1] = a /\ p[2] = b /\ p[3] = c
<1> DEFINE S == {a, b, c}
<1>1. <<a>> \in Seq(S) /\ <<b, c>> \in Seq(S)  OBVIOUS
<1>2. Len(<<a>>) = 1 /\ Len(<<b, c>>) = 2  OBVIOUS
<1> HIDE DEF S
<1> QED BY <1>1, <1>2, ConcatProperties

\* Two and none.
LEMMA Join20 ==
    ASSUME NEW a, NEW b, NEW p, p = <<a, b>> \o <<>>
    PROVE  Len(p) = 2 /\ p[1] = a /\ p[2] = b
<1> DEFINE S == {a, b}
<1>1. <<a, b>> \in Seq(S) /\ <<>> \in Seq(S)  OBVIOUS
<1>2. Len(<<a, b>>) = 2 /\ Len(<<>>) = 0  OBVIOUS
<1> HIDE DEF S
<1> QED BY <1>1, <1>2, ConcatProperties

\* Three and none.
LEMMA Join30 ==
    ASSUME NEW a, NEW b, NEW c, NEW p, p = <<a, b, c>> \o <<>>
    PROVE  Len(p) = 3 /\ p[1] = a /\ p[2] = b /\ p[3] = c
<1> DEFINE S == {a, b, c}
<1>1. <<a, b, c>> \in Seq(S) /\ <<>> \in Seq(S)  OBVIOUS
<1>2. Len(<<a, b, c>>) = 3 /\ Len(<<>>) = 0  OBVIOUS
<1> HIDE DEF S
<1> QED BY <1>1, <1>2, ConcatProperties


-----------------------------------------------------------------------------
(* What is done to a box: the stages, kind by kind.                        *)

\* What the registers of a box need of the stages st that program it for m.
Sound(st, k, m) ==
    /\ Len(st) \in Nat \ {0} /\ st[1].mark = "begin"
    /\ \A n \in 1 .. Len(st) :
          /\ st[n].op \in {"unit", "check", "clear", "reset", "ctl", "ctr"}
          /\ st[n].op = "ctl" => st[n].event = m /\ st[n].first \in {"no", "none", "zero"}
          /\ st[n].op = "ctr" => /\ n > 1 /\ st[n - 1].op = "unit" /\ st[n - 1].flags = {}
                                 /\ k # "ubox"
          /\ st[n].mark = "end" => /\ k # "ubox" /\ n = Len(st) /\ \E j \in 1 .. n - 1 : st[j].op = "ctl"
                                   /\ (st[n].op = "unit" /\ st[n].flags = {}) \/ st[n].op = "ctr"
          /\ \A j \in 1 .. n - 1 : st[j].op = "ctl" =>
                st[n].op # "ctl" /\ "rstctl" \notin st[n].flags

\* The fields of a stage.
Is(s, op, flags, first, event, mark) ==
    s.op = op /\ s.flags = flags /\ s.first = first /\ s.event = event /\ s.mark = mark

\* The constructors of stages.
LEMMA StageFields ==
    /\ \A op, flags, first, event, mark :
          Is(Stage(op, flags, first, event, mark), op, flags, first, event, mark)
    /\ \A flags, mark : Is(Unit(flags, mark), "unit", flags, "no", "no", mark)
    /\ \A first, event, mark : Is(Ctl(first, event, mark), "ctl", {}, first, event, mark)
    /\ Is(Read, "read", {}, "no", "no", "no")
  BY DEF Is, Stage, Unit, Ctl, Read


\* Boxes of most kinds.
LEMMA SoundBox ==
    ASSUME NEW k, k # "ubox", NEW m
    PROVE  Sound(ProgramBox(m), k, m)
<1> DEFINE st == ProgramBox(m)
<1>1. CASE NewStyle
  <2>1. /\ Len(st) = 5
        /\ st[1] = Unit({"frz"}, "begin")
        /\ st[2] = Unit({"frz", "rstctl"}, "no")
        /\ st[3] = Ctl("no", m, "no")
        /\ st[4] = Unit({"frz", "rstctr"}, "no")
        /\ st[5] = Unit({}, "end")
    <3>1. st = <<Unit({"frz"}, "begin"), Unit({"frz", "rstctl"}, "no")>>
                 \o <<Ctl("no", m, "no")>>
                 \o <<Unit({"frz", "rstctr"}, "no"), Unit({}, "end")>>
      BY <1>1 DEF ProgramBox, InitFreeze, ProgramEvents, ResetUnfreeze
    <3> QED BY <3>1, Join212
  <2>2. /\ Is(st[1], "unit", {"frz"}, "no", "no", "begin")
        /\ Is(st[2], "unit", {"frz", "rstctl"}, "no", "no", "no")
        /\ Is(st[3], "ctl", {}, "no", m, "no")
        /\ Is(st[4], "unit", {"frz", "rstctr"}, "no", "no", "no")
        /\ Is(st[5], "unit", {}, "no", "no", "end")
      BY <2>1, StageFields
  <2>3. \A n \in 1 .. 5 : n = 1 \/ n = 2 \/ n = 3 \/ n = 4 \/ n = 5  OBVIOUS
  <2> QED BY <2>1, <2>2, <2>3 DEF Sound, Is
<1>2. CASE ~NewStyle
  <2>1. /\ Len(st) = 6
        /\ st[1] = Unit({}, "begin")
        /\ st[2] = Stage("check", {}, "no", "no", "no")
        /\ st[3] = Unit({"frz"}, "no")
        /\ st[4] = Ctl("none", m, "no")
        /\ st[5] = Unit({"frz", "rstctr"}, "no")
        /\ st[6] = Unit({}, "end")
    <3>1. st = <<Unit({}, "begin"), Stage("check", {}, "no", "no", "no"), Unit({"frz"}, "no")>>
                 \o <<Ctl("none", m, "no")>>
                 \o <<Unit({"frz", "rstctr"}, "no"), Unit({}, "end")>>
      BY <1>2 DEF ProgramBox, InitFreeze, ProgramEvents, ResetUnfreeze
    <3> QED BY <3>1, Join312
  <2>2. /\ Is(st[1], "unit", {}, "no", "no", "begin")
        /\ Is(st[2], "check", {}, "no", "no", "no")
        /\ Is(st[3], "unit", {"frz"}, "no", "no", "no")
        /\ Is(st[4], "ctl", {}, "none", m, "no")
        /\ Is(st[5], "unit", {"frz", "rstctr"}, "no", "no", "no")
        /\ Is(st[6], "unit", {}, "no", "no", "end")
      BY <2>1, StageFields
  <2>3. \A n \in 1 .. 6 : n = 1 \/ n = 2 \/ n = 3 \/ n = 4 \/ n = 5 \/ n = 6  OBVIOUS
  <2> QED BY <2>1, <2>2, <2>3 DEF Sound, Is
<1> QED BY <1>1, <1>2

\* CHAs.
LEMMA SoundCbo ==
    ASSUME NEW k, k # "ubox", NEW m
    PROVE  Sound(ProgramCbo(m), k, m)
<1> DEFINE st == ProgramCbo(m)
<1>1. CASE NewStyle
  <2>1. /\ Len(st) = 6
        /\ st[1] = Unit({"frz"}, "begin")
        /\ st[2] = Unit({"frz", "rstctl"}, "no")
        /\ st[3] = Ctl("no", m, "no")
        /\ st[4] = Unit({"frz", "rstctr"}, "no")
        /\ st[5] = Unit({}, "no")
        /\ st[6] = Stage("ctr", {}, "no", "no", "end")
    <3>1. st = <<Unit({"frz"}, "begin"), Unit({"frz", "rstctl"}, "no")>>
                 \o <<Ctl("no", m, "no")>>
                 \o <<Unit({"frz", "rstctr"}, "no"), Unit({}, "no"), Stage("ctr", {}, "no", "no", "end")>>
      BY <1>1 DEF ProgramCbo, InitFreeze, ProgramEvents
    <3> QED BY <3>1, Join213
  <2>2. /\ Is(st[1], "unit", {"frz"}, "no", "no", "begin")
        /\ Is(st[2], "unit", {"frz", "rstctl"}, "no", "no", "no")
        /\ Is(st[3], "ctl", {}, "no", m, "no")
        /\ Is(st[4], "unit", {"frz", "rstctr"}, "no", "no", "no")
        /\ Is(st[5], "unit", {}, "no", "no", "no")
        /\ Is(st[6], "ctr", {}, "no", "no", "end")
      BY <2>1, StageFields
  <2>3. \A n \in 1 .. 6 : n = 1 \/ n = 2 \/ n = 3 \/ n = 4 \/ n = 5 \/ n = 6  OBVIOUS
  <2> QED BY <2>1, <2>2, <2>3 DEF Sound, Is
<1>2. CASE ~NewStyle
  <2>1. /\ Len(st) = 7
        /\ st[1] = Unit({}, "begin")
        /\ st[2] = Stage("check", {}, "no", "no", "no")
        /\ st[3] = Unit({"frz"}, "no")
        /\ st[4] = Ctl("none", m, "no")
        /\ st[5] = Unit({"frz", "rstctr"}, "no")
        /\ st[6] = Unit({}, "no")
        /\ st[7] = Stage("ctr", {}, "no", "no", "end")
    <3>1. st = <<Unit({}, "begin"), Stage("check", {}, "no", "no", "no"), Unit({"frz"}, "no")>>
                 \o <<Ctl("none", m, "no")>>
                 \o <<Unit({"frz", "rstctr"}, "no"), Unit({}, "no"), Stage("ctr", {}, "no", "no", "end")>>
      BY <1>2 DEF ProgramCbo, InitFreeze, ProgramEvents
    <3> QED BY <3>1, Join313
  <2>2. /\ Is(st[1], "unit", {}, "no", "no", "begin")
        /\ Is(st[2], "check", {}, "no", "no", "no")
        /\ Is(st[3], "unit", {"frz"}, "no", "no", "no")
        /\ Is(st[4], "ctl", {}, "none", m, "no")
        /\ Is(st[5], "unit", {"frz", "rstctr"}, "no", "no", "no")
        /\ Is(st[6], "unit", {}, "no", "no", "no")
        /\ Is(st[7], "ctr", {}, "no", "no", "end")
      BY <2>1, StageFields
  <2>3. \A n \in 1 .. 7 : n = 1 \/ n = 2 \/ n = 3 \/ n = 4 \/ n = 5 \/ n = 6 \/ n = 7  OBVIOUS
  <2> QED BY <2>1, <2>2, <2>3 DEF Sound, Is
<1> QED BY <1>1, <1>2

\* PCIe boxes.
LEMMA SoundPcie ==
    ASSUME NEW k, k # "ubox", NEW m
    PROVE  Sound(ProgramPcie(m), k, m)
<1> DEFINE st == ProgramPcie(m)
<1>1. CASE NewStyle
  <2>1. /\ Len(st) = 3
        /\ st[1] = Ctl("no", m, "begin")
        /\ st[2] = Unit({"frz", "rstctr"}, "no")
        /\ st[3] = Unit({}, "end")
    <3>1. st = <<Ctl("no", m, "begin")>>
                 \o <<Unit({"frz", "rstctr"}, "no"), Unit({}, "end")>>
      BY <1>1 DEF ProgramPcie, ProgramEvents, ResetUnfreeze
    <3> QED BY <3>1, Join12
  <2>2. /\ Is(st[1], "ctl", {}, "no", m, "begin")
        /\ Is(st[2], "unit", {"frz", "rstctr"}, "no", "no", "no")
        /\ Is(st[3], "unit", {}, "no", "no", "end")
      BY <2>1, StageFields
  <2>3. \A n \in 1 .. 3 : n = 1 \/ n = 2 \/ n = 3  OBVIOUS
  <2> QED BY <2>1, <2>2, <2>3 DEF Sound, Is
<1>2. CASE ~NewStyle
  <2>1. /\ Len(st) = 3
        /\ st[1] = Ctl("none", m, "begin")
        /\ st[2] = Unit({"frz", "rstctr"}, "no")
        /\ st[3] = Unit({}, "end")
    <3>1. st = <<Ctl("none", m, "begin")>>
                 \o <<Unit({"frz", "rstctr"}, "no"), Unit({}, "end")>>
      BY <1>2 DEF ProgramPcie, ProgramEvents, ResetUnfreeze
    <3> QED BY <3>1, Join12
  <2>2. /\ Is(st[1], "ctl", {}, "none", m, "begin")
        /\ Is(st[2], "unit", {"frz", "rstctr"}, "no", "no", "no")
        /\ Is(st[3], "unit", {}, "no", "no", "end")
      BY <2>1, StageFields
  <2>3. \A n \in 1 .. 3 : n = 1 \/ n = 2 \/ n = 3  OBVIOUS
  <2> QED BY <2>1, <2>2, <2>3 DEF Sound, Is
<1> QED BY <1>1, <1>2

\* Accelerators.
LEMMA SoundIdx ==
    ASSUME NEW k, k # "ubox", NEW m
    PROVE  Sound(ProgramIdx(m), k, m)
<1> DEFINE st == ProgramIdx(m)
<1>1. /\ Len(st) = 4
      /\ st[1] = Stage("reset", {"rstctr"}, "no", "no", "begin")
      /\ st[2] = Unit({"frz"}, "no")
      /\ st[3] = Ctl("zero", m, "no")
      /\ st[4] = Unit({}, "end")
    BY DEF ProgramIdx
<1>2. /\ Is(st[1], "reset", {"rstctr"}, "no", "no", "begin")
      /\ Is(st[2], "unit", {"frz"}, "no", "no", "no")
      /\ Is(st[3], "ctl", {}, "zero", m, "no")
      /\ Is(st[4], "unit", {}, "no", "no", "end")
    BY <1>1, StageFields
<1>3. \A n \in 1 .. 4 : n = 1 \/ n = 2 \/ n = 3 \/ n = 4  OBVIOUS
<1> QED BY <1>1, <1>2, <1>3 DEF Sound, Is

\* The ubox.
LEMMA SoundUbox ==
    ASSUME NEW k, NEW m
    PROVE  Sound(ProgramUbox(m), k, m)
<1> DEFINE st == ProgramUbox(m)
<1>1. CASE NewStyle /\ m = "raw"
  <2>1. /\ Len(st) = 3
        /\ st[1] = Unit({"frz"}, "begin")
        /\ st[2] = Unit({"frz", "rstctl"}, "no")
        /\ st[3] = Ctl("no", m, "no")
    <3>1. st = <<Unit({"frz"}, "begin"), Unit({"frz", "rstctl"}, "no")>>
                 \o <<Ctl("no", m, "no")>>
      BY <1>1 DEF ProgramUbox, InitFreeze, ProgramEvents
    <3> QED BY <3>1, Join21
  <2>2. /\ Is(st[1], "unit", {"frz"}, "no", "no", "begin")
        /\ Is(st[2], "unit", {"frz", "rstctl"}, "no", "no", "no")
        /\ Is(st[3], "ctl", {}, "no", m, "no")
      BY <2>1, StageFields
  <2>3. \A n \in 1 .. 3 : n = 1 \/ n = 2 \/ n = 3  OBVIOUS
  <2> QED BY <2>1, <2>2, <2>3 DEF Sound, Is
<1>2. CASE ~NewStyle /\ m = "raw"
  <2>1. /\ Len(st) = 4
        /\ st[1] = Unit({}, "begin")
        /\ st[2] = Stage("check", {}, "no", "no", "no")
        /\ st[3] = Unit({"frz"}, "no")
        /\ st[4] = Ctl("none", m, "no")
    <3>1. st = <<Unit({}, "begin"), Stage("check", {}, "no", "no", "no"), Unit({"frz"}, "no")>>
                 \o <<Ctl("none", m, "no")>>
      BY <1>2 DEF ProgramUbox, InitFreeze, ProgramEvents
    <3> QED BY <3>1, Join31
  <2>2. /\ Is(st[1], "unit", {}, "no", "no", "begin")
        /\ Is(st[2], "check", {}, "no", "no", "no")
        /\ Is(st[3], "unit", {"frz"}, "no", "no", "no")
        /\ Is(st[4], "ctl", {}, "none", m, "no")
      BY <2>1, StageFields
  <2>3. \A n \in 1 .. 4 : n = 1 \/ n = 2 \/ n = 3 \/ n = 4  OBVIOUS
  <2> QED BY <2>1, <2>2, <2>3 DEF Sound, Is
<1>3. CASE NewStyle /\ m # "raw"
  <2>1. /\ Len(st) = 2
        /\ st[1] = Unit({"frz"}, "begin")
        /\ st[2] = Unit({"frz", "rstctl"}, "no")
    <3>1. st = <<Unit({"frz"}, "begin"), Unit({"frz", "rstctl"}, "no")>>
                 \o <<>>
      BY <1>3 DEF ProgramUbox, InitFreeze, ProgramEvents
    <3> QED BY <3>1, Join20
  <2>2. /\ Is(st[1], "unit", {"frz"}, "no", "no", "begin")
        /\ Is(st[2], "unit", {"frz", "rstctl"}, "no", "no", "no")
      BY <2>1, StageFields
  <2>3. \A n \in 1 .. 2 : n = 1 \/ n = 2  OBVIOUS
  <2> QED BY <2>1, <2>2, <2>3 DEF Sound, Is
<1>4. CASE ~NewStyle /\ m # "raw"
  <2>1. /\ Len(st) = 3
        /\ st[1] = Unit({}, "begin")
        /\ st[2] = Stage("check", {}, "no", "no", "no")
        /\ st[3] = Unit({"frz"}, "no")
    <3>1. st = <<Unit({}, "begin"), Stage("check", {}, "no", "no", "no"), Unit({"frz"}, "no")>>
                 \o <<>>
      BY <1>4 DEF ProgramUbox, InitFreeze, ProgramEvents
    <3> QED BY <3>1, Join30
  <2>2. /\ Is(st[1], "unit", {}, "no", "no", "begin")
        /\ Is(st[2], "check", {}, "no", "no", "no")
        /\ Is(st[3], "unit", {"frz"}, "no", "no", "no")
      BY <2>1, StageFields
  <2>3. \A n \in 1 .. 3 : n = 1 \/ n = 2 \/ n = 3  OBVIOUS
  <2> QED BY <2>1, <2>2, <2>3 DEF Sound, Is
<1> QED BY <1>1, <1>2, <1>3, <1>4

\* The links leave their list.
LEMMA SoundClear ==
    ASSUME NEW k, NEW m
    PROVE  /\ Sound(ClearLinks, k, m) /\ Len(ClearLinks) = 1
           /\ Is(ClearLinks[1], "clear", {}, "no", "no", "begin")
<1> DEFINE st == ClearLinks
<1>1. Len(st) = 1 /\ st[1] = Stage("clear", {}, "no", "no", "begin")  BY DEF ClearLinks
<1>2. Is(st[1], "clear", {}, "no", "no", "begin")  BY <1>1, StageFields
<1>3. \A n \in 1 .. 1 : n = 1  OBVIOUS
<1> QED BY <1>1, <1>2, <1>3 DEF Sound, Is

\* The stages that program a box of any kind.
LEMMA ProgramSound ==
    ASSUME NEW k, NEW m
    PROVE  Sound(Stages("program", k, m), k, m)
<1>1. Stages("program", k, m) = ProgramKind(k, m)  BY DEF Stages
<1>2. CASE k = "cbo"  BY <1>1, <1>2, SoundCbo DEF ProgramKind
<1>3. CASE k = "pcie"  BY <1>1, <1>3, SoundPcie DEF ProgramKind
<1>4. CASE k = "ubox"  BY <1>1, <1>4, SoundUbox DEF ProgramKind
<1>5. CASE k = "idx"  BY <1>1, <1>5, SoundIdx DEF ProgramKind
<1>6. CASE k = "xpi" /\ m = "memory"  BY <1>1, <1>6, SoundClear DEF ProgramKind
<1>7. CASE k \notin {"cbo", "pcie", "ubox", "idx"} /\ ~(k = "xpi" /\ m = "memory")
    BY <1>1, <1>7, SoundBox DEF ProgramKind
<1> QED BY <1>2, <1>3, <1>4, <1>5, <1>6, <1>7

\* A disabled link is found out in the second stage, before anything is marked.
LEMMA LinkStages ==
    ASSUME NEW m, m # "memory", ~NewStyle
    PROVE  LET st == Stages("program", "xpi", m) IN
           /\ Len(st) = 6 /\ st[1].op = "unit" /\ st[1].mark = "begin"
           /\ st[2].op = "check" /\ st[2].mark = "no"
<1> DEFINE st == Stages("program", "xpi", m)
<1>1. st = ProgramBox(m)  BY DEF Stages, ProgramKind
<1>2. st = <<Unit({}, "begin"), Stage("check", {}, "no", "no", "no"), Unit({"frz"}, "no")>>
             \o <<Ctl("none", m, "no")>>
             \o <<Unit({"frz", "rstctr"}, "no"), Unit({}, "end")>>
    BY <1>1 DEF ProgramBox, InitFreeze, ProgramEvents, ResetUnfreeze
<1>3. /\ Len(st) = 6 /\ st[1] = Unit({}, "begin") /\ st[2] = Stage("check", {}, "no", "no", "no")
    BY <1>2, Join312
<1> QED BY <1>3, StageFields DEF Is

\* The other things done to a box.
LEMMA OtherStages ==
    ASSUME NEW k, NEW m
    PROVE  /\ Len(Stages("cleanup", k, m)) = 2
           /\ Is(Stages("cleanup", k, m)[1], "ctl", {}, "no", "zero", "begin")
           /\ k = "idx" => Is(Stages("cleanup", k, m)[2], "reset", {"rstctr", "rstctl"}, "no", "no", "no")
           /\ k # "idx" => Is(Stages("cleanup", k, m)[2], "unit", {}, "no", "no", "no")
           /\ Len(Stages("freeze", k, m)) = 1
           /\ Is(Stages("freeze", k, m)[1], "unit", {"frz"}, "no", "no", "no")
           /\ Len(Stages("unfreeze", k, m)) = 1
           /\ Is(Stages("unfreeze", k, m)[1], "unit", {}, "no", "no", "no")
           /\ Len(Stages("read", k, m)) = 1
           /\ Is(Stages("read", k, m)[1], "read", {}, "no", "no", "no")
<1>1. /\ Stages("cleanup", k, m) = CleanupBox(k) /\ Stages("freeze", k, m) = FreezeBox
      /\ Stages("unfreeze", k, m) = UnfreezeBox /\ Stages("read", k, m) = ReadBox
    BY DEF Stages
<1>2. /\ Len(FreezeBox) = 1 /\ FreezeBox[1] = Unit({"frz"}, "no")
      /\ Len(UnfreezeBox) = 1 /\ UnfreezeBox[1] = Unit({}, "no")
      /\ Len(ReadBox) = 1 /\ ReadBox[1] = Read
    BY DEF FreezeBox, UnfreezeBox, ReadBox
<1>3. /\ Len(CleanupBox(k)) = 2 /\ CleanupBox(k)[1] = Ctl("no", "zero", "begin")
      /\ CleanupBox(k)[2] = IF k = "idx" THEN Stage("reset", {"rstctr", "rstctl"}, "no", "no", "no")
                            ELSE Unit({}, "no")
    BY DEF CleanupBox
<1> HIDE DEF Is
<1> QED BY <1>1, <1>2, <1>3, StageFields

-----------------------------------------------------------------------------
(* The calls.                                                              *)

\* The fields of a pass.
LEMMA PassFields ==
    /\ \A op, sockets, kinds, m :
          LET p == Pass(op, sockets, kinds, m) IN
          p.op = op /\ p.sockets = sockets /\ p.kinds = kinds /\ p.metrics = m
    /\ \A kinds, m : LET p == Programs(kinds, m) IN
          p.op = "program" /\ p.sockets = Sockets /\ p.kinds = kinds /\ p.metrics = m
    /\ \A op, sockets, kinds : LET p == Others(op, sockets, kinds) IN
          p.op = op /\ p.sockets = sockets /\ p.kinds = kinds
  BY DEF Pass, Programs, Others

\* The kinds of the lists that matter here.
LEMMA Lists ==
    ASSUME NEW p
    PROVE  /\ p.kinds = ServerSeq => KindsOf(p) = Server
           /\ p.kinds = OtherSeq => KindsOf(p) \cap Server = {}
           /\ p.kinds = <<"cbo", "ubox">> => KindsOf(p) \cap Server = {}
<1>1. p.kinds = ServerSeq => KindsOf(p) = Server
  <2> SUFFICES ASSUME p.kinds = ServerSeq PROVE KindsOf(p) = Server  OBVIOUS
  <2>1. DOMAIN ServerSeq = 1 .. 7  BY DEF ServerSeq
  <2>2. /\ ServerSeq[1] = "imc" /\ ServerSeq[2] = "edc" /\ ServerSeq[3] = "xpi"
        /\ ServerSeq[4] = "m3upi" /\ ServerSeq[5] = "m2m" /\ ServerSeq[6] = "ha"
        /\ ServerSeq[7] = "hbm_m2m"
    BY DEF ServerSeq
  <2>3. \A n \in 1 .. 7 : n = 1 \/ n = 2 \/ n = 3 \/ n = 4 \/ n = 5 \/ n = 6 \/ n = 7  OBVIOUS
  <2>4. KindsOf(p) \subseteq Server  BY <2>1, <2>2, <2>3 DEF KindsOf, Server
  <2>5. \A k \in Server : \E n \in 1 .. 7 : ServerSeq[n] = k  BY <2>2 DEF Server
  <2>6. Server \subseteq KindsOf(p)  BY <2>1, <2>5 DEF KindsOf
  <2> QED BY <2>4, <2>6
<1>2. p.kinds = OtherSeq => KindsOf(p) \cap Server = {}
  <2> SUFFICES ASSUME p.kinds = OtherSeq PROVE KindsOf(p) \cap Server = {}  OBVIOUS
  <2>1. DOMAIN OtherSeq = 1 .. 9  BY DEF OtherSeq
  <2>2. /\ OtherSeq[1] = "cbo" /\ OtherSeq[2] = "mdf" /\ OtherSeq[3] = "pcu"
        /\ OtherSeq[4] = "ubox" /\ OtherSeq[5] = "pcie" /\ OtherSeq[6] = "iio"
        /\ OtherSeq[7] = "irp" /\ OtherSeq[8] = "cxlcm" /\ OtherSeq[9] = "cxldp"
    BY DEF OtherSeq
  <2>3. \A n \in 1 .. 9 : n = 1 \/ n = 2 \/ n = 3 \/ n = 4 \/ n = 5 \/ n = 6 \/ n = 7
                          \/ n = 8 \/ n = 9
    OBVIOUS
  <2>4. \A n \in 1 .. 9 : OtherSeq[n] \notin Server  BY <2>2, <2>3 DEF Server
  <2> QED BY <2>1, <2>4 DEF KindsOf
<1>3. p.kinds = <<"cbo", "ubox">> => KindsOf(p) \cap Server = {}
  <2> SUFFICES ASSUME p.kinds = <<"cbo", "ubox">> PROVE KindsOf(p) \cap Server = {}  OBVIOUS
  <2>1. DOMAIN p.kinds = 1 .. 2 /\ p.kinds[1] = "cbo" /\ p.kinds[2] = "ubox"  OBVIOUS
  <2>2. KindsOf(p) \subseteq {"cbo", "ubox"}  BY <2>1 DEF KindsOf
  <2> QED BY <2>2 DEF Server
<1> QED BY <1>1, <1>2, <1>3

\* A call of programming passes only.
LEMMA GoodPrograms ==
    ASSUME NEW c, Len(c) \in Nat,
           \A p \in 1 .. Len(c) : c[p].op = "program" /\ c[p].metrics \in Metrics
    PROVE  GoodCall(c)
  BY DEF GoodCall, GoodPass

\* The programming functions.
LEMMA ProgramCalls ==
    /\ \A c \in {ProgramDefault, ProgramMemory, ProgramLatency, ProgramPower, ProgramIIO,
                 ProgramIRP, ProgramPCIeEventGroup, ProgramAccel} :
          Len(c) \in Nat \ {0} /\ GoodCall(c)
    /\ \A k : Len(ProgramRaw(k)) \in Nat \ {0} /\ GoodCall(ProgramRaw(k))
<1>0. {"default", "memory", "latency", "power", "raw"} \subseteq Metrics  BY DEF Metrics
<1>1. ASSUME NEW ks, NEW m \in Metrics
      PROVE  Len(<<Programs(ks, m)>>) = 1 /\ GoodCall(<<Programs(ks, m)>>)
  <2> DEFINE c == <<Programs(ks, m)>>
  <2>1. Len(c) = 1 /\ c[1] = Programs(ks, m)  OBVIOUS
  <2> HIDE DEF c
  <2>2. \A p \in 1 .. Len(c) : c[p].op = "program" /\ c[p].metrics \in Metrics
    BY <2>1, PassFields
  <2>3. GoodCall(c)  BY <2>1, <2>2, GoodPrograms
  <2> QED BY <2>1, <2>3 DEF c
<1>2. ASSUME NEW ks, NEW ls, NEW m \in Metrics
      PROVE  /\ Len(<<Programs(ks, m), Programs(ls, m)>>) = 2
             /\ GoodCall(<<Programs(ks, m), Programs(ls, m)>>)
  <2> DEFINE c == <<Programs(ks, m), Programs(ls, m)>>
  <2>1. Len(c) = 2 /\ c[1] = Programs(ks, m) /\ c[2] = Programs(ls, m)  OBVIOUS
  <2> HIDE DEF c
  <2>2. \A p \in 1 .. Len(c) : p = 1 \/ p = 2  BY <2>1
  <2>3. \A p \in 1 .. Len(c) : c[p].op = "program" /\ c[p].metrics \in Metrics
    BY <2>1, <2>2, PassFields
  <2>4. GoodCall(c)  BY <2>1, <2>3, GoodPrograms
  <2> QED BY <2>1, <2>4 DEF c
<1>2a. ASSUME NEW ks, NEW ls, NEW ns, NEW m \in Metrics
       PROVE  /\ Len(<<Programs(ks, m), Programs(ls, m), Programs(ns, m)>>) = 3
              /\ GoodCall(<<Programs(ks, m), Programs(ls, m), Programs(ns, m)>>)
  <2> DEFINE c == <<Programs(ks, m), Programs(ls, m), Programs(ns, m)>>
  <2>1. /\ Len(c) = 3 /\ c[1] = Programs(ks, m) /\ c[2] = Programs(ls, m)
        /\ c[3] = Programs(ns, m)
    OBVIOUS
  <2> HIDE DEF c
  <2>2. \A p \in 1 .. Len(c) : p = 1 \/ p = 2 \/ p = 3  BY <2>1
  <2>3. \A p \in 1 .. Len(c) : c[p].op = "program" /\ c[p].metrics \in Metrics
    BY <2>1, <2>2, PassFields
  <2>4. GoodCall(c)  BY <2>1, <2>3, GoodPrograms
  <2> QED BY <2>1, <2>4 DEF c
<1> HIDE DEF GoodCall
<1>3. Len(ProgramDefault) = 2 /\ GoodCall(ProgramDefault)  BY <1>0, <1>2 DEF ProgramDefault
<1>4. Len(ProgramMemory) = 3 /\ GoodCall(ProgramMemory)  BY <1>0, <1>2a DEF ProgramMemory
<1>5. Len(ProgramPower) = 2 /\ GoodCall(ProgramPower)  BY <1>0, <1>2 DEF ProgramPower
<1>6. Len(ProgramLatency) = 1 /\ GoodCall(ProgramLatency)  BY <1>0, <1>1 DEF ProgramLatency
<1>7. Len(ProgramIIO) = 1 /\ GoodCall(ProgramIIO)  BY <1>0, <1>1 DEF ProgramIIO
<1>8. Len(ProgramIRP) = 1 /\ GoodCall(ProgramIRP)  BY <1>0, <1>1 DEF ProgramIRP
<1>9. Len(ProgramPCIeEventGroup) = 1 /\ GoodCall(ProgramPCIeEventGroup)
    BY <1>0, <1>1 DEF ProgramPCIeEventGroup
<1>10. Len(ProgramAccel) = 1 /\ GoodCall(ProgramAccel)  BY <1>0, <1>1 DEF ProgramAccel
<1>11. \A k : Len(ProgramRaw(k)) = 1 /\ GoodCall(ProgramRaw(k))  BY <1>0, <1>1 DEF ProgramRaw
<1>12. \A c \in {ProgramDefault, ProgramMemory, ProgramLatency, ProgramPower, ProgramIIO,
                   ProgramIRP, ProgramPCIeEventGroup, ProgramAccel} :
          Len(c) \in {1, 2, 3} /\ GoodCall(c)
    BY <1>3, <1>4, <1>5, <1>6, <1>7, <1>8, <1>9, <1>10
<1>13. {1, 2, 3} \subseteq Nat \ {0}  OBVIOUS
<1> QED BY <1>11, <1>12, <1>13

\* The empty call.
LEMMA NoCall == Len(<<>>) = 0 /\ GoodCall(<<>>)
  BY DEF GoodCall

\* getServerUncoreCounterState.
LEMMA GoodRead ==
    ASSUME NEW s, NEW c, c = GetServerUncoreCounterState(s)
    PROVE  Len(c) = 4 /\ GoodCall(c)
<1>1. /\ Len(c) = 4 /\ c[1] = Others("freeze", {s}, ServerSeq) /\ c[2] = ReadServer(s)
      /\ c[3] = Others("unfreeze", {s}, ServerSeq) /\ c[4] = Others("read", {s}, OtherSeq)
    BY DEF GetServerUncoreCounterState
<1>2. /\ c[1].op = "freeze" /\ c[1].sockets = {s} /\ c[1].kinds = ServerSeq
      /\ c[3].op = "unfreeze" /\ c[3].sockets = {s} /\ c[3].kinds = ServerSeq
      /\ c[4].op = "read" /\ c[4].sockets = {s} /\ c[4].kinds = OtherSeq
    BY <1>1, PassFields
<1>3. c[2].op = "read" /\ c[2].sockets = {s}  BY <1>1, PassFields DEF ReadServer
<1>4. KindsOf(c[1]) = Server /\ KindsOf(c[3]) = Server /\ KindsOf(c[4]) \cap Server = {}
    BY <1>2, Lists
<1>5. GoodPass(c, 1)
  <2>1. 3 \in 1 + 1 .. Len(c)  BY <1>1
  <2> QED BY <1>2, <1>4, <2>1 DEF GoodPass
<1>6. GoodPass(c, 2)
  <2>1. 2 > 1 /\ 2 - 1 = 1  OBVIOUS
  <2> QED BY <1>2, <1>3, <1>4, <2>1 DEF GoodPass
<1>7. GoodPass(c, 3)  BY <1>2 DEF GoodPass
<1>8. GoodPass(c, 4)  BY <1>2, <1>4 DEF GoodPass
<1>9. \A p \in 1 .. Len(c) : p = 1 \/ p = 2 \/ p = 3 \/ p = 4  BY <1>1
<1> QED BY <1>1, <1>5, <1>6, <1>7, <1>8, <1>9 DEF GoodCall

\* readAndAggregateUncoreMCCounters.
LEMMA GoodAggregate ==
    ASSUME NEW s, NEW c, c = ReadAndAggregateUncoreMC(s)
    PROVE  Len(c) = 4 /\ GoodCall(c)
<1>1. /\ Len(c) = 4 /\ c[1] = Others("read", {s}, <<"cbo", "ubox">>)
      /\ c[2] = Others("freeze", {s}, ServerSeq)
      /\ c[3] = Others("read", {s}, <<"imc", "m2m", "cbo", "ha", "edc">>)
      /\ c[4] = Others("unfreeze", {s}, ServerSeq)
    BY DEF ReadAndAggregateUncoreMC
<1>2. /\ c[1].op = "read" /\ c[1].kinds = <<"cbo", "ubox">>
      /\ c[2].op = "freeze" /\ c[2].sockets = {s} /\ c[2].kinds = ServerSeq
      /\ c[4].op = "unfreeze" /\ c[4].sockets = {s} /\ c[4].kinds = ServerSeq
    BY <1>1, PassFields
<1>3. c[3].op = "read" /\ c[3].sockets = {s}  BY <1>1, PassFields
<1>4. KindsOf(c[2]) = Server /\ KindsOf(c[4]) = Server /\ KindsOf(c[1]) \cap Server = {}
    BY <1>2, Lists
<1>5. GoodPass(c, 2)
  <2>1. 4 \in 2 + 1 .. Len(c)  BY <1>1
  <2> QED BY <1>2, <1>4, <2>1 DEF GoodPass
<1>6. GoodPass(c, 3)
  <2>1. 3 > 1 /\ 3 - 1 = 2  OBVIOUS
  <2> QED BY <1>2, <1>3, <1>4, <2>1 DEF GoodPass
<1>7. GoodPass(c, 4)  BY <1>2 DEF GoodPass
<1>8. GoodPass(c, 1)
  <2>1. c[1].op = "read" /\ KindsOf(c[1]) \cap Server = {}  BY <1>2, <1>4
  <2> QED BY <2>1 DEF GoodPass
<1>9. \A p \in 1 .. Len(c) : p = 1 \/ p = 2 \/ p = 3 \/ p = 4  BY <1>1
<1> QED BY <1>1, <1>5, <1>6, <1>7, <1>8, <1>9 DEF GoodCall

\* freezeServerUncoreCounters and unfreezeServerUncoreCounters.
LEMMA GoodFreeze ==
    ASSUME NEW c, c = FreezeServer \o UnfreezeServer
    PROVE  Len(c) = 4 /\ GoodCall(c)
<1>1. /\ Len(c) = 4
      /\ c[1] = Others("freeze", ServedSockets, SocketSeq)
      /\ c[2] = Others("freeze", Sockets, CxlSeq)
      /\ c[3] = Others("unfreeze", ServedSockets, SocketSeq)
      /\ c[4] = Others("unfreeze", Sockets, CxlSeq)
    BY Join22 DEF FreezeServer, UnfreezeServer
<1>2. /\ c[1].op = "freeze" /\ c[1].sockets = ServedSockets /\ c[1].kinds = SocketSeq
      /\ c[2].op = "freeze" /\ c[2].sockets = Sockets /\ c[2].kinds = CxlSeq
      /\ c[3].op = "unfreeze" /\ c[3].sockets = ServedSockets /\ c[3].kinds = SocketSeq
      /\ c[4].op = "unfreeze" /\ c[4].sockets = Sockets /\ c[4].kinds = CxlSeq
    BY <1>1, PassFields
<1>3. KindsOf(c[1]) = KindsOf(c[3]) /\ KindsOf(c[2]) = KindsOf(c[4])  BY <1>2 DEF KindsOf
<1>4. GoodPass(c, 1)
  <2>1. 3 \in 1 + 1 .. Len(c)  BY <1>1
  <2> QED BY <1>2, <1>3, <2>1 DEF GoodPass
<1>5. GoodPass(c, 2)
  <2>1. 4 \in 2 + 1 .. Len(c)  BY <1>1
  <2> QED BY <1>2, <1>3, <2>1 DEF GoodPass
<1>6. GoodPass(c, 3) /\ GoodPass(c, 4)  BY <1>2 DEF GoodPass
<1>7. \A p \in 1 .. Len(c) : p = 1 \/ p = 2 \/ p = 3 \/ p = 4  BY <1>1
<1> QED BY <1>1, <1>4, <1>5, <1>6, <1>7 DEF GoodCall

\* PCM::cleanup: six passes, that come to every kind but two.
LEMMA CleanupPasses ==
    ASSUME NEW c, c = CleanupUncorePMUs
    PROVE  /\ Len(c) = 6 /\ \A p \in 1 .. 6 : c[p].op = "cleanup" /\ c[p].sockets = Sockets
           /\ \A k \in AllKinds \ {"m3upi", "hbm_m2m"} : \E p \in 1 .. 6 : k \in KindsOf(c[p])
<1>1. /\ Len(c) = 6
      /\ c[1] = Cleanups(<<"iio">>) /\ c[2] = Cleanups(<<"idx">>) /\ c[3] = Cleanups(<<"irp">>)
      /\ c[4] = Cleanups(<<"cbo", "mdf", "pcu", "ubox", "pcie">>) /\ c[5] = Cleanups(CxlSeq)
      /\ c[6] = Cleanups(<<"xpi", "imc", "edc", "m2m", "ha">>)
    BY Join51 DEF CleanupUncorePMUs, CleanupOthers
<1>2. \A ks : LET p == Cleanups(ks) IN p.op = "cleanup" /\ p.sockets = Sockets /\ p.kinds = ks
    BY PassFields DEF Cleanups
<1>3. \A p \in 1 .. 6 : p = 1 \/ p = 2 \/ p = 3 \/ p = 4 \/ p = 5 \/ p = 6  OBVIOUS
<1>4. \A p \in 1 .. 6 : c[p].op = "cleanup" /\ c[p].sockets = Sockets  BY <1>1, <1>2, <1>3
<1>5. "iio" \in KindsOf(c[1]) /\ "idx" \in KindsOf(c[2]) /\ "irp" \in KindsOf(c[3])
  <2>1. \A k : DOMAIN <<k>> = 1 .. 1 /\ <<k>>[1] = k  OBVIOUS
  <2>2. \A p, k : p.kinds = <<k>> => k \in KindsOf(p)  BY <2>1 DEF KindsOf
  <2> QED BY <1>1, <1>2, <2>2
<1>6. {"cbo", "mdf", "pcu", "ubox", "pcie"} \subseteq KindsOf(c[4])
  <2>1. c[4].kinds = <<"cbo", "mdf", "pcu", "ubox", "pcie">>  BY <1>1, <1>2
  <2>2. PICK ks : ks = c[4].kinds  OBVIOUS
  <2>3. DOMAIN ks = 1 .. 5 /\ ks[1] = "cbo" /\ ks[2] = "mdf" /\ ks[3] = "pcu"
        /\ ks[4] = "ubox" /\ ks[5] = "pcie"
    BY <2>1, <2>2
  <2> QED BY <2>2, <2>3 DEF KindsOf
<1>7. {"cxlcm", "cxldp"} \subseteq KindsOf(c[5])
  <2>1. c[5].kinds = <<"cxlcm", "cxldp">>  BY <1>1, <1>2 DEF CxlSeq
  <2>2. PICK ks : ks = c[5].kinds  OBVIOUS
  <2>3. DOMAIN ks = 1 .. 2 /\ ks[1] = "cxlcm" /\ ks[2] = "cxldp"  BY <2>1, <2>2
  <2> QED BY <2>2, <2>3 DEF KindsOf
<1>8. {"xpi", "imc", "edc", "m2m", "ha"} \subseteq KindsOf(c[6])
  <2>1. c[6].kinds = <<"xpi", "imc", "edc", "m2m", "ha">>  BY <1>1, <1>2
  <2>2. PICK ks : ks = c[6].kinds  OBVIOUS
  <2>3. DOMAIN ks = 1 .. 5 /\ ks[1] = "xpi" /\ ks[2] = "imc" /\ ks[3] = "edc"
        /\ ks[4] = "m2m" /\ ks[5] = "ha"
    BY <2>1, <2>2
  <2> QED BY <2>2, <2>3 DEF KindsOf
<1>9. \A k \in AllKinds \ {"m3upi", "hbm_m2m"} : \E p \in 1 .. 6 : k \in KindsOf(c[p])
  <2> SUFFICES ASSUME NEW k \in AllKinds \ {"m3upi", "hbm_m2m"}
               PROVE  \E p \in 1 .. 6 : k \in KindsOf(c[p])
    OBVIOUS
  <2>1. \/ k \in {"iio", "idx", "irp"} \/ k \in {"cbo", "mdf", "pcu", "ubox", "pcie"}
        \/ k \in {"cxlcm", "cxldp"} \/ k \in {"xpi", "imc", "edc", "m2m", "ha"}
    BY DEF AllKinds, Server
  <2> QED BY <2>1, <1>5, <1>6, <1>7, <1>8
<1> QED BY <1>1, <1>4, <1>9

-----------------------------------------------------------------------------
(* One access.                                                             *)

\* How the access at hand ends.
Dropped == This.op = "clear" \/ (This.op = "check" /\ Dead(task.box))
Ends == This.mark = "end" /\ ~Again(This) /\ ~More(This)

\* No box of the machine stands for "no box".
LEMMA NoBoxIsNone == NoBox \notin Boxes
  BY UncoreAssumption DEF NoBox, Sockets

\* A box is a socket and a kind; a disabled link is an xpi box.
LEMMA BoxParts ==
    ASSUME NEW b \in Boxes
    PROVE  b[1] \in Sockets /\ b[2] \in AllKinds /\ (b \in DisabledLinks => b[2] = "xpi")
  BY UncoreAssumption

\* The stages depend on the platform only.
LEMMA SameStages ==
    ASSUME platform' = platform, call' = call, pass' = pass, task'.box = task.box
    PROVE  Now' = Now /\ Op' = Op
<1>1. NewStyle' = NewStyle  BY DEF NewStyle
<1>2. InitFreeze' = InitFreeze  BY <1>1 DEF InitFreeze, Unit, Stage
<1>3. ResetUnfreeze' = ResetUnfreeze  BY DEF ResetUnfreeze, Unit, Stage
<1> QED BY <1>1, <1>2, <1>3
        DEF Now, Op, Stages, ProgramKind, ClearLinks, ProgramCbo, ProgramPcie, ProgramUbox, ProgramIdx,
            ProgramBox, ProgramEvents, CleanupBox, FreezeBox, UnfreezeBox, ReadBox, Ctl, Unit,
            Read, Stage

\* What depends on the platform stays as it is.
LEMMA SamePlatform ==
    ASSUME platform' = platform
    PROVE  /\ Direct' = Direct /\ \A b : Dead(b)' = Dead(b)
           /\ \A b : HasUnitControl(b)' = HasUnitControl(b)
  BY DEF Direct, Dead, HasUnitControl, NewStyle

\* Step, in the terms used here.
LEMMA StepForm ==
    ASSUME Step
    PROVE  /\ Busy /\ UNCHANGED <<platform, pc, call, pass, left, calls, ticks>>
           /\ Dropped => DropLink(task.box)
           /\ ~Dropped => Advance(Now) /\ pmus' = pmus
           /\ regs' = IF Dead(task.box) THEN regs
                      ELSE [regs EXCEPT ![task.box] = Effect(@, This)]
           /\ sample' = CASE This.op = "read" ->
                               [sample EXCEPT ![task.box][task.slot] = regs[task.box].ctr[task.slot]]
                          [] This.mark = "begin" -> [sample EXCEPT ![task.box] = Zeros]
                          [] OTHER -> sample
           /\ measured' = CASE This.mark = "begin" \/ Dropped -> measured \ {task.box}
                            [] Ends -> measured \cup {task.box}
                            [] OTHER -> measured
           /\ touched' = IF This.op = "ctl" /\ pc = "run" THEN touched \cup {task.box} ELSE touched
           /\ dirty' = [dirty EXCEPT ![task.box] =
                           IF This.op = "read" THEN @ \cup {task.slot} ELSE {}]
  BY DEF Step, Op, Now, This, Dropped, Ends

\* The access that follows: the second value of an event select, the next
\* counter, the next stage, or none.
LEMMA Advanced ==
    ASSUME Types, Busy, Advance(Now)
    PROVE  \/ Again(This) /\ task' = [task EXCEPT !.again = TRUE]
           \/ ~Again(This) /\ More(This) /\ task' = [task EXCEPT !.slot = @ + 1, !.again = FALSE]
           \/ /\ ~Again(This) /\ ~More(This) /\ task.stage < Len(Now)
              /\ task' = [Idle EXCEPT !.box = task.box, !.stage = task.stage + 1]
           \/ ~Again(This) /\ ~More(This) /\ ~(task.stage < Len(Now)) /\ task' = Idle
  BY DEF Advance, This

\* The fields of the next task.
LEMMA NextTask ==
    ASSUME Types, Busy, Advance(Now)
    PROVE  \/ /\ Again(This) /\ task'.box = task.box /\ task'.stage = task.stage
              /\ task'.slot = task.slot /\ task'.again = TRUE
           \/ /\ ~Again(This) /\ More(This) /\ task'.box = task.box /\ task'.stage = task.stage
              /\ task'.slot = task.slot + 1 /\ task'.again = FALSE
           \/ /\ ~Again(This) /\ ~More(This) /\ task.stage < Len(Now) /\ task'.box = task.box
              /\ task'.stage = task.stage + 1 /\ task'.slot = 1 /\ task'.again = FALSE
           \/ ~Again(This) /\ ~More(This) /\ ~(task.stage < Len(Now)) /\ task' = Idle
<1>1. task \in [box : Boxes \cup {NoBox}, stage : Nat, slot : Slots, again : BOOLEAN]
    BY DEF Types
<1> QED BY <1>1, Advanced DEF Idle

\* What the accesses of a process are: of which call, and which.
LEMMA Access ==
    ASSUME Types, Control, Busy
    PROVE  /\ task.box \in Boxes /\ task.stage \in 1 .. Len(Now) /\ Len(Now) \in Nat \ {0}
           /\ \/ /\ Op = "program" /\ pc = "run" /\ call[pass].metrics \in Metrics
                 /\ Sound(Now, task.box[2], call[pass].metrics)
              \/ /\ Op = "cleanup" /\ pc = "cleanup" /\ Len(Now) = 2 /\ task.stage \in {1, 2}
                 /\ task.stage = 1 => Is(This, "ctl", {}, "no", "zero", "begin")
                 /\ task.stage = 2 /\ task.box[2] = "idx" =>
                       Is(This, "reset", {"rstctr", "rstctl"}, "no", "no", "no")
                 /\ task.stage = 2 /\ task.box[2] # "idx" => Is(This, "unit", {}, "no", "no", "no")
              \/ /\ Op = "freeze" /\ pc = "run" /\ Len(Now) = 1 /\ task.stage = 1
                 /\ Is(This, "unit", {"frz"}, "no", "no", "no")
              \/ /\ Op = "unfreeze" /\ pc = "run" /\ Len(Now) = 1 /\ task.stage = 1
                 /\ Is(This, "unit", {}, "no", "no", "no")
              \/ /\ Op = "read" /\ pc = "run" /\ Len(Now) = 1 /\ task.stage = 1
                 /\ Is(This, "read", {}, "no", "no", "no")
<1>1. /\ task.box \in Boxes /\ task.stage \in 1 .. Len(Now) /\ pass \in 1 .. Len(call)
      /\ pc \in {"run", "cleanup"} /\ call # <<>> /\ task.stage \in Nat
    BY DEF Types, Control, Busy
<1>2. PICK k, m, o : k = task.box[2] /\ m = call[pass].metrics /\ o = Op  OBVIOUS
<1>3. Now = Stages(o, k, m) /\ This = Stages(o, k, m)[task.stage]  BY <1>2 DEF Now, This
<1>4. CASE pc = "cleanup"
  <2>1. call = CleanupUncorePMUs  BY <1>1, <1>4 DEF Control
  <2>2. o = "cleanup"  BY <1>1, <1>2, <2>1, CleanupPasses DEF Op
  <2>3. Len(Now) = 2 /\ task.stage \in {1, 2}  BY <1>1, <1>3, <2>2, OtherStages
  <2> QED BY <1>1, <1>2, <1>3, <1>4, <2>2, <2>3, OtherStages
<1>5. CASE pc = "run"
  <2>1. GoodPass(call, pass)  BY <1>1, <1>5 DEF Control, GoodCall
  <2>2. o \in {"program", "read", "freeze", "unfreeze"} /\ (o = "program" => m \in Metrics)
    BY <1>2, <2>1 DEF GoodPass, Op
  <2>3. CASE o = "program"
    <3>1. Sound(Now, k, m)  BY <1>3, <2>3, ProgramSound
    <3> QED BY <1>1, <1>2, <1>5, <2>2, <2>3, <3>1 DEF Sound
  <2>4. CASE o = "read"
    <3>1. Len(Now) = 1 /\ task.stage = 1  BY <1>1, <1>3, <2>4, OtherStages
    <3> QED BY <1>1, <1>2, <1>3, <1>5, <2>4, <3>1, OtherStages
  <2>5. CASE o = "freeze"
    <3>1. Len(Now) = 1 /\ task.stage = 1  BY <1>1, <1>3, <2>5, OtherStages
    <3> QED BY <1>1, <1>2, <1>3, <1>5, <2>5, <3>1, OtherStages
  <2>6. CASE o = "unfreeze"
    <3>1. Len(Now) = 1 /\ task.stage = 1  BY <1>1, <1>3, <2>6, OtherStages
    <3> QED BY <1>1, <1>2, <1>3, <1>5, <2>6, <3>1, OtherStages
  <2> QED BY <2>2, <2>3, <2>4, <2>5, <2>6
<1> QED BY <1>1, <1>4, <1>5

\* The fields of the access at hand, whatever the call.
LEMMA ThisAccess ==
    ASSUME Types, Control, Busy
    PROVE  /\ This.op \in {"unit", "check", "clear", "reset", "ctl", "ctr", "read"}
           /\ This.op = "ctl" => This.event \in Events /\ This.first \in {"no", "none", "zero"}
           /\ This.op = "read" <=> Op = "read"
           /\ This.op = "read" => This.mark = "no"
           /\ This.mark = "end" => /\ Op = "program" /\ This.op \in {"unit", "ctr"}
                                   /\ task.stage = Len(Now) /\ task.stage > 1
<1>1. task.stage \in 1 .. Len(Now) /\ Len(Now) \in Nat  BY Access
<1>2. CASE Op = "program"
  <2>1. Sound(Now, task.box[2], call[pass].metrics) /\ call[pass].metrics \in Metrics
    BY <1>2, Access
  <2> QED BY <1>1, <1>2, <2>1 DEF Sound, This, Events
<1>3. CASE Op # "program"  BY <1>1, <1>3, Access DEF Is, Events
<1> QED BY <1>2, <1>3

\* The access at hand only changes its own box.
LEMMA OtherBoxes ==
    ASSUME Types, Step, NEW c \in Boxes, c # task.box
    PROVE  /\ regs'[c] = regs[c] /\ sample'[c] = sample[c] /\ dirty'[c] = dirty[c]
           /\ (c \in measured') = (c \in measured) /\ (c \in touched') = (c \in touched)
           /\ (c \in pmus') = (c \in pmus)
  BY StepForm DEF Types, DropLink

\* What it does to its own box.
LEMMA OwnBox ==
    ASSUME Types, Control, Step
    PROVE  /\ task.box \in Boxes /\ task.slot \in Slots
           /\ regs'[task.box] = IF Dead(task.box) THEN regs[task.box] ELSE Effect(regs[task.box], This)
           /\ dirty'[task.box] = IF This.op = "read" THEN dirty[task.box] \cup {task.slot} ELSE {}
           /\ This.op = "read" =>
                 /\ sample'[task.box][task.slot] = regs[task.box].ctr[task.slot]
                 /\ \A i \in Slots : i # task.slot => sample'[task.box][i] = sample[task.box][i]
           /\ This.op # "read" =>
                 sample'[task.box] = IF This.mark = "begin" THEN Zeros ELSE sample[task.box]
           /\ task.box \in measured' <=> /\ This.mark # "begin" /\ ~Dropped
                                         /\ Ends \/ task.box \in measured
<1>1. task.box \in Boxes /\ task.slot \in Slots  BY StepForm DEF Types, Busy
<1>a. (This.op = "read" => This.mark = "no") /\ (Dropped => ~Ends)
    BY StepForm, ThisAccess DEF Dropped, Ends
<1>2. /\ regs'[task.box] = IF Dead(task.box) THEN regs[task.box] ELSE Effect(regs[task.box], This)
      /\ dirty'[task.box] = IF This.op = "read" THEN dirty[task.box] \cup {task.slot} ELSE {}
    BY <1>1, StepForm DEF Types
<1>3. This.op = "read" =>
                 /\ sample'[task.box][task.slot] = regs[task.box].ctr[task.slot]
                 /\ \A i \in Slots : i # task.slot => sample'[task.box][i] = sample[task.box][i]
    BY <1>1, <1>a, StepForm DEF Types
<1>4. This.op # "read" =>
         sample'[task.box] = IF This.mark = "begin" THEN Zeros ELSE sample[task.box]
    BY <1>1, StepForm DEF Types
<1>5. task.box \in measured' <=> /\ This.mark # "begin" /\ ~Dropped
                                 /\ Ends \/ task.box \in measured
    BY <1>1, <1>a, StepForm DEF Types, Ends
<1> QED BY <1>1, <1>2, <1>3, <1>4, <1>5

-----------------------------------------------------------------------------
(* What an access does to the registers.                                   *)

\* The registers stay registers and no counter goes up.
LEMMA EffectType ==
    ASSUME NEW r \in Registers, NEW a, task.slot \in Slots,
           a.op = "ctl" => a.event \in Events /\ a.first \in {"no", "none", "zero"}
    PROVE  /\ Effect(r, a) \in Registers
           /\ \A i \in Slots : Effect(r, a).ctr[i] <= r.ctr[i]
<1>1. /\ r.frz \in BOOLEAN /\ r.ctl \in [Slots -> Events] /\ r.ctr \in [Slots -> 0 .. MaxTicks]
      /\ r = [frz |-> r.frz, ctl |-> r.ctl, ctr |-> r.ctr]
    BY DEF Registers, Events
<1>2. MaxTicks \in Nat /\ 0 \in 0 .. MaxTicks  BY UncoreAssumption
<1>3. NoEvents \in [Slots -> Events] /\ Zeros \in [Slots -> 0 .. MaxTicks]
      /\ \A i \in Slots : Zeros[i] = 0
    BY <1>2 DEF NoEvents, Zeros, Events
<1>4. ASSUME NEW f \in BOOLEAN, NEW e \in [Slots -> Events], NEW n \in [Slots -> 0 .. MaxTicks],
             Effect(r, a) = [frz |-> f, ctl |-> e, ctr |-> n], \A i \in Slots : n[i] <= r.ctr[i]
      PROVE  Effect(r, a) \in Registers /\ \A i \in Slots : Effect(r, a).ctr[i] <= r.ctr[i]
    BY <1>4 DEF Registers, Events
<1>5. ASSUME NEW f \in BOOLEAN,
             Effect(r, a) = [frz |-> f, ctl |-> IF "rstctl" \in a.flags THEN NoEvents ELSE r.ctl,
                             ctr |-> IF "rstctr" \in a.flags THEN Zeros ELSE r.ctr]
      PROVE  Effect(r, a) \in Registers /\ \A i \in Slots : Effect(r, a).ctr[i] <= r.ctr[i]
  <2>1. PICK e \in [Slots -> Events] : e = IF "rstctl" \in a.flags THEN NoEvents ELSE r.ctl
    BY <1>1, <1>3
  <2>2. PICK n \in [Slots -> 0 .. MaxTicks] : n = IF "rstctr" \in a.flags THEN Zeros ELSE r.ctr
    BY <1>1, <1>3
  <2>3. \A i \in Slots : n[i] <= r.ctr[i]  BY <1>1, <1>2, <1>3, <2>2
  <2>4. Effect(r, a) = [frz |-> f, ctl |-> e, ctr |-> n]  BY <1>5, <2>1, <2>2
  <2> QED BY <1>4, <2>3, <2>4
<1>6. CASE a.op = "unit" /\ Direct /\ HasUnitControl(task.box)
  <2>1. Effect(r, a) = [frz |-> "frz" \in a.flags,
                        ctl |-> IF "rstctl" \in a.flags THEN NoEvents ELSE r.ctl,
                        ctr |-> IF "rstctr" \in a.flags THEN Zeros ELSE r.ctr]
    BY <1>6 DEF Effect
  <2>2. CASE "frz" \in a.flags
    <3>1. ("frz" \in a.flags) = TRUE  BY <2>2
    <3> QED BY <1>5, <2>1, <3>1
  <2>3. CASE "frz" \notin a.flags
    <3>1. ("frz" \in a.flags) = FALSE  BY <2>3
    <3> QED BY <1>5, <2>1, <3>1
  <2> QED BY <2>2, <2>3
<1>7. CASE a.op = "reset" /\ Direct  BY <1>1, <1>5, <1>7 DEF Effect
<1>8. CASE a.op = "ctl"
  <2>1. PICK f \in BOOLEAN : f = (r.frz /\ Direct)  BY <1>1
  <2>2. PICK v \in Events : v = IF Again(a) THEN a.first ELSE a.event
    BY <1>8 DEF Again, Events
  <2>3. PICK e \in [Slots -> Events] : e = [r.ctl EXCEPT ![task.slot] = v]  BY <1>1
  <2>4. PICK n \in [Slots -> 0 .. MaxTicks] :
           n = IF Direct THEN r.ctr ELSE [r.ctr EXCEPT ![task.slot] = 0]
    BY <1>1, <1>2
  <2>5. \A i \in Slots : n[i] <= r.ctr[i]  BY <1>1, <1>2, <2>4
  <2>a. Effect(r, a) =
           [frz |-> r.frz /\ Direct,
            ctl |-> [r.ctl EXCEPT ![task.slot] = IF Again(a) THEN a.first ELSE a.event],
            ctr |-> IF Direct THEN r.ctr ELSE [r.ctr EXCEPT ![task.slot] = 0]]
    BY <1>8 DEF Effect
  <2>6. Effect(r, a) = [frz |-> f, ctl |-> e, ctr |-> n]
    BY <2>1, <2>2, <2>3, <2>4, <2>a
  <2> QED BY <1>4, <2>5, <2>6
<1>9. CASE a.op = "ctr" /\ Direct
  <2>1. PICK n \in [Slots -> 0 .. MaxTicks] : n = [r.ctr EXCEPT ![task.slot] = 0]  BY <1>1, <1>2
  <2>2. \A i \in Slots : n[i] <= r.ctr[i]  BY <1>1, <1>2, <2>1
  <2>3. Effect(r, a) = [r EXCEPT !.ctr[task.slot] = 0]  BY <1>9 DEF Effect
  <2>4. Effect(r, a) = [frz |-> r.frz, ctl |-> r.ctl, ctr |-> n]  BY <1>1, <2>1, <2>3
  <2> QED BY <1>1, <1>4, <2>2, <2>4
<1>10. CASE /\ ~(a.op = "unit" /\ Direct /\ HasUnitControl(task.box))
            /\ ~(a.op = "reset" /\ Direct) /\ a.op # "ctl" /\ ~(a.op = "ctr" /\ Direct)
  <2>1. Effect(r, a) = r  BY <1>10 DEF Effect
  <2> QED BY <1>1, <1>2, <2>1
<1> QED BY <1>6, <1>7, <1>8, <1>9, <1>10

\* What it does to the freeze flag, the event selects and the counters.
EffectIs(e, r, a) ==
    /\ a.op = "unit" /\ Direct /\ HasUnitControl(task.box) =>
         e.frz = ("frz" \in a.flags)
    /\ a.op \notin {"unit", "ctl"} => e.frz = r.frz
    /\ a.op # "ctl" /\ "rstctl" \notin a.flags => e.ctl = r.ctl
    /\ a.op \in {"check", "clear", "read"} => e = r
    /\ a.op # "ctl" /\ ~Direct => e = r
    /\ a.op = "unit" /\ ~HasUnitControl(task.box) => e = r
    /\ a.op = "ctl" =>
         /\ e.frz = (r.frz /\ Direct)
         /\ e.ctl =
              [r.ctl EXCEPT ![task.slot] = IF Again(a) THEN a.first ELSE a.event]
    /\ a.op \in {"unit", "reset"} /\ "rstctl" \in a.flags =>
         e.ctl = NoEvents \/ e = r
    /\ a.op = "unit" /\ "rstctr" \notin a.flags /\ "rstctl" \notin a.flags =>
         e.ctr = r.ctr /\ e.ctl = r.ctl

\* Effect does that.
LEMMA EffectFields ==
    ASSUME NEW r \in Registers, NEW a
    PROVE  EffectIs(Effect(r, a), r, a)
<1>1. /\ r.frz \in BOOLEAN /\ r.ctl \in [Slots -> Events] /\ r.ctr \in [Slots -> 0 .. MaxTicks]
      /\ r = [frz |-> r.frz, ctl |-> r.ctl, ctr |-> r.ctr]
    BY DEF Registers, Events
<1>6. CASE a.op = "unit" /\ Direct /\ HasUnitControl(task.box)
  <2>1. Effect(r, a) = [frz |-> "frz" \in a.flags,
                        ctl |-> IF "rstctl" \in a.flags THEN NoEvents ELSE r.ctl,
                        ctr |-> IF "rstctr" \in a.flags THEN Zeros ELSE r.ctr]
    BY <1>6 DEF Effect
  <2> QED BY <1>6, <2>1 DEF EffectIs
<1>7. CASE a.op = "reset" /\ Direct
  <2>1. Effect(r, a) = [frz |-> r.frz, ctl |-> IF "rstctl" \in a.flags THEN NoEvents ELSE r.ctl,
                        ctr |-> IF "rstctr" \in a.flags THEN Zeros ELSE r.ctr]
    BY <1>7 DEF Effect
  <2> QED BY <1>7, <2>1 DEF EffectIs
<1>8. CASE a.op = "ctl"
  <2>1. Effect(r, a) =
           [frz |-> r.frz /\ Direct,
            ctl |-> [r.ctl EXCEPT ![task.slot] = IF Again(a) THEN a.first ELSE a.event],
            ctr |-> IF Direct THEN r.ctr ELSE [r.ctr EXCEPT ![task.slot] = 0]]
    BY <1>8 DEF Effect
  <2> QED BY <1>8, <2>1 DEF EffectIs
<1>9. CASE a.op = "ctr" /\ Direct
  <2>1. Effect(r, a) = [r EXCEPT !.ctr[task.slot] = 0]  BY <1>9 DEF Effect
  <2>2. Effect(r, a).frz = r.frz /\ Effect(r, a).ctl = r.ctl  BY <1>1, <2>1
  <2> QED BY <1>9, <2>2 DEF EffectIs
<1>10. CASE /\ ~(a.op = "unit" /\ Direct /\ HasUnitControl(task.box))
            /\ ~(a.op = "reset" /\ Direct) /\ a.op # "ctl" /\ ~(a.op = "ctr" /\ Direct)
  <2>1. Effect(r, a) = r  BY <1>10 DEF Effect
  <2> QED BY <1>10, <2>1 DEF EffectIs
<1> QED BY <1>6, <1>7, <1>8, <1>9, <1>10

-----------------------------------------------------------------------------
(* An access preserves the invariant.                                      *)

\* The registers stay registers, no counter runs ahead of the ticks.
LEMMA StepTypes ==
    ASSUME Types, Control, Step
    PROVE  Types'
<1> DEFINE b == task.box
<1>1. /\ b \in Boxes /\ task.slot \in Slots /\ Busy /\ task.stage \in Nat
      /\ UNCHANGED <<platform, pc, call, pass, left, calls, ticks>>
    BY OwnBox, StepForm DEF Types
<1>2. PICK r \in Registers : r = Effect(regs[b], This) /\ \A i \in Slots : r.ctr[i] <= regs[b].ctr[i]
    BY <1>1, ThisAccess, EffectType DEF Types
<1>3. regs' \in [Boxes -> Registers]
    BY <1>1, <1>2, StepForm DEF Types
<1>4. \A c \in Boxes, i \in Slots : regs'[c].ctr[i] <= ticks'
  <2> SUFFICES ASSUME NEW c \in Boxes, NEW i \in Slots PROVE regs'[c].ctr[i] <= ticks'  OBVIOUS
  <2>1. CASE c # b \/ Dead(b)  BY <1>1, <2>1, OtherBoxes, OwnBox DEF Types
  <2>2. CASE c = b /\ ~Dead(b)
    <3>1. regs'[c] = r  BY <1>2, <2>2, OwnBox
    <3>2. r.ctr[i] \in Nat /\ regs[b].ctr[i] \in Nat /\ ticks \in Nat
      BY <1>1 DEF Types, Registers
    <3> QED BY <1>1, <1>2, <2>2, <3>1, <3>2 DEF Types
  <2> QED BY <2>1, <2>2
<1>5. sample' \in [Boxes -> [Slots -> 0 .. MaxTicks]]
  <2>1. regs[b].ctr[task.slot] \in 0 .. MaxTicks /\ sample[b] \in [Slots -> 0 .. MaxTicks]
    BY <1>1 DEF Types, Registers
  <2>2. Zeros \in [Slots -> 0 .. MaxTicks]  BY UncoreAssumption DEF Zeros
  <2>3. CASE This.op = "read"
    <3>1. sample' = [sample EXCEPT ![b][task.slot] = regs[b].ctr[task.slot]]
      BY <1>1, <2>3, StepForm, ThisAccess
    <3> QED BY <1>1, <2>1, <3>1 DEF Types
  <2>4. CASE This.op # "read"  BY <1>1, <2>2, <2>4, StepForm DEF Types
  <2> QED BY <2>3, <2>4
<1>6. dirty' \in [Boxes -> SUBSET Slots]
  <2>1. PICK d \in SUBSET Slots : d = IF This.op = "read" THEN dirty[b] \cup {task.slot} ELSE {}
    BY <1>1 DEF Types
  <2>2. dirty' = [dirty EXCEPT ![b] = d]  BY <2>1, StepForm
  <2> QED BY <1>1, <2>2 DEF Types
<1>7. measured' \subseteq Boxes /\ touched' \subseteq Boxes
  <2>1. measured' \subseteq measured \cup {b}  BY StepForm
  <2>2. touched' \subseteq touched \cup {b}  BY StepForm
  <2> QED BY <1>1, <2>1, <2>2 DEF Types
<1>8. pmus' \subseteq Boxes /\ left' \subseteq pmus'
  <2>1. b \notin left  BY <1>1 DEF Control
  <2> QED BY <1>1, <2>1, StepForm DEF Types, DropLink
<1>9. task' \in [box : Boxes \cup {NoBox}, stage : Nat, slot : Slots, again : BOOLEAN]
  <2>1. task \in [box : Boxes \cup {NoBox}, stage : Nat, slot : Slots, again : BOOLEAN]
    BY DEF Types
  <2>2. Idle \in [box : Boxes \cup {NoBox}, stage : Nat, slot : Slots, again : BOOLEAN]
    BY UncoreAssumption DEF Idle, Slots
  <2>3. CASE Dropped  BY <2>2, <2>3, StepForm DEF DropLink
  <2>4. CASE ~Dropped
    <3>1. Advance(Now)  BY <2>4, StepForm
    <3>2. CASE Again(This) /\ task' = [task EXCEPT !.again = TRUE]  BY <2>1, <3>2
    <3>3. CASE More(This) /\ task' = [task EXCEPT !.slot = @ + 1, !.again = FALSE]
      <4>1. task.slot + 1 \in Slots  BY <1>1, <3>3, UncoreAssumption DEF More, Slots
      <4> QED BY <2>1, <3>3, <4>1
    <3>4. CASE task' = [Idle EXCEPT !.box = task.box, !.stage = task.stage + 1]
      <4>1. task' = [box |-> task.box, stage |-> task.stage + 1, slot |-> 1, again |-> FALSE]
        BY <3>4 DEF Idle
      <4>2. 1 \in Slots /\ task.stage + 1 \in Nat  BY <1>1, UncoreAssumption DEF Slots
      <4> QED BY <1>1, <4>1, <4>2
    <3>5. CASE task' = Idle  BY <2>2, <3>5
    <3> QED BY <1>1, <3>1, <3>2, <3>3, <3>4, <3>5, Advanced
  <2> QED BY <2>3, <2>4
<1> QED BY <1>1, <1>3, <1>4, <1>5, <1>6, <1>7, <1>8, <1>9 DEF Types

\* The place in the call.
LEMMA StepControl ==
    ASSUME Types, Control, Step
    PROVE  Control'
<1>1. /\ Busy /\ UNCHANGED <<platform, pc, call, pass, left, calls, ticks>>
      /\ pc \in {"run", "cleanup"} /\ call # <<>> /\ pass > 0
    BY StepForm DEF Control, Types
<1>2. \A c \in left : Covers(call[pass], c)'  BY <1>1 DEF Control, Covers, KindsOf
<1>3. pc' = "run" => GoodCall(call)'  BY <1>1 DEF Control
<1>4. pc' = "cleanup" => call' \in {<<>>, CleanupUncorePMUs'}
    BY <1>1 DEF Control, CleanupUncorePMUs, CleanupOthers, Cleanups, Others, Pass
<1>5. ASSUME Busy'
      PROVE  /\ task'.box \in pmus' \ left' /\ Covers(call[pass], task.box)'
             /\ task'.stage \in 1 .. Len(Now') /\ task'.box = task.box
  <2>1. task' # Idle  BY <1>5 DEF Busy, Idle
  <2>2. ~Dropped /\ pmus' = pmus /\ Advance(Now)  BY <2>1, StepForm DEF DropLink
  <2>3. /\ task'.box = task.box
        /\ task'.stage = task.stage \/ (task.stage < Len(Now) /\ task'.stage = task.stage + 1)
    BY <1>1, <2>1, <2>2, NextTask
  <2>4. Now' = Now  BY <1>1, <2>3, SameStages
  <2>5. task'.stage \in 1 .. Len(Now)  BY <1>1, <2>3, Access
  <2>6. Covers(call[pass], task.box)'  BY <1>1, <2>3 DEF Control, Covers, KindsOf
  <2> QED BY <1>1, <2>2, <2>3, <2>4, <2>5, <2>6 DEF Control
<1>6. \A c \in left' : Covers(call[pass], c)'  BY <1>1, <1>2
<1>7. Busy' => /\ task'.box \in pmus' \ left' /\ Covers(call[pass], task.box)'
               /\ task'.stage \in 1 .. Len(Now')
    BY <1>5
<1>8. /\ pc' \in {"off", "done"} \/ call' = <<>> => call' = <<>> /\ ~Busy' /\ left' = {} /\ pass' = 0
      /\ pc' = "off" => measured' = {}
      /\ left' # {} \/ Busy' => pass' > 0
    BY <1>1
<1> QED BY <1>3, <1>4, <1>6, <1>7, <1>8 DEF Control

\* A box that is being programmed stays so until its last stage.
LEMMA StepStays ==
    ASSUME Types, Control, Step, Busy'
    PROVE  /\ task'.box = task.box /\ ~Dropped /\ Now' = Now /\ Op' = Op /\ pmus' = pmus
           /\ UNCHANGED <<platform, pc, call, pass, left, calls, ticks>>
           /\ \/ /\ Again(This) /\ task'.stage = task.stage /\ task'.slot = task.slot
              \/ /\ ~Again(This) /\ More(This) /\ task'.stage = task.stage
                 /\ task'.slot = task.slot + 1
              \/ /\ ~Again(This) /\ ~More(This) /\ task.stage < Len(Now)
                 /\ task'.stage = task.stage + 1 /\ task'.slot = 1
<1>1. Busy /\ UNCHANGED <<platform, pc, call, pass, left, calls, ticks>>  BY StepForm
<1>2. task' # Idle  BY DEF Busy, Idle
<1>3. ~Dropped /\ pmus' = pmus /\ Advance(Now)  BY <1>2, StepForm DEF DropLink
<1>4. task'.box = task.box  BY <1>1, <1>2, <1>3, NextTask
<1>5. Now' = Now /\ Op' = Op  BY <1>1, <1>4, SameStages
<1> QED BY <1>1, <1>2, <1>3, <1>4, <1>5, NextTask

\* The event selects written so far hold the events.
LEMMA StepProgramming ==
    ASSUME Types, Control, Programming, Step
    PROVE  Programming'
<1> SUFFICES ASSUME Busy', Op' = "program" PROVE Programming'  BY DEF Programming
<1>1. PICK b, m, st, n : b = task.box /\ m = call[pass].metrics /\ st = Now /\ n = task.stage
    OBVIOUS
<1>2. /\ task'.box = b /\ Now' = st /\ call'[pass'].metrics = m /\ platform' = platform
      /\ Op = "program" /\ Busy /\ ~Dropped
    BY <1>1, StepStays, StepForm
<1>3. /\ Sound(st, b[2], m) /\ b \in Boxes /\ n \in 1 .. Len(st) /\ Len(st) \in Nat
      /\ This = st[n] /\ task.slot \in Slots /\ regs[b] \in Registers
    BY <1>1, <1>2, Access DEF This, Types
<1>4. \/ Again(st[n]) /\ task'.stage = n /\ task'.slot = task.slot
      \/ ~Again(st[n]) /\ More(st[n]) /\ task'.stage = n /\ task'.slot = task.slot + 1
      \/ /\ ~Again(st[n]) /\ ~More(st[n]) /\ n < Len(st) /\ task'.stage = n + 1 /\ task'.slot = 1
    BY <1>1, <1>3, StepStays
<1>5. /\ n > 1 => b \notin measured /\ sample[b] = Zeros
      /\ Dead(b) => n <= 2
      /\ ~Dead(b) =>
            /\ \A j \in 1 .. n - 1 : st[j].op = "ctl" =>
                  regs[b].ctl = [i \in Slots |-> m] /\ (Direct \/ ~regs[b].frz)
            /\ st[n].op = "ctl" => \A i \in Slots : i < task.slot => regs[b].ctl[i] = m
            /\ st[n].op = "ctr" /\ Direct => ~regs[b].frz
    BY <1>1, <1>2, <1>3 DEF Programming
<1>6. /\ regs'[b] = IF Dead(b) THEN regs[b] ELSE Effect(regs[b], st[n])
      /\ sample'[b] = IF st[n].mark = "begin" THEN Zeros ELSE sample[b]
      /\ b \in measured' <=> st[n].mark # "begin" /\ (Ends \/ b \in measured)
  <2>1. st[n].op # "read"  BY <1>3 DEF Sound
  <2> QED BY <1>1, <1>2, <1>3, <2>1, OwnBox
<1>7. ~Ends
  <2>1. st[n].mark = "end" => n = Len(st)  BY <1>3 DEF Sound
  <2> QED BY <1>3, <1>4, <2>1 DEF Ends
<1>8. st[1].mark = "begin" /\ (n = 1 \/ n > 1)  BY <1>3 DEF Sound
<1>9. task'.stage > 1 => b \notin measured' /\ sample'[b] = Zeros
    BY <1>3, <1>4, <1>5, <1>6, <1>7, <1>8
<1>10. Dead(b) => task'.stage <= 2
  <2> SUFFICES ASSUME Dead(b) PROVE task'.stage <= 2  OBVIOUS
  <2>1. b[2] = "xpi" /\ ~NewStyle  BY <1>3, BoxParts DEF Dead
  <2>2. Now = Stages("program", "xpi", m)  BY <1>1, <1>2, <2>1 DEF Now
  <2>3. m # "memory"
    <3>1. m = "memory" => Len(Now) = 1 /\ Now[1].op = "clear"
      BY <2>2, SoundClear DEF Stages, ProgramKind, Is
    <3> QED BY <1>1, <1>2, <1>3, <3>1 DEF Dropped, This
  <2>3a. st[2].op = "check"  BY <1>1, <2>1, <2>2, <2>3, LinkStages
  <2>4. n # 2  BY <1>1, <1>2, <1>3, <2>3a DEF Dropped
  <2> QED BY <1>3, <1>4, <1>5, <2>4
<1>11. ASSUME ~Dead(b)
       PROVE  /\ \A j \in 1 .. task'.stage - 1 : st[j].op = "ctl" =>
                    regs'[b].ctl = [i \in Slots |-> m] /\ (Direct \/ ~regs'[b].frz)
              /\ st[task'.stage].op = "ctl" =>
                    \A i \in Slots : i < task'.slot => regs'[b].ctl[i] = m
              /\ st[task'.stage].op = "ctr" /\ Direct => ~regs'[b].frz
  <2>1. regs'[b] = Effect(regs[b], st[n])  BY <1>6, <1>11
  <2>2. regs[b].ctl \in [Slots -> Events]  BY <1>3 DEF Registers, Events
  <2>a. EffectIs(regs'[b], regs[b], st[n])  BY <1>3, <2>1, EffectFields
  <2>3. CASE st[n].op = "ctl"
    <3>1. /\ regs'[b].frz = (regs[b].frz /\ Direct) /\ st[n].event = m
          /\ regs'[b].ctl = [regs[b].ctl EXCEPT ![task.slot] =
                               IF Again(st[n]) THEN st[n].first ELSE m]
      BY <1>3, <2>3, <2>a DEF Sound, EffectIs
    <3>2. \A j \in 1 .. n - 1 : st[j].op # "ctl"  BY <1>3, <2>3 DEF Sound
    <3>3. \A i \in Slots : i < task.slot => regs[b].ctl[i] = m  BY <1>5, <1>11, <2>3
    <3>4. task.slot \in Nat /\ \A i \in Slots : i \in Nat /\ i <= NumSlots /\ NumSlots \in Nat
      BY <1>3, UncoreAssumption DEF Slots
    <3>5. \A i \in Slots : i < task.slot => regs'[b].ctl[i] = m  BY <2>2, <3>1, <3>3, <3>4
    <3>6. CASE Again(st[n]) /\ task'.stage = n /\ task'.slot = task.slot
      BY <1>3, <2>3, <3>2, <3>5, <3>6
    <3>7. ~Again(st[n]) => \A i \in Slots : i < task.slot + 1 => regs'[b].ctl[i] = m
      BY <1>3, <2>2, <3>1, <3>4, <3>5
    <3>8. CASE ~Again(st[n]) /\ More(st[n]) /\ task'.stage = n /\ task'.slot = task.slot + 1
      BY <1>3, <2>3, <3>2, <3>7, <3>8
    <3>9. CASE ~Again(st[n]) /\ ~More(st[n]) /\ n < Len(st) /\ task'.stage = n + 1 /\ task'.slot = 1
      <4>1. task.slot = NumSlots  BY <1>3, <2>3, <3>4, <3>9 DEF More
      <4>2. \A i \in Slots : regs'[b].ctl[i] = m  BY <3>4, <3>7, <3>9, <4>1
      <4>3. regs'[b].ctl = [i \in Slots |-> m]  BY <2>2, <3>1, <4>2
      <4>4. \A i \in Slots : ~(i < task'.slot)  BY <3>9 DEF Slots
      <4>5. Direct \/ ~regs'[b].frz  BY <3>1
      <4>6. n + 1 \in 1 .. Len(st) /\ (n + 1) - 1 = n  BY <1>3, <3>9
      <4>7. st[n + 1].op # "ctr"  BY <1>3, <2>3, <4>6 DEF Sound
      <4> QED BY <3>9, <4>3, <4>4, <4>5, <4>7
    <3> QED BY <1>4, <3>6, <3>8, <3>9
  <2>4. CASE st[n].op # "ctl"
    <3>1. ~Again(st[n])  BY <2>4 DEF Again
    <3>2. \A j \in 1 .. n - 1 : st[j].op = "ctl" =>
             regs'[b].ctl = [i \in Slots |-> m] /\ (Direct \/ ~regs'[b].frz)
      <4> SUFFICES ASSUME NEW j \in 1 .. n - 1, st[j].op = "ctl"
                   PROVE  regs'[b].ctl = [i \in Slots |-> m] /\ (Direct \/ ~regs'[b].frz)
        OBVIOUS
      <4>1. "rstctl" \notin st[n].flags  BY <1>3 DEF Sound
      <4>2. regs'[b].ctl = regs[b].ctl /\ (~Direct => regs'[b] = regs[b])
        BY <2>4, <2>a, <4>1 DEF EffectIs
      <4> QED BY <1>5, <1>11, <4>2
    <3>3. CASE More(st[n]) /\ task'.stage = n
      <4>1. st[n].op = "ctr"  BY <1>3, <2>4, <3>3 DEF More, Sound
      <4>2. regs'[b].frz = regs[b].frz  BY <2>a, <4>1 DEF EffectIs
      <4> QED BY <1>5, <1>11, <3>2, <3>3, <4>1, <4>2
    <3>4. CASE n < Len(st) /\ task'.stage = n + 1 /\ task'.slot = 1
      <4>1. \A j \in 1 .. (n + 1) - 1 : j = n \/ j \in 1 .. n - 1  BY <1>3
      <4>2. \A i \in Slots : ~(i < task'.slot)  BY <3>4 DEF Slots
      <4>3. n + 1 \in 1 .. Len(st) /\ (n + 1) - 1 = n  BY <1>3, <3>4
      <4>4. st[n + 1].op = "ctr" /\ Direct => ~regs'[b].frz
        <5> SUFFICES ASSUME st[n + 1].op = "ctr", Direct PROVE ~regs'[b].frz  OBVIOUS
        <5>1. st[n].op = "unit" /\ st[n].flags = {} /\ b[2] # "ubox"  BY <1>3, <4>3 DEF Sound
        <5>2. HasUnitControl(task.box)  BY <1>1, <5>1 DEF HasUnitControl
        <5> QED BY <2>a, <5>1, <5>2 DEF EffectIs
      <4> QED BY <2>4, <3>2, <3>4, <4>1, <4>2, <4>4
    <3> QED BY <1>4, <3>1, <3>3, <3>4
  <2> QED BY <2>3, <2>4
<1>12. /\ Direct' = Direct /\ Dead(task.box)' = Dead(b) /\ This' = st[task'.stage]
  <2>1. \A c : Dead(c)' = Dead(c)  BY <1>2, SamePlatform
  <2>2. Dead(task.box)' = Dead(b)  BY <1>2, <2>1 DEF Dead, Direct, NewStyle
  <2> QED BY <1>2, <2>2, SamePlatform DEF This
<1> QED BY <1>2, <1>9, <1>10, <1>11, <1>12 DEF Programming

\* A box that is being cleared.
LEMMA StepClearing ==
    ASSUME Types, Control, Clearing, DeadOff, Step
    PROVE  Clearing'
<1> SUFFICES ASSUME Busy', Op' = "cleanup" PROVE Clearing'  BY DEF Clearing
<1>1. PICK b : b = task.box  OBVIOUS
<1>2. /\ task'.box = b /\ platform' = platform /\ Op = "cleanup" /\ Busy /\ ~Dropped
    BY <1>1, StepStays, StepForm
<1>3. /\ b \in Boxes /\ Len(Now) = 2 /\ task.stage \in {1, 2} /\ task.slot \in Slots
      /\ task.stage = 1 => Is(This, "ctl", {}, "no", "zero", "begin")
      /\ task.stage = 2 => This.op \in {"reset", "unit"}
    BY <1>1, <1>2, Access DEF Types, Is
<1>4. task.stage = 1 /\ This.op = "ctl" /\ This.mark = "begin" /\ This.event = "zero" /\ ~Again(This)
  <2>1. task.stage # 2
    <3> SUFFICES ASSUME task.stage = 2 PROVE FALSE  OBVIOUS
    <3>1. ~Again(This) /\ ~More(This)  BY <1>3 DEF Again, More
    <3> QED BY <1>3, <3>1, StepStays
  <2> QED BY <1>3, <2>1 DEF Is, Again
<1>5. \/ More(This) /\ task'.stage = 1 /\ task'.slot = task.slot + 1
      \/ ~More(This) /\ task'.stage = 2 /\ task'.slot = 1
    BY <1>4, StepStays
<1>6. b \notin measured'  BY <1>1, <1>4, OwnBox
<1>7. CASE Dead(b)
  <2>1. regs'[b] = Off  BY <1>1, <1>3, <1>7, OwnBox DEF DeadOff
  <2>2. regs'[b].ctl = NoEvents /\ regs'[b].frz = FALSE  BY <2>1 DEF Off
  <2>3. \A i \in Slots : regs'[b].ctl[i] = "zero"  BY <2>2 DEF NoEvents
  <2> QED BY <1>2, <1>6, <2>2, <2>3 DEF Clearing, NoEvents
<1>8. CASE ~Dead(b)
  <2>1. regs[b] \in Registers /\ regs'[b] = Effect(regs[b], This)
    BY <1>1, <1>3, <1>8, OwnBox DEF Types
  <2>2. EffectIs(regs'[b], regs[b], This)  BY <2>1, EffectFields
  <2>3. /\ regs'[b].frz = (regs[b].frz /\ Direct)
        /\ regs'[b].ctl = [regs[b].ctl EXCEPT ![task.slot] = "zero"]
    BY <1>4, <2>2 DEF EffectIs
  <2>4. regs[b].ctl \in [Slots -> Events]  BY <2>1 DEF Registers, Events
  <2>5. \A i \in Slots : i < task.slot => regs[b].ctl[i] = "zero"
    BY <1>1, <1>2, <1>4 DEF Clearing
  <2>6. task.slot \in Nat /\ \A i \in Slots : i \in Nat /\ i <= NumSlots /\ NumSlots \in Nat
    BY <1>3, UncoreAssumption DEF Slots
  <2>7. \A i \in Slots : i < task.slot + 1 => regs'[b].ctl[i] = "zero"
    BY <1>3, <2>3, <2>4, <2>5, <2>6
  <2>8. CASE More(This) /\ task'.stage = 1 /\ task'.slot = task.slot + 1
    BY <1>2, <2>7, <2>8 DEF Clearing
  <2>9. CASE ~More(This) /\ task'.stage = 2 /\ task'.slot = 1
    <3>1. task.slot = NumSlots  BY <1>4, <2>6, <1>3, <2>9 DEF More
    <3>2. \A i \in Slots : regs'[b].ctl[i] = "zero"  BY <2>6, <2>7, <3>1
    <3>3. regs'[b].ctl = NoEvents  BY <2>3, <2>4, <3>2 DEF NoEvents
    <3>4. Direct' = Direct  BY <1>2, SamePlatform
    <3>5. Direct' \/ ~regs'[b].frz  BY <2>3, <3>4
    <3> QED BY <1>2, <1>6, <2>9, <3>3, <3>5 DEF Clearing
  <2> QED BY <1>5, <2>8, <2>9
<1> QED BY <1>7, <1>8

\* Where the programming of a box ends it counts one set of events.
LEMMA EndState ==
    ASSUME Types, Control, Programming, Step, Ends
    PROVE  /\ ~Dead(task.box) /\ task.box \notin measured /\ sample[task.box] = Zeros
           /\ sample'[task.box] = Zeros /\ task.box \in measured' /\ pmus' = pmus
           /\ call[pass].metrics \in Metrics
           /\ regs'[task.box].ctl = [i \in Slots |-> call[pass].metrics]
           /\ regs'[task.box].frz = FALSE /\ task.box[2] # "ubox" /\ Op = "program"
<1>1. PICK b, m, st, n : b = task.box /\ m = call[pass].metrics /\ st = Now /\ n = task.stage
    OBVIOUS
<1>2. /\ Op = "program" /\ This.mark = "end" /\ This.op \in {"unit", "ctr"} /\ Busy
      /\ n = Len(st) /\ n > 1 /\ This = st[n]
    BY <1>1, StepForm, ThisAccess DEF Ends, This
<1>3. /\ Sound(st, b[2], m) /\ m \in Metrics /\ b \in Boxes /\ n \in 1 .. Len(st) /\ n \in Nat
      /\ regs[b] \in Registers
    BY <1>1, <1>2, Access DEF Types
<1>4. /\ b \notin measured /\ sample[b] = Zeros /\ (Dead(b) => n <= 2)
    BY <1>1, <1>2 DEF Programming
<1>5. ~Dead(b)
  <2> SUFFICES ASSUME Dead(b) PROVE FALSE  OBVIOUS
  <2>1. b[2] = "xpi" /\ ~NewStyle /\ n = 2  BY <1>2, <1>3, <1>4, BoxParts DEF Dead
  <2>2. Now = Stages("program", "xpi", m)  BY <1>1, <1>2, <2>1 DEF Now
  <2>3. m = "memory" => Len(Now) = 1  BY <2>2, SoundClear DEF Stages, ProgramKind
  <2>4. st[2].op = "check"  BY <1>1, <1>2, <2>1, <2>2, <2>3, LinkStages
  <2> QED BY <1>2, <2>1, <2>4
<1>6. PICK j \in 1 .. n - 1 : st[j].op = "ctl"  BY <1>2, <1>3 DEF Sound
<1>7. /\ regs[b].ctl = [i \in Slots |-> m] /\ (Direct \/ ~regs[b].frz)
      /\ st[n].op = "ctr" /\ Direct => ~regs[b].frz
    BY <1>1, <1>2, <1>5, <1>6 DEF Programming
<1>8. "rstctl" \notin st[n].flags /\ b[2] # "ubox" /\ (st[n].op = "unit" => st[n].flags = {})
    BY <1>2, <1>3, <1>6 DEF Sound
<1>9. regs'[b] = Effect(regs[b], st[n])  BY <1>1, <1>2, <1>5, OwnBox
<1>10. EffectIs(regs'[b], regs[b], st[n])  BY <1>3, <1>9, EffectFields
<1>11. HasUnitControl(task.box)  BY <1>1, <1>8 DEF HasUnitControl
<1>12. regs'[b].ctl = [i \in Slots |-> m]  BY <1>2, <1>7, <1>8, <1>10 DEF EffectIs
<1>13. regs[b].frz \in BOOLEAN  BY <1>3 DEF Registers
<1>14. regs'[b].frz = FALSE
  <2>1. CASE ~Direct
    <3>1. regs'[b] = regs[b]  BY <1>2, <1>10, <2>1 DEF EffectIs
    <3> QED BY <1>7, <1>13, <2>1, <3>1
  <2>2. CASE Direct /\ st[n].op = "unit"
    <3>1. ("frz" \in st[n].flags) = FALSE  BY <1>8, <2>2
    <3> QED BY <1>10, <1>11, <2>2, <3>1 DEF EffectIs
  <2>3. CASE Direct /\ st[n].op = "ctr"
    <3>1. regs'[b].frz = regs[b].frz  BY <1>10, <2>3 DEF EffectIs
    <3> QED BY <1>7, <1>13, <2>3, <3>1
  <2> QED BY <1>2, <2>1, <2>2, <2>3
<1>15. ~Dropped /\ This.mark # "begin" /\ This.op # "read"  BY <1>2 DEF Dropped
<1>16. /\ sample'[b] = Zeros /\ b \in measured' /\ pmus' = pmus
    BY <1>1, <1>4, <1>15, OwnBox, StepForm
<1> QED BY <1>1, <1>2, <1>3, <1>4, <1>5, <1>8, <1>12, <1>14, <1>16

\* Disabled links never count.
LEMMA StepDeadOff ==
    ASSUME Types, Control, Programming, DeadOff, Step
    PROVE  DeadOff'
<1>1. platform' = platform /\ Busy  BY StepForm
<1>2. Direct' = Direct /\ \A c : Dead(c)' = Dead(c)  BY <1>1, SamePlatform
<1>3. ASSUME NEW c \in Boxes
      PROVE  /\ Dead(c) => regs'[c] = Off /\ c \notin measured'
             /\ c \in measured' => c[2] # "ubox" /\ (Direct \/ ~regs'[c].frz)
  <2>1. CASE c # task.box  BY <2>1, OtherBoxes DEF DeadOff
  <2>2. CASE c = task.box /\ Ends  BY <2>2, EndState
  <2>3. CASE c = task.box /\ ~Ends
    <3>1. c \in measured' => c \in measured  BY <2>3, OwnBox
    <3>2. CASE Dead(c)  BY <2>3, <3>1, <3>2, OwnBox DEF DeadOff
    <3>3. CASE ~Dead(c)
      <4>1. regs[c] \in Registers /\ regs'[c] = Effect(regs[c], This)
        BY <2>3, <3>3, OwnBox DEF Types
      <4>2. EffectIs(regs'[c], regs[c], This)  BY <4>1, EffectFields
      <4>3. ~Direct /\ ~regs[c].frz => ~regs'[c].frz
        <5>1. This.op = "ctl" /\ ~Direct => ~regs'[c].frz  BY <4>2 DEF EffectIs
        <5>2. This.op # "ctl" /\ ~Direct => regs'[c] = regs[c]  BY <4>2 DEF EffectIs
        <5> QED BY <5>1, <5>2
      <4> QED BY <3>1, <3>3, <4>3 DEF DeadOff
    <3> QED BY <3>2, <3>3
  <2> QED BY <2>1, <2>2, <2>3
<1>4. \A c \in Boxes : Dead(c)' = Dead(c)  BY <1>2
<1> QED BY <1>2, <1>3, <1>4 DEF DeadOff

\* What the call has still to come to.
LEMMA StillPending ==
    ASSUME Types, Control, Step, NEW p, NEW c \in Boxes, Pending(p, c),
           c # task.box \/ (~Dropped /\ p > pass)
    PROVE  Pending(p, c)'
<1>1. UNCHANGED <<call, pass, left>> /\ Busy  BY StepForm
<1>2. Covers(call[p], c)'  BY <1>1 DEF Pending, Covers, KindsOf
<1>3. c \in pmus'  BY OtherBoxes, StepForm DEF Pending
<1> QED BY <1>1, <1>2, <1>3 DEF Pending

\* What is frozen is still unfrozen later.
LEMMA StepThaws ==
    ASSUME Types, Control, Programming, DeadOff, Thaws, Step
    PROVE  Thaws'
<1>1. Busy /\ UNCHANGED <<platform, pc, call, pass, left>>  BY StepForm
<1> SUFFICES ASSUME pc = "run", NEW c \in measured', regs'[c].frz
             PROVE  \E p \in 1 .. Len(call) : call[p].op = "unfreeze" /\ Pending(p, c)'
  BY <1>1 DEF Thaws
<1>2. c \in Boxes  BY StepTypes DEF Types
<1>3. CASE c # task.box
  <2>1. c \in measured /\ regs[c].frz  BY <1>2, <1>3, OtherBoxes
  <2>2. PICK p \in 1 .. Len(call) : call[p].op = "unfreeze" /\ Pending(p, c)  BY <2>1 DEF Thaws
  <2>3. Pending(p, c)'  BY <1>2, <1>3, <2>2, StillPending
  <2> QED BY <2>2, <2>3
<1>4. CASE c = task.box
  <2>1. ~Ends /\ c \in measured /\ This.mark # "begin" /\ ~Dropped
    BY <1>4, EndState, OwnBox
  <2>2. ~Dead(c) /\ c[2] # "ubox" /\ (Direct \/ ~regs[c].frz)  BY <1>2, <2>1 DEF DeadOff
  <2>3. regs[c] \in Registers /\ regs'[c] = Effect(regs[c], This)
    BY <1>2, <1>4, <2>2, OwnBox DEF Types
  <2>4. EffectIs(regs'[c], regs[c], This)  BY <2>3, EffectFields
  <2>5. HasUnitControl(task.box)  BY <1>4, <2>2 DEF HasUnitControl
  <2>6. pass \in 1 .. Len(call) /\ Len(call) \in Nat /\ Covers(call[pass], c) /\ c \in pmus
        /\ pmus' = pmus
    BY <1>1, <1>4, <2>1, StepForm DEF Types, Control
  <2>7. Op # "program"
    <3> SUFFICES ASSUME Op = "program" PROVE FALSE  OBVIOUS
    <3>1. Sound(Now, task.box[2], call[pass].metrics) /\ task.stage \in 1 .. Len(Now)
      BY <1>1, Access
    <3>2. task.stage # 1  BY <2>1, <3>1 DEF Sound, This
    <3>3. task.stage > 1  BY <3>1, <3>2 DEF Types
    <3> QED BY <1>1, <1>4, <2>1, <3>3 DEF Programming
  <2>8. CASE Op = "freeze"
    <3>1. GoodPass(call, pass)  BY <2>6 DEF Control, GoodCall
    <3>2. PICK q \in pass + 1 .. Len(call) :
             /\ call[q].op = "unfreeze" /\ call[q].sockets = call[pass].sockets
             /\ KindsOf(call[pass]) \subseteq KindsOf(call[q])
      BY <2>8, <3>1 DEF GoodPass, Op
    <3>3. Covers(call[q], c)  BY <2>6, <3>2 DEF Covers
    <3>4. q \in 1 .. Len(call) /\ q > pass  BY <2>6, <3>2
    <3>5. Pending(q, c)  BY <2>6, <3>3, <3>4 DEF Pending
    <3>6. Pending(q, c)'  BY <1>2, <2>1, <3>4, <3>5, StillPending
    <3> QED BY <3>2, <3>4, <3>6
  <2>9. CASE Op = "unfreeze"
    <3>1. This.op = "unit" /\ This.flags = {}  BY <1>1, <2>9, Access DEF Is
    <3>2. CASE Direct
      <4>1. ("frz" \in This.flags) = FALSE  BY <3>1
      <4> QED BY <2>4, <2>5, <3>1, <3>2, <4>1 DEF EffectIs
    <3>3. CASE ~Direct
      <4>1. regs'[c] = regs[c]  BY <2>4, <3>1, <3>3 DEF EffectIs
      <4> QED BY <2>2, <3>3, <4>1
    <3> QED BY <3>2, <3>3
  <2>10. CASE Op = "read"
    <3>1. This.op = "read"  BY <1>1, <2>10, Access DEF Is
    <3>2. regs'[c] = regs[c]  BY <2>4, <3>1 DEF EffectIs
    <3>3. PICK p \in 1 .. Len(call) : call[p].op = "unfreeze" /\ Pending(p, c)
      BY <2>1, <3>2 DEF Thaws
    <3>4. p # pass  BY <2>10, <3>3 DEF Op
    <3>5. p > pass  BY <3>3, <3>4 DEF Pending
    <3>6. Pending(p, c)'  BY <1>2, <2>1, <3>3, <3>5, StillPending
    <3> QED BY <3>3, <3>6
  <2>11. Op # "cleanup"  BY <1>1, Access
  <2> QED BY <1>1, <2>7, <2>8, <2>9, <2>10, <2>11, Access
<1> QED BY <1>3, <1>4

\* A server box that is read stays frozen.
LEMMA StepReadFrozen ==
    ASSUME Types, Control, Programming, DeadOff, ReadFrozen, Step
    PROVE  ReadFrozen'
<1>1. Busy /\ UNCHANGED <<platform, pc, call, pass, left>> /\ Direct' = Direct
  <2>1. Busy /\ UNCHANGED <<platform, pc, call, pass, left>>  BY StepForm
  <2> QED BY <2>1, SamePlatform
<1>2. Op' = Op  BY <1>1 DEF Op
<1>3. ASSUME pc = "run", Direct, NEW p \in 1 .. pass, NEW c \in measured' \cap pmus',
             call[p].op = "freeze", p = pass \/ (p + 1 = pass /\ Op = "read"),
             Covers(call[p], c), c[2] \in Server
      PROVE  regs'[c].frz \/ (p = pass /\ Pending(p, c)')
  <2>1. c \in Boxes  BY StepTypes DEF Types
  <2>2. CASE c # task.box
    <3>1. c \in measured \cap pmus /\ regs'[c] = regs[c]  BY <2>1, <2>2, OtherBoxes
    <3>2. regs[c].frz \/ (p = pass /\ Pending(p, c))  BY <1>3, <3>1 DEF ReadFrozen
    <3> QED BY <2>1, <2>2, <3>1, <3>2, StillPending
  <2>3. CASE c = task.box
    <3>1. ~Dead(c)  BY <2>1, <1>3, StepDeadOff, <1>1, SamePlatform DEF DeadOff
    <3>2. regs[c] \in Registers /\ regs'[c] = Effect(regs[c], This)
      BY <2>1, <2>3, <3>1, OwnBox DEF Types
    <3>3. EffectIs(regs'[c], regs[c], This)  BY <3>2, EffectFields
    <3>4. HasUnitControl(task.box)  BY <2>3, <1>3 DEF HasUnitControl, Server
    <3>5. CASE p = pass
      <4>1. Op = "freeze"  BY <1>3, <3>5 DEF Op
      <4>2. This.op = "unit" /\ This.flags = {"frz"}  BY <1>1, <4>1, Access DEF Is
      <4>3. ("frz" \in This.flags) = TRUE  BY <4>2
      <4> QED BY <1>3, <3>3, <3>4, <4>2, <4>3 DEF EffectIs
    <3>6. CASE p # pass
      <4>1. Op = "read" /\ p + 1 = pass  BY <1>3, <3>6
      <4>2. This.op = "read" /\ This.mark = "no"  BY <1>1, <4>1, Access DEF Is
      <4>3. regs'[c] = regs[c]  BY <3>3, <4>2 DEF EffectIs
      <4>4. ~Ends /\ ~Dropped  BY <4>2 DEF Ends, Dropped
      <4>5. c \in measured \cap pmus  BY <1>3, <2>3, <4>4, OwnBox, StepForm
      <4> QED BY <1>3, <3>6, <4>1, <4>3, <4>5 DEF ReadFrozen
    <3> QED BY <3>5, <3>6
  <2> QED BY <2>2, <2>3
<1>4. ASSUME NEW p, NEW c PROVE Covers(call[p], c)' = Covers(call[p], c)
    BY <1>1 DEF Covers, KindsOf
<1> QED BY <1>1, <1>2, <1>3, <1>4 DEF ReadFrozen

\* The values read from a frozen box are those of its counters.
LEMMA StepTogether ==
    ASSUME Types, Control, ReadFrozen, Together, Programming, DeadOff, Step
    PROVE  Together'
<1>1. Busy /\ UNCHANGED <<platform, pc, call, pass, left>> /\ Direct' = Direct
  <2>1. Busy /\ UNCHANGED <<platform, pc, call, pass, left>>  BY StepForm
  <2> QED BY <2>1, SamePlatform
<1> SUFFICES ASSUME Direct, NEW c \in measured', c[2] \in Server, NEW i \in dirty'[c]
             PROVE  regs'[c].frz /\ sample'[c][i] = regs'[c].ctr[i]
  BY <1>1 DEF Together
<1>2. c \in Boxes  BY StepTypes DEF Types
<1>3. CASE c # task.box  BY <1>2, <1>3, OtherBoxes DEF Together
<1>4. CASE c = task.box
  <2>1. This.op = "read" /\ Op = "read" /\ This.mark = "no"  BY <1>1, <1>4, OwnBox, ThisAccess
  <2>2. ~Ends /\ ~Dropped  BY <2>1 DEF Ends, Dropped
  <2>3. c \in measured /\ c \in pmus /\ pc = "run" /\ Covers(call[pass], c)
    BY <1>1, <1>4, <2>1, <2>2, OwnBox, Access DEF Control
  <2>4. pass \in 1 .. Len(call) /\ pass \in Nat /\ Len(call) \in Nat  BY <1>1 DEF Types, Control
  <2>5. GoodPass(call, pass)  BY <2>3, <2>4 DEF Control, GoodCall
  <2>6. /\ pass > 1 /\ call[pass - 1].op = "freeze" /\ call[pass - 1].sockets = call[pass].sockets
        /\ Server \subseteq KindsOf(call[pass - 1])
    BY <2>1, <2>3, <2>5 DEF GoodPass, Op, Covers
  <2>7. Covers(call[pass - 1], c)  BY <2>3, <2>6 DEF Covers
  <2>8. pass - 1 \in 1 .. pass /\ (pass - 1) + 1 = pass /\ pass - 1 # pass  BY <2>4, <2>6
  <2>9. regs[c].frz
    <3>1. PICK p \in 1 .. pass : p = pass - 1  BY <2>8
    <3> QED BY <2>1, <2>3, <2>6, <2>7, <2>8, <3>1 DEF ReadFrozen
  <2>10. ~Dead(c)  BY <1>2, <2>3 DEF DeadOff
  <2>11. regs[c] \in Registers /\ regs'[c] = Effect(regs[c], This)
    BY <1>2, <1>4, <2>10, OwnBox DEF Types
  <2>12. EffectIs(regs'[c], regs[c], This)  BY <2>11, EffectFields
  <2>13. regs'[c] = regs[c]  BY <2>1, <2>12 DEF EffectIs
  <2>14. dirty'[c] = dirty[c] \cup {task.slot} /\ dirty[c] \subseteq Slots
    BY <1>2, <1>4, <2>1, OwnBox DEF Types
  <2>15. sample'[c][i] = regs[c].ctr[i]
    <3>1. CASE i = task.slot  BY <1>4, <2>1, <3>1, OwnBox
    <3>2. CASE i # task.slot
      <4>1. i \in dirty[c] /\ i \in Slots  BY <2>14, <3>2
      <4>2. sample'[c][i] = sample[c][i]  BY <1>4, <2>1, <3>2, <4>1, OwnBox
      <4> QED BY <2>3, <4>1, <4>2 DEF Together
    <3> QED BY <3>1, <3>2
  <2> QED BY <2>9, <2>13, <2>15
<1> QED BY <1>3, <1>4

\* cleanup has cleared a box, or comes to it.
LEMMA StepClears ==
    ASSUME Types, Control, Clearing, DeadOff, Clears, Step
    PROVE  Clears'
<1>1. Busy /\ UNCHANGED <<platform, pc, call, pass, left>>  BY StepForm
<1>2. Direct' = Direct /\ \A c : HasUnitControl(c)' = HasUnitControl(c)
    BY <1>1, SamePlatform
<1> SUFFICES ASSUME pc \in {"cleanup", "done"}, NEW c \in pmus', c[2] \notin {"m3upi", "hbm_m2m"}
             PROVE  Clear(c)' \/ \E p \in 1 .. Len(call) : Pending(p, c)'
  BY <1>1 DEF Clears
<1>3. c \in Boxes /\ pc = "cleanup" /\ Op = "cleanup"  BY <1>1, StepTypes, Access DEF Types
<1>4. HasUnitControl(c)' = HasUnitControl(c)  BY <1>2
<1>5. CASE c # task.box
  <2>1. c \in pmus /\ regs'[c] = regs[c]  BY <1>3, <1>5, OtherBoxes
  <2>2. Clear(c) => Clear(c)'  BY <1>4, <2>1 DEF Clear
  <2>3. \A p : Pending(p, c) => Pending(p, c)'  BY <1>3, <1>5, StillPending
  <2> QED BY <2>1, <2>2, <2>3 DEF Clears
<1>6. CASE c = task.box /\ task'.box = c
  <2>1. pass \in 1 .. Len(call) /\ Covers(call[pass], c)  BY <1>1, <1>6 DEF Types, Control
  <2>3. PICK p \in 1 .. Len(call) : p = pass  BY <2>1
  <2>4. Pending(p, c)'  BY <1>1, <1>6, <2>1, <2>3 DEF Pending, Covers, KindsOf
  <2> QED BY <2>4
<1>7. CASE c = task.box /\ task'.box # c
  <2>1. This.op # "check" /\ ~Dropped /\ Len(Now) = 2 /\ task.stage \in {1, 2}
    BY <1>1, <1>3, Access DEF Is, Dropped
  <2>2. task.stage = 2
    <3>1. Advance(Now)  BY <2>1, StepForm
    <3>2. ~(task.stage < Len(Now))  BY <1>1, <1>7, <3>1, NextTask
    <3> QED BY <2>1, <3>2
  <2>3. regs[c].ctl = NoEvents /\ (Direct \/ ~regs[c].frz)
    BY <1>1, <1>3, <1>7, <2>2 DEF Clearing
  <2>4. CASE Dead(c)
    <3>1. regs'[c] = Off  BY <1>3, <1>7, <2>4, OwnBox DEF DeadOff
    <3> QED BY <3>1 DEF Clear, Off
  <2>5. CASE ~Dead(c)
    <3>1. regs[c] \in Registers /\ regs'[c] = Effect(regs[c], This)
      BY <1>3, <1>7, <2>5, OwnBox DEF Types
    <3>2. EffectIs(regs'[c], regs[c], This)  BY <3>1, EffectFields
    <3>3. CASE c[2] = "idx"
      <4>1. This.op = "reset" /\ This.flags = {"rstctr", "rstctl"}
        BY <1>1, <1>3, <1>7, <2>2, <3>3, Access DEF Is
      <4>2. regs'[c].ctl = NoEvents  BY <2>3, <3>2, <4>1 DEF EffectIs
      <4> QED BY <3>3, <4>2 DEF Clear
    <3>4. CASE c[2] # "idx"
      <4>1. This.op = "unit" /\ This.flags = {}
        BY <1>1, <1>3, <1>7, <2>2, <3>4, Access DEF Is
      <4>2. regs'[c].ctl = NoEvents  BY <2>3, <3>2, <4>1 DEF EffectIs
      <4>3. HasUnitControl(c) => ~regs'[c].frz
        <5> SUFFICES ASSUME HasUnitControl(c) PROVE ~regs'[c].frz  OBVIOUS
        <5>1. CASE Direct
          <6>1. ("frz" \in This.flags) = FALSE  BY <4>1
          <6> QED BY <1>7, <3>2, <4>1, <5>1, <6>1 DEF EffectIs
        <5>2. CASE ~Direct
          <6>1. regs'[c] = regs[c]  BY <3>2, <4>1, <5>2 DEF EffectIs
          <6> QED BY <2>3, <5>2, <6>1
        <5> QED BY <5>1, <5>2
      <4> QED BY <1>4, <3>4, <4>2, <4>3 DEF Clear
    <3> QED BY <3>3, <3>4
  <2> QED BY <2>4, <2>5
<1> QED BY <1>5, <1>6, <1>7

-----------------------------------------------------------------------------
(* The other actions preserve the invariant.                               *)

\* A process between two boxes: what is said of the box at hand is empty.
LEMMA NoTask ==
    ASSUME ~Busy'
    PROVE  Programming' /\ Clearing'
  BY DEF Programming, Clearing

\* No box is at hand.
LEMMA IdleTask ==
    /\ Idle \in [box : Boxes \cup {NoBox}, stage : Nat, slot : Slots, again : BOOLEAN]
    /\ task = Idle => ~Busy
    /\ ~Busy => \A b \in Boxes : task.box # b
<1>1. Idle \in [box : Boxes \cup {NoBox}, stage : Nat, slot : Slots, again : BOOLEAN]
    BY UncoreAssumption DEF Idle, Slots
<1> QED BY <1>1, NoBoxIsNone DEF Busy, Idle

\* The same, of the next state.
LEMMA IdleTaskNext ==
    ASSUME task' = Idle
    PROVE  ~Busy'
  BY DEF Busy, Idle

\* The registers the machine starts with.
LEMMA InitUncore == Init => UncoreIInv
<1> SUFFICES ASSUME Init PROVE UncoreIInv  OBVIOUS
<1>1. PICK e \in Leftovers, f \in BOOLEAN :
         regs = [b \in Boxes |-> IF Dead(b) THEN Off
                                 ELSE [Off EXCEPT !.frz = f, !.ctl = [i \in Slots |-> e]]]
    BY Zenon DEF Init
<1>2. /\ pmus = {} /\ pc = "off" /\ calls = 0 /\ ticks = 0 /\ platform \in Platforms
      /\ call = <<>> /\ pass = 0 /\ left = {} /\ task = Idle
      /\ sample = [b \in Boxes |-> Zeros] /\ measured = {} /\ touched = {}
      /\ dirty = [b \in Boxes |-> {}]
    BY DEF Init
<1>3. /\ Zeros \in [Slots -> 0 .. MaxTicks] /\ NoEvents \in [Slots -> Events]
      /\ [i \in Slots |-> e] \in [Slots -> Events] /\ \A i \in Slots : Zeros[i] = 0
    BY UncoreAssumption DEF Zeros, NoEvents, Events
<1>4. PICK first : first = [i \in Slots |-> e]  OBVIOUS
<1>5. Off \in Registers /\ [Off EXCEPT !.frz = f, !.ctl = first] \in Registers
      /\ Off.ctr = Zeros /\ [Off EXCEPT !.frz = f, !.ctl = first].ctr = Zeros
  <2>1. first \in [Slots -> Events]  BY <1>3, <1>4
  <2> QED BY <1>3, <2>1 DEF Registers, Events, Off
<1>6. regs \in [Boxes -> Registers] /\ \A b \in Boxes : regs[b].ctr = Zeros
  <2>1. regs = [b \in Boxes |-> IF Dead(b) THEN Off ELSE [Off EXCEPT !.frz = f, !.ctl = first]]
    BY <1>1, <1>4
  <2> QED BY <1>5, <2>1
<1>7. Len(call) = 0 /\ ~Busy  BY <1>2, NoCall, IdleTask
<1>8. Types
    BY <1>2, <1>3, <1>6, <1>7, IdleTask, UncoreAssumption DEF Types
<1>9. Control  BY <1>2, <1>7 DEF Control
<1>10. DeadOff  BY <1>1, <1>2 DEF DeadOff
<1>11. Programming /\ Clearing  BY <1>7 DEF Programming, Clearing
<1>12. Thaws /\ ReadFrozen /\ Together /\ Clears
    BY <1>2 DEF Thaws, ReadFrozen, Together, Clears
<1> QED BY <1>8, <1>9, <1>10, <1>11, <1>12 DEF UncoreIInv

\* The registers and the samples stay as they are.
LEMMA StillKeeps ==
    ASSUME DeadOff, Together, platform' = platform, regs' = regs, sample' = sample,
           measured' = measured, dirty' = dirty
    PROVE  DeadOff' /\ Together'
<1>1. Direct' = Direct /\ \A c : Dead(c)' = Dead(c)  BY SamePlatform
<1>2. \A c \in Boxes : Dead(c)' = Dead(c)  BY <1>1
<1>3. DeadOff'  BY <1>1, <1>2 DEF DeadOff
<1>4. Together'  BY <1>1 DEF Together
<1> QED BY <1>3, <1>4

\* initUncoreObjects.
LEMMA StartKeeps ==
    ASSUME UncoreIInv, Start
    PROVE  UncoreIInv'
<1>1. /\ pc = "off" /\ pc' = "run" /\ UNCHANGED <<call, pass, left, task>>
      /\ UNCHANGED <<platform, regs, calls, ticks, sample, measured, touched, dirty>>
    BY DEF Start, work
<1>2. pmus' \subseteq Boxes  BY DEF Start, Found
<1>3. /\ call = <<>> /\ ~Busy /\ left = {} /\ pass = 0 /\ measured = {}
    BY <1>1 DEF UncoreIInv, Control
<1>4. Types'
  <2>1. Types  BY DEF UncoreIInv
  <2> QED BY <1>1, <1>2, <1>3, <2>1 DEF Types
<1>5. ~Busy'  BY <1>1, <1>3 DEF Busy
<1>6. Control'
  <2>1. GoodCall(call)'  BY <1>1, <1>3, NoCall
  <2> QED BY <1>1, <1>3, <1>5, <2>1 DEF Control
<1>7. DeadOff' /\ Together'  BY <1>1, StillKeeps DEF UncoreIInv
<1>8. Thaws' /\ ReadFrozen' /\ Clears'  BY <1>1, <1>3 DEF Thaws, ReadFrozen, Clears
<1> QED BY <1>4, <1>5, <1>6, <1>7, <1>8, NoTask DEF UncoreIInv

\* A call begins.
LEMMA CallKeeps ==
    ASSUME UncoreIInv, NEW c, Len(c) \in Nat, GoodCall(c), Call(c), pmus' \subseteq pmus
    PROVE  UncoreIInv'
<1>1. /\ pc = "run" /\ call = <<>> /\ calls < MaxCalls /\ calls' = calls + 1 /\ pc' = pc
      /\ call' = c /\ pass' = 0 /\ left' = {} /\ task' = Idle
      /\ UNCHANGED <<platform, regs, ticks, sample, measured, touched, dirty>>
    BY DEF Call, Begin
<1>2. Types'
  <2>1. Types  BY DEF UncoreIInv
  <2>2. calls' \in 0 .. MaxCalls  BY <1>1, <2>1, UncoreAssumption DEF Types
  <2> QED BY <1>1, <2>1, <2>2, IdleTask DEF Types
<1>3. ~Busy'  BY <1>1, IdleTaskNext
<1>4. Control'
  <2>1. GoodCall(call)'  BY <1>1
  <2> QED BY <1>1, <1>3, <2>1 DEF Control
<1>5. DeadOff' /\ Together'  BY <1>1, StillKeeps DEF UncoreIInv
<1>6. \A b \in measured : ~regs[b].frz
  <2>1. Thaws /\ Len(call) = 0  BY <1>1, NoCall DEF UncoreIInv
  <2> QED BY <1>1, <2>1 DEF Thaws
<1>7. Thaws' /\ ReadFrozen' /\ Clears'  BY <1>1, <1>6 DEF Thaws, ReadFrozen, Clears
<1> QED BY <1>2, <1>3, <1>4, <1>5, <1>7, NoTask DEF UncoreIInv

\* Every call of a running process.
LEMMA CallsKeep ==
    ASSUME UncoreIInv,
           \/ CallProgram \/ CallMemory \/ CallLatency \/ CallPower \/ CallRaw
           \/ CallRead \/ CallAggregate \/ CallTool \/ CallFreeze
    PROVE  UncoreIInv'
<1>1. \E c : Call(c) /\ pmus' \subseteq pmus /\ Len(c) \in Nat /\ GoodCall(c)
  <2>1. CASE CallProgram  BY <2>1, ProgramCalls DEF CallProgram
  <2>2. CASE CallMemory  BY <2>2, ProgramCalls DEF CallMemory
  <2>3. CASE CallLatency  BY <2>3, ProgramCalls DEF CallLatency
  <2>4. CASE CallPower  BY <2>4, ProgramCalls DEF CallPower
  <2>5. CASE CallRaw  BY <2>5, ProgramCalls DEF CallRaw
  <2>6. CASE CallRead
    <3>1. PICK s \in Sockets : Call(GetServerUncoreCounterState(s)) /\ pmus' = pmus
      BY <2>6 DEF CallRead
    <3> QED BY <3>1, GoodRead
  <2>7. CASE CallAggregate
    <3>1. PICK s \in Sockets : Call(ReadAndAggregateUncoreMC(s)) /\ pmus' = pmus
      BY <2>7 DEF CallAggregate
    <3> QED BY <3>1, GoodAggregate
  <2>8. CASE CallTool  BY <2>8, ProgramCalls DEF CallTool
  <2>9. CASE CallFreeze
    <3>1. PICK c : c = FreezeServer \o UnfreezeServer /\ Call(c) /\ pmus' = pmus
      BY <2>9 DEF CallFreeze
    <3>2. Len(c) = 4 /\ GoodCall(c)  BY <3>1, GoodFreeze
    <3>3. Len(c) \in Nat /\ pmus' \subseteq pmus  BY <3>1, <3>2
    <3> QED BY <3>1, <3>2, <3>3
  <2> QED BY <2>1, <2>2, <2>3, <2>4, <2>5, <2>6, <2>7, <2>8, <2>9
<1>2. PICK c : Call(c) /\ pmus' \subseteq pmus /\ Len(c) \in Nat /\ GoodCall(c)  BY <1>1
<1> QED BY <1>2, CallKeeps

\* The next pass, or the end of the call.
LEMMA NextPassKeeps ==
    ASSUME UncoreIInv, NextPass
    PROVE  UncoreIInv'
<1>1. /\ call # <<>> /\ ~Busy /\ left = {}
      /\ UNCHANGED <<platform, regs, pmus, pc, calls, ticks, sample, measured, touched, dirty>>
    BY DEF NextPass
<1>2. Types /\ Control /\ Thaws /\ ReadFrozen /\ Clears  BY DEF UncoreIInv
<1>3. /\ Len(call) \in Nat /\ pass \in 0 .. Len(call) /\ pmus \subseteq Boxes
      /\ measured \subseteq Boxes /\ pc \in {"run", "cleanup"}
    BY <1>1, <1>2 DEF Types, Control
<1>4. DeadOff' /\ Together'  BY <1>1, StillKeeps DEF UncoreIInv
<1>5. ASSUME NEW p \in 1 .. Len(call), NEW b \in Boxes, Pending(p, b) PROVE p > pass
    BY <1>1, <1>5, IdleTask DEF Pending
<1>6. CASE pass < Len(call)
  <2>1. /\ pass' = pass + 1 /\ call' = call /\ task' = task
        /\ left' = forAllUncorePMUs(call[pass + 1])
    BY <1>6 DEF NextPass
  <2>2. left' = {b \in pmus : Covers(call[pass'], b)}  BY <2>1 DEF forAllUncorePMUs
  <2>3. ~Busy'  BY <1>1, <2>1 DEF Busy
  <2>4. Types'  BY <1>1, <1>2, <1>3, <1>6, <2>1, <2>2 DEF Types
  <2>5. Control'
    <3>1. pc' = "run" => GoodCall(call)'  BY <1>1, <1>2, <2>1 DEF Control
    <3>2. pc' = "cleanup" => call' \in {<<>>, CleanupUncorePMUs'}
      BY <1>1, <1>2, <2>1 DEF Control, CleanupUncorePMUs, CleanupOthers, Cleanups, Others, Pass
    <3>3. \A b \in left' : Covers(call[pass], b)'  BY <2>1, <2>2 DEF Covers, KindsOf
    <3>4. pass' > 0  BY <1>3, <2>1
    <3> QED BY <1>1, <1>3, <2>1, <2>3, <3>1, <3>2, <3>3, <3>4 DEF Control
  <2>6. ASSUME NEW p \in 1 .. Len(call), NEW b \in Boxes, b \in pmus, Covers(call[p], b), p > pass
        PROVE  Pending(p, b)'
    <3>1. Covers(call[p], b)'  BY <2>1, <2>6 DEF Covers, KindsOf
    <3>2. p > pass' \/ (p = pass' /\ b \in left')  BY <1>3, <2>1, <2>2, <2>6
    <3> QED BY <1>1, <2>6, <3>1, <3>2 DEF Pending
  <2>7. ASSUME NEW p \in 1 .. Len(call), NEW b \in Boxes, Pending(p, b) PROVE Pending(p, b)'
    <3>1. p > pass  BY <1>5, <2>7
    <3> QED BY <2>6, <2>7, <3>1 DEF Pending
  <2>8. Thaws'  BY <1>1, <1>2, <1>3, <2>1, <2>7 DEF Thaws
  <2>9. ReadFrozen'
    <3>1. Direct' = Direct  BY <1>1, SamePlatform
    <3>2. ASSUME pc = "run", Direct, NEW p \in 1 .. pass', NEW b \in measured \cap pmus,
                 call[p].op = "freeze", p = pass' \/ p + 1 = pass',
                 Covers(call[p], b), b[2] \in Server
          PROVE  regs[b].frz \/ (p = pass' /\ Pending(p, b)')
      <4>1. CASE p = pass'
        <5>1. p \in 1 .. Len(call) /\ p > pass  BY <1>3, <1>6, <2>1, <4>1
        <5> QED BY <1>3, <2>6, <3>2, <4>1, <5>1
      <4>2. CASE p # pass'
        <5>1. p = pass /\ p \in 1 .. Len(call) /\ p \in 1 .. pass  BY <1>3, <2>1, <3>2, <4>2
        <5>2. ~Pending(p, b)  BY <1>3, <1>5, <5>1
        <5> QED BY <1>2, <3>2, <5>1, <5>2 DEF ReadFrozen
      <4> QED BY <4>1, <4>2
    <3>3. ASSUME NEW p, NEW b PROVE Covers(call[p], b)' = Covers(call[p], b)
      BY <2>1 DEF Covers, KindsOf
    <3> QED BY <1>1, <2>1, <3>1, <3>2, <3>3 DEF ReadFrozen
  <2>10. Clears'
    <3>1. \A b : HasUnitControl(b)' = HasUnitControl(b)  BY <1>1, SamePlatform
    <3>2. ASSUME NEW b \in Boxes PROVE Clear(b)' = Clear(b)
      <4>1. HasUnitControl(b)' = HasUnitControl(b)  BY <3>1
      <4> QED BY <1>1, <4>1 DEF Clear
    <3> QED BY <1>1, <1>2, <1>3, <2>1, <2>7, <3>2 DEF Clears
  <2> QED BY <1>4, <2>3, <2>4, <2>5, <2>8, <2>9, <2>10, NoTask DEF UncoreIInv
<1>7. CASE ~(pass < Len(call))
  <2>1. call' = <<>> /\ pass' = 0 /\ left' = {} /\ task' = Idle  BY <1>7 DEF NextPass, Begin
  <2>2. ~Busy' /\ Len(call') = 0  BY <2>1, IdleTaskNext, NoCall
  <2>3. Types'  BY <1>1, <1>2, <2>1, <2>2, IdleTask DEF Types
  <2>4. Control'
    <3>1. GoodCall(call)'  BY <2>1, NoCall
    <3> QED BY <1>1, <1>3, <2>1, <2>2, <3>1 DEF Control
  <2>5. \A p \in 1 .. Len(call), b \in Boxes : ~Pending(p, b)  BY <1>3, <1>5, <1>7
  <2>6. Thaws'
    <3>1. pc = "run" => \A b \in measured : ~regs[b].frz  BY <1>2, <1>3, <2>5 DEF Thaws
    <3> QED BY <1>1, <3>1 DEF Thaws
  <2>7. ReadFrozen'  BY <2>1 DEF ReadFrozen
  <2>8. Clears'
    <3>1. \A b : HasUnitControl(b)' = HasUnitControl(b)  BY <1>1, SamePlatform
    <3>2. ASSUME NEW b \in Boxes PROVE Clear(b)' = Clear(b)
      <4>1. HasUnitControl(b)' = HasUnitControl(b)  BY <3>1
      <4> QED BY <1>1, <4>1 DEF Clear
    <3>3. pc = "cleanup" => \A b \in pmus : b[2] \notin {"m3upi", "hbm_m2m"} => Clear(b)
      BY <1>2, <1>3, <2>5 DEF Clears
    <3> QED BY <1>1, <1>3, <3>2, <3>3 DEF Clears
  <2> QED BY <1>4, <2>2, <2>3, <2>4, <2>6, <2>7, <2>8, NoTask DEF UncoreIInv
<1> QED BY <1>6, <1>7

\* The next box of the pass.
LEMMA NextBoxKeeps ==
    ASSUME UncoreIInv, NextBox
    PROVE  UncoreIInv'
<1>1. /\ ~Busy
      /\ UNCHANGED <<platform, regs, pmus, pc, call, pass, calls, ticks, sample, measured,
                     touched, dirty>>
    BY DEF NextBox
<1>2. PICK b \in left : task' = [Idle EXCEPT !.box = b] /\ left' = left \ {b}  BY DEF NextBox
<1>3. Types /\ Control /\ Thaws /\ ReadFrozen /\ Clears  BY DEF UncoreIInv
<1>4. /\ b \in Boxes /\ b \in pmus /\ pass \in 1 .. Len(call) /\ Covers(call[pass], b)
      /\ pc \in {"run", "cleanup"} /\ call # <<>>
    BY <1>2, <1>3 DEF Types, Control
<1>5. /\ task' = [box |-> b, stage |-> 1, slot |-> 1, again |-> FALSE]
      /\ task'.box = b /\ task'.stage = 1 /\ task'.slot = 1
    BY <1>2 DEF Idle
<1>6. Types'
  <2>1. 1 \in Slots  BY UncoreAssumption DEF Slots
  <2>2. task' \in [box : Boxes \cup {NoBox}, stage : Nat, slot : Slots, again : BOOLEAN]
    BY <1>4, <1>5, <2>1
  <2> QED BY <1>1, <1>2, <1>3, <2>2 DEF Types
<1>7. PICK o, k, m : o = Op /\ k = b[2] /\ m = call[pass].metrics  OBVIOUS
<1>8. o \in {"program", "cleanup", "freeze", "unfreeze", "read"}
  <2>1. CASE pc = "run"
    <3>1. GoodPass(call, pass)  BY <1>3, <1>4, <2>1 DEF Control, GoodCall
    <3> QED BY <1>7, <3>1 DEF GoodPass, Op
  <2>2. CASE pc = "cleanup"
    <3>1. call = CleanupUncorePMUs  BY <1>3, <1>4, <2>2 DEF Control
    <3> QED BY <1>4, <1>7, <3>1, CleanupPasses DEF Op
  <2> QED BY <1>4, <2>1, <2>2
<1>9. Op' = o /\ Now' = Stages(o, k, m)'
    BY <1>1, <1>5, <1>7 DEF Op, Now
<1>10. PICK st : st = Stages(o, k, m)'  OBVIOUS
<1>11. Len(st) \in Nat /\ Len(st) >= 1 /\ (o = "program" => st[1].op # "ctr")
  <2>1. Stages(o, k, m)' = Stages(o, k, m)
    <3>1. NewStyle' = NewStyle  BY <1>1 DEF NewStyle
    <3>2. InitFreeze' = InitFreeze  BY <3>1 DEF InitFreeze, Unit, Stage
    <3>3. ResetUnfreeze' = ResetUnfreeze  BY DEF ResetUnfreeze, Unit, Stage
    <3> QED BY <3>1, <3>2, <3>3
            DEF Stages, ProgramKind, ClearLinks, ProgramCbo, ProgramPcie, ProgramUbox, ProgramIdx,
                ProgramBox, ProgramEvents, CleanupBox, FreezeBox, UnfreezeBox, ReadBox, Ctl,
                Unit, Read, Stage
  <2>2. CASE o = "program"
    <3>1. Sound(st, k, m)  BY <1>10, <2>1, <2>2, ProgramSound
    <3> QED BY <3>1 DEF Sound
  <2>3. CASE o # "program"  BY <1>8, <1>10, <2>1, <2>3, OtherStages
  <2> QED BY <2>2, <2>3
<1>12. ASSUME NEW p, NEW c \in Boxes PROVE Pending(p, c) <=> Pending(p, c)'
  <2>1. Covers(call[p], c)' = Covers(call[p], c)  BY <1>1 DEF Covers, KindsOf
  <2>2. task.box # c  BY <1>1, IdleTask
  <2>3. (c \in left' \/ task'.box = c) <=> c \in left  BY <1>2, <1>5
  <2> QED BY <1>1, <2>1, <2>2, <2>3 DEF Pending
<1>13. Control'
  <2>1. pc' = "run" => GoodCall(call)'  BY <1>1, <1>3 DEF Control
  <2>2. pc' = "cleanup" => call' \in {<<>>, CleanupUncorePMUs'}
    BY <1>1, <1>3 DEF Control, CleanupUncorePMUs, CleanupOthers, Cleanups, Others, Pass
  <2>3. ASSUME NEW c PROVE Covers(call[pass], c)' = Covers(call[pass], c)
    BY <1>1 DEF Covers, KindsOf
  <2>4. \A c \in left' : Covers(call[pass], c)'  BY <1>2, <1>3, <2>3 DEF Control
  <2>5. Covers(call[pass], task.box)'  BY <1>1, <1>4, <1>5 DEF Covers, KindsOf
  <2>6. task'.stage \in 1 .. Len(Now')  BY <1>5, <1>9, <1>10, <1>11
  <2>7. task'.box \in pmus' \ left'  BY <1>1, <1>2, <1>4, <1>5
  <2>8. pass' > 0  BY <1>1, <1>4
  <2> QED BY <1>1, <1>4, <2>1, <2>2, <2>4, <2>5, <2>6, <2>7, <2>8 DEF Control
<1>14. DeadOff' /\ Together'  BY <1>1, StillKeeps DEF UncoreIInv
<1>15. \A i \in Slots : ~(i < 1)  BY DEF Slots
<1>16. Programming'
  <2>1. Op' = "program" => This'.op # "ctr"  BY <1>5, <1>9, <1>10, <1>11 DEF This
  <2>2. task'.stage - 1 = 0 /\ ~(task'.stage > 1) /\ task'.stage <= 2  BY <1>5
  <2> QED BY <1>5, <1>15, <2>1, <2>2 DEF Programming
<1>17. Clearing'
  <2>1. ~(task'.stage > 1)  BY <1>5
  <2> QED BY <1>5, <1>15, <2>1 DEF Clearing
<1>18. Thaws'
  <2>1. measured \subseteq Boxes  BY <1>3 DEF Types
  <2> QED BY <1>1, <1>3, <1>12, <2>1 DEF Thaws
<1>19. ReadFrozen'
  <2>1. Direct' = Direct /\ measured \subseteq Boxes  BY <1>1, <1>3, SamePlatform DEF Types
  <2>2. ASSUME NEW p, NEW c PROVE Covers(call[p], c)' = Covers(call[p], c)
    BY <1>1 DEF Covers, KindsOf
  <2>3. Op' = Op  BY <1>1 DEF Op
  <2> QED BY <1>1, <1>3, <1>12, <2>1, <2>2, <2>3 DEF ReadFrozen
<1>20. Clears'
  <2>1. \A c : HasUnitControl(c)' = HasUnitControl(c)  BY <1>1, SamePlatform
  <2>2. ASSUME NEW c \in Boxes PROVE Clear(c)' = Clear(c)
    <3>1. HasUnitControl(c)' = HasUnitControl(c)  BY <2>1
    <3> QED BY <1>1, <3>1 DEF Clear
  <2>3. pmus \subseteq Boxes  BY <1>3 DEF Types
  <2> QED BY <1>1, <1>3, <1>12, <2>2, <2>3 DEF Clears
<1> QED BY <1>6, <1>13, <1>14, <1>16, <1>17, <1>18, <1>19, <1>20 DEF UncoreIInv

\* PCM::cleanup.
LEMMA CleanupKeeps ==
    ASSUME UncoreIInv, Cleanup
    PROVE  UncoreIInv'
<1>1. /\ pc = "run" /\ pc' = "cleanup" /\ call' = CleanupUncorePMUs /\ pass' = 0 /\ left' = {}
      /\ task' = Idle
      /\ UNCHANGED <<platform, regs, pmus, calls, ticks, sample, measured, touched, dirty>>
    BY DEF Cleanup, Begin
<1>2. /\ Len(call') = 6 /\ \A p \in 1 .. 6 : call'[p].sockets = Sockets
      /\ \A k \in AllKinds \ {"m3upi", "hbm_m2m"} : \E p \in 1 .. 6 : k \in KindsOf(call'[p])
    BY <1>1, CleanupPasses
<1>3. ~Busy'  BY <1>1, IdleTaskNext
<1>4. Types'
  <2>1. Types  BY DEF UncoreIInv
  <2> QED BY <1>1, <1>2, <2>1, IdleTask DEF Types
<1>5. Control'
  <2>1. call' \in {<<>>, CleanupUncorePMUs'}
    BY <1>1 DEF CleanupUncorePMUs, CleanupOthers, Cleanups, Others, Pass
  <2> QED BY <1>1, <1>3, <2>1 DEF Control
<1>6. DeadOff' /\ Together'  BY <1>1, StillKeeps DEF UncoreIInv
<1>7. Thaws' /\ ReadFrozen'  BY <1>1 DEF Thaws, ReadFrozen
<1>8. Clears'
  <2> SUFFICES ASSUME NEW b \in pmus', b[2] \notin {"m3upi", "hbm_m2m"}
               PROVE  \E p \in 1 .. Len(call') : Pending(p, b)'
    BY DEF Clears
  <2>1. b \in Boxes  BY <1>4 DEF Types
  <2>2. b[1] \in Sockets /\ b[2] \in AllKinds  BY <2>1, BoxParts
  <2>3. PICK p \in 1 .. 6 : b[2] \in KindsOf(call'[p])  BY <1>2, <2>2
  <2>4. Covers(call[p], b)'  BY <1>2, <2>2, <2>3 DEF Covers, KindsOf
  <2>5. p > pass'  BY <1>1
  <2>6. Pending(p, b)'  BY <2>4, <2>5 DEF Pending
  <2> QED BY <1>2, <2>6
<1> QED BY <1>3, <1>4, <1>5, <1>6, <1>7, <1>8, NoTask DEF UncoreIInv

\* The end of a process that has cleaned up.
LEMMA ExitKeeps ==
    ASSUME UncoreIInv, Exit
    PROVE  UncoreIInv'
<1>1. /\ pc = "cleanup" /\ call = <<>> /\ pc' = "done"
      /\ UNCHANGED <<platform, regs, pmus, call, pass, left, task, calls, ticks, sample,
                     measured, touched, dirty>>
    BY DEF Exit, work
<1>2. Types /\ Control /\ Clears  BY DEF UncoreIInv
<1>3. ~Busy /\ left = {} /\ pass = 0 /\ Len(call) = 0  BY <1>1, <1>2, NoCall DEF Control
<1>4. ~Busy'  BY <1>1, <1>3 DEF Busy
<1>5. Types'  BY <1>1, <1>2 DEF Types
<1>6. Control'  BY <1>1, <1>3, <1>4 DEF Control
<1>7. DeadOff' /\ Together'  BY <1>1, StillKeeps DEF UncoreIInv
<1>8. Thaws' /\ ReadFrozen'  BY <1>1 DEF Thaws, ReadFrozen
<1>9. Clears'
  <2>1. \A c : HasUnitControl(c)' = HasUnitControl(c)  BY <1>1, SamePlatform
  <2>2. ASSUME NEW c PROVE Clear(c)' = Clear(c)
    <3>1. HasUnitControl(c)' = HasUnitControl(c)  BY <2>1
    <3> QED BY <1>1, <3>1 DEF Clear
  <2> QED BY <1>1, <1>2, <1>3, <2>2 DEF Clears
<1> QED BY <1>4, <1>5, <1>6, <1>7, <1>8, <1>9, NoTask DEF UncoreIInv

\* The process is gone.
LEMMA GoneKeeps ==
    ASSUME UncoreIInv, Gone
    PROVE  UncoreIInv'
<1>1. /\ pc' = "off" /\ call' = <<>> /\ pass' = 0 /\ left' = {} /\ task' = Idle /\ pmus' = {}
      /\ measured' = {} /\ touched' = {} /\ sample' = [b \in Boxes |-> Zeros]
      /\ dirty' = [b \in Boxes |-> {}]
      /\ UNCHANGED <<platform, regs, calls, ticks>>
    BY DEF Gone, Begin
<1>2. ~Busy' /\ Len(call') = 0  BY <1>1, IdleTaskNext, NoCall
<1>3. Types'
  <2>1. Types  BY DEF UncoreIInv
  <2>2. Zeros \in [Slots -> 0 .. MaxTicks]  BY UncoreAssumption DEF Zeros
  <2> QED BY <1>1, <1>2, <2>1, <2>2, IdleTask DEF Types
<1>4. Control'  BY <1>1, <1>2 DEF Control
<1>5. DeadOff'
  <2>1. \A c : Dead(c)' = Dead(c)  BY <1>1, SamePlatform
  <2>2. \A c \in Boxes : Dead(c)' = Dead(c)  BY <2>1
  <2> QED BY <1>1, <2>2 DEF UncoreIInv, DeadOff
<1>6. Together' /\ Thaws' /\ ReadFrozen' /\ Clears'
    BY <1>1 DEF Together, Thaws, ReadFrozen, Clears
<1> QED BY <1>2, <1>3, <1>4, <1>5, <1>6, NoTask DEF UncoreIInv

\* A counter counts.
LEMMA TickFields ==
    ASSUME Types, NEW b \in Boxes, NEW i \in Slots, Tick(b, i)
    PROVE  /\ \A c \in Boxes : /\ regs'[c].frz = regs[c].frz /\ regs'[c].ctl = regs[c].ctl
                               /\ c # b => regs'[c] = regs[c]
           /\ regs'[b].ctr = [regs[b].ctr EXCEPT ![i] = @ + 1]
           /\ ticks' = ticks + 1 /\ ticks < MaxTicks /\ ticks \in Nat
           /\ regs[b].ctr[i] \in Nat /\ regs[b].ctr[i] <= ticks
           /\ UNCHANGED <<platform, pmus, pc, call, pass, left, task, calls, sample, measured,
                          touched, dirty>>
<1>1. /\ regs' = [regs EXCEPT ![b].ctr[i] = @ + 1] /\ ticks' = ticks + 1 /\ ticks < MaxTicks
      /\ UNCHANGED <<platform, process, sample, measured, touched, dirty>>
    BY DEF Tick
<1>2. UNCHANGED <<pmus, pc, call, pass, left, task, calls>>  BY <1>1 DEF process, work
<1>3. /\ regs \in [Boxes -> Registers] /\ regs[b] \in Registers
      /\ ticks \in Nat /\ regs[b].ctr[i] \in Nat /\ regs[b].ctr[i] <= ticks
  <2>1. /\ regs \in [Boxes -> Registers] /\ regs[b] \in Registers
        /\ ticks \in Nat /\ regs[b].ctr[i] <= ticks
    BY DEF Types
  <2>2. regs[b].ctr[i] \in Nat  BY <2>1 DEF Registers
  <2> QED BY <2>1, <2>2
<1>4. \A c \in Boxes : /\ regs'[c].frz = regs[c].frz /\ regs'[c].ctl = regs[c].ctl
                       /\ c # b => regs'[c] = regs[c]
    BY <1>1, <1>3 DEF Registers
<1>5. regs'[b].ctr = [regs[b].ctr EXCEPT ![i] = @ + 1]  BY <1>1, <1>3 DEF Registers
<1> QED BY <1>1, <1>2, <1>3, <1>4, <1>5

\* What depends on the freeze flags and the event selects only.
LEMMA CountersAside ==
    ASSUME UncoreIInv,
           UNCHANGED <<platform, pmus, pc, call, pass, left, task, sample, measured>>,
           \A c \in Boxes : regs'[c].frz = regs[c].frz /\ regs'[c].ctl = regs[c].ctl
    PROVE  Control' /\ Programming' /\ Clearing' /\ Thaws' /\ ReadFrozen' /\ Clears'
<1>1. Types  BY DEF UncoreIInv
<1>2. Op' = Op /\ Now' = Now /\ This' = This /\ Busy' = Busy
  <2>1. Now' = Now /\ Op' = Op  BY SameStages
  <2> QED BY <2>1 DEF This, Busy
<1>3. Direct' = Direct /\ (\A c : Dead(c)' = Dead(c)) /\ \A c : HasUnitControl(c)' = HasUnitControl(c)
    BY SamePlatform
<1>4. ASSUME NEW p, NEW c PROVE Covers(call[p], c)' = Covers(call[p], c)
    BY DEF Covers, KindsOf
<1>5. ASSUME NEW p, NEW c PROVE Pending(p, c)' = Pending(p, c)
  <2>1. Covers(call[p], c)' = Covers(call[p], c)  BY <1>4
  <2> QED BY <2>1 DEF Pending
<1>6. Control'
  <2>1. pc' = "run" => GoodCall(call)'  BY DEF UncoreIInv, Control
  <2>2. pc' = "cleanup" => call' \in {<<>>, CleanupUncorePMUs'}
    BY DEF UncoreIInv, Control, CleanupUncorePMUs, CleanupOthers, Cleanups, Others, Pass
  <2>3. \A c \in left' : Covers(call[pass], c)'
    <3>1. \A c \in left : Covers(call[pass], c)  BY DEF UncoreIInv, Control
    <3> QED BY <3>1 DEF Covers, KindsOf
  <2>4. Covers(call[pass], task.box)' = Covers(call[pass], task.box)
    BY DEF Covers, KindsOf
  <2> QED BY <1>2, <2>1, <2>2, <2>3, <2>4 DEF UncoreIInv, Control
<1>7. Programming'
  <2> SUFFICES ASSUME Busy', Op' = "program" PROVE Programming'  BY DEF Programming
  <2>1. Busy /\ Op = "program" /\ task.box \in Boxes  BY <1>1, <1>2 DEF Types, Busy
  <2>2. /\ regs'[task.box].frz = regs[task.box].frz /\ regs'[task.box].ctl = regs[task.box].ctl
    BY <2>1
  <2>3. Dead(task.box)' = Dead(task.box)  BY DEF Dead, Direct, NewStyle
  <2> QED BY <1>2, <1>3, <2>1, <2>2, <2>3 DEF UncoreIInv, Programming
<1>8. Clearing'
  <2> SUFFICES ASSUME Busy', Op' = "cleanup" PROVE Clearing'  BY DEF Clearing
  <2>1. Busy /\ Op = "cleanup" /\ task.box \in Boxes  BY <1>1, <1>2 DEF Types, Busy
  <2>2. /\ regs'[task.box].frz = regs[task.box].frz /\ regs'[task.box].ctl = regs[task.box].ctl
    BY <2>1
  <2> QED BY <1>3, <2>1, <2>2 DEF UncoreIInv, Clearing
<1>9. measured \subseteq Boxes /\ pmus \subseteq Boxes  BY <1>1 DEF Types
<1>10. Thaws'  BY <1>5, <1>9 DEF UncoreIInv, Thaws
<1>11. ReadFrozen'  BY <1>2, <1>3, <1>4, <1>5, <1>9 DEF UncoreIInv, ReadFrozen
<1>12. Clears'
  <2>1. ASSUME NEW c \in Boxes PROVE Clear(c)' = Clear(c)
    <3>1. HasUnitControl(c)' = HasUnitControl(c)  BY <1>3
    <3>2. regs'[c].frz = regs[c].frz /\ regs'[c].ctl = regs[c].ctl  OBVIOUS
    <3> QED BY <3>1, <3>2 DEF Clear
  <2> QED BY <1>5, <1>9, <2>1 DEF UncoreIInv, Clears
<1> QED BY <1>6, <1>7, <1>8, <1>10, <1>11, <1>12

\* Tick.
LEMMA TickKeeps ==
    ASSUME UncoreIInv, NEW b \in Boxes, NEW i \in Slots, Tick(b, i)
    PROVE  UncoreIInv'
<1>0. Types  BY DEF UncoreIInv
<1>1. /\ \A c \in Boxes : /\ regs'[c].frz = regs[c].frz /\ regs'[c].ctl = regs[c].ctl
                          /\ c # b => regs'[c] = regs[c]
      /\ regs'[b].ctr = [regs[b].ctr EXCEPT ![i] = @ + 1]
      /\ ticks' = ticks + 1 /\ ticks < MaxTicks /\ ticks \in Nat
      /\ regs[b].ctr[i] \in Nat /\ regs[b].ctr[i] <= ticks
      /\ UNCHANGED <<platform, pmus, pc, call, pass, left, task, calls, sample, measured,
                     touched, dirty>>
    BY <1>0, TickFields
<1>2. ~regs[b].frz /\ regs[b].ctl[i] # "zero"  BY DEF Tick
<1>3. Types'
  <2>1. regs' = [regs EXCEPT ![b].ctr[i] = @ + 1]  BY DEF Tick
  <2>2. PICK n \in [Slots -> 0 .. MaxTicks] :
           /\ n = [regs[b].ctr EXCEPT ![i] = @ + 1] /\ \A j \in Slots : n[j] <= ticks + 1
    <3>1. regs[b].ctr \in [Slots -> 0 .. MaxTicks] /\ \A j \in Slots : regs[b].ctr[j] <= ticks
      BY <1>0 DEF Types, Registers
    <3>2. regs[b].ctr[i] + 1 \in 0 .. MaxTicks /\ MaxTicks \in Nat  BY <1>1, UncoreAssumption
    <3>3. [regs[b].ctr EXCEPT ![i] = @ + 1] \in [Slots -> 0 .. MaxTicks]  BY <3>1, <3>2
    <3>4. \A j \in Slots : [regs[b].ctr EXCEPT ![i] = @ + 1][j] <= ticks + 1
      BY <1>1, <3>1, <3>2
    <3> QED BY <3>3, <3>4
  <2>3. regs' = [regs EXCEPT ![b] = [regs[b] EXCEPT !.ctr = n]]  BY <1>0, <2>1, <2>2 DEF Types
  <2>4. [regs[b] EXCEPT !.ctr = n] \in Registers
    <3>1. regs[b] \in Registers  BY <1>0 DEF Types
    <3> QED BY <3>1 DEF Registers
  <2>5. regs' \in [Boxes -> Registers]  BY <1>0, <2>3, <2>4 DEF Types
  <2>6. \A c \in Boxes, j \in Slots : regs'[c].ctr[j] <= ticks'
    <3> SUFFICES ASSUME NEW c \in Boxes, NEW j \in Slots PROVE regs'[c].ctr[j] <= ticks'  OBVIOUS
    <3>1. CASE c = b  BY <1>1, <2>2, <3>1
    <3>2. CASE c # b
      <4>1. regs[c].ctr[j] \in Nat /\ regs[c].ctr[j] <= ticks  BY <1>0 DEF Types, Registers
      <4> QED BY <1>1, <3>2, <4>1
    <3> QED BY <3>1, <3>2
  <2>7. ticks' \in 0 .. MaxTicks  BY <1>1, UncoreAssumption
  <2> QED BY <1>0, <1>1, <2>5, <2>6, <2>7 DEF Types
<1>4. Control' /\ Programming' /\ Clearing' /\ Thaws' /\ ReadFrozen' /\ Clears'
    BY <1>1, CountersAside
<1>5. Direct' = Direct /\ \A c : Dead(c)' = Dead(c)  BY <1>1, SamePlatform
<1>6. DeadOff'
  <2> SUFFICES ASSUME NEW c \in Boxes
               PROVE  /\ Dead(c) => regs'[c] = Off /\ c \notin measured'
                      /\ c \in measured' => c[2] # "ubox" /\ (Direct \/ ~regs'[c].frz)
    BY <1>5 DEF DeadOff
  <2>1. Dead(c) => c # b
    <3>1. Dead(c) => regs[c].ctl[i] = "zero"  BY DEF UncoreIInv, DeadOff, Off, NoEvents
    <3> QED BY <1>2, <3>1
  <2> QED BY <1>1, <2>1 DEF UncoreIInv, DeadOff
<1>7. measured \subseteq Boxes /\ pmus \subseteq Boxes  BY <1>0 DEF Types
<1>8. Together'
  <2> SUFFICES ASSUME Direct, NEW c \in measured, c[2] \in Server, NEW j \in dirty[c]
               PROVE  regs'[c].frz /\ sample[c][j] = regs'[c].ctr[j]
    BY <1>1, <1>5 DEF Together
  <2>1. regs[c].frz /\ sample[c][j] = regs[c].ctr[j]  BY DEF UncoreIInv, Together
  <2>2. c # b  BY <1>2, <2>1
  <2> QED BY <1>1, <1>7, <2>1, <2>2
<1> QED BY <1>3, <1>4, <1>6, <1>8 DEF UncoreIInv

-----------------------------------------------------------------------------
(* The invariant, and what follows from it.                                *)

\* A step of the specification, or none.
LEMMA UncoreStep == UncoreIInv /\ [Next]_vars => UncoreIInv'
<1> SUFFICES ASSUME UncoreIInv, [Next]_vars PROVE UncoreIInv'  OBVIOUS
<1>1. CASE Start  BY <1>1, StartKeeps
<1>2. CASE \/ CallProgram \/ CallMemory \/ CallLatency \/ CallPower \/ CallRaw
           \/ CallRead \/ CallAggregate \/ CallTool \/ CallFreeze
    BY <1>2, CallsKeep
<1>3. CASE NextPass  BY <1>3, NextPassKeeps
<1>4. CASE NextBox  BY <1>4, NextBoxKeeps
<1>5. CASE Step
    BY <1>5, StepTypes, StepControl, StepProgramming, StepClearing, StepDeadOff, StepThaws,
       StepReadFrozen, StepTogether, StepClears DEF UncoreIInv
<1>6. CASE Cleanup  BY <1>6, CleanupKeeps
<1>7. CASE Exit  BY <1>7, ExitKeeps
<1>8. CASE Kill \/ Restart  BY <1>8, GoneKeeps DEF Kill, Restart
<1>9. CASE \E b \in Boxes, i \in Slots : Tick(b, i)  BY <1>9, TickKeeps
<1>10. CASE UNCHANGED vars
  <2>1. UNCHANGED <<platform, regs, pmus, pc, call, pass, left, task, calls, ticks, sample,
                    measured, touched, dirty>>
    BY <1>10 DEF vars, process, work
  <2>2. Types'  BY <2>1 DEF UncoreIInv, Types
  <2>3. Control' /\ Programming' /\ Clearing' /\ Thaws' /\ ReadFrozen' /\ Clears'
    BY <2>1, CountersAside
  <2>4. DeadOff' /\ Together'  BY <2>1, StillKeeps DEF UncoreIInv
  <2> QED BY <2>2, <2>3, <2>4 DEF UncoreIInv
<1> QED BY <1>1, <1>2, <1>3, <1>4, <1>5, <1>6, <1>7, <1>8, <1>9, <1>10 DEF Next

\* The inductive invariant of the functions that program, read, freeze and clear
\* the boxes holds for every machine, generation and number of counters.
THEOREM UncoreInvariant == Spec => []UncoreIInv
<1>1. Init => UncoreIInv  BY InitUncore
<1>2. UncoreIInv /\ [Next]_vars => UncoreIInv'  BY UncoreStep
<1> QED BY <1>1, <1>2, PTL DEF Spec

\* ServerUncorePMUs::freezeCounters: the counters of a server box are read at one
\* instant, and between two calls nothing that counts is left frozen.
THEOREM FrozenWhileReadProved == Spec => []FrozenWhileRead
<1>1. UncoreIInv => FrozenWhileRead
  <2> SUFFICES ASSUME UncoreIInv PROVE FrozenWhileRead  OBVIOUS
  <2>1. SamplesTogether  BY DEF UncoreIInv, Together, SamplesTogether
  <2>2. TypeOK  BY DEF UncoreIInv, Types, TypeOK
  <2>3. ASSUME pc = "run", call = <<>>, NEW b \in measured PROVE ~regs[b].frz
    <3>1. Len(call) = 0  BY <2>3, NoCall
    <3> QED BY <2>3, <3>1 DEF UncoreIInv, Thaws
  <2> QED BY <2>1, <2>2, <2>3 DEF FrozenWhileRead, NotLeftFrozen
<1> QED BY <1>1, UncoreInvariant, PTL

\* cleanupUncorePMUs: when the process has ended through PCM::cleanup, wherever
\* the signal met it, the boxes of the lists it walks count nothing.
THEOREM ReleasedProved == Spec => []Released
<1>1. UncoreIInv => Released
  <2> SUFFICES ASSUME UncoreIInv, pc = "done", NEW b \in touched \cap pmus,
                      b[2] \notin {"m3upi", "hbm_m2m"}
               PROVE  Clear(b)
    BY DEF Released
  <2>1. call = <<>>  BY DEF UncoreIInv, Control
  <2>2. Len(call) = 0  BY <2>1, NoCall
  <2> QED BY <2>2 DEF UncoreIInv, Clears
<1> QED BY <1>1, UncoreInvariant, PTL

-----------------------------------------------------------------------------
(* CounterBox is implemented.                                              *)

\* The refinement mapping of Abs.
PhaseMap == [b \in Boxes |-> IF b \notin measured THEN "idle"
                             ELSE IF regs[b].frz THEN "paused" ELSE "running"]
EventMap == [b \in Boxes |-> IF b \in measured THEN regs[b].ctl ELSE NoEvents]
CountMap == [b \in Boxes |-> IF b \in measured THEN regs[b].ctr ELSE Zeros]
SeenMap == [b \in Boxes |-> IF b \in measured THEN sample[b] ELSE Zeros]

\* Nothing changes for the boxes that count.
LEMMA MapStutter ==
    ASSUME \A c \in Boxes : /\ c \in measured' <=> c \in measured
                            /\ c \in measured => regs'[c] = regs[c] /\ sample'[c] = sample[c]
    PROVE  UNCHANGED Abs!vars
  BY DEF Abs!vars

\* The programming of a box ends.
LEMMA MapConfigure ==
    ASSUME NEW b \in Boxes, b \notin measured, b \in measured', ~regs'[b].frz,
           NEW m \in Metrics, regs'[b].ctl = [i \in Slots |-> m],
           regs'[b].ctr \in [Slots -> 0 .. MaxTicks], sample'[b] = Zeros,
           \A c \in Boxes : c # b =>
              /\ c \in measured' <=> c \in measured
              /\ regs'[c] = regs[c] /\ sample'[c] = sample[c]
    PROVE  Abs!Configure(b)
<1>1. PICK e, n : e = [i \in Slots |-> m] /\ n = regs'[b].ctr  OBVIOUS
<1>2. PhaseMap[b] = "idle" /\ PhaseMap' = [PhaseMap EXCEPT ![b] = "running"]  BY DEF PhaseMap
<1>3. EventMap' = [EventMap EXCEPT ![b] = e]  BY <1>1 DEF EventMap
<1>4. CountMap' = [CountMap EXCEPT ![b] = n]  BY <1>1 DEF CountMap
<1>5. SeenMap' = SeenMap  BY DEF SeenMap
<1>6. \E v \in Metrics : EventMap' = [EventMap EXCEPT ![b] = [i \in Slots |-> v]]
    BY <1>1, <1>3
<1>7. \E v \in [Slots -> 0 .. MaxTicks] : CountMap' = [CountMap EXCEPT ![b] = v]  BY <1>1, <1>4
<1> QED BY <1>2, <1>5, <1>6, <1>7, Zenon DEF Abs!Configure, PhaseMap, EventMap, CountMap, SeenMap

\* Boxes that stop to count what they counted.
LEMMA MapAbandon ==
    ASSUME NEW S \in SUBSET Boxes,
           \A c \in Boxes : /\ c \in measured' <=> c \in measured /\ c \notin S
                            /\ c \in measured' => regs'[c] = regs[c] /\ sample'[c] = sample[c]
    PROVE  Abs!Abandon(S)
  BY DEF Abs!Abandon, Zeros, NoEvents, Abs!Zeros, Abs!NoEvents

\* The unit control register of a box that counts is written.
LEMMA MapFreeze ==
    ASSUME NEW b \in Boxes, b \in measured, b \in measured',
           regs[b].frz \in BOOLEAN, regs'[b].frz \in BOOLEAN,
           regs'[b].ctl = regs[b].ctl, regs'[b].ctr = regs[b].ctr, sample'[b] = sample[b],
           \A c \in Boxes : c # b =>
              /\ c \in measured' <=> c \in measured
              /\ regs'[c] = regs[c] /\ sample'[c] = sample[c]
    PROVE  Abs!Pause(b) \/ Abs!Resume(b) \/ UNCHANGED Abs!vars
  BY DEF Abs!Pause, Abs!Resume, Abs!vars

\* A counter of a box that counts is read.
LEMMA MapSample ==
    ASSUME NEW b \in Boxes, b \in measured, b \in measured', NEW i \in Slots,
           regs'[b] = regs[b], sample[b] \in [Slots -> 0 .. MaxTicks],
           sample'[b] = [sample[b] EXCEPT ![i] = regs[b].ctr[i]],
           \A c \in Boxes : c # b =>
              /\ c \in measured' <=> c \in measured
              /\ regs'[c] = regs[c] /\ sample'[c] = sample[c]
    PROVE  Abs!Sample(b, i)
<1>1. PhaseMap[b] # "idle" /\ PhaseMap' = PhaseMap  BY DEF PhaseMap
<1>2. EventMap' = EventMap  BY DEF EventMap
<1>3. CountMap' = CountMap /\ CountMap[b] = regs[b].ctr  BY DEF CountMap
<1>4. SeenMap' = [SeenMap EXCEPT ![b] = sample'[b]] /\ SeenMap[b] = sample[b]  BY DEF SeenMap
<1>5. SeenMap' = [SeenMap EXCEPT ![b][i] = CountMap[b][i]]  BY <1>3, <1>4
<1> QED BY <1>1, <1>2, <1>3, <1>5, Zenon DEF Abs!Sample, PhaseMap, EventMap, CountMap, SeenMap

\* A box that counts counts.
LEMMA MapCount ==
    ASSUME NEW b \in Boxes, b \in measured, NEW i \in Slots, measured' = measured,
           sample' = sample, ~regs[b].frz, ~regs'[b].frz, regs[b].ctr[i] < MaxTicks,
           regs'[b].ctl = regs[b].ctl, regs'[b].ctr = [regs[b].ctr EXCEPT ![i] = @ + 1],
           \A c \in Boxes : c # b => regs'[c] = regs[c]
    PROVE  Abs!Count(b, i)
  BY DEF Abs!Count

\* A box that counts is frozen, unfrozen or read, unless it is given up.
LEMMA CountingBox ==
    ASSUME UncoreIInv, Step, task.box \in measured, This.mark # "begin"
    PROVE  Op \in {"freeze", "unfreeze", "read"}
<1>1. Busy /\ Types /\ Control /\ Programming /\ Clearing  BY StepForm DEF UncoreIInv
<1>2. task.stage \in 1 .. Len(Now) /\ task.stage \in Nat  BY <1>1, Access DEF Types
<1>3. Op # "program"
  <2> SUFFICES ASSUME Op = "program" PROVE FALSE  OBVIOUS
  <2>1. Sound(Now, task.box[2], call[pass].metrics)  BY <1>1, Access
  <2>2. task.stage # 1  BY <2>1 DEF Sound, This
  <2>3. task.stage > 1  BY <1>2, <2>2
  <2> QED BY <1>1, <2>3 DEF Programming
<1>4. Op # "cleanup"
  <2> SUFFICES ASSUME Op = "cleanup" PROVE FALSE  OBVIOUS
  <2>1. task.stage # 1  BY <1>1, Access DEF Is
  <2>2. task.stage > 1  BY <1>2, <2>1
  <2> QED BY <1>1, <2>2 DEF Clearing
<1> QED BY <1>1, <1>3, <1>4, Access

\* An access configures its box, gives it up, pauses or resumes it, samples it or
\* means nothing to CounterBox.
LEMMA StepMaps ==
    ASSUME UncoreIInv, Step
    PROVE  \/ \E b \in Boxes : Abs!Configure(b) \/ Abs!Pause(b) \/ Abs!Resume(b)
           \/ \E b \in Boxes, i \in Slots : Abs!Sample(b, i)
           \/ \E S \in SUBSET Boxes : Abs!Abandon(S)
           \/ UNCHANGED Abs!vars
<1>1. Types /\ Control /\ Programming /\ DeadOff /\ Types'
    BY StepTypes DEF UncoreIInv
<1>2. PICK b \in Boxes : b = task.box  BY <1>1, OwnBox
<1>3. \A c \in Boxes : c # b => /\ c \in measured' <=> c \in measured
                                /\ regs'[c] = regs[c] /\ sample'[c] = sample[c]
    BY <1>1, <1>2, OtherBoxes
<1>4. /\ regs[b] \in Registers /\ regs'[b] \in Registers /\ sample[b] \in [Slots -> 0 .. MaxTicks]
      /\ regs[b].frz \in BOOLEAN /\ regs'[b].frz \in BOOLEAN
      /\ regs'[b].ctr \in [Slots -> 0 .. MaxTicks] /\ task.slot \in Slots
  <2>1. /\ regs[b] \in Registers /\ regs'[b] \in Registers
        /\ sample[b] \in [Slots -> 0 .. MaxTicks] /\ task.slot \in Slots
    BY <1>1 DEF Types
  <2> QED BY <2>1 DEF Registers
<1>5. CASE Ends
  <2>1. PICK m \in Metrics : m = call[pass].metrics  BY <1>1, <1>5, EndState
  <2>2. /\ b \notin measured /\ b \in measured' /\ ~regs'[b].frz
        /\ regs'[b].ctl = [i \in Slots |-> m] /\ sample'[b] = Zeros
    BY <1>1, <1>2, <1>5, <2>1, EndState
  <2>3. Abs!Configure(b)  BY <1>3, <1>4, <2>2, MapConfigure
  <2> QED BY <2>3
<1>6. CASE ~Ends /\ b \notin measured
  <2>1. b \notin measured'  BY <1>1, <1>2, <1>6, OwnBox
  <2>2. UNCHANGED Abs!vars  BY <1>3, <1>6, <2>1, MapStutter
  <2> QED BY <2>2
<1>7. CASE b \in measured /\ b \notin measured'
  <2>1. PICK S \in SUBSET Boxes : S = {b}  BY <1>2
  <2>2. Abs!Abandon(S)  BY <1>3, <1>7, <2>1, MapAbandon
  <2> QED BY <2>2
<1>8. CASE ~Ends /\ b \in measured /\ b \in measured'
  <2>1. This.mark # "begin" /\ ~Dropped  BY <1>1, <1>2, <1>8, OwnBox
  <2>2. Op \in {"freeze", "unfreeze", "read"} /\ Busy
    BY <1>2, <1>8, <2>1, CountingBox, StepForm
  <2>3. ~Dead(b)  BY <1>1, <1>8 DEF DeadOff
  <2>4. regs'[b] = Effect(regs[b], This)  BY <1>1, <1>2, <2>3, OwnBox
  <2>5. EffectIs(regs'[b], regs[b], This)  BY <1>4, <2>4, EffectFields
  <2>6. CASE Op # "read"
    <3>1. /\ This.op = "unit" /\ "rstctr" \notin This.flags /\ "rstctl" \notin This.flags
      BY <1>1, <2>2, <2>6, Access DEF Is
    <3>2. regs'[b].ctl = regs[b].ctl /\ regs'[b].ctr = regs[b].ctr
      BY <2>5, <3>1 DEF EffectIs
    <3>3. sample'[b] = sample[b]  BY <1>1, <1>2, <2>1, <3>1, OwnBox
    <3>4. Abs!Pause(b) \/ Abs!Resume(b) \/ UNCHANGED Abs!vars
      BY <1>3, <1>4, <1>8, <3>2, <3>3, MapFreeze
    <3> QED BY <3>4
  <2>7. CASE Op = "read"
    <3>1. This.op = "read" /\ This.mark = "no"  BY <1>1, <2>2, <2>7, Access DEF Is
    <3>2. regs'[b] = regs[b]  BY <2>5, <3>1 DEF EffectIs
    <3>3. sample'[b] = [sample[b] EXCEPT ![task.slot] = regs[b].ctr[task.slot]]
      <4>1. sample' = [sample EXCEPT ![b][task.slot] = regs[b].ctr[task.slot]]
        BY <1>2, <3>1, StepForm
      <4> QED BY <1>1, <4>1 DEF Types
    <3>4. PICK i \in Slots : i = task.slot  BY <1>4
    <3>5. Abs!Sample(b, i)  BY <1>3, <1>4, <1>8, <3>2, <3>3, <3>4, MapSample
    <3> QED BY <3>5
  <2> QED BY <2>6, <2>7
<1> QED BY <1>5, <1>6, <1>7, <1>8

\* A count of a box that counts is a count of CounterBox.
LEMMA TickMaps ==
    ASSUME UncoreIInv, NEW b \in Boxes, NEW i \in Slots, Tick(b, i)
    PROVE  Abs!Count(b, i) \/ UNCHANGED Abs!vars
<1>1. Types  BY DEF UncoreIInv
<1>2. /\ \A c \in Boxes : c # b => regs'[c] = regs[c]
      /\ regs'[b].frz = regs[b].frz /\ regs'[b].ctl = regs[b].ctl
      /\ regs'[b].ctr = [regs[b].ctr EXCEPT ![i] = @ + 1]
      /\ ticks < MaxTicks /\ ticks \in Nat /\ regs[b].ctr[i] \in Nat /\ regs[b].ctr[i] <= ticks
      /\ measured' = measured /\ sample' = sample
    BY <1>1, TickFields
<1>3. ~regs[b].frz /\ MaxTicks \in Nat  BY UncoreAssumption DEF Tick
<1>4. regs[b].ctr[i] < MaxTicks  BY <1>2, <1>3
<1>5. CASE b \in measured  BY <1>2, <1>3, <1>4, <1>5, MapCount
<1>6. CASE b \notin measured  BY <1>2, <1>6, MapStutter
<1> QED BY <1>5, <1>6

\* Every step of the registers is a step of CounterBox, or none.
LEMMA NextMaps == UncoreIInv /\ [Next]_vars => [Abs!Next]_Abs!vars
<1> SUFFICES ASSUME UncoreIInv, [Next]_vars PROVE Abs!Next \/ UNCHANGED Abs!vars
  OBVIOUS
<1>1. CASE UNCHANGED <<regs, sample, measured>>
    BY <1>1, MapStutter
<1>2. CASE Step  BY <1>2, StepMaps DEF Abs!Next
<1>3. CASE \E b \in Boxes, i \in Slots : Tick(b, i)  BY <1>3, TickMaps DEF Abs!Next
<1>4. CASE Kill \/ Restart
  <2>1. measured' = {}  BY <1>4 DEF Kill, Restart, Gone
  <2>2. PICK S \in SUBSET Boxes : S = Boxes  OBVIOUS
  <2>3. Abs!Abandon(S)  BY <2>1, <2>2, MapAbandon
  <2> QED BY <2>3 DEF Abs!Next
<1>5. CASE Start \/ NextPass \/ NextBox \/ Cleanup \/ Exit \/ UNCHANGED vars
  <2>1. UNCHANGED <<regs, sample, measured>>
    BY <1>5 DEF Start, NextPass, NextBox, Cleanup, Exit, vars
  <2> QED BY <1>1, <2>1
<1>6. CASE \/ CallProgram \/ CallMemory \/ CallLatency \/ CallPower \/ CallRaw
           \/ CallRead \/ CallAggregate \/ CallTool \/ CallFreeze
  <2>1. \E c : Call(c)
    BY <1>6 DEF CallProgram, CallMemory, CallLatency, CallPower, CallRaw, CallRead,
                CallAggregate, CallTool, CallFreeze
  <2>2. UNCHANGED <<regs, sample, measured>>  BY <2>1 DEF Call
  <2> QED BY <1>1, <2>2
<1> QED BY <1>2, <1>3, <1>4, <1>5, <1>6 DEF Next

\* The registers, the lists and the calls of UncorePMU implement CounterBox: what
\* getNumberOfEvents subtracts are two samples of one count of one set of events.
THEOREM ImplementsCounterBox == Spec => Refines
<1>1. Init => Abs!Init
  <2> SUFFICES ASSUME Init PROVE Abs!Init  OBVIOUS
  <2>1. measured = {}  BY DEF Init
  <2> QED BY <2>1 DEF Abs!Init, NoEvents, Zeros, Abs!NoEvents, Abs!Zeros
<1>2. UncoreIInv /\ [Next]_vars => [Abs!Next]_Abs!vars  BY NextMaps
<1> QED BY <1>1, <1>2, UncoreInvariant, PTL DEF Spec, Refines, Abs!Spec

=============================================================================
