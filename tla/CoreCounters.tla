---------------------------- MODULE CoreCounters ----------------------------
(***************************************************************************)
(* The core counters when PCM programs them itself, without Linux perf:    *)
(* how program() sets them up on every core, how readAndAggregate samples  *)
(* them, and what the difference of two samples is worth.                  *)
(*                                                                         *)
(* Hardware counters are 48 bits wide and wrap.  A sample holds the value  *)
(* of a counter and its overflow bit, and reading the bit clears it; the   *)
(* difference of two samples adds a period for each overflow the later one *)
(* has seen (checked_uint64).  The four slot counters take another way:    *)
(* they are zeroed by every read and summed up in software.                *)
(*                                                                         *)
(* Two kinds of callers are modelled: getAllCounterStates, which hands one *)
(* read per core to the threads of the cores and adds the results up to    *)
(* sockets and system, and the update thread of cpuasynchcounter.h, which  *)
(* reads cores, sockets and system one after the other.                    *)
(***************************************************************************)
EXTENDS Integers, Sequences, FiniteSets, FiniteSetsExt

CONSTANTS
    Cores, Sockets,
    SocketOf,      \* topology[core].socket_id
    Online,        \* the cores for which isCoreOnline holds
    System,        \* the whole machine, a unit like a core or a socket
    Modulus,       \* 2^48: a counter counts modulo this
    Word,          \* 2^64
    MaxReads,      \* bound: samples taken of all units
    MaxEvents      \* bound: events counted, and counters taken by others

\* A fixed counter, a general purpose counter and TOPDOWN_SLOTS stand for the
\* registers of their kind.
Counters == {"fixed", "gen", "slots"}
Overflowing == {"fixed", "gen"}      \* counters sampled as checked_uint64
Units == Online \cup Sockets \cup {System}
Members(u) == {c \in Online : u \in {c, SocketOf[c], System}}

ASSUME ConstantsAssumption ==
    /\ IsFiniteSet(Cores) /\ IsFiniteSet(Sockets) /\ Online \subseteq Cores /\ Online # {}
    /\ SocketOf \in [Cores -> Sockets]
    /\ Modulus \in Nat \ {0, 1}
    /\ Word \in Nat /\ Word % Modulus = 0 /\ Word > Cardinality(Cores) * Modulus
    /\ Cores \cap Sockets = {} /\ System \notin Cores \cup Sockets
    /\ {MaxReads, MaxEvents} \subseteq Nat

VARIABLES
    ctr,            \* the counter registers of each core
    enabled,        \* IA32_CR_PERF_GLOBAL_CTRL of each core: do they count?
    status,         \* IA32_PERF_GLOBAL_STATUS: counters that have overflowed
    evtsel,         \* who wrote the event select: "none", "pcm", "other"
    ctrlValue,      \* core_global_ctrl_value # 0
    lastProgrammed, \* lastProgrammedCustomCounters, a value of evtsel
    slotsSum,       \* AllSlotsRaw
    task,           \* the queue of each CoreTaskQueue
    exec,           \* what is being executed on each core, see Idle
    caller,         \* what the calling thread is doing
    todo,           \* reads the update thread has still to make
    cur,            \* the sample of each unit that is being put together
    hist,           \* the samples of all units, the newest first
    events,         \* events and corruptions so far
    total,          \* ghost: what each counter has counted since program()
    at,             \* ghost: total when the core was last read
    nread,          \* ghost: how often the core has been read
    taken           \* ghost: nread when another program took the core, or -1

hardware == <<ctr, enabled, status, evtsel>>
pcm == <<ctrlValue, lastProgrammed, slotsSum>>
control == <<task, caller, todo>>
ghosts == <<total, at, nread, taken>>
vars == <<hardware, pcm, control, exec, cur, hist, events, ghosts>>

-----------------------------------------------------------------------------
(* Samples.  A sample of a core, socket or system is a BasicCounterState;  *)
(* true and seq are ghosts: the counts when it was taken, and how often    *)
(* each core had been read by then.                                        *)

Zero == [data |-> [k \in Counters |-> 0], overflows |-> [k \in Counters |-> 0],
         marked |-> FALSE,
         true |-> [k \in Counters |-> 0], seq |-> [c \in Online |-> 0]]

\* BasicCounterState::operator += and checked_uint64::operator +=
Add(a, b) ==
    [data |-> [k \in Counters |-> (a.data[k] + b.data[k]) % Word],
     overflows |-> [k \in Counters |-> a.overflows[k] + b.overflows[k]],
     marked |-> a.marked \/ b.marked,
     true |-> [k \in Counters |-> a.true[k] + b.true[k]],
     seq |-> [c \in Online |-> a.seq[c] + b.seq[c]]]

\* The samples f of the units in S added to base.
AddAll(base, f, S) == FoldSet(LAMBDA u, acc : Add(acc, f[u]), base, S)

\* checked_uint64::operator - , and the subtraction of the slot counters,
\* whose samples have no overflows.
Minus(after, before, k) ==
    (after.data[k] + after.overflows[k] * Modulus - before.data[k]) % Word

\* What a read of a counter returns for a corrupted one, ~0.
Invalid == Word - 1

\* Mutant: the value is not cut to the width of the counter.
ExtractWhole(v) == v
\* What is left of a value when it is cut to the width of the counter.
Extract(v) == v % Modulus

\* A core that executes nothing.  step: what comes next; unit: whose sample
\* the read is for; ovf, val, corrupted: local variables of readAndAggregate.
Idle == [step |-> "idle", unit |-> System, ovf |-> {}, corrupted |-> FALSE,
         val |-> [k \in Counters |-> 0]]
ProgramSteps == {"disable", "fixed", "select", "enable"}
ReadSteps == {"freeze", "check", "status", "values", "clear", "slots", "unfreeze"}
Free(c) == exec[c].step = "idle"

\* PMUs are found in any state: fixed counters run freely after cleanup().
Init ==
    /\ \E v \in 0 .. Modulus - 1, o \in {{}, Counters}, e \in BOOLEAN :
          /\ ctr = [c \in Cores |-> [k \in Counters |-> v]]
          /\ status = [c \in Cores |-> o]
          /\ enabled = [c \in Cores |-> e]
    /\ evtsel = [c \in Cores |-> "none"]
    /\ ctrlValue = FALSE /\ lastProgrammed = [c \in Cores |-> "none"]
    /\ slotsSum = [c \in Cores |-> 0]
    /\ task = [c \in Cores |-> <<>>] /\ exec = [c \in Cores |-> Idle]
    /\ caller = "start" /\ todo = {}
    /\ cur = [u \in Units |-> Zero] /\ hist = <<>>
    /\ events = 0
    /\ total = [c \in Cores |-> [k \in Counters |-> 0]] /\ at = total
    /\ nread = [c \in Cores |-> 0] /\ taken = [c \in Cores |-> -1]

TypeOK ==
    /\ ctr \in [Cores -> [Counters -> 0 .. Modulus - 1]]
    /\ enabled \in [Cores -> BOOLEAN]
    /\ status \in [Cores -> SUBSET Counters]
    /\ evtsel \in [Cores -> {"none", "pcm", "other"}]
    /\ ctrlValue \in BOOLEAN
    /\ lastProgrammed \in [Cores -> {"none", "pcm"}]
    /\ slotsSum \in [Cores -> Nat]
    /\ task \in [Cores -> {<<>>, <<"program">>, <<"read">>}]
    /\ \A c \in Cores : /\ exec[c].step \in ProgramSteps \cup ReadSteps \cup {"idle"}
                        /\ exec[c].ovf \subseteq Counters
                        /\ exec[c].unit \in Units
                        /\ exec[c].val \in [Counters -> Nat]
    /\ caller \in {"start", "programming", "ready", "all", "separate"}
    /\ \A u \in Units, k \in Overflowing :
          cur[u].data[k] \in 0 .. Cardinality(Members(u)) * (Modulus - 1)
    /\ Len(hist) <= MaxReads /\ events \in 0 .. MaxEvents
    /\ total \in [Cores -> [Counters -> Nat]] /\ at \in [Cores -> [Counters -> Nat]]
    /\ nread \in [Cores -> Nat] /\ taken \in [Cores -> Int]

-----------------------------------------------------------------------------
(* The hardware and the other programs.                                    *)

\* The most a counter may count between two reads of its core: one wrap is
\* seen, a second is not, and the slot counter must not wrap at all.
Limit(k) == IF k = "slots" THEN Modulus - 1 ELSE Modulus

\* Nothing is of interest after the last sample.
MoreEvents == events < MaxEvents /\ Len(hist) < MaxReads /\ events' = events + 1

\* Counter k of a core counts an event.  (What a core counts while others are
\* still being programmed might as well be counted when they are done.)
Count(c, k) ==
    /\ enabled[c] /\ caller \notin {"start", "programming"}
    /\ total[c][k] - at[c][k] < Limit(k)
    /\ MoreEvents
    /\ ctr' = [ctr EXCEPT ![c][k] = (@ + 1) % Modulus]
    /\ status' = [status EXCEPT ![c] = IF ctr[c][k] = Modulus - 1 THEN @ \cup {k} ELSE @]
    /\ total' = [total EXCEPT ![c][k] = @ + 1]
    /\ UNCHANGED <<enabled, evtsel, pcm, control, exec, cur, hist, at, nread, taken>>

\* Another program takes the general purpose counter of a core.
Corrupt(c) ==
    /\ MoreEvents
    /\ evtsel[c] = "pcm"
    /\ evtsel' = [evtsel EXCEPT ![c] = "other"]
    /\ \E v \in 0 .. Modulus - 1 : ctr' = [ctr EXCEPT ![c]["gen"] = v]
    /\ taken' = [taken EXCEPT ![c] = nread[c]]
    /\ UNCHANGED <<enabled, status, pcm, control, exec, cur, hist, total, at, nread>>

-----------------------------------------------------------------------------
(* PCM::programCoreCounters, executed by the thread of the core.           *)

\* Mutant: the worker goes to sleep without looking at its queue again when it
\* is woken for a read.
CoreTaskMissed(c) ==
    /\ Free(c) /\ task[c] # <<>> /\ Head(task[c]) = "program"
    /\ exec' = [exec EXCEPT ![c] = [Idle EXCEPT !.step = "disable", !.unit = c]]
    /\ UNCHANGED <<hardware, pcm, control, cur, hist, events, ghosts>>

\* A worker takes the task at the front of its queue.
CoreTask(c) ==
    /\ Free(c) /\ task[c] # <<>>
    /\ exec' = [exec EXCEPT ![c] =
          [Idle EXCEPT !.step = IF Head(task[c]) = "program" THEN "disable" ELSE "freeze",
                       !.unit = c]]
    /\ UNCHANGED <<hardware, pcm, control, cur, hist, events, ghosts>>

\* Disable the counters while programming; the fixed counters start from 0.
ProgramFixed(c) ==
    /\ \/ /\ exec[c].step = "disable"
          /\ enabled' = [enabled EXCEPT ![c] = FALSE]
          /\ exec' = [exec EXCEPT ![c].step = "fixed"] /\ UNCHANGED ctr
       \/ /\ exec[c].step = "fixed"
          /\ ctr' = [ctr EXCEPT ![c]["fixed"] = 0]
          /\ exec' = [exec EXCEPT ![c].step = "select"] /\ UNCHANGED enabled
    /\ UNCHANGED <<status, evtsel, pcm, control, cur, hist, events, ghosts>>

\* The general purpose counters get their event selects, which the program
\* remembers, and start from 0.
ProgramSelect(c) ==
    /\ exec[c].step = "select"
    /\ ctr' = [ctr EXCEPT ![c]["gen"] = 0]
    /\ evtsel' = [evtsel EXCEPT ![c] = "pcm"]
    /\ lastProgrammed' = [lastProgrammed EXCEPT ![c] = "pcm"]
    /\ exec' = [exec EXCEPT ![c].step = "enable"]
    /\ UNCHANGED <<enabled, status, ctrlValue, slotsSum, control, cur, hist,
                   events, ghosts>>

\* The slot counter starts from 0, old overflows are cleared, counting starts.
ProgramEnable(c) ==
    /\ exec[c].step = "enable"
    /\ ctr' = [ctr EXCEPT ![c]["slots"] = 0]
    /\ ctrlValue' = TRUE
    /\ status' = [status EXCEPT ![c] = {}]
    /\ enabled' = [enabled EXCEPT ![c] = TRUE]
    /\ exec' = [exec EXCEPT ![c] = Idle]
    /\ task' = [task EXCEPT ![c] = Tail(@)]
    /\ total' = [total EXCEPT ![c] = [k \in Counters |-> 0]]
    /\ at' = [at EXCEPT ![c] = [k \in Counters |-> 0]]
    /\ UNCHANGED <<evtsel, lastProgrammed, slotsSum, caller, todo, cur, hist,
                   events, nread, taken>>

-----------------------------------------------------------------------------
(* BasicCounterState::readAndAggregate on a core.                          *)

\* From here on to unfreeze nothing counts.
Freeze(c) ==
    /\ exec[c].step = "freeze"
    /\ enabled' = [enabled EXCEPT ![c] = @ /\ ~ctrlValue]
    /\ exec' = [exec EXCEPT ![c].step = "check"]
    /\ at' = [at EXCEPT ![c] = total[c]]
    /\ nread' = [nread EXCEPT ![c] = @ + 1]
    /\ UNCHANGED <<ctr, status, evtsel, pcm, control, cur, hist, events, total, taken>>

\* Mutant: the event selects are not compared with what was programmed.
CheckSkipped(c) ==
    /\ exec[c].step = "check"
    /\ exec' = [exec EXCEPT ![c].step = "status"]
    /\ UNCHANGED <<hardware, pcm, control, cur, hist, events, ghosts>>

\* PCM::checkCustomCoreProgramming: has anyone else written the event select?
CheckCustomCoreProgramming(c) ==
    /\ exec[c].step = "check"
    /\ exec' = [exec EXCEPT ![c].step = "status",
                            ![c].corrupted = evtsel[c] # lastProgrammed[c]]
    /\ UNCHANGED <<hardware, pcm, control, cur, hist, events, ghosts>>

\* The overflow bits are read, the counters are read, and the overflows that
\* were read, no others, are cleared.
ReadOverflows(c) ==
    /\ exec[c].step = "status"
    /\ exec' = [exec EXCEPT ![c].step = "values", ![c].ovf = status[c]]
    /\ UNCHANGED <<hardware, pcm, control, cur, hist, events, ghosts>>

ReadValues(c) ==
    /\ exec[c].step = "values"
    /\ exec' = [exec EXCEPT ![c].step = "clear",
                            ![c].val = [k \in Counters |->
                                          IF k \in Overflowing THEN ctr[c][k] ELSE 0]]
    /\ UNCHANGED <<hardware, pcm, control, cur, hist, events, ghosts>>

\* Mutant: the overflow bits are left for the next read to count again.
ClearForgotten(c) ==
    /\ exec[c].step = "clear"
    /\ exec' = [exec EXCEPT ![c].step = "slots"]
    /\ UNCHANGED <<hardware, pcm, control, cur, hist, events, ghosts>>

ClearOverflows(c) ==
    /\ exec[c].step = "clear"
    /\ status' = [status EXCEPT ![c] = @ \ exec[c].ovf]
    /\ exec' = [exec EXCEPT ![c].step = "slots"]
    /\ UNCHANGED <<ctr, enabled, evtsel, pcm, control, cur, hist, events, ghosts>>

\* Mutant: the slot counter goes on from where it is.
SlotsNotZeroed(c) ==
    /\ exec[c].step = "slots"
    /\ slotsSum' = [slotsSum EXCEPT ![c] = (@ + ctr[c]["slots"]) % Word]
    /\ exec' = [exec EXCEPT ![c].step = "unfreeze", ![c].val["slots"] = slotsSum'[c]]
    /\ UNCHANGED <<hardware, ctrlValue, lastProgrammed, control, cur, hist, events, ghosts>>

\* The slots counted since the last read move to the sum kept in software.
ReadSlots(c) ==
    /\ exec[c].step = "slots"
    /\ ctr' = [ctr EXCEPT ![c]["slots"] = 0]
    /\ slotsSum' = [slotsSum EXCEPT ![c] = (@ + ctr[c]["slots"]) % Word]
    /\ exec' = [exec EXCEPT ![c].step = "unfreeze", ![c].val["slots"] = slotsSum'[c]]
    /\ UNCHANGED <<enabled, status, evtsel, ctrlValue, lastProgrammed, control, cur, hist,
                   events, ghosts>>

\* What the read of core c contributes to a sample.  A corrupted counter reads
\* as Invalid, which is cut to the width of a counter like any other value.
Reading(c) ==
    LET x == exec[c] IN
    [data |-> [fixed |-> Extract(x.val["fixed"]),
               gen |-> Extract(IF x.corrupted THEN Invalid ELSE x.val["gen"]),
               slots |-> x.val["slots"]],
     overflows |-> [k \in Counters |-> IF k \in x.ovf \cap Overflowing THEN 1 ELSE 0],
     marked |-> x.corrupted,
     true |-> at[c],
     seq |-> [d \in Online |-> IF d = c THEN nread[c] ELSE 0]]

\* Mutant: the counters stay frozen.
UnfreezeForgotten(c) ==
    /\ exec[c].step = "unfreeze"
    /\ cur' = [cur EXCEPT ![exec[c].unit] = Add(@, Reading(c))]
    /\ exec' = [exec EXCEPT ![c] = Idle]
    /\ task' = [task EXCEPT ![c] = IF @ = <<>> THEN @ ELSE Tail(@)]
    /\ UNCHANGED <<hardware, pcm, caller, todo, hist, events, ghosts>>

\* The reading is added to the sample, counting goes on, the call returns.
Unfreeze(c) ==
    /\ exec[c].step = "unfreeze"
    /\ cur' = [cur EXCEPT ![exec[c].unit] = Add(@, Reading(c))]
    /\ enabled' = [enabled EXCEPT ![c] = @ \/ ctrlValue]
    /\ exec' = [exec EXCEPT ![c] = Idle]
    /\ task' = [task EXCEPT ![c] = IF @ = <<>> THEN @ ELSE Tail(@)]
    /\ UNCHANGED <<ctr, status, evtsel, pcm, caller, todo, hist, events, ghosts>>

-----------------------------------------------------------------------------
(* The callers.                                                            *)

\* One task for every online core; the threads of the cores work in parallel.
PushTasks(t) == task' = [c \in Cores |-> IF c \in Online THEN Append(task[c], t)
                                                         ELSE task[c]]
AllDone == \A c \in Online : Free(c) /\ task[c] = <<>>

\* PCM::program
StartProgram ==
    /\ caller = "start" /\ caller' = "programming"
    /\ ctrlValue' = FALSE
    /\ lastProgrammed' = [c \in Cores |-> "none"]
    /\ PushTasks("program")
    /\ UNCHANGED <<hardware, slotsSum, todo, exec, cur, hist, events, ghosts>>

Programmed ==
    /\ caller = "programming" /\ AllDone
    /\ caller' = "ready"
    /\ UNCHANGED <<hardware, pcm, task, todo, exec, cur, hist, events, ghosts>>

\* PCM::getAllCounterStates
StartReadAll ==
    /\ caller = "ready" /\ Len(hist) < MaxReads
    /\ caller' = "all"
    /\ cur' = [u \in Units |-> Zero]
    /\ PushTasks("read")
    /\ UNCHANGED <<hardware, pcm, todo, exec, hist, events, ghosts>>

\* When all tasks are done: cores are added up to sockets, sockets to the system.
Aggregate(f) ==
    LET sockets == [s \in Sockets |-> AddAll(f[s], f, {c \in Online : SocketOf[c] = s})]
    IN  [u \in Units |-> CASE u \in Online -> f[u]
                          [] u \in Sockets -> sockets[u]
                          [] u = System -> AddAll(f[System], sockets, Sockets)]

ReadAllDone ==
    /\ caller = "all" /\ AllDone
    /\ caller' = "ready"
    /\ cur' = Aggregate(cur)
    /\ hist' = <<cur'>> \o hist
    /\ UNCHANGED <<hardware, pcm, task, todo, exec, events, ghosts>>

\* One round of UpdateCounters: every core (getCoreCounterState), then every
\* socket (getSocketCounterState), then the system (getSystemCounterState), each
\* reading the cores of its own.
Reads == {r \in Units \X Online : r[2] \in Members(r[1])}
Rank(u) == CASE u \in Online -> 1 [] u \in Sockets -> 2 [] u = System -> 3

StartReadSeparately ==
    /\ caller = "ready" /\ Len(hist) < MaxReads
    /\ caller' = "separate"
    /\ cur' = [u \in Units |-> Zero]
    /\ todo' = Reads
    /\ UNCHANGED <<hardware, pcm, task, exec, hist, events, ghosts>>

\* The reads of one unit come one after the other.
NextRead ==
    LET unit == CHOOSE u \in {r[1] : r \in todo} : \A r \in todo : Rank(u) <= Rank(r[1])
    IN  CHOOSE r \in todo : r[1] = unit

\* The caller itself executes the next read, on the core it is about.
DirectRead ==
    /\ caller = "separate" /\ AllDone /\ todo # {}
    /\ LET r == NextRead IN
       /\ exec' = [exec EXCEPT ![r[2]] = [Idle EXCEPT !.step = "freeze", !.unit = r[1]]]
       /\ todo' = todo \ {r}
    /\ UNCHANGED <<hardware, pcm, task, caller, cur, hist, events, ghosts>>

ReadSeparatelyDone ==
    /\ caller = "separate" /\ AllDone /\ todo = {}
    /\ caller' = "ready"
    /\ hist' = <<cur>> \o hist
    /\ UNCHANGED <<hardware, pcm, task, todo, exec, cur, events, ghosts>>

-----------------------------------------------------------------------------
Execute(c) ==
    \/ CoreTask(c) \/ ProgramFixed(c) \/ ProgramSelect(c) \/ ProgramEnable(c)
    \/ Freeze(c) \/ CheckCustomCoreProgramming(c) \/ ReadOverflows(c) \/ ReadValues(c)
    \/ ClearOverflows(c) \/ ReadSlots(c) \/ Unfreeze(c)

Return == Programmed \/ ReadAllDone \/ DirectRead \/ ReadSeparatelyDone

Next ==
    \/ \E c \in Online : Execute(c) \/ Corrupt(c) \/ \E k \in Counters : Count(c, k)
    \/ StartProgram \/ StartReadAll \/ StartReadSeparately
    \/ Return

\* The threads of the cores and the calling thread run; events, other programs
\* and the decision to read again need not come.
Fairness == /\ \A c \in Online : WF_vars(Execute(c))
            /\ WF_vars(Return)

Spec == Init /\ [][Next]_vars /\ Fairness

-----------------------------------------------------------------------------
(* Properties.                                                             *)

True(after, before, k) == after.true[k] - before.true[k]

\* Every core of unit u was read exactly once from one sample to the other.
ReadOnce(u, after, before) ==
    \A c \in Members(u) : after.seq[c] = before.seq[c] + 1
Pairs == {p \in (1 .. Len(hist)) \X (1 .. Len(hist)) : p[1] < p[2]}

\* When every core of a unit is read once from one sample to the next,
\* checked_uint64's subtraction yields exactly what the counters have counted
\* in between, wrapped or not, for cores, sockets and the system, whichever way
\* the two samples were taken.
ConsecutiveExact ==
    \A p \in Pairs, u \in Units :
        LET a == hist[p[1]][u]  b == hist[p[2]][u] IN
        ReadOnce(u, a, b) => Minus(a, b, "fixed") = True(a, b, "fixed")

\* The slot counters are exact between any two samples, with any number of
\* other reads in between: a read moves the count to the sum in software.
SlotsExact ==
    \A p \in Pairs, u \in Units :
        LET a == hist[p[1]][u]  b == hist[p[2]][u] IN
        Minus(a, b, "slots") = True(a, b, "slots")

\* When another program takes a counter, the check of readAndAggregate notices
\* it: of two samples at least one is marked, or the difference is right, or
\* the counter was taken during the read of the later one, after the check (and
\* every sample from then on is marked).
CorruptionShows ==
    \A p \in Pairs, c \in Online :
        LET a == hist[p[1]][c]  b == hist[p[2]][c] IN
        (ReadOnce(c, a, b) /\ ~a.marked /\ ~b.marked)
            => Minus(a, b, "gen") = True(a, b, "gen") \/ taken[c] = a.seq[c]

\* No order of programming and reading leaves the counters of a core frozen:
\* between calls all online cores count.
CountingResumes == caller = "ready" => \A c \in Online : enabled[c]

\* program(), getAllCounterStates and the update round return: no task is
\* lost in the queue of a core.
CallsReturn == (caller \in {"programming", "all", "separate"}) ~> (caller = "ready")

\* What the comment on checked_uint64 promises of any two successive samples:
\* "uint64 with checking for overflows when computing differences".
\* The code does not have this property (README, section 4).
DifferenceExact ==
    Len(hist) > 1 =>
        \A u \in Units : Minus(hist[1][u], hist[2][u], "fixed")
                          = True(hist[1][u], hist[2][u], "fixed")

\* Types, the slot counters, and no core left frozen.
CoreInv == TypeOK /\ SlotsExact /\ CountingResumes

=============================================================================
