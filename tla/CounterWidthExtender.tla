------------------------ MODULE CounterWidthExtender ------------------------
(***************************************************************************)
(* CounterWidthExtender (width_extender.h, cpucounters.cpp) turns a narrow *)
(* hardware counter that wraps at 2^counter_width into a 64 bit one.  Any  *)
(* thread may call read() or reset(); a watchdog thread calls read() every *)
(* watchdog_delay_ms so that no wrap is missed.  The hardware counts on    *)
(* its own, at most Rate events per tick of time, and can be zeroed under  *)
(* the extender's feet when the PMU unit it belongs to is reprogrammed     *)
(* (UncorePMU::resetUnfreeze).                                             *)
(*                                                                         *)
(* The value read() returns is only ever used in differences, so the       *)
(* promise is about differences: see DifferencesExact.                     *)
(***************************************************************************)
EXTENDS Integers, FiniteSets

CONSTANTS
    Readers,      \* the threads that call read() and reset()
    Watchdog,     \* the thread the constructor starts
    Modulus,      \* 2^counter_width
    Rate,         \* most events the hardware counts in one tick
    Delay,        \* watchdog_delay_ms, in ticks
    Latency,      \* most ticks from the watchdog's wake-up to its next sleep
    MaxEvents,    \* bound: events counted in a behaviour
    MaxEpoch      \* bound: hardware resets and calls of reset()

Threads == Readers \cup {Watchdog}

\* The delay handed to the constructor has to outrun the wrap: two samples of
\* the watchdog are at most Delay + 2 * Latency ticks apart.
ASSUME ConstantsAssumption ==
    /\ Modulus \in Nat \ {0}
    /\ Rate \in Nat /\ Delay \in Nat /\ Latency \in Nat
    /\ MaxEvents \in Nat /\ MaxEpoch \in Nat
    /\ Rate * (Delay + 2 * Latency) < Modulus
    /\ Watchdog \notin Readers

NoThread == "none"
ASSUME NoThreadAssumption == NoThread \notin Threads

VARIABLES
    raw,            \* the hardware counter
    extended_value,
    last_raw_value,
    lock,           \* the holder of CounterMutex, or NoThread
    pc,             \* where each thread is: idle, lock, raw, update
    op,             \* the call each thread is executing: read or reset
    new_raw_value,  \* the local variable of the thread inside the lock
    timer,          \* ticks since the watchdog fell asleep or woke up
    age,            \* ticks since the hardware counter was last sampled
    events,         \* history: events since the start of time
    epoch,          \* history: hardware resets and reset() calls so far
    sampled,        \* history: events and epoch at the latest sample
    owned,          \* history: events and epoch extended_value stands for
    result          \* history: what the last read() of each thread returned

vars == <<raw, extended_value, last_raw_value, lock, pc, op, new_raw_value,
          timer, age, events, epoch, sampled, owned, result>>

Stamp == [ev : Nat, ep : Nat]
Result == [value : Int, ev : Nat, ep : Nat]

TypeOK ==
    /\ raw \in 0 .. Modulus - 1
    /\ extended_value \in Nat
    /\ last_raw_value \in 0 .. Modulus - 1
    /\ lock \in Threads \cup {NoThread}
    /\ pc \in [Threads -> {"idle", "lock", "raw", "update"}]
    /\ op \in [Threads -> {"read", "reset"}]
    /\ new_raw_value \in [Threads -> 0 .. Modulus - 1]
    /\ timer \in Nat /\ age \in Nat /\ events \in Nat /\ epoch \in Nat
    /\ sampled \in Stamp /\ owned \in Stamp
    /\ result \in [Threads -> Result]

-----------------------------------------------------------------------------
\* The constructor: reads the raw counter before the watchdog exists.
Init ==
    /\ raw \in 0 .. Modulus - 1
    /\ last_raw_value = raw
    /\ extended_value = raw
    /\ lock = NoThread
    /\ pc = [t \in Threads |-> "idle"]
    /\ op = [t \in Threads |-> "read"]
    /\ new_raw_value = [t \in Threads |-> 0]
    /\ timer = 0 /\ age = 0 /\ events = 0 /\ epoch = 0
    /\ sampled = [ev |-> 0, ep |-> 0]
    /\ owned = [ev |-> 0, ep |-> 0]
    /\ result = [t \in Threads |-> [value |-> raw, ev |-> 0, ep |-> 0]]

\* Resets so far, the ones under way included: the bound counts these.
Resets == epoch + Cardinality({t \in Readers : op[t] = "reset"
                                              /\ pc[t] \in {"lock", "raw"}})

\* A user thread calls read() or reset().
Call(t) ==
    /\ t \in Readers
    /\ pc[t] = "idle"
    /\ \E o \in {"read", "reset"} :
         /\ o = "reset" => Resets < MaxEpoch
         /\ op' = [op EXCEPT ![t] = o]
    /\ pc' = [pc EXCEPT ![t] = "lock"]
    /\ UNCHANGED <<raw, extended_value, last_raw_value, lock, new_raw_value,
                   timer, age, events, epoch, sampled, owned, result>>

\* The mutant of WatchdogWakes: the thread wakes up but reads nothing.
WatchdogDozes ==
    /\ pc[Watchdog] = "idle"
    /\ timer = Delay
    /\ timer' = 0
    /\ UNCHANGED <<raw, extended_value, last_raw_value, lock, pc, op,
                   new_raw_value, age, events, epoch, sampled, owned, result>>

\* The watchdog wakes up after its sleep and calls read().
WatchdogWakes ==
    /\ pc[Watchdog] = "idle"
    /\ timer = Delay
    /\ pc' = [pc EXCEPT ![Watchdog] = "lock"]
    /\ timer' = 0
    /\ UNCHANGED <<raw, extended_value, last_raw_value, lock, op, new_raw_value,
                   age, events, epoch, sampled, owned, result>>

\* The mutant of MutexFree: internal_read without CounterMutex.
MutexIgnored == TRUE

\* CounterMutex.lock() can succeed.
MutexFree == lock = NoThread

\* CounterMutex.lock()
Acquire(t) ==
    /\ pc[t] = "lock"
    /\ MutexFree
    /\ lock' = t
    /\ pc' = [pc EXCEPT ![t] = "raw"]
    /\ UNCHANGED <<raw, extended_value, last_raw_value, op, new_raw_value,
                   timer, age, events, epoch, sampled, owned, result>>

\* (*raw_counter)(): a reset() starts a new epoch with the value it samples.
ReadRaw(t) ==
    /\ pc[t] = "raw"
    /\ new_raw_value' = [new_raw_value EXCEPT ![t] = raw]
    /\ epoch' = IF op[t] = "reset" THEN epoch + 1 ELSE epoch
    /\ sampled' = [ev |-> events, ep |-> epoch']
    /\ age' = 0
    /\ pc' = [pc EXCEPT ![t] = "update"]
    /\ UNCHANGED <<raw, extended_value, last_raw_value, lock, op, timer,
                   events, owned, result>>

\* The mutant of Increment: the wrap is noticed but the period is not added.
IncrementNoWrap(new, last) == IF new < last THEN new ELSE new - last

\* What internal_read adds to extended_value.
Increment(new, last) ==
    IF new < last THEN (Modulus - last) + new ELSE new - last

\* The rest of internal_read, or of reset, up to CounterMutex.unlock().
Update(t) ==
    /\ pc[t] = "update"
    /\ extended_value' =
         IF op[t] = "reset" THEN new_raw_value[t]
         ELSE extended_value + Increment(new_raw_value[t], last_raw_value)
    /\ last_raw_value' = new_raw_value[t]
    /\ owned' = sampled
    /\ result' = IF op[t] = "reset" THEN result
                 ELSE [result EXCEPT ![t] = [value |-> extended_value',
                                             ev |-> sampled.ev,
                                             ep |-> sampled.ep]]
    /\ lock' = NoThread
    /\ pc' = [pc EXCEPT ![t] = "idle"]
    /\ timer' = IF t = Watchdog THEN 0 ELSE timer
    /\ op' = [op EXCEPT ![t] = "read"]
    /\ new_raw_value' = [new_raw_value EXCEPT ![t] = 0]
    /\ UNCHANGED <<raw, age, events, epoch, sampled>>

\* One tick of time, in which the hardware counts n events.  The watchdog is
\* never later than Latency.
Tick(n) ==
    /\ timer < (IF pc[Watchdog] = "idle" THEN Delay ELSE Latency)
    /\ events + n <= MaxEvents
    /\ raw' = (raw + n) % Modulus
    /\ events' = events + n
    /\ timer' = timer + 1
    /\ age' = age + 1
    /\ UNCHANGED <<extended_value, last_raw_value, lock, pc, op,
                   new_raw_value, epoch, sampled, owned, result>>

\* The unit the counter belongs to is reset while the extender is in use.
HardwareReset ==
    /\ Resets < MaxEpoch
    /\ raw' = 0
    /\ epoch' = epoch + 1
    /\ UNCHANGED <<extended_value, last_raw_value, lock, pc, op,
                   new_raw_value, timer, age, events, sampled, owned, result>>

ThreadStep(t) == Call(t) \/ Acquire(t) \/ ReadRaw(t) \/ Update(t)

Next ==
    \/ \E t \in Threads : ThreadStep(t)
    \/ WatchdogWakes
    \/ \E n \in 0 .. Rate : Tick(n)
    \/ HardwareReset

Spec == Init /\ [][Next]_vars

-----------------------------------------------------------------------------
\* Two values read() returned with no reset between their samples differ by
\* exactly the number of events between the samples, whichever threads read
\* them, however often the counter wrapped and wherever the watchdog ran.
DifferencesExact ==
    \A a, b \in Threads :
        result[a].ep = result[b].ep =>
            result[b].value - result[a].value = result[b].ev - result[a].ev

\* The watchdog never lets the hardware count a full period between two
\* samples: a second wrap between samples could not be noticed.
NoMissedWrap == events - sampled.ev < Modulus

-----------------------------------------------------------------------------
(* The inductive invariant behind the two properties. *)

\* CounterMutex is held exactly by the thread between lock and unlock.
MutexInv ==
    /\ \A t \in Threads : pc[t] \in {"raw", "update"} <=> lock = t
    /\ op[Watchdog] = "read"

\* The watchdog is on time, so the latest sample is not too old.
TimeInv ==
    /\ timer <= IF pc[Watchdog] = "idle" THEN Delay ELSE Latency
    /\ pc[Watchdog] = "idle" => age <= Latency + timer
    /\ pc[Watchdog] \in {"lock", "raw"} => age <= Latency + Delay + timer
    /\ pc[Watchdog] = "update" => age <= timer
    /\ events - sampled.ev <= Rate * age

\* The histories run forward.
HistoryInv ==
    /\ owned.ev <= sampled.ev /\ sampled.ev <= events
    /\ owned.ep <= sampled.ep /\ sampled.ep <= epoch
    /\ sampled.ev - owned.ev < Modulus

\* new is what a counter that stood at old shows n < Modulus events later.
Counted(new, old, n) == new = old + n \/ new = old + n - Modulus

\* The hardware counter, the latest sample and last_raw_value are as far apart
\* as the events between them say.
RawInv ==
    /\ (\A t \in Threads : pc[t] # "update") =>
         /\ sampled = owned
         /\ sampled.ep = epoch => Counted(raw, last_raw_value, events - sampled.ev)
    /\ \A t \in Threads : pc[t] = "update" =>
         /\ sampled.ep = epoch =>
                Counted(raw, new_raw_value[t], events - sampled.ev)
         /\ op[t] = "reset" => owned.ep < sampled.ep
         /\ owned.ep = sampled.ep =>
                Counted(new_raw_value[t], last_raw_value, sampled.ev - owned.ev)

\* Every value returned in the current epoch is at the same distance from the
\* true count as extended_value is.
ResultInv ==
    \A t \in Threads :
        /\ result[t].ep <= owned.ep
        /\ result[t].ep = owned.ep =>
              result[t].value - result[t].ev = extended_value - owned.ev

IInv == /\ TypeOK /\ MutexInv /\ TimeInv /\ HistoryInv /\ RawInv
        /\ ResultInv /\ DifferencesExact

=============================================================================
