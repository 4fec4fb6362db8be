--------------------- MODULE CounterWidthExtenderProofs ---------------------
(***************************************************************************)
(* The width extender's differences are exact for every counter width,     *)
(* every number of reader threads and every rate the watchdog keeps up     *)
(* with: IInv is inductive.                                                *)
(***************************************************************************)
EXTENDS CounterWidthExtender, TLAPS

\* Adding less than a period to a counter: % takes off at most one period.
LEMMA ModAdd ==
    ASSUME NEW m \in Nat \ {0}, NEW r \in 0 .. m - 1, NEW n \in 0 .. m - 1
    PROVE  /\ (r + n) % m \in 0 .. m - 1
           /\ (r + n) % m = r + n \/ (r + n) % m = r + n - m
<1>1. r + n \in Int /\ m \in Int
  OBVIOUS
<1>2. CASE r + n < m
  BY <1>2, (r + n) % m = r + n
<1>3. CASE r + n >= m
  BY <1>3, (r + n) % m = r + n - m
<1> QED
  BY <1>2, <1>3

\* One more tick allows Rate more events.
LEMMA RateStep ==
    ASSUME NEW r \in Nat, NEW a \in Nat
    PROVE  r * (a + 1) = r * a + r
  OBVIOUS

\* A longer time allows no fewer events.
LEMMA RateMonotone ==
    ASSUME NEW r \in Nat, NEW a \in Nat, NEW b \in Nat, a <= b
    PROVE  r * a <= r * b
  OBVIOUS

\* The watchdog's timer t bounds the age a of the latest sample.
LEMMA AgeBound ==
    ASSUME NEW t \in Nat, NEW a \in Nat,
           \/ t <= Delay /\ a <= Latency + t
           \/ t <= Latency /\ (a <= Latency + Delay + t \/ a <= t)
    PROVE  a <= Delay + 2 * Latency
  BY ConstantsAssumption

\* Fewer than Modulus events fit in the time between two watchdog samples.
LEMMA EventBound ==
    ASSUME NEW e \in Int, NEW a \in Nat, e <= Rate * a, a <= Delay + 2 * Latency
    PROVE  e < Modulus
<1>1. Rate * a <= Rate * (Delay + 2 * Latency)
  BY RateMonotone, ConstantsAssumption
<1>2. Rate * a \in Nat /\ Rate * (Delay + 2 * Latency) \in Nat
  BY ConstantsAssumption
<1> QED
  BY <1>1, <1>2, ConstantsAssumption

\* The counter is less than a period ahead whenever the watchdog is on time.
LEMMA PendingBound ==
    ASSUME TypeOK, TimeInv
    PROVE  events - sampled.ev < Modulus
<1>1. age <= Delay + 2 * Latency
  BY ConstantsAssumption DEF TypeOK, TimeInv, Threads
<1>2. events - sampled.ev \in Int /\ age \in Nat
  BY DEF TypeOK, Stamp
<1> QED
  BY <1>1, <1>2, EventBound DEF TimeInv

\* The constructor establishes the invariant.
LEMMA InitIInv == Init => IInv
<1> SUFFICES ASSUME Init PROVE IInv
  OBVIOUS
<1> USE ConstantsAssumption, NoThreadAssumption DEF Init
<1>1. TypeOK
  BY DEF TypeOK, Stamp, Result
<1>2. MutexInv
  BY DEF MutexInv, Threads
<1>3. TimeInv
  <2>1. Rate * 0 = 0
    OBVIOUS
  <2> QED
    BY <2>1 DEF TimeInv, Threads
<1>4. HistoryInv /\ ResultInv /\ DifferencesExact
  BY DEF HistoryInv, ResultInv, DifferencesExact
<1>5. RawInv
  BY DEF RawInv, Counted
<1> QED
  BY <1>1, <1>2, <1>3, <1>4, <1>5 DEF IInv

\* Increment undoes the wrap: it is the number of events counted.
LEMMA IncrementCounts ==
    ASSUME NEW new \in 0 .. Modulus - 1, NEW last \in 0 .. Modulus - 1,
           NEW n \in 0 .. Modulus - 1, Counted(new, last, n)
    PROVE  Increment(new, last) = n
  BY ConstantsAssumption DEF Counted, Increment

\* Increment never takes anything off extended_value.
LEMMA IncrementNat ==
    ASSUME NEW new \in 0 .. Modulus - 1, NEW last \in 0 .. Modulus - 1
    PROVE  Increment(new, last) \in Nat
  BY ConstantsAssumption DEF Increment

\* Steps that touch only pc, op, lock and timer keep the data invariants.
LEMMA ControlStep ==
    ASSUME IInv,
           UNCHANGED <<raw, extended_value, last_raw_value, new_raw_value,
                       events, epoch, sampled, owned, result>>,
           \A t \in Threads : (pc'[t] = "update" <=> pc[t] = "update")
                              /\ (pc[t] = "update" => op'[t] = op[t])
    PROVE  HistoryInv' /\ RawInv' /\ ResultInv' /\ DifferencesExact'
<1>1. HistoryInv' /\ ResultInv' /\ DifferencesExact'
  BY DEF IInv, HistoryInv, ResultInv, DifferencesExact
<1>2. RawInv'
  BY DEF IInv, RawInv, Counted
<1> QED
  BY <1>1, <1>2

\* Call leaves the data alone.
LEMMA CallIInv ==
    ASSUME IInv, NEW t \in Threads, Call(t)
    PROVE  IInv'
<1> USE ConstantsAssumption DEF IInv
<1>1. TypeOK'
  BY DEF Call, TypeOK
<1>2. MutexInv'
  BY NoThreadAssumption DEF Call, TypeOK, MutexInv, Threads
<1>3. TimeInv'
  BY DEF Call, TypeOK, TimeInv, Threads
<1>4. HistoryInv' /\ RawInv' /\ ResultInv' /\ DifferencesExact'
  BY ControlStep DEF Call, TypeOK
<1> QED
  BY <1>1, <1>2, <1>3, <1>4

\* The watchdog's wake-up restarts its timer.
LEMMA WakesIInv ==
    ASSUME IInv, WatchdogWakes
    PROVE  IInv'
<1> USE ConstantsAssumption DEF IInv
<1>1. TypeOK'
  BY DEF WatchdogWakes, TypeOK
<1>2. MutexInv'
  BY NoThreadAssumption DEF WatchdogWakes, TypeOK, MutexInv, Threads
<1>3. TimeInv'
  BY DEF WatchdogWakes, TypeOK, TimeInv, Threads
<1>4. HistoryInv' /\ RawInv' /\ ResultInv' /\ DifferencesExact'
  BY ControlStep DEF WatchdogWakes, TypeOK
<1> QED
  BY <1>1, <1>2, <1>3, <1>4

\* lock() of the mutex.
LEMMA AcquireIInv ==
    ASSUME IInv, NEW t \in Threads, Acquire(t)
    PROVE  IInv'
<1> USE ConstantsAssumption DEF IInv
<1>1. TypeOK'
  BY DEF Acquire, TypeOK
<1>2. MutexInv'
  BY NoThreadAssumption DEF Acquire, TypeOK, MutexInv, MutexFree
<1>3. TimeInv'
  BY DEF Acquire, TypeOK, TimeInv, Threads
<1>4. HistoryInv' /\ RawInv' /\ ResultInv' /\ DifferencesExact'
  BY ControlStep DEF Acquire, TypeOK
<1> QED
  BY <1>1, <1>2, <1>3, <1>4

\* The sample: nobody else is between its sample and its update.
LEMMA ReadRawIInv ==
    ASSUME IInv, NEW t \in Threads, ReadRaw(t)
    PROVE  IInv'
<1> USE ConstantsAssumption DEF IInv
<1>1. TypeOK'
  BY DEF ReadRaw, TypeOK, Stamp
<1>2. MutexInv'
  BY DEF ReadRaw, TypeOK, MutexInv
<1>3. TimeInv'
  <2>1. Rate * 0 = 0
    OBVIOUS
  <2>2. events' - sampled'.ev = 0 /\ age' = 0
    BY DEF ReadRaw, TypeOK
  <2> QED
    BY <2>1, <2>2 DEF ReadRaw, TypeOK, TimeInv, Threads
<1>4. \A u \in Threads : pc[u] # "update"
  BY DEF ReadRaw, TypeOK, MutexInv
<1>5. /\ sampled = owned
      /\ sampled.ep = epoch => Counted(raw, last_raw_value, events - sampled.ev)
  BY <1>4 DEF RawInv
<1>6. HistoryInv'
  BY <1>5, PendingBound DEF ReadRaw, TypeOK, HistoryInv, Stamp
<1>7. RawInv'
  BY <1>4, <1>5 DEF ReadRaw, TypeOK, RawInv, HistoryInv, Counted, Stamp
<1>8. ResultInv' /\ DifferencesExact'
  BY DEF ReadRaw, ResultInv, DifferencesExact
<1> QED
  BY <1>1, <1>2, <1>3, <1>6, <1>7, <1>8

\* The update: within an epoch extended_value advances by the events between
\* the samples; a new epoch has no earlier result to disagree with.
LEMMA UpdateIInv ==
    ASSUME IInv, NEW t \in Threads, Update(t)
    PROVE  IInv'
<1> USE ConstantsAssumption DEF IInv
<1>1. TypeOK'
  BY IncrementNat DEF Update, TypeOK, Stamp, Result
<1>2. MutexInv'
  BY NoThreadAssumption DEF Update, TypeOK, MutexInv, Threads
<1>3. TimeInv'
  BY DEF Update, TypeOK, TimeInv, MutexInv, Threads
<1>4. \A u \in Threads : pc'[u] # "update"
  BY DEF Update, TypeOK, MutexInv
<1>5. HistoryInv'
  BY DEF Update, TypeOK, HistoryInv, Stamp
<1>6. RawInv'
  BY <1>4 DEF Update, TypeOK, RawInv
<1>7. owned.ep = sampled.ep =>
        /\ op[t] = "read"
        /\ extended_value' - sampled.ev = extended_value - owned.ev
  <2> SUFFICES ASSUME owned.ep = sampled.ep
               PROVE  /\ op[t] = "read"
                      /\ extended_value' - sampled.ev = extended_value - owned.ev
    OBVIOUS
  <2>1. op[t] = "read"
    BY DEF Update, TypeOK, RawInv, Stamp
  <2>2. Counted(new_raw_value[t], last_raw_value, sampled.ev - owned.ev)
    BY DEF Update, RawInv
  <2>3. sampled.ev - owned.ev \in 0 .. Modulus - 1
    BY DEF TypeOK, Stamp, HistoryInv
  <2>4. Increment(new_raw_value[t], last_raw_value) = sampled.ev - owned.ev
    BY <2>2, <2>3, IncrementCounts DEF TypeOK
  <2> QED
    BY <2>1, <2>4 DEF Update, TypeOK, Stamp
<1>8. \A u \in Threads :
        \/ result'[u] = result[u]
        \/ result'[u] = [value |-> extended_value', ev |-> sampled.ev,
                         ep |-> sampled.ep]
  BY DEF Update, TypeOK
<1>9. ResultInv'
  <2> SUFFICES ASSUME NEW u \in Threads
               PROVE  /\ result'[u].ep <= owned'.ep
                      /\ result'[u].ep = owned'.ep =>
                           result'[u].value - result'[u].ev
                             = extended_value' - owned'.ev
    BY DEF ResultInv
  <2>0. owned' = sampled
    BY DEF Update
  <2>1. CASE result'[u] = result[u]
    BY <2>0, <2>1, <1>7 DEF TypeOK, Stamp, Result, ResultInv, HistoryInv
  <2>2. CASE result'[u] = [value |-> extended_value', ev |-> sampled.ev,
                           ep |-> sampled.ep]
    BY <2>0, <2>2 DEF TypeOK, Stamp
  <2> QED
    BY <2>1, <2>2, <1>8
<1>10. DifferencesExact'
  <2> SUFFICES ASSUME NEW a \in Threads, NEW b \in Threads,
                      result'[a].ep = result'[b].ep
               PROVE  result'[b].value - result'[a].value
                        = result'[b].ev - result'[a].ev
    BY DEF DifferencesExact
  <2>1. CASE result'[a].ep = owned'.ep
    <3>1. /\ result'[a].value \in Int /\ result'[a].ev \in Int
          /\ result'[b].value \in Int /\ result'[b].ev \in Int
          /\ extended_value' \in Int /\ owned'.ev \in Int
      BY <1>1 DEF TypeOK, Result, Stamp
    <3>2. /\ result'[a].value - result'[a].ev = extended_value' - owned'.ev
          /\ result'[b].value - result'[b].ev = extended_value' - owned'.ev
      BY <2>1, <1>9 DEF ResultInv
    <3> QED
      BY ONLY <3>1, <3>2
  <2>2. CASE result'[a].ep # owned'.ep
    <3>1. owned' = sampled
      BY DEF Update
    <3>2. result'[a] = result[a] /\ result'[b] = result[b]
      BY <2>2, <3>1, <1>8
    <3> QED
      BY <3>2 DEF DifferencesExact
  <2> QED
    BY <2>1, <2>2
<1> QED
  BY <1>1, <1>2, <1>3, <1>5, <1>6, <1>9, <1>10

\* A tick: the counter and the events advance together, and stay less than a
\* period ahead of the latest sample.
LEMMA TickIInv ==
    ASSUME IInv, NEW n \in 0 .. Rate, Tick(n)
    PROVE  IInv'
<1> USE ConstantsAssumption DEF IInv
<1>1. Delay + 2 * Latency >= 1
  BY DEF Tick, TypeOK
<1>2. n < Modulus
  <2>1. Rate * 1 <= Rate * (Delay + 2 * Latency)
    BY <1>1, RateMonotone
  <2>2. Rate * 1 = Rate /\ Rate * (Delay + 2 * Latency) \in Nat
    OBVIOUS
  <2> QED
    BY <2>1, <2>2
<1>3. /\ raw' \in 0 .. Modulus - 1
      /\ raw' = raw + n \/ raw' = raw + n - Modulus
  <2>1. /\ Modulus \in Nat \ {0} /\ raw \in 0 .. Modulus - 1
        /\ n \in 0 .. Modulus - 1 /\ raw' = (raw + n) % Modulus
    BY <1>2 DEF Tick, TypeOK
  <2> QED
    BY ONLY <2>1, ModAdd
<1>4. TypeOK'
  BY <1>3 DEF Tick, TypeOK
<1>5. MutexInv'
  BY DEF Tick, MutexInv
<1>6. TimeInv'
  <2>1. Rate * age' = Rate * age + Rate
    BY RateStep DEF Tick, TypeOK
  <2>2. Rate * age \in Nat
    BY DEF TypeOK
  <2>3. events' - sampled'.ev <= Rate * age'
    BY <2>1, <2>2 DEF Tick, TypeOK, TimeInv, Stamp
  <2> QED
    BY <2>3 DEF Tick, TypeOK, TimeInv, Threads
<1>7. HistoryInv'
  BY DEF Tick, TypeOK, HistoryInv, Stamp
<1>8. events' - sampled'.ev < Modulus
  <2>1. age' <= Delay + 2 * Latency
    <3>1. /\ timer' \in Nat /\ age' \in Nat
          /\ pc'[Watchdog] \in {"idle", "lock", "raw", "update"}
      BY <1>4 DEF TypeOK, Threads
    <3>2. CASE pc'[Watchdog] = "idle"
      <4>1. timer' <= Delay /\ age' <= Latency + timer'
        BY <1>6, <3>2 DEF TimeInv
      <4> QED
        BY <4>1, <3>1, AgeBound
    <3>3. CASE pc'[Watchdog] # "idle"
      <4>1. timer' <= Latency
        BY <1>6, <3>3 DEF TimeInv
      <4>2. age' <= Latency + Delay + timer' \/ age' <= timer'
        BY <1>6, <3>1, <3>3 DEF TimeInv
      <4> QED
        BY <4>1, <4>2, <3>1, AgeBound
    <3> QED
      BY <3>2, <3>3
  <2>2. events' - sampled'.ev \in Int /\ age' \in Nat
    BY <1>4 DEF TypeOK, Stamp
  <2> QED
    BY <1>6, <2>1, <2>2, EventBound DEF TimeInv
<1>9. RawInv'
  <2>1. ASSUME NEW x \in 0 .. Modulus - 1,
               Counted(raw, x, events - sampled.ev)
        PROVE  Counted(raw', x, events' - sampled'.ev)
    <3>1. /\ events' = events + n /\ sampled' = sampled
          /\ events \in Nat /\ sampled.ev \in Nat /\ sampled.ev <= events
          /\ raw \in 0 .. Modulus - 1 /\ n \in Nat /\ Modulus \in Nat
      BY DEF Tick, TypeOK, HistoryInv, Stamp
    <3> QED
      BY ONLY <3>1, <1>3, <1>8, <2>1, x \in 0 .. Modulus - 1 DEF Counted
  <2> QED
    BY <2>1 DEF Tick, TypeOK, RawInv, Counted
<1>10. ResultInv' /\ DifferencesExact'
  BY DEF Tick, ResultInv, DifferencesExact
<1> QED
  BY <1>4, <1>5, <1>6, <1>7, <1>9, <1>10

\* A reset of the unit opens an epoch nothing has been sampled in.
LEMMA HardwareResetIInv ==
    ASSUME IInv, HardwareReset
    PROVE  IInv'
<1> USE ConstantsAssumption DEF IInv
<1>1. TypeOK'
  BY DEF HardwareReset, TypeOK
<1>2. MutexInv' /\ ResultInv' /\ DifferencesExact'
  BY DEF HardwareReset, MutexInv, ResultInv, DifferencesExact
<1>3. TimeInv'
  BY DEF HardwareReset, TimeInv
<1>4. HistoryInv'
  BY DEF HardwareReset, TypeOK, HistoryInv, Stamp
<1>5. sampled'.ep # epoch'
  BY DEF HardwareReset, TypeOK, HistoryInv, Stamp
<1>6. RawInv'
  BY <1>5 DEF HardwareReset, RawInv
<1> QED
  BY <1>1, <1>2, <1>3, <1>4, <1>6

\* IInv holds in every reachable state, so in particular the types are right.
THEOREM Invariance == Spec => []IInv
<1>1. IInv /\ [Next]_vars => IInv'
  <2> SUFFICES ASSUME IInv, [Next]_vars PROVE IInv'
    OBVIOUS
  <2>1. CASE UNCHANGED vars
    BY <2>1 DEF vars, IInv, TypeOK, MutexInv, TimeInv, HistoryInv, RawInv,
                ResultInv, DifferencesExact, Counted
  <2>2. ASSUME NEW t \in Threads, ThreadStep(t) PROVE IInv'
    BY <2>2, CallIInv, AcquireIInv, ReadRawIInv, UpdateIInv DEF ThreadStep
  <2>3. CASE WatchdogWakes
    BY <2>3, WakesIInv
  <2>4. ASSUME NEW n \in 0 .. Rate, Tick(n) PROVE IInv'
    BY <2>4, TickIInv
  <2>5. CASE HardwareReset
    BY <2>5, HardwareResetIInv
  <2> QED
    BY <2>1, <2>2, <2>3, <2>4, <2>5 DEF Next
<1> QED
  BY <1>1, InitIInv, PTL DEF Spec

\* internal_read with its lock, its wrap correction and its watchdog makes all
\* differences between returned values exact.
THEOREM ExactDifferences == Spec => []DifferencesExact
<1>1. IInv => DifferencesExact
  BY DEF IInv
<1> QED
  BY <1>1, Invariance, PTL

\* The watchdog thread samples the counter often enough to see every wrap.
THEOREM WatchdogInTime == Spec => []NoMissedWrap
<1>1. IInv => NoMissedWrap
  BY PendingBound DEF IInv, NoMissedWrap
<1> QED
  BY <1>1, Invariance, PTL

=============================================================================
