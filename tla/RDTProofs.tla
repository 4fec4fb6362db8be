------------------------------ MODULE RDTProofs ------------------------------
(***************************************************************************)
(* Resource monitoring for any number of cores, monitoring ids and reads:  *)
(* cleanupRDT frees every id, and a value is of the core it is reported    *)
(* for, because the pair of monitoring registers of a core is used under   *)
(* the lock of its MSR handle and the ids of a socket differ.  Before      *)
(* that, for any machine whose numbers fit the bits of their levels: the   *)
(* constructor ends complete or not good, and the tree it builds from APIC *)
(* ids is the tree of the machine.                                         *)
(***************************************************************************)
EXTENDS RDT, FiniteSetTheorems, SequenceTheorems, TLAPS

\* Until initRDT is done nothing is monitored and nobody reads.
Untouched ==
  pc # "ready" =>
    /\ assoc = [c \in CPUs |-> 0] /\ evtsel = [c \in CPUs |-> NoRMID]
    /\ memory_bw = [e \in BWEvents |-> <<>>]
    /\ lock = [c \in CPUs |-> Nobody] /\ job = [r \in Readers |-> Idle]
    /\ got = Nothing /\ cleanup = -1

\* cleanupRDT has freed the cores before the one it treats.
FreedSoFar ==
  /\ DOMAIN assoc = CPUs
  /\ cleanup \in -1 .. CleanupDone
  /\ machine.resctrl => \A c \in CPUs : assoc[c] = 0
  /\ ~machine.resctrl => groups = {}
  /\ \A c \in Online : c < cleanup => assoc[c] = 0 /\ c \notin groups

\* The inductive invariant of the clean-up.
CleanupInv == Untouched /\ FreedSoFar

-----------------------------------------------------------------------------
Selection == [rmid : Int, event : 0 .. 3]
Jobs == [at : {"idle", "lock", "readsel", "writesel", "readctr"},
         asked : Int, core : Int, event : 0 .. 3, sel : Selection]
Locked == {"readsel", "writesel", "readctr"}

ReadTypes ==
  /\ evtsel \in [CPUs -> Selection]
  /\ DOMAIN lock = CPUs
  /\ job \in [Readers -> Jobs]

\* The bandwidth counters of a core are at the position of its number.
Extenders ==
  \A e \in BWEvents :
    /\ Len(memory_bw[e]) \in Nat
    /\ \A i \in 1 .. Len(memory_bw[e]) :
         ~machine.resctrl /\ i - 1 \in Online /\ memory_bw[e][i] = i - 1

\* What a reader knows: it asks for the core it reads, holds the lock from the
\* first access to the registers to the last, has the id of the core at hand,
\* and finds its event selected.
JobOK(r) ==
  /\ job[r].at # "idle" =>
       /\ job[r].core \in Online /\ job[r].asked = job[r].core /\ job[r].event \in 1 .. 3
       /\ ~machine.resctrl
  /\ job[r].at \in Locked => lock[job[r].core] = r
  /\ cleanup = -1 /\ job[r].at = "writesel" =>
       \A c \in Online : job[r].core = c => job[r].sel.rmid = AssignedRMID(c)
  /\ cleanup = -1 /\ job[r].at = "readctr" => evtsel[job[r].core].event = job[r].event

\* The registers of a core select the id that initRDT gave it.
Selected ==
  pc = "ready" /\ ~machine.resctrl /\ cleanup = -1 =>
    \A c \in Online : evtsel[c].rmid = AssignedRMID(c)

\* The value of a core and an event under the core's own id.
ValueOf(c, e) ==
  [asked |-> c, event |-> e, on |-> c, sel |-> [rmid |-> AssignedRMID(c), event |-> e]]

GotOwn == got # Nothing => \E c \in Online, e \in 1 .. 3 : got = ValueOf(c, e)

Reads == ReadTypes /\ Extenders /\ (\A r \in Readers : JobOK(r)) /\ Selected /\ GotOwn

\* The inductive invariant of the readers.
ReadInv == Untouched /\ (OnlineFirst => Reads)

-----------------------------------------------------------------------------
(* Cores and steps. *)

\* The logical CPUs are numbered from 0, and the online ones are among them.
LEMMA CPUFacts ==
  /\ IsFiniteSet(CPUs) /\ CleanupDone \in Nat /\ CPUs = 0 .. (CleanupDone - 1)
  /\ Online \subseteq CPUs
<1>1. IsFiniteSet(CPUs) /\ Cardinality(CPUs) \in Nat
  BY CPUsAssumption, FS_CardinalityType
<1> QED
  BY <1>1, CPUsAssumption DEF CleanupDone, Online

\* The constructor keeps the machine and ends before monitoring begins.
LEMMA StartupMoves ==
  ASSUME StartupNext
  PROVE  machine' = machine /\ pc # "ready" /\ pc' # "ready"
  BY DEF StartupNext, detectModel, checkModel, discoverSystemTopologyFails,
     discoverSystemTopology, initMSR, detectNominalFrequency, initEnergyMonitoring, Return, Throw

\* A step that changes nothing the topology consists of.
LEMMA SameTopology ==
  ASSUME topology' = topology
  PROVE  /\ Online' = Online /\ (OnlineFirst' <=> OnlineFirst)
         /\ \A c \in CPUs : AssignedRMID(c)' = AssignedRMID(c)
  BY DEF Online, isCoreOnline, OnlineFirst, AssignedRMID


\* The reads, and the steps within them, leave association and groups alone.
LEMMA ReadMoves ==
  ASSUME \/ ReadL3Occupancy \/ readAndAggregateMemoryBWCounters \/ Watchdog \/ getMetric
         \/ \E r \in Readers : Lock(r) \/ ReadEvtsel(r) \/ WriteEvtsel(r) \/ ReadCtr(r)
  PROVE  UNCHANGED <<startupVars, assoc, memory_bw, groups, files, cleanup>>
  BY DEF ReadL3Occupancy, readAndAggregateMemoryBWCounters, Watchdog, getMetric, Lock,
     ReadEvtsel, WriteEvtsel, ReadCtr, Start

\* Before monitoring begins nobody is reading.
LEMMA ReadsWhenReady ==
  ASSUME Untouched,
         \/ ReadL3Occupancy \/ readAndAggregateMemoryBWCounters \/ Watchdog \/ getMetric
         \/ \E r \in Readers : Lock(r) \/ ReadEvtsel(r) \/ WriteEvtsel(r) \/ ReadCtr(r)
  PROVE  pc = "ready"
<1>1. ASSUME NEW r \in Readers, pc # "ready" PROVE job[r].at = "idle"
  BY <1>1 DEF Untouched, Idle
<1> QED
  BY <1>1 DEF ReadL3Occupancy, readAndAggregateMemoryBWCounters, Watchdog, getMetric, Lock,
     ReadEvtsel, WriteEvtsel, ReadCtr, Start

\* Nothing is monitored until the constructor has come to initRDT.
LEMMA UntouchedStep ==
  ASSUME Untouched, [Next]_vars
  PROVE  Untouched'
<1>1. CASE StartupNext /\ UNCHANGED rdtVars
  BY <1>1, StartupMoves DEF rdtVars, Untouched
<1>2. CASE initRDT \/ ResctrlInit
  BY <1>2 DEF initRDT, ResctrlInit, Untouched
<1>3. CASE \/ ReadL3Occupancy \/ readAndAggregateMemoryBWCounters \/ Watchdog \/ getMetric
           \/ \E r \in Readers : Lock(r) \/ ReadEvtsel(r) \/ WriteEvtsel(r) \/ ReadCtr(r)
  <2>1. pc = "ready" /\ pc' = pc
    BY <1>3, ReadMoves, ReadsWhenReady DEF startupVars
  <2> QED
    BY <2>1 DEF Untouched
<1>4. CASE StartCleanupRDT
  BY <1>4 DEF StartCleanupRDT, startupVars, Untouched
<1>5. CASE cleanupRDT \/ ResctrlCleanup
  <2>1. pc' = pc /\ cleanup \in CPUs
    BY <1>5 DEF cleanupRDT, ResctrlCleanup, startupVars
  <2>2. -1 \notin CPUs
    BY CPUFacts
  <2> QED
    BY <2>1, <2>2 DEF Untouched
<1>6. CASE UNCHANGED vars
  BY <1>6 DEF vars, startupVars, rdtVars, Untouched
<1> QED
  BY <1>1, <1>2, <1>3, <1>4, <1>5, <1>6 DEF Next

-----------------------------------------------------------------------------
(* cleanupRDT *)

\* The loop of cleanupRDT frees one core after another, and nothing takes an
\* id back meanwhile.
LEMMA FreedStep ==
  ASSUME CleanupInv, [Next]_vars
  PROVE  FreedSoFar'
<1>0. Untouched /\ FreedSoFar
  BY DEF CleanupInv
<1>1. \A c \in Online' : c \in CPUs /\ c \in Nat /\ ~(c < -1)
  <2>1. Online' \subseteq CPUs
    BY DEF Online
  <2> QED
    BY <2>1, CPUFacts
<1>2. CASE StartupNext /\ UNCHANGED rdtVars
  <2>1. /\ machine' = machine /\ assoc' = assoc /\ groups' = groups
        /\ cleanup' = cleanup /\ cleanup = -1
    BY <1>0, <1>2, StartupMoves DEF rdtVars, Untouched
  <2> QED
    BY <1>0, <1>1, <2>1 DEF FreedSoFar, CleanupDone
<1>3. CASE initRDT
  <2>1. /\ cleanup' = cleanup /\ cleanup = -1 /\ machine' = machine /\ groups' = groups
        /\ ~machine.resctrl /\ DOMAIN assoc' = CPUs
    BY <1>0, <1>3 DEF initRDT, RestOfPCM, Untouched
  <2> QED
    BY <1>0, <1>1, <2>1 DEF FreedSoFar, CleanupDone
<1>4. CASE ResctrlInit
  <2>1. /\ cleanup' = cleanup /\ cleanup = -1 /\ machine' = machine /\ assoc' = assoc
        /\ machine.resctrl
    BY <1>0, <1>4 DEF ResctrlInit, RestOfPCM, Untouched
  <2> QED
    BY <1>0, <1>1, <2>1 DEF FreedSoFar, CleanupDone
<1>5. CASE \/ ReadL3Occupancy \/ readAndAggregateMemoryBWCounters \/ Watchdog \/ getMetric
           \/ \E r \in Readers : Lock(r) \/ ReadEvtsel(r) \/ WriteEvtsel(r) \/ ReadCtr(r)
           \/ UNCHANGED vars
  <2>1. /\ machine' = machine /\ topology' = topology /\ assoc' = assoc /\ groups' = groups
        /\ cleanup' = cleanup
    BY <1>5, ReadMoves DEF vars, startupVars, rdtVars
  <2>2. Online' = Online
    BY <2>1, SameTopology
  <2> QED
    BY <1>0, <2>1, <2>2 DEF FreedSoFar, CleanupDone
<1>6. CASE StartCleanupRDT
  <2>1. /\ machine' = machine /\ assoc' = assoc /\ groups' = groups /\ cleanup' = 0
    BY <1>6 DEF StartCleanupRDT, startupVars
  <2>2. \A c \in Online' : ~(c < 0)
    BY <1>1
  <2>3. 0 \in -1 .. CleanupDone
    BY CPUFacts
  <2> QED
    BY <1>0, <2>1, <2>2, <2>3 DEF FreedSoFar, CleanupDone
<1>7. CASE cleanupRDT
  <2>1. /\ machine' = machine /\ topology' = topology /\ groups' = groups
        /\ cleanup' = cleanup + 1 /\ cleanup \in CPUs /\ ~machine.resctrl
        /\ assoc' = IF cleanup \in Online THEN [assoc EXCEPT ![cleanup] = 0] ELSE assoc
    BY <1>7 DEF cleanupRDT, startupVars
  <2>2. Online' = Online /\ Online \subseteq CPUs
    BY <2>1, SameTopology, CPUFacts
  <2>3. cleanup' \in -1 .. CleanupDone
    BY <2>1, CPUFacts
  <2>4. groups = {} /\ DOMAIN assoc = CPUs
    BY <1>0, <2>1 DEF FreedSoFar
  <2>5. ASSUME NEW c \in Online, c < cleanup' PROVE assoc'[c] = 0
    <3>1. c = cleanup \/ c < cleanup
      BY <2>1, <2>2, <2>5, CPUFacts
    <3> QED
      BY <1>0, <2>1, <2>2, <2>4, <3>1 DEF FreedSoFar
  <2> QED
    BY <2>1, <2>2, <2>3, <2>4, <2>5 DEF FreedSoFar, CleanupDone
<1>8. CASE ResctrlCleanup
  <2>1. /\ machine' = machine /\ topology' = topology /\ assoc' = assoc
        /\ cleanup' = cleanup + 1 /\ cleanup \in CPUs /\ machine.resctrl
        /\ groups' = IF cleanup \in Online THEN groups \ {cleanup} ELSE groups
    BY <1>8 DEF ResctrlCleanup, startupVars
  <2>2. Online' = Online /\ Online \subseteq CPUs
    BY <2>1, SameTopology, CPUFacts
  <2>3. cleanup' \in -1 .. CleanupDone
    BY <2>1, CPUFacts
  <2>4. DOMAIN assoc = CPUs /\ \A c \in CPUs : assoc[c] = 0
    BY <1>0, <2>1 DEF FreedSoFar
  <2>5. ASSUME NEW c \in Online, c < cleanup' PROVE c \notin groups'
    <3>1. c = cleanup \/ c < cleanup
      BY <2>1, <2>2, <2>5, CPUFacts
    <3> QED
      BY <1>0, <2>1, <3>1 DEF FreedSoFar
  <2> QED
    BY <2>1, <2>2, <2>3, <2>4, <2>5 DEF FreedSoFar, CleanupDone
<1> QED
  BY <1>2, <1>3, <1>4, <1>5, <1>6, <1>7, <1>8 DEF Next

\* cleanupRDT and Resctrl::cleanup free the ids and groups of all online
\* cores, while the watchdogs of the bandwidth counters go on reading.
THEOREM AllFreed == Spec => []RMIDsFreed
<1>1. Init => CleanupInv
  <2> SUFFICES ASSUME Init PROVE CleanupInv
    OBVIOUS
  <2>1. Untouched
    BY DEF Init, RDTInit, Untouched
  <2>2. /\ DOMAIN assoc = CPUs /\ cleanup = -1 /\ \A c \in CPUs : assoc[c] = 0
        /\ ~machine.resctrl => groups = {}
    BY DEF Init, RDTInit
  <2>3. \A c \in Online : ~(c < -1)
    BY CPUFacts
  <2>4. -1 \in -1 .. CleanupDone
    BY CPUFacts
  <2> QED
    BY <2>1, <2>2, <2>3, <2>4 DEF CleanupInv, FreedSoFar
<1>2. CleanupInv /\ [Next]_vars => CleanupInv'
  BY UntouchedStep, FreedStep DEF CleanupInv
<1>3. CleanupInv => RMIDsFreed
  <2> SUFFICES ASSUME CleanupInv, cleanup = CleanupDone
               PROVE  (\A c \in Online : assoc[c] = 0) /\ groups \cap Online = {}
    BY DEF RMIDsFreed
  <2>1. \A c \in Online : c < cleanup
    BY CPUFacts
  <2> QED
    BY <2>1 DEF CleanupInv, FreedSoFar
<1> QED
  BY <1>1, <1>2, <1>3, PTL DEF Spec

-----------------------------------------------------------------------------
(* Monitoring ids *)

\* The number of online cores that come before one on its socket.
Earlier(c) == {d \in Online : d < c /\ topology[d].socket = topology[c].socket}

\* That number is below the number of CPUs.
LEMMA EarlierCount ==
  ASSUME NEW c \in CPUs
  PROVE  /\ IsFiniteSet(Earlier(c)) /\ Cardinality(Earlier(c)) \in Nat
         /\ Cardinality(Earlier(c)) < Cardinality(CPUs)
<1>1. Earlier(c) \in SUBSET CPUs /\ c \notin Earlier(c)
  <2>1. c \in Nat /\ ~(c < c) /\ Online \subseteq CPUs
    BY CPUFacts
  <2> QED
    BY <2>1 DEF Earlier
<1>2. CPUs # Earlier(c)
  BY <1>1
<1>3. /\ IsFiniteSet(Earlier(c)) /\ Cardinality(Earlier(c)) <= Cardinality(CPUs)
      /\ Cardinality(CPUs) # Cardinality(Earlier(c))
  BY <1>1, <1>2, CPUFacts, FS_Subset
<1>4. Cardinality(Earlier(c)) \in Nat /\ Cardinality(CPUs) \in Nat
  BY <1>3, CPUFacts, FS_CardinalityType
<1> QED
  BY <1>3, <1>4

\* What is written as a monitoring id has ten bits.
LEMMA AssignedType ==
  ASSUME NEW c \in CPUs
  PROVE  AssignedRMID(c) \in 0 .. 1023
<1>1. AssignedRMID(c) = (MaxRMID - 1 - Cardinality(Earlier(c))) % 1024
  BY DEF AssignedRMID, Earlier
<1>2. MaxRMID - 1 - Cardinality(Earlier(c)) \in Int
  BY EarlierCount, RDTAssumption
<1> QED
  BY <1>1, <1>2

\* Ten bits tell the ids of a machine of up to 1024 logical CPUs apart.
IdsSuffice == Cardinality(CPUs) <= 1024

\* Two cores of a socket have different ids.
LEMMA AssignedDiffer ==
  ASSUME IdsSuffice, NEW c \in Online, NEW d \in Online, c # d,
         topology[c].socket = topology[d].socket
  PROVE  AssignedRMID(c) # AssignedRMID(d)
<1>0. c \in CPUs /\ d \in CPUs /\ c \in Nat /\ d \in Nat
  BY CPUFacts
<1>1. ASSUME NEW a \in Online, NEW b \in Online, a < b,
             topology[a].socket = topology[b].socket
      PROVE  Cardinality(Earlier(a)) < Cardinality(Earlier(b))
  <2>1. a \in CPUs /\ b \in CPUs /\ a \in Nat /\ b \in Nat
    BY CPUFacts
  <2>2. \A x \in Online : x \in Nat
    BY CPUFacts
  <2>3. Earlier(a) \in SUBSET Earlier(b)
    <3>1. \A x \in Online : x < a => x < b
      BY <1>1, <2>1, <2>2
    <3> QED
      BY <1>1, <3>1 DEF Earlier
  <2>4. a \in Earlier(b) /\ a \notin Earlier(a)
    BY <1>1, <2>1 DEF Earlier
  <2>5. IsFiniteSet(Earlier(b)) /\ Cardinality(Earlier(a)) \in Nat /\ Cardinality(Earlier(b)) \in Nat
    BY <2>1, EarlierCount
  <2>6. Cardinality(Earlier(a)) <= Cardinality(Earlier(b))
    BY <2>3, <2>5, FS_Subset
  <2>7. Cardinality(Earlier(b)) # Cardinality(Earlier(a))
    BY <2>3, <2>4, <2>5, FS_Subset
  <2> QED
    BY <2>5, <2>6, <2>7
<1>2. Cardinality(Earlier(c)) # Cardinality(Earlier(d))
  <2>1. CASE c < d
    <3>1. Cardinality(Earlier(c)) < Cardinality(Earlier(d))
      BY <1>1, <2>1
    <3> QED
      BY <1>0, <3>1, EarlierCount
  <2>2. CASE d < c
    <3>1. Cardinality(Earlier(d)) < Cardinality(Earlier(c))
      BY <1>1, <2>2
    <3> QED
      BY <1>0, <3>1, EarlierCount
  <2> QED
    BY <1>0, <2>1, <2>2
<1> DEFINE i == Cardinality(Earlier(c))
           k == Cardinality(Earlier(d))
<1>3. i \in Nat /\ i < Cardinality(CPUs) /\ k \in Nat /\ k < Cardinality(CPUs)
  BY <1>0, EarlierCount
<1>4. Cardinality(CPUs) \in Nat
  BY CPUFacts, FS_CardinalityType
<1>5. i # k
  BY <1>2
<1>6. AssignedRMID(c) = (MaxRMID - 1 - i) % 1024 /\ AssignedRMID(d) = (MaxRMID - 1 - k) % 1024
  BY DEF AssignedRMID, Earlier
<1> HIDE DEF i, k
<1>7. i \in 0 .. 1023 /\ k \in 0 .. 1023
  BY <1>3, <1>4 DEF IdsSuffice
<1>8. (MaxRMID - 1 - i) % 1024 # (MaxRMID - 1 - k) % 1024
  <2>1. ASSUME NEW z \in Int, 0 <= z + 1024, z < 1024
        PROVE  z % 1024 = IF z < 0 THEN z + 1024 ELSE z
    BY <2>1
  <2> DEFINE x == MaxRMID - 1 - i
             y == MaxRMID - 1 - k
             u == x % 1024
             v == y % 1024
  <2>a. MaxRMID \in Int /\ 1 <= MaxRMID /\ MaxRMID <= 1024
    BY RDTAssumption
  <2>b. i \in Int /\ 0 <= i /\ i <= 1023 /\ k \in Int /\ 0 <= k /\ k <= 1023
    BY <1>7
  <2>2. /\ x \in Int /\ 0 <= x + 1024 /\ x < 1024
        /\ y \in Int /\ 0 <= y + 1024 /\ y < 1024
    BY <2>a, <2>b
  <2>3. u = (IF x < 0 THEN x + 1024 ELSE x) /\ v = (IF y < 0 THEN y + 1024 ELSE y)
    BY <2>1, <2>2
  <2>4. x \in Int /\ y \in Int /\ x # y /\ x < y + 1024 /\ y < x + 1024
    BY <1>5, <2>a, <2>b
  <2> SUFFICES u # v
    OBVIOUS
  <2> HIDE DEF x, y, u, v
  <2> QED
    BY <2>3, <2>4
<1> QED
  BY <1>6, <1>8

\* Where the online cores are the first ones, the extenders pushed back are at
\* the positions of the core numbers.
LEMMA OnlineSeqFirst ==
  ASSUME OnlineFirst
  PROVE  /\ Len(OnlineSeq) \in Nat
         /\ \A i \in 1 .. Len(OnlineSeq) : i - 1 \in Online /\ OnlineSeq[i] = i - 1
<1> DEFINE n == Cardinality(Online)
<1>0. n \in Nat
  BY CPUFacts, FS_Subset, FS_CardinalityType
<1>1. Online = 0 .. (n - 1)
  BY DEF OnlineFirst
<1> HIDE DEF n
<1>2. ASSUME NEW c \in Online
      PROVE  Cardinality({d \in Online : d < c}) = c
  <2>1. c \in Nat /\ {d \in Online : d < c} = 0 .. (c - 1)
    BY <1>0, <1>1
  <2> DEFINE b == c - 1
  <2>2. b \in Int /\ 0 \in Int /\ c = b + 1
    BY <2>1
  <2>3. {d \in Online : d < c} = 0 .. b
    BY <2>1
  <2> HIDE DEF b
  <2>4. Cardinality(0 .. b) = IF 0 > b THEN 0 ELSE b - 0 + 1
    BY <2>2, FS_Interval
  <2>5. Cardinality(0 .. b) = c
    BY <2>1, <2>2, <2>4
  <2> QED
    BY <2>3, <2>5
<1>3. OnlineSeq = [i \in 1 .. n |->
                     CHOOSE c \in Online : Cardinality({d \in Online : d < c}) = i - 1]
  BY DEF OnlineSeq, n
<1>4. Len(OnlineSeq) = n
  BY <1>0, <1>3
<1>5. ASSUME NEW i \in 1 .. n
      PROVE  i - 1 \in Online /\ OnlineSeq[i] = i - 1
  <2>1. i - 1 \in Online
    BY <1>0, <1>1
  <2>2. \A c \in Online : Cardinality({d \in Online : d < c}) = i - 1 <=> c = i - 1
    BY <1>2
  <2>3. (CHOOSE c \in Online : Cardinality({d \in Online : d < c}) = i - 1) = i - 1
    BY <2>1, <2>2
  <2> QED
    BY <1>3, <2>1, <2>3
<1> QED
  BY <1>0, <1>4, <1>5

-----------------------------------------------------------------------------
(* Readers *)

\* Nobody is no reader; a reader at rest.
LEMMA ReaderFacts ==
  /\ Main \in Readers /\ Nobody \notin Readers
  /\ Idle \in Jobs /\ Idle.at = "idle" /\ NoRMID \in Selection
  /\ BWEvents = {2, 3}
<1>1. BWEvents = {2, 3}
  BY DEF BWEvents, MBT, MBL
<1>2. Main \in Readers
  BY DEF Readers
<1>3. Nobody \notin Readers
  BY <1>1 DEF Nobody, Readers, Main
<1>4. Idle \in Jobs /\ Idle.at = "idle" /\ NoRMID \in Selection
  BY DEF Idle, Jobs, Selection, NoRMID
<1> QED
  BY <1>1, <1>2, <1>3, <1>4

\* Before monitoring begins, what is said of readers holds.
LEMMA UntouchedReads ==
  ASSUME Untouched', pc' # "ready"
  PROVE  Reads'
<1>1. /\ evtsel' = [c \in CPUs |-> NoRMID] /\ memory_bw' = [e \in BWEvents |-> <<>>]
      /\ lock' = [c \in CPUs |-> Nobody] /\ job' = [r \in Readers |-> Idle]
      /\ got' = Nothing /\ cleanup' = -1
  BY DEF Untouched
<1>2. ReadTypes'
  BY <1>1, ReaderFacts DEF ReadTypes
<1>3. Extenders'
  <2>1. \A e \in BWEvents : memory_bw'[e] = <<>> /\ Len(memory_bw'[e]) = 0
    BY <1>1
  <2> QED
    BY <2>1 DEF Extenders
<1>4. \A r \in Readers : JobOK(r)'
  BY <1>1, ReaderFacts DEF JobOK, Locked
<1>5. Selected' /\ GotOwn'
  BY <1>1 DEF Selected, GotOwn
<1> QED
  BY <1>2, <1>3, <1>4, <1>5 DEF Reads

\* A reader begins with a core that is online, and its own.
LEMMA StartKeeps ==
  ASSUME Reads, NEW r \in Readers, NEW c \in Online, NEW e \in 1 .. 3, Start(r, c, c, e),
         ~machine.resctrl
  PROVE  Reads'
<1>0. /\ Online' = Online /\ machine' = machine /\ pc' = pc
      /\ \A d \in CPUs : AssignedRMID(d)' = AssignedRMID(d)
  BY SameTopology DEF Start, startupVars
<1>1. /\ evtsel' = evtsel /\ memory_bw' = memory_bw /\ lock' = lock /\ got' = got
      /\ cleanup' = cleanup
  BY DEF Start
<1>2. evtsel \in [CPUs -> Selection] /\ DOMAIN lock = CPUs /\ job \in [Readers -> Jobs]
  BY DEF Reads, ReadTypes
<1> DEFINE j == [Idle EXCEPT !.at = "lock", !.asked = c, !.core = c, !.event = e]
<1>3. job' = [job EXCEPT ![r] = j]
  BY DEF Start
<1>4. c \in Int /\ Online \subseteq CPUs
  BY CPUFacts
<1>5. j \in Jobs /\ j.at = "lock" /\ j.asked = c /\ j.core = c /\ j.event \in 1 .. 3
  <2>1. e \in 0 .. 3
    OBVIOUS
  <2>2. Idle \in Jobs
    BY ReaderFacts
  <2>3. j \in Jobs
    BY <1>4, <2>1, <2>2 DEF Jobs
  <2>4. j.at = "lock" /\ j.asked = c /\ j.core = c /\ j.event = e
    BY <2>2 DEF Jobs
  <2> QED
    BY <2>3, <2>4
<1> HIDE DEF j
<1>6. ReadTypes'
  BY <1>1, <1>2, <1>3, <1>5 DEF ReadTypes
<1>7. ASSUME NEW s \in Readers PROVE JobOK(s)'
  <2>1. CASE s = r
    BY <1>0, <1>2, <1>3, <1>5, <2>1 DEF JobOK, Locked
  <2>2. CASE s # r
    <3>1. job'[s] = job[s] /\ JobOK(s)
      BY <1>2, <1>3, <2>2 DEF Reads
    <3> QED
      BY <1>0, <1>1, <1>4, <3>1 DEF JobOK
  <2> QED
    BY <2>1, <2>2
<1>8. Extenders'
  BY <1>0, <1>1 DEF Reads, Extenders
<1>9. Selected'
  BY <1>0, <1>1, <1>4 DEF Reads, Selected
<1>10. GotOwn'
  BY <1>0, <1>1, <1>4 DEF Reads, GotOwn, ValueOf
<1> QED
  BY <1>6, <1>7, <1>8, <1>9, <1>10 DEF Reads

\* The steps that change one reader: its new job, and what stays as it was.
Advances(r, j) ==
  /\ UNCHANGED <<startupVars, memory_bw, cleanup>>
  /\ j \in Jobs /\ job' = [job EXCEPT ![r] = j]

\* Only the reader that advances needs to be looked at again, as far as the
\* registers and the lock of the others' cores are left alone.
LEMMA AdvanceKeeps ==
  ASSUME Reads, NEW r \in Readers, NEW j, Advances(r, j), JobOK(r)',
         ReadTypes', Selected', GotOwn',
         \A s \in Readers \ {r} : job[s].at \in Locked =>
            /\ lock'[job[s].core] = lock[job[s].core]
            /\ evtsel'[job[s].core] = evtsel[job[s].core]
  PROVE  Reads'
<1>0. /\ Online' = Online /\ machine' = machine /\ cleanup' = cleanup /\ memory_bw' = memory_bw
      /\ \A d \in CPUs : AssignedRMID(d)' = AssignedRMID(d)
  BY SameTopology DEF Advances, startupVars
<1>1. ASSUME NEW s \in Readers \ {r} PROVE JobOK(s)'
  <2>1. job'[s] = job[s] /\ JobOK(s) /\ job[s] \in Jobs
    BY DEF Advances, Reads, ReadTypes
  <2>2. Online \subseteq CPUs
    BY CPUFacts
  <2>3. job[s].at \in Locked => lock'[job[s].core] = s
    BY <2>1 DEF JobOK
  <2>4. job[s].at = "readctr" => job[s].at \in Locked
    BY DEF Locked
  <2> QED
    BY <1>0, <2>1, <2>2, <2>3, <2>4 DEF JobOK
<1>2. Extenders'
  BY <1>0 DEF Reads, Extenders
<1> QED
  BY <1>1, <1>2 DEF Reads

\* What registers and got say stays true when they do not change.
LEMMA RegistersSame ==
  ASSUME Reads, UNCHANGED <<startupVars, cleanup>>
  PROVE  /\ evtsel' = evtsel => Selected'
         /\ got' = got => GotOwn'
<1>0. /\ Online' = Online /\ machine' = machine /\ cleanup' = cleanup /\ pc' = pc
      /\ \A d \in CPUs : AssignedRMID(d)' = AssignedRMID(d)
  BY SameTopology DEF startupVars
<1>1. Online \subseteq CPUs
  BY CPUFacts
<1>2. evtsel' = evtsel => Selected'
  BY <1>0, <1>1 DEF Reads, Selected
<1>3. got' = got => GotOwn'
  BY <1>0, <1>1 DEF Reads, GotOwn, ValueOf
<1> QED
  BY <1>2, <1>3

\* The lock of an MSR handle is taken by one reader.
LEMMA LockKeeps ==
  ASSUME Reads, NEW r \in Readers, Lock(r)
  PROVE  Reads'
<1>0. /\ evtsel \in [CPUs -> Selection] /\ DOMAIN lock = CPUs /\ job \in [Readers -> Jobs]
      /\ job[r] \in Jobs /\ JobOK(r)
  BY DEF Reads, ReadTypes
<1> DEFINE j == [job[r] EXCEPT !.at = "readsel"]
<1>1. /\ UNCHANGED <<startupVars, memory_bw, cleanup>> /\ evtsel' = evtsel /\ got' = got
      /\ job[r].at = "lock" /\ lock[job[r].core] = Nobody
      /\ lock' = [lock EXCEPT ![job[r].core] = r] /\ job' = [job EXCEPT ![r] = j]
  BY DEF Lock
<1>2. /\ j \in Jobs /\ j.at = "readsel" /\ j.core = job[r].core /\ j.asked = job[r].asked
      /\ j.event = job[r].event
  BY <1>0 DEF Jobs
<1> HIDE DEF j
<1>3. Advances(r, j)
  BY <1>1, <1>2 DEF Advances
<1>4. /\ job[r].core \in Online /\ job[r].asked = job[r].core /\ job[r].event \in 1 .. 3
      /\ ~machine.resctrl
  BY <1>0, <1>1 DEF JobOK
<1>5. Online' = Online /\ machine' = machine /\ Online \subseteq CPUs
  BY <1>1, SameTopology, CPUFacts DEF startupVars
<1>6. lock'[job[r].core] = r /\ job'[r] = j
  BY <1>0, <1>1, <1>4, <1>5
<1>7. JobOK(r)'
  BY <1>2, <1>4, <1>5, <1>6 DEF JobOK, Locked
<1>8. ReadTypes'
  BY <1>0, <1>1, <1>2 DEF ReadTypes
<1>9. ASSUME NEW s \in Readers \ {r}, job[s].at \in Locked
      PROVE  lock'[job[s].core] = lock[job[s].core]
  <2>1. lock[job[s].core] = s /\ s # Nobody
    BY <1>9, ReaderFacts DEF Reads, JobOK
  <2> QED
    BY <1>0, <1>1, <2>1
<1> QED
  BY <1>1, <1>3, <1>7, <1>8, <1>9, AdvanceKeeps, RegistersSame

\* The selection of the core is read.
LEMMA ReadEvtselKeeps ==
  ASSUME Reads, NEW r \in Readers, ReadEvtsel(r), pc = "ready"
  PROVE  Reads'
<1>0. /\ evtsel \in [CPUs -> Selection] /\ DOMAIN lock = CPUs /\ job \in [Readers -> Jobs]
      /\ job[r] \in Jobs /\ JobOK(r)
  BY DEF Reads, ReadTypes
<1> DEFINE k == job[r].core
           j == [job[r] EXCEPT !.at = "writesel", !.sel = evtsel[k]]
<1>1. /\ UNCHANGED <<startupVars, memory_bw, cleanup>> /\ evtsel' = evtsel /\ got' = got
      /\ job[r].at = "readsel" /\ lock' = lock /\ job' = [job EXCEPT ![r] = j]
  BY DEF ReadEvtsel
<1>2. /\ k \in Online /\ job[r].asked = k /\ job[r].event \in 1 .. 3 /\ ~machine.resctrl
      /\ lock[k] = r
  BY <1>0, <1>1 DEF JobOK, Locked
<1>3. /\ Online' = Online /\ machine' = machine /\ Online \subseteq CPUs
      /\ cleanup' = cleanup
      /\ \A d \in CPUs : AssignedRMID(d)' = AssignedRMID(d)
  BY <1>1, SameTopology, CPUFacts DEF startupVars
<1>4. evtsel[k] \in Selection
  BY <1>0, <1>2, <1>3
<1>5. /\ j \in Jobs /\ j.at = "writesel" /\ j.core = k /\ j.asked = job[r].asked
      /\ j.event = job[r].event /\ j.sel = evtsel[k]
  BY <1>0, <1>4 DEF Jobs
<1>6. job'[r] = j
  BY <1>0, <1>1
<1> HIDE DEF j, k
<1>7. Advances(r, j)
  BY <1>1, <1>5 DEF Advances
<1>8. cleanup = -1 => \A c \in Online : evtsel[c].rmid = AssignedRMID(c)
  BY <1>2 DEF Reads, Selected
<1>9. cleanup = -1 => \A c \in Online : k = c => evtsel[k].rmid = AssignedRMID(c)'
  BY <1>3, <1>8
<1>10. JobOK(r)'
  BY <1>1, <1>2, <1>3, <1>5, <1>6, <1>9 DEF JobOK, Locked
<1>11. ReadTypes'
  BY <1>0, <1>1, <1>5 DEF ReadTypes
<1> QED
  BY <1>1, <1>7, <1>10, <1>11, AdvanceKeeps, RegistersSame

\* The event is selected, with the id that was read.
LEMMA WriteEvtselKeeps ==
  ASSUME Reads, NEW r \in Readers, WriteEvtsel(r)
  PROVE  Reads'
<1>0. /\ evtsel \in [CPUs -> Selection] /\ DOMAIN lock = CPUs /\ job \in [Readers -> Jobs]
      /\ job[r] \in Jobs /\ JobOK(r)
  BY DEF Reads, ReadTypes
<1> DEFINE k == job[r].core
           j == [job[r] EXCEPT !.at = "readctr"]
           v == [rmid |-> job[r].sel.rmid, event |-> job[r].event]
<1>1. /\ UNCHANGED <<startupVars, memory_bw, cleanup>> /\ got' = got
      /\ job[r].at = "writesel" /\ lock' = lock /\ job' = [job EXCEPT ![r] = j]
      /\ evtsel' = [evtsel EXCEPT ![k] = v]
  BY DEF WriteEvtsel
<1>2. /\ k \in Online /\ job[r].asked = k /\ job[r].event \in 1 .. 3 /\ ~machine.resctrl
      /\ lock[k] = r
  BY <1>0, <1>1 DEF JobOK, Locked
<1>3. /\ Online' = Online /\ machine' = machine /\ Online \subseteq CPUs
      /\ cleanup' = cleanup /\ pc' = pc
      /\ \A d \in CPUs : AssignedRMID(d)' = AssignedRMID(d)
  BY <1>1, SameTopology, CPUFacts DEF startupVars
<1>4. v \in Selection /\ v.rmid = job[r].sel.rmid /\ v.event = job[r].event
  BY <1>0 DEF Jobs, Selection
<1>5. /\ j \in Jobs /\ j.at = "readctr" /\ j.core = k /\ j.asked = job[r].asked
      /\ j.event = job[r].event
  BY <1>0 DEF Jobs
<1>6. job'[r] = j
  BY <1>0, <1>1
<1>a. cleanup = -1 => \A c \in Online : k = c => v.rmid = AssignedRMID(c)
  BY <1>0, <1>1, <1>4 DEF JobOK
<1>b. ASSUME NEW s \in Readers \ {r}, job[s].at \in Locked
      PROVE  job[s].core # k
  <2>1. lock[job[s].core] = s
    BY <1>b DEF Reads, JobOK
  <2> QED
    BY <1>2, <2>1
<1> HIDE DEF j, k, v
<1>7. Advances(r, j)
  BY <1>1, <1>5 DEF Advances
<1>8. evtsel' \in [CPUs -> Selection] /\ \A c \in CPUs : evtsel'[c] = IF c = k THEN v ELSE evtsel[c]
  BY <1>0, <1>1, <1>2, <1>3, <1>4
<1>9. JobOK(r)'
  BY <1>1, <1>2, <1>3, <1>4, <1>5, <1>6, <1>8 DEF JobOK, Locked
<1>10. ReadTypes'
  BY <1>0, <1>1, <1>5, <1>8 DEF ReadTypes
<1>11. Selected'
  BY <1>3, <1>8, <1>a DEF Reads, Selected
<1>12. GotOwn'
  BY <1>1, RegistersSame
<1>13. ASSUME NEW s \in Readers \ {r}, job[s].at \in Locked
       PROVE  evtsel'[job[s].core] = evtsel[job[s].core]
  <2>1. job[s].core # k
    BY <1>13, <1>b
  <2> QED
    BY <1>0, <1>1, <2>1
<1> QED
  BY <1>1, <1>7, <1>9, <1>10, <1>11, <1>12, <1>13, AdvanceKeeps

\* The value is read under the selection that was made, and the lock given back.
LEMMA ReadCtrKeeps ==
  ASSUME Reads, NEW r \in Readers, ReadCtr(r), pc = "ready"
  PROVE  Reads'
<1>0. /\ evtsel \in [CPUs -> Selection] /\ DOMAIN lock = CPUs /\ job \in [Readers -> Jobs]
      /\ job[r] \in Jobs /\ JobOK(r)
  BY DEF Reads, ReadTypes
<1> DEFINE k == job[r].core
           e == job[r].event
<1>1. /\ UNCHANGED <<startupVars, memory_bw, cleanup>> /\ evtsel' = evtsel
      /\ job[r].at = "readctr" /\ job' = [job EXCEPT ![r] = Idle]
      /\ lock' = [lock EXCEPT ![k] = Nobody]
      /\ got' = IF cleanup = -1 THEN [asked |-> job[r].asked, event |-> e, on |-> k,
                                      sel |-> evtsel[k]]
                ELSE Nothing
  BY DEF ReadCtr
<1>2. /\ k \in Online /\ job[r].asked = k /\ job[r].event \in 1 .. 3 /\ ~machine.resctrl
      /\ lock[k] = r
  BY <1>0, <1>1 DEF JobOK, Locked
<1>3. /\ Online' = Online /\ machine' = machine /\ Online \subseteq CPUs
      /\ cleanup' = cleanup /\ pc' = pc
      /\ \A d \in CPUs : AssignedRMID(d)' = AssignedRMID(d)
  BY <1>1, SameTopology, CPUFacts DEF startupVars
<1>4. cleanup = -1 => evtsel[k].event = e /\ evtsel[k].rmid = AssignedRMID(k)
  BY <1>0, <1>1, <1>2 DEF JobOK, Reads, Selected
<1>5. evtsel[k] \in Selection
  BY <1>0, <1>2, <1>3
<1>6. GotOwn'
  <2>1. CASE cleanup = -1
    <3>1. evtsel[k] = [rmid |-> AssignedRMID(k), event |-> e]
      BY <1>4, <1>5, <2>1 DEF Selection
    <3>2. got' = [asked |-> k, event |-> e, on |-> k,
                  sel |-> [rmid |-> AssignedRMID(k), event |-> e]]
      BY <1>1, <1>2, <2>1, <3>1
    <3>3. PICK c \in Online, n \in 1 .. 3 :
             got' = [asked |-> c, event |-> n, on |-> c,
                     sel |-> [rmid |-> AssignedRMID(c), event |-> n]]
      BY <1>2, <3>2
    <3>4. AssignedRMID(c)' = AssignedRMID(c) /\ c \in Online'
      BY <1>3
    <3> QED
      BY <3>3, <3>4 DEF GotOwn, ValueOf
  <2>2. CASE cleanup # -1
    BY <1>1, <2>2 DEF GotOwn
  <2> QED
    BY <2>1, <2>2
<1>7. Advances(r, Idle) /\ job'[r] = Idle
  BY <1>0, <1>1, ReaderFacts DEF Advances
<1>8. JobOK(r)'
  BY <1>7, ReaderFacts DEF JobOK, Locked
<1>9. ReadTypes'
  BY <1>0, <1>1, ReaderFacts DEF ReadTypes
<1>10. ASSUME NEW s \in Readers \ {r}, job[s].at \in Locked
       PROVE  lock'[job[s].core] = lock[job[s].core]
  <2>1. lock[job[s].core] = s
    BY <1>10 DEF Reads, JobOK
  <2>2. job[s].core # k
    BY <1>2, <2>1
  <2> QED
    BY <1>0, <1>1, <2>2
<1>11. Selected'
  BY <1>1, RegistersSame
<1> QED
  BY <1>1, <1>6, <1>7, <1>8, <1>9, <1>10, <1>11, AdvanceKeeps

\* A step that leaves the readers and the extenders alone.
LEMMA QuietKeeps ==
  ASSUME Reads, UNCHANGED <<startupVars, memory_bw, lock, job>>, evtsel' \in [CPUs -> Selection],
         (cleanup' = cleanup /\ evtsel' = evtsel) \/ cleanup' # -1, GotOwn'
  PROVE  Reads'
<1>0. /\ Online' = Online /\ machine' = machine /\ pc' = pc /\ Online \subseteq CPUs
      /\ memory_bw' = memory_bw /\ lock' = lock /\ job' = job
      /\ \A d \in CPUs : AssignedRMID(d)' = AssignedRMID(d)
  BY SameTopology, CPUFacts DEF startupVars
<1>1. ReadTypes'
  BY <1>0 DEF Reads, ReadTypes
<1>2. Extenders'
  BY <1>0 DEF Reads, Extenders
<1>3. ASSUME NEW r \in Readers PROVE JobOK(r)'
  <2>1. JobOK(r)
    BY DEF Reads
  <2> QED
    BY <1>0, <2>1 DEF JobOK
<1>4. Selected'
  BY <1>0 DEF Reads, Selected
<1> QED
  BY <1>1, <1>2, <1>3, <1>4 DEF Reads

\* initRDT selects the id of every online core and queues the extenders.
LEMMA InitRDTKeeps ==
  ASSUME Untouched, OnlineFirst, initRDT
  PROVE  Reads'
<1>1. /\ job' = [r \in Readers |-> Idle] /\ lock' = [c \in CPUs |-> Nobody] /\ got' = Nothing
      /\ evtsel = [c \in CPUs |-> NoRMID] /\ machine' = machine /\ topology' = topology
      /\ ~machine.resctrl
      /\ evtsel' = [c \in CPUs |-> IF c \in Online THEN [rmid |-> AssignedRMID(c), event |-> 0]
                                   ELSE evtsel[c]]
      /\ memory_bw' = [e \in BWEvents |-> IF machine.mbm THEN OnlineSeq ELSE <<>>]
  BY DEF Untouched, initRDT, RestOfPCM
<1>2. /\ Online' = Online /\ Online \subseteq CPUs
      /\ \A d \in CPUs : AssignedRMID(d)' = AssignedRMID(d)
  BY <1>1, SameTopology, CPUFacts
<1>3. \A c \in CPUs : AssignedRMID(c) \in Int
  BY AssignedType
<1>4. /\ evtsel' \in [CPUs -> Selection]
      /\ \A c \in Online : evtsel'[c].rmid = AssignedRMID(c)
  BY <1>1, <1>2, <1>3, ReaderFacts DEF Selection
<1>5. ReadTypes'
  BY <1>1, <1>4, ReaderFacts DEF ReadTypes
<1>6. Extenders'
  <2>1. \A e \in BWEvents : memory_bw'[e] = OnlineSeq \/ memory_bw'[e] = <<>>
    BY <1>1
  <2>2. Len(<<>>) = 0
    OBVIOUS
  <2>3. /\ Len(OnlineSeq) \in Nat
        /\ \A i \in 1 .. Len(OnlineSeq) : i - 1 \in Online /\ OnlineSeq[i] = i - 1
    BY OnlineSeqFirst
  <2> QED
    BY <1>1, <1>2, <2>1, <2>2, <2>3 DEF Extenders
<1>7. ASSUME NEW r \in Readers PROVE JobOK(r)'
  BY <1>1, ReaderFacts DEF JobOK, Locked
<1>8. Selected' /\ GotOwn'
  BY <1>1, <1>2, <1>4 DEF Selected, GotOwn
<1> QED
  BY <1>5, <1>6, <1>7, <1>8 DEF Reads

\* Resctrl::init leaves the monitoring registers to the kernel.
LEMMA ResctrlInitKeeps ==
  ASSUME Untouched, ResctrlInit
  PROVE  Reads'
<1>1. /\ job' = [r \in Readers |-> Idle] /\ lock' = [c \in CPUs |-> Nobody] /\ got' = Nothing
      /\ evtsel' = [c \in CPUs |-> NoRMID] /\ machine' = machine /\ machine.resctrl
      /\ memory_bw' = [e \in BWEvents |-> <<>>]
  BY DEF Untouched, ResctrlInit, RestOfPCM
<1>2. ReadTypes'
  BY <1>1, ReaderFacts DEF ReadTypes
<1>3. Extenders'
  <2>1. \A e \in BWEvents : memory_bw'[e] = <<>> /\ Len(memory_bw'[e]) = 0
    BY <1>1
  <2> QED
    BY <2>1 DEF Extenders
<1>4. ASSUME NEW r \in Readers PROVE JobOK(r)'
  BY <1>1, ReaderFacts DEF JobOK, Locked
<1>5. Selected' /\ GotOwn'
  BY <1>1 DEF Selected, GotOwn
<1> QED
  BY <1>2, <1>3, <1>4, <1>5 DEF Reads

\* getCoreCounterState and the watchdogs begin to read their own cores.
LEMMA CallsKeep ==
  ASSUME Reads, ReadL3Occupancy \/ readAndAggregateMemoryBWCounters \/ Watchdog
  PROVE  Reads'
<1>0. Extenders
  BY DEF Reads
<1>1. CASE ReadL3Occupancy
  <2>1. PICK c \in Online : Start(Main, c, c, 1)
    BY <1>1 DEF ReadL3Occupancy, L3Occ
  <2>2. ~machine.resctrl
    BY <1>1 DEF ReadL3Occupancy
  <2> QED
    BY <2>1, <2>2, StartKeeps, ReaderFacts
<1>2. CASE readAndAggregateMemoryBWCounters
  <2>1. PICK c \in Online, e \in BWEvents :
           c < Len(memory_bw[e]) /\ Start(Main, c, memory_bw[e][c + 1], e)
    BY <1>2 DEF readAndAggregateMemoryBWCounters
  <2>2. ~machine.resctrl
    BY <1>2 DEF readAndAggregateMemoryBWCounters
  <2>3. c \in Nat /\ Len(memory_bw[e]) \in Nat
    BY <1>0, CPUFacts DEF Extenders
  <2>4. c + 1 \in 1 .. Len(memory_bw[e]) /\ (c + 1) - 1 = c
    BY <2>1, <2>3
  <2>5. memory_bw[e][c + 1] = c
    BY <1>0, <2>4 DEF Extenders
  <2>6. Start(Main, c, c, e) /\ e \in 1 .. 3
    BY <2>1, <2>5, ReaderFacts
  <2> QED
    BY <2>2, <2>6, StartKeeps, ReaderFacts
<1>3. CASE Watchdog
  <2>0. PICK e \in BWEvents : \E i \in 1 .. Len(memory_bw[e]) :
           Start(<<e, i>>, memory_bw[e][i], memory_bw[e][i], e)
    BY <1>3 DEF Watchdog
  <2>1. PICK i \in 1 .. Len(memory_bw[e]) :
           Start(<<e, i>>, memory_bw[e][i], memory_bw[e][i], e)
    BY <2>0
  <2>2. /\ Len(memory_bw[e]) \in Nat /\ i \in Nat
        /\ ~machine.resctrl /\ i - 1 \in Online /\ memory_bw[e][i] = i - 1
    BY <1>0 DEF Extenders
  <2>3. i \in 1 .. Cardinality(CPUs)
    BY <2>2, CPUFacts DEF CleanupDone
  <2>4. <<e, i>> \in Readers
    BY <2>3 DEF Readers
  <2>5. PICK c \in Online : c = i - 1
    BY <2>2
  <2>6. Start(<<e, i>>, c, c, e) /\ e \in 1 .. 3
    BY <2>1, <2>2, <2>5, ReaderFacts
  <2> QED
    BY <2>2, <2>4, <2>6, StartKeeps
<1> QED
  BY <1>1, <1>2, <1>3

\* The kernel reads for getMetric, under the id of the core.
LEMMA GetMetricKeeps ==
  ASSUME Reads, getMetric
  PROVE  Reads'
<1>1. PICK c \in Online, e \in {L3Occ, MBT, MBL} :
         got' = IF c \in files THEN [asked |-> c, event |-> e, on |-> c,
                                     sel |-> [rmid |-> AssignedRMID(c), event |-> e]]
                ELSE Nothing
  BY DEF getMetric
<1>2. e \in 1 .. 3
  BY DEF L3Occ, MBT, MBL
<1>3. UNCHANGED <<startupVars, evtsel, memory_bw, lock, job, cleanup>>
  BY DEF getMetric
<1>4. /\ Online' = Online /\ Online \subseteq CPUs
      /\ \A d \in CPUs : AssignedRMID(d)' = AssignedRMID(d)
  BY <1>3, SameTopology, CPUFacts DEF startupVars
<1>5. GotOwn'
  BY <1>1, <1>2, <1>4 DEF GotOwn, ValueOf
<1>6. evtsel' \in [CPUs -> Selection] /\ cleanup' = cleanup /\ evtsel' = evtsel
  BY <1>3 DEF Reads, ReadTypes
<1> QED
  BY <1>3, <1>5, <1>6, QuietKeeps

\* cleanupRDT takes no lock; what is read meanwhile is not reported.
LEMMA CleanupKeeps ==
  ASSUME Reads, StartCleanupRDT \/ cleanupRDT \/ ResctrlCleanup
  PROVE  Reads'
<1>0. evtsel \in [CPUs -> Selection] /\ -1 \notin CPUs /\ \A c \in CPUs : c \in Nat
  BY CPUFacts DEF Reads, ReadTypes
<1>1. UNCHANGED <<startupVars, memory_bw, lock, job>> /\ cleanup' # -1
  BY <1>0 DEF StartCleanupRDT, cleanupRDT, ResctrlCleanup
<1>2. evtsel' \in [CPUs -> Selection]
  BY <1>0, ReaderFacts DEF StartCleanupRDT, cleanupRDT, ResctrlCleanup
<1>3. GotOwn'
  <2>1. got' = got \/ got' = Nothing
    BY DEF StartCleanupRDT, cleanupRDT, ResctrlCleanup
  <2>2. /\ Online' = Online /\ Online \subseteq CPUs
        /\ \A d \in CPUs : AssignedRMID(d)' = AssignedRMID(d)
    BY <1>1, SameTopology, CPUFacts DEF startupVars
  <2> QED
    BY <2>1, <2>2 DEF Reads, GotOwn, ValueOf
<1> QED
  BY <1>1, <1>2, <1>3, QuietKeeps

\* Every step of PCM and of its watchdogs preserves the invariant of readers.
LEMMA ReadStep ==
  ASSUME ReadInv, [Next]_vars
  PROVE  ReadInv'
<1>0. Untouched /\ (OnlineFirst => Reads) /\ Untouched'
  BY UntouchedStep DEF ReadInv
<1>1. CASE pc' # "ready"
  BY <1>0, <1>1, UntouchedReads DEF ReadInv
<1>2. CASE initRDT \/ ResctrlInit
  <2>1. topology' = topology
    BY <1>2 DEF initRDT, ResctrlInit, RestOfPCM
  <2>2. OnlineFirst' <=> OnlineFirst
    BY <2>1, SameTopology
  <2> QED
    BY <1>0, <1>2, <2>2, InitRDTKeeps, ResctrlInitKeeps DEF ReadInv
<1>3. CASE pc' = "ready" /\ ~initRDT /\ ~ResctrlInit
  <2>1. ~StartupNext
    BY <1>3, StartupMoves
  <2>2. UNCHANGED startupVars
    BY <1>3, <2>1, ReadMoves DEF Next, vars, StartCleanupRDT, cleanupRDT, ResctrlCleanup
  <2>3. pc = "ready" /\ (OnlineFirst' <=> OnlineFirst)
    BY <1>3, <2>2, SameTopology DEF startupVars
  <2> SUFFICES ASSUME Reads PROVE Reads'
    BY <1>0, <2>3 DEF ReadInv
  <2>4. ASSUME NEW r \in Readers, Lock(r) \/ ReadEvtsel(r) \/ WriteEvtsel(r) \/ ReadCtr(r)
        PROVE  Reads'
    BY <2>3, <2>4, LockKeeps, ReadEvtselKeeps, WriteEvtselKeeps, ReadCtrKeeps
  <2>5. CASE UNCHANGED vars
    <3>1. UNCHANGED <<startupVars, memory_bw, lock, job, evtsel, cleanup, got>>
      BY <2>5 DEF vars, rdtVars
    <3>2. GotOwn' /\ evtsel' \in [CPUs -> Selection]
      BY <3>1, RegistersSame DEF Reads, ReadTypes
    <3> QED
      BY <3>1, <3>2, QuietKeeps
  <2> QED
    BY <1>3, <2>1, <2>4, <2>5, CallsKeep, GetMetricKeeps, CleanupKeeps DEF Next
<1> QED
  BY <1>1, <1>2, <1>3

\* On a machine of up to 1024 logical CPUs a value reported for a core and an
\* event was counted for that core and event, under an id that no other online
\* core of its socket has.
THEOREM ValuesAreOfCores ==
  ASSUME IdsSuffice
  PROVE  Spec => []MonitoredCore
<1>1. Init => ReadInv
  <2> SUFFICES ASSUME Init PROVE ReadInv
    OBVIOUS
  <2>1. /\ evtsel = [c \in CPUs |-> NoRMID] /\ memory_bw = [e \in BWEvents |-> <<>>]
        /\ lock = [c \in CPUs |-> Nobody] /\ job = [r \in Readers |-> Idle]
        /\ got = Nothing /\ pc = "detectModel"
    BY DEF Init, RDTInit, StartupInit
  <2>2. Untouched
    BY DEF Init, RDTInit, Untouched
  <2>3. ReadTypes
    BY <2>1, ReaderFacts DEF ReadTypes
  <2>4. Extenders
    <3>1. \A e \in BWEvents : memory_bw[e] = <<>> /\ Len(memory_bw[e]) = 0
      BY <2>1
    <3> QED
      BY <3>1 DEF Extenders
  <2>5. \A r \in Readers : JobOK(r)
    BY <2>1, ReaderFacts DEF JobOK, Locked
  <2>6. Selected /\ GotOwn
    BY <2>1 DEF Selected, GotOwn
  <2> QED
    BY <2>2, <2>3, <2>4, <2>5, <2>6 DEF ReadInv, Reads
<1>2. ReadInv /\ [Next]_vars => ReadInv'
  BY ReadStep
<1>3. ReadInv => MonitoredCore
  <2> SUFFICES ASSUME ReadInv, OnlineFirst, got # Nothing
               PROVE  /\ got.on = got.asked
                      /\ got.sel = [rmid |-> AssignedRMID(got.asked), event |-> got.event]
                      /\ \A d \in Online \ {got.asked} :
                           topology[d].socket = topology[got.asked].socket =>
                             AssignedRMID(d) # got.sel.rmid
    BY DEF MonitoredCore, ValueIsOfCore
  <2>1. PICK c \in Online, e \in 1 .. 3 : got = ValueOf(c, e)
    BY DEF ReadInv, Reads, GotOwn
  <2>2. /\ got.asked = c /\ got.on = c /\ got.event = e
        /\ got.sel = [rmid |-> AssignedRMID(c), event |-> e] /\ got.sel.rmid = AssignedRMID(c)
    BY <2>1 DEF ValueOf
  <2>3. \A d \in Online \ {c} :
           topology[d].socket = topology[c].socket => AssignedRMID(d) # AssignedRMID(c)
    BY IdsSuffice, AssignedDiffer
  <2> QED
    BY <2>2, <2>3
<1> QED
  BY <1>1, <1>2, <1>3, PTL DEF Spec

-----------------------------------------------------------------------------
(* The arithmetic of bit fields. *)

\* Quotient and remainder of a number with a low part below A.
LEMMA DivMod ==
  ASSUME NEW A \in Nat \ {0}, NEW t \in 0 .. A - 1, NEW q \in Nat
  PROVE  (t + A * q) \div A = q /\ (t + A * q) % A = t
  OBVIOUS

\* A power of two is the number of subsets of an interval, so it is positive.
LEMMA PowerPositive ==
  ASSUME NEW n \in Nat
  PROVE  2^n \in Nat \ {0}
<1>1. IsFiniteSet(1 .. n) /\ Cardinality(1 .. n) = n
  BY FS_Interval
<1>2. IsFiniteSet(SUBSET (1 .. n)) /\ Cardinality(SUBSET (1 .. n)) = 2^n
  BY <1>1, FS_SUBSET
<1>3. SUBSET (1 .. n) # {}
  OBVIOUS
<1> QED
  BY <1>2, <1>3, FS_CardinalityType, FS_EmptySet

\* A subset of 1 .. a + b is a subset of 1 .. a and one of a + 1 .. a + b.
LEMMA PowerSum ==
  ASSUME NEW a \in Nat, NEW b \in Nat
  PROVE  2^(a + b) = 2^a * 2^b
<1> DEFINE S == 1 .. a
           T == (a + 1) .. (a + b)
           f == [x \in (SUBSET S) \X (SUBSET T) |-> x[1] \cup x[2]]
<1>1. IsFiniteSet(S) /\ Cardinality(S) = a /\ IsFiniteSet(T) /\ Cardinality(T) = b
  BY FS_Interval
<1>2. IsFiniteSet(1 .. a + b) /\ Cardinality(1 .. a + b) = a + b
  <2>1. 1 \in Int /\ a + b \in Int /\ a + b >= 0
    OBVIOUS
  <2>2. IsFiniteSet(1 .. a + b)
        /\ Cardinality(1 .. a + b) = IF 1 > a + b THEN 0 ELSE (a + b) - 1 + 1
    BY <2>1, FS_Interval
  <2> QED
    BY <2>1, <2>2
<1>3. /\ IsFiniteSet(SUBSET S) /\ Cardinality(SUBSET S) = 2^a
      /\ IsFiniteSet(SUBSET T) /\ Cardinality(SUBSET T) = 2^b
      /\ IsFiniteSet(SUBSET (1 .. a + b)) /\ Cardinality(SUBSET (1 .. a + b)) = 2^(a + b)
  BY <1>1, <1>2, FS_SUBSET
<1>4. /\ IsFiniteSet((SUBSET S) \X (SUBSET T))
      /\ Cardinality((SUBSET S) \X (SUBSET T)) = 2^a * 2^b
  <2> HIDE DEF S, T, f
  <2>1. /\ IsFiniteSet((SUBSET S) \X (SUBSET T))
        /\ Cardinality((SUBSET S) \X (SUBSET T)) = Cardinality(SUBSET S) * Cardinality(SUBSET T)
    BY <1>3, FS_Product
  <2> QED
    BY <2>1, <1>3
<1>5. S \cap T = {} /\ S \cup T = 1 .. a + b
  OBVIOUS
<1>6. f \in Bijection((SUBSET S) \X (SUBSET T), SUBSET (1 .. a + b))
  <2> HIDE DEF S, T
  <2>1. f \in [(SUBSET S) \X (SUBSET T) -> SUBSET (1 .. a + b)]
    BY <1>5
  <2>2. \A x, y \in (SUBSET S) \X (SUBSET T) : f[x] = f[y] => x = y
    <3> SUFFICES ASSUME NEW x \in (SUBSET S) \X (SUBSET T), NEW y \in (SUBSET S) \X (SUBSET T),
                        x[1] \cup x[2] = y[1] \cup y[2]
                 PROVE  x[1] = y[1] /\ x[2] = y[2]
      OBVIOUS
    <3>1. x[1] \subseteq S /\ y[1] \subseteq S /\ x[2] \subseteq T /\ y[2] \subseteq T
      OBVIOUS
    <3> QED
      BY <3>1, <1>5
  <2>3. \A u \in SUBSET (1 .. a + b) : \E x \in (SUBSET S) \X (SUBSET T) : f[x] = u
    <3> TAKE u \in SUBSET (1 .. a + b)
    <3>1. <<u \cap S, u \cap T>> \in (SUBSET S) \X (SUBSET T)
      OBVIOUS
    <3>2. f[<<u \cap S, u \cap T>>] = (u \cap S) \cup (u \cap T)
      BY <3>1
    <3> QED
      BY <3>1, <3>2, <1>5
  <2> HIDE DEF f
  <2> QED
    BY <2>1, <2>2, <2>3 DEF Bijection, Injection, Surjection, IsInjective
<1> QED
  BY <1>3, <1>4, <1>6, FS_Bijection DEF ExistsBijection

\* Two levels of a number, the lower one below A, are one level below A * B.
LEMMA Nest ==
  ASSUME NEW A \in Nat \ {0}, NEW B \in Nat \ {0}, NEW t \in 0 .. A - 1, NEW k \in 0 .. B - 1
  PROVE  /\ A * B \in Nat \ {0} /\ t + A * k \in 0 .. A * B - 1
         /\ \A x \in Nat : t + A * (k + B * x) = (t + A * k) + (A * B) * x
<1>1. A * B \in Nat \ {0} /\ A * k \in Nat
  OBVIOUS
<1>2. A * B = A * k + A * (B - k) /\ A * (B - k) >= A
  OBVIOUS
<1>3. t + A * k \in 0 .. A * B - 1
  BY <1>1, <1>2
<1>4. ASSUME NEW x \in Nat PROVE t + A * (k + B * x) = (t + A * k) + (A * B) * x
  OBVIOUS
<1> QED
  BY <1>1, <1>3, <1>4

\* Four levels of a number, taken apart by division.
Levels4(A, B, D, t, k, d, p, id) ==
  /\ id \div A = k + B * (d + D * p)
  /\ (id \div A) % B = k
  /\ (id \div A) % (B * D) = k + B * d
  /\ (id \div (A * B)) % D = d
  /\ id \div ((A * B) * D) = p
  /\ id \div (A * (B * D)) = p

\* Division takes the levels apart when each number fits its level.
LEMMA Levelled ==
  ASSUME NEW A \in Nat \ {0}, NEW B \in Nat \ {0}, NEW D \in Nat \ {0},
         NEW t \in 0 .. A - 1, NEW k \in 0 .. B - 1, NEW d \in 0 .. D - 1, NEW p \in Nat,
         NEW id, id = t + A * (k + B * (d + D * p))
  PROVE  Levels4(A, B, D, t, k, d, p, id)
<1>1. d + D * p \in Nat /\ k + B * (d + D * p) \in Nat
  OBVIOUS
<1>2. id \div A = k + B * (d + D * p)
  BY <1>1, DivMod
<1>3. (k + B * (d + D * p)) % B = k
  BY <1>1, DivMod
<1>4. /\ B * D \in Nat \ {0} /\ k + B * d \in 0 .. B * D - 1
      /\ k + B * (d + D * p) = (k + B * d) + (B * D) * p
  BY Nest
<1>5. ((k + B * d) + (B * D) * p) % (B * D) = k + B * d
  BY <1>4, DivMod
<1>6. /\ A * B \in Nat \ {0} /\ t + A * k \in 0 .. A * B - 1
      /\ id = (t + A * k) + (A * B) * (d + D * p)
  BY <1>1, Nest
<1>7. id \div (A * B) = d + D * p
  BY <1>1, <1>6, DivMod
<1>8. (d + D * p) % D = d
  BY DivMod
<1>9. /\ A * (B * D) \in Nat \ {0} /\ t + A * (k + B * d) \in 0 .. A * (B * D) - 1
      /\ id = (t + A * (k + B * d)) + (A * (B * D)) * p
  BY <1>4, Nest
<1>10. id \div (A * (B * D)) = p
  BY <1>9, DivMod
<1>11. (A * B) * D = A * (B * D)
  OBVIOUS
<1> QED
  BY <1>2, <1>3, <1>4, <1>5, <1>7, <1>8, <1>10, <1>11 DEF Levels4

\* Bits above a cache that whole cores share do not depend on the thread.
AboveQuotient(A, J, t, q) == (t + A * q) \div (A * J) = q \div J

\* A number above the threads, shifted further, loses the threads.
LEMMA AboveThreads ==
  ASSUME NEW A \in Nat \ {0}, NEW J \in Nat \ {0}, NEW t \in 0 .. A - 1, NEW q \in Nat
  PROVE  AboveQuotient(A, J, t, q)
<1> DEFINE x == q \div J
           y == q % J
<1>1. x \in Nat /\ y \in 0 .. J - 1 /\ q = y + J * x
  OBVIOUS
<1> HIDE DEF x, y
<1>2. /\ A * J \in Nat \ {0} /\ t + A * y \in 0 .. A * J - 1
      /\ t + A * (y + J * x) = (t + A * y) + (A * J) * x
  BY <1>1, Nest
<1>3. ((t + A * y) + (A * J) * x) \div (A * J) = x
  BY <1>1, <1>2, DivMod
<1> QED
  BY <1>1, <1>2, <1>3 DEF x, AboveQuotient

\* The levels that leaf 0x1F reports.
LEMMA LeafLevels ==
  ASSUME NEW m, m.layout.leaf1F, {m.layout.smt, m.layout.core, m.layout.die} \subseteq Nat
  PROVE  LET w == m.layout
         IN /\ HasDomain(m, "Core")
            /\ topologyDomain(m, "Core") = [lo |-> w.smt, next |-> w.smt + w.core]
            /\ HasDomain(m, "Die") <=> w.die > 0
            /\ w.die > 0 => topologyDomain(m, "Die") =
                              [lo |-> w.smt + w.core, next |-> w.smt + w.core + w.die]
            /\ PackageShift(m) = w.smt + w.core + w.die
<1> DEFINE w == m.layout
           L == Levels(m)
           one == <<"LogicalProcessor", w.smt>>
           two == <<"Core", w.smt + w.core>>
           three == <<"Die", w.smt + w.core + w.die>>
<1>1. w.smt \in Nat /\ w.core \in Nat /\ w.die \in Nat
  OBVIOUS
<1>2. CASE w.die > 0
  <2>1. L = <<one, two>> \o <<three>>
    BY <1>2 DEF Levels
  <2>2. <<one, two>> \in Seq({one, two, three}) /\ <<three>> \in Seq({one, two, three})
    OBVIOUS
  <2>3. DOMAIN L = 1 .. 3 /\ L[1] = one /\ L[2] = two /\ L[3] = three /\ Len(L) = 3
    <3> HIDE DEF one, two, three, L
    <3>1. L \in Seq({one, two, three}) /\ Len(L) = 3
      BY <2>1, <2>2, ConcatProperties
    <3>2. L[1] = one /\ L[2] = two /\ L[3] = three
      BY <2>1, <2>2, ConcatProperties
    <3> QED
      BY <3>1, <3>2
  <2> HIDE DEF L
  <2>4. /\ \A i \in DOMAIN L : L[i][1] = "Core" <=> i = 2
        /\ \A i \in DOMAIN L : L[i][1] = "Die" <=> i = 3
    BY <2>3
  <2>5. /\ (CHOOSE i \in DOMAIN L : L[i][1] = "Core") = 2
        /\ (CHOOSE i \in DOMAIN L : L[i][1] = "Die") = 3
    BY <2>3, <2>4
  <2> QED
    BY <1>1, <1>2, <2>3, <2>4, <2>5 DEF HasDomain, topologyDomain, PackageShift, L
<1>3. CASE w.die = 0
  <2>1. L = <<one, two>>
    BY <1>3 DEF Levels
  <2>2. DOMAIN L = 1 .. 2 /\ L[1] = one /\ L[2] = two /\ Len(L) = 2
    BY <2>1
  <2> HIDE DEF L
  <2>3. /\ \A i \in DOMAIN L : L[i][1] = "Core" <=> i = 2
        /\ \A i \in DOMAIN L : L[i][1] # "Die"
    BY <2>2
  <2>4. (CHOOSE i \in DOMAIN L : L[i][1] = "Core") = 2
    BY <2>2, <2>3
  <2> QED
    BY <1>1, <1>3, <2>2, <2>3, <2>4 DEF HasDomain, topologyDomain, PackageShift, L
<1> QED
  BY <1>1, <1>2, <1>3

\* The number of a core above the threads in the APIC id.
CoreNumber(m, c) ==
  m.place[c].core
    + 2^m.layout.core * (m.place[c].die + 2^m.layout.die * m.place[c].package)

\* The entry of a CPU: the package is found whole, the tile depends on the core
\* alone, core and die are told apart or, with leaf 0xB, make up one number.
LEMMA EntryFaithful ==
  ASSUME NEW m, WellFormed(m), NEW c \in CPUs
  PROVE  LET e == populateEntry(m, c)
             p == m.place[c]
             w == m.layout
         IN /\ e = [thread |-> e.thread, core |-> e.core, tile |-> e.tile, die |-> e.die,
                    socket |-> e.socket]
            /\ e.socket = p.package
            /\ e.tile = CoreNumber(m, c) \div 2^(w.l2 - w.smt)
            /\ w.leaf1F => e.core = p.core /\ e.die = p.die
            /\ ~w.leaf1F => e.core = p.core + 2^w.core * p.die /\ e.die = -1
<1> DEFINE e == populateEntry(m, c)
           p == m.place[c]
           w == m.layout
           A == 2^w.smt
           B == 2^w.core
           D == 2^w.die
           id == APICID(m, c)
<1>1. /\ w.smt \in Nat /\ w.core \in Nat /\ w.die \in Nat /\ w.l2 \in Nat /\ w.smt <= w.l2
      /\ p.thread \in 0 .. A - 1 /\ p.core \in 0 .. B - 1 /\ p.die \in 0 .. D - 1
      /\ p.package \in Nat
      /\ IF w.leaf1F THEN w.core > 0 ELSE w.coreReported
  BY DEF WellFormed
<1>2. /\ A \in Nat \ {0} /\ B \in Nat \ {0} /\ D \in Nat \ {0}
      /\ id = p.thread + A * (p.core + B * (p.die + D * p.package))
  BY <1>1, PowerPositive DEF APICID
<1>3. /\ 2^(w.smt + w.core) = A * B /\ 2^(w.core + w.die) = B * D
      /\ 2^(w.smt + w.core + w.die) = (A * B) * D
      /\ 2^(w.smt + (w.core + w.die)) = A * (B * D)
  <2>1. w.smt + w.core \in Nat /\ w.core + w.die \in Nat
    BY <1>1
  <2>2. 2^((w.smt + w.core) + w.die) = 2^(w.smt + w.core) * D
    BY <1>1, <2>1, PowerSum
  <2>3. 2^(w.smt + (w.core + w.die)) = A * 2^(w.core + w.die)
    BY <1>1, <2>1, PowerSum
  <2> QED
    BY <1>1, <2>2, <2>3, PowerSum
<1>4. /\ id \div A = p.core + B * (p.die + D * p.package)
      /\ (id \div A) % B = p.core
      /\ (id \div A) % (B * D) = p.core + B * p.die
      /\ (id \div (A * B)) % D = p.die
      /\ id \div ((A * B) * D) = p.package
      /\ id \div (A * (B * D)) = p.package
  <2>1. Levels4(A, B, D, p.thread, p.core, p.die, p.package, id)
    <3> HIDE DEF A, B, D, id, p
    <3> QED
      BY <1>1, <1>2, Levelled
  <2> QED
    BY <2>1 DEF Levels4
<1>5. Above(id, w.l2) = CoreNumber(m, c) \div 2^(w.l2 - w.smt)
  <2>1. w.l2 - w.smt \in Nat /\ w.smt + (w.l2 - w.smt) = w.l2
    BY <1>1
  <2>2. 2^w.l2 = A * 2^(w.l2 - w.smt) /\ 2^(w.l2 - w.smt) \in Nat \ {0}
    BY <1>1, <2>1, PowerSum, PowerPositive
  <2>3. CoreNumber(m, c) \in Nat /\ id = p.thread + A * CoreNumber(m, c)
    BY <1>1, <1>2 DEF CoreNumber
  <2> HIDE DEF A, id
  <2>4. AboveQuotient(A, 2^(w.l2 - w.smt), p.thread, CoreNumber(m, c))
    BY <1>1, <1>2, <2>2, <2>3, AboveThreads
  <2> QED
    BY <2>2, <2>3, <2>4 DEF Above, AboveQuotient
<1> HIDE DEF A, B, D, id
<1>6. CASE w.leaf1F
  <2>1. e = [thread |-> getID(m, id, "LogicalProcessor"), core |-> getID(m, id, "Core"),
             tile |-> Above(id, w.l2), die |-> getID(m, id, "Die"),
             socket |-> Above(id, PackageShift(m))]
    BY <1>6 DEF populateEntry, id
  <2>2. Above(id, PackageShift(m)) = p.package
    BY <1>1, <1>3, <1>4, <1>6, LeafLevels DEF Above
  <2>3. getID(m, id, "Core") = p.core
    <3>1. /\ HasDomain(m, "Core")
          /\ topologyDomain(m, "Core") = [lo |-> w.smt, next |-> w.smt + w.core]
      BY <1>1, <1>6, LeafLevels
    <3>2. w.smt + w.core > w.smt /\ (w.smt + w.core - 1) - w.smt + 1 = w.core
      BY <1>1, <1>6
    <3> DEFINE d == topologyDomain(m, "Core")
    <3>3. d.lo = w.smt /\ d.next = w.smt + w.core /\ d.next > d.lo
          /\ d.next - 1 = w.smt + w.core - 1
      BY <1>1, <3>1, <3>2
    <3>4. getID(m, id, "Core") = Bits(id, d.lo, d.next - 1)
      BY <3>1, <3>3 DEF getID
    <3>5. Bits(id, w.smt, w.smt + w.core - 1) = (id \div A) % B
      BY <3>2 DEF Bits, Above, A, B
    <3> QED
      BY <3>3, <3>5, <3>4, <1>4
  <2>4. getID(m, id, "Die") = p.die
    <3>1. CASE w.die > 0
      <4>1. HasDomain(m, "Die") /\ topologyDomain(m, "Die") =
               [lo |-> w.smt + w.core, next |-> w.smt + w.core + w.die]
        BY <1>1, <1>6, <3>1, LeafLevels
      <4>2. /\ w.smt + w.core + w.die > w.smt + w.core
            /\ (w.smt + w.core + w.die - 1) - (w.smt + w.core) + 1 = w.die
        BY <1>1, <3>1
      <4> DEFINE d == topologyDomain(m, "Die")
      <4>3. /\ d.lo = w.smt + w.core /\ d.next = w.smt + w.core + w.die /\ d.next > d.lo
            /\ d.next - 1 = w.smt + w.core + w.die - 1
        BY <1>1, <4>1, <4>2
      <4>4. getID(m, id, "Die") = Bits(id, d.lo, d.next - 1)
        BY <4>1, <4>3 DEF getID
      <4>5. Bits(id, w.smt + w.core, w.smt + w.core + w.die - 1) = (id \div (A * B)) % D
        BY <4>2, <1>3 DEF Bits, Above, D
      <4> QED
        BY <4>3, <4>5, <4>4, <1>4
    <3>2. CASE w.die = 0
      <4>1. ~HasDomain(m, "Die")
        BY <1>1, <1>6, <3>2, LeafLevels
      <4>2. D = 1
        BY <3>2 DEF D
      <4> QED
        BY <4>1, <4>2, <1>1 DEF getID
    <3> QED
      BY <1>1, <3>1, <3>2
  <2> QED
    BY <1>5, <1>6, <2>1, <2>2, <2>3, <2>4
<1>7. CASE ~w.leaf1F
  <2>1. initCoreMasks(m) = [smt |-> w.smt, core |-> w.core + w.die]
    BY <1>1, <1>7 DEF initCoreMasks
  <2>2. e.core = IF w.core + w.die > 0 THEN Bits(id, w.smt, w.smt + (w.core + w.die) - 1) ELSE 0
    BY <1>7, <2>1 DEF populateEntry, id
  <2>3. e.tile = Above(id, w.l2) /\ e.die = -1 /\ e.socket = Above(id, w.smt + (w.core + w.die))
    BY <1>7, <2>1 DEF populateEntry, id
  <2>4. e = [thread |-> e.thread, core |-> e.core, tile |-> e.tile, die |-> e.die,
             socket |-> e.socket]
    BY <1>7, <2>1 DEF populateEntry
  <2>5. e.socket = p.package
    BY <1>3, <1>4, <2>3 DEF Above
  <2>6. e.core = p.core + B * p.die
    <3>1. CASE w.core + w.die > 0
      <4>1. (w.smt + (w.core + w.die) - 1) - w.smt + 1 = w.core + w.die
        BY <1>1
      <4>2. Bits(id, w.smt, w.smt + (w.core + w.die) - 1) = (id \div A) % (B * D)
        BY <4>1, <1>3 DEF Bits, Above, A
      <4> QED
        BY <2>2, <3>1, <4>2, <1>4
    <3>2. CASE w.core = 0 /\ w.die = 0
      <4>1. B = 1 /\ D = 1
        BY <3>2 DEF B, D
      <4> QED
        BY <2>2, <3>2, <4>1, <1>1
    <3> QED
      BY <1>1, <3>1, <3>2
  <2> QED
    BY <1>5, <1>7, <2>3, <2>4, <2>5, <2>6 DEF B
<1> QED
  BY <1>6, <1>7

-----------------------------------------------------------------------------
(* Least, greatest and rank. *)

\* A set of natural numbers that is not empty has a least member.
LEMMA LeastMember ==
  ASSUME NEW S, S \subseteq Nat, S # {}
  PROVE  \E x \in S : \A y \in S : x <= y
<1>1. PICK x \in S : \A y \in S : <<y, x>> \notin OpToRel(<, Nat)
  BY NatLessThanWellFounded, WFMin
<1>2. \A y \in S : ~(y < x)
  BY <1>1 DEF OpToRel
<1> QED
  BY <1>2

\* Min gives a member.
LEMMA MinMember ==
  ASSUME NEW S, S \subseteq Nat, S # {}
  PROVE  Min(S) \in S
  BY LeastMember DEF Min

\* Max gives a member, the greatest one, of a bounded set.
LEMMA MaxMember ==
  ASSUME NEW S, NEW n \in Nat, S \subseteq 0 .. n, S # {}
  PROVE  Max(S) \in S /\ \A y \in S : y <= Max(S)
<1> DEFINE T == {y \in Nat : n - y \in S}
<1>1. T # {}
  <2>1. PICK x \in S : TRUE
    OBVIOUS
  <2>2. n - x \in Nat /\ n - (n - x) = x
    BY <2>1
  <2> QED
    BY <2>1, <2>2
<1>2. PICK y \in T : \A z \in T : y <= z
  <2>1. T \subseteq Nat
    OBVIOUS
  <2> HIDE DEF T
  <2> QED
    BY <1>1, <2>1, LeastMember
<1>3. \A z \in S : z <= n - y
  <2> TAKE z \in S
  <2>1. z \in 0 .. n /\ n - z \in Nat /\ n - (n - z) = z
    OBVIOUS
  <2>2. n - z \in T
    BY <2>1
  <2> QED
    BY <1>2, <2>1, <2>2
<1>4. \E x \in S : \A z \in S : x >= z
  BY <1>2, <1>3
<1> QED
  BY <1>4 DEF Max

\* The numbers below one in a set.
Lower(S, x) == {y \in S : y < x}

\* The ranks of a finite set of numbers are 0, 1, ... in its order.
LEMMA Ranks ==
  ASSUME NEW S, S \subseteq Nat, IsFiniteSet(S)
  PROVE  /\ \A x \in S : Cardinality(Lower(S, x)) \in 0 .. Cardinality(S) - 1
         /\ \A x, y \in S : Cardinality(Lower(S, x)) = Cardinality(Lower(S, y)) => x = y
         /\ {Cardinality(Lower(S, x)) : x \in S} = 0 .. Cardinality(S) - 1
<1> DEFINE n == Cardinality(S)
           r == [x \in S |-> Cardinality(Lower(S, x))]
<1>1. n \in Nat
  BY FS_CardinalityType
<1>2. ASSUME NEW x \in S
      PROVE  /\ IsFiniteSet(Lower(S, x)) /\ Cardinality(Lower(S, x)) \in Nat
             /\ Cardinality(Lower(S, x)) < n
  <2>1. Lower(S, x) \in SUBSET S /\ x \notin Lower(S, x)
    BY DEF Lower
  <2>2. S # Lower(S, x)
    BY <2>1
  <2>3. /\ IsFiniteSet(Lower(S, x)) /\ Cardinality(Lower(S, x)) <= n
        /\ Cardinality(Lower(S, x)) # n
    BY <2>1, <2>2, FS_Subset
  <2>4. Cardinality(Lower(S, x)) \in Nat
    BY <2>3, FS_CardinalityType
  <2> QED
    BY <1>1, <2>3, <2>4
<1>3. ASSUME NEW x \in S, NEW y \in S, x < y
      PROVE  Cardinality(Lower(S, x)) < Cardinality(Lower(S, y))
  <2>1. Lower(S, x) \cup {x} \in SUBSET Lower(S, y) /\ x \notin Lower(S, x)
    <3>1. x \in Nat /\ y \in Nat /\ \A z \in S : z \in Nat
      OBVIOUS
    <3>2. \A z \in S : z < x => z < y
      BY <1>3, <3>1
    <3>3. x \in Lower(S, y)
      BY <1>3 DEF Lower
    <3>4. ~(x < x)
      BY <3>1
    <3> QED
      BY <3>2, <3>3, <3>4 DEF Lower
  <2>2. Cardinality(Lower(S, x) \cup {x}) = Cardinality(Lower(S, x)) + 1
    BY <1>2, <2>1, FS_AddElement
  <2>3. Cardinality(Lower(S, x) \cup {x}) <= Cardinality(Lower(S, y))
    BY <1>2, <2>1, FS_Subset
  <2> QED
    BY <1>2, <2>2, <2>3
<1>4. ASSUME NEW x \in S, NEW y \in S, Cardinality(Lower(S, x)) = Cardinality(Lower(S, y))
      PROVE  x = y
  <2>1. x \in Nat /\ y \in Nat
    OBVIOUS
  <2>2. ~(x < y) /\ ~(y < x)
    BY <1>2, <1>3, <1>4
  <2> QED
    BY <2>1, <2>2
<1>5. r \in [S -> 0 .. n - 1]
  BY <1>1, <1>2
<1>6. r \in Injection(S, 0 .. n - 1)
  <2>1. \A x, y \in S : r[x] = r[y] => x = y
    BY <1>4
  <2> HIDE DEF r, n
  <2> QED
    BY <1>5, <2>1 DEF Injection, IsInjective
<1>7. IsFiniteSet(0 .. n - 1) /\ Cardinality(0 .. n - 1) = n
  <2>1. 0 \in Int /\ n - 1 \in Int
    BY <1>1
  <2>2. /\ IsFiniteSet(0 .. n - 1)
        /\ Cardinality(0 .. n - 1) = IF 0 > n - 1 THEN 0 ELSE (n - 1) - 0 + 1
    BY <2>1, FS_Interval
  <2> QED
    BY <1>1, <2>2
<1>8. r \in Surjection(S, 0 .. n - 1)
  <2> HIDE DEF r
  <2> QED
    BY <1>6, <1>7, FS_Injection
<1>9. \A i \in 0 .. n - 1 : \E x \in S : r[x] = i
  BY <1>8 DEF Surjection
<1> QED
  BY <1>1, <1>2, <1>4, <1>9

-----------------------------------------------------------------------------
(* What discovery makes of a machine. *)

SameCorePlace(m, c, d) ==
  /\ m.place[c].package = m.place[d].package
  /\ m.place[c].die = m.place[d].die /\ m.place[c].core = m.place[d].core

\* The entries of two CPUs agree up to the thread exactly when the CPUs are
\* threads of one core.
LEMMA SameCoreEntries ==
  ASSUME NEW m, WellFormed(m), NEW c \in CPUs, NEW d \in CPUs
  PROVE  isSameCore(populateEntry(m, c), populateEntry(m, d)) <=> SameCorePlace(m, c, d)
<1> DEFINE e(x) == populateEntry(m, x)
           p(x) == m.place[x]
           w == m.layout
           B == 2^w.core
<1>1. ASSUME NEW x \in CPUs
      PROVE  /\ e(x).socket = p(x).package
             /\ e(x).tile = CoreNumber(m, x) \div 2^(w.l2 - w.smt)
             /\ w.leaf1F => e(x).core = p(x).core /\ e(x).die = p(x).die
             /\ ~w.leaf1F => e(x).core = p(x).core + B * p(x).die /\ e(x).die = -1
  BY EntryFaithful
<1>2. ASSUME NEW x \in CPUs PROVE p(x).core \in 0 .. B - 1 /\ p(x).die \in Nat
  <2>1. w.die \in Nat
    BY DEF WellFormed
  <2>2. p(x).die \in 0 .. 2^w.die - 1 /\ p(x).core \in 0 .. B - 1
    BY DEF WellFormed
  <2> QED
    BY <2>1, <2>2, PowerPositive
<1>3. B \in Nat \ {0}
  BY PowerPositive DEF WellFormed
<1>4. SameCorePlace(m, c, d) => e(c).tile = e(d).tile
  BY <1>1 DEF SameCorePlace, CoreNumber
<1> SUFFICES isSameCore(e(c), e(d)) <=> SameCorePlace(m, c, d)
  OBVIOUS
<1> HIDE DEF e, p, w, B
<1>5. p(c).core + B * p(c).die = p(d).core + B * p(d).die
        => p(c).core = p(d).core /\ p(c).die = p(d).die
  <2>1. /\ (p(c).core + B * p(c).die) \div B = p(c).die
        /\ (p(c).core + B * p(c).die) % B = p(c).core
    BY <1>2, <1>3, DivMod
  <2>2. /\ (p(d).core + B * p(d).die) \div B = p(d).die
        /\ (p(d).core + B * p(d).die) % B = p(d).core
    BY <1>2, <1>3, DivMod
  <2> QED
    BY <2>1, <2>2
<1>6. isSameCore(e(c), e(d)) <=>
        /\ e(c).core = e(d).core /\ e(c).tile = e(d).tile /\ e(c).die = e(d).die
        /\ e(c).socket = e(d).socket
  BY DEF isSameCore
<1>7. SameCorePlace(m, c, d) <=>
        p(c).package = p(d).package /\ p(c).die = p(d).die /\ p(c).core = p(d).core
  BY DEF SameCorePlace, p
<1>8. CASE w.leaf1F
  BY <1>1, <1>4, <1>6, <1>7, <1>8
<1>9. CASE ~w.leaf1F
  BY <1>1, <1>4, <1>5, <1>6, <1>7, <1>9
<1> QED
  BY <1>8, <1>9

\* The CPUs PCM sees, and the packages they are in.
Seen(m) == m.listed \cap m.allowed
Packages(m) == {m.place[c].package : c \in Seen(m)}

\* The entries of the CPUs that are seen, and only theirs, are filled in.
LEMMA RawFacts ==
  ASSUME NEW m, WellFormed(m)
  PROVE  /\ Seen(m) \subseteq CPUs /\ Seen(m) # {} /\ IsFiniteSet(Seen(m))
         /\ \A c \in CPUs : RawTopology(m)[c] # NoEntry <=> c \in Seen(m)
         /\ \A c \in Seen(m) : RawTopology(m)[c] = populateEntry(m, c)
                               /\ RawTopology(m)[c].socket = m.place[c].package
         /\ Packages(m) \subseteq Nat /\ IsFiniteSet(Packages(m))
         /\ Cardinality(Packages(m)) \in Nat \ {0}
<1> DEFINE raw == RawTopology(m)
<1>1. Seen(m) \subseteq CPUs /\ Seen(m) # {}
  BY DEF WellFormed, Seen
<1>2. IsFiniteSet(Seen(m))
  BY <1>1, CPUsAssumption, FS_Subset
<1>3. \A c \in CPUs : m.place[c].package \in Nat
  BY DEF WellFormed
<1>4. \A c \in CPUs : populateEntry(m, c).socket = m.place[c].package
  BY EntryFaithful
<1>5. \A c \in CPUs : populateEntry(m, c) # NoEntry
  BY <1>3, <1>4 DEF NoEntry
<1>6. \A c \in CPUs : raw[c] = IF c \in Seen(m) THEN populateEntry(m, c) ELSE NoEntry
  BY DEF RawTopology, Seen
<1>7. Packages(m) \subseteq Nat /\ Packages(m) # {}
  BY <1>1, <1>3 DEF Packages
<1>8. IsFiniteSet(Packages(m))
  <2> DEFINE f == [c \in Seen(m) |-> m.place[c].package]
  <2>1. f \in Surjection(Seen(m), Packages(m))
    BY DEF Surjection, Packages
  <2> HIDE DEF f
  <2> QED
    BY <1>2, <2>1, FS_Surjection
<1>9. Cardinality(Packages(m)) \in Nat \ {0}
  BY <1>7, <1>8, FS_CardinalityType, FS_EmptySet
<1> HIDE DEF raw
<1> QED
  BY <1>1, <1>2, <1>4, <1>5, <1>6, <1>7, <1>8, <1>9 DEF raw

\* A package becomes the socket of its rank among the packages that are seen.
LEMMA SocketIsRank ==
  ASSUME NEW m, WellFormed(m), NEW s
  PROVE  SocketIndex(RawTopology(m), s) = Cardinality(Lower(Packages(m), s))
<1> DEFINE raw == RawTopology(m)
           X == {raw[c].socket : c \in {d \in CPUs : raw[d] # NoEntry /\ raw[d].socket < s}}
<1>1. ASSUME NEW x \in X PROVE x \in Lower(Packages(m), s)
  <2>1. PICK c \in CPUs : raw[c] # NoEntry /\ raw[c].socket < s /\ x = raw[c].socket
    OBVIOUS
  <2>2. c \in Seen(m) /\ x = m.place[c].package
    BY <2>1, RawFacts
  <2> QED
    BY <2>1, <2>2 DEF Lower, Packages
<1>2. ASSUME NEW x \in Lower(Packages(m), s) PROVE x \in X
  <2>1. PICK c \in Seen(m) : x = m.place[c].package /\ x < s
    BY DEF Lower, Packages
  <2>2. c \in CPUs /\ raw[c] # NoEntry /\ x = raw[c].socket
    BY <2>1, RawFacts
  <2> QED
    BY <2>1, <2>2
<1>3. X = Lower(Packages(m), s)
  BY <1>1, <1>2
<1> QED
  BY <1>3 DEF SocketIndex

\* The topology that discovery arrives at.
Topology(m) == LogicalSockets(RawTopology(m))

\* The topology tells cores and packages apart and numbers the sockets.
LEMMA TopologyFacts ==
  ASSUME NEW m, WellFormed(m)
  PROVE  LET topo == Topology(m)
         IN /\ DOMAIN topo = CPUs
            /\ {c \in CPUs : topo[c] # NoEntry} = Seen(m)
            /\ \A c \in CPUs : c \notin Seen(m) => topo[c] = NoEntry
            /\ \A c, d \in Seen(m) :
                 /\ isSameCore(topo[c], topo[d]) <=> SameCorePlace(m, c, d)
                 /\ topo[c].socket = topo[d].socket <=> m.place[c].package = m.place[d].package
            /\ {topo[c].socket : c \in Seen(m)} = 0 .. Cardinality(Packages(m)) - 1
<1> DEFINE topo == Topology(m)
           raw == RawTopology(m)
           rank(s) == Cardinality(Lower(Packages(m), s))
<1>1. DOMAIN topo = CPUs
  BY DEF Topology, LogicalSockets
<1>2. \A c \in CPUs : c \notin Seen(m) => topo[c] = NoEntry
  BY RawFacts DEF Topology, LogicalSockets
<1>3. ASSUME NEW c \in Seen(m)
      PROVE  /\ topo[c].core = populateEntry(m, c).core /\ topo[c].tile = populateEntry(m, c).tile
             /\ topo[c].die = populateEntry(m, c).die
             /\ topo[c].socket = rank(m.place[c].package)
  <2> DEFINE e == populateEntry(m, c)
  <2>1. c \in CPUs /\ raw[c] = e /\ raw[c] # NoEntry /\ e.socket = m.place[c].package
    BY RawFacts
  <2>2. topo[c] = [e EXCEPT !.socket = SocketIndex(raw, e.socket)]
    BY <2>1 DEF Topology, LogicalSockets
  <2>3. e = [thread |-> e.thread, core |-> e.core, tile |-> e.tile, die |-> e.die,
             socket |-> e.socket]
    BY <2>1, EntryFaithful
  <2>4. SocketIndex(raw, e.socket) = rank(m.place[c].package)
    BY <2>1, SocketIsRank
  <2> HIDE DEF e, topo, rank
  <2>5. /\ topo[c].core = e.core /\ topo[c].tile = e.tile /\ topo[c].die = e.die
        /\ topo[c].socket = SocketIndex(raw, e.socket)
    BY <2>2, <2>3
  <2> QED
    BY <2>4, <2>5 DEF e
<1>4. /\ \A x \in Packages(m) : rank(x) \in 0 .. Cardinality(Packages(m)) - 1
      /\ \A x, y \in Packages(m) : rank(x) = rank(y) => x = y
      /\ {rank(x) : x \in Packages(m)} = 0 .. Cardinality(Packages(m)) - 1
  BY RawFacts, Ranks
<1> HIDE DEF topo, rank
<1>5. \A c \in Seen(m) : topo[c] # NoEntry
  <2> TAKE c \in Seen(m)
  <2>1. topo[c].socket \in 0 .. Cardinality(Packages(m)) - 1
    BY <1>3, <1>4 DEF Packages
  <2>2. NoEntry.socket = -1
    BY DEF NoEntry
  <2> QED
    BY <2>1, <2>2
<1>6. ASSUME NEW c \in Seen(m), NEW d \in Seen(m)
      PROVE  topo[c].socket = topo[d].socket <=> m.place[c].package = m.place[d].package
  BY <1>3, <1>4 DEF Packages
<1>7. ASSUME NEW c \in Seen(m), NEW d \in Seen(m)
      PROVE  isSameCore(topo[c], topo[d]) <=> SameCorePlace(m, c, d)
  <2>1. c \in CPUs /\ d \in CPUs
    BY RawFacts
  <2>2. /\ populateEntry(m, c).socket = m.place[c].package
        /\ populateEntry(m, d).socket = m.place[d].package
    BY <2>1, EntryFaithful
  <2>3. isSameCore(populateEntry(m, c), populateEntry(m, d)) <=> SameCorePlace(m, c, d)
    BY <2>1, SameCoreEntries
  <2> QED
    BY <1>3, <1>6, <2>2, <2>3 DEF isSameCore
<1>8. {topo[c].socket : c \in Seen(m)} = {rank(x) : x \in Packages(m)}
  <2>1. ASSUME NEW c \in Seen(m)
        PROVE  m.place[c].package \in Packages(m) /\ topo[c].socket = rank(m.place[c].package)
    BY <1>3 DEF Packages
  <2>2. ASSUME NEW x \in Packages(m) PROVE \E c \in Seen(m) : topo[c].socket = rank(x)
    <3>1. PICK c \in Seen(m) : x = m.place[c].package
      BY DEF Packages
    <3> QED
      BY <3>1, <2>1
  <2> QED
    BY <2>1, <2>2
<1>9. {c \in CPUs : topo[c] # NoEntry} = Seen(m)
  BY <1>2, <1>5, RawFacts
<1> QED
  BY <1>1, <1>2, <1>4, <1>6, <1>7, <1>8, <1>9 DEF topo

\* A Core object holds the CPUs of one core, and every CPU that is seen is in one.
LEMMA TreeFacts ==
  ASSUME NEW m, WellFormed(m)
  PROVE  LET tree == CoreObjects(Topology(m))
         IN /\ UNION {core.threads : core \in tree} = Seen(m)
            /\ \A c, d \in Seen(m) :
                 (\E core \in tree : {c, d} \subseteq core.threads) <=> SameCorePlace(m, c, d)
<1> DEFINE topo == Topology(m)
           tree == CoreObjects(topo)
           Mates(c) == {d \in Seen(m) : SameCorePlace(m, d, c)}
           Leads == {c \in Seen(m) : \A d \in Seen(m) : d < c => ~SameCorePlace(m, d, c)}
<1>1. /\ Seen(m) \subseteq CPUs /\ {c \in CPUs : topo[c] # NoEntry} = Seen(m)
      /\ \A c, d \in Seen(m) : isSameCore(topo[c], topo[d]) <=> SameCorePlace(m, c, d)
  BY RawFacts, TopologyFacts
<1>2. \A c \in CPUs : c \in Nat /\ \A d \in CPUs : d < c <=> d \in 0 .. c - 1
  <2>1. Cardinality(CPUs) \in Nat /\ CPUs = 0 .. Cardinality(CPUs) - 1
    BY CPUsAssumption, FS_CardinalityType
  <2> QED
    BY <2>1
<1>3. \A c \in CPUs : \A d \in 0 .. c - 1 : d \in CPUs
  <2>1. Cardinality(CPUs) \in Nat /\ CPUs = 0 .. Cardinality(CPUs) - 1
    BY CPUsAssumption, FS_CardinalityType
  <2> QED
    BY <2>1
<1> HIDE DEF topo
<1>4. \A c \in Seen(m) :
        {d \in CPUs : topo[d] # NoEntry /\ isSameCore(topo[d], topo[c])} = Mates(c)
  BY <1>1
<1>5. {c \in CPUs : /\ topo[c] # NoEntry
                    /\ \A d \in 0 .. c - 1 : topo[d] = NoEntry \/ ~isSameCore(topo[d], topo[c])}
        = Leads
  <2>1. ASSUME NEW c \in Seen(m)
        PROVE  (\A d \in 0 .. c - 1 : topo[d] = NoEntry \/ ~isSameCore(topo[d], topo[c]))
                 <=> (\A d \in Seen(m) : d < c => ~SameCorePlace(m, d, c))
    <3>1. c \in CPUs
      BY <1>1
    <3>2. ASSUME NEW d \in 0 .. c - 1, topo[d] # NoEntry PROVE d \in Seen(m) /\ d < c
      BY <3>1, <3>2, <1>1, <1>2, <1>3
    <3>3. ASSUME NEW d \in Seen(m), d < c PROVE d \in 0 .. c - 1 /\ topo[d] # NoEntry
      BY <3>1, <3>3, <1>1, <1>2
    <3> QED
      BY <1>1, <3>2, <3>3
  <2> QED
    BY <1>1, <2>1
<1>6. tree = {[socket |-> topo[c].socket, threads |-> Mates(c)] : c \in Leads}
  <2> HIDE DEF Mates, Leads
  <2>1. Leads \subseteq Seen(m)
    BY DEF Leads
  <2> QED
    BY <1>4, <1>5, <2>1 DEF CoreObjects
<1>7. ASSUME NEW c \in Seen(m) PROVE \E b \in Leads : SameCorePlace(m, b, c)
  <2>1. Mates(c) \subseteq Nat /\ Mates(c) # {}
    BY <1>1, <1>2 DEF SameCorePlace
  <2>2. PICK b \in Mates(c) : \A d \in Mates(c) : b <= d
    <3> HIDE DEF Mates
    <3> QED
      BY <2>1, LeastMember
  <2>3. ASSUME NEW d \in Seen(m), d < b PROVE ~SameCorePlace(m, d, b)
    <3>1. SameCorePlace(m, d, b) => d \in Mates(c)
      BY <2>2 DEF SameCorePlace
    <3>2. b \in Nat /\ d \in Nat
      BY <1>1, <1>2, <2>2
    <3> QED
      BY <2>2, <2>3, <3>1, <3>2
  <2> QED
    BY <2>2, <2>3
<1>8. ASSUME NEW core \in tree PROVE \E b \in Leads : core.threads = Mates(b)
  <2> HIDE DEF tree, Leads, Mates
  <2> QED
    BY <1>6
<1>9. ASSUME NEW b \in Leads PROVE \E core \in tree : core.threads = Mates(b)
  <2> DEFINE object == [socket |-> topo[b].socket, threads |-> Mates(b)]
  <2>1. object.threads = Mates(b)
    OBVIOUS
  <2> HIDE DEF tree, Leads, Mates
  <2>2. object \in tree
    BY <1>6
  <2> HIDE DEF object
  <2> QED
    BY <2>1, <2>2
<1> HIDE DEF tree
<1>10. UNION {core.threads : core \in tree} = Seen(m)
  <2>1. ASSUME NEW c \in Seen(m) PROVE \E core \in tree : c \in core.threads
    <3>1. PICK b \in Leads : SameCorePlace(m, b, c)
      BY <1>7
    <3>2. c \in Mates(b)
      BY <3>1 DEF SameCorePlace
    <3> QED
      BY <3>2, <1>9
  <2>2. ASSUME NEW core \in tree PROVE core.threads \subseteq Seen(m)
    BY <1>8
  <2> QED
    BY <2>1, <2>2
<1>11. ASSUME NEW c \in Seen(m), NEW d \in Seen(m)
       PROVE  (\E core \in tree : {c, d} \subseteq core.threads) <=> SameCorePlace(m, c, d)
  <2>1. ASSUME NEW core \in tree, {c, d} \subseteq core.threads PROVE SameCorePlace(m, c, d)
    <3>1. PICK b \in Leads : core.threads = Mates(b)
      BY <1>8
    <3>2. SameCorePlace(m, c, b) /\ SameCorePlace(m, d, b)
      BY <2>1, <3>1
    <3> QED
      BY <3>2 DEF SameCorePlace
  <2>2. ASSUME SameCorePlace(m, c, d) PROVE \E core \in tree : {c, d} \subseteq core.threads
    <3>1. PICK b \in Leads : SameCorePlace(m, b, c)
      BY <1>7
    <3>2. {c, d} \subseteq Mates(b)
      BY <2>2, <3>1 DEF SameCorePlace
    <3> HIDE DEF Mates
    <3> QED
      BY <3>2, <1>9
  <2> QED
    BY <2>1, <2>2
<1> QED
  BY <1>10, <1>11 DEF tree, topo

-----------------------------------------------------------------------------
(* The tables of the models. *)

\* The tables of a model that is supported and not the alias of another.
LEMMA TablesOfSupported ==
  ASSUME NEW m, isCPUModelSupported(m), m # "ATOM_2", NEW p
  PROVE  TablesServe(m, p)
<1>1. getMaxIPC(m) > 0
  BY DEF getMaxIPC, isCPUModelSupported, isAtom, SKLPath
<1>2. m \in HasCodename
  BY DEF HasCodename, isCPUModelSupported, isAtom, SKLPath
<1>3. pkgCStateMsr(m) \in {{<<2, 1016>>, <<4, 1017>>, <<6, 1018>>},
         {<<3, 1016>>, <<6, 1017>>, <<7, 1018>>},
         {<<2, 1549>>, <<3, 1016>>, <<6, 1017>>, <<7, 1018>>}, {<<2, 1549>>, <<6, 1017>>},
         {<<2, 1549>>, <<3, 1016>>, <<6, 1017>>, <<7, 1018>>, <<8, 1584>>, <<9, 1585>>,
             <<10, 1586>>}}
  BY DEF pkgCStateMsr, isCPUModelSupported, isAtom, SKLPath
<1>4. coreCStateMsr(m) \in {{}, {<<3, 1020>>, <<6, 1021>>},
                             {<<3, 1020>>, <<6, 1021>>, <<7, 1022>>}, {<<6, 1023>>}, {<<6, 1021>>}}
  BY DEF coreCStateMsr, isCPUModelSupported, isAtom, SKLPath
<1>5. \/ m \in {"ATOM", "CENTERTON"}
      \/ <<6, 1021>> \in coreCStateMsr(m) \/ <<6, 1023>> \in coreCStateMsr(m)
  BY DEF coreCStateMsr, isCPUModelSupported, isAtom, SKLPath
<1>6. \A x \in pkgCStateMsr(m) : x[2] \in {1016, 1017, 1018, 1549, 1584, 1585, 1586}
  BY <1>3
<1>7. \A x \in coreCStateMsr(m) : x[2] \in {1020, 1021, 1022, 1023}
  BY <1>4
<1>8. \A x, y \in pkgCStateMsr(m) : x[2] = y[2] => x = y
  BY <1>3
<1>9. \A x, y \in coreCStateMsr(m) : x[2] = y[2] => x = y
  BY <1>4
<1>10. dramEnergyMetricsAvailable(m) => packageEnergyMetricsAvailable(m)
  BY DEF dramEnergyMetricsAvailable, packageEnergyMetricsAvailable
<1>11. PMMMemoryModeMetricsAvailable(p) => PMMTrafficMetricsAvailable(p)
  BY DEF PMMMemoryModeMetricsAvailable, PMMTrafficMetricsAvailable
<1>12. hasUPI(m) => hasCHA(m) /\ IIOEventsAvailable(m)
  BY DEF hasUPI, hasCHA, IIOEventsAvailable
<1>13. hasPCICFGUncore(m) \/ hasBecktonUncore(m) => isServerCPU(m)
  BY DEF hasPCICFGUncore, hasBecktonUncore, isServerCPU
<1>14. getPCUFrequency(m) > 0 => hasPCICFGUncore(m)
  BY DEF getPCUFrequency, hasPCICFGUncore
<1>15. hasClientMCCounters(m) => ~isServerCPU(m)
  BY DEF hasClientMCCounters, isServerCPU, SKLPath
<1>16. <<6, 1017>> \in pkgCStateMsr(m) \/ <<6, 1018>> \in pkgCStateMsr(m)
  BY <1>3
<1>17. \A x \in pkgCStateMsr(m), y \in coreCStateMsr(m) : x[2] # y[2]
  BY <1>6, <1>7
<1> QED
  BY <1>1, <1>2, <1>5, <1>8, <1>9, <1>10, <1>11, <1>12, <1>13, <1>14, <1>15, <1>16, <1>17
     DEF TablesServe
-----------------------------------------------------------------------------
(* The constructor. *)

\* What discovery has left, and what the later steps have built on it.
DiscoveryDone ==
  /\ topology = Topology(machine)
  /\ systemTopology = CoreObjects(topology)
  /\ offlined = CPUs \ Online
  /\ num_sockets = Cardinality({topology[c].socket : c \in Online})
  /\ socketRefCore = [s \in {topology[c].socket : c \in Online} |->
                        Max({c \in Online : topology[c].socket = s})]

\* The inductive invariant of the constructor: how far it has come determines
\* what there is.
ConstructorInv ==
  /\ machine \in Machines
  /\ StartupTypeOK
  /\ pc \in {"detectModel", "checkModel", "topology", "initMSR", "returned", "threw"} => MSR = <<>>
  /\ pc \in {"frequency", "energy", "initRDT", "ready"} => MSR = [c \in CPUs |-> isCoreOnline(c)]
  /\ pc \notin {"detectModel", "checkModel", "returned"} =>
       isCPUModelSupported(cpu_family_model) /\ cpu_family_model # "ATOM_2"
  /\ Discovered => DiscoveryDone
  /\ pc \notin {"initRDT", "ready"} => energy = NoEnergy
  /\ pc \in {"initRDT", "ready"} => energy.pkg \in {<<>>, PerSocket}

\* checkModel renames models to models the tables have.
LEMMA AliasFacts ==
  ASSUME NEW m \in SupportedCPUModels \cup {"none", OtherModel}
  PROVE  /\ checkModelAlias(m) \in SupportedCPUModels \cup {"none", OtherModel}
         /\ checkModelAlias(m) # "ATOM_2"
<1> DEFINE Names == {"NEHALEM_EP", "ATOM", "HASWELL", "BROADWELL", "ICX", "CML", "ARL", "ICL",
                     "TGL", "ADL", "RPL"}
<1>1. checkModelAlias(m) \in Names \/ (checkModelAlias(m) = m /\ m # "ATOM_2")
  BY DEF checkModelAlias
<1>2. Names \subseteq SupportedCPUModels /\ "ATOM_2" \notin Names
  BY DEF SupportedCPUModels
<1> HIDE DEF Names
<1> QED
  BY <1>1, <1>2

\* The numbers discovery computes are numbers.
LEMMA NumberFacts ==
  ASSUME NEW m, WellFormed(m)
  PROVE  LET topo == Topology(m)
             sockets == {topo[c].socket : c \in Seen(m)}
         IN /\ Cardinality(sockets) \in Nat \ {0} /\ ThreadsPerCore(topo) \in Nat \ {0}
            /\ (Cardinality(CPUs) \div Cardinality(sockets)) \div ThreadsPerCore(topo) \in Nat
<1> DEFINE topo == Topology(m)
           sockets == {topo[c].socket : c \in Seen(m)}
           Mates(c) == {d \in CPUs : topo[d] # NoEntry /\ isSameCore(topo[d], topo[c])}
           counts == {Cardinality(Mates(c)) : c \in Seen(m)}
           n == Cardinality(CPUs)
<1>1. n \in Nat /\ IsFiniteSet(CPUs)
  BY CPUsAssumption, FS_CardinalityType
<1>2. Cardinality(sockets) \in Nat \ {0}
  <2> DEFINE k == Cardinality(Packages(m))
  <2>1. k \in Nat \ {0} /\ sockets = 0 .. k - 1
    BY RawFacts, TopologyFacts
  <2> HIDE DEF k, sockets
  <2>2. 0 \in Int /\ k - 1 \in Int
    BY <2>1
  <2>3. Cardinality(0 .. k - 1) = IF 0 > k - 1 THEN 0 ELSE (k - 1) - 0 + 1
    BY <2>2, FS_Interval
  <2> QED
    BY <2>1, <2>3
<1>3. ASSUME NEW c \in Seen(m) PROVE Cardinality(Mates(c)) \in 1 .. n
  <2>1. c \in CPUs /\ topo[c] # NoEntry
    BY RawFacts, TopologyFacts
  <2>2. c \in Mates(c) /\ Mates(c) \in SUBSET CPUs
    BY <2>1 DEF isSameCore
  <2> HIDE DEF Mates
  <2>3. IsFiniteSet(Mates(c)) /\ Cardinality(Mates(c)) <= n /\ Cardinality(Mates(c)) \in Nat
    BY <1>1, <2>2, FS_Subset, FS_CardinalityType
  <2>4. Cardinality(Mates(c)) # 0
    BY <2>2, <2>3, FS_EmptySet
  <2> QED
    BY <1>1, <2>3, <2>4
<1>4. counts \subseteq 0 .. n /\ counts # {} /\ \A x \in counts : x > 0
  <2> HIDE DEF Mates
  <2>1. Seen(m) # {}
    BY RawFacts
  <2> QED
    BY <1>1, <1>3, <2>1
<1>5. ThreadsPerCore(topo) = Max(counts)
  <2>1. {d \in CPUs : topo[d] # NoEntry} = Seen(m)
    BY TopologyFacts
  <2> QED
    BY <2>1 DEF ThreadsPerCore
<1> HIDE DEF counts, topo, sockets
<1>6. Max(counts) \in counts
  BY <1>1, <1>4, MaxMember
<1>7. ThreadsPerCore(topo) \in Nat \ {0}
  <2>1. Max(counts) \in 0 .. n /\ Max(counts) > 0
    BY <1>4, <1>6
  <2> HIDE DEF n
  <2> QED
    BY <1>1, <1>5, <2>1
<1>8. (n \div Cardinality(sockets)) \div ThreadsPerCore(topo) \in Nat
  <2>1. n \div Cardinality(sockets) \in Nat
    BY <1>1, <1>2
  <2> QED
    BY <1>7, <2>1
<1> QED
  BY <1>2, <1>7, <1>8 DEF topo, sockets

\* The invariant holds when the constructor starts.
LEMMA ConstructorInit ==
  ASSUME Init
  PROVE  ConstructorInv
<1>1. pc = "detectModel" /\ cpu_family_model = "none" /\ machine \in Machines /\ MSR = <<>>
      /\ energy = NoEnergy
  BY DEF Init, StartupInit
<1>2. StartupTypeOK
  <2>1. DOMAIN topology = CPUs /\ offlined \subseteq CPUs /\ threads_per_core \in Nat
        /\ num_sockets \in Nat /\ num_phys_cores_per_socket \in Nat
    BY DEF Init, StartupInit
  <2> QED
    BY <1>1, <2>1 DEF StartupTypeOK, Steps
<1> QED
  BY <1>1, <1>2 DEF ConstructorInv, Discovered

\* Monitoring leaves what the constructor has built.
LEMMA MonitoringKeeps ==
  ASSUME [Next]_vars, ~StartupNext
  PROVE  /\ UNCHANGED <<machine, cpu_family_model, topology, systemTopology, offlined,
                        threads_per_core, num_sockets, num_phys_cores_per_socket, socketRefCore,
                        MSR, energy>>
         /\ pc' = pc \/ (pc = "initRDT" /\ pc' = "ready")
<1>1. CASE initRDT \/ ResctrlInit
  BY <1>1 DEF initRDT, ResctrlInit, RestOfPCM
<1>2. CASE \/ ReadL3Occupancy \/ readAndAggregateMemoryBWCounters \/ Watchdog \/ getMetric
           \/ \E r \in Readers : Lock(r) \/ ReadEvtsel(r) \/ WriteEvtsel(r) \/ ReadCtr(r)
  BY <1>2, ReadMoves DEF startupVars
<1>3. CASE StartCleanupRDT \/ cleanupRDT \/ ResctrlCleanup
  BY <1>3 DEF StartCleanupRDT, cleanupRDT, ResctrlCleanup, startupVars
<1>4. CASE UNCHANGED vars
  BY <1>4 DEF vars, startupVars
<1> QED
  BY <1>1, <1>2, <1>3, <1>4 DEF Next

\* What the invariant says of the topology after discovery.
LEMMA OnlineIsSeen ==
  ASSUME machine \in Machines, topology = Topology(machine)
  PROVE  Online = Seen(machine) /\ WellFormed(machine)
<1>1. WellFormed(machine)
  BY MachinesAssumption
<1> QED
  BY <1>1, TopologyFacts DEF Online, isCoreOnline

\* Every step of the constructor keeps the invariant.
LEMMA ConstructorMoves ==
  ASSUME ConstructorInv, StartupNext
  PROVE  ConstructorInv'
<1> USE DEF ConstructorInv, StartupTypeOK, Steps, Discovered
<1>0. machine' = machine
  BY StartupMoves
<1>w. WellFormed(machine)
  BY MachinesAssumption
<1>1. CASE detectModel
  <2>1. machine.model \in SupportedCPUModels \cup {OtherModel}
    BY <1>w DEF WellFormed
  <2>2. /\ pc = "detectModel" /\ pc' \in {"checkModel", "returned"}
        /\ cpu_family_model' = machine.model
        /\ UNCHANGED <<machine, topology, systemTopology, offlined, threads_per_core, num_sockets,
                       num_phys_cores_per_socket, socketRefCore, MSR, energy>>
    BY <1>1 DEF detectModel, Return
  <2> QED
    BY <2>1, <2>2
<1>2. CASE checkModel
  <2>1. /\ pc = "checkModel" /\ cpu_family_model' = checkModelAlias(cpu_family_model)
        /\ \/ isCPUModelSupported(cpu_family_model') /\ pc' = "topology"
           \/ pc' = "returned"
        /\ UNCHANGED <<machine, topology, systemTopology, offlined, threads_per_core, num_sockets,
                       num_phys_cores_per_socket, socketRefCore, MSR, energy>>
    BY <1>2 DEF checkModel, Return
  <2>2. /\ cpu_family_model' \in SupportedCPUModels \cup {"none", OtherModel}
        /\ cpu_family_model' # "ATOM_2"
    BY <2>1, AliasFacts
  <2> QED
    BY <2>1, <2>2
<1>3. CASE discoverSystemTopologyFails
  <2>1. pc = "topology" /\ pc' = "returned"
        /\ UNCHANGED <<machine, cpu_family_model, topology, systemTopology, offlined,
                       threads_per_core, num_sockets, num_phys_cores_per_socket, socketRefCore,
                       MSR, energy>>
    BY <1>3 DEF discoverSystemTopologyFails, Return
  <2> QED
    BY <2>1
<1>4. CASE discoverSystemTopology
  <2> DEFINE topo == Topology(machine)
             online == {c \in CPUs : topo[c] # NoEntry}
             sockets == {topo[c].socket : c \in online}
             tpc == ThreadsPerCore(topo)
  <2>1. /\ pc = "topology" /\ topology' = topo /\ num_sockets' = Cardinality(sockets)
        /\ threads_per_core' = tpc
        /\ num_phys_cores_per_socket' =
             IF online = CPUs THEN (Cardinality(CPUs) \div Cardinality(sockets)) \div tpc ELSE 0
        /\ \/ pc' = "threw" /\ UNCHANGED <<systemTopology, offlined, socketRefCore>>
           \/ /\ pc' = "initMSR" /\ systemTopology' = CoreObjects(topo) /\ offlined' = CPUs \ online
              /\ socketRefCore' = [s \in sockets |-> Max({c \in online : topo[c].socket = s})]
        /\ UNCHANGED <<machine, cpu_family_model, MSR, energy>>
    BY <1>4 DEF discoverSystemTopology, Topology, Throw
  <2>2. online = Seen(machine) /\ DOMAIN topo = CPUs
    BY <1>w, TopologyFacts
  <2>3. /\ Cardinality(sockets) \in Nat /\ tpc \in Nat
        /\ (Cardinality(CPUs) \div Cardinality(sockets)) \div tpc \in Nat
    BY <1>w, <2>2, NumberFacts
  <2>4. Online' = online /\ Topology(machine)' = topo
    BY <2>1 DEF Online, isCoreOnline, Topology, RawTopology, LogicalSockets
  <2> HIDE DEF topo, online, tpc
  <2>5. num_phys_cores_per_socket' \in Nat
    BY <2>1, <2>3
  <2>6. pc' = "initMSR" => DiscoveryDone'
    BY <2>1, <2>4 DEF DiscoveryDone
  <2>7. StartupTypeOK'
    BY <2>1, <2>2, <2>3, <2>5
  <2> QED
    BY <2>1, <2>6, <2>7
<1>5. CASE initMSR
  <2>1. /\ pc = "initMSR"
        /\ \/ MSR' = [c \in CPUs |-> isCoreOnline(c)] /\ pc' = "frequency"
           \/ MSR' = <<>> /\ pc' = "returned"
        /\ UNCHANGED <<machine, cpu_family_model, topology, systemTopology, offlined,
                       threads_per_core, num_sockets, num_phys_cores_per_socket, socketRefCore,
                       energy>>
    BY <1>5 DEF initMSR, Return
  <2>2. /\ [c \in CPUs |-> isCoreOnline(c)] \in [CPUs -> BOOLEAN]
        /\ \A c : isCoreOnline(c)' = isCoreOnline(c)
        /\ DiscoveryDone => DiscoveryDone'
    BY <2>1 DEF isCoreOnline, DiscoveryDone, Online, Topology, RawTopology, LogicalSockets
  <2> QED
    BY <2>1, <2>2
<1>6. CASE detectNominalFrequency
  <2>1. /\ pc = "frequency"
        /\ \/ pc' = "energy" /\ UNCHANGED MSR
           \/ MSR' = <<>> /\ pc' = "returned"
        /\ UNCHANGED <<machine, cpu_family_model, topology, systemTopology, offlined,
                       threads_per_core, num_sockets, num_phys_cores_per_socket, socketRefCore,
                       energy>>
    BY <1>6 DEF detectNominalFrequency, Return
  <2>2. /\ \A c : isCoreOnline(c)' = isCoreOnline(c)
        /\ DiscoveryDone => DiscoveryDone'
    BY <2>1 DEF isCoreOnline, DiscoveryDone, Online, Topology, RawTopology, LogicalSockets
  <2> QED
    BY <2>1, <2>2
<1>7. CASE initEnergyMonitoring
  <2>1. /\ pc = "energy" /\ pc' = "initRDT" /\ energy'.pkg \in {<<>>, PerSocket}
        /\ UNCHANGED <<machine, cpu_family_model, topology, systemTopology, offlined,
                       threads_per_core, num_sockets, num_phys_cores_per_socket, socketRefCore,
                       MSR>>
    BY <1>7 DEF initEnergyMonitoring
  <2>2. /\ \A c : isCoreOnline(c)' = isCoreOnline(c)
        /\ DiscoveryDone => DiscoveryDone'
        /\ PerSocket' = PerSocket
    BY <2>1 DEF isCoreOnline, DiscoveryDone, Online, Topology, RawTopology, LogicalSockets,
       PerSocket
  <2> QED
    BY <2>1, <2>2
<1> QED
  BY <1>1, <1>2, <1>3, <1>4, <1>5, <1>6, <1>7 DEF StartupNext

\* Every step keeps the invariant.
LEMMA ConstructorStep ==
  ASSUME ConstructorInv, [Next]_vars
  PROVE  ConstructorInv'
<1>1. CASE StartupNext
  BY <1>1, ConstructorMoves
<1>2. CASE ~StartupNext
  <2>1. UNCHANGED <<machine, cpu_family_model, topology, systemTopology, offlined,
                    threads_per_core, num_sockets, num_phys_cores_per_socket, socketRefCore,
                    MSR, energy>>
        /\ (pc' = pc \/ (pc = "initRDT" /\ pc' = "ready"))
    BY <1>2, MonitoringKeeps
  <2>2. /\ \A c : isCoreOnline(c)' = isCoreOnline(c)
        /\ DiscoveryDone => DiscoveryDone'
        /\ PerSocket' = PerSocket
    BY <2>1 DEF isCoreOnline, DiscoveryDone, Online, Topology, RawTopology, LogicalSockets,
       PerSocket
  <2> QED
    BY <2>1, <2>2 DEF ConstructorInv, StartupTypeOK, Steps, Discovered
<1> QED
  BY <1>1, <1>2

\* A constructor that ends early leaves an object that is not good, an object
\* that is ready is good and complete, and every table that is consulted later
\* knows the model, whatever machine PCM is started on.
THEOREM ConstructorCompletes == Spec => []StartsComplete
<1>1. ConstructorInv => StartsComplete
  <2> SUFFICES ASSUME ConstructorInv PROVE StartsComplete
    OBVIOUS
  <2>1. pc \in {"returned", "threw"} => ~good
    BY DEF ConstructorInv, good
  <2>2. pc = "ready" => good
    <3> SUFFICES ASSUME pc = "ready" PROVE MSR # <<>>
      BY DEF good
    <3>1. DOMAIN MSR = CPUs
      BY DEF ConstructorInv
    <3>2. DOMAIN <<>> = {}
      OBVIOUS
    <3> QED
      BY <3>1, <3>2, CPUsAssumption
  <2>3. TablesComplete
    BY TablesOfSupported DEF ConstructorInv, TablesComplete
  <2> QED
    BY <2>1, <2>2, <2>3 DEF ConstructorInv, StartsComplete, ReadyOrNothing, Discovered
<1> QED
  BY <1>1, ConstructorInit, ConstructorStep, PTL DEF Spec

\* The reference core of a socket is an online CPU of it.
LEMMA ReferenceCores ==
  ASSUME ConstructorInv, Discovered
  PROVE  /\ {topology[c].socket : c \in Online} = 0 .. num_sockets - 1
         /\ \A s \in 0 .. num_sockets - 1 :
              socketRefCore[s] \in Online /\ topology[socketRefCore[s]].socket = s
<1> DEFINE k == Cardinality(Packages(machine))
           sockets == {topology[c].socket : c \in Online}
<1>1. DiscoveryDone /\ machine \in Machines
  BY DEF ConstructorInv
<1>2. Online = Seen(machine) /\ WellFormed(machine)
  BY <1>1, OnlineIsSeen DEF DiscoveryDone
<1>3. k \in Nat \ {0} /\ sockets = 0 .. k - 1 /\ num_sockets = Cardinality(sockets)
  BY <1>1, <1>2, RawFacts, TopologyFacts DEF DiscoveryDone
<1>4. num_sockets = k
  <2> HIDE DEF k, sockets
  <2>1. 0 \in Int /\ k - 1 \in Int
    BY <1>3
  <2>2. Cardinality(0 .. k - 1) = IF 0 > k - 1 THEN 0 ELSE (k - 1) - 0 + 1
    BY <2>1, FS_Interval
  <2> QED
    BY <1>3, <2>2
<1>5. ASSUME NEW s \in sockets
      PROVE  socketRefCore[s] \in Online /\ topology[socketRefCore[s]].socket = s
  <2> DEFINE T == {c \in Online : topology[c].socket = s}
  <2>1. socketRefCore[s] = Max(T)
    BY <1>1 DEF DiscoveryDone
  <2>2. T # {}
    OBVIOUS
  <2>3. T \subseteq 0 .. Cardinality(CPUs) /\ Cardinality(CPUs) \in Nat
    <3>1. Cardinality(CPUs) \in Nat /\ CPUs = 0 .. Cardinality(CPUs) - 1
      BY CPUsAssumption, FS_CardinalityType
    <3>2. Online \subseteq CPUs
      BY DEF Online
    <3> QED
      BY <3>1, <3>2
  <2>4. Max(T) \in T
    <3> HIDE DEF T
    <3> QED
      BY <2>2, <2>3, MaxMember
  <2> QED
    BY <2>1, <2>4
<1> QED
  BY <1>3, <1>4, <1>5

\* The first listed CPU of a package gives its socket, or is not seen.
LEMMA NodesAreSockets ==
  ASSUME ConstructorInv, Discovered, NEW c \in Online
  PROVE  mapNUMANodeToSocket(machine.place[c].package) \in {-1, topology[c].socket}
<1> DEFINE cpus == {d \in machine.listed : machine.place[d].package = machine.place[c].package}
           first == Min(cpus)
<1>1. topology = Topology(machine) /\ machine \in Machines
  BY DEF ConstructorInv, DiscoveryDone
<1>2. Online = Seen(machine) /\ WellFormed(machine)
  BY <1>1, OnlineIsSeen
<1>3. machine.listed \subseteq CPUs /\ CPUs \subseteq Nat
  <2>1. Cardinality(CPUs) \in Nat /\ CPUs = 0 .. Cardinality(CPUs) - 1
    BY CPUsAssumption, FS_CardinalityType
  <2> QED
    BY <1>2, <2>1 DEF WellFormed
<1>4. mapNUMANodeToSocket(machine.place[c].package)
        = IF cpus = {} THEN -1 ELSE topology[first].socket
  BY DEF mapNUMANodeToSocket
<1>5. CASE cpus # {}
  <2>1. first \in cpus
    <3>1. cpus \subseteq Nat
      BY <1>3
    <3> HIDE DEF cpus
    <3> QED
      BY <1>5, <3>1, MinMember
  <2>2. first \in CPUs /\ machine.place[first].package = machine.place[c].package
    BY <1>3, <2>1
  <2> HIDE DEF first, cpus
  <2>3. CASE first \in Seen(machine)
    BY <1>1, <1>2, <1>4, <1>5, <2>2, <2>3, TopologyFacts
  <2>4. CASE first \notin Seen(machine)
    <3>1. topology[first] = NoEntry
      BY <1>1, <1>2, <2>2, <2>4, TopologyFacts
    <3> QED
      BY <1>4, <1>5, <3>1 DEF NoEntry
  <2> QED
    BY <2>3, <2>4
<1> QED
  BY <1>4, <1>5

\* On every machine whose numbers fit the bits of their levels, the tree built
\* from APIC ids is the tree of packages, dies, cores and threads, sockets are
\* numbered without gaps, and energy is read through online CPUs.
THEOREM TreeIsMachine == Spec => []TopologyFaithful
<1>1. ConstructorInv => TopologyFaithful
  <2> SUFFICES ASSUME ConstructorInv, Discovered PROVE TopologyFaithful
    BY DEF TopologyFaithful
  <2>1. DiscoveryDone /\ machine \in Machines
    BY DEF ConstructorInv
  <2>2. Online = Seen(machine) /\ WellFormed(machine)
    BY <2>1, OnlineIsSeen DEF DiscoveryDone
  <2>3. Online = machine.listed \cap machine.allowed /\ offlined = CPUs \ Online
    BY <2>1, <2>2 DEF DiscoveryDone, Seen
  <2>4. /\ UNION {core.threads : core \in systemTopology} = Online
        /\ \A c, d \in Online :
             (\E core \in systemTopology : {c, d} \subseteq core.threads)
               <=> SameCorePlace(machine, c, d)
    BY <2>1, <2>2, TreeFacts DEF DiscoveryDone
  <2>5. \A c, d \in Online :
          topology[c].socket = topology[d].socket
            <=> machine.place[c].package = machine.place[d].package
    BY <2>1, <2>2, TopologyFacts DEF DiscoveryDone
  <2>6. \A s \in DOMAIN energy.pkg : MSR[energy.pkg[s]]
    <3>1. CASE pc \in {"initRDT", "ready"} /\ energy.pkg = PerSocket
      <4>1. /\ DOMAIN energy.pkg = 0 .. num_sockets - 1
            /\ \A s \in 0 .. num_sockets - 1 : energy.pkg[s] = socketRefCore[s]
        BY <3>1 DEF PerSocket
      <4>2. MSR = [c \in CPUs |-> isCoreOnline(c)]
        BY <3>1 DEF ConstructorInv
      <4>3. \A c \in Online : MSR[c]
        BY <4>2 DEF Online
      <4> QED
        BY <4>1, <4>3, ReferenceCores
    <3>2. CASE energy.pkg = <<>>
      BY <3>2
    <3> QED
      BY <3>1, <3>2 DEF ConstructorInv, NoEnergy
  <2> QED
    BY <2>3, <2>4, <2>5, <2>6, ReferenceCores, NodesAreSockets DEF TopologyFaithful, SameCorePlace
<1> QED
  BY <1>1, ConstructorInit, ConstructorStep, PTL DEF Spec
=============================================================================
