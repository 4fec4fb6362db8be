------------------------- MODULE DaemonClientProofs -------------------------
(***************************************************************************)
(* The daemon and its clients are correct for any number of daemons and    *)
(* clients, any command lines and any number of polls: what a daemon       *)
(* publishes, what the id file names, and what a client makes of the two   *)
(* time stamps.                                                            *)
(***************************************************************************)
EXTENDS DaemonClient, TLAPS

-----------------------------------------------------------------------------
(* The inductive invariant *)

Early == {"off", "create", "unlink", "write", "attach", "program"}

\* Groups that the update under way has been through when the daemon is at p.
Passed(p) ==
    CASE p = "core" -> {"system"}
      [] p = "memory" -> {"system", "core"}
      [] p = "qpi" -> {"system", "core", "memory"}
      [] p = "publish" -> Groups
      [] OTHER -> {}

Difference(d) == config[d].mode = "difference"
WantsMemory(d) == "memory" \in config[d].subscribers

\* The poll behind the states "before" while poll k is being published.
Previous(d, k) == IF Difference(d) THEN k - 1 ELSE 0
UncorePrevious(d, k) ==
    IF Difference(d) /\ WantsMemory(d) /\ k > 1 THEN k - 1 ELSE Unread

\* Group g holds the counts of poll k.
Holds(d, g, k) ==
    IF g = "memory" THEN group[d][g] = [from |-> UncorePrevious(d, k), to |-> k, over |-> k - 1]
    ELSE group[d][g].from = Previous(d, k) /\ group[d][g].to = k

\* An attempt is left as long as the daemon is at it.
Trying(d) == pc[d] \in {"off", "create", "unlink"} => attempt[d] < MAX_FILE_CREATION_RETRIES

\* The segment until the first poll
Cleared(d) ==
    pc[d] \in Early =>
        poll[d] = 0 /\ end[d] = 0 /\ \A g \in Groups : group[d][g] = Blank

\* The stamps say which poll was begun and which was published last.
Stamped(d) ==
    /\ begin[d] = IF poll[d] = 0 THEN 0 ELSE 2 * poll[d] - 1
    /\ (version[d] <=> poll[d] > 0)
    /\ end[d] = 2 * poll[d] \/ (poll[d] > 0 /\ end[d] = 2 * poll[d] - 2)
    /\ pc[d] = "sleep" => end[d] = 2 * poll[d]
    /\ pc[d] \in Updating => poll[d] > 0 /\ end[d] = 2 * poll[d] - 2

\* Every group that the daemon fills is between the two stamps.
Between(d) ==
    \A g \in Filled(d) : end[d] <= 2 * group[d][g].to /\ group[d][g].to <= poll[d]

\* The daemon's own copies of the counter states, as it goes through an update
Sampled(d) ==
    /\ pc[d] = "sleep" =>
          /\ system[d].before = Previous(d, poll[d] + 1)
          /\ uncore[d].before = UncorePrevious(d, poll[d] + 1)
          /\ time[d].before = poll[d]
    /\ pc[d] \in Updating =>
          /\ system[d].before = Previous(d, poll[d])
          /\ uncore[d].before = UncorePrevious(d, poll[d])
          /\ time[d].before = poll[d] - 1
          /\ pc[d] # "collect" => system[d].after = poll[d] /\ time[d].after = poll[d]
          /\ pc[d] \in {"qpi", "publish"} =>
                uncore[d].after = IF WantsMemory(d) THEN poll[d] ELSE Unread
          /\ ~WantsMemory(d) => uncore[d].after = Unread
    /\ pc[d] = "sleep" /\ ~WantsMemory(d) => uncore[d].after = Unread

\* The groups written so far
Written(d) ==
    /\ pc[d] \in Groups => pc[d] \in Filled(d)
    /\ pc[d] \in Updating =>
          \A g \in Filled(d) \cap Passed(pc[d]) : Holds(d, g, poll[d])
    /\ pc[d] = "sleep" /\ poll[d] > 0 => \A g \in Filled(d) : Holds(d, g, poll[d])

DInv(d) == Trying(d) /\ Cleared(d) /\ Stamped(d) /\ Between(d) /\ Sampled(d) /\ Written(d)

\* Without an overlap one daemon runs at a time, and the id file is its own.
OneDaemon == ~overlap => \A d, e \in Daemons : pc[d] \in Running /\ pc[e] \in Running => d = e
OwnIdFile ==
    ~overlap => \A d \in Daemons :
        /\ pc[d] = "write" => file = [of |-> d, written |-> FALSE]
        /\ pc[d] \in {"attach", "program"} \cup Serving => file = [of |-> d, written |-> TRUE]

Using == {"use", "bracket", "compare"}

\* A client: the stamp it was given is behind the segment's, what it has read
\* lies between that stamp and the daemon's poll, and it was given a state of
\* another version at most once.
CInv(c) ==
    LET d == attached[c] IN
    /\ cpc[c] \notin {"connect", "failed"} => d \in Daemons
    /\ cpc[c] \notin Using => \A g \in Groups : seen[c][g] = Blank
    /\ cpc[c] \in {"version", "check", "stamp"} \cup Using => last[c] <= end[d]
    /\ cpc[c] = "stamp" => last[c] < end[d]
    /\ cpc[c] \in Using => last[c] > 0
    /\ cpc[c] \in Using => \A g \in Filled(d) \ ToRead(c) :
            last[c] <= 2 * seen[c][g].to /\ seen[c][g].to <= poll[d]
    /\ cpc[c] \in {"bracket", "compare"} => ToRead(c) = {}
    /\ cpc[c] = "compare" /\ seenBegin[c] < last[c] =>
            \A g \in Filled(d) : 2 * seen[c][g].to = last[c]
    /\ outdated[c] <= 1
    /\ outdated[c] > 0 =>
          /\ cpc[c] \in {"version", "failed"} \cup Using
          /\ cpc[c] # "failed" => version[d] /\ ~config[d].current

IInv ==
    /\ TypeOK
    /\ \A d \in Daemons : DInv(d)
    /\ OneDaemon /\ OwnIdFile
    /\ \A c \in Clients : CInv(c)

-----------------------------------------------------------------------------
(* Types *)

Places == {"off", "exited", "gaveup", "killed"} \cup Running

\* The records of the states and intervals keep their fields.
LEMMA DaemonTypes ==
    ASSUME TypeOK, NEW d \in Daemons
    PROVE  /\ config[d].mode \in {"difference", "absolute"}
           /\ config[d].subscribers \subseteq Subscribers
           /\ poll[d] \in Nat /\ begin[d] \in Nat /\ end[d] \in Nat
           /\ CoreCounts(d) \in Interval /\ QPITraffic(d) \in Interval
           /\ \A g \in Groups : group[d][g] \in Interval
           /\ 0 \in Polls /\ Unread \in Polls /\ poll[d] \in Polls
  BY DaemonAssumption
     DEF TypeOK, CoreCounts, QPITraffic, Interval, Polls, Blank, Unread, Stamps

\* The shared memory that shmget has just zeroed is an interval.
LEMMA BlankType == Blank \in Interval /\ Blank.to = 0
  BY DEF Blank, Interval, Polls

\* A step moves one daemon.
LEMMA Going ==
    ASSUME TypeOK, NEW d \in Daemons, NEW there \in Places, GoTo(d, there)
    PROVE  /\ pc' \in [Daemons -> Places]
           /\ \A e \in Daemons : pc'[e] = IF e = d THEN there ELSE pc[e]
  BY DEF TypeOK, GoTo, Places

\* The group that updatePCMState goes on to is one of those it fills.
LEMMA FollowingType ==
    ASSUME NEW d \in Daemons, NEW g \in Groups
    PROVE  /\ Following(d, g) \in {"publish"} \cup (Groups \cap config[d].subscribers)
           /\ Following(d, g) \in Places
  BY DEF Following, Places, Running, Serving, Updating, Groups

\* The steps of an update keep the types.
LEMMA UpdateTypes ==
    ASSUME TypeOK, NEW d \in Daemons,
           \/ BeginUpdate(d) \/ UpdatePCMState(d) \/ Publish(d)
           \/ \E g \in Groups : WriteGroup(d, g)
    PROVE  TypeOK'
<1>0. {"collect", "system", "sleep", "publish"} \subseteq Places
  BY DEF Places, Running, Serving, Updating, Groups
<1>a. /\ poll[d] \in Nat /\ end[d] \in Nat /\ poll[d] \in Polls /\ MaxPolls[d] \in Nat
      /\ CoreCounts(d) \in Interval /\ QPITraffic(d) \in Interval
  BY DaemonTypes, DaemonAssumption
<1>b. poll \in [Daemons -> Nat] /\ \A e \in Daemons : poll[e] <= MaxPolls[e]
  BY DEF TypeOK
<1>c. /\ system \in [Daemons -> [before : Polls, after : Polls, qpi : Polls]]
      /\ uncore \in [Daemons -> [before : Polls, after : Polls]]
      /\ time \in [Daemons -> [before : Polls, after : Polls]]
  BY DEF TypeOK
<1>1. CASE BeginUpdate(d)
  <2>1. pc' \in [Daemons -> Places]
    BY <1>0, <1>1, Going DEF BeginUpdate
  <2>2. poll' \in [Daemons -> Nat] /\ \A e \in Daemons : poll'[e] <= MaxPolls[e]
    BY <1>a, <1>b, <1>1 DEF BeginUpdate
  <2>3. version' \in [Daemons -> BOOLEAN] /\ begin' \in [Daemons -> Stamps]
    BY <1>a, <1>1 DEF BeginUpdate, Stamps, TypeOK
  <2> QED
    BY <1>1, <2>1, <2>2, <2>3 DEF BeginUpdate, TypeOK, clientVars, Stamps, Places
<1>2. CASE UpdatePCMState(d)
  <2>1. pc' \in [Daemons -> Places]
    BY <1>0, <1>2, Going DEF UpdatePCMState
  <2>2. system' \in [Daemons -> [before : Polls, after : Polls, qpi : Polls]]
    BY <1>a, <1>c, <1>2 DEF UpdatePCMState
  <2>3. time' \in [Daemons -> [before : Polls, after : Polls]]
    BY <1>a, <1>c, <1>2 DEF UpdatePCMState
  <2> QED
    BY <1>2, <2>1, <2>2, <2>3 DEF UpdatePCMState, TypeOK, clientVars, shared, Places
<1>3. CASE Publish(d)
  <2>1. pc' \in [Daemons -> Places]
    BY <1>0, <1>3, Going DEF Publish
  <2>2. system' \in [Daemons -> [before : Polls, after : Polls, qpi : Polls]]
    <3>1. Swapped(system[d]) \in [before : Polls, after : Polls, qpi : Polls]
      BY <1>c DEF Swapped
    <3>2. PICK r, q : /\ r \in [before : Polls, after : Polls, qpi : Polls] /\ q \in Polls
                      /\ system' = [system EXCEPT ![d] = [r EXCEPT !.qpi = q]]
      BY <1>c, <1>3, <3>1 DEF Publish, SwapPCMBeforeAfterState
    <3> QED
      BY <1>c, <3>2
  <2>3. uncore' \in [Daemons -> [before : Polls, after : Polls]]
    BY <1>c, <1>3 DEF Publish, SwapPCMBeforeAfterState, Swapped
  <2>4. time' \in [Daemons -> [before : Polls, after : Polls]]
    BY <1>c, <1>3 DEF Publish, Swapped
  <2> QED
    BY <1>a, <1>3, <2>1, <2>2, <2>3, <2>4 DEF Publish, TypeOK, clientVars, Stamps, Places
<1>4. ASSUME NEW g \in Groups, WriteGroup(d, g) PROVE TypeOK'
  <2>1. pc' \in [Daemons -> Places]
    BY <1>4, Going, FollowingType DEF WriteGroup
  <2>2. uncore' \in [Daemons -> [before : Polls, after : Polls]]
    <3>1. uncore' = uncore \/ uncore' = [uncore EXCEPT ![d].after = poll[d]]
      BY <1>4 DEF WriteGroup
    <3>2. uncore[d] \in [before : Polls, after : Polls] /\ poll[d] \in Polls
      BY <1>a, <1>c
    <3>3. [uncore[d] EXCEPT !.after = poll[d]] \in [before : Polls, after : Polls]
      BY <3>2
    <3> QED
      BY <1>c, <3>1, <3>3
  <2>3. MemoryBandwidth(d) \in Interval
    BY <2>2 DEF MemoryBandwidth, Interval, TypeOK
  <2>4. group' \in [Daemons -> [Groups -> Interval]]
    BY <1>a, <1>4, <2>3 DEF WriteGroup, TypeOK, Groups
  <2> QED
    BY <1>4, <2>1, <2>2, <2>4 DEF WriteGroup, TypeOK, clientVars, Places
<1> QED
  BY <1>1, <1>2, <1>3, <1>4

\* So do those of starting.
LEMMA SetupTypes ==
    ASSUME TypeOK, NEW d \in Daemons, Trying(d),
           \/ Start(d) \/ CreateIdFile(d) \/ UnlinkIdFile(d) \/ WriteId(d) \/ Attach(d)
           \/ SetupFails(d) \/ Program(d)
    PROVE  TypeOK'
<1>0. {"create", "unlink", "write", "attach", "program", "sleep", "detach", "exited", "gaveup"}
        \subseteq Places
  BY DEF Running, Serving, Places
<1>1. pc' \in [Daemons -> Places]
  BY <1>0, Going DEF Start, CreateIdFile, UnlinkIdFile, WriteId, Attach, SetupFails, Program
<1>2. CASE Start(d)
  BY <1>1, <1>2 DEF Start, TypeOK, clientVars, Places
<1>3. CASE CreateIdFile(d)
  <2>1. file' \in {NoFile} \cup [of : Daemons \cup {Stale}, written : BOOLEAN]
    <3>1. file \in {NoFile} \cup [of : Daemons \cup {Stale}, written : BOOLEAN]
      BY DEF TypeOK
    <3>2. [of |-> d, written |-> FALSE] \in [of : Daemons \cup {Stale}, written : BOOLEAN]
      OBVIOUS
    <3>3. file' = file \/ file' = [of |-> d, written |-> FALSE]
      BY <1>3 DEF CreateIdFile
    <3> QED
      BY <3>1, <3>2, <3>3
  <2> QED
    BY <1>1, <1>3, <2>1 DEF CreateIdFile, shared, TypeOK, clientVars, Places
<1>4. CASE UnlinkIdFile(d)
  <2>1. attempt \in [Daemons -> 0 .. MAX_FILE_CREATION_RETRIES]
    BY DEF TypeOK
  <2>2. attempt' \in [Daemons -> 0 .. MAX_FILE_CREATION_RETRIES]
    BY <1>4, <2>1 DEF UnlinkIdFile, Trying, MAX_FILE_CREATION_RETRIES
  <2> QED
    BY <1>1, <1>4, <2>2 DEF UnlinkIdFile, shared, TypeOK, clientVars, Places
<1>5. CASE WriteId(d)
  BY <1>1, <1>5 DEF WriteId, shared, TypeOK, clientVars, Places
<1>6. CASE Attach(d)
  BY <1>1, <1>6, BlankType DEF Attach, Stamps, TypeOK, clientVars, Places
<1>7. CASE SetupFails(d)
  BY <1>1, <1>7 DEF SetupFails, shared, TypeOK, clientVars, Places
<1>8. CASE Program(d)
  <2>1. /\ 0 \in Polls /\ Unread \in Polls
        /\ system \in [Daemons -> [before : Polls, after : Polls, qpi : Polls]]
        /\ uncore \in [Daemons -> [before : Polls, after : Polls]]
        /\ time \in [Daemons -> [before : Polls, after : Polls]]
    BY DaemonTypes DEF TypeOK
  <2>2. /\ system' \in [Daemons -> [before : Polls, after : Polls, qpi : Polls]]
        /\ uncore' \in [Daemons -> [before : Polls, after : Polls]]
        /\ time' \in [Daemons -> [before : Polls, after : Polls]]
    <3>1. CASE UNCHANGED <<system, uncore, time>>
      BY <2>1, <3>1
    <3>2. CASE /\ system' = [system EXCEPT ![d] = [before |-> 0, after |-> 0, qpi |-> 0]]
               /\ uncore' = [uncore EXCEPT ![d] = [before |-> Unread, after |-> Unread]]
               /\ time' = [time EXCEPT ![d] = [before |-> 0, after |-> 0]]
      BY <2>1, <3>2
    <3> QED
      BY <1>8, <3>1, <3>2 DEF Program
  <2> QED
    BY <1>1, <1>8, <2>2 DEF Program, shared, TypeOK, clientVars, Places
<1> QED
  BY <1>2, <1>3, <1>4, <1>5, <1>6, <1>7, <1>8

\* The steps that end a daemon keep the types.
LEMMA EndTypes ==
    ASSUME TypeOK, NEW d \in Daemons,
           Signal(d) \/ Kill(d) \/ RemoveSegment(d) \/ RemoveIdFile(d)
    PROVE  TypeOK'
  BY DEF TypeOK, GoTo, clientVars, shared, Running, Signal, Kill, RemoveSegment, RemoveIdFile

\* The steps of a client keep the types.
LEMMA ClientTypes ==
    ASSUME TypeOK, NEW c \in Clients, CInv(c), ClientStep(c)
    PROVE  TypeOK'
<1> USE DEF TypeOK, ClientGoTo, daemonVars, shared, Stamps
<1>1. CASE ReadIdFile(c)
  BY <1>1 DEF ReadIdFile, IdReadable
<1>2. CASE ClientAttach(c)
  BY <1>2 DEF ClientAttach
<1>3. CASE Connect(c)
  <2>1. attached[c] \in Daemons
    BY <1>3 DEF Connect, CInv
  <2> QED
    BY <1>3, <2>1 DEF Connect
<1>4. CASE CheckVersion(c)
  BY <1>4 DEF CheckVersion
<1>5. CASE CheckUpdated(c)
  BY <1>5 DEF CheckUpdated
<1>6. CASE ReturnState(c)
  <2>1. attached[c] \in Daemons
    BY <1>6 DEF ReturnState, CInv
  <2> QED
    BY <1>6, <2>1 DEF ReturnState
<1>7. ASSUME NEW g \in Groups, ReadGroup(c, g) PROVE TypeOK'
  <2>1. attached[c] \in Daemons
    BY <1>7 DEF ReadGroup, CInv
  <2> QED
    BY <1>7, <2>1 DEF ReadGroup
<1>8. CASE ReadBegin(c)
  <2>1. attached[c] \in Daemons
    BY <1>8 DEF ReadBegin, CInv
  <2> QED
    BY <1>8, <2>1 DEF ReadBegin
<1>9. CASE ReadAgain(c)
  BY <1>9, BlankType DEF ReadAgain
<1> QED
  BY <1>1, <1>2, <1>3, <1>4, <1>5, <1>6, <1>7, <1>8, <1>9 DEF ClientStep

-----------------------------------------------------------------------------
(* The daemons *)

\* What DInv(e) speaks of does not change, but for where the daemon is.
Same(e) ==
    /\ config'[e] = config[e] /\ poll'[e] = poll[e]
    /\ system'[e] = system[e] /\ uncore'[e] = uncore[e] /\ time'[e] = time[e]
    /\ version'[e] = version[e] /\ begin'[e] = begin[e] /\ end'[e] = end[e]
    /\ group'[e] = group[e]

\* A step that leaves the data of a daemon alone keeps its invariant.
LEMMA SameKeeps ==
    ASSUME NEW e \in Daemons, DInv(e), Same(e), pc'[e] = pc[e], attempt'[e] = attempt[e]
    PROVE  DInv(e)'
<1> USE DEF Same
<1>1. Trying(e)'
  BY DEF DInv, Trying
<1>2. Cleared(e)'
  BY DEF DInv, Cleared
<1>3. Stamped(e)'
  BY DEF DInv, Stamped
<1>4. Between(e)'
  BY DEF DInv, Between, Filled
<1>5. Sampled(e)'
  BY DEF DInv, Sampled, Previous, UncorePrevious, Difference, WantsMemory
<1>6. Written(e)'
  BY DEF DInv, Written, Filled, Holds, Previous, UncorePrevious, Difference, WantsMemory
<1> QED
  BY <1>1, <1>2, <1>3, <1>4, <1>5, <1>6 DEF DInv

\* A daemon that stops, at any point, leaves the segment as it is.
LEMMA StopKeeps ==
    ASSUME NEW d \in Daemons, DInv(d), Same(d), pc'[d] \notin Early \cup Serving
    PROVE  DInv(d)'
<1> USE DEF Same
<1>0. pc'[d] \notin Groups /\ pc'[d] \notin Updating /\ pc'[d] # "sleep"
      /\ pc'[d] \notin {"off", "create", "unlink"}
  BY DEF Serving, Updating, Early
<1>1. Trying(d)' /\ Cleared(d)' /\ Sampled(d)' /\ Written(d)'
  BY <1>0 DEF Trying, Cleared, Sampled, Written
<1>2. Stamped(d)'
  BY <1>0 DEF DInv, Stamped
<1>3. Between(d)'
  BY DEF DInv, Between, Filled
<1> QED
  BY <1>1, <1>2, <1>3 DEF DInv

\* Until the counters are programmed the segment stays clear.
LEMMA SetupKeeps ==
    ASSUME TypeOK, NEW d \in Daemons, DInv(d),
           \/ Start(d) \/ CreateIdFile(d) \/ UnlinkIdFile(d) \/ WriteId(d) \/ Attach(d)
    PROVE  DInv(d)'
<1>1. pc[d] \in Early
  BY DEF Early, Start, CreateIdFile, UnlinkIdFile, WriteId, Attach
<1>2. /\ poll[d] = 0 /\ begin[d] = 0 /\ end[d] = 0 /\ ~version[d]
      /\ \A g \in Groups : group[d][g] = Blank
  BY <1>1 DEF DInv, Cleared, Stamped
<1>3. /\ poll'[d] = 0 /\ begin'[d] = 0 /\ end'[d] = 0 /\ ~version'[d]
      /\ \A g \in Groups : group'[d][g] = Blank
  <2>1. CASE Attach(d)
    <3>1. /\ version \in [Daemons -> BOOLEAN] /\ begin \in [Daemons -> Stamps]
          /\ end \in [Daemons -> Stamps] /\ group \in [Daemons -> [Groups -> Interval]]
      BY DEF TypeOK
    <3> QED
      BY <1>2, <2>1, <3>1 DEF Attach
  <2>2. CASE ~Attach(d)
    BY <1>2, <2>2 DEF Start, CreateIdFile, UnlinkIdFile, WriteId, shared
  <2> QED
    BY <2>1, <2>2
<1>4. pc'[d] \in (Early \ {"off"}) \cup {"gaveup"}
  BY DEF Start, CreateIdFile, UnlinkIdFile, WriteId, Attach, GoTo, TypeOK, Early
<1>5. /\ pc'[d] \notin Groups /\ pc'[d] \notin Updating /\ pc'[d] # "sleep"
  BY <1>4 DEF Early, Updating, Groups
<1>6. Cleared(d)' /\ Stamped(d)' /\ Sampled(d)' /\ Written(d)'
  <2>1. Cleared(d)' /\ Sampled(d)' /\ Written(d)'
    BY <1>3, <1>5 DEF Cleared, Sampled, Written
  <2>2. Stamped(d)'
    BY <1>3, <1>5 DEF Stamped
  <2> QED
    BY <2>1, <2>2
<1>7. Between(d)'
  <2>1. config' = config
    BY DEF Start, CreateIdFile, UnlinkIdFile, WriteId, Attach
  <2>2. Filled(d)' \subseteq Groups
    BY <2>1, DaemonTypes DEF Filled, Groups, Subscribers
  <2> QED
    BY <1>3, <2>2, BlankType DEF Between
<1>8. Trying(d)'
  BY DEF DInv, Trying, Start, CreateIdFile, UnlinkIdFile, WriteId, Attach, GoTo, TypeOK,
         MAX_FILE_CREATION_RETRIES
<1> QED
  BY <1>6, <1>7, <1>8 DEF DInv

\* PCM::program and the first states keep the invariant of a daemon.
LEMMA ProgramKeeps ==
    ASSUME TypeOK, NEW d \in Daemons, DInv(d), Program(d)
    PROVE  DInv(d)'
<1>1. pc[d] \in Early /\ poll[d] = 0 /\ end[d] = 0 /\ \A g \in Groups : group[d][g] = Blank
  BY DEF Program, Early, DInv, Cleared
<1>2. CASE GoTo(d, "detach") /\ UNCHANGED <<system, uncore, time>>
  <2>1. pc'[d] = "detach" /\ Same(d)
    BY <1>2 DEF Program, GoTo, TypeOK, Same, shared
  <2> QED
    BY <2>1, StopKeeps DEF Early, Serving, Updating, Groups
<1>3. CASE /\ system' = [system EXCEPT ![d] = [before |-> 0, after |-> 0, qpi |-> 0]]
           /\ uncore' = [uncore EXCEPT ![d] = [before |-> Unread, after |-> Unread]]
           /\ time' = [time EXCEPT ![d] = [before |-> 0, after |-> 0]]
           /\ GoTo(d, "sleep")
  <2>1. /\ pc'[d] = "sleep" /\ system'[d].before = 0 /\ time'[d].before = 0
        /\ uncore'[d].before = Unread /\ uncore'[d].after = Unread
    BY <1>3 DEF GoTo, TypeOK
  <2>2. /\ poll'[d] = 0 /\ begin' = begin /\ end' = end /\ version' = version /\ group' = group
        /\ config' = config
    BY <1>1 DEF Program, shared
  <2>3. Trying(d)' /\ Cleared(d)' /\ Written(d)'
    BY <2>1, <2>2 DEF Trying, Cleared, Written, Early, Updating, Groups
  <2>4. Stamped(d)'
    BY <1>1, <2>1, <2>2 DEF Stamped, DInv, Updating, Groups
  <2>5. Between(d)'
    BY <1>1, <2>2 DEF Between, DInv, Filled
  <2>6. Sampled(d)'
    BY <2>1, <2>2 DEF Sampled, Updating, Groups, Previous, UncorePrevious, Difference, WantsMemory
  <2> QED
    BY <2>3, <2>4, <2>5, <2>6 DEF DInv
<1> QED
  BY <1>2, <1>3 DEF Program

\* Stamping the begin of an update keeps the invariant of a daemon.
LEMMA BeginKeeps ==
    ASSUME TypeOK, NEW d \in Daemons, DInv(d), BeginUpdate(d)
    PROVE  DInv(d)'
<1>0. poll[d] \in Nat /\ end[d] \in Nat /\ \A g \in Filled(d) : group[d][g].to <= poll[d]
  BY DaemonTypes DEF DInv, Between
<1>1. /\ pc[d] = "sleep" /\ pc'[d] = "collect" /\ poll'[d] = poll[d] + 1 /\ version'[d]
      /\ begin'[d] = 2 * poll[d] + 1
  BY DEF BeginUpdate, GoTo, TypeOK
<1>2. /\ config' = config /\ system' = system /\ uncore' = uncore /\ time' = time
      /\ end' = end /\ group' = group
  BY DEF BeginUpdate
<1>3. Trying(d)' /\ Cleared(d)' /\ Written(d)'
  BY <1>1, <1>2 DEF Trying, Cleared, Written, Early, Passed, Groups
<1>4. Stamped(d)'
  BY <1>0, <1>1, <1>2 DEF Stamped, DInv
<1>5. Between(d)'
  <2>1. \A g \in Filled(d) : group[d][g].to \in Int
    <3>1. \A g \in Filled(d) : group[d][g] \in Interval
      BY DaemonTypes DEF Filled, Subscribers, Groups
    <3> QED
      BY <3>1 DEF Interval, Polls, Unread
  <2> QED
    BY <1>0, <1>1, <1>2, <2>1 DEF Between, DInv, Filled
<1>6. Sampled(d)'
  BY <1>0, <1>1, <1>2
     DEF Sampled, DInv, Updating, Previous, UncorePrevious, Difference, WantsMemory
<1> QED
  BY <1>3, <1>4, <1>5, <1>6 DEF DInv

\* Sampling all counters keeps the invariant of a daemon.
LEMMA CollectKeeps ==
    ASSUME TypeOK, NEW d \in Daemons, DInv(d), UpdatePCMState(d)
    PROVE  DInv(d)'
<1>1. /\ pc[d] = "collect" /\ pc'[d] = "system"
      /\ system'[d].before = system[d].before /\ system'[d].after = poll[d]
      /\ time'[d].before = time[d].before /\ time'[d].after = poll[d]
  <2>1. /\ system \in [Daemons -> [before : Polls, after : Polls, qpi : Polls]]
        /\ time \in [Daemons -> [before : Polls, after : Polls]]
        /\ pc \in [Daemons -> Places]
    BY DEF TypeOK, Places
  <2> QED
    BY <2>1 DEF UpdatePCMState, GoTo
<1>2. /\ config' = config /\ poll' = poll /\ uncore' = uncore /\ begin' = begin
      /\ version' = version /\ end' = end /\ group' = group
  BY DEF UpdatePCMState, shared
<1>3. Trying(d)' /\ Cleared(d)' /\ Written(d)'
  BY <1>1, <1>2 DEF Trying, Cleared, Written, Early, Passed, Filled
<1>4. Stamped(d)'
  BY <1>1, <1>2 DEF Stamped, DInv, Updating
<1>5. Between(d)'
  BY <1>2 DEF Between, DInv, Filled
<1>6. Sampled(d)'
  BY <1>1, <1>2
     DEF Sampled, DInv, Updating, Previous, UncorePrevious, Difference, WantsMemory
<1> QED
  BY <1>3, <1>4, <1>5, <1>6 DEF DInv

\* Stamping the end and swapping the states keeps the invariant of a daemon.
LEMMA PublishKeeps ==
    ASSUME TypeOK, NEW d \in Daemons, DInv(d), Publish(d)
    PROVE  DInv(d)'
<1>0. /\ system \in [Daemons -> [before : Polls, after : Polls, qpi : Polls]]
      /\ uncore \in [Daemons -> [before : Polls, after : Polls]]
      /\ time \in [Daemons -> [before : Polls, after : Polls]]
      /\ pc \in [Daemons -> Places] /\ end \in [Daemons -> Nat]
      /\ poll[d] \in Nat
  BY DaemonTypes DEF TypeOK, Places, Stamps
<1>1. /\ pc[d] = "publish" /\ pc'[d] = "sleep" /\ time'[d].before = time[d].after
      /\ end'[d] = 2 * poll[d]
  BY <1>0 DEF Publish, GoTo, Swapped
<1>2. /\ config' = config /\ poll' = poll /\ begin' = begin
      /\ version' = version /\ group' = group
  BY DEF Publish
<1>3. /\ system'[d].before = IF Difference(d) THEN system[d].after ELSE system[d].before
      /\ Difference(d) => /\ uncore'[d].before = uncore[d].after
                          /\ uncore'[d].after = uncore[d].before
      /\ ~Difference(d) => uncore' = uncore
  <2>1. CASE Difference(d)
    BY <1>0, <2>1 DEF Publish, SwapPCMBeforeAfterState, Swapped, Difference
  <2>2. CASE ~Difference(d)
    BY <1>0, <2>2 DEF Publish, SwapPCMBeforeAfterState, Difference
  <2> QED
    BY <2>1, <2>2
<1>4. \A g \in Filled(d) : Holds(d, g, poll[d]) /\ group[d][g].to = poll[d]
  <2>1. Filled(d) \subseteq Passed("publish")
    BY DaemonTypes DEF Filled, Subscribers, Groups, Passed
  <2>2. \A g \in Filled(d) : Holds(d, g, poll[d])
    BY <1>1, <2>1 DEF DInv, Written, Updating
  <2> QED
    BY <2>2 DEF Holds
<1>5. Trying(d)' /\ Cleared(d)' /\ Written(d)'
  BY <1>1, <1>2, <1>4 DEF Trying, Cleared, Written, Early, Updating, Groups, Filled,
       Holds, Previous, UncorePrevious, Difference, WantsMemory
<1>6. Stamped(d)'
  BY <1>0, <1>1, <1>2 DEF Stamped, DInv, Updating, Groups
<1>7. Between(d)'
  BY <1>0, <1>1, <1>2, <1>4 DEF Between, Filled
<1>8. Sampled(d)'
  BY <1>0, <1>1, <1>2, <1>3
     DEF Sampled, DInv, Stamped, Updating, Groups, Previous, UncorePrevious, Difference, WantsMemory
<1> QED
  BY <1>5, <1>6, <1>7, <1>8 DEF DInv

\* The group after g is one the daemon fills, and what it passes over is not.
LEMMA FollowingPasses ==
    ASSUME TypeOK, NEW d \in Daemons, NEW g \in Groups
    PROVE  /\ Following(d, g) \in {"publish"} \cup Filled(d)
           /\ Following(d, g) \in {"core", "memory", "qpi", "publish"}
           /\ Filled(d) \cap Passed(Following(d, g)) \subseteq Passed(g) \cup {g}
           /\ Following(d, g) \in {"qpi", "publish"} =>
                 g \in {"memory", "qpi"} \/ ~WantsMemory(d)
  BY DaemonTypes DEF Following, Filled, Passed, Groups, Subscribers, WantsMemory

\* Filling one group of the shared memory keeps the invariant of a daemon.
LEMMA WriteKeeps ==
    ASSUME TypeOK, NEW d \in Daemons, DInv(d), NEW g \in Groups, WriteGroup(d, g)
    PROVE  DInv(d)'
<1>0. /\ uncore \in [Daemons -> [before : Polls, after : Polls]]
      /\ group \in [Daemons -> [Groups -> Interval]]
      /\ pc \in [Daemons -> Places]
      /\ poll[d] \in Nat /\ end[d] \in Nat
  BY DaemonTypes DEF TypeOK, Places
<1>1. /\ pc[d] = g /\ pc'[d] = Following(d, g) /\ g \in Updating /\ g # "collect"
      /\ pc'[d] \in Updating /\ pc'[d] # "collect"
  BY <1>0, FollowingPasses DEF WriteGroup, GoTo, Updating, Groups
<1>2. /\ config' = config /\ poll' = poll /\ system' = system /\ time' = time
      /\ begin' = begin /\ version' = version /\ end' = end
  BY DEF WriteGroup
<1>3. /\ uncore'[d].before = uncore[d].before
      /\ uncore'[d].after = IF g = "memory" THEN poll[d] ELSE uncore[d].after
  BY <1>0 DEF WriteGroup
<1>4. /\ system[d].before = Previous(d, poll[d]) /\ system[d].after = poll[d]
      /\ uncore[d].before = UncorePrevious(d, poll[d]) /\ time[d].before = poll[d] - 1
      /\ time[d].after = poll[d] /\ poll[d] > 0 /\ end[d] = 2 * poll[d] - 2
  BY <1>1 DEF DInv, Sampled, Stamped
<1>5. \A f \in Groups \ {g} : group'[d][f] = group[d][f]
  BY <1>0 DEF WriteGroup
<1>6. Holds(d, g, poll[d])' /\ group'[d][g].to = poll[d]
  <2>1. CASE g = "memory"
    <3>1. group'[d][g] = MemoryBandwidth(d)
      BY <1>0, <2>1 DEF WriteGroup
    <3> QED
      BY <1>2, <1>3, <1>4, <2>1, <3>1
         DEF MemoryBandwidth, Holds, UncorePrevious, Difference, WantsMemory
  <2>2. CASE g # "memory"
    <3>1. group'[d][g] = CoreCounts(d) \/ group'[d][g] = QPITraffic(d)
      BY <1>0, <2>2 DEF WriteGroup, Groups
    <3> QED
      BY <1>2, <1>4, <2>2, <3>1 DEF CoreCounts, QPITraffic, Holds, Previous, Difference
  <2> QED
    BY <2>1, <2>2
<1>7. Trying(d)' /\ Cleared(d)'
  BY <1>1 DEF Trying, Cleared, Early, Updating, Groups
<1>8. Stamped(d)'
  BY <1>1, <1>2, <1>4 DEF Stamped, DInv, Updating, Groups
<1>9. Filled(d)' = Filled(d) /\ Filled(d) \subseteq Groups
  BY <1>2, DaemonTypes DEF Filled, Groups, Subscribers
<1>10. Between(d)'
  <2>1. ASSUME NEW f \in Filled(d)
        PROVE  end'[d] <= 2 * group'[d][f].to /\ group'[d][f].to <= poll'[d]
    <3>1. CASE f = g
      BY <1>0, <1>2, <1>4, <1>6, <3>1
    <3>2. CASE f # g
      BY <1>2, <1>5, <1>9, <3>2 DEF DInv, Between
    <3> QED
      BY <3>1, <3>2
  <2> QED
    BY <1>9, <2>1 DEF Between
<1>11. Sampled(d)'
  <2>1. pc'[d] \in {"qpi", "publish"} =>
            uncore'[d].after = IF WantsMemory(d) THEN poll[d] ELSE Unread
    <3> SUFFICES ASSUME pc'[d] \in {"qpi", "publish"}
                 PROVE  uncore'[d].after = IF WantsMemory(d) THEN poll[d] ELSE Unread
      OBVIOUS
    <3>1. g \in {"memory", "qpi"} \/ ~WantsMemory(d)
      BY <1>1, FollowingPasses
    <3>2. g = "memory" => WantsMemory(d)
      BY <1>1 DEF DInv, Written, Filled, WantsMemory
    <3> QED
      BY <1>1, <1>3, <3>1, <3>2 DEF DInv, Sampled
  <2>2. ~WantsMemory(d) => uncore'[d].after = Unread
    <3>1. g = "memory" => WantsMemory(d)
      BY <1>1 DEF DInv, Written, Filled, WantsMemory
    <3> QED
      BY <1>1, <1>3, <3>1 DEF DInv, Sampled
  <2>3. WantsMemory(d)' = WantsMemory(d) /\ Difference(d)' = Difference(d)
    BY <1>2 DEF WantsMemory, Difference
  <2>4. pc'[d] # "sleep"
    BY <1>1 DEF Updating, Groups
  <2> QED
    BY <1>1, <1>2, <1>3, <1>4, <2>1, <2>2, <2>3, <2>4 DEF Sampled, Previous, UncorePrevious
<1>12. Written(d)'
  <2>1. ASSUME NEW f \in Filled(d) \cap Passed(pc'[d]) PROVE Holds(d, f, poll[d])'
    <3>1. CASE f = g
      BY <1>6, <3>1
    <3>2. CASE f # g
      <4>1. f \in Passed(g)
        BY <1>1, <2>1, <3>2, FollowingPasses
      <4>2. Holds(d, f, poll[d])
        BY <1>1, <2>1, <4>1 DEF DInv, Written
      <4> QED
        BY <1>2, <1>5, <1>9, <3>2, <4>2
           DEF Holds, Previous, UncorePrevious, Difference, WantsMemory
    <3> QED
      BY <3>1, <3>2
  <2>2. pc'[d] \in Groups => pc'[d] \in Filled(d)
    BY <1>1, FollowingPasses DEF Groups
  <2>3. pc'[d] # "sleep"
    BY <1>1 DEF Updating, Groups
  <2> QED
    BY <1>9, <2>1, <2>2, <2>3 DEF Written
<1> QED
  BY <1>7, <1>8, <1>10, <1>11, <1>12 DEF DInv

\* A step of a daemon concerns no other daemon.
LEMMA OthersSame ==
    ASSUME TypeOK, NEW d \in Daemons, DaemonStep(d) \/ Signal(d) \/ Kill(d),
           NEW e \in Daemons, e # d
    PROVE  Same(e) /\ pc'[e] = pc[e] /\ attempt'[e] = attempt[e]
<1> USE DEF TypeOK, Same, GoTo, shared
<1>1. CASE \/ Start(d) \/ CreateIdFile(d) \/ UnlinkIdFile(d) \/ WriteId(d) \/ Attach(d)
           \/ SetupFails(d) \/ Program(d)
  BY <1>1 DEF Start, CreateIdFile, UnlinkIdFile, WriteId, Attach, SetupFails, Program
<1>2. CASE \/ BeginUpdate(d) \/ UpdatePCMState(d) \/ Publish(d)
  BY <1>2 DEF BeginUpdate, UpdatePCMState, Publish, SwapPCMBeforeAfterState
<1>3. ASSUME NEW g \in Groups, WriteGroup(d, g)
      PROVE  Same(e) /\ pc'[e] = pc[e] /\ attempt'[e] = attempt[e]
  BY <1>3 DEF WriteGroup
<1>4. CASE RemoveSegment(d) \/ RemoveIdFile(d) \/ Signal(d) \/ Kill(d)
  BY <1>4 DEF RemoveSegment, RemoveIdFile, Signal, Kill
<1> QED
  BY <1>1, <1>2, <1>3, <1>4 DEF DaemonStep

\* Ends that leave the segment alone
LEMMA StopStep ==
    ASSUME TypeOK, NEW d \in Daemons,
           SetupFails(d) \/ RemoveSegment(d) \/ RemoveIdFile(d) \/ Signal(d) \/ Kill(d)
    PROVE  Same(d) /\ pc'[d] \in {"exited", "remove", "detach", "killed"}
  BY DEF SetupFails, RemoveSegment, RemoveIdFile, Signal, Kill, TypeOK, GoTo, Same, shared

\* A step of a daemon keeps the invariants of all daemons: it writes its own
\* segment only.
LEMMA DaemonsKeep ==
    ASSUME TypeOK, \A e \in Daemons : DInv(e),
           NEW d \in Daemons, DaemonStep(d) \/ Signal(d) \/ Kill(d)
    PROVE  \A e \in Daemons : DInv(e)'
<1>1. DInv(d)'
  <2>1. CASE \/ Start(d) \/ CreateIdFile(d) \/ UnlinkIdFile(d) \/ WriteId(d) \/ Attach(d)
    BY <2>1, SetupKeeps
  <2>2. CASE SetupFails(d) \/ RemoveSegment(d) \/ RemoveIdFile(d) \/ Signal(d) \/ Kill(d)
    <3>1. Same(d) /\ pc'[d] \in {"exited", "remove", "detach", "killed"}
      BY <2>2, StopStep
    <3> QED
      BY <3>1, StopKeeps DEF Early, Serving, Updating, Groups
  <2>3. CASE Program(d)
    BY <2>3, ProgramKeeps
  <2>4. CASE BeginUpdate(d)
    BY <2>4, BeginKeeps
  <2>5. CASE UpdatePCMState(d)
    BY <2>5, CollectKeeps
  <2>6. CASE \E g \in Groups : WriteGroup(d, g)
    BY <2>6, WriteKeeps
  <2>7. CASE Publish(d)
    BY <2>7, PublishKeeps
  <2> QED
    BY <2>1, <2>2, <2>3, <2>4, <2>5, <2>6, <2>7 DEF DaemonStep
<1>2. ASSUME NEW e \in Daemons, e # d PROVE DInv(e)'
  BY <1>2, OthersSame, SameKeeps
<1> QED
  BY <1>1, <1>2

-----------------------------------------------------------------------------
(* The id file *)

\* A step of a daemon keeps the agreement of id file and daemons.
LEMMA FileKeeps ==
    ASSUME TypeOK, OneDaemon, OwnIdFile,
           NEW d \in Daemons, DaemonStep(d) \/ Signal(d) \/ Kill(d)
    PROVE  OneDaemon' /\ OwnIdFile'
<1>0. /\ pc \in [Daemons -> Places]
      /\ file \in {NoFile} \cup [of : Daemons \cup {Stale}, written : BOOLEAN]
      /\ overlap \in BOOLEAN
      /\ NoFile \notin [of : Daemons \cup {Stale}, written : BOOLEAN]
  BY DaemonAssumption DEF TypeOK, Places
<1>1. \A e \in Daemons \ {d} : pc'[e] = pc[e]
  BY OthersSame
<1>2. CASE Start(d)
  <2>1. pc[d] = "off" /\ pc'[d] = "create"
        /\ file' = file /\ (~overlap' => ~overlap /\ \A e \in Daemons : pc[e] \notin Running)
    BY <1>0, <1>2 DEF Start, GoTo
  <2>2. OneDaemon'
    BY <1>1, <2>1 DEF OneDaemon
  <2>3. OwnIdFile'
    BY <1>1, <2>1 DEF OwnIdFile, Running, Serving, Updating, Groups
  <2> QED
    BY <2>2, <2>3
<1>3. CASE ~Start(d)
  <2>1. overlap' = overlap /\ pc[d] \in Running
    BY <1>3 DEF DaemonStep, CreateIdFile, UnlinkIdFile, WriteId, Attach, SetupFails, Program,
         BeginUpdate, UpdatePCMState, WriteGroup, Publish, RemoveSegment, RemoveIdFile, Signal, Kill,
         Running, Serving, Updating, Groups
  <2>2. OneDaemon'
    BY <1>1, <2>1 DEF OneDaemon
  <2>3. ASSUME ~overlap, NEW e \in Daemons, e # d PROVE pc'[e] \notin Running
    BY <1>1, <2>1, <2>3 DEF OneDaemon
  <2>4. ASSUME ~overlap
        PROVE  /\ pc'[d] = "write" => file' = [of |-> d, written |-> FALSE]
               /\ pc'[d] \in {"attach", "program"} \cup Serving => file' = [of |-> d, written |-> TRUE]
    <3> USE <2>4 DEF GoTo, OwnIdFile
    <3>1. CASE CreateIdFile(d)
      BY <1>0, <3>1 DEF CreateIdFile, Serving, Updating, Groups
    <3>2. CASE UnlinkIdFile(d)
      BY <1>0, <3>2 DEF UnlinkIdFile, Serving, Updating, Groups
    <3>3. CASE WriteId(d)
      <4>1. file = [of |-> d, written |-> FALSE] /\ pc'[d] = "attach"
        BY <1>0, <3>3 DEF WriteId
      <4>2. file \in [of : Daemons \cup {Stale}, written : BOOLEAN] /\ file.of = d
        BY <4>1
      <4>3. file # NoFile
        BY <1>0, <4>2
      <4> QED
        BY <3>3, <4>1, <4>2, <4>3 DEF WriteId
    <3>4. CASE Attach(d)
      BY <1>0, <3>4 DEF Attach, Serving, Updating, Groups
    <3>5. CASE Program(d)
      BY <1>0, <3>5 DEF Program, Serving, Updating, Groups
    <3>6. CASE BeginUpdate(d) \/ UpdatePCMState(d) \/ Publish(d) \/ \E g \in Groups : WriteGroup(d, g)
      <4>1. pc[d] \in Serving /\ file' = file /\ pc'[d] \in Serving
        BY <1>0, <3>6, FollowingType
           DEF BeginUpdate, UpdatePCMState, Publish, WriteGroup, Serving, Updating, Groups
      <4> QED
        BY <4>1 DEF Serving, Updating, Groups
    <3>7. CASE SetupFails(d) \/ RemoveSegment(d) \/ RemoveIdFile(d) \/ Signal(d) \/ Kill(d)
      BY <3>7, StopStep DEF Serving, Updating, Groups
    <3> QED
      BY <1>3, <3>1, <3>2, <3>3, <3>4, <3>5, <3>6, <3>7 DEF DaemonStep
  <2>5. OwnIdFile'
    BY <2>1, <2>3, <2>4 DEF OwnIdFile, Running
  <2> QED
    BY <2>2, <2>5
<1> QED
  BY <1>2, <1>3

-----------------------------------------------------------------------------
(* The clients *)

\* Stamps and polls only grow, and a version stays.
LEMMA Grows ==
    ASSUME TypeOK, \A e \in Daemons : DInv(e),
           NEW d \in Daemons, DaemonStep(d) \/ Signal(d) \/ Kill(d)
    PROVE  /\ config' = config
           /\ \A e \in Daemons :
                /\ end[e] <= end'[e] /\ poll[e] <= poll'[e] /\ (version[e] => version'[e])
                /\ end[e] \in Nat /\ end'[e] \in Nat /\ poll[e] \in Nat /\ poll'[e] \in Nat
<1>0. \A e \in Daemons : end[e] \in Nat /\ poll[e] \in Nat
  BY DaemonTypes
<1>1. config' = config
  BY DEF DaemonStep, Start, CreateIdFile, UnlinkIdFile, WriteId, Attach, SetupFails, Program,
         BeginUpdate, UpdatePCMState, WriteGroup, Publish, RemoveSegment, RemoveIdFile, Signal, Kill
<1>2. \A e \in Daemons \ {d} : end'[e] = end[e] /\ poll'[e] = poll[e] /\ version'[e] = version[e]
  BY OthersSame DEF Same
<1>3. /\ end[d] <= end'[d] /\ poll[d] <= poll'[d] /\ (version[d] => version'[d])
      /\ end'[d] \in Nat /\ poll'[d] \in Nat
  <2>1. CASE Attach(d)
    <3>1. end[d] = 0 /\ poll[d] = 0 /\ ~version[d]
      BY <2>1 DEF Attach, DInv, Cleared, Stamped, Early
    <3>2. end'[d] = 0 /\ poll'[d] = poll[d]
      BY <2>1 DEF Attach, TypeOK
    <3> QED
      BY <3>1, <3>2
  <2>2. CASE BeginUpdate(d)
    <3>1. end' = end /\ poll'[d] = poll[d] + 1 /\ version'[d]
      BY <2>2 DEF BeginUpdate, TypeOK
    <3> QED
      BY <1>0, <3>1
  <2>3. CASE Publish(d)
    <3>1. end'[d] = 2 * poll[d] /\ poll' = poll /\ version' = version
      BY <2>3 DEF Publish, TypeOK
    <3>2. end[d] <= 2 * poll[d]
      BY <1>0 DEF DInv, Stamped
    <3> QED
      BY <1>0, <3>1, <3>2
  <2>4. CASE ~Attach(d) /\ ~BeginUpdate(d) /\ ~Publish(d)
    <3>1. end' = end /\ poll' = poll /\ version' = version
      BY <2>4 DEF DaemonStep, Start, CreateIdFile, UnlinkIdFile, WriteId, SetupFails, Program,
           UpdatePCMState, WriteGroup, RemoveSegment, RemoveIdFile, Signal, Kill, shared
    <3> QED
      BY <1>0, <3>1
  <2> QED
    BY <2>1, <2>2, <2>3, <2>4
<1> QED
  BY <1>0, <1>1, <1>2, <1>3

\* A daemon's step leaves the clients' invariant alone.
LEMMA DaemonKeepsClient ==
    ASSUME TypeOK, \A e \in Daemons : DInv(e), NEW c \in Clients, CInv(c),
           NEW d \in Daemons, DaemonStep(d) \/ Signal(d) \/ Kill(d)
    PROVE  CInv(c)'
<1>1. UNCHANGED clientVars
  BY DEF DaemonStep, Start, CreateIdFile, UnlinkIdFile, WriteId, Attach, SetupFails, Program,
         BeginUpdate, UpdatePCMState, WriteGroup, Publish, RemoveSegment, RemoveIdFile, Signal, Kill
<1>2. config' = config
  BY Grows
<1>3. last[c] \in Nat /\ \A g \in Groups : seen[c][g].to \in Int
  BY DEF TypeOK, Stamps, Interval, Polls, Unread
<1>4. CASE attached[c] \in Daemons
  <2>1. /\ end[attached[c]] <= end'[attached[c]] /\ poll[attached[c]] <= poll'[attached[c]]
        /\ (version[attached[c]] => version'[attached[c]])
        /\ end[attached[c]] \in Nat /\ end'[attached[c]] \in Nat
        /\ poll[attached[c]] \in Nat /\ poll'[attached[c]] \in Nat
    BY <1>4, Grows
  <2>2. Filled(attached[c])' = Filled(attached[c]) /\ Filled(attached[c]) \subseteq Groups
    BY <1>1, <1>2, <1>4, DaemonTypes DEF clientVars, Filled, Groups, Subscribers
  <2>3. ToRead(c)' = ToRead(c)
    BY <1>1, <2>2 DEF ToRead, clientVars
  <2> QED
    BY <1>1, <1>2, <1>3, <2>1, <2>2, <2>3 DEF CInv, clientVars, Using
<1>5. CASE attached[c] \notin Daemons
  <2>1. cpc[c] \in {"connect", "failed"}
    BY <1>5 DEF CInv
  <2> QED
    BY <1>1, <2>1 DEF CInv, clientVars, Using
<1> QED
  BY <1>4, <1>5

\* A client's step concerns no other client.
LEMMA OtherClients ==
    ASSUME TypeOK, NEW c \in Clients, ClientStep(c), NEW b \in Clients, b # c, CInv(b)
    PROVE  CInv(b)'
<1>1. /\ cpc'[b] = cpc[b] /\ attached'[b] = attached[b] /\ last'[b] = last[b]
      /\ seen'[b] = seen[b] /\ seenBegin'[b] = seenBegin[b] /\ outdated'[b] = outdated[b]
  BY DEF ClientStep, ReadIdFile, ClientAttach, Connect, CheckVersion, CheckUpdated, ReturnState,
         ReadGroup, ReadBegin, ReadAgain, ClientGoTo, TypeOK
<1>2. config' = config /\ version' = version /\ end' = end /\ poll' = poll
  BY DEF ClientStep, ReadIdFile, ClientAttach, Connect, CheckVersion, CheckUpdated, ReturnState,
         ReadGroup, ReadBegin, ReadAgain, daemonVars, shared
<1> QED
  BY <1>1, <1>2 DEF CInv, ToRead, Filled

\* What a client knows when it comes to look at the segment
LEMMA ClientFacts ==
    ASSUME TypeOK, NEW c \in Clients, CInv(c), attached[c] \in Daemons, DInv(attached[c])
    PROVE  LET d == attached[c] IN
           /\ last[c] \in Nat /\ end[d] \in Nat /\ poll[d] \in Nat /\ outdated[c] \in Nat
           /\ Filled(d) \subseteq Groups /\ ToRead(c) \subseteq Filled(d)
           /\ \A g \in Groups : seen[c][g].to \in Int /\ group[d][g].to \in Int
           /\ \A g \in Filled(d) : end[d] <= 2 * group[d][g].to /\ group[d][g].to <= poll[d]
           /\ begin[d] = IF poll[d] = 0 THEN 0 ELSE 2 * poll[d] - 1
           /\ end[d] <= 2 * poll[d]
           /\ version[d] <=> poll[d] > 0
<1>1. last[c] \in Nat /\ outdated[c] \in Nat /\ \A g \in Groups : seen[c][g] \in Interval
  <2>1. /\ last \in [Clients -> Nat] /\ outdated \in [Clients -> 0 .. 2]
        /\ seen \in [Clients -> [Groups -> Interval]]
    BY DEF TypeOK, Stamps
  <2> QED
    BY <2>1
<1>2. /\ end[attached[c]] \in Nat /\ poll[attached[c]] \in Nat
      /\ Filled(attached[c]) \subseteq Groups
      /\ \A g \in Groups : group[attached[c]][g] \in Interval
  BY DaemonTypes DEF Filled, Groups, Subscribers
<1>3. ToRead(c) \subseteq Filled(attached[c])
  BY DEF ToRead
<1>4. \A i \in Interval : i.to \in Int
  BY DEF Interval, Polls, Unread
<1>5. /\ begin[attached[c]] = IF poll[attached[c]] = 0 THEN 0 ELSE 2 * poll[attached[c]] - 1
      /\ end[attached[c]] <= 2 * poll[attached[c]]
      /\ (version[attached[c]] <=> poll[attached[c]] > 0)
  BY <1>2 DEF DInv, Stamped
<1> QED
  BY <1>1, <1>2, <1>3, <1>4, <1>5 DEF DInv, Between

\* A step of a client keeps what it has read consistent with the segment it
\* is attached to.
LEMMA ClientKeeps ==
    ASSUME TypeOK, \A e \in Daemons : DInv(e), NEW c \in Clients, CInv(c), ClientStep(c)
    PROVE  CInv(c)'
<1> DEFINE d == attached[c]
<1>0. /\ cpc \in [Clients -> {"connect", "shmat", "start", "version", "check",
                              "stamp", "use", "bracket", "compare", "failed"}]
      /\ attached \in [Clients -> Daemons \cup {NoSegment}]
      /\ last \in [Clients -> Nat] /\ seenBegin \in [Clients -> Nat]
      /\ seen \in [Clients -> [Groups -> Interval]] /\ outdated \in [Clients -> 0 .. 2]
  BY DEF TypeOK, Stamps
<1>1. config' = config /\ version' = version /\ end' = end /\ poll' = poll /\ group' = group /\ begin' = begin
  BY DEF ClientStep, ReadIdFile, ClientAttach, Connect, CheckVersion, CheckUpdated, ReturnState,
         ReadGroup, ReadBegin, ReadAgain, daemonVars, shared
<1>2. CASE ReadIdFile(c)
  <2>1. /\ cpc[c] = "connect"
        /\ \/ cpc'[c] = "shmat" /\ attached'[c] \in Daemons
           \/ cpc'[c] = "failed"
        /\ last' = last /\ seen' = seen /\ seenBegin' = seenBegin /\ outdated' = outdated
    BY <1>0, <1>2 DEF ReadIdFile, IdReadable, ClientGoTo
  <2>2. outdated[c] = 0
    BY <1>0, <2>1 DEF CInv, Using
  <2> QED
    BY <2>1, <2>2 DEF CInv, Using
<1>3. CASE ~ReadIdFile(c)
  <2>1. d \in Daemons /\ attached' = attached /\ cpc[c] \notin {"connect", "failed"}
    BY <1>0, <1>3 DEF ClientStep, ClientAttach, Connect, CheckVersion, CheckUpdated, ReturnState,
         ReadGroup, ReadBegin, ReadAgain, CInv
  <2>2. /\ last[c] \in Nat /\ end[d] \in Nat /\ poll[d] \in Nat /\ outdated[c] \in Nat
        /\ Filled(d) \subseteq Groups /\ ToRead(c) \subseteq Filled(d)
        /\ \A g \in Groups : seen[c][g].to \in Int /\ group[d][g].to \in Int
        /\ \A g \in Filled(d) : end[d] <= 2 * group[d][g].to /\ group[d][g].to <= poll[d]
        /\ begin[d] = IF poll[d] = 0 THEN 0 ELSE 2 * poll[d] - 1
        /\ end[d] <= 2 * poll[d]
        /\ version[d] <=> poll[d] > 0
    BY <2>1, ClientFacts
  <2>3. attached'[c] = d /\ Filled(d)' = Filled(d)
    BY <1>1, <2>1 DEF Filled
  <2>4. CASE ClientAttach(c)
    BY <1>0, <2>1, <2>3, <2>4 DEF ClientAttach, ClientGoTo, CInv, Using
  <2>5. CASE Connect(c)
    BY <1>0, <1>1, <2>1, <2>2, <2>3, <2>5 DEF Connect, ClientGoTo, CInv, Using
  <2>6. CASE CheckVersion(c)
    BY <1>0, <1>1, <2>1, <2>2, <2>3, <2>6
       DEF CheckVersion, VersionAccepted, ClientGoTo, CInv, Using
  <2>7. CASE CheckUpdated(c)
    <3>1. /\ cpc[c] = "check" /\ last' = last /\ seen' = seen /\ outdated' = outdated
          /\ cpc'[c] = IF last[c] # end[d] THEN "stamp" ELSE "version"
      BY <1>0, <2>7 DEF CheckUpdated, CountersHaveUpdated, ClientGoTo
    <3>2. last[c] <= end[d] /\ outdated[c] = 0 /\ \A g \in Groups : seen[c][g] = Blank
      BY <2>2, <3>1 DEF CInv, Using
    <3> QED
      BY <1>1, <2>1, <2>2, <2>3, <3>1, <3>2 DEF CInv, Using
  <2>8. CASE ReturnState(c)
    <3>1. /\ cpc[c] = "stamp" /\ cpc'[c] = "use" /\ last'[c] = end[d] /\ seen' = seen
          /\ outdated'[c] = IF config[d].current \/ outdated[c] = 2 THEN outdated[c] ELSE outdated[c] + 1
      BY <1>0, <2>8 DEF ReturnState, ClientGoTo
    <3>2. /\ outdated[c] = 0 /\ end[d] > 0 /\ poll[d] > 0 /\ version[d]
          /\ \A g \in Groups : seen[c][g] = Blank
      BY <2>2, <3>1 DEF CInv, Using
    <3>3. ToRead(c)' = Filled(d)
      BY <2>2, <2>3, <3>1, <3>2 DEF ToRead
    <3> QED
      BY <1>1, <2>1, <2>2, <2>3, <3>1, <3>2, <3>3 DEF CInv, Using
  <2>9. ASSUME NEW g \in Groups, ReadGroup(c, g) PROVE CInv(c)'
    <3>1. /\ cpc[c] = "use" /\ g \in ToRead(c) /\ last' = last /\ seenBegin' = seenBegin
          /\ outdated' = outdated
          /\ seen'[c] = [seen[c] EXCEPT ![g] = group[d][g]]
          /\ cpc'[c] = IF ToRead(c) = {g} THEN "bracket" ELSE "use"
      BY <1>0, <2>9 DEF ReadGroup, ClientGoTo
    <3>2. \A f \in Groups : seen'[c][f] = IF f = g THEN group[d][g] ELSE seen[c][f]
      BY <1>0, <3>1
    <3>3. last[c] > 0 /\ last[c] <= end[d]
      BY <3>1 DEF CInv, Using
    <3>4. last[c] <= 2 * group[d][g].to /\ group[d][g].to <= poll[d] /\ group[d][g].to > 0
      BY <2>2, <3>1, <3>3
    <3>5. group[d][g] # Blank
      BY <3>4, BlankType
    <3>6. ToRead(c)' = ToRead(c) \ {g}
      BY <2>2, <2>3, <3>2, <3>5 DEF ToRead
    <3>7. \A f \in Filled(d) \ ToRead(c)' :
             last[c] <= 2 * seen'[c][f].to /\ seen'[c][f].to <= poll[d]
      BY <2>2, <3>1, <3>2, <3>4, <3>6 DEF CInv, Using
    <3> QED
      BY <1>1, <2>1, <2>2, <2>3, <3>1, <3>3, <3>6, <3>7 DEF CInv, Using
  <2>10. CASE ReadBegin(c)
    <3>1. /\ cpc[c] = "bracket" /\ cpc'[c] = "compare" /\ last' = last /\ seen' = seen
          /\ outdated' = outdated /\ seenBegin'[c] = begin[d]
      BY <1>0, <2>10 DEF ReadBegin, ClientGoTo
    <3>2. /\ ToRead(c) = {} /\ ToRead(c)' = {} /\ last[c] > 0 /\ last[c] <= end[d]
          /\ \A g \in Filled(d) : last[c] <= 2 * seen[c][g].to /\ seen[c][g].to <= poll[d]
      BY <2>2, <2>3, <3>1 DEF CInv, Using, ToRead
    <3>3. ASSUME begin[d] < last[c], NEW g \in Filled(d) PROVE 2 * seen[c][g].to = last[c]
      BY <2>2, <3>2, <3>3
    <3> QED
      BY <1>1, <2>1, <2>2, <2>3, <3>1, <3>2, <3>3 DEF CInv, Using
  <2>11. CASE ReadAgain(c)
    BY <1>0, <1>1, <2>1, <2>2, <2>3, <2>11 DEF ReadAgain, ClientGoTo, CInv, Using
  <2> QED
    BY <1>3, <2>4, <2>5, <2>6, <2>7, <2>8, <2>9, <2>10, <2>11 DEF ClientStep
<1> QED
  BY <1>2, <1>3

-----------------------------------------------------------------------------
(* Theorems *)

\* The invariant holds before the first daemon starts.
LEMMA InitIInv == Init => IInv
<1> SUFFICES ASSUME Init PROVE IInv
  OBVIOUS
<1>0. 0 \in Polls /\ Unread \in Polls
  BY DEF Polls, Unread
<1>1. TypeOK
  <2>1. /\ system \in [Daemons -> [before : Polls, after : Polls, qpi : Polls]]
        /\ uncore \in [Daemons -> [before : Polls, after : Polls]]
        /\ time \in [Daemons -> [before : Polls, after : Polls]]
    <3>1. /\ system = [d \in Daemons |-> [before |-> 0, after |-> 0, qpi |-> 0]]
          /\ uncore = [d \in Daemons |-> [before |-> Unread, after |-> Unread]]
          /\ time = [d \in Daemons |-> [before |-> 0, after |-> 0]]
      BY DEF Init
    <3> QED
      BY <1>0, <3>1
  <2>2. /\ group \in [Daemons -> [Groups -> Interval]] /\ seen \in [Clients -> [Groups -> Interval]]
    <3>1. /\ group = [d \in Daemons |-> [g \in Groups |-> Blank]]
          /\ seen = [c \in Clients |-> [g \in Groups |-> Blank]]
      BY DEF Init
    <3> QED
      BY <3>1, BlankType
  <2>3. \A d \in Daemons : poll[d] <= MaxPolls[d]
    <3>1. \A d \in Daemons : poll[d] = 0
      BY DEF Init
    <3>2. \A d \in Daemons : MaxPolls[d] \in Nat
      BY DaemonAssumption
    <3>3. ASSUME NEW d \in Daemons PROVE poll[d] <= MaxPolls[d]
      <4>1. poll[d] = 0 /\ MaxPolls[d] \in Nat
        BY <3>1, <3>2
      <4>2. \A n \in Nat : 0 <= n
        OBVIOUS
      <4> QED
        BY <4>1, <4>2
    <3> QED
      BY <3>3
  <2>4. file \in {NoFile} \cup [of : Daemons \cup {Stale}, written : BOOLEAN]
    <3>1. [of |-> Stale, written |-> TRUE] \in [of : Daemons \cup {Stale}, written : BOOLEAN]
      OBVIOUS
    <3>2. file \in {NoFile, [of |-> Stale, written |-> TRUE]}
      BY DEF Init
    <3> QED
      BY <3>1, <3>2
  <2>5. attempt \in [Daemons -> 0 .. MAX_FILE_CREATION_RETRIES] /\ outdated \in [Clients -> 0 .. 2]
    BY DEF Init, MAX_FILE_CREATION_RETRIES
  <2>6. cpc = [c \in Clients |-> "connect"] /\ attached = [c \in Clients |-> NoSegment]
    BY DEF Init
  <2> QED
    BY <2>1, <2>2, <2>3, <2>4, <2>5, <2>6 DEF Init, TypeOK, Stamps
<1>2. ASSUME NEW d \in Daemons PROVE DInv(d)
  <2>1. Trying(d) /\ Cleared(d) /\ Sampled(d) /\ Written(d)
    BY DEF Init, Trying, Cleared, Sampled, Written, MAX_FILE_CREATION_RETRIES, Updating, Groups
  <2>2. Stamped(d)
    BY DEF Init, Stamped, Updating, Groups
  <2>3. Between(d)
    <3>1. Filled(d) \subseteq Groups
      BY <1>1, DaemonTypes DEF Filled, Groups, Subscribers
    <3> QED
      BY <3>1, BlankType DEF Init, Between
  <2> QED
    BY <2>1, <2>2, <2>3 DEF DInv
<1>3. OneDaemon /\ OwnIdFile
  BY DEF Init, OneDaemon, OwnIdFile, Running, Serving, Updating, Groups
<1>4. ASSUME NEW c \in Clients PROVE CInv(c)
  BY DEF Init, CInv, Using
<1> QED
  BY <1>1, <1>2, <1>3, <1>4 DEF IInv

\* Every step of daemons and clients preserves the invariant.
LEMMA NextIInv == IInv /\ [Next]_vars => IInv'
<1> SUFFICES ASSUME IInv, [Next]_vars PROVE IInv'
  OBVIOUS
<1>0. TypeOK /\ (\A d \in Daemons : DInv(d)) /\ OneDaemon /\ OwnIdFile /\ \A c \in Clients : CInv(c)
  BY DEF IInv
<1>1. ASSUME NEW d \in Daemons, DaemonStep(d) \/ Signal(d) \/ Kill(d) PROVE IInv'
  <2>1. TypeOK'
    <3>1. Trying(d)
      BY <1>0 DEF DInv
    <3> QED
      BY <1>0, <1>1, <3>1, UpdateTypes, SetupTypes, EndTypes DEF DaemonStep
  <2>2. \A e \in Daemons : DInv(e)'
    BY <1>0, <1>1, DaemonsKeep
  <2>3. OneDaemon' /\ OwnIdFile'
    BY <1>0, <1>1, FileKeeps
  <2>4. \A c \in Clients : CInv(c)'
    BY <1>0, <1>1, DaemonKeepsClient
  <2> QED
    BY <2>1, <2>2, <2>3, <2>4 DEF IInv
<1>2. ASSUME NEW c \in Clients, ClientStep(c) PROVE IInv'
  <2>1. TypeOK'
    BY <1>0, <1>2, ClientTypes
  <2>2. UNCHANGED <<daemonVars, file, shared>>
    BY <1>2 DEF ClientStep, ReadIdFile, ClientAttach, Connect, CheckVersion, CheckUpdated,
         ReturnState, ReadGroup, ReadBegin, ReadAgain
  <2>3. ASSUME NEW e \in Daemons PROVE DInv(e)'
    BY <1>0, <2>2, SameKeeps DEF Same, daemonVars, shared
  <2>4. OneDaemon' /\ OwnIdFile'
    BY <1>0, <2>2 DEF OneDaemon, OwnIdFile, daemonVars
  <2>5. \A b \in Clients : CInv(b)'
    BY <1>0, <1>2, ClientKeeps, OtherClients
  <2> QED
    BY <2>1, <2>3, <2>4, <2>5 DEF IInv
<1>3. CASE UNCHANGED vars
  <2>1. TypeOK'
    BY <1>0, <1>3 DEF vars, daemonVars, shared, clientVars, TypeOK
  <2>2. ASSUME NEW e \in Daemons PROVE DInv(e)'
    BY <1>0, <1>3, SameKeeps DEF Same, vars, daemonVars, shared
  <2>3. OneDaemon' /\ OwnIdFile'
    BY <1>0, <1>3 DEF OneDaemon, OwnIdFile, vars, daemonVars
  <2>4. \A c \in Clients : CInv(c)'
    BY <1>0, <1>3 DEF CInv, ToRead, Filled, vars, daemonVars, shared, clientVars
  <2> QED
    BY <2>1, <2>2, <2>3, <2>4 DEF IInv
<1> QED
  BY <1>1, <1>2, <1>3 DEF Next

\* The inductive invariant of daemons and clients holds in every reachable
\* state.
THEOREM Inductive == Spec => []IInv
  BY InitIInv, NextIInv, PTL DEF Spec

\* What a daemon publishes, whom the id file names, and how often a client is
\* given a state of another version (Daemon::getPCMCounters,
\* Daemon::setupSharedMemory, Client::read).
THEOREM DaemonCorrect == Spec => []DaemonInv
<1>1. IInv => DaemonInv
  <2> SUFFICES ASSUME IInv PROVE DaemonInv
    OBVIOUS
  <2>0. TypeOK /\ (\A d \in Daemons : DInv(d)) /\ OneDaemon /\ OwnIdFile /\ \A c \in Clients : CInv(c)
    BY DEF IInv
  <2>1. IntervalsPublished
    <3> SUFFICES ASSUME NEW d \in Daemons, pc[d] = "sleep", poll[d] > 0
                 PROVE  /\ end[d] = 2 * poll[d]
                        /\ \A g \in config[d].subscribers \ {"memory"} :
                              group[d][g].from = Previous(d, poll[d]) /\ group[d][g].to = poll[d]
                        /\ "memory" \in config[d].subscribers =>
                              group[d]["memory"] =
                                 [from |-> IF Previous(d, poll[d]) = 0 THEN Unread ELSE Previous(d, poll[d]),
                                  to |-> poll[d], over |-> poll[d] - 1]
      BY DEF IntervalsPublished, Previous, Difference
    <3>1. poll[d] \in Nat /\ end[d] = 2 * poll[d] /\ \A g \in Filled(d) : Holds(d, g, poll[d])
      BY <2>0, DaemonTypes DEF DInv, Stamped, Written
    <3>2. \A g \in config[d].subscribers : g \in Filled(d)
      BY DEF Filled
    <3>3. "memory" \in config[d].subscribers => UncorePrevious(d, poll[d]) =
             IF Previous(d, poll[d]) = 0 THEN Unread ELSE Previous(d, poll[d])
      BY <3>1 DEF UncorePrevious, Previous, WantsMemory
    <3> QED
      BY <3>1, <3>2, <3>3 DEF Holds
  <2>2. IdFileNamesServer
    BY <2>0 DEF OwnIdFile, IdFileNamesServer
  <2>3. OutdatedAtMostOnce
    BY <2>0 DEF OutdatedAtMostOnce, CInv
  <2> QED
    BY <2>0, <2>1, <2>2, <2>3 DEF DaemonInv
<1> QED
  BY <1>1, Inductive, PTL

\* Whatever a client reads is at least as new as the stamp read() returned it
\* for (Client::read, with the stores of Daemon::getPCMCounters in order).
THEOREM ReadsFreshEnough == Spec => []FreshEnough
<1>1. IInv => FreshEnough
  <2> SUFFICES ASSUME IInv, NEW c \in Clients, cpc[c] \in Using,
                      NEW g \in Filled(attached[c]) \ ToRead(c)
               PROVE  2 * seen[c][g].to >= last[c]
    BY DEF FreshEnough, Using
  <2>1. CInv(c) /\ TypeOK /\ attached[c] \in Daemons /\ DInv(attached[c])
    BY DEF IInv, CInv, Using
  <2>2. last[c] <= 2 * seen[c][g].to
    BY <2>1 DEF CInv
  <2>3. last[c] \in Nat /\ seen[c][g].to \in Int
    BY <2>1, ClientFacts
  <2> QED
    BY <2>2, <2>3
<1> QED
  BY <1>1, Inductive, PTL

\* A client that finds lastUpdateTscBegin below the lastUpdateTscEnd it was
\* given has read the groups of exactly that update.
THEOREM BracketSound == Spec => []BracketDetectsTearing
<1>1. IInv => BracketDetectsTearing
  BY DEF IInv, CInv, BracketDetectsTearing
<1> QED
  BY <1>1, Inductive, PTL
=============================================================================
