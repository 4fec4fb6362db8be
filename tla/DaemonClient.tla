---------------------------- MODULE DaemonClient ----------------------------
(***************************************************************************)
(* pcm-daemon and its clients.  A daemon creates a System V shared memory  *)
(* segment, leaves the segment's id in a file, and after every poll        *)
(* interval rewrites the groups of counters in the segment between two     *)
(* time stamps.  A client finds the segment through the file, waits for    *)
(* the second stamp to change and then reads the groups in place, while    *)
(* the daemon may already be writing the next update.                      *)
(*                                                                         *)
(* A counter state is represented by the number of the poll that read it   *)
(* (0 is the constructor's), a published group by the two polls it lies    *)
(* between, and time stamps by numbers that grow as the TSC does.  Stores  *)
(* of the daemon become visible in program order.                          *)
(***************************************************************************)
EXTENDS Integers

CONSTANTS
    Daemons,   \* processes of pcm-daemon, each started at most once; also the
               \* ids of their segments
    Clients,   \* processes that use PCMDaemon::Client
    NoFile, Stale, NoSegment,  \* distinct values: no id file, the owner of an
               \* id file that an earlier run left, a client without a segment
    Configs,   \* the command lines each daemon may have: mode, subscribers, and
               \* whether the daemon was built with the clients' VERSION
    MaxPolls   \* bound: the polls of each daemon

Groups == {"system", "core", "memory", "qpi"}
Subscribers == Groups \ {"system"}
MAX_FILE_CREATION_RETRIES == 3
Unread == -1     \* a ServerUncoreCounterState as constructed, all zero

ASSUME DaemonAssumption ==
    /\ MaxPolls \in [Daemons -> Nat]
    /\ Stale \notin Daemons /\ NoSegment \notin Daemons
    /\ NoFile \notin [of : Daemons \cup {Stale}, written : BOOLEAN]
    /\ Configs \in [Daemons -> SUBSET [mode : {"difference", "absolute"},
                                       subscribers : SUBSET Subscribers, current : BOOLEAN]]

VARIABLES
    config,    \* what each daemon was told
    pc,        \* where each daemon is
    attempt,   \* setupSharedMemory's attempts to create the id file
    poll,      \* polls begun
    system,    \* systemStatesBefore_, After_ and ForQPIBefore_ (and the core
               \* and socket states, which are treated alike)
    uncore,    \* serverUncoreCounterStatesBefore_ and After_
    time,      \* collectionTimeBefore_ and After_
    file,      \* the id file: whose it is, and whether the id is in it yet
    segment,   \* segments that can be found by their id
    version, begin, end, group,    \* the contents of the segments
    overlap,   \* whether a daemon started while another was running
    cpc,       \* where each client is
    attached,  \* the segment each client has attached
    last,      \* lastUpdatedClientTsc_
    seen,      \* what a client has read of the groups since read() returned
    seenBegin, \* and of lastUpdateTscBegin, after the groups
    outdated   \* states a client was given by a daemon of another version

daemonVars == <<config, pc, attempt, poll, system, uncore, time, overlap>>
shared == <<segment, version, begin, end, group>>
clientVars == <<cpc, attached, last, seen, seenBegin, outdated>>
vars == <<daemonVars, file, shared, clientVars>>

Polls == Nat \cup {Unread}
Interval == [from : Polls, to : Polls, over : Polls]
Stamps == Nat
Blank == [from |-> 0, to |-> 0, over |-> 0]

Updating == {"collect", "publish"} \cup Groups
Serving == {"sleep"} \cup Updating
Running == {"create", "unlink", "write", "attach", "program", "detach", "remove"} \cup Serving

TypeOK ==
    /\ config \in [Daemons -> UNION {Configs[d] : d \in Daemons}]
    /\ \A d \in Daemons : config[d] \in Configs[d]
    /\ pc \in [Daemons -> {"off", "exited", "gaveup", "killed"} \cup Running]
    /\ attempt \in [Daemons -> 0 .. MAX_FILE_CREATION_RETRIES]
    /\ poll \in [Daemons -> Nat] /\ \A d \in Daemons : poll[d] <= MaxPolls[d]
    /\ system \in [Daemons -> [before : Polls, after : Polls, qpi : Polls]]
    /\ uncore \in [Daemons -> [before : Polls, after : Polls]]
    /\ time \in [Daemons -> [before : Polls, after : Polls]]
    /\ file \in {NoFile} \cup [of : Daemons \cup {Stale}, written : BOOLEAN]
    /\ segment \in SUBSET Daemons
    /\ version \in [Daemons -> BOOLEAN]
    /\ begin \in [Daemons -> Stamps] /\ end \in [Daemons -> Stamps]
    /\ group \in [Daemons -> [Groups -> Interval]]
    /\ overlap \in BOOLEAN
    /\ cpc \in [Clients -> {"connect", "shmat", "start", "version", "check",
                            "stamp", "use", "bracket", "compare", "failed"}]
    /\ attached \in [Clients -> Daemons \cup {NoSegment}]
    /\ last \in [Clients -> Stamps]
    /\ seen \in [Clients -> [Groups -> Interval]]
    /\ seenBegin \in [Clients -> Stamps]
    /\ outdated \in [Clients -> 0 .. 2]

Init ==
    /\ config \in [Daemons -> UNION {Configs[d] : d \in Daemons}]
    /\ \A d \in Daemons : config[d] \in Configs[d]
    /\ pc = [d \in Daemons |-> "off"]
    /\ attempt = [d \in Daemons |-> 0] /\ poll = [d \in Daemons |-> 0]
    /\ system = [d \in Daemons |-> [before |-> 0, after |-> 0, qpi |-> 0]]
    /\ uncore = [d \in Daemons |-> [before |-> Unread, after |-> Unread]]
    /\ time = [d \in Daemons |-> [before |-> 0, after |-> 0]]
    /\ file \in {NoFile, [of |-> Stale, written |-> TRUE]}
    /\ segment = {} /\ version = [d \in Daemons |-> FALSE]
    /\ begin = [d \in Daemons |-> 0] /\ end = [d \in Daemons |-> 0]
    /\ group = [d \in Daemons |-> [g \in Groups |-> Blank]]
    /\ overlap = FALSE
    /\ cpc = [c \in Clients |-> "connect"]
    /\ attached = [c \in Clients |-> NoSegment]
    /\ last = [c \in Clients |-> 0]
    /\ seen = [c \in Clients |-> [g \in Groups |-> Blank]]
    /\ seenBegin = [c \in Clients |-> 0] /\ outdated = [c \in Clients |-> 0]

-----------------------------------------------------------------------------
(* Starting a daemon *)

GoTo(d, there) == pc' = [pc EXCEPT ![d] = there]

\* The command line has been read and the segment allocated.
Start(d) ==
    /\ pc[d] = "off"
    /\ segment' = segment \cup {d}
    /\ overlap' = (overlap \/ \E e \in Daemons : pc[e] \in Running)
    /\ GoTo(d, "create")
    /\ UNCHANGED <<config, attempt, poll, system, uncore, time, file, version, begin, end,
                   group, clientVars>>

CreateIdFile(d) ==
    /\ pc[d] = "create"
    /\ \/ /\ file = NoFile
          /\ file' = [of |-> d, written |-> FALSE]
          /\ GoTo(d, "write")
       \/ /\ file # NoFile      \* EEXIST
          /\ GoTo(d, "unlink")
          /\ UNCHANGED file
    /\ UNCHANGED <<config, attempt, poll, system, uncore, time, overlap, shared, clientVars>>

\* ENOENT is fine.  The program exits when the attempts are used up, and
\* nothing that would remove the segment has been registered yet.
UnlinkIdFile(d) ==
    /\ pc[d] = "unlink"
    /\ file' = NoFile
    /\ attempt' = [attempt EXCEPT ![d] = @ + 1]
    /\ GoTo(d, IF attempt[d] + 1 < MAX_FILE_CREATION_RETRIES THEN "create" ELSE "gaveup")
    /\ UNCHANGED <<config, poll, system, uncore, time, overlap, shared, clientVars>>

WriteIdUnflushed(d) ==
    /\ pc[d] = "write"
    /\ GoTo(d, "attach")
    /\ UNCHANGED <<config, attempt, poll, system, uncore, time, overlap, file, shared, clientVars>>

\* Through the descriptor: the file may have lost its name meanwhile.
WriteId(d) ==
    /\ pc[d] = "write"
    /\ file' = IF file # NoFile /\ file.of = d THEN [of |-> d, written |-> TRUE] ELSE file
    /\ GoTo(d, "attach")
    /\ UNCHANGED <<config, attempt, poll, system, uncore, time, overlap, shared, clientVars>>

\* The segment is cleared in place.
Attach(d) ==
    /\ pc[d] = "attach"
    /\ version' = [version EXCEPT ![d] = FALSE]
    /\ begin' = [begin EXCEPT ![d] = 0]
    /\ end' = [end EXCEPT ![d] = 0]
    /\ group' = [group EXCEPT ![d] = [g \in Groups |-> Blank]]
    /\ GoTo(d, "program")
    /\ UNCHANGED <<config, attempt, poll, system, uncore, time, overlap, file, segment, clientVars>>

\* A call of setupSharedMemory fails, or the group is unknown: exit(), with
\* no cleanup registered yet.
SetupFails(d) ==
    /\ pc[d] \in {"create", "unlink", "write", "attach"}
    /\ GoTo(d, "exited")
    /\ UNCHANGED <<config, attempt, poll, system, uncore, time, overlap, file, shared, clientVars>>

\* setupPCM, which registers the cleanup before it programs the counters,
\* and the rest of the constructor.
Program(d) ==
    /\ pc[d] = "program"
    /\ \/ /\ system' = [system EXCEPT ![d] = [before |-> 0, after |-> 0, qpi |-> 0]]
          /\ uncore' = [uncore EXCEPT ![d] = [before |-> Unread, after |-> Unread]]
          /\ time' = [time EXCEPT ![d] = [before |-> 0, after |-> 0]]
          /\ GoTo(d, "sleep")
       \/ /\ GoTo(d, "detach")   \* e.g. the PMU is in use: exit()
          /\ UNCHANGED <<system, uncore, time>>
    /\ UNCHANGED <<config, attempt, poll, overlap, file, shared, clientVars>>

-----------------------------------------------------------------------------
(* Daemon::getPCMCounters *)

BeginUnmarked(d) ==
    /\ pc[d] = "sleep" /\ poll[d] < MaxPolls[d]
    /\ poll' = [poll EXCEPT ![d] = @ + 1]
    /\ version' = [version EXCEPT ![d] = TRUE]
    /\ GoTo(d, "collect")
    /\ UNCHANGED <<config, attempt, system, uncore, time, overlap, file, segment, begin, end, group,
                   clientVars>>

BeginUpdate(d) ==
    /\ pc[d] = "sleep" /\ poll[d] < MaxPolls[d]
    /\ poll' = [poll EXCEPT ![d] = @ + 1]
    /\ version' = [version EXCEPT ![d] = TRUE]
    /\ begin' = [begin EXCEPT ![d] = 2 * poll[d] + 1]
    /\ GoTo(d, "collect")
    /\ UNCHANGED <<config, attempt, system, uncore, time, overlap, file, segment, end, group,
                   clientVars>>

UpdateStampedEarly(d) ==
    /\ pc[d] = "collect"
    /\ system' = [system EXCEPT ![d].after = poll[d]]
    /\ time' = [time EXCEPT ![d].after = poll[d]]
    /\ end' = [end EXCEPT ![d] = 2 * poll[d]]
    /\ GoTo(d, "system")
    /\ UNCHANGED <<config, attempt, poll, uncore, overlap, file, segment, version, begin, group,
                   clientVars>>

UpdatePCMState(d) ==
    /\ pc[d] = "collect"
    /\ system' = [system EXCEPT ![d].after = poll[d]]
    /\ time' = [time EXCEPT ![d].after = poll[d]]
    /\ GoTo(d, "system")
    /\ UNCHANGED <<config, attempt, poll, uncore, overlap, file, shared, clientVars>>

\* The group written after g, among those subscribed to.
Following(d, g) ==
    LET wanted == config[d].subscribers
    IN  IF g = "system" /\ "core" \in wanted THEN "core"
        ELSE IF g \in {"system", "core"} /\ "memory" \in wanted THEN "memory"
        ELSE IF g # "qpi" /\ "qpi" \in wanted THEN "qpi"
        ELSE "publish"

\* getPCMCore: counts between the two states.  getPCMSystem has no counts.
CoreCounts(d) == [from |-> system[d].before, to |-> system[d].after, over |-> system[d].before]

\* getPCMMemory: counts between the uncore states, the later of which it has
\* just read, divided by the time between the two collections.
MemoryBandwidth(d) ==
    [from |-> uncore[d].before, to |-> uncore'[d].after, over |-> time[d].before]

\* getPCMQPI: bytes between the two states, utilisation from ForQPIBefore_.
QPITraffic(d) == [from |-> system[d].before, to |-> system[d].after, over |-> system[d].qpi]

WriteGroup(d, g) ==
    /\ pc[d] = g
    /\ uncore' = IF g = "memory" THEN [uncore EXCEPT ![d].after = poll[d]] ELSE uncore
    /\ group' = [group EXCEPT ![d][g] =
                   CASE g \in {"system", "core"} -> CoreCounts(d)
                     [] g = "memory" -> MemoryBandwidth(d)
                     [] g = "qpi" -> QPITraffic(d)]
    /\ GoTo(d, Following(d, g))
    /\ UNCHANGED <<config, attempt, poll, system, time, overlap, file, segment, version, begin, end,
                   clientVars>>

NotSwapped(s) == s
Swapped(s) == [s EXCEPT !.before = s.after, !.after = s.before]

\* swapPCMBeforeAfterState, only when the mode is DIFFERENCE
SwapPCMBeforeAfterState(d) ==
    LET states == IF config[d].mode = "difference" THEN Swapped(system[d]) ELSE system[d]
        forQPI == IF "qpi" \in config[d].subscribers THEN states.after ELSE states.qpi
    IN  /\ system' = [system EXCEPT ![d] = [states EXCEPT !.qpi = forQPI]]
        /\ uncore' = IF config[d].mode = "difference"
                     THEN [uncore EXCEPT ![d] = Swapped(uncore[d])] ELSE uncore

\* The collection times are swapped in either mode.
Publish(d) ==
    /\ pc[d] = "publish"
    /\ end' = [end EXCEPT ![d] = 2 * poll[d]]
    /\ SwapPCMBeforeAfterState(d)
    /\ time' = [time EXCEPT ![d] = Swapped(time[d])]
    /\ GoTo(d, "sleep")
    /\ UNCHANGED <<config, attempt, poll, overlap, file, segment, version, begin, group, clientVars>>

-----------------------------------------------------------------------------
(* The end of a daemon *)

\* sigINT_handler once the handlers are installed
Signal(d) ==
    /\ pc[d] \in Serving
    /\ GoTo(d, "detach")
    /\ UNCHANGED <<config, attempt, poll, system, uncore, time, overlap, file, shared, clientVars>>

\* A signal before that, or one that cannot be caught
Kill(d) ==
    /\ pc[d] \in Running
    /\ GoTo(d, "killed")
    /\ UNCHANGED <<config, attempt, poll, system, uncore, time, overlap, file, shared, clientVars>>

\* Daemon::cleanup.  Clients keep what they have attached.
RemoveSegment(d) ==
    /\ pc[d] = "detach"
    /\ segment' = segment \ {d}
    /\ GoTo(d, "remove")
    /\ UNCHANGED <<config, attempt, poll, system, uncore, time, overlap, file, version, begin, end,
                   group, clientVars>>

RemoveIdFile(d) ==
    /\ pc[d] = "remove"
    /\ file' = NoFile
    /\ GoTo(d, "exited")
    /\ UNCHANGED <<config, attempt, poll, system, uncore, time, overlap, shared, clientVars>>

-----------------------------------------------------------------------------
(* Clients *)

ClientGoTo(c, there) == cpc' = [cpc EXCEPT ![c] = there]

\* Client::setupSharedMemory up to atoi.  A file whose id has not arrived yet
\* reads as 0, which is no segment of a daemon, and the id in a file of an
\* earlier run is that of no segment either.
IdEvenIfStale == file # NoFile /\ file.written
IdReadable == file # NoFile /\ file.written /\ file.of \in Daemons

ReadIdFile(c) ==
    /\ cpc[c] = "connect"
    /\ \/ /\ IdReadable
          /\ attached' = [attached EXCEPT ![c] = file.of]
          /\ ClientGoTo(c, "shmat")
       \/ /\ ~IdReadable
          /\ ClientGoTo(c, "failed")
          /\ UNCHANGED attached
    /\ UNCHANGED <<daemonVars, file, shared, last, seen, seenBegin, outdated>>

\* The segment may have been removed since; one that is still attached
\* elsewhere can be found all the same.
Findable(c) ==
    \/ attached[c] \in segment
    \/ \E b \in Clients \ {c} : attached[b] = attached[c] /\ cpc[b] \notin {"shmat", "failed"}

ClientAttach(c) ==
    /\ cpc[c] = "shmat"
    /\ ClientGoTo(c, IF Findable(c) THEN "start" ELSE "failed")
    /\ UNCHANGED <<daemonVars, file, shared, attached, last, seen, seenBegin, outdated>>

\* Connected: what has been published already is not news.
Connect(c) ==
    /\ cpc[c] = "start"
    /\ last' = [last EXCEPT ![c] = end[attached[c]]]
    /\ ClientGoTo(c, "version")
    /\ UNCHANGED <<daemonVars, file, shared, attached, seen, seenBegin, outdated>>

\* Client::read throws if there is a version and it is another.
VersionIgnored(c) == attached[c] \in Daemons
VersionAccepted(c) == version[attached[c]] => config[attached[c]].current

CheckVersion(c) ==
    /\ cpc[c] = "version"
    /\ ClientGoTo(c, IF VersionAccepted(c) THEN "check" ELSE "failed")
    /\ UNCHANGED <<daemonVars, file, shared, attached, last, seen, seenBegin, outdated>>

ExactlyOneUpdate(c) == last[c] + 2 = end[attached[c]]
CountersHaveUpdated(c) == last[c] # end[attached[c]]

\* usleep and round again if there is nothing new
CheckUpdated(c) ==
    /\ cpc[c] = "check"
    /\ ClientGoTo(c, IF CountersHaveUpdated(c) THEN "stamp" ELSE "version")
    /\ UNCHANGED <<daemonVars, file, shared, attached, last, seen, seenBegin, outdated>>

\* The stamp is read once more, and read() returns a reference.
ReturnState(c) ==
    /\ cpc[c] = "stamp"
    /\ last' = [last EXCEPT ![c] = end[attached[c]]]
    /\ outdated' = [outdated EXCEPT ![c] =
                      IF config[attached[c]].current \/ @ = 2 THEN @ ELSE @ + 1]
    /\ ClientGoTo(c, "use")
    /\ UNCHANGED <<daemonVars, file, shared, attached, seen, seenBegin>>

\* The caller reads the groups that the daemon fills, in any order.
Filled(d) == {"system"} \cup config[d].subscribers
ToRead(c) == {g \in Filled(attached[c]) : seen[c][g] = Blank}

ReadGroup(c, g) ==
    /\ cpc[c] = "use" /\ g \in ToRead(c)
    /\ seen' = [seen EXCEPT ![c][g] = group[attached[c]][g]]
    /\ ClientGoTo(c, IF ToRead(c) = {g} THEN "bracket" ELSE "use")
    /\ UNCHANGED <<daemonVars, file, shared, attached, last, seenBegin, outdated>>

\* and lastUpdateTscBegin
ReadBegin(c) ==
    /\ cpc[c] = "bracket"
    /\ seenBegin' = [seenBegin EXCEPT ![c] = begin[attached[c]]]
    /\ ClientGoTo(c, "compare")
    /\ UNCHANGED <<daemonVars, file, shared, attached, last, seen, outdated>>

\* The caller is done with the state and calls read() again.
ReadAgain(c) ==
    /\ cpc[c] = "compare"
    /\ seen' = [seen EXCEPT ![c] = [g \in Groups |-> Blank]]
    /\ seenBegin' = [seenBegin EXCEPT ![c] = 0]
    /\ ClientGoTo(c, "version")
    /\ UNCHANGED <<daemonVars, file, shared, attached, last, outdated>>

-----------------------------------------------------------------------------
DaemonStep(d) ==
    \/ Start(d) \/ CreateIdFile(d) \/ UnlinkIdFile(d) \/ WriteId(d) \/ Attach(d) \/ SetupFails(d)
    \/ Program(d)
    \/ BeginUpdate(d) \/ UpdatePCMState(d) \/ (\E g \in Groups : WriteGroup(d, g)) \/ Publish(d)
    \/ RemoveSegment(d) \/ RemoveIdFile(d)

ClientStep(c) ==
    \/ ReadIdFile(c) \/ ClientAttach(c) \/ Connect(c) \/ CheckVersion(c) \/ CheckUpdated(c)
    \/ ReturnState(c) \/ (\E g \in Groups : ReadGroup(c, g)) \/ ReadBegin(c) \/ ReadAgain(c)

Next ==
    \/ \E d \in Daemons : DaemonStep(d) \/ Signal(d) \/ Kill(d)
    \/ \E c \in Clients : ClientStep(c)

Spec == Init /\ [][Next]_vars

\* Clients are scheduled; daemons may stop at any point.
FairSpec == Spec /\ \A c \in Clients : WF_vars(ClientStep(c))

-----------------------------------------------------------------------------
(* Properties *)

\* "All the data has to be in shm before" (daemon.cpp, at the assignment of
\* lastUpdateTscEnd): whatever a client reads of a state that read()
\* returned is at least as new as the stamp it was returned for, also when
\* the daemon has begun the next update.
FreshEnough ==
    \A c \in Clients : cpc[c] \in {"use", "bracket", "compare"} =>
        \A g \in Filled(attached[c]) \ ToRead(c) : 2 * seen[c][g].to >= last[c]

\* The two stamps bracket an update: a client that finds lastUpdateTscBegin
\* below the lastUpdateTscEnd it was given, after it has read the groups,
\* has read the groups of exactly that update.
BracketDetectsTearing ==
    \A c \in Clients : (cpc[c] = "compare" /\ seenBegin[c] < last[c]) =>
        \A g \in Filled(attached[c]) : 2 * seen[c][g].to = last[c]

\* Once update k is published, its counts are those of the last poll interval
\* in difference mode and those since the start in absolute mode (for memory,
\* since the counters were programmed, and so in the first update of either
\* mode), and memory bandwidth is per one poll interval.
IntervalsPublished ==
    \A d \in Daemons : (pc[d] = "sleep" /\ poll[d] > 0) =>
        LET k == poll[d]
            previous == IF config[d].mode = "difference" THEN k - 1 ELSE 0
        IN  /\ end[d] = 2 * k
            /\ \A g \in config[d].subscribers \ {"memory"} :
                  group[d][g].from = previous /\ group[d][g].to = k
            /\ "memory" \in config[d].subscribers =>
                  group[d]["memory"] = [from |-> IF previous = 0 THEN Unread ELSE previous,
                                        to |-> k, over |-> k - 1]

\* As long as daemons run one after the other, whatever way the earlier ones
\* ended, the id file names the one that serves.
IdFileNamesServer ==
    ~overlap => \A d \in Daemons : pc[d] \in Serving => file = [of |-> d, written |-> TRUE]

\* The version is checked before the stamp, so the first update of a daemon
\* of another version can slip through between the two; no second one does
\* (Client::read).
OutdatedAtMostOnce == \A c \in Clients : outdated[c] <= 1

\* A published update reaches a client that waits in read(), even if the
\* daemon ends or is killed meanwhile.
UpdateDelivered ==
    \A c \in Clients : (cpc[c] \in {"version", "check"} /\ last[c] # end[attached[c]])
                       ~> cpc[c] \in {"use", "failed"}

\* "File exists from previous run - unlink and retry" (setupSharedMemory):
\* the id file that a daemon unlinks is not that of a daemon that serves.
\* The code does not have this property (README, section 4).
OnlyStaleUnlinked ==
    [][\A d \in Daemons : (pc[d] = "unlink" /\ pc'[d] # "unlink" /\ file # NoFile /\ file' = NoFile)
          => (file.of \in Daemons => pc[file.of] \notin Serving)]_vars

\* Types, the intervals behind what is published, the id file, and the version
\* test of the client.
DaemonInv == TypeOK /\ IntervalsPublished /\ IdFileNamesServer /\ OutdatedAtMostOnce

=============================================================================
