---------------------------- MODULE SensorServer ----------------------------
(***************************************************************************)
(* pcm-sensor-server: connections, the periodic fetcher of samples and the *)
(* jobs that read counters are all work of one thread pool (ThreadPool).   *)
(* A sample is dispatched by queueing one job per hardware thread and      *)
(* socket and waiting for their futures, in a thread of the same pool.     *)
(*                                                                         *)
(* A sample is represented by its age: the seconds between the time it was *)
(* scheduled for and that of the latest one.                               *)
(***************************************************************************)
EXTENDS ThreadPool

CONSTANTS
    Fetcher,       \* the PeriodicCounterFetcher
    Conns,         \* HTTPConnection objects
    NumJobs,       \* jobs per sample: hardware threads and sockets
    History,       \* the number of samples addAggregator keeps (30)
    RequestLimit,  \* requests per keep-alive connection (100)
    Requests,      \* what clients ask for: records of kind and seconds
    SignalAt       \* bound: lengths of the history at which a termination signal
                   \* may arrive (shutting down hardly depends on it)

Requesters == {Fetcher} \cup Conns
CounterJobs == Requesters \X (1 .. NumJobs)
NoRequest == [kind |-> "static", x |-> 0]
None == [x |-> 0, new |-> 0, old |-> 0]
Wild == [x |-> 0, new |-> 0, old |-> 1]  \* an element beyond the end

ASSUME ServerAssumption ==
    /\ NumJobs \in Nat \ {0} /\ History \in Nat \ {0} /\ RequestLimit \in Nat \ {0}
    /\ Fetcher \notin Conns
    /\ Works = Requesters \cup CounterJobs
    /\ \A j \in CounterJobs : j \notin Requesters
    /\ Requests \subseteq [kind : {"static", "absolute", "persecond"}, x : 0 .. History]
    /\ SignalAt \subseteq 0 .. History

VARIABLES
    main,      \* the main thread: "construct", "serve", "grace", "stopping",
               \* "exited"
    exit,      \* the fetcher's exit_
    pc,        \* what the fetcher and the connections do
    sent,      \* jobs queued of the sample being dispatched
    ready,     \* jobs whose future has its value
    agVector,  \* agVector_, the latest sample first
    request,   \* the request a connection works on
    numRequests, keepListening,  \* the locals of HTTPConnection::execute
    pair       \* what getAggregators returned to a connection

serverVars == <<main, exit, pc, sent, ready, agVector, request,
                numRequests, keepListening, pair>>
vars == <<poolVars, serverVars>>

connVars == <<request, numRequests, keepListening, pair>>

ServerTypeOK ==
    /\ PoolTypeOK
    /\ main \in {"construct", "serve", "grace", "stopping", "exited"} /\ exit \in BOOLEAN
    /\ pc \in [Requesters -> {"sleep", "dispatch", "collect", "insert", "trim",
                              "read", "poll", "take", "respond"}]
    /\ sent \in [Requesters -> 0 .. NumJobs]
    /\ ready \subseteq CounterJobs
    /\ agVector \in Seq(0 .. History) /\ Len(agVector) <= History + 1
    /\ request \in [Conns -> Requests \cup {NoRequest}]
    /\ numRequests \in [Conns -> 0 .. RequestLimit]
    /\ keepListening \in [Conns -> BOOLEAN]
    /\ pair \in [Conns -> [x : 0 .. History, new : 0 .. History, old : 0 .. History]]

Init ==
    /\ PoolInit
    /\ main = "construct" /\ exit = FALSE
    /\ pc = [r \in Requesters |-> IF r = Fetcher THEN "sleep" ELSE "read"]
    /\ sent = [r \in Requesters |-> 0] /\ ready = {}
    /\ agVector = <<>>
    /\ request = [c \in Conns |-> NoRequest]
    /\ numRequests = [c \in Conns |-> 0]
    /\ keepListening = [c \in Conns |-> FALSE]
    /\ pair = [c \in Conns |-> None]

\* Work r is being executed and has come to a point; it goes on to another.
At(r, point) == r \in Running /\ pc[r] = point
Goto(r, point) == pc' = [pc EXCEPT ![r] = point]

\* The execute() of work r returns.
Returns(r) == \E t \in Threads : thread[t] = r /\ Finish(t)

-----------------------------------------------------------------------------
(* Samples. *)

\* HTTPServer::HTTPServer queues the fetcher.
CreatePeriodicCounterFetcher ==
    /\ main = "construct" /\ main' = "serve"
    /\ AddWork(Fetcher)
    /\ UNCHANGED <<exit, pc, sent, ready, agVector, connVars>>

\* A second has passed in PeriodicCounterFetcher::execute.
FetcherWakes ==
    /\ At(Fetcher, "sleep")
    /\ IF exit THEN Returns(Fetcher) /\ UNCHANGED pc
       ELSE Goto(Fetcher, "dispatch") /\ UNCHANGED poolVars
    /\ UNCHANGED <<main, exit, sent, ready, agVector, connVars>>

\* Aggregator::dispatch queues the next job and keeps its future.
Dispatch(r) ==
    /\ At(r, "dispatch")
    /\ AddWork(<<r, sent[r] + 1>>)
    /\ IF sent[r] + 1 < NumJobs
       THEN sent' = [sent EXCEPT ![r] = @ + 1] /\ UNCHANGED pc
       ELSE sent' = [sent EXCEPT ![r] = 0] /\ Goto(r, "collect")
    /\ UNCHANGED <<main, exit, ready, agVector, connVars>>

\* A job reads the counters of a hardware thread or a socket.
RunCounterJob(j) ==
    /\ j \in Running
    /\ Returns(j)
    /\ ready' = ready \cup {j}
    /\ UNCHANGED <<main, exit, pc, sent, agVector, connVars>>

\* The futures of the sample that r dispatches.
Futures(r) == {r} \X (1 .. NumJobs)

\* Aggregator::dispatch has got the value of every future.
Collect(r) ==
    /\ At(r, "collect")
    /\ Futures(r) \subseteq ready
    /\ ready' = ready \ Futures(r)
    /\ Goto(r, IF r = Fetcher THEN "insert" ELSE "respond")
    /\ UNCHANGED <<poolVars, main, exit, sent, agVector, connVars>>

\* The samples are a second older.
Older == [i \in DOMAIN agVector |-> agVector[i] + 1]

\* The mutant of Inserted: the latest sample goes to the end.
InsertedLast == Append(Older, 0)

\* The latest sample goes to the front.
Inserted == <<0>> \o Older

\* addAggregator takes agVectorMutex_ and inserts; others can see the size.
InsertAggregator ==
    /\ At(Fetcher, "insert")
    /\ agVector' = Inserted
    /\ Goto(Fetcher, "trim")
    /\ UNCHANGED <<poolVars, main, exit, sent, ready, connVars>>

\* Mutants of Oversized: the history is one sample shorter, or grows.
OversizedEarly == Len(agVector) >= History
NeverOversized == FALSE

\* There is one sample too many.
Oversized == Len(agVector) > History

\* addAggregator drops the oldest sample and releases the mutex.
TrimAggregators ==
    /\ At(Fetcher, "trim")
    /\ agVector' = IF Oversized THEN SubSeq(agVector, 1, Len(agVector) - 1) ELSE agVector
    /\ Goto(Fetcher, "sleep")
    /\ UNCHANGED <<poolVars, main, exit, sent, ready, connVars>>

-----------------------------------------------------------------------------
(* Connections. *)

\* The locals of HTTPConnection::execute as they are when it starts again.
LocalsEnd(c) ==
    /\ numRequests' = [numRequests EXCEPT ![c] = 0]
    /\ keepListening' = [keepListening EXCEPT ![c] = FALSE]

\* HTTPServer::run accepts a client and queues its connection.
Accept(c) ==
    /\ main = "serve"
    /\ AddWork(c)
    /\ UNCHANGED serverVars

\* The mutant of KeepsListening: the request limit is not enforced.
KeepsListeningForever(c, alive) == keepListening[c] \/ alive

\* keepListening after a request: once set it stays set until the limit.
KeepsListening(c, alive) ==
    numRequests[c] + 1 < RequestLimit /\ (keepListening[c] \/ alive)

\* HTTPConnection::execute has read a request, and my_get_callback begins: a
\* request that needs no counters, errors included, is answered at once.  The
\* count of requests stops at the limit, which is all that is asked of it.
ReadRequest(c) ==
    /\ At(c, "read")
    /\ \E q \in Requests, alive \in BOOLEAN :
         /\ request' = [request EXCEPT ![c] = q]
         /\ keepListening' = [keepListening EXCEPT ![c] = KeepsListening(c, alive)]
         /\ Goto(c, CASE q.kind = "static" -> "respond"
                       [] q.kind = "absolute" -> "dispatch"
                       [] q.kind = "persecond" -> "poll")
    /\ numRequests' = [numRequests EXCEPT ![c] = IF @ < RequestLimit THEN @ + 1 ELSE @]
    /\ UNCHANGED <<poolVars, main, exit, sent, ready, agVector, pair>>

\* The client closes, the read times out, or the request is malformed: the
\* connection answers with an error and ends.
ReadFails(c) ==
    /\ At(c, "read")
    /\ Returns(c) /\ LocalsEnd(c)
    /\ UNCHANGED <<main, exit, pc, sent, ready, agVector, request, pair>>

\* The mutant of Enough: off by one.
MoreThanEnough(c) == Len(agVector) > request[c].x + 1

\* getAggregators finds enough samples.
Enough(c) == Len(agVector) >= request[c].x + 1

\* getAggregators looks at the size, without the mutex, once a second.
Poll(c) ==
    /\ At(c, "poll")
    /\ Enough(c)
    /\ Goto(c, "take")
    /\ UNCHANGED <<poolVars, main, exit, sent, ready, agVector, connVars>>

\* getAggregators copies two elements under agVectorMutex_, which is held by
\* addAggregator between insert and trim.
Take(c) ==
    /\ At(c, "take")
    /\ ~At(Fetcher, "trim")
    /\ pair' = [pair EXCEPT ![c] =
         IF request[c].x + 1 \in DOMAIN agVector
         THEN [x |-> request[c].x, new |-> agVector[1], old |-> agVector[request[c].x + 1]]
         ELSE Wild]
    /\ Goto(c, "respond")
    /\ UNCHANGED <<poolVars, main, exit, sent, ready, agVector, request,
                   numRequests, keepListening>>

\* The response is written; the connection reads on or ends.
Respond(c) ==
    /\ At(c, "respond")
    /\ IF keepListening[c]
       THEN UNCHANGED <<poolVars, numRequests, keepListening>>
       ELSE Returns(c) /\ LocalsEnd(c)
    /\ Goto(c, "read")
    /\ request' = [request EXCEPT ![c] = NoRequest]
    /\ pair' = [pair EXCEPT ![c] = None]
    /\ UNCHANGED <<main, exit, sent, ready, agVector>>

-----------------------------------------------------------------------------
(* The end. *)

\* SignalHandler::handleSignal in the main thread: HTTPServer::stop tells the
\* fetcher to leave its loop and sleeps for a second.
HandleSignal ==
    /\ main = "serve" /\ Len(agVector) \in SignalAt
    /\ main' = "grace" /\ exit' = TRUE
    /\ UNCHANGED <<poolVars, pc, sent, ready, agVector, connVars>>

\* The second is over: emptyThreadPool is called.
StopSlept ==
    /\ main = "grace" /\ main' = "stopping"
    /\ EmptyThreadPool
    /\ UNCHANGED <<exit, pc, sent, ready, agVector, connVars>>

\* emptyThreadPool goes on.
StopEmpties == (PushNull \/ JoinThreads) /\ UNCHANGED serverVars

\* stop() has returned: PCM::cleanup and exit.
CleanupAndExit ==
    /\ main = "stopping" /\ phase = "joined"
    /\ main' = "exited"
    /\ UNCHANGED <<poolVars, exit, pc, sent, ready, agVector, connVars>>

\* Spurious wakeups are left to ThreadPool.
PoolThread(t) == RetrieveWork(t) /\ UNCHANGED serverVars

FetcherStep ==
    \/ FetcherWakes \/ Dispatch(Fetcher) \/ Collect(Fetcher)
    \/ InsertAggregator \/ TrimAggregators

ConnStep(c) ==
    \/ ReadRequest(c) \/ ReadFails(c) \/ Dispatch(c) \/ Collect(c)
    \/ Poll(c) \/ Take(c) \/ Respond(c)

StopStep == StopSlept \/ StopEmpties \/ CleanupAndExit

Next ==
    \/ CreatePeriodicCounterFetcher \/ FetcherStep
    \/ \E c \in Conns : Accept(c) \/ ConnStep(c)
    \/ \E j \in CounterJobs : RunCounterJob(j)
    \/ \E t \in Threads : PoolThread(t)
    \/ HandleSignal \/ StopStep

Spec == Init /\ [][Next]_vars

\* All threads are scheduled: a read ends by its timeout, and a thread that has
\* the result it waits for goes on.  A connection that waits for agVectorMutex_
\* gets it: the fetcher holds it for two statements and then sleeps.
Fairness ==
    /\ WF_vars(FetcherStep) /\ WF_vars(CreatePeriodicCounterFetcher)
    /\ \A c \in Conns : WF_vars(ConnStep(c)) /\ SF_vars(Take(c))
    /\ \A j \in CounterJobs : WF_vars(RunCounterJob(j))
    /\ \A t \in Threads : WF_vars(PoolThread(t))
    /\ WF_vars(StopStep)

FairSpec == Spec /\ Fairness

-----------------------------------------------------------------------------
\* getAggregators never reads beyond the end of agVector_: the size it looked
\* at without the mutex still holds when it has the mutex.
IndexInRange == \A c \in Conns : pair[c] # Wild

\* The two samples of /persecond/X were scheduled X seconds apart, whatever
\* the fetcher adds while the connection waits.
PairApart == \A c \in Conns : pair[c] # Wild => pair[c].old = pair[c].new + pair[c].x

\* Every request that was read is answered, unless the server is told to stop:
\* the threads that wait for jobs leave enough others to run the jobs.
Answered == \A c \in Conns :
    At(c, "dispatch") \/ At(c, "poll") ~> At(c, "respond") \/ exit

\* A connection gives its thread back: a read times out, and the number of
\* requests of one connection is limited.
ConnectionEnds == \A c \in Conns : (c \in Running) ~> (c \notin Running) \/ exit

\* PCM::cleanup runs alone: no connection, no fetcher and no job is left that
\* could read counters.
CleanupAlone == main = "exited" => Running = {} /\ Fetcher \notin Queued

\* After a termination signal the process cleans up the PMU and exits.
StopReturns == main = "grace" ~> main = "exited"

\* Types, the index of getAggregators, and the clean-up of main.
ServerInv == ServerTypeOK /\ IndexInRange /\ CleanupAlone

=============================================================================
