----------------------------- MODULE ThreadPool -----------------------------
(***************************************************************************)
(* The thread pool of pcm-sensor-server (threadpool.h, threadpool.cpp): a  *)
(* queue of work items under a mutex, a condition variable on which idle   *)
(* threads sleep, and a shutdown that queues one null item per thread and  *)
(* joins the threads.                                                      *)
(*                                                                         *)
(* Everything addWork does happens under the mutex, and so does everything *)
(* between two waits of retrieveWork: each is one step.  A work item is a  *)
(* heap object; its identity can be used again once it has been deleted.   *)
(***************************************************************************)
EXTENDS Naturals, Sequences, FiniteSets

CONSTANTS
    Threads,  \* the elements of threads_
    Works,    \* identities of Work objects
    Null,     \* nullptr in the queue
    \* What a thread that runs no work does:
    Awake,    \* it is on the way to the mutex in retrieveWork, or woken there
    Waiting,  \* it is asleep on queueCV_
    Dead      \* its execute() has returned

ASSUME PoolAssumption ==
    /\ IsFiniteSet(Threads) /\ Threads # {}
    /\ Null \notin Works
    /\ Works \cap {Awake, Waiting, Dead} = {}
    /\ Awake # Waiting /\ Awake # Dead /\ Waiting # Dead

VARIABLES
    workQ,   \* workQ_
    thread,  \* what each thread does: Awake, Waiting, Dead, or the work it runs
    phase,   \* of emptyThreadPool: "open", "poison", "joined"
    nulls,   \* null items that emptyThreadPool has queued
    before   \* history: work that was there when emptyThreadPool was called, and
             \* was not executed since

poolVars == <<workQ, thread, phase, nulls, before>>

Queued == {workQ[i] : i \in DOMAIN workQ} \ {Null}
Running == {thread[t] : t \in Threads} \cap Works
In(state) == {t \in Threads : thread[t] = state}

PoolTypeOK ==
    /\ workQ \in Seq(Works \cup {Null})
    /\ thread \in [Threads -> Works \cup {Awake, Waiting, Dead}]
    /\ phase \in {"open", "poison", "joined"}
    /\ nulls \in 0 .. Cardinality(Threads)
    /\ before \subseteq Works

PoolInit ==
    /\ workQ = <<>>
    /\ thread = [t \in Threads |-> Awake]
    /\ phase = "open" /\ nulls = 0
    /\ before = {}

\* The mutant of NotifyOne: a thread is woken only if the queue was empty.
NotifyFirst ==
    IF workQ = <<>> /\ In(Waiting) # {}
    THEN \E t \in In(Waiting) : thread' = [thread EXCEPT ![t] = Awake]
    ELSE UNCHANGED thread

\* queueCV_.notify_one()
NotifyOne ==
    IF In(Waiting) # {}
    THEN \E t \in In(Waiting) : thread' = [thread EXCEPT ![t] = Awake]
    ELSE UNCHANGED thread

\* The mutant of Push: nobody is notified.
PushSilently(w) == workQ' = Append(workQ, w) /\ UNCHANGED thread

\* addWork: push and notify under the mutex.
Push(w) == workQ' = Append(workQ, w) /\ NotifyOne

\* WorkQueue::addWork, with a Work object that nobody else refers to.
AddWork(w) ==
    /\ w \notin Queued \cup Running
    /\ Push(w)
    /\ UNCHANGED <<phase, nulls, before>>

\* The mutant of RetrieveWork: the front of the queue is read, not removed.
RetrieveFront(t) ==
    /\ thread[t] = Awake
    /\ thread' = [thread EXCEPT ![t] = IF workQ = <<>> THEN Waiting
                                       ELSE IF Head(workQ) = Null THEN Dead
                                            ELSE Head(workQ)]
    /\ UNCHANGED <<workQ, phase, nulls, before>>

\* retrieveWork from the point where the mutex is taken, at its start or after
\* a wakeup, to the next wait or to the return, with the test for null that
\* follows in execute.
RetrieveWork(t) ==
    /\ thread[t] = Awake
    /\ IF workQ = <<>>
       THEN thread' = [thread EXCEPT ![t] = Waiting] /\ UNCHANGED workQ
       ELSE /\ thread' = [thread EXCEPT ![t] = IF Head(workQ) = Null THEN Dead
                                               ELSE Head(workQ)]
            /\ workQ' = Tail(workQ)
    /\ UNCHANGED <<phase, nulls, before>>

\* A wait on a condition variable may return without a notification.
SpuriousWakeup(t) ==
    /\ thread[t] = Waiting
    /\ thread' = [thread EXCEPT ![t] = Awake]
    /\ UNCHANGED <<workQ, phase, nulls, before>>

\* execute() of the work returns and the work is deleted.
Finish(t) ==
    /\ thread[t] \in Works
    /\ thread' = [thread EXCEPT ![t] = Awake]
    /\ before' = before \ {thread[t]}
    /\ UNCHANGED <<workQ, phase, nulls>>

\* emptyThreadPool is called.
EmptyThreadPool ==
    /\ phase = "open"
    /\ phase' = "poison"
    /\ before' = Queued \cup Running
    /\ UNCHANGED <<workQ, thread, nulls>>

\* The mutant of NullsNeeded: one null item too few.
OneNullTooFew == Cardinality(Threads) - 1

\* One null item per thread.
NullsNeeded == Cardinality(Threads)

PushNull ==
    /\ phase = "poison" /\ nulls < NullsNeeded
    /\ Push(Null)
    /\ nulls' = nulls + 1
    /\ UNCHANGED <<phase, before>>

\* The mutant of Joined: a thread that has nothing to do passes for ended.
IdleIsJoined == \A t \in Threads : thread[t] \in {Dead, Waiting, Awake}

\* threads_[i].join() returns for every thread.
Joined == \A t \in Threads : thread[t] = Dead

\* The join loop ends and threads_ is cleared.
JoinThreads ==
    /\ phase = "poison" /\ nulls = NullsNeeded
    /\ Joined
    /\ phase' = "joined"
    /\ UNCHANGED <<workQ, thread, nulls, before>>

PoolNext ==
    \/ \E w \in Works : AddWork(w)
    \/ \E t \in Threads : RetrieveWork(t) \/ SpuriousWakeup(t) \/ Finish(t)
    \/ EmptyThreadPool \/ PushNull \/ JoinThreads

PoolSpec == PoolInit /\ [][PoolNext]_poolVars

\* The mutex is fair to those who wait for it, work ends, and the thread that
\* called emptyThreadPool goes on.
PoolFairness ==
    /\ \A t \in Threads : WF_poolVars(RetrieveWork(t)) /\ WF_poolVars(Finish(t))
    /\ WF_poolVars(PushNull) /\ WF_poolVars(JoinThreads)

FairPoolSpec == PoolSpec /\ PoolFairness

-----------------------------------------------------------------------------
\* No wakeup is lost: while threads sleep, there are as many others on their
\* way to the queue as it has items (addWork notifies under the mutex, and
\* every item has its own notification).
NoLostWakeup == In(Waiting) # {} => Len(workQ) <= Cardinality(In(Awake))

\* Work is owned by the queue or by one thread, never by two: it is executed
\* and deleted once.
OneOwner ==
    /\ \A i, k \in DOMAIN workQ : i # k /\ workQ[i] = workQ[k] => workQ[i] = Null
    /\ \A t, u \in Threads : t # u /\ thread[t] = thread[u] => thread[t] \notin Works
    /\ Queued \cap Running = {}

\* When emptyThreadPool returns, no thread runs anything, and all work added
\* before the call was executed: the null items go to the end of the queue.
Drained == phase = "joined" => Running = {} /\ before = {}

\* Before emptyThreadPool no null item is around and no thread is dead; after
\* it returned every thread is.
Phases ==
    /\ phase = "open" => In(Dead) = {} /\ \A i \in DOMAIN workQ : workQ[i] # Null
    /\ phase = "joined" => In(Dead) = Threads

\* Work that was there when emptyThreadPool was called is still ahead of all
\* null items, and nobody has died while some of it is queued.
InOrder ==
    \A i \in DOMAIN workQ : workQ[i] \in before =>
        In(Dead) = {} /\ \A k \in 1 .. i : workQ[k] # Null

\* That work is in the queue or at a thread.
Accounted == before \subseteq Queued \cup Running

\* The inductive invariant behind OneOwner, NoLostWakeup and Drained: a null
\* item kills a thread only after the work queued before it was taken.
PoolInv ==
    PoolTypeOK /\ OneOwner /\ NoLostWakeup /\ Phases /\ InOrder /\ Accounted

\* Work added before the pool is emptied comes to a thread, whatever follows.
AddedIsExecuted == \A w \in Works :
    (phase = "open" /\ w \in Queued) ~> (w \in Running)

\* emptyThreadPool returns: one null item per thread is enough, since a thread
\* takes at most one.
EmptyReturns == phase = "poison" ~> phase = "joined"

\* The pool makes progress: what was added is executed, and emptying returns
\* (WorkQueue and ThreadPool::emptyThreadPool).
PoolProgress == AddedIsExecuted /\ EmptyReturns

=============================================================================
