------------------------- MODULE SensorServerProofs -------------------------
(***************************************************************************)
(* The thread pool is correct for any number of threads and work objects:  *)
(* PoolInv is inductive.  The sensor server uses the pool as ThreadPool    *)
(* specifies, for any number of threads, connections and jobs; the samples *)
(* of a pair are as far apart as asked for; and cleanup runs when no work  *)
(* is left.                                                                *)
(***************************************************************************)
EXTENDS SensorServer, FiniteSetTheorems, SequenceTheorems, TLAPS

-----------------------------------------------------------------------------
(* The thread pool.                                                        *)

\* The states of a thread differ from one another and from all work.
LEMMA StatesDistinct ==
    /\ Awake # Waiting /\ Awake # Dead /\ Waiting # Dead
    /\ Awake \notin Works /\ Waiting \notin Works /\ Dead \notin Works
  BY PoolAssumption

\* Sets of threads in one state are finite.
LEMMA InFinite ==
    ASSUME NEW s
    PROVE  /\ In(s) \subseteq Threads
           /\ IsFiniteSet(In(s)) /\ Cardinality(In(s)) \in Nat
<1>1. In(s) \in SUBSET Threads
  BY DEF In
<1>2. IsFiniteSet(In(s))
  BY <1>1, FS_Subset, PoolAssumption
<1> QED
  BY <1>1, <1>2, FS_CardinalityType

\* A thread that becomes awake is one more of them.
LEMMA Wake ==
    ASSUME PoolTypeOK, NEW t \in Threads, thread[t] # Awake,
           thread' = [thread EXCEPT ![t] = Awake]
    PROVE  /\ Cardinality(In(Awake)') = Cardinality(In(Awake)) + 1
           /\ In(Waiting)' \subseteq In(Waiting)
           /\ In(Dead)' = In(Dead) \ {t}
           /\ Running' = {thread[u] : u \in Threads \ {t}} \cap Works
<1>1. In(Awake)' = In(Awake) \cup {t}
  BY DEF In, PoolTypeOK
<1>2. t \notin In(Awake)
  BY DEF In
<1>3. In(Waiting)' \subseteq In(Waiting) /\ In(Dead)' = In(Dead) \ {t}
  BY StatesDistinct DEF In, PoolTypeOK
<1>4. \A u \in Threads : thread'[u] = IF u = t THEN Awake ELSE thread[u]
  BY DEF PoolTypeOK
<1>5. Running' = {thread[u] : u \in Threads \ {t}} \cap Works
  BY <1>4, StatesDistinct DEF Running
<1> QED
  BY <1>1, <1>2, <1>3, <1>5, FS_AddElement, InFinite

\* A thread that was awake is one less of them.
LEMMA Leave ==
    ASSUME PoolTypeOK, NEW t \in Threads, thread[t] = Awake, NEW s, s # Awake,
           thread' = [thread EXCEPT ![t] = s]
    PROVE  Cardinality(In(Awake)') = Cardinality(In(Awake)) - 1
<1>1. In(Awake)' = In(Awake) \ {t}
  BY DEF In, PoolTypeOK
<1>2. t \in In(Awake)
  BY DEF In
<1> QED
  BY <1>1, <1>2, FS_RemoveElement, InFinite

\* What notify_one does to a pool.
LEMMA Notify ==
    ASSUME PoolTypeOK, NotifyOne
    PROVE  /\ thread' \in [Threads -> Works \cup {Awake, Waiting, Dead}]
           /\ \A t \in Threads : thread'[t] \in Works \/ thread[t] \in Works
                                 => thread'[t] = thread[t]
           /\ Running' = Running /\ In(Dead)' = In(Dead)
           /\ In(Waiting)' # {} =>
                /\ In(Waiting) # {}
                /\ Cardinality(In(Awake)') = Cardinality(In(Awake)) + 1
<1>1. CASE In(Waiting) # {}
  <2>1. PICK t \in In(Waiting) : thread' = [thread EXCEPT ![t] = Awake]
    BY <1>1 DEF NotifyOne
  <2>2. t \in Threads /\ thread[t] = Waiting /\ thread[t] # Awake
    BY <2>1, StatesDistinct DEF In
  <2>3. \A u \in Threads : thread'[u] = IF u = t THEN Awake ELSE thread[u]
    BY <2>1, <2>2 DEF PoolTypeOK
  <2>4. thread' \in [Threads -> Works \cup {Awake, Waiting, Dead}]
    BY <2>1, <2>2 DEF PoolTypeOK
  <2>5. \A u \in Threads : thread'[u] \in Works \/ thread[u] \in Works
                           => thread'[u] = thread[u]
    BY <2>2, <2>3, StatesDistinct
  <2>6. Running' = Running
    BY <2>5 DEF Running
  <2>7. In(Dead)' = In(Dead)
    BY <2>2, <2>3, StatesDistinct DEF In
  <2> QED
    BY <1>1, <2>1, <2>2, <2>4, <2>5, <2>6, <2>7, Wake
<1>2. CASE In(Waiting) = {}
  <2>1. thread' = thread
    BY <1>2 DEF NotifyOne
  <2> QED
    BY <1>2, <2>1 DEF PoolTypeOK, Running, In
<1> QED
  BY <1>1, <1>2

\* What appending an item does to the queue.
LEMMA Appended ==
    ASSUME PoolTypeOK, NEW x \in Works \cup {Null}, workQ' = Append(workQ, x)
    PROVE  /\ workQ' \in Seq(Works \cup {Null})
           /\ Len(workQ) \in Nat /\ Len(workQ') = Len(workQ) + 1
           /\ DOMAIN workQ = 1 .. Len(workQ) /\ DOMAIN workQ' = 1 .. Len(workQ')
           /\ \A i \in DOMAIN workQ : i \in DOMAIN workQ' /\ workQ'[i] = workQ[i]
           /\ \A i \in DOMAIN workQ' : i \in DOMAIN workQ \/ i = Len(workQ) + 1
           /\ workQ'[Len(workQ) + 1] = x
           /\ Queued' = Queued \cup ({x} \ {Null})
<1> DEFINE Q == Append(workQ, x)
<1>1. /\ Q \in Seq(Works \cup {Null}) /\ Len(Q) = Len(workQ) + 1
      /\ \A i \in 1 .. Len(workQ) : Q[i] = workQ[i]
      /\ Q[Len(workQ) + 1] = x
  BY AppendProperties DEF PoolTypeOK
<1>2. /\ Len(workQ) \in Nat
      /\ DOMAIN workQ = 1 .. Len(workQ) /\ DOMAIN Q = 1 .. Len(Q)
  BY <1>1, LenProperties DEF PoolTypeOK
<1>3. \A i \in DOMAIN workQ : i \in DOMAIN Q /\ Q[i] = workQ[i]
  BY <1>1, <1>2
<1>4. \A i \in DOMAIN Q : i \in DOMAIN workQ \/ i = Len(workQ) + 1
  BY <1>1, <1>2
<1>5. Len(workQ) + 1 \in DOMAIN Q
  BY <1>1, <1>2
<1>6. {Q[i] : i \in DOMAIN Q} = {workQ[i] : i \in DOMAIN workQ} \cup {x}
  BY <1>1, <1>3, <1>4, <1>5
<1>7. Queued' = {Q[i] : i \in DOMAIN Q} \ {Null}
  BY DEF Queued
<1>8. Queued' = Queued \cup ({x} \ {Null})
  BY <1>6, <1>7 DEF Queued
<1> HIDE DEF Q
<1>9. workQ' = Q
  BY DEF Q
<1> QED
  BY <1>1, <1>2, <1>3, <1>4, <1>8, <1>9

\* What removing the front item does to the queue.
LEMMA Popped ==
    ASSUME PoolTypeOK, workQ # <<>>, workQ' = Tail(workQ)
    PROVE  /\ workQ' \in Seq(Works \cup {Null})
           /\ Head(workQ) \in Works \cup {Null} /\ Head(workQ) = workQ[1]
           /\ Len(workQ) \in Nat /\ Len(workQ') = Len(workQ) - 1
           /\ DOMAIN workQ = 1 .. Len(workQ) /\ DOMAIN workQ' = 1 .. Len(workQ')
           /\ 1 \in DOMAIN workQ
           /\ \A i \in DOMAIN workQ' : i + 1 \in DOMAIN workQ /\ workQ'[i] = workQ[i + 1]
           /\ Queued = Queued' \cup ({Head(workQ)} \ {Null})
<1> DEFINE Q == Tail(workQ)
<1>1. /\ Head(workQ) \in Works \cup {Null}
      /\ Q \in Seq(Works \cup {Null}) /\ Len(Q) = Len(workQ) - 1
      /\ \A i \in 1 .. Len(Q) : Q[i] = workQ[i + 1]
  BY HeadTailProperties DEF PoolTypeOK
<1>2. /\ Len(workQ) \in Nat
      /\ DOMAIN workQ = 1 .. Len(workQ) /\ DOMAIN Q = 1 .. Len(Q)
  BY <1>1, LenProperties DEF PoolTypeOK
<1>3. Len(Q) \in Nat
  BY <1>1, LenProperties
<1>4. 1 \in DOMAIN workQ
  BY <1>1, <1>2, <1>3
<1>5. Head(workQ) = workQ[1]
  BY DEF PoolTypeOK
<1>6. \A i \in DOMAIN Q : i + 1 \in DOMAIN workQ /\ Q[i] = workQ[i + 1]
  BY <1>1, <1>2, <1>3
<1>7. \A i \in DOMAIN workQ : i = 1 \/ (i - 1 \in DOMAIN Q /\ (i - 1) + 1 = i)
  BY <1>1, <1>2, <1>3
<1>8. {workQ[i] : i \in DOMAIN workQ} = {Q[i] : i \in DOMAIN Q} \cup {workQ[1]}
  <2>1. ASSUME NEW i \in DOMAIN workQ
        PROVE  workQ[i] \in {Q[k] : k \in DOMAIN Q} \cup {workQ[1]}
    BY <1>6, <1>7
  <2> QED
    BY <1>4, <1>6, <2>1
<1>9. Queued' = {Q[i] : i \in DOMAIN Q} \ {Null}
  BY DEF Queued
<1>10. Queued = Queued' \cup ({Head(workQ)} \ {Null})
  BY <1>5, <1>8, <1>9 DEF Queued
<1> HIDE DEF Q
<1>11. workQ' = Q
  BY DEF Q
<1> QED
  BY <1>1, <1>2, <1>4, <1>5, <1>6, <1>10, <1>11

\* NullsNeeded is a number.
LEMMA NullsNeededType == NullsNeeded \in Nat /\ NullsNeeded = Cardinality(Threads)
  BY PoolAssumption, FS_CardinalityType DEF NullsNeeded

\* addWork of an item x at the end of the queue keeps the queue in order.
LEMMA PushStep ==
    ASSUME PoolInv, NEW x \in Works \cup {Null}, Push(x), x \notin Queued \cup Running,
           before' = before,
           phase' = phase, x = Null => phase # "open",
           nulls' \in 0 .. Cardinality(Threads)
    PROVE  PoolInv'
<1> USE DEF Push
<1>0. PoolTypeOK /\ NotifyOne /\ workQ' = Append(workQ, x)
  BY DEF PoolInv
<1>1. PoolTypeOK'
  BY <1>0, Notify, Appended DEF PoolTypeOK
<1>2. OneOwner'
  <2>1. ASSUME NEW i \in DOMAIN workQ', NEW k \in DOMAIN workQ', i # k,
               workQ'[i] = workQ'[k], workQ'[i] # Null
        PROVE  FALSE
    <3>1. CASE i \in DOMAIN workQ /\ k \in DOMAIN workQ
      BY <1>0, <2>1, <3>1, Appended DEF PoolInv, OneOwner
    <3>2. CASE i \notin DOMAIN workQ
      <4>1. workQ'[i] = x /\ k \in DOMAIN workQ /\ workQ[k] = x
        BY <1>0, <2>1, <3>2, Appended
      <4> QED
        BY <2>1, <4>1 DEF Queued
    <3>3. CASE k \notin DOMAIN workQ
      <4>1. workQ'[k] = x /\ i \in DOMAIN workQ /\ workQ[i] = x
        BY <1>0, <2>1, <3>3, Appended
      <4> QED
        BY <2>1, <4>1 DEF Queued
    <3> QED
      BY <3>1, <3>2, <3>3
  <2>2. ASSUME NEW t \in Threads, NEW u \in Threads, t # u,
               thread'[t] = thread'[u], thread'[t] \in Works
        PROVE  FALSE
    BY <1>0, <2>2, Notify DEF PoolInv, OneOwner
  <2>3. Queued' \cap Running' = {}
    BY <1>0, Notify, Appended DEF PoolInv, OneOwner
  <2> QED
    BY <2>1, <2>2, <2>3 DEF OneOwner
<1>3. NoLostWakeup'
  <2> SUFFICES ASSUME In(Waiting)' # {}
               PROVE  Len(workQ') <= Cardinality(In(Awake)')
    BY DEF NoLostWakeup
  <2>1. /\ Len(workQ) <= Cardinality(In(Awake))
        /\ Cardinality(In(Awake)') = Cardinality(In(Awake)) + 1
    BY <1>0, Notify DEF PoolInv, NoLostWakeup
  <2>2. Len(workQ) \in Nat /\ Cardinality(In(Awake)) \in Nat /\ Len(workQ') = Len(workQ) + 1
    BY <1>0, Appended, InFinite
  <2> QED
    BY <2>1, <2>2
<1>4. Phases'
  <2>1. In(Dead)' = In(Dead)
    BY <1>0, Notify
  <2>2. ASSUME phase = "open"
        PROVE  \A i \in DOMAIN workQ' : workQ'[i] # Null
    BY <1>0, <2>2, Appended DEF PoolInv, Phases
  <2> QED
    BY <2>1, <2>2 DEF PoolInv, Phases
<1>5. InOrder'
  <2> SUFFICES ASSUME NEW i \in DOMAIN workQ', workQ'[i] \in before'
               PROVE  In(Dead)' = {} /\ \A k \in 1 .. i : workQ'[k] # Null
    BY DEF InOrder
  <2>0. x \notin before
    BY DEF PoolInv, Accounted
  <2>1. i \in DOMAIN workQ /\ workQ'[i] = workQ[i] /\ workQ[i] \in before
    BY <1>0, <2>0, Appended
  <2>2. \A k \in 1 .. i : k \in DOMAIN workQ /\ workQ'[k] = workQ[k]
    BY <1>0, <2>1, Appended
  <2> QED
    BY <1>0, <2>1, <2>2, Notify DEF PoolInv, InOrder
<1>6. Accounted'
  BY <1>0, Notify, Appended DEF PoolInv, Accounted
<1> QED
  BY <1>1, <1>2, <1>3, <1>4, <1>5, <1>6 DEF PoolInv

\* A thread takes the front of the queue, or goes to sleep.
LEMMA RetrieveStep ==
    ASSUME PoolInv, NEW t \in Threads, RetrieveWork(t)
    PROVE  PoolInv'
<1>0. /\ PoolTypeOK /\ thread[t] = Awake
      /\ phase' = phase /\ nulls' = nulls /\ before' = before
  BY DEF PoolInv, RetrieveWork
<1>1. CASE workQ = <<>>
  <2>1. thread' = [thread EXCEPT ![t] = Waiting] /\ workQ' = workQ
    BY <1>1 DEF RetrieveWork
  <2>2. \A u \in Threads : thread'[u] = IF u = t THEN Waiting ELSE thread[u]
    BY <1>0, <2>1 DEF PoolTypeOK
  <2>3. PoolTypeOK'
    BY <1>0, <2>1 DEF PoolTypeOK
  <2>4. Running' = Running /\ Queued' = Queued /\ In(Dead)' = In(Dead)
    BY <1>0, <2>1, <2>2, StatesDistinct DEF Running, Queued, In
  <2>5. OneOwner'
    <3>1. \A u \in Threads : thread'[u] \in Works => thread'[u] = thread[u]
      BY <2>2, StatesDistinct
    <3> QED
      BY <1>0, <2>1, <2>4, <3>1 DEF PoolInv, OneOwner
  <2>6. NoLostWakeup'
    <3>1. In(Awake)' \in SUBSET Threads
      BY DEF In
    <3>2. Cardinality(In(Awake)') \in Nat
      BY <3>1, FS_Subset, FS_CardinalityType, PoolAssumption
    <3>3. Len(workQ') = 0
      BY <1>1, <2>1
    <3> QED
      BY <3>2, <3>3 DEF NoLostWakeup
  <2>7. Phases' /\ InOrder' /\ Accounted'
    BY <1>0, <2>1, <2>4 DEF PoolInv, Phases, InOrder, Accounted
  <2> QED
    BY <2>3, <2>5, <2>6, <2>7 DEF PoolInv
<1>2. CASE workQ # <<>>
  <2> DEFINE s == IF Head(workQ) = Null THEN Dead ELSE Head(workQ)
  <2>1. thread' = [thread EXCEPT ![t] = s] /\ workQ' = Tail(workQ)
    BY <1>2 DEF RetrieveWork
  <2>2. \A u \in Threads : thread'[u] = IF u = t THEN s ELSE thread[u]
    BY <1>0, <2>1 DEF PoolTypeOK
  <2>3. Head(workQ) \in Works \cup {Null} /\ Head(workQ) = workQ[1] /\ 1 \in DOMAIN workQ
    BY <1>0, <1>2, <2>1, Popped
  <2>4. s \in Works \cup {Dead} /\ s # Awake /\ s # Waiting
    BY <2>3, StatesDistinct
  <2>5. s \in Works => s = Head(workQ) /\ s \in Queued
    BY <2>3, StatesDistinct DEF Queued
  <2>6. PoolTypeOK'
    BY <1>0, <1>2, <2>1, <2>4, Popped DEF PoolTypeOK
  <2>7. Running' = Running \cup ({s} \cap Works)
    BY <1>0, <2>2, StatesDistinct DEF Running
  <2>8. Queued' \cup ({s} \cap Works) = Queued /\ s \notin Queued'
    <3>1. Queued = Queued' \cup ({Head(workQ)} \ {Null})
      BY <1>0, <1>2, <2>1, Popped
    <3>2. s \notin Queued'
      <4> SUFFICES ASSUME NEW i \in DOMAIN workQ', workQ'[i] = s, s # Null
                   PROVE  FALSE
        BY DEF Queued
      <4>1. i + 1 \in DOMAIN workQ /\ workQ[i + 1] = s /\ i + 1 # 1
        BY <1>0, <1>2, <2>1, Popped
      <4>2. s \in Works \cup {Null}
        BY <1>0, <4>1, LenProperties DEF PoolTypeOK
      <4>3. s = workQ[1]
        BY <2>3, <2>4, <4>2, StatesDistinct
      <4> QED
        BY <2>3, <4>1, <4>3 DEF PoolInv, OneOwner
    <3>3. s \in Works <=> Head(workQ) # Null
      BY <2>3, StatesDistinct
    <3> QED
      BY <3>1, <3>2, <3>3, PoolAssumption
  <2>9. OneOwner'
    <3>1. ASSUME NEW i \in DOMAIN workQ', NEW k \in DOMAIN workQ', i # k,
                 workQ'[i] = workQ'[k]
          PROVE  workQ'[i] = Null
      <4>1. /\ i + 1 \in DOMAIN workQ /\ workQ'[i] = workQ[i + 1]
            /\ k + 1 \in DOMAIN workQ /\ workQ'[k] = workQ[k + 1]
            /\ i + 1 # k + 1
        BY <1>0, <1>2, <2>1, <3>1, Popped
      <4> QED
        BY <3>1, <4>1 DEF PoolInv, OneOwner
    <3>2. ASSUME NEW u \in Threads, NEW v \in Threads, u # v,
                 thread'[u] = thread'[v], thread'[u] \in Works
          PROVE  FALSE
      <4>1. CASE u # t /\ v # t
        BY <2>2, <3>2, <4>1 DEF PoolInv, OneOwner
      <4>2. CASE u = t \/ v = t
        <5>1. s \in Works /\ s \in Running
          BY <2>2, <3>2, <4>2 DEF Running
        <5> QED
          BY <2>5, <5>1 DEF PoolInv, OneOwner
      <4> QED
        BY <4>1, <4>2
    <3>3. Queued' \cap Running' = {}
      BY <1>0, <2>5, <2>7, <2>8 DEF PoolInv, OneOwner
    <3> QED
      BY <3>1, <3>2, <3>3 DEF OneOwner
  <2>10. NoLostWakeup'
    <3> SUFFICES ASSUME In(Waiting)' # {}
                 PROVE  Len(workQ') <= Cardinality(In(Awake)')
      BY DEF NoLostWakeup
    <3>1. In(Waiting) # {}
      BY <1>0, <2>2, <2>4 DEF In
    <3>2. Len(workQ) <= Cardinality(In(Awake))
      BY <3>1 DEF PoolInv, NoLostWakeup
    <3>3. Cardinality(In(Awake)') = Cardinality(In(Awake)) - 1
      BY <1>0, <2>1, <2>4, Leave
    <3>4. Len(workQ) \in Nat /\ Cardinality(In(Awake)) \in Nat /\ Len(workQ') = Len(workQ) - 1
      BY <1>0, <1>2, <2>1, Popped, InFinite
    <3> QED
      BY <3>2, <3>3, <3>4
  <2>11. Phases'
    <3>1. ASSUME phase = "open"
          PROVE  In(Dead)' = {} /\ \A i \in DOMAIN workQ' : workQ'[i] # Null
      <4>1. In(Dead) = {} /\ s # Dead
        BY <2>3, <3>1, StatesDistinct DEF PoolInv, Phases
      <4>2. In(Dead)' = {}
        BY <2>2, <4>1 DEF In
      <4> QED
        BY <1>0, <1>2, <2>1, <3>1, <4>2, Popped DEF PoolInv, Phases
    <3>2. phase # "joined"
      BY <1>0, StatesDistinct DEF PoolInv, Phases, In
    <3> QED
      BY <1>0, <3>1, <3>2 DEF Phases
  <2>12. InOrder'
    <3> SUFFICES ASSUME NEW i \in DOMAIN workQ', workQ'[i] \in before'
                 PROVE  In(Dead)' = {} /\ \A k \in 1 .. i : workQ'[k] # Null
      BY DEF InOrder
    <3>1. /\ i + 1 \in DOMAIN workQ /\ workQ[i + 1] \in before
          /\ i \in 1 .. Len(workQ') /\ Len(workQ') \in Int
      BY <1>0, <1>2, <2>1, Popped
    <3>2. In(Dead) = {} /\ \A k \in 1 .. (i + 1) : workQ[k] # Null
      BY <3>1 DEF PoolInv, InOrder
    <3>3. 1 \in 1 .. (i + 1)
      BY <3>1
    <3>4. s # Dead
      BY <2>3, <3>2, <3>3, StatesDistinct
    <3>5. In(Dead)' = {}
      BY <2>2, <3>2, <3>4 DEF In
    <3>6. ASSUME NEW k \in 1 .. i
          PROVE  workQ'[k] # Null
      <4>1. k \in DOMAIN workQ' /\ k + 1 \in 1 .. (i + 1)
        BY <1>0, <1>2, <2>1, <3>1, Popped
      <4> QED
        BY <1>0, <1>2, <2>1, <3>2, <4>1, Popped
    <3> QED
      BY <3>5, <3>6
  <2>13. Accounted'
    BY <1>0, <2>7, <2>8 DEF PoolInv, Accounted
  <2> QED
    BY <2>6, <2>9, <2>10, <2>11, <2>12, <2>13 DEF PoolInv
<1> QED
  BY <1>1, <1>2

\* A sleeping thread wakes up on its own.
LEMMA SpuriousStep ==
    ASSUME PoolInv, NEW t \in Threads, SpuriousWakeup(t)
    PROVE  PoolInv'
<1>0. /\ PoolTypeOK /\ thread[t] = Waiting /\ thread[t] # Awake
      /\ thread' = [thread EXCEPT ![t] = Awake]
      /\ workQ' = workQ /\ phase' = phase /\ nulls' = nulls
      /\ before' = before
  BY StatesDistinct DEF PoolInv, SpuriousWakeup
<1>1. \A u \in Threads : thread'[u] = IF u = t THEN Awake ELSE thread[u]
  BY <1>0 DEF PoolTypeOK
<1>2. Running' = Running /\ Queued' = Queued /\ In(Dead)' = In(Dead)
  BY <1>0, <1>1, StatesDistinct DEF Running, Queued, In
<1>3. PoolTypeOK'
  BY <1>0 DEF PoolTypeOK
<1>4. OneOwner'
  <2>1. \A u \in Threads : thread'[u] \in Works => thread'[u] = thread[u]
    BY <1>1, StatesDistinct
  <2> QED
    BY <1>0, <1>2, <2>1 DEF PoolInv, OneOwner
<1>5. NoLostWakeup'
  <2>1. In(Waiting) # {} /\ Len(workQ) <= Cardinality(In(Awake))
    BY <1>0 DEF PoolInv, NoLostWakeup, In
  <2>2. Cardinality(In(Awake)') = Cardinality(In(Awake)) + 1
    BY <1>0, Wake
  <2>3. Len(workQ) \in Nat /\ Cardinality(In(Awake)) \in Nat /\ Len(workQ') = Len(workQ)
    BY <1>0, InFinite, LenProperties DEF PoolTypeOK
  <2> QED
    BY <2>1, <2>2, <2>3 DEF NoLostWakeup
<1>6. Phases' /\ InOrder' /\ Accounted'
  BY <1>0, <1>2 DEF PoolInv, Phases, InOrder, Accounted
<1> QED
  BY <1>3, <1>4, <1>5, <1>6 DEF PoolInv

\* Work is executed and deleted.
LEMMA FinishStep ==
    ASSUME PoolInv, NEW t \in Threads, Finish(t)
    PROVE  PoolInv'
<1>0. /\ PoolTypeOK /\ thread[t] \in Works /\ thread[t] # Awake
      /\ thread' = [thread EXCEPT ![t] = Awake]
      /\ workQ' = workQ /\ phase' = phase /\ nulls' = nulls
      /\ before' = before \ {thread[t]}
  BY StatesDistinct DEF PoolInv, Finish
<1>1. \A u \in Threads : thread'[u] = IF u = t THEN Awake ELSE thread[u]
  BY <1>0 DEF PoolTypeOK
<1>2. Queued' = Queued /\ In(Dead)' = In(Dead)
  BY <1>0, <1>1, StatesDistinct DEF Queued, In
<1>3. Running = Running' \cup {thread[t]} /\ thread[t] \notin Running'
  <2>1. Running' = {thread[u] : u \in Threads \ {t}} \cap Works
    BY <1>0, Wake
  <2>2. \A u \in Threads \ {t} : thread[u] # thread[t]
    BY <1>0 DEF PoolInv, OneOwner
  <2> QED
    BY <1>0, <2>1, <2>2 DEF Running
<1>4. PoolTypeOK'
  BY <1>0 DEF PoolTypeOK
<1>5. OneOwner'
  <2>1. \A u \in Threads : thread'[u] \in Works => thread'[u] = thread[u]
    BY <1>1, StatesDistinct
  <2>2. thread[t] \notin Queued
    BY <1>3 DEF PoolInv, OneOwner
  <2> QED
    BY <1>0, <1>2, <1>3, <2>1, <2>2 DEF PoolInv, OneOwner
<1>6. NoLostWakeup'
  <2> SUFFICES ASSUME In(Waiting)' # {}
               PROVE  Len(workQ') <= Cardinality(In(Awake)')
    BY DEF NoLostWakeup
  <2>1. In(Waiting) # {} /\ Len(workQ) <= Cardinality(In(Awake))
    BY <1>0, Wake DEF PoolInv, NoLostWakeup
  <2>2. Cardinality(In(Awake)') = Cardinality(In(Awake)) + 1
    BY <1>0, Wake
  <2>3. Len(workQ) \in Nat /\ Cardinality(In(Awake)) \in Nat /\ Len(workQ') = Len(workQ)
    BY <1>0, InFinite, LenProperties DEF PoolTypeOK
  <2> QED
    BY <2>1, <2>2, <2>3
<1>7. Phases' /\ InOrder' /\ Accounted'
  BY <1>0, <1>2, <1>3 DEF PoolInv, Phases, InOrder, Accounted
<1> QED
  BY <1>4, <1>5, <1>6, <1>7 DEF PoolInv

\* emptyThreadPool is called: what is there is ahead of all null items.
LEMMA EmptyStep ==
    ASSUME PoolInv, EmptyThreadPool
    PROVE  PoolInv'
<1>0. /\ PoolTypeOK /\ phase = "open" /\ phase' = "poison"
      /\ before' = Queued \cup Running
      /\ workQ' = workQ /\ thread' = thread /\ nulls' = nulls
  BY DEF PoolInv, EmptyThreadPool
<1>1. DOMAIN workQ = 1 .. Len(workQ) /\ Len(workQ) \in Nat
      /\ \A i \in DOMAIN workQ : workQ[i] \in Works \cup {Null}
  BY <1>0, LenProperties DEF PoolTypeOK
<1>2. Queued \subseteq Works /\ Running \subseteq Works
  BY <1>1 DEF Queued, Running
<1>3. PoolTypeOK'
  BY <1>0, <1>2 DEF PoolTypeOK
<1>4. OneOwner' /\ NoLostWakeup' /\ Phases'
  BY <1>0 DEF PoolInv, OneOwner, NoLostWakeup, Phases, Queued, Running, In
<1>5. InOrder'
  <2>1. ASSUME NEW i \in DOMAIN workQ
        PROVE  \A k \in 1 .. i : k \in DOMAIN workQ
    BY <1>1
  <2>2. In(Dead) = {} /\ \A i \in DOMAIN workQ : workQ[i] # Null
    BY <1>0 DEF PoolInv, Phases
  <2>3. In(Dead)' = {}
    BY <1>0, <2>2 DEF In
  <2> QED
    BY <1>0, <2>1, <2>2, <2>3 DEF InOrder
<1>6. Accounted'
  BY <1>0 DEF Accounted, Queued, Running
<1> QED
  BY <1>3, <1>4, <1>5, <1>6 DEF PoolInv

\* The join loop ends.
LEMMA JoinStep ==
    ASSUME PoolInv, JoinThreads
    PROVE  PoolInv'
<1>0. /\ PoolTypeOK /\ phase' = "joined" /\ \A t \in Threads : thread[t] = Dead
      /\ workQ' = workQ /\ thread' = thread /\ nulls' = nulls
      /\ before' = before
  BY DEF PoolInv, JoinThreads, Joined
<1>1. PoolTypeOK'
  BY <1>0 DEF PoolTypeOK
<1>2. In(Dead)' = Threads
  BY <1>0 DEF In
<1>3. OneOwner' /\ NoLostWakeup' /\ InOrder' /\ Accounted'
  BY <1>0 DEF PoolInv, OneOwner, NoLostWakeup, InOrder, Accounted, Queued, Running, In
<1> QED
  BY <1>0, <1>1, <1>2, <1>3 DEF PoolInv, Phases

\* The invariant holds initially.
LEMMA PoolInitial == PoolInit => PoolInv
<1> SUFFICES ASSUME PoolInit PROVE PoolInv
  OBVIOUS
<1>1. workQ = <<>> /\ DOMAIN workQ = {} /\ Len(workQ) = 0 /\ workQ \in Seq(Works \cup {Null})
  BY DEF PoolInit
<1>2. \A t \in Threads : thread[t] = Awake
  BY DEF PoolInit
<1>3. Queued = {} /\ Running = {} /\ In(Dead) = {}
  BY <1>1, <1>2, StatesDistinct DEF Queued, Running, In
<1>4. PoolTypeOK
  BY <1>1, NullsNeededType DEF PoolInit, PoolTypeOK, NullsNeeded
<1>5. OneOwner
  BY <1>1, <1>2, <1>3, StatesDistinct DEF OneOwner
<1>6. NoLostWakeup
  BY <1>1, InFinite DEF NoLostWakeup
<1>7. Phases /\ InOrder /\ Accounted
  BY <1>1, <1>3 DEF PoolInit, Phases, InOrder, Accounted
<1> QED
  BY <1>4, <1>5, <1>6, <1>7 DEF PoolInv

\* Every step of the pool preserves the invariant.
LEMMA PoolStep == PoolInv /\ [PoolNext]_poolVars => PoolInv'
<1> SUFFICES ASSUME PoolInv, [PoolNext]_poolVars PROVE PoolInv'
  OBVIOUS
<1>1. ASSUME NEW w \in Works, AddWork(w) PROVE PoolInv'
  <2>1. w # Null /\ nulls' \in 0 .. Cardinality(Threads)
    BY <1>1, PoolAssumption DEF AddWork, PoolInv, PoolTypeOK
  <2> QED
    BY <1>1, <2>1, PushStep DEF AddWork
<1>2. ASSUME NEW t \in Threads, RetrieveWork(t) PROVE PoolInv'
  BY <1>2, RetrieveStep
<1>3. ASSUME NEW t \in Threads, SpuriousWakeup(t) PROVE PoolInv'
  BY <1>3, SpuriousStep
<1>4. ASSUME NEW t \in Threads, Finish(t) PROVE PoolInv'
  BY <1>4, FinishStep
<1>5. CASE EmptyThreadPool
  BY <1>5, EmptyStep
<1>6. CASE PushNull
  <2>1. /\ phase = "poison" /\ nulls < NullsNeeded /\ Push(Null)
        /\ nulls' = nulls + 1 /\ phase' = phase /\ before' = before
    BY <1>6 DEF PushNull
  <2>2. nulls + 1 \in 0 .. Cardinality(Threads)
    BY <2>1, NullsNeededType DEF PoolInv, PoolTypeOK
  <2>3. nulls' \in 0 .. Cardinality(Threads)
    BY <2>1, <2>2
  <2>4. Null \notin Queued \cup Running
    BY PoolAssumption DEF Queued, Running
  <2> QED
    BY <2>1, <2>3, <2>4, PushStep
<1>7. CASE JoinThreads
  BY <1>7, JoinStep
<1>8. CASE UNCHANGED poolVars
  BY <1>8 DEF poolVars, PoolInv, PoolTypeOK, OneOwner, NoLostWakeup, Phases, InOrder,
              Accounted, Queued, Running, In
<1> QED
  BY <1>1, <1>2, <1>3, <1>4, <1>5, <1>6, <1>7, <1>8 DEF PoolNext

\* The invariant of the pool holds in every reachable state.
THEOREM PoolInvariance == PoolSpec => []PoolInv
  BY PoolInitial, PoolStep, PTL DEF PoolSpec

\* Work is never executed or deleted by two threads of the pool.
THEOREM OneOwnerHolds == PoolSpec => []OneOwner
<1>1. PoolInv => OneOwner
  BY DEF PoolInv
<1> QED
  BY <1>1, PoolInvariance, PTL

\* A notification by addWork is never lost.
THEOREM NoLostWakeupHolds == PoolSpec => []NoLostWakeup
<1>1. PoolInv => NoLostWakeup
  BY DEF PoolInv
<1> QED
  BY <1>1, PoolInvariance, PTL

\* emptyThreadPool returns only when all work added before it is executed.
THEOREM DrainedHolds == PoolSpec => []Drained
<1>1. PoolInv => Drained
  <2> SUFFICES ASSUME PoolInv, phase = "joined"
               PROVE  Running = {} /\ before = {}
    BY DEF Drained
  <2>1. In(Dead) = Threads /\ Threads # {}
    BY PoolAssumption DEF PoolInv, Phases
  <2>2. Running = {}
    BY <2>1, StatesDistinct DEF In, Running
  <2>3. before \cap Queued = {}
    BY <2>1 DEF PoolInv, InOrder, Queued
  <2> QED
    BY <2>2, <2>3 DEF PoolInv, Accounted
<1> QED
  BY <1>1, PoolInvariance, PTL

-----------------------------------------------------------------------------
(* The server.                                                             *)

\* Aggregator::dispatch has a job left to queue.
JobsLeft == \A r \in Requesters : sent[r] < NumJobs

\* The history holds one sample per second, the latest first, and is longer
\* than it may be only between insert and trim.
Ages ==
    /\ \A i \in DOMAIN agVector : agVector[i] = i - 1
    /\ pc[Fetcher] # "trim" => Len(agVector) <= History

\* The main thread and emptyThreadPool.
Stopping ==
    /\ main \in {"construct", "serve", "grace"} => phase = "open"
    /\ main = "exited" => phase = "joined"

\* Once the pool is being emptied the fetcher is not queued any more.
FetcherAhead == phase # "open" /\ Fetcher \in Queued => Fetcher \in before

\* The inductive invariant of the server.
IInv ==
    ServerTypeOK /\ PoolInv /\ JobsLeft /\ Ages /\ PairApart /\ Stopping /\ FetcherAhead

\* No request reaches as far back as the whole history.
WithinHistory == \A q \in Requests : q.x < History

\* What getAggregators has seen of the size of the history still holds.
StillEnough == \A c \in Conns : pc[c] = "take" => request[c].x + 1 <= Len(agVector)

-----------------------------------------------------------------------------
(* The work of the pool, and what a step changes. *)

\* All requesters and jobs are work of the pool; the fetcher is none of the
\* connections and jobs.
LEMMA WorkFacts ==
    /\ Fetcher \in Requesters /\ Conns \subseteq Requesters
    /\ Requesters \subseteq Works /\ CounterJobs \subseteq Works
    /\ Fetcher \notin Conns /\ Fetcher \notin CounterJobs
    /\ NumJobs \in Nat \ {0} /\ History \in Nat \ {0} /\ RequestLimit \in Nat \ {0}
    /\ \A q \in Requests \cup {NoRequest} :
         q.kind \in {"static", "absolute", "persecond"} /\ q.x \in 0 .. History
  BY ServerAssumption DEF Requesters, CounterJobs, NoRequest

\* The job that Aggregator::dispatch queues next.
LEMMA NextJob ==
    ASSUME ServerTypeOK, JobsLeft, NEW r \in Requesters
    PROVE  <<r, sent[r] + 1>> \in CounterJobs
<1>1. sent[r] \in 0 .. NumJobs /\ sent[r] < NumJobs /\ NumJobs \in Nat
  BY WorkFacts DEF ServerTypeOK, JobsLeft
<1>2. sent[r] + 1 \in 1 .. NumJobs
  BY <1>1
<1> QED
  BY <1>2 DEF CounterJobs

\* Only dispatch changes the number of jobs queued.
LEMMA SentMoves ==
    ASSUME [Next]_vars
    PROVE  sent' = sent \/ \E r \in Requesters : Dispatch(r)
  BY WorkFacts DEF Next, vars, serverVars, CreatePeriodicCounterFetcher, FetcherStep,
     FetcherWakes, Collect, InsertAggregator, TrimAggregators, Accept, ConnStep,
     ReadRequest, ReadFails, Poll, Take, Respond, RunCounterJob, PoolThread,
     HandleSignal, StopStep, StopSlept, StopEmpties, CleanupAndExit

\* Only addAggregator changes the history.
LEMMA HistoryMoves ==
    ASSUME [Next]_vars
    PROVE  agVector' = agVector \/ InsertAggregator \/ TrimAggregators
  BY DEF Next, vars, serverVars, CreatePeriodicCounterFetcher, FetcherStep,
     FetcherWakes, Dispatch, Collect, Accept, ConnStep,
     ReadRequest, ReadFails, Poll, Take, Respond, RunCounterJob, PoolThread,
     HandleSignal, StopStep, StopSlept, StopEmpties, CleanupAndExit

\* Only the steps of connections change what connections know.
LEMMA ConnMoves ==
    ASSUME [Next]_vars
    PROVE  \/ UNCHANGED connVars
           \/ \E c \in Conns : ReadRequest(c) \/ ReadFails(c) \/ Take(c) \/ Respond(c)
  BY DEF Next, vars, serverVars, connVars, CreatePeriodicCounterFetcher, FetcherStep,
     FetcherWakes, Dispatch, Collect, InsertAggregator, TrimAggregators, Accept,
     ConnStep, Poll, RunCounterJob, PoolThread,
     HandleSignal, StopStep, StopSlept, StopEmpties, CleanupAndExit

\* Futures become ready and are collected.
LEMMA ReadyMoves ==
    ASSUME [Next]_vars
    PROVE  \/ ready' \subseteq ready
           \/ \E j \in CounterJobs : ready' = ready \cup {j}
  BY DEF Next, vars, serverVars, CreatePeriodicCounterFetcher, FetcherStep,
     FetcherWakes, Dispatch, Collect, InsertAggregator, TrimAggregators, Accept,
     ConnStep, ReadRequest, ReadFails, Poll, Take, Respond, RunCounterJob, PoolThread,
     HandleSignal, StopStep, StopSlept, StopEmpties, CleanupAndExit

\* A step moves at most one requester.
LEMMA PointMoves ==
    ASSUME ServerTypeOK, [Next]_vars
    PROVE  \/ pc' = pc
           \/ \E r \in Requesters, point \in {"sleep", "dispatch", "collect", "insert",
                                "trim", "read", "poll", "take", "respond"} :
                pc' = [pc EXCEPT ![r] = point]
<1>1. ASSUME NEW c \in Conns, ReadRequest(c)
      PROVE  \E point \in {"respond", "dispatch", "poll"} : pc' = [pc EXCEPT ![c] = point]
  BY <1>1, WorkFacts DEF ReadRequest, Goto
<1>2. \/ pc' = pc
      \/ \E c \in Conns : ReadRequest(c)
      \/ \E r \in Requesters, point \in {"sleep", "dispatch", "collect", "insert",
                                "trim", "read", "poll", "take", "respond"} : Goto(r, point)
  BY WorkFacts DEF Next, vars, serverVars, CreatePeriodicCounterFetcher, FetcherStep,
     FetcherWakes, Dispatch, Collect, InsertAggregator, TrimAggregators, Accept,
     ConnStep, ReadFails, Poll, Take, Respond, RunCounterJob, PoolThread,
     HandleSignal, StopStep, StopSlept, StopEmpties, CleanupAndExit
<1> QED
  BY <1>1, <1>2, WorkFacts DEF Goto

\* What the main thread does, and its exit flag.
LEMMA MainMoves ==
    ASSUME [Next]_vars
    PROVE  \/ main' = main /\ exit' = exit
           \/ CreatePeriodicCounterFetcher \/ HandleSignal \/ StopSlept \/ CleanupAndExit
  BY DEF Next, vars, serverVars, FetcherStep,
     FetcherWakes, Dispatch, Collect, InsertAggregator, TrimAggregators, Accept,
     ConnStep, ReadRequest, ReadFails, Poll, Take, Respond, RunCounterJob, PoolThread,
     StopStep, StopEmpties

\* What a step does to the pool: the fetcher is queued by the constructor of
\* the server only, work while the server serves or dispatches, and the pool is
\* emptied by stop().
LEMMA PoolMoves ==
    ASSUME ServerTypeOK, JobsLeft, [Next]_vars
    PROVE  \/ UNCHANGED poolVars
           \/ main = "construct" /\ AddWork(Fetcher)
           \/ \E w \in Conns \cup CounterJobs : AddWork(w)
           \/ \E t \in Threads : RetrieveWork(t) \/ Finish(t)
           \/ main = "grace" /\ main' = "stopping" /\ EmptyThreadPool
           \/ PushNull \/ JoinThreads
<1>1. ASSUME NEW r \in Requesters, Dispatch(r)
      PROVE  \E w \in CounterJobs : AddWork(w)
  BY <1>1, NextJob DEF Dispatch
<1>2. \/ UNCHANGED poolVars
      \/ main = "construct" /\ AddWork(Fetcher)
      \/ \E r \in Requesters : Dispatch(r)
      \/ \E w \in Conns : AddWork(w)
      \/ \E t \in Threads : RetrieveWork(t) \/ Finish(t)
      \/ main = "grace" /\ main' = "stopping" /\ EmptyThreadPool
      \/ PushNull \/ JoinThreads
  BY WorkFacts DEF Next, vars, poolVars, CreatePeriodicCounterFetcher, FetcherStep,
     FetcherWakes, Collect, InsertAggregator, TrimAggregators, Accept,
     ConnStep, ReadRequest, ReadFails, Poll, Take, Respond, RunCounterJob, PoolThread,
     HandleSignal, StopStep, StopSlept, StopEmpties, CleanupAndExit, Returns
<1> QED
  BY <1>1, <1>2

\* Every step of the server is a step of the pool or leaves it alone.
LEMMA UsesPool ==
    ASSUME ServerTypeOK, JobsLeft, [Next]_vars
    PROVE  [PoolNext]_poolVars
  BY PoolMoves, WorkFacts DEF PoolNext

-----------------------------------------------------------------------------
(* The invariant is inductive. *)

\* The history before a step, as numbers.
LEMMA HistoryType ==
    ASSUME ServerTypeOK
    PROVE  /\ agVector \in Seq(0 .. History) /\ Len(agVector) \in 0 .. (History + 1)
           /\ DOMAIN agVector = 1 .. Len(agVector)
<1>1. agVector \in Seq(0 .. History) /\ Len(agVector) <= History + 1
  BY DEF ServerTypeOK
<1>2. Len(agVector) \in Nat /\ DOMAIN agVector = 1 .. Len(agVector)
  BY <1>1, LenProperties
<1> QED
  BY <1>1, <1>2, WorkFacts

\* Inserting makes every sample a second older and puts the latest in front.
LEMMA InsertAges ==
    ASSUME ServerTypeOK, Ages, Len(agVector) <= History
    PROVE  /\ Inserted \in Seq(0 .. History) /\ Len(Inserted) = Len(agVector) + 1
           /\ DOMAIN Inserted = 1 .. Len(Inserted)
           /\ \A i \in DOMAIN Inserted : Inserted[i] = i - 1
<1>0. /\ Len(agVector) \in Nat /\ DOMAIN agVector = 1 .. Len(agVector)
      /\ History \in Nat
  BY HistoryType, WorkFacts
<1>1. ASSUME NEW i \in 1 .. Len(agVector)
      PROVE  agVector[i] + 1 = i /\ agVector[i] + 1 \in 0 .. History
  BY <1>0 DEF Ages
<1>2. Older = [i \in 1 .. Len(agVector) |-> agVector[i] + 1]
  BY <1>0 DEF Older
<1>3. /\ Older \in Seq(0 .. History) /\ Len(Older) = Len(agVector)
      /\ \A i \in 1 .. Len(agVector) : Older[i] = i
  BY <1>0, <1>1, <1>2
<1>4. <<0>> \in Seq(0 .. History) /\ Len(<<0>>) = 1 /\ <<0>>[1] = 0
  BY <1>0
<1>5. /\ Inserted \in Seq(0 .. History) /\ Len(Inserted) = 1 + Len(agVector)
      /\ \A i \in 1 .. (1 + Len(agVector)) :
           Inserted[i] = IF i <= 1 THEN <<0>>[i] ELSE Older[i - 1]
  BY <1>3, <1>4, ConcatProperties DEF Inserted
<1>6. DOMAIN Inserted = 1 .. Len(Inserted)
  BY <1>5, LenProperties
<1>7. ASSUME NEW i \in 1 .. (1 + Len(agVector))
      PROVE  Inserted[i] = i - 1
  <2>1. CASE i = 1
    BY <1>4, <1>5, <2>1
  <2>2. CASE i # 1
    <3>1. i - 1 \in 1 .. Len(agVector) /\ ~(i <= 1)
      BY <1>0, <2>2
    <3> QED
      BY <1>3, <1>5, <3>1
  <2> QED
    BY <2>1, <2>2
<1> QED
  BY <1>0, <1>5, <1>6, <1>7

\* Trimming drops the last sample.
LEMMA TrimAges ==
    ASSUME ServerTypeOK, Ages, Oversized
    PROVE  /\ SubSeq(agVector, 1, Len(agVector) - 1) \in Seq(0 .. History)
           /\ Len(SubSeq(agVector, 1, Len(agVector) - 1)) = Len(agVector) - 1
           /\ Len(agVector) = History + 1
           /\ \A i \in DOMAIN SubSeq(agVector, 1, Len(agVector) - 1) :
                SubSeq(agVector, 1, Len(agVector) - 1)[i] = i - 1
<1> DEFINE n == Len(agVector) - 1
           Q == SubSeq(agVector, 1, n)
<1>0. /\ Len(agVector) = History + 1 /\ n \in Nat \ {0} /\ n = History
      /\ DOMAIN agVector = 1 .. Len(agVector)
  <2>1. DOMAIN agVector = 1 .. Len(agVector) /\ History \in Nat \ {0}
    BY HistoryType, WorkFacts
  <2>2. Len(agVector) = History + 1
    <3>1. Len(agVector) \in 0 .. (History + 1) /\ Len(agVector) > History
      BY HistoryType DEF Oversized
    <3>2. Len(agVector) \in Nat /\ Len(agVector) <= History + 1 /\ History \in Nat
      BY <2>1, <3>1
    <3> QED
      BY <3>1, <3>2
  <2>3. n = History
    BY <2>1, <2>2
  <2> QED
    BY <2>1, <2>2, <2>3
<1>1. \A i \in 1 .. n : agVector[i] = i - 1 /\ agVector[i] \in 0 .. History
  BY <1>0, WorkFacts DEF Ages
<1>2. /\ Q \in Seq(0 .. History) /\ Len(Q) = n
      /\ \A i \in 1 .. n : Q[i] = agVector[i]
  <2>1. 1 \in Int /\ n \in Int /\ \A i \in 1 .. n : agVector[i] \in 0 .. History
    BY <1>0, <1>1
  <2> HIDE DEF n
  <2>2. /\ SubSeq(agVector, 1, n) \in Seq(0 .. History)
        /\ Len(SubSeq(agVector, 1, n)) = IF 1 <= n THEN n - 1 + 1 ELSE 0
        /\ \A i \in 1 .. (n - 1 + 1) : SubSeq(agVector, 1, n)[i] = agVector[1 + i - 1]
    BY <2>1, SubSeqProperties
  <2> QED
    BY <1>0, <2>2
<1>3. DOMAIN Q = 1 .. n
  BY <1>2, LenProperties
<1> HIDE DEF Q
<1>4. \A i \in DOMAIN Q : Q[i] = i - 1
  BY <1>1, <1>2, <1>3
<1> QED
  BY <1>0, <1>2, <1>4 DEF Q

\* A step keeps the history in order.
LEMMA AgesStep ==
    ASSUME IInv, [Next]_vars
    PROVE  /\ agVector' \in Seq(0 .. History) /\ Len(agVector') <= History + 1
           /\ Ages'
<1>0. ServerTypeOK /\ Ages
  BY DEF IInv
<1>1. CASE InsertAggregator
  <2>1. agVector' = Inserted /\ pc[Fetcher] = "insert" /\ pc' = [pc EXCEPT ![Fetcher] = "trim"]
    BY <1>1 DEF InsertAggregator, At, Goto
  <2>2. pc'[Fetcher] = "trim"
    BY <1>0, <2>1, WorkFacts DEF ServerTypeOK
  <2>3. Len(agVector) <= History
    BY <1>0, <2>1 DEF Ages
  <2>4. /\ Inserted \in Seq(0 .. History) /\ Len(Inserted) = Len(agVector) + 1
        /\ \A i \in DOMAIN Inserted : Inserted[i] = i - 1
    BY <1>0, <2>3, InsertAges
  <2>5. Len(Inserted) <= History + 1
    BY <1>0, <2>3, <2>4, HistoryType, WorkFacts
  <2> QED
    BY <2>1, <2>2, <2>4, <2>5 DEF Ages
<1>2. CASE TrimAggregators
  <2>1. agVector' = IF Oversized THEN SubSeq(agVector, 1, Len(agVector) - 1) ELSE agVector
    BY <1>2 DEF TrimAggregators
  <2>2. CASE Oversized
    <3> DEFINE Q == SubSeq(agVector, 1, Len(agVector) - 1)
    <3>1. /\ Q \in Seq(0 .. History) /\ Len(Q) = Len(agVector) - 1
          /\ Len(agVector) = History + 1 /\ \A i \in DOMAIN Q : Q[i] = i - 1
      BY <1>0, <2>2, TrimAges
    <3>2. agVector' = Q
      BY <2>1, <2>2
    <3> HIDE DEF Q
    <3>3. Len(Q) <= History
      BY <3>1, WorkFacts
    <3> QED
      BY <3>1, <3>2, <3>3, WorkFacts DEF Ages
  <2>3. CASE ~Oversized
    <3>1. agVector' = agVector
      BY <2>1, <2>3
    <3>2. Len(agVector) <= History /\ Len(agVector) <= History + 1
      BY <1>0, <2>3, HistoryType, WorkFacts DEF Oversized
    <3> QED
      BY <1>0, <3>1, <3>2, HistoryType DEF Ages
  <2> QED
    BY <2>2, <2>3
<1>3. CASE agVector' = agVector /\ ~InsertAggregator /\ ~TrimAggregators
  <2>1. agVector' \in Seq(0 .. History) /\ Len(agVector') <= History + 1
    BY <1>0, <1>3 DEF ServerTypeOK
  <2>2. pc[Fetcher] = "trim" => pc'[Fetcher] = "trim"
    <3> SUFFICES ASSUME pc[Fetcher] = "trim", pc' # pc PROVE pc'[Fetcher] = "trim"
      OBVIOUS
    <3>1. DOMAIN pc = Requesters
      BY <1>0 DEF ServerTypeOK
    <3>2. ~FetcherStep
      BY <1>3 DEF FetcherStep, FetcherWakes, Dispatch, Collect, At
    <3>3. PICK c \in Conns : ConnStep(c)
      BY <1>3, <3>2 DEF Next, vars, serverVars, CreatePeriodicCounterFetcher, Accept,
         RunCounterJob, PoolThread, HandleSignal, StopStep, StopSlept, StopEmpties,
         CleanupAndExit
    <3>4. pc' = pc \/ \E point : pc' = [pc EXCEPT ![c] = point]
      BY <3>3 DEF ConnStep, ReadRequest, ReadFails, Dispatch, Collect, Poll, Take, Respond,
         Goto
    <3> QED
      BY <3>1, <3>4, WorkFacts
  <2> QED
    BY <1>0, <1>3, <2>1, <2>2 DEF Ages
<1> QED
  BY <1>1, <1>2, <1>3, HistoryMoves

\* A step of dispatch keeps the count below the number of jobs.
LEMMA JobsStep ==
    ASSUME IInv, [Next]_vars
    PROVE  sent' \in [Requesters -> 0 .. NumJobs] /\ JobsLeft'
<1>0. /\ sent \in [Requesters -> 0 .. NumJobs] /\ NumJobs \in Nat \ {0}
      /\ \A r \in Requesters : sent[r] < NumJobs
  BY WorkFacts DEF IInv, ServerTypeOK, JobsLeft
<1>1. CASE sent' = sent
  BY <1>0, <1>1 DEF JobsLeft
<1>2. ASSUME NEW r \in Requesters, Dispatch(r)
      PROVE  sent' \in [Requesters -> 0 .. NumJobs] /\ JobsLeft'
  <2>1. \/ sent[r] + 1 < NumJobs /\ sent' = [sent EXCEPT ![r] = sent[r] + 1]
        \/ sent' = [sent EXCEPT ![r] = 0]
    BY <1>2 DEF Dispatch
  <2> QED
    BY <1>0, <2>1 DEF JobsLeft
<1> QED
  BY <1>1, <1>2, SentMoves

\* The samples that getAggregators copies are as far apart as asked for.
LEMMA TakePair ==
    ASSUME IInv, NEW c \in Conns, Take(c)
    PROVE  \E p \in [x : 0 .. History, new : 0 .. History, old : 0 .. History] :
             /\ pair' = [pair EXCEPT ![c] = p]
             /\ p # Wild => p.old = p.new + p.x
             /\ request[c].x + 1 <= Len(agVector) => p # Wild
<1>0. ServerTypeOK /\ Ages
  BY DEF IInv
<1> DEFINE x == request[c].x
<1>1. x \in 0 .. History /\ History \in Nat \ {0}
  BY <1>0, WorkFacts DEF ServerTypeOK
<1>2. DOMAIN agVector = 1 .. Len(agVector) /\ Len(agVector) \in Nat
  BY <1>0, HistoryType
<1>3. \A i \in DOMAIN agVector : agVector[i] = i - 1
  BY <1>0 DEF Ages
<1>4. pair' = [pair EXCEPT ![c] =
                 IF x + 1 \in DOMAIN agVector
                 THEN [x |-> x, new |-> agVector[1], old |-> agVector[x + 1]]
                 ELSE Wild]
  BY DEF Take
<1> HIDE DEF x
<1>5. CASE x + 1 \in DOMAIN agVector
  <2>1. 1 \in DOMAIN agVector
    BY <1>1, <1>2, <1>5
  <2>2. agVector[1] = 0 /\ agVector[x + 1] = x
    BY <1>1, <1>3, <1>5, <2>1
  <2> DEFINE p == [x |-> x, new |-> agVector[1], old |-> agVector[x + 1]]
  <2>3. pair' = [pair EXCEPT ![c] = p]
    BY <1>4, <1>5
  <2>4. /\ p \in [x : 0 .. History, new : 0 .. History, old : 0 .. History]
        /\ p.x = x /\ p.new = 0 /\ p.old = x
    BY <1>1, <2>2
  <2>5. p # Wild
    <3>1. Wild.x = 0 /\ Wild.old = 1
      BY DEF Wild
    <3> QED
      BY <1>1, <2>4, <3>1
  <2> HIDE DEF p
  <2>6. p.old = p.new + p.x
    BY <1>1, <2>4
  <2> QED
    BY <2>3, <2>4, <2>5, <2>6
<1>6. CASE x + 1 \notin DOMAIN agVector
  <2>1. Wild \in [x : 0 .. History, new : 0 .. History, old : 0 .. History]
    BY <1>1 DEF Wild
  <2>2. ~(x + 1 <= Len(agVector))
    BY <1>1, <1>2, <1>6
  <2> QED
    BY <1>4, <1>6, <2>1, <2>2 DEF x
<1> QED
  BY <1>5, <1>6

\* The types of what connections know, and the distance of their pairs.
LEMMA ConnsStep ==
    ASSUME IInv, [Next]_vars
    PROVE  /\ request' \in [Conns -> Requests \cup {NoRequest}]
           /\ numRequests' \in [Conns -> 0 .. RequestLimit]
           /\ keepListening' \in [Conns -> BOOLEAN]
           /\ pair' \in [Conns -> [x : 0 .. History, new : 0 .. History, old : 0 .. History]]
           /\ PairApart'
<1>0. /\ request \in [Conns -> Requests \cup {NoRequest}]
      /\ numRequests \in [Conns -> 0 .. RequestLimit]
      /\ keepListening \in [Conns -> BOOLEAN]
      /\ pair \in [Conns -> [x : 0 .. History, new : 0 .. History, old : 0 .. History]]
      /\ PairApart /\ RequestLimit \in Nat \ {0} /\ History \in Nat \ {0}
  BY WorkFacts DEF IInv, ServerTypeOK
<1>1. CASE UNCHANGED connVars
  BY <1>0, <1>1 DEF connVars, PairApart
<1>2. ASSUME NEW c \in Conns, ReadRequest(c)
      PROVE  /\ request' \in [Conns -> Requests \cup {NoRequest}]
             /\ numRequests' \in [Conns -> 0 .. RequestLimit]
             /\ keepListening' \in [Conns -> BOOLEAN]
             /\ pair' = pair
  <2>1. PICK q \in Requests, alive \in BOOLEAN :
           /\ request' = [request EXCEPT ![c] = q]
           /\ keepListening' = [keepListening EXCEPT ![c] = KeepsListening(c, alive)]
    BY <1>2 DEF ReadRequest
  <2>2. KeepsListening(c, alive) \in BOOLEAN
    BY DEF KeepsListening
  <2>3. numRequests' \in [Conns -> 0 .. RequestLimit] /\ pair' = pair
    BY <1>0, <1>2 DEF ReadRequest
  <2>4. keepListening' \in [Conns -> BOOLEAN]
    BY <1>0, <2>1, <2>2
  <2> QED
    BY <1>0, <2>1, <2>3, <2>4
<1>3. ASSUME NEW c \in Conns, LocalsEnd(c)
      PROVE  /\ numRequests' \in [Conns -> 0 .. RequestLimit]
             /\ keepListening' \in [Conns -> BOOLEAN]
  BY <1>0, <1>3 DEF LocalsEnd
<1>4. ASSUME NEW c \in Conns, ReadFails(c)
      PROVE  LocalsEnd(c) /\ request' = request /\ pair' = pair
  BY <1>4 DEF ReadFails
<1>5. ASSUME NEW c \in Conns, Take(c)
      PROVE  /\ request' = request /\ numRequests' = numRequests
             /\ keepListening' = keepListening
             /\ pair' \in [Conns -> [x : 0 .. History, new : 0 .. History, old : 0 .. History]]
             /\ PairApart'
  <2>1. request' = request /\ numRequests' = numRequests /\ keepListening' = keepListening
    BY <1>5 DEF Take
  <2>2. PICK p \in [x : 0 .. History, new : 0 .. History, old : 0 .. History] :
           pair' = [pair EXCEPT ![c] = p] /\ (p # Wild => p.old = p.new + p.x)
    BY <1>5, TakePair
  <2> QED
    BY <1>0, <2>1, <2>2 DEF PairApart
<1>6. ASSUME NEW c \in Conns, Respond(c)
      PROVE  /\ request' \in [Conns -> Requests \cup {NoRequest}]
             /\ LocalsEnd(c) \/ (numRequests' = numRequests /\ keepListening' = keepListening)
             /\ pair' \in [Conns -> [x : 0 .. History, new : 0 .. History, old : 0 .. History]]
             /\ PairApart'
  <2>1. /\ request' = [request EXCEPT ![c] = NoRequest]
        /\ LocalsEnd(c) \/ (numRequests' = numRequests /\ keepListening' = keepListening)
        /\ pair' = [pair EXCEPT ![c] = None]
    BY <1>6 DEF Respond
  <2>2. /\ None \in [x : 0 .. History, new : 0 .. History, old : 0 .. History]
        /\ None.old = None.new + None.x
    BY <1>0 DEF None
  <2> QED
    BY <1>0, <2>1, <2>2 DEF PairApart
<1>7. pair' = pair => PairApart'
  BY <1>0 DEF PairApart
<1> QED
  BY <1>0, <1>1, <1>2, <1>3, <1>4, <1>5, <1>6, <1>7, ConnMoves

\* Where the requesters are, the futures and the main thread.
LEMMA RestStep ==
    ASSUME IInv, [Next]_vars
    PROVE  /\ pc' \in [Requesters -> {"sleep", "dispatch", "collect", "insert", "trim",
                                      "read", "poll", "take", "respond"}]
           /\ ready' \subseteq CounterJobs
           /\ main' \in {"construct", "serve", "grace", "stopping", "exited"}
           /\ exit' \in BOOLEAN
<1>0. ServerTypeOK
  BY DEF IInv
<1>1. pc' \in [Requesters -> {"sleep", "dispatch", "collect", "insert", "trim",
                              "read", "poll", "take", "respond"}]
  <2>1. pc \in [Requesters -> {"sleep", "dispatch", "collect", "insert", "trim",
                               "read", "poll", "take", "respond"}]
    BY <1>0 DEF ServerTypeOK
  <2> QED
    BY <1>0, <2>1, PointMoves
<1>2. ready' \subseteq CounterJobs
  <2>1. ready \subseteq CounterJobs
    BY <1>0 DEF ServerTypeOK
  <2> QED
    BY <2>1, ReadyMoves
<1>3. /\ main' \in {"construct", "serve", "grace", "stopping", "exited"}
      /\ exit' \in BOOLEAN
  BY <1>0, MainMoves DEF ServerTypeOK, CreatePeriodicCounterFetcher, HandleSignal, StopSlept,
     CleanupAndExit
<1> QED
  BY <1>1, <1>2, <1>3

\* The main thread and the pool agree on the shutdown.
LEMMA StoppingStep ==
    ASSUME IInv, [Next]_vars
    PROVE  Stopping'
<1>0. ServerTypeOK /\ JobsLeft /\ Stopping
  BY DEF IInv
<1>1. \/ main' = main
      \/ main = "construct" /\ main' = "serve" /\ phase' = phase
      \/ main = "serve" /\ main' = "grace" /\ phase' = phase
      \/ main = "grace" /\ main' = "stopping"
      \/ main = "stopping" /\ main' = "exited" /\ phase = "joined" /\ phase' = phase
  BY MainMoves DEF CreatePeriodicCounterFetcher, HandleSignal, StopSlept, CleanupAndExit,
     AddWork, poolVars
<1>2. \/ phase' = phase
      \/ phase = "open" /\ main' = "stopping"
      \/ phase = "poison"
  BY <1>0, PoolMoves DEF poolVars, AddWork, RetrieveWork, Finish, EmptyThreadPool, PushNull,
     JoinThreads
<1> QED
  BY <1>0, <1>1, <1>2 DEF Stopping

\* The queue of the pool after a step.
LEMMA QueueMoves ==
    ASSUME PoolInv
    PROVE  /\ \A w \in Works : AddWork(w) => Queued' = Queued \cup {w}
           /\ \A t \in Threads : RetrieveWork(t) => Queued' \subseteq Queued
           /\ PushNull => Queued' = Queued
<1>0. PoolTypeOK
  BY DEF PoolInv
<1>1. ASSUME NEW w \in Works, AddWork(w)
      PROVE  Queued' = Queued \cup {w}
  <2>1. workQ' = Append(workQ, w) /\ w # Null
    BY <1>1, PoolAssumption DEF AddWork, Push
  <2> QED
    BY <1>0, <2>1, Appended
<1>2. ASSUME NEW t \in Threads, RetrieveWork(t)
      PROVE  Queued' \subseteq Queued
  <2>1. CASE workQ = <<>>
    BY <1>2, <2>1 DEF RetrieveWork, Queued
  <2>2. CASE workQ # <<>>
    BY <1>0, <1>2, <2>2, Popped DEF RetrieveWork
  <2> QED
    BY <2>1, <2>2
<1>3. ASSUME PushNull PROVE Queued' = Queued
  <2>1. workQ' = Append(workQ, Null)
    BY <1>3 DEF PushNull, Push
  <2> QED
    BY <1>0, <2>1, Appended
<1> QED
  BY <1>1, <1>2, <1>3

\* The fetcher is ahead of the null items.
LEMMA AheadStep ==
    ASSUME IInv, PoolInv', [Next]_vars
    PROVE  FetcherAhead'
<1>0. ServerTypeOK /\ JobsLeft /\ Stopping /\ PoolInv /\ FetcherAhead
  BY DEF IInv
<1>1. CASE UNCHANGED poolVars
  BY <1>0, <1>1 DEF poolVars, FetcherAhead, Queued
<1>2. CASE main = "construct" /\ AddWork(Fetcher)
  <2>1. phase' = "open"
    BY <1>0, <1>2 DEF Stopping, AddWork
  <2> QED
    BY <2>1 DEF FetcherAhead
<1>3. ASSUME NEW w \in Conns \cup CounterJobs, AddWork(w)
      PROVE  FetcherAhead'
  <2>1. Queued' = Queued \cup {w} /\ w # Fetcher
    BY <1>0, <1>3, QueueMoves, WorkFacts
  <2>2. phase' = phase /\ before' = before
    BY <1>3 DEF AddWork
  <2> QED
    BY <1>0, <2>1, <2>2 DEF FetcherAhead
<1>4. ASSUME NEW t \in Threads, RetrieveWork(t)
      PROVE  FetcherAhead'
  <2>1. Queued' \subseteq Queued
    BY <1>0, <1>4, QueueMoves
  <2>2. phase' = phase /\ before' = before
    BY <1>4 DEF RetrieveWork
  <2> QED
    BY <1>0, <2>1, <2>2 DEF FetcherAhead
<1>5. ASSUME NEW t \in Threads, Finish(t)
      PROVE  FetcherAhead'
  <2>1. /\ thread[t] \in Running /\ Queued' = Queued
        /\ phase' = phase /\ before' = before \ {thread[t]}
    BY <1>5 DEF Finish, Running, Queued
  <2>2. thread[t] \notin Queued
    BY <1>0, <2>1 DEF PoolInv, OneOwner
  <2> QED
    BY <1>0, <2>1, <2>2 DEF FetcherAhead
<1>6. CASE EmptyThreadPool
  BY <1>6 DEF EmptyThreadPool, FetcherAhead, Queued
<1>7. CASE PushNull
  <2>1. Queued' = Queued
    BY <1>0, <1>7, QueueMoves
  <2> QED
    BY <1>0, <1>7, <2>1 DEF PushNull, FetcherAhead
<1>8. CASE JoinThreads
  BY <1>0, <1>8 DEF JoinThreads, FetcherAhead, Queued
<1> QED
  BY <1>0, <1>1, <1>2, <1>3, <1>4, <1>5, <1>6, <1>7, <1>8, PoolMoves

\* The server starts in a state of the invariant.
LEMMA InitIInv == Init => IInv
<1> SUFFICES ASSUME Init PROVE IInv
  OBVIOUS
<1>1. PoolInv /\ PoolTypeOK
  BY PoolInitial DEF Init, PoolInv
<1>2. /\ main = "construct" /\ exit = FALSE /\ phase = "open" /\ agVector = <<>>
      /\ pc = [r \in Requesters |-> IF r = Fetcher THEN "sleep" ELSE "read"]
      /\ sent = [r \in Requesters |-> 0] /\ ready = {}
      /\ request = [c \in Conns |-> NoRequest]
      /\ numRequests = [c \in Conns |-> 0]
      /\ keepListening = [c \in Conns |-> FALSE]
      /\ pair = [c \in Conns |-> None]
  BY DEF Init, PoolInit
<1>3. /\ agVector \in Seq(0 .. History) /\ Len(agVector) = 0 /\ DOMAIN agVector = {}
      /\ 0 <= History /\ 0 <= History + 1
  <2>1. 0 <= History /\ 0 <= History + 1
    BY WorkFacts
  <2>2. agVector \in Seq(0 .. History) /\ Len(agVector) = 0 /\ DOMAIN agVector = {}
    BY <1>2
  <2> QED
    BY <2>1, <2>2
<1>4. /\ None \in [x : 0 .. History, new : 0 .. History, old : 0 .. History]
      /\ None.old = None.new + None.x
  BY WorkFacts DEF None
<1>5. ServerTypeOK
  <2>1. /\ main \in {"construct", "serve", "grace", "stopping", "exited"}
        /\ exit \in BOOLEAN /\ ready \subseteq CounterJobs
        /\ pc \in [Requesters -> {"sleep", "dispatch", "collect", "insert", "trim",
                                  "read", "poll", "take", "respond"}]
    BY <1>2
  <2>2. /\ sent \in [Requesters -> 0 .. NumJobs]
        /\ numRequests \in [Conns -> 0 .. RequestLimit]
    BY <1>2, WorkFacts
  <2>3. /\ request \in [Conns -> Requests \cup {NoRequest}]
        /\ keepListening \in [Conns -> BOOLEAN]
        /\ pair \in [Conns -> [x : 0 .. History, new : 0 .. History, old : 0 .. History]]
    BY <1>2, <1>4
  <2> QED
    BY <1>1, <1>3, <2>1, <2>2, <2>3 DEF ServerTypeOK
<1>6. JobsLeft
  BY <1>2, WorkFacts DEF JobsLeft
<1>7. Ages
  BY <1>3 DEF Ages
<1>8. PairApart
  BY <1>2, <1>4 DEF PairApart
<1>9. Stopping /\ FetcherAhead
  BY <1>2 DEF Stopping, FetcherAhead
<1> QED
  BY <1>1, <1>5, <1>6, <1>7, <1>8, <1>9 DEF IInv

\* Every step of the server preserves the invariant.
LEMMA NextIInv == IInv /\ [Next]_vars => IInv'
<1> SUFFICES ASSUME IInv, [Next]_vars PROVE IInv'
  OBVIOUS
<1>1. ServerTypeOK /\ JobsLeft /\ PoolInv
  BY DEF IInv
<1>2. PoolInv' /\ PoolTypeOK'
  BY <1>1, UsesPool, PoolStep DEF PoolInv
<1>3. ServerTypeOK'
  BY <1>2, RestStep, JobsStep, AgesStep, ConnsStep DEF ServerTypeOK
<1> QED
  BY <1>2, <1>3, JobsStep, AgesStep, ConnsStep, StoppingStep, AheadStep DEF IInv

\* The invariant of the server holds in every reachable state.
THEOREM Inductive == Spec => []IInv
  BY InitIInv, NextIInv, PTL DEF Spec

\* The server uses its thread pool as ThreadPool specifies: everything that is
\* proved of the pool holds in the server, with fetcher, connections and jobs
\* as its work.
THEOREM ImplementsPool == Spec => PoolSpec
<1>1. Init => PoolInit
  BY DEF Init
<1>2. IInv /\ [Next]_vars => [PoolNext]_poolVars
  BY UsesPool DEF IInv
<1> QED
  BY <1>1, <1>2, Inductive, PTL DEF Spec, PoolSpec

\* The two samples of a /persecond/X answer were scheduled X seconds apart,
\* whatever addAggregator does while the connection waits for its mutex.
THEOREM SamplesApart == Spec => []PairApart
<1>1. IInv => PairApart
  BY DEF IInv
<1> QED
  BY <1>1, Inductive, PTL

\* PCM::cleanup of the main thread runs when no thread runs work any more and
\* the fetcher has left the queue.
THEOREM CleansUpAlone == Spec => []CleanupAlone
<1>1. IInv => CleanupAlone
  <2> SUFFICES ASSUME IInv, main = "exited"
               PROVE  Running = {} /\ Fetcher \notin Queued
    BY DEF CleanupAlone
  <2>1. phase = "joined" /\ PoolInv /\ FetcherAhead
    BY DEF IInv, Stopping
  <2>2. In(Dead) = Threads /\ Threads # {}
    BY <2>1, PoolAssumption DEF PoolInv, Phases
  <2>3. Running = {}
    BY <2>2, StatesDistinct DEF In, Running
  <2>4. \A i \in DOMAIN workQ : workQ[i] \notin before
    BY <2>1, <2>2 DEF PoolInv, InOrder
  <2>5. Fetcher \notin Queued
    BY <2>1, <2>4 DEF FetcherAhead, Queued
  <2> QED
    BY <2>3, <2>5
<1> QED
  BY <1>1, Inductive, PTL

-----------------------------------------------------------------------------
(* The index of getAggregators. *)

\* A connection about to copy samples was so before, or has just seen enough.
LEMMA TakeComes ==
    ASSUME IInv, [Next]_vars, NEW c \in Conns, pc'[c] = "take"
    PROVE  /\ pc[c] = "take" \/ (Poll(c) /\ agVector' = agVector)
           /\ request'[c] = request[c]
<1>0. DOMAIN pc = Requesters /\ DOMAIN request = Conns /\ c \in Requesters /\ c # Fetcher
  BY WorkFacts DEF IInv, ServerTypeOK
<1>1. CASE ConnStep(c)
  <2>1. ASSUME NEW point, Goto(c, point) PROVE pc'[c] = point
    BY <1>0, <2>1 DEF Goto
  <2>2. ~ReadRequest(c)
    <3> SUFFICES ASSUME ReadRequest(c) PROVE FALSE
      OBVIOUS
    <3>1. \E point \in {"respond", "dispatch", "poll"} : pc' = [pc EXCEPT ![c] = point]
      BY WorkFacts DEF ReadRequest, Goto
    <3> QED
      BY <1>0, <3>1
  <2>3. ~Take(c) /\ ~Respond(c)
    BY <2>1 DEF Take, Respond
  <2>4. CASE Dispatch(c) \/ Collect(c) \/ ReadFails(c)
    <3>1. request' = request
      BY <2>4 DEF Dispatch, Collect, ReadFails, connVars
    <3>2. pc' = pc
      <4>1. "take" # "collect" /\ "take" # "respond" /\ "take" # "insert"
        OBVIOUS
      <4> QED
        BY <1>0, <2>1, <2>4, <4>1 DEF Dispatch, Collect, ReadFails
    <3> QED
      BY <3>1, <3>2
  <2>5. CASE Poll(c)
    BY <2>5 DEF Poll, connVars
  <2> QED
    BY <1>1, <2>2, <2>3, <2>4, <2>5 DEF ConnStep
<1>2. ASSUME NEW d \in Conns, d # c, ConnStep(d)
      PROVE  pc'[c] = pc[c] /\ request'[c] = request[c]
  <2>1. pc' = pc \/ \E point : pc' = [pc EXCEPT ![d] = point]
    BY <1>2 DEF ConnStep, ReadRequest, ReadFails, Dispatch, Collect, Poll, Take, Respond, Goto
  <2>2. request' = request \/ \E q : request' = [request EXCEPT ![d] = q]
    BY <1>2 DEF ConnStep, ReadRequest, ReadFails, Dispatch, Collect, Poll, Take, Respond,
       connVars
  <2> QED
    BY <1>0, <1>2, <2>1, <2>2
<1>3. CASE FetcherStep
  <2>1. pc' = pc \/ \E point : pc' = [pc EXCEPT ![Fetcher] = point]
    BY <1>3 DEF FetcherStep, FetcherWakes, Dispatch, Collect, InsertAggregator,
       TrimAggregators, Goto
  <2>2. request' = request
    BY <1>3 DEF FetcherStep, FetcherWakes, Dispatch, Collect, InsertAggregator,
       TrimAggregators, connVars
  <2> QED
    BY <1>0, <2>1, <2>2
<1>4. CASE ~FetcherStep /\ ~\E d \in Conns : ConnStep(d)
  BY <1>4 DEF Next, vars, serverVars, connVars, CreatePeriodicCounterFetcher, Accept,
     RunCounterJob, PoolThread, HandleSignal, StopStep, StopSlept, StopEmpties,
     CleanupAndExit
<1> QED
  BY <1>1, <1>2, <1>3, <1>4

\* The history gets shorter only when it is longer than any request reaches.
LEMMA StillEnoughStep ==
    ASSUME IInv, WithinHistory, [Next]_vars, StillEnough
    PROVE  StillEnough'
<1> SUFFICES ASSUME NEW c \in Conns, pc'[c] = "take"
             PROVE  request'[c].x + 1 <= Len(agVector')
  BY DEF StillEnough
<1> DEFINE x == request[c].x
<1>0. ServerTypeOK /\ Ages
  BY DEF IInv
<1>1. x \in Nat /\ x + 1 <= History /\ History \in Nat
  <2>1. request[c] \in Requests \cup {NoRequest} /\ History \in Nat \ {0}
    BY <1>0, WorkFacts DEF ServerTypeOK
  <2>2. NoRequest.x = 0
    BY DEF NoRequest
  <2>3. x \in 0 .. History /\ x < History
    BY <2>1, <2>2, WorkFacts DEF WithinHistory
  <2> HIDE DEF x
  <2> QED
    BY <2>1, <2>3
<1>2. request'[c].x = x
  BY TakeComes
<1>3. x + 1 <= Len(agVector)
  BY TakeComes DEF StillEnough, Poll, Enough
<1> HIDE DEF x
<1>4. Len(agVector) \in Nat
  BY <1>0, HistoryType
<1>5. CASE agVector' = agVector
  BY <1>2, <1>3, <1>5
<1>6. CASE InsertAggregator
  <2>1. agVector' = Inserted /\ pc[Fetcher] = "insert"
    BY <1>6 DEF InsertAggregator, At
  <2>2. Len(agVector') = Len(agVector) + 1
    BY <1>0, <2>1, InsertAges DEF Ages
  <2> QED
    BY <1>1, <1>2, <1>3, <1>4, <2>2
<1>7. CASE TrimAggregators /\ Oversized
  <2>1. Len(agVector') = Len(agVector) - 1 /\ Len(agVector) = History + 1
    BY <1>0, <1>7, TrimAges DEF TrimAggregators
  <2> QED
    BY <1>1, <1>2, <2>1
<1> QED
  BY <1>5, <1>6, <1>7, HistoryMoves DEF TrimAggregators

\* getAggregators copies elements that exist.
LEMMA InRangeStep ==
    ASSUME IInv, [Next]_vars, StillEnough, IndexInRange
    PROVE  IndexInRange'
<1>0. /\ \A c \in Conns : pair[c] # Wild
      /\ DOMAIN pair = Conns
  BY DEF IInv, ServerTypeOK, IndexInRange
<1>1. CASE pair' = pair
  BY <1>0, <1>1 DEF IndexInRange
<1>2. ASSUME NEW c \in Conns, Take(c) PROVE IndexInRange'
  <2>1. request[c].x + 1 <= Len(agVector)
    BY <1>2 DEF Take, At, StillEnough
  <2>2. PICK p \in [x : 0 .. History, new : 0 .. History, old : 0 .. History] :
           pair' = [pair EXCEPT ![c] = p] /\ p # Wild
    BY <1>2, <2>1, TakePair
  <2> QED
    BY <1>0, <2>2 DEF IndexInRange
<1>3. ASSUME NEW c \in Conns, Respond(c) PROVE IndexInRange'
  <2>1. None # Wild
    <3>1. None.old = 0 /\ Wild.old = 1
      BY DEF None, Wild
    <3> QED
      BY <3>1
  <2>2. pair' = [pair EXCEPT ![c] = None]
    BY <1>3 DEF Respond
  <2> QED
    BY <1>0, <2>1, <2>2 DEF IndexInRange
<1> QED
  BY <1>1, <1>2, <1>3, ConnMoves DEF ReadRequest, ReadFails, connVars

\* If no request reaches as far back as the whole history, getAggregators
\* stays within agVector_ although it looks at the size without the mutex; with
\* the types and the clean-up of main this is ServerInv.
THEOREM ServerCorrect ==
    ASSUME WithinHistory
    PROVE  Spec => []ServerInv
<1>1. Init => StillEnough /\ IndexInRange
  <2> SUFFICES ASSUME Init PROVE StillEnough /\ IndexInRange
    OBVIOUS
  <2>1. StillEnough
    BY WorkFacts DEF Init, StillEnough
  <2>2. None # Wild
    <3>1. None.old = 0 /\ Wild.old = 1
      BY DEF None, Wild
    <3> QED
      BY <3>1
  <2>3. IndexInRange
    BY <2>2 DEF Init, IndexInRange
  <2> QED
    BY <2>1, <2>3
<1>2. IInv /\ StillEnough /\ IndexInRange /\ [Next]_vars => (StillEnough /\ IndexInRange)'
  BY StillEnoughStep, InRangeStep, WithinHistory
<1>3. IInv => ServerTypeOK
  BY DEF IInv
<1>4. ServerTypeOK /\ IndexInRange /\ CleanupAlone => ServerInv
  BY DEF ServerInv
<1> QED
  BY <1>1, <1>2, <1>3, <1>4, Inductive, CleansUpAlone, PTL DEF Spec

-----------------------------------------------------------------------------
(* The guard of AddWork, that the object is new to the pool, never holds the *)
(* server back.                                                              *)

Busy == Queued \cup Running

\* What the server queues next is new to the pool: the job that dispatch has
\* come to, and the fetcher when the server is constructed.
ObjectsFresh ==
    /\ \A r \in Requesters : pc[r] = "dispatch" => <<r, sent[r] + 1>> \notin Busy
    /\ main = "construct" => Fetcher \notin Busy

\* The jobs of a sample are in the pool or have their futures ready only from
\* their dispatch until all of them are collected.
JobsHeld ==
    /\ \A r \in Requesters, i \in 1 .. NumJobs :
         <<r, i>> \in Busy \cup ready =>
            pc[r] = "collect" \/ (pc[r] = "dispatch" /\ i <= sent[r])
    /\ ready \cap Busy = {}
    /\ main = "construct" => Fetcher \notin Busy

\* What the pool has after a step of its own.
LEMMA BusyMoves ==
    ASSUME PoolInv
    PROVE  /\ \A w \in Works : AddWork(w) => Busy' = Busy \cup {w}
           /\ \A t \in Threads : RetrieveWork(t) => Busy' \subseteq Busy
           /\ \A t \in Threads : Finish(t) => Busy' \subseteq Busy \ {thread[t]}
           /\ EmptyThreadPool \/ PushNull \/ JoinThreads => Busy' = Busy
<1>0. PoolTypeOK /\ OneOwner
  BY DEF PoolInv
<1>1. ASSUME NEW w \in Works, AddWork(w) PROVE Busy' = Busy \cup {w}
  <2>1. Running' = Running
    BY <1>0, <1>1, Notify DEF AddWork, Push
  <2> QED
    BY <1>1, <2>1, QueueMoves DEF Busy
<1>2. ASSUME NEW t \in Threads, RetrieveWork(t) PROVE Busy' \subseteq Busy
  <2>1. CASE workQ = <<>>
    <3>1. Running' \subseteq Running
      BY <1>0, <1>2, <2>1, StatesDistinct DEF RetrieveWork, Running, PoolTypeOK
    <3> QED
      BY <1>2, <3>1, QueueMoves DEF Busy
  <2>2. CASE workQ # <<>>
    <3>1. Head(workQ) = workQ[1] /\ 1 \in DOMAIN workQ
      BY <1>0, <1>2, <2>2, Popped DEF RetrieveWork
    <3>2. Running' \subseteq Running \cup ({Head(workQ)} \ {Null})
      BY <1>0, <1>2, <2>2, StatesDistinct, PoolAssumption DEF RetrieveWork, Running, PoolTypeOK
    <3>3. {Head(workQ)} \ {Null} \subseteq Queued
      BY <3>1 DEF Queued
    <3> QED
      BY <1>2, <3>2, <3>3, QueueMoves DEF Busy
  <2> QED
    BY <2>1, <2>2
<1>3. ASSUME NEW t \in Threads, Finish(t) PROVE Busy' \subseteq Busy \ {thread[t]}
  <2>1. /\ thread[t] \in Running /\ Queued' = Queued
        /\ thread' = [thread EXCEPT ![t] = Awake]
    BY <1>3 DEF Finish, Running, Queued
  <2>2. Running' \subseteq Running \ {thread[t]}
    <3> SUFFICES ASSUME NEW u \in Threads, thread'[u] \in Works
                 PROVE  thread'[u] \in Running \ {thread[t]}
      BY DEF Running
    <3>1. u # t /\ thread'[u] = thread[u]
      BY <1>0, <2>1, StatesDistinct DEF PoolTypeOK
    <3> QED
      BY <1>0, <3>1 DEF OneOwner, Running
  <2>3. thread[t] \notin Queued
    BY <1>0, <2>1 DEF OneOwner
  <2> QED
    BY <2>1, <2>2, <2>3 DEF Busy
<1>4. ASSUME EmptyThreadPool \/ PushNull \/ JoinThreads PROVE Busy' = Busy
  <2>1. CASE EmptyThreadPool \/ JoinThreads
    BY <2>1 DEF EmptyThreadPool, JoinThreads, Busy, Queued, Running
  <2>2. CASE PushNull
    <3>1. Running' = Running
      BY <1>0, <2>2, Notify DEF PushNull, Push
    <3> QED
      BY <2>2, <3>1, QueueMoves DEF Busy
  <2> QED
    BY <1>4, <2>1, <2>2
<1> QED
  BY <1>1, <1>2, <1>3, <1>4

\* Steps other than dispatch, the end of a job and the collection of a sample
\* queue no job, leave the futures alone and no requester leaves a dispatch.
Aside ==
    /\ Busy' \cap CounterJobs \subseteq Busy
    /\ ready' = ready /\ sent' = sent
    /\ \A r \in Requesters : pc[r] \in {"dispatch", "collect"} => pc'[r] = pc[r]

\* Work whose execute() returns leaves the pool.
LEMMA Returned ==
    ASSUME PoolInv, NEW w, Returns(w)
    PROVE  Busy' \subseteq Busy \ {w} /\ w \in Busy
  BY BusyMoves DEF Returns, Finish, Busy, Running

\* The steps, as far as jobs are concerned.
LEMMA JobMoves ==
    ASSUME IInv, [Next]_vars
    PROVE  \/ Aside
           \/ \E r \in Requesters : Dispatch(r) \/ Collect(r)
           \/ \E j \in CounterJobs : RunCounterJob(j)
<1>0. /\ PoolInv /\ ServerTypeOK /\ pc \in [Requesters -> {"sleep", "dispatch", "collect", "insert",
           "trim", "read", "poll", "take", "respond"}]
  BY DEF IInv, ServerTypeOK
<1>1. CASE UNCHANGED vars
  BY <1>1 DEF vars, poolVars, serverVars, Aside, Busy, Queued, Running
<1>2. CASE CreatePeriodicCounterFetcher
  <2>1. Busy' = Busy \cup {Fetcher}
    BY <1>0, <1>2, BusyMoves, WorkFacts DEF CreatePeriodicCounterFetcher
  <2> QED
    BY <1>2, <2>1, WorkFacts DEF CreatePeriodicCounterFetcher, Aside
<1>3. CASE FetcherWakes
  <2>1. Busy' \subseteq Busy
    BY <1>0, <1>3, Returned DEF FetcherWakes, poolVars, Busy, Queued, Running
  <2> QED
    BY <1>0, <1>3, <2>1, WorkFacts DEF FetcherWakes, Aside, At, Goto
<1>4. CASE InsertAggregator \/ TrimAggregators
  <2>1. Busy' = Busy
    BY <1>4 DEF InsertAggregator, TrimAggregators, poolVars, Busy, Queued, Running
  <2> QED
    BY <1>0, <1>4, <2>1, WorkFacts DEF InsertAggregator, TrimAggregators, Aside, At, Goto
<1>5. ASSUME NEW c \in Conns, Accept(c) PROVE Aside
  <2>1. Busy' = Busy \cup {c} /\ c \notin CounterJobs
    BY <1>0, <1>5, BusyMoves, WorkFacts, ServerAssumption DEF Accept
  <2> QED
    BY <1>5, <2>1 DEF Accept, serverVars, Aside
<1>6. ASSUME NEW c \in Conns, ReadRequest(c) PROVE Aside
  <2>1. Busy' = Busy
    BY <1>6 DEF ReadRequest, poolVars, Busy, Queued, Running
  <2>2. PICK point : pc' = [pc EXCEPT ![c] = point]
    BY <1>6 DEF ReadRequest, Goto
  <2> QED
    BY <1>0, <1>6, <2>1, <2>2, WorkFacts DEF ReadRequest, Aside, At
<1>7. ASSUME NEW c \in Conns, ReadFails(c) PROVE Aside
  <2>1. Busy' \subseteq Busy
    BY <1>0, <1>7, Returned DEF ReadFails
  <2> QED
    BY <1>7, <2>1 DEF ReadFails, Aside
<1>8. ASSUME NEW c \in Conns, Poll(c) \/ Take(c) PROVE Aside
  <2>1. Busy' = Busy
    BY <1>8 DEF Poll, Take, poolVars, Busy, Queued, Running
  <2> QED
    BY <1>0, <1>8, <2>1, WorkFacts DEF Poll, Take, Aside, At, Goto
<1>9. ASSUME NEW c \in Conns, Respond(c) PROVE Aside
  <2>1. Busy' \subseteq Busy
    BY <1>0, <1>9, Returned DEF Respond, poolVars, Busy, Queued, Running
  <2> QED
    BY <1>0, <1>9, <2>1, WorkFacts DEF Respond, Aside, At, Goto
<1>10. ASSUME NEW t \in Threads, PoolThread(t) PROVE Aside
  <2>1. Busy' \subseteq Busy
    BY <1>0, <1>10, BusyMoves DEF PoolThread
  <2> QED
    BY <1>10, <2>1 DEF PoolThread, serverVars, Aside
<1>11. CASE HandleSignal \/ CleanupAndExit
  BY <1>11 DEF HandleSignal, CleanupAndExit, poolVars, Aside, Busy, Queued, Running
<1>12. CASE StopSlept \/ StopEmpties
  <2>1. Busy' = Busy
    BY <1>0, <1>12, BusyMoves DEF StopSlept, StopEmpties
  <2> QED
    BY <1>12, <2>1 DEF StopSlept, StopEmpties, serverVars, Aside
<1> QED
  BY <1>1, <1>2, <1>3, <1>4, <1>5, <1>6, <1>7, <1>8, <1>9, <1>10, <1>11, <1>12, WorkFacts
     DEF Next, FetcherStep, ConnStep, StopStep

\* The fetcher is new to the pool until the server is constructed.
LEMMA FetcherFresh ==
    ASSUME IInv, [Next]_vars, JobsHeld, main' = "construct"
    PROVE  Fetcher \notin Busy'
<1>0. PoolInv /\ ServerTypeOK /\ JobsLeft
  BY DEF IInv
<1>1. main = "construct" /\ ~CreatePeriodicCounterFetcher
  BY MainMoves DEF CreatePeriodicCounterFetcher, HandleSignal, StopSlept, CleanupAndExit
<1>2. Fetcher \notin Busy
  BY <1>1 DEF JobsHeld
<1>3. \/ Busy' \subseteq Busy
      \/ \E w \in Conns \cup CounterJobs : Busy' = Busy \cup {w}
  <2>1. \/ UNCHANGED poolVars
        \/ \E w \in Conns \cup CounterJobs : AddWork(w)
        \/ \E t \in Threads : RetrieveWork(t) \/ Finish(t)
        \/ EmptyThreadPool \/ PushNull \/ JoinThreads
    <3>1. ASSUME NEW r \in Requesters, Dispatch(r)
          PROVE  \E w \in CounterJobs : AddWork(w)
      BY <1>0, <3>1, NextJob DEF Dispatch
    <3> QED
      BY <1>1, <3>1, WorkFacts DEF Next, vars, poolVars, FetcherStep,
         FetcherWakes, Collect, InsertAggregator, TrimAggregators, Accept,
         ConnStep, ReadRequest, ReadFails, Poll, Take, Respond, RunCounterJob, PoolThread,
         HandleSignal, StopStep, StopSlept, StopEmpties, CleanupAndExit, Returns
  <2>2. UNCHANGED poolVars => Busy' = Busy
    BY DEF poolVars, Busy, Queued, Running
  <2> QED
    BY <1>0, <2>1, <2>2, BusyMoves, WorkFacts
<1> QED
  BY <1>2, <1>3, WorkFacts

\* Jobs are held for their sample only.
LEMMA JobsHeldStep ==
    ASSUME IInv, [Next]_vars, JobsHeld
    PROVE  JobsHeld'
<1>0. /\ PoolInv /\ ServerTypeOK /\ JobsLeft /\ NumJobs \in Nat \ {0}
      /\ pc \in [Requesters -> {"sleep", "dispatch", "collect", "insert",
                   "trim", "read", "poll", "take", "respond"}]
      /\ sent \in [Requesters -> 0 .. NumJobs]
      /\ ready \subseteq CounterJobs
  BY WorkFacts DEF IInv, ServerTypeOK
<1>1. /\ ready \cap Busy = {}
      /\ \A r \in Requesters, i \in 1 .. NumJobs :
           <<r, i>> \in Busy \cup ready =>
              pc[r] = "collect" \/ (pc[r] = "dispatch" /\ i <= sent[r])
  BY DEF JobsHeld
<1>2. \A r \in Requesters, i \in 1 .. NumJobs : <<r, i>> \in CounterJobs
  BY DEF CounterJobs
<1> SUFFICES /\ (ready \cap Busy)' = {}
             /\ \A r \in Requesters, i \in 1 .. NumJobs :
                  <<r, i>> \in Busy' \cup ready' =>
                     pc'[r] = "collect" \/ (pc'[r] = "dispatch" /\ i <= sent'[r])
  BY FetcherFresh DEF JobsHeld
<1>3. CASE Aside
  BY <1>0, <1>1, <1>2, <1>3 DEF Aside
<1>4. ASSUME NEW q \in Requesters, Dispatch(q)
      PROVE  /\ (ready \cap Busy)' = {}
             /\ \A r \in Requesters, i \in 1 .. NumJobs :
                  <<r, i>> \in Busy' \cup ready' =>
                     pc'[r] = "collect" \/ (pc'[r] = "dispatch" /\ i <= sent'[r])
  <2>1. /\ Busy' = Busy \cup {<<q, sent[q] + 1>>} /\ ready' = ready /\ pc[q] = "dispatch"
        /\ sent[q] \in Nat /\ sent[q] + 1 \in 1 .. NumJobs
    BY <1>0, <1>4, BusyMoves, NextJob, WorkFacts DEF Dispatch, At, JobsLeft
  <2>2. <<q, sent[q] + 1>> \notin ready
    BY <1>1, <2>1
  <2>3. \/ sent' = [sent EXCEPT ![q] = @ + 1] /\ pc' = pc
        \/ pc' = [pc EXCEPT ![q] = "collect"] /\ \A r \in Requesters \ {q} : sent'[r] = sent[r]
    BY <1>0, <1>4 DEF Dispatch, Goto
  <2>4. ASSUME NEW r \in Requesters, NEW i \in 1 .. NumJobs, <<r, i>> \in Busy' \cup ready'
        PROVE  pc'[r] = "collect" \/ (pc'[r] = "dispatch" /\ i <= sent'[r])
    <3>1. <<r, i>> \in Busy \cup ready \/ (r = q /\ i = sent[q] + 1)
      BY <2>1, <2>4
    <3>2. CASE r = q
      <4>1. i <= sent[q] + 1
        BY <1>0, <1>1, <2>1, <3>1, <3>2
      <4> QED
        BY <1>0, <2>1, <2>3, <3>2, <4>1
    <3>3. CASE r # q
      BY <1>0, <1>1, <2>3, <3>1, <3>3
    <3> QED
      BY <3>2, <3>3
  <2> QED
    BY <1>1, <2>1, <2>2, <2>4
<1>5. ASSUME NEW q \in Requesters, Collect(q)
      PROVE  /\ (ready \cap Busy)' = {}
             /\ \A r \in Requesters, i \in 1 .. NumJobs :
                  <<r, i>> \in Busy' \cup ready' =>
                     pc'[r] = "collect" \/ (pc'[r] = "dispatch" /\ i <= sent'[r])
  <2>1. /\ Busy' = Busy /\ ready' = ready \ Futures(q) /\ Futures(q) \subseteq ready
        /\ sent' = sent /\ \A r \in Requesters \ {q} : pc'[r] = pc[r]
    BY <1>0, <1>5 DEF Collect, Goto, poolVars, Busy, Queued, Running
  <2>2. \A i \in 1 .. NumJobs : <<q, i>> \in Futures(q)
    BY DEF Futures
  <2> QED
    BY <1>1, <2>1, <2>2
<1>6. ASSUME NEW j \in CounterJobs, RunCounterJob(j)
      PROVE  /\ (ready \cap Busy)' = {}
             /\ \A r \in Requesters, i \in 1 .. NumJobs :
                  <<r, i>> \in Busy' \cup ready' =>
                     pc'[r] = "collect" \/ (pc'[r] = "dispatch" /\ i <= sent'[r])
  <2>1. /\ Busy' \subseteq Busy \ {j} /\ j \in Busy /\ ready' = ready \cup {j}
        /\ sent' = sent /\ pc' = pc
    BY <1>0, <1>6, Returned DEF RunCounterJob
  <2> QED
    BY <1>1, <2>1
<1> QED
  BY <1>3, <1>4, <1>5, <1>6, JobMoves

\* Aggregator::dispatch and the constructor of HTTPServer give the pool only
\* objects that it does not have: in ThreadPool's terms the guard of addWork, which
\* the code does not test, always holds where they call it.
THEOREM QueuesFreshWork == Spec => []ObjectsFresh
<1>1. Init => JobsHeld
  <2> SUFFICES ASSUME Init PROVE JobsHeld
    OBVIOUS
  <2>1. workQ = <<>> /\ (\A t \in Threads : thread[t] = Awake) /\ ready = {}
    BY DEF Init, PoolInit
  <2>2. Busy = {}
    BY <2>1, StatesDistinct DEF Busy, Queued, Running
  <2> QED
    BY <2>1, <2>2 DEF JobsHeld
<1>2. IInv /\ JobsHeld /\ [Next]_vars => JobsHeld'
  BY JobsHeldStep
<1>3. IInv /\ JobsHeld => ObjectsFresh
  <2> SUFFICES ASSUME IInv, JobsHeld, NEW r \in Requesters, pc[r] = "dispatch",
                      <<r, sent[r] + 1>> \in Busy
               PROVE  FALSE
    BY DEF ObjectsFresh, JobsHeld
  <2>1. sent[r] \in Nat /\ sent[r] + 1 \in 1 .. NumJobs
    BY WorkFacts DEF IInv, ServerTypeOK, JobsLeft
  <2> QED
    BY <2>1 DEF JobsHeld
<1> QED
  BY <1>1, <1>2, <1>3, Inductive, PTL DEF Spec
=============================================================================
