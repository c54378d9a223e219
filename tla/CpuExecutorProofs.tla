------------------------- MODULE CpuExecutorProofs -------------------------
(***************************************************************************)
(* For any tasks, lanes, workers and queue capacity: the executor's         *)
(* admission permits and worker slots are accounted for, its panics cannot  *)
(* be reached, no waiter loses its wakeup, no lane idles beside a waiting   *)
(* job, and the round robin moves towards every waiting kind.  One          *)
(* induction over ExecutorInv.                                              *)
(***************************************************************************)
EXTENDS CpuExecutor, FiniteSetTheorems, SequenceTheorems,
        WellFoundedInduction, TLAPS

HolderStates == {"admitted", "queued", "spawned", "running"}
WorkerStates == {"spawned", "running", "release_cv", "release_async", "completing"}

One(b) == IF b THEN 1 ELSE 0

-----------------------------------------------------------------------------
\* Adding an element to a finite set, or taking one out, moves its
\* cardinality by one exactly when membership changes.
LEMMA CardinalityMoves ==
    ASSUME NEW S, IsFiniteSet(S), NEW T, NEW c,
           \A d : d # c => (d \in T <=> d \in S)
    PROVE  Cardinality(T) = Cardinality(S) - (IF c \in S THEN 1 ELSE 0)
                                           + (IF c \in T THEN 1 ELSE 0)
<1>1. /\ c \in S /\ c \notin T => T = S \ {c}
      /\ c \notin S /\ c \in T => T = S \cup {c}
      /\ (c \in S <=> c \in T) => T = S
  OBVIOUS
<1> QED
  BY <1>1, FS_AddElement, FS_RemoveElement, FS_CardinalityType

\* The admission limit is a positive number.
LEMMA LimitType == Limit \in Nat /\ Limit > 0
BY ExecutorAssumption DEF Limit

\* The sets that are counted are finite.
LEMMA CountedFinite ==
    /\ IsFiniteSet(Holders) /\ Cardinality(Holders) \in Nat
    /\ \A l \in Lanes : IsFiniteSet(Queued(l)) /\ Cardinality(Queued(l)) \in Nat
    /\ \A l \in Lanes : IsFiniteSet(OnWorker(l)) /\ Cardinality(OnWorker(l)) \in Nat
<1>1. /\ Holders \subseteq Tasks
      /\ \A l \in Lanes : Queued(l) \subseteq Tasks
      /\ \A l \in Lanes : OnWorker(l) \subseteq Tasks
  BY DEF Holders, Queued, OnWorker, In
<1>2. IsFiniteSet(Tasks)
  BY ExecutorAssumption
<1>3. /\ IsFiniteSet(Holders)
      /\ \A l \in Lanes : IsFiniteSet(Queued(l))
      /\ \A l \in Lanes : IsFiniteSet(OnWorker(l))
  BY <1>1, <1>2, FS_Subset
<1> QED
  BY <1>3, FS_CardinalityType

\* A task in one of the counted sets makes its counter positive.
LEMMA CountedPositive ==
    ASSUME ExecutorInv, NEW t \in Tasks
    PROVE  /\ st[t] \in HolderStates => inflight > 0
           /\ st[t] \in WorkerStates => running[lane[t]] > 0
<1>1. TypeOK /\ PermitsAccounted /\ WorkersBounded
  BY DEF ExecutorInv
<1>2. lane[t] \in Lanes /\ inflight \in Nat
  BY <1>1 DEF TypeOK
<1>3. ASSUME st[t] \in HolderStates
      PROVE  inflight > 0
  <2>1. t \in Holders
    BY <1>3 DEF HolderStates, Holders, In
  <2>2. Cardinality(Holders) # 0
    BY <2>1, CountedFinite, FS_EmptySet
  <2> QED
    BY <1>1, <1>2, <2>2 DEF PermitsAccounted
<1>4. ASSUME st[t] \in WorkerStates
      PROVE  running[lane[t]] > 0
  <2>1. t \in OnWorker(lane[t])
    BY <1>4 DEF WorkerStates, OnWorker, In
  <2>2. Cardinality(OnWorker(lane[t])) # 0
    BY <1>2, <2>1, CountedFinite, FS_EmptySet
  <2> QED
    BY <1>1, <1>2, <2>2, CountedFinite DEF WorkersBounded
<1> QED
  BY <1>3, <1>4

\* Whoever holds a permit and is not queued yet finds room on every lane.
LEMMA RoomForAdmitted ==
    ASSUME ExecutorInv, NEW t \in Tasks, st[t] = "admitted", NEW l \in Lanes
    PROVE  SchedulerLen(l) < Limit
<1>1. PermitsAccounted /\ QueuesHold
  BY DEF ExecutorInv
<1>2. Queued(l) \subseteq Holders \ {t}
  BY DEF Queued, Holders, In
<1>3. Cardinality(Queued(l)) <= Cardinality(Holders \ {t})
  <2>1. IsFiniteSet(Holders \ {t})
    BY CountedFinite, FS_RemoveElement
  <2> QED
    BY <1>2, <2>1, FS_Subset
<1>4. Cardinality(Holders \ {t}) = Cardinality(Holders) - 1
  <2>1. t \in Holders
    BY DEF Holders, In
  <2> QED
    BY <2>1, CountedFinite, FS_RemoveElement
<1> QED
  BY <1>1, <1>3, <1>4, CountedFinite, LimitType DEF PermitsAccounted, QueuesHold

\* The number of holders after one task moved.
LEMMA HoldersMove ==
    ASSUME TypeOK, NEW t \in Tasks, NEW s, Move(t, s)
    PROVE  Cardinality(Holders') =
             Cardinality(Holders) - One(st[t] \in HolderStates) + One(s \in HolderStates)
<1>1. st'[t] = s /\ \A u \in Tasks : u # t => st'[u] = st[u]
  BY DEF Move, TypeOK
<1>2. \A u : u # t => (u \in Holders' <=> u \in Holders)
  BY <1>1 DEF Holders, In
<1>3. (t \in Holders <=> st[t] \in HolderStates) /\ (t \in Holders' <=> s \in HolderStates)
  BY <1>1 DEF Holders, In, HolderStates
<1> QED
  BY <1>2, <1>3, CountedFinite, CardinalityMoves DEF One

\* The number of tasks queued and at work on lane l after one task moved and
\* perhaps changed its lane.
LEMMA LanesMove ==
    ASSUME TypeOK, NEW t \in Tasks, NEW s, Move(t, s), NEW l \in Lanes,
           \A u \in Tasks : u # t => lane'[u] = lane[u]
    PROVE  /\ Cardinality(Queued(l)') = Cardinality(Queued(l))
                - One(st[t] = "queued" /\ lane[t] = l) + One(s = "queued" /\ lane'[t] = l)
           /\ Cardinality(OnWorker(l)') = Cardinality(OnWorker(l))
                - One(st[t] \in WorkerStates /\ lane[t] = l)
                + One(s \in WorkerStates /\ lane'[t] = l)
<1>1. st'[t] = s /\ \A u \in Tasks : u # t => st'[u] = st[u]
  BY DEF Move, TypeOK
<1>2. /\ \A u : u # t => (u \in Queued(l)' <=> u \in Queued(l))
      /\ \A u : u # t => (u \in OnWorker(l)' <=> u \in OnWorker(l))
  BY <1>1 DEF Queued, OnWorker, In
<1>3. /\ t \in Queued(l) <=> st[t] = "queued" /\ lane[t] = l
      /\ t \in Queued(l)' <=> s = "queued" /\ lane'[t] = l
      /\ t \in OnWorker(l) <=> st[t] \in WorkerStates /\ lane[t] = l
      /\ t \in OnWorker(l)' <=> s \in WorkerStates /\ lane'[t] = l
  BY <1>1 DEF Queued, OnWorker, In, WorkerStates
<1>4. Cardinality(Queued(l)') = Cardinality(Queued(l))
        - One(st[t] = "queued" /\ lane[t] = l) + One(s = "queued" /\ lane'[t] = l)
  BY <1>2, <1>3, CountedFinite, CardinalityMoves DEF One
<1>5. Cardinality(OnWorker(l)') = Cardinality(OnWorker(l))
        - One(st[t] \in WorkerStates /\ lane[t] = l)
        + One(s \in WorkerStates /\ lane'[t] = l)
  BY <1>2, <1>3, CountedFinite, CardinalityMoves DEF One
<1> QED
  BY <1>4, <1>5

\* Steps that take no task into or out of a counted set leave the accounts
\* as they are.
LEMMA AccountsUnchanged ==
    ASSUME ExecutorInv, UNCHANGED <<lane, inflight, queues, running, diverged>>,
           \A t \in Tasks :
              /\ st'[t] \in HolderStates <=> st[t] \in HolderStates
              /\ st'[t] = "queued" <=> st[t] = "queued"
              /\ st'[t] \in WorkerStates <=> st[t] \in WorkerStates
    PROVE  PermitsAccounted' /\ QueuesHold' /\ WorkersBounded' /\ ~diverged'
<1>1. Holders' = Holders
  BY DEF Holders, In, HolderStates
<1>2. \A l \in Lanes : Queued(l)' = Queued(l)
  BY DEF Queued, In
<1>3. \A l \in Lanes : OnWorker(l)' = OnWorker(l)
  BY DEF OnWorker, In, WorkerStates
<1>4. PermitsAccounted'
  BY <1>1 DEF ExecutorInv, PermitsAccounted, Limit
<1>5. QueuesHold'
  <2>1. \A l \in Lanes : SchedulerLen(l)' = SchedulerLen(l)
    BY DEF SchedulerLen
  <2>2. QueuesHold /\ queues' = queues
    BY DEF ExecutorInv
  <2> QED
    BY <1>2, <2>1, <2>2 DEF QueuesHold
<1>6. WorkersBounded'
  BY <1>3 DEF ExecutorInv, WorkersBounded
<1> QED
  BY <1>4, <1>5, <1>6 DEF ExecutorInv

-----------------------------------------------------------------------------
(* Types *)

\* The notification of one async waiter moves `from` and at most one other
\* task, from parked to woken.
LEMMA NotifyMoves ==
    ASSUME TypeOK, NEW t \in Tasks, NEW s \in States, NotifyOneAsync(t, s)
    PROVE  \/ /\ Move(t, s) /\ stored' = TRUE /\ ParkedAsync = {}
           \/ /\ stored' = stored
              /\ \E w \in Async :
                   /\ w # t /\ st[w] = "parked"
                   /\ st' \in [Tasks -> States]
                   /\ st'[t] = s /\ st'[w] = "woken"
                   /\ \A u \in Tasks : u # t /\ u # w => st'[u] = st[u]
<1>1. st \in [Tasks -> States] /\ Async \subseteq Tasks /\ "woken" \in States
  BY ExecutorAssumption DEF TypeOK, States
<1>2. CASE ParkedAsync = {} /\ stored' = TRUE /\ Move(t, s)
  BY <1>2
<1>3. ASSUME NEW w \in ParkedAsync \ {t},
             st' = [st EXCEPT ![t] = s, ![w] = "woken"], UNCHANGED stored
      PROVE  /\ w \in Async /\ w # t /\ st[w] = "parked"
             /\ st' \in [Tasks -> States]
             /\ st'[t] = s /\ st'[w] = "woken"
             /\ \A u \in Tasks : u # t /\ u # w => st'[u] = st[u]
  <2>1. w \in Async /\ w # t /\ st[w] = "parked" /\ w \in Tasks
    BY <1>1, <1>3 DEF ParkedAsync
  <2> QED
    BY <1>1, <1>3, <2>1
<1> QED
  BY <1>2, <1>3, Zenon DEF NotifyOneAsync

\* Seen from one task: it stays, is `from`, or is the waiter.
LEMMA NotifyOnly ==
    ASSUME TypeOK, NEW t \in Tasks, NEW s \in States, NotifyOneAsync(t, s)
    PROVE  \A u \in Tasks : \/ st'[u] = st[u]
                            \/ u = t /\ st'[u] = s
                            \/ st[u] = "parked" /\ st'[u] = "woken"
<1>1. CASE Move(t, s)
  BY <1>1 DEF Move, TypeOK
<1>2. CASE \E w \in Async :
             /\ w # t /\ st[w] = "parked"
             /\ st' \in [Tasks -> States]
             /\ st'[t] = s /\ st'[w] = "woken"
             /\ \A u \in Tasks : u # t /\ u # w => st'[u] = st[u]
  BY <1>2
<1> QED
  BY <1>1, <1>2, NotifyMoves, Zenon

\* As NotifyMoves for the condition variable.
LEMMA NotifyBlockingMoves ==
    ASSUME TypeOK, NEW t \in Tasks, NotifyBlocking(t)
    PROVE  \/ Move(t, "release_async") /\ ParkedBlocking = {}
           \/ \E w \in Tasks \ Async :
                /\ w # t /\ st[w] = "parked"
                /\ st' \in [Tasks -> States]
                /\ st'[t] = "release_async" /\ st'[w] = "arrived"
                /\ \A u \in Tasks : u # t /\ u # w => st'[u] = st[u]
<1>1. st \in [Tasks -> States] /\ "arrived" \in States /\ "release_async" \in States
  BY DEF TypeOK, States
<1>2. st[t] = "release_cv"
  BY DEF NotifyBlocking
<1>3. ASSUME NEW w \in ParkedBlocking,
             st' = [st EXCEPT ![t] = "release_async", ![w] = "arrived"]
      PROVE  /\ w \in Tasks \ Async /\ w # t /\ st[w] = "parked"
             /\ st' \in [Tasks -> States]
             /\ st'[t] = "release_async" /\ st'[w] = "arrived"
             /\ \A u \in Tasks : u # t /\ u # w => st'[u] = st[u]
  <2>1. w \in Tasks \ Async /\ st[w] = "parked" /\ w # t
    BY <1>2, <1>3 DEF ParkedBlocking
  <2> QED
    BY <1>1, <1>3, <2>1
<1> QED
  BY <1>3, Zenon DEF NotifyBlocking

\* Moving a task keeps the type of st.
LEMMA MoveType ==
    ASSUME TypeOK, NEW t \in Tasks, NEW s \in States, Move(t, s)
    PROVE  /\ st' \in [Tasks -> States] /\ st'[t] = s
           /\ \A u \in Tasks : u # t => st'[u] = st[u]
BY DEF TypeOK, Move

\* The task at the head of a queue is a queued task of the lane.
LEMMA HeadIsQueued ==
    ASSUME ExecutorInv, NEW l \in Lanes, NEW k \in Kinds, queues[l][k] # <<>>
    PROVE  /\ Head(queues[l][k]) \in Tasks
           /\ st[Head(queues[l][k])] = "queued" /\ lane[Head(queues[l][k])] = l
           /\ Kind[Head(queues[l][k])] = k
<1>1. queues[l][k] \in Seq(Tasks)
  BY DEF ExecutorInv, TypeOK
<1>2. 1 \in DOMAIN queues[l][k] /\ Head(queues[l][k]) = queues[l][k][1]
  BY <1>1
<1>3. queues[l][k][1] \in Queued(l) /\ Kind[queues[l][k][1]] = k
  BY <1>2 DEF ExecutorInv, QueuesHold
<1> QED
  BY <1>2, <1>3 DEF Queued, In

\* Every step keeps the types.
LEMMA TypeStep ==
    ASSUME ExecutorInv, Next
    PROVE  TypeOK'
<1>0. TypeOK
  BY DEF ExecutorInv
<1>1. ASSUME NEW t \in Tasks, Submit(t) PROVE TypeOK'
  BY <1>0, <1>1, MoveType DEF Submit, admissionVars, laneVars, TypeOK, States
<1>2. ASSUME NEW t \in Tasks, CheckSlot(t) PROVE TypeOK'
  <2>1. st' \in [Tasks -> States] /\ inflight' \in Nat
    <3>1. CASE inflight < Limit
      BY <1>0, <1>2, <3>1, MoveType DEF CheckSlot, TypeOK, States
    <3>2. CASE ~(inflight < Limit)
      BY <1>0, <1>2, <3>2, MoveType DEF CheckSlot, TypeOK, States
    <3> QED
      BY <3>1, <3>2
  <2> QED
    BY <1>0, <1>2, <2>1 DEF CheckSlot, laneVars, TypeOK
<1>3. ASSUME NEW t \in Tasks, PollNotified(t) PROVE TypeOK'
  <2>1. st' \in [Tasks -> States]
    <3>1. (IF stored THEN "arrived" ELSE "parked") \in States
      BY DEF States
    <3> QED
      BY <1>0, <1>3, <3>1, MoveType DEF PollNotified
  <2> QED
    BY <1>0, <1>3, <2>1 DEF PollNotified, laneVars, TypeOK
<1>4. ASSUME NEW t \in Tasks, ResumeAsync(t) PROVE TypeOK'
  BY <1>0, <1>4, MoveType DEF ResumeAsync, admissionVars, laneVars, TypeOK, States
<1>5. ASSUME NEW t \in Tasks, NEW l \in Lanes, Enqueue(t, l) PROVE TypeOK'
  <2>1. SchedulerLen(l) < Limit /\ ~(SchedulerLen(l) >= Limit)
    <3>1. SchedulerLen(l) < Limit
      BY <1>5, RoomForAdmitted DEF Enqueue
    <3>2. SchedulerLen(l) \in Nat
      BY CountedFinite DEF ExecutorInv, QueuesHold
    <3> QED
      BY <3>1, <3>2, LimitType
  <2>2. /\ Move(t, "queued") /\ lane' = [lane EXCEPT ![t] = l]
        /\ queues' = [queues EXCEPT ![l][Kind[t]] = Append(@, t)]
        /\ locked' = [locked EXCEPT ![l] = TRUE]
        /\ UNCHANGED <<diverged, admissionVars, cursor, open, running>>
    BY <1>5, <2>1 DEF Enqueue
  <2>3. Kind[t] \in Kinds /\ "queued" \in States
    BY ExecutorAssumption DEF States
  <2>4. st' \in [Tasks -> States]
    BY <1>0, <2>2, <2>3, MoveType
  <2>5. queues' \in [Lanes -> [Kinds -> Seq(Tasks)]]
    <3>1. queues[l] \in [Kinds -> Seq(Tasks)]
      BY <1>0 DEF TypeOK
    <3>2. Append(queues[l][Kind[t]], t) \in Seq(Tasks)
      BY <2>3, <3>1
    <3> QED
      BY <1>0, <2>2, <2>3, <3>2 DEF TypeOK
  <2> QED
    BY <1>0, <2>2, <2>4, <2>5 DEF admissionVars, TypeOK
<1>6. ASSUME NEW t \in Tasks, Start(t) PROVE TypeOK'
  BY <1>0, <1>6, MoveType DEF Start, admissionVars, laneVars, TypeOK, States
<1>7. ASSUME NEW t \in Tasks, ReleasePermit(t) PROVE TypeOK'
  <2>1. inflight > 0 /\ inflight \in Nat
    BY <1>0, <1>7, CountedPositive DEF ReleasePermit, HolderStates, TypeOK
  <2>2. inflight' \in Nat
    BY <1>7, <2>1 DEF ReleasePermit
  <2> QED
    BY <1>0, <1>7, <2>2, MoveType DEF ReleasePermit, laneVars, TypeOK, States
<1>8. ASSUME NEW t \in Tasks, NotifyBlocking(t) PROVE TypeOK'
  <2>1. "release_async" \in States
    BY DEF States
  <2>2. st' \in [Tasks -> States]
    BY <1>0, <1>8, <2>1, MoveType, NotifyBlockingMoves
  <2> QED
    BY <1>0, <1>8, <2>2 DEF NotifyBlocking, admissionVars, laneVars, TypeOK
<1>9. ASSUME NEW t \in Tasks, NotifyAsync(t) PROVE TypeOK'
  <2>1. "completing" \in States
    BY DEF States
  <2>2. st' \in [Tasks -> States] /\ stored' \in BOOLEAN
    BY <1>0, <1>9, <2>1, MoveType, NotifyMoves DEF NotifyAsync, TypeOK
  <2> QED
    BY <1>0, <1>9, <2>2 DEF NotifyAsync, laneVars, TypeOK
<1>10. ASSUME NEW t \in Tasks, Complete(t) PROVE TypeOK'
  BY <1>0, <1>10, MoveType DEF Complete, admissionVars, TypeOK, States
<1>11. ASSUME NEW t \in Tasks, CancelWaiter(t) PROVE TypeOK'
  <2>1. "cancelled" \in States
    BY DEF States
  <2>2. st' \in [Tasks -> States] /\ stored' \in BOOLEAN
    BY <1>0, <1>11, <2>1, MoveType, NotifyMoves DEF CancelWaiter, TypeOK
  <2> QED
    BY <1>0, <1>11, <2>2 DEF CancelWaiter, laneVars, TypeOK
<1>12. ASSUME NEW l \in Lanes, NEW k \in Kinds, NEW c \in 0 .. 7, TakeReady(l, k, c)
       PROVE  TypeOK'
  <2>1. Head(queues[l][k]) \in Tasks /\ "spawned" \in States
    BY <1>12, HeadIsQueued DEF TakeReady, PopsKind, States
  <2>2. st' \in [Tasks -> States]
    BY <1>0, <1>12, <2>1, MoveType DEF TakeReady
  <2>3. queues' \in [Lanes -> [Kinds -> Seq(Tasks)]]
    <3>1. queues[l] \in [Kinds -> Seq(Tasks)] /\ queues[l][k] # <<>>
      BY <1>0, <1>12 DEF TypeOK, TakeReady, PopsKind
    <3>2. Tail(queues[l][k]) \in Seq(Tasks)
      BY <3>1
    <3> QED
      BY <1>0, <1>12, <3>2 DEF TypeOK, TakeReady
  <2> QED
    BY <1>0, <1>12, <2>2, <2>3 DEF TakeReady, admissionVars, TypeOK
<1>13. ASSUME NEW l \in Lanes, Unlock(l) \/ SetOwnerShardsClosed(l) PROVE TypeOK'
  BY <1>0, <1>13 DEF Unlock, SetOwnerShardsClosed, admissionVars, TypeOK
<1>14. CASE Quiescent
  BY <1>0, <1>14 DEF Quiescent, vars, admissionVars, laneVars, TypeOK
<1> QED
  BY <1>1, <1>2, <1>3, <1>4, <1>5, <1>6, <1>7, <1>8, <1>9, <1>10, <1>11, <1>12,
     <1>13, <1>14 DEF Next, Step, Dispatch

-----------------------------------------------------------------------------
(* Permits, queues and workers *)

Accounts == PermitsAccounted /\ QueuesHold /\ WorkersBounded /\ ~diverged

\* A step that only moves a task and its permit keeps what the lanes hold.
LEMMA PermitMoveKeepsLanes ==
    ASSUME ExecutorInv, NEW t \in Tasks, NEW s, Move(t, s),
           UNCHANGED <<lane, queues, running, diverged>>,
           st[t] # "queued", s # "queued",
           s \in WorkerStates <=> st[t] \in WorkerStates
    PROVE  QueuesHold' /\ WorkersBounded' /\ ~diverged'
<1>0. st'[t] = s /\ \A u \in Tasks : u # t => st'[u] = st[u]
  BY DEF ExecutorInv, TypeOK, Move
<1>1. \A l \in Lanes : Queued(l)' = Queued(l)
  BY <1>0 DEF Queued, In
<1>2. \A l \in Lanes : OnWorker(l)' = OnWorker(l)
  BY <1>0 DEF OnWorker, In, WorkerStates
<1>3. \A l \in Lanes : SchedulerLen(l)' = SchedulerLen(l)
  BY DEF SchedulerLen
<1>4. QueuesHold /\ queues' = queues
  BY DEF ExecutorInv
<1>5. QueuesHold'
  BY <1>1, <1>3, <1>4 DEF QueuesHold
<1>6. WorkersBounded'
  BY <1>2 DEF ExecutorInv, WorkersBounded
<1> QED
  BY <1>5, <1>6 DEF ExecutorInv

\* The length of a lane's scheduler follows that of the one queue that changed.
LEMMA LaneLength ==
    ASSUME NEW m \in Lanes, NEW k0 \in Kinds, NEW d \in Int,
           \A k \in Kinds : Len(queues[m][k]) \in Nat,
           Len(queues'[m][k0]) = Len(queues[m][k0]) + d,
           \A k \in Kinds : k # k0 => queues'[m][k] = queues[m][k]
    PROVE  SchedulerLen(m)' = SchedulerLen(m) + d
<1> DEFINE n(k) == Len(queues[m][k])
           n1(k) == Len(queues'[m][k])
<1>1. \A k \in Kinds : n(k) \in Nat /\ n1(k) = IF k = k0 THEN n(k) + d ELSE n(k)
  OBVIOUS
<1>2. /\ SchedulerLen(m) = n("Dedup") + n("ResponseDecode") + n("Analysis") + n("Compress")
      /\ SchedulerLen(m)' = n1("Dedup") + n1("ResponseDecode") + n1("Analysis") + n1("Compress")
  BY DEF SchedulerLen
<1> HIDE DEF n, n1
<1>3. k0 \in {"Dedup", "ResponseDecode", "Analysis", "Compress"}
  BY DEF Kinds
<1> QED
  BY <1>1, <1>2, <1>3 DEF Kinds

\* enqueue puts the task on one queue of one lane.
LEMMA EnqueueAccounts ==
    ASSUME ExecutorInv, NEW t \in Tasks, NEW l \in Lanes, Enqueue(t, l)
    PROVE  Accounts'
<1>0. TypeOK /\ PermitsAccounted /\ QueuesHold /\ WorkersBounded /\ ~diverged
  BY DEF ExecutorInv
<1>1. SchedulerLen(l) < Limit /\ SchedulerLen(l) \in Nat /\ st[t] = "admitted"
  BY <1>0, RoomForAdmitted, CountedFinite DEF Enqueue, QueuesHold
<1>2. /\ Move(t, "queued") /\ lane' = [lane EXCEPT ![t] = l]
      /\ queues' = [queues EXCEPT ![l][Kind[t]] = Append(@, t)]
      /\ UNCHANGED <<diverged, inflight, running>>
  BY <1>1, LimitType DEF Enqueue, admissionVars
<1>3. /\ st'[t] = "queued" /\ lane'[t] = l
      /\ \A u \in Tasks : u # t => st'[u] = st[u] /\ lane'[u] = lane[u]
  BY <1>0, <1>2 DEF Move, TypeOK
<1>4. PermitsAccounted'
  <2>1. Cardinality(Holders') = Cardinality(Holders)
    <3>1. Cardinality(Holders') =
            Cardinality(Holders) - One(st[t] \in HolderStates) + One("queued" \in HolderStates)
      BY <1>0, <1>2, HoldersMove
    <3> QED
      BY <1>1, <3>1, CountedFinite DEF One, HolderStates
  <2> QED
    BY <1>0, <1>2, <2>1 DEF PermitsAccounted, Limit
<1>5. \A m \in Lanes :
        /\ Cardinality(Queued(m)') = Cardinality(Queued(m)) + One(m = l)
        /\ Cardinality(OnWorker(m)') = Cardinality(OnWorker(m))
  <2> SUFFICES ASSUME NEW m \in Lanes
               PROVE  /\ Cardinality(Queued(m)') = Cardinality(Queued(m)) + One(m = l)
                      /\ Cardinality(OnWorker(m)') = Cardinality(OnWorker(m))
    OBVIOUS
  <2>1. /\ Cardinality(Queued(m)') = Cardinality(Queued(m))
             - One(st[t] = "queued" /\ lane[t] = m) + One("queued" = "queued" /\ lane'[t] = m)
        /\ Cardinality(OnWorker(m)') = Cardinality(OnWorker(m))
             - One(st[t] \in WorkerStates /\ lane[t] = m)
             + One("queued" \in WorkerStates /\ lane'[t] = m)
    BY <1>0, <1>2, <1>3, LanesMove
  <2> QED
    BY <1>1, <1>3, <2>1, CountedFinite DEF One, WorkerStates
<1>6. WorkersBounded'
  BY <1>0, <1>2, <1>5 DEF WorkersBounded
<1>7. /\ Kind[t] \in Kinds /\ queues[l][Kind[t]] \in Seq(Tasks)
      /\ queues'[l][Kind[t]] = Append(queues[l][Kind[t]], t)
      /\ \A m \in Lanes, k \in Kinds : m # l \/ k # Kind[t] => queues'[m][k] = queues[m][k]
      /\ \A m \in Lanes, k \in Kinds : queues[m][k] \in Seq(Tasks)
  BY <1>0, <1>2, ExecutorAssumption DEF TypeOK
<1>8. \A m \in Lanes : SchedulerLen(m)' = SchedulerLen(m) + One(m = l)
  <2>1. Len(queues'[l][Kind[t]]) = Len(queues[l][Kind[t]]) + 1
    BY <1>7
  <2>2. \A m \in Lanes : \A k \in Kinds : Len(queues[m][k]) \in Nat
    BY <1>7
  <2>3. SchedulerLen(l)' = SchedulerLen(l) + 1
    <3>1. 1 \in Int /\ \A k \in Kinds : k # Kind[t] => queues'[l][k] = queues[l][k]
      BY <1>7
    <3> QED
      BY <1>7, <2>1, <2>2, <3>1, LaneLength, Zenon
  <2>4. ASSUME NEW m \in Lanes, m # l
        PROVE  SchedulerLen(m)' = SchedulerLen(m) + 0
    <3>1. Len(queues'[m][Kind[t]]) = Len(queues[m][Kind[t]]) + 0
      BY <1>7, <2>2, <2>4
    <3> QED
      BY <1>7, <2>2, <2>4, <3>1, LaneLength
  <2>5. \A m \in Lanes : SchedulerLen(m) \in Int
    BY <2>2 DEF SchedulerLen, Kinds
  <2> QED
    BY <2>3, <2>4, <2>5 DEF One
<1>9. \A m \in Lanes : Queued(m) \subseteq Queued(m)'
  BY <1>1, <1>3 DEF Queued, In
<1>10. t \in Queued(l)' /\ t \notin Queued(l)
  BY <1>1, <1>3 DEF Queued, In
<1>11. ASSUME NEW m \in Lanes, NEW k \in Kinds
       PROVE  /\ \A i \in DOMAIN queues'[m][k] :
                   queues'[m][k][i] \in Queued(m)' /\ Kind[queues'[m][k][i]] = k
              /\ \A i, j \in DOMAIN queues'[m][k] :
                   queues'[m][k][i] = queues'[m][k][j] => i = j
  <2>1. /\ \A i \in DOMAIN queues[m][k] : queues[m][k][i] \in Queued(m) /\ Kind[queues[m][k][i]] = k
        /\ \A i, j \in DOMAIN queues[m][k] : queues[m][k][i] = queues[m][k][j] => i = j
    BY <1>0 DEF QueuesHold
  <2>2. CASE m # l \/ k # Kind[t]
    BY <1>7, <1>9, <2>1, <2>2
  <2>3. CASE m = l /\ k = Kind[t]
    <3> DEFINE q == queues[l][k]
               r == queues'[l][k]
    <3>1. q \in Seq(Tasks) /\ r = Append(q, t)
      BY <1>7, <2>3
    <3>2. \A i \in DOMAIN q : q[i] \in Queued(l) /\ Kind[q[i]] = k
      BY <2>1, <2>3
    <3>3. \A i, j \in DOMAIN q : q[i] = q[j] => i = j
      BY <2>1, <2>3
    <3> HIDE DEF q, r
    <3>4. \A i \in DOMAIN q : q[i] # t
      BY <1>10, <3>2
    <3>5. /\ DOMAIN q = 1 .. Len(q) /\ Len(q) \in Nat /\ DOMAIN r = 1 .. Len(q) + 1
          /\ r[Len(q) + 1] = t /\ \A i \in 1 .. Len(q) : r[i] = q[i]
      BY <3>1
    <3>6. \A i \in DOMAIN r : i \in DOMAIN q \/ i = Len(q) + 1
      BY <3>5
    <3>7. \A i \in DOMAIN r : r[i] \in Queued(l)' /\ Kind[r[i]] = k
      BY <1>9, <1>10, <2>3, <3>2, <3>5, <3>6
    <3>8. \A i, j \in DOMAIN r : r[i] = r[j] => i = j
      BY <3>3, <3>4, <3>5, <3>6
    <3> QED
      BY <2>3, <3>7, <3>8 DEF r
  <2> QED
    BY <2>2, <2>3
<1>12. QueuesHold'
  BY <1>0, <1>5, <1>8, <1>11 DEF QueuesHold
<1> QED
  BY <1>0, <1>2, <1>4, <1>6, <1>12 DEF Accounts

\* take_ready moves the head of a queue to a free worker.
LEMMA TakeReadyAccounts ==
    ASSUME ExecutorInv, NEW l \in Lanes, NEW k \in Kinds, NEW c \in 0 .. 7, TakeReady(l, k, c)
    PROVE  Accounts'
<1> DEFINE t == Head(queues[l][k])
<1>0. TypeOK /\ PermitsAccounted /\ QueuesHold /\ WorkersBounded /\ ~diverged
  BY DEF ExecutorInv
<1>1. /\ queues[l][k] # <<>> /\ running[l] < LaneWorkers[l]
      /\ Move(t, "spawned")
      /\ queues' = [queues EXCEPT ![l][k] = Tail(@)]
      /\ running' = [running EXCEPT ![l] = @ + 1]
      /\ UNCHANGED <<lane, inflight, diverged>>
  BY DEF TakeReady, PopsKind, admissionVars
<1>2. t \in Tasks /\ st[t] = "queued" /\ lane[t] = l /\ Kind[t] = k
  BY <1>1, HeadIsQueued
<1>q. queues[l][k] \in Seq(Tasks) /\ t = queues[l][k][1]
  BY <1>0, <1>1 DEF TypeOK
<1> HIDE DEF t
<1>3. st'[t] = "spawned" /\ \A u \in Tasks : u # t => st'[u] = st[u]
  BY <1>0, <1>1, <1>2 DEF Move, TypeOK
<1>4. PermitsAccounted'
  <2>1. Cardinality(Holders') =
          Cardinality(Holders) - One(st[t] \in HolderStates) + One("spawned" \in HolderStates)
    BY <1>0, <1>1, <1>2, HoldersMove
  <2>2. Cardinality(Holders') = Cardinality(Holders)
    BY <1>2, <2>1, CountedFinite DEF One, HolderStates
  <2> QED
    BY <1>0, <1>1, <2>2 DEF PermitsAccounted, Limit
<1>5. \A m \in Lanes :
        /\ Cardinality(Queued(m)') = Cardinality(Queued(m)) - One(m = l)
        /\ Cardinality(OnWorker(m)') = Cardinality(OnWorker(m)) + One(m = l)
  <2> SUFFICES ASSUME NEW m \in Lanes
               PROVE  /\ Cardinality(Queued(m)') = Cardinality(Queued(m)) - One(m = l)
                      /\ Cardinality(OnWorker(m)') = Cardinality(OnWorker(m)) + One(m = l)
    OBVIOUS
  <2>1. /\ Cardinality(Queued(m)') = Cardinality(Queued(m))
             - One(st[t] = "queued" /\ lane[t] = m) + One("spawned" = "queued" /\ lane'[t] = m)
        /\ Cardinality(OnWorker(m)') = Cardinality(OnWorker(m))
             - One(st[t] \in WorkerStates /\ lane[t] = m)
             + One("spawned" \in WorkerStates /\ lane'[t] = m)
    BY <1>0, <1>1, <1>2, LanesMove
  <2> QED
    BY <1>1, <1>2, <2>1, CountedFinite DEF One, WorkerStates
<1>6. WorkersBounded'
  <2>1. \A m \in Lanes : running[m] \in Int /\ LaneWorkers[m] \in Nat
    BY <1>0, ExecutorAssumption DEF TypeOK
  <2>2. \A m \in Lanes : running'[m] = running[m] + One(m = l)
    BY <1>0, <1>1, <2>1 DEF TypeOK, One
  <2> QED
    BY <1>0, <1>1, <1>5, <2>1, <2>2 DEF WorkersBounded, One
<1>7. /\ queues'[l][k] = Tail(queues[l][k])
      /\ \A m \in Lanes, k2 \in Kinds : m # l \/ k2 # k => queues'[m][k2] = queues[m][k2]
      /\ \A m \in Lanes, k2 \in Kinds : queues[m][k2] \in Seq(Tasks)
  BY <1>0, <1>1 DEF TypeOK
<1>8. \A m \in Lanes : SchedulerLen(m)' = SchedulerLen(m) - One(m = l)
  <2>1. Len(queues'[l][k]) = Len(queues[l][k]) + (-1)
    <3> DEFINE q == queues[l][k]
    <3>1. q \in Seq(Tasks) /\ q # <<>> /\ queues'[l][k] = Tail(q)
      BY <1>1, <1>7, <1>q
    <3> HIDE DEF q
    <3>2. Len(Tail(q)) = Len(q) + (-1)
      BY <3>1
    <3> QED
      BY <3>1, <3>2 DEF q
  <2>2. \A m \in Lanes : \A k2 \in Kinds : Len(queues[m][k2]) \in Nat
    BY <1>7
  <2>3. SchedulerLen(l)' = SchedulerLen(l) + (-1)
    <3>1. -1 \in Int /\ \A k2 \in Kinds : k2 # k => queues'[l][k2] = queues[l][k2]
      BY <1>7
    <3> QED
      BY <2>1, <2>2, <3>1, LaneLength, Zenon
  <2>4. ASSUME NEW m \in Lanes, m # l
        PROVE  SchedulerLen(m)' = SchedulerLen(m) + 0
    <3>1. Len(queues'[m][k]) = Len(queues[m][k]) + 0
      BY <1>7, <2>2, <2>4
    <3> QED
      BY <1>7, <2>2, <2>4, <3>1, LaneLength
  <2>5. \A m \in Lanes : SchedulerLen(m) \in Int
    BY <2>2 DEF SchedulerLen, Kinds
  <2> QED
    BY <2>3, <2>4, <2>5 DEF One
<1>9. \A m \in Lanes : \A u \in Queued(m) : u # t => u \in Queued(m)'
  BY <1>1, <1>3 DEF Queued, In
<1>10. ASSUME NEW m \in Lanes, NEW k2 \in Kinds
       PROVE  /\ \A i \in DOMAIN queues'[m][k2] :
                   queues'[m][k2][i] \in Queued(m)' /\ Kind[queues'[m][k2][i]] = k2
              /\ \A i, j \in DOMAIN queues'[m][k2] :
                   queues'[m][k2][i] = queues'[m][k2][j] => i = j
  <2>1. /\ \A i \in DOMAIN queues[m][k2] :
             queues[m][k2][i] \in Queued(m) /\ Kind[queues[m][k2][i]] = k2
        /\ \A i, j \in DOMAIN queues[m][k2] : queues[m][k2][i] = queues[m][k2][j] => i = j
    BY <1>0 DEF QueuesHold
  <2>2. CASE m # l \/ k2 # k
    <3>1. \A i \in DOMAIN queues[m][k2] : queues[m][k2][i] # t
      <4>1. t \in Queued(m) => m = l
        BY <1>2 DEF Queued
      <4> QED
        BY <1>2, <2>1, <2>2, <4>1
    <3> QED
      BY <1>7, <1>9, <2>1, <2>2, <3>1
  <2>3. CASE m = l /\ k2 = k
    <3> DEFINE q == queues[l][k]
               r == queues'[l][k]
    <3>1. q \in Seq(Tasks) /\ q # <<>> /\ r = Tail(q) /\ t = q[1]
      BY <1>1, <1>7, <1>q
    <3>2. \A i \in DOMAIN q : q[i] \in Queued(l) /\ Kind[q[i]] = k
      BY <2>1, <2>3
    <3>3. \A i, j \in DOMAIN q : q[i] = q[j] => i = j
      BY <2>1, <2>3
    <3> HIDE DEF q, r
    <3>4. /\ DOMAIN q = 1 .. Len(q) /\ Len(q) \in Nat /\ Len(q) > 0
          /\ DOMAIN r = 1 .. Len(q) - 1 /\ \A i \in 1 .. Len(q) - 1 : r[i] = q[i + 1]
      BY <3>1
    <3>5. \A i \in DOMAIN r : i + 1 \in DOMAIN q /\ i + 1 # 1 /\ 1 \in DOMAIN q
      BY <3>4
    <3>6. \A i \in DOMAIN r : q[i + 1] # t
      BY <3>1, <3>3, <3>5
    <3>7. \A i \in DOMAIN r : r[i] \in Queued(l)' /\ Kind[r[i]] = k
      BY <1>9, <3>2, <3>4, <3>5, <3>6
    <3>8. \A i, j \in DOMAIN r : r[i] = r[j] => i = j
      <4> SUFFICES ASSUME NEW i \in DOMAIN r, NEW j \in DOMAIN r, r[i] = r[j] PROVE i = j
        OBVIOUS
      <4>1. q[i + 1] = q[j + 1]
        BY <3>4
      <4>2. i + 1 = j + 1
        BY <3>3, <3>5, <4>1
      <4> QED
        BY <3>4, <4>2
    <3> QED
      BY <2>3, <3>7, <3>8 DEF r
  <2> QED
    BY <2>2, <2>3
<1>11. QueuesHold'
  BY <1>0, <1>5, <1>8, <1>10 DEF QueuesHold
<1> QED
  BY <1>0, <1>1, <1>4, <1>6, <1>11 DEF Accounts

\* Every step keeps the accounts.
LEMMA AccountsStep ==
    ASSUME ExecutorInv, Next
    PROVE  Accounts'
<1>0. TypeOK /\ PermitsAccounted /\ WorkersBounded /\ inflight \in Nat
  BY DEF ExecutorInv, TypeOK
<1>1. ASSUME NEW t \in Tasks,
             Submit(t) \/ PollNotified(t) \/ ResumeAsync(t) \/ Start(t)
      PROVE  Accounts'
  <2>1. UNCHANGED <<lane, inflight, queues, running, diverged>>
    BY <1>1 DEF Submit, PollNotified, ResumeAsync, Start, admissionVars, laneVars
  <2>2. PICK s : Move(t, s) /\ \/ st[t] \in {"idle", "saw_full", "woken"} /\ s \in {"arrived", "parked"}
                               \/ st[t] = "spawned" /\ s = "running"
    BY <1>1 DEF Submit, PollNotified, ResumeAsync, Start
  <2>3. st'[t] = s /\ \A u \in Tasks : u # t => st'[u] = st[u]
    BY <1>0, <2>2 DEF Move, TypeOK
  <2> QED
    BY <2>1, <2>2, <2>3, AccountsUnchanged DEF Accounts, HolderStates, WorkerStates
<1>2. ASSUME NEW t \in Tasks, CheckSlot(t) PROVE Accounts'
  <2>1. st[t] = "arrived" /\ UNCHANGED <<lane, queues, running, diverged>>
    BY <1>2 DEF CheckSlot, laneVars
  <2>2. CASE inflight < Limit
    <3>1. inflight' = inflight + 1 /\ Move(t, "admitted")
      BY <1>2, <2>2 DEF CheckSlot
    <3>2. Cardinality(Holders') =
            Cardinality(Holders) - One(st[t] \in HolderStates) + One("admitted" \in HolderStates)
      BY <1>0, <3>1, HoldersMove
    <3>3. Cardinality(Holders') = Cardinality(Holders) + 1
      BY <2>1, <3>2, CountedFinite DEF One, HolderStates
    <3>4. PermitsAccounted'
      BY <1>0, <2>2, <3>1, <3>3, LimitType DEF PermitsAccounted, Limit
    <3>5. QueuesHold' /\ WorkersBounded' /\ ~diverged'
      BY <2>1, <3>1, PermitMoveKeepsLanes DEF WorkerStates
    <3> QED
      BY <3>4, <3>5 DEF Accounts
  <2>3. CASE ~(inflight < Limit)
    <3>1. PICK s \in {"saw_full", "parked"} : Move(t, s)
      BY <1>2, <2>3 DEF CheckSlot
    <3>2. st'[t] = s /\ \A u \in Tasks : u # t => st'[u] = st[u]
      BY <1>0, <3>1 DEF Move, TypeOK
    <3>3. inflight' = inflight
      BY <1>2, <2>3 DEF CheckSlot
    <3> QED
      BY <2>1, <3>2, <3>3, AccountsUnchanged DEF Accounts, HolderStates, WorkerStates
  <2> QED
    BY <2>2, <2>3
<1>3. ASSUME NEW t \in Tasks, NEW l \in Lanes, Enqueue(t, l) PROVE Accounts'
  BY <1>3, EnqueueAccounts
<1>4. ASSUME NEW t \in Tasks, ReleasePermit(t) PROVE Accounts'
  <2>1. /\ st[t] = "running" /\ inflight' = inflight - 1 /\ Move(t, "release_cv")
        /\ UNCHANGED <<lane, queues, running, diverged>>
    BY <1>4 DEF ReleasePermit, laneVars
  <2>2. Cardinality(Holders') =
          Cardinality(Holders) - One(st[t] \in HolderStates) + One("release_cv" \in HolderStates)
    BY <1>0, <2>1, HoldersMove
  <2>3. Cardinality(Holders') = Cardinality(Holders) - 1
    BY <2>1, <2>2, CountedFinite DEF One, HolderStates
  <2>4. PermitsAccounted'
    BY <1>0, <2>1, <2>3, LimitType DEF PermitsAccounted, Limit
  <2>5. QueuesHold' /\ WorkersBounded' /\ ~diverged'
    BY <2>1, PermitMoveKeepsLanes DEF WorkerStates
  <2> QED
    BY <2>4, <2>5 DEF Accounts
<1>5. ASSUME NEW t \in Tasks, NotifyBlocking(t) PROVE Accounts'
  <2>1. st[t] = "release_cv" /\ UNCHANGED <<lane, inflight, queues, running, diverged>>
    BY <1>5 DEF NotifyBlocking, admissionVars, laneVars
  <2>2. \A u \in Tasks : \/ st'[u] = st[u]
                         \/ u = t /\ st'[u] = "release_async"
                         \/ st[u] = "parked" /\ st'[u] = "arrived"
    BY <1>0, <1>5, NotifyBlockingMoves, MoveType DEF States
  <2> QED
    BY <2>1, <2>2, AccountsUnchanged DEF Accounts, HolderStates, WorkerStates
<1>6. ASSUME NEW t \in Tasks, NotifyAsync(t) PROVE Accounts'
  <2>1. st[t] = "release_async" /\ UNCHANGED <<lane, inflight, queues, running, diverged>>
    BY <1>6 DEF NotifyAsync, laneVars
  <2>2. \A u \in Tasks : \/ st'[u] = st[u]
                         \/ u = t /\ st'[u] = "completing"
                         \/ st[u] = "parked" /\ st'[u] = "woken"
    <3>0. "completing" \in States /\ NotifyOneAsync(t, "completing")
      BY <1>6 DEF States, NotifyAsync
    <3> QED
      BY <1>0, <3>0, NotifyOnly
  <2> QED
    BY <2>1, <2>2, AccountsUnchanged DEF Accounts, HolderStates, WorkerStates
<1>7. ASSUME NEW t \in Tasks, CancelWaiter(t) PROVE Accounts'
  <2>1. st[t] \in {"parked", "woken"} /\ UNCHANGED <<lane, inflight, queues, running, diverged>>
    BY <1>7 DEF CancelWaiter, laneVars
  <2>2. \A u \in Tasks : \/ st'[u] = st[u]
                         \/ u = t /\ st'[u] = "cancelled"
                         \/ st[u] = "parked" /\ st'[u] = "woken"
    <3>1. CASE Move(t, "cancelled")
      BY <1>0, <3>1, MoveType DEF States
    <3>2. CASE NotifyOneAsync(t, "cancelled")
      <4>0. "cancelled" \in States
        BY DEF States
      <4> QED
        BY <1>0, <3>2, <4>0, NotifyOnly
    <3> QED
      BY <1>7, <3>1, <3>2 DEF CancelWaiter
  <2> QED
    BY <2>1, <2>2, AccountsUnchanged DEF Accounts, HolderStates, WorkerStates
<1>8. ASSUME NEW t \in Tasks, Complete(t) PROVE Accounts'
  <2>1. /\ st[t] = "completing" /\ Move(t, "done")
        /\ running' = [running EXCEPT ![lane[t]] = @ - 1]
        /\ UNCHANGED <<lane, inflight, queues, diverged>>
    BY <1>8 DEF Complete, admissionVars
  <2>2. st'[t] = "done" /\ \A u \in Tasks : u # t => st'[u] = st[u]
    BY <1>0, <2>1 DEF Move, TypeOK
  <2>3. Holders' = Holders /\ \A l \in Lanes : Queued(l)' = Queued(l)
    BY <2>1, <2>2 DEF Holders, Queued, In
  <2>4. PermitsAccounted'
    BY <1>0, <2>1, <2>3 DEF PermitsAccounted, Limit
  <2>5. QueuesHold'
    <3>1. \A l \in Lanes : SchedulerLen(l)' = SchedulerLen(l)
      BY <2>1 DEF SchedulerLen
    <3>2. QueuesHold /\ queues' = queues
      BY <2>1 DEF ExecutorInv
    <3> QED
      BY <2>3, <3>1, <3>2 DEF QueuesHold
  <2>6. WorkersBounded'
    <3> SUFFICES ASSUME NEW l \in Lanes
                 PROVE  /\ running'[l] = Cardinality(OnWorker(l)')
                        /\ running'[l] <= LaneWorkers[l]
      BY DEF WorkersBounded
    <3>1. Cardinality(OnWorker(l)') = Cardinality(OnWorker(l))
            - One(st[t] \in WorkerStates /\ lane[t] = l)
            + One("done" \in WorkerStates /\ lane'[t] = l)
      BY <1>0, <2>1, LanesMove
    <3>2. Cardinality(OnWorker(l)') = Cardinality(OnWorker(l)) - One(lane[t] = l)
      BY <2>1, <3>1, CountedFinite DEF One, WorkerStates
    <3>3. running[l] \in Int /\ LaneWorkers[l] \in Nat /\ lane[t] \in Lanes
      BY <1>0, ExecutorAssumption DEF TypeOK
    <3>4. running'[l] = running[l] - One(lane[t] = l)
      BY <1>0, <2>1, <3>3 DEF TypeOK, One
    <3> QED
      BY <1>0, <3>2, <3>3, <3>4 DEF WorkersBounded, One
  <2> QED
    BY <2>1, <2>4, <2>5, <2>6 DEF Accounts, ExecutorInv
<1>9. ASSUME NEW l \in Lanes, NEW k \in Kinds, NEW c \in 0 .. 7, TakeReady(l, k, c)
      PROVE  Accounts'
  BY <1>9, TakeReadyAccounts
<1>10. ASSUME NEW l \in Lanes, Unlock(l) \/ SetOwnerShardsClosed(l) PROVE Accounts'
  BY <1>10, AccountsUnchanged DEF Unlock, SetOwnerShardsClosed, admissionVars, Accounts
<1>11. CASE Quiescent
  BY <1>11, AccountsUnchanged DEF Quiescent, vars, admissionVars, laneVars, Accounts
<1> QED
  BY <1>1, <1>2, <1>3, <1>4, <1>5, <1>6, <1>7, <1>8, <1>9, <1>10, <1>11
     DEF Next, Step, Dispatch

-----------------------------------------------------------------------------
(* Wakeups *)

\* NoLostWakeup and NoMissedNotify, task by task.
BlockingHope ==
    \/ inflight > 0
    \/ \E u \in Tasks : st[u] = "release_cv"
    \/ \E u \in Tasks \ Async : st[u] = "arrived"

AsyncHopeful ==
    \/ inflight > 0
    \/ \E u \in Tasks : st[u] \in {"release_cv", "release_async"}
    \/ \E u \in Async : st[u] \in {"arrived", "woken"}

Wakeups ==
    /\ \A p \in Tasks \ Async : st[p] = "parked" => BlockingHope
    /\ \A p \in Async : st[p] = "parked" => AsyncHopeful
    /\ \A p \in Tasks : st[p] = "saw_full" => stored \/ AsyncHopeful

\* The two forms say the same, before and after a step.
LEMMA WakeupForms ==
    /\ Wakeups <=> NoLostWakeup /\ NoMissedNotify
    /\ Wakeups' <=> NoLostWakeup' /\ NoMissedNotify'
<1>0. Async \subseteq Tasks
  BY ExecutorAssumption
<1>1. Wakeups <=> NoLostWakeup /\ NoMissedNotify
  BY <1>0 DEF Wakeups, BlockingHope, AsyncHopeful, NoLostWakeup, NoMissedNotify, AsyncHope,
              Releasing, ParkedAsync, ParkedBlocking, In
<1>2. Wakeups' <=> NoLostWakeup' /\ NoMissedNotify'
  BY <1>0 DEF Wakeups, BlockingHope, AsyncHopeful, NoLostWakeup, NoMissedNotify, AsyncHope,
              Releasing, ParkedAsync, ParkedBlocking, In
<1> QED
  BY <1>1, <1>2

\* Every step keeps AsyncStates and leaves every waiter somebody to wake it.
LEMMA WakeupStep ==
    ASSUME ExecutorInv, Next
    PROVE  AsyncStates' /\ Wakeups'
<1>0. TypeOK /\ AsyncStates /\ Wakeups /\ inflight \in Nat /\ Async \subseteq Tasks
  BY WakeupForms, ExecutorAssumption DEF ExecutorInv, TypeOK
<1>1. ASSUME inflight' > 0
      PROVE  Wakeups'
  BY <1>1 DEF Wakeups, BlockingHope, AsyncHopeful
<1>2. ASSUME NEW t \in Tasks, Submit(t) PROVE AsyncStates' /\ Wakeups'
  <2>1. /\ st[t] = "idle" /\ st'[t] = "arrived" /\ \A u \in Tasks : u # t => st'[u] = st[u]
        /\ UNCHANGED <<inflight, stored>>
    BY <1>0, <1>2, MoveType DEF Submit, States, admissionVars
  <2> QED
    BY <1>0, <2>1 DEF AsyncStates, Wakeups, BlockingHope, AsyncHopeful
<1>3. ASSUME NEW t \in Tasks, CheckSlot(t) PROVE AsyncStates' /\ Wakeups'
  <2>1. inflight' > 0
    BY <1>0, <1>3, LimitType DEF CheckSlot
  <2>2. \A u \in Tasks : u # t => st'[u] = st[u]
    BY <1>0, <1>3 DEF CheckSlot, Move, TypeOK
  <2>3. st'[t] \in {"saw_full", "woken", "cancelled"} => t \in Async
    BY <1>0, <1>3 DEF CheckSlot, Move, TypeOK
  <2> QED
    BY <1>0, <1>1, <2>1, <2>2, <2>3 DEF AsyncStates
<1>4. ASSUME NEW t \in Tasks, PollNotified(t) PROVE AsyncStates' /\ Wakeups'
  <2>1. st[t] = "saw_full" /\ t \in Async /\ inflight' = inflight
    BY <1>0, <1>4 DEF PollNotified, AsyncStates
  <2>2. st'[t] = (IF stored THEN "arrived" ELSE "parked") /\ \A u \in Tasks : u # t => st'[u] = st[u]
    BY <1>0, <1>4 DEF PollNotified, Move, TypeOK
  <2>3. AsyncStates'
    BY <1>0, <2>2 DEF AsyncStates
  <2>4. CASE stored
    <3>1. AsyncHopeful' /\ (BlockingHope => BlockingHope')
      BY <2>1, <2>2, <2>4 DEF BlockingHope, AsyncHopeful
    <3> QED
      BY <1>0, <2>1, <2>2, <2>3, <2>4, <3>1 DEF Wakeups
  <2>5. CASE ~stored
    <3>1. AsyncHopeful
      BY <1>0, <2>1, <2>5 DEF Wakeups
    <3>2. AsyncHopeful'
      BY <1>0, <2>1, <2>2, <3>1 DEF AsyncHopeful
    <3>3. BlockingHope => BlockingHope'
      BY <2>1, <2>2 DEF BlockingHope
    <3> QED
      BY <1>0, <2>1, <2>2, <2>3, <3>2, <3>3 DEF Wakeups
  <2> QED
    BY <2>3, <2>4, <2>5
<1>5. ASSUME NEW t \in Tasks, ResumeAsync(t) PROVE AsyncStates' /\ Wakeups'
  <2>1. /\ st[t] = "woken" /\ t \in Async /\ UNCHANGED <<inflight, stored>>
        /\ st'[t] = "arrived" /\ \A u \in Tasks : u # t => st'[u] = st[u]
    BY <1>0, <1>5, MoveType DEF ResumeAsync, AsyncStates, States, admissionVars
  <2>2. AsyncHopeful'
    BY <2>1 DEF AsyncHopeful
  <2>3. BlockingHope => BlockingHope'
    BY <2>1 DEF BlockingHope
  <2> QED
    BY <1>0, <2>1, <2>2, <2>3 DEF AsyncStates, Wakeups
<1>6. ASSUME NEW t \in Tasks, NEW l \in Lanes, Enqueue(t, l) PROVE AsyncStates' /\ Wakeups'
  <2>1. inflight > 0 /\ inflight' = inflight
    BY <1>6, CountedPositive DEF Enqueue, HolderStates, admissionVars
  <2>2. \A u \in Tasks : st'[u] = st[u] \/ st'[u] = "queued"
    BY <1>0, <1>6 DEF Enqueue, Move, TypeOK
  <2> QED
    BY <1>0, <1>1, <2>1, <2>2 DEF AsyncStates
<1>7. ASSUME NEW t \in Tasks, Start(t) PROVE AsyncStates' /\ Wakeups'
  <2>1. inflight > 0 /\ inflight' = inflight
    BY <1>7, CountedPositive DEF Start, HolderStates, admissionVars
  <2>2. \A u \in Tasks : st'[u] = st[u] \/ st'[u] = "running"
    BY <1>0, <1>7 DEF Start, Move, TypeOK
  <2> QED
    BY <1>0, <1>1, <2>1, <2>2 DEF AsyncStates
<1>8. ASSUME NEW t \in Tasks, ReleasePermit(t) PROVE AsyncStates' /\ Wakeups'
  <2>1. st'[t] = "release_cv" /\ \A u \in Tasks : u # t => st'[u] = st[u]
    BY <1>0, <1>8, MoveType DEF ReleasePermit, States
  <2>2. BlockingHope' /\ AsyncHopeful'
    BY <2>1 DEF BlockingHope, AsyncHopeful
  <2> QED
    BY <1>0, <2>1, <2>2 DEF AsyncStates, Wakeups
<1>9. ASSUME NEW t \in Tasks, NotifyBlocking(t) PROVE AsyncStates' /\ Wakeups'
  <2>0. "release_async" \in States
    BY DEF States
  <2>1. CASE Move(t, "release_async") /\ ParkedBlocking = {}
    <3>1. st'[t] = "release_async" /\ \A u \in Tasks : u # t => st'[u] = st[u]
      BY <1>0, <2>0, <2>1, MoveType
    <3>2. \A p \in Tasks \ Async : st'[p] # "parked"
      BY <2>1, <3>1 DEF ParkedBlocking
    <3>3. AsyncHopeful'
      BY <3>1 DEF AsyncHopeful
    <3> QED
      BY <1>0, <3>1, <3>2, <3>3 DEF AsyncStates, Wakeups
  <2>2. ASSUME NEW w \in Tasks \ Async, w # t,
               st'[t] = "release_async", st'[w] = "arrived",
               \A u \in Tasks : u # t /\ u # w => st'[u] = st[u]
        PROVE  AsyncStates' /\ Wakeups'
    <3>1. BlockingHope' /\ AsyncHopeful'
      BY <2>2 DEF BlockingHope, AsyncHopeful
    <3>2. AsyncStates'
      BY <1>0, <2>2 DEF AsyncStates
    <3> QED
      BY <3>1, <3>2 DEF Wakeups
  <2> QED
    BY <1>0, <1>9, <2>1, <2>2, NotifyBlockingMoves
<1>10. ASSUME NEW t \in Tasks, NEW s \in {"completing", "cancelled"},
              st[t] \in {"release_async", "woken"}, s = "cancelled" => t \in Async,
              NotifyOneAsync(t, s), inflight' = inflight
       PROVE  AsyncStates' /\ Wakeups'
  <2>0. s \in States
    BY DEF States
  <2>1. CASE Move(t, s) /\ stored' = TRUE /\ ParkedAsync = {}
    <3>1. st'[t] = s /\ \A u \in Tasks : u # t => st'[u] = st[u]
      BY <1>0, <2>0, <2>1, MoveType
    <3>2. \A p \in Async : st'[p] # "parked"
      BY <1>0, <2>1, <3>1 DEF ParkedAsync
    <3>3. BlockingHope => BlockingHope'
      BY <1>10, <3>1 DEF BlockingHope
    <3>4. \A p \in Tasks \ Async : st'[p] = "parked" => st[p] = "parked"
      BY <3>1
    <3>5. AsyncStates'
      BY <1>0, <1>10, <3>1 DEF AsyncStates
    <3> QED
      BY <1>0, <2>1, <3>2, <3>3, <3>4, <3>5 DEF Wakeups
  <2>2. ASSUME NEW w \in Async, w # t, st[w] = "parked",
               st'[t] = s, st'[w] = "woken",
               \A u \in Tasks : u # t /\ u # w => st'[u] = st[u]
        PROVE  AsyncStates' /\ Wakeups'
    <3>1. AsyncHopeful'
      BY <2>2 DEF AsyncHopeful
    <3>2. BlockingHope => BlockingHope'
      BY <1>10, <2>2 DEF BlockingHope
    <3>3. \A p \in Tasks \ Async : st'[p] = "parked" => st[p] = "parked"
      BY <2>2
    <3>4. AsyncStates'
      BY <1>0, <1>10, <2>2 DEF AsyncStates
    <3> QED
      BY <1>0, <3>1, <3>2, <3>3, <3>4 DEF Wakeups
  <2>3. \/ /\ Move(t, s) /\ stored' = TRUE /\ ParkedAsync = {}
        \/ /\ stored' = stored
           /\ \E w \in Async :
                /\ w # t /\ st[w] = "parked"
                /\ st' \in [Tasks -> States]
                /\ st'[t] = s /\ st'[w] = "woken"
                /\ \A u \in Tasks : u # t /\ u # w => st'[u] = st[u]
    BY <1>0, <1>10, <2>0, NotifyMoves, Zenon
  <2> QED
    BY <2>1, <2>2, <2>3, Zenon
<1>11. ASSUME NEW t \in Tasks, NotifyAsync(t) PROVE AsyncStates' /\ Wakeups'
  BY <1>10, <1>11 DEF NotifyAsync
<1>12. ASSUME NEW t \in Tasks, CancelWaiter(t) PROVE AsyncStates' /\ Wakeups'
  <2>1. t \in Async /\ inflight' = inflight
    BY <1>12 DEF CancelWaiter
  <2>2. CASE st[t] = "parked" /\ Move(t, "cancelled") /\ UNCHANGED stored
    <3>1. st'[t] = "cancelled" /\ \A u \in Tasks : u # t => st'[u] = st[u]
      BY <1>0, <2>2, MoveType DEF States
    <3>2. (BlockingHope => BlockingHope') /\ (AsyncHopeful => AsyncHopeful')
      BY <1>0, <2>1, <2>2, <3>1 DEF BlockingHope, AsyncHopeful
    <3> QED
      BY <1>0, <2>1, <2>2, <3>1, <3>2 DEF AsyncStates, Wakeups
  <2>3. CASE st[t] = "woken" /\ NotifyOneAsync(t, "cancelled")
    BY <1>10, <2>1, <2>3
  <2> QED
    BY <1>12, <2>2, <2>3 DEF CancelWaiter
<1>13. ASSUME NEW t \in Tasks, Complete(t) PROVE AsyncStates' /\ Wakeups'
  <2>1. /\ st[t] = "completing" /\ UNCHANGED <<inflight, stored>>
        /\ st'[t] = "done" /\ \A u \in Tasks : u # t => st'[u] = st[u]
    BY <1>0, <1>13, MoveType DEF Complete, States, admissionVars
  <2>2. (BlockingHope => BlockingHope') /\ (AsyncHopeful => AsyncHopeful')
    BY <1>0, <2>1 DEF BlockingHope, AsyncHopeful
  <2> QED
    BY <1>0, <2>1, <2>2 DEF AsyncStates, Wakeups
<1>14. ASSUME NEW l \in Lanes, NEW k \in Kinds, NEW c \in 0 .. 7, TakeReady(l, k, c)
       PROVE  AsyncStates' /\ Wakeups'
  <2> DEFINE t == Head(queues[l][k])
  <2>1. t \in Tasks /\ st[t] = "queued"
    BY <1>14, HeadIsQueued DEF TakeReady, PopsKind
  <2>2. inflight' = inflight /\ Move(t, "spawned")
    BY <1>14 DEF TakeReady, admissionVars
  <2> HIDE DEF t
  <2>3. inflight > 0
    BY <2>1, CountedPositive DEF HolderStates
  <2>4. \A u \in Tasks : st'[u] = st[u] \/ st'[u] = "spawned"
    BY <1>0, <2>1, <2>2 DEF Move, TypeOK
  <2> QED
    BY <1>0, <1>1, <2>2, <2>3, <2>4 DEF AsyncStates
<1>15. CASE UNCHANGED <<st, inflight, stored>>
  BY <1>0, <1>15 DEF AsyncStates, Wakeups, BlockingHope, AsyncHopeful
<1>16. ASSUME NEW l \in Lanes, Unlock(l) \/ SetOwnerShardsClosed(l)
       PROVE  AsyncStates' /\ Wakeups'
  BY <1>15, <1>16 DEF Unlock, SetOwnerShardsClosed, admissionVars
<1>17. CASE Quiescent
  BY <1>15, <1>17 DEF Quiescent, vars, admissionVars
<1> QED
  BY <1>2, <1>3, <1>4, <1>5, <1>6, <1>7, <1>8, <1>9, <1>11, <1>12, <1>13, <1>14,
     <1>16, <1>17 DEF Next, Step, Dispatch

\* The initial state satisfies the inductive invariant.
LEMMA InitInv == Init => ExecutorInv
<1> SUFFICES ASSUME Init PROVE ExecutorInv
  OBVIOUS
<1>0. NoLane \in Lanes
  BY ExecutorAssumption DEF NoLane
<1>1. \A t \in Tasks : st[t] = "idle"
  BY DEF Init
<1>2. TypeOK
  <2>1. [k \in Kinds |-> <<>>] \in [Kinds -> Seq(Tasks)]
    OBVIOUS
  <2>2. queues \in [Lanes -> [Kinds -> Seq(Tasks)]]
    BY <2>1 DEF Init
  <2>3. st \in [Tasks -> States] /\ lane \in [Tasks -> Lanes]
    BY <1>0 DEF Init, States
  <2>4. /\ inflight \in Nat
        /\ cursor \in [Lanes -> 0 .. 7] /\ running \in [Lanes -> Int]
    BY DEF Init
  <2>5. open \in [Lanes -> BOOLEAN] /\ locked \in [Lanes -> BOOLEAN]
    BY DEF Init
  <2>6. stored \in BOOLEAN /\ diverged \in BOOLEAN
    BY Zenon DEF Init
  <2> QED
    BY <2>2, <2>3, <2>4, <2>5, <2>6 DEF TypeOK
<1>3. AsyncStates
  BY <1>1 DEF AsyncStates
<1>4. Holders = {} /\ \A l \in Lanes : Queued(l) = {} /\ OnWorker(l) = {}
  BY <1>1 DEF Holders, Queued, OnWorker, In
<1>5. PermitsAccounted
  BY <1>4, FS_EmptySet, LimitType DEF Init, PermitsAccounted
<1>6. \A l \in Lanes, k \in Kinds : queues[l][k] = <<>>
  BY DEF Init
<1>7. QueuesHold
  <2>1. \A l \in Lanes : SchedulerLen(l) = 0
    <3>1. \A l \in Lanes : /\ queues[l]["Dedup"] = <<>> /\ queues[l]["ResponseDecode"] = <<>>
                           /\ queues[l]["Analysis"] = <<>> /\ queues[l]["Compress"] = <<>>
      BY <1>6 DEF Kinds
    <3>2. Len(<<>>) = 0
      OBVIOUS
    <3> QED
      <4> SUFFICES ASSUME NEW l \in Lanes PROVE SchedulerLen(l) = 0
        OBVIOUS
      <4>1. /\ Len(queues[l]["Dedup"]) = 0 /\ Len(queues[l]["ResponseDecode"]) = 0
            /\ Len(queues[l]["Analysis"]) = 0 /\ Len(queues[l]["Compress"]) = 0
        BY <3>1, <3>2
      <4> QED
        BY <4>1 DEF SchedulerLen
  <2> QED
    BY <1>4, <1>6, <2>1, FS_EmptySet DEF QueuesHold
<1>8. WorkersBounded
  <2>1. \A l \in Lanes : running[l] = 0 /\ LaneWorkers[l] \in Nat
    BY ExecutorAssumption DEF Init
  <2>2. \A l \in Lanes : Cardinality(OnWorker(l)) = 0
    BY <1>4, FS_EmptySet
  <2> QED
    BY <2>1, <2>2 DEF WorkersBounded
<1>9. NoLostWakeup /\ NoMissedNotify
  BY <1>1, WakeupForms, ExecutorAssumption DEF Wakeups
<1> QED
  BY <1>2, <1>3, <1>5, <1>7, <1>8, <1>9 DEF ExecutorInv, Init

\* Every reachable state of the executor satisfies the inductive invariant,
\* for any tasks, lanes, workers and queue capacity.
THEOREM ExecutorInvariant == Spec => []ExecutorInv
<1>1. Init => ExecutorInv
  BY InitInv
<1>2. ExecutorInv /\ [Next]_vars => ExecutorInv'
  <2> SUFFICES ASSUME ExecutorInv, [Next]_vars PROVE ExecutorInv'
    OBVIOUS
  <2>1. CASE Next
    BY <2>1, TypeStep, AccountsStep, WakeupStep, WakeupForms DEF ExecutorInv, Accounts
  <2>2. CASE UNCHANGED vars
    <3>1. UNCHANGED <<st, lane, inflight, stored, queues, cursor, open, running, locked, diverged>>
      BY <2>2 DEF vars, admissionVars, laneVars
    <3>2. TypeOK' /\ AsyncStates'
      BY <3>1 DEF ExecutorInv, TypeOK, AsyncStates
    <3>3. PermitsAccounted' /\ QueuesHold' /\ WorkersBounded' /\ ~diverged'
      BY <3>1, AccountsUnchanged
    <3>4. Wakeups => Wakeups'
      BY <3>1 DEF Wakeups, BlockingHope, AsyncHopeful
    <3> QED
      BY <3>2, <3>3, <3>4, WakeupForms DEF ExecutorInv
  <2> QED
    BY <2>1, <2>2
<1> QED
  BY <1>1, <1>2, PTL DEF Spec

\* Type correctness of the executor's state.
THEOREM ExecutorTypes == Spec => []TypeOK
<1>1. ExecutorInv => TypeOK
  BY DEF ExecutorInv
<1> QED
  BY <1>1, ExecutorInvariant, PTL

\* inflight is the number of tasks that hold a permit and never exceeds
\* workers plus queue capacity.
THEOREM PermitsAreAccounted == Spec => []PermitsAccounted
<1>1. ExecutorInv => PermitsAccounted
  BY DEF ExecutorInv
<1> QED
  BY <1>1, ExecutorInvariant, PTL

\* A lane runs at most as many jobs as its pool has workers.
THEOREM WorkersStayBounded == Spec => []WorkersBounded
<1>1. ExecutorInv => WorkersBounded
  BY DEF ExecutorInv
<1> QED
  BY <1>1, ExecutorInvariant, PTL

\* Neither the expect in enqueue nor the one in complete can panic.
THEOREM PanicsUnreachable == Spec => []NeverPanics
<1>1. ExecutorInv => NeverPanics
  <2> SUFFICES ASSUME ExecutorInv PROVE NeverPanics
    OBVIOUS
  <2>1. ~diverged
    BY DEF ExecutorInv
  <2>2. \A t \in In({"admitted"}), l \in Lanes : SchedulerLen(l) < Limit
    BY RoomForAdmitted DEF In
  <2>3. \A t \in In({"completing"}) : running[lane[t]] > 0
    BY CountedPositive DEF In, WorkerStates
  <2> QED
    BY <2>1, <2>2, <2>3 DEF NeverPanics
<1> QED
  BY <1>1, ExecutorInvariant, PTL

\* No waiter of the condition variable or of the Notify is ever left without
\* somebody who will wake it.
THEOREM NoWakeupIsLost == Spec => []NoLostWakeup
<1>1. ExecutorInv => NoLostWakeup
  BY DEF ExecutorInv
<1> QED
  BY <1>1, ExecutorInvariant, PTL

\* Every non-empty set of numbers has a least one: the induction principle of
\* the lemmas below.
LEMMA LeastNat ==
    ASSUME NEW N, N \subseteq Nat, N # {}
    PROVE  \E n \in N : \A m \in N : ~(m < n)
<1>1. PICK n \in N : \A m \in N : ~ (<<m, n>> \in OpToRel(<, Nat))
  BY WFMin, NatLessThanWellFounded
<1> QED
  BY <1>1 DEF OpToRel

-----------------------------------------------------------------------------
(* Dispatch *)

\* Every critical section of the dispatcher ends with its lane fully used.
LEMMA ConservingStep ==
    ASSUME ExecutorInv, WorkConserving, [Next]_vars
    PROVE  WorkConserving'
<1> SUFFICES ASSUME NEW l \in Lanes, ~locked'[l]
             PROVE  running'[l] = LaneWorkers[l] \/ SchedulerLen(l)' = 0
  BY DEF WorkConserving
<1>0. /\ lane \in [Tasks -> Lanes] /\ queues \in [Lanes -> [Kinds -> Seq(Tasks)]]
      /\ running \in [Lanes -> Int] /\ locked \in [Lanes -> BOOLEAN]
      /\ running[l] <= LaneWorkers[l] /\ LaneWorkers[l] \in Nat
  BY ExecutorAssumption DEF ExecutorInv, TypeOK, WorkersBounded
<1>1. ASSUME queues'[l] = queues[l], running'[l] = running[l], locked'[l] = locked[l]
      PROVE  running'[l] = LaneWorkers[l] \/ SchedulerLen(l)' = 0
  BY <1>1 DEF WorkConserving, SchedulerLen
<1>2. ASSUME UNCHANGED <<queues, running, locked>>
      PROVE  running'[l] = LaneWorkers[l] \/ SchedulerLen(l)' = 0
  BY <1>1, <1>2
<1>3. CASE UNCHANGED vars
  BY <1>2, <1>3 DEF vars, laneVars
<1>4. ASSUME NEW t \in Tasks,
             \/ Submit(t) \/ CheckSlot(t) \/ PollNotified(t) \/ ResumeAsync(t) \/ Start(t)
             \/ ReleasePermit(t) \/ NotifyBlocking(t) \/ NotifyAsync(t) \/ CancelWaiter(t)
      PROVE  running'[l] = LaneWorkers[l] \/ SchedulerLen(l)' = 0
  BY <1>2, <1>4
     DEF Submit, CheckSlot, PollNotified, ResumeAsync, Start, ReleasePermit, NotifyBlocking,
         NotifyAsync, CancelWaiter, laneVars
<1>5. ASSUME NEW t \in Tasks, NEW m \in Lanes, Enqueue(t, m)
      PROVE  running'[l] = LaneWorkers[l] \/ SchedulerLen(l)' = 0
  <2>1. CASE UNCHANGED <<queues, locked>>
    BY <1>2, <1>5, <2>1 DEF Enqueue
  <2>2. CASE /\ queues' = [queues EXCEPT ![m][Kind[t]] = Append(@, t)]
             /\ locked' = [locked EXCEPT ![m] = TRUE]
    <3>1. l # m
      BY <1>0, <2>2
    <3>2. queues'[l] = queues[l] /\ locked'[l] = locked[l] /\ running'[l] = running[l]
      BY <1>0, <1>5, <2>2, <3>1 DEF Enqueue
    <3> QED
      BY <1>1, <3>2
  <2> QED
    BY <1>5, <2>1, <2>2 DEF Enqueue
<1>6. ASSUME NEW t \in Tasks, Complete(t)
      PROVE  running'[l] = LaneWorkers[l] \/ SchedulerLen(l)' = 0
  <2>1. PICK m \in Lanes : m = lane[t]
    BY <1>0
  <2>2. /\ UNCHANGED queues
        /\ running' = [running EXCEPT ![m] = @ - 1]
        /\ locked' = [locked EXCEPT ![m] = TRUE]
    BY <1>6, <2>1 DEF Complete
  <2>3. l # m
    BY <1>0, <2>2
  <2>4. queues'[l] = queues[l] /\ locked'[l] = locked[l] /\ running'[l] = running[l]
    BY <1>0, <2>2, <2>3
  <2> QED
    BY <1>1, <2>4
<1>7. ASSUME NEW m \in Lanes, NEW k \in Kinds, NEW c \in 0 .. 7, TakeReady(m, k, c)
      PROVE  running'[l] = LaneWorkers[l] \/ SchedulerLen(l)' = 0
  <2>1. l # m
    BY <1>7 DEF TakeReady
  <2>2. queues'[l] = queues[l] /\ locked'[l] = locked[l] /\ running'[l] = running[l]
    BY <1>0, <1>7, <2>1 DEF TakeReady
  <2> QED
    BY <1>1, <2>2
<1>8. ASSUME NEW m \in Lanes, Unlock(m)
      PROVE  running'[l] = LaneWorkers[l] \/ SchedulerLen(l)' = 0
  <2>1. UNCHANGED <<queues, running>> /\ locked' = [locked EXCEPT ![m] = FALSE]
        /\ (running[m] >= LaneWorkers[m] \/ SchedulerLen(m) = 0)
    BY <1>8 DEF Unlock
  <2>2. CASE l = m
    <3>1. SchedulerLen(l)' = SchedulerLen(l)
      BY <2>1 DEF SchedulerLen
    <3> QED
      BY <1>0, <2>1, <2>2, <3>1
  <2>3. CASE l # m
    BY <1>0, <1>1, <2>1, <2>3
  <2> QED
    BY <2>2, <2>3
<1>9. ASSUME NEW m \in Lanes, SetOwnerShardsClosed(m)
      PROVE  running'[l] = LaneWorkers[l] \/ SchedulerLen(l)' = 0
  BY <1>2, <1>9 DEF SetOwnerShardsClosed
<1>10. CASE Quiescent
  BY <1>3, <1>10 DEF Quiescent
<1> QED
  BY <1>3, <1>4, <1>5, <1>6, <1>7, <1>8, <1>9, <1>10 DEF Next, Step, Dispatch

\* Distance is the first slot of the kind.
LEMMA DistanceIsFirst ==
    ASSUME NEW l \in Lanes, NEW k, NEW n \in 0 .. 7, Slot(l, cursor[l], n) = k
    PROVE  /\ Distance(l, k) \in 0 .. 7 /\ Slot(l, cursor[l], Distance(l, k)) = k
           /\ Distance(l, k) <= n
<1> DEFINE P(i) == Slot(l, cursor[l], i) = k
           N == {i \in 0 .. 7 : P(i)}
           First(i) == P(i) /\ \A j \in 0 .. 7 : j < i => ~P(j)
<1>1. N # {} /\ N \subseteq Nat
  OBVIOUS
<1>2. PICK i \in N : \A m \in N : ~(m < i)
  BY <1>1, LeastNat
<1>3. First(i) /\ i \in 0 .. 7
  BY <1>2
<1>4. Distance(l, k) = CHOOSE j \in 0 .. 7 : First(j)
  BY DEF Distance
<1>5. First(Distance(l, k)) /\ Distance(l, k) \in 0 .. 7
  BY <1>3, <1>4
<1> QED
  BY <1>5

\* The step that WaitingKindGetsNearer allows.
Nearer ==
    \A l \in Lanes, k \in Kinds :
        (/\ running[l]' > running[l]
         /\ queues[l][k] # <<>>
         /\ queues'[l][k] = queues[l][k]
         /\ Distance(l, k) < 8)
        => Distance(l, k)' < Distance(l, k)

\* The same of the state after a step.
LEMMA DistanceAfter ==
    ASSUME NEW l \in Lanes, NEW k, NEW n \in 0 .. 7, Slot(l, cursor[l], n)' = k
    PROVE  Distance(l, k)' \in 0 .. 7 /\ Distance(l, k)' <= n
<1> DEFINE P(i) == Slot(l, cursor[l], i)' = k
           N == {i \in 0 .. 7 : P(i)}
           First(i) == P(i) /\ \A j \in 0 .. 7 : j < i => ~P(j)
<1>1. N # {} /\ N \subseteq Nat
  OBVIOUS
<1>2. PICK i \in N : \A m \in N : ~(m < i)
  BY <1>1, LeastNat
<1>3. First(i) /\ i \in 0 .. 7
  BY <1>2
<1>4. PICK d : d = Distance(l, k)'
  OBVIOUS
<1>5. d = CHOOSE j \in 0 .. 7 : First(j)
  BY <1>4 DEF Distance
<1>6. First(d) /\ d \in 0 .. 7
  BY <1>3, <1>5
<1> QED
  BY <1>4, <1>6

\* A pop of another kind passes at least one slot, and none of a waiting kind.
LEMMA PopGetsNearer ==
    ASSUME ExecutorInv, NEW l \in Lanes, NEW k \in Kinds, NEW k0 \in Kinds, NEW c \in 0 .. 7,
           PopsKind(l, k0, c), cursor'[l] = c, open'[l] = open[l],
           k # k0, queues[l][k] # <<>>, Distance(l, k) < 8
    PROVE  Distance(l, k)' < Distance(l, k)
<1>1. PICK n \in 0 .. 7 : Slot(l, cursor[l], n) = k
  BY DEF Distance
<1>2. PICK d : d = Distance(l, k)
  OBVIOUS
<1>3. d \in 0 .. 7 /\ Slot(l, cursor[l], d) = k
  BY <1>1, <1>2, DistanceIsFirst
<1>4. PICK i \in 0 .. 7 : /\ Slot(l, cursor[l], i) = k0
                          /\ \A j \in 0 .. 7 : j < i => queues[l][Slot(l, cursor[l], j)] = <<>>
                          /\ c = (cursor[l] + i + 1) % 8
  BY <1>3 DEF PopsKind
<1>5. i < d
  <2>1. ~(d < i) /\ d # i
    BY <1>3, <1>4
  <2> QED
    BY <1>3, <2>1
<1>6. cursor[l] \in 0 .. 7
  BY DEF ExecutorInv, TypeOK
<1>7. PICK n1 : n1 = d - i - 1
  OBVIOUS
<1>8. n1 \in 0 .. 7 /\ (c + n1) % 8 = (cursor[l] + d) % 8 /\ n1 < d
  <2>1. PICK c0 \in 0 .. 7 : c0 = cursor[l]
    BY <1>6
  <2>2. d \in 0 .. 7 /\ i \in 0 .. 7 /\ i < d
    BY <1>3, <1>5
  <2>3. n1 \in 0 .. 7 /\ n1 < d
    BY <1>7, <2>2
  <2>4. (((c0 + i + 1) % 8) + (d - i - 1)) % 8 = (c0 + d) % 8
    BY <2>2
  <2> QED
    BY <1>4, <1>7, <2>1, <2>3, <2>4
<1>9. Slot(l, cursor[l], n1)' = Slot(l, cursor[l], d)
  BY <1>8 DEF Slot
<1>10. Distance(l, k)' \in 0 .. 7 /\ Distance(l, k)' <= n1
  BY <1>3, <1>8, <1>9, DistanceAfter
<1> QED
  BY <1>2, <1>3, <1>8, <1>10

LEMMA NearerStep == ASSUME ExecutorInv, [Next]_vars PROVE Nearer
<1> SUFFICES ASSUME NEW l \in Lanes, NEW k \in Kinds, running'[l] > running[l],
                    queues[l][k] # <<>>, queues'[l][k] = queues[l][k], Distance(l, k) < 8
             PROVE  Distance(l, k)' < Distance(l, k)
  BY DEF Nearer
<1>0. /\ lane \in [Tasks -> Lanes] /\ queues \in [Lanes -> [Kinds -> Seq(Tasks)]]
      /\ running \in [Lanes -> Int] /\ cursor \in [Lanes -> 0 .. 7]
  BY DEF ExecutorInv, TypeOK
<1>1. ASSUME UNCHANGED running PROVE FALSE
  BY <1>0, <1>1
<1>2. CASE UNCHANGED vars \/ Quiescent
  BY <1>1, <1>2 DEF vars, laneVars, Quiescent
<1>3. ASSUME NEW t \in Tasks,
             \/ Submit(t) \/ CheckSlot(t) \/ PollNotified(t) \/ ResumeAsync(t) \/ Start(t)
             \/ ReleasePermit(t) \/ NotifyBlocking(t) \/ NotifyAsync(t) \/ CancelWaiter(t)
             \/ \E m \in Lanes : Enqueue(t, m)
      PROVE  FALSE
  BY <1>1, <1>3
     DEF Submit, CheckSlot, PollNotified, ResumeAsync, Start, ReleasePermit, NotifyBlocking,
         NotifyAsync, CancelWaiter, Enqueue, laneVars
<1>4. ASSUME NEW t \in Tasks, Complete(t) PROVE FALSE
  <2>1. PICK m \in Lanes : m = lane[t]
    BY <1>0
  <2>2. running' = [running EXCEPT ![m] = @ - 1]
    BY <1>4, <2>1 DEF Complete
  <2> QED
    BY <1>0, <2>2
<1>5. ASSUME NEW m \in Lanes, Unlock(m) \/ SetOwnerShardsClosed(m) PROVE FALSE
  BY <1>1, <1>5 DEF Unlock, SetOwnerShardsClosed
<1>6. ASSUME NEW m \in Lanes, NEW k0 \in Kinds, NEW c \in 0 .. 7, TakeReady(m, k0, c)
      PROVE  Distance(l, k)' < Distance(l, k)
  <2>1. /\ PopsKind(m, k0, c) /\ queues' = [queues EXCEPT ![m][k0] = Tail(@)]
        /\ cursor' = [cursor EXCEPT ![m] = c]
        /\ running' = [running EXCEPT ![m] = @ + 1] /\ UNCHANGED open
    BY <1>6 DEF TakeReady
  <2>2. l = m
    BY <1>0, <2>1
  <2>3. k # k0
    <3>1. SUFFICES ASSUME k = k0 PROVE FALSE
      OBVIOUS
    <3>2. PICK q : q = queues[l][k]
      OBVIOUS
    <3>3. q \in Seq(Tasks) /\ q # <<>> /\ Tail(q) = q
      BY <1>0, <2>1, <2>2, <3>1, <3>2
    <3>4. Len(Tail(q)) = Len(q) - 1
      BY <3>3, HeadTailProperties
    <3>5. Len(q) \in Nat
      BY <3>3, LenProperties
    <3> QED
      BY <3>3, <3>4, <3>5
  <2>4. cursor'[l] = c
    BY <1>0, <2>1, <2>2
  <2> QED
    BY <2>1, <2>2, <2>3, <2>4, PopGetsNearer
<1> QED
  BY <1>2, <1>3, <1>4, <1>5, <1>6 DEF Next, Step, Dispatch

\* Outside the dispatcher's critical section no lane has both a waiting job
\* and a free worker.
THEOREM LanesAreWorkConserving == Spec => []WorkConserving
<1>1. Init => WorkConserving
  BY DEF Init, WorkConserving, SchedulerLen, Kinds
<1>2. ExecutorInv /\ WorkConserving /\ [Next]_vars => WorkConserving'
  BY ConservingStep
<1> QED
  BY <1>1, <1>2, ExecutorInvariant, PTL DEF Spec

\* The weighted round robin passes a waiting kind over at most seven times:
\* every pop of another kind brings the cursor nearer to its slot.
THEOREM WaitingKindsGetNearer == Spec => WaitingKindGetsNearer
<1>1. ExecutorInv /\ [Next]_vars => [Nearer]_vars
  BY NearerStep
<1>2. Spec => [][Nearer]_vars
  BY <1>1, ExecutorInvariant, PTL DEF Spec
<1> QED
  BY <1>2 DEF WaitingKindGetsNearer, Nearer

=============================================================================
