---------------------------- MODULE CpuExecutor ----------------------------
(***************************************************************************)
(* The bounded CPU executor of the analysis pipeline (cpu_executor.rs and   *)
(* scheduler.rs).  A task first takes an admission permit, either on a      *)
(* condition variable (thread submitters) or on a tokio Notify (async       *)
(* submitters), is then pushed on the weighted scheduler of one lane, is    *)
(* popped when the lane has a free worker, runs, gives its permit back and  *)
(* finally tells the dispatcher that its worker is free.                    *)
(*                                                                          *)
(* A task t moves through the values of st[t]:                              *)
(*   idle      not submitted yet                                            *)
(*   arrived   about to lock `inflight` and compare it with the limit       *)
(*   parked    waits on wake_blocking, or is a registered waiter of         *)
(*             wake_async                                                   *)
(*   saw_full  async only: found no slot, its Notified is not yet polled    *)
(*   woken     async only: was handed a notification, is not polled yet     *)
(*   cancelled async only: the future was dropped while it waited           *)
(*   admitted  holds a permit, not yet pushed                               *)
(*   queued, spawned, running                                               *)
(*   release_cv, release_async, completing                                  *)
(*             the job is over: permit returned; condvar notified; Notify   *)
(*             notified and ActiveTask dropped                              *)
(*   done                                                                   *)
(***************************************************************************)
EXTENDS Integers, Sequences, FiniteSets

CONSTANTS
    Tasks,          \* the tasks submitted in one run
    Async,          \* those submitted through execute_async_kind
    Kind,           \* Kind[t]: the CpuTaskKind of t
    Lanes,          \* one lane per NUMA node
    LaneWorkers,    \* LaneWorkers[l]: worker threads of the lane's pool
    Workers,        \* all worker threads
    QueueCapacity   \* cpu_queue_capacity of the configuration

Kinds == {"Dedup", "ResponseDecode", "Analysis", "Compress"}

ASSUME ExecutorAssumption ==
    /\ IsFiniteSet(Tasks)
    /\ Async \subseteq Tasks
    /\ Kind \in [Tasks -> Kinds]
    /\ Lanes # {}
    /\ LaneWorkers \in [Lanes -> Nat \ {0}]
    /\ Workers \in Nat \ {0}
    /\ QueueCapacity \in Nat \ {0}

\* scheduler_capacity: the admission limit and the capacity of every lane.
Limit == Workers + QueueCapacity

VARIABLES
    st,         \* st[t]: see above
    lane,       \* lane[t]: the lane t was pushed on
    inflight,   \* Admission.inflight
    stored,     \* the one permit a Notify without waiters keeps
    queues,     \* queues[l][k]: WeightedScheduler.queues
    cursor,     \* cursor[l], modulo the length of the weight tables
    open,       \* open[l]: owner_shards_open
    running,    \* running[l]: DispatchState.running
    locked,     \* locked[l]: the dispatcher mutex is held by take_ready
    diverged    \* enqueue panicked: scheduler full although admitted

admissionVars == <<inflight, stored>>
laneVars == <<queues, cursor, open, running, locked, diverged>>
vars == <<st, lane, admissionVars, laneVars>>

States ==
    {"idle", "arrived", "parked", "saw_full", "woken", "cancelled", "admitted",
     "queued", "spawned", "running", "release_cv", "release_async",
     "completing", "done"}

In(S) == {t \in Tasks : st[t] \in S}

Move(t, s) == st' = [st EXCEPT ![t] = s]

-----------------------------------------------------------------------------
(* Admission *)

\* acquire_blocking and the first poll of acquire_async.
Submit(t) ==
    /\ st[t] = "idle"
    /\ Move(t, "arrived")
    /\ UNCHANGED <<lane, admissionVars, laneVars>>

\* As CheckSlot with one slot too many.
CheckSlotOffByOne(t) ==
    /\ st[t] = "arrived"
    /\ IF inflight <= Limit
       THEN inflight' = inflight + 1 /\ Move(t, "admitted")
       ELSE /\ Move(t, IF t \in Async THEN "saw_full" ELSE "parked")
            /\ UNCHANGED inflight
    /\ UNCHANGED <<lane, stored, laneVars>>

\* The check under the lock; a thread that finds no slot is on the condition
\* variable before the lock is free again, an async task is not registered yet.
CheckSlot(t) ==
    /\ st[t] = "arrived"
    /\ IF inflight < Limit
       THEN inflight' = inflight + 1 /\ Move(t, "admitted")
       ELSE /\ Move(t, IF t \in Async THEN "saw_full" ELSE "parked")
            /\ UNCHANGED inflight
    /\ UNCHANGED <<lane, stored, laneVars>>

\* notified.await: the stored permit is consumed, or the waiter registers.
PollNotified(t) ==
    /\ st[t] = "saw_full"
    /\ Move(t, IF stored THEN "arrived" ELSE "parked")
    /\ stored' = FALSE
    /\ UNCHANGED <<lane, inflight, laneVars>>

\* A notified waiter is scheduled again and goes round the loop.
ResumeAsync(t) ==
    /\ st[t] = "woken"
    /\ Move(t, "arrived")
    /\ UNCHANGED <<lane, admissionVars, laneVars>>

ParkedAsync == {t \in Async : st[t] = "parked"}
ParkedBlocking == {t \in Tasks \ Async : st[t] = "parked"}

\* Notify::notify_one after `from` moved on: one registered waiter is woken,
\* or the permit is stored.
NotifyOneAsync(from, next) ==
    \/ /\ ParkedAsync = {}
       /\ stored' = TRUE
       /\ Move(from, next)
    \/ \E w \in ParkedAsync \ {from} :
         /\ st' = [st EXCEPT ![from] = next, ![w] = "woken"]
         /\ UNCHANGED stored

\* The surrounding future is dropped (candidate deadline) while it waits.  A
\* Notified that was already handed the notification passes it on.
CancelWaiter(t) ==
    /\ t \in Async
    /\ \/ /\ st[t] = "parked"
          /\ Move(t, "cancelled")
          /\ UNCHANGED stored
       \/ /\ st[t] = "woken"
          /\ NotifyOneAsync(t, "cancelled")
    /\ UNCHANGED <<lane, inflight, laneVars>>

-----------------------------------------------------------------------------
(* Dispatcher and weighted scheduler *)

SchedulerLen(l) ==
    Len(queues[l]["Dedup"]) + Len(queues[l]["ResponseDecode"])
      + Len(queues[l]["Analysis"]) + Len(queues[l]["Compress"])

OpenWeights ==
    <<"Dedup", "Dedup", "Dedup", "ResponseDecode", "ResponseDecode",
      "Analysis", "Compress", "Dedup">>

ClosedWeights ==
    <<"Analysis", "Analysis", "Analysis", "ResponseDecode", "ResponseDecode",
      "Compress", "Analysis", "Compress">>

\* The kind the weight table names `i` slots after the cursor.
Slot(l, c, i) ==
    (IF open[l] THEN OpenWeights ELSE ClosedWeights)[1 + ((c + i) % 8)]

KindIndex == [Dedup |-> 0, ResponseDecode |-> 1, Analysis |-> 2, Compress |-> 3]

\* As PopsKind with a cursor that stays on the slot it served.
PopsKindStuck(l, k, c) ==
    /\ queues[l][k] # <<>>
    /\ \E i \in 0 .. 7 :
         /\ Slot(l, cursor[l], i) = k
         /\ \A j \in 0 .. 7 : j < i => queues[l][Slot(l, cursor[l], j)] = <<>>
         /\ c = (cursor[l] + i) % 8

\* WeightedScheduler::pop takes the front of queue k and leaves the cursor at c.
PopsKind(l, k, c) ==
    /\ queues[l][k] # <<>>
    /\ \/ \E i \in 0 .. 7 :
            /\ Slot(l, cursor[l], i) = k
            /\ \A j \in 0 .. 7 : j < i => queues[l][Slot(l, cursor[l], j)] = <<>>
            /\ c = (cursor[l] + i + 1) % 8
       \/ /\ \A j \in 0 .. 7 : queues[l][Slot(l, cursor[l], j)] = <<>>
          /\ \A k2 \in Kinds : KindIndex[k2] < KindIndex[k] => queues[l][k2] = <<>>
          /\ c = cursor[l]

\* Dispatcher::enqueue: push under the lock; take_ready follows before unlock.
Enqueue(t, l) ==
    /\ st[t] = "admitted"
    /\ ~locked[l]
    /\ IF SchedulerLen(l) >= Limit
       THEN /\ diverged' = TRUE
            /\ UNCHANGED <<st, lane, queues, locked>>
       ELSE /\ Move(t, "queued")
            /\ lane' = [lane EXCEPT ![t] = l]
            /\ queues' = [queues EXCEPT ![l][Kind[t]] = Append(@, t)]
            /\ locked' = [locked EXCEPT ![l] = TRUE]
            /\ UNCHANGED diverged
    /\ UNCHANGED <<admissionVars, cursor, open, running>>

\* As TakeReady without the test for a free worker.
TakeReadyUnbounded(l, k, c) ==
    /\ locked[l]
    /\ PopsKind(l, k, c)
    /\ Move(Head(queues[l][k]), "spawned")
    /\ queues' = [queues EXCEPT ![l][k] = Tail(@)]
    /\ cursor' = [cursor EXCEPT ![l] = c]
    /\ running' = [running EXCEPT ![l] = @ + 1]
    /\ UNCHANGED <<lane, admissionVars, open, locked, diverged>>

\* One turn of take_ready's loop; spawn_jobs hands the job to the pool.
TakeReady(l, k, c) ==
    /\ locked[l]
    /\ running[l] < LaneWorkers[l]
    /\ PopsKind(l, k, c)
    /\ Move(Head(queues[l][k]), "spawned")
    /\ queues' = [queues EXCEPT ![l][k] = Tail(@)]
    /\ cursor' = [cursor EXCEPT ![l] = c]
    /\ running' = [running EXCEPT ![l] = @ + 1]
    /\ UNCHANGED <<lane, admissionVars, open, locked, diverged>>

\* take_ready's loop ends: no worker is free or nothing waits.
Unlock(l) ==
    /\ locked[l]
    /\ running[l] >= LaneWorkers[l] \/ SchedulerLen(l) = 0
    /\ locked' = [locked EXCEPT ![l] = FALSE]
    /\ UNCHANGED <<st, lane, admissionVars, queues, cursor, open, running, diverged>>

SetOwnerShardsClosed(l) ==
    /\ open[l]
    /\ ~locked[l]
    /\ open' = [open EXCEPT ![l] = FALSE]
    /\ UNCHANGED <<st, lane, admissionVars, queues, cursor, running, locked, diverged>>

-----------------------------------------------------------------------------
(* The job on its worker thread *)

Start(t) ==
    /\ st[t] = "spawned"
    /\ Move(t, "running")
    /\ UNCHANGED <<lane, admissionVars, laneVars>>

\* The closure returns: its result is sent and the permit's drop begins.
ReleasePermit(t) ==
    /\ st[t] = "running"
    /\ inflight' = inflight - 1
    /\ Move(t, "release_cv")
    /\ UNCHANGED <<lane, stored, laneVars>>

\* wake_blocking.notify_one: a woken thread relocks and checks again.
NotifyBlocking(t) ==
    /\ st[t] = "release_cv"
    /\ \/ ParkedBlocking = {} /\ Move(t, "release_async")
       \/ \E w \in ParkedBlocking :
            st' = [st EXCEPT ![t] = "release_async", ![w] = "arrived"]
    /\ UNCHANGED <<lane, admissionVars, laneVars>>

\* As NotifyAsync without the notification.
NotifyAsyncForgotten(t) ==
    /\ st[t] = "release_async"
    /\ Move(t, "completing")
    /\ UNCHANGED <<lane, admissionVars, laneVars>>

\* wake_async.notify_one, then ActiveTask is dropped.
NotifyAsync(t) ==
    /\ st[t] = "release_async"
    /\ NotifyOneAsync(t, "completing")
    /\ UNCHANGED <<lane, inflight, laneVars>>

\* As Complete without the call of take_ready.
CompleteNoDispatch(t) ==
    /\ st[t] = "completing"
    /\ ~locked[lane[t]]
    /\ Move(t, "done")
    /\ running' = [running EXCEPT ![lane[t]] = @ - 1]
    /\ UNCHANGED <<lane, admissionVars, queues, cursor, open, locked, diverged>>

\* DispatchCompletion::drop, Dispatcher::complete; take_ready follows.
Complete(t) ==
    LET l == lane[t] IN
    /\ st[t] = "completing"
    /\ ~locked[l]
    /\ Move(t, "done")
    /\ running' = [running EXCEPT ![l] = @ - 1]
    /\ locked' = [locked EXCEPT ![l] = TRUE]
    /\ UNCHANGED <<lane, admissionVars, queues, cursor, open, diverged>>

-----------------------------------------------------------------------------

NoLane == CHOOSE l \in Lanes : TRUE

Init ==
    /\ st = [t \in Tasks |-> "idle"]
    /\ lane = [t \in Tasks |-> NoLane]
    /\ inflight = 0
    /\ stored = FALSE
    /\ queues = [l \in Lanes |-> [k \in Kinds |-> <<>>]]
    /\ cursor = [l \in Lanes |-> 0]
    /\ open = [l \in Lanes |-> TRUE]
    /\ running = [l \in Lanes |-> 0]
    /\ locked = [l \in Lanes |-> FALSE]
    /\ diverged = FALSE

Step(t) ==
    \/ CheckSlot(t)
    \/ PollNotified(t)
    \/ ResumeAsync(t)
    \/ \E l \in Lanes : Enqueue(t, l)
    \/ Start(t)
    \/ ReleasePermit(t)
    \/ NotifyBlocking(t)
    \/ NotifyAsync(t)
    \/ Complete(t)

Dispatch(l) ==
    \/ \E k \in Kinds, c \in 0 .. 7 : TakeReady(l, k, c)
    \/ Unlock(l)

\* Every task is over and every lane idle.
Quiescent ==
    /\ In({"done", "cancelled"}) = Tasks
    /\ \A l \in Lanes : ~locked[l] /\ ~open[l]
    /\ UNCHANGED vars

Next ==
    \/ \E t \in Tasks : Submit(t) \/ Step(t) \/ CancelWaiter(t)
    \/ \E l \in Lanes : Dispatch(l) \/ SetOwnerShardsClosed(l)
    \/ Quiescent

Spec == Init /\ [][Next]_vars

\* Threads, pool workers and polled futures make progress; nothing obliges a
\* submitter to arrive, a future to be dropped or the stream to close.
Fairness ==
    /\ \A t \in Tasks : WF_vars(Step(t))
    /\ \A l \in Lanes : WF_vars(Dispatch(l))

FairSpec == Spec /\ Fairness

-----------------------------------------------------------------------------
(* Properties *)

\* Type invariant.
TypeOK ==
    /\ st \in [Tasks -> States]
    /\ lane \in [Tasks -> Lanes]
    /\ inflight \in Nat
    /\ stored \in BOOLEAN
    /\ queues \in [Lanes -> [Kinds -> Seq(Tasks)]]
    /\ cursor \in [Lanes -> 0 .. 7]
    /\ open \in [Lanes -> BOOLEAN]
    /\ running \in [Lanes -> Int]
    /\ locked \in [Lanes -> BOOLEAN]
    /\ diverged \in BOOLEAN

Holders == In({"admitted", "queued", "spawned", "running"})
Queued(l) == {t \in In({"queued"}) : lane[t] = l}
OnWorker(l) ==
    {t \in In({"spawned", "running", "release_cv", "release_async", "completing"}) :
        lane[t] = l}

\* The panics "CPU admission and scheduler capacity diverged" (enqueue) and
\* "completed CPU task was not running" (complete) cannot be reached: a
\* task that holds a permit finds room on every lane, and a finished job was
\* counted as running.
NeverPanics ==
    /\ ~diverged
    /\ \A t \in In({"admitted"}), l \in Lanes : SchedulerLen(l) < Limit
    /\ \A t \in In({"completing"}) : running[lane[t]] > 0

\* Permits: as many are out as there are tasks between admission and the end
\* of their job, and never more than workers plus queue capacity.
PermitsAccounted == inflight = Cardinality(Holders) /\ inflight <= Limit

\* A lane never runs more jobs than its pool has workers, although the permit
\* of a job is given back before its worker is.
WorkersBounded ==
    \A l \in Lanes :
        running[l] = Cardinality(OnWorker(l)) /\ running[l] <= LaneWorkers[l]

\* Outside the dispatcher's critical section a lane with a waiting job has
\* all its workers taken: neither enqueue nor complete forgets to dispatch.
WorkConserving ==
    \A l \in Lanes :
        ~locked[l] => running[l] = LaneWorkers[l] \/ SchedulerLen(l) = 0

Releasing == In({"release_cv", "release_async"})

\* No lost wakeup: whoever sleeps on the condition variable or on the Notify,
\* a permit is still out, or its return is still being announced, or somebody
\* of the same sort is already awake and will take and later return one.
NoLostWakeup ==
    /\ ParkedBlocking # {} =>
         \/ inflight > 0
         \/ In({"release_cv"}) # {}
         \/ In({"arrived"}) \ Async # {}
    /\ ParkedAsync # {} =>
         \/ inflight > 0
         \/ Releasing # {}
         \/ In({"arrived", "woken"}) \cap Async # {}

\* Slots the cursor of lane l still has to pass to serve kind k.
Distance(l, k) ==
    IF \E i \in 0 .. 7 : Slot(l, cursor[l], i) = k
    THEN CHOOSE i \in 0 .. 7 :
            Slot(l, cursor[l], i) = k /\ \A j \in 0 .. 7 : j < i => Slot(l, cursor[l], j) # k
    ELSE 8

\* Weighted round robin: popping another kind brings the cursor nearer to the
\* slot of every kind that waits and has a slot, so a waiting kind is passed
\* over at most seven times in a row.
WaitingKindGetsNearer ==
    [][\A l \in Lanes, k \in Kinds :
         (/\ running[l]' > running[l]
          /\ queues[l][k] # <<>>
          /\ queues'[l][k] = queues[l][k]
          /\ Distance(l, k) < 8)
         => Distance(l, k)' < Distance(l, k)]_vars

\* Every submitted task is run to its end unless its own future was dropped
\* while it waited: mixing condvar and Notify waiters strands nobody.
SubmittedTasksFinish ==
    \A t \in Tasks : st[t] = "arrived" ~> st[t] \in {"done", "cancelled"}

-----------------------------------------------------------------------------
(* The inductive invariant of the proofs *)

\* Only async submitters are in the states of a Notified future.
AsyncStates ==
    \A t \in Tasks : st[t] \in {"saw_full", "woken", "cancelled"} => t \in Async

\* The queues of a lane hold its queued tasks, each once and by its kind.
QueuesHold ==
    \A l \in Lanes :
        /\ SchedulerLen(l) = Cardinality(Queued(l))
        /\ \A k \in Kinds : \A i \in DOMAIN queues[l][k] :
             queues[l][k][i] \in Queued(l) /\ Kind[queues[l][k][i]] = k
        /\ \A k \in Kinds : \A i, j \in DOMAIN queues[l][k] :
             queues[l][k][i] = queues[l][k][j] => i = j

\* Somebody is left to wake an async waiter.
AsyncHope ==
    \/ inflight > 0
    \/ Releasing # {}
    \/ In({"arrived", "woken"}) \cap Async # {}

\* An async task that found no slot but is not registered yet is safe too:
\* a notification it would miss is stored.
NoMissedNotify == In({"saw_full"}) # {} => stored \/ AsyncHope

ExecutorInv ==
    /\ TypeOK
    /\ AsyncStates
    /\ PermitsAccounted
    /\ QueuesHold
    /\ WorkersBounded
    /\ ~diverged
    /\ NoLostWakeup
    /\ NoMissedNotify

=============================================================================
