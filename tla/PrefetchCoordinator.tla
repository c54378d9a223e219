------------------------ MODULE PrefetchCoordinator ------------------------
(***************************************************************************)
(* PrefetchCoordinator of orchestrator.rs: one entry per hinted candidate,  *)
(* Queued | Active{upgrade, frozen} | Complete, a FIFO of queued ids that   *)
(* may hold stale ids, and three counters that are maintained by hand.  The *)
(* prefetch fetches of the network JoinSet and the seen bitmap of           *)
(* CandidateRegistry are kept here too, because they decide which calls can *)
(* happen.  PrefetchSpec is the component under its callers' protocol;      *)
(* CandidatePipeline uses the same actions inside the event loop.           *)
(***************************************************************************)
EXTENDS CandidateRecords

CONSTANTS
    NetworkQueueCapacity,   \* network_queue_capacity: prefetch plans
    NetworkLimit            \* min(network_queue_capacity, provider concurrency)

ASSUME PrefetchAssumption ==
    /\ NetworkQueueCapacity \in Nat \ {0}
    /\ NetworkLimit \in 1 .. NetworkQueueCapacity

VARIABLES
    order,          \* PrefetchCoordinator.order
    entries,        \* PrefetchCoordinator.entries
    queuedCount,
    reservedCount,
    planCount,
    prefetching,    \* prefetch fetches in the network JoinSet
    seen            \* CandidateRegistry.seen

prefetchVars == <<order, entries, queuedCount, reservedCount, planCount, prefetching, seen>>
counters == <<queuedCount, reservedCount, planCount>>

\* stage   absent, queued, active or complete
\* rel     the record of the relations merged so far; it is the record that a
\*         queued entry is fetched with and the `upgrade` of an active one
\* got, ok the record a complete prefetch was fetched with, and its success
Entry ==
    [stage : {"absent", "queued", "active", "complete"}, rel : Record,
     upgrade : BOOLEAN, frozen : BOOLEAN, got : Record, ok : BOOLEAN]

NoEntry ==
    [stage |-> "absent", rel |-> NoRecord, upgrade |-> FALSE, frozen |-> FALSE,
     got |-> NoRecord, ok |-> FALSE]

QueuedEntry(rel) ==
    [stage |-> "queued", rel |-> rel, upgrade |-> FALSE, frozen |-> FALSE,
     got |-> NoRecord, ok |-> FALSE]

\* saturating_sub(1): a counter that is off would stick at zero, not wrap.
SaturatingDec(n) == IF n > 0 THEN n - 1 ELSE 0

Jobs == [cand : Candidates, rec : Record]

PrefetchInit ==
    /\ order = <<>>
    /\ entries = [c \in Candidates |-> NoEntry]
    /\ queuedCount = 0
    /\ reservedCount = 0
    /\ planCount = 0
    /\ prefetching = {}
    /\ seen = {}

-----------------------------------------------------------------------------
(* offer: one candidate of a Prefetch message *)

\* As OfferNew with room for one plan too many.
OfferNewOffByOne(c, r) ==
    /\ entries[c].stage = "absent"
    /\ planCount <= NetworkQueueCapacity
    /\ queuedCount' = queuedCount + 1
    /\ planCount' = planCount + 1
    /\ order' = Append(order, c)
    /\ entries' = [entries EXCEPT ![c] = QueuedEntry(r)]
    /\ UNCHANGED reservedCount

OfferNew(c, r) ==
    /\ entries[c].stage = "absent"
    /\ planCount < NetworkQueueCapacity
    /\ queuedCount' = queuedCount + 1
    /\ planCount' = planCount + 1
    /\ order' = Append(order, c)
    /\ entries' = [entries EXCEPT ![c] = QueuedEntry(r)]
    /\ UNCHANGED reservedCount

\* add_prefetch_skipped: the plan is full, the hint is lost.
OfferSkipped(c) ==
    /\ entries[c].stage = "absent"
    /\ planCount >= NetworkQueueCapacity
    /\ UNCHANGED <<order, entries, counters>>

\* A hint for an active entry that is already frozen changes nothing.
OfferLate(c) ==
    /\ entries[c].frozen
    /\ UNCHANGED <<order, entries, counters>>

OfferQueued(c, r) ==
    /\ entries[c].stage = "queued"
    /\ entries' = [entries EXCEPT ![c].rel = Merge(@, r)]
    /\ UNCHANGED <<order, counters>>

OfferActive(c, r) ==
    /\ entries[c].stage = "active" /\ ~entries[c].frozen
    /\ entries' = [entries EXCEPT ![c].rel = Merge(@, r), ![c].upgrade = TRUE]
    /\ UNCHANGED <<order, counters>>

OfferCovered(c, r) ==
    /\ entries[c].stage = "complete"
    /\ SelectionCovers(entries[c].got, Merge(entries[c].rel, r))
    /\ entries' = [entries EXCEPT ![c].rel = Merge(@, r)]
    /\ UNCHANGED <<order, counters>>

\* The completed evidence does not cover the wider selection: fetch again.
OfferRequeue(c, r) ==
    /\ entries[c].stage = "complete"
    /\ ~SelectionCovers(entries[c].got, Merge(entries[c].rel, r))
    /\ reservedCount' = SaturatingDec(reservedCount)
    /\ queuedCount' = queuedCount + 1
    /\ order' = <<c>> \o order
    /\ entries' = [entries EXCEPT ![c] = QueuedEntry(Merge(entries[c].rel, r))]
    /\ UNCHANGED planCount

Offer(c, r) ==
    /\ \/ OfferNew(c, r) \/ OfferSkipped(c) \/ OfferLate(c) \/ OfferQueued(c, r)
       \/ OfferActive(c, r) \/ OfferCovered(c, r) \/ OfferRequeue(c, r)
    /\ UNCHANGED <<prefetching, seen>>

-----------------------------------------------------------------------------
(* pop_queued and the spawn of its fetch *)

\* order[i] is the first id that still belongs to a queued entry.
PopQueued(i) ==
    LET c == order[i] IN
    /\ reservedCount < NetworkLimit
    /\ entries[c].stage = "queued"
    /\ \A j \in 1 .. i - 1 : entries[order[j]].stage # "queued"
    /\ order' = SubSeq(order, i + 1, Len(order))
    /\ queuedCount' = SaturatingDec(queuedCount)
    /\ reservedCount' = reservedCount + 1
    /\ entries' = [entries EXCEPT ![c].stage = "active"]
    /\ prefetching' = prefetching \cup {[cand |-> c, rec |-> entries[c].rel]}
    /\ UNCHANGED <<planCount, seen>>

NoneQueued == \A i \in DOMAIN order : entries[order[i]].stage # "queued"

\* pop_queued runs through stale ids only and returns None.
PopNone ==
    /\ reservedCount < NetworkLimit
    /\ NoneQueued
    /\ order' = <<>>
    /\ UNCHANGED <<entries, counters, prefetching, seen>>

-----------------------------------------------------------------------------
(* freeze: one candidate of a Frozen message; mark_seen came before *)

FreezeComplete(c) ==
    /\ entries[c].stage = "complete"
    /\ reservedCount' = SaturatingDec(reservedCount)
    /\ planCount' = SaturatingDec(planCount)
    /\ entries' = [entries EXCEPT ![c] = NoEntry]
    /\ UNCHANGED <<order, queuedCount, prefetching>>

\* As FreezeQueued with the queued counter forgotten.
FreezeQueuedNoCount(c) ==
    /\ entries[c].stage = "queued"
    /\ planCount' = SaturatingDec(planCount)
    /\ entries' = [entries EXCEPT ![c] = NoEntry]
    /\ UNCHANGED <<order, queuedCount, reservedCount, prefetching>>

\* The id stays in `order` and is skipped by pop_queued.
FreezeQueued(c) ==
    /\ entries[c].stage = "queued"
    /\ queuedCount' = SaturatingDec(queuedCount)
    /\ planCount' = SaturatingDec(planCount)
    /\ entries' = [entries EXCEPT ![c] = NoEntry]
    /\ UNCHANGED <<order, reservedCount, prefetching>>

\* As FreezeActive, dropping the entry although its fetch goes on.
FreezeActiveForgets(c) ==
    /\ entries[c].stage = "active"
    /\ planCount' = SaturatingDec(planCount)
    /\ entries' = [entries EXCEPT ![c] = NoEntry]
    /\ UNCHANGED <<order, queuedCount, reservedCount, prefetching>>

FreezeActive(c) ==
    /\ entries[c].stage = "active"
    /\ planCount' = SaturatingDec(planCount)
    /\ entries' = [entries EXCEPT ![c].upgrade = FALSE, ![c].frozen = TRUE]
    /\ UNCHANGED <<order, queuedCount, reservedCount, prefetching>>

FreezeUnknown(c) ==
    /\ entries[c].stage = "absent"
    /\ UNCHANGED <<order, entries, counters, prefetching>>

Freeze(c) == FreezeComplete(c) \/ FreezeQueued(c) \/ FreezeActive(c) \/ FreezeUnknown(c)

-----------------------------------------------------------------------------
(* finish: a prefetch fetch left the JoinSet *)

\* The final record waited for this fetch; the entry is gone afterwards.
FinishFrozen(job) ==
    /\ entries[job.cand].frozen
    /\ reservedCount' = SaturatingDec(reservedCount)
    /\ entries' = [entries EXCEPT ![job.cand] = NoEntry]
    /\ UNCHANGED <<order, queuedCount, planCount>>

\* As FinishRequeue without a place in the queue.
FinishRequeueUnordered(job) ==
    LET e == entries[job.cand] IN
    /\ ~e.frozen
    /\ e.upgrade
    /\ ~SelectionCovers(job.rec, e.rel)
    /\ reservedCount' = SaturatingDec(reservedCount)
    /\ queuedCount' = queuedCount + 1
    /\ entries' = [entries EXCEPT ![job.cand] = QueuedEntry(e.rel)]
    /\ UNCHANGED <<order, planCount>>

\* A wider hint arrived meanwhile and the evidence does not cover it.
FinishRequeue(job) ==
    LET e == entries[job.cand] IN
    /\ ~e.frozen
    /\ e.upgrade
    /\ ~SelectionCovers(job.rec, e.rel)
    /\ reservedCount' = SaturatingDec(reservedCount)
    /\ queuedCount' = queuedCount + 1
    /\ order' = <<job.cand>> \o order
    /\ entries' = [entries EXCEPT ![job.cand] = QueuedEntry(e.rel)]
    /\ UNCHANGED planCount

\* As FinishComplete for any upgrade.
FinishCompleteUncovered(job, succeeded) ==
    LET e == entries[job.cand] IN
    /\ ~e.frozen
    /\ entries' =
         [entries EXCEPT ![job.cand] =
            [e EXCEPT !.stage = "complete", !.upgrade = FALSE,
                      !.got = job.rec, !.ok = succeeded]]
    /\ UNCHANGED <<order, counters>>

FinishComplete(job, succeeded) ==
    LET e == entries[job.cand] IN
    /\ ~e.frozen
    /\ e.upgrade => SelectionCovers(job.rec, e.rel)
    /\ entries' =
         [entries EXCEPT ![job.cand] =
            [e EXCEPT !.stage = "complete", !.upgrade = FALSE,
                      !.got = job.rec, !.ok = succeeded]]
    /\ UNCHANGED <<order, counters>>

\* finish returns early or fails when the entry is not active; by
\* FetchesMatchActive it always is.
Finish(job, succeeded) ==
    /\ job \in prefetching
    /\ entries[job.cand].stage = "active"
    /\ prefetching' = prefetching \ {job}
    /\ FinishFrozen(job) \/ FinishRequeue(job) \/ FinishComplete(job, succeeded)
    /\ UNCHANGED seen

-----------------------------------------------------------------------------
(* The component on its own: each candidate is frozen once, and a hint may   *)
(* come at any time, the late ones that offer guards against included.       *)

PrefetchNext ==
    \/ \E c \in Candidates : Base[c] # NoRecord /\ Offer(c, Base[c])
    \/ \E c \in Candidates : Exact[c] # NoRecord /\ Offer(c, Exact[c])
    \/ \E i \in DOMAIN order : PopQueued(i)
    \/ PopNone
    \/ \E c \in Candidates \ seen : Freeze(c) /\ seen' = seen \cup {c}
    \/ \E job \in prefetching, succeeded \in BOOLEAN : Finish(job, succeeded)

PrefetchSpec == PrefetchInit /\ [][PrefetchNext]_prefetchVars

-----------------------------------------------------------------------------
(* Properties *)

InStage(S) == {c \in Candidates : entries[c].stage \in S}

\* Type invariant.
PrefetchTypeOK ==
    /\ order \in Seq(Candidates)
    /\ entries \in [Candidates -> Entry]
    /\ queuedCount \in Nat
    /\ reservedCount \in Nat
    /\ planCount \in Nat
    /\ prefetching \subseteq Jobs
    /\ seen \subseteq Candidates

\* The hand-maintained counters agree with the entries after any sequence of
\* offer, pop_queued, freeze and finish: reserved_network_slots counts active
\* and complete entries, tracked_len the entries that are not frozen.
CountersMatchEntries ==
    /\ queuedCount = Cardinality(InStage({"queued"}))
    /\ reservedCount = Cardinality(InStage({"active", "complete"}))
    /\ planCount = Cardinality({c \in InStage({"queued", "active", "complete"}) : ~entries[c].frozen})

\* Every queued entry can still be popped although `order` keeps stale ids
\* and grows at both ends: has_queued never promises what pop_queued lacks.
QueuedIsReachable ==
    \A c \in InStage({"queued"}) : \E i \in DOMAIN order : order[i] = c

\* The prefetch plan and the reserved network slots stay within their limits.
PrefetchBounded ==
    planCount <= NetworkQueueCapacity /\ reservedCount <= NetworkLimit

\* The fetches in flight are exactly those of the active entries, one each,
\* so finish never meets "completed prefetch outside the active stage".
FetchesMatchActive ==
    /\ \A job \in prefetching : entries[job.cand].stage = "active"
    /\ \A c \in InStage({"active"}) : \E job \in prefetching : job.cand = c
    /\ \A j1, j2 \in prefetching : j1.cand = j2.cand => j1 = j2

\* A completed prefetch kept for later was fetched with a selection that
\* covers every hint merged since: no wider hint is forgotten.
CompleteCoversHints ==
    \A c \in InStage({"complete"}) : SelectionCovers(entries[c].got, entries[c].rel)

-----------------------------------------------------------------------------
(* The inductive invariant of the proofs *)

\* Only an active entry is frozen or waits for an upgrade.
FlagsOnlyWhenActive ==
    \A c \in Candidates :
        entries[c].frozen \/ entries[c].upgrade => entries[c].stage = "active"

\* A frozen entry belongs to a candidate that mark_seen has recorded, so no
\* entry is frozen twice.
FrozenIsSeen == \A c \in Candidates : entries[c].frozen => c \in seen

\* A fetch under way covers what its entry asks for, unless a wider hint or
\* the frozen record came after it started.
ActiveCoversHints ==
    \A job \in prefetching :
        \/ entries[job.cand].frozen
        \/ entries[job.cand].upgrade
        \/ SelectionCovers(job.rec, entries[job.cand].rel)

PrefetchInv ==
    /\ PrefetchTypeOK
    /\ CountersMatchEntries
    /\ QueuedIsReachable
    /\ PrefetchBounded
    /\ FetchesMatchActive
    /\ FlagsOnlyWhenActive
    /\ FrozenIsSeen
    /\ ActiveCoversHints
    /\ CompleteCoversHints

=============================================================================
