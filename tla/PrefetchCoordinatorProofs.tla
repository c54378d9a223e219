--------------------- MODULE PrefetchCoordinatorProofs ---------------------
(***************************************************************************)
(* For every set of candidates and every capacity: the invariants of        *)
(* PrefetchCoordinator hold in all reachable states of PrefetchSpec.  The   *)
(* argument is one induction over PrefetchInv, laid out as one lemma per    *)
(* conjunct with one step per action.                                       *)
(***************************************************************************)
EXTENDS PrefetchCoordinator, FiniteSetTheorems, TLAPS

-----------------------------------------------------------------------------
\* Adding an element to a finite set, or taking one out, moves its
\* cardinality by one exactly when membership changes.
LEMMA CardinalityMoves ==
    ASSUME NEW S, IsFiniteSet(S), NEW T, NEW c,
           \A d : d # c => (d \in T <=> d \in S)
    PROVE  Cardinality(T) = Cardinality(S) - (IF c \in S THEN 1 ELSE 0)
                                           + (IF c \in T THEN 1 ELSE 0)
<1>1. /\ c \in S /\ c \notin T => T = S \ {c}
      /\ c \notin S /\ c \in T => T = S \cup {c}
      /\ (c \in S <=> c \in T) => T = S
  OBVIOUS
<1> QED
  BY <1>1, FS_AddElement, FS_RemoveElement, FS_CardinalityType

\* merge_prefetch_relations yields a record.
LEMMA MergeType ==
    ASSUME NEW a \in Record, NEW b \in Record
    PROVE  Merge(a, b) \in Record
BY DEF Merge, Record

\* A hint merged later never loses what was asked for before.
LEMMA MergeCovers ==
    ASSUME NEW a \in Record, NEW b \in Record
    PROVE  SelectionCovers(Merge(a, b), a)
BY DEF Merge, Record, SelectionCovers

\* The entries offer, pop_queued, freeze and finish write are well formed.
LEMMA EntryTypes ==
    ASSUME NEW r \in Record
    PROVE  NoEntry \in Entry /\ QueuedEntry(r) \in Entry
<1>1. NoRecord \in Record
  BY DEF NoRecord, Record
<1>2. NoEntry \in Entry
  BY <1>1 DEF NoEntry, Entry
<1>3. QueuedEntry(r) \in Entry
  BY <1>1 DEF QueuedEntry, Entry
<1> QED
  BY <1>2, <1>3

\* What a queued entry consists of.
LEMMA QueuedEntryFields ==
    ASSUME NEW r
    PROVE  /\ QueuedEntry(r).stage = "queued"
           /\ QueuedEntry(r).rel = r
           /\ ~QueuedEntry(r).upgrade
           /\ ~QueuedEntry(r).frozen
BY DEF QueuedEntry

\* What an absent entry consists of.
LEMMA NoEntryFields ==
    NoEntry.stage = "absent" /\ ~NoEntry.upgrade /\ ~NoEntry.frozen
BY DEF NoEntry

-----------------------------------------------------------------------------
(* What one written entry does to the sets behind the counters *)

\* The sets that queued_count, reserved_count and plan_count count.
QueuedSet == InStage({"queued"})
ReservedSet == InStage({"active", "complete"})
PlanSet == {c \in InStage({"queued", "active", "complete"}) : ~entries[c].frozen}

\* How much an entry weighs in each of the counters.
QueuedWeight(e) == IF e.stage = "queued" THEN 1 ELSE 0
ReservedWeight(e) == IF e.stage \in {"active", "complete"} THEN 1 ELSE 0
PlanWeight(e) ==
    IF e.stage \in {"queued", "active", "complete"} /\ ~e.frozen THEN 1 ELSE 0

\* A counter that counts an entry is positive, so that saturating_sub is an
\* exact subtraction; the counted sets are finite.
LEMMA CountersPositive ==
    ASSUME PrefetchTypeOK, CountersMatchEntries, NEW c \in Candidates
    PROVE  /\ IsFiniteSet(QueuedSet) /\ IsFiniteSet(ReservedSet) /\ IsFiniteSet(PlanSet)
           /\ SaturatingDec(queuedCount) \in Nat
           /\ SaturatingDec(reservedCount) \in Nat
           /\ SaturatingDec(planCount) \in Nat
           /\ c \in QueuedSet => SaturatingDec(queuedCount) = queuedCount - 1
           /\ c \in ReservedSet => SaturatingDec(reservedCount) = reservedCount - 1
           /\ c \in PlanSet => SaturatingDec(planCount) = planCount - 1
<1>1. IsFiniteSet(QueuedSet) /\ IsFiniteSet(ReservedSet) /\ IsFiniteSet(PlanSet)
  <2>1. /\ QueuedSet \subseteq Candidates
        /\ ReservedSet \subseteq Candidates
        /\ PlanSet \subseteq Candidates
    BY DEF QueuedSet, ReservedSet, PlanSet, InStage
  <2> QED
    BY <2>1, FS_Subset, RecordsAssumption
<1>2. /\ queuedCount = Cardinality(QueuedSet)
      /\ reservedCount = Cardinality(ReservedSet)
      /\ planCount = Cardinality(PlanSet)
  BY DEF CountersMatchEntries, QueuedSet, ReservedSet, PlanSet
<1>3. queuedCount \in Nat /\ reservedCount \in Nat /\ planCount \in Nat
  BY DEF PrefetchTypeOK
<1>4. c \in QueuedSet => queuedCount # 0
  BY <1>1, <1>2, FS_EmptySet
<1>5. c \in ReservedSet => reservedCount # 0
  BY <1>1, <1>2, FS_EmptySet
<1>6. c \in PlanSet => planCount # 0
  BY <1>1, <1>2, FS_EmptySet
<1> QED
  BY <1>1, <1>3, <1>4, <1>5, <1>6 DEF SaturatingDec

\* When one entry is written and the counters move by the weights of the old
\* and the new entry, the counters agree with the entries again.
LEMMA CountersStep ==
    ASSUME PrefetchTypeOK, CountersMatchEntries,
           NEW c \in Candidates, NEW e \in Entry,
           entries' = [entries EXCEPT ![c] = e],
           queuedCount' = queuedCount - QueuedWeight(entries[c]) + QueuedWeight(e),
           reservedCount' = reservedCount - ReservedWeight(entries[c]) + ReservedWeight(e),
           planCount' = planCount - PlanWeight(entries[c]) + PlanWeight(e)
    PROVE  CountersMatchEntries'
<1>1. IsFiniteSet(QueuedSet) /\ IsFiniteSet(ReservedSet) /\ IsFiniteSet(PlanSet)
  BY CountersPositive
<1>2. /\ queuedCount = Cardinality(QueuedSet)
      /\ reservedCount = Cardinality(ReservedSet)
      /\ planCount = Cardinality(PlanSet)
  BY DEF CountersMatchEntries, QueuedSet, ReservedSet, PlanSet
<1>3. entries'[c] = e /\ \A d \in Candidates : d # c => entries'[d] = entries[d]
  BY DEF PrefetchTypeOK
<1>4. Cardinality(QueuedSet') = Cardinality(QueuedSet) - QueuedWeight(entries[c]) + QueuedWeight(e)
  <2>1. \A d : d # c => (d \in QueuedSet' <=> d \in QueuedSet)
    BY <1>3 DEF QueuedSet, InStage
  <2>2. (c \in QueuedSet <=> entries[c].stage = "queued") /\ (c \in QueuedSet' <=> e.stage = "queued")
    BY <1>3 DEF QueuedSet, InStage
  <2> QED
    BY <1>1, <2>1, <2>2, CardinalityMoves DEF QueuedWeight
<1>5. Cardinality(ReservedSet') = Cardinality(ReservedSet) - ReservedWeight(entries[c]) + ReservedWeight(e)
  <2>1. \A d : d # c => (d \in ReservedSet' <=> d \in ReservedSet)
    BY <1>3 DEF ReservedSet, InStage
  <2>2. /\ c \in ReservedSet <=> entries[c].stage \in {"active", "complete"}
        /\ c \in ReservedSet' <=> e.stage \in {"active", "complete"}
    BY <1>3 DEF ReservedSet, InStage
  <2> QED
    BY <1>1, <2>1, <2>2, CardinalityMoves DEF ReservedWeight
<1>6. Cardinality(PlanSet') = Cardinality(PlanSet) - PlanWeight(entries[c]) + PlanWeight(e)
  <2>1. \A d : d # c => (d \in PlanSet' <=> d \in PlanSet)
    BY <1>3 DEF PlanSet, InStage
  <2>2. /\ c \in PlanSet <=> entries[c].stage \in {"queued", "active", "complete"} /\ ~entries[c].frozen
        /\ c \in PlanSet' <=> e.stage \in {"queued", "active", "complete"} /\ ~e.frozen
    BY <1>3 DEF PlanSet, InStage
  <2> QED
    BY <1>1, <2>1, <2>2, CardinalityMoves DEF PlanWeight
<1> QED
  BY <1>2, <1>4, <1>5, <1>6 DEF CountersMatchEntries, QueuedSet, ReservedSet, PlanSet

-----------------------------------------------------------------------------
(* Each operation as the write of one entry *)

\* Entry e replaces the entry of c and the counters move by the weights.
Writes(c, e) ==
    /\ e \in Entry
    /\ entries' = [entries EXCEPT ![c] = e]
    /\ queuedCount' = queuedCount - QueuedWeight(entries[c]) + QueuedWeight(e)
    /\ reservedCount' = reservedCount - ReservedWeight(entries[c]) + ReservedWeight(e)
    /\ planCount' = planCount - PlanWeight(entries[c]) + PlanWeight(e)

\* The facts about one entry that every lemma below starts from.
LEMMA EntryFacts ==
    ASSUME PrefetchInv, NEW c \in Candidates
    PROVE  /\ entries[c] \in Entry
           /\ entries[c].rel \in Record /\ entries[c].got \in Record
           /\ entries[c].frozen \in BOOLEAN /\ entries[c].upgrade \in BOOLEAN
           /\ entries[c].frozen \/ entries[c].upgrade => entries[c].stage = "active"
           /\ queuedCount \in Nat /\ reservedCount \in Nat /\ planCount \in Nat
           /\ entries[c].stage = "queued" => SaturatingDec(queuedCount) = queuedCount - 1
           /\ entries[c].stage \in {"active", "complete"} =>
                SaturatingDec(reservedCount) = reservedCount - 1
           /\ entries[c].stage \in {"queued", "active", "complete"} /\ ~entries[c].frozen =>
                SaturatingDec(planCount) = planCount - 1
<1>1. PrefetchTypeOK /\ CountersMatchEntries /\ FlagsOnlyWhenActive
  BY DEF PrefetchInv
<1>2. /\ entries[c] \in Entry
      /\ queuedCount \in Nat /\ reservedCount \in Nat /\ planCount \in Nat
  BY <1>1 DEF PrefetchTypeOK
<1>3. /\ entries[c].rel \in Record /\ entries[c].got \in Record
      /\ entries[c].frozen \in BOOLEAN /\ entries[c].upgrade \in BOOLEAN
  BY <1>2 DEF Entry
<1>4. entries[c].frozen \/ entries[c].upgrade => entries[c].stage = "active"
  BY <1>1 DEF FlagsOnlyWhenActive
<1>5. /\ c \in QueuedSet => SaturatingDec(queuedCount) = queuedCount - 1
      /\ c \in ReservedSet => SaturatingDec(reservedCount) = reservedCount - 1
      /\ c \in PlanSet => SaturatingDec(planCount) = planCount - 1
  BY <1>1, CountersPositive
<1>6. /\ entries[c].stage = "queued" => c \in QueuedSet
      /\ entries[c].stage \in {"active", "complete"} => c \in ReservedSet
      /\ entries[c].stage \in {"queued", "active", "complete"} /\ ~entries[c].frozen =>
           c \in PlanSet
  BY DEF QueuedSet, ReservedSet, PlanSet, InStage
<1> QED
  BY <1>2, <1>3, <1>4, <1>5, <1>6

\* offer of a new candidate writes a queued entry.
LEMMA OfferNewWrites ==
    ASSUME PrefetchInv, NEW c \in Candidates, NEW r \in Record, OfferNew(c, r)
    PROVE  Writes(c, QueuedEntry(r))
<1>1. QueuedEntry(r) \in Entry
  BY EntryTypes
<1>2. QueuedEntry(r).stage = "queued" /\ ~QueuedEntry(r).frozen
  BY QueuedEntryFields
<1> QED
  BY <1>1, <1>2, EntryFacts DEF OfferNew, Writes, QueuedWeight, ReservedWeight, PlanWeight

\* A wider hint for a completed prefetch writes a queued entry.
LEMMA OfferRequeueWrites ==
    ASSUME PrefetchInv, NEW c \in Candidates, NEW r \in Record, OfferRequeue(c, r)
    PROVE  Writes(c, QueuedEntry(Merge(entries[c].rel, r)))
<1> DEFINE m == Merge(entries[c].rel, r)
<1>1. m \in Record
  BY EntryFacts, MergeType
<1> HIDE DEF m
<1>2. QueuedEntry(m) \in Entry
  BY <1>1, EntryTypes
<1>3. QueuedEntry(m).stage = "queued" /\ ~QueuedEntry(m).frozen
  BY QueuedEntryFields
<1>4. /\ entries' = [entries EXCEPT ![c] = QueuedEntry(m)]
      /\ entries[c].stage = "complete"
      /\ reservedCount' = SaturatingDec(reservedCount)
      /\ queuedCount' = queuedCount + 1
      /\ planCount' = planCount
  BY DEF OfferRequeue, m
<1>5. Writes(c, QueuedEntry(m))
  BY <1>2, <1>3, <1>4, EntryFacts DEF Writes, QueuedWeight, ReservedWeight, PlanWeight
<1> QED
  BY <1>5 DEF m

\* The entry with a hint merged into its relations, as offer leaves it.
Hinted(c, r, upgrade) ==
    [entries[c] EXCEPT !.rel = Merge(entries[c].rel, r), !.upgrade = upgrade]

\* The fields of a hinted entry.
LEMMA HintedFields ==
    ASSUME PrefetchInv, NEW c \in Candidates, NEW r \in Record, NEW u \in BOOLEAN
    PROVE  /\ Hinted(c, r, u) \in Entry
           /\ Hinted(c, r, u).rel = Merge(entries[c].rel, r)
           /\ Hinted(c, r, u).upgrade = u
           /\ Hinted(c, r, u).stage = entries[c].stage
           /\ Hinted(c, r, u).frozen = entries[c].frozen
           /\ Hinted(c, r, u).got = entries[c].got
<1>1. entries[c] \in Entry /\ Merge(entries[c].rel, r) \in Record
  BY EntryFacts, MergeType
<1> QED
  BY <1>1 DEF Hinted, Entry

\* offer to a queued or a covered complete entry merges the relations.
LEMMA OfferMergeWrites ==
    ASSUME PrefetchInv, NEW c \in Candidates, NEW r \in Record,
           OfferQueued(c, r) \/ OfferCovered(c, r)
    PROVE  Writes(c, Hinted(c, r, FALSE))
<1>1. entries[c] \in Entry /\ entries[c].upgrade = FALSE
  BY EntryFacts DEF OfferQueued, OfferCovered
<1>2. entries' = [entries EXCEPT ![c] = Hinted(c, r, FALSE)]
  <2>1. [entries[c] EXCEPT !.rel = Merge(entries[c].rel, r)] = Hinted(c, r, FALSE)
    BY <1>1 DEF Hinted, Entry
  <2>2. entries' = [entries EXCEPT ![c] = [entries[c] EXCEPT !.rel = Merge(entries[c].rel, r)]]
    BY DEF OfferQueued, OfferCovered
  <2> QED
    BY <2>1, <2>2
<1>3. UNCHANGED <<queuedCount, reservedCount, planCount>>
  BY DEF OfferQueued, OfferCovered, counters
<1> DEFINE h == Hinted(c, r, FALSE)
<1>4. h \in Entry /\ h.stage = entries[c].stage /\ h.frozen = entries[c].frozen
  BY HintedFields
<1>5. entries' = [entries EXCEPT ![c] = h]
  BY <1>2
<1> HIDE DEF h
<1>6. Writes(c, h)
  BY <1>3, <1>4, <1>5, EntryFacts DEF Writes, QueuedWeight, ReservedWeight, PlanWeight
<1> QED
  BY <1>6 DEF h

\* offer to an active entry merges the relations and asks for an upgrade.
LEMMA OfferActiveWrites ==
    ASSUME PrefetchInv, NEW c \in Candidates, NEW r \in Record, OfferActive(c, r)
    PROVE  Writes(c, Hinted(c, r, TRUE))
<1>1. entries[c] \in Entry
  BY EntryFacts
<1>2. entries' = [entries EXCEPT ![c] = Hinted(c, r, TRUE)]
  BY <1>1 DEF OfferActive, Hinted
<1>3. UNCHANGED <<queuedCount, reservedCount, planCount>>
  BY DEF OfferActive, counters
<1> DEFINE h == Hinted(c, r, TRUE)
<1>4. h \in Entry /\ h.stage = entries[c].stage /\ h.frozen = entries[c].frozen
  BY HintedFields
<1>5. entries' = [entries EXCEPT ![c] = h]
  BY <1>2
<1> HIDE DEF h
<1>6. Writes(c, h)
  BY <1>3, <1>4, <1>5, EntryFacts DEF Writes, QueuedWeight, ReservedWeight, PlanWeight
<1> QED
  BY <1>6 DEF h

\* freeze of a queued or complete entry and finish of a frozen one remove it.
LEMMA RemovalWrites ==
    ASSUME PrefetchInv, NEW c \in Candidates,
           \/ FreezeComplete(c) \/ FreezeQueued(c)
           \/ \E job \in Jobs : job.cand = c /\ FinishFrozen(job)
    PROVE  Writes(c, NoEntry)
<1>1. NoEntry \in Entry
  BY EntryTypes, EntryFacts
<1>2. CASE FreezeComplete(c)
  BY <1>1, <1>2, NoEntryFields, EntryFacts
     DEF FreezeComplete, Writes, QueuedWeight, ReservedWeight, PlanWeight
<1>3. CASE FreezeQueued(c)
  BY <1>1, <1>3, NoEntryFields, EntryFacts
     DEF FreezeQueued, Writes, QueuedWeight, ReservedWeight, PlanWeight
<1>4. CASE \E job \in Jobs : job.cand = c /\ FinishFrozen(job)
  BY <1>1, <1>4, NoEntryFields, EntryFacts
     DEF FinishFrozen, Writes, QueuedWeight, ReservedWeight, PlanWeight
<1> QED
  BY <1>2, <1>3, <1>4

\* The entry after pop_queued took it, after freeze froze its fetch, and
\* after its fetch finished.
Popped(c) == [entries[c] EXCEPT !.stage = "active"]
FrozenEntry(c) == [entries[c] EXCEPT !.upgrade = FALSE, !.frozen = TRUE]
Completed(job, succeeded) ==
    [entries[job.cand] EXCEPT !.stage = "complete", !.upgrade = FALSE,
                              !.got = job.rec, !.ok = succeeded]

\* pop_queued turns a queued entry into an active one.
LEMMA PopQueuedWrites ==
    ASSUME PrefetchInv, NEW i \in DOMAIN order, PopQueued(i)
    PROVE  /\ order[i] \in Candidates
           /\ Writes(order[i], Popped(order[i]))
           /\ Popped(order[i]).stage = "active"
           /\ Popped(order[i]).rel = entries[order[i]].rel
           /\ ~Popped(order[i]).frozen /\ ~Popped(order[i]).upgrade
<1>1. order[i] \in Candidates
  BY DEF PrefetchInv, PrefetchTypeOK
<1> DEFINE c == order[i]
           p == Popped(c)
<1>2. c \in Candidates /\ entries[c] \in Entry
  BY <1>1, EntryFacts
<1>3. entries[c].stage = "queued"
  BY DEF PopQueued
<1>4. /\ p \in Entry /\ p.stage = "active"
      /\ p.rel = entries[c].rel /\ p.frozen = entries[c].frozen /\ p.upgrade = entries[c].upgrade
  BY <1>2 DEF Popped, Entry
<1>5. entries' = [entries EXCEPT ![c] = p]
  BY DEF PopQueued, Popped
<1>6. /\ queuedCount' = SaturatingDec(queuedCount)
      /\ reservedCount' = reservedCount + 1
      /\ planCount' = planCount
  BY DEF PopQueued
<1> HIDE DEF p, c
<1>7. Writes(c, p) /\ ~p.frozen /\ ~p.upgrade
  BY <1>2, <1>3, <1>4, <1>5, <1>6, EntryFacts
     DEF Writes, QueuedWeight, ReservedWeight, PlanWeight
<1> QED
  BY <1>1, <1>4, <1>7 DEF p, c

\* freeze of an active entry drops its upgrade and marks it.
LEMMA FreezeActiveWrites ==
    ASSUME PrefetchInv, NEW c \in Candidates, FreezeActive(c), ~entries[c].frozen
    PROVE  /\ Writes(c, FrozenEntry(c))
           /\ FrozenEntry(c).stage = "active" /\ FrozenEntry(c).frozen
<1> DEFINE f == FrozenEntry(c)
<1>1. entries[c] \in Entry /\ entries[c].stage = "active"
  BY EntryFacts DEF FreezeActive
<1>2. f \in Entry /\ f.stage = "active" /\ f.frozen
  BY <1>1 DEF FrozenEntry, Entry
<1>3. entries' = [entries EXCEPT ![c] = f]
  BY <1>1 DEF FreezeActive, FrozenEntry
<1>4. /\ planCount' = SaturatingDec(planCount)
      /\ queuedCount' = queuedCount /\ reservedCount' = reservedCount
  BY DEF FreezeActive
<1> HIDE DEF f
<1>5. Writes(c, f)
  BY <1>1, <1>2, <1>3, <1>4, EntryFacts
     DEF Writes, QueuedWeight, ReservedWeight, PlanWeight
<1> QED
  BY <1>2, <1>5 DEF f

\* finish keeps the evidence of a covered prefetch.
LEMMA FinishCompleteWrites ==
    ASSUME PrefetchInv, NEW job \in Jobs, NEW succeeded \in BOOLEAN,
           FinishComplete(job, succeeded), entries[job.cand].stage = "active"
    PROVE  /\ job.cand \in Candidates
           /\ Writes(job.cand, Completed(job, succeeded))
           /\ Completed(job, succeeded).stage = "complete"
           /\ Completed(job, succeeded).got = job.rec
           /\ Completed(job, succeeded).rel = entries[job.cand].rel
           /\ ~Completed(job, succeeded).frozen /\ ~Completed(job, succeeded).upgrade
<1> DEFINE c == job.cand
           k == Completed(job, succeeded)
<1>1. c \in Candidates /\ job.rec \in Record
  BY DEF Jobs
<1>2. entries[c] \in Entry
  BY <1>1, EntryFacts
<1>3. /\ k \in Entry /\ k.stage = "complete" /\ k.got = job.rec /\ ~k.upgrade
      /\ k.rel = entries[c].rel /\ k.frozen = entries[c].frozen
  BY <1>1, <1>2 DEF Completed, Entry
<1>4. entries' = [entries EXCEPT ![c] = k] /\ ~entries[c].frozen
  BY DEF FinishComplete, Completed
<1>5. UNCHANGED <<queuedCount, reservedCount, planCount>>
  BY DEF FinishComplete, counters
<1>6. entries[c].stage = "active"
  OBVIOUS
<1> HIDE DEF k, c
<1>7. Writes(c, k)
  BY <1>1, <1>2, <1>3, <1>4, <1>5, <1>6, EntryFacts
     DEF Writes, QueuedWeight, ReservedWeight, PlanWeight
<1> QED
  BY <1>1, <1>3, <1>4, <1>7 DEF c, k

\* finish sends a prefetch that misses a wider hint back to the queue.
LEMMA FinishRequeueWrites ==
    ASSUME PrefetchInv, NEW job \in Jobs,
           FinishRequeue(job), entries[job.cand].stage = "active"
    PROVE  /\ job.cand \in Candidates
           /\ entries[job.cand].rel \in Record
           /\ Writes(job.cand, QueuedEntry(entries[job.cand].rel))
<1> DEFINE c == job.cand
           q == QueuedEntry(entries[c].rel)
<1>1. c \in Candidates /\ entries[c].rel \in Record
  BY EntryFacts DEF Jobs
<1>2. q \in Entry /\ q.stage = "queued" /\ ~q.frozen
  BY <1>1, EntryTypes, QueuedEntryFields
<1>3. /\ entries' = [entries EXCEPT ![c] = q] /\ ~entries[c].frozen
      /\ reservedCount' = SaturatingDec(reservedCount)
      /\ queuedCount' = queuedCount + 1
      /\ planCount' = planCount
  BY DEF FinishRequeue
<1>4. entries[c].stage = "active"
  OBVIOUS
<1> HIDE DEF q, c
<1>5. Writes(c, q)
  BY <1>1, <1>2, <1>3, <1>4, EntryFacts
     DEF Writes, QueuedWeight, ReservedWeight, PlanWeight
<1> QED
  BY <1>1, <1>5 DEF q, c

-----------------------------------------------------------------------------
(* What a write has to respect for the invariant to survive it *)

InOrder(c) == \E i \in DOMAIN order : order[i] = c

\* No queued id is lost from `order`, and a newly queued one is put there.
OrderStep(c, e) ==
    /\ order' \in Seq(Candidates)
    /\ \A d \in Candidates : d # c /\ entries[d].stage = "queued" /\ InOrder(d) => InOrder(d)'
    /\ e.stage = "queued" => InOrder(c)'

\* The fetches of other candidates are left alone, and that of c runs if and
\* only if e is active.
FetchStep(c, e) ==
    \/ /\ e.stage = "active" /\ entries[c].stage = "active"
       /\ prefetching' = prefetching
       /\ \A job \in prefetching :
            job.cand = c => e.frozen \/ e.upgrade \/ SelectionCovers(job.rec, e.rel)
    \/ /\ e.stage = "active" /\ entries[c].stage # "active"
       /\ prefetching' = prefetching \cup {[cand |-> c, rec |-> e.rel]}
    \/ /\ e.stage # "active" /\ entries[c].stage # "active"
       /\ prefetching' = prefetching
    \/ /\ e.stage # "active"
       /\ \E job \in prefetching : job.cand = c /\ prefetching' = prefetching \ {job}

\* A write that respects the order, the fetches and the limits preserves the
\* inductive invariant.
LEMMA WriteKeepsInv ==
    ASSUME PrefetchInv, NEW c \in Candidates, NEW e, Writes(c, e),
           OrderStep(c, e), FetchStep(c, e),
           planCount' <= NetworkQueueCapacity, reservedCount' <= NetworkLimit,
           seen' = seen \/ seen' = seen \cup {c},
           e.frozen => c \in seen',
           e.frozen \/ e.upgrade => e.stage = "active",
           e.stage = "complete" => SelectionCovers(e.got, e.rel)
    PROVE  PrefetchInv'
<1>1. e \in Entry /\ entries \in [Candidates -> Entry]
  BY DEF Writes, PrefetchInv, PrefetchTypeOK
<1>2. /\ entries' \in [Candidates -> Entry]
      /\ entries'[c] = e
      /\ \A d \in Candidates : d # c => entries'[d] = entries[d]
  BY <1>1 DEF Writes
<1>3. CountersMatchEntries'
  BY <1>1, CountersStep DEF Writes, PrefetchInv
<1>4. prefetching' \subseteq Jobs
  <2>1. prefetching \subseteq Jobs
    BY DEF PrefetchInv, PrefetchTypeOK
  <2>2. [cand |-> c, rec |-> e.rel] \in Jobs
    BY <1>1 DEF Jobs, Entry
  <2> QED
    BY <2>1, <2>2 DEF FetchStep
<1>5. PrefetchTypeOK'
  <2>1. queuedCount' \in Nat /\ reservedCount' \in Nat /\ planCount' \in Nat
    <3>1. /\ IsFiniteSet(QueuedSet') /\ IsFiniteSet(ReservedSet') /\ IsFiniteSet(PlanSet')
      <4>1. /\ QueuedSet' \subseteq Candidates
            /\ ReservedSet' \subseteq Candidates
            /\ PlanSet' \subseteq Candidates
        BY DEF QueuedSet, ReservedSet, PlanSet, InStage
      <4> QED
        BY <4>1, FS_Subset, RecordsAssumption
    <3>2. /\ queuedCount' = Cardinality(QueuedSet')
          /\ reservedCount' = Cardinality(ReservedSet')
          /\ planCount' = Cardinality(PlanSet')
      BY <1>3 DEF CountersMatchEntries, QueuedSet, ReservedSet, PlanSet
    <3> QED
      BY <3>1, <3>2, FS_CardinalityType
  <2>2. seen' \subseteq Candidates
    BY DEF PrefetchInv, PrefetchTypeOK
  <2> QED
    BY <1>2, <1>4, <2>1, <2>2 DEF PrefetchTypeOK, OrderStep
<1>6. QueuedIsReachable'
  <2> SUFFICES ASSUME NEW d \in Candidates, entries'[d].stage = "queued"
               PROVE  InOrder(d)'
    BY DEF QueuedIsReachable, InStage, InOrder
  <2>1. CASE d = c
    BY <1>2, <2>1 DEF OrderStep
  <2>2. CASE d # c
    <3>1. entries[d].stage = "queued"
      BY <1>2, <2>2
    <3>2. InOrder(d)
      BY <3>1 DEF PrefetchInv, QueuedIsReachable, InStage, InOrder
    <3> QED
      BY <2>2, <3>1, <3>2 DEF OrderStep
  <2> QED
    BY <2>1, <2>2
<1>7. FlagsOnlyWhenActive'
  BY <1>2 DEF FlagsOnlyWhenActive, PrefetchInv
<1>8. FrozenIsSeen'
  BY <1>2 DEF FrozenIsSeen, PrefetchInv
<1>9. CompleteCoversHints'
  BY <1>2 DEF CompleteCoversHints, InStage, PrefetchInv
<1>10. FetchesMatchActive' /\ ActiveCoversHints'
  <2>1. /\ \A job \in prefetching : job.cand \in Candidates
        /\ \A job \in prefetching : entries[job.cand].stage = "active"
        /\ \A d \in Candidates : entries[d].stage = "active" => \E job \in prefetching : job.cand = d
        /\ \A j1, j2 \in prefetching : j1.cand = j2.cand => j1 = j2
        /\ \A job \in prefetching :
             \/ entries[job.cand].frozen \/ entries[job.cand].upgrade
             \/ SelectionCovers(job.rec, entries[job.cand].rel)
    BY DEF PrefetchInv, PrefetchTypeOK, Jobs, FetchesMatchActive, ActiveCoversHints, InStage
  <2>2. SUFFICES /\ \A job \in prefetching' : entries'[job.cand].stage = "active"
                 /\ \A d \in Candidates : entries'[d].stage = "active" => \E job \in prefetching' : job.cand = d
                 /\ \A j1, j2 \in prefetching' : j1.cand = j2.cand => j1 = j2
                 /\ \A job \in prefetching' :
                      \/ entries'[job.cand].frozen \/ entries'[job.cand].upgrade
                      \/ SelectionCovers(job.rec, entries'[job.cand].rel)
    BY DEF FetchesMatchActive, ActiveCoversHints, InStage, SelectionCovers
  <2>3. CASE /\ e.stage = "active" /\ entries[c].stage = "active"
             /\ prefetching' = prefetching
             /\ \A job \in prefetching :
                  job.cand = c => e.frozen \/ e.upgrade \/ SelectionCovers(job.rec, e.rel)
    BY <1>2, <2>1, <2>3
  <2>4. CASE /\ e.stage = "active" /\ entries[c].stage # "active"
             /\ prefetching' = prefetching \cup {[cand |-> c, rec |-> e.rel]}
    <3> DEFINE n == [cand |-> c, rec |-> e.rel]
    <3>1. n.cand = c /\ SelectionCovers(n.rec, e.rel)
      BY DEF SelectionCovers
    <3>2. prefetching' = prefetching \cup {n}
      BY <2>4
    <3> HIDE DEF n
    <3>3. \A job \in prefetching : job.cand # c
      BY <2>1, <2>4
    <3> QED
      BY <1>2, <2>1, <2>4, <3>1, <3>2, <3>3
  <2>5. CASE /\ e.stage # "active" /\ entries[c].stage # "active"
             /\ prefetching' = prefetching
    BY <1>2, <2>1, <2>5
  <2>6. CASE /\ e.stage # "active"
             /\ \E job \in prefetching : job.cand = c /\ prefetching' = prefetching \ {job}
    BY <1>2, <2>1, <2>6
  <2> QED
    BY <2>3, <2>4, <2>5, <2>6 DEF FetchStep
<1> QED
  BY <1>3, <1>5, <1>6, <1>7, <1>8, <1>9, <1>10 DEF PrefetchInv, PrefetchBounded

\* The initial state satisfies the inductive invariant.
LEMMA InitInv == PrefetchInit => PrefetchInv
<1> SUFFICES ASSUME PrefetchInit PROVE PrefetchInv
  OBVIOUS
<1>0. NoRecord \in Record
  BY DEF NoRecord, Record
<1>1. NoEntry \in Entry
  BY <1>0, EntryTypes
<1>2. \A c \in Candidates : entries[c] = NoEntry
  BY DEF PrefetchInit
<1>3. PrefetchTypeOK
  BY <1>1 DEF PrefetchInit, PrefetchTypeOK
<1>4. CountersMatchEntries
  <2>1. /\ InStage({"queued"}) = {}
        /\ InStage({"active", "complete"}) = {}
        /\ {c \in InStage({"queued", "active", "complete"}) : ~entries[c].frozen} = {}
    BY <1>2, NoEntryFields DEF InStage
  <2> QED
    BY <2>1, FS_EmptySet DEF CountersMatchEntries, PrefetchInit
<1>5. QueuedIsReachable /\ CompleteCoversHints /\ FlagsOnlyWhenActive /\ FrozenIsSeen
  BY <1>2, NoEntryFields
     DEF QueuedIsReachable, CompleteCoversHints, FlagsOnlyWhenActive, FrozenIsSeen, InStage
<1>6. PrefetchBounded
  BY PrefetchAssumption DEF PrefetchInit, PrefetchBounded
<1>7. FetchesMatchActive /\ ActiveCoversHints
  BY <1>2, NoEntryFields DEF PrefetchInit, FetchesMatchActive, ActiveCoversHints, InStage
<1> QED
  BY <1>3, <1>4, <1>5, <1>6, <1>7 DEF PrefetchInv

-----------------------------------------------------------------------------
(* The step of the induction *)

\* The ways `order` changes: it keeps every queued id when it is unchanged,
\* extended at either end, or cut behind its first queued id.
LEMMA OrderGrows ==
    ASSUME PrefetchInv, NEW c \in Candidates, NEW e,
           order' = Append(order, c) \/ order' = <<c>> \o order
    PROVE  OrderStep(c, e)
<1>1. order \in Seq(Candidates)
  BY DEF PrefetchInv, PrefetchTypeOK
<1>2. CASE order' = Append(order, c)
  <2>1. /\ order' \in Seq(Candidates) /\ Len(order') = Len(order) + 1
        /\ order'[Len(order) + 1] = c
        /\ \A i \in 1 .. Len(order) : order'[i] = order[i]
    BY <1>1, <1>2
  <2>2. Len(order) \in Nat /\ DOMAIN order = 1 .. Len(order) /\ DOMAIN order' = 1 .. Len(order) + 1
    BY <1>1, <2>1
  <2> QED
    BY <2>1, <2>2 DEF OrderStep, InOrder
<1>3. CASE order' = <<c>> \o order
  <2>1. /\ order' \in Seq(Candidates) /\ Len(order') = Len(order) + 1
        /\ order'[1] = c
        /\ \A i \in 1 .. Len(order) : order'[i + 1] = order[i]
    BY <1>1, <1>3
  <2>2. Len(order) \in Nat /\ DOMAIN order = 1 .. Len(order) /\ DOMAIN order' = 1 .. Len(order) + 1
    BY <1>1, <2>1
  <2>3. \A i \in 1 .. Len(order) : i + 1 \in DOMAIN order'
    BY <2>2
  <2>4. 1 \in DOMAIN order'
    BY <2>2
  <2> QED
    BY <2>1, <2>2, <2>3, <2>4 DEF OrderStep, InOrder
<1> QED
  BY <1>2, <1>3

\* pop_queued drops stale ids and its own id, never another queued one.
LEMMA PopKeepsOrder ==
    ASSUME PrefetchInv, NEW i \in DOMAIN order, PopQueued(i), NEW e, e.stage = "active"
    PROVE  OrderStep(order[i], e)
<1>1. order \in Seq(Candidates)
  BY DEF PrefetchInv, PrefetchTypeOK
<1>2. /\ order' = SubSeq(order, i + 1, Len(order))
      /\ \A j \in 1 .. i - 1 : entries[order[j]].stage # "queued"
  BY DEF PopQueued
<1>3. i \in 1 .. Len(order) /\ Len(order) \in Nat /\ DOMAIN order = 1 .. Len(order)
  BY <1>1
<1>4. /\ order' \in Seq(Candidates)
      /\ DOMAIN order' = 1 .. Len(order) - i
      /\ \A j \in 1 .. Len(order) - i : order'[j] = order[j + i]
  BY <1>1, <1>2, <1>3
<1>5. ASSUME NEW d \in Candidates, d # order[i], entries[d].stage = "queued", InOrder(d)
      PROVE  InOrder(d)'
  <2>1. PICK j \in 1 .. Len(order) : order[j] = d
    BY <1>3, <1>5 DEF InOrder
  <2>2. j > i
    BY <1>2, <1>3, <1>5, <2>1
  <2>3. j - i \in 1 .. Len(order) - i /\ (j - i) + i = j
    BY <1>3, <2>1, <2>2
  <2>4. order'[j - i] = d
    BY <1>4, <2>1, <2>3
  <2> QED
    BY <1>4, <2>3, <2>4 DEF InOrder
<1> QED
  BY <1>4, <1>5 DEF OrderStep

\* An unchanged `order` is fine for an entry that is not newly queued.
LEMMA OrderUnchanged ==
    ASSUME PrefetchInv, NEW c \in Candidates, NEW e, UNCHANGED order,
           e.stage = "queued" => entries[c].stage = "queued"
    PROVE  OrderStep(c, e)
<1>1. order' \in Seq(Candidates)
  BY DEF PrefetchInv, PrefetchTypeOK
<1>2. \A d \in Candidates : InOrder(d) => InOrder(d)'
  BY DEF InOrder
<1>3. e.stage = "queued" => InOrder(c)
  BY DEF PrefetchInv, QueuedIsReachable, InStage, InOrder
<1> QED
  BY <1>1, <1>2, <1>3 DEF OrderStep

\* A step that writes no entry keeps the invariant.
LEMMA SameEntriesKeepInv ==
    ASSUME PrefetchInv, UNCHANGED <<entries, counters, prefetching>>,
           seen \subseteq seen', seen' \subseteq Candidates,
           \/ UNCHANGED order
           \/ NoneQueued /\ order' = <<>>
    PROVE  PrefetchInv'
<1> USE DEF PrefetchInv
<1>1. UNCHANGED <<queuedCount, reservedCount, planCount>>
  BY DEF counters
<1>2. PrefetchTypeOK'
  <2>1. order' \in Seq(Candidates)
    <3>1. <<>> \in Seq(Candidates)
      OBVIOUS
    <3> QED
      BY <3>1 DEF PrefetchTypeOK
  <2>2. entries' \in [Candidates -> Entry] /\ prefetching' \subseteq Jobs
    BY DEF PrefetchTypeOK
  <2> QED
    BY <1>1, <2>1, <2>2 DEF PrefetchTypeOK
<1>3. CountersMatchEntries' /\ PrefetchBounded'
  BY <1>1 DEF CountersMatchEntries, PrefetchBounded, InStage
<1>4. QueuedIsReachable'
  BY DEF QueuedIsReachable, NoneQueued, InStage
<1>5. /\ FetchesMatchActive' /\ ActiveCoversHints' /\ CompleteCoversHints'
      /\ FlagsOnlyWhenActive' /\ FrozenIsSeen'
  BY DEF FetchesMatchActive, ActiveCoversHints, CompleteCoversHints,
         FlagsOnlyWhenActive, FrozenIsSeen, InStage
<1> QED
  BY <1>2, <1>3, <1>4, <1>5

\* What the operations below need of the state they start in.
LEMMA StateFacts ==
    ASSUME PrefetchInv
    PROVE  /\ seen \subseteq Candidates /\ prefetching \subseteq Jobs
           /\ \A job \in prefetching : entries[job.cand].stage = "active"
           /\ planCount \in Nat /\ planCount <= NetworkQueueCapacity
           /\ reservedCount \in Nat /\ reservedCount <= NetworkLimit
           /\ NetworkQueueCapacity \in Nat /\ NetworkLimit \in Nat
BY PrefetchAssumption DEF PrefetchInv, PrefetchTypeOK, PrefetchBounded, FetchesMatchActive

\* offer of any record preserves the inductive invariant.
LEMMA OfferKeepsInv ==
    ASSUME PrefetchInv, NEW c \in Candidates, NEW r \in Record, Offer(c, r)
    PROVE  PrefetchInv'
<1>0. /\ planCount \in Nat /\ planCount <= NetworkQueueCapacity
      /\ reservedCount \in Nat /\ reservedCount <= NetworkLimit
      /\ NetworkQueueCapacity \in Nat /\ NetworkLimit \in Nat
      /\ seen \subseteq Candidates /\ prefetching \subseteq Jobs
  BY StateFacts
<1>seen. prefetching' = prefetching /\ seen' = seen
  BY DEF Offer
<1>1. CASE OfferNew(c, r)
  <2> DEFINE e == QueuedEntry(r)
  <2>1. Writes(c, e)
    BY <1>1, OfferNewWrites
  <2>2. e.stage = "queued" /\ ~e.frozen /\ ~e.upgrade
    BY QueuedEntryFields
  <2>3. OrderStep(c, e)
    BY <1>1, OrderGrows DEF OfferNew
  <2>4. /\ entries[c].stage # "active"
        /\ planCount' <= NetworkQueueCapacity /\ reservedCount' <= NetworkLimit
    BY <1>0, <1>1 DEF OfferNew
  <2> HIDE DEF e
  <2>5. FetchStep(c, e)
    BY <1>seen, <1>1, <2>2, <2>4 DEF FetchStep
  <2> QED
    BY <1>seen, <1>1, <2>1, <2>2, <2>3, <2>4, <2>5, WriteKeepsInv
<1>2. CASE OfferSkipped(c) \/ OfferLate(c)
  BY <1>2, <1>0, SameEntriesKeepInv DEF Offer, OfferSkipped, OfferLate
<1>3. CASE OfferQueued(c, r) \/ OfferCovered(c, r)
  <2> DEFINE e == Hinted(c, r, FALSE)
  <2>1. Writes(c, e)
    BY <1>3, OfferMergeWrites
  <2>2. /\ e.stage = entries[c].stage /\ e.frozen = entries[c].frozen /\ e.upgrade = FALSE
        /\ e.rel = Merge(entries[c].rel, r) /\ e.got = entries[c].got
    BY HintedFields
  <2>3. OrderStep(c, e)
    BY <1>3, <2>2, OrderUnchanged DEF OfferQueued, OfferCovered
  <2>4. entries[c].stage \in {"queued", "complete"} /\ ~entries[c].frozen
    BY <1>3, EntryFacts DEF OfferQueued, OfferCovered
  <2>5. planCount' <= NetworkQueueCapacity /\ reservedCount' <= NetworkLimit
    BY <1>0, <1>3 DEF OfferQueued, OfferCovered, counters
  <2>6. e.stage = "complete" => SelectionCovers(e.got, e.rel)
    BY <1>3, <2>2 DEF OfferQueued, OfferCovered
  <2> HIDE DEF e
  <2>7. FetchStep(c, e)
    BY <1>seen, <1>3, <2>2, <2>4 DEF FetchStep
  <2> QED
    BY <1>seen, <1>3, <2>1, <2>2, <2>3, <2>4, <2>5, <2>6, <2>7, WriteKeepsInv
<1>4. CASE OfferActive(c, r)
  <2> DEFINE e == Hinted(c, r, TRUE)
  <2>1. Writes(c, e)
    BY <1>4, OfferActiveWrites
  <2>2. e.stage = entries[c].stage /\ e.frozen = entries[c].frozen /\ e.upgrade = TRUE
    BY HintedFields
  <2>3. entries[c].stage = "active" /\ ~entries[c].frozen
    BY <1>4 DEF OfferActive
  <2>4. OrderStep(c, e)
    BY <1>4, <2>2, <2>3, OrderUnchanged DEF OfferActive
  <2>5. planCount' <= NetworkQueueCapacity /\ reservedCount' <= NetworkLimit
    BY <1>0, <1>4 DEF OfferActive, counters
  <2> HIDE DEF e
  <2>6. FetchStep(c, e)
    BY <1>seen, <1>4, <2>2, <2>3 DEF FetchStep
  <2> QED
    BY <1>seen, <1>4, <2>1, <2>2, <2>3, <2>4, <2>5, <2>6, WriteKeepsInv
<1>5. CASE OfferRequeue(c, r)
  <2> DEFINE e == QueuedEntry(Merge(entries[c].rel, r))
  <2>1. Writes(c, e)
    BY <1>5, OfferRequeueWrites
  <2>2. e.stage = "queued" /\ ~e.frozen /\ ~e.upgrade
    BY QueuedEntryFields
  <2>3. OrderStep(c, e)
    BY <1>5, OrderGrows DEF OfferRequeue
  <2>4. /\ entries[c].stage # "active"
        /\ planCount' <= NetworkQueueCapacity /\ reservedCount' <= NetworkLimit
    BY <1>0, <1>5 DEF OfferRequeue, SaturatingDec
  <2> HIDE DEF e
  <2>5. FetchStep(c, e)
    BY <1>seen, <1>5, <2>2, <2>4 DEF FetchStep
  <2> QED
    BY <1>seen, <1>5, <2>1, <2>2, <2>3, <2>4, <2>5, WriteKeepsInv
<1> QED
  BY <1>1, <1>2, <1>3, <1>4, <1>5 DEF Offer

\* pop_queued, whether it finds an id or not.
LEMMA PopKeepsInv ==
    ASSUME PrefetchInv, (\E i \in DOMAIN order : PopQueued(i)) \/ PopNone
    PROVE  PrefetchInv'
<1>0. /\ planCount \in Nat /\ planCount <= NetworkQueueCapacity
      /\ reservedCount \in Nat /\ reservedCount <= NetworkLimit
      /\ NetworkQueueCapacity \in Nat /\ NetworkLimit \in Nat
      /\ seen \subseteq Candidates /\ prefetching \subseteq Jobs
  BY StateFacts
<1>1. ASSUME NEW i \in DOMAIN order, PopQueued(i)
      PROVE  PrefetchInv'
  <2> DEFINE c == order[i]
             e == Popped(c)
  <2>1. /\ c \in Candidates /\ Writes(c, e)
        /\ e.stage = "active" /\ e.rel = entries[c].rel /\ ~e.frozen /\ ~e.upgrade
    BY <1>1, PopQueuedWrites
  <2>2. OrderStep(c, e)
    BY <1>1, <2>1, PopKeepsOrder
  <2>3. /\ entries[c].stage = "queued"
        /\ prefetching' = prefetching \cup {[cand |-> c, rec |-> entries[c].rel]}
        /\ planCount' <= NetworkQueueCapacity /\ reservedCount' <= NetworkLimit
        /\ seen' = seen
    BY <1>0, <1>1 DEF PopQueued
  <2> HIDE DEF c, e
  <2>4. FetchStep(c, e)
    BY <2>1, <2>3 DEF FetchStep
  <2> QED
    BY <2>1, <2>2, <2>3, <2>4, WriteKeepsInv
<1>2. CASE PopNone
  BY <1>2, <1>0, SameEntriesKeepInv DEF PopNone
<1> QED
  BY <1>1, <1>2

\* freeze of a candidate that is not frozen yet and that mark_seen recorded,
\* with this candidate or before.
LEMMA FreezeKeepsInv ==
    ASSUME PrefetchInv, NEW c \in Candidates, Freeze(c), ~entries[c].frozen,
           c \in seen', seen' = seen \/ seen' = seen \cup {c}
    PROVE  PrefetchInv'
<1>0. /\ planCount \in Nat /\ planCount <= NetworkQueueCapacity
      /\ reservedCount \in Nat /\ reservedCount <= NetworkLimit
      /\ NetworkQueueCapacity \in Nat /\ NetworkLimit \in Nat
      /\ seen \subseteq Candidates /\ prefetching \subseteq Jobs
  BY StateFacts
<1>1. CASE FreezeComplete(c) \/ FreezeQueued(c)
  <2>1. Writes(c, NoEntry)
    BY <1>1, RemovalWrites
  <2>2. OrderStep(c, NoEntry)
    BY <1>1, NoEntryFields, OrderUnchanged DEF FreezeComplete, FreezeQueued
  <2>3. FetchStep(c, NoEntry)
    BY <1>1, NoEntryFields DEF FetchStep, FreezeComplete, FreezeQueued
  <2>4. planCount' <= NetworkQueueCapacity /\ reservedCount' <= NetworkLimit
    BY <1>0, <1>1 DEF FreezeComplete, FreezeQueued, SaturatingDec
  <2> QED
    BY <1>1, <2>1, <2>2, <2>3, <2>4, NoEntryFields, WriteKeepsInv
<1>2. CASE FreezeActive(c)
  <2> DEFINE e == FrozenEntry(c)
  <2>2. Writes(c, e) /\ e.stage = "active" /\ e.frozen
    BY <1>2, FreezeActiveWrites
  <2>3. OrderStep(c, e)
    BY <1>2, <2>2, OrderUnchanged DEF FreezeActive
  <2>4. planCount' <= NetworkQueueCapacity /\ reservedCount' <= NetworkLimit
    BY <1>0, <1>2 DEF FreezeActive, SaturatingDec
  <2> HIDE DEF e
  <2>5. FetchStep(c, e)
    BY <1>2, <2>2 DEF FetchStep, FreezeActive
  <2> QED
    BY <1>2, <2>2, <2>3, <2>4, <2>5, WriteKeepsInv
<1>3. CASE FreezeUnknown(c)
  BY <1>3, <1>0, SameEntriesKeepInv DEF FreezeUnknown
<1> QED
  BY <1>1, <1>2, <1>3 DEF Freeze

\* finish of a fetch.
LEMMA FinishKeepsInv ==
    ASSUME PrefetchInv, NEW job \in prefetching, NEW succeeded \in BOOLEAN, Finish(job, succeeded)
    PROVE  PrefetchInv'
<1>0. /\ planCount \in Nat /\ planCount <= NetworkQueueCapacity
      /\ reservedCount \in Nat /\ reservedCount <= NetworkLimit
      /\ NetworkQueueCapacity \in Nat /\ NetworkLimit \in Nat
      /\ seen \subseteq Candidates /\ prefetching \subseteq Jobs
  BY StateFacts
<1>1. CASE FinishFrozen(job)
  <2> DEFINE c == job.cand
  <2>1. job \in Jobs /\ c \in Candidates
    BY <1>0 DEF Jobs
  <2>2. Writes(c, NoEntry)
    BY <1>1, <2>1, RemovalWrites
  <2>3. OrderStep(c, NoEntry)
    BY <1>1, <2>1, NoEntryFields, OrderUnchanged DEF FinishFrozen
  <2>4. FetchStep(c, NoEntry)
    BY <1>1, NoEntryFields DEF FetchStep, Finish
  <2>5. planCount' <= NetworkQueueCapacity /\ reservedCount' <= NetworkLimit /\ seen' = seen
    BY <1>0, <1>1 DEF Finish, FinishFrozen, SaturatingDec
  <2> QED
    BY <2>1, <2>2, <2>3, <2>4, <2>5, NoEntryFields, WriteKeepsInv
<1>2. CASE FinishRequeue(job)
  <2> DEFINE c == job.cand
             e == QueuedEntry(entries[c].rel)
  <2>1. job \in Jobs /\ entries[c].stage = "active"
    BY <1>0, StateFacts
  <2>2. c \in Candidates /\ Writes(c, e)
    BY <1>2, <2>1, FinishRequeueWrites
  <2>3. e.stage = "queued" /\ ~e.frozen /\ ~e.upgrade
    BY QueuedEntryFields
  <2>4. OrderStep(c, e)
    BY <1>2, <2>2, OrderGrows DEF FinishRequeue
  <2>5. planCount' <= NetworkQueueCapacity /\ reservedCount' <= NetworkLimit /\ seen' = seen
    BY <1>0, <1>2 DEF Finish, FinishRequeue, SaturatingDec
  <2>6. job.cand = c /\ prefetching' = prefetching \ {job}
    BY <1>2 DEF Finish
  <2> HIDE DEF c, e
  <2>7. FetchStep(c, e)
    BY <2>3, <2>6 DEF FetchStep
  <2> QED
    BY <2>2, <2>3, <2>4, <2>5, <2>7, WriteKeepsInv
<1>3. CASE FinishComplete(job, succeeded)
  <2> DEFINE c == job.cand
             e == Completed(job, succeeded)
  <2>1. job \in Jobs /\ entries[c].stage = "active"
    BY <1>0, StateFacts
  <2>2. /\ c \in Candidates /\ Writes(c, e)
        /\ e.stage = "complete" /\ e.got = job.rec /\ e.rel = entries[c].rel
        /\ ~e.frozen /\ ~e.upgrade
    BY <1>3, <2>1, FinishCompleteWrites
  <2>3. OrderStep(c, e)
    BY <1>3, <2>2, OrderUnchanged DEF FinishComplete
  <2>4. planCount' <= NetworkQueueCapacity /\ reservedCount' <= NetworkLimit /\ seen' = seen
    BY <1>0, <1>3 DEF Finish, FinishComplete, counters
  <2>5. job.cand = c /\ prefetching' = prefetching \ {job}
    BY <1>3 DEF Finish
  <2>6. SelectionCovers(job.rec, entries[c].rel)
    BY <1>3 DEF FinishComplete, PrefetchInv, ActiveCoversHints
  <2>7. SelectionCovers(e.got, e.rel)
    BY <2>2, <2>6
  <2> HIDE DEF c, e
  <2>8. FetchStep(c, e)
    BY <2>2, <2>5 DEF FetchStep
  <2> QED
    BY <2>2, <2>3, <2>4, <2>7, <2>8, WriteKeepsInv
<1> QED
  BY <1>1, <1>2, <1>3 DEF Finish

\* Every operation preserves the inductive invariant.
LEMMA NextInv ==
    ASSUME PrefetchInv, PrefetchNext
    PROVE  PrefetchInv'
<1>1. ASSUME NEW c \in Candidates \ seen, Freeze(c), seen' = seen \cup {c} PROVE PrefetchInv'
  <2>1. ~entries[c].frozen
    BY DEF PrefetchInv, FrozenIsSeen
  <2> QED
    BY <1>1, <2>1, FreezeKeepsInv
<1>2. Base \in [Candidates -> Record] /\ Exact \in [Candidates -> Record]
  BY RecordsAssumption
<1> QED
  BY <1>1, <1>2, OfferKeepsInv, PopKeepsInv, FinishKeepsInv DEF PrefetchNext

\* Every reachable state of the prefetch coordinator satisfies the inductive
\* invariant, for every set of candidates and every capacity.
THEOREM PrefetchInvariant == PrefetchSpec => []PrefetchInv
<1>1. PrefetchInit => PrefetchInv
  BY InitInv
<1>2. PrefetchInv /\ [PrefetchNext]_prefetchVars => PrefetchInv'
  <2> SUFFICES ASSUME PrefetchInv, [PrefetchNext]_prefetchVars PROVE PrefetchInv'
    OBVIOUS
  <2>1. CASE PrefetchNext
    BY <2>1, NextInv
  <2>2. CASE UNCHANGED prefetchVars
    <3>1. seen \subseteq Candidates
      BY DEF PrefetchInv, PrefetchTypeOK
    <3> QED
      BY <2>2, <3>1, SameEntriesKeepInv DEF prefetchVars, counters
  <2> QED
    BY <2>1, <2>2
<1> QED
  BY <1>1, <1>2, PTL DEF PrefetchSpec

\* Type correctness of the coordinator's state.
THEOREM PrefetchTypes == PrefetchSpec => []PrefetchTypeOK
<1>1. PrefetchInv => PrefetchTypeOK
  BY DEF PrefetchInv
<1> QED
  BY <1>1, PrefetchInvariant, PTL

\* queued_count, reserved_count and plan_count always agree with the entries:
\* no sequence of offer, pop_queued, freeze and finish makes them drift.
THEOREM CountersAreExact == PrefetchSpec => []CountersMatchEntries
<1>1. PrefetchInv => CountersMatchEntries
  BY DEF PrefetchInv
<1> QED
  BY <1>1, PrefetchInvariant, PTL

\* Whatever stale ids `order` holds, pop_queued can reach every queued entry.
THEOREM QueuedStaysReachable == PrefetchSpec => []QueuedIsReachable
<1>1. PrefetchInv => QueuedIsReachable
  BY DEF PrefetchInv
<1> QED
  BY <1>1, PrefetchInvariant, PTL

\* The plan never exceeds network_queue_capacity and the reserved slots never
\* exceed the network limit.
THEOREM PrefetchStaysBounded == PrefetchSpec => []PrefetchBounded
<1>1. PrefetchInv => PrefetchBounded
  BY DEF PrefetchInv
<1> QED
  BY <1>1, PrefetchInvariant, PTL

\* A finished prefetch always finds its entry active, and each active entry
\* has exactly one fetch.
THEOREM FetchesAreActive == PrefetchSpec => []FetchesMatchActive
<1>1. PrefetchInv => FetchesMatchActive
  BY DEF PrefetchInv
<1> QED
  BY <1>1, PrefetchInvariant, PTL

\* The evidence of a completed prefetch covers every hint merged before and
\* after its fetch.
THEOREM HintsAreCovered == PrefetchSpec => []CompleteCoversHints
<1>1. PrefetchInv => CompleteCoversHints
  BY DEF PrefetchInv
<1> QED
  BY <1>1, PrefetchInvariant, PTL

=============================================================================
