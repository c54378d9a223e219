----------------------- MODULE DedupCoordinatorProofs -----------------------
(***************************************************************************)
(* For any candidates, shards, batches, window and workers: execute_dedup   *)
(* never meets one of its own state errors, keeps its window, marks exactly *)
(* the relations of failed seeds and implements CandidateStream.  One       *)
(* induction over DedupInv, and one step lemma for the refinement.          *)
(***************************************************************************)
EXTENDS DedupCoordinator, FiniteSetTheorems, SequenceTheorems, TLAPS

\* The tracked dimensions are being queried.
Querying == phase \in {"uri", "name"}

\* Guards a query still holds.
OpenQueries == {q \in Queries : query[q] \in {"registered", "failing"}}

\* The tracker counts its open guards, and the collected seeds are those of
\* the sealed dimensions.
TrackerHolds ==
    /\ IsFiniteSet(OpenQueries) /\ inflight = Cardinality(OpenQueries)
    /\ ~Querying => \A q \in Queries : query[q] = "todo"
    /\ phase = "uri" => failedSeeds = {} /\ bitmap["name"] = {}
    /\ phase = "name" => failedSeeds = bitmap["uri"]
    /\ ~Querying => failedSeeds = bitmap["uri"] \cup bitmap["name"]

\* A batch of wave w whose result the coordinator has not taken.
Unreceived(w, x) == task[w][x] \in {"todo", "spawned"} \/ \E m \in completions : m.of = x

\* The unreceived batches of a shard.
Open(w, s) == {b \in SeedBatches : Unreceived(w, <<s, b>>)}

\* While a wave runs, pending counts the unreceived batches of every shard,
\* every other batch is in the accumulator unless one failed, and a completion
\* stands for one batch of this wave.
WaveCounts ==
    phase \in Waves =>
        /\ \A s \in Shards : pending[s] = Cardinality(Open(phase, s))
        /\ ~waveError => \A s \in Shards : SeedBatches \subseteq got[phase][s] \cup Open(phase, s)
        /\ \A m \in completions : task[phase][m.of] \in {"sent", "over"}
        /\ \A m, n \in completions : m.of = n.of => m = n

\* Before its wave a batch is not submitted; after it, it was received.
WaveOrder ==
    /\ phase \in {"uri", "name", "base"} => \A x \in Tasks : task["exact"][x] = "todo"
    /\ phase \in {"uri", "name", "base", "exact", "owner"} =>
          \A x \in Tasks : task["bm25"][x] = "todo"
    /\ phase \in {"uri", "name", "base", "owner", "release", "ok"} => completions = {}
    /\ phase \in {"owner", "bm25", "release"} =>
          /\ \A x \in Tasks : task["exact"][x] \in {"sent", "over"}
          /\ \A s \in Shards : got["exact"][s] = SeedBatches
    /\ phase \in {"release", "ok"} => \A w \in Waves, x \in Tasks : task[w][x] = "over"

\* What the running wave owes its receiver and what it has published.
Owed(c) == IF phase = "exact" THEN Exact[c] # NoRecord ELSE Owner[c] # NoShard
Published(c) == IF phase = "exact" THEN <<"exact", c>> \in hinted ELSE c \in frozen

\* A shard is published when its last batch is in, once, and not after an
\* error.
WavePublishes ==
    phase \in Waves =>
        \A c \in Candidates :
            /\ c \in outbox =>
                  Owed(c) /\ Owner[c] # NoShard /\ pending[Owner[c]] = 0 /\ ~waveError /\ ~Published(c)
            /\ Published(c) /\ Owner[c] # NoShard => pending[Owner[c]] = 0
            /\ ~waveError /\ Owed(c) /\ pending[Owner[c]] = 0 => c \in outbox \/ Published(c)

\* Only candidates with a hint are hinted, the base wave is complete before
\* the exact one, and both are before the first freeze.
HintsHold ==
    /\ Querying => hinted = {}
    /\ phase = "base" => hinted \subseteq {"base"} \X Candidates
    /\ phase = "base" =>
          \A c \in Candidates : c \in outbox <=> Base[c] # NoRecord /\ <<"base", c>> \notin hinted
    /\ \A c \in Candidates : <<"base", c>> \in hinted => Base[c] # NoRecord
    /\ \A c \in Candidates : <<"exact", c>> \in hinted => Exact[c] # NoRecord
    /\ phase = "exact" => \A c \in Candidates : Base[c] # NoRecord => <<"base", c>> \in hinted
    /\ phase \in {"owner", "bm25", "release"} => hinted = Stream!AllHints

\* Candidates without a Metadata owner are frozen first, the others in the
\* BM25 wave, and all of them before the store is released.
FreezesHold ==
    /\ phase \in {"uri", "name", "base", "exact"} => frozen = {}
    /\ phase = "owner" =>
          \A c \in Candidates :
              /\ c \in outbox <=> Owner[c] = NoShard /\ c \notin frozen
              /\ c \in frozen => Owner[c] = NoShard
    /\ phase = "bm25" => \A c \in Candidates : Owner[c] = NoShard => c \in frozen
    /\ phase = "release" => frozen = Candidates

\* Nothing is left to send outside the publishing phases, or nobody receives.
OutboxHolds ==
    /\ phase \in {"uri", "name", "release", "ok"} => outbox = {}
    /\ phase = "failed" => outbox = {} \/ ~receiver

\* What travels in the candidate channel.
Messages ==
    [kind: {"Frozen", "Prefetch"},
     recs: UNION {[S -> Record] : S \in SUBSET Candidates},
     incomplete: UNION {[S -> SUBSET Seeds] : S \in SUBSET Candidates}]

\* The channel is empty until the base wave and carries marked records.
SentHolds ==
    /\ sent \in Seq(Messages)
    /\ Querying => sent = <<>>
    /\ IncompleteMarked

\* The inductive invariant.
DedupInv ==
    /\ TypeOK /\ TrackerHolds /\ WaveCounts /\ WaveOrder /\ WavePublishes
    /\ HintsHold /\ FreezesHold /\ OutboxHolds /\ SentHolds
    /\ IsFiniteSet(completions) /\ WindowBounded /\ NoStateError

-----------------------------------------------------------------------------
(* Sets and counting. *)

\* Adding an element to a finite set, or taking one out, moves its
\* cardinality by one exactly when membership changes.
LEMMA CardinalityMoves ==
    ASSUME NEW S, IsFiniteSet(S), NEW T, NEW c,
           \A d : d # c => (d \in T <=> d \in S)
    PROVE  /\ IsFiniteSet(T)
           /\ Cardinality(T) = Cardinality(S) - (IF c \in S THEN 1 ELSE 0)
                                              + (IF c \in T THEN 1 ELSE 0)
<1>1. /\ c \in S /\ c \notin T => T = S \ {c}
      /\ c \notin S /\ c \in T => T = S \cup {c}
      /\ (c \in S <=> c \in T) => T = S
  OBVIOUS
<1> QED
  BY <1>1, FS_AddElement, FS_RemoveElement, FS_CardinalityType

\* What the assumption says of the sizes.
LEMMA Sizes ==
    /\ ShardCount \in Nat \ {0} /\ BatchCount \in Nat \ {0} /\ Window \in Nat \ {0} /\ Workers \in Nat
    /\ NoShard \notin Shards /\ \A c \in Candidates : Owner[c] # NoShard => Owner[c] \in Shards
BY DedupAssumption

\* There are finitely many batches.
LEMMA FiniteTasks ==
    IsFiniteSet(SeedBatches) /\ IsFiniteSet(Tasks) /\ IsFiniteSet(Waves \X Tasks)
<1>1. IsFiniteSet(Shards) /\ IsFiniteSet(SeedBatches)
  BY Sizes, FS_Interval DEF Shards, SeedBatches
<1>2. IsFiniteSet(Tasks)
  BY <1>1, FS_Product DEF Tasks
<1>3. IsFiniteSet(Waves)
  <2>1. Waves = {} \cup {"exact"} \cup {"bm25"}
    BY DEF Waves
  <2> QED
    BY <2>1, FS_EmptySet, FS_AddElement
<1> QED
  BY <1>1, <1>2, <1>3, FS_Product

\* A shard has BatchCount batches.
LEMMA BatchesCounted == Cardinality(SeedBatches) = BatchCount
BY Sizes, FS_Interval DEF SeedBatches

\* Two batches never have the same place in the order of submission.
LEMMA IndexInjective ==
    /\ \A x \in Tasks : Index(x) \in Nat /\ Index(x) >= 1
    /\ \A x, y \in Tasks : Index(x) = Index(y) => x = y
<1>1. ASSUME NEW n \in Nat, NEW s \in Nat, NEW t \in Nat, s < t
      PROVE  s * n + n <= t * n /\ s * n \in Nat /\ t * n \in Nat
  <2>1. PICK d \in Nat : t = s + 1 + d
    <3>1. t - s - 1 \in Nat /\ t = s + 1 + (t - s - 1)
      BY <1>1
    <3> QED
      BY <3>1
  <2>2. t * n = s * n + n + d * n /\ d * n \in Nat
    BY <2>1
  <2>3. s * n \in Nat /\ t * n \in Nat
    OBVIOUS
  <2> QED
    BY <2>2, <2>3
<1>2. ASSUME NEW n \in Nat, NEW s \in Nat PROVE s * n \in Nat
  OBVIOUS
<1>3. ASSUME NEW x \in Tasks
      PROVE  /\ x[1] - 1 \in Nat /\ x[2] \in 1 .. BatchCount /\ x = <<x[1], x[2]>>
             /\ (x[1] - 1) * BatchCount \in Nat
             /\ Index(x) = (x[1] - 1) * BatchCount + x[2]
  <2>1. x[1] - 1 \in Nat /\ x[2] \in 1 .. BatchCount /\ x = <<x[1], x[2]>>
    <3>1. x[1] \in 1 .. ShardCount /\ x[2] \in 1 .. BatchCount /\ x = <<x[1], x[2]>>
      BY DEF Tasks, Shards, SeedBatches
    <3> QED
      BY <3>1, Sizes
  <2> QED
    BY <1>2, <2>1, Sizes DEF Index
<1>4. ASSUME NEW x \in Tasks, NEW y \in Tasks, x[1] < y[1] PROVE Index(x) < Index(y)
  <2>1. PICK s \in Nat : s = x[1] - 1
    BY <1>3
  <2>2. PICK t \in Nat : t = y[1] - 1
    BY <1>3
  <2>3. x[1] \in Int /\ y[1] \in Int
    BY DEF Tasks, Shards
  <2>4. s < t
    BY <1>4, <2>1, <2>2, <2>3
  <2>5. s * BatchCount + BatchCount <= t * BatchCount
    BY <1>1, <2>4, Sizes
  <2>6. Index(x) = s * BatchCount + x[2] /\ Index(y) = t * BatchCount + y[2]
    BY <1>3, <2>1, <2>2
  <2>7. x[2] \in 1 .. BatchCount /\ y[2] \in 1 .. BatchCount
    BY <1>3
  <2>8. s * BatchCount \in Nat /\ t * BatchCount \in Nat
    BY <1>2, Sizes
  <2> QED
    BY <2>5, <2>6, <2>7, <2>8, Sizes
<1>5. \A x \in Tasks : Index(x) \in Nat /\ Index(x) >= 1
  BY <1>3, Sizes
<1>6. ASSUME NEW x \in Tasks, NEW y \in Tasks, Index(x) = Index(y) PROVE x = y
  <2>1. x[1] \in Int /\ y[1] \in Int
    BY DEF Tasks, Shards
  <2>2. x[1] = y[1]
    BY <1>4, <1>5, <1>6, <2>1
  <2>3. x[2] = y[2]
    <3>1. PICK n \in Nat : n = (x[1] - 1) * BatchCount
      BY <1>3
    <3>2. Index(x) = n + x[2] /\ Index(y) = n + y[2]
      BY <1>3, <2>2, <3>1
    <3>3. PICK i \in Nat : i = x[2]
      BY <1>3, Sizes
    <3>4. PICK j \in Nat : j = y[2]
      BY <1>3, Sizes
    <3>5. n + i = n + j
      BY <1>6, <3>2, <3>3, <3>4
    <3>6. i = j
      BY <3>5
    <3> QED
      BY <3>3, <3>4, <3>6
  <2> QED
    BY <1>3, <2>2, <2>3
<1> QED
  BY <1>5, <1>6

\* The first Window batches are at most Window.
LEMMA FirstBatches ==
    ASSUME NEW w \in Waves
    PROVE  /\ IsFiniteSet({y \in {w} \X Tasks : Index(y[2]) <= Window})
           /\ Cardinality({y \in {w} \X Tasks : Index(y[2]) <= Window}) <= Window
<1> DEFINE S == {y \in {w} \X Tasks : Index(y[2]) <= Window}
           f == [y \in S |-> Index(y[2])]
<1>1. IsFiniteSet(1 .. Window) /\ Cardinality(1 .. Window) = Window
  BY Sizes, FS_Interval
<1>2. f \in Injection(S, 1 .. Window)
  <2>1. \A y \in S : f[y] \in 1 .. Window
    BY IndexInjective, Sizes
  <2>2. ASSUME NEW y \in S, NEW z \in S, f[y] = f[z] PROVE y = z
    <3>1. y[2] \in Tasks /\ z[2] \in Tasks /\ y = <<w, y[2]>> /\ z = <<w, z[2]>>
      OBVIOUS
    <3>2. y[2] = z[2]
      BY <2>2, <3>1, IndexInjective
    <3> QED
      BY <3>1, <3>2
  <2> QED
    BY <2>1, <2>2 DEF Injection, IsInjective
<1>3. IsFiniteSet(S)
  <2>1. S \subseteq Waves \X Tasks
    OBVIOUS
  <2> QED
    BY <2>1, FiniteTasks, FS_Subset
<1> QED
  BY <1>1, <1>2, <1>3, FS_Injection

-----------------------------------------------------------------------------
(* Records. *)

\* Joined records are records.
LEMMA JoinType ==
    ASSUME NEW R \in SUBSET Record
    PROVE  JoinAll(R) \in Record
BY DEF JoinAll, Record

\* Merged records are records.
LEMMA MergeType ==
    ASSUME NEW a \in Record, NEW b \in Record
    PROVE  Merge(a, b) \in Record
BY DEF Merge, Record

\* A shard whose batches are all in has accumulated the whole wave.
LEMMA AccumulatedAll ==
    ASSUME NEW g, NEW c \in Candidates, NEW w \in Waves,
           Owner[c] # NoShard => g[w][Owner[c]] = SeedBatches
    PROVE  Accumulated(g, w, c) = IF w = "exact" THEN Exact[c] ELSE Bm25[c]
<1>1. CASE Owner[c] = NoShard
  BY <1>1, DedupAssumption DEF Accumulated
<1>2. CASE Owner[c] # NoShard
  <2>1. g[w][Owner[c]] = SeedBatches
    BY <1>2
  <2> DEFINE src == IF w = "exact" THEN ExactOf ELSE Bm25Of
             R == {src[b][c] : b \in SeedBatches}
  <2>2. Accumulated(g, w, c) = JoinAll(R)
    BY <1>2, <2>1 DEF Accumulated
  <2>3. R = IF w = "exact" THEN {ExactOf[b][c] : b \in SeedBatches}
            ELSE {Bm25Of[b][c] : b \in SeedBatches}
    BY DEF Waves
  <2> HIDE DEF R
  <2> QED
    BY <2>2, <2>3, DedupAssumption
<1> QED
  BY <1>1, <1>2

\* An accumulator holds records.
LEMMA AccumulatedType ==
    ASSUME TypeOK, NEW c \in Candidates, NEW w \in Waves
    PROVE  Accumulated(got, w, c) \in Record
<1>1. CASE Owner[c] = NoShard
  BY <1>1 DEF Accumulated, NoRecord, Record
<1>2. CASE Owner[c] # NoShard
  <2> DEFINE src == IF w = "exact" THEN ExactOf ELSE Bm25Of
             R == {src[b][c] : b \in got[w][Owner[c]]}
  <2>1. got[w][Owner[c]] \subseteq SeedBatches
    BY <1>2, Sizes DEF TypeOK
  <2>2. R \subseteq Record
    BY <2>1, DedupAssumption
  <2>3. Accumulated(got, w, c) = JoinAll(R)
    BY <1>2 DEF Accumulated
  <2> HIDE DEF R
  <2> QED
    BY <2>2, <2>3, JoinType
<1> QED
  BY <1>1, <1>2

\* What is published is a record.
LEMMA HoldType ==
    ASSUME TypeOK, NEW c \in Candidates
    PROVE  Hold(c) \in Record
<1>1. Base[c] \in Record
  BY RecordsAssumption
<1>2. Accumulated(got, "exact", c) \in Record /\ Accumulated(got, "bm25", c) \in Record
  BY AccumulatedType DEF Waves
<1> QED
  BY <1>1, <1>2, MergeType DEF Hold, Relations

\* The passes may be merged in the order of the code.
LEMMA FinalIs ==
    ASSUME NEW c \in Candidates
    PROVE  /\ Merge(Base[c], Merge(Exact[c], Bm25[c])) = Final(c)
           /\ Final(c) \in Record /\ Final(c) # NoRecord
<1>1. Base[c] \in Record /\ Exact[c] \in Record /\ Bm25[c] \in Record
  BY RecordsAssumption
<1>2. Merge(Base[c], Merge(Exact[c], Bm25[c])) = Merge(Merge(Base[c], Exact[c]), Bm25[c])
  BY <1>1 DEF Merge, Record
<1> QED
  BY <1>1, <1>2, MergeType, DedupAssumption DEF Final

\* An empty count is an empty set.
LEMMA OpenEmpty ==
    ASSUME NEW w, NEW s
    PROVE  /\ IsFiniteSet(Open(w, s)) /\ Cardinality(Open(w, s)) \in Nat
           /\ Cardinality(Open(w, s)) = 0 <=> Open(w, s) = {}
<1>1. Open(w, s) \subseteq SeedBatches
  BY DEF Open
<1> QED
  BY <1>1, FiniteTasks, FS_Subset, FS_CardinalityType, FS_EmptySet

\* What is published is complete: the hint of the phase, or the final record.
LEMMA HoldIs ==
    ASSUME DedupInv, NEW c \in outbox
    PROVE  /\ phase = "base" => Hold(c) = Base[c]
           /\ phase = "exact" => Hold(c) = Exact[c]
           /\ phase \in {"owner", "bm25"} => Hold(c) = Final(c)
<1>0. c \in Candidates
  BY DEF DedupInv, TypeOK
<1>1. ASSUME phase \in Waves, Owner[c] # NoShard PROVE got[phase][Owner[c]] = SeedBatches
  <2>1. pending[Owner[c]] = 0 /\ ~waveError /\ Owner[c] \in Shards
    BY <1>0, <1>1, Sizes DEF DedupInv, WavePublishes
  <2>2. Open(phase, Owner[c]) = {}
    BY <1>1, <2>1, OpenEmpty DEF DedupInv, WaveCounts
  <2>3. got[phase][Owner[c]] \subseteq SeedBatches
    BY <1>1, <2>1 DEF DedupInv, TypeOK
  <2> QED
    BY <1>1, <2>1, <2>2, <2>3 DEF DedupInv, WaveCounts
<1>2. CASE phase = "base"
  BY <1>2 DEF Hold
<1>3. CASE phase = "exact"
  <2>1. Accumulated(got, "exact", c) = Exact[c]
    BY <1>0, <1>1, <1>3, AccumulatedAll DEF Waves
  <2> QED
    BY <1>3, <2>1 DEF Hold, Relations
<1>4. CASE phase \in {"owner", "bm25"}
  <2>1. Owner[c] # NoShard => got["exact"][Owner[c]] = SeedBatches
    BY <1>0, <1>4, Sizes DEF DedupInv, WaveOrder
  <2>2. Accumulated(got, "exact", c) = Exact[c]
    BY <1>0, <2>1, AccumulatedAll DEF Waves
  <2>3. Owner[c] # NoShard => got["bm25"][Owner[c]] = SeedBatches
    <3>1. CASE phase = "owner"
      BY <1>0, <3>1 DEF DedupInv, FreezesHold
    <3>2. CASE phase = "bm25"
      BY <1>1, <3>2 DEF Waves
    <3> QED
      BY <1>4, <3>1, <3>2
  <2>4. Accumulated(got, "bm25", c) = Bm25[c]
    BY <1>0, <2>3, AccumulatedAll DEF Waves
  <2> QED
    BY <1>0, <1>4, <2>2, <2>4, FinalIs DEF Hold, Relations
<1> QED
  BY <1>2, <1>3, <1>4

-----------------------------------------------------------------------------
\* The invariant holds at the start.
LEMMA DedupInitially == Init => DedupInv
<1> SUFFICES ASSUME Init PROVE DedupInv
  OBVIOUS
<1>1. TypeOK
  BY DEF Init, TypeOK
<1>2. OpenQueries = {} /\ Submitted = {} /\ completions = {}
  BY DEF Init, OpenQueries, Submitted, Waves
<1>3. TrackerHolds
  BY <1>2, FS_EmptySet DEF Init, TrackerHolds, Querying, Dimensions
<1>4. WaveCounts /\ WaveOrder /\ WavePublishes
  BY DEF Init, WaveCounts, WaveOrder, WavePublishes, Waves
<1>5. HintsHold /\ FreezesHold /\ OutboxHolds
  BY DEF Init, HintsHold, FreezesHold, OutboxHolds
<1>6. SentHolds
  BY DEF Init, SentHolds, IncompleteMarked
<1>7. IsFiniteSet(completions) /\ WindowBounded /\ NoStateError
  BY <1>2, FS_EmptySet, Sizes DEF Init, WindowBounded, NoStateError
<1> QED
  BY <1>1, <1>3, <1>4, <1>5, <1>6, <1>7 DEF DedupInv

-----------------------------------------------------------------------------
(* Frames: what a step that leaves a part alone keeps. *)

\* A step outside the waves keeps their counts.
LEMMA WaveFrame ==
    ASSUME DedupInv, UNCHANGED waveVars
    PROVE  /\ WindowBounded' /\ IsFiniteSet(completions')
           /\ (phase' = phase \/ phase' \notin Waves => WaveCounts')
           /\ phase' = phase \/ phase' = "failed" => WaveOrder'
<1>1. UNCHANGED <<task, completions, pending, got, waveError>>
  BY DEF waveVars
<1>2. Submitted' = Submitted
  BY <1>1 DEF Submitted
<1>3. ASSUME phase' = phase PROVE \A s : Open(phase, s)' = Open(phase, s)
  BY <1>1, <1>3 DEF Open, Unreceived
<1> QED
  BY <1>1, <1>2, <1>3 DEF DedupInv, WindowBounded, WaveCounts, WaveOrder

\* A step that publishes nothing keeps what is published.
LEMMA StreamFrame ==
    ASSUME DedupInv, UNCHANGED <<pending, waveError, outbox, hinted, frozen>>,
           phase' = phase \/ phase' = "failed"
    PROVE  WavePublishes' /\ HintsHold' /\ FreezesHold'
<1>1. CASE phase' = phase
  <2>1. Stream!AllHints' = Stream!AllHints
    BY DEF Stream!AllHints, Stream!Hintable, Stream!Hint
  <2> QED
    BY <1>1, <2>1 DEF DedupInv, WavePublishes, Owed, Published, HintsHold, Querying, FreezesHold
<1>2. CASE phase' = "failed"
  BY <1>2 DEF DedupInv, WavePublishes, HintsHold, Querying, FreezesHold, Waves
<1> QED
  BY <1>1, <1>2

\* A step outside the queries keeps the tracker.
LEMMA TrackerFrame ==
    ASSUME DedupInv, UNCHANGED trackerVars, phase' = phase \/ (~Querying /\ ~Querying')
    PROVE  TrackerHolds'
<1>1. UNCHANGED <<query, inflight, bitmap, failedSeeds>>
  BY DEF trackerVars
<1>2. OpenQueries' = OpenQueries
  BY <1>1 DEF OpenQueries
<1> QED
  BY <1>1, <1>2 DEF DedupInv, TrackerHolds, Querying

\* A step that sends nothing keeps the channel.
LEMMA SentFrame ==
    ASSUME DedupInv, UNCHANGED <<sent, bitmap>>, phase' = phase \/ ~Querying'
    PROVE  SentHolds'
<1>1. IncompleteMarked'
  BY DEF DedupInv, SentHolds, IncompleteMarked, Final
<1> QED
  BY <1>1 DEF DedupInv, SentHolds, Querying, Messages

-----------------------------------------------------------------------------
\* A query of the tracked dimensions.
LEMMA QueryKeepsInv ==
    ASSUME DedupInv, NEW q \in Queries, Query(q)
    PROVE  DedupInv'
<1>1. /\ UNCHANGED <<phase, failedSeeds, task, completions, pending, got, waveError, outbox, sent,
                     hinted, frozen, receiver, stateError>>
      /\ UNCHANGED waveVars
  BY DEF Query, RegisterSeedBatch, QuerySucceeds, QueryPanics, DropGuard, waveVars, streamVars
<1>2. /\ query \in [Queries -> {"todo", "registered", "failing", "over"}]
      /\ bitmap \in [Dimensions -> SUBSET Seeds] /\ inflight \in Nat
      /\ IsFiniteSet(OpenQueries) /\ inflight = Cardinality(OpenQueries)
  BY DEF DedupInv, TypeOK, TrackerHolds
<1>3. Querying
  BY DEF Query, RegisterSeedBatch, QuerySucceeds, QueryPanics, DropGuard, Querying, DedupInv,
     TrackerHolds
<1>4. PICK v \in {"registered", "failing", "over"} : query' = [query EXCEPT ![q] = v]
  BY DEF Query, RegisterSeedBatch, QuerySucceeds, QueryPanics, DropGuard
<1>5. /\ query' \in [Queries -> {"todo", "registered", "failing", "over"}]
      /\ \A p \in Queries : query'[p] = IF p = q THEN v ELSE query[p]
  BY <1>2, <1>4
<1>6. inflight' = inflight - (IF query[q] \in {"registered", "failing"} THEN 1 ELSE 0)
                           + (IF v \in {"registered", "failing"} THEN 1 ELSE 0)
  <2>1. v = query'[q]
    BY <1>5
  <2> QED
    BY <1>2, <2>1 DEF Query, RegisterSeedBatch, QuerySucceeds, QueryPanics, DropGuard
<1>7. /\ IsFiniteSet(OpenQueries')
      /\ Cardinality(OpenQueries') = Cardinality(OpenQueries)
            - (IF q \in OpenQueries THEN 1 ELSE 0) + (IF q \in OpenQueries' THEN 1 ELSE 0)
  <2>1. \A p : p # q => (p \in OpenQueries' <=> p \in OpenQueries)
    BY <1>5 DEF OpenQueries
  <2> QED
    BY <1>2, <2>1, CardinalityMoves
<1>8. inflight' = Cardinality(OpenQueries')
  BY <1>2, <1>5, <1>6, <1>7 DEF OpenQueries
<1>9. /\ bitmap' = bitmap \/ bitmap' = [bitmap EXCEPT ![phase] = @ \cup {q[1]}]
      /\ q[1] \in Seeds
  BY DEF Query, RegisterSeedBatch, QuerySucceeds, QueryPanics, DropGuard, Queries
<1>10. /\ bitmap' \in [Dimensions -> SUBSET Seeds]
       /\ \A d \in Dimensions : d # phase => bitmap'[d] = bitmap[d]
  BY <1>2, <1>9
<1>11. TrackerHolds'
  BY <1>1, <1>3, <1>7, <1>8, <1>10 DEF DedupInv, TrackerHolds, Querying, Dimensions
<1>12. inflight' \in Nat
  BY <1>7, <1>8, FS_CardinalityType
<1>13. TypeOK'
  BY <1>1, <1>5, <1>10, <1>12 DEF DedupInv, TypeOK
<1>14. SentHolds'
  <2>1. sent' = <<>>
    BY <1>1, <1>3 DEF DedupInv, SentHolds
  <2> QED
    BY <2>1 DEF SentHolds, IncompleteMarked
<1> QED
  BY <1>1, <1>11, <1>13, <1>14, WaveFrame, StreamFrame DEF DedupInv, OutboxHolds, NoStateError

\* A tracker is quiescent when it is sealed.
LEMMA SealKeepsInv ==
    ASSUME DedupInv, Seal
    PROVE  DedupInv'
<1>1. /\ Querying /\ \A q \in Queries : query[q] = "over"
      /\ UNCHANGED <<waveVars, sent, hinted, frozen, receiver>>
  BY DEF Seal, Joined, Querying
<1>w. UNCHANGED <<task, completions, pending, got, waveError>>
  BY <1>1 DEF waveVars
<1>2. OpenQueries = {}
  BY <1>1 DEF OpenQueries
<1>3. inflight = 0
  BY <1>2, FS_EmptySet DEF DedupInv, TrackerHolds
<1>4. /\ phase' = IF phase = "uri" THEN "name" ELSE "base"
      /\ failedSeeds' = failedSeeds \cup bitmap[phase]
      /\ query' = [q \in Queries |-> "todo"]
      /\ outbox' = IF phase = "name" THEN {c \in Candidates : Base[c] # NoRecord} ELSE {}
      /\ UNCHANGED <<inflight, bitmap, stateError>>
  BY <1>3 DEF Seal, Collected
<1>5. OpenQueries' = {}
  BY <1>4 DEF OpenQueries
<1>6. TrackerHolds'
  BY <1>1, <1>3, <1>4, <1>5, FS_EmptySet DEF DedupInv, TrackerHolds, Querying
<1>7. TypeOK'
  <2>1. failedSeeds' \subseteq Seeds
    BY <1>1, <1>4 DEF DedupInv, TypeOK, Querying, Dimensions
  <2> QED
    BY <1>1, <1>w, <1>4, <2>1 DEF DedupInv, TypeOK
<1>8. hinted = {} /\ frozen = {} /\ sent = <<>>
  BY <1>1 DEF DedupInv, HintsHold, FreezesHold, SentHolds, Querying
<1>9. WaveCounts' /\ WaveOrder' /\ WavePublishes'
  BY <1>1, <1>w, <1>4 DEF DedupInv, WaveCounts, WaveOrder, WavePublishes, Querying, Waves
<1>10. HintsHold' /\ FreezesHold' /\ OutboxHolds'
  BY <1>1, <1>4, <1>8 DEF HintsHold, FreezesHold, OutboxHolds, Querying
<1>11. SentHolds'
  BY <1>1, <1>8 DEF SentHolds, IncompleteMarked
<1> QED
  BY <1>1, <1>4, <1>6, <1>7, <1>9, <1>10, <1>11, WaveFrame DEF DedupInv, NoStateError

\* The pipeline goes away, the coordinator gives up or has returned.
LEMMA QuietKeepsInv ==
    ASSUME DedupInv, UNCHANGED <<trackerVars, waveVars, outbox, sent, hinted, frozen, stateError>>,
           phase' = phase \/ phase' = "failed",
           phase' = "failed" => phase = "failed" \/ (~Querying /\ (outbox = {} \/ ~receiver)),
           receiver' = receiver \/ receiver' = FALSE
    PROVE  DedupInv'
<1>1. UNCHANGED <<query, inflight, bitmap, failedSeeds, task, completions, pending, got, waveError>>
  BY DEF trackerVars, waveVars
<1>2. TypeOK'
  <2>1. receiver' \in BOOLEAN
    BY Zenon DEF DedupInv, TypeOK
  <2> QED
    BY <1>1, <2>1 DEF DedupInv, TypeOK
<1>3. phase' = phase \/ (~Querying /\ ~Querying')
  BY DEF Querying
<1>4. TrackerHolds' /\ SentHolds'
  BY <1>1, <1>3, TrackerFrame, SentFrame DEF Querying
<1>5. WaveCounts' /\ WaveOrder' /\ WindowBounded' /\ IsFiniteSet(completions')
  <2>1. phase' = phase \/ phase' \notin Waves
    BY DEF Waves
  <2> QED
    BY <2>1, WaveFrame
<1>6. WavePublishes' /\ HintsHold' /\ FreezesHold'
  BY <1>1, StreamFrame
<1>7. OutboxHolds'
  <2>1. phase' \in {"uri", "name", "release", "ok"} => phase' = phase
    OBVIOUS
  <2>2. phase' \in {"uri", "name", "release", "ok"} => outbox' = {}
    BY <2>1 DEF DedupInv, OutboxHolds
  <2>3. ASSUME phase' = "failed" PROVE outbox' = {} \/ ~receiver'
    <3>1. outbox = {} \/ ~receiver
      BY <2>3 DEF DedupInv, OutboxHolds
    <3>2. ~receiver => ~receiver'
      BY Zenon
    <3> QED
      BY <3>1, <3>2
  <2> QED
    BY <2>2, <2>3 DEF OutboxHolds
<1> QED
  BY <1>2, <1>4, <1>5, <1>6, <1>7 DEF DedupInv, NoStateError

-----------------------------------------------------------------------------
(* The channel. *)

\* Something is sent in the publishing phases only.
LEMMA SendingPhases ==
    ASSUME DedupInv, outbox # {}, receiver
    PROVE  phase \in {"base", "exact", "owner", "bm25"}
BY DEF DedupInv, OutboxHolds, TypeOK

\* A message carries complete records and the marks of the failed seeds.
LEMMA MessageIs ==
    ASSUME DedupInv, receiver, NEW S, S \subseteq outbox, S # {}
    PROVE  /\ Message(S) \in Messages
           /\ Message(S).kind = IF Freezing THEN "Frozen" ELSE "Prefetch"
           /\ Message(S).recs = [c \in S |-> Hold(c)]
           /\ Freezing =>
                \A c \in S : Message(S).incomplete[c] =
                                Final(c).seeds \cap (bitmap["uri"] \cup bitmap["name"])
<1>1. S \in SUBSET Candidates /\ failedSeeds \subseteq Seeds
  BY DEF DedupInv, TypeOK
<1>2. [c \in S |-> Hold(c)] \in [S -> Record]
  BY <1>1, HoldType DEF DedupInv
<1>3. [c \in S |-> Marked(c)] \in [S -> SUBSET Seeds]
  BY <1>1 DEF Marked
<1>4. Message(S) \in Messages
  BY <1>1, <1>2, <1>3 DEF Message, Messages
<1>5. ASSUME Freezing, NEW c \in S
      PROVE  Marked(c) = Final(c).seeds \cap (bitmap["uri"] \cup bitmap["name"])
  <2>1. phase \in {"owner", "bm25"} /\ failedSeeds = bitmap["uri"] \cup bitmap["name"]
    BY <1>5 DEF Freezing, DedupInv, TrackerHolds, Querying
  <2>2. Hold(c) = Final(c)
    BY <2>1, HoldIs
  <2> QED
    BY <1>5, <2>1, <2>2 DEF Marked
<1> QED
  BY <1>4, <1>5 DEF Message

\* One blocking_send moves a batch from the outbox to the published ones.
LEMMA SendKeepsInv ==
    ASSUME DedupInv, NEW S \in SUBSET Candidates, SendBatch(S)
    PROVE  DedupInv'
<1>1. /\ receiver /\ S \subseteq outbox /\ S # {}
      /\ sent' = Append(sent, Message(S)) /\ outbox' = outbox \ S
      /\ IF Freezing
         THEN frozen' = frozen \cup S /\ UNCHANGED hinted
         ELSE hinted' = hinted \cup ({phase} \X S) /\ UNCHANGED frozen
      /\ UNCHANGED <<phase, trackerVars, waveVars, receiver, stateError>>
  BY DEF SendBatch, Chunk
<1>2. UNCHANGED <<query, inflight, bitmap, failedSeeds, task, completions, pending, got, waveError>>
  BY <1>1 DEF trackerVars, waveVars
<1>3. phase \in {"base", "exact", "owner", "bm25"} /\ outbox \subseteq Candidates
  BY <1>1, SendingPhases DEF DedupInv, TypeOK
<1>4. Freezing <=> phase \in {"owner", "bm25"}
  BY DEF Freezing
<1>5. TypeOK'
  <2>1. hinted' \subseteq {"base", "exact"} \X Candidates /\ frozen' \subseteq Candidates
    BY <1>1, <1>3, <1>4 DEF DedupInv, TypeOK
  <2> QED
    BY <1>1, <1>2, <2>1 DEF DedupInv, TypeOK
<1>6. SentHolds'
  <2>0. /\ Message(S) \in Messages
        /\ Message(S).kind = IF Freezing THEN "Frozen" ELSE "Prefetch"
        /\ Message(S).recs = [c \in S |-> Hold(c)]
        /\ Freezing =>
             \A c \in S : Message(S).incomplete[c] =
                             Final(c).seeds \cap (bitmap["uri"] \cup bitmap["name"])
    BY <1>1, MessageIs
  <2>1. sent \in Seq(Messages) /\ Message(S) \in Messages
    BY <2>0 DEF DedupInv, SentHolds
  <2>2. /\ sent' \in Seq(Messages) /\ DOMAIN sent' = 1 .. Len(sent) + 1
        /\ DOMAIN sent = 1 .. Len(sent) /\ Len(sent) \in Nat
        /\ \A i \in DOMAIN sent : sent'[i] = sent[i]
        /\ sent'[Len(sent) + 1] = Message(S)
    BY <1>1, <2>1
  <2>3. ASSUME NEW i \in DOMAIN sent', sent'[i].kind = "Frozen", NEW c \in DOMAIN sent'[i].recs
        PROVE  sent'[i].incomplete[c] = Final(c).seeds \cap (bitmap["uri"] \cup bitmap["name"])
    <3>1. CASE i \in DOMAIN sent
      BY <2>2, <2>3, <3>1 DEF DedupInv, SentHolds, IncompleteMarked
    <3>2. CASE i \notin DOMAIN sent
      <4>1. i = Len(sent) + 1
        BY <2>2, <3>2
      <4>2. sent'[i] = Message(S)
        BY <2>2, <4>1
      <4>3. Freezing /\ c \in S
        BY <2>0, <2>3, <4>2
      <4> QED
        BY <2>0, <4>2, <4>3
    <3> QED
      BY <3>1, <3>2
  <2>4. IncompleteMarked'
    BY <1>2, <2>3 DEF IncompleteMarked, Final
  <2> QED
    BY <1>1, <1>3, <2>2, <2>4 DEF SentHolds, Querying, Messages
<1>7. Stream!AllHints' = Stream!AllHints
  BY DEF Stream!AllHints, Stream!Hintable, Stream!Hint
<1>8. WavePublishes'
  <2>1. CASE phase = "exact"
    <3>1. \A c : <<"exact", c>> \in hinted' <=> <<"exact", c>> \in hinted \/ c \in S
      BY <1>1, <1>4, <2>1
    <3>2. \A c : Published(c)' <=> Published(c) \/ c \in S
      BY <1>1, <2>1, <3>1 DEF Published
    <3> QED
      BY <1>1, <1>2, <1>3, <2>1, <3>2 DEF DedupInv, WavePublishes, Owed, Waves
  <2>2. CASE phase = "bm25"
    BY <1>1, <1>2, <1>3, <1>4, <2>2 DEF DedupInv, WavePublishes, Owed, Published, Waves
  <2> QED
    BY <1>1, <1>3, <2>1, <2>2 DEF WavePublishes, Waves
<1>9. HintsHold'
  <2>1. CASE phase = "base"
    BY <1>1, <1>3, <1>4, <2>1 DEF DedupInv, HintsHold, Querying
  <2>2. CASE phase = "exact"
    <3>1. \A c \in S : Exact[c] # NoRecord
      BY <1>1, <1>3, <2>2 DEF DedupInv, WavePublishes, Owed, Waves
    <3> QED
      BY <1>1, <1>3, <1>4, <2>2, <3>1 DEF DedupInv, HintsHold, Querying
  <2>3. CASE phase \in {"owner", "bm25"}
    BY <1>1, <1>4, <1>7, <2>3 DEF DedupInv, HintsHold, Querying
  <2> QED
    BY <1>3, <2>1, <2>2, <2>3
<1>10. FreezesHold'
  BY <1>1, <1>3, <1>4 DEF DedupInv, FreezesHold
<1>11. OutboxHolds'
  BY <1>1, <1>3 DEF OutboxHolds
<1>12. TrackerHolds'
  BY <1>1, TrackerFrame
<1> QED
  BY <1>1, <1>5, <1>6, <1>8, <1>9, <1>10, <1>11, <1>12, WaveFrame DEF DedupInv, NoStateError

\* The pipeline takes a message.
LEMMA ReceiveKeepsInv ==
    ASSUME DedupInv, Receive
    PROVE  DedupInv'
<1>1. /\ sent # <<>> /\ sent' = Tail(sent)
      /\ UNCHANGED <<phase, trackerVars, waveVars, outbox, hinted, frozen, receiver, stateError>>
  BY DEF Receive
<1>2. UNCHANGED <<query, inflight, bitmap, failedSeeds, task, completions, pending, got, waveError>>
  BY <1>1 DEF trackerVars, waveVars
<1>3. sent \in Seq(Messages) /\ ~Querying
  BY <1>1 DEF DedupInv, SentHolds
<1>4. /\ sent' \in Seq(Messages) /\ \A i \in DOMAIN sent' : i + 1 \in DOMAIN sent /\ sent'[i] = sent[i + 1]
  BY <1>1, <1>3
<1>5. SentHolds'
  <2>1. IncompleteMarked'
    BY <1>2, <1>4 DEF DedupInv, SentHolds, IncompleteMarked, Final
  <2> QED
    BY <1>1, <1>3, <1>4, <2>1 DEF SentHolds, Querying, Messages
<1>6. TypeOK' /\ OutboxHolds'
  BY <1>1, <1>2 DEF DedupInv, TypeOK, OutboxHolds
<1> QED
  BY <1>1, <1>2, <1>5, <1>6, TrackerFrame, WaveFrame, StreamFrame DEF DedupInv, NoStateError

-----------------------------------------------------------------------------
(* The waves. *)

\* The window is filled from the start of an empty executor.
LEMMA StartKeepsInv ==
    ASSUME DedupInv, NEW w \in Waves, StartWave(w)
    PROVE  DedupInv'
<1>1. /\ phase = IF w = "exact" THEN "base" ELSE "owner"
      /\ outbox = {} /\ phase' = w
      /\ pending' = [s \in Shards |-> BatchCount] /\ waveError' = FALSE
      /\ task' = [task EXCEPT ![w] =
                    [x \in Tasks |-> IF Index(x) <= Window THEN "spawned" ELSE "todo"]]
      /\ UNCHANGED <<trackerVars, completions, got, outbox, sent, hinted, frozen, receiver, stateError>>
  BY DEF StartWave, streamVars
<1>2. UNCHANGED <<query, inflight, bitmap, failedSeeds>>
  BY <1>1 DEF trackerVars
<1>3. /\ task \in [Waves -> [Tasks -> {"todo", "spawned", "sent", "over"}]]
      /\ completions = {} /\ phase \in {"base", "owner"}
  BY <1>1 DEF DedupInv, TypeOK, WaveOrder
<1>4. /\ \A x \in Tasks : task'[w][x] = IF Index(x) <= Window THEN "spawned" ELSE "todo"
      /\ \A v \in Waves : v # w => task'[v] = task[v]
      /\ task' \in [Waves -> [Tasks -> {"todo", "spawned", "sent", "over"}]]
  BY <1>1, <1>3
<1>5. \A s \in Shards : pending'[s] = BatchCount /\ BatchCount \in Nat /\ BatchCount # 0
  BY <1>1, Sizes
<1>6. TypeOK'
  <2>1. pending' \in [Shards -> Nat] /\ phase' \in {"exact", "bm25"} /\ waveError' \in BOOLEAN
    BY <1>1, Sizes DEF Waves
  <2> QED
    BY <1>1, <1>2, <1>4, <2>1 DEF DedupInv, TypeOK
<1>7. WaveCounts'
  <2>1. ASSUME NEW s \in Shards PROVE Open(phase, s)' = SeedBatches
    <3>1. \A b \in SeedBatches : task'[w][<<s, b>>] \in {"todo", "spawned"}
      BY <1>4 DEF Tasks
    <3> QED
      BY <1>1, <3>1 DEF Open, Unreceived
  <2> QED
    BY <1>1, <1>3, <1>5, <2>1, BatchesCounted DEF WaveCounts
<1>8. WaveOrder'
  BY <1>1, <1>3, <1>4 DEF DedupInv, WaveOrder, Waves
<1>9. WavePublishes'
  <2>1. ASSUME NEW c \in Candidates PROVE Owner[c] # NoShard => pending'[Owner[c]] # 0
    BY <1>5, Sizes
  <2>2. \A c \in Candidates : Owed(c)' => Owner[c] # NoShard
    BY <1>1, DedupAssumption DEF Owed
  <2>3. \A c \in Candidates : Published(c)' => Owner[c] = NoShard
    <3>1. CASE w = "exact"
      BY <1>1, <3>1 DEF DedupInv, HintsHold, Published
    <3>2. CASE w = "bm25"
      BY <1>1, <3>2 DEF DedupInv, FreezesHold, Published
    <3> QED
      BY <3>1, <3>2 DEF Waves
  <2> QED
    BY <1>1, <2>1, <2>2, <2>3 DEF WavePublishes
<1>10. HintsHold'
  <2>1. Stream!AllHints' = Stream!AllHints
    BY DEF Stream!AllHints, Stream!Hintable, Stream!Hint
  <2> QED
    BY <1>1, <2>1 DEF DedupInv, HintsHold, Querying, Waves
<1>11. FreezesHold' /\ OutboxHolds'
  BY <1>1 DEF DedupInv, FreezesHold, OutboxHolds, Waves
<1>12. TrackerHolds' /\ SentHolds'
  <2>1. ~Querying /\ ~Querying'
    BY <1>1 DEF Querying, Waves
  <2> QED
    BY <1>1, <1>2, <2>1, TrackerFrame, SentFrame
<1>13. WindowBounded'
  <2>1. Submitted' = {y \in {w} \X Tasks : Index(y[2]) <= Window}
    <3>1. \A v \in Waves : v # w => \A x \in Tasks : task'[v][x] # "spawned"
      BY <1>1, <1>3, <1>4 DEF DedupInv, WaveOrder, Waves
    <3>2. \A v \in Waves, x \in Tasks : task'[v][x] = "spawned" <=> v = w /\ Index(x) <= Window
      BY <1>4, <3>1
    <3> QED
      BY <3>2 DEF Submitted
  <2>2. Cardinality(completions') = 0
    BY <1>1, <1>3, FS_EmptySet
  <2> QED
    BY <2>1, <2>2, FirstBatches, Sizes, FS_CardinalityType DEF WindowBounded
<1> QED
  BY <1>1, <1>6, <1>7, <1>8, <1>9, <1>10, <1>11, <1>12, <1>13 DEF DedupInv, NoStateError

\* A batch runs and returns in its own wave, or after the coordinator left.
LEMMA BatchPhase ==
    ASSUME DedupInv, NEW w \in Waves, NEW x \in Tasks, task[w][x] = "spawned"
    PROVE  phase = w \/ phase = "failed"
<1>1. phase \in {"uri", "name", "base", "exact", "owner", "bm25", "release", "ok", "failed"}
  BY DEF DedupInv, TypeOK
<1> QED
  BY <1>1 DEF DedupInv, WaveOrder, Waves

\* The submitted batches can be counted.
LEMMA SubmittedFinite == IsFiniteSet(Submitted) /\ Cardinality(Submitted) \in Nat
<1>1. Submitted \subseteq Waves \X Tasks
  BY DEF Submitted
<1> QED
  BY <1>1, FiniteTasks, FS_Subset, FS_CardinalityType

\* A batch that sends its result stays unreceived and in the window.
LEMMA RunKeepsInv ==
    ASSUME DedupInv, NEW w \in Waves, NEW x \in Tasks, NEW succeeded \in BOOLEAN,
           RunBatch(w, x, succeeded)
    PROVE  DedupInv'
<1> DEFINE m == [of |-> x, ok |-> succeeded]
<1>1. /\ task[w][x] = "spawned"
      /\ task' = [task EXCEPT ![w][x] = "sent"] /\ completions' = completions \cup {m}
      /\ UNCHANGED <<phase, trackerVars, pending, got, waveError, outbox, sent, hinted, frozen,
                     receiver, stateError>>
  BY DEF RunBatch, streamVars
<1>2. UNCHANGED <<query, inflight, bitmap, failedSeeds>>
  BY <1>1 DEF trackerVars
<1>3. /\ task \in [Waves -> [Tasks -> {"todo", "spawned", "sent", "over"}]]
      /\ completions \subseteq [of : Tasks, ok : BOOLEAN] /\ IsFiniteSet(completions)
  BY DEF DedupInv, TypeOK
<1>4. /\ task' \in [Waves -> [Tasks -> {"todo", "spawned", "sent", "over"}]]
      /\ \A v \in Waves, y \in Tasks :
            task'[v][y] = IF v = w /\ y = x THEN "sent" ELSE task[v][y]
  BY <1>1, <1>3
<1>5. phase = w \/ phase = "failed"
  BY <1>1, BatchPhase
<1>6. TypeOK'
  <2>1. completions' \subseteq [of : Tasks, ok : BOOLEAN]
    BY <1>1, <1>3
  <2> QED
    BY <1>1, <1>2, <1>4, <2>1 DEF DedupInv, TypeOK
<1>7. WaveCounts'
  <2> SUFFICES ASSUME phase = w PROVE WaveCounts'
    BY <1>1, <1>5 DEF WaveCounts, Waves
  <2>1. ASSUME NEW y \in Tasks PROVE Unreceived(phase, y)' <=> Unreceived(phase, y)
    <3>1. (\E n \in completions' : n.of = y) <=> (\E n \in completions : n.of = y) \/ y = x
      <4>1. m.of = x
        OBVIOUS
      <4> HIDE DEF m
      <4> QED
        BY <1>1, <4>1
    <3> QED
      BY <1>1, <1>4, <3>1 DEF Unreceived
  <2>2. \A s \in Shards : Open(phase, s)' = Open(phase, s)
    <3>1. \A s \in Shards, b \in SeedBatches : <<s, b>> \in Tasks
      BY DEF Tasks
    <3> QED
      BY <2>1, <3>1 DEF Open
  <2>3. \A n \in completions : n.of \in Tasks /\ n.of # x /\ task'[w][n.of] \in {"sent", "over"}
    BY <1>1, <1>3, <1>4 DEF DedupInv, WaveCounts
  <2>4. /\ \A n \in completions' : task'[w][n.of] \in {"sent", "over"}
        /\ \A n, k \in completions' : n.of = k.of => n = k
    <3>1. m.of = x /\ task'[w][x] = "sent"
      BY <1>4
    <3>2. \A n, k \in completions : n.of = k.of => n = k
      BY DEF DedupInv, WaveCounts
    <3> HIDE DEF m
    <3> QED
      BY <1>1, <2>3, <3>1, <3>2
  <2> QED
    BY <1>1, <2>2, <2>4 DEF DedupInv, WaveCounts
<1>8. WaveOrder'
  BY <1>1, <1>4, <1>5 DEF DedupInv, WaveOrder, Waves
<1>9. WindowBounded' /\ IsFiniteSet(completions')
  <2>1. /\ IsFiniteSet(completions')
        /\ Cardinality(completions') \in Nat /\ Cardinality(completions) \in Nat
        /\ Cardinality(completions') <= Cardinality(completions) + 1
    <3>1. \A d : d # m => (d \in completions' <=> d \in completions)
      BY <1>1
    <3> HIDE DEF m
    <3>2. /\ IsFiniteSet(completions')
          /\ Cardinality(completions') = Cardinality(completions)
                - (IF m \in completions THEN 1 ELSE 0) + (IF m \in completions' THEN 1 ELSE 0)
      BY <1>3, <3>1, CardinalityMoves
    <3> QED
      BY <1>3, <3>2, FS_CardinalityType
  <2>2. Cardinality(Submitted') = Cardinality(Submitted) - 1
    <3> DEFINE z == <<w, x>>
    <3>1. z \in Submitted /\ z \notin Submitted'
      BY <1>1, <1>4 DEF Submitted
    <3>2. \A d : d # z => (d \in Submitted' <=> d \in Submitted)
      BY <1>4 DEF Submitted
    <3> HIDE DEF z
    <3> QED
      BY <3>1, <3>2, SubmittedFinite, CardinalityMoves
  <2> QED
    BY <2>1, <2>2, SubmittedFinite, Sizes DEF DedupInv, WindowBounded
<1>10. OutboxHolds'
  BY <1>1 DEF DedupInv, OutboxHolds
<1> QED
  BY <1>1, <1>2, <1>6, <1>7, <1>8, <1>9, <1>10, TrackerFrame, SentFrame, StreamFrame
  DEF DedupInv, NoStateError

\* A returning closure counts in nothing but the store.
LEMMA DropKeepsInv ==
    ASSUME DedupInv, NEW w \in Waves, NEW x \in Tasks, DropCaptures(w, x)
    PROVE  DedupInv'
<1>1. /\ task[w][x] = "sent" /\ task' = [task EXCEPT ![w][x] = "over"]
      /\ UNCHANGED <<phase, trackerVars, completions, pending, got, waveError, outbox, sent, hinted,
                     frozen, receiver, stateError>>
  BY DEF DropCaptures, streamVars
<1>2. UNCHANGED <<query, inflight, bitmap, failedSeeds>>
  BY <1>1 DEF trackerVars
<1>3. /\ task \in [Waves -> [Tasks -> {"todo", "spawned", "sent", "over"}]]
      /\ completions \subseteq [of : Tasks, ok : BOOLEAN]
  BY DEF DedupInv, TypeOK
<1>4. /\ task' \in [Waves -> [Tasks -> {"todo", "spawned", "sent", "over"}]]
      /\ \A v \in Waves, y \in Tasks :
            task'[v][y] = IF v = w /\ y = x THEN "over" ELSE task[v][y]
  BY <1>1, <1>3
<1>5. TypeOK'
  BY <1>1, <1>2, <1>4 DEF DedupInv, TypeOK
<1>6. WaveCounts'
  <2> SUFFICES ASSUME phase \in Waves PROVE WaveCounts'
    BY <1>1 DEF WaveCounts
  <2>1. \A s \in Shards : Open(phase, s)' = Open(phase, s)
    BY <1>1, <1>4 DEF Open, Unreceived, Tasks
  <2>2. \A n \in completions : task'[phase][n.of] \in {"sent", "over"}
    BY <1>3, <1>4 DEF DedupInv, WaveCounts
  <2> QED
    BY <1>1, <2>1, <2>2 DEF DedupInv, WaveCounts
<1>7. WaveOrder'
  BY <1>1, <1>4 DEF DedupInv, WaveOrder, Waves
<1>8. WindowBounded'
  <2>1. Submitted' = Submitted
    BY <1>1, <1>4 DEF Submitted
  <2> QED
    BY <1>1, <2>1 DEF DedupInv, WindowBounded
<1>9. OutboxHolds'
  BY <1>1 DEF DedupInv, OutboxHolds
<1> QED
  BY <1>1, <1>2, <1>5, <1>6, <1>7, <1>8, <1>9, TrackerFrame, SentFrame, StreamFrame
  DEF DedupInv, NoStateError

-----------------------------------------------------------------------------
\* At most one batch takes the place of a received one.
LEMMA RefillOne ==
    ASSUME DedupInv, NEW w \in Waves, NEW m, RefillWindow(w, m)
    PROVE  /\ task' \in [Waves -> [Tasks -> {"todo", "spawned", "sent", "over"}]]
           /\ \A v \in Waves, x \in Tasks : v # w => task'[v][x] = task[v][x]
           /\ \A x \in Tasks : \/ task'[w][x] = task[w][x]
                               \/ task[w][x] = "todo" /\ task'[w][x] = "spawned"
           /\ Cardinality(Submitted') <= Cardinality(Submitted) + 1
<1> DEFINE NextUp(x) == task[w][x] = "todo" /\ \A y \in Tasks : Index(y) < Index(x) => task[w][y] # "todo"
<1>1. task \in [Waves -> [Tasks -> {"todo", "spawned", "sent", "over"}]]
  BY DEF DedupInv, TypeOK
<1>2. task' = [task EXCEPT ![w] = [x \in Tasks |-> IF NextUp(x) THEN "spawned" ELSE task[w][x]]]
  BY <1>1 DEF RefillWindow
<1>3. /\ task' \in [Waves -> [Tasks -> {"todo", "spawned", "sent", "over"}]]
      /\ \A v \in Waves, x \in Tasks : v # w => task'[v][x] = task[v][x]
      /\ \A x \in Tasks : task'[w][x] = IF NextUp(x) THEN "spawned" ELSE task[w][x]
  BY <1>1, <1>2
<1>4. \A x, y \in Tasks : NextUp(x) /\ NextUp(y) => x = y
  <2> SUFFICES ASSUME NEW x \in Tasks, NEW y \in Tasks, NextUp(x), NextUp(y) PROVE x = y
    OBVIOUS
  <2>1. ~(Index(x) < Index(y)) /\ ~(Index(y) < Index(x))
    OBVIOUS
  <2>2. Index(x) = Index(y)
    BY <2>1, IndexInjective
  <2> QED
    BY <2>2, IndexInjective
<1>5. \A x \in Tasks : NextUp(x) => task[w][x] = "todo"
  OBVIOUS
<1> HIDE DEF NextUp
<1>6. Cardinality(Submitted') <= Cardinality(Submitted) + 1
  <2>1. CASE \E x \in Tasks : NextUp(x)
    <3>1. PICK x \in Tasks : NextUp(x)
      BY <2>1
    <3> DEFINE z == <<w, x>>
    <3>2. \A v \in Waves, y \in Tasks : <<v, y>> # z =>
             (task'[v][y] = "spawned" <=> task[v][y] = "spawned")
      BY <1>3, <1>4, <3>1
    <3>3. \A d : d # z => (d \in Submitted' <=> d \in Submitted)
      BY <3>2 DEF Submitted
    <3> HIDE DEF z
    <3>4. Cardinality(Submitted') = Cardinality(Submitted)
             - (IF z \in Submitted THEN 1 ELSE 0) + (IF z \in Submitted' THEN 1 ELSE 0)
      BY <3>3, SubmittedFinite, CardinalityMoves
    <3> QED
      BY <3>4, SubmittedFinite
  <2>2. CASE ~ \E x \in Tasks : NextUp(x)
    <3>1. \A v \in Waves, y \in Tasks : task'[v][y] = task[v][y]
      BY <1>3, <2>2
    <3>2. Submitted' = Submitted
      BY <3>1 DEF Submitted
    <3> QED
      BY <3>2, SubmittedFinite
  <2> QED
    BY <2>1, <2>2
<1> QED
  BY <1>3, <1>5, <1>6

\* A received result leaves one batch less open in its shard and none other.
LEMMA OpenAfter ==
    ASSUME DedupInv, NEW w \in Waves, phase = w, NEW m \in completions,
           completions' = completions \ {m}, RefillWindow(w, m)
    PROVE  /\ m.of[1] \in Shards /\ m.of[2] \in SeedBatches
           /\ m.of[2] \in Open(w, m.of[1]) /\ pending[m.of[1]] # 0
           /\ \A s \in Shards :
                Open(w, s)' = IF s = m.of[1] THEN Open(w, s) \ {m.of[2]} ELSE Open(w, s)
<1>1. /\ completions \subseteq [of : Tasks, ok : BOOLEAN]
      /\ m.of \in Tasks /\ m.of[1] \in Shards /\ m.of[2] \in SeedBatches
      /\ m.of = <<m.of[1], m.of[2]>>
  BY DEF DedupInv, TypeOK, Tasks
<1>2. m.of[2] \in Open(w, m.of[1])
  BY <1>1 DEF Open, Unreceived
<1>3. pending[m.of[1]] # 0
  BY <1>1, <1>2, OpenEmpty DEF DedupInv, WaveCounts
<1>4. \A n \in completions : n.of = m.of => n = m
  BY DEF DedupInv, WaveCounts
<1>5. task[w][m.of] \in {"sent", "over"}
  BY DEF DedupInv, WaveCounts
<1>6. \A x \in Tasks : task'[w][x] = task[w][x] \/ (task[w][x] = "todo" /\ task'[w][x] = "spawned")
  BY RefillOne
<1>7. ASSUME NEW x \in Tasks PROVE Unreceived(w, x)' <=> Unreceived(w, x) /\ x # m.of
  <2>1. CASE x = m.of
    BY <1>1, <1>4, <1>5, <1>6, <2>1 DEF Unreceived
  <2>2. CASE x # m.of
    <3>1. (\E n \in completions' : n.of = x) <=> (\E n \in completions : n.of = x)
      BY <2>2
    <3>2. task'[w][x] \in {"todo", "spawned"} <=> task[w][x] \in {"todo", "spawned"}
      BY <1>6
    <3> QED
      BY <2>2, <3>1, <3>2 DEF Unreceived
  <2> QED
    BY <2>1, <2>2
<1>8. ASSUME NEW s \in Shards
      PROVE  Open(w, s)' = IF s = m.of[1] THEN Open(w, s) \ {m.of[2]} ELSE Open(w, s)
  <2>1. \A b \in SeedBatches : <<s, b>> \in Tasks
    BY DEF Tasks
  <2>2. \A b \in SeedBatches : <<s, b>> = m.of <=> s = m.of[1] /\ b = m.of[2]
    BY <1>1
  <2> QED
    BY <1>7, <2>1, <2>2 DEF Open
<1> QED
  BY <1>1, <1>2, <1>3, <1>8

\* A result is taken: its shard is published when it was the last one.
LEMMA CompletionKeepsInv ==
    ASSUME DedupInv, NEW w \in Waves, NEW m \in completions, ReceiveCompletion(w, m)
    PROVE  DedupInv'
<1> DEFINE s == m.of[1]
           b == m.of[2]
           error == waveError \/ ~m.ok
<1>1. /\ phase = w /\ outbox = {} /\ completions' = completions \ {m} /\ RefillWindow(w, m)
      /\ waveError' = error
      /\ got' = IF m.ok THEN [got EXCEPT ![w][s] = @ \cup {b}] ELSE got
      /\ UNCHANGED <<trackerVars, sent, hinted, frozen, receiver>>
  BY DEF ReceiveCompletion
<1>2. /\ s \in Shards /\ b \in SeedBatches /\ b \in Open(w, s) /\ pending[s] # 0
      /\ \A t \in Shards : Open(w, t)' = IF t = s THEN Open(w, t) \ {b} ELSE Open(w, t)
  BY <1>1, OpenAfter
<1>3. /\ pending' = [pending EXCEPT ![s] = @ - 1]
      /\ outbox' = IF pending[s] = 1 /\ ~error
                   THEN {c \in Candidates : Owner[c] = s /\ Relations(got', c) # NoRecord}
                   ELSE {}
      /\ UNCHANGED <<phase, stateError>>
  BY <1>2 DEF ReceiveCompletion, ShardComplete
<1>4. UNCHANGED <<query, inflight, bitmap, failedSeeds>>
  BY <1>1 DEF trackerVars
<1>5. /\ task' \in [Waves -> [Tasks -> {"todo", "spawned", "sent", "over"}]]
      /\ \A v \in Waves, x \in Tasks : v # w => task'[v][x] = task[v][x]
      /\ \A x \in Tasks : \/ task'[w][x] = task[w][x]
                          \/ task[w][x] = "todo" /\ task'[w][x] = "spawned"
      /\ Cardinality(Submitted') <= Cardinality(Submitted) + 1
  BY <1>1, RefillOne
<1>6. /\ got \in [Waves -> [Shards -> SUBSET SeedBatches]] /\ pending \in [Shards -> Nat]
      /\ completions \subseteq [of : Tasks, ok : BOOLEAN] /\ IsFiniteSet(completions)
      /\ waveError \in BOOLEAN /\ m.ok \in BOOLEAN
  BY DEF DedupInv, TypeOK
<1> HIDE DEF s, b
<1>7. /\ got' \in [Waves -> [Shards -> SUBSET SeedBatches]]
      /\ \A v \in Waves, t \in Shards : v # w \/ t # s => got'[v][t] = got[v][t]
      /\ got[w][s] \subseteq got'[w][s] /\ (m.ok => b \in got'[w][s])
  BY <1>1, <1>2, <1>6
<1>8. /\ pending' \in [Shards -> Nat] /\ pending'[s] = pending[s] - 1
      /\ \A t \in Shards : t # s => pending'[t] = pending[t]
  <2>1. pending' = [pending EXCEPT ![s] = @ - 1]
    BY <1>3
  <2>2. pending[s] \in Nat /\ pending[s] # 0
    BY <1>2, <1>6
  <2>3. pending[s] - 1 \in Nat
    BY <2>2
  <2> QED
    BY <1>2, <1>6, <2>1, <2>3
<1>e. ~waveError' <=> ~error
  BY <1>1
<1>f. ~error <=> ~waveError /\ m.ok
  OBVIOUS
<1> HIDE DEF error
<1>9. TypeOK'
  <2>1. waveError' \in BOOLEAN
    BY <1>1, <1>6, Zenon DEF error
  <2>2. outbox' \subseteq Candidates /\ completions' \subseteq [of : Tasks, ok : BOOLEAN]
    BY <1>1, <1>3, <1>6
  <2> QED
    BY <1>1, <1>3, <1>4, <1>5, <1>7, <1>8, <2>1, <2>2 DEF DedupInv, TypeOK
<1>10. WaveCounts'
  <2>1. \A t \in Shards : Open(phase, t)' = IF t = s THEN Open(w, t) \ {b} ELSE Open(w, t)
    BY <1>1, <1>2, <1>3
  <2>2. ASSUME NEW t \in Shards PROVE pending'[t] = Cardinality(Open(phase, t)')
    <3>1. pending[t] = Cardinality(Open(w, t)) /\ IsFiniteSet(Open(w, t))
      BY <1>1, OpenEmpty DEF DedupInv, WaveCounts
    <3>2. CASE t = s
      BY <1>2, <1>8, <2>1, <3>1, <3>2, FS_RemoveElement
    <3>3. CASE t # s
      BY <1>8, <2>1, <3>1, <3>3
    <3> QED
      BY <3>2, <3>3
  <2>3. ASSUME ~waveError', NEW t \in Shards
        PROVE  SeedBatches \subseteq got'[w][t] \cup Open(phase, t)'
    <3>1. m.ok /\ ~waveError
      BY <1>e, <1>f, <2>3
    <3>2. SeedBatches \subseteq got[w][t] \cup Open(w, t)
      BY <1>1, <3>1 DEF DedupInv, WaveCounts
    <3>3. got[w][t] \subseteq got'[w][t]
      BY <1>7
    <3> QED
      BY <1>7, <2>1, <3>1, <3>2, <3>3
  <2>4. \A n \in completions' : n \in completions /\ n.of \in Tasks
    BY <1>1, <1>6
  <2>5. /\ \A n \in completions' : task'[w][n.of] \in {"sent", "over"}
        /\ \A n, k \in completions' : n.of = k.of => n = k
    BY <1>1, <1>5, <2>4 DEF DedupInv, WaveCounts
  <2> QED
    BY <1>1, <1>3, <2>2, <2>3, <2>5 DEF WaveCounts
<1>11. WaveOrder'
  <2>1. CASE w = "exact"
    BY <1>1, <1>3, <1>5, <2>1 DEF DedupInv, WaveOrder, Waves
  <2>2. CASE w = "bm25"
    BY <1>1, <1>3, <1>5, <1>7, <2>2 DEF DedupInv, WaveOrder, Waves
  <2> QED
    BY <2>1, <2>2 DEF Waves
<1>12. ASSUME pending[s] = 1, ~error, NEW c \in Candidates, Owner[c] = s
       PROVE  /\ w = "exact" => Relations(got', c) = Exact[c]
              /\ w = "bm25" => Relations(got', c) # NoRecord
  <2>1. got'[w][s] = SeedBatches
    <3>1. pending'[s] = 0 /\ ~waveError'
      BY <1>e, <1>8, <1>12
    <3>2. Open(phase, s)' = {}
      <4>1. Cardinality(Open(phase, s)') = 0
        BY <1>1, <1>2, <1>3, <1>10, <3>1 DEF WaveCounts
      <4>2. Open(phase, s)' \subseteq SeedBatches
        BY DEF Open
      <4> QED
        BY <4>1, <4>2, FiniteTasks, FS_Subset, FS_EmptySet
    <3>3. SeedBatches \subseteq got'[w][s]
      <4>1. phase' = w
        BY <1>1, <1>3
      <4>2. SeedBatches \subseteq got'[phase'][s] \cup Open(phase, s)'
        BY <1>2, <1>10, <3>1, <4>1 DEF WaveCounts
      <4> QED
        BY <3>2, <4>1, <4>2
    <3> QED
      BY <1>2, <1>7, <3>3
  <2>2. CASE w = "exact"
    <3>1. Accumulated(got', "exact", c) = Exact[c]
      BY <1>12, <2>1, <2>2, AccumulatedAll DEF Waves
    <3> QED
      BY <1>1, <2>2, <3>1 DEF Relations
  <2>3. CASE w = "bm25"
    <3>1. got'["exact"][s] = SeedBatches
      BY <1>1, <1>2, <1>7, <2>3 DEF DedupInv, WaveOrder, Waves
    <3>2. Accumulated(got', "exact", c) = Exact[c] /\ Accumulated(got', "bm25", c) = Bm25[c]
      BY <1>12, <2>1, <2>3, <3>1, AccumulatedAll DEF Waves
    <3> QED
      BY <1>1, <2>3, <3>2, FinalIs DEF Relations
  <2> QED
    BY <2>2, <2>3
<1>13. WavePublishes'
  <2> SUFFICES ASSUME NEW c \in Candidates
               PROVE  /\ c \in outbox' =>
                            /\ Owed(c)' /\ Owner[c] # NoShard /\ pending'[Owner[c]] = 0
                            /\ ~waveError' /\ ~Published(c)'
                      /\ Published(c)' /\ Owner[c] # NoShard => pending'[Owner[c]] = 0
                      /\ ~waveError' /\ Owed(c)' /\ pending'[Owner[c]] = 0
                            => c \in outbox' \/ Published(c)'
    BY DEF WavePublishes
  <2>1. (Owed(c)' <=> Owed(c)) /\ (Published(c)' <=> Published(c))
    BY <1>1, <1>3 DEF Owed, Published
  <2>2. /\ Published(c) /\ Owner[c] # NoShard => pending[Owner[c]] = 0
        /\ ~waveError /\ Owed(c) /\ pending[Owner[c]] = 0 => Published(c)
    BY <1>1 DEF DedupInv, WavePublishes
  <2>3. Owed(c) => Owner[c] # NoShard /\ Owner[c] \in Shards
    BY DedupAssumption, Sizes DEF Owed
  <2>4. Owner[c] # NoShard => Owner[c] \in Shards
    BY Sizes
  <2>5. NoShard # s
    BY <1>2, Sizes
  <2>6. ASSUME c \in outbox'
        PROVE  /\ Owed(c) /\ Owner[c] # NoShard /\ pending'[Owner[c]] = 0
               /\ ~waveError' /\ ~Published(c)
    <3>1. /\ pending[s] = 1 /\ ~error /\ Owner[c] = s /\ Relations(got', c) # NoRecord
      BY <1>3, <2>6
    <3>2. Owed(c)
      <4>1. CASE w = "exact"
        BY <1>1, <1>12, <3>1, <4>1 DEF Owed
      <4>2. CASE w = "bm25"
        BY <1>1, <2>5, <3>1, <4>2 DEF Owed
      <4> QED
        BY <4>1, <4>2 DEF Waves
    <3> QED
      BY <1>e, <1>8, <2>2, <2>5, <3>1, <3>2
  <2>7. ASSUME Published(c), Owner[c] # NoShard PROVE pending'[Owner[c]] = 0
    BY <1>2, <1>8, <2>2, <2>4, <2>7
  <2>8. ASSUME ~waveError', Owed(c), pending'[Owner[c]] = 0 PROVE c \in outbox' \/ Published(c)
    <3>1. ~error /\ ~waveError
      BY <1>e, <1>f, <2>8
    <3>2. CASE Owner[c] # s
      BY <1>8, <2>2, <2>3, <2>8, <3>1, <3>2
    <3>3. CASE Owner[c] = s
      <4>1. pending[s] = 1
        BY <1>2, <1>6, <1>8, <2>8, <3>3
      <4>2. Relations(got', c) # NoRecord
        <5>1. CASE w = "exact"
          <6>1. Exact[c] # NoRecord
            BY <1>1, <2>8, <5>1 DEF Owed
          <6> QED
            BY <1>12, <3>1, <3>3, <4>1, <5>1, <6>1
        <5>2. CASE w = "bm25"
          BY <1>12, <3>1, <3>3, <4>1, <5>2
        <5> QED
          BY <5>1, <5>2 DEF Waves
      <4> QED
        BY <1>3, <3>1, <3>3, <4>1, <4>2
    <3> QED
      BY <3>2, <3>3
  <2> QED
    BY <2>1, <2>6, <2>7, <2>8
<1>14. HintsHold' /\ FreezesHold'
  <2>1. Stream!AllHints' = Stream!AllHints
    BY DEF Stream!AllHints, Stream!Hintable, Stream!Hint
  <2> QED
    BY <1>1, <1>3, <2>1 DEF DedupInv, HintsHold, FreezesHold, Querying, Waves
<1>15. OutboxHolds'
  BY <1>1, <1>3 DEF OutboxHolds, Waves
<1>16. IsFiniteSet(completions') /\ WindowBounded'
  <2>1. /\ IsFiniteSet(completions') /\ Cardinality(completions') = Cardinality(completions) - 1
        /\ Cardinality(completions) \in Nat /\ Cardinality(completions') \in Nat
    BY <1>1, <1>6, FS_RemoveElement, FS_CardinalityType
  <2>2. Cardinality(Submitted) \in Nat /\ Cardinality(Submitted') \in Nat
    <3>1. Submitted' \subseteq Waves \X Tasks
      BY DEF Submitted
    <3> QED
      BY <3>1, SubmittedFinite, FiniteTasks, FS_Subset, FS_CardinalityType
  <2> QED
    BY <1>5, <2>1, <2>2, Sizes DEF DedupInv, WindowBounded
<1> QED
  BY <1>1, <1>3, <1>4, <1>9, <1>10, <1>11, <1>13, <1>14, <1>15, <1>16, TrackerFrame, SentFrame
  DEF DedupInv, NoStateError

-----------------------------------------------------------------------------
\* A wave whose shards have nothing pending has received and published all.
LEMMA WaveDone ==
    ASSUME DedupInv, phase \in Waves, WaveReceived, ~waveError
    PROVE  /\ completions = {} /\ outbox = {}
           /\ \A x \in Tasks : task[phase][x] \in {"sent", "over"}
           /\ \A s \in Shards : got[phase][s] = SeedBatches
           /\ \A c \in Candidates : Owed(c) => Published(c)
<1>1. /\ outbox = {} /\ \A s \in Shards : pending[s] = 0
      /\ completions \subseteq [of : Tasks, ok : BOOLEAN]
      /\ task \in [Waves -> [Tasks -> {"todo", "spawned", "sent", "over"}]]
      /\ got \in [Waves -> [Shards -> SUBSET SeedBatches]]
  BY DEF WaveReceived, DedupInv, TypeOK
<1>2. \A s \in Shards : Open(phase, s) = {}
  BY <1>1, OpenEmpty DEF DedupInv, WaveCounts
<1>3. ASSUME NEW x \in Tasks PROVE ~Unreceived(phase, x)
  <2>1. x[1] \in Shards /\ x[2] \in SeedBatches /\ x = <<x[1], x[2]>>
    BY DEF Tasks
  <2>2. x[2] \notin Open(phase, x[1])
    BY <1>2, <2>1
  <2>3. ~Unreceived(phase, <<x[1], x[2]>>)
    BY <2>1, <2>2 DEF Open
  <2> QED
    BY <2>1, <2>3
<1>4. completions = {}
  BY <1>1, <1>3 DEF Unreceived
<1>5. \A x \in Tasks : task[phase][x] \in {"sent", "over"}
  BY <1>1, <1>3 DEF Unreceived
<1>6. \A s \in Shards : got[phase][s] = SeedBatches
  BY <1>1, <1>2 DEF DedupInv, WaveCounts
<1>7. ASSUME NEW c \in Candidates, Owed(c) PROVE Published(c)
  <2>1. Owner[c] \in Shards
    BY <1>7, DedupAssumption DEF Owed
  <2> QED
    BY <1>1, <1>7, <2>1 DEF DedupInv, WavePublishes
<1> QED
  BY <1>1, <1>4, <1>5, <1>6, <1>7

\* The hints of a complete exact wave are all hints.
LEMMA HintsComplete ==
    ASSUME DedupInv, phase = "exact", \A c \in Candidates : Owed(c) => Published(c)
    PROVE  hinted = Stream!AllHints
<1>1. hinted \subseteq {"base", "exact"} \X Candidates
  BY DEF DedupInv, TypeOK
<1>2. \A c \in Candidates : <<"base", c>> \in hinted <=> Base[c] # NoRecord
  BY DEF DedupInv, HintsHold
<1>3. \A c \in Candidates : <<"exact", c>> \in hinted <=> Exact[c] # NoRecord
  BY DEF DedupInv, HintsHold, Owed, Published
<1>4. ASSUME NEW p PROVE p \in hinted <=> p \in Stream!AllHints
  <2>1. p \in Stream!AllHints <=>
           \E c \in Candidates : \/ p = <<"base", c>> /\ Base[c] # NoRecord
                                 \/ p = <<"exact", c>> /\ Exact[c] # NoRecord
    <3>1. /\ Stream!Hintable("base") = {c \in Candidates : Base[c] # NoRecord}
          /\ Stream!Hintable("exact") = {c \in Candidates : Exact[c] # NoRecord}
      BY DEF Stream!Hintable, Stream!Hint, Stream!NoRecord, NoRecord
    <3>2. Stream!AllHints = ({"base"} \X {c \in Candidates : Base[c] # NoRecord})
                            \cup ({"exact"} \X {c \in Candidates : Exact[c] # NoRecord})
      BY <3>1 DEF Stream!AllHints
    <3> QED
      BY <3>2
  <2>2. p \in hinted => \E c \in Candidates : p = <<"base", c>> \/ p = <<"exact", c>>
    BY <1>1
  <2> QED
    BY <1>2, <1>3, <2>1, <2>2
<1> QED
  BY <1>4

\* When the exact wave ends every hint is out.
LEMMA FinishExactKeepsInv ==
    ASSUME DedupInv, FinishExact
    PROVE  DedupInv'
<1>1. /\ phase = "exact" /\ phase' = "owner" /\ WaveReceived /\ ~waveError
      /\ outbox' = {c \in Candidates : Owner[c] = NoShard}
      /\ UNCHANGED <<trackerVars, waveVars, sent, hinted, frozen, receiver, stateError>>
  BY DEF FinishExact
<1>2. UNCHANGED <<query, inflight, bitmap, failedSeeds, task, completions, pending, got, waveError>>
  BY <1>1 DEF trackerVars, waveVars
<1>3. phase \in Waves /\ phase' \notin Waves /\ ~Querying /\ ~Querying'
  BY <1>1 DEF Waves, Querying
<1>4. /\ completions = {} /\ \A x \in Tasks : task["exact"][x] \in {"sent", "over"}
      /\ \A s \in Shards : got["exact"][s] = SeedBatches
      /\ \A c \in Candidates : Owed(c) => Published(c)
  BY <1>1, <1>3, WaveDone
<1>5. TypeOK'
  BY <1>1, <1>2 DEF DedupInv, TypeOK
<1>6. WaveOrder'
  BY <1>1, <1>2, <1>4 DEF DedupInv, WaveOrder
<1>7. HintsHold'
  <2>1. hinted = Stream!AllHints
    BY <1>1, <1>4, HintsComplete
  <2>2. hinted' = Stream!AllHints'
    BY <1>1, <2>1 DEF Stream!AllHints, Stream!Hintable, Stream!Hint
  <2> QED
    BY <1>1, <1>3, <2>2 DEF DedupInv, HintsHold
<1>8. FreezesHold' /\ OutboxHolds' /\ WavePublishes'
  BY <1>1, <1>3 DEF DedupInv, FreezesHold, OutboxHolds, WavePublishes
<1> QED
  BY <1>1, <1>2, <1>3, <1>5, <1>6, <1>7, <1>8, TrackerFrame, SentFrame, WaveFrame
  DEF DedupInv, NoStateError

\* No batch owns a clone of the store after the barrier over the workers.
LEMMA FinishBm25KeepsInv ==
    ASSUME DedupInv, FinishBm25
    PROVE  DedupInv'
<1>1. /\ phase = "bm25" /\ phase' = "release" /\ WaveReceived /\ ~waveError /\ Broadcast
      /\ UNCHANGED <<trackerVars, waveVars, outbox, sent, hinted, frozen, receiver, stateError>>
  BY DEF FinishBm25, streamVars
<1>2. UNCHANGED <<query, inflight, bitmap, failedSeeds, task, completions, pending, got, waveError>>
  BY <1>1 DEF trackerVars, waveVars
<1>3. phase \in Waves /\ phase' \notin Waves /\ ~Querying /\ ~Querying'
  BY <1>1 DEF Waves, Querying
<1>4. /\ completions = {} /\ outbox = {}
      /\ \A x \in Tasks : task["bm25"][x] \in {"sent", "over"}
      /\ \A c \in Candidates : Owed(c) => Published(c)
  BY <1>1, <1>3, WaveDone
<1>5. TypeOK'
  BY <1>1, <1>2 DEF DedupInv, TypeOK
<1>6. \A w \in Waves, x \in Tasks : task[w][x] = "over"
  <2>1. \A w \in Waves, x \in Tasks : task[w][x] \in {"sent", "over"}
    BY <1>1, <1>4 DEF DedupInv, WaveOrder, Waves
  <2>2. \A w \in Waves, x \in Tasks : task[w][x] # "sent"
    <3>1. ASSUME NEW w \in Waves, NEW x \in Tasks, task[w][x] = "sent" PROVE FALSE
      <4>1. <<w, x>> \in Returning
        BY <3>1 DEF Returning
      <4> QED
        BY <1>1, <4>1 DEF Broadcast
    <3> QED
      BY <3>1
  <2> QED
    BY <2>1, <2>2
<1>7. WaveOrder'
  BY <1>1, <1>2, <1>4, <1>6 DEF DedupInv, WaveOrder
<1>8. frozen = Candidates
  <2>1. \A c \in Candidates : c \in frozen
    BY <1>1, <1>4 DEF DedupInv, FreezesHold, Owed, Published
  <2>2. frozen \subseteq Candidates
    BY DEF DedupInv, TypeOK
  <2> QED
    BY <2>1, <2>2
<1>9. HintsHold'
  <2>1. Stream!AllHints' = Stream!AllHints
    BY DEF Stream!AllHints, Stream!Hintable, Stream!Hint
  <2> QED
    BY <1>1, <1>3, <2>1 DEF DedupInv, HintsHold
<1>10. FreezesHold' /\ OutboxHolds' /\ WavePublishes'
  BY <1>1, <1>3, <1>4, <1>8 DEF DedupInv, FreezesHold, OutboxHolds, WavePublishes
<1> QED
  BY <1>1, <1>2, <1>3, <1>5, <1>7, <1>9, <1>10, TrackerFrame, SentFrame, WaveFrame
  DEF DedupInv, NoStateError

\* Arc::try_unwrap(store) succeeds.
LEMMA UnwrapKeepsInv ==
    ASSUME DedupInv, UnwrapStore
    PROVE  DedupInv' /\ phase' = "ok" /\ UNCHANGED <<sent, hinted, frozen>>
<1>1. phase = "release" /\ UNCHANGED <<trackerVars, waveVars, outbox, sent, hinted, frozen, receiver>>
  BY DEF UnwrapStore, streamVars
<1>2. \A w \in Waves, x \in Tasks : task[w][x] = "over"
  BY <1>1 DEF DedupInv, WaveOrder
<1>3. phase' = "ok" /\ UNCHANGED stateError
  BY <1>2 DEF UnwrapStore
<1>4. UNCHANGED <<query, inflight, bitmap, failedSeeds, task, completions, pending, got, waveError>>
  BY <1>1 DEF trackerVars, waveVars
<1>5. phase' \notin Waves /\ ~Querying /\ ~Querying'
  BY <1>1, <1>3 DEF Waves, Querying
<1>6. TypeOK' /\ WaveOrder'
  BY <1>1, <1>3, <1>4 DEF DedupInv, TypeOK, WaveOrder
<1>7. HintsHold' /\ FreezesHold' /\ OutboxHolds' /\ WavePublishes'
  BY <1>1, <1>3, <1>5 DEF DedupInv, HintsHold, FreezesHold, OutboxHolds, WavePublishes
<1> QED
  BY <1>1, <1>3, <1>4, <1>5, <1>6, <1>7, TrackerFrame, SentFrame, WaveFrame
  DEF DedupInv, NoStateError

-----------------------------------------------------------------------------
\* The steps that only end the coordinator or the receiver.
LEMMA EndKeepsInv ==
    ASSUME DedupInv, SendFails \/ (\E w \in Waves : FailWave(w)) \/ DropReceiver
                     \/ UNCHANGED vars
    PROVE  DedupInv'
<1>1. CASE SendFails
  <2>1. /\ outbox # {} /\ ~receiver /\ phase' = "failed"
        /\ UNCHANGED <<trackerVars, waveVars, outbox, sent, hinted, frozen, receiver, stateError>>
    BY <1>1 DEF SendFails, Fail, streamVars
  <2>2. ~Querying
    BY <2>1 DEF DedupInv, OutboxHolds, Querying
  <2> QED
    BY <2>1, <2>2, QuietKeepsInv
<1>2. ASSUME NEW w \in Waves, FailWave(w) PROVE DedupInv'
  <2>1. /\ phase = w /\ outbox = {} /\ phase' = "failed"
        /\ UNCHANGED <<trackerVars, waveVars, outbox, sent, hinted, frozen, receiver, stateError>>
    BY <1>2 DEF FailWave, Fail, WaveReceived, streamVars
  <2>2. ~Querying
    BY <2>1 DEF Querying, Waves
  <2> QED
    BY <2>1, <2>2, QuietKeepsInv
<1>3. CASE DropReceiver
  <2>1. /\ phase \notin {"ok", "failed"} /\ receiver' = FALSE
        /\ UNCHANGED <<phase, trackerVars, waveVars, outbox, sent, hinted, frozen, stateError>>
    BY <1>3 DEF DropReceiver
  <2> QED
    BY <2>1, QuietKeepsInv
<1>4. CASE UNCHANGED vars
  <2>1. UNCHANGED <<trackerVars, waveVars, outbox, sent, hinted, frozen, stateError>>
    BY <1>4 DEF vars, streamVars
  <2>2. phase' = phase /\ receiver' = receiver
    BY <1>4 DEF vars, streamVars
  <2> QED
    BY <2>1, <2>2, QuietKeepsInv
<1> QED
  BY <1>1, <1>2, <1>3, <1>4

\* The whole step.
LEMMA DedupPreserved == DedupInv /\ [Next]_vars => DedupInv'
<1> SUFFICES ASSUME DedupInv, [Next]_vars PROVE DedupInv'
  OBVIOUS
<1>1. CASE \E w \in Waves, x \in Tasks : Batch(w, x)
  BY <1>1, RunKeepsInv, DropKeepsInv DEF Batch
<1>2. CASE Coordinator
  BY <1>2, SealKeepsInv, SendKeepsInv, EndKeepsInv, StartKeepsInv, CompletionKeepsInv,
     FinishExactKeepsInv, FinishBm25KeepsInv, UnwrapKeepsInv DEF Coordinator
<1>3. CASE Receive \/ DropReceiver \/ Returned \/ UNCHANGED vars
  BY <1>3, ReceiveKeepsInv, EndKeepsInv DEF Returned
<1> QED
  BY <1>1, <1>2, <1>3, QueryKeepsInv DEF Next

\* The inductive invariant of execute_dedup.
THEOREM DedupInvariant == Spec => []DedupInv
BY DedupInitially, DedupPreserved, PTL DEF Spec

\* The state of execute_dedup keeps its types.
THEOREM DedupTypes == Spec => []TypeOK
<1>1. DedupInv => TypeOK
  BY DEF DedupInv
<1> QED
  BY <1>1, DedupInvariant, PTL

\* execute_dedup: for any number of shards, batches and workers the trackers
\* are quiescent when sealed, no shard completes more batches than it has,
\* and nothing references the store when it is unwrapped.
THEOREM DedupNoStateError == Spec => []NoStateError
<1>1. DedupInv => NoStateError
  BY DEF DedupInv
<1> QED
  BY <1>1, DedupInvariant, PTL

\* mark_relations_incomplete_for_failed: exactly the relations of seeds that
\* failed in the URI or Name dimension are frozen as incomplete.
THEOREM DedupMarksIncomplete == Spec => []IncompleteMarked
<1>1. DedupInv => IncompleteMarked
  BY DEF DedupInv, SentHolds
<1> QED
  BY <1>1, DedupInvariant, PTL

\* The admission window of both Metadata waves is never exceeded.
THEOREM DedupWindowBounded == Spec => []WindowBounded
<1>1. DedupInv => WindowBounded
  BY DEF DedupInv
<1> QED
  BY <1>1, DedupInvariant, PTL

-----------------------------------------------------------------------------
(* The refinement of CandidateStream. *)

\* The channel and the outcome the abstract stream sees.
Strip(m) == [kind |-> m.kind, recs |-> m.recs]
Chan(q) == [i \in DOMAIN q |-> Strip(q[i])]
Outcome == IF phase \in {"ok", "failed"} THEN phase ELSE "open"

\* What travels in the abstract channel.
StreamMessages ==
    [kind: {"Frozen", "Prefetch"}, recs: UNION {[S -> Record] : S \in SUBSET Candidates}]

\* The abstract view of a channel is a channel of the same length.
LEMMA ChanType ==
    ASSUME NEW q \in Seq(Messages)
    PROVE  /\ Chan(q) \in Seq(StreamMessages) /\ Len(Chan(q)) = Len(q)
           /\ Chan(q) = <<>> <=> q = <<>>
<1>1. DOMAIN q = 1 .. Len(q) /\ Len(q) \in Nat /\ \A i \in 1 .. Len(q) : q[i] \in Messages
  OBVIOUS
<1>2. \A i \in 1 .. Len(q) : Strip(q[i]) \in StreamMessages
  BY <1>1 DEF Strip, Messages, StreamMessages
<1>3. Chan(q) = [i \in 1 .. Len(q) |-> Strip(q[i])]
  BY <1>1 DEF Chan
<1>4. Chan(q) \in Seq(StreamMessages) /\ Len(Chan(q)) = Len(q)
  BY <1>1, <1>2, <1>3
<1>5. q = <<>> <=> Len(q) = 0
  BY EmptySeq
<1>6. Chan(q) = <<>> <=> Len(Chan(q)) = 0
  BY <1>4, EmptySeq
<1> QED
  BY <1>4, <1>5, <1>6

\* Sending appends the abstract message.
LEMMA ChanAppend ==
    ASSUME NEW q \in Seq(Messages), NEW m \in Messages
    PROVE  Chan(Append(q, m)) = Append(Chan(q), Strip(m))
<1>1. Strip(m) \in StreamMessages
  BY DEF Strip, Messages, StreamMessages
<1>2. /\ Append(q, m) \in Seq(Messages) /\ Len(Append(q, m)) = Len(q) + 1
      /\ \A i \in 1 .. Len(q) : Append(q, m)[i] = q[i]
      /\ Append(q, m)[Len(q) + 1] = m /\ Len(q) \in Nat
  BY AppendProperties
<1>3. Chan(q) \in Seq(StreamMessages) /\ Len(Chan(q)) = Len(q)
  BY ChanType
<1>4. Chan(Append(q, m)) \in Seq(StreamMessages) /\ Len(Chan(Append(q, m))) = Len(q) + 1
  BY <1>2, ChanType
<1>5. /\ Append(Chan(q), Strip(m)) \in Seq(StreamMessages)
      /\ Len(Append(Chan(q), Strip(m))) = Len(q) + 1
      /\ \A i \in 1 .. Len(q) : Append(Chan(q), Strip(m))[i] = Chan(q)[i]
      /\ Append(Chan(q), Strip(m))[Len(q) + 1] = Strip(m)
  BY <1>1, <1>3, AppendProperties
<1>6. ASSUME NEW i \in 1 .. Len(q) + 1
      PROVE  Chan(Append(q, m))[i] = Append(Chan(q), Strip(m))[i]
  <2>1. Chan(Append(q, m))[i] = Strip(Append(q, m)[i])
    BY <1>2, LenProperties DEF Chan
  <2>2. CASE i = Len(q) + 1
    BY <1>2, <1>5, <2>1, <2>2
  <2>3. CASE i \in 1 .. Len(q)
    <3>1. Chan(q)[i] = Strip(q[i])
      BY <2>3, LenProperties DEF Chan
    <3> QED
      BY <1>2, <1>5, <2>1, <2>3, <3>1
  <2>4. i = Len(q) + 1 \/ i \in 1 .. Len(q)
    <3>1. Len(q) \in Nat
      BY <1>2
    <3> QED
      BY <3>1
  <2> QED
    BY <2>2, <2>3, <2>4
<1> QED
  BY <1>4, <1>5, <1>6, SeqEqual

\* Receiving takes the first one.
LEMMA ChanTail ==
    ASSUME NEW q \in Seq(Messages), q # <<>>
    PROVE  Chan(Tail(q)) = Tail(Chan(q))
<1>1. /\ Tail(q) \in Seq(Messages) /\ Len(Tail(q)) = Len(q) - 1
      /\ \A i \in 1 .. Len(Tail(q)) : Tail(q)[i] = q[i + 1]
  BY HeadTailProperties
<1>2. Chan(q) \in Seq(StreamMessages) /\ Len(Chan(q)) = Len(q) /\ Chan(q) # <<>>
  BY ChanType
<1>3. /\ Tail(Chan(q)) \in Seq(StreamMessages) /\ Len(Tail(Chan(q))) = Len(q) - 1
      /\ \A i \in 1 .. Len(Tail(Chan(q))) : Tail(Chan(q))[i] = Chan(q)[i + 1]
  BY <1>2, HeadTailProperties
<1>4. Chan(Tail(q)) \in Seq(StreamMessages) /\ Len(Chan(Tail(q))) = Len(q) - 1
  BY <1>1, ChanType
<1>5. ASSUME NEW i \in 1 .. Len(q) - 1 PROVE Chan(Tail(q))[i] = Tail(Chan(q))[i]
  <2>1. Len(q) \in Nat /\ i + 1 \in 1 .. Len(q)
    BY LenProperties
  <2>2. Chan(Tail(q))[i] = Strip(Tail(q)[i])
    BY <1>1, LenProperties DEF Chan
  <2>3. Chan(q)[i + 1] = Strip(q[i + 1])
    BY <2>1, LenProperties DEF Chan
  <2> QED
    BY <1>1, <1>3, <2>2, <2>3
<1> QED
  BY <1>3, <1>4, <1>5, SeqEqual

\* The refinement mapping, and the abstract operators that are the same here.
LEMMA StreamMap ==
    /\ Stream!streamVars = <<Chan(sent), hinted, frozen, Outcome>>
    /\ Stream!NoRecord = NoRecord
    /\ \A c : Stream!Final(c) = Final(c)
    /\ \A w : Stream!Hint(w) = IF w = "base" THEN Base ELSE Exact
    /\ \A w : Stream!Hintable(w) = {c \in Candidates : Stream!Hint(w)[c] # NoRecord}
BY DEF Stream!streamVars, Chan, Strip, Outcome, Stream!NoRecord, NoRecord, Stream!Final, Final,
       Stream!Merge, Merge, Stream!Hint, Stream!Hintable

\* execute_dedup starts with an empty stream.
LEMMA StreamInitially == Init => Stream!StreamInit
<1> SUFFICES ASSUME Init PROVE Stream!StreamInit
  OBVIOUS
<1>1. sent = <<>> /\ hinted = {} /\ frozen = {} /\ phase = "uri"
  BY DEF Init
<1>2. [i \in DOMAIN sent |-> [kind |-> sent[i].kind, recs |-> sent[i].recs]] = <<>>
  BY <1>1
<1> QED
  BY <1>1, <1>2 DEF Stream!StreamInit

\* A step that leaves the stream alone and does not succeed is a stutter or
\* the failure of dedup.
LEMMA QuietStep ==
    ASSUME UNCHANGED <<sent, hinted, frozen>>,
           phase' = phase \/ (phase \notin {"ok", "failed"} /\ phase' # "ok")
    PROVE  [Stream!StreamNext]_(Stream!streamVars)
<1>1. CASE Outcome' = Outcome
  BY <1>1, StreamMap DEF Stream!streamVars, Outcome
<1>2. CASE Outcome' # Outcome
  <2>1. Outcome = "open" /\ Outcome' = "failed"
    BY <1>2 DEF Outcome
  <2>2. Stream!FailDedup
    BY <2>1 DEF Stream!FailDedup, Outcome
  <2> QED
    BY <2>2 DEF Stream!StreamNext
<1> QED
  BY <1>1, <1>2

-----------------------------------------------------------------------------
\* Sending a batch publishes hints of a wave or freezes candidates.
LEMMA SendStep ==
    ASSUME DedupInv, NEW S \in SUBSET Candidates, SendBatch(S)
    PROVE  Stream!StreamNext
<1>1. /\ receiver /\ S \subseteq outbox /\ S # {} /\ Len(sent) < ChannelCapacity
      /\ sent' = Append(sent, Message(S))
      /\ IF Freezing
         THEN frozen' = frozen \cup S /\ UNCHANGED hinted
         ELSE hinted' = hinted \cup ({phase} \X S) /\ UNCHANGED frozen
      /\ UNCHANGED phase
  BY DEF SendBatch, Chunk
<1>2. phase \in {"base", "exact", "owner", "bm25"}
  BY <1>1, SendingPhases
<1>3. S \in Stream!Batches
  <2>1. BatchCapacity \in Nat
    BY DedupAssumption
  <2>2. Cardinality(S) \in Nat
    BY FS_Subset, FS_CardinalityType, RecordsAssumption
  <2>3. Cardinality(S) <= BatchCapacity
    BY <2>1, <2>2 DEF SendBatch, Chunk
  <2>4. Stream!Cardinality(S) = Cardinality(S)
    BY DEF Stream!Cardinality, Stream!IsFiniteSet, Cardinality, IsFiniteSet
  <2> QED
    BY <1>1, <2>3, <2>4 DEF Stream!Batches
<1>4. Freezing <=> phase \in {"owner", "bm25"}
  BY DEF Freezing
<1>5. Message(S) \in Messages /\ sent \in Seq(Messages)
  BY <1>1, MessageIs DEF DedupInv, SentHolds
<1>6. Chan(sent)' = Append(Chan(sent), Strip(Message(S)))
  <2>1. Chan(sent)' = Chan(Append(sent, Message(S)))
    BY <1>1 DEF Chan
  <2> QED
    BY <1>5, <2>1, ChanAppend
<1>7. Len(Chan(sent)) < ChannelCapacity
  BY <1>1, <1>5, ChanType
<1>8. Outcome = "open" /\ Outcome' = "open"
  BY <1>1, <1>2 DEF Outcome
<1>9. Strip(Message(S)) = [kind |-> IF Freezing THEN "Frozen" ELSE "Prefetch", recs |-> [c \in S |-> Hold(c)]]
  BY DEF Strip, Message
<1>10. CASE phase \in {"base", "exact"}
  <2>1. \A c \in S : Hold(c) = Stream!Hint(phase)[c]
    BY <1>1, <1>10, HoldIs, StreamMap
  <2>2. Strip(Message(S)) = [kind |-> "Prefetch", recs |-> [c \in S |-> Stream!Hint(phase)[c]]]
    BY <1>4, <1>9, <1>10, <2>1
  <2>3. \A c \in S : Stream!Hint(phase)[c] # NoRecord /\ <<phase, c>> \notin hinted
    <3>1. CASE phase = "base"
      BY <1>1, <3>1, StreamMap DEF DedupInv, HintsHold
    <3>2. CASE phase = "exact"
      BY <1>1, <3>2, StreamMap DEF DedupInv, WavePublishes, Owed, Published, Waves
    <3> QED
      BY <1>10, <3>1, <3>2
  <2>4. S \subseteq Stream!Hintable(phase)
    BY <2>3, StreamMap
  <2>5. ({phase} \X S) \cap hinted = {}
    BY <2>3
  <2>6. phase = "exact" => {"base"} \X Stream!Hintable("base") \subseteq hinted
    BY StreamMap DEF DedupInv, HintsHold
  <2>7. /\ hinted' = hinted \cup ({phase} \X S) /\ frozen' = frozen
    BY <1>1, <1>4, <1>10
  <2>8. Stream!PublishPrefetch(phase, S)
    BY <1>6, <1>7, <1>8, <2>2, <2>4, <2>5, <2>6, <2>7
    DEF Stream!PublishPrefetch, Chan, Strip, Outcome
  <2> QED
    BY <1>3, <1>10, <2>8 DEF Stream!StreamNext, Stream!Publish
<1>11. CASE phase \in {"owner", "bm25"}
  <2>1. \A c \in S : Hold(c) = Stream!Final(c)
    BY <1>1, <1>11, HoldIs, StreamMap
  <2>2. Strip(Message(S)) = [kind |-> "Frozen", recs |-> [c \in S |-> Stream!Final(c)]]
    BY <1>4, <1>9, <1>11, <2>1
  <2>3. \A c \in S : c \notin frozen
    <3>1. CASE phase = "owner"
      BY <1>1, <3>1 DEF DedupInv, FreezesHold
    <3>2. CASE phase = "bm25"
      BY <1>1, <3>2 DEF DedupInv, WavePublishes, Published, Waves
    <3> QED
      BY <1>11, <3>1, <3>2
  <2>4. hinted = Stream!AllHints
    BY <1>11 DEF DedupInv, HintsHold
  <2>5. frozen' = frozen \cup S /\ hinted' = hinted
    BY <1>1, <1>4, <1>11
  <2>6. Stream!PublishFrozen(S)
    BY <1>6, <1>7, <1>8, <2>2, <2>3, <2>4, <2>5
    DEF Stream!PublishFrozen, Chan, Strip, Outcome
  <2> QED
    BY <1>3, <2>6 DEF Stream!StreamNext, Stream!Publish
<1> QED
  BY <1>2, <1>10, <1>11

\* Every step of execute_dedup, of its workers and of its receiver is a step
\* of the stream or leaves it unchanged.
LEMMA StreamStep ==
    ASSUME DedupInv, [Next]_vars
    PROVE  [Stream!StreamNext]_(Stream!streamVars)
<1>1. CASE \E S \in SUBSET Candidates : SendBatch(S)
  BY <1>1, SendStep
<1>2. CASE UnwrapStore
  <2>1. phase = "release" /\ phase' = "ok" /\ UNCHANGED <<sent, hinted, frozen>>
    BY <1>2, UnwrapKeepsInv DEF UnwrapStore
  <2>2. frozen = Candidates
    BY <2>1 DEF DedupInv, FreezesHold
  <2>3. Stream!FinishDedup
    BY <2>1, <2>2 DEF Stream!FinishDedup
  <2> QED
    BY <2>3 DEF Stream!StreamNext, Stream!Publish
<1>3. CASE Receive
  <2>1. /\ sent # <<>> /\ sent' = Tail(sent) /\ UNCHANGED <<phase, hinted, frozen>>
    BY <1>3 DEF Receive
  <2>2. sent \in Seq(Messages)
    BY DEF DedupInv, SentHolds
  <2>3. Chan(sent) # <<>>
    BY <2>1, <2>2, ChanType
  <2>4. Chan(sent)' = Tail(Chan(sent))
    <3>1. Chan(sent)' = Chan(Tail(sent))
      BY <2>1 DEF Chan
    <3> QED
      BY <2>1, <2>2, <3>1, ChanTail
  <2>5. Stream!Receive
    BY <2>1, <2>3, <2>4 DEF Stream!Receive, Chan, Strip
  <2> QED
    BY <2>5 DEF Stream!StreamNext
<1>4. CASE (\E q \in Queries : Query(q)) \/ (\E w \in Waves, x \in Tasks : Batch(w, x))
  <2>1. UNCHANGED <<phase, sent, hinted, frozen>>
    BY <1>4 DEF Query, RegisterSeedBatch, QuerySucceeds, QueryPanics, DropGuard,
                Batch, RunBatch, DropCaptures, streamVars
  <2> QED
    BY <2>1, QuietStep
<1>5. CASE Seal \/ SendFails \/ FinishExact \/ FinishBm25
           \/ (\E w \in Waves : StartWave(w) \/ FailWave(w))
           \/ (\E w \in Waves : \E m \in completions : ReceiveCompletion(w, m))
  <2>1. UNCHANGED <<sent, hinted, frozen>> /\ phase' # "ok"
    BY <1>5 DEF Seal, SendFails, FinishExact, FinishBm25, StartWave, FailWave, ReceiveCompletion,
                Fail, Waves, streamVars
  <2>2. phase = "failed" => phase' = "failed"
    BY <1>5 DEF Seal, SendFails, FinishExact, FinishBm25, StartWave, FailWave, ReceiveCompletion,
                Fail, Waves
  <2>3. phase # "ok"
    BY <1>5 DEF DedupInv, OutboxHolds, Seal, SendFails, FinishExact, FinishBm25, StartWave,
                FailWave, ReceiveCompletion, Waves
  <2> QED
    BY <2>1, <2>2, <2>3, QuietStep
<1>6. CASE DropReceiver \/ Returned \/ UNCHANGED vars
  <2>1. UNCHANGED <<phase, sent, hinted, frozen>>
    BY <1>6 DEF DropReceiver, Returned, vars, streamVars
  <2> QED
    BY <2>1, QuietStep
<1> QED
  BY <1>1, <1>2, <1>3, <1>4, <1>5, <1>6 DEF Next, Coordinator

\* execute_dedup implements the candidate stream the pipeline relies on: hints
\* before freezes, every record complete for its wave, each candidate frozen
\* once, and success only after all of them.
THEOREM DedupImplementsStream == Spec => ImplementsStream
<1>1. Stream!StreamInit /\ [][Stream!StreamNext]_(Stream!streamVars) => Stream!StreamSpec
  BY DEF Stream!StreamSpec
<1>2. DedupInv /\ [Next]_vars => [Stream!StreamNext]_(Stream!streamVars)
  BY StreamStep
<1> QED
  BY <1>1, <1>2, DedupInvariant, StreamInitially, PTL DEF Spec, ImplementsStream
=============================================================================
