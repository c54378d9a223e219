-------------------------- MODULE DedupCoordinator --------------------------
(***************************************************************************)
(* execute_dedup of coordinator.rs with the ShardWorkTracker of             *)
(* shard_seal.rs: the blocking coordinator thread that runs the URI and     *)
(* Name queries under a tracker, publishes the base hints, then drives the  *)
(* exact and the BM25 Metadata wave with a bounded window of batches on the *)
(* CPU executor, and publishes every owner shard when its last batch is in. *)
(* It implements CandidateStream.  Base, Exact and Bm25 are what the passes  *)
(* leave in their accumulators, the partial results of panicked queries     *)
(* included.                                                                *)
(*                                                                          *)
(* phase    uri, name     the tracked queries of the dimension              *)
(*          base          publishing the base relations as hints            *)
(*          exact         exact wave, publishing hints per owner shard      *)
(*          owner         freezing candidates without a Metadata owner      *)
(*          bm25          BM25 wave, freezing per owner shard               *)
(*          release       every batch is in, the scratch is released        *)
(*          ok, failed    execute_dedup returned                            *)
(***************************************************************************)
EXTENDS CandidateRecords

CONSTANTS
    ShardCount,       \* index_shards
    NoShard,
    Owner,            \* Owner[c]: metadata_owner_shard
    BatchCount,       \* seed ranges of seed_batch_size
    ExactOf,          \* ExactOf[b][c]: exact relations of c with seeds of b
    Bm25Of,           \* Bm25Of[b][c]: BM25 relations of c with seeds of b
    Workers,          \* worker threads of the CPU executor
    Window,           \* min(cpu_queue_capacity, workers)
    BatchCapacity,
    ChannelCapacity

Shards == 1 .. ShardCount
SeedBatches == 1 .. BatchCount

\* merge_relations over a set of records.
JoinAll(R) == [seeds |-> UNION {r.seeds : r \in R}, sel |-> UNION {r.sel : r \in R}]

ASSUME DedupAssumption ==
    /\ ShardCount \in Nat \ {0}
    /\ BatchCount \in Nat \ {0}
    /\ NoShard \notin Shards
    /\ Owner \in [Candidates -> Shards \cup {NoShard}]
    /\ ExactOf \in [SeedBatches -> [Candidates -> Record]]
    /\ Bm25Of \in [SeedBatches -> [Candidates -> Record]]
    /\ \A c \in Candidates :
         /\ Exact[c] = JoinAll({ExactOf[b][c] : b \in SeedBatches})
         /\ Bm25[c] = JoinAll({Bm25Of[b][c] : b \in SeedBatches})
         /\ Owner[c] = NoShard => Exact[c] = NoRecord /\ Bm25[c] = NoRecord
         /\ Final(c) # NoRecord
    /\ Workers \in Nat
    /\ Window \in 1 .. Workers
    /\ BatchCapacity \in Nat \ {0}
    /\ ChannelCapacity \in Nat \ {0}

VARIABLES
    phase,
    query,          \* query[q]: todo, registered, failing or over
    inflight,       \* ShardWorkTracker.seed_batches_inflight
    bitmap,         \* bitmap[d]: failed_seed_bitmap of the dimension's tracker
    failedSeeds,
    task,           \* task[w][x]: todo, spawned, sent (captures alive), over
    completions,    \* results sent by batch tasks and not yet received
    pending,        \* exact_pending_batches, pending_batches
    got,            \* got[w][s]: batches merged into the shard's accumulator
    waveError,      \* exact_error, bm25_error
    outbox,         \* candidates this stream_relations call has still to send
    sent,           \* messages in the candidate channel
    hinted,         \* history: hints and freezes published so far
    frozen,
    receiver,       \* process_candidates still holds candidate_rx
    stateError      \* an AnalysisError::State of this function was returned

trackerVars == <<query, inflight, bitmap, failedSeeds>>
waveVars == <<task, completions, pending, got, waveError>>
streamVars == <<outbox, sent, hinted, frozen, receiver>>
vars == <<phase, trackerVars, waveVars, streamVars, stateError>>

Dimensions == {"uri", "name"}
Queries == Seeds \X Shards
Waves == {"exact", "bm25"}
Tasks == Shards \X SeedBatches

Fail == phase' = "failed"

-----------------------------------------------------------------------------
(* URI and Name: one guarded query per seed and shard *)

RegisterSeedBatch(q) ==
    /\ phase \in {"uri", "name"}
    /\ query[q] = "todo"
    /\ query' = [query EXCEPT ![q] = "registered"]
    /\ inflight' = inflight + 1
    /\ UNCHANGED <<phase, bitmap, failedSeeds, waveVars, streamVars, stateError>>

\* guard.succeed(), then its drop.
QuerySucceeds(q) ==
    /\ query[q] = "registered"
    /\ query' = [query EXCEPT ![q] = "over"]
    /\ inflight' = inflight - 1
    /\ UNCHANGED <<phase, bitmap, failedSeeds, waveVars, streamVars, stateError>>

\* A panic was caught; the guard's drop marks the seed first ...
QueryPanics(q) ==
    /\ query[q] = "registered"
    /\ query' = [query EXCEPT ![q] = "failing"]
    /\ bitmap' = [bitmap EXCEPT ![phase] = @ \cup {q[1]}]
    /\ UNCHANGED <<phase, inflight, failedSeeds, waveVars, streamVars, stateError>>

\* ... and leaves the tracker afterwards.
DropGuard(q) ==
    /\ query[q] = "failing"
    /\ query' = [query EXCEPT ![q] = "over"]
    /\ inflight' = inflight - 1
    /\ UNCHANGED <<phase, bitmap, failedSeeds, waveVars, streamVars, stateError>>

Joined == \A q \in Queries : query[q] = "over"

\* As Collected, with the seal of the Name dimension forgotten.
CollectedUriOnly == IF phase = "uri" THEN failedSeeds \cup bitmap["uri"] ELSE failedSeeds

\* failed_seeds.extend(seal.failed_seed_ids())
Collected == failedSeeds \cup bitmap[phase]

\* install_on_all returned: close_producer, try_seal, collect the failed
\* seeds.  Each dimension has a tracker of its own.
Seal ==
    /\ phase \in {"uri", "name"}
    /\ Joined
    /\ IF inflight = 0
       THEN /\ phase' = IF phase = "uri" THEN "name" ELSE "base"
            /\ failedSeeds' = Collected
            /\ query' = [q \in Queries |-> "todo"]
            /\ outbox' = IF phase = "name" THEN {c \in Candidates : Base[c] # NoRecord} ELSE {}
            /\ UNCHANGED <<inflight, bitmap, stateError>>
       ELSE /\ Fail
            /\ stateError' = TRUE
            /\ UNCHANGED <<trackerVars, outbox>>
    /\ UNCHANGED <<waveVars, sent, hinted, frozen, receiver>>

-----------------------------------------------------------------------------
(* stream_relations, stream_relation_refs: one blocking_send *)

\* What the batches g[w] of the owner shard of c contribute.
Accumulated(g, w, c) ==
    IF Owner[c] = NoShard THEN NoRecord
    ELSE JoinAll({(IF w = "exact" THEN ExactOf ELSE Bm25Of)[b][c] : b \in g[w][Owner[c]]})

\* The relations published for c: hints are those of the exact wave alone,
\* frozen records merge all passes.
Relations(g, c) ==
    IF phase = "exact" THEN Accumulated(g, "exact", c)
    ELSE Merge(Base[c], Merge(Accumulated(g, "exact", c), Accumulated(g, "bm25", c)))

Hold(c) == IF phase = "base" THEN Base[c] ELSE Relations(got, c)

Freezing == phase \in {"owner", "bm25"}

\* mark_relations_incomplete_for_failed.  The marks hints get from
\* mark_incomplete_seeds are left out: a frozen record carries its own.
Marked(c) == IF Freezing THEN Hold(c).seeds \cap failedSeeds ELSE {}

Message(S) ==
    [kind       |-> IF Freezing THEN "Frozen" ELSE "Prefetch",
     recs       |-> [c \in S |-> Hold(c)],
     incomplete |-> [c \in S |-> Marked(c)]]

\* A full batch of candidates, or the rest.
Chunk(S) ==
    /\ S \subseteq outbox
    /\ S # {}
    /\ Cardinality(S) = BatchCapacity \/ (S = outbox /\ Cardinality(S) < BatchCapacity)

SendBatch(S) ==
    /\ receiver
    /\ Len(sent) < ChannelCapacity
    /\ Chunk(S)
    /\ sent' = Append(sent, Message(S))
    /\ outbox' = outbox \ S
    /\ IF Freezing
       THEN frozen' = frozen \cup S /\ UNCHANGED hinted
       ELSE hinted' = hinted \cup ({phase} \X S) /\ UNCHANGED frozen
    /\ UNCHANGED <<phase, trackerVars, waveVars, receiver, stateError>>

\* "candidate stream closed during dedup": the pipeline returned early.
SendFails ==
    /\ outbox # {}
    /\ ~receiver
    /\ Fail
    /\ UNCHANGED <<trackerVars, waveVars, streamVars, stateError>>

Receive ==
    /\ receiver
    /\ sent # <<>>
    /\ sent' = Tail(sent)
    /\ UNCHANGED <<phase, trackerVars, waveVars, outbox, hinted, frozen, receiver, stateError>>

DropReceiver ==
    /\ receiver
    /\ phase \notin {"ok", "failed"}
    /\ receiver' = FALSE
    /\ UNCHANGED <<phase, trackerVars, waveVars, outbox, sent, hinted, frozen, stateError>>

-----------------------------------------------------------------------------
(* The Metadata waves *)

\* Batches are submitted in this order.
Index(x) == (x[1] - 1) * BatchCount + x[2]

\* As StartWave, submitting the whole wave at once.
StartWaveUnbounded(w) ==
    /\ phase = IF w = "exact" THEN "base" ELSE "owner"
    /\ outbox = {}
    /\ phase' = w
    /\ pending' = [s \in Shards |-> BatchCount]
    /\ waveError' = FALSE
    /\ task' = [task EXCEPT ![w] = [x \in Tasks |-> "spawned"]]
    /\ UNCHANGED <<trackerVars, completions, got, streamVars, stateError>>

\* The first `admission` batches are submitted before anything is received.
StartWave(w) ==
    /\ phase = IF w = "exact" THEN "base" ELSE "owner"
    /\ outbox = {}
    /\ phase' = w
    /\ pending' = [s \in Shards |-> BatchCount]
    /\ waveError' = FALSE
    /\ task' = [task EXCEPT ![w] = [x \in Tasks |-> IF Index(x) <= Window THEN "spawned" ELSE "todo"]]
    /\ UNCHANGED <<trackerVars, completions, got, streamVars, stateError>>

\* Batches submitted to the CPU executor that no worker has run.
Submitted == {y \in Waves \X Tasks : task[y[1]][y[2]] = "spawned"}

\* Batches that keep a worker because their closure has not returned.
Returning == {y \in Waves \X Tasks : task[y[1]][y[2]] = "sent"}

\* A batch on its CPU worker: the result is sent while the closure still owns
\* its clones of the store ...
RunBatch(w, x, succeeded) ==
    /\ task[w][x] = "spawned"
    /\ Cardinality(Returning) < Workers
    /\ task' = [task EXCEPT ![w][x] = "sent"]
    /\ completions' = completions \cup {[of |-> x, ok |-> succeeded]}
    /\ UNCHANGED <<phase, trackerVars, pending, got, waveError, streamVars, stateError>>

\* ... which are dropped when it returns.
DropCaptures(w, x) ==
    /\ task[w][x] = "sent"
    /\ task' = [task EXCEPT ![w][x] = "over"]
    /\ UNCHANGED <<phase, trackerVars, completions, pending, got, waveError, streamVars, stateError>>

\* As RefillWindow, giving up the rest of the wave after a failed batch.
RefillWindowOnSuccess(w, m) ==
    task' = [task EXCEPT ![w] =
              [x \in Tasks |->
                IF m.ok /\ @[x] = "todo" /\ \A y \in Tasks : Index(y) < Index(x) => @[y] # "todo"
                THEN "spawned" ELSE @[x]]]

\* tasks.next(): the next batch is submitted whatever the result was.
RefillWindow(w, m) ==
    task' = [task EXCEPT ![w] =
              [x \in Tasks |->
                IF @[x] = "todo" /\ \A y \in Tasks : Index(y) < Index(x) => @[y] # "todo"
                THEN "spawned" ELSE @[x]]]

\* As ShardComplete, with the wave's error ignored.
ShardCompleteDespiteError(s, error) == pending[s] = 1

\* The shard's last batch is in and no batch of the wave failed so far.
ShardComplete(s, error) == pending[s] = 1 /\ ~error

ReceiveCompletion(w, m) ==
    LET s == m.of[1]
        error == waveError \/ ~m.ok
    IN
    /\ phase = w
    /\ outbox = {}
    /\ m \in completions
    /\ completions' = completions \ {m}
    /\ RefillWindow(w, m)
    /\ waveError' = error
    /\ got' = IF m.ok THEN [got EXCEPT ![w][s] = @ \cup {m.of[2]}] ELSE got
    /\ IF pending[s] = 0
       THEN Fail /\ stateError' = TRUE /\ UNCHANGED <<pending, outbox>>
       ELSE /\ pending' = [pending EXCEPT ![s] = @ - 1]
            /\ outbox' = IF ShardComplete(s, error)
                         THEN {c \in Candidates : Owner[c] = s /\ Relations(got', c) # NoRecord}
                         ELSE {}
            /\ UNCHANGED <<phase, stateError>>
    /\ UNCHANGED <<trackerVars, sent, hinted, frozen, receiver>>

WaveReceived == outbox = {} /\ \A s \in Shards : pending[s] = 0

\* executor.broadcast runs on every worker, hence after the job it is in.
Broadcast == Returning = {}

\* The whole wave was received before its first error is returned.
FailWave(w) ==
    /\ phase = w
    /\ WaveReceived
    /\ waveError
    /\ Broadcast
    /\ Fail
    /\ UNCHANGED <<trackerVars, waveVars, streamVars, stateError>>

FinishExact ==
    /\ phase = "exact"
    /\ WaveReceived
    /\ ~waveError
    /\ phase' = "owner"
    /\ outbox' = {c \in Candidates : Owner[c] = NoShard}
    /\ UNCHANGED <<trackerVars, waveVars, sent, hinted, frozen, receiver, stateError>>

\* As FinishBm25 without the barrier over the workers.
FinishBm25NoBarrier ==
    /\ phase = "bm25"
    /\ WaveReceived
    /\ ~waveError
    /\ phase' = "release"
    /\ UNCHANGED <<trackerVars, waveVars, streamVars, stateError>>

FinishBm25 ==
    /\ phase = "bm25"
    /\ WaveReceived
    /\ ~waveError
    /\ Broadcast
    /\ phase' = "release"
    /\ UNCHANGED <<trackerVars, waveVars, streamVars, stateError>>

\* Arc::try_unwrap(store) fails while any batch still owns a clone.
UnwrapStore ==
    /\ phase = "release"
    /\ IF \E w \in Waves, x \in Tasks : task[w][x] \in {"spawned", "sent"}
       THEN Fail /\ stateError' = TRUE
       ELSE phase' = "ok" /\ UNCHANGED stateError
    /\ UNCHANGED <<trackerVars, waveVars, streamVars>>

-----------------------------------------------------------------------------

Init ==
    /\ phase = "uri"
    /\ query = [q \in Queries |-> "todo"]
    /\ inflight = 0
    /\ bitmap = [d \in Dimensions |-> {}]
    /\ failedSeeds = {}
    /\ task = [w \in Waves |-> [x \in Tasks |-> "todo"]]
    /\ completions = {}
    /\ pending = [s \in Shards |-> 0]
    /\ got = [w \in Waves |-> [s \in Shards |-> {}]]
    /\ waveError = FALSE
    /\ outbox = {}
    /\ sent = <<>>
    /\ hinted = {}
    /\ frozen = {}
    /\ receiver = TRUE
    /\ stateError = FALSE

Query(q) == RegisterSeedBatch(q) \/ QuerySucceeds(q) \/ QueryPanics(q) \/ DropGuard(q)

Batch(w, x) ==
    \/ \E succeeded \in BOOLEAN : RunBatch(w, x, succeeded)
    \/ DropCaptures(w, x)

Coordinator ==
    \/ Seal
    \/ \E S \in SUBSET Candidates : SendBatch(S)
    \/ SendFails
    \/ \E w \in Waves : StartWave(w) \/ FailWave(w)
    \/ \E w \in Waves : \E m \in completions : ReceiveCompletion(w, m)
    \/ FinishExact \/ FinishBm25 \/ UnwrapStore

Returned == phase \in {"ok", "failed"} /\ UNCHANGED vars

Next ==
    \/ \E q \in Queries : Query(q)
    \/ \E w \in Waves, x \in Tasks : Batch(w, x)
    \/ Coordinator
    \/ Receive \/ DropReceiver
    \/ Returned

Spec == Init /\ [][Next]_vars

\* The coordinator thread and the CPU workers run, and the pipeline goes on
\* receiving for as long as it holds the receiver.
Fairness ==
    /\ \A q \in Queries : WF_vars(Query(q))
    /\ \A w \in Waves, x \in Tasks : WF_vars(Batch(w, x))
    /\ WF_vars(Coordinator)
    /\ WF_vars(Receive)

FairSpec == Spec /\ Fairness

-----------------------------------------------------------------------------
(* Properties *)

\* Type invariant.
TypeOK ==
    /\ phase \in {"uri", "name", "base", "exact", "owner", "bm25", "release", "ok", "failed"}
    /\ query \in [Queries -> {"todo", "registered", "failing", "over"}]
    /\ inflight \in Nat
    /\ bitmap \in [Dimensions -> SUBSET Seeds]
    /\ failedSeeds \subseteq Seeds
    /\ task \in [Waves -> [Tasks -> {"todo", "spawned", "sent", "over"}]]
    /\ completions \subseteq [of : Tasks, ok : BOOLEAN]
    /\ pending \in [Shards -> Nat]
    /\ got \in [Waves -> [Shards -> SUBSET SeedBatches]]
    /\ waveError \in BOOLEAN
    /\ outbox \subseteq Candidates
    /\ hinted \subseteq {"base", "exact"} \X Candidates
    /\ frozen \subseteq Candidates
    /\ receiver \in BOOLEAN
    /\ stateError \in BOOLEAN

\* None of the internal errors of execute_dedup is reachable: the trackers are
\* quiescent when they are sealed, no shard completes more batches than it
\* has, and no batch references the store when it is unwrapped.
NoStateError == ~stateError

\* Every relation frozen for a seed that failed in the URI or in the Name
\* dimension is marked incomplete, and no other relation is.
IncompleteMarked ==
    \A i \in DOMAIN sent :
        sent[i].kind = "Frozen" =>
            \A c \in DOMAIN sent[i].recs :
                sent[i].incomplete[c] = Final(c).seeds \cap (bitmap["uri"] \cup bitmap["name"])

\* At most `admission` batches are submitted and not yet received, over both
\* waves: the exact wave is drained before the BM25 wave begins.
WindowBounded == Cardinality(Submitted) + Cardinality(completions) <= Window

\* Stutters and steps of the abstract stream: hints before freezes, every
\* record complete for its wave, each candidate frozen once, and success only
\* after all of them.
Stream ==
    INSTANCE CandidateStream WITH
        channel <- [i \in DOMAIN sent |-> [kind |-> sent[i].kind, recs |-> sent[i].recs]],
        hinted  <- hinted,
        frozen  <- frozen,
        outcome <- IF phase \in {"ok", "failed"} THEN phase ELSE "open"

ImplementsStream == Stream!StreamSpec

\* execute_dedup returns: no wave waits for a batch that is never submitted.
DedupEnds == <>(phase \in {"ok", "failed"})

=============================================================================
