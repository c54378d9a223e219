------------------------- MODULE CandidatePipeline -------------------------
(***************************************************************************)
(* process_candidates of orchestrator.rs: the single event loop that turns  *)
(* the dedup stream into fetches, analyses, compressions, byte admissions   *)
(* and artifact writes.  It composes PrefetchCoordinator with the stream    *)
(* promised by CandidateStream.                                             *)
(*                                                                          *)
(* pc is the place in the loop body:                                        *)
(*   top       loop condition and memory-pressure check                     *)
(*   fetch, compress, admit, write   the four fill loops, in this order     *)
(*   select    tokio::select! over the enabled events                       *)
(*   handle    the candidates of one received message, one per step         *)
(*   done, err process_candidates returned Ok or Err                        *)
(* A candidate whose analysis was queued moves through stage[c]:            *)
(*   none, analysing, compress_ready, compressing, admission_ready,         *)
(*   write_ready, writing, written | write_failed, indexed                  *)
(* Fetches, CPU tasks and writer threads run beside the loop; what they do  *)
(* to shared state (only a writer thread does: it returns its byte permit)  *)
(* is a step of its own, the rest is chosen when the loop joins them.       *)
(***************************************************************************)
EXTENDS PrefetchCoordinator, CandidateStream, FiniteSetsExt

CONSTANTS
    AnalysisQueueCapacity,     \* analysis_queue_capacity
    CompressionConcurrency,    \* compression_concurrency
    WriterThreads,             \* writer_threads
    Sizes,                     \* possible compressed sizes of an artifact
    WriterQueueBytes,          \* writer_queue_bytes
    MayFail                    \* TRUE: compression, writes and dedup may fail

ASSUME PipelineAssumption ==
    /\ AnalysisQueueCapacity \in Nat \ {0}
    /\ CompressionConcurrency \in Nat \ {0}
    /\ WriterThreads \in Nat \ {0}
    /\ Sizes \subseteq Nat \ {0}
    /\ WriterQueueBytes \in Nat \ {0}
    /\ MayFail \in BOOLEAN

VARIABLES
    pc,
    failure,        \* which `?` returned the error
    streamOpen,     \* candidate_stream_open
    pressure,       \* memory_usage > memory_limit at the last telemetry tick
    inbox,          \* the message being handled
    finals,         \* final_fetches
    bases,          \* final_bases: evidence to extend, NoRecord if none
    fetchingFinal,  \* final fetches in the network JoinSet
    stage,
    evidence,       \* evidence[c]: what the analysis of c was queued with
    merged,         \* candidates in the aggregate
    size,           \* compressed bytes of c's payload
    used,           \* ByteBudget.used
    untried         \* payloads this admission pass has still to try

loopVars == <<pc, failure, streamOpen, pressure, inbox>>
fetchVars == <<finals, bases, fetchingFinal>>
backVars == <<stage, evidence, merged, size, used, untried>>
vars == <<loopVars, fetchVars, backVars, prefetchVars, streamVars>>

In(S) == {c \in Candidates : stage[c] \in S}

NetworkLen == Cardinality(prefetching) + Cardinality(fetchingFinal)

Downstream ==
    In({"analysing", "compress_ready", "compressing", "admission_ready",
        "write_ready", "writing", "written", "write_failed"})

ActiveCandidates == NetworkLen + Cardinality(Downstream)

BacklogLimit == NetworkQueueCapacity * BatchCapacity

NoMessage == [kind |-> "None", recs |-> <<>>]

NoEvidence == [rec |-> NoRecord, ok |-> FALSE, by |-> "none"]

Goto(label) == pc' = label /\ UNCHANGED <<failure, streamOpen, pressure, inbox>>

Abort(why) ==
    /\ pc' = "err"
    /\ failure' = why
    /\ UNCHANGED <<streamOpen, pressure, inbox>>

-----------------------------------------------------------------------------
(* Top of the loop *)

\* As HasWork, forgetting the writes under way.
HasWorkButWrites ==
    \/ streamOpen
    \/ finals # <<>>
    \/ queuedCount > 0
    \/ NetworkLen > 0
    \/ Downstream \ In({"writing", "written", "write_failed"}) # {}

HasWork ==
    \/ streamOpen
    \/ finals # <<>>
    \/ queuedCount > 0
    \/ NetworkLen > 0
    \/ Downstream # {}

LoopTop ==
    /\ pc = "top"
    /\ HasWork
    /\ IF pressure /\ ActiveCandidates = 0 THEN Abort("memory") ELSE Goto("fetch")
    /\ UNCHANGED <<fetchVars, backVars, prefetchVars, streamVars>>

\* After the loop dedup_task is awaited; its error is the run's error.
JoinDedup ==
    /\ pc = "top"
    /\ ~HasWork
    /\ outcome # "open"
    /\ IF outcome = "ok" THEN Goto("done") ELSE Abort("dedup")
    /\ UNCHANGED <<fetchVars, backVars, prefetchVars, streamVars>>

-----------------------------------------------------------------------------
(* Fill loops *)

MayFetch ==
    /\ ~pressure
    /\ NetworkLen < NetworkLimit
    /\ ActiveCandidates < AnalysisQueueCapacity

FetchFinal ==
    /\ pc = "fetch"
    /\ MayFetch
    /\ finals # <<>>
    /\ LET c == Head(finals) IN
       /\ fetchingFinal' = fetchingFinal \cup {[cand |-> c, rec |-> bases[c]]}
       /\ bases' = [bases EXCEPT ![c] = NoRecord]
    /\ finals' = Tail(finals)
    /\ UNCHANGED <<loopVars, backVars, prefetchVars, streamVars>>

FetchPrefetch ==
    /\ pc = "fetch"
    /\ MayFetch
    /\ finals = <<>>
    /\ \E i \in DOMAIN order : PopQueued(i)
    /\ UNCHANGED <<loopVars, fetchVars, backVars, streamVars>>

FetchDone ==
    /\ pc = "fetch"
    /\ \/ /\ ~MayFetch \/ (finals = <<>> /\ reservedCount >= NetworkLimit)
          /\ UNCHANGED prefetchVars
       \/ /\ MayFetch /\ finals = <<>>
          /\ PopNone
    /\ Goto("compress")
    /\ UNCHANGED <<fetchVars, backVars, streamVars>>

\* As MayCompress, not counting payloads that wait for admission.
MayCompressMore == Cardinality(In({"compressing"})) < CompressionConcurrency

MayCompress ==
    Cardinality(In({"compressing", "admission_ready"})) < CompressionConcurrency

StartCompression(c) ==
    /\ pc = "compress"
    /\ MayCompress
    /\ stage[c] = "compress_ready"
    /\ stage' = [stage EXCEPT ![c] = "compressing"]
    /\ UNCHANGED <<loopVars, fetchVars, evidence, merged, size, used, untried, prefetchVars, streamVars>>

CompressDone ==
    /\ pc = "compress"
    /\ ~MayCompress \/ In({"compress_ready"}) = {}
    /\ Goto("admit")
    /\ untried' = In({"admission_ready"})
    /\ UNCHANGED <<fetchVars, stage, evidence, merged, size, used, prefetchVars, streamVars>>

TryAcquire(bytes) == used + bytes <= WriterQueueBytes

\* admit_prepared, once per pending payload; a payload larger than the whole
\* budget ends the run.
Admit(c) ==
    /\ pc = "admit"
    /\ c \in untried
    /\ untried' = untried \ {c}
    /\ IF size[c] > WriterQueueBytes
       THEN Abort("memory") /\ UNCHANGED <<stage, used>>
       ELSE /\ UNCHANGED loopVars
            /\ IF TryAcquire(size[c])
               THEN used' = used + size[c] /\ stage' = [stage EXCEPT ![c] = "write_ready"]
               ELSE UNCHANGED <<used, stage>>
    /\ UNCHANGED <<fetchVars, evidence, merged, size, prefetchVars, streamVars>>

AdmitDone ==
    /\ pc = "admit"
    /\ untried = {}
    /\ Goto("write")
    /\ UNCHANGED <<fetchVars, backVars, prefetchVars, streamVars>>

InWriteSet == In({"writing", "written", "write_failed"})

StartWrite(c) ==
    /\ pc = "write"
    /\ Cardinality(InWriteSet) < WriterThreads
    /\ stage[c] = "write_ready"
    /\ stage' = [stage EXCEPT ![c] = "writing"]
    /\ UNCHANGED <<loopVars, fetchVars, evidence, merged, size, used, untried, prefetchVars, streamVars>>

WriteDone ==
    /\ pc = "write"
    /\ Cardinality(InWriteSet) >= WriterThreads \/ In({"write_ready"}) = {}
    /\ Goto("select")
    /\ UNCHANGED <<fetchVars, backVars, prefetchVars, streamVars>>

-----------------------------------------------------------------------------
(* A blocking writer thread: rename (three attempts), then the permit drops *)

\* As WriterThread, returning the permit once per attempt.
WriterThreadTwice(c) ==
    /\ pc \notin {"done", "err"}
    /\ stage[c] = "writing"
    /\ stage' = [stage EXCEPT ![c] = "written"]
    /\ used' = used - 2 * size[c]
    /\ UNCHANGED <<loopVars, fetchVars, evidence, merged, size, untried, prefetchVars, streamVars>>

WriterThread(c) ==
    /\ pc \notin {"done", "err"}
    /\ stage[c] = "writing"
    /\ \E result \in IF MayFail THEN {"written", "write_failed"} ELSE {"written"} :
         stage' = [stage EXCEPT ![c] = result]
    /\ used' = used - size[c]
    /\ UNCHANGED <<loopVars, fetchVars, evidence, merged, size, untried, prefetchVars, streamVars>>

-----------------------------------------------------------------------------
(* Events *)

\* candidate_rx.recv() is polled under these conditions.
RecvEnabled ==
    /\ pc = "select"
    /\ streamOpen
    /\ ~pressure
    /\ Len(finals) + planCount < BacklogLimit

\* A message; insert_frozen_relations rejects a candidate it has seen.
RecvMessage ==
    /\ RecvEnabled
    /\ channel # <<>>
    /\ LET m == Head(channel) IN
       IF m.kind = "Frozen" /\ DOMAIN m.recs \cap seen # {}
       THEN Abort("state") /\ UNCHANGED seen
       ELSE /\ pc' = "handle"
            /\ inbox' = m
            /\ seen' = IF m.kind = "Frozen" THEN seen \cup DOMAIN m.recs ELSE seen
            /\ UNCHANGED <<failure, streamOpen, pressure>>
    /\ Receive
    /\ UNCHANGED <<fetchVars, backVars, order, entries, counters, prefetching>>

\* As RecvClosed, going on with a closed channel.
RecvClosedIgnored ==
    /\ RecvEnabled
    /\ channel = <<>>
    /\ outcome # "open"
    /\ pc' = "top"
    /\ UNCHANGED <<streamOpen, failure, pressure, inbox, fetchVars, backVars, prefetchVars, streamVars>>

\* The sender was dropped; set_owner_shards_open(false) follows.
RecvClosed ==
    /\ RecvEnabled
    /\ channel = <<>>
    /\ outcome # "open"
    /\ streamOpen' = FALSE
    /\ pc' = "top"
    /\ UNCHANGED <<failure, pressure, inbox, fetchVars, backVars, prefetchVars, streamVars>>

\* queue_candidate_analysis; a candidate still being analysed is an error.
QueueAnalysis(c, ev, next) ==
    IF stage[c] = "analysing"
    THEN Abort("state") /\ UNCHANGED backVars
    ELSE /\ stage' = [stage EXCEPT ![c] = "analysing"]
         /\ evidence' = [evidence EXCEPT ![c] = ev]
         /\ next
         /\ UNCHANGED <<merged, size, used, untried>>

\* As Decide, reusing any prefetch whose selection covers the frozen one.
DecideIgnoringSeeds(c, got, succeeded, next) ==
    IF succeeded /\ SelectionCovers(got, Final(c))
    THEN /\ QueueAnalysis(c, [rec |-> got, ok |-> TRUE, by |-> "Prefetch"], next)
         /\ UNCHANGED <<finals, bases>>
    ELSE /\ finals' = Append(finals, c)
         /\ next
         /\ UNCHANGED <<bases, backVars>>

\* What becomes of a frozen candidate with a finished prefetch: reuse it,
\* extend it by a final fetch of the relation verifications, or fetch anew.
Decide(c, got, succeeded, next) ==
    IF PrefetchCanFinalize(succeeded, got, Final(c))
    THEN /\ QueueAnalysis(c, [rec |-> got, ok |-> succeeded, by |-> "Prefetch"], next)
         /\ UNCHANGED <<finals, bases>>
    ELSE /\ finals' = Append(finals, c)
         /\ bases' = IF succeeded /\ SelectionCovers(got, Final(c))
                     THEN [bases EXCEPT ![c] = got] ELSE bases
         /\ next
         /\ UNCHANGED backVars

\* Handler of one candidate of the message in the inbox.
RestOfInbox(c) == [d \in DOMAIN inbox.recs \ {c} |-> inbox.recs[d]]

NextInInbox(c) ==
    /\ IF DOMAIN inbox.recs = {c}
       THEN pc' = "top" /\ inbox' = NoMessage
       ELSE pc' = "handle" /\ inbox' = [inbox EXCEPT !.recs = RestOfInbox(c)]
    /\ UNCHANGED <<failure, streamOpen, pressure>>

HandlePrefetch(c) ==
    /\ pc = "handle"
    /\ inbox.kind = "Prefetch"
    /\ c \in DOMAIN inbox.recs
    /\ Offer(c, inbox.recs[c])
    /\ NextInInbox(c)
    /\ UNCHANGED <<fetchVars, backVars, streamVars>>

\* As HandleFrozen, also fetching anew while the prefetch is under way.
HandleFrozenRefetch(c) ==
    /\ pc = "handle"
    /\ inbox.kind = "Frozen"
    /\ c \in DOMAIN inbox.recs
    /\ Freeze(c)
    /\ IF entries[c].stage = "complete"
       THEN Decide(c, entries[c].got, entries[c].ok, NextInInbox(c))
       ELSE finals' = Append(finals, c) /\ NextInInbox(c) /\ UNCHANGED <<bases, backVars>>
    /\ UNCHANGED <<fetchingFinal, seen, streamVars>>

HandleFrozen(c) ==
    /\ pc = "handle"
    /\ inbox.kind = "Frozen"
    /\ c \in DOMAIN inbox.recs
    /\ Freeze(c)
    /\ \/ /\ entries[c].stage = "complete"
          /\ Decide(c, entries[c].got, entries[c].ok, NextInInbox(c))
       \/ /\ entries[c].stage \in {"absent", "queued"}
          /\ finals' = Append(finals, c)
          /\ NextInInbox(c)
          /\ UNCHANGED <<bases, backVars>>
       \/ /\ entries[c].stage = "active"
          /\ NextInInbox(c)
          /\ UNCHANGED <<finals, bases, backVars>>
    /\ UNCHANGED <<fetchingFinal, seen, streamVars>>

\* network.join_next(): a prefetch.  Provider error, identity mismatch, panic
\* and deadline all end as succeeded = FALSE.
JoinPrefetch(job, succeeded) ==
    /\ pc = "select"
    /\ Finish(job, succeeded)
    /\ IF entries[job.cand].frozen
       THEN Decide(job.cand, job.rec, succeeded, Goto("top"))
       ELSE Goto("top") /\ UNCHANGED <<finals, bases, backVars>>
    /\ UNCHANGED <<fetchingFinal, streamVars>>

\* fetch_or_extend: with a base only the verifications of the frozen relations
\* are replaced, and a failure there is recorded in them.
FetchOrExtend(c, base) ==
    IF base = NoRecord THEN Final(c) ELSE [seeds |-> Final(c).seeds, sel |-> base.sel]

\* network.join_next(): a final fetch.  The deadline, a panic or a provider
\* error lose the base as well.
JoinFinal(job, succeeded) ==
    /\ pc = "select"
    /\ job \in fetchingFinal
    /\ fetchingFinal' = fetchingFinal \ {job}
    /\ QueueAnalysis(job.cand,
                     [rec |-> FetchOrExtend(job.cand, job.rec), ok |-> succeeded, by |-> "Final"],
                     Goto("top"))
    /\ UNCHANGED <<finals, bases, prefetchVars, streamVars>>

\* CpuCompletion::Analysis; a failed analysis travels on as a failed artifact.
AnalysisDone(c) ==
    /\ pc = "select"
    /\ stage[c] = "analysing"
    /\ stage' = [stage EXCEPT ![c] = "compress_ready"]
    /\ Goto("top")
    /\ UNCHANGED <<fetchVars, evidence, merged, size, used, untried, prefetchVars, streamVars>>

\* CpuCompletion::Compression: merge_once, then wait for byte admission.  A
\* frozen candidate has relations, hence a delta to merge.
CompressionDone(c) ==
    /\ pc = "select"
    /\ stage[c] = "compressing"
    /\ IF c \in merged
       THEN Abort("state") /\ UNCHANGED <<stage, merged, size>>
       ELSE /\ Goto("top")
            /\ \E bytes \in Sizes : size' = [size EXCEPT ![c] = bytes]
            /\ merged' = merged \cup {c}
            /\ stage' = [stage EXCEPT ![c] = "admission_ready"]
    /\ UNCHANGED <<fetchVars, evidence, used, untried, prefetchVars, streamVars>>

CompressionFailed(c) ==
    /\ MayFail
    /\ pc = "select"
    /\ stage[c] = "compressing"
    /\ Abort("io")
    /\ UNCHANGED <<fetchVars, backVars, prefetchVars, streamVars>>

JoinWriter(c) ==
    /\ pc = "select"
    /\ \/ /\ stage[c] = "written"
          /\ stage' = [stage EXCEPT ![c] = "indexed"]
          /\ Goto("top")
       \/ /\ stage[c] = "write_failed"
          /\ Abort("io")
          /\ UNCHANGED stage
    /\ UNCHANGED <<fetchVars, evidence, merged, size, used, untried, prefetchVars, streamVars>>

\* The one-second tick reads current_memory_usage, which may fail.
Telemetry ==
    /\ pc = "select"
    /\ \/ /\ pressure' \in BOOLEAN
          /\ pc' = "top"
          /\ UNCHANGED <<failure, streamOpen, inbox>>
       \/ MayFail /\ Abort("io")
    /\ UNCHANGED <<fetchVars, backVars, prefetchVars, streamVars>>

-----------------------------------------------------------------------------

Init ==
    /\ pc = "top"
    /\ failure = "none"
    /\ streamOpen = TRUE
    /\ pressure = FALSE
    /\ inbox = NoMessage
    /\ finals = <<>>
    /\ bases = [c \in Candidates |-> NoRecord]
    /\ fetchingFinal = {}
    /\ stage = [c \in Candidates |-> "none"]
    /\ evidence = [c \in Candidates |-> NoEvidence]
    /\ merged = {}
    /\ size = [c \in Candidates |-> 0]
    /\ used = 0
    /\ untried = {}
    /\ PrefetchInit
    /\ StreamInit

Recv == RecvMessage \/ RecvClosed
JoinCpu == \E c \in Candidates : AnalysisDone(c) \/ CompressionDone(c) \/ CompressionFailed(c)
JoinNetwork ==
    \/ \E job \in prefetching, succeeded \in BOOLEAN : JoinPrefetch(job, succeeded)
    \/ \E job \in fetchingFinal, succeeded \in BOOLEAN : JoinFinal(job, succeeded)
JoinWrite == \E c \in Candidates : JoinWriter(c)

LoopBody ==
    \/ LoopTop \/ JoinDedup
    \/ FetchFinal \/ FetchPrefetch \/ FetchDone
    \/ \E c \in Candidates :
         StartCompression(c) \/ Admit(c) \/ StartWrite(c) \/ HandlePrefetch(c) \/ HandleFrozen(c)
    \/ CompressDone \/ AdmitDone \/ WriteDone

\* Dedup runs beside the loop until process_candidates returns.
Dedup ==
    /\ pc \notin {"done", "err"}
    /\ Publish
    /\ UNCHANGED <<loopVars, fetchVars, backVars, prefetchVars>>

DedupFails ==
    /\ MayFail
    /\ pc \notin {"done", "err"}
    /\ FailDedup
    /\ UNCHANGED <<loopVars, fetchVars, backVars, prefetchVars>>

Returned == pc \in {"done", "err"} /\ UNCHANGED vars

Next ==
    \/ LoopBody
    \/ Recv \/ JoinCpu \/ JoinNetwork \/ JoinWrite \/ Telemetry
    \/ \E c \in Candidates : WriterThread(c)
    \/ Dedup \/ DedupFails
    \/ Returned

Spec == Init /\ [][Next]_vars

\* The loop itself, the dedup thread and the writer threads make progress.
\* tokio::select! polls its ready branches in random order, so a branch that
\* is ready again and again is taken eventually (fetches end by their
\* deadline, CPU tasks by CpuExecutor).
Fairness ==
    /\ WF_vars(LoopBody)
    /\ WF_vars(Dedup)
    /\ \A c \in Candidates : WF_vars(WriterThread(c))
    /\ SF_vars(Recv)
    /\ SF_vars(JoinCpu)
    /\ SF_vars(JoinNetwork)
    /\ SF_vars(JoinWrite)

FairSpec == Spec /\ Fairness

-----------------------------------------------------------------------------
(* Properties *)

\* Type invariant.
TypeOK ==
    /\ PrefetchTypeOK
    /\ pc \in {"top", "fetch", "compress", "admit", "write", "select", "handle", "done", "err"}
    /\ failure \in {"none", "memory", "dedup", "state", "io"}
    /\ streamOpen \in BOOLEAN /\ pressure \in BOOLEAN
    /\ finals \in Seq(Candidates)
    /\ bases \in [Candidates -> Record]
    /\ fetchingFinal \subseteq Jobs
    /\ stage \in [Candidates -> {"none", "analysing", "compress_ready", "compressing",
                    "admission_ready", "write_ready", "writing", "written",
                    "write_failed", "indexed"}]
    /\ evidence \in [Candidates -> [rec : Record, ok : BOOLEAN, by : {"none", "Prefetch", "Final"}]]
    /\ merged \subseteq Candidates
    /\ size \in [Candidates -> Sizes \cup {0}]
    /\ used \in Nat
    /\ untried \subseteq Candidates

\* No interleaving of hints, freezes and fetches reaches one of the internal
\* errors "arrived more than once", "queued for analysis twice" or
\* "aggregate merged more than once".
NoStateError == failure # "state"

\* A candidate is analysed with evidence for exactly its frozen seeds and at
\* least its frozen selection, whichever of prefetch, upgraded prefetch,
\* extended prefetch or final fetch produced it; and a failed speculative
\* fetch never decides it: failed evidence always comes from a final fetch.
EvidenceCoversFrozen ==
    \A c \in Candidates :
        /\ evidence[c].ok =>
              /\ evidence[c].rec.seeds = Final(c).seeds
              /\ SelectionCovers(evidence[c].rec, Final(c))
        /\ stage[c] # "none" /\ ~evidence[c].ok => evidence[c].by = "Final"

\* One analysis, hence one artifact, per candidate.
AnalysedOnce ==
    [][\A c \in Candidates :
         stage[c] # stage'[c] /\ stage'[c] = "analysing" => stage[c] = "none"]_vars

\* Where a frozen candidate that is not yet analysed can be.
InFinals(c) == \E i \in DOMAIN finals : finals[i] = c
BeingFetched(c) == \E job \in fetchingFinal : job.cand = c
AwaitsPrefetch(c) == entries[c].stage = "active" /\ entries[c].frozen
InInbox(c) == inbox.kind = "Frozen" /\ c \in DOMAIN inbox.recs

InFlight(c) == InFinals(c) \/ BeingFetched(c) \/ AwaitsPrefetch(c) \/ InInbox(c)

\* A frozen candidate is never dropped, and never in two hands at once: it
\* waits for evidence in one place, or is past it.  Evidence kept to be
\* extended belongs to a candidate queued for its final fetch, so no base
\* outlives or misses its fetch.
FrozenNeverLost ==
    /\ \A c \in seen : pc # "err" => (InFlight(c) <=> stage[c] = "none")
    /\ \A c \in Candidates :
          bases[c] # NoRecord => InFinals(c)

\* Ok means everything: dedup succeeded and every candidate was received,
\* aggregated, written and indexed.
DoneIsComplete ==
    pc = "done" =>
        /\ outcome = "ok"
        /\ seen = Candidates
        /\ merged = Candidates
        /\ In({"indexed"}) = Candidates

TotalOf(sizes, S) == MapThenSumSet(LAMBDA c : sizes[c], S)

\* Admitted bytes are those of payloads waiting for or being written, and
\* never exceed writer_queue_bytes; unadmitted staging files plus running
\* compressions never exceed compression_concurrency, and network fetches
\* never exceed network_limit.
StagesBounded ==
    /\ used = TotalOf(size, In({"write_ready", "writing"}))
    /\ used <= WriterQueueBytes
    /\ Cardinality(In({"compressing", "admission_ready"})) <= CompressionConcurrency
    /\ Cardinality(InWriteSet) <= WriterThreads
    /\ NetworkLen <= NetworkLimit

\* process_candidates returns: the run neither waits for ever nor spins.
Terminates == <>(pc \in {"done", "err"})

-----------------------------------------------------------------------------
(* The inductive invariant of the proofs *)

\* A hint never names a seed the frozen record lacks.
Within(rec, c) == rec.seeds \subseteq Final(c).seeds

SomeRecords == UNION {[S -> Record] : S \in SUBSET Candidates}

Message ==
    {m \in [kind : {"Prefetch", "Frozen"}, recs : SomeRecords] :
        m.kind = "Prefetch" => \A c \in DOMAIN m.recs : Within(m.recs[c], c)}

FrozenAt(i) == IF channel[i].kind = "Frozen" THEN DOMAIN channel[i].recs ELSE {}

\* The channel holds what is frozen and not yet seen, each candidate once; it
\* is empty for good once it was found closed.
ChannelHolds ==
    /\ channel \in Seq(Message)
    /\ frozen \subseteq Candidates /\ seen \subseteq frozen
    /\ outcome = "ok" => frozen = Candidates
    /\ \A i \in DOMAIN channel : FrozenAt(i) \subseteq frozen \ seen
    /\ \A i, j \in DOMAIN channel : i # j => FrozenAt(i) \cap FrozenAt(j) = {}
    /\ \A c \in frozen \ seen : \E i \in DOMAIN channel : c \in FrozenAt(i)
    /\ ~streamOpen => channel = <<>> /\ outcome # "open"

InboxHolds == IF pc = "handle" THEN inbox \in Message ELSE inbox = NoMessage

\* A candidate is in one hand at most, in one from when it is seen until its
\* analysis is queued, and in none before or after.
OneHand ==
    /\ \A c \in Candidates :
         /\ InFinals(c) => ~BeingFetched(c) /\ ~AwaitsPrefetch(c) /\ ~InInbox(c)
         /\ BeingFetched(c) => ~AwaitsPrefetch(c) /\ ~InInbox(c)
         /\ AwaitsPrefetch(c) => ~InInbox(c)
         /\ InFlight(c) => c \in seen /\ stage[c] = "none"
         /\ c \in seen => InFlight(c) \/ stage[c] # "none"
         /\ stage[c] # "none" => c \in seen
    /\ \A i, j \in DOMAIN finals : finals[i] = finals[j] => i = j
    /\ \A j1, j2 \in fetchingFinal : j1.cand = j2.cand => j1 = j2

\* What entries and fetches ask for came from hints.
HintsWithin ==
    /\ \A c \in Candidates : Within(entries[c].rel, c) /\ Within(entries[c].got, c)
    /\ \A job \in prefetching : Within(job.rec, job.cand)

\* Evidence kept to be extended covers the frozen selection.
BasesCover ==
    /\ \A c \in Candidates :
         bases[c] # NoRecord => InFinals(c) /\ SelectionCovers(bases[c], Final(c))
    /\ \A job \in fetchingFinal :
         job.rec # NoRecord => SelectionCovers(job.rec, Final(job.cand))

\* merge_once has run for exactly the candidates past their compression; an
\* admission pass tries staged payloads only.
BackendMatches ==
    /\ merged = In({"admission_ready", "write_ready", "writing", "written",
                    "write_failed", "indexed"})
    /\ pc = "admit" => untried \subseteq In({"admission_ready"})

NetworkFinite == IsFiniteSet(prefetching) /\ IsFiniteSet(fetchingFinal)

PipelineInv ==
    /\ TypeOK
    /\ PrefetchInv
    /\ ChannelHolds
    /\ InboxHolds
    /\ OneHand
    /\ HintsWithin
    /\ BasesCover
    /\ EvidenceCoversFrozen
    /\ BackendMatches
    /\ StagesBounded
    /\ NetworkFinite
    /\ NoStateError
    /\ DoneIsComplete

=============================================================================
