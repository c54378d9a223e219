--------------------------- MODULE EvidenceCache ---------------------------
(***************************************************************************)
(* The evidence checkpoint of `analysis2 run`: what a run reads from it,   *)
(* refreshes, fetches and writes back, through kills, cancellations, write *)
(* errors, changed seeds, changed limits and midnight                      *)
(* (reporting/evidence_cache.rs, cli/src/pipeline.rs,                      *)
(* enrich/orchestrator.rs).                                                *)
(*                                                                         *)
(* Three files survive a run: meta (plain write), jsonl (appended, one     *)
(* bundle per line) and snapshot (temporary file and rename).  A bundle is *)
(* abstracted to what later runs decide on.  Of the lines of the jsonl     *)
(* only the last one per contract is kept: the loader overwrites the       *)
(* earlier ones.  A kill and an early return both drop the memory of the   *)
(* process, so that both lead to "ended".                                  *)
(***************************************************************************)
EXTENDS Integers, Sequences, FiniteSets

CONSTANTS
    Contracts,   \* candidate contracts, numbered in chain and address order
    Seeds,       \* seed contracts
    Registries,  \* relations a run may find: contract -> seeds, {} when no candidate
    Legit,       \* <<contract, seed>> with an official or interaction signal
    Limits,      \* pagination limits a run may be given
    BatchSize,   \* DEFAULT_EVIDENCE_CACHE_BATCH
    Outcomes,    \* sets of evidence families that may fail together
    MaxDay,      \* bound on the days that pass
    MaxRuns      \* bound on the runs in one output directory

\* What may fail and is cached all the same: transfers, sales, gas (with the
\* deployment) and value flows ("core"); prices; holders; relation probes; and
\* controllers, with royalties and the attribution of mint payments.
Families == {"core", "prices", "holders", "relations", "controllers"}

\* The families with a retry rule: a later run takes the others as they are.
Retried == {"core", "prices", "holders"}

ASSUME CacheAssumption ==
    /\ Contracts \subseteq Nat
    /\ Registries \subseteq [Contracts -> SUBSET Seeds]
    /\ Legit \subseteq Contracts \X Seeds
    /\ BatchSize \in Nat \ {0}
    /\ {{}} \subseteq Outcomes /\ Outcomes \subseteq SUBSET Families
    /\ MaxDay \in Nat \ {0}
    /\ MaxRuns \in Nat

VARIABLES
    meta, jsonl, snapshot,  \* the files
    day,                    \* UTC day
    runs,                   \* runs started so far
    pc,                     \* where the run is
    run,                    \* parameters and registry of the run
    evidence,               \* contract -> bundle the run works with
    all, pending,           \* EvidenceCacheSink
    todo,                   \* refresh stage -> contracts it has to refresh
    queue,                  \* contracts a refresh stage has still to push
    missing,                \* contracts still to be fetched
    unprobed,               \* those of them with a relation probe that failed
    attempted,              \* <<contract, family>> this run requested
    saved,                  \* history: sink.finish returned Ok in this run
    leftover                \* history: a jsonl that create could not remove

disk == <<meta, jsonl, snapshot>>
sink == <<all, pending>>
work == <<todo, queue, missing, unprobed, attempted>>
history == <<saved, leftover>>
vars == <<disk, day, runs, pc, run, evidence, sink, work, history>>

StageNames == {"prices", "holders", "relations"}

(***************************************************************************)
(* Bundles: the limits they were fetched under, the day of their prices,   *)
(* the families whose last request failed, the seeds their relation_legit  *)
(* has a key for, the seeds whose relation was really probed, and whether  *)
(* full enrichment ran (not for candidates the legitimacy gate excludes).  *)
(***************************************************************************)
Bundle ==
    [limits: Limits, day: 0 .. MaxDay, bad: SUBSET Families,
     known: SUBSET Seeds, probed: SUBSET Seeds, deep: BOOLEAN]

IsRows(f) == DOMAIN f \subseteq Contracts /\ f \in [DOMAIN f -> Bundle]
NoRows == [c \in {} |-> c]

Overlay(f, g) ==
    [c \in DOMAIN f \cup DOMAIN g |-> IF c \in DOMAIN g THEN g[c] ELSE f[c]]
Only(f, K) == [c \in DOMAIN f \cap K |-> f[c]]

\* st of the jsonl: "clean" ends with a newline, "open" lacks the last
\* newline, "torn" has a line that does not parse.
NoMeta == [st |-> "none", limits |-> 0, day |-> 0]
TornMeta == [st |-> "torn", limits |-> 0, day |-> 0]
NoJsonl == [st |-> "none", rows |-> NoRows]
TornJsonl == [st |-> "torn", rows |-> NoRows]
NoSnapshot == [st |-> "none", limits |-> 0, day |-> 0, rows |-> NoRows]
TornSnapshot == [st |-> "torn", limits |-> 0, day |-> 0, rows |-> NoRows]

NoRun == [limits |-> 0, day |-> 0, reg |-> [c \in Contracts |-> {}]]
NoTodo == [s \in StageNames |-> {}]
Current(reg) == {c \in Contracts : reg[c] # {}}
FullyLegit(c, reg) == \A s \in reg[c] : <<c, s>> \in Legit

-----------------------------------------------------------------------------
(***************************************************************************)
(* Reading the files.                                                      *)
(***************************************************************************)

\* load_evidence_cache_resumable: the jsonl with its meta hides the snapshot;
\* one line that does not parse fails the whole load.
Loaded ==
    IF meta.st # "none" /\ jsonl.st # "none"
    THEN IF meta.st = "ok" /\ jsonl.st # "torn"
         THEN [ok |-> TRUE, limits |-> meta.limits, day |-> meta.day, rows |-> jsonl.rows]
         ELSE [ok |-> FALSE, limits |-> 0, day |-> 0, rows |-> NoRows]
    ELSE [ok |-> snapshot.st = "ok", limits |-> snapshot.limits,
          day |-> snapshot.day, rows |-> snapshot.rows]

\* validate_evidence_cache compares the pagination limits only.
Usable(limits) == Loaded.ok /\ Loaded.limits = limits

\* reconcile_cached_relation_legit: a relation without a cached result gets
\* default signals under its key.
Reconcile(b, seeds) == [b EXCEPT !.known = seeds, !.probed = b.probed \cap seeds]

\* What the run starts from.
Resumed(limits, reg) ==
    IF Usable(limits)
    THEN [c \in DOMAIN Loaded.rows \cap Current(reg) |->
             Reconcile(Loaded.rows[c], reg[c])]
    ELSE NoRows

\* cached_evidence_needs_retry
NeedsRetry(b) == "core" \in b.bad

Missing(rows, reg) ==
    {c \in Current(reg) : c \notin DOMAIN rows \/ NeedsRetry(rows[c])}

\* As Todo, without the retry of failed holders.
TodoWithoutHolders(rows, reg, stale) ==
    LET kept == DOMAIN rows \ Missing(rows, reg) IN
    [prices |-> {c \in kept : stale \/ "prices" \in rows[c].bad},
     holders |-> {},
     relations |-> {c \in kept : ~ reg[c] \subseteq Loaded.rows[c].known}]

\* cached_prices_need_retry, cached_evm_holders_need_retry, new relations and
\* a cache of another pricing day; what is fetched anyway is left out.
Todo(rows, reg, stale) ==
    LET kept == DOMAIN rows \ Missing(rows, reg) IN
    [prices |-> {c \in kept : stale \/ "prices" \in rows[c].bad},
     holders |-> {c \in kept : "holders" \in rows[c].bad},
     relations |-> {c \in kept : ~ reg[c] \subseteq Loaded.rows[c].known}]

-----------------------------------------------------------------------------
(***************************************************************************)
(* Writing the jsonl.                                                      *)
(***************************************************************************)

\* writeln! of the rows ks of `all` at the end of file j: a line appended to
\* one without a newline becomes part of it.
Appended(j, ks) ==
    CASE ks = <<>> -> j
      [] ks # <<>> /\ j.st \in {"open", "torn"} -> TornJsonl
      [] OTHER ->
            [st |-> "clean",
             rows |-> Overlay(j.rows, Only(all, {ks[i] : i \in DOMAIN ks}))]

\* What is left when the append ends after k whole lines: the file may have
\* been created only, the next line begun, or its last newline be missing.
PartlyAppended(j, ks, k) ==
    LET opened == IF j.st = "none" THEN [j EXCEPT !.st = "clean"] ELSE j
        cut == Appended(opened, SubSeq(ks, 1, k))
    IN  {cut}
        \cup (IF k < Len(ks) THEN {TornJsonl} ELSE {})
        \cup (IF k > 0 /\ cut.st = "clean" THEN {[cut EXCEPT !.st = "open"]} ELSE {})

PartialAppends(j, ks) == UNION {PartlyAppended(j, ks, k) : k \in 0 .. Len(ks)}

\* A file written from the start in key order (by create, or by the copy that
\* stands in for a failed rename): a line cut short, or any prefix of the lines.
KeyPrefixes(rows) == {Only(rows, {c \in Contracts : c < k}) : k \in Contracts} \cup {rows}

PartialFiles(rows) ==
    {TornJsonl}
    \cup {[st |-> "clean", rows |-> r] : r \in KeyPrefixes(rows)}
    \cup {[st |-> "open", rows |-> r] : r \in KeyPrefixes(rows) \ {NoRows}}

-----------------------------------------------------------------------------
Init ==
    /\ meta = NoMeta /\ jsonl = NoJsonl /\ snapshot = NoSnapshot
    /\ day = 1
    /\ runs = 0
    /\ pc = "idle"
    /\ run = NoRun
    /\ evidence = NoRows
    /\ all = NoRows /\ pending = <<>>
    /\ todo = NoTodo /\ queue = {} /\ missing = {} /\ unprobed = {} /\ attempted = {}
    /\ saved = FALSE /\ leftover = "no"

Running == pc \notin {"idle", "done", "ended"}

\* A new run: load, validate, reconcile, and decide what to request; when
\* nothing is left the files are not touched.
Start(limits, reg) ==
    LET rows == Resumed(limits, reg)
        toFetch == Missing(rows, reg)
        toRefresh == Todo(rows, reg, Loaded.day # day)
    IN  /\ ~Running
        /\ runs < MaxRuns
        /\ runs' = runs + 1
        /\ run' = [limits |-> limits, day |-> day, reg |-> reg]
        /\ evidence' = rows
        /\ missing' = toFetch
        /\ todo' = toRefresh
        /\ pc' = IF toFetch = {} /\ toRefresh = NoTodo THEN "done" ELSE "open"
        /\ all' = NoRows /\ pending' = <<>>
        /\ queue' = {} /\ unprobed' = {} /\ attempted' = {} /\ saved' = FALSE
        /\ leftover' = IF leftover = "failed" /\ Usable(limits) THEN "read" ELSE leftover
        /\ UNCHANGED <<disk, day>>

-----------------------------------------------------------------------------
(***************************************************************************)
(* EvidenceCacheSink::create in three writes.                              *)
(***************************************************************************)

\* As OpenSink, never removing a jsonl.
OpenSinkKeeping ==
    /\ pc = "open"
    /\ pc' = "meta"
    /\ all' = IF Usable(run.limits) THEN Loaded.rows ELSE NoRows
    /\ UNCHANGED <<disk, day, runs, run, evidence, pending, work, history>>

\* The sink starts from what it can use and removes a jsonl it cannot use; an
\* error of the removal is dropped and the file stays.  `leftover` notes it
\* ("failed") until the file is gone, or for good once a run has read it.
OpenSink ==
    /\ pc = "open"
    /\ pc' = "meta"
    /\ \/ /\ Usable(run.limits)
          /\ all' = Loaded.rows
          /\ UNCHANGED <<jsonl, leftover>>
       \/ /\ ~Usable(run.limits)
          /\ all' = NoRows
          /\ jsonl' = NoJsonl
          /\ leftover' = IF leftover = "read" THEN "read" ELSE "no"
       \/ /\ ~Usable(run.limits) /\ jsonl.st # "none"
          /\ all' = NoRows
          /\ UNCHANGED jsonl
          /\ leftover' = IF leftover = "read" THEN "read" ELSE "failed"
    /\ UNCHANGED <<meta, snapshot, day, runs, run, evidence, pending, work, saved>>

WriteMeta ==
    /\ pc = "meta"
    /\ pc' = "rewrite"
    /\ meta' = [st |-> "ok", limits |-> run.limits, day |-> run.day]
    /\ UNCHANGED <<jsonl, snapshot, day, runs, run, evidence, sink, work, history>>

\* As NeedsRewrite, leaving rows that came from the snapshot there.
NeedsRewriteNever == FALSE

\* Rows that came from the snapshot get a jsonl; then the run's reconciled
\* bundles are noted (note_cached).
NeedsRewrite == jsonl.st = "none" /\ all # NoRows

RewriteJsonl ==
    /\ pc = "rewrite"
    /\ pc' = "prices"
    /\ jsonl' = IF NeedsRewrite THEN [st |-> "clean", rows |-> all] ELSE jsonl
    /\ all' = Overlay(all, evidence)
    /\ UNCHANGED <<meta, snapshot, day, runs, run, evidence, pending, work, history>>

-----------------------------------------------------------------------------
(***************************************************************************)
(* push, flush and the refreshes of cached bundles.                        *)
(***************************************************************************)

InPending(c) == \E i \in DOMAIN pending : pending[i] = c

\* push(c) with bundle b: the newest bundle of every pending key is in `all`.
Push(c, b) ==
    /\ all' = Overlay(all, [x \in {c} |-> b])
    /\ pending' = IF InPending(c) THEN pending ELSE Append(pending, c)

\* A full batch is appended before push returns.
FlushDue == Len(pending) >= BatchSize

Flush ==
    /\ FlushDue
    /\ pc \in StageNames \cup {"fetch"}
    /\ jsonl' = Appended(jsonl, pending)
    /\ pending' = <<>>
    /\ UNCHANGED <<meta, snapshot, day, runs, pc, run, evidence, all, work, history>>

\* What one refresh does to a bundle; its request may fail again.
Refreshed(stage, b, c, failed) ==
    LET bad == (b.bad \ {stage}) \cup (IF failed THEN {stage} ELSE {}) IN
    CASE stage = "prices" -> [b EXCEPT !.bad = bad, !.day = day]
      [] stage = "holders" -> [b EXCEPT !.bad = bad]
      [] OTHER -> [b EXCEPT !.bad = bad, !.known = run.reg[c],
                            !.probed = IF failed THEN {} ELSE run.reg[c]]

\* refresh_cached_prices, refresh_cached_evm_holders and
\* refresh_relation_legit return; their bundles are pushed next.
Refresh(stage, failing) ==
    /\ pc = stage
    /\ todo[stage] # {}
    /\ failing \subseteq todo[stage]
    /\ failing # {} => stage \in UNION Outcomes
    /\ evidence' = [c \in DOMAIN evidence |->
                       IF c \in todo[stage]
                       THEN Refreshed(stage, evidence[c], c, c \in failing)
                       ELSE evidence[c]]
    /\ queue' = todo[stage]
    /\ todo' = [todo EXCEPT ![stage] = {}]
    /\ attempted' = attempted \cup {<<c, stage>> : c \in todo[stage]}
    /\ UNCHANGED <<disk, day, runs, pc, run, sink, missing, unprobed, history>>

PushRefreshed(c) ==
    /\ pc \in StageNames
    /\ c \in queue
    /\ ~FlushDue
    /\ queue' = queue \ {c}
    /\ Push(c, evidence[c])
    /\ UNCHANGED <<disk, day, runs, pc, run, evidence, todo, missing, unprobed, attempted, history>>

NextStage(stage, next) ==
    /\ pc = stage
    /\ todo[stage] = {}
    /\ queue = {} /\ ~FlushDue
    /\ pc' = next
    /\ UNCHANGED <<disk, day, runs, run, evidence, sink, work, history>>

-----------------------------------------------------------------------------
(***************************************************************************)
(* enrich_candidates_with_hook and sink.finish.                            *)
(***************************************************************************)

\* prefilter_candidates probes the relations of what is missing.
Prefilter(failing) ==
    /\ pc = "relations"
    /\ todo["relations"] = {}
    /\ queue = {} /\ ~FlushDue
    /\ failing # {} => "relations" \in UNION Outcomes
    /\ unprobed' = failing
    /\ pc' = "fetch"
    /\ UNCHANGED <<disk, day, runs, run, evidence, sink, todo, queue, missing, attempted, history>>

\* Candidates the legitimacy gate excludes from full enrichment; their rows
\* are pushed before any other.  A failed probe counts as no signal.
Gated == {c \in missing \ unprobed : FullyLegit(c, run.reg)}

\* A new bundle of c, with the families whose requests failed.
Fetched(c, bad) ==
    [limits |-> run.limits, day |-> day, bad |-> bad, known |-> run.reg[c],
     probed |-> IF c \in unprobed THEN {} ELSE run.reg[c],
     deep |-> c \notin Gated]

FetchOne(c, bad) ==
    /\ pc = "fetch"
    /\ ~FlushDue
    /\ c \in missing
    /\ Gated = {} \/ c \in Gated
    /\ ("relations" \in bad) <=> (c \in unprobed)
    /\ c \in Gated => bad = {}
    /\ missing' = missing \ {c} /\ unprobed' = unprobed \ {c}
    /\ attempted' = attempted \cup {<<c, f>> : f \in (IF c \in Gated THEN {"relations"} ELSE Families)}
    /\ evidence' = Overlay(evidence, [x \in {c} |-> Fetched(c, bad)])
    /\ Push(c, Fetched(c, bad))
    /\ UNCHANGED <<disk, day, runs, pc, run, todo, queue, history>>

\* The stream is exhausted, or ends early by cancellation or an error of the
\* preflight: `missing` then keeps what was not fetched.
FetchEnds ==
    /\ pc = "fetch"
    /\ ~FlushDue
    /\ pc' = "finish"
    /\ unprobed' = {}
    /\ UNCHANGED <<disk, day, runs, run, evidence, sink, todo, queue, missing, attempted, history>>

\* The append of a full batch fails in the hook: the batch is drained, the
\* fetch ends with the error before it takes the last bundle into its result,
\* and sink.finish still runs.
FetchFlushFails ==
    /\ pc = "fetch"
    /\ FlushDue
    /\ jsonl' \in PartialAppends(jsonl, pending)
    /\ missing' = missing \cup {pending[Len(pending)]}
    /\ pending' = <<>>
    /\ pc' = "finish"
    /\ unprobed' = {}
    /\ UNCHANGED <<meta, snapshot, day, runs, run, evidence, all, todo, queue, attempted, history>>

FinishFlush ==
    /\ pc = "finish"
    /\ pc' = "snapshot"
    /\ jsonl' = Appended(jsonl, pending)
    /\ pending' = <<>>
    /\ UNCHANGED <<meta, snapshot, day, runs, run, evidence, all, work, history>>

WriteSnapshot ==
    /\ pc = "snapshot"
    /\ pc' = "compact"
    /\ snapshot' = [st |-> "ok", limits |-> run.limits, day |-> run.day, rows |-> all]
    /\ UNCHANGED <<meta, jsonl, day, runs, run, evidence, sink, work, history>>

\* fetch_result? comes after finish: an unfinished fetch ends the run here.
AfterFinish == IF missing = {} THEN "done" ELSE "ended"

\* As CompactJsonl, writing the candidates of this run only.
CompactJsonlCurrent ==
    /\ pc = "compact"
    /\ pc' = AfterFinish
    /\ jsonl' = [st |-> "clean", rows |-> evidence]
    /\ saved' = TRUE
    /\ UNCHANGED <<meta, snapshot, day, runs, run, evidence, sink, work, leftover>>

CompactJsonl ==
    /\ pc = "compact"
    /\ pc' = AfterFinish
    /\ jsonl' = [st |-> "clean", rows |-> all]
    /\ saved' = TRUE
    /\ leftover' = IF leftover = "failed" THEN "no" ELSE leftover
    /\ UNCHANGED <<meta, snapshot, day, runs, run, evidence, sink, work>>

\* finish fails in one of its three writes: the error is only logged.
FinishFails ==
    /\ \/ /\ pc = "finish"
          /\ jsonl' \in PartialAppends(jsonl, pending)
          /\ UNCHANGED snapshot
       \/ /\ pc = "snapshot"
          /\ snapshot' \in {snapshot, TornSnapshot}
          /\ UNCHANGED jsonl
       \/ /\ pc = "compact"
          /\ jsonl' \in {jsonl} \cup PartialFiles(all)
          /\ UNCHANGED snapshot
    /\ pc' = AfterFinish
    /\ pending' = <<>>
    /\ UNCHANGED <<meta, day, runs, run, evidence, all, work, history>>

-----------------------------------------------------------------------------
(***************************************************************************)
(* The end of a run without a result: a kill anywhere, or an early return  *)
(* on cancellation or an error before the fetch.  A write under way leaves *)
(* part of its bytes.                                                      *)
(***************************************************************************)
DropMemory ==
    /\ pc' = "ended"
    /\ evidence' = NoRows
    /\ all' = NoRows /\ pending' = <<>>
    /\ todo' = NoTodo /\ queue' = {} /\ missing' = {} /\ unprobed' = {} /\ attempted' = {}
    /\ UNCHANGED <<day, runs, run, history>>

\* Between two writes.
EndsIdle ==
    /\ Running
    /\ UNCHANGED disk
    /\ DropMemory

\* While the meta, the first jsonl, a batch, the rest of the batch, the
\* snapshot or the compacted jsonl is written.
EndsWriting ==
    /\ \/ /\ pc = "meta"
          /\ meta' = TornMeta
          /\ UNCHANGED <<jsonl, snapshot>>
       \/ /\ pc = "rewrite" /\ NeedsRewrite
          /\ jsonl' \in PartialFiles(all)
          /\ UNCHANGED <<meta, snapshot>>
       \/ /\ pc = "finish" \/ (FlushDue /\ pc \in StageNames \cup {"fetch"})
          /\ jsonl' \in PartialAppends(jsonl, pending)
          /\ UNCHANGED <<meta, snapshot>>
       \/ /\ pc = "snapshot"
          /\ snapshot' = TornSnapshot
          /\ UNCHANGED <<meta, jsonl>>
       \/ /\ pc = "compact"
          /\ jsonl' \in PartialFiles(all)
          /\ UNCHANGED <<meta, snapshot>>
    /\ DropMemory

NextDay ==
    /\ day < MaxDay
    /\ day' = day + 1
    /\ UNCHANGED <<disk, runs, pc, run, evidence, sink, work, history>>

Next ==
    \/ \E limits \in Limits, reg \in Registries : Start(limits, reg)
    \/ OpenSink
    \/ WriteMeta
    \/ RewriteJsonl
    \/ \E stage \in StageNames : \E failing \in SUBSET todo[stage] : Refresh(stage, failing)
    \/ \E c \in queue : PushRefreshed(c)
    \/ NextStage("prices", "holders")
    \/ NextStage("holders", "relations")
    \/ \E failing \in SUBSET missing : Prefilter(failing)
    \/ \E c \in missing, bad \in Outcomes : FetchOne(c, bad)
    \/ FetchEnds
    \/ Flush
    \/ FetchFlushFails
    \/ FinishFlush
    \/ WriteSnapshot
    \/ CompactJsonl
    \/ FinishFails
    \/ EndsIdle
    \/ EndsWriting
    \/ NextDay

Spec == Init /\ [][Next]_vars

-----------------------------------------------------------------------------
(***************************************************************************)
(* Properties.                                                             *)
(***************************************************************************)

\* The state of the files, the sink and the run keeps its types.
TypeOK ==
    /\ meta \in [st: {"none", "torn", "ok"}, limits: Limits \cup {0}, day: 0 .. MaxDay]
    /\ jsonl = [st |-> jsonl.st, rows |-> jsonl.rows]
    /\ jsonl.st \in {"none", "clean", "open", "torn"} /\ IsRows(jsonl.rows)
    /\ snapshot = [st |-> snapshot.st, limits |-> snapshot.limits,
                   day |-> snapshot.day, rows |-> snapshot.rows]
    /\ snapshot.st \in {"none", "torn", "ok"} /\ snapshot.limits \in Limits \cup {0}
    /\ snapshot.day \in 0 .. MaxDay /\ IsRows(snapshot.rows)
    /\ day \in 1 .. MaxDay
    /\ runs \in 0 .. MaxRuns
    /\ pc \in {"idle", "open", "meta", "rewrite", "fetch", "finish", "snapshot",
               "compact", "done", "ended"} \cup StageNames
    /\ run \in [limits: Limits \cup {0}, day: 0 .. MaxDay, reg: [Contracts -> SUBSET Seeds]]
    /\ IsRows(evidence) /\ IsRows(all)
    /\ pending \in Seq(Contracts)
    /\ todo \in [StageNames -> SUBSET Contracts]
    /\ queue \subseteq Contracts /\ missing \subseteq Contracts /\ unprobed \subseteq Contracts
    /\ attempted \subseteq Contracts \X Families
    /\ saved \in BOOLEAN
    /\ leftover \in {"no", "failed", "read"}

\* Bundles of other pagination limits get under a meta only when create could
\* not remove the old jsonl (its error is dropped), and into a run only when
\* the run that met the error did not live to compact the jsonl.  No kill, torn
\* file or other failing write mixes them (validate_evidence_cache, create).
MixesOnlyAfterFailedRemoval ==
    /\ leftover # "read" => \A c \in DOMAIN evidence : evidence[c].limits = run.limits
    /\ leftover = "no" /\ Loaded.ok =>
          \A c \in DOMAIN Loaded.rows : Loaded.rows[c].limits = Loaded.limits

\* A write that ended early and left the next run a file it refuses whole (a
\* torn meta over a jsonl; a line cut short, or joined to one without a newline;
\* a torn file that could not be removed) or the first rows of a jsonl that
\* hides the snapshot.
CutShort ==
    \/ jsonl'.st = "torn"
    \/ pc = "meta" /\ meta'.st = "torn"
    \/ pc \in {"rewrite", "compact"} /\ jsonl' # jsonl

\* The append of a batch failed during the fetch: its last contract was
\* requested and is missing all the same.
AppendFailed == \E c \in missing, f \in Families : <<c, f>> \in attempted

\* The step ends a run without a result, in no write cut short: the next run
\* of its limits reads every bundle of the sink but the pending ones, which are
\* at most a batch, in its newest version.
EndLosesOneBatch ==
    pc' = "ended" /\ pc \notin {"idle", "open", "done", "ended"} /\ ~AppendFailed =>
        \/ CutShort
        \/ /\ Len(pending) <= BatchSize
           /\ \A c \in DOMAIN all \ {pending[i] : i \in DOMAIN pending} :
                 /\ Usable(run.limits)'
                 /\ c \in DOMAIN Loaded'.rows
                 /\ Loaded'.rows[c].bad = all[c].bad /\ Loaded'.rows[c].day = all[c].day

\* EvidenceCacheSink: a run that ends without a result loses at most a batch
\* (or instead the batch it could not append), also of what was loaded from the
\* snapshot, which a jsonl hides; unless its end cut a write short, or an
\* earlier cut left a torn line: those lose the whole jsonl.
KillLosesOneBatchUnlessCut == [][EndLosesOneBatch]_vars

\* Once sink.finish returned Ok the files give the next run exactly the
\* bundles of this one, also when the fetch was cancelled or failed ("Flush
\* even on cancel / error so partial progress is reusable").
FinishedIsResumable ==
    saved =>
        /\ Loaded.ok /\ Loaded.limits = run.limits /\ Loaded.rows = all
        /\ pc = "done" => Only(all, Current(run.reg)) = evidence

\* A completed run has evidence for every candidate, and what is marked failed
\* in a family with a retry rule (cached_evidence_needs_retry,
\* cached_prices_need_retry, cached_evm_holders_need_retry) was requested in
\* this run.  Failed probes and controllers have no rule and are reused.
RetriedWhenFailed ==
    pc = "done" =>
        /\ DOMAIN evidence = Current(run.reg)
        /\ \A c \in DOMAIN evidence : \A f \in evidence[c].bad \cap Retried : <<c, f>> \in attempted

\* analysis2/README.md: "new seed relations, stale prices, and retryable
\* failed fields are selectively refreshed": a completed run works with prices
\* of its day and with probed relations.
RefreshedWhenStale ==
    pc = "done" =>
        \A c \in DOMAIN evidence :
            evidence[c].day >= run.day /\ run.reg[c] \subseteq evidence[c].probed

\* enrich/legit_detect.rs: "A candidate is excluded from full enrichment only
\* when every seed relation has a positive official/interaction signal".
ExcludedOnlyWhenLegit ==
    pc = "done" =>
        \A c \in DOMAIN evidence : evidence[c].deep \/ FullyLegit(c, run.reg)
=============================================================================
