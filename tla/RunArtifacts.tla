---------------------------- MODULE RunArtifacts ----------------------------
(***************************************************************************)
(* The run directory: ContractWriter, write_final_reports, finish_success   *)
(* and the atomic_write functions, with crashes of the machine at any step  *)
(* and new processes that find what the last one left.                      *)
(*                                                                          *)
(* A file is absent, volatile (complete, but only in the page cache),       *)
(* durable, or torn (a crash kept the name and lost the content).  The      *)
(* file system is external: rename is atomic, a crash keeps any part of     *)
(* what is not durable, syncfs and fsync make things durable.               *)
(*                                                                          *)
(* pc    create, manifest, artifacts, reports, unstage, sync, mark          *)
(*       (_SUCCESS is renamed), settle (its directory is synced), done      *)
(*       failed   run returned an error                                     *)
(*       crashed  the machine went down                                     *)
(***************************************************************************)
EXTENDS Integers, Sequences, FiniteSets

CONSTANTS
    Artifacts,      \* one per candidate
    Reports,        \* the sequence of final reports
    Attempts,       \* attempts of ContractWriter::write
    MaxRuns         \* bound: processes started

Manifest == "run_manifest.json"
Success == "_SUCCESS"
ReportNames == {Reports[i] : i \in DOMAIN Reports}
Content == Artifacts \cup ReportNames \cup {Manifest}
Files == Content \cup {Success}

ASSUME ArtifactsAssumption ==
    /\ IsFiniteSet(Artifacts)
    /\ Attempts \in Nat \ {0}
    /\ MaxRuns \in Nat \ {0}
    /\ Reports \in Seq(ReportNames)
    /\ Artifacts \cap ReportNames = {}
    /\ {Manifest, Success} \cap (Artifacts \cup ReportNames) = {}

VARIABLES
    pc,
    run,        \* the number of the process; every process has the same run_id
    directory,  \* run_dir: absent, volatile or durable
    file,       \* file[f]
    by,         \* by[f]: the process that wrote it
    staging,    \* artifacts with a file in .staging
    failures,   \* failures[a]: failed attempts to rename a
    reported    \* final reports written

vars == <<pc, run, directory, file, by, staging, failures, reported>>

Put(f, how) ==
    /\ file' = [file EXCEPT ![f] = how]
    /\ by' = [by EXCEPT ![f] = run]

Error == pc' = "failed"

-----------------------------------------------------------------------------

\* As CreateRun with a directory that may already be there.
CreateRunAll ==
    /\ pc = "create"
    /\ directory' = IF directory = "absent" THEN "volatile" ELSE directory
    /\ pc' = "manifest"
    /\ UNCHANGED <<run, file, by, staging, failures, reported>>

\* ContractWriter::create: create_dir refuses a directory that exists (or fails
\* otherwise); a subdirectory that cannot be made leaves run_dir behind.
CreateRun ==
    /\ pc = "create"
    /\ \/ /\ directory = "absent"
          /\ directory' = "volatile"
          /\ pc' = "manifest" \/ Error
       \/ Error /\ UNCHANGED directory
    /\ UNCHANGED <<run, file, by, staging, failures, reported>>

\* atomic_write_stream_deferred: temporary file, flush, rename; no fsync.
WriteDeferred(f, next) ==
    \/ Put(f, "volatile") /\ pc' = next
    \/ Error /\ UNCHANGED <<file, by>>

WriteManifest ==
    /\ pc = "manifest"
    /\ WriteDeferred(Manifest, "artifacts")
    /\ UNCHANGED <<run, directory, staging, failures, reported>>

\* serialize_to_staging on a CPU worker; a failed one removes its file.
Stage(a) ==
    /\ pc = "artifacts"
    /\ a \notin staging
    /\ file[a] # "volatile"
    /\ \/ staging' = staging \cup {a} /\ UNCHANGED pc
       \/ Error /\ UNCHANGED staging
    /\ UNCHANGED <<run, directory, file, by, failures, reported>>

\* write_attempt: the staged payload is renamed to its final name.
WriteAttempt(a) ==
    /\ pc = "artifacts"
    /\ a \in staging
    /\ Put(a, "volatile")
    /\ staging' = staging \ {a}
    /\ UNCHANGED <<pc, run, directory, failures, reported>>

\* After the last attempt the staging file is removed and the run fails.
WriteAttemptFails(a) ==
    /\ pc = "artifacts"
    /\ a \in staging
    /\ failures' = [failures EXCEPT ![a] = @ + 1]
    /\ IF failures[a] + 1 < Attempts
       THEN UNCHANGED <<pc, staging>>
       ELSE Error /\ staging' = staging \ {a}
    /\ UNCHANGED <<run, directory, file, by, reported>>

\* As CandidatesDone when a staged payload counts as written.
CandidatesDoneEarly ==
    /\ pc = "artifacts"
    /\ \A a \in Artifacts : file[a] = "volatile" \/ a \in staging
    /\ pc' = "reports"
    /\ UNCHANGED <<run, directory, file, by, staging, failures, reported>>

\* process_candidates returned Ok: every candidate is indexed.
CandidatesDone ==
    /\ pc = "artifacts"
    /\ \A a \in Artifacts : file[a] = "volatile"
    /\ pc' = "reports"
    /\ UNCHANGED <<run, directory, file, by, staging, failures, reported>>

\* Any other error of the run: dedup, memory budget, a failed state check.
PipelineFails ==
    /\ pc = "artifacts"
    /\ Error
    /\ UNCHANGED <<run, directory, file, by, staging, failures, reported>>

\* write_final_reports: one report after the other.
WriteReport ==
    /\ pc = "reports"
    /\ reported < Len(Reports)
    /\ WriteDeferred(Reports[reported + 1], "reports")
    /\ reported' = reported + 1
    /\ UNCHANGED <<run, directory, staging, failures>>

ReportsDone ==
    /\ pc = "reports"
    /\ reported = Len(Reports)
    /\ pc' = "unstage"
    /\ UNCHANGED <<run, directory, file, by, staging, failures, reported>>

-----------------------------------------------------------------------------
(* finish_success *)

\* remove_dir fails unless .staging is empty.
RemoveStaging ==
    /\ pc = "unstage"
    /\ (staging = {} /\ pc' = "sync") \/ Error
    /\ UNCHANGED <<run, directory, file, by, staging, failures, reported>>

\* As SyncRunData without the barrier.
SyncNothing ==
    /\ pc = "sync"
    /\ pc' = "mark"
    /\ UNCHANGED <<run, directory, file, by, staging, failures, reported>>

\* sync_run_data: syncfs
SyncRunData ==
    /\ pc = "sync"
    /\ \/ /\ file' = [f \in Files |-> IF file[f] = "volatile" THEN "durable" ELSE file[f]]
          /\ directory' = "durable"
          /\ pc' = "mark"
       \/ Error /\ UNCHANGED <<file, directory>>
    /\ UNCHANGED <<run, by, staging, failures, reported>>

\* atomic_write(_SUCCESS): the temporary is synced, then renamed, so that a
\* crash cannot really tear it; Surviving allows that as well.
MarkSuccess ==
    /\ pc = "mark"
    /\ \/ Put(Success, "volatile") /\ pc' = "settle"
       \/ Error /\ UNCHANGED <<file, by>>
    /\ UNCHANGED <<run, directory, staging, failures, reported>>

\* As SettleSuccess without the directory sync (atomic_write_deferred).
SettleNothing ==
    /\ pc = "settle"
    /\ pc' = "done"
    /\ UNCHANGED <<run, directory, file, by, staging, failures, reported>>

\* sync_directory of the parent.  When it fails the marker stays.
SettleSuccess ==
    /\ pc = "settle"
    /\ \/ Put(Success, "durable") /\ pc' = "done"
       \/ Error /\ UNCHANGED <<file, by>>
    /\ UNCHANGED <<run, directory, staging, failures, reported>>

-----------------------------------------------------------------------------
(* The machine *)

Surviving(how) ==
    CASE how = "volatile" -> {"absent", "torn", "durable"}
      [] how = "torn"     -> {"torn"}
      [] OTHER            -> {how}

Crash ==
    /\ pc # "crashed"
    /\ pc' = "crashed"
    /\ directory' \in Surviving(directory) \ {"torn"}
    /\ \E kept \in [Files -> {"absent", "torn", "durable"}] :
         /\ \A f \in Files : kept[f] \in Surviving(file[f])
         /\ directory' = "absent" => \A f \in Files : kept[f] = "absent"
         /\ file' = kept
    /\ UNCHANGED <<run, by, staging, failures, reported>>

\* A new process; deterministic_run_id gives it the same directory.
Restart ==
    /\ pc \in {"failed", "crashed", "done"}
    /\ run < MaxRuns
    /\ run' = run + 1
    /\ pc' = "create"
    /\ staging' = {}
    /\ failures' = [a \in Artifacts |-> 0]
    /\ reported' = 0
    /\ UNCHANGED <<directory, file, by>>

Init ==
    /\ pc = "create"
    /\ run = 1
    /\ directory = "absent"
    /\ file = [f \in Files |-> "absent"]
    /\ by = [f \in Files |-> 0]
    /\ staging = {}
    /\ failures = [a \in Artifacts |-> 0]
    /\ reported = 0

Process ==
    \/ CreateRun \/ WriteManifest
    \/ \E a \in Artifacts : Stage(a) \/ WriteAttempt(a) \/ WriteAttemptFails(a)
    \/ CandidatesDone \/ PipelineFails \/ WriteReport \/ ReportsDone
    \/ RemoveStaging \/ SyncRunData \/ MarkSuccess \/ SettleSuccess

Next == Process \/ Crash \/ Restart

Spec == Init /\ [][Next]_vars

-----------------------------------------------------------------------------
(* Properties *)

Present(f) == file[f] # "absent"
Complete(f) == file[f] \in {"volatile", "durable"}

\* Type invariant.
TypeOK ==
    /\ pc \in {"create", "manifest", "artifacts", "reports", "unstage", "sync",
               "mark", "settle", "done", "failed", "crashed"}
    /\ run \in 1 .. MaxRuns
    /\ directory \in {"absent", "volatile", "durable"}
    /\ file \in [Files -> {"absent", "volatile", "durable", "torn"}]
    /\ by \in [Files -> 0 .. MaxRuns]
    /\ staging \subseteq Artifacts
    /\ failures \in [Artifacts -> 0 .. Attempts]
    /\ reported \in 0 .. Len(Reports)

\* A run directory with _SUCCESS is whole, whenever the machine went down:
\* every artifact and every report is there and none is torn.
SuccessMeansAll == Present(Success) => \A f \in Content : Complete(f)

\* Once run returns Ok nothing of it can be lost any more.
DoneIsDurable == pc = "done" => \A f \in Files : file[f] = "durable"

\* What one process left is never mixed with what another one writes: all
\* files of the directory come from the same process.
OneRunPerDirectory ==
    \A f, g \in Files : Present(f) /\ Present(g) => by[f] = by[g]

\* The run never ends in remove_dir because of a staged payload left behind.
NothingLeftStaged == pc = "unstage" => staging = {}

-----------------------------------------------------------------------------
(* The inductive invariant of the proofs *)

\* The process owns its directory: create_dir has succeeded.
Owner ==
    pc \in {"manifest", "artifacts", "reports", "unstage", "sync", "mark", "settle", "done"}

\* What has been written before each point of the run.
Progress ==
    /\ pc = "manifest" => \A f \in Files : file[f] = "absent"
    /\ pc \in {"artifacts", "reports", "unstage", "sync"} => file[Manifest] = "volatile"
    /\ pc = "artifacts" => \A a \in staging : file[a] # "volatile"
    /\ pc \in {"reports", "unstage", "sync"} => \A a \in Artifacts : file[a] = "volatile"
    /\ pc \in {"reports", "unstage", "sync"} => staging = {}
    /\ pc \in {"create", "manifest", "artifacts"} => reported = 0
    /\ pc \in {"create", "manifest", "artifacts"} => \A a \in Artifacts : failures[a] < Attempts
    /\ pc = "reports" => \A i \in 1 .. reported : file[Reports[i]] = "volatile"
    /\ pc \in {"unstage", "sync"} => \A f \in ReportNames : file[f] = "volatile"
    /\ pc \in {"manifest", "artifacts", "reports", "unstage", "sync", "mark"} => ~Present(Success)
    /\ pc \in {"mark", "settle", "done"} => \A f \in Content : file[f] = "durable"
    /\ pc = "done" => file[Success] = "durable"

\* Nothing is in a directory that is not there, and a marked directory is
\* there for good.
DirectoryHolds ==
    /\ Owner => directory # "absent"
    /\ directory = "absent" => \A f \in Files : file[f] = "absent"
    /\ pc \in {"mark", "settle", "done"} => directory = "durable"
    /\ Present(Success) => directory = "durable" /\ \A f \in Content : file[f] = "durable"

\* A directory's files are those of one process, the owner's if it runs.
FilesOfOneRun ==
    /\ OneRunPerDirectory
    /\ Owner => \A f \in Files : Present(f) => by[f] = run

ArtifactsInv ==
    /\ TypeOK
    /\ Progress
    /\ DirectoryHolds
    /\ FilesOfOneRun

=============================================================================
