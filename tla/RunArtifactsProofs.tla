------------------------- MODULE RunArtifactsProofs -------------------------
(***************************************************************************)
(* For every set of artifacts, every list of reports and any number of      *)
(* attempts and processes: a marked run directory is whole, a finished run  *)
(* is durable and no directory mixes two runs.  One induction over          *)
(* ArtifactsInv.                                                            *)
(***************************************************************************)
EXTENDS RunArtifacts, TLAPS

\* The names of a run directory: the marker is not among the content.
LEMMA FileNames ==
    /\ Manifest \in Content /\ Success \in Files /\ Success \notin Content
    /\ Content \subseteq Files /\ Artifacts \subseteq Content /\ ReportNames \subseteq Content
    /\ Manifest \notin Artifacts /\ Manifest \notin ReportNames
    /\ Artifacts \cap ReportNames = {}
    /\ Files = Content \cup {Success}
    /\ Content = Artifacts \cup ReportNames \cup {Manifest}
<1>1. Manifest # Success
  BY DEF Manifest, Success
<1> QED
  BY <1>1, ArtifactsAssumption DEF Content, Files

\* The reports are numbered from one.
LEMMA ReportNumbers ==
    /\ Len(Reports) \in Nat
    /\ \A i \in 1 .. Len(Reports) : Reports[i] \in ReportNames
    /\ \A f \in ReportNames : \E i \in 1 .. Len(Reports) : Reports[i] = f
<1>1. Reports \in Seq(ReportNames)
  BY ArtifactsAssumption
<1>2. Len(Reports) \in Nat /\ DOMAIN Reports = 1 .. Len(Reports)
  BY <1>1
<1> QED
  BY <1>2 DEF ReportNames

\* What a crash keeps: what is durable stays, what is absent does not appear,
\* nothing is volatile afterwards, and no file outlives its directory.
LEMMA CrashKeeps ==
    ASSUME TypeOK, Crash
    PROVE  /\ file' \in [Files -> {"absent", "torn", "durable"}]
           /\ \A f \in Files : file[f] = "durable" => file'[f] = "durable"
           /\ \A f \in Files : file[f] = "absent" => file'[f] = "absent"
           /\ directory' \in {"absent", "durable"}
           /\ directory = "durable" => directory' = "durable"
           /\ directory = "absent" => directory' = "absent"
           /\ directory' = "absent" => \A f \in Files : file'[f] = "absent"
<1>1. /\ directory \in {"absent", "volatile", "durable"}
      /\ file \in [Files -> {"absent", "volatile", "durable", "torn"}]
  BY DEF TypeOK
<1>2. PICK kept \in [Files -> {"absent", "torn", "durable"}] :
        /\ \A f \in Files : kept[f] \in Surviving(file[f])
        /\ directory' = "absent" => \A f \in Files : kept[f] = "absent"
        /\ file' = kept
  BY DEF Crash
<1>3. /\ Surviving("absent") = {"absent"}
      /\ Surviving("durable") = {"durable"}
      /\ Surviving("volatile") = {"absent", "torn", "durable"}
  BY DEF Surviving
<1>4. directory' \in Surviving(directory) \ {"torn"}
  BY DEF Crash
<1>5. /\ directory' \in {"absent", "durable"}
      /\ directory = "durable" => directory' = "durable"
      /\ directory = "absent" => directory' = "absent"
  BY <1>1, <1>3, <1>4
<1>6. \A f \in Files : file[f] = "durable" => file'[f] = "durable"
  BY <1>2, <1>3
<1>7. \A f \in Files : file[f] = "absent" => file'[f] = "absent"
  BY <1>2, <1>3
<1> QED
  BY <1>2, <1>5, <1>6, <1>7

\* The initial state satisfies the inductive invariant.
LEMMA InitInv == Init => ArtifactsInv
<1> SUFFICES ASSUME Init PROVE ArtifactsInv
  OBVIOUS
<1> USE ArtifactsAssumption, FileNames, ReportNumbers DEF Init
<1>1. TypeOK
  BY DEF TypeOK
<1>2. Progress
  BY DEF Progress
<1>3. DirectoryHolds
  BY DEF DirectoryHolds, Owner, Present
<1>4. FilesOfOneRun
  BY DEF FilesOfOneRun, OneRunPerDirectory, Owner, Present
<1> QED
  BY <1>1, <1>2, <1>3, <1>4 DEF ArtifactsInv

\* What writing a file does to the directory.
LEMMA PutWrites ==
    ASSUME TypeOK, NEW f \in Files, NEW how \in {"volatile", "durable"}, Put(f, how)
    PROVE  /\ file' \in [Files -> {"absent", "volatile", "durable", "torn"}]
           /\ by' \in [Files -> 0 .. MaxRuns]
           /\ file'[f] = how /\ by'[f] = run
           /\ \A g \in Files : g # f => file'[g] = file[g] /\ by'[g] = by[g]
<1>1. /\ file \in [Files -> {"absent", "volatile", "durable", "torn"}]
      /\ by \in [Files -> 0 .. MaxRuns] /\ run \in 0 .. MaxRuns
  BY ArtifactsAssumption DEF TypeOK
<1> QED
  BY <1>1 DEF Put

\* Every step keeps the types.
LEMMA TypeStep ==
    ASSUME ArtifactsInv, Next
    PROVE  TypeOK'
<1>0. TypeOK
  BY DEF ArtifactsInv
<1>1. CASE CreateRun
  BY <1>0, <1>1 DEF CreateRun, Error, TypeOK
<1>2. CASE WriteManifest
  <2>1. CASE Put(Manifest, "volatile") /\ pc' = "artifacts"
    BY <1>0, <1>2, <2>1, PutWrites, FileNames DEF WriteManifest, TypeOK
  <2>2. CASE Error /\ UNCHANGED <<file, by>>
    BY <1>0, <1>2, <2>2 DEF WriteManifest, Error, TypeOK
  <2> QED
    BY <1>2, <2>1, <2>2 DEF WriteManifest, WriteDeferred
<1>3. ASSUME NEW a \in Artifacts, Stage(a)
      PROVE  TypeOK'
  BY <1>0, <1>3 DEF Stage, Error, TypeOK
<1>4. ASSUME NEW a \in Artifacts, WriteAttempt(a)
      PROVE  TypeOK'
  BY <1>0, <1>4, PutWrites, FileNames DEF WriteAttempt, TypeOK
<1>5. ASSUME NEW a \in Artifacts, WriteAttemptFails(a)
      PROVE  TypeOK'
  <2>1. failures[a] \in 0 .. Attempts /\ failures[a] < Attempts
    BY <1>0, <1>5 DEF WriteAttemptFails, TypeOK, ArtifactsInv, Progress
  <2>2. failures' \in [Artifacts -> 0 .. Attempts]
    BY <1>0, <1>5, <2>1, ArtifactsAssumption DEF WriteAttemptFails, TypeOK
  <2> QED
    BY <1>0, <1>5, <2>2 DEF WriteAttemptFails, Error, TypeOK
<1>6. CASE CandidatesDone \/ PipelineFails \/ ReportsDone \/ RemoveStaging
  BY <1>0, <1>6 DEF CandidatesDone, PipelineFails, ReportsDone, RemoveStaging, Error, TypeOK
<1>7. CASE WriteReport
  <2>1. reported \in 0 .. Len(Reports) /\ reported < Len(Reports)
    BY <1>0, <1>7 DEF WriteReport, TypeOK
  <2>2. Reports[reported + 1] \in Files /\ reported + 1 \in 0 .. Len(Reports)
    BY <2>1, ReportNumbers, FileNames
  <2>3. CASE Put(Reports[reported + 1], "volatile") /\ pc' = "reports"
    BY <1>0, <1>7, <2>2, <2>3, PutWrites DEF WriteReport, TypeOK
  <2>4. CASE Error /\ UNCHANGED <<file, by>>
    BY <1>0, <1>7, <2>2, <2>4 DEF WriteReport, Error, TypeOK
  <2> QED
    BY <1>7, <2>3, <2>4 DEF WriteReport, WriteDeferred
<1>8. CASE SyncRunData
  BY <1>0, <1>8 DEF SyncRunData, Error, TypeOK
<1>9. CASE MarkSuccess
  <2>1. CASE Put(Success, "volatile") /\ pc' = "settle"
    BY <1>0, <1>9, <2>1, PutWrites, FileNames DEF MarkSuccess, TypeOK
  <2>2. CASE Error /\ UNCHANGED <<file, by>>
    BY <1>0, <1>9, <2>2 DEF MarkSuccess, Error, TypeOK
  <2> QED
    BY <1>9, <2>1, <2>2 DEF MarkSuccess
<1>10. CASE SettleSuccess
  <2>1. CASE Put(Success, "durable") /\ pc' = "done"
    BY <1>0, <1>10, <2>1, PutWrites, FileNames DEF SettleSuccess, TypeOK
  <2>2. CASE Error /\ UNCHANGED <<file, by>>
    BY <1>0, <1>10, <2>2 DEF SettleSuccess, Error, TypeOK
  <2> QED
    BY <1>10, <2>1, <2>2 DEF SettleSuccess
<1>11. CASE Crash
  <2>1. file' \in [Files -> {"absent", "volatile", "durable", "torn"}]
    BY <1>0, <1>11, CrashKeeps
  <2>2. directory' \in {"absent", "volatile", "durable"}
    BY <1>0, <1>11, CrashKeeps
  <2> QED
    BY <1>0, <1>11, <2>1, <2>2 DEF Crash, TypeOK
<1>12. CASE Restart
  BY <1>0, <1>12, ArtifactsAssumption, ReportNumbers DEF Restart, TypeOK
<1> QED
  BY <1>1, <1>2, <1>3, <1>4, <1>5, <1>6, <1>7, <1>8, <1>9, <1>10, <1>11, <1>12
     DEF Next, Process

\* The steps that end the process or only move on, and change no file.
LEMMA FailureKeeps ==
    ASSUME ArtifactsInv, pc' = "failed", UNCHANGED <<run, directory, file, by>>
    PROVE  Progress' /\ DirectoryHolds' /\ FilesOfOneRun'
<1>1. Progress'
  BY DEF Progress
<1>2. DirectoryHolds'
  BY DEF ArtifactsInv, DirectoryHolds, Owner, Present
<1>3. FilesOfOneRun'
  BY DEF ArtifactsInv, FilesOfOneRun, OneRunPerDirectory, Owner, Present
<1> QED
  BY <1>1, <1>2, <1>3

\* Writing one file of the content keeps the directory's invariants as long
\* as the marker is not there.
LEMMA PutContentKeeps ==
    ASSUME ArtifactsInv, Owner, Owner', pc' \notin {"mark", "settle", "done"},
           ~Present(Success), NEW f \in Content, Put(f, "volatile"),
           UNCHANGED <<run, directory>>
    PROVE  DirectoryHolds' /\ FilesOfOneRun' /\ ~Present(Success)'
<1>1. /\ file'[f] = "volatile" /\ by'[f] = run
      /\ \A g \in Files : g # f => file'[g] = file[g] /\ by'[g] = by[g]
  BY PutWrites, FileNames DEF ArtifactsInv
<1>2. ~Present(Success)'
  BY <1>1, FileNames DEF Present
<1>3. DirectoryHolds'
  BY <1>2 DEF ArtifactsInv, DirectoryHolds
<1>4. \A g \in Files : Present(g)' => by'[g] = run
  BY <1>1 DEF ArtifactsInv, FilesOfOneRun, Present
<1>5. FilesOfOneRun'
  BY <1>4 DEF FilesOfOneRun, OneRunPerDirectory
<1> QED
  BY <1>2, <1>3, <1>5

\* Every step keeps Progress, DirectoryHolds and FilesOfOneRun.
LEMMA OrderOfWrites ==
    ASSUME ArtifactsInv, Next
    PROVE  Progress' /\ DirectoryHolds' /\ FilesOfOneRun'
<1>0. TypeOK /\ Progress /\ DirectoryHolds /\ FilesOfOneRun
  BY DEF ArtifactsInv
<1>1. CASE CreateRun
  <2>1. CASE directory = "absent" /\ directory' = "volatile" /\ pc' = "manifest"
    <3>1. pc = "create" /\ UNCHANGED <<run, file, by, staging, failures, reported>>
      BY <1>1 DEF CreateRun
    <3>2. \A f \in Files : file[f] = "absent"
      BY <1>0, <2>1 DEF DirectoryHolds
    <3>3. Progress'
      BY <1>0, <2>1, <3>1, <3>2, FileNames DEF Progress, Present
    <3>4. DirectoryHolds' /\ FilesOfOneRun'
      BY <2>1, <3>1, <3>2, FileNames
         DEF DirectoryHolds, FilesOfOneRun, OneRunPerDirectory, Owner, Present
    <3> QED
      BY <3>3, <3>4
  <2>2. CASE directory = "absent" /\ directory' = "volatile" /\ Error
    <3>1. pc' = "failed" /\ UNCHANGED <<run, file, by>>
      BY <1>1, <2>2 DEF CreateRun, Error
    <3>2. \A f \in Files : file[f] = "absent"
      BY <1>0, <2>2 DEF DirectoryHolds
    <3>3. Progress'
      BY <3>1 DEF Progress
    <3>4. DirectoryHolds' /\ FilesOfOneRun'
      BY <2>2, <3>1, <3>2, FileNames
         DEF DirectoryHolds, FilesOfOneRun, OneRunPerDirectory, Owner, Present
    <3> QED
      BY <3>3, <3>4
  <2>3. CASE Error /\ UNCHANGED directory
    BY <1>1, <2>3, FailureKeeps DEF CreateRun, Error
  <2> QED
    BY <1>1, <2>1, <2>2, <2>3 DEF CreateRun
<1>2. CASE WriteManifest
  <2>1. CASE Put(Manifest, "volatile") /\ pc' = "artifacts"
    <3>1. pc = "manifest" /\ UNCHANGED <<run, directory, staging, failures, reported>>
      BY <1>2 DEF WriteManifest
    <3>2. ~Present(Success)
      BY <1>0, <3>1 DEF Progress
    <3>3. DirectoryHolds' /\ FilesOfOneRun' /\ ~Present(Success)'
      BY <2>1, <3>1, <3>2, FileNames, PutContentKeeps DEF Owner
    <3>4. /\ file'[Manifest] = "volatile"
          /\ \A g \in Files : g # Manifest => file'[g] = "absent"
      BY <1>0, <2>1, <3>1, PutWrites, FileNames DEF Progress
    <3>5. \A a \in staging : file'[a] # "volatile"
      BY <1>0, <3>4, FileNames DEF TypeOK
    <3>6. Progress'
      BY <1>0, <2>1, <3>1, <3>3, <3>4, <3>5 DEF Progress
    <3> QED
      BY <3>3, <3>6
  <2>2. CASE Error /\ UNCHANGED <<file, by>>
    BY <1>2, <2>2, FailureKeeps DEF WriteManifest, Error
  <2> QED
    BY <1>2, <2>1, <2>2 DEF WriteManifest, WriteDeferred
<1>3. ASSUME NEW a \in Artifacts, Stage(a)
      PROVE  Progress' /\ DirectoryHolds' /\ FilesOfOneRun'
  <2>1. CASE staging' = staging \cup {a} /\ UNCHANGED pc
    <3>1. /\ pc = "artifacts" /\ file[a] # "volatile"
          /\ UNCHANGED <<run, directory, file, by, failures, reported>>
      BY <1>3 DEF Stage
    <3>2. Progress'
      BY <1>0, <2>1, <3>1 DEF Progress, Present
    <3>3. DirectoryHolds' /\ FilesOfOneRun'
      BY <1>0, <2>1, <3>1 DEF DirectoryHolds, FilesOfOneRun, OneRunPerDirectory, Owner, Present
    <3> QED
      BY <3>2, <3>3
  <2>2. CASE Error /\ UNCHANGED staging
    BY <1>3, <2>2, FailureKeeps DEF Stage, Error
  <2> QED
    BY <1>3, <2>1, <2>2 DEF Stage
<1>4. ASSUME NEW a \in Artifacts, WriteAttempt(a)
      PROVE  Progress' /\ DirectoryHolds' /\ FilesOfOneRun'
  <2>1. /\ pc = "artifacts" /\ pc' = pc /\ Put(a, "volatile") /\ staging' = staging \ {a}
        /\ UNCHANGED <<run, directory, failures, reported>>
    BY <1>4 DEF WriteAttempt
  <2>2. ~Present(Success)
    BY <1>0, <2>1 DEF Progress
  <2>3. DirectoryHolds' /\ FilesOfOneRun' /\ ~Present(Success)'
    BY <2>1, <2>2, FileNames, PutContentKeeps DEF Owner
  <2>4. \A g \in Files : g # a => file'[g] = file[g]
    BY <1>0, <2>1, PutWrites, FileNames
  <2>5. file'[Manifest] = "volatile" /\ \A b \in staging' : file'[b] # "volatile"
    BY <1>0, <2>1, <2>4, FileNames DEF Progress, TypeOK
  <2>6. Progress'
    BY <1>0, <2>1, <2>3, <2>5 DEF Progress
  <2> QED
    BY <2>3, <2>6
<1>5. ASSUME NEW a \in Artifacts, WriteAttemptFails(a)
      PROVE  Progress' /\ DirectoryHolds' /\ FilesOfOneRun'
  <2>1. CASE failures[a] + 1 < Attempts
    <3>1. /\ pc = "artifacts" /\ failures' = [failures EXCEPT ![a] = @ + 1]
          /\ UNCHANGED <<pc, staging, run, directory, file, by, reported>>
      BY <1>5, <2>1 DEF WriteAttemptFails
    <3>2. \A b \in Artifacts : failures'[b] < Attempts
      BY <1>0, <2>1, <3>1 DEF Progress, TypeOK
    <3>3. Progress'
      BY <1>0, <3>1, <3>2 DEF Progress, Present
    <3>4. DirectoryHolds' /\ FilesOfOneRun'
      BY <1>0, <3>1 DEF DirectoryHolds, FilesOfOneRun, OneRunPerDirectory, Owner, Present
    <3> QED
      BY <3>3, <3>4
  <2>2. CASE ~(failures[a] + 1 < Attempts)
    BY <1>5, <2>2, FailureKeeps DEF WriteAttemptFails, Error
  <2> QED
    BY <2>1, <2>2
<1>6. CASE CandidatesDone
  <2>1. /\ pc = "artifacts" /\ pc' = "reports" /\ \A a \in Artifacts : file[a] = "volatile"
        /\ UNCHANGED <<run, directory, file, by, staging, failures, reported>>
    BY <1>6 DEF CandidatesDone
  <2>2. staging = {} /\ reported = 0
    BY <1>0, <2>1 DEF Progress, TypeOK
  <2>3. Progress'
    BY <1>0, <2>1, <2>2 DEF Progress, Present
  <2>4. DirectoryHolds' /\ FilesOfOneRun'
    BY <1>0, <2>1 DEF DirectoryHolds, FilesOfOneRun, OneRunPerDirectory, Owner, Present
  <2> QED
    BY <2>3, <2>4
<1>7. CASE PipelineFails
  BY <1>7, FailureKeeps DEF PipelineFails, Error
<1>8. CASE WriteReport
  <2> DEFINE f == Reports[reported + 1]
  <2>1. /\ pc = "reports" /\ reported' = reported + 1
        /\ UNCHANGED <<run, directory, staging, failures>>
        /\ reported \in 0 .. Len(Reports) /\ reported < Len(Reports)
    BY <1>0, <1>8 DEF WriteReport, TypeOK
  <2>2. f \in ReportNames /\ f \in Content /\ f \notin Artifacts /\ f # Manifest
    BY <2>1, ReportNumbers, FileNames
  <2>3. CASE Put(f, "volatile") /\ pc' = "reports"
    <3>1. ~Present(Success)
      BY <1>0, <2>1 DEF Progress
    <3>2. DirectoryHolds' /\ FilesOfOneRun' /\ ~Present(Success)'
      BY <2>1, <2>2, <2>3, <3>1, PutContentKeeps DEF Owner
    <3>3. file'[f] = "volatile" /\ \A g \in Files : g # f => file'[g] = file[g]
      BY <1>0, <2>2, <2>3, PutWrites, FileNames
    <3>4. file'[Manifest] = "volatile" /\ \A a \in Artifacts : file'[a] = "volatile"
      BY <1>0, <2>1, <2>2, <3>3, FileNames DEF Progress
    <3>5. \A i \in 1 .. reported' : file'[Reports[i]] = "volatile"
      <4> SUFFICES ASSUME NEW i \in 1 .. reported' PROVE file'[Reports[i]] = "volatile"
        OBVIOUS
      <4>1. CASE Reports[i] = f
        BY <3>3, <4>1
      <4>2. CASE Reports[i] # f
        <5>1. i \in 1 .. reported /\ i \in 1 .. Len(Reports)
          BY <2>1, <4>2, ReportNumbers
        <5>2. file[Reports[i]] = "volatile" /\ Reports[i] \in Files
          BY <1>0, <2>1, <5>1, ReportNumbers, FileNames DEF Progress
        <5> QED
          BY <3>3, <4>2, <5>2
      <4> QED
        BY <4>1, <4>2
    <3>6. Progress'
      BY <1>0, <2>1, <2>3, <3>2, <3>4, <3>5 DEF Progress
    <3> QED
      BY <3>2, <3>6
  <2>4. CASE Error /\ UNCHANGED <<file, by>>
    BY <2>1, <2>4, FailureKeeps DEF Error
  <2> QED
    BY <1>8, <2>3, <2>4 DEF WriteReport, WriteDeferred
<1>9. CASE ReportsDone
  <2>1. /\ pc = "reports" /\ pc' = "unstage" /\ reported = Len(Reports)
        /\ UNCHANGED <<run, directory, file, by, staging, failures, reported>>
    BY <1>9 DEF ReportsDone
  <2>2. \A f \in ReportNames : file[f] = "volatile"
    BY <1>0, <2>1, ReportNumbers DEF Progress
  <2>3. Progress'
    BY <1>0, <2>1, <2>2 DEF Progress, Present
  <2>4. DirectoryHolds' /\ FilesOfOneRun'
    BY <1>0, <2>1 DEF DirectoryHolds, FilesOfOneRun, OneRunPerDirectory, Owner, Present
  <2> QED
    BY <2>3, <2>4
<1>10. CASE RemoveStaging
  <2>1. CASE pc' = "sync"
    <3>1. pc = "unstage" /\ UNCHANGED <<run, directory, file, by, staging, failures, reported>>
      BY <1>10 DEF RemoveStaging
    <3>2. Progress'
      BY <1>0, <2>1, <3>1 DEF Progress, Present
    <3>3. DirectoryHolds' /\ FilesOfOneRun'
      BY <1>0, <2>1, <3>1 DEF DirectoryHolds, FilesOfOneRun, OneRunPerDirectory, Owner, Present
    <3> QED
      BY <3>2, <3>3
  <2>2. CASE pc' = "failed"
    BY <1>10, <2>2, FailureKeeps DEF RemoveStaging
  <2> QED
    BY <1>10, <2>1, <2>2 DEF RemoveStaging, Error
<1>11. CASE SyncRunData
  <2>1. CASE /\ file' = [f \in Files |-> IF file[f] = "volatile" THEN "durable" ELSE file[f]]
             /\ directory' = "durable" /\ pc' = "mark"
    <3>1. pc = "sync" /\ UNCHANGED <<run, by, staging, failures, reported>>
      BY <1>11 DEF SyncRunData
    <3>2. \A f \in Content : file[f] = "volatile"
      BY <1>0, <3>1, FileNames DEF Progress
    <3>3. \A f \in Content : file'[f] = "durable"
      BY <2>1, <3>2, FileNames
    <3>4. ~Present(Success)'
      BY <1>0, <2>1, <3>1, FileNames DEF Progress, Present
    <3>5. \A f \in Files : Present(f)' => Present(f)
      BY <2>1 DEF Present
    <3>6. Progress'
      BY <2>1, <3>3, <3>4 DEF Progress
    <3>7. DirectoryHolds'
      BY <2>1, <3>4 DEF DirectoryHolds
    <3>8. \A f \in Files : Present(f)' => by'[f] = run
      BY <1>0, <3>1, <3>5 DEF FilesOfOneRun, Owner
    <3>9. FilesOfOneRun'
      BY <3>1, <3>8 DEF FilesOfOneRun, OneRunPerDirectory
    <3> QED
      BY <3>6, <3>7, <3>9
  <2>2. CASE Error /\ UNCHANGED <<file, directory>>
    BY <1>11, <2>2, FailureKeeps DEF SyncRunData, Error
  <2> QED
    BY <1>11, <2>1, <2>2 DEF SyncRunData
<1>12. ASSUME NEW how \in {"volatile", "durable"}, Put(Success, how),
              pc \in {"mark", "settle"}, pc' \in {"settle", "done"},
              pc' = "done" => how = "durable",
              UNCHANGED <<run, directory, staging, failures, reported>>
       PROVE  Progress' /\ DirectoryHolds' /\ FilesOfOneRun'
  <2>1. /\ file'[Success] = how /\ by'[Success] = run
        /\ \A g \in Files : g # Success => file'[g] = file[g] /\ by'[g] = by[g]
    BY <1>0, <1>12, PutWrites, FileNames
  <2>2. \A f \in Content : file'[f] = "durable"
    BY <1>0, <1>12, <2>1, FileNames DEF Progress
  <2>3. Progress'
    BY <1>12, <2>1, <2>2 DEF Progress
  <2>4. DirectoryHolds'
    BY <1>0, <1>12, <2>2 DEF DirectoryHolds
  <2>5. \A g \in Files : Present(g)' => by'[g] = run
    BY <1>0, <1>12, <2>1 DEF FilesOfOneRun, Owner, Present
  <2>6. FilesOfOneRun'
    BY <1>12, <2>5 DEF FilesOfOneRun, OneRunPerDirectory
  <2> QED
    BY <2>3, <2>4, <2>6
<1>13. CASE MarkSuccess
  <2>1. CASE Put(Success, "volatile") /\ pc' = "settle"
    BY <1>12, <1>13, <2>1 DEF MarkSuccess
  <2>2. CASE Error /\ UNCHANGED <<file, by>>
    BY <1>13, <2>2, FailureKeeps DEF MarkSuccess, Error
  <2> QED
    BY <1>13, <2>1, <2>2 DEF MarkSuccess
<1>14. CASE SettleSuccess
  <2>1. CASE Put(Success, "durable") /\ pc' = "done"
    BY <1>12, <1>14, <2>1 DEF SettleSuccess
  <2>2. CASE Error /\ UNCHANGED <<file, by>>
    BY <1>14, <2>2, FailureKeeps DEF SettleSuccess, Error
  <2> QED
    BY <1>14, <2>1, <2>2 DEF SettleSuccess
<1>15. CASE Crash
  <2>1. pc' = "crashed" /\ UNCHANGED <<run, by>>
    BY <1>15 DEF Crash
  <2>2. \A f \in Files : Present(f)' => Present(f)
    BY <1>0, <1>15, CrashKeeps DEF Present
  <2>3. Progress'
    BY <2>1 DEF Progress
  <2>4. DirectoryHolds'
    <3>1. ~Owner'
      BY <2>1 DEF Owner
    <3>2. directory' = "absent" => \A f \in Files : file'[f] = "absent"
      BY <1>0, <1>15, CrashKeeps
    <3>3. ASSUME Present(Success)'
          PROVE  directory' = "durable" /\ \A f \in Content : file'[f] = "durable"
      <4>1. directory = "durable" /\ \A f \in Content : file[f] = "durable"
        BY <1>0, <2>2, <3>3, FileNames DEF DirectoryHolds
      <4> QED
        BY <1>0, <1>15, <4>1, CrashKeeps, FileNames
    <3> QED
      BY <2>1, <3>1, <3>2, <3>3 DEF DirectoryHolds
  <2>5. FilesOfOneRun'
    BY <1>0, <2>1, <2>2 DEF FilesOfOneRun, OneRunPerDirectory, Owner
  <2> QED
    BY <2>3, <2>4, <2>5
<1>16. CASE Restart
  <2>1. /\ pc' = "create" /\ failures' = [a \in Artifacts |-> 0] /\ reported' = 0
        /\ UNCHANGED <<directory, file, by>>
    BY <1>16 DEF Restart
  <2>2. Progress'
    BY <2>1, ArtifactsAssumption DEF Progress
  <2>3. DirectoryHolds' /\ FilesOfOneRun'
    BY <1>0, <2>1 DEF DirectoryHolds, FilesOfOneRun, OneRunPerDirectory, Owner, Present
  <2> QED
    BY <2>2, <2>3
<1> QED
  BY <1>1, <1>2, <1>3, <1>4, <1>5, <1>6, <1>7, <1>8, <1>9, <1>10, <1>11, <1>13,
     <1>14, <1>15, <1>16 DEF Next, Process

\* Every reachable state of the run directory satisfies the inductive
\* invariant, crashes and restarts at any point included.
THEOREM ArtifactsInvariant == Spec => []ArtifactsInv
<1>1. Init => ArtifactsInv
  BY InitInv
<1>2. ArtifactsInv /\ [Next]_vars => ArtifactsInv'
  <2> SUFFICES ASSUME ArtifactsInv, [Next]_vars PROVE ArtifactsInv'
    OBVIOUS
  <2>1. CASE Next
    BY <2>1, TypeStep, OrderOfWrites DEF ArtifactsInv
  <2>2. CASE UNCHANGED vars
    <3>1. TypeOK'
      BY <2>2 DEF ArtifactsInv, TypeOK, vars
    <3>2. Progress' /\ DirectoryHolds'
      BY <2>2 DEF ArtifactsInv, Progress, DirectoryHolds, Owner, Present, vars
    <3>3. FilesOfOneRun'
      BY <2>2 DEF ArtifactsInv, FilesOfOneRun, OneRunPerDirectory, Owner, Present, vars
    <3> QED
      BY <3>1, <3>2, <3>3 DEF ArtifactsInv
  <2> QED
    BY <2>1, <2>2
<1> QED
  BY <1>1, <1>2, PTL DEF Spec

\* Type correctness of the run directory's state.
THEOREM ArtifactsTypes == Spec => []TypeOK
<1>1. ArtifactsInv => TypeOK
  BY DEF ArtifactsInv
<1> QED
  BY <1>1, ArtifactsInvariant, PTL

\* A directory that carries _SUCCESS holds every artifact and every report,
\* none of them torn, whenever the machine went down.
THEOREM MarkedRunIsWhole == Spec => []SuccessMeansAll
<1>1. ArtifactsInv => SuccessMeansAll
  BY DEF ArtifactsInv, DirectoryHolds, SuccessMeansAll, Complete
<1> QED
  BY <1>1, ArtifactsInvariant, PTL

\* Once run has returned Ok no crash can lose any of its files.
THEOREM FinishedRunIsDurable == Spec => []DoneIsDurable
<1>1. ArtifactsInv => DoneIsDurable
  BY FileNames DEF ArtifactsInv, Progress, DoneIsDurable
<1> QED
  BY <1>1, ArtifactsInvariant, PTL

\* A run directory holds the files of one process only, although every process
\* with the same inputs uses the same directory.
THEOREM RunsAreNotMixed == Spec => []OneRunPerDirectory
<1>1. ArtifactsInv => OneRunPerDirectory
  BY DEF ArtifactsInv, FilesOfOneRun
<1> QED
  BY <1>1, ArtifactsInvariant, PTL

\* finish_success never finds a staged payload in the directory it removes.
THEOREM NothingStaged == Spec => []NothingLeftStaged
<1>1. ArtifactsInv => NothingLeftStaged
  BY DEF ArtifactsInv, Progress, NothingLeftStaged
<1> QED
  BY <1>1, ArtifactsInvariant, PTL

=============================================================================
