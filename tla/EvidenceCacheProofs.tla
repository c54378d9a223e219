------------------------ MODULE EvidenceCacheProofs ------------------------
(***************************************************************************)
(* For any contracts, registries, limits, batch size and any number of     *)
(* runs, kills and failed writes: bundles of one set of limits are read as *)
(* bundles of another only through a jsonl that could not be removed       *)
(* (CacheInv); a kill that cuts no write short loses at most a batch, a    *)
(* finished run can be resumed from, and failures with a retry rule are    *)
(* requested again (RunInv, on top of CacheInv).                           *)
(***************************************************************************)
EXTENDS EvidenceCache, TLAPS

\* Bundles that were all fetched under limits of the set l.
Rows(f, l) == IsRows(f) /\ \A c \in DOMAIN f : f[c].limits \in l

\* The limits of bundles in memory and in a snapshot of limits l, and of those
\* in a jsonl of limits l: any at all once a leftover was read, or is there.
Held(l) == IF leftover = "read" THEN Limits ELSE {l}
Filed(l) == IF leftover = "no" THEN {l} ELSE Limits

\* A jsonl as the writers leave it, with bundles of limits of l.
Journal(j, l) ==
    /\ j = [st |-> j.st, rows |-> j.rows]
    /\ j.st \in {"none", "clean", "open", "torn"}
    /\ j.st = "none" => j.rows = NoRows
    /\ Rows(j.rows, l)

\* From here on the meta is the run's own.
Writing == StageNames \cup {"rewrite", "fetch", "finish", "snapshot", "compact"}

\* The limits of every place that holds bundles.  A jsonl whose meta is torn
\* is not readable; one that the sink kept when it opened is the run's own
\* even before the meta is.  A run that starts from a leftover has read it.
LimitsMatch ==
    /\ Rows(evidence, Held(run.limits)) /\ Rows(all, Held(run.limits))
    /\ Rows(snapshot.rows, Held(snapshot.limits))
    /\ meta.st = "ok" => Rows(jsonl.rows, Filed(meta.limits))
    /\ meta.st = "none" \/ jsonl.st = "none" => jsonl = NoJsonl
    /\ pc = "open" /\ leftover = "failed" => ~Usable(run.limits)
    /\ pc = "meta" => Rows(jsonl.rows, Filed(run.limits))
    /\ pc \in Writing => meta.st = "ok" /\ meta.limits = run.limits
    /\ pc # "idle" => run.limits \in Limits /\ run.day \in 1 .. MaxDay

\* Only bundles the run has are refreshed and pushed.
WorkKnown ==
    /\ queue \subseteq DOMAIN evidence
    /\ \A stage \in StageNames : todo[stage] \subseteq DOMAIN evidence

\* The invariant of the file contents.
CacheInv == TypeOK /\ LimitsMatch /\ WorkKnown

-----------------------------------------------------------------------------
(* The operators on rows and files. *)

\* No rows are rows.
LEMMA NoRowsAreRows == \A l : Rows(NoRows, l)
BY DEF Rows, IsRows, NoRows

\* Overlaying keeps rows of a limit.
LEMMA OverlayRows ==
    ASSUME NEW f, NEW g, NEW l, Rows(f, l), Rows(g, l)
    PROVE  Rows(Overlay(f, g), l)
<1>1. DOMAIN Overlay(f, g) = DOMAIN f \cup DOMAIN g
  BY DEF Overlay
<1>2. \A c \in DOMAIN Overlay(f, g) :
         Overlay(f, g)[c] \in Bundle /\ Overlay(f, g)[c].limits \in l
  BY DEF Overlay, Rows, IsRows
<1> QED
  BY <1>1, <1>2 DEF Rows, IsRows, Overlay

\* So does leaving rows out.
LEMMA OnlyRows ==
    ASSUME NEW f, NEW K, NEW l, Rows(f, l)
    PROVE  Rows(Only(f, K), l)
BY DEF Rows, IsRows, Only

\* One fetched row.
LEMMA SingleRow ==
    ASSUME NEW c \in Contracts, NEW b \in Bundle, NEW l, b.limits \in l
    PROVE  Rows([x \in {c} |-> b], l)
BY DEF Rows, IsRows

\* What may be held may be in the jsonl.
LEMMA HeldIsFiled ==
    ASSUME leftover \in {"no", "failed", "read"}, NEW f, NEW l, Rows(f, Held(l))
    PROVE  Rows(f, Filed(l))
<1>1. CASE leftover = "no"
  BY <1>1 DEF Held, Filed
<1>2. CASE leftover # "no"
  <2>1. \A c \in DOMAIN f : f[c] \in Bundle
    BY DEF Rows, IsRows
  <2>2. \A c \in DOMAIN f : f[c].limits \in Limits
    BY <2>1 DEF Bundle
  <2> QED
    BY <1>2, <2>2 DEF Filed, Rows
<1> QED
  BY <1>1, <1>2

\* Any bundles are bundles of some limits.
LEMMA AnyRows ==
    ASSUME NEW f, IsRows(f)
    PROVE  Rows(f, Limits)
<1>1. \A c \in DOMAIN f : f[c] \in Bundle
  BY DEF IsRows
<1>2. \A c \in DOMAIN f : f[c].limits \in Limits
  BY <1>1 DEF Bundle
<1> QED
  BY <1>2 DEF Rows

\* A missing or torn file holds no rows.
LEMMA EmptyFiles ==
    \A l : Journal(NoJsonl, l) /\ Journal(TornJsonl, l)
BY NoRowsAreRows DEF Journal, NoJsonl, TornJsonl

\* A file written from the start.
LEMMA CleanFile ==
    ASSUME NEW f, NEW l, Rows(f, l), NEW s \in {"clean", "open"}
    PROVE  Journal([st |-> s, rows |-> f], l)
BY DEF Journal

\* An appended batch overlays the journal.
LEMMA AppendedJournal ==
    ASSUME NEW j, NEW ks, NEW l, Journal(j, l), Rows(all, l)
    PROVE  Journal(Appended(j, ks), l)
<1>1. CASE ks = <<>>
  BY <1>1 DEF Appended
<1>2. CASE ks # <<>> /\ j.st \in {"open", "torn"}
  BY <1>2, EmptyFiles DEF Appended
<1>3. CASE ks # <<>> /\ j.st \notin {"open", "torn"}
  <2> DEFINE new == Overlay(j.rows, Only(all, {ks[i] : i \in DOMAIN ks}))
  <2>1. Rows(new, l)
    BY OverlayRows, OnlyRows DEF Journal
  <2>2. Appended(j, ks) = [st |-> "clean", rows |-> new]
    BY <1>3 DEF Appended
  <2> HIDE DEF new
  <2> QED
    BY <2>1, <2>2, CleanFile
<1> QED
  BY <1>1, <1>2, <1>3

LEMMA PartialAppendsJournal ==
    ASSUME NEW j, NEW ks, NEW l, Journal(j, l), Rows(all, l), NEW p \in PartialAppends(j, ks)
    PROVE  Journal(p, l)
<1>1. PICK k \in 0 .. Len(ks) : p \in PartlyAppended(j, ks, k)
  BY DEF PartialAppends
<1> DEFINE opened == IF j.st = "none" THEN [j EXCEPT !.st = "clean"] ELSE j
           cut == Appended(opened, SubSeq(ks, 1, k))
<1>2. Journal(opened, l)
  BY DEF Journal
<1>3. Journal(cut, l)
  BY <1>2, AppendedJournal
<1>4. p = cut \/ p = TornJsonl \/ p = [cut EXCEPT !.st = "open"]
  BY <1>1 DEF PartlyAppended
<1> HIDE DEF cut
<1>5. Journal([cut EXCEPT !.st = "open"], l)
  BY <1>3 DEF Journal
<1> QED
  BY <1>3, <1>4, <1>5, EmptyFiles

LEMMA PartialFilesJournal ==
    ASSUME NEW f, NEW l, Rows(f, l), NEW p \in PartialFiles(f)
    PROVE  Journal(p, l)
<1>1. ASSUME NEW r \in KeyPrefixes(f) PROVE Rows(r, l)
  BY OnlyRows DEF KeyPrefixes
<1> QED
  BY <1>1, CleanFile, EmptyFiles DEF PartialFiles


-----------------------------------------------------------------------------
(* TypeOK in two parts: the files, and the run that works on them. *)

PCs == {"idle", "open", "meta", "rewrite", "fetch", "finish", "snapshot",
        "compact", "done", "ended"} \cup StageNames

DiskOK ==
    /\ meta \in [st: {"none", "torn", "ok"}, limits: Limits \cup {0}, day: 0 .. MaxDay]
    /\ jsonl = [st |-> jsonl.st, rows |-> jsonl.rows]
    /\ jsonl.st \in {"none", "clean", "open", "torn"} /\ IsRows(jsonl.rows)
    /\ snapshot = [st |-> snapshot.st, limits |-> snapshot.limits,
                   day |-> snapshot.day, rows |-> snapshot.rows]
    /\ snapshot.st \in {"none", "torn", "ok"} /\ snapshot.limits \in Limits \cup {0}
    /\ snapshot.day \in 0 .. MaxDay /\ IsRows(snapshot.rows)

MemoryOK ==
    /\ day \in 1 .. MaxDay
    /\ runs \in 0 .. MaxRuns
    /\ pc \in PCs
    /\ run \in [limits: Limits \cup {0}, day: 0 .. MaxDay, reg: [Contracts -> SUBSET Seeds]]
    /\ pending \in Seq(Contracts)
    /\ todo \in [StageNames -> SUBSET Contracts]
    /\ queue \subseteq Contracts /\ missing \subseteq Contracts /\ unprobed \subseteq Contracts
    /\ attempted \subseteq Contracts \X Families
    /\ saved \in BOOLEAN
    /\ leftover \in {"no", "failed", "read"}

LEMMA TypeParts == TypeOK <=> DiskOK /\ MemoryOK /\ IsRows(evidence) /\ IsRows(all)
BY DEF TypeOK, DiskOK, MemoryOK, PCs

LEMMA TypePartsNext == DiskOK' /\ MemoryOK' /\ IsRows(evidence') /\ IsRows(all') => TypeOK'
BY DEF TypeOK, DiskOK, MemoryOK, PCs

\* What a run reads: bundles of the limits it is told, or nothing it may use.
LEMMA LoadedRows ==
    ASSUME CacheInv
    PROVE  /\ IsRows(Loaded.rows)
           /\ Loaded.ok => Rows(Loaded.rows, Filed(Loaded.limits))
<1>1. CASE meta.st # "none" /\ jsonl.st # "none"
  <2>1. CASE meta.st = "ok" /\ jsonl.st # "torn"
    <3>1. Loaded.rows = jsonl.rows /\ Loaded.limits = meta.limits
      BY <1>1, <2>1 DEF Loaded
    <3> QED
      BY <2>1, <3>1 DEF CacheInv, LimitsMatch, Rows
  <2>2. CASE ~(meta.st = "ok" /\ jsonl.st # "torn")
    <3>1. Loaded.rows = NoRows /\ ~Loaded.ok
      BY <1>1, <2>2 DEF Loaded
    <3> QED
      BY <3>1, NoRowsAreRows DEF Rows
  <2> QED
    BY <2>1, <2>2
<1>2. CASE ~(meta.st # "none" /\ jsonl.st # "none")
  <2>1. Loaded.rows = snapshot.rows /\ Loaded.limits = snapshot.limits
    BY <1>2 DEF Loaded
  <2>2. Rows(snapshot.rows, Held(snapshot.limits)) /\ leftover \in {"no", "failed", "read"}
    BY DEF CacheInv, LimitsMatch, TypeOK
  <2>3. Rows(snapshot.rows, Filed(snapshot.limits))
    BY <2>2, HeldIsFiled
  <2> QED
    BY <2>1, <2>3 DEF Rows
<1> QED
  BY <1>1, <1>2

-----------------------------------------------------------------------------
\* The invariant holds at the start.
LEMMA CacheInitially == Init => CacheInv
<1> SUFFICES ASSUME Init PROVE CacheInv
  OBVIOUS
<1>1. DiskOK
  BY CacheAssumption, NoRowsAreRows
  DEF Init, DiskOK, NoMeta, NoJsonl, NoSnapshot, Rows
<1>2. MemoryOK
  <2>1. NoRun \in [limits: Limits \cup {0}, day: 0 .. MaxDay, reg: [Contracts -> SUBSET Seeds]]
    BY CacheAssumption DEF NoRun
  <2>2. NoTodo \in [StageNames -> SUBSET Contracts]
    BY DEF NoTodo
  <2>3. <<>> \in Seq(Contracts)
    OBVIOUS
  <2>4. day \in 1 .. MaxDay /\ runs \in 0 .. MaxRuns
    BY CacheAssumption DEF Init
  <2>5. /\ pc \in PCs /\ queue \subseteq Contracts /\ missing \subseteq Contracts
        /\ attempted \subseteq Contracts \X Families /\ saved \in BOOLEAN
        /\ unprobed \subseteq Contracts /\ leftover \in {"no", "failed", "read"}
    BY DEF Init, PCs
  <2>6. run = NoRun /\ todo = NoTodo /\ pending = <<>>
    BY DEF Init
  <2> QED
    BY <2>1, <2>2, <2>3, <2>4, <2>5, <2>6 DEF MemoryOK
<1>3. LimitsMatch
  BY NoRowsAreRows DEF Init, LimitsMatch, NoMeta, NoJsonl, NoSnapshot, Writing, StageNames
<1>4. WorkKnown
  BY DEF Init, WorkKnown, NoTodo
<1> QED
  BY <1>1, <1>2, <1>3, <1>4, TypeParts DEF CacheInv, LimitsMatch, Rows

\* A step that writes the jsonl, or no file, once the meta is the run's own.
LEMMA JournalStep ==
    ASSUME CacheInv, pc \in Writing, UNCHANGED <<meta, snapshot, run, leftover>>,
           Rows(evidence', Held(run.limits)), Rows(all', Held(run.limits)),
           Journal(jsonl', Filed(run.limits)),
           MemoryOK', WorkKnown', pc' \notin {"open", "meta"}
    PROVE  CacheInv'
<1>1. meta.st = "ok" /\ meta.limits = run.limits /\ DiskOK
  BY TypeParts DEF CacheInv, LimitsMatch
<1>2. DiskOK'
  BY <1>1 DEF DiskOK, Journal, Rows
<1>3. LimitsMatch'
  <2>1. pc # "idle"
    BY DEF Writing, StageNames
  <2>2. jsonl'.st = "none" => jsonl' = NoJsonl
    BY DEF Journal, NoJsonl
  <2>3. \A l : Held(l)' = Held(l) /\ Filed(l)' = Filed(l)
    BY DEF Held, Filed
  <2> QED
    BY <1>1, <2>1, <2>2, <2>3 DEF CacheInv, LimitsMatch, Journal, Held, Filed
<1> QED
  BY <1>2, <1>3, TypePartsNext DEF CacheInv, LimitsMatch, Rows

\* The run's jsonl is a journal of its limits.
LEMMA OwnJournal ==
    ASSUME CacheInv, pc \in Writing
    PROVE  /\ Journal(jsonl, Filed(run.limits)) /\ Rows(all, Filed(run.limits))
           /\ Rows(all, Held(run.limits)) /\ Rows(evidence, Held(run.limits))
<1>1. /\ Rows(all, Held(run.limits)) /\ Rows(evidence, Held(run.limits))
      /\ leftover \in {"no", "failed", "read"}
  BY DEF CacheInv, LimitsMatch, TypeOK
<1>2. Rows(all, Filed(run.limits))
  BY <1>1, HeldIsFiled
<1>3. Journal(jsonl, Filed(run.limits))
  BY TypeParts DEF CacheInv, LimitsMatch, Journal, DiskOK, NoJsonl
<1> QED
  BY <1>1, <1>2, <1>3


-----------------------------------------------------------------------------
\* A new run starts with bundles of its own limits.
LEMMA StartPreserves ==
    ASSUME CacheInv, NEW limits \in Limits, NEW reg \in Registries, Start(limits, reg)
    PROVE  CacheInv'
<1>0. DiskOK /\ MemoryOK /\ IsRows(evidence) /\ IsRows(all) /\ MaxRuns \in Nat
  BY TypeParts, CacheAssumption DEF CacheInv
<1>1. reg \in [Contracts -> SUBSET Seeds]
  BY CacheAssumption
<1>2. Rows(Resumed(limits, reg), Filed(limits))
  <2>1. CASE Usable(limits)
    <3>1. Rows(Loaded.rows, Filed(limits))
      BY <2>1, LoadedRows DEF Usable
    <3>2. ASSUME NEW c \in DOMAIN Loaded.rows \cap Current(reg)
          PROVE  /\ Reconcile(Loaded.rows[c], reg[c]) \in Bundle
                 /\ Reconcile(Loaded.rows[c], reg[c]).limits \in Filed(limits)
      <4>1. /\ Loaded.rows[c] \in Bundle /\ Loaded.rows[c].limits \in Filed(limits)
            /\ reg[c] \in SUBSET Seeds
        BY <1>1, <3>1 DEF Rows, IsRows
      <4> DEFINE b == Loaded.rows[c]
      <4> HIDE DEF b
      <4>2. b.probed \cap reg[c] \in SUBSET Seeds
        BY <4>1
      <4> QED
        BY <4>1, <4>2 DEF Reconcile, Bundle, b
    <3>3. Resumed(limits, reg) = [c \in DOMAIN Loaded.rows \cap Current(reg) |->
                                     Reconcile(Loaded.rows[c], reg[c])]
      BY <2>1 DEF Resumed
    <3>4. DOMAIN Loaded.rows \cap Current(reg) \subseteq Contracts
      BY DEF Current
    <3> QED
      BY <3>2, <3>3, <3>4 DEF Rows, IsRows
  <2>2. CASE ~Usable(limits)
    BY <2>2, NoRowsAreRows DEF Resumed
  <2> QED
    BY <2>1, <2>2
<1> DEFINE rows == Resumed(limits, reg)
           toFetch == Missing(rows, reg)
           toRefresh == Todo(rows, reg, Loaded.day # day)
<1>3. toFetch \subseteq Contracts
  BY DEF Missing, Current
<1>4. toRefresh \in [StageNames -> SUBSET Contracts]
  <2>1. DOMAIN rows \subseteq Contracts
    BY <1>2 DEF Rows, IsRows
  <2> HIDE DEF rows
  <2>2. toRefresh = [prices |-> toRefresh.prices, holders |-> toRefresh.holders,
                     relations |-> toRefresh.relations]
    BY DEF Todo
  <2>3. /\ toRefresh.prices \subseteq Contracts /\ toRefresh.holders \subseteq Contracts
        /\ toRefresh.relations \subseteq Contracts
    BY <2>1 DEF Todo
  <2> HIDE DEF toRefresh
  <2> QED
    BY <2>2, <2>3 DEF StageNames
<1>known. \A stage \in StageNames : toRefresh[stage] \subseteq DOMAIN rows
  <2> HIDE DEF rows
  <2> QED
    BY DEF Todo, StageNames
<1>5. /\ UNCHANGED <<meta, jsonl, snapshot, day>>
      /\ runs < MaxRuns /\ runs' = runs + 1
      /\ run' = [limits |-> limits, day |-> day, reg |-> reg]
      /\ evidence' = rows /\ missing' = toFetch /\ todo' = toRefresh
      /\ pc' \in {"done", "open"}
      /\ all' = NoRows /\ pending' = <<>> /\ queue' = {} /\ unprobed' = {} /\ attempted' = {}
      /\ saved' = FALSE
      /\ leftover' = IF leftover = "failed" /\ Usable(limits) THEN "read" ELSE leftover
  BY DEF Start, disk
<1>empty. ~Usable(limits) => rows = NoRows
  BY DEF Resumed
<1> HIDE DEF rows, toFetch, toRefresh
<1>6. MemoryOK'
  <2>1. run' \in [limits: Limits \cup {0}, day: 0 .. MaxDay, reg: [Contracts -> SUBSET Seeds]]
    BY <1>0, <1>1, <1>5 DEF MemoryOK
  <2>2. day' \in 1 .. MaxDay /\ runs' \in 0 .. MaxRuns /\ pc' \in PCs
    BY <1>0, <1>5 DEF MemoryOK, PCs
  <2>3. pending' \in Seq(Contracts) /\ todo' \in [StageNames -> SUBSET Contracts]
    BY <1>4, <1>5
  <2> QED
    BY <1>0, <1>3, <1>5, <2>1, <2>2, <2>3 DEF MemoryOK
<1>7. DiskOK'
  BY <1>0, <1>5 DEF DiskOK
<1>8. LimitsMatch'
  <2>0. run'.limits = limits /\ leftover \in {"no", "failed", "read"}
    BY <1>0, <1>5 DEF MemoryOK
  <2>1. Rows(evidence', Held(limits)')
    <3>1. CASE Usable(limits)
      <4>1. Filed(limits) \subseteq Held(limits)'
        BY <1>5, <2>0, <3>1 DEF Filed, Held
      <4>2. evidence' = rows /\ Rows(rows, Filed(limits))
        BY <1>2, <1>5 DEF rows
      <4> QED
        BY <4>1, <4>2 DEF Rows
    <3>2. CASE ~Usable(limits)
      BY <1>5, <1>empty, <3>2, NoRowsAreRows
    <3> QED
      BY <3>1, <3>2
  <2>2. pc' # "meta" /\ pc' \notin Writing /\ run'.limits \in Limits /\ run'.day \in 1 .. MaxDay
    BY <1>0, <1>5 DEF Writing, StageNames, MemoryOK
  <2>3. Rows(evidence', Held(run.limits)') /\ Rows(all', Held(run.limits)')
    BY <1>5, <2>0, <2>1, NoRowsAreRows DEF Held
  <2>5. Rows(snapshot'.rows, Held(snapshot.limits)')
    <3>1. Rows(snapshot.rows, Held(snapshot.limits)) /\ IsRows(snapshot.rows)
      BY <1>0 DEF CacheInv, LimitsMatch, DiskOK
    <3>2. CASE leftover' = leftover
      BY <1>5, <3>1, <3>2 DEF Held
    <3>3. CASE leftover' = "read"
      BY <1>5, <3>1, <3>3, AnyRows DEF Held
    <3> QED
      BY <1>5, <3>2, <3>3
  <2>6. meta'.st = "ok" => Rows(jsonl'.rows, Filed(meta.limits)')
    <3>1. meta.st = "ok" => Rows(jsonl.rows, Filed(meta.limits)) /\ IsRows(jsonl.rows)
      BY <1>0 DEF CacheInv, LimitsMatch, DiskOK
    <3>2. CASE leftover' = leftover
      BY <1>5, <3>1, <3>2 DEF Filed
    <3>3. CASE leftover' = "read"
      BY <1>0, <1>5, <3>3, AnyRows DEF Filed, DiskOK
    <3> QED
      BY <1>5, <3>2, <3>3
  <2>7. leftover' = "failed" => ~Usable(run.limits)'
    <3>1. Usable(run.limits)' <=> Usable(limits)
      BY <1>5, <2>0 DEF Usable, Loaded
    <3> QED
      BY <1>5, <3>1
  <2>8. meta'.st = "none" \/ jsonl'.st = "none" => jsonl' = NoJsonl
    BY <1>5 DEF CacheInv, LimitsMatch
  <2> QED
    BY <2>2, <2>3, <2>5, <2>6, <2>7, <2>8 DEF LimitsMatch
<1>9. WorkKnown'
  BY <1>5, <1>known DEF WorkKnown
<1> QED
  BY <1>6, <1>7, <1>8, <1>9, TypePartsNext DEF CacheInv, LimitsMatch, Rows

\* create: what is kept on disk is of the run's limits before and after the
\* meta says so.
LEMMA OpenPreserves ==
    ASSUME CacheInv, OpenSink \/ WriteMeta \/ RewriteJsonl
    PROVE  CacheInv'
<1>0. DiskOK /\ MemoryOK /\ IsRows(evidence) /\ IsRows(all) /\ LimitsMatch
  BY TypeParts DEF CacheInv
<1>1. MemoryOK'
  BY <1>0 DEF OpenSink, WriteMeta, RewriteJsonl, work, sink, history, MemoryOK, PCs, StageNames
<1>known. WorkKnown'
  BY DEF OpenSink, WriteMeta, RewriteJsonl, work, WorkKnown, CacheInv
<1>2. CASE OpenSink
  <2>1. /\ pc = "open" /\ pc' = "meta" /\ UNCHANGED <<meta, snapshot, evidence, run>>
        /\ leftover \in {"no", "failed", "read"}
    BY <1>0, <1>2 DEF OpenSink, MemoryOK
  <2>2. /\ Rows(all', Held(run.limits)') /\ Journal(jsonl', Filed(run.limits)')
        /\ jsonl' = jsonl \/ jsonl' = NoJsonl
        /\ meta.st = "ok" => Rows(jsonl'.rows, Filed(meta.limits)')
        /\ leftover' = "read" <=> leftover = "read"
    <3>j. Journal(jsonl, Limits)
      BY <1>0, AnyRows DEF Journal, DiskOK, LimitsMatch, NoJsonl
    <3>1. CASE Usable(run.limits) /\ all' = Loaded.rows /\ UNCHANGED <<jsonl, leftover>>
      <4>1. leftover # "failed"
        BY <1>0, <2>1, <3>1 DEF LimitsMatch
      <4>2. \A l : Held(l)' = Filed(l) /\ Filed(l)' = Filed(l)
        BY <2>1, <3>1, <4>1 DEF Held, Filed
      <4>3. Rows(Loaded.rows, Filed(run.limits))
        BY <3>1, LoadedRows DEF Usable
      <4>4. Rows(jsonl.rows, Filed(run.limits))
        <5>1. CASE jsonl.st = "none" \/ meta.st = "none"
          BY <1>0, <5>1, NoRowsAreRows DEF LimitsMatch, NoJsonl
        <5>2. CASE jsonl.st # "none" /\ meta.st # "none"
          BY <3>1, <4>3, <5>2 DEF Usable, Loaded
        <5> QED
          BY <5>1, <5>2
      <4>5. Journal(jsonl, Filed(run.limits))
        BY <3>j, <4>4 DEF Journal
      <4>6. Held(run.limits)' = Filed(run.limits) /\ Filed(run.limits)' = Filed(run.limits)
            /\ Filed(meta.limits)' = Filed(meta.limits)
        BY <2>1, <3>1, <4>1 DEF Held, Filed
      <4>7. meta.st = "ok" => Rows(jsonl.rows, Filed(meta.limits))
        BY <1>0 DEF LimitsMatch
      <4> QED
        BY <3>1, <4>3, <4>5, <4>6, <4>7
    <3>2. CASE all' = NoRows /\ jsonl' = NoJsonl
               /\ leftover' = IF leftover = "read" THEN "read" ELSE "no"
      <4>1. Rows(NoJsonl.rows, Filed(meta.limits)')
        BY NoRowsAreRows DEF NoJsonl
      <4> QED
        BY <3>2, <4>1, NoRowsAreRows, EmptyFiles
    <3>3. CASE all' = NoRows /\ UNCHANGED jsonl
               /\ leftover' = IF leftover = "read" THEN "read" ELSE "failed"
      <4>1. Filed(run.limits)' = Limits /\ Filed(meta.limits)' = Limits
        BY <3>3 DEF Filed
      <4>2. Rows(jsonl.rows, Limits)
        BY <3>j DEF Journal
      <4> QED
        BY <3>3, <3>j, <4>1, <4>2, NoRowsAreRows
    <3> QED
      BY <1>2, <3>1, <3>2, <3>3 DEF OpenSink
  <2>3. DiskOK'
    BY <1>0, <2>1, <2>2 DEF DiskOK, Journal, Rows
  <2>4. LimitsMatch'
    <3>1. Rows(jsonl'.rows, Filed(run.limits)')
      BY <2>2 DEF Journal
    <3>2. Held(run.limits)' = Held(run.limits) /\ Held(snapshot.limits)' = Held(snapshot.limits)
      BY <2>1, <2>2 DEF Held
    <3>3. meta'.st = "none" \/ jsonl'.st = "none" => jsonl' = NoJsonl
      BY <1>0, <2>1, <2>2 DEF LimitsMatch
    <3>4. Rows(evidence', Held(run.limits)') /\ Rows(snapshot'.rows, Held(snapshot.limits)')
      BY <1>0, <2>1, <3>2 DEF LimitsMatch
    <3>5. meta'.st = "ok" => Rows(jsonl'.rows, Filed(meta.limits)')
      BY <2>1, <2>2
    <3>6. run'.limits \in Limits /\ run'.day \in 1 .. MaxDay
      BY <1>0, <2>1 DEF LimitsMatch
    <3> QED
      BY <2>1, <2>2, <3>1, <3>3, <3>4, <3>5, <3>6 DEF LimitsMatch, Writing, StageNames
  <2> QED
    BY <1>1, <1>known, <2>3, <2>4, TypePartsNext DEF CacheInv, LimitsMatch, Rows
<1>3. CASE WriteMeta
  <2>1. /\ pc = "meta" /\ pc' = "rewrite"
        /\ UNCHANGED <<jsonl, snapshot, evidence, all, run, leftover>>
        /\ meta' = [st |-> "ok", limits |-> run.limits, day |-> run.day]
    BY <1>3 DEF WriteMeta, sink, history
  <2>2. DiskOK'
    BY <1>0, <2>1 DEF DiskOK, MemoryOK
  <2>3. LimitsMatch'
    <3>1. /\ Held(run.limits)' = Held(run.limits) /\ Held(snapshot.limits)' = Held(snapshot.limits)
          /\ Filed(meta.limits)' = Filed(run.limits)
      BY <2>1 DEF Held, Filed
    <3> QED
      BY <1>0, <2>1, <3>1 DEF LimitsMatch
  <2> QED
    BY <1>1, <1>known, <2>2, <2>3, TypePartsNext DEF CacheInv, LimitsMatch, Rows
<1>4. CASE RewriteJsonl
  <2>1. /\ pc = "rewrite" /\ pc' = "prices" /\ UNCHANGED <<meta, snapshot, evidence, run, leftover>>
        /\ jsonl' = jsonl \/ jsonl' = [st |-> "clean", rows |-> all]
        /\ all' = Overlay(all, evidence)
    BY <1>4 DEF RewriteJsonl, history
  <2>2. /\ Journal(jsonl', Filed(run.limits)) /\ Rows(all', Held(run.limits))
        /\ Rows(evidence', Held(run.limits))
    BY <2>1, OwnJournal, CleanFile, OverlayRows DEF Writing
  <2> QED
    BY <1>1, <1>known, <2>1, <2>2, JournalStep DEF Writing
<1> QED
  BY <1>2, <1>3, <1>4


\* A refreshed bundle keeps its limits.
LEMMA RefreshedRows ==
    ASSUME CacheInv, NEW stage \in StageNames, NEW failing, Refresh(stage, failing)
    PROVE  Rows(evidence', Held(run.limits))
<1>0. /\ Rows(evidence, Held(run.limits)) /\ run.reg \in [Contracts -> SUBSET Seeds]
      /\ day \in 0 .. MaxDay
  BY TypeParts, CacheAssumption DEF CacheInv, LimitsMatch, MemoryOK
<1>1. ASSUME NEW c \in DOMAIN evidence, NEW failed \in BOOLEAN
      PROVE  /\ Refreshed(stage, evidence[c], c, failed) \in Bundle
             /\ Refreshed(stage, evidence[c], c, failed).limits \in Held(run.limits)
  <2>1. /\ evidence[c] \in Bundle /\ evidence[c].limits \in Held(run.limits)
        /\ run.reg[c] \in SUBSET Seeds
    BY <1>0 DEF Rows, IsRows
  <2> DEFINE b == evidence[c]
             bads == (b.bad \ {stage}) \cup (IF failed THEN {stage} ELSE {})
             probes == IF failed THEN {} ELSE run.reg[c]
  <2> HIDE DEF b
  <2>2. bads \in SUBSET Families /\ probes \in SUBSET Seeds
    BY <2>1 DEF Bundle, Families, StageNames, b
  <2>6. \/ Refreshed(stage, b, c, failed) = [b EXCEPT !.bad = bads, !.day = day]
        \/ Refreshed(stage, b, c, failed) = [b EXCEPT !.bad = bads]
        \/ Refreshed(stage, b, c, failed) =
              [b EXCEPT !.bad = bads, !.known = run.reg[c], !.probed = probes]
    BY DEF Refreshed, StageNames
  <2> HIDE DEF bads, probes
  <2>3. /\ [b EXCEPT !.bad = bads, !.day = day] \in Bundle
        /\ [b EXCEPT !.bad = bads, !.day = day].limits = b.limits
    BY <1>0, <2>1, <2>2 DEF Bundle, b
  <2>4. /\ [b EXCEPT !.bad = bads] \in Bundle
        /\ [b EXCEPT !.bad = bads].limits = b.limits
    BY <2>1, <2>2 DEF Bundle, b
  <2>5. /\ [b EXCEPT !.bad = bads, !.known = run.reg[c], !.probed = probes] \in Bundle
        /\ [b EXCEPT !.bad = bads, !.known = run.reg[c], !.probed = probes].limits = b.limits
    BY <2>1, <2>2 DEF Bundle, b
  <2> QED
    BY <2>1, <2>3, <2>4, <2>5, <2>6 DEF b
<1>2. evidence' = [c \in DOMAIN evidence |->
                      IF c \in todo[stage]
                      THEN Refreshed(stage, evidence[c], c, c \in failing)
                      ELSE evidence[c]]
  BY DEF Refresh
<1>3. DOMAIN evidence \subseteq Contracts /\ \A c \in DOMAIN evidence :
         evidence[c] \in Bundle /\ evidence[c].limits \in Held(run.limits)
  BY <1>0 DEF Rows, IsRows
<1>4. ASSUME NEW c \in DOMAIN evidence
      PROVE  evidence'[c] \in Bundle /\ evidence'[c].limits \in Held(run.limits)
  <2>1. CASE c \in todo[stage]
    <3>1. evidence'[c] = Refreshed(stage, evidence[c], c, c \in failing)
      BY <1>2, <2>1
    <3>2. (c \in failing) \in BOOLEAN
      OBVIOUS
    <3> QED
      BY <1>1, <3>1, <3>2
  <2>2. CASE c \notin todo[stage]
    BY <1>2, <1>3, <2>2
  <2> QED
    BY <2>1, <2>2
<1> QED
  BY <1>2, <1>3, <1>4 DEF Rows, IsRows

LEMMA PushRows ==
    ASSUME NEW c \in Contracts, NEW b \in Bundle, NEW l, b.limits \in l, Rows(all, l),
           pending \in Seq(Contracts), Push(c, b)
    PROVE  Rows(all', l) /\ pending' \in Seq(Contracts)
<1>1. Rows(all', l)
  BY SingleRow, OverlayRows DEF Push
<1>2. pending' \in Seq(Contracts)
  BY DEF Push
<1> QED
  BY <1>1, <1>2

\* Between create and finish.
LEMMA WorkPreserves ==
    ASSUME CacheInv,
           \/ \E stage \in StageNames : \E failing \in SUBSET todo[stage] : Refresh(stage, failing)
           \/ \E c \in queue : PushRefreshed(c)
           \/ NextStage("prices", "holders")
           \/ NextStage("holders", "relations")
           \/ \E failing \in SUBSET missing : Prefilter(failing)
           \/ \E c \in missing, bad \in Outcomes : FetchOne(c, bad)
           \/ FetchEnds \/ Flush \/ FetchFlushFails
    PROVE  CacheInv'
<1>0. /\ MemoryOK /\ WorkKnown /\ day \in 0 .. MaxDay /\ BatchSize > 0 /\ BatchSize \in Nat
      /\ run.reg \in [Contracts -> SUBSET Seeds]
  BY TypeParts, CacheAssumption DEF CacheInv, MemoryOK
<1>w. /\ StageNames \cup {"fetch", "finish"} \subseteq Writing
      /\ StageNames \cup {"fetch", "finish"} \subseteq PCs
      /\ "meta" \notin StageNames \cup {"fetch", "finish"} /\ "open" \notin StageNames \cup {"fetch", "finish"}
  BY DEF Writing, PCs, StageNames
<1>1. ASSUME NEW stage \in StageNames, NEW failing \in SUBSET todo[stage], Refresh(stage, failing)
      PROVE  CacheInv'
  <2>1. /\ pc = stage /\ UNCHANGED <<meta, jsonl, snapshot, day, runs, pc, run, all, pending,
                                     missing, unprobed, saved, leftover>>
        /\ queue' = todo[stage] /\ todo' = [todo EXCEPT ![stage] = {}]
        /\ attempted' = attempted \cup {<<c, stage>> : c \in todo[stage]}
        /\ DOMAIN evidence' = DOMAIN evidence
    BY <1>1 DEF Refresh, disk, sink, history
  <2>2. MemoryOK' /\ WorkKnown'
    <3>1. todo[stage] \subseteq Contracts /\ todo' \in [StageNames -> SUBSET Contracts]
      BY <1>0, <2>1 DEF MemoryOK
    <3>2. attempted' \subseteq Contracts \X Families
      BY <1>0, <2>1, <3>1 DEF MemoryOK, Families, StageNames
    <3>3. WorkKnown'
      BY <1>0, <2>1 DEF WorkKnown, MemoryOK
    <3> QED
      BY <1>0, <2>1, <3>1, <3>2, <3>3 DEF MemoryOK
  <2> QED
    BY <1>1, <1>w, <2>1, <2>2, RefreshedRows, OwnJournal, JournalStep
<1>2. ASSUME NEW c \in queue, PushRefreshed(c) PROVE CacheInv'
  <2>1. /\ UNCHANGED <<meta, jsonl, snapshot, day, runs, pc, run, evidence, todo, missing,
                       unprobed, attempted, saved, leftover>>
        /\ queue' = queue \ {c} /\ Push(c, evidence[c]) /\ pc \in StageNames
    BY <1>2 DEF PushRefreshed, disk, history
  <2>2. evidence[c] \in Bundle /\ evidence[c].limits \in Held(run.limits) /\ c \in Contracts
    BY <1>0, <1>w, <2>1, OwnJournal DEF Rows, IsRows, WorkKnown
  <2>3. Rows(all', Held(run.limits)) /\ pending' \in Seq(Contracts)
    BY <1>0, <1>w, <2>1, <2>2, OwnJournal, PushRows DEF MemoryOK
  <2>4. MemoryOK' /\ WorkKnown'
    BY <1>0, <2>1, <2>3 DEF MemoryOK, WorkKnown
  <2> QED
    BY <1>w, <2>1, <2>3, <2>4, OwnJournal, JournalStep
<1>3. ASSUME NEW w \in StageNames \cup {"fetch", "finish"}, pc' = w,
             pc \in StageNames \cup {"fetch"},
             UNCHANGED <<disk, day, runs, run, evidence, sink, todo, queue, missing, attempted,
                         history>>,
             unprobed' \subseteq Contracts
      PROVE  CacheInv'
  <2>1. MemoryOK' /\ WorkKnown'
    BY <1>0, <1>3, <1>w DEF MemoryOK, WorkKnown, sink, history
  <2> QED
    BY <1>3, <1>w, <2>1, OwnJournal, JournalStep DEF disk, sink, history
<1>4. CASE \/ NextStage("prices", "holders") \/ NextStage("holders", "relations")
           \/ \E failing \in SUBSET missing : Prefilter(failing)
           \/ FetchEnds
  <2>1. missing \subseteq Contracts /\ unprobed \subseteq Contracts
    BY <1>0 DEF MemoryOK
  <2>2. CASE NextStage("prices", "holders") \/ NextStage("holders", "relations")
    BY <1>3, <2>1, <2>2 DEF NextStage, StageNames, work
  <2>3. CASE \E failing \in SUBSET missing : Prefilter(failing)
    BY <1>3, <2>1, <2>3 DEF Prefilter, StageNames
  <2>4. CASE FetchEnds
    BY <1>3, <2>1, <2>4 DEF FetchEnds, StageNames
  <2> QED
    BY <1>4, <2>2, <2>3, <2>4
<1>5. ASSUME NEW c \in missing, NEW bad \in Outcomes, FetchOne(c, bad) PROVE CacheInv'
  <2>1. /\ UNCHANGED <<meta, jsonl, snapshot, day, runs, pc, run, todo, queue, saved, leftover>>
        /\ pc = "fetch" /\ missing' = missing \ {c} /\ unprobed' = unprobed \ {c}
        /\ attempted' \subseteq attempted \cup {<<c, f>> : f \in Families}
        /\ evidence' = Overlay(evidence, [x \in {c} |-> Fetched(c, bad)])
        /\ Push(c, Fetched(c, bad))
    BY <1>5 DEF FetchOne, disk, history, Families
  <2>2. c \in Contracts /\ run.limits \in Limits /\ bad \in SUBSET Families
    BY <1>0, <2>1, CacheAssumption DEF MemoryOK, CacheInv, LimitsMatch
  <2>3. Fetched(c, bad) \in Bundle /\ Fetched(c, bad).limits \in Held(run.limits)
    BY <1>0, <2>2 DEF Fetched, Bundle, Held
  <2>4. Rows(evidence', Held(run.limits))
    BY <1>w, <2>1, <2>2, <2>3, SingleRow, OverlayRows, OwnJournal
  <2>5. Rows(all', Held(run.limits)) /\ pending' \in Seq(Contracts)
    BY <1>0, <1>w, <2>1, <2>2, <2>3, OwnJournal, PushRows DEF MemoryOK
  <2>6. attempted' \subseteq Contracts \X Families
    BY <1>0, <2>1, <2>2 DEF MemoryOK
  <2>7. MemoryOK'
    BY <1>0, <2>1, <2>5, <2>6 DEF MemoryOK
  <2>8. DOMAIN evidence \subseteq DOMAIN evidence'
    BY <2>1 DEF Overlay
  <2>9. WorkKnown'
    BY <1>0, <2>1, <2>8 DEF WorkKnown
  <2> QED
    BY <1>w, <2>1, <2>4, <2>5, <2>7, <2>9, OwnJournal, JournalStep
<1>6. CASE Flush
  <2>1. /\ UNCHANGED <<meta, snapshot, day, runs, pc, run, evidence, all, work, saved, leftover>>
        /\ pc \in StageNames \cup {"fetch"} /\ jsonl' = Appended(jsonl, pending)
        /\ pending' = <<>>
    BY <1>6 DEF Flush, history
  <2>2. MemoryOK' /\ WorkKnown'
    BY <1>0, <2>1 DEF MemoryOK, WorkKnown, work
  <2>3. Journal(jsonl', Filed(run.limits))
    BY <1>w, <2>1, OwnJournal, AppendedJournal
  <2> QED
    BY <1>w, <2>1, <2>2, <2>3, OwnJournal, JournalStep
<1>7. CASE FetchFlushFails
  <2>1. /\ UNCHANGED <<meta, snapshot, day, runs, run, evidence, all, todo, queue, attempted, saved,
                       leftover>>
        /\ pc = "fetch" /\ pc' = "finish" /\ FlushDue
        /\ jsonl' \in PartialAppends(jsonl, pending) /\ pending' = <<>>
        /\ missing' = missing \cup {pending[Len(pending)]} /\ unprobed' = {}
    BY <1>7 DEF FetchFlushFails, history
  <2>2. pending[Len(pending)] \in Contracts
    BY <1>0, <2>1 DEF FlushDue, MemoryOK
  <2>3. MemoryOK' /\ WorkKnown'
    BY <1>0, <1>w, <2>1, <2>2 DEF MemoryOK, WorkKnown
  <2>4. Journal(jsonl', Filed(run.limits))
    BY <1>w, <2>1, OwnJournal, PartialAppendsJournal
  <2> QED
    BY <1>w, <2>1, <2>3, <2>4, OwnJournal, JournalStep
<1> QED
  BY <1>1, <1>2, <1>4, <1>5, <1>6, <1>7

-----------------------------------------------------------------------------
\* sink.finish, whether its writes succeed or not.
LEMMA FinishPreserves ==
    ASSUME CacheInv, FinishFlush \/ WriteSnapshot \/ CompactJsonl \/ FinishFails
    PROVE  CacheInv'
<1>0. DiskOK /\ MemoryOK /\ LimitsMatch /\ WorkKnown
  BY TypeParts DEF CacheInv
<1>1. /\ pc \in {"finish", "snapshot", "compact"} /\ pc \in Writing
      /\ pc' \in {"snapshot", "compact", "done", "ended"}
      /\ UNCHANGED <<meta, day, runs, run, evidence, all, work>>
      /\ pending' = <<>> \/ pending' = pending
      /\ saved' \in {saved, TRUE} /\ leftover' \in {leftover, "no"}
  BY DEF FinishFlush, WriteSnapshot, CompactJsonl, FinishFails, AfterFinish, Writing, sink, history
<1>2. MemoryOK'
  <2>0. pc' \in PCs
    BY <1>1 DEF PCs
  <2>1. pending' \in Seq(Contracts)
    <3>1. <<>> \in Seq(Contracts) /\ pending \in Seq(Contracts)
      BY <1>0 DEF MemoryOK
    <3> QED
      BY <1>1, <3>1
  <2>2. saved' \in BOOLEAN
    BY <1>0, <1>1, Zenon DEF MemoryOK
  <2> QED
    BY <1>0, <1>1, <2>0, <2>1, <2>2 DEF MemoryOK, work
<1>3. WorkKnown'
  BY <1>0, <1>1 DEF WorkKnown, work
<1>4. ASSUME Journal(jsonl', Filed(run.limits)), UNCHANGED <<snapshot, leftover>> PROVE CacheInv'
  BY <1>1, <1>2, <1>3, <1>4, OwnJournal, JournalStep
<1>5. ASSUME UNCHANGED <<jsonl, leftover>>,
             \/ UNCHANGED snapshot
             \/ snapshot' = TornSnapshot
             \/ snapshot' = [st |-> "ok", limits |-> run.limits, day |-> run.day, rows |-> all]
      PROVE  CacheInv'
  <2>h. \A l : Held(l)' = Held(l) /\ Filed(l)' = Filed(l)
    BY <1>5 DEF Held, Filed
  <2>0. Rows(all, Held(run.limits)) /\ run.limits \in Limits /\ run.day \in 0 .. MaxDay /\ MaxDay \in Nat
    BY <1>0, <1>1, CacheAssumption DEF LimitsMatch, MemoryOK
  <2>1. /\ DiskOK' /\ Rows(snapshot'.rows, Held(snapshot'.limits))
    <3>1. CASE UNCHANGED snapshot
      BY <1>0, <1>1, <1>5, <3>1 DEF DiskOK, LimitsMatch
    <3>2. CASE snapshot' = TornSnapshot
      <4>1. /\ snapshot'.st = "torn" /\ snapshot'.limits = 0 /\ snapshot'.day = 0
            /\ snapshot'.rows = NoRows
            /\ snapshot' = [st |-> snapshot'.st, limits |-> snapshot'.limits,
                            day |-> snapshot'.day, rows |-> snapshot'.rows]
        BY <3>2 DEF TornSnapshot
      <4>2. Rows(snapshot'.rows, Held(snapshot'.limits)) /\ IsRows(snapshot'.rows)
        BY <4>1, NoRowsAreRows DEF Rows
      <4> QED
        BY <1>0, <1>1, <1>5, <2>0, <4>1, <4>2 DEF DiskOK
    <3>3. CASE snapshot' = [st |-> "ok", limits |-> run.limits, day |-> run.day, rows |-> all]
      BY <1>0, <1>1, <1>5, <2>0, <3>3 DEF DiskOK, Rows
    <3> QED
      BY <1>5, <3>1, <3>2, <3>3
  <2>2. LimitsMatch'
    <3>1. /\ Held(run.limits)' = Held(run.limits) /\ Filed(meta.limits)' = Filed(meta.limits)
          /\ Held(snapshot.limits)' = Held(snapshot'.limits)
      BY <1>1, <1>5 DEF Held, Filed
    <3> QED
      BY <1>0, <1>1, <1>5, <2>1, <3>1 DEF LimitsMatch, Writing
  <2> QED
    BY <1>2, <1>3, <2>1, <2>2, TypePartsNext DEF CacheInv, LimitsMatch, Rows
<1>6. CASE FinishFlush
  BY <1>1, <1>4, <1>6, OwnJournal, AppendedJournal DEF FinishFlush, history
<1>7. CASE WriteSnapshot
  BY <1>5, <1>7 DEF WriteSnapshot, history
<1>8. CASE CompactJsonl
  <2>1. /\ jsonl' = [st |-> "clean", rows |-> all] /\ UNCHANGED snapshot
        /\ pc' \in {"done", "ended"}
        /\ leftover' = IF leftover = "failed" THEN "no" ELSE leftover
    BY <1>8 DEF CompactJsonl, AfterFinish
  <2>2. \A l : Held(l) = IF leftover' = "read" THEN Limits ELSE {l}
    BY <1>0, <2>1 DEF Held, MemoryOK
  <2>3. /\ Held(run.limits)' = Held(run.limits) /\ Held(snapshot.limits)' = Held(snapshot.limits)
        /\ Filed(meta.limits)' = Held(run.limits)
    <3>1. leftover' \in {"no", "read"} /\ meta'.limits = run.limits
      BY <1>0, <1>1, <2>1 DEF MemoryOK, LimitsMatch
    <3> QED
      BY <1>1, <2>1, <2>2, <3>1 DEF Held, Filed
  <2>4. Journal(jsonl', Held(run.limits)) /\ Rows(all, Held(run.limits))
    BY <1>1, <2>1, OwnJournal, CleanFile
  <2>5. DiskOK'
    BY <1>0, <1>1, <2>1, <2>4 DEF DiskOK, Journal, Rows
  <2>6. LimitsMatch'
    BY <1>0, <1>1, <2>1, <2>3, <2>4 DEF LimitsMatch, Journal, Writing, StageNames
  <2> QED
    BY <1>2, <1>3, <2>5, <2>6, TypePartsNext DEF CacheInv, LimitsMatch, Rows
<1>9. CASE FinishFails
  <2>1. \/ jsonl' \in PartialAppends(jsonl, pending) /\ UNCHANGED snapshot
        \/ UNCHANGED jsonl /\ snapshot' \in {snapshot, TornSnapshot}
        \/ jsonl' \in PartialFiles(all) /\ UNCHANGED snapshot
    BY <1>9 DEF FinishFails
  <2>h. UNCHANGED leftover
    BY <1>9 DEF FinishFails, history
  <2>2. CASE jsonl' \in PartialAppends(jsonl, pending) /\ UNCHANGED snapshot
    BY <1>1, <1>4, <2>h, <2>2, OwnJournal, PartialAppendsJournal
  <2>3. CASE UNCHANGED jsonl /\ snapshot' \in {snapshot, TornSnapshot}
    BY <1>5, <2>h, <2>3
  <2>4. CASE jsonl' \in PartialFiles(all) /\ UNCHANGED snapshot
    BY <1>1, <1>4, <2>h, <2>4, OwnJournal, PartialFilesJournal
  <2> QED
    BY <2>1, <2>2, <2>3, <2>4
<1> QED
  BY <1>6, <1>7, <1>8, <1>9


\* A kill or an early return at any point, in or between writes.
LEMMA EndPreserves ==
    ASSUME CacheInv, EndsIdle \/ EndsWriting
    PROVE  CacheInv'
<1>0. DiskOK /\ MemoryOK /\ LimitsMatch /\ MaxDay \in Nat
  BY TypeParts, CacheAssumption DEF CacheInv
<1>1. /\ DropMemory /\ pc # "idle"
  BY DEF EndsIdle, EndsWriting, Running, StageNames
<1>2. /\ pc' = "ended" /\ evidence' = NoRows /\ all' = NoRows /\ pending' = <<>>
      /\ todo' = NoTodo /\ queue' = {} /\ missing' = {} /\ unprobed' = {} /\ attempted' = {}
      /\ UNCHANGED <<day, runs, run, saved, leftover>>
  BY <1>1 DEF DropMemory, history
<1>h. \A l : Held(l)' = Held(l) /\ Filed(l)' = Filed(l)
  BY <1>2 DEF Held, Filed
<1>3. MemoryOK'
  <2>1. NoTodo \in [StageNames -> SUBSET Contracts] /\ <<>> \in Seq(Contracts)
    BY DEF NoTodo
  <2>2. pc' \in PCs
    BY <1>2 DEF PCs
  <2> QED
    BY <1>0, <1>2, <2>1, <2>2 DEF MemoryOK
<1>4. WorkKnown'
  BY <1>2 DEF WorkKnown, NoTodo
<1>5. ASSUME DiskOK', Rows(snapshot'.rows, Held(snapshot'.limits)),
             meta'.st = "ok" => Rows(jsonl'.rows, Filed(meta'.limits)),
             meta'.st = "none" \/ jsonl'.st = "none" => jsonl' = NoJsonl
      PROVE  CacheInv'
  <2>1. LimitsMatch'
    <3>1. /\ Filed(meta.limits)' = Filed(meta'.limits)
          /\ Held(snapshot.limits)' = Held(snapshot'.limits)
      BY <1>2 DEF Held, Filed
    <3> QED
      BY <1>0, <1>1, <1>2, <1>5, <3>1, NoRowsAreRows DEF LimitsMatch, Writing, StageNames
  <2> QED
    BY <1>2, <1>3, <1>4, <1>5, <2>1, NoRowsAreRows, TypePartsNext DEF CacheInv, Rows
<1>6. CASE UNCHANGED disk
  BY <1>0, <1>5, <1>6 DEF disk, DiskOK, LimitsMatch
<1>7. CASE meta' = TornMeta /\ UNCHANGED <<jsonl, snapshot>> /\ pc = "meta"
  <2>1. DiskOK'
    BY <1>0, <1>7 DEF DiskOK, TornMeta
  <2>2. jsonl'.st = "none" => jsonl' = NoJsonl
    BY <1>0, <1>7 DEF LimitsMatch
  <2> QED
    BY <1>0, <1>5, <1>7, <2>1, <2>2 DEF LimitsMatch, TornMeta
<1>8. CASE Journal(jsonl', Filed(run.limits)) /\ UNCHANGED <<meta, snapshot>> /\ pc \in Writing
  <2>1. DiskOK'
    BY <1>0, <1>8 DEF DiskOK, Journal, Rows
  <2>2. jsonl'.st = "none" => jsonl' = NoJsonl
    BY <1>8 DEF Journal, NoJsonl
  <2> QED
    BY <1>0, <1>5, <1>8, <2>1, <2>2 DEF LimitsMatch, Journal
<1>9. CASE snapshot' = TornSnapshot /\ UNCHANGED <<meta, jsonl>>
  <2>1. DiskOK'
    BY <1>0, <1>9, NoRowsAreRows DEF DiskOK, TornSnapshot, Rows
  <2> QED
    BY <1>0, <1>5, <1>9, <2>1, NoRowsAreRows DEF LimitsMatch, TornSnapshot
<1>10. CASE EndsWriting
  <2>1. \/ pc = "meta" /\ meta' = TornMeta /\ UNCHANGED <<jsonl, snapshot>>
        \/ /\ pc \in Writing /\ UNCHANGED <<meta, snapshot>>
           /\ jsonl' \in PartialFiles(all) \/ jsonl' \in PartialAppends(jsonl, pending)
        \/ snapshot' = TornSnapshot /\ UNCHANGED <<meta, jsonl>>
    BY <1>10 DEF EndsWriting, Writing
  <2>2. ASSUME pc \in Writing,
               jsonl' \in PartialFiles(all) \/ jsonl' \in PartialAppends(jsonl, pending)
        PROVE  Journal(jsonl', Filed(run.limits))
    <3>1. Journal(jsonl, Filed(run.limits)) /\ Rows(all, Filed(run.limits))
      BY <2>2, OwnJournal
    <3>2. CASE jsonl' \in PartialFiles(all)
      BY <3>1, <3>2, PartialFilesJournal
    <3>3. CASE jsonl' \in PartialAppends(jsonl, pending)
      BY <3>1, <3>3, PartialAppendsJournal
    <3> QED
      BY <2>2, <3>2, <3>3
  <2> QED
    BY <1>7, <1>8, <1>9, <2>1, <2>2
<1> QED
  BY <1>6, <1>10 DEF EndsIdle

LEMMA UnchangedLimits ==
    ASSUME LimitsMatch, UNCHANGED <<meta, jsonl, snapshot, pc, run, evidence, all, leftover>>
    PROVE  LimitsMatch'
<1>1. /\ Filed(meta.limits)' = Filed(meta.limits) /\ Filed(run.limits)' = Filed(run.limits)
      /\ Held(run.limits)' = Held(run.limits) /\ Held(snapshot.limits)' = Held(snapshot.limits)
  BY DEF Held, Filed
<1>2. Usable(run.limits)' <=> Usable(run.limits)
  BY DEF Usable, Loaded
<1> QED
  BY <1>1, <1>2 DEF LimitsMatch

\* The whole step.
LEMMA CachePreserved == CacheInv /\ [Next]_vars => CacheInv'
<1> SUFFICES ASSUME CacheInv, [Next]_vars PROVE CacheInv'
  OBVIOUS
<1>1. CASE NextDay
  <2>1. /\ UNCHANGED <<disk, runs, pc, run, evidence, sink, work, history>>
        /\ day < MaxDay /\ day' = day + 1
    BY <1>1 DEF NextDay
  <2>2. MemoryOK /\ DiskOK /\ LimitsMatch /\ WorkKnown /\ MaxDay \in Nat
    BY TypeParts, CacheAssumption DEF CacheInv
  <2>3. MemoryOK' /\ DiskOK'
    BY <2>1, <2>2 DEF MemoryOK, DiskOK, disk, sink, work, history
  <2>4. LimitsMatch' /\ WorkKnown'
    BY <2>1, <2>2, UnchangedLimits DEF WorkKnown, disk, sink, work, history
  <2> QED
    BY <2>3, <2>4, TypePartsNext DEF CacheInv, LimitsMatch, Rows
<1>2. CASE UNCHANGED vars
  <2>1. UNCHANGED <<meta, jsonl, snapshot, day, runs, pc, run, evidence, all, pending, todo,
                    queue, missing, unprobed, attempted, saved, leftover>>
    BY <1>2 DEF vars, disk, sink, work, history
  <2>2. MemoryOK /\ DiskOK /\ LimitsMatch /\ WorkKnown
    BY TypeParts DEF CacheInv
  <2>3. MemoryOK' /\ DiskOK'
    BY <2>1, <2>2 DEF MemoryOK, DiskOK
  <2>4. LimitsMatch' /\ WorkKnown'
    BY <2>1, <2>2, UnchangedLimits DEF WorkKnown
  <2> QED
    BY <2>3, <2>4, TypePartsNext DEF CacheInv, LimitsMatch, Rows
<1> QED
  BY <1>1, <1>2, StartPreserves, OpenPreserves, WorkPreserves, FinishPreserves, EndPreserves
  DEF Next

-----------------------------------------------------------------------------
\* The inductive invariant holds through any number of runs, kills and failed
\* writes.
THEOREM CacheInvariant == Spec => []CacheInv
BY CacheInitially, CachePreserved, PTL DEF Spec

\* The files, the sink and the run keep their types.
THEOREM CacheTypes == Spec => []TypeOK
<1>1. CacheInv => TypeOK
  BY DEF CacheInv
<1> QED
  BY <1>1, CacheInvariant, PTL

\* validate_evidence_cache and EvidenceCacheSink::create: whatever was written
\* when a run was killed or a write failed, what a run works with and what the
\* files give the next run was fetched under the limits they are labelled
\* with, as long as no removal of an old jsonl failed; and after that until
\* some run reads the file that stayed.
THEOREM LimitsMixOnlyAfterFailedRemoval == Spec => []MixesOnlyAfterFailedRemoval
<1>1. CacheInv => MixesOnlyAfterFailedRemoval
  BY LoadedRows DEF CacheInv, LimitsMatch, MixesOnlyAfterFailedRemoval, Rows, Held, Filed
<1> QED
  BY <1>1, CacheInvariant, PTL

-----------------------------------------------------------------------------
(***************************************************************************)
(* What one run knows and what it leaves: the part of the invariant behind *)
(* FinishedIsResumable, RetriedWhenFailed and KillLosesOneBatchUnlessCut.  *)
(***************************************************************************)
Pushing == StageNames \cup {"fetch"}
Finishing == {"finish", "snapshot", "compact"}

\* Two bundles a later run treats alike.
Alike(a, b) == a.bad = b.bad /\ a.day = b.day

\* Every candidate has a bundle or is still to be fetched; a run that is done
\* has fetched them all.
CandidatesCovered ==
    /\ Running \/ pc = "done" => DOMAIN evidence \cup missing = Current(run.reg)
    /\ pc = "done" => missing = {}

\* A failed family with a retry rule was requested in this run, or will be:
\* with the whole bundle or in its refresh stage.
FailuresAccounted ==
    \A c \in DOMAIN evidence : \A f \in evidence[c].bad \cap Retried :
        <<c, f>> \in attempted \/ c \in missing \/ (f \in StageNames /\ c \in todo[f])

\* The refresh stages are left one after the other with nothing to do.
StagesInOrder ==
    /\ pc = "holders" => todo["prices"] = {}
    /\ pc = "relations" => todo["prices"] = {} /\ todo["holders"] = {}
    /\ pc \in {"fetch", "done"} \cup Finishing => \A s \in StageNames : todo[s] = {}
    /\ queue # {} => pc \in StageNames /\ todo[pc] = {}

\* Before the first push the sink has what the files give, the jsonl or the
\* snapshot when there is none, or nothing.
ResumeHolds ==
    /\ pc = "open" => evidence = Resumed(run.limits, run.reg)
    /\ pc \in {"meta", "rewrite"} =>
          /\ all = NoRows \/ (Usable(run.limits) /\ Loaded.rows = all)
          /\ \A c \in DOMAIN evidence : c \in DOMAIN all /\ Alike(evidence[c], all[c])

\* The sink has every bundle of the run that is not waiting to be pushed.
SinkHolds ==
    /\ pc \in Pushing \cup Finishing \/ saved =>
          \A c \in DOMAIN evidence \ queue : c \in DOMAIN all /\ all[c] = evidence[c]
    /\ \A c \in Contracts : InPending(c) => c \in DOMAIN evidence
    /\ pc \in {"open", "meta", "rewrite"} => pending = <<>>
    /\ pc \in Pushing \cup Finishing => Len(pending) <= BatchSize

\* What is queued or pending was requested in this run.
RequestsNoted ==
    \A c \in Contracts :
        InPending(c) \/ c \in queue => \E f \in Families : <<c, f>> \in attempted

\* A bundle of the sink is pending or its newest version is in the jsonl.
JournalHolds ==
    /\ pc \in Pushing \/ (pc \in Finishing /\ ~AppendFailed)
    /\ jsonl.st # "torn"
    => \A c \in DOMAIN all :
           InPending(c) \/ (c \in DOMAIN jsonl.rows /\ Alike(jsonl.rows[c], all[c]))

\* The files of a finished run are the sink's and stay until the next start.
SavedHolds ==
    saved =>
        /\ pc \in {"done", "ended"}
        /\ meta.st = "ok" /\ meta.limits = run.limits
        /\ jsonl.st = "clean" /\ jsonl.rows = all

\* The invariant of a run over its own files.
RunInv ==
    /\ CandidatesCovered /\ FailuresAccounted /\ StagesInOrder /\ ResumeHolds
    /\ SinkHolds /\ RequestsNoted /\ JournalHolds /\ SavedHolds

\* Nothing is loaded, pending or saved before the first run.
LEMMA RunInitially == Init => RunInv
BY DEF Init, RunInv, CandidatesCovered, FailuresAccounted, StagesInOrder, ResumeHolds, SinkHolds,
       RequestsNoted, JournalHolds, SavedHolds, Running, NoRows, InPending, Pushing, Finishing, StageNames, NoTodo

\* Nothing but the time changes.
LEMMA RunUntouched ==
    ASSUME RunInv, UNCHANGED <<meta, jsonl, snapshot, pc, run, evidence, all, pending, todo, queue,
                               missing, attempted, saved>>
    PROVE  RunInv'
<1>1. Loaded' = Loaded
  BY DEF Loaded
<1>2. Resumed(run.limits, run.reg)' = Resumed(run.limits, run.reg)
  BY <1>1 DEF Resumed, Usable
<1>3. \A c : InPending(c)' <=> InPending(c)
  BY DEF InPending
<1>4. (AppendFailed' <=> AppendFailed) /\ (Usable(run.limits)' <=> Usable(run.limits))
  BY <1>1 DEF AppendFailed, Usable
<1>5. JournalHolds' /\ ResumeHolds'
  BY <1>1, <1>2, <1>3, <1>4 DEF RunInv, JournalHolds, ResumeHolds
<1> QED
  BY <1>3, <1>5 DEF RunInv, CandidatesCovered, FailuresAccounted, StagesInOrder,
     SinkHolds, RequestsNoted, SavedHolds, Running

\* A run that starts has a bundle for every candidate it does not fetch, and
\* a stage for every other failed family.
LEMMA StartKeepsRun ==
    ASSUME CacheInv, NEW limits \in Limits, NEW reg \in Registries, Start(limits, reg)
    PROVE  RunInv'
<1> DEFINE rows == Resumed(limits, reg)
           toFetch == Missing(rows, reg)
           toRefresh == Todo(rows, reg, Loaded.day # day)
<1>1. /\ UNCHANGED <<meta, jsonl, snapshot>>
      /\ run' = [limits |-> limits, day |-> day, reg |-> reg]
      /\ evidence' = rows /\ missing' = toFetch /\ todo' = toRefresh
      /\ pc' = IF toFetch = {} /\ toRefresh = NoTodo THEN "done" ELSE "open"
      /\ all' = NoRows /\ pending' = <<>> /\ queue' = {} /\ attempted' = {} /\ saved' = FALSE
  BY DEF Start, disk
<1>2. evidence' = Resumed(run.limits, run.reg)'
  <2>1. Loaded' = Loaded
    BY <1>1 DEF Loaded
  <2>2. run'.limits = limits /\ run'.reg = reg
    BY <1>1
  <2> QED
    BY <1>1, <2>1, <2>2 DEF Resumed, Usable
<1>3. DOMAIN rows \subseteq Current(reg)
  BY DEF Resumed, NoRows
<1>rows. IsRows(rows)
  BY StartPreserves, <1>1 DEF CacheInv, TypeOK
<1> HIDE DEF rows
<1>4. DOMAIN rows \cup toFetch = Current(reg)
  BY <1>3 DEF Missing
<1>5. ASSUME NEW c \in DOMAIN rows, NEW f \in rows[c].bad \cap Retried
      PROVE  c \in toFetch \/ (f \in StageNames /\ c \in toRefresh[f])
  <2>2. CASE f = "core"
    BY <1>3, <1>5, <2>2 DEF Missing, NeedsRetry
  <2>3. CASE f = "prices"
    <3>1. c \notin toFetch => c \in toRefresh.prices
      BY <1>5, <2>3 DEF Todo
    <3> QED
      BY <2>3, <3>1 DEF StageNames
  <2>4. CASE f = "holders"
    <3>1. c \notin toFetch => c \in toRefresh.holders
      BY <1>5, <2>4 DEF Todo
    <3> QED
      BY <2>4, <3>1 DEF StageNames
  <2> QED
    BY <2>2, <2>3, <2>4 DEF Retried
<1> HIDE DEF toFetch, toRefresh
<1>6. \A s \in StageNames : NoTodo[s] = {}
  BY DEF NoTodo
<1>7. pc' \in {"done", "open"} /\ (pc' = "done" => todo' = NoTodo /\ missing' = {})
  BY <1>1
<1>8. CandidatesCovered' /\ FailuresAccounted'
  BY <1>1, <1>4, <1>5, <1>7 DEF CandidatesCovered, FailuresAccounted
<1>9. StagesInOrder' /\ SavedHolds'
  BY <1>1, <1>6, <1>7 DEF StagesInOrder, SavedHolds, Finishing
<1>10. ResumeHolds'
  BY <1>2, <1>7 DEF ResumeHolds
<1>11. SinkHolds' /\ RequestsNoted' /\ JournalHolds'
  BY <1>1, <1>7 DEF SinkHolds, RequestsNoted, JournalHolds, InPending, Pushing, Finishing, StageNames, NoRows
<1> QED
  BY <1>8, <1>9, <1>10, <1>11 DEF RunInv

-----------------------------------------------------------------------------
\* create: the sink holds what the run resumed from, and so does the jsonl
\* once the rows of a snapshot are rewritten.
LEMMA OpenSinkKeepsRun ==
    ASSUME CacheInv, RunInv, OpenSink
    PROVE  RunInv'
<1>1. /\ pc = "open" /\ pc' = "meta"
      /\ UNCHANGED <<run, evidence, pending, todo, queue, missing, attempted, saved>>
  BY DEF OpenSink, work
<1>2. evidence = Resumed(run.limits, run.reg) /\ pending = <<>>
  BY <1>1 DEF RunInv, ResumeHolds, SinkHolds
<1>3. ~saved
  BY <1>1 DEF RunInv, SavedHolds
<1>4. CASE Usable(run.limits)
  <2>1. all' = Loaded.rows /\ UNCHANGED <<meta, jsonl, snapshot>>
    BY <1>4 DEF OpenSink
  <2>2. ASSUME NEW c \in DOMAIN evidence
        PROVE  c \in DOMAIN Loaded.rows /\ Alike(evidence[c], Loaded.rows[c])
    <3>1. /\ c \in DOMAIN Loaded.rows
          /\ evidence[c] = Reconcile(Loaded.rows[c], run.reg[c])
      BY <1>2, <1>4 DEF Resumed
    <3>2. Loaded.rows[c] \in Bundle
      BY <3>1, LoadedRows DEF IsRows
    <3>3. PICK b \in Bundle : b = Loaded.rows[c]
      BY <3>2
    <3>4. Alike(Reconcile(b, run.reg[c]), b)
      BY DEF Reconcile, Alike, Bundle
    <3> QED
      BY <3>1, <3>3, <3>4
  <2>3. Loaded' = Loaded /\ Usable(run.limits)'
    BY <1>1, <1>4, <2>1 DEF Usable, Loaded
  <2>4. ResumeHolds'
    BY <1>1, <2>1, <2>2, <2>3 DEF ResumeHolds
  <2> QED
    BY <1>1, <1>2, <1>3, <2>4 DEF RunInv, CandidatesCovered, FailuresAccounted, StagesInOrder,
       SinkHolds, RequestsNoted, JournalHolds, SavedHolds, Running, InPending, Pushing, Finishing, StageNames
<1>5. CASE ~Usable(run.limits)
  <2>1. all' = NoRows
    BY <1>5 DEF OpenSink
  <2>2. DOMAIN evidence = {}
    BY <1>2, <1>5 DEF Resumed, NoRows
  <2>3. ResumeHolds'
    BY <1>1, <2>1, <2>2 DEF ResumeHolds
  <2> QED
    BY <1>1, <1>2, <1>3, <2>3 DEF RunInv, CandidatesCovered, FailuresAccounted, StagesInOrder,
       SinkHolds, RequestsNoted, JournalHolds, SavedHolds, Running, InPending, Pushing, Finishing, StageNames
<1> QED
  BY <1>4, <1>5

\* The meta of the run's limits makes its jsonl readable again and leaves a
\* snapshot readable when there is none.
LEMMA WriteMetaKeepsRun ==
    ASSUME CacheInv, RunInv, WriteMeta
    PROVE  RunInv'
<1>1. /\ pc = "meta" /\ pc' = "rewrite"
      /\ UNCHANGED <<jsonl, snapshot, run, evidence, all, pending, todo, queue, missing, attempted,
                     saved>>
      /\ meta' = [st |-> "ok", limits |-> run.limits, day |-> run.day]
  BY DEF WriteMeta, work, sink, history
<1>2. ~saved
  BY <1>1 DEF RunInv, SavedHolds
<1>3. ResumeHolds'
  <2>1. ASSUME Usable(run.limits), Loaded.rows = all
        PROVE  Usable(run.limits)' /\ Loaded'.rows = all'
    <3>1. CASE jsonl.st = "none"
      <4>1. Loaded' = Loaded
        BY <1>1, <3>1 DEF Loaded
      <4> QED
        BY <1>1, <2>1, <4>1 DEF Usable
    <3>2. CASE jsonl.st # "none"
      <4>1. meta.st # "none" /\ jsonl.st # "torn" /\ jsonl.rows = all
        BY <2>1, <3>2 DEF CacheInv, LimitsMatch, NoJsonl, Usable, Loaded
      <4>2. Loaded' = [ok |-> TRUE, limits |-> run.limits, day |-> run.day, rows |-> jsonl.rows]
        BY <1>1, <3>2, <4>1 DEF Loaded
      <4> QED
        BY <1>1, <4>1, <4>2 DEF Usable
    <3> QED
      BY <3>1, <3>2
  <2>2. /\ all = NoRows \/ (Usable(run.limits) /\ Loaded.rows = all)
        /\ \A c \in DOMAIN evidence : c \in DOMAIN all /\ Alike(evidence[c], all[c])
    BY <1>1 DEF RunInv, ResumeHolds
  <2> QED
    BY <1>1, <2>1, <2>2 DEF ResumeHolds
<1> QED
  BY <1>1, <1>2, <1>3 DEF RunInv, CandidatesCovered, FailuresAccounted, StagesInOrder,
     SinkHolds, RequestsNoted, JournalHolds, SavedHolds, Running, InPending, Pushing, Finishing,
     StageNames

\* Rows that came from the snapshot are in the jsonl before the first push.
LEMMA RewriteKeepsRun ==
    ASSUME CacheInv, RunInv, RewriteJsonl
    PROVE  RunInv'
<1>1. /\ pc = "rewrite" /\ pc' = "prices"
      /\ UNCHANGED <<run, evidence, pending, todo, queue, missing, attempted, saved>>
      /\ jsonl' = IF NeedsRewrite THEN [st |-> "clean", rows |-> all] ELSE jsonl
      /\ all' = Overlay(all, evidence)
  BY DEF RewriteJsonl, work, history
<1>2. ~saved /\ pending = <<>> /\ queue = {}
  BY <1>1 DEF RunInv, SavedHolds, SinkHolds, StagesInOrder, StageNames
<1>3. /\ all = NoRows \/ (Usable(run.limits) /\ Loaded.rows = all)
      /\ \A c \in DOMAIN evidence : c \in DOMAIN all /\ Alike(evidence[c], all[c])
  BY <1>1 DEF RunInv, ResumeHolds
<1>4. DOMAIN all' = DOMAIN all
  BY <1>1, <1>3 DEF Overlay
<1>5. ASSUME NEW c \in DOMAIN all PROVE Alike(all[c], all'[c])
  BY <1>1, <1>3, <1>5 DEF Overlay, Alike
<1>6. jsonl'.rows = all \/ DOMAIN all = {}
  <2>1. CASE all = NoRows
    BY <2>1 DEF NoRows
  <2>2. CASE all # NoRows /\ jsonl.st = "none"
    BY <1>1, <2>2 DEF NeedsRewrite
  <2>3. CASE all # NoRows /\ jsonl.st # "none"
    <3>1. meta.st = "ok"
      BY <1>1 DEF CacheInv, LimitsMatch, Writing
    <3>2. jsonl' = jsonl /\ jsonl.rows = Loaded.rows
      BY <1>1, <1>3, <2>3, <3>1 DEF NeedsRewrite, Usable, Loaded
    <3> QED
      BY <1>3, <2>3, <3>2
  <2> QED
    BY <2>1, <2>2, <2>3
<1>7. JournalHolds'
  BY <1>4, <1>5, <1>6 DEF JournalHolds
<1>8. SinkHolds'
  <2>1. \A c \in DOMAIN evidence : c \in DOMAIN all' /\ all'[c] = evidence[c]
    BY <1>1 DEF Overlay
  <2>2. Len(<<>>) <= BatchSize
    BY CacheAssumption
  <2> QED
    BY <1>1, <1>2, <2>1, <2>2 DEF SinkHolds, InPending
<1>10. RequestsNoted'
  BY <1>1, <1>2 DEF RequestsNoted, InPending
<1>9. CandidatesCovered' /\ FailuresAccounted' /\ StagesInOrder' /\ ResumeHolds' /\ SavedHolds'
  BY <1>1, <1>2 DEF RunInv, CandidatesCovered, FailuresAccounted, StagesInOrder, ResumeHolds,
     SavedHolds, Running, Finishing, StageNames
<1> QED
  BY <1>7, <1>8, <1>9, <1>10 DEF RunInv

-----------------------------------------------------------------------------
\* A refresh stage answers for its own family and leaves the sink alone.
LEMMA RefreshKeepsRun ==
    ASSUME CacheInv, RunInv, NEW stage \in StageNames, NEW failing \in SUBSET todo[stage],
           Refresh(stage, failing)
    PROVE  RunInv'
<1>1. /\ pc = stage /\ todo[stage] # {}
      /\ evidence' = [c \in DOMAIN evidence |->
                         IF c \in todo[stage]
                         THEN Refreshed(stage, evidence[c], c, c \in failing)
                         ELSE evidence[c]]
      /\ queue' = todo[stage] /\ todo' = [todo EXCEPT ![stage] = {}]
      /\ attempted' = attempted \cup {<<c, stage>> : c \in todo[stage]}
      /\ UNCHANGED <<meta, jsonl, snapshot, pc, run, all, pending, missing, saved>>
  BY DEF Refresh, disk, sink, history
<1>2. /\ todo \in [StageNames -> SUBSET Contracts] /\ IsRows(evidence)
      /\ todo[stage] \subseteq DOMAIN evidence
  BY DEF CacheInv, TypeOK, WorkKnown
<1>3. queue = {} /\ ~saved
  BY <1>1 DEF RunInv, StagesInOrder, SavedHolds, StageNames
<1>4. DOMAIN evidence' = DOMAIN evidence
  BY <1>1
<1>5. todo'[stage] = {} /\ \A s \in StageNames : s # stage => todo'[s] = todo[s]
  BY <1>1, <1>2
<1>6. FailuresAccounted'
  <2> SUFFICES ASSUME NEW c \in DOMAIN evidence, NEW f \in evidence'[c].bad \cap Retried
               PROVE  \/ <<c, f>> \in attempted' \/ c \in missing
                      \/ f \in StageNames /\ c \in todo'[f]
    BY <1>1, <1>4 DEF FailuresAccounted
  <2>1. CASE c \in todo[stage]
    <3>1. f \in evidence[c].bad \/ f = stage
      <4>1. PICK b \in Bundle : b = evidence[c]
        BY <1>2 DEF IsRows
      <4>2. evidence'[c] = Refreshed(stage, b, c, c \in failing)
        BY <1>1, <2>1, <4>1
      <4>3. Refreshed(stage, b, c, c \in failing).bad \subseteq b.bad \cup {stage}
        BY DEF Refreshed, Bundle, StageNames
      <4> QED
        BY <4>1, <4>2, <4>3
    <3>2. CASE f = stage
      BY <1>1, <2>1, <3>2
    <3>3. CASE f # stage
      BY <1>1, <1>5, <3>1, <3>3 DEF RunInv, FailuresAccounted
    <3> QED
      BY <3>2, <3>3
  <2>2. CASE c \notin todo[stage]
    <3>1. f \in evidence[c].bad
      BY <1>1, <2>2
    <3>2. f = stage => c \notin todo[f]
      BY <2>2
    <3> QED
      BY <1>1, <1>5, <3>1, <3>2 DEF RunInv, FailuresAccounted
  <2> QED
    BY <2>1, <2>2
<1>7. StagesInOrder'
  BY <1>1, <1>5 DEF RunInv, StagesInOrder, StageNames
<1>8. SinkHolds'
  <2>1. \A c \in DOMAIN evidence \ todo[stage] : evidence'[c] = evidence[c]
    BY <1>1
  <2>2. \A c : InPending(c)' <=> InPending(c)
    BY <1>1 DEF InPending
  <2> QED
    BY <1>1, <1>3, <1>4, <2>1, <2>2 DEF RunInv, SinkHolds, StageNames
<1>9. JournalHolds'
  BY <1>1 DEF RunInv, JournalHolds, InPending, Pushing, Finishing, StageNames
<1>req. RequestsNoted'
  <2>1. ASSUME NEW c \in Contracts, InPending(c)' \/ c \in queue'
        PROVE  \E f \in Families : <<c, f>> \in attempted'
    <3>1. CASE c \in todo[stage]
      <4>1. <<c, stage>> \in attempted' /\ stage \in Families
        BY <1>1, <3>1 DEF Families, StageNames
      <4> QED
        BY <4>1
    <3>2. CASE c \notin todo[stage]
      <4>1. InPending(c)
        BY <1>1, <2>1, <3>2 DEF InPending
      <4>2. PICK f \in Families : <<c, f>> \in attempted
        BY <4>1 DEF RunInv, RequestsNoted
      <4> QED
        BY <1>1, <4>2
    <3> QED
      BY <3>1, <3>2
  <2> QED
    BY <2>1 DEF RequestsNoted
<1>10. CandidatesCovered' /\ ResumeHolds' /\ SavedHolds'
  BY <1>1, <1>3, <1>4 DEF RunInv, CandidatesCovered, ResumeHolds, SavedHolds, Running, StageNames
<1> QED
  BY <1>6, <1>7, <1>8, <1>9, <1>req, <1>10 DEF RunInv

\* What a push does to the sink.
LEMMA PushEffect ==
    ASSUME CacheInv, NEW c \in Contracts, NEW b, Push(c, b), ~FlushDue
    PROVE  /\ DOMAIN all' = DOMAIN all \cup {c} /\ all'[c] = b
           /\ \A x \in DOMAIN all : x # c => all'[x] = all[x]
           /\ \A x : InPending(x)' <=> InPending(x) \/ x = c
           /\ Len(pending') <= BatchSize
<1>1. /\ all' = Overlay(all, [x \in {c} |-> b])
      /\ pending' = IF InPending(c) THEN pending ELSE Append(pending, c)
  BY DEF Push
<1>2. pending \in Seq(Contracts) /\ BatchSize \in Nat \ {0} /\ Len(pending) < BatchSize
  BY CacheAssumption DEF CacheInv, TypeOK, FlushDue
<1>3. /\ DOMAIN all' = DOMAIN all \cup {c} /\ all'[c] = b
      /\ \A x \in DOMAIN all : x # c => all'[x] = all[x]
  BY <1>1 DEF Overlay
<1>4. CASE InPending(c)
  BY <1>1, <1>2, <1>3, <1>4 DEF InPending
<1>5. CASE ~InPending(c)
  <2>1. pending' = Append(pending, c)
    BY <1>1, <1>5
  <2>2. /\ Len(pending') = Len(pending) + 1 /\ pending'[Len(pending) + 1] = c
        /\ \A i \in 1 .. Len(pending) : pending'[i] = pending[i]
        /\ DOMAIN pending' = 1 .. Len(pending) + 1 /\ DOMAIN pending = 1 .. Len(pending)
        /\ Len(pending) \in Nat
    BY <1>2, <2>1
  <2>3. ASSUME NEW x PROVE InPending(x)' <=> InPending(x) \/ x = c
    <3>1. ASSUME InPending(x)' PROVE InPending(x) \/ x = c
      <4>1. PICK i \in DOMAIN pending' : pending'[i] = x
        BY <3>1 DEF InPending
      <4> QED
        BY <2>2, <4>1 DEF InPending
    <3>2. ASSUME InPending(x) PROVE InPending(x)'
      <4>1. PICK i \in DOMAIN pending : pending[i] = x
        BY <3>2 DEF InPending
      <4>2. i \in DOMAIN pending' /\ pending'[i] = x
        BY <2>2, <4>1
      <4> QED
        BY <4>2 DEF InPending
    <3>3. InPending(c)'
      <4>1. Len(pending) + 1 \in DOMAIN pending'
        BY <2>2
      <4> QED
        BY <2>2, <4>1 DEF InPending
    <3> QED
      BY <3>1, <3>2, <3>3
  <2> QED
    BY <1>2, <1>3, <2>2, <2>3
<1> QED
  BY <1>4, <1>5

\* A push keeps the sink and the jsonl in step.
LEMMA PushKeepsJournal ==
    ASSUME CacheInv, RunInv, NEW c \in Contracts, NEW b, Push(c, b), ~FlushDue,
           pc \in Pushing, UNCHANGED <<pc, jsonl>>
    PROVE  JournalHolds'
<1>1. ASSUME jsonl.st # "torn", NEW x \in DOMAIN all'
      PROVE  InPending(x)' \/ (x \in DOMAIN jsonl.rows /\ Alike(jsonl.rows[x], all'[x]))
  <2>1. CASE x = c
    BY <2>1, PushEffect
  <2>2. CASE x # c
    <3>1. x \in DOMAIN all /\ all'[x] = all[x]
      BY <1>1, <2>2, PushEffect
    <3>2. InPending(x) \/ (x \in DOMAIN jsonl.rows /\ Alike(jsonl.rows[x], all[x]))
      BY <1>1, <3>1 DEF RunInv, JournalHolds
    <3>3. InPending(x) => InPending(x)'
      BY PushEffect
    <3> QED
      BY <3>1, <3>2, <3>3
  <2> QED
    BY <2>1, <2>2
<1> QED
  BY <1>1 DEF JournalHolds

\* A refreshed bundle leaves the queue and enters the sink.
LEMMA PushRefreshedKeepsRun ==
    ASSUME CacheInv, RunInv, NEW c \in queue, PushRefreshed(c)
    PROVE  RunInv'
<1>1. /\ UNCHANGED <<meta, jsonl, snapshot, pc, run, evidence, todo, missing, attempted, saved>>
      /\ queue' = queue \ {c} /\ Push(c, evidence[c]) /\ pc \in StageNames /\ ~FlushDue
  BY DEF PushRefreshed, disk, history
<1>2. c \in DOMAIN evidence /\ c \in Contracts /\ ~saved
  BY <1>1 DEF CacheInv, WorkKnown, TypeOK, RunInv, SavedHolds, StageNames
<1>3. SinkHolds'
  <2>1. ASSUME NEW x \in DOMAIN evidence \ (queue \ {c})
        PROVE  x \in DOMAIN all' /\ all'[x] = evidence[x]
    <3>1. CASE x = c
      BY <1>1, <1>2, <3>1, PushEffect
    <3>2. CASE x # c
      <4>1. x \in DOMAIN all /\ all[x] = evidence[x]
        BY <1>1, <2>1, <3>2 DEF RunInv, SinkHolds, Pushing
      <4> QED
        BY <1>1, <1>2, <3>2, <4>1, PushEffect
    <3> QED
      BY <3>1, <3>2
  <2>2. \A x : InPending(x)' <=> InPending(x) \/ x = c
    BY <1>1, <1>2, PushEffect
  <2>3. Len(pending') <= BatchSize
    BY <1>1, <1>2, PushEffect
  <2> QED
    BY <1>1, <1>2, <2>1, <2>2, <2>3 DEF RunInv, SinkHolds, StageNames
<1>4. JournalHolds'
  BY <1>1, <1>2, PushKeepsJournal DEF Pushing
<1>req. RequestsNoted'
  <2>1. \A x : InPending(x)' <=> InPending(x) \/ x = c
    BY <1>1, <1>2, PushEffect
  <2> QED
    BY <1>1, <2>1 DEF RunInv, RequestsNoted
<1>5. CandidatesCovered' /\ FailuresAccounted' /\ StagesInOrder' /\ ResumeHolds' /\ SavedHolds'
  BY <1>1, <1>2 DEF RunInv, CandidatesCovered, FailuresAccounted, StagesInOrder, ResumeHolds,
     SavedHolds, Running, Finishing, StageNames
<1> QED
  BY <1>3, <1>4, <1>req, <1>5 DEF RunInv

\* A stage is left when nothing of it is left to do.
LEMMA NextStageKeepsRun ==
    ASSUME CacheInv, RunInv,
           \/ NextStage("prices", "holders") \/ NextStage("holders", "relations")
           \/ \E failing \in SUBSET missing : Prefilter(failing)
           \/ FetchEnds
    PROVE  RunInv'
<1>1. /\ pc \in Pushing /\ pc' \in Pushing \cup {"finish"} /\ queue = {}
      /\ UNCHANGED <<meta, jsonl, snapshot, run, evidence, all, pending, todo, queue, missing,
                     attempted, saved>>
  BY DEF NextStage, Prefilter, FetchEnds, disk, sink, work, history, Pushing, StageNames,
     RunInv, StagesInOrder
<1>2. ~saved
  BY <1>1 DEF RunInv, SavedHolds, Pushing, StageNames
<1>3. StagesInOrder'
  <2>1. CASE NextStage("prices", "holders")
    BY <1>1, <2>1 DEF NextStage, StagesInOrder, Finishing
  <2>2. CASE NextStage("holders", "relations")
    BY <1>1, <2>2 DEF NextStage, RunInv, StagesInOrder, Finishing
  <2>3. CASE \E failing \in SUBSET missing : Prefilter(failing)
    BY <1>1, <2>3 DEF Prefilter, RunInv, StagesInOrder, Finishing, StageNames
  <2>4. CASE FetchEnds
    BY <1>1, <2>4 DEF FetchEnds, RunInv, StagesInOrder, Finishing, StageNames
  <2> QED
    BY <2>1, <2>2, <2>3, <2>4
<1>4. SinkHolds' /\ RequestsNoted' /\ JournalHolds'
  <2>1. \A c : InPending(c)' <=> InPending(c)
    BY <1>1 DEF InPending
  <2> QED
    BY <1>1, <1>2, <2>1 DEF RunInv, SinkHolds, RequestsNoted, JournalHolds, Pushing, Finishing,
       StageNames
<1>5. CandidatesCovered' /\ FailuresAccounted' /\ ResumeHolds' /\ SavedHolds'
  BY <1>1, <1>2 DEF RunInv, CandidatesCovered, FailuresAccounted, ResumeHolds,
     SavedHolds, Running, Pushing, StageNames
<1> QED
  BY <1>3, <1>4, <1>5 DEF RunInv

\* A fetched bundle was requested in every family, or probed only and failed in
\* none, and is pushed at once.
LEMMA FetchOneKeepsRun ==
    ASSUME CacheInv, RunInv, NEW c \in missing, NEW bad \in Outcomes, FetchOne(c, bad)
    PROVE  RunInv'
<1>1. /\ UNCHANGED <<meta, jsonl, snapshot, pc, run, todo, queue, saved>>
      /\ pc = "fetch" /\ ~FlushDue /\ missing' = missing \ {c}
      /\ attempted' = attempted \cup {<<c, f>> : f \in (IF c \in Gated THEN {"relations"} ELSE Families)}
      /\ c \in Gated => bad = {}
      /\ evidence' = Overlay(evidence, [x \in {c} |-> Fetched(c, bad)])
      /\ Push(c, Fetched(c, bad))
  BY DEF FetchOne, disk, history
<1>2. c \in Contracts /\ ~saved /\ bad \subseteq Families /\ queue = {}
  BY <1>1, CacheAssumption DEF CacheInv, TypeOK, RunInv, SavedHolds, StagesInOrder, StageNames
<1>3. /\ DOMAIN evidence' = DOMAIN evidence \cup {c} /\ evidence'[c] = Fetched(c, bad)
      /\ \A x \in DOMAIN evidence : x # c => evidence'[x] = evidence[x]
  BY <1>1 DEF Overlay
<1>4. /\ DOMAIN all' = DOMAIN all \cup {c} /\ all'[c] = Fetched(c, bad)
      /\ \A x \in DOMAIN all : x # c => all'[x] = all[x]
      /\ \A x : InPending(x)' <=> InPending(x) \/ x = c
      /\ Len(pending') <= BatchSize
  BY <1>1, <1>2, PushEffect
<1>5. CandidatesCovered'
  BY <1>1, <1>3 DEF RunInv, CandidatesCovered, Running
<1>6. FailuresAccounted'
  <2> SUFFICES ASSUME NEW x \in DOMAIN evidence', NEW f \in evidence'[x].bad \cap Retried
               PROVE  \/ <<x, f>> \in attempted' \/ x \in missing'
                      \/ f \in StageNames /\ x \in todo'[f]
    BY DEF FailuresAccounted
  <2>1. CASE x = c
    <3>1. f \in bad
      BY <1>2, <1>3, <2>1 DEF Fetched
    <3>2. c \notin Gated /\ f \in Families
      BY <1>1, <1>2, <3>1
    <3> QED
      BY <1>1, <2>1, <3>2
  <2>2. CASE x # c
    BY <1>1, <1>3, <2>2 DEF RunInv, FailuresAccounted
  <2> QED
    BY <2>1, <2>2
<1>7. SinkHolds'
  <2>1. ASSUME NEW x \in DOMAIN evidence' PROVE x \in DOMAIN all' /\ all'[x] = evidence'[x]
    <3>1. CASE x = c
      BY <1>3, <1>4, <3>1
    <3>2. CASE x # c
      <4>1. x \in DOMAIN evidence /\ x \in DOMAIN all /\ all[x] = evidence[x]
        BY <1>1, <1>2, <1>3, <3>2 DEF RunInv, SinkHolds, Pushing
      <4> QED
        BY <1>3, <1>4, <3>2, <4>1
    <3> QED
      BY <3>1, <3>2
  <2>2. \A x \in Contracts : InPending(x)' => x \in DOMAIN evidence'
    BY <1>3, <1>4 DEF RunInv, SinkHolds
  <2> QED
    BY <1>1, <1>4, <2>1, <2>2 DEF SinkHolds
<1>8. JournalHolds'
  BY <1>1, <1>2, PushKeepsJournal DEF Pushing
<1>req. RequestsNoted'
  <2>1. <<c, "relations">> \in attempted' /\ "relations" \in Families
    BY <1>1 DEF Families
  <2>2. ASSUME NEW x \in Contracts, InPending(x)' \/ x \in queue'
        PROVE  \E f \in Families : <<x, f>> \in attempted'
    <3>1. CASE x = c
      BY <2>1, <3>1
    <3>2. CASE x # c
      <4>1. PICK f \in Families : <<x, f>> \in attempted
        BY <1>1, <1>4, <2>2, <3>2 DEF RunInv, RequestsNoted
      <4> QED
        BY <1>1, <4>1
    <3> QED
      BY <3>1, <3>2
  <2> QED
    BY <2>2 DEF RequestsNoted
<1>9. StagesInOrder' /\ ResumeHolds' /\ SavedHolds'
  BY <1>1, <1>2 DEF RunInv, StagesInOrder, ResumeHolds, SavedHolds, StageNames
<1> QED
  BY <1>5, <1>6, <1>7, <1>8, <1>req, <1>9 DEF RunInv

\* A batch that is appended is in the jsonl in its newest version, unless the
\* line before it was left without its newline.
LEMMA AppendKeepsNewest ==
    ASSUME jsonl' = Appended(jsonl, pending), jsonl'.st # "torn",
           jsonl.st # "torn" => \A c \in DOMAIN all :
              InPending(c) \/ (c \in DOMAIN jsonl.rows /\ Alike(jsonl.rows[c], all[c])),
           NEW c \in DOMAIN all
    PROVE  c \in DOMAIN jsonl'.rows /\ Alike(jsonl'.rows[c], all[c])
<1>1. CASE pending = <<>>
  <2>1. jsonl' = jsonl /\ ~InPending(c)
    BY <1>1 DEF Appended, InPending
  <2> QED
    BY <2>1
<1>2. CASE pending # <<>> /\ jsonl.st \in {"open", "torn"}
  BY <1>2 DEF Appended, TornJsonl
<1>3. CASE pending # <<>> /\ jsonl.st \notin {"open", "torn"}
  <2> DEFINE ks == {pending[i] : i \in DOMAIN pending}
  <2>1. jsonl'.rows = Overlay(jsonl.rows, Only(all, ks))
    BY <1>3 DEF Appended
  <2>2. c \in ks <=> InPending(c)
    BY DEF InPending
  <2> HIDE DEF ks
  <2>3. CASE InPending(c)
    BY <2>1, <2>2, <2>3 DEF Overlay, Only, Alike
  <2>4. CASE ~InPending(c)
    <3>1. c \in DOMAIN jsonl.rows /\ Alike(jsonl.rows[c], all[c])
      BY <1>3, <2>4
    <3> QED
      BY <2>1, <2>2, <2>4, <3>1 DEF Overlay, Only
  <2> QED
    BY <2>3, <2>4
<1> QED
  BY <1>1, <1>2, <1>3

LEMMA FlushKeepsRun ==
    ASSUME CacheInv, RunInv, Flush
    PROVE  RunInv'
<1>1. /\ UNCHANGED <<meta, snapshot, pc, run, evidence, all, todo, queue, missing, attempted, saved>>
      /\ pc \in Pushing /\ jsonl' = Appended(jsonl, pending) /\ pending' = <<>>
  BY DEF Flush, work, history, Pushing
<1>2. ~saved
  BY <1>1 DEF RunInv, SavedHolds, Pushing, StageNames
<1>3. JournalHolds'
  <2>1. jsonl.st # "torn" => \A c \in DOMAIN all :
           InPending(c) \/ (c \in DOMAIN jsonl.rows /\ Alike(jsonl.rows[c], all[c]))
    BY <1>1 DEF RunInv, JournalHolds
  <2> QED
    BY <1>1, <2>1, AppendKeepsNewest DEF JournalHolds
<1>4. SinkHolds' /\ RequestsNoted'
  <2>1. \A c : ~InPending(c)'
    BY <1>1 DEF InPending
  <2>2. Len(pending') <= BatchSize
    BY <1>1, CacheAssumption
  <2> QED
    BY <1>1, <2>1, <2>2 DEF RunInv, SinkHolds, RequestsNoted
<1>5. CandidatesCovered' /\ FailuresAccounted' /\ StagesInOrder' /\ ResumeHolds' /\ SavedHolds'
  BY <1>1, <1>2 DEF RunInv, CandidatesCovered, FailuresAccounted, StagesInOrder, ResumeHolds,
     SavedHolds, Running, Pushing, Finishing, StageNames
<1> QED
  BY <1>3, <1>4, <1>5 DEF RunInv

\* A batch that could not be written leaves its last contract to be fetched.
LEMMA FetchFlushFailsKeepsRun ==
    ASSUME CacheInv, RunInv, FetchFlushFails
    PROVE  RunInv'
<1>1. /\ UNCHANGED <<meta, snapshot, run, evidence, all, todo, queue, attempted, saved>>
      /\ pc = "fetch" /\ pc' = "finish" /\ FlushDue /\ pending' = <<>>
      /\ missing' = missing \cup {pending[Len(pending)]}
  BY DEF FetchFlushFails, history
<1>2. ~saved
  BY <1>1 DEF RunInv, SavedHolds
<1>3. pending[Len(pending)] \in DOMAIN evidence /\ AppendFailed'
  <2>1. /\ pending \in Seq(Contracts) /\ Len(pending) \in DOMAIN pending
        /\ pending[Len(pending)] \in Contracts
    BY <1>1, CacheAssumption DEF CacheInv, TypeOK, FlushDue
  <2>2. InPending(pending[Len(pending)])
    BY <2>1 DEF InPending
  <2>3. PICK f \in Families : <<pending[Len(pending)], f>> \in attempted
    BY <2>1, <2>2 DEF RunInv, RequestsNoted
  <2>4. pending[Len(pending)] \in missing' /\ <<pending[Len(pending)], f>> \in attempted'
    BY <1>1, <2>3
  <2>5. AppendFailed'
    BY <2>4 DEF AppendFailed
  <2> QED
    BY <2>1, <2>2, <2>5 DEF RunInv, SinkHolds
<1>4. CandidatesCovered' /\ FailuresAccounted'
  BY <1>1, <1>3 DEF RunInv, CandidatesCovered, FailuresAccounted, Running
<1>5. SinkHolds' /\ RequestsNoted' /\ JournalHolds'
  <2>1. Len(pending') <= BatchSize
    BY <1>1, CacheAssumption
  <2>2. \A c : ~InPending(c)'
    BY <1>1 DEF InPending
  <2>3. queue = {}
    BY <1>1 DEF RunInv, StagesInOrder, StageNames
  <2> QED
    BY <1>1, <1>2, <1>3, <2>1, <2>2, <2>3 DEF RunInv, SinkHolds, RequestsNoted, JournalHolds,
       Pushing, Finishing, StageNames
<1>6. StagesInOrder' /\ ResumeHolds' /\ SavedHolds'
  BY <1>1, <1>2 DEF RunInv, StagesInOrder, ResumeHolds, SavedHolds, Finishing, StageNames
<1> QED
  BY <1>4, <1>5, <1>6 DEF RunInv

-----------------------------------------------------------------------------
\* sink.finish: a run is done only with every candidate fetched, and saved
\* only with the whole sink in the files.
LEMMA FinishKeepsRun ==
    ASSUME CacheInv, RunInv, FinishFlush \/ WriteSnapshot \/ CompactJsonl \/ FinishFails
    PROVE  RunInv'
<1>1. /\ pc \in Finishing /\ UNCHANGED <<meta, run, evidence, all, todo, queue, missing, attempted>>
      /\ pending' = <<>> \/ pending' = pending
      /\ pc' \in Finishing \cup {AfterFinish}
  BY DEF FinishFlush, WriteSnapshot, CompactJsonl, FinishFails, sink, work, Finishing
<1>2. pc' \in Finishing \cup {"done", "ended"} /\ (pc' = "done" => missing = {})
  BY <1>1 DEF AfterFinish, Finishing
<1>3. ~saved /\ queue = {} /\ \A s \in StageNames : todo[s] = {}
  BY <1>1 DEF RunInv, SavedHolds, StagesInOrder, Finishing, StageNames
<1>4. \A c \in DOMAIN evidence \ queue : c \in DOMAIN all /\ all[c] = evidence[c]
  BY <1>1 DEF RunInv, SinkHolds
<1>5. CandidatesCovered' /\ FailuresAccounted'
  <2>1. DOMAIN evidence \cup missing = Current(run.reg)
    BY <1>1 DEF RunInv, CandidatesCovered, Running, Finishing
  <2> QED
    BY <1>1, <1>2, <2>1 DEF RunInv, CandidatesCovered, FailuresAccounted
<1>6. StagesInOrder' /\ ResumeHolds'
  BY <1>1, <1>2, <1>3 DEF StagesInOrder, ResumeHolds, Finishing
<1>7. SinkHolds' /\ RequestsNoted'
  <2>1. \A c \in Contracts : InPending(c)' => InPending(c)
    BY <1>1 DEF InPending
  <2>2. pc' \notin Pushing /\ pc' \notin {"open", "meta", "rewrite"}
    BY <1>2 DEF Finishing, Pushing, StageNames
  <2>3. Len(pending') <= BatchSize
    <3>1. Len(pending) <= BatchSize /\ Len(<<>>) <= BatchSize
      BY <1>1, CacheAssumption DEF RunInv, SinkHolds
    <3> QED
      BY <1>1, <3>1
  <2> QED
    BY <1>1, <1>3, <1>4, <2>1, <2>2, <2>3 DEF RunInv, SinkHolds, RequestsNoted
<1>9. JournalHolds'
  <2>0. ASSUME ~AppendFailed, jsonl.st # "torn", NEW c \in DOMAIN all
        PROVE  InPending(c) \/ (c \in DOMAIN jsonl.rows /\ Alike(jsonl.rows[c], all[c]))
    BY <1>1, <2>0 DEF RunInv, JournalHolds
  <2>1. AppendFailed' <=> AppendFailed
    BY <1>1 DEF AppendFailed
  <2>2. pc' \notin Pushing /\ "done" \notin Finishing /\ "ended" \notin Finishing
    BY <1>2 DEF Finishing, Pushing, StageNames
  <2>3. CASE FinishFlush
    <3>1. jsonl' = Appended(jsonl, pending)
      BY <2>3 DEF FinishFlush
    <3> QED
      BY <1>1, <2>0, <2>1, <2>2, <3>1, AppendKeepsNewest DEF JournalHolds
  <2>4. CASE WriteSnapshot
    <3>1. UNCHANGED <<jsonl, pending>>
      BY <2>4 DEF WriteSnapshot, sink
    <3>2. \A c : InPending(c)' <=> InPending(c)
      BY <3>1 DEF InPending
    <3> QED
      BY <1>1, <2>0, <2>1, <2>2, <3>1, <3>2 DEF JournalHolds
  <2>5. CASE CompactJsonl \/ FinishFails
    <3>1. pc' \in {"done", "ended"}
      BY <2>5 DEF CompactJsonl, FinishFails, AfterFinish
    <3> QED
      BY <2>2, <3>1 DEF JournalHolds
  <2> QED
    BY <2>3, <2>4, <2>5
<1>8. SavedHolds'
  <2>1. CASE CompactJsonl
    <3>1. pc = "compact" /\ jsonl' = [st |-> "clean", rows |-> all] /\ pc' = AfterFinish
      BY <2>1 DEF CompactJsonl
    <3>2. meta.st = "ok" /\ meta.limits = run.limits
      BY <3>1 DEF CacheInv, LimitsMatch, Writing
    <3> QED
      BY <1>1, <3>1, <3>2 DEF SavedHolds, AfterFinish
  <2>2. CASE FinishFlush \/ WriteSnapshot \/ FinishFails
    BY <1>3, <2>2 DEF FinishFlush, WriteSnapshot, FinishFails, SavedHolds, history
  <2> QED
    BY <2>1, <2>2
<1> QED
  BY <1>5, <1>6, <1>7, <1>8, <1>9 DEF RunInv

\* A run that ends without a result has saved nothing.
LEMMA EndKeepsRun ==
    ASSUME CacheInv, RunInv, EndsIdle \/ EndsWriting
    PROVE  RunInv'
<1>1. DropMemory /\ Running
  BY DEF EndsIdle, EndsWriting, Running, StageNames
<1>2. /\ pc' = "ended" /\ evidence' = NoRows /\ pending' = <<>> /\ queue' = {} /\ saved' = saved
  BY <1>1 DEF DropMemory, history
<1>3. ~saved
  BY <1>1 DEF RunInv, SavedHolds, Running
<1> QED
  BY <1>2, <1>3 DEF RunInv, CandidatesCovered, FailuresAccounted, StagesInOrder, ResumeHolds,
     SinkHolds, RequestsNoted, JournalHolds, SavedHolds, Running, NoRows, InPending, Pushing,
     Finishing, StageNames

\* The whole step.
LEMMA RunPreserved == CacheInv /\ RunInv /\ [Next]_vars => RunInv'
<1> SUFFICES ASSUME CacheInv, RunInv, [Next]_vars PROVE RunInv'
  OBVIOUS
<1>1. CASE NextDay \/ UNCHANGED vars
  <2>1. UNCHANGED <<meta, jsonl, snapshot, pc, run, evidence, all, pending, todo, queue, missing,
                    attempted, saved>>
    BY <1>1 DEF NextDay, vars, disk, sink, work, history
  <2> QED
    BY <2>1, RunUntouched
<1> QED
  BY <1>1, StartKeepsRun, OpenSinkKeepsRun, WriteMetaKeepsRun, RewriteKeepsRun, RefreshKeepsRun,
     PushRefreshedKeepsRun, NextStageKeepsRun, FetchOneKeepsRun, FlushKeepsRun,
     FetchFlushFailsKeepsRun, FinishKeepsRun, EndKeepsRun
  DEF Next

\* The inductive invariant of a run: what it has, what it still has to do,
\* and where every bundle of the sink is.
THEOREM RunInvariant == Spec => [](CacheInv /\ RunInv)
BY CacheInitially, CachePreserved, RunInitially, RunPreserved, PTL DEF Spec

-----------------------------------------------------------------------------
\* An append that ends early, but in no line, keeps the rows it does not write.
LEMMA PartialAppendKeeps ==
    ASSUME NEW j, NEW ks, NEW p \in PartialAppends(j, ks), p.st # "torn",
           j = [st |-> j.st, rows |-> j.rows],
           NEW c \in DOMAIN j.rows, c \notin {ks[i] : i \in DOMAIN ks}, ks \in Seq(Contracts)
    PROVE  c \in DOMAIN p.rows /\ p.rows[c] = j.rows[c]
<1>1. PICK k \in 0 .. Len(ks) : p \in PartlyAppended(j, ks, k)
  BY DEF PartialAppends
<1> DEFINE opened == IF j.st = "none" THEN [j EXCEPT !.st = "clean"] ELSE j
           first == SubSeq(ks, 1, k)
           cut == Appended(opened, first)
<1>2. opened.rows = j.rows /\ opened = [st |-> opened.st, rows |-> opened.rows]
  BY DEF opened
<1>3. p = cut \/ p = TornJsonl \/ (cut.st = "clean" /\ p = [cut EXCEPT !.st = "open"])
  BY <1>1 DEF PartlyAppended
<1>4. {first[i] : i \in DOMAIN first} \subseteq {ks[i] : i \in DOMAIN ks}
  BY DEF first
<1> HIDE DEF opened, first
<1>5. cut.st # "torn" => c \in DOMAIN cut.rows /\ cut.rows[c] = j.rows[c]
  <2>1. CASE first = <<>>
    BY <1>2, <2>1 DEF Appended
  <2>2. CASE first # <<>> /\ opened.st \in {"open", "torn"}
    BY <2>2 DEF Appended, TornJsonl
  <2>3. CASE first # <<>> /\ opened.st \notin {"open", "torn"}
    <3>1. cut.rows = Overlay(opened.rows, Only(all, {first[i] : i \in DOMAIN first}))
      BY <2>3 DEF Appended
    <3> QED
      BY <1>2, <1>4, <3>1 DEF Overlay, Only
  <2> QED
    BY <2>1, <2>2, <2>3
<1>6. cut = [st |-> cut.st, rows |-> cut.rows]
  BY <1>2 DEF Appended, TornJsonl
<1> HIDE DEF cut
<1>7. CASE p = cut
  BY <1>5, <1>7
<1>8. CASE cut.st = "clean" /\ p = [cut EXCEPT !.st = "open"]
  <2>1. p.rows = cut.rows
    BY <1>6, <1>8
  <2> QED
    BY <1>5, <1>8, <2>1
<1> QED
  BY <1>3, <1>7, <1>8 DEF TornJsonl

\* A torn line stays.
LEMMA TornStaysTorn ==
    ASSUME NEW j, NEW ks, j.st = "torn", NEW p \in PartialAppends(j, ks)
    PROVE  p.st = "torn"
<1>1. PICK k \in 0 .. Len(ks) : p \in PartlyAppended(j, ks, k)
  BY DEF PartialAppends
<1>2. Appended(j, SubSeq(ks, 1, k)).st = "torn"
  BY DEF Appended, TornJsonl
<1> QED
  BY <1>1, <1>2 DEF PartlyAppended, TornJsonl

\* What the end of a run may leave of its files.
LEMMA EndsOfRuns ==
    ASSUME [Next]_vars, pc' = "ended", pc \notin {"idle", "open", "done", "ended"}, ~CutShort
    PROVE  /\ UNCHANGED <<meta, run>>
           /\ \/ UNCHANGED <<jsonl, snapshot>>
              \/ /\ pc = "finish" \/ pc \in Pushing
                 /\ jsonl' \in PartialAppends(jsonl, pending)
              \/ pc = "snapshot" /\ UNCHANGED jsonl
<1>1. EndsIdle \/ EndsWriting \/ FinishFails \/ CompactJsonl
  <2>1. CASE Next
    BY <2>1 DEF Next, Start, OpenSink, WriteMeta, RewriteJsonl, Refresh, PushRefreshed, NextStage,
       Prefilter, FetchOne, FetchEnds, Flush, FetchFlushFails, FinishFlush, WriteSnapshot, NextDay,
       StageNames
  <2>2. CASE UNCHANGED vars
    BY <2>2 DEF vars
  <2> QED
    BY <2>1, <2>2
<1>2. CASE EndsIdle
  BY <1>2 DEF EndsIdle, DropMemory, disk
<1>3. CASE EndsWriting
  <2>1. UNCHANGED run /\ ~(pc = "meta" /\ meta' = TornMeta)
        /\ ~(pc \in {"rewrite", "compact"} /\ jsonl' # jsonl)
    BY <1>3 DEF EndsWriting, DropMemory, CutShort, TornMeta
  <2> QED
    BY <1>3, <2>1 DEF EndsWriting, Pushing
<1>4. CASE FinishFails
  <2>1. ~(pc \in {"rewrite", "compact"} /\ jsonl' # jsonl)
    BY DEF CutShort
  <2> QED
    BY <1>4, <2>1 DEF FinishFails
<1>5. CASE CompactJsonl
  <2>1. ~(pc \in {"rewrite", "compact"} /\ jsonl' # jsonl)
    BY DEF CutShort
  <2> QED
    BY <1>5, <2>1 DEF CompactJsonl
<1> QED
  BY <1>1, <1>2, <1>3, <1>4, <1>5

\* The end of a run keeps what is not pending, unless it cuts a write short.
LEMMA EndsLoseOneBatch == CacheInv /\ RunInv /\ [Next]_vars => [EndLosesOneBatch]_vars
<1> SUFFICES ASSUME CacheInv, RunInv, [Next]_vars, pc' = "ended",
                    pc \notin {"idle", "open", "done", "ended"}, ~AppendFailed, ~CutShort
             PROVE  /\ Len(pending) <= BatchSize
                    /\ \A c \in DOMAIN all \ {pending[i] : i \in DOMAIN pending} :
                          /\ Usable(run.limits)' /\ c \in DOMAIN Loaded'.rows
                          /\ Alike(Loaded'.rows[c], all[c])
  BY DEF EndLosesOneBatch, Alike
<1>1. pc \in {"meta", "rewrite"} \/ pc \in Pushing \cup Finishing
  BY DEF CacheInv, TypeOK, Pushing, Finishing
<1>2. Len(pending) <= BatchSize
  <2>1. Len(<<>>) <= BatchSize
    BY CacheAssumption
  <2> QED
    BY <1>1, <2>1 DEF RunInv, SinkHolds
<1>3. ASSUME NEW c \in DOMAIN all \ {pending[i] : i \in DOMAIN pending}
      PROVE  Usable(run.limits)' /\ c \in DOMAIN Loaded'.rows /\ Alike(Loaded'.rows[c], all[c])
  <2>0. ~InPending(c)
    BY <1>3 DEF InPending
  <2>1. CASE pc \in {"meta", "rewrite"}
    <3>1. Usable(run.limits) /\ Loaded.rows = all
      BY <1>3, <2>1 DEF RunInv, ResumeHolds, NoRows
    <3>2. UNCHANGED <<meta, jsonl, snapshot, run>>
      BY <2>1, EndsOfRuns DEF Pushing, StageNames
    <3>3. Loaded' = Loaded
      BY <3>2 DEF Loaded
    <3> QED
      BY <3>1, <3>2, <3>3 DEF Usable, Alike
  <2>2. CASE pc \in Pushing \cup Finishing
    <3>1. meta.st = "ok" /\ meta.limits = run.limits /\ UNCHANGED <<meta, run>>
      BY <2>2, EndsOfRuns DEF CacheInv, LimitsMatch, Writing, Pushing, Finishing
    <3>2. jsonl'.st # "torn"
      BY DEF CutShort
    <3>3. ASSUME jsonl.st # "torn" PROVE c \in DOMAIN jsonl.rows /\ Alike(jsonl.rows[c], all[c])
      BY <1>3, <2>0, <2>2, <3>3 DEF RunInv, JournalHolds
    <3>4. jsonl'.st # "none" /\ c \in DOMAIN jsonl'.rows /\ Alike(jsonl'.rows[c], all[c])
      <4>1. CASE UNCHANGED jsonl
        <5>1. c \in DOMAIN jsonl.rows /\ Alike(jsonl.rows[c], all[c])
          BY <3>2, <3>3, <4>1
        <5>2. jsonl.st # "none"
          BY <5>1 DEF CacheInv, LimitsMatch, NoJsonl, NoRows
        <5> QED
          BY <4>1, <5>1, <5>2
      <4>2. CASE jsonl' \in PartialAppends(jsonl, pending)
        <5>0. /\ jsonl = [st |-> jsonl.st, rows |-> jsonl.rows] /\ pending \in Seq(Contracts)
              /\ pc \in Writing
          BY <2>2 DEF CacheInv, TypeOK, Writing, Pushing, Finishing
        <5>1. jsonl.st # "torn"
          BY <3>2, <4>2, <5>0, TornStaysTorn
        <5>2. c \in DOMAIN jsonl'.rows /\ jsonl'.rows[c] = jsonl.rows[c]
          BY <1>3, <3>2, <3>3, <4>2, <5>0, <5>1, PartialAppendKeeps
        <5>3. Journal(jsonl', Filed(run.limits))
          BY <4>2, <5>0, OwnJournal, PartialAppendsJournal
        <5>4. jsonl'.st # "none"
          BY <5>2, <5>3 DEF Journal, NoRows
        <5> QED
          BY <3>3, <5>1, <5>2, <5>4
      <4> QED
        BY <4>1, <4>2, EndsOfRuns
    <3>5. Loaded' = [ok |-> TRUE, limits |-> meta.limits, day |-> meta.day, rows |-> jsonl'.rows]
      BY <3>1, <3>2, <3>4 DEF Loaded
    <3> QED
      BY <3>1, <3>4, <3>5 DEF Usable
  <2> QED
    BY <1>1, <2>1, <2>2
<1> QED
  BY <1>2, <1>3

\* EvidenceCacheSink::push, flush and finish: for any batch size, also when the
\* run resumed from the snapshot, the end of a run that cuts no write short
\* loses no more than the pending batch.
THEOREM KillsLoseOneBatchUnlessCut == Spec => KillLosesOneBatchUnlessCut
<1>1. Spec => [][EndLosesOneBatch]_vars
  BY RunInvariant, EndsLoseOneBatch, PTL DEF Spec
<1> QED
  BY <1>1 DEF KillLosesOneBatchUnlessCut

\* EvidenceCacheSink::finish: what the next run reads is exactly what this one
\* had, and a completed run's own candidates are in it as it used them.
THEOREM FinishedRunsAreResumable == Spec => []FinishedIsResumable
<1>1. ASSUME CacheInv, RunInv, saved
      PROVE  /\ Loaded.ok /\ Loaded.limits = run.limits /\ Loaded.rows = all
             /\ pc = "done" => Only(all, Current(run.reg)) = evidence
  <2>1. /\ meta.st = "ok" /\ meta.limits = run.limits /\ jsonl.st = "clean" /\ jsonl.rows = all
        /\ pc \in {"done", "ended"}
    BY <1>1 DEF RunInv, SavedHolds
  <2>2. Loaded.ok /\ Loaded.limits = run.limits /\ Loaded.rows = all
    BY <2>1 DEF Loaded
  <2>3. ASSUME pc = "done" PROVE Only(all, Current(run.reg)) = evidence
    <3>1. DOMAIN evidence = Current(run.reg)
      BY <1>1, <2>3 DEF RunInv, CandidatesCovered
    <3>2. queue = {}
      BY <1>1, <2>3 DEF RunInv, StagesInOrder, StageNames
    <3>3. \A c \in DOMAIN evidence : c \in DOMAIN all /\ all[c] = evidence[c]
      BY <1>1, <3>2 DEF RunInv, SinkHolds
    <3>4. evidence = [c \in DOMAIN evidence |-> evidence[c]]
      BY <1>1 DEF CacheInv, TypeOK, IsRows
    <3>5. DOMAIN all \cap Current(run.reg) = DOMAIN evidence
      BY <3>1, <3>3
    <3> QED
      BY <3>3, <3>4, <3>5 DEF Only
  <2> QED
    BY <2>2, <2>3
<1>2. CacheInv /\ RunInv => FinishedIsResumable
  BY <1>1 DEF FinishedIsResumable
<1> QED
  BY <1>2, RunInvariant, PTL

\* cached_evidence_needs_retry, cached_prices_need_retry and
\* cached_evm_holders_need_retry: a completed run has evidence for every
\* candidate, and whatever is marked failed in a family with a retry rule was
\* requested in this run.
THEOREM RetryableFailuresAreRetried == Spec => []RetriedWhenFailed
<1>1. RunInv => RetriedWhenFailed
  <2>1. \A f \in StageNames : pc = "done" /\ RunInv => todo[f] = {}
    BY DEF RunInv, StagesInOrder
  <2> QED
    BY <2>1 DEF RunInv, CandidatesCovered, FailuresAccounted, RetriedWhenFailed
<1> QED
  BY <1>1, RunInvariant, PTL
=============================================================================
