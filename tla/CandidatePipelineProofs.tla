---------------------- MODULE CandidatePipelineProofs ----------------------
(***************************************************************************)
(* For every set of candidates, every relation between hints and frozen     *)
(* records, every capacity and every outcome of fetches, compressions and   *)
(* writes: the safety properties of the event loop process_candidates.      *)
(* One induction over PipelineInv; the part of it that belongs to the       *)
(* prefetch coordinator is preserved by the lemmas of its own proofs.       *)
(***************************************************************************)
EXTENDS CandidatePipeline, PrefetchCoordinatorProofs, WellFoundedInduction

-----------------------------------------------------------------------------
(* TotalOf: the sum of the sizes of a set of payloads.  MapThenSumSet is a   *)
(* recursive function over the subsets; what it computes is proved by        *)
(* looking at a smallest subset for which it would be wrong.                 *)

Pick(s) == CHOOSE x \in s : TRUE
SumStep(f, g, s) == IF s = {} THEN 0 ELSE f[Pick(s)] + g[s \ {Pick(s)}]
IsSum(g, f, S) == g = [s \in SUBSET S |-> SumStep(f, g, s)]
SumFcn(f, S) == CHOOSE g : IsSum(g, f, S)

\* TotalOf is the value of that function at S.
LEMMA SumDef == ASSUME NEW f, NEW S PROVE TotalOf(f, S) = SumFcn(f, S)[S]
BY DEF TotalOf, MapThenSumSet, MapThenFoldSet, SumFcn, IsSum, SumStep, Pick

\* Every non-empty set of numbers has a least one: the induction principle of
\* the lemmas below.
LEMMA LeastNat ==
    ASSUME NEW N, N \subseteq Nat, N # {}
    PROVE  \E n \in N : \A m \in N : ~(m < n)
<1>1. PICK n \in N : \A m \in N : ~ (<<m, n>> \in OpToRel(<, Nat))
  BY WFMin, NatLessThanWellFounded
<1> QED
  BY <1>1 DEF OpToRel

\* Induction over the subsets of a finite set: a smallest one of a kind.
LEMMA MinimalSubset ==
    ASSUME NEW S, IsFiniteSet(S), NEW B, B \subseteq SUBSET S, B # {}
    PROVE  \E s \in B : \A x \in s : s \ {x} \notin B
<1> DEFINE N == {Cardinality(s) : s \in B}
<1>1. \A s \in B : IsFiniteSet(s)
  BY FS_Subset
<1>2. N \subseteq Nat /\ N # {}
  BY <1>1, FS_CardinalityType
<1> HIDE DEF N
<1>3. PICK n \in N : \A m \in N : ~(m < n)
  BY <1>2, LeastNat
<1>4. PICK s \in B : n = Cardinality(s)
  BY DEF N
<1>5. ASSUME NEW x \in s, s \ {x} \in B PROVE FALSE
  <2>1. Cardinality(s \ {x}) = n - 1 /\ n \in Nat
    BY <1>1, <1>2, <1>4, FS_RemoveElement
  <2>2. Cardinality(s \ {x}) \in N
    BY <1>5 DEF N
  <2> QED
    BY <1>3, <2>1, <2>2
<1> QED
  BY <1>5

\* A function that computes the sums of the subsets of S exists.
LEMMA SumExists ==
    ASSUME NEW f, NEW S, IsFiniteSet(S)
    PROVE  IsSum(SumFcn(f, S), f, S)
<1> DEFINE Upto(g, n) == \A s \in SUBSET S : Cardinality(s) <= n => g[s] = SumStep(f, g, s)
           B == {n \in Nat : ~ \E g : Upto(g, n)}
<1>1. \A s \in SUBSET S : IsFiniteSet(s) /\ Cardinality(s) \in Nat /\ Cardinality(s) <= Cardinality(S)
  BY FS_Subset, FS_CardinalityType
<1>2. \A s \in SUBSET S : s # {} =>
         /\ s \ {Pick(s)} \in SUBSET S
         /\ Cardinality(s \ {Pick(s)}) = Cardinality(s) - 1
  <2> SUFFICES ASSUME NEW s \in SUBSET S, s # {}
               PROVE  /\ s \ {Pick(s)} \in SUBSET S
                      /\ Cardinality(s \ {Pick(s)}) = Cardinality(s) - 1
    OBVIOUS
  <2>1. Pick(s) \in s
    BY DEF Pick
  <2> QED
    BY <1>1, <2>1, FS_RemoveElement
<1>3. \A n \in Nat : n \notin B
  <2> SUFFICES ASSUME B # {} PROVE FALSE
    OBVIOUS
  <2>1. PICK n \in B : \A m \in B : ~(m < n)
    BY LeastNat
  <2>2. n # 0
    <3> DEFINE g == [s \in SUBSET S |-> 0]
    <3>1. ASSUME NEW s \in SUBSET S, Cardinality(s) <= 0 PROVE g[s] = SumStep(f, g, s)
      <4>1. s = {}
        BY <1>1, <3>1, FS_EmptySet
      <4> QED
        BY <4>1 DEF SumStep
    <3> HIDE DEF g
    <3>2. Upto(g, 0)
      BY <3>1
    <3> QED
      BY <3>2
  <2>3. n - 1 \in Nat /\ n \in Nat /\ n - 1 < n
    BY <2>2
  <2>4. PICK g : Upto(g, n - 1)
    BY <2>1, <2>3
  <2> DEFINE h == [s \in SUBSET S |-> SumStep(f, g, s)]
  <2>5. ASSUME NEW s \in SUBSET S, Cardinality(s) <= n PROVE h[s] = SumStep(f, h, s)
    <3>1. CASE s = {}
      BY <3>1 DEF SumStep
    <3>2. CASE s # {}
      <4> DEFINE t == s \ {Pick(s)}
      <4>1. t \in SUBSET S /\ Cardinality(t) <= n - 1
        BY <1>1, <1>2, <2>3, <2>5, <3>2
      <4>2. g[t] = SumStep(f, g, t)
        BY <2>4, <4>1
      <4>3. h[t] = g[t]
        BY <4>1, <4>2
      <4> HIDE DEF t
      <4>4. h[s] = f[Pick(s)] + g[t]
        BY <3>2 DEF SumStep, t
      <4> HIDE DEF h
      <4> QED
        BY <3>2, <4>3, <4>4 DEF SumStep, t
    <3> QED
      BY <3>1, <3>2
  <2> HIDE DEF h
  <2>6. Upto(h, n)
    BY <2>5
  <2> QED
    BY <2>6
<1>4. PICK g : Upto(g, Cardinality(S))
  <2>1. Cardinality(S) \in Nat
    BY FS_CardinalityType
  <2> QED
    BY <1>3, <2>1
<1> DEFINE h == [s \in SUBSET S |-> g[s]]
<1>5. \A s \in SUBSET S : h[s] = SumStep(f, h, s)
  <2> SUFFICES ASSUME NEW s \in SUBSET S PROVE g[s] = SumStep(f, h, s)
    OBVIOUS
  <2>1. g[s] = SumStep(f, g, s)
    BY <1>1, <1>4
  <2> QED
    BY <1>2, <2>1 DEF SumStep
<1>6. IsSum(h, f, S)
  BY <1>5 DEF IsSum
<1> QED
  BY <1>6 DEF SumFcn

\* The sums of the subsets of S, one element picked at a time.
LEMMA SumSteps ==
    ASSUME NEW f, NEW S, IsFiniteSet(S), NEW s \in SUBSET S
    PROVE  /\ s = {} => SumFcn(f, S)[s] = 0
           /\ s # {} => /\ Pick(s) \in s
                        /\ SumFcn(f, S)[s] = f[Pick(s)] + SumFcn(f, S)[s \ {Pick(s)}]
<1>0. IsSum(SumFcn(f, S), f, S)
  BY SumExists
<1>1. SumFcn(f, S) = [t \in SUBSET S |-> SumStep(f, SumFcn(f, S), t)]
  BY <1>0 DEF IsSum
<1>2. SumFcn(f, S)[s] = SumStep(f, SumFcn(f, S), s)
  BY <1>1
<1>3. s # {} => Pick(s) \in s
  BY DEF Pick
<1> QED
  BY <1>2, <1>3 DEF SumStep

\* They depend on the values of the elements alone.
LEMMA SumsAgree ==
    ASSUME NEW f, NEW h, NEW S, NEW T, IsFiniteSet(T), S \subseteq T,
           \A x \in S : f[x] = h[x], NEW s \in SUBSET S
    PROVE  SumFcn(f, S)[s] = SumFcn(h, T)[s]
<1> DEFINE B == {t \in SUBSET S : SumFcn(f, S)[t] # SumFcn(h, T)[t]}
<1>0. IsFiniteSet(S)
  BY FS_Subset
<1> SUFFICES ASSUME B # {} PROVE FALSE
  OBVIOUS
<1>1. PICK t \in B : \A x \in t : t \ {x} \notin B
  BY <1>0, MinimalSubset
<1>2. t # {}
  BY <1>0, SumSteps
<1> DEFINE x == Pick(t)
<1>3. /\ x \in t /\ SumFcn(f, S)[t] = f[x] + SumFcn(f, S)[t \ {x}]
      /\ SumFcn(h, T)[t] = h[x] + SumFcn(h, T)[t \ {x}]
  BY <1>0, <1>2, SumSteps
<1> HIDE DEF x
<1>4. SumFcn(f, S)[t \ {x}] = SumFcn(h, T)[t \ {x}]
  BY <1>1, <1>3
<1> QED
  BY <1>3, <1>4

\* They are natural numbers.
LEMMA SumsNat ==
    ASSUME NEW f, NEW S, IsFiniteSet(S), \A x \in S : f[x] \in Nat, NEW s \in SUBSET S
    PROVE  SumFcn(f, S)[s] \in Nat
<1> DEFINE g == SumFcn(f, S)
           B == {t \in SUBSET S : g[t] \notin Nat}
<1>0. g[{}] = 0
  BY SumSteps
<1>1. ASSUME NEW t \in SUBSET S, t # {}
      PROVE  Pick(t) \in t /\ g[t] = f[Pick(t)] + g[t \ {Pick(t)}]
  BY <1>1, SumSteps
<1> HIDE DEF g
<1> SUFFICES ASSUME B # {} PROVE FALSE
  BY DEF g
<1>2. PICK t \in B : \A x \in t : t \ {x} \notin B
  BY MinimalSubset
<1>3. {} \notin B
  BY <1>0
<1>4. Pick(t) \in t /\ g[t] = f[Pick(t)] + g[t \ {Pick(t)}]
  BY <1>1, <1>2, <1>3
<1>5. g[t \ {Pick(t)}] \in Nat /\ f[Pick(t)] \in Nat
  BY <1>2, <1>4
<1> QED
  BY <1>4, <1>5

\* Whichever element is taken first.
LEMMA SumsAnyOrder ==
    ASSUME NEW f, NEW S, IsFiniteSet(S), \A x \in S : f[x] \in Nat,
           NEW s \in SUBSET S, NEW x \in s
    PROVE  SumFcn(f, S)[s] = f[x] + SumFcn(f, S)[s \ {x}]
<1> DEFINE g == SumFcn(f, S)
           B == {t \in SUBSET S : \E y \in t : g[t] # f[y] + g[t \ {y}]}
<1>0. \A t \in SUBSET S : g[t] \in Nat
  BY SumsNat
<1> SUFFICES ASSUME B # {} PROVE FALSE
  OBVIOUS
<1>1. PICK t \in B : \A y \in t : t \ {y} \notin B
  BY MinimalSubset
<1>2. PICK y \in t : g[t] # f[y] + g[t \ {y}]
  OBVIOUS
<1> DEFINE z == Pick(t)
<1>3. z \in t /\ g[t] = f[z] + g[t \ {z}]
  <2>1. t \in SUBSET S /\ t # {}
    BY <1>1, <1>2
  <2> QED
    BY <2>1, SumSteps
<1> HIDE DEF z, g
<1>4. z # y
  BY <1>2, <1>3
<1>5. g[t \ {z}] = f[y] + g[(t \ {z}) \ {y}]
  BY <1>1, <1>2, <1>3, <1>4
<1>6. g[t \ {y}] = f[z] + g[(t \ {y}) \ {z}]
  BY <1>1, <1>2, <1>3, <1>4
<1>7. (t \ {y}) \ {z} = (t \ {z}) \ {y} /\ (t \ {y}) \ {z} \in SUBSET S
  OBVIOUS
<1>8. g[(t \ {y}) \ {z}] \in Nat /\ f[y] \in Nat /\ f[z] \in Nat
  BY <1>0, <1>2, <1>3, <1>7
<1> DEFINE a == f[y]
           b == f[z]
           r == g[(t \ {y}) \ {z}]
<1>9. a \in Nat /\ b \in Nat /\ r \in Nat
  BY <1>8
<1>10. g[t] = b + (a + r) /\ g[t \ {y}] = b + r /\ g[t] # a + g[t \ {y}]
  BY <1>2, <1>3, <1>5, <1>6, <1>7
<1> HIDE DEF a, b, r
<1> QED
  BY <1>9, <1>10

\* The empty sum.
LEMMA SumEmpty == \A f : TotalOf(f, {}) = 0
BY SumDef, SumSteps, FS_EmptySet

\* A sum of numbers is a number.
LEMMA SumNat ==
    ASSUME NEW f, NEW S, IsFiniteSet(S), \A x \in S : f[x] \in Nat
    PROVE  TotalOf(f, S) \in Nat
BY SumDef, SumsNat

\* A sum depends on the summed values only.
LEMMA SumAgree ==
    ASSUME NEW f, NEW h, NEW S, IsFiniteSet(S), \A x \in S : f[x] = h[x]
    PROVE  TotalOf(f, S) = TotalOf(h, S)
BY SumDef, SumsAgree

\* A new member adds its value.
LEMMA SumAdd ==
    ASSUME NEW f, NEW S, IsFiniteSet(S), NEW c, c \notin S, \A x \in S \cup {c} : f[x] \in Nat
    PROVE  TotalOf(f, S \cup {c}) = TotalOf(f, S) + f[c]
<1> DEFINE T == S \cup {c}
<1>1. IsFiniteSet(T)
  BY FS_AddElement
<1>2. T \ {c} = S /\ c \in T /\ T \in SUBSET T /\ S \in SUBSET T /\ S \subseteq T
  OBVIOUS
<1>3. \A x \in T : f[x] \in Nat
  OBVIOUS
<1> HIDE DEF T
<1>4. SumFcn(f, T)[T] = f[c] + SumFcn(f, T)[S]
  BY <1>1, <1>2, <1>3, SumsAnyOrder
<1>5. SumFcn(f, T)[S] = SumFcn(f, S)[S]
  BY <1>1, <1>2, SumsAgree
<1>6. SumFcn(f, S)[S] \in Nat /\ f[c] \in Nat
  BY <1>2, <1>3, SumsNat
<1>7. TotalOf(f, T) = TotalOf(f, S) + f[c]
  BY <1>4, <1>5, <1>6, SumDef
<1> QED
  BY <1>7 DEF T

-----------------------------------------------------------------------------
(* The invariant in parts, and the steps that leave a part alone *)

PCs == {"top", "fetch", "compress", "admit", "write", "select", "handle", "done", "err"}
Stages == {"none", "analysing", "compress_ready", "compressing", "admission_ready",
           "write_ready", "writing", "written", "write_failed", "indexed"}
Evidences == [rec : Record, ok : BOOLEAN, by : {"none", "Prefetch", "Final"}]

LoopTypes ==
    /\ pc \in PCs
    /\ failure \in {"none", "memory", "dedup", "state", "io"}
    /\ streamOpen \in BOOLEAN /\ pressure \in BOOLEAN

FetchTypes ==
    /\ finals \in Seq(Candidates)
    /\ bases \in [Candidates -> Record]
    /\ fetchingFinal \subseteq Jobs

BackTypes ==
    /\ stage \in [Candidates -> Stages]
    /\ evidence \in [Candidates -> Evidences]
    /\ merged \subseteq Candidates
    /\ size \in [Candidates -> Sizes \cup {0}]
    /\ used \in Nat
    /\ untried \subseteq Candidates

\* The type invariant by groups of variables.
LEMMA TypeParts == TypeOK <=> PrefetchTypeOK /\ LoopTypes /\ FetchTypes /\ BackTypes
BY DEF TypeOK, LoopTypes, FetchTypes, BackTypes, PCs, Stages, Evidences

\* The same after a step.
LEMMA TypePartsNext ==
    PrefetchTypeOK' /\ LoopTypes' /\ FetchTypes' /\ BackTypes' => TypeOK'
BY DEF TypeOK, LoopTypes, FetchTypes, BackTypes, PCs, Stages, Evidences

\* The conjuncts of the invariant, to cite ...
LEMMA InvParts ==
    ASSUME PipelineInv
    PROVE  /\ LoopTypes /\ FetchTypes /\ BackTypes /\ PrefetchTypeOK /\ PrefetchInv
           /\ ChannelHolds /\ InboxHolds /\ OneHand /\ HintsWithin /\ BasesCover
           /\ EvidenceCoversFrozen /\ BackendMatches /\ StagesBounded /\ NetworkFinite
           /\ NoStateError /\ DoneIsComplete
BY TypeParts DEF PipelineInv

\* ... and to establish.
LEMMA InvNext ==
    ASSUME LoopTypes', FetchTypes', BackTypes', PrefetchInv', ChannelHolds', InboxHolds',
           OneHand', HintsWithin', BasesCover', EvidenceCoversFrozen', BackendMatches',
           StagesBounded', NetworkFinite', NoStateError', DoneIsComplete'
    PROVE  PipelineInv'
BY TypePartsNext DEF PipelineInv, PrefetchInv

\* Records.
LEMMA FinalFacts ==
    ASSUME NEW c \in Candidates
    PROVE  /\ Final(c) \in Record /\ NoRecord \in Record
           /\ Base[c] \in Record /\ Exact[c] \in Record
           /\ Within(Base[c], c) /\ Within(Exact[c], c) /\ Within(NoRecord, c)
<1>1. Base[c] \in Record /\ Exact[c] \in Record /\ Bm25[c] \in Record
  BY RecordsAssumption
<1>2. Merge(Base[c], Exact[c]) \in Record
  BY <1>1, MergeType
<1>3. Final(c) \in Record
  BY <1>1, <1>2, MergeType DEF Final
<1>4. NoRecord \in Record
  BY DEF NoRecord, Record
<1>5. Within(Base[c], c) /\ Within(Exact[c], c) /\ Within(NoRecord, c)
  BY DEF Within, Final, Merge, NoRecord
<1> QED
  BY <1>1, <1>3, <1>4, <1>5

\* A step that moves no candidate from hand to hand.
LEMMA HandsFrame ==
    ASSUME OneHand, UNCHANGED <<finals, fetchingFinal, seen>>,
           \A c \in Candidates :
              /\ AwaitsPrefetch(c)' <=> AwaitsPrefetch(c)
              /\ InInbox(c)' <=> InInbox(c)
              /\ stage'[c] = "none" <=> stage[c] = "none"
    PROVE  OneHand'
<1>1. \A c \in Candidates :
         /\ InFinals(c)' <=> InFinals(c)
         /\ BeingFetched(c)' <=> BeingFetched(c)
  BY DEF InFinals, BeingFetched
<1>2. \A c \in Candidates : InFlight(c)' <=> InFlight(c)
  BY <1>1 DEF InFlight
<1> QED
  BY <1>1, <1>2 DEF OneHand

\* A step that moves stages outside "none" and queues nothing keeps what was
\* shown about evidence.
LEMMA EvidenceFrame ==
    ASSUME EvidenceCoversFrozen, UNCHANGED evidence,
           \A c \in Candidates : stage'[c] # "none" => stage[c] # "none"
    PROVE  EvidenceCoversFrozen'
BY DEF EvidenceCoversFrozen

\* Steps that leave the bases of final jobs alone.
LEMMA BasesFrame ==
    ASSUME BasesCover, UNCHANGED <<bases, finals, fetchingFinal>>
    PROVE  BasesCover'
BY DEF BasesCover, InFinals

\* Steps that leave the prefetch entries and jobs alone.
LEMMA HintsFrame ==
    ASSUME HintsWithin, UNCHANGED <<entries, prefetching>>
    PROVE  HintsWithin'
BY DEF HintsWithin

\* Steps that leave the candidate stream alone.
LEMMA ChannelFrame ==
    ASSUME ChannelHolds, UNCHANGED <<channel, frozen, outcome, seen, streamOpen>>
    PROVE  ChannelHolds'
BY DEF ChannelHolds, FrozenAt

\* Steps that leave the prefetch coordinator alone.
LEMMA PrefetchFrame ==
    ASSUME PrefetchInv, UNCHANGED prefetchVars
    PROVE  PrefetchInv'
<1>1. seen \subseteq Candidates
  BY DEF PrefetchInv, PrefetchTypeOK
<1> QED
  BY <1>1, SameEntriesKeepInv DEF prefetchVars, counters

\* Steps that leave the bounded stages alone.
LEMMA BoundsFrame ==
    ASSUME StagesBounded, UNCHANGED <<used, size, stage, prefetching, fetchingFinal>>
    PROVE  StagesBounded'
BY DEF StagesBounded, In, InWriteSet, NetworkLen

\* process_candidates has not returned yet.
LEMMA DoneFrame ==
    ASSUME pc' # "done"
    PROVE  DoneIsComplete'
BY DEF DoneIsComplete

-----------------------------------------------------------------------------
(* The initial state *)

\* The invariant holds at the start.
LEMMA PipelineInit == Init => PipelineInv
<1> SUFFICES ASSUME Init PROVE PipelineInv
  OBVIOUS
<1>1. PrefetchInv /\ PrefetchTypeOK
  BY InitInv DEF Init, PrefetchInv
<1>2. NoRecord \in Record
  BY DEF NoRecord, Record
<1>3. LoopTypes
  BY DEF Init, LoopTypes, PCs
<1>4. FetchTypes
  BY <1>2 DEF Init, FetchTypes
<1>5. BackTypes
  <2>1. NoEvidence \in Evidences
    BY <1>2 DEF NoEvidence, Evidences
  <2> QED
    BY <2>1 DEF Init, BackTypes, Stages
<1>6. ChannelHolds
  BY DEF Init, StreamInit, PrefetchInit, ChannelHolds, FrozenAt
<1>7. InboxHolds
  BY DEF Init, InboxHolds
<1>8. OneHand
  <2>1. \A c \in Candidates : ~InFinals(c) /\ ~BeingFetched(c) /\ ~InInbox(c)
    BY DEF Init, InFinals, BeingFetched, InInbox, NoMessage
  <2>2. \A c \in Candidates : ~AwaitsPrefetch(c)
    BY DEF Init, PrefetchInit, AwaitsPrefetch, NoEntry
  <2>3. seen = {} /\ \A c \in Candidates : stage[c] = "none"
    BY DEF Init, PrefetchInit
  <2>4. fetchingFinal = {} /\ DOMAIN finals = {}
    BY DEF Init
  <2> QED
    BY <2>1, <2>2, <2>3, <2>4 DEF OneHand, InFlight
<1>9. HintsWithin
  BY FinalFacts DEF Init, PrefetchInit, HintsWithin, NoEntry
<1>10. BasesCover
  BY DEF Init, BasesCover
<1>11. EvidenceCoversFrozen
  BY DEF Init, EvidenceCoversFrozen, NoEvidence
<1>12. BackendMatches /\ \A S : "none" \notin S => In(S) = {}
  BY DEF Init, BackendMatches, In
<1>13. StagesBounded
  <2>1. In({"write_ready", "writing"}) = {} /\ In({"compressing", "admission_ready"}) = {}
        /\ InWriteSet = {}
    BY <1>12 DEF InWriteSet
  <2>2. prefetching = {} /\ fetchingFinal = {} /\ used = 0
    BY DEF Init, PrefetchInit
  <2> QED
    BY <2>1, <2>2, SumEmpty, FS_EmptySet, PipelineAssumption, PrefetchAssumption
       DEF StagesBounded, NetworkLen
<1>14. NetworkFinite
  BY FS_EmptySet DEF Init, PrefetchInit, NetworkFinite
<1>15. NoStateError /\ DoneIsComplete
  BY DEF Init, NoStateError, DoneIsComplete
<1> QED
  BY <1>1, <1>3, <1>4, <1>5, <1>6, <1>7, <1>8, <1>9, <1>10, <1>11, <1>12, <1>13, <1>14, <1>15,
     TypeParts DEF PipelineInv

-----------------------------------------------------------------------------
(* Steps of the loop that move no candidate *)

\* A step of the loop that moves no candidate.
LEMMA LoopStepKeepsInv ==
    ASSUME PipelineInv, LoopTypes', PrefetchInv',
           UNCHANGED <<fetchVars, stage, evidence, merged, size, used, inbox>>,
           UNCHANGED <<entries, prefetching, seen, streamVars>>,
           pc = "handle" <=> pc' = "handle",
           streamOpen' = streamOpen \/ (channel = <<>> /\ outcome # "open"),
           untried' \subseteq Candidates,
           pc' = "admit" => untried' \subseteq In({"admission_ready"}),
           failure' # "state",
           DoneIsComplete'
    PROVE  PipelineInv'
<1>0. /\ LoopTypes /\ FetchTypes /\ BackTypes
      /\ ChannelHolds /\ InboxHolds /\ OneHand /\ HintsWithin /\ BasesCover
      /\ EvidenceCoversFrozen /\ BackendMatches /\ StagesBounded /\ NetworkFinite
  BY InvParts
<1>1. FetchTypes'
  BY <1>0 DEF FetchTypes, fetchVars
<1>2. BackTypes'
  BY <1>0 DEF BackTypes
<1>3. ChannelHolds'
  <2>1. \A i : FrozenAt(i)' = FrozenAt(i)
    BY DEF FrozenAt, streamVars
  <2>2. ~streamOpen' => channel = <<>> /\ outcome # "open"
    BY <1>0 DEF ChannelHolds
  <2>3. UNCHANGED <<channel, frozen, outcome, seen>>
    BY DEF streamVars
  <2> QED
    BY <1>0, <2>1, <2>2, <2>3 DEF ChannelHolds
<1>4. InboxHolds'
  BY <1>0 DEF InboxHolds
<1>5. OneHand'
  BY <1>0, HandsFrame DEF AwaitsPrefetch, InInbox, fetchVars
<1>6. HintsWithin' /\ EvidenceCoversFrozen'
  BY <1>0, HintsFrame, EvidenceFrame
<1>7. BasesCover'
  BY <1>0, BasesFrame DEF fetchVars
<1>8. BackendMatches'
  BY <1>0 DEF BackendMatches, In
<1>9. StagesBounded'
  BY <1>0, BoundsFrame DEF fetchVars
<1>10. NetworkFinite' /\ NoStateError'
  BY <1>0 DEF NetworkFinite, NoStateError, fetchVars
<1> QED
  BY <1>1, <1>2, <1>3, <1>4, <1>5, <1>6, <1>7, <1>8, <1>9, <1>10, InvNext

\* When the loop finds no work left and dedup ended well, nothing is missing.
LEMMA NoWorkIsComplete ==
    ASSUME PipelineInv, pc = "top", ~HasWork, outcome = "ok"
    PROVE  seen = Candidates /\ merged = Candidates /\ In({"indexed"}) = Candidates
<1>0. /\ LoopTypes /\ FetchTypes /\ BackTypes /\ PrefetchInv /\ PrefetchTypeOK
      /\ ChannelHolds /\ InboxHolds /\ OneHand /\ BackendMatches /\ NetworkFinite
  BY InvParts
<1>1. channel = <<>> /\ frozen = Candidates
  BY <1>0 DEF HasWork, ChannelHolds, LoopTypes
<1>2. seen = Candidates
  <2>1. \A c \in frozen \ seen : \E i \in DOMAIN channel : c \in FrozenAt(i)
    BY <1>0 DEF ChannelHolds
  <2>2. DOMAIN channel = {}
    BY <1>1
  <2> QED
    BY <1>0, <1>1, <2>1, <2>2 DEF PrefetchTypeOK
<1>3. prefetching = {} /\ fetchingFinal = {}
  <2>1. /\ IsFiniteSet(prefetching) /\ IsFiniteSet(fetchingFinal)
        /\ Cardinality(prefetching) \in Nat /\ Cardinality(fetchingFinal) \in Nat
    BY <1>0, FS_CardinalityType DEF NetworkFinite
  <2>2. Cardinality(prefetching) = 0 /\ Cardinality(fetchingFinal) = 0
    BY <2>1 DEF HasWork, NetworkLen
  <2> QED
    BY <2>1, <2>2, FS_EmptySet
<1>4. \A c \in Candidates : ~InFlight(c)
  <2> SUFFICES ASSUME NEW c \in Candidates PROVE ~InFlight(c)
    OBVIOUS
  <2>1. ~InFinals(c)
    BY DEF HasWork, InFinals
  <2>2. ~BeingFetched(c)
    BY <1>3 DEF BeingFetched
  <2>3. ~AwaitsPrefetch(c)
    BY <1>0, <1>3 DEF AwaitsPrefetch, PrefetchInv, FetchesMatchActive, InStage
  <2>4. ~InInbox(c)
    BY <1>0 DEF InInbox, InboxHolds, NoMessage
  <2> QED
    BY <2>1, <2>2, <2>3, <2>4 DEF InFlight
<1>5. \A c \in Candidates : stage[c] # "none"
  BY <1>0, <1>2, <1>4 DEF OneHand
<1>6. \A c \in Candidates : stage[c] = "indexed"
  <2>1. Downstream = {}
    BY DEF HasWork
  <2> QED
    BY <1>0, <1>5, <2>1 DEF Downstream, In, BackTypes, Stages
<1> QED
  BY <1>0, <1>2, <1>6 DEF BackendMatches, In

\* The control steps of process_candidates.
Loops ==
    \/ LoopTop \/ JoinDedup \/ FetchDone \/ CompressDone \/ AdmitDone \/ WriteDone
    \/ RecvClosed \/ Telemetry
    \/ \E c \in Candidates : CompressionFailed(c)

\* The control steps keep the invariant.
LEMMA LoopsKeepInv == ASSUME PipelineInv, Loops PROVE PipelineInv'
<1>0. /\ LoopTypes /\ FetchTypes /\ BackTypes /\ PrefetchInv
      /\ InboxHolds /\ BackendMatches /\ NoStateError /\ DoneIsComplete
  BY InvParts
<1>1. failure # "state" /\ untried \subseteq Candidates
  BY <1>0 DEF NoStateError, BackTypes
<1>2. CASE LoopTop
  <2>1. LoopTypes' /\ pc' \in {"err", "fetch"} /\ pc = "top" /\ failure' # "state"
        /\ UNCHANGED <<inbox, streamOpen>>
    BY <1>0, <1>1, <1>2 DEF LoopTop, LoopTypes, Abort, Goto, PCs
  <2> QED
    BY <1>0, <1>1, <1>2, <2>1, LoopStepKeepsInv, PrefetchFrame, DoneFrame
       DEF LoopTop, backVars, prefetchVars
<1>3. CASE JoinDedup
  <2>1. LoopTypes' /\ pc' \in {"err", "done"} /\ pc = "top" /\ failure' # "state"
        /\ UNCHANGED <<inbox, streamOpen>>
    BY <1>0, <1>1, <1>3 DEF JoinDedup, LoopTypes, Abort, Goto, PCs
  <2>2. pc' = "done" => outcome = "ok"
    BY <1>3 DEF JoinDedup, Abort
  <2>3. UNCHANGED <<outcome, seen, merged, stage>>
    BY <1>3 DEF JoinDedup, backVars, prefetchVars, streamVars
  <2>4. DoneIsComplete'
    <3>1. CASE pc' = "done"
      BY <1>3, <2>2, <2>3, <3>1, NoWorkIsComplete DEF JoinDedup, DoneIsComplete, In
    <3> QED
      BY <3>1, DoneFrame
  <2> QED
    BY <1>0, <1>1, <1>3, <2>1, <2>4, LoopStepKeepsInv, PrefetchFrame
       DEF JoinDedup, backVars, prefetchVars
<1>4. CASE FetchDone
  <2>1. LoopTypes' /\ pc' = "compress" /\ pc = "fetch" /\ UNCHANGED <<inbox, streamOpen, failure>>
    BY <1>0, <1>4 DEF FetchDone, LoopTypes, Goto, PCs
  <2>2. PrefetchInv' /\ UNCHANGED <<entries, prefetching, seen>>
    <3>1. CASE UNCHANGED prefetchVars
      BY <1>0, <3>1, PrefetchFrame DEF prefetchVars
    <3>2. CASE PopNone
      BY <1>0, <3>2, PopKeepsInv DEF PopNone
    <3> QED
      BY <1>4, <3>1, <3>2 DEF FetchDone
  <2> QED
    BY <1>0, <1>1, <1>4, <2>1, <2>2, LoopStepKeepsInv, DoneFrame DEF FetchDone, backVars
<1>5. CASE CompressDone
  <2>1. LoopTypes' /\ pc' = "admit" /\ pc = "compress" /\ UNCHANGED <<inbox, streamOpen, failure>>
    BY <1>0, <1>5 DEF CompressDone, LoopTypes, Goto, PCs
  <2>2. untried' = In({"admission_ready"}) /\ untried' \subseteq Candidates
    BY <1>5 DEF CompressDone, In
  <2> QED
    BY <1>0, <1>1, <1>5, <2>1, <2>2, LoopStepKeepsInv, PrefetchFrame, DoneFrame
       DEF CompressDone, prefetchVars
<1>6. CASE AdmitDone
  <2>1. LoopTypes' /\ pc' = "write" /\ pc = "admit" /\ UNCHANGED <<inbox, streamOpen, failure>>
    BY <1>0, <1>6 DEF AdmitDone, LoopTypes, Goto, PCs
  <2> QED
    BY <1>0, <1>1, <1>6, <2>1, LoopStepKeepsInv, PrefetchFrame, DoneFrame
       DEF AdmitDone, backVars, prefetchVars
<1>7. CASE WriteDone
  <2>1. LoopTypes' /\ pc' = "select" /\ pc = "write" /\ UNCHANGED <<inbox, streamOpen, failure>>
    BY <1>0, <1>7 DEF WriteDone, LoopTypes, Goto, PCs
  <2> QED
    BY <1>0, <1>1, <1>7, <2>1, LoopStepKeepsInv, PrefetchFrame, DoneFrame
       DEF WriteDone, backVars, prefetchVars
<1>8. CASE RecvClosed
  <2>1. LoopTypes' /\ pc' = "top" /\ pc = "select" /\ UNCHANGED <<inbox, failure>>
        /\ channel = <<>> /\ outcome # "open"
    BY <1>0, <1>8 DEF RecvClosed, RecvEnabled, LoopTypes, PCs
  <2> QED
    BY <1>0, <1>1, <1>8, <2>1, LoopStepKeepsInv, PrefetchFrame, DoneFrame
       DEF RecvClosed, backVars, prefetchVars
<1>9. CASE Telemetry
  <2>1. LoopTypes' /\ pc' \in {"top", "err"} /\ pc = "select" /\ failure' # "state"
        /\ UNCHANGED <<inbox, streamOpen>>
    BY <1>0, <1>1, <1>9 DEF Telemetry, LoopTypes, Abort, PCs
  <2> QED
    BY <1>0, <1>1, <1>9, <2>1, LoopStepKeepsInv, PrefetchFrame, DoneFrame
       DEF Telemetry, backVars, prefetchVars
<1>10. CASE \E c \in Candidates : CompressionFailed(c)
  <2>1. LoopTypes' /\ pc' = "err" /\ pc = "select" /\ failure' # "state"
        /\ UNCHANGED <<inbox, streamOpen>>
    BY <1>0, <1>1, <1>10 DEF CompressionFailed, LoopTypes, Abort, PCs
  <2>2. UNCHANGED <<fetchVars, backVars, prefetchVars, streamVars>>
    BY <1>10 DEF CompressionFailed
  <2> QED
    BY <1>0, <1>1, <2>1, <2>2, LoopStepKeepsInv, PrefetchFrame, DoneFrame
       DEF backVars, prefetchVars
<1> QED
  BY <1>2, <1>3, <1>4, <1>5, <1>6, <1>7, <1>8, <1>9, <1>10 DEF Loops

-----------------------------------------------------------------------------
(* Steps that move one candidate along the stages *)

\* The sets that StagesBounded and BackendMatches speak of.
Admitted == In({"write_ready", "writing"})
Staged == In({"compressing", "admission_ready"})

\* What one move does to the candidates that are in a set of stages.
LEMMA StageMove ==
    ASSUME BackTypes, NEW c \in Candidates, NEW s \in Stages,
           stage' = [stage EXCEPT ![c] = s], NEW S
    PROVE  /\ stage[c] \in S <=> c \in In(S)
           /\ s \in S <=> c \in In(S)'
           /\ \A d : d # c => (d \in In(S)' <=> d \in In(S))
           /\ IsFiniteSet(In(S)) /\ IsFiniteSet(In(S)')
           /\ Cardinality(In(S)) \in Nat
           /\ (s \in S <=> stage[c] \in S) => In(S)' = In(S)
           /\ s \in S /\ stage[c] \notin S => Cardinality(In(S)') = Cardinality(In(S)) + 1
           /\ s \notin S => Cardinality(In(S)') <= Cardinality(In(S))
<1>1. stage'[c] = s /\ \A d \in Candidates : d # c => stage'[d] = stage[d]
  BY DEF BackTypes
<1>2. /\ stage[c] \in S <=> c \in In(S)
      /\ s \in S <=> c \in In(S)'
      /\ \A d : d # c => (d \in In(S)' <=> d \in In(S))
      /\ In(S) \subseteq Candidates /\ In(S)' \subseteq Candidates
  BY <1>1 DEF In
<1>3. IsFiniteSet(In(S)) /\ IsFiniteSet(In(S)') /\ Cardinality(In(S)) \in Nat
  BY <1>2, FS_Subset, FS_CardinalityType, RecordsAssumption
<1>4. Cardinality(In(S)') = Cardinality(In(S)) - (IF c \in In(S) THEN 1 ELSE 0)
                                               + (IF c \in In(S)' THEN 1 ELSE 0)
  BY <1>2, <1>3, CardinalityMoves
<1>5. (s \in S <=> stage[c] \in S) => In(S)' = In(S)
  BY <1>2
<1> QED
  BY <1>2, <1>3, <1>4, <1>5

\* A move between stages past "none" keeps everything but the bounds and the
\* match with merged, which are hypotheses.
LEMMA StageStepKeepsInv ==
    ASSUME PipelineInv, NEW c \in Candidates, NEW s \in Stages,
           stage[c] # "none", s # "none", stage' = [stage EXCEPT ![c] = s],
           LoopTypes', pc = "handle" <=> pc' = "handle", pc' # "done", failure' # "state",
           UNCHANGED <<fetchVars, evidence, prefetchVars, streamVars, streamOpen, inbox>>,
           merged' \subseteq Candidates, untried' \subseteq Candidates,
           size' \in [Candidates -> Sizes \cup {0}], used' \in Nat,
           StagesBounded', BackendMatches'
    PROVE  PipelineInv'
<1>0. /\ FetchTypes /\ BackTypes /\ PrefetchInv
      /\ ChannelHolds /\ InboxHolds /\ OneHand /\ HintsWithin /\ BasesCover
      /\ EvidenceCoversFrozen /\ NetworkFinite
  BY InvParts
<1>1. FetchTypes'
  BY <1>0 DEF FetchTypes, fetchVars
<1>2. BackTypes'
  BY <1>0 DEF BackTypes
<1>3. PrefetchInv'
  BY <1>0, PrefetchFrame
<1>4. ChannelHolds'
  BY <1>0, ChannelFrame DEF streamVars, prefetchVars
<1>5. InboxHolds'
  BY <1>0 DEF InboxHolds
<1>6. \A d \in Candidates : stage'[d] = "none" <=> stage[d] = "none"
  BY <1>0 DEF BackTypes
<1>7. OneHand'
  BY <1>0, <1>6, HandsFrame DEF AwaitsPrefetch, InInbox, fetchVars, prefetchVars
<1>8. HintsWithin' /\ EvidenceCoversFrozen'
  BY <1>0, <1>6, HintsFrame, EvidenceFrame DEF prefetchVars
<1>9. BasesCover'
  BY <1>0, BasesFrame DEF fetchVars
<1>10. NetworkFinite' /\ NoStateError'
  BY <1>0 DEF NetworkFinite, NoStateError, fetchVars, prefetchVars
<1>11. DoneIsComplete'
  BY DoneFrame
<1> QED
  BY <1>1, <1>2, <1>3, <1>4, <1>5, <1>7, <1>8, <1>9, <1>10, <1>11, InvNext

\* Bytes, staged payloads and writes after a move that changes neither the
\* admitted payloads nor the network.
LEMMA BoundsStep ==
    ASSUME StagesBounded, BackTypes, UNCHANGED <<used, prefetching, fetchingFinal>>,
           UNCHANGED Admitted, \A d \in Admitted : size'[d] = size[d],
           Cardinality(Staged') <= CompressionConcurrency,
           Cardinality(InWriteSet') <= WriterThreads
    PROVE  StagesBounded'
<1>1. IsFiniteSet(Admitted)
  <2>1. Admitted \subseteq Candidates
    BY DEF Admitted, In
  <2> QED
    BY <2>1, FS_Subset, RecordsAssumption
<1>2. used = TotalOf(size, Admitted)
  BY DEF StagesBounded, Admitted
<1>3. TotalOf(size, Admitted) = TotalOf(size', Admitted)
  BY <1>1, SumAgree
<1>4. used' = TotalOf(size', Admitted')
  BY <1>2, <1>3
<1>5. NetworkLen' = NetworkLen
  BY DEF NetworkLen
<1> QED
  BY <1>4, <1>5 DEF StagesBounded, Admitted, Staged

\* Evidence sizes are numbers.
LEMMA SizesNat ==
    ASSUME BackTypes
    PROVE  \A c \in Candidates : size[c] \in Nat
<1>1. \A n \in Sizes \cup {0} : n \in Nat
  BY PipelineAssumption
<1>2. size \in [Candidates -> Sizes \cup {0}]
  BY DEF BackTypes
<1> QED
  BY <1>1, <1>2

\* The admitted bytes with one payload more.
LEMMA AdmitBytes ==
    ASSUME StagesBounded, BackTypes, NEW c \in Candidates, UNCHANGED size,
           stage[c] = "admission_ready", stage' = [stage EXCEPT ![c] = "write_ready"],
           used' = used + size[c]
    PROVE  used' = TotalOf(size, Admitted)'
<1>1. /\ c \notin Admitted /\ c \in Admitted' /\ \A d : d # c => (d \in Admitted' <=> d \in Admitted)
      /\ IsFiniteSet(Admitted) /\ Admitted \subseteq Candidates
  <2> DEFINE S == {"write_ready", "writing"}
  <2>1. "write_ready" \in Stages /\ stage[c] \notin S /\ "write_ready" \in S
    BY DEF Stages
  <2> HIDE DEF S
  <2>2. /\ stage[c] \in S <=> c \in In(S)
        /\ "write_ready" \in S <=> c \in In(S)'
        /\ \A d : d # c => (d \in In(S)' <=> d \in In(S))
        /\ IsFiniteSet(In(S)) /\ In(S) \subseteq Candidates
    BY <2>1, StageMove DEF In
  <2> QED
    BY <2>1, <2>2 DEF Admitted, S
<1>2. Admitted' = Admitted \cup {c}
  BY <1>1
<1>3. TotalOf(size, Admitted \cup {c}) = TotalOf(size, Admitted) + size[c]
  <2>1. \A d \in Admitted \cup {c} : size[d] \in Nat
    BY <1>1, SizesNat
  <2> QED
    BY <1>1, <2>1, SumAdd
<1>4. used = TotalOf(size, Admitted)
  BY DEF StagesBounded, Admitted
<1> QED
  BY <1>2, <1>3, <1>4

\* The admitted bytes with one payload less.
LEMMA ReleaseBytes ==
    ASSUME StagesBounded, BackTypes, NEW c \in Candidates, UNCHANGED size,
           NEW s \in Stages \ {"write_ready", "writing"},
           stage[c] = "writing", stage' = [stage EXCEPT ![c] = s],
           used' = used - size[c]
    PROVE  used' \in Nat /\ used' <= used /\ used' = TotalOf(size, Admitted)'
<1>1. /\ c \in Admitted /\ c \notin Admitted' /\ \A d : d # c => (d \in Admitted' <=> d \in Admitted)
      /\ IsFiniteSet(Admitted') /\ Admitted \subseteq Candidates
  <2> DEFINE S == {"write_ready", "writing"}
  <2>1. s \in Stages /\ stage[c] \in S /\ s \notin S
    OBVIOUS
  <2> HIDE DEF S
  <2>2. /\ stage[c] \in S <=> c \in In(S)
        /\ s \in S <=> c \in In(S)'
        /\ \A d : d # c => (d \in In(S)' <=> d \in In(S))
        /\ IsFiniteSet(In(S)') /\ In(S) \subseteq Candidates
    BY <2>1, StageMove DEF In
  <2> QED
    BY <2>1, <2>2 DEF Admitted, S
<1>2. Admitted = Admitted' \cup {c}
  BY <1>1
<1> DEFINE T == Admitted'
<1>3. IsFiniteSet(T) /\ c \notin T /\ Admitted = T \cup {c} /\ T \subseteq Candidates
  BY <1>1, <1>2
<1> HIDE DEF T
<1>4. TotalOf(size, T \cup {c}) = TotalOf(size, T) + size[c] /\ TotalOf(size, T) \in Nat
  <2>1. \A d \in T \cup {c} : size[d] \in Nat
    BY <1>3, SizesNat
  <2> QED
    BY <1>3, <2>1, SumAdd, SumNat
<1>5. used = TotalOf(size, Admitted) /\ size[c] \in Nat
  BY SizesNat DEF StagesBounded, Admitted
<1>6. used' = TotalOf(size, T) /\ used' \in Nat /\ used' <= used
  BY <1>3, <1>4, <1>5
<1>7. TotalOf(size, Admitted)' = TotalOf(size, T)
  BY DEF T
<1> QED
  BY <1>6, <1>7

\* The moves of the compression and writer stages, with the bounds they keep.
Moves(c) ==
    \/ StartCompression(c) \/ Admit(c) \/ StartWrite(c) \/ WriterThread(c)
    \/ AnalysisDone(c) \/ CompressionDone(c) \/ JoinWriter(c)

MergedStages ==
    {"admission_ready", "write_ready", "writing", "written", "write_failed", "indexed"}

\* A move that neither enters nor leaves the merged stages and leaves the
\* pass over the untried payloads alone.
LEMMA BackendStep ==
    ASSUME BackendMatches, BackTypes, NEW c \in Candidates, NEW s \in Stages,
           stage' = [stage EXCEPT ![c] = s], UNCHANGED merged,
           s \in MergedStages <=> stage[c] \in MergedStages,
           pc' = "admit" => /\ pc = "admit" /\ untried' \subseteq untried
                            /\ stage[c] = "admission_ready" => c \notin untried'
    PROVE  BackendMatches'
<1>1. In(MergedStages)' = In(MergedStages)
  <2> DEFINE S == MergedStages
  <2> HIDE DEF S
  <2>1. (s \in S <=> stage[c] \in S) => In(S)' = In(S)
    BY StageMove
  <2> QED
    BY <2>1 DEF S, MergedStages
<1>2. merged' = In(MergedStages)'
  BY <1>1 DEF BackendMatches, MergedStages
<1>3. pc' = "admit" => untried' \subseteq In({"admission_ready"})'
  BY DEF BackendMatches, BackTypes, In
<1> QED
  BY <1>2, <1>3 DEF BackendMatches, MergedStages

\* What a move does to the sets of StagesBounded, all at once.
LEMMA MoveFacts ==
    ASSUME PipelineInv, NEW c \in Candidates, NEW s \in Stages, stage' = [stage EXCEPT ![c] = s]
    PROVE  /\ (s \in {"write_ready", "writing"} <=> stage[c] \in {"write_ready", "writing"})
                 => Admitted' = Admitted
           /\ c \in Admitted => stage[c] \in {"write_ready", "writing"}
           /\ Cardinality(Staged) \in Nat /\ Cardinality(InWriteSet) \in Nat
           /\ (s \in {"compressing", "admission_ready"} <=> stage[c] \in {"compressing", "admission_ready"})
                 => Staged' = Staged
           /\ s \in {"compressing", "admission_ready"} /\ stage[c] \notin {"compressing", "admission_ready"}
                 => Cardinality(Staged') = Cardinality(Staged) + 1
           /\ s \notin {"compressing", "admission_ready"} => Cardinality(Staged') <= Cardinality(Staged)
           /\ (s \in {"writing", "written", "write_failed"}
                 <=> stage[c] \in {"writing", "written", "write_failed"}) => InWriteSet' = InWriteSet
           /\ s \in {"writing", "written", "write_failed"}
                 /\ stage[c] \notin {"writing", "written", "write_failed"}
                 => Cardinality(InWriteSet') = Cardinality(InWriteSet) + 1
           /\ s \notin {"writing", "written", "write_failed"}
                 => Cardinality(InWriteSet') <= Cardinality(InWriteSet)
<1>0. BackTypes
  BY InvParts
<1> DEFINE A == {"write_ready", "writing"}
           G == {"compressing", "admission_ready"}
           W == {"writing", "written", "write_failed"}
<1> HIDE DEF A, G, W
<1>1. (s \in A <=> stage[c] \in A) => In(A)' = In(A)
  BY <1>0, StageMove
<1>2. c \in In(A) => stage[c] \in A
  BY DEF In
<1>3. /\ Cardinality(In(G)) \in Nat
      /\ (s \in G <=> stage[c] \in G) => In(G)' = In(G)
      /\ s \in G /\ stage[c] \notin G => Cardinality(In(G)') = Cardinality(In(G)) + 1
      /\ s \notin G => Cardinality(In(G)') <= Cardinality(In(G))
  BY <1>0, StageMove
<1>4. /\ Cardinality(In(W)) \in Nat
      /\ (s \in W <=> stage[c] \in W) => In(W)' = In(W)
      /\ s \in W /\ stage[c] \notin W => Cardinality(In(W)') = Cardinality(In(W)) + 1
      /\ s \notin W => Cardinality(In(W)') <= Cardinality(In(W))
  BY <1>0, StageMove
<1>5. Admitted = In(A) /\ Staged = In(G) /\ InWriteSet = In(W)
  BY DEF Admitted, Staged, InWriteSet, A, G, W
<1>6. Admitted' = In(A)' /\ Staged' = In(G)' /\ InWriteSet' = In(W)'
  BY DEF Admitted, Staged, InWriteSet, A, G, W
<1>7. /\ (s \in A <=> stage[c] \in A) => Admitted' = Admitted
      /\ c \in Admitted => stage[c] \in A
  BY <1>1, <1>2, <1>5, <1>6
<1>8. /\ Cardinality(Staged) \in Nat
      /\ (s \in G <=> stage[c] \in G) => Staged' = Staged
      /\ s \in G /\ stage[c] \notin G => Cardinality(Staged') = Cardinality(Staged) + 1
      /\ s \notin G => Cardinality(Staged') <= Cardinality(Staged)
  BY <1>3, <1>5, <1>6
<1>9. /\ Cardinality(InWriteSet) \in Nat
      /\ (s \in W <=> stage[c] \in W) => InWriteSet' = InWriteSet
      /\ s \in W /\ stage[c] \notin W => Cardinality(InWriteSet') = Cardinality(InWriteSet) + 1
      /\ s \notin W => Cardinality(InWriteSet') <= Cardinality(InWriteSet)
  BY <1>4, <1>5, <1>6
<1> QED
  BY <1>7, <1>8, <1>9 DEF A, G, W

\* The bounds in the words of those sets.
LEMMA BoundsNow ==
    ASSUME PipelineInv
    PROVE  /\ Cardinality(Staged) <= CompressionConcurrency
           /\ Cardinality(InWriteSet) <= WriterThreads
           /\ CompressionConcurrency \in Nat /\ WriterThreads \in Nat
           /\ used <= WriterQueueBytes /\ used \in Nat /\ WriterQueueBytes \in Nat
           /\ \A c \in Candidates : size[c] \in Nat
BY InvParts, PipelineAssumption, SizesNat DEF StagesBounded, Staged, BackTypes

\* A candidate that moves between back-end stages keeps the invariant.
LEMMA MovesKeepInv == ASSUME PipelineInv, NEW c \in Candidates, Moves(c) PROVE PipelineInv'
<1>0. /\ LoopTypes /\ BackTypes /\ BackendMatches /\ StagesBounded /\ NoStateError
  BY InvParts
<1>1. failure # "state" /\ BackTypes /\ untried \subseteq Candidates /\ used \in Nat
      /\ merged \subseteq Candidates /\ size \in [Candidates -> Sizes \cup {0}]
  BY <1>0 DEF NoStateError, BackTypes
<1>2. CASE StartCompression(c)
  <2> DEFINE s == "compressing"
  <2>1. s \in Stages /\ stage[c] = "compress_ready" /\ stage' = [stage EXCEPT ![c] = s]
        /\ pc = "compress"
        /\ UNCHANGED <<loopVars, fetchVars, evidence, merged, size, used, untried, prefetchVars, streamVars>>
    BY <1>2 DEF StartCompression, Stages
  <2>2. Cardinality(Staged) < CompressionConcurrency
    BY <1>2 DEF StartCompression, MayCompress, Staged
  <2>3. UNCHANGED Admitted /\ Cardinality(Staged') <= CompressionConcurrency
        /\ Cardinality(InWriteSet') <= WriterThreads
    <3>1. UNCHANGED Admitted /\ UNCHANGED InWriteSet /\ Cardinality(Staged') = Cardinality(Staged) + 1
      BY <2>1, MoveFacts
    <3>2. Cardinality(Staged) \in Nat
      BY <2>1, MoveFacts
    <3> QED
      BY <2>2, <3>1, <3>2, BoundsNow
  <2>4. StagesBounded'
    BY <1>0, <2>1, <2>3, BoundsStep DEF fetchVars, prefetchVars
  <2>5. BackendMatches'
    BY <1>0, <2>1, BackendStep DEF loopVars, MergedStages
  <2> QED
    BY <1>0, <1>1, <2>1, <2>4, <2>5, StageStepKeepsInv DEF loopVars, LoopTypes
<1>3. CASE Admit(c)
  <2>0. pc = "admit" /\ stage[c] = "admission_ready" /\ untried' = untried \ {c}
        /\ UNCHANGED <<fetchVars, evidence, merged, size, prefetchVars, streamVars>>
    BY <1>0, <1>3 DEF Admit, BackendMatches, In
  <2>1. CASE UNCHANGED <<stage, used>>
    <3>1. UNCHANGED <<streamOpen, inbox>> /\ pc' \in {"admit", "err"} /\ LoopTypes' /\ failure' # "state"
      BY <1>0, <1>1, <1>3, <2>0 DEF Admit, Abort, loopVars, LoopTypes, PCs
    <3>2. untried' \subseteq In({"admission_ready"})
      BY <1>0, <2>0 DEF BackendMatches
    <3>3. PrefetchInv'
      BY <2>0, InvParts, PrefetchFrame
    <3> QED
      BY <1>0, <1>1, <2>0, <2>1, <3>1, <3>2, <3>3, LoopStepKeepsInv, DoneFrame DEF prefetchVars
  <2>2. CASE used' = used + size[c] /\ stage' = [stage EXCEPT ![c] = "write_ready"]
             /\ TryAcquire(size[c]) /\ UNCHANGED loopVars
    <3>1. "write_ready" \in Stages
      BY DEF Stages
    <3>2. used' = TotalOf(size, Admitted)'
      BY <1>0, <2>0, <2>2, AdmitBytes
    <3>3. used' <= WriterQueueBytes /\ used' \in Nat
      BY <2>2, BoundsNow DEF TryAcquire
    <3>4. Cardinality(Staged') <= CompressionConcurrency /\ Cardinality(InWriteSet') <= WriterThreads
      <4>1. Cardinality(Staged') <= Cardinality(Staged) /\ InWriteSet' = InWriteSet
            /\ Cardinality(Staged) \in Nat
        BY <2>0, <2>2, <3>1, MoveFacts
      <4>2. Staged' \subseteq Candidates
        BY DEF Staged, In
      <4>3. Cardinality(Staged') \in Nat
        BY <4>2, FS_Subset, FS_CardinalityType, RecordsAssumption
      <4> QED
        BY <4>1, <4>3, BoundsNow
    <3>5. NetworkLen' = NetworkLen
      BY <2>0 DEF NetworkLen, prefetchVars, fetchVars
    <3>6. StagesBounded'
      BY <1>0, <3>2, <3>3, <3>4, <3>5 DEF StagesBounded, Admitted, Staged
    <3>7. BackendMatches'
      BY <1>0, <2>0, <2>2, <3>1, BackendStep DEF loopVars, MergedStages
    <3> QED
      BY <1>0, <1>1, <2>0, <2>2, <3>1, <3>3, <3>6, <3>7, StageStepKeepsInv DEF loopVars, LoopTypes
  <2> QED
    BY <1>3, <2>1, <2>2 DEF Admit
<1>4. CASE StartWrite(c)
  <2> DEFINE s == "writing"
  <2>1. s \in Stages /\ stage[c] = "write_ready" /\ stage' = [stage EXCEPT ![c] = s]
        /\ pc = "write" /\ Cardinality(InWriteSet) < WriterThreads
        /\ UNCHANGED <<loopVars, fetchVars, evidence, merged, size, used, untried, prefetchVars, streamVars>>
    BY <1>4 DEF StartWrite, Stages
  <2>2. UNCHANGED Admitted /\ Cardinality(Staged') <= CompressionConcurrency
        /\ Cardinality(InWriteSet') <= WriterThreads
    <3>1. UNCHANGED Admitted /\ UNCHANGED Staged /\ Cardinality(InWriteSet') = Cardinality(InWriteSet) + 1
      BY <2>1, MoveFacts
    <3>2. Cardinality(InWriteSet) \in Nat
      BY <2>1, MoveFacts
    <3> QED
      BY <2>1, <3>1, <3>2, BoundsNow
  <2>4. StagesBounded'
    BY <1>0, <2>1, <2>2, BoundsStep DEF fetchVars, prefetchVars
  <2>5. BackendMatches'
    BY <1>0, <2>1, BackendStep DEF loopVars, MergedStages
  <2> QED
    BY <1>0, <1>1, <2>1, <2>4, <2>5, StageStepKeepsInv DEF loopVars, LoopTypes
<1>5. CASE WriterThread(c)
  <2>1. PICK s \in {"written", "write_failed"} : stage' = [stage EXCEPT ![c] = s]
    BY <1>5 DEF WriterThread
  <2>2. s \in Stages /\ stage[c] = "writing" /\ used' = used - size[c] /\ pc # "done"
        /\ UNCHANGED <<loopVars, fetchVars, evidence, merged, size, untried, prefetchVars, streamVars>>
    BY <1>5 DEF WriterThread, Stages
  <2>3. used' \in Nat /\ used' <= used /\ used' = TotalOf(size, Admitted)'
    <3>1. s \in Stages \ {"write_ready", "writing"} /\ UNCHANGED size
      BY <2>2
    <3> QED
      BY <1>0, <2>1, <2>2, <3>1, ReleaseBytes
  <2>4. UNCHANGED Staged /\ UNCHANGED InWriteSet
    BY <2>1, <2>2, MoveFacts
  <2>5. NetworkLen' = NetworkLen
    BY <2>2 DEF NetworkLen, prefetchVars, fetchVars
  <2>6. used' <= WriterQueueBytes
    BY <2>3, BoundsNow
  <2>7. StagesBounded'
    BY <1>0, <2>3, <2>4, <2>5, <2>6 DEF StagesBounded, Admitted, Staged
  <2>8. BackendMatches'
    BY <1>0, <2>1, <2>2, BackendStep DEF loopVars, MergedStages
  <2> QED
    BY <1>0, <1>1, <2>1, <2>2, <2>3, <2>7, <2>8, StageStepKeepsInv DEF loopVars, LoopTypes
<1>6. CASE AnalysisDone(c)
  <2> DEFINE s == "compress_ready"
  <2>1. s \in Stages /\ stage[c] = "analysing" /\ stage' = [stage EXCEPT ![c] = s]
        /\ pc = "select" /\ pc' = "top" /\ UNCHANGED <<failure, streamOpen, pressure, inbox>>
        /\ UNCHANGED <<fetchVars, evidence, merged, size, used, untried, prefetchVars, streamVars>>
    BY <1>6 DEF AnalysisDone, Stages, Goto
  <2>2. UNCHANGED Admitted /\ UNCHANGED Staged /\ UNCHANGED InWriteSet
    BY <2>1, MoveFacts
  <2>3. StagesBounded'
    BY <1>0, <2>1, <2>2, BoundsStep, BoundsNow DEF fetchVars, prefetchVars
  <2>4. BackendMatches'
    BY <1>0, <2>1, BackendStep DEF MergedStages
  <2> QED
    BY <1>0, <1>1, <2>1, <2>3, <2>4, StageStepKeepsInv DEF LoopTypes, PCs
<1>7. CASE CompressionDone(c)
  <2> DEFINE s == "admission_ready"
  <2>0. c \notin merged
    BY <1>0, <1>7 DEF CompressionDone, BackendMatches, In
  <2>1. s \in Stages /\ stage[c] = "compressing" /\ stage' = [stage EXCEPT ![c] = s]
        /\ pc = "select" /\ pc' = "top" /\ UNCHANGED <<failure, streamOpen, pressure, inbox>>
        /\ merged' = merged \cup {c}
        /\ UNCHANGED <<fetchVars, evidence, used, untried, prefetchVars, streamVars>>
    BY <1>7, <2>0 DEF CompressionDone, Stages, Goto
  <2>2. PICK bytes \in Sizes : size' = [size EXCEPT ![c] = bytes]
    BY <1>7, <2>0 DEF CompressionDone
  <2>3. UNCHANGED Admitted /\ UNCHANGED Staged /\ UNCHANGED InWriteSet /\ c \notin Admitted
    BY <2>1, MoveFacts
  <2>4. \A d \in Admitted : size'[d] = size[d]
    <3>1. Admitted \subseteq Candidates
      BY DEF Admitted, In
    <3> QED
      BY <1>1, <2>2, <2>3, <3>1
  <2>5. StagesBounded'
    BY <1>0, <2>1, <2>3, <2>4, BoundsStep, BoundsNow DEF fetchVars, prefetchVars
  <2>6. BackendMatches'
    <3> DEFINE S == MergedStages
    <3>1. s \in S /\ merged = In(S)
      BY <1>0 DEF BackendMatches, MergedStages
    <3> HIDE DEF S
    <3>2. c \in In(S)' /\ \A d : d # c => (d \in In(S)' <=> d \in In(S))
      BY <1>0, <2>1, <3>1, StageMove
    <3>3. merged' = In(S)'
      BY <2>1, <3>1, <3>2
    <3> QED
      BY <2>1, <3>3 DEF S, MergedStages, BackendMatches
  <2>7. size' \in [Candidates -> Sizes \cup {0}]
    BY <1>1, <2>2
  <2> QED
    BY <1>0, <1>1, <2>1, <2>5, <2>6, <2>7, StageStepKeepsInv DEF LoopTypes, PCs
<1>8. CASE JoinWriter(c)
  <2>0. pc = "select" /\ UNCHANGED <<streamOpen, pressure, inbox>>
        /\ UNCHANGED <<fetchVars, evidence, merged, size, used, untried, prefetchVars, streamVars>>
    BY <1>8 DEF JoinWriter, Goto, Abort
  <2>1. CASE UNCHANGED stage /\ Abort("io")
    <3>1. LoopTypes' /\ pc' = "err" /\ failure' # "state"
      BY <1>0, <2>1 DEF Abort, LoopTypes, PCs
    <3>2. PrefetchInv'
      BY <2>0, InvParts, PrefetchFrame
    <3> QED
      BY <1>0, <1>1, <2>0, <2>1, <3>1, <3>2, LoopStepKeepsInv, DoneFrame DEF prefetchVars
  <2>2. CASE stage[c] = "written" /\ stage' = [stage EXCEPT ![c] = "indexed"] /\ Goto("top")
    <3>1. "indexed" \in Stages /\ pc' = "top" /\ UNCHANGED failure
      BY <2>2 DEF Stages, Goto
    <3>2. UNCHANGED Admitted /\ UNCHANGED Staged
          /\ Cardinality(InWriteSet') <= Cardinality(InWriteSet)
          /\ Cardinality(InWriteSet) \in Nat
      BY <2>2, <3>1, MoveFacts
    <3>3. Cardinality(InWriteSet') <= WriterThreads
      <4>1. InWriteSet' \subseteq Candidates
        BY DEF InWriteSet, In
      <4>2. Cardinality(InWriteSet') \in Nat
        BY <4>1, FS_Subset, FS_CardinalityType, RecordsAssumption
      <4> QED
        BY <3>2, <4>2, BoundsNow
    <3>4. StagesBounded'
      BY <1>0, <2>0, <3>2, <3>3, BoundsStep, BoundsNow DEF fetchVars, prefetchVars
    <3>5. BackendMatches'
      BY <1>0, <2>0, <2>2, <3>1, BackendStep DEF MergedStages
    <3> QED
      BY <1>0, <1>1, <2>0, <2>2, <3>1, <3>4, <3>5, StageStepKeepsInv DEF LoopTypes, PCs
  <2> QED
    BY <1>8, <2>1, <2>2 DEF JoinWriter
<1> QED
  BY <1>2, <1>3, <1>4, <1>5, <1>6, <1>7, <1>8 DEF Moves

-----------------------------------------------------------------------------
(* The stream *)

\* What a received message may carry.
LEMMA SomeRecordsFacts ==
    /\ \A S \in SUBSET Candidates : \A f \in [S -> Record] : f \in SomeRecords
    /\ \A f \in SomeRecords : /\ DOMAIN f \subseteq Candidates
                              /\ \A c \in DOMAIN f : f[c] \in Record
BY DEF SomeRecords

\* What the messages of dedup look like.
LEMMA MessageTypes ==
    ASSUME NEW S \in SUBSET Candidates
    PROVE  /\ [kind |-> "Frozen", recs |-> [c \in S |-> Final(c)]] \in Message
           /\ [kind |-> "Prefetch", recs |-> [c \in S |-> Base[c]]] \in Message
           /\ [kind |-> "Prefetch", recs |-> [c \in S |-> Exact[c]]] \in Message
<1>1. \A c \in S : Final(c) \in Record /\ Base[c] \in Record /\ Exact[c] \in Record
                   /\ Within(Base[c], c) /\ Within(Exact[c], c)
  BY FinalFacts
<1>2. /\ [c \in S |-> Final(c)] \in [S -> Record]
      /\ [c \in S |-> Base[c]] \in [S -> Record]
      /\ [c \in S |-> Exact[c]] \in [S -> Record]
  BY <1>1
<1> QED
  BY <1>1, <1>2, SomeRecordsFacts DEF Message

\* What a message of dedup carries.
LEMMA MessageFacts ==
    ASSUME NEW m \in Message
    PROVE  /\ m.kind \in {"Prefetch", "Frozen"}
           /\ DOMAIN m.recs \subseteq Candidates
           /\ \A c \in DOMAIN m.recs : m.recs[c] \in Record
           /\ m.kind = "Prefetch" => \A c \in DOMAIN m.recs : Within(m.recs[c], c)
           /\ m \in [kind : {"Prefetch", "Frozen"}, recs : SomeRecords]
BY SomeRecordsFacts DEF Message

\* A message without some of its candidates is a message.
LEMMA MessageRest ==
    ASSUME NEW m \in Message, NEW c
    PROVE  [m EXCEPT !.recs = [d \in DOMAIN m.recs \ {c} |-> m.recs[d]]] \in Message
<1> DEFINE T == DOMAIN m.recs \ {c}
           r == [d \in T |-> m.recs[d]]
<1>1. T \in SUBSET Candidates /\ \A d \in T : m.recs[d] \in Record
  BY MessageFacts
<1>2. r \in [T -> Record]
  BY <1>1
<1>3. r \in SomeRecords
  BY <1>1, <1>2, SomeRecordsFacts
<1>4. m.kind = "Prefetch" => \A d \in T : Within(m.recs[d], d)
  BY MessageFacts
<1>5. DOMAIN r = T /\ \A d \in T : r[d] = m.recs[d]
  OBVIOUS
<1>6. m \in [kind : {"Prefetch", "Frozen"}, recs : SomeRecords]
  BY MessageFacts
<1> HIDE DEF r, T
<1>7. /\ [m EXCEPT !.recs = r] \in [kind : {"Prefetch", "Frozen"}, recs : SomeRecords]
      /\ [m EXCEPT !.recs = r].kind = m.kind /\ [m EXCEPT !.recs = r].recs = r
  BY <1>3, <1>6
<1>8. [m EXCEPT !.recs = r] \in Message
  BY <1>4, <1>5, <1>7 DEF Message
<1> QED
  BY <1>8 DEF r, T

\* One message more at the end of the channel.
LEMMA ChannelAppend ==
    ASSUME ChannelHolds, NEW m \in Message, outcome = "open",
           channel' = Append(channel, m), UNCHANGED <<outcome, seen, streamOpen>>,
           LET F == IF m.kind = "Frozen" THEN DOMAIN m.recs ELSE {} IN
             F \cap frozen = {} /\ frozen' = frozen \cup F
    PROVE  ChannelHolds'
<1> DEFINE F == IF m.kind = "Frozen" THEN DOMAIN m.recs ELSE {}
<1>0. PICK n : n = Len(channel) + 1
  OBVIOUS
<1>1. channel \in Seq(Message) /\ Len(channel) \in Nat /\ DOMAIN channel = 1 .. Len(channel)
  BY DEF ChannelHolds
<1>2. F \cap frozen = {} /\ frozen' = frozen \cup F /\ F \subseteq Candidates
  BY MessageFacts
<1>3. /\ channel' \in Seq(Message) /\ DOMAIN channel' = 1 .. n
      /\ channel'[n] = m /\ \A i \in DOMAIN channel : channel'[i] = channel[i]
      /\ DOMAIN channel' = DOMAIN channel \cup {n} /\ n \notin DOMAIN channel
  BY <1>0, <1>1
<1>4. FrozenAt(n)' = F /\ \A i \in DOMAIN channel : FrozenAt(i)' = FrozenAt(i)
  BY <1>3 DEF FrozenAt
<1> HIDE DEF F
<1>5. /\ frozen \subseteq Candidates /\ seen \subseteq frozen
      /\ \A i \in DOMAIN channel : FrozenAt(i) \subseteq frozen \ seen
      /\ \A i, j \in DOMAIN channel : i # j => FrozenAt(i) \cap FrozenAt(j) = {}
      /\ \A c \in frozen \ seen : \E i \in DOMAIN channel : c \in FrozenAt(i)
      /\ streamOpen
  BY DEF ChannelHolds
<1>6. \A i \in DOMAIN channel' : FrozenAt(i)' \subseteq frozen' \ seen'
  BY <1>2, <1>3, <1>4, <1>5
<1>7. \A i, j \in DOMAIN channel' : i # j => FrozenAt(i)' \cap FrozenAt(j)' = {}
  BY <1>2, <1>3, <1>4, <1>5
<1>8. \A c \in frozen' \ seen' : \E i \in DOMAIN channel' : c \in FrozenAt(i)'
  BY <1>2, <1>3, <1>4, <1>5
<1> QED
  BY <1>2, <1>3, <1>5, <1>6, <1>7, <1>8 DEF ChannelHolds

\* Dedup publishes, ends or fails.
LEMMA DedupKeepsInv ==
    ASSUME PipelineInv, Dedup \/ DedupFails
    PROVE  PipelineInv'
<1>0. /\ LoopTypes /\ FetchTypes /\ BackTypes /\ PrefetchInv
      /\ ChannelHolds /\ InboxHolds /\ OneHand /\ HintsWithin /\ BasesCover
      /\ EvidenceCoversFrozen /\ BackendMatches /\ StagesBounded /\ NetworkFinite /\ NoStateError
  BY InvParts
<1>1. UNCHANGED <<loopVars, fetchVars, backVars, prefetchVars>> /\ pc # "done"
  BY DEF Dedup, DedupFails
<1>2. ChannelHolds'
  <2>0. UNCHANGED <<seen, streamOpen>>
    BY <1>1 DEF prefetchVars, loopVars
  <2>1. CASE \E wave \in {"base", "exact"}, S \in Batches : PublishPrefetch(wave, S)
    <3>1. PICK wave \in {"base", "exact"}, S \in Batches : PublishPrefetch(wave, S)
      BY <2>1
    <3> DEFINE m == [kind |-> "Prefetch", recs |-> [c \in S |-> Hint(wave)[c]]]
    <3>2. m \in Message /\ m.kind = "Prefetch"
      BY MessageTypes DEF Batches, Hint
    <3>3. channel' = Append(channel, m) /\ UNCHANGED <<frozen, outcome>> /\ outcome = "open"
      BY <3>1 DEF PublishPrefetch
    <3> HIDE DEF m
    <3> QED
      BY <1>0, <2>0, <3>2, <3>3, ChannelAppend
  <2>2. CASE \E S \in Batches : PublishFrozen(S)
    <3>1. PICK S \in Batches : PublishFrozen(S)
      BY <2>2
    <3> DEFINE m == [kind |-> "Frozen", recs |-> [c \in S |-> Final(c)]]
    <3>2. m \in Message /\ m.kind = "Frozen" /\ DOMAIN m.recs = S
      BY MessageTypes DEF Batches
    <3>3. channel' = Append(channel, m) /\ UNCHANGED outcome /\ outcome = "open"
          /\ S \cap frozen = {} /\ frozen' = frozen \cup S
      BY <3>1 DEF PublishFrozen
    <3> HIDE DEF m
    <3> QED
      BY <1>0, <2>0, <3>2, <3>3, ChannelAppend
  <2>3. CASE FinishDedup \/ FailDedup
    <3>1. /\ UNCHANGED <<channel, frozen>> /\ outcome' # "open" /\ outcome = "open"
          /\ outcome' = "ok" => frozen = Candidates
      BY <2>3 DEF FinishDedup, FailDedup
    <3>2. \A i : FrozenAt(i)' = FrozenAt(i)
      BY <3>1 DEF FrozenAt
    <3> QED
      BY <1>0, <2>0, <3>1, <3>2 DEF ChannelHolds
  <2> QED
    BY <2>1, <2>2, <2>3 DEF Dedup, DedupFails, Publish
<1>3. LoopTypes' /\ FetchTypes' /\ BackTypes'
  BY <1>0, <1>1 DEF LoopTypes, FetchTypes, BackTypes, loopVars, fetchVars, backVars
<1>4. PrefetchInv' /\ HintsWithin' /\ EvidenceCoversFrozen' /\ BasesCover'
  BY <1>0, <1>1, PrefetchFrame, HintsFrame, EvidenceFrame, BasesFrame
     DEF prefetchVars, backVars, fetchVars
<1>5. OneHand'
  BY <1>0, <1>1, HandsFrame
     DEF AwaitsPrefetch, InInbox, loopVars, fetchVars, backVars, prefetchVars
<1>6. StagesBounded' /\ BackendMatches' /\ NetworkFinite' /\ NoStateError' /\ InboxHolds'
  BY <1>0, <1>1, BoundsFrame
     DEF BackendMatches, In, NetworkFinite, NoStateError, InboxHolds,
         loopVars, fetchVars, backVars, prefetchVars
<1>7. DoneIsComplete'
  BY <1>1, DoneFrame DEF loopVars
<1> QED
  BY <1>2, <1>3, <1>4, <1>5, <1>6, <1>7, InvNext

\* One message less at its front: the frozen ones in it are seen now.
LEMMA ChannelTail ==
    ASSUME ChannelHolds, channel # <<>>, channel' = Tail(channel),
           UNCHANGED <<frozen, outcome, streamOpen>>, seen' = seen \cup FrozenAt(1)
    PROVE  /\ ChannelHolds'
           /\ channel[1] \in Message /\ FrozenAt(1) \cap seen = {} /\ FrozenAt(1) \subseteq Candidates
<1>1. /\ channel \in Seq(Message) /\ Len(channel) \in Nat /\ Len(channel) # 0
      /\ DOMAIN channel = 1 .. Len(channel)
  BY DEF ChannelHolds
<1>2. 1 \in DOMAIN channel /\ channel[1] \in Message
  BY <1>1
<1>3. /\ frozen \subseteq Candidates /\ seen \subseteq frozen
      /\ \A i \in DOMAIN channel : FrozenAt(i) \subseteq frozen \ seen
      /\ \A i, j \in DOMAIN channel : i # j => FrozenAt(i) \cap FrozenAt(j) = {}
      /\ \A c \in frozen \ seen : \E i \in DOMAIN channel : c \in FrozenAt(i)
  BY DEF ChannelHolds
<1>4. /\ channel' \in Seq(Message) /\ DOMAIN channel' = 1 .. Len(channel) - 1
      /\ \A i \in DOMAIN channel' : channel'[i] = channel[i + 1]
  BY <1>1
<1>5. \A i \in DOMAIN channel' : i + 1 \in DOMAIN channel /\ i + 1 # 1 /\ FrozenAt(i)' = FrozenAt(i + 1)
  BY <1>1, <1>4 DEF FrozenAt
<1>6. \A i \in DOMAIN channel' : FrozenAt(i)' \subseteq frozen' \ seen'
  BY <1>2, <1>3, <1>5
<1>7. \A i, j \in DOMAIN channel' : i # j => FrozenAt(i)' \cap FrozenAt(j)' = {}
  BY <1>3, <1>4, <1>5
<1>8. \A c \in frozen' \ seen' : \E i \in DOMAIN channel' : c \in FrozenAt(i)'
  <2> SUFFICES ASSUME NEW c \in frozen' \ seen' PROVE \E i \in DOMAIN channel' : c \in FrozenAt(i)'
    OBVIOUS
  <2>1. PICK i \in DOMAIN channel : c \in FrozenAt(i)
    BY <1>3
  <2>2. i # 1
    BY <2>1
  <2>3. i - 1 \in DOMAIN channel' /\ (i - 1) + 1 = i
    BY <1>1, <1>4, <2>2
  <2>4. FrozenAt(i - 1)' = FrozenAt(i)
    BY <1>5, <2>3
  <2> QED
    BY <2>1, <2>3, <2>4
<1>9. ~streamOpen' => channel' = <<>> /\ outcome' # "open"
  BY DEF ChannelHolds
<1>10. ChannelHolds'
  BY <1>2, <1>3, <1>4, <1>6, <1>7, <1>8, <1>9 DEF ChannelHolds
<1> QED
  BY <1>2, <1>3, <1>10

-----------------------------------------------------------------------------
(* Hands: steps that give a candidate on *)

\* The conjuncts of OneHand about one candidate ...
HandOf(c) ==
    /\ InFinals(c) => ~BeingFetched(c) /\ ~AwaitsPrefetch(c) /\ ~InInbox(c)
    /\ BeingFetched(c) => ~AwaitsPrefetch(c) /\ ~InInbox(c)
    /\ AwaitsPrefetch(c) => ~InInbox(c)
    /\ InFlight(c) => c \in seen /\ stage[c] = "none"
    /\ c \in seen => InFlight(c) \/ stage[c] # "none"
    /\ stage[c] # "none" => c \in seen

\* ... and about two positions of a queue.
DistinctHands ==
    /\ \A i, j \in DOMAIN finals : finals[i] = finals[j] => i = j
    /\ \A j1, j2 \in fetchingFinal : j1.cand = j2.cand => j1 = j2

\* Candidate d stays where it is.
SameHand(d) ==
    /\ InFinals(d)' <=> InFinals(d)
    /\ BeingFetched(d)' <=> BeingFetched(d)
    /\ AwaitsPrefetch(d)' <=> AwaitsPrefetch(d)
    /\ InInbox(d)' <=> InInbox(d)
    /\ d \in seen' <=> d \in seen
    /\ stage'[d] = "none" <=> stage[d] = "none"

\* The parts of OneHand.
LEMMA HandParts == OneHand <=> (\A c \in Candidates : HandOf(c)) /\ DistinctHands
BY DEF OneHand, HandOf, DistinctHands

\* One candidate changes hands, the others stay where they are.
LEMMA HandsMove ==
    ASSUME OneHand, NEW c \in Candidates, HandOf(c)', DistinctHands',
           \A d \in Candidates : d # c => SameHand(d)
    PROVE  OneHand'
<1>1. \A d \in Candidates : HandOf(d)'
  <2> SUFFICES ASSUME NEW d \in Candidates, d # c PROVE HandOf(d)'
    OBVIOUS
  <2>1. HandOf(d) /\ SameHand(d)
    BY HandParts
  <2> QED
    BY <2>1 DEF HandOf, SameHand, InFlight
<1>2. OneHand' <=> (\A d \in Candidates : HandOf(d)') /\ DistinctHands'
  BY DEF OneHand, HandOf, DistinctHands
<1> QED
  BY <1>1, <1>2

\* What may become of a candidate that is given on: its analysis is queued,
\* it is queued for a final fetch, or it waits for its prefetch.
Analysed(c) ==
    \E ev \in Evidences :
        /\ ev.ok => ev.rec.seeds = Final(c).seeds /\ SelectionCovers(ev.rec, Final(c))
        /\ ~ev.ok => ev.by = "Final"
        /\ stage' = [stage EXCEPT ![c] = "analysing"]
        /\ evidence' = [evidence EXCEPT ![c] = ev]
        /\ UNCHANGED <<merged, size, used, untried, finals, bases>>

\* Candidate c goes to a final job.
Refetched(c) ==
    \E b \in Record :
        /\ b # NoRecord => SelectionCovers(b, Final(c))
        /\ finals' = Append(finals, c)
        /\ bases' = [bases EXCEPT ![c] = b]
        /\ UNCHANGED backVars

\* Nothing is refetched or decided.
Waits == UNCHANGED <<finals, bases, backVars>>

\* The finals queue with one candidate more.
LEMMA FinalsAppend ==
    ASSUME FetchTypes, NEW c \in Candidates, finals' = Append(finals, c), ~InFinals(c),
           \A i, j \in DOMAIN finals : finals[i] = finals[j] => i = j
    PROVE  /\ finals' \in Seq(Candidates)
           /\ InFinals(c)' /\ \A d : d # c => (InFinals(d)' <=> InFinals(d))
           /\ \A i, j \in DOMAIN finals' : finals'[i] = finals'[j] => i = j
<1>0. PICK n : n = Len(finals) + 1
  OBVIOUS
<1>1. finals \in Seq(Candidates) /\ Len(finals) \in Nat /\ DOMAIN finals = 1 .. Len(finals)
  BY DEF FetchTypes
<1>2. /\ finals' \in Seq(Candidates) /\ DOMAIN finals' = DOMAIN finals \cup {n}
      /\ n \notin DOMAIN finals
      /\ finals'[n] = c /\ \A i \in DOMAIN finals : finals'[i] = finals[i]
  BY <1>0, <1>1
<1>3. \A i \in DOMAIN finals : finals[i] # c
  BY DEF InFinals
<1>4. InFinals(c)' /\ \A d : d # c => (InFinals(d)' <=> InFinals(d))
  BY <1>2 DEF InFinals
<1> QED
  BY <1>2, <1>3, <1>4

\* Giving one candidate on keeps the invariant.
LEMMA HandStepKeepsInv ==
    ASSUME PipelineInv, NEW c \in Candidates, stage[c] = "none", ~InFinals(c), c \in seen,
           LoopTypes', InboxHolds', PrefetchInv', HintsWithin',
           UNCHANGED <<seen, streamVars, streamOpen, failure>>, pc' \notin {"done", "admit"},
           \A d \in Candidates : d # c => /\ AwaitsPrefetch(d)' <=> AwaitsPrefetch(d)
                                          /\ InInbox(d)' <=> InInbox(d)
                                          /\ BeingFetched(d)' <=> BeingFetched(d),
           ~InInbox(c)', ~BeingFetched(c)',
           prefetching' \subseteq prefetching, fetchingFinal' \subseteq fetchingFinal,
           \/ Analysed(c) /\ ~AwaitsPrefetch(c)'
           \/ Refetched(c) /\ ~AwaitsPrefetch(c)'
           \/ Waits /\ AwaitsPrefetch(c)'
    PROVE  PipelineInv'
<1>0. /\ FetchTypes /\ BackTypes /\ ChannelHolds /\ OneHand /\ BasesCover
      /\ EvidenceCoversFrozen /\ BackendMatches /\ StagesBounded /\ NetworkFinite /\ NoStateError
  BY InvParts
<1>1. DistinctHands
  BY <1>0, HandParts
<1>2. ChannelHolds'
  BY <1>0, ChannelFrame DEF streamVars
<1>3. NetworkFinite' /\ NetworkLen' <= NetworkLimit
  <2>1. IsFiniteSet(prefetching) /\ IsFiniteSet(fetchingFinal)
    BY <1>0 DEF NetworkFinite
  <2>2. /\ IsFiniteSet(prefetching') /\ IsFiniteSet(fetchingFinal')
        /\ Cardinality(prefetching') <= Cardinality(prefetching)
        /\ Cardinality(fetchingFinal') <= Cardinality(fetchingFinal)
    BY <2>1, FS_Subset
  <2>3. /\ Cardinality(prefetching') \in Nat /\ Cardinality(fetchingFinal') \in Nat
        /\ Cardinality(prefetching) \in Nat /\ Cardinality(fetchingFinal) \in Nat
    BY <2>1, <2>2, FS_CardinalityType
  <2>4. NetworkLen <= NetworkLimit /\ NetworkLimit \in Nat
    BY <1>0, PrefetchAssumption DEF StagesBounded
  <2> QED
    BY <2>2, <2>3, <2>4 DEF NetworkFinite, NetworkLen
<1>4. NoStateError' /\ DoneIsComplete'
  BY <1>0, DoneFrame DEF NoStateError
<1>5. fetchingFinal' \subseteq Jobs
      /\ \A j1, j2 \in fetchingFinal' : j1.cand = j2.cand => j1 = j2
      /\ \A job \in fetchingFinal' : job.rec # NoRecord => SelectionCovers(job.rec, Final(job.cand))
  BY <1>0, <1>1 DEF FetchTypes, DistinctHands, BasesCover
<1>6. CASE Analysed(c) /\ ~AwaitsPrefetch(c)'
  <2>1. PICK ev \in Evidences :
          /\ ev.ok => ev.rec.seeds = Final(c).seeds /\ SelectionCovers(ev.rec, Final(c))
          /\ ~ev.ok => ev.by = "Final"
          /\ stage' = [stage EXCEPT ![c] = "analysing"]
          /\ evidence' = [evidence EXCEPT ![c] = ev]
          /\ UNCHANGED <<merged, size, used, untried, finals, bases>>
    BY <1>6 DEF Analysed
  <2>2. /\ stage'[c] = "analysing" /\ \A d \in Candidates : d # c => stage'[d] = stage[d]
        /\ evidence'[c] = ev /\ \A d \in Candidates : d # c => evidence'[d] = evidence[d]
    BY <1>0, <2>1 DEF BackTypes
  <2>3. FetchTypes'
    BY <1>0, <1>5, <2>1 DEF FetchTypes
  <2>4. BackTypes'
    BY <1>0, <2>1 DEF BackTypes, Stages
  <2>5. \A d \in Candidates : InFinals(d)' <=> InFinals(d)
    BY <2>1 DEF InFinals
  <2>6. OneHand'
    <3>1. \A d \in Candidates : d # c => SameHand(d)
      BY <2>2, <2>5 DEF SameHand
    <3>2. HandOf(c)'
      BY <1>6, <2>2, <2>5 DEF HandOf, InFlight
    <3>3. DistinctHands'
      BY <1>1, <1>5, <2>1 DEF DistinctHands
    <3> QED
      BY <1>0, <3>1, <3>2, <3>3, HandsMove
  <2>7. BasesCover'
    BY <1>0, <1>5, <2>1, <2>5 DEF BasesCover
  <2>8. EvidenceCoversFrozen'
    BY <1>0, <2>1, <2>2 DEF EvidenceCoversFrozen
  <2>9. "analysing" \in Stages
    BY DEF Stages
  <2>10. UNCHANGED Admitted /\ UNCHANGED Staged /\ UNCHANGED InWriteSet
    BY <2>1, <2>9, MoveFacts
  <2>11. StagesBounded'
    BY <1>0, <1>3, <2>1, <2>10 DEF StagesBounded, Admitted, Staged
  <2>12. BackendMatches'
    BY <1>0, <2>1, <2>9, BackendStep DEF MergedStages
  <2> QED
    BY <1>2, <1>3, <1>4, <2>3, <2>4, <2>6, <2>7, <2>8, <2>11, <2>12, InvNext
<1>7. ASSUME UNCHANGED backVars
      PROVE  BackTypes' /\ EvidenceCoversFrozen' /\ BackendMatches' /\ StagesBounded'
  <2>1. UNCHANGED <<stage, evidence, merged, size, used, untried>>
    BY <1>7 DEF backVars
  <2> QED
    BY <1>0, <1>3, <2>1 DEF BackTypes, EvidenceCoversFrozen, BackendMatches, StagesBounded, In, InWriteSet
<1>8. CASE Refetched(c) /\ ~AwaitsPrefetch(c)'
  <2>1. PICK b \in Record :
          /\ b # NoRecord => SelectionCovers(b, Final(c))
          /\ finals' = Append(finals, c)
          /\ bases' = [bases EXCEPT ![c] = b]
          /\ UNCHANGED backVars
    BY <1>8 DEF Refetched
  <2>2. UNCHANGED stage
    BY <2>1 DEF backVars
  <2>3. /\ finals' \in Seq(Candidates)
        /\ InFinals(c)' /\ \A d : d # c => (InFinals(d)' <=> InFinals(d))
        /\ \A i, j \in DOMAIN finals' : finals'[i] = finals'[j] => i = j
    BY <1>0, <1>1, <2>1, FinalsAppend DEF DistinctHands
  <2>4. FetchTypes'
    BY <1>0, <1>5, <2>1, <2>3 DEF FetchTypes
  <2>5. OneHand'
    <3>1. \A d \in Candidates : d # c => SameHand(d)
      BY <2>2, <2>3 DEF SameHand
    <3>2. HandOf(c)'
      BY <1>8, <2>2, <2>3 DEF HandOf, InFlight
    <3>3. DistinctHands'
      BY <1>5, <2>3 DEF DistinctHands
    <3> QED
      BY <1>0, <3>1, <3>2, <3>3, HandsMove
  <2>6. BasesCover'
    <3>1. bases'[c] = b /\ \A d \in Candidates : d # c => bases'[d] = bases[d]
      BY <1>0, <2>1 DEF FetchTypes
    <3> QED
      BY <1>0, <1>5, <2>1, <2>3, <3>1 DEF BasesCover
  <2> QED
    BY <1>2, <1>3, <1>4, <1>7, <2>1, <2>4, <2>5, <2>6, InvNext
<1>9. CASE Waits /\ AwaitsPrefetch(c)'
  <2>1. UNCHANGED <<finals, bases, backVars>> /\ UNCHANGED stage
    BY <1>9 DEF Waits, backVars
  <2>2. \A d \in Candidates : InFinals(d)' <=> InFinals(d)
    BY <2>1 DEF InFinals
  <2>3. FetchTypes'
    BY <1>0, <1>5, <2>1 DEF FetchTypes
  <2>4. OneHand'
    <3>1. \A d \in Candidates : d # c => SameHand(d)
      BY <2>1, <2>2 DEF SameHand
    <3>2. HandOf(c)'
      BY <1>9, <2>1, <2>2 DEF HandOf, InFlight
    <3>3. DistinctHands'
      BY <1>1, <1>5, <2>1 DEF DistinctHands
    <3> QED
      BY <1>0, <3>1, <3>2, <3>3, HandsMove
  <2>5. BasesCover'
    BY <1>0, <1>5, <2>1, <2>2 DEF BasesCover
  <2> QED
    BY <1>2, <1>3, <1>4, <1>7, <2>1, <2>3, <2>4, <2>5, InvNext
<1> QED
  BY <1>6, <1>8, <1>9

\* Decide on a candidate in no other hand: reuse, extend or fetch anew.
LEMMA DecideEffect ==
    ASSUME PipelineInv, NEW c \in Candidates, stage[c] = "none", ~InFinals(c),
           NEW got \in Record, Within(got, c), NEW ok \in BOOLEAN,
           NEW ACTION next, Decide(c, got, ok, next)
    PROVE  next /\ (Analysed(c) \/ Refetched(c))
<1>0. FetchTypes /\ BackTypes /\ BasesCover
  BY InvParts
<1>1. CASE PrefetchCanFinalize(ok, got, Final(c))
  <2> DEFINE ev == [rec |-> got, ok |-> ok, by |-> "Prefetch"]
  <2>1. QueueAnalysis(c, ev, next) /\ UNCHANGED <<finals, bases>>
    BY <1>1 DEF Decide
  <2>2. /\ stage' = [stage EXCEPT ![c] = "analysing"]
        /\ evidence' = [evidence EXCEPT ![c] = ev]
        /\ next
        /\ UNCHANGED <<merged, size, used, untried>>
    BY <2>1 DEF QueueAnalysis
  <2>3. ev \in Evidences /\ ev.ok /\ ev.rec = got
    BY <1>1 DEF Evidences, PrefetchCanFinalize
  <2>4. got.seeds = Final(c).seeds /\ SelectionCovers(got, Final(c))
    BY <1>1 DEF PrefetchCanFinalize, Within
  <2> HIDE DEF ev
  <2> QED
    BY <2>1, <2>2, <2>3, <2>4 DEF Analysed
<1>2. CASE ~PrefetchCanFinalize(ok, got, Final(c))
  <2>1. /\ finals' = Append(finals, c) /\ next /\ UNCHANGED backVars
        /\ bases' = IF ok /\ SelectionCovers(got, Final(c)) THEN [bases EXCEPT ![c] = got] ELSE bases
    BY <1>2 DEF Decide
  <2>2. CASE ok /\ SelectionCovers(got, Final(c))
    BY <2>1, <2>2 DEF Refetched
  <2>3. CASE ~(ok /\ SelectionCovers(got, Final(c)))
    <3>1. bases[c] = NoRecord
      BY <1>0 DEF BasesCover
    <3>2. bases' = [bases EXCEPT ![c] = bases[c]] /\ bases[c] \in Record
      BY <1>0, <2>1, <2>3 DEF FetchTypes
    <3> QED
      BY <2>1, <3>1, <3>2 DEF Refetched
  <2> QED
    BY <2>2, <2>3
<1> QED
  BY <1>1, <1>2

\* The network.join_next() event for a final fetch.
LEMMA JoinFinalKeepsInv ==
    ASSUME PipelineInv, NEW job \in fetchingFinal, NEW succeeded \in BOOLEAN,
           JoinFinal(job, succeeded)
    PROVE  PipelineInv'
<1>0. /\ LoopTypes /\ FetchTypes /\ BackTypes /\ PrefetchInv /\ InboxHolds /\ OneHand
      /\ HintsWithin /\ BasesCover
  BY InvParts
<1>1. PICK c : c = job.cand
  OBVIOUS
<1>2. c \in Candidates /\ job.rec \in Record
  BY <1>0, <1>1 DEF FetchTypes, Jobs
<1>3. BeingFetched(c)
  BY <1>1 DEF BeingFetched
<1>4. ~InFinals(c) /\ ~AwaitsPrefetch(c) /\ ~InInbox(c) /\ c \in seen /\ stage[c] = "none"
  BY <1>0, <1>2, <1>3 DEF OneHand, InFlight
<1> DEFINE ev == [rec |-> FetchOrExtend(c, job.rec), ok |-> succeeded, by |-> "Final"]
<1>5. QueueAnalysis(c, ev, Goto("top")) /\ pc = "select" /\ fetchingFinal' = fetchingFinal \ {job}
      /\ UNCHANGED <<finals, bases, prefetchVars, streamVars>>
  BY <1>1 DEF JoinFinal
<1>6. /\ stage' = [stage EXCEPT ![c] = "analysing"]
      /\ evidence' = [evidence EXCEPT ![c] = ev]
      /\ Goto("top")
      /\ UNCHANGED <<merged, size, used, untried>>
  BY <1>4, <1>5 DEF QueueAnalysis
<1>7. /\ FetchOrExtend(c, job.rec) \in Record
      /\ FetchOrExtend(c, job.rec).seeds = Final(c).seeds
      /\ SelectionCovers(FetchOrExtend(c, job.rec), Final(c))
  <2>1. Final(c) \in Record
    BY <1>2, FinalFacts
  <2>2. job.rec # NoRecord => SelectionCovers(job.rec, Final(c))
    BY <1>0, <1>1 DEF BasesCover
  <2> QED
    BY <1>2, <2>1, <2>2 DEF FetchOrExtend, SelectionCovers, Record
<1>8. ev \in Evidences /\ ev.rec = FetchOrExtend(c, job.rec) /\ ev.by = "Final"
  BY <1>7 DEF Evidences
<1> HIDE DEF ev
<1>9. Analysed(c)
  BY <1>5, <1>6, <1>7, <1>8 DEF Analysed
<1>10. LoopTypes' /\ InboxHolds' /\ UNCHANGED <<streamOpen, failure, inbox>> /\ pc' = "top"
  BY <1>0, <1>5, <1>6 DEF Goto, LoopTypes, InboxHolds, PCs
<1>11. UNCHANGED <<entries, prefetching, seen>>
  BY <1>5 DEF prefetchVars
<1>12. PrefetchInv' /\ HintsWithin'
  BY <1>0, <1>5, <1>11, PrefetchFrame, HintsFrame
<1>13. \A d \in Candidates : /\ AwaitsPrefetch(d)' <=> AwaitsPrefetch(d)
                             /\ InInbox(d)' <=> InInbox(d)
  BY <1>10, <1>11 DEF AwaitsPrefetch, InInbox
<1>14. ~BeingFetched(c)' /\ \A d \in Candidates : d # c => (BeingFetched(d)' <=> BeingFetched(d))
  BY <1>0, <1>1, <1>5 DEF BeingFetched, OneHand
<1> QED
  BY <1>2, <1>4, <1>5, <1>9, <1>10, <1>11, <1>12, <1>13, <1>14, HandStepKeepsInv

\* Writing one entry that asks for nothing new keeps HintsWithin.
LEMMA HintsStep ==
    ASSUME PipelineInv, NEW c \in Candidates, NEW e,
           entries' = [entries EXCEPT ![c] = e], Within(e.rel, c), Within(e.got, c),
           \A job \in prefetching' : job \in prefetching \/ (job.cand = c /\ Within(job.rec, c))
    PROVE  HintsWithin' /\ entries'[c] = e /\ \A d \in Candidates : d # c => entries'[d] = entries[d]
<1>1. HintsWithin /\ PrefetchTypeOK
  BY InvParts
<1>2. entries'[c] = e /\ \A d \in Candidates : d # c => entries'[d] = entries[d]
  BY <1>1 DEF PrefetchTypeOK
<1> QED
  BY <1>1, <1>2 DEF HintsWithin

\* The two ways on in the inbox.
LEMMA InboxStep ==
    ASSUME PipelineInv, pc = "handle", NEW c \in DOMAIN inbox.recs, NextInInbox(c)
    PROVE  /\ LoopTypes' /\ InboxHolds' /\ UNCHANGED <<streamOpen, failure>>
           /\ pc' \in {"top", "handle"}
           /\ c \in Candidates /\ inbox \in Message
           /\ ~InInbox(c)' /\ \A d : d # c => (InInbox(d)' <=> InInbox(d))
<1>0. LoopTypes /\ InboxHolds
  BY InvParts
<1>1. inbox \in Message
  BY <1>0 DEF InboxHolds
<1>2. c \in Candidates /\ inbox \in [kind : {"Prefetch", "Frozen"}, recs : SomeRecords]
  BY <1>1, MessageFacts
<1>3. LoopTypes' /\ UNCHANGED <<streamOpen, failure>> /\ pc' \in {"top", "handle"}
  BY <1>0 DEF NextInInbox, LoopTypes, PCs
<1>4. CASE DOMAIN inbox.recs = {c}
  <2>1. pc' = "top" /\ inbox' = NoMessage
    BY <1>4 DEF NextInInbox
  <2>2. InboxHolds' /\ \A d : ~InInbox(d)'
    BY <2>1 DEF InboxHolds, InInbox, NoMessage
  <2>3. \A d : d # c => ~InInbox(d)
    BY <1>4 DEF InInbox
  <2> QED
    BY <1>1, <1>2, <1>3, <2>2, <2>3
<1>5. CASE DOMAIN inbox.recs # {c}
  <2>1. pc' = "handle" /\ inbox' = [inbox EXCEPT !.recs = RestOfInbox(c)]
    BY <1>5 DEF NextInInbox
  <2>2. inbox' \in Message
    BY <1>1, <2>1, MessageRest DEF RestOfInbox
  <2>3. InboxHolds'
    BY <2>1, <2>2 DEF InboxHolds
  <2>4. inbox'.kind = inbox.kind /\ inbox'.recs = RestOfInbox(c)
    BY <1>2, <2>1
  <2>5. DOMAIN inbox'.recs = DOMAIN inbox.recs \ {c}
    BY <2>4 DEF RestOfInbox
  <2>6. ~InInbox(c)' /\ \A d : d # c => (InInbox(d)' <=> InInbox(d))
    BY <2>4, <2>5 DEF InInbox
  <2> QED
    BY <1>1, <1>2, <1>3, <2>3, <2>6
<1> QED
  BY <1>4, <1>5

\* Steps of the prefetch coordinator that give no candidate on.
LEMMA EntryStepKeepsInv ==
    ASSUME PipelineInv, UNCHANGED <<fetchVars, backVars, seen, streamVars, streamOpen, failure>>,
           LoopTypes', InboxHolds', PrefetchInv', HintsWithin', pc' \notin {"done", "admit"},
           \A d \in Candidates : /\ AwaitsPrefetch(d)' <=> AwaitsPrefetch(d)
                                 /\ InInbox(d)' <=> InInbox(d),
           IsFiniteSet(prefetching'), NetworkLen' <= NetworkLimit
    PROVE  PipelineInv'
<1>0. /\ FetchTypes /\ BackTypes /\ ChannelHolds /\ OneHand /\ BasesCover
      /\ EvidenceCoversFrozen /\ BackendMatches /\ StagesBounded /\ NetworkFinite /\ NoStateError
  BY InvParts
<1>1. UNCHANGED <<stage, evidence, merged, size, used, untried, finals, bases, fetchingFinal>>
  BY DEF backVars, fetchVars
<1>2. FetchTypes' /\ BackTypes'
  BY <1>0, <1>1 DEF FetchTypes, BackTypes
<1>3. ChannelHolds'
  BY <1>0, ChannelFrame DEF streamVars
<1>4. OneHand' /\ BasesCover' /\ EvidenceCoversFrozen'
  BY <1>0, <1>1, HandsFrame, BasesFrame, EvidenceFrame
<1>5. BackendMatches' /\ StagesBounded'
  BY <1>0, <1>1 DEF BackendMatches, StagesBounded, In, InWriteSet
<1>6. NetworkFinite' /\ NoStateError' /\ DoneIsComplete'
  BY <1>0, <1>1, DoneFrame DEF NetworkFinite, NoStateError
<1> QED
  BY <1>2, <1>3, <1>4, <1>5, <1>6, InvNext

\* What offer makes of an entry: a frozen one is left alone, and hints merge.
LEMMA OfferEntry ==
    ASSUME PipelineInv, NEW c \in Candidates, NEW r \in Record, Within(r, c), Offer(c, r)
    PROVE  \E e : /\ entries' = [entries EXCEPT ![c] = e]
                  /\ Within(e.rel, c) /\ Within(e.got, c)
                  /\ e.frozen = entries[c].frozen /\ (e.frozen => e.stage = entries[c].stage)
<1>0. PrefetchInv /\ PrefetchTypeOK /\ HintsWithin
  BY InvParts
<1>1. /\ entries[c] \in Entry /\ entries[c].frozen \in BOOLEAN
      /\ entries[c].frozen => entries[c].stage = "active"
  BY <1>0, EntryFacts
<1>2. /\ Within(entries[c].rel, c) /\ Within(entries[c].got, c) /\ Within(NoRecord, c)
      /\ Within(Merge(entries[c].rel, r), c)
  BY <1>0, FinalFacts DEF HintsWithin, Within, Merge
<1>3. CASE UNCHANGED entries
  <2>1. entries' = [entries EXCEPT ![c] = entries[c]]
    BY <1>0, <1>3 DEF PrefetchTypeOK
  <2> QED
    BY <1>2, <2>1
<1>4. ASSUME NEW m \in Record, entries' = [entries EXCEPT ![c] = QueuedEntry(m)],
             Within(m, c), entries[c].stage # "active"
      PROVE  \E e : /\ entries' = [entries EXCEPT ![c] = e]
                    /\ Within(e.rel, c) /\ Within(e.got, c)
                    /\ e.frozen = entries[c].frozen /\ (e.frozen => e.stage = entries[c].stage)
  <2>1. QueuedEntry(m).rel = m /\ QueuedEntry(m).got = NoRecord /\ QueuedEntry(m).frozen = FALSE
    BY DEF QueuedEntry
  <2> QED
    BY <1>1, <1>2, <1>4, <2>1
<1>5. CASE OfferNew(c, r)
  <2>1. entries' = [entries EXCEPT ![c] = QueuedEntry(r)] /\ entries[c].stage # "active"
    BY <1>5 DEF OfferNew
  <2> QED
    BY <1>4, <2>1
<1>6. CASE OfferRequeue(c, r)
  <2>1. entries' = [entries EXCEPT ![c] = QueuedEntry(Merge(entries[c].rel, r))]
        /\ entries[c].stage # "active"
    BY <1>6 DEF OfferRequeue
  <2>2. Merge(entries[c].rel, r) \in Record
    BY <1>0, EntryFacts, MergeType
  <2> QED
    BY <1>2, <1>4, <2>1, <2>2
<1>7. ASSUME NEW u \in BOOLEAN, Writes(c, Hinted(c, r, u))
      PROVE  \E e : /\ entries' = [entries EXCEPT ![c] = e]
                    /\ Within(e.rel, c) /\ Within(e.got, c)
                    /\ e.frozen = entries[c].frozen /\ (e.frozen => e.stage = entries[c].stage)
  <2> DEFINE h == Hinted(c, r, u)
  <2>1. /\ h.rel = Merge(entries[c].rel, r) /\ h.got = entries[c].got
        /\ h.stage = entries[c].stage /\ h.frozen = entries[c].frozen
    BY <1>0, HintedFields
  <2>2. entries' = [entries EXCEPT ![c] = h]
    BY <1>7 DEF Writes
  <2> HIDE DEF h
  <2> QED
    BY <1>2, <2>1, <2>2
<1>8. CASE OfferQueued(c, r) \/ OfferCovered(c, r)
  BY <1>0, <1>7, <1>8, OfferMergeWrites
<1>9. CASE OfferActive(c, r)
  BY <1>0, <1>7, <1>9, OfferActiveWrites
<1> QED
  BY <1>3, <1>5, <1>6, <1>8, <1>9 DEF Offer, OfferSkipped, OfferLate

\* A hint from the inbox.
LEMMA HandlePrefetchKeepsInv ==
    ASSUME PipelineInv, NEW c \in Candidates, HandlePrefetch(c)
    PROVE  PipelineInv'
<1>0. PrefetchInv /\ InboxHolds /\ StagesBounded /\ NetworkFinite
  BY InvParts
<1>1. /\ pc = "handle" /\ inbox.kind = "Prefetch" /\ c \in DOMAIN inbox.recs
      /\ Offer(c, inbox.recs[c]) /\ NextInInbox(c)
      /\ UNCHANGED <<fetchVars, backVars, streamVars>>
  BY DEF HandlePrefetch
<1>2. PICK r : r = inbox.recs[c]
  OBVIOUS
<1>3. /\ LoopTypes' /\ InboxHolds' /\ UNCHANGED <<streamOpen, failure>>
      /\ pc' \in {"top", "handle"} /\ inbox \in Message
      /\ ~InInbox(c)' /\ \A d : d # c => (InInbox(d)' <=> InInbox(d))
  BY <1>1, InboxStep
<1>4. r \in Record /\ Within(r, c)
  BY <1>1, <1>2, <1>3, MessageFacts
<1>5. Offer(c, r) /\ UNCHANGED <<prefetching, seen>>
  BY <1>1, <1>2 DEF Offer
<1>6. PrefetchInv'
  BY <1>0, <1>4, <1>5, OfferKeepsInv
<1>7. PICK e : /\ entries' = [entries EXCEPT ![c] = e]
               /\ Within(e.rel, c) /\ Within(e.got, c)
               /\ e.frozen = entries[c].frozen /\ (e.frozen => e.stage = entries[c].stage)
  BY <1>4, <1>5, OfferEntry
<1>8. HintsWithin' /\ entries'[c] = e /\ \A d \in Candidates : d # c => entries'[d] = entries[d]
  BY <1>5, <1>7, HintsStep
<1>9. \A d \in Candidates : AwaitsPrefetch(d)' <=> AwaitsPrefetch(d)
  BY <1>7, <1>8 DEF AwaitsPrefetch
<1>10. \A d \in Candidates : InInbox(d)' <=> InInbox(d)
  BY <1>1, <1>3 DEF InInbox
<1>11. IsFiniteSet(prefetching') /\ NetworkLen' <= NetworkLimit
  BY <1>0, <1>1, <1>5 DEF NetworkFinite, StagesBounded, NetworkLen, fetchVars
<1> QED
  BY <1>1, <1>3, <1>5, <1>6, <1>8, <1>9, <1>10, <1>11, EntryStepKeepsInv

\* A frozen candidate from the inbox.
LEMMA HandleFrozenKeepsInv ==
    ASSUME PipelineInv, NEW c \in Candidates, HandleFrozen(c)
    PROVE  PipelineInv'
<1>0. PrefetchInv /\ PrefetchTypeOK /\ HintsWithin /\ OneHand /\ FetchTypes /\ BasesCover
  BY InvParts
<1>1. /\ pc = "handle" /\ inbox.kind = "Frozen" /\ c \in DOMAIN inbox.recs /\ Freeze(c)
      /\ UNCHANGED <<fetchingFinal, seen, streamVars>>
  BY DEF HandleFrozen
<1>2. InInbox(c)
  BY <1>1 DEF InInbox
<1>3. ~InFinals(c) /\ ~BeingFetched(c) /\ ~AwaitsPrefetch(c) /\ c \in seen /\ stage[c] = "none"
  BY <1>0, <1>2 DEF OneHand, InFlight
<1>4. /\ entries[c] \in Entry /\ entries[c].got \in Record /\ entries[c].ok \in BOOLEAN
      /\ ~entries[c].frozen
      /\ Within(entries[c].rel, c) /\ Within(entries[c].got, c) /\ Within(NoRecord, c)
  <2>1. entries[c] \in Entry /\ entries[c].got \in Record
        /\ (entries[c].frozen => entries[c].stage = "active")
    BY <1>0, EntryFacts
  <2>2. entries[c].ok \in BOOLEAN
    BY <2>1 DEF Entry
  <2> QED
    BY <1>0, <1>3, <2>1, <2>2, FinalFacts DEF AwaitsPrefetch, HintsWithin
<1>5. PrefetchInv'
  BY <1>0, <1>1, <1>3, <1>4, FreezeKeepsInv
<1>6. UNCHANGED prefetching
  BY <1>1 DEF Freeze, FreezeComplete, FreezeQueued, FreezeActive, FreezeUnknown
<1>7. PICK e : /\ entries' = [entries EXCEPT ![c] = e]
               /\ Within(e.rel, c) /\ Within(e.got, c)
               /\ entries[c].stage = "active" => e.stage = "active" /\ e.frozen
               /\ entries[c].stage # "active" => ~e.frozen
  <2>1. CASE FreezeComplete(c) \/ FreezeQueued(c)
    <3>1. entries' = [entries EXCEPT ![c] = NoEntry] /\ entries[c].stage # "active"
      BY <2>1 DEF FreezeComplete, FreezeQueued
    <3> QED
      BY <1>4, <3>1, NoEntryFields DEF NoEntry
  <2>2. CASE FreezeActive(c)
    <3> DEFINE f == FrozenEntry(c)
    <3>1. f.stage = "active" /\ f.frozen /\ Writes(c, f)
      BY <1>0, <1>4, <2>2, FreezeActiveWrites
    <3>2. f.rel = entries[c].rel /\ f.got = entries[c].got
      BY <1>4 DEF FrozenEntry, Entry
    <3>3. entries' = [entries EXCEPT ![c] = f] /\ entries[c].stage = "active"
      BY <2>2, <3>1 DEF Writes, FreezeActive
    <3> HIDE DEF f
    <3> QED
      BY <1>4, <3>1, <3>2, <3>3
  <2>3. CASE FreezeUnknown(c)
    <3>1. entries' = [entries EXCEPT ![c] = entries[c]] /\ entries[c].stage # "active"
      BY <1>0, <2>3 DEF FreezeUnknown, PrefetchTypeOK
    <3> QED
      BY <1>4, <3>1
  <2> QED
    BY <1>1, <2>1, <2>2, <2>3 DEF Freeze
<1>8. HintsWithin' /\ entries'[c] = e /\ \A d \in Candidates : d # c => entries'[d] = entries[d]
  BY <1>6, <1>7, HintsStep
<1>9. /\ \A d \in Candidates : d # c => (AwaitsPrefetch(d)' <=> AwaitsPrefetch(d))
      /\ AwaitsPrefetch(c)' <=> entries[c].stage = "active"
  BY <1>7, <1>8 DEF AwaitsPrefetch
<1>10. NextInInbox(c) /\ \/ Analysed(c) /\ ~AwaitsPrefetch(c)'
                         \/ Refetched(c) /\ ~AwaitsPrefetch(c)'
                         \/ Waits /\ AwaitsPrefetch(c)'
  <2>1. CASE entries[c].stage = "complete" /\ Decide(c, entries[c].got, entries[c].ok, NextInInbox(c))
    <3>1. NextInInbox(c) /\ (Analysed(c) \/ Refetched(c))
      BY <1>3, <1>4, <2>1, DecideEffect
    <3> QED
      BY <1>9, <2>1, <3>1
  <2>2. CASE /\ entries[c].stage \in {"absent", "queued"} /\ finals' = Append(finals, c)
             /\ NextInInbox(c) /\ UNCHANGED <<bases, backVars>>
    <3>1. bases[c] = NoRecord
      BY <1>0, <1>3 DEF BasesCover
    <3>2. bases' = [bases EXCEPT ![c] = bases[c]] /\ bases[c] \in Record
      BY <1>0, <2>2 DEF FetchTypes
    <3>3. Refetched(c)
      BY <2>2, <3>1, <3>2 DEF Refetched
    <3> QED
      BY <1>9, <2>2, <3>3
  <2>3. CASE entries[c].stage = "active" /\ NextInInbox(c) /\ UNCHANGED <<finals, bases, backVars>>
    BY <1>9, <2>3 DEF Waits
  <2> QED
    BY <2>1, <2>2, <2>3 DEF HandleFrozen
<1>11. /\ LoopTypes' /\ InboxHolds' /\ UNCHANGED <<streamOpen, failure>>
       /\ pc' \in {"top", "handle"}
       /\ ~InInbox(c)' /\ \A d : d # c => (InInbox(d)' <=> InInbox(d))
  BY <1>1, <1>10, InboxStep
<1>12. \A d : BeingFetched(d)' <=> BeingFetched(d)
  BY <1>1 DEF BeingFetched
<1> QED
  BY <1>1, <1>3, <1>5, <1>6, <1>8, <1>9, <1>10, <1>11, <1>12, HandStepKeepsInv

\* A fetch joins the network set.
LEMMA OneMore ==
    ASSUME NEW S, IsFiniteSet(S), NEW T, NEW x, T = S \cup {x}
    PROVE  IsFiniteSet(T) /\ Cardinality(T) <= Cardinality(S) + 1
<1>1. Cardinality(S) \in Nat
  BY FS_CardinalityType
<1>2. /\ IsFiniteSet(S \cup {x})
      /\ Cardinality(S \cup {x}) = IF x \in S THEN Cardinality(S) ELSE Cardinality(S) + 1
  BY FS_AddElement
<1>3. Cardinality(S \cup {x}) <= Cardinality(S) + 1
  BY <1>1, <1>2
<1> QED
  BY <1>2, <1>3

\* The network.join_next() event for a prefetch.
LEMMA JoinPrefetchKeepsInv ==
    ASSUME PipelineInv, NEW job \in prefetching, NEW succeeded \in BOOLEAN,
           JoinPrefetch(job, succeeded)
    PROVE  PipelineInv'
<1>0. /\ LoopTypes /\ PrefetchInv /\ PrefetchTypeOK /\ HintsWithin /\ OneHand /\ InboxHolds
      /\ StagesBounded /\ NetworkFinite
  BY InvParts
<1>1. PICK c : c = job.cand
  OBVIOUS
<1>2. c \in Candidates /\ job.rec \in Record /\ Within(job.rec, c) /\ job \in Jobs
  BY <1>0, <1>1 DEF PrefetchTypeOK, Jobs, HintsWithin
<1>3. /\ pc = "select" /\ Finish(job, succeeded) /\ UNCHANGED <<fetchingFinal, streamVars>>
      /\ entries[c].stage = "active" /\ prefetching' = prefetching \ {job} /\ UNCHANGED seen
      /\ FinishFrozen(job) \/ FinishRequeue(job) \/ FinishComplete(job, succeeded)
  BY <1>1 DEF JoinPrefetch, Finish
<1>4. PrefetchInv'
  BY <1>0, <1>3, FinishKeepsInv
<1>5. /\ entries[c] \in Entry /\ entries[c].rel \in Record
      /\ Within(entries[c].rel, c) /\ Within(NoRecord, c)
  BY <1>0, <1>2, EntryFacts, FinalFacts DEF HintsWithin
<1>6. PICK e : /\ entries' = [entries EXCEPT ![c] = e]
               /\ Within(e.rel, c) /\ Within(e.got, c) /\ ~e.frozen
  <2>1. CASE FinishFrozen(job)
    <3>1. entries' = [entries EXCEPT ![c] = NoEntry]
      BY <1>1, <2>1 DEF FinishFrozen
    <3> QED
      BY <1>5, <3>1, NoEntryFields DEF NoEntry
  <2>2. CASE FinishRequeue(job)
    <3> DEFINE q == QueuedEntry(entries[c].rel)
    <3>1. entries' = [entries EXCEPT ![c] = q]
      BY <1>1, <2>2 DEF FinishRequeue
    <3>2. q.rel = entries[c].rel /\ q.got = NoRecord /\ ~q.frozen
      BY DEF QueuedEntry
    <3> HIDE DEF q
    <3> QED
      BY <1>5, <3>1, <3>2
  <2>3. CASE FinishComplete(job, succeeded)
    <3> DEFINE k == Completed(job, succeeded)
    <3>1. Writes(c, k) /\ k.got = job.rec /\ k.rel = entries[c].rel /\ ~k.frozen
      BY <1>0, <1>1, <1>2, <1>3, <2>3, FinishCompleteWrites
    <3>2. entries' = [entries EXCEPT ![c] = k]
      BY <3>1 DEF Writes
    <3> HIDE DEF k
    <3> QED
      BY <1>2, <1>5, <3>1, <3>2
  <2> QED
    BY <1>3, <2>1, <2>2, <2>3
<1>7. HintsWithin' /\ entries'[c] = e /\ \A d \in Candidates : d # c => entries'[d] = entries[d]
  BY <1>2, <1>3, <1>6, HintsStep
<1>8. /\ \A d \in Candidates : d # c => (AwaitsPrefetch(d)' <=> AwaitsPrefetch(d))
      /\ ~AwaitsPrefetch(c)'
  BY <1>6, <1>7 DEF AwaitsPrefetch
<1>9. ASSUME Goto("top")
      PROVE  /\ LoopTypes' /\ InboxHolds' /\ UNCHANGED <<streamOpen, failure, inbox>> /\ pc' = "top"
             /\ \A d : InInbox(d)' <=> InInbox(d)
  BY <1>0, <1>3, <1>9 DEF Goto, LoopTypes, InboxHolds, PCs, InInbox
<1>10. CASE entries[c].frozen
  <2>1. AwaitsPrefetch(c)
    BY <1>3, <1>10 DEF AwaitsPrefetch
  <2>2. ~InFinals(c) /\ ~BeingFetched(c) /\ ~InInbox(c) /\ c \in seen /\ stage[c] = "none"
    BY <1>0, <1>2, <2>1 DEF OneHand, InFlight
  <2>3. Decide(c, job.rec, succeeded, Goto("top"))
    BY <1>1, <1>10 DEF JoinPrefetch
  <2>4. Goto("top") /\ (Analysed(c) \/ Refetched(c))
    BY <1>2, <2>2, <2>3, DecideEffect
  <2>5. \A d : BeingFetched(d)' <=> BeingFetched(d)
    BY <1>3 DEF BeingFetched
  <2> QED
    BY <1>2, <1>3, <1>4, <1>7, <1>8, <1>9, <2>2, <2>4, <2>5, HandStepKeepsInv
<1>11. CASE ~entries[c].frozen
  <2>1. Goto("top") /\ UNCHANGED <<finals, bases, backVars>>
    BY <1>1, <1>11 DEF JoinPrefetch
  <2>2. ~AwaitsPrefetch(c)
    BY <1>11 DEF AwaitsPrefetch
  <2>3. IsFiniteSet(prefetching') /\ NetworkLen' <= NetworkLimit
    <3>1. IsFiniteSet(prefetching) /\ IsFiniteSet(fetchingFinal)
      BY <1>0 DEF NetworkFinite
    <3>2. IsFiniteSet(prefetching') /\ Cardinality(prefetching') <= Cardinality(prefetching)
      BY <1>3, <3>1, FS_Subset
    <3>3. /\ Cardinality(prefetching') \in Nat
          /\ Cardinality(prefetching) \in Nat /\ Cardinality(fetchingFinal) \in Nat
      BY <3>1, <3>2, FS_CardinalityType
    <3>4. NetworkLen <= NetworkLimit /\ NetworkLimit \in Nat
      BY <1>0, PrefetchAssumption DEF StagesBounded
    <3> QED
      BY <1>3, <3>2, <3>3, <3>4 DEF NetworkLen
  <2> QED
    BY <1>3, <1>4, <1>7, <1>8, <1>9, <2>1, <2>2, <2>3, EntryStepKeepsInv DEF fetchVars
<1> QED
  BY <1>10, <1>11

\* pop_queued starts a prefetch.
LEMMA FetchPrefetchKeepsInv ==
    ASSUME PipelineInv, FetchPrefetch
    PROVE  PipelineInv'
<1>0. /\ LoopTypes /\ PrefetchInv /\ PrefetchTypeOK /\ HintsWithin /\ InboxHolds
      /\ StagesBounded /\ NetworkFinite
  BY InvParts
<1>1. PICK i \in DOMAIN order : PopQueued(i)
  BY DEF FetchPrefetch
<1>2. pc = "fetch" /\ MayFetch /\ UNCHANGED <<loopVars, fetchVars, backVars, streamVars>>
  BY DEF FetchPrefetch
<1>3. PICK c : c = order[i]
  OBVIOUS
<1>4. /\ c \in Candidates /\ Writes(c, Popped(c)) /\ ~Popped(c).frozen
      /\ Popped(c).rel = entries[c].rel
  BY <1>0, <1>1, <1>3, PopQueuedWrites
<1>5. entries[c] \in Entry
  BY <1>0, <1>4, EntryFacts
<1>6. Popped(c).got = entries[c].got
  BY <1>5 DEF Popped, Entry
<1>7. PICK e : e = Popped(c)
  OBVIOUS
<1>8. /\ entries' = [entries EXCEPT ![c] = e] /\ Within(e.rel, c) /\ Within(e.got, c) /\ ~e.frozen
      /\ Within(entries[c].rel, c)
  BY <1>0, <1>4, <1>6, <1>7 DEF Writes, HintsWithin
<1>9. PICK job : job = [cand |-> c, rec |-> entries[c].rel]
  OBVIOUS
<1>10. prefetching' = prefetching \cup {job} /\ UNCHANGED seen /\ entries[c].stage = "queued"
  BY <1>1, <1>3, <1>9 DEF PopQueued
<1>11. job.cand = c /\ Within(job.rec, c)
  BY <1>8, <1>9
<1>12. HintsWithin' /\ entries'[c] = e /\ \A d \in Candidates : d # c => entries'[d] = entries[d]
  BY <1>4, <1>8, <1>10, <1>11, HintsStep
<1>13. \A d \in Candidates : AwaitsPrefetch(d)' <=> AwaitsPrefetch(d)
  BY <1>8, <1>10, <1>12 DEF AwaitsPrefetch
<1>14. PrefetchInv'
  BY <1>0, <1>1, PopKeepsInv
<1>15. LoopTypes' /\ InboxHolds' /\ \A d : InInbox(d)' <=> InInbox(d)
  BY <1>0, <1>2 DEF loopVars, LoopTypes, InboxHolds, InInbox
<1>16. IsFiniteSet(prefetching') /\ NetworkLen' <= NetworkLimit
  <2>1. IsFiniteSet(prefetching) /\ IsFiniteSet(fetchingFinal)
    BY <1>0 DEF NetworkFinite
  <2>2. IsFiniteSet(prefetching') /\ Cardinality(prefetching') <= Cardinality(prefetching) + 1
    BY <1>10, <2>1, OneMore
  <2>3. /\ Cardinality(prefetching') \in Nat
        /\ Cardinality(prefetching) \in Nat /\ Cardinality(fetchingFinal) \in Nat
    BY <2>1, <2>2, FS_CardinalityType
  <2>4. NetworkLen < NetworkLimit /\ NetworkLimit \in Nat /\ UNCHANGED fetchingFinal
    BY <1>2, PrefetchAssumption DEF MayFetch, fetchVars
  <2> QED
    BY <2>2, <2>3, <2>4 DEF NetworkLen
<1> QED
  BY <1>2, <1>10, <1>12, <1>13, <1>14, <1>15, <1>16, EntryStepKeepsInv DEF loopVars

\* The head of the finals queue starts its final fetch.
LEMMA FinalsTail ==
    ASSUME FetchTypes, finals # <<>>, finals' = Tail(finals), NEW c, c = Head(finals),
           \A i, j \in DOMAIN finals : finals[i] = finals[j] => i = j
    PROVE  /\ finals' \in Seq(Candidates) /\ c \in Candidates
           /\ InFinals(c) /\ ~InFinals(c)' /\ \A d : d # c => (InFinals(d)' <=> InFinals(d))
           /\ \A i, j \in DOMAIN finals' : finals'[i] = finals'[j] => i = j
<1>1. /\ finals \in Seq(Candidates) /\ Len(finals) \in Nat /\ Len(finals) # 0
      /\ DOMAIN finals = 1 .. Len(finals)
  BY DEF FetchTypes
<1>2. /\ finals' \in Seq(Candidates) /\ DOMAIN finals' = 1 .. Len(finals) - 1
      /\ \A i \in DOMAIN finals' : finals'[i] = finals[i + 1]
      /\ c = finals[1] /\ 1 \in DOMAIN finals
  BY <1>1
<1>3. \A i \in DOMAIN finals' : i + 1 \in DOMAIN finals /\ i + 1 # 1
  BY <1>1, <1>2
<1>4. InFinals(c) /\ ~InFinals(c)'
  BY <1>2, <1>3 DEF InFinals
<1>5. ASSUME NEW d, d # c PROVE InFinals(d)' <=> InFinals(d)
  <2>1. ASSUME InFinals(d) PROVE InFinals(d)'
    <3>1. PICK i \in DOMAIN finals : finals[i] = d
      BY <2>1 DEF InFinals
    <3>2. i - 1 \in DOMAIN finals' /\ (i - 1) + 1 = i
      BY <1>1, <1>2, <1>5, <3>1
    <3>3. finals'[i - 1] = d
      BY <1>2, <3>1, <3>2
    <3> QED
      BY <3>2, <3>3 DEF InFinals
  <2>2. ASSUME InFinals(d)' PROVE InFinals(d)
    BY <1>2, <1>3, <2>2 DEF InFinals
  <2> QED
    BY <2>1, <2>2
<1>6. \A i, j \in DOMAIN finals' : finals'[i] = finals'[j] => i = j
  <2> SUFFICES ASSUME NEW i \in DOMAIN finals', NEW j \in DOMAIN finals', finals'[i] = finals'[j]
               PROVE  i = j
    OBVIOUS
  <2>1. i + 1 = j + 1
    BY <1>2, <1>3
  <2> QED
    BY <1>1, <1>2, <2>1
<1> QED
  BY <1>1, <1>2, <1>4, <1>5, <1>6

\* A final job starts from the base left for it.
LEMMA FetchFinalKeepsInv ==
    ASSUME PipelineInv, FetchFinal
    PROVE  PipelineInv'
<1>0. /\ LoopTypes /\ FetchTypes /\ BackTypes /\ PrefetchInv
      /\ ChannelHolds /\ InboxHolds /\ OneHand /\ HintsWithin /\ BasesCover
      /\ EvidenceCoversFrozen /\ BackendMatches /\ StagesBounded /\ NetworkFinite /\ NoStateError
  BY InvParts
<1>1. PICK c : c = Head(finals)
  OBVIOUS
<1>2. PICK job : job = [cand |-> c, rec |-> bases[c]]
  OBVIOUS
<1>3. /\ pc = "fetch" /\ MayFetch /\ finals # <<>> /\ finals' = Tail(finals)
      /\ fetchingFinal' = fetchingFinal \cup {job}
      /\ bases' = [bases EXCEPT ![c] = NoRecord]
      /\ UNCHANGED <<loopVars, backVars, prefetchVars, streamVars>>
  BY <1>1, <1>2 DEF FetchFinal
<1>4. DistinctHands
  BY <1>0, HandParts
<1>5. /\ finals' \in Seq(Candidates) /\ c \in Candidates
      /\ InFinals(c) /\ ~InFinals(c)' /\ \A d : d # c => (InFinals(d)' <=> InFinals(d))
      /\ \A i, j \in DOMAIN finals' : finals'[i] = finals'[j] => i = j
  BY <1>0, <1>1, <1>3, <1>4, FinalsTail DEF DistinctHands
<1>6. ~BeingFetched(c) /\ ~AwaitsPrefetch(c) /\ ~InInbox(c) /\ c \in seen /\ stage[c] = "none"
  BY <1>0, <1>5 DEF OneHand, InFlight
<1>7. job.cand = c /\ job.rec = bases[c] /\ job \in Jobs
      /\ bases[c] \in Record /\ NoRecord \in Record
  BY <1>0, <1>2, <1>5, FinalFacts DEF FetchTypes, Jobs
<1>8. UNCHANGED <<pc, failure, streamOpen, pressure, inbox, stage, evidence, merged, size, used, untried,
                  entries, prefetching, seen, channel, frozen, outcome>>
  BY <1>3 DEF loopVars, backVars, prefetchVars, streamVars
<1>9. LoopTypes' /\ FetchTypes' /\ BackTypes'
  <2>1. LoopTypes'
    BY <1>0, <1>8 DEF LoopTypes
  <2>2. FetchTypes'
    BY <1>0, <1>3, <1>5, <1>7 DEF FetchTypes
  <2>3. BackTypes'
    BY <1>0, <1>8 DEF BackTypes
  <2> QED
    BY <2>1, <2>2, <2>3
<1>10. PrefetchInv' /\ ChannelHolds' /\ InboxHolds' /\ HintsWithin' /\ EvidenceCoversFrozen'
  BY <1>0, <1>3, <1>8, PrefetchFrame, ChannelFrame, HintsFrame, EvidenceFrame DEF InboxHolds
<1>11. BeingFetched(c)' /\ \A d : d # c => (BeingFetched(d)' <=> BeingFetched(d))
  BY <1>3, <1>7 DEF BeingFetched
<1>12. OneHand'
  <2>1. \A d \in Candidates : (AwaitsPrefetch(d)' <=> AwaitsPrefetch(d)) /\ (InInbox(d)' <=> InInbox(d))
    BY <1>8 DEF AwaitsPrefetch, InInbox
  <2>2. \A d \in Candidates : d # c => SameHand(d)
    BY <1>5, <1>8, <1>11, <2>1 DEF SameHand
  <2>3. HandOf(c)'
    BY <1>5, <1>6, <1>8, <1>11, <2>1 DEF HandOf, InFlight
  <2>4. DistinctHands'
    <3>1. \A j \in fetchingFinal : j.cand # c
      BY <1>6 DEF BeingFetched
    <3> QED
      BY <1>3, <1>4, <1>5, <1>7, <3>1 DEF DistinctHands
  <2> QED
    BY <1>0, <1>5, <2>2, <2>3, <2>4, HandsMove
<1>13. BasesCover'
  <2>1. bases'[c] = NoRecord /\ \A d \in Candidates : d # c => bases'[d] = bases[d]
    BY <1>0, <1>3, <1>5 DEF FetchTypes
  <2> QED
    BY <1>0, <1>3, <1>5, <1>7, <2>1 DEF BasesCover
<1>14. BackendMatches' /\ NoStateError' /\ DoneIsComplete'
  BY <1>0, <1>3, <1>8, DoneFrame DEF BackendMatches, In, NoStateError
<1>15. NetworkFinite' /\ NetworkLen' <= NetworkLimit
  <2>1. IsFiniteSet(prefetching) /\ IsFiniteSet(fetchingFinal)
    BY <1>0 DEF NetworkFinite
  <2>2. IsFiniteSet(fetchingFinal') /\ Cardinality(fetchingFinal') <= Cardinality(fetchingFinal) + 1
    BY <1>3, <2>1, OneMore
  <2>3. /\ Cardinality(fetchingFinal') \in Nat
        /\ Cardinality(prefetching) \in Nat /\ Cardinality(fetchingFinal) \in Nat
    BY <2>1, <2>2, FS_CardinalityType
  <2>4. NetworkLen < NetworkLimit /\ NetworkLimit \in Nat
    BY <1>3, PrefetchAssumption DEF MayFetch
  <2> QED
    BY <1>8, <2>1, <2>2, <2>3, <2>4 DEF NetworkLen, NetworkFinite
<1>16. StagesBounded'
  BY <1>0, <1>8, <1>15 DEF StagesBounded, In, InWriteSet
<1> QED
  BY <1>9, <1>10, <1>12, <1>13, <1>14, <1>15, <1>16, InvNext

\* A message leaves the channel; the candidates of a Frozen one are seen now
\* and in the inbox's hand.
LEMMA RecvMessageKeepsInv ==
    ASSUME PipelineInv, RecvMessage
    PROVE  PipelineInv'
<1>0. /\ LoopTypes /\ FetchTypes /\ BackTypes /\ PrefetchInv /\ PrefetchTypeOK
      /\ ChannelHolds /\ InboxHolds /\ OneHand /\ HintsWithin /\ BasesCover
      /\ EvidenceCoversFrozen /\ BackendMatches /\ StagesBounded /\ NetworkFinite /\ NoStateError
  BY InvParts
<1>1. PICK m : m = channel[1]
  OBVIOUS
<1>2. PICK F : F = FrozenAt(1)
  OBVIOUS
<1>3. F = IF m.kind = "Frozen" THEN DOMAIN m.recs ELSE {}
  BY <1>1, <1>2 DEF FrozenAt
<1>4. /\ pc = "select" /\ channel # <<>> /\ channel' = Tail(channel)
      /\ UNCHANGED <<fetchVars, backVars, order, entries, counters, prefetching>>
      /\ UNCHANGED <<hinted, frozen, outcome>>
  BY DEF RecvMessage, RecvEnabled, Receive
<1>5. channel[1] = Head(channel) /\ 1 \in DOMAIN channel /\ m \in Message
  <2>1. channel \in Seq(Message)
    BY <1>0 DEF ChannelHolds
  <2> QED
    BY <1>1, <1>4, <2>1
<1>6. F \cap seen = {} /\ F \subseteq frozen /\ F \subseteq Candidates
  BY <1>0, <1>2, <1>5 DEF ChannelHolds
<1>7. /\ pc' = "handle" /\ inbox' = m /\ seen' = seen \cup F
      /\ UNCHANGED <<failure, streamOpen, pressure>>
  <2>1. ~(m.kind = "Frozen" /\ DOMAIN m.recs \cap seen # {})
    BY <1>3, <1>6
  <2>2. /\ pc' = "handle" /\ inbox' = m
        /\ seen' = IF m.kind = "Frozen" THEN seen \cup DOMAIN m.recs ELSE seen
        /\ UNCHANGED <<failure, streamOpen, pressure>>
    BY <1>1, <1>5, <2>1 DEF RecvMessage
  <2> QED
    BY <1>3, <2>2
<1>8. ChannelHolds'
  BY <1>0, <1>2, <1>4, <1>7, ChannelTail
<1>9. UNCHANGED <<finals, bases, fetchingFinal, stage, evidence, merged, size, used, untried>>
  BY <1>4 DEF fetchVars, backVars
<1>10. LoopTypes' /\ FetchTypes' /\ BackTypes'
  BY <1>0, <1>7, <1>9 DEF LoopTypes, FetchTypes, BackTypes, PCs
<1>11. PrefetchInv'
  <2>1. seen \subseteq seen' /\ seen' \subseteq Candidates
    BY <1>0, <1>6, <1>7 DEF PrefetchTypeOK
  <2> QED
    BY <1>0, <1>4, <2>1, SameEntriesKeepInv
<1>12. InboxHolds'
  BY <1>5, <1>7 DEF InboxHolds
<1>13. OneHand'
  <2>1. \A c \in Candidates : /\ InFinals(c)' <=> InFinals(c)
                              /\ BeingFetched(c)' <=> BeingFetched(c)
                              /\ AwaitsPrefetch(c)' <=> AwaitsPrefetch(c)
    BY <1>4, <1>9 DEF InFinals, BeingFetched, AwaitsPrefetch
  <2>2. \A c \in Candidates : ~InInbox(c) /\ (InInbox(c)' <=> c \in F)
    BY <1>0, <1>3, <1>4, <1>7 DEF InInbox, InboxHolds, NoMessage
  <2>3. \A c \in Candidates : HandOf(c)'
    <3> SUFFICES ASSUME NEW c \in Candidates PROVE HandOf(c)'
      OBVIOUS
    <3>1. HandOf(c)
      BY <1>0, HandParts
    <3>2. CASE c \in F
      BY <1>6, <1>7, <1>9, <2>1, <2>2, <3>1, <3>2 DEF HandOf, InFlight
    <3>3. CASE c \notin F
      BY <1>7, <1>9, <2>1, <2>2, <3>1, <3>3 DEF HandOf, InFlight
    <3> QED
      BY <3>2, <3>3
  <2>4. DistinctHands'
    BY <1>0, <1>9, HandParts DEF DistinctHands
  <2>5. OneHand' <=> (\A c \in Candidates : HandOf(c)') /\ DistinctHands'
    BY DEF OneHand, HandOf, DistinctHands
  <2> QED
    BY <2>3, <2>4, <2>5
<1>14. HintsWithin' /\ BasesCover' /\ EvidenceCoversFrozen' /\ StagesBounded'
  BY <1>0, <1>4, <1>9, HintsFrame, BasesFrame, EvidenceFrame, BoundsFrame
<1>15. BackendMatches' /\ NetworkFinite' /\ NoStateError' /\ DoneIsComplete'
  BY <1>0, <1>4, <1>7, <1>9, DoneFrame DEF BackendMatches, In, NetworkFinite, NoStateError
<1> QED
  BY <1>8, <1>10, <1>11, <1>12, <1>13, <1>14, <1>15, InvNext

-----------------------------------------------------------------------------
(* The theorems *)

\* Nothing happens when nothing changes.
LEMMA PipelineStutter ==
    ASSUME PipelineInv, UNCHANGED vars
    PROVE  PipelineInv'
<1>0. /\ LoopTypes /\ PrefetchInv /\ BackTypes /\ BackendMatches /\ NoStateError /\ DoneIsComplete
  BY InvParts
<1>1. UNCHANGED <<loopVars, fetchVars, backVars, prefetchVars, streamVars>>
  BY DEF vars
<1>2. UNCHANGED <<pc, failure, streamOpen, pressure, inbox, stage, merged, untried, seen, outcome>>
  BY <1>1 DEF loopVars, backVars, prefetchVars, streamVars
<1>3. LoopTypes' /\ DoneIsComplete' /\ PrefetchInv'
  BY <1>0, <1>1, <1>2, PrefetchFrame DEF LoopTypes, DoneIsComplete, In
<1>4. failure' # "state" /\ untried' \subseteq Candidates
      /\ (pc' = "admit" => untried' \subseteq In({"admission_ready"}))
  BY <1>0, <1>2 DEF NoStateError, BackTypes, BackendMatches
<1> QED
  BY <1>1, <1>2, <1>3, <1>4, LoopStepKeepsInv DEF backVars, prefetchVars

\* Every step keeps the invariant.
LEMMA PipelineStep == ASSUME PipelineInv, [Next]_vars PROVE PipelineInv'
<1>1. CASE UNCHANGED vars
  BY <1>1, PipelineStutter
<1>2. CASE LoopBody
  <2>1. CASE LoopTop \/ JoinDedup \/ FetchDone \/ CompressDone \/ AdmitDone \/ WriteDone
    BY <2>1, LoopsKeepInv DEF Loops
  <2>2. CASE FetchFinal
    BY <2>2, FetchFinalKeepsInv
  <2>3. CASE FetchPrefetch
    BY <2>3, FetchPrefetchKeepsInv
  <2>4. ASSUME NEW c \in Candidates,
               StartCompression(c) \/ Admit(c) \/ StartWrite(c) \/ HandlePrefetch(c) \/ HandleFrozen(c)
        PROVE  PipelineInv'
    <3>1. CASE StartCompression(c) \/ Admit(c) \/ StartWrite(c)
      BY <3>1, MovesKeepInv DEF Moves
    <3>2. CASE HandlePrefetch(c)
      BY <3>2, HandlePrefetchKeepsInv
    <3>3. CASE HandleFrozen(c)
      BY <3>3, HandleFrozenKeepsInv
    <3> QED
      BY <2>4, <3>1, <3>2, <3>3
  <2> QED
    BY <1>2, <2>1, <2>2, <2>3, <2>4 DEF LoopBody
<1>3. CASE Recv
  BY <1>3, RecvMessageKeepsInv, LoopsKeepInv DEF Recv, Loops
<1>4. CASE JoinCpu
  BY <1>4, MovesKeepInv, LoopsKeepInv DEF JoinCpu, Moves, Loops
<1>5. CASE JoinNetwork
  BY <1>5, JoinPrefetchKeepsInv, JoinFinalKeepsInv DEF JoinNetwork
<1>6. CASE JoinWrite
  BY <1>6, MovesKeepInv DEF JoinWrite, Moves
<1>7. CASE Telemetry
  BY <1>7, LoopsKeepInv DEF Loops
<1>8. CASE \E c \in Candidates : WriterThread(c)
  BY <1>8, MovesKeepInv DEF Moves
<1>9. CASE Dedup \/ DedupFails
  BY <1>9, DedupKeepsInv
<1>10. CASE Returned
  BY <1>10, PipelineStutter DEF Returned
<1> QED
  BY <1>1, <1>2, <1>3, <1>4, <1>5, <1>6, <1>7, <1>8, <1>9, <1>10 DEF Next

\* The inductive invariant of process_candidates.
THEOREM PipelineInvariant == Spec => []PipelineInv
<1>1. Init => PipelineInv
  BY PipelineInit
<1>2. PipelineInv /\ [Next]_vars => PipelineInv'
  BY PipelineStep
<1> QED
  BY <1>1, <1>2, PTL DEF Spec

\* The types of the loop's state.
THEOREM PipelineTypes == Spec => []TypeOK
<1>1. PipelineInv => TypeOK
  BY DEF PipelineInv
<1> QED
  BY <1>1, PipelineInvariant, PTL

\* No order of hints, freezes, fetch completions and compressions reaches an
\* internal error of the loop.
THEOREM PipelineNoStateError == Spec => []NoStateError
<1>1. PipelineInv => NoStateError
  BY DEF PipelineInv
<1> QED
  BY <1>1, PipelineInvariant, PTL

\* Whatever produced it, the evidence an analysis is queued with is for the
\* frozen seeds and covers the frozen selection; a failure is a final one.
THEOREM PipelineEvidence == Spec => []EvidenceCoversFrozen
<1>1. PipelineInv => EvidenceCoversFrozen
  BY DEF PipelineInv
<1> QED
  BY <1>1, PipelineInvariant, PTL

\* A frozen candidate is never dropped and a base never outlives its fetch.
THEOREM PipelineFrozenNeverLost == Spec => []FrozenNeverLost
<1>1. PipelineInv => FrozenNeverLost
  <2> SUFFICES ASSUME PipelineInv PROVE FrozenNeverLost
    OBVIOUS
  <2>1. OneHand /\ BasesCover /\ seen \subseteq Candidates
    BY InvParts DEF PrefetchTypeOK
  <2> QED
    BY <2>1 DEF FrozenNeverLost, OneHand, BasesCover
<1> QED
  BY <1>1, PipelineInvariant, PTL

\* process_candidates returns Ok only with every candidate merged, written
\* and indexed.
THEOREM PipelineDoneIsComplete == Spec => []DoneIsComplete
<1>1. PipelineInv => DoneIsComplete
  BY DEF PipelineInv
<1> QED
  BY <1>1, PipelineInvariant, PTL

\* The byte budget is exact and every stage stays within its capacity.
THEOREM PipelineStagesBounded == Spec => []StagesBounded
<1>1. PipelineInv => StagesBounded
  BY DEF PipelineInv
<1> QED
  BY <1>1, PipelineInvariant, PTL

-----------------------------------------------------------------------------
(* One analysis per candidate *)

\* The step that AnalysedOnce allows.
FirstAnalysis ==
    \A c \in Candidates :
        stage[c] # stage'[c] /\ stage'[c] = "analysing" => stage[c] = "none"

\* A step that writes one stage keeps to it when it writes another stage than
\* "analysing" or starts from "none".
LEMMA OneStageWritten ==
    ASSUME BackTypes, NEW c \in Candidates, NEW s, stage' = [stage EXCEPT ![c] = s],
           s = "analysing" => stage[c] = "none"
    PROVE  FirstAnalysis
BY DEF FirstAnalysis, BackTypes

\* No stage moves: nothing is analysed again.
LEMMA StageUntouched == ASSUME UNCHANGED stage PROVE FirstAnalysis
BY DEF FirstAnalysis

\* queue_candidate_analysis for a candidate whose stage is "none".
LEMMA QueueAnalysisFirst ==
    ASSUME BackTypes, NEW c \in Candidates, stage[c] = "none", NEW ev, NEW ACTION next,
           QueueAnalysis(c, ev, next)
    PROVE  FirstAnalysis
<1>1. stage' = [stage EXCEPT ![c] = "analysing"]
  BY DEF QueueAnalysis
<1> QED
  BY <1>1, OneStageWritten

\* Deciding a candidate is its first analysis.
LEMMA DecideFirst ==
    ASSUME BackTypes, NEW c \in Candidates, stage[c] = "none", NEW got, NEW ok, NEW ACTION next,
           Decide(c, got, ok, next)
    PROVE  FirstAnalysis
<1>1. CASE PrefetchCanFinalize(ok, got, Final(c))
  <2>1. QueueAnalysis(c, [rec |-> got, ok |-> ok, by |-> "Prefetch"], next)
    BY <1>1 DEF Decide
  <2> QED
    BY <2>1, QueueAnalysisFirst
<1>2. CASE ~PrefetchCanFinalize(ok, got, Final(c))
  BY <1>2, StageUntouched DEF Decide, backVars
<1> QED
  BY <1>1, <1>2

\* Every step analyses a candidate for the first time or not at all.
LEMMA StepsAnalyseOnce == ASSUME PipelineInv, [Next]_vars PROVE FirstAnalysis
<1>0. BackTypes /\ OneHand /\ FetchTypes /\ PrefetchTypeOK
  BY InvParts
<1>1. CASE \/ UNCHANGED vars \/ LoopTop \/ JoinDedup \/ FetchFinal \/ FetchPrefetch \/ FetchDone
           \/ CompressDone \/ AdmitDone \/ WriteDone \/ Recv \/ Telemetry
           \/ Dedup \/ DedupFails \/ Returned
  <2>1. UNCHANGED stage
    BY <1>1
       DEF vars, LoopTop, JoinDedup, FetchFinal, FetchPrefetch, FetchDone, CompressDone, AdmitDone,
           WriteDone, Recv, RecvMessage, RecvClosed, Telemetry, Dedup, DedupFails, Returned, backVars
  <2> QED
    BY <2>1, StageUntouched
<1>2. ASSUME NEW c \in Candidates,
             \/ StartCompression(c) \/ Admit(c) \/ StartWrite(c) \/ WriterThread(c)
             \/ AnalysisDone(c) \/ CompressionDone(c) \/ CompressionFailed(c) \/ JoinWriter(c)
      PROVE  FirstAnalysis
  <2>1. UNCHANGED stage \/ \E s \in Stages \ {"analysing"} : stage' = [stage EXCEPT ![c] = s]
    BY <1>2
       DEF StartCompression, Admit, StartWrite, WriterThread, AnalysisDone, CompressionDone,
           CompressionFailed, JoinWriter, backVars, Stages
  <2> QED
    BY <1>0, <2>1, StageUntouched, OneStageWritten
<1>3. ASSUME NEW c \in Candidates, HandlePrefetch(c) PROVE FirstAnalysis
  BY <1>3, StageUntouched DEF HandlePrefetch, backVars
<1>4. ASSUME NEW c \in Candidates, HandleFrozen(c) PROVE FirstAnalysis
  <2>1. InInbox(c)
    BY <1>4 DEF HandleFrozen, InInbox
  <2>2. stage[c] = "none"
    BY <1>0, <2>1 DEF OneHand, InFlight
  <2>3. CASE Decide(c, entries[c].got, entries[c].ok, NextInInbox(c))
    BY <1>0, <2>2, <2>3, DecideFirst
  <2>4. CASE UNCHANGED backVars
    BY <2>4, StageUntouched DEF backVars
  <2> QED
    BY <1>4, <2>3, <2>4 DEF HandleFrozen
<1>5. ASSUME NEW job \in prefetching, NEW succeeded \in BOOLEAN, JoinPrefetch(job, succeeded)
      PROVE  FirstAnalysis
  <2>1. PICK c : c = job.cand
    OBVIOUS
  <2>2. c \in Candidates /\ entries[c].stage = "active"
    BY <1>0, <1>5, <2>1 DEF PrefetchTypeOK, Jobs, JoinPrefetch, Finish
  <2>3. CASE entries[c].frozen
    <3>1. AwaitsPrefetch(c)
      BY <2>2, <2>3 DEF AwaitsPrefetch
    <3>2. stage[c] = "none"
      BY <1>0, <2>2, <3>1 DEF OneHand, InFlight
    <3>3. Decide(c, job.rec, succeeded, Goto("top"))
      BY <1>5, <2>1, <2>3 DEF JoinPrefetch
    <3> QED
      BY <1>0, <2>2, <3>2, <3>3, DecideFirst
  <2>4. CASE ~entries[c].frozen
    BY <1>5, <2>1, <2>4, StageUntouched DEF JoinPrefetch, backVars
  <2> QED
    BY <2>3, <2>4
<1>6. ASSUME NEW job \in fetchingFinal, NEW succeeded \in BOOLEAN, JoinFinal(job, succeeded)
      PROVE  FirstAnalysis
  <2>1. PICK c : c = job.cand
    OBVIOUS
  <2>2. c \in Candidates /\ BeingFetched(c)
    BY <1>0, <2>1 DEF FetchTypes, Jobs, BeingFetched
  <2>3. stage[c] = "none"
    BY <1>0, <2>2 DEF OneHand, InFlight
  <2>4. QueueAnalysis(c, [rec |-> FetchOrExtend(c, job.rec), ok |-> succeeded, by |-> "Final"],
                      Goto("top"))
    BY <1>6, <2>1 DEF JoinFinal
  <2> QED
    BY <1>0, <2>2, <2>3, <2>4, QueueAnalysisFirst
<1>7. CASE LoopBody
  BY <1>1, <1>2, <1>3, <1>4, <1>7 DEF LoopBody
<1>8. CASE JoinCpu \/ JoinWrite
  BY <1>2, <1>8 DEF JoinCpu, JoinWrite
<1>9. CASE JoinNetwork
  BY <1>5, <1>6, <1>9 DEF JoinNetwork
<1> QED
  BY <1>1, <1>2, <1>7, <1>8, <1>9 DEF Next

\* No candidate is analysed twice, whatever completes in whatever order.
THEOREM PipelineAnalysedOnce == Spec => AnalysedOnce
<1>1. PipelineInv /\ [Next]_vars => [FirstAnalysis]_vars
  BY StepsAnalyseOnce
<1>2. Spec => [][FirstAnalysis]_vars
  BY <1>1, PipelineInvariant, PTL DEF Spec
<1> QED
  BY <1>2 DEF AnalysedOnce, FirstAnalysis

=============================================================================
