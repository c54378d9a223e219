------------------------- MODULE ProviderLaneProofs -------------------------
(***************************************************************************)
(* For any number of callers, permits and retries, any bucket and any      *)
(* delays: pauses are kept, a pause is not followed by a burst, and every   *)
(* caller gets its own answer.  One induction over LaneInv.                 *)
(***************************************************************************)
EXTENDS ProviderLane, FiniteSetTheorems, TLAPS

Sending == {r \in Requests : pc[r] = "sending"}

\* Every permit is free or held by a request that was sent.
PermitsHeld == permits + Cardinality(Sending) = Concurrency

\* Since the end of a pause no more was granted, in units of 1/Refill, than
\* its single token and the refill of the ticks since then; what is in the
\* bucket counts as granted.
RefillBudget ==
    resumed # NoPause => granted * Refill + tokens + age <= Refill + resumed

\* A request has no answer before it is sent, and its own when it is stored.
AnswersFollow ==
    \A r \in Requests :
        /\ pc[r] \in {"start", "acquire", "permit", "sending"} => answer[r] = NoAnswer
        /\ pc[r] = "storing" =>
              r \in Cacheable /\ answer[r].id = Identity[r] /\ answer[r].full

LaneInv ==
    /\ TypeOK
    /\ PermitsHeld
    /\ PausesKept
    /\ RefillBudget
    /\ AnswersFollow
    /\ AnswersAreOwn

-----------------------------------------------------------------------------
\* Adding an element to a finite set, or taking one out, moves its
\* cardinality by one exactly when membership changes.
LEMMA CardinalityMoves ==
    ASSUME NEW S, IsFiniteSet(S), NEW T, NEW c,
           \A d : d # c => (d \in T <=> d \in S)
    PROVE  Cardinality(T) = Cardinality(S) - (IF c \in S THEN 1 ELSE 0)
                                           + (IF c \in T THEN 1 ELSE 0)
<1>1. /\ c \in S /\ c \notin T => T = S \ {c}
      /\ c \notin S /\ c \in T => T = S \cup {c}
      /\ (c \in S <=> c \in T) => T = S
  OBVIOUS
<1> QED
  BY <1>1, FS_AddElement, FS_RemoveElement, FS_CardinalityType

-----------------------------------------------------------------------------
\* The size of the bucket.
LEMMA FullType == Full \in Nat /\ Full > 0 /\ Initial * Refill \in 0 .. Full
<1>1. Burst \in Nat /\ Refill \in Nat /\ Initial \in Nat /\ Burst > 0 /\ Refill > 0
      /\ Initial <= Burst
  BY LaneAssumption
<1>2. Burst * Refill \in Nat /\ Initial * Refill \in Nat
  BY <1>1
<1>3. Burst * Refill > 0
  BY <1>1
<1>4. Initial * Refill <= Burst * Refill
  BY <1>1
<1> QED
  BY <1>2, <1>3, <1>4 DEF Full

LEMMA SendingFinite == IsFiniteSet(Sending) /\ Cardinality(Sending) \in Nat
<1>1. Sending \subseteq Requests /\ IsFiniteSet(Requests)
  BY LaneAssumption DEF Sending
<1> QED
  BY <1>1, FS_Subset, FS_CardinalityType

\* A step of one request to another place moves the number of sent requests
\* by what this request contributes.
LEMMA SendingMoves ==
    ASSUME TypeOK, NEW r \in Requests, NEW w, Goto(r, w)
    PROVE  /\ Cardinality(Sending') =
                  Cardinality(Sending) - (IF pc[r] = "sending" THEN 1 ELSE 0)
                                       + (IF w = "sending" THEN 1 ELSE 0)
           /\ \A q \in Requests : pc'[q] = IF q = r THEN w ELSE pc[q]
<1>1. \A q \in Requests : pc'[q] = IF q = r THEN w ELSE pc[q]
  BY DEF Goto, TypeOK
<1>2. \A q : q # r => (q \in Sending' <=> q \in Sending)
  BY <1>1 DEF Sending
<1>3. (r \in Sending <=> pc[r] = "sending") /\ (r \in Sending' <=> w = "sending")
  BY <1>1 DEF Sending
<1>4. Cardinality(Sending') = Cardinality(Sending) - (IF r \in Sending THEN 1 ELSE 0)
                                                   + (IF r \in Sending' THEN 1 ELSE 0)
  BY <1>2, SendingFinite, CardinalityMoves
<1> QED
  BY <1>1, <1>3, <1>4

-----------------------------------------------------------------------------
LEMMA LaneInitially == Init => LaneInv
<1> SUFFICES ASSUME Init PROVE LaneInv
  OBVIOUS
<1>1. TypeOK
  BY LaneAssumption, FullType DEF Init, TypeOK, NoPause, NoAnswer, NoEntry
<1>2. PermitsHeld
  <2>1. Sending = {}
    BY DEF Init, Sending
  <2> QED
    BY <2>1, FS_EmptySet, LaneAssumption DEF Init, PermitsHeld
<1>3. PausesKept /\ RefillBudget
  BY DEF Init, PausesKept, RefillBudget
<1>4. AnswersFollow /\ AnswersAreOwn
  BY DEF Init, AnswersFollow, AnswersAreOwn, NoEntry
<1> QED
  BY <1>1, <1>2, <1>3, <1>4 DEF LaneInv


\* Unfolds a step of request r.
LEMMA StepCases ==
    ASSUME NEW r \in Requests, Step(r)
    PROVE  \/ Lookup(r) \/ WaitPause(r) \/ GrantAfterPause(r) \/ Grant(r) \/ WaitToken(r)
           \/ TakePermit(r)
           \/ \E full \in BOOLEAN : Succeeds(r, full)
           \/ \E limited \in BOOLEAN, d \in Delays : Retried(r, limited, d)
           \/ GivesUp(r) \/ Store(r)
BY DEF Step, Acquire, Respond

\* The bucket and its observers keep their types, and the two laws of a pause
\* hold, whatever caller takes a step.
BucketOK ==
    /\ tokens \in 0 .. Full /\ age \in 0 .. Full
    /\ cool \in Int /\ cool >= NoPause
    /\ promised \in Nat /\ resumed \in NoPause .. Full /\ granted \in Nat

LEMMA BucketSteps ==
    ASSUME TypeOK, PausesKept, RefillBudget, NEW r \in Requests, Step(r)
    PROVE  BucketOK' /\ PausesKept' /\ RefillBudget'
<1> USE FullType
<1>0. BucketOK /\ Refill \in Nat /\ Refill > 0
  BY LaneAssumption DEF TypeOK, BucketOK
<1>1. CASE UNCHANGED <<bucket, watch>>
  BY <1>0, <1>1 DEF bucket, watch, BucketOK, PausesKept, RefillBudget
<1>2. CASE GrantAfterPause(r)
  BY <1>0, <1>2 DEF GrantAfterPause, BucketOK, PausesKept, RefillBudget, NoPause
<1>3. CASE Grant(r)
  <2>1. Refilled \in 0 .. Full /\ Refilled <= tokens + age /\ Refilled >= Refill
    BY <1>0, <1>3 DEF Grant, Refilled, Least, BucketOK
  <2>2. /\ tokens' = Refilled - Refill /\ age' = 0 /\ cool' = cool
        /\ promised' = promised /\ resumed' = resumed
        /\ granted' = IF resumed = NoPause THEN 0 ELSE granted + 1
    BY <1>3 DEF Grant
  <2>3. BucketOK'
    BY <1>0, <2>1, <2>2 DEF BucketOK
  <2>4. PausesKept'
    BY <2>2 DEF PausesKept
  <2>5. ASSUME resumed # NoPause
        PROVE  granted' * Refill + tokens' + age' <= Refill + resumed
    <3>1. granted * Refill + tokens + age <= Refill + resumed
      BY <2>5 DEF RefillBudget
    <3>2. granted' * Refill = granted * Refill + Refill
      BY <1>0, <2>2, <2>5 DEF BucketOK
    <3>3. granted * Refill \in Int /\ resumed \in Int
      BY <1>0 DEF BucketOK, NoPause
    <3> QED
      BY <1>0, <2>1, <2>2, <3>1, <3>2, <3>3 DEF BucketOK
  <2> QED
    BY <2>2, <2>3, <2>4, <2>5 DEF RefillBudget
<1>4. CASE WaitToken(r)
  <2>1. Refilled \in 0 .. Full /\ Refilled <= tokens + age
    BY <1>0 DEF Refilled, Least, BucketOK
  <2>2. tokens' = Refilled /\ age' = 0 /\ cool' = cool
        /\ promised' = promised /\ resumed' = resumed /\ granted' = granted
    BY <1>4 DEF WaitToken, watch
  <2>3. granted * Refill \in Int /\ resumed \in Int
    BY <1>0 DEF BucketOK, NoPause
  <2> QED
    BY <1>0, <2>1, <2>2, <2>3 DEF BucketOK, PausesKept, RefillBudget
<1>5. ASSUME NEW d \in Delays, NoteRateLimited(d)
      PROVE  BucketOK' /\ PausesKept' /\ RefillBudget'
  <2>1. d \in Nat /\ d > 0
    BY LaneAssumption
  <2> QED
    BY <1>0, <1>5, <2>1 DEF NoteRateLimited, Most, BucketOK, PausesKept, RefillBudget, NoPause
<1>6. ASSUME NEW limited \in BOOLEAN, NEW d \in Delays, Retried(r, limited, d)
      PROVE  UNCHANGED <<bucket, watch>> \/ NoteRateLimited(d)
  BY <1>6 DEF Retried
<1> QED
  BY <1>1, <1>2, <1>3, <1>4, <1>5, <1>6, StepCases
  DEF Lookup, WaitPause, TakePermit, Succeeds, GivesUp, Store

LEMMA BucketTicks ==
    ASSUME TypeOK, PausesKept, RefillBudget, Tick
    PROVE  BucketOK' /\ PausesKept' /\ RefillBudget'
<1> USE FullType
<1>0. BucketOK /\ Refill \in Nat /\ Refill > 0
  BY LaneAssumption DEF TypeOK, BucketOK
<1>1. /\ age' = Least(age + 1, Full) /\ tokens' = tokens
      /\ cool' = IF cool > 0 THEN cool - 1 ELSE cool
      /\ promised' = Most(promised - 1, 0)
      /\ resumed' = IF resumed \in 0 .. Full - 1 THEN resumed + 1 ELSE NoPause
      /\ granted' = IF resumed' = NoPause THEN 0 ELSE granted
  BY DEF Tick
<1>2. BucketOK'
  BY <1>0, <1>1 DEF BucketOK, Least, Most, NoPause
<1>3. PausesKept'
  BY <1>0, <1>1 DEF BucketOK, PausesKept, Most, NoPause
<1>4. ASSUME resumed' # NoPause
      PROVE  granted' * Refill + tokens' + age' <= Refill + resumed'
  <2>1. resumed # NoPause /\ resumed' = resumed + 1 /\ granted' = granted /\ resumed \in Int
    BY <1>1, <1>4 DEF NoPause
  <2>2. granted * Refill + tokens + age <= Refill + resumed
    BY <2>1 DEF RefillBudget
  <2>3. age' <= age + 1 /\ age' \in Int
    BY <1>0, <1>1 DEF Least, BucketOK
  <2>4. granted * Refill \in Int
    BY <1>0 DEF BucketOK
  <2> QED
    BY <1>0, <1>1, <2>1, <2>2, <2>3, <2>4 DEF BucketOK
<1> QED
  BY <1>2, <1>3, <1>4 DEF RefillBudget


-----------------------------------------------------------------------------
\* The callers' part of TypeOK.
CallersOK ==
    /\ permits \in 0 .. Concurrency
    /\ pc \in [Requests -> {"start", "acquire", "permit", "sending", "storing", "done", "failed"}]
    /\ sleep \in [Requests -> Nat]
    /\ attempt \in [Requests -> 0 .. Retries]
    /\ answer \in [Requests -> [id: Identities \cup {"none"}, full: BOOLEAN]]
    /\ cache \in [Files -> [st: {"none", "torn", "ok"}, id: Identities \cup {"none"}]]

LEMMA TypeParts == TypeOK <=> BucketOK /\ CallersOK
BY DEF TypeOK, BucketOK, CallersOK

\* Permits are returned once on every path.
LEMMA PermitSteps ==
    ASSUME TypeOK, PermitsHeld, NEW r \in Requests, Step(r)
    PROVE  PermitsHeld' /\ permits' \in 0 .. Concurrency
<1>0. /\ permits \in 0 .. Concurrency /\ Concurrency \in Nat
      /\ Cardinality(Sending) \in Nat /\ permits + Cardinality(Sending) = Concurrency
  BY LaneAssumption, SendingFinite DEF TypeOK, PermitsHeld
<1>1. CASE UNCHANGED <<permits, pc>>
  BY <1>0, <1>1 DEF PermitsHeld, Sending
<1>2. ASSUME NEW w \in {"acquire", "permit", "done"}, Goto(r, w), UNCHANGED permits, pc[r] # "sending"
      PROVE  PermitsHeld' /\ permits' \in 0 .. Concurrency
  <2>1. Cardinality(Sending') = Cardinality(Sending)
    BY <1>0, <1>2, SendingMoves
  <2> QED
    BY <1>0, <1>2, <2>1 DEF PermitsHeld
<1>3. CASE TakePermit(r)
  <2>1. Cardinality(Sending') = Cardinality(Sending) + 1
    BY <1>0, <1>3, SendingMoves DEF TakePermit
  <2> QED
    BY <1>0, <1>3, <2>1 DEF TakePermit, PermitsHeld
<1>4. ASSUME NEW w \in {"acquire", "storing", "done", "failed"}, Goto(r, w), ReleasePermit,
             pc[r] = "sending"
      PROVE  PermitsHeld' /\ permits' \in 0 .. Concurrency
  <2>1. Cardinality(Sending') = Cardinality(Sending) - 1
    BY <1>0, <1>4, SendingMoves
  <2>2. r \in Sending
    BY <1>4 DEF Sending
  <2>3. Cardinality(Sending) > 0
    BY <2>2, SendingFinite, FS_EmptySet
  <2> QED
    BY <1>0, <1>4, <2>1, <2>3 DEF PermitsHeld, ReleasePermit
<1>5. CASE Lookup(r) \/ WaitPause(r) \/ GrantAfterPause(r) \/ Grant(r) \/ WaitToken(r) \/ Store(r)
  BY <1>1, <1>2, <1>5
  DEF Lookup, WaitPause, GrantAfterPause, Grant, WaitToken, Store, Awake
<1>6. ASSUME NEW full \in BOOLEAN, Succeeds(r, full)
      PROVE  PermitsHeld' /\ permits' \in 0 .. Concurrency
  BY <1>4, <1>6 DEF Succeeds
<1>7. ASSUME NEW limited \in BOOLEAN, NEW d \in Delays, Retried(r, limited, d)
      PROVE  PermitsHeld' /\ permits' \in 0 .. Concurrency
  BY <1>4, <1>7 DEF Retried
<1>8. CASE GivesUp(r)
  BY <1>4, <1>8 DEF GivesUp
<1> QED
  BY <1>3, <1>5, <1>6, <1>7, <1>8, StepCases

\* The rest of the callers' types.
LEMMA CallerSteps ==
    ASSUME TypeOK, PermitsHeld, NEW r \in Requests, Step(r)
    PROVE  CallersOK'
<1>0. /\ CallersOK /\ permits' \in 0 .. Concurrency /\ cool \in Int
      /\ Identity[r] \in Identities /\ File[Identity[r]] \in Files
  BY PermitSteps DEF TypeOK, CallersOK, Identities, Files
<1>1. CASE Lookup(r)
  <2>1. cache[File[Identity[r]]].id \in Identities \cup {"none"}
    BY <1>0 DEF CallersOK
  <2>2. CASE Hit(r)
    <3>1. /\ pc' = [pc EXCEPT ![r] = "done"]
          /\ answer' = [answer EXCEPT ![r] = [id |-> cache[File[Identity[r]]].id, full |-> TRUE]]
          /\ UNCHANGED <<permits, sleep, attempt, cache>>
      BY <1>1, <2>2 DEF Lookup, Goto
    <3>2. [id |-> cache[File[Identity[r]]].id, full |-> TRUE]
            \in [id: Identities \cup {"none"}, full: BOOLEAN]
      BY <2>1
    <3>3. answer' \in [Requests -> [id: Identities \cup {"none"}, full: BOOLEAN]]
      BY <1>0, <3>1, <3>2 DEF CallersOK
    <3> QED
      BY <1>0, <3>1, <3>3 DEF CallersOK
  <2>3. CASE ~Hit(r)
    BY <1>0, <1>1, <2>3 DEF Lookup, CallersOK, Goto
  <2> QED
    BY <2>2, <2>3
<1>2. CASE WaitPause(r)
  BY <1>0, <1>2 DEF WaitPause, CallersOK
<1>3. CASE GrantAfterPause(r) \/ Grant(r)
  BY <1>0, <1>3 DEF GrantAfterPause, Grant, CallersOK, Goto
<1>4. CASE WaitToken(r)
  <2>1. Refill - Refilled \in Nat
    BY <1>4, FullType, LaneAssumption DEF WaitToken, Refilled, Least, TypeOK
  <2> QED
    BY <1>0, <1>4, <2>1 DEF WaitToken, CallersOK
<1>5. CASE TakePermit(r) \/ GivesUp(r)
  BY <1>0, <1>5 DEF TakePermit, GivesUp, CallersOK, Goto
<1>6. ASSUME NEW full \in BOOLEAN, Succeeds(r, full) PROVE CallersOK'
  BY <1>0, <1>6 DEF Succeeds, CallersOK, Goto
<1>7. ASSUME NEW limited \in BOOLEAN, NEW d \in Delays, Retried(r, limited, d) PROVE CallersOK'
  BY <1>0, <1>7, LaneAssumption DEF Retried, CallersOK, Goto
<1>8. CASE Store(r)
  BY <1>0, <1>8 DEF Store, CallersOK, Goto, Torn
<1> QED
  BY <1>1, <1>2, <1>3, <1>4, <1>5, <1>6, <1>7, <1>8, StepCases

-----------------------------------------------------------------------------
\* The laws of answers and cache entries.
LEMMA AnswerSteps ==
    ASSUME TypeOK, AnswersFollow, AnswersAreOwn, NEW r \in Requests, Step(r)
    PROVE  AnswersFollow' /\ AnswersAreOwn'
<1>0. /\ CallersOK /\ Identity[r] \in Identities /\ File[Identity[r]] \in Files
      /\ Cacheable \subseteq Requests
  BY LaneAssumption, TypeParts DEF Identities, Files
<1>1. ASSUME NEW w \in {"acquire", "permit", "sending", "failed"}, Goto(r, w),
             pc[r] \in {"start", "acquire", "permit", "sending"}, UNCHANGED <<answer, cache>>
      PROVE  AnswersFollow' /\ AnswersAreOwn'
  BY <1>0, <1>1 DEF CallersOK, Goto, AnswersFollow, AnswersAreOwn
<1>2. CASE Lookup(r)
  <2>1. CASE Hit(r)
    <3>1. answer' = [answer EXCEPT ![r] = [id |-> Identity[r], full |-> TRUE]]
      BY <1>2, <2>1 DEF Lookup, Hit
    <3>2. pc' = [pc EXCEPT ![r] = "done"] /\ cache' = cache /\ answer[r] = NoAnswer
      BY <1>2, <2>1 DEF Lookup, Goto, AnswersFollow
    <3>3. \A q \in Requests : /\ q # r => answer'[q] = answer[q] /\ pc'[q] = pc[q]
                              /\ answer[q].full => answer'[q].full
      BY <1>0, <3>1, <3>2 DEF CallersOK, NoAnswer
    <3>4. answer'[r].id = Identity[r] /\ pc'[r] = "done"
      BY <1>0, <3>1, <3>2 DEF CallersOK
    <3> QED
      BY <3>2, <3>3, <3>4 DEF AnswersFollow, AnswersAreOwn
  <2> QED
    BY <1>1, <1>2, <2>1 DEF Lookup
<1>3. CASE WaitPause(r) \/ WaitToken(r)
  BY <1>3 DEF WaitPause, WaitToken, AnswersFollow, AnswersAreOwn
<1>4. CASE GrantAfterPause(r) \/ Grant(r) \/ TakePermit(r) \/ GivesUp(r)
  BY <1>1, <1>4 DEF GrantAfterPause, Grant, TakePermit, GivesUp, Awake
<1>5. ASSUME NEW full \in BOOLEAN, Succeeds(r, full) PROVE AnswersFollow' /\ AnswersAreOwn'
  <2>1. /\ answer' = [answer EXCEPT ![r] = [id |-> Identity[r], full |-> full]]
        /\ pc' = [pc EXCEPT ![r] = IF full /\ r \in Cacheable THEN "storing" ELSE "done"]
        /\ cache' = cache /\ answer[r] = NoAnswer
    BY <1>5 DEF Succeeds, Goto, AnswersFollow
  <2>2. \A q \in Requests : /\ q # r => answer'[q] = answer[q] /\ pc'[q] = pc[q]
                            /\ answer[q].full => answer'[q].full
    BY <1>0, <2>1 DEF CallersOK, NoAnswer
  <2>3. /\ answer'[r].id = Identity[r] /\ answer'[r].full = full
        /\ pc'[r] = IF full /\ r \in Cacheable THEN "storing" ELSE "done"
    BY <1>0, <2>1 DEF CallersOK
  <2> QED
    BY <2>1, <2>2, <2>3 DEF AnswersFollow, AnswersAreOwn
<1>6. ASSUME NEW limited \in BOOLEAN, NEW d \in Delays, Retried(r, limited, d)
      PROVE  AnswersFollow' /\ AnswersAreOwn'
  BY <1>1, <1>6 DEF Retried
<1>7. CASE Store(r)
  <2>1. /\ pc' = [pc EXCEPT ![r] = "done"] /\ answer' = answer
        /\ r \in Cacheable /\ answer[r].id = Identity[r] /\ answer[r].full
    BY <1>7 DEF Store, Goto, AnswersFollow
  <2>2. AnswersFollow' /\ \A q \in Requests : pc'[q] = "done" => answer'[q].id = Identity[q]
    BY <1>0, <2>1 DEF CallersOK, AnswersFollow, AnswersAreOwn
  <2>3. PICK entry \in {[st |-> "ok", id |-> Identity[r]], Torn, cache[File[Identity[r]]]} :
            cache' = [cache EXCEPT ![File[Identity[r]]] = entry]
    BY <1>7 DEF Store
  <2>4. ASSUME NEW f \in Files, cache'[f].st = "ok"
        PROVE  cache'[f] = cache[f] \/ (f = File[Identity[r]] /\ cache'[f].id = Identity[r])
    BY <1>0, <2>3, <2>4 DEF CallersOK, Torn
  <2>5. ASSUME NEW f \in Files, cache'[f].st = "ok"
        PROVE  \E p \in Cacheable :
                  /\ Identity[p] = cache'[f].id /\ File[Identity[p]] = f
                  /\ \E q \in Requests : Identity[q] = Identity[p] /\ answer'[q].full
    <3>1. CASE cache'[f] = cache[f]
      BY <2>1, <2>5, <3>1 DEF AnswersAreOwn
    <3>2. CASE f = File[Identity[r]] /\ cache'[f].id = Identity[r]
      BY <2>1, <3>2
    <3> QED
      BY <2>4, <2>5, <3>1, <3>2
  <2> QED
    BY <2>2, <2>5 DEF AnswersAreOwn
<1> QED
  BY <1>2, <1>3, <1>4, <1>5, <1>6, <1>7, StepCases

-----------------------------------------------------------------------------
\* The whole step.
LEMMA LanePreserved == LaneInv /\ [Next]_vars => LaneInv'
<1> SUFFICES ASSUME LaneInv, [Next]_vars PROVE LaneInv'
  OBVIOUS
<1> USE DEF LaneInv
<1>1. ASSUME NEW r \in Requests, Step(r) PROVE LaneInv'
  <2>1. TypeOK'
    BY <1>1, BucketSteps, CallerSteps DEF TypeOK, BucketOK, CallersOK
  <2> QED
    BY <1>1, <2>1, BucketSteps, PermitSteps, AnswerSteps
<1>2. CASE Tick
  <2>1. CallersOK' /\ PermitsHeld'
    BY <1>2, TypeParts DEF Tick, CallersOK, PermitsHeld, Sending
  <2>2. TypeOK'
    BY <1>2, <2>1, BucketTicks DEF TypeOK, BucketOK, CallersOK
  <2>3. AnswersFollow' /\ AnswersAreOwn'
    BY <1>2 DEF Tick, AnswersFollow, AnswersAreOwn
  <2> QED
    BY <1>2, <2>1, <2>2, <2>3, BucketTicks
<1>3. CASE UNCHANGED vars
  BY <1>3 DEF vars, bucket, watch, TypeOK, PermitsHeld, Sending, PausesKept, RefillBudget,
              AnswersFollow, AnswersAreOwn
<1> QED
  BY <1>1, <1>2, <1>3 DEF Next, AllReturned

\* The inductive invariant holds in every reachable state of the lane.
THEOREM LaneInvariant == Spec => []LaneInv
BY LaneInitially, LanePreserved, PTL DEF Spec

\* The lane's state keeps its types: no path returns a permit it did not take.
THEOREM LaneTypes == Spec => []TypeOK
<1>1. LaneInv => TypeOK
  BY DEF LaneInv
<1> QED
  BY <1>1, LaneInvariant, PTL

\* note_rate_limited never shortens a pause that another 429 asked for, and
\* acquire does not end it early.
THEOREM PausesAreKept == Spec => []PausesKept
<1>1. LaneInv => PausesKept
  BY DEF LaneInv
<1> QED
  BY <1>1, LaneInvariant, PTL

\* After a pause acquire grants one token and then at the refill rate.
THEOREM PauseEndsWithoutBurst == Spec => []NoBurstAfterPause
<1>1. LaneInv => NoBurstAfterPause
  <2> SUFFICES ASSUME LaneInv, resumed # NoPause
               PROVE  granted <= 1 + (resumed \div Refill)
    BY DEF NoBurstAfterPause
  <2>1. /\ granted \in Nat /\ resumed \in Nat /\ tokens \in Nat /\ age \in Nat
        /\ Refill \in Nat /\ Refill > 0
    BY LaneAssumption, FullType DEF LaneInv, TypeOK, NoPause
  <2>2. granted * Refill + tokens + age <= Refill + resumed
    BY DEF LaneInv, RefillBudget
  <2> DEFINE q == resumed \div Refill
  <2>3. q \in Int /\ resumed < (q + 1) * Refill
    BY <2>1
  <2>4. granted * Refill \in Int /\ (q + 1) * Refill \in Int
    BY <2>1, <2>3
  <2>5. granted * Refill < (q + 2) * Refill
    <3>1. (q + 2) * Refill = (q + 1) * Refill + Refill
      BY <2>1, <2>3
    <3> QED
      BY <2>1, <2>2, <2>3, <2>4, <3>1
  <2>6. granted < q + 2
    <3> HIDE DEF q
    <3> QED
      BY <2>1, <2>3, <2>5
  <2> QED
    BY <2>1, <2>3, <2>6
<1> QED
  BY <1>1, LaneInvariant, PTL

\* request_on_lane returns the response to the caller's own request, and the
\* cache serves only responses that were successful in full.
THEOREM AnswersBelong == Spec => []AnswersAreOwn
<1>1. LaneInv => AnswersAreOwn
  BY DEF LaneInv
<1> QED
  BY <1>1, LaneInvariant, PTL
=============================================================================
