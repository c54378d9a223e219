---------------------------- MODULE ProviderLane ----------------------------
(***************************************************************************)
(* One provider lane of analysis2's HTTP client (enrich/http.rs): the      *)
(* token bucket with its cool-down, the concurrency permits, the retry     *)
(* loop and the cache of successful responses.  Lanes share nothing but    *)
(* the cache directory, in which each has its own subdirectory.            *)
(*                                                                         *)
(* Time is counted in ticks and kept relative: what is left of a pause or  *)
(* of a sleep, and the age of the last refill.  A tick may pass between    *)
(* any two steps, also while somebody could already go on.                 *)
(***************************************************************************)
EXTENDS Integers, FiniteSets

CONSTANTS
    Requests,     \* concurrent callers of request_on_lane
    Identity,     \* Identity[r]: method, endpoint and body of the request
    File,         \* File[i]: cache file of identity i; a hash, so may collide
    Cacheable,    \* requests whose responses may be cached
    Retries,      \* retries after the first attempt
    Concurrency,  \* permits of the lane
    Burst,        \* max_burst
    Refill,       \* ticks per token (refill_interval)
    Initial,      \* tokens at the start
    Delays        \* ticks a backoff or a Retry-After may take

ASSUME LaneAssumption ==
    /\ Retries \in Nat /\ Concurrency \in Nat \ {0}
    /\ Burst \in Nat \ {0} /\ Refill \in Nat \ {0} /\ Initial \in 0 .. Burst
    /\ Delays \subseteq Nat \ {0}
    /\ Cacheable \subseteq Requests /\ IsFiniteSet(Requests)

VARIABLES
    tokens,    \* tokens of the bucket, in units of 1/Refill
    age,       \* ticks since last_refill
    cool,      \* ticks until cool_down_until, NoPause when it is None
    permits,   \* free permits of in_flight
    pc, sleep, attempt, answer,  \* per request
    cache,     \* file -> entry
    promised,  \* ticks for which some retried 429 has asked everybody to wait
    resumed,   \* ticks since the first grant after a pause, or NoPause
    granted    \* grants since then

bucket == <<tokens, age, cool>>
watch == <<promised, resumed, granted>>
vars == <<bucket, permits, pc, sleep, attempt, answer, cache, watch>>

NoPause == -1
Full == Burst * Refill
Least(a, b) == IF a <= b THEN a ELSE b
Most(a, b) == IF a >= b THEN a ELSE b

Identities == {Identity[r] : r \in Requests}
Files == {File[i] : i \in Identities}

\* An entry of the cache names the request it answers; an answer is what the
\* caller gets: for which request, and whether all of it succeeded.
NoEntry == [st |-> "none", id |-> "none"]
Torn == [st |-> "torn", id |-> "none"]
NoAnswer == [id |-> "none", full |-> FALSE]

Init ==
    /\ tokens = Initial * Refill /\ age = 0 /\ cool = NoPause
    /\ permits = Concurrency
    /\ pc = [r \in Requests |-> "start"]
    /\ sleep = [r \in Requests |-> 0]
    /\ attempt = [r \in Requests |-> 0]
    /\ answer = [r \in Requests |-> NoAnswer]
    /\ cache = [f \in Files |-> NoEntry]
    /\ promised = 0 /\ resumed = NoPause /\ granted = 0

Goto(r, where) == pc' = [pc EXCEPT ![r] = where]

-----------------------------------------------------------------------------
\* As Hit, trusting the hash.
HitByHash(r) == r \in Cacheable /\ cache[File[Identity[r]]].st = "ok"

\* SuccessResponseCache::load: an unreadable entry, or one of another request
\* with the same hash, is no hit.
Hit(r) ==
    LET entry == cache[File[Identity[r]]] IN
    r \in Cacheable /\ entry.st = "ok" /\ entry.id = Identity[r]

Lookup(r) ==
    /\ pc[r] = "start"
    /\ IF Hit(r)
       THEN /\ Goto(r, "done")
            /\ answer' = [answer EXCEPT ![r] =
                  [id |-> cache[File[Identity[r]]].id, full |-> TRUE]]
       ELSE Goto(r, "acquire") /\ UNCHANGED answer
    /\ UNCHANGED <<bucket, permits, sleep, attempt, cache, watch>>

-----------------------------------------------------------------------------
(***************************************************************************)
(* TokenBucketRateLimiter::acquire, one turn of its loop under the lock.   *)
(***************************************************************************)
Awake(r) == pc[r] = "acquire" /\ sleep[r] = 0

\* During a pause everybody sleeps until its end.
WaitPause(r) ==
    /\ Awake(r)
    /\ cool > 0
    /\ sleep' = [sleep EXCEPT ![r] = cool]
    /\ UNCHANGED <<bucket, permits, pc, attempt, answer, cache, watch>>

\* As GrantAfterPause, with the time of the pause still to be credited.
GrantAfterPauseRefilled(r) ==
    /\ Awake(r)
    /\ cool = 0
    /\ cool' = NoPause
    /\ tokens' = 0
    /\ Goto(r, "permit")
    /\ resumed' = 0 /\ granted' = 1
    /\ UNCHANGED <<age, permits, sleep, attempt, answer, cache, promised>>

\* The first caller after a pause takes its only token.
GrantAfterPause(r) ==
    /\ Awake(r)
    /\ cool = 0
    /\ cool' = NoPause
    /\ tokens' = 0
    /\ age' = 0
    /\ Goto(r, "permit")
    /\ resumed' = 0 /\ granted' = 1
    /\ UNCHANGED <<permits, sleep, attempt, answer, cache, promised>>

Refilled == Least(tokens + age, Full)

Grant(r) ==
    /\ Awake(r)
    /\ cool = NoPause
    /\ Refilled >= Refill
    /\ tokens' = Refilled - Refill
    /\ age' = 0
    /\ Goto(r, "permit")
    /\ granted' = IF resumed = NoPause THEN 0 ELSE granted + 1
    /\ UNCHANGED <<cool, permits, sleep, attempt, answer, cache, promised, resumed>>

WaitToken(r) ==
    /\ Awake(r)
    /\ cool = NoPause
    /\ Refilled < Refill
    /\ tokens' = Refilled
    /\ age' = 0
    /\ sleep' = [sleep EXCEPT ![r] = Refill - Refilled]
    /\ UNCHANGED <<cool, permits, pc, attempt, answer, cache, watch>>

\* As NoteRateLimited, replacing a longer pause.
NoteRateLimitedLast(d) ==
    /\ cool' = d
    /\ tokens' = 0
    /\ age' = 0
    /\ promised' = Most(promised, d)
    /\ resumed' = NoPause /\ granted' = 0

\* note_rate_limited: a pause is extended, never shortened, and the bucket
\* drained.
NoteRateLimited(d) ==
    /\ cool' = Most(cool, d)
    /\ tokens' = 0
    /\ age' = 0
    /\ promised' = Most(promised, d)
    /\ resumed' = NoPause /\ granted' = 0

-----------------------------------------------------------------------------
(***************************************************************************)
(* request_on_lane and handle_request_error.                               *)
(***************************************************************************)
TakePermit(r) ==
    /\ pc[r] = "permit"
    /\ permits > 0
    /\ permits' = permits - 1
    /\ Goto(r, "sending")
    /\ UNCHANGED <<bucket, sleep, attempt, answer, cache, watch>>

\* As ReleasePermit, with the permit forgotten.
ReleasePermitNot == UNCHANGED permits

\* The permit is dropped before anything is done with the response.
ReleasePermit == permits' = permits + 1

\* A usable response: one without an item error is cached first.
Succeeds(r, full) ==
    /\ pc[r] = "sending"
    /\ ReleasePermit
    /\ answer' = [answer EXCEPT ![r] = [id |-> Identity[r], full |-> full]]
    /\ Goto(r, IF full /\ r \in Cacheable THEN "storing" ELSE "done")
    /\ UNCHANGED <<bucket, sleep, attempt, cache, watch>>

\* SuccessResponseCache::store: temporary file and rename; a failed write
\* stores nothing, a failed rename falls back to a copy that may be cut short.
Store(r) ==
    /\ pc[r] = "storing"
    /\ Goto(r, "done")
    /\ \E entry \in {[st |-> "ok", id |-> Identity[r]], Torn, cache[File[Identity[r]]]} :
          cache' = [cache EXCEPT ![File[Identity[r]]] = entry]
    /\ UNCHANGED <<bucket, permits, sleep, attempt, answer, watch>>

\* A retryable failure with attempts left; a 429 pauses the whole lane.
Retried(r, limited, d) ==
    /\ pc[r] = "sending"
    /\ attempt[r] < Retries
    /\ ReleasePermit
    /\ attempt' = [attempt EXCEPT ![r] = @ + 1]
    /\ sleep' = [sleep EXCEPT ![r] = d]
    /\ Goto(r, "acquire")
    /\ IF limited THEN NoteRateLimited(d) ELSE UNCHANGED <<bucket, watch>>
    /\ UNCHANGED <<answer, cache>>

\* A failure that is final (404 and the like) or comes with the last attempt.
GivesUp(r) ==
    /\ pc[r] = "sending"
    /\ ReleasePermit
    /\ Goto(r, "failed")
    /\ UNCHANGED <<bucket, sleep, attempt, answer, cache, watch>>

Tick ==
    /\ \E r \in Requests : pc[r] \notin {"done", "failed"}
    /\ age' = Least(age + 1, Full)
    /\ cool' = IF cool > 0 THEN cool - 1 ELSE cool
    /\ sleep' = [r \in Requests |-> IF sleep[r] > 0 THEN sleep[r] - 1 ELSE 0]
    /\ promised' = Most(promised - 1, 0)
    /\ resumed' = IF resumed \in 0 .. Full - 1 THEN resumed + 1 ELSE NoPause
    /\ granted' = IF resumed' = NoPause THEN 0 ELSE granted
    /\ UNCHANGED <<tokens, permits, pc, attempt, answer, cache>>

Acquire(r) == WaitPause(r) \/ GrantAfterPause(r) \/ Grant(r) \/ WaitToken(r)

Respond(r) ==
    \/ \E full \in BOOLEAN : Succeeds(r, full)
    \/ \E limited \in BOOLEAN, d \in Delays : Retried(r, limited, d)
    \/ GivesUp(r)

\* All requests have returned.
AllReturned ==
    /\ \A r \in Requests : pc[r] \in {"done", "failed"}
    /\ UNCHANGED vars

Step(r) == Lookup(r) \/ Acquire(r) \/ TakePermit(r) \/ Respond(r) \/ Store(r)

Next ==
    \/ \E r \in Requests : Step(r)
    \/ Tick
    \/ AllReturned

Spec == Init /\ [][Next]_vars

\* The clock goes on, the runtime polls every task that can run, and the
\* request timeout ends every request.  No order is assumed among the waiters
\* for a permit or a token.
Fairness == WF_vars(Tick) /\ \A r \in Requests : WF_vars(Step(r))

FairSpec == Spec /\ Fairness

-----------------------------------------------------------------------------
\* The bucket, the permits, the callers and the cache keep their types; in
\* particular the lane never has more free permits than it was given.
TypeOK ==
    /\ tokens \in 0 .. Full /\ age \in 0 .. Full
    /\ cool \in Int /\ cool >= NoPause
    /\ permits \in 0 .. Concurrency
    /\ pc \in [Requests -> {"start", "acquire", "permit", "sending", "storing", "done", "failed"}]
    /\ sleep \in [Requests -> Nat]
    /\ attempt \in [Requests -> 0 .. Retries]
    /\ answer \in [Requests -> [id: Identities \cup {"none"}, full: BOOLEAN]]
    /\ cache \in [Files -> [st: {"none", "torn", "ok"}, id: Identities \cup {"none"}]]
    /\ promised \in Nat /\ resumed \in NoPause .. Full /\ granted \in Nat

\* A pause lasts as long as the longest 429 that is retried asked for, whichever
\* came first and whoever was already waiting (note_rate_limited: "Extends an
\* existing cool-down if one is already active").  A 429 on the last attempt is
\* not noted.
PausesKept == promised > 0 => cool >= promised

\* After a pause the callers that slept through it do not come back as a
\* burst: n ticks after the first of them at most 1 + n/Refill were let
\* through ("resume with a single token (not a full burst)").
NoBurstAfterPause ==
    resumed # NoPause => granted <= 1 + (resumed \div Refill)

\* A caller gets the response to its own request, also when another request
\* hashes to the same cache file and stores between its lookup and its own
\* store; and what the cache serves was successful in full.
AnswersAreOwn ==
    /\ \A r \in Requests : pc[r] = "done" => answer[r].id = Identity[r]
    /\ \A f \in Files : cache[f].st = "ok" =>
          \E r \in Cacheable : /\ Identity[r] = cache[f].id /\ File[Identity[r]] = f
                               /\ \E q \in Requests : Identity[q] = Identity[r] /\ answer[q].full

\* Every request returns: neither permits nor tokens leak on any error path,
\* and attempts are finite.
EveryRequestEnds == <>(\A r \in Requests : pc[r] \in {"done", "failed"})
=============================================================================
