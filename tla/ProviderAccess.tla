--------------------------- MODULE ProviderAccess ---------------------------
(***************************************************************************)
(* How the analysis crate's candidate fetches share the providers: the     *)
(* fetch slots per chain family (enrich/fetch.rs), the HTTP clients with   *)
(* their concurrency permits, rate gate and retries (api/http.rs), and the *)
(* price oracle with one lock per chain and one cache (api/price.rs).      *)
(*                                                                         *)
(* A candidate's fetch makes a request on the rate-limited client that all *)
(* families share ("other"), whose failure it survives, and then prices    *)
(* its events through the Alchemy client.  The other evidence requests of  *)
(* a fetch use the same clients in the same way and are left out.  Delays  *)
(* are not measured: a backoff or a refill interval ends at any time.      *)
(***************************************************************************)
EXTENDS Integers, Sequences, FiniteSets

CONSTANTS
    Candidates,
    Family,       \* Family[c]: "evm" or "solana"
    Chain,        \* Chain[c]: chain whose native price the candidate needs
    Days,         \* Days[c]: day buckets of its events without a USD value
    Slots,        \* evm_permits and solana_permits
    Concurrency,  \* permits of each client, and the burst of the rate gate
    Retries,      \* provider_retry_count
    Span          \* widest window of one price request, in days

Families == {"evm", "solana"}
Clients == {"other", "alchemy"}
Chains == {Chain[c] : c \in Candidates}
AllDays == UNION {Days[c] : c \in Candidates}
Nobody == 0

ASSUME AccessAssumption ==
    /\ Candidates \subseteq Nat \ {Nobody} /\ IsFiniteSet(Candidates)
    /\ \A c \in Candidates :
          Family[c] \in Families /\ Days[c] \subseteq Nat /\ IsFiniteSet(Days[c])
    /\ Slots \in Nat \ {0} /\ Concurrency \in Nat \ {0}
    /\ Retries \in Nat /\ Span \in Nat

VARIABLES
    slots,      \* free fetch slots per family
    permits,    \* free permits per client
    tokens,     \* tokens of the rate gate of "other"
    refiller,   \* "waiting" for its tick, or about to "add" a token
    pc,         \* where the fetch of each candidate is
    http,       \* where its current request is
    attempt,    \* attempts its request has made before this one
    holder,     \* chain -> candidate that holds its price lock, or Nobody
    cached,     \* chain -> days with a price
    windows,    \* price requests the candidate has still to make
    missing,    \* days it found missing under the lock and has not requested
    priced      \* candidates whose events got their prices

gate == <<tokens, refiller>>
prices == <<holder, cached, windows, missing, priced>>
vars == <<slots, permits, gate, pc, http, attempt, prices>>

Init ==
    /\ slots = [f \in Families |-> Slots]
    /\ permits = [k \in Clients |-> Concurrency]
    /\ tokens = Concurrency
    /\ refiller = "waiting"
    /\ pc = [c \in Candidates |-> "start"]
    /\ http = [c \in Candidates |-> "idle"]
    /\ attempt = [c \in Candidates |-> 0]
    /\ holder = [n \in Chains |-> Nobody]
    /\ cached = [n \in Chains |-> {}]
    /\ windows = [c \in Candidates |-> <<>>]
    /\ missing = [c \in Candidates |-> {}]
    /\ priced = {}

Goto(c, where) == pc' = [pc EXCEPT ![c] = where]
Http(c, where) == http' = [http EXCEPT ![c] = where]

-----------------------------------------------------------------------------
(***************************************************************************)
(* ProviderHttpClient::request.  The client of a request follows from what *)
(* the candidate is doing.                                                 *)
(***************************************************************************)
Client(c) == IF pc[c] = "market" THEN "other" ELSE "alchemy"

\* Only "other" has a rate gate here; it takes a token for every attempt.
TakeToken(c) ==
    /\ http[c] = "token"
    /\ Client(c) = "other" => tokens > 0
    /\ tokens' = IF Client(c) = "other" THEN tokens - 1 ELSE tokens
    /\ Http(c, "permit")
    /\ UNCHANGED <<slots, permits, refiller, pc, attempt, prices>>

TakePermit(c) ==
    /\ http[c] = "permit"
    /\ permits[Client(c)] > 0
    /\ permits' = [permits EXCEPT ![Client(c)] = @ - 1]
    /\ Http(c, "sending")
    /\ UNCHANGED <<slots, gate, pc, attempt, prices>>

\* The permit is returned before the response is decoded or the error slept on.
ReleasePermit(c) == permits' = [permits EXCEPT ![Client(c)] = @ + 1]

\* Another attempt after a backoff, or the last error.
RetryOrFail(c) ==
    IF attempt[c] < Retries
    THEN Http(c, "backoff") /\ attempt' = [attempt EXCEPT ![c] = @ + 1]
    ELSE Http(c, "failed") /\ UNCHANGED attempt

Responds(c) ==
    /\ http[c] = "sending"
    /\ ReleasePermit(c)
    /\ \/ Http(c, "decode") /\ UNCHANGED attempt
       \/ RetryOrFail(c)                            \* transport, 429, 5xx
       \/ Http(c, "failed") /\ UNCHANGED attempt    \* not retryable
    /\ UNCHANGED <<slots, gate, pc, prices>>

\* The body is decoded on the CPU executor; JSON that does not parse and an
\* application error that is worth a retry count as failed attempts.
Decoded(c) ==
    /\ http[c] = "decode"
    /\ \/ Http(c, "succeeded") /\ UNCHANGED attempt
       \/ RetryOrFail(c)
    /\ UNCHANGED <<slots, permits, gate, pc, prices>>

BackoffOver(c) ==
    /\ http[c] = "backoff"
    /\ Http(c, "token")
    /\ UNCHANGED <<slots, permits, gate, pc, attempt, prices>>

\* As RefillTick, without the look at the gate.
RefillTickAlways ==
    /\ refiller = "waiting"
    /\ refiller' = "adding"
    /\ UNCHANGED <<slots, permits, tokens, pc, http, attempt, prices>>

\* The refill task reads available_permits at its tick and adds one token in
\* a second step; acquirers may run in between.
RefillTick ==
    /\ refiller = "waiting"
    /\ tokens < Concurrency
    /\ refiller' = "adding"
    /\ UNCHANGED <<slots, permits, tokens, pc, http, attempt, prices>>

RefillAdd ==
    /\ refiller = "adding"
    /\ refiller' = "waiting"
    /\ tokens' = tokens + 1
    /\ UNCHANGED <<slots, permits, pc, http, attempt, prices>>

-----------------------------------------------------------------------------
(***************************************************************************)
(* ApiClients::fetch_candidate.                                            *)
(***************************************************************************)
TakeSlot(c) ==
    /\ pc[c] = "start"
    /\ slots[Family[c]] > 0
    /\ slots' = [slots EXCEPT ![Family[c]] = @ - 1]
    /\ Goto(c, "market")
    /\ Http(c, "token")
    /\ UNCHANGED <<permits, gate, attempt, prices>>

Ended(c) == http[c] \in {"succeeded", "failed"}

\* A failed market request becomes a quality mark of the bundle.
MarketDone(c) ==
    /\ pc[c] = "market"
    /\ Ended(c)
    /\ Goto(c, IF Days[c] = {} THEN "return" ELSE "lock")
    /\ Http(c, "idle")
    /\ attempt' = [attempt EXCEPT ![c] = 0]
    /\ UNCHANGED <<slots, permits, gate, prices>>

Return(c) ==
    /\ pc[c] = "return"
    /\ Goto(c, "done")
    /\ slots' = [slots EXCEPT ![Family[c]] = @ + 1]
    /\ UNCHANGED <<permits, gate, http, attempt, prices>>

-----------------------------------------------------------------------------
(***************************************************************************)
(* PriceOracle::ensure_days.                                               *)
(***************************************************************************)
First(S) == CHOOSE d \in S : \A e \in S : d <= e
Last(S) == CHOOSE d \in S : \A e \in S : d >= e

\* As BoundedDayWindows, with windows a day too short.
BoundedDayWindowsShort(S) ==
    LET f[T \in SUBSET S] ==
            IF T = {} THEN <<>>
            ELSE LET window == {d \in T : d = First(T) \/ d - First(T) < Span}
                 IN  <<<<First(T), Last(window)>>>> \o f[T \ window]
    IN  f[S]

\* bounded_day_windows: greedily, each window starts at the first day left
\* and ends at the last missing day within Span.
BoundedDayWindows(S) ==
    LET f[T \in SUBSET S] ==
            IF T = {} THEN <<>>
            ELSE LET window == {d \in T : d - First(T) <= Span}
                 IN  <<<<First(T), Last(window)>>>> \o f[T \ window]
    IN  f[S]

\* As TakeLock, without waiting for the holder.
TakeLockAnyway(c) ==
    /\ pc[c] = "lock"
    /\ holder' = [holder EXCEPT ![Chain[c]] = c]
    /\ Goto(c, "plan")
    /\ UNCHANGED <<slots, permits, gate, http, attempt, cached, windows, missing, priced>>

\* The lock of the chain comes first, then the look at the cache.
TakeLock(c) ==
    /\ pc[c] = "lock"
    /\ holder[Chain[c]] = Nobody
    /\ holder' = [holder EXCEPT ![Chain[c]] = c]
    /\ Goto(c, "plan")
    /\ UNCHANGED <<slots, permits, gate, http, attempt, cached, windows, missing, priced>>

Plan(c) ==
    LET lacking == Days[c] \ cached[Chain[c]] IN
    /\ pc[c] = "plan"
    /\ missing' = [missing EXCEPT ![c] = lacking]
    /\ windows' = [windows EXCEPT ![c] = BoundedDayWindows(lacking)]
    /\ Goto(c, "check")
    /\ UNCHANGED <<slots, permits, gate, http, attempt, holder, cached, priced>>

\* Where a candidate is while a price request is under way.
Requesting == {"prices", "instead", "extend"}

\* One request per window; the lock is kept.
RequestWindow(c) ==
    /\ pc[c] = "check"
    /\ windows[c] # <<>>
    /\ Goto(c, "prices")
    /\ Http(c, "token")
    /\ attempt' = [attempt EXCEPT ![c] = 0]
    /\ UNCHANGED <<slots, permits, gate, prices>>

\* fetch_range on Polygon asks again under the older symbol: in place of a
\* request that failed or whose payload is unusable, or to extend one that
\* omitted days.
FallBack(c) ==
    /\ pc[c] = "prices"
    /\ Chain[c] = "polygon"
    /\ \/ Ended(c) /\ Goto(c, "instead")
       \/ http[c] = "succeeded" /\ Goto(c, "extend")
    /\ Http(c, "token")
    /\ attempt' = [attempt EXCEPT ![c] = 0]
    /\ UNCHANGED <<slots, permits, gate, prices>>

\* The days of the window under way that some candidate needs.
Window(c) == (Head(windows[c])[1] .. Head(windows[c])[2]) \cap AllDays

\* A response brings prices for some days of its window, wanted or not; what
\* extends another response may fail.  That it brings no other days is assumed
\* of the provider: fetch_symbol_range does not filter them.
WindowArrives(c, got) ==
    /\ \/ /\ pc[c] = "prices" /\ http[c] = "succeeded"
          /\ Chain[c] = "polygon" => Window(c) \subseteq got
       \/ pc[c] = "instead" /\ http[c] = "succeeded"
       \/ pc[c] = "extend" /\ Ended(c)
    /\ got \subseteq Window(c)
    /\ cached' = [cached EXCEPT ![Chain[c]] = @ \cup got]
    /\ windows' = [windows EXCEPT ![c] = Tail(@)]
    /\ missing' = [missing EXCEPT ![c] = @ \ Window(c)]
    /\ Goto(c, "check")
    /\ Http(c, "idle")
    /\ UNCHANGED <<slots, permits, gate, attempt, holder, priced>>

\* As Unlock, keeping the lock.
UnlockNot(c) == UNCHANGED holder

Unlock(c) == holder' = [holder EXCEPT ![Chain[c]] = Nobody]

\* A failed window request, or a payload without usable data, ends
\* ensure_days and enrich_events with the error; the guard is dropped on the
\* way.
WindowFails(c) ==
    /\ pc[c] = "instead" \/ (pc[c] = "prices" /\ Chain[c] # "polygon")
    /\ Ended(c)
    /\ Unlock(c)
    /\ windows' = [windows EXCEPT ![c] = <<>>]
    /\ missing' = [missing EXCEPT ![c] = {}]
    /\ Goto(c, "return")
    /\ Http(c, "idle")
    /\ UNCHANGED <<slots, permits, gate, attempt, cached, priced>>

\* All windows are in: a day the provider omitted is an error.
Resolved(c) == Days[c] \subseteq cached[Chain[c]]

CheckDays(c) ==
    /\ pc[c] = "check"
    /\ windows[c] = <<>>
    /\ Unlock(c)
    /\ priced' = IF Resolved(c) THEN priced \cup {c} ELSE priced
    /\ Goto(c, "return")
    /\ UNCHANGED <<slots, permits, gate, http, attempt, cached, windows, missing>>

-----------------------------------------------------------------------------
Request(c) == TakeToken(c) \/ TakePermit(c) \/ Responds(c) \/ Decoded(c) \/ BackoffOver(c)

Fetch(c) ==
    \/ TakeSlot(c) \/ MarketDone(c) \/ Return(c)
    \/ TakeLock(c) \/ Plan(c) \/ RequestWindow(c) \/ FallBack(c)
    \/ \E got \in SUBSET AllDays : WindowArrives(c, got)
    \/ WindowFails(c) \/ CheckDays(c)

AllDone ==
    /\ \A c \in Candidates : pc[c] = "done"
    /\ UNCHANGED vars

Next ==
    \/ \E c \in Candidates : Request(c) \/ Fetch(c)
    \/ RefillTick
    \/ RefillAdd
    \/ AllDone

Spec == Init /\ [][Next]_vars

\* Every task that can run is polled, requests end by their timeout, and the
\* refill task keeps ticking.  No order among waiters is assumed.
Fairness ==
    /\ WF_vars(RefillTick \/ RefillAdd)
    /\ \A c \in Candidates : WF_vars(Request(c) \/ Fetch(c))

FairSpec == Spec /\ Fairness

-----------------------------------------------------------------------------
\* Slots, permits and tokens stay within what there is of them, and the rest
\* of the state keeps its types; WindowsAreFewest describes the windows.
TypeOK ==
    /\ slots \in [Families -> 0 .. Slots]
    /\ permits \in [Clients -> 0 .. Concurrency]
    /\ tokens \in 0 .. Concurrency /\ refiller \in {"waiting", "adding"}
    /\ pc \in [Candidates -> {"start", "market", "lock", "plan", "check",
                              "return", "done"} \cup Requesting]
    /\ http \in [Candidates -> {"idle", "token", "permit", "sending", "decode",
                                "backoff", "succeeded", "failed"}]
    /\ attempt \in [Candidates -> 0 .. Retries]
    /\ holder \in [Chains -> Candidates \cup {Nobody}]
    /\ cached \in [Chains -> SUBSET AllDays]
    /\ windows = [c \in Candidates |-> windows[c]]
    /\ missing \in [Candidates -> SUBSET AllDays]
    /\ priced \subseteq Candidates

\* The rate gate never holds more than its burst, although the refill task
\* looks at it and adds to it in two steps.
GateBounded ==
    /\ tokens <= Concurrency
    /\ refiller = "adding" => tokens < Concurrency

\* Candidates of a chain share its prices: nobody plans a window for a day the
\* cache already has, whoever fetched it, and only one of them fetches at a
\* time.  A window may pass over cached days between two missing ones.
PricesFetchedOnce ==
    \A c \in Candidates :
        pc[c] \in {"check"} \cup Requesting =>
            /\ missing[c] \cap cached[Chain[c]] = {}
            /\ \A d \in Candidates \ {c} :
                  Chain[d] = Chain[c] => pc[d] \notin {"plan", "check"} \cup Requesting

\* The windows left to request are as few as can cover the missing days, are
\* no wider than a request may be, and end in missing days.
Covers(starts, S) == \A d \in S : \E s \in starts : s <= d /\ d - s <= Span

WindowsAreFewest ==
    \A c \in Candidates :
        LET w == windows[c] IN
        /\ \A d \in missing[c] : \E i \in DOMAIN w : w[i][1] <= d /\ d <= w[i][2]
        /\ \A i \in DOMAIN w : w[i][2] - w[i][1] <= Span /\ {w[i][1], w[i][2]} \subseteq missing[c]
        /\ \A starts \in SUBSET missing[c] :
              Covers(starts, missing[c]) => Len(w) <= Cardinality(starts)

\* A candidate whose events were priced has a price for each of its days; and
\* the slots, permits, tokens and price locks held across requests never
\* leave everyone waiting: every fetch returns.
EveryFetchReturns ==
    <>(\A c \in Candidates : pc[c] = "done" /\ (c \in priced => Resolved(c)))
=============================================================================
