------------------------ MODULE ProviderAccessProofs ------------------------
(***************************************************************************)
(* For any candidates, chains, days, slots, permits and retries: slots,    *)
(* permits and rate tokens are neither lost nor invented, and the prices of *)
(* a chain are fetched by one candidate at a time, only once, and with the  *)
(* fewest requests.  One induction over AccessInv, one over WindowsHold.    *)
(***************************************************************************)
EXTENDS ProviderAccess, FiniteSetTheorems, TLAPS

\* Candidates that hold a slot of a family, and requests that hold a permit
\* of a client.
InSlot(f) == {c \in Candidates : Family[c] = f /\ pc[c] \notin {"start", "done"}}
OnWire(k) == {c \in Candidates : http[c] = "sending" /\ Client(c) = k}

\* Free and held slots and permits add up to what there is.
SlotsHeld == \A f \in Families : slots[f] + Cardinality(InSlot(f)) = Slots
PermitsHeld == \A k \in Clients : permits[k] + Cardinality(OnWire(k)) = Concurrency

\* A request is under way only where the fetch waits for one.
RequestsAwaited ==
    \A c \in Candidates : pc[c] \notin {"market"} \cup Requesting => http[c] = "idle"

\* Whoever plans, requests or checks prices holds the lock of its chain.
LockHeld ==
    \A c \in Candidates :
        pc[c] \in {"plan", "check"} \cup Requesting => holder[Chain[c]] = c

\* What is still to be requested is not in the cache.
NotYetCached ==
    \A c \in Candidates :
        pc[c] \in {"check"} \cup Requesting => missing[c] \cap cached[Chain[c]] = {}

\* The inductive invariant.
AccessInv ==
    /\ TypeOK
    /\ SlotsHeld
    /\ PermitsHeld
    /\ GateBounded
    /\ RequestsAwaited
    /\ LockHeld
    /\ NotYetCached

-----------------------------------------------------------------------------
\* Adding an element to a finite set, or taking one out, moves its
\* cardinality by one exactly when membership changes.
LEMMA CardinalityMoves ==
    ASSUME NEW S, IsFiniteSet(S), NEW T, NEW c,
           \A d : d # c => (d \in T <=> d \in S)
    PROVE  Cardinality(T) = Cardinality(S) - (IF c \in S THEN 1 ELSE 0)
                                           + (IF c \in T THEN 1 ELSE 0)
<1>1. /\ c \in S /\ c \notin T => T = S \ {c}
      /\ c \notin S /\ c \in T => T = S \cup {c}
      /\ (c \in S <=> c \in T) => T = S
  OBVIOUS
<1> QED
  BY <1>1, FS_AddElement, FS_RemoveElement, FS_CardinalityType

-----------------------------------------------------------------------------
\* The holders can be counted.
LEMMA HeldFinite ==
    /\ \A f : IsFiniteSet(InSlot(f)) /\ Cardinality(InSlot(f)) \in Nat
    /\ \A k : IsFiniteSet(OnWire(k)) /\ Cardinality(OnWire(k)) \in Nat
<1>1. IsFiniteSet(Candidates)
  BY AccessAssumption
<1>2. ASSUME NEW f PROVE IsFiniteSet(InSlot(f)) /\ Cardinality(InSlot(f)) \in Nat
  <2>1. InSlot(f) \subseteq Candidates
    BY DEF InSlot
  <2> QED
    BY <1>1, <2>1, FS_Subset, FS_CardinalityType
<1>3. ASSUME NEW k PROVE IsFiniteSet(OnWire(k)) /\ Cardinality(OnWire(k)) \in Nat
  <2>1. OnWire(k) \subseteq Candidates
    BY DEF OnWire
  <2> QED
    BY <1>1, <2>1, FS_Subset, FS_CardinalityType
<1> QED
  BY <1>2, <1>3

\* A step of candidate c that neither takes nor returns its slot.
LEMMA SlotsKept ==
    ASSUME SlotsHeld, TypeOK, NEW c \in Candidates, UNCHANGED slots,
           \A d \in Candidates : d # c => pc'[d] = pc[d],
           pc[c] \notin {"start", "done"} <=> pc'[c] \notin {"start", "done"}
    PROVE  SlotsHeld'
<1>1. ASSUME NEW f \in Families PROVE InSlot(f)' = InSlot(f)
  BY DEF InSlot
<1> QED
  BY <1>1 DEF SlotsHeld

\* A step of candidate c that neither takes nor returns a permit.
LEMMA PermitsKept ==
    ASSUME PermitsHeld, TypeOK, NEW c \in Candidates, UNCHANGED permits,
           \A d \in Candidates : d # c => pc'[d] = pc[d] /\ http'[d] = http[d],
           http[c] # "sending", http'[c] # "sending"
    PROVE  PermitsHeld'
<1>1. ASSUME NEW k \in Clients PROVE OnWire(k)' = OnWire(k)
  BY DEF OnWire, Client
<1> QED
  BY <1>1 DEF PermitsHeld

-----------------------------------------------------------------------------
\* The invariant holds at the start.
LEMMA AccessInitially == Init => AccessInv
<1> SUFFICES ASSUME Init PROVE AccessInv
  OBVIOUS
<1>1. TypeOK
  BY AccessAssumption DEF Init, TypeOK
<1>2. SlotsHeld
  <2>1. \A f \in Families : InSlot(f) = {}
    BY DEF Init, InSlot
  <2>2. \A f \in Families : Cardinality(InSlot(f)) = 0
    BY <2>1, FS_EmptySet
  <2> QED
    BY <2>2, AccessAssumption DEF Init, SlotsHeld
<1>3. PermitsHeld
  <2>1. \A k \in Clients : OnWire(k) = {}
    BY DEF Init, OnWire
  <2>2. \A k \in Clients : Cardinality(OnWire(k)) = 0
    BY <2>1, FS_EmptySet
  <2> QED
    BY <2>2, AccessAssumption DEF Init, PermitsHeld
<1>4. GateBounded
  BY AccessAssumption DEF Init, GateBounded
<1>5. RequestsAwaited /\ LockHeld /\ NotYetCached
  BY DEF Init, RequestsAwaited, LockHeld, NotYetCached, Requesting
<1> QED
  BY <1>1, <1>2, <1>3, <1>4, <1>5 DEF AccessInv

-----------------------------------------------------------------------------
\* A step inside the request of candidate c, apart from its permit.
RequestMoves(c, w) ==
    /\ Http(c, w)
    /\ w \in {"permit", "token", "sending", "decode", "backoff", "succeeded", "failed"}
    /\ http[c] \in {"token", "permit", "sending", "decode", "backoff"}
    /\ attempt' \in [Candidates -> 0 .. Retries]
    /\ UNCHANGED <<slots, refiller, pc, prices>>

\* The steps of a request by where they lead.
LEMMA RequestCases ==
    ASSUME TypeOK, NEW c \in Candidates, Request(c)
    PROVE  \E w : /\ RequestMoves(c, w)
                  /\ \/ TakeToken(c) /\ w = "permit"
                     \/ TakePermit(c) /\ w = "sending"
                     \/ Responds(c) /\ w # "sending"
                     \/ (Decoded(c) \/ BackoffOver(c)) /\ w # "sending"
<1>0. Retries \in Nat /\ attempt \in [Candidates -> 0 .. Retries]
  BY AccessAssumption DEF TypeOK
<1>1. CASE TakeToken(c)
  <2>1. RequestMoves(c, "permit")
    BY <1>0, <1>1 DEF TakeToken, RequestMoves
  <2> QED
    BY <1>1, <2>1
<1>2. CASE TakePermit(c)
  <2>1. RequestMoves(c, "sending")
    BY <1>0, <1>2 DEF TakePermit, RequestMoves, gate
  <2> QED
    BY <1>2, <2>1
<1>3. ASSUME RetryOrFail(c)
      PROVE  /\ attempt' \in [Candidates -> 0 .. Retries]
             /\ Http(c, "backoff") \/ Http(c, "failed")
  BY <1>0, <1>3 DEF RetryOrFail
<1>4. CASE Responds(c)
  <2>1. /\ attempt' \in [Candidates -> 0 .. Retries]
        /\ Http(c, "decode") \/ Http(c, "backoff") \/ Http(c, "failed")
    BY <1>0, <1>3, <1>4 DEF Responds
  <2>2. PICK w \in {"decode", "backoff", "failed"} : Http(c, w)
    BY <2>1
  <2>3. RequestMoves(c, w)
    BY <1>4, <2>1, <2>2 DEF Responds, RequestMoves, gate
  <2> QED
    BY <1>4, <2>2, <2>3
<1>5. CASE Decoded(c)
  <2>1. /\ attempt' \in [Candidates -> 0 .. Retries]
        /\ Http(c, "succeeded") \/ Http(c, "backoff") \/ Http(c, "failed")
    BY <1>0, <1>3, <1>5 DEF Decoded
  <2>2. PICK w \in {"succeeded", "backoff", "failed"} : Http(c, w)
    BY <2>1
  <2>3. RequestMoves(c, w)
    BY <1>5, <2>1, <2>2 DEF Decoded, RequestMoves, gate
  <2> QED
    BY <1>5, <2>2, <2>3
<1>6. CASE BackoffOver(c)
  <2>1. RequestMoves(c, "token")
    BY <1>0, <1>6 DEF BackoffOver, RequestMoves, gate
  <2> QED
    BY <1>6, <2>1
<1> QED
  BY <1>1, <1>2, <1>4, <1>5, <1>6 DEF Request


\* A request takes and returns its permit on every path.
LEMMA RequestPreserves ==
    ASSUME AccessInv, NEW c \in Candidates, Request(c)
    PROVE  AccessInv'
<1> USE DEF AccessInv
<1>1. PICK w : /\ RequestMoves(c, w)
               /\ \/ TakeToken(c) /\ w = "permit"
                  \/ TakePermit(c) /\ w = "sending"
                  \/ Responds(c) /\ w # "sending"
                  \/ (Decoded(c) \/ BackoffOver(c)) /\ w # "sending"
  BY RequestCases
<1>2. /\ \A d \in Candidates : http'[d] = IF d = c THEN w ELSE http[d]
      /\ UNCHANGED <<slots, refiller, pc, prices>>
      /\ http[c] \in {"token", "permit", "sending", "decode", "backoff"}
  BY <1>1 DEF RequestMoves, Http, TypeOK
<1>3. /\ Concurrency \in Nat /\ tokens \in 0 .. Concurrency
      /\ permits \in [Clients -> 0 .. Concurrency] /\ Client(c) \in Clients
  BY AccessAssumption DEF TypeOK, Client, Clients
<1>4. GateBounded' /\ tokens' \in 0 .. Concurrency
  BY <1>1, <1>2, <1>3 DEF GateBounded, TakeToken, TakePermit, Responds, Decoded, BackoffOver, gate
<1>5. PermitsHeld' /\ permits' \in [Clients -> 0 .. Concurrency]
  <2>0. \A d \in Candidates : Client(d)' = Client(d)
    BY <1>2 DEF Client
  <2>1. CASE TakePermit(c)
    <3>1. /\ http[c] = "permit" /\ w = "sending" /\ permits[Client(c)] > 0
          /\ permits' = [permits EXCEPT ![Client(c)] = @ - 1]
      BY <1>1, <2>1 DEF TakePermit, Responds, Decoded, BackoffOver, TakeToken
    <3>2. ASSUME NEW k \in Clients
          PROVE  Cardinality(OnWire(k)') =
                    Cardinality(OnWire(k)) + (IF k = Client(c) THEN 1 ELSE 0)
      <4>1. \A d : d # c => (d \in OnWire(k)' <=> d \in OnWire(k))
        BY <1>2, <2>0 DEF OnWire
      <4>2. c \notin OnWire(k) /\ (c \in OnWire(k)' <=> k = Client(c))
        BY <1>2, <2>0, <3>1 DEF OnWire
      <4>3. Cardinality(OnWire(k)') =
               Cardinality(OnWire(k)) - (IF c \in OnWire(k) THEN 1 ELSE 0)
                                      + (IF c \in OnWire(k)' THEN 1 ELSE 0)
        BY <4>1, HeldFinite, CardinalityMoves
      <4> QED
        BY <4>2, <4>3, HeldFinite
    <3> QED
      BY <1>3, <3>1, <3>2, HeldFinite DEF PermitsHeld
  <2>2. CASE Responds(c)
    <3>1. /\ http[c] = "sending" /\ w # "sending"
          /\ permits' = [permits EXCEPT ![Client(c)] = @ + 1]
      BY <1>1, <2>2 DEF TakePermit, Responds, ReleasePermit, Decoded, BackoffOver, TakeToken
    <3>2. ASSUME NEW k \in Clients
          PROVE  /\ Cardinality(OnWire(k)') =
                       Cardinality(OnWire(k)) - (IF k = Client(c) THEN 1 ELSE 0)
                 /\ k = Client(c) => Cardinality(OnWire(k)) > 0
      <4>1. \A d : d # c => (d \in OnWire(k)' <=> d \in OnWire(k))
        BY <1>2, <2>0 DEF OnWire
      <4>2. c \notin OnWire(k)' /\ (c \in OnWire(k) <=> k = Client(c))
        BY <1>2, <2>0, <3>1 DEF OnWire
      <4>3. Cardinality(OnWire(k)') =
               Cardinality(OnWire(k)) - (IF c \in OnWire(k) THEN 1 ELSE 0)
                                      + (IF c \in OnWire(k)' THEN 1 ELSE 0)
        BY <4>1, HeldFinite, CardinalityMoves
      <4>4. k = Client(c) => Cardinality(OnWire(k)) > 0
        BY <4>2, HeldFinite, FS_EmptySet
      <4> QED
        BY <4>2, <4>3, <4>4, HeldFinite
    <3> QED
      BY <1>3, <3>1, <3>2, HeldFinite DEF PermitsHeld
  <2>3. CASE TakeToken(c) \/ Decoded(c) \/ BackoffOver(c)
    <3>1. UNCHANGED permits /\ http[c] # "sending" /\ w # "sending"
      BY <1>1, <2>3 DEF TakePermit, Responds, TakeToken, Decoded, BackoffOver
    <3> QED
      BY <1>2, <1>3, <3>1, PermitsKept
  <2> QED
    BY <1>1, <2>1, <2>2, <2>3
<1>6. TypeOK'
  <2>1. http' \in [Candidates -> {"idle", "token", "permit", "sending", "decode",
                                  "backoff", "succeeded", "failed"}]
    BY <1>1 DEF RequestMoves, Http, TypeOK
  <2> QED
    BY <1>1, <1>2, <1>4, <1>5, <2>1 DEF RequestMoves, TypeOK, prices
<1>7. SlotsHeld'
  BY <1>2 DEF SlotsHeld, InSlot
<1>8. RequestsAwaited'
  BY <1>2 DEF RequestsAwaited
<1>9. LockHeld' /\ NotYetCached'
  BY <1>2 DEF LockHeld, NotYetCached, prices
<1> QED
  BY <1>4, <1>5, <1>6, <1>7, <1>8, <1>9

-----------------------------------------------------------------------------
\* A step of the fetch itself leaves the requests of the others, the permits
\* and the gate alone.
FetchMoves(c, w) ==
    /\ Goto(c, w)
    /\ \/ http' = http
       \/ \E h \in {"idle", "token"} : Http(c, h)
    /\ http[c] \in {"idle", "succeeded", "failed"}
    /\ UNCHANGED <<permits, gate>>

\* The steps of a fetch by where they lead.
LEMMA FetchCases ==
    ASSUME AccessInv, NEW c \in Candidates, Fetch(c)
    PROVE  \E w \in {"market", "lock", "plan", "check", "return", "done"} \cup Requesting :
              FetchMoves(c, w)
<1>0. RequestsAwaited
  BY DEF AccessInv
<1>1. CASE TakeSlot(c)
  BY <1>0, <1>1 DEF TakeSlot, FetchMoves, RequestsAwaited, Requesting
<1>2. CASE MarketDone(c)
  BY <1>0, <1>2 DEF MarketDone, FetchMoves, Ended
<1>3. CASE Return(c) \/ TakeLock(c) \/ Plan(c) \/ CheckDays(c)
  BY <1>0, <1>3 DEF Return, TakeLock, Plan, CheckDays, FetchMoves, RequestsAwaited, Requesting
<1>4. CASE RequestWindow(c)
  BY <1>0, <1>4 DEF RequestWindow, FetchMoves, RequestsAwaited, Requesting
<1>7. CASE FallBack(c)
  BY <1>7 DEF FallBack, FetchMoves, Ended, Requesting
<1>5. ASSUME NEW got \in SUBSET AllDays, WindowArrives(c, got)
      PROVE  FetchMoves(c, "check")
  BY <1>5 DEF WindowArrives, FetchMoves, Ended
<1>6. CASE WindowFails(c)
  BY <1>6 DEF WindowFails, FetchMoves, Ended
<1> QED
  BY <1>1, <1>2, <1>3, <1>4, <1>5, <1>6, <1>7 DEF Fetch

\* What the fetch of candidate c may do to the rest of the state.
LEMMA FetchEffects ==
    ASSUME NEW c \in Candidates, Fetch(c)
    PROVE  /\ attempt' = attempt \/ attempt' = [attempt EXCEPT ![c] = 0]
           /\ \/ holder' = holder
              \/ holder' = [holder EXCEPT ![Chain[c]] = c]
              \/ holder' = [holder EXCEPT ![Chain[c]] = Nobody]
           /\ \/ cached' = cached
              \/ \E got \in SUBSET AllDays :
                    cached' = [cached EXCEPT ![Chain[c]] = @ \cup got]
           /\ priced' = priced \/ priced' = priced \cup {c}
           /\ windows' = windows \/ \E x : windows' = [windows EXCEPT ![c] = x]
           /\ \/ missing' = missing
              \/ \E x \in SUBSET (Days[c] \cup missing[c]) : missing' = [missing EXCEPT ![c] = x]
<1>1. CASE TakeSlot(c) \/ MarketDone(c) \/ Return(c) \/ RequestWindow(c) \/ FallBack(c)
  BY <1>1 DEF TakeSlot, MarketDone, Return, RequestWindow, FallBack, prices
<1>2. CASE TakeLock(c)
  BY <1>2 DEF TakeLock
<1>3. CASE Plan(c)
  BY <1>3 DEF Plan
<1>4. ASSUME NEW got \in SUBSET AllDays, WindowArrives(c, got)
      PROVE  /\ UNCHANGED <<attempt, holder, priced>>
             /\ cached' = [cached EXCEPT ![Chain[c]] = @ \cup got]
             /\ \E x : windows' = [windows EXCEPT ![c] = x]
             /\ \E x \in SUBSET (Days[c] \cup missing[c]) : missing' = [missing EXCEPT ![c] = x]
  BY <1>4 DEF WindowArrives
<1>5. CASE WindowFails(c)
  <2>1. /\ UNCHANGED <<attempt, cached, priced>>
        /\ holder' = [holder EXCEPT ![Chain[c]] = Nobody]
        /\ windows' = [windows EXCEPT ![c] = <<>>]
        /\ missing' = [missing EXCEPT ![c] = {}]
    BY <1>5 DEF WindowFails, Unlock
  <2>2. \E x \in SUBSET (Days[c] \cup missing[c]) : missing' = [missing EXCEPT ![c] = x]
    <3> {} \in SUBSET (Days[c] \cup missing[c])
      OBVIOUS
    <3> WITNESS {} \in SUBSET (Days[c] \cup missing[c])
    <3> QED
      BY <2>1
  <2>3. \E x : windows' = [windows EXCEPT ![c] = x]
    BY <2>1, Zenon
  <2> QED
    BY <2>1, <2>2, <2>3, Zenon
<1>6. CASE CheckDays(c)
  BY <1>6 DEF CheckDays, Unlock
<1> QED
  BY <1>1, <1>2, <1>3, <1>4, <1>5, <1>6 DEF Fetch

\* A step of a fetch keeps the types.
LEMMA FetchTypes ==
    ASSUME AccessInv, NEW c \in Candidates, Fetch(c), slots' \in [Families -> 0 .. Slots]
    PROVE  TypeOK'
<1>0. TypeOK /\ Chain[c] \in Chains /\ Days[c] \subseteq AllDays /\ Retries \in Nat
  BY AccessAssumption DEF AccessInv, Chains, AllDays
<1>1. PICK w \in {"market", "lock", "plan", "check", "return", "done"} \cup Requesting :
         FetchMoves(c, w)
  BY FetchCases
<1>2. /\ pc' \in [Candidates -> {"start", "market", "lock", "plan", "check",
                                 "return", "done"} \cup Requesting]
      /\ http' \in [Candidates -> {"idle", "token", "permit", "sending", "decode",
                                   "backoff", "succeeded", "failed"}]
      /\ permits' = permits /\ tokens' = tokens /\ refiller' = refiller
  BY <1>0, <1>1 DEF FetchMoves, TypeOK, Goto, Http, gate
<1>3. attempt' \in [Candidates -> 0 .. Retries]
  BY <1>0, FetchEffects DEF TypeOK
<1>4. holder' \in [Chains -> Candidates \cup {Nobody}]
  BY <1>0, FetchEffects DEF TypeOK
<1>5. cached' \in [Chains -> SUBSET AllDays]
  <2>1. CASE cached' = cached
    BY <1>0, <2>1 DEF TypeOK
  <2>2. ASSUME NEW got \in SUBSET AllDays, cached' = [cached EXCEPT ![Chain[c]] = @ \cup got]
        PROVE  cached' \in [Chains -> SUBSET AllDays]
    <3>1. cached[Chain[c]] \cup got \in SUBSET AllDays
      BY <1>0 DEF TypeOK
    <3> QED
      BY <1>0, <2>2, <3>1 DEF TypeOK
  <2> QED
    BY <2>1, <2>2, FetchEffects
<1>6. missing' \in [Candidates -> SUBSET AllDays] /\ priced' \subseteq Candidates
  BY <1>0, FetchEffects DEF TypeOK
<1>7. windows' = [d \in Candidates |-> windows'[d]]
  BY <1>0, FetchEffects DEF TypeOK
<1> QED
  BY <1>0, <1>2, <1>3, <1>4, <1>5, <1>6, <1>7 DEF TypeOK


\* Slots are taken and returned once per fetch.
LEMMA FetchSlots ==
    ASSUME AccessInv, NEW c \in Candidates, Fetch(c)
    PROVE  SlotsHeld' /\ slots' \in [Families -> 0 .. Slots]
<1>0. /\ TypeOK /\ SlotsHeld /\ Slots \in Nat /\ Family[c] \in Families
      /\ slots \in [Families -> 0 .. Slots]
  BY AccessAssumption DEF AccessInv, TypeOK
<1>1. ASSUME NEW w, Goto(c, w)
      PROVE  \A d \in Candidates : pc'[d] = IF d = c THEN w ELSE pc[d]
  BY <1>0, <1>1 DEF Goto, TypeOK
<1>2. ASSUME NEW w, Goto(c, w), NEW f \in Families
      PROVE  Cardinality(InSlot(f)') =
                Cardinality(InSlot(f)) - (IF c \in InSlot(f) THEN 1 ELSE 0)
                                       + (IF c \in InSlot(f)' THEN 1 ELSE 0)
  <2>1. \A d : d # c => (d \in InSlot(f)' <=> d \in InSlot(f))
    BY <1>1, <1>2 DEF InSlot
  <2> QED
    BY <2>1, HeldFinite, CardinalityMoves
<1>3. CASE TakeSlot(c)
  <2>1. /\ Goto(c, "market") /\ pc[c] = "start" /\ slots[Family[c]] > 0
        /\ slots' = [slots EXCEPT ![Family[c]] = @ - 1]
    BY <1>3 DEF TakeSlot
  <2>2. \A f \in Families : c \notin InSlot(f) /\ (c \in InSlot(f)' <=> f = Family[c])
    BY <1>1, <2>1 DEF InSlot
  <2>3. \A f \in Families : Cardinality(InSlot(f)') =
                               Cardinality(InSlot(f)) + (IF f = Family[c] THEN 1 ELSE 0)
    BY <1>2, <2>1, <2>2, HeldFinite
  <2> QED
    BY <1>0, <2>1, <2>3, HeldFinite DEF SlotsHeld
<1>4. CASE Return(c)
  <2>1. /\ Goto(c, "done") /\ pc[c] = "return"
        /\ slots' = [slots EXCEPT ![Family[c]] = @ + 1]
    BY <1>4 DEF Return
  <2>2. \A f \in Families : c \notin InSlot(f)' /\ (c \in InSlot(f) <=> f = Family[c])
    BY <1>1, <2>1 DEF InSlot
  <2>3. \A f \in Families : Cardinality(InSlot(f)') =
                               Cardinality(InSlot(f)) - (IF f = Family[c] THEN 1 ELSE 0)
    BY <1>2, <2>1, <2>2, HeldFinite
  <2>4. Cardinality(InSlot(Family[c])) > 0
    BY <1>0, <2>2, HeldFinite, FS_EmptySet
  <2> QED
    BY <1>0, <2>1, <2>3, <2>4, HeldFinite DEF SlotsHeld
<1>5. ASSUME UNCHANGED slots, NEW w, Goto(c, w), w \notin {"start", "done"},
             pc[c] \notin {"start", "done"}
      PROVE  SlotsHeld' /\ slots' \in [Families -> 0 .. Slots]
  BY <1>0, <1>1, <1>5, SlotsKept
<1>6. CASE MarketDone(c) \/ TakeLock(c) \/ Plan(c) \/ RequestWindow(c) \/ FallBack(c)
  BY <1>5, <1>6 DEF MarketDone, TakeLock, Plan, RequestWindow, FallBack
<1>7. ASSUME NEW got \in SUBSET AllDays, WindowArrives(c, got)
      PROVE  SlotsHeld' /\ slots' \in [Families -> 0 .. Slots]
  BY <1>5, <1>7 DEF WindowArrives
<1>8. CASE WindowFails(c) \/ CheckDays(c)
  BY <1>5, <1>8 DEF WindowFails, CheckDays
<1> QED
  BY <1>3, <1>4, <1>6, <1>7, <1>8 DEF Fetch

\* The laws of the price lock and the cache.
LEMMA FetchPrices ==
    ASSUME AccessInv, NEW c \in Candidates, Fetch(c)
    PROVE  RequestsAwaited' /\ LockHeld' /\ NotYetCached'
<1> USE DEF Requesting
<1>0. /\ TypeOK /\ RequestsAwaited /\ LockHeld /\ NotYetCached
      /\ c # Nobody /\ \A d \in Candidates : Chain[d] \in Chains
  BY AccessAssumption DEF AccessInv, Chains
<1>1. ASSUME NEW w, Goto(c, w)
      PROVE  \A d \in Candidates : pc'[d] = IF d = c THEN w ELSE pc[d]
  BY <1>0, <1>1 DEF Goto, TypeOK
<1>2. ASSUME NEW h, Http(c, h)
      PROVE  \A d \in Candidates : http'[d] = IF d = c THEN h ELSE http[d]
  BY <1>0, <1>2 DEF Http, TypeOK
<1>3. ASSUME NEW d \in Candidates, d # c, Chain[d] = Chain[c],
             holder[Chain[c]] \in {c, Nobody}
      PROVE  pc[d] \notin {"plan", "check"} \cup Requesting
  <2>1. d # Nobody
    BY AccessAssumption
  <2> QED
    BY <1>0, <1>3, <2>1 DEF LockHeld
<1>4. CASE TakeSlot(c) \/ MarketDone(c)
  BY <1>0, <1>1, <1>2, <1>4
  DEF TakeSlot, MarketDone, prices, RequestsAwaited, LockHeld, NotYetCached
<1>5. CASE Return(c)
  BY <1>0, <1>1, <1>5 DEF Return, prices, RequestsAwaited, LockHeld, NotYetCached
<1>6. CASE TakeLock(c)
  <2>1. /\ Goto(c, "plan") /\ pc[c] = "lock" /\ holder[Chain[c]] = Nobody
        /\ holder' = [holder EXCEPT ![Chain[c]] = c]
        /\ UNCHANGED <<http, cached, missing>>
    BY <1>6 DEF TakeLock
  <2>2. LockHeld'
    BY <1>0, <1>1, <1>3, <2>1 DEF LockHeld, TypeOK
  <2> QED
    BY <1>0, <1>1, <2>1, <2>2 DEF RequestsAwaited, NotYetCached
<1>7. CASE Plan(c)
  <2>1. /\ Goto(c, "check") /\ pc[c] = "plan" /\ UNCHANGED <<http, cached, holder>>
        /\ missing' = [missing EXCEPT ![c] = Days[c] \ cached[Chain[c]]]
    BY <1>7 DEF Plan
  <2>2. \A d \in Candidates :
           missing'[d] = IF d = c THEN Days[c] \ cached[Chain[c]] ELSE missing[d]
    BY <1>0, <2>1 DEF TypeOK
  <2> QED
    BY <1>0, <1>1, <2>1, <2>2 DEF RequestsAwaited, LockHeld, NotYetCached
<1>8. CASE RequestWindow(c) \/ FallBack(c)
  BY <1>0, <1>1, <1>2, <1>8
  DEF RequestWindow, FallBack, prices, RequestsAwaited, LockHeld, NotYetCached
<1>9. ASSUME NEW got \in SUBSET AllDays, WindowArrives(c, got)
      PROVE  RequestsAwaited' /\ LockHeld' /\ NotYetCached'
  <2> DEFINE days == Window(c)
  <2>1. /\ Goto(c, "check") /\ Http(c, "idle") /\ pc[c] \in Requesting /\ UNCHANGED holder
        /\ got \subseteq days
        /\ cached' = [cached EXCEPT ![Chain[c]] = @ \cup got]
        /\ missing' = [missing EXCEPT ![c] = @ \ days]
    BY <1>9 DEF WindowArrives
  <2> HIDE DEF days
  <2>2. RequestsAwaited' /\ LockHeld'
    BY <1>0, <1>1, <1>2, <2>1 DEF RequestsAwaited, LockHeld
  <2>3. holder[Chain[c]] = c
    BY <1>0, <2>1 DEF LockHeld
  <2>4. ASSUME NEW d \in Candidates, pc'[d] \in {"check"} \cup Requesting
        PROVE  missing'[d] \cap cached'[Chain[d]] = {}
    <3>1. CASE d = c
      <4>1. /\ missing'[c] = missing[c] \ days
            /\ cached'[Chain[c]] = cached[Chain[c]] \cup got
        BY <1>0, <2>1 DEF TypeOK
      <4>2. missing[c] \cap cached[Chain[c]] = {}
        BY <1>0, <2>1 DEF NotYetCached
      <4> QED
        BY <2>1, <3>1, <4>1, <4>2
    <3>2. CASE d # c
      <4>1. pc[d] \in {"check"} \cup Requesting
        BY <1>1, <2>1, <2>4, <3>2
      <4>2. Chain[d] # Chain[c]
        BY <1>3, <2>3, <3>2, <4>1
      <4>3. missing'[d] = missing[d] /\ cached'[Chain[d]] = cached[Chain[d]]
        BY <1>0, <2>1, <3>2, <4>2 DEF TypeOK
      <4> QED
        BY <1>0, <4>1, <4>3 DEF NotYetCached
    <3> QED
      BY <3>1, <3>2
  <2> QED
    BY <2>2, <2>4 DEF NotYetCached
<1>10. ASSUME NEW m, Goto(c, "return"), pc[c] \in {"check"} \cup Requesting, Unlock(c),
              http' = http \/ Http(c, "idle"), pc[c] \in Requesting => Http(c, "idle"),
              UNCHANGED cached,
              missing' = missing \/ missing' = [missing EXCEPT ![c] = m]
       PROVE  RequestsAwaited' /\ LockHeld' /\ NotYetCached'
  <2>1. holder' = [holder EXCEPT ![Chain[c]] = Nobody] /\ holder[Chain[c]] = c
    BY <1>0, <1>10 DEF Unlock, LockHeld
  <2>2. RequestsAwaited'
    BY <1>0, <1>1, <1>2, <1>10 DEF RequestsAwaited
  <2>3. LockHeld'
    BY <1>0, <1>1, <1>3, <1>10, <2>1 DEF LockHeld, TypeOK
  <2>4. \A d \in Candidates : d # c => missing'[d] = missing[d]
    BY <1>0, <1>10 DEF TypeOK
  <2>5. NotYetCached'
    BY <1>0, <1>1, <1>10, <2>4 DEF NotYetCached
  <2> QED
    BY <2>2, <2>3, <2>5
<1>11. CASE WindowFails(c)
  BY <1>10, <1>11 DEF WindowFails
<1>12. CASE CheckDays(c)
  BY <1>10, <1>12 DEF CheckDays
<1> QED
  BY <1>4, <1>5, <1>6, <1>7, <1>8, <1>9, <1>11, <1>12 DEF Fetch

-----------------------------------------------------------------------------
\* The whole step.
LEMMA AccessPreserved == AccessInv /\ [Next]_vars => AccessInv'
<1> SUFFICES ASSUME AccessInv, [Next]_vars PROVE AccessInv'
  OBVIOUS
<1>1. ASSUME NEW c \in Candidates, Fetch(c) PROVE AccessInv'
  <2>1. PICK w : FetchMoves(c, w)
    BY <1>1, FetchCases
  <2>2. GateBounded'
    BY <2>1 DEF FetchMoves, gate, GateBounded, AccessInv
  <2>3. PermitsHeld'
    <3>1. \A d \in Candidates : d # c => pc'[d] = pc[d] /\ http'[d] = http[d]
      BY <2>1 DEF FetchMoves, Goto, Http, TypeOK, AccessInv
    <3>2. http[c] # "sending" /\ http'[c] # "sending" /\ UNCHANGED permits
      BY <2>1 DEF FetchMoves, Http, TypeOK, AccessInv
    <3> QED
      BY <3>1, <3>2, PermitsKept DEF AccessInv
  <2> QED
    BY <1>1, <2>2, <2>3, FetchSlots, FetchTypes, FetchPrices DEF AccessInv
<1>2. CASE RefillTick \/ RefillAdd
  <2>1. /\ UNCHANGED <<slots, permits, pc, http, attempt, prices>>
        /\ tokens' \in 0 .. Concurrency /\ refiller' \in {"waiting", "adding"} /\ GateBounded'
    BY <1>2, AccessAssumption DEF RefillTick, RefillAdd, GateBounded, AccessInv, TypeOK
  <2> QED
    BY <2>1 DEF AccessInv, TypeOK, SlotsHeld, InSlot, PermitsHeld, OnWire, Client,
                RequestsAwaited, LockHeld, NotYetCached, prices
<1>3. CASE UNCHANGED vars
  BY <1>3 DEF vars, gate, prices, AccessInv, TypeOK, SlotsHeld, InSlot, PermitsHeld, OnWire,
              Client, GateBounded, RequestsAwaited, LockHeld, NotYetCached
<1> QED
  BY <1>1, <1>2, <1>3, RequestPreserves DEF Next, AllDone

\* The inductive invariant holds in every reachable state.
THEOREM AccessInvariant == Spec => []AccessInv
BY AccessInitially, AccessPreserved, PTL DEF Spec

\* Slots, permits and tokens stay within what there is of them: no retry,
\* error or early return of request and fetch_candidate returns one twice.
THEOREM AccessTypes == Spec => []TypeOK
<1>1. AccessInv => TypeOK
  BY DEF AccessInv
<1> QED
  BY <1>1, AccessInvariant, PTL

\* RateGate: although the refill task looks and adds in two steps, the gate
\* never holds more than its burst.
THEOREM GateStaysBounded == Spec => []GateBounded
<1>1. AccessInv => GateBounded
  BY DEF AccessInv
<1> QED
  BY <1>1, AccessInvariant, PTL

\* ensure_days: per chain one candidate at a time plans and requests prices,
\* and it requests no day that the cache already has.
THEOREM PricesAreFetchedOnce == Spec => []PricesFetchedOnce
<1>1. AccessInv => PricesFetchedOnce
  <2> SUFFICES ASSUME AccessInv, NEW c \in Candidates, pc[c] \in {"check"} \cup Requesting
               PROVE  /\ missing[c] \cap cached[Chain[c]] = {}
                      /\ \A d \in Candidates \ {c} :
                            Chain[d] = Chain[c] => pc[d] \notin {"plan", "check"} \cup Requesting
    BY DEF PricesFetchedOnce
  <2> QED
    BY DEF AccessInv, NotYetCached, LockHeld
<1> QED
  BY <1>1, AccessInvariant, PTL

-----------------------------------------------------------------------------
(* bounded_day_windows: the greedy windows of a finite set of days.  It is a *)
(* recursive function over the subsets; what it computes is proved by        *)
(* looking at a smallest subset for which it would be wrong.                 *)

\* The days of the first window of T, and one step of the function.
FirstWindow(T) == {d \in T : d - First(T) <= Span}
WindowStep(g, T) ==
    IF T = {} THEN <<>>
    ELSE <<<<First(T), Last(FirstWindow(T))>>>> \o g[T \ FirstWindow(T)]
IsWindows(g, S) == g = [T \in SUBSET S |-> WindowStep(g, T)]
WindowFcn(S) == CHOOSE g : IsWindows(g, S)

\* BoundedDayWindows is the value of that function at S.
LEMMA WindowsDef == ASSUME NEW S PROVE BoundedDayWindows(S) = WindowFcn(S)[S]
BY DEF BoundedDayWindows, WindowFcn, IsWindows, WindowStep, FirstWindow

\* Every non-empty set of numbers has a least one: the induction principle of
\* the lemmas below.
LEMMA LeastNat ==
    ASSUME NEW N, N \subseteq Nat, N # {}
    PROVE  \E n \in N : \A m \in N : ~(m < n)
<1>1. PICK n \in N : \A m \in N : ~ (<<m, n>> \in OpToRel(<, Nat))
  BY WFMin, NatLessThanWellFounded
<1> QED
  BY <1>1 DEF OpToRel

\* The first day, and the last day of the first window, are days of T.
LEMMA FirstAndLast ==
    ASSUME NEW T, T \subseteq Nat, T # {}
    PROVE  /\ First(T) \in T /\ \A e \in T : First(T) <= e
           /\ First(T) \in FirstWindow(T)
           /\ Last(FirstWindow(T)) \in FirstWindow(T)
           /\ \A e \in FirstWindow(T) : e <= Last(FirstWindow(T))
<1>0. Span \in Nat
  BY AccessAssumption
<1>1. First(T) \in T /\ \A e \in T : First(T) <= e
  <2>1. \E d \in T : \A e \in T : d <= e
    <3>1. PICK d \in T : \A e \in T : ~(e < d)
      BY LeastNat
    <3>2. \A e \in T : d <= e
      BY <3>1
    <3> QED
      BY <3>2
  <2> QED
    BY <2>1 DEF First
<1> DEFINE a == First(T)
<1>2. a \in FirstWindow(T) /\ \A d \in FirstWindow(T) : d \in Nat /\ a <= d /\ d <= a + Span
  <2>1. FirstWindow(T) = {d \in T : d - a <= Span}
    BY DEF FirstWindow
  <2>2. a \in T /\ a \in Nat /\ \A e \in T : e \in Nat /\ a <= e
    BY <1>1
  <2> HIDE DEF a
  <2>3. a - a <= Span /\ \A d \in T : d - a <= Span => d <= a + Span
    BY <1>0, <2>2
  <2> QED
    BY <2>1, <2>2, <2>3
<1>3. \E d \in FirstWindow(T) : \A e \in FirstWindow(T) : d >= e
  <2> DEFINE N == {(a + Span) - d : d \in FirstWindow(T)}
  <2>1. a \in Nat
    BY <1>1
  <2> HIDE DEF a
  <2>2. \A d \in FirstWindow(T) : (a + Span) - d \in Nat
    BY <1>0, <1>2, <2>1
  <2>3. N \subseteq Nat /\ N # {}
    BY <1>2, <2>2
  <2>4. PICK n \in N : \A m \in N : ~(m < n)
    <3> HIDE DEF N
    <3> QED
      BY <2>3, LeastNat
  <2>5. PICK d \in FirstWindow(T) : n = (a + Span) - d
    BY <2>4
  <2>6. ASSUME NEW e \in FirstWindow(T) PROVE d >= e
    <3>1. (a + Span) - e \in N
      OBVIOUS
    <3>2. ~((a + Span) - e < (a + Span) - d)
      BY <2>4, <2>5, <3>1
    <3> QED
      BY <1>0, <1>2, <2>1, <3>2
  <2> QED
    BY <2>6
<1>4. Last(FirstWindow(T)) \in FirstWindow(T) /\ \A e \in FirstWindow(T) : Last(FirstWindow(T)) >= e
  BY <1>3 DEF Last
<1> QED
  BY <1>1, <1>2, <1>4

\* The days left after the first window are fewer.
LEMMA FewerLeft ==
    ASSUME NEW S, S \subseteq Nat, IsFiniteSet(S), NEW T \in SUBSET S
    PROVE  /\ IsFiniteSet(T) /\ Cardinality(T) \in Nat /\ Cardinality(T) <= Cardinality(S)
           /\ Cardinality(T) <= 0 => T = {}
           /\ T # {} => /\ T \ FirstWindow(T) \in SUBSET S
                        /\ Cardinality(T \ FirstWindow(T)) < Cardinality(T)
<1>1. IsFiniteSet(T) /\ Cardinality(T) \in Nat /\ Cardinality(T) <= Cardinality(S)
  BY FS_Subset, FS_CardinalityType
<1>2. Cardinality(T) <= 0 => T = {}
  BY <1>1, FS_EmptySet
<1>3. ASSUME T # {} PROVE Cardinality(T \ FirstWindow(T)) < Cardinality(T)
  <2>1. First(T) \in T /\ First(T) \in FirstWindow(T)
    BY <1>3, FirstAndLast
  <2>2. T \ FirstWindow(T) \in SUBSET T /\ T \ FirstWindow(T) # T
    BY <2>1
  <2>3. /\ Cardinality(T \ FirstWindow(T)) \in Nat
        /\ Cardinality(T \ FirstWindow(T)) <= Cardinality(T)
        /\ Cardinality(T \ FirstWindow(T)) # Cardinality(T)
    BY <1>1, <2>2, FS_Subset, FS_CardinalityType
  <2> QED
    BY <1>1, <2>3
<1> QED
  BY <1>1, <1>2, <1>3

\* The recursive function exists.
LEMMA WindowsExist ==
    ASSUME NEW S, S \subseteq Nat, IsFiniteSet(S)
    PROVE  IsWindows(WindowFcn(S), S)
<1> DEFINE Upto(g, n) == \A T \in SUBSET S : Cardinality(T) <= n => g[T] = WindowStep(g, T)
           B == {n \in Nat : ~ \E g : Upto(g, n)}
<1>1. \A n \in Nat : n \notin B
  <2> SUFFICES ASSUME B # {} PROVE FALSE
    OBVIOUS
  <2>1. PICK n \in B : \A m \in B : ~(m < n)
    BY LeastNat
  <2>2. n # 0
    <3> DEFINE g == [T \in SUBSET S |-> <<>>]
    <3>1. ASSUME NEW T \in SUBSET S, Cardinality(T) <= 0 PROVE g[T] = WindowStep(g, T)
      <4>1. T = {}
        BY <3>1, FewerLeft
      <4> QED
        BY <4>1 DEF WindowStep
    <3> HIDE DEF g
    <3>2. Upto(g, 0)
      BY <3>1
    <3> QED
      BY <3>2
  <2>3. n - 1 \in Nat /\ n \in Nat /\ n - 1 < n
    BY <2>2
  <2>4. PICK g : Upto(g, n - 1)
    BY <2>1, <2>3
  <2> DEFINE h == [T \in SUBSET S |-> WindowStep(g, T)]
  <2>5. ASSUME NEW T \in SUBSET S, Cardinality(T) <= n PROVE h[T] = WindowStep(h, T)
    <3>1. CASE T = {}
      BY <3>1 DEF WindowStep
    <3>2. CASE T # {}
      <4> DEFINE t == T \ FirstWindow(T)
      <4>0. Cardinality(t) \in Nat /\ Cardinality(t) < Cardinality(T) /\ Cardinality(T) \in Nat
            /\ t \in SUBSET S
        BY <3>2, FewerLeft
      <4>1. Cardinality(t) <= n - 1
        BY <2>3, <2>5, <4>0
      <4>2. g[t] = WindowStep(g, t)
        BY <2>4, <4>0, <4>1
      <4>3. h[t] = g[t]
        BY <4>0, <4>2
      <4> HIDE DEF t
      <4>4. h[T] = <<<<First(T), Last(FirstWindow(T))>>>> \o g[t]
        BY <3>2 DEF WindowStep, t
      <4> HIDE DEF h
      <4> QED
        BY <3>2, <4>3, <4>4 DEF WindowStep, t
    <3> QED
      BY <3>1, <3>2
  <2> HIDE DEF h
  <2>6. Upto(h, n)
    BY <2>5
  <2> QED
    BY <2>6
<1>2. PICK g : Upto(g, Cardinality(S))
  <2>1. Cardinality(S) \in Nat
    BY FS_CardinalityType
  <2> QED
    BY <1>1, <2>1
<1> DEFINE h == [T \in SUBSET S |-> g[T]]
<1>3. \A T \in SUBSET S : h[T] = WindowStep(h, T)
  <2> SUFFICES ASSUME NEW T \in SUBSET S PROVE g[T] = WindowStep(h, T)
    OBVIOUS
  <2>1. g[T] = WindowStep(g, T)
    BY <1>2, FewerLeft
  <2> QED
    BY <2>1, FewerLeft DEF WindowStep
<1>4. IsWindows(h, S)
  BY <1>3 DEF IsWindows
<1> QED
  BY <1>4 DEF WindowFcn

-----------------------------------------------------------------------------
\* What makes windows w the fewest for the days S: they cover S, begin and end
\* in S, are no wider than Span, and begin more than Span apart.
Spaced(w, S) ==
    /\ w \in Seq(Nat \X Nat)
    /\ \A d \in S : \E i \in 1 .. Len(w) : w[i][1] <= d /\ d <= w[i][2]
    /\ \A i \in 1 .. Len(w) :
          /\ w[i][1] <= w[i][2] /\ w[i][2] - w[i][1] <= Span
          /\ w[i][1] \in S /\ w[i][2] \in S
    /\ \A i, j \in 1 .. Len(w) : i < j => w[j][1] - w[i][1] > Span

\* One more window in front.
LEMMA SpacedPrepend ==
    ASSUME NEW T, T \subseteq Nat, T # {}, NEW v, Spaced(v, T \ FirstWindow(T))
    PROVE  Spaced(<<<<First(T), Last(FirstWindow(T))>>>> \o v, T)
<1>0. Span \in Nat
  BY AccessAssumption
<1> DEFINE a == First(T)
           b == Last(FirstWindow(T))
           w == <<<<a, b>>>> \o v
<1>1. /\ a \in T /\ b \in T /\ a \in Nat /\ b \in Nat /\ a <= b /\ b - a <= Span
      /\ \A d \in T : d \in Nat /\ a <= d
      /\ \A d \in FirstWindow(T) : d <= b
      /\ \A d \in T \ FirstWindow(T) : d \in T /\ d - a > Span
  <2>1. /\ a \in T /\ \A e \in T : a <= e /\ e \in Nat
        /\ b \in FirstWindow(T) /\ \A e \in FirstWindow(T) : e <= b
    BY FirstAndLast
  <2>2. FirstWindow(T) = {d \in T : d - a <= Span}
    BY DEF FirstWindow
  <2> HIDE DEF a, b
  <2>3. b \in T /\ b - a <= Span
    BY <2>1, <2>2
  <2>4. \A d \in T \ FirstWindow(T) : d \in T /\ ~(d - a <= Span)
    BY <2>2
  <2>5. ASSUME NEW d \in T, ~(d - a <= Span) PROVE d - a > Span
    BY <1>0, <2>1, <2>5
  <2> QED
    BY <2>1, <2>3, <2>4, <2>5
<1> HIDE DEF a, b
<1>2. v \in Seq(Nat \X Nat) /\ Len(v) \in Nat
  BY DEF Spaced
<1>3. /\ w \in Seq(Nat \X Nat) /\ Len(w) = Len(v) + 1 /\ w[1] = <<a, b>>
      /\ \A i \in 1 .. Len(v) : w[i + 1] = v[i]
  BY <1>1, <1>2
<1>4. \A i \in 1 .. Len(w) : i = 1 \/ (i - 1 \in 1 .. Len(v) /\ w[i] = v[i - 1])
  BY <1>2, <1>3
<1> HIDE DEF w
<1>5. ASSUME NEW d \in T PROVE \E i \in 1 .. Len(w) : w[i][1] <= d /\ d <= w[i][2]
  <2>1. CASE d \in FirstWindow(T)
    <3>1. w[1][1] <= d /\ d <= w[1][2] /\ 1 \in 1 .. Len(w)
      BY <1>1, <1>2, <1>3, <2>1
    <3> QED
      BY <3>1
  <2>2. CASE d \notin FirstWindow(T)
    <3>1. PICK i \in 1 .. Len(v) : v[i][1] <= d /\ d <= v[i][2]
      BY <2>2 DEF Spaced
    <3>2. w[i + 1] = v[i]
      BY <1>3
    <3>3. i + 1 \in 1 .. Len(w)
      BY <1>2, <1>3
    <3> QED
      BY <3>1, <3>2, <3>3
  <2> QED
    BY <2>1, <2>2
<1>6. ASSUME NEW i \in 1 .. Len(w)
      PROVE  /\ w[i][1] <= w[i][2] /\ w[i][2] - w[i][1] <= Span
             /\ w[i][1] \in T /\ w[i][2] \in T
  <2>1. CASE i = 1
    BY <1>1, <1>3, <2>1
  <2>2. CASE i - 1 \in 1 .. Len(v) /\ w[i] = v[i - 1]
    BY <2>2 DEF Spaced
  <2> QED
    BY <1>4, <2>1, <2>2
<1>7. ASSUME NEW i \in 1 .. Len(w), NEW j \in 1 .. Len(w), i < j
      PROVE  w[j][1] - w[i][1] > Span
  <2>1. j - 1 \in 1 .. Len(v) /\ w[j] = v[j - 1]
    BY <1>2, <1>3, <1>4, <1>7
  <2>2. CASE i = 1
    <3>1. v[j - 1][1] \in T \ FirstWindow(T)
      BY <2>1 DEF Spaced
    <3>2. \A d \in T \ FirstWindow(T) : d - a > Span
      BY <1>1
    <3>3. v[j - 1][1] - a > Span
      BY <3>1, <3>2
    <3>4. w[i] = <<a, b>> /\ w[j] = v[j - 1]
      BY <1>3, <2>1, <2>2
    <3>5. w[i][1] = a
      BY <3>4
    <3> QED
      BY <3>3, <3>4, <3>5
  <2>3. CASE i - 1 \in 1 .. Len(v) /\ w[i] = v[i - 1]
    <3>1. i - 1 < j - 1
      BY <1>2, <1>3, <1>7
    <3> QED
      BY <2>1, <2>3, <3>1 DEF Spaced
  <2> QED
    BY <1>4, <2>2, <2>3
<1>8. Spaced(w, T)
  BY <1>3, <1>5, <1>6, <1>7 DEF Spaced
<1> QED
  BY <1>8 DEF w, a, b

\* bounded_day_windows spaces its windows.
LEMMA WindowsAreSpaced ==
    ASSUME NEW S, S \subseteq Nat, IsFiniteSet(S)
    PROVE  Spaced(BoundedDayWindows(S), S)
<1> DEFINE g == WindowFcn(S)
           B == {T \in SUBSET S : ~ Spaced(g[T], T)}
           N == {Cardinality(T) : T \in B}
<1>1. \A T \in SUBSET S : g[T] = WindowStep(g, T)
  <2>1. g = [T \in SUBSET S |-> WindowStep(g, T)]
    BY WindowsExist DEF IsWindows
  <2> HIDE DEF g
  <2> QED
    BY <2>1
<1> HIDE DEF g
<1>2. B = {}
  <2> SUFFICES ASSUME B # {} PROVE FALSE
    OBVIOUS
  <2>1. N \subseteq Nat /\ N # {}
    <3>1. \A T \in B : Cardinality(T) \in Nat
      BY FewerLeft
    <3> HIDE DEF B
    <3> QED
      BY <3>1
  <2>2. PICK n \in N : \A m \in N : ~(m < n)
    <3> HIDE DEF N
    <3> QED
      BY <2>1, LeastNat
  <2>3. PICK T \in B : n = Cardinality(T)
    BY <2>2
  <2>4. CASE T = {}
    <3>1. g[T] = <<>>
      BY <1>1, <2>4 DEF WindowStep
    <3>2. Spaced(<<>>, {})
      BY DEF Spaced
    <3> QED
      BY <2>3, <2>4, <3>1, <3>2
  <2>5. CASE T # {}
    <3> DEFINE t == T \ FirstWindow(T)
    <3>1. t \in SUBSET S /\ Cardinality(t) < n
      BY <2>3, <2>5, FewerLeft
    <3>2. t \notin B
      <4> SUFFICES ASSUME t \in B PROVE FALSE
        OBVIOUS
      <4>1. Cardinality(t) \in N
        OBVIOUS
      <4> QED
        BY <2>2, <3>1, <4>1
    <3>3. Spaced(g[t], t)
      BY <3>1, <3>2
    <3>4. T \subseteq Nat
      BY <2>3
    <3>5. Spaced(<<<<First(T), Last(FirstWindow(T))>>>> \o g[t], T)
      BY <2>5, <3>3, <3>4, SpacedPrepend
    <3>6. g[T] = <<<<First(T), Last(FirstWindow(T))>>>> \o g[t]
      BY <1>1, <2>3, <2>5 DEF WindowStep
    <3> QED
      BY <2>3, <3>5, <3>6
  <2> QED
    BY <2>4, <2>5
<1> QED
  BY <1>2, WindowsDef DEF g

\* The windows that are left after the first was requested.
LEMMA SpacedTail ==
    ASSUME NEW w, NEW S, S \subseteq Nat, Spaced(w, S), w # <<>>
    PROVE  Spaced(Tail(w), S \ (Head(w)[1] .. Head(w)[2]))
<1>0. Span \in Nat
  BY AccessAssumption
<1>1. /\ w \in Seq(Nat \X Nat) /\ Len(w) \in Nat /\ Len(w) > 0 /\ Head(w) = w[1]
      /\ Tail(w) \in Seq(Nat \X Nat) /\ Len(Tail(w)) = Len(w) - 1
      /\ \A i \in 1 .. Len(Tail(w)) : Tail(w)[i] = w[i + 1] /\ i + 1 \in 1 .. Len(w)
  BY DEF Spaced
<1>2. /\ \A i \in 1 .. Len(w) : w[i][1] \in Nat /\ w[i][2] \in Nat
      /\ 1 \in 1 .. Len(w)
  BY <1>1
<1>3. \A i \in 2 .. Len(w) : w[i][1] > w[1][2] /\ w[i][2] > w[1][2]
  <2> SUFFICES ASSUME NEW i \in 2 .. Len(w) PROVE w[i][1] > w[1][2] /\ w[i][2] > w[1][2]
    OBVIOUS
  <2>1. i \in 1 .. Len(w) /\ 1 < i
    BY <1>1
  <2>2. w[i][1] - w[1][1] > Span /\ w[1][2] - w[1][1] <= Span /\ w[i][1] <= w[i][2]
    BY <1>2, <2>1 DEF Spaced
  <2> QED
    BY <1>0, <1>2, <2>1, <2>2
<1> DEFINE R == S \ (Head(w)[1] .. Head(w)[2])
           v == Tail(w)
<1>4. ASSUME NEW d \in R PROVE \E i \in 1 .. Len(v) : v[i][1] <= d /\ d <= v[i][2]
  <2>1. d \in S /\ d \in Nat /\ ~(w[1][1] <= d /\ d <= w[1][2])
    BY <1>1, <1>2
  <2>2. PICK i \in 1 .. Len(w) : w[i][1] <= d /\ d <= w[i][2]
    BY <2>1 DEF Spaced
  <2>3. i # 1 /\ i - 1 \in 1 .. Len(v) /\ v[i - 1] = w[i]
    BY <1>1, <2>1, <2>2
  <2> QED
    BY <2>2, <2>3
<1>5. ASSUME NEW i \in 1 .. Len(v)
      PROVE  /\ v[i][1] <= v[i][2] /\ v[i][2] - v[i][1] <= Span
             /\ v[i][1] \in R /\ v[i][2] \in R
  <2>1. v[i] = w[i + 1] /\ i + 1 \in 1 .. Len(w) /\ i + 1 \in 2 .. Len(w)
    BY <1>1
  <2>2. w[i + 1][1] \in S /\ w[i + 1][2] \in S
    BY <2>1 DEF Spaced
  <2>3. w[i + 1][1] \in R /\ w[i + 1][2] \in R
    BY <1>1, <1>2, <1>3, <2>1, <2>2
  <2> QED
    BY <2>1, <2>3 DEF Spaced
<1>6. ASSUME NEW i \in 1 .. Len(v), NEW j \in 1 .. Len(v), i < j
      PROVE  v[j][1] - v[i][1] > Span
  <2>1. v[i] = w[i + 1] /\ v[j] = w[j + 1] /\ i + 1 \in 1 .. Len(w) /\ j + 1 \in 1 .. Len(w)
    BY <1>1
  <2>2. i + 1 < j + 1
    BY <1>1, <1>6
  <2> QED
    BY <2>1, <2>2 DEF Spaced
<1> HIDE DEF R, v
<1>7. v \in Seq(Nat \X Nat)
  BY <1>1 DEF v
<1>8. Spaced(v, R)
  BY <1>4, <1>5, <1>6, <1>7 DEF Spaced
<1> QED
  BY <1>8 DEF R, v

\* The greedy argument: a window of any other cover reaches the beginning of
\* one of the spaced windows at most.
LEMMA SpacedIsFewest ==
    ASSUME NEW w, NEW S, S \subseteq Nat, IsFiniteSet(S), Spaced(w, S),
           NEW starts \in SUBSET S, Covers(starts, S)
    PROVE  Len(w) <= Cardinality(starts)
<1>0. Span \in Nat /\ Len(w) \in Nat /\ starts \subseteq Nat /\ IsFiniteSet(starts)
  <2>1. IsFiniteSet(starts)
    BY FS_Subset
  <2>2. w \in Seq(Nat \X Nat)
    BY DEF Spaced
  <2>3. Len(w) \in Nat
    BY <2>2
  <2>4. Span \in Nat
    BY AccessAssumption
  <2>5. starts \subseteq Nat
    OBVIOUS
  <2> QED
    BY <2>1, <2>3, <2>4, <2>5
<1> DEFINE Reaches(s, i) == s <= w[i][1] /\ w[i][1] - s <= Span
           f == [i \in 1 .. Len(w) |-> CHOOSE s \in starts : Reaches(s, i)]
<1>1. ASSUME NEW i \in 1 .. Len(w) PROVE f[i] \in starts /\ Reaches(f[i], i) /\ w[i][1] \in Nat
  <2>1. w[i][1] \in S
    BY DEF Spaced
  <2>2. \E s \in starts : Reaches(s, i)
    BY <2>1 DEF Covers
  <2>3. w[i][1] \in Nat
    BY <2>1
  <2> HIDE DEF Reaches
  <2> QED
    BY <2>2, <2>3
<1>2. ASSUME NEW i \in 1 .. Len(w), NEW j \in 1 .. Len(w), i < j PROVE f[i] # f[j]
  <2>1. w[j][1] - w[i][1] > Span
    BY <1>2 DEF Spaced
  <2>2. /\ f[i] \in Nat /\ f[i] <= w[i][1] /\ w[i][1] - f[i] <= Span
        /\ f[j] \in Nat /\ f[j] <= w[j][1] /\ w[j][1] - f[j] <= Span
    BY <1>0, <1>1
  <2>3. w[i][1] \in Nat /\ w[j][1] \in Nat
    BY <1>1
  <2> HIDE DEF f
  <2> QED
    BY <1>0, <2>1, <2>2, <2>3
<1>3. f \in [1 .. Len(w) -> starts]
  BY <1>1
<1>4. \A i, j \in 1 .. Len(w) : f[i] = f[j] => i = j
  <2> SUFFICES ASSUME NEW i \in 1 .. Len(w), NEW j \in 1 .. Len(w), i # j PROVE f[i] # f[j]
    OBVIOUS
  <2>1. i < j \/ j < i
    BY <1>0
  <2> HIDE DEF f
  <2> QED
    BY <1>2, <2>1
<1> HIDE DEF f
<1>5. f \in Injection(1 .. Len(w), starts)
  BY <1>3, <1>4 DEF Injection, IsInjective
<1>6. Cardinality(1 .. Len(w)) <= Cardinality(starts)
  BY <1>0, <1>5, FS_Injection
<1>7. Cardinality(1 .. Len(w)) = Len(w)
  <2>1. PICK n \in Nat : n = Len(w)
    BY <1>0
  <2>2. Cardinality(1 .. n) = IF 1 > n THEN 0 ELSE n - 1 + 1
    BY FS_Interval
  <2> QED
    BY <2>1, <2>2
<1> QED
  BY <1>6, <1>7

\* The windows left to request are spaced over the days left to price, and a
\* request under way is for the first of them.
WindowsHold ==
    \A c \in Candidates :
        /\ missing[c] \subseteq Days[c]
        /\ Spaced(windows[c], missing[c])
        /\ pc[c] \in Requesting => windows[c] # <<>>

\* Nothing is missing and nothing is to be requested.
LEMMA NothingSpaced == Spaced(<<>>, {})
BY DEF Spaced

\* Nothing is planned at the start.
LEMMA WindowsInitially == Init => WindowsHold
BY NothingSpaced DEF Init, WindowsHold, Requesting

\* A step that touches the windows of no candidate but c.
LEMMA WindowsFrame ==
    ASSUME TypeOK, WindowsHold, NEW c \in Candidates,
           \A d \in Candidates : d # c => pc'[d] = pc[d] /\ missing'[d] = missing[d]
                                          /\ windows'[d] = windows[d],
           missing'[c] \subseteq Days[c], Spaced(windows'[c], missing'[c]),
           pc'[c] \in Requesting => windows'[c] # <<>>
    PROVE  WindowsHold'
<1> SUFFICES ASSUME NEW d \in Candidates
             PROVE  /\ missing'[d] \subseteq Days[d]
                    /\ Spaced(windows'[d], missing'[d])
                    /\ pc'[d] \in Requesting => windows'[d] # <<>>
  BY DEF WindowsHold, Spaced, Requesting
<1> QED
  BY DEF WindowsHold

\* ensure_days plans the fewest windows and takes them one by one.
LEMMA FetchWindows ==
    ASSUME AccessInv, WindowsHold, NEW c \in Candidates, Fetch(c)
    PROVE  WindowsHold'
<1>0. /\ TypeOK /\ Days[c] \subseteq Nat /\ IsFiniteSet(Days[c]) /\ Days[c] \subseteq AllDays
      /\ missing[c] \subseteq Days[c] /\ Spaced(windows[c], missing[c])
      /\ pc[c] \in Requesting => windows[c] # <<>>
  BY AccessAssumption DEF AccessInv, WindowsHold, AllDays
<1>1. ASSUME NEW w, Goto(c, w)
      PROVE  \A d \in Candidates : pc'[d] = IF d = c THEN w ELSE pc[d]
  BY <1>0, <1>1 DEF Goto, TypeOK
<1>2. ASSUME NEW w, Goto(c, w), UNCHANGED <<windows, missing>>,
             w \in Requesting => windows[c] # <<>>
      PROVE  WindowsHold'
  BY <1>0, <1>1, <1>2, WindowsFrame
<1>3. ASSUME NEW w, Goto(c, w), w \notin Requesting, NEW v, NEW m, m \subseteq Days[c], Spaced(v, m),
             windows' = [windows EXCEPT ![c] = v], missing' = [missing EXCEPT ![c] = m]
      PROVE  WindowsHold'
  <2>1. \A d \in Candidates : /\ windows'[d] = IF d = c THEN v ELSE windows[d]
                              /\ missing'[d] = IF d = c THEN m ELSE missing[d]
    BY <1>0, <1>3 DEF TypeOK
  <2> QED
    BY <1>0, <1>1, <1>3, <2>1, WindowsFrame
<1>4. CASE TakeSlot(c) \/ MarketDone(c) \/ Return(c) \/ TakeLock(c) \/ CheckDays(c)
  <2>1. \E w : Goto(c, w) /\ w \notin Requesting /\ UNCHANGED <<windows, missing>>
    BY <1>4 DEF TakeSlot, MarketDone, Return, TakeLock, CheckDays, prices, Requesting
  <2> QED
    BY <1>2, <2>1
<1>5. CASE RequestWindow(c) \/ FallBack(c)
  <2>1. windows[c] # <<>> /\ UNCHANGED <<windows, missing>> /\ \E w : Goto(c, w)
    BY <1>0, <1>5 DEF RequestWindow, FallBack, prices, Requesting
  <2> QED
    BY <1>2, <2>1
<1>6. CASE Plan(c)
  <2> DEFINE lacking == Days[c] \ cached[Chain[c]]
  <2>1. /\ Goto(c, "check") /\ missing' = [missing EXCEPT ![c] = lacking]
        /\ windows' = [windows EXCEPT ![c] = BoundedDayWindows(lacking)]
    BY <1>6 DEF Plan
  <2>2. lacking \subseteq Days[c] /\ lacking \subseteq Nat /\ IsFiniteSet(lacking)
    BY <1>0, FS_Subset
  <2> HIDE DEF lacking
  <2>3. Spaced(BoundedDayWindows(lacking), lacking)
    BY <2>2, WindowsAreSpaced
  <2> QED
    BY <1>3, <2>1, <2>2, <2>3 DEF Requesting
<1>7. ASSUME NEW got \in SUBSET AllDays, WindowArrives(c, got) PROVE WindowsHold'
  <2>1. /\ Goto(c, "check") /\ pc[c] \in Requesting
        /\ windows' = [windows EXCEPT ![c] = Tail(windows[c])]
        /\ missing' = [missing EXCEPT ![c] = missing[c] \ Window(c)]
    BY <1>7 DEF WindowArrives, Requesting
  <2>2. missing[c] \ Window(c) = missing[c] \ (Head(windows[c])[1] .. Head(windows[c])[2])
    BY <1>0 DEF Window
  <2>3. Spaced(Tail(windows[c]), missing[c] \ Window(c))
    BY <1>0, <2>1, <2>2, SpacedTail
  <2>4. missing[c] \ Window(c) \subseteq Days[c]
    BY <1>0
  <2> QED
    BY <1>3, <2>1, <2>3, <2>4 DEF Requesting
<1>8. CASE WindowFails(c)
  <2>1. /\ Goto(c, "return") /\ windows' = [windows EXCEPT ![c] = <<>>]
        /\ missing' = [missing EXCEPT ![c] = {}]
    BY <1>8 DEF WindowFails
  <2>2. {} \subseteq Days[c]
    OBVIOUS
  <2> QED
    BY <1>3, <2>1, <2>2, NothingSpaced DEF Requesting
<1> QED
  BY <1>4, <1>5, <1>6, <1>7, <1>8 DEF Fetch

\* Every other step leaves the windows alone.
LEMMA WindowsPreserved == AccessInv /\ WindowsHold /\ [Next]_vars => WindowsHold'
<1> SUFFICES ASSUME AccessInv, WindowsHold, [Next]_vars PROVE WindowsHold'
  OBVIOUS
<1>1. ASSUME UNCHANGED <<pc, prices>> PROVE WindowsHold'
  BY <1>1 DEF prices, WindowsHold, Spaced, Requesting
<1>2. ASSUME NEW c \in Candidates, Request(c) PROVE UNCHANGED <<pc, prices>>
  BY <1>2 DEF Request, TakeToken, TakePermit, Responds, Decoded, BackoffOver
<1>3. CASE RefillTick \/ RefillAdd \/ AllDone \/ UNCHANGED vars
  BY <1>1, <1>3 DEF RefillTick, RefillAdd, AllDone, vars
<1> QED
  BY <1>1, <1>2, <1>3, FetchWindows DEF Next

\* bounded_day_windows and the loop over its windows in ensure_days: for any
\* days, what is left to request covers the missing days with the fewest
\* requests of at most Span days, each beginning and ending in a missing day.
THEOREM WindowsStayFewest == Spec => []WindowsAreFewest
<1>1. WindowsHold => WindowsAreFewest
  <2> SUFFICES ASSUME WindowsHold, NEW c \in Candidates
               PROVE  LET w == windows[c] IN
                      /\ \A d \in missing[c] : \E i \in DOMAIN w : w[i][1] <= d /\ d <= w[i][2]
                      /\ \A i \in DOMAIN w :
                            w[i][2] - w[i][1] <= Span /\ {w[i][1], w[i][2]} \subseteq missing[c]
                      /\ \A starts \in SUBSET missing[c] :
                            Covers(starts, missing[c]) => Len(w) <= Cardinality(starts)
    BY DEF WindowsAreFewest
  <2> DEFINE w == windows[c]
  <2>1. Spaced(w, missing[c]) /\ missing[c] \subseteq Nat /\ IsFiniteSet(missing[c])
    BY AccessAssumption, FS_Subset DEF WindowsHold
  <2> HIDE DEF w
  <2>2. DOMAIN w = 1 .. Len(w)
    BY <2>1 DEF Spaced
  <2>3. \A starts \in SUBSET missing[c] :
           Covers(starts, missing[c]) => Len(w) <= Cardinality(starts)
    BY <2>1, SpacedIsFewest
  <2>4. /\ \A d \in missing[c] : \E i \in DOMAIN w : w[i][1] <= d /\ d <= w[i][2]
        /\ \A i \in DOMAIN w :
              w[i][2] - w[i][1] <= Span /\ {w[i][1], w[i][2]} \subseteq missing[c]
    BY <2>1, <2>2 DEF Spaced
  <2> QED
    BY <2>3, <2>4 DEF w
<1> QED
  BY <1>1, AccessInvariant, WindowsInitially, WindowsPreserved, PTL DEF Spec
=============================================================================
