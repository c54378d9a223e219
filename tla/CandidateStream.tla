-------------------------- MODULE CandidateStream --------------------------
(***************************************************************************)
(* What execute_dedup promises the candidate pipeline: the abstract view of *)
(* the bounded candidate_tx / candidate_rx channel.  Prefetch hints come    *)
(* first (the base wave, then the exact wave), Frozen records after the     *)
(* last hint, every candidate is frozen once, and dedup ends well only when *)
(* all of them are.  Dedup may fail at any point; the sender is dropped     *)
(* either way.                                                              *)
(***************************************************************************)
EXTENDS CandidateRecords

CONSTANTS
    BatchCapacity,     \* CANDIDATE_BATCH_CAPACITY: candidates per message
    ChannelCapacity    \* messages; network_queue_capacity in the code

ASSUME StreamAssumption ==
    BatchCapacity \in Nat \ {0} /\ ChannelCapacity \in Nat \ {0}

VARIABLES
    channel,    \* messages sent and not yet received
    hinted,     \* <<wave, candidate>> pairs published as Prefetch
    frozen,     \* candidates published as Frozen
    outcome     \* "open" while dedup runs, then "ok" or "failed"

streamVars == <<channel, hinted, frozen, outcome>>

Hint(wave) == IF wave = "base" THEN Base ELSE Exact

\* Candidates the wave has a hint for.
Hintable(wave) == {c \in Candidates : Hint(wave)[c] # NoRecord}

AllHints == {"base"} \X Hintable("base") \cup {"exact"} \X Hintable("exact")

Batches == {S \in SUBSET Candidates : S # {} /\ Cardinality(S) <= BatchCapacity}

StreamInit ==
    /\ channel = <<>>
    /\ hinted = {}
    /\ frozen = {}
    /\ outcome = "open"

\* One blocking_send of a Prefetch message.
PublishPrefetch(wave, S) ==
    /\ outcome = "open"
    /\ Len(channel) < ChannelCapacity
    /\ S \subseteq Hintable(wave)
    /\ ({wave} \X S) \cap hinted = {}
    /\ wave = "exact" => {"base"} \X Hintable("base") \subseteq hinted
    /\ hinted' = hinted \cup ({wave} \X S)
    /\ channel' = Append(channel, [kind |-> "Prefetch", recs |-> [c \in S |-> Hint(wave)[c]]])
    /\ UNCHANGED <<frozen, outcome>>

\* One blocking_send of a Frozen message.
PublishFrozen(S) ==
    /\ outcome = "open"
    /\ Len(channel) < ChannelCapacity
    /\ hinted = AllHints
    /\ S \cap frozen = {}
    /\ frozen' = frozen \cup S
    /\ channel' = Append(channel, [kind |-> "Frozen", recs |-> [c \in S |-> Final(c)]])
    /\ UNCHANGED <<hinted, outcome>>

FinishDedup ==
    /\ outcome = "open"
    /\ frozen = Candidates
    /\ outcome' = "ok"
    /\ UNCHANGED <<channel, hinted, frozen>>

FailDedup ==
    /\ outcome = "open"
    /\ outcome' = "failed"
    /\ UNCHANGED <<channel, hinted, frozen>>

Receive ==
    /\ channel # <<>>
    /\ channel' = Tail(channel)
    /\ UNCHANGED <<hinted, frozen, outcome>>

Publish ==
    \/ \E wave \in {"base", "exact"}, S \in Batches : PublishPrefetch(wave, S)
    \/ \E S \in Batches : PublishFrozen(S)
    \/ FinishDedup

StreamNext == Publish \/ FailDedup \/ Receive

StreamSpec == StreamInit /\ [][StreamNext]_streamVars

=============================================================================
