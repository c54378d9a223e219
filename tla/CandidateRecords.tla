-------------------------- MODULE CandidateRecords --------------------------
(***************************************************************************)
(* The records that travel from dedup to the candidate pipeline.            *)
(*                                                                          *)
(* A CandidateRecord is abstracted to the seeds that have a relation with   *)
(* the candidate and to the union of the relations' NftSelections.  A       *)
(* selection is a set of points: the NFTs of the contract and one more      *)
(* point that only AllInContract contains.  Explicit{nfts} is the set nfts, *)
(* AllInContract is Points, so union_assign is \cup (AllInContract absorbs) *)
(* and selection_covers is set inclusion (no Explicit covers AllInContract).*)
(***************************************************************************)
EXTENDS Integers, Sequences, FiniteSets

CONSTANTS
    Candidates,
    Seeds,
    Points,
    Base,       \* Base[c]: relations found by the URI and Name passes
    Exact,      \* Exact[c]: relations found by the exact Metadata wave
    Bm25        \* Bm25[c]: relations found by the BM25 Metadata wave

Record == [seeds : SUBSET Seeds, sel : SUBSET Points]

NoRecord == [seeds |-> {}, sel |-> {}]

ASSUME RecordsAssumption ==
    /\ IsFiniteSet(Candidates)
    /\ Base \in [Candidates -> Record]
    /\ Exact \in [Candidates -> Record]
    /\ Bm25 \in [Candidates -> Record]

\* merge_prefetch_relations, merge_relations: dimensions, seeds and
\* selections accumulate.
Merge(a, b) == [seeds |-> a.seeds \cup b.seeds, sel |-> a.sel \cup b.sel]

\* The record a candidate is frozen with.
Final(c) == Merge(Merge(Base[c], Exact[c]), Bm25[c])

SelectionCovers(prefetched, required) == required.sel \subseteq prefetched.sel

\* prefetch_can_finalize
PrefetchCanFinalize(succeeded, prefetched, required) ==
    /\ succeeded
    /\ SelectionCovers(prefetched, required)
    /\ required.seeds \subseteq prefetched.seeds

=============================================================================
