------------------------ MODULE MCCandidatePipeline ------------------------
(* Small instances of CandidatePipeline and PrefetchCoordinator for TLC. *)
EXTENDS CandidatePipeline

TwoSeeds == {"s1", "s2"}
NftPoints == {"n1", "n2", "all"}
Whole == NftPoints

Rec(seeds, sel) == [seeds |-> seeds, sel |-> sel]

\* Candidate 1 is upgraded by the exact wave to a wider selection; the hint
\* of candidate 2 covers its selection but misses the seed BM25 adds.
TwoCandidates == {1, 2}
TwoBase == <<Rec({"s1"}, {"n1"}), Rec({"s1"}, Whole)>>
TwoExact == <<Rec({"s1"}, Whole), NoRecord>>
TwoBm25 == <<NoRecord, Rec({"s2"}, {"n1"})>>
=============================================================================
