------------------------ MODULE MCDedupCoordinator ------------------------
(* A small instance of DedupCoordinator for TLC. *)
EXTENDS DedupCoordinator

Rec(seeds, sel) == [seeds |-> seeds, sel |-> sel]

\* Candidate 1 is found by all passes and by both seed batches, candidate 2
\* has no Metadata owner, candidate 3 is found by the BM25 wave only.
ThreeCandidates == {1, 2, 3}
TwoSeeds == {"s1", "s2"}
NftPoints == {"n1", "n2", "all"}
SomeOwners == <<1, 0, 2>>
SomeBase == <<Rec({"s1"}, {"n1"}), Rec({"s1"}, {"n1"}), NoRecord>>
SomeExactOf ==
    <<<<Rec({"s1"}, {"n2"}), NoRecord, NoRecord>>,
      <<Rec({"s2"}, NftPoints), NoRecord, NoRecord>>>>
SomeBm25Of ==
    <<<<Rec({"s1"}, NftPoints), NoRecord, NoRecord>>,
      <<NoRecord, NoRecord, Rec({"s2"}, {"n1"})>>>>
SomeExact == <<Rec(TwoSeeds, NftPoints), NoRecord, NoRecord>>
SomeBm25 == <<Rec({"s1"}, NftPoints), NoRecord, Rec({"s2"}, {"n1"})>>
=============================================================================
