----------------------- MODULE MCPrefetchCoordinator -----------------------
(* A small instance of PrefetchCoordinator on its own for TLC. *)
EXTENDS PrefetchCoordinator

Rec(seeds, sel) == [seeds |-> seeds, sel |-> sel]

\* Candidate 1 has two hints of which neither covers the other, candidate 2
\* has one hint that is widened to the whole contract, candidate 3 only the
\* base hint.
HintedCandidates == {1, 2, 3}
HintSeeds == {"s1", "s2"}
HintPoints == {"n1", "n2", "all"}
HintBase == <<Rec({"s1"}, {"n1"}), Rec({"s1"}, {"n1"}), Rec({"s2"}, HintPoints)>>
HintExact == <<Rec({"s2"}, {"n2"}), Rec({"s1"}, HintPoints), NoRecord>>
HintBm25 == [c \in HintedCandidates |-> NoRecord]
=============================================================================
