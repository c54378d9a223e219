--------------------------- MODULE MCProviderLane ---------------------------
(* A small instance of ProviderLane for TLC. *)
EXTENDS ProviderLane

\* The first two callers make different requests whose hashes collide; the
\* third repeats the first one's.
ThreeRequests == 1 .. 3
SomeIdentity == <<"i1", "i2", "i1">>
SomeFile == [i \in {"i1", "i2"} |-> "f"]
=============================================================================
