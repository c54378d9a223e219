-------------------------- MODULE MCEvidenceCache --------------------------
(* A small instance of EvidenceCache for TLC. *)
EXTENDS EvidenceCache

\* The second registry relates the first contract to a second seed and no
\* longer has the second contract as a candidate.
TwoContracts == {1, 2}
TwoSeeds == {"s1", "s2"}
TwoRegistries == {<<{"s1"}, {"s1"}>>, <<{"s1", "s2"}, {}>>}

\* Contract 1 is a legitimate duplicate of the first seed only.
SomeLegit == {<<1, "s1">>}

\* The core families fail, or the holders together with the families that have
\* no retry rule.
SomeFailures == {{}, {"core"}, {"holders", "relations", "controllers"}}
NoFailures == {{}}
=============================================================================
