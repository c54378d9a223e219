--------------------------- MODULE MCRunArtifacts ---------------------------
(* A small instance of RunArtifacts for TLC. *)
EXTENDS RunArtifacts

TwoArtifacts == {"a1", "a2"}
TwoReports == <<"contract_index.jsonl", "all_chains.json">>
=============================================================================
