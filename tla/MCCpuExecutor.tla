--------------------------- MODULE MCCpuExecutor ---------------------------
(* Small instances of CpuExecutor for TLC. *)
EXTENDS CpuExecutor

\* One lane with one worker; two async and two blocking submitters.
OneLane == {"lane0"}
OneLaneWorkers == [l \in OneLane |-> 1]
FourTasks == 1 .. 4
TwoAsync == {1, 2}
MixedKinds == <<"ResponseDecode", "ResponseDecode", "Analysis", "Dedup">>

\* Two lanes with one worker each; the second task is the only async one.
TwoLanes == {"lane0", "lane1"}
TwoLaneWorkers == [l \in TwoLanes |-> 1]
OneAsync == {2}
EveryKind == <<"Analysis", "ResponseDecode", "Compress", "Dedup">>
=============================================================================
