-------------------------- MODULE MCProviderAccess --------------------------
(* A small instance of ProviderAccess for TLC. *)
EXTENDS ProviderAccess

\* Three candidates for two slots; two of them share the prices of a chain,
\* with days of which one request covers some.
ThreeCandidates == 1 .. 3
SomeFamily == <<"evm", "evm", "evm">>
SomeChain == <<"ethereum", "ethereum", "polygon">>
SomeDays == <<{1, 3, 4}, {2, 4}, {1}>>
=============================================================================
