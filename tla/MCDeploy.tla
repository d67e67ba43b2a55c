------------------------------ MODULE MCDeploy ------------------------------
(* Two runs of make; the two modes of one application, of which both change *)
(* the templates, one the environment and both Alloy's pipeline.            *)
EXTENDS Deploy, TLC

CONSTANTS r1, r2

TwoRuns == {r1, r2}
RunSymmetry == Permutations(TwoRuns)

Traces  == {<<Mono, "traces">>, <<Micro, "traces">>}
=============================================================================
