----------------------------- MODULE MCRelease -----------------------------
(* Two overlapping runs, two versions, candidates rc.0 and rc.1.            *)
EXTENDS Release, TLC

CONSTANTS r1, r2

MCRun == {r1, r2}
RunSymmetry == Permutations(MCRun)
=============================================================================
