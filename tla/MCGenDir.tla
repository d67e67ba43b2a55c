------------------------------ MODULE MCGenDir ------------------------------
(* Two process slots and two builds; the older build has a file (old) that  *)
(* the newer one dropped, both have the directory d and the file f.         *)
EXTENDS GenDir, TLC

CONSTANTS p1, p2, v1, v2, d, f, old

MCProc    == {p1, p2}
MCVersion == {v1, v2}
MCName    == {d, f, old}
MCDirName == {d}
MCArchive == v1 :> <<d, f, old>> @@ v2 :> <<d, f>>
=============================================================================
