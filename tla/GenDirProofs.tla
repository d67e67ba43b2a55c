---------------------------- MODULE GenDirProofs ----------------------------
(* Theorems about the extraction of .lgtmp, for any number of processes,    *)
(* builds and archives.                                                     *)
EXTENDS GenDir, TLAPS

(* Every variable stays within its type.                                    *)
LEMMA TypeCorrect == Spec => []TypeOK
<1>1. Init => TypeOK
  <2> SUFFICES ASSUME Init PROVE TypeOK
    OBVIOUS
  <2> USE DEF Init
  <2>1. pc \in [Proc -> {"idle", "exited"} \cup LivePC]
    OBVIOUS
  <2>2. bin \in [Proc -> Version]
    OBVIOUS
  <2>3. at \in [Proc -> Nat]
    OBVIOUS
  <2>4. todo \in [Proc -> SUBSET Name]
    OBVIOUS
  <2>5. exit \in [Proc -> {"none", "done"} \cup Failure]
    OBVIOUS
  <2>6. body \in [Name -> Mark \cup Version]
    BY DEF Mark
  <2>7. owner \in [Name -> Proc \cup {NoProc}]
    OBVIOUS
  <2>8. handle \in [Name -> SUBSET Proc]
    OBVIOUS
  <2>9. QED
    BY <2>1, <2>2, <2>3, <2>4, <2>5, <2>6, <2>7, <2>8 DEF TypeOK
<1>2. TypeOK /\ [Next]_vars => TypeOK'
  <2> SUFFICES ASSUME TypeOK, [Next]_vars PROVE TypeOK'
    OBVIOUS
  <2> USE DEF TypeOK
  <2>0. ASSUME NEW p \in Proc, NEW how \in {"done"} \cup Failure, End(p, how)
        PROVE TypeOK'
    BY <2>0 DEF End
  <2>1. ASSUME NEW p \in Proc, NEW v \in Version, Launch(p, v) PROVE TypeOK'
    BY <2>1 DEF Launch, treeVars, LivePC, ExtractPC
  <2>2. ASSUME NEW p \in Proc, NEW n \in Name, RemoveName(p, n) PROVE TypeOK'
    BY <2>2 DEF RemoveName, seenVars, Mark
  <2>3. ASSUME NEW p \in Proc, RemoveDir(p) PROVE TypeOK'
    BY <2>3 DEF RemoveDir, seenVars, LivePC, ExtractPC
  <2>4. ASSUME NEW p \in Proc, RemoveDirFails(p) PROVE TypeOK'
    BY <2>4, <2>0 DEF RemoveDirFails, Failure
  <2>5. ASSUME NEW p \in Proc, EnsureParent(p) PROVE TypeOK'
    BY <2>5 DEF EnsureParent, seenVars, LivePC, ExtractPC
  <2>6. ASSUME NEW p \in Proc, EndOfArchive(p) PROVE TypeOK'
    BY <2>6 DEF EndOfArchive, treeVars, seenVars, LivePC, ExtractPC
  <2>7. ASSUME NEW p \in Proc, CreateDir(p) PROVE TypeOK'
    <3>1. body' \in [Name -> Mark \cup Version]
      BY <2>7 DEF CreateDir, Mark
    <3>2. pc' \in [Proc -> {"idle", "exited"} \cup LivePC]
      BY <2>7 DEF CreateDir, LivePC, ExtractPC
    <3>3. at' \in [Proc -> Nat]
      BY <2>7 DEF CreateDir
    <3>4. QED
      BY <2>7, <3>1, <3>2, <3>3 DEF CreateDir, seenVars
  <2>8. ASSUME NEW p \in Proc, CreateFile(p) PROVE TypeOK'
    BY <2>8 DEF CreateFile, seenVars, LivePC, ExtractPC, Mark
  <2>9. ASSUME NEW p \in Proc, CreateFails(p) PROVE TypeOK'
    BY <2>9, <2>0 DEF CreateFails, Failure
  <2>10. ASSUME NEW p \in Proc, Copy(p) PROVE TypeOK'
    <3>1. Current(p) \in Name =>
            CopyResult(p, Current(p)) \in Mark \cup Version
      BY DEF CopyResult, Mark
    <3>2. body' \in [Name -> Mark \cup Version]
      BY <2>10, <3>1 DEF Copy
    <3>3. pc' \in [Proc -> {"idle", "exited"} \cup LivePC]
      BY <2>10 DEF Copy, LivePC, ExtractPC
    <3>4. at' \in [Proc -> Nat]
      BY <2>10 DEF Copy
    <3>5. handle' \in [Name -> SUBSET Proc]
      BY <2>10 DEF Copy
    <3>6. QED
      BY <2>10, <3>2, <3>3, <3>4, <3>5 DEF Copy, seenVars
  <2>11. ASSUME NEW p \in Proc, IOError(p) PROVE TypeOK'
    BY <2>11, <2>0 DEF IOError, Failure
  <2>12. ASSUME NEW p \in Proc, Start(p) PROVE TypeOK'
    BY <2>12 DEF Start, treeVars, seenVars, LivePC
  <2>13. ASSUME NEW p \in Proc, StartFails(p) PROVE TypeOK'
    BY <2>13, <2>0 DEF StartFails, Failure
  <2>14. ASSUME NEW p \in Proc, Finish(p) PROVE TypeOK'
    BY <2>14, <2>0 DEF Finish
  <2>15. ASSUME NEW p \in Proc, Kill(p) PROVE TypeOK'
    BY <2>15, <2>0 DEF Kill, Failure
  <2>16. CASE UNCHANGED vars
    BY <2>16 DEF vars, procVars, treeVars, seenVars
  <2>17. QED
    BY <2>1, <2>2, <2>3, <2>4, <2>5, <2>6, <2>7, <2>8, <2>9, <2>10, <2>11,
       <2>12, <2>13, <2>14, <2>15, <2>16 DEF Next, Step
<1>3. QED
  BY <1>1, <1>2, PTL DEF Spec

-----------------------------------------------------------------------------
(* While one process extracts, no other process is alone, before and after  *)
(* a step of the first that leaves disturbed and the others' pcs as they    *)
(* are.                                                                     *)
LEMMA OthersNotAlone ==
    ASSUME TypeOK, SoloInv, NEW p \in Proc, Extracting(p),
           disturbed' = disturbed, \A r \in Proc \ {p} : pc'[r] = pc[r]
    PROVE  \A r \in Proc \ {p} : ~Alone(r) /\ ~Alone(r)'
BY DEF SoloInv, Alone, Live

(* A name below the position is in the archive; at the end of the archive   *)
(* the converse holds too, so what is written is exactly the archive.       *)
LEMMA WrittenAll ==
    ASSUME TypeOK, NEW p \in Proc, at[p] = Entries(p) + 1, NEW n \in Name
    PROVE  Written(p, n) <=> InArchive(bin[p], n)
BY ArchiveAssumption DEF TypeOK, Written, InArchive, Entries

(* A process that creates or copies has a current entry.                    *)
LEMMA CurrentName ==
    ASSUME TypeOK, PositionInv, NEW p \in Proc, pc[p] \in {"create", "copy"}
    PROVE  Current(p) \in Name /\ InArchive(bin[p], Current(p))
<1>1. at[p] \in 1..Len(Archive[bin[p]]) /\ Archive[bin[p]] \in Seq(Name)
  BY ArchiveAssumption DEF TypeOK, PositionInv, Entries
<1>2. QED
  BY <1>1 DEF Current, InArchive

(* What an advance of the position by one adds to the written names.        *)
LEMMA WrittenNext ==
    ASSUME TypeOK, PositionInv, NEW p \in Proc, pc[p] \in {"create", "copy"},
           at' = [at EXCEPT ![p] = @ + 1], bin' = bin, NEW n \in Name
    PROVE  /\ Current(p) \in Name
           /\ InArchive(bin[p], Current(p))
           /\ ~Written(p, Current(p))
           /\ Written(p, n)' <=> Written(p, n) \/ n = Current(p)
<1>1. at[p] \in 1..Len(Archive[bin[p]]) /\ Archive[bin[p]] \in Seq(Name)
  BY ArchiveAssumption DEF TypeOK, PositionInv, Entries
<1>2. Current(p) \in Name
  BY <1>1 DEF Current
<1>3. InArchive(bin[p], Current(p))
  BY <1>1 DEF InArchive, Current
<1>4. ~Written(p, Current(p))
  BY <1>1, ArchiveAssumption DEF Written, Current, TypeOK
<1>5. at'[p] = at[p] + 1 /\ bin'[p] = bin[p]
  BY DEF TypeOK
<1>6. Written(p, n)' <=> \E i \in 1..at[p] : Archive[bin[p]][i] = n
  BY <1>5, <1>1 DEF Written
<1>7. (\E i \in 1..at[p] : Archive[bin[p]][i] = n)
        <=> Written(p, n) \/ n = Current(p)
  BY <1>1 DEF Written, Current
<1>8. QED
  BY <1>2, <1>3, <1>4, <1>6, <1>7

-----------------------------------------------------------------------------
(* The end of a process, whatever its reason, keeps AloneInv, provided its  *)
(* exit is one OnlyRacesFail allows.                                        *)
LEMMA EndKeepsAlone ==
    ASSUME TypeOK, AloneInv, NEW p \in Proc, NEW how \in {"done"} \cup Failure,
           End(p, how),
           how \in {"notempty", "noent", "chdir"}
               => p \in disturbed \/ Entries(p) = 0
    PROVE  AloneInv'
<1> USE DEF TypeOK, End, AloneInv
<1>1. /\ pc'[p] = "exited"
      /\ \A r \in Proc \ {p} : pc'[r] = pc[r]
  OBVIOUS
<1>2. \A r \in Proc : Alone(r)' => r # p /\ Alone(r)
  BY <1>1 DEF Alone, Live, LivePC, ExtractPC
<1>3. PositionInv'
  BY <1>1 DEF PositionInv, Entries
<1>4. SoloInv'
  BY <1>1, <1>2 DEF SoloInv, Extracting, ExtractPC
<1>5. LostInv'
  BY <1>1 DEF LostInv, Empty
<1>6. RemovingInv'
  BY <1>1, <1>2 DEF RemovingInv
<1>7. WritingInv'
  <2> SUFFICES ASSUME NEW r \in Proc, Alone(r)',
                      pc'[r] \in {"next", "create", "copy"}
               PROVE  WritingAt(r)'
    BY DEF WritingInv
  <2>1. r # p /\ pc'[r] = pc[r] /\ WritingAt(r)
    BY <1>1, <1>2 DEF WritingInv
  <2>2. pc[r] = "copy" => Current(r) \in Name
    BY <2>1, CurrentName
  <2>3. (Current(r))' = Current(r)
    BY DEF Current
  <2>4. QED
    BY <2>1, <2>2, <2>3 DEF WritingAt, Written, Expected, InArchive
<1>8. ReadyInv'
  BY <1>1, <1>2 DEF ReadyInv, Exact, Expected, InArchive, Entries
<1>9. OnlyRacesFail'
  BY DEF OnlyRacesFail, Entries
<1>10. QED
  BY <1>3, <1>4, <1>5, <1>6, <1>7, <1>8, <1>9

(* A new process is alone only if no other one is extracting, and from then *)
(* on no other process is.                                                  *)
LEMMA LaunchKeepsAlone ==
    ASSUME TypeOK, AloneInv, NEW p \in Proc, NEW v \in Version, Launch(p, v)
    PROVE  AloneInv'
<1> USE DEF TypeOK, Launch, AloneInv, treeVars
<1>1. /\ pc'[p] = IF dir THEN "removing" ELSE "next"
      /\ \A r \in Proc \ {p} : pc'[r] = pc[r] /\ at'[r] = at[r] /\ bin'[r] = bin[r]
      /\ at'[p] = 1
  OBVIOUS
<1>2. \A r \in Proc : Alone(r)' => r = p
  BY <1>1 DEF Alone, Live
<1>3. Alone(p)' => \A r \in Proc \ {p} : ~Extracting(r)
  BY <1>1 DEF Alone
<1>4. PositionInv'
  BY <1>1, ArchiveAssumption DEF PositionInv, Entries
<1>5. SoloInv'
  BY <1>1, <1>2, <1>3 DEF SoloInv, Extracting
<1>6. LostInv'
  BY <1>1 DEF LostInv, Empty, Live, LivePC
<1>7. RemovingInv'
  BY <1>1, <1>2 DEF RemovingInv
<1>8. WritingInv'
  BY <1>1, <1>2 DEF WritingInv, WritingAt, Written, LostInv, Empty
<1>9. ReadyInv'
  BY <1>1, <1>2 DEF ReadyInv
<1>10. OnlyRacesFail'
  BY <1>1 DEF OnlyRacesFail, Entries, Live, LivePC
<1>11. QED
  BY <1>4, <1>5, <1>6, <1>7, <1>8, <1>9, <1>10

(* The steps of an extraction: they leave disturbed and the other pcs as    *)
(* they are, so only the extracting process itself can be alone, and        *)
(* AloneInv need only be shown of that process.                             *)
LEMMA ExtractionKeepsAlone ==
    ASSUME TypeOK, AloneInv, NEW p \in Proc, Extracting(p),
           disturbed' = disturbed, exit' = exit, bin' = bin,
           \A r \in Proc \ {p} : pc'[r] = pc[r] /\ at'[r] = at[r],
           pc'[p] \in LivePC,
           PositionInv', LostInv',
           Alone(p)' => /\ pc'[p] = "removing" =>
                            \A n \in Name \ todo'[p] : body'[n] = "absent"
                        /\ pc'[p] \in {"next", "create", "copy"} => WritingAt(p)'
                        /\ pc'[p] \in {"ready", "using"} =>
                            (Exact(bin[p]) /\ (dir \/ Entries(p) = 0))'
    PROVE  AloneInv'
<1> USE DEF AloneInv
<1>1. \A r \in Proc \ {p} : ~Alone(r) /\ ~Alone(r)'
  BY OthersNotAlone
<1>2. Alone(p)' => Alone(p)
  BY DEF Alone, Live, LivePC, Extracting
<1>3. SoloInv'
  BY <1>1, <1>2 DEF SoloInv, Extracting
<1>4. RemovingInv'
  BY <1>1 DEF RemovingInv
<1>5. WritingInv'
  BY <1>1 DEF WritingInv
<1>6. ReadyInv'
  BY <1>1 DEF ReadyInv
<1>7. OnlyRacesFail'
  BY DEF OnlyRacesFail, Entries
<1>8. QED
  BY <1>3, <1>4, <1>5, <1>6, <1>7

(* RemoveName, RemoveDir, EnsureParent, EndOfArchive: no entry is written.  *)
LEMMA RemovalKeepsAlone ==
    ASSUME TypeOK, AloneInv, NEW p \in Proc,
           \/ \E n \in Name : RemoveName(p, n)
           \/ RemoveDir(p)
           \/ EnsureParent(p)
           \/ EndOfArchive(p)
    PROVE  AloneInv'
<1> USE DEF TypeOK, AloneInv, seenVars, treeVars
<1>1. ASSUME NEW n \in Name, RemoveName(p, n) PROVE AloneInv'
  <2>1. PositionInv'
    BY <1>1 DEF PositionInv, RemoveName, Entries
  <2>2. LostInv'
    BY <1>1 DEF LostInv, RemoveName, Empty
  <2>3. Alone(p)' => \A m \in Name \ todo'[p] : body'[m] = "absent"
    BY <1>1 DEF RemovingInv, RemoveName, Alone, Live
  <2>4. QED
    BY <1>1, <2>1, <2>2, <2>3, ExtractionKeepsAlone
       DEF RemoveName, Extracting, ExtractPC, LivePC
<1>2. CASE RemoveDir(p)
  <2>1. PositionInv'
    BY <1>2, ArchiveAssumption DEF PositionInv, RemoveDir, Entries
  <2>2. LostInv'
    BY <1>2 DEF LostInv, RemoveDir, Empty, SoloInv, Alone, Live, LivePC,
       Extracting, ExtractPC
  <2>3. Alone(p)' => WritingAt(p)'
    BY <1>2 DEF RemoveDir, WritingAt, Written, Empty, PositionInv
  <2>4. QED
    BY <1>2, <2>1, <2>2, <2>3, ExtractionKeepsAlone
       DEF RemoveDir, Extracting, ExtractPC, LivePC
<1>3. CASE EnsureParent(p)
  <2>1. PositionInv'
    BY <1>3, ArchiveAssumption DEF PositionInv, EnsureParent, Entries
  <2>2. LostInv'
    BY <1>3 DEF LostInv, EnsureParent
  <2>3. Alone(p)' => WritingAt(p)'
    BY <1>3 DEF EnsureParent, WritingInv, WritingAt, Written, Expected,
       InArchive, Alone, Live, LivePC, ExtractPC
  <2>4. QED
    BY <1>3, <2>1, <2>2, <2>3, ExtractionKeepsAlone
       DEF EnsureParent, Extracting, ExtractPC, LivePC
<1>4. CASE EndOfArchive(p)
  <2>1. PositionInv'
    BY <1>4 DEF PositionInv, EndOfArchive, Entries
  <2>2. LostInv'
    BY <1>4 DEF LostInv, EndOfArchive, Empty
  <2>3. ASSUME Alone(p)' PROVE (Exact(bin[p]) /\ (dir \/ Entries(p) = 0))'
    <3>1. WritingAt(p) /\ at[p] = Entries(p) + 1 /\ pc[p] = "next"
      <4>1. Entries(p) \in Nat
        BY ArchiveAssumption DEF Entries
      <4>2. at[p] = Entries(p) + 1 /\ pc[p] = "next"
        BY <1>4, <4>1 DEF EndOfArchive, PositionInv
      <4>3. QED
        BY <1>4, <2>3, <4>2 DEF EndOfArchive, WritingInv, Alone, Live, LivePC,
           ExtractPC
    <3>2. \A n \in Name : body[n] = Expected(bin[p], n)
      BY <3>1, WrittenAll DEF WritingAt, Expected
    <3>3. dir \/ Entries(p) = 0
      BY <3>1, ArchiveAssumption DEF WritingAt, Entries
    <3>4. QED
      BY <1>4, <3>2, <3>3 DEF EndOfArchive, Exact, Expected, InArchive, Entries
  <2>4. QED
    BY <1>4, <2>1, <2>2, <2>3, ExtractionKeepsAlone
       DEF EndOfArchive, Extracting, ExtractPC, LivePC
<1>5. QED
  BY <1>1, <1>2, <1>3, <1>4

(* CreateDir, CreateFile, Copy: the current entry is written.               *)
LEMMA EntryKeepsAlone ==
    ASSUME TypeOK, AloneInv, NEW p \in Proc,
           CreateDir(p) \/ CreateFile(p) \/ Copy(p)
    PROVE  AloneInv'
<1> USE DEF TypeOK, AloneInv, seenVars
<1> DEFINE c == Current(p)
<1>1. c \in Name /\ InArchive(bin[p], c)
  BY CurrentName DEF CreateDir, CreateFile, Copy
<1>2. CreateDir(p) \/ CreateFile(p) => LostInv'
  BY DEF LostInv, CreateDir, CreateFile
<1>3. Alone(p)' => WritingAt(p)
  BY DEF WritingInv, CreateDir, CreateFile, Copy, Alone, Live, LivePC, ExtractPC
<1>4. Entries(p) \in Nat
  BY ArchiveAssumption DEF Entries
<1>5. CASE CreateDir(p)
  <2>1. PositionInv'
    BY <1>4, <1>5 DEF PositionInv, CreateDir, Entries
  <2>2. at' = [at EXCEPT ![p] = @ + 1] /\ bin' = bin /\ pc[p] = "create"
    BY <1>5 DEF CreateDir
  <2>3. \A n \in Name : Written(p, n)' <=> Written(p, n) \/ n = c
    BY <2>2, WrittenNext
  <2>4. body'[c] = "dir" /\ \A n \in Name \ {c} : body'[n] = body[n]
    BY <1>1, <1>5 DEF CreateDir
  <2>5. Expected(bin[p], c) = "dir" /\ \A n \in Name :
            Expected(bin[p], n)' = Expected(bin[p], n)
    BY <1>1, <1>5 DEF CreateDir, Expected, InArchive
  <2>6. pc'[p] = "next" /\ dir' = dir /\ dir
    BY <1>5 DEF CreateDir
  <2>7. Alone(p)' => WritingAt(p)'
    BY <1>3, <2>2, <2>3, <2>4, <2>5, <2>6 DEF WritingAt
  <2>8. QED
    BY <1>2, <1>5, <2>1, <2>6, <2>7, ExtractionKeepsAlone
       DEF CreateDir, Extracting, ExtractPC, LivePC
<1>6. CASE CreateFile(p)
  <2>1. PositionInv'
    BY <1>6 DEF PositionInv, CreateFile, Entries
  <2>2. \A n \in Name : /\ Written(p, n)' <=> Written(p, n)
                        /\ Expected(bin[p], n)' = Expected(bin[p], n)
    BY <1>6 DEF CreateFile, Written, Expected, InArchive
  <2>3. c' = c
    BY <1>6 DEF CreateFile, Current
  <2>4. ~Written(p, c)
    <3>1. at[p] \in 1..Len(Archive[bin[p]]) /\ Archive[bin[p]] \in Seq(Name)
      BY <1>6, ArchiveAssumption DEF CreateFile, PositionInv, Entries
    <3>2. QED
      BY <3>1, ArchiveAssumption DEF Written, Current
  <2>5. /\ pc'[p] = "copy" /\ pc[p] = "create" /\ dir' /\ c \notin DirName
        /\ body'[c] = "partial" /\ owner'[c] = p /\ p \in handle'[c]
        /\ \A n \in Name \ {c} : body'[n] = body[n]
    BY <1>1, <1>6 DEF CreateFile
  <2>6. Alone(p)' => WritingAt(p)'
    BY <1>3, <2>2, <2>3, <2>4, <2>5 DEF WritingAt
  <2>7. QED
    BY <1>2, <1>6, <2>1, <2>6, ExtractionKeepsAlone
       DEF CreateFile, Extracting, ExtractPC, LivePC
<1>7. CASE Copy(p)
  <2>1. PositionInv'
    BY <1>4, <1>7 DEF PositionInv, Copy, Entries
  <2>2. at' = [at EXCEPT ![p] = @ + 1] /\ bin' = bin /\ pc[p] = "copy"
    BY <1>7 DEF Copy
  <2>3. /\ \A n \in Name : Written(p, n)' <=> Written(p, n) \/ n = c
        /\ ~Written(p, c)
    BY <1>1, <2>2, WrittenNext
  <2>4. body'[c] = CopyResult(p, c) /\ \A n \in Name \ {c} : body'[n] = body[n]
    BY <1>1, <1>7 DEF Copy
  <2>5. Alone(p)' => body[c] = "partial" /\ owner[c] = p /\ p \in handle[c]
                     /\ c \notin DirName
    <3>1. \A n \in Name : WritingAt(p) /\ ~Written(p, n) /\ n = Current(p)
                             => body[n] = "partial"
      BY <2>2 DEF WritingAt
    <3>2. WritingAt(p) => /\ Current(p) \notin DirName
                          /\ owner[Current(p)] = p
                          /\ p \in handle[Current(p)]
      BY <2>2 DEF WritingAt
    <3>3. QED
      BY <1>1, <1>3, <2>3, <3>1, <3>2
  <2>6. Alone(p)' => body'[c] = Expected(bin[p], c)
    BY <1>1, <2>4, <2>5 DEF CopyResult, Expected
  <2>7. \A n \in Name : Expected(bin[p], n)' = Expected(bin[p], n)
    BY <2>2 DEF Expected, InArchive
  <2>8. pc'[p] = "next" /\ dir' = dir
    BY <1>7 DEF Copy
  <2>9. Alone(p)' => WritingAt(p)'
    BY <1>3, <2>2, <2>3, <2>4, <2>6, <2>7, <2>8 DEF WritingAt
  <2>10. LostInv'
    <3>1. bin[p] # "absent"
      BY ArchiveAssumption DEF Mark
    <3>2. body'[c] = "absent" <=> body[c] = "absent"
      BY <1>1, <2>4, <3>1 DEF CopyResult, LostInv
    <3>3. ~dir => Empty'
      BY <2>4, <3>2 DEF LostInv, Empty
    <3>4. \A n \in Name : body'[n] = "absent" => handle'[n] = {}
      BY <1>7, <2>4, <3>2 DEF Copy, LostInv
    <3>5. QED
      BY <1>7, <3>3, <3>4 DEF Copy, LostInv
  <2>11. QED
    BY <1>7, <2>1, <2>9, <2>10, ExtractionKeepsAlone
       DEF Copy, Extracting, ExtractPC, LivePC
<1>8. QED
  BY <1>5, <1>6, <1>7

(* The directory's strengthened invariant holds of every behaviour.         *)
THEOREM AloneCorrect == Spec => []AloneInv
<1>1. Init => AloneInv
  BY DEF Init, AloneInv, PositionInv, SoloInv, LostInv, RemovingInv, WritingInv,
     ReadyInv, OnlyRacesFail, Alone, Live, LivePC, ExtractPC, Empty
<1>2. TypeOK /\ AloneInv /\ [Next]_vars => AloneInv'
  <2> SUFFICES ASSUME TypeOK, AloneInv, [Next]_vars PROVE AloneInv'
    OBVIOUS
  <2>1. ASSUME NEW p \in Proc, NEW v \in Version, Launch(p, v) PROVE AloneInv'
    BY <2>1, LaunchKeepsAlone
  <2>2. ASSUME NEW p \in Proc,
               \/ \E n \in Name : RemoveName(p, n)
               \/ RemoveDir(p)
               \/ EnsureParent(p)
               \/ EndOfArchive(p)
        PROVE  AloneInv'
    BY <2>2, RemovalKeepsAlone
  <2>3. ASSUME NEW p \in Proc, CreateDir(p) \/ CreateFile(p) \/ Copy(p)
        PROVE  AloneInv'
    BY <2>3, EntryKeepsAlone
  <2>4. ASSUME NEW p \in Proc, RemoveDirFails(p) PROVE AloneInv'
    <3>1. p \in disturbed
      BY <2>4 DEF RemoveDirFails, AloneInv, RemovingInv, Empty, Alone, Live,
         LivePC, ExtractPC
    <3>2. QED
      BY <2>4, <3>1, EndKeepsAlone DEF RemoveDirFails, Failure
  <2>5. ASSUME NEW p \in Proc, CreateFails(p) PROVE AloneInv'
    <3>1. p \in disturbed
      BY <2>5 DEF CreateFails, AloneInv, WritingInv, WritingAt, Alone, Live,
         LivePC, ExtractPC
    <3>2. QED
      BY <2>5, <3>1, EndKeepsAlone DEF CreateFails, Failure
  <2>6. ASSUME NEW p \in Proc, StartFails(p) PROVE AloneInv'
    <3>1. p \in disturbed \/ Entries(p) = 0
      BY <2>6 DEF StartFails, AloneInv, ReadyInv, Alone, Live, LivePC
    <3>2. QED
      BY <2>6, <3>1, EndKeepsAlone DEF StartFails, Failure
  <2>7. ASSUME NEW p \in Proc, IOError(p) \/ Finish(p) \/ Kill(p)
        PROVE  AloneInv'
    BY <2>7, EndKeepsAlone DEF IOError, Finish, Kill, Failure
  <2>8. ASSUME NEW p \in Proc, Start(p) PROVE AloneInv'
    <3>1. \A r \in Proc : Alone(r)' <=> Alone(r)
      BY <2>8 DEF Start, seenVars, Alone, Live, LivePC, TypeOK
    <3>2. PositionInv' /\ LostInv'
      BY <2>8, <3>1 DEF Start, treeVars, seenVars, AloneInv, PositionInv, LostInv,
         Empty, Entries, TypeOK
    <3>3. SoloInv'
      BY <2>8, <3>1 DEF Start, AloneInv, SoloInv, Extracting, ExtractPC, TypeOK
    <3>4. RemovingInv' /\ WritingInv'
      BY <2>8, <3>1 DEF Start, treeVars, AloneInv, RemovingInv, WritingInv,
         WritingAt, Written, Expected, InArchive, Current, TypeOK
    <3>5. ReadyInv'
      BY <2>8, <3>1 DEF Start, treeVars, AloneInv, ReadyInv, Exact, Expected,
         InArchive, Entries, TypeOK
    <3>6. OnlyRacesFail'
      BY <2>8 DEF Start, seenVars, AloneInv, OnlyRacesFail, Entries
    <3>7. QED
      BY <3>2, <3>3, <3>4, <3>5, <3>6 DEF AloneInv
  <2>9. CASE UNCHANGED vars
    BY <2>9 DEF vars, procVars, treeVars, seenVars, AloneInv, PositionInv,
       SoloInv, LostInv, RemovingInv, WritingInv, WritingAt, ReadyInv,
       OnlyRacesFail, Alone, Live, Extracting, Empty, Written, Expected,
       InArchive, Exact, Entries, Current
  <2>10. QED
    BY <2>1, <2>2, <2>3, <2>4, <2>5, <2>6, <2>7, <2>8, <2>9 DEF Next, Step
<1>3. QED
  BY <1>1, <1>2, TypeCorrect, PTL DEF Spec

(* A run that no other extraction overlapped hands its command exactly the  *)
(* tree of its own build, for any number of processes and any archives.     *)
THEOREM FreshTreeCorrect == Spec => []FreshTree
<1>1. AloneInv => FreshTree
  BY DEF AloneInv, ReadyInv, LostInv, FreshTree, Alone, Live, LivePC
<1>2. QED
  BY <1>1, AloneCorrect, PTL

(* Only an overlapping extraction makes rmdir, open or chdir fail.          *)
THEOREM OnlyRacesFailCorrect == Spec => []OnlyRacesFail
<1>1. AloneInv => OnlyRacesFail
  BY DEF AloneInv
<1>2. QED
  BY <1>1, AloneCorrect, PTL
-----------------------------------------------------------------------------
(* A descriptor belongs to a process that is copying into that file.        *)
LEMMA HandleCorrect == Spec => []HandleInv
<1>1. Init => HandleInv
  BY DEF Init, HandleInv
<1>2. TypeOK /\ PositionInv /\ HandleInv /\ [Next]_vars => HandleInv'
  <2> SUFFICES ASSUME TypeOK, PositionInv, HandleInv, [Next]_vars PROVE HandleInv'
    OBVIOUS
  <2> USE DEF TypeOK, HandleInv, seenVars, treeVars
  <2>0. ASSUME NEW p \in Proc, NEW how \in {"done"} \cup Failure, End(p, how)
        PROVE HandleInv'
    BY <2>0 DEF End, Current
  <2>1. ASSUME NEW p \in Proc, NEW v \in Version, Launch(p, v) PROVE HandleInv'
    BY <2>1 DEF Launch, Live, LivePC, ExtractPC, Current
  <2>2. ASSUME NEW p \in Proc, NEW n \in Name, RemoveName(p, n) PROVE HandleInv'
    BY <2>2 DEF RemoveName, Current
  <2>3. ASSUME NEW p \in Proc, RemoveDir(p) \/ EnsureParent(p) \/ EndOfArchive(p)
                               \/ Start(p)
        PROVE HandleInv'
    BY <2>3 DEF RemoveDir, EnsureParent, EndOfArchive, Start, Current
  <2>4. ASSUME NEW p \in Proc, CreateDir(p) PROVE HandleInv'
    BY <2>4 DEF CreateDir, Current
  <2>5. ASSUME NEW p \in Proc, CreateFile(p) PROVE HandleInv'
    <3>1. Current(p) \in Name
      BY <2>5, CurrentName DEF CreateFile
    <3>2. \A q \in Proc, n \in Name :
             q \in handle'[n] => q \in handle[n] \/ (q = p /\ n = Current(p))
      BY <2>5, <3>1 DEF CreateFile
    <3>3. \A q \in Proc : (Current(q))' = Current(q)
      BY <2>5 DEF CreateFile, Current
    <3>4. QED
      BY <2>5, <3>2, <3>3 DEF CreateFile
  <2>6. ASSUME NEW p \in Proc, Copy(p) PROVE HandleInv'
    <3>1. \A q \in Proc, n \in Name :
             q \in handle'[n] => q \in handle[n] /\ q # p
      BY <2>6 DEF Copy
    <3>2. \A q \in Proc \ {p} : (Current(q))' = Current(q) /\ pc'[q] = pc[q]
      BY <2>6 DEF Copy, Current
    <3>3. QED
      BY <3>1, <3>2
  <2>7. ASSUME NEW p \in Proc,
               RemoveDirFails(p) \/ CreateFails(p) \/ IOError(p) \/ StartFails(p)
               \/ Finish(p) \/ Kill(p)
        PROVE HandleInv'
    BY <2>7, <2>0 DEF RemoveDirFails, CreateFails, IOError, StartFails, Finish, Kill,
       Failure
  <2>8. CASE UNCHANGED vars
    BY <2>8 DEF vars, procVars, Current
  <2>9. QED
    BY <2>1, <2>2, <2>3, <2>4, <2>5, <2>6, <2>7, <2>8 DEF Next, Step
<1>3. AloneInv => PositionInv
  BY DEF AloneInv
<1>4. QED
  BY <1>1, <1>2, <1>3, TypeCorrect, AloneCorrect, PTL DEF Spec

(* What WaveInv says of one build and of one name.                          *)
Wave(v) == wave = {v} /\ ~spoiled

WaveName(v, n) ==
    /\ handle[n] # {} => \/ body[n] = v
                         \/ body[n] = "partial" /\ owner[n] \in handle[n]
    /\ \/ body[n] = Expected(v, n)
       \/ \E p \in Proc : Ahead(p, n)

(* The parts of the invariant that hold whether or not there is a wave.     *)
Ground == TypeOK /\ PositionInv /\ LostInv /\ HandleInv

(* In a wave of one build every extraction is of that build.                *)
LEMMA WaveBuild ==
    ASSUME WaveInv, NEW v \in Version, Wave(v), NEW p \in Proc, Extracting(p)
    PROVE  bin[p] = v
BY DEF WaveInv, Wave

(* A new process puts every name of its archive ahead, and every name that  *)
(* it must still remove.                                                    *)
LEMMA LaunchKeepsWave ==
    ASSUME Ground, WaveInv, NEW p \in Proc, NEW w \in Version, Launch(p, w)
    PROVE  WaveInv'
<1> USE DEF Ground, TypeOK, Launch, treeVars
<1>1. /\ pc'[p] = IF dir THEN "removing" ELSE "next"
      /\ at'[p] = 1 /\ bin'[p] = w /\ todo'[p] = IF dir THEN Name ELSE {}
      /\ \A q \in Proc \ {p} : /\ pc'[q] = pc[q] /\ at'[q] = at[q]
                               /\ bin'[q] = bin[q] /\ todo'[q] = todo[q]
  OBVIOUS
<1>2. \A q \in Proc : Extracting(q)' => bin'[q] \in wave'
  BY <1>1 DEF WaveInv, Extracting
<1>3. ASSUME NEW v \in Version, Wave(v)', NEW n \in Name PROVE WaveName(v, n)'
  <2>1. w = v
    BY <1>3 DEF Wave
  <2>2. CASE \E r \in Proc : Extracting(r)
    <3>1. Wave(v)
      BY <1>3, <2>2 DEF Wave, WaveInv
    <3>2. WaveName(v, n)
      BY <3>1 DEF WaveInv, Wave, WaveName
    <3>3. \A q \in Proc : Ahead(q, n) => Ahead(q, n)'
      <4> SUFFICES ASSUME NEW q \in Proc, Ahead(q, n) PROVE Ahead(q, n)'
        OBVIOUS
      <4>1. q # p
        BY DEF Ahead, Live, LivePC, ExtractPC
      <4>2. QED
        BY <1>1, <4>1 DEF Ahead, InArchive, Entries
    <3>4. QED
      BY <3>2, <3>3 DEF WaveName, Expected, InArchive
  <2>3. CASE ~\E r \in Proc : Extracting(r)
    <3>1. handle[n] = {}
      BY <2>3 DEF HandleInv, Extracting, ExtractPC
    <3>2. CASE dir
      <4>1. Ahead(p, n)'
        BY <1>1, <3>2 DEF Ahead
      <4>2. QED
        BY <3>1, <4>1 DEF WaveName
    <3>3. CASE ~dir
      <4>1. body[n] = "absent"
        BY <3>3 DEF LostInv, Empty
      <4>2. ASSUME InArchive(v, n) PROVE Ahead(p, n)'
        <5>1. PICK i \in 1..Len(Archive[v]) : Archive[v][i] = n
          BY <4>2 DEF InArchive
        <5>2. i \in at'[p]..(Entries(p))'
          BY <1>1, <2>1 DEF Entries
        <5>3. QED
          BY <1>1, <2>1, <3>3, <5>1, <5>2 DEF Ahead
      <4>3. ~InArchive(v, n) => body'[n] = Expected(v, n)'
        BY <4>1 DEF Expected, InArchive
      <4>4. QED
        BY <3>1, <4>2, <4>3 DEF WaveName
    <3>4. QED
      BY <3>2, <3>3
  <2>4. QED
    BY <2>2, <2>3
<1>4. QED
  BY <1>2, <1>3 DEF WaveInv, Wave, WaveName

(* A step of an extraction that leaves the wave as it is need only be shown *)
(* to keep what WaveInv says of every name, in a wave that it is part of.   *)
LEMMA StepKeepsWave ==
    ASSUME Ground, WaveInv, NEW p \in Proc, Extracting(p),
           bin' = bin, wave' = wave, spoiled' = spoiled,
           \A q \in Proc \ {p} : pc'[q] = pc[q],
           \A n \in Name : Wave(bin[p]) /\ WaveName(bin[p], n) => WaveName(bin[p], n)'
    PROVE  WaveInv'
<1>1. \A q \in Proc : Extracting(q)' => bin'[q] \in wave'
  BY DEF WaveInv, Extracting
<1>2. ASSUME NEW v \in Version, Wave(v)', NEW n \in Name PROVE WaveName(v, n)'
  <2>1. Wave(v)
    BY <1>2 DEF Wave
  <2>2. bin[p] = v
    BY <2>1, WaveBuild
  <2>3. WaveName(v, n)
    BY <2>1 DEF WaveInv, Wave, WaveName
  <2>4. QED
    BY <2>1, <2>2, <2>3
<1>3. QED
  BY <1>1, <1>2 DEF WaveInv, Wave, WaveName

(* Removal: what is removed and wanted is ahead of the process itself.      *)
LEMMA RemovalKeepsWave ==
    ASSUME Ground, WaveInv, NEW p \in Proc,
           \/ \E n \in Name : RemoveName(p, n)
           \/ RemoveDir(p)
           \/ EnsureParent(p)
           \/ EndOfArchive(p)
    PROVE  WaveInv'
<1> USE DEF Ground, TypeOK, seenVars, treeVars
<1>1. ASSUME NEW m \in Name, RemoveName(p, m) PROVE WaveInv'
  <2>1. ASSUME NEW n \in Name, WaveName(bin[p], n) PROVE WaveName(bin[p], n)'
    <3>1. CASE n = m
      <4>1. body'[n] = "absent" /\ handle'[n] = {}
        BY <1>1, <3>1 DEF RemoveName
      <4>2. InArchive(bin[p], n) => Ahead(p, n)'
        BY <1>1 DEF RemoveName, Ahead, InArchive
      <4>3. ~InArchive(bin[p], n) => body'[n] = Expected(bin[p], n)'
        BY <1>1, <4>1 DEF RemoveName, Expected, InArchive
      <4>4. QED
        BY <4>1, <4>2, <4>3 DEF WaveName
    <3>2. CASE n # m
      <4>1. /\ body'[n] = body[n] /\ handle'[n] = handle[n] /\ owner'[n] = owner[n]
            /\ bin' = bin
        BY <1>1, <3>2 DEF RemoveName
      <4>2. \A q \in Proc : Ahead(q, n) => Ahead(q, n)'
        BY <1>1, <3>2, <4>1 DEF RemoveName, Ahead, InArchive, Entries
      <4>3. Expected(bin[p], n)' = Expected(bin[p], n)
        BY <1>1 DEF RemoveName, Expected, InArchive
      <4>4. QED
        BY <2>1, <4>1, <4>2, <4>3 DEF WaveName
    <3>3. QED
      BY <3>1, <3>2
  <2>2. QED
    BY <1>1, <2>1, StepKeepsWave DEF RemoveName, Extracting, ExtractPC
<1>2. CASE RemoveDir(p)
  <2>1. ASSUME NEW n \in Name PROVE WaveName(bin[p], n)'
    <3>1. body'[n] = "absent" /\ handle'[n] = {}
      BY <1>2 DEF RemoveDir, Empty, LostInv
    <3>2. pc'[p] = "next" /\ at'[p] = 1 /\ bin' = bin
      BY <1>2 DEF RemoveDir, PositionInv
    <3>3. ASSUME InArchive(bin[p], n) PROVE Ahead(p, n)'
      <4>1. PICK i \in 1..Len(Archive[bin[p]]) : Archive[bin[p]][i] = n
        BY <3>3 DEF InArchive
      <4>2. i \in at'[p]..(Entries(p))'
        BY <3>2, <4>1 DEF Entries
      <4>3. QED
        BY <3>2, <4>1, <4>2 DEF Ahead
    <3>4. ~InArchive(bin[p], n) => body'[n] = Expected(bin[p], n)'
      BY <3>1, <3>2 DEF Expected, InArchive
    <3>5. QED
      BY <3>1, <3>3, <3>4 DEF WaveName
  <2>2. QED
    BY <1>2, <2>1, StepKeepsWave DEF RemoveDir, Extracting, ExtractPC
<1>3. CASE EnsureParent(p)
  <2>1. \A q \in Proc, n \in Name : Ahead(q, n) => Ahead(q, n)'
    BY <1>3 DEF EnsureParent, Ahead, InArchive, Entries
  <2>2. QED
    BY <1>3, <2>1, StepKeepsWave
       DEF EnsureParent, Extracting, ExtractPC, WaveName, Expected, InArchive
<1>4. CASE EndOfArchive(p)
  <2>1. \A n \in Name : ~Ahead(p, n)
    BY <1>4, ArchiveAssumption DEF EndOfArchive, Ahead, Entries
  <2>2. \A q \in Proc, n \in Name : Ahead(q, n) => Ahead(q, n)'
    BY <1>4, <2>1 DEF EndOfArchive, Ahead, InArchive, Entries
  <2>3. QED
    BY <1>4, <2>2, StepKeepsWave
       DEF EndOfArchive, Extracting, ExtractPC, WaveName, Expected, InArchive
<1>5. QED
  BY <1>1, <1>2, <1>3, <1>4

(* CreateDir, CreateFile: the current entry is as wanted, or ahead of the   *)
(* process that has just opened it.                                         *)
LEMMA CreateKeepsWave ==
    ASSUME Ground, WaveInv, NEW p \in Proc, CreateDir(p) \/ CreateFile(p)
    PROVE  WaveInv'
<1> USE DEF Ground, TypeOK, seenVars
<1> DEFINE c == Current(p)
<1>1. c \in Name /\ InArchive(bin[p], c)
  BY CurrentName DEF CreateDir, CreateFile
<1>2. at[p] \in 1..Entries(p) /\ Entries(p) \in Nat
  BY ArchiveAssumption DEF CreateDir, CreateFile, PositionInv, Entries
<1>3. \A n \in Name : Expected(bin[p], n)' = Expected(bin[p], n)
  BY DEF CreateDir, CreateFile, Expected, InArchive
<1>4. CASE CreateDir(p)
  <2>1. ASSUME NEW n \in Name, WaveName(bin[p], n) PROVE WaveName(bin[p], n)'
    <3>1. CASE n = c
      <4>1. handle'[n] = {} /\ body'[n] = "dir"
        BY <1>1, <1>4, <3>1 DEF CreateDir, HandleInv
      <4>2. Expected(bin[p], n) = "dir"
        BY <1>1, <1>4, <3>1 DEF CreateDir, Expected
      <4>3. QED
        BY <1>3, <4>1, <4>2 DEF WaveName
    <3>2. CASE n # c
      <4>1. /\ body'[n] = body[n] /\ handle'[n] = handle[n] /\ owner'[n] = owner[n]
            /\ bin' = bin
        BY <1>1, <1>4, <3>2 DEF CreateDir
      <4>2. ASSUME Ahead(p, n) PROVE Ahead(p, n)'
        <5>1. PICK i \in at[p]..Entries(p) : Archive[bin[p]][i] = n
          BY <1>4, <4>2 DEF Ahead, CreateDir
        <5>2. i # at[p]
          BY <3>2, <5>1 DEF Current
        <5>3. i \in at'[p]..(Entries(p))'
          BY <1>2, <1>4, <5>1, <5>2 DEF CreateDir, Entries
        <5>4. QED
          BY <1>4, <4>1, <5>1, <5>3 DEF Ahead, CreateDir
      <4>3. \A q \in Proc \ {p} : Ahead(q, n) => Ahead(q, n)'
        BY <1>4, <4>1 DEF CreateDir, Ahead, InArchive, Entries
      <4>4. QED
        BY <1>3, <2>1, <4>1, <4>2, <4>3 DEF WaveName
    <3>3. QED
      BY <3>1, <3>2
  <2>2. QED
    BY <1>4, <2>1, StepKeepsWave DEF CreateDir, Extracting, ExtractPC
<1>5. CASE CreateFile(p)
  <2>1. ASSUME NEW n \in Name, WaveName(bin[p], n) PROVE WaveName(bin[p], n)'
    <3>1. CASE n = c
      <4>1. /\ body'[n] = "partial" /\ owner'[n] = p /\ p \in handle'[n]
            /\ pc'[p] = "copy" /\ at'[p] = at[p] /\ bin'[p] = bin[p]
        BY <1>1, <1>5, <3>1 DEF CreateFile
      <4>2. at'[p] \in at'[p]..(Entries(p))' /\ Archive[bin'[p]][at'[p]] = n
        BY <1>2, <3>1, <4>1 DEF Entries, Current
      <4>3. Ahead(p, n)'
        BY <4>1, <4>2 DEF Ahead
      <4>4. QED
        BY <4>1, <4>3 DEF WaveName
    <3>2. CASE n # c
      <4>1. /\ body'[n] = body[n] /\ handle'[n] = handle[n] /\ owner'[n] = owner[n]
            /\ bin' = bin
        BY <1>1, <1>5, <3>2 DEF CreateFile
      <4>2. ASSUME Ahead(p, n) PROVE Ahead(p, n)'
        <5>1. PICK i \in at[p]..Entries(p) : Archive[bin[p]][i] = n
          BY <1>5, <4>2 DEF Ahead, CreateFile
        <5>2. i # at[p]
          BY <3>2, <5>1 DEF Current
        <5>3. i \in at'[p]..(Entries(p))' /\ i # at'[p] /\ pc'[p] = "copy"
          BY <1>5, <5>1, <5>2 DEF CreateFile, Entries
        <5>4. QED
          BY <4>1, <5>1, <5>3 DEF Ahead
      <4>3. \A q \in Proc \ {p} : Ahead(q, n) => Ahead(q, n)'
        BY <1>5, <4>1 DEF CreateFile, Ahead, InArchive, Entries
      <4>4. QED
        BY <1>3, <2>1, <4>1, <4>2, <4>3 DEF WaveName
    <3>3. QED
      BY <3>1, <3>2
  <2>2. QED
    BY <1>5, <2>1, StepKeepsWave DEF CreateFile, Extracting, ExtractPC
<1>6. QED
  BY <1>4, <1>5

(* In a wave of one build, whoever copies last into a file leaves that      *)
(* build's bytes: all descriptors on it write the same ones.                *)
LEMMA CopiedWell ==
    ASSUME Ground, WaveInv, NEW p \in Proc, Copy(p), Wave(bin[p])
    PROVE  LET c == Current(p)
           IN  p \in handle[c] =>
                 /\ body'[c] = bin[p] \/ (body'[c] = "partial" /\ owner[c] \in handle[c] \ {p})
                 /\ Expected(bin[p], c) = bin[p]
<1> USE DEF Ground, TypeOK
<1> DEFINE c == Current(p)
<1> SUFFICES ASSUME p \in handle[c]
             PROVE  /\ body'[c] = bin[p]
                          \/ (body'[c] = "partial" /\ owner[c] \in handle[c] \ {p})
                    /\ Expected(bin[p], c) = bin[p]
  OBVIOUS
<1>1. c \in Name /\ InArchive(bin[p], c)
  BY CurrentName DEF Copy
<1>2. c \notin DirName
  BY <1>1 DEF HandleInv
<1>3. Expected(bin[p], c) = bin[p]
  BY <1>1, <1>2 DEF Expected
<1>4. body[c] = bin[p] \/ (body[c] = "partial" /\ owner[c] \in handle[c])
  BY <1>1 DEF WaveInv, Wave
<1>5. owner[c] \in handle[c] => owner[c] \in Proc /\ bin[owner[c]] = bin[p]
  <2>1. owner[c] \in handle[c] => owner[c] \in Proc /\ Extracting(owner[c])
    BY <1>1 DEF HandleInv, Extracting, ExtractPC
  <2>2. QED
    BY <2>1, WaveBuild
<1>6. body'[c] = CopyResult(p, c)
  BY <1>1 DEF Copy
<1>7. Agrees(p, c)
  BY <1>4, <1>5 DEF Agrees
<1>8. bin[p] # "torn"
  BY ArchiveAssumption DEF Mark
<1>9. CASE owner[c] = p
  BY <1>3, <1>4, <1>6, <1>8, <1>9 DEF CopyResult
<1>10. CASE owner[c] # p
  <2>1. CopyResult(p, c) = body[c]
    BY <1>7, <1>10 DEF CopyResult
  <2>2. QED
    BY <1>3, <1>4, <1>6, <1>10, <2>1
<1>11. QED
  BY <1>9, <1>10

(* Copy: a file unlinked under the copy is ahead of another process; else   *)
(* it is as wanted, or ahead of the process that truncated it last.         *)
LEMMA CopyKeepsWave ==
    ASSUME Ground, WaveInv, NEW p \in Proc, Copy(p)
    PROVE  WaveInv'
<1> USE DEF Ground, TypeOK, seenVars
<1> DEFINE c == Current(p)
<1>1. c \in Name /\ InArchive(bin[p], c)
  BY CurrentName DEF Copy
<1>2. at[p] \in 1..Entries(p) /\ Entries(p) \in Nat /\ pc[p] = "copy"
  BY ArchiveAssumption DEF Copy, PositionInv, Entries
<1>3. \A n \in Name : Expected(bin[p], n)' = Expected(bin[p], n)
  BY DEF Copy, Expected, InArchive
<1>4. /\ owner' = owner /\ bin' = bin
      /\ \A q \in Proc \ {p} : pc'[q] = pc[q] /\ at'[q] = at[q]
      /\ \A n \in Name \ {c} : body'[n] = body[n] /\ handle'[n] = handle[n]
      /\ handle'[c] = handle[c] \ {p}
      /\ body'[c] = CopyResult(p, c)
  BY <1>1 DEF Copy
<1>5. \A q \in Proc \ {p}, n \in Name : Ahead(q, n) => Ahead(q, n)'
  BY <1>1, <1>4 DEF Copy, Ahead, InArchive, Entries
<1>6. ASSUME NEW n \in Name, Wave(bin[p]), WaveName(bin[p], n)
      PROVE  WaveName(bin[p], n)'
  <2>1. CASE n # c
    <3>1. ASSUME Ahead(p, n) PROVE Ahead(p, n)'
      <4>1. PICK i \in at[p]..Entries(p) : Archive[bin[p]][i] = n
        BY <1>2, <3>1 DEF Ahead
      <4>2. i # at[p]
        BY <2>1, <4>1 DEF Current
      <4>3. i \in at'[p]..(Entries(p))' /\ pc'[p] = "next"
        BY <1>2, <4>1, <4>2 DEF Copy, Entries
      <4>4. QED
        BY <1>4, <4>1, <4>3 DEF Ahead
    <3>2. QED
      BY <1>3, <1>4, <1>5, <1>6, <2>1, <3>1 DEF WaveName
  <2>2. CASE n = c /\ p \notin handle[c]
    <3>1. body'[c] = body[c] /\ handle'[c] = handle[c]
      BY <1>4, <2>2 DEF CopyResult
    <3>2. ~Ahead(p, c)
      BY <1>1, <1>2, <2>2, ArchiveAssumption DEF Ahead, Current, Entries
    <3>3. QED
      BY <1>3, <1>4, <1>5, <1>6, <2>2, <3>1, <3>2 DEF WaveName
  <2>3. CASE n = c /\ p \in handle[c]
    <3>1. /\ Expected(bin[p], c) = bin[p]
          /\ \/ body'[c] = bin[p]
             \/ body'[c] = "partial" /\ owner[c] \in handle[c] \ {p}
      BY <1>6, <2>3, CopiedWell
    <3>2. ASSUME NEW q \in handle[c] \ {p} PROVE q \in Proc /\ Ahead(q, n)'
      <4>1. q \in Proc \ {p} /\ pc[q] = "copy" /\ n = Current(q)
        BY <1>1, <2>3, <3>2 DEF HandleInv
      <4>2. at[q] \in at[q]..Entries(q)
        BY <4>1, ArchiveAssumption DEF PositionInv, Entries
      <4>3. Ahead(q, n)
        BY <2>3, <3>2, <4>1, <4>2 DEF Ahead, Current
      <4>4. QED
        BY <1>5, <4>1, <4>3
    <3>3. body'[n] = body'[c] /\ owner'[n] = owner[c] /\ handle'[n] = handle[c] \ {p}
      BY <1>4, <2>3
    <3>4. CASE body'[c] = bin[p]
      <4>1. body'[n] = bin'[p] /\ Expected(bin[p], n)' = bin[p]
        BY <1>3, <1>4, <2>3, <3>1, <3>3, <3>4
      <4>2. QED
        BY <1>4, <4>1 DEF WaveName
    <3>5. CASE body'[c] = "partial" /\ owner[c] \in handle[c] \ {p}
      <4>1. PICK q \in Proc : q = owner[c] /\ Ahead(q, n)'
        BY <3>2, <3>5
      <4>2. QED
        BY <3>3, <3>5, <4>1 DEF WaveName
    <3>6. QED
      BY <3>1, <3>4, <3>5
  <2>4. QED
    BY <2>1, <2>2, <2>3
<1>7. QED
  BY <1>2, <1>6, StepKeepsWave DEF Copy, Extracting, ExtractPC

(* A process that ends while it extracts spoils the wave; one that ends     *)
(* later had nothing ahead and no descriptor.                               *)
LEMMA EndKeepsWave ==
    ASSUME Ground, WaveInv, NEW p \in Proc, NEW how \in {"done"} \cup Failure,
           End(p, how)
    PROVE  WaveInv'
<1> USE DEF Ground, TypeOK, End
<1>1. \A q \in Proc : Extracting(q)' => bin'[q] \in wave'
  BY DEF WaveInv, Extracting, ExtractPC
<1>2. ASSUME NEW v \in Version, Wave(v)', NEW n \in Name PROVE WaveName(v, n)'
  <2>1. Wave(v) /\ ~Extracting(p)
    BY <1>2 DEF Wave
  <2>2. handle'[n] = handle[n]
    BY <2>1 DEF HandleInv, Extracting, ExtractPC
  <2>3. \A q \in Proc : Ahead(q, n) => Ahead(q, n)'
    BY <2>1, <2>2 DEF Ahead, Extracting, ExtractPC, InArchive, Entries
  <2>4. WaveName(v, n)
    BY <2>1 DEF WaveInv, Wave, WaveName
  <2>5. QED
    BY <2>2, <2>3, <2>4 DEF WaveName, Expected, InArchive
<1>3. QED
  BY <1>1, <1>2 DEF WaveInv, Wave, WaveName

(* Overlapping extractions of one build that all run to the end leave       *)
(* exactly that build's tree, for any number of them and any archive.       *)
THEOREM WaveConvergesCorrect == Spec => []WaveConverges
<1>1. Init => WaveInv
  BY DEF Init, WaveInv, Extracting, ExtractPC
<1>2. Ground /\ WaveInv /\ [Next]_vars => WaveInv'
  <2> SUFFICES ASSUME Ground, WaveInv, [Next]_vars PROVE WaveInv'
    OBVIOUS
  <2>1. ASSUME NEW p \in Proc, NEW v \in Version, Launch(p, v) PROVE WaveInv'
    BY <2>1, LaunchKeepsWave
  <2>2. ASSUME NEW p \in Proc,
               \/ \E n \in Name : RemoveName(p, n)
               \/ RemoveDir(p)
               \/ EnsureParent(p)
               \/ EndOfArchive(p)
        PROVE  WaveInv'
    BY <2>2, RemovalKeepsWave
  <2>3. ASSUME NEW p \in Proc, CreateDir(p) \/ CreateFile(p) PROVE WaveInv'
    BY <2>3, CreateKeepsWave
  <2>4. ASSUME NEW p \in Proc, Copy(p) PROVE WaveInv'
    BY <2>4, CopyKeepsWave
  <2>5. ASSUME NEW p \in Proc,
               RemoveDirFails(p) \/ CreateFails(p) \/ IOError(p) \/ StartFails(p)
               \/ Finish(p) \/ Kill(p)
        PROVE WaveInv'
    BY <2>5, EndKeepsWave DEF RemoveDirFails, CreateFails, IOError, StartFails, Finish,
       Kill, Failure
  <2>6. ASSUME NEW p \in Proc, Start(p) PROVE WaveInv'
    <3>1. \A q \in Proc : Extracting(q)' <=> Extracting(q)
      BY <2>6 DEF Start, Ground, TypeOK, Extracting, ExtractPC
    <3>2. \A q \in Proc, n \in Name : Ahead(q, n)' <=> Ahead(q, n)
      BY <2>6 DEF Start, treeVars, Ground, TypeOK, Ahead, InArchive, Entries
    <3>3. QED
      BY <2>6, <3>1, <3>2 DEF Start, treeVars, seenVars, WaveInv, Expected, InArchive
  <2>7. CASE UNCHANGED vars
    BY <2>7 DEF vars, procVars, treeVars, seenVars, WaveInv, Extracting, Ahead,
       Expected, InArchive, Entries
  <2>8. QED
    BY <2>1, <2>2, <2>3, <2>4, <2>5, <2>6, <2>7 DEF Next, Step
<1>3. TypeOK /\ AloneInv /\ HandleInv => Ground
  BY DEF AloneInv, Ground
<1>4. WaveInv => WaveConverges
  BY DEF WaveInv, WaveConverges, Exact, Ahead, Extracting, ExtractPC
<1>5. QED
  BY <1>1, <1>2, <1>3, <1>4, TypeCorrect, AloneCorrect, HandleCorrect, PTL DEF Spec

-----------------------------------------------------------------------------
(* The refinement.  The mapped variables, and what a step does to them.     *)
Stage   == [p \in Proc |-> IF Extracting(p) THEN "extracting" ELSE pc[p]]
Outcome == [p \in Proc |-> IF exit[p] \in RaceExit THEN "race" ELSE exit[p]]
Solo    == {p \in Proc : Alone(p)}
Whole   == {v \in Version : Exact(v)}

Promised == TypeOK /\ AloneInv /\ FreshTree /\ OnlyRacesFail /\ WaveConverges

(* A process's stage tells what the model's places tell.                    *)
LEMMA StageFacts ==
    ASSUME TypeOK, NEW p \in Proc
    PROVE  /\ Tree!Extracting(p) <=> Extracting(p)
           /\ Tree!Live(p) <=> Live(p)
           /\ Tree!Quiet(p) <=> \A q \in Proc \ {p} : ~Extracting(q)
           /\ ~Extracting(p) => Stage[p] = pc[p]
           /\ Extracting(p) => Stage[p] = "extracting"
<1>1. \A q \in Proc : Stage[q] = IF Extracting(q) THEN "extracting" ELSE pc[q]
  BY DEF Stage
<1>2. \A q \in Proc : Stage[q] = "extracting" <=> Extracting(q)
  BY <1>1 DEF Extracting, ExtractPC, TypeOK, LivePC
<1>3. \A q \in Proc : Tree!Extracting(q) <=> Extracting(q)
  BY <1>2 DEF Tree!Extracting, Stage
<1>4. Tree!Live(p) <=> Live(p)
  BY <1>1, <1>2 DEF Tree!Live, Stage, Live, LivePC, Extracting
<1>5. Tree!Quiet(p) <=> \A q \in Proc \ {p} : ~Extracting(q)
  BY <1>3 DEF Tree!Quiet
<1>6. QED
  BY <1>1, <1>3, <1>4, <1>5

(* A process that goes from one place to another, and those that stay.      *)
LEMMA StageMoves ==
    ASSUME TypeOK, NEW p \in Proc, NEW to \in {"idle", "exited"} \cup LivePC,
           pc' = [pc EXCEPT ![p] = to]
    PROVE  /\ to \in ExtractPC => Stage' = [Stage EXCEPT ![p] = "extracting"]
           /\ to \notin ExtractPC => Stage' = [Stage EXCEPT ![p] = to]
BY DEF Stage, Extracting, TypeOK

(* Steps that write no name leave the tree what it is.                      *)
LEMMA WholeStays ==
    ASSUME UNCHANGED body PROVE Whole' = Whole
BY DEF Whole, Exact, Expected, InArchive

(* A launch leaves at most the new process alone.                           *)
LEMMA LaunchMaps ==
    ASSUME TypeOK, NEW p \in Proc, NEW v \in Version, Launch(p, v)
    PROVE  Tree!Launch(p, v)
<1>1. ~Tree!Live(p) /\ (Tree!Quiet(p) <=> \A r \in Proc \ {p} : ~Extracting(r))
  BY StageFacts DEF Launch
<1>2. Stage' = [Stage EXCEPT ![p] = "extracting"]
  BY StageMoves DEF Launch, LivePC, ExtractPC
<1>3. Outcome' = [Outcome EXCEPT ![p] = "none"]
  BY DEF Launch, Outcome, TypeOK, RaceExit
<1>4. Solo' = {q \in {p} : Tree!Quiet(p)}
  <2>1. \A q \in Proc \ {p} : ~Alone(q)'
    BY DEF Launch, Alone, Live, TypeOK
  <2>2. Alone(p)' <=> \A r \in Proc \ {p} : ~Extracting(r)
    BY DEF Launch, Alone, Live, TypeOK, LivePC, ExtractPC
  <2>3. QED
    BY <1>1, <2>1, <2>2 DEF Solo
<1>5. ~Extracting(p)
  BY DEF Launch, Extracting, Live, LivePC
<1>6. Tree!Quiet(p) <=> ~\E r \in Proc : Extracting(r)
  BY <1>1, <1>5
<1>7. QED
  BY <1>1, <1>2, <1>3, <1>4, <1>6, WholeStays
     DEF Launch, treeVars, Tree!Launch, Stage, Outcome, Solo, Whole

(* A step inside an extraction.                                             *)
LEMMA ExtractMaps ==
    ASSUME Promised, Promised', NEW p \in Proc, Extracting(p),
           NEW to \in ExtractPC, pc' = [pc EXCEPT ![p] = to],
           lost' \in {lost, lost \cup {q \in Proc : pc[q] = "using"}},
           UNCHANGED <<bin, exit, seenVars>>
    PROVE  Tree!Extract(p)
<1> USE DEF Promised
<1>1. Tree!Extracting(p)
  BY StageFacts
<1>2. Stage' = Stage
  <2>1. Stage' = [Stage EXCEPT ![p] = "extracting"]
    BY StageMoves DEF LivePC
  <2>2. Stage[p] = "extracting" /\ Stage = [q \in Proc |-> Stage[q]]
    BY StageFacts DEF Stage
  <2>3. QED
    BY <2>1, <2>2
<1>3. Outcome' = Outcome
  BY DEF Outcome
<1>4. Solo' = Solo
  BY DEF Solo, Alone, Live, LivePC, Extracting, TypeOK, seenVars
<1>5. \A q \in lost' \ lost : Stage[q] = "using" /\ q \notin Solo
  <2> SUFFICES ASSUME NEW q \in lost' \ lost PROVE Stage[q] = "using" /\ q \notin Solo
    OBVIOUS
  <2>1. q \in Proc /\ pc[q] = "using" /\ ~Extracting(q) /\ q # p
    BY DEF Extracting, ExtractPC
  <2>2. ~Alone(q)
    BY <2>1 DEF AloneInv, SoloInv
  <2>3. QED
    BY <2>1, <2>2, StageFacts DEF Solo
<1>6. Whole' \in SUBSET Version /\ lost \subseteq lost'
  BY DEF Whole
<1>7. QED
  BY <1>1, <1>2, <1>3, <1>4, <1>5, <1>6
     DEF Tree!Extract, Stage, Outcome, Solo, Whole, seenVars

(* The end of an extraction.                                                *)
LEMMA CompleteMaps ==
    ASSUME Promised, Promised', NEW p \in Proc, EndOfArchive(p)
    PROVE  Tree!Complete(p)
<1> USE DEF Promised
<1>1. Extracting(p) /\ Tree!Extracting(p)
  BY StageFacts DEF EndOfArchive, Extracting, ExtractPC
<1>2. Stage' = [Stage EXCEPT ![p] = "ready"]
  BY StageMoves DEF EndOfArchive, LivePC, ExtractPC
<1>3. Outcome' = Outcome /\ Whole' = Whole
  BY WholeStays DEF EndOfArchive, treeVars, Outcome
<1>4. Solo' = Solo
  BY <1>1 DEF EndOfArchive, seenVars, Solo, Alone, Live, LivePC, Extracting, TypeOK
<1>5. pc'[p] = "ready" /\ (\A q \in Proc \ {p} : pc'[q] = pc[q]) /\ bin'[p] = bin[p]
      /\ bin[p] \in Version
  BY DEF EndOfArchive, TypeOK
<1>6. ASSUME Alone(p) PROVE bin[p] \in Whole
  <2>1. p \notin disturbed'
    BY <1>6 DEF Alone, EndOfArchive, seenVars
  <2>2. Exact(bin[p])'
    BY <1>5, <2>1 DEF FreshTree
  <2>3. QED
    BY <1>3, <1>5, <2>2 DEF Whole
<1>7. ASSUME Tree!Quiet(p), wave = {bin[p]}, ~spoiled PROVE bin[p] \in Whole
  <2>1. \A q \in Proc : ~Extracting(q)'
    BY <1>5, <1>7, StageFacts DEF Extracting, ExtractPC
  <2>2. Exact(bin[p])'
    BY <1>5, <1>7, <2>1 DEF WaveConverges, EndOfArchive, seenVars
  <2>3. QED
    BY <1>3, <1>5, <2>2 DEF Whole
<1>8. QED
  BY <1>1, <1>2, <1>3, <1>4, <1>6, <1>7
     DEF Tree!Complete, EndOfArchive, treeVars, seenVars, Stage, Outcome, Solo, Whole

(* The end of a process, whatever its reason.                               *)
LEMMA LeaveMaps ==
    ASSUME Promised, Promised', NEW p \in Proc,
           NEW how \in {"done"} \cup Failure, End(p, how),
           \/ how = "done" /\ pc[p] \in {"ready", "using"}
           \/ how \in {"notempty", "noent"} /\ Extracting(p)
           \/ how = "chdir" /\ pc[p] = "ready"
           \/ how = "io" /\ Extracting(p)
           \/ how = "killed" /\ Live(p)
    PROVE  Tree!Leave(p, IF how \in RaceExit THEN "race" ELSE how)
<1> USE DEF Promised
<1> DEFINE h == IF how \in RaceExit THEN "race" ELSE how
<1>1. Stage' = [Stage EXCEPT ![p] = "exited"]
  BY StageMoves DEF End, LivePC, ExtractPC
<1>2. Outcome' = [Outcome EXCEPT ![p] = h]
  BY DEF End, Outcome, TypeOK
<1>3. Solo' = Solo \ {p}
  BY DEF End, Solo, Alone, Live, LivePC, ExtractPC, TypeOK
<1>4. Whole' = Whole
  BY WholeStays DEF End
<1>5. /\ Tree!Extracting(p) <=> Extracting(p)
      /\ Tree!Live(p) <=> Live(p)
      /\ pc[p] \in {"ready", "using"} => Stage[p] = pc[p]
      /\ Extracting(p) => Stage[p] = "extracting"
  BY StageFacts DEF Extracting, ExtractPC
<1>6. h = "race" => p \notin Solo \/ bin[p] \in {v \in Version : Len(Archive[v]) = 0}
  <2>1. h = "race" => how \in RaceExit
    BY DEF Failure
  <2>2. h = "race" => p \in disturbed \/ Len(Archive[bin[p]]) = 0
    BY <2>1 DEF End, OnlyRacesFail, RaceExit, Entries, TypeOK
  <2>3. QED
    BY <2>2 DEF Solo, Alone, TypeOK
<1>7. \/ h = "done" /\ Stage[p] \in {"ready", "using"}
      \/ h = "race" /\ Stage[p] \in {"extracting", "ready"}
      \/ h = "io" /\ Tree!Extracting(p)
      \/ h = "killed" /\ Tree!Live(p)
  BY <1>5 DEF RaceExit
<1>8. QED
  BY <1>1, <1>2, <1>3, <1>4, <1>5, <1>6, <1>7
     DEF End, Tree!Leave, Stage, Outcome, Solo, Whole

(* Any number of processes, with any builds, killed anywhere, implement     *)
(* WorkingTree.                                                             *)
THEOREM TreeImplemented == Spec => ImplementsTree
<1>1. Init => Tree!Init
  <2> SUFFICES ASSUME Init PROVE Tree!Init
    OBVIOUS
  <2>1. Stage = [p \in Proc |-> "idle"] /\ Outcome = [p \in Proc |-> "none"]
    BY DEF Init, Stage, Outcome, Extracting, ExtractPC, RaceExit
  <2>2. Solo = {}
    BY DEF Init, Solo, Alone, Live, LivePC, ExtractPC
  <2>3. QED
    BY <2>1, <2>2 DEF Init, Tree!Init, Stage, Outcome, Solo
<1>2. Promised /\ Promised' /\ [Next]_vars => [Tree!Next]_(Tree!vars)
  <2> SUFFICES ASSUME Promised, Promised', [Next]_vars
               PROVE  Tree!Next \/ UNCHANGED Tree!vars
    OBVIOUS
  <2>1. ASSUME NEW p \in Proc, NEW v \in Version, Launch(p, v) PROVE Tree!Next
    BY <2>1, LaunchMaps DEF Promised, Tree!Next
  <2>2. ASSUME NEW p \in Proc,
               \/ \E n \in Name : RemoveName(p, n)
               \/ RemoveDir(p) \/ EnsureParent(p) \/ CreateDir(p) \/ CreateFile(p)
               \/ Copy(p)
        PROVE  Tree!Next
    <3>1. PICK to \in ExtractPC : pc' = [pc EXCEPT ![p] = to]
      <4>1. ASSUME NEW n \in Name, RemoveName(p, n)
            PROVE  pc' = [pc EXCEPT ![p] = "removing"]
        BY <4>1 DEF RemoveName, Promised, TypeOK
      <4>2. QED
        BY <2>2, <4>1 DEF RemoveDir, EnsureParent, CreateDir, CreateFile, Copy, ExtractPC
    <3>2. /\ Extracting(p) /\ UNCHANGED <<bin, exit, seenVars>>
          /\ lost' \in {lost, lost \cup {q \in Proc : pc[q] = "using"}}
      BY <2>2 DEF RemoveName, RemoveDir, EnsureParent, CreateDir, CreateFile, Copy,
                  Extracting, ExtractPC, seenVars
    <3>3. QED
      BY <3>1, <3>2, ExtractMaps DEF Tree!Next
  <2>3. ASSUME NEW p \in Proc, EndOfArchive(p) PROVE Tree!Next
    BY <2>3, CompleteMaps DEF Tree!Next
  <2>4. ASSUME NEW p \in Proc, NEW how \in {"done"} \cup Failure,
               Tree!Leave(p, IF how \in RaceExit THEN "race" ELSE how)
        PROVE  Tree!Next
    BY <2>4 DEF Tree!Next, Failure, RaceExit
  <2>5. ASSUME NEW p \in Proc,
               RemoveDirFails(p) \/ CreateFails(p) \/ IOError(p) \/ StartFails(p)
               \/ Finish(p) \/ Kill(p)
        PROVE  Tree!Next
    BY <2>4, <2>5, LeaveMaps
       DEF RemoveDirFails, CreateFails, IOError, StartFails, Finish, Kill, Failure,
           Extracting, ExtractPC
  <2>6. ASSUME NEW p \in Proc, Start(p) PROVE Tree!Next
    <3>1. Stage' = [Stage EXCEPT ![p] = "using"] /\ Stage[p] = "ready"
      BY <2>6, StageMoves, StageFacts
         DEF Promised, Start, LivePC, ExtractPC, Extracting
    <3>2. Solo' = Solo
      BY <2>6 DEF Promised, TypeOK, Start, seenVars, Solo, Alone, Live, LivePC
    <3>3. Whole' = Whole /\ Outcome' = Outcome
      BY <2>6, WholeStays DEF Start, treeVars, Outcome
    <3>4. Tree!Use(p)
      BY <2>6, <3>1, <3>2, <3>3
         DEF Start, treeVars, seenVars, Tree!Use, Stage, Outcome, Solo, Whole
    <3>5. QED
      BY <3>4 DEF Tree!Next
  <2>7. CASE UNCHANGED vars
    <3>1. Stage' = Stage /\ Outcome' = Outcome /\ Solo' = Solo /\ Whole' = Whole
      BY <2>7, WholeStays DEF vars, procVars, treeVars, seenVars, Stage, Outcome, Solo,
         Extracting, Alone, Live
    <3>2. QED
      BY <2>7, <3>1 DEF vars, procVars, treeVars, seenVars, Tree!vars, Stage, Outcome,
         Solo, Whole
  <2>8. QED
    BY <2>1, <2>2, <2>3, <2>5, <2>6, <2>7 DEF Next, Step
<1>3. QED
  BY <1>1, <1>2, TypeCorrect, AloneCorrect, FreshTreeCorrect, OnlyRacesFailCorrect,
     WaveConvergesCorrect, PTL DEF Spec, Promised, Tree!Spec, ImplementsTree
=============================================================================
