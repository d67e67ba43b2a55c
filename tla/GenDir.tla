------------------------------- MODULE GenDir -------------------------------
(***************************************************************************)
(* The working directory .lgtmp that every lgtmp process rebuilds before    *)
(* it does anything else (src/fs.go).  init() calls EmbedFsToGenDirectory:  *)
(* os.RemoveAll of the directory, then one pass over the embedded tar that  *)
(* creates every entry.  Nothing locks the directory, so several lgtmp      *)
(* processes of one working directory, of the same or of different builds,  *)
(* interleave at the granularity of system calls, and a process may be      *)
(* killed between any two of them.                                          *)
(*                                                                         *)
(* The tree below .lgtmp is flat here: a name is one tar entry, and every   *)
(* entry's parent is .lgtmp itself.  os.RemoveAll is the external part: it  *)
(* reads directories once, unlinks what it saw, then calls rmdir, and       *)
(* reports the error of rmdir when something appeared in between.           *)
(***************************************************************************)
EXTENDS Naturals, Sequences

CONSTANTS Proc,     \* slots for lgtmp processes sharing one working directory
          Version,  \* builds of lgtmp, each with its own embedded tar
          Name,     \* tar entries
          DirName,  \* the entries that are directories
          Archive,  \* the entries of each build's tar, in order
          NoProc    \* "no process"

Mark == {"absent", "dir", "partial", "torn"}

ASSUME ArchiveAssumption ==
    /\ Archive \in [Version -> Seq(Name)]
    /\ \A v \in Version : \A i, j \in 1..Len(Archive[v]) :
          Archive[v][i] = Archive[v][j] => i = j
    /\ DirName \subseteq Name
    /\ Version \cap Mark = {}
    /\ NoProc \notin Proc

VARIABLES
    pc,      \* where each process is
    bin,     \* the build a process runs
    at,      \* index of the next tar entry of a process
    todo,    \* names that a process's RemoveAll has yet to visit
    exit,    \* how a process ended
    dir,     \* whether .lgtmp exists
    body,    \* what is stored under each name
    owner,   \* the process that last truncated the file of that name
    handle,  \* the processes holding an open descriptor on that file
    lost     \* processes whose command runs in a directory that was removed

(* Observation only: no action's guard reads these.                        *)
VARIABLES
    disturbed,  \* runs during which another process extracted
    spoiled,    \* an extraction of the current wave did not complete
    wave        \* the builds extracted since the directory was last quiet

procVars == <<pc, bin, at, todo, exit>>
treeVars == <<dir, body, owner, handle, lost>>
seenVars == <<disturbed, spoiled, wave>>
vars == <<procVars, treeVars, seenVars>>

ExtractPC == {"removing", "next", "create", "copy"}
LivePC    == ExtractPC \cup {"ready", "using"}
Failure   == {"io", "notempty", "noent", "chdir", "killed"}

Extracting(p) == pc[p] \in ExtractPC
Live(p)       == pc[p] \in LivePC

Entries(p)  == Len(Archive[bin[p]])
Current(p)  == Archive[bin[p]][at[p]]

Init ==
    /\ pc = [p \in Proc |-> "idle"]
    /\ bin \in [Proc -> Version]
    /\ at = [p \in Proc |-> 1]
    /\ todo = [p \in Proc |-> {}]
    /\ exit = [p \in Proc |-> "none"]
    /\ dir = FALSE
    /\ body = [n \in Name |-> "absent"]
    /\ owner = [n \in Name |-> NoProc]
    /\ handle = [n \in Name |-> {}]
    /\ lost = {}
    /\ disturbed = {}
    /\ spoiled = FALSE
    /\ wave = {}

-----------------------------------------------------------------------------
(* Mutant of End: the outcome recorded is the place where the run stopped.  *)
EndSomewhere(p, how) ==
    /\ pc' = [pc EXCEPT ![p] = "exited"]
    /\ exit' = [exit EXCEPT ![p] = pc[p]]
    /\ handle' = [n \in Name |-> handle[n] \ {p}]
    /\ lost' = lost \ {p}
    /\ spoiled' = (spoiled \/ Extracting(p))
    /\ UNCHANGED <<bin, at, todo, dir, body, owner, disturbed, wave>>

(* A process ends: its descriptors are closed by the kernel, and what it    *)
(* wrote stays as it is.                                                    *)
End(p, how) ==
    /\ pc' = [pc EXCEPT ![p] = "exited"]
    /\ exit' = [exit EXCEPT ![p] = how]
    /\ handle' = [n \in Name |-> handle[n] \ {p}]
    /\ lost' = lost \ {p}
    /\ spoiled' = (spoiled \/ Extracting(p))
    /\ UNCHANGED <<bin, at, todo, dir, body, owner, disturbed, wave>>

(* init() of a new process: RemoveAll returns at once if there is no        *)
(* directory, else it will visit every name, in any order.                  *)
Launch(p, v) ==
    /\ ~Live(p)
    /\ bin' = [bin EXCEPT ![p] = v]
    /\ at' = [at EXCEPT ![p] = 1]
    /\ exit' = [exit EXCEPT ![p] = "none"]
    /\ pc' = [pc EXCEPT ![p] = IF dir THEN "removing" ELSE "next"]
    /\ todo' = [todo EXCEPT ![p] = IF dir THEN Name ELSE {}]
    /\ disturbed' = {q \in Proc \ {p} : q \in disturbed \/ Live(q)}
                    \cup {q \in {p} : \E r \in Proc \ {p} : Extracting(r)}
    /\ LET quiet == ~\E r \in Proc : Extracting(r)
       IN /\ spoiled' = (~quiet /\ spoiled)
          /\ wave' = IF quiet THEN {v} ELSE wave \cup {v}
    /\ UNCHANGED treeVars

(* RemoveAll visits one name: unlink it, or find that it is not there.      *)
RemoveName(p, n) ==
    /\ pc[p] = "removing"
    /\ n \in todo[p]
    /\ todo' = [todo EXCEPT ![p] = @ \ {n}]
    /\ body' = [body EXCEPT ![n] = "absent"]
    /\ owner' = [owner EXCEPT ![n] = NoProc]
    /\ handle' = [handle EXCEPT ![n] = {}]
    /\ UNCHANGED <<pc, bin, at, exit, dir, lost, seenVars>>

Empty == \A n \in Name : body[n] = "absent"

(* RemoveAll's final rmdir.  Commands running in the directory keep the     *)
(* unlinked directory as their working directory.                           *)
RemoveDir(p) ==
    /\ pc[p] = "removing"
    /\ todo[p] = {}
    /\ Empty
    /\ pc' = [pc EXCEPT ![p] = "next"]
    /\ dir' = FALSE
    /\ lost' = lost \cup {q \in Proc : pc[q] = "using"}
    /\ UNCHANGED <<bin, at, todo, exit, body, owner, handle, seenVars>>

(* Mutant of RemoveDirFails: "somebody else is extracting already" taken    *)
(* for success.                                                             *)
RemoveDirTrusts(p) ==
    /\ pc[p] = "removing"
    /\ todo[p] = {}
    /\ ~Empty
    /\ pc' = [pc EXCEPT ![p] = "ready"]
    /\ UNCHANGED <<bin, at, todo, exit, treeVars, seenVars>>

(* rmdir finds the directory populated again: os.Exit(1).                   *)
RemoveDirFails(p) ==
    /\ pc[p] = "removing"
    /\ todo[p] = {}
    /\ ~Empty
    /\ End(p, "notempty")

(* Mutant of EnsureParent: the parent is assumed to be there.               *)
AssumeParent(p) ==
    /\ pc[p] = "next"
    /\ at[p] <= Entries(p)
    /\ pc' = [pc EXCEPT ![p] = "create"]
    /\ UNCHANGED <<bin, at, todo, exit, treeVars, seenVars>>

(* tr.Next, then MkdirAll of the parent.                                    *)
EnsureParent(p) ==
    /\ pc[p] = "next"
    /\ at[p] <= Entries(p)
    /\ pc' = [pc EXCEPT ![p] = "create"]
    /\ dir' = TRUE
    /\ UNCHANGED <<bin, at, todo, exit, body, owner, handle, lost, seenVars>>

(* Mutant of EndOfArchive: the last entry is taken for the end.             *)
EndBeforeLast(p) ==
    /\ pc[p] = "next"
    /\ at[p] >= Entries(p)
    /\ pc' = [pc EXCEPT ![p] = "ready"]
    /\ UNCHANGED <<bin, at, todo, exit, treeVars, seenVars>>

(* io.EOF: init() returns and main proceeds.                                *)
EndOfArchive(p) ==
    /\ pc[p] = "next"
    /\ at[p] > Entries(p)
    /\ pc' = [pc EXCEPT ![p] = "ready"]
    /\ UNCHANGED <<bin, at, todo, exit, treeVars, seenVars>>

(* Mkdir of a directory entry; the loop continues with the next header.     *)
CreateDir(p) ==
    /\ pc[p] = "create"
    /\ dir
    /\ Current(p) \in DirName
    /\ pc' = [pc EXCEPT ![p] = "next"]
    /\ at' = [at EXCEPT ![p] = @ + 1]
    /\ body' = [body EXCEPT ![Current(p)] = "dir"]
    /\ UNCHANGED <<bin, todo, exit, dir, owner, handle, lost, seenVars>>

(* OpenFile with O_CREATE|O_TRUNC.                                          *)
CreateFile(p) ==
    /\ pc[p] = "create"
    /\ dir
    /\ Current(p) \notin DirName
    /\ pc' = [pc EXCEPT ![p] = "copy"]
    /\ body' = [body EXCEPT ![Current(p)] = "partial"]
    /\ owner' = [owner EXCEPT ![Current(p)] = p]
    /\ handle' = [handle EXCEPT ![Current(p)] = @ \cup {p}]
    /\ UNCHANGED <<bin, at, todo, exit, dir, lost, seenVars>>

(* Another process removed the parent between MkdirAll and this call.       *)
CreateFails(p) ==
    /\ pc[p] = "create"
    /\ ~dir
    /\ End(p, "noent")

(* The content after p's io.Copy and Close.  The descriptor may refer to a  *)
(* file that was unlinked (no name changes), to one that was truncated      *)
(* again by another process (which then completes it, unless the two        *)
(* builds' bytes differ), or to the file p itself truncated last.           *)
Agrees(p, n) ==
    \/ body[n] = bin[p]
    \/ body[n] = "partial" /\ owner[n] \in handle[n] /\ bin[owner[n]] = bin[p]

CopyResult(p, n) ==
    CASE p \notin handle[n]                                -> body[n]
      [] p \in handle[n] /\ owner[n] # p /\ Agrees(p, n)   -> body[n]
      [] p \in handle[n] /\ owner[n] # p /\ ~Agrees(p, n)  -> "torn"
      [] p \in handle[n] /\ owner[n] = p ->
            IF body[n] = "torn" THEN "torn" ELSE bin[p]

Copy(p) ==
    /\ pc[p] = "copy"
    /\ pc' = [pc EXCEPT ![p] = "next"]
    /\ at' = [at EXCEPT ![p] = @ + 1]
    /\ body' = [body EXCEPT ![Current(p)] = CopyResult(p, Current(p))]
    /\ handle' = [handle EXCEPT ![Current(p)] = @ \ {p}]
    /\ UNCHANGED <<bin, todo, exit, dir, owner, lost, seenVars>>

(* Mutants of IOError: a failed copy is skipped; the extraction is retried. *)
SkipFailedCopy(p) ==
    /\ pc[p] = "copy"
    /\ pc' = [pc EXCEPT ![p] = "next"]
    /\ at' = [at EXCEPT ![p] = @ + 1]
    /\ handle' = [handle EXCEPT ![Current(p)] = @ \ {p}]
    /\ UNCHANGED <<bin, todo, exit, dir, body, owner, lost, seenVars>>

RetryExtraction(p) ==
    /\ Extracting(p)
    /\ pc' = [pc EXCEPT ![p] = "removing"]
    /\ at' = [at EXCEPT ![p] = 1]
    /\ todo' = [todo EXCEPT ![p] = Name]
    /\ handle' = [n \in Name |-> handle[n] \ {p}]
    /\ UNCHANGED <<bin, exit, dir, body, owner, lost, seenVars>>

(* Any call of EmbedFsToGenDirectory fails: the error is printed, exit 1.   *)
IOError(p) == Extracting(p) /\ End(p, "io")

-----------------------------------------------------------------------------
(* What main does with the tree.  A command that needs make starts it with  *)
(* Dir = GenDir; version, help and usage errors just return.                *)
Start(p) ==
    /\ pc[p] = "ready"
    /\ dir
    /\ pc' = [pc EXCEPT ![p] = "using"]
    /\ UNCHANGED <<bin, at, todo, exit, treeVars, seenVars>>

StartFails(p) ==
    /\ pc[p] = "ready"
    /\ ~dir
    /\ End(p, "chdir")

Finish(p) == pc[p] \in {"ready", "using"} /\ End(p, "done")

(* A signal with its default action, before ExecuteCommand installs its     *)
(* handler, or SIGKILL at any time.                                         *)
Kill(p) == Live(p) /\ End(p, "killed")

Step(p) ==
    \/ \E n \in Name : RemoveName(p, n)
    \/ RemoveDir(p)
    \/ RemoveDirFails(p)
    \/ EnsureParent(p)
    \/ EndOfArchive(p)
    \/ CreateDir(p)
    \/ CreateFile(p)
    \/ CreateFails(p)
    \/ Copy(p)

Next == \E p \in Proc :
    \/ \E v \in Version : Launch(p, v)
    \/ Step(p)
    \/ IOError(p)
    \/ Start(p)
    \/ StartFails(p)
    \/ Finish(p)
    \/ Kill(p)

Spec == Init /\ [][Next]_vars

(* A running process is scheduled.  Nothing obliges anybody to launch,      *)
(* kill or finish a process.                                                *)
FairSpec == Spec /\ \A p \in Proc : WF_vars(Step(p))

-----------------------------------------------------------------------------
TypeOK ==
    /\ pc \in [Proc -> {"idle", "exited"} \cup LivePC]
    /\ bin \in [Proc -> Version]
    /\ at \in [Proc -> Nat]
    /\ todo \in [Proc -> SUBSET Name]
    /\ exit \in [Proc -> {"none", "done"} \cup Failure]
    /\ dir \in BOOLEAN
    /\ body \in [Name -> Mark \cup Version]
    /\ owner \in [Name -> Proc \cup {NoProc}]
    /\ handle \in [Name -> SUBSET Proc]
    /\ lost \subseteq Proc
    /\ disturbed \subseteq Proc
    /\ spoiled \in BOOLEAN
    /\ wave \subseteq Version

(* What a complete extraction of build v leaves under name n.               *)
InArchive(v, n) == \E i \in 1..Len(Archive[v]) : Archive[v][i] = n
Expected(v, n) ==
    IF ~InArchive(v, n) THEN "absent" ELSE IF n \in DirName THEN "dir" ELSE v
Exact(v) == \A n \in Name : body[n] = Expected(v, n)

(* A run that no other extraction overlapped hands its command exactly the  *)
(* tree of its own build: nothing missing, nothing half-written, nothing    *)
(* left over from a build, a crash or a failed run before it.               *)
FreshTree ==
    \A p \in Proc : pc[p] \in {"ready", "using"} /\ p \notin disturbed =>
        Exact(bin[p]) /\ p \notin lost

(* The errors that another process can provoke (rmdir: directory not        *)
(* empty, open: no such file, chdir into a removed directory) are never     *)
(* seen by a run that had the directory for itself, whatever state earlier  *)
(* runs left behind; an empty archive aside, which leaves no directory.     *)
OnlyRacesFail ==
    \A p \in Proc : exit[p] \in {"notempty", "noent", "chdir"} =>
        p \in disturbed \/ Entries(p) = 0

(* Overlapping extractions of one build that all run to the end repair      *)
(* each other's removals: when the last of them is through, the tree is     *)
(* exactly that build's, however they interleaved.                          *)
WaveConverges ==
    \A v \in Version :
        wave = {v} /\ ~spoiled /\ (\A p \in Proc : ~Extracting(p)) => Exact(v)

-----------------------------------------------------------------------------
(* The strengthening that makes FreshTree and OnlyRacesFail inductive.  A    *)
(* process is alone while no extraction but its own has run since it        *)
(* started; its pc, its todo and its position then determine the tree.      *)
Alone(p) == Live(p) /\ p \notin disturbed

Written(p, n) == \E i \in 1..(at[p] - 1) : Archive[bin[p]][i] = n

PositionInv ==
    \A p \in Proc :
        /\ pc[p] = "removing" => at[p] = 1
        /\ pc[p] \in {"next", "create", "copy"} => at[p] \in 1..(Entries(p) + 1)
        /\ pc[p] \in {"create", "copy"} => at[p] <= Entries(p)

SoloInv ==
    \A p, q \in Proc : p # q /\ Alone(p) => ~Extracting(q)

LostInv ==
    /\ ~dir => Empty
    /\ \A n \in Name : body[n] = "absent" => handle[n] = {}
    /\ \A q \in lost : q \in disturbed /\ pc[q] = "using"

RemovingInv ==
    \A p \in Proc : Alone(p) /\ pc[p] = "removing" =>
        \A n \in Name \ todo[p] : body[n] = "absent"

WritingAt(p) ==
    /\ \A n \in Name :
          body[n] = IF Written(p, n) THEN Expected(bin[p], n)
                    ELSE IF pc[p] = "copy" /\ n = Current(p) THEN "partial"
                    ELSE "absent"
    /\ pc[p] = "next" => dir \/ at[p] = 1
    /\ pc[p] # "next" => dir
    /\ pc[p] = "copy" => /\ Current(p) \notin DirName
                         /\ owner[Current(p)] = p
                         /\ p \in handle[Current(p)]

WritingInv ==
    \A p \in Proc : Alone(p) /\ pc[p] \in {"next", "create", "copy"} => WritingAt(p)

ReadyInv ==
    \A p \in Proc : Alone(p) /\ pc[p] \in {"ready", "using"} =>
        Exact(bin[p]) /\ (dir \/ Entries(p) = 0)

AloneInv ==
    /\ PositionInv
    /\ SoloInv
    /\ LostInv
    /\ RemovingInv
    /\ WritingInv
    /\ ReadyInv
    /\ OnlyRacesFail

(* The strengthening that makes WaveConverges inductive: while all of a     *)
(* wave's runs are of one build and none has failed, a name that is not yet *)
(* as that build wants it still lies ahead of some process of the wave.  A  *)
(* process that is copying into a file unlinked under it no longer counts.  *)
Ahead(p, n) ==
    \/ pc[p] = "removing" /\ (InArchive(bin[p], n) \/ n \in todo[p])
    \/ /\ pc[p] \in {"next", "create", "copy"}
       /\ \E i \in at[p]..Entries(p) :
             /\ Archive[bin[p]][i] = n
             /\ pc[p] = "copy" /\ i = at[p] => p \in handle[n]

HandleInv ==
    \A p \in Proc, n \in Name :
        p \in handle[n] => /\ pc[p] = "copy"
                           /\ n = Current(p)
                           /\ n \notin DirName

WaveInv ==
    /\ \A p \in Proc : Extracting(p) => bin[p] \in wave
    /\ \A v \in Version : wave = {v} /\ ~spoiled =>
          \A n \in Name :
             /\ handle[n] # {} =>
                   \/ body[n] = v
                   \/ body[n] = "partial" /\ owner[n] \in handle[n]
             /\ \/ body[n] = Expected(v, n)
                \/ \E p \in Proc : Ahead(p, n)

-----------------------------------------------------------------------------
(* The refinement mapping.                                                  *)
RaceExit == {"notempty", "noent", "chdir"}

Tree == INSTANCE WorkingTree
           WITH Bare    <- {v \in Version : Len(Archive[v]) = 0},
                stage   <- [p \in Proc |-> IF Extracting(p) THEN "extracting"
                                           ELSE pc[p]],
                build   <- bin,
                outcome <- [p \in Proc |-> IF exit[p] \in RaceExit THEN "race"
                                           ELSE exit[p]],
                alone   <- {p \in Proc : Alone(p)},
                whole   <- {v \in Version : Exact(v)}

(* The processes of a working directory, at the granularity of system       *)
(* calls, keep to WorkingTree: whoever uses the tree undisturbed uses its   *)
(* own build's, and only an extraction ever changes it.                     *)
ImplementsTree == Tree!Spec

-----------------------------------------------------------------------------
(* Every extraction ends, with the command ready to run or an exit, even    *)
(* while other processes keep creating and removing the same names.         *)
ExtractionEnds == \A p \in Proc : Extracting(p) ~> ~Extracting(p)
=============================================================================
