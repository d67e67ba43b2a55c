----------------------------- MODULE WorkingTree -----------------------------
(***************************************************************************)
(* What the commands that share a working directory may rely upon.  No      *)
(* name, file, system call or descriptor is seen here: only who extracts,   *)
(* who uses the tree, and of which builds the tree is an exact copy.        *)
(* GenDir is shown to implement this specification.                         *)
(***************************************************************************)
CONSTANTS Proc,     \* lgtmp processes
          Version,  \* builds
          Bare      \* those builds that embed nothing

VARIABLES
    stage,    \* "idle", "extracting", "ready", "using" or "exited"
    build,    \* the build each process runs
    outcome,  \* "none", "done", "race", "io" or "killed"
    alone,    \* running, and no other extraction since the start
    whole,    \* the builds of which the tree is an exact copy
    lost,     \* those whose command runs in a directory that was removed
    wave,     \* the builds extracted since nobody was extracting
    spoiled   \* one of these extractions did not complete

vars == <<stage, build, outcome, alone, whole, lost, wave, spoiled>>

Extracting(p) == stage[p] = "extracting"
Live(p)       == stage[p] \in {"extracting", "ready", "using"}
Quiet(p)      == \A q \in Proc \ {p} : ~Extracting(q)

Init ==
    /\ stage = [p \in Proc |-> "idle"]
    /\ build \in [Proc -> Version]
    /\ outcome = [p \in Proc |-> "none"]
    /\ alone = {} /\ lost = {} /\ wave = {} /\ spoiled = FALSE
    /\ whole \in SUBSET Version

(* A new process ends the solitude of all others.                           *)
Launch(p, v) ==
    /\ ~Live(p)
    /\ stage' = [stage EXCEPT ![p] = "extracting"]
    /\ build' = [build EXCEPT ![p] = v]
    /\ outcome' = [outcome EXCEPT ![p] = "none"]
    /\ alone' = {q \in {p} : Quiet(p)}
    /\ wave' = IF Quiet(p) THEN {v} ELSE wave \cup {v}
    /\ spoiled' = (~Quiet(p) /\ spoiled)
    /\ UNCHANGED <<whole, lost>>

(* Only somebody who extracts changes the tree, and takes it from no        *)
(* command that has been alone.                                             *)
Extract(p) ==
    /\ Extracting(p)
    /\ whole' \in SUBSET Version
    /\ lost \subseteq lost'
    /\ \A q \in lost' \ lost : stage[q] = "using" /\ q \notin alone
    /\ UNCHANGED <<stage, build, outcome, alone, wave, spoiled>>

(* The extraction is through.  If it was alone, or is the last of a wave of *)
(* one build that completed, the tree is the build's.                       *)
Complete(p) ==
    /\ Extracting(p)
    /\ p \in alone \/ (Quiet(p) /\ wave = {build[p]} /\ ~spoiled) =>
          build[p] \in whole
    /\ stage' = [stage EXCEPT ![p] = "ready"]
    /\ UNCHANGED <<build, outcome, alone, whole, lost, wave, spoiled>>

Use(p) ==
    /\ stage[p] = "ready"
    /\ stage' = [stage EXCEPT ![p] = "using"]
    /\ UNCHANGED <<build, outcome, alone, whole, lost, wave, spoiled>>

(* A process ends, and the tree stays as it is.  No race is lost alone.     *)
Leave(p, how) ==
    /\ \/ how = "done"   /\ stage[p] \in {"ready", "using"}
       \/ how = "race"   /\ stage[p] \in {"extracting", "ready"}
                         /\ (p \notin alone \/ build[p] \in Bare)
       \/ how = "io"     /\ Extracting(p)
       \/ how = "killed" /\ Live(p)
    /\ stage' = [stage EXCEPT ![p] = "exited"]
    /\ outcome' = [outcome EXCEPT ![p] = how]
    /\ alone' = alone \ {p}
    /\ lost' = lost \ {p}
    /\ spoiled' = (spoiled \/ Extracting(p))
    /\ UNCHANGED <<build, whole, wave>>

Next == \E p \in Proc :
    \/ \E v \in Version : Launch(p, v)
    \/ Extract(p) \/ Complete(p) \/ Use(p)
    \/ \E how \in {"done", "race", "io", "killed"} : Leave(p, how)

Spec == Init /\ [][Next]_vars
=============================================================================
