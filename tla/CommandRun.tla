----------------------------- MODULE CommandRun -----------------------------
(***************************************************************************)
(* What a shell that calls "lgtmp up|down|deploy|delete ..." is promised:   *)
(* one make is begun at most, its outcome and the user's wish to stop it    *)
(* decide the exit status, and the status is final.  ExecuteCommand is      *)
(* shown to implement this specification.                                   *)
(***************************************************************************)
VARIABLES
    work,    \* "idle", "running", "ok", "failed" or "killed"
    asked,   \* lgtmp has taken note of a request to stop
    status   \* "none", "zero", "one" or "signal"

vars == <<work, asked, status>>

Init ==
    /\ work = "idle"
    /\ asked = FALSE
    /\ status = "none"

(* make starts, or cannot be started, which is reported as a failure.       *)
Begin ==
    /\ status = "none" /\ work = "idle"
    /\ work' = "running"
    /\ UNCHANGED <<asked, status>>

CannotBegin ==
    /\ status = "none" /\ work = "idle"
    /\ status' = "one"
    /\ UNCHANGED <<work, asked>>

(* make ends by itself, possibly after lgtmp is gone.                       *)
WorkEnds ==
    /\ work = "running"
    /\ work' \in {"ok", "failed"}
    /\ UNCHANGED <<asked, status>>

Ask ==
    /\ status = "none" /\ work # "idle"
    /\ asked' = TRUE
    /\ UNCHANGED <<work, status>>

(* A request to stop that make obeyed, or outran, counts as success.        *)
Succeed ==
    /\ status = "none"
    /\ work = "ok" \/ (asked /\ work = "failed")
    /\ status' = "zero"
    /\ UNCHANGED <<work, asked>>

Fail ==
    /\ status = "none"
    /\ work = "failed" /\ ~asked
    /\ status' = "one"
    /\ UNCHANGED <<work, asked>>

(* A second request: make is killed if it still runs.                       *)
Force ==
    /\ status = "none" /\ asked
    /\ work' = IF work = "running" THEN "killed" ELSE work
    /\ status' = "one"
    /\ UNCHANGED asked

(* lgtmp itself dies of a signal; make is left to its own devices.          *)
Die ==
    /\ status = "none"
    /\ status' = "signal"
    /\ UNCHANGED <<work, asked>>

Next == \/ Begin \/ CannotBegin \/ WorkEnds \/ Ask
        \/ Succeed \/ Fail \/ Force \/ Die

Spec == Init /\ [][Next]_vars
=============================================================================
