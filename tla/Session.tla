------------------------------- MODULE Session -------------------------------
(***************************************************************************)
(* What a shell is promised of one lgtmp command after the other: each      *)
(* begins afresh, runs at most one make and only if make is what was asked  *)
(* for, keeps to CommandRun while it does, and is answered once.  Lgtmp is  *)
(* shown to implement this specification.                                   *)
(***************************************************************************)
VARIABLES
    busy,     \* the shell waits for a command
    wanted,   \* the command is one that runs make
    work,     \* what its make has come to
    asked,    \* lgtmp has taken note of a request to stop
    status    \* its exit status, "none" until there is one

vars == <<busy, wanted, work, asked, status>>

Run == INSTANCE CommandRun

Init ==
    /\ busy = FALSE
    /\ wanted = FALSE
    /\ Run!Init

(* The next command starts.  A make of the last one is still there only if  *)
(* a signal took lgtmp away from it.                                        *)
NewCommand ==
    /\ ~busy
    /\ work = "running" => status = "signal"
    /\ busy' = TRUE
    /\ wanted' \in BOOLEAN
    /\ Run!Init'

(* It is over before make is begun: with success only if there was nothing  *)
(* for make to do.                                                          *)
EndWithoutMake ==
    /\ busy /\ work = "idle" /\ status = "none"
    /\ busy' = FALSE
    /\ status' \in {"one", "signal"} \cup {s \in {"zero"} : ~wanted}
    /\ UNCHANGED <<wanted, work, asked>>

(* A step of ExecuteCommand, or the end of a make that nobody waits for.    *)
Work ==
    /\ wanted
    /\ Run!Next
    /\ UNCHANGED <<busy, wanted>>

(* The shell has its answer.                                                *)
Return ==
    /\ busy /\ status # "none"
    /\ busy' = FALSE
    /\ UNCHANGED <<wanted, work, asked, status>>

Next == NewCommand \/ EndWithoutMake \/ Work \/ Return

Spec == Init /\ [][Next]_vars
=============================================================================
