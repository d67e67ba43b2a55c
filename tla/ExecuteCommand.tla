--------------------------- MODULE ExecuteCommand ---------------------------
(***************************************************************************)
(* One call of pkg.ExecuteCommand("make", target) (src/pkg/common.go) with  *)
(* the processes around it: make, the recipe make runs (docker compose or   *)
(* kubectl), the program that opens a browser, and the user's signals.      *)
(*                                                                         *)
(* make and its recipe are external: the recipe may end at any time or      *)
(* never, make ends only after its recipe (GNU make waits for its children  *)
(* when it is interrupted), and SIGKILL ends make alone.  A "tty" signal is *)
(* a Ctrl-C, which the terminal sends to lgtmp, make and the recipe; a      *)
(* "solo" signal is sent to lgtmp only.                                     *)
(***************************************************************************)
EXTENDS Naturals

VARIABLES
    kind,        \* the target's prefix: "up", "deploy", "down", "delete"
    pc,          \* where ExecuteCommand is
    signalChan,  \* number of signals buffered, at most its capacity
    done,        \* content of the channel done: "empty", "ok" or "err"
    make,        \* "none", "running", "ok", "err" or "killed"
    recipe,      \* "none", "running", "ok" or "err"
    opener,      \* the browser opener: "none", "running", "ok" or "err"
    taken,       \* signals ExecuteCommand has received from signalChan
    exit         \* how lgtmp ended: "none", "zero", "one" or "signal"

vars == <<kind, pc, signalChan, done, make, recipe, opener, taken, exit>>

Kind     == {"up", "deploy", "down", "delete"}
Sync     == kind \in {"down", "delete"}
Capacity == 1

Ended == make \in {"ok", "err", "killed"}

Init ==
    /\ kind \in Kind
    /\ pc = "start"
    /\ signalChan = 0
    /\ done = "empty"
    /\ make = "none"
    /\ recipe = "none"
    /\ opener = "none"
    /\ taken = 0
    /\ exit = "none"

(* The process is gone, with its goroutines and its channels.               *)
Exit(status) == pc' = "exited" /\ exit' = status

-----------------------------------------------------------------------------
(* cmd.Start fails: the error reaches main, which exits with 1.             *)
StartFails ==
    /\ pc = "start"
    /\ Exit("one")
    /\ UNCHANGED <<kind, signalChan, done, make, recipe, opener, taken>>

Start ==
    /\ pc = "start"
    /\ make' = "running"
    /\ recipe' = "running"
    /\ pc' = IF Sync THEN "waiting" ELSE "window"
    /\ UNCHANGED <<kind, signalChan, done, opener, taken, exit>>

(* down-, delete-: cmd.Wait in the main goroutine, its error goes to main.  *)
Wait ==
    /\ pc = "waiting"
    /\ Ended
    /\ Exit(IF make = "ok" THEN "zero" ELSE "one")
    /\ UNCHANGED <<kind, signalChan, done, make, recipe, opener, taken>>

(* signal.Notify, and the goroutine that will run cmd.Wait.                 *)
Notify ==
    /\ pc = "window"
    /\ pc' = "select"
    /\ UNCHANGED <<kind, signalChan, done, make, recipe, opener, taken, exit>>

(* Mutant of Reap: cmd.Wait is called only while nobody asked to stop.      *)
ReapUnlessStopping ==
    /\ pc = "select"
    /\ Ended
    /\ done = "empty"
    /\ done' = IF make = "ok" THEN "ok" ELSE "err"
    /\ UNCHANGED <<kind, pc, signalChan, make, recipe, opener, taken, exit>>

(* The goroutine: done <- cmd.Wait(), which never blocks (capacity one).    *)
Reap ==
    /\ pc \in {"select", "stopping"}
    /\ Ended
    /\ done = "empty"
    /\ done' = IF make = "ok" THEN "ok" ELSE "err"
    /\ UNCHANGED <<kind, pc, signalChan, make, recipe, opener, taken, exit>>

(* Mutant of SelectSignal: the first select is repeated after each signal.  *)
SelectSignalAgain ==
    /\ pc = "select"
    /\ signalChan > 0
    /\ signalChan' = signalChan - 1
    /\ taken' = taken + 1
    /\ UNCHANGED <<kind, pc, done, make, recipe, opener, exit>>

(* First select, case <-signalChan: forward an interrupt to make.  It has   *)
(* no effect on this state; make ends when its recipe has.                  *)
SelectSignal ==
    /\ pc = "select"
    /\ signalChan > 0
    /\ signalChan' = signalChan - 1
    /\ taken' = taken + 1
    /\ pc' = "stopping"
    /\ UNCHANGED <<kind, done, make, recipe, opener, exit>>

(* Mutant of SelectDone: make's error is not looked at.                     *)
SelectDoneUnchecked ==
    /\ pc = "select"
    /\ done # "empty"
    /\ done' = "empty"
    /\ pc' = "browser"
    /\ UNCHANGED <<kind, signalChan, make, recipe, opener, taken, exit>>

(* First select, case err := <-done.                                        *)
SelectDone ==
    /\ pc = "select"
    /\ done # "empty"
    /\ done' = "empty"
    /\ IF done = "err"
       THEN Exit("one")
       ELSE pc' = "browser" /\ UNCHANGED exit
    /\ UNCHANGED <<kind, signalChan, make, recipe, opener, taken>>

(* Mutant of StopSignal: os.Exit without Kill.                              *)
StopSignalNoKill ==
    /\ pc = "stopping"
    /\ signalChan > 0
    /\ signalChan' = signalChan - 1
    /\ taken' = taken + 1
    /\ Exit("one")
    /\ UNCHANGED <<kind, done, make, recipe, opener>>

(* Second select, case <-signalChan: Kill, os.Exit(1).                      *)
StopSignal ==
    /\ pc = "stopping"
    /\ signalChan > 0
    /\ signalChan' = signalChan - 1
    /\ taken' = taken + 1
    /\ make' = IF make = "running" THEN "killed" ELSE make
    /\ Exit("one")
    /\ UNCHANGED <<kind, done, recipe, opener>>

(* Mutant of StopDone: os.Exit(0) without waiting for make.                 *)
StopDoneAtOnce ==
    /\ pc = "stopping"
    /\ Exit("zero")
    /\ UNCHANGED <<kind, signalChan, done, make, recipe, opener, taken>>

(* Second select, case <-done: os.Exit(0), whatever make returned.          *)
StopDone ==
    /\ pc = "stopping"
    /\ done # "empty"
    /\ done' = "empty"
    /\ Exit("zero")
    /\ UNCHANGED <<kind, signalChan, make, recipe, opener, taken>>

(* browser, OpenBrowser: no opener configured or cmd.Start fails, ...       *)
NoBrowser ==
    /\ pc = "browser"
    /\ Exit("zero")
    /\ UNCHANGED <<kind, signalChan, done, make, recipe, opener, taken>>

(* ... or the opener runs; its targets are up- and deploy- only.            *)
OpenBrowser ==
    /\ pc = "browser"
    /\ kind \in {"up", "deploy"}
    /\ opener' = "running"
    /\ pc' = "opening"
    /\ UNCHANGED <<kind, signalChan, done, make, recipe, taken, exit>>

(* appearsSuccessful: the opener's end or the five seconds' timeout, with   *)
(* a result that no caller reads.                                           *)
AppearsSuccessful ==
    /\ pc = "opening"
    /\ Exit("zero")
    /\ UNCHANGED <<kind, signalChan, done, make, recipe, opener, taken>>

Lgtmp ==
    \/ StartFails \/ Start \/ Wait \/ Notify \/ Reap
    \/ SelectSignal \/ SelectDone \/ StopSignal \/ StopDone
    \/ NoBrowser \/ OpenBrowser \/ AppearsSuccessful

-----------------------------------------------------------------------------
(* Mutant of HandlerInstalled: signal.Notify before the branch for down    *)
(* and delete.                                                              *)
HandlerAlways == pc \notin {"start", "exited"}

(* A signal reaches lgtmp: before signal.Notify its default action ends the *)
(* process, afterwards it is buffered, or dropped when the buffer is full.  *)
HandlerInstalled == pc \in {"select", "stopping", "browser", "opening"}

Signal(from) ==
    /\ pc # "exited"
    /\ IF HandlerInstalled
       THEN /\ signalChan' = IF signalChan < Capacity THEN signalChan + 1
                             ELSE signalChan
            /\ UNCHANGED <<pc, exit>>
       ELSE /\ Exit("signal")
            /\ UNCHANGED signalChan
    /\ recipe' \in IF from = "tty" /\ recipe = "running"
                   THEN {"running", "err"} ELSE {recipe}
    /\ UNCHANGED <<kind, done, make, opener, taken>>

(* SIGHUP, SIGQUIT, SIGKILL: no handler at any time.                        *)
OtherSignal ==
    /\ pc # "exited"
    /\ Exit("signal")
    /\ UNCHANGED <<kind, signalChan, done, make, recipe, opener, taken>>

RecipeEnds ==
    /\ recipe = "running"
    /\ recipe' \in {"ok", "err"}
    /\ UNCHANGED <<kind, pc, signalChan, done, make, opener, taken, exit>>

(* make's status follows its recipe's; an interrupted make fails.           *)
MakeEnds ==
    /\ make = "running"
    /\ recipe \in {"ok", "err"}
    /\ make' \in {"err"} \cup {r \in {"ok"} : recipe = "ok"}
    /\ UNCHANGED <<kind, pc, signalChan, done, recipe, opener, taken, exit>>

OpenerEnds ==
    /\ opener = "running"
    /\ opener' \in {"ok", "err"}
    /\ UNCHANGED <<kind, pc, signalChan, done, make, recipe, taken, exit>>

Next ==
    \/ Lgtmp
    \/ \E from \in {"tty", "solo"} : Signal(from)
    \/ OtherSignal
    \/ RecipeEnds
    \/ MakeEnds
    \/ OpenerEnds

Spec == Init /\ [][Next]_vars

(* lgtmp's own steps are scheduled; make, the recipe and the opener may     *)
(* hang for ever.                                                           *)
FairLgtmp == WF_vars(Lgtmp) /\ WF_vars(Reap)
FairSpec  == Spec /\ FairLgtmp

-----------------------------------------------------------------------------
TypeOK ==
    /\ kind \in Kind
    /\ pc \in {"start", "waiting", "window", "select", "stopping", "browser",
               "opening", "exited"}
    /\ signalChan \in 0..Capacity
    /\ done \in {"empty", "ok", "err"}
    /\ make \in {"none", "running", "ok", "err", "killed"}
    /\ recipe \in {"none", "running", "ok", "err"}
    /\ opener \in {"none", "running", "ok", "err"}
    /\ taken \in 0..2
    /\ exit \in {"none", "zero", "one", "signal"}

(* Status 0 means that make succeeded, unless the user's request to stop    *)
(* was received first: that run reports 0 however make ended.               *)
ExitHonest ==
    exit = "zero" => make = "ok" \/ (taken = 1 /\ ~Sync /\ make = "err")

(* lgtmp never returns by itself while make runs; and while the recipe      *)
(* (docker compose, kubectl) still runs only if it was made to by a second  *)
(* request, which kills make but not make's children.                       *)
NoStray ==
    exit \in {"zero", "one"} =>
        /\ make # "running"
        /\ recipe = "running" => make = "killed" /\ taken = 2

(* A browser is opened for a stack that came up, and for nothing else: not  *)
(* after a failure, not for down or delete, not once a stop was received.   *)
BrowserOnlyWhenUp ==
    opener # "none" => make = "ok" /\ kind \in {"up", "deploy"} /\ taken = 0

(* Once make is gone lgtmp ends: no value of the channels, no signal and no *)
(* hanging browser opener keeps it waiting.                                 *)
ReturnsAfterMake == Ended ~> exit # "none"

(* Whatever the target and wherever it hangs, a user who keeps asking - as   *)
(* long as there is room for a signal, another one comes - gets rid of      *)
(* lgtmp, although signals are dropped while one is buffered.               *)
PersistenceStops == WF_vars(Signal("solo")) => <>(exit # "none")

-----------------------------------------------------------------------------
(* The refinement mapping: what make has come to, whether a signal has been *)
(* received, and the exit status.                                           *)
work == CASE make = "none" -> "idle"
          [] make = "err"  -> "failed"
          [] OTHER         -> make

Run == INSTANCE CommandRun WITH work <- work, asked <- taken > 0, status <- exit

(* ExecuteCommand implements what a shell is promised.                      *)
ImplementsCommandRun == Run!Spec
=============================================================================
