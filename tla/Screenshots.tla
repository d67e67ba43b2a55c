---------------------------- MODULE Screenshots ----------------------------
(***************************************************************************)
(* make mixin-screenshots: find deletes the images in docs/dashboards, then *)
(* tools/screenshots/run.sh builds the taker's image and runs its container *)
(* (tools/screenshots/main.go), which walks the dashboards' files and takes *)
(* a picture of each with a headless browser.                               *)
(*                                                                         *)
(* Several makes may be started.  They share docs/dashboards and the name   *)
(* of the container, which Docker gives only once.  A Ctrl-C reaches the    *)
(* container through the docker client; a client that is killed leaves its  *)
(* container running.  Time within a dashboard is counted in ten seconds.   *)
(***************************************************************************)
EXTENDS Integers, FiniteSets

CONSTANTS Run,      \* the invocations of make
          NFiles,   \* the *.json files, numbered in WalkDir's order; a file
                    \* stands for its picture too: base names are distinct
          Skipped,  \* those in skippedDashboards
          NoRun

Files == 1..NFiles

ASSUME RunAssumption  == NoRun \notin Run
ASSUME FileAssumption == NFiles \in Nat /\ Skipped \subseteq Files

Deadline == 3                          \* 30 seconds

(* The browser's actions; the fourth and the seventh sleep ten seconds.     *)
Actions == 8
Sleep   == {4, 7}

VARIABLES
    run,     \* each make: where it is
    image,   \* the picture of each dashboard, and the make that took it
    pc,      \* where the container is; "none" without a container
    by,      \* the make that started it
    todo,    \* dashboards: those still to be taken
    cur,     \* the current one
    action,  \* the next browser action
    clock,   \* time since the dashboard's context was made
    browsers,\* running browsers
    wiped    \* observed only: makes that lost images while their container ran

taker == <<pc, by, todo, cur, action, clock, browsers>>
vars  == <<run, image, taker, wiped>>

Dashboards == Files \ Skipped
NoImage    == [state |-> "none", by |-> NoRun]

Init ==
    /\ run = [r \in Run |-> "idle"]
    /\ image = [f \in Files |-> [state |-> "optimised", by |-> NoRun]]
    /\ pc = "none" /\ by = NoRun /\ todo = {} /\ cur = 0
    /\ action = 1 /\ clock = 0 /\ browsers = 0
    /\ wiped = {}

-----------------------------------------------------------------------------
(* find ./docs/dashboards -name '*.png' -delete: all of them, whoever took  *)
(* them and whether or not a container is writing.                          *)
DeleteImages(r) ==
    /\ run[r] = "idle"
    /\ run' = [run EXCEPT ![r] = "building"]
    /\ image' = [f \in Files |-> NoImage]
    /\ wiped' = wiped \cup ({by} \ {NoRun})
    /\ UNCHANGED taker

(* docker build, then docker run with a fixed --name.                       *)
BuildFails(r) ==
    /\ run[r] = "building"
    /\ run' = [run EXCEPT ![r] = "failed"]
    /\ UNCHANGED <<image, taker, wiped>>

RunContainer(r) ==
    /\ run[r] = "building"
    /\ IF pc = "none"
       THEN /\ run' = [run EXCEPT ![r] = "waiting"]
            /\ pc' = "listing" /\ by' = r
            /\ todo' = {} /\ cur' = 0 /\ action' = 1 /\ clock' = 0 /\ browsers' = 0
       ELSE /\ run' = [run EXCEPT ![r] = "failed"]
            /\ UNCHANGED taker
    /\ UNCHANGED <<image, wiped>>

(* The container ends, by itself or killed, and is removed with everything  *)
(* in it (--rm); its client, if it is still there, returns.                 *)
Leave(status) ==
    /\ pc' = "none" /\ by' = NoRun
    /\ todo' = {} /\ cur' = 0 /\ action' = 1 /\ clock' = 0 /\ browsers' = 0
    /\ run' = [run EXCEPT ![by] = IF @ = "waiting" THEN status ELSE @]
    /\ UNCHANGED wiped

Interrupt(r) ==
    /\ run[r] = "waiting"
    /\ Leave("failed")
    /\ UNCHANGED image

KillClient(r) ==
    /\ run[r] = "waiting"
    /\ run' = [run EXCEPT ![r] = "failed"]
    /\ UNCHANGED <<image, taker, wiped>>

-----------------------------------------------------------------------------
At(place) == pc = place
GoTo(place) == pc' = place /\ UNCHANGED <<run, by, wiped>>

(* os.Exit(1): no deferred call runs, the process is gone all the same.     *)
ExitOne == Leave("failed") /\ UNCHANGED image

(* listDashboards reads every file before the first picture is taken; one   *)
(* that cannot be read or parsed ends the run.                              *)
ListDashboards ==
    /\ At("listing")
    /\ \/ /\ GoTo("next")
          /\ todo' = Dashboards
          /\ UNCHANGED <<image, cur, action, clock, browsers>>
       \/ ExitOne

(* The loop over the dashboards: its context, with the time limit.          *)
NextDashboard ==
    /\ At("next")
    /\ \E f \in todo :
          /\ \A g \in todo : f <= g
          /\ cur' = f
    /\ GoTo("directory")
    /\ action' = 1 /\ clock' = 0
    /\ UNCHANGED <<image, todo, browsers>>

Finish ==
    /\ At("next")
    /\ todo = {}
    /\ Leave("ok")
    /\ UNCHANGED image

MakeDirectory ==
    /\ At("directory")
    /\ \/ GoTo("browser") /\ UNCHANGED <<image, todo, cur, action, clock, browsers>>
       \/ ExitOne

(* The browser's actions one by one; the first one starts it.               *)
RunAction ==
    /\ At("browser")
    /\ clock < Deadline
    /\ action \notin Sleep
    /\ browsers' = IF action = 1 THEN browsers + 1 ELSE browsers
    /\ action' = action + 1
    /\ GoTo(IF action = Actions THEN "opening" ELSE "browser")
    /\ UNCHANGED <<image, todo, cur, clock>>

(* Ten seconds pass: a sleep is over, any other action is slow.             *)
PassTime ==
    /\ At("browser")
    /\ clock < Deadline
    /\ clock' = clock + 1
    /\ action' = IF action \in Sleep THEN action + 1 ELSE action
    /\ GoTo("browser")
    /\ UNCHANGED <<image, todo, cur, browsers>>

(* Mutant of ActionFails: the loop goes on with the next dashboard.         *)
ActionFailsContinue ==
    /\ At("browser")
    /\ GoTo("next")
    /\ todo' = todo \ {cur}
    /\ browsers' = 0
    /\ UNCHANGED <<image, cur, action, clock>>

(* Mutant of ActionFails: another browser tries the same dashboard again.   *)
ActionFailsRetry ==
    /\ At("browser")
    /\ GoTo("browser")
    /\ action' = 1 /\ browsers' = 0
    /\ UNCHANGED <<image, todo, cur, clock>>

(* An action fails: the page is not there, the browser crashes.             *)
ActionFails ==
    /\ At("browser")
    /\ ExitOne

(* Mutant of TimesOut: the context has no time limit.                       *)
NoTimeLimit == clock > Deadline /\ ActionFails

(* The context's deadline ends whatever action is under way.                *)
TimesOut == clock = Deadline /\ ActionFails

(* os.WriteFile: the file is made or emptied, then filled; a file that is   *)
(* deleted in between stays away.                                           *)
OpenFile ==
    /\ At("opening")
    /\ \/ /\ image' = [image EXCEPT ![cur] = [state |-> "partial", by |-> by]]
          /\ GoTo("writing")
          /\ UNCHANGED <<todo, cur, action, clock, browsers>>
       \/ ExitOne

WriteFile ==
    /\ At("writing")
    /\ \/ /\ image' = [image EXCEPT ![cur].state =
                          IF @ = "partial" THEN "raw" ELSE @]
          /\ GoTo("quant")
          /\ UNCHANGED <<todo, cur, action, clock, browsers>>
       \/ ExitOne

(* Mutant of Done: the browser's context is not cancelled.                  *)
DoneKeepBrowser ==
    /\ GoTo("next")
    /\ todo' = todo \ {cur}
    /\ UNCHANGED <<cur, action, clock, browsers>>

(* cancelTimeout(), cancel(): the browser of this dashboard ends.           *)
Done ==
    /\ GoTo("next")
    /\ todo' = todo \ {cur}
    /\ browsers' = browsers - 1
    /\ UNCHANGED <<cur, action, clock>>

(* pngquant reads the picture and replaces it, or leaves it with status 99, *)
(* or fails: of its other statuses, 98 means that the result would have     *)
(* been larger.  It is not under the time limit.                            *)
ReadImage ==
    /\ At("quant")
    /\ \/ image[cur] # NoImage /\ GoTo("replacing")
          /\ UNCHANGED <<image, todo, cur, action, clock, browsers>>
       \/ ExitOne

ReplaceImage ==
    /\ At("replacing")
    /\ \/ image' = [image EXCEPT ![cur] = [state |-> "optimised", by |-> by]] /\ Done
       \/ UNCHANGED image /\ Done
       \/ ExitOne

Container ==
    \/ ListDashboards \/ NextDashboard \/ Finish \/ MakeDirectory
    \/ PassTime \/ TimesOut \/ OpenFile \/ WriteFile
Pngquant  == ReadImage \/ ReplaceImage

Make(r) ==
    \/ DeleteImages(r) \/ BuildFails(r) \/ RunContainer(r)
    \/ Interrupt(r) \/ KillClient(r)

Next ==
    \/ \E r \in Run : Make(r)
    \/ Container \/ RunAction \/ ActionFails \/ Pngquant

Spec == Init /\ [][Next]_vars

(* The container is scheduled and its clock runs.  An action of the browser *)
(* and pngquant may hang, and make is the user's.                           *)
FairSpec == Spec /\ WF_vars(Container)

-----------------------------------------------------------------------------
Image == [state : {"none", "partial", "raw", "optimised"}, by : Run \cup {NoRun}]
Whole(i) == i.state \in {"raw", "optimised"}

TypeOK ==
    /\ run \in [Run -> {"idle", "building", "waiting", "ok", "failed"}]
    /\ image \in [Files -> Image]
    /\ pc \in {"none", "listing", "next", "directory", "browser", "opening",
               "writing", "quant", "replacing"}
    /\ by \in Run \cup {NoRun}
    /\ todo \subseteq Dashboards
    /\ cur \in Files \cup {0}
    /\ action \in 1..(Actions + 1)
    /\ clock \in 0..Deadline
    /\ browsers \in 0..1
    /\ wiped \subseteq Run

(* make reports success only with a whole picture of its own of every       *)
(* dashboard that is not skipped, unless another make deleted images while  *)
(* its container ran.                                                       *)
Complete(r) == \A f \in Dashboards : Whole(image[f]) /\ image[f].by = r

SuccessComplete ==
    [][\A r \in Run : run[r] # "ok" /\ run'[r] = "ok" /\ r \notin wiped => Complete(r)]_vars

(* Nothing but a hanging pngquant keeps the container's name from the next  *)
(* make: a page that never loads, a browser that hangs and a client that is *)
(* gone do not.                                                             *)
ContainerEnds ==
    []<>(pc \notin {"quant", "replacing"}) => (pc # "none" ~> pc = "none")

-----------------------------------------------------------------------------
(* The steps that a container has left at most: twenty per dashboard, less  *)
(* what it has done for the current one.                                    *)
PerDashboard == 20

DoneForCurrent ==
    CASE pc = "next"      -> 0
      [] pc = "directory" -> 1
      [] pc = "browser"   -> 1 + action + clock
      [] pc = "opening"   -> 13
      [] pc = "writing"   -> 14
      [] pc = "quant"     -> 15
      [] pc = "replacing" -> 16

Left ==
    CASE pc = "none"    -> 0
      [] pc = "listing" -> PerDashboard * NFiles + 1
      [] OTHER          -> PerDashboard * Cardinality(todo) - DoneForCurrent

(* Whatever fails, hangs for a while or is slow, and whatever other makes   *)
(* do meanwhile, each step of a container leaves it fewer steps: nothing is *)
(* tried again, no dashboard is taken twice.                                *)
ContainerAdvances ==
    [][pc # "none" /\ pc' # "none" => Left' < Left]_taker

-----------------------------------------------------------------------------
(* The strengthening that makes TypeOK and SuccessComplete inductive: a     *)
(* waiting make has the container, the container's place determines its     *)
(* browser, and what it is through with is whole and its own.               *)
Taking == {"directory", "browser", "opening", "writing", "quant", "replacing"}

WaitingInv ==
    /\ by \in Run <=> pc # "none"
    /\ \A r \in Run : run[r] = "waiting" => by = r

BrowserInv ==
    /\ pc \in Taking => cur \in todo
    /\ pc \in {"none", "listing", "next", "directory"} => browsers = 0
    /\ pc = "directory" => action = 1
    /\ pc = "browser" => action <= Actions /\ browsers = IF action = 1 THEN 0 ELSE 1
    /\ pc \in {"opening", "writing", "quant", "replacing"} => browsers = 1

Own(f, states) == image[f].state \in states /\ image[f].by = by

ImageInv ==
    pc # "none" /\ by \notin wiped =>
        /\ pc # "listing" => \A f \in Dashboards \ todo : Own(f, {"raw", "optimised"})
        /\ pc = "writing" => Own(cur, {"partial"})
        /\ pc \in {"quant", "replacing"} => Own(cur, {"raw"})

TakerInv == WaitingInv /\ BrowserInv /\ ImageInv
=============================================================================
