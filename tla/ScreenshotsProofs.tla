------------------------- MODULE ScreenshotsProofs -------------------------
(* Theorems about the screenshot tool, for any number of makes, of          *)
(* dashboards and of skipped ones.                                          *)
EXTENDS Screenshots, FiniteSetTheorems, TLAPS

(* What the container's steps have in common: the end of the container.     *)
LEMMA LeaveKeeps ==
    ASSUME TypeOK, TakerInv, NEW status \in {"ok", "failed"},
           Leave(status), UNCHANGED image
    PROVE  TypeOK' /\ TakerInv'
<1> USE DEF TypeOK, Leave
<1>1. TypeOK'
  <2>1. run' \in [Run -> {"idle", "building", "waiting", "ok", "failed"}]
    OBVIOUS
  <2>2. action' \in 1..(Actions + 1) /\ clock' \in 0..Deadline
    BY DEF Actions, Deadline
  <2>3. image' \in [Files -> Image]
    OBVIOUS
  <2>4. QED
    BY <2>1, <2>2, <2>3
<1>2. WaitingInv'
  <2>1. by' = NoRun /\ pc' = "none" /\ by' \notin Run
    BY RunAssumption
  <2>2. ASSUME NEW r \in Run PROVE run'[r] # "waiting"
    BY DEF TakerInv, WaitingInv
  <2>3. QED
    BY <2>1, <2>2 DEF WaitingInv
<1>3. BrowserInv' /\ ImageInv'
  BY DEF BrowserInv, ImageInv, Taking
<1>4. QED
  BY <1>1, <1>2, <1>3 DEF TakerInv

(* A container that goes on leaves the makes and its owner as they are; so  *)
(* only its own place and its pictures can disturb the invariant.           *)
LEMMA GoToKeeps ==
    ASSUME TypeOK, TakerInv, pc # "none", NEW place, place # "none", GoTo(place)
    PROVE  WaitingInv'
BY DEF TypeOK, TakerInv, WaitingInv, GoTo

(* The steps of the makes.                                                  *)
LEMMA MakeKeeps ==
    ASSUME TypeOK, TakerInv, NEW r \in Run, Make(r)
    PROVE  TypeOK' /\ TakerInv'
<1>1. CASE DeleteImages(r)
  <2> USE <1>1 DEF DeleteImages, TypeOK, taker
  <2>1. TypeOK'
    BY DEF NoImage, Image
  <2>2. WaitingInv' /\ BrowserInv'
    BY DEF TakerInv, WaitingInv, BrowserInv
  <2>3. pc # "none" => by \in wiped'
    BY RunAssumption DEF TakerInv, WaitingInv
  <2>4. ImageInv'
    BY <2>3 DEF ImageInv
  <2>5. QED
    BY <2>1, <2>2, <2>4 DEF TakerInv
<1>2. CASE BuildFails(r) \/ KillClient(r)
  <2> USE <1>2 DEF BuildFails, KillClient, TypeOK, taker
  <2>1. TypeOK'
    OBVIOUS
  <2>2. WaitingInv' /\ BrowserInv' /\ ImageInv'
    BY DEF TakerInv, WaitingInv, BrowserInv, ImageInv, Own
  <2>3. QED
    BY <2>1, <2>2 DEF TakerInv
<1>3. CASE RunContainer(r)
  <2> USE <1>3 DEF RunContainer, TypeOK
  <2>1. CASE pc = "none"
    <3>1. TypeOK'
      BY <2>1 DEF Actions, Deadline
    <3>2. \A q \in Run : run[q] # "waiting"
      BY <2>1 DEF TakerInv, WaitingInv
    <3>3. WaitingInv'
      BY <2>1, <3>2 DEF WaitingInv
    <3>4. BrowserInv' /\ ImageInv'
      BY <2>1 DEF BrowserInv, ImageInv, Taking
    <3>5. QED
      BY <3>1, <3>3, <3>4 DEF TakerInv
  <2>2. CASE pc # "none"
    <3> USE <2>2 DEF taker
    <3>1. TypeOK'
      OBVIOUS
    <3>2. WaitingInv' /\ BrowserInv' /\ ImageInv'
      BY DEF TakerInv, WaitingInv, BrowserInv, ImageInv, Own
    <3>3. QED
      BY <3>1, <3>2 DEF TakerInv
  <2>3. QED
    BY <2>1, <2>2
<1>4. CASE Interrupt(r)
  BY <1>4, LeaveKeeps DEF Interrupt
<1>5. QED
  BY <1>1, <1>2, <1>3, <1>4 DEF Make

(* The steps up to the capture write no picture.                            *)
LEMMA BrowsingKeeps ==
    ASSUME TypeOK, TakerInv,
           ListDashboards \/ NextDashboard \/ MakeDirectory \/ RunAction \/ PassTime
    PROVE  TypeOK' /\ TakerInv'
<1> USE DEF TypeOK, GoTo, At
<1>1. CASE ListDashboards
  <2>1. CASE ExitOne
    BY <2>1, LeaveKeeps DEF ExitOne
  <2>2. CASE GoTo("next") /\ todo' = Dashboards
             /\ UNCHANGED <<image, cur, action, clock, browsers>>
    <3>1. TypeOK'
      BY <2>2
    <3>2. WaitingInv'
      BY <1>1, <2>2, GoToKeeps DEF ListDashboards
    <3>3. BrowserInv' /\ ImageInv'
      BY <1>1, <2>2 DEF ListDashboards, TakerInv, BrowserInv, ImageInv, Taking
    <3>4. QED
      BY <3>1, <3>2, <3>3 DEF TakerInv
  <2>3. QED
    BY <1>1, <2>1, <2>2 DEF ListDashboards
<1>2. CASE NextDashboard
  <2> USE <1>2 DEF NextDashboard
  <2>1. TypeOK' /\ cur' \in todo'
    BY FileAssumption DEF Dashboards, Actions, Deadline
  <2>2. WaitingInv'
    BY GoToKeeps
  <2>3. BrowserInv' /\ ImageInv'
    BY <2>1 DEF TakerInv, BrowserInv, ImageInv, Own
  <2>4. QED
    BY <2>1, <2>2, <2>3 DEF TakerInv
<1>3. CASE MakeDirectory
  <2>1. CASE ExitOne
    BY <2>1, LeaveKeeps DEF ExitOne
  <2>2. CASE GoTo("browser") /\ UNCHANGED <<image, todo, cur, action, clock, browsers>>
    <3>1. TypeOK'
      BY <2>2
    <3>2. WaitingInv'
      BY <1>3, <2>2, GoToKeeps DEF MakeDirectory
    <3>3. BrowserInv' /\ ImageInv'
      BY <1>3, <2>2
         DEF MakeDirectory, TakerInv, BrowserInv, ImageInv, Own, Taking, Actions
    <3>4. QED
      BY <3>1, <3>2, <3>3 DEF TakerInv
  <2>3. QED
    BY <1>3, <2>1, <2>2 DEF MakeDirectory
<1>4. CASE RunAction
  <2> USE <1>4 DEF RunAction
  <2>1. action \in 1..8 /\ browsers = IF action = 1 THEN 0 ELSE 1
    BY DEF TakerInv, BrowserInv, Actions
  <2>2. TypeOK'
    BY <2>1 DEF Actions
  <2>3. WaitingInv'
    BY GoToKeeps
  <2>4. BrowserInv' /\ ImageInv'
    BY <2>1 DEF TakerInv, BrowserInv, ImageInv, Own, Taking, Actions
  <2>5. QED
    BY <2>2, <2>3, <2>4 DEF TakerInv
<1>5. CASE PassTime
  <2> USE <1>5 DEF PassTime
  <2>1. /\ action \in 1..8 /\ browsers = IF action = 1 THEN 0 ELSE 1
        /\ action' \in 1..8 /\ (action' = 1 <=> action = 1)
        /\ clock' \in 0..Deadline
    BY DEF TakerInv, BrowserInv, Actions, Sleep, Deadline
  <2>2. TypeOK'
    BY <2>1 DEF Actions
  <2>3. WaitingInv'
    BY GoToKeeps
  <2>4. BrowserInv' /\ ImageInv'
    BY <2>1 DEF TakerInv, BrowserInv, ImageInv, Own, Taking, Actions
  <2>5. QED
    BY <2>2, <2>3, <2>4 DEF TakerInv
<1>6. QED
  BY <1>1, <1>2, <1>3, <1>4, <1>5

(* The steps that write and replace the picture of the current dashboard.   *)
LEMMA WritingKeeps ==
    ASSUME TypeOK, TakerInv, OpenFile \/ WriteFile \/ ReadImage \/ ReplaceImage
    PROVE  TypeOK' /\ TakerInv'
<1> USE DEF TypeOK
<1>1. CASE ExitOne
  BY <1>1, LeaveKeeps DEF ExitOne
<1>2. /\ cur \in todo /\ cur \in Files /\ cur \in Dashboards
      /\ browsers = 1 /\ pc # "none"
      /\ by \in Run
  BY DEF OpenFile, WriteFile, ReadImage, ReplaceImage, At, TakerInv, BrowserInv,
     WaitingInv, Taking, Dashboards
<1>3. image[cur].by \in Run \cup {NoRun}
  BY <1>2 DEF Image
<1>4. CASE OpenFile /\ ~ExitOne
  <2> USE <1>4 DEF OpenFile, At, GoTo
  <2>1. TypeOK'
    <3>1. image' \in [Files -> Image]
      BY <1>2 DEF Image
    <3>2. QED
      BY <1>2, <3>1
  <2>2. WaitingInv'
    BY <1>2, GoToKeeps
  <2>3. BrowserInv'
    BY <1>2 DEF BrowserInv, Taking
  <2>4. ImageInv'
    <3>1. /\ image'[cur] = [state |-> "partial", by |-> by]
          /\ \A f \in Files \ {cur} : image'[f] = image[f]
      BY <1>2
    <3>2. by \notin wiped => \A f \in Dashboards \ todo : Own(f, {"raw", "optimised"})'
      BY <1>2, <3>1 DEF TakerInv, ImageInv, Own, Dashboards
    <3>3. Own(cur, {"partial"})'
      BY <3>1 DEF Own
    <3>4. QED
      BY <3>2, <3>3 DEF ImageInv
  <2>5. QED
    BY <2>1, <2>2, <2>3, <2>4 DEF TakerInv
<1>5. CASE WriteFile /\ ~ExitOne
  <2> USE <1>5 DEF WriteFile, At, GoTo
  <2>1. TypeOK'
    <3>1. image' \in [Files -> Image]
      BY <1>2, <1>3 DEF Image
    <3>2. QED
      BY <1>2, <3>1
  <2>2. WaitingInv'
    BY <1>2, GoToKeeps
  <2>3. BrowserInv'
    BY <1>2 DEF BrowserInv, Taking
  <2>4. ImageInv'
    <3>1. \A f \in Files \ {cur} : image'[f] = image[f]
      BY <1>2
    <3>2. by \notin wiped => \A f \in Dashboards \ todo : Own(f, {"raw", "optimised"})'
      BY <1>2, <3>1 DEF TakerInv, ImageInv, Own, Dashboards
    <3>3. by \notin wiped => image[cur].state = "partial" /\ image[cur].by = by
      BY <1>2 DEF TakerInv, ImageInv, Own
    <3>4. image[cur].state = "partial" => image'[cur] = [image[cur] EXCEPT !.state = "raw"]
      BY <1>2
    <3>5. by \notin wiped => image'[cur].state = "raw" /\ image'[cur].by = by
      BY <1>2, <1>3, <3>3, <3>4 DEF Image
    <3>6. QED
      BY <3>2, <3>5 DEF ImageInv, Own
  <2>5. QED
    BY <2>1, <2>2, <2>3, <2>4 DEF TakerInv
<1>6. CASE ReadImage /\ ~ExitOne
  <2> USE <1>6 DEF ReadImage, At, GoTo
  <2>1. TypeOK'
    OBVIOUS
  <2>2. WaitingInv'
    BY <1>2, GoToKeeps
  <2>3. BrowserInv'
    BY <1>2 DEF BrowserInv, Taking
  <2>4. ImageInv'
    BY <1>2 DEF TakerInv, ImageInv, Own
  <2>5. QED
    BY <2>1, <2>2, <2>3, <2>4 DEF TakerInv
<1>7. CASE ReplaceImage /\ ~ExitOne
  <2> USE <1>7 DEF ReplaceImage, At, GoTo, Done
  <2>1. TypeOK'
    <3>1. image' \in [Files -> Image]
      BY <1>2 DEF Image
    <3>2. QED
      BY <1>2, <3>1
  <2>2. WaitingInv'
    BY <1>2, GoToKeeps
  <2>3. BrowserInv'
    BY <1>2 DEF BrowserInv, Taking
  <2>4. ImageInv'
    <3>1. \A f \in Files \ {cur} : image'[f] = image[f]
      BY <1>2
    <3>2. by \notin wiped => \A f \in Dashboards \ todo : Own(f, {"raw", "optimised"})'
      BY <1>2, <3>1 DEF TakerInv, ImageInv, Own, Dashboards
    <3>3. by \notin wiped => Own(cur, {"raw"})
      BY <1>2 DEF TakerInv, ImageInv
    <3>4. image'[cur] = image[cur] \/ image'[cur] = [state |-> "optimised", by |-> by]
      BY <1>2
    <3>5. by \notin wiped => image'[cur].state \in {"raw", "optimised"} /\ image'[cur].by = by
      BY <3>3, <3>4 DEF Own
    <3>6. \A f \in Dashboards \ todo' : f = cur \/ f \in Dashboards \ todo
      OBVIOUS
    <3>7. QED
      BY <3>2, <3>5, <3>6 DEF ImageInv, Own
  <2>5. QED
    BY <2>1, <2>2, <2>3, <2>4 DEF TakerInv
<1>8. QED
  BY <1>1, <1>4, <1>5, <1>6, <1>7

(* Every variable stays within its type, at most one browser among them;    *)
(* a waiting make has the container, and what the container is through with *)
(* is whole and that make's own.                                            *)
THEOREM TakerCorrect == Spec => [](TypeOK /\ TakerInv)
<1>1. Init => TypeOK /\ TakerInv
  <2> SUFFICES ASSUME Init PROVE TypeOK /\ TakerInv
    OBVIOUS
  <2>1. TypeOK
    BY DEF Init, TypeOK, Image, Actions, Deadline
  <2>2. TakerInv
    BY RunAssumption
       DEF Init, TakerInv, WaitingInv, BrowserInv, ImageInv, Taking
  <2>3. QED
    BY <2>1, <2>2
<1>2. TypeOK /\ TakerInv /\ [Next]_vars => TypeOK' /\ TakerInv'
  <2> SUFFICES ASSUME TypeOK, TakerInv, [Next]_vars PROVE TypeOK' /\ TakerInv'
    OBVIOUS
  <2>1. ASSUME NEW r \in Run, Make(r) PROVE TypeOK' /\ TakerInv'
    BY <2>1, MakeKeeps
  <2>2. CASE ListDashboards \/ NextDashboard \/ MakeDirectory \/ RunAction \/ PassTime
    BY <2>2, BrowsingKeeps
  <2>3. CASE OpenFile \/ WriteFile \/ ReadImage \/ ReplaceImage
    BY <2>3, WritingKeeps
  <2>4. CASE Finish \/ TimesOut \/ ActionFails
    BY <2>4, LeaveKeeps DEF Finish, TimesOut, ActionFails, ExitOne
  <2>5. CASE UNCHANGED vars
    BY <2>5 DEF vars, taker, TypeOK, TakerInv, WaitingInv, BrowserInv, ImageInv, Own
  <2>6. QED
    BY <2>1, <2>2, <2>3, <2>4, <2>5 DEF Next, Container, Pngquant
<1>3. QED
  BY <1>1, <1>2, PTL DEF Spec

(* The type invariant of the run by itself.                                 *)
THEOREM TypeCorrect == Spec => []TypeOK
BY TakerCorrect, PTL

(* make reports success only with a whole picture of its own of every       *)
(* dashboard that is not skipped, unless another make deleted images while  *)
(* its container ran.                                                       *)
THEOREM SuccessCompleteCorrect == Spec => SuccessComplete
<1> DEFINE Succeeds == \A r \in Run : run[r] # "ok" /\ run'[r] = "ok" /\ r \notin wiped
                                         => Complete(r)
<1>1. TypeOK /\ TakerInv /\ [Next]_vars => [Succeeds]_vars
  <2> SUFFICES ASSUME TypeOK, TakerInv, Next,
                      NEW r \in Run, run[r] # "ok", run'[r] = "ok", r \notin wiped
               PROVE  Complete(r)
    BY DEF vars
  <2> USE DEF TypeOK
  <2>1. Finish
    <3>1. \A q \in Run : ~Make(q)
      BY DEF Make, DeleteImages, BuildFails, RunContainer, Interrupt, KillClient, Leave
    <3>2. ~ExitOne
      BY DEF ExitOne, Leave
    <3>3. run' # run
      OBVIOUS
    <3>4. QED
      BY <3>1, <3>2, <3>3
         DEF Next, Container, Pngquant, ListDashboards, NextDashboard, MakeDirectory,
             RunAction, PassTime, TimesOut, ActionFails, OpenFile, WriteFile,
             ReadImage, ReplaceImage, Done, GoTo
  <2>2. by = r /\ pc = "next" /\ todo = {}
    BY <2>1 DEF Finish, Leave, At
  <2>3. \A f \in Dashboards : Own(f, {"raw", "optimised"})
    BY <2>2 DEF TakerInv, ImageInv
  <2>4. QED
    BY <2>2, <2>3 DEF Complete, Whole, Own
<1>2. QED
  BY <1>1, TakerCorrect, PTL DEF Spec, SuccessComplete

-----------------------------------------------------------------------------
(* The steps a container has left.                                          *)
LEMMA TodoFacts ==
    ASSUME TypeOK
    PROVE  /\ IsFiniteSet(todo) /\ IsFiniteSet(Dashboards)
           /\ Cardinality(todo) \in 0..Cardinality(Dashboards)
           /\ Cardinality(Dashboards) \in 0..NFiles
           /\ NFiles \in Nat
<1>1. NFiles \in Nat
  BY FileAssumption
<1>2. IsFiniteSet(Files) /\ Cardinality(Files) = NFiles
  <2>1. 1 <= NFiles \/ NFiles = 0
    BY <1>1
  <2>2. QED
    BY <1>1, <2>1, FS_Interval DEF Files
<1>3. Dashboards \subseteq Files
  BY DEF Dashboards
<1>4. IsFiniteSet(Dashboards) /\ Cardinality(Dashboards) <= NFiles
  BY <1>2, <1>3, FS_Subset
<1>5. IsFiniteSet(todo) /\ Cardinality(todo) <= Cardinality(Dashboards)
  BY <1>4, FS_Subset DEF TypeOK
<1>6. Cardinality(todo) \in Nat /\ Cardinality(Dashboards) \in Nat
  BY <1>4, <1>5, FS_CardinalityType
<1>7. QED
  BY <1>1, <1>4, <1>5, <1>6

(* There are never fewer than none, and never more than for all files.      *)
LEMMA LeftBounded ==
    ASSUME TypeOK, TakerInv
    PROVE  Left \in 0..(PerDashboard * NFiles + 1)
<1>1. PICK n \in Nat : n = Cardinality(todo) /\ n <= NFiles /\ NFiles \in Nat
  BY TodoFacts
<1>2. pc \in Taking => n # 0
  <2>1. pc \in Taking => todo # {}
    BY DEF TakerInv, BrowserInv
  <2>2. QED
    BY <1>1, <2>1, TodoFacts, FS_EmptySet
<1>3. CASE pc \in {"none", "listing"}
  BY <1>1, <1>3 DEF Left, PerDashboard
<1>4. CASE pc \in {"next"} \cup Taking
  <2>1. DoneForCurrent \in 0..16 /\ (pc = "next" => DoneForCurrent = 0)
    BY <1>4 DEF DoneForCurrent, Taking, TypeOK, TakerInv, BrowserInv, Actions, Deadline
  <2>2. Left = PerDashboard * n - DoneForCurrent
    BY <1>1, <1>4 DEF Left, Taking
  <2>3. QED
    BY <1>1, <1>2, <1>4, <2>1, <2>2 DEF PerDashboard
<1>5. QED
  BY <1>3, <1>4 DEF TypeOK, Taking

(* Each step of a container that goes on has a place to go on from.         *)
LEMMA StepLeavesFewer ==
    ASSUME TypeOK, TakerInv, pc # "none", pc' # "none",
           Container \/ RunAction \/ ActionFails \/ Pngquant
    PROVE  Left' < Left
<1> USE DEF TypeOK, At, GoTo
<1>1. ~ExitOne /\ ~Finish
  BY DEF ExitOne, Finish, Leave
<1>2. PICK n \in Nat : n = Cardinality(todo) /\ NFiles \in Nat
  BY TodoFacts
<1>3. ASSUME UNCHANGED todo, pc \notin {"none", "listing"}, pc' \notin {"none", "listing"},
             DoneForCurrent \in Nat, DoneForCurrent' \in Nat,
             DoneForCurrent < DoneForCurrent'
      PROVE  Left' < Left
  BY <1>2, <1>3 DEF Left, PerDashboard
<1>4. CASE ListDashboards
  <2>1. Left = PerDashboard * NFiles + 1 /\ Left' = PerDashboard * Cardinality(Dashboards)
    BY <1>1, <1>4, TodoFacts DEF ListDashboards, Left, DoneForCurrent, PerDashboard
  <2>2. QED
    BY <2>1, TodoFacts DEF PerDashboard
<1>5. CASE NextDashboard \/ MakeDirectory \/ OpenFile \/ WriteFile \/ ReadImage
  BY <1>1, <1>3, <1>5
     DEF NextDashboard, MakeDirectory, OpenFile, WriteFile, ReadImage, DoneForCurrent,
         TakerInv, BrowserInv
<1>6. CASE RunAction \/ PassTime
  <2>1. action \in 1..8 /\ clock \in 0..2 /\ pc = "browser" /\ todo' = todo
    BY <1>6 DEF RunAction, PassTime, TakerInv, BrowserInv, Actions, Deadline
  <2>2. \/ pc' = "browser" /\ action' \in {action, action + 1} /\ clock' \in {clock, clock + 1}
           /\ (action' # action \/ clock' # clock)
        \/ pc' = "opening"
    BY <1>6, <2>1 DEF RunAction, PassTime
  <2>3. DoneForCurrent = 1 + action + clock
    BY <2>1 DEF DoneForCurrent
  <2>4. DoneForCurrent' = IF pc' = "opening" THEN 13 ELSE 1 + action' + clock'
    BY <2>2 DEF DoneForCurrent
  <2>5. QED
    BY <1>3, <2>1, <2>2, <2>3, <2>4
<1>7. CASE ReplaceImage
  <2>1. pc = "replacing" /\ pc' = "next" /\ todo' = todo \ {cur} /\ cur \in todo
    BY <1>1, <1>7 DEF ReplaceImage, Done, TakerInv, BrowserInv, Taking
  <2>2. Cardinality(todo') = n - 1
    BY <1>2, <2>1, TodoFacts, FS_RemoveElement
  <2>3. Left = PerDashboard * n - 16 /\ Left' = PerDashboard * (n - 1)
    BY <1>2, <2>1, <2>2 DEF Left, DoneForCurrent, PerDashboard
  <2>4. QED
    BY <1>2, <2>3 DEF PerDashboard
<1>8. ~TimesOut /\ ~ActionFails
  BY <1>1 DEF TimesOut, ActionFails
<1>9. QED
  BY <1>1, <1>4, <1>5, <1>6, <1>7, <1>8 DEF Container, Pngquant

(* The safety half of ContainerEnds: a container has at most twenty steps   *)
(* per file and one, and every one of them brings it nearer to its end.     *)
THEOREM AdvancesCorrect ==
    Spec => [](Left \in 0..(PerDashboard * NFiles + 1)) /\ ContainerAdvances
<1>1. TypeOK /\ TakerInv => Left \in 0..(PerDashboard * NFiles + 1)
  BY LeftBounded
<1>2. TypeOK /\ TakerInv /\ [Next]_vars =>
          [pc # "none" /\ pc' # "none" => Left' < Left]_taker
  <2> SUFFICES ASSUME TypeOK, TakerInv, [Next]_vars, pc # "none", pc' # "none",
                      ~UNCHANGED taker
               PROVE  Left' < Left
    OBVIOUS
  <2>1. \A r \in Run : ~Make(r)
    BY DEF Make, DeleteImages, BuildFails, RunContainer, Interrupt, KillClient, Leave
  <2>2. QED
    BY <2>1, StepLeavesFewer DEF Next, vars
<1>3. QED
  BY <1>1, <1>2, TakerCorrect, PTL DEF Spec, ContainerAdvances
=============================================================================
