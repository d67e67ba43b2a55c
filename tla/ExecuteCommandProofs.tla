------------------------ MODULE ExecuteCommandProofs ------------------------
(***************************************************************************)
(* The exit status, the children and the browser of ExecuteCommand, and     *)
(* that it implements CommandRun, proved for every interleaving.            *)
(***************************************************************************)
EXTENDS ExecuteCommand, TLAPS

(* What the place in the code says about the channels and the children.     *)
PlaceInv ==
    /\ pc = "exited" <=> exit # "none"
    /\ pc = "start" => /\ make = "none" /\ recipe = "none" /\ opener = "none"
                       /\ taken = 0 /\ signalChan = 0 /\ done = "empty"
    /\ make = "none" => pc \in {"start", "exited"} /\ exit # "zero" /\ recipe = "none"
    /\ pc = "waiting" => Sync
    /\ pc \in {"window", "select", "stopping", "browser", "opening"} => ~Sync
    /\ pc \in {"waiting", "window", "select"} => taken = 0 /\ opener = "none"
    /\ pc = "stopping" => taken = 1 /\ opener = "none"
    /\ pc \in {"browser", "opening"} => make = "ok" /\ taken = 0

(* What make's state and the pending value of done say.                     *)
MakeInv ==
    /\ pc # "exited" /\ done = "ok" => make = "ok"
    /\ pc # "exited" /\ done = "err" => make = "err"
    /\ make = "killed" => exit = "one" /\ taken = 2
    /\ make = "ok" => recipe = "ok"
    /\ make = "err" => recipe \in {"ok", "err"}

Inv ==
    /\ TypeOK
    /\ PlaceInv
    /\ MakeInv
    /\ ExitHonest
    /\ NoStray
    /\ BrowserOnlyWhenUp

(* Every variable of a call of ExecuteCommand stays within its type, the    *)
(* signal channel within its capacity, and no more than two signals are     *)
(* ever received.                                                           *)
LEMMA InitInv == Init => Inv
  BY DEF Init, Inv, TypeOK, PlaceInv, MakeInv, ExitHonest, NoStray,
         BrowserOnlyWhenUp, Capacity, Kind, Sync

(* Each step keeps the invariant.                                           *)
LEMMA StepInv == Inv /\ [Next]_vars => Inv'
<1> SUFFICES ASSUME Inv, [Next]_vars
             PROVE  Inv'
  OBVIOUS
<1> USE DEF Inv, TypeOK, PlaceInv, MakeInv, ExitHonest, NoStray,
            BrowserOnlyWhenUp, Capacity, Kind, Sync, Ended, Exit
<1>1. CASE StartFails
  BY <1>1 DEF StartFails
<1>2. CASE Start
  BY <1>2 DEF Start
<1>3. CASE Wait
  BY <1>3 DEF Wait
<1>4. CASE Notify
  BY <1>4 DEF Notify
<1>5. CASE Reap
  BY <1>5 DEF Reap
<1>6. CASE SelectSignal
  BY <1>6 DEF SelectSignal
<1>7. CASE SelectDone
  BY <1>7 DEF SelectDone
<1>8. CASE StopSignal
  BY <1>8 DEF StopSignal
<1>9. CASE StopDone
  BY <1>9 DEF StopDone
<1>10. CASE NoBrowser
  BY <1>10 DEF NoBrowser
<1>11. CASE OpenBrowser
  BY <1>11 DEF OpenBrowser
<1>12. CASE AppearsSuccessful
  BY <1>12 DEF AppearsSuccessful
<1>13. ASSUME NEW from \in {"tty", "solo"}, Signal(from)
       PROVE  Inv'
  BY <1>13 DEF Signal, HandlerInstalled
<1>14. CASE OtherSignal
  BY <1>14 DEF OtherSignal
<1>15. CASE RecipeEnds
  BY <1>15 DEF RecipeEnds
<1>16. CASE MakeEnds
  BY <1>16 DEF MakeEnds
<1>17. CASE OpenerEnds
  BY <1>17 DEF OpenerEnds
<1>18. CASE UNCHANGED vars
  BY <1>18 DEF vars
<1> QED
  BY <1>1, <1>2, <1>3, <1>4, <1>5, <1>6, <1>7, <1>8, <1>9, <1>10, <1>11,
     <1>12, <1>13, <1>14, <1>15, <1>16, <1>17, <1>18 DEF Next, Lgtmp

(* The invariant holds in every reachable state.                            *)
LEMMA InvCorrect == Spec => []Inv
  BY InitInv, StepInv, PTL DEF Spec

(* Types, the signal buffer's capacity and the number of received signals.  *)
THEOREM TypeCorrect == Spec => []TypeOK
<1>1. Inv => TypeOK
  BY DEF Inv
<1> QED
  BY <1>1, InvCorrect, PTL

(* Exit status 0 only after make succeeded or a request to stop was obeyed. *)
THEOREM ExitHonestCorrect == Spec => []ExitHonest
<1>1. Inv => ExitHonest
  BY DEF Inv
<1> QED
  BY <1>1, InvCorrect, PTL

(* lgtmp does not return by itself while make runs, and leaves a recipe     *)
(* behind only when it was told twice to stop.                              *)
THEOREM NoStrayCorrect == Spec => []NoStray
<1>1. Inv => NoStray
  BY DEF Inv
<1> QED
  BY <1>1, InvCorrect, PTL

(* A browser is opened only for a stack that came up.                       *)
THEOREM BrowserCorrect == Spec => []BrowserOnlyWhenUp
<1>1. Inv => BrowserOnlyWhenUp
  BY DEF Inv
<1> QED
  BY <1>1, InvCorrect, PTL

-----------------------------------------------------------------------------
(* Every step of ExecuteCommand is a step of CommandRun or leaves its state *)
(* alone.                                                                   *)
LEMMA StepSimulation == Inv /\ [Next]_vars => [Run!Next]_(Run!vars)
<1> SUFFICES ASSUME Inv, [Next]_vars
             PROVE  Run!Next \/ UNCHANGED Run!vars
  OBVIOUS
<1> USE DEF Inv, TypeOK, PlaceInv, MakeInv, Ended, Exit, work
<1>1. CASE StartFails
  <2>1. Run!CannotBegin
    BY <1>1 DEF StartFails, Run!CannotBegin
  <2> QED
    BY <2>1 DEF Run!Next
<1>2. CASE Start
  <2>1. Run!Begin
    BY <1>2 DEF Start, Run!Begin
  <2> QED
    BY <2>1 DEF Run!Next
<1>3. CASE Wait
  <2>1. Run!Succeed \/ Run!Fail
    BY <1>3 DEF Wait, Run!Succeed, Run!Fail
  <2> QED
    BY <2>1 DEF Run!Next
<1>4. CASE Notify \/ Reap \/ OpenBrowser \/ RecipeEnds \/ OpenerEnds
  BY <1>4 DEF Notify, Reap, OpenBrowser, RecipeEnds, OpenerEnds, Run!vars
<1>5. CASE SelectSignal
  <2>1. Run!Ask
    BY <1>5 DEF SelectSignal, Run!Ask
  <2> QED
    BY <2>1 DEF Run!Next
<1>6. CASE SelectDone
  <2>1. CASE done = "err"
    <3>1. Run!Fail
      BY <1>6, <2>1 DEF SelectDone, Run!Fail
    <3> QED
      BY <3>1 DEF Run!Next
  <2>2. CASE done # "err"
    BY <1>6, <2>2 DEF SelectDone, Run!vars
  <2> QED
    BY <2>1, <2>2
<1>7. CASE StopSignal
  <2>1. Run!Force
    BY <1>7 DEF StopSignal, Run!Force
  <2> QED
    BY <2>1 DEF Run!Next
<1>8. CASE StopDone
  <2>1. Run!Succeed
    BY <1>8 DEF StopDone, Run!Succeed
  <2> QED
    BY <2>1 DEF Run!Next
<1>9. CASE NoBrowser \/ AppearsSuccessful
  <2>1. Run!Succeed
    BY <1>9 DEF NoBrowser, AppearsSuccessful, Run!Succeed
  <2> QED
    BY <2>1 DEF Run!Next
<1>10. ASSUME NEW from \in {"tty", "solo"}, Signal(from)
       PROVE  Run!Next \/ UNCHANGED Run!vars
  <2>1. CASE HandlerInstalled
    BY <1>10, <2>1 DEF Signal, Run!vars
  <2>2. CASE ~HandlerInstalled
    <3>1. Run!Die
      BY <1>10, <2>2 DEF Signal, Run!Die
    <3> QED
      BY <3>1 DEF Run!Next
  <2> QED
    BY <2>1, <2>2
<1>11. CASE OtherSignal
  <2>1. Run!Die
    BY <1>11 DEF OtherSignal, Run!Die
  <2> QED
    BY <2>1 DEF Run!Next
<1>12. CASE MakeEnds
  <2>1. Run!WorkEnds
    BY <1>12 DEF MakeEnds, Run!WorkEnds
  <2> QED
    BY <2>1 DEF Run!Next
<1>13. CASE UNCHANGED vars
  BY <1>13 DEF vars, Run!vars
<1> QED
  BY <1>1, <1>2, <1>3, <1>4, <1>5, <1>6, <1>7, <1>8, <1>9, <1>10, <1>11,
     <1>12, <1>13 DEF Next, Lgtmp

(* ExecuteCommand implements CommandRun under the mapping of the model.     *)
THEOREM CommandRunImplemented == Spec => ImplementsCommandRun
<1>1. Init => Run!Init
  BY DEF Init, Run!Init, work
<1> QED
  BY <1>1, StepSimulation, InvCorrect, PTL DEF Spec, Run!Spec, ImplementsCommandRun
=============================================================================
