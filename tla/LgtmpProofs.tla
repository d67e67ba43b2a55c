----------------------------- MODULE LgtmpProofs -----------------------------
(* Theorems about successive lgtmp commands: what ExecuteCommand guarantees *)
(* for one call, taken over from ExecuteCommandProofs, holds for each of    *)
(* them, and the shell sees it.                                             *)
EXTENDS Lgtmp, TLAPS

Call == INSTANCE ExecuteCommandProofs

(* Where a command is, and what the shell knows of the last one.            *)
PhaseInv ==
    /\ phase \in {"shell", "extracting", "resolving", "running"}
    /\ cmd \in Command \cup {NoCommand}
    /\ tree \in {"none", "torn", "whole"}
    /\ status \in {"none", "zero", "one", "signal"}
    /\ phase \in {"extracting", "resolving"} => pc = "start"
    /\ phase \in {"resolving", "running"} => tree = "whole"
    /\ phase = "running" => Runnable(cmd) /\ Accepted(cmd)
    /\ pc # "start" => Runnable(cmd)
    /\ phase = "shell" => pc = "start" \/ (pc = "exited" /\ status = exit)

Inv == PhaseInv /\ Call!Inv

-----------------------------------------------------------------------------
(* The targets of the Makefile, for one action, mode and stack.             *)
LEMMA Triples ==
    ASSUME NEW A, NEW B, NEW C, NEW a, NEW b, NEW c
    PROVE  /\ <<a, b, c>> \in {<<x, y, z>> : x \in A, y \in B, z \in C} <=>
                  a \in A /\ b \in B /\ c \in C
           /\ \A y, z : <<a, b, c>> \in {<<x, y, z>> : x \in A} <=>
                  a \in A /\ b = y /\ c = z
OBVIOUS

LEMMA Targets ==
    ASSUME NEW a \in {"up", "down", "deploy", "delete"}, NEW m, NEW t
    PROVE  <<a, m, t>> \in UpDown \cup DeployDelete <=>
              \/ m \in {Mono, Micro} /\ t \in Stacks
              \/ m = Mono /\ t = "all-in-one"
              \/ m = RW /\ t = "logs"
<1>1. <<a, m, t>> \in UpDown <=>
         /\ a \in {"up", "down"}
         /\ \/ m \in {Mono, Micro} /\ t \in Stacks
            \/ m = Mono /\ t = "all-in-one"
            \/ m = RW /\ t = "logs"
  BY Triples DEF UpDown
<1>2. <<a, m, t>> \in DeployDelete <=>
         /\ a \in {"deploy", "delete"}
         /\ \/ m \in {Mono, Micro} /\ t \in Stacks
            \/ m = Mono /\ t = "all-in-one"
            \/ m = RW /\ t = "logs"
  BY Triples DEF DeployDelete
<1>3. QED
  BY <1>1, <1>2

(* The lists of modes in the packages and the targets of the Makefile agree. *)
LEMMA AcceptedIffTarget ==
    ASSUME NEW c \in Command
    PROVE  Accepted(c) <=> HasTarget(c)
<1>1. /\ c.action \in {"up", "down", "deploy", "delete"} /\ c.stack \in StackCmd
      /\ c.mode \in TypedMode
  BY DEF Command, NewCmdRoot, NewCmdUp, NewCmdDown, NewCmdDeploy, NewCmdDelete
<1>2. Mode(c) \in {Mono, RW, Micro, "any other"}
  <2>1. c.stack.default = Mono
    BY <1>1 DEF StackCmd, NewCmdAll, NewCmdLogs, NewCmdMetrics, NewCmdProfiles,
                NewCmdTraces
  <2>2. QED
    BY <1>1, <2>1 DEF Mode, TypedMode, Omitted
<1>3. ASSUME NEW m \in {Mono, RW, Micro, "any other"}, NEW s \in StackCmd
      PROVE  m \in s.modes <=> \/ m \in {Mono, Micro} /\ s.target \in Stacks
                               \/ m = Mono /\ s.target = "all-in-one"
                               \/ m = RW /\ s.target = "logs"
  <2>1. CASE s = NewCmdAll
    BY <2>1 DEF NewCmdAll, Stacks, Mono, RW, Micro
  <2>2. CASE s = NewCmdLogs
    BY <2>2 DEF NewCmdLogs, Stacks, Mono, RW, Micro
  <2>3. CASE s = NewCmdMetrics
    BY <2>3 DEF NewCmdMetrics, Stacks, Mono, RW, Micro
  <2>4. CASE s = NewCmdProfiles
    BY <2>4 DEF NewCmdProfiles, Stacks, Mono, RW, Micro
  <2>5. CASE s = NewCmdTraces
    BY <2>5 DEF NewCmdTraces, Stacks, Mono, RW, Micro
  <2>6. QED
    BY <2>1, <2>2, <2>3, <2>4, <2>5 DEF StackCmd
<1>4. QED
  BY <1>1, <1>2, <1>3, Targets DEF Accepted, HasTarget, Target

(* The module that Lgtmp instantiates is the one the theorems are about.     *)
LEMMA SameModule ==
    /\ Exec!Next => Call!Next
    /\ Exec!Init => Call!Init
    /\ Call!TypeOK => Exec!TypeOK
    /\ Exec!Kind = Call!Kind
<1>1. Exec!Next => Call!Next
  BY DEF Exec!Next, Exec!Lgtmp, Exec!StartFails, Exec!Start, Exec!Wait, Exec!Notify,
         Exec!Reap, Exec!SelectSignal, Exec!SelectDone, Exec!StopSignal, Exec!StopDone,
         Exec!NoBrowser, Exec!OpenBrowser, Exec!AppearsSuccessful, Exec!Signal,
         Exec!OtherSignal, Exec!RecipeEnds, Exec!MakeEnds, Exec!OpenerEnds,
         Exec!Exit, Exec!Sync, Exec!Ended, Exec!HandlerInstalled, Exec!Capacity,
         Call!Next, Call!Lgtmp, Call!StartFails, Call!Start, Call!Wait, Call!Notify,
         Call!Reap, Call!SelectSignal, Call!SelectDone, Call!StopSignal, Call!StopDone,
         Call!NoBrowser, Call!OpenBrowser, Call!AppearsSuccessful, Call!Signal,
         Call!OtherSignal, Call!RecipeEnds, Call!MakeEnds, Call!OpenerEnds,
         Call!Exit, Call!Sync, Call!Ended, Call!HandlerInstalled, Call!Capacity
<1>2. Exec!Init => Call!Init
  BY DEF Exec!Init, Call!Init, Exec!Kind, Call!Kind
<1>3. Call!TypeOK => Exec!TypeOK
  BY DEF Exec!TypeOK, Call!TypeOK, Exec!Kind, Call!Kind, Exec!Capacity, Call!Capacity
<1>4. Exec!Kind = Call!Kind
  BY DEF Exec!Kind, Call!Kind
<1>5. QED
  BY <1>1, <1>2, <1>3, <1>4

LEMMA InitInv == Init => Inv
<1>1. Init => PhaseInv
  BY DEF Init, Exec!Init, PhaseInv
<1>2. Init => Call!Inv
  BY SameModule, Call!InitInv DEF Init
<1>3. QED
  BY <1>1, <1>2 DEF Inv

LEMMA StepInv == Inv /\ [Next]_vars => Inv'
<1> SUFFICES ASSUME Inv, [Next]_vars PROVE Inv'
  OBVIOUS
<1> USE DEF Inv
<1>1. ASSUME NEW c \in Command \cup {NoCommand}, Launch(c) PROVE Inv'
  <2>1. PhaseInv'
    BY <1>1 DEF Launch, PhaseInv
  <2>2. kind' \in Call!Kind
    BY <1>1, SameModule DEF Launch
  <2>3. Call!Inv'
    BY <1>1, <2>2 DEF Launch, Call!Inv, Call!TypeOK, Call!PlaceInv, Call!MakeInv,
       Call!ExitHonest, Call!NoStray, Call!BrowserOnlyWhenUp, Call!Capacity, Call!Sync
  <2>4. QED
    BY <2>1, <2>3
<1>2. CASE Execute
  <2>1. Call!Inv'
    BY <1>2, SameModule, Call!StepInv DEF Execute
  <2>2. PhaseInv'
    BY <1>2 DEF Execute, shellVars, PhaseInv
  <2>3. QED
    BY <2>1, <2>2
<1>3. ASSUME UNCHANGED execVars PROVE Call!Inv'
  BY <1>3, Call!StepInv DEF execVars, Call!vars
<1>4. CASE Extract
  BY <1>3, <1>4 DEF Extract, Back, PhaseInv, execVars
<1>5. CASE Resolve
  BY <1>3, <1>5 DEF Resolve, Back, PhaseInv, execVars
<1>6. CASE Interrupt
  BY <1>3, <1>6 DEF Interrupt, Back, PhaseInv, execVars
<1>7. CASE Return
  <2>1. pc = "exited" /\ exit \in {"zero", "one", "signal"}
    BY <1>7 DEF Return, Call!Inv, Call!TypeOK, Call!PlaceInv
  <2>2. QED
    BY <1>3, <1>7, <2>1 DEF Return, Back, PhaseInv, execVars
<1>8. CASE UNCHANGED vars
  BY <1>3, <1>8 DEF vars, shellVars, execVars, PhaseInv
<1>9. QED
  BY <1>1, <1>2, <1>4, <1>5, <1>6, <1>7, <1>8 DEF Next

(* The invariant holds in every reachable state.                            *)
LEMMA InvCorrect == Spec => []Inv
BY InitInv, StepInv, PTL DEF Spec

-----------------------------------------------------------------------------
(* The shell, the command and its call of ExecuteCommand stay within their  *)
(* types.                                                                   *)
THEOREM TypeCorrect == Spec => []TypeOK
<1>1. Inv => TypeOK
  BY SameModule DEF Inv, PhaseInv, TypeOK, Call!Inv
<1>2. QED
  BY <1>1, InvCorrect, PTL

(* make only ever runs in a complete tree, for a target of its Makefile.    *)
THEOREM MakeFindsTargetCorrect == Spec => []MakeFindsTarget
<1>1. Inv => MakeFindsTarget
  BY AcceptedIffTarget DEF Inv, PhaseInv, MakeFindsTarget, Runnable
<1>2. QED
  BY <1>1, InvCorrect, PTL

(* The next command removes a recipe's tree under it only if the one before *)
(* was interrupted or told twice to stop.                                   *)
THEOREM UndercutCorrect == Spec => UndercutAfterInterruptOnly
<1>1. ASSUME Inv, NEW c \in Command \cup {NoCommand}, Launch(c), recipe = "running"
      PROVE  status = "signal" \/ taken = 2
  <2>1. pc = "exited" /\ status = exit
    BY <1>1 DEF Inv, PhaseInv, Launch, Call!Inv, Call!PlaceInv
  <2>2. exit \in {"zero", "one", "signal"}
    BY <1>1, <2>1 DEF Inv, Call!Inv, Call!TypeOK, Call!PlaceInv
  <2>3. exit \in {"zero", "one"} => taken = 2
    BY <1>1 DEF Inv, Call!Inv, Call!NoStray
  <2>4. QED
    BY <2>1, <2>2, <2>3
<1>2. Inv /\ [Next]_vars =>
         [\A c \in Command \cup {NoCommand} :
             Launch(c) /\ recipe = "running" => status = "signal" \/ taken = 2]_vars
  BY <1>1
<1>3. QED
  BY <1>2, InvCorrect, PTL DEF Spec, UndercutAfterInterruptOnly

(* lgtmp turns down only what the Makefile could not do either.             *)
THEOREM RefusedCorrect == Spec => RefusedHasNoTarget
<1>1. ASSUME Inv, [Next]_vars, phase = "resolving", status' = "one", phase' = "shell"
      PROVE  ~HasTarget(cmd)
  <2>1. Runnable(cmd) /\ ~Accepted(cmd)
    <3>1. CASE Resolve
      BY <1>1, <3>1 DEF Resolve, Back
    <3>2. CASE Interrupt
      BY <1>1, <3>2 DEF Interrupt, Back
    <3>3. QED
      BY <1>1, <3>1, <3>2 DEF Next, Launch, Extract, Execute, Return, vars, shellVars
  <2>2. cmd \in Command
    BY <1>1, <2>1 DEF Inv, PhaseInv, Runnable
  <2>3. QED
    BY <2>1, <2>2, AcceptedIffTarget
<1>2. Inv /\ [Next]_vars =>
         [phase = "resolving" /\ status' = "one" /\ phase' = "shell" =>
             ~HasTarget(cmd)]_vars
  BY <1>1
<1>3. QED
  BY <1>2, InvCorrect, PTL DEF Spec, RefusedHasNoTarget

-----------------------------------------------------------------------------
(* The refinement.  While ExecuteCommand can take a step, its exit status   *)
(* is the one of the mapping, and its steps are those of CommandRun.        *)
ShellStatus ==
    CASE phase = "running" -> exit
      [] phase = "shell"   -> status
      [] OTHER             -> "none"

LEMMA SameRun ==
    ASSUME exit = ShellStatus, exit' = ShellStatus',
           Call!Run!Next \/ UNCHANGED Call!Run!vars
    PROVE  Shell!Run!Next \/ UNCHANGED <<Exec!work, taken > 0, ShellStatus>>
<1>1. Exec!work = Call!work /\ Exec!work' = Call!work'
  BY DEF Exec!work, Call!work
<1>2. CASE UNCHANGED Call!Run!vars
  BY <1>1, <1>2 DEF Call!Run!vars
<1>3. CASE Call!Run!Next
  BY <1>1, <1>3
     DEF Call!Run!Next, Call!Run!Begin, Call!Run!CannotBegin, Call!Run!WorkEnds,
         Call!Run!Ask, Call!Run!Succeed, Call!Run!Fail, Call!Run!Force, Call!Run!Die,
         Shell!Run!Next, Shell!Run!Begin, Shell!Run!CannotBegin, Shell!Run!WorkEnds,
         Shell!Run!Ask, Shell!Run!Succeed, Shell!Run!Fail, Shell!Run!Force,
         Shell!Run!Die, ShellStatus
<1>4. QED
  BY <1>2, <1>3

(* One command after the other, each with its own call of ExecuteCommand,   *)
(* implements Session.                                                      *)
THEOREM SessionImplemented == Spec => ImplementsSession
<1>1. Init => Shell!Init
  BY DEF Init, Exec!Init, Shell!Init, Shell!Run!Init, Exec!work, Runnable
<1>2. Inv /\ [Next]_vars => [Shell!Next]_(Shell!vars)
  <2> SUFFICES ASSUME Inv, [Next]_vars PROVE Shell!Next \/ UNCHANGED Shell!vars
    OBVIOUS
  <2>1. /\ PhaseInv /\ PhaseInv' /\ Call!TypeOK
        /\ exit # "none" <=> pc = "exited"
        /\ make = "none" <=> Exec!work = "idle"
        /\ pc = "start" => make = "none" /\ recipe = "none" /\ taken = 0
    BY StepInv DEF Inv, Call!Inv, Call!TypeOK, Call!PlaceInv, Call!MakeInv, Exec!work
  <2>2. ASSUME NEW c \in Command \cup {NoCommand}, Launch(c) PROVE Shell!NewCommand
    <3>1. Exec!work = "running" => status = "signal"
      BY <2>1, <2>2 DEF Launch, Inv, PhaseInv, Call!Inv, Call!NoStray, Call!TypeOK,
                        Exec!work
    <3>2. Exec!work' = "idle" /\ taken' = 0 /\ phase' = "extracting" /\ phase = "shell"
      BY <2>2 DEF Launch, Exec!work
    <3>3. QED
      BY <3>1, <3>2 DEF Shell!NewCommand, Shell!Run!Init, Runnable
  <2>3. CASE Extract \/ Resolve \/ Interrupt
    <3>1. /\ UNCHANGED <<Exec!work, taken, cmd>> /\ Exec!work = "idle" /\ exit = "none"
          /\ phase \in {"extracting", "resolving"}
      BY <2>1, <2>3 DEF Extract, Resolve, Interrupt, execVars, PhaseInv, Exec!work
    <3>2. CASE phase' = "shell"
      <4>1. status' \in {"one", "signal"} \cup {s \in {"zero"} : ~Runnable(cmd)}
        BY <2>3, <3>2 DEF Extract, Resolve, Interrupt, Back
      <4>2. QED
        BY <3>1, <3>2, <4>1 DEF Shell!EndWithoutMake, Shell!Next
    <3>3. CASE phase' # "shell"
      <4>1. phase' \in {"resolving", "running"} /\ exit' = "none"
        BY <2>3, <3>1, <3>3 DEF Extract, Resolve, Interrupt, Back, execVars
      <4>2. QED
        BY <3>1, <3>3, <4>1 DEF Shell!vars
    <3>4. QED
      BY <3>2, <3>3 DEF Shell!Next
  <2>4. CASE Execute
    <3>1. Exec!Next /\ UNCHANGED shellVars
          /\ (phase = "running" \/ make = "running" \/ recipe = "running")
          /\ (phase # "running" => UNCHANGED <<pc, exit>>)
      BY <2>4 DEF Execute
    <3>2. exit = ShellStatus /\ exit' = ShellStatus' /\ Runnable(cmd)
      BY <2>1, <3>1 DEF PhaseInv, ShellStatus, shellVars
    <3>3. Call!Run!Next \/ UNCHANGED Call!Run!vars
      BY <3>1, SameModule, Call!StepSimulation DEF Inv
    <3>4. Shell!Run!Next \/ UNCHANGED <<Exec!work, taken > 0, ShellStatus>>
      BY <3>2, <3>3, SameRun
    <3>5. QED
      BY <3>1, <3>2, <3>4 DEF Shell!Next, Shell!Work, Shell!vars, shellVars, ShellStatus
  <2>5. CASE Return
    BY <2>5 DEF Return, Back, execVars, Exec!work, Shell!Return, Shell!Next
  <2>6. CASE UNCHANGED vars
    BY <2>6 DEF vars, shellVars, execVars, Exec!work, Shell!vars
  <2>7. QED
    BY <2>2, <2>3, <2>4, <2>5, <2>6 DEF Next, Shell!Next
<1>3. QED
  BY <1>1, <1>2, InvCorrect, PTL DEF Spec, Shell!Spec, ImplementsSession
=============================================================================
