------------------------------- MODULE Lgtmp -------------------------------
(***************************************************************************)
(* Successive lgtmp commands of one shell: init() rebuilds .lgtmp (GenDir,  *)
(* here in one piece), cobra resolves the command and its --mode            *)
(* (src/pkg/cmd), ExecuteCommand runs the make target in .lgtmp, and the    *)
(* shell starts the next command when lgtmp has returned.  What an earlier  *)
(* command left running meets the next command's RemoveAll.                 *)
(***************************************************************************)
EXTENDS Naturals

Mono  == "monolithic-mode"
RW    == "read-write-mode"
Micro == "microservices-mode"

(* Mutants: the list of another package is copied; a mode is forgotten.     *)
NewCmdAllLikeMetrics ==
    [target |-> "all-in-one", modes |-> {Mono, Micro}, default |-> Mono]
NewCmdLogsLikeMetrics ==
    [target |-> "logs", modes |-> {Mono, Micro}, default |-> Mono]

(* The packages of the stacks: the end of the target's name, supportedModes *)
(* and the default of --mode.                                               *)
NewCmdAll ==
    [target |-> "all-in-one", modes |-> {Mono}, default |-> Mono]
NewCmdLogs ==
    [target |-> "logs", modes |-> {Mono, RW, Micro}, default |-> Mono]
NewCmdMetrics ==
    [target |-> "metrics", modes |-> {Mono, Micro}, default |-> Mono]
NewCmdProfiles ==
    [target |-> "profiles", modes |-> {Mono, Micro}, default |-> Mono]
NewCmdTraces ==
    [target |-> "traces", modes |-> {Mono, Micro}, default |-> Mono]

StackCmd == {NewCmdAll, NewCmdLogs, NewCmdMetrics, NewCmdProfiles, NewCmdTraces}

(* The command tree: each action has the five stacks as its subcommands.    *)
NewCmdUp     == {"up"} \X StackCmd
NewCmdDown   == {"down"} \X StackCmd
NewCmdDeploy == {"deploy"} \X StackCmd
NewCmdDelete == {"delete"} \X StackCmd
NewCmdRoot   == NewCmdUp \cup NewCmdDown \cup NewCmdDeploy \cup NewCmdDelete

(* What is typed: a stack's command with or without --mode, or a command    *)
(* that runs nothing (version, help, lgtmp up without a stack).             *)
Omitted   == "omitted"
TypedMode == {Mono, RW, Micro, "any other", Omitted}
Command   == {[action |-> c[1], stack |-> c[2], mode |-> m] :
                  c \in NewCmdRoot, m \in TypedMode}
NoCommand == [action |-> "version"]
Runnable(c) == c # NoCommand
Mode(c)     == IF c.mode = Omitted THEN c.stack.default ELSE c.mode

(* The target RunE composes, <action>-<mode>-<stack>, and the targets of    *)
(* the Makefile.                                                            *)
Target(c) == <<c.action, Mode(c), c.stack.target>>

Stacks == {"logs", "metrics", "profiles", "traces"}
UpDown ==
    {<<a, m, s>> : a \in {"up", "down"}, m \in {Mono, Micro}, s \in Stacks}
    \cup {<<a, Mono, "all-in-one">> : a \in {"up", "down"}}
    \cup {<<a, RW, "logs">> : a \in {"up", "down"}}
DeployDelete ==
    {<<a, m, s>> : a \in {"deploy", "delete"}, m \in {Mono, Micro}, s \in Stacks}
    \cup {<<a, Mono, "all-in-one">> : a \in {"deploy", "delete"}}
    \cup {<<a, RW, "logs">> : a \in {"deploy", "delete"}}
HasTarget(c) == Target(c) \in UpDown \cup DeployDelete

VARIABLES
    phase,   \* "shell", "extracting", "resolving" or "running"
    cmd,     \* the current or the last command
    tree,    \* .lgtmp: "none", "torn" or "whole"
    status   \* the last exit status the shell saw

(* The state of ExecuteCommand.                                             *)
VARIABLES kind, pc, signalChan, done, make, recipe, opener, taken, exit

execVars  == <<kind, pc, signalChan, done, make, recipe, opener, taken, exit>>
shellVars == <<phase, cmd, tree, status>>
vars      == <<shellVars, execVars>>

Exec == INSTANCE ExecuteCommand

Init ==
    /\ phase = "shell"
    /\ cmd = NoCommand
    /\ tree = "none"
    /\ status = "none"
    /\ Exec!Init

(* A new process.  Its RemoveAll takes the tree from a recipe that an       *)
(* earlier command left behind; such a recipe is not followed any further.  *)
Launch(c) ==
    /\ phase = "shell"
    /\ phase' = "extracting"
    /\ cmd' = c
    /\ tree' = "torn"
    /\ kind' \in {k \in Exec!Kind : Runnable(c) => k = c.action}
    /\ pc' = "start" /\ exit' = "none" /\ taken' = 0
    /\ signalChan' = 0 /\ done' = "empty"
    /\ make' = "none" /\ recipe' = "none" /\ opener' = "none"
    /\ UNCHANGED status

Back(how) == phase' = "shell" /\ status' = how

Extract ==
    /\ phase = "extracting"
    /\ \/ phase' = "resolving" /\ tree' = "whole" /\ UNCHANGED status
       \/ Back("one") /\ UNCHANGED tree
    /\ UNCHANGED <<cmd, execVars>>

(* RunE: the mode is checked, then ExecuteCommand is called.                *)
Accepted(c) == Mode(c) \in c.stack.modes

(* Mutant of Resolve: cobra's error is printed, but main returns normally.  *)
ResolveQuietly ==
    /\ phase = "resolving"
    /\ IF Runnable(cmd) /\ Accepted(cmd)
       THEN phase' = "running" /\ UNCHANGED status
       ELSE Back("zero")
    /\ UNCHANGED <<cmd, tree, execVars>>

Resolve ==
    /\ phase = "resolving"
    /\ IF Runnable(cmd) /\ Accepted(cmd)
       THEN phase' = "running" /\ UNCHANGED status
       ELSE Back(IF Runnable(cmd) THEN "one" ELSE "zero")
    /\ UNCHANGED <<cmd, tree, execVars>>

(* A signal outside ExecuteCommand has its default action.                  *)
Interrupt ==
    /\ phase \in {"extracting", "resolving"}
    /\ Back("signal")
    /\ UNCHANGED <<cmd, tree, execVars>>

(* ExecuteCommand's own steps, and those of make and the recipe, which go   *)
(* on after lgtmp is gone.                                                  *)
Execute ==
    /\ phase = "running" \/ make = "running" \/ recipe = "running"
    /\ Exec!Next
    /\ phase # "running" => UNCHANGED <<pc, exit>>
    /\ UNCHANGED shellVars

(* Mutant of Return: lgtmp detaches from make.                              *)
Detach ==
    /\ phase = "running"
    /\ make = "running" \/ exit # "none"
    /\ Back(IF exit = "none" THEN "zero" ELSE exit)
    /\ UNCHANGED <<cmd, tree, execVars>>

Return ==
    /\ phase = "running"
    /\ exit # "none"
    /\ Back(exit)
    /\ UNCHANGED <<cmd, tree, execVars>>

Next ==
    \/ \E c \in Command \cup {NoCommand} : Launch(c)
    \/ Extract \/ Resolve \/ Interrupt \/ Execute \/ Return

Spec == Init /\ [][Next]_vars

-----------------------------------------------------------------------------
TypeOK ==
    /\ phase \in {"shell", "extracting", "resolving", "running"}
    /\ cmd \in Command \cup {NoCommand}
    /\ tree \in {"none", "torn", "whole"}
    /\ status \in {"none", "zero", "one", "signal"}
    /\ Exec!TypeOK

(* make only ever runs in a complete tree, for a target that the Makefile   *)
(* of that tree has.                                                        *)
MakeFindsTarget ==
    make # "none" /\ phase = "running" =>
        tree = "whole" /\ Runnable(cmd) /\ HasTarget(cmd)

(* A user who never interrupts lgtmp never has a recipe's tree removed      *)
(* under it by the next command.                                            *)
UndercutAfterInterruptOnly ==
    [][\A c \in Command \cup {NoCommand} :
          Launch(c) /\ recipe = "running" => status = "signal" \/ taken = 2]_vars

(* lgtmp turns down only what the Makefile could not do either: no mode of  *)
(* a stack is out of its reach.                                             *)
RefusedHasNoTarget ==
    [][phase = "resolving" /\ status' = "one" /\ phase' = "shell" =>
          ~HasTarget(cmd)]_vars

-----------------------------------------------------------------------------
(* The refinement mapping: inside a command the shell has no status yet, or *)
(* that of ExecuteCommand, which is not returned yet.                       *)
Shell == INSTANCE Session
            WITH busy   <- phase # "shell",
                 wanted <- Runnable(cmd),
                 work   <- Exec!work,
                 asked  <- taken > 0,
                 status <- CASE phase = "running" -> exit
                             [] phase = "shell"   -> status
                             [] OTHER             -> "none"

(* One command after the other, whatever an earlier one left running:       *)
(* success is reported only for a make that succeeded, for one the user     *)
(* asked to stop, or where make had nothing to do.                          *)
ImplementsSession == Shell!Spec
=============================================================================
