---------------------------- MODULE ComposeProofs ----------------------------
(* Theorems about docker compose up of any of the ten stacks side by side,  *)
(* for any number of crashes.                                               *)
EXTENDS Compose, TLAPS

Alive    == {"started", "healthy", "broken", "default"}
Ready(s) == IF StartPage(s) THEN {"healthy", "default"} ELSE {"healthy"}

(* Only Alloy and what is not the gateway crashes, and Alloy waits for the  *)
(* gateway's healthcheck: where Alloy has been started the gateway serves.  *)
GatewayInv ==
    \A s \in Stack :
        /\ container[s]["alloy"] # "none" => container[s]["gateway"] \in Ready(s)
        /\ container[s]["gateway"] = "default" => StartPage(s)
        /\ up[s] = "up" => \A x \in Services(s) : container[s][x] # "none"

(* No two containers that run hold one port of the host.                    *)
PortInv ==
    \A s, t \in Stack : s # t =>
        \A x \in Running(s), y \in Running(t) : Ports(s, x) \cap Ports(t, y) = {}

Whole == container = [s \in Stack |-> container[s]]

Inv == TypeOK /\ Whole /\ GatewayInv /\ PortInv

-----------------------------------------------------------------------------
LEMMA ServiceFacts == \A s : {"minio", "gateway", "alloy"} \subseteq Services(s)
BY DEF Services

(* A gateway that looks up names at its start is restarted when it ends.    *)
LEMMA NamesRestart ==
    ASSUME NEW s \in Stack, NamesAtStart(s) # {}
    PROVE  RestartAlways(s, "gateway")
<1>1. \/ s = <<Micro, "traces">>
      \/ s = <<Mono, "all">>
      \/ s = <<Mono, "traces">>
  BY DEF NamesAtStart
<1>2. QED
  BY <1>1 DEF RestartAlways

LEMMA StartsFacts ==
    ASSUME NEW s \in Stack, NEW x, NEW c \in Starts(s, x)
    PROVE  /\ c \in {"started", "broken", "exited", "restarting"}
           /\ c = "restarting" => RestartAlways(s, x)
           /\ c = "exited" => tree # "whole"
<1>1. CASE x = "gateway"
  <2>1. Dead(s, x) \in {"exited", "restarting"}
        /\ (Dead(s, x) = "restarting" <=> RestartAlways(s, x))
    BY DEF Dead
  <2>2. c \in Boot(s)
    BY <1>1 DEF Starts
  <2>3. CASE c = "started" \/ c = "broken"
    BY <2>3
  <2>4. CASE c = Dead(s, x) /\ tree # "whole"
    BY <2>1, <2>4
  <2>5. CASE c = Dead(s, x) /\ ~(NamesAtStart(s) \subseteq Running(s))
    BY <1>1, <2>1, <2>5, NamesRestart
  <2>6. QED
    BY <1>1, <2>2, <2>3, <2>4, <2>5 DEF Boot
<1>2. CASE x # "gateway"
  BY <1>2 DEF Starts
<1>3. QED
  BY <1>1, <1>2

LEMMA OnlyTwoRestart ==
    ASSUME NEW s, NEW x, RestartAlways(s, x)
    PROVE  x \in {"gateway", "tempo"}
BY DEF RestartAlways

(* What a step has to see to that gives stack s the containers f.           *)
LEMMA StackStep ==
    ASSUME Inv, NEW s \in Stack, NEW f \in [Services(s) -> State],
           container' = [container EXCEPT ![s] = f],
           up' \in [Stack -> {"down", "starting", "up", "failed"}],
           \A t \in Stack \ {s} : up'[t] = up[t],
           tree' = tree,
           f["alloy"] # "none" => f["gateway"] \in Ready(s),
           f["gateway"] = "default" => StartPage(s),
           up'[s] = "up" => \A x \in Services(s) : f[x] # "none",
           \A x \in Services(s) : f[x] = "restarting" => RestartAlways(s, x),
           \A x \in Services(s) : f[x] \in Alive =>
              x \in Running(s) \/ ~Conflict(s, x)
    PROVE  Inv'
<1> USE DEF Inv
<1>1. container'[s] = f /\ \A t \in Stack \ {s} : container'[t] = container[t]
  BY DEF Whole
<1>2. Whole'
  BY DEF Whole
<1>3. TypeOK'
  BY <1>1 DEF TypeOK
<1>4. GatewayInv'
  BY <1>1 DEF GatewayInv
<1>5. PortInv'
  <2>1. \A t \in Stack \ {s} : Running(t)' = Running(t)
    BY <1>1 DEF Running
  <2>2. ASSUME NEW x \in Running(s)', NEW t \in Stack \ {s}, NEW y \in Running(t)
        PROVE  Ports(s, x) \cap Ports(t, y) = {}
    <3>1. x \in Services(s) /\ f[x] \in Alive
      BY <1>1 DEF Running, Alive
    <3>2. CASE x \in Running(s)
      BY <3>2 DEF PortInv
    <3>3. CASE ~Conflict(s, x)
      BY <3>3 DEF Conflict
    <3>4. QED
      BY <3>1, <3>2, <3>3
  <2> SUFFICES ASSUME NEW t \in Stack, NEW u \in Stack, t # u,
                      NEW x \in Running(t)', NEW y \in Running(u)'
               PROVE  Ports(t, x) \cap Ports(u, y) = {}
    BY DEF PortInv
  <2>3. CASE t = s
    BY <2>1, <2>2, <2>3
  <2>4. CASE u = s
    BY <2>1, <2>2, <2>4
  <2>5. CASE t # s /\ u # s
    BY <2>1, <2>5 DEF PortInv
  <2>6. QED
    BY <2>3, <2>4, <2>5
<1>6. QED
  BY <1>2, <1>3, <1>4, <1>5

(* The same for one container that becomes c.                               *)
LEMMA ContainerStep ==
    ASSUME Inv, NEW s \in Stack, NEW x \in Services(s), NEW c \in State \ {"none"},
           container' = [container EXCEPT ![s][x] = c], up' = up, tree' = tree,
           x = "alloy" => container[s]["gateway"] \in Ready(s) \/ container[s][x] # "none",
           x = "gateway" => /\ container[s]["alloy"] # "none" => c \in Ready(s)
                            /\ c = "default" => StartPage(s),
           c = "restarting" => RestartAlways(s, x),
           c \in Alive => x \in Running(s) \/ ~Conflict(s, x)
    PROVE  Inv'
<1> USE DEF Inv
<1>1. PICK f : f = [container[s] EXCEPT ![x] = c]
  OBVIOUS
<1>2. container[s] \in [Services(s) -> State]
  BY DEF TypeOK
<1>3. /\ f \in [Services(s) -> State] /\ f[x] = c
      /\ \A y \in Services(s) \ {x} : f[y] = container[s][y]
  BY <1>1, <1>2
<1>4. container' = [container EXCEPT ![s] = f]
  BY <1>1
<1>5. f["alloy"] # "none" => f["gateway"] \in Ready(s)
  <2>1. CASE x = "gateway"
    BY <1>3, <2>1, ServiceFacts DEF GatewayInv
  <2>2. CASE x = "alloy"
    BY <1>3, <2>2, ServiceFacts DEF GatewayInv
  <2>3. CASE x \notin {"gateway", "alloy"}
    BY <1>3, <2>3, ServiceFacts DEF GatewayInv
  <2>4. QED
    BY <2>1, <2>2, <2>3
<1>6. f["gateway"] = "default" => StartPage(s)
  BY <1>3, ServiceFacts DEF GatewayInv
<1>7. up'[s] = "up" => \A y \in Services(s) : f[y] # "none"
  BY <1>3 DEF GatewayInv
<1>8. \A y \in Services(s) : f[y] = "restarting" => RestartAlways(s, y)
  BY <1>3 DEF TypeOK
<1>9. \A y \in Services(s) : f[y] \in Alive => y \in Running(s) \/ ~Conflict(s, y)
  BY <1>3 DEF Running, Alive
<1>10. up' \in [Stack -> {"down", "starting", "up", "failed"}]
  BY DEF TypeOK
<1>11. QED
  BY <1>3, <1>4, <1>5, <1>6, <1>7, <1>8, <1>9, <1>10, StackStep

(* A step of docker compose or Docker that leaves the containers alone.     *)
LEMMA OtherStep ==
    ASSUME Inv, container' = container, tree' \in {"whole", "torn"},
           up' \in [Stack -> {"down", "starting", "up", "failed"}],
           \A s \in Stack : up'[s] = "up" =>
              up[s] = "up" \/ \A x \in Services(s) : container[s][x] # "none"
    PROVE  Inv'
<1> USE DEF Inv
<1>1. TypeOK' /\ Whole'
  BY DEF TypeOK, Whole
<1>2. GatewayInv'
  BY DEF GatewayInv
<1>3. \A s \in Stack : Running(s)' = Running(s)
  BY DEF Running
<1>4. PortInv'
  BY <1>3 DEF PortInv
<1>5. QED
  BY <1>1, <1>2, <1>4

LEMMA StartContainerInv ==
    ASSUME Inv, NEW s \in Stack, NEW x \in Services(s), StartContainer(s, x)
    PROVE  Inv'
<1> USE DEF Inv
<1>1. CASE Conflict(s, x)
  BY <1>1, OtherStep DEF StartContainer, FailUp, TypeOK
<1>2. CASE ~Conflict(s, x)
  <2>1. PICK c \in Starts(s, x) : container' = [container EXCEPT ![s][x] = c]
    BY <1>2 DEF StartContainer
  <2>2. /\ container[s][x] = "none" /\ Satisfied(s, x)
        /\ up' = up /\ tree' = tree
    BY <1>2 DEF StartContainer
  <2>3. /\ c \in State \ {"none"} /\ c # "default"
        /\ c = "restarting" => RestartAlways(s, x)
    BY <2>1, StartsFacts DEF State
  <2>4. x = "alloy" => container[s]["gateway"] \in Ready(s)
    <3>1. x = "alloy" => <<"gateway", "healthy">> \in DependsOn(s, x)
      BY DEF DependsOn, AlloyWaits
    <3>2. x = "alloy" => container[s]["gateway"] \in {"healthy", "default"}
      BY <2>2, <3>1 DEF Satisfied
    <3>3. QED
      BY <3>2 DEF GatewayInv, Ready
  <2>5. x = "gateway" => container[s]["alloy"] = "none"
    BY <2>2 DEF GatewayInv, Ready
  <2>6. QED
    BY <1>2, <2>1, <2>2, <2>3, <2>4, <2>5, ContainerStep
<1>3. QED
  BY <1>1, <1>2

LEMMA HealthPassesInv ==
    ASSUME Inv, NEW s \in Stack, NEW x \in Services(s), HealthPasses(s, x)
    PROVE  Inv'
<1> USE DEF Inv
<1>1. PICK c \in {"healthy", "default"} :
         /\ container' = [container EXCEPT ![s][x] = c]
         /\ c = "default" => StartPage(s)
         /\ container[s][x] \in {"started", "broken"}
  BY DEF HealthPasses
<1>2. c \in State \ {"none"} /\ c # "restarting" /\ up' = up /\ tree' = tree
  BY DEF HealthPasses, State
<1>3. x \in Running(s)
  BY <1>1 DEF Running
<1>4. c \in Ready(s)
  BY <1>1 DEF Ready
<1>5. container[s][x] # "none"
  BY <1>1
<1>6. QED
  BY <1>1, <1>2, <1>3, <1>4, <1>5, ContainerStep

LEMMA RestartInv ==
    ASSUME Inv, NEW s \in Stack, NEW x \in Services(s), Restart(s, x)
    PROVE  Inv'
<1> USE DEF Inv
<1>1. PICK c \in IF Conflict(s, x) THEN {"exited"} ELSE Starts(s, x) :
         container' = [container EXCEPT ![s][x] = c]
  BY DEF Restart
<1>2. container[s][x] = "restarting" /\ up' = up /\ tree' = tree
  BY DEF Restart
<1>3. /\ c \in State \ {"none"} /\ c # "default"
      /\ c = "restarting" => RestartAlways(s, x)
  BY <1>1, StartsFacts DEF State
<1>4. c \in Alive => ~Conflict(s, x)
  BY <1>1 DEF Alive
<1>5. x = "gateway" => container[s]["alloy"] = "none"
  BY <1>2 DEF GatewayInv, Ready
<1>6. QED
  BY <1>1, <1>2, <1>3, <1>4, <1>5, ContainerStep

LEMMA CrashInv ==
    ASSUME Inv, NEW s \in Stack, NEW x \in Services(s), Crash(s, x)
    PROVE  Inv'
<1> USE DEF Inv
<1>1. /\ container' = [container EXCEPT ![s][x] = Dead(s, x)]
      /\ up' = up /\ tree' = tree /\ x # "gateway" /\ container[s][x] # "none"
  BY DEF Crash, Running
<1>2. /\ Dead(s, x) \in State \ {"none"} /\ Dead(s, x) \notin Alive
      /\ Dead(s, x) = "restarting" => RestartAlways(s, x)
  BY DEF Dead, State, Alive
<1>3. QED
  BY <1>1, <1>2, ContainerStep

LEMMA UpInv ==
    ASSUME Inv, NEW s \in Stack, Up(s)
    PROVE  Inv'
<1> USE DEF Inv
<1>1. PICK f : f = [x \in Services(s) |-> IF container[s][x] = "exited" THEN "none"
                                         ELSE container[s][x]]
  OBVIOUS
<1>2. /\ container' = [container EXCEPT ![s] = f]
      /\ up' = [up EXCEPT ![s] = "starting"] /\ tree' = tree
  BY <1>1 DEF Up, Whole
<1>3. container[s] \in [Services(s) -> State]
  BY DEF TypeOK
<1>4. f \in [Services(s) -> State]
  BY <1>1, <1>3 DEF State
<1>5. /\ f["alloy"] # "none" => f["gateway"] \in Ready(s)
      /\ f["gateway"] = "default" => StartPage(s)
  BY <1>1, ServiceFacts DEF GatewayInv, Ready
<1>6. /\ \A x \in Services(s) : f[x] = "restarting" => RestartAlways(s, x)
      /\ \A x \in Services(s) : f[x] \in Alive => x \in Running(s)
  BY <1>1 DEF TypeOK, Running, Alive
<1>7. /\ up' \in [Stack -> {"down", "starting", "up", "failed"}]
      /\ up'[s] = "starting" /\ \A t \in Stack \ {s} : up'[t] = up[t]
  BY <1>2 DEF TypeOK
<1>8. QED
  BY <1>2, <1>4, <1>5, <1>6, <1>7, StackStep

LEMMA DownInv ==
    ASSUME Inv, NEW s \in Stack, Down(s)
    PROVE  Inv'
<1> USE DEF Inv
<1>1. PICK f : f = [x \in Services(s) |-> "none"]
  OBVIOUS
<1>2. /\ container' = [container EXCEPT ![s] = f]
      /\ up' = [up EXCEPT ![s] = "down"] /\ tree' = tree
  BY <1>1 DEF Down
<1>3. f \in [Services(s) -> State] /\ \A x \in Services(s) : f[x] = "none"
  BY <1>1 DEF State
<1>4. f["gateway"] = "none" /\ f["alloy"] = "none"
  BY <1>3, ServiceFacts
<1>5. /\ up' \in [Stack -> {"down", "starting", "up", "failed"}]
      /\ up'[s] = "down" /\ \A t \in Stack \ {s} : up'[t] = up[t]
  BY <1>2 DEF TypeOK
<1>6. QED
  BY <1>2, <1>3, <1>4, <1>5, StackStep DEF Alive

LEMMA InitInv == Init => Inv
<1> SUFFICES ASSUME Init PROVE Inv
  OBVIOUS
<1>1. \A s \in Stack : \A x \in Services(s) : container[s][x] = "none"
  BY DEF Init
<1>2. TypeOK
  BY <1>1 DEF Init, TypeOK, State
<1>3. Whole
  BY DEF Init, Whole
<1>4. GatewayInv
  BY <1>1, ServiceFacts DEF Init, GatewayInv
<1>5. PortInv
  BY <1>1 DEF PortInv, Running
<1>6. QED
  BY <1>2, <1>3, <1>4, <1>5 DEF Inv

LEMMA StepInv == Inv /\ [Next]_vars => Inv'
<1> SUFFICES ASSUME Inv, [Next]_vars PROVE Inv'
  OBVIOUS
<1>1. CASE Rebuild
  BY <1>1, OtherStep DEF Rebuild, Inv, TypeOK
<1>2. ASSUME NEW s \in Stack, Project(s) PROVE Inv'
  <2>1. CASE Up(s)
    BY <2>1, UpInv
  <2>2. CASE UpFails(s)
    BY <2>2, OtherStep DEF UpFails, FailUp, Inv, TypeOK
  <2>3. CASE UpDone(s)
    BY <2>3, OtherStep DEF UpDone, Inv, TypeOK
  <2>4. CASE Down(s)
    BY <2>4, DownInv
  <2>5. ASSUME NEW x \in Services(s), StartContainer(s, x) PROVE Inv'
    BY <2>5, StartContainerInv
  <2>6. ASSUME NEW x \in Services(s), HealthPasses(s, x) PROVE Inv'
    BY <2>6, HealthPassesInv
  <2>7. ASSUME NEW x \in Services(s), Restart(s, x) PROVE Inv'
    BY <2>7, RestartInv
  <2>8. ASSUME NEW x \in Services(s), Crash(s, x) PROVE Inv'
    BY <2>8, CrashInv
  <2>9. QED
    BY <1>2, <2>1, <2>2, <2>3, <2>4, <2>5, <2>6, <2>7, <2>8 DEF Project
<1>3. CASE UNCHANGED vars
  BY <1>3, OtherStep DEF vars, Inv, TypeOK
<1>4. QED
  BY <1>1, <1>2, <1>3 DEF Next

(* The invariant holds in every reachable state.                            *)
LEMMA InvCorrect == Spec => []Inv
BY InitInv, StepInv, PTL DEF Spec

-----------------------------------------------------------------------------
(* Every container of the stacks is in one of its states, and only what has *)
(* "restart: always" is ever restarted.                                     *)
THEOREM TypeCorrect == Spec => []TypeOK
<1>1. Inv => TypeOK
  BY DEF Inv
<1>2. QED
  BY <1>1, InvCorrect, PTL

(* When up has succeeded the gateway of the stack serves, whatever crashed, *)
(* was rebuilt or restarted on the way.                                     *)
THEOREM UpServesCorrect == Spec => []UpServes
<1>1. Inv => UpServes
  BY ServiceFacts DEF Inv, GatewayInv, UpServes, Ready
<1>2. QED
  BY <1>1, InvCorrect, PTL

(* Two stacks that publish the same ports are up together only if each      *)
(* container that clashes has crashed in one of them.                       *)
THEOREM OneStackUpCorrect == Spec => []OneStackUp
<1>1. ASSUME Inv, NEW s \in Stack, NEW t \in Stack, s # t, up[s] = "up", up[t] = "up",
             NEW x \in {"minio", "alloy"}
      PROVE  container[s][x] = "exited" \/ container[t][x] = "exited"
  <2>1. \A u \in Stack : up[u] = "up" => x \in Running(u) \/ container[u][x] = "exited"
    BY <1>1, ServiceFacts, OnlyTwoRestart DEF Inv, TypeOK, GatewayInv, Running, State
  <2>2. Ports(s, x) = Ports(t, x) /\ Ports(s, x) # {}
    BY <1>1 DEF Ports
  <2>3. QED
    BY <1>1, <2>1, <2>2 DEF Inv, PortInv
<1>2. Inv => OneStackUp
  BY <1>1 DEF OneStackUp
<1>3. QED
  BY <1>2, InvCorrect, PTL

(* A gateway is left dead only by starting on a torn .lgtmp, or because     *)
(* another stack took its port while it waited to be restarted.             *)
THEOREM NoDeadGatewayCorrect == Spec => NoDeadGateway
<1>1. ASSUME Inv, [Next]_vars, NEW s \in Stack,
             container'[s]["gateway"] = "exited", container[s]["gateway"] # "exited"
      PROVE  \/ tree = "torn"
             \/ container[s]["gateway"] = "restarting" /\ Conflict(s, "gateway")
  <2> DEFINE g == "gateway"
             Excused == \/ tree = "torn"
                        \/ container[s][g] = "restarting" /\ Conflict(s, g)
  <2>1. /\ g \in Services(s) /\ container = [t \in Stack |-> container[t]]
        /\ \A t \in Stack : container[t] \in [Services(t) -> State]
        /\ tree \in {"whole", "torn"}
    BY <1>1, ServiceFacts DEF Inv, Whole, TypeOK
  <2>2. PICK t \in Stack : Project(t)
    BY <1>1 DEF Next, Rebuild, vars
  <2>3. ASSUME NEW x \in Services(t), NEW c,
               container' = [container EXCEPT ![t][x] = c]
        PROVE  t = s /\ x = g /\ c = "exited"
    BY <1>1, <2>1, <2>3
  <2>4. ASSUME NEW x \in Services(t), NEW c \in Starts(t, x),
               container' = [container EXCEPT ![t][x] = c]
        PROVE  Excused
    BY <2>1, <2>3, <2>4, StartsFacts
  <2>5. CASE Up(t)
    BY <1>1, <2>1, <2>5 DEF Up
  <2>6. CASE UpFails(t) \/ UpDone(t)
    BY <1>1, <2>6 DEF UpFails, FailUp, UpDone
  <2>7. CASE Down(t)
    BY <1>1, <2>1, <2>7 DEF Down
  <2>8. ASSUME NEW x \in Services(t), StartContainer(t, x) PROVE Excused
    BY <1>1, <2>4, <2>8 DEF StartContainer, FailUp
  <2>9. ASSUME NEW x \in Services(t), HealthPasses(t, x) PROVE Excused
    BY <2>3, <2>9 DEF HealthPasses
  <2>10. ASSUME NEW x \in Services(t), Restart(t, x) PROVE Excused
    <3>1. CASE Conflict(t, x)
      BY <2>3, <2>10, <3>1 DEF Restart
    <3>2. CASE ~Conflict(t, x)
      BY <2>4, <2>10, <3>2 DEF Restart
    <3>3. QED
      BY <3>1, <3>2
  <2>11. ASSUME NEW x \in Services(t), Crash(t, x) PROVE Excused
    BY <2>3, <2>11 DEF Crash
  <2>12. QED
    BY <2>2, <2>5, <2>6, <2>7, <2>8, <2>9, <2>10, <2>11 DEF Project
<1>2. Inv /\ [Next]_vars =>
         [\A s \in Stack :
             container'[s]["gateway"] = "exited" =>
                \/ container[s]["gateway"] = "exited"
                \/ tree = "torn"
                \/ container[s]["gateway"] = "restarting" /\ Conflict(s, "gateway")]_vars
  BY <1>1
<1>3. QED
  BY <1>2, InvCorrect, PTL DEF Spec, NoDeadGateway
=============================================================================
