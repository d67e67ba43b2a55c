---------------------------- MODULE DeployProofs ----------------------------
(***************************************************************************)
(* What a deploy may rely on when it says that the demo is running, for any *)
(* number of runs and any set of applications.                              *)
(***************************************************************************)
EXTENDS Deploy, TLAPS

(* The line of a recipe that restarts nginx.                                *)
RestartAt(a) == IF Awaited(a) = {} THEN 10 ELSE 11

(* The workload that a target waits for, if it has one.                     *)
AwaitedBy(a) == CHOOSE w \in Awaited(a) : TRUE

(* The templates in force once an application is deployed.                  *)
TemplatesAfter(a) == IF HasTemplates(a) THEN TemplatesOf(a) ELSE GatewayTemplates

(* Where the lines of a deploy stand.                                       *)
LEMMA Lines ==
    ASSUME NEW a \in App
    PROVE  LET d == DeployRecipe(a)
               n == RestartAt(a)
           IN /\ Len(d) = n + 3
              /\ d[1] = <<"apply", "operator">>
              /\ d[2] = <<"await", Operator>>
              /\ d[3] = <<"apply", "tenant">>
              /\ d[4] = <<"attempt", "tenant">>
              /\ d[5] = <<"apply", "gateway">>
              /\ d[6] = <<"await", Nginx>>
              /\ d[7] = <<"apply", "grafana">>
              /\ d[8] = <<"apply", "memcached">>
              /\ d[9] = <<"apply", "app">>
              /\ n = 11 => d[10] = <<"await", AwaitedBy(a)>>
              /\ d[n] = <<"restart", Nginx>>
              /\ d[n + 1] = <<"await", Nginx>>
              /\ d[n + 2] = <<"apply", "mixins">>
              /\ d[n + 3] = <<"await", Alloy>>
<1>1. CASE Awaited(a) = {}
  BY <1>1 DEF DeployRecipe, DeployMinio, DeployGateway,
              ConfigChangesTriggerPodRestart, RestartAt
<1>2. CASE Awaited(a) # {}
  BY <1>2 DEF DeployRecipe, DeployMinio, DeployGateway,
              ConfigChangesTriggerPodRestart, RestartAt, AwaitedBy
<1>3. QED
  BY <1>1, <1>2

(* What the manifests hold.                                                 *)
LEMMA Manifests ==
    ASSUME NEW a \in App
    PROVE  /\ Own(a) \subseteq Host
           /\ Stores(a) \subseteq Host
           /\ Awaited(a) \subseteq Host
           /\ TemplatesOf(a) \subseteq Store
<1> USE DEF Host, Store, Mono, RW, Micro
<1>1. a[1] \in {Mono, RW, Micro} /\ a[2] \in {"all", "logs", "metrics", "profiles", "traces"}
  BY AppAssumption
<1>2. Own(a) \subseteq Host
  BY <1>1 DEF Own
<1>3. Optional(a) \subseteq Host
  BY <1>1 DEF Optional
<1>4. Awaited(a) \subseteq Host
  BY <1>1, <1>2 DEF Awaited
<1>5. QED
  BY <1>2, <1>3, <1>4 DEF Stores, TemplatesOf

(* A target waits with one line of its own at most.                         *)
LEMMA AwaitedOne ==
    ASSUME NEW a \in App, NEW w \in Awaited(a)
    PROVE  Awaited(a) = {AwaitedBy(a)}
<1>1. a[2] \in {"all", "logs", "metrics", "profiles", "traces"}
  BY AppAssumption
<1>2. \E x : Awaited(a) = {x}
  BY <1>1 DEF Awaited, Own
<1>3. QED
  BY <1>2 DEF AwaitedBy

(* Workloads of different kinds are different.                              *)
LEMMA Kinds == {Nginx, Alloy, Operator} \cap Host = {} /\ Nginx # Alloy /\ Nginx # Operator
BY DEF Host, Store, Nginx, Alloy, Operator, Mono, RW, Micro

-----------------------------------------------------------------------------
RunType == {Idle} \cup [verb : {"deploy", "delete"}, app : App, at : Nat \ {0}]

RunOK(r) == run[r] \in RunType /\ run[r].at <= Len(Recipe(r)) + 1

(* An active run has an application and a recipe of known length.           *)
LEMMA ActiveRun ==
    ASSUME TypeOK, NEW r \in Run, Active(r)
    PROVE  /\ run[r] \in [verb : {"deploy", "delete"}, app : App, at : Nat \ {0}]
           /\ run[r].verb = "deploy" => Recipe(r) = DeployRecipe(run[r].app)
           /\ run[r].verb = "delete" => Recipe(r) = DeleteRecipe /\ Len(Recipe(r)) = 3
           /\ Len(Recipe(r)) \in Nat
<1>1. run[r] \in [verb : {"deploy", "delete"}, app : App, at : Nat \ {0}]
  BY DEF TypeOK, Active, Idle
<1>2. Len(DeleteRecipe) = 3
  BY DEF DeleteRecipe
<1>3. Len(DeployRecipe(run[r].app)) \in Nat
  BY <1>1, Lines DEF RestartAt
<1>4. QED
  BY <1>1, <1>2, <1>3 DEF Recipe

(* Going to the next line keeps the runs' type.                             *)
LEMMA AdvanceRuns ==
    ASSUME TypeOK, NEW r \in Run, Active(r), ~Over(r), Advance(r)
    PROVE  /\ run' \in [Run -> RunType]
           /\ \A q \in Run : run'[q].at <= Len(Recipe(q)') + 1
           /\ run'[r] = [run[r] EXCEPT !.at = run[r].at + 1]
           /\ \A q \in Run \ {r} : run'[q] = run[q]
<1>0. run \in [Run -> RunType]
  BY DEF TypeOK, RunType
<1>1. run'[r] = [run[r] EXCEPT !.at = run[r].at + 1]
  BY <1>0 DEF Advance
<1>2. \A q \in Run \ {r} : run'[q] = run[q]
  BY <1>0 DEF Advance
<1>3. run' \in [Run -> RunType]
  <2>1. run'[r] \in RunType
    BY <1>1, ActiveRun DEF RunType
  <2>2. QED
    BY <1>0, <2>1 DEF Advance
<1>4. run'[r].at <= Len(Recipe(r)') + 1
  <2>1. Recipe(r)' = Recipe(r)
    BY <1>1, ActiveRun DEF Recipe
  <2>2. run'[r].at = run[r].at + 1 /\ run[r].at <= Len(Recipe(r))
    BY <1>1, ActiveRun DEF Over
  <2>3. QED
    BY <2>1, <2>2, ActiveRun
<1>5. \A q \in Run \ {r} : run'[q].at <= Len(Recipe(q)') + 1
  BY <1>2 DEF TypeOK, Recipe
<1>6. QED
  BY <1>1, <1>2, <1>3, <1>4, <1>5

(* A run that ends leaves the runs' type as it is.                          *)
LEMMA EndRuns ==
    ASSUME TypeOK, NEW r \in Run, run' = [run EXCEPT ![r] = Idle]
    PROVE  /\ run' \in [Run -> RunType]
           /\ \A q \in Run : run'[q].at <= Len(Recipe(q)') + 1
           /\ run'[r] = Idle
           /\ \A q \in Run \ {r} : run'[q] = run[q]
<1>1. run \in [Run -> RunType] /\ run' \in [Run -> RunType]
  BY DEF TypeOK, RunType
<1>2. run'[r] = Idle /\ \A q \in Run \ {r} : run'[q] = run[q]
  BY <1>1
<1>3. Recipe(r)' = <<>>
  BY <1>2 DEF Recipe, Idle
<1>4. run'[r].at <= Len(Recipe(r)') + 1
  BY <1>2, <1>3 DEF Idle
<1>5. \A q \in Run \ {r} : run'[q].at <= Len(Recipe(q)') + 1
  BY <1>2 DEF TypeOK, Recipe
<1>6. QED
  BY <1>1, <1>2, <1>4, <1>5

(* A run that begins.                                                       *)
LEMMA BeginRuns ==
    ASSUME TypeOK, NEW r \in Run, NEW a \in App, NEW verb \in {"deploy", "delete"},
           Begin(r, verb, a)
    PROVE  /\ run' \in [Run -> RunType]
           /\ \A q \in Run : run'[q].at <= Len(Recipe(q)') + 1
           /\ run'[r] = [verb |-> verb, app |-> a, at |-> 1]
           /\ \A q \in Run \ {r} : run'[q] = run[q]
<1>1. run \in [Run -> RunType] /\ run' \in [Run -> RunType]
  BY DEF TypeOK, RunType, Begin
<1>2. /\ run'[r] = [verb |-> verb, app |-> a, at |-> 1]
      /\ \A q \in Run \ {r} : run'[q] = run[q]
  BY <1>1 DEF Begin
<1>3. Len(Recipe(r)') \in Nat
  <2>1. CASE verb = "deploy"
    BY <2>1, <1>2, Lines DEF Recipe, RestartAt
  <2>2. CASE verb = "delete"
    BY <2>2, <1>2 DEF Recipe, DeleteRecipe
  <2>3. QED
    BY <2>1, <2>2
<1>4. run'[r].at <= Len(Recipe(r)') + 1
  BY <1>2, <1>3
<1>5. \A q \in Run \ {r} : run'[q].at <= Len(Recipe(q)') + 1
  BY <1>2 DEF TypeOK, Recipe
<1>6. QED
  BY <1>1, <1>2, <1>4, <1>5

ClusterOK ==
    /\ health \in [Workload -> {"absent", "rolling", "ready"}]
    /\ env \subseteq Host
    /\ templates \subseteq Store
    /\ pipeline \in {None} \cup {Pipeline(a) : a \in App}
    /\ loaded \in [env : SUBSET Host, templates : SUBSET Store]

(* Whatever a line applies, the cluster keeps its type.                     *)
LEMMA ApplyKeepsCluster ==
    ASSUME TypeOK, NEW r \in Run, Apply(r)
    PROVE  ClusterOK'
<1> USE DEF TypeOK, ClusterOK
<1>1. Active(r) /\ run[r].app \in App
  BY ActiveRun DEF Apply, Doing
<1>2. \A ws : Rolling(ws) \in [Workload -> {"absent", "rolling", "ready"}]
  BY DEF Rolling
<1>3. CASE ApplyOperator
  BY <1>2, <1>3 DEF ApplyOperator
<1>4. CASE ApplyGateway
  BY <1>2, <1>4 DEF ApplyGateway, GatewayTemplates, Store
<1>5. CASE ApplyApp(run[r].app)
  BY <1>1, <1>2, <1>5, Manifests DEF ApplyApp, EnvOf
<1>6. CASE UNCHANGED cluster
  BY <1>6 DEF cluster
<1>7. QED
  BY <1>3, <1>4, <1>5, <1>6 DEF Apply

(* Likewise for what is deleted.                                            *)
LEMMA DeleteKeepsCluster ==
    ASSUME TypeOK, NEW r \in Run, Delete(r)
    PROVE  ClusterOK'
<1> USE DEF TypeOK, ClusterOK
<1>1. CASE DeleteApp(run[r].app)
  BY <1>1 DEF DeleteApp
<1>2. CASE UNCHANGED cluster
  BY <1>2 DEF cluster
<1>3. QED
  BY <1>1, <1>2 DEF Delete

(* Every variable stays within its type, every run within its recipe.       *)
LEMMA TypeStep == TypeOK /\ [Next]_vars => TypeOK'
<1> SUFFICES ASSUME TypeOK, [Next]_vars PROVE TypeOK'
  OBVIOUS
<1>0. ASSUME ClusterOK', run' \in [Run -> RunType],
             \A q \in Run : run'[q].at <= Len(Recipe(q)') + 1,
             disturbed' \subseteq Run, spoiled' \in BOOLEAN
      PROVE  TypeOK'
  BY <1>0 DEF TypeOK, ClusterOK, RunType
<1>1. ClusterOK /\ disturbed \subseteq Run /\ spoiled \in BOOLEAN
  BY DEF TypeOK, ClusterOK
<1>2. UNCHANGED cluster => ClusterOK'
  BY <1>1 DEF cluster, ClusterOK
<1>3. UNCHANGED seenVars => disturbed' \subseteq Run /\ spoiled' \in BOOLEAN
  BY <1>1 DEF seenVars
<1>4. ASSUME NEW r \in Run, NEW a \in App, NEW verb \in {"deploy", "delete"},
             Begin(r, verb, a)
      PROVE  TypeOK'
  <2>1. disturbed' \subseteq Run /\ spoiled' \in BOOLEAN
    BY <1>1, <1>4 DEF Begin
  <2>2. UNCHANGED cluster
    BY <1>4 DEF Begin
  <2>3. QED
    BY <1>0, <1>2, <1>4, <2>1, <2>2, BeginRuns
<1>5. ASSUME NEW r \in Run, Apply(r) PROVE TypeOK'
  BY <1>0, <1>3, <1>5, ApplyKeepsCluster, AdvanceRuns DEF Apply, Doing
<1>6. ASSUME NEW r \in Run, Await(r) PROVE TypeOK'
  BY <1>0, <1>2, <1>3, <1>6, AdvanceRuns DEF Await, Doing
<1>7. ASSUME NEW r \in Run, Attempt(r) PROVE TypeOK'
  BY <1>0, <1>2, <1>3, <1>7, AdvanceRuns DEF Attempt, Doing
<1>8. ASSUME NEW r \in Run, Restart(r) PROVE TypeOK'
  <2>1. ClusterOK'
    BY <1>1, <1>8 DEF Restart, Rolling, ClusterOK
  <2>2. QED
    BY <1>0, <1>3, <1>8, <2>1, AdvanceRuns DEF Restart, Doing
<1>9. ASSUME NEW r \in Run, Delete(r) PROVE TypeOK'
  BY <1>0, <1>3, <1>9, DeleteKeepsCluster, AdvanceRuns DEF Delete, Doing
<1>10. ASSUME NEW r \in Run, Finish(r) PROVE TypeOK'
  BY <1>0, <1>2, <1>3, <1>10, EndRuns DEF Finish
<1>11. ASSUME NEW r \in Run, Fail(r) PROVE TypeOK'
  BY <1>0, <1>1, <1>2, <1>11, EndRuns DEF Fail
<1>12. ASSUME NEW w \in Workload, BecomeReady(w) PROVE TypeOK'
  <2>1. ClusterOK'
    BY <1>1, <1>12 DEF BecomeReady, ClusterOK
  <2>2. QED
    BY <1>0, <1>3, <1>12, <2>1 DEF BecomeReady, TypeOK, RunType, Recipe
<1>13. ASSUME NginxStarts PROVE TypeOK'
  <2>1. ClusterOK'
    BY <1>1, <1>13 DEF NginxStarts, ClusterOK
  <2>2. QED
    BY <1>0, <1>3, <1>13, <2>1 DEF NginxStarts, TypeOK, RunType, Recipe
<1>14. CASE UNCHANGED vars
  <2>1. UNCHANGED cluster /\ UNCHANGED seenVars /\ run' = run
    BY <1>14 DEF vars
  <2>2. QED
    BY <1>0, <1>2, <1>3, <2>1 DEF TypeOK, RunType, Recipe
<1>15. QED
  BY <1>4, <1>5, <1>6, <1>7, <1>8, <1>9, <1>10, <1>11, <1>12, <1>13, <1>14
     DEF Next, Make

(* An empty cluster and no runs are well typed.                             *)
LEMMA TypeInit == Init => TypeOK
<1> SUFFICES ASSUME Init PROVE TypeOK
  OBVIOUS
<1>1. ASSUME NEW r \in Run PROVE run[r].at <= Len(Recipe(r)) + 1
  <2>1. run[r] = Idle
    BY DEF Init
  <2>2. Recipe(r) = <<>>
    BY <2>1 DEF Recipe, Idle
  <2>3. QED
    BY <2>1, <2>2 DEF Idle
<1>2. run \in [Run -> {Idle} \cup [verb : {"deploy", "delete"}, app : App, at : Nat \ {0}]]
  BY DEF Init
<1>3. health \in [Workload -> {"absent", "rolling", "ready"}]
  BY DEF Init
<1>4. loaded \in [env : SUBSET Host, templates : SUBSET Store]
  BY DEF Init
<1>5. QED
  BY <1>1, <1>2, <1>3, <1>4 DEF Init, TypeOK

(* Every variable stays within its type, every run within its recipe.       *)
THEOREM TypeCorrect == Spec => []TypeOK
BY TypeInit, TypeStep, PTL DEF Spec

-----------------------------------------------------------------------------
(* What a deploy does at its present line.                                  *)
LEMMA Positions ==
    ASSUME TypeOK, NEW r \in Run, Active(r), run[r].verb = "deploy", ~Over(r)
    PROVE  LET i == run[r].at
               n == RestartAt(run[r].app)
           IN /\ i \in 1..(n + 3)
              /\ Doing(r, "apply") <=> i \in {1, 3, 5, 7, 8, 9, n + 2}
              /\ Line(r) = <<"apply", "operator">> <=> i = 1
              /\ Line(r) = <<"apply", "gateway">> <=> i = 5
              /\ Line(r) = <<"apply", "app">> <=> i = 9
              /\ Doing(r, "restart") <=> i = n
              /\ Doing(r, "attempt") <=> i = 4
              /\ Line(r) = <<"await", Nginx>> <=> i \in {6, n + 1}
              /\ Line(r) = <<"await", Alloy>> <=> i = n + 3
              /\ i = 10 /\ n = 11 => Line(r) = <<"await", AwaitedBy(run[r].app)>>
              /\ Doing(r, "await") <=> i \in {2, 6, n + 1, n + 3} \/ (i = 10 /\ n = 11)
              /\ ~Doing(r, "delete")
<1> DEFINE a == run[r].app
           i == run[r].at
           n == RestartAt(a)
<1>1. a \in App /\ Recipe(r) = DeployRecipe(a) /\ run[r].at \in Nat \ {0}
  BY ActiveRun
<1>2. n \in {10, 11} /\ (n = 11 => AwaitedBy(a) \in Host)
  BY <1>1, Manifests DEF RestartAt, AwaitedBy
<1>3. i \in 1..(n + 3)
  BY <1>1, <1>2, Lines DEF Over
<1>4. Line(r) = DeployRecipe(a)[i]
  BY <1>1 DEF Line
<1>5. Nginx # Alloy /\ Nginx # Operator /\ Alloy # Operator
      /\ \A h \in Host : h # Nginx /\ h # Alloy /\ h # Operator
  BY Kinds DEF Alloy, Operator
<1>6. \A do : Doing(r, do) <=> Line(r)[1] = do
  BY DEF Doing
<1> HIDE DEF a, i, n
<1>7. \/ i = 1 \/ i = 2 \/ i = 3 \/ i = 4 \/ i = 5 \/ i = 6 \/ i = 7 \/ i = 8 \/ i = 9
      \/ (i = 10 /\ n = 11) \/ i = n \/ i = n + 1 \/ i = n + 2 \/ i = n + 3
  BY <1>2, <1>3
<1>8. CASE i = 1
  BY <1>1, <1>2, <1>3, <1>4, <1>5, <1>6, <1>8, Lines DEF a, i, n
<1>9. CASE i = 2
  BY <1>1, <1>2, <1>3, <1>4, <1>5, <1>6, <1>9, Lines DEF a, i, n
<1>10. CASE i = 3
  BY <1>1, <1>2, <1>3, <1>4, <1>5, <1>6, <1>10, Lines DEF a, i, n
<1>11. CASE i = 4
  BY <1>1, <1>2, <1>3, <1>4, <1>5, <1>6, <1>11, Lines DEF a, i, n
<1>12. CASE i = 5
  BY <1>1, <1>2, <1>3, <1>4, <1>5, <1>6, <1>12, Lines DEF a, i, n
<1>13. CASE i = 6
  BY <1>1, <1>2, <1>3, <1>4, <1>5, <1>6, <1>13, Lines DEF a, i, n
<1>14. CASE i = 7
  BY <1>1, <1>2, <1>3, <1>4, <1>5, <1>6, <1>14, Lines DEF a, i, n
<1>15. CASE i = 8
  BY <1>1, <1>2, <1>3, <1>4, <1>5, <1>6, <1>15, Lines DEF a, i, n
<1>16. CASE i = 9
  BY <1>1, <1>2, <1>3, <1>4, <1>5, <1>6, <1>16, Lines DEF a, i, n
<1>17. CASE i = 10 /\ n = 11
  BY <1>1, <1>2, <1>3, <1>4, <1>5, <1>6, <1>17, Lines DEF a, i, n
<1>18. CASE i = n
  <2>1. Line(r) = <<"restart", Nginx>>
    BY <1>1, <1>4, <1>18, Lines DEF a, i, n
  <2>2. Line(r)[1] = "restart"
    BY <2>1
  <2>3. QED
    BY <1>2, <1>3, <1>6, <1>18, <2>1, <2>2 DEF a, i, n
<1>19. CASE i = n + 1
  BY <1>1, <1>2, <1>3, <1>4, <1>5, <1>6, <1>19, Lines DEF a, i, n
<1>20. CASE i = n + 2
  BY <1>1, <1>2, <1>3, <1>4, <1>5, <1>6, <1>20, Lines DEF a, i, n
<1>21. CASE i = n + 3
  BY <1>1, <1>2, <1>3, <1>4, <1>5, <1>6, <1>21, Lines DEF a, i, n
<1>22. QED
  BY <1>7, <1>8, <1>9, <1>10, <1>11, <1>12, <1>13, <1>14,
     <1>15, <1>16, <1>17, <1>18, <1>19, <1>20, <1>21

-----------------------------------------------------------------------------
Deploying(r) == Active(r) /\ run[r].verb = "deploy"
Current      == loaded = [env |-> env, templates |-> templates]

(* A deploy that has yet to restart nginx, and one that has just done so.   *)
Ahead(r)     == Deploying(r) /\ run[r].at <= RestartAt(run[r].app)
Restarted(r) == Deploying(r) /\ run[r].at = RestartAt(run[r].app) + 1

(* GatewayConverges made inductive: while nothing has gone wrong, a gateway *)
(* that does not serve the configuration in force has a deploy before it    *)
(* that will restart it, or that waits for it to come up again.             *)
ConvergeInv ==
    ~spoiled =>
        /\ \A r \in Run : Active(r) => run[r].verb = "deploy"
        /\ \/ \E r \in Run : Ahead(r)
           \/ health[Nginx] = "ready" /\ Current
           \/ health[Nginx] = "rolling" /\ \E r \in Run : Restarted(r)

(* Runs that a step leaves alone are where they were.                       *)
LEMMA OtherRuns ==
    ASSUME NEW r \in Run, run'[r] = run[r]
    PROVE  /\ Active(r)' = Active(r)
           /\ Deploying(r)' = Deploying(r)
           /\ Ahead(r)' = Ahead(r)
           /\ Restarted(r)' = Restarted(r)
BY DEF Active, Deploying, Ahead, Restarted

(* A deploy that goes to its next line.                                     *)
LEMMA NextLine ==
    ASSUME TypeOK, NEW r \in Run, Deploying(r), ~Over(r), Advance(r)
    PROVE  /\ Deploying(r)'
           /\ run'[r].app = run[r].app
           /\ run'[r].at = run[r].at + 1
           /\ run[r].app \in App
           /\ run[r].at \in Nat
           /\ RestartAt(run[r].app) \in {10, 11}
           /\ run[r].at < RestartAt(run[r].app) => Ahead(r)'
           /\ run[r].at = RestartAt(run[r].app) => Restarted(r)'
           /\ \A q \in Run \ {r} : run'[q] = run[q]
<1>1. /\ run'[r] = [run[r] EXCEPT !.at = run[r].at + 1]
      /\ \A q \in Run \ {r} : run'[q] = run[q]
  BY AdvanceRuns DEF Deploying
<1>2. run[r] \in [verb : {"deploy", "delete"}, app : App, at : Nat \ {0}]
  BY ActiveRun DEF Deploying
<1>3. run'[r].app = run[r].app /\ run'[r].at = run[r].at + 1 /\ run'[r].verb = run[r].verb
  BY <1>1, <1>2
<1>4. RestartAt(run[r].app) \in {10, 11}
  BY DEF RestartAt
<1>5. RestartAt(run[r].app)' = RestartAt(run[r].app)
  BY <1>3 DEF RestartAt, Awaited, Own
<1>6. Deploying(r)'
  BY <1>3 DEF Deploying, Active
<1>7. QED
  BY <1>1, <1>2, <1>3, <1>4, <1>5, <1>6 DEF Ahead, Restarted

(* A step that moves one deploy on from a line before the restart.          *)
LEMMA AheadStays ==
    ASSUME TypeOK, ConvergeInv, UNCHANGED spoiled, NEW r \in Run,
           Deploying(r), ~Over(r), Advance(r), run[r].at < RestartAt(run[r].app)
    PROVE  ConvergeInv'
<1> SUFFICES ASSUME ~spoiled PROVE ConvergeInv'
  BY DEF ConvergeInv
<1>1. Ahead(r)'
  BY NextLine
<1>2. \A q \in Run : Active(q)' => run'[q].verb = "deploy"
  BY NextLine, OtherRuns DEF ConvergeInv, Deploying
<1>3. QED
  BY <1>1, <1>2 DEF ConvergeInv

(* A step of a deploy beyond the restart that leaves the gateway alone; if  *)
(* the deploy waited for nginx, it is ready.                                *)
LEMMA BeyondStays ==
    ASSUME TypeOK, ConvergeInv, UNCHANGED <<spoiled, env, templates, loaded>>,
           health'[Nginx] = health[Nginx],
           NEW r \in Run, Deploying(r), ~Over(r), Advance(r),
           run[r].at > RestartAt(run[r].app),
           Restarted(r) => health[Nginx] = "ready"
    PROVE  ConvergeInv'
<1> SUFFICES ASSUME ~spoiled PROVE ConvergeInv'
  BY DEF ConvergeInv
<1>1. ~Ahead(r)
  BY NextLine DEF Ahead
<1>2. \A q \in Run : Active(q)' => run'[q].verb = "deploy"
  BY NextLine, OtherRuns DEF ConvergeInv, Deploying
<1>3. ASSUME NEW q \in Run, Ahead(q) PROVE Ahead(q)'
  BY <1>1, <1>3, NextLine, OtherRuns
<1>4. ASSUME NEW q \in Run, Restarted(q), health[Nginx] # "ready" PROVE Restarted(q)'
  BY <1>4, NextLine, OtherRuns
<1>5. Current' = Current
  BY DEF Current
<1>6. QED
  BY <1>2, <1>3, <1>4, <1>5 DEF ConvergeInv

(* Every step keeps the invariant.                                          *)
LEMMA ConvergeStep == TypeOK /\ ConvergeInv /\ [Next]_vars => ConvergeInv'
<1> SUFFICES ASSUME TypeOK, ConvergeInv, [Next]_vars PROVE ConvergeInv'
  OBVIOUS
<1>0. ASSUME NEW r \in Run, Active(r), UNCHANGED spoiled
      PROVE  spoiled' \/ Deploying(r)
  BY <1>0 DEF ConvergeInv, Deploying
<1>1. spoiled' => ConvergeInv'
  BY DEF ConvergeInv
<1>2. ASSUME NEW r \in Run, NEW a \in App, NEW verb \in {"deploy", "delete"},
             Begin(r, verb, a), ~spoiled'
      PROVE  ConvergeInv'
  <2>1. verb = "deploy" /\ \A q \in Run : Active(q) => ~spoiled
    BY <1>2 DEF Begin
  <2>2. /\ run'[r] = [verb |-> verb, app |-> a, at |-> 1]
        /\ \A q \in Run \ {r} : run'[q] = run[q]
    BY <1>2, BeginRuns
  <2>3. Ahead(r)'
    BY <2>1, <2>2 DEF Ahead, Deploying, Active, RestartAt
  <2>4. ASSUME NEW q \in Run, Active(q)' PROVE run'[q].verb = "deploy"
    <3>1. CASE q = r
      BY <2>1, <2>2, <3>1
    <3>2. CASE q # r
      BY <2>1, <2>2, <2>4, <3>2, OtherRuns DEF ConvergeInv
    <3>3. QED
      BY <3>1, <3>2
  <2>5. QED
    BY <2>3, <2>4 DEF ConvergeInv
<1>3. ASSUME NEW r \in Run, Apply(r), ~spoiled' PROVE ConvergeInv'
  <2>1. Deploying(r) /\ ~Over(r) /\ Doing(r, "apply") /\ Advance(r) /\ UNCHANGED spoiled
    BY <1>0, <1>3 DEF Apply, Doing, seenVars
  <2>2. \/ run[r].at < RestartAt(run[r].app)
        \/ run[r].at = RestartAt(run[r].app) + 2
    BY <2>1, Positions DEF Deploying, RestartAt
  <2>3. CASE run[r].at < RestartAt(run[r].app)
    BY <2>1, <2>3, AheadStays
  <2>4. CASE run[r].at = RestartAt(run[r].app) + 2
    <3>1. RestartAt(run[r].app) \in {10, 11} /\ ~Restarted(r)
      BY <2>4 DEF RestartAt, Restarted
    <3>2. UNCHANGED cluster
      BY <1>3, <2>1, <2>4, <3>1, Positions DEF Apply, AtLine, Deploying
    <3>3. UNCHANGED <<env, templates, loaded>> /\ health'[Nginx] = health[Nginx]
      BY <3>2 DEF cluster
    <3>4. QED
      BY <2>1, <2>4, <3>1, <3>3, BeyondStays
  <2>5. QED
    BY <2>2, <2>3, <2>4
<1>4. ASSUME NEW r \in Run, Await(r), ~spoiled' PROVE ConvergeInv'
  <2>1. Deploying(r) /\ ~Over(r) /\ Doing(r, "await") /\ Advance(r) /\ UNCHANGED spoiled
    BY <1>0, <1>4 DEF Await, Doing, seenVars
  <2>2. \/ run[r].at < RestartAt(run[r].app)
        \/ run[r].at > RestartAt(run[r].app)
    BY <2>1, Positions DEF Deploying, RestartAt
  <2>3. CASE run[r].at < RestartAt(run[r].app)
    BY <2>1, <2>3, AheadStays
  <2>4. CASE run[r].at > RestartAt(run[r].app)
    <3>1. UNCHANGED <<env, templates, loaded>> /\ health'[Nginx] = health[Nginx]
      BY <1>4 DEF Await, cluster
    <3>2. Restarted(r) => Line(r) = <<"await", Nginx>>
      BY <2>1, Positions DEF Restarted, Deploying
    <3>3. Restarted(r) => health[Nginx] = "ready"
      BY <1>4, <3>2 DEF Await
    <3>4. QED
      BY <2>1, <2>4, <3>1, <3>3, BeyondStays
  <2>5. QED
    BY <2>2, <2>3, <2>4
<1>5. ASSUME NEW r \in Run, Attempt(r), ~spoiled' PROVE ConvergeInv'
  <2>1. Deploying(r) /\ ~Over(r) /\ Doing(r, "attempt") /\ Advance(r) /\ UNCHANGED spoiled
    BY <1>0, <1>5 DEF Attempt, Doing, seenVars
  <2>2. run[r].at < RestartAt(run[r].app)
    BY <2>1, Positions DEF Deploying, RestartAt
  <2>3. QED
    BY <2>1, <2>2, AheadStays
<1>6. ASSUME NEW r \in Run, Restart(r), ~spoiled' PROVE ConvergeInv'
  <2>1. Deploying(r) /\ ~Over(r) /\ Doing(r, "restart") /\ Advance(r) /\ UNCHANGED spoiled
    BY <1>0, <1>6 DEF Restart, Doing, seenVars
  <2>2. run[r].at = RestartAt(run[r].app)
    BY <2>1, Positions DEF Deploying
  <2>3. Restarted(r)'
    BY <2>1, <2>2, NextLine
  <2>4. \A q \in Run : Active(q)' => run'[q].verb = "deploy"
    BY <1>6, <2>1, NextLine, OtherRuns DEF ConvergeInv, Deploying
  <2>5. health'[Nginx] = "rolling"
    BY <1>6 DEF Restart, Rolling, Workload
  <2>6. QED
    BY <2>3, <2>4, <2>5 DEF ConvergeInv
<1>7. ASSUME NEW r \in Run, Delete(r), ~spoiled' PROVE ConvergeInv'
  BY <1>0, <1>7, Positions DEF Delete, Doing, Deploying, seenVars
<1>8. ASSUME NEW r \in Run, Finish(r), ~spoiled' PROVE ConvergeInv'
  <2>1. /\ run'[r] = Idle
        /\ \A q \in Run \ {r} : run'[q] = run[q]
    BY <1>8, EndRuns DEF Finish
  <2>2. UNCHANGED cluster /\ UNCHANGED spoiled /\ Over(r) /\ Deploying(r)
    BY <1>0, <1>8 DEF Finish, seenVars, Over
  <2>3. ~Ahead(r) /\ ~Restarted(r)
    <3>1. run[r].app \in App /\ Recipe(r) = DeployRecipe(run[r].app)
      BY <2>2, ActiveRun DEF Deploying
    <3>2. run[r].at > RestartAt(run[r].app) + 3
      BY <2>2, <3>1, Lines DEF Over
    <3>3. RestartAt(run[r].app) \in Nat /\ run[r].at \in Nat
      BY <2>2, ActiveRun DEF RestartAt, Deploying
    <3>4. QED
      BY <3>2, <3>3 DEF Ahead, Restarted
  <2>4. \A q \in Run : Ahead(q) \/ Restarted(q) => q # r
    BY <2>3
  <2>5. \A q \in Run : Active(q)' => run'[q].verb = "deploy"
    BY <1>8, <2>1, <2>2, OtherRuns DEF ConvergeInv, Active, Idle
  <2>6. Current' = Current /\ health' = health
    BY <2>2 DEF Current, cluster
  <2>7. \A q \in Run : (Ahead(q) => Ahead(q)') /\ (Restarted(q) => Restarted(q)')
    BY <2>1, <2>4, OtherRuns
  <2>8. QED
    BY <2>2, <2>5, <2>6, <2>7 DEF ConvergeInv
<1>9. ASSUME NEW r \in Run, Fail(r) PROVE ConvergeInv'
  BY <1>1, <1>9 DEF Fail
<1>10. ASSUME NEW w \in Workload, BecomeReady(w) PROVE ConvergeInv'
  <2>1. UNCHANGED <<run, spoiled>> /\ Current' = Current /\ health'[Nginx] = health[Nginx]
    BY <1>10 DEF BecomeReady, seenVars, Current, TypeOK, Workload
  <2>2. QED
    BY <2>1, OtherRuns DEF ConvergeInv
<1>11. ASSUME NginxStarts PROVE ConvergeInv'
  <2>1. UNCHANGED <<run, spoiled>> /\ Current' /\ health'[Nginx] = "ready"
    BY <1>11 DEF NginxStarts, seenVars, Current, TypeOK, Workload
  <2>2. QED
    BY <2>1, OtherRuns DEF ConvergeInv
<1>12. CASE UNCHANGED vars
  <2>1. UNCHANGED <<run, spoiled, health>> /\ Current' = Current
    BY <1>12 DEF vars, cluster, seenVars, Current
  <2>2. QED
    BY <2>1, OtherRuns DEF ConvergeInv
<1>13. QED
  BY <1>1, <1>2, <1>3, <1>4, <1>5, <1>6, <1>7, <1>8, <1>9, <1>10, <1>11, <1>12
     DEF Next, Make

(* However deploys overlap, once all are through and none has failed, the   *)
(* gateway serves the configuration in force.                               *)
THEOREM GatewayConvergesCorrect == Spec => []GatewayConverges
<1>1. Init => ConvergeInv
  BY DEF Init, ConvergeInv
<1>2. ConvergeInv => GatewayConverges
  BY DEF ConvergeInv, GatewayConverges, Ahead, Restarted, Deploying, Current
<1>3. QED
  BY <1>1, <1>2, TypeCorrect, ConvergeStep, PTL DEF Spec

-----------------------------------------------------------------------------
(* What a deploy that has the cluster for itself has brought about, by the  *)
(* line it has reached.                                                     *)
Progress(r) ==
    LET a == run[r].app
        i == run[r].at
        n == RestartAt(a)
    IN /\ i \in 6..9 => templates = GatewayTemplates
       /\ i > 9 => /\ templates = TemplatesAfter(a)
                   /\ HasEnv(a) => env = EnvOf(a)
                   /\ pipeline = Pipeline(a)
                   /\ \A h \in Stores(a) : health[h] # "absent"
       /\ i > 10 => \A w \in Awaited(a) : health[w] = "ready"
       /\ i > n => \/ health[Nginx] = "rolling"
                   \/ health[Nginx] = "ready" /\ Current
       /\ i > n + 1 => health[Nginx] = "ready"
       /\ i > n + 3 => health[Alloy] = "ready"

AloneInv ==
    \A r \in Run : Deploying(r) /\ r \notin disturbed =>
        /\ \A q \in Run : Active(q) => q = r
        /\ Progress(r)

(* The step of one run keeps the invariant if it keeps what its own run has *)
(* brought about: every other active run makes it disturbed.                *)
LEMMA OwnStep ==
    ASSUME TypeOK, AloneInv, NEW r \in Run, UNCHANGED disturbed,
           Deploying(r) /\ r \notin disturbed =>
               Deploying(r)' /\ run'[r].app = run[r].app /\ Progress(r)',
           Deploying(r)' => Deploying(r),
           Active(r), \A q \in Run \ {r} : run'[q] = run[q]
    PROVE  AloneInv'
<1> SUFFICES ASSUME NEW p \in Run, Deploying(p)', p \notin disturbed
             PROVE  (\A q \in Run : Active(q)' => q = p) /\ Progress(p)'
  BY DEF AloneInv
<1>1. Deploying(p)
  BY OtherRuns
<1>2. p = r
  BY <1>1 DEF AloneInv
<1>3. \A q \in Run : Active(q)' => q = p
  BY <1>1, <1>2, OtherRuns DEF AloneInv
<1>4. QED
  BY <1>1, <1>2, <1>3

(* Kubernetes' own steps keep it if they keep what any run has brought      *)
(* about.                                                                   *)
LEMMA ClusterStep ==
    ASSUME AloneInv, UNCHANGED <<disturbed, run>>,
           \A r \in Run : Deploying(r) /\ Progress(r) => Progress(r)'
    PROVE  AloneInv'
BY OtherRuns DEF AloneInv

(* A deploy alone on the cluster goes on to its next line.                  *)
LEMMA ProgressApply ==
    ASSUME TypeOK, NEW r \in Run, Deploying(r), Progress(r), Apply(r)
    PROVE  Progress(r)'
<1> DEFINE a == run[r].app
           n == RestartAt(a)
<1>1. /\ Active(r) /\ ~Over(r) /\ Doing(r, "apply") /\ Advance(r)
      /\ run'[r].app = a /\ run'[r].at = run[r].at + 1
      /\ a \in App /\ run[r].at \in Nat /\ n \in {10, 11}
  BY NextLine DEF Apply, Doing
<1>2. run[r].at \in {1, 3, 5, 7, 8, 9, n + 2}
  BY <1>1, Positions DEF Deploying
<1>3. n' = n
  BY <1>1 DEF RestartAt, Awaited, Own
<1>4. CASE run[r].at \in {1, 3}
  BY <1>1, <1>3, <1>4 DEF Progress
<1>5. CASE run[r].at = 5
  <2>1. ApplyGateway
    BY <1>1, <1>5, Positions DEF Apply, AtLine, Deploying
  <2>2. templates' = GatewayTemplates
    BY <2>1 DEF ApplyGateway
  <2>3. QED
    BY <1>1, <1>3, <1>5, <2>2 DEF Progress
<1>6. CASE run[r].at \in {7, 8}
  <2>1. UNCHANGED cluster
    BY <1>1, <1>2, <1>6, Positions DEF Apply, AtLine, Deploying
  <2>2. templates' = templates
    BY <2>1 DEF cluster
  <2>3. QED
    BY <1>1, <1>3, <1>6, <2>2 DEF Progress
<1>7. CASE run[r].at = 9
  <2>1. ApplyApp(a)
    BY <1>1, <1>7, Positions DEF Apply, AtLine, Deploying
  <2>2. templates = GatewayTemplates
    BY <1>7 DEF Progress
  <2>3. \A h \in Stores(a) : health'[h] = "rolling"
    BY <1>1, <2>1, Manifests DEF ApplyApp, Rolling, Workload
  <2>4. templates' = TemplatesAfter(a) /\ pipeline' = Pipeline(a)
    BY <2>1, <2>2 DEF ApplyApp, TemplatesAfter
  <2>5. HasEnv(a) => env' = EnvOf(a)
    BY <2>1 DEF ApplyApp
  <2>6. QED
    BY <1>1, <1>3, <1>7, <2>3, <2>4, <2>5 DEF Progress
<1>8. CASE run[r].at = n + 2
  <2>1. UNCHANGED cluster
    BY <1>1, <1>8, Positions DEF Apply, AtLine, Deploying
  <2>2. UNCHANGED <<health, env, templates, pipeline, loaded>>
    BY <2>1 DEF cluster
  <2>3. QED
    BY <1>1, <1>3, <1>8, <2>2 DEF Progress, Current
<1>9. QED
  BY <1>2, <1>4, <1>5, <1>6, <1>7, <1>8

(* Likewise for its waiting.                                                *)
LEMMA ProgressAwait ==
    ASSUME TypeOK, NEW r \in Run, Deploying(r), Progress(r), Await(r) \/ Attempt(r)
    PROVE  Progress(r)'
<1> DEFINE a == run[r].app
           n == RestartAt(a)
<1>1. /\ Active(r) /\ ~Over(r) /\ Advance(r)
      /\ run'[r].app = a /\ run'[r].at = run[r].at + 1
      /\ a \in App /\ run[r].at \in Nat /\ n \in {10, 11}
  BY NextLine DEF Await, Attempt, Doing
<1>2. UNCHANGED <<health, env, templates, pipeline, loaded>>
  BY DEF Await, Attempt, cluster
<1>3. n' = n
  BY <1>1 DEF RestartAt, Awaited, Own
<1>4. run[r].at \in {2, 4, 6, n + 1, n + 3} \/ (run[r].at = 10 /\ n = 11)
  BY <1>1, Positions DEF Deploying, Await, Attempt
<1>5. CASE run[r].at \in {2, 4, 6}
  BY <1>1, <1>2, <1>3, <1>5 DEF Progress
<1>6. CASE run[r].at = 10 /\ n = 11
  <2>1. Line(r) = <<"await", AwaitedBy(a)>>
    BY <1>1, <1>6, Positions DEF Deploying
  <2>2. Await(r)
    BY <2>1 DEF Attempt, Doing
  <2>3. health[AwaitedBy(a)] = "ready"
    BY <2>1, <2>2 DEF Await
  <2>4. \A w \in Awaited(a) : health[w] = "ready"
    BY <1>1, <2>3, AwaitedOne
  <2>5. QED
    BY <1>1, <1>2, <1>3, <1>6, <2>4 DEF Progress, Current
<1>7. CASE run[r].at = n + 1
  <2>1. Line(r) = <<"await", Nginx>>
    BY <1>1, <1>7, Positions DEF Deploying
  <2>2. health[Nginx] = "ready"
    BY <2>1 DEF Await, Attempt, Doing
  <2>3. QED
    BY <1>1, <1>2, <1>3, <1>7, <2>2 DEF Progress, Current
<1>8. CASE run[r].at = n + 3
  <2>1. Line(r) = <<"await", Alloy>>
    BY <1>1, <1>8, Positions DEF Deploying
  <2>2. health[Alloy] = "ready"
    BY <2>1 DEF Await, Attempt, Doing
  <2>3. QED
    BY <1>1, <1>2, <1>3, <1>8, <2>2 DEF Progress, Current
<1>9. QED
  BY <1>4, <1>5, <1>6, <1>7, <1>8

(* And for the restart of nginx: the application's workload is ready.       *)
LEMMA ProgressRestart ==
    ASSUME TypeOK, NEW r \in Run, Deploying(r), Progress(r), Restart(r)
    PROVE  Progress(r)'
<1> DEFINE a == run[r].app
           n == RestartAt(a)
<1>1. /\ Active(r) /\ ~Over(r) /\ Doing(r, "restart") /\ Advance(r)
      /\ run'[r].app = a /\ run'[r].at = run[r].at + 1
      /\ a \in App /\ run[r].at \in Nat /\ n \in {10, 11}
  BY NextLine DEF Restart, Doing
<1>2. run[r].at = n
  BY <1>1, Positions DEF Deploying
<1>3. n' = n
  BY <1>1 DEF RestartAt, Awaited, Own
<1>4. n = 10 => Awaited(a) = {}
  BY DEF RestartAt
<1>5. health'[Nginx] = "rolling" /\ \A h \in Host : health'[h] = health[h]
  BY Kinds DEF Restart, Rolling, Workload
<1>6. Stores(a) \subseteq Host /\ Awaited(a) \subseteq Host
  BY <1>1, Manifests
<1>7. UNCHANGED <<env, templates, pipeline, loaded>>
  BY DEF Restart
<1>8. QED
  BY <1>1, <1>2, <1>3, <1>4, <1>5, <1>6, <1>7 DEF Progress, Current

(* Every step keeps the invariant.                                          *)
LEMMA AloneStep == TypeOK /\ AloneInv /\ [Next]_vars => AloneInv'
<1> SUFFICES ASSUME TypeOK, AloneInv, [Next]_vars PROVE AloneInv'
  OBVIOUS
<1>1. ASSUME NEW r \in Run, NEW a \in App, NEW verb \in {"deploy", "delete"},
             Begin(r, verb, a)
      PROVE  AloneInv'
  <2>1. /\ run'[r] = [verb |-> verb, app |-> a, at |-> 1]
        /\ \A q \in Run \ {r} : run'[q] = run[q]
    BY <1>1, BeginRuns
  <2>2. SUFFICES ASSUME NEW p \in Run, Deploying(p)', p \notin disturbed'
                 PROVE  (\A q \in Run : Active(q)' => q = p) /\ Progress(p)'
    BY DEF AloneInv
  <2>3. p = r /\ \A q \in Run : ~Active(q)
    <3>1. p # r => Active(p)
      BY <2>1, <2>2, OtherRuns DEF Deploying
    <3>2. QED
      BY <1>1, <2>2, <3>1 DEF Begin
  <2>4. \A q \in Run : Active(q)' => q = p
    BY <2>1, <2>3, OtherRuns
  <2>5. Progress(p)'
    BY <2>1, <2>3 DEF Progress, RestartAt
  <2>6. QED
    BY <2>4, <2>5
<1>2. ASSUME NEW r \in Run, Apply(r) \/ Await(r) \/ Attempt(r) \/ Restart(r)
      PROVE  AloneInv'
  <2>1. Active(r) /\ ~Over(r) /\ Advance(r) /\ UNCHANGED disturbed
    BY <1>2 DEF Apply, Await, Attempt, Restart, Doing, seenVars
  <2>2. /\ run'[r] = [run[r] EXCEPT !.at = run[r].at + 1]
        /\ \A q \in Run \ {r} : run'[q] = run[q]
    BY <2>1, AdvanceRuns
  <2>3. Deploying(r)' => Deploying(r)
    BY <2>1, <2>2, ActiveRun DEF Deploying, Active
  <2>4. Deploying(r) => Deploying(r)' /\ run'[r].app = run[r].app
    BY <2>1, NextLine
  <2>5. Deploying(r) /\ r \notin disturbed => Progress(r)'
    BY <1>2, ProgressApply, ProgressAwait, ProgressRestart DEF AloneInv
  <2>6. QED
    BY <2>1, <2>2, <2>3, <2>4, <2>5, OwnStep
<1>3. ASSUME NEW r \in Run, Delete(r) PROVE AloneInv'
  <2>1. Active(r) /\ ~Over(r) /\ Advance(r) /\ UNCHANGED disturbed /\ Doing(r, "delete")
    BY <1>3 DEF Delete, Doing, seenVars
  <2>2. ~Deploying(r)
    BY <2>1, Positions DEF Deploying
  <2>3. /\ run'[r] = [run[r] EXCEPT !.at = run[r].at + 1]
        /\ \A q \in Run \ {r} : run'[q] = run[q]
    BY <2>1, AdvanceRuns
  <2>4. ~Deploying(r)'
    BY <2>1, <2>2, <2>3, ActiveRun DEF Deploying, Active
  <2>5. QED
    BY <2>1, <2>2, <2>3, <2>4, OwnStep
<1>4. ASSUME NEW r \in Run, Finish(r) \/ Fail(r) PROVE AloneInv'
  <2>1. /\ run'[r] = Idle
        /\ \A q \in Run \ {r} : run'[q] = run[q]
    BY <1>4, EndRuns DEF Finish, Fail
  <2>2. Active(r) /\ UNCHANGED disturbed /\ ~Deploying(r)'
    BY <1>4, <2>1 DEF Finish, Fail, Over, seenVars, Deploying, Active, Idle
  <2>3. SUFFICES ASSUME NEW p \in Run, Deploying(p)', p \notin disturbed
                 PROVE  FALSE
    BY <2>2 DEF AloneInv
  <2>4. p # r /\ Deploying(p)
    BY <2>1, <2>2, <2>3, OtherRuns
  <2>5. QED
    BY <2>2, <2>3, <2>4 DEF AloneInv
<1>5. ASSUME NEW w \in Workload, BecomeReady(w) PROVE AloneInv'
  <2>1. /\ UNCHANGED <<run, disturbed, env, templates, pipeline, loaded>>
        /\ health' = [health EXCEPT ![w] = "ready"]
        /\ w # Nginx
    BY <1>5 DEF BecomeReady, seenVars
  <2>2. \A v \in Workload : health'[v] \in {health[v], "ready"}
    BY <2>1 DEF TypeOK
  <2>3. health'[Nginx] = health[Nginx] /\ Current' = Current
    BY <2>1 DEF TypeOK, Current, Workload
  <2>4. ASSUME NEW r \in Run, Deploying(r), Progress(r) PROVE Progress(r)'
    <3>1. Stores(run[r].app) \subseteq Workload /\ Awaited(run[r].app) \subseteq Workload
      BY <2>4, ActiveRun, Manifests DEF Deploying, Workload
    <3>2. Alloy \in Workload
      BY DEF Workload
    <3>3. QED
      BY <2>1, <2>2, <2>3, <2>4, <3>1, <3>2 DEF Progress
  <2>5. QED
    BY <2>1, <2>4, ClusterStep
<1>6. ASSUME NginxStarts PROVE AloneInv'
  <2>1. /\ UNCHANGED <<run, disturbed, env, templates, pipeline>>
        /\ health' = [health EXCEPT ![Nginx] = "ready"]
        /\ Current'
    BY <1>6 DEF NginxStarts, seenVars, Current
  <2>2. health'[Nginx] = "ready" /\ \A v \in Workload : health'[v] \in {health[v], "ready"}
    BY <2>1 DEF TypeOK, Workload
  <2>3. ASSUME NEW r \in Run, Deploying(r), Progress(r) PROVE Progress(r)'
    <3>1. Stores(run[r].app) \subseteq Workload /\ Awaited(run[r].app) \subseteq Workload
      BY <2>3, ActiveRun, Manifests DEF Deploying, Workload
    <3>2. Alloy \in Workload
      BY DEF Workload
    <3>3. QED
      BY <2>1, <2>2, <2>3, <3>1, <3>2 DEF Progress
  <2>4. QED
    BY <2>1, <2>3, ClusterStep
<1>7. CASE UNCHANGED vars
  <2>1. UNCHANGED <<run, disturbed, health, env, templates, pipeline, loaded>>
    BY <1>7 DEF vars, cluster, seenVars
  <2>2. \A r \in Run : Progress(r) => Progress(r)'
    BY <2>1 DEF Progress, Current
  <2>3. QED
    BY <2>1, <2>2, ClusterStep
<1>8. QED
  BY <1>1, <1>2, <1>3, <1>4, <1>5, <1>6, <1>7 DEF Next, Make

(* An undisturbed deploy has the cluster for itself, and has brought about  *)
(* what its line says.                                                      *)
THEOREM AloneCorrect == Spec => []AloneInv
<1>1. Init => AloneInv
  BY DEF Init, AloneInv, Deploying, Active, Idle
<1>2. QED
  BY <1>1, TypeCorrect, AloneStep, PTL DEF Spec

-----------------------------------------------------------------------------
(* With its own environment, or with none about its stores, an              *)
(* application's stores are where the gateway sends their traffic.          *)
LEMMA HostsReached ==
    ASSUME NEW a \in App, NEW e, HasEnv(a) => e = EnvOf(a),
           ~HasEnv(a) => ~\E h \in e, b \in Stores(a) : h[1] = b[1]
    PROVE  \A h \in Stores(a) : HostOf(e, h[1]) = h
<1> USE DEF Mono, RW, Micro
<1>1. /\ a[1] \in {Mono, RW, Micro}
      /\ a[2] \in {"all", "logs", "metrics", "profiles", "traces"}
      /\ a[2] = "all" => a[1] = Mono
  BY AppAssumption
<1>2. ASSUME NEW h \in Own(a) PROVE \E s \in Store : h = <<s, a[1]>>
  BY <1>1, <1>2 DEF Own, Store
<1>3. ASSUME NEW h \in Optional(a)
      PROVE  /\ \E s \in Store : h = <<s, Mono>>
             /\ \A g \in Own(a) : g[1] # h[1]
  BY <1>1, <1>3 DEF Own, Optional, Store
<1>4. CASE HasEnv(a)
  <2>1. e = Own(a)
    BY <1>4 DEF EnvOf
  <2>2. ASSUME NEW h \in Own(a) PROVE HostOf(e, h[1]) = h
    <3>1. \A g \in e : g[1] = h[1] => g = h
      BY <1>2, <2>1, <2>2
    <3>2. QED
      BY <2>1, <2>2, <3>1 DEF HostOf
  <2>3. ASSUME NEW h \in Optional(a) PROVE HostOf(e, h[1]) = h
    BY <1>3, <2>1, <2>3 DEF HostOf
  <2>4. QED
    BY <2>2, <2>3 DEF Stores
<1>5. CASE ~HasEnv(a)
  <2>1. ASSUME NEW h \in Stores(a) PROVE \E s \in Store : h = <<s, Mono>>
    BY <1>2, <1>3, <1>5, <2>1 DEF Stores, HasEnv
  <2>2. ASSUME NEW h \in Stores(a) PROVE HostOf(e, h[1]) = h
    BY <1>5, <2>1, <2>2 DEF HostOf
  <2>3. QED
    BY <2>2
<1>6. QED
  BY <1>4, <1>5

(* The templates in force after a deploy have a server for each of its      *)
(* stores, and one for Tempo only if Tempo is among them.                   *)
LEMMA TemplatesServe ==
    ASSUME NEW a \in App
    PROVE  /\ \A h \in Stores(a) : h[1] \in TemplatesAfter(a)
           /\ TemplatesAfter(a) # {}
           /\ "tempo" \in TemplatesAfter(a) => \E h \in Stores(a) : h[1] = "tempo"
<1>1. a[2] \in {"all", "logs", "metrics", "profiles", "traces"}
  BY AppAssumption
<1>2. ASSUME NEW h \in Stores(a), ~HasTemplates(a)
      PROVE  h[1] \in {"loki", "mimir", "pyroscope"}
  BY <1>1, <1>2 DEF HasTemplates, Stores, Own, Optional
<1>3. \E h : h \in Own(a)
  BY <1>1 DEF Own, Store
<1>4. CASE HasTemplates(a)
  BY <1>3, <1>4 DEF TemplatesAfter, TemplatesOf, Stores
<1>5. CASE ~HasTemplates(a)
  BY <1>2, <1>5 DEF TemplatesAfter, GatewayTemplates
<1>6. QED
  BY <1>4, <1>5

(* An application without a left-over environment in its way is reached as  *)
(* soon as it is applied.                                                   *)
LEMMA AppliedReached ==
    ASSUME TypeOK, NEW r \in Run, Deploying(r), Progress(r), run[r].at > 9,
           ~LeftOver(run[r].app)
    PROVE  \A h \in Stores(run[r].app) :
              /\ h[1] \in templates
              /\ HostOf(env, h[1]) = h
              /\ health[h] # "absent"
<1>1. run[r].app \in App
  BY ActiveRun DEF Deploying
<1>2. /\ templates = TemplatesAfter(run[r].app)
      /\ HasEnv(run[r].app) => env = EnvOf(run[r].app)
      /\ \A h \in Stores(run[r].app) : health[h] # "absent"
  BY DEF Progress
<1>3. \A h \in Stores(run[r].app) : HostOf(env, h[1]) = h
  BY <1>1, <1>2, HostsReached DEF LeftOver
<1>4. QED
  BY <1>1, <1>2, <1>3, TemplatesServe

(* A deploy that announces is beyond all its lines.                         *)
LEMMA AnnouncesAt ==
    ASSUME TypeOK, NEW r \in Run, Announces(r)
    PROVE  /\ Deploying(r)
           /\ run[r].app \in App
           /\ run[r].at > RestartAt(run[r].app) + 3
           /\ run[r].at \in Nat
           /\ RestartAt(run[r].app) \in {10, 11}
<1>1. Deploying(r) /\ Over(r)
  BY DEF Announces, Over, Deploying
<1>2. run[r].app \in App /\ run[r].at \in Nat /\ Recipe(r) = DeployRecipe(run[r].app)
  BY <1>1, ActiveRun DEF Deploying
<1>3. run[r].at > RestartAt(run[r].app) + 3
  BY <1>1, <1>2, Lines DEF Over
<1>4. QED
  BY <1>1, <1>2, <1>3 DEF RestartAt

(* "Demo is running." is said when gateway, Alloy and the awaited workload  *)
(* are what the target has made of them, after any history.                 *)
THEOREM DemoRunsCorrect == Spec => []DemoRuns
<1>1. TypeOK /\ AloneInv => DemoRuns
  <2> SUFFICES ASSUME TypeOK, AloneInv, NEW r \in Run, Announces(r)
               PROVE  /\ health[Nginx] = "ready"
                      /\ loaded = [env |-> env, templates |-> templates]
                      /\ health[Alloy] = "ready"
                      /\ pipeline = Pipeline(run[r].app)
                      /\ \A w \in Awaited(run[r].app) : health[w] = "ready"
    BY DEF DemoRuns
  <2>1. Progress(r)
    BY AnnouncesAt DEF AloneInv, Announces
  <2>2. QED
    BY <2>1, AnnouncesAt DEF Progress, Current
<1>2. QED
  BY <1>1, TypeCorrect, AloneCorrect, PTL

(* And the gateway then sends the traffic of the application's stores to    *)
(* them, unless another mode's environment is in the way.                   *)
THEOREM DeployedIsReachedCorrect == Spec => []DeployedIsReached
<1>1. TypeOK /\ AloneInv => DeployedIsReached
  <2> SUFFICES ASSUME TypeOK, AloneInv, NEW r \in Run, Announces(r), ~LeftOver(run[r].app)
               PROVE  Reaches(run[r].app)
    BY DEF DeployedIsReached
  <2>1. Progress(r)
    BY AnnouncesAt DEF AloneInv, Announces
  <2>2. loaded = [env |-> env, templates |-> templates]
    BY <2>1, AnnouncesAt DEF Progress, Current
  <2>3. run[r].at > 9
    BY AnnouncesAt
  <2>4. QED
    BY <2>1, <2>2, <2>3, AppliedReached, AnnouncesAt DEF Reaches
<1>2. QED
  BY <1>1, TypeCorrect, AloneCorrect, PTL

(* No deploy waits for a gateway that cannot start.                         *)
THEOREM GatewayStartsCorrect == Spec => []GatewayStarts
<1>1. TypeOK /\ AloneInv => GatewayStarts
  <2> SUFFICES ASSUME TypeOK, AloneInv, NEW r \in Run, AtLine(r, <<"await", Nginx>>),
                      run[r].verb = "deploy", r \notin disturbed, ~LeftOver(run[r].app)
               PROVE  CanStart
    BY DEF GatewayStarts
  <2>1. Deploying(r) /\ ~Over(r) /\ Progress(r)
    BY DEF AloneInv, Deploying, AtLine
  <2>2. run[r].at = 6 \/ run[r].at = RestartAt(run[r].app) + 1
    BY <2>1, Positions DEF Deploying, AtLine
  <2>3. CASE run[r].at = 6
    BY <2>1, <2>3 DEF Progress, CanStart, GatewayTemplates
  <2>4. CASE run[r].at = RestartAt(run[r].app) + 1
    <3>1. run[r].app \in App /\ run[r].at > 9
      BY <2>1, <2>4, ActiveRun DEF Deploying, RestartAt
    <3>2. templates = TemplatesAfter(run[r].app)
      BY <2>1, <3>1 DEF Progress
    <3>3. QED
      BY <2>1, <3>1, <3>2, AppliedReached, TemplatesServe DEF CanStart
  <2>5. QED
    BY <2>2, <2>3, <2>4
<1>2. QED
  BY <1>1, TypeCorrect, AloneCorrect, PTL
=============================================================================
