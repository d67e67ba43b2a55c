------------------------------- MODULE Deploy -------------------------------
(***************************************************************************)
(* The deploy-* and delete-* targets of the Makefile on one cluster.        *)
(*                                                                         *)
(* A target is a list of kubectl calls that make runs one after the other,  *)
(* stopping at the first that fails.  The targets share the objects of the  *)
(* gateway, of minio and of Alloy, and even the stores of one mode belong   *)
(* to several targets' manifests.  Two targets may run at a time, of two    *)
(* shells, or because a killed lgtmp left its make behind.                  *)
(*                                                                         *)
(* The gateway (nginx) finds a store's service in its environment, a        *)
(* ConfigMap of the deployed mode, or by default under the monolithic       *)
(* mode's name; what it proxies at all is a ConfigMap of templates.  Both   *)
(* are read when a pod starts and not again.                                *)
(*                                                                         *)
(* A store's workload and service are one object here, and so are the two   *)
(* pods of the gateway.  kubectl applies or deletes a manifest in one step; *)
(* running pods do not fail.                                                *)
(***************************************************************************)
EXTENDS Naturals, Sequences

CONSTANTS Run,   \* slots for runs of make
          App    \* the applications deployed and deleted, as <<mode, stack>>

Mono  == "monolithic-mode"
RW    == "read-write-mode"
Micro == "microservices-mode"

Store == {"loki", "mimir", "tempo", "pyroscope"}
Host  == Store \X {Mono, RW, Micro}

ASSUME AppAssumption ==
    App \subseteq ({Mono} \X {"all", "logs", "metrics", "profiles", "traces"})
                  \cup {<<RW, "logs">>}
                  \cup ({Micro} \X {"logs", "metrics", "profiles", "traces"})

-----------------------------------------------------------------------------
(* What the manifests hold.  The stores an application is about, and those  *)
(* it brings along, which are monolithic whatever its mode.                 *)
Own(a) ==
    {<<s, a[1]>> : s \in CASE a[2] = "logs"     -> {"loki"}
                           [] a[2] = "metrics"  -> {"mimir"}
                           [] a[2] = "profiles" -> {"pyroscope"}
                           [] a[2] = "traces"   -> {"tempo"}
                           [] a[2] = "all"      -> Store}
Optional(a) ==
    CASE a[2] \in {"all", "metrics"}   -> {}
      [] a[2] \in {"logs", "profiles"} -> {<<"mimir", Mono>>}
      [] a[2] = "traces"               -> {<<"mimir", Mono>>, <<"loki", Mono>>}
Stores(a) == Own(a) \cup Optional(a)

(* Each store but Mimir has a namespace, which is part of the manifest.     *)
InNamespaces(a) ==
    {h \in Host : h[1] # "mimir" /\ \E b \in Stores(a) : b[1] = h[1]}

(* ConfigMap nginx-env; {} stands for none.                                 *)
HasEnv(a) == a[1] # Mono
EnvOf(a)  == Own(a)

(* Mutant of TemplatesOf: only the application's own store has a server.    *)
OwnTemplates(a) == {b[1] : b \in Own(a)}

(* ConfigMap nginx-templates: the stores it has a server for; {}: none.     *)
HasTemplates(a)  == a[2] \in {"traces", "all"}
TemplatesOf(a)   == {b[1] : b \in Stores(a)}
GatewayTemplates == {"loki", "mimir", "pyroscope"}

(* ConfigMap alloy-config, named by its content.                            *)
Pipeline(a) == <<IF a[2] = "traces" THEN a[1] ELSE "any mode", a[2]>>

Nginx    == <<"nginx", "common">>
Alloy    == <<"alloy", "common">>
Operator == <<"minio", "operator">>
Workload == Host \cup {Nginx, Alloy, Operator}

VARIABLES
    health,     \* of each workload: "absent", "rolling" or "ready"
    env,        \* ConfigMap nginx-env: the hosts it names
    templates,  \* ConfigMap nginx-templates
    pipeline,   \* what Alloy is configured for
    loaded,     \* env and templates of the gateway's serving pods
    run         \* each run of make: its target and the next line

(* Observation only.                                                        *)
VARIABLES
    disturbed,  \* runs that another run overlapped
    spoiled     \* since the last quiet moment a run failed or was a delete

cluster  == <<health, env, templates, pipeline, loaded>>
seenVars == <<disturbed, spoiled>>
vars     == <<cluster, run, seenVars>>

None == <<"none", "none">>
Idle == [verb |-> "none", app |-> None, at |-> 1]

Init ==
    /\ health = [w \in Workload |-> "absent"]
    /\ env = {} /\ templates = {} /\ pipeline = None
    /\ loaded = [env |-> {}, templates |-> {}]
    /\ run = [r \in Run |-> Idle]
    /\ disturbed = {}
    /\ spoiled = TRUE

-----------------------------------------------------------------------------
(* The recipes, prerequisites first.                                        *)
DeployMinio == << <<"apply", "operator">>, <<"await", Operator>>,
                  <<"apply", "tenant">>, <<"attempt", "tenant">> >>

DeployGateway == << <<"apply", "gateway">>, <<"await", Nginx>> >>

(* The line of its own that a target waits with before it restarts nginx.   *)
Awaited(a) ==
    CASE a = <<Micro, "profiles">> -> {}
      [] a[2] = "all"              -> {<<"mimir", Mono>>}
      [] OTHER                     -> Own(a)

(* config_changes_trigger_pod_restart, and mutants of it: no restart, and   *)
(* no wait for Alloy.                                                       *)
NoRestart == << <<"await", Nginx>>, <<"apply", "mixins">>, <<"await", Alloy>> >>
NoAlloy   == << <<"restart", Nginx>>, <<"await", Nginx>>, <<"apply", "mixins">> >>

ConfigChangesTriggerPodRestart ==
    << <<"restart", Nginx>>, <<"await", Nginx>>,
       <<"apply", "mixins">>, <<"await", Alloy>> >>

DeployRecipe(a) ==
    DeployMinio \o DeployGateway
    \o << <<"apply", "grafana">>, <<"apply", "memcached">>, <<"apply", "app">> >>
    \o (IF Awaited(a) = {} THEN <<>>
        ELSE << <<"await", CHOOSE w \in Awaited(a) : TRUE>> >>)
    \o ConfigChangesTriggerPodRestart

DeleteRecipe == << <<"delete", "tenant">>, <<"delete", "memcached">>, <<"delete", "app">> >>

Recipe(r) == CASE run[r].verb = "deploy" -> DeployRecipe(run[r].app)
               [] run[r].verb = "delete" -> DeleteRecipe
               [] OTHER                  -> <<>>

Active(r)    == run[r].verb # "none"
Over(r)      == Active(r) /\ run[r].at > Len(Recipe(r))
Line(r)      == Recipe(r)[run[r].at]
AtLine(r, l) == Active(r) /\ ~Over(r) /\ Line(r) = l
Doing(r, do) == Active(r) /\ ~Over(r) /\ Line(r)[1] = do

(* Mutant of Advance: a line is left out.                                   *)
SkipLine(r) == run' = [run EXCEPT ![r].at = @ + 2]

Advance(r) == run' = [run EXCEPT ![r].at = @ + 1]

(* A target is started.                                                     *)
Begin(r, verb, a) ==
    LET others == {q \in Run : Active(q)}
    IN /\ ~Active(r)
       /\ run' = [run EXCEPT ![r] = [verb |-> verb, app |-> a, at |-> 1]]
       /\ disturbed' = IF others = {} THEN disturbed \ {r}
                       ELSE disturbed \cup others \cup {r}
       /\ spoiled' = (verb = "delete" \/ (others # {} /\ spoiled))
       /\ UNCHANGED cluster

(* Workloads whose manifest changes roll out.  The operator's and the       *)
(* gateway's never do; a store's differs from one application to the next,  *)
(* and one that did not change is ready again at once.                      *)
Rolling(ws) == [w \in Workload |-> IF w \in ws THEN "rolling" ELSE health[w]]

(* Mutant of ApplyGateway: templates that are there are kept.               *)
ApplyGatewayOnce ==
    /\ health' = Rolling({w \in {Nginx} : health[w] = "absent"})
    /\ templates' = IF templates = {} THEN GatewayTemplates ELSE templates
    /\ UNCHANGED <<env, pipeline, loaded>>

(* The gateway's Deployment never changes, so its pods stay; its templates  *)
(* go back to those of the gateway's own manifest.                          *)
ApplyGateway ==
    /\ health' = Rolling({w \in {Nginx} : health[w] = "absent"})
    /\ templates' = GatewayTemplates
    /\ UNCHANGED <<env, pipeline, loaded>>

(* The stores and namespaces of the application, its ConfigMaps, and Alloy,  *)
(* whose pod is replaced when its ConfigMap's name changes.                 *)
ApplyApp(a) ==
    /\ health' = Rolling(Stores(a) \cup {w \in {Alloy} : health[w] = "absent"
                                                      \/ pipeline # Pipeline(a)})
    /\ pipeline' = Pipeline(a)
    /\ env' = IF HasEnv(a) THEN EnvOf(a) ELSE env
    /\ templates' = IF HasTemplates(a) THEN TemplatesOf(a) ELSE templates
    /\ UNCHANGED loaded

ApplyOperator ==
    /\ health' = Rolling({w \in {Operator} : health[w] = "absent"})
    /\ UNCHANGED <<env, templates, pipeline, loaded>>

(* Nothing here depends on minio's tenant, Grafana, memcached, the mixins.  *)
Apply(r) ==
    /\ Doing(r, "apply")
    /\ \/ AtLine(r, <<"apply", "operator">>) /\ ApplyOperator
       \/ AtLine(r, <<"apply", "gateway">>) /\ ApplyGateway
       \/ AtLine(r, <<"apply", "app">>) /\ ApplyApp(run[r].app)
       \/ Line(r)[2] \in {"tenant", "grafana", "memcached", "mixins"} /\ UNCHANGED cluster
    /\ Advance(r)
    /\ UNCHANGED seenVars

(* kubectl rollout status; after its 600 seconds the run fails.             *)
Await(r) ==
    /\ Doing(r, "await")
    /\ health[Line(r)[2]] = "ready"
    /\ Advance(r)
    /\ UNCHANGED <<cluster, seenVars>>

(* "|| true": ready or not.                                                 *)
Attempt(r) ==
    /\ Doing(r, "attempt")
    /\ Advance(r)
    /\ UNCHANGED <<cluster, seenVars>>

(* kubectl rollout restart: new pods are started, and the old ones serve    *)
(* until they are ready.                                                    *)
Restart(r) ==
    /\ Doing(r, "restart")
    /\ health[Nginx] # "absent"
    /\ health' = Rolling({Nginx})
    /\ Advance(r)
    /\ UNCHANGED <<env, templates, pipeline, loaded, seenVars>>

(* kubectl delete waits until the objects, and all that is in a deleted     *)
(* namespace, are gone.                                                     *)
DeleteApp(a) ==
    /\ health' = [w \in Workload |->
                    IF w \in Stores(a) \cup InNamespaces(a) \cup {Alloy}
                    THEN "absent" ELSE health[w]]
    /\ pipeline' = None
    /\ env' = IF HasEnv(a) THEN {} ELSE env
    /\ templates' = IF HasTemplates(a) THEN {} ELSE templates
    /\ UNCHANGED loaded

Delete(r) ==
    /\ Doing(r, "delete")
    /\ \/ Line(r)[2] \in {"tenant", "memcached"} /\ UNCHANGED cluster
       \/ AtLine(r, <<"delete", "app">>) /\ DeleteApp(run[r].app)
    /\ Advance(r)
    /\ UNCHANGED seenVars

(* "Demo is running.", or the end of a delete.                              *)
Finish(r) ==
    /\ Over(r)
    /\ run' = [run EXCEPT ![r] = Idle]
    /\ UNCHANGED <<cluster, seenVars>>

(* A call of kubectl fails, a wait times out, or make is killed.            *)
Fail(r) ==
    /\ Active(r) /\ ~Over(r)
    /\ run' = [run EXCEPT ![r] = Idle]
    /\ spoiled' = TRUE
    /\ UNCHANGED <<cluster, disturbed>>

-----------------------------------------------------------------------------
BecomeReady(w) ==
    /\ w # Nginx
    /\ health[w] = "rolling"
    /\ health' = [health EXCEPT ![w] = "ready"]
    /\ UNCHANGED <<env, templates, pipeline, loaded, run, seenVars>>

(* Where nginx sends what is for a store: to the host that the environment  *)
(* names, else to the default of 10-default-lgtmp.envsh.                    *)
HostOf(e, s) ==
    IF \E h \in e : h[1] = s THEN CHOOSE h \in e : h[1] = s ELSE <<s, Mono>>

(* A pod waits for its volume, the templates.  Tempo's server names an      *)
(* upstream, which nginx resolves when it starts, and nginx exits if there  *)
(* is no such service; the other stores' hosts are resolved per request.    *)
CanStart ==
    /\ templates # {}
    /\ "tempo" \in templates => health[HostOf(env, "tempo")] # "absent"

NginxStarts ==
    /\ health[Nginx] = "rolling"
    /\ CanStart
    /\ health' = [health EXCEPT ![Nginx] = "ready"]
    /\ loaded' = [env |-> env, templates |-> templates]
    /\ UNCHANGED <<env, templates, pipeline, run, seenVars>>

Make(r) ==
    \/ \E a \in App, verb \in {"deploy", "delete"} : Begin(r, verb, a)
    \/ Apply(r) \/ Await(r) \/ Attempt(r) \/ Restart(r) \/ Delete(r)
    \/ Finish(r) \/ Fail(r)

Next ==
    \/ \E r \in Run : Make(r)
    \/ \E w \in Workload : BecomeReady(w)
    \/ NginxStarts

Spec == Init /\ [][Next]_vars

-----------------------------------------------------------------------------
TypeOK ==
    /\ health \in [Workload -> {"absent", "rolling", "ready"}]
    /\ env \subseteq Host
    /\ templates \subseteq Store
    /\ pipeline \in {None} \cup {Pipeline(a) : a \in App}
    /\ loaded \in [env : SUBSET Host, templates : SUBSET Store]
    /\ run \in [Run -> {Idle} \cup [verb : {"deploy", "delete"}, app : App, at : Nat \ {0}]]
    /\ \A r \in Run : run[r].at <= Len(Recipe(r)) + 1
    /\ disturbed \subseteq Run
    /\ spoiled \in BOOLEAN

(* A deploy that no other run overlapped says "Demo is running."            *)
Announces(r) == run[r].verb = "deploy" /\ Over(r) /\ r \notin disturbed

(* The gateway sends an application's traffic to the application.           *)
Reaches(a) ==
    \A h \in Stores(a) :
        /\ h[1] \in loaded.templates
        /\ HostOf(loaded.env, h[1]) = h
        /\ health[h] # "absent"

(* An environment that a mode other than the monolithic left behind.        *)
LeftOver(a) == ~HasEnv(a) /\ \E h \in env, b \in Stores(a) : h[1] = b[1]

(* "Demo is running." is said when the gateway runs with the configuration  *)
(* that is in force, Alloy runs the application's pipeline, and the         *)
(* workload the target waits for is ready - after any history of deploys,   *)
(* deletes and failures, those inside this very target's last run included. *)
DemoRuns ==
    \A r \in Run : Announces(r) =>
        /\ health[Nginx] = "ready"
        /\ loaded = [env |-> env, templates |-> templates]
        /\ health[Alloy] = "ready"
        /\ pipeline = Pipeline(run[r].app)
        /\ \A w \in Awaited(run[r].app) : health[w] = "ready"

(* And traffic for every store of the application then reaches it, unless   *)
(* a monolithic application meets another mode's environment.               *)
DeployedIsReached ==
    \A r \in Run : Announces(r) /\ ~LeftOver(run[r].app) => Reaches(run[r].app)

(* No deploy hangs at a gateway that cannot start, under the same proviso:  *)
(* whenever a run waits for nginx, the templates are there and the service  *)
(* that nginx must resolve exists.                                          *)
GatewayStarts ==
    \A r \in Run :
        AtLine(r, <<"await", Nginx>>) /\ run[r].verb = "deploy"
            /\ r \notin disturbed /\ ~LeftOver(run[r].app) =>
                health[Nginx] = "ready" \/ CanStart

(* However deploys overlap, when the last of them is through and none has   *)
(* failed, the gateway runs with the configuration in force: every change   *)
(* of it is followed by a restart of the run that made it.                  *)
GatewayConverges ==
    ~spoiled /\ (\A r \in Run : ~Active(r)) =>
        health[Nginx] = "ready" /\ loaded = [env |-> env, templates |-> templates]

-----------------------------------------------------------------------------
(* "Update Tempo Monolithic Mode endpoint in gateway": once deployed, an    *)
(* application's stores are what the gateway's endpoints lead to.           *)
EndpointsUpdated ==
    \A r \in Run : Announces(r) => Reaches(run[r].app)
=============================================================================
