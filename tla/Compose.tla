------------------------------ MODULE Compose ------------------------------
(***************************************************************************)
(* docker compose up and down of stacks on one machine, each a project of   *)
(* its own that publishes ports at fixed numbers.                           *)
(*                                                                         *)
(* Compose starts a container when those it depends on have started or are  *)
(* healthy, and gives up at the first failure with the others left running. *)
(* The gateway is an nginx that looks up the names of a literal proxy_pass  *)
(* when it starts, and those with a variable only when it is asked.         *)
(* Configuration comes from files in .lgtmp, which another lgtmp command    *)
(* may be rebuilding.  nginx does not crash once it runs.  Left out are the *)
(* services that have no name the gateway looks up at its start and no      *)
(* other service waiting for them, and healthchecks nobody waits for.       *)
(***************************************************************************)
EXTENDS Naturals, FiniteSets

CONSTANTS Stack,      \* the stacks a machine is used for: mode and application
          MaxStacks,  \* bound: those that are not down at once
          MaxExited   \* bound: containers that have crashed

Mono      == "monolithic"
Micro     == "microservices"
ReadWrite == "read-write"
Signal    == {"logs", "metrics", "profiles", "traces"}
Stacks    == ({Mono} \X ({"all"} \cup Signal)) \cup ({Micro} \X Signal)
                \cup {<<ReadWrite, "logs">>}

ASSUME BoundAssumption == MaxStacks \in Nat /\ MaxExited \in Nat
ASSUME StackAssumption == Stack \subseteq Stacks

Store(a) ==
    CASE a = "logs"     -> "loki"
      [] a = "metrics"  -> "mimir"
      [] a = "profiles" -> "pyroscope"
      [] a = "traces"   -> "tempo"

(* What stands behind the gateway, and what that waits for.                 *)
Backend(s) ==
    CASE s[1] = ReadWrite             -> {"loki-write"}
      [] s = <<Mono, "all">>          -> {Store(a) : a \in Signal}
      [] s[1] = Mono /\ s[2] # "all"  -> {Store(s[2])}
      [] s = <<Micro, "metrics">>     -> {"ingester", "distributor", "ruler"}
      [] s = <<Micro, "traces">>      -> {"ingester", "distributor", "query-frontend"}
      [] s[1] = Micro                 -> {"ingester", "distributor"}

Services(s) == {"minio", "gateway", "alloy"} \cup Backend(s)

(* Mutant of AlloyWaits: for the gateway's start only.                      *)
AlloyAtOnce == "started"

AlloyWaits == "healthy"

(* What the backends of an application are waited for to be: those of Loki  *)
(* and Pyroscope have a healthcheck, those of Mimir and Tempo are left to   *)
(* themselves.                                                              *)
Waited(a) == IF a \in {"logs", "profiles"} THEN "healthy" ELSE "started"

(* The services that the gateway waits for.                                 *)
Front(s) ==
    CASE s = <<Micro, "metrics">>                 -> {"distributor", "ruler"}
      [] s[1] = Micro /\ s[2] # "metrics"         -> {"distributor"}
      [] OTHER                                    -> Backend(s)

(* depends_on, with its conditions.                                         *)
DependsOn(s, x) ==
    CASE x = "minio"       -> {}
      [] x = "alloy"       -> {<<"gateway", AlloyWaits>>}
      [] x = "distributor" -> {<<"ingester", Waited(s[2])>>}
      [] x = "gateway"     ->
            IF s[2] = "all" THEN {<<Store(a), Waited(a)>> : a \in Signal}
            ELSE Front(s) \X {Waited(s[2])}
      [] OTHER             ->
            {<<"minio", "healthy">>} \cup
            {d \in {<<"mimir", "started">>} : s[2] = "all" /\ x = "tempo"}

(* Mutant of Ports: Docker chooses the ports of the host.                   *)
AnyPorts(s, x) == {}

PortOf(a) ==
    CASE a = "logs"     -> 33100
      [] a = "metrics"  -> 38080
      [] a = "profiles" -> 34040
      [] a = "traces"   -> 33200

(* A store has its port; where there is none, the gateway publishes it.     *)
Ports(s, x) ==
    CASE x = "minio"   -> {9001}
      [] x = "alloy"   -> {12345}
      [] x = "gateway" -> IF s[1] = Mono THEN {} ELSE {PortOf(s[2])}
      [] OTHER         -> {PortOf(a) : a \in {b \in Signal : x = Store(b)}}

(* Mutant of NamesAtStart: TEMPO_QUERY_FRONTEND_HOST is not set, so that    *)
(* its default stays.                                                       *)
DefaultNames(s) ==
    CASE s = <<Micro, "traces">>        -> {"distributor", "tempo"}
      [] s \in {Mono} \X {"all", "traces"} -> {"tempo"}
      [] OTHER                          -> {}

(* Names without a variable behind them, in gateway_tempo.conf only.        *)
NamesAtStart(s) ==
    CASE s = <<Micro, "traces">>        -> {"distributor", "query-frontend"}
      [] s \in {Mono} \X {"all", "traces"} -> {"tempo"}
      [] OTHER                          -> {}

(* Mutant of RestartAlways: no container is restarted.                      *)
RestartNever(s, x) == FALSE

RestartAlways(s, x) ==
    \/ x = "gateway" /\ s \in {<<Mono, "all">>, <<Mono, "traces">>,
                              <<Micro, "traces">>, <<Micro, "profiles">>}
    \/ x = "tempo" /\ s = <<Mono, "traces">>

(* The gateway's healthcheck asks port 8080 for /, which nginx also answers *)
(* without any files: with the start page of its image.  Nothing but the    *)
(* stack's own files has it listen on the ports that the others check.      *)
StartPage(s) == s[2] \in {"all", "metrics"}

VARIABLES
    up,         \* each stack: "down", "starting", "up" or "failed"
    container,  \* per stack and service: "none", "started", "healthy",
                \* "restarting", "exited", and for a gateway that runs without
                \* the server its healthcheck is meant for "broken", or
                \* "default" if the healthcheck passes nevertheless
    tree        \* .lgtmp: "whole" or "torn"

vars == <<up, container, tree>>

Running(s) ==
    {x \in Services(s) :
        container[s][x] \in {"started", "healthy", "broken", "default"}}
Exited ==
    UNION {{<<s, x>> : x \in {y \in Services(s) : container[s][y] = "exited"}} : s \in Stack}

Init ==
    /\ up = [s \in Stack |-> "down"]
    /\ container = [s \in Stack |-> [x \in Services(s) |-> "none"]]
    /\ tree = "whole"

-----------------------------------------------------------------------------
(* A new up, also after a failed one: what has exited is started again.     *)
Up(s) ==
    /\ up[s] # "starting"
    /\ Cardinality({t \in Stack \ {s} : up[t] # "down"}) < MaxStacks
    /\ up' = [up EXCEPT ![s] = "starting"]
    /\ container' = [container EXCEPT ![s] =
                        [x \in Services(s) |-> IF @[x] = "exited" THEN "none" ELSE @[x]]]
    /\ UNCHANGED tree

Satisfied(s, x) ==
    \A d \in DependsOn(s, x) :
        IF d[2] = "healthy" THEN container[s][d[1]] \in {"healthy", "default"}
        ELSE container[s][d[1]] # "none"

Conflict(s, x) ==
    \E t \in Stack \ {s} : \E y \in Running(t) : Ports(s, x) \cap Ports(t, y) # {}

(* Mutant of Dead: a container that ends is restarted whatever its policy.  *)
Restarted(s, x) == "restarting"

Dead(s, x) == IF RestartAlways(s, x) THEN "restarting" ELSE "exited"

(* What comes of starting a gateway.  A name that is not there ends nginx.  *)
(* While .lgtmp is being rebuilt some of the files may not be there: an     *)
(* empty directory is mounted for each, which nginx does not read; or those *)
(* that are there make no configuration and end it.  All-in-one has Tempo's *)
(* names in a file that its healthcheck does not need.                      *)
Boot(s) ==
    {IF NamesAtStart(s) \subseteq Running(s) THEN "started" ELSE Dead(s, "gateway")}
    \cup IF tree = "whole" THEN {}
         ELSE {"broken", Dead(s, "gateway")} \cup {c \in {"started"} : s[2] = "all"}

Starts(s, x) == IF x = "gateway" THEN Boot(s) ELSE {"started"}

FailUp(s) ==
    /\ up' = [up EXCEPT ![s] = "failed"]
    /\ UNCHANGED container

StartContainer(s, x) ==
    /\ up[s] = "starting"
    /\ container[s][x] = "none"
    /\ Satisfied(s, x)
    /\ IF Conflict(s, x)
       THEN FailUp(s)
       ELSE /\ \E c \in Starts(s, x) : container' = [container EXCEPT ![s][x] = c]
            /\ UNCHANGED up
    /\ UNCHANGED tree

(* An image or a configuration file that cannot be had, a container that is *)
(* unhealthy for too long or gone, a Ctrl-C.                                *)
UpFails(s) ==
    /\ up[s] = "starting"
    /\ FailUp(s)
    /\ UNCHANGED tree

UpDone(s) ==
    /\ up[s] = "starting"
    /\ \A x \in Services(s) : container[s][x] # "none"
    /\ up' = [up EXCEPT ![s] = "up"]
    /\ UNCHANGED <<container, tree>>

Down(s) ==
    /\ up[s] \in {"up", "failed"}
    /\ up' = [up EXCEPT ![s] = "down"]
    /\ container' = [container EXCEPT ![s] = [x \in Services(s) |-> "none"]]
    /\ UNCHANGED tree

(* Docker: a healthcheck passes that somebody waits for, the restart        *)
(* policy, a crash.                                                         *)
HealthPasses(s, x) ==
    /\ \/ /\ \E y \in Services(s) : <<x, "healthy">> \in DependsOn(s, y)
          /\ container[s][x] = "started"
          /\ container' = [container EXCEPT ![s][x] = "healthy"]
       \/ /\ StartPage(s)
          /\ container[s][x] = "broken"
          /\ container' = [container EXCEPT ![s][x] = "default"]
    /\ UNCHANGED <<up, tree>>

(* Docker tries again what ended by itself, but not what it could not start *)
(* because the port has been taken.                                         *)
Restart(s, x) ==
    /\ container[s][x] = "restarting"
    /\ \E c \in IF Conflict(s, x) THEN {"exited"} ELSE Starts(s, x) :
          container' = [container EXCEPT ![s][x] = c]
    /\ UNCHANGED <<up, tree>>

Crash(s, x) ==
    /\ Cardinality(Exited) < MaxExited
    /\ x \in Running(s) \ {"gateway"}
    /\ container' = [container EXCEPT ![s][x] = Dead(s, x)]
    /\ UNCHANGED <<up, tree>>

(* Another lgtmp command: .lgtmp is removed and written anew.               *)
Rebuild ==
    /\ tree' = IF tree = "whole" THEN "torn" ELSE "whole"
    /\ UNCHANGED <<up, container>>

Project(s) ==
    \/ Up(s) \/ UpFails(s) \/ UpDone(s) \/ Down(s)
    \/ \E x \in Services(s) :
          StartContainer(s, x) \/ HealthPasses(s, x) \/ Restart(s, x) \/ Crash(s, x)

Next == Rebuild \/ \E s \in Stack : Project(s)

Spec == Init /\ [][Next]_vars

(* Docker restarts and probes the gateway; everything else may stop.        *)
FairSpec ==
    /\ Spec
    /\ \A s \in Stack : WF_vars(Restart(s, "gateway")) /\ WF_vars(HealthPasses(s, "gateway"))

-----------------------------------------------------------------------------
State == {"none", "started", "healthy", "restarting", "exited", "broken", "default"}

TypeOK ==
    /\ up \in [Stack -> {"down", "starting", "up", "failed"}]
    /\ \A s \in Stack :
          /\ container[s] \in [Services(s) -> State]
          /\ \A x \in Services(s) : container[s][x] = "restarting" => RestartAlways(s, x)
    /\ tree \in {"whole", "torn"}

(* When up has succeeded, and the browser is sent to the stack, its gateway *)
(* is healthy, whatever crashed, was rebuilt or restarted on the way, and   *)
(* serves the stack, but for one whose healthcheck the start page answers.  *)
UpServes ==
    \A s \in Stack : up[s] = "up" =>
        \/ container[s]["gateway"] = "healthy"
        \/ container[s]["gateway"] = "default" /\ StartPage(s)

(* No gateway is left dead by the order in which the containers start, or   *)
(* by one it asks for being gone: only by starting on a torn .lgtmp, or if  *)
(* another stack took its port while it waited to be restarted.             *)
NoDeadGateway ==
    [][\A s \in Stack :
          container'[s]["gateway"] = "exited" =>
              \/ container[s]["gateway"] = "exited"
              \/ tree = "torn"
              \/ container[s]["gateway"] = "restarting" /\ Conflict(s, "gateway")]_vars

(* The stacks publish the same ports: one that is to come up beside another *)
(* one gets to the end only if each container it clashes with has crashed.  *)
OneStackUp ==
    \A s, t \in Stack :
        s # t /\ up[s] = "up" /\ up[t] = "up" =>
            \A x \in {"minio", "alloy"} :
                container[s][x] = "exited" \/ container[t][x] = "exited"

(* A gateway that has to be restarted gets there as soon as the services    *)
(* of its stack stay up, nobody has its port and .lgtmp is left alone.      *)
Settled(s) ==
    /\ tree = "whole"
    /\ Services(s) \ {"gateway", "alloy"} \subseteq Running(s)
    /\ ~Conflict(s, "gateway")

GatewayConverges ==
    \A s \in Stack :
        <>[]Settled(s) => []<>(container[s]["gateway"] \notin {"started", "restarting"})
=============================================================================
