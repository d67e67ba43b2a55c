# TLA+ models of lgtmp and the stack it provisions

`lgtmp` is a small Go program that carries a whole repository of Docker Compose
files, Kubernetes manifests and a Makefile inside its binary.  Every start
unpacks that archive into `.lgtmp` and then runs one `make` target in it
(`up-`, `down-`, `deploy-` or `delete-`), which drives `docker compose` or
`kubectl`.  This directory models the parts of the repository in which order,
failure and concurrency matter, checks them with TLC on small instances and
proves the main results with TLAPS for all instances.

## Inventory

| Part | State it keeps | Operations | What is hard | Modules |
|---|---|---|---|---|
| Embedded file system (`src/fs.go`) | the directory `.lgtmp`, shared by every lgtmp process of one working directory | `init`: RemoveAll, tar loop | no lock: extractions interleave; a kill leaves a partial tree | `GenDir`, `WorkingTree`, `GenDirProofs` |
| Running make (`src/pkg/common.go`) | signal channel, done channel, child process, exit status | `ExecuteCommand`, `OpenBrowser`, `appearsSuccessful` | signals racing the end of make; signals dropped; a hang of make | `ExecuteCommand`, `CommandRun`, `ExecuteCommandProofs` |
| Commands (`src/pkg/cmd`, `src/cmd/lgtmp`) | the `--mode` flag | `up`, `down`, `deploy`, `delete` x `all`, `logs`, `metrics`, `traces`, `profiles`; `version` | which mode and target is accepted; a command after one that left work behind | `Lgtmp`, `Session`, `LgtmpProofs` |
| Kubernetes targets (`src/Makefile` 201-426, `src/kubernetes`) | cluster objects shared by the modes: minio, memcached, gateway and its ConfigMaps, Grafana, Alloy, Mimir, Loki | `deploy-*`, `delete-*` | shared objects; deploys and deletes of different modes in any order, overlapping or failing half-way; what nginx read at its start | `Deploy`, `DeployProofs` |
| Version and release (`src/pkg/version`, `src/tools/scripts`, `src/.github/workflows`) | branches, tags, release branches, `release.go` | `prepare-release-candidate`, `prepare-release`, publish workflow | partial failure between pushes; reruns; concurrent runs | `Release`, `ReleaseTrain`, `ReleaseProofs` |
| Docker targets (`src/Makefile` 66-199, `src/docker-compose`) | compose projects, containers, host ports | `up-*`, `down-*` | startup order, health, restart policies, files mounted from `.lgtmp` while it is rebuilt | `Compose`, `ComposeProofs` |
| Alloy pipelines (`src/alloy-modules`) | the labels of a target | keep, drop or relabel a discovered target | joined labels and anchored expressions; precedence of annotations | `Discovery`, `DiscoveryProofs` (the annotation rules of `metrics/annotations-scrape.alloy`) |
| Screenshot tool (`src/Makefile` 508-514, `src/tools/screenshots`) | pictures in `docs/dashboards`, a container with a fixed name | one browser session per dashboard, then pngquant | several makes share both; time limits; partial failure | `Screenshots`, `ScreenshotsProofs` |
| Gateway entrypoint (`src/kubernetes/common/gateway/nginx`) | nginx's configuration | template substitution, worker tuning | straight-line scripts | no |
| Demo programs (`src/examples`) | metrics; remote users | periodic generation; HTTP calls | demo data only | no |
| Generated manifests and mixins (`src/kubernetes`, `src/monitoring-mixins`) | none | none | generated YAML and jsonnet | no |
| Repository maintenance (`src/tools`, `src/.github`) | none | version bumps, lint | I/O of other tools | no |

How they interact.  The main package imports the embedded file system, so its
`init` runs before any command, even `lgtmp version`.  A command resolves its
stack and mode to a make target and calls `ExecuteCommand`, whose working
directory is `.lgtmp`.  make runs `docker compose` or `kubectl` as children,
which read their files from `.lgtmp` too and survive a kill of make.  The
Kubernetes targets meet each other only through the cluster.  The release
scripts meet each other, the publish workflow and the developers only through
the `origin` repository.  The compose stacks meet each other through the host's
ports and the next lgtmp command through `.lgtmp`, whose files their containers
mount; makes of the screenshot target meet through the pictures and the
container's name.

What makes each part correct:

* extraction: a command gets the complete tree of its own build or an error,
  whatever was in `.lgtmp`; an extraction ends; errors that only a race can cause
  do not appear without one;
* running make: the exit status tells what happened to make; nothing is left
  running unless the user forced it; lgtmp ends when make does, or when the user
  insists; the browser is opened for a stack that is up;
* commands: make is asked only for targets it has;
* deploying: "Demo is running." means that it is, that the gateway serves the
  deployed configuration, and that traffic goes to what was deployed;
* releasing: candidates are numbered without gaps, both tags of a name agree, and
  a tagged commit carries the version it is tagged with; no version is skipped;
* compose stacks: a stack that is up has a gateway that serves it, whatever the order
  in which its containers started;
* screenshots: success means a whole new picture of every dashboard, and a page that
  never loads does not keep the container for ever;
* discovery: the annotations mean what the module's comments say.

## The modules and the code

### GenDir and WorkingTree: the working directory

One action per system call of `EmbedFsToGenDirectory`: `RemoveName` and
`RemoveDir` (the two halves of `os.RemoveAll`, which is external and modelled by
its documented behaviour), `RemoveDirFails` (rmdir finds new entries),
`EnsureParent`, `CreateDir`, `CreateFile`, `Copy`, `EndOfArchive` for the tar
loop, `CreateFails` for a parent that vanished, `IOError` for any other error.
`Launch` is a new process (its `init`), `Start`/`StartFails` are `cmd.Start` with
`Dir = GenDir`, `Finish` and `Kill` its ends.  `pc`, `bin`, `at`, `todo` and `exit`
are the processes' state; `dir`, `body`, `owner` and `handle` the directory:
unlinked and re-truncated files behave as POSIX says, so that two processes
writing one name may leave a complete, a partial or a torn file.  The variables
`disturbed`, `spoiled` and `wave` only observe.  The tree is flat: all entries of
the archive lie in `.lgtmp` itself.

`WorkingTree` is the abstract specification, without names, system calls or
descriptors: a process is idle, extracting, ready, using the tree or gone, and the
tree is the exact copy of some builds or of none.  Only somebody who extracts changes
it, and takes it away from no command that has been alone; an extraction that was
alone, or the last of a wave of one build that completed, leaves the tree of its
build; a race is lost only by somebody who was not alone (or whose build embeds
nothing).  `ImplementsTree` maps `pc` to these stages and the contents of the
directory to the builds of which it is the copy.

### ExecuteCommand and CommandRun: running make

`ExecuteCommand` follows the function statement by statement: `Start`, the
synchronous `Wait` of `down-` and `delete-`, `Notify`, the goroutine `Reap`, the two
`select`s (`SelectSignal`, `SelectDone`, `StopSignal`, `StopDone`) and the browser.
`signalChan` has its capacity of one and drops what does not fit.  make, its recipe
(docker compose or kubectl) and the opener are separate processes that may hang;
a Ctrl-C of the terminal reaches all of them.  `CommandRun` is the abstract
specification, what a shell is promised: at most one make, an exit status decided
by make's outcome and by the user's requests, and final.  `ImplementsCommandRun`
instantiates it with a refinement mapping.

### Lgtmp and Session: commands one after the other

Composes the extraction (in one piece), the commands' mode checks and
`ExecuteCommand`, instantiated as `Exec`, into what a shell sees.  A record per stack
package (`NewCmdAll` ... `NewCmdTraces`) holds the end of its targets' names,
`supportedModes` and the default of `--mode`; `Mode` is what the flag comes to, given
or omitted, and `Target` the name `RunE` composes.  `UpDown` and `DeployDelete` are
the targets of the Makefile.  `Launch` is a new process, `Extract` its `init`,
`Resolve` the check of `RunE`, `Interrupt` a signal before `ExecuteCommand` is
there to catch it, `Execute` any step of `ExecuteCommand` and `Return` the exit.
make and a recipe that outlive their lgtmp go on until the next command's `Launch`
takes their tree.

`Session` is what the shell is promised, with `CommandRun` instantiated in it: one
command after the other, each begins afresh, runs at most one make and only if make
is what was asked for, ends with success without a make only if there was nothing for
make to do, and is answered once.  `ImplementsSession` maps the phases to it.

### Deploy: the Kubernetes targets

A recipe is a sequence of lines (apply, await, attempt, restart, delete) in the order
in which make runs them, prerequisites first; `run` holds each make's target and
next line.  `health` is the state of each workload, `env` and `templates` are
the gateway's ConfigMaps `nginx-env` and `nginx-templates`, `pipeline` is Alloy's
configuration, and `loaded` is what the gateway's serving pods read when they
started.  `ApplyApp`, `ApplyGateway` and `DeleteApp` say what a manifest does to
these; `BecomeReady` and `NginxStarts` are Kubernetes' rollouts.  nginx cannot
start without its templates, or when Tempo's server names a service that does
not exist (`CanStart`).  `disturbed` and `spoiled` only observe.  Abstractions: one
manifest is applied in one step; a store's workload and service are one object, and
so are the gateway's two pods; running pods do not fail; Grafana, memcached,
minio's tenant and the mixins have no state, because nothing here depends on them.

### Release and ReleaseTrain: versions, tags and branches

`commit` is origin's history with, for each commit, its ancestors, its version and the
names its `release.go` declares; `main`, `rel` and `tag` are origin's references.
The two scripts are sequences of actions with a local clone in `run`
(`StartCandidate`, `PullMain`, `CreateBranch`, `NameCandidate`, `PushPlain`, `PushV`,
`Bump`; `StartRelease` enters at `PushPlain`), `Fail` ends a run anywhere.  `Publish`
is the workflow that creates the release of a pushed name, `MergeBump` the merge of
the version-bump PR with what the generator writes, `Develop` other commits.  A
version `0.m.0` is the number m.  A run may be started from main or from a release
branch, as the workflow may.  `moved` and `Regular` only observe: a version is
regular as long as nobody "created" its branch over an existing one.

`ReleaseTrain` is what those who watch the repository see: the version that main
develops, the versions with a branch, and the names with and without "v".  A branch
is made only for a version that has been developed; a candidate comes after its
predecessor, unless the version is final or its branch was made anew; the name with
"v" comes after the one without and once; main never goes past a version that nobody
tagged; nothing ever disappears.  `ImplementsTrain` maps origin to it by forgetting
the commits, the clones and the runs.

### Compose: stacks on one machine

`Stack` is any set of the ten stacks, each a mode and an application.  `up` is each
project's state, `container` each service's, `tree` whether `.lgtmp` is whole.
`Backend`, `DependsOn`, `Ports`, `RestartAlways` and `NamesAtStart` are what the
compose files say, with the includes of `docker-compose/common`; services nothing waits
for and whose names nobody looks up at the start are left out, and so are
healthchecks nobody waits for.  `StartContainer` starts a container whose conditions
are `Satisfied`, or fails up on a port `Conflict`.  `Boot` is what comes of starting a
gateway: nginx ends when a literal name is missing, and on a torn `.lgtmp` it may get
empty directories in place of its files.  It then runs without the server that its
healthcheck is meant for ("broken"), and where that is asked on port 8080 it passes
nevertheless ("default"), because nginx's own start page answers there (`StartPage`).
`Rebuild` is the extraction of another lgtmp command, `Crash` a container that ends,
`Restart` Docker's restart policy, which gives up when the port has been taken, and
`HealthPasses` its probes.

### Discovery: the rules for annotated targets

One action per relabelling rule of `metrics/annotations-scrape.alloy`, from
the scrape annotation to the the scrape annotation to the port, on one target of any role.  `meta` holds the labels
of the target and, for endpoints, of its service.  An address and the labels a rule
joins with ";" (`Join`) are sequences of tokens, so that `OptsIn` and `Matches` can be
what the regular expressions match and not a guess at what they are meant for.  A
tenant is a name; the argument may also be an expression that admits the ";", which
then keeps what it matches.

### Screenshots: make mixin-screenshots

`run` is each make, `image` each picture with the make that took it, and `pc`, `by`,
`todo`, `cur`, `action`, `clock`, `browsers` the one container there can be.
`DeleteImages` is make's find, `BuildFails` and `RunContainer` are `run.sh` (the name of
the container is fixed, so a second `docker run` fails), `Interrupt` and
`KillClient` the user's, and the rest is `main.go`: `ListDashboards`, the loop
(`NextDashboard`, `Finish`), `MakeDirectory`, the browser's actions one by one
(`RunAction`, `PassTime`, `ActionFails`, `TimesOut`), `OpenFile` and `WriteFile` of
`os.WriteFile`, and pngquant (`ReadImage`, `ReplaceImage`).  Time counts in units
of ten seconds within a dashboard: the limit is three, and two actions sleep for
one.  `wiped` only observes.

## The runs

Every property has a mutant of the code, defined next to the operator it
replaces, that breaks it.

| Run | Instance | States | Shows |
|---|---|---|---|
| `gendir` | 2 processes, 2 builds (the older has one file more), a directory and two files | 241 thousand | `FreshTree`, `OnlyRacesFail`: a run without overlap gets exactly its build's tree, and never an error of a race, after any history of crashes and failures; `WaveConverges`: overlapping runs of one build that all end leave its exact tree; the refinement `ImplementsTree`; `ExtractionEnds` |
| `execute_command` | one command | 280 | `ExitHonest`, `NoStray`, `BrowserOnlyWhenUp`; `ReturnsAfterMake`, `PersistenceStops`; the refinement `ImplementsCommandRun` |
| `lgtmp` | any sequence of commands, every `--mode` typed, mistyped or omitted | 20 thousand | `MakeFindsTarget`: make runs in a whole tree for a target it has; `RefusedHasNoTarget`: nothing else is turned down; `UndercutAfterInterruptOnly`: only an interrupted command leaves work that the next one undercuts; the refinement `ImplementsSession` |
| `release` | 2 runs, 3 commits, overlapping on the first 2; 2 versions, rc.0 and rc.1 | 1.12 million | `CandidatesContiguous`, `CandidateSaysVersion`, `NoVersionSkipped`, `CandidateOnItsBranch`, `NamesAgree`, with a failure at any step; the refinement `ImplementsTrain` |
| `release_branch`, `release_generated` | 2 commits | | findings 1 and 2 |
| `deploy` | two runs of make, Tempo in two modes | 1.25 million | `DemoRuns`, `DeployedIsReached`, `GatewayStarts` of a deploy that no other run overlapped; `GatewayConverges` of overlapping ones |
| `deploy_endpoints` | one run of make | | finding 3 |
| `screenshots` | 3 makes, 3 files, one of them skipped | 159 thousand | `SuccessComplete`: success means complete; `ContainerAdvances`: every step of a container leaves it fewer steps; `ContainerEnds`: only a hanging pngquant keeps it |
| `compose` | three stacks, 2 of them and 2 crashed containers at once | 715 thousand | `UpServes`: a stack that is up has a healthy gateway; `NoDeadGateway`: no order of starts leaves one dead, only a torn `.lgtmp` or another stack that takes its port; `OneStackUp`: two stacks are not complete at once; `GatewayConverges`: a restarting gateway gets there |
| `discovery` | one target of any role, 2 ports, a tenant or none | 30 thousand | `OptOutWins`: what is scraped said yes in a label and no in none; `AddressKeepsHost`: no address with a port is torn by the port rule |
| `discovery_port` | one target, 2 ports, a tenant or none | | finding 4 |

Most passing runs also check their module's `TypeOK`; for all modules it is proved.

Bounds.  Two processes show every pairwise race of the extraction; a third adds
only another partner of the same race, and the theorems hold for any number.  The
archive has one entry of each kind and one that only one build has.
`ExecuteCommand` and `Lgtmp` have no bound: their state is finite.  With two
versions and two candidate numbers the generator's three cases (older version,
final release, next candidate) all occur; three commits are the fewest with a bump
and a repaired `release.go`; `MaxOverlap` (runs overlap only while there are at most two
commits, later commits are made beside at most one run) keeps the run small
and is no assumption of the theorems, which hold for every value of it.  The two
modes of traces are the pair of applications of which both write the templates, one
the environment, and both Alloy's configuration; the theorems about `Deploy` hold for
every set of applications and runs.  Three makes give a container, one that deletes
its pictures and one that finds the name taken; three files give a dashboard
before and after a skipped one.  The three stacks of
`compose` are one whose healthcheck the start page answers, and two that share a
port and are restarted; `MaxStacks` lets two of them be there at once, and
`MaxExited` is the number of names that a gateway asks for at its start, and of the
containers in which two stacks clash.  Symmetry is used in `release` and `deploy`, which check
no liveness.

Fairness.  `GenDir`: weak fairness of each process's own extraction steps, for
the operating system schedules it; nothing obliges anyone to launch, kill or finish
a process.  `ExecuteCommand`: weak fairness of lgtmp's own steps and of its
goroutine; make, the recipe and the opener may hang for ever.
`PersistenceStops` has the user's persistence as its premise.  `Screenshots`: weak
fairness of the container, whose clock runs; an action of the browser and
pngquant may hang, and make is the user's.  `Compose`: weak fairness of
Docker's restart and probe of each gateway; nothing else is obliged to happen, and
`GatewayConverges` has as its premise that the services stay up, nobody takes the
gateway's port and `.lgtmp` is left alone.  `Lgtmp`, `Release`, `Deploy` and `Discovery` are checked for safety only
and assume no fairness: their scripts may stop anywhere.

Deadlock is checked in `gendir` and in the runs of `Deploy`, which never stop.  A
command of `ExecuteCommand` ends, a shell of `Lgtmp` may wait on a command that
hangs, `Release` may reach its bound of commits, every make of `Screenshots` ends,
the rules of `Discovery` end for each target, and nothing obliges a user of `Compose`
to go on.

## The proofs

All proofs hold for every value of the constants that the modules' assumptions
admit: `ArchiveAssumption`, `AppAssumption`, `BoundAssumption` (`Release` and
`Compose`), `StackAssumption` (the stacks are among the ten), `RunAssumption`, `FileAssumption` and `PortAssumption` (a port is none of
the other tokens of an address).  No other assumption is used.  Every invariant, every
action property and every refinement that a passing run checks is proved.

* `GenDirProofs`.  `TypeCorrect`; `AloneCorrect` proves the invariant `AloneInv`, from
  which `FreshTreeCorrect` and `OnlyRacesFailCorrect` follow.  `FreshTree` speaks only
  of finished extractions and is not inductive: `AloneInv` says that no
  other process extracts while an undisturbed one does (`SoloInv`), and what the tree
  holds while that one removes (nothing outside `todo`), writes (exactly the entries
  before `at`) and is ready.  `WaveConvergesCorrect` needs `HandleInv`, which says
  whose bytes an open file may still get, and `WaveInv`, which says that while any
  process of the wave still has an entry before it, every missing or unfinished
  entry has a process that will write it.  `TreeImplemented`: these invariants carry the
  refinement of `WorkingTree`.  A system call is a step of one that extracts, and keeps
  the tree of whoever uses it alone (`StageMoves`, `ExtractMaps`); the end of the loop
  finds the tree whole because of `AloneInv` or `WaveInv` (`CompleteMaps`); a start
  that finds no directory was not alone (`LeaveMaps`).  For any number of processes,
  builds and entries.
* `ExecuteCommandProofs`.  One invariant `Inv` relates the place in the code to
  the channels (`PlaceInv`) and the value of `done` to make's outcome (`MakeInv`);
  the three safety properties follow, and with it
  every step is one of `CommandRun` or a stutter (`StepSimulation`,
  `CommandRunImplemented`).
* `LgtmpProofs` instantiates `ExecuteCommandProofs` for the call inside a command.
  `PhaseInv` says what the tree, the command and make are in each phase;
  `AcceptedIffTarget` that the modes the packages accept are exactly those the
  Makefile has targets for.  `SessionImplemented` rests on `StepSimulation` of
  `ExecuteCommandProofs` for the steps of the call and on `PhaseInv` for all others.
* `ReleaseProofs`.  `ReleaseInv` is `HistoryInv` (histories only grow and versions
  grow along them), `TagInv` (each candidate is on its branch, says its version and
  comes after its predecessor: `Good`, `Placed`), `BumpInv`, and `Found`: what a run found
  out in its clone is still true of origin.  The argument: every step makes origin
  grow (`Grows`), and what a clone has found is stable under growth (`GoodGrows`,
  `PlacedGrows`, `FoundGrows`), although the clone is stale.  `NextIsPlaced` does the
  numbering from the latest tag, `MainOvertakes` the creation of a branch.
  `TrainImplemented`: each push is one step of `ReleaseTrain`, since what it knew of
  origin still holds, and every other step is invisible.  For any number of runs,
  commits, versions and candidates.
* `DeployProofs`.  `Lines` and `Positions` say which line of a deploy stands where,
  for each application.  `ConvergeInv` makes `GatewayConverges` inductive: while
  nothing failed, a gateway that does not serve the configuration in force has a
  deploy before it that will restart it or that waits for the restart.  `AloneInv` says
  what an undisturbed deploy has brought about by the line it has reached
  (`Progress`) and that it has the cluster for itself; `DemoRunsCorrect`,
  `DeployedIsReachedCorrect` and `GatewayStartsCorrect` follow, with two lemmas about the
  manifests (`HostsReached`, `TemplatesServe`).  For any number of runs and any
  applications.
* `ScreenshotsProofs`.  `TakerInv` says that a waiting make has the container
  (`WaitingInv`), that the place in the code determines the browser (`BrowserInv`)
  and that every dashboard no longer in `todo` has a whole picture of this make
  (`ImageInv`), unless another one deleted it.  `AdvancesCorrect` is the safety half of
  `ContainerEnds`: every step of a container lowers `Left`, which is at most twenty per
  file and one (`LeftBounded`, `StepLeavesFewer`); that its steps are taken is fairness.
  For any number of makes and dashboards.
* `ComposeProofs`.  `GatewayInv` says that Alloy has started only behind a gateway
  that serves, `PortInv` that no two running containers hold one port; `StackStep` and
  `ContainerStep` say what a step has to see to, and `NamesRestart` that every gateway
  which looks up names is restarted.  For any of the ten stacks side by side and any
  number of crashes.
* `DiscoveryProofs`.  `JoinElements` and `Places` say which token stands where in three
  labels joined, whichever of them are empty; `OptsInMeans` and `MatchMeans` turn the two
  regular expressions over them into what they ask of the labels, and
  `NoMatchWithPort` says that the port rule never matches an address with a port,
  which is why `AddressKeepsHost` holds and `PortOverrides` does not (finding 4).  For
  any ports and tenants.

Only model-checked are the liveness properties, which need fairness and `ENABLED`, out
of the prover's reach (`ExtractionEnds`, `ReturnsAfterMake`, `PersistenceStops`,
`ContainerEnds` and `GatewayConverges` of `Compose`).

## Findings

1. `create_branch_from_if_doesnt_exist` (`src/tools/scripts/tag-release-candidate.sh:8`)
   looks only at the local clone; a branch that another run created in the
   meantime is moved by the push of line 15.
2. The generator writes `GitCommit` and `BuildDate`
   (`src/pkg/version/generate/release_generate.go:129-133`), package version uses
   `gitCommit` and `buildDate` (`src/pkg/version/version.go:35-36`): the first generated
   `release.go` does not build.
3. "Update Tempo Monolithic Mode endpoint in gateway"
   (`src/kubernetes/monolithic-mode/traces/kustomization.yaml:43`) updates templates
   only; the host names a microservices deploy left in `nginx-env` stay in force.
4. `metrics.grafana.com/port` is to "override the scrape port"
   (`src/alloy-modules/kubernetes/metrics/annotations-scrape.alloy:65-68`); the
   expression of line 299 allows for one label behind the address, and two are joined
   to it: an address with a port never matches, so that the annotation is ignored, and
   one without (a pod's container that declares none) is replaced by garbage.

Seen on the way, without a run of their own: `lgtmp up all --mode
microservices-mode`, an example of the command's help
(`src/pkg/cmd/all/all.go:30-31`), is turned down by `RunE` (line 35); the alternative for
ports named "metrics" (`annotations-scrape.alloy:224`) never matches, because
`__tmp_scrape` is always set; the tenant rule (line 261) compares one name with two
labels joined by ";", and so keeps nothing for a tenant that is named; the gateway of
metrics and of all-in-one is healthy without its configuration; `deploy-microservices-mode-profiles` says "Demo is running."
(`src/Makefile:305`) without having waited for Pyroscope.

## Hazards without a property

* The local tag of a rejected push stays in a clone that is kept
  (`src/tools/scripts/tag-common.sh:70`): `Release` starts each run from a fresh
  clone, as the workflow does.
* `prepare-release` may be started anywhere (`src/tools/scripts/tag-release.sh:15`):
  modelled, but nothing in the repository says where a release must come from.
* minio's tenant may be late (`src/Makefile:284`): modelled, but the stores' readiness
  does not depend on it.
* Deleting one application takes shared objects from another (`src/Makefile:356`):
  modelled, but nothing promises that two live side by side.
* `deploy-microservices-mode-profiles` waits for no workload of its own
  (`src/Makefile:405`), and all-in-one for one of four: `DemoRuns` holds each target to
  what it waits for; nothing says which workloads "Demo is running." is about.
* pngquant's status 98 (`src/tools/screenshots/main.go:235`) is one of the failures
  of `ReplaceImage`; which status it returns is not this repository's.

## Not modelled, and why

* Contents: help texts, dashboards, rules, configuration files, vendored
  jsonnet and Helm output.
* Single pods of a workload, nodes, resource limits and the Kubernetes control plane
  beyond "a rollout ends": the Makefile sees no more.
* Cluster creation, kube-prometheus-stack, the mysql, redis and delete-grafana targets:
  single kubectl calls that share no state with the modelled ones.
* The `compose.yaml` of the root: an example that no target of the Makefile uses.
* The other Alloy rules: each sets one label by one of the two forms that `Discovery`
  has, and the wiring of components is declarative.
* The gateway's entrypoint scripts: copies of the nginx image's, straight-line
  substitution; the tuning of worker processes ends at once, because nothing sets the
  variable that enables it.
* The demo programs: nothing relies on them.

## Plan

All modules of the first plan are built, and their safety properties and refinements
proved.  What is left, in order of weight:

1. `Release`: a developer's own clone that is kept between runs, with its local tags.
2. `Deploy`: an abstract specification of what "Demo is running." promises across
   deploys, and the refinement.
3. `Discovery`: the job annotation and the rules of logs and profiles.
4. Cluster creation as a prefix of `Deploy`.
