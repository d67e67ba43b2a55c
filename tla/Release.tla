------------------------------ MODULE Release ------------------------------
(***************************************************************************)
(* How versions come to be: the two release scripts                         *)
(* (tools/scripts/tag-release-candidate.sh and tag-release.sh with          *)
(* tag-common.sh), the generator of pkg/version/release.go they run, and    *)
(* the publish workflow that a pushed tag triggers.                         *)
(*                                                                         *)
(* Every run starts from a clone taken when it starts (the workflow         *)
(* "Trigger Release (Manually)" checks out all branches and tags), and      *)
(* looks at origin again only where the script pulls or pushes; other       *)
(* runs, merges and commits come in between.  "set -o errexit" ends a run   *)
(* at the first failure, with what it pushed so far left on origin.         *)
(*                                                                         *)
(* A version 0.m.0 is the number m, and a tag is named by a version, a      *)
(* candidate number and whether its name starts with "v".                   *)
(***************************************************************************)
EXTENDS Integers, FiniteSets, Sequences

CONSTANTS Run,         \* slots for runs of the scripts
          MaxCommit,   \* bound: commits on origin
          MaxOverlap,  \* bound: commits while several runs are under way
          MaxVersion,  \* bound: minor versions
          MaxRC        \* bound: candidate numbers

ASSUME BoundAssumption ==
    /\ MaxCommit \in Nat \ {0}
    /\ MaxOverlap \in 0..MaxCommit
    /\ MaxVersion \in Nat \ {0}
    /\ MaxRC \in Nat

Version == 1..MaxVersion
Final   == -1                          \* no pre-release part
Name    == Version \X ({Final} \cup 0..MaxRC)
Plain(n)  == <<n[1], n[2], "plain">>   \* 0.m.0-rc.k
Vtag(n)   == <<n[1], n[2], "v">>       \* v0.m.0-rc.k
Tag     == Version \X ({Final} \cup 0..MaxRC) \X {"plain", "v"}
Nowhere == 0

(* The package-level names that version.go uses, and those release.go       *)
(* declares: as it is in the repository, and as the generator writes it.    *)
Uses      == {"Version", "PreReleaseID", "gitCommit", "buildDate"}
Committed == {"Version", "PreReleaseID", "gitCommit", "buildDate"}
Generated == {"Version", "PreReleaseID", "GitCommit", "BuildDate"}

VARIABLES
    commit,  \* the commits: ancestors (itself included), version, names
    main,    \* head of origin's main
    rel,     \* heads of origin's release branches
    tag,     \* origin's tags
    bump,    \* per base commit, the "next development iteration" PR
    run,     \* each run: its place in the script and its local clone
    moved    \* observed only: branches "created" over an existing one

origin == <<commit, main, rel, tag, bump>>
vars   == <<origin, run, moved>>

Id == 1..MaxCommit
Reach(c)    == commit[c].anc
Compiles(c) == Uses \subseteq commit[c].decl

(* Git accepts a push of commit c over head h only if it is a fast-forward. *)
FastForward(h, c) == h = Nowhere \/ h \in Reach(c)

(* The tags git fetches with the history of c, and with a clone.            *)
Followed(c)  == {t \in Tag : tag[t] # Nowhere /\ tag[t] \in Reach(c)}
OriginTags   == {t \in Tag : tag[t] # Nowhere}

(* What the generator prints in a tree that builds.  For versions 0.m.0 the *)
(* release branch release-0.m is named by the same number.                  *)
PrintVersion(c)    == commit[c].ver
PrintMajorMinor(c) == commit[c].ver

NotRunning == [pc |-> "idle"]

Init ==
    /\ commit = <<[anc |-> {1}, ver |-> 1, decl |-> Committed]>>
    /\ main = 1
    /\ rel = [v \in Version |-> Nowhere]
    /\ tag = [t \in Tag |-> Nowhere]
    /\ bump = [c \in Id |-> "none"]
    /\ run = [r \in Run |-> NotRunning]
    /\ moved = {}

-----------------------------------------------------------------------------
At(r, place) == run[r].pc = place

Active == {r \in Run : ~At(r, "idle")}

(* Bounds: runs overlap on the first commits only, and the later commits    *)
(* are made while at most one run is under way.                             *)
MayStart  == Active = {} \/ Len(commit) <= MaxOverlap
MayCommit ==
    /\ Len(commit) < MaxCommit
    /\ Len(commit) < MaxOverlap \/ \A r, s \in Active : r = s

(* The common beginning: version and release notes are read in the clone,   *)
(* gh and origin are checked.  On a branch whose release.go does not        *)
(* compile, print-version fails and nothing happens.  "base" is the branch  *)
(* the workflow was started on: main (0) or a release branch.               *)
BranchHead(base) == IF base = 0 THEN main ELSE rel[base]

CloneFor(base) == BranchHead(base) # Nowhere /\ Compiles(BranchHead(base))

StartCandidate(r, base) ==
    LET c == BranchHead(base)
    IN /\ At(r, "idle")
       /\ MayStart
       /\ CloneFor(base)
       /\ run' = [run EXCEPT ![r] =
                    [pc     |-> "cloned",
                     cand   |-> PrintVersion(c),
                     onMain |-> base = 0,
                     head   |-> c,
                     here   |-> rel[PrintMajorMinor(c)],
                     known  |-> OriginTags]]
       /\ UNCHANGED <<origin, moved>>

StartRelease(r, base) ==
    LET c == BranchHead(base)
    IN /\ At(r, "idle")
       /\ MayStart
       /\ CloneFor(base)
       /\ run' = [run EXCEPT ![r] =
                    [pc   |-> "tagging",
                     name |-> <<PrintVersion(c), Final>>,
                     head |-> c,
                     main |-> main]]
       /\ UNCHANGED <<origin, moved>>

(* Mutant of PullMain: the script stays on main.                            *)
PullMainAndStay(r) ==
    LET s == run[r]
    IN /\ At(r, "cloned")
       /\ run' = [run EXCEPT ![r] =
                    [pc    |-> IF s.here = Nowhere THEN "creating" ELSE "opened",
                     cand  |-> s.cand,
                     head  |-> main,
                     main  |-> main,
                     known |-> s.known \cup Followed(main)]]
       /\ UNCHANGED <<origin, moved>>

(* git checkout main; git pull --ff-only origin main; git checkout -; then  *)
(* create_branch_from_if_doesnt_exist checks out the release branch if the  *)
(* clone has it.                                                            *)
PullMain(r) ==
    LET s == run[r]
    IN /\ At(r, "cloned")
       /\ run' = [run EXCEPT ![r] =
                    [pc    |-> IF s.here = Nowhere THEN "creating" ELSE "opened",
                     cand  |-> s.cand,
                     head  |-> IF s.here # Nowhere THEN s.here
                               ELSE IF s.onMain THEN main ELSE s.head,
                     main  |-> main,
                     known |-> s.known \cup Followed(main)]]
       /\ UNCHANGED <<origin, moved>>

(* Mutant of CreateBranch: the new branch is not pushed.                    *)
CreateBranchLocally(r) ==
    /\ At(r, "creating")
    /\ run' = [run EXCEPT ![r].pc = "opened"]
    /\ UNCHANGED <<origin, moved>>

(* Otherwise it makes the branch from where it is and pushes it.            *)
CreateBranch(r) ==
    LET v == run[r].cand
        c == run[r].head
    IN /\ At(r, "creating")
       /\ FastForward(rel[v], c)
       /\ rel' = [rel EXCEPT ![v] = c]
       /\ moved' = moved \cup {w \in {v} : rel[v] \notin {Nowhere, c}}
       /\ run' = [run EXCEPT ![r].pc = "opened"]
       /\ UNCHANGED <<commit, main, tag, bump>>

(* git describe --tags --abbrev=0: a tag of the nearest tagged commit.      *)
(* History is linear, so nearest is the largest number.  With several tags  *)
(* there git takes the youngest, to the second; here any of them is taken.  *)
Latest(head, known) ==
    LET reachable == {t \in known : tag[t] \in Reach(head)}
    IN {t \in reachable : \A u \in reachable : tag[u] <= tag[t]}

(* Mutant of NextPreReleaseID: tags of older versions count as well.        *)
NextPreReleaseIDOfAny(t, ver) == IF t[2] = Final THEN 0 ELSE t[2] + 1

DefaultReleaseCandidate == 0

(* nextPreReleaseID; ver is the version compiled into the generator.        *)
NextPreReleaseID(t, ver) ==
    IF t[1] < ver \/ t[2] = Final THEN DefaultReleaseCandidate ELSE t[2] + 1

(* next-pre-release-id, with the latest tag or without an argument.         *)
NextPreReleaseIDs(latest, ver) ==
    IF latest = {} THEN {DefaultReleaseCandidate}
    ELSE {NextPreReleaseID(t, ver) : t \in latest}

(* ensure_up_to_date of the release branch; if the pull fails, the script   *)
(* goes on with what it has.  Then the candidate gets its name.             *)
NameCandidate(r) ==
    LET s == run[r]
        h == rel[s.cand]
    IN /\ At(r, "opened")
       /\ \E head \in {s.head, IF h # Nowhere /\ s.head \in Reach(h) THEN h ELSE s.head} :
          LET known == s.known \cup IF head = h THEN Followed(h) ELSE {}
          IN /\ Compiles(head)
             /\ \E k \in NextPreReleaseIDs(Latest(head, known), PrintVersion(head)) :
                   /\ k <= MaxRC
                   /\ run' = [run EXCEPT ![r] = [pc   |-> "tagging",
                                                name |-> <<s.cand, k>>,
                                                head |-> head,
                                                main |-> s.main]]
       /\ UNCHANGED <<origin, moved>>

(* Mutant of PushV: its rejection is ignored.                               *)
PushVOrNot(r) ==
    /\ At(r, "vtagging")
    /\ tag' = [tag EXCEPT ![Vtag(run[r].name)] =
                  IF @ = Nowhere THEN run[r].head ELSE @]
    /\ run' = [run EXCEPT ![r].pc = "bumping"]
    /\ UNCHANGED <<commit, main, rel, bump, moved>>

(* Mutant of PushPlain: the name with "v" is pushed first.                  *)
PushVFirst(r) ==
    LET t == Vtag(run[r].name)
    IN /\ At(r, "tagging")
       /\ tag[t] = Nowhere
       /\ tag' = [tag EXCEPT ![t] = run[r].head]
       /\ run' = [run EXCEPT ![r].pc = "vtagging"]
       /\ UNCHANGED <<commit, main, rel, bump, moved>>

(* tag_and_push_release: the name without and then with "v".  git push      *)
(* fails on a name that origin has.                                         *)
PushPlain(r) ==
    LET t == Plain(run[r].name)
    IN /\ At(r, "tagging")
       /\ tag[t] = Nowhere
       /\ tag' = [tag EXCEPT ![t] = run[r].head]
       /\ run' = [run EXCEPT ![r].pc = "vtagging"]
       /\ UNCHANGED <<commit, main, rel, bump, moved>>

PushV(r) ==
    LET t == Vtag(run[r].name)
    IN /\ At(r, "vtagging")
       /\ tag[t] = Nowhere
       /\ tag' = [tag EXCEPT ![t] = run[r].head]
       /\ run' = [run EXCEPT ![r].pc = "bumping"]
       /\ UNCHANGED <<commit, main, rel, bump, moved>>

(* Mutant of Bump: the PR is opened before the tags are pushed.             *)
BumpFirst(r) ==
    LET c == run[r].main
    IN /\ At(r, "tagging")
       /\ Compiles(c)
       /\ IF PrintVersion(c) = run[r].name[1]
          THEN bump[c] = "none" /\ bump' = [bump EXCEPT ![c] = "open"]
          ELSE UNCHANGED bump
       /\ UNCHANGED <<commit, main, rel, tag, run, moved>>

(* bump_version_if_not_at, on the clone's main: if it still has the version *)
(* just tagged, a branch named after its head is pushed and a PR opened.    *)
Bump(r) ==
    LET c == run[r].main
    IN /\ At(r, "bumping")
       /\ Compiles(c)
       /\ IF PrintVersion(c) = run[r].name[1]
          THEN bump[c] = "none" /\ bump' = [bump EXCEPT ![c] = "open"]
          ELSE UNCHANGED bump
       /\ run' = [run EXCEPT ![r] = NotRunning]
       /\ UNCHANGED <<commit, main, rel, tag, moved>>

(* A name that exists, a rejected push, a failing git, gh or go run, a      *)
(* cancelled workflow.                                                      *)
Fail(r) ==
    /\ ~At(r, "idle")
    /\ run' = [run EXCEPT ![r] = NotRunning]
    /\ UNCHANGED <<origin, moved>>

-----------------------------------------------------------------------------
(* The publish workflow of a pushed name: GoReleaser creates the release    *)
(* "v<name>", and GitHub its tag at the head of main unless it is there.    *)
Publish(n) ==
    /\ tag[Plain(n)] # Nowhere
    /\ tag[Vtag(n)] = Nowhere
    /\ tag' = [tag EXCEPT ![Vtag(n)] = main]
    /\ UNCHANGED <<commit, main, rel, bump, run, moved>>

NewCommit(parent, v, d) ==
    commit' = Append(commit, [anc  |-> Reach(parent) \cup {Len(commit) + 1},
                              ver  |-> v,
                              decl |-> d])

(* Mutant of NextDevelopmentIteration: the PR's branch is bumped twice.     *)
NextIterationTwice(ver) == ver + 2

NextDevelopmentIteration(ver) == ver + 1

(* The PR is merged: the next minor version, in the file that               *)
(* writeVersionToFile generates.  If main is there already the change is    *)
(* void, and if main went elsewhere it conflicts.                           *)
MergeBump(c) ==
    LET next == NextDevelopmentIteration(commit[c].ver)
    IN /\ bump[c] = "open"
       /\ bump' = [bump EXCEPT ![c] = "merged"]
       /\ \/ /\ commit[main].ver = commit[c].ver
             /\ commit[c].ver < MaxVersion
             /\ MayCommit
             /\ NewCommit(main, next, Generated)
             /\ main' = Len(commit) + 1
          \/ /\ commit[main].ver = next
             /\ UNCHANGED <<commit, main>>
       /\ UNCHANGED <<rel, tag, run, moved>>

(* Developers' commits: they leave the version alone and may repair         *)
(* release.go by hand.                                                      *)
Develop(base) ==
    LET c == BranchHead(base)
    IN /\ c # Nowhere
       /\ MayCommit
       /\ \E d \in {commit[c].decl, Committed} : NewCommit(c, commit[c].ver, d)
       /\ IF base = 0
          THEN main' = Len(commit) + 1 /\ UNCHANGED rel
          ELSE rel' = [rel EXCEPT ![base] = Len(commit) + 1] /\ UNCHANGED main
       /\ UNCHANGED <<tag, bump, run, moved>>

Script(r) ==
    \/ \E base \in {0} \cup Version : StartCandidate(r, base) \/ StartRelease(r, base)
    \/ PullMain(r) \/ CreateBranch(r) \/ NameCandidate(r)
    \/ PushPlain(r) \/ PushV(r) \/ Bump(r) \/ Fail(r)

Next ==
    \/ \E r \in Run : Script(r)
    \/ \E n \in Name : Publish(n)
    \/ \E c \in Id : MergeBump(c)
    \/ \E base \in {0} \cup Version : Develop(base)

Spec == Init /\ [][Next]_vars

-----------------------------------------------------------------------------
Clone ==
    [pc : {"idle"}]
    \cup [pc : {"cloned"}, cand : Version, onMain : BOOLEAN, head : Id,
          here : {Nowhere} \cup Id, known : SUBSET Tag]
    \cup [pc : {"creating", "opened"}, cand : Version, head : Id, main : Id,
          known : SUBSET Tag]
    \cup [pc : {"tagging", "vtagging", "bumping"}, name : Name, head : Id, main : Id]

Commit == [anc : SUBSET Id, ver : Version, decl : {Committed, Generated}]

TypeOK ==
    /\ commit \in Seq(Commit)
    /\ Len(commit) <= MaxCommit
    /\ main \in 1..Len(commit)
    /\ rel \in [Version -> 0..Len(commit)]
    /\ tag \in [Tag -> 0..Len(commit)]
    /\ bump \in [Id -> {"none", "open", "merged"}]
    /\ run \in [Run -> Clone]
    /\ moved \subseteq Version

(* A version that is still in its candidates, with a release branch that no *)
(* later run "created" once more.                                           *)
Regular(v) == tag[Plain(<<v, Final>>)] = Nowhere /\ v \notin moved

(* The candidates of such a version are numbered from rc.0 without a gap,   *)
(* whatever runs overlap and wherever they fail; and each is put at or      *)
(* after the one before it, unless GitHub put the "v" name of that one      *)
(* somewhere else.                                                          *)
CandidatesContiguous ==
    \A v \in Version, k \in 1..MaxRC :
        LET this == tag[Plain(<<v, k>>)]
            last == tag[Plain(<<v, k - 1>>)]
        IN this # Nowhere /\ Regular(v) =>
              /\ last # Nowhere
              /\ tag[Vtag(<<v, k - 1>>)] \in {Nowhere, last} => last \in Reach(this)

(* A candidate's commit is on the release branch of its version.            *)
CandidateOnItsBranch ==
    \A v \in Version, k \in 0..MaxRC :
        LET c == tag[Plain(<<v, k>>)]
        IN c # Nowhere => rel[v] # Nowhere /\ c \in Reach(rel[v])

(* What is tagged 0.m.0-rc.k of such a version says itself that it is       *)
(* 0.m.0, although the version is read on one commit and the tag put on     *)
(* another, in a clone that other runs and merges overtake.                 *)
CandidateSaysVersion ==
    \A v \in Version, k \in 0..MaxRC :
        LET c == tag[Plain(<<v, k>>)]
        IN c # Nowhere /\ Regular(v) => commit[c].ver = v

(* main moves to a version only after the one before it was tagged.         *)
NoVersionSkipped ==
    \A v \in 1..(commit[main].ver - 1) :
        \E n \in Name : n[1] = v /\ tag[Plain(n)] # Nowhere

(* A run that gets as far as the version bump has put both of its names on  *)
(* one commit, although the publish workflow of the first name may create   *)
(* the second one elsewhere.                                                *)
NamesAgree ==
    \A r \in Run : At(r, "bumping") =>
        /\ tag[Plain(run[r].name)] = run[r].head
        /\ tag[Vtag(run[r].name)] = run[r].head

-----------------------------------------------------------------------------
(* The refinement mapping: origin without its commits.                      *)
Train == INSTANCE ReleaseTrain
            WITH dev       <- commit[main].ver,
                 branched  <- {v \in Version : rel[v] # Nowhere},
                 reopened  <- moved,
                 published <- {n \in Name : tag[Plain(n)] # Nowhere},
                 released  <- {n \in Name : tag[Vtag(n)] # Nowhere}

(* However runs of the scripts, the publish workflow and merges interleave  *)
(* and fail, names appear on origin in the order of ReleaseTrain, and none  *)
(* ever disappears.                                                         *)
ImplementsTrain == Train!Spec

-----------------------------------------------------------------------------
(* "create_branch_from_if_doesnt_exist": a run does not move a release      *)
(* branch that origin has.                                                  *)
CreatesOnlyIfAbsent ==
    [][\A r \in Run, v \in Version :
          At(r, "creating") /\ run'[r] # run[r] /\ rel'[v] # rel[v] =>
              rel[v] = Nowhere]_vars

(* release.go "was generated by release_generate.go": what the generator    *)
(* writes builds with the package it is part of.                            *)
GeneratedCompiles == \A c \in 1..Len(commit) : Compiles(c)

-----------------------------------------------------------------------------
(* The strengthening that makes the invariants inductive: history, what the *)
(* branches and tags of a version are, and what each run has found out.     *)
HistoryInv ==
    \A c \in 1..Len(commit) :
        /\ c \in Reach(c)
        /\ Reach(c) \subseteq 1..Len(commit)
        /\ commit[c].ver <= commit[main].ver
        /\ \A d \in Reach(c) :
              Reach(d) \subseteq Reach(c) /\ commit[d].ver <= commit[c].ver

(* A commit for candidates of version v: on its release branch, not older   *)
(* than the version, and of that version if it is regular.                  *)
Good(c, v) ==
    /\ c \in 1..Len(commit)
    /\ rel[v] # Nowhere /\ c \in Reach(rel[v])
    /\ commit[c].ver >= v
    /\ Regular(v) => commit[c].ver = v

(* Where candidate n may be put: after the one before it, unless that one's *)
(* two names are apart.                                                     *)
Placed(c, n) ==
    LET last  == tag[Plain(<<n[1], n[2] - 1>>)]
        vlast == tag[Vtag(<<n[1], n[2] - 1>>)]
    IN n[2] \in 1..MaxRC /\ Regular(n[1]) =>
          last # Nowhere /\ (last \in Reach(c) \/ vlast \notin {Nowhere, last})

TagInv ==
    /\ \A v \in Version : rel[v] # Nowhere => Good(rel[v], v)
    /\ \A t \in Tag : tag[t] # Nowhere => commit[tag[t]].ver >= t[1]
    /\ \A n \in Name : tag[Vtag(n)] # Nowhere => tag[Plain(n)] # Nowhere
    /\ \A n \in Name : n[2] # Final /\ tag[Plain(n)] # Nowhere =>
          Good(tag[Plain(n)], n[1]) /\ Placed(tag[Plain(n)], n)

Tagged(v) == \E n \in Name : n[1] = v /\ tag[Plain(n)] # Nowhere

BumpInv ==
    /\ \A c \in Id : bump[c] # "none" => c <= Len(commit) /\ Tagged(commit[c].ver)
    /\ NoVersionSkipped

(* A clone that is to make the release branch: if its commit is of a later  *)
(* version, another run has tagged the version meanwhile.                   *)
Overtaken(c, v) ==
    /\ c \in 1..Len(commit)
    /\ commit[c].ver >= v
    /\ commit[c].ver > v => tag[Plain(<<v, Final>>)] # Nowhere \/ rel[v] # Nowhere

(* What a run has found out so far.                                         *)
Found(s) ==
    /\ s.pc = "cloned" =>
          /\ s.head \in 1..Len(commit) /\ commit[s.head].ver = s.cand
          /\ s.here # Nowhere => Good(s.here, s.cand)
    /\ s.pc = "creating" => Overtaken(s.head, s.cand)
    /\ s.pc = "opened" => Good(s.head, s.cand)
    /\ s.pc \in {"cloned", "creating", "opened"} => s.known \subseteq OriginTags
    /\ s.pc \in {"creating", "opened", "tagging", "vtagging", "bumping"} =>
          s.main \in 1..Len(commit)
    /\ s.pc \in {"tagging", "vtagging", "bumping"} =>
          /\ s.head \in 1..Len(commit) /\ commit[s.head].ver >= s.name[1]
          /\ s.name[2] # Final => Good(s.head, s.name[1]) /\ Placed(s.head, s.name)
    /\ s.pc \in {"vtagging", "bumping"} => tag[Plain(s.name)] = s.head
    /\ s.pc = "bumping" => tag[Vtag(s.name)] = s.head

ReleaseInv == HistoryInv /\ TagInv /\ BumpInv /\ \A r \in Run : Found(run[r])
=============================================================================
