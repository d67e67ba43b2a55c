---------------------------- MODULE ReleaseProofs ----------------------------
(* Theorems about the release scripts, for any number of runs, commits,     *)
(* versions and candidates.                                                 *)
EXTENDS Release, TLAPS

Inv == TypeOK /\ ReleaseInv

-----------------------------------------------------------------------------
(* What the types say of commits, tags and the places of a run.             *)
LEMMA CommitFacts ==
    ASSUME TypeOK
    PROVE  /\ Len(commit) \in Nat /\ Len(commit) <= MaxCommit
           /\ \A c \in 1..Len(commit) : /\ c \in Id
                                        /\ commit[c] \in Commit
                                        /\ commit[c].ver \in Version
                                        /\ Reach(c) \subseteq Id
           /\ main \in 1..Len(commit)
           /\ \A v \in Version : rel[v] # Nowhere => rel[v] \in 1..Len(commit)
           /\ \A t \in Tag : tag[t] # Nowhere => tag[t] \in 1..Len(commit)
           /\ MaxCommit \in Nat /\ Version \subseteq Nat
<1>1. /\ Len(commit) \in Nat /\ Len(commit) <= MaxCommit
      /\ MaxCommit \in Nat /\ Version \subseteq Nat
      /\ main \in 1..Len(commit)
      /\ commit \in Seq(Commit)
  BY BoundAssumption DEF TypeOK, Version
<1>2. ASSUME NEW c \in 1..Len(commit)
      PROVE  /\ c \in Id
             /\ commit[c] \in Commit
             /\ commit[c].ver \in Version
             /\ Reach(c) \subseteq Id
  <2>1. c \in Id
    BY <1>1 DEF Id
  <2>2. commit[c] \in Commit
    BY <1>1
  <2>3. QED
    BY <2>1, <2>2 DEF Commit, Reach
<1>3. \A v \in Version : rel[v] # Nowhere => rel[v] \in 1..Len(commit)
  BY <1>1 DEF TypeOK, Nowhere
<1>4. \A t \in Tag : tag[t] # Nowhere => tag[t] \in 1..Len(commit)
  BY <1>1 DEF TypeOK, Nowhere
<1>5. QED
  BY <1>1, <1>2, <1>3, <1>4

LEMMA NameFacts ==
    /\ \A n \in Name : /\ n[1] \in Version /\ n[2] \in {Final} \cup 0..MaxRC
                       /\ n = <<n[1], n[2]>>
                       /\ Plain(n) \in Tag /\ Vtag(n) \in Tag /\ Plain(n) # Vtag(n)
    /\ \A v \in Version, k \in {Final} \cup 0..MaxRC : <<v, k>> \in Name
    /\ \A t \in Tag : /\ t[1] \in Version /\ t[2] \in {Final} \cup 0..MaxRC
                      /\ \E n \in Name : n = <<t[1], t[2]>> /\ t \in {Plain(n), Vtag(n)}
    /\ \A n, m \in Name : /\ Plain(n) = Plain(m) => n = m
                          /\ Vtag(n) = Vtag(m) => n = m
                          /\ Plain(n) # Vtag(m)
<1>1. \A n \in Name : /\ n[1] \in Version /\ n[2] \in {Final} \cup 0..MaxRC
                     /\ n = <<n[1], n[2]>>
  BY DEF Name
<1>2. \A n \in Name : Plain(n) \in Tag /\ Vtag(n) \in Tag
  BY <1>1 DEF Tag, Plain, Vtag
<1>3. \A v \in Version, k \in {Final} \cup 0..MaxRC : <<v, k>> \in Name
  BY DEF Name
<1>4. ASSUME NEW t \in Tag
      PROVE  /\ t[1] \in Version /\ t[2] \in {Final} \cup 0..MaxRC
             /\ \E n \in Name : n = <<t[1], t[2]>> /\ t \in {Plain(n), Vtag(n)}
  <2>1. /\ t[1] \in Version /\ t[2] \in {Final} \cup 0..MaxRC
        /\ t[3] \in {"plain", "v"} /\ t = <<t[1], t[2], t[3]>>
    BY DEF Tag
  <2>2. <<t[1], t[2]>> \in Name
    BY <2>1, <1>3
  <2>3. t \in {Plain(<<t[1], t[2]>>), Vtag(<<t[1], t[2]>>)}
    BY <2>1 DEF Plain, Vtag
  <2>4. QED
    BY <2>1, <2>2, <2>3
<1>5. ASSUME NEW n \in Name, NEW m \in Name
      PROVE  /\ Plain(n) = Plain(m) => n = m
             /\ Vtag(n) = Vtag(m) => n = m
             /\ Plain(n) # Vtag(m)
  <2>1. n = <<n[1], n[2]>> /\ m = <<m[1], m[2]>>
    BY <1>1
  <2>2. Plain(n) = Plain(m) => n[1] = m[1] /\ n[2] = m[2]
    BY DEF Plain
  <2>3. Vtag(n) = Vtag(m) => n[1] = m[1] /\ n[2] = m[2]
    BY DEF Vtag
  <2>4. Plain(n) # Vtag(m)
    BY DEF Plain, Vtag
  <2>5. QED
    BY <2>1, <2>2, <2>3, <2>4
<1>6. QED
  BY <1>1, <1>2, <1>3, <1>4, <1>5

LEMMA RunFacts ==
    ASSUME TypeOK, NEW r \in Run
    PROVE  /\ run[r] \in Clone
           /\ run[r].pc = "cloned" =>
                 run[r] \in [pc : {"cloned"}, cand : Version, onMain : BOOLEAN,
                             head : Id, here : {Nowhere} \cup Id, known : SUBSET Tag]
           /\ run[r].pc \in {"creating", "opened"} =>
                 run[r] \in [pc : {"creating", "opened"}, cand : Version, head : Id,
                             main : Id, known : SUBSET Tag]
           /\ run[r].pc \in {"tagging", "vtagging", "bumping"} =>
                 run[r] \in [pc : {"tagging", "vtagging", "bumping"}, name : Name,
                             head : Id, main : Id]
BY DEF TypeOK, Clone

-----------------------------------------------------------------------------
(* What every step leaves in place: commits, their order on the branches,   *)
(* tags, and the version main has reached.                                  *)
Grows ==
    /\ Len(commit) <= Len(commit')
    /\ \A c \in 1..Len(commit) : commit'[c] = commit[c]
    /\ commit[main].ver <= commit'[main'].ver
    /\ \A v \in Version : rel[v] # Nowhere =>
          rel'[v] # Nowhere /\ rel[v] \in commit'[rel'[v]].anc
    /\ \A t \in Tag : tag[t] # Nowhere => tag'[t] = tag[t]
    /\ moved \subseteq moved'

LEMMA RegularShrinks ==
    ASSUME Grows, NEW v \in Version
    PROVE  Regular(v)' => Regular(v)
<1>1. Plain(<<v, Final>>) \in Tag
  BY NameFacts
<1>2. tag'[Plain(<<v, Final>>)] = Nowhere => tag[Plain(<<v, Final>>)] = Nowhere
  BY <1>1 DEF Grows
<1>3. QED
  BY <1>2 DEF Grows, Regular, Plain

LEMMA GoodGrows ==
    ASSUME TypeOK, TypeOK', HistoryInv, HistoryInv', Grows, NEW v \in Version, NEW c,
           Good(c, v)
    PROVE  Good(c, v)'
<1>1. c \in 1..Len(commit) /\ c \in 1..Len(commit') /\ commit'[c] = commit[c]
  <2>1. Len(commit) \in Nat /\ Len(commit') \in Nat
    BY DEF TypeOK
  <2>2. QED
    BY <2>1 DEF Good, Grows
<1>2. rel[v] \in 1..Len(commit) /\ commit'[rel[v]] = commit[rel[v]]
  BY CommitFacts DEF Good, Grows
<1>3. rel'[v] # Nowhere /\ rel'[v] \in 1..Len(commit') /\ rel[v] \in commit'[rel'[v]].anc
  <2>1. rel'[v] # Nowhere /\ rel[v] \in commit'[rel'[v]].anc
    BY DEF Good, Grows
  <2>2. rel'[v] \in 0..Len(commit') /\ Len(commit') \in Nat
    BY DEF TypeOK
  <2>3. QED
    BY <2>1, <2>2 DEF Nowhere
<1>4. c \in commit'[rel[v]].anc
  BY <1>2 DEF Good, Reach
<1>5. commit'[rel[v]].anc \subseteq commit'[rel'[v]].anc
  BY <1>3 DEF HistoryInv, Reach
<1>6. Regular(v)' => commit'[c].ver = v
  BY <1>1, RegularShrinks DEF Good
<1>7. QED
  BY <1>1, <1>3, <1>4, <1>5, <1>6 DEF Good, Reach

LEMMA PlacedGrows ==
    ASSUME TypeOK, Grows, NEW n \in Name, NEW c \in 1..Len(commit), Placed(c, n)
    PROVE  Placed(c, n)'
<1> SUFFICES ASSUME n[2] \in 1..MaxRC, Regular(n[1])'
             PROVE  LET last  == tag'[Plain(<<n[1], n[2] - 1>>)]
                        vlast == tag'[Vtag(<<n[1], n[2] - 1>>)]
                    IN last # Nowhere /\ (last \in commit'[c].anc \/ vlast \notin {Nowhere, last})
  BY DEF Placed, Reach, Plain, Vtag
<1> DEFINE m == <<n[1], n[2] - 1>>
<1>1. m \in Name /\ Plain(m) \in Tag /\ Vtag(m) \in Tag /\ n[1] \in Version
  <2>1. n[1] \in Version /\ n[2] - 1 \in 0..MaxRC
    BY NameFacts, BoundAssumption
  <2>2. QED
    BY <2>1, NameFacts
<1>2. Regular(n[1])
  BY <1>1, RegularShrinks
<1>3. /\ tag[Plain(m)] # Nowhere
      /\ tag[Plain(m)] \in Reach(c) \/ tag[Vtag(m)] \notin {Nowhere, tag[Plain(m)]}
  BY <1>2 DEF Placed
<1>4. /\ tag'[Plain(m)] = tag[Plain(m)]
      /\ tag[Vtag(m)] # Nowhere => tag'[Vtag(m)] = tag[Vtag(m)]
      /\ commit'[c] = commit[c]
  BY <1>1, <1>3 DEF Grows
<1>5. QED
  BY <1>3, <1>4 DEF Reach

LEMMA FoundGrows ==
    ASSUME TypeOK, TypeOK', HistoryInv, HistoryInv', Grows, NEW s \in Clone, Found(s)
    PROVE  Found(s)'
<1>0. /\ s.pc \in {"cloned", "creating", "opened"} => s.cand \in Version
      /\ s.pc \in {"tagging", "vtagging", "bumping"} => s.name \in Name
      /\ s.pc \in {"cloned", "creating", "opened"} => s.known \subseteq Tag
  BY DEF Clone
<1>1. \A c \in 1..Len(commit) : c \in 1..Len(commit') /\ commit'[c] = commit[c]
  BY CommitFacts DEF Grows, TypeOK
<1>2. s.pc = "cloned" =>
         /\ s.head \in 1..Len(commit') /\ commit'[s.head].ver = s.cand
         /\ s.here # Nowhere => Good(s.here, s.cand)'
  BY <1>0, <1>1, GoodGrows DEF Found
<1>3. s.pc = "creating" => Overtaken(s.head, s.cand)'
  <2> SUFFICES ASSUME s.pc = "creating" PROVE Overtaken(s.head, s.cand)'
    OBVIOUS
  <2>1. Overtaken(s.head, s.cand) /\ s.cand \in Version
    BY <1>0 DEF Found
  <2>2. Plain(<<s.cand, Final>>) \in Tag
    BY <2>1, NameFacts
  <2>3. QED
    BY <1>1, <2>1, <2>2 DEF Overtaken, Grows, Plain
<1>4. s.pc = "opened" => Good(s.head, s.cand)'
  BY <1>0, GoodGrows DEF Found
<1>5. s.pc \in {"cloned", "creating", "opened"} => s.known \subseteq OriginTags'
  BY <1>0 DEF Found, OriginTags, Grows
<1>6. s.pc \in {"creating", "opened", "tagging", "vtagging", "bumping"} =>
         s.main \in 1..Len(commit')
  BY <1>1 DEF Found
<1>7. s.pc \in {"tagging", "vtagging", "bumping"} =>
         /\ s.head \in 1..Len(commit') /\ commit'[s.head].ver >= s.name[1]
         /\ s.name[2] # Final => Good(s.head, s.name[1])' /\ Placed(s.head, s.name)'
  <2> SUFFICES ASSUME s.pc \in {"tagging", "vtagging", "bumping"}
               PROVE  /\ s.head \in 1..Len(commit') /\ commit'[s.head].ver >= s.name[1]
                      /\ s.name[2] # Final =>
                            Good(s.head, s.name[1])' /\ Placed(s.head, s.name)'
    OBVIOUS
  <2>1. s.name \in Name /\ s.name[1] \in Version
    BY <1>0, NameFacts
  <2>2. s.head \in 1..Len(commit) /\ commit[s.head].ver >= s.name[1]
    BY DEF Found
  <2>3. s.name[2] # Final => Good(s.head, s.name[1]) /\ Placed(s.head, s.name)
    BY DEF Found
  <2>4. QED
    BY <1>1, <2>1, <2>2, <2>3, GoodGrows, PlacedGrows
<1>8. /\ s.pc \in {"vtagging", "bumping"} => tag'[Plain(s.name)] = s.head
      /\ s.pc = "bumping" => tag'[Vtag(s.name)] = s.head
  <2> SUFFICES ASSUME s.pc \in {"vtagging", "bumping"}
               PROVE  /\ tag'[Plain(s.name)] = s.head
                      /\ s.pc = "bumping" => tag'[Vtag(s.name)] = s.head
    OBVIOUS
  <2>1. Plain(s.name) \in Tag /\ Vtag(s.name) \in Tag
    BY <1>0, NameFacts
  <2>2. /\ s.head \in 1..Len(commit) /\ tag[Plain(s.name)] = s.head
        /\ s.pc = "bumping" => tag[Vtag(s.name)] = s.head
    BY DEF Found
  <2>3. s.head # Nowhere
    BY <2>2, CommitFacts DEF Nowhere
  <2>4. QED
    BY <2>1, <2>2, <2>3 DEF Grows
<1>9. QED
  BY <1>2, <1>3, <1>4, <1>5, <1>6, <1>7, <1>8 DEF Found, Plain, Vtag
-----------------------------------------------------------------------------
(* TypeOK without the runs, which a step of the repository leaves alone.    *)
OriginOK ==
    /\ commit \in Seq(Commit)
    /\ Len(commit) <= MaxCommit
    /\ main \in 1..Len(commit)
    /\ rel \in [Version -> 0..Len(commit)]
    /\ tag \in [Tag -> 0..Len(commit)]
    /\ bump \in [Id -> {"none", "open", "merged"}]
    /\ moved \subseteq Version

(* What held of the branches, tags and pull requests there were holds after *)
(* a step.                                                                  *)
LEMMA OldStays ==
    ASSUME Inv, TypeOK', HistoryInv', Grows
    PROVE  /\ \A v \in Version : rel[v] # Nowhere /\ rel'[v] = rel[v] => Good(rel[v], v)'
           /\ \A t \in Tag : tag[t] # Nowhere =>
                 tag'[t] = tag[t] /\ commit'[tag'[t]].ver >= t[1]
           /\ \A n \in Name : tag[Vtag(n)] # Nowhere => tag'[Plain(n)] # Nowhere
           /\ \A n \in Name : n[2] # Final /\ tag[Plain(n)] # Nowhere =>
                 Good(tag[Plain(n)], n[1])' /\ Placed(tag[Plain(n)], n)'
           /\ \A c \in Id : bump[c] # "none" =>
                 /\ c \in 1..Len(commit) /\ c <= Len(commit')
                 /\ \E n \in Name : n[1] = commit'[c].ver /\ tag'[Plain(n)] # Nowhere
           /\ \A v \in 1..(commit[main].ver - 1) :
                 \E n \in Name : n[1] = v /\ tag'[Plain(n)] # Nowhere
<1> USE DEF Inv, ReleaseInv
<1>1. ASSUME NEW v \in Version, rel[v] # Nowhere, rel'[v] = rel[v]
      PROVE  Good(rel[v], v)'
  <2>1. PICK c : c = rel[v]
    OBVIOUS
  <2>2. Good(c, v)
    BY <1>1, <2>1 DEF TagInv
  <2>3. Good(c, v)'
    BY <2>2, GoodGrows
  <2>4. c = rel'[v]
    BY <1>1, <2>1
  <2>5. QED
    BY <2>3, <2>4
<1>2. ASSUME NEW t \in Tag, tag[t] # Nowhere
      PROVE  tag'[t] = tag[t] /\ commit'[tag'[t]].ver >= t[1]
  <2>1. tag'[t] = tag[t] /\ tag[t] \in 1..Len(commit)
    BY <1>2, CommitFacts DEF Grows
  <2>2. commit'[tag[t]] = commit[tag[t]]
    BY <2>1 DEF Grows
  <2>3. QED
    BY <1>2, <2>1, <2>2 DEF TagInv
<1>3. \A n \in Name : tag[Plain(n)] # Nowhere => tag'[Plain(n)] = tag[Plain(n)]
  BY <1>2, NameFacts
<1>4. \A n \in Name : tag[Vtag(n)] # Nowhere => tag'[Plain(n)] # Nowhere
  BY <1>3 DEF TagInv
<1>5. ASSUME NEW n \in Name, n[2] # Final, tag[Plain(n)] # Nowhere
      PROVE  Good(tag[Plain(n)], n[1])' /\ Placed(tag[Plain(n)], n)'
  <2>1. PICK c : c = tag[Plain(n)]
    OBVIOUS
  <2>2. Good(c, n[1]) /\ Placed(c, n)
    BY <1>5, <2>1 DEF TagInv
  <2>3. c \in 1..Len(commit) /\ n[1] \in Version
    BY <2>2, NameFacts DEF Good
  <2>4. Good(c, n[1])' /\ Placed(c, n)'
    BY <2>2, <2>3, GoodGrows, PlacedGrows
  <2>5. c = tag'[Plain(n)]
    BY <1>3, <1>5, <2>1
  <2>6. QED
    BY <2>4, <2>5 DEF Plain
<1>6. \A v : Tagged(v) => \E n \in Name : n[1] = v /\ tag'[Plain(n)] # Nowhere
  BY <1>3 DEF Tagged
<1>7. ASSUME NEW c \in Id, bump[c] # "none"
      PROVE  /\ c \in 1..Len(commit) /\ c <= Len(commit')
             /\ \E n \in Name : n[1] = commit'[c].ver /\ tag'[Plain(n)] # Nowhere
  <2>1. c <= Len(commit) /\ Tagged(commit[c].ver)
    BY <1>7 DEF BumpInv
  <2>2. c \in 1..Len(commit) /\ Len(commit') \in Nat /\ Len(commit) \in Nat
    BY <2>1, CommitFacts DEF Id, TypeOK
  <2>3. commit'[c] = commit[c] /\ c <= Len(commit')
    BY <2>2 DEF Grows
  <2>4. QED
    BY <1>6, <2>1, <2>2, <2>3
<1>8. \A v \in 1..(commit[main].ver - 1) :
         \E n \in Name : n[1] = v /\ tag'[Plain(n)] # Nowhere
  BY <1>3 DEF BumpInv, NoVersionSkipped
<1>9. QED
  BY <1>1, <1>2, <1>4, <1>5, <1>7, <1>8

(* A step of one run, which leaves it with s.                               *)
LEMMA RunsStay ==
    ASSUME Inv, TypeOK', HistoryInv', Grows, NEW r \in Run, NEW s \in Clone,
           run' = [run EXCEPT ![r] = s], Found(s)'
    PROVE  \A q \in Run : Found(run[q])'
<1> SUFFICES ASSUME NEW q \in Run PROVE Found(run[q])'
  OBVIOUS
<1>1. PICK x : x = run'[q]
  OBVIOUS
<1>2. run \in [Run -> Clone]
  BY DEF Inv, TypeOK
<1>3. CASE q = r
  <2>1. x = s
    BY <1>1, <1>2, <1>3
  <2>2. Found(x)'
    BY <2>1
  <2>3. QED
    BY <1>1, <2>2
<1>4. CASE q # r
  <2>1. x = run[q] /\ x \in Clone
    BY <1>1, <1>2, <1>4
  <2>2. Found(x)
    BY <2>1 DEF Inv, ReleaseInv
  <2>3. Found(x)'
    BY <2>1, <2>2, FoundGrows DEF Inv, ReleaseInv
  <2>4. QED
    BY <1>1, <2>3
<1>5. QED
  BY <1>3, <1>4

(* A step that leaves the runs alone.                                       *)
LEMMA AllRunsStay ==
    ASSUME Inv, TypeOK', HistoryInv', Grows, run' = run
    PROVE  \A q \in Run : Found(run[q])'
<1> SUFFICES ASSUME NEW q \in Run PROVE Found(run[q])'
  OBVIOUS
<1>1. PICK x : x = run'[q]
  OBVIOUS
<1>2. x = run[q] /\ x \in Clone /\ Found(x)
  BY <1>1 DEF Inv, TypeOK, ReleaseInv
<1>3. Found(x)'
  BY <1>2, FoundGrows DEF Inv, ReleaseInv
<1>4. QED
  BY <1>1, <1>3

(* A step of one run in its clone.                                          *)
LEMMA CloneStep ==
    ASSUME Inv, UNCHANGED <<origin, moved>>, NEW r \in Run, NEW s \in Clone,
           run' = [run EXCEPT ![r] = s], Found(s)
    PROVE  Inv'
<1> USE DEF Inv, ReleaseInv
<1>1. TypeOK'
  BY DEF TypeOK, origin
<1>2. HistoryInv' /\ TagInv' /\ BumpInv'
  BY DEF origin, HistoryInv, TagInv, BumpInv, NoVersionSkipped, Tagged, Good, Placed,
         Regular, Reach
<1>3. Grows
  <2>1. commit[main].ver \in Version /\ Version \subseteq Nat /\ Len(commit) \in Nat
    BY CommitFacts
  <2>2. \A v \in Version : rel[v] # Nowhere => rel[v] \in commit[rel[v]].anc
    BY CommitFacts DEF HistoryInv, Reach
  <2>3. QED
    BY <2>1, <2>2 DEF Grows, origin
<1>4. Found(s)'
  BY <1>1, <1>2, <1>3, FoundGrows
<1>5. \A q \in Run : Found(run[q])'
  BY <1>1, <1>2, <1>3, <1>4, RunsStay
<1>6. QED
  BY <1>1, <1>2, <1>5
-----------------------------------------------------------------------------
(* Steps of a run in its clone.                                             *)
LEMMA BranchHeadFacts ==
    ASSUME Inv, NEW base \in {0} \cup Version, BranchHead(base) # Nowhere
    PROVE  BranchHead(base) \in 1..Len(commit)
BY CommitFacts DEF BranchHead, Inv

LEMMA StartCandidateInv ==
    ASSUME Inv, NEW r \in Run, NEW base \in {0} \cup Version, StartCandidate(r, base)
    PROVE  Inv'
<1>1. PICK c : c = BranchHead(base)
  OBVIOUS
<1>2. c \in 1..Len(commit)
  BY <1>1, BranchHeadFacts DEF StartCandidate, CloneFor
<1>3. c \in Id /\ commit[c].ver \in Version
  BY <1>2, CommitFacts DEF Inv
<1>4. PICK s : s = [pc     |-> "cloned",
                    cand   |-> commit[c].ver,
                    onMain |-> base = 0,
                    head   |-> c,
                    here   |-> rel[commit[c].ver],
                    known  |-> OriginTags]
  OBVIOUS
<1>5. run' = [run EXCEPT ![r] = s] /\ UNCHANGED <<origin, moved>>
  BY <1>1, <1>4 DEF StartCandidate, PrintVersion, PrintMajorMinor
<1>6. rel[commit[c].ver] \in {Nowhere} \cup Id
  BY <1>3, CommitFacts DEF Inv, Id
<1>7. s \in Clone
  <2>1. s \in [pc : {"cloned"}, cand : Version, onMain : BOOLEAN, head : Id,
               here : {Nowhere} \cup Id, known : SUBSET Tag]
    BY <1>3, <1>4, <1>6 DEF OriginTags
  <2>2. QED
    BY <2>1 DEF Clone
<1>8. rel[commit[c].ver] # Nowhere => Good(rel[commit[c].ver], commit[c].ver)
  BY <1>3 DEF Inv, ReleaseInv, TagInv
<1>9. Found(s)
  BY <1>2, <1>4, <1>8 DEF Found
<1>10. QED
  BY <1>5, <1>7, <1>9, CloneStep

LEMMA StartReleaseInv ==
    ASSUME Inv, NEW r \in Run, NEW base \in {0} \cup Version, StartRelease(r, base)
    PROVE  Inv'
<1>1. PICK c : c = BranchHead(base)
  OBVIOUS
<1>2. c \in 1..Len(commit)
  BY <1>1, BranchHeadFacts DEF StartRelease, CloneFor
<1>3. c \in Id /\ commit[c].ver \in Version /\ main \in 1..Len(commit) /\ main \in Id
      /\ Version \subseteq Nat
  BY <1>2, CommitFacts DEF Inv
<1>4. PICK s : s = [pc |-> "tagging", name |-> <<commit[c].ver, Final>>,
                    head |-> c, main |-> main]
  OBVIOUS
<1>5. run' = [run EXCEPT ![r] = s] /\ UNCHANGED <<origin, moved>>
  BY <1>1, <1>4 DEF StartRelease, PrintVersion
<1>6. <<commit[c].ver, Final>> \in Name
  BY <1>3, NameFacts
<1>7. s \in Clone
  <2>1. s \in [pc : {"tagging", "vtagging", "bumping"}, name : Name, head : Id, main : Id]
    BY <1>3, <1>4, <1>6
  <2>2. QED
    BY <2>1 DEF Clone
<1>8. Found(s)
  <2>1. commit[c].ver \in Nat
    BY <1>3
  <2>2. commit[c].ver >= commit[c].ver
    BY <2>1
  <2>3. s.name[1] = commit[c].ver /\ s.name[2] = Final
    BY <1>4
  <2>4. QED
    BY <1>2, <1>3, <1>4, <2>2, <2>3 DEF Found
<1>9. QED
  BY <1>5, <1>7, <1>8, CloneStep

LEMMA FailInv ==
    ASSUME Inv, NEW r \in Run, Fail(r)
    PROVE  Inv'
<1>1. NotRunning \in Clone /\ Found(NotRunning)
  BY DEF Clone, NotRunning, Found
<1>2. QED
  BY <1>1, CloneStep DEF Fail

(* The version of the clone was that of a branch; if main has left it, the  *)
(* version was tagged, and as a candidate only on its release branch.       *)
LEMMA MainOvertakes ==
    ASSUME Inv, NEW v \in Version, commit[main].ver >= v
    PROVE  Overtaken(main, v)
<1>1. /\ main \in 1..Len(commit) /\ commit[main].ver \in Version
      /\ Version \subseteq Nat
  BY CommitFacts DEF Inv
<1>2. ASSUME commit[main].ver > v
      PROVE  tag[Plain(<<v, Final>>)] # Nowhere \/ rel[v] # Nowhere
  <2>1. v \in 1..(commit[main].ver - 1)
    BY <1>1, <1>2, BoundAssumption DEF Version
  <2>2. PICK n \in Name : n[1] = v /\ tag[Plain(n)] # Nowhere
    BY <2>1 DEF Inv, ReleaseInv, BumpInv, NoVersionSkipped
  <2>3. CASE n[2] = Final
    <3>1. n = <<v, Final>>
      BY <2>2, <2>3, NameFacts
    <3>2. QED
      BY <2>2, <3>1
  <2>4. CASE n[2] # Final
    BY <2>2, <2>4 DEF Inv, ReleaseInv, TagInv, Good
  <2>5. QED
    BY <2>3, <2>4
<1>3. QED
  BY <1>1, <1>2 DEF Overtaken

LEMMA PullMainInv ==
    ASSUME Inv, NEW r \in Run, PullMain(r)
    PROVE  Inv'
<1>1. PICK o : o = run[r]
  OBVIOUS
<1>2. /\ o.pc = "cloned" /\ o.cand \in Version /\ o.head \in Id
      /\ o.here \in {Nowhere} \cup Id /\ o.known \subseteq Tag /\ Found(o)
  BY <1>1, RunFacts DEF PullMain, At, Inv, ReleaseInv
<1>3. /\ o.head \in 1..Len(commit) /\ commit[o.head].ver = o.cand
      /\ o.here # Nowhere => Good(o.here, o.cand)
      /\ o.known \subseteq OriginTags
  BY <1>2 DEF Found
<1>4. /\ main \in 1..Len(commit) /\ main \in Id /\ Version \subseteq Nat
      /\ commit[o.head].ver <= commit[main].ver
  BY <1>3, CommitFacts DEF Inv, ReleaseInv, HistoryInv
<1>5. PICK s : s = [pc    |-> IF o.here = Nowhere THEN "creating" ELSE "opened",
                    cand  |-> o.cand,
                    head  |-> IF o.here # Nowhere THEN o.here
                              ELSE IF o.onMain THEN main ELSE o.head,
                    main  |-> main,
                    known |-> o.known \cup Followed(main)]
  OBVIOUS
<1>6. run' = [run EXCEPT ![r] = s] /\ UNCHANGED <<origin, moved>>
  BY <1>1, <1>5 DEF PullMain
<1>7. o.known \cup Followed(main) \subseteq OriginTags
  BY <1>3 DEF Followed, OriginTags
<1>8. s \in Clone
  <2>1. s \in [pc : {"creating", "opened"}, cand : Version, head : Id, main : Id,
               known : SUBSET Tag]
    BY <1>2, <1>4, <1>5, <1>7 DEF OriginTags
  <2>2. QED
    BY <2>1 DEF Clone
<1>9. Overtaken(main, o.cand)
  BY <1>2, <1>3, <1>4, MainOvertakes
<1>10. Overtaken(o.head, o.cand)
  <2>1. commit[o.head].ver \in Nat
    BY <1>2, <1>3, <1>4
  <2>2. commit[o.head].ver >= o.cand /\ ~(commit[o.head].ver > o.cand)
    BY <1>3, <2>1
  <2>3. QED
    BY <1>3, <2>2 DEF Overtaken
<1>11. Found(s)
  <2>1. CASE o.here = Nowhere
    BY <1>4, <1>5, <1>7, <1>9, <1>10, <2>1 DEF Found
  <2>2. CASE o.here # Nowhere
    BY <1>3, <1>4, <1>5, <1>7, <2>2 DEF Found
  <2>3. QED
    BY <2>1, <2>2
<1>12. QED
  BY <1>6, <1>8, <1>11, CloneStep

(* The number after the latest tag: of the candidates of the version, the   *)
(* one before it is there.                                                  *)
LEMMA NextIsPlaced ==
    ASSUME Inv, NEW v \in Version, NEW head, Good(head, v),
           NEW known \in SUBSET Tag, known \subseteq OriginTags,
           NEW k \in NextPreReleaseIDs(Latest(head, known), commit[head].ver),
           k <= MaxRC
    PROVE  k \in 0..MaxRC /\ Placed(head, <<v, k>>)
<1>1. /\ head \in 1..Len(commit) /\ commit[head].ver \in Version
      /\ Version \subseteq Nat /\ MaxRC \in Nat
  BY CommitFacts, BoundAssumption DEF Good, Inv
<1>2. CASE k = 0
  BY <1>1, <1>2 DEF Placed
<1>3. CASE k # 0
  <2>1. PICK t \in Latest(head, known) : k = NextPreReleaseID(t, commit[head].ver)
    BY <1>3 DEF NextPreReleaseIDs, DefaultReleaseCandidate
  <2>2. t \in Tag /\ tag[t] # Nowhere /\ tag[t] \in Reach(head)
    BY <2>1 DEF Latest, OriginTags
  <2>3. /\ t[1] \in Version /\ t[2] \in {Final} \cup 0..MaxRC
        /\ \E n \in Name : n = <<t[1], t[2]>> /\ t \in {Plain(n), Vtag(n)}
    BY <2>2, NameFacts
  <2>4. t[1] >= commit[head].ver /\ t[2] \in 0..MaxRC /\ k = t[2] + 1
    BY <1>1, <1>3, <2>1, <2>3 DEF NextPreReleaseID, DefaultReleaseCandidate
  <2>5. k \in 1..MaxRC
    BY <1>1, <2>4
  <2>6. ASSUME Regular(v)
        PROVE  /\ tag[Plain(<<v, k - 1>>)] # Nowhere
               /\ \/ tag[Plain(<<v, k - 1>>)] \in Reach(head)
                  \/ tag[Vtag(<<v, k - 1>>)] \notin {Nowhere, tag[Plain(<<v, k - 1>>)]}
    <3>1. commit[head].ver = v
      BY <2>6 DEF Good
    <3>2. commit[tag[t]].ver >= t[1] /\ commit[tag[t]].ver <= commit[head].ver
      BY <1>1, <2>2 DEF Inv, ReleaseInv, TagInv, HistoryInv
    <3>3. tag[t] \in 1..Len(commit) /\ commit[tag[t]].ver \in Version
      BY <2>2, CommitFacts DEF Inv
    <3>4. t[1] = v
      <4>1. t[1] \in Nat /\ commit[tag[t]].ver \in Nat /\ v \in Nat
        BY <1>1, <2>3, <3>3
      <4>2. t[1] >= v /\ commit[tag[t]].ver >= t[1] /\ commit[tag[t]].ver <= v
        BY <2>4, <3>1, <3>2
      <4>3. QED
        BY <4>1, <4>2
    <3>5. PICK n \in Name : n = <<v, k - 1>> /\ t \in {Plain(n), Vtag(n)}
      <4>1. t[2] = k - 1
        BY <2>4
      <4>2. QED
        BY <2>3, <3>4, <4>1
    <3>6. tag[Vtag(n)] # Nowhere => tag[Plain(n)] # Nowhere
      BY DEF Inv, ReleaseInv, TagInv
    <3>7. QED
      BY <2>2, <3>5, <3>6
  <2>7. QED
    BY <2>5, <2>6 DEF Placed
<1>4. QED
  BY <1>2, <1>3

LEMMA NameCandidateInv ==
    ASSUME Inv, NEW r \in Run, NameCandidate(r)
    PROVE  Inv'
<1>1. PICK o : o = run[r]
  OBVIOUS
<1>2. /\ o.pc = "opened" /\ o.cand \in Version /\ o.head \in Id /\ o.main \in Id
      /\ o.known \subseteq Tag /\ Found(o)
  BY <1>1, RunFacts DEF NameCandidate, At, Inv, ReleaseInv
<1>3. /\ Good(o.head, o.cand) /\ o.known \subseteq OriginTags
      /\ o.main \in 1..Len(commit)
  BY <1>2 DEF Found
<1>4. PICK h : h = rel[o.cand]
  OBVIOUS
<1>5. PICK head \in {o.head, IF h # Nowhere /\ o.head \in Reach(h) THEN h ELSE o.head} :
        LET known == o.known \cup IF head = h THEN Followed(h) ELSE {}
        IN \E k \in NextPreReleaseIDs(Latest(head, known), PrintVersion(head)) :
              /\ k <= MaxRC
              /\ run' = [run EXCEPT ![r] = [pc |-> "tagging", name |-> <<o.cand, k>>,
                                            head |-> head, main |-> o.main]]
  BY <1>1, <1>4 DEF NameCandidate
<1> DEFINE known == o.known \cup IF head = h THEN Followed(h) ELSE {}
<1>k. PICK k \in NextPreReleaseIDs(Latest(head, known), PrintVersion(head)) :
        /\ k <= MaxRC
        /\ run' = [run EXCEPT ![r] = [pc |-> "tagging", name |-> <<o.cand, k>>,
                                      head |-> head, main |-> o.main]]
  BY <1>5
<1>6. UNCHANGED <<origin, moved>>
  BY DEF NameCandidate
<1>7. Good(head, o.cand)
  <2>1. h # Nowhere => Good(h, o.cand)
    BY <1>2, <1>4 DEF Inv, ReleaseInv, TagInv
  <2>2. QED
    BY <1>3, <1>5, <2>1
<1>8. known \subseteq OriginTags /\ known \in SUBSET Tag
  BY <1>3 DEF Followed, OriginTags
<1>9. k \in 0..MaxRC /\ Placed(head, <<o.cand, k>>)
  BY <1>2, <1>k, <1>7, <1>8, NextIsPlaced DEF PrintVersion
<1>10. PICK s : s = [pc |-> "tagging", name |-> <<o.cand, k>>, head |-> head,
                     main |-> o.main]
  OBVIOUS
<1>11. <<o.cand, k>> \in Name /\ k # Final
  BY <1>2, <1>9, NameFacts DEF Final
<1>12. head \in 1..Len(commit) /\ head \in Id /\ commit[head].ver >= o.cand
  BY <1>7, CommitFacts DEF Good, Inv
<1>13. s \in Clone
  <2>1. s \in [pc : {"tagging", "vtagging", "bumping"}, name : Name, head : Id, main : Id]
    BY <1>2, <1>10, <1>11, <1>12
  <2>2. QED
    BY <2>1 DEF Clone
<1>14. Found(s)
  BY <1>3, <1>7, <1>9, <1>10, <1>12 DEF Found
<1>15. QED
  BY <1>k, <1>6, <1>10, <1>13, <1>14, CloneStep
-----------------------------------------------------------------------------
(* Steps that set a tag.                                                    *)
LEMMA Unmoved ==
    ASSUME Inv
    PROVE  /\ Len(commit) \in Nat /\ commit[main].ver \in Nat
           /\ \A v \in Version : rel[v] # Nowhere => rel[v] \in commit[rel[v]].anc
<1>1. Len(commit) \in Nat /\ commit[main].ver \in Nat
  BY CommitFacts DEF Inv
<1>2. \A v \in Version : rel[v] # Nowhere => rel[v] \in commit[rel[v]].anc
  BY CommitFacts DEF Inv, ReleaseInv, HistoryInv, Reach
<1>3. QED
  BY <1>1, <1>2

LEMMA TagStep ==
    ASSUME Inv, NEW t \in Tag, NEW c \in 1..Len(commit),
           tag[t] = Nowhere, tag' = [tag EXCEPT ![t] = c],
           UNCHANGED <<commit, main, rel, bump, moved>>,
           run' \in [Run -> Clone],
           commit[c].ver >= t[1],
           \A n \in Name : t = Vtag(n) => tag[Plain(n)] # Nowhere,
           \A n \in Name : t = Plain(n) /\ n[2] # Final => Good(c, n[1]) /\ Placed(c, n)
    PROVE  TypeOK' /\ Grows /\ HistoryInv' /\ TagInv' /\ BumpInv'
<1> USE DEF Inv, ReleaseInv
<1>1. TypeOK'
  <2>1. tag \in [Tag -> 0..Len(commit)] /\ Len(commit) \in Nat
    BY DEF TypeOK
  <2>2. tag' \in [Tag -> 0..Len(commit)]
    BY <2>1
  <2>3. QED
    BY <2>2 DEF TypeOK
<1>2. tag'[t] = c /\ \A u \in Tag \ {t} : tag'[u] = tag[u]
  BY DEF TypeOK
<1>3. Grows
  BY <1>2, Unmoved DEF Grows
<1>4. HistoryInv'
  BY DEF HistoryInv, Reach
<1>5. BumpInv'
  <2>1. \A d \in Id : bump'[d] # "none" => d <= Len(commit') /\ Tagged(commit[d].ver)'
    BY <1>1, <1>3, <1>4, OldStays DEF Tagged, Plain
  <2>2. NoVersionSkipped'
    BY <1>1, <1>3, <1>4, OldStays DEF NoVersionSkipped, Plain
  <2>3. QED
    BY <2>1, <2>2 DEF BumpInv
<1>6. TagInv'
  <2>1. \A v \in Version : rel'[v] # Nowhere => Good(rel[v], v)'
    BY <1>1, <1>3, <1>4, OldStays
  <2>2. ASSUME NEW u \in Tag, tag'[u] # Nowhere
        PROVE  commit'[tag'[u]].ver >= u[1]
    <3>1. CASE u = t
      BY <1>2, <3>1
    <3>2. CASE u # t
      BY <1>1, <1>2, <1>3, <1>4, <2>2, <3>2, OldStays
    <3>3. QED
      BY <3>1, <3>2
  <2>3. ASSUME NEW n \in Name, tag'[Vtag(n)] # Nowhere
        PROVE  tag'[Plain(n)] # Nowhere
    <3>1. Vtag(n) \in Tag /\ Plain(n) \in Tag
      BY NameFacts
    <3>2. CASE Vtag(n) = t
      BY <1>3, <3>1, <3>2 DEF Grows
    <3>3. CASE Vtag(n) # t
      BY <1>1, <1>2, <1>3, <1>4, <2>3, <3>1, <3>3, OldStays
    <3>4. QED
      BY <3>2, <3>3
  <2>4. ASSUME NEW n \in Name, n[2] # Final, tag'[Plain(n)] # Nowhere
        PROVE  Good(tag[Plain(n)], n[1])' /\ Placed(tag[Plain(n)], n)'
    <3>1. Plain(n) \in Tag /\ n[1] \in Version
      BY NameFacts
    <3>2. CASE Plain(n) = t
      <4>1. Good(c, n[1]) /\ Placed(c, n)
        BY <2>4, <3>2
      <4>2. Good(c, n[1])' /\ Placed(c, n)'
        BY <1>1, <1>3, <1>4, <3>1, <4>1, GoodGrows, PlacedGrows
      <4>3. tag'[Plain(n)] = c
        BY <1>2, <3>2
      <4>4. QED
        BY <4>2, <4>3 DEF Plain
    <3>3. CASE Plain(n) # t
      BY <1>1, <1>2, <1>3, <1>4, <2>4, <3>1, <3>3, OldStays
    <3>4. QED
      BY <3>2, <3>3
  <2>5. QED
    BY <2>1, <2>2, <2>3, <2>4 DEF TagInv, Plain, Vtag
<1>7. QED
  BY <1>1, <1>3, <1>4, <1>5, <1>6

LEMMA PushPlainInv ==
    ASSUME Inv, NEW r \in Run, PushPlain(r)
    PROVE  Inv'
<1> USE DEF Inv, ReleaseInv
<1>1. PICK o : o = run[r]
  OBVIOUS
<1>2. /\ o \in [pc : {"tagging", "vtagging", "bumping"}, name : Name, head : Id, main : Id]
      /\ o \in Clone /\ o.pc = "tagging" /\ Found(o)
  BY <1>1, RunFacts DEF PushPlain, At
<1>3. /\ o.name \in Name /\ Plain(o.name) \in Tag /\ o.name[1] = Plain(o.name)[1]
      /\ o.head \in 1..Len(commit) /\ commit[o.head].ver >= o.name[1]
      /\ o.name[2] # Final => Good(o.head, o.name[1]) /\ Placed(o.head, o.name)
  BY <1>2, NameFacts DEF Found, Plain
<1>4. PICK s : s = [o EXCEPT !.pc = "vtagging"]
  OBVIOUS
<1>5. /\ s.pc = "vtagging" /\ s.name = o.name /\ s.head = o.head /\ s.main = o.main
      /\ s \in [pc : {"tagging", "vtagging", "bumping"}, name : Name, head : Id, main : Id]
  BY <1>2, <1>4
<1>6. s \in Clone
  BY <1>5 DEF Clone
<1>7. /\ run' = [run EXCEPT ![r] = s] /\ tag[Plain(o.name)] = Nowhere
      /\ tag' = [tag EXCEPT ![Plain(o.name)] = o.head]
      /\ UNCHANGED <<commit, main, rel, bump, moved>>
  <2>1. run \in [Run -> Clone]
    BY DEF TypeOK
  <2>2. QED
    BY <1>1, <1>4, <2>1 DEF PushPlain
<1>8. run' \in [Run -> Clone]
  BY <1>6, <1>7 DEF TypeOK
<1>9. TypeOK' /\ Grows /\ HistoryInv' /\ TagInv' /\ BumpInv'
  <2>1. \A n \in Name : Plain(o.name) = Vtag(n) => tag[Plain(n)] # Nowhere
    BY <1>3, NameFacts
  <2>2. \A n \in Name : Plain(o.name) = Plain(n) /\ n[2] # Final =>
           Good(o.head, n[1]) /\ Placed(o.head, n)
    BY <1>3, NameFacts
  <2>3. commit[o.head].ver >= Plain(o.name)[1]
    BY <1>3
  <2>4. QED
    BY <1>3, <1>7, <1>8, <2>1, <2>2, <2>3, TagStep
<1>10. Found(o)'
  BY <1>2, <1>9, FoundGrows
<1>11. tag'[Plain(s.name)] = s.head
  BY <1>3, <1>5, <1>7 DEF TypeOK
<1>12. Found(s)'
  BY <1>2, <1>5, <1>10, <1>11 DEF Found, Plain
<1>13. \A q \in Run : Found(run[q])'
  BY <1>6, <1>7, <1>9, <1>12, RunsStay
<1>14. QED
  BY <1>9, <1>13

LEMMA PushVInv ==
    ASSUME Inv, NEW r \in Run, PushV(r)
    PROVE  Inv'
<1> USE DEF Inv, ReleaseInv
<1>1. PICK o : o = run[r]
  OBVIOUS
<1>2. /\ o \in [pc : {"tagging", "vtagging", "bumping"}, name : Name, head : Id, main : Id]
      /\ o \in Clone /\ o.pc = "vtagging" /\ Found(o)
  BY <1>1, RunFacts DEF PushV, At
<1>3. /\ o.name \in Name /\ Vtag(o.name) \in Tag /\ o.name[1] = Vtag(o.name)[1]
      /\ o.head \in 1..Len(commit) /\ commit[o.head].ver >= o.name[1]
      /\ tag[Plain(o.name)] = o.head
  BY <1>2, NameFacts DEF Found, Vtag
<1>4. PICK s : s = [o EXCEPT !.pc = "bumping"]
  OBVIOUS
<1>5. /\ s.pc = "bumping" /\ s.name = o.name /\ s.head = o.head /\ s.main = o.main
      /\ s \in [pc : {"tagging", "vtagging", "bumping"}, name : Name, head : Id, main : Id]
  BY <1>2, <1>4
<1>6. s \in Clone
  BY <1>5 DEF Clone
<1>7. /\ run' = [run EXCEPT ![r] = s] /\ tag[Vtag(o.name)] = Nowhere
      /\ tag' = [tag EXCEPT ![Vtag(o.name)] = o.head]
      /\ UNCHANGED <<commit, main, rel, bump, moved>>
  <2>1. run \in [Run -> Clone]
    BY DEF TypeOK
  <2>2. QED
    BY <1>1, <1>4, <2>1 DEF PushV
<1>8. run' \in [Run -> Clone]
  BY <1>6, <1>7 DEF TypeOK
<1>9. TypeOK' /\ Grows /\ HistoryInv' /\ TagInv' /\ BumpInv'
  <2>1. \A n \in Name : Vtag(o.name) = Vtag(n) => tag[Plain(n)] # Nowhere
    <3>1. o.head # Nowhere
      BY <1>3, Unmoved DEF Nowhere
    <3>2. QED
      BY <1>3, <3>1, NameFacts
  <2>2. \A n \in Name : Vtag(o.name) # Plain(n)
    BY <1>3, NameFacts
  <2>3. commit[o.head].ver >= Vtag(o.name)[1]
    BY <1>3
  <2>4. QED
    BY <1>3, <1>7, <1>8, <2>1, <2>2, <2>3, TagStep
<1>10. Found(o)'
  BY <1>2, <1>9, FoundGrows
<1>11. tag'[Vtag(s.name)] = s.head
  BY <1>3, <1>5, <1>7 DEF TypeOK
<1>12. Found(s)'
  BY <1>2, <1>5, <1>10, <1>11 DEF Found, Vtag
<1>13. \A q \in Run : Found(run[q])'
  BY <1>6, <1>7, <1>9, <1>12, RunsStay
<1>14. QED
  BY <1>9, <1>13

LEMMA PublishInv ==
    ASSUME Inv, NEW n \in Name, Publish(n)
    PROVE  Inv'
<1> USE DEF Inv, ReleaseInv
<1>1. /\ tag[Plain(n)] # Nowhere /\ tag[Vtag(n)] = Nowhere
      /\ tag' = [tag EXCEPT ![Vtag(n)] = main]
      /\ UNCHANGED <<commit, main, rel, bump, run, moved>>
  BY DEF Publish
<1>2. Plain(n) \in Tag /\ Vtag(n) \in Tag /\ Plain(n)[1] = n[1] /\ Vtag(n)[1] = n[1]
      /\ n[1] \in Version /\ Version \subseteq Nat
  BY NameFacts, CommitFacts DEF Plain, Vtag
<1>3. main \in 1..Len(commit) /\ tag[Plain(n)] \in 1..Len(commit)
  BY <1>1, <1>2, CommitFacts
<1>4. commit[main].ver >= n[1]
  <2>1. /\ commit[main].ver \in Nat /\ commit[tag[Plain(n)]].ver \in Nat /\ n[1] \in Nat
    BY <1>2, <1>3, CommitFacts
  <2>2. commit[tag[Plain(n)]].ver >= n[1]
    BY <1>1, <1>2 DEF TagInv
  <2>3. commit[tag[Plain(n)]].ver <= commit[main].ver
    BY <1>3 DEF HistoryInv
  <2>4. QED
    BY <2>1, <2>2, <2>3
<1>5. TypeOK' /\ Grows /\ HistoryInv' /\ TagInv' /\ BumpInv'
  <2>1. \A m \in Name : Vtag(n) = Vtag(m) => tag[Plain(m)] # Nowhere
    BY <1>1, NameFacts
  <2>2. \A m \in Name : Vtag(n) # Plain(m)
    BY NameFacts
  <2>3. commit[main].ver >= Vtag(n)[1] /\ run' \in [Run -> Clone]
    BY <1>1, <1>2, <1>4 DEF TypeOK
  <2>4. QED
    BY <1>1, <1>2, <1>3, <2>1, <2>2, <2>3, TagStep
<1>6. \A q \in Run : Found(run[q])'
  BY <1>1, <1>5, AllRunsStay
<1>7. QED
  BY <1>5, <1>6
-----------------------------------------------------------------------------
(* Steps that make a release branch or open and merge a pull request.       *)
LEMMA CreateBranchInv ==
    ASSUME Inv, NEW r \in Run, CreateBranch(r)
    PROVE  Inv'
<1> USE DEF Inv, ReleaseInv
<1>1. PICK o : o = run[r]
  OBVIOUS
<1>2. /\ o \in [pc : {"creating", "opened"}, cand : Version, head : Id, main : Id,
                known : SUBSET Tag]
      /\ o \in Clone /\ o.pc = "creating" /\ Found(o)
  BY <1>1, RunFacts DEF CreateBranch, At
<1>3. PICK v \in Version, c \in 1..Len(commit) : v = o.cand /\ c = o.head
  BY <1>2 DEF Found, Overtaken
<1>4. /\ Overtaken(c, v) /\ commit[c].ver >= v
      /\ o.known \subseteq OriginTags /\ o.main \in 1..Len(commit)
  BY <1>2, <1>3 DEF Found, Overtaken
<1>5. PICK s : s = [o EXCEPT !.pc = "opened"]
  OBVIOUS
<1>6. /\ s.pc = "opened" /\ s.cand = v /\ s.head = c /\ s.main = o.main
      /\ s.known = o.known
      /\ s \in [pc : {"creating", "opened"}, cand : Version, head : Id, main : Id,
                known : SUBSET Tag]
  BY <1>2, <1>3, <1>5
<1>7. s \in Clone
  BY <1>6 DEF Clone
<1>8. /\ run' = [run EXCEPT ![r] = s]
      /\ FastForward(rel[v], c) /\ rel' = [rel EXCEPT ![v] = c]
      /\ moved' = moved \cup {w \in {v} : rel[v] \notin {Nowhere, c}}
      /\ UNCHANGED <<commit, main, tag, bump>>
  <2>1. run \in [Run -> Clone]
    BY DEF TypeOK
  <2>2. QED
    BY <1>1, <1>3, <1>5, <2>1 DEF CreateBranch
<1>9. rel'[v] = c /\ \A w \in Version \ {v} : rel'[w] = rel[w]
  BY <1>8 DEF TypeOK
<1>10. TypeOK'
  <2>1. rel' \in [Version -> 0..Len(commit)]
    BY <1>8, Unmoved DEF TypeOK
  <2>2. run' \in [Run -> Clone]
    BY <1>7, <1>8 DEF TypeOK
  <2>3. moved' \subseteq Version
    BY <1>8 DEF TypeOK
  <2>4. QED
    BY <1>8, <2>1, <2>2, <2>3 DEF TypeOK
<1>11. c # Nowhere /\ c \in Reach(c)
  BY Unmoved DEF Nowhere, HistoryInv
<1>12. Grows
  <2>1. ASSUME NEW w \in Version, rel[w] # Nowhere
        PROVE  rel'[w] # Nowhere /\ rel[w] \in commit'[rel'[w]].anc
    <3>1. CASE w = v
      BY <1>8, <1>9, <1>11, <2>1, <3>1 DEF FastForward, Reach
    <3>2. CASE w # v
      BY <1>8, <1>9, <2>1, <3>2, Unmoved
    <3>3. QED
      BY <3>1, <3>2
  <2>2. QED
    BY <1>8, <2>1, Unmoved DEF Grows
<1>13. HistoryInv'
  BY <1>8 DEF HistoryInv, Reach
<1>14. BumpInv'
  BY <1>8 DEF BumpInv, NoVersionSkipped, Tagged
<1>15. Good(c, v)'
  <2>1. ASSUME Regular(v)' PROVE commit[c].ver = v
    <3>1. tag[Plain(<<v, Final>>)] = Nowhere /\ rel[v] \in {Nowhere, c}
      BY <1>8, <2>1 DEF Regular, Plain
    <3>2. Regular(v)
      BY <1>12, <2>1, RegularShrinks
    <3>3. CASE rel[v] = Nowhere
      <4>1. ~(commit[c].ver > v)
        BY <1>4, <3>1, <3>3 DEF Overtaken
      <4>2. commit[c].ver \in Nat /\ v \in Nat
        BY CommitFacts
      <4>3. QED
        BY <1>4, <4>1, <4>2
    <3>4. CASE rel[v] = c
      BY <1>11, <3>2, <3>4 DEF TagInv, Good
    <3>5. QED
      BY <3>1, <3>3, <3>4
  <2>2. QED
    BY <1>4, <1>8, <1>9, <1>11, <2>1 DEF Good, Reach
<1>16. TagInv'
  <2>1. ASSUME NEW w \in Version, rel'[w] # Nowhere
        PROVE  Good(rel[w], w)'
    <3>1. CASE w = v
      BY <1>9, <1>15, <3>1
    <3>2. CASE w # v
      BY <1>9, <1>10, <1>12, <1>13, <2>1, <3>2, OldStays
    <3>3. QED
      BY <3>1, <3>2
  <2>2. \A n \in Name : n[2] # Final /\ tag'[Plain(n)] # Nowhere =>
           Good(tag[Plain(n)], n[1])' /\ Placed(tag[Plain(n)], n)'
    BY <1>8, <1>10, <1>12, <1>13, OldStays
  <2>3. /\ \A t \in Tag : tag'[t] # Nowhere => commit'[tag'[t]].ver >= t[1]
        /\ \A n \in Name : tag'[Vtag(n)] # Nowhere => tag'[Plain(n)] # Nowhere
    BY <1>8 DEF TagInv
  <2>4. QED
    BY <2>1, <2>2, <2>3 DEF TagInv, Plain, Vtag
<1>17. Found(s)'
  <2>1. Found(o)'
    BY <1>2, <1>10, <1>12, <1>13, FoundGrows
  <2>2. QED
    BY <1>2, <1>6, <1>15, <2>1 DEF Found
<1>18. \A q \in Run : Found(run[q])'
  BY <1>7, <1>8, <1>10, <1>12, <1>13, <1>17, RunsStay
<1>19. QED
  BY <1>10, <1>13, <1>14, <1>16, <1>18

(* The pull request of base commit c changes its state.                     *)
LEMMA BumpStep ==
    ASSUME Inv, UNCHANGED <<commit, main, rel, tag, moved>>,
           run' \in [Run -> Clone],
           bump' \in [Id -> {"none", "open", "merged"}],
           \A c \in Id : bump'[c] # "none" =>
              bump[c] # "none" \/ (c <= Len(commit) /\ Tagged(commit[c].ver))
    PROVE  TypeOK' /\ Grows /\ HistoryInv' /\ TagInv' /\ BumpInv'
<1> USE DEF Inv, ReleaseInv
<1>1. TypeOK'
  BY DEF TypeOK
<1>2. Grows
  BY Unmoved DEF Grows
<1>3. HistoryInv' /\ TagInv'
  BY DEF HistoryInv, TagInv, Good, Placed, Regular, Reach
<1>4. \A c \in Id : bump'[c] # "none" => c <= Len(commit) /\ Tagged(commit[c].ver)
  BY DEF BumpInv
<1>5. BumpInv'
  BY <1>4 DEF BumpInv, NoVersionSkipped, Tagged
<1>6. QED
  BY <1>1, <1>2, <1>3, <1>5

LEMMA BumpActionInv ==
    ASSUME Inv, NEW r \in Run, Bump(r)
    PROVE  Inv'
<1> USE DEF Inv, ReleaseInv
<1>1. PICK o : o = run[r]
  OBVIOUS
<1>2. /\ o.pc = "bumping" /\ o.name \in Name /\ Found(o)
  BY <1>1, RunFacts DEF Bump, At
<1>3. PICK c \in 1..Len(commit) : c = o.main
  BY <1>2 DEF Found
<1>4. c \in Id /\ c <= Len(commit) /\ Len(commit) \in Nat
  BY CommitFacts
<1>5. NotRunning \in Clone
  BY DEF Clone, NotRunning
<1>6. /\ run' = [run EXCEPT ![r] = NotRunning]
      /\ UNCHANGED <<commit, main, rel, tag, moved>>
      /\ IF commit[c].ver = o.name[1]
         THEN bump' = [bump EXCEPT ![c] = "open"]
         ELSE bump' = bump
  BY <1>1, <1>3 DEF Bump, PrintVersion
<1>7. run' \in [Run -> Clone]
  BY <1>5, <1>6 DEF TypeOK
<1>8. commit[c].ver = o.name[1] => Tagged(commit[c].ver)
  <2>1. tag[Plain(o.name)] # Nowhere
    BY <1>2, Unmoved DEF Found, Nowhere
  <2>2. QED
    BY <1>2, <2>1 DEF Tagged
<1>9. TypeOK' /\ Grows /\ HistoryInv' /\ TagInv' /\ BumpInv'
  <2>1. bump' \in [Id -> {"none", "open", "merged"}]
    BY <1>4, <1>6 DEF TypeOK
  <2>2. \A d \in Id : bump'[d] # "none" =>
           bump[d] # "none" \/ (d <= Len(commit) /\ Tagged(commit[d].ver))
    BY <1>4, <1>6, <1>8 DEF TypeOK
  <2>3. QED
    BY <1>6, <1>7, <2>1, <2>2, BumpStep
<1>10. Found(NotRunning)'
  BY DEF Found, NotRunning
<1>11. \A q \in Run : Found(run[q])'
  BY <1>5, <1>6, <1>9, <1>10, RunsStay
<1>12. QED
  BY <1>9, <1>11

-----------------------------------------------------------------------------
(* A commit on top of p, which is not of an older version than p.           *)
LEMMA CommitStep ==
    ASSUME Inv, NEW p \in 1..Len(commit), NEW v \in Version,
           NEW d \in {Committed, Generated},
           NewCommit(p, v, d), Len(commit) < MaxCommit, commit[p].ver <= v
    PROVE  /\ commit' \in Seq(Commit) /\ Len(commit') = Len(commit) + 1
           /\ Len(commit') <= MaxCommit
           /\ \A c \in 1..Len(commit) : c \in 1..Len(commit') /\ commit'[c] = commit[c]
           /\ commit'[Len(commit')].anc = Reach(p) \cup {Len(commit')}
           /\ commit'[Len(commit')].ver = v
<1>1. PICK x : x = [anc |-> Reach(p) \cup {Len(commit) + 1}, ver |-> v, decl |-> d]
  OBVIOUS
<1>2. commit' = Append(commit, x)
  BY <1>1 DEF NewCommit
<1>3. Len(commit) \in Nat /\ MaxCommit \in Nat /\ Reach(p) \subseteq Id
  BY CommitFacts DEF Inv
<1>4. Len(commit) + 1 \in Id
  BY <1>3 DEF Id
<1>5. x \in Commit
  BY <1>1, <1>3, <1>4 DEF Commit
<1>6. commit \in Seq(Commit)
  BY DEF Inv, TypeOK
<1>7. /\ commit' \in Seq(Commit) /\ Len(commit') = Len(commit) + 1
      /\ \A c \in 1..Len(commit) : commit'[c] = commit[c]
      /\ commit'[Len(commit) + 1] = x
  BY <1>2, <1>5, <1>6
<1>8. x.anc = Reach(p) \cup {Len(commit')} /\ x.ver = v
  BY <1>1, <1>7
<1>9. QED
  BY <1>3, <1>7, <1>8

LEMMA CommitHistory ==
    ASSUME Inv, NEW p \in 1..Len(commit), NEW v \in Version,
           NEW d \in {Committed, Generated},
           NewCommit(p, v, d), Len(commit) < MaxCommit, commit[p].ver <= v,
           main' \in 1..Len(commit'), commit[main].ver <= commit'[main'].ver,
           v <= commit'[main'].ver
    PROVE  HistoryInv'
<1> DEFINE N == Len(commit')
<1>1. /\ Len(commit) \in Nat /\ N = Len(commit) + 1
      /\ \A c \in 1..Len(commit) : c \in 1..N /\ commit'[c] = commit[c]
      /\ commit'[N].anc = Reach(p) \cup {N} /\ commit'[N].ver = v
      /\ commit' \in Seq(Commit)
  <2>1. Len(commit) \in Nat
    BY CommitFacts DEF Inv
  <2>2. /\ commit' \in Seq(Commit) /\ Len(commit') = Len(commit) + 1
        /\ \A c \in 1..Len(commit) : c \in 1..Len(commit') /\ commit'[c] = commit[c]
        /\ commit'[Len(commit')].anc = Reach(p) \cup {Len(commit')}
        /\ commit'[Len(commit')].ver = v
    BY CommitStep
  <2>3. QED
    BY <2>1, <2>2
<1>2. \A c \in 1..N : commit'[c].ver \in Nat
  <2>1. \A c \in 1..N : commit'[c] \in Commit
    BY <1>1
  <2>2. QED
    BY <2>1 DEF Commit, Version
<1>3. ASSUME NEW c \in 1..Len(commit)
      PROVE  /\ c \in commit'[c].anc
             /\ commit'[c].anc \subseteq 1..Len(commit)
             /\ commit'[c].ver <= commit[main].ver
             /\ \A e \in commit'[c].anc :
                   commit'[e].anc \subseteq commit'[c].anc /\ commit'[e].ver <= commit'[c].ver
  <2>1. /\ c \in commit[c].anc /\ commit[c].anc \subseteq 1..Len(commit)
        /\ commit[c].ver <= commit[main].ver
        /\ \A e \in commit[c].anc :
              commit[e].anc \subseteq commit[c].anc /\ commit[e].ver <= commit[c].ver
    BY DEF Inv, ReleaseInv, HistoryInv, Reach
  <2>2. QED
    BY <1>1, <2>1
<1>4. ASSUME NEW c \in 1..N
      PROVE  /\ c \in commit'[c].anc
             /\ commit'[c].anc \subseteq 1..N
             /\ commit'[c].ver <= commit'[main'].ver
             /\ \A e \in commit'[c].anc :
                   commit'[e].anc \subseteq commit'[c].anc /\ commit'[e].ver <= commit'[c].ver
  <2>1. CASE c = N
    <3>1. commit'[p].anc = Reach(p) /\ commit'[p].ver <= v
      BY <1>1 DEF Reach
    <3>2. Reach(p) \subseteq 1..Len(commit)
      BY <1>3, <3>1
    <3>3. c \in commit'[c].anc /\ commit'[c].anc \subseteq 1..N
      BY <1>1, <2>1, <3>2
    <3>4. ASSUME NEW e \in commit'[c].anc
          PROVE  commit'[e].anc \subseteq commit'[c].anc /\ commit'[e].ver <= commit'[c].ver
      <4>1. CASE e = N
        BY <1>1, <1>2, <2>1, <4>1
      <4>2. CASE e # N
        <5>1. e \in commit'[p].anc /\ e \in 1..Len(commit)
          BY <1>1, <2>1, <3>1, <3>2, <4>2
        <5>2. commit'[e].anc \subseteq commit'[p].anc /\ commit'[e].ver <= commit'[p].ver
          BY <1>3, <5>1
        <5>3. commit'[e].ver \in Nat /\ commit'[p].ver \in Nat /\ v \in Nat
          BY <1>1, <1>2, <5>1 DEF Version
        <5>4. QED
          BY <1>1, <2>1, <3>1, <5>2, <5>3
      <4>3. QED
        BY <4>1, <4>2
    <3>5. QED
      BY <1>1, <2>1, <3>3, <3>4
  <2>2. CASE c # N
    <3>1. c \in 1..Len(commit)
      BY <1>1, <2>2
    <3>2. /\ commit'[c].ver \in Nat /\ commit[main].ver \in Nat
          /\ commit'[main'].ver \in Nat
      BY <1>1, <1>2, CommitFacts DEF Inv
    <3>3. commit'[c].ver <= commit'[main'].ver
      BY <1>3, <3>1, <3>2
    <3>4. QED
      BY <1>1, <1>3, <3>1, <3>3
  <2>3. QED
    BY <2>1, <2>2
<1>5. QED
  BY <1>4 DEF HistoryInv, Reach
(* A commit on top of the head p of a branch, which the branch then has as  *)
(* its head.                                                                *)
LEMMA CommitGrows ==
    ASSUME Inv, NEW p \in 1..Len(commit), NEW v \in Version,
           NEW d \in {Committed, Generated},
           NewCommit(p, v, d), Len(commit) < MaxCommit, commit[p].ver <= v,
           main' \in {main, Len(commit')},
           main' = Len(commit') => commit[main].ver <= v,
           main' = main => v <= commit[main].ver,
           \A w \in Version : rel'[w] = rel[w] \/ (rel[w] = p /\ rel'[w] = Len(commit')),
           rel' \in [Version -> 0..Len(commit')],
           UNCHANGED <<tag, run, moved>>,
           bump' \in [Id -> {"none", "open", "merged"}]
    PROVE  TypeOK' /\ Grows /\ HistoryInv'
<1> USE DEF Inv, ReleaseInv
<1>1. /\ commit' \in Seq(Commit) /\ Len(commit') = Len(commit) + 1
      /\ Len(commit') <= MaxCommit
      /\ \A c \in 1..Len(commit) : c \in 1..Len(commit') /\ commit'[c] = commit[c]
      /\ commit'[Len(commit')].anc = Reach(p) \cup {Len(commit')}
      /\ commit'[Len(commit')].ver = v
  BY CommitStep
<1>2. Len(commit) \in Nat /\ Len(commit') \in Nat /\ main \in 1..Len(commit)
      /\ commit[main].ver \in Nat
  <2>1. Len(commit) \in Nat /\ main \in 1..Len(commit) /\ commit[main].ver \in Nat
    BY CommitFacts, Unmoved
  <2>2. QED
    BY <1>1, <2>1
<1>3. main' \in 1..Len(commit')
  BY <1>1, <1>2
<1>4. commit[main].ver <= commit'[main'].ver /\ v <= commit'[main'].ver
  <2>1. v \in Nat
    BY DEF Version
  <2>2. QED
    BY <1>1, <1>2, <2>1
<1>5. TypeOK'
  <2>1. tag' \in [Tag -> 0..Len(commit')]
    <3>1. tag \in [Tag -> 0..Len(commit)]
      BY DEF TypeOK
    <3>2. 0..Len(commit) \subseteq 0..Len(commit')
      BY <1>1, <1>2
    <3>3. QED
      BY <3>1, <3>2
  <2>2. run' \in [Run -> Clone] /\ moved' \subseteq Version
    BY DEF TypeOK
  <2>3. QED
    BY <1>1, <1>3, <2>1, <2>2 DEF TypeOK
<1>6. Grows
  <2>1. ASSUME NEW w \in Version, rel[w] # Nowhere
        PROVE  rel'[w] # Nowhere /\ rel[w] \in commit'[rel'[w]].anc
    <3>1. rel[w] \in 1..Len(commit)
      BY <2>1, CommitFacts
    <3>2. CASE rel'[w] = rel[w]
      BY <1>1, <2>1, <3>1, <3>2, Unmoved
    <3>3. CASE rel[w] = p /\ rel'[w] = Len(commit')
      <4>1. p \in Reach(p)
        BY DEF HistoryInv
      <4>2. Len(commit') # Nowhere
        BY <1>1, <1>2 DEF Nowhere
      <4>3. QED
        BY <1>1, <3>3, <4>1, <4>2
    <3>4. QED
      BY <3>2, <3>3
  <2>2. Len(commit) <= Len(commit')
    BY <1>1, <1>2
  <2>3. QED
    BY <1>1, <1>4, <2>1, <2>2 DEF Grows
<1>7. HistoryInv'
  BY <1>3, <1>4, CommitHistory
<1>8. QED
  BY <1>5, <1>6, <1>7

LEMMA MergeBumpInv ==
    ASSUME Inv, NEW c \in Id, MergeBump(c)
    PROVE  Inv'
<1> USE DEF Inv, ReleaseInv
<1>1. /\ bump[c] = "open" /\ bump' = [bump EXCEPT ![c] = "merged"]
      /\ UNCHANGED <<rel, tag, run, moved>>
  BY DEF MergeBump
<1>2. /\ bump' \in [Id -> {"none", "open", "merged"}]
      /\ \A d \in Id : bump'[d] # "none" => bump[d] # "none"
  BY <1>1 DEF TypeOK
<1>3. CASE UNCHANGED <<commit, main>>
  <2>1. run' \in [Run -> Clone]
    BY <1>1 DEF TypeOK
  <2>2. TypeOK' /\ Grows /\ HistoryInv' /\ TagInv' /\ BumpInv'
    BY <1>1, <1>2, <1>3, <2>1, BumpStep
  <2>3. QED
    BY <1>1, <2>2, AllRunsStay
<1>4. CASE /\ commit[main].ver = commit[c].ver
           /\ commit[c].ver < MaxVersion
           /\ MayCommit
           /\ NewCommit(main, commit[c].ver + 1, Generated)
           /\ main' = Len(commit) + 1
  <2>1. PICK v \in Version : v = commit[main].ver + 1
    <3>1. commit[main].ver \in 1..MaxVersion
      BY CommitFacts DEF Version
    <3>2. commit[main].ver + 1 \in 1..MaxVersion
      BY <1>4, <3>1, BoundAssumption
    <3>3. QED
      BY <3>2 DEF Version
  <2>2. commit[main].ver \in Nat /\ commit[main].ver <= v /\ main \in 1..Len(commit)
    BY <2>1, Unmoved, CommitFacts
  <2>3. NewCommit(main, v, Generated) /\ Len(commit) < MaxCommit
    BY <1>4, <2>1 DEF MayCommit
  <2>4. /\ Len(commit') = Len(commit) + 1 /\ commit'[Len(commit')].ver = v
    <3>1. Generated \in {Committed, Generated}
      OBVIOUS
    <3>2. QED
      BY <2>2, <2>3, <3>1, CommitStep
  <2>5. main' = Len(commit') /\ main' # main
    BY <1>4, <2>2, <2>4, Unmoved
  <2>6. rel' \in [Version -> 0..Len(commit')]
    <3>1. 0..Len(commit) \subseteq 0..Len(commit')
      BY <2>4, Unmoved
    <3>2. QED
      BY <1>1, <3>1 DEF TypeOK
  <2>7. TypeOK' /\ Grows /\ HistoryInv'
    <3>1. \A w \in Version : rel'[w] = rel[w]
      BY <1>1
    <3>2. Generated \in {Committed, Generated}
      OBVIOUS
    <3>3. main' \in {main, Len(commit')} /\ (main' = Len(commit') => commit[main].ver <= v)
          /\ (main' = main => v <= commit[main].ver)
      BY <2>2, <2>5
    <3>4. QED
      BY <1>1, <1>2, <2>2, <2>3, <2>6, <3>1, <3>2, <3>3, CommitGrows
  <2>8. TagInv'
    <3>1. \A w \in Version : rel'[w] # Nowhere => Good(rel[w], w)'
      BY <1>1, <2>7, OldStays
    <3>2. \A t \in Tag : tag'[t] # Nowhere => commit'[tag'[t]].ver >= t[1]
      BY <1>1, <2>7, OldStays
    <3>3. \A n \in Name : tag'[Vtag(n)] # Nowhere => tag'[Plain(n)] # Nowhere
      BY <1>1, <2>7, OldStays
    <3>4. \A n \in Name : n[2] # Final /\ tag'[Plain(n)] # Nowhere =>
             Good(tag[Plain(n)], n[1])' /\ Placed(tag[Plain(n)], n)'
      BY <1>1, <2>7, OldStays
    <3>5. QED
      BY <3>1, <3>2, <3>3, <3>4 DEF TagInv, Plain, Vtag
  <2>9. BumpInv'
    <3>1. ASSUME NEW d \in Id, bump'[d] # "none"
          PROVE  d <= Len(commit') /\ Tagged(commit[d].ver)'
      BY <1>2, <2>7, <3>1, OldStays DEF Tagged, Plain
    <3>2. ASSUME NEW w \in 1..(commit'[main'].ver - 1)
          PROVE  \E n \in Name : n[1] = w /\ tag'[Plain(n)] # Nowhere
      <4>1. w \in 1..commit[main].ver
        BY <2>1, <2>2, <2>4, <2>5, <3>2
      <4>2. CASE w = commit[main].ver
        <5>1. Tagged(commit[c].ver)
          BY <1>1 DEF BumpInv
        <5>2. QED
          BY <1>1, <1>4, <4>2, <5>1 DEF Tagged
      <4>3. CASE w # commit[main].ver
        <5>1. w \in 1..(commit[main].ver - 1)
          BY <2>2, <4>1, <4>3
        <5>2. QED
          BY <2>7, <5>1, OldStays
      <4>4. QED
        BY <4>2, <4>3
    <3>3. QED
      BY <3>1, <3>2 DEF BumpInv, NoVersionSkipped, Plain
  <2>10. QED
    BY <1>1, <2>7, <2>8, <2>9, AllRunsStay
<1>5. QED
  BY <1>3, <1>4 DEF MergeBump, NextDevelopmentIteration

LEMMA DevelopInv ==
    ASSUME Inv, NEW base \in {0} \cup Version, Develop(base)
    PROVE  Inv'
<1> USE DEF Inv, ReleaseInv
<1>1. PICK p \in 1..Len(commit) : p = BranchHead(base)
  BY BranchHeadFacts DEF Develop
<1>2. PICK v \in Version : v = commit[p].ver
  BY CommitFacts
<1>3. PICK d \in {Committed, Generated} : NewCommit(p, v, d)
  <2>1. commit[p].decl \in {Committed, Generated}
    BY CommitFacts DEF Commit
  <2>2. QED
    BY <1>1, <1>2, <2>1 DEF Develop
<1>4. /\ Len(commit) < MaxCommit /\ UNCHANGED <<tag, bump, run, moved>>
      /\ base = 0 => main' = Len(commit) + 1 /\ rel' = rel
      /\ base # 0 => rel' = [rel EXCEPT ![base] = Len(commit) + 1] /\ main' = main
  BY DEF Develop, MayCommit
<1>5. /\ v \in Nat /\ commit[p].ver <= v /\ v <= commit[main].ver
      /\ main \in 1..Len(commit) /\ Len(commit) \in Nat
      /\ base = 0 => p = main
      /\ base # 0 => base \in Version /\ rel[base] = p
  <2>1. v \in Nat /\ main \in 1..Len(commit) /\ Len(commit) \in Nat
    BY CommitFacts DEF Version
  <2>2. commit[p].ver <= commit[main].ver
    BY DEF HistoryInv
  <2>3. QED
    BY <1>1, <1>2, <2>1, <2>2 DEF BranchHead
<1>6. /\ Len(commit') = Len(commit) + 1 /\ commit'[Len(commit')].ver = v
      /\ commit'[Len(commit')].anc = Reach(p) \cup {Len(commit')}
  BY <1>3, <1>4, <1>5, CommitStep
<1>7. \A w \in Version : rel'[w] = rel[w] \/ (w = base /\ rel[w] = p /\ rel'[w] = Len(commit'))
  BY <1>4, <1>5, <1>6 DEF TypeOK
<1>8. rel' \in [Version -> 0..Len(commit')]
  <2>1. 0..Len(commit) \subseteq 0..Len(commit') /\ Len(commit) + 1 \in 0..Len(commit')
    BY <1>5, <1>6
  <2>2. rel \in [Version -> 0..Len(commit')]
    BY <2>1 DEF TypeOK
  <2>3. QED
    BY <1>4, <2>1, <2>2
<1>9. TypeOK' /\ Grows /\ HistoryInv'
  <2>1. /\ main' \in {main, Len(commit')}
        /\ main' = Len(commit') => commit[main].ver <= v
        /\ main' = main => v <= commit[main].ver
    <3>1. base # 0 => main' = main /\ main # Len(commit')
      BY <1>4, <1>5, <1>6
    <3>2. base = 0 => main' = Len(commit') /\ commit[main].ver = v
      BY <1>2, <1>4, <1>5, <1>6
    <3>3. QED
      BY <1>5, <3>1, <3>2
  <2>2. bump' \in [Id -> {"none", "open", "merged"}]
    BY <1>4 DEF TypeOK
  <2>3. \A w \in Version : rel'[w] = rel[w] \/ (rel[w] = p /\ rel'[w] = Len(commit'))
    BY <1>7
  <2>4. UNCHANGED <<tag, run, moved>> /\ Len(commit) < MaxCommit /\ commit[p].ver <= v
    BY <1>4, <1>5
  <2>5. QED
    BY <1>3, <1>8, <2>1, <2>2, <2>3, <2>4, CommitGrows
<1>10. \A w : Regular(w)' <=> Regular(w)
  BY <1>4 DEF Regular, Plain
<1>11. TagInv'
  <2>1. ASSUME NEW w \in Version, rel'[w] # Nowhere
        PROVE  Good(rel[w], w)'
    <3>1. CASE rel'[w] = rel[w]
      BY <1>9, <2>1, <3>1, OldStays
    <3>2. CASE w = base /\ rel[w] = p /\ rel'[w] = Len(commit')
      <4>1. Good(p, w)
        <5>1. p # Nowhere
          BY <1>5 DEF Nowhere
        <5>2. QED
          BY <3>2, <5>1 DEF TagInv
      <4>2. v >= w /\ (Regular(w) => v = w)
        BY <1>2, <4>1 DEF Good
      <4>3. Len(commit') \in 1..Len(commit') /\ Len(commit') # Nowhere
        BY <1>5, <1>6 DEF Nowhere
      <4>4. PICK x : x = rel'[w]
        OBVIOUS
      <4>5. Good(x, w)'
        BY <1>6, <1>10, <3>2, <4>2, <4>3, <4>4 DEF Good, Reach
      <4>6. QED
        BY <4>4, <4>5
    <3>3. QED
      BY <1>7, <3>1, <3>2
  <2>2. \A t \in Tag : tag'[t] # Nowhere => commit'[tag'[t]].ver >= t[1]
    BY <1>4, <1>9, OldStays
  <2>3. \A n \in Name : tag'[Vtag(n)] # Nowhere => tag'[Plain(n)] # Nowhere
    BY <1>4, <1>9, OldStays
  <2>4. \A n \in Name : n[2] # Final /\ tag'[Plain(n)] # Nowhere =>
           Good(tag[Plain(n)], n[1])' /\ Placed(tag[Plain(n)], n)'
    BY <1>4, <1>9, OldStays
  <2>5. QED
    BY <2>1, <2>2, <2>3, <2>4 DEF TagInv, Plain, Vtag
<1>12. BumpInv'
  <2>1. ASSUME NEW e \in Id, bump'[e] # "none"
        PROVE  e <= Len(commit') /\ Tagged(commit[e].ver)'
    BY <1>4, <1>9, <2>1, OldStays DEF Tagged, Plain
  <2>2. commit'[main'].ver = commit[main].ver
    <3>1. base = 0 => commit'[main'].ver = commit[main].ver
      BY <1>2, <1>4, <1>5, <1>6
    <3>2. base # 0 => commit'[main'].ver = commit[main].ver
      BY <1>4, <1>5, <1>9 DEF Grows
    <3>3. QED
      BY <3>1, <3>2
  <2>3. ASSUME NEW w \in 1..(commit'[main'].ver - 1)
        PROVE  \E n \in Name : n[1] = w /\ tag'[Plain(n)] # Nowhere
    BY <1>9, <2>2, <2>3, OldStays
  <2>4. QED
    BY <2>1, <2>3 DEF BumpInv, NoVersionSkipped, Plain
<1>13. QED
  BY <1>4, <1>9, <1>11, <1>12, AllRunsStay
-----------------------------------------------------------------------------
(* What the release scripts keep true: an inductive invariant that says of  *)
(* every branch, tag and run what the properties below need.                *)
LEMMA InitInv == Init => Inv
<1> SUFFICES ASSUME Init PROVE Inv
  OBVIOUS
<1>1. PICK x : x = [anc |-> {1}, ver |-> 1, decl |-> Committed]
  OBVIOUS
<1>2. MaxCommit \in Nat \ {0} /\ MaxVersion \in Nat \ {0} /\ MaxRC \in Nat
  BY BoundAssumption
<1>3. x \in Commit /\ x.anc = {1} /\ x.ver = 1
  BY <1>1, <1>2 DEF Commit, Id, Version
<1>4. commit \in Seq(Commit) /\ Len(commit) = 1 /\ commit[1] = x /\ main = 1
  BY <1>1, <1>3 DEF Init
<1>5. /\ rel \in [Version -> 0..1] /\ \A v \in Version : rel[v] = Nowhere
      /\ tag \in [Tag -> 0..1] /\ \A t \in Tag : tag[t] = Nowhere
      /\ bump \in [Id -> {"none", "open", "merged"}] /\ \A c \in Id : bump[c] = "none"
      /\ run \in [Run -> Clone] /\ \A r \in Run : run[r] = NotRunning
      /\ moved = {}
  BY DEF Init, Nowhere, Clone, NotRunning
<1>6. TypeOK
  BY <1>2, <1>4, <1>5 DEF TypeOK
<1>7. HistoryInv
  BY <1>3, <1>4 DEF HistoryInv, Reach
<1>8. TagInv
  BY <1>5, NameFacts DEF TagInv
<1>9. BumpInv
  BY <1>3, <1>4, <1>5 DEF BumpInv, NoVersionSkipped
<1>10. \A r \in Run : Found(run[r])
  BY <1>5 DEF Found, NotRunning
<1>11. QED
  BY <1>6, <1>7, <1>8, <1>9, <1>10 DEF Inv, ReleaseInv

THEOREM InvCorrect == Spec => []Inv
<1>1. Init => Inv
  BY InitInv
<1>2. Inv /\ [Next]_vars => Inv'
  <2> SUFFICES ASSUME Inv, [Next]_vars PROVE Inv'
    OBVIOUS
  <2>1. ASSUME NEW r \in Run, Script(r) PROVE Inv'
    <3>1. ASSUME NEW base \in {0} \cup Version, StartCandidate(r, base) PROVE Inv'
      BY <3>1, StartCandidateInv
    <3>2. ASSUME NEW base \in {0} \cup Version, StartRelease(r, base) PROVE Inv'
      BY <3>2, StartReleaseInv
    <3>3. CASE PullMain(r)
      BY <3>3, PullMainInv
    <3>4. CASE CreateBranch(r)
      BY <3>4, CreateBranchInv
    <3>5. CASE NameCandidate(r)
      BY <3>5, NameCandidateInv
    <3>6. CASE PushPlain(r)
      BY <3>6, PushPlainInv
    <3>7. CASE PushV(r)
      BY <3>7, PushVInv
    <3>8. CASE Bump(r)
      BY <3>8, BumpActionInv
    <3>9. CASE Fail(r)
      BY <3>9, FailInv
    <3>10. QED
      BY <2>1, <3>1, <3>2, <3>3, <3>4, <3>5, <3>6, <3>7, <3>8, <3>9 DEF Script
  <2>2. ASSUME NEW n \in Name, Publish(n) PROVE Inv'
    BY <2>2, PublishInv
  <2>3. ASSUME NEW c \in Id, MergeBump(c) PROVE Inv'
    BY <2>3, MergeBumpInv
  <2>4. ASSUME NEW base \in {0} \cup Version, Develop(base) PROVE Inv'
    BY <2>4, DevelopInv
  <2>5. CASE UNCHANGED vars
    BY <2>5 DEF vars, origin, Inv, ReleaseInv, TypeOK, HistoryInv, TagInv, BumpInv,
       NoVersionSkipped, Tagged, Found, Good, Placed, Overtaken, Regular, Reach,
       OriginTags
  <2>6. QED
    BY <2>1, <2>2, <2>3, <2>4, <2>5 DEF Next
<1>3. QED
  BY <1>1, <1>2, PTL DEF Spec

(* Commits, branches, tags and runs are what they are declared to be: a     *)
(* branch or tag names a commit that origin has, and a clone a commit, a    *)
(* version and a candidate within the bounds.                               *)
THEOREM TypeCorrect == Spec => []TypeOK
<1>1. Inv => TypeOK
  BY DEF Inv
<1>2. QED
  BY <1>1, InvCorrect, PTL

(* Whatever runs overlap and wherever they fail, the candidates of a        *)
(* version are numbered from rc.0 without a gap, each at or after the one   *)
(* before it.                                                               *)
THEOREM ContiguousCorrect == Spec => []CandidatesContiguous
<1>1. Inv => CandidatesContiguous
  <2> SUFFICES ASSUME Inv, NEW v \in Version, NEW k \in 1..MaxRC,
                      tag[Plain(<<v, k>>)] # Nowhere, Regular(v)
               PROVE  /\ tag[Plain(<<v, k - 1>>)] # Nowhere
                      /\ tag[Vtag(<<v, k - 1>>)] \in {Nowhere, tag[Plain(<<v, k - 1>>)]} =>
                            tag[Plain(<<v, k - 1>>)] \in Reach(tag[Plain(<<v, k>>)])
    BY DEF CandidatesContiguous
  <2>1. <<v, k>> \in Name /\ k # Final
    BY NameFacts, BoundAssumption DEF Final
  <2>2. PICK n \in Name : n = <<v, k>>
    BY <2>1
  <2>3. Placed(tag[Plain(n)], n)
    BY <2>1, <2>2 DEF Inv, ReleaseInv, TagInv
  <2>4. n[1] = v /\ n[2] = k
    BY <2>2
  <2>5. QED
    BY <2>2, <2>3, <2>4 DEF Placed
<1>2. QED
  BY <1>1, InvCorrect, PTL

(* A candidate's commit is on the release branch of its version.            *)
THEOREM OnItsBranchCorrect == Spec => []CandidateOnItsBranch
<1>1. Inv => CandidateOnItsBranch
  <2> SUFFICES ASSUME Inv, NEW v \in Version, NEW k \in 0..MaxRC,
                      tag[Plain(<<v, k>>)] # Nowhere
               PROVE  /\ rel[v] # Nowhere
                      /\ tag[Plain(<<v, k>>)] \in Reach(rel[v])
    BY DEF CandidateOnItsBranch
  <2>1. PICK n \in Name : n = <<v, k>> /\ n[1] = v /\ n[2] # Final
    BY NameFacts, BoundAssumption DEF Final
  <2>2. Good(tag[Plain(n)], n[1])
    BY <2>1 DEF Inv, ReleaseInv, TagInv
  <2>3. QED
    BY <2>1, <2>2 DEF Good
<1>2. QED
  BY <1>1, InvCorrect, PTL

(* What is tagged as a candidate of a version, with its one release branch, *)
(* says itself that it is of that version.                                  *)
THEOREM SaysVersionCorrect == Spec => []CandidateSaysVersion
<1>1. Inv => CandidateSaysVersion
  <2> SUFFICES ASSUME Inv, NEW v \in Version, NEW k \in 0..MaxRC,
                      tag[Plain(<<v, k>>)] # Nowhere, Regular(v)
               PROVE  commit[tag[Plain(<<v, k>>)]].ver = v
    BY DEF CandidateSaysVersion
  <2>1. PICK n \in Name : n = <<v, k>> /\ n[1] = v /\ n[2] # Final
    BY NameFacts, BoundAssumption DEF Final
  <2>2. Good(tag[Plain(n)], n[1])
    BY <2>1 DEF Inv, ReleaseInv, TagInv
  <2>3. QED
    BY <2>1, <2>2 DEF Good
<1>2. QED
  BY <1>1, InvCorrect, PTL

(* main moves to a version only after the one before it was tagged.         *)
THEOREM NotSkippedCorrect == Spec => []NoVersionSkipped
<1>1. Inv => NoVersionSkipped
  BY DEF Inv, ReleaseInv, BumpInv
<1>2. QED
  BY <1>1, InvCorrect, PTL

(* A run that gets as far as the version bump has put both of its names on  *)
(* one commit.                                                              *)
THEOREM NamesAgreeCorrect == Spec => []NamesAgree
<1>1. Inv => NamesAgree
  BY DEF Inv, ReleaseInv, Found, NamesAgree, At
<1>2. QED
  BY <1>1, InvCorrect, PTL

-----------------------------------------------------------------------------
(* The refinement.  What the abstract variables come to when a tag is put.  *)
Published == {n \in Name : tag[Plain(n)] # Nowhere}
Released  == {n \in Name : tag[Vtag(n)] # Nowhere}
Branched  == {v \in Version : rel[v] # Nowhere}

LEMMA TagsPutOnce ==
    ASSUME TypeOK, NEW n \in Name, NEW c \in 1..Len(commit)
    PROVE  /\ tag' = [tag EXCEPT ![Plain(n)] = c] =>
                 Published' = Published \cup {n} /\ Released' = Released
           /\ tag' = [tag EXCEPT ![Vtag(n)] = c] =>
                 Published' = Published /\ Released' = Released \cup {n}
<1>1. c # Nowhere
  BY CommitFacts DEF Nowhere
<1>2. tag \in [Tag -> 0..Len(commit)] /\ Plain(n) \in Tag /\ Vtag(n) \in Tag
  BY NameFacts DEF TypeOK
<1>3. ASSUME tag' = [tag EXCEPT ![Plain(n)] = c]
      PROVE  Published' = Published \cup {n} /\ Released' = Released
  <2>1. tag'[Plain(n)] = c /\ \A t \in Tag : t # Plain(n) => tag'[t] = tag[t]
    BY <1>2, <1>3
  <2>2. \A m \in Name : tag'[Vtag(m)] = tag[Vtag(m)]
    BY <2>1, NameFacts
  <2>3. \A m \in Name : m # n => tag'[Plain(m)] = tag[Plain(m)]
    BY <2>1, NameFacts
  <2>4. QED
    BY <1>1, <2>1, <2>2, <2>3 DEF Published, Released, Plain, Vtag
<1>4. ASSUME tag' = [tag EXCEPT ![Vtag(n)] = c]
      PROVE  Published' = Published /\ Released' = Released \cup {n}
  <2>1. tag'[Vtag(n)] = c /\ \A t \in Tag : t # Vtag(n) => tag'[t] = tag[t]
    BY <1>2, <1>4
  <2>2. \A m \in Name : tag'[Plain(m)] = tag[Plain(m)]
    BY <2>1, NameFacts
  <2>3. \A m \in Name : m # n => tag'[Vtag(m)] = tag[Vtag(m)]
    BY <2>1, NameFacts
  <2>4. QED
    BY <1>1, <2>1, <2>2, <2>3 DEF Published, Released, Plain, Vtag
<1>5. QED
  BY <1>3, <1>4

(* The sets of ReleaseTrain are those of the model.                         *)
LEMMA SameNames ==
    Train!Version = Version /\ Train!Name = Name /\ Train!Final = Final
BY DEF Train!Version, Train!Name, Train!Final, Version, Name, Final

(* Steps that leave origin's references and main's version alone.           *)
LEMMA TrainStutters ==
    ASSUME UNCHANGED <<tag, moved>>, commit'[main'].ver = commit[main].ver,
           Branched' = Branched
    PROVE  UNCHANGED Train!vars
BY DEF Train!vars, Branched, Plain, Vtag

(* The first name: of a candidate on its branch, after the one before it;   *)
(* or of a final release of a version that has been developed.              *)
LEMMA PushPlainTrains ==
    ASSUME Inv, NEW r \in Run, PushPlain(r)
    PROVE  Train!Next
<1>1. PICK o : o = run[r]
  OBVIOUS
<1>2. /\ o \in [pc : {"tagging", "vtagging", "bumping"}, name : Name, head : Id, main : Id]
      /\ o.pc = "tagging" /\ Found(o)
  BY <1>1, RunFacts DEF PushPlain, At, Inv, ReleaseInv
<1>3. PICK n \in Name : n = o.name
  BY <1>2
<1>4. /\ o.head \in 1..Len(commit) /\ commit[o.head].ver >= n[1]
      /\ n[2] # Final => Good(o.head, n[1]) /\ Placed(o.head, n)
  BY <1>2, <1>3 DEF Found
<1>5. /\ tag[Plain(n)] = Nowhere /\ tag' = [tag EXCEPT ![Plain(n)] = o.head]
      /\ UNCHANGED <<commit, main, rel, moved>>
  BY <1>1, <1>3 DEF PushPlain
<1>6. /\ n \notin Published /\ Published' = Published \cup {n}
      /\ Released' = Released /\ Branched' = Branched
  BY <1>4, <1>5, TagsPutOnce DEF Inv, Published, Branched
<1>7. n[1] \in Version /\ n[2] \in {Final} \cup 0..MaxRC /\ n = <<n[1], n[2]>>
  BY NameFacts
<1>8. CASE n[2] = Final
  <2>1. n[1] <= commit[main].ver
    <3>1. commit[o.head].ver <= commit[main].ver
      BY <1>4 DEF Inv, ReleaseInv, HistoryInv
    <3>2. commit[o.head].ver \in Nat /\ commit[main].ver \in Nat /\ n[1] \in Nat
      BY <1>4, <1>7, CommitFacts DEF Inv
    <3>3. QED
      BY <1>4, <3>1, <3>2
  <2>2. Train!FinalRelease(n[1])
    BY <1>5, <1>6, <1>7, <1>8, <2>1, SameNames
       DEF Train!FinalRelease, Published, Released, Branched
  <2>3. QED
    BY <1>7, <2>2, SameNames DEF Train!Next
<1>9. CASE n[2] # Final
  <2>1. n[1] \in Branched
    BY <1>4, <1>7, <1>9 DEF Good, Branched
  <2>2. ASSUME n[2] > 0, <<n[1], Final>> \notin Published, n[1] \notin moved
        PROVE  <<n[1], n[2] - 1>> \in Published
    <3>1. n[2] \in 1..MaxRC /\ n[2] - 1 \in 0..MaxRC
      BY <1>7, <1>9, <2>2, BoundAssumption DEF Final
    <3>2. <<n[1], Final>> \in Name /\ <<n[1], n[2] - 1>> \in Name
      BY <1>7, <3>1, NameFacts
    <3>3. Regular(n[1])
      BY <2>2, <3>2 DEF Regular, Published
    <3>4. QED
      BY <1>4, <1>9, <3>1, <3>2, <3>3 DEF Placed, Published
  <2>3. Train!Candidate(n[1], n[2])
    BY <1>5, <1>6, <1>7, <2>1, <2>2, SameNames
       DEF Train!Candidate, Published, Released, Branched
  <2>4. QED
    BY <1>7, <1>9, <2>3, SameNames DEF Train!Next
<1>10. QED
  BY <1>8, <1>9

(* The second name, by the script or by the publish workflow.               *)
LEMMA VtagTrains ==
    ASSUME Inv, NEW n \in Name, NEW c \in 1..Len(commit),
           tag[Plain(n)] # Nowhere, tag[Vtag(n)] = Nowhere,
           tag' = [tag EXCEPT ![Vtag(n)] = c], UNCHANGED <<commit, main, rel, moved>>
    PROVE  Train!Next
<1>1. /\ n \in Published \ Released /\ Released' = Released \cup {n}
      /\ Published' = Published /\ Branched' = Branched
  BY TagsPutOnce DEF Inv, Published, Released, Branched
<1>2. Train!Announce(n)
  BY <1>1 DEF Train!Announce, Published, Released, Branched
<1>3. QED
  BY <1>2, SameNames DEF Train!Next

LEMMA PushVTrains ==
    ASSUME Inv, NEW r \in Run, PushV(r)
    PROVE  Train!Next
<1>1. PICK o : o = run[r]
  OBVIOUS
<1>2. /\ o \in [pc : {"tagging", "vtagging", "bumping"}, name : Name, head : Id, main : Id]
      /\ o.pc = "vtagging" /\ Found(o)
  BY <1>1, RunFacts DEF PushV, At, Inv, ReleaseInv
<1>3. o.head \in 1..Len(commit) /\ tag[Plain(o.name)] = o.head /\ o.head # Nowhere
  BY <1>2, CommitFacts DEF Found, Inv, Nowhere
<1>4. QED
  BY <1>1, <1>2, <1>3, VtagTrains DEF PushV

(* A release branch: of a version that the clone, and so main, has reached. *)
LEMMA CreateBranchTrains ==
    ASSUME Inv, NEW r \in Run, CreateBranch(r)
    PROVE  Train!Next
<1>1. PICK o : o = run[r]
  OBVIOUS
<1>2. /\ o \in [pc : {"creating", "opened"}, cand : Version, head : Id, main : Id,
                known : SUBSET Tag]
      /\ o.pc = "creating" /\ Found(o)
  BY <1>1, RunFacts DEF CreateBranch, At, Inv, ReleaseInv
<1>3. PICK v \in Version : v = o.cand
  BY <1>2
<1>4. o.head \in 1..Len(commit) /\ commit[o.head].ver >= v
  BY <1>2, <1>3 DEF Found, Overtaken
<1>5. v <= commit[main].ver
  <2>1. commit[o.head].ver <= commit[main].ver
    BY <1>4 DEF Inv, ReleaseInv, HistoryInv
  <2>2. commit[o.head].ver \in Nat /\ commit[main].ver \in Nat /\ v \in Nat
    BY <1>4, CommitFacts DEF Inv
  <2>3. QED
    BY <1>4, <2>1, <2>2
<1>6. /\ rel' = [rel EXCEPT ![v] = o.head]
      /\ moved' = moved \cup {w \in {v} : rel[v] \notin {Nowhere, o.head}}
      /\ UNCHANGED <<commit, main, tag>>
  BY <1>1, <1>3 DEF CreateBranch
<1>7. Branched' = Branched \cup {v}
  <2>1. o.head # Nowhere
    BY <1>4, CommitFacts DEF Inv, Nowhere
  <2>2. QED
    BY <1>6, <2>1 DEF Branched, Inv, TypeOK
<1>8. moved' \in {moved} \cup {moved \cup {v} : w \in Branched \cap {v}}
  <2>1. CASE rel[v] \in {Nowhere, o.head}
    BY <1>6, <2>1
  <2>2. CASE rel[v] \notin {Nowhere, o.head}
    BY <1>6, <2>2 DEF Branched
  <2>3. QED
    BY <2>1, <2>2
<1>9. Train!Branch(v)
  BY <1>5, <1>6, <1>7, <1>8 DEF Train!Branch, Branched, Plain, Vtag
<1>10. QED
  BY <1>9, SameNames DEF Train!Next

(* A merged bump: the pull request was opened when its version was tagged.  *)
LEMMA MergeBumpTrains ==
    ASSUME Inv, NEW c \in Id, MergeBump(c)
    PROVE  Train!Next \/ UNCHANGED Train!vars
<1>1. bump[c] = "open" /\ UNCHANGED <<rel, tag, moved>> /\ Branched' = Branched
  BY DEF MergeBump, Branched
<1>2. CASE UNCHANGED <<commit, main>>
  BY <1>1, <1>2, TrainStutters
<1>3. CASE /\ commit[main].ver = commit[c].ver
           /\ NewCommit(main, commit[c].ver + 1, Generated)
           /\ main' = Len(commit) + 1
  <2>1. PICK n \in Name : n[1] = commit[c].ver /\ tag[Plain(n)] # Nowhere
    BY <1>1 DEF Inv, ReleaseInv, BumpInv, Tagged
  <2>2. commit'[main'].ver = commit[main].ver + 1
    <3>1. commit \in Seq(Commit) /\ Len(commit) \in Nat
      BY CommitFacts DEF Inv, TypeOK
    <3>2. QED
      BY <1>3, <3>1 DEF NewCommit
  <2>3. Train!Iterate
    BY <1>1, <1>3, <2>1, <2>2 DEF Train!Iterate, Branched, Plain, Vtag
  <2>4. QED
    BY <2>3 DEF Train!Next
<1>4. QED
  BY <1>2, <1>3 DEF MergeBump, NextDevelopmentIteration

(* Developers leave versions and names alone.                               *)
LEMMA DevelopTrains ==
    ASSUME Inv, NEW base \in {0} \cup Version, Develop(base)
    PROVE  UNCHANGED Train!vars
<1>1. PICK p \in 1..Len(commit) : p = BranchHead(base)
  BY BranchHeadFacts DEF Develop
<1>2. PICK d : NewCommit(p, commit[p].ver, d)
  BY <1>1 DEF Develop
<1>3. UNCHANGED <<tag, moved>>
  BY DEF Develop
<1>4. /\ commit'[Len(commit) + 1].ver = commit[p].ver
      /\ \A c \in 1..Len(commit) : commit'[c] = commit[c]
      /\ Len(commit) \in Nat /\ main \in 1..Len(commit)
  <2>1. commit \in Seq(Commit) /\ Len(commit) \in Nat /\ main \in 1..Len(commit)
    BY CommitFacts DEF Inv, TypeOK
  <2>2. QED
    BY <1>2, <2>1 DEF NewCommit
<1>5. CASE base = 0
  <2>1. main' = Len(commit) + 1 /\ rel' = rel /\ p = main
    BY <1>1, <1>5 DEF Develop, BranchHead
  <2>2. QED
    BY <1>3, <1>4, <2>1, TrainStutters DEF Branched
<1>6. CASE base # 0
  <2>1. /\ main' = main /\ base \in Version /\ rel[base] = p
        /\ rel' = [rel EXCEPT ![base] = Len(commit) + 1]
    BY <1>1, <1>6 DEF Develop, BranchHead
  <2>2. Branched' = Branched
    BY <1>4, <2>1 DEF Branched, Inv, TypeOK, Nowhere
  <2>3. QED
    BY <1>3, <1>4, <2>1, <2>2, TrainStutters
<1>7. QED
  BY <1>5, <1>6

(* The scripts, the workflow, merges and commits, in any interleaving and   *)
(* with a failure anywhere, implement ReleaseTrain: names appear in its     *)
(* order, and main never leaves a version that nobody has tagged.           *)
THEOREM TrainImplemented == Spec => ImplementsTrain
<1>1. Init => Train!Init
  <2> SUFFICES ASSUME Init PROVE Train!Init
    OBVIOUS
  <2>1. \A n \in Name : tag[Plain(n)] = Nowhere /\ tag[Vtag(n)] = Nowhere
    BY NameFacts DEF Init
  <2>2. commit[main].ver = 1
    BY DEF Init
  <2>3. QED
    BY <2>1, <2>2 DEF Init, Train!Init
<1>2. Inv /\ [Next]_vars => [Train!Next]_(Train!vars)
  <2> SUFFICES ASSUME Inv, [Next]_vars PROVE Train!Next \/ UNCHANGED Train!vars
    OBVIOUS
  <2>1. ASSUME UNCHANGED <<commit, main, rel, tag, moved>>
        PROVE  UNCHANGED Train!vars
    BY <2>1, TrainStutters DEF Branched
  <2>2. ASSUME NEW r \in Run, Script(r) PROVE Train!Next \/ UNCHANGED Train!vars
    <3>1. ASSUME NEW base \in {0} \cup Version,
                 StartCandidate(r, base) \/ StartRelease(r, base)
          PROVE  UNCHANGED Train!vars
      BY <2>1, <3>1 DEF StartCandidate, StartRelease, origin
    <3>2. CASE PullMain(r) \/ NameCandidate(r) \/ Fail(r)
      BY <2>1, <3>2 DEF PullMain, NameCandidate, Fail, origin
    <3>3. CASE Bump(r)
      BY <2>1, <3>3 DEF Bump
    <3>4. QED
      BY <2>2, <3>1, <3>2, <3>3, CreateBranchTrains, PushPlainTrains, PushVTrains
         DEF Script
  <2>3. ASSUME NEW n \in Name, Publish(n) PROVE Train!Next
    BY <2>3, VtagTrains, CommitFacts DEF Publish, Inv
  <2>4. CASE UNCHANGED vars
    BY <2>1, <2>4 DEF vars, origin
  <2>5. QED
    BY <2>2, <2>3, <2>4, MergeBumpTrains, DevelopTrains DEF Next
<1>3. QED
  BY <1>1, <1>2, InvCorrect, PTL DEF Spec, Train!Spec, ImplementsTrain
=============================================================================
