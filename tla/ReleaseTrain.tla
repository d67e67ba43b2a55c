---------------------------- MODULE ReleaseTrain ----------------------------
(***************************************************************************)
(* What those who watch the repository are promised of its versions: which  *)
(* names appear on origin and in which order.  No commit, clone, script or  *)
(* failure is seen here.  Release is shown to implement this specification. *)
(***************************************************************************)
EXTENDS Integers

CONSTANTS MaxVersion,  \* minor versions
          MaxRC        \* candidate numbers

Version == 1..MaxVersion
Final   == -1
Name    == Version \X ({Final} \cup 0..MaxRC)

VARIABLES
    dev,        \* the version that main is developing
    branched,   \* versions with a release branch
    reopened,   \* those whose branch was made anew by a second run
    published,  \* names without "v": what the scripts tag first
    released    \* names with "v", and the GitHub releases behind them

vars == <<dev, branched, reopened, published, released>>

Init ==
    /\ dev = 1
    /\ branched = {} /\ reopened = {}
    /\ published = {} /\ released = {}

(* A release branch is made only for a version that has been developed.     *)
Branch(v) ==
    /\ v <= dev
    /\ branched' = branched \cup {v}
    /\ reopened' \in {reopened} \cup {reopened \cup {v} : w \in branched \cap {v}}
    /\ UNCHANGED <<dev, published, released>>

(* The next candidate of a version on a branch: the number after the last   *)
(* one, unless the version is final or its branch was made anew.            *)
Candidate(v, k) ==
    /\ v \in branched
    /\ <<v, k>> \notin published
    /\ k > 0 => \/ <<v, k - 1>> \in published
                \/ <<v, Final>> \in published \/ v \in reopened
    /\ published' = published \cup {<<v, k>>}
    /\ UNCHANGED <<dev, branched, reopened, released>>

FinalRelease(v) ==
    /\ v <= dev
    /\ <<v, Final>> \notin published
    /\ published' = published \cup {<<v, Final>>}
    /\ UNCHANGED <<dev, branched, reopened, released>>

(* The name with "v" comes after the one without, and once.                 *)
Announce(n) ==
    /\ n \in published \ released
    /\ released' = released \cup {n}
    /\ UNCHANGED <<dev, branched, reopened, published>>

(* main goes on to the next version, never past one nobody has tagged.      *)
Iterate ==
    /\ \E n \in published : n[1] = dev
    /\ dev' = dev + 1
    /\ UNCHANGED <<branched, reopened, published, released>>

Next ==
    \/ \E v \in Version : Branch(v) \/ FinalRelease(v)
    \/ \E v \in Version, k \in 0..MaxRC : Candidate(v, k)
    \/ \E n \in Name : Announce(n)
    \/ Iterate

Spec == Init /\ [][Next]_vars
=============================================================================
