------------------------------ MODULE Discovery ------------------------------
(***************************************************************************)
(* Which discovered Kubernetes targets Alloy scrapes, and where: the rules  *)
(* of metrics/annotations-scrape.alloy from the scrape annotation to the    *)
(* port, each one action, on one target of any role.                        *)
(*                                                                         *)
(* A rule joins its source labels with ";" and matches its regular          *)
(* expression against all of the result.  A label that the target does not  *)
(* have is empty.  With the role "endpoints" an annotation may come from    *)
(* the endpoints and from their service; with "service" and "pod" both      *)
(* labels are the same.                                                     *)
(***************************************************************************)
EXTENDS Integers, Sequences

CONSTANTS Port,   \* port numbers, as strings of digits
          Tenant  \* values of the tenant annotation

Role   == {"endpoints", "service", "pod"}
Absent == "absent"    \* the value of a label that the target does not have
Any    == "any"       \* the regular expression ".*", the default of "tenant"

(* What an address and the joined labels are made of, ports aside.          *)
Host      == "host"
Colon     == "colon"
Semicolon == "semicolon"

(* A port is no other token of an address.                                  *)
ASSUME PortAssumption == Port \cap {Absent, Host, Colon, Semicolon} = {}

Labels(own, service) == [own : own, service : service]
OfRole(r, pair) == r = "endpoints" \/ pair.own = pair.service

VARIABLES
    role,       \* the argument "role"
    tenant,     \* the argument "tenant", Any for none
    meta,       \* the __meta_ labels; "ready" stands for those of the pod:
                \* running, ready, no init container, or no pod at all
    tmpScrape,  \* __tmp_scrape
    address,    \* __address__, as a sequence of tokens
    rule        \* the rule that is next, "drop" or "scrape"

vars == <<role, tenant, meta, tmpScrape, address, rule>>

Meta(r) ==
    {m \in [scrape  : Labels({Absent, "true", "false"}, {Absent, "true", "false"}),
            monitor : {Absent, "true", "false"},
            ready   : BOOLEAN,
            tenant  : Labels({Absent} \cup Tenant, {Absent} \cup Tenant),
            port    : Labels({Absent} \cup Port, {Absent} \cup Port)] :
        /\ r = "service" => m.ready
        /\ OfRole(r, m.scrape) /\ OfRole(r, m.tenant) /\ OfRole(r, m.port)}

Init ==
    /\ role \in Role
    /\ tenant \in {Any} \cup Tenant
    /\ meta \in Meta(role)
    /\ tmpScrape = "false"
    /\ \/ address \in {<<Host, Colon, p>> : p \in Port}
       \/ role = "pod" /\ address = <<Host>>    \* a container without a port
    /\ rule = "scrape annotation"

-----------------------------------------------------------------------------
At(r)      == rule = r
Keep(c, r) == rule' = IF c THEN r ELSE "drop"
Unchanged  == UNCHANGED <<role, tenant, meta>>

Token(v) == IF v = Absent THEN <<>> ELSE <<v>>

Join(x, y, z) == x \o <<Semicolon>> \o y \o <<Semicolon>> \o z

ScrapeLabels ==
    Join(Token(meta.scrape.own), Token(meta.scrape.service), Token(meta.monitor))

(* Mutant of OptsIn: the first value decides, as in the compose module.     *)
FirstOptsIn(s) ==
    \E i \in 1..Len(s) : s[i] = "true" /\ \A k \in 1..(i - 1) : s[k] = Semicolon

(* The regular expression: perhaps some ";", "true", and to the end only    *)
(* ";" and "true".                                                          *)
OptsIn(s) ==
    \E i \in 1..Len(s) :
        /\ s[i] = "true"
        /\ \A k \in 1..(i - 1) : s[k] = Semicolon
        /\ \A k \in (i + 1)..Len(s) : s[k] \in {Semicolon, "true"}

ScrapeAnnotation ==
    /\ At("scrape annotation")
    /\ tmpScrape' = IF OptsIn(ScrapeLabels) THEN "true" ELSE tmpScrape
    /\ rule' = "keep annotated"
    /\ UNCHANGED address /\ Unchanged

(* The alternative for ports named "metrics" asks __tmp_scrape to be empty  *)
(* or "true", and it is "true" or "false".                                  *)
KeepAnnotated ==
    /\ At("keep annotated")
    /\ Keep(tmpScrape = "true", "keep running")
    /\ UNCHANGED <<tmpScrape, address>> /\ Unchanged

KeepRunning ==
    /\ At("keep running")
    /\ Keep(meta.ready, "keep tenant")
    /\ UNCHANGED <<tmpScrape, address>> /\ Unchanged

(* Two labels make a ";" that the tenant's name does not match.             *)
KeepTenant ==
    /\ At("keep tenant")
    /\ Keep(tenant = Any, "port annotation")
    /\ UNCHANGED <<tmpScrape, address>> /\ Unchanged

Joined == Join(address, Token(meta.port.own), Token(meta.port.service))

(* Mutant of Matches: the host part may be anything.                        *)
AnythingMatches(s) ==
    {m \in (1..Len(s)) \X Port :
        LET rest == SubSeq(s, m[1] + 1, Len(s))
        IN rest = <<Semicolon, m[2]>> \/ \E q \in Port : rest = <<Colon, q, Semicolon, m[2]>>}

(* The regular expression: anything without ":", perhaps ":" and a number,  *)
(* then ";" and a number to the end.                                        *)
Matches(s) ==
    {m \in (1..Len(s)) \X Port :
        LET rest == SubSeq(s, m[1] + 1, Len(s))
        IN /\ \A k \in 1..m[1] : s[k] # Colon
           /\ rest = <<Semicolon, m[2]>> \/ \E q \in Port : rest = <<Colon, q, Semicolon, m[2]>>}

Replacement(s, m) == SubSeq(s, 1, m[1]) \o <<Colon, m[2]>>

PortAnnotation ==
    /\ At("port annotation")
    /\ address' \in IF Matches(Joined) = {} THEN {address}
                    ELSE {Replacement(Joined, m) : m \in Matches(Joined)}
    /\ rule' = "scrape"
    /\ UNCHANGED tmpScrape /\ Unchanged

Next ==
    \/ ScrapeAnnotation \/ KeepAnnotated \/ KeepRunning \/ KeepTenant \/ PortAnnotation

Spec == Init /\ [][Next]_vars

-----------------------------------------------------------------------------
Rule == {"scrape annotation", "keep annotated", "keep running", "keep tenant",
         "port annotation", "scrape", "drop"}

TypeOK ==
    /\ role \in Role
    /\ tenant \in {Any} \cup Tenant
    /\ meta \in Meta(role)
    /\ tmpScrape \in {"true", "false"}
    /\ address \in Seq(Port \cup {Host, Colon, Semicolon})
    /\ rule \in Rule

(* "only allow empty or true, otherwise defaults to false": a target that   *)
(* is scraped said so somewhere, and neither it, its service nor the label  *)
(* of a headless service said otherwise, in whatever order they are joined. *)
OptOutWins ==
    At("scrape") =>
        LET values == {meta.scrape.own, meta.scrape.service, meta.monitor}
        IN "true" \in values /\ "false" \notin values

(* An address with a port keeps its host, and its port becomes no other     *)
(* than one that an annotation names, whichever of the labels that are      *)
(* joined with it are empty.                                                *)
AddressKeepsHost ==
    [][\A p \in Port :
          address = <<Host, Colon, p>> =>
              \E q \in {p, meta.port.own, meta.port.service} \cap Port :
                  address' = <<Host, Colon, q>>]_vars

(* metrics.grafana.com/port is "a single value which would override the     *)
(* scrape port being used for all ports attached to the target": a target   *)
(* that is scraped and whose annotations name one port is scraped there.    *)
PortOverrides ==
    At("scrape") =>
        \A p \in Port :
            {meta.port.own, meta.port.service} \in {{p}, {p, Absent}} =>
                address = <<Host, Colon, p>>
=============================================================================
