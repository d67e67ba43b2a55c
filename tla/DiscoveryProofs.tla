--------------------------- MODULE DiscoveryProofs ---------------------------
(***************************************************************************)
(* What the rules of Discovery do with the labels they join, for every set  *)
(* of ports and tenants: the two regular expressions are read off once, in  *)
(* OptsInMeans and ShortMatches, and the properties follow from these.      *)
(***************************************************************************)
EXTENDS Discovery, TLAPS

Values == {Absent, "true", "false"}
Char   == Port \cup {Host, Colon, Semicolon}

-----------------------------------------------------------------------------
LEMMA CatElements ==
    ASSUME NEW S, NEW x \in Seq(S), NEW y \in Seq(S)
    PROVE  /\ x \o y \in Seq(S)
           /\ Len(x \o y) = Len(x) + Len(y)
           /\ \A k \in 1..Len(x) : (x \o y)[k] = x[k]
           /\ \A k \in 1..Len(y) : (x \o y)[Len(x) + k] = y[k]
  OBVIOUS

(* Where the elements of three sequences stand when they are joined.        *)
IsJoin(s, x, y, z) ==
    /\ Len(s) = Len(x) + Len(y) + Len(z) + 2
    /\ \A k \in 1..Len(x) : s[k] = x[k]
    /\ s[Len(x) + 1] = Semicolon
    /\ \A k \in 1..Len(y) : s[Len(x) + 1 + k] = y[k]
    /\ s[Len(x) + Len(y) + 2] = Semicolon
    /\ \A k \in 1..Len(z) : s[Len(x) + Len(y) + 2 + k] = z[k]

LEMMA JoinElements ==
    ASSUME NEW S, Semicolon \in S, NEW x \in Seq(S), NEW y \in Seq(S), NEW z \in Seq(S)
    PROVE  Join(x, y, z) \in Seq(S) /\ IsJoin(Join(x, y, z), x, y, z)
<1> DEFINE t == <<Semicolon>>
           a == x \o t
           b == a \o y
           c == b \o t
           s == c \o z
<1>1. t \in Seq(S) /\ Len(t) = 1 /\ t[1] = Semicolon
  OBVIOUS
<1>2. /\ a \in Seq(S) /\ Len(a) = Len(x) + 1
      /\ \A k \in 1..Len(x) : a[k] = x[k]
      /\ a[Len(x) + 1] = Semicolon
  BY <1>1, CatElements
<1>0. s = Join(x, y, z)
  BY DEF Join
<1> HIDE DEF t, a
<1>3. /\ b \in Seq(S) /\ Len(b) = Len(a) + Len(y)
      /\ \A k \in 1..Len(a) : b[k] = a[k]
      /\ \A k \in 1..Len(y) : b[Len(a) + k] = y[k]
  <2>1. a \in Seq(S)
    BY <1>2
  <2> QED BY <2>1, CatElements
<1> HIDE DEF b
<1>4. /\ c \in Seq(S) /\ Len(c) = Len(b) + 1
      /\ \A k \in 1..Len(b) : c[k] = b[k]
      /\ c[Len(b) + 1] = Semicolon
  <2>1. b \in Seq(S)
    BY <1>3
  <2>2. /\ c \in Seq(S) /\ Len(c) = Len(b) + Len(t)
        /\ \A k \in 1..Len(b) : c[k] = b[k]
        /\ \A k \in 1..Len(t) : c[Len(b) + k] = t[k]
    <3>1. t \in Seq(S)
      BY <1>1
    <3> QED BY <2>1, <3>1, CatElements
  <2> QED BY <2>2, <1>1
<1> HIDE DEF c
<1>5. /\ s \in Seq(S) /\ Len(s) = Len(c) + Len(z)
      /\ \A k \in 1..Len(c) : s[k] = c[k]
      /\ \A k \in 1..Len(z) : s[Len(c) + k] = z[k]
  <2>1. c \in Seq(S)
    BY <1>4
  <2> QED BY <2>1, CatElements
<1> HIDE DEF s
<1>6. Len(x) \in Nat /\ Len(y) \in Nat /\ Len(z) \in Nat
  OBVIOUS
<1>7. Len(a) = Len(x) + 1 /\ Len(b) = Len(x) + Len(y) + 1 /\ Len(c) = Len(x) + Len(y) + 2
  BY <1>2, <1>3, <1>4, <1>6
<1>8. \A k \in 1..Len(x) : s[k] = x[k]
  BY <1>2, <1>3, <1>4, <1>5, <1>6, <1>7
<1>9. s[Len(x) + 1] = Semicolon
  BY <1>2, <1>3, <1>4, <1>5, <1>6, <1>7
<1>10. \A k \in 1..Len(y) : s[Len(x) + 1 + k] = y[k]
  <2> TAKE k \in 1..Len(y)
  <2>1. Len(a) + k = Len(x) + 1 + k /\ Len(a) + k \in 1..Len(b) /\ Len(a) + k \in 1..Len(c)
    BY <1>6, <1>7
  <2> QED BY <2>1, <1>3, <1>4, <1>5
<1>11. s[Len(x) + Len(y) + 2] = Semicolon
  BY <1>4, <1>5, <1>6, <1>7
<1>12. Len(s) = Len(x) + Len(y) + Len(z) + 2
  BY <1>5, <1>6, <1>7
<1>13. \A k \in 1..Len(z) : s[Len(x) + Len(y) + 2 + k] = z[k]
  BY <1>5, <1>7
<1>14. s \in Seq(S) /\ IsJoin(s, x, y, z)
  BY <1>5, <1>8, <1>9, <1>10, <1>11, <1>12, <1>13 DEF IsJoin
<1> QED BY <1>0, <1>14

LEMMA Places ==
    ASSUME NEW lx \in {0, 1}, NEW ly \in {0, 1}, NEW lz \in {0, 1},
           NEW k \in 1..(lx + ly + lz + 2)
    PROVE  \/ k \in 1..lx
           \/ k = lx + 1 \/ k = lx + ly + 2
           \/ k = lx + 1 + 1 /\ ly = 1
           \/ k = lx + ly + 2 + 1 /\ lz = 1
  OBVIOUS

LEMMA TokenIs ==
    ASSUME NEW S, NEW v \in S \cup {Absent}
    PROVE  /\ Token(v) \in Seq(S)
           /\ v = Absent => Len(Token(v)) = 0
           /\ v # Absent => Len(Token(v)) = 1 /\ Token(v)[1] = v
<1>1. CASE v = Absent
  BY <1>1 DEF Token
<1>2. CASE v # Absent
  BY <1>2 DEF Token
<1> QED BY <1>1, <1>2

(* The expression of the scrape annotation, on three labels of which each   *)
(* may be empty: it matches only if one of them is "true" and none "false". *)
LEMMA OptsInMeans ==
    ASSUME NEW a \in Values, NEW b \in Values, NEW c \in Values,
           OptsIn(Join(Token(a), Token(b), Token(c)))
    PROVE  "true" \in {a, b, c} /\ "false" \notin {a, b, c}
<1> DEFINE S == {"true", "false", Semicolon}
           x == Token(a)
           y == Token(b)
           z == Token(c)
           s == Join(x, y, z)
<1>1. PICK i \in 1..Len(s) :
          /\ s[i] = "true"
          /\ \A k \in 1..(i - 1) : s[k] = Semicolon
          /\ \A k \in (i + 1)..Len(s) : s[k] \in {Semicolon, "true"}
  BY DEF OptsIn
<1>2. /\ x \in Seq(S) /\ (a = Absent => Len(x) = 0) /\ (a # Absent => Len(x) = 1 /\ x[1] = a)
      /\ y \in Seq(S) /\ (b = Absent => Len(y) = 0) /\ (b # Absent => Len(y) = 1 /\ y[1] = b)
      /\ z \in Seq(S) /\ (c = Absent => Len(z) = 0) /\ (c # Absent => Len(z) = 1 /\ z[1] = c)
  BY TokenIs DEF Values
<1>3. s \in Seq(S) /\ IsJoin(s, x, y, z)
  <2>1. Semicolon \in S
    OBVIOUS
  <2>2. x \in Seq(S)
    BY <1>2
  <2>3. y \in Seq(S)
    BY <1>2
  <2>4. z \in Seq(S)
    BY <1>2
  <2> HIDE DEF x, y, z, S
  <2> QED BY <2>1, <2>2, <2>3, <2>4, JoinElements
<1> HIDE DEF s, x, y, z
<1>4. \A k \in 1..Len(s) : s[k] \in {Semicolon, "true"} /\ s[k] # "false"
  BY <1>1, <1>3 DEF Semicolon
<1>0. Len(x) \in {0, 1} /\ Len(y) \in {0, 1} /\ Len(z) \in {0, 1}
  BY <1>2
<1>5. \A v \in {a, b, c} : v # Absent => \E k \in 1..Len(s) : s[k] = v
  <2>1. a # Absent => 1 \in 1..Len(s) /\ s[1] = a
    <3>1. a # Absent => 1 \in 1..Len(x)
      BY <1>2
    <3>2. 1 \in 1..Len(s)
      BY <1>0, <1>3 DEF IsJoin
    <3> QED BY <1>2, <1>3, <3>1, <3>2 DEF IsJoin
  <2>2. b # Absent => Len(x) + 1 + 1 \in 1..Len(s) /\ s[Len(x) + 1 + 1] = b
    <3>1. b # Absent => 1 \in 1..Len(y)
      BY <1>2
    <3>2. Len(x) + 1 + 1 \in 1..Len(s)
      BY <1>0, <1>3 DEF IsJoin
    <3> QED BY <1>2, <1>3, <3>1, <3>2 DEF IsJoin
  <2>3. c # Absent => Len(x) + Len(y) + 2 + 1 \in 1..Len(s) /\ s[Len(x) + Len(y) + 2 + 1] = c
    <3>1. c # Absent => 1 \in 1..Len(z)
      BY <1>0, <1>2
    <3>2. c # Absent => Len(x) + Len(y) + 2 + 1 \in 1..Len(s)
      BY <1>0, <1>2, <1>3 DEF IsJoin
    <3> QED BY <1>2, <1>3, <3>1, <3>2 DEF IsJoin
  <2> QED BY <2>1, <2>2, <2>3
<1>6. \A k \in 1..Len(s) : s[k] \in {Semicolon, a, b, c}
  <2> TAKE k \in 1..Len(s)
  <2>1. CASE k \in 1..Len(x)
    BY <1>0, <1>2, <1>3, <2>1 DEF IsJoin
  <2>2. CASE k = Len(x) + 1 \/ k = Len(x) + Len(y) + 2
    BY <1>3, <2>2 DEF IsJoin
  <2>3. CASE k = Len(x) + 1 + 1 /\ Len(y) = 1
    BY <1>2, <1>3, <2>3 DEF IsJoin
  <2>4. CASE k = Len(x) + Len(y) + 2 + 1 /\ Len(z) = 1
    BY <1>2, <1>3, <2>4 DEF IsJoin
  <2>5. Len(s) = Len(x) + Len(y) + Len(z) + 2
    BY <1>3 DEF IsJoin
  <2>6. \/ k \in 1..Len(x)
        \/ k = Len(x) + 1 \/ k = Len(x) + Len(y) + 2
        \/ k = Len(x) + 1 + 1 /\ Len(y) = 1
        \/ k = Len(x) + Len(y) + 2 + 1 /\ Len(z) = 1
    <3>1. k \in 1..(Len(x) + Len(y) + Len(z) + 2)
      BY <2>5
    <3> QED BY <1>0, <3>1, Places
  <2> QED BY <2>1, <2>2, <2>3, <2>4, <2>6
<1>7. "false" \notin {a, b, c}
  BY <1>4, <1>5 DEF Absent
<1>8. "true" \in {a, b, c}
  BY <1>1, <1>6 DEF Semicolon
<1> QED BY <1>7, <1>8

-----------------------------------------------------------------------------
(* What a match of the port annotation's expression ends with.              *)
LEMMA MatchMeans ==
    ASSUME NEW s \in Seq(Char), NEW m \in Matches(s)
    PROVE  /\ m[1] \in 1..Len(s) /\ m[2] \in Port
           /\ \A k \in 1..m[1] : s[k] # Colon
           /\ \/ Len(s) = m[1] + 2 /\ s[m[1] + 1] = Semicolon
              \/ /\ Len(s) = m[1] + 4
                 /\ s[m[1] + 1] = Colon /\ s[m[1] + 2] \in Port
                 /\ s[m[1] + 3] = Semicolon /\ s[m[1] + 4] \in Port
<1> DEFINE rest == SubSeq(s, m[1] + 1, Len(s))
<1>1. /\ m[1] \in 1..Len(s) /\ m[2] \in Port
      /\ \A k \in 1..m[1] : s[k] # Colon
      /\ \/ rest = <<Semicolon, m[2]>>
         \/ \E q \in Port : rest = <<Colon, q, Semicolon, m[2]>>
  BY DEF Matches
<1>2. Len(rest) = Len(s) - m[1] /\ \A k \in 1..Len(rest) : rest[k] = s[m[1] + k]
  BY <1>1
<1>3. CASE rest = <<Semicolon, m[2]>>
  <2> HIDE DEF rest
  <2>1. Len(rest) = 2 /\ rest[1] = Semicolon
    BY <1>3
  <2>2. rest[1] = s[m[1] + 1]
    BY <1>2, <2>1
  <2>3. Len(s) = m[1] + 2
    <3>1. Len(s) \in Nat
      BY <1>1
    <3>2. m[1] \in Nat
      BY <1>1
    <3>3. Len(rest) = Len(s) - m[1]
      BY <1>2
    <3>4. Len(s) - m[1] = 2
      BY <3>3, <2>1
    <3> QED BY <3>1, <3>2, <3>4
  <2> QED BY <1>1, <2>1, <2>2, <2>3
<1>4. ASSUME NEW q \in Port, rest = <<Colon, q, Semicolon, m[2]>>
      PROVE  /\ Len(s) = m[1] + 4
             /\ s[m[1] + 1] = Colon /\ s[m[1] + 2] \in Port
             /\ s[m[1] + 3] = Semicolon /\ s[m[1] + 4] \in Port
  <2> HIDE DEF rest
  <2>1. /\ Len(rest) = 4
        /\ rest[1] = Colon /\ rest[2] = q /\ rest[3] = Semicolon /\ rest[4] = m[2]
    BY <1>4
  <2>2. \A k \in 1..4 : rest[k] = s[m[1] + k]
    BY <1>2, <2>1
  <2>3. Len(s) = m[1] + 4
    <3>1. Len(s) \in Nat
      BY <1>1
    <3>2. m[1] \in Nat
      BY <1>1
    <3>3. Len(rest) = Len(s) - m[1]
      BY <1>2
    <3>4. Len(s) - m[1] = 4
      BY <3>3, <2>1
    <3> QED BY <3>1, <3>2, <3>4
  <2>4. m[2] \in Port
    BY <1>1
  <2> QED BY <2>1, <2>2, <2>3, <2>4
<1> QED BY <1>1, <1>3, <1>4

(* An address with a port is never matched: the expression allows for one   *)
(* semicolon behind the address, and two are there.                         *)
LEMMA NoMatchWithPort ==
    ASSUME NEW p \in Port, NEW a \in Port \cup {Absent}, NEW b \in Port \cup {Absent}
    PROVE  Matches(Join(<<Host, Colon, p>>, Token(a), Token(b))) = {}
<1> DEFINE x == <<Host, Colon, p>>
           y == Token(a)
           z == Token(b)
           s == Join(x, y, z)
<1>1. x \in Seq(Char) /\ Len(x) = 3 /\ x[2] = Colon
  BY DEF Char
<1>2. y \in Seq(Char) /\ z \in Seq(Char) /\ Len(y) \in Nat /\ Len(z) \in Nat
  BY TokenIs DEF Char
<1>3. s \in Seq(Char) /\ IsJoin(s, x, y, z)
  <2>1. x \in Seq(Char)
    BY <1>1
  <2>2. y \in Seq(Char)
    BY <1>2
  <2>3. z \in Seq(Char)
    BY <1>2
  <2>4. Semicolon \in Char
    BY DEF Char
  <2> HIDE DEF x, y, z
  <2> QED BY <2>1, <2>2, <2>3, <2>4, JoinElements
<1> HIDE DEF x, y, z
<1>4. Len(s) = Len(y) + Len(z) + 5 /\ s[2] = Colon /\ s[4] = Semicolon
  BY <1>1, <1>2, <1>3 DEF IsJoin
<1>5. Len(s) = 5 => s[5] = Semicolon
  <2> DEFINE n == Len(s)
  <2>0. Len(x) = 3 /\ Len(y) \in Nat /\ Len(z) \in Nat /\ n = Len(y) + Len(z) + 5
    BY <1>1, <1>2, <1>4
  <2> HIDE DEF n
  <2>2. n = 5 => Len(x) + Len(y) + 2 = 5
    BY <2>0
  <2>1. Len(s) = 5 => Len(x) + Len(y) + 2 = 5
    BY <2>2 DEF n
  <2> QED BY <1>3, <2>1 DEF IsJoin
<1> HIDE DEF s
<1>6. ASSUME NEW m \in Matches(s) PROVE FALSE
  <2>1. /\ m[1] \in 1..Len(s)
        /\ \A k \in 1..m[1] : s[k] # Colon
        /\ \/ Len(s) = m[1] + 2 /\ s[m[1] + 1] = Semicolon
           \/ Len(s) = m[1] + 4 /\ s[m[1] + 4] \in Port
    BY <1>3, MatchMeans
  <2>2. m[1] = 1
    BY <1>2, <1>4, <2>1
  <2> QED BY <2>1, <2>2, <1>2, <1>4, <1>5, PortAssumption DEF Semicolon, Colon
<1> QED BY <1>6 DEF s, x, y, z

-----------------------------------------------------------------------------
(* The labels of a target, one by one.                                      *)
LEMMA MetaIs ==
    ASSUME NEW r \in Role, NEW m \in Meta(r)
    PROVE  /\ m.scrape.own \in Values /\ m.scrape.service \in Values /\ m.monitor \in Values
           /\ m.port.own \in Port \cup {Absent} /\ m.port.service \in Port \cup {Absent}
  BY DEF Meta, Labels, Values

(* What a match is replaced by is an address again, of the same tokens.     *)
LEMMA ReplacementType ==
    ASSUME NEW s \in Seq(Char), NEW m \in Matches(s)
    PROVE  Replacement(s, m) \in Seq(Char)
<1>1. m[1] \in 1..Len(s) /\ m[2] \in Port
  BY DEF Matches
<1>2. SubSeq(s, 1, m[1]) \in Seq(Char)
  BY <1>1
<1>3. <<Colon, m[2]>> \in Seq(Char)
  BY <1>1 DEF Char
<1> QED BY <1>2, <1>3 DEF Replacement

LEMMA JoinedType ==
    ASSUME TypeOK
    PROVE  Joined \in Seq(Char)
<1>1. Token(meta.port.own) \in Seq(Char) /\ Token(meta.port.service) \in Seq(Char)
  BY MetaIs, TokenIs DEF TypeOK, Char
<1>2. address \in Seq(Char) /\ Semicolon \in Char
  BY DEF TypeOK, Char
<1> QED BY <1>1, <1>2, JoinElements DEF Joined

(* Type correctness: whatever a rule makes of the labels is of their kinds, *)
(* and the address stays one.                                               *)
THEOREM TypeCorrect == Spec => []TypeOK
<1>1. Init => TypeOK
  <2> SUFFICES ASSUME Init PROVE TypeOK
    OBVIOUS
  <2>1. \A p \in Port : <<Host, Colon, p>> \in Seq(Char)
    BY DEF Char
  <2>2. <<Host>> \in Seq(Char)
    BY DEF Char
  <2>3. address \in Seq(Char)
    BY <2>1, <2>2 DEF Init
  <2> QED BY <2>3 DEF Init, TypeOK, Rule, Char
<1>2. TypeOK /\ [Next]_vars => TypeOK'
  <2> SUFFICES ASSUME TypeOK, [Next]_vars PROVE TypeOK'
    OBVIOUS
  <2>1. CASE ScrapeAnnotation
    BY <2>1 DEF TypeOK, ScrapeAnnotation, Unchanged, Rule
  <2>2. CASE KeepAnnotated \/ KeepRunning \/ KeepTenant
    BY <2>2 DEF TypeOK, KeepAnnotated, KeepRunning, KeepTenant, Keep, Unchanged, Rule
  <2>3. CASE PortAnnotation
    <3>1. address' \in Seq(Char)
      <4>1. CASE Matches(Joined) = {}
        BY <2>3, <4>1 DEF PortAnnotation, TypeOK, Char
      <4>2. CASE Matches(Joined) # {}
        BY <2>3, <4>2, JoinedType, ReplacementType DEF PortAnnotation
      <4> QED BY <4>1, <4>2
    <3> QED BY <2>3, <3>1 DEF TypeOK, PortAnnotation, Unchanged, Rule, Char
  <2>4. CASE UNCHANGED vars
    BY <2>4 DEF TypeOK, vars
  <2> QED BY <2>1, <2>2, <2>3, <2>4 DEF Next
<1> QED BY <1>1, <1>2, PTL DEF Spec

-----------------------------------------------------------------------------
(* OptOutWins speaks of the last rule only.  What the rules between carry   *)
(* on is __tmp_scrape: "true" only for a target that said so, and "true"    *)
(* for every target that the second rule lets through.                      *)
Asked(m) ==
    LET values == {m.scrape.own, m.scrape.service, m.monitor}
    IN "true" \in values /\ "false" \notin values

ScrapeInv ==
    /\ tmpScrape = "true" => Asked(meta)
    /\ rule \in {"keep running", "keep tenant", "port annotation", "scrape"} =>
           tmpScrape = "true"

(* A target that is scraped said so, and nothing of it said otherwise.      *)
THEOREM OptOutWinsCorrect == Spec => []OptOutWins
<1>1. Init => ScrapeInv
  BY DEF Init, ScrapeInv
<1>2. TypeOK /\ ScrapeInv /\ [Next]_vars => ScrapeInv'
  <2> SUFFICES ASSUME TypeOK, ScrapeInv, [Next]_vars PROVE ScrapeInv'
    OBVIOUS
  <2>1. CASE ScrapeAnnotation
    <3>1. OptsIn(ScrapeLabels) => Asked(meta)
      BY MetaIs, OptsInMeans DEF TypeOK, ScrapeLabels, Asked
    <3> QED BY <2>1, <3>1 DEF ScrapeAnnotation, Unchanged, ScrapeInv
  <2>2. CASE KeepAnnotated \/ KeepRunning \/ KeepTenant
    BY <2>2 DEF KeepAnnotated, KeepRunning, KeepTenant, Keep, At, Unchanged, ScrapeInv
  <2>3. CASE PortAnnotation
    BY <2>3 DEF PortAnnotation, At, Unchanged, ScrapeInv
  <2>4. CASE UNCHANGED vars
    BY <2>4 DEF ScrapeInv, vars
  <2> QED BY <2>1, <2>2, <2>3, <2>4 DEF Next
<1>3. ScrapeInv => OptOutWins
  BY DEF ScrapeInv, OptOutWins, At, Asked
<1> QED BY <1>1, <1>2, <1>3, TypeCorrect, PTL DEF Spec

(* An address with a port keeps its host, and gets no port but one that an  *)
(* annotation names: with NoMatchWithPort, it even keeps its own.           *)
THEOREM AddressKeepsHostCorrect == Spec => AddressKeepsHost
<1>1. ASSUME TypeOK, [Next]_vars, NEW p \in Port, address = <<Host, Colon, p>>
      PROVE  address' = address
  <2>1. CASE PortAnnotation
    <3>1. Matches(Joined) = {}
      BY <1>1, MetaIs, NoMatchWithPort DEF Joined, TypeOK
    <3> QED BY <2>1, <3>1 DEF PortAnnotation
  <2>2. CASE ~PortAnnotation
    BY <1>1, <2>2 DEF Next, ScrapeAnnotation, KeepAnnotated, KeepRunning, KeepTenant, vars
  <2> QED BY <2>1, <2>2
<1> DEFINE Step == \A p \in Port :
                address = <<Host, Colon, p>> =>
                    \E q \in {p, meta.port.own, meta.port.service} \cap Port :
                        address' = <<Host, Colon, q>>
<1>2. TypeOK /\ [Next]_vars => Step
  BY <1>1
<1>3. TypeOK /\ [Next]_vars => [Step]_vars
  BY <1>2
<1> HIDE DEF Step
<1>4. Spec => [][Step]_vars
  BY <1>3, TypeCorrect, PTL DEF Spec
<1> QED BY <1>4 DEF Step, AddressKeepsHost
=============================================================================
