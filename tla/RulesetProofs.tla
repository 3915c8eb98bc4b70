----------------------------- MODULE RulesetProofs -----------------------------
(***************************************************************************)
(* The rules of table inet ttp, proved for every set of options, every     *)
(* protocol and port, and every value of Tor's ports.                      *)
(*                                                                         *)
(* First what a chain decides: FilterOutDecides and its companions give    *)
(* the verdict of each chain of firewall/builder.py and of the killswitch  *)
(* in closed form, by composing chains from their rules (DecideConcat).    *)
(* Then the inductive invariant Inv. Tables of a teardown have no closed   *)
(* form, a rule can be inserted ahead of any of them, so Inv keeps what    *)
(* every table of its kind does to the observed connection, however the    *)
(* kernel has bound it: inserting a rule that rejects only closes more.    *)
(***************************************************************************)
EXTENDS Ruleset, SequenceTheorems, WellFoundedInduction, TLAPS

\* What the rules are made of.
MatchNames == {"tor", "root", "slice", "bypass", "bypassAway", "resolvedAway", "dns",
               "unredirected", "lan", "loopback", "local", "tcp", "udp", "dot",
               "dohTcp", "dohUdp", "lo", "away", "othersAway", "any"}
Counters   == {"none", "dns_redirected", "tcp_redirected", "dot_rejected", "doh_rejected",
               "cleartext_rejected", "dns_unredirected_rejected"}
Rules      == [match : MatchNames, fam : SUBSET Both, verdict : Verdicts \ {"none"},
               counter : Counters]

--------------------------------------------------------------------------------
(* Chains *)

\* The least of some indices is there to be chosen.
LEMMA LeastIndex ==
  ASSUME NEW H \in SUBSET Nat, H # {}
  PROVE  LET least == CHOOSE i \in H : \A j \in H : i <= j
         IN  least \in H /\ \A j \in H : least <= j
<1> DEFINE Less == OpToRel(<, Nat)
<1>1. \A i, j \in Nat : <<i, j>> \in Less <=> i < j
  BY DEF OpToRel
<1>2. IsWellFoundedOn(Less, Nat)
  BY NatLessThanWellFounded
<1> HIDE DEF Less
<1>3. PICK i \in H : \A j \in H : <<j, i>> \notin Less
  BY <1>2, WFMin
<1>4. \A j \in H : ~(j < i)
  BY <1>1, <1>3, Zenon
<1>5. \A j \in H : i <= j
  BY <1>4
<1> QED BY <1>5

\* No rule matches exactly when the chain gives NoRule, which never matches.
LEMMA HitIsRule ==
  ASSUME NEW s \in Seq(Rules), NEW p
  PROVE  /\ FirstHit(s, p) = NoRule <=> \A i \in DOMAIN s : ~Hit(s[i], p)
         /\ FirstHit(s, p) # NoRule =>
               \E i \in DOMAIN s : /\ FirstHit(s, p) = s[i] /\ Hit(s[i], p)
                                   /\ \A j \in DOMAIN s : Hit(s[j], p) => i <= j
<1> DEFINE hits == {i \in DOMAIN s : Hit(s[i], p)}
<1>1. hits \in SUBSET Nat
  BY DEF hits
<1>2. CASE hits = {}
  BY <1>2 DEF FirstHit
<1>3. CASE hits # {}
  <2> DEFINE least == CHOOSE i \in hits : \A j \in hits : i <= j
  <2>1. least \in hits /\ \A j \in hits : least <= j
    BY <1>1, <1>3, LeastIndex
  <2>2. FirstHit(s, p) = s[least]
    BY <1>3 DEF FirstHit
  <2>3. s[least] # NoRule
    BY <2>1 DEF Hit, NoRule, Rule
  <2> HIDE DEF least
  <2> QED BY <2>1, <2>2, <2>3
<1> QED BY <1>2, <1>3

\* A chain in two parts: the second one decides only where the first is silent.
LEMMA ScanConcat ==
  ASSUME NEW s \in Seq(Rules), NEW t \in Seq(Rules), NEW p
  PROVE  FirstHit(s \o t, p) = IF FirstHit(s, p) = NoRule THEN FirstHit(t, p) ELSE FirstHit(s, p)
<1> DEFINE c == s \o t
<1>1. /\ c \in Seq(Rules) /\ Len(c) = Len(s) + Len(t)
      /\ \A i \in 1..Len(s) : c[i] = s[i]
      /\ \A i \in 1..Len(t) : c[i + Len(s)] = t[i]
  OBVIOUS
<1>2. Len(s) \in Nat /\ Len(t) \in Nat /\ DOMAIN s = 1..Len(s) /\ DOMAIN t = 1..Len(t)
      /\ DOMAIN c = 1..Len(c)
  BY <1>1
<1>3. \A i \in DOMAIN c : i \in DOMAIN s \/ i - Len(s) \in DOMAIN t
  BY <1>1, <1>2
<1>4. \A i \in DOMAIN c : i \notin DOMAIN s => c[i] = t[i - Len(s)] /\ i > Len(s)
  BY <1>1, <1>2, <1>3
<1>5. \A i \in DOMAIN s : i \in DOMAIN c /\ c[i] = s[i] /\ i <= Len(s)
  BY <1>1, <1>2
<1>6. \A i \in DOMAIN t : i + Len(s) \in DOMAIN c /\ c[i + Len(s)] = t[i]
  BY <1>1, <1>2
<1> HIDE DEF c
<1>7. CASE \E i \in DOMAIN s : Hit(s[i], p)
  <2>1. FirstHit(s, p) # NoRule
    BY <1>7, HitIsRule
  <2>2. PICK i \in DOMAIN s : /\ FirstHit(s, p) = s[i] /\ Hit(s[i], p)
                              /\ \A j \in DOMAIN s : Hit(s[j], p) => i <= j
    BY <2>1, HitIsRule
  <2>3. FirstHit(c, p) # NoRule
    BY <2>2, <1>1, <1>5, HitIsRule
  <2>4. PICK k \in DOMAIN c : /\ FirstHit(c, p) = c[k] /\ Hit(c[k], p)
                              /\ \A j \in DOMAIN c : Hit(c[j], p) => k <= j
    BY <2>3, <1>1, HitIsRule
  <2>5. k <= i
    BY <2>2, <2>4, <1>5
  <2>6. k \in DOMAIN s
    BY <2>5, <1>2, <1>4, <1>5
  <2>7. k = i
    BY <2>2, <2>4, <2>5, <2>6, <1>2, <1>5
  <2> QED BY <2>1, <2>2, <2>4, <2>7, <1>5 DEF c
<1>8. CASE (\A i \in DOMAIN s : ~Hit(s[i], p)) /\ \E i \in DOMAIN t : Hit(t[i], p)
  <2>1. FirstHit(s, p) = NoRule /\ FirstHit(t, p) # NoRule
    BY <1>8, HitIsRule
  <2>2. PICK i \in DOMAIN t : /\ FirstHit(t, p) = t[i] /\ Hit(t[i], p)
                              /\ \A j \in DOMAIN t : Hit(t[j], p) => i <= j
    BY <2>1, HitIsRule
  <2>3. FirstHit(c, p) # NoRule
    BY <2>2, <1>1, <1>6, HitIsRule
  <2>4. PICK k \in DOMAIN c : /\ FirstHit(c, p) = c[k] /\ Hit(c[k], p)
                              /\ \A j \in DOMAIN c : Hit(c[j], p) => k <= j
    BY <2>3, <1>1, HitIsRule
  <2>5. k <= i + Len(s)
    BY <2>2, <2>4, <1>6
  <2>6. k - Len(s) \in DOMAIN t /\ c[k] = t[k - Len(s)]
    BY <2>4, <1>3, <1>4, <1>5, <1>8
  <2>7. k = i + Len(s)
    BY <2>2, <2>4, <2>5, <2>6, <1>2
  <2> QED BY <2>1, <2>2, <2>4, <2>7, <1>6 DEF c
<1>9. CASE (\A i \in DOMAIN s : ~Hit(s[i], p)) /\ (\A i \in DOMAIN t : ~Hit(t[i], p))
  <2>1. \A i \in DOMAIN c : ~Hit(c[i], p)
    BY <1>9, <1>3, <1>4, <1>5
  <2>2. FirstHit(s, p) = NoRule /\ FirstHit(t, p) = NoRule
    BY <1>9, HitIsRule
  <2> QED BY <2>1, <2>2, <1>1, HitIsRule DEF c
<1> QED BY <1>7, <1>8, <1>9

\* The empty chain is silent.
LEMMA ScanEmpty == ASSUME NEW p PROVE FirstHit(<<>>, p) = NoRule
<1>1. <<>> \in Seq(Rules) /\ DOMAIN <<>> = {}
  OBVIOUS
<1> QED BY <1>1 DEF FirstHit

\* A chain of one rule.
LEMMA ScanOne ==
  ASSUME NEW r \in Rules, NEW p
  PROVE  /\ <<r>> \in Seq(Rules)
         /\ FirstHit(<<r>>, p) = IF Hit(r, p) THEN r ELSE NoRule
<1>1. <<r>> \in Seq(Rules) /\ DOMAIN <<r>> = {1} /\ <<r>>[1] = r
  OBVIOUS
<1>2. CASE Hit(r, p)
  <2>1. FirstHit(<<r>>, p) # NoRule
    BY <1>1, <1>2, HitIsRule
  <2>2. \E i \in DOMAIN <<r>> : FirstHit(<<r>>, p) = <<r>>[i]
    BY <1>1, <2>1, HitIsRule
  <2> QED BY <1>1, <1>2, <2>2
<1>3. CASE ~Hit(r, p)
  BY <1>1, <1>3, HitIsRule
<1> QED BY <1>2, <1>3

--------------------------------------------------------------------------------
(* The verdicts of the chains *)

\* The verdict of a chain by itself, without a policy.
Decision(chain, p) == FirstHit(chain, p).verdict

\* A chain decides nothing exactly when it is silent.
LEMMA Silence ==
  ASSUME NEW s \in Seq(Rules), NEW p
  PROVE  /\ Decision(s, p) = "none" <=> FirstHit(s, p) = NoRule
         /\ Decision(s, p) \in Verdicts
<1>1. CASE FirstHit(s, p) = NoRule
  BY <1>1 DEF Decision, NoRule, Rule, Verdicts
<1>2. CASE FirstHit(s, p) # NoRule
  <2>1. PICK i \in DOMAIN s : FirstHit(s, p) = s[i]
    BY <1>2, HitIsRule
  <2>2. s[i] \in Rules
    BY <2>1
  <2> QED BY <1>2, <2>1, <2>2 DEF Decision, Rules
<1> QED BY <1>1, <1>2

\* The verdict of a chain in two parts.
LEMMA DecideConcat ==
  ASSUME NEW s \in Seq(Rules), NEW t \in Seq(Rules), NEW p
  PROVE  /\ s \o t \in Seq(Rules)
         /\ Decision(s \o t, p) = IF Decision(s, p) = "none" THEN Decision(t, p) ELSE Decision(s, p)
<1>1. s \o t \in Seq(Rules)
  OBVIOUS
<1>2. Decision(s, p) = "none" <=> FirstHit(s, p) = NoRule
  BY Silence
<1>3. FirstHit(s \o t, p) = IF FirstHit(s, p) = NoRule THEN FirstHit(t, p) ELSE FirstHit(s, p)
  BY ScanConcat
<1> QED BY <1>1, <1>2, <1>3 DEF Decision

\* The verdict of an empty chain.
LEMMA DecideEmpty == ASSUME NEW p PROVE <<>> \in Seq(Rules) /\ Decision(<<>>, p) = "none"
<1>1. <<>> \in Seq(Rules)
  OBVIOUS
<1> QED BY <1>1, ScanEmpty DEF Decision, NoRule, Rule

\* The verdict of a chain of one rule.
LEMMA DecideOne ==
  ASSUME NEW m \in MatchNames, NEW f \in SUBSET Both,
         NEW v \in Verdicts \ {"none"}, NEW c \in Counters, NEW p
  PROVE  /\ <<Rule(m, f, v, c)>> \in Seq(Rules)
         /\ Decision(<<Rule(m, f, v, c)>>, p) = IF p.fam \in f /\ Matches(m, p) THEN v ELSE "none"
<1> DEFINE r == Rule(m, f, v, c)
<1>1. r \in Rules
  BY DEF Rule, Rules
<1>2. r.verdict = v /\ r.fam = f /\ r.match = m
  BY DEF Rule
<1> HIDE DEF r
<1>3. <<r>> \in Seq(Rules) /\ FirstHit(<<r>>, p) = IF Hit(r, p) THEN r ELSE NoRule
  BY <1>1, ScanOne
<1>4. Decision(<<r>>, p) = IF p.fam \in f /\ Matches(m, p) THEN v ELSE "none"
  BY <1>2, <1>3 DEF Hit, Decision, NoRule, Rule
<1> QED BY <1>3, <1>4 DEF r

\* The names the rules use.
LEMMA Names ==
  /\ "tor" \in MatchNames /\ "root" \in MatchNames /\ "slice" \in MatchNames
  /\ "bypass" \in MatchNames /\ "bypassAway" \in MatchNames /\ "resolvedAway" \in MatchNames
  /\ "dns" \in MatchNames /\ "unredirected" \in MatchNames /\ "lan" \in MatchNames
  /\ "loopback" \in MatchNames /\ "local" \in MatchNames /\ "tcp" \in MatchNames
  /\ "udp" \in MatchNames /\ "dot" \in MatchNames /\ "dohTcp" \in MatchNames
  /\ "dohUdp" \in MatchNames /\ "lo" \in MatchNames /\ "away" \in MatchNames
  /\ "othersAway" \in MatchNames /\ "any" \in MatchNames
  /\ Uncounted \in Counters /\ "dns_redirected" \in Counters /\ "tcp_redirected" \in Counters
  /\ "dot_rejected" \in Counters /\ "doh_rejected" \in Counters
  /\ "cleartext_rejected" \in Counters /\ "dns_unredirected_rejected" \in Counters
  /\ {"accept", "drop", "reject", "reset", "dnsport", "transport"} = Verdicts \ {"none"}
  /\ {4} \in SUBSET Both /\ {6} \in SUBSET Both /\ Both \in SUBSET Both
  /\ Families \in SUBSET Both
BY DEF MatchNames, Counters, Uncounted, Verdicts, Both, Families

\* The part of filter_out after the exemptions: what stays on the host passes,
\* everything else is refused, TCP by a reset unless it is DoT or DoH.
LEMMA RejectsDecide ==
  ASSUME NEW p, p.fam \in Both
  PROVE  /\ FilterRejects \in Seq(Rules)
         /\ Decision(FilterRejects, p) =
               IF p.dst \in Host THEN "accept"
               ELSE IF p.proto = "tcp" /\ p.port # 853
                       /\ (p.dst # "doh" \/ p.port # 443 \/ p.fam \notin Families)
           THEN "reset"
               ELSE "reject"
<1> DEFINE r1 == <<Rule("local", Both, "accept", Uncounted)>>
           r2 == <<Rule("dot", Both, "reject", "dot_rejected")>>
           r3 == <<Rule("dohTcp", Families, "reject", "doh_rejected")>>
           r4 == <<Rule("dohUdp", Families, "reject", "doh_rejected")>>
           r5 == <<Rule("tcp", Both, "reset", "cleartext_rejected")>>
           r6 == <<Rule("any", Both, "reject", "cleartext_rejected")>>
           c2 == r1 \o r2
           c3 == c2 \o r3
           c4 == c3 \o r4
           c5 == c4 \o r5
           c6 == c5 \o r6
<1>0. FilterRejects = c6
  BY DEF FilterRejects
<1>1. r1 \in Seq(Rules) /\ Decision(r1, p) = IF p.dst \in Host THEN "accept" ELSE "none"
  <2>1. Matches("local", p) <=> p.dst \in Host
    BY DEF Matches
  <2> QED BY <2>1, DecideOne, Names
<1>2. /\ r2 \in Seq(Rules)
      /\ Decision(r2, p) = IF p.proto = "tcp" /\ p.port = 853 THEN "reject" ELSE "none"
  <2>1. Matches("dot", p) <=> p.proto = "tcp" /\ p.port = 853
    BY DEF Matches
  <2> QED BY <2>1, DecideOne, Names
<1>3. r3 \in Seq(Rules) /\ Decision(r3, p) =
         IF p.fam \in Families /\ p.dst = "doh" /\ p.proto = "tcp" /\ p.port = 443 THEN "reject" ELSE "none"
  <2>1. Matches("dohTcp", p) <=> p.dst = "doh" /\ p.proto = "tcp" /\ p.port = 443
    BY DEF Matches
  <2> QED BY <2>1, DecideOne, Names
<1>4. r4 \in Seq(Rules) /\ Decision(r4, p) =
         IF p.fam \in Families /\ p.dst = "doh" /\ p.proto = "udp" /\ p.port = 443 THEN "reject" ELSE "none"
  <2>1. Matches("dohUdp", p) <=> p.dst = "doh" /\ p.proto = "udp" /\ p.port = 443
    BY DEF Matches
  <2> QED BY <2>1, DecideOne, Names
<1>5. r5 \in Seq(Rules) /\ Decision(r5, p) = IF p.proto = "tcp" THEN "reset" ELSE "none"
  <2>1. Matches("tcp", p) <=> p.proto = "tcp"
    BY DEF Matches
  <2> QED BY <2>1, DecideOne, Names
<1>6. r6 \in Seq(Rules) /\ Decision(r6, p) = "reject"
  <2>1. Matches("any", p)
    BY DEF Matches
  <2> QED BY <2>1, DecideOne, Names
<1> HIDE DEF r1, r2, r3, r4, r5, r6
<1>7. /\ c2 \in Seq(Rules)
      /\ Decision(c2, p) = IF Decision(r1, p) = "none" THEN Decision(r2, p) ELSE Decision(r1, p)
  BY <1>1, <1>2, DecideConcat
<1> HIDE DEF c2
<1>8. /\ c3 \in Seq(Rules)
      /\ Decision(c3, p) = IF Decision(c2, p) = "none" THEN Decision(r3, p) ELSE Decision(c2, p)
  BY <1>7, <1>3, DecideConcat
<1> HIDE DEF c3
<1>9. /\ c4 \in Seq(Rules)
      /\ Decision(c4, p) = IF Decision(c3, p) = "none" THEN Decision(r4, p) ELSE Decision(c3, p)
  BY <1>8, <1>4, DecideConcat
<1> HIDE DEF c4
<1>10. /\ c5 \in Seq(Rules)
       /\ Decision(c5, p) = IF Decision(c4, p) = "none" THEN Decision(r5, p) ELSE Decision(c4, p)
  BY <1>9, <1>5, DecideConcat
<1> HIDE DEF c5
<1>11. /\ c6 \in Seq(Rules)
       /\ Decision(c6, p) = IF Decision(c5, p) = "none" THEN Decision(r6, p) ELSE Decision(c5, p)
  BY <1>10, <1>6, DecideConcat
<1> HIDE DEF c6
<1> QED BY <1>0, <1>1, <1>2, <1>3, <1>4, <1>5, <1>6, <1>7, <1>8, <1>9, <1>10, <1>11

\* A query that was opened as DNS and was not redirected on its way here.
Unredirected(p) ==
    /\ p.proto \in {"tcp", "udp"} /\ p.dir = "original" /\ p.orig = 53
    /\ p.dst \notin Loopback

\* What chain filter_out decides, in the order the code gives the reasons. Nothing
\* falls through to the policy: the last rule of the chain takes what is left.
THEOREM FilterOutDecides ==
  ASSUME NEW p, p.fam \in Both
  PROVE  /\ FilterOut \in Seq(Rules)
         /\ Decision(FilterOut, p) =
               IF p.sender = "tor" THEN "accept"
               ELSE IF p.fam = 6 /\ "ipv6" \notin options THEN "drop"
               ELSE IF p.sender = "slice" /\ "cgroup" \in options THEN "accept"
               ELSE IF p.sender = "bypass" THEN "accept"
               ELSE IF p.sender = "resolved" /\ p.dst # "localhost" THEN "drop"
               ELSE IF p.sender = "root" /\ "root" \in options THEN "accept"
               ELSE IF Unredirected(p) THEN "reject"
               ELSE IF p.dst = "lan" /\ "lan" \in options THEN "accept"
               ELSE IF p.dst \in Host THEN "accept"
               ELSE IF p.proto = "tcp" /\ p.port # 853 /\ (p.dst # "doh" \/ p.port # 443) THEN "reset"
               ELSE "reject"
<1> DEFINE r1 == TorRule
           r2 == When("ipv6" \notin options, Rule("any", {6}, "drop", Uncounted))
           r3 == SliceRule
           r4 == <<Rule("bypass", Both, "accept", Uncounted),
                   Rule("resolvedAway", Families, "drop", Uncounted)>>
           r5 == When("root" \in options, Rule("root", Both, "accept", Uncounted))
           r6 == <<Rule("unredirected", Families, "reject", "dns_unredirected_rejected")>>
           r7 == LanRule
           r8 == LoopRule
           r9 == FilterRejects
           c2 == r1 \o r2
           c3 == c2 \o r3
           c4 == c3 \o r4
           c5 == c4 \o r5
           c6 == c5 \o r6
           c7 == c6 \o r7
           c8 == c7 \o r8
           c9 == c8 \o r9
<1>0. FilterOut = c9
  BY DEF FilterOut
<1>1. p.fam \in Families <=> p.fam = 4 \/ "ipv6" \in options
  BY DEF Families, Both
<1>2. r1 \in Seq(Rules) /\ Decision(r1, p) = IF p.sender = "tor" THEN "accept" ELSE "none"
  <2>1. Matches("tor", p) <=> p.sender = "tor"
    BY DEF Matches
  <2> QED BY <1>1, <2>1, DecideOne, Names DEF TorRule
<1>3. /\ r2 \in Seq(Rules)
      /\ Decision(r2, p) = IF "ipv6" \notin options /\ p.fam = 6 THEN "drop" ELSE "none"
  <2>1. Matches("any", p) <=> TRUE
    BY DEF Matches
  <2> QED BY <1>1, <2>1, DecideOne, DecideEmpty, Names DEF When
<1>4. /\ r3 \in Seq(Rules)
      /\ Decision(r3, p) = IF "cgroup" \in options /\ p.sender = "slice" THEN "accept" ELSE "none"
  <2>1. Matches("slice", p) <=> p.sender = "slice"
    BY DEF Matches
  <2> QED BY <1>1, <2>1, DecideOne, DecideEmpty, Names DEF SliceRule, When
<1>5. r4 \in Seq(Rules) /\ Decision(r4, p) =
         IF p.sender = "bypass" THEN "accept"
         ELSE IF p.fam \in Families /\ p.sender = "resolved" /\ p.dst # "localhost" THEN "drop"
         ELSE "none"
  <2> DEFINE a == <<Rule("bypass", Both, "accept", Uncounted)>>
             b == <<Rule("resolvedAway", Families, "drop", Uncounted)>>
  <2>0. r4 = a \o b
    OBVIOUS
  <2>1. a \in Seq(Rules) /\ Decision(a, p) = IF p.sender = "bypass" THEN "accept" ELSE "none"
    <3>1. Matches("bypass", p) <=> p.sender = "bypass"
      BY DEF Matches
    <3> QED BY <3>1, DecideOne, Names
  <2>2. b \in Seq(Rules) /\ Decision(b, p) = IF /\ p.fam \in Families /\ p.sender = "resolved"
                                                /\ p.dst # "localhost"
                                             THEN "drop" ELSE "none"
    <3>1. Matches("resolvedAway", p) <=> p.sender = "resolved" /\ p.dst # "localhost"
      BY DEF Matches
    <3> QED BY <3>1, DecideOne, Names
  <2> HIDE DEF a, b, r4
  <2> QED BY <2>0, <2>1, <2>2, DecideConcat
<1>6. /\ r5 \in Seq(Rules)
      /\ Decision(r5, p) = IF "root" \in options /\ p.sender = "root" THEN "accept" ELSE "none"
  <2>1. Matches("root", p) <=> p.sender = "root"
    BY DEF Matches
  <2> QED BY <1>1, <2>1, DecideOne, DecideEmpty, Names DEF When
<1>7. /\ r6 \in Seq(Rules)
      /\ Decision(r6, p) = IF p.fam \in Families /\ Unredirected(p) THEN "reject" ELSE "none"
  <2>1. Matches("unredirected", p) <=> Unredirected(p)
    BY DEF Matches, Unredirected
  <2> QED BY <1>1, <2>1, DecideOne, Names
<1>8. /\ r7 \in Seq(Rules)
      /\ Decision(r7, p) = IF "lan" \in options /\ p.fam \in Families /\ p.dst = "lan" THEN "accept" ELSE "none"
  <2>1. Matches("lan", p) <=> p.dst = "lan"
    BY DEF Matches
  <2> QED BY <1>1, <2>1, DecideOne, DecideEmpty, Names DEF LanRule, When
<1>9. /\ r8 \in Seq(Rules)
      /\ Decision(r8, p) = IF p.fam \in Families /\ p.dst \in Loopback THEN "accept" ELSE "none"
  <2>1. Matches("loopback", p) <=> p.dst \in Loopback
    BY DEF Matches
  <2> QED BY <1>1, <2>1, DecideOne, Names DEF LoopRule
<1>10. r9 \in Seq(Rules) /\ Decision(r9, p) =
         IF p.dst \in Host THEN "accept"
         ELSE IF p.proto = "tcp" /\ p.port # 853 /\ (p.dst # "doh" \/ p.port # 443 \/ p.fam \notin Families)
           THEN "reset"
         ELSE "reject"
  BY RejectsDecide
<1> HIDE DEF r1, r2, r3, r4, r5, r6, r7, r8, r9
<1>11. /\ c2 \in Seq(Rules)
       /\ Decision(c2, p) = IF Decision(r1, p) = "none" THEN Decision(r2, p) ELSE Decision(r1, p)
  BY <1>2, <1>3, DecideConcat
<1> HIDE DEF c2
<1>12. /\ c3 \in Seq(Rules)
       /\ Decision(c3, p) = IF Decision(c2, p) = "none" THEN Decision(r3, p) ELSE Decision(c2, p)
  BY <1>11, <1>4, DecideConcat
<1> HIDE DEF c3
<1>13. /\ c4 \in Seq(Rules)
       /\ Decision(c4, p) = IF Decision(c3, p) = "none" THEN Decision(r4, p) ELSE Decision(c3, p)
  BY <1>12, <1>5, DecideConcat
<1> HIDE DEF c4
<1>14. /\ c5 \in Seq(Rules)
       /\ Decision(c5, p) = IF Decision(c4, p) = "none" THEN Decision(r5, p) ELSE Decision(c4, p)
  BY <1>13, <1>6, DecideConcat
<1> HIDE DEF c5
<1>15. /\ c6 \in Seq(Rules)
       /\ Decision(c6, p) = IF Decision(c5, p) = "none" THEN Decision(r6, p) ELSE Decision(c5, p)
  BY <1>14, <1>7, DecideConcat
<1> HIDE DEF c6
<1>16. /\ c7 \in Seq(Rules)
       /\ Decision(c7, p) = IF Decision(c6, p) = "none" THEN Decision(r7, p) ELSE Decision(c6, p)
  BY <1>15, <1>8, DecideConcat
<1> HIDE DEF c7
<1>17. /\ c8 \in Seq(Rules)
       /\ Decision(c8, p) = IF Decision(c7, p) = "none" THEN Decision(r8, p) ELSE Decision(c7, p)
  BY <1>16, <1>9, DecideConcat
<1> HIDE DEF c8
<1>18. /\ c9 \in Seq(Rules)
       /\ Decision(c9, p) = IF Decision(c8, p) = "none" THEN Decision(r9, p) ELSE Decision(c8, p)
  BY <1>17, <1>10, DecideConcat
<1> HIDE DEF c9
<1>19. Decision(c6, p) =
         IF p.sender = "tor" THEN "accept"
         ELSE IF p.fam = 6 /\ "ipv6" \notin options THEN "drop"
         ELSE IF p.sender = "slice" /\ "cgroup" \in options THEN "accept"
         ELSE IF p.sender = "bypass" THEN "accept"
         ELSE IF p.sender = "resolved" /\ p.dst # "localhost" THEN "drop"
         ELSE IF p.sender = "root" /\ "root" \in options THEN "accept"
         ELSE IF Unredirected(p) THEN "reject" ELSE "none"
  BY <1>1, <1>2, <1>3, <1>4, <1>5, <1>6, <1>7, <1>11, <1>12, <1>13, <1>14, <1>15 DEF Both
<1>20. Decision(c8, p) =
         IF Decision(c6, p) # "none" THEN Decision(c6, p)
         ELSE IF p.dst = "lan" /\ "lan" \in options THEN "accept"
         ELSE IF p.dst \in Loopback THEN "accept" ELSE "none"
  BY <1>1, <1>8, <1>9, <1>16, <1>17, <1>19 DEF Both
<1>21. Decision(c9, p) =
         IF Decision(c8, p) # "none" THEN Decision(c8, p)
         ELSE IF p.dst \in Host THEN "accept"
         ELSE IF p.proto = "tcp" /\ p.port # 853 /\ (p.dst # "doh" \/ p.port # 443) THEN "reset"
         ELSE "reject"
  BY <1>1, <1>10, <1>18, <1>19, <1>20 DEF Both
<1> QED BY <1>0, <1>18, <1>19, <1>20, <1>21 DEF Host

\* What chain output decides for a new connection of the host: DNS goes to the
\* DNSPort ahead of the LAN bypass, all other TCP off the LAN and the loopback
\* addresses to the TransPort, and nobody is left out but Tor and the bypasses.
THEOREM NatOutputDecides ==
  ASSUME NEW p, p.fam \in Both
  PROVE  /\ NatOutput \in Seq(Rules)
         /\ Decision(NatOutput, p) =
               IF p.sender = "tor" \/ (p.sender = "slice" /\ "cgroup" \in options) THEN "accept"
               ELSE IF p.fam = 6 /\ "ipv6" \notin options THEN "none"
               ELSE IF p.sender = "bypass" /\ p.dst # "localhost" THEN "accept"
               ELSE IF IsDns(p) THEN "dnsport"
               ELSE IF p.dst \in Loopback \/ (p.dst = "lan" /\ "lan" \in options) THEN "accept"
               ELSE IF p.proto = "tcp" THEN "transport" ELSE "none"
<1> DEFINE r1 == TorRule
           r2 == SliceRule
           r3 == <<Rule("bypassAway", Families, "accept", Uncounted)>>
           r4 == DnsRedirect
           r5 == LanRule
           r6 == LoopRule
           r7 == TcpRedirect
           c2 == r1 \o r2
           c3 == c2 \o r3
           c4 == c3 \o r4
           c5 == c4 \o r5
           c6 == c5 \o r6
           c7 == c6 \o r7
<1>0. NatOutput = c7
  BY DEF NatOutput
<1>1. p.fam \in Families <=> p.fam = 4 \/ "ipv6" \in options
  BY DEF Families, Both
<1>2. r1 \in Seq(Rules) /\ Decision(r1, p) = IF p.sender = "tor" THEN "accept" ELSE "none"
  <2>1. Matches("tor", p) <=> p.sender = "tor"
    BY DEF Matches
  <2> QED BY <1>1, <2>1, DecideOne, Names DEF TorRule
<1>3. /\ r2 \in Seq(Rules)
      /\ Decision(r2, p) = IF "cgroup" \in options /\ p.sender = "slice" THEN "accept" ELSE "none"
  <2>1. Matches("slice", p) <=> p.sender = "slice"
    BY DEF Matches
  <2> QED BY <1>1, <2>1, DecideOne, DecideEmpty, Names DEF SliceRule, When
<1>4. /\ r3 \in Seq(Rules)
      /\ Decision(r3, p) = IF p.fam \in Families /\ p.sender = "bypass" /\ p.dst # "localhost" THEN "accept" ELSE "none"
  <2>1. Matches("bypassAway", p) <=> p.sender = "bypass" /\ p.dst # "localhost"
    BY DEF Matches
  <2> QED BY <1>1, <2>1, DecideOne, Names
<1>5. /\ r4 \in Seq(Rules)
      /\ Decision(r4, p) = IF p.fam \in Families /\ IsDns(p) THEN "dnsport" ELSE "none"
  <2>1. Matches("dns", p) <=> IsDns(p)
    BY DEF IsDns
  <2> QED BY <1>1, <2>1, DecideOne, Names DEF DnsRedirect
<1>6. /\ r5 \in Seq(Rules)
      /\ Decision(r5, p) = IF "lan" \in options /\ p.fam \in Families /\ p.dst = "lan" THEN "accept" ELSE "none"
  <2>1. Matches("lan", p) <=> p.dst = "lan"
    BY DEF Matches
  <2> QED BY <1>1, <2>1, DecideOne, DecideEmpty, Names DEF LanRule, When
<1>7. /\ r6 \in Seq(Rules)
      /\ Decision(r6, p) = IF p.fam \in Families /\ p.dst \in Loopback THEN "accept" ELSE "none"
  <2>1. Matches("loopback", p) <=> p.dst \in Loopback
    BY DEF Matches
  <2> QED BY <1>1, <2>1, DecideOne, Names DEF LoopRule
<1>8. /\ r7 \in Seq(Rules)
      /\ Decision(r7, p) = IF p.fam \in Families /\ p.proto = "tcp" THEN "transport" ELSE "none"
  <2>1. Matches("tcp", p) <=> p.proto = "tcp"
    BY DEF Matches
  <2> QED BY <1>1, <2>1, DecideOne, Names DEF TcpRedirect
<1> HIDE DEF r1, r2, r3, r4, r5, r6, r7
<1>9. /\ c2 \in Seq(Rules)
      /\ Decision(c2, p) = IF Decision(r1, p) = "none" THEN Decision(r2, p) ELSE Decision(r1, p)
  BY <1>2, <1>3, DecideConcat
<1> HIDE DEF c2
<1>10. /\ c3 \in Seq(Rules)
       /\ Decision(c3, p) = IF Decision(c2, p) = "none" THEN Decision(r3, p) ELSE Decision(c2, p)
  BY <1>9, <1>4, DecideConcat
<1> HIDE DEF c3
<1>11. /\ c4 \in Seq(Rules)
       /\ Decision(c4, p) = IF Decision(c3, p) = "none" THEN Decision(r4, p) ELSE Decision(c3, p)
  BY <1>10, <1>5, DecideConcat
<1> HIDE DEF c4
<1>12. /\ c5 \in Seq(Rules)
       /\ Decision(c5, p) = IF Decision(c4, p) = "none" THEN Decision(r5, p) ELSE Decision(c4, p)
  BY <1>11, <1>6, DecideConcat
<1> HIDE DEF c5
<1>13. /\ c6 \in Seq(Rules)
       /\ Decision(c6, p) = IF Decision(c5, p) = "none" THEN Decision(r6, p) ELSE Decision(c5, p)
  BY <1>12, <1>7, DecideConcat
<1> HIDE DEF c6
<1>14. /\ c7 \in Seq(Rules)
       /\ Decision(c7, p) = IF Decision(c6, p) = "none" THEN Decision(r7, p) ELSE Decision(c6, p)
  BY <1>13, <1>8, DecideConcat
<1> HIDE DEF c7
<1> QED BY <1>0, <1>1, <1>2, <1>3, <1>4, <1>5, <1>6, <1>7, <1>8, <1>9, <1>10, <1>11, <1>12, <1>13, <1>14
           DEF Both

\* What chain prerouting decides for a guest that is routed through the host.
THEOREM NatPreroutingDecides ==
  ASSUME NEW p, p.fam \in Both
  PROVE  /\ NatPrerouting \in Seq(Rules)
         /\ Decision(NatPrerouting, p) =
               IF p.fam = 6 /\ "ipv6" \notin options THEN "none"
               ELSE IF IsDns(p) THEN "dnsport"
               ELSE IF p.dst = "lan" /\ "lan" \in options THEN "accept"
               ELSE IF p.proto = "tcp" THEN "transport" ELSE "none"
<1> DEFINE r1 == DnsRedirect
           r2 == LanRule
           r3 == TcpRedirect
           c2 == r1 \o r2
           c3 == c2 \o r3
<1>0. NatPrerouting = c3
  BY DEF NatPrerouting
<1>1. p.fam \in Families <=> p.fam = 4 \/ "ipv6" \in options
  BY DEF Families, Both
<1>2. /\ r1 \in Seq(Rules)
      /\ Decision(r1, p) = IF p.fam \in Families /\ IsDns(p) THEN "dnsport" ELSE "none"
  <2>1. Matches("dns", p) <=> IsDns(p)
    BY DEF IsDns
  <2> QED BY <1>1, <2>1, DecideOne, Names DEF DnsRedirect
<1>3. /\ r2 \in Seq(Rules)
      /\ Decision(r2, p) = IF "lan" \in options /\ p.fam \in Families /\ p.dst = "lan" THEN "accept" ELSE "none"
  <2>1. Matches("lan", p) <=> p.dst = "lan"
    BY DEF Matches
  <2> QED BY <1>1, <2>1, DecideOne, DecideEmpty, Names DEF LanRule, When
<1>4. /\ r3 \in Seq(Rules)
      /\ Decision(r3, p) = IF p.fam \in Families /\ p.proto = "tcp" THEN "transport" ELSE "none"
  <2>1. Matches("tcp", p) <=> p.proto = "tcp"
    BY DEF Matches
  <2> QED BY <1>1, <2>1, DecideOne, Names DEF TcpRedirect
<1> HIDE DEF r1, r2, r3
<1>5. /\ c2 \in Seq(Rules)
      /\ Decision(c2, p) = IF Decision(r1, p) = "none" THEN Decision(r2, p) ELSE Decision(r1, p)
  BY <1>2, <1>3, DecideConcat
<1> HIDE DEF c2
<1>6. /\ c3 \in Seq(Rules)
      /\ Decision(c3, p) = IF Decision(c2, p) = "none" THEN Decision(r3, p) ELSE Decision(c2, p)
  BY <1>5, <1>4, DecideConcat
<1> HIDE DEF c3
<1> QED BY <1>0, <1>1, <1>2, <1>3, <1>4, <1>5, <1>6 DEF Both

\* The killswitch decides by the interface alone: nothing but loopback traffic
\* is accepted, and its policy takes the rest.
THEOREM KillswitchDecides ==
  ASSUME NEW p, p.fam \in Both
  PROVE  /\ Killswitch.filter \in Seq(Rules)
         /\ Decision(Killswitch.filter, p) = IF p.dst \in Host THEN "accept" ELSE "none"
<1>1. Killswitch.filter = <<Rule("lo", Both, "accept", Uncounted)>>
  BY DEF Killswitch
<1>2. Matches("lo", p) <=> p.dst \in Host
  BY DEF Matches
<1> QED BY <1>1, <1>2, DecideOne, Names

--------------------------------------------------------------------------------
(* The inductive invariant *)

Bindings   == {"plain", "dnsport", "transport", "foreign"}
TableForms == [exists : BOOLEAN, policy : {"accept", "drop"},
               pre : Seq(Rules), nat : Seq(Rules), filter : Seq(Rules)]

\* How the observed connection may be bound: a foreign chain rewrites DNS only.
Possible(b) == b \in Bindings /\ (b = "foreign" => IsDns(conn))

\* The filter lets the observed connection off the host if it is bound so.
Passes(b) ==
    /\ FilterVerdict(Rewritten(conn, b)) = "accept"
    /\ Rewritten(conn, b).dst \notin Host

StateInv ==
    /\ options \subseteq Options
    /\ conn \in Opened
    /\ table \in TableForms
    /\ stage \in {"off", "session", "locked", "unlocked", "slaughtering", "slaughtered", "flushed"}
    /\ table = NoTable \/ table.exists
    /\ stage = "off" <=> table = NoTable
    /\ stage \notin {"off", "flushed"} => table.filter # <<>>
    /\ track # "untracked" => Possible(track)

\* Session chains with a rule in them, in their order or behind inserted ones.
SessionGuard ==
    table.exists /\ table.policy = "accept" /\ table.filter # <<>> =>
        \A b \in Bindings : Possible(b) /\ Passes(b) /\ conn.sender # "guest" => Exempt(conn)

\* The chains of the killswitch, whatever was inserted or flushed.
EmergencyGuard == table.policy = "drop" => \A b \in Bindings : ~Passes(b)

\* Any chain that the lockdown rule was inserted into.
LockGuard == LockedDown => \A b \in Bindings : Passes(b) => conn.sender = "tor"

\* The last packet met the present table, bound as connection tracking had it or,
\* if it was the first one, as the present nat chains bind it.
LastInv ==
    last # Nothing =>
        \E b \in Bindings :
            /\ Possible(b)
            /\ last.fresh => b = Binding(conn)
            /\ last.fate = Fate(conn, b).fate
            /\ last.heard = Fate(conn, b).heard
            /\ last.counter = Fate(conn, b).counter

Inv == StateInv /\ SessionGuard /\ EmergencyGuard /\ LockGuard /\ LastInv

--------------------------------------------------------------------------------
(* Packets and tables *)

\* Opening a connection: a packet is a record with these fields.
LEMMA OpenedFacts ==
  ASSUME NEW p \in Opened
  PROVE  /\ p = [sender |-> p.sender, fam |-> p.fam, proto |-> p.proto, port |-> p.port,
                 orig |-> p.port, dst |-> p.dst, dir |-> "original"]
         /\ p.sender \in Senders /\ p.fam \in Both /\ p.dst \in Destinations
         /\ p.dst = "stub" => p.fam = 4
         /\ p.sender = "guest" => p.dst \notin Host
<1>1. PICK s \in Senders, f \in {4, 6}, v \in Services, d \in Destinations : p = Packet(s, f, v, d)
  BY DEF Opened, Packets
<1> QED BY <1>1 DEF Opened, Packet, Both

\* nat changes the destination and nothing else that the filter looks at.
LEMMA RewrittenFacts ==
  ASSUME NEW p \in Opened, NEW b \in Bindings
  PROVE  LET q == Rewritten(p, b)
         IN  /\ q.sender = p.sender /\ q.fam = p.fam /\ q.proto = p.proto
             /\ q.orig = p.port /\ q.dir = "original" /\ q.fam \in Both
             /\ q.dst = IF b = "plain" THEN p.dst ELSE IF b = "foreign" THEN "lan" ELSE "localhost"
             /\ b = "dnsport" => q.port = DNSPort
             /\ b = "transport" => q.port = TransPort
<1>1. p.fam \in Both /\
      p = [sender |-> p.sender, fam |-> p.fam, proto |-> p.proto, port |-> p.port,
           orig |-> p.port, dst |-> p.dst, dir |-> "original"]
  BY OpenedFacts
<1>2. CASE b = "plain"
  BY <1>1, <1>2 DEF Rewritten
<1>3. CASE b = "foreign"
  BY <1>1, <1>3 DEF Rewritten
<1>4. CASE b = "dnsport"
  <2>1. Rewritten(p, b) = [p EXCEPT !.dst = "localhost", !.port = DNSPort]
    BY <1>4 DEF Rewritten
  <2> DEFINE r == [p EXCEPT !.dst = "localhost"]
  <2>2. r = [sender |-> p.sender, fam |-> p.fam, proto |-> p.proto, port |-> p.port,
             orig |-> p.port, dst |-> "localhost", dir |-> "original"]
    BY <1>1
  <2>3. Rewritten(p, b) = [r EXCEPT !.port = DNSPort]
    BY <2>1, Zenon
  <2> HIDE DEF r
  <2> QED BY <1>1, <1>4, <2>2, <2>3
<1>5. CASE b = "transport"
  <2>1. Rewritten(p, b) = [p EXCEPT !.dst = "localhost", !.port = TransPort]
    BY <1>5 DEF Rewritten
  <2> DEFINE r == [p EXCEPT !.dst = "localhost"]
  <2>2. r = [sender |-> p.sender, fam |-> p.fam, proto |-> p.proto, port |-> p.port,
             orig |-> p.port, dst |-> "localhost", dir |-> "original"]
    BY <1>1
  <2>3. Rewritten(p, b) = [r EXCEPT !.port = TransPort]
    BY <2>1, Zenon
  <2> HIDE DEF r
  <2> QED BY <1>1, <1>5, <2>2, <2>3
<1> QED BY <1>2, <1>3, <1>4, <1>5 DEF Bindings

\* The answer to a packet goes from the kernel to an address of the host, in the
\* family of the packet.
LEMMA AnswerFacts ==
  ASSUME NEW p \in Opened, NEW b \in Bindings, NEW v
  PROVE  LET q == Rewritten(p, b)
             a == Answer(q, v)
         IN  a.sender = "kernel" /\ a.dir = "reply" /\ a.fam = q.fam /\ a.dst \in {"localhost", "own"}
<1> DEFINE q  == Rewritten(p, b)
           F  == {"sender", "fam", "proto", "port", "orig", "dst", "dir"}
           to == IF q.dst \in Loopback THEN "localhost" ELSE "own"
           is == IF v = "reset" THEN "tcp" ELSE "icmp"
           s1 == [q EXCEPT !.sender = "kernel"]
           s2 == [s1 EXCEPT !.dir = "reply"]
           s3 == [s2 EXCEPT !.port = 0]
           s4 == [s3 EXCEPT !.proto = is]
           s5 == [s4 EXCEPT !.dst = to]
<1>1. Answer(q, v) = s5
  BY Zenon DEF Answer
<1>2. q = [x \in F |-> q[x]]
  <2>1. p = [sender |-> p.sender, fam |-> p.fam, proto |-> p.proto, port |-> p.port,
             orig |-> p.port, dst |-> p.dst, dir |-> "original"]
    BY OpenedFacts
  <2>2. p = [x \in F |-> p[x]]
    BY <2>1
  <2> QED BY <2>2 DEF Rewritten
<1> HIDE DEF q
<1>3. s1 = [x \in F |-> s1[x]] /\ s1.sender = "kernel" /\ s1.fam = q.fam
  BY <1>2
<1> HIDE DEF s1
<1>4. s2 = [x \in F |-> s2[x]] /\ s2.sender = "kernel" /\ s2.fam = q.fam /\ s2.dir = "reply"
  BY <1>3
<1> HIDE DEF s2
<1>5. s3 = [x \in F |-> s3[x]] /\ s3.sender = "kernel" /\ s3.fam = q.fam /\ s3.dir = "reply"
  BY <1>4
<1> HIDE DEF s3
<1>6. s4 = [x \in F |-> s4[x]] /\ s4.sender = "kernel" /\ s4.fam = q.fam /\ s4.dir = "reply"
  BY <1>5
<1> HIDE DEF s4
<1>7. s5.sender = "kernel" /\ s5.fam = q.fam /\ s5.dir = "reply" /\ s5.dst = to
  BY <1>6
<1> QED BY <1>1, <1>7 DEF q

\* The filter chain decides, and its policy where it is silent.
LEMMA VerdictOfTable ==
  ASSUME table.filter \in Seq(Rules), NEW q
  PROVE  FilterVerdict(q) = IF Decision(table.filter, q) = "none" THEN table.policy
                            ELSE Decision(table.filter, q)
BY Silence DEF FilterVerdict, Decision

\* The four tables that the commands write.
LEMMA TablesWritten ==
  /\ NoTable \in TableForms /\ SessionTable \in TableForms /\ Killswitch \in TableForms
  /\ SessionTable.filter = FilterOut /\ SessionTable.nat = NatOutput /\ SessionTable.pre = NatPrerouting
  /\ SessionTable.exists /\ SessionTable.policy = "accept"
  /\ Killswitch.exists /\ Killswitch.policy = "drop"
<1> DEFINE p == [fam |-> 4]
<1>1. p.fam \in Both
  BY DEF Both
<1> HIDE DEF p
<1>2. FilterOut \in Seq(Rules) /\ NatOutput \in Seq(Rules) /\ NatPrerouting \in Seq(Rules)
  BY <1>1, FilterOutDecides, NatOutputDecides, NatPreroutingDecides
<1>3. Killswitch.filter \in Seq(Rules) /\ <<>> \in Seq(Rules)
  BY <1>1, KillswitchDecides, DecideEmpty
<1>4. NoTable \in TableForms
  BY <1>3 DEF NoTable, TableForms
<1>5. SessionTable \in TableForms
  BY <1>2 DEF SessionTable, TableForms
<1>6. Killswitch \in TableForms
  BY <1>3 DEF Killswitch, TableForms
<1> QED BY <1>4, <1>5, <1>6 DEF SessionTable, Killswitch

\* The matches of filter_out and of the killswitch: none is the lockdown's.
SessionMatches == {"tor", "any", "slice", "bypass", "resolvedAway", "root", "unredirected",
                   "lan", "loopback", "local", "dot", "dohTcp", "dohUdp", "tcp", "lo"}

\* The rules of filter_out that the watchdog's alarm counters hang on.
AlarmMatches == {"unredirected", "dot", "dohTcp", "dohUdp"}

SessionRules == {r \in Rules : /\ r.match \in SessionMatches
                               /\ r.counter \in AlarmCounters =>
                                     r.match \in AlarmMatches /\ r.verdict = "reject"}

\* A chain that begins with the exemption of Tor.
TorFirst(c) == c \in Seq(SessionRules) /\ c # <<>> /\ c[1].match = "tor"

\* Appending to a chain does not change how it begins.
LEMMA TorStaysFirst ==
  ASSUME NEW c, TorFirst(c), NEW t \in Seq(SessionRules)
  PROVE  TorFirst(c \o t)
<1>1. c \in Seq(SessionRules) /\ c # <<>>
  BY DEF TorFirst
<1>2. c \o t \in Seq(SessionRules) /\ Len(c \o t) = Len(c) + Len(t) /\ Len(c) > 0 /\ Len(t) >= 0
  BY <1>1
<1>3. (c \o t)[1] = c[1]
  BY <1>1, <1>2
<1>4. c \o t # <<>>
  BY <1>2
<1> QED BY <1>2, <1>3, <1>4 DEF TorFirst

\* One rule is a chain, also when it is there on a condition.
LEMMA SessionPart ==
  ASSUME NEW m \in SessionMatches, NEW f \in SUBSET Both,
         NEW v \in Verdicts \ {"none"}, NEW c \in Counters, NEW e,
         c \in AlarmCounters => m \in AlarmMatches /\ v = "reject"
  PROVE  /\ Rule(m, f, v, c) \in SessionRules
         /\ <<Rule(m, f, v, c)>> \in Seq(SessionRules)
         /\ When(e, Rule(m, f, v, c)) \in Seq(SessionRules)
<1>1. Rule(m, f, v, c) \in SessionRules
  BY DEF Rule, Rules, SessionRules, SessionMatches, MatchNames
<1> QED BY <1>1 DEF When

\* filter_out starts with Tor's exemption, so it is neither empty nor a chain that
\* a rule was inserted into; and it holds no rule of the lockdown.
LEMMA FilterOutShape == TorFirst(FilterOut)
<1>0. /\ "tor" \in SessionMatches /\ "any" \in SessionMatches /\ "slice" \in SessionMatches
      /\ "bypass" \in SessionMatches /\ "resolvedAway" \in SessionMatches /\ "root" \in SessionMatches
      /\ "unredirected" \in SessionMatches /\ "lan" \in SessionMatches /\ "loopback" \in SessionMatches
      /\ "local" \in SessionMatches /\ "dot" \in SessionMatches /\ "dohTcp" \in SessionMatches
      /\ "dohUdp" \in SessionMatches /\ "tcp" \in SessionMatches
      /\ "unredirected" \in AlarmMatches /\ "dot" \in AlarmMatches
      /\ "dohTcp" \in AlarmMatches /\ "dohUdp" \in AlarmMatches
      /\ Uncounted \notin AlarmCounters /\ "cleartext_rejected" \notin AlarmCounters
  BY DEF SessionMatches, AlarmMatches, AlarmCounters, Uncounted
<1> DEFINE r2 == When("ipv6" \notin options, Rule("any", {6}, "drop", Uncounted))
           a  == Rule("bypass", Both, "accept", Uncounted)
           b  == Rule("resolvedAway", Families, "drop", Uncounted)
           r5 == When("root" \in options, Rule("root", Both, "accept", Uncounted))
           r6 == <<Rule("unredirected", Families, "reject", "dns_unredirected_rejected")>>
           c2 == TorRule \o r2
           c3 == c2 \o SliceRule
           c4 == c3 \o <<a, b>>
           c5 == c4 \o r5
           c6 == c5 \o r6
           c7 == c6 \o LanRule
           c8 == c7 \o LoopRule
           c9 == c8 \o FilterRejects
<1>1. FilterOut = c9
  BY DEF FilterOut
<1>2. TorFirst(TorRule)
  <2>1. TorRule \in Seq(SessionRules)
    BY <1>0, SessionPart, Names DEF TorRule
  <2>2. TorRule # <<>> /\ TorRule[1].match = "tor"
    BY DEF TorRule, Rule
  <2> QED BY <2>1, <2>2 DEF TorFirst
<1>3. r2 \in Seq(SessionRules) /\ r5 \in Seq(SessionRules) /\ r6 \in Seq(SessionRules)
  BY <1>0, SessionPart, Names
<1>4. SliceRule \in Seq(SessionRules) /\ LanRule \in Seq(SessionRules) /\ LoopRule \in Seq(SessionRules)
  BY <1>0, SessionPart, Names DEF SliceRule, LanRule, LoopRule
<1>5. <<a, b>> \in Seq(SessionRules)
  <2>1. a \in SessionRules /\ b \in SessionRules
    BY <1>0, SessionPart, Names
  <2> HIDE DEF a, b
  <2> QED BY <2>1
<1>6. FilterRejects \in Seq(SessionRules)
  <2> DEFINE d1 == Rule("local", Both, "accept", Uncounted)
             d2 == Rule("dot", Both, "reject", "dot_rejected")
             d3 == Rule("dohTcp", Families, "reject", "doh_rejected")
             d4 == Rule("dohUdp", Families, "reject", "doh_rejected")
             d5 == Rule("tcp", Both, "reset", "cleartext_rejected")
             d6 == Rule("any", Both, "reject", "cleartext_rejected")
  <2>1. d1 \in SessionRules /\ d2 \in SessionRules /\ d3 \in SessionRules
    BY <1>0, SessionPart, Names
  <2>2. d4 \in SessionRules /\ d5 \in SessionRules /\ d6 \in SessionRules
    BY <1>0, SessionPart, Names
  <2>3. FilterRejects = <<d1, d2, d3, d4, d5, d6>>
    BY DEF FilterRejects
  <2> HIDE DEF d1, d2, d3, d4, d5, d6
  <2> QED BY <2>1, <2>2, <2>3
<1> HIDE DEF r2, a, b, r5, r6
<1>7. TorFirst(c4)
  BY <1>2, <1>3, <1>4, <1>5, TorStaysFirst
<1> HIDE DEF c4
<1>8. TorFirst(c7)
  BY <1>3, <1>4, <1>7, TorStaysFirst
<1> HIDE DEF c7
<1> QED BY <1>1, <1>4, <1>6, <1>8, TorStaysFirst

\* nft flush table keeps the chains and their policies.
LEMMA FlushedForm ==
  ASSUME NEW t \in TableForms
  PROVE  LET u == [t EXCEPT !.pre = <<>>, !.nat = <<>>, !.filter = <<>>]
         IN  /\ u \in TableForms /\ u.filter = <<>>
             /\ u.exists = t.exists /\ u.policy = t.policy
<1> DEFINE u == [t EXCEPT !.pre = <<>>, !.nat = <<>>, !.filter = <<>>]
           a == [t EXCEPT !.pre = <<>>]
           c == [a EXCEPT !.nat = <<>>]
<1>1. <<>> \in Seq(Rules)
  OBVIOUS
<1>2. a \in TableForms /\ a.exists = t.exists /\ a.policy = t.policy
  BY <1>1 DEF TableForms
<1>3. u = [c EXCEPT !.filter = <<>>]
  BY Zenon
<1> HIDE DEF a, u
<1>4. c \in TableForms /\ c.exists = t.exists /\ c.policy = t.policy
  BY <1>1, <1>2 DEF TableForms
<1> HIDE DEF c
<1>5. u \in TableForms /\ u.filter = <<>> /\ u.exists = t.exists /\ u.policy = t.policy
  BY <1>1, <1>3, <1>4 DEF TableForms
<1> QED BY <1>5 DEF u

\* Where a packet of the observed connection goes in cleartext: off the host through
\* the filter, or as a guest's packet while there is no table to drop it.
LEMMA FateClear ==
  ASSUME conn \in Opened, NEW b \in Bindings, Fate(conn, b).fate = "clear"
  PROVE  /\ conn.sender = "guest" => ~table.exists
         /\ conn.sender # "guest" => Passes(b)
<1> DEFINE q == Rewritten(conn, b)
           v == FilterVerdict(q)
           c == FirstHit(table.filter, q).counter
           h == FilterVerdict(Answer(q, v)) = "accept"
<1>1. q.sender = conn.sender
  BY RewrittenFacts
<1>2. Delivered(q) = "clear" => q.dst \notin Host
  BY DEF Delivered
<1>3. conn.sender = "guest" =>
        Fate(conn, b) = [fate |-> IF q.dst \in Host \/ ~table.exists THEN Delivered(q) ELSE "dropped",
                         counter |-> Uncounted, heard |-> FALSE]
  BY <1>1 DEF Fate
<1>4. conn.sender # "guest" =>
        /\ v = "accept" => Fate(conn, b) = [fate |-> Delivered(q), counter |-> c, heard |-> FALSE]
        /\ v = "drop" => Fate(conn, b) = [fate |-> "dropped", counter |-> c, heard |-> FALSE]
        /\ v \notin {"accept", "drop"} => Fate(conn, b) = [fate |-> "rejected", counter |-> c, heard |-> h]
  BY <1>1 DEF Fate
<1> HIDE DEF q, v, c, h
<1>5. conn.sender = "guest" => ~table.exists
  BY <1>2, <1>3
<1>6. conn.sender # "guest" => v = "accept" /\ Delivered(q) = "clear"
  BY <1>4
<1> QED BY <1>2, <1>5, <1>6 DEF Passes, q, v

\* A rejected packet, and whether its sender hears of it.
LEMMA FateRejected ==
  ASSUME conn \in Opened, NEW b \in Bindings, Fate(conn, b).fate = "rejected"
  PROVE  LET q == Rewritten(conn, b)
         IN  /\ conn.sender # "guest" /\ FilterVerdict(q) \notin {"accept", "drop"}
             /\ Fate(conn, b).heard = (FilterVerdict(Answer(q, FilterVerdict(q))) = "accept")
<1> DEFINE q == Rewritten(conn, b)
           v == FilterVerdict(q)
           c == FirstHit(table.filter, q).counter
           h == FilterVerdict(Answer(q, v)) = "accept"
<1>1. q.sender = conn.sender
  BY RewrittenFacts
<1>2. Delivered(q) # "rejected"
  BY DEF Delivered
<1>3. conn.sender = "guest" =>
        Fate(conn, b) = [fate |-> IF q.dst \in Host \/ ~table.exists THEN Delivered(q) ELSE "dropped",
                         counter |-> Uncounted, heard |-> FALSE]
  BY <1>1 DEF Fate
<1>4. conn.sender # "guest" =>
        /\ v = "accept" => Fate(conn, b) = [fate |-> Delivered(q), counter |-> c, heard |-> FALSE]
        /\ v = "drop" => Fate(conn, b) = [fate |-> "dropped", counter |-> c, heard |-> FALSE]
        /\ v \notin {"accept", "drop"} => Fate(conn, b) = [fate |-> "rejected", counter |-> c, heard |-> h]
  BY <1>1 DEF Fate
<1> HIDE DEF q, v, c, h
<1>5. conn.sender # "guest"
  BY <1>2, <1>3
<1>6. v \notin {"accept", "drop"}
  BY <1>2, <1>4, <1>5
<1>7. Fate(conn, b).heard = h
  BY <1>4, <1>5, <1>6
<1> QED BY <1>5, <1>6, <1>7 DEF q, v, h

\* A packet of a process of the host that the filter accepts is delivered.
LEMMA FateAccepted ==
  ASSUME conn \in Opened, NEW b \in Bindings, conn.sender # "guest",
         FilterVerdict(Rewritten(conn, b)) = "accept"
  PROVE  Fate(conn, b).fate = Delivered(Rewritten(conn, b))
<1>1. Rewritten(conn, b).sender # "guest"
  BY RewrittenFacts
<1> QED BY <1>1 DEF Fate

\* The session table as start writes it lets only exempt processes off the host,
\* whatever connection tracking remembers of them.
LEMMA SessionTableGuards ==
  conn \in Opened /\ table = SessionTable => SessionGuard /\ EmergencyGuard /\ LockGuard
<1> SUFFICES ASSUME conn \in Opened, table = SessionTable
             PROVE  SessionGuard /\ EmergencyGuard /\ LockGuard
  OBVIOUS
<1>1. table.policy = "accept" /\ table.filter = FilterOut /\ FilterOut \in Seq(Rules)
  BY TablesWritten DEF TableForms
<1>2. SessionGuard
  <2> SUFFICES ASSUME NEW b \in Bindings, Possible(b), Passes(b), conn.sender # "guest"
               PROVE  Exempt(conn)
    BY DEF SessionGuard
  <2> DEFINE q == Rewritten(conn, b)
  <2>1. /\ q.sender = conn.sender /\ q.fam = conn.fam /\ q.proto = conn.proto
        /\ q.orig = conn.port /\ q.dir = "original" /\ q.fam \in Both
        /\ q.dst = IF b = "plain" THEN conn.dst ELSE IF b = "foreign" THEN "lan" ELSE "localhost"
    BY RewrittenFacts
  <2>2. FilterVerdict(q) = "accept" /\ q.dst \notin Host
    BY DEF Passes
  <2> HIDE DEF q
  <2>3. Decision(FilterOut, q) = "accept"
    BY <1>1, <2>1, <2>2, VerdictOfTable, FilterOutDecides
  <2>4. IsDns(conn) <=> conn.proto \in {"tcp", "udp"} /\ conn.port = 53
    BY DEF IsDns, Matches
  <2>5. Unredirected(q) <=> IsDns(conn)
    BY <2>1, <2>2, <2>4 DEF Unredirected, Host
  <2>6. q.dst = "lan" => conn.dst = "lan" \/ IsDns(conn)
    BY <2>1 DEF Possible
  <2> QED BY <2>1, <2>2, <2>3, <2>5, <2>6, FilterOutDecides DEF Exempt, Both
<1>3. EmergencyGuard
  BY <1>1 DEF EmergencyGuard
<1>4. ~LockedDown
  BY <1>1, FilterOutShape DEF LockedDown, TorFirst, SessionRules, SessionMatches
<1> QED BY <1>2, <1>3, <1>4 DEF LockGuard

\* So does the killswitch, which lets nobody off the host.
LEMMA KillswitchGuards ==
  conn \in Opened /\ table = Killswitch => SessionGuard /\ EmergencyGuard /\ LockGuard
<1> SUFFICES ASSUME conn \in Opened, table = Killswitch
             PROVE  SessionGuard /\ EmergencyGuard /\ LockGuard
  OBVIOUS
<1>1. table.policy = "drop" /\ table.filter = Killswitch.filter
  BY TablesWritten
<1>2. ASSUME NEW b \in Bindings PROVE ~Passes(b)
  <2>1. Rewritten(conn, b).fam \in Both
    BY RewrittenFacts
  <2> QED BY <1>1, <2>1, KillswitchDecides, VerdictOfTable DEF Passes
<1> QED BY <1>1, <1>2 DEF SessionGuard, EmergencyGuard, LockGuard

\* A table without rules: only its policy counts.
LEMMA EmptyGuards ==
  table.filter = <<>> => SessionGuard /\ EmergencyGuard /\ LockGuard
<1> SUFFICES ASSUME table.filter = <<>> PROVE SessionGuard /\ EmergencyGuard /\ LockGuard
  OBVIOUS
<1>1. ASSUME NEW b \in Bindings, table.policy = "drop" PROVE ~Passes(b)
  BY <1>1, DecideEmpty, VerdictOfTable DEF Passes
<1>2. ~LockedDown
  BY DEF LockedDown
<1> QED BY <1>1, <1>2 DEF SessionGuard, EmergencyGuard, LockGuard

\* A rule inserted by the teardown refuses what it matches and leaves the rest to
\* the chain as it was: it lets nothing through that was stopped before.
LEMMA InsertedStops ==
  ASSUME StateInv, table.exists, UNCHANGED <<options, conn>>,
         NEW m \in {"othersAway", "away", "udp", "tcp"}, NEW v \in {"drop", "reject", "reset"},
         table' = InsertRule(Rule(m, Both, v, Uncounted))
  PROVE  /\ table' \in TableForms /\ table'.exists /\ table'.policy = table.policy
         /\ table'.filter # <<>> /\ table'.filter[1].match = m
         /\ table # NoTable /\ table' # NoTable
         /\ \A b \in Bindings : Passes(b)' => Passes(b)
         /\ LockedDown' => LockedDown \/ m \in {"othersAway", "away"}
         /\ m \in {"othersAway", "away"} => \A b \in Bindings : Passes(b)' => conn.sender = "tor"
<1> DEFINE r == Rule(m, Both, v, Uncounted)
           f == <<r>> \o table.filter
<1>1. table \in TableForms /\ table.filter \in Seq(Rules) /\ conn \in Opened
  BY DEF StateInv, TableForms
<1>2. m \in MatchNames /\ v \in Verdicts \ {"none"} /\ Both \in SUBSET Both /\ Uncounted \in Counters
  BY Names DEF MatchNames, Verdicts
<1>3. r \in Rules /\ <<r>> \in Seq(Rules)
  BY <1>2 DEF Rule, Rules
<1>4. r.match = m
  BY DEF Rule
<1>5. table' = [table EXCEPT !.filter = f]
  BY DEF InsertRule
<1>6. ASSUME NEW q, q.fam \in Both
      PROVE  Decision(<<r>>, q) = IF Matches(m, q) THEN v ELSE "none"
  BY <1>2, <1>6, DecideOne
<1> HIDE DEF r
<1>7. f \in Seq(Rules) /\ f # <<>> /\ f[1] = r
  <2>1. f \in Seq(Rules) /\ Len(f) = 1 + Len(table.filter) /\ Len(table.filter) \in Nat
    BY <1>1, <1>3
  <2>2. f[1] = r
    BY <1>1, <1>3
  <2> QED BY <2>1, <2>2
<1>8. /\ table' \in TableForms /\ table'.filter = f /\ table'.policy = table.policy
      /\ table'.exists = table.exists
  BY <1>1, <1>5, <1>7 DEF TableForms
<1>9. table # NoTable /\ table' # NoTable
  BY <1>8 DEF NoTable
<1>10. ASSUME NEW b \in Bindings, Passes(b)'
       PROVE  Passes(b) /\ ~Matches(m, Rewritten(conn, b))
  <2> DEFINE q == Rewritten(conn, b)
  <2>1. q.fam \in Both
    BY <1>1, RewrittenFacts
  <2>2. Rewritten(conn, b)' = q
    OBVIOUS
  <2>3. FilterVerdict(q)' = IF Decision(f, q) = "none" THEN table.policy ELSE Decision(f, q)
    BY <1>7, <1>8, <2>2, Silence DEF FilterVerdict, Decision
  <2>4. FilterVerdict(q)' = "accept" /\ q.dst \notin Host
    BY <1>10, <2>2 DEF Passes
  <2> HIDE DEF q
  <2>5. Decision(f, q) = IF Decision(<<r>>, q) = "none" THEN Decision(table.filter, q) ELSE Decision(<<r>>, q)
    BY <1>1, <1>3, DecideConcat, ZenonT(30)
  <2>6. ~Matches(m, q) /\ Decision(f, q) = Decision(table.filter, q)
    BY <1>6, <2>1, <2>3, <2>4, <2>5
  <2>7. FilterVerdict(q) = "accept"
    BY <1>1, <2>3, <2>4, <2>6, VerdictOfTable
  <2> QED BY <2>4, <2>6, <2>7 DEF Passes, q
<1>11. LockedDown' => LockedDown \/ m \in {"othersAway", "away"}
  <2> SUFFICES ASSUME LockedDown', m \notin {"othersAway", "away"} PROVE LockedDown
    OBVIOUS
  <2>1. PICK i \in DOMAIN f : f[i].match \in {"othersAway", "away"}
    BY <1>8 DEF LockedDown
  <2>2. i # 1
    BY <1>4, <1>7, <2>1
  <2>3. i - 1 \in DOMAIN table.filter /\ f[i] = table.filter[i - 1]
    BY <1>1, <1>3, <2>1, <2>2
  <2> QED BY <2>1, <2>3 DEF LockedDown
<1>12. ASSUME m \in {"othersAway", "away"}, NEW b \in Bindings, Passes(b)'
       PROVE  conn.sender = "tor"
  <2>1. ~Matches(m, Rewritten(conn, b)) /\ Rewritten(conn, b).dst \notin Host
    BY <1>10, <1>12 DEF Passes
  <2>2. Rewritten(conn, b).sender = conn.sender /\ conn.sender # "kernel"
    BY <1>1, RewrittenFacts, OpenedFacts DEF Senders
  <2>3. m = "othersAway" =>
          (Matches(m, Rewritten(conn, b)) <=> /\ Rewritten(conn, b).sender \notin {"tor", "kernel"}
                                              /\ Rewritten(conn, b).dst \notin Host)
    BY DEF Matches
  <2>4. m = "away" => (Matches(m, Rewritten(conn, b)) <=> Rewritten(conn, b).dst \notin Host)
    BY DEF Matches
  <2> QED BY <1>12, <2>1, <2>2, <2>3, <2>4
<1> QED BY <1>4, <1>7, <1>8, <1>9, <1>10, <1>11, <1>12

\* Hence the guards survive every insertion.
LEMMA InsertedGuards ==
  ASSUME StateInv, table.exists, UNCHANGED <<options, conn>>, SessionGuard, EmergencyGuard, LockGuard,
         NEW m \in {"othersAway", "away", "udp", "tcp"}, NEW v \in {"drop", "reject", "reset"},
         table' = InsertRule(Rule(m, Both, v, Uncounted)), table.filter # <<>>
  PROVE  SessionGuard' /\ EmergencyGuard' /\ LockGuard'
<1>1. /\ table'.exists /\ table'.policy = table.policy
      /\ \A b \in Bindings : Passes(b)' => Passes(b)
      /\ LockedDown' => LockedDown \/ m \in {"othersAway", "away"}
      /\ m \in {"othersAway", "away"} => \A b \in Bindings : Passes(b)' => conn.sender = "tor"
  BY InsertedStops
<1>2. Exempt(conn)' <=> Exempt(conn)
  BY DEF Exempt
<1>3. \A b \in Bindings : Possible(b)' <=> Possible(b)
  BY DEF Possible
<1>4. conn.sender = "tor" => Exempt(conn)
  BY DEF Exempt
<1>5. SessionGuard'
  BY <1>1, <1>2, <1>3, <1>4 DEF SessionGuard
<1>6. EmergencyGuard'
  BY <1>1 DEF EmergencyGuard
<1>7. LockGuard'
  BY <1>1 DEF LockGuard
<1> QED BY <1>5, <1>6, <1>7

--------------------------------------------------------------------------------
(* The steps *)

\* The ruleset depends on the state through the options only.
LEMMA OptionsDecide ==
  ASSUME UNCHANGED options
  PROVE  SessionTable' = SessionTable
BY DEF SessionTable, NatPrerouting, NatOutput, FilterOut, FilterRejects, LanRule, DnsRedirect,
       TcpRedirect, LoopRule, TorRule, SliceRule, Families

\* A step that writes a table forgets the fate of earlier packets.
LEMMA RetableStep ==
  ASSUME StateInv, NEW t, NEW s, Retable(t, s), t \in TableForms,
         s \in {"off", "session", "locked", "unlocked", "slaughtering", "slaughtered", "flushed"},
         t = NoTable \/ t.exists, s = "off" <=> t = NoTable,
         s \notin {"off", "flushed"} => t.filter # <<>>,
         track' \in {track, "untracked"}
  PROVE  StateInv' /\ LastInv' /\ table' = t /\ UNCHANGED <<options, conn>>
<1>1. table' = t /\ stage' = s /\ last' = Nothing /\ options' = options /\ conn' = conn
  BY DEF Retable
<1>2. LastInv'
  BY <1>1 DEF LastInv
<1>3. StateInv'
  BY <1>1 DEF StateInv, Possible, NoTable
<1> QED BY <1>1, <1>2, <1>3

\* Before ttp start there is no table, and no packet has been seen.
LEMMA InitInv == Init => Inv
<1> SUFFICES ASSUME Init PROVE Inv
  OBVIOUS
<1>1. table = NoTable /\ table.filter = <<>> /\ NoTable \in TableForms
  BY TablesWritten DEF Init, NoTable
<1>2. StateInv
  BY <1>1 DEF Init, StateInv
<1>3. LastInv
  BY DEF Init, LastInv
<1> QED BY <1>1, <1>2, <1>3, EmptyGuards DEF Inv

\* A packet: connection tracking remembers only bindings that are possible.
LEMMA SendInv == Inv /\ Send => Inv'
<1> SUFFICES ASSUME Inv, Send PROVE Inv'
  OBVIOUS
<1> DEFINE fresh   == track = "untracked"
           b       == IF fresh THEN Binding(conn) ELSE track
           outcome == Fate(conn, b)
<1>1. UNCHANGED <<options, table, stage, conn>>
  BY DEF Send
<1>2. last' = [fate |-> outcome.fate, counter |-> outcome.counter, heard |-> outcome.heard, fresh |-> fresh]
  BY DEF Send, Transmit
<1>3. track' = track \/ (fresh /\ track' \in {b, "untracked"})
  BY DEF Send, Transmit
<1>4. Possible(Binding(conn))
  BY DEF Binding, Possible, Bindings, IsDns
<1>5. b \in Bindings /\ Possible(b)
  BY <1>4 DEF Inv, StateInv, Possible
<1>6. \A c : Possible(c)' <=> Possible(c)
  BY <1>1 DEF Possible
<1> HIDE DEF b, outcome, fresh
<1>7. StateInv'
  BY <1>1, <1>3, <1>5, <1>6 DEF Inv, StateInv
<1>8. SessionGuard' /\ EmergencyGuard' /\ LockGuard'
  BY <1>1
     DEF Inv, SessionGuard, EmergencyGuard, LockGuard, LockedDown, Possible, Passes, FilterVerdict,
         Exempt
<1>9. LastInv'
  <2>1. /\ last'.fate = Fate(conn, b).fate /\ last'.heard = Fate(conn, b).heard
        /\ last'.counter = Fate(conn, b).counter
    BY <1>2 DEF outcome
  <2>2. last'.fresh => b = Binding(conn)
    BY <1>2 DEF b, fresh
  <2>3. Binding(conn)' = Binding(conn)
    BY <1>1 DEF Binding
  <2>4. ASSUME NEW c \in Bindings PROVE Fate(conn, c)' = Fate(conn, c)
    BY <1>1 DEF Fate, FilterVerdict
  <2>5. PICK c \in Bindings : c = b
    BY <1>5
  <2>6. /\ Possible(c)' /\ (last.fresh => c = Binding(conn))'
        /\ (last.fate = Fate(conn, c).fate)' /\ (last.heard = Fate(conn, c).heard)'
        /\ (last.counter = Fate(conn, c).counter)'
    BY <1>5, <1>6, <2>1, <2>2, <2>3, <2>4, <2>5
  <2> QED BY <2>6 DEF LastInv
<1> QED BY <1>7, <1>8, <1>9 DEF Inv

\* A table is written: by start, by the killswitch, or without a rule in it.
LEMMA WriteInv == Inv /\ (ApplyRules \/ ApplyKillswitch \/ FlushTable \/ DeleteTable) => Inv'
<1> SUFFICES ASSUME Inv, ApplyRules \/ ApplyKillswitch \/ FlushTable \/ DeleteTable PROVE Inv'
  OBVIOUS
<1> USE DEF Inv
<1>1. CASE ApplyRules
  <2>1. SessionTable \in TableForms /\ SessionTable.exists /\ SessionTable.filter # <<>>
    BY TablesWritten, FilterOutShape DEF TorFirst
  <2>2. SessionTable # NoTable
    BY <2>1 DEF NoTable
  <2>3. Retable(SessionTable, "session") /\ track' = track
    BY <1>1 DEF ApplyRules
  <2>4. StateInv' /\ LastInv' /\ table' = SessionTable /\ UNCHANGED <<options, conn>>
    BY <2>1, <2>2, <2>3, RetableStep
  <2>5. (conn \in Opened /\ table = SessionTable)'
    BY <2>4, OptionsDecide DEF StateInv
  <2>6. (conn \in Opened /\ table = SessionTable => SessionGuard /\ EmergencyGuard /\ LockGuard)'
    BY SessionTableGuards, PTL
  <2> QED BY <2>4, <2>5, <2>6
<1>2. CASE ApplyKillswitch
  <2>1. Killswitch \in TableForms /\ Killswitch.exists /\ Killswitch.filter # <<>>
    BY TablesWritten DEF Killswitch
  <2>2. Killswitch # NoTable
    BY <2>1 DEF NoTable
  <2>3. Retable(Killswitch, "session") /\ track' = track
    BY <1>2 DEF ApplyKillswitch
  <2>4. StateInv' /\ LastInv' /\ table' = Killswitch /\ UNCHANGED <<options, conn>>
    BY <2>1, <2>2, <2>3, RetableStep
  <2>5. (conn \in Opened /\ table = Killswitch)'
    BY <2>4 DEF StateInv
  <2>6. (conn \in Opened /\ table = Killswitch => SessionGuard /\ EmergencyGuard /\ LockGuard)'
    BY KillswitchGuards, PTL
  <2> QED BY <2>4, <2>5, <2>6
<1>3. (table.filter = <<>> => SessionGuard /\ EmergencyGuard /\ LockGuard)'
  BY EmptyGuards, PTL
<1>4. CASE FlushTable
  <2> DEFINE t == [table EXCEPT !.pre = <<>>, !.nat = <<>>, !.filter = <<>>]
  <2>1. table \in TableForms /\ table.exists
    BY <1>4 DEF FlushTable, StateInv
  <2>2. t \in TableForms /\ t.exists /\ t.filter = <<>>
    BY <2>1, FlushedForm
  <2>3. t # NoTable
    BY <2>2 DEF NoTable
  <2>4. Retable(t, "flushed") /\ track' = track
    BY <1>4 DEF FlushTable
  <2> HIDE DEF t
  <2>5. StateInv' /\ LastInv' /\ table' = t
    BY <2>2, <2>3, <2>4, RetableStep
  <2> QED BY <1>3, <2>2, <2>5
<1>5. CASE DeleteTable
  <2>1. NoTable \in TableForms /\ NoTable.filter = <<>>
    BY TablesWritten DEF NoTable
  <2>2. Retable(NoTable, "off") /\ track' = track
    BY <1>5 DEF DeleteTable
  <2>3. StateInv' /\ LastInv' /\ table' = NoTable
    BY <2>1, <2>2, RetableStep
  <2> QED BY <1>3, <2>1, <2>3
<1> QED BY <1>1, <1>2, <1>4, <1>5

\* The table stays as it is, while the teardown goes on.
LEMMA SameTable ==
  ASSUME Inv, NEW s \in {"unlocked", "slaughtered"}, Retable(table, s), track' \in {track, "untracked"},
         stage \notin {"off", "flushed"}
  PROVE  Inv'
<1>1. /\ table \in TableForms /\ (table = NoTable \/ table.exists)
      /\ table # NoTable /\ table.filter # <<>>
  BY DEF Inv, StateInv
<1>2. StateInv' /\ LastInv' /\ table' = table /\ UNCHANGED <<options, conn>>
  BY <1>1, RetableStep DEF Inv
<1>3. SessionGuard' /\ EmergencyGuard' /\ LockGuard'
  BY <1>2
     DEF Inv, SessionGuard, EmergencyGuard, LockGuard, LockedDown, Possible, Passes, FilterVerdict,
         Exempt
<1> QED BY <1>2, <1>3 DEF Inv

\* The teardown inserts a rule.
LEMMA InsertInv ==
  ASSUME Inv, NEW m \in {"othersAway", "away", "udp", "tcp"}, NEW v \in {"drop", "reject", "reset"},
         NEW s \in {"locked", "slaughtering", "slaughtered"},
         Retable(InsertRule(Rule(m, Both, v, Uncounted)), s), track' = track,
         stage \notin {"off", "flushed"}
  PROVE  Inv'
<1>1. /\ table \in TableForms /\ table.exists /\ table.filter # <<>>
  BY DEF Inv, StateInv
<1>2. table' = InsertRule(Rule(m, Both, v, Uncounted)) /\ UNCHANGED <<options, conn>>
  BY DEF Retable
<1>3. table' \in TableForms /\ table'.exists /\ table'.filter # <<>> /\ table' # NoTable
  BY <1>1, <1>2, InsertedStops DEF Inv
<1>4. SessionGuard' /\ EmergencyGuard' /\ LockGuard'
  BY <1>1, <1>2, InsertedGuards DEF Inv
<1>5. Retable(table', s)
  BY <1>2
<1>6. StateInv' /\ LastInv'
  BY <1>2, <1>3 DEF Retable, Inv, StateInv, LastInv, Possible, NoTable
<1> QED BY <1>4, <1>6 DEF Inv

\* Every step preserves the invariant.
LEMMA NextInv == Inv /\ [Next]_vars => Inv'
<1> SUFFICES ASSUME Inv, [Next]_vars PROVE Inv'
  OBVIOUS
<1>1. CASE Send
  BY <1>1, SendInv
<1>2. CASE ApplyRules \/ ApplyKillswitch \/ FlushTable \/ DeleteTable
  BY <1>2, WriteInv
<1>3. CASE Lockdown
  <2>1. stage \notin {"off", "flushed"} /\ track' = track
    BY <1>3 DEF Lockdown
  <2>2. CASE Retable(table, "unlocked")
    BY <2>1, <2>2, SameTable
  <2>3. ASSUME NEW m \in {"othersAway", "away"},
               Retable(InsertRule(Rule(m, Both, "drop", Uncounted)), "locked")
        PROVE  Inv'
    BY <2>1, <2>3, InsertInv
  <2> QED BY <1>3, <2>2, <2>3 DEF Lockdown
<1>4. CASE SlaughterUdp
  <2>1. stage \notin {"off", "flushed"} /\ track' = track
    BY <1>4 DEF SlaughterUdp
  <2>2. CASE Retable(table, "slaughtered")
    BY <2>1, <2>2, SameTable
  <2>3. CASE Retable(InsertRule(Rule("udp", Both, "reject", Uncounted)), "slaughtering")
    BY <2>1, <2>3, InsertInv
  <2> QED BY <1>4, <2>2, <2>3 DEF SlaughterUdp
<1>5. CASE SlaughterTcp
  <2>1. stage \notin {"off", "flushed"} /\ track' = track
    BY <1>5 DEF SlaughterTcp
  <2>2. CASE Retable(table, "slaughtered")
    BY <2>1, <2>2, SameTable
  <2>3. CASE Retable(InsertRule(Rule("tcp", Both, "reset", Uncounted)), "slaughtered")
    BY <2>1, <2>3, InsertInv
  <2> QED BY <1>5, <2>2, <2>3 DEF SlaughterTcp
<1>6. CASE FlushConntrack
  BY <1>6, SameTable DEF FlushConntrack
<1>7. CASE UNCHANGED vars
  <2>1. StateInv'
    BY <1>7 DEF vars, Inv, StateInv, Possible
  <2>2. SessionGuard' /\ EmergencyGuard' /\ LockGuard'
    BY <1>7
       DEF vars, Inv, SessionGuard, EmergencyGuard, LockGuard, LockedDown, Possible, Passes,
           FilterVerdict, Exempt
  <2>3. LastInv'
    <3>1. UNCHANGED last /\ Binding(conn)' = Binding(conn)
      BY <1>7 DEF vars, Binding
    <3>2. ASSUME NEW c \in Bindings
          PROVE  Fate(conn, c)' = Fate(conn, c) /\ (Possible(c)' <=> Possible(c))
      BY <1>7 DEF vars, Fate, FilterVerdict, Possible
    <3> QED BY <3>1, <3>2 DEF Inv, LastInv
  <2> QED BY <2>1, <2>2, <2>3 DEF Inv
<1> QED BY <1>1, <1>2, <1>3, <1>4, <1>5, <1>6, <1>7 DEF Next

\* Through ttp start, the killswitch and every step of the teardown, and whatever
\* packets are sent between them, a table does to the observed connection what
\* tables of its kind do, however connection tracking has bound it.
THEOREM RulesetInv == Spec => []Inv
BY InitInv, NextInv, PTL DEF Spec

--------------------------------------------------------------------------------
(* What the rules guarantee *)

\* The coarse names, one per table form.
LEMMA CoarseForms ==
  ASSUME table \in TableForms
  PROVE  /\ Coarse(table) \in Tables
         /\ Coarse(table) = "none" <=> ~table.exists
         /\ Coarse(table) \in {"redirect", "lockdown", "open"} <=> table.exists /\ table.policy = "accept"
         /\ Coarse(table) = "open" <=> table.exists /\ table.policy = "accept" /\ table.filter = <<>>
         /\ Coarse(table) = "redirect" => table = SessionTable
         /\ Coarse(table) \in EmergencyTables <=> table.exists /\ table.policy = "drop"
BY DEF TableForms, Coarse, Tables, EmergencyTables

\* Everything TTP does to the table, and every packet, keeps the types.
THEOREM RulesetTypes == Spec => []TypeOK
<1>1. Inv => TypeOK
  <2> SUFFICES ASSUME Inv PROVE TypeOK
    OBVIOUS
  <2>1. table \in TableForms /\ conn \in Opened
    BY DEF Inv, StateInv
  <2>2. \A chain \in {table.pre, table.nat, table.filter} :
           \A i \in DOMAIN chain : chain[i].verdict \in Verdicts /\ chain[i].fam \subseteq Both
    <3> SUFFICES ASSUME NEW chain \in {table.pre, table.nat, table.filter}, NEW i \in DOMAIN chain
                 PROVE  chain[i].verdict \in Verdicts /\ chain[i].fam \subseteq Both
      OBVIOUS
    <3>1. chain \in Seq(Rules)
      BY <2>1 DEF TableForms
    <3>2. chain[i] \in Rules
      BY <3>1
    <3> QED BY <3>2 DEF Rules
  <2>3. track \in Bindings \cup {"untracked"}
    BY DEF Inv, StateInv, Possible
  <2>4. last.fate \in {"none", "tor", "local", "clear", "dropped", "rejected"}
    <3>1. CASE last = Nothing
      BY <3>1 DEF Nothing
    <3>2. CASE last # Nothing
      <4>1. PICK b \in Bindings : last.fate = Fate(conn, b).fate
        BY <3>2 DEF Inv, LastInv
      <4>2. Delivered(Rewritten(conn, b)) \in {"tor", "local", "clear"}
        BY DEF Delivered
      <4> QED BY <4>1, <4>2 DEF Fate
    <3> QED BY <3>1, <3>2
  <2> QED BY <2>1, <2>2, <2>3, <2>4 DEF Inv, StateInv, TypeOK, TableForms, Bindings
<1> QED BY <1>1, RulesetInv, PTL

\* Traffic of a process that is not exempt does not leave in cleartext, whatever
\* the options, the services, the connection tracking and foreign nat chains are,
\* from the first rule of a session to the flush of its table.
LEMMA InvNoCleartext == Inv => NoCleartext
<1> SUFFICES ASSUME Inv, last.fate = "clear", Coarse(table) \in {"redirect", "lockdown"}
             PROVE  Exempt(conn)
  BY DEF NoCleartext
<1>1. table \in TableForms /\ conn \in Opened
  BY DEF Inv, StateInv
<1>2. table.exists /\ table.policy = "accept" /\ table.filter # <<>>
  BY <1>1, CoarseForms
<1>3. last # Nothing
  BY DEF Nothing
<1>4. PICK b \in Bindings : Possible(b) /\ Fate(conn, b).fate = "clear"
  BY <1>3 DEF Inv, LastInv
<1>5. conn.sender # "guest" /\ Passes(b)
  BY <1>1, <1>2, <1>4, FateClear
<1> QED BY <1>2, <1>4, <1>5 DEF Inv, SessionGuard

\* In a session and in its teardown up to the flush, whatever connection tracking
\* remembers, only what the options exempt leaves the host in cleartext.
THEOREM CleartextIsExempt == Spec => []NoCleartext
BY InvNoCleartext, RulesetInv, PTL

\* Under the killswitch nothing leaves the host, whatever a teardown inserted into
\* it or flushed from it.
LEMMA InvEmergencyIsClosed == Inv => EmergencyIsClosed
<1> SUFFICES ASSUME Inv, last.fate = "clear", Coarse(table) \in EmergencyTables
             PROVE  FALSE
  BY DEF EmergencyIsClosed
<1>1. table \in TableForms /\ conn \in Opened
  BY DEF Inv, StateInv
<1>2. table.exists /\ table.policy = "drop"
  BY <1>1, CoarseForms
<1>3. last # Nothing
  BY DEF Nothing
<1>4. PICK b \in Bindings : Possible(b) /\ Fate(conn, b).fate = "clear"
  BY <1>3 DEF Inv, LastInv
<1>5. Passes(b)
  BY <1>1, <1>2, <1>4, FateClear
<1> QED BY <1>2, <1>5 DEF Inv, EmergencyGuard

\* Under apply_emergency_killswitch, with whatever the teardown inserts or flushes,
\* nothing leaves the host.
THEOREM KillswitchIsClosed == Spec => []EmergencyIsClosed
BY InvEmergencyIsClosed, RulesetInv, PTL

\* Once the lockdown rule is in the chain nobody but Tor leaves the host.
THEOREM LockdownIsKept == Spec => []LockdownHolds
<1>1. Inv => LockdownHolds
  <2> SUFFICES ASSUME Inv, last.fate = "clear", LockedDown
               PROVE  conn.sender = "tor"
    BY DEF LockdownHolds
  <2>1. conn \in Opened /\ table.exists
    BY DEF Inv, StateInv, NoTable, LockedDown
  <2>2. last # Nothing
    BY DEF Nothing
  <2>3. PICK b \in Bindings : Possible(b) /\ Fate(conn, b).fate = "clear"
    BY <2>2 DEF Inv, LastInv
  <2>4. Passes(b)
    BY <2>1, <2>3, FateClear
  <2> QED BY <2>4 DEF Inv, LockGuard
<1> QED BY <1>1, RulesetInv, PTL

\* New TCP connections and DNS queries of ordinary processes reach Tor's ports.
THEOREM RedirectWorks == Spec => []RedirectReachesTor
<1>1. Inv => RedirectReachesTor
  <2> SUFFICES ASSUME Inv, last.fresh, Coarse(table) = "redirect", conn.sender = "user",
                      conn.fam = 4 \/ "ipv6" \in options,
                      \/ IsDns(conn) /\ "foreign" \notin options
                      \/ conn.proto = "tcp" /\ conn.dst \in {"wan", "doh", "own"} /\ ~IsDns(conn)
               PROVE  last.fate = "tor"
    BY DEF RedirectReachesTor
  <2>1. table \in TableForms /\ conn \in Opened
    BY DEF Inv, StateInv
  <2>2. table = SessionTable
    BY <2>1, CoarseForms
  <2>3. /\ table.filter \in Seq(Rules) /\ table.filter = FilterOut
        /\ table.nat = NatOutput /\ table.policy = "accept"
    BY <2>1, <2>2, TablesWritten DEF TableForms
  <2>4. last # Nothing
    BY DEF Nothing
  <2>5. PICK b \in Bindings : b = Binding(conn) /\ last.fate = Fate(conn, b).fate
    BY <2>4 DEF Inv, LastInv
  <2>6. conn.fam \in Both
    BY <2>1, OpenedFacts
  <2>7. Decision(NatOutput, conn) = IF IsDns(conn) THEN "dnsport" ELSE "transport"
    BY <2>6, NatOutputDecides DEF Both, Loopback
  <2>8. b = Decision(NatOutput, conn)
    BY <2>3, <2>5, <2>7 DEF Binding, Decision, IsDns
  <2> DEFINE q == Rewritten(conn, b)
  <2>9. /\ q.sender = "user" /\ q.fam = conn.fam /\ q.fam \in Both
        /\ q.dst = "localhost" /\ q.port \in {TransPort, DNSPort}
    BY <2>1, <2>7, <2>8, RewrittenFacts
  <2> HIDE DEF q
  <2>10. Decision(FilterOut, q) = "accept"
    BY <2>9, FilterOutDecides DEF Both, Unredirected, Host, Loopback
  <2>11. FilterVerdict(q) = "accept"
    BY <2>3, <2>10, VerdictOfTable
  <2>12. Delivered(q) = "tor"
    BY <2>9 DEF Delivered
  <2> QED BY <2>1, <2>5, <2>11, <2>12, FateAccepted DEF q
<1> QED BY <1>1, RulesetInv, PTL

\* The kernel's answer to a packet that the session rejects passes filter_out.
THEOREM AnswersPass == Spec => []RejectionIsHeard
<1>1. Inv => RejectionIsHeard
  <2> SUFFICES ASSUME Inv, last.fate = "rejected", Coarse(table) = "redirect"
               PROVE  last.heard
    BY DEF RejectionIsHeard
  <2>1. table \in TableForms /\ conn \in Opened
    BY DEF Inv, StateInv
  <2>2. table = SessionTable
    BY <2>1, CoarseForms
  <2>3. table.filter \in Seq(Rules) /\ table.filter = FilterOut /\ table.policy = "accept"
    BY <2>1, <2>2, TablesWritten DEF TableForms
  <2>4. last # Nothing
    BY DEF Nothing
  <2>5. PICK b \in Bindings : Fate(conn, b).fate = "rejected" /\ last.heard = Fate(conn, b).heard
    BY <2>4 DEF Inv, LastInv
  <2> DEFINE q == Rewritten(conn, b)
             v == FilterVerdict(q)
             a == Answer(q, v)
  <2>6. v \notin {"accept", "drop"} /\ Fate(conn, b).heard = (FilterVerdict(a) = "accept")
    BY <2>1, <2>5, FateRejected
  <2>7. q.fam \in Both /\ q.sender = conn.sender
    BY <2>1, RewrittenFacts
  <2>8. v = Decision(FilterOut, q)
    BY <2>3, <2>6, VerdictOfTable
  <2>9. q.sender # "tor" /\ (q.fam = 4 \/ "ipv6" \in options)
    BY <2>6, <2>7, <2>8, FilterOutDecides DEF Both
  <2>10. a.sender = "kernel" /\ a.dir = "reply" /\ a.fam = q.fam /\ a.dst \in {"localhost", "own"}
    BY <2>1, AnswerFacts
  <2> HIDE DEF q, v, a
  <2>11. Decision(FilterOut, a) = "accept"
    BY <2>7, <2>9, <2>10, FilterOutDecides DEF Both, Unredirected, Host, Loopback
  <2>12. FilterVerdict(a) = "accept"
    BY <2>3, <2>11, VerdictOfTable
  <2> QED BY <2>5, <2>6, <2>12
<1> QED BY <1>1, RulesetInv, PTL

\* The watchdog's alarm counters are raised by the rules for DNS, DoT and DoH only.
LEMMA AlarmHit ==
  ASSUME NEW q, FirstHit(FilterOut, q).counter \in AlarmCounters
  PROVE  /\ Decision(FilterOut, q) = "reject"
         /\ \/ Unredirected(q)
            \/ q.proto = "tcp"
            \/ q.dst = "doh" /\ q.proto = "udp" /\ q.port = 443
<1>1. FilterOut \in Seq(SessionRules)
  BY FilterOutShape DEF TorFirst
<1>2. FilterOut \in Seq(Rules)
  BY TablesWritten DEF TableForms
<1>3. FirstHit(FilterOut, q) # NoRule
  BY DEF NoRule, Rule, Uncounted, AlarmCounters
<1>4. PICK i \in DOMAIN FilterOut : FirstHit(FilterOut, q) = FilterOut[i] /\ Hit(FilterOut[i], q)
  BY <1>2, <1>3, HitIsRule
<1>5. FilterOut[i] \in SessionRules
  BY <1>1, <1>4
<1>6. FilterOut[i].match \in AlarmMatches /\ FilterOut[i].verdict = "reject"
  BY <1>4, <1>5 DEF SessionRules
<1>7. Matches(FilterOut[i].match, q)
  BY <1>4 DEF Hit
<1> QED BY <1>4, <1>6, <1>7 DEF AlarmMatches, Matches, Decision, Unredirected

\* The watchdog's alarm means what it takes it for: of the connections opened in a
\* session, nat output leaves to the alarm counters only DNS that another program's
\* nat chain took first, and QUIC to a DoH address.
THEOREM AlarmsAreTrue == Spec => []NoFalseAlarm
<1>1. Inv => NoFalseAlarm
  <2> SUFFICES ASSUME Inv, last.fresh, last.counter \in AlarmCounters, Coarse(table) = "redirect",
                      ~(conn.proto = "udp" /\ conn.dst = "doh" /\ conn.port = 443)
               PROVE  "foreign" \in options /\ IsDns(conn)
    BY DEF NoFalseAlarm
  <2>1. table \in TableForms /\ conn \in Opened
    BY DEF Inv, StateInv
  <2>2. table = SessionTable
    BY <2>1, CoarseForms
  <2>3. table.filter = FilterOut /\ table.nat = NatOutput /\ NatOutput \in Seq(Rules)
    BY <2>1, <2>2, TablesWritten DEF TableForms
  <2>4. last # Nothing
    BY DEF Nothing
  <2>5. PICK b \in Bindings : b = Binding(conn) /\ last.counter = Fate(conn, b).counter
    BY <2>4 DEF Inv, LastInv
  <2> DEFINE q == Rewritten(conn, b)
  <2>6. /\ q.sender = conn.sender /\ q.fam = conn.fam /\ q.fam \in Both /\ q.proto = conn.proto
        /\ q.orig = conn.port /\ q.dir = "original"
        /\ q.dst = IF b = "plain" THEN conn.dst ELSE IF b = "foreign" THEN "lan" ELSE "localhost"
    BY <2>1, RewrittenFacts
  <2>7. b = "plain" => q = conn
    BY DEF Rewritten
  <2>8. conn.sender # "guest" /\ FirstHit(FilterOut, q).counter \in AlarmCounters
    BY <2>3, <2>5, <2>6 DEF Fate, AlarmCounters, Uncounted
  <2> HIDE DEF q
  <2>9. /\ Decision(FilterOut, q) = "reject"
        /\ \/ Unredirected(q) \/ q.proto = "tcp"
           \/ q.dst = "doh" /\ q.proto = "udp" /\ q.port = 443
    BY <2>8, AlarmHit
  <2>10. /\ q.sender # "tor" /\ ~(q.sender = "slice" /\ "cgroup" \in options) /\ q.sender # "bypass"
         /\ q.fam = 4 \/ "ipv6" \in options
         /\ q.dst \notin Loopback
         /\ Unredirected(q) \/ ~(q.dst = "lan" /\ "lan" \in options)
    BY <2>6, <2>9, FilterOutDecides DEF Both, Unredirected, Host
  <2>11. IsDns(conn) \/ conn.proto = "tcp"
    BY <2>6, <2>7, <2>9 DEF Unredirected, IsDns, Matches
  <2>12. Unredirected(q) => IsDns(conn)
    BY <2>6 DEF Unredirected, IsDns, Matches
  <2>13. Decision(NatOutput, conn) =
           IF IsDns(conn) THEN "dnsport"
           ELSE IF conn.dst \in Loopback \/ (conn.dst = "lan" /\ "lan" \in options) THEN "accept"
           ELSE "transport"
    BY <2>6, <2>10, <2>11, NatOutputDecides DEF Both
  <2>14. b = IF "foreign" \in options /\ IsDns(conn) THEN "foreign"
             ELSE IF Decision(NatOutput, conn) \in {"dnsport", "transport"}
                  THEN Decision(NatOutput, conn) ELSE "plain"
    BY <2>3, <2>5, <2>8 DEF Binding, Decision, IsDns
  <2> QED BY <2>6, <2>10, <2>12, <2>13, <2>14 DEF Loopback
<1> QED BY <1>1, RulesetInv, PTL

\* The coarse name of a table with a rule inserted into it.
LEMMA CoarseInserted ==
  ASSUME StateInv, table.exists, UNCHANGED <<options, conn>>,
         NEW m \in {"othersAway", "away", "udp", "tcp"}, NEW v \in {"drop", "reject", "reset"},
         table' = InsertRule(Rule(m, Both, v, Uncounted))
  PROVE  Coarse(table') = InsertDrop(Coarse(table))
<1>1. /\ table' \in TableForms /\ table'.exists /\ table'.policy = table.policy
      /\ table'.filter # <<>> /\ table'.filter[1].match = m
  BY InsertedStops
<1>2. table \in TableForms
  BY DEF StateInv
<1>3. table' # SessionTable
  BY <1>1, FilterOutShape, TablesWritten DEF TorFirst
<1>4. table' # Killswitch
  BY <1>1 DEF Killswitch, Rule
<1>5. table.policy = "accept" =>
        Coarse(table') = "lockdown" /\ Coarse(table) \in {"redirect", "lockdown", "open"}
  BY <1>1, <1>2, <1>3 DEF Coarse
<1>6. table.policy # "accept" =>
        Coarse(table') = "guarded" /\ Coarse(table) \in {"emergency", "guarded", "sealed"}
  BY <1>1, <1>2, <1>4 DEF Coarse
<1> QED BY <1>5, <1>6 DEF InsertDrop, SessionTables, EmergencyTables

\* Every step of the table is one of KernelTable's.
LEMMA CoarseSteps == Inv /\ Next => CoarseStep
<1> SUFFICES ASSUME Inv, Next, table' # table
             PROVE  Coarse(table') \in {ApplyRulesTo(Coarse(table)), ApplyKillswitchTo(Coarse(table)),
                                        InsertDrop(Coarse(table)), FlushRules(Coarse(table)), "none"}
  BY DEF CoarseStep
<1> USE DEF Inv
<1>1. table \in TableForms /\ (stage # "off" => table.exists)
  BY DEF StateInv
<1>2. CASE ApplyRules
  <2>1. table' = SessionTable
    BY <1>2 DEF ApplyRules, Retable
  <2>2. SessionTable.filter # <<>> /\ SessionTable.exists /\ SessionTable.policy = "accept"
    BY TablesWritten, FilterOutShape DEF TorFirst
  <2>3. Coarse(SessionTable) = "redirect"
    BY <2>2 DEF Coarse
  <2> QED BY <2>1, <2>3 DEF ApplyRulesTo
<1>3. CASE ApplyKillswitch
  <2>1. table' = Killswitch
    BY <1>3 DEF ApplyKillswitch, Retable
  <2>2. Killswitch.filter # <<>> /\ Killswitch.exists /\ Killswitch.policy = "drop"
    BY DEF Killswitch
  <2>3. Coarse(Killswitch) = "emergency"
    BY <2>2 DEF Coarse
  <2> QED BY <2>1, <2>3 DEF ApplyKillswitchTo
<1>4. ASSUME NEW m \in {"othersAway", "away", "udp", "tcp"}, NEW v \in {"drop", "reject", "reset"}, NEW s,
             Retable(InsertRule(Rule(m, Both, v, Uncounted)), s), stage # "off"
      PROVE  Coarse(table') = InsertDrop(Coarse(table))
  BY <1>1, <1>4, CoarseInserted DEF Retable
<1>5. CASE Lockdown
  BY <1>4, <1>5 DEF Lockdown, Retable
<1>6. CASE SlaughterUdp
  BY <1>4, <1>6 DEF SlaughterUdp, Retable
<1>7. CASE SlaughterTcp
  BY <1>4, <1>7 DEF SlaughterTcp, Retable
<1>8. CASE FlushTable
  <2>1. table' = [table EXCEPT !.pre = <<>>, !.nat = <<>>, !.filter = <<>>] /\ table.exists
    BY <1>1, <1>8 DEF FlushTable, Retable
  <2>2. table'.filter = <<>> /\ table'.policy = table.policy /\ table'.exists
    BY <1>1, <2>1, FlushedForm
  <2>3. table.policy = "accept" =>
          Coarse(table') = "open" /\ Coarse(table) \in {"redirect", "lockdown", "open"}
    BY <1>1, <2>1, <2>2 DEF Coarse
  <2>4. table.policy # "accept" =>
          Coarse(table') = "sealed" /\ Coarse(table) \in {"emergency", "guarded", "sealed"}
    BY <1>1, <2>1, <2>2 DEF Coarse
  <2> QED BY <2>3, <2>4 DEF FlushRules, SessionTables, EmergencyTables
<1>9. CASE DeleteTable
  BY <1>9 DEF DeleteTable, Retable, Coarse, NoTable
<1>10. CASE Send \/ FlushConntrack
  BY <1>10 DEF Send, FlushConntrack, Retable
<1> QED BY <1>2, <1>3, <1>5, <1>6, <1>7, <1>8, <1>9, <1>10 DEF Next

\* KernelTable is right about the chains: SessionSafety and Lifecycle take every
\* step of the table there is, and what they call protected is.
THEOREM CoarseViewIsRight == Spec => CoarseTableAgrees
<1> DEFINE Agrees == /\ CoarseStep
                     /\ last'.fate = "clear" /\ ~Exempt(conn) => Cleartext(Coarse(table))
<1>1. Inv /\ Inv' /\ [Next]_vars => [Agrees]_vars
  <2> SUFFICES ASSUME Inv, Inv', Next PROVE Agrees
    OBVIOUS
  <2>1. CoarseStep
    BY CoarseSteps
  <2>2. ASSUME last'.fate = "clear", ~Exempt(conn) PROVE Cleartext(Coarse(table))
    <3>1. last' # Nothing
      BY <2>2 DEF Nothing
    <3>2. UNCHANGED <<options, table, conn>>
      BY <3>1 DEF Next, Send, ApplyRules, ApplyKillswitch, Lockdown, SlaughterUdp, SlaughterTcp,
                  FlushConntrack, FlushTable, DeleteTable, Retable
    <3>3. (Inv => NoCleartext /\ EmergencyIsClosed)'
      BY InvNoCleartext, InvEmergencyIsClosed, PTL
    <3>4. /\ Coarse(table)' \notin {"redirect", "lockdown"} \/ Exempt(conn)'
          /\ Coarse(table)' \notin EmergencyTables
      BY <2>2, <3>3 DEF NoCleartext, EmergencyIsClosed
    <3>5. Coarse(table)' = Coarse(table) /\ (Exempt(conn)' <=> Exempt(conn))
      BY <3>2, OptionsDecide DEF Coarse, Exempt
    <3>6. Coarse(table) \in Tables
      BY CoarseForms DEF Inv, StateInv
    <3> QED BY <2>2, <3>4, <3>5, <3>6 DEF Tables, EmergencyTables, Cleartext
  <2> QED BY <2>1, <2>2
<1> QED BY <1>1, RulesetInv, PTL DEF Spec, CoarseTableAgrees, Agrees

================================================================================
