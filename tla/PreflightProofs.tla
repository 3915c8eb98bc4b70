---------------------------- MODULE PreflightProofs ----------------------------
(***************************************************************************)
(* What ttp start decides before its session exists is right whatever      *)
(* changes between its reads, for every number of starts, hosts, command   *)
(* lines, links and changes.                                               *)
(***************************************************************************)
EXTENDS Preflight, WellFoundedInduction, TLAPS

\* A set of naturals that is not empty has its minimum as a member.
LEMMA MinIsMember ==
    ASSUME NEW S \in SUBSET Nat, S # {}
    PROVE  Min(S) \in S
<1> DEFINE Less == OpToRel(<, Nat)
<1>1. \A x, y \in Nat : <<y, x>> \in Less <=> y < x
  BY DEF OpToRel
<1>2. IsWellFoundedOn(Less, Nat)
  BY NatLessThanWellFounded
<1> HIDE DEF Less
<1>3. PICK x \in S : \A y \in S : ~(<<y, x>> \in Less)
  BY <1>2, WFMin
<1>4. \A y \in S : ~(y < x)
  BY <1>1, <1>3, Zenon
<1>5. \A y \in S : x <= y
  BY <1>3, <1>4
<1> QED BY <1>3, <1>5 DEF Min

\* A step of a start is one of these.
LEMMA StartCases ==
    ASSUME NEW p \in Starters, Start(p)
    PROVE  \/ Begin(p) \/ CheckPorts(p)
           \/ PolicyBegin(p) \/ PolicyLinks(p) \/ PolicyMode(p) \/ PolicyEffective(p)
           \/ PolicyAgain(p) \/ PolicySettled(p) \/ PolicyGlobal(p) \/ PolicyUnreadable(p)
           \/ CheckSession(p) \/ CheckOrphan(p) \/ Recover(p) \/ CheckSpace(p) \/ DetectTor(p)
           \/ ResolveExternal(p) \/ GenerateTorrc(p) \/ RestartTor(p) \/ ApplyRules(p) \/ ApplyDns(p)
           \/ WriteLock(p)
BY DEF Start, Dnssec

\* A step is a start's, a stop, one of the environment's, or none.
LEMMA NextCases ==
    ASSUME [Next]_vars
    PROVE  \/ \E p \in Starters : Start(p)
           \/ Stop \/ UNCHANGED vars
           \/ LinkComes \/ LinkGoes \/ Reconfigure \/ ResolvedFollows \/ GlobalChanges
           \/ Ipv6Switches \/ PortTaken \/ PortFreed \/ DaemonComesOrGoes
BY DEF Next, Environment

\* The start goes from one point to another, and the others stay where they are.
Moves(p, from, to) ==
    /\ pc' \in [Starters -> Points]
    /\ pc[p] = from /\ pc'[p] = to
    /\ \A q \in Starters \ {p} : pc'[q] = pc[q]

\* The local variables of the others.
Apart(p) == \A q \in Starters \ {p} :
    /\ pc'[q] = pc[q] /\ req'[q] = req[q] /\ code'[q] = code[q]
    /\ scan'[q] = scan[q] /\ account'[q] = account[q]

\* Goto moves one start.
LEMMA GotoMoves ==
    ASSUME LocalsTyped, NEW p \in Starters, NEW from, NEW to \in Points, Goto(p, from, to)
    PROVE  Moves(p, from, to)
BY DEF LocalsTyped, Goto, Moves

\* The local variables of a start that has not begun, or has ended.
LEMMA NothingTyped == NoScan \in Scans /\ NoAccount \in Accounts
BY DEF NoScan, Scans, Modes, NoAccount, Accounts

\* A command that returns forgets its local variables.
LEMMA ExitMoves ==
    ASSUME LocalsTyped, NEW p \in Starters, NEW from, NEW c \in {0, 1, 2, 4, 5}, Exit(p, from, c)
    PROVE  /\ Moves(p, from, "done")
           /\ code' \in [Starters -> {0, 1, 2, 4, 5}]
           /\ scan' \in [Starters -> Scans] /\ account' \in [Starters -> Accounts]
           /\ \A q \in Starters \ {p} : code'[q] = code[q] /\ scan'[q] = scan[q] /\ account'[q] = account[q]
<1>1. "done" \in Points
  BY DEF Points
<1>2. Moves(p, from, "done")
  BY <1>1, GotoMoves DEF Exit
<1> QED BY <1>2, NothingTyped DEF Exit, LocalsTyped

\* The exit codes of the checks of the command line.
LEMMA ValidatedCode ==
    ASSUME NEW r PROVE Validated(r) \in {0, 1, 2, 4, 5}
BY DEF Validated

\* The listed links are all still to be inspected.
LEMMA LinksScan ==
    ASSUME TypeOK, NEW p \in Starters, PolicyLinks(p)
    PROVE  /\ scan' \in [Starters -> Scans] /\ \A q \in Starters \ {p} : scan'[q] = scan[q]
           /\ scan'[p].links = up /\ scan'[p].todo = up /\ scan'[p].global = scan[p].global
<1>1. PICK s \in Scans : s = scan[p]
  BY DEF TypeOK, LocalsTyped
<1> DEFINE t == [s EXCEPT !.links = up, !.todo = up]
<1>2. t \in Scans /\ t.links = up /\ t.todo = up /\ t.global = s.global
  BY DEF Scans, TypeOK, NetworkTyped
<1>3. scan' = [scan EXCEPT ![p] = t]
  BY <1>1 DEF PolicyLinks, TypeOK, LocalsTyped
<1> HIDE DEF t
<1> QED BY <1>1, <1>2, <1>3 DEF TypeOK, LocalsTyped

\* The saved mode of the link is remembered; nothing else of the check changes.
LEMMA ModeScan ==
    ASSUME TypeOK, NEW p \in Starters, NEW m \in Modes, scan' = [scan EXCEPT ![p].mode = m]
    PROVE  /\ scan' \in [Starters -> Scans] /\ \A q \in Starters \ {p} : scan'[q] = scan[q]
           /\ scan'[p].links = scan[p].links /\ scan'[p].todo = scan[p].todo /\ scan'[p].global = scan[p].global
           /\ scan'[p].mode = m
<1>1. PICK s \in Scans : s = scan[p]
  BY DEF TypeOK, LocalsTyped
<1> DEFINE t == [s EXCEPT !.mode = m]
<1>2. t \in Scans /\ t.links = s.links /\ t.todo = s.todo /\ t.global = s.global /\ t.mode = m
  BY DEF Scans
<1>3. scan' = [scan EXCEPT ![p] = t]
  BY <1>1 DEF TypeOK, LocalsTyped
<1> HIDE DEF t
<1> QED BY <1>1, <1>2, <1>3 DEF TypeOK, LocalsTyped

\* The link has been inspected; nothing else of the check changes.
LEMMA TodoScan ==
    ASSUME TypeOK, NEW p \in Starters, scan' = [scan EXCEPT ![p].todo = @ \ {Link(p)}]
    PROVE  /\ scan' \in [Starters -> Scans] /\ \A q \in Starters \ {p} : scan'[q] = scan[q]
           /\ scan'[p].links = scan[p].links /\ scan'[p].todo = scan[p].todo \ {Link(p)}
           /\ scan'[p].global = scan[p].global
<1>1. PICK s \in Scans : s = scan[p]
  BY DEF TypeOK, LocalsTyped
<1> DEFINE t == [s EXCEPT !.todo = @ \ {Link(p)}]
<1>2. t \in Scans /\ t.links = s.links /\ t.todo = s.todo \ {Link(p)} /\ t.global = s.global
  BY DEF Scans
<1>3. scan' = [scan EXCEPT ![p] = t]
  BY <1>1 DEF TypeOK, LocalsTyped
<1> HIDE DEF t
<1> QED BY <1>1, <1>2, <1>3 DEF TypeOK, LocalsTyped

\* The check begins with the global mode.
LEMMA BeginScan ==
    ASSUME TypeOK, NEW p \in Starters, scan' = [scan EXCEPT ![p] = [NoScan EXCEPT !.global = global]]
    PROVE  /\ scan' \in [Starters -> Scans] /\ \A q \in Starters \ {p} : scan'[q] = scan[q]
           /\ scan'[p].global = global
<1> DEFINE t == [NoScan EXCEPT !.global = global]
<1>1. t \in Scans /\ t.global = global
  BY NothingTyped DEF Scans, TypeOK, NetworkTyped, NoScan
<1> HIDE DEF t
<1>2. scan' = [scan EXCEPT ![p] = t]
  BY DEF t
<1> QED BY <1>1, <1>2 DEF TypeOK, LocalsTyped

\* _configured_mode returns a mode, also for a link that is gone.
LEMMA ConfiguredTyped ==
    ASSUME TypeOK, NEW l PROVE ConfiguredMode(l) \in Modes
BY DEF TypeOK, NetworkTyped, ConfiguredMode, Modes

\* What a host's account database, its ports and its lock hold.
LEMMA HostTyped ==
    ASSUME TypeOK
    PROVE  /\ DOMAIN host.uid \subseteq Names
           /\ \A n \in DOMAIN host.uid : host.uid[n] \in Nat /\ host.uid[n] \in Uids
           /\ host.holder \in Names \cup {Nobody} /\ host.lock \in Legacy \cup {Nobody}
<1>1. host \in Hosts /\ HostType(host)
  BY PreflightAssumption DEF TypeOK
<1>2. DOMAIN host.uid \in {DOMAIN h.uid : h \in Hosts}
  BY <1>1
<1>3. DOMAIN host.uid \subseteq Names
  BY <1>2 DEF Names
<1>4. {host.uid[n] : n \in DOMAIN host.uid} \in {{h.uid[n] : n \in DOMAIN h.uid} : h \in Hosts}
  BY <1>1
<1>5. {host.uid[n] : n \in DOMAIN host.uid} \subseteq Uids
  BY <1>4 DEF Uids
<1>6. \A n \in DOMAIN host.uid : host.uid[n] \in Uids
  BY <1>5
<1> QED BY <1>1, <1>3, <1>6 DEF HostType

\* The ports and the number of a command line are among those considered.
LEMMA RequestTyped ==
    ASSUME TypeOK, NEW r \in Requests
    PROVE  r.t \in Ports /\ r.d \in Ports /\ r.number \in Uids
<1>1. {r.t, r.d} \in {{s.t, s.d} : s \in Requests} /\ r.number \in {s.number : s \in Requests}
  OBVIOUS
<1>2. {r.t, r.d} \subseteq Ports
  BY <1>1 DEF Ports
<1>3. r.number \in Uids
  BY <1>1 DEF Uids
<1> QED BY <1>1, <1>2, <1>3

\* First finds one of the two names, if there is one.
LEMMA FirstKnown ==
    ASSUME TypeOK, Known(<<"tor", "debian-tor">>) # {}
    PROVE  First(<<"tor", "debian-tor">>) \in {"tor", "debian-tor"} \cap DOMAIN host.uid
<1> DEFINE users == <<"tor", "debian-tor">>
           K == Known(users)
<1>1. DOMAIN users = {1, 2} /\ users[1] = "tor" /\ users[2] = "debian-tor"
  OBVIOUS
<1>2. K \subseteq {1, 2} /\ \A i \in K : users[i] \in DOMAIN host.uid
  BY <1>1 DEF Known
<1>3. \E i \in K : \A j \in K : i <= j
  BY <1>2
<1>4. Min(K) \in K
  BY <1>3 DEF Min
<1> QED BY <1>1, <1>2, <1>4 DEF First

\* The UID of an external Tor is a known one.
LEMMA ExternalTyped ==
    ASSUME TypeOK, NEW r \in Requests, NEW u \in ExternalUid(r)
    PROVE  u \in Uids /\ (r.external => Dedicated(r, u))
<1>1. CASE r.by = "number"
  BY <1>1, RequestTyped DEF ExternalUid, Dedicated
<1>2. CASE r.by = "name"
  BY <1>2, HostTyped DEF ExternalUid, Dedicated
<1>3. CASE r.by = "default" /\ OwnerIsTor(PortOwner(r.t))
  BY <1>3, HostTyped DEF ExternalUid, Dedicated, OwnerIsTor
<1>4. CASE r.by = "default" /\ ~OwnerIsTor(PortOwner(r.t))
  <2>1. Known(<<"tor", "debian-tor">>) # {} /\ u = host.uid[First(<<"tor", "debian-tor">>)]
    BY <1>4 DEF ExternalUid
  <2>2. First(<<"tor", "debian-tor">>) \in KnownTorUsernames \cap DOMAIN host.uid
    BY <2>1, FirstKnown DEF KnownTorUsernames
  <2> QED BY <2>1, <2>2, HostTyped DEF Dedicated
<1>5. r.by \in {"default", "number", "name"}
  BY PreflightAssumption DEF RequestType
<1> QED BY <1>1, <1>2, <1>3, <1>4, <1>5

\* A start changes its own local variables only, and keeps their types.
LEMMA OwnStep ==
    ASSUME TypeOK, NEW p \in Starters, Start(p)
    PROVE  LocalsTyped' /\ Apart(p)
<1> USE DEF Moves
<1>0. LocalsTyped
  BY DEF TypeOK
<1>1. CASE Begin(p)
  <2>1. PICK r \in Requests :
            IF Validated(r) = 0 THEN Goes(p, "idle", "ports") /\ req' = [req EXCEPT ![p] = r]
                                ELSE Exit(p, "idle", Validated(r)) /\ UNCHANGED req
    BY <1>1 DEF Begin
  <2>2. "ports" \in Points
    BY DEF Points
  <2>3. CASE Validated(r) = 0
    BY <1>0, <2>1, <2>2, <2>3, GotoMoves DEF Goes, LocalsTyped, Apart
  <2>4. CASE Validated(r) # 0
    BY <1>0, <2>1, <2>4, ValidatedCode, ExitMoves DEF LocalsTyped, Apart
  <2> QED BY <2>3, <2>4
<1>2. CASE CheckPorts(p) \/ CheckOrphan(p) \/ CheckSpace(p)
  <2>1. {"dnssec", "recover", "account"} \subseteq Points
    BY DEF Points, Inside
  <2> QED BY <1>0, <1>2, <2>1, GotoMoves, ExitMoves
             DEF CheckPorts, CheckOrphan, CheckSpace, Goes, LocalsTyped, Apart
<1>3. CASE PolicyBegin(p)
  <2>1. {"links", "session"} \subseteq Points
    BY DEF Points, Scanning
  <2> QED BY <1>0, <1>3, <2>1, GotoMoves, BeginScan DEF PolicyBegin, Scan, LocalsTyped, Apart
<1>4. CASE PolicyLinks(p)
  <2>1. {"settled", "mode"} \subseteq Points
    BY DEF Points, Scanning
  <2>2. UNCHANGED <<req, account, code>> /\ \E to \in {"settled", "mode"} : Goto(p, "links", to)
    BY <1>4 DEF PolicyLinks, Scan
  <2> QED BY <1>0, <1>4, <2>1, <2>2, GotoMoves, LinksScan DEF LocalsTyped, Apart
<1>5. CASE PolicyMode(p)
  <2>1. "effective" \in Points
    BY DEF Points, Scanning
  <2> QED BY <1>0, <1>5, <2>1, GotoMoves, ExitMoves, ModeScan, ConfiguredTyped
             DEF PolicyMode, Scan, LocalsTyped, Apart
<1>6. CASE PolicyAgain(p)
  <2>1. {"settled", "mode"} \subseteq Points
    BY DEF Points, Scanning
  <2>2. UNCHANGED <<req, account, code>> /\ \E to \in {"settled", "mode"} : Goto(p, "again", to)
    BY <1>6 DEF PolicyAgain, Scan
  <2>3. scan' = [scan EXCEPT ![p].todo = @ \ {Link(p)}]
    BY <1>6 DEF PolicyAgain
  <2> QED BY <1>0, <2>1, <2>2, <2>3, GotoMoves, TodoScan DEF LocalsTyped, Apart
<1>7. CASE PolicyEffective(p) \/ PolicySettled(p) \/ PolicyGlobal(p) \/ PolicyUnreadable(p)
  <2>1. {"again", "global", "session"} \subseteq Points
    BY DEF Points, Scanning
  <2> QED BY <1>0, <1>7, <2>1, GotoMoves, ExitMoves, NothingTyped
         
                DEF PolicyEffective, PolicySettled, SettledUnread, PolicyGlobal, PolicyUnreadable, Scan,
                    LocalsTyped, Apart
<1>8. CASE CheckSession(p)
  <2>1. {"space", "orphan"} \subseteq Points
    BY DEF Points, Inside
  <2> QED BY <1>0, <1>8, <2>1, GotoMoves, ExitMoves
             DEF CheckSession, CheckSessionPid, locals, LocalsTyped, Apart
<1>9. CASE Recover(p) \/ GenerateTorrc(p)
  <2>1. {"space", "restart"} \subseteq Points
    BY DEF Points, Inside
  <2> QED BY <1>0, <1>9, <2>1, GotoMoves DEF Recover, GenerateTorrc, locals, LocalsTyped, Apart
<1>10. CASE DetectTor(p)
  <2>1. "torrc" \in Points
    BY DEF Points, Inside
  <2>2. PICK n \in DetectTorUser :
           \/ Exit(p, "account", 0) \/ Exit(p, "account", 1)
           \/ /\ IsTorSystemAccount(n)
              /\ Goto(p, "account", "torrc") /\ UNCHANGED <<code, scan>>
              /\ account' = [account EXCEPT ![p] = [user |-> n, uid |-> host.uid[n]]]
    BY <1>10 DEF DetectTor
  <2>3. UNCHANGED req
    BY <1>10 DEF DetectTor
  <2>4. CASE Exit(p, "account", 0) \/ Exit(p, "account", 1)
    BY <1>0, <2>3, <2>4, ExitMoves DEF LocalsTyped, Apart
  <2>5. CASE /\ IsTorSystemAccount(n)
             /\ Goto(p, "account", "torrc") /\ UNCHANGED <<code, scan>>
             /\ account' = [account EXCEPT ![p] = [user |-> n, uid |-> host.uid[n]]]
    <3>1. [user |-> n, uid |-> host.uid[n]] \in Accounts
      BY <2>5, HostTyped DEF IsTorSystemAccount, Accounts
    <3> QED BY <1>0, <2>1, <2>3, <2>5, <3>1, GotoMoves DEF LocalsTyped, Apart
  <2> QED BY <2>2, <2>4, <2>5
<1>11. CASE ResolveExternal(p)
  <2>1. "rules" \in Points
    BY DEF Points, Inside
  <2>2. CASE Exit(p, "account", 1)
    BY <1>0, <1>11, <2>2, ExitMoves DEF ResolveExternal, LocalsTyped, Apart
  <2>3. ASSUME NEW u \in ExternalUid(req[p]), Goto(p, "account", "rules"), UNCHANGED <<code, scan>>,
               account' = [account EXCEPT ![p] = [user |-> Nobody, uid |-> u]]
        PROVE  LocalsTyped' /\ Apart(p)
    <3>1. [user |-> Nobody, uid |-> u] \in Accounts
      BY <1>0, ExternalTyped DEF LocalsTyped, Accounts
    <3> QED BY <1>0, <1>11, <2>1, <2>3, <3>1, GotoMoves DEF ResolveExternal, LocalsTyped, Apart
  <2> QED BY <1>11, <2>2, <2>3 DEF ResolveExternal
<1>12. CASE RestartTor(p) \/ ApplyRules(p) \/ ApplyDns(p) \/ WriteLock(p)
  <2>1. {"rules", "dns", "record"} \subseteq Points
    BY DEF Points, Inside
  <2> QED BY <1>0, <1>12, <2>1, GotoMoves, ExitMoves
             DEF RestartTor, ApplyRules, ApplyDns, WriteLock, Goes, LocalsTyped, Apart
<1> QED BY <1>1, <1>2, <1>3, <1>4, <1>5, <1>6, <1>7, <1>8, <1>9, <1>10, <1>11, <1>12, StartCases

--------------------------------------------------------------------------------
(* What a step leaves as it is, and the type invariant *)

\* What a start leaves as it is: the world around it; the history of the DNSSEC
\* check except where one begins; whom it has met except where it passes the check
\* for a session; and until then the files, the service, the table and the lock.
LEMMA Touches ==
    ASSUME NEW p \in Starters, Start(p)
    PROVE  /\ UNCHANGED <<host, world, shaken>>
           /\ \/ UNCHANGED demanding
              \/ /\ PolicyBegin(p) /\ host.resolved
                 /\ demanding' = [demanding EXCEPT ![p] = {d \in Links \X Reasons : Demands(d[1], d[2])}]
           /\ UNCHANGED met \/ (CheckSession(p) /\ lock \notin Starters /\ Meet(p))
           /\ \/ UNCHANGED <<tor, rules, lock>>
              \/ Recover(p) \/ GenerateTorrc(p) \/ RestartTor(p) \/ ApplyRules(p) \/ ApplyDns(p) \/ WriteLock(p)
<1> USE DEF history, Scan
<1>1. CASE Begin(p) \/ CheckPorts(p) \/ PolicyBegin(p) \/ PolicyLinks(p) \/ PolicyMode(p) \/ PolicyEffective(p)
  BY <1>1, Zenon DEF Begin, CheckPorts, PolicyBegin, PolicyLinks, PolicyMode, PolicyEffective
<1>2. CASE PolicyAgain(p) \/ PolicySettled(p) \/ PolicyGlobal(p) \/ PolicyUnreadable(p) \/ CheckSession(p)
  BY <1>2, Zenon
     DEF PolicyAgain, PolicySettled, SettledUnread, PolicyGlobal, PolicyUnreadable, CheckSession,
                     CheckSessionPid
<1>3. CASE CheckOrphan(p) \/ Recover(p) \/ CheckSpace(p) \/ DetectTor(p) \/ ResolveExternal(p)
  BY <1>3, Zenon DEF CheckOrphan, Recover, CheckSpace, DetectTor, ResolveExternal
<1>4. CASE GenerateTorrc(p) \/ RestartTor(p) \/ ApplyRules(p) \/ ApplyDns(p) \/ WriteLock(p)
  BY <1>4, Zenon DEF GenerateTorrc, RestartTor, ApplyRules, ApplyDns, WriteLock
<1> QED BY <1>1, <1>2, <1>3, <1>4, StartCases

\* The environment leaves the starts and what they have made as they are.
LEMMA OthersStep ==
    ASSUME LinkComes \/ LinkGoes \/ Reconfigure \/ ResolvedFollows \/ GlobalChanges
           \/ Ipv6Switches \/ PortTaken \/ PortFreed \/ DaemonComesOrGoes
    PROVE  /\ UNCHANGED <<host, tor, rules, lock, pc, locals, met>>
           /\ changes' = changes \/ (changes < MaxChanges /\ changes' = changes + 1)
<1>1. CASE LinkComes \/ LinkGoes \/ Reconfigure \/ GlobalChanges
  BY <1>1, Zenon DEF LinkComes, LinkGoes, Reconfigure, GlobalChanges, Change
<1>2. CASE ResolvedFollows
  BY <1>2, Zenon DEF ResolvedFollows
<1>3. CASE Ipv6Switches \/ PortTaken \/ PortFreed \/ DaemonComesOrGoes
  BY <1>3, Zenon DEF Ipv6Switches, PortTaken, PortFreed, DaemonComesOrGoes, Change
<1> QED BY <1>1, <1>2, <1>3

\* Links keep their types and are never renumbered; only one that comes is new.
LEMMA NetworkStep ==
    ASSUME TypeOK, [Next]_vars
    PROVE  NetworkTyped' /\ up \cup gone \subseteq up' \cup gone' /\ (LinkComes \/ up' \subseteq up)
<1> USE DEF NetworkTyped, Modes
<1>0. NetworkTyped
  BY DEF TypeOK
<1>1. CASE UNCHANGED network
  BY <1>0, <1>1 DEF network
<1>2. CASE \E p \in Starters : Start(p)
  BY <1>1, <1>2, Touches DEF world
<1>3. CASE Stop \/ UNCHANGED vars
  BY <1>1, <1>3, Zenon DEF Stop, vars, world
<1>4. CASE LinkComes
  BY <1>0, <1>4, ZenonT(30) DEF LinkComes
<1>5. CASE LinkGoes
  BY <1>0, <1>5 DEF LinkGoes
<1>6. CASE Reconfigure \/ ResolvedFollows \/ GlobalChanges
  BY <1>0, <1>6 DEF Reconfigure, ResolvedFollows, GlobalChanges
<1>7. CASE Ipv6Switches \/ PortTaken \/ PortFreed \/ DaemonComesOrGoes
  BY <1>1, <1>7, Zenon DEF Ipv6Switches, PortTaken, PortFreed, DaemonComesOrGoes
<1> QED BY <1>2, <1>3, <1>4, <1>5, <1>6, <1>7, NextCases

\* The history of a start after a change of the network: what it still demands, and
\* what has come.
LEMMA WatchStep ==
    ASSUME TypeOK, Watch, up' \subseteq Links
    PROVE  /\ demanding' \in [Starters -> SUBSET (Links \X Reasons)]
           /\ \A p \in Starters : \A d \in demanding'[p] :
                 /\ Demands(d[1], d[2])'
                 /\ d \in demanding[p] \/ (d[1] \in up' \ up /\ pc[p] \in Scanning \ {"global"})
<1>1. demanding \in [Starters -> SUBSET (Links \X Reasons)]
  BY DEF TypeOK, HistoryTyped
<1>2. (up' \ up) \X Reasons \subseteq Links \X Reasons
  OBVIOUS
<1>3. \A p \in Starters : demanding'[p] =
         {d \in demanding[p] : Demands(d[1], d[2])'} \cup
         (IF pc[p] \in Scanning \ {"global"} THEN {d \in (up' \ up) \X Reasons : Demands(d[1], d[2])'} ELSE {})
  BY DEF Watch
<1>4. \A p \in Starters : demanding'[p] \subseteq Links \X Reasons
  BY <1>1, <1>2, <1>3
<1>5. demanding' \in [Starters -> SUBSET (Links \X Reasons)]
  BY <1>4 DEF Watch
<1> QED BY <1>3, <1>5

\* Histories keep their types.
LEMMA HistoryStep ==
    ASSUME TypeOK, [Next]_vars
    PROVE  HistoryTyped'
<1>0. HistoryTyped
  BY DEF TypeOK
<1>1. CASE UNCHANGED history
  BY <1>0, <1>1 DEF history, HistoryTyped
<1>2. ASSUME NEW p \in Starters, Start(p) PROVE HistoryTyped'
  <2>1. shaken' \in [Starters -> BOOLEAN]
    BY <1>0, <1>2, Touches, Zenon DEF HistoryTyped
  <2>2. met' \in [Starters -> BOOLEAN]
    BY <1>0, <1>2, Touches DEF HistoryTyped, Meet
  <2>3. {d \in Links \X Reasons : Demands(d[1], d[2])} \in SUBSET (Links \X Reasons)
    OBVIOUS
  <2>4. demanding' \in [Starters -> SUBSET (Links \X Reasons)]
    BY <1>0, <1>2, <2>3, Touches DEF HistoryTyped
  <2> QED BY <2>1, <2>2, <2>4 DEF HistoryTyped
<1>3. CASE Stop \/ UNCHANGED vars \/ PortTaken \/ PortFreed \/ DaemonComesOrGoes
  BY <1>1, <1>3, Zenon DEF Stop, vars, history, PortTaken, PortFreed, DaemonComesOrGoes, Change
<1>4. CASE LinkComes \/ LinkGoes \/ Reconfigure \/ ResolvedFollows \/ GlobalChanges
  <2>1. UNCHANGED <<met, shaken>> /\ Watch
    BY <1>4, Zenon DEF LinkComes, LinkGoes, Reconfigure, ResolvedFollows, GlobalChanges, Change
  <2>2. up' \subseteq Links
    BY NetworkStep DEF NetworkTyped
  <2>3. demanding' \in [Starters -> SUBSET (Links \X Reasons)]
    BY <2>1, <2>2, WatchStep
  <2> QED BY <1>0, <2>1, <2>3, Zenon DEF HistoryTyped
<1>5. CASE Ipv6Switches
  <2>1. UNCHANGED <<met, demanding>> /\ shaken' \in [Starters -> BOOLEAN]
    BY <1>5 DEF Ipv6Switches, Change
  <2> QED BY <1>0, <2>1, Zenon DEF HistoryTyped
<1> QED BY <1>2, <1>3, <1>4, <1>5, NextCases

\* What the programs around the starts do keeps its types.
LEMMA WorldTyped ==
    ASSUME TypeOK, [Next]_vars
    PROVE  /\ host' = host /\ ipv6' \in BOOLEAN /\ holder' \in [Ports -> Names \cup {Nobody}]
           /\ daemons' \subseteq Names /\ changes' \in 0 .. MaxChanges
<1>0. /\ ipv6 \in BOOLEAN /\ holder \in [Ports -> Names \cup {Nobody}]
      /\ daemons \subseteq Names /\ changes \in 0 .. MaxChanges
  BY DEF TypeOK
<1>1. CASE UNCHANGED <<host, ipv6, holder, daemons, changes>>
  BY <1>0, <1>1
<1>2. CASE \E p \in Starters : Start(p)
  BY <1>1, <1>2, Touches DEF world
<1>3. CASE Stop \/ UNCHANGED vars
  BY <1>1, <1>3, Zenon DEF Stop, vars, world
<1>4. CASE LinkComes \/ LinkGoes \/ Reconfigure \/ ResolvedFollows \/ GlobalChanges
  <2>1. UNCHANGED <<ipv6, holder, daemons>>
    BY <1>4, Zenon DEF LinkComes, LinkGoes, Reconfigure, ResolvedFollows, GlobalChanges
  <2>2. changes' \in 0 .. MaxChanges
    BY <1>0, <1>4, OthersStep, PreflightAssumption
  <2> QED BY <1>0, <1>4, <2>1, <2>2, OthersStep
<1>5. CASE Ipv6Switches \/ PortTaken \/ PortFreed \/ DaemonComesOrGoes
  <2>1. changes' \in 0 .. MaxChanges
    BY <1>0, <1>5, OthersStep, PreflightAssumption
  <2>2. DOMAIN host.uid \subseteq Names
    BY HostTyped
  <2>3. ipv6' \in BOOLEAN
    BY <1>0, <1>5, Zenon DEF Ipv6Switches, PortTaken, PortFreed, DaemonComesOrGoes
  <2>4. holder' \in [Ports -> Names \cup {Nobody}] /\ daemons' \subseteq Names
    BY <1>0, <1>5, <2>2 DEF Ipv6Switches, PortTaken, PortFreed, DaemonComesOrGoes
  <2> QED BY <1>5, <2>1, <2>3, <2>4, OthersStep
<1> QED BY <1>2, <1>3, <1>4, <1>5, NextCases

\* The torrc, the unit, the service, the table and the lock keep their types.
LEMMA FilesTyped ==
    ASSUME TypeOK, FilesInv, AccountInv, [Next]_vars
    PROVE  /\ torrc' \in Torrcs \cup {NoTorrc}
           /\ unit' \in Names \cup {Nobody}
           /\ service' \in [t : Ports, d : Ports, v6 : BOOLEAN, user : Names] \cup {Down}
           /\ rules' \in [by : Starters, t : Ports, d : Ports, v6 : BOOLEAN, uid : Uids] \cup {NoRules}
           /\ lock' \in Starters \cup Legacy \cup {Nobody}
<1>0. /\ torrc \in Torrcs \cup {NoTorrc}
      /\ unit \in Names \cup {Nobody}
      /\ service \in [t : Ports, d : Ports, v6 : BOOLEAN, user : Names] \cup {Down}
      /\ rules \in [by : Starters, t : Ports, d : Ports, v6 : BOOLEAN, uid : Uids] \cup {NoRules}
      /\ lock \in Starters \cup Legacy \cup {Nobody}
  BY DEF TypeOK
<1>1. CASE UNCHANGED <<tor, rules, lock>>
  BY <1>0, <1>1 DEF tor
<1>2. CASE Stop
  BY <1>0, <1>2 DEF Stop
<1>3. ASSUME NEW p \in Starters, Recover(p)
      PROVE  UNCHANGED tor /\ rules' \in {rules, NoRules} /\ lock' \in {lock, Nobody}
  BY <1>3 DEF Recover
<1>4. ASSUME NEW p \in Starters, GenerateTorrc(p)
      PROVE  /\ torrc' \in Torrcs
             /\ unit' \in Names \cup {Nobody} /\ UNCHANGED <<service, rules, lock>>
  <2>1. req[p] \in Requests /\ account[p] \in Accounts
    BY DEF TypeOK, LocalsTyped
  <2>2. req[p].t \in Ports /\ req[p].d \in Ports
    BY <2>1, RequestTyped
  <2>3. Ipv6Available(req[p]) \in BOOLEAN
    BY DEF Ipv6Available
  <2>4. torrc' = [t |-> req[p].t, d |-> req[p].d, v6 |-> Ipv6Available(req[p])]
    BY <1>4 DEF GenerateTorrc, Torrc
  <2>5. torrc' \in Torrcs
    BY <2>2, <2>3, <2>4 DEF Torrcs
  <2>6. account[p].user \in Names \cup {Nobody}
    BY <2>1 DEF Accounts
  <2> QED BY <1>4, <2>5, <2>6 DEF GenerateTorrc
<1>5. ASSUME NEW p \in Starters, RestartTor(p)
      PROVE  /\ UNCHANGED <<torrc, unit, rules, lock>>
             /\ service' \in [t : Ports, d : Ports, v6 : BOOLEAN, user : Names] \cup {Down}
  <2>1. CASE service' = Down
    BY <1>5, <2>1 DEF RestartTor
  <2>2. CASE /\ Goes(p, "restart", "rules") /\ unit # Nobody
             /\ service' = [t |-> torrc.t, d |-> torrc.d, v6 |-> torrc.v6, user |-> unit]
    <3>1. torrc \in Torrcs
      BY <2>2 DEF FilesInv, Goes, Goto
    <3>2. service' \in [t : Ports, d : Ports, v6 : BOOLEAN, user : Names]
      BY <1>0, <2>2, <3>1 DEF Torrcs
    <3> QED BY <1>5, <3>2 DEF RestartTor
  <2> QED BY <1>5, <2>1, <2>2 DEF RestartTor
<1>6. ASSUME NEW p \in Starters, ApplyRules(p) \/ ApplyDns(p) \/ WriteLock(p)
      PROVE  /\ UNCHANGED torrc /\ unit' \in {unit, Nobody} /\ service' \in {service, Down} /\ lock' \in {lock, p}
             /\ \/ rules' \in {rules, NoRules}
                \/ rules' \in [by : Starters, t : Ports, d : Ports, v6 : BOOLEAN, uid : Uids]
  <2>1. CASE CleanUp(p)
    BY <1>6, <2>1 DEF CleanUp, ApplyRules, ApplyDns, WriteLock
  <2>2. CASE UNCHANGED <<unit, service, rules>>
    BY <1>6, <2>2 DEF ApplyRules, ApplyDns, WriteLock
  <2>3. CASE /\ ApplyRules(p) /\ Goes(p, "rules", "dns") /\ UNCHANGED <<unit, service>>
             /\ rules' = [by |-> p, t |-> req[p].t, d |-> req[p].d, v6 |-> Ipv6Available(req[p]),
                          uid |-> account[p].uid]
    <3>1. req[p].t \in Ports /\ req[p].d \in Ports
      BY RequestTyped DEF TypeOK, LocalsTyped
    <3>2. Ipv6Available(req[p]) \in BOOLEAN
      BY DEF Ipv6Available
    <3>3. account[p].uid \in Uids
      BY <2>3 DEF AccountInv, Goes, Goto
    <3>4. rules' \in [by : Starters, t : Ports, d : Ports, v6 : BOOLEAN, uid : Uids]
      BY <2>3, <3>1, <3>2, <3>3
    <3> QED BY <2>3, <3>4 DEF ApplyRules
  <2> QED BY <1>6, <2>1, <2>2, <2>3 DEF ApplyRules, ApplyDns, WriteLock
<1>7. CASE \E p \in Starters : Start(p)
  <2>1. PICK p \in Starters : Start(p)
    BY <1>7
  <2>2. CASE UNCHANGED <<tor, rules, lock>>
    BY <1>1, <2>2
  <2>3. CASE Recover(p) \/ RestartTor(p)
    BY <1>0, <1>3, <1>5, <2>3 DEF tor
  <2>4. CASE GenerateTorrc(p)
    BY <1>0, <1>4, <2>4
  <2>5. CASE ApplyRules(p) \/ ApplyDns(p) \/ WriteLock(p)
    BY <1>0, <1>6, <2>5
  <2> QED BY <2>1, <2>2, <2>3, <2>4, <2>5, Touches
<1>8. CASE UNCHANGED vars
  BY <1>1, <1>8 DEF vars
<1>9. CASE \/ LinkComes \/ LinkGoes \/ Reconfigure \/ ResolvedFollows \/ GlobalChanges
           \/ Ipv6Switches \/ PortTaken \/ PortFreed \/ DaemonComesOrGoes
  BY <1>1, <1>9, OthersStep
<1> QED BY <1>2, <1>7, <1>8, <1>9, NextCases

\* Every step keeps the types.
LEMMA TypeStep ==
    ASSUME TypeOK, FilesInv, AccountInv, [Next]_vars
    PROVE  TypeOK'
<1>1. LocalsTyped'
  <2>0. LocalsTyped
    BY DEF TypeOK
  <2>1. CASE UNCHANGED <<pc, locals>>
    BY <2>0, <2>1 DEF locals, LocalsTyped
  <2>2. CASE Stop \/ UNCHANGED vars
    BY <2>1, <2>2, Zenon DEF Stop, vars
  <2> QED BY <2>1, <2>2, OwnStep, OthersStep, NextCases
<1> QED BY <1>1, NetworkStep, HistoryStep, WorldTyped, FilesTyped DEF TypeOK

--------------------------------------------------------------------------------
(* The account, the table and the lock *)

\* How a start gets to a point, and where it cannot come from.
LEMMA Route ==
    ASSUME TypeOK, NEW p \in Starters, Start(p)
    PROVE  /\ pc[p] # "done" /\ pc'[p] # "idle"
           /\ req'[p] = req[p] \/ pc[p] = "idle"
           /\ pc'[p] \in Inside => pc[p] \in Inside \/ (CheckSession(p) /\ Meet(p) /\ lock \notin Starters)
           /\ pc'[p] = "orphan" => CheckSession(p)
           /\ pc'[p] = "recover" => CheckOrphan(p)
           /\ pc'[p] = "torrc" => DetectTor(p)
           /\ pc'[p] = "restart" => GenerateTorrc(p)
           /\ pc'[p] = "rules" => RestartTor(p) \/ ResolveExternal(p)
           /\ pc'[p] = "dns" => ApplyRules(p)
           /\ pc'[p] = "record" => ApplyDns(p)
           /\ pc'[p] \in Scanning => \/ PolicyBegin(p) \/ PolicyLinks(p) \/ PolicyMode(p) \/ PolicyEffective(p)
                                     \/ PolicyAgain(p) \/ PolicySettled(p)
<1> USE DEF Inside, Scanning
<1>0. pc \in [Starters -> Points] /\ req \in [Starters -> Requests]
  BY DEF TypeOK, LocalsTyped
<1>1. CASE Begin(p) \/ CheckPorts(p)
  BY <1>0, <1>1 DEF Begin, CheckPorts, Goes, Exit, Goto
<1>2. CASE PolicyBegin(p) \/ PolicyLinks(p) \/ PolicyMode(p) \/ PolicyEffective(p)
  BY <1>0, <1>2 DEF PolicyBegin, PolicyLinks, PolicyMode, PolicyEffective, Scan, Exit, Goto
<1>3. CASE PolicyAgain(p) \/ PolicySettled(p) \/ PolicyGlobal(p) \/ PolicyUnreadable(p)
  BY <1>0, <1>3
     DEF PolicyAgain, PolicySettled, SettledUnread, PolicyGlobal, PolicyUnreadable, Scan, Exit, Goto
<1>4. CASE CheckSession(p)
  BY <1>0, <1>4 DEF CheckSession, CheckSessionPid, locals, Exit, Goto
<1>5. CASE CheckOrphan(p) \/ Recover(p) \/ CheckSpace(p)
  BY <1>0, <1>5 DEF CheckOrphan, Recover, CheckSpace, locals, Goes, Exit, Goto
<1>6. CASE DetectTor(p) \/ ResolveExternal(p)
  BY <1>0, <1>6 DEF DetectTor, ResolveExternal, Exit, Goto
<1>7. CASE GenerateTorrc(p) \/ RestartTor(p)
  BY <1>0, <1>7 DEF GenerateTorrc, RestartTor, locals, Goes, Exit, Goto
<1>8. CASE ApplyRules(p) \/ ApplyDns(p) \/ WriteLock(p)
  BY <1>0, <1>8 DEF ApplyRules, ApplyDns, WriteLock, Goes, Exit, Goto
<1> QED BY <1>1, <1>2, <1>3, <1>4, <1>5, <1>6, <1>7, <1>8, StartCases

\* What a start that is not between the check and the lock can disturb.
LEMMA Outside ==
    ASSUME NEW p \in Starters, Start(p), pc[p] \notin Inside
    PROVE  UNCHANGED <<tor, rules, lock>>
<1>1. pc[p] \notin {"recover", "torrc", "restart", "rules", "dns", "record"}
  BY DEF Inside
<1>2. ~(Recover(p) \/ GenerateTorrc(p) \/ RestartTor(p) \/ ApplyRules(p) \/ ApplyDns(p) \/ WriteLock(p))
  BY <1>1 DEF Recover, GenerateTorrc, RestartTor, ApplyRules, ApplyDns, WriteLock, Goes, Exit, Goto
<1> QED BY <1>2, Touches

\* Every step leaves the starts where they are, or is one start's own.
LEMMA Elsewhere ==
    ASSUME [Next]_vars, ~\E p \in Starters : Start(p)
    PROVE  /\ UNCHANGED <<host, pc, locals, met>>
           /\ UNCHANGED <<tor, rules, lock>> \/ Stop
           /\ UNCHANGED <<ipv6, shaken>> \/ Ipv6Switches
<1>1. CASE Stop \/ UNCHANGED vars
  BY <1>1, Zenon DEF Stop, vars, world, history
<1>2. CASE \/ LinkComes \/ LinkGoes \/ Reconfigure \/ ResolvedFollows \/ GlobalChanges
           \/ PortTaken \/ PortFreed \/ DaemonComesOrGoes
  <2>1. UNCHANGED <<ipv6, shaken>>
    BY <1>2, Zenon
       DEF LinkComes, LinkGoes, Reconfigure, ResolvedFollows, GlobalChanges, PortTaken, PortFreed,
                       DaemonComesOrGoes
  <2> QED BY <1>2, <2>1, OthersStep
<1>3. CASE Ipv6Switches
  BY <1>3, OthersStep
<1> QED BY <1>1, <1>2, <1>3, NextCases

\* The torrc is there when Tor is restarted.
LEMMA FilesStep ==
    ASSUME TypeOK, FilesInv, [Next]_vars
    PROVE  FilesInv'
<1>1. ASSUME NEW p \in Starters, Start(p) PROVE FilesInv'
  <2>1. CASE GenerateTorrc(p)
    <3>1. req[p].t \in Ports /\ req[p].d \in Ports
      BY RequestTyped DEF TypeOK, LocalsTyped
    <3>2. Ipv6Available(req[p]) \in BOOLEAN
      BY DEF Ipv6Available
    <3>3. Torrc(req[p]) \in Torrcs
      BY <3>1, <3>2 DEF Torrc, Torrcs
    <3> QED BY <2>1, <3>3 DEF FilesInv, GenerateTorrc
  <2>2. CASE ~GenerateTorrc(p)
    <3>1. UNCHANGED torrc
      BY <1>1, <2>2, Touches DEF tor, Recover, RestartTor, ApplyRules, ApplyDns, WriteLock
    <3> QED BY <1>1, <2>2, <3>1, Route, OwnStep DEF FilesInv, Apart
  <2> QED BY <2>1, <2>2
<1>2. CASE ~\E p \in Starters : Start(p)
  BY <1>2, Elsewhere DEF FilesInv, tor, Stop
<1> QED BY <1>1, <1>2

\* The account of the managed Tor is a system account.
LEMMA DetectedAccount ==
    ASSUME TypeOK, NEW p \in Starters, DetectTor(p), pc'[p] = "torrc"
    PROVE  /\ ~req[p].external /\ req' = req /\ host' = host
           /\ account'[p].user \in Names /\ account'[p].uid = host.uid[account'[p].user]
           /\ account'[p].uid \in Uids /\ Dedicated(req[p], account'[p].uid)
<1>0. pc \in [Starters -> Points] /\ account \in [Starters -> Accounts]
  BY DEF TypeOK, LocalsTyped
<1>1. PICK n \in DetectTorUser : /\ IsTorSystemAccount(n)
                                 /\ account' = [account EXCEPT ![p] = [user |-> n, uid |-> host.uid[n]]]
  BY <1>0 DEF DetectTor, Exit, Goto
<1>2. account'[p].user = n /\ account'[p].uid = host.uid[n]
  BY <1>0, <1>1
<1>3. n \in Names /\ host.uid[n] \in Nat /\ host.uid[n] \in Uids /\ host.uid[n] # 0 /\ host.uid[n] < 1000
  BY <1>1, HostTyped DEF IsTorSystemAccount
<1> QED BY <1>2, <1>3, SMTT(20) DEF DetectTor, Dedicated

\* Every start has settled on a dedicated account.
LEMMA AccountStep ==
    ASSUME TypeOK, AccountInv, [Next]_vars
    PROVE  AccountInv'
<1>1. ASSUME NEW p \in Starters, Start(p) PROVE AccountInv'
  <2>1. UNCHANGED host /\ Apart(p)
    BY <1>1, Touches, OwnStep
  <2>2. SUFFICES
          /\ pc'[p] \in {"torrc", "restart"} => ~req'[p].external
          /\ pc'[p] \in {"torrc", "restart", "rules"} =>
              /\ account'[p].uid \in Uids
              /\ Dedicated(req[p], account[p].uid)'
              /\ ~req'[p].external => account'[p].user \in Names /\ account'[p].uid = host.uid[account'[p].user]
    BY <2>1 DEF AccountInv, Apart, Dedicated
  <2>3. CASE pc'[p] = "torrc"
    BY <1>1, <2>3, Route, DetectedAccount DEF Dedicated
  <2>4. CASE pc'[p] = "restart"
    <3>1. GenerateTorrc(p)
      BY <1>1, <2>4, Route
    <3> QED BY <2>1, <2>4, <3>1 DEF GenerateTorrc, locals, Goto, AccountInv, Dedicated
  <2>5. CASE pc'[p] = "rules" /\ RestartTor(p)
    <3>1. pc[p] = "restart" /\ UNCHANGED <<req, account>>
      BY <2>5 DEF RestartTor, Goes, Exit, Goto, TypeOK, LocalsTyped
    <3> QED BY <2>1, <2>5, <3>1 DEF AccountInv, Dedicated
  <2>6. CASE pc'[p] = "rules" /\ ResolveExternal(p)
    <3>0. pc \in [Starters -> Points] /\ account \in [Starters -> Accounts] /\ req[p] \in Requests
      BY DEF TypeOK, LocalsTyped
    <3>1. PICK u \in ExternalUid(req[p]) : account' = [account EXCEPT ![p] = [user |-> Nobody, uid |-> u]]
      BY <2>6, <3>0 DEF ResolveExternal, Exit, Goto
    <3>2. account'[p].uid = u
      BY <3>0, <3>1
    <3>3. req[p].external /\ UNCHANGED req
      BY <2>6 DEF ResolveExternal
    <3>4. u \in Uids /\ Dedicated(req[p], u)
      BY <3>0, <3>1, <3>3, ExternalTyped
    <3> QED BY <2>1, <2>6, <3>2, <3>3, <3>4 DEF Dedicated
  <2> QED BY <1>1, <2>3, <2>4, <2>5, <2>6, Route
<1>2. CASE ~\E p \in Starters : Start(p)
  BY <1>2, Elsewhere DEF AccountInv, Dedicated, locals
<1> QED BY <1>1, <1>2

\* The table changes only where a start puts its own there, or where it is removed.
LEMMA TableStep ==
    ASSUME [Next]_vars
    PROVE  \/ rules' = rules \/ rules' = NoRules
           \/ \E p \in Starters :
                /\ Start(p) /\ ApplyRules(p) /\ Goes(p, "rules", "dns")
                /\ rules' = [by |-> p, t |-> req[p].t, d |-> req[p].d, v6 |-> Ipv6Available(req[p]),
                             uid |-> account[p].uid]
<1>1. ASSUME NEW p \in Starters, Start(p)
      PROVE  \/ rules' = rules \/ rules' = NoRules
             \/ /\ ApplyRules(p) /\ Goes(p, "rules", "dns")
                /\ rules' = [by |-> p, t |-> req[p].t, d |-> req[p].d, v6 |-> Ipv6Available(req[p]),
                             uid |-> account[p].uid]
  <2>1. CASE UNCHANGED <<tor, rules, lock>>
    BY <2>1
  <2>2. CASE Recover(p)
    BY <2>2, Zenon DEF Recover
  <2>3. CASE GenerateTorrc(p) \/ RestartTor(p)
    BY <2>3, Zenon DEF GenerateTorrc, RestartTor
  <2>4. CASE ApplyRules(p)
    BY <2>4, Zenon DEF ApplyRules, CleanUp
  <2>5. CASE ApplyDns(p) \/ WriteLock(p)
    BY <2>5, Zenon DEF ApplyDns, WriteLock, CleanUp
  <2> QED BY <1>1, <2>1, <2>2, <2>3, <2>4, <2>5, Touches
<1>2. CASE ~\E p \in Starters : Start(p)
  BY <1>2, Elsewhere, Zenon DEF Stop
<1> QED BY <1>1, <1>2

\* A start that has begun goes on with its command line and stays begun.
LEMMA BegunStep ==
    ASSUME TypeOK, [Next]_vars, NEW x \in Starters, pc[x] # "idle"
    PROVE  pc'[x] # "idle" /\ req'[x] = req[x] /\ host' = host
<1>1. ASSUME NEW p \in Starters, Start(p) PROVE pc'[x] # "idle" /\ req'[x] = req[x] /\ host' = host
  <2>1. CASE x = p
    BY <1>1, <2>1, Route, Touches
  <2>2. CASE x # p
    BY <1>1, <2>2, OwnStep, Touches DEF Apart
  <2> QED BY <2>1, <2>2
<1>2. CASE ~\E p \in Starters : Start(p)
  BY <1>2, Elsewhere DEF locals
<1> QED BY <1>1, <1>2

\* The account the rules exempt is a dedicated one, and their start has begun.
LEMMA RulesStep ==
    ASSUME TypeOK, AccountInv, RulesInv, ExemptIsDedicated, [Next]_vars
    PROVE  RulesInv' /\ ExemptIsDedicated'
<1>1. CASE rules' = NoRules
  BY <1>1 DEF RulesInv, ExemptIsDedicated, NoRules
<1>2. CASE rules' = rules
  BY <1>2, BegunStep DEF RulesInv, ExemptIsDedicated, Dedicated, NoRules
<1>3. ASSUME NEW p \in Starters, Start(p), ApplyRules(p), Goes(p, "rules", "dns"),
             rules' = [by |-> p, t |-> req[p].t, d |-> req[p].d, v6 |-> Ipv6Available(req[p]),
                       uid |-> account[p].uid]
      PROVE  RulesInv' /\ ExemptIsDedicated'
  <2>1. rules'.by = p /\ rules'.uid = account[p].uid /\ pc[p] = "rules"
    BY <1>3 DEF Goes, Goto
  <2>2. Dedicated(req[p], account[p].uid)
    BY <2>1 DEF AccountInv
  <2>3. pc'[p] # "idle" /\ req'[p] = req[p] /\ host' = host
    BY <2>1, BegunStep
  <2> QED BY <2>1, <2>2, <2>3 DEF RulesInv, ExemptIsDedicated, Dedicated
<1> QED BY <1>1, <1>2, <1>3, TableStep

\* How the lock changes.
LEMMA LockStep ==
    ASSUME NEW p \in Starters, Start(p)
    PROVE  \/ lock' = lock
           \/ Recover(p) /\ lock' = Nobody
           \/ /\ WriteLock(p) /\ lock' = p
              /\ \/ Exit(p, "record", 0) /\ UNCHANGED <<unit, service, rules>>
                 \/ Exit(p, "record", 1)
<1>1. CASE UNCHANGED <<tor, rules, lock>>
  BY <1>1
<1>2. CASE Recover(p) \/ WriteLock(p)
  BY <1>2 DEF Recover, WriteLock
<1>3. CASE GenerateTorrc(p) \/ RestartTor(p) \/ ApplyRules(p) \/ ApplyDns(p)
  BY <1>3, Zenon DEF GenerateTorrc, RestartTor, ApplyRules, ApplyDns
<1> QED BY <1>1, <1>2, <1>3, Touches

\* What a start does about a lock without a session_id.
LEMMA AtOrphan ==
    ASSUME NEW p \in Starters, Start(p)
    PROVE  (pc[p] = "orphan" => CheckOrphan(p)) /\ (pc[p] = "recover" => Recover(p))
<1>1. CASE pc[p] \in {"orphan", "recover"}
  <2>1. ~(Begin(p) \/ CheckPorts(p) \/ PolicyBegin(p) \/ PolicyLinks(p) \/ PolicyMode(p) \/ PolicyEffective(p))
    BY <1>1
       DEF Begin, CheckPorts, PolicyBegin, PolicyLinks, PolicyMode, PolicyEffective, Scan, Goes, Exit,
           Goto
  <2>2. ~(PolicyAgain(p) \/ PolicySettled(p) \/ PolicyGlobal(p) \/ PolicyUnreadable(p) \/ CheckSession(p))
    BY <1>1 DEF PolicyAgain, PolicySettled, SettledUnread, PolicyGlobal, PolicyUnreadable, CheckSession,
                CheckSessionPid, Scan, Scanning, Exit, Goto
  <2>3. ~(CheckSpace(p) \/ DetectTor(p) \/ ResolveExternal(p) \/ GenerateTorrc(p))
    BY <1>1 DEF CheckSpace, DetectTor, ResolveExternal, GenerateTorrc, Goes, Exit, Goto
  <2>4. ~(RestartTor(p) \/ ApplyRules(p) \/ ApplyDns(p) \/ WriteLock(p))
    BY <1>1 DEF RestartTor, ApplyRules, ApplyDns, WriteLock, Goes, Exit, Goto
  <2>5. CheckOrphan(p) => pc[p] = "orphan"
    BY DEF CheckOrphan, Goes, Exit, Goto
  <2>6. Recover(p) => pc[p] = "recover"
    BY DEF Recover, Goto
  <2> QED BY <1>1, <2>1, <2>2, <2>3, <2>4, <2>5, <2>6, StartCases
<1> QED BY <1>1

\* A start that has met nobody is alone where nobody else may be.
LEMMA AloneStep ==
    ASSUME TypeOK, AloneInv, [Next]_vars
    PROVE  AloneInv'
<1>a. met \in [Starters -> BOOLEAN] /\ pc \in [Starters -> Points]
  BY DEF TypeOK, HistoryTyped, LocalsTyped
<1>b. Nobody \notin Starters
  BY PreflightAssumption
<1>1. ASSUME NEW p \in Starters, Start(p), NEW x \in Starters, ~met'[x], pc'[x] \in Inside
      PROVE  /\ \A q \in Starters \ {x} : pc'[q] \notin Inside
             /\ lock' \notin Starters
             /\ pc'[x] \notin {"orphan", "recover"} => lock' = Nobody
  <2>0. Apart(p)
    BY <1>1, OwnStep
  <2>1. ~met[x]
    BY <1>1, <1>a, Touches DEF Meet
  <2>2. CASE x = p /\ pc[p] \in Inside
    <3>1. /\ \A q \in Starters \ {p} : pc[q] \notin Inside
          /\ lock \notin Starters
          /\ pc[p] \notin {"orphan", "recover"} => lock = Nobody
      BY <2>1, <2>2 DEF AloneInv
    <3>2. \A q \in Starters \ {p} : pc'[q] \notin Inside
      BY <2>0, <3>1 DEF Apart
    <3>3. ~WriteLock(p) \/ lock' = lock
      BY <1>1, <1>a, <2>2 DEF WriteLock, Exit, Goto, Inside
    <3>4. lock' \notin Starters
      BY <1>1, <1>b, <3>1, <3>3, LockStep
    <3>5. ASSUME pc'[p] \notin {"orphan", "recover"} PROVE lock' = Nobody
      <4>1. CASE pc[p] \notin {"orphan", "recover"}
        BY <1>1, <3>1, <3>3, <4>1, LockStep
      <4>2. CASE pc[p] = "orphan"
        <5>1. CheckOrphan(p)
          BY <1>1, <4>2, AtOrphan
        <5>2. pc'[p] \in {"recover", "done"}
          BY <1>a, <5>1 DEF CheckOrphan, Goes, Exit, Goto
        <5> QED BY <1>1, <2>2, <3>5, <5>2 DEF Inside
      <4>3. CASE pc[p] = "recover"
        <5>1. Recover(p)
          BY <1>1, <4>3, AtOrphan
        <5> QED BY <5>1, Zenon DEF Recover
      <4> QED BY <4>1, <4>2, <4>3
    <3> QED BY <2>2, <3>2, <3>4, <3>5
  <2>3. CASE x = p /\ pc[p] \notin Inside
    <3>1. CheckSession(p) /\ Meet(p) /\ lock \notin Starters
      BY <1>1, <2>3, Route
    <3>2. UNCHANGED lock
      BY <1>1, <2>3, Outside
    <3>3. \A q \in Starters \ {p} : pc[q] \notin Inside
      BY <1>1, <2>3, <3>1 DEF Meet
    <3>4. pc'[p] # "orphan" => lock = Nobody
      BY <1>1, <1>a, <2>3, <3>1 DEF CheckSession, CheckSessionPid, Goto, Exit, Inside
    <3> QED BY <2>0, <2>3, <3>1, <3>2, <3>3, <3>4 DEF Apart
  <2>4. CASE x # p
    <3>1. pc'[x] = pc[x]
      BY <2>0, <2>4 DEF Apart
    <3>2. /\ \A q \in Starters \ {x} : pc[q] \notin Inside
          /\ lock \notin Starters
          /\ pc[x] \notin {"orphan", "recover"} => lock = Nobody
      BY <1>1, <2>1, <3>1 DEF AloneInv
    <3>3. pc[p] \notin Inside
      BY <2>4, <3>2
    <3>4. pc'[p] \notin Inside
      <4>1. ~Meet(p)
        BY <1>1, <2>4, <3>1 DEF Meet
      <4> QED BY <1>1, <3>3, <4>1, Route
    <3>5. UNCHANGED lock
      BY <1>1, <3>3, Outside
    <3> QED BY <2>0, <3>1, <3>2, <3>4, <3>5 DEF Apart
  <2> QED BY <2>2, <2>3, <2>4
<1>2. CASE ~\E p \in Starters : Start(p)
  <2>1. UNCHANGED <<pc, met>> /\ lock' \in {lock, Nobody}
    BY <1>2, Elsewhere DEF Stop
  <2> QED BY <1>b, <2>1 DEF AloneInv
<1> QED BY <1>1, <1>2 DEF AloneInv

--------------------------------------------------------------------------------
(* What fits together *)

\* What one start has built so far, and what it has recorded.
Built(x) ==
    /\ pc[x] = "restart" =>
        /\ torrc.t = req[x].t /\ torrc.d = req[x].d /\ unit = account[x].user
        /\ SameIpv6(x, torrc.v6)
    /\ pc[x] = "rules" /\ ~req[x].external =>
        /\ service # Down
        /\ service.t = req[x].t /\ service.d = req[x].d /\ service.user = account[x].user
        /\ SameIpv6(x, service.v6)
    /\ pc[x] \in {"dns", "record"} => Fits(x)
    /\ lock = x => pc[x] = "done" /\ (code[x] = 0 => Fits(x)) /\ \A q \in Starters : pc[q] \notin Inside

\* What a start has built is not disturbed by a step of another one, which is still
\* before the check for a session.
LEMMA BuiltApart ==
    ASSUME TypeOK, AloneInv, NEW p \in Starters, Start(p), NEW x \in Starters \ {p}, ~met[x], ~met'[x], Built(x)
    PROVE  Built(x)'
<1>1. /\ pc'[x] = pc[x] /\ req'[x] = req[x] /\ account'[x] = account[x] /\ code'[x] = code[x]
      /\ UNCHANGED <<host, ipv6, shaken>>
  BY OwnStep, Touches DEF Apart, world
<1>2. CASE pc[p] \notin Inside
  <2>1. UNCHANGED <<torrc, unit, service, rules, lock>>
    BY <1>2, Outside DEF tor
  <2>2. lock = x => \A q \in Starters : pc'[q] \notin Inside
    <3>1. SUFFICES ASSUME lock = x PROVE \A q \in Starters : pc'[q] \notin Inside
      OBVIOUS
    <3>2. pc'[p] \notin Inside
      BY <1>2, <3>1, Route
    <3>3. \A q \in Starters : pc[q] \notin Inside
      BY <3>1 DEF Built
    <3> QED BY <3>2, <3>3, OwnStep DEF Apart
  <2>3. Fits(x) => Fits(x)'
    BY <1>1, <2>1, Zenon DEF Fits
  <2>4. \A v6 : SameIpv6(x, v6) => SameIpv6(x, v6)'
    BY <1>1, Zenon DEF SameIpv6, Ipv6Available
  <2> QED BY <1>1, <2>1, <2>2, <2>3, <2>4, Zenon DEF Built
<1>3. CASE pc[p] \in Inside
  <2>1. pc[x] \notin Inside
    BY <1>3 DEF AloneInv
  <2>2. pc'[x] \notin {"restart", "rules", "dns", "record"}
    BY <1>1, <2>1 DEF Inside
  <2>3. lock # x
    BY <1>3 DEF Built
  <2>4. lock' # x
    BY <2>3, LockStep, PreflightAssumption
  <2> QED BY <2>2, <2>4 DEF Built
<1> QED BY <1>2, <1>3

\* What a start has built fits what it builds next.
LEMMA BuiltOwn ==
    ASSUME TypeOK, AccountInv, AloneInv, NEW p \in Starters, Start(p), ~met[p], Built(p)
    PROVE  Built(p)'
<1>a. /\ pc \in [Starters -> Points] /\ req \in [Starters -> Requests] /\ account \in [Starters -> Accounts]
  BY DEF TypeOK, LocalsTyped
<1>b. UNCHANGED <<host, ipv6, shaken>>
  BY Touches DEF world
<1>1. ASSUME pc'[p] = "restart"
      PROVE  /\ torrc'.t = req'[p].t /\ torrc'.d = req'[p].d /\ unit' = account'[p].user
             /\ SameIpv6(p, torrc.v6)'
  <2>1. GenerateTorrc(p)
    BY <1>1, Route
  <2>2. torrc' = [t |-> req[p].t, d |-> req[p].d, v6 |-> Ipv6Available(req[p])]
    BY <2>1 DEF GenerateTorrc, Torrc
  <2>3. unit' = account[p].user /\ UNCHANGED <<req, account>>
    BY <2>1 DEF GenerateTorrc, locals
  <2>4. torrc'.v6 = Ipv6Available(req[p])
    BY <2>2
  <2>5. SameIpv6(p, torrc.v6)'
    BY <1>b, <2>3, <2>4 DEF SameIpv6, Ipv6Available
  <2> QED BY <2>2, <2>3, <2>5
<1>2. ASSUME pc'[p] = "rules", ~req'[p].external
      PROVE  /\ service' # Down
             /\ service'.t = req'[p].t /\ service'.d = req'[p].d /\ service'.user = account'[p].user
             /\ SameIpv6(p, service.v6)'
  <2>1. RestartTor(p)
    BY <1>2, Route DEF ResolveExternal
  <2>2. /\ pc[p] = "restart" /\ UNCHANGED <<req, account>> /\ unit # Nobody
        /\ service' = [t |-> torrc.t, d |-> torrc.d, v6 |-> torrc.v6, user |-> unit]
    BY <1>a, <1>2, <2>1 DEF RestartTor, Goes, Exit, Goto
  <2>3. /\ torrc.t = req[p].t /\ torrc.d = req[p].d /\ unit = account[p].user
        /\ SameIpv6(p, torrc.v6)
    BY <2>2 DEF Built
  <2>4. service' # Down /\ service'.v6 = torrc.v6
    BY <2>2 DEF Down
  <2>5. SameIpv6(p, service.v6)'
    BY <1>b, <2>2, <2>3, <2>4 DEF SameIpv6, Ipv6Available
  <2> QED BY <2>2, <2>3, <2>4, <2>5
<1>3. ASSUME pc'[p] = "dns" PROVE Fits(p)'
  <2>1. ApplyRules(p)
    BY <1>3, Route
  <2>2. /\ pc[p] = "rules" /\ UNCHANGED <<req, account, service>>
        /\ rules' = [by |-> p, t |-> req[p].t, d |-> req[p].d, v6 |-> Ipv6Available(req[p]),
                     uid |-> account[p].uid]
    BY <1>a, <1>3, <2>1 DEF ApplyRules, Goes, Exit, Goto
  <2>3. /\ rules'.by = p /\ rules'.t = req[p].t /\ rules'.d = req[p].d /\ rules'.v6 = Ipv6Available(req[p])
        /\ rules'.uid = account[p].uid
    BY <2>2
  <2>4. ~req[p].external =>
           /\ service # Down
           /\ service.t = req[p].t /\ service.d = req[p].d /\ service.user = account[p].user
           /\ SameIpv6(p, service.v6)
    BY <2>2 DEF Built
  <2>5. ~req[p].external => host.uid[service.user] = account[p].uid
    BY <2>2, <2>4 DEF AccountInv
  <2>6. ~req[p].external => (Ipv6Available(req[p]) => (service.v6 /\ ~req[p].noIpv6) \/ shaken[p])
    BY <2>4, Zenon DEF SameIpv6, Ipv6Available
  <2> QED BY <1>b, <2>2, <2>3, <2>4, <2>5, <2>6 DEF Fits
<1>4. ASSUME pc'[p] = "record" PROVE Fits(p)'
  <2>1. ApplyDns(p)
    BY <1>4, Route
  <2>2. pc[p] = "dns" /\ UNCHANGED <<req, service, rules>>
    BY <1>a, <1>4, <2>1 DEF ApplyDns, Goes, Exit, Goto
  <2>3. Fits(p)
    BY <2>2 DEF Built
  <2> QED BY <1>b, <2>2, <2>3, Zenon DEF Fits
<1>5. ASSUME lock' = p
      PROVE  pc'[p] = "done" /\ (code'[p] = 0 => Fits(p)') /\ \A q \in Starters : pc'[q] \notin Inside
  <2>1. lock # p
    BY Route DEF Built
  <2>2. /\ WriteLock(p)
        /\ \/ Exit(p, "record", 0) /\ UNCHANGED <<unit, service, rules>>
           \/ Exit(p, "record", 1)
    BY <1>5, <2>1, LockStep, PreflightAssumption
  <2>3. pc[p] = "record" /\ pc'[p] = "done" /\ UNCHANGED req
    BY <1>a, <2>2 DEF WriteLock, Exit, Goto
  <2>4. Fits(p)
    BY <2>3 DEF Built
  <2>5. \A q \in Starters \ {p} : pc[q] \notin Inside
    BY <2>3 DEF AloneInv, Inside
  <2>6. \A q \in Starters : pc'[q] \notin Inside
    BY <2>3, <2>5, OwnStep DEF Apart, Inside
  <2>7. CASE UNCHANGED <<unit, service, rules>>
    <3>1. Fits(p)'
      BY <1>b, <2>3, <2>4, <2>7, Zenon DEF Fits
    <3> QED BY <2>3, <2>6, <3>1
  <2>8. CASE Exit(p, "record", 1)
    <3>1. code'[p] = 1
      BY <2>8 DEF Exit, TypeOK, LocalsTyped
    <3> QED BY <2>3, <2>6, <3>1
  <2> QED BY <2>2, <2>7, <2>8
<1> QED BY <1>1, <1>2, <1>3, <1>4, <1>5 DEF Built

\* What a start has built is not disturbed by a stop, which needs a lock, nor by what
\* happens around it, except that IPv6 may be switched.
LEMMA BuiltElsewhere ==
    ASSUME TypeOK, AloneInv, [Next]_vars, ~\E p \in Starters : Start(p), NEW x \in Starters, ~met[x], Built(x)
    PROVE  Built(x)'
<1>1. /\ pc' = pc /\ req' = req /\ account' = account /\ code' = code /\ host' = host
      /\ UNCHANGED <<torrc, unit, service, rules, lock>> \/ Stop
      /\ UNCHANGED <<ipv6, shaken>> \/ Ipv6Switches
  BY Elsewhere DEF locals, tor
<1>2. CASE Stop
  <2>1. lock # Nobody /\ lock' = Nobody
    BY <1>2 DEF Stop
  <2>2. pc'[x] \notin {"restart", "rules", "dns", "record"}
    BY <1>1, <2>1 DEF AloneInv, Inside
  <2> QED BY <2>1, <2>2, PreflightAssumption DEF Built
<1>3. CASE UNCHANGED <<torrc, unit, service, rules, lock>> /\ UNCHANGED <<ipv6, shaken>>
  <2>1. Fits(x) => Fits(x)'
    BY <1>1, <1>3, Zenon DEF Fits
  <2>2. \A v6 : SameIpv6(x, v6) => SameIpv6(x, v6)'
    BY <1>1, <1>3, Zenon DEF SameIpv6, Ipv6Available
  <2> QED BY <1>1, <1>3, <2>1, <2>2, Zenon DEF Built
<1>4. CASE UNCHANGED <<torrc, unit, service, rules, lock>> /\ Ipv6Switches
  <2>1. (shaken[x] => shaken'[x]) /\ (pc[x] \in {"restart", "rules"} => shaken'[x])
    BY <1>4 DEF Ipv6Switches
  <2>2. Fits(x) => Fits(x)'
    BY <1>1, <1>4, <2>1, Zenon DEF Fits
  <2>3. pc[x] \in {"restart", "rules"} => \A v6 : SameIpv6(x, v6)'
    BY <2>1, Zenon DEF SameIpv6
  <2> QED BY <1>1, <1>4, <2>2, <2>3 DEF Built
<1> QED BY <1>1, <1>2, <1>3, <1>4

\* What a start that has met nobody builds fits together.
LEMMA BuildStep ==
    ASSUME TypeOK, AccountInv, AloneInv, BuildInv, [Next]_vars
    PROVE  BuildInv'
<1>0. BuildInv <=> \A x \in Starters : ~met[x] => Built(x)
  BY Zenon DEF BuildInv, Built
<1>1. BuildInv' <=> \A x \in Starters : ~met'[x] => Built(x)'
  BY Zenon DEF BuildInv, Built
<1>2. SUFFICES ASSUME NEW x \in Starters, ~met'[x] PROVE Built(x)'
  BY <1>1
<1>3. ASSUME NEW p \in Starters, Start(p) PROVE Built(x)'
  <2>1. ~met[x] /\ Built(x)
    BY <1>0, <1>2, <1>3, Touches DEF Meet
  <2> QED BY <1>2, <1>3, <2>1, BuiltApart, BuiltOwn
<1>4. CASE ~\E p \in Starters : Start(p)
  <2>1. ~met[x] /\ Built(x)
    BY <1>0, <1>2, <1>4, Elsewhere
  <2> QED BY <1>4, <2>1, BuiltElsewhere
<1> QED BY <1>3, <1>4

--------------------------------------------------------------------------------
(* The check of the DNSSEC policy *)

\* How far one check_dnssec_policy has come.
Inspected(x) == pc[x] \in Scanning =>
    /\ \A d \in demanding[x] : Demands(d[1], d[2])
    /\ pc[x] # "links" => scan[x].links \subseteq up \cup gone /\ scan[x].todo \subseteq scan[x].links
    /\ pc[x] \in {"mode", "effective", "again"} => scan[x].todo # {}
    /\ pc[x] \in {"settled", "global"} => scan[x].todo = {}
    /\ pc[x] # "links" => \A d \in demanding[x] :
        d[1] \in scan[x].links \ scan[x].todo => d[2] = "held" /\ scan[x].global = "yes"
    /\ pc[x] \in {"effective", "again"} => scan[x].mode # "yes" /\ <<Link(x), "saved">> \notin demanding[x]
    /\ pc[x] = "again" /\ <<Link(x), "held">> \in demanding[x] => scan[x].global = "yes"
    /\ pc[x] = "global" => \A d \in demanding[x] : d[1] \in scan[x].links

\* A start does not see what another one has read.
LEMMA InspectedApart ==
    ASSUME TypeOK, NEW p \in Starters, Start(p), NEW x \in Starters \ {p}, Inspected(x)
    PROVE  Inspected(x)'
<1>1. pc'[x] = pc[x] /\ scan'[x] = scan[x]
  BY OwnStep DEF Apart
<1>2. UNCHANGED <<up, gone, configured, applied, global>>
  BY Touches DEF world, network
<1>3. demanding'[x] = demanding[x]
  BY Touches DEF TypeOK, HistoryTyped
<1>4. Link(x)' = Link(x)
  BY <1>1 DEF Link
<1>5. \A l, why : Demands(l, why)' <=> Demands(l, why)
  BY <1>2, Zenon DEF Demands
<1> QED BY <1>1, <1>2, <1>3, <1>4, <1>5, Zenon DEF Inspected

\* What check_dnssec_policy concludes from each of its reads.
LEMMA InspectedOwn ==
    ASSUME TypeOK, NEW p \in Starters, Start(p), Inspected(p)
    PROVE  Inspected(p)'
<1>a. /\ pc \in [Starters -> Points] /\ scan \in [Starters -> Scans]
      /\ demanding \in [Starters -> SUBSET (Links \X Reasons)]
  BY DEF TypeOK, LocalsTyped, HistoryTyped
<1>b. UNCHANGED <<up, gone, configured, applied, global>>
  BY Touches DEF world, network
<1>c. \A l, why : Demands(l, why)' <=> Demands(l, why)
  BY <1>b, Zenon DEF Demands
<1>1. CASE PolicyBegin(p)
  <2>1. pc'[p] \in Scanning => pc'[p] = "links" /\ host.resolved
    BY <1>1, <1>a DEF PolicyBegin, Scan, Goto, Scanning
  <2>2. ASSUME host.resolved PROVE \A d \in demanding'[p] : Demands(d[1], d[2])'
    <3>1. demanding'[p] = {d \in Links \X Reasons : Demands(d[1], d[2])}
      BY <1>1, <1>a, <2>2 DEF PolicyBegin
    <3> QED BY <1>c, <3>1
  <2> QED BY <2>1, <2>2, Zenon DEF Inspected
<1>2. CASE PolicyLinks(p)
  <2>1. /\ pc[p] = "links" /\ pc'[p] = (IF up = {} THEN "settled" ELSE "mode")
        /\ UNCHANGED demanding
    BY <1>2, <1>a DEF PolicyLinks, Scan, Goto
  <2>2. scan'[p].links = up /\ scan'[p].todo = up
    BY <1>2, LinksScan
  <2>3. \A d \in demanding[p] : Demands(d[1], d[2])
    BY <2>1 DEF Inspected, Scanning
  <2> QED BY <1>b, <1>c, <2>1, <2>2, <2>3 DEF Inspected
<1>3. CASE PolicyMode(p) /\ pc'[p] \in Scanning
  <2>1. /\ pc[p] = "mode" /\ pc'[p] = "effective" /\ ConfiguredMode(Link(p)) # "yes" /\ UNCHANGED demanding
        /\ scan' = [scan EXCEPT ![p].mode = ConfiguredMode(Link(p))]
    BY <1>3, <1>a DEF PolicyMode, Scan, Exit, Goto, Scanning
  <2>2. /\ scan'[p].links = scan[p].links /\ scan'[p].todo = scan[p].todo /\ scan'[p].global = scan[p].global
        /\ scan'[p].mode = ConfiguredMode(Link(p))
    BY <2>1, ModeScan, ConfiguredTyped
  <2>3. Link(p)' = Link(p)
    BY <2>2 DEF Link
  <2>4. \A d \in demanding[p] : Demands(d[1], d[2])
    BY <2>1 DEF Inspected, Scanning
  <2>5. <<Link(p), "saved">> \notin demanding[p]
    BY <2>1, <2>4 DEF Demands, ConfiguredMode
  <2> QED BY <1>b, <1>c, <2>1, <2>2, <2>3, <2>4, <2>5 DEF Inspected, Scanning
<1>4. CASE PolicyEffective(p)
  <2>1. /\ pc[p] = "effective" /\ pc'[p] = "again" /\ UNCHANGED <<scan, demanding>>
        /\ Link(p) \in up
        /\ Effective(Link(p)) = (IF scan[p].mode = "unset" THEN scan[p].global ELSE scan[p].mode)
    BY <1>4, <1>a DEF PolicyEffective, Scan, Goto
  <2>2. (\A d \in demanding[p] : Demands(d[1], d[2])) /\ scan[p].mode # "yes"
    BY <2>1 DEF Inspected, Scanning
  <2>3. ASSUME <<Link(p), "held">> \in demanding[p] PROVE scan[p].global = "yes"
    BY <2>1, <2>2, <2>3 DEF Demands, Effective
  <2>4. Link(p)' = Link(p)
    BY <2>1 DEF Link
  <2> QED BY <1>b, <1>c, <2>1, <2>2, <2>3, <2>4 DEF Inspected, Scanning
<1>5. CASE PolicyAgain(p)
  <2>1. /\ pc[p] = "again" /\ pc'[p] = (IF scan[p].todo = {Link(p)} THEN "settled" ELSE "mode")
        /\ UNCHANGED demanding /\ scan' = [scan EXCEPT ![p].todo = @ \ {Link(p)}]
    BY <1>5, <1>a DEF PolicyAgain, Scan, Goto
  <2>2. /\ scan'[p].links = scan[p].links /\ scan'[p].todo = scan[p].todo \ {Link(p)}
        /\ scan'[p].global = scan[p].global
    BY <2>1, TodoScan
  <2>3. /\ \A d \in demanding[p] : Demands(d[1], d[2])
        /\ scan[p].links \subseteq up \cup gone /\ scan[p].todo \subseteq scan[p].links /\ scan[p].todo # {}
        /\ \A d \in demanding[p] :
              d[1] \in scan[p].links \ scan[p].todo => d[2] = "held" /\ scan[p].global = "yes"
        /\ <<Link(p), "saved">> \notin demanding[p]
        /\ <<Link(p), "held">> \in demanding[p] => scan[p].global = "yes"
    BY <2>1 DEF Inspected, Scanning
  <2>4. \A d \in demanding[p] : d[1] = Link(p) => d[2] = "held" /\ scan[p].global = "yes"
    BY <1>a, <2>3 DEF Reasons
  <2>5. pc'[p] = "mode" => scan'[p].todo # {}
    BY <2>1, <2>2, <2>3
  <2>6. pc'[p] = "settled" => scan'[p].todo = {}
    BY <2>1, <2>2
  <2>7. \A d \in demanding[p] :
           d[1] \in scan'[p].links \ scan'[p].todo => d[2] = "held" /\ scan'[p].global = "yes"
    BY <2>2, <2>3, <2>4
  <2>8. pc'[p] \in {"mode", "settled"}
    BY <2>1
  <2> QED BY <1>b, <1>c, <2>1, <2>2, <2>3, <2>5, <2>6, <2>7, <2>8 DEF Inspected
<1>6. CASE PolicySettled(p)
  <2>1. pc[p] = "settled" /\ pc'[p] = "global" /\ UNCHANGED <<scan, demanding>> /\ up = scan[p].links
    BY <1>6, <1>a DEF PolicySettled, SettledUnread, Scan, Goto
  <2>2. \A d \in demanding[p] : Demands(d[1], d[2])
    BY <2>1 DEF Inspected, Scanning
  <2>3. \A d \in demanding[p] : d[1] \in scan[p].links
    BY <2>1, <2>2 DEF Demands
  <2> QED BY <1>b, <1>c, <2>1, <2>2, <2>3 DEF Inspected, Scanning
<1>7. CASE pc'[p] \notin Scanning
  BY <1>7 DEF Inspected
<1> QED BY <1>1, <1>2, <1>3, <1>4, <1>5, <1>6, <1>7, Route

\* While the network changes, only a link that has come may demand what none did.
LEMMA InspectedElsewhere ==
    ASSUME TypeOK, [Next]_vars, ~\E p \in Starters : Start(p), NEW x \in Starters, Inspected(x)
    PROVE  Inspected(x)'
<1>1. pc' = pc /\ scan' = scan
  BY Elsewhere DEF locals
<1>2. CASE UNCHANGED <<network, demanding>>
  <2>1. \A l, why : Demands(l, why)' <=> Demands(l, why)
    BY <1>2, Zenon DEF Demands, network
  <2>2. Link(x)' = Link(x)
    BY <1>1 DEF Link
  <2> QED BY <1>1, <1>2, <2>1, <2>2, Zenon DEF Inspected, network
<1>3. CASE Watch
  <2>0. SUFFICES ASSUME pc[x] \in Scanning PROVE Inspected(x)'
    BY <1>1 DEF Inspected
  <2>a. demanding \in [Starters -> SUBSET (Links \X Reasons)] /\ scan \in [Starters -> Scans]
    BY DEF TypeOK, LocalsTyped, HistoryTyped
  <2>1. up' \subseteq Links /\ up \cup gone \subseteq up' \cup gone'
    BY NetworkStep DEF NetworkTyped
  <2>2. \A d \in demanding'[x] : /\ Demands(d[1], d[2])'
                                 /\ d \in demanding[x] \/ (d[1] \in up' \ up /\ pc[x] \in Scanning \ {"global"})
    BY <1>3, <2>1, WatchStep
  <2>3. \A l \in up' \ up : l \notin up \cup gone
    BY NetworkStep DEF LinkComes
  <2>4. CASE pc[x] = "links"
    BY <1>1, <2>2, <2>4 DEF Inspected
  <2>5. CASE pc[x] # "links"
    <3>1. /\ scan[x].links \subseteq up \cup gone /\ scan[x].todo \subseteq scan[x].links
          /\ pc[x] \in {"mode", "effective", "again"} => scan[x].todo # {}
          /\ pc[x] \in {"settled", "global"} => scan[x].todo = {}
          /\ \A d \in demanding[x] :
              d[1] \in scan[x].links \ scan[x].todo => d[2] = "held" /\ scan[x].global = "yes"
          /\ pc[x] \in {"effective", "again"} => scan[x].mode # "yes" /\ <<Link(x), "saved">> \notin demanding[x]
          /\ pc[x] = "again" /\ <<Link(x), "held">> \in demanding[x] => scan[x].global = "yes"
          /\ pc[x] = "global" => \A d \in demanding[x] : d[1] \in scan[x].links
      BY <2>0, <2>5 DEF Inspected
    <3>2. \A d \in demanding'[x] : d[1] \in scan[x].links => d \in demanding[x]
      BY <2>2, <2>3, <3>1
    <3>3. pc[x] \in {"effective", "again"} => Link(x) \in scan[x].links
      <4>1. scan[x].todo \in SUBSET Nat
        BY <2>a, PreflightAssumption DEF Scans
      <4> QED BY <3>1, <4>1, MinIsMember DEF Link
    <3>4. pc[x] \in {"effective", "again"} =>
             \A why : <<Link(x), why>> \in demanding'[x] => <<Link(x), why>> \in demanding[x]
      BY <3>2, <3>3
    <3>5. pc[x] = "global" => \A d \in demanding'[x] : d[1] \in scan[x].links
      BY <2>2, <3>1
    <3>6. Link(x)' = Link(x)
      BY <1>1 DEF Link
    <3>7. scan[x].links \subseteq up' \cup gone'
      BY <2>1, <3>1
    <3>8. \A d \in demanding'[x] :
              d[1] \in scan[x].links \ scan[x].todo => d[2] = "held" /\ scan[x].global = "yes"
      BY <3>1, <3>2
    <3> QED BY <1>1, <2>2, <2>5, <3>1, <3>4, <3>5, <3>6, <3>7, <3>8 DEF Inspected
  <2> QED BY <2>4, <2>5
<1>4. CASE Stop \/ UNCHANGED vars \/ Ipv6Switches \/ PortTaken \/ PortFreed \/ DaemonComesOrGoes
  <2>1. UNCHANGED <<network, demanding>>
    BY <1>4, Zenon DEF Stop, vars, world, history, Ipv6Switches, PortTaken, PortFreed, DaemonComesOrGoes
  <2> QED BY <1>2, <2>1
<1>5. CASE LinkComes \/ LinkGoes \/ Reconfigure \/ ResolvedFollows \/ GlobalChanges
  <2>1. Watch
    BY <1>5, Zenon DEF LinkComes, LinkGoes, Reconfigure, ResolvedFollows, GlobalChanges
  <2> QED BY <1>3, <2>1
<1> QED BY <1>4, <1>5, NextCases

\* The check of the DNSSEC policy overlooks nothing that is demanded throughout.
LEMMA ScanStep ==
    ASSUME TypeOK, ScanInv, [Next]_vars
    PROVE  ScanInv'
<1>0. ScanInv <=> \A x \in Starters : Inspected(x)
  BY Zenon DEF ScanInv, Inspected
<1>1. ScanInv' <=> \A x \in Starters : Inspected(x)'
  BY Zenon DEF ScanInv, Inspected
<1>2. SUFFICES ASSUME NEW x \in Starters PROVE Inspected(x)'
  BY <1>1
<1>3. Inspected(x)
  BY <1>0
<1> QED BY <1>3, InspectedApart, InspectedOwn, InspectedElsewhere

--------------------------------------------------------------------------------
(* The theorems *)

\* Before any command.
LEMMA InitPreflight == Init => PreflightInv
<1> SUFFICES ASSUME Init PROVE PreflightInv
  OBVIOUS
<1>1. NetworkTyped
  <2>1. PICK modes \in IF host.resolved THEN Policies ELSE {<<>>} :
            /\ up = DOMAIN modes /\ gone = {}
            /\ configured = [l \in Links |-> IF l \in up THEN modes[l] ELSE "unset"]
    BY DEF Init
  <2>2. DOMAIN modes \subseteq Links /\ \A l \in DOMAIN modes : modes[l] \in Modes
    BY <2>1, PreflightAssumption
  <2>3. configured \in [Links -> Modes]
    BY <2>1, <2>2 DEF Modes
  <2> QED BY <2>1, <2>2, <2>3 DEF Init, NetworkTyped
<1>2. HistoryTyped
  BY DEF Init, HistoryTyped
<1>3. LocalsTyped
  <2>1. (CHOOSE r \in Requests : TRUE) \in Requests
    BY PreflightAssumption
  <2>2. "idle" \in Points
    BY DEF Points
  <2> QED BY <2>1, <2>2, NothingTyped DEF Init, LocalsTyped
<1>4. /\ host.holder \in Names \cup {Nobody} /\ host.lock \in Legacy \cup {Nobody}
  <2>1. host \in Hosts /\ HostType(host)
    BY PreflightAssumption DEF Init
  <2>2. DOMAIN host.uid \in {DOMAIN h.uid : h \in Hosts}
    BY <2>1
  <2>3. DOMAIN host.uid \subseteq Names
    BY <2>2 DEF Names
  <2> QED BY <2>1, <2>3 DEF HostType
<1>5. changes \in 0 .. MaxChanges
  BY PreflightAssumption DEF Init
<1>6. TypeOK
  BY <1>1, <1>2, <1>3, <1>4, <1>5 DEF Init, TypeOK
<1>7. \A p \in Starters : pc[p] = "idle"
  BY DEF Init
<1>8. lock \notin Starters
  BY <1>4, PreflightAssumption DEF Init
<1>9. RulesInv /\ ExemptIsDedicated
  BY DEF Init, RulesInv, ExemptIsDedicated
<1>10. FilesInv /\ AccountInv /\ AloneInv /\ BuildInv
  BY <1>7, <1>8 DEF FilesInv, AccountInv, AloneInv, BuildInv, Inside
<1>11. ScanInv
  BY <1>7 DEF ScanInv, Scanning
<1> QED BY <1>6, <1>9, <1>10, <1>11 DEF PreflightInv

\* Every step keeps the invariant.
LEMMA NextPreflight == PreflightInv /\ [Next]_vars => PreflightInv'
BY TypeStep, FilesStep, AccountStep, RulesStep, AloneStep, BuildStep, ScanStep DEF PreflightInv

\* The invariant of everything ttp start decides.
THEOREM Decisions == Spec => []PreflightInv
BY InitPreflight, NextPreflight, PTL DEF Spec

\* Whatever account _detect_tor_user or _resolve_external_tor_uid settled on, the one
\* apply_rules exempts is a dedicated account, for every host and every overlap.
THEOREM DedicatedExemption == Spec => []ExemptIsDedicated
<1>1. PreflightInv => ExemptIsDedicated
  BY DEF PreflightInv
<1> QED BY <1>1, Decisions, PTL

\* The table, the service and the torrc of a start that met no other one fit together
\* once write_lock has recorded it, whatever changed between its reads.
THEOREM SessionsFit == Spec => []SoleStartFitsTogether
<1>1. PreflightInv => SoleStartFitsTogether
  BY DEF PreflightInv, BuildInv, SoleStartFitsTogether
<1> QED BY <1>1, Decisions, PTL

\* The check is passed, once the links were inspected, by one way only.
LEMMA Passes ==
    ASSUME TypeOK, NEW p \in Starters, Start(p), pc[p] = "global", pc'[p] = "session"
    PROVE  global = scan[p].global
<1>0. pc \in [Starters -> Points]
  BY DEF TypeOK, LocalsTyped
<1>1. CASE Begin(p) \/ CheckPorts(p) \/ PolicyBegin(p) \/ PolicyLinks(p) \/ PolicyMode(p) \/ PolicyEffective(p)
  BY <1>1
     DEF Begin, CheckPorts, PolicyBegin, PolicyLinks, PolicyMode, PolicyEffective, Scan, Goes, Exit,
         Goto
<1>2. CASE PolicyAgain(p) \/ PolicySettled(p) \/ PolicyUnreadable(p)
  BY <1>0, <1>2 DEF PolicyAgain, PolicySettled, SettledUnread, PolicyUnreadable, Scan, Exit, Goto
<1>3. CASE PolicyGlobal(p)
  BY <1>3 DEF PolicyGlobal
<1>4. CASE CheckSession(p) \/ CheckOrphan(p) \/ Recover(p) \/ CheckSpace(p) \/ DetectTor(p) \/ ResolveExternal(p)
  BY <1>4
    
           DEF CheckSession, CheckSessionPid, CheckOrphan, Recover, CheckSpace, DetectTor,
               ResolveExternal, Goes,
         Exit,
              Goto
<1>5. CASE GenerateTorrc(p) \/ RestartTor(p) \/ ApplyRules(p) \/ ApplyDns(p) \/ WriteLock(p)
  BY <1>5 DEF GenerateTorrc, RestartTor, ApplyRules, ApplyDns, WriteLock, Goes, Exit, Goto
<1> QED BY <1>1, <1>2, <1>3, <1>4, <1>5, StartCases

\* check_dnssec_policy passes over no link that demanded DNSSEC for one reason
\* throughout, however often and in whatever order the network changes.
THEOREM DemandsAreHeard == Spec => DemandsAreRefused
<1> DEFINE Heard == \A p \in Starters : pc[p] = "global" /\ pc'[p] = "session" => demanding[p] = {}
<1>1. PreflightInv /\ [Next]_vars => Heard
  <2>1. SUFFICES ASSUME PreflightInv, [Next]_vars, NEW p \in Starters, pc[p] = "global", pc'[p] = "session"
                 PROVE  demanding[p] = {}
    OBVIOUS
  <2>2. TypeOK /\ ScanInv
    BY <2>1 DEF PreflightInv
  <2>3. Start(p)
    <3>1. pc'[p] # pc[p]
      BY <2>1
    <3> QED BY <2>1, <2>2, <3>1, Elsewhere, OwnStep DEF Apart
  <2>4. global = scan[p].global
    BY <2>1, <2>2, <2>3, Passes
  <2>5. \A d \in demanding[p] : Demands(d[1], d[2]) /\ d[2] = "held" /\ scan[p].global = "yes"
    BY <2>1, <2>2 DEF ScanInv, Scanning
  <2>6. \A d \in demanding[p] : global # "yes"
    BY <2>5 DEF Demands
  <2> QED BY <2>4, <2>5, <2>6
<1>2. PreflightInv /\ [Next]_vars => [Heard]_vars
  BY <1>1
<1> QED BY <1>2, Decisions, PTL DEF Spec, DemandsAreRefused

\* A start that met no other one leaves the table and the Tor of a recorded session
\* alone: check_session_state refuses it before it has changed anything.
THEOREM SessionStands == Spec => SessionIsNotReplaced
<1> DEFINE Stands == \A p \in Starters :
               lock \in Starters /\ pc'[p] # pc[p] /\ ~met[p] => UNCHANGED <<rules, service>>
<1>1. PreflightInv /\ [Next]_vars => Stands
  <2>1. SUFFICES ASSUME PreflightInv, [Next]_vars, NEW p \in Starters,
                        lock \in Starters, pc'[p] # pc[p], ~met[p]
                 PROVE  UNCHANGED <<rules, service>>
    OBVIOUS
  <2>2. TypeOK /\ AloneInv
    BY <2>1 DEF PreflightInv
  <2>3. Start(p)
    BY <2>1, <2>2, Elsewhere, OwnStep DEF Apart
  <2>4. pc[p] \notin Inside
    BY <2>1, <2>2 DEF AloneInv
  <2> QED BY <2>3, <2>4, Outside DEF tor
<1>2. PreflightInv /\ [Next]_vars => [Stands]_vars
  BY <1>1
<1> QED BY <1>2, Decisions, PTL DEF Spec, SessionIsNotReplaced

================================================================================
