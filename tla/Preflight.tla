-------------------------------- MODULE Preflight --------------------------------
(***************************************************************************)
(* What ttp start decides before its session exists: the validation of its *)
(* input, the ports, the DNSSEC policy of every link, the session that may *)
(* already be there, the account Tor runs as, and the three files and      *)
(* tables built from those decisions - the torrc, the unit and the rules.  *)
(*                                                                         *)
(* Every decision rests on something read earlier, while links come and    *)
(* go, IPv6 is switched, other programs take ports or start a Tor of their *)
(* own, and another ttp start does the same. How one start fails and is    *)
(* undone step by step is module Lifecycle; here a clean-up is one step.   *)
(***************************************************************************)
EXTENDS Naturals, FiniteSets, FiniteSetsExt

CONSTANTS
    Starters,    \* processes that run ttp start, once each
    Links,       \* interface indices other than the loopback's
    Hosts,       \* what a host may have installed (see HostType)
    Requests,    \* the command lines that are tried (see RequestType)
    Policies,    \* the modes of the links that exist at first
    MaxChanges   \* bound on how often the environment changes

ChangeKinds == {"links", "policy", "ipv6", "ports", "daemons"}

\* The account names Tor packages use: _KNOWN_TOR_USERNAMES, and the order in
\* which _detect_tor_user falls back on them.
KnownTorUsernames == {"tor", "debian-tor", "toranon", "_tor"}
FallbackUsers == <<"debian-tor", "toranon", "tor", "_tor">>

Modes == {"yes", "no", "unset"}
Nobody == "nobody"

\* Locks written before sessions had identities, whose process is gone or lives.
Legacy == {"orphan", "live"}

Ports == UNION {{r.t, r.d} : r \in Requests}

\* uid is the account database; installed the binaries paths.resolve_optional
\* finds; supervisable that the watchdog's dependency can be imported; resolved
\* that systemd-resolved is active; holder and lock what the first start finds on
\* the ports and in /run; kinds what changes around the starts.
HostType(h) ==
    /\ DOMAIN h = {"uid", "installed", "supervisable", "resolved", "holder", "lock", "kinds"}
    /\ \A n \in DOMAIN h.uid : h.uid[n] \in Nat
    /\ h.installed \subseteq {"tor", "obfs4proxy", "snowflake-client"}
    /\ {h.supervisable, h.resolved} \subseteq BOOLEAN
    /\ h.holder \in DOMAIN h.uid \cup {Nobody}
    /\ h.lock \in Legacy \cup {Nobody}
    /\ h.kinds \subseteq ChangeKinds

\* names: --bypass-user and --bypass-group; bridges: the transports of the
\* bridge lines; by, number, name: --tor-uid and the form it is given in.
RequestType(r) ==
    /\ DOMAIN r = {"t", "d", "external", "by", "number", "name", "noIpv6", "watchdog", "names", "bridges", "useBridges",
                   "notifications", "notifyUser"}
    /\ {r.t, r.d, r.number} \subseteq Nat
    /\ r.by \in {"default", "number", "name"}
    /\ {r.external, r.noIpv6, r.watchdog, r.useBridges, r.notifications, r.notifyUser} \subseteq BOOLEAN
    /\ r.bridges \subseteq {"plain", "obfs4", "meek_lite", "meek", "snowflake", "malformed"}

ASSUME PreflightAssumption ==
    /\ Starters \cap (Legacy \cup {Nobody}) = {}
    /\ Requests # {}
    /\ Links \subseteq Nat /\ IsFiniteSet(Links)
    /\ \A h \in Hosts : HostType(h)
    /\ \A r \in Requests : RequestType(r)
    /\ \A modes \in Policies : DOMAIN modes \subseteq Links /\ \A l \in DOMAIN modes : modes[l] \in Modes
    /\ MaxChanges \in Nat

VARIABLES
    host,        \* the installed host, chosen once
    up,          \* the links that exist
    gone,        \* the links that were removed; the kernel reuses no index
    configured,  \* the DNSSEC mode the saved configuration of a link requires
    applied,     \* the mode systemd-resolved holds for a link
    global,      \* systemd-resolved's global mode
    ipv6,        \* ::1 can be bound
    holder,      \* the account of the program on a port, the managed Tor apart
    daemons,     \* accounts that run the tor binary on their own
    changes,
    torrc,       \* the generated configuration file
    unit,        \* the User= of ttp-tor.service
    service,     \* what the running managed Tor was started with
    rules,       \* the table inet ttp
    lock,        \* the session lock: its start, or a lock without a session_id
    pc, req,
    scan,        \* check_dnssec_policy's local variables
    account,     \* the account or UID each start settled on
    code,        \* exit codes
    demanding,   \* history: links that demanded DNSSEC all through the check, and why
    met,         \* history: another start was between its check and its lock
    shaken       \* history: IPv6 was switched between the torrc and the rules

network == <<up, gone, configured, applied, global>>
world   == <<network, ipv6, holder, daemons, changes>>
tor     == <<torrc, unit, service>>
history == <<demanding, met, shaken>>
locals  == <<req, scan, account, code>>
vars    == <<host, world, tor, rules, lock, pc, locals, history>>

NoAccount == [user |-> Nobody, uid |-> 0]
Down == [t |-> 0, d |-> 0, v6 |-> FALSE, user |-> Nobody]
NoTorrc == [t |-> 0, d |-> 0, v6 |-> FALSE]
NoRules == [by |-> Nobody, t |-> 0, d |-> 0, v6 |-> FALSE, uid |-> 0]
NoScan == [global |-> "no", links |-> {}, todo |-> {}, mode |-> "unset"]

Names == UNION {DOMAIN h.uid : h \in Hosts}
Uids == (UNION {{h.uid[n] : n \in DOMAIN h.uid} : h \in Hosts}) \cup {r.number : r \in Requests}

\* The points of check_dnssec_policy, and those between the check for a session
\* and the lock.
Scanning == {"links", "mode", "effective", "again", "settled", "global"}
Inside == {"orphan", "recover", "space", "account", "torrc", "restart", "rules", "dns", "record"}
Points == {"idle", "ports", "dnssec", "session", "done"} \cup Scanning \cup Inside

\* A link that requires DNSSEC whatever the global mode is: by its saved
\* configuration, or by what systemd-resolved visibly holds for it.
Reasons == {"saved", "held"}

Demands(l, why) ==
    /\ l \in up
    /\ IF why = "saved" THEN configured[l] = "yes" ELSE applied[l] = "yes" /\ global # "yes"

Scans    == [global : {"yes", "no"}, links : SUBSET Links, todo : SUBSET Links, mode : Modes]
Torrcs   == [t : Ports, d : Ports, v6 : BOOLEAN]
Accounts == [user : Names \cup {Nobody}, uid : Uids \cup {0}]

NetworkTyped ==
    /\ up \subseteq Links /\ gone \subseteq Links \ up
    /\ configured \in [Links -> Modes] /\ applied \in [Links -> Modes]
    /\ global \in {"yes", "no"}

HistoryTyped ==
    /\ demanding \in [Starters -> SUBSET (Links \X Reasons)]
    /\ met \in [Starters -> BOOLEAN] /\ shaken \in [Starters -> BOOLEAN]

LocalsTyped ==
    /\ pc \in [Starters -> Points]
    /\ req \in [Starters -> Requests]
    /\ scan \in [Starters -> Scans]
    /\ account \in [Starters -> Accounts]
    /\ code \in [Starters -> {0, 1, 2, 4, 5}]

TypeOK ==
    /\ host \in Hosts
    /\ NetworkTyped /\ HistoryTyped /\ LocalsTyped
    /\ ipv6 \in BOOLEAN
    /\ holder \in [Ports -> Names \cup {Nobody}]
    /\ daemons \subseteq Names
    /\ changes \in 0 .. MaxChanges
    /\ torrc \in Torrcs \cup {NoTorrc}
    /\ unit \in Names \cup {Nobody}
    /\ service \in [t : Ports, d : Ports, v6 : BOOLEAN, user : Names] \cup {Down}
    /\ rules \in [by : Starters, t : Ports, d : Ports, v6 : BOOLEAN, uid : Uids] \cup {NoRules}
    /\ lock \in Starters \cup Legacy \cup {Nobody}

Init ==
    /\ host \in Hosts
    /\ \E modes \in IF host.resolved THEN Policies ELSE {<<>>} :
        /\ up = DOMAIN modes /\ gone = {}
        /\ configured = [l \in Links |-> IF l \in up THEN modes[l] ELSE "unset"]
    /\ applied = configured
    /\ global \in {"yes", "no"}
    /\ host.resolved \/ global = "no"
    /\ ipv6 \in BOOLEAN
    /\ holder = [q \in Ports |-> host.holder]
    /\ daemons = {}
    /\ changes = 0
    /\ torrc = NoTorrc /\ unit = Nobody /\ service = Down /\ rules = NoRules
    /\ lock = host.lock
    /\ pc = [p \in Starters |-> "idle"]
    /\ req \in [Starters -> {CHOOSE r \in Requests : TRUE}]
    /\ scan = [p \in Starters |-> NoScan]
    /\ account = [p \in Starters |-> NoAccount]
    /\ code = [p \in Starters |-> 0]
    /\ demanding = [p \in Starters |-> {}]
    /\ met = [p \in Starters |-> FALSE] /\ shaken = [p \in Starters |-> FALSE]

Goto(p, from, to) == pc[p] = from /\ pc' = [pc EXCEPT ![p] = to]

\* The command returns at this point with an exit code.
Exit(p, from, c) ==
    /\ Goto(p, from, "done")
    /\ code' = [code EXCEPT ![p] = c]
    /\ scan' = [scan EXCEPT ![p] = NoScan]
    /\ account' = [account EXCEPT ![p] = NoAccount]

\* It goes on, with these local variables as they are.
Goes(p, from, to) == Goto(p, from, to) /\ UNCHANGED <<code, scan, account>>

--------------------------------------------------------------------------------
(* Input and ports *)

\* The transports that need a helper program: PT_MAP.
Helper == [obfs4 |-> "obfs4proxy", meek_lite |-> "obfs4proxy", snowflake |-> "snowflake-client"]

\* validate_ports, before it looks at the host.
PortsValid(r) ==
    /\ r.t \in 1024 .. 65535 /\ r.d \in 1024 .. 65535
    /\ r.t # r.d

\* _parse_bypass_users_groups: every name has an account.
BypassKnown(r) == r.names \subseteq DOMAIN host.uid

\* validate_bridge_line.
BridgeLineValid(b) == b # "malformed"

\* _parse_bridges: --use-bridges needs a line, and every line is validated.
BridgesAccepted(r) ==
    /\ r.useBridges => r.bridges # {}
    /\ \A b \in r.bridges : BridgeLineValid(b)

\* The exit code of the checks start_command makes on its command line and the
\* host's installation, in their order; 0 lets it continue. A recipient that
\* cannot be selected is reported and does not end the start.
Validated(r) ==
    IF r.notifyUser /\ ~r.notifications THEN 2
    ELSE IF r.external /\ r.watchdog THEN 1
    ELSE IF r.watchdog /\ ~host.supervisable THEN 5
    ELSE IF BypassKnown(r) /\ BridgesAccepted(r) /\ PortsValid(r) THEN 0 ELSE 1

Begin(p) == \E r \in Requests :
    /\ IF Validated(r) = 0
       THEN Goes(p, "idle", "ports") /\ req' = [req EXCEPT ![p] = r]
       ELSE Exit(p, "idle", Validated(r)) /\ UNCHANGED req
    /\ UNCHANGED <<host, world, tor, rules, lock, history>>

\* is_port_in_use, is_port_listening_tcp and is_port_listening_udp. The managed
\* Tor listens on TransPort by TCP and on DNSPort by UDP; another program's
\* ports are taken to serve both.
InUse(q) == holder[q] # Nobody \/ (service # Down /\ q \in {service.t, service.d})
ListensTcp(q) == holder[q] # Nobody \/ (service # Down /\ q = service.t)
ListensUdp(q) == holder[q] # Nobody \/ (service # Down /\ q = service.d)

PortsUsable(r) ==
    IF r.external THEN ListensTcp(r.t) /\ ListensUdp(r.d)
                  ELSE ~InUse(r.t) /\ ~InUse(r.d)

CheckPorts(p) ==
    /\ IF PortsUsable(req[p])
       THEN Goes(p, "ports", "dnssec")
       ELSE Exit(p, "ports", 1)
    /\ UNCHANGED <<host, world, tor, rules, lock, req, history>>

--------------------------------------------------------------------------------
(* dns_policy.check_dnssec_policy *)

Effective(l) == IF applied[l] = "unset" THEN global ELSE applied[l]

Scan(p, from, to) == Goto(p, from, to) /\ UNCHANGED <<host, world, tor, rules, lock, req, account, code, met, shaken>>

\* No active systemd-resolved: there is no policy. Otherwise the global mode.
PolicyBegin(p) ==
    IF host.resolved
    THEN /\ Scan(p, "dnssec", "links")
         /\ scan' = [scan EXCEPT ![p] = [NoScan EXCEPT !.global = global]]
         /\ demanding' = [demanding EXCEPT ![p] = {d \in Links \X Reasons : Demands(d[1], d[2])}]
    ELSE Scan(p, "dnssec", "session") /\ UNCHANGED <<scan, demanding>>

\* socket.if_nameindex().
PolicyLinks(p) ==
    /\ Scan(p, "links", IF up = {} THEN "settled" ELSE "mode")
    /\ scan' = [scan EXCEPT ![p].links = up, ![p].todo = up]
    /\ UNCHANGED demanding

Link(p) == Min(scan[p].todo)

\* _configured_mode: the saved configuration, "unset" when the file is gone.
ConfiguredMode(l) == IF l \in up THEN configured[l] ELSE "unset"

PolicyMode(p) ==
    \/ /\ Scan(p, "mode", "effective")
       /\ ConfiguredMode(Link(p)) # "yes"
       /\ scan' = [scan EXCEPT ![p].mode = ConfiguredMode(Link(p))]
       /\ UNCHANGED demanding
    \/ /\ Exit(p, "mode", 4)
       /\ ConfiguredMode(Link(p)) = "yes"
       /\ UNCHANGED <<host, world, tor, rules, lock, req, history>>

\* GetLink and the DNSSEC property of the link; a link that is gone has none.
PolicyEffective(p) ==
    /\ Scan(p, "effective", "again")
    /\ Link(p) \in up
    /\ Effective(Link(p)) = (IF scan[p].mode = "unset" THEN scan[p].global ELSE scan[p].mode)
    /\ UNCHANGED <<scan, demanding>>

PolicyAgain(p) ==
    /\ Scan(p, "again", IF scan[p].todo = {Link(p)} THEN "settled" ELSE "mode")
    /\ ConfiguredMode(Link(p)) = scan[p].mode
    /\ scan' = [scan EXCEPT ![p].todo = @ \ {Link(p)}]
    /\ UNCHANGED demanding

\* Faulty variant: the links are not listed again.
SettledUnread(p) == Scan(p, "settled", "global") /\ UNCHANGED <<scan, demanding>>

\* The links are the ones that were inspected, and then the global mode is the
\* one they were compared with.
PolicySettled(p) ==
    /\ up = scan[p].links
    /\ SettledUnread(p)

PolicyGlobal(p) ==
    /\ global = scan[p].global
    /\ Scan(p, "global", "session")
    /\ scan' = [scan EXCEPT ![p] = NoScan]
    /\ UNCHANGED demanding

\* A disagreement, or a reply that cannot be had or read, refuses the start.
PolicyUnreadable(p) ==
    /\ pc[p] \in Scanning \cup {"dnssec"}
    /\ Exit(p, pc[p], 1)
    /\ UNCHANGED <<host, world, tor, rules, lock, req, history>>

Dnssec(p) ==
    \/ PolicyBegin(p) \/ PolicyLinks(p) \/ PolicyMode(p) \/ PolicyEffective(p)
    \/ PolicyAgain(p) \/ PolicySettled(p) \/ PolicyGlobal(p) \/ PolicyUnreadable(p)

--------------------------------------------------------------------------------
(* The session that may already be there *)

\* A start that passes here meets every other one that did and has not ended.
Meet(p) == met' = [q \in Starters |->
    \/ met[q]
    \/ q # p /\ pc[q] \in Inside
    \/ q = p /\ \E o \in Starters \ {p} : pc[o] \in Inside]

\* Faulty variant: a recorded session whose command has ended counts as orphaned.
CheckSessionPid(p) ==
    /\ IF lock = Nobody THEN Goto(p, "session", "space") ELSE Goto(p, "session", "orphan")
    /\ Meet(p)
    /\ UNCHANGED <<host, world, tor, rules, lock, locals, demanding, shaken>>

\* check_session_state: a recorded session is never replaced.
CheckSession(p) ==
    \/ /\ lock \in Starters
       /\ Exit(p, "session", 1)
       /\ UNCHANGED <<host, world, tor, rules, lock, req, history>>
    \/ /\ lock \notin Starters
       /\ CheckSessionPid(p)

\* state.is_orphan reads the lock again: the recorded process is the start itself.
IsOrphan == lock = "orphan" \/ (lock \in Starters /\ pc[lock] = "done")

CheckOrphan(p) ==
    /\ IF IsOrphan
       THEN Goes(p, "orphan", "recover")
       ELSE Exit(p, "orphan", 1)
    /\ UNCHANGED <<host, world, tor, rules, lock, req, history>>

\* attempt_recovery reads it a third time, and restores whatever it then finds.
Recover(p) ==
    /\ Goto(p, "recover", "space")
    /\ IF lock = Nobody
       THEN UNCHANGED <<rules, lock>>
       ELSE rules' = NoRules /\ lock' = Nobody
    /\ UNCHANGED <<host, world, tor, locals, history>>

\* preflight_checks and the record storage, either of which may refuse.
CheckSpace(p) ==
    /\ Goes(p, "space", "account") \/ Exit(p, "space", 1)
    /\ UNCHANGED <<host, world, tor, rules, lock, req, history>>

--------------------------------------------------------------------------------
(* The account Tor runs as *)

Known(users) == {i \in DOMAIN users : users[i] \in DOMAIN host.uid}
First(users) == users[Min(Known(users))]

\* The accounts with a process of the trusted tor binary.
TorOwners == daemons \cup (IF service = Down THEN {} ELSE {service.user})

\* _detect_tor_user: the owner of a running Tor or, if there is none or ps does not
\* answer in time, a name packages use.
DetectTorUser ==
    TorOwners \cup {IF Known(FallbackUsers) # {} THEN First(FallbackUsers) ELSE "tor"}

\* Faulty variant: any existing account will do.
IsTorSystemAccountAny(n) == n \in DOMAIN host.uid

\* _assert_is_tor_system_account.
IsTorSystemAccount(n) == n \in DOMAIN host.uid /\ host.uid[n] # 0 /\ host.uid[n] < 1000

\* ensure_pluggable_transports, for the transports PT_MAP knows.
HelpersInstalled(r) == \A b \in r.bridges \cap DOMAIN Helper : Helper[b] \in host.installed

\* ensure_tor_ready up to start_tor_service; a missing program exits with 0.
DetectTor(p) ==
    /\ ~req[p].external
    /\ \E n \in DetectTorUser :
        \/ /\ "tor" \notin host.installed
           /\ Exit(p, "account", 0)
        \/ /\ "tor" \in host.installed /\ ~IsTorSystemAccount(n)
           /\ Exit(p, "account", 1)
        \/ /\ "tor" \in host.installed /\ IsTorSystemAccount(n) /\ ~HelpersInstalled(req[p])
           /\ Exit(p, "account", 0)
        \/ /\ "tor" \in host.installed /\ IsTorSystemAccount(n) /\ HelpersInstalled(req[p])
           /\ Goto(p, "account", "torrc") /\ UNCHANGED <<code, scan>>
           /\ account' = [account EXCEPT ![p] = [user |-> n, uid |-> host.uid[n]]]
    /\ UNCHANGED <<host, world, tor, rules, lock, req, history>>

\* get_uid_from_port: the account that listens on the port.
PortOwner(q) ==
    IF holder[q] # Nobody THEN holder[q]
    ELSE IF service # Down /\ q = service.t THEN service.user ELSE Nobody

\* Account names are in lower case here; the code lowers the one it looks up.
OwnerIsTor(n) == n \in KnownTorUsernames \cap DOMAIN host.uid /\ host.uid[n] # 0

\* _resolve_external_tor_uid: the UIDs it may settle on, none to refuse.
ExternalUid(r) ==
    CASE r.by = "number" -> {r.number}
      [] r.by = "name" -> IF r.name \in DOMAIN host.uid THEN {host.uid[r.name]} ELSE {}
      [] r.by = "default" /\ OwnerIsTor(PortOwner(r.t)) -> {host.uid[PortOwner(r.t)]}
      [] OTHER -> IF Known(<<"tor", "debian-tor">>) = {} THEN {}
                  ELSE {host.uid[First(<<"tor", "debian-tor">>)]}

ResolveExternal(p) ==
    /\ req[p].external
    /\ \/ /\ ExternalUid(req[p]) = {}
          /\ Exit(p, "account", 1)
       \/ \E u \in ExternalUid(req[p]) :
          /\ Goto(p, "account", "rules") /\ UNCHANGED <<code, scan>>
          /\ account' = [account EXCEPT ![p] = [user |-> Nobody, uid |-> u]]
    /\ UNCHANGED <<host, world, tor, rules, lock, req, history>>

--------------------------------------------------------------------------------
(* Tor, the rules, the DNS and the lock *)

\* Faulty variant: --no-ipv6 does not reach generate_torrc or apply_rules.
Ipv6AvailableAlways(r) == ipv6

Ipv6Available(r) == ipv6 /\ ~r.noIpv6

\* _build_torrc_content, as far as the rules must agree with it.
Torrc(r) == [t |-> r.t, d |-> r.d, v6 |-> Ipv6Available(r)]

\* start_tor_service writes the torrc and the unit.
GenerateTorrc(p) ==
    /\ Goto(p, "torrc", "restart")
    /\ torrc' = Torrc(req[p])
    /\ unit' = account[p].user
    /\ UNCHANGED <<host, world, service, rules, lock, locals, history>>

\* systemctl restart: an earlier Tor ends; the new one needs its unit and both its
\* ports, and may fail for reasons of its own. A failure ends the start as it is.
RestartTor(p) ==
    /\ \/ /\ Goes(p, "restart", "rules")
          /\ unit # Nobody /\ holder[torrc.t] = Nobody /\ holder[torrc.d] = Nobody
          /\ service' = [t |-> torrc.t, d |-> torrc.d, v6 |-> torrc.v6, user |-> unit]
       \/ Exit(p, "restart", 1) /\ service' = Down
    /\ UNCHANGED <<host, world, torrc, unit, rules, lock, req, history>>

\* What a start that fails after this point takes away again, as far as the
\* programs it runs for that do their work and the failure is one it handles.
CleanUp(p) ==
    /\ rules' \in {rules, NoRules}
    /\ IF req[p].external
       THEN UNCHANGED <<unit, service>>
       ELSE unit' \in {unit, Nobody} /\ service' \in {service, Down}

\* firewall.apply_rules replaces the table in one transaction; a failure rolls
\* back, and the start stops its Tor.
ApplyRules(p) ==
    /\ \/ /\ Goes(p, "rules", "dns") /\ UNCHANGED <<unit, service>>
          /\ rules' = [by |-> p, t |-> req[p].t, d |-> req[p].d, v6 |-> Ipv6Available(req[p]),
                       uid |-> account[p].uid]
       \/ Exit(p, "rules", 1) /\ CleanUp(p)
    /\ UNCHANGED <<host, world, torrc, lock, req, history>>

\* detect_active_interface, which may end the start with nothing undone, and apply_dns.
ApplyDns(p) ==
    /\ \/ Goes(p, "dns", "record") /\ UNCHANGED <<unit, service, rules>>
       \/ Exit(p, "dns", 1) /\ CleanUp(p)
    /\ UNCHANGED <<host, world, torrc, lock, req, history>>

\* state.write_lock replaces whatever lock there is, and then removes the marker of
\* an earlier stop. Where that fails, the start undoes the rest and the lock stays.
WriteLock(p) ==
    /\ \/ Exit(p, "record", 0) /\ lock' = p /\ UNCHANGED <<unit, service, rules>>
       \/ Exit(p, "record", 1) /\ CleanUp(p) /\ lock' \in {lock, p}
    /\ UNCHANGED <<host, world, torrc, req, history>>

\* ttp stop of the recorded session (module Lifecycle has its steps).
Stop ==
    /\ lock # Nobody
    /\ lock' = Nobody /\ rules' = NoRules /\ unit' = Nobody /\ service' = Down
    /\ UNCHANGED <<host, world, torrc, pc, locals, history>>

--------------------------------------------------------------------------------
(* The environment *)

\* The history of Demands after a change.
Watch == demanding' = [p \in Starters |->
    {d \in demanding[p] : Demands(d[1], d[2])'} \cup
    (IF pc[p] \in Scanning \ {"global"} THEN {d \in (up' \ up) \X Reasons : Demands(d[1], d[2])'} ELSE {})]

\* Links and policies are read by the check only: a change outside it is one of
\* the states the check may begin in.
Change(kind) ==
    /\ kind \in host.kinds /\ changes < MaxChanges
    /\ kind \in {"links", "policy"} => \E p \in Starters : pc[p] \in Scanning
    /\ changes' = changes + 1
    /\ UNCHANGED <<host, tor, rules, lock, pc, locals, met>>

LinkComes == \E l \in Links \ (up \cup gone), m \in Modes :
    /\ Change("links")
    /\ up' = up \cup {l}
    /\ configured' = [configured EXCEPT ![l] = m] /\ applied' = [applied EXCEPT ![l] = m]
    /\ UNCHANGED <<gone, global, ipv6, holder, daemons, shaken>>
    /\ Watch

LinkGoes == \E l \in up :
    /\ Change("links")
    /\ up' = up \ {l} /\ gone' = gone \cup {l}
    /\ configured' = [configured EXCEPT ![l] = "unset"] /\ applied' = [applied EXCEPT ![l] = "unset"]
    /\ UNCHANGED <<global, ipv6, holder, daemons, shaken>>
    /\ Watch

\* The saved configuration of a link changes; systemd-resolved follows later.
Reconfigure == \E l \in up, m \in Modes :
    /\ Change("policy")
    /\ configured[l] # m
    /\ configured' = [configured EXCEPT ![l] = m]
    /\ UNCHANGED <<up, gone, applied, global, ipv6, holder, daemons, shaken>>
    /\ Watch

ResolvedFollows == \E l \in up :
    /\ applied[l] # configured[l]
    /\ applied' = [applied EXCEPT ![l] = configured[l]]
    /\ UNCHANGED <<host, up, gone, configured, global, ipv6, holder, daemons, changes, tor, rules, lock, pc,
                   locals, met, shaken>>
    /\ Watch

GlobalChanges ==
    /\ Change("policy")
    /\ global' = IF global = "yes" THEN "no" ELSE "yes"
    /\ UNCHANGED <<up, gone, configured, applied, ipv6, holder, daemons, shaken>>
    /\ Watch

Ipv6Switches ==
    /\ Change("ipv6")
    /\ ipv6' = ~ipv6
    /\ shaken' = [p \in Starters |-> shaken[p] \/ pc[p] \in {"restart", "rules"}]
    /\ UNCHANGED <<network, holder, daemons, demanding>>

PortTaken == \E q \in Ports, n \in DOMAIN host.uid :
    /\ Change("ports")
    /\ ~InUse(q)
    /\ holder' = [holder EXCEPT ![q] = n]
    /\ UNCHANGED <<network, ipv6, daemons, demanding, shaken>>

PortFreed == \E q \in Ports :
    /\ Change("ports")
    /\ holder[q] # Nobody
    /\ holder' = [holder EXCEPT ![q] = Nobody]
    /\ UNCHANGED <<network, ipv6, daemons, demanding, shaken>>

DaemonComesOrGoes == \E n \in DOMAIN host.uid :
    /\ Change("daemons")
    /\ daemons' = IF n \in daemons THEN daemons \ {n} ELSE daemons \cup {n}
    /\ UNCHANGED <<network, ipv6, holder, demanding, shaken>>

Environment ==
    \/ LinkComes \/ LinkGoes \/ Reconfigure \/ ResolvedFollows \/ GlobalChanges
    \/ Ipv6Switches \/ PortTaken \/ PortFreed \/ DaemonComesOrGoes

Start(p) ==
    \/ Begin(p) \/ CheckPorts(p) \/ Dnssec(p) \/ CheckSession(p) \/ CheckOrphan(p) \/ Recover(p)
    \/ CheckSpace(p) \/ DetectTor(p) \/ ResolveExternal(p) \/ GenerateTorrc(p) \/ RestartTor(p)
    \/ ApplyRules(p) \/ ApplyDns(p) \/ WriteLock(p)

Next == (\E p \in Starters : Start(p)) \/ Stop \/ Environment

Spec == Init /\ [][Next]_vars

--------------------------------------------------------------------------------
(* Properties *)

\* A link that demanded DNSSEC for one and the same reason from the moment the check
\* began, or that came while the links were inspected and demanded it from then on,
\* is never passed over, however the network changes while check_dnssec_policy reads
\* it file by file and call by call. (One whose reason changes back and forth
\* together with the global mode may be.)
DemandsAreRefused == [][ \A p \in Starters : pc[p] = "global" /\ pc'[p] = "session" => demanding[p] = {} ]_vars

\* A start that met no other one and goes on from write_lock published a session
\* whose parts fit together, whatever changed between its reads: the rules redirect
\* to the ports Tor was started with, exempt the account it was started as, and send
\* IPv6 to Tor only if the torrc listens there - unless IPv6 came up between the two
\* reads. (A start that fails behind its own lock reports it, and leaves the lock
\* over whatever its clean-up left.)
Fits(p) ==
    /\ rules.by = p
    /\ rules.t = req[p].t /\ rules.d = req[p].d
    /\ ~req[p].external =>
        /\ service # Down
        /\ service.t = rules.t /\ service.d = rules.d
        /\ host.uid[service.user] = rules.uid
        /\ rules.v6 => (service.v6 /\ ~req[p].noIpv6) \/ shaken[p]

SoleStartFitsTogether == \A p \in Starters : lock = p /\ code[p] = 0 /\ ~met[p] => Fits(p)

\* The account that leaves the host in cleartext is a dedicated one, even when
\* starts overlap or some user runs a Tor or holds the port: the managed Tor's is
\* a system account and not root, an external Tor's that was not named on the
\* command line has a name Tor packages use.
Dedicated(r, uid) ==
    /\ ~r.external => uid \in 1 .. 999
    /\ r.external /\ r.by = "default" => uid \in {host.uid[n] : n \in KnownTorUsernames \cap DOMAIN host.uid}

ExemptIsDedicated == rules # NoRules => Dedicated(req[rules.by], rules.uid)

\* A start that met no other one never changes the table under a recorded session.
SessionIsNotReplaced == [][ \A p \in Starters :
    lock \in Starters /\ pc'[p] # pc[p] /\ ~met[p] => UNCHANGED <<rules, service>> ]_vars

--------------------------------------------------------------------------------
(* The inductive invariant *)

\* The torrc is there when Tor is restarted.
FilesInv == \A p \in Starters : pc[p] = "restart" => torrc \in Torrcs

\* The account a start has settled on.
AccountInv == \A p \in Starters :
    /\ pc[p] \in {"torrc", "restart"} => ~req[p].external
    /\ pc[p] \in {"torrc", "restart", "rules"} =>
        /\ account[p].uid \in Uids
        /\ Dedicated(req[p], account[p].uid)
        /\ ~req[p].external => account[p].user \in Names /\ account[p].uid = host.uid[account[p].user]

\* The rules are those of a start that has begun.
RulesInv == rules # NoRules => rules.by \in Starters /\ pc[rules.by] # "idle"

\* A start that met no other one is alone between the check and the lock, and no
\* session is recorded.
AloneInv == \A p \in Starters : ~met[p] /\ pc[p] \in Inside =>
    /\ \A q \in Starters \ {p} : pc[q] \notin Inside
    /\ lock \notin Starters
    /\ pc[p] \notin {"orphan", "recover"} => lock = Nobody

\* What it has built so far fits together; so does what it has recorded.
SameIpv6(p, v6) == shaken[p] \/ (Ipv6Available(req[p]) => v6)

BuildInv == \A p \in Starters : ~met[p] =>
    /\ pc[p] = "restart" =>
        /\ torrc.t = req[p].t /\ torrc.d = req[p].d /\ unit = account[p].user
        /\ SameIpv6(p, torrc.v6)
    /\ pc[p] = "rules" /\ ~req[p].external =>
        /\ service # Down
        /\ service.t = req[p].t /\ service.d = req[p].d /\ service.user = account[p].user
        /\ SameIpv6(p, service.v6)
    /\ pc[p] \in {"dns", "record"} => Fits(p)
    /\ lock = p => pc[p] = "done" /\ (code[p] = 0 => Fits(p)) /\ \A q \in Starters : pc[q] \notin Inside

\* What check_dnssec_policy may have missed so far: of the links it is through with,
\* those only which systemd-resolved held to DNSSEC while the global mode, which it
\* read as "yes", was not.
ScanInv == \A p \in Starters : pc[p] \in Scanning =>
    /\ \A d \in demanding[p] : Demands(d[1], d[2])
    /\ pc[p] # "links" => scan[p].links \subseteq up \cup gone /\ scan[p].todo \subseteq scan[p].links
    /\ pc[p] \in {"mode", "effective", "again"} => scan[p].todo # {}
    /\ pc[p] \in {"settled", "global"} => scan[p].todo = {}
    /\ pc[p] # "links" => \A d \in demanding[p] :
        d[1] \in scan[p].links \ scan[p].todo => d[2] = "held" /\ scan[p].global = "yes"
    /\ pc[p] \in {"effective", "again"} => scan[p].mode # "yes" /\ <<Link(p), "saved">> \notin demanding[p]
    /\ pc[p] = "again" /\ <<Link(p), "held">> \in demanding[p] => scan[p].global = "yes"
    /\ pc[p] = "global" => \A d \in demanding[p] : d[1] \in scan[p].links

PreflightInv ==
    /\ TypeOK /\ FilesInv /\ AccountInv /\ RulesInv /\ ExemptIsDedicated /\ AloneInv /\ BuildInv /\ ScanInv

--------------------------------------------------------------------------------
(* What the code says of itself and does not keep; README, section 4. *)

\* _preflight.py, check_session_state: "A recorded session must be terminated with
\* 'sudo ttp stop' before starting another." A session whose start reported it
\* keeps its table until it is stopped.
RecordedSessionStands == lock \in Starters => rules # NoRules

\* docs/web/how-to/dnssec.md: "a network changing during the check are also
\* inspection errors". When the check passes, no link demands DNSSEC.
PassedIsCompatible == [][ \A p \in Starters :
    pc[p] = "global" /\ pc'[p] = "session" =>
        \A l \in Links, why \in Reasons : ~Demands(l, why) ]_vars

================================================================================
