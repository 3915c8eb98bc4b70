-------------------------------- MODULE Ruleset --------------------------------
(***************************************************************************)
(* What the rules of table inet ttp do to packets: the chains rendered by  *)
(* firewall/builder.py, the rules the teardown helpers insert, the         *)
(* killswitch, and one connection whose packets meet them.                 *)
(*                                                                         *)
(* A chain is a sequence of rules and the first rule that matches decides. *)
(* The kernel consults nat chains only for the first packet of a           *)
(* connection and remembers the outcome in its connection tracking, so a   *)
(* connection made under one table goes on under the next one. A rejected  *)
(* packet is answered by the kernel with a packet that passes the output   *)
(* chain itself. Module KernelTable is the coarse view of the same table.  *)
(***************************************************************************)
EXTENDS Naturals, Sequences, KernelTable

CONSTANTS
    Options,    \* what a configuration may enable; see OptionAssumption
    Services,   \* the protocols and destination ports connections are opened with
    TransPort,  \* transport_port of apply_rules, Tor's TransPort
    DNSPort     \* dns_port of apply_rules, Tor's DNSPort

\* ipv6: IPv6 is available and not disabled; root: --allow-root; lan: the LAN
\* bypass; cgroup: the kernel can match ttp-bypass.slice; foreign: another
\* program has a nat chain ahead of TTP's that sends DNS to a LAN resolver.
ASSUME OptionAssumption == Options \subseteq {"ipv6", "root", "lan", "cgroup", "foreign"}

\* Any protocol by its name; port 0 where it has none.
ASSUME ServiceAssumption == Services \subseteq STRING \X Nat
ASSUME PortAssumption == TransPort \in Nat /\ DNSPort \in Nat

VARIABLES
    options,  \* what this host and session have enabled
    table,    \* the kernel's table
    stage,    \* how far start or do_stop has come
    conn,     \* the first packet of the observed connection
    track,    \* what connection tracking knows of it
    last      \* the fate of its latest packet under the present table

vars == <<options, table, stage, conn, track, last>>

--------------------------------------------------------------------------------
(* Packets *)

\* bypass stands for a user or group of the bypass lists, slice for a process in
\* ttp-bypass.slice, guest for a container or VM routed through the host.
Senders == {"tor", "root", "user", "bypass", "slice", "resolved", "guest"}

\* stub is another address of 127.0.0.0/8, own a routable address of the host,
\* doh an address of the DoH list, wan any other.
Destinations == {"localhost", "stub", "own", "lan", "doh", "wan"}
Loopback     == {"localhost", "stub"}
Host         == Loopback \cup {"own"}

\* port is the destination port the packet carries, orig the one its connection
\* was opened with.
Packet(sender, fam, service, dst) ==
    [sender |-> sender, fam |-> fam, proto |-> service[1], port |-> service[2],
     orig |-> service[2], dst |-> dst, dir |-> "original"]

Packets == {Packet(s, f, v, d) : s \in Senders, f \in {4, 6}, v \in Services, d \in Destinations}

Opened == {p \in Packets : /\ p.dst = "stub" => p.fam = 4
                           /\ p.sender = "guest" => p.dst \notin Host}

--------------------------------------------------------------------------------
(* Rules *)

\* A rule applies to the families fam, looks for match, gives verdict and counts
\* on the named counter. "reject" answers with ICMP, "reset" with a TCP reset;
\* "dnsport" and "transport" rewrite the destination to Tor.
Rule(match, fam, verdict, counter) ==
    [match |-> match, fam |-> fam, verdict |-> verdict, counter |-> counter]

Both   == {4, 6}
Uncounted == "none"

Matches(match, p) ==
    CASE match = "tor"          -> p.sender = "tor"
      [] match = "root"         -> p.sender = "root"
      [] match = "slice"        -> p.sender = "slice"
      [] match = "bypass"       -> p.sender = "bypass"
      [] match = "bypassAway"   -> p.sender = "bypass" /\ p.dst # "localhost"
      [] match = "resolvedAway" -> p.sender = "resolved" /\ p.dst # "localhost"
      [] match = "dns"          -> p.proto \in {"tcp", "udp"} /\ p.port = 53
      [] match = "unredirected" -> /\ p.proto \in {"tcp", "udp"}
                                   /\ p.dir = "original" /\ p.orig = 53
                                   /\ p.dst \notin Loopback
      [] match = "lan"          -> p.dst = "lan"
      [] match = "loopback"     -> p.dst \in Loopback
      [] match = "local"        -> p.dst \in Host
      [] match = "tcp"          -> p.proto = "tcp"
      [] match = "udp"          -> p.proto = "udp"
      [] match = "dot"          -> p.proto = "tcp" /\ p.port = 853
      [] match = "dohTcp"       -> p.dst = "doh" /\ p.proto = "tcp" /\ p.port = 443
      [] match = "dohUdp"       -> p.dst = "doh" /\ p.proto = "udp" /\ p.port = 443
      [] match = "lo"           -> p.dst \in Host
      [] match = "away"         -> p.dst \notin Host
      [] match = "othersAway"   -> p.sender \notin {"tor", "kernel"} /\ p.dst \notin Host
      [] OTHER                  -> TRUE

Hit(rule, p) == p.fam \in rule.fam /\ Matches(rule.match, p)

NoRule == Rule("none", {}, "none", Uncounted)

\* The first rule of the chain that matches decides.
FirstHit(chain, p) ==
    LET hits == {i \in DOMAIN chain : Hit(chain[i], p)}
    IN  IF hits = {} THEN NoRule
        ELSE chain[CHOOSE i \in hits : \A j \in hits : i <= j]

--------------------------------------------------------------------------------
(* _build_ruleset *)

When(enabled, rule) == IF enabled THEN <<rule>> ELSE <<>>

\* Families of the rules that get an IPv6 twin only when IPv6 is available.
Families == IF "ipv6" \in options THEN Both ELSE {4}

LanRule     == When("lan" \in options, Rule("lan", Families, "accept", Uncounted))
DnsRedirect == <<Rule("dns", Families, "dnsport", "dns_redirected")>>
TcpRedirect == <<Rule("tcp", Families, "transport", "tcp_redirected")>>
LoopRule    == <<Rule("loopback", Families, "accept", Uncounted)>>
TorRule     == <<Rule("tor", Both, "accept", Uncounted)>>
SliceRule   == When("cgroup" \in options, Rule("slice", Both, "accept", Uncounted))

\* Faulty variant: the loopback addresses ahead of the DNS redirect.
NatOutputLoopFirst ==
    TorRule \o SliceRule \o <<Rule("bypassAway", Families, "accept", Uncounted)>>
    \o LoopRule \o DnsRedirect \o LanRule \o TcpRedirect

\* chain output
NatOutput ==
    TorRule \o SliceRule \o <<Rule("bypassAway", Families, "accept", Uncounted)>>
    \o DnsRedirect \o LanRule \o LoopRule \o TcpRedirect

\* chain prerouting
NatPrerouting == DnsRedirect \o LanRule \o TcpRedirect

\* The rules that make filter_out fail closed, after its exemptions.
FilterRejects ==
    <<Rule("local", Both, "accept", Uncounted),
      Rule("dot", Both, "reject", "dot_rejected"),
      Rule("dohTcp", Families, "reject", "doh_rejected"),
      Rule("dohUdp", Families, "reject", "doh_rejected"),
      Rule("tcp", Both, "reset", "cleartext_rejected"),
      Rule("any", Both, "reject", "cleartext_rejected")>>

\* Faulty variant: the IPv6 drop after the exemptions, where it used to be.
FilterOutLateIpv6 ==
    TorRule \o SliceRule
    \o <<Rule("bypass", Both, "accept", Uncounted), Rule("resolvedAway", Families, "drop", Uncounted)>>
    \o When("root" \in options, Rule("root", Both, "accept", Uncounted))
    \o <<Rule("unredirected", Families, "reject", "dns_unredirected_rejected")>>
    \o LanRule \o LoopRule
    \o When("ipv6" \notin options, Rule("any", {6}, "drop", Uncounted))
    \o FilterRejects

\* Faulty variant: bypassed users and groups are exempt in nat output only.
FilterOutUnbypassed ==
    TorRule \o When("ipv6" \notin options, Rule("any", {6}, "drop", Uncounted)) \o SliceRule
    \o <<Rule("resolvedAway", Families, "drop", Uncounted)>>
    \o When("root" \in options, Rule("root", Both, "accept", Uncounted))
    \o <<Rule("unredirected", Families, "reject", "dns_unredirected_rejected")>>
    \o LanRule \o LoopRule \o FilterRejects

\* Faulty variant: the host's own addresses are not accepted.
FilterOutDeaf ==
    TorRule \o When("ipv6" \notin options, Rule("any", {6}, "drop", Uncounted)) \o SliceRule
    \o <<Rule("bypass", Both, "accept", Uncounted), Rule("resolvedAway", Families, "drop", Uncounted)>>
    \o When("root" \in options, Rule("root", Both, "accept", Uncounted))
    \o <<Rule("unredirected", Families, "reject", "dns_unredirected_rejected")>>
    \o LanRule \o LoopRule \o Tail(FilterRejects)

\* chain filter_out
FilterOut ==
    TorRule
    \o When("ipv6" \notin options, Rule("any", {6}, "drop", Uncounted))
    \o SliceRule
    \o <<Rule("bypass", Both, "accept", Uncounted), Rule("resolvedAway", Families, "drop", Uncounted)>>
    \o When("root" \in options, Rule("root", Both, "accept", Uncounted))
    \o <<Rule("unredirected", Families, "reject", "dns_unredirected_rejected")>>
    \o LanRule \o LoopRule \o FilterRejects

\* The table: its nat chains, filter_out with its policy; filter_forward drops
\* everything in every table TTP makes.
NoTable      == [exists |-> FALSE, policy |-> "accept", pre |-> <<>>, nat |-> <<>>, filter |-> <<>>]
SessionTable == [exists |-> TRUE, policy |-> "accept",
                 pre |-> NatPrerouting, nat |-> NatOutput, filter |-> FilterOut]

\* Faulty variant: the killswitch keeps the exemption of the Tor daemon.
KillswitchTorExempt == [exists |-> TRUE, policy |-> "drop", pre |-> <<>>, nat |-> <<>>,
                        filter |-> TorRule \o <<Rule("lo", Both, "accept", Uncounted)>>]

\* apply_emergency_killswitch
Killswitch == [exists |-> TRUE, policy |-> "drop", pre |-> <<>>, nat |-> <<>>,
               filter |-> <<Rule("lo", Both, "accept", Uncounted)>>]

--------------------------------------------------------------------------------
(* The kernel *)

\* The nat chains decide how a new connection is rewritten; a foreign chain
\* ahead of TTP's ends nat evaluation.
Binding(p) ==
    LET rule == FirstHit(IF p.sender = "guest" THEN table.pre ELSE table.nat, p)
    IN  IF "foreign" \in options /\ Matches("dns", p) THEN "foreign"
        ELSE IF rule.verdict \in {"dnsport", "transport"} THEN rule.verdict ELSE "plain"

Rewritten(p, binding) ==
    CASE binding = "dnsport"   -> [p EXCEPT !.dst = "localhost", !.port = DNSPort]
      [] binding = "transport" -> [p EXCEPT !.dst = "localhost", !.port = TransPort]
      [] binding = "foreign"   -> [p EXCEPT !.dst = "lan"]
      [] OTHER                 -> p

Delivered(p) ==
    IF p.dst = "localhost" /\ p.port \in {TransPort, DNSPort} THEN "tor"
    ELSE IF p.dst \in Host THEN "local" ELSE "clear"

\* The filter_out chain and its policy.
FilterVerdict(p) ==
    LET rule == FirstHit(table.filter, p)
    IN  IF rule = NoRule THEN table.policy ELSE rule.verdict

\* The kernel's answer to a rejected packet goes to the sender's own address.
Answer(p, verdict) ==
    [p EXCEPT !.sender = "kernel", !.dir = "reply", !.port = 0,
              !.proto = IF verdict = "reset" THEN "tcp" ELSE "icmp",
              !.dst = IF p.dst \in Loopback THEN "localhost" ELSE "own"]

\* What becomes of a packet of the connection p under a binding.
Fate(p, binding) ==
    LET q       == Rewritten(p, binding)
        verdict == FilterVerdict(q)
        counter == FirstHit(table.filter, q).counter
    IN  IF q.sender = "guest" THEN
            [fate |-> IF q.dst \in Host \/ ~table.exists THEN Delivered(q) ELSE "dropped",
             counter |-> Uncounted, heard |-> FALSE]
        ELSE CASE verdict = "accept" -> [fate |-> Delivered(q), counter |-> counter, heard |-> FALSE]
               [] verdict = "drop"   -> [fate |-> "dropped", counter |-> counter, heard |-> FALSE]
               [] OTHER              -> [fate |-> "rejected", counter |-> counter,
                                         heard |-> FilterVerdict(Answer(q, verdict)) = "accept"]

Nothing == [fate |-> "none", counter |-> Uncounted, heard |-> FALSE, fresh |-> FALSE]

\* A packet of the connection p: a tracked one keeps its binding; a new one is
\* bound now and remembered if it passes. Tracking may be off while no table of
\* TTP's asks for it.
Transmit(p) ==
    LET fresh   == track = "untracked"
        binding == IF fresh THEN Binding(p) ELSE track
        outcome == Fate(p, binding)
    IN  /\ last' = [fate |-> outcome.fate, counter |-> outcome.counter,
                    heard |-> outcome.heard, fresh |-> fresh]
        /\ IF fresh /\ outcome.fate \in {"tor", "local", "clear"}
           THEN track' \in IF table.exists THEN {binding} ELSE {binding, "untracked"}
           ELSE track' = track

--------------------------------------------------------------------------------
Init ==
    /\ options \in SUBSET Options
    /\ table = NoTable
    /\ stage = "off"
    /\ conn \in Opened
    /\ track = "untracked"
    /\ last = Nothing

\* The process opens the connection, or sends another packet on it.
Send ==
    /\ Transmit(conn)
    /\ UNCHANGED <<options, table, stage, conn>>

Retable(t, s) ==
    /\ table' = t
    /\ stage' = s
    /\ last' = Nothing
    /\ UNCHANGED <<options, conn>>

\* ttp start: one transaction. The connection tracking is left as it is.
ApplyRules ==
    /\ stage = "off"
    /\ Retable(SessionTable, "session")
    /\ UNCHANGED track

\* request_emergency, in a running session.
ApplyKillswitch ==
    /\ stage = "session"
    /\ Retable(Killswitch, "session")
    /\ UNCHANGED track

\* Faulty variant: nft add rule instead of nft insert rule.
AppendRule(rule) == [table EXCEPT !.filter = Append(@, rule)]

\* nft insert rule puts the rule ahead of all others.
InsertRule(rule) == [table EXCEPT !.filter = <<rule>> \o @]

\* apply_teardown_lockdown: without a Tor uid nobody is exempt; a refused
\* command is only logged.
Lockdown ==
    /\ stage = "session"
    /\ \/ \E match \in {"othersAway", "away"} :
             Retable(InsertRule(Rule(match, Both, "drop", Uncounted)), "locked")
       \/ Retable(table, "unlocked")
    /\ UNCHANGED track

\* apply_active_socket_slaughter: two nft commands; the first failure ends it.
SlaughterUdp ==
    /\ stage \in {"locked", "unlocked"}
    /\ \/ Retable(InsertRule(Rule("udp", Both, "reject", Uncounted)), "slaughtering")
       \/ Retable(table, "slaughtered")
    /\ UNCHANGED track

SlaughterTcp ==
    /\ stage = "slaughtering"
    /\ \/ Retable(InsertRule(Rule("tcp", Both, "reset", Uncounted)), "slaughtered")
       \/ Retable(table, "slaughtered")
    /\ UNCHANGED track

\* conntrack -F, where the program is installed.
FlushConntrack ==
    /\ stage = "slaughtered"
    /\ Retable(table, "slaughtered")
    /\ track' = "untracked"

\* destroy_rules: nft flush table, then nft delete table; restore-only and a
\* failed start come here directly.
FlushTable ==
    /\ stage \in {"session", "slaughtered"}
    /\ Retable([table EXCEPT !.pre = <<>>, !.nat = <<>>, !.filter = <<>>], "flushed")
    /\ UNCHANGED track

DeleteTable ==
    /\ stage \in {"session", "slaughtered", "flushed"}
    /\ Retable(NoTable, "off")
    /\ UNCHANGED track

Next ==
    \/ Send \/ ApplyRules \/ ApplyKillswitch
    \/ Lockdown \/ SlaughterUdp \/ SlaughterTcp \/ FlushConntrack
    \/ FlushTable \/ DeleteTable

Spec == Init /\ [][Next]_vars

--------------------------------------------------------------------------------
(* Properties *)

Verdicts == {"none", "accept", "drop", "reject", "reset", "dnsport", "transport"}

TypeOK ==
    /\ options \subseteq Options
    /\ table.exists \in BOOLEAN /\ table.policy \in {"accept", "drop"}
    /\ \A chain \in {table.pre, table.nat, table.filter} :
          \A i \in DOMAIN chain : chain[i].verdict \in Verdicts /\ chain[i].fam \subseteq Both
    /\ stage \in {"off", "session", "locked", "unlocked", "slaughtering", "slaughtered", "flushed"}
    /\ conn \in Opened
    /\ track \in {"untracked", "plain", "dnsport", "transport", "foreign"}
    /\ last.fate \in {"none", "tor", "local", "clear", "dropped", "rejected"}

\* The table in the words of KernelTable.
Coarse(t) ==
    CASE ~t.exists                          -> "none"
      [] t.exists /\ t.policy = "accept"    -> IF t.filter = <<>> THEN "open"
                                               ELSE IF t = SessionTable THEN "redirect" ELSE "lockdown"
      [] OTHER                              -> IF t.filter = <<>> THEN "sealed"
                                               ELSE IF t = Killswitch THEN "emergency" ELSE "guarded"

IsDns(p) == Matches("dns", p)

\* Who may transmit in cleartext during a session, by what the options promise and
\* without regard to chains: Tor; bypassed users and groups, the bypass slice and
\* root if asked for; anybody to the LAN, but never DNS. Without IPv6, none but
\* Tor over IPv6.
Exempt(p) ==
    \/ p.sender = "tor"
    \/ /\ p.fam = 4 \/ "ipv6" \in options
       /\ \/ p.sender = "bypass"
          \/ p.sender = "slice" /\ "cgroup" \in options
          \/ p.sender = "root" /\ "root" \in options
          \/ /\ p.sender # "guest" /\ p.dst = "lan"
             /\ "lan" \in options /\ ~IsDns(p)

\* "Non-exempt local traffic MUST NOT leave the system in cleartext": whatever
\* connection tracking remembers from before ttp start, whatever nat chain comes
\* first, in a session and in every step of its teardown up to the flush.
NoCleartext ==
    last.fate = "clear" /\ Coarse(table) \in {"redirect", "lockdown"} => Exempt(conn)

\* New TCP connections and DNS queries of processes that are not exempt do reach
\* Tor's ports: no rule of filter_out cuts off what nat output redirected.
RedirectReachesTor ==
    /\ last.fresh /\ Coarse(table) = "redirect"
    /\ conn.sender = "user" /\ (conn.fam = 4 \/ "ipv6" \in options)
    /\ \/ IsDns(conn) /\ "foreign" \notin options
       \/ conn.proto = "tcp" /\ conn.dst \in {"wan", "doh", "own"} /\ ~IsDns(conn)
    => last.fate = "tor"

\* The emergency table, also with rules a teardown inserted or flushed, lets
\* nothing leave the host: not Tor, not a bypassed process, no forwarded packet
\* and no connection from before.
EmergencyIsClosed ==
    last.fate = "clear" => Coarse(table) \notin EmergencyTables

\* Once the lockdown is in, no exemption of the session counts: until the flush
\* nobody but Tor transmits off the host.
LockedDown == \E i \in DOMAIN table.filter : table.filter[i].match \in {"othersAway", "away"}

LockdownHolds == last.fate = "clear" /\ LockedDown => conn.sender = "tor"

\* A process whose packet a session rejects hears of it: the kernel's ICMP error
\* or reset is not itself rejected on the way back (#36).
RejectionIsHeard ==
    last.fate = "rejected" /\ Coarse(table) = "redirect" => last.heard

\* The counters that watchdog/integrity.py takes for a failed redirect, which is an
\* emergency: a new connection raises them only when another program's nat chain
\* came first, or when it is QUIC to a DoH address, which is not redirected.
AlarmCounters == {"doh_rejected", "dot_rejected", "dns_unredirected_rejected"}

NoFalseAlarm ==
    last.fresh /\ last.counter \in AlarmCounters /\ Coarse(table) = "redirect" =>
        \/ "foreign" \in options /\ IsDns(conn)
        \/ conn.proto = "udp" /\ conn.dst = "doh" /\ conn.port = 443

\* KernelTable is right about these chains: every step of the table is one of the
\* steps that SessionSafety takes, and traffic of a process that is not exempt
\* leaves in cleartext only under the tables called Cleartext there.
CoarseStep ==
    table' # table =>
        LET coarse == Coarse(table)
        IN  Coarse(table') \in {ApplyRulesTo(coarse), ApplyKillswitchTo(coarse),
                                InsertDrop(coarse), FlushRules(coarse), "none"}

CoarseTableAgrees ==
    [][/\ CoarseStep
       /\ last'.fate = "clear" /\ ~Exempt(conn) => Cleartext(Coarse(table))]_vars

--------------------------------------------------------------------------------
(* Statements of comments and documentation that the code does not keep *)

\* watchdog/integrity.py: the DoH and DoT rejects count only when the redirect
\* "did not happen": a packet they count is one that nat output redirects.
AlarmsMeanFailedRedirect ==
    last.counter \in AlarmCounters =>
        conn.proto = "tcp" \/ IsDns(conn)

\* builder.py: allow_root "allows root (UID 0) processes to bypass proxying".
RootBypasses ==
    /\ Coarse(table) = "redirect" /\ "root" \in options /\ conn.sender = "root"
    /\ conn.dst = "wan" /\ conn.fam = 4
    => last.fate # "tor"

\* emergency.py: the slaughter terminates pending connections by sending "ICMP
\* Port Unreachable for UDP sockets and TCP RST packets for open TCP streams".
SlaughterIsHeard ==
    stage = "slaughtered" /\ last.fate = "rejected" /\ conn.fam = 4 => last.heard
================================================================================
