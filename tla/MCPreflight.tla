------------------------------ MODULE MCPreflight ------------------------------
(* Instances of Preflight for TLC. *)
EXTENDS Preflight, TLC

Symmetry == Permutations(Starters)

Plain == [t |-> 9041, d |-> 9054, external |-> FALSE, by |-> "default", number |-> 0, name |-> "tor",
          noIpv6 |-> FALSE, watchdog |-> FALSE, names |-> {}, bridges |-> {}, useBridges |-> FALSE,
          notifications |-> FALSE, notifyUser |-> FALSE]

External == [Plain EXCEPT !.external = TRUE]

\* Command lines that start sessions.
Sound == {Plain, External,
          [Plain EXCEPT !.t = 9042, !.noIpv6 = TRUE, !.bridges = {"plain", "obfs4"}, !.watchdog = TRUE]}

\* One command line for every refusal, and the ways to name Tor's account.
Others == {[Plain EXCEPT !.notifyUser = TRUE], [External EXCEPT !.watchdog = TRUE],
           [Plain EXCEPT !.names = {"ghost"}], [Plain EXCEPT !.bridges = {"malformed"}],
           [Plain EXCEPT !.useBridges = TRUE], [Plain EXCEPT !.d = 9041],
           [External EXCEPT !.by = "number", !.number = 1000],
           [External EXCEPT !.by = "name", !.name = "ghost"]}

CommandLines == Sound \cup Others

Debian == [uid |-> [root |-> 0, alice |-> 1000] @@ ("debian-tor" :> 110),
           installed |-> {"tor", "obfs4proxy"}, supervisable |-> TRUE, resolved |-> FALSE,
           holder |-> "nobody", lock |-> "nobody", kinds |-> {"ipv6", "ports"}]

\* A packaged Tor, with users who run a Tor of their own, a DNSSEC policy, an
\* external Tor, a user's program on the ports or an old lock; a Tor whose account
\* was made by hand, or has another distribution's name; a host without Tor.
Machines == {Debian,
             [Debian EXCEPT !.kinds = {"daemons"}],
             [Debian EXCEPT !.resolved = TRUE, !.kinds = {"links", "policy"}],
             [Debian EXCEPT !.holder = "debian-tor", !.kinds = {"ports"}],
             [Debian EXCEPT !.holder = "alice", !.kinds = {"ports"}],
             [Debian EXCEPT !.lock = "orphan", !.kinds = {}],
             [Debian EXCEPT !.lock = "live", !.kinds = {}],
             [Debian EXCEPT !.uid = [root |-> 0, alice |-> 1000, tor |-> 1001], !.supervisable = FALSE,
                            !.kinds = {"daemons"}],
             [Debian EXCEPT !.uid = [root |-> 0, toranon |-> 120], !.installed = {"tor"}, !.holder = "toranon",
                            !.kinds = {"ipv6"}],
             [Debian EXCEPT !.uid = [root |-> 0], !.installed = {}, !.kinds = {}]}

\* The modes of the links at first; others come and change.
FirstModes == {<<"no">>, <<"unset", "yes">>}
================================================================================
