------------------------------- MODULE MCRuleset -------------------------------
(* Instances of Ruleset for TLC. *)
EXTENDS Ruleset

MCServices == {<<"tcp", 53>>, <<"udp", 53>>, <<"tcp", 443>>, <<"udp", 443>>,
               <<"tcp", 853>>, <<"udp", 123>>, <<"icmp", 0>>}

\* --allow-root and the cgroup rule concern one sender each: without it they add
\* a rule that the observed connection never meets.
Relevant(opts, p) ==
    /\ "root" \in opts => p.sender = "root"
    /\ "cgroup" \in opts => p.sender = "slice"

MCInit == Init /\ Relevant(options, conn)
MCSpec == MCInit /\ [][Next]_vars
================================================================================
