------------------------------ MODULE KernelTable ------------------------------
(***************************************************************************)
(* The nftables table "inet ttp" as the kernel holds it, abstracted to the *)
(* forms TTP's own nft commands can give it.                               *)
(*                                                                         *)
(*   none       the table does not exist                                   *)
(*   redirect   the session ruleset of firewall/builder.py                 *)
(*   lockdown   a session table with drop or reject rules inserted on top  *)
(*              of filter_out by the teardown helpers                      *)
(*   open       a flushed session table: the chains remain, their policy   *)
(*              is accept and no rule is left                              *)
(*   emergency  exactly the killswitch ruleset                             *)
(*   guarded    the killswitch chains with other rules than the killswitch *)
(*   sealed     a flushed killswitch: policy drop and no loopback rule     *)
(***************************************************************************)

Tables == {"none", "redirect", "lockdown", "open", "emergency", "guarded", "sealed"}

\* The chains whose policy is accept, and the ones whose policy is drop.
SessionTables   == {"redirect", "lockdown", "open"}
EmergencyTables == {"emergency", "guarded", "sealed"}

\* firewall.apply_rules: the table is replaced in one nft transaction.
ApplyRulesTo(t) == "redirect"

\* firewall.apply_emergency_killswitch: replaced in one nft transaction.
ApplyKillswitchTo(t) == "emergency"

\* apply_teardown_lockdown and apply_active_socket_slaughter insert at the top
\* of filter_out; without a table nft refuses and the helper only logs.
InsertDrop(t) ==
    CASE t \in SessionTables   -> "lockdown"
      [] t \in EmergencyTables -> "guarded"
      [] OTHER                 -> t

\* Faulty variant: nft flush table taken for nft delete table.
FlushToNone(t) == "none"

\* destroy_rules, first command: nft flush table keeps chains and policies.
FlushRules(t) ==
    CASE t \in SessionTables   -> "open"
      [] t \in EmergencyTables -> "sealed"
      [] OTHER                 -> t

\* Faulty variant: any table found is taken for the killswitch.
MatchesAnyTable(t) == t # "none"

\* matches_emergency_contract: the killswitch and nothing else.
MatchesEmergencyContract(t) == t = "emergency"

\* Where a packet of an ordinary process goes.
Cleartext(t) == t \in {"none", "open"}

================================================================================
