-------------------------------- MODULE Lifecycle --------------------------------
(***************************************************************************)
(* What ttp start puts on the host, and what ttp stop, ttp stop            *)
(* --restore-only and the signal handler take away again: the managed Tor  *)
(* unit, the SELinux port labels, the nftables table, the systemd-resolved *)
(* drop-in, the bind mounts over resolv.conf and the session lock.         *)
(*                                                                         *)
(* One command runs at a time (module SessionSafety has two at once, and   *)
(* emergency mode). Every command may be killed between any two of its     *)
(* steps, ttp start may be interrupted by a signal, and every program it   *)
(* runs may fail. A program that is killed by its timeout may have done    *)
(* its work all the same.                                                  *)
(***************************************************************************)
EXTENDS Naturals, KernelTable

CONSTANTS
    Targets,    \* the files /etc/resolv.conf may resolve to
    Faults,     \* what may go wrong in this instance, see Kinds
    MaxFaults   \* bound on how often something goes wrong

Kinds == {"fail", "kill", "signal", "loss", "repoint", "toggle", "reboot"}

ASSUME LifecycleBounds == Targets # {} /\ Faults \subseteq Kinds /\ MaxFaults \in Nat

VARIABLES
    tor,        \* ttp-tor.service: off (no unit), unit (written, not running), on
    labels,     \* the ports are labelled tor_port_t in the SELinux policy store
    table,      \* the nftables table, see KernelTable
    dropin,     \* resolved.conf.d/ttp.conf exists
    resolver,   \* systemd-resolved: off, or the configuration it has loaded
    mounts,     \* TTP's bind-mount layers on each target
    link,       \* the target /etc/resolv.conf resolves to now
    lock,       \* the session lock, or NoLock
    pc, cmd,    \* the command that runs, and its local variables
    out,        \* how the last command ended
    seen,       \* the kinds of fault that have happened
    faults

host == <<tor, labels, table, dropin, resolver, mounts, link>>
env  == <<seen, faults>>
vars == <<tor, labels, table, dropin, resolver, mounts, link, lock, pc, cmd, out, seen, faults>>

NoLock == [session |-> FALSE]

\* The lock's fields the lifecycle uses: external_daemon and the two members of
\* dns_backup, mount_target and systemd_resolved.
Locks == [session : {TRUE}, external : BOOLEAN, target : Targets, resolved : BOOLEAN]

Ops == {"none", "start", "stop", "restore", "signal"}

\* stop and signal_handler run do_stop.
DoStop == {"stop", "signal"}

\* What a session puts on the host, as far as a failed start takes it away again.
\* The port labels stay, which RebootLeavesNothing is about.
Parts == {"tor", "table", "overlay", "resolver", "lock"}

\* The local variables of the command that runs, or ran last. "left" is history: the
\* parts that a start has found, has failed to remove, or removes on no path.
Commands ==
    [op : Ops, external : BOOLEAN, resolved : BOOLEAN, target : Targets, backup : {"none", "dns"},
     lock : Locks \cup {NoLock}, held : BOOLEAN, left : SUBSET Parts]

Pcs == {"idle", "detect", "label", "unit", "rules", "route", "resolved", "reload", "overlay", "mount", "record",
        "supervise", "undo", "lockdown", "shutdown", "tor", "unlabel", "conntrack", "destroy", "umount",
        "unresolve", "unlock"}

PlacesTyped ==
    /\ tor \in {"off", "unit", "on"}
    /\ table \in {"none", "redirect", "lockdown", "open"}
    /\ resolver \in {"off", "host", "tor"}
    /\ link \in Targets
    /\ pc \in Pcs
    /\ out \in {"none", "ok", "refused", "conflict", "failed", "stopped", "broken", "restored",
                "signalled", "killed", "rebooted"}

TypeOK ==
    /\ PlacesTyped
    /\ labels \in BOOLEAN /\ dropin \in BOOLEAN
    /\ mounts \in [Targets -> 0 .. MaxFaults + 1]
    /\ lock \in Locks \cup {NoLock}
    /\ cmd \in Commands
    /\ seen \subseteq Faults
    /\ faults \in 0 .. MaxFaults

\* The network is the host's own again: no table, no overlay, no drop-in on disk
\* or in the running resolver.
NetworkRestored ==
    /\ table = "none"
    /\ \A t \in Targets : mounts[t] = 0
    /\ ~dropin /\ resolver # "tor"

\* The parts that are on the host.
Residue ==
    {part \in Parts :
        \/ part = "tor" /\ tor = "on"
        \/ part = "table" /\ table # "none"
        \/ part = "overlay" /\ \E t \in Targets : mounts[t] > 0
        \/ part = "resolver" /\ (dropin \/ resolver = "tor")
        \/ part = "lock" /\ lock # NoLock}

Init ==
    /\ tor = "off" /\ labels = FALSE /\ table = "none" /\ dropin = FALSE
    /\ resolver \in {"off", "host"}
    /\ mounts = [t \in Targets |-> 0]
    /\ link \in Targets
    /\ lock = NoLock
    /\ pc = "idle"
    /\ cmd = [op |-> "none", external |-> FALSE, resolved |-> FALSE, target |-> link, backup |-> "none",
              lock |-> NoLock, held |-> FALSE, left |-> {}]
    /\ out = "none"
    /\ seen = {} /\ faults = 0

----------------------------------------------------------------------------
(* Faults and the way commands meet them *)

Hit(kind) ==
    /\ kind \in Faults /\ faults < MaxFaults
    /\ faults' = faults + 1
    /\ seen' = seen \cup {kind}

\* A program the command runs succeeds, or fails.
Works == UNCHANGED env
Fails == Hit("fail")

Goto(p) == pc' = p /\ UNCHANGED <<cmd, out>>
End(how) == pc' = "idle" /\ out' = how /\ UNCHANGED cmd

\* An exception leaves the command: do_stop, restore-only and start differ in
\* what they report, never in what they still do.
Broken == IF cmd.op = "start" THEN "failed" ELSE "broken"
Raise  == End(Broken)

\* From here on no step of this start takes these parts away.
Leave(parts) == cmd' = IF cmd.op = "start" THEN [cmd EXCEPT !.left = @ \cup parts] ELSE cmd

RaiseLeaving(parts) == pc' = "idle" /\ out' = Broken /\ Leave(parts)

\* What start has up when its table and, as far as it is managed, its Tor are.
Started   == {"table"} \cup (IF cmd.external THEN {} ELSE {"tor"})

\* What the rest of a clean-up takes away from destroy_rules on.
FromTable == {"table"} \cup (IF cmd.backup = "dns" THEN {"overlay", "resolver"} ELSE {})

\* What systemd-resolved loads when it is restarted.
Loaded == IF dropin THEN "tor" ELSE "host"

----------------------------------------------------------------------------
(* ttp start *)

\* The local variables of a command when it begins.
Locals(op, ext) ==
    [op |-> op, external |-> ext, resolved |-> FALSE, target |-> link, backup |-> "none",
     lock |-> lock, held |-> table # "none", left |-> IF op = "start" THEN Residue ELSE {}]

Begin(op, p, ext) ==
    /\ pc' = p
    /\ out' = "none"
    /\ cmd' = Locals(op, ext)
    /\ UNCHANGED <<host, lock, env>>

Refuse(how) ==
    /\ out' = how
    /\ UNCHANGED <<host, lock, pc, cmd, env>>

\* validate_ports: the ports of a managed start must be free, and a ttp-tor that
\* still runs listens on them.
PortsFree(ext) == ext \/ tor # "on"

\* check_dnssec_policy: only an active resolver has a policy to conflict with, or
\* one that cannot be inspected.
MayConflict == resolver # "off"

\* start_command up to preflight_checks: each check refuses before anything has
\* changed. check_session_state refuses every recorded session: the locks of this
\* version have a session_id, so is_orphan and attempt_recovery are not reached.
Start(ext) ==
    /\ pc = "idle"
    /\ \/ ~PortsFree(ext) /\ Refuse("refused")
       \/ PortsFree(ext) /\ MayConflict /\ Refuse("conflict")
       \/ PortsFree(ext) /\ lock # NoLock /\ Refuse("refused")
       \/ PortsFree(ext) /\ lock = NoLock /\ Begin("start", IF ext THEN "rules" ELSE "detect", ext)

\* setup_managed_tor and ensure_tor_ready: Tor or a pluggable transport is
\* missing, its account is not a system account, or the service may be started.
EnsureTorReady ==
    /\ pc = "detect"
    /\ Goto("label") \/ Raise
    /\ UNCHANGED <<host, lock, env>>

\* start_tor_service, first half: torrc and label_ports_selinux, which only logs
\* a failed semanage.
Label ==
    /\ pc = "label"
    /\ \/ labels' = TRUE /\ Works /\ Goto("unit")
       \/ UNCHANGED labels /\ Fails /\ Goto("unit")
    /\ UNCHANGED <<tor, table, dropin, resolver, mounts, link, lock>>

\* start_tor_service, second half: the unit file and systemctl restart. A unit
\* that does not become ready raises TorError and its file stays.
StartTor ==
    /\ pc = "unit"
    /\ \/ tor' = "on" /\ Works /\ Goto("rules")
       \/ tor' = "unit" /\ Fails /\ Raise
    /\ UNCHANGED <<labels, table, dropin, resolver, mounts, link, lock>>

\* Where a failed step of start begins its clean-up.
Abort == IF cmd.external THEN "destroy" ELSE "tor"

\* firewall.apply_rules: one transaction, which may have been committed when it
\* times out. On failure it rolls back by destroying the table. When that fails the
\* table stays, flushed or not, and start cleans up; when nft times out in the
\* roll-back, its exception passes start's except FirewallError.
ApplyRules ==
    /\ pc = "rules"
    /\ \/ table' = ApplyRulesTo(table) /\ Works /\ Goto("route")
       \/ /\ table' \in {table, ApplyRulesTo(table), FlushRules(table), FlushRules(ApplyRulesTo(table)), "none"}
          /\ Fails
          /\ Goto(Abort) \/ RaiseLeaving(Started)
    /\ UNCHANGED <<tor, labels, dropin, resolver, mounts, link, lock>>

\* dns.detect_active_interface, without --interface: an ip that fails means eth0; one
\* that times out or is missing raises, and the call is in no try of start.
DetectInterface ==
    /\ pc = "route"
    /\ \/ Works /\ Goto("resolved")
       \/ Fails /\ RaiseLeaving(Started)
    /\ UNCHANGED <<host, lock>>

\* apply_resolved: is_resolved_active takes a failed inspection for an inactive
\* service; otherwise the drop-in is written. cmd.resolved says that there is
\* something for restore_resolved to undo.
WriteDropin ==
    /\ pc = "resolved"
    /\ \/ resolver = "off" /\ UNCHANGED <<dropin, cmd>> /\ Works /\ pc' = "overlay"
       \/ resolver # "off" /\ UNCHANGED <<dropin, cmd>> /\ Fails /\ pc' = "overlay"
       \/ resolver # "off" /\ dropin' = TRUE /\ UNCHANGED cmd /\ Works /\ pc' = "reload"
       \/ resolver # "off" /\ UNCHANGED dropin /\ cmd' = [cmd EXCEPT !.resolved = TRUE] /\ Fails /\ pc' = "undo"
    /\ UNCHANGED <<tor, labels, table, resolver, mounts, link, lock, out>>

\* systemctl restart systemd-resolved, which may also leave it down;
\* apply_resolved undoes its own failure.
RestartResolved ==
    /\ pc = "reload"
    /\ \/ resolver' = Loaded /\ Works /\ pc' = "overlay"
       \/ resolver' \in {resolver, Loaded, "off"} /\ Fails /\ pc' = "undo"
    /\ cmd' = [cmd EXCEPT !.resolved = TRUE]
    /\ UNCHANGED <<tor, labels, table, dropin, mounts, link, lock, out>>

\* Faulty variant: stale layers are left in place.
OverlayUncleared ==
    /\ pc = "overlay"
    /\ Works
    /\ pc' = "mount" /\ cmd' = [cmd EXCEPT !.target = link] /\ UNCHANGED out
    /\ UNCHANGED <<host, lock>>

\* Faulty variant: the drop-in is not undone when the overlay cannot be written.
OverlayForgetful ==
    /\ pc = "overlay"
    /\ \/ pc' = "mount" /\ mounts' = [mounts EXCEPT ![link] = 0] /\ Works
       \/ pc' = Abort /\ UNCHANGED mounts /\ Fails
    /\ cmd' = [cmd EXCEPT !.target = link]
    /\ UNCHANGED <<tor, labels, table, dropin, resolver, link, lock, out>>

\* apply_dns: the runtime file is written, the target resolved, and the stale
\* TTP layers on it are unmounted, as far as umount succeeds.
WriteOverlay ==
    /\ pc = "overlay"
    /\ \/ pc' = "mount" /\ mounts' = [mounts EXCEPT ![link] = 0] /\ Works
       \/ pc' = "mount" /\ UNCHANGED mounts /\ mounts[link] > 0 /\ Fails
       \/ pc' = "undo" /\ UNCHANGED mounts /\ Fails
    /\ cmd' = [cmd EXCEPT !.target = link]
    /\ UNCHANGED <<tor, labels, table, dropin, resolver, link, lock, out>>

\* mount --bind. One whose timeout expires after the mount leaves the layer, and
\* nothing in apply_dns or start unmounts it.
MountOverlay ==
    /\ pc = "mount"
    /\ \/ /\ mounts' = [mounts EXCEPT ![cmd.target] = @ + 1] /\ Works
          /\ pc' = "record" /\ cmd' = [cmd EXCEPT !.backup = "dns"]
       \/ UNCHANGED mounts /\ Fails /\ pc' = "undo" /\ UNCHANGED cmd
       \/ /\ mounts' = [mounts EXCEPT ![cmd.target] = @ + 1] /\ Fails
          /\ pc' = "undo" /\ Leave({"overlay"})
    /\ UNCHANGED <<tor, labels, table, dropin, resolver, link, lock, out>>

\* restore_resolved: the drop-in is removed and the service restarted; a failure
\* of either is logged and the other still tried.
RestoreResolved ==
    \/ dropin' = FALSE /\ resolver' = "host" /\ Works
    \/ dropin' = FALSE /\ resolver' \in {resolver, "off"} /\ Fails
    \/ UNCHANGED dropin /\ resolver' = Loaded /\ Fails

\* The exception path of apply_resolved and apply_dns, which ends in DNSError.
UndoResolved ==
    /\ pc = "undo"
    /\ IF cmd.resolved THEN RestoreResolved ELSE UNCHANGED <<dropin, resolver>> /\ Works
    /\ pc' = Abort
    /\ Leave(IF faults' = faults THEN {} ELSE {"resolver"})
    /\ UNCHANGED <<tor, labels, table, mounts, link, lock, out>>

\* write_lock publishes the lock and then clears the stop marker: a failure after
\* the publication is reported like one before it, and the clean-up keeps the lock.
WriteLock ==
    /\ pc = "record"
    /\ LET written == [session |-> TRUE, external |-> cmd.external, target |-> cmd.target,
                       resolved |-> cmd.resolved]
       IN  \/ lock' = written /\ Works /\ Goto("supervise")
           \/ UNCHANGED lock /\ Fails /\ Goto(Abort)
           \/ lock' = written /\ Fails /\ pc' = Abort /\ Leave({"lock"}) /\ UNCHANGED out
    /\ UNCHANGED host

\* Agent, watchdog, verification and report: they leave these resources alone.
Supervise ==
    /\ pc = "supervise"
    /\ End("ok")
    /\ UNCHANGED <<host, lock, env>>

----------------------------------------------------------------------------
(* ttp stop, ttp stop --restore-only and the signal handler *)

\* do_stop returns at once without a lock; mark_stopping may raise before
\* anything has changed.
Stop ==
    /\ pc = "idle"
    /\ \/ lock = NoLock /\ Refuse("refused")
       \/ lock # NoLock /\ Begin("stop", "lockdown", lock.external)
       \/ /\ lock # NoLock /\ Fails /\ out' = "broken"
          /\ cmd' = Locals("stop", lock.external) /\ UNCHANGED <<host, lock, pc>>

\* signal_handler interrupts start wherever it is; SystemExit passes the
\* except Exception clauses, so nothing of start's own clean-up runs.
Signal ==
    /\ cmd.op = "start" /\ pc # "idle"
    /\ Hit("signal")
    /\ IF lock = NoLock
       THEN pc' = "idle" /\ out' = "signalled" /\ UNCHANGED cmd
       ELSE /\ pc' = "lockdown" /\ UNCHANGED out
            /\ cmd' = [cmd EXCEPT !.op = "signal", !.external = lock.external, !.lock = lock,
                                  !.held = table # "none"]
    /\ UNCHANGED <<host, lock>>

\* stop_command with --restore-only: marker, watchdog, then Tor whatever the lock
\* says.
RestoreOnly ==
    /\ pc = "idle"
    /\ Begin("restore", "shutdown", FALSE)

\* Faulty variant: teardown without the lockdown rule.
LockdownSkipped ==
    /\ pc = "lockdown"
    /\ Works /\ Goto(IF cmd.external THEN "conntrack" ELSE "shutdown")
    /\ UNCHANGED <<host, lock>>

\* apply_teardown_lockdown only logs a failure.
Lockdown ==
    /\ pc = "lockdown"
    /\ \/ table' = InsertDrop(table) /\ Works
       \/ UNCHANGED table /\ Fails
    /\ Goto(IF cmd.external THEN "conntrack" ELSE "shutdown")
    /\ UNCHANGED <<tor, labels, dropin, resolver, mounts, link, lock>>

\* Tor exits, or is still there.
MaybeDown == IF tor = "on" THEN {"on", "unit"} ELSE {tor}

\* graceful_shutdown: Tor closes its circuits and exits, or has no control port
\* to ask, or is still busy after the timeout. Nobody looks at the answer.
GracefulShutdown ==
    /\ pc = "shutdown"
    /\ tor' \in MaybeDown /\ Works /\ Goto("tor")
    /\ UNCHANGED <<labels, table, dropin, resolver, mounts, link, lock>>

\* stop_tor_service: systemctl stop is not checked. A unit file that cannot be
\* removed raises out of the command, in start out of its clean-up.
StopTor ==
    /\ pc = "tor"
    /\ LET next == IF cmd.op \in DoStop THEN "unlabel" ELSE "destroy"
       IN  \/ tor' = "off" /\ Works /\ Goto(next)
           \/ /\ tor' = (IF tor = "on" THEN "on" ELSE "off") /\ Fails
              /\ pc' = next /\ Leave({"tor"}) /\ UNCHANGED out
           \/ tor' \in MaybeDown /\ Fails /\ RaiseLeaving({"tor"} \cup FromTable)
    /\ UNCHANGED <<labels, table, dropin, resolver, mounts, link, lock>>

\* unlabel_ports_selinux: a failed semanage is passed over, one that times out
\* raises out of the command.
Unlabel ==
    /\ pc = "unlabel"
    /\ \/ labels' = FALSE /\ Works /\ Goto(IF cmd.op = "restore" THEN "umount" ELSE "conntrack")
       \/ UNCHANGED labels /\ Fails /\ Goto(IF cmd.op = "restore" THEN "umount" ELSE "conntrack")
       \/ UNCHANGED labels /\ Fails /\ Raise
    /\ UNCHANGED <<tor, table, dropin, resolver, mounts, link, lock>>

\* apply_active_socket_slaughter only logs a failure; conntrack -F runs under a
\* timeout that is not caught.
Conntrack ==
    /\ pc = "conntrack"
    /\ \/ table' = InsertDrop(table) /\ Works /\ Goto("destroy")
       \/ UNCHANGED table /\ Fails /\ Goto("destroy")
       \/ table' = InsertDrop(table) /\ Fails /\ Raise
    /\ UNCHANGED <<tor, labels, dropin, resolver, mounts, link, lock>>

\* What follows destroy_rules. restore-only reads the lock only now.
AfterDestroy ==
    CASE cmd.op = "start" /\ cmd.backup = "none" -> End("failed")
      [] cmd.op = "restore" -> /\ pc' = IF lock = NoLock THEN "umount" ELSE "unlabel"
                               /\ cmd' = [cmd EXCEPT !.lock = lock] /\ UNCHANGED out
      [] OTHER -> Goto("umount")

\* Faulty variant: the lock is deleted only when everything before it worked.
DestroyUnguarded ==
    /\ pc = "destroy"
    /\ \/ table' = "none" /\ Works /\ AfterDestroy
       \/ table' \in {table, FlushRules(table), "none"} /\ Fails /\ RaiseLeaving(FromTable)
    /\ UNCHANGED <<tor, labels, dropin, resolver, mounts, link, lock>>

\* destroy_rules: flush, delete and the check that the table is gone. It raises
\* when the table remains or an nft command times out; do_stop then deletes the
\* lock in its finally clause and restores no DNS.
Destroy ==
    /\ pc = "destroy"
    /\ \/ table' = "none" /\ Works /\ AfterDestroy /\ UNCHANGED lock
       \/ /\ table' \in {table, FlushRules(table), "none"} /\ Fails /\ RaiseLeaving(FromTable)
          /\ lock' = IF cmd.op \in DoStop THEN NoLock ELSE lock
    /\ UNCHANGED <<tor, labels, dropin, resolver, mounts, link>>

\* The backup restore_dns is given, and what it derives without one.
BackupTarget ==
    IF cmd.op = "start" THEN cmd.target
    ELSE IF cmd.lock = NoLock THEN link ELSE cmd.lock.target

BackupResolved ==
    IF cmd.op = "start" THEN cmd.resolved ELSE cmd.lock # NoLock /\ cmd.lock.resolved

\* restore_dns, first part: one TTP layer is unmounted. A failed umount is
\* logged; one that times out leaves restore_dns, which do_stop survives.
Umount ==
    /\ pc = "umount"
    /\ LET t == BackupTarget
           one == IF mounts[t] > 0 THEN [mounts EXCEPT ![t] = @ - 1] ELSE mounts
       IN  \/ mounts' = one /\ Works /\ Goto("unresolve")
           \/ UNCHANGED mounts /\ Fails /\ pc' = "unresolve" /\ Leave({"overlay"}) /\ UNCHANGED out
           \/ /\ mounts' \in {mounts, one} /\ Fails
              /\ IF cmd.op \in DoStop THEN Goto("unlock") ELSE RaiseLeaving({"overlay", "resolver"})
    /\ UNCHANGED <<tor, labels, table, dropin, resolver, link, lock>>

\* restore_dns, second part.
Unresolve ==
    /\ pc = "unresolve"
    /\ IF BackupResolved THEN RestoreResolved ELSE UNCHANGED <<dropin, resolver>> /\ Works
    /\ Leave(IF faults' = faults THEN {} ELSE {"resolver"})
    /\ IF cmd.op = "start" THEN pc' = "idle" /\ out' = "failed" ELSE pc' = "unlock" /\ UNCHANGED out
    /\ UNCHANGED <<tor, labels, table, mounts, link, lock>>

\* delete_lock, last.
Unlock ==
    /\ pc = "unlock"
    /\ lock' = NoLock
    /\ End(CASE cmd.op = "stop" -> "stopped" [] cmd.op = "restore" -> "restored" [] OTHER -> "signalled")
    /\ UNCHANGED <<host, env>>

----------------------------------------------------------------------------
(* The environment *)

\* SIGKILL, or a signal a command other than start does not handle.
Kill ==
    /\ pc # "idle" /\ Hit("kill")
    /\ pc' = "idle" /\ out' = "killed"
    /\ UNCHANGED <<host, lock, cmd>>

\* Ctrl+C in ttp stop, which registers no handler: KeyboardInterrupt runs the
\* finally clause of do_stop.
Interrupt ==
    /\ cmd.op = "stop" /\ pc \in {"destroy", "umount", "unresolve"} /\ Hit("signal")
    /\ lock' = NoLock
    /\ End("broken")
    /\ UNCHANGED host

LoseLock ==
    /\ lock # NoLock /\ Hit("loss")
    /\ lock' = NoLock
    /\ UNCHANGED <<host, pc, cmd, out>>

\* Another network manager replaces the /etc/resolv.conf link.
Repoint ==
    /\ Hit("repoint")
    /\ link' \in Targets \ {link}
    /\ UNCHANGED <<tor, labels, table, dropin, resolver, mounts, lock, pc, cmd, out>>

\* The administrator stops or starts systemd-resolved.
Toggle ==
    /\ Hit("toggle")
    /\ resolver' = IF resolver = "off" THEN Loaded ELSE "off"
    /\ UNCHANGED <<tor, labels, table, dropin, mounts, link, lock, pc, cmd, out>>

\* Power loss: /run, the mounts and the kernel tables go, the SELinux policy
\* store stays.
Reboot ==
    /\ Hit("reboot")
    /\ tor' = "off" /\ table' = "none" /\ dropin' = FALSE /\ lock' = NoLock
    /\ mounts' = [t \in Targets |-> 0]
    /\ resolver' = IF resolver = "off" THEN "off" ELSE "host"
    /\ pc' = "idle" /\ out' = "rebooted"
    /\ UNCHANGED <<labels, link, cmd>>

----------------------------------------------------------------------------

StartStep ==
    \/ \E ext \in BOOLEAN : Start(ext)
    \/ EnsureTorReady \/ Label \/ StartTor \/ ApplyRules \/ DetectInterface \/ WriteDropin
    \/ RestartResolved \/ WriteOverlay \/ MountOverlay \/ UndoResolved \/ WriteLock \/ Supervise

StopStep ==
    \/ Stop \/ RestoreOnly \/ Lockdown \/ GracefulShutdown \/ StopTor \/ Unlabel \/ Conntrack \/ Destroy
    \/ Umount \/ Unresolve \/ Unlock

Environment == Signal \/ Kill \/ Interrupt \/ LoseLock \/ Repoint \/ Toggle \/ Reboot

Next == StartStep \/ StopStep \/ Environment

Spec == Init /\ [][Next]_vars

----------------------------------------------------------------------------
(* Properties *)

\* Residue of interrupted sessions is found again by where resolv.conf points and
\* what systemd-resolved does, so it is not promised to go when these changed too.
Traceable == seen \cap {"kill", "signal", "loss"} = {} \/ seen \cap {"repoint", "toggle"} = {}

\* A stop, a restore-only or a signal that found the session lock and whose
\* programs all worked leaves the network as it was before the session, and for
\* a managed session no Tor unit and no port label: whatever earlier commands
\* were killed, interrupted or lost their lock, or wherever resolv.conf has been
\* pointed since start (do_stop, stop_command, restore_dns, apply_dns's
\* stale-mount guard).
StopRestores ==
    /\ pc = "idle" /\ out \in {"stopped", "restored", "signalled"} /\ cmd.lock # NoLock
    /\ "fail" \notin seen /\ Traceable
    => NetworkRestored /\ lock = NoLock /\ (cmd.external \/ (tor = "off" /\ ~labels))

\* However often the programs of start and of its clean-up fail, a start that fails
\* leaves nothing on the host but what it has found there and
\*   - a part whose removal itself failed, and what would have been removed behind a
\*     clean-up step that raised;
\*   - the table and Tor, when the roll-back of apply_rules or the search for the
\*     interface raised past the except clauses of start_command;
\*   - the overlay, when mount timed out after it had mounted;
\*   - the lock, when only the stop marker behind it could not be removed.
\* Each is excused alone: a mount that timed out excuses no drop-in, table or Tor
\* (start_command, apply_dns, apply_resolved).
FailedStartIsClean == pc = "idle" /\ out = "failed" => Residue \subseteq cmd.left

\* However a do_stop ends, it does not leave the lock of a session whose table
\* it removed: either teardown broke off behind the table, and stop can be
\* repeated, or the lock is gone (the finally clause of do_stop).
LockGoesWithTable ==
    pc = "idle" /\ cmd.op \in DoStop /\ cmd.held /\ out \in {"stopped", "signalled", "broken"} /\ table = "none"
        => lock = NoLock

\* While the session is recorded, its managed Tor is only ever taken down behind
\* rules that let nothing out, and by do_stop only behind the teardown lockdown
\* (do_stop, stop_command, graceful_shutdown).
TorLeavesBehindRules ==
    [][ tor = "on" /\ tor' # "on" /\ lock # NoLock /\ ~lock.external
            /\ "fail" \notin seen /\ out' # "rebooted"
            => ~Cleartext(table) /\ (cmd.op \in DoStop => table = "lockdown") ]_vars

----------------------------------------------------------------------------
(* The inductive invariant *)

\* A start before its lock, and a teardown once its table is gone.
Unrecorded == {"detect", "label", "unit", "rules", "route", "resolved", "reload", "overlay", "mount", "undo",
               "record"}
Behind     == {"umount", "unresolve", "unlock"}
Quiet      == "fail" \notin seen

\* Which command is where, and whose lock it has in its hands.
PlaceInv ==
    /\ cmd.op = "start" => cmd.lock = NoLock /\ pc \notin {"lockdown", "shutdown", "unlabel", "conntrack", "unlock"}
    /\ pc \in Unrecorded => lock = NoLock
    /\ pc \in Unrecorded \cup {"supervise"} => cmd.op = "start"
    /\ Quiet /\ cmd.op = "start" => pc \notin {"undo", "tor", "destroy", "umount", "unresolve"}
    /\ cmd.op \in DoStop /\ pc # "idle" => cmd.lock # NoLock /\ cmd.external = cmd.lock.external
    /\ pc # "idle" /\ (cmd.op \in DoStop \/ (cmd.op = "restore" /\ pc \in {"unlabel"} \cup Behind))
            => lock \in {NoLock, cmd.lock}
    /\ cmd.op = "restore" => ~cmd.external
    /\ cmd.op = "none" => pc = "idle"
    /\ cmd.op = "start" /\ pc \in {"detect", "label", "unit", "tor"} => ~cmd.external

\* A layer more than the faults so far could leave is never mounted.
LayersInv ==
    /\ \A t \in Targets : mounts[t] <= faults + 1
    /\ pc = "mount" => mounts[cmd.target] <= faults

\* A do_stop that found a table keeps one until destroy_rules.
HeldInv ==
    cmd.op \in DoStop /\ cmd.held /\ pc \in {"lockdown", "shutdown", "tor", "unlabel", "conntrack", "destroy"}
        => table # "none"

\* A recorded managed Tor that runs has its rules, and the lockdown during do_stop.
Running == tor = "on" /\ lock # NoLock /\ ~lock.external

RulesInv ==
    Quiet =>
        /\ pc \in {"route", "resolved", "reload", "overlay", "mount", "record"} => table = "redirect"
        /\ Running => table \in {"redirect", "lockdown"}
        /\ Running /\ cmd.op # "start" => pc \notin {"unlabel", "conntrack", "destroy"} \cup Behind
        /\ Running /\ cmd.op \in DoStop /\ pc \in {"shutdown", "tor"} => table = "lockdown"

\* The DNS changes on the host are at most the ones restore_dns takes away when it
\* is given this target and this answer.
DnsClean   == ~dropin /\ resolver # "tor"
Layers(t)  == \A u \in Targets : mounts[u] <= IF u = t THEN 1 ELSE 0
Unmounted  == \A u \in Targets : mounts[u] = 0
Takes(t, r) == Layers(t) /\ (DnsClean \/ r)

\* Of each part that a start still answers for, it has put up at most what its
\* clean-up will remove.
CleanInv ==
    cmd.op = "start" /\ pc \notin {"idle", "supervise"} =>
        /\ "lock" \notin cmd.left => lock = NoLock
        /\ cmd.external \/ pc \in {"detect", "label", "unit", "destroy", "umount", "unresolve"}
              => "tor" \in cmd.left \/ tor # "on"
        /\ pc \in {"detect", "label", "unit", "rules", "umount", "unresolve"}
              => "table" \in cmd.left \/ table = "none"
        /\ "resolver" \notin cmd.left =>
              /\ pc \in {"detect", "label", "unit", "rules", "route", "resolved"} => DnsClean
              /\ pc \in {"tor", "destroy"} /\ cmd.backup = "none" => DnsClean
              /\ pc # "reload" => DnsClean \/ cmd.resolved
        /\ "overlay" \notin cmd.left =>
              /\ cmd.backup = "none" \/ pc = "unresolve" => Unmounted
              /\ Layers(cmd.target)
        /\ pc \in Unrecorded \ {"record"} => cmd.backup = "none"
        /\ pc \in {"record", "umount", "unresolve"} => cmd.backup = "dns"

\* Without an interrupted command a session that is not recorded has left nothing,
\* and a recorded one what its lock says.
UncutInv ==
    Quiet /\ seen \cap {"kill", "signal", "loss"} = {} =>
        /\ lock # NoLock => Takes(lock.target, lock.resolved)
        /\ lock = NoLock /\ pc \notin Unrecorded => NetworkRestored
        /\ pc \in {"detect", "label", "unit", "rules"} => NetworkRestored
        /\ pc \in Unrecorded \ {"record"} => Unmounted
        /\ pc \in {"route", "resolved"} => DnsClean
        /\ pc \in {"overlay", "mount", "record"} => DnsClean \/ cmd.resolved
        /\ pc = "record" => Layers(cmd.target)
        /\ cmd.op # "start" /\ pc # "idle" => lock = cmd.lock

\* As long as resolv.conf and systemd-resolved stay as they are, what any command
\* has left is where the next one looks.
FixedInv ==
    Quiet /\ seen \cap {"repoint", "toggle"} = {} =>
        /\ Layers(link)
        /\ resolver = "off" => ~dropin
        /\ \A l \in {lock, cmd.lock} \ {NoLock} :
              l = lock \/ pc # "idle" => l.target = link /\ (resolver = "off" \/ l.resolved)
        /\ pc \in {"overlay", "mount", "record"} => resolver = "off" \/ cmd.resolved
        /\ pc = "reload" => resolver # "off"
        /\ pc \in {"mount", "record"} => cmd.target = link
        /\ pc = "mount" => mounts[link] = 0

\* How far a teardown has come.
TeardownInv ==
    cmd.op # "start" =>
        /\ pc \in Behind \/ (pc = "unlabel" /\ cmd.op = "restore") => table = "none"
        /\ Quiet /\ ~cmd.external /\ pc \in {"unlabel", "conntrack", "destroy"} \cup Behind => tor = "off"
        /\ Quiet /\ cmd.op \in DoStop /\ ~cmd.external /\ pc \in {"conntrack", "destroy"} \cup Behind => ~labels
        /\ Quiet /\ cmd.op = "restore" /\ cmd.lock # NoLock /\ pc \in Behind => ~labels
        /\ Quiet /\ Traceable /\ cmd.lock # NoLock /\ pc \in {"unresolve", "unlock"} => Unmounted
        /\ Quiet /\ Traceable /\ cmd.lock # NoLock /\ pc = "unlock" => DnsClean

LifecycleInv ==
    /\ TypeOK /\ PlaceInv /\ LayersInv /\ HeldInv /\ RulesInv /\ CleanInv
    /\ UncutInv /\ FixedInv /\ TeardownInv
    /\ StopRestores /\ FailedStartIsClean /\ LockGoesWithTable

----------------------------------------------------------------------------
(* Statements of the documentation that the code does not keep *)

\* restore-only restores the network when the lock was lost (stop_command: works
\* after lost session intent).
RestoreOnlyRestores == pc = "idle" /\ out = "restored" /\ "fail" \notin seen => NetworkRestored

\* Ctrl+C during ttp start restores the network (signal_handler).
SignalRestores == pc = "idle" /\ out = "signalled" /\ "fail" \notin seen => NetworkRestored

\* After a kill -9 the next start recovers the recorded session instead of
\* refusing (check_session_state).
KillIsRecovered == [][ out = "killed" /\ lock # NoLock => out' # "refused" ]_vars

\* A reboot leaves no residue of a session (label_ports_selinux).
RebootLeavesNothing == out = "rebooted" /\ pc = "idle" => Residue = {} /\ ~labels

\* A start that fails leaves the network restored to cleartext, here after a single
\* failing program, so that its clean-up works (0011-start-exit-codes.md).
OneFailureIsUndone == pc = "idle" /\ out = "failed" /\ faults = 1 => Residue = {}

================================================================================
