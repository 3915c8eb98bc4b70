------------------------------- MODULE Supervisor -------------------------------
(***************************************************************************)
(* The required watchdog: the supervisor loop of watchdog/supervisor.py,   *)
(* its systemd unit with the independent termination handler, and the two  *)
(* commands that act on what it publishes, start_watchdog and ttp check.   *)
(*                                                                         *)
(* The network state it watches is changed behind its back: dns is the     *)
(* resolv.conf overlay, table the nftables table, tor the daemon. Kernel   *)
(* events wait in two queues, netlink and inotify, until they are drained. *)
(*                                                                         *)
(* One session is supervised. request_emergency is one step here; module   *)
(* SessionSafety has its interleavings with ttp stop.                      *)
(***************************************************************************)
EXTENDS Naturals

CONSTANTS
    MaxChanges,       \* bound on what goes wrong behind the supervisor's back
    StartLimitBurst   \* starts of the unit after which systemd gives up

ASSUME SupervisorBounds == MaxChanges \in Nat \ {0} /\ StartLimitBurst \in Nat \ {0}

VARIABLES
    intent,     \* the session lock: running, stopping, gone or corrupt
    stopped,    \* the explicit-stop marker names the session
    latch,      \* the emergency record: absent, latched or invalid
    printed,    \* the lock records the fingerprint of the applied table
    dns, table, tor,
    netlink,    \* an nftables event is queued
    inotify,    \* kinds of queued inotify events: "change", "gone"
    watch,      \* the inotify watches are established
    unit,       \* ActiveState of ttp-watchdog.service
    clean,      \* the main process ended with exit code 0
    starts,     \* starts of the unit; also the invocation's identity
    pc,         \* where the supervisor process is
    due,        \* check_interval has passed since last_check
    recovering, \* this evaluation follows a restart of Tor
    readable,   \* the descriptors select returned
    record,     \* the published watchdog observation
    command,    \* where start_watchdog or ttp check is
    report,     \* the worst result request_emergency has reported
    changes

netw    == <<dns, table, tor>>
queues  == <<netlink, inotify, watch>>
service == <<unit, clean, starts>>
loop    == <<due, recovering, readable>>
vars    == <<printed, intent, stopped, latch, dns, table, tor, netlink, inotify, watch, unit, clean, starts,
             pc, due, recovering, readable, record, command, report, changes>>

\* Tables: the applied one, the applied one with a leak counter that has risen,
\* one with other rules, none, and the killswitch.
TableStates == {"session", "counted", "altered", "missing", "emergency"}

Records == [value : {"none", "unknown", "healthy", "emergency"},
            completed : BOOLEAN, instance : 0 .. StartLimitBurst, aged : BOOLEAN]

FlagsTyped ==
    /\ stopped \in BOOLEAN
    /\ printed \in BOOLEAN
    /\ netlink \in BOOLEAN
    /\ watch \in BOOLEAN
    /\ clean \in BOOLEAN
    /\ due \in BOOLEAN
    /\ recovering \in BOOLEAN

TypeOK ==
    /\ FlagsTyped
    /\ intent \in {"running", "stopping", "gone", "corrupt"}
    /\ latch \in {"absent", "latched", "invalid"}
    /\ dns \in {"intact", "altered"}
    /\ table \in TableStates
    /\ tor \in {"up", "down"}
    /\ inotify \subseteq {"change", "gone"}
    /\ unit \in {"inactive", "activating", "active", "deactivating", "restarting", "failed"}
    /\ starts \in 0 .. StartLimitBurst
    /\ pc \in {"off", "boot", "init", "top", "latch", "dns", "firewall", "tor", "heal", "passed",
               "contain", "beat", "select", "read", "drain", "fail"}
    /\ readable \subseteq {"netlink", "inotify"}
    /\ record \in Records
    /\ command \in {"none", "starting", "ready", "started", "checking", "start_failed", "unavailable"}
    /\ report \in {"none", "verified", "unconfirmed"}
    /\ changes \in 0 .. MaxChanges

\* A session whose rules and overlay are in place, with supervision requested. Its
\* fingerprint may not have been readable when the rules were applied, which counts
\* as one of the changes.
Init ==
    /\ printed \in BOOLEAN /\ changes = IF printed THEN 0 ELSE 1
    /\ intent = "running" /\ stopped = FALSE /\ latch = "absent"
    /\ dns = "intact" /\ table = "session" /\ tor = "up"
    /\ netlink = FALSE /\ inotify = {} /\ watch = FALSE
    /\ unit = "inactive" /\ clean = TRUE /\ starts = 0
    /\ pc = "off" /\ due = TRUE /\ recovering = FALSE /\ readable = {}
    /\ record = [value |-> "none", completed |-> FALSE, instance |-> 0, aged |-> FALSE]
    /\ command = "none" /\ report = "none"

Goto(from, to) == pc = from /\ pc' = to

\* store.write("watchdog", ...); observed_at is set only for a completed one.
Publish(value, completed) ==
    record' = [value |-> value, completed |-> completed, instance |-> starts, aged |-> FALSE]

Subscribed == pc \notin {"off", "boot", "init"}

\* The netlink group delivers every change of the table.
NotifyNetlink == netlink' = (netlink \/ (Subscribed /\ table' # table))

--------------------------------------------------------------------------------
(* request_emergency *)

\* Explicit termination and a lock that is gone make it a no-op, a corrupt lock
\* a failure; only the termination handler goes on without a lock.
RequestEmergency(despite) ==
    \/ /\ stopped \/ intent = "stopping" \/ (intent = "gone" /\ ~despite)
       /\ UNCHANGED <<latch, table, report>>
    \/ /\ ~stopped /\ intent = "corrupt" /\ ~despite
       /\ report' = "unconfirmed"
       /\ UNCHANGED <<latch, table>>
    \/ /\ ~stopped
       /\ intent = "running" \/ (intent \in {"gone", "corrupt"} /\ despite)
       /\ latch' \in {latch, "latched"}
       /\ table' \in {table, "emergency"}
       /\ report' = IF latch' = "latched" /\ table' = "emergency" /\ report # "unconfirmed"
                    THEN "verified" ELSE "unconfirmed"

--------------------------------------------------------------------------------
(* run_supervisor *)

\* The main process ends; systemd will run ExecStopPost.
Exit(ok) ==
    /\ pc' = "off"
    /\ unit' = "deactivating"
    /\ clean' = ok
    /\ netlink' = FALSE /\ inotify' = {} /\ watch' = FALSE
    /\ due' = TRUE /\ recovering' = FALSE /\ readable' = {}
    /\ UNCHANGED starts

\* Until the try block the process has no session to contain.
Boot ==
    /\ pc = "boot"
    /\ \/ /\ intent = "running"
          /\ pc' = "init"
          /\ Publish("unknown", FALSE)
          /\ UNCHANGED <<queues, service, loop>>
       \/ /\ intent # "running"
          /\ Exit(intent # "corrupt")
          /\ UNCHANGED record
    /\ UNCHANGED <<intent, stopped, latch, netw, command, report, changes>>

\* fsm.initialize: netlink socket, inotify descriptor and both watches, or failure.
Initialize ==
    /\ \/ Goto("init", "top") /\ watch' = TRUE
       \/ Goto("init", "fail") /\ UNCHANGED watch
    /\ UNCHANGED <<intent, stopped, latch, netw, netlink, inotify, service, loop, record, command, report, changes>>

\* The head of the loop: the session may be over.
ReadLock ==
    /\ pc = "top"
    /\ \/ intent = "running" /\ pc' = "latch" /\ UNCHANGED <<queues, service, loop>>
       \/ intent = "corrupt" /\ pc' = "fail" /\ UNCHANGED <<queues, service, loop>>
       \/ intent \in {"stopping", "gone"} /\ Exit(TRUE)
    /\ UNCHANGED <<intent, stopped, latch, netw, record, command, report, changes>>

\* A latched emergency is held instead of evaluated; unreadable evidence counts
\* as latched.
ReadLatch ==
    /\ \/ latch # "absent" /\ Goto("latch", "contain") /\ UNCHANGED record
       \/ latch = "absent" /\ due /\ Goto("latch", "dns") /\ Publish("unknown", FALSE)
       \/ latch = "absent" /\ ~due /\ Goto("latch", "beat") /\ UNCHANGED record
    /\ UNCHANGED <<intent, stopped, latch, netw, queues, service, loop, command, report, changes>>

\* check_system_integrity, in its order: the overlay, the table with its
\* fingerprint and leak counters, then Tor.
CheckDns ==
    /\ Goto("dns", IF dns = "intact" THEN "firewall" ELSE "contain")
    /\ UNCHANGED <<intent, stopped, latch, netw, queues, service, loop, record, command, report, changes>>

\* Faulty variant: the chain names alone are compared (#80).
CheckFirewallByName ==
    /\ Goto("firewall", IF table # "missing" THEN "tor" ELSE "contain")
    /\ UNCHANGED <<intent, stopped, latch, netw, queues, service, loop, record, command, report, changes>>

\* Without a recorded fingerprint only a table without its chains, or without the
\* rule of a bypass, is told from the applied one.
CheckFirewall ==
    /\ \/ table = "session" /\ Goto("firewall", "tor")
       \/ table \in {"altered", "emergency"} /\ ~printed /\ Goto("firewall", "tor")
       \/ table # "session" /\ Goto("firewall", "contain")
    /\ UNCHANGED <<intent, stopped, latch, netw, queues, service, loop, record, command, report, changes>>

\* Only Tor is healed, and only once per evaluation.
CheckTor ==
    /\ \/ tor = "up" /\ Goto("tor", "passed") /\ UNCHANGED record
       \/ tor = "down" /\ ~recovering /\ Goto("tor", "heal") /\ Publish("unknown", FALSE)
       \/ tor = "down" /\ recovering /\ Goto("tor", "contain") /\ UNCHANGED record
    /\ UNCHANGED <<intent, stopped, latch, netw, queues, service, loop, command, report, changes>>

\* attempt_auto_healing("tor"): systemctl restart, then a fresh evaluation. The
\* restarted daemon need not answer.
Heal ==
    /\ \/ Goto("heal", "dns") /\ recovering' = TRUE /\ tor' \in {"up", "down"}
       \/ Goto("heal", "contain") /\ UNCHANGED <<recovering, tor>>
    /\ UNCHANGED <<intent, stopped, latch, dns, table, queues, service, due, readable, record,
                   command, report, changes>>

\* bounded_check: SIGALRM raises CheckDeadline anywhere in a check or healing.
Deadline ==
    /\ \E at \in {"dns", "firewall", "tor", "heal"} : Goto(at, "contain")
    /\ UNCHANGED <<intent, stopped, latch, netw, queues, service, loop, record, command, report, changes>>

Passed ==
    /\ Goto("passed", "beat")
    /\ Publish("healthy", TRUE)
    /\ due' = FALSE /\ recovering' = FALSE
    /\ UNCHANGED <<intent, stopped, latch, netw, queues, service, readable, command, report, changes>>

\* Faulty variant: the observation alone is published.
ContainUnlatched ==
    /\ Goto("contain", "beat")
    /\ Publish("emergency", TRUE)
    /\ due' = FALSE /\ recovering' = FALSE
    /\ UNCHANGED <<intent, stopped, latch, netw, queues, service, readable, command, report, changes>>

\* contain(cause): the observation says emergency whatever the result was.
Contain ==
    /\ Goto("contain", "beat")
    /\ RequestEmergency(FALSE)
    /\ NotifyNetlink
    /\ Publish("emergency", TRUE)
    /\ due' = FALSE /\ recovering' = FALSE
    /\ UNCHANGED <<intent, stopped, dns, tor, inotify, watch, service, readable, command, changes>>

\* The record is rewritten and systemd told: READY=1 the first time.
Beat ==
    /\ Goto("beat", "select")
    /\ unit' = "active"
    /\ UNCHANGED <<intent, stopped, latch, netw, queues, clean, starts, loop, record, command, report, changes>>

\* Faulty variant: the previous observation stands while the queues are drained.
WakeUnpublished ==
    /\ pc = "select"
    /\ netlink \/ inotify # {}
    /\ readable' = (IF netlink THEN {"netlink"} ELSE {}) \cup (IF inotify # {} THEN {"inotify"} ELSE {})
    /\ pc' = IF inotify # {} THEN "read" ELSE "drain"
    /\ UNCHANGED <<intent, stopped, latch, netw, queues, service, due, recovering, record, command, report, changes>>

\* select returns with events: the observation is invalidated first of all.
Wake ==
    /\ pc = "select"
    /\ netlink \/ inotify # {}
    /\ readable' = (IF netlink THEN {"netlink"} ELSE {}) \cup (IF inotify # {} THEN {"inotify"} ELSE {})
    /\ Publish("unknown", FALSE)
    /\ pc' = IF inotify # {} THEN "read" ELSE "drain"
    /\ UNCHANGED <<intent, stopped, latch, netw, queues, service, due, recovering, command, report, changes>>

\* select times out.
Timeout ==
    /\ Goto("select", "top")
    /\ UNCHANGED <<intent, stopped, latch, netw, queues, service, loop, record, command, report, changes>>

\* One read of the inotify queue decides whether a watched file is gone; then
\* both watches are set again or the supervisor fails.
ReadInotify ==
    /\ pc = "read"
    /\ inotify' = {}
    /\ \/ "gone" \notin inotify /\ pc' = "drain" /\ UNCHANGED watch
       \/ "gone" \in inotify /\ pc' = "drain" /\ watch' = TRUE
       \/ "gone" \in inotify /\ pc' = "fail" /\ UNCHANGED watch
    /\ UNCHANGED <<intent, stopped, latch, netw, netlink, service, loop, record, command, report, changes>>

\* Faulty variant: the next evaluation is left to the interval.
DrainUnscheduled ==
    /\ Goto("drain", "top")
    /\ netlink' = (netlink /\ "netlink" \notin readable)
    /\ inotify' = IF "inotify" \in readable THEN {} ELSE inotify
    /\ readable' = {}
    /\ UNCHANGED <<intent, stopped, latch, netw, watch, service, due, recovering, record, command, report, changes>>

\* flush_event_buffers(readable), then an evaluation at once.
Drain ==
    /\ Goto("drain", "top")
    /\ netlink' = (netlink /\ "netlink" \notin readable)
    /\ inotify' = IF "inotify" \in readable THEN {} ELSE inotify
    /\ readable' = {}
    /\ due' = TRUE
    /\ UNCHANGED <<intent, stopped, latch, netw, watch, service, recovering, record, command, report, changes>>

\* Any exception of the loop, a record that cannot be written or a notification
\* socket that does not answer among them.
Raise ==
    /\ Subscribed /\ pc # "fail"
    /\ pc' = "fail"
    /\ UNCHANGED <<intent, stopped, latch, netw, queues, service, loop, record, command, report, changes>>

\* except Exception: contain, then exit with a failure.
Fail ==
    /\ pc = "fail"
    /\ RequestEmergency(FALSE)
    /\ Exit(FALSE)
    /\ UNCHANGED <<intent, stopped, dns, tor, record, command, changes>>

--------------------------------------------------------------------------------
(* systemd *)

\* The process is killed: SIGKILL, SIGTERM, the readiness or the service timeout.
Kill ==
    /\ pc # "off"
    /\ Exit(FALSE)
    /\ UNCHANGED <<intent, stopped, latch, netw, record, command, report, changes>>

\* Faulty variant: a session without a lock has nothing left to contain.
TerminatedTrusting ==
    /\ unit = "deactivating"
    /\ RequestEmergency(FALSE)
    /\ unit' = IF clean THEN "inactive" ELSE IF starts < StartLimitBurst THEN "restarting" ELSE "failed"
    /\ UNCHANGED <<intent, stopped, dns, tor, queues, clean, starts, pc, loop, record, command, changes>>

\* ExecStopPost, then Restart=on-failure within the start limit. Each request is
\* bounded and TimeoutStopSec covers it.
Terminated ==
    /\ unit = "deactivating"
    /\ RequestEmergency(TRUE)
    /\ unit' = IF clean THEN "inactive" ELSE IF starts < StartLimitBurst THEN "restarting" ELSE "failed"
    /\ UNCHANGED <<intent, stopped, dns, tor, queues, clean, starts, pc, loop, record, command, changes>>

\* A stop removes the unit; otherwise RestartSec passes.
Restart ==
    /\ unit = "restarting"
    /\ \/ ~stopped /\ unit' = "activating" /\ pc' = "boot" /\ starts' = starts + 1
       \/ stopped /\ unit' = "inactive" /\ UNCHANGED <<pc, starts>>
    /\ UNCHANGED <<intent, stopped, latch, netw, queues, clean, loop, record, command, report, changes>>

--------------------------------------------------------------------------------
(* Commands *)

\* watchdog_observation: the value, if it is of this invocation of an active unit,
\* completed and not too old.
WatchdogObservation ==
    IF intent \in {"running", "stopping"} /\ unit = "active" /\ record.instance = starts
       /\ record.completed /\ ~record.aged
    THEN record.value ELSE "unknown"

\* start_watchdog, up to systemctl start.
StartWatchdog ==
    /\ command = "none" /\ starts = 0 /\ intent = "running"
    /\ command' = "starting"
    /\ unit' = "activating" /\ pc' = "boot" /\ starts' = starts + 1
    /\ UNCHANGED <<intent, stopped, latch, netw, queues, clean, loop, record, report, changes>>

\* systemctl start returns at READY=1, or with an error.
StartReturns ==
    /\ command = "starting"
    /\ command' = IF unit = "active" THEN "ready" ELSE "start_failed"
    /\ UNCHANGED <<intent, stopped, latch, netw, queues, service, pc, loop, record, report, changes>>

StartObserves ==
    /\ command = "ready"
    /\ command' = IF WatchdogObservation = "healthy" /\ latch = "absent" THEN "started" ELSE "start_failed"
    /\ UNCHANGED <<intent, stopped, latch, netw, queues, service, pc, loop, record, report, changes>>

\* ttp check: a latched session is only reported.
CheckSession ==
    /\ command = "started" /\ intent = "running" /\ latch = "absent"
    /\ command' = "checking"
    /\ UNCHANGED <<intent, stopped, latch, netw, queues, service, pc, loop, record, report, changes>>

CheckObserves ==
    /\ command = "checking"
    /\ command' = IF WatchdogObservation \in {"healthy", "emergency"} THEN "started" ELSE "unavailable"
    /\ UNCHANGED <<intent, stopped, latch, netw, queues, service, pc, loop, record, report, changes>>

\* request_emergency for watchdog.start_failed or watchdog.unavailable.
CommandRequests ==
    /\ command \in {"start_failed", "unavailable"}
    /\ RequestEmergency(FALSE)
    /\ NotifyNetlink
    /\ command' = "started"
    /\ UNCHANGED <<intent, stopped, dns, tor, inotify, watch, service, pc, loop, record, changes>>

\* ttp stop: the marker, systemctl stop, and the end of the session.
StopSession ==
    /\ intent = "running"
    /\ intent' = "stopping" /\ stopped' = TRUE
    /\ UNCHANGED <<latch, netw, queues, service, pc, loop, record, command, report, changes>>

StopUnit ==
    /\ stopped /\ pc # "off"
    /\ Exit(TRUE)
    /\ UNCHANGED <<intent, stopped, latch, netw, record, command, report, changes>>

StopTeardown ==
    /\ intent = "stopping" /\ unit \notin {"activating", "active", "deactivating"}
    /\ intent' = "gone"
    /\ table' = "missing" /\ dns' = "altered"
    /\ UNCHANGED <<stopped, latch, tor, queues, service, pc, loop, record, command, report, changes>>

--------------------------------------------------------------------------------
(* The environment *)

\* Rules or table are changed by another program.
AlterTable ==
    /\ table' \in {"altered", "missing"} \ {table}
    /\ NotifyNetlink
    /\ UNCHANGED <<dns, tor, inotify, watch, latch, intent>>

\* A watched file is written, or replaced, with or without harm.
TouchDns ==
    /\ watch
    /\ dns' \in {dns, "altered"}
    /\ \/ inotify' = inotify \cup {"change"} /\ UNCHANGED watch
       \/ inotify' = inotify \cup {"gone"} /\ watch' = FALSE
    /\ UNCHANGED <<table, tor, netlink, latch, intent>>

\* What no queue reports: the overlay is unmounted, a leak counter rises, Tor
\* stops, the lock or the evidence is lost.
SilentChange ==
    /\ \/ dns' = "altered" /\ UNCHANGED <<table, tor, latch, intent>>
       \/ table = "session" /\ table' = "counted" /\ UNCHANGED <<dns, tor, latch, intent>>
       \/ tor' = "down" /\ UNCHANGED <<dns, table, latch, intent>>
       \/ latch' = "invalid" /\ UNCHANGED <<dns, table, tor, intent>>
       \/ intent' \in {"gone", "corrupt"} /\ UNCHANGED <<dns, table, tor, latch>>
    /\ UNCHANGED queues

Change ==
    /\ changes < MaxChanges /\ intent = "running"
    /\ changes' = changes + 1
    /\ AlterTable \/ TouchDns \/ SilentChange
    /\ UNCHANGED <<stopped, service, pc, loop, record, command, report>>

\* Time passes: the next evaluation falls due; a completed observation grows old.
Tick ==
    /\ ~due
    /\ due' = TRUE
    /\ UNCHANGED <<intent, stopped, latch, netw, queues, service, pc, recovering, readable, record,
                   command, report, changes>>

Age ==
    /\ record.completed /\ ~record.aged
    /\ record' = [record EXCEPT !.aged = TRUE]
    /\ UNCHANGED <<intent, stopped, latch, netw, queues, service, pc, loop, command, report, changes>>

--------------------------------------------------------------------------------
SupervisorStep ==
    \/ Boot \/ Initialize \/ ReadLock \/ ReadLatch
    \/ CheckDns \/ CheckFirewall \/ CheckTor \/ Heal \/ Deadline \/ Passed \/ Contain
    \/ Beat \/ Wake \/ Timeout \/ ReadInotify \/ Drain \/ Raise \/ Fail

CommandStep ==
    \/ StartWatchdog \/ StartReturns \/ StartObserves
    \/ CheckSession \/ CheckObserves \/ CommandRequests
    \/ StopSession \/ StopUnit \/ StopTeardown

SystemdStep == Kill \/ Terminated \/ Restart

Next ==
    /\ SupervisorStep \/ CommandStep \/ SystemdStep \/ Change \/ Tick \/ Age
    /\ UNCHANGED printed

Spec == Init /\ [][Next]_vars

\* The process is scheduled and every operation of it is bounded; select returns
\* at once when a descriptor is readable and at the latest after
\* heartbeat_interval; the clock runs; systemd runs ExecStopPost and restarts.
FairSpec ==
    /\ Spec
    /\ WF_vars(SupervisorStep /\ UNCHANGED printed)
    /\ WF_vars(Wake /\ UNCHANGED printed)
    /\ WF_vars(Tick /\ UNCHANGED printed)
    /\ WF_vars(Terminated /\ UNCHANGED printed)
    /\ WF_vars(Restart /\ UNCHANGED printed)

--------------------------------------------------------------------------------
(* Properties *)

\* "Events invalidate observations immediately": whenever watchdog_observation
\* would answer healthy although the checks would no longer accept the table, the
\* event that will invalidate the answer is still queued; no step of the loop
\* consumes it without publishing "unknown" first and evaluating again afterwards.
Differs == table = "missing" \/ (table \in {"altered", "emergency"} /\ printed)

EventsAreNotLost == WatchdogObservation = "healthy" /\ Differs => netlink

\* An observation that was invalidated, or never completed, is evaluated again
\* before the supervisor sleeps: READY and every heartbeat stand for a completed
\* evaluation or a held emergency of this invocation.
NeverSleepsUnevaluated ==
    pc = "select" => record.completed /\ record.instance = starts

\* A required supervisor never ends silently: when the termination handler of an
\* invocation has run, the session is latched, containment is reported as
\* unconfirmed, or the session was explicitly stopped - lost and corrupt locks
\* included.
NoSilentEnd ==
    starts > 0 /\ unit \in {"inactive", "restarting", "failed"} =>
        latch = "latched" \/ report = "unconfirmed" \/ stopped \/ latch = "invalid"

\* While systemd has not given the unit up, whatever fault the checks look for
\* (other rules only if the lock has the fingerprint), whenever it appears, is eventually contained, reported as not
\* contained, healed, or the session is over: events, the interval, the deadline,
\* the restarts and the handler leave no way around it.
Faulty    == dns = "altered" \/ tor = "down"
             \/ table \in {"counted", "missing"} \/ (table = "altered" /\ printed)
Contained == latch = "latched" /\ table = "emergency"

FaultsAreContained ==
    unit \notin {"inactive", "failed"} /\ Faulty ~> Contained \/ report = "unconfirmed" \/ stopped \/ ~Faulty

\* An emergency is held: a killswitch that is removed while the session is
\* supervised comes back, or its absence is reported.
EmergencyIsHeld ==
    latch = "latched" /\ table # "emergency" /\ unit = "active" ~>
        table = "emergency" \/ report = "unconfirmed" \/ stopped

--------------------------------------------------------------------------------
(* The inductive invariant *)

\* The process and its unit agree, a start that is still owed is within the limit,
\* and an intent to stop is never without its marker.
UnitInv ==
    /\ pc # "off" <=> unit \in {"activating", "active"}
    /\ pc \in {"boot", "init"} => unit = "activating"
    /\ starts = 0 => unit = "inactive"
    /\ unit = "restarting" => starts < StartLimitBurst
    /\ intent = "stopping" => stopped

\* The loop reaches its heartbeat with a completed observation of this invocation,
\* or with an evaluation due; while it evaluates or drains, nothing is on record.
Evaluated == record.completed /\ record.instance = starts

LoopInv ==
    /\ pc \in {"off", "boot", "init"} => due
    /\ pc \in {"beat", "select"} => Evaluated
    /\ pc \in {"top", "latch"} => due \/ Evaluated
    /\ pc \in {"init", "dns", "firewall", "tor", "heal", "passed", "read", "drain"} => ~record.completed

\* Once the table has passed its check, and as long as the observation made from it
\* is on record, every later change of the table is still queued.
TableInv ==
    /\ pc \in {"tor", "passed"} /\ Differs => netlink
    /\ Subscribed /\ Evaluated /\ record.value = "healthy" /\ Differs => netlink

SupervisorInv == TypeOK /\ UnitInv /\ LoopInv /\ TableInv /\ NoSilentEnd

--------------------------------------------------------------------------------
(* Statements of the documentation that the code does not keep *)

\* ADR 0013: "Expired observations are unknown, never automatically healthy or
\* failed." ttp check takes a session for unsupervised only if something is wrong
\* with it or with its supervisor, if only that it has not evaluated for long.
CheckStep ==
    command = "checking" /\ command' = "unavailable" =>
        \/ Faulty \/ report # "none" \/ intent # "running"
        \/ unit # "active" \/ record.aged

UnknownIsNotFailed == [][CheckStep]_vars

\* integrity.py: "The table must be the one this session applied, rule for rule
\* (#80)." A session whose lock has no fingerprint passes with other rules.
RuleForRule == [][pc = "firewall" /\ pc' = "tor" => table = "session"]_vars

\* supervisor.py: "DNS event subscription was lost" ends the supervisor; it never
\* goes back to sleep without its watches.
SleepsWatched == pc = "select" => watch \/ "gone" \in inotify
================================================================================
