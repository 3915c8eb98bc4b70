# A formal model of TransparentTorProxy

TLA+ modules for the parts of TTP whose correctness depends on order, failure and
concurrency; the TLC runs that check them on small instances; and machine-checked
proofs (TLAPS) of their safety properties for every value of the constants. Paths below are
relative to the repository's `src/` unless they name a `.tla` or `.cfg` file.

## 1. The system

TTP routes a host's traffic through Tor. `ttp start` brings up a managed Tor, one
nftables table (`inet ttp`), a systemd-resolved drop-in and a bind mount over
`resolv.conf`, and records the session in `/run/ttp/ttp.lock`. `ttp stop` takes it
all down. In between, a supervisor checks that everything is still in place, and
when it is not, an *emergency* replaces the table by a killswitch until the
administrator stops the session. There is no daemon that owns the state: commands,
the supervisor and systemd's termination handler are independent root processes
that share files and one kernel table.

| Component | State it keeps | Operations | Hard because |
| --- | --- | --- | --- |
| Session safety (`session_safety.py`, `runtime_records.py`, `state.py`) | lock file, stop marker, emergency record per session, flock, kernel table | `request_emergency`, `mark_stopping`, `supervision_terminated`, `write_lock`, `update_lock_keys`, restore-only | any number of processes between any two file operations; crashes; lost or corrupt lock |
| Watchdog (`watchdog/`) | published observation, event queues, unit state | evaluate, contain, heal, heartbeat, restart, `start_watchdog`, `ttp check` | events during evaluation; deadlines; systemd kills and restarts |
| Firewall (`firewall/`) | chains of the table, connection tracking | `apply_rules`, killswitch, lockdown, slaughter, flush, delete | rule order; connections older than the table; the kernel's own answers pass the chains |
| Lifecycle (`commands/start.py`, `stop_restart.py`, `lifecycle.py`, `dns*.py`, `tor_service.py`, `selinux.py`) | Tor unit, port labels, table, drop-in, resolver, mounts, lock | start, failed start, stop, restore-only, signal | every program may fail or time out, every command may be killed |
| Start decisions (`commands/_preflight.py`, `_validation.py`, `_ports.py`, `_tor_setup.py`, `dns_policy.py`, `tor_detect.py`, `tor_config.py`) | torrc, unit, table and lock of a start; what it read of links, ports and accounts | validate, check ports, DNSSEC policy and recorded session, detect Tor, generate, apply | every decision rests on something read earlier; starts may overlap |
| Watchdog timing (`settings.py`, `watchdog/progress.py`, `watchdog/service.py`) | the session's settings, systemd's clocks, age of the observation | check, heal, contain, heartbeat, sleep, ExecStopPost | inequalities between six timeouts, on their bounds |
| Route verification (`probe.py`, `netprobe.py`, `session_report.py`, `evidence.py`) | verdict, diagnostics, exit code of a command; the verification record | `verify_session`, `record_verification`, `check_session`, `observe_session`, the end of `ttp start` | up to a minute between the read of the lock and its use |
| Notifications (`notifications/`) | agent queue, last receipt, server | notify with and without waiting, status, deliver with retries | lost answers, timeouts, agent restarts |
| Everything else | see section 8 | | |

What makes each part correct:

* **Session safety** – a recorded, not stopped session never transmits in cleartext,
  unless its own start reports that it failed; the emergency is latched before it is applied and held until an explicit stop;
  a stale process arms nothing; verdicts are true; everybody returns.
* **Watchdog** – no event is lost, no heartbeat without a completed evaluation, every
  fault is contained, healed or reported, and no supervisor ends silently.
* **Firewall** – only exempt traffic leaves in cleartext, redirects do reach Tor, the
  killswitch lets nothing out, rejections are heard.
* **Lifecycle** – what start did, stop undoes, whatever happened in between; a failed
  start leaves nothing that a working clean-up could have taken away, four paths aside
  (section 4); Tor goes down behind closed rules.
* **Start decisions** – the torrc, the unit and the table of a start agree, only a
  dedicated account is exempted, a link's demand for DNSSEC is not overridden, and no
  recorded session is replaced.
* **Watchdog timing** – whatever timings `settings.py` accepts, a bounded check never
  costs the session its supervisor, its observation does not expire between two checks,
  and the termination handler is not cut short.
* **Route verification** – a verdict is measured on the session's own route, a negative
  one is contained or reported, and success is only reported of the current session.
* **Notifications** – a receipt never claims more, and never less, than is known;
  no late or repeated answer is taken for another.

The components meet in few places. Lifecycle's `start`/`stop` take the steps of
Session safety on lock, marker and table; what `start` decides before is module
Preflight, what it verifies after is Verification. The supervisor and `ttp check` call
`request_emergency`, one step in Supervisor, WatchdogTiming and Verification. All of them
act on the one table, whose coarse states and operations are module `KernelTable`; module
`Ruleset` shows that this coarse view is right about the real chains. Emergencies publish notifications without waiting.

`PROJECT.json` lists the components, the mapping from definitions to source lines
and, under `hazards`, what in this code is hard to test.

## 2. Modules and their correspondence to the code

Every definition that models code is mapped to its lines in `PROJECT.json`. Names
follow the source. Definitions introduced by a comment *Faulty variant* are not
part of any specification: they are plausible bugs of the definition after them,
with which each property is shown to be able to fail.

### KernelTable
The table as one of seven values and what each `nft` call makes of it:
`ApplyRulesTo` and `ApplyKillswitchTo` (one transaction each), `InsertDrop`
(lockdown and slaughter), `FlushRules`, `MatchesEmergencyContract` (verification),
`Cleartext`. Used by SessionSafety, Lifecycle and Ruleset.

### SessionSafety
Processes are members of constant sets (starters, stoppers with restore-only and
restart, workers, termination handlers); `pc[p]` is where a process is, the other
functions are its local variables. One action per file or kernel operation:
`request_emergency` is `Acquire`, `ReadMarker`, `ReadIntent`, `WriteLatch`,
`InspectFirst`, `ApplyEmergency`, `Verify`, `Publish`; `do_stop` with `mark_stopping`
is `StopBegin` to `DeleteLock`; `update_lock_keys` is a read and a write
(`UpdateRead`/`UpdateWrite`, `MarkRead`/`MarkWrite`, `UnwatchRead`/`UnwatchWrite`);
`write_lock` is `WriteLock` then `ClearMarker`; `destroy_rules` is `Flush` then
`Delete`. `Crash` kills a process anywhere, which releases its flock. `DamageLock`
loses or corrupts the lock file. Writes that may fail have a failing disjunct with
the outcome the code records: in particular the unlink of `ClearMarker`, behind which
`start` undoes its rules and keeps the lock (point `failed`, history `abandoned`); an `nft` call that times out may have been applied.

The abstract specification is module `Containment`: what happens to traffic (`net`), the
recorded session, the sessions terminated and the alarms on record, with one step each
to record, raise, contain, terminate and remove, `Settle` and `Abandon` for the end of the
start that recorded the session (whether it is sure of it or gives it up), `Relic` for a record that a late
update brings back, and `Straggle` for a termination handler that acts after its session
(only where `Stragglers`, that is where there are handlers): it may block the host, never
open it. `Promise` in SessionSafety instantiates it with the refinement
mapping (`Net` turns the table into the fate of traffic, a session counts as terminated
once its stop was published), and `KeepsPromise` is the refinement.

### Supervisor
The loop of `run_supervisor` for one session, one action per step that can be
interrupted (`ReadLock`, `ReadLatch`, `CheckDns`, `CheckFirewall`, `CheckTor`, `Heal`,
`Passed`, `Beat`, `Wake`, `ReadInotify`, `Drain`, ...), the environment that changes
DNS, table and Tor and queues events, the unit (`Kill`, `Terminated`, `Restart` with
the start limit), and the commands that read its observation. An observation is
`WatchdogObservation`, computed from the record as `watchdog_observation` does.
`request_emergency` is one step here. `printed` says whether the lock recorded a
fingerprint of the table: without one the comparison is skipped (`integrity.py:165`), and
only a missing or foreign table is noticed.

### WatchdogTiming
The same loop with its clocks instead of its events. Time passes, second by second, in a
bounded check, in `request_emergency` (which has four calls of `check_timeout` each) and
in `select`; `Bound` says how long each may take. `silence` is systemd's clock for
WatchdogSec and TimeoutStartSec, `age` and `quiet` are what `watchdog_observation`
computes. `Validate` is `Settings.validate`; Init takes any accepted offer. Settings may
be fractions of a second in the code; every bound compares sums and multiples of them,
which a smaller unit of time leaves as they are.

### Ruleset
Chains are sequences of rule records; `FirstHit` is the kernel's evaluation. One
arbitrary connection (any sender, service, destination and family) sends packets at
any time. Connection tracking decides whether the nat chains are consulted. `Fate` says
where a packet ends up, and a rejected one produces an `Answer` that passes the
output chain itself. The tables are those of `_build_ruleset` for every combination
of options, the killswitch, and what teardown inserts and flushes. Services (protocol and
port) and Tor's two ports are constants: the rules look at few of them, and the theorems
hold for all.

### Lifecycle
The host's resources as one variable each and one command at a time with its program
counter. Every step has its failure disjuncts, split as the code's `except` clauses
split them: logged and passed over, cleaned up, or raised past the clean-up (as by the
roll-back of `apply_rules`, `DetectInterface` or the unlink of the unit file in `StopTor`).
`cmd.left` is a history variable: the parts a start has found, has failed to remove, or
removes on no path. The environment kills
commands, delivers signals, loses the lock, re-points `resolv.conf`, toggles
systemd-resolved and reboots. `MaxFaults` bounds how often.

### Preflight
`ttp start` from its command line to its lock, for several starters. `Validated` is the
order of the checks that need only the command line and the installed host; then one
action per read of something that may change: ports, each file and D-Bus call of
`check_dnssec_policy`, the lock (three separate reads for a legacy lock), running Tor
processes, `is_ipv6_supported` for the torrc and again for the table. The environment
adds, removes and reconfigures links, lets systemd-resolved follow later, switches IPv6,
takes and frees ports and runs other Tor daemons. Clean-up is one step, any part of which
may fail, because Lifecycle has its steps. `WriteLock` may fail behind its lock, as above.

### Verification
One command reads the lock and then spends its budget on endpoints (`Identity`, `Fetch`,
`PauseRound`); `Answers` is what a third party may say of the route that the table gives
the probe at that moment (`ProbeRoute`: by the exemptions of the session recorded then, which
may have replaced the one the command read). `Sight` notes whose route it was. `Record`, `Contain`, `CheckSupervised` and `Relatch` act on the
lock that was read, and `ExitCodeOf` reduces the diagnostics by the priority of
`evidence.py`. Meanwhile the session may be contained, stopped and replaced. `seen`,
`early` and `armed` are history variables for the properties.

### Notifications
Publishers with their timeouts, the agent's accept queue and retry loop, its
deduplication by last event, the unit with its start limit, and a server that may
accept a call whose answer is lost.

`MC<Module>.tla` instantiates a module for TLC, `<Module>_<run>.cfg` holds the values of
the constants and the properties of a run, and `<Module>Proofs.tla` the theorems. The
inductive invariants are defined in the modules themselves, in sections named so, where
TLC can check them as well; Ruleset's is in `RulesetProofs`, next to what it is made of.

## 3. Runs that pass

| Run | Instance | What it shows |
| --- | --- | --- |
| `safety_sessions` | 2 sessions, start, stop, worker, 1 crash | `FailClosed`: a running, unstopped session is never in cleartext, except one whose start failed behind its own lock and said so. `VerdictIsCurrent`: a verdict about to be published is what the kernel holds, with the same exception. `LatchBeforeArming`: only a latched request arms. `StaleNeverRearms`: a worker of an old session arms nothing. `KeepsPromise`: every step is one of `Containment` or a stutter; in particular a killswitch stays until the stop. |
| `safety_overlap` | start, stop/restore-only/restart, handler, damaged lock | `MutualExclusion`, `StopIntentRespected`, `VerifiedIsLatched`, `LossIsAnswered`: a handler that finds the lock lost or corrupt leaves the killswitch or a report behind, unless the session was stopped, replaced or wants no supervision, or its start reported that it could not remove restore-only's marker. |
| `safety_commands_return` | start, stop, handler, fair | `CommandsReturn`: nobody waits for the transition lock for ever. With `LossIsAnswered` this means that the end of a supervisor is always answered. |
| `supervisor` | 2 changes, start limit 2, with and without fingerprint, fair | `EventsAreNotLost`, `NeverSleepsUnevaluated`, `NoSilentEnd`, `FaultsAreContained`, `EmergencyIsHeld`. |
| `watchdog_timing` | every combination of check timeout and heartbeat 1–3, interval 1–4, and values on, above and below each bound of the others | `ReportsTwice`: at least two reports per WatchdogSec outside a containment. `OnlyContainmentIsOverdue`: systemd's clock runs out only in a containment, or in healing before READY. `HealthyIsCurrent`: a healthy observation does not expire between two checks. `HandlerFits`: ExecStopPost ends in time. |
| `ruleset_session` | every combination of options that concerns the connection | `NoCleartext`, `RedirectReachesTor`, `EmergencyIsClosed`, `LockdownHolds`, `RejectionIsHeard`. `NoFalseAlarm`: a new connection raises a counter that the watchdog takes for a failed redirect only after a foreign nat chain, or as QUIC to a DoH address. `CoarseTableAgrees`: KernelTable is a correct abstraction of the chains. |
| `lifecycle` | 2 targets, 4 faults of every kind | `StopRestores`: a stop that finds its lock restores the host. `FailedStartIsClean`: of table, Tor, overlay, drop-in and lock, a failed start leaves what it found, what a failing clean-up step could not remove or kept the rest of the clean-up from removing, and the residue of the four paths named there. `LockGoesWithTable`, `TorLeavesBehindRules`. |
| `preflight` | 2 starters, 10 hosts, 11 command lines, 2 links, 2 changes | `SoleStartFitsTogether`: the table of a start that got its lock written redirects to the ports, exempts the account and passes the IPv6 of the Tor that runs. `ExemptIsDedicated`: no ordinary account is exempted by detection. `DemandsAreRefused`: a link that demands DNSSEC for one and the same reason all through the check (its saved setting, or the mode systemd-resolved holds it to) is not passed over. `SessionIsNotReplaced`: a start that met no other leaves the table of a recorded session alone. |
| `verification` | a check and a start, 2 sessions, 2 kinds of session, 2 rounds, budget 2 | `VerdictIsMeasured`: confirmed and negative verdicts are the authority's answer over the route of the session that was asked about, or that session was stopped by then. `NegativeIsContained`: a negative verdict ends in the killswitch, a report, or a session stopped or replaced. `StartSuccessIsCurrent`: start does not succeed with an emergency latched during its probe. `ArmingIsReported`: a command that armed exits with one of the two emergency codes. |
| `notification_receipts` | 2 publishers with 2 calls, 2 events, 2 attempts, 2 starts | `AcceptedIsTrue`, `FailedIsHonest`. |

`StopRestores` has two limits that the code has as well. A program that fails in stop is
mostly logged and passed over. And the residue of an interrupted session is found again
only by where `resolv.conf` points and whether systemd-resolved runs: when both an
interruption and a change of these happened (`Traceable`), layers or the drop-in may stay.

The `TypeOK` of every component is proved, by itself or as a part of its inductive invariant
(section 5), and therefore in no configuration. Each property has a mutant of a mapped
definition that breaks it (`PROJECT.json`, `mutants`).

### Bounds, and why they suffice
* *Processes.* The safety argument is about pairs (a request and a stop, a stale
  worker and a replacement), so one of each kind plus one crash shows every pairwise
  interleaving; the theorems of section 5 remove the bound.
  `safety_overlap` adds restore-only and restart, which take other paths of do_stop.
* *Sessions.* Two identities are enough to have a stale and a current one.
* *Supervisor.* Two changes allow a fault during the evaluation of another one;
  two starts allow a restart and the start limit.
* *Ruleset.* Addresses and users are abstracted to the classes the rules tell apart, and
  chains treat connections independently. The seven services hold each port a rule names,
  over each protocol, and one that none names. `MCSpec` leaves out options that add a rule
  for another sender than the connection's (`Relevant`). The theorems of section 5 are
  about `Spec`, with all options, and about any services and ports.
* *Lifecycle.* A leftover needs one interrupted command, its effect on the next one a
  second, and one more fault to meet the clean-up; four allow two of each. Two targets
  are what re-pointing needs.
* *WatchdogTiming.* The inequalities are linear and every one is met with equality and
  with slack in the offers; the theorems of section 5 remove the bound.
* *Preflight.* Two starters are what an overlap needs. A check that is overtaken needs
  one change, a change that is undone before the second look needs two. The hosts and
  command lines hold one member for each case the code tells apart.
* *Verification.* Two rounds have a pause and a last round; a budget of two is used up by
  one long fetch, or by a short one and a pause. Two sessions give a stale lock.
* *Notifications.* Two events and two calls are needed for a receipt to be overtaken by
  another; two attempts for a lost answer followed by a failing retry; two starts for
  the loss of the agent's memory.
* *All.* The theorems of section 5 show the safety properties without these bounds. Two
  properties turned out to have rested on them; section 5 names both. `safety_sessions`
  has no handler, because a worker and a handler together take TLC more than five minutes;
  with a handler in the worker's place `KeepsPromise` holds as well, and the theorem
  `PromiseKept` is about any number of both.

Deadlock checking is off in every run but `watchdog_timing`: commands end, counters of
faults run out, and a host on which nobody types a command rests legitimately. In
WatchdogTiming the clock always runs, so a deadlock would be a loop stuck between two
bounds. Symmetry is used only in safety runs, on session identities and on starters,
which the models never tell apart.

### Fairness
* SessionSafety: weak fairness of each command *that has begun*: the kernel schedules
  it and each of its waits has a timeout (`transition` has a deadline, each subprocess
  a `timeout=`). Nobody has to start a command or call `request_emergency`. Weak
  fairness suffices although the flock may be re-taken for ever, because the deadline
  of `transition` is an alternative that is always enabled.
* Supervisor: the loop is scheduled (`bounded_check` bounds its checks), `select`
  returns when a descriptor is readable or the heartbeat interval is over, the clock
  runs, and systemd runs ExecStopPost and the restart. Nothing is assumed of changes
  and commands.

## 4. Disagreements between code and documentation

Two runs are refuted by TLC, each a finding in `PROJECT.json` with the quoted lines.

| Run | Property | What the code does |
| --- | --- | --- |
| `handler_rearms_stopped` | `HandlerNeverRearms` | `write_lock` unlinks the stop marker after publishing the lock and may erase the marker of a stop of that session; its termination handler then arms the killswitch. |
| `unverified_check_succeeds` | `CheckSuccessIsConfirmed` | `check_session` finds a latched session, the session is stopped, `observe_session` reads the lock again and has nothing to report: exit code 0, "Tor confirmed for this request", and no verification was run. |

The modules state further promises of the documentation that the code does not keep. TLC
refutes each of them as well when it is added to a configuration of its module:

| Property | Module | The promise, and what the code does |
| --- | --- | --- |
| `LockHasTable` | SessionSafety | `commands/lifecycle.py:123` "The lock must not outlive the nftables table."; the unserialized read-modify-write of `update_lock_keys` (`state.py:268`) in `start_watchdog` brings back the lock of a session stopped in between. So does a `write_lock` whose unlink of the marker fails (`state.py:235`): `start` destroys its rules and keeps the lock (`start.py:354`). |
| `RestartKeepsLatch` | SessionSafety | `docs/architecture.md:249` "Restart cannot clear the latch"; an emergency latched between restart's check and its do_stop is torn down. |
| `UnknownIsNotFailed` | Supervisor | ADR 0013:49 "Expired observations are unknown, never automatically healthy or failed"; `ttp check` during a routine evaluation takes the invalidated observation for a failed supervisor (`session_report.py:178`). |
| `SleepsWatched` | Supervisor | `watchdog/supervisor.py:140` ends a supervisor that lost its watch; a watch lost between the first read and the drain is not noticed. |
| `RuleForRule` | Supervisor | `watchdog/integrity.py:161` "The table must be the one this session applied, rule for rule"; a session whose fingerprint could not be taken at start is never compared. |
| `EmergencyIsCurrent` | WatchdogTiming | `watchdog/service.py:153` "An emergency-holding supervisor is operational"; a heartbeat interval beyond `observation_max_age`, which `validate` accepts, makes its observation stale between two rounds. |
| `AlarmsMeanFailedRedirect` | Ruleset | `watchdog/integrity.py:195-202` "The only way either fires is that the redirect the whole design rests on did not happen"; an ordinary QUIC packet to a DoH address counts as well (`firewall/builder.py:311`), which is an emergency. |
| `RootBypasses` | Ruleset | `docs/interfaces.md:56` "Exempt root (`uid 0`) processes from Tor routing"; nat output has no root rule, so TCP and DNS of root are still redirected. |
| `SlaughterIsHeard` | Ruleset | `firewall/emergency.py:84` promises TCP resets; the reset of the inserted rule meets that rule. |
| `OneFailureIsUndone` | Lifecycle | `docs/decisions/0011-start-exit-codes.md:59` "Start failed and gave up", host state "Restored to cleartext"; a single failing program suffices to leave the rules and Tor (a time-out of nft in the roll-back of `apply_rules`, `start.py:285`; of `ip` in `detect_active_interface`, `start.py:295`), the overlay (a mount that times out after mounting) or the lock (the unlink of the marker). |
| `SignalRestores` | Lifecycle | `README.md:278` "Signal handler catches `SIGINT`/`SIGTERM` and runs normal cleanup before exit"; a signal before the lock is written (`commands/lifecycle.py:157`) cleans up nothing. |
| `RestoreOnlyRestores` | Lifecycle | `stop_restart.py:39` "Explicit restoration also works after lost/corrupt session intent"; without a lock the systemd-resolved drop-in stays (`dns.py:238`). |
| `KillIsRecovered` | Lifecycle | `README.md:279` "auto-restores"; the next start refuses a recorded session (`_preflight.py:95`). |
| `RebootLeavesNothing` | Lifecycle | `README.md:73` "A reboot leaves no residue"; SELinux port labels survive. |
| `RecordedSessionStands` | Preflight | `_preflight.py` "A recorded session must be terminated with 'sudo ttp stop' before starting another"; of two overlapping starts, the one that fails takes the table of the other with it. |
| `PassedIsCompatible` | Preflight | `docs/web/how-to/dnssec.md` "a network changing during the check are also inspection errors"; a link that was inspected already may change its policy unnoticed. |
| `FailedMeansUndelivered` | Notifications | `delivery.py:122` "Never label this as proof that nothing was delivered"; an agent that dies after the acceptance makes the publisher report failure. |

The passing runs and the theorems hold of the code as it is, with these behaviours.
For instance `FailClosed` is about one starter and one ordinary stopper, where a
session's lock cannot come back after its table is gone while still *running and
unstopped*, and excepts a session whose start failed behind its own lock; `LockHasTable`
says more and fails. `FailedStartIsClean` excuses, part by part, exactly the paths by which
`OneFailureIsUndone` fails. `SoleStartFitsTogether` and
`SessionIsNotReplaced` are about starts that met no other one, and `KeepsPromise` has
`Relic` for the lock that comes back.

Smaller observations, visible in the model but contradicting no promise:

* `validate_bridge_line` accepts the transport `meek`, for which `PT_MAP` has no helper
  program, so nothing is installed for it (Preflight, `Helper`).
* For an external Tor the accounts `tor` and `debian-tor` are taken without the check
  that their UID is a system one (`ExternalUid`), unlike for the managed one.
* A user who runs the trusted tor binary makes a managed start refuse (`DetectTorUser`).
* A containment may take four times `check_timeout` and so exceed WatchdogSec or
  TimeoutStartSec; systemd then kills the supervisor and ExecStopPost contains
  (WatchdogTiming, `Kill`). Healing before READY may exceed TimeoutStartSec likewise.
* A start that is killed between the replacement of the lock and the unlink of the marker
  (`state.py:234`) leaves its session with the marker of the stop before. If that stop was
  `--restore-only`, whose marker is every session's, no emergency of the new session is
  acted on: `request_emergency` returns without effect (`LossIsAnswered` without
  `MarkersSettle`). Between those two steps a second start may also bring up a supervisor
  for the new session, whose end then meets that marker. An unlink that fails leaves the same
  marker over a session whose rules are gone as well, but start reports that one.
* A link may escape the DNSSEC check if its demand moves from its saved setting to the mode
  systemd-resolved holds and back, together with the global mode, between the reads of
  `check_dnssec_policy`: at no moment is it without a demand, and none is seen. This is why
  `DemandsAreRefused` speaks of one reason.

## 5. What is proved

Each theorem holds for every value of the constants that the named assumptions of its module
allow. Every inductive invariant was first checked by TLC on an instance. A proof of an
invariant has one lemma per part and in it one case per action or group of actions; its
last lemma, `Next...`, combines them, and the theorems about single properties follow from
the invariant.

### SessionSafetyProofs: whatever commands overlap
Assumptions: `IdentityAssumption` (the markers for "no session", "any session" and
"nobody" are no sessions or processes; handlers are not commands) and `BoundAssumption`
(the bounds are natural numbers).

* `Safety`: `Spec => []SafetyInv`;
* `TypeCorrectness`, `Serialization`, `StopIntent`, `DurableVerdict`: its parts
  `TypeOK`, `MutualExclusion`, `StopIntentRespected`, `VerifiedIsLatched`;
* `LatchFirst`: the action property `LatchBeforeArming`;
* `AllLossesAnswered`: the action property `LossIsAnswered`, under `MarkersSettle`.

None of these parts is inductive alone.

* `TypeOK` needs `HoldsSession`: an update writes back what it read earlier, and
  that must be a session lock; a latch is indexed by a local session identity.
* `StopIntentRespected` needs `MutualExclusion`: a stop publishes its marker inside
  the transition, so a request past its own check excludes it. The only other
  writer of the marker, `write_lock`, removes it.
* `VerifiedIsLatched` needs `LatchedOrFault` (past `WriteLatch` the latch is stored or
  its loss is noted in the result) and `ResultAtRest` (a result exists only after
  the return).
* `LatchBeforeArming` needs `LatchedOrFault` and `StopIntentRespected` in the state
  before the step, and `OnlyApplyArms`: no other step installs the killswitch.
* `LossIsAnswered` needs `LossInv`. A handler that finds a marker is excused only if the
  marker means *its* session: `KnownInv` says so of an ordinary stop's marker, `RestoreInv`
  of restore-only's. The latter is inductive only if a start that has written its lock
  gets to remove that marker: `MarkersSettle` assumes that there is no restore-only at all,
  or that no process is killed and starts do not overlap. TLC shows that neither half can
  be dropped (section 4, smaller observations).

### SessionSafetyProofs: one starter and one ordinary stopper
`SoleCommands` is what `FailClosed`, `VerdictIsCurrent`, `StaleNeverRearms` and
`KeepsPromise` assume, as the run `safety_sessions` does: one process runs start, one runs
stop, without restore-only, and nobody else touches the lock file. Sessions, workers, handlers
and crashes are unbounded. No part of it can be dropped: TLC refutes `FailClosed` with a
second starter, a second stopper, restore-only or one lost lock (in each case a command
takes down or rebuilds the table of a session whose lock another one keeps or writes back).

* `SoleSafety`: `Spec => []SoleInv`;
* `FailsClosed`, `CurrentVerdicts`, `StaleIsHarmless`: the first three properties;
* `PromiseKept`: `Spec => KeepsPromise`, the refinement of Containment. Where there are
  termination handlers it needs `Straggle`: `handler_rearms_stopped` is a step that contains
  a session which the promise counts as terminated;
* `Shelter` and `HoldsUntilTermination`: of the abstract promise, for any number of sessions
  and from no assumption, a recorded and not terminated session that its start did not give
  up is never in cleartext, and its killswitch is lifted only after the termination. Both are inductive as they stand;
* `SessionsSheltered`: by the refinement both hold of `Spec`, of the files, the flock and
  the table themselves.

The properties speak of a lock, a marker and a table that several unserialized steps
change, so `SoleInv` says how far each writer can be behind the others:
* `StopperInv`: do_stop works on the recorded session from its first read on;
* `StarterInv`: start finds no session, one that failed behind its record works on the
  session it recorded, and what its `update_lock_keys` will write back is
  the recorded session, or one that was stopped *and is seen to be* when it comes back;
* `SealInv`: the core. A stopped session is seen to be stopped by its phase, also in the
  copies about to be written back, or by its marker as long as no `write_lock` is about to
  unlink it. The race between `update_lock_keys` and `mark_stopping` can lose the phase, and
  the one between `write_lock` and `mark_stopping` the marker; never both;
* `RequestInv`: a request past its checks works for the recorded, unstopped session;
* `TableInv`: the table of an unstopped session is closed;
* `DrawnInv`: a session identity that was drawn is the recorded one or was terminated, so
  that what a straggler contains is a session the promise knows as stopped.

`StepKeepsPromise` maps every step to one of the promise: `WriteLatch` to `Raise`,
`ApplyEmergency` to `Contain`, `MarkDone` to `Terminate`, `WriteLock` to `Record`, the two
outcomes of `ClearMarker` to `Settle` and `Abandon` (a start killed in front of it settles too),
`DeleteLock` to `Remove`, an `UpdateWrite` after the removal to `Relic`, a handler's late
`WriteLatch` or `ApplyEmergency` to `Straggle`, the steps of start and teardown on the table
to `Rework`, all others to stuttering.

### RulesetProofs
Assumptions `OptionAssumption`, `ServiceAssumption` and `PortAssumption`: the options are the
five that exist, a service is a name and a port, Tor's ports are natural numbers. All
combinations of options, services and ports are covered.

The proof has two halves. The first is about chains. `ScanConcat` and `DecideConcat` say that
the second part of a chain decides only where the first is silent; from these and the
verdict of a single rule (`DecideOne`), `FilterOutDecides`, `NatOutputDecides`,
`NatPreroutingDecides` and `KillswitchDecides` give the verdict of each chain as one list
of reasons. These four are the specification of `_build_ruleset` that a reader can compare
with the documentation; the last line of `FilterOutDecides` says that nothing falls
through to the policy.

The second half is about tables that have no such form, because a teardown inserts rules
ahead of whatever is there, or fails to. `RulesetInv` (`Spec => []Inv`) keeps of each table
what it does to the observed connection *for every way connection tracking may have bound it*:
`SessionGuard` (what passes a session's filter is exempt), `EmergencyGuard` (nothing passes
the killswitch), `LockGuard` (past a lockdown only Tor passes); `LastInv` ties the latest
packet to the present table. The quantification over bindings is what makes it inductive:
the binding is older than the table. An inserted rule only takes packets away
(`InsertedStops`), so every guard survives it. From `Inv`:
* `RulesetTypes`, `CleartextIsExempt` (`NoCleartext`), `KillswitchIsClosed`
  (`EmergencyIsClosed`), `LockdownIsKept` (`LockdownHolds`), `RedirectWorks`
  (`RedirectReachesTor`), `AnswersPass` (`RejectionIsHeard`), `AlarmsAreTrue` (`NoFalseAlarm`);
* `CoarseViewIsRight` (`CoarseTableAgrees`): so SessionSafety and Lifecycle, whose table is the
  coarse one, lose no step of the chains and call nothing protected that is not.

### SupervisorProofs
Assumption `SupervisorBounds`: at least one change and one start. `Supervision`
(`[]SupervisorInv`), `NoEventIsLost`, `SleepsEvaluated`, `EndIsRecorded`: the three
invariants of the run `supervisor` for any number of changes and any start limit.
* `EventsAreNotLost` is about the published record only; `TableInv` carries it through the
  evaluation: from the check of the table to the publication, a change is still queued.
* `NeverSleepsUnevaluated` needs `LoopInv`: the loop reaches its heartbeat with the completed
  observation of this invocation or with an evaluation due, and invalidates the record
  before it evaluates or drains.
* `NoSilentEnd` needs `UnitInv`: process and unit agree, and a restart that is owed is
  within the limit.

### VerificationProofs
Assumption `ProbeAssumption`: positive limits, checks and starts are different commands.
`Commands` (`[]VerificationInv`), `MeasuredVerdicts`, `NegativesAnswered`, `CurrentSuccess`,
`ArmingsReported`: all properties of the run `verification`, for any number of commands,
sessions and rounds. The properties speak of commands that have returned; `VerificationInv`
follows each on its way: `PlaceInv` (what it has done so far), `HeldInv` (the session it read
is recorded or over, so that the exemptions the kernel applies are those it has looked at), `CodesInv` (what its diagnostics stand for) and `EarlyInv` (an
emergency at the end of the probe is still latched at start's last look). `RankIs` and the
lemmas after it show that the priority of `evidence.py` puts both alarms above all others.

### NotificationsProofs
Assumption `NotificationBounds`: positive bounds, "none" is no event. `Delivery`
(`[]NotificationsInv`), `AcceptanceIsTrue`, `FailureIsHonest`. Answers are true only if
calls are not mixed up: `CallsInv` (a queued or present request is of its publisher's present
call, or of one that was given up), `OnceInv` (no call is queued twice or after it was
accepted, and an accepted attempt of the present one is known or suspected), `MemoryInv`
(the agent's last receipt is true and, at a reply, about the request).

### LifecycleProofs
Assumption `LifecycleBounds`: there is a target, the faults are of known kinds.
`Accounting` (`[]LifecycleInv`), `NetworkComesBack`, `FailedStartsAreClean`,
`LockFollowsTable` and the action property `TorGoesBehindRules`, for any number of targets
and faults. `LifecycleInv` accounts for each change on the host: whose command is where
(`PlaceInv`), which layers can be mounted (`LayersInv`), part by part, what a start has put
up and what of it its clean-up has still to find (`CleanInv`), how far a teardown has come (`TeardownInv`), and
why what earlier commands left is found again: without an interruption it is what the lock
says (`UncutInv`), without re-pointing or toggling it is where the host points (`FixedInv`).
Only one of the two is needed, which is what `Traceable` says.

### PreflightProofs
Assumption `PreflightAssumption`: finitely many links, well-formed hosts, command lines and
policies. `Decisions` (`[]PreflightInv`), `DedicatedExemption`, `SessionsFit` and the action
properties `DemandsAreHeard` and `SessionStands`, for any number of starts, hosts, links and
changes.
* `SoleStartFitsTogether` needs `AloneInv` (a start that met no other one is alone between
  its check and its lock) and `BuildInv` (what it has built so far agrees).
* `DemandsAreRefused` needs `ScanInv`: what a scan may have missed so far. The proof attempt
  refuted the property as it was first stated, without "for one reason": the counterexample
  takes four changes, and the run `preflight` allows two. As it is stated now, TLC finds it
  true with five as well.

### WatchdogTimingProofs
For every set of offered timings (`OffersAssumption`: positive numbers of seconds), `Timing`,
`Reporting`, `OverdueOnlyContaining`, `Freshness` and `HandlerHasTime`: the invariants of the
run `watchdog_timing`. The inductive invariant `TimingInv` adds to the types
* `Validate(conf)`: the settings of the session were accepted and do not change;
* `SilenceBound`: how long the loop may have been silent at each point of a round, which
  the properties, bounds at single points, do not carry from one point to the next;
* `AgeBound`: a healthy observation is no older than the last check, and `select` never
  sleeps past the next one; for this a round that found the latch must be known not to
  publish "healthy".

## 6. What is only model-checked

* Liveness (`CommandsReturn`, `FaultsAreContained`, `EmergencyIsHeld`): fairness and
  ENABLED are out of the prover's reach.
* The two refuted properties of section 4 and the further promises listed there, which the
  code does not keep.

## 7. Plan

Done: all modules of section 2, with proofs of every safety property that a passing run checks,
and of the refinement of Containment with termination handlers. What is left, in this order:

1. A signal nested in its own transition (SessionSafety); two sessions that share the
   notification unit (Notifications); counters with their baseline (Supervisor).
2. The inbound chain of the ruleset.
3. `Rework` of Containment is any change of a host that is owed nothing; a finer promise
   would also say that a stop ends with the host as it was, which Lifecycle shows alone.

## 8. What is not modelled

* SessionSafety: the JSON of records and its validation (a record is readable, absent
  or invalid), notifications sent by `request_emergency`. Locks without a session_id and
  their recovery are in Preflight.
* Supervisor: the printed reports of a check whose lock is lost meanwhile
  (`integrity.py:95`, `:164`); suspend (age is nondeterministic), the unused transitions of the FSM.
* WatchdogTiming: the time of steps that make no bounded call, and the notification
  timings of `Settings.validate`.
* Ruleset: inbound packets, rate limits, several connections at once, the textual form.
* Lifecycle: two commands at once and emergency mode (SessionSafety has both), a signal
  nested in another, the prompts of Tor set-up, an external Tor that restore-only asks to
  shut down.
* Preflight: installation of packages, the parsing of bridge lines and sysctl, the D-Bus
  encoding of the policy; SELinux labels are in Lifecycle.
* Verification: a lock lost or damaged between two steps of the command (SessionSafety has
  `request_emergency` under it); HTTP, TLS and the worker's process; the report of `ttp status` beyond the
  diagnostics that decide an exit code; which previous record makes a "recovered" event.
* Notifications: discovery of the recipient, text and localisation, servers that break
  their protocol, replacement of one shown notification by another.
* Whole components: the passive monitor and status display, administration commands,
  logging, installation scripts, `ttp config`, and Tor's control conversations other than
  bootstrap and shutdown.
  They read, parse, print or run once, and keep no state that others race for.
