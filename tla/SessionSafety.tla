----------------------------- MODULE SessionSafety -----------------------------
(***************************************************************************)
(* Serialized emergency containment and explicit termination.              *)
(*                                                                         *)
(* Files under /run/ttp and one kernel table are shared by processes that  *)
(* the administrator and systemd start independently:                      *)
(*                                                                         *)
(*   lockFile   ttp.lock, the root-owned session intent                    *)
(*   marker     stopping.json, the explicit-stop marker                    *)
(*   latch      emergency.<session>.json, the emergency latch records      *)
(*   mutex      the flock on transition.lock and its holder                *)
(*   table      the nftables table inet ttp                                *)
(*   supervisor the session whose watchdog unit is running, if any         *)
(*                                                                         *)
(* A process that read a session lock is at "session" and may at any later *)
(* time call request_emergency: ttp check, the rest of ttp start, and the  *)
(* supervisor loop are all such processes. A handler is systemd's          *)
(* ExecStopPost for a supervisor that ended.                               *)
(***************************************************************************)
EXTENDS Naturals, KernelTable

CONSTANTS
    Sessions,      \* the session identities that may ever be drawn
    NoSession,     \* the absence of an identity
    NoProc,        \* nobody holds the transition lock
    AnySession,    \* the "*" of a restore-only marker
    Starters,      \* processes that may run ttp start or ttp watchdog start
    Stoppers,      \* processes that may run ttp stop
    Forcers,       \* the stoppers that may run ttp stop --restore-only
    Restarters,    \* the stoppers that are ttp restart, or ttp start on a signal
    Workers,       \* processes that may call request_emergency: ttp check, the
                   \* supervisor, and the rest of ttp start (also in Starters)
    Handlers,      \* processes systemd spawns for ExecStopPost
    MaxCrashes,    \* bound on the number of killed processes
    MaxDamage      \* bound on the number of lost or corrupted lock files

Procs == Starters \cup Stoppers \cup Workers \cup Handlers

ASSUME IdentityAssumption ==
    /\ NoSession \notin Sessions
    /\ AnySession \notin Sessions
    /\ NoSession # AnySession
    /\ NoProc \notin Procs
    /\ Forcers \cup Restarters \subseteq Stoppers
    /\ Handlers \cap (Starters \cup Stoppers \cup Workers) = {}

ASSUME BoundAssumption == MaxCrashes \in Nat /\ MaxDamage \in Nat

\* Contents of ttp.lock; wd is watchdog_requested. "corrupt" stands for a file
\* that is not a JSON object.
Absent  == [sid |-> NoSession, phase |-> "absent", wd |-> FALSE]
Corrupt == [sid |-> NoSession, phase |-> "corrupt", wd |-> FALSE]

Recorded  == [sid : Sessions, phase : {"running", "stopping"}, wd : BOOLEAN]
LockFiles == Recorded \cup {Absent, Corrupt}

\* read_lock() without strict returns data exactly for these.
Readable(l) == l.phase \in {"running", "stopping"}

\* The emergency record of one session: absent, or written with "requested" set
\* and "verified" unset or set. Nothing decides on its causes.
Latches == {"absent", "requested", "verified"}

VARIABLES
    lockFile, marker, latch, mutex, table, supervisor,
    pc,         \* where each process is
    sid,        \* the session identity each process holds
    repair,     \* request_emergency's repair argument
    despite,    \* its require_despite_missing_lock argument
    copy,       \* update_lock_keys: the contents read before the write
    check,      \* the latest kernel inspection confirmed the killswitch
    fault,      \* a _failure diagnostic was added to the result
    outcome,    \* projection of the latest result: its exit code class
    implicit,   \* do_stop runs for a restart or a signal, not for ttp stop
    used,       \* identities already drawn
    terminated, \* history: sessions whose explicit stop was published
    abandoned,  \* history: sessions not stopped whose start failed after recording them
    crashes, damage

files == <<lockFile, marker, latch>>
local == <<sid, repair, despite, copy, check, fault, outcome, implicit>>
aux   == <<used, terminated, abandoned, crashes, damage>>
vars  == <<lockFile, marker, latch, mutex, table, supervisor, pc,
           sid, repair, despite, copy, check, fault, outcome, implicit,
           used, terminated, abandoned, crashes, damage>>

\* Points of request_emergency and mark_stopping inside "with transition()".
RequestCritical == {"marker", "intent", "latch", "inspect", "apply", "verify", "publish"}
MarkCritical    == {"markcheck", "markread", "markwrite", "markdone", "forcemark"}
Critical        == RequestCritical \cup MarkCritical

\* Past the check of the explicit-stop marker, still inside the transition.
Committed == RequestCritical \ {"marker"}

Points == {"idle", "session", "acquire", "updwrite", "handler", "unlatched",
           "stopacquire", "forceacquire", "unwatch", "unwait", "unread", "unwrite",
           "lockdown", "flush", "delete", "unlock",
           "rules", "undo", "record", "unmark", "failed"} \cup Critical

Outcomes == {"none", "noop", "verified", "unconfirmed"}

TypeOK ==
    /\ lockFile \in LockFiles
    /\ marker \in Sessions \cup {NoSession, AnySession}
    /\ latch \in [Sessions -> Latches]
    /\ mutex \in Procs \cup {NoProc}
    /\ table \in Tables
    /\ supervisor \in Sessions \cup {NoSession}
    /\ pc \in [Procs -> Points]
    /\ sid \in [Procs -> Sessions \cup {NoSession}]
    /\ repair \in [Procs -> BOOLEAN]
    /\ despite \in [Procs -> BOOLEAN]
    /\ copy \in [Procs -> LockFiles]
    /\ check \in [Procs -> BOOLEAN]
    /\ fault \in [Procs -> BOOLEAN]
    /\ outcome \in [Procs -> Outcomes]
    /\ implicit \in [Procs -> BOOLEAN]
    /\ used \subseteq Sessions
    /\ terminated \subseteq Sessions
    /\ abandoned \subseteq Sessions
    /\ crashes \in Nat
    /\ damage \in Nat

Init ==
    /\ lockFile = Absent
    /\ marker = NoSession
    /\ latch = [s \in Sessions |-> "absent"]
    /\ mutex = NoProc
    /\ table = "none"
    /\ supervisor = NoSession
    /\ pc = [p \in Procs |-> "idle"]
    /\ sid = [p \in Procs |-> NoSession]
    /\ repair = [p \in Procs |-> FALSE]
    /\ despite = [p \in Procs |-> FALSE]
    /\ copy = [p \in Procs |-> Absent]
    /\ check = [p \in Procs |-> FALSE]
    /\ fault = [p \in Procs |-> FALSE]
    /\ outcome = [p \in Procs |-> "none"]
    /\ implicit = [p \in Procs |-> FALSE]
    /\ used = {}
    /\ terminated = {}
    /\ abandoned = {}
    /\ crashes = 0
    /\ damage = 0

Goto(p, from, to) == pc[p] = from /\ pc' = [pc EXCEPT ![p] = to]

\* Locals are forgotten when a process ends, so idle processes look alike.
Forget(p) ==
    /\ sid' = [sid EXCEPT ![p] = NoSession]
    /\ repair' = [repair EXCEPT ![p] = FALSE]
    /\ despite' = [despite EXCEPT ![p] = FALSE]
    /\ copy' = [copy EXCEPT ![p] = Absent]
    /\ check' = [check EXCEPT ![p] = FALSE]
    /\ fault' = [fault EXCEPT ![p] = FALSE]
    /\ outcome' = [outcome EXCEPT ![p] = "none"]
    /\ implicit' = [implicit EXCEPT ![p] = FALSE]

--------------------------------------------------------------------------------
(* request_emergency and its callers *)

\* A caller reads the session lock (strict) and keeps what it read.
Observe(p) ==
    /\ p \in Workers \cup Starters
    /\ Readable(lockFile)
    /\ Goto(p, "idle", "session")
    /\ sid' = [sid EXCEPT ![p] = lockFile.sid]
    /\ UNCHANGED <<files, mutex, table, supervisor, repair, despite, copy, check, fault, outcome, implicit, aux>>

\* The process ends.
Leave(p) ==
    /\ Goto(p, "session", "idle")
    /\ Forget(p)
    /\ UNCHANGED <<files, mutex, table, supervisor, aux>>

\* request_emergency is called for the session read earlier.
Request(p) ==
    /\ p \in Workers
    /\ Goto(p, "session", "acquire")
    /\ \E r \in BOOLEAN : repair' = [repair EXCEPT ![p] = r]
    /\ outcome' = [outcome EXCEPT ![p] = "none"]
    /\ UNCHANGED <<files, mutex, table, supervisor, sid, despite, copy, check, fault, implicit, aux>>

\* The supervisor ends for any reason; systemd runs ExecStopPost with the
\* session written into the unit, and may restart the supervisor.
SupervisorEnds(p) ==
    /\ p \in Handlers
    /\ supervisor # NoSession
    /\ Goto(p, "idle", "handler")
    /\ sid' = [sid EXCEPT ![p] = supervisor]
    /\ supervisor' \in {supervisor, NoSession}
    /\ UNCHANGED <<files, mutex, table, repair, despite, copy, check, fault, outcome, implicit, aux>>

\* Faulty variant: a lost lock means there is nothing to contain.
HandlerCallsTrusting(p) ==
    lockFile.phase = "running" /\ lockFile.sid = sid[p] /\ lockFile.wd

\* supervision_terminated(expected_session): an unreadable or missing lock is
\* replaced by one that requires supervision.
HandlerCalls(p) ==
    \/ ~Readable(lockFile)
    \/ lockFile.sid = sid[p] /\ lockFile.wd /\ lockFile.phase # "stopping"

Terminated(p) ==
    /\ \/ /\ HandlerCalls(p)
          /\ Goto(p, "handler", "acquire")
          /\ repair' = [repair EXCEPT ![p] = TRUE]
          /\ despite' = [despite EXCEPT ![p] = TRUE]
       \/ /\ ~HandlerCalls(p)
          /\ Goto(p, "handler", "session")
          /\ UNCHANGED <<repair, despite>>
    /\ UNCHANGED <<files, mutex, table, supervisor, sid, copy, check, fault, outcome, implicit, aux>>

\* transition(): the exclusive flock, released when its descriptor is closed.
Enter(p, from, to) ==
    /\ mutex = NoProc
    /\ mutex' = p
    /\ Goto(p, from, to)

Exit(p, from, to) ==
    /\ mutex' = NoProc
    /\ Goto(p, from, to)

Acquire(p) ==
    /\ Enter(p, "acquire", "marker")
    /\ UNCHANGED <<files, table, supervisor, local, aux>>

\* Faulty variant: the descriptor of the flock is not closed.
ReturnHolding(p, result) ==
    /\ pc' = [pc EXCEPT ![p] = "session"]
    /\ outcome' = [outcome EXCEPT ![p] = result]
    /\ UNCHANGED <<mutex, sid, repair, despite, copy, check, fault, implicit>>

\* request_emergency returns to its caller; its own locals are gone.
Return(p, result) ==
    /\ pc' = [pc EXCEPT ![p] = "session"]
    /\ mutex' = IF mutex = p THEN NoProc ELSE mutex
    /\ outcome' = [outcome EXCEPT ![p] = result]
    /\ repair' = [repair EXCEPT ![p] = FALSE]
    /\ despite' = [despite EXCEPT ![p] = FALSE]
    /\ check' = [check EXCEPT ![p] = FALSE]
    /\ fault' = [fault EXCEPT ![p] = FALSE]
    /\ UNCHANGED <<sid, copy, implicit>>

\* Faulty variant: a blocking flock without a deadline.
TransitionFailsInside(p) ==
    /\ pc[p] = "marker"
    /\ Return(p, "unconfirmed")
    /\ UNCHANGED <<files, table, supervisor, aux>>

\* session.transition_failed: the deadline passed or the file cannot be opened;
\* or, inside, the marker or the lock cannot be read.
TransitionFails(p) ==
    /\ \/ pc[p] \in {"acquire", "marker"}
       \/ pc[p] = "intent" /\ lockFile.phase = "corrupt" /\ ~despite[p]
    /\ Return(p, "unconfirmed")
    /\ UNCHANGED <<files, table, supervisor, aux>>

\* stop_was_requested(session_id)
StopWasRequested(s) == marker \in {s, AnySession}

\* Faulty variant: the retained marker is not consulted.
ReadMarkerSkipped(p) ==
    /\ Goto(p, "marker", "intent")
    /\ UNCHANGED <<files, mutex, table, supervisor, local, aux>>

ReadMarker(p) ==
    /\ pc[p] = "marker"
    /\ \/ /\ StopWasRequested(sid[p])
          /\ Return(p, "noop")
       \/ /\ ~StopWasRequested(sid[p])
          /\ Goto(p, "marker", "intent")
          /\ UNCHANGED <<mutex, local>>
    /\ UNCHANGED <<files, table, supervisor, aux>>

\* Faulty variant: any running session will do.
IntentHoldsForAny(p) ==
    IF Readable(lockFile) THEN lockFile.phase # "stopping" ELSE despite[p]

\* The session must still be the recorded one and not stopping; a missing or
\* corrupt lock passes only for the termination handler.
IntentHolds(p) ==
    IF Readable(lockFile) THEN lockFile.sid = sid[p] /\ lockFile.phase # "stopping"
                          ELSE despite[p]

ReadIntent(p) ==
    /\ pc[p] = "intent"
    /\ \/ /\ ~IntentHolds(p)
          /\ lockFile.phase # "corrupt"
          /\ Return(p, "noop")
       \/ /\ IntentHolds(p)
          /\ Goto(p, "intent", "latch")
          /\ UNCHANGED <<mutex, local>>
    /\ UNCHANGED <<files, table, supervisor, aux>>

\* Faulty variant: a latch that cannot be stored is ignored.
WriteLatchUnnoticed(p) ==
    /\ Goto(p, "latch", IF repair[p] THEN "inspect" ELSE "apply")
    /\ latch' \in {latch, [latch EXCEPT ![sid[p]] = "requested"]}
    /\ UNCHANGED <<lockFile, marker, mutex, table, supervisor, local, aux>>

\* The latch is written before the network is touched. A failed write, or
\* earlier evidence that cannot be read, adds a _failure diagnostic.
WriteLatch(p) ==
    /\ Goto(p, "latch", IF repair[p] THEN "inspect" ELSE "apply")
    /\ \/ \* the record is stored
          /\ latch' = [latch EXCEPT ![sid[p]] = "requested"]
          /\ fault' \in {fault, [fault EXCEPT ![p] = TRUE]}
       \/ \* session.latch_write_failed
          /\ fault' = [fault EXCEPT ![p] = TRUE]
          /\ UNCHANGED latch
    /\ UNCHANGED <<lockFile, marker, mutex, table, supervisor, sid, repair, despite, copy, check, outcome, implicit, aux>>

\* inspect_emergency_rules: a listing that fails or times out verifies nothing.
Inspected(p) == check' \in {[check EXCEPT ![p] = FALSE],
                            [check EXCEPT ![p] = MatchesEmergencyContract(table)]}

InspectFirst(p) ==
    /\ Inspected(p)
    /\ Goto(p, "inspect", IF check'[p] THEN "publish" ELSE "apply")
    /\ UNCHANGED <<files, mutex, table, supervisor, sid, repair, despite, copy, fault, outcome, implicit, aux>>

\* nft replaces the whole table or leaves it; a timed-out nft may have done
\* either. The failure itself does not decide the result: the inspection does.
ApplyEmergency(p) ==
    /\ Goto(p, "apply", "verify")
    /\ table' \in {table, ApplyKillswitchTo(table)}
    /\ UNCHANGED <<files, mutex, supervisor, local, aux>>

Verify(p) ==
    /\ Goto(p, "verify", "publish")
    /\ Inspected(p)
    /\ UNCHANGED <<files, mutex, table, supervisor, sid, repair, despite, copy, fault, outcome, implicit, aux>>

\* Faulty variant: the kernel inspection alone decides the result.
PublishByInspection(p) ==
    /\ pc[p] = "publish"
    /\ Return(p, IF check[p] THEN "verified" ELSE "unconfirmed")
    /\ latch' \in {latch, [latch EXCEPT ![sid[p]] = IF check[p] THEN "verified" ELSE "requested"]}
    /\ UNCHANGED <<lockFile, marker, table, supervisor, aux>>

\* Faulty variant: an unconfirmed containment takes the record back.
PublishRetracting(p) ==
    /\ pc[p] = "publish"
    /\ latch' = [latch EXCEPT ![sid[p]] = IF check[p] THEN "verified" ELSE "absent"]
    /\ Return(p, IF check[p] /\ ~fault[p] THEN "verified" ELSE "unconfirmed")
    /\ UNCHANGED <<lockFile, marker, table, supervisor, aux>>

\* The second write of the record, and the exit code of the whole result.
Publish(p) ==
    /\ pc[p] = "publish"
    /\ \/ /\ latch' = [latch EXCEPT ![sid[p]] = IF check[p] THEN "verified" ELSE "requested"]
          /\ Return(p, IF check[p] /\ ~fault[p] THEN "verified" ELSE "unconfirmed")
       \/ \* session.evidence_write_failed
          /\ Return(p, "unconfirmed")
          /\ UNCHANGED latch
    /\ UNCHANGED <<lockFile, marker, table, supervisor, aux>>

--------------------------------------------------------------------------------
(* ttp start: the steps that touch the shared state *)

\* check_session_state: any readable lock refuses; a corrupt one reads as none.
StartCheck(p) ==
    /\ p \in Starters
    /\ ~Readable(lockFile)
    /\ Goto(p, "idle", "rules")
    /\ UNCHANGED <<files, mutex, table, supervisor, local, aux>>

\* firewall.apply_rules; on failure it destroys the table and start exits.
ApplyRules(p) ==
    /\ \/ Goto(p, "rules", "record") /\ table' = ApplyRulesTo(table)
       \/ Goto(p, "rules", "undo") /\ table' \in {table, FlushRules(table)}
    /\ UNCHANGED <<files, mutex, supervisor, local, aux>>

\* A later failure of start (DNS, the lock write) also destroys the table.
StartFails(p) ==
    /\ Goto(p, "record", "undo") \/ Goto(p, "failed", "undo")
    /\ table' \in {table, FlushRules(table)}
    /\ UNCHANGED <<files, mutex, supervisor, local, aux>>

UndoRules(p) ==
    /\ Goto(p, "undo", "idle")
    /\ table' \in {"none", table}
    /\ Forget(p)
    /\ UNCHANGED <<files, mutex, supervisor, aux>>

\* write_lock: the new intent replaces the file, then the marker is unlinked.
WriteLock(p) ==
    /\ Goto(p, "record", "unmark")
    /\ \E s \in Sessions \ used :
          /\ used' = used \cup {s}
          /\ sid' = [sid EXCEPT ![p] = s]
          /\ \E w \in BOOLEAN : lockFile' = [sid |-> s, phase |-> "running", wd |-> w]
    /\ UNCHANGED <<marker, latch, mutex, table, supervisor, repair, despite, copy, check, fault,
                   outcome, implicit, terminated, abandoned, crashes, damage>>

\* An unlink that fails is the StateError of a write_lock whose lock is already in
\* place: start reports it and undoes its rules, and nobody removes the lock.
ClearMarker(p) ==
    /\ \/ /\ Goto(p, "unmark", "idle")
          /\ marker' = NoSession
          /\ Forget(p)
          /\ UNCHANGED abandoned
       \/ /\ Goto(p, "unmark", "failed")
          /\ abandoned' = abandoned \cup ({sid[p]} \ terminated)
          /\ UNCHANGED <<marker, local>>
    /\ UNCHANGED <<lockFile, latch, mutex, table, supervisor, used, terminated, crashes, damage>>

\* start_watchdog, each of its two update_lock_keys: the lock is read, then
\* written back, and no transition is held. The unit may then come up for the
\* session.
UpdateRead(p) ==
    /\ p \in Starters
    /\ Readable(lockFile)
    /\ Goto(p, "session", "updwrite")
    /\ copy' = [copy EXCEPT ![p] = lockFile]
    /\ UNCHANGED <<files, mutex, table, supervisor, sid, repair, despite, check, fault, outcome, implicit, aux>>

UpdateWrite(p) ==
    /\ Goto(p, "updwrite", "session")
    /\ lockFile' = [copy[p] EXCEPT !.wd = TRUE]
    /\ supervisor' \in {supervisor, sid[p]}
    /\ copy' = [copy EXCEPT ![p] = Absent]
    /\ UNCHANGED <<marker, latch, mutex, table, sid, repair, despite, check, fault, outcome, implicit, aux>>

--------------------------------------------------------------------------------
(* ttp stop *)

\* restart_command and signal_handler refuse a latched session before do_stop.
RestartCheck(p) ==
    /\ p \in Restarters
    /\ Readable(lockFile)
    /\ latch[lockFile.sid] = "absent"
    /\ Goto(p, "idle", "unlatched")
    /\ implicit' = [implicit EXCEPT ![p] = TRUE]
    /\ UNCHANGED <<files, mutex, table, supervisor, sid, repair, despite, copy, check, fault, outcome, aux>>

\* do_stop: without a readable lock there is nothing to stop.
StopBegin(p) ==
    /\ p \in Stoppers
    /\ \/ /\ Readable(lockFile)
          /\ \/ Goto(p, "idle", "stopacquire")
             \/ Goto(p, "unlatched", "stopacquire")
          /\ sid' = [sid EXCEPT ![p] = lockFile.sid]
          /\ UNCHANGED <<repair, despite, copy, check, fault, outcome, implicit>>
       \/ /\ ~Readable(lockFile)
          /\ Goto(p, "unlatched", "idle")
          /\ Forget(p)
    /\ UNCHANGED <<files, mutex, table, supervisor, aux>>

\* ttp stop --restore-only needs no session.
RestoreOnly(p) ==
    /\ p \in Forcers
    /\ Goto(p, "idle", "forceacquire")
    /\ UNCHANGED <<files, mutex, table, supervisor, local, aux>>

StopAcquire(p) ==
    /\ \/ Enter(p, "stopacquire", "markcheck")
       \/ Enter(p, "forceacquire", "forcemark")
    /\ UNCHANGED <<files, table, supervisor, local, aux>>

\* The transition cannot be entered: the command fails with nothing changed.
StopRefused(p) ==
    /\ \/ Goto(p, "stopacquire", "idle")
       \/ Goto(p, "forceacquire", "idle")
    /\ Forget(p)
    /\ UNCHANGED <<files, mutex, table, supervisor, aux>>

\* mark_stopping: the lock must still name the session do_stop read.
MarkCheck(p) ==
    \/ /\ lockFile.sid = sid[p]
       /\ Goto(p, "markcheck", "markread")
       /\ UNCHANGED <<files, mutex, table, supervisor, local, aux>>
    \/ /\ lockFile.sid # sid[p]
       /\ Exit(p, "markcheck", "idle")
       /\ Forget(p)
       /\ UNCHANGED <<files, table, supervisor, aux>>

\* update_lock_keys(phase="stopping"): a read, then a write; either may fail and
\* the command ends with the exception.
MarkRead(p) ==
    /\ Readable(lockFile)
    /\ Goto(p, "markread", "markwrite")
    /\ copy' = [copy EXCEPT ![p] = lockFile]
    /\ UNCHANGED <<files, mutex, table, supervisor, sid, repair, despite, check, fault, outcome, implicit, aux>>

\* Faulty variant: the phase key is not updated.
MarkWriteUnphased(p) ==
    /\ Goto(p, "markwrite", "markdone")
    /\ lockFile' = copy[p]
    /\ copy' = [copy EXCEPT ![p] = Absent]
    /\ UNCHANGED <<marker, latch, mutex, table, supervisor, sid, repair, despite, check, fault, outcome, implicit, aux>>

MarkWrite(p) ==
    /\ Goto(p, "markwrite", "markdone")
    /\ lockFile' = [copy[p] EXCEPT !.phase = "stopping"]
    /\ copy' = [copy EXCEPT ![p] = Absent]
    /\ UNCHANGED <<marker, latch, mutex, table, supervisor, sid, repair, despite, check, fault, outcome, implicit, aux>>

MarkFails(p) ==
    /\ \/ pc[p] = "markread" /\ ~Readable(lockFile)
       \/ pc[p] \in {"markwrite", "markdone", "forcemark"}
    /\ Exit(p, pc[p], "idle")
    /\ Forget(p)
    /\ UNCHANGED <<files, table, supervisor, aux>>

\* write_stop_marker, and the end of the transition.
MarkDone(p) ==
    /\ Exit(p, "markdone", "unwatch")
    /\ marker' = sid[p]
    /\ terminated' = terminated \cup {sid[p]}
    /\ abandoned' = abandoned \ {sid[p]}
    /\ UNCHANGED <<lockFile, latch, table, supervisor, local, used, crashes, damage>>

ForceMark(p) ==
    /\ Exit(p, "forcemark", "unwatch")
    /\ marker' = AnySession
    /\ terminated' = used
    /\ abandoned' = {}
    /\ UNCHANGED <<lockFile, latch, table, supervisor, local, used, crashes, damage>>

\* stop_watchdog: systemctl stop ends the supervisor and waits, with a timeout,
\* for its ExecStopPost. An exception in it does not stop the teardown; nor is
\* it called for a session on an external daemon.
StopWatchdog(p) ==
    /\ \/ /\ supervisor = NoSession
          /\ Goto(p, "unwatch", "unread")
          /\ UNCHANGED <<sid, supervisor>>
       \/ /\ supervisor # NoSession
          /\ pc[p] = "unwatch"
          /\ \E h \in Handlers :
                /\ pc[h] = "idle"
                /\ pc' = [pc EXCEPT ![p] = "unwait", ![h] = "handler"]
                /\ sid' = [sid EXCEPT ![h] = supervisor]
          /\ supervisor' = NoSession
    /\ UNCHANGED <<files, mutex, table, repair, despite, copy, check, fault, outcome, implicit, aux>>

StopWaited(p) ==
    /\ \/ /\ \A h \in Handlers : pc[h] = "idle"
          /\ Goto(p, "unwait", "unread")
       \/ Goto(p, "unwait", "lockdown")
       \/ Goto(p, "unwatch", "lockdown")
    /\ UNCHANGED <<files, mutex, table, supervisor, local, aux>>

\* Its update_lock_keys(watchdog_active=False); a missing lock is ignored.
UnwatchRead(p) ==
    /\ \/ /\ Readable(lockFile)
          /\ Goto(p, "unread", "unwrite")
          /\ copy' = [copy EXCEPT ![p] = lockFile]
       \/ /\ ~Readable(lockFile)
          /\ Goto(p, "unread", "lockdown")
          /\ UNCHANGED copy
    /\ UNCHANGED <<files, mutex, table, supervisor, sid, repair, despite, check, fault, outcome, implicit, aux>>

UnwatchWrite(p) ==
    /\ Goto(p, "unwrite", "lockdown")
    /\ lockFile' = copy[p]
    /\ copy' = [copy EXCEPT ![p] = Absent]
    /\ UNCHANGED <<marker, latch, mutex, table, supervisor, sid, repair, despite, check, fault, outcome, implicit, aux>>

\* apply_teardown_lockdown, then apply_active_socket_slaughter; restore-only has
\* no session in hand and calls neither.
Lockdown(p) ==
    /\ Goto(p, "lockdown", "flush")
    /\ \/ table' = table
       \/ sid[p] # NoSession /\ table' = InsertDrop(table)
    /\ UNCHANGED <<files, mutex, supervisor, local, aux>>

\* destroy_rules: flush, result ignored, then delete; a failed delete raises.
Flush(p) ==
    /\ Goto(p, "flush", "delete")
    /\ table' \in {table, FlushRules(table)}
    /\ UNCHANGED <<files, mutex, supervisor, local, aux>>

\* do_stop deletes the lock even when the table could not be deleted;
\* restore-only lets the FirewallError out.
Delete(p) ==
    /\ \/ /\ Goto(p, "delete", "unlock")
          /\ table' = "none"
          /\ UNCHANGED local
       \/ /\ sid[p] # NoSession
          /\ Goto(p, "delete", "unlock")
          /\ UNCHANGED <<table, local>>
       \/ /\ sid[p] = NoSession
          /\ table # "none"
          /\ Goto(p, "delete", "idle")
          /\ Forget(p)
          /\ UNCHANGED table
    /\ UNCHANGED <<files, mutex, supervisor, aux>>

DeleteLock(p) ==
    /\ Goto(p, "unlock", "idle")
    /\ lockFile' = Absent
    /\ Forget(p)
    /\ UNCHANGED <<marker, latch, mutex, table, supervisor, aux>>

--------------------------------------------------------------------------------
(* The environment *)

\* A process is killed; the kernel drops its flock with its descriptors.
Crash(p) ==
    /\ crashes < MaxCrashes
    /\ pc[p] # "idle"
    /\ crashes' = crashes + 1
    /\ pc' = [pc EXCEPT ![p] = "idle"]
    /\ mutex' = IF mutex = p THEN NoProc ELSE mutex
    /\ Forget(p)
    /\ UNCHANGED <<files, table, supervisor, used, terminated, abandoned, damage>>

\* The lock file is removed or overwritten behind TTP's back.
DamageLock ==
    /\ damage < MaxDamage
    /\ Readable(lockFile)
    /\ damage' = damage + 1
    /\ lockFile' \in {Absent, Corrupt}
    /\ UNCHANGED <<marker, latch, mutex, table, supervisor, pc, local, used, terminated, abandoned, crashes>>

--------------------------------------------------------------------------------
RequestStep(p) ==
    \/ Acquire(p) \/ TransitionFails(p) \/ ReadMarker(p) \/ ReadIntent(p)
    \/ WriteLatch(p) \/ InspectFirst(p)
    \/ ApplyEmergency(p) \/ Verify(p) \/ Publish(p)

ObserverStep(p) ==
    \/ Observe(p) \/ Leave(p) \/ Request(p) \/ SupervisorEnds(p) \/ Terminated(p)

StartStep(p) ==
    \/ StartCheck(p) \/ ApplyRules(p) \/ StartFails(p) \/ UndoRules(p)
    \/ WriteLock(p) \/ ClearMarker(p) \/ UpdateRead(p) \/ UpdateWrite(p)

StopStep(p) ==
    \/ RestartCheck(p) \/ StopBegin(p) \/ RestoreOnly(p) \/ StopAcquire(p) \/ StopRefused(p)
    \/ MarkCheck(p) \/ MarkRead(p) \/ MarkWrite(p) \/ MarkFails(p) \/ MarkDone(p) \/ ForceMark(p)
    \/ StopWatchdog(p) \/ StopWaited(p) \/ UnwatchRead(p) \/ UnwatchWrite(p)
    \/ Lockdown(p) \/ Flush(p) \/ Delete(p) \/ DeleteLock(p)

Next ==
    \/ \E p \in Procs :
          RequestStep(p) \/ ObserverStep(p) \/ StartStep(p) \/ StopStep(p) \/ Crash(p)
    \/ DamageLock

Spec == Init /\ [][Next]_vars

\* A command that has begun runs on: the kernel schedules it, every subprocess
\* and every wait has a timeout. Nobody is obliged to start a command or to call
\* request_emergency.
Underway(p) ==
    /\ pc[p] \notin {"idle", "session"}
    /\ RequestStep(p) \/ ObserverStep(p) \/ StartStep(p) \/ StopStep(p)

FairSpec == Spec /\ \A p \in Procs : WF_vars(Underway(p))

--------------------------------------------------------------------------------
(* Properties that hold whatever commands overlap *)

\* Explicit termination and emergency containment are serialized: the flock has
\* a holder exactly while that process is inside "with transition()", on every
\* exit path of request_emergency, mark_stopping and restore-only.
MutualExclusion == \A p \in Procs : mutex = p <=> pc[p] \in Critical

\* Between its check of the explicit-stop marker and the end of the transition,
\* request_emergency never works against a published stop of its session.
StopIntentRespected ==
    \A p \in Procs : pc[p] \in Committed => ~StopWasRequested(sid[p])

\* The killswitch is only ever installed by a request that already latched the
\* emergency (or knows that it could not) and whose session was not stopped:
\* "latch first, apply if necessary" in request_emergency.
ArmingStep ==
    table # "emergency" /\ table' = "emergency" =>
        \E p \in Procs : /\ pc[p] = "apply"
                         /\ ~StopWasRequested(sid[p])
                         /\ latch[sid[p]] # "absent" \/ fault[p]

LatchBeforeArming == [][ArmingStep]_vars

\* A request that reports verified containment left a latch that a restarted
\* supervisor will find; a latch that could not be stored is reported as
\* unconfirmed by request_emergency.
VerifiedIsLatched ==
    \A p \in Procs : outcome[p] = "verified" => latch[sid[p]] # "absent"

\* The handler of a session excuses itself only when the session was stopped,
\* was replaced or no longer asks for supervision, or when its start reported that
\* it failed, being unable to remove the marker of restore-only.
Excused(s) ==
    \/ s \in terminated
    \/ s \in abandoned /\ marker = AnySession
    \/ Readable(lockFile) /\ (lockFile.sid # s \/ lockFile.phase = "stopping" \/ ~lockFile.wd)

\* A termination handler never comes back without an answer: with the lock lost
\* or corrupted, the flock contended, or the latch not storable, it contained
\* the session or says that it could not (session_safety.supervision_terminated).
\* MarkersSettle, below, is what this assumes of restore-only.
AnswerStep ==
    \A h \in Handlers :
        pc[h] # "session" /\ pc'[h] = "session" =>
            outcome'[h] \in {"verified", "unconfirmed"} \/ Excused(sid[h])

LossIsAnswered == [][AnswerStep]_vars

--------------------------------------------------------------------------------
(* The inductive strengthening of the properties above *)

\* A process past its first read knows a session, and what update_lock_keys is
\* about to write back is a session lock.
SessionPoints == {"session", "acquire", "handler", "updwrite", "stopacquire",
                  "markcheck", "markread", "markwrite", "markdone", "unmark", "failed"} \cup RequestCritical

HoldsSession == \A p \in Procs :
    /\ pc[p] \in SessionPoints => sid[p] \in Sessions
    /\ pc[p] \in {"updwrite", "markwrite", "unwrite"} => copy[p] \in Recorded

\* A result is in hand only after request_emergency returned.
ResultAtRest == \A p \in Procs : outcome[p] # "none" => pc[p] \in {"session", "updwrite"}

\* Past the first write of the record, the latch is stored or its loss is noted.
LatchedOrFault == \A p \in Procs :
    pc[p] \in {"inspect", "apply", "verify", "publish"} =>
        latch[sid[p]] # "absent" \/ fault[p]

\* What every step of every process preserves: the properties above with the
\* facts about locals and points that make them inductive.
SafetyInv ==
    /\ TypeOK
    /\ HoldsSession
    /\ MutualExclusion
    /\ StopIntentRespected
    /\ ResultAtRest
    /\ LatchedOrFault
    /\ VerifiedIsLatched

--------------------------------------------------------------------------------
(* The inductive strengthening of LossIsAnswered *)

\* What it assumes of restore-only, whose marker is every session's: there is none, or
\* no write_lock is cut off before it removes that marker, nor observed by another
\* start. (A start killed there leaves a session whose emergencies go unanswered.)
MarkersSettle == Forcers = {} \/ (MaxCrashes = 0 /\ \A p, q \in Starters : p = q)

\* start before its lock, do_stop after its marker, and all of do_stop.
Starting == {"rules", "undo", "record"}
Teardown == {"unwatch", "unwait", "unread", "unwrite", "lockdown", "flush", "delete", "unlock"}
Stopping == {"unlatched", "stopacquire"} \cup MarkCritical \cup Teardown

\* Who can be where.
RolesInv == \A p \in Procs :
    /\ pc[p] \in Starting \cup {"unmark", "failed", "updwrite"} => p \in Starters
    /\ pc[p] \in Stopping => p \in Stoppers
    /\ pc[p] \in {"forceacquire", "forcemark"} => p \in Forcers
    /\ pc[p] = "handler" \/ despite[p] => p \in Handlers
    /\ p \in Handlers /\ pc[p] \in {"acquire"} \cup RequestCritical => despite[p]

\* Identities are drawn before they are seen anywhere, and stops are of drawn ones.
KnownInv ==
    /\ terminated \cup abandoned \subseteq used /\ terminated \cap abandoned = {}
    /\ marker \in terminated \cup {NoSession} \/ (marker = AnySession /\ Forcers # {})
    /\ lockFile.sid \in used \cup {NoSession} /\ supervisor \in used \cup {NoSession}
    /\ \A p \in Procs : sid[p] \in used \cup {NoSession} /\ copy[p].sid \in used \cup {NoSession}
    /\ \A s \in Sessions : latch[s] # "absent" => s \in used

\* The sessions whose write_lock has yet to unlink the marker.
Recording == {sid[p] : p \in {q \in Procs : pc[q] = "unmark"}}

\* While the marker of restore-only is there, every session was stopped or its start
\* failed, except one whose write_lock is about to remove the marker.
Settled == terminated \cup abandoned \cup {NoSession}

RestoreInv == marker = AnySession =>
    /\ supervisor \in Settled
    /\ \A p \in Handlers \cup Starters : pc[p] = "unmark" \/ sid[p] \in Settled
    /\ lockFile.sid \in Settled \cup Recording
    /\ \A p \in Procs : copy[p].sid \in Settled \cup Recording

LossInv == RolesInv /\ KnownInv /\ RestoreInv

--------------------------------------------------------------------------------
(* Properties of one starter and one ordinary stopper *)

\* While a session is recorded as running and no stop of it is published, no
\* interleaving of start, stop, checks, handlers and killed processes leaves
\* its traffic in cleartext. The one exception is a start that failed behind its
\* own record: its clean-up opens the host, start says so, and the lock stays.
FailClosed ==
    /\ lockFile.phase = "running" /\ ~StopWasRequested(lockFile.sid)
    /\ lockFile.sid \notin abandoned
    => ~Cleartext(table)

\* What a request for the recorded session is about to publish as verified is
\* what the kernel holds, unless the clean-up of that session's own failed start,
\* which takes no transition, came in between.
VerdictIsCurrent ==
    \A p \in Procs :
        /\ pc[p] = "publish" /\ check[p]
        /\ lockFile.phase = "running" /\ lockFile.sid = sid[p]
        /\ sid[p] \notin abandoned
        => table = "emergency"

\* A process that read a session lock never arms that session after the stop
\* of it was published, however late it calls request_emergency.
StaleStep ==
    \A p \in Workers \cup Starters :
        pc[p] = "apply" /\ table # table' => sid[p] \notin terminated

StaleNeverRearms == [][StaleStep]_vars

\* When every command has returned, a recorded session has its table: the lock
\* does not outlive it.
LockHasTable ==
    (\A p \in Procs : pc[p] \in {"idle", "session"}) /\ Readable(lockFile) => table # "none"

--------------------------------------------------------------------------------
(* The inductive strengthening of the properties of one starter and stopper *)

\* What these properties assume: one process at a time runs start and one runs stop,
\* without --restore-only, and only TTP touches the lock file. There may be any
\* number of workers, handlers and killed processes.
SoleCommands ==
    /\ \A p, q \in Starters : p = q
    /\ \A p, q \in Stoppers : p = q
    /\ Forcers = {} /\ MaxDamage = 0

\* do_stop works on the recorded session from its first read to the removal.
StopperInv == \A p \in Procs : pc[p] \in Stopping =>
    /\ Readable(lockFile)
    /\ pc[p] # "unlatched" => lockFile.sid = sid[p]
    /\ pc[p] \in {"markwrite", "unwrite"} => copy[p].sid = sid[p]
    /\ pc[p] \in Teardown => sid[p] \in terminated

\* start finds no session and its clean-up at most its own; what its update writes
\* back is the recorded session, or one that was stopped and is seen to be.
StarterInv == \A p \in Procs :
    /\ pc[p] \in {"rules", "record"} => ~Readable(lockFile)
    /\ pc[p] \in {"unmark", "failed"} => lockFile.sid \in {sid[p], NoSession}
    /\ pc[p] = "undo" => lockFile.sid \in terminated \cup abandoned \cup {NoSession}
    /\ pc[p] = "failed" => sid[p] \in terminated \cup abandoned
    /\ pc[p] = "record" => table = "redirect" \/ (table = "emergency" /\ Handlers # {})
    /\ pc[p] = "updwrite" =>
        IF Readable(lockFile) THEN copy[p].sid = lockFile.sid
        ELSE copy[p].sid \in terminated /\ (copy[p].phase = "stopping" \/ marker = copy[p].sid)

\* The recorded phase and every copy of it say that the session is stopping.
Sealed ==
    /\ lockFile.phase = "stopping"
    /\ \A p \in Procs : pc[p] \in {"updwrite", "unwrite"} => copy[p].phase = "stopping"

\* A stopped session is seen to be stopped: by the marker as long as write_lock is
\* not about to unlink it, and otherwise by its phase.
SealInv ==
    /\ Readable(lockFile) /\ lockFile.sid \in terminated =>
        Sealed \/ (marker = lockFile.sid /\ \A p \in Procs : pc[p] # "unmark")
    /\ \A p, q \in Procs : pc[p] = "unmark" /\ pc[q] = "markdone" => lockFile.phase = "stopping"

\* A session that was drawn is the recorded one or was stopped.
DrawnInv == used \subseteq terminated \cup {lockFile.sid}

\* A request past its checks works for the recorded session, which was not stopped.
RequestInv == \A p \in Procs \ Handlers : pc[p] \in Committed \ {"intent"} =>
    Readable(lockFile) /\ lockFile.sid = sid[p] /\ sid[p] \notin terminated

\* The table of a session that was neither stopped nor abandoned, and what is known of it.
TableInv == Readable(lockFile) /\ lockFile.sid \notin terminated \cup abandoned =>
    /\ ~Cleartext(table)
    /\ \A p \in Procs : pc[p] = "publish" /\ check[p] /\ lockFile.sid = sid[p] => table = "emergency"

SoleInv ==
    /\ RolesInv /\ KnownInv /\ StopperInv /\ StarterInv /\ DrawnInv /\ SealInv /\ RequestInv /\ TableInv

--------------------------------------------------------------------------------
(* What the shared files and the table amount to *)

\* Where the table sends the traffic of an ordinary process.
Net ==
    CASE Cleartext(table)     -> "clear"
      [] table = "redirect"   -> "tor"
      [] table = "emergency"  -> "held"
      [] OTHER                -> "blocked"

Promise == INSTANCE Containment WITH
    net     <- Net,
    current <- lockFile.sid,
    pending <- Recording,
    stopped <- terminated,
    abandoned <- abandoned,
    alarms  <- {s \in Sessions : latch[s] # "absent"},
    Stragglers <- Handlers # {}

\* request_emergency, mark_stopping, write_lock, start and do_stop together
\* implement the promise: the flock, the marker and the two fields of the lock
\* act as one record of one session, whose alarm and killswitch stay until its
\* termination is published or its own start reports that it failed. With
\* termination handlers it is the promise with stragglers.
KeepsPromise == Promise!Spec

--------------------------------------------------------------------------------
(* Liveness *)

\* Every command and every request returns: nobody waits for ever for the
\* transition lock, whoever keeps taking it.
CommandsReturn ==
    \A p \in Procs : pc[p] \notin {"idle", "session"} ~> pc[p] \in {"idle", "session"}

--------------------------------------------------------------------------------
(* Statements of the documentation that the code does not keep *)

\* docs/architecture.md: "Restart cannot clear the latch."
RestartStep ==
    \A p \in Restarters :
        implicit[p] /\ pc[p] = "markdone" /\ marker' = sid[p] /\ marker' # marker =>
            latch[sid[p]] = "absent"

RestartKeepsLatch == [][RestartStep]_vars

\* docs/architecture.md: "A stale process cannot re-arm a replacement session";
\* session_safety.py: "A stale worker must not re-arm after explicit stop".
HandlerStep ==
    \A h \in Handlers : pc[h] = "apply" /\ table # table' => sid[h] \notin terminated

HandlerNeverRearms == [][HandlerStep]_vars
================================================================================
