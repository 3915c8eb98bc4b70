------------------------------ MODULE Verification ------------------------------
(***************************************************************************)
(* Route verification: ttp check, and the end of ttp start.                *)
(*                                                                         *)
(* A command reads the session lock once, spends a budget of up to a       *)
(* minute asking third parties what its traffic looks like, and then acts  *)
(* on the lock it read: it records the verdict, requests containment for a *)
(* negative one, and turns everything it learnt into one exit code. The    *)
(* session may be contained, stopped or replaced while it waits.           *)
(*                                                                         *)
(* request_emergency is one step here; SessionSafety has its interleavings.*)
(***************************************************************************)
EXTENDS Naturals, FiniteSets

CONSTANTS
    Sessions,    \* the session identities that may ever be drawn
    NoSession,   \* the absence of a session lock
    Checkers,    \* processes that run ttp check
    Starters,    \* processes that run ttp start
    Attempts,    \* verify_session's rounds over the endpoints
    FetchLimit,  \* the longest one fetch may take
    Pause,       \* the sleep between two rounds
    Budget,      \* the timeout verify_session is given
    Policies     \* what a session may freeze in its lock (below)

Procs == Checkers \cup Starters

ASSUME ProbeAssumption ==
    /\ Attempts \in Nat \ {0}
    /\ FetchLimit \in Nat \ {0}
    /\ Pause \in Nat \ {0}
    /\ Budget \in Nat \ {0}
    /\ NoSession \notin Sessions
    /\ Checkers \cap Starters = {}
    /\ Policies \subseteq [wd : BOOLEAN, notify : BOOLEAN, exempt : BOOLEAN]

\* The endpoints in the order they are asked; only the first is an authority.
Endpoints == 1 .. 3
Authority == 1

--------------------------------------------------------------------------------
(* evidence.py *)

OK == 0
ERROR == 1
UNVERIFIED == 3
WATCHDOG_UNAVAILABLE == 5
TOR_NEGATIVE == 6
EMERGENCY_VERIFIED == 7
CONTAINMENT_UNCONFIRMED == 8
NOTIFICATION_FAILED == 9

ExitCodes == {OK, ERROR, UNVERIFIED, WATCHDOG_UNAVAILABLE, TOR_NEGATIVE,
              EMERGENCY_VERIFIED, CONTAINMENT_UNCONFIRMED, NOTIFICATION_FAILED}

\* _PRIORITY, highest last.
Ranked == <<OK, UNVERIFIED, NOTIFICATION_FAILED, ERROR, WATCHDOG_UNAVAILABLE,
            TOR_NEGATIVE, EMERGENCY_VERIFIED, CONTAINMENT_UNCONFIRMED>>

Rank(c) == CHOOSE i \in DOMAIN Ranked : Ranked[i] = c

\* Faulty variant: the first diagnostic that was added decides.
LowestCode(codes) ==
    IF codes = {} THEN OK ELSE CHOOSE c \in codes : \A d \in codes : Rank(d) >= Rank(c)

\* Result.exit_code over the codes of the active diagnostics.
ExitCodeOf(codes) ==
    IF codes = {} THEN OK ELSE CHOOSE c \in codes : \A d \in codes : Rank(d) <= Rank(c)

\* Verification.result; a confirmed one keeps its failures as inactive history.
VerificationCodes(state) ==
    CASE state = "confirmed" -> {}
      [] state = "negative" -> {TOR_NEGATIVE}
      [] OTHER -> {UNVERIFIED}

--------------------------------------------------------------------------------
\* What a session freezes in its lock, as far as verification reads it: the
\* supervision and notification settings, and whether the probe's own account
\* (or cgroup) is exempt from the redirection.
Absent == [sid |-> NoSession, wd |-> FALSE, notify |-> FALSE, exempt |-> FALSE]
Recorded == [sid : Sessions, wd : BOOLEAN, notify : BOOLEAN, exempt : BOOLEAN]
Fresh(past) ==
    {r \in Recorded : r.sid \notin past /\ [wd |-> r.wd, notify |-> r.notify, exempt |-> r.exempt] \in Policies}
Locks == Recorded \cup {Absent}

States == {"not_run", "confirmed", "negative", "inconclusive"}
Sights == {"unseen", "ended", "tor", "direct", "down"}

VARIABLES
    lock,      \* the recorded session
    table,     \* the kernel table: "none", "rules" or "emergency"
    latch,     \* the emergency records
    stopped,   \* sessions whose explicit stop was published
    pc,
    held,      \* the lock each command read
    attempt, endpoint,
    left,      \* deadline - boottime()
    verdict, codes,
    code,      \* the exit code of a command that returned
    seen,      \* history: the session's route when the authority answered, "ended"
               \* when it was no longer the recorded one
    early,     \* history: an emergency was latched when the probe ended
    armed      \* history: the command installed the killswitch

env   == <<lock, table, latch, stopped>>
probe == <<attempt, endpoint, left>>
vars  == <<lock, table, latch, stopped, pc, held, attempt, endpoint, left,
           verdict, codes, code, seen, early, armed>>

Points == {"idle", "latch", "observe", "watchdog", "bootstrap", "identity",
           "fetch", "pause", "record", "contain", "supervised", "relatch", "emit", "done"}

TypeOK ==
    /\ lock \in Locks
    /\ table \in {"none", "rules", "emergency"}
    /\ latch \in [Sessions -> BOOLEAN]
    /\ stopped \subseteq Sessions
    /\ pc \in [Procs -> Points]
    /\ held \in [Procs -> Locks]
    /\ attempt \in [Procs -> 1 .. Attempts]
    /\ endpoint \in [Procs -> Endpoints]
    /\ left \in [Procs -> 0 .. Budget]
    /\ verdict \in [Procs -> States]
    /\ codes \in [Procs -> SUBSET ExitCodes]
    /\ code \in [Procs -> ExitCodes]
    /\ seen \in [Procs -> Sights]
    /\ early \in [Procs -> BOOLEAN]
    /\ armed \in [Procs -> BOOLEAN]

Init ==
    /\ lock = Absent
    /\ table = "none"
    /\ latch = [s \in Sessions |-> FALSE]
    /\ stopped = {}
    /\ pc = [p \in Procs |-> "idle"]
    /\ held = [p \in Procs |-> Absent]
    /\ attempt = [p \in Procs |-> 1]
    /\ endpoint = [p \in Procs |-> Authority]
    /\ left = [p \in Procs |-> Budget]
    /\ verdict = [p \in Procs |-> "not_run"]
    /\ codes = [p \in Procs |-> {}]
    /\ code = [p \in Procs |-> OK]
    /\ seen = [p \in Procs |-> "unseen"]
    /\ early = [p \in Procs |-> FALSE]
    /\ armed = [p \in Procs |-> FALSE]

Goto(p, from, to) == pc[p] = from /\ pc' = [pc EXCEPT ![p] = to]

Add(p, more) == codes' = [codes EXCEPT ![p] = @ \cup more]

--------------------------------------------------------------------------------
(* verify_session *)

\* Where a session's redirected traffic may come out: through Tor, in the clear
\* (Tor or the rules are not what they should be), or nowhere.
SessionRoutes == CASE table = "none" -> {"direct"}
                   [] table = "emergency" -> {"down"}
                   [] OTHER -> {"tor", "direct", "down"}

\* The probe's own traffic: the kernel does not redirect an account that the table
\* loaded at that moment exempts, the table of the session recorded by then.
ProbeRoute(route) == IF table = "rules" /\ lock.exempt THEN "direct" ELSE route

\* What that says of the session the command asks about: its route, as long as it is
\* the recorded one and no stop takes it down.
Sight(p, route) == IF lock.sid = held[p].sid /\ lock.sid \notin stopped THEN route ELSE "ended"

\* _fetch for the authority: its valid IsTor with an address, a body without
\* them ("odd"), an error of the network or the deadline, or a worker that
\* cannot run or answers nonsense ("fatal"). A reflector has only an address.
Answers(p, route) ==
    {"odd", "error", "fatal"} \cup
    IF ProbeRoute(route) = "down" THEN {}
    ELSE IF endpoint[p] = Authority THEN {ProbeRoute(route)} ELSE {"address"}

\* What verify_session returns; its own locals are gone.
Conclude(p, state, route) ==
    /\ verdict' = [verdict EXCEPT ![p] = state]
    /\ Add(p, VerificationCodes(state))
    /\ attempt' = [attempt EXCEPT ![p] = 1]
    /\ endpoint' = [endpoint EXCEPT ![p] = Authority]
    /\ left' = [left EXCEPT ![p] = Budget]
    /\ seen' = [seen EXCEPT ![p] = route]
    /\ early' = [early EXCEPT ![p] = held[p].sid # NoSession /\ latch[held[p].sid]]
    /\ pc' = [pc EXCEPT ![p] = IF held[p].sid = NoSession THEN "emit" ELSE "record"]
    /\ UNCHANGED armed

\* Faulty variant: the exemptions of the session are not looked at.
IdentityUnchecked(p) ==
    /\ Goto(p, "identity", "fetch")
    /\ UNCHANGED <<env, held, probe, verdict, codes, code, seen, early, armed>>

\* _identity: the worker's account is not resolved, or is one of the session's
\* exemptions.
Identity(p) ==
    /\ pc[p] = "identity"
    /\ \/ Conclude(p, "inconclusive", "unseen")
       \/ /\ ~held[p].exempt
          /\ Goto(p, "identity", "fetch")
          /\ UNCHANGED <<attempt, endpoint, left, verdict, codes, seen, early, armed>>
    /\ UNCHANGED <<env, held, code>>

Least(a, b) == IF a < b THEN a ELSE b

\* The next endpoint of the round, or the end of the round.
NextEndpoint(p) ==
    IF endpoint[p] = 3 THEN /\ Goto(p, "fetch", "pause")
                            /\ UNCHANGED endpoint
                       ELSE /\ endpoint' = [endpoint EXCEPT ![p] = @ + 1]
                            /\ UNCHANGED pc

\* How long one fetch may take: the worker is killed at its timeout.
FetchTime(p) == 0 .. Least(FetchLimit, left[p])

\* The answers that end the verification, and what they mean.
Concludes(p, answer) ==
    CASE answer = "tor" -> "confirmed"
      [] answer = "direct" -> "negative"
      [] answer = "fatal" -> "inconclusive"
      [] OTHER -> "not_run"

\* The clock moves on by d.
Elapse(p, d) == left' = [left EXCEPT ![p] = @ - d]

Fetch(p) ==
    /\ pc[p] = "fetch"
    /\ \/ \* probe.deadline
          /\ left[p] = 0
          /\ Conclude(p, "inconclusive", "unseen")
       \/ /\ left[p] > 0
          /\ \E d \in FetchTime(p), route \in SessionRoutes : \E answer \in Answers(p, route) :
                \/ /\ Concludes(p, answer) # "not_run"
                   /\ Conclude(p, Concludes(p, answer), IF answer = "fatal" THEN "unseen" ELSE Sight(p, route))
                \/ /\ Concludes(p, answer) = "not_run"
                   /\ \/ answer = "address" /\ Goto(p, "fetch", "pause") /\ UNCHANGED endpoint
                      \/ answer # "address" /\ NextEndpoint(p)
                   /\ Elapse(p, d)
                   /\ UNCHANGED <<attempt, verdict, codes, seen, early, armed>>
    /\ UNCHANGED <<env, held, code>>

\* The end of a round: a bounded sleep and another one, or no answer at all.
PauseRound(p) ==
    /\ pc[p] = "pause"
    /\ \/ /\ attempt[p] = Attempts
          /\ Conclude(p, "inconclusive", "unseen")
       \/ /\ attempt[p] < Attempts
          /\ Goto(p, "pause", "fetch")
          /\ attempt' = [attempt EXCEPT ![p] = @ + 1]
          /\ endpoint' = [endpoint EXCEPT ![p] = Authority]
          /\ Elapse(p, Least(Pause, left[p]))
          /\ UNCHANGED <<verdict, codes, seen, early, armed>>
    /\ UNCHANGED <<env, held, code>>

--------------------------------------------------------------------------------
(* record_verification *)

\* The evidence is kept under the session that was probed; a failure to keep it
\* is one more diagnostic. A negative verdict goes on to request containment.
AfterRecord(p) == IF p \in Starters THEN "relatch" ELSE "supervised"

\* Faulty variant: containment is requested only with the evidence in hand.
RecordFirst(p) ==
    /\ \/ /\ Goto(p, "record", IF verdict[p] = "negative" THEN "contain" ELSE AfterRecord(p))
          /\ UNCHANGED codes
       \/ /\ Goto(p, "record", AfterRecord(p))
          /\ Add(p, {ERROR})
    /\ UNCHANGED <<env, held, probe, verdict, code, seen, early, armed>>

Record(p) ==
    /\ Goto(p, "record", IF verdict[p] = "negative" THEN "contain" ELSE AfterRecord(p))
    /\ UNCHANGED codes \/ Add(p, {ERROR})
    /\ UNCHANGED <<env, held, probe, verdict, code, seen, early, armed>>

\* request_emergency for the lock that was read: nothing at all when that
\* session was stopped or replaced; otherwise the latch and the killswitch, each
\* of which may fail, and a kernel inspection that may fail too.
StillRequired(p) == lock.sid = held[p].sid /\ lock.sid \notin stopped

RequestEmergency(p, cause) ==
    \/ /\ ~StillRequired(p)
       /\ UNCHANGED <<table, latch, codes, armed>>
    \/ /\ StillRequired(p)
       /\ latch' \in {latch, [latch EXCEPT ![held[p].sid] = TRUE]}
       /\ table' \in {table, "emergency"}
       /\ armed' = [armed EXCEPT ![p] = @ \/ table' # table]
       /\ \/ /\ latch'[held[p].sid] /\ table' = "emergency"
             /\ Add(p, {cause, EMERGENCY_VERIFIED})
          \/ Add(p, {cause, CONTAINMENT_UNCONFIRMED})
    \/ \* session.transition_failed
       /\ Add(p, {cause, CONTAINMENT_UNCONFIRMED})
       /\ UNCHANGED <<table, latch, armed>>

Contain(p) ==
    /\ Goto(p, "contain", AfterRecord(p))
    /\ RequestEmergency(p, TOR_NEGATIVE)
    /\ UNCHANGED <<lock, stopped, held, probe, verdict, code, seen, early>>

--------------------------------------------------------------------------------
(* ttp check *)

\* check_session reads the lock; without one it still verifies, for nobody.
CheckBegin(p) ==
    /\ p \in Checkers
    /\ Goto(p, "idle", IF lock.sid = NoSession THEN "identity" ELSE "latch")
    /\ held' = [held EXCEPT ![p] = lock]
    /\ UNCHANGED <<env, probe, verdict, codes, code, seen, early, armed>>

\* An emergency is not probed; a record that cannot be read ends the command.
CheckLatch(p) ==
    /\ \/ Goto(p, "latch", IF latch[held[p].sid] THEN "observe" ELSE "identity") /\ UNCHANGED code
       \/ Goto(p, "latch", "done") /\ code' = [code EXCEPT ![p] = ERROR]
    /\ UNCHANGED <<env, held, probe, verdict, codes, seen, early, armed>>

\* observe_session: the lock is read again, and a latched session is reported
\* with what the kernel inspection finds; the watchdog's evidence and the
\* desktop agent add their own diagnostics.
EmergencyCodes ==
    CASE lock.sid = NoSession -> {{}}
      [] lock.sid # NoSession /\ ~latch[lock.sid] -> {{}, {CONTAINMENT_UNCONFIRMED}}
      [] OTHER -> {{CONTAINMENT_UNCONFIRMED}} \cup
                  IF table = "emergency" THEN {{EMERGENCY_VERIFIED}} ELSE {}

ObservedCodes ==
    {e \cup w \cup n : e \in EmergencyCodes,
                     w \in {{}} \cup IF lock.wd THEN {{WATCHDOG_UNAVAILABLE}} ELSE {},
                     n \in {{}} \cup IF lock.notify THEN {{NOTIFICATION_FAILED}} ELSE {}}

CheckObserve(p) ==
    /\ Goto(p, "observe", "done")
    /\ \E found \in ObservedCodes : code' = [code EXCEPT ![p] = ExitCodeOf(found)]
    /\ UNCHANGED <<env, held, probe, verdict, codes, seen, early, armed>>

\* The supervisor's observation is healthy or emergency, or containment is
\* requested for its absence.
CheckSupervised(p) ==
    /\ Goto(p, "supervised", "emit")
    /\ \/ UNCHANGED <<table, latch, codes, armed>>
       \/ held[p].wd /\ RequestEmergency(p, WATCHDOG_UNAVAILABLE)
    /\ UNCHANGED <<lock, stopped, held, probe, verdict, code, seen, early>>

\* The event worth a desktop notification, if any; recovering is the word for a
\* confirmed verdict after an inconclusive one on record.
CheckEvents(p) ==
    IF ExitCodeOf(codes[p]) = EMERGENCY_VERIFIED THEN {"emergency_verified"}
    ELSE IF ExitCodeOf(codes[p]) = CONTAINMENT_UNCONFIRMED THEN {"containment_unconfirmed"}
    ELSE IF verdict[p] # "confirmed" THEN {"inconclusive"} ELSE {"none", "recovered"}

\* emit may fail; the command returns the projection of all its diagnostics.
Emit(p, sent) ==
    /\ Goto(p, "emit", "done")
    /\ \E failed \in BOOLEAN :
          /\ failed => held[p].notify /\ sent
          /\ code' = [code EXCEPT ![p] = ExitCodeOf(codes[p] \cup IF failed THEN {NOTIFICATION_FAILED} ELSE {})]
    /\ codes' = [codes EXCEPT ![p] = {}]
    /\ UNCHANGED <<env, held, probe, verdict, seen, early, armed>>

CheckEmit(p) == p \in Checkers /\ Emit(p, CheckEvents(p) # {"none"})

--------------------------------------------------------------------------------
(* ttp start, from its lock on *)

\* The network is configured and the new intent is on disk (Lifecycle has the
\* steps); a desktop agent that was selected may not have come up.
StartBegin(p) ==
    /\ p \in Starters
    /\ Goto(p, "idle", "watchdog")
    /\ lock = Absent
    /\ \E l \in Fresh(stopped) :
          /\ lock' = l
          /\ held' = [held EXCEPT ![p] = l]
          /\ \/ UNCHANGED codes
             \/ l.notify /\ Add(p, {NOTIFICATION_FAILED})
    /\ table' = "rules"
    /\ UNCHANGED <<latch, stopped, probe, verdict, code, seen, early, armed>>

\* start_watchdog; a required watchdog that is not ready is contained and the
\* verification is skipped.
StartWatchdog(p) ==
    /\ \/ Goto(p, "watchdog", "bootstrap") /\ UNCHANGED <<table, latch, codes, armed>>
       \/ /\ held[p].wd
          /\ Goto(p, "watchdog", "relatch")
          /\ RequestEmergency(p, WATCHDOG_UNAVAILABLE)
    /\ UNCHANGED <<lock, stopped, held, probe, verdict, code, seen, early>>

\* wait_for_bootstrap: no control socket, a timeout or a lost connection leave
\* nothing to verify.
Bootstrap(p) ==
    /\ pc[p] = "bootstrap"
    /\ \/ Conclude(p, "inconclusive", "unseen")
       \/ Goto(p, "bootstrap", "identity") /\ UNCHANGED <<attempt, endpoint, left, verdict, codes, seen, early, armed>>
    /\ UNCHANGED <<env, held, code>>

\* Faulty variant: the latch is not read again after the probe.
RelatchSkipped(p) ==
    /\ Goto(p, "relatch", "emit")
    /\ UNCHANGED <<env, held, probe, verdict, codes, code, seen, early, armed>>

\* A watchdog may have contained the session while the probe ran.
Relatch(p) ==
    /\ Goto(p, "relatch", "emit")
    /\ \/ /\ ~latch[held[p].sid] /\ UNCHANGED <<table, latch, codes, armed>>
       \/ /\ latch[held[p].sid] /\ RequestEmergency(p, ERROR)
       \/ \* the record cannot be read
          /\ Add(p, {CONTAINMENT_UNCONFIRMED}) /\ UNCHANGED <<table, latch, armed>>
    /\ UNCHANGED <<lock, stopped, held, probe, verdict, code, seen, early>>

StartEmit(p) == p \in Starters /\ Emit(p, TRUE)

--------------------------------------------------------------------------------
(* What happens meanwhile *)

\* The supervisor, or another command, contains the session.
Contained ==
    /\ lock.sid \in Sessions \ stopped
    /\ latch' = [latch EXCEPT ![lock.sid] = TRUE]
    /\ table' = "emergency"
    /\ UNCHANGED <<lock, stopped, pc, held, probe, verdict, codes, code, seen, early, armed>>

\* ttp stop publishes its intent, then removes the table and the lock.
StopPublished ==
    /\ lock.sid \in Sessions \ stopped
    /\ stopped' = stopped \cup {lock.sid}
    /\ UNCHANGED <<lock, table, latch, pc, held, probe, verdict, codes, code, seen, early, armed>>

StopDone ==
    /\ lock.sid \in stopped
    /\ lock' = Absent
    /\ table' = "none"
    /\ UNCHANGED <<latch, stopped, pc, held, probe, verdict, codes, code, seen, early, armed>>

\* Another start takes the place of a session that was stopped.
Replaced ==
    /\ lock = Absent
    /\ stopped # {}
    /\ lock' \in Fresh(stopped)
    /\ table' = "rules"
    /\ UNCHANGED <<latch, stopped, pc, held, probe, verdict, codes, code, seen, early, armed>>

--------------------------------------------------------------------------------
Step(p) ==
    \/ Identity(p) \/ Fetch(p) \/ PauseRound(p) \/ Record(p) \/ Contain(p)
    \/ CheckLatch(p) \/ CheckObserve(p) \/ CheckSupervised(p) \/ CheckEmit(p)
    \/ StartWatchdog(p) \/ Bootstrap(p) \/ Relatch(p) \/ StartEmit(p)

Environment == Contained \/ StopPublished \/ StopDone \/ Replaced

Next ==
    \/ \E p \in Procs : CheckBegin(p) \/ StartBegin(p) \/ Step(p)
    \/ Environment

Spec == Init /\ [][Next]_vars

--------------------------------------------------------------------------------
(* Properties *)

\* The session a command read was stopped meanwhile.
Over(p) == held[p].sid \in stopped

\* A verdict about a session that is still the recorded one when the authority
\* answers, and that nobody stops, is a measurement of that session's redirected
\* traffic: verify_session says confirmed or negative only after the authority itself
\* answered a request that was not exempt from the redirection. Neither a reflector
\* nor an exempt account can speak for it. (One about a session that is over may be a
\* measurement of the bare host, or of a session that exempts the probe.)
Measured(p) ==
    /\ verdict[p] = "confirmed" => seen[p] \in {"tor", "ended"}
    /\ verdict[p] = "negative" => seen[p] \in {"direct", "ended"}
    /\ seen[p] = "ended" /\ held[p].sid # NoSession => Over(p)

VerdictIsMeasured == \A p \in Procs : Measured(p)

\* A negative verdict about a session is never just reported: the command that
\* returns it has the session contained and confirmed in the kernel, or says
\* that containment is unconfirmed, or the session was stopped meanwhile. It
\* holds even when the verdict itself cannot be recorded.
Answered(p) ==
    pc[p] = "done" /\ verdict[p] = "negative" /\ held[p].sid # NoSession =>
        \/ code[p] = CONTAINMENT_UNCONFIRMED
        \/ code[p] = EMERGENCY_VERIFIED /\ latch[held[p].sid]
        \/ Over(p)

NegativeIsContained == \A p \in Procs : Answered(p)

\* ttp start reports success only for a session whose route was confirmed and
\* that nobody had contained by the time the probe ended: an emergency latched
\* during the probe is found by the second look at the latch.
Current(p) ==
    pc[p] = "done" /\ code[p] = OK /\ ~Over(p) => verdict[p] = "confirmed" /\ ~early[p]

StartSuccessIsCurrent == \A p \in Starters : Current(p)

\* A command that installed the killswitch says so: no other diagnostic of the
\* same command, earlier or later, hides the emergency in its exit code.
Alarms == {EMERGENCY_VERIFIED, CONTAINMENT_UNCONFIRMED}

Admitted(p) == pc[p] = "done" /\ armed[p] => code[p] \in Alarms

ArmingIsReported == \A p \in Procs : Admitted(p)

--------------------------------------------------------------------------------
(* The inductive invariant *)

\* Where a command is tells what it has done so far: nothing yet, no verdict yet,
\* an identity that is not exempt, a session of its own.
PlaceInv(p) ==
    /\ pc[p] = "idle" => codes[p] = {} /\ ~early[p] /\ seen[p] = "unseen"
    /\ pc[p] \in {"idle", "latch", "observe"} => ~armed[p]
    /\ pc[p] \in {"idle", "latch", "observe", "watchdog", "bootstrap", "identity", "fetch", "pause"}
            => verdict[p] = "not_run"
    /\ pc[p] \in {"fetch", "pause"} => ~held[p].exempt
    /\ pc[p] \in {"watchdog", "bootstrap", "record", "contain", "supervised", "relatch"}
            => held[p].sid # NoSession
    /\ p \in Starters => pc[p] \notin {"latch", "observe", "supervised"}

\* A session a command has read is the recorded one until it is stopped.
HeldInv(p) == held[p].sid # NoSession => held[p] = lock \/ Over(p)

\* What the diagnostics of a command that has not returned yet stand for.
CodesInv(p) ==
    /\ OK \notin codes[p]
    /\ EMERGENCY_VERIFIED \in codes[p] => held[p].sid # NoSession /\ latch[held[p].sid]
    /\ armed[p] /\ pc[p] # "done" => codes[p] \cap Alarms # {}
    /\ pc[p] \in {"supervised", "relatch", "emit"} /\ verdict[p] = "negative" /\ held[p].sid # NoSession
            => codes[p] \cap Alarms # {} \/ Over(p)
    /\ pc[p] \in {"record", "contain", "supervised", "relatch", "emit"} /\ verdict[p] # "confirmed"
            => codes[p] # {} \/ Over(p)

\* An emergency at the end of the probe is still latched at the second look.
EarlyInv(p) ==
    /\ early[p] => held[p].sid # NoSession /\ latch[held[p].sid]
    /\ p \in Starters /\ pc[p] = "emit" /\ early[p] => codes[p] # {} \/ Over(p)

ReturnInv(p) == Measured(p) /\ Answered(p) /\ Admitted(p) /\ (p \in Starters => Current(p))

CommandInv(p) == PlaceInv(p) /\ HeldInv(p) /\ CodesInv(p) /\ EarlyInv(p) /\ ReturnInv(p)

VerificationInv == TypeOK /\ \A p \in Procs : CommandInv(p)

--------------------------------------------------------------------------------
(* A statement of the program that the code does not keep *)

\* check_leak_command, after check_command returned without an error: "Tor
\* confirmed for this request".
CheckSuccessIsConfirmed ==
    \A p \in Checkers : pc[p] = "done" /\ code[p] = OK => verdict[p] = "confirmed"
================================================================================
