----------------------------- MODULE WatchdogTiming -----------------------------
(***************************************************************************)
(* The deadlines of the required supervisor, in seconds.                   *)
(*                                                                         *)
(* settings.py accepts any combination of timings that satisfies a few     *)
(* inequalities. The loop of run_supervisor spends time in three places: a *)
(* bounded local check, request_emergency and select. systemd runs its own *)
(* clocks against it (WatchdogSec, TimeoutStartSec, TimeoutStopSec), and   *)
(* watchdog_observation judges the age of what the loop published. Every   *)
(* other step takes no time here.                                          *)
(***************************************************************************)
EXTENDS Naturals

CONSTANT Offers     \* the timings an administrator may write in ttp.conf

\* WatchdogSettings, in whole seconds.
Seconds == Nat \ {0}
Timings == [readiness_timeout : Seconds, heartbeat_interval : Seconds,
            service_timeout : Seconds, check_interval : Seconds,
            check_timeout : Seconds, observation_max_age : Seconds]

ASSUME OffersAssumption == Offers \subseteq Timings

VARIABLES
    conf,       \* the settings of the session, from its lock
    pc,         \* where the loop is, or "handler" for ExecStopPost, or "down"
    spent,      \* time spent at pc
    wait,       \* the timeout given to select
    ready,      \* READY=1 was sent
    silence,    \* time since the last WATCHDOG=1, or before READY since the start
    sinceCheck, \* time since last_check; check_interval means due
    latched,    \* the emergency latch is on record
    held,       \* the loop read it at the top of this round
    lockLost,   \* the handler finds no readable settings
    value,      \* the published observation
    age,        \* time since its observed_at; observation_max_age means stale
    quiet       \* time since the record was written, likewise

vars == <<conf, pc, spent, wait, ready, silence, sinceCheck, latched, held,
          lockLost, value, age, quiet>>

Least(m, n) == IF m <= n THEN m ELSE n
Most(m, n)  == IF m <= n THEN n ELSE m

\* Faulty variant: the start timeout covers a heartbeat and no check.
ValidateShortStart(c) ==
    /\ 2 * (c.check_timeout + c.heartbeat_interval) <= c.service_timeout
    /\ c.readiness_timeout >= c.heartbeat_interval
    /\ c.observation_max_age >= c.check_interval + c.check_timeout

\* Faulty variant: an observation may be as old as the check interval.
ValidateShortAge(c) ==
    /\ 2 * (c.check_timeout + c.heartbeat_interval) <= c.service_timeout
    /\ c.readiness_timeout >= c.check_timeout + c.heartbeat_interval
    /\ c.observation_max_age >= c.check_interval

\* Settings.validate, the inequalities of the watchdog section.
Validate(c) ==
    /\ 2 * (c.check_timeout + c.heartbeat_interval) <= c.service_timeout
    /\ c.readiness_timeout >= c.check_timeout + c.heartbeat_interval
    /\ c.observation_max_age >= c.check_interval + c.check_timeout

\* Abbreviations for the session's settings.
C == conf.check_timeout
H == conf.heartbeat_interval
I == conf.check_interval
A == conf.observation_max_age
S == conf.service_timeout
R == conf.readiness_timeout

\* request_emergency: the transition, the inspection before and after and the
\* nft call each get check_timeout; without settings each gets 10 seconds.
EmergencyTime(lost) == IF lost THEN 4 * 10 ELSE 4 * C

\* Faulty variant: only the session's own timeout counts.
TimeoutStopUnsettled == 4 * C + 2

\* TimeoutStopSec of the unit, which bounds ExecStopPost.
TimeoutStop == Most(4 * C + 2, 42)

Loop   == {"top", "check", "heal", "recheck", "invalid", "contain", "beat", "sleep"}
Points == Loop \cup {"handler", "down"}

Bound ==
    CASE pc \in {"check", "heal", "recheck"} -> C
      [] pc \in {"invalid", "contain"}        -> EmergencyTime(FALSE)
      [] pc = "sleep"                        -> wait
      [] pc = "handler"                      -> EmergencyTime(lockLost)
      [] OTHER                               -> 0

\* systemd's clock for the main process has run out.
Overdue == pc \in Loop /\ silence >= (IF ready THEN S ELSE R)

FlagsTyped ==
    /\ ready \in BOOLEAN
    /\ latched \in BOOLEAN
    /\ held \in BOOLEAN
    /\ lockLost \in BOOLEAN

TypeOK ==
    /\ FlagsTyped
    /\ conf \in Offers
    /\ pc \in Points
    /\ spent \in 0..Bound
    /\ wait \in 0..H
    /\ silence \in 0..Most(S, R)
    /\ sinceCheck \in 0..I
    /\ value \in {"unknown", "healthy", "emergency"}
    /\ age \in 0..A
    /\ quiet \in 0..A

Init ==
    /\ \E c \in Offers : Validate(c) /\ conf = c
    /\ pc = "down"
    /\ spent = 0
    /\ wait = 0
    /\ ready = FALSE
    /\ silence = 0
    /\ sinceCheck = I
    /\ latched = FALSE
    /\ held = FALSE
    /\ lockLost = FALSE
    /\ value = "unknown"
    /\ age = A
    /\ quiet = A

Goto(from, to) == pc = from /\ pc' = to /\ spent' = 0

\* publish(): the record is written; only a completed evaluation is dated.
Publish(v) ==
    /\ value' = v
    /\ age' = IF v = "unknown" THEN A ELSE 0
    /\ quiet' = 0

--------------------------------------------------------------------------------
(* The environment *)

\* A second passes while the program is in a call that may take that long.
Tick ==
    /\ spent < Bound
    /\ ~Overdue
    /\ spent' = spent + 1
    /\ silence' = IF pc \in Loop THEN silence + 1 ELSE silence
    /\ sinceCheck' = Least(I, sinceCheck + 1)
    /\ age' = Least(A, age + 1)
    /\ quiet' = Least(A, quiet + 1)
    /\ UNCHANGED <<conf, pc, wait, ready, latched, held, lockLost, value>>

\* A second passes without a supervisor.
TickDown ==
    /\ pc = "down"
    /\ age' = Least(A, age + 1)
    /\ quiet' = Least(A, quiet + 1)
    /\ UNCHANGED <<conf, pc, spent, wait, ready, silence, sinceCheck, latched, held, lockLost, value>>

\* systemctl start, or Restart=on-failure.
Start ==
    /\ Goto("down", "top")
    /\ ready' = FALSE
    /\ silence' = 0
    /\ sinceCheck' = I
    /\ held' = FALSE
    /\ Publish("unknown")
    /\ UNCHANGED <<conf, wait, latched, lockLost>>

\* ttp check or ttp start latches an emergency of its own.
LatchedByOther ==
    /\ latched' = TRUE
    /\ UNCHANGED <<conf, pc, spent, wait, ready, silence, sinceCheck, held, lockLost, value, age, quiet>>

\* The main process ends, killed by systemd or by itself: ExecStopPost begins,
\* with the settings of the lock or without.
HandlerBegins ==
    /\ pc' = "handler"
    /\ spent' = 0
    /\ silence' = 0
    /\ wait' = 0
    /\ lockLost' \in BOOLEAN
    /\ UNCHANGED <<conf, ready, sinceCheck, latched, held, value, age, quiet>>

Kill == Overdue /\ HandlerBegins

\* An exception, once its own request_emergency returned; a session that was
\* stopped or replaced ends the loop as well.
Fails == pc \in Loop /\ HandlerBegins

\* supervision_terminated returns; its latch may not have been storable.
HandlerEnds ==
    /\ Goto("handler", "down")
    /\ latched' \in {latched, TRUE}
    /\ lockLost' = FALSE
    /\ UNCHANGED <<conf, wait, ready, silence, sinceCheck, held, value, age, quiet>>

--------------------------------------------------------------------------------
(* The loop of run_supervisor *)

\* The latch is read; otherwise a check that is due invalidates the observation.
\* A record that cannot be read counts as a latch and is contained for itself.
Top ==
    /\ \/ /\ latched
          /\ Goto("top", "contain") \/ Goto("top", "invalid")
          /\ UNCHANGED <<value, age, quiet>>
       \/ /\ ~latched
          /\ sinceCheck = I
          /\ Goto("top", "check")
          /\ Publish("unknown")
       \/ /\ ~latched
          /\ sinceCheck < I
          /\ Goto("top", "beat")
          /\ UNCHANGED <<value, age, quiet>>
    /\ held' = latched
    /\ UNCHANGED <<conf, wait, ready, silence, sinceCheck, latched, lockLost>>

InvalidEnds ==
    /\ Goto("invalid", "contain")
    /\ Publish("emergency")
    /\ UNCHANGED <<conf, wait, ready, silence, sinceCheck, latched, held, lockLost>>

\* notify_progress in the middle of a round, sent only by a ready supervisor.
Reported == silence' = IF ready THEN 0 ELSE silence

\* Faulty variant: healing and its second check are one silent stretch.
CheckEndsUnreported ==
    /\ \/ Goto("check", "heal") /\ Publish("unknown") /\ UNCHANGED <<silence, sinceCheck>>
       \/ Goto("check", "contain") /\ UNCHANGED <<silence, sinceCheck, value, age, quiet>>
       \/ Goto("check", "beat") /\ sinceCheck' = 0 /\ Publish("healthy") /\ UNCHANGED silence
    /\ UNCHANGED <<conf, wait, ready, latched, held, lockLost>>

\* check_system_integrity under bounded_check: Tor alone failed, something else
\* failed or the deadline passed, or all is well.
CheckEnds ==
    /\ \/ Goto("check", "heal") /\ Reported /\ Publish("unknown") /\ UNCHANGED sinceCheck
       \/ Goto("check", "contain") /\ UNCHANGED <<silence, sinceCheck, value, age, quiet>>
       \/ Goto("check", "beat") /\ sinceCheck' = 0 /\ Publish("healthy") /\ UNCHANGED silence
    /\ UNCHANGED <<conf, wait, ready, latched, held, lockLost>>

\* attempt_auto_healing under bounded_check.
HealEnds ==
    /\ \/ Goto("heal", "recheck") /\ Reported
       \/ Goto("heal", "contain") /\ UNCHANGED silence
    /\ UNCHANGED <<conf, wait, ready, sinceCheck, latched, held, lockLost, value, age, quiet>>

RecheckEnds ==
    /\ \/ Goto("recheck", "beat") /\ sinceCheck' = 0 /\ Publish("healthy")
       \/ Goto("recheck", "contain") /\ UNCHANGED <<sinceCheck, value, age, quiet>>
    /\ UNCHANGED <<conf, wait, ready, silence, latched, held, lockLost>>

\* contain(): request_emergency returned, whatever it could confirm or store.
ContainEnds ==
    /\ Goto("contain", "beat")
    /\ latched' \in {latched, TRUE}
    /\ sinceCheck' = IF held THEN sinceCheck ELSE 0
    /\ Publish("emergency")
    /\ UNCHANGED <<conf, wait, ready, silence, held, lockLost>>

\* The record is written again, progress is reported and select is given its
\* timeout.
Beat ==
    /\ Goto("beat", "sleep")
    /\ ready' = TRUE
    /\ silence' = 0
    /\ quiet' = 0
    /\ wait' = IF held THEN H ELSE Least(H, I - sinceCheck)
    /\ UNCHANGED <<conf, sinceCheck, latched, held, lockLost, value, age>>

\* select times out, or an event invalidates the observation and a check is due.
Wake ==
    /\ \/ /\ spent = wait
          /\ UNCHANGED <<sinceCheck, value, age, quiet>>
       \/ /\ sinceCheck' = I
          /\ Publish("unknown")
    /\ Goto("sleep", "top")
    /\ wait' = 0
    /\ UNCHANGED <<conf, ready, silence, latched, held, lockLost>>

--------------------------------------------------------------------------------
Next ==
    \/ Tick \/ TickDown \/ Start \/ LatchedByOther \/ Kill \/ Fails \/ HandlerEnds
    \/ Top \/ InvalidEnds \/ CheckEnds \/ HealEnds \/ RecheckEnds \/ ContainEnds \/ Beat \/ Wake

Spec == Init /\ [][Next]_vars

--------------------------------------------------------------------------------
(* Properties *)

\* In request_emergency, or just back from it.
Containing == {"invalid", "contain", "beat"}

\* A supervisor that contains nothing reports at least twice per WatchdogSec,
\* whatever the checks, the healing of Tor and the events: the comment in
\* Settings.validate, for every combination of timings it accepts.
ReportsTwice ==
    ready /\ pc \in Loop \ Containing => 2 * silence <= S

\* systemd takes the clock of a supervisor to have run out only while it is in
\* request_emergency or, before READY, while it heals Tor: a slow but bounded
\* check never costs the session its supervisor.
OnlyContainmentIsOverdue ==
    Overdue => \/ pc \in Containing
               \/ ~ready /\ pc \in {"heal", "recheck"}

\* Between two checks watchdog_observation finds what a live supervisor
\* published as healthy to be current, by its date and by the date of the
\* record, until the next check or event invalidates it.
HealthyIsCurrent ==
    value = "healthy" /\ pc \in {"top", "beat", "sleep"} => age < A /\ quiet < A

\* ExecStopPost ends before TimeoutStopSec, with the settings of the session
\* and with the ten-second fallback of a lost or corrupt lock: systemd never
\* cuts a containment short.
HandlerFits == pc = "handler" => spent < TimeoutStop

--------------------------------------------------------------------------------
(* The inductive strengthening of the properties above *)

\* How long the supervisor may have been silent at each point of a round.
SilenceBound ==
    /\ pc = "top" => silence <= (IF ready THEN H ELSE 0)
    /\ pc = "check" => silence <= spent + (IF ready THEN H ELSE 0)
    /\ pc \in {"heal", "recheck"} /\ ready => silence <= spent
    /\ pc = "sleep" => ready /\ silence <= spent

\* How old an observation of a healthy session may be; select never sleeps past
\* the next check, and a round that found the latch does not publish "healthy".
AgeBound ==
    /\ pc \in {"check", "heal", "recheck"} => ~held
    /\ pc = "sleep" /\ ~held => sinceCheck + wait <= I + spent
    /\ value = "healthy" /\ pc \in {"top", "beat", "sleep"} =>
          /\ ~held
          /\ age <= sinceCheck
          /\ quiet <= sinceCheck

TimingInv ==
    /\ TypeOK
    /\ Validate(conf)
    /\ SilenceBound
    /\ AgeBound

--------------------------------------------------------------------------------
(* A statement of the code's comments that the code does not keep *)

\* watchdog_observation: "An emergency-holding supervisor is operational". A
\* heartbeat interval beyond observation_max_age, which validate accepts, makes
\* the observation of such a supervisor stale between its rounds.
EmergencyIsCurrent ==
    value = "emergency" /\ held /\ pc = "sleep" => age < A /\ quiet < A
================================================================================
