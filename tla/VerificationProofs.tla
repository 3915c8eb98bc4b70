--------------------------- MODULE VerificationProofs ---------------------------
(***************************************************************************)
(* ttp check and ttp start report what they know, for every number of      *)
(* sessions, commands and rounds and every budget: the four properties of  *)
(* a command that returned, by one invariant per command.                  *)
(***************************************************************************)
EXTENDS Verification, TLAPS

\* Every code has its own place in _PRIORITY, the alarms at the end of it.
LEMMA RankIs ==
    /\ Rank(OK) = 1 /\ Rank(UNVERIFIED) = 2 /\ Rank(NOTIFICATION_FAILED) = 3 /\ Rank(ERROR) = 4
    /\ Rank(WATCHDOG_UNAVAILABLE) = 5 /\ Rank(TOR_NEGATIVE) = 6
    /\ Rank(EMERGENCY_VERIFIED) = 7 /\ Rank(CONTAINMENT_UNCONFIRMED) = 8
<1>1. DOMAIN Ranked = 1 .. 8
  BY DEF Ranked
<1> USE <1>1
      DEF Rank, Ranked, OK, ERROR, UNVERIFIED, WATCHDOG_UNAVAILABLE, TOR_NEGATIVE, EMERGENCY_VERIFIED,
    CONTAINMENT_UNCONFIRMED, NOTIFICATION_FAILED
<1>2. Rank(OK) = 1 OBVIOUS
<1>3. Rank(UNVERIFIED) = 2 OBVIOUS
<1>4. Rank(NOTIFICATION_FAILED) = 3 OBVIOUS
<1>5. Rank(ERROR) = 4 OBVIOUS
<1>6. Rank(WATCHDOG_UNAVAILABLE) = 5 OBVIOUS
<1>7. Rank(TOR_NEGATIVE) = 6 OBVIOUS
<1>8. Rank(EMERGENCY_VERIFIED) = 7 OBVIOUS
<1>9. Rank(CONTAINMENT_UNCONFIRMED) = 8 OBVIOUS
<1> HIDE DEF Rank
<1> QED BY <1>2, <1>3, <1>4, <1>5, <1>6, <1>7, <1>8, <1>9

\* The exit code is one of the diagnostics, and none outranks it.
LEMMA ExitCodeChosen ==
    ASSUME NEW S \in SUBSET ExitCodes, S # {}
    PROVE  ExitCodeOf(S) \in S /\ \A d \in S : Rank(d) <= Rank(ExitCodeOf(S))
<1>1. \E c \in S : \A d \in S : Rank(d) <= Rank(c)
  <2> USE RankIs DEF ExitCodes
  <2>1. CASE CONTAINMENT_UNCONFIRMED \in S BY <2>1
  <2>2. CASE CONTAINMENT_UNCONFIRMED \notin S /\ EMERGENCY_VERIFIED \in S BY <2>2
  <2>3. CASE S \cap Alarms = {} /\ TOR_NEGATIVE \in S BY <2>3 DEF Alarms
  <2>4. CASE S \cap Alarms = {} /\ TOR_NEGATIVE \notin S /\ WATCHDOG_UNAVAILABLE \in S BY <2>4 DEF Alarms
  <2>5. CASE S \subseteq {OK, UNVERIFIED, NOTIFICATION_FAILED, ERROR} /\ ERROR \in S BY <2>5
  <2>6. CASE S \subseteq {OK, UNVERIFIED, NOTIFICATION_FAILED} /\ NOTIFICATION_FAILED \in S BY <2>6
  <2>7. CASE S \subseteq {OK, UNVERIFIED} /\ UNVERIFIED \in S BY <2>7
  <2>8. CASE S \subseteq {OK} BY <2>8
  <2> QED BY <2>1, <2>2, <2>3, <2>4, <2>5, <2>6, <2>7, <2>8 DEF Alarms
<1> QED BY <1>1 DEF ExitCodeOf

\* No other diagnostic hides an alarm.
LEMMA AlarmPrevails ==
    ASSUME NEW S \in SUBSET ExitCodes, S \cap Alarms # {}
    PROVE  ExitCodeOf(S) \in S \cap Alarms
<1>1. ExitCodeOf(S) \in S /\ \A d \in S : Rank(d) <= Rank(ExitCodeOf(S))
  BY ExitCodeChosen
<1>2. Rank(ExitCodeOf(S)) \in {7, 8}
  BY <1>1, RankIs DEF Alarms, ExitCodes
<1> QED BY <1>1, <1>2, RankIs DEF Alarms, ExitCodes

\* A command with a diagnostic does not succeed.
LEMMA ExitCodeTyped ==
    ASSUME NEW S \in SUBSET ExitCodes
    PROVE  ExitCodeOf(S) \in ExitCodes /\ (OK \notin S /\ S # {} => ExitCodeOf(S) # OK)
BY ExitCodeChosen DEF ExitCodeOf, ExitCodes

\* Every step of one process, or of the environment, is one of the actions.
LEMMA NextCases ==
    ASSUME Next
    PROVE  \/ \E p \in Procs :
                 \/ CheckBegin(p) \/ StartBegin(p)
                 \/ Identity(p) \/ Fetch(p) \/ PauseRound(p) \/ Bootstrap(p)
                 \/ Record(p) \/ Contain(p) \/ CheckSupervised(p) \/ StartWatchdog(p) \/ Relatch(p)
                 \/ CheckLatch(p) \/ CheckObserve(p)
                 \/ \E sent \in BOOLEAN : Emit(p, sent)
           \/ Contained \/ StopPublished \/ StopDone \/ Replaced
BY DEF Next, Step, Environment, CheckEmit, StartEmit

\* verify_session returns a verdict, its diagnostics and what it saw.
LEMMA ConcludeTyped ==
    ASSUME TypeOK, NEW p \in Procs, NEW state \in States,
           NEW route \in Sights, Conclude(p, state, route)
    PROVE  /\ verdict' \in [Procs -> States]
           /\ codes' \in [Procs -> SUBSET ExitCodes]
           /\ attempt' \in [Procs -> 1 .. Attempts]
           /\ endpoint' \in [Procs -> Endpoints]
           /\ left' \in [Procs -> 0 .. Budget]
           /\ seen' \in [Procs -> Sights]
           /\ early' \in [Procs -> BOOLEAN]
           /\ armed' \in [Procs -> BOOLEAN]
           /\ pc' \in [Procs -> Points]
<1> USE DEF TypeOK, Conclude
<1>1. codes' \in [Procs -> SUBSET ExitCodes]
  BY DEF Add, VerificationCodes, ExitCodes
<1>2. early' \in [Procs -> BOOLEAN]
  <2>1. (held[p].sid # NoSession /\ latch[held[p].sid]) \in BOOLEAN
    BY Zenon
  <2> QED BY <2>1, Zenon
<1>3. armed' \in [Procs -> BOOLEAN]
  BY Zenon
<1>4. /\ verdict' \in [Procs -> States]
      /\ seen' \in [Procs -> Sights]
      /\ pc' \in [Procs -> Points]
  BY DEF Points
<1>5. /\ attempt' \in [Procs -> 1 .. Attempts]
      /\ endpoint' \in [Procs -> Endpoints]
      /\ left' \in [Procs -> 0 .. Budget]
  BY ProbeAssumption DEF Endpoints, Authority
<1> QED BY <1>1, <1>2, <1>3, <1>4, <1>5

\* request_emergency leaves a table, latches nobody free and keeps its diagnostics.
LEMMA RequestTyped ==
    ASSUME TypeOK, NEW p \in Procs, NEW cause \in ExitCodes, RequestEmergency(p, cause)
    PROVE  /\ table' \in {"none", "rules", "emergency"}
           /\ latch' \in [Sessions -> BOOLEAN]
           /\ codes' \in [Procs -> SUBSET ExitCodes]
           /\ armed' \in [Procs -> BOOLEAN]
<1> USE DEF TypeOK, RequestEmergency
<1>1. table' \in {"none", "rules", "emergency"}
  OBVIOUS
<1>2. latch' \in [Sessions -> BOOLEAN]
  BY Zenon
<1>3. codes' \in [Procs -> SUBSET ExitCodes]
  <2>1. \/ UNCHANGED codes
        \/ Add(p, {cause, EMERGENCY_VERIFIED}) \/ Add(p, {cause, CONTAINMENT_UNCONFIRMED})
    BY Zenon
  <2> QED BY <2>1 DEF Add, ExitCodes
<1>4. armed' \in [Procs -> BOOLEAN]
  <2>1. CASE UNCHANGED armed
    BY <2>1, Zenon
  <2>2. CASE armed' = [armed EXCEPT ![p] = @ \/ table' # table]
    <3>1. (armed[p] \/ table' # table) \in BOOLEAN
      BY Zenon
    <3> QED BY <2>2, <3>1, Zenon
  <2> QED BY <2>1, <2>2, Zenon
<1> QED BY <1>1, <1>2, <1>3, <1>4

\* Every step keeps the types.
LEMMA TypeStep == TypeOK /\ Next => TypeOK'
<1> SUFFICES ASSUME TypeOK, Next PROVE TypeOK'
  OBVIOUS
<1> USE DEF env, probe, Goto
<1>1. ASSUME NEW p \in Procs, CheckBegin(p) PROVE TypeOK'
  BY <1>1 DEF TypeOK, CheckBegin, Points
<1>2. ASSUME NEW p \in Procs, StartBegin(p) PROVE TypeOK'
  <2>1. PICK l \in Fresh(stopped) : /\ lock' = l
                                    /\ held' = [held EXCEPT ![p] = l]
                                    /\ UNCHANGED codes \/ Add(p, {NOTIFICATION_FAILED})
    BY <1>2 DEF StartBegin
  <2>2. l \in Locks
    BY <2>1 DEF Fresh, Locks
  <2>3. codes' \in [Procs -> SUBSET ExitCodes]
    BY <2>1 DEF TypeOK, Add, ExitCodes
  <2> QED BY <1>2, <2>1, <2>2, <2>3 DEF TypeOK, StartBegin, Points
<1>3. ASSUME NEW p \in Procs, Identity(p) PROVE TypeOK'
  <2>1. CASE Conclude(p, "inconclusive", "unseen")
    BY <1>3, <2>1, ConcludeTyped DEF TypeOK, Identity, States, Sights
  <2>2. CASE ~Conclude(p, "inconclusive", "unseen")
    BY <1>3, <2>2 DEF TypeOK, Identity, Points
  <2> QED BY <2>1, <2>2
<1>4. ASSUME NEW p \in Procs, Fetch(p) PROVE TypeOK'
  <2>1. UNCHANGED <<env, held, code>>
    BY <1>4 DEF Fetch
  <2>2. CASE \E state \in States, route \in Sights : Conclude(p, state, route)
    BY <2>1, <2>2, ConcludeTyped DEF TypeOK
  <2>3. CASE \E d \in FetchTime(p) :
                /\ Elapse(p, d)
                /\ UNCHANGED <<attempt, verdict, codes, seen, early, armed>>
                /\ (Goto(p, "fetch", "pause") /\ UNCHANGED endpoint) \/ NextEndpoint(p)
    <3>1. PICK d \in FetchTime(p) :
                /\ Elapse(p, d)
                /\ UNCHANGED <<attempt, verdict, codes, seen, early, armed>>
                /\ (Goto(p, "fetch", "pause") /\ UNCHANGED endpoint) \/ NextEndpoint(p)
      BY <2>3
    <3>2. left' \in [Procs -> 0 .. Budget]
      BY <3>1, ProbeAssumption DEF TypeOK, Elapse, FetchTime, Least
    <3>3. endpoint' \in [Procs -> Endpoints] /\ pc' \in [Procs -> Points]
      BY <3>1 DEF TypeOK, NextEndpoint, Endpoints, Points
    <3> QED BY <2>1, <3>1, <3>2, <3>3 DEF TypeOK
  <2> QED BY <1>4, <2>2, <2>3 DEF Fetch, States, Sights, Concludes, SessionRoutes, Sight
<1>5. ASSUME NEW p \in Procs, PauseRound(p) PROVE TypeOK'
  <2>1. CASE Conclude(p, "inconclusive", "unseen")
    BY <1>5, <2>1, ConcludeTyped DEF TypeOK, PauseRound, States, Sights
  <2>2. CASE ~Conclude(p, "inconclusive", "unseen")
    <3>1. left' \in [Procs -> 0 .. Budget] /\ attempt' \in [Procs -> 1 .. Attempts]
      BY <1>5, <2>2, ProbeAssumption DEF TypeOK, PauseRound, Elapse, Least
    <3>2. endpoint' \in [Procs -> Endpoints] /\ pc' \in [Procs -> Points]
      BY <1>5, <2>2 DEF TypeOK, PauseRound, Endpoints, Authority, Points
    <3> QED BY <1>5, <2>2, <3>1, <3>2 DEF TypeOK, PauseRound
  <2> QED BY <2>1, <2>2
<1>6. ASSUME NEW p \in Procs, Bootstrap(p) PROVE TypeOK'
  <2>1. CASE Conclude(p, "inconclusive", "unseen")
    BY <1>6, <2>1, ConcludeTyped DEF TypeOK, Bootstrap, States, Sights
  <2>2. CASE ~Conclude(p, "inconclusive", "unseen")
    BY <1>6, <2>2 DEF TypeOK, Bootstrap, Points
  <2> QED BY <2>1, <2>2
<1>7. ASSUME NEW p \in Procs, Record(p) PROVE TypeOK'
  <2>1. codes' \in [Procs -> SUBSET ExitCodes]
    BY <1>7 DEF TypeOK, Record, Add, ExitCodes
  <2> QED BY <1>7, <2>1 DEF TypeOK, Record, AfterRecord, Points
<1>8. ASSUME NEW p \in Procs, Contain(p) PROVE TypeOK'
  BY <1>8, RequestTyped DEF TypeOK, Contain, AfterRecord, Points, ExitCodes
<1>9. ASSUME NEW p \in Procs, CheckSupervised(p) PROVE TypeOK'
  <2>1. CASE RequestEmergency(p, WATCHDOG_UNAVAILABLE)
    BY <1>9, <2>1, RequestTyped DEF TypeOK, CheckSupervised, Points, ExitCodes
  <2>2. CASE UNCHANGED <<table, latch, codes, armed>>
    BY <1>9, <2>2 DEF TypeOK, CheckSupervised, Points
  <2> QED BY <1>9, <2>1, <2>2 DEF CheckSupervised
<1>10. ASSUME NEW p \in Procs, StartWatchdog(p) PROVE TypeOK'
  <2>1. CASE RequestEmergency(p, WATCHDOG_UNAVAILABLE)
    BY <1>10, <2>1, RequestTyped DEF TypeOK, StartWatchdog, Points, ExitCodes
  <2>2. CASE UNCHANGED <<table, latch, codes, armed>>
    BY <1>10, <2>2 DEF TypeOK, StartWatchdog, Points
  <2> QED BY <1>10, <2>1, <2>2 DEF StartWatchdog
<1>11. ASSUME NEW p \in Procs, Relatch(p) PROVE TypeOK'
  <2>1. CASE RequestEmergency(p, ERROR)
    BY <1>11, <2>1, RequestTyped DEF TypeOK, Relatch, Points, ExitCodes
  <2>2. CASE UNCHANGED <<table, latch, codes, armed>>
    BY <1>11, <2>2 DEF TypeOK, Relatch, Points
  <2>3. CASE Add(p, {CONTAINMENT_UNCONFIRMED}) /\ UNCHANGED <<table, latch, armed>>
    <3>1. codes' \in [Procs -> SUBSET ExitCodes]
      BY <2>3 DEF TypeOK, Add, ExitCodes
    <3> QED BY <1>11, <2>3, <3>1 DEF TypeOK, Relatch, Points
  <2> QED BY <1>11, <2>1, <2>2, <2>3 DEF Relatch
<1>12. ASSUME NEW p \in Procs, CheckLatch(p) PROVE TypeOK'
  <2>1. code' \in [Procs -> ExitCodes]
    BY <1>12 DEF TypeOK, CheckLatch, ExitCodes
  <2> QED BY <1>12, <2>1 DEF TypeOK, CheckLatch, Points
<1>13. ASSUME NEW p \in Procs, CheckObserve(p) PROVE TypeOK'
  <2>1. PICK found \in ObservedCodes : code' = [code EXCEPT ![p] = ExitCodeOf(found)]
    BY <1>13 DEF CheckObserve
  <2>2. found \in SUBSET ExitCodes
    BY DEF ObservedCodes, EmergencyCodes, ExitCodes
  <2>3. code' \in [Procs -> ExitCodes]
    BY <2>1, <2>2, ExitCodeTyped DEF TypeOK
  <2> QED BY <1>13, <2>3 DEF TypeOK, CheckObserve, Points
<1>14. ASSUME NEW p \in Procs, NEW sent \in BOOLEAN, Emit(p, sent) PROVE TypeOK'
  <2>1. PICK S \in SUBSET ExitCodes : code' = [code EXCEPT ![p] = ExitCodeOf(S)]
    BY <1>14 DEF Emit, TypeOK, ExitCodes
  <2>2. code' \in [Procs -> ExitCodes]
    BY <2>1, ExitCodeTyped DEF TypeOK
  <2>3. codes' \in [Procs -> SUBSET ExitCodes]
    BY <1>14 DEF Emit, TypeOK
  <2> QED BY <1>14, <2>2, <2>3 DEF TypeOK, Emit, Points
<1>15. CASE Contained
  <2>1. latch' \in [Sessions -> BOOLEAN]
    BY <1>15, Zenon DEF TypeOK, Contained
  <2> QED BY <1>15, <2>1 DEF TypeOK, Contained
<1>16. CASE StopPublished
  BY <1>16 DEF TypeOK, StopPublished
<1>17. CASE StopDone
  BY <1>17 DEF TypeOK, StopDone, Locks
<1>18. CASE Replaced
  BY <1>18 DEF TypeOK, Replaced, Fresh, Locks
<1> QED
  BY <1>1, <1>2, <1>3, <1>4, <1>5, <1>6, <1>7, <1>8, <1>9, <1>10, <1>11, <1>12, <1>13, <1>14,
     <1>15, <1>16, <1>17, <1>18, NextCases

\* What a command has in its hands.
Own(p) == <<pc[p], held[p], verdict[p], codes[p], code[p], seen[p], early[p], armed[p]>>

\* What other processes do to the latches and the stop markers disturbs no command.
LEMMA Undisturbed ==
    ASSUME NEW q \in Procs, CommandInv(q), TypeOK, TypeOK', Own(q)' = Own(q),
           \A s \in Sessions : latch[s] => latch'[s], stopped \subseteq stopped', HeldInv(q)'
    PROVE  CommandInv(q)'
<1>1. held[q].sid # NoSession => held[q].sid \in Sessions
  BY DEF TypeOK, Locks, Recorded, Absent
<1>2. /\ pc'[q] = pc[q] /\ held'[q] = held[q] /\ verdict'[q] = verdict[q] /\ codes'[q] = codes[q]
      /\ code'[q] = code[q] /\ seen'[q] = seen[q] /\ early'[q] = early[q] /\ armed'[q] = armed[q]
  BY DEF Own
<1>3. Over(q) => Over(q)'
  BY <1>2 DEF Over
<1>4. PlaceInv(q)' /\ ReturnInv(q)'
  BY <1>1, <1>2, <1>3 DEF CommandInv, PlaceInv, ReturnInv, Measured, Answered, Current, Admitted
<1>5. CodesInv(q)' /\ EarlyInv(q)'
  BY <1>1, <1>2, <1>3 DEF CommandInv, CodesInv, EarlyInv
<1> QED BY <1>4, <1>5 DEF CommandInv

\* A step of one process touches no other process's command, clears no latch and
\* no stop marker, and takes the place of a session only when there is none.
LEMMA Frame ==
    ASSUME TypeOK, NEW p \in Procs, NEW q \in Procs, q # p,
           \/ CheckBegin(p) \/ StartBegin(p) \/ Step(p)
    PROVE  /\ Own(q)' = Own(q)
           /\ \A s \in Sessions : latch[s] => latch'[s]
           /\ stopped' = stopped
           /\ lock' = lock \/ lock = Absent
<1> USE DEF TypeOK, env, probe, Goto, Own
<1>1. CASE CheckBegin(p)       BY <1>1 DEF CheckBegin
<1>2. CASE StartBegin(p)       BY <1>2 DEF StartBegin, Add
<1>3. CASE Identity(p)         BY <1>3 DEF Identity, Conclude, Add
<1>4. CASE Fetch(p)            BY <1>4 DEF Fetch, Conclude, Add, NextEndpoint
<1>5. CASE PauseRound(p)       BY <1>5 DEF PauseRound, Conclude, Add
<1>6. CASE Bootstrap(p)        BY <1>6 DEF Bootstrap, Conclude, Add
<1>7. CASE Record(p)           BY <1>7 DEF Record, Add
<1>8. CASE Contain(p)          BY <1>8 DEF Contain, RequestEmergency, Add
<1>9. CASE CheckSupervised(p)  BY <1>9 DEF CheckSupervised, RequestEmergency, Add
<1>10. CASE StartWatchdog(p)   BY <1>10 DEF StartWatchdog, RequestEmergency, Add
<1>11. CASE Relatch(p)         BY <1>11 DEF Relatch, RequestEmergency, Add
<1>12. CASE CheckLatch(p)      BY <1>12 DEF CheckLatch
<1>13. CASE CheckObserve(p)    BY <1>13 DEF CheckObserve
<1>14. CASE CheckEmit(p) \/ StartEmit(p)
  BY <1>14 DEF CheckEmit, StartEmit, Emit
<1> QED
  BY <1>1, <1>2, <1>3, <1>4, <1>5, <1>6, <1>7, <1>8, <1>9, <1>10, <1>11, <1>12, <1>13, <1>14
     DEF Step

\* What happens meanwhile keeps every command's invariant.
LEMMA EnvironmentStep ==
    ASSUME VerificationInv, TypeOK', Environment, NEW q \in Procs
    PROVE  CommandInv(q)'
<1>1. TypeOK /\ CommandInv(q) /\ HeldInv(q)
  BY DEF VerificationInv, CommandInv
<1>2. Own(q)' = Own(q) /\ held' = held
  BY DEF Environment, Contained, StopPublished, StopDone, Replaced, Own
<1>3. (\A s \in Sessions : latch[s] => latch'[s]) /\ stopped \subseteq stopped'
  BY <1>1 DEF TypeOK, Environment, Contained, StopPublished, StopDone, Replaced
<1>4. HeldInv(q)'
  BY <1>1, <1>2 DEF HeldInv, Over, Environment, Contained, StopPublished, StopDone, Replaced, Absent
<1> QED BY <1>1, <1>2, <1>3, <1>4, Undisturbed

\* request_emergency adds an alarm, unless the session is over; it reports the
\* verified emergency only for a latched session, and never hides an arming.
LEMMA RequestAnswers ==
    ASSUME TypeOK, NEW p \in Procs, NEW cause \in ExitCodes \ {OK, EMERGENCY_VERIFIED},
           HeldInv(p), held[p].sid # NoSession, RequestEmergency(p, cause)
    PROVE  /\ codes[p] \subseteq codes'[p]
           /\ OK \in codes'[p] => OK \in codes[p]
           /\ codes'[p] \cap Alarms # {} \/ Over(p)
           /\ EMERGENCY_VERIFIED \in codes'[p] => EMERGENCY_VERIFIED \in codes[p] \/ latch'[held[p].sid]
           /\ armed'[p] => armed[p] \/ codes'[p] \cap Alarms # {}
           /\ \A s \in Sessions : latch[s] => latch'[s]
<1> USE DEF TypeOK
<1>1. CASE ~StillRequired(p) /\ UNCHANGED <<table, latch, codes, armed>>
  BY <1>1 DEF StillRequired, HeldInv, Over
<1>2. CASE codes' = [codes EXCEPT ![p] = @ \cup {cause, CONTAINMENT_UNCONFIRMED}]
  <2>1. codes'[p] = codes[p] \cup {cause, CONTAINMENT_UNCONFIRMED}
    BY <1>2
  <2>2. \A s \in Sessions : latch[s] => latch'[s]
    BY DEF RequestEmergency
  <2> QED BY <2>1, <2>2 DEF Alarms, OK, EMERGENCY_VERIFIED, CONTAINMENT_UNCONFIRMED
<1>3. CASE codes' = [codes EXCEPT ![p] = @ \cup {cause, EMERGENCY_VERIFIED}] /\ latch'[held[p].sid]
  <2>1. codes'[p] = codes[p] \cup {cause, EMERGENCY_VERIFIED}
    BY <1>3
  <2>2. \A s \in Sessions : latch[s] => latch'[s]
    BY DEF RequestEmergency
  <2> QED BY <1>3, <2>1, <2>2 DEF Alarms, OK, EMERGENCY_VERIFIED
<1> QED BY <1>1, <1>2, <1>3 DEF RequestEmergency, Add

\* The end of verify_session: a verdict without a diagnostic is a confirmed one,
\* and an emergency that is latched by now is remembered.
LEMMA ConcludeStep ==
    ASSUME TypeOK, NEW p \in Procs, CommandInv(p),
           NEW state \in {"confirmed", "negative", "inconclusive"},
           NEW route \in Sights,
           state = "confirmed" => route \in {"tor", "ended"},
           state = "negative" => route \in {"direct", "ended"},
           route = "ended" /\ held[p].sid # NoSession => Over(p),
           Conclude(p, state, route), pc[p] \notin {"idle", "done"},
           UNCHANGED <<env, held, code>>
    PROVE  CommandInv(p)'
<1>1. /\ pc'[p] = IF held[p].sid = NoSession THEN "emit" ELSE "record"
      /\ verdict'[p] = state /\ seen'[p] = route
      /\ codes'[p] = codes[p] \cup VerificationCodes(state)
      /\ early'[p] = (held[p].sid # NoSession /\ latch[held[p].sid])
      /\ armed'[p] = armed[p] /\ held'[p] = held[p]
  BY DEF TypeOK, Conclude, Add
<1>2. /\ OK \notin VerificationCodes(state) /\ EMERGENCY_VERIFIED \notin VerificationCodes(state)
      /\ state # "confirmed" => VerificationCodes(state) # {}
  BY DEF VerificationCodes, OK, TOR_NEGATIVE, UNVERIFIED, EMERGENCY_VERIFIED
<1>3. lock' = lock /\ latch' = latch /\ stopped' = stopped
  BY DEF env
<1>4. PlaceInv(p)'
  BY <1>1 DEF PlaceInv
<1>5. HeldInv(p)'
  BY <1>1, <1>3 DEF CommandInv, HeldInv, Over
<1>6. CodesInv(p)'
  BY <1>1, <1>2, <1>3 DEF CommandInv, CodesInv, Over
<1>7. EarlyInv(p)'
  BY <1>1, <1>2, <1>3 DEF EarlyInv
<1>8. ReturnInv(p)'
  BY <1>1, <1>3 DEF ReturnInv, Measured, Answered, Current, Admitted, Over
<1> QED BY <1>4, <1>5, <1>6, <1>7, <1>8 DEF CommandInv

\* A command that asks for containment goes on with an alarm, or its session is over.
LEMMA RequestStep ==
    ASSUME TypeOK, NEW p \in Procs, CommandInv(p),
           NEW cause \in ExitCodes \ {OK, EMERGENCY_VERIFIED},
           held[p].sid # NoSession, RequestEmergency(p, cause),
           NEW to \in {"supervised", "relatch", "emit"},
           p \in Starters => to # "supervised",
           pc' = [pc EXCEPT ![p] = to], pc[p] \notin {"idle", "done"},
           UNCHANGED <<lock, stopped, held, probe, verdict, code, seen, early>>
    PROVE  CommandInv(p)'
<1>1. /\ pc'[p] = to /\ held'[p] = held[p] /\ verdict'[p] = verdict[p]
      /\ seen'[p] = seen[p] /\ early'[p] = early[p] /\ lock' = lock /\ stopped' = stopped
      /\ held[p].sid \in Sessions
  BY DEF TypeOK, Locks, Recorded, Absent
<1>2. /\ codes[p] \subseteq codes'[p]
      /\ OK \in codes'[p] => OK \in codes[p]
      /\ codes'[p] \cap Alarms # {} \/ Over(p)
      /\ EMERGENCY_VERIFIED \in codes'[p] => EMERGENCY_VERIFIED \in codes[p] \/ latch'[held[p].sid]
      /\ armed'[p] => armed[p] \/ codes'[p] \cap Alarms # {}
      /\ \A s \in Sessions : latch[s] => latch'[s]
  BY RequestAnswers DEF CommandInv
<1>3. PlaceInv(p)' /\ HeldInv(p)'
  BY <1>1 DEF CommandInv, PlaceInv, HeldInv, Over
<1>4. CodesInv(p)'
  BY <1>1, <1>2 DEF CommandInv, CodesInv, Over
<1>5. EarlyInv(p)'
  BY <1>1, <1>2 DEF CommandInv, EarlyInv, Over
<1>6. ReturnInv(p)'
  BY <1>1 DEF CommandInv, ReturnInv, Measured, Answered, Current, Admitted, Over
<1> QED BY <1>3, <1>4, <1>5, <1>6 DEF CommandInv

\* Every step of a command keeps what is known of it.
LEMMA OwnStep ==
    ASSUME VerificationInv, TypeOK', NEW p \in Procs,
           \/ CheckBegin(p) \/ StartBegin(p) \/ Step(p)
    PROVE  CommandInv(p)'
<1>0. TypeOK /\ CommandInv(p)
  BY DEF VerificationInv
<1> USE DEF env, probe, Goto
<1>1. CASE CheckBegin(p)
  <2>1. /\ pc[p] = "idle" /\ pc'[p] = IF lock.sid = NoSession THEN "identity" ELSE "latch"
        /\ held'[p] = lock /\ p \notin Starters
        /\ UNCHANGED <<lock, latch, stopped, verdict, codes, code, seen, early, armed>>
    BY <1>0, <1>1, ProbeAssumption DEF CheckBegin, TypeOK
  <2> QED
    BY <1>0, <2>1 DEF CommandInv, PlaceInv, HeldInv, CodesInv, EarlyInv, ReturnInv, Measured, Answered,
                Current, Admitted, Over
<1>2. CASE StartBegin(p)
  <2>1. /\ pc[p] = "idle" /\ pc'[p] = "watchdog" /\ held'[p] = lock' /\ lock'.sid # NoSession
        /\ codes'[p] \in {codes[p], codes[p] \cup {NOTIFICATION_FAILED}}
        /\ UNCHANGED <<latch, stopped, verdict, code, seen, early, armed>>
    BY <1>0, <1>2, ProbeAssumption DEF StartBegin, TypeOK, Fresh, Recorded, Add
  <2> QED
    BY <1>0, <2>1 DEF CommandInv, PlaceInv, HeldInv, CodesInv, EarlyInv, ReturnInv, Measured, Answered,
                Current, Admitted, Over, OK, NOTIFICATION_FAILED, EMERGENCY_VERIFIED
<1>3. CASE Identity(p)
  <2>1. CASE Conclude(p, "inconclusive", "unseen")
    BY <1>0, <1>3, <2>1, ConcludeStep DEF Identity, Sights
  <2>2. CASE ~Conclude(p, "inconclusive", "unseen")
    <3>1. /\ pc[p] = "identity" /\ pc'[p] = "fetch" /\ ~held[p].exempt
          /\ UNCHANGED <<lock, latch, stopped, held, verdict, codes, code, seen, early, armed>>
      BY <1>0, <1>3, <2>2 DEF Identity, TypeOK
    <3> QED
      BY <1>0, <3>1
         DEF CommandInv, PlaceInv, HeldInv, CodesInv, EarlyInv, ReturnInv, Measured, Answered,
                Current, Admitted, Over
  <2> QED BY <2>1, <2>2
<1>4. CASE Fetch(p)
  <2>1. pc[p] = "fetch" /\ ~held[p].exempt /\ UNCHANGED <<env, held, code>>
    BY <1>0, <1>4 DEF Fetch, CommandInv, PlaceInv
  <2>2. CASE Conclude(p, "inconclusive", "unseen")
    BY <1>0, <2>1, <2>2, ConcludeStep DEF Sights
  <2>3. CASE \E route \in SessionRoutes : \E answer \in Answers(p, route) :
                /\ Concludes(p, answer) # "not_run"
                /\ Conclude(p, Concludes(p, answer), IF answer = "fatal" THEN "unseen" ELSE Sight(p, route))
    <3>1. PICK route \in SessionRoutes : \E answer \in Answers(p, route) :
                /\ Concludes(p, answer) # "not_run"
                /\ Conclude(p, Concludes(p, answer), IF answer = "fatal" THEN "unseen" ELSE Sight(p, route))
      BY <2>3
    <3>2. PICK answer \in Answers(p, route) :
                /\ Concludes(p, answer) # "not_run"
                /\ Conclude(p, Concludes(p, answer), IF answer = "fatal" THEN "unseen" ELSE Sight(p, route))
      BY <3>1
    <3>a. /\ route \in {"tor", "direct", "down"} /\ Sight(p, route) \in {route, "ended"}
          /\ Sight(p, route) = "ended" /\ held[p].sid # NoSession => Over(p)
      BY <1>0 DEF SessionRoutes, Sight, CommandInv, HeldInv, Over
    <3>3. ASSUME Sight(p, route) # "ended" PROVE ProbeRoute(route) = route
      <4>1. lock.sid = held[p].sid /\ ~Over(p)
        BY <3>a, <3>3 DEF Sight, Over
      <4>2. CASE held[p].sid # NoSession
        <5>1. lock = held[p]
          BY <1>0, <4>1, <4>2 DEF CommandInv, HeldInv
        <5> QED BY <2>1, <5>1 DEF ProbeRoute
      <4>3. CASE held[p].sid = NoSession
        <5>1. lock = Absent
          BY <1>0, <4>1, <4>3, ProbeAssumption DEF TypeOK, Locks, Recorded
        <5> QED BY <5>1 DEF ProbeRoute, Absent
      <4> QED BY <4>2, <4>3
    <3>4. Sight(p, route) # "ended" => /\ answer = "tor" => route = "tor"
                                       /\ answer = "direct" => route = "direct"
      BY <3>a, <3>3 DEF Answers
    <3>5. /\ Concludes(p, answer) \in {"confirmed", "negative", "inconclusive"}
          /\ Concludes(p, answer) = "confirmed" => answer = "tor"
          /\ Concludes(p, answer) = "negative" => answer = "direct"
      BY <3>2 DEF Concludes
    <3>6. (IF answer = "fatal" THEN "unseen" ELSE Sight(p, route)) \in Sights
      BY <3>a DEF Sights
    <3> HIDE DEF Concludes
    <3> QED BY <1>0, <2>1, <3>2, <3>a, <3>4, <3>5, <3>6, ConcludeStep
  <2>4. CASE pc'[p] \in {"fetch", "pause"} /\ UNCHANGED <<verdict, codes, seen, early, armed>>
    BY <1>0, <2>1, <2>4 DEF CommandInv, PlaceInv, HeldInv, CodesInv, EarlyInv, ReturnInv, Measured,
                Answered, Current, Admitted, Over
  <2> QED BY <1>0, <1>4, <2>2, <2>3, <2>4 DEF Fetch, NextEndpoint, TypeOK
<1>5. CASE PauseRound(p)
  <2>1. CASE Conclude(p, "inconclusive", "unseen")
    BY <1>0, <1>5, <2>1, ConcludeStep DEF PauseRound, Sights
  <2>2. CASE ~Conclude(p, "inconclusive", "unseen")
    <3>1. /\ pc[p] = "pause" /\ pc'[p] = "fetch"
          /\ UNCHANGED <<lock, latch, stopped, held, verdict, codes, code, seen, early, armed>>
      BY <1>0, <1>5, <2>2 DEF PauseRound, TypeOK
    <3> QED
      BY <1>0, <3>1
         DEF CommandInv, PlaceInv, HeldInv, CodesInv, EarlyInv, ReturnInv, Measured, Answered,
                Current, Admitted, Over
  <2> QED BY <2>1, <2>2
<1>6. CASE Bootstrap(p)
  <2>1. CASE Conclude(p, "inconclusive", "unseen")
    BY <1>0, <1>6, <2>1, ConcludeStep DEF Bootstrap, Sights
  <2>2. CASE ~Conclude(p, "inconclusive", "unseen")
    <3>1. /\ pc[p] = "bootstrap" /\ pc'[p] = "identity"
          /\ UNCHANGED <<lock, latch, stopped, held, verdict, codes, code, seen, early, armed>>
      BY <1>0, <1>6, <2>2 DEF Bootstrap, TypeOK
    <3> QED
      BY <1>0, <3>1
         DEF CommandInv, PlaceInv, HeldInv, CodesInv, EarlyInv, ReturnInv, Measured, Answered,
                Current, Admitted, Over
  <2> QED BY <2>1, <2>2
<1>7. CASE Record(p)
  <2>1. /\ pc[p] = "record"
        /\ pc'[p] = IF verdict[p] = "negative" THEN "contain" ELSE AfterRecord(p)
        /\ codes'[p] \in {codes[p], codes[p] \cup {ERROR}}
        /\ UNCHANGED <<lock, latch, stopped, held, verdict, code, seen, early, armed>>
    BY <1>0, <1>7 DEF Record, Add, TypeOK
  <2> QED
    BY <1>0, <2>1 DEF CommandInv, PlaceInv, HeldInv, CodesInv, EarlyInv, ReturnInv, Measured, Answered,
                Current, Admitted, Over, AfterRecord, OK, ERROR, EMERGENCY_VERIFIED
<1>8. CASE Contain(p)
  <2>1. held[p].sid # NoSession /\ pc[p] = "contain"
    BY <1>0, <1>8 DEF Contain, CommandInv, PlaceInv
  <2>2. AfterRecord(p) \in {"supervised", "relatch"} /\ (p \in Starters => AfterRecord(p) # "supervised")
    BY DEF AfterRecord
  <2>3. TOR_NEGATIVE \in ExitCodes \ {OK, EMERGENCY_VERIFIED}
    BY DEF TOR_NEGATIVE, ExitCodes, OK, EMERGENCY_VERIFIED
  <2> QED BY <1>0, <1>8, <2>1, <2>2, <2>3, RequestStep DEF Contain
<1>9. CASE CheckSupervised(p)
  <2>1. held[p].sid # NoSession /\ pc[p] = "supervised" /\ pc'[p] = "emit" /\ p \notin Starters
    BY <1>0, <1>9 DEF CheckSupervised, CommandInv, PlaceInv, TypeOK
  <2>2. CASE RequestEmergency(p, WATCHDOG_UNAVAILABLE)
    <3>1. WATCHDOG_UNAVAILABLE \in ExitCodes \ {OK, EMERGENCY_VERIFIED}
      BY DEF WATCHDOG_UNAVAILABLE, ExitCodes, OK, EMERGENCY_VERIFIED
    <3> QED BY <1>0, <1>9, <2>1, <2>2, <3>1, RequestStep DEF CheckSupervised
  <2>3. CASE UNCHANGED <<table, latch, codes, armed>>
    BY <1>0, <1>9, <2>1, <2>3 DEF CheckSupervised, CommandInv, PlaceInv, HeldInv, CodesInv, EarlyInv,
                ReturnInv, Measured, Answered, Current, Admitted, Over
  <2> QED BY <1>9, <2>2, <2>3 DEF CheckSupervised
<1>10. CASE StartWatchdog(p)
  <2>1. held[p].sid # NoSession /\ pc[p] = "watchdog"
    BY <1>0, <1>10 DEF StartWatchdog, CommandInv, PlaceInv
  <2>2. CASE Goto(p, "watchdog", "relatch") /\ RequestEmergency(p, WATCHDOG_UNAVAILABLE)
    <3>1. WATCHDOG_UNAVAILABLE \in ExitCodes \ {OK, EMERGENCY_VERIFIED}
      BY DEF WATCHDOG_UNAVAILABLE, ExitCodes, OK, EMERGENCY_VERIFIED
    <3> QED BY <1>0, <1>10, <2>1, <2>2, <3>1, RequestStep DEF StartWatchdog
  <2>3. CASE Goto(p, "watchdog", "bootstrap") /\ UNCHANGED <<table, latch, codes, armed>>
    <3>1. pc'[p] = "bootstrap"
      BY <1>0, <2>3 DEF TypeOK
    <3> QED
      BY <1>0, <1>10, <2>1, <2>3, <3>1 DEF StartWatchdog, CommandInv, PlaceInv, HeldInv, CodesInv,
                EarlyInv, ReturnInv, Measured, Answered, Current, Admitted, Over
  <2> QED BY <1>10, <2>2, <2>3 DEF StartWatchdog
<1>11. CASE Relatch(p)
  <2>1. held[p].sid # NoSession /\ pc[p] = "relatch" /\ pc'[p] = "emit"
    BY <1>0, <1>11 DEF Relatch, CommandInv, PlaceInv, TypeOK
  <2>2. CASE RequestEmergency(p, ERROR)
    <3>1. ERROR \in ExitCodes \ {OK, EMERGENCY_VERIFIED}
      BY DEF ERROR, ExitCodes, OK, EMERGENCY_VERIFIED
    <3> QED BY <1>0, <1>11, <2>1, <2>2, <3>1, RequestStep DEF Relatch
  <2>3. CASE ~latch[held[p].sid] /\ UNCHANGED <<table, latch, codes, armed>>
    BY <1>0, <1>11, <2>1, <2>3 DEF Relatch, CommandInv, PlaceInv, HeldInv, CodesInv, EarlyInv,
                ReturnInv, Measured, Answered, Current, Admitted, Over
  <2>4. CASE Add(p, {CONTAINMENT_UNCONFIRMED}) /\ UNCHANGED <<table, latch, armed>>
    <3>1. codes'[p] = codes[p] \cup {CONTAINMENT_UNCONFIRMED}
      BY <1>0, <2>4 DEF Add, TypeOK
    <3> QED
      BY <1>0, <1>11, <2>1, <2>4, <3>1 DEF Relatch, CommandInv, PlaceInv, HeldInv, CodesInv, EarlyInv,
                ReturnInv, Measured, Answered, Current, Admitted, Over, Alarms, OK,
                CONTAINMENT_UNCONFIRMED, EMERGENCY_VERIFIED
  <2> QED BY <1>11, <2>2, <2>3, <2>4 DEF Relatch
<1>12. CASE CheckLatch(p)
  <2>1. /\ pc[p] = "latch" /\ pc'[p] \in {"observe", "identity", "done"}
        /\ UNCHANGED <<lock, latch, stopped, held, verdict, codes, seen, early, armed>>
    BY <1>0, <1>12 DEF CheckLatch, TypeOK
  <2> QED
    BY <1>0, <2>1 DEF CommandInv, PlaceInv, HeldInv, CodesInv, EarlyInv, ReturnInv, Measured, Answered,
                Current, Admitted, Over
<1>13. CASE CheckObserve(p)
  <2>1. /\ pc[p] = "observe" /\ pc'[p] = "done"
        /\ UNCHANGED <<lock, latch, stopped, held, verdict, codes, seen, early, armed>>
    BY <1>0, <1>13 DEF CheckObserve, TypeOK
  <2> QED
    BY <1>0, <2>1 DEF CommandInv, PlaceInv, HeldInv, CodesInv, EarlyInv, ReturnInv, Measured, Answered,
                Current, Admitted, Over
<1>14. CASE CheckEmit(p) \/ StartEmit(p)
  <2>1. PICK S : /\ code' = [code EXCEPT ![p] = ExitCodeOf(S)]
                 /\ S = codes[p] \/ S = codes[p] \cup {NOTIFICATION_FAILED}
    BY <1>14 DEF CheckEmit, StartEmit, Emit
  <2>2. /\ S \in SUBSET ExitCodes /\ codes[p] \subseteq S /\ S \subseteq codes[p] \cup {NOTIFICATION_FAILED}
        /\ codes[p] \in SUBSET ExitCodes
    BY <1>0, <2>1 DEF TypeOK, ExitCodes
  <2>3. /\ pc[p] = "emit" /\ pc'[p] = "done" /\ codes'[p] = {} /\ code'[p] = ExitCodeOf(S)
        /\ UNCHANGED <<lock, latch, stopped, held, verdict, seen, early, armed>>
    BY <1>0, <1>14, <2>1 DEF CheckEmit, StartEmit, Emit, TypeOK
  <2>4. codes[p] \cap Alarms # {} => ExitCodeOf(S) \in codes[p] \cap Alarms
    BY <2>2, AlarmPrevails DEF Alarms, NOTIFICATION_FAILED, EMERGENCY_VERIFIED, CONTAINMENT_UNCONFIRMED
  <2>5. codes[p] # {} => ExitCodeOf(S) # OK
    <3>1. OK \notin S
      BY <1>0, <2>2 DEF CommandInv, CodesInv, OK, NOTIFICATION_FAILED
    <3> QED BY <2>2, <3>1, ExitCodeTyped
  <2>6. PlaceInv(p)' /\ HeldInv(p)' /\ CodesInv(p)' /\ EarlyInv(p)'
    BY <1>0, <2>3 DEF CommandInv, PlaceInv, HeldInv, CodesInv, EarlyInv, Over
  <2>7. Measured(p)' /\ Admitted(p)'
    BY <1>0, <2>3, <2>4 DEF CommandInv, ReturnInv, CodesInv, Measured, Admitted, Over
  <2>8. Answered(p)'
    BY <1>0, <2>3, <2>4 DEF CommandInv, CodesInv, Answered, Alarms, Over
  <2>9. p \in Starters => Current(p)'
    BY <1>0, <2>3, <2>5 DEF CommandInv, CodesInv, EarlyInv, Current, Over
  <2> QED BY <2>6, <2>7, <2>8, <2>9 DEF CommandInv, ReturnInv
<1> QED
  BY <1>1, <1>2, <1>3, <1>4, <1>5, <1>6, <1>7, <1>8, <1>9, <1>10, <1>11, <1>12, <1>13, <1>14
     DEF Step

\* Before any command runs nothing is claimed.
LEMMA InitVerification == Init => VerificationInv
<1> SUFFICES ASSUME Init PROVE VerificationInv
  OBVIOUS
<1>1. TypeOK
  <2>1. /\ latch \in [Sessions -> BOOLEAN] /\ early \in [Procs -> BOOLEAN] /\ armed \in [Procs -> BOOLEAN]
    BY Zenon DEF Init
  <2>2. /\ attempt \in [Procs -> 1 .. Attempts] /\ left \in [Procs -> 0 .. Budget]
        /\ endpoint \in [Procs -> Endpoints]
    BY ProbeAssumption DEF Init, Endpoints, Authority
  <2>3. codes \in [Procs -> SUBSET ExitCodes] /\ code \in [Procs -> ExitCodes]
    BY DEF Init, ExitCodes
  <2> QED BY <2>1, <2>2, <2>3 DEF Init, TypeOK, Locks, Points, States, Sights
<1>2. ASSUME NEW p \in Procs PROVE CommandInv(p)
  BY DEF Init, CommandInv, PlaceInv, HeldInv, CodesInv, EarlyInv, ReturnInv, Measured, Answered,
         Current, Admitted, Absent
<1> QED BY <1>1, <1>2 DEF VerificationInv

\* Every step keeps what is known of every command.
LEMMA NextVerification == VerificationInv /\ [Next]_vars => VerificationInv'
<1> SUFFICES ASSUME VerificationInv, [Next]_vars PROVE VerificationInv'
  OBVIOUS
<1>1. CASE Next
  <2>1. TypeOK /\ TypeOK'
    BY <1>1, TypeStep DEF VerificationInv
  <2>2. ASSUME NEW p \in Procs, CheckBegin(p) \/ StartBegin(p) \/ Step(p), NEW q \in Procs
        PROVE  CommandInv(q)'
    <3>1. CASE q = p
      BY <2>1, <2>2, <3>1, OwnStep
    <3>2. CASE q # p
      <4>1. /\ Own(q)' = Own(q) /\ stopped' = stopped
            /\ lock' = lock \/ lock = Absent
            /\ \A s \in Sessions : latch[s] => latch'[s]
        BY <2>1, <2>2, <3>2, Frame
      <4>2. CommandInv(q) /\ HeldInv(q)
        BY DEF VerificationInv, CommandInv
      <4>3. HeldInv(q)'
        BY <4>1, <4>2 DEF HeldInv, Over, Own, Absent
      <4> QED BY <2>1, <4>1, <4>2, <4>3, Undisturbed
    <3> QED BY <3>1, <3>2
  <2> QED BY <1>1, <2>1, <2>2, EnvironmentStep DEF Next, VerificationInv
<1>2. CASE UNCHANGED vars
  BY <1>2 DEF vars, VerificationInv, TypeOK, CommandInv, PlaceInv, HeldInv, CodesInv, EarlyInv,
              ReturnInv, Measured, Answered, Current, Admitted, Over
<1> QED BY <1>1, <1>2

\* The invariant of the commands holds whatever the constants are.
THEOREM Commands == Spec => []VerificationInv
BY InitVerification, NextVerification, PTL DEF Spec

\* verify_session says confirmed or negative only on the authority's answer to a
\* request that went the way the session's own traffic goes.
THEOREM MeasuredVerdicts == Spec => []VerdictIsMeasured
<1>1. VerificationInv => VerdictIsMeasured
  BY DEF VerificationInv, CommandInv, ReturnInv, VerdictIsMeasured
<1> QED BY <1>1, Commands, PTL

\* A command that returns a negative verdict has its session contained, says that
\* containment is unconfirmed, or the session was stopped.
THEOREM NegativesAnswered == Spec => []NegativeIsContained
<1>1. VerificationInv => NegativeIsContained
  BY DEF VerificationInv, CommandInv, ReturnInv, NegativeIsContained
<1> QED BY <1>1, Commands, PTL

\* ttp start succeeds only for a confirmed session nobody had contained when the
\* probe ended.
THEOREM CurrentSuccess == Spec => []StartSuccessIsCurrent
<1>1. VerificationInv => StartSuccessIsCurrent
  BY DEF VerificationInv, CommandInv, ReturnInv, StartSuccessIsCurrent, Procs
<1> QED BY <1>1, Commands, PTL

\* No diagnostic hides from the exit code that a command armed the killswitch.
THEOREM ArmingsReported == Spec => []ArmingIsReported
<1>1. VerificationInv => ArmingIsReported
  BY DEF VerificationInv, CommandInv, ReturnInv, ArmingIsReported
<1> QED BY <1>1, Commands, PTL
================================================================================
