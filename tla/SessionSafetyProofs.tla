-------------------------- MODULE SessionSafetyProofs --------------------------
(***************************************************************************)
(* Safety of emergency containment and explicit termination, for every set *)
(* of sessions, starters, stoppers, workers and handlers and every number  *)
(* of crashes and damaged lock files.                                      *)
(*                                                                         *)
(* SafetyInv is inductive. Its typing part needs only HoldsSession, so it  *)
(* is proved first, group of actions by group of actions; the other parts  *)
(* follow with the typing of both states in hand.                          *)
(*                                                                         *)
(* On top of it, LossInv is inductive under MarkersSettle and SoleInv      *)
(* under SoleCommands; both share their first two parts. SoleInv maps      *)
(* every step to a step of Containment's promise or to a stutter.          *)
(***************************************************************************)
EXTENDS SessionSafety, TLAPS

--------------------------------------------------------------------------------
(* Typing *)

\* A process that ends forgets its locals.
LEMMA ForgetTyped ==
    ASSUME TypeOK, NEW p \in Procs, Forget(p)
    PROVE  /\ sid' \in [Procs -> Sessions \cup {NoSession}]
           /\ repair' \in [Procs -> BOOLEAN]
           /\ despite' \in [Procs -> BOOLEAN]
           /\ copy' \in [Procs -> LockFiles]
           /\ check' \in [Procs -> BOOLEAN]
           /\ fault' \in [Procs -> BOOLEAN]
           /\ outcome' \in [Procs -> Outcomes]
           /\ implicit' \in [Procs -> BOOLEAN]
BY DEF TypeOK, Forget, LockFiles, Outcomes

\* A return of request_emergency leaves the transition and the locals typed.
LEMMA ReturnTyped ==
    ASSUME TypeOK, NEW p \in Procs, NEW result \in Outcomes, Return(p, result)
    PROVE  /\ pc' \in [Procs -> Points]
           /\ mutex' \in Procs \cup {NoProc}
           /\ sid' \in [Procs -> Sessions \cup {NoSession}]
           /\ repair' \in [Procs -> BOOLEAN]
           /\ despite' \in [Procs -> BOOLEAN]
           /\ copy' \in [Procs -> LockFiles]
           /\ check' \in [Procs -> BOOLEAN]
           /\ fault' \in [Procs -> BOOLEAN]
           /\ outcome' \in [Procs -> Outcomes]
           /\ implicit' \in [Procs -> BOOLEAN]
BY DEF TypeOK, Return, Points

\* Every step of request_emergency keeps the types.
LEMMA RequestStepTyped ==
    ASSUME TypeOK, HoldsSession, NEW p \in Procs, RequestStep(p)
    PROVE  TypeOK'
<1> USE IdentityAssumption DEF TypeOK, HoldsSession, Goto, files, local, aux,
        Points, Critical, RequestCritical, MarkCritical, SessionPoints, Outcomes,
        Tables, Latches, LockFiles, Recorded, Absent, Corrupt, SessionTables, EmergencyTables
<1>1. CASE Acquire(p)
  BY <1>1 DEF Acquire, Enter
<1>2. CASE TransitionFails(p)
  BY <1>2 DEF TransitionFails, Return
<1>3. CASE ReadMarker(p)
  <2>1. CASE Return(p, "noop")  BY <1>3, <2>1, ReturnTyped DEF ReadMarker
  <2>2. CASE Goto(p, "marker", "intent") /\ UNCHANGED <<mutex, local>>
    BY <1>3, <2>2 DEF ReadMarker
  <2> QED BY <1>3, <2>1, <2>2 DEF ReadMarker
<1>4. CASE ReadIntent(p)
  <2>1. CASE Return(p, "noop")  BY <1>4, <2>1, ReturnTyped DEF ReadIntent
  <2>2. CASE Goto(p, "intent", "latch") /\ UNCHANGED <<mutex, local>>
    BY <1>4, <2>2 DEF ReadIntent
  <2> QED BY <1>4, <2>1, <2>2 DEF ReadIntent
<1>5. CASE WriteLatch(p)
  <2>1. sid[p] \in Sessions  BY <1>5 DEF WriteLatch
  <2>2. latch' \in [Sessions -> Latches]  BY <1>5, <2>1 DEF WriteLatch
  <2>3. fault' \in [Procs -> BOOLEAN]  BY <1>5 DEF WriteLatch
  <2>4. pc' \in [Procs -> Points]  BY <1>5 DEF WriteLatch
  <2> QED BY <1>5, <2>2, <2>3, <2>4 DEF WriteLatch
<1>6. CASE InspectFirst(p)
  BY <1>6, ZenonT(30) DEF InspectFirst, Inspected, MatchesEmergencyContract
<1>7. CASE ApplyEmergency(p)
  BY <1>7 DEF ApplyEmergency, ApplyKillswitchTo
<1>8. CASE Verify(p)
  BY <1>8, ZenonT(30) DEF Verify, Inspected, MatchesEmergencyContract
<1>9. CASE Publish(p)
  <2>1. sid[p] \in Sessions  BY <1>9 DEF Publish
  <2>2. latch' \in [Sessions -> Latches]  BY <1>9, <2>1 DEF Publish
  <2>3. \E result \in Outcomes : Return(p, result)  BY <1>9 DEF Publish
  <2> QED BY <1>9, <2>2, <2>3, ReturnTyped DEF Publish
<1> QED BY <1>1, <1>2, <1>3, <1>4, <1>5, <1>6, <1>7, <1>8, <1>9 DEF
           RequestStep

\* Every step of the callers of request_emergency and the termination handler keeps the types.
LEMMA ObserverStepTyped ==
    ASSUME TypeOK, HoldsSession, NEW p \in Procs, ObserverStep(p)
    PROVE  TypeOK'
<1> USE IdentityAssumption DEF TypeOK, HoldsSession, Goto, files, local, aux,
        Points, Critical, RequestCritical, MarkCritical, SessionPoints, Outcomes,
        Tables, Latches, LockFiles, Recorded, Absent, Corrupt, SessionTables, EmergencyTables
<1>1. CASE Observe(p)
  BY <1>1 DEF Observe, Readable
<1>2. CASE Leave(p)
  BY <1>2 DEF Leave, Forget
<1>3. CASE Request(p)
  BY <1>3 DEF Request
<1>4. CASE SupervisorEnds(p)
  BY <1>4 DEF SupervisorEnds
<1>5. CASE Terminated(p)
  <2>1. CASE UNCHANGED <<repair, despite>>  BY <1>5, <2>1 DEF Terminated
  <2>2. CASE /\ pc' = [pc EXCEPT ![p] = "acquire"]
             /\ repair' = [repair EXCEPT ![p] = TRUE]
             /\ despite' = [despite EXCEPT ![p] = TRUE]
    BY <1>5, <2>2 DEF Terminated
  <2> QED BY <1>5, <2>1, <2>2 DEF Terminated
<1> QED BY <1>1, <1>2, <1>3, <1>4, <1>5 DEF ObserverStep

\* Every step of ttp start and start_watchdog keeps the types.
LEMMA StartStepTyped ==
    ASSUME TypeOK, HoldsSession, NEW p \in Procs, StartStep(p)
    PROVE  TypeOK'
<1> USE IdentityAssumption DEF TypeOK, HoldsSession, Goto, files, local, aux,
        Points, Critical, RequestCritical, MarkCritical, SessionPoints, Outcomes,
        Tables, Latches, LockFiles, Recorded, Absent, Corrupt, SessionTables, EmergencyTables
<1>1. CASE StartCheck(p)
  BY <1>1 DEF StartCheck
<1>2. CASE ApplyRules(p)
  BY <1>2, SMTT(20) DEF ApplyRules, ApplyRulesTo, FlushRules
<1>3. CASE StartFails(p)
  BY <1>3 DEF StartFails, FlushRules
<1>4. CASE UndoRules(p)
  BY <1>4 DEF UndoRules, Forget
<1>5. CASE WriteLock(p)
  BY <1>5 DEF WriteLock
<1>6. CASE ClearMarker(p)
  <2>1. abandoned' \subseteq Sessions  BY <1>6 DEF ClearMarker
  <2>2. CASE Forget(p)  BY <1>6, <2>1, <2>2, ForgetTyped DEF ClearMarker
  <2>3. CASE UNCHANGED local  BY <1>6, <2>1, <2>3 DEF ClearMarker
  <2> QED BY <1>6, <2>2, <2>3 DEF ClearMarker
<1>7. CASE UpdateRead(p)
  BY <1>7 DEF UpdateRead, Readable
<1>8. CASE UpdateWrite(p)
  BY <1>8, ZenonT(30) DEF UpdateWrite
<1> QED BY <1>1, <1>2, <1>3, <1>4, <1>5, <1>6, <1>7, <1>8 DEF StartStep

\* Every step of ttp stop, restore-only and restart keeps the types.
LEMMA StopStepTyped ==
    ASSUME TypeOK, HoldsSession, NEW p \in Procs, StopStep(p)
    PROVE  TypeOK'
<1> USE IdentityAssumption DEF TypeOK, HoldsSession, Goto, files, local, aux,
        Points, Critical, RequestCritical, MarkCritical, SessionPoints, Outcomes,
        Tables, Latches, LockFiles, Recorded, Absent, Corrupt, SessionTables, EmergencyTables
<1>1. CASE RestartCheck(p)
  BY <1>1 DEF RestartCheck, Readable
<1>2. CASE StopBegin(p)
  <2>1. CASE Readable(lockFile)
    <3>1. sid' \in [Procs -> Sessions \cup {NoSession}]  BY <1>2, <2>1 DEF StopBegin, Readable
    <3> QED BY <1>2, <2>1, <3>1 DEF StopBegin
  <2>2. CASE ~Readable(lockFile)
    <3>1. Forget(p)  BY <1>2, <2>2 DEF StopBegin
    <3>2. Goto(p, "unlatched", "idle") /\ UNCHANGED <<files, mutex, table, supervisor, aux>>
      BY <1>2, <2>2 DEF StopBegin
    <3>3. pc' \in [Procs -> Points]  BY <3>2
    <3>4. /\ UNCHANGED <<lockFile, marker, latch, mutex, table, supervisor>>
          /\ UNCHANGED <<used, terminated, abandoned, crashes, damage>>
      BY <3>2
    <3> QED BY <3>1, <3>3, <3>4, ForgetTyped
  <2> QED BY <2>1, <2>2
<1>3. CASE RestoreOnly(p)
  BY <1>3 DEF RestoreOnly
<1>4. CASE StopAcquire(p)
  BY <1>4 DEF StopAcquire, Enter
<1>5. CASE StopRefused(p)
  BY <1>5 DEF StopRefused, Forget
<1>6. CASE MarkCheck(p)
  <2>1. CASE lockFile.sid = sid[p]  BY <1>6, <2>1 DEF MarkCheck
  <2>2. CASE lockFile.sid # sid[p]  BY <1>6, <2>2, ForgetTyped DEF MarkCheck, Exit
  <2> QED BY <2>1, <2>2
<1>7. CASE MarkRead(p)
  BY <1>7 DEF MarkRead, Readable
<1>8. CASE MarkWrite(p)
  BY <1>8 DEF MarkWrite
<1>9. CASE MarkFails(p)
  BY <1>9 DEF MarkFails, Exit, Forget
<1>10. CASE MarkDone(p)
  BY <1>10 DEF MarkDone, Exit
<1>11. CASE ForceMark(p)
  BY <1>11 DEF ForceMark, Exit
<1>12. CASE StopWatchdog(p)
  BY <1>12 DEF StopWatchdog
<1>13. CASE StopWaited(p)
  BY <1>13 DEF StopWaited
<1>14. CASE UnwatchRead(p)
  BY <1>14 DEF UnwatchRead, Readable
<1>15. CASE UnwatchWrite(p)
  BY <1>15 DEF UnwatchWrite
<1>16. CASE Lockdown(p)
  BY <1>16 DEF Lockdown, InsertDrop
<1>17. CASE Flush(p)
  BY <1>17 DEF Flush, FlushRules
<1>18. CASE Delete(p)
  <2>1. CASE UNCHANGED local  BY <1>18, <2>1 DEF Delete
  <2>2. CASE Forget(p)  BY <1>18, <2>2, ForgetTyped DEF Delete
  <2> QED BY <1>18, <2>1, <2>2 DEF Delete
<1>19. CASE DeleteLock(p)
  BY <1>19 DEF DeleteLock, Forget
<1> QED BY <1>1, <1>2, <1>3, <1>4, <1>5, <1>6, <1>7, <1>8, <1>9, <1>10, <1>11,
           <1>12, <1>13, <1>14, <1>15, <1>16, <1>17, <1>18, <1>19 DEF StopStep

--------------------------------------------------------------------------------
(* The inductive step of SafetyInv *)

\* Every step of request_emergency keeps SafetyInv.
LEMMA RequestStepSafe ==
    ASSUME SafetyInv, NEW p \in Procs, RequestStep(p)
    PROVE  SafetyInv'
<1>0. TypeOK /\ TypeOK'  BY RequestStepTyped DEF SafetyInv
<1> USE <1>0, IdentityAssumption
    DEF SafetyInv, HoldsSession, MutualExclusion, StopIntentRespected, ResultAtRest,
        LatchedOrFault, VerifiedIsLatched, StopWasRequested, Goto, files, local, aux,
        Critical, RequestCritical, MarkCritical, Committed, SessionPoints,
        LockFiles, Recorded, Absent, Corrupt
<1>1. CASE Acquire(p)
  BY <1>1 DEF TypeOK, Acquire, Enter
<1>2. CASE TransitionFails(p)
  BY <1>2 DEF TypeOK, TransitionFails, Return
<1>3. CASE ReadMarker(p)
  <2>1. HoldsSession'  BY <1>3 DEF TypeOK, ReadMarker, Return, StopWasRequested
  <2>2. MutualExclusion'  BY <1>3 DEF TypeOK, ReadMarker, Return, StopWasRequested
  <2>3. StopIntentRespected'  BY <1>3 DEF TypeOK, ReadMarker, Return, StopWasRequested
  <2>4. ResultAtRest'  BY <1>3 DEF TypeOK, ReadMarker, Return, StopWasRequested
  <2>5. LatchedOrFault'  BY <1>3 DEF TypeOK, ReadMarker, Return, StopWasRequested
  <2>6. VerifiedIsLatched'  BY <1>3 DEF TypeOK, ReadMarker, Return, StopWasRequested
  <2> QED BY <2>1, <2>2, <2>3, <2>4, <2>5, <2>6
<1>4. CASE ReadIntent(p)
  <2>1. HoldsSession'  BY <1>4 DEF TypeOK, ReadIntent, Return, IntentHolds, Readable
  <2>2. MutualExclusion'  BY <1>4 DEF TypeOK, ReadIntent, Return, IntentHolds, Readable
  <2>3. StopIntentRespected'  BY <1>4 DEF TypeOK, ReadIntent, Return, IntentHolds, Readable
  <2>4. ResultAtRest'  BY <1>4 DEF TypeOK, ReadIntent, Return, IntentHolds, Readable
  <2>5. LatchedOrFault'  BY <1>4 DEF TypeOK, ReadIntent, Return, IntentHolds, Readable
  <2>6. VerifiedIsLatched'  BY <1>4 DEF TypeOK, ReadIntent, Return, IntentHolds, Readable
  <2> QED BY <2>1, <2>2, <2>3, <2>4, <2>5, <2>6
<1>5. CASE WriteLatch(p)
  <2>1. HoldsSession'  BY <1>5 DEF TypeOK, WriteLatch
  <2>2. MutualExclusion'  BY <1>5 DEF TypeOK, WriteLatch
  <2>3. StopIntentRespected'  BY <1>5 DEF TypeOK, WriteLatch
  <2>4. ResultAtRest'  BY <1>5 DEF TypeOK, WriteLatch
  <2>5. LatchedOrFault'  BY <1>5 DEF TypeOK, WriteLatch
  <2>6. VerifiedIsLatched'  BY <1>5 DEF TypeOK, WriteLatch
  <2> QED BY <2>1, <2>2, <2>3, <2>4, <2>5, <2>6
<1>6. CASE InspectFirst(p)
  <2>1. HoldsSession'  BY <1>6 DEF TypeOK, InspectFirst, Inspected, MatchesEmergencyContract
  <2>2. MutualExclusion'  BY <1>6 DEF TypeOK, InspectFirst, Inspected, MatchesEmergencyContract
  <2>3. StopIntentRespected'  BY <1>6 DEF TypeOK, InspectFirst, Inspected, MatchesEmergencyContract
  <2>4. ResultAtRest'  BY <1>6 DEF TypeOK, InspectFirst, Inspected, MatchesEmergencyContract
  <2>5. LatchedOrFault'  BY <1>6 DEF TypeOK, InspectFirst, Inspected, MatchesEmergencyContract
  <2>6. VerifiedIsLatched'  BY <1>6 DEF TypeOK, InspectFirst, Inspected, MatchesEmergencyContract
  <2> QED BY <2>1, <2>2, <2>3, <2>4, <2>5, <2>6
<1>7. CASE ApplyEmergency(p)
  BY <1>7 DEF TypeOK, ApplyEmergency, ApplyKillswitchTo
<1>8. CASE Verify(p)
  <2>1. HoldsSession'  BY <1>8 DEF TypeOK, Verify, Inspected, MatchesEmergencyContract
  <2>2. MutualExclusion'  BY <1>8 DEF TypeOK, Verify, Inspected, MatchesEmergencyContract
  <2>3. StopIntentRespected'  BY <1>8 DEF TypeOK, Verify, Inspected, MatchesEmergencyContract
  <2>4. ResultAtRest'  BY <1>8 DEF TypeOK, Verify, Inspected, MatchesEmergencyContract
  <2>5. LatchedOrFault'  BY <1>8 DEF TypeOK, Verify, Inspected, MatchesEmergencyContract
  <2>6. VerifiedIsLatched'  BY <1>8 DEF TypeOK, Verify, Inspected, MatchesEmergencyContract
  <2> QED BY <2>1, <2>2, <2>3, <2>4, <2>5, <2>6
<1>9. CASE Publish(p)
  <2>1. HoldsSession'  BY <1>9 DEF TypeOK, Publish, Return
  <2>2. MutualExclusion'  BY <1>9 DEF TypeOK, Publish, Return
  <2>3. StopIntentRespected'  BY <1>9 DEF TypeOK, Publish, Return
  <2>4. ResultAtRest'  BY <1>9 DEF TypeOK, Publish, Return
  <2>5. LatchedOrFault'  BY <1>9 DEF TypeOK, Publish, Return
  <2>6. VerifiedIsLatched'  BY <1>9 DEF TypeOK, Publish, Return
  <2> QED BY <2>1, <2>2, <2>3, <2>4, <2>5, <2>6
<1> QED BY <1>1, <1>2, <1>3, <1>4, <1>5, <1>6, <1>7, <1>8, <1>9 DEF
           RequestStep

\* Every step of the callers of request_emergency and the termination handler keeps SafetyInv.
LEMMA ObserverStepSafe ==
    ASSUME SafetyInv, NEW p \in Procs, ObserverStep(p)
    PROVE  SafetyInv'
<1>0. TypeOK /\ TypeOK'  BY ObserverStepTyped DEF SafetyInv
<1> USE <1>0, IdentityAssumption
    DEF SafetyInv, HoldsSession, MutualExclusion, StopIntentRespected, ResultAtRest,
        LatchedOrFault, VerifiedIsLatched, StopWasRequested, Goto, files, local, aux,
        Critical, RequestCritical, MarkCritical, Committed, SessionPoints,
        LockFiles, Recorded, Absent, Corrupt
<1>1. CASE Observe(p)
  BY <1>1 DEF TypeOK, Observe, Readable
<1>2. CASE Leave(p)
  BY <1>2 DEF TypeOK, Leave, Forget
<1>3. CASE Request(p)
  BY <1>3 DEF TypeOK, Request
<1>4. CASE SupervisorEnds(p)
  BY <1>4 DEF TypeOK, SupervisorEnds
<1>5. CASE Terminated(p)
  <2>1. HoldsSession'  BY <1>5 DEF TypeOK, Terminated
  <2>2. MutualExclusion'  BY <1>5 DEF TypeOK, Terminated
  <2>3. StopIntentRespected'  BY <1>5 DEF TypeOK, Terminated
  <2>4. ResultAtRest'  BY <1>5 DEF TypeOK, Terminated
  <2>5. LatchedOrFault'  BY <1>5 DEF TypeOK, Terminated
  <2>6. VerifiedIsLatched'  BY <1>5 DEF TypeOK, Terminated
  <2> QED BY <2>1, <2>2, <2>3, <2>4, <2>5, <2>6
<1> QED BY <1>1, <1>2, <1>3, <1>4, <1>5 DEF ObserverStep

\* Every step of ttp start and start_watchdog keeps SafetyInv.
LEMMA StartStepSafe ==
    ASSUME SafetyInv, NEW p \in Procs, StartStep(p)
    PROVE  SafetyInv'
<1>0. TypeOK /\ TypeOK'  BY StartStepTyped DEF SafetyInv
<1> USE <1>0, IdentityAssumption
    DEF SafetyInv, HoldsSession, MutualExclusion, StopIntentRespected, ResultAtRest,
        LatchedOrFault, VerifiedIsLatched, StopWasRequested, Goto, files, local, aux,
        Critical, RequestCritical, MarkCritical, Committed, SessionPoints,
        LockFiles, Recorded, Absent, Corrupt
<1>1. CASE StartCheck(p)
  BY <1>1 DEF TypeOK, StartCheck
<1>2. CASE ApplyRules(p)
  BY <1>2 DEF TypeOK, ApplyRules, ApplyRulesTo, FlushRules
<1>3. CASE StartFails(p)
  BY <1>3 DEF TypeOK, StartFails, FlushRules
<1>4. CASE UndoRules(p)
  BY <1>4 DEF TypeOK, UndoRules, Forget
<1>5. CASE WriteLock(p)
  BY <1>5 DEF TypeOK, WriteLock
<1>6. CASE ClearMarker(p)
  BY <1>6 DEF TypeOK, ClearMarker, Forget
<1>7. CASE UpdateRead(p)
  BY <1>7 DEF TypeOK, UpdateRead, Readable
<1>8. CASE UpdateWrite(p)
  <2>1. HoldsSession'  BY <1>8 DEF TypeOK, UpdateWrite
  <2>2. MutualExclusion'  BY <1>8 DEF TypeOK, UpdateWrite
  <2>3. StopIntentRespected'  BY <1>8 DEF TypeOK, UpdateWrite
  <2>4. ResultAtRest'  BY <1>8 DEF TypeOK, UpdateWrite
  <2>5. LatchedOrFault'  BY <1>8 DEF TypeOK, UpdateWrite
  <2>6. VerifiedIsLatched'  BY <1>8 DEF TypeOK, UpdateWrite
  <2> QED BY <2>1, <2>2, <2>3, <2>4, <2>5, <2>6
<1> QED BY <1>1, <1>2, <1>3, <1>4, <1>5, <1>6, <1>7, <1>8 DEF StartStep

\* Every step of ttp stop, restore-only and restart keeps SafetyInv.
LEMMA StopStepSafe ==
    ASSUME SafetyInv, NEW p \in Procs, StopStep(p)
    PROVE  SafetyInv'
<1>0. TypeOK /\ TypeOK'  BY StopStepTyped DEF SafetyInv
<1> USE <1>0, IdentityAssumption
    DEF SafetyInv, HoldsSession, MutualExclusion, StopIntentRespected, ResultAtRest,
        LatchedOrFault, VerifiedIsLatched, StopWasRequested, Goto, files, local, aux,
        Critical, RequestCritical, MarkCritical, Committed, SessionPoints,
        LockFiles, Recorded, Absent, Corrupt
<1>1. CASE RestartCheck(p)
  BY <1>1 DEF TypeOK, RestartCheck, Readable
<1>2. CASE StopBegin(p)
  <2>1. HoldsSession'  BY <1>2 DEF TypeOK, StopBegin, Readable, Forget
  <2>2. MutualExclusion'  BY <1>2 DEF TypeOK, StopBegin, Readable, Forget
  <2>3. StopIntentRespected'  BY <1>2 DEF TypeOK, StopBegin, Readable, Forget
  <2>4. ResultAtRest'  BY <1>2 DEF TypeOK, StopBegin, Readable, Forget
  <2>5. LatchedOrFault'  BY <1>2 DEF TypeOK, StopBegin, Readable, Forget
  <2>6. VerifiedIsLatched'  BY <1>2 DEF TypeOK, StopBegin, Readable, Forget
  <2> QED BY <2>1, <2>2, <2>3, <2>4, <2>5, <2>6
<1>3. CASE RestoreOnly(p)
  BY <1>3 DEF TypeOK, RestoreOnly
<1>4. CASE StopAcquire(p)
  BY <1>4 DEF TypeOK, StopAcquire, Enter
<1>5. CASE StopRefused(p)
  BY <1>5 DEF TypeOK, StopRefused, Forget
<1>6. CASE MarkCheck(p)
  <2>1. HoldsSession'  BY <1>6 DEF TypeOK, MarkCheck, Exit, Forget
  <2>2. MutualExclusion'  BY <1>6 DEF TypeOK, MarkCheck, Exit, Forget
  <2>3. StopIntentRespected'  BY <1>6 DEF TypeOK, MarkCheck, Exit, Forget
  <2>4. ResultAtRest'  BY <1>6 DEF TypeOK, MarkCheck, Exit, Forget
  <2>5. LatchedOrFault'  BY <1>6 DEF TypeOK, MarkCheck, Exit, Forget
  <2>6. VerifiedIsLatched'  BY <1>6 DEF TypeOK, MarkCheck, Exit, Forget
  <2> QED BY <2>1, <2>2, <2>3, <2>4, <2>5, <2>6
<1>7. CASE MarkRead(p)
  BY <1>7 DEF TypeOK, MarkRead, Readable
<1>8. CASE MarkWrite(p)
  BY <1>8 DEF TypeOK, MarkWrite
<1>9. CASE MarkFails(p)
  BY <1>9 DEF TypeOK, MarkFails, Exit, Forget
<1>10. CASE MarkDone(p)
  BY <1>10 DEF TypeOK, MarkDone, Exit
<1>11. CASE ForceMark(p)
  BY <1>11 DEF TypeOK, ForceMark, Exit
<1>12. CASE StopWatchdog(p)
  <2>1. HoldsSession'  BY <1>12 DEF TypeOK, StopWatchdog
  <2>2. MutualExclusion'  BY <1>12 DEF TypeOK, StopWatchdog
  <2>3. StopIntentRespected'  BY <1>12 DEF TypeOK, StopWatchdog
  <2>4. ResultAtRest'  BY <1>12 DEF TypeOK, StopWatchdog
  <2>5. LatchedOrFault'  BY <1>12 DEF TypeOK, StopWatchdog
  <2>6. VerifiedIsLatched'  BY <1>12 DEF TypeOK, StopWatchdog
  <2> QED BY <2>1, <2>2, <2>3, <2>4, <2>5, <2>6
<1>13. CASE StopWaited(p)
  BY <1>13 DEF TypeOK, StopWaited
<1>14. CASE UnwatchRead(p)
  BY <1>14, SMTT(20) DEF TypeOK, UnwatchRead, Readable
<1>15. CASE UnwatchWrite(p)
  BY <1>15 DEF TypeOK, UnwatchWrite
<1>16. CASE Lockdown(p)
  BY <1>16 DEF TypeOK, Lockdown, InsertDrop
<1>17. CASE Flush(p)
  BY <1>17 DEF TypeOK, Flush, FlushRules
<1>18. CASE Delete(p)
  <2>1. HoldsSession'  BY <1>18 DEF TypeOK, Delete, Forget
  <2>2. MutualExclusion'  BY <1>18 DEF TypeOK, Delete, Forget
  <2>3. StopIntentRespected'  BY <1>18 DEF TypeOK, Delete, Forget
  <2>4. ResultAtRest'  BY <1>18 DEF TypeOK, Delete, Forget
  <2>5. LatchedOrFault'  BY <1>18 DEF TypeOK, Delete, Forget
  <2>6. VerifiedIsLatched'  BY <1>18 DEF TypeOK, Delete, Forget
  <2> QED BY <2>1, <2>2, <2>3, <2>4, <2>5, <2>6
<1>19. CASE DeleteLock(p)
  BY <1>19 DEF TypeOK, DeleteLock, Forget
<1> QED BY <1>1, <1>2, <1>3, <1>4, <1>5, <1>6, <1>7, <1>8, <1>9, <1>10, <1>11,
           <1>12, <1>13, <1>14, <1>15, <1>16, <1>17, <1>18, <1>19 DEF StopStep

\* So does a killed process, whose flock the kernel drops.
LEMMA CrashSafe ==
    ASSUME SafetyInv, NEW p \in Procs, Crash(p)
    PROVE  SafetyInv'
<1> USE IdentityAssumption, BoundAssumption
    DEF SafetyInv, HoldsSession, MutualExclusion, StopIntentRespected, ResultAtRest,
        LatchedOrFault, VerifiedIsLatched, StopWasRequested, files, Forget, Crash,
        Points, Critical, RequestCritical, MarkCritical, Committed, SessionPoints
<1>1. TypeOK'  BY DEF TypeOK, LockFiles, Absent, Outcomes
<1> QED BY <1>1 DEF TypeOK

\* And a lock file that is lost or overwritten.
LEMMA DamageSafe ==
    ASSUME SafetyInv, DamageLock
    PROVE  SafetyInv'
BY DEF SafetyInv, TypeOK, HoldsSession, MutualExclusion, StopIntentRespected, ResultAtRest,
       LatchedOrFault, VerifiedIsLatched, StopWasRequested, local, DamageLock, LockFiles

\* SafetyInv holds initially.
LEMMA InitSafe == Init => SafetyInv
BY IdentityAssumption
   DEF Init, SafetyInv, TypeOK, HoldsSession, MutualExclusion, StopIntentRespected, ResultAtRest,
       LatchedOrFault, VerifiedIsLatched, StopWasRequested, Points, Critical, RequestCritical,
       MarkCritical, Committed, SessionPoints, LockFiles, Absent, Tables, Latches, Outcomes

\* No step, of any process or of none, breaks SafetyInv.
LEMMA NextSafe == SafetyInv /\ [Next]_vars => SafetyInv'
<1> SUFFICES ASSUME SafetyInv, [Next]_vars PROVE SafetyInv'  OBVIOUS
<1>1. CASE \E p \in Procs : RequestStep(p)  BY <1>1, RequestStepSafe
<1>2. CASE \E p \in Procs : ObserverStep(p)  BY <1>2, ObserverStepSafe
<1>3. CASE \E p \in Procs : StartStep(p)  BY <1>3, StartStepSafe
<1>4. CASE \E p \in Procs : StopStep(p)  BY <1>4, StopStepSafe
<1>5. CASE \E p \in Procs : Crash(p)  BY <1>5, CrashSafe
<1>6. CASE DamageLock  BY <1>6, DamageSafe
<1>7. CASE UNCHANGED vars
  BY <1>7 DEF SafetyInv, TypeOK, HoldsSession, MutualExclusion, StopIntentRespected,
              ResultAtRest, LatchedOrFault, VerifiedIsLatched, StopWasRequested, vars
<1> QED BY <1>1, <1>2, <1>3, <1>4, <1>5, <1>6, <1>7 DEF Next

--------------------------------------------------------------------------------
(* The theorems *)

\* SafetyInv is an invariant of every behaviour of start, stop, restart, checks,
\* supervisors and termination handlers.
THEOREM Safety == Spec => []SafetyInv
BY InitSafe, NextSafe, PTL DEF Spec

\* Every variable keeps its type.
THEOREM TypeCorrectness == Spec => []TypeOK
<1>1. SafetyInv => TypeOK  BY DEF SafetyInv
<1> QED BY <1>1, Safety, PTL

\* transition() serializes request_emergency, mark_stopping and restore-only: the
\* flock is held exactly by the process inside, on every exit path and after any
\* crash, however many processes compete.
THEOREM Serialization == Spec => []MutualExclusion
<1>1. SafetyInv => MutualExclusion  BY DEF SafetyInv
<1> QED BY <1>1, Safety, PTL

\* A request_emergency that passed its check of the stop marker is never
\* overtaken by the publication of a stop of its session.
THEOREM StopIntent == Spec => []StopIntentRespected
<1>1. SafetyInv => StopIntentRespected  BY DEF SafetyInv
<1> QED BY <1>1, Safety, PTL

\* No result claims verified containment without a latch on disk.
THEOREM DurableVerdict == Spec => []VerifiedIsLatched
<1>1. SafetyInv => VerifiedIsLatched  BY DEF SafetyInv
<1> QED BY <1>1, Safety, PTL

\* The killswitch appears only through the apply step of request_emergency.
LEMMA OnlyApplyArms ==
    ASSUME SafetyInv, [Next]_vars, table # "emergency", table' = "emergency"
    PROVE  \E p \in Procs : ApplyEmergency(p)
<1> USE DEF files, local, aux, Goto, ApplyRulesTo, FlushRules, InsertDrop, SessionTables,
        EmergencyTables, SafetyInv, TypeOK, Tables
<1>1. CASE UNCHANGED vars  BY <1>1 DEF vars
<1>2. CASE DamageLock  BY <1>2 DEF DamageLock
<1>3. ASSUME NEW p \in Procs, RequestStep(p) PROVE ApplyEmergency(p)
  BY <1>3 DEF RequestStep, Acquire, TransitionFails, ReadMarker, ReadIntent, WriteLatch,
              InspectFirst, Verify, Publish
<1>4. ASSUME NEW p \in Procs, ObserverStep(p) PROVE FALSE
  BY <1>4 DEF ObserverStep, Observe, Leave, Request, SupervisorEnds, Terminated
<1>5. ASSUME NEW p \in Procs, StartStep(p) PROVE FALSE
  BY <1>5 DEF StartStep, StartCheck, ApplyRules, StartFails, UndoRules, Forget, WriteLock,
              ClearMarker, UpdateRead, UpdateWrite
<1>6. ASSUME NEW p \in Procs, StopStep(p) PROVE FALSE
  BY <1>6 DEF StopStep, RestartCheck, StopBegin, RestoreOnly, StopAcquire, StopRefused,
              MarkCheck, MarkRead, MarkWrite, MarkFails, MarkDone, ForceMark, StopWatchdog,
              StopWaited, UnwatchRead, UnwatchWrite, Lockdown, Flush, Delete, DeleteLock
<1>7. ASSUME NEW p \in Procs, Crash(p) PROVE FALSE  BY <1>7 DEF Crash
<1> QED BY <1>1, <1>2, <1>3, <1>4, <1>5, <1>6, <1>7 DEF Next

\* "Latch first, apply if necessary": whoever installs the killswitch is a
\* request that latched its session, or knows that it could not, and whose
\* session has no published stop.
THEOREM LatchFirst == Spec => LatchBeforeArming
<1>1. SafetyInv /\ [Next]_vars => ArmingStep
  <2> SUFFICES ASSUME SafetyInv, [Next]_vars, table # "emergency", table' = "emergency"
               PROVE  \E p \in Procs : /\ pc[p] = "apply"
                                       /\ ~StopWasRequested(sid[p])
                                       /\ latch[sid[p]] # "absent" \/ fault[p]
    BY DEF ArmingStep
  <2>1. PICK p \in Procs : ApplyEmergency(p)  BY OnlyApplyArms
  <2>2. pc[p] = "apply"  BY <2>1 DEF ApplyEmergency, Goto
  <2> QED BY <2>2 DEF SafetyInv, StopIntentRespected, LatchedOrFault, Committed, RequestCritical
<1> QED BY <1>1, Safety, PTL DEF Spec, LatchBeforeArming

--------------------------------------------------------------------------------
(* Who can be where, and which identities are known *)

\* The steps of a process, killed or not.
Step(p) == RequestStep(p) \/ ObserverStep(p) \/ StartStep(p) \/ StopStep(p) \/ Crash(p)

\* No step of a process takes it to a point of a command it does not run.
LEMMA StepRoles ==
    ASSUME SafetyInv, RolesInv, NEW p \in Procs, Step(p)
    PROVE  RolesInv'
<1> USE IdentityAssumption DEF SafetyInv, TypeOK, RolesInv, Starting, Teardown, Stopping,
                               MarkCritical, RequestCritical, Critical, Committed, Points,
                               HoldsSession, SessionPoints, Readable, LockFiles, Recorded,
                               Absent, Corrupt, Goto, files, local, aux
<1>1. CASE RequestStep(p)
  BY <1>1 DEF RequestStep, Acquire, Enter, TransitionFails, Return, ReadMarker,
              StopWasRequested, ReadIntent, IntentHolds, WriteLatch, InspectFirst,
              Inspected, MatchesEmergencyContract, ApplyEmergency, ApplyKillswitchTo,
              Verify, Publish
<1>2. CASE ObserverStep(p)
  BY <1>2 DEF ObserverStep, Observe, Leave, Forget, Request, SupervisorEnds, Terminated,
              HandlerCalls
<1>3. CASE StartStep(p)
  BY <1>3 DEF StartStep, StartCheck, ApplyRules, ApplyRulesTo, FlushRules, SessionTables,
              EmergencyTables, StartFails, UndoRules, Forget, WriteLock, ClearMarker, UpdateRead,
              UpdateWrite
<1>4. CASE StopStep(p)
  <2>1. CASE RestartCheck(p) \/ StopBegin(p) \/ RestoreOnly(p) \/ StopAcquire(p)
             \/ StopRefused(p) \/ MarkCheck(p) \/ MarkRead(p) \/ MarkWrite(p)
             \/ MarkFails(p) \/ MarkDone(p) \/ ForceMark(p)
    BY <2>1 DEF RestartCheck, StopBegin, Forget, RestoreOnly, StopAcquire, Enter,
                StopRefused, MarkCheck, Exit, MarkRead, MarkWrite, MarkFails, MarkDone,
                ForceMark
  <2>2. CASE StopWatchdog(p) \/ StopWaited(p) \/ UnwatchRead(p) \/ UnwatchWrite(p)
             \/ Lockdown(p) \/ Flush(p) \/ Delete(p) \/ DeleteLock(p)
    BY <2>2, SMTT(20)
       DEF StopWatchdog, StopWaited, UnwatchRead, UnwatchWrite, Lockdown, InsertDrop,
           SessionTables, EmergencyTables, Flush, FlushRules, Delete, Forget, DeleteLock
  <2> QED BY <1>4, <2>1, <2>2 DEF StopStep
<1>5. CASE Crash(p)
  BY <1>5 DEF Crash, Forget
<1> QED BY <1>1, <1>2, <1>3, <1>4, <1>5 DEF Step

\* No step of a process shows an identity that was not drawn.
LEMMA StepKnown ==
    ASSUME SafetyInv, RolesInv, KnownInv, NEW p \in Procs, Step(p)
    PROVE  KnownInv'
<1> USE IdentityAssumption DEF SafetyInv, TypeOK, RolesInv, KnownInv, Starting, Teardown,
                               Stopping, MarkCritical, RequestCritical, Critical, Committed,
                               Points, HoldsSession, SessionPoints, Readable, LockFiles,
                               Recorded, Absent, Corrupt, Goto, files, local, aux
<1>1. CASE RequestStep(p)
  BY <1>1 DEF RequestStep, Acquire, Enter, TransitionFails, Return, ReadMarker,
              StopWasRequested, ReadIntent, IntentHolds, WriteLatch, InspectFirst,
              Inspected, MatchesEmergencyContract, ApplyEmergency, ApplyKillswitchTo,
              Verify, Publish
<1>2. CASE ObserverStep(p)
  BY <1>2, SMTT(20) DEF ObserverStep, Observe, Leave, Forget, Request, SupervisorEnds, Terminated,
              HandlerCalls
<1>3. CASE StartStep(p)
  <2>1. CASE StartCheck(p) \/ ApplyRules(p) \/ StartFails(p) \/ UndoRules(p)
    BY <2>1 DEF StartCheck, ApplyRules, ApplyRulesTo, FlushRules, SessionTables,
                EmergencyTables, StartFails, UndoRules, Forget
  <2>2. CASE WriteLock(p) \/ ClearMarker(p) \/ UpdateRead(p) \/ UpdateWrite(p)
    BY <2>2, SMTT(20) DEF WriteLock, ClearMarker, Forget, UpdateRead, UpdateWrite
  <2> QED BY <1>3, <2>1, <2>2 DEF StartStep
<1>4. CASE StopStep(p)
  <2>1. CASE RestartCheck(p) \/ StopBegin(p) \/ RestoreOnly(p) \/ StopAcquire(p)
             \/ StopRefused(p) \/ MarkCheck(p) \/ MarkRead(p) \/ MarkWrite(p)
             \/ MarkFails(p) \/ MarkDone(p) \/ ForceMark(p)
    BY <2>1 DEF RestartCheck, StopBegin, Forget, RestoreOnly, StopAcquire, Enter,
                StopRefused, MarkCheck, Exit, MarkRead, MarkWrite, MarkFails, MarkDone,
                ForceMark
  <2>2. CASE StopWatchdog(p) \/ StopWaited(p) \/ UnwatchRead(p) \/ UnwatchWrite(p)
             \/ Lockdown(p) \/ Flush(p) \/ Delete(p) \/ DeleteLock(p)
    BY <2>2, SMTT(20)
       DEF StopWatchdog, StopWaited, UnwatchRead, UnwatchWrite, Lockdown, InsertDrop,
           SessionTables, EmergencyTables, Flush, FlushRules, Delete, Forget, DeleteLock
  <2> QED BY <1>4, <2>1, <2>2 DEF StopStep
<1>5. CASE Crash(p)
  BY <1>5 DEF Crash, Forget
<1> QED BY <1>1, <1>2, <1>3, <1>4, <1>5 DEF Step

\* A lock file that is lost or overwritten moves no process and shows no identity.
LEMMA DamageKnown ==
    ASSUME SafetyInv, RolesInv, KnownInv, DamageLock
    PROVE  RolesInv' /\ KnownInv'
BY DEF DamageLock, RolesInv, KnownInv, local, Absent, Corrupt

--------------------------------------------------------------------------------
(* A lost lock is answered *)

\* Only a start that draws an identity, and the same start at its unlink, change which
\* sessions are being recorded.
LEMMA RecordingStays ==
    ASSUME TypeOK, NEW p \in Procs, Step(p), ~WriteLock(p), pc[p] # "unmark"
    PROVE  Recording' = Recording
<1>1. \A q \in Procs : pc'[q] = "unmark" <=> pc[q] = "unmark"
  <2> USE DEF TypeOK, Goto
  <2>1. CASE RequestStep(p)
    BY <2>1 DEF RequestStep, Acquire, Enter, TransitionFails, Return, ReadMarker, ReadIntent,
                WriteLatch, InspectFirst, ApplyEmergency, Verify, Publish
  <2>2. CASE ObserverStep(p)
    BY <2>2 DEF ObserverStep, Observe, Leave, Request, SupervisorEnds, Terminated
  <2>3. CASE StartStep(p)
    BY <2>3 DEF StartStep, StartCheck, ApplyRules, StartFails, UndoRules, ClearMarker,
                UpdateRead, UpdateWrite
  <2>4. CASE StopStep(p)
    BY <2>4 DEF StopStep, RestartCheck, StopBegin, RestoreOnly, StopAcquire, StopRefused,
                MarkCheck, MarkRead, MarkWrite, MarkFails, MarkDone, ForceMark, StopWatchdog,
                StopWaited, UnwatchRead, UnwatchWrite, Lockdown, Flush, Delete, DeleteLock,
                Enter, Exit
  <2>5. CASE Crash(p)  BY <2>5 DEF Crash
  <2> QED BY <2>1, <2>2, <2>3, <2>4, <2>5 DEF Step
<1>2. \A q \in Procs : pc[q] = "unmark" => sid'[q] = sid[q]
  <2> USE DEF TypeOK, Goto, local
  <2>1. CASE RequestStep(p)
    BY <2>1 DEF RequestStep, Acquire, TransitionFails, Return, ReadMarker, ReadIntent,
                WriteLatch, InspectFirst, ApplyEmergency, Verify, Publish
  <2>2. CASE ObserverStep(p)
    BY <2>2 DEF ObserverStep, Observe, Leave, Request, SupervisorEnds, Terminated, Forget
  <2>3. CASE StartStep(p)
    BY <2>3 DEF StartStep, StartCheck, ApplyRules, StartFails, UndoRules, ClearMarker,
                UpdateRead, UpdateWrite, Forget
  <2>4. CASE StopStep(p)
    BY <2>4 DEF StopStep, RestartCheck, StopBegin, RestoreOnly, StopAcquire, StopRefused,
                MarkCheck, MarkRead, MarkWrite, MarkFails, MarkDone, ForceMark, StopWatchdog,
                StopWaited, UnwatchRead, UnwatchWrite, Lockdown, Flush, Delete, DeleteLock, Forget
  <2>5. CASE Crash(p)  BY <2>5 DEF Crash, Forget
  <2> QED BY <2>1, <2>2, <2>3, <2>4, <2>5 DEF Step
<1> QED BY <1>1, <1>2 DEF Recording

\* With one starter, nothing is being recorded unless that starter is recording it.
LEMMA SoleRecording ==
    ASSUME RolesInv, \A a, b \in Starters : a = b, NEW p \in Starters, pc[p] # "unmark"
    PROVE  Recording = {}
BY DEF RolesInv, Recording

\* What ttp stop and restart bring along: they publish no marker but their own, move no
\* start, and show only identities that were in the files or in the unit.
LEMMA StopStepBrings ==
    ASSUME TypeOK, HoldsSession, NEW p \in Procs, StopStep(p), ~ForceMark(p), ~MarkDone(p)
    PROVE  /\ UNCHANGED <<marker, terminated, abandoned>>
           /\ pc[p] # "unmark"
           /\ supervisor' \in {supervisor, NoSession}
           /\ \A q \in Procs :
                 \/ sid'[q] \in {sid[q], NoSession, supervisor}
                 \/ q = p /\ p \in Stoppers /\ sid'[q] = lockFile.sid
           /\ lockFile'.sid \in {lockFile.sid, copy[p].sid, NoSession}
           /\ \A q \in Procs : copy'[q].sid \in {copy[q].sid, lockFile.sid, NoSession}
<1> USE DEF TypeOK, Goto, files, local, aux, StopStep, RestartCheck, StopBegin, RestoreOnly,
            StopAcquire, StopRefused, MarkCheck, MarkRead, MarkWrite, MarkFails, StopWatchdog,
            StopWaited, UnwatchRead, UnwatchWrite, Lockdown, Flush, Delete, DeleteLock
<1>1. UNCHANGED <<marker, terminated, abandoned>>  OBVIOUS
<1>2. pc[p] # "unmark"  BY DEF Enter, Exit
<1>3. supervisor' \in {supervisor, NoSession}  OBVIOUS
<1>4. \A q \in Procs :
        \/ sid'[q] \in {sid[q], NoSession, supervisor}
        \/ q = p /\ p \in Stoppers /\ sid'[q] = lockFile.sid
  BY DEF Forget
<1>5. lockFile'.sid \in {lockFile.sid, copy[p].sid, NoSession}
  BY DEF HoldsSession, Recorded, LockFiles, Absent, Corrupt
<1>6. \A q \in Procs : copy'[q].sid \in {copy[q].sid, lockFile.sid, NoSession}
  BY DEF Forget, Absent
<1> QED BY <1>1, <1>2, <1>3, <1>4, <1>5, <1>6

\* StepRestore for ttp stop, restore-only and restart: restore-only stops every session
\* that was drawn.
LEMMA StopStepRestore ==
    ASSUME SafetyInv, RolesInv, KnownInv, RestoreInv,
           \A a, b \in Starters : a = b, NEW p \in Procs, StopStep(p)
    PROVE  RestoreInv'
<1> USE IdentityAssumption
<1>1. CASE ForceMark(p)
  <2>1. terminated' = used /\ UNCHANGED <<supervisor, lockFile, sid, copy>>
    BY <1>1 DEF ForceMark, local
  <2> QED BY <2>1 DEF KnownInv, RestoreInv, Settled, Procs
<1>2. CASE MarkDone(p)
  <2>1. marker' \in Sessions
    BY <1>2 DEF MarkDone, Exit, Goto, SafetyInv, HoldsSession, SessionPoints
  <2> QED BY <2>1 DEF RestoreInv
<1> SUFFICES ASSUME ~ForceMark(p), ~MarkDone(p), marker' = AnySession
             PROVE  RestoreInv'
  BY <1>1, <1>2 DEF RestoreInv
<1>3. marker = AnySession /\ Settled' = Settled /\ pc[p] # "unmark"
  BY StopStepBrings DEF SafetyInv, Settled
<1>4. Recording' = Recording
  <2>1. ~WriteLock(p)
    BY DEF SafetyInv, TypeOK, WriteLock, StopStep, Goto, Enter, Exit, RestartCheck, StopBegin,
           RestoreOnly, StopAcquire, StopRefused, MarkCheck, MarkRead, MarkWrite, MarkFails,
           MarkDone, ForceMark, StopWatchdog, StopWaited, UnwatchRead, UnwatchWrite, Lockdown,
           Flush, Delete, DeleteLock
  <2> QED BY <1>3, <2>1, RecordingStays DEF SafetyInv, Step
<1>5. supervisor' \in Settled'
  BY <1>3, StopStepBrings DEF SafetyInv, RestoreInv, Settled
<1>6. ASSUME NEW q \in Handlers \cup Starters, pc'[q] # "unmark"
      PROVE  sid'[q] \in Settled'
  <2>1. q \in Procs  BY <1>6 DEF Procs
  <2>2. pc[q] # "unmark"
    BY <1>3, <1>6, <2>1
       DEF SafetyInv, TypeOK, StopStep, Goto, Enter, Exit, RestartCheck, StopBegin,
           RestoreOnly, StopAcquire, StopRefused, MarkCheck, MarkRead, MarkWrite, MarkFails,
           MarkDone, ForceMark, StopWatchdog, StopWaited, UnwatchRead, UnwatchWrite, Lockdown,
           Flush, Delete, DeleteLock
  <2>3. CASE sid'[q] \in {sid[q], NoSession, supervisor}
    BY <1>3, <1>6, <2>2, <2>3 DEF RestoreInv, Settled
  <2>4. CASE q = p /\ p \in Stoppers /\ sid'[q] = lockFile.sid
    <3>1. p \in Starters  BY <1>6, <2>4
    <3>2. Recording = {}  BY <1>3, <3>1, SoleRecording
    <3> QED BY <1>3, <2>4, <3>2 DEF RestoreInv
  <2> QED BY <2>1, <2>3, <2>4, StopStepBrings DEF SafetyInv
<1>7. /\ lockFile'.sid \in Settled' \cup Recording'
      /\ \A q \in Procs : copy'[q].sid \in Settled' \cup Recording'
  BY <1>3, <1>4, StopStepBrings DEF SafetyInv, RestoreInv, Settled
<1> QED BY <1>5, <1>6, <1>7 DEF RestoreInv

\* StepRestore for ttp start: what write_lock shows is being recorded, and what it stops
\* recording loses the marker or is abandoned.
LEMMA StartStepRestore ==
    ASSUME SafetyInv, RolesInv, KnownInv, RestoreInv,
           \A a, b \in Starters : a = b, NEW p \in Procs, StartStep(p)
    PROVE  RestoreInv'
<1> USE IdentityAssumption DEF SafetyInv, TypeOK, Goto, files, local, aux
<1>1. CASE WriteLock(p)
  <2>1. p \in Starters  BY <1>1 DEF WriteLock, RolesInv, Starting
  <2>2. Recording = {}  BY <1>1, <2>1, SoleRecording DEF WriteLock
  <2>3. /\ pc'[p] = "unmark" /\ lockFile'.sid = sid'[p]
        /\ \A q \in Procs \ {p} : pc'[q] = pc[q] /\ sid'[q] = sid[q]
        /\ UNCHANGED <<marker, supervisor, terminated, abandoned, copy>>
    BY <1>1 DEF WriteLock
  <2>4. lockFile'.sid \in Recording'  BY <2>3 DEF Recording
  <2> QED BY <2>2, <2>3, <2>4 DEF RestoreInv, Settled, Procs
<1>2. CASE ClearMarker(p)
  <2>1. CASE marker' = NoSession  BY <2>1 DEF RestoreInv
  <2>2. CASE marker' # NoSession
    <3>1. /\ pc[p] = "unmark" /\ pc' = [pc EXCEPT ![p] = "failed"]
          /\ UNCHANGED <<marker, supervisor, terminated, lockFile, sid, copy>>
          /\ abandoned' = abandoned \cup ({sid[p]} \ terminated)
      BY <1>2, <2>2 DEF ClearMarker
    <3>2. p \in Starters  BY <3>1 DEF RolesInv
    <3>3. Recording = {sid[p]}  BY <3>1, <3>2 DEF RolesInv, Recording
    <3>4. Settled \cup Recording \subseteq Settled'  BY <3>1, <3>3 DEF Settled
    <3>5. \A q \in Procs \ {p} : pc'[q] = pc[q]  BY <3>1
    <3> QED BY <3>1, <3>3, <3>4, <3>5 DEF RestoreInv, Procs
  <2> QED BY <2>1, <2>2
<1>3. CASE UpdateRead(p) \/ UpdateWrite(p)
  <2>1. p \in Starters /\ pc[p] # "unmark"
    BY <1>3 DEF UpdateRead, UpdateWrite, RolesInv
  <2>2. Recording = {} /\ Recording' = Recording
    BY <1>3, <2>1, SoleRecording, RecordingStays DEF Step, WriteLock, UpdateRead, UpdateWrite
  <2>3. CASE UpdateRead(p)
    BY <2>2, <2>3 DEF UpdateRead, RestoreInv, Settled, Procs
  <2>4. CASE UpdateWrite(p)
    <3>1. /\ UNCHANGED <<marker, sid, terminated, abandoned>>
          /\ supervisor' \in {supervisor, sid[p]} /\ pc' = [pc EXCEPT ![p] = "session"]
          /\ copy' = [copy EXCEPT ![p] = Absent]
      BY <2>4 DEF UpdateWrite
    <3>2. lockFile'.sid = copy[p].sid
      BY <2>4 DEF UpdateWrite, HoldsSession, Recorded
    <3> QED BY <2>1, <2>2, <3>1, <3>2 DEF RestoreInv, Settled, Procs, Absent
  <2> QED BY <1>3, <2>3, <2>4
<1>4. CASE StartCheck(p) \/ ApplyRules(p) \/ StartFails(p) \/ UndoRules(p)
  <2>1. Recording' = Recording
    BY <1>4, RecordingStays DEF Step, StartStep, WriteLock, StartCheck, ApplyRules, StartFails,
                                UndoRules
  <2>2. /\ UNCHANGED <<marker, supervisor, terminated, abandoned, lockFile>>
        /\ \A q \in Procs : pc[q] = "unmark" => pc'[q] = "unmark"
        /\ \A q \in Procs : sid'[q] \in {sid[q], NoSession}
        /\ \A q \in Procs : copy'[q].sid \in {copy[q].sid, NoSession}
    BY <1>4 DEF StartCheck, ApplyRules, StartFails, UndoRules, Forget, Absent
  <2> QED BY <2>1, <2>2 DEF RestoreInv, Settled, Procs
<1> QED BY <1>1, <1>2, <1>3, <1>4 DEF StartStep

\* While the marker of restore-only is there, no step brings a session that was neither
\* stopped nor abandoned.
LEMMA StepRestore ==
    ASSUME SafetyInv, RolesInv, KnownInv, RestoreInv, MaxCrashes = 0,
           \A a, b \in Starters : a = b, NEW p \in Procs, Step(p)
    PROVE  RestoreInv'
<1> USE IdentityAssumption DEF SafetyInv, TypeOK, Goto, files, local, aux
<1>1. CASE RequestStep(p)
  <2>1. /\ UNCHANGED <<marker, supervisor, terminated, abandoned, lockFile, sid, copy>>
        /\ pc[p] # "unmark" /\ \A q \in Procs \ {p} : pc'[q] = pc[q]
    BY <1>1 DEF RequestStep, Acquire, Enter, TransitionFails, Return, ReadMarker, ReadIntent,
                WriteLatch, InspectFirst, ApplyEmergency, Verify, Publish
  <2>2. ~WriteLock(p)
    BY <1>1, <2>1 DEF WriteLock, RequestStep, Acquire, Enter, TransitionFails, ReadMarker,
                ReadIntent, WriteLatch, InspectFirst, ApplyEmergency, Verify, Publish
  <2>3. Recording' = Recording  BY <1>1, <2>1, <2>2, RecordingStays DEF Step
  <2> QED BY <2>1, <2>3 DEF RestoreInv, Settled, Procs
<1>2. CASE ObserverStep(p)
  <2>1. Recording' = Recording
    BY <1>2, RecordingStays DEF Step, WriteLock, ObserverStep, Observe, Leave, Request,
                                SupervisorEnds, Terminated
  <2>2. CASE Observe(p)
    <3>1. CASE p \in Starters
      <4>1. Recording = {}  BY <2>2, <3>1, SoleRecording DEF Observe
      <4> QED BY <2>1, <2>2, <4>1 DEF Observe, RestoreInv, Settled, Procs
    <3>2. CASE p \notin Starters
      BY <2>1, <2>2, <3>2 DEF Observe, RestoreInv, Settled, Procs
    <3> QED BY <3>1, <3>2
  <2>3. CASE Leave(p)
    BY <2>1, <2>3 DEF Leave, Forget, RestoreInv, Settled, Procs, Absent
  <2>4. CASE Request(p)
    BY <2>1, <2>4 DEF Request, RestoreInv, Settled, Procs
  <2>5. CASE SupervisorEnds(p)
    BY <2>1, <2>5 DEF SupervisorEnds, RestoreInv, Settled, Procs
  <2>6. CASE Terminated(p)
    BY <2>1, <2>6 DEF Terminated, RestoreInv, Settled, Procs
  <2> QED BY <1>2, <2>2, <2>3, <2>4, <2>5, <2>6 DEF ObserverStep
<1>3. CASE StartStep(p)
  BY <1>3, StartStepRestore
<1>4. CASE StopStep(p)
  BY <1>4, StopStepRestore
<1>5. CASE Crash(p)
  BY <1>5 DEF Crash
<1> QED BY <1>1, <1>2, <1>3, <1>4, <1>5 DEF Step

\* LossInv holds initially.
LEMMA InitLoss == Init => LossInv
BY IdentityAssumption
   DEF Init, LossInv, RolesInv, KnownInv, RestoreInv, Starting, Teardown, Stopping,
       MarkCritical, RequestCritical, Settled, Recording, Procs, Absent

\* No step breaks LossInv, provided that the markers of restore-only settle.
LEMMA NextLoss ==
    ASSUME MarkersSettle, SafetyInv, LossInv, [Next]_vars
    PROVE  LossInv'
<1> USE DEF LossInv
<1>1. SafetyInv'  BY NextSafe
<1>2. CASE UNCHANGED vars  BY <1>2 DEF vars, RolesInv, KnownInv, RestoreInv, Settled, Recording
<1>3. CASE DamageLock
  <2>1. RestoreInv'  BY <1>3 DEF DamageLock, RestoreInv, Settled, Recording, local, Absent, Corrupt
  <2> QED BY <1>3, <2>1, DamageKnown
<1>4. ASSUME NEW p \in Procs, Step(p) PROVE LossInv'
  <2>1. RolesInv' /\ KnownInv'  BY <1>4, StepRoles, StepKnown
  <2>2. CASE Forcers = {}
    <3>1. marker' # AnySession
      BY <1>1, <2>1, <2>2, IdentityAssumption DEF KnownInv, SafetyInv, TypeOK
    <3> QED BY <2>1, <3>1 DEF RestoreInv
  <2>3. CASE MaxCrashes = 0 /\ \A a, b \in Starters : a = b
    BY <1>4, <2>1, <2>3, StepRestore
  <2> QED BY <2>2, <2>3 DEF MarkersSettle
<1> QED BY <1>2, <1>3, <1>4 DEF Next, Step

\* A handler comes back only from request_emergency, or by not calling it.
LEMMA HandlerReturns ==
    ASSUME SafetyInv, RolesInv, NEW p \in Procs, NEW h \in Handlers,
           pc[h] # "session", pc'[h] = "session", Step(p)
    PROVE  TransitionFails(h) \/ ReadMarker(h) \/ ReadIntent(h) \/ Publish(h) \/ Terminated(h)
<1> USE IdentityAssumption DEF SafetyInv, TypeOK, Goto, Procs
<1>1. CASE RequestStep(p)
  BY <1>1 DEF RequestStep, Acquire, TransitionFails, ReadMarker, ReadIntent, WriteLatch,
              InspectFirst, ApplyEmergency, Verify, Publish, Enter, Return
<1>2. CASE ObserverStep(p)
  BY <1>2 DEF ObserverStep, Observe, Leave, Request, SupervisorEnds, Terminated
<1>3. CASE StartStep(p)
  BY <1>3 DEF StartStep, StartCheck, ApplyRules, StartFails, UndoRules, Forget, WriteLock,
              ClearMarker, UpdateRead, UpdateWrite, RolesInv
<1>4. CASE StopStep(p)
  BY <1>4 DEF StopStep, RestartCheck, StopBegin, RestoreOnly, StopAcquire, StopRefused,
              MarkCheck, MarkRead, MarkWrite, MarkFails, MarkDone, ForceMark, StopWatchdog,
              StopWaited, UnwatchRead, UnwatchWrite, Lockdown, Flush, Delete, DeleteLock, Enter, Exit
<1>5. CASE Crash(p)  BY <1>5 DEF Crash
<1> QED BY <1>1, <1>2, <1>3, <1>4, <1>5 DEF Step

\* In the first case with a verdict unless its session was stopped, in the second only
\* when the lock excuses it.
LEMMA HandlerAnswers ==
    ASSUME SafetyInv, RolesInv, KnownInv, RestoreInv, [Next]_vars, NEW h \in Handlers,
           pc[h] # "session", pc'[h] = "session"
    PROVE  outcome'[h] \in {"verified", "unconfirmed"} \/ Excused(sid[h])
<1> USE IdentityAssumption DEF SafetyInv, TypeOK, Goto, Procs
<1>1. h \in Procs /\ Next
  BY DEF vars
<1>2. ~DamageLock
  BY DEF DamageLock
<1>3. TransitionFails(h) \/ ReadMarker(h) \/ ReadIntent(h) \/ Publish(h) \/ Terminated(h)
  BY <1>1, <1>2, HandlerReturns DEF Next, Step
<1>4. CASE TransitionFails(h) \/ Publish(h)
  BY <1>1, <1>4 DEF TransitionFails, Publish, Return
<1>5. CASE ReadMarker(h)
  BY <1>1, <1>5
     DEF ReadMarker, Excused, StopWasRequested, HoldsSession, SessionPoints, RequestCritical, KnownInv,
         RestoreInv, Settled
<1>6. CASE ReadIntent(h)
  BY <1>1, <1>6 DEF ReadIntent, IntentHolds, Excused, RolesInv, RequestCritical, Readable
<1>7. CASE Terminated(h)
  BY <1>1, <1>7 DEF Terminated, HandlerCalls, Excused
<1> QED BY <1>3, <1>4, <1>5, <1>6, <1>7

--------------------------------------------------------------------------------
(* One starter and one ordinary stopper *)

\* The session that do_stop works on stays recorded.
LEMMA StepStopper ==
    ASSUME SafetyInv, SoleCommands, RolesInv, KnownInv, StopperInv, StarterInv,
           NEW p \in Procs, Step(p)
    PROVE  StopperInv'
<1> USE IdentityAssumption DEF SafetyInv, TypeOK, SoleCommands, RolesInv, KnownInv,
                               StopperInv, StarterInv, Starting, Teardown, Stopping,
                               MarkCritical, RequestCritical, Critical, Committed, Points,
                               HoldsSession, SessionPoints, Readable, LockFiles, Recorded,
                               Absent, Corrupt, Goto, files, local, aux
<1>1. CASE RequestStep(p)
  BY <1>1 DEF RequestStep, Acquire, Enter, TransitionFails, Return, ReadMarker,
              StopWasRequested, ReadIntent, IntentHolds, WriteLatch, InspectFirst,
              Inspected, MatchesEmergencyContract, ApplyEmergency, ApplyKillswitchTo,
              Verify, Publish
<1>2. CASE ObserverStep(p)
  BY <1>2 DEF ObserverStep, Observe, Leave, Forget, Request, SupervisorEnds, Terminated,
              HandlerCalls
<1>3. CASE StartStep(p)
  BY <1>3 DEF StartStep, StartCheck, ApplyRules, ApplyRulesTo, FlushRules, SessionTables,
              EmergencyTables, StartFails, UndoRules, Forget, WriteLock, ClearMarker, UpdateRead,
              UpdateWrite
<1>4. CASE StopStep(p)
  <2>1. CASE RestartCheck(p) \/ StopBegin(p) \/ RestoreOnly(p) \/ StopAcquire(p)
             \/ StopRefused(p) \/ MarkCheck(p) \/ MarkRead(p) \/ MarkWrite(p)
             \/ MarkFails(p) \/ MarkDone(p) \/ ForceMark(p)
    BY <2>1 DEF RestartCheck, StopBegin, Forget, RestoreOnly, StopAcquire, Enter,
                StopRefused, MarkCheck, Exit, MarkRead, MarkWrite, MarkFails, MarkDone,
                ForceMark
  <2>2. CASE StopWatchdog(p) \/ StopWaited(p) \/ UnwatchRead(p) \/ UnwatchWrite(p)
             \/ Lockdown(p) \/ Flush(p) \/ Delete(p) \/ DeleteLock(p)
    BY <2>2, SMTT(20)
       DEF StopWatchdog, StopWaited, UnwatchRead, UnwatchWrite, Lockdown, InsertDrop,
           SessionTables, EmergencyTables, Flush, FlushRules, Delete, Forget, DeleteLock
  <2> QED BY <1>4, <2>1, <2>2 DEF StopStep
<1>5. CASE Crash(p)
  BY <1>5 DEF Crash, Forget
<1> QED BY <1>1, <1>2, <1>3, <1>4, <1>5 DEF Step

\* start runs without a recorded session, and its update writes back no other.
LEMMA StepStarter ==
    ASSUME SafetyInv, SoleCommands, RolesInv, KnownInv, StopperInv, StarterInv, SealInv,
           RequestInv, NEW p \in Procs, Step(p)
    PROVE  StarterInv'
<1> USE IdentityAssumption DEF SafetyInv, TypeOK, SoleCommands, RolesInv, KnownInv,
                               StopperInv, StarterInv, SealInv, Sealed, RequestInv,
                               Cleartext, Tables, Starting, Teardown, Stopping,
                               MarkCritical, RequestCritical, Critical, Committed, Points,
                               HoldsSession, SessionPoints, Readable, LockFiles, Recorded,
                               Absent, Corrupt, Goto, files, local, aux
<1>1. CASE RequestStep(p)
  BY <1>1 DEF RequestStep, Acquire, Enter, TransitionFails, Return, ReadMarker,
              StopWasRequested, ReadIntent, IntentHolds, WriteLatch, InspectFirst,
              Inspected, MatchesEmergencyContract, ApplyEmergency, ApplyKillswitchTo,
              Verify, Publish
<1>2. CASE ObserverStep(p)
  BY <1>2 DEF ObserverStep, Observe, Leave, Forget, Request, SupervisorEnds, Terminated,
              HandlerCalls
<1>3. CASE StartStep(p)
  BY <1>3 DEF StartStep, StartCheck, ApplyRules, ApplyRulesTo, FlushRules, SessionTables,
              EmergencyTables, StartFails, UndoRules, Forget, WriteLock, ClearMarker, UpdateRead,
              UpdateWrite
<1>4. CASE StopStep(p)
  <2>1. CASE RestartCheck(p) \/ StopBegin(p) \/ RestoreOnly(p) \/ StopAcquire(p)
             \/ StopRefused(p) \/ MarkCheck(p) \/ MarkRead(p) \/ MarkWrite(p)
             \/ MarkFails(p) \/ MarkDone(p) \/ ForceMark(p)
    BY <2>1 DEF RestartCheck, StopBegin, Forget, RestoreOnly, StopAcquire, Enter,
                StopRefused, MarkCheck, Exit, MarkRead, MarkWrite, MarkFails, MarkDone,
                ForceMark
  <2>2. CASE StopWatchdog(p) \/ StopWaited(p) \/ UnwatchRead(p) \/ UnwatchWrite(p)
             \/ Lockdown(p) \/ Flush(p) \/ Delete(p) \/ DeleteLock(p)
    BY <2>2, SMTT(20)
       DEF StopWatchdog, StopWaited, UnwatchRead, UnwatchWrite, Lockdown, InsertDrop,
           SessionTables, EmergencyTables, Flush, FlushRules, Delete, Forget, DeleteLock
  <2> QED BY <1>4, <2>1, <2>2 DEF StopStep
<1>5. CASE Crash(p)
  BY <1>5 DEF Crash, Forget
<1> QED BY <1>1, <1>2, <1>3, <1>4, <1>5 DEF Step

\* An identity is drawn without a recorded session, and its record is removed only when
\* it was stopped.
LEMMA StepDrawn ==
    ASSUME SafetyInv, SoleCommands, RolesInv, KnownInv, StopperInv, StarterInv,
           DrawnInv, NEW p \in Procs, Step(p)
    PROVE  DrawnInv'
<1> USE IdentityAssumption DEF SafetyInv, TypeOK, SoleCommands, RolesInv, KnownInv,
                               StopperInv, StarterInv, DrawnInv, Starting, Teardown, Stopping,
                               MarkCritical, RequestCritical, Critical, Committed, Points,
                               HoldsSession, SessionPoints, Readable, LockFiles, Recorded,
                               Absent, Corrupt, Goto, files, local, aux
<1>1. CASE RequestStep(p)
  BY <1>1 DEF RequestStep, Acquire, Enter, TransitionFails, Return, ReadMarker,
              StopWasRequested, ReadIntent, IntentHolds, WriteLatch, InspectFirst,
              Inspected, MatchesEmergencyContract, ApplyEmergency, ApplyKillswitchTo,
              Verify, Publish
<1>2. CASE ObserverStep(p)
  BY <1>2 DEF ObserverStep, Observe, Leave, Forget, Request, SupervisorEnds, Terminated,
              HandlerCalls
<1>3. CASE StartStep(p)
  BY <1>3 DEF StartStep, StartCheck, ApplyRules, ApplyRulesTo, FlushRules, SessionTables,
              EmergencyTables, StartFails, UndoRules, Forget, WriteLock, ClearMarker, UpdateRead,
              UpdateWrite
<1>4. CASE StopStep(p)
  <2>1. CASE RestartCheck(p) \/ StopBegin(p) \/ RestoreOnly(p) \/ StopAcquire(p)
             \/ StopRefused(p) \/ MarkCheck(p) \/ MarkRead(p) \/ MarkWrite(p)
             \/ MarkFails(p) \/ MarkDone(p) \/ ForceMark(p)
    BY <2>1 DEF RestartCheck, StopBegin, Forget, RestoreOnly, StopAcquire, Enter,
                StopRefused, MarkCheck, Exit, MarkRead, MarkWrite, MarkFails, MarkDone,
                ForceMark
  <2>2. CASE StopWatchdog(p) \/ StopWaited(p) \/ UnwatchRead(p) \/ UnwatchWrite(p)
             \/ Lockdown(p) \/ Flush(p) \/ Delete(p) \/ DeleteLock(p)
    BY <2>2, SMTT(20)
       DEF StopWatchdog, StopWaited, UnwatchRead, UnwatchWrite, Lockdown, InsertDrop,
           SessionTables, EmergencyTables, Flush, FlushRules, Delete, Forget, DeleteLock
  <2> QED BY <1>4, <2>1, <2>2 DEF StopStep
<1>5. CASE Crash(p)
  BY <1>5 DEF Crash, Forget
<1> QED BY <1>1, <1>2, <1>3, <1>4, <1>5 DEF Step

\* A stopped session stays seen to be stopped.
LEMMA StepSeal ==
    ASSUME SafetyInv, SoleCommands, RolesInv, KnownInv, StopperInv, StarterInv, SealInv,
           NEW p \in Procs, Step(p)
    PROVE  SealInv'
<1> USE IdentityAssumption DEF SafetyInv, TypeOK, SoleCommands, RolesInv, KnownInv,
                               StopperInv, StarterInv, SealInv, Sealed, MutualExclusion,
                               Starting, Teardown, Stopping, MarkCritical, RequestCritical,
                               Critical, Committed, Points, HoldsSession, SessionPoints,
                               Readable, LockFiles, Recorded, Absent, Corrupt, Goto, files,
                               local, aux
<1>1. CASE RequestStep(p)
  BY <1>1 DEF RequestStep, Acquire, Enter, TransitionFails, Return, ReadMarker,
              StopWasRequested, ReadIntent, IntentHolds, WriteLatch, InspectFirst,
              Inspected, MatchesEmergencyContract, ApplyEmergency, ApplyKillswitchTo,
              Verify, Publish
<1>2. CASE ObserverStep(p)
  BY <1>2 DEF ObserverStep, Observe, Leave, Forget, Request, SupervisorEnds, Terminated,
              HandlerCalls
<1>3. CASE StartStep(p)
  <2>1. CASE StartCheck(p) \/ ApplyRules(p) \/ StartFails(p) \/ UndoRules(p)
    BY <2>1 DEF StartCheck, ApplyRules, StartFails, UndoRules, Forget
  <2>2. CASE WriteLock(p) \/ ClearMarker(p)
    BY <2>2 DEF WriteLock, ClearMarker, Forget
  <2>3. CASE UpdateRead(p) \/ UpdateWrite(p)
    BY <2>3 DEF UpdateRead, UpdateWrite
  <2> QED BY <1>3, <2>1, <2>2, <2>3 DEF StartStep
<1>4. CASE StopStep(p)
  <2>1. CASE RestartCheck(p) \/ StopBegin(p) \/ RestoreOnly(p) \/ StopAcquire(p)
             \/ StopRefused(p)
    BY <2>1 DEF RestartCheck, StopBegin, Forget, RestoreOnly, StopAcquire, Enter, StopRefused
  <2>2. CASE MarkCheck(p)
    BY <2>2 DEF MarkCheck, Exit, Forget
  <2>3. CASE MarkRead(p) \/ MarkWrite(p)
    BY <2>3, SMTT(20) DEF MarkRead, MarkWrite
  <2>4. CASE MarkFails(p)
    BY <2>4 DEF MarkFails, Exit, Forget
  <2>5. CASE MarkDone(p)
    BY <2>5 DEF MarkDone, Exit
  <2>6. CASE ForceMark(p)
    BY <2>6 DEF ForceMark, Exit
  <2>7. CASE StopWatchdog(p) \/ StopWaited(p) \/ UnwatchRead(p) \/ UnwatchWrite(p)
    BY <2>7 DEF StopWatchdog, StopWaited, UnwatchRead, UnwatchWrite
  <2>8. CASE Lockdown(p) \/ Flush(p) \/ Delete(p) \/ DeleteLock(p)
    BY <2>8 DEF Lockdown, InsertDrop, SessionTables, EmergencyTables, Flush, FlushRules,
                Delete, Forget, DeleteLock
  <2> QED BY <1>4, <2>1, <2>2, <2>3, <2>4, <2>5, <2>6, <2>7, <2>8 DEF StopStep
<1>5. CASE Crash(p)
  BY <1>5 DEF Crash, Forget
<1> QED BY <1>1, <1>2, <1>3, <1>4, <1>5 DEF Step

\* No stop is published, and no lock replaced, under a request past its checks.
LEMMA StepRequest ==
    ASSUME SafetyInv, SoleCommands, RolesInv, KnownInv, StopperInv, StarterInv, SealInv,
           RequestInv, NEW p \in Procs, Step(p)
    PROVE  RequestInv'
<1> USE IdentityAssumption DEF SafetyInv, TypeOK, SoleCommands, RolesInv, KnownInv,
                               StopperInv, StarterInv, SealInv, Sealed, RequestInv,
                               MutualExclusion, StopIntentRespected, StopWasRequested,
                               Starting, Teardown, Stopping, MarkCritical, RequestCritical,
                               Critical, Committed, Points, HoldsSession, SessionPoints,
                               Readable, LockFiles, Recorded, Absent, Corrupt, Goto, files,
                               local, aux
<1>1. CASE RequestStep(p)
  BY <1>1 DEF RequestStep, Acquire, Enter, TransitionFails, Return, ReadMarker,
              StopWasRequested, ReadIntent, IntentHolds, WriteLatch, InspectFirst,
              Inspected, MatchesEmergencyContract, ApplyEmergency, ApplyKillswitchTo,
              Verify, Publish
<1>2. CASE ObserverStep(p)
  BY <1>2 DEF ObserverStep, Observe, Leave, Forget, Request, SupervisorEnds, Terminated,
              HandlerCalls
<1>3. CASE StartStep(p)
  BY <1>3 DEF StartStep, StartCheck, ApplyRules, ApplyRulesTo, FlushRules, SessionTables,
              EmergencyTables, StartFails, UndoRules, Forget, WriteLock, ClearMarker, UpdateRead,
              UpdateWrite
<1>4. CASE StopStep(p)
  <2>1. CASE RestartCheck(p) \/ StopBegin(p) \/ RestoreOnly(p) \/ StopAcquire(p)
             \/ StopRefused(p) \/ MarkCheck(p) \/ MarkRead(p) \/ MarkWrite(p)
             \/ MarkFails(p) \/ MarkDone(p) \/ ForceMark(p)
    BY <2>1 DEF RestartCheck, StopBegin, Forget, RestoreOnly, StopAcquire, Enter,
                StopRefused, MarkCheck, Exit, MarkRead, MarkWrite, MarkFails, MarkDone,
                ForceMark
  <2>2. CASE StopWatchdog(p) \/ StopWaited(p) \/ UnwatchRead(p) \/ UnwatchWrite(p)
             \/ Lockdown(p) \/ Flush(p) \/ Delete(p) \/ DeleteLock(p)
    BY <2>2, SMTT(20)
       DEF StopWatchdog, StopWaited, UnwatchRead, UnwatchWrite, Lockdown, InsertDrop,
           SessionTables, EmergencyTables, Flush, FlushRules, Delete, Forget, DeleteLock
  <2> QED BY <1>4, <2>1, <2>2 DEF StopStep
<1>5. CASE Crash(p)
  BY <1>5 DEF Crash, Forget
<1> QED BY <1>1, <1>2, <1>3, <1>4, <1>5 DEF Step

\* The table of a session that was not stopped keeps closing its traffic.
LEMMA StepTable ==
    ASSUME SafetyInv, SafetyInv', SoleCommands, RolesInv, KnownInv, StopperInv, StarterInv,
           SealInv, RequestInv, TableInv, NEW p \in Procs, Step(p)
    PROVE  TableInv'
<1> USE IdentityAssumption DEF SafetyInv, TypeOK, SoleCommands, RolesInv, KnownInv,
                               StopperInv, StarterInv, SealInv, Sealed, RequestInv,
                               TableInv, MutualExclusion, Cleartext, Tables, SessionTables,
                               EmergencyTables, Starting, Teardown, Stopping, MarkCritical,
                               RequestCritical, Critical, Committed, Points, HoldsSession,
                               SessionPoints, Readable, LockFiles, Recorded, Absent,
                               Corrupt, Goto, files, local, aux
<1>1. CASE RequestStep(p)
  BY <1>1 DEF RequestStep, Acquire, Enter, TransitionFails, Return, ReadMarker,
              StopWasRequested, ReadIntent, IntentHolds, WriteLatch, InspectFirst,
              Inspected, MatchesEmergencyContract, ApplyEmergency, ApplyKillswitchTo,
              Verify, Publish
<1>2. CASE ObserverStep(p)
  BY <1>2 DEF ObserverStep, Observe, Leave, Forget, Request, SupervisorEnds, Terminated,
              HandlerCalls
<1>3. CASE StartStep(p)
  BY <1>3 DEF StartStep, StartCheck, ApplyRules, ApplyRulesTo, FlushRules, SessionTables,
              EmergencyTables, StartFails, UndoRules, Forget, WriteLock, ClearMarker, UpdateRead,
              UpdateWrite
<1>4. CASE StopStep(p)
  <2>1. CASE RestartCheck(p) \/ StopBegin(p) \/ RestoreOnly(p) \/ StopAcquire(p)
             \/ StopRefused(p) \/ MarkCheck(p) \/ MarkRead(p) \/ MarkWrite(p)
             \/ MarkFails(p) \/ MarkDone(p) \/ ForceMark(p)
    BY <2>1 DEF RestartCheck, StopBegin, Forget, RestoreOnly, StopAcquire, Enter,
                StopRefused, MarkCheck, Exit, MarkRead, MarkWrite, MarkFails, MarkDone,
                ForceMark
  <2>2. CASE StopWatchdog(p) \/ StopWaited(p) \/ UnwatchRead(p) \/ UnwatchWrite(p)
             \/ Lockdown(p) \/ Flush(p) \/ Delete(p) \/ DeleteLock(p)
    BY <2>2, SMTT(20)
       DEF StopWatchdog, StopWaited, UnwatchRead, UnwatchWrite, Lockdown, InsertDrop,
           SessionTables, EmergencyTables, Flush, FlushRules, Delete, Forget, DeleteLock
  <2> QED BY <1>4, <2>1, <2>2 DEF StopStep
<1>5. CASE Crash(p)
  BY <1>5 DEF Crash, Forget
<1> QED BY <1>1, <1>2, <1>3, <1>4, <1>5 DEF Step

\* SoleInv holds initially.
LEMMA InitSole == Init => SoleInv
BY IdentityAssumption
   DEF Init, SoleInv, RolesInv, KnownInv, StopperInv, StarterInv, DrawnInv, SealInv, Sealed,
       RequestInv, TableInv, Starting, Teardown, Stopping, MarkCritical, RequestCritical, Committed,
       Procs, Absent, Readable

\* No step breaks SoleInv.
LEMMA NextSole ==
    ASSUME SoleCommands, SafetyInv, SoleInv, [Next]_vars
    PROVE  SoleInv'
<1> USE DEF SoleInv
<1>1. SafetyInv'  BY NextSafe
<1>2. CASE UNCHANGED vars
  BY <1>2 DEF vars, RolesInv, KnownInv, StopperInv, StarterInv, DrawnInv, SealInv, Sealed,
              RequestInv, TableInv
<1>3. CASE DamageLock
  BY <1>3 DEF DamageLock, SoleCommands, SafetyInv, TypeOK
<1>4. ASSUME NEW p \in Procs, Step(p) PROVE SoleInv'
  <2>1. RolesInv' /\ KnownInv'  BY <1>4, StepRoles, StepKnown
  <2>2. StopperInv' /\ StarterInv' /\ DrawnInv'  BY <1>4, StepStopper, StepStarter, StepDrawn
  <2>3. SealInv' /\ RequestInv'  BY <1>4, StepSeal, StepRequest
  <2>4. TableInv'  BY <1>1, <1>4, StepTable
  <2> QED BY <2>1, <2>2, <2>3, <2>4
<1> QED BY <1>2, <1>3, <1>4 DEF Next, Step

--------------------------------------------------------------------------------
(* The promise *)

\* Every step of a process is a step of the promise, or leaves what it speaks of alone.
LEMMA StepKeepsPromise ==
    ASSUME SafetyInv, SafetyInv', SoleCommands, RolesInv, KnownInv,
           StopperInv, StarterInv, DrawnInv, SealInv, RequestInv, NEW p \in Procs, Step(p)
    PROVE  [Promise!Next]_Promise!vars
<1> USE IdentityAssumption DEF SafetyInv, TypeOK, SoleCommands, RolesInv, KnownInv,
                               StopperInv, StarterInv, DrawnInv, SealInv, Sealed, RequestInv,
                               Promise!Next, Promise!vars, Promise!Rework, Promise!Record,
                               Promise!Relic, Promise!Raise, Promise!Contain,
                               Promise!Terminate, Promise!Remove, Promise!Straggle, Promise!Settle,
                               Promise!Abandon, Promise!Recorded, Promise!Owed,
                               Promise!Nets, Net, Cleartext, Tables, Latches, Starting,
                               Teardown, Stopping, MarkCritical, RequestCritical, Critical,
                               Committed, Points, HoldsSession, SessionPoints, Readable,
                               LockFiles, Recorded, Absent, Corrupt, Goto, files, local, aux
<1>1. CASE RequestStep(p)
  <2>1. UNCHANGED Recording
    BY <1>1, RecordingStays DEF Step, WriteLock, RequestStep, Acquire, Enter, TransitionFails,
                                ReadMarker, ReadIntent, WriteLatch, InspectFirst, ApplyEmergency,
                                Verify, Publish
  <2> QED BY <1>1, <2>1, SMTT(30) DEF RequestStep, Acquire, Enter, TransitionFails, Return, ReadMarker,
                            StopWasRequested, ReadIntent, IntentHolds, WriteLatch, InspectFirst,
                            Inspected, MatchesEmergencyContract, ApplyEmergency, ApplyKillswitchTo,
                            Verify, Publish
<1>2. CASE ObserverStep(p)
  <2>1. UNCHANGED Recording
    BY <1>2, RecordingStays DEF Step, WriteLock, ObserverStep, Observe, Leave, Request,
                                SupervisorEnds, Terminated
  <2> QED BY <1>2, <2>1 DEF ObserverStep, Observe, Leave, Forget, Request, SupervisorEnds, Terminated,
                            HandlerCalls
<1>3. CASE StartStep(p)
  <2>1. CASE StartCheck(p) \/ ApplyRules(p) \/ StartFails(p) \/ UndoRules(p)
    <3>1. UNCHANGED Recording
      BY <1>3, <2>1, RecordingStays DEF Step, WriteLock, StartCheck, ApplyRules, StartFails, UndoRules
    <3> QED BY <2>1, <3>1 DEF StartCheck, ApplyRules, ApplyRulesTo, FlushRules, SessionTables,
                              EmergencyTables, StartFails, UndoRules, Forget
  <2>2. CASE WriteLock(p)
    <3>1. PICK s \in Sessions \ used :
            /\ sid' = [sid EXCEPT ![p] = s]
            /\ \E w \in BOOLEAN : lockFile' = [sid |-> s, phase |-> "running", wd |-> w]
      BY <2>2, Zenon DEF WriteLock
    <3>0. lockFile'.sid = s
      BY <3>1
    <3>2. pc' = [pc EXCEPT ![p] = "unmark"] /\ pc[p] = "record"
      BY <2>2 DEF WriteLock
    <3>3. Recording' = Recording \cup {s}
      BY <3>1, <3>2 DEF Recording
    <3>4. Promise!Record(s)
      BY <2>2, <3>0, <3>3 DEF WriteLock
    <3> QED BY <3>1, <3>4
  <2>3. CASE ClearMarker(p)
    <3>1. /\ pc[p] = "unmark" /\ p \in Starters /\ sid[p] \in Sessions
          /\ UNCHANGED <<lockFile, latch, table, terminated>>
          /\ \A q \in Procs : pc'[q] # "unmark"
      BY <2>3 DEF ClearMarker
    <3>2. Recording = {sid[p]} /\ Recording' = {}
      BY <3>1 DEF Recording
    <3>3. UNCHANGED Net /\ UNCHANGED {s \in Sessions : latch[s] # "absent"}
      BY <3>1
    <3>4. CASE UNCHANGED abandoned
      <4>1. Promise!Settle(sid[p])  BY <3>1, <3>2, <3>3, <3>4
      <4> QED BY <3>1, <4>1
    <3>5. CASE abandoned' = abandoned \cup ({sid[p]} \ terminated)
      <4>1. Promise!Abandon(sid[p])  BY <3>1, <3>2, <3>3, <3>5
      <4> QED BY <3>1, <4>1
    <3> QED BY <2>3, <3>4, <3>5 DEF ClearMarker
  <2>4. CASE UpdateRead(p) \/ UpdateWrite(p)
    <3>1. UNCHANGED Recording
      BY <1>3, <2>4, RecordingStays DEF Step, WriteLock, UpdateRead, UpdateWrite
    <3> QED BY <2>4, <3>1 DEF UpdateRead, UpdateWrite
  <2> QED BY <1>3, <2>1, <2>2, <2>3, <2>4 DEF StartStep
<1>4. CASE StopStep(p)
  <2>0. UNCHANGED Recording
    BY <1>4, RecordingStays DEF Step, WriteLock, StopStep, Enter, Exit, RestartCheck, StopBegin,
           RestoreOnly, StopAcquire, StopRefused, MarkCheck, MarkRead, MarkWrite, MarkFails,
           MarkDone, ForceMark, StopWatchdog, StopWaited, UnwatchRead, UnwatchWrite, Lockdown,
           Flush, Delete, DeleteLock
  <2>1. CASE RestartCheck(p) \/ StopBegin(p) \/ RestoreOnly(p) \/ StopAcquire(p)
             \/ StopRefused(p)
    BY <2>0, <2>1 DEF RestartCheck, StopBegin, Forget, RestoreOnly, StopAcquire, Enter,
                StopRefused
  <2>2. CASE MarkCheck(p) \/ MarkRead(p) \/ MarkWrite(p)
    BY <2>0, <2>2 DEF MarkCheck, Exit, Forget, MarkRead, MarkWrite
  <2>3. CASE MarkFails(p)
    BY <2>0, <2>3 DEF MarkFails, Exit, Forget
  <2>4. CASE MarkDone(p)
    BY <2>0, <2>4 DEF MarkDone, Exit
  <2>5. CASE ForceMark(p)
    BY <2>0, <2>5 DEF ForceMark, Exit
  <2>6. CASE StopWatchdog(p) \/ StopWaited(p) \/ UnwatchRead(p) \/ UnwatchWrite(p)
    BY <2>0, <2>6 DEF StopWatchdog, StopWaited, UnwatchRead, UnwatchWrite
  <2>7. CASE Lockdown(p) \/ Flush(p) \/ Delete(p) \/ DeleteLock(p)
    BY <2>0, <2>7 DEF Lockdown, InsertDrop, SessionTables, EmergencyTables, Flush, FlushRules,
                Delete, Forget, DeleteLock
  <2> QED BY <1>4, <2>1, <2>2, <2>3, <2>4, <2>5, <2>6, <2>7 DEF StopStep
<1>5. CASE Crash(p)
  <2>1. /\ UNCHANGED <<lockFile, latch, table, terminated, abandoned, Net>>
        /\ UNCHANGED {s \in Sessions : latch[s] # "absent"}
    BY <1>5 DEF Crash
  <2>2. CASE pc[p] = "unmark"
    <3>1. p \in Starters /\ sid[p] \in Sessions /\ \A q \in Procs : pc'[q] # "unmark"
      BY <1>5, <2>2 DEF Crash
    <3>2. Recording = {sid[p]} /\ Recording' = {}
      BY <2>2, <3>1 DEF Recording
    <3>3. Promise!Settle(sid[p])  BY <2>1, <3>1, <3>2
    <3> QED BY <3>1, <3>3
  <2>3. CASE pc[p] # "unmark"
    <3>0. pc'[p] = "idle"  BY <1>5 DEF Crash
    <3>1. UNCHANGED Recording
      BY <1>5, <2>3, <3>0, RecordingStays DEF Step, WriteLock
    <3> QED BY <2>1, <3>1
  <2> QED BY <2>2, <2>3
<1> QED BY <1>1, <1>2, <1>3, <1>4, <1>5 DEF Step

\* The initial files and table are those of a host without a session.
LEMMA InitPromise == Init => Promise!Init
BY DEF Init, Promise!Init, Net, Recording, Cleartext, Absent

\* Every step maps to a step of the promise or to a stutter.
LEMMA NextPromise ==
    ASSUME SoleCommands, SafetyInv, SoleInv, [Next]_vars
    PROVE  [Promise!Next]_Promise!vars
<1>1. SafetyInv'  BY NextSafe
<1>2. CASE UNCHANGED vars  BY <1>2 DEF vars, Promise!vars, Net, Recording
<1>3. CASE DamageLock  BY <1>3 DEF DamageLock, SoleCommands, SafetyInv, TypeOK
<1>4. ASSUME NEW p \in Procs, Step(p) PROVE [Promise!Next]_Promise!vars
  BY <1>1, <1>4, StepKeepsPromise DEF SoleInv
<1> QED BY <1>2, <1>3, <1>4 DEF Next, Step

--------------------------------------------------------------------------------
(* The theorems about losses, one starter and one stopper, and the promise *)

\* supervision_terminated never comes back without an answer: with the lock lost or
\* corrupted, the flock contended or the latch not storable, the session is contained or
\* is reported as not, unless it was stopped, was replaced or wants no supervision.
THEOREM AllLossesAnswered == ASSUME MarkersSettle PROVE Spec => LossIsAnswered
<1>1. SafetyInv /\ LossInv /\ [Next]_vars => LossInv'  BY NextLoss
<1>2. SafetyInv /\ LossInv /\ [Next]_vars => AnswerStep
  BY HandlerAnswers DEF LossInv, AnswerStep
<1> QED BY <1>1, <1>2, InitLoss, Safety, PTL DEF Spec, LossIsAnswered

\* What one starter and one ordinary stopper leave in the lock file, the marker and the
\* table agrees, whatever checks, handlers and kills come in between.
THEOREM SoleSafety == ASSUME SoleCommands PROVE Spec => []SoleInv
<1>1. SafetyInv /\ SoleInv /\ [Next]_vars => SoleInv'  BY NextSole
<1> QED BY <1>1, InitSole, Safety, PTL DEF Spec

\* While ttp.lock records a running session that no marker stops, the table never lets
\* its traffic out in cleartext.
THEOREM FailsClosed == ASSUME SoleCommands PROVE Spec => []FailClosed
<1>1. SafetyInv /\ SoleInv => FailClosed
  BY DEF SoleInv, SealInv, Sealed, TableInv, FailClosed, StopWasRequested, Readable
<1> QED BY <1>1, SoleSafety, Safety, PTL

\* The verified result that request_emergency is about to publish for the recorded
\* session is what the kernel holds then.
THEOREM CurrentVerdicts == ASSUME SoleCommands PROVE Spec => []VerdictIsCurrent
<1>1. SafetyInv /\ SoleInv => VerdictIsCurrent
  BY DEF SoleInv, SealInv, Sealed, TableInv, VerdictIsCurrent, SafetyInv, StopIntentRespected,
         StopWasRequested, Readable, Committed, RequestCritical
<1> QED BY <1>1, SoleSafety, Safety, PTL

\* A check, a start or a supervisor that read its session long ago never installs the
\* killswitch after mark_stopping published the stop of that session.
THEOREM StaleIsHarmless == ASSUME SoleCommands PROVE Spec => StaleNeverRearms
<1>1. SafetyInv /\ SoleInv => StaleStep
  BY IdentityAssumption DEF SoleInv, RequestInv, StaleStep, Committed, RequestCritical, Procs
<1> QED BY <1>1, SoleSafety, Safety, PTL DEF StaleNeverRearms

\* request_emergency, mark_stopping, write_lock, start, do_stop and the termination
\* handlers implement the promise of Containment: with stragglers if there are handlers,
\* and without if there are none.
THEOREM PromiseKept == ASSUME SoleCommands PROVE Spec => KeepsPromise
<1>1. SafetyInv /\ SoleInv /\ [Next]_vars => [Promise!Next]_Promise!vars  BY NextPromise
<1> QED BY <1>1, InitPromise, SoleSafety, Safety, PTL DEF Spec, KeepsPromise, Promise!Spec

--------------------------------------------------------------------------------
(* What the promise is worth *)

\* The promise is about the sessions that may be drawn: the record, the terminations and
\* the alarms name no other.
LEMMA PromiseTypes == Promise!Spec => []Promise!TypeOK
<1> USE DEF Promise!TypeOK, Promise!Nets
<1>1. Promise!Init => Promise!TypeOK
  BY DEF Promise!Init
<1>2. Promise!TypeOK /\ [Promise!Next]_Promise!vars => Promise!TypeOK'
  <2> SUFFICES ASSUME Promise!TypeOK, [Promise!Next]_Promise!vars PROVE Promise!TypeOK'
    OBVIOUS
  <2>1. CASE Promise!Rework     BY <2>1 DEF Promise!Rework
  <2>2. CASE Promise!Raise      BY <2>2 DEF Promise!Raise, Promise!Recorded
  <2>3. CASE Promise!Contain    BY <2>3 DEF Promise!Contain
  <2>4. CASE Promise!Terminate  BY <2>4 DEF Promise!Terminate, Promise!Recorded
  <2>5. CASE Promise!Remove     BY <2>5 DEF Promise!Remove
  <2>6. ASSUME NEW s \in Sessions, \/ Promise!Record(s) \/ Promise!Settle(s) \/ Promise!Abandon(s)
                              \/ Promise!Relic(s) \/ Promise!Straggle(s)
        PROVE  Promise!TypeOK'
    BY <2>6 DEF Promise!Record, Promise!Settle, Promise!Abandon, Promise!Relic, Promise!Straggle
  <2>7. CASE UNCHANGED Promise!vars
    BY <2>7 DEF Promise!vars
  <2> QED BY <2>1, <2>2, <2>3, <2>4, <2>5, <2>6, <2>7 DEF Promise!Next
<1> QED BY <1>1, <1>2, PTL DEF Promise!Spec

\* Whoever keeps the promise protects every session: protection is there when the session
\* is recorded and outlasts every step until its termination. This is why start records
\* the session after its rules and stop publishes the termination before it takes them
\* down. Nothing of SessionSafety is used but the promise.
THEOREM Shelter == Promise!Spec => []Promise!Sheltered
<1> USE DEF Promise!Sheltered, Promise!Owed, Promise!Recorded
<1>1. Promise!Init => Promise!Sheltered
  BY DEF Promise!Init
<1>2. Promise!Sheltered /\ [Promise!Next]_Promise!vars => Promise!Sheltered'
  <2> SUFFICES ASSUME Promise!Sheltered, [Promise!Next]_Promise!vars PROVE Promise!Sheltered'
    OBVIOUS
  <2>1. CASE Promise!Rework     BY <2>1 DEF Promise!Rework
  <2>2. CASE Promise!Raise      BY <2>2 DEF Promise!Raise
  <2>3. CASE Promise!Contain    BY <2>3 DEF Promise!Contain
  <2>4. CASE Promise!Terminate  BY <2>4 DEF Promise!Terminate
  <2>5. CASE Promise!Remove     BY <2>5 DEF Promise!Remove
  <2>6. ASSUME NEW s \in Sessions, \/ Promise!Record(s) \/ Promise!Settle(s) \/ Promise!Abandon(s)
                              \/ Promise!Relic(s) \/ Promise!Straggle(s)
        PROVE  Promise!Sheltered'
    BY <2>6 DEF Promise!Record, Promise!Settle, Promise!Abandon, Promise!Relic, Promise!Straggle
  <2>7. CASE UNCHANGED Promise!vars
    BY <2>7 DEF Promise!vars
  <2> QED BY <2>1, <2>2, <2>3, <2>4, <2>5, <2>6, <2>7 DEF Promise!Next
<1> QED BY <1>1, <1>2, PTL DEF Promise!Spec

\* Nor does any step of the promise, a straggler's included, lift a killswitch in force
\* before the termination of the recorded session.
THEOREM HoldsUntilTermination == Promise!Spec => Promise!Held
<1>1. [Promise!Next]_Promise!vars => [Promise!HeldStep]_Promise!vars
  <2> SUFFICES ASSUME Promise!Next PROVE Promise!HeldStep
    OBVIOUS
  <2> USE DEF Promise!HeldStep, Promise!Owed, Promise!Recorded
  <2>1. CASE Promise!Rework     BY <2>1 DEF Promise!Rework
  <2>2. CASE Promise!Raise \/ Promise!Terminate \/ Promise!Remove
    BY <2>2 DEF Promise!Raise, Promise!Terminate, Promise!Remove
  <2>3. CASE Promise!Contain    BY <2>3 DEF Promise!Contain
  <2>4. ASSUME NEW s \in Sessions, \/ Promise!Record(s) \/ Promise!Settle(s) \/ Promise!Abandon(s)
                              \/ Promise!Relic(s) \/ Promise!Straggle(s)
        PROVE  Promise!HeldStep
    BY <2>4 DEF Promise!Record, Promise!Settle, Promise!Abandon, Promise!Relic, Promise!Straggle
  <2> QED BY <2>1, <2>2, <2>3, <2>4 DEF Promise!Next
<1> QED BY <1>1, PTL DEF Promise!Spec, Promise!Held

\* Hence no interleaving of start, stop, checks, handlers and killed processes leaves a
\* recorded session in cleartext or lifts its killswitch before its stop is published.
THEOREM SessionsSheltered == ASSUME SoleCommands PROVE Spec => []Promise!Sheltered /\ Promise!Held
BY PromiseKept, Shelter, HoldsUntilTermination, PTL DEF KeepsPromise
================================================================================
