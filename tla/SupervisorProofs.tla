--------------------------- MODULE SupervisorProofs ---------------------------
(***************************************************************************)
(* The supervisor loop and its systemd unit keep what they promise for any *)
(* number of faults behind their back and any start limit.                 *)
(***************************************************************************)
EXTENDS Supervisor, TLAPS

\* A step of the loop, of a command, of systemd or of the environment is a step
\* of one of the actions.
LEMMA NextCases ==
    ASSUME Next
    PROVE  /\ UNCHANGED printed
           /\ \/ Boot \/ Initialize \/ ReadLock \/ ReadLatch
              \/ CheckDns \/ CheckFirewall \/ CheckTor \/ Heal \/ Deadline \/ Passed \/ Contain
              \/ Beat \/ Wake \/ Timeout \/ ReadInotify \/ Drain \/ Raise \/ Fail
              \/ StartWatchdog \/ StartReturns \/ StartObserves
              \/ CheckSession \/ CheckObserves \/ CommandRequests
              \/ StopSession \/ StopUnit \/ StopTeardown
              \/ Kill \/ Terminated \/ Restart \/ Change \/ Tick \/ Age
BY DEF Next, SupervisorStep, CommandStep, SystemdStep

\* Every step keeps the flags flags.
LEMMA FlagsStep == FlagsTyped /\ Next => FlagsTyped'
<1> SUFFICES ASSUME FlagsTyped, Next PROVE FlagsTyped'
  OBVIOUS
<1> USE Zenon DEF FlagsTyped, netw, queues, service, loop, Exit
<1>0. printed' = printed
  BY NextCases
<1>1. CASE Boot \/ Initialize \/ ReadLock \/ ReadLatch
  BY <1>0, <1>1 DEF Boot, Initialize, ReadLock, ReadLatch
<1>2. CASE CheckDns \/ CheckFirewall \/ CheckTor \/ Heal \/ Deadline \/ Passed
  BY <1>0, <1>2 DEF CheckDns, CheckFirewall, CheckTor, Heal, Deadline, Passed
<1>3. CASE Contain \/ CommandRequests \/ Fail \/ Terminated
  BY <1>0, <1>3 DEF Contain, CommandRequests, Fail, Terminated, NotifyNetlink
<1>4. CASE Beat \/ Wake \/ Timeout \/ ReadInotify \/ Drain \/ Raise
  BY <1>0, <1>4 DEF Beat, Wake, Timeout, ReadInotify, Drain, Raise
<1>5. CASE StartWatchdog \/ StartReturns \/ StartObserves \/ CheckSession \/ CheckObserves
  BY <1>0, <1>5 DEF StartWatchdog, StartReturns, StartObserves, CheckSession, CheckObserves
<1>6. CASE StopSession \/ StopUnit \/ StopTeardown \/ Kill \/ Restart \/ Tick \/ Age
  BY <1>0, <1>6 DEF StopSession, StopUnit, StopTeardown, Kill, Restart, Tick, Age
<1>7. CASE Change
  BY <1>0, <1>7 DEF Change, AlterTable, TouchDns, SilentChange, NotifyNetlink
<1> QED BY <1>1, <1>2, <1>3, <1>4, <1>5, <1>6, <1>7, NextCases

\* An observation that is published is of this invocation and new.
LEMMA PublishTyped ==
    ASSUME TypeOK, NEW v \in {"none", "unknown", "healthy", "emergency"}, NEW c \in BOOLEAN, Publish(v, c)
    PROVE  /\ record' \in Records
           /\ record'.value = v /\ record'.completed = c
           /\ record'.instance = starts /\ record'.aged = FALSE
BY DEF TypeOK, Publish, Records

\* The published observation stays a well-formed record.
LEMMA RecordStep == TypeOK /\ Next => record' \in Records
<1> SUFFICES ASSUME TypeOK, Next PROVE record' \in Records
  OBVIOUS
<1>1. record \in Records
  BY DEF TypeOK
<1>2. CASE UNCHANGED record
  BY <1>1, <1>2
<1>3. CASE Age
  BY <1>1, <1>3 DEF Age, Records
<1>4. CASE Publish("unknown", FALSE) \/ Publish("healthy", TRUE) \/ Publish("emergency", TRUE)
  BY <1>4, PublishTyped
<1>5. \/ UNCHANGED record \/ Age
      \/ Publish("unknown", FALSE) \/ Publish("healthy", TRUE) \/ Publish("emergency", TRUE)
  <2> QED
    BY NextCases, Zenon
     DEF Boot, Initialize, ReadLock, ReadLatch, CheckDns, CheckFirewall, CheckTor, Heal, Deadline,
         Passed, Contain, Beat, Wake, Timeout, ReadInotify, Drain, Raise, Fail, StartWatchdog,
         StartReturns, StartObserves, CheckSession, CheckObserves, CommandRequests, StopSession,
         StopUnit, StopTeardown, Kill, Terminated, Restart, Change, Tick
<1> QED BY <1>2, <1>3, <1>4, <1>5

\* Every step keeps the types; the start limit bounds the starts.
LEMMA TypeStep == TypeOK /\ UnitInv /\ Next => TypeOK'
<1> SUFFICES ASSUME TypeOK, UnitInv, Next PROVE TypeOK'
  OBVIOUS
<1>0. FlagsTyped' /\ record' \in Records
  BY FlagsStep, RecordStep DEF TypeOK
<1> USE <1>0, SupervisorBounds DEF TypeOK, netw, queues, service, loop, Goto
<1>1. CASE Boot
  <2>1. CASE intent = "running" /\ UNCHANGED <<queues, service, loop>>
    BY <1>1, <2>1 DEF Boot
  <2>2. CASE Exit(intent # "corrupt")
    BY <1>1, <2>2 DEF Boot, Exit
  <2> QED BY <1>1, <2>1, <2>2 DEF Boot
<1>2. CASE Initialize      BY <1>2 DEF Initialize
<1>3. CASE ReadLock
  <2>1. CASE Exit(TRUE)
    BY <1>3, <2>1 DEF ReadLock, Exit
  <2>2. CASE pc' \in {"latch", "fail"} /\ UNCHANGED <<queues, service, loop>>
    BY <1>3, <2>2 DEF ReadLock
  <2> QED BY <1>3, <2>1, <2>2 DEF ReadLock
<1>4. CASE ReadLatch       BY <1>4 DEF ReadLatch, Publish
<1>5. CASE CheckDns        BY <1>5 DEF CheckDns
<1>6. CASE CheckFirewall   BY <1>6 DEF CheckFirewall
<1>7. CASE CheckTor        BY <1>7 DEF CheckTor, Publish
<1>8. CASE Heal            BY <1>8 DEF Heal
<1>9. CASE Deadline        BY <1>9 DEF Deadline
<1>10. CASE Passed         BY <1>10 DEF Passed
<1>11. CASE Contain        BY <1>11 DEF Contain, RequestEmergency, TableStates
<1>12. CASE Beat           BY <1>12 DEF Beat
<1>13. CASE Wake           BY <1>13 DEF Wake
<1>14. CASE Timeout        BY <1>14 DEF Timeout
<1>15. CASE ReadInotify    BY <1>15 DEF ReadInotify
<1>16. CASE Drain
  <2>1. inotify' \subseteq {"change", "gone"} /\ readable' = {}
    BY <1>16 DEF Drain
  <2> QED BY <1>16, <2>1 DEF Drain
<1>17. CASE Raise          BY <1>17 DEF Raise
<1>18. CASE Fail           BY <1>18 DEF Fail, RequestEmergency, TableStates, Exit
<1>19. CASE StartWatchdog  BY <1>19 DEF StartWatchdog
<1>20. CASE StartReturns   BY <1>20 DEF StartReturns
<1>21. CASE StartObserves  BY <1>21 DEF StartObserves
<1>22. CASE CheckSession   BY <1>22 DEF CheckSession
<1>23. CASE CheckObserves  BY <1>23 DEF CheckObserves
<1>24. CASE CommandRequests
  BY <1>24 DEF CommandRequests, RequestEmergency, TableStates
<1>25. CASE StopSession    BY <1>25 DEF StopSession
<1>26. CASE StopUnit       BY <1>26 DEF StopUnit, Exit
<1>27. CASE StopTeardown   BY <1>27 DEF StopTeardown, TableStates
<1>28. CASE Kill           BY <1>28 DEF Kill, Exit
<1>29. CASE Terminated     BY <1>29 DEF Terminated, RequestEmergency, TableStates
<1>30. CASE Restart        BY <1>30 DEF Restart, UnitInv
<1>31. CASE Change
  <2>1. CASE AlterTable
    BY <1>31, <2>1 DEF Change, AlterTable, TableStates
  <2>2. CASE TouchDns
    <3>1. inotify' \subseteq {"change", "gone"} /\ dns' \in {"intact", "altered"}
      BY <2>2 DEF TouchDns
    <3> QED BY <1>31, <2>2, <3>1 DEF Change, TouchDns
  <2>3. CASE SilentChange
    BY <1>31, <2>3 DEF Change, SilentChange, TableStates
  <2> QED BY <1>31, <2>1, <2>2, <2>3 DEF Change
<1>32. CASE Tick           BY <1>32 DEF Tick
<1>33. CASE Age            BY <1>33 DEF Age
<1> QED
  BY <1>1, <1>2, <1>3, <1>4, <1>5, <1>6, <1>7, <1>8, <1>9, <1>10, <1>11, <1>12, <1>13, <1>14,
     <1>15, <1>16, <1>17, <1>18, <1>19, <1>20, <1>21, <1>22, <1>23, <1>24, <1>25, <1>26, <1>27,
     <1>28, <1>29, <1>30, <1>31, <1>32, <1>33, NextCases

\* Every step keeps process, unit and start limit in agreement.
LEMMA UnitStep == TypeOK /\ UnitInv /\ Next => UnitInv'
<1> SUFFICES ASSUME TypeOK, UnitInv, Next PROVE UnitInv'
  OBVIOUS
<1> USE SupervisorBounds DEF TypeOK, UnitInv, netw, queues, service, loop, Goto, Exit
<1>1. CASE Boot            BY <1>1 DEF Boot
<1>2. CASE Initialize      BY <1>2 DEF Initialize
<1>3. CASE ReadLock        BY <1>3 DEF ReadLock
<1>4. CASE ReadLatch       BY <1>4 DEF ReadLatch
<1>5. CASE CheckDns        BY <1>5 DEF CheckDns
<1>6. CASE CheckFirewall   BY <1>6 DEF CheckFirewall
<1>7. CASE CheckTor        BY <1>7 DEF CheckTor
<1>8. CASE Heal            BY <1>8 DEF Heal
<1>9. CASE Deadline        BY <1>9 DEF Deadline
<1>10. CASE Passed         BY <1>10 DEF Passed
<1>11. CASE Contain        BY <1>11 DEF Contain
<1>12. CASE Beat           BY <1>12 DEF Beat
<1>13. CASE Wake           BY <1>13 DEF Wake
<1>14. CASE Timeout        BY <1>14 DEF Timeout
<1>15. CASE ReadInotify    BY <1>15 DEF ReadInotify
<1>16. CASE Drain          BY <1>16 DEF Drain
<1>17. CASE Raise          BY <1>17 DEF Raise, Subscribed
<1>18. CASE Fail           BY <1>18 DEF Fail
<1>19. CASE StartWatchdog  BY <1>19 DEF StartWatchdog
<1>20. CASE StartReturns   BY <1>20 DEF StartReturns
<1>21. CASE StartObserves  BY <1>21 DEF StartObserves
<1>22. CASE CheckSession   BY <1>22 DEF CheckSession
<1>23. CASE CheckObserves  BY <1>23 DEF CheckObserves
<1>24. CASE CommandRequests BY <1>24 DEF CommandRequests
<1>25. CASE StopSession    BY <1>25 DEF StopSession
<1>26. CASE StopUnit       BY <1>26 DEF StopUnit
<1>27. CASE StopTeardown   BY <1>27 DEF StopTeardown
<1>28. CASE Kill           BY <1>28 DEF Kill
<1>29. CASE Terminated     BY <1>29 DEF Terminated
<1>30. CASE Restart        BY <1>30 DEF Restart
<1>31. CASE Change         BY <1>31 DEF Change, AlterTable, TouchDns, SilentChange
<1>32. CASE Tick           BY <1>32 DEF Tick
<1>33. CASE Age            BY <1>33 DEF Age
<1> QED
  BY <1>1, <1>2, <1>3, <1>4, <1>5, <1>6, <1>7, <1>8, <1>9, <1>10, <1>11, <1>12, <1>13, <1>14,
     <1>15, <1>16, <1>17, <1>18, <1>19, <1>20, <1>21, <1>22, <1>23, <1>24, <1>25, <1>26, <1>27,
     <1>28, <1>29, <1>30, <1>31, <1>32, <1>33, NextCases

\* Every step keeps the loop from sleeping on an observation it has to renew.
LEMMA LoopStep == TypeOK /\ UnitInv /\ LoopInv /\ Next => LoopInv'
<1> SUFFICES ASSUME TypeOK, UnitInv, LoopInv, Next PROVE LoopInv'
  OBVIOUS
<1> USE DEF TypeOK, UnitInv, LoopInv, Evaluated, Records, netw, queues, service, loop, Goto, Publish, Exit
<1>1. CASE Boot
  <2>1. CASE intent = "running"
    BY <1>1, <2>1 DEF Boot, Publish
  <2>2. CASE Exit(intent # "corrupt")
    BY <1>1, <2>2 DEF Boot, Exit
  <2> QED BY <1>1, <2>1, <2>2 DEF Boot
<1>2. CASE Initialize      BY <1>2 DEF Initialize
<1>3. CASE ReadLock        BY <1>3 DEF ReadLock
<1>4. CASE ReadLatch       BY <1>4 DEF ReadLatch
<1>5. CASE CheckDns        BY <1>5 DEF CheckDns
<1>6. CASE CheckFirewall   BY <1>6 DEF CheckFirewall
<1>7. CASE CheckTor        BY <1>7 DEF CheckTor
<1>8. CASE Heal            BY <1>8 DEF Heal
<1>9. CASE Deadline        BY <1>9 DEF Deadline
<1>10. CASE Passed         BY <1>10 DEF Passed
<1>11. CASE Contain        BY <1>11 DEF Contain
<1>12. CASE Beat           BY <1>12 DEF Beat
<1>13. CASE Wake           BY <1>13 DEF Wake
<1>14. CASE Timeout        BY <1>14 DEF Timeout
<1>15. CASE ReadInotify    BY <1>15 DEF ReadInotify
<1>16. CASE Drain          BY <1>16 DEF Drain
<1>17. CASE Raise          BY <1>17 DEF Raise, Subscribed
<1>18. CASE Fail           BY <1>18 DEF Fail
<1>19. CASE StartWatchdog  BY <1>19 DEF StartWatchdog
<1>20. CASE StartReturns   BY <1>20 DEF StartReturns
<1>21. CASE StartObserves  BY <1>21 DEF StartObserves
<1>22. CASE CheckSession   BY <1>22 DEF CheckSession
<1>23. CASE CheckObserves  BY <1>23 DEF CheckObserves
<1>24. CASE CommandRequests BY <1>24 DEF CommandRequests
<1>25. CASE StopSession    BY <1>25 DEF StopSession
<1>26. CASE StopUnit       BY <1>26 DEF StopUnit
<1>27. CASE StopTeardown   BY <1>27 DEF StopTeardown
<1>28. CASE Kill           BY <1>28 DEF Kill
<1>29. CASE Terminated     BY <1>29 DEF Terminated
<1>30. CASE Restart        BY <1>30 DEF Restart
<1>31. CASE Change         BY <1>31 DEF Change
<1>32. CASE Tick           BY <1>32 DEF Tick
<1>33. CASE Age            BY <1>33 DEF Age
<1> QED
  BY <1>1, <1>2, <1>3, <1>4, <1>5, <1>6, <1>7, <1>8, <1>9, <1>10, <1>11, <1>12, <1>13, <1>14,
     <1>15, <1>16, <1>17, <1>18, <1>19, <1>20, <1>21, <1>22, <1>23, <1>24, <1>25, <1>26, <1>27,
     <1>28, <1>29, <1>30, <1>31, <1>32, <1>33, NextCases

\* Every step leaves the event queued that will invalidate a stale observation.
LEMMA TableStep == TypeOK /\ TypeOK' /\ UnitInv /\ LoopInv /\ TableInv /\ Next => TableInv'
<1> SUFFICES ASSUME TypeOK, TypeOK', UnitInv, LoopInv, TableInv, Next PROVE TableInv'
  OBVIOUS
<1>0. printed' = printed
  BY NextCases
<1> USE <1>0
      DEF TypeOK, UnitInv, LoopInv, TableInv, Differs, Subscribed, Evaluated, Records, netw, queues, service,
          loop, Goto, Publish, Exit, NotifyNetlink
<1>1. CASE Boot
  <2>1. CASE intent = "running"
    BY <1>1, <2>1 DEF Boot, Publish
  <2>2. CASE Exit(intent # "corrupt")
    BY <1>1, <2>2 DEF Boot, Exit
  <2> QED BY <1>1, <2>1, <2>2 DEF Boot
<1>2. CASE Initialize      BY <1>2 DEF Initialize
<1>3. CASE ReadLock        BY <1>3 DEF ReadLock
<1>4. CASE ReadLatch       BY <1>4 DEF ReadLatch
<1>5. CASE CheckDns        BY <1>5 DEF CheckDns
<1>6. CASE CheckFirewall   BY <1>6 DEF CheckFirewall
<1>7. CASE CheckTor        BY <1>7 DEF CheckTor
<1>8. CASE Heal            BY <1>8 DEF Heal
<1>9. CASE Deadline        BY <1>9 DEF Deadline
<1>10. CASE Passed         BY <1>10 DEF Passed
<1>11. CASE Contain        BY <1>11 DEF Contain
<1>12. CASE Beat           BY <1>12 DEF Beat
<1>13. CASE Wake           BY <1>13 DEF Wake
<1>14. CASE Timeout        BY <1>14 DEF Timeout
<1>15. CASE ReadInotify    BY <1>15 DEF ReadInotify
<1>16. CASE Drain          BY <1>16 DEF Drain
<1>17. CASE Raise          BY <1>17 DEF Raise
<1>18. CASE Fail           BY <1>18 DEF Fail
<1>19. CASE StartWatchdog  BY <1>19 DEF StartWatchdog
<1>20. CASE StartReturns   BY <1>20 DEF StartReturns
<1>21. CASE StartObserves  BY <1>21 DEF StartObserves
<1>22. CASE CheckSession   BY <1>22 DEF CheckSession
<1>23. CASE CheckObserves  BY <1>23 DEF CheckObserves
<1>24. CASE CommandRequests BY <1>24 DEF CommandRequests
<1>25. CASE StopSession    BY <1>25 DEF StopSession
<1>26. CASE StopUnit       BY <1>26 DEF StopUnit
<1>27. CASE StopTeardown   BY <1>27 DEF StopTeardown
<1>28. CASE Kill           BY <1>28 DEF Kill
<1>29. CASE Terminated     BY <1>29 DEF Terminated
<1>30. CASE Restart        BY <1>30 DEF Restart
<1>31. CASE Change
  <2>1. CASE AlterTable
    BY <1>31, <2>1 DEF Change, AlterTable
  <2>2. CASE TouchDns \/ SilentChange
    <3>1. UNCHANGED <<netlink, record, pc, starts>> /\ (Differs' => Differs)
      BY <1>31, <2>2 DEF Change, TouchDns, SilentChange
    <3> QED BY <3>1
  <2> QED BY <1>31, <2>1, <2>2 DEF Change
<1>32. CASE Tick           BY <1>32 DEF Tick
<1>33. CASE Age            BY <1>33 DEF Age
<1> QED
  BY <1>1, <1>2, <1>3, <1>4, <1>5, <1>6, <1>7, <1>8, <1>9, <1>10, <1>11, <1>12, <1>13, <1>14,
     <1>15, <1>16, <1>17, <1>18, <1>19, <1>20, <1>21, <1>22, <1>23, <1>24, <1>25, <1>26, <1>27,
     <1>28, <1>29, <1>30, <1>31, <1>32, <1>33, NextCases

\* Every step of an ended supervisor leaves its end on record.
LEMMA EndStep == TypeOK /\ UnitInv /\ NoSilentEnd /\ Next => NoSilentEnd'
<1> SUFFICES ASSUME TypeOK, UnitInv, NoSilentEnd, Next PROVE NoSilentEnd'
  OBVIOUS
<1> USE DEF TypeOK, UnitInv, NoSilentEnd, netw, queues, service, loop, Goto, Exit, RequestEmergency
<1>1. CASE Boot            BY <1>1 DEF Boot
<1>2. CASE Initialize      BY <1>2 DEF Initialize
<1>3. CASE ReadLock        BY <1>3 DEF ReadLock
<1>4. CASE ReadLatch       BY <1>4 DEF ReadLatch
<1>5. CASE CheckDns        BY <1>5 DEF CheckDns
<1>6. CASE CheckFirewall   BY <1>6 DEF CheckFirewall
<1>7. CASE CheckTor        BY <1>7 DEF CheckTor
<1>8. CASE Heal            BY <1>8 DEF Heal
<1>9. CASE Deadline        BY <1>9 DEF Deadline
<1>10. CASE Passed         BY <1>10 DEF Passed
<1>11. CASE Contain        BY <1>11 DEF Contain
<1>12. CASE Beat           BY <1>12 DEF Beat
<1>13. CASE Wake           BY <1>13 DEF Wake
<1>14. CASE Timeout        BY <1>14 DEF Timeout
<1>15. CASE ReadInotify    BY <1>15 DEF ReadInotify
<1>16. CASE Drain          BY <1>16 DEF Drain
<1>17. CASE Raise          BY <1>17 DEF Raise, Subscribed
<1>18. CASE Fail           BY <1>18 DEF Fail
<1>19. CASE StartWatchdog  BY <1>19 DEF StartWatchdog
<1>20. CASE StartReturns   BY <1>20 DEF StartReturns
<1>21. CASE StartObserves  BY <1>21 DEF StartObserves
<1>22. CASE CheckSession   BY <1>22 DEF CheckSession
<1>23. CASE CheckObserves  BY <1>23 DEF CheckObserves
<1>24. CASE CommandRequests BY <1>24 DEF CommandRequests
<1>25. CASE StopSession    BY <1>25 DEF StopSession
<1>26. CASE StopUnit       BY <1>26 DEF StopUnit
<1>27. CASE StopTeardown   BY <1>27 DEF StopTeardown
<1>28. CASE Kill           BY <1>28 DEF Kill
<1>29. CASE Terminated     BY <1>29 DEF Terminated
<1>30. CASE Restart        BY <1>30 DEF Restart
<1>31. CASE Change         BY <1>31 DEF Change, AlterTable, TouchDns, SilentChange
<1>32. CASE Tick           BY <1>32 DEF Tick
<1>33. CASE Age            BY <1>33 DEF Age
<1> QED
  BY <1>1, <1>2, <1>3, <1>4, <1>5, <1>6, <1>7, <1>8, <1>9, <1>10, <1>11, <1>12, <1>13, <1>14,
     <1>15, <1>16, <1>17, <1>18, <1>19, <1>20, <1>21, <1>22, <1>23, <1>24, <1>25, <1>26, <1>27,
     <1>28, <1>29, <1>30, <1>31, <1>32, <1>33, NextCases

\* The supervised session starts with everything in agreement.
LEMMA InitSupervisor == Init => SupervisorInv
<1> SUFFICES ASSUME Init PROVE SupervisorInv
  OBVIOUS
<1>1. FlagsTyped
  BY Zenon DEF Init, FlagsTyped
<1>2. record \in Records
  BY SupervisorBounds DEF Init, Records
<1>3. TypeOK
  BY <1>1, <1>2, SupervisorBounds DEF Init, TypeOK, TableStates
<1> QED BY <1>3 DEF Init, SupervisorInv, UnitInv, LoopInv, TableInv, Subscribed, NoSilentEnd

\* Every step keeps the inductive invariant.
LEMMA NextSupervisor == SupervisorInv /\ [Next]_vars => SupervisorInv'
<1> SUFFICES ASSUME SupervisorInv, [Next]_vars PROVE SupervisorInv'
  OBVIOUS
<1> USE DEF SupervisorInv
<1>1. CASE Next
  BY <1>1, TypeStep, UnitStep, LoopStep, TableStep, EndStep
<1>2. CASE UNCHANGED vars
  BY <1>2 DEF vars, TypeOK, FlagsTyped, UnitInv, LoopInv, TableInv, Evaluated, Subscribed,
              Differs, NoSilentEnd
<1> QED BY <1>1, <1>2

\* The inductive invariant holds whatever the bounds are, among it that the unit
\* never starts more often than its limit allows.
THEOREM Supervision == Spec => []SupervisorInv
BY InitSupervisor, NextSupervisor, PTL DEF Spec

\* "Events invalidate observations immediately": an observation that reads healthy
\* over a table the checks would refuse has its event still queued.
THEOREM NoEventIsLost == Spec => []EventsAreNotLost
<1>1. SupervisorInv => EventsAreNotLost
  BY DEF SupervisorInv, TypeOK, UnitInv, LoopInv, TableInv, EventsAreNotLost, WatchdogObservation,
         Evaluated, Subscribed
<1> QED BY <1>1, Supervision, PTL

\* READY and every heartbeat of the loop stand for a completed evaluation of this
\* invocation, or for a held emergency.
THEOREM SleepsEvaluated == Spec => []NeverSleepsUnevaluated
<1>1. SupervisorInv => NeverSleepsUnevaluated
  BY DEF SupervisorInv, LoopInv, Evaluated, NeverSleepsUnevaluated
<1> QED BY <1>1, Supervision, PTL

\* Once ExecStopPost has run, the end of the supervisor is latched, reported as
\* unconfirmed, unreadable, or wanted.
THEOREM EndIsRecorded == Spec => []NoSilentEnd
<1>1. SupervisorInv => NoSilentEnd
  BY DEF SupervisorInv
<1> QED BY <1>1, Supervision, PTL
================================================================================
