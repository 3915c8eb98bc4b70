-------------------------- MODULE WatchdogTimingProofs --------------------------
(***************************************************************************)
(* The deadlines of the supervisor fit together for every combination of   *)
(* timings that Settings.validate accepts.                                 *)
(***************************************************************************)
EXTENDS WatchdogTiming, TLAPS

\* What the settings of a session are known to be.
LEMMA SettingsTyped ==
    ASSUME conf \in Offers
    PROVE  /\ C \in Nat \ {0} /\ H \in Nat \ {0} /\ I \in Nat \ {0}
           /\ A \in Nat \ {0} /\ S \in Nat \ {0} /\ R \in Nat \ {0}
BY OffersAssumption DEF Timings, Seconds, C, H, I, A, S, R

\* The time a step may take is a natural number.
LEMMA BoundTyped ==
    ASSUME TypeOK
    PROVE  /\ Bound \in Nat
           /\ spent \in Nat /\ wait \in Nat /\ silence \in Nat
           /\ sinceCheck \in Nat /\ age \in Nat /\ quiet \in Nat
<1>1. conf \in Offers /\ wait \in 0..H
  BY DEF TypeOK
<1>2. Bound \in Nat
  BY <1>1, SettingsTyped DEF Bound, EmergencyTime
<1> QED BY <1>2, SettingsTyped DEF TypeOK, Most

\* A check keeps its own deadline and a sleep the heartbeat.
LEMMA StepBounded ==
    ASSUME TypeOK
    PROVE  /\ pc \in {"check", "heal", "recheck"} => spent <= C
           /\ pc = "sleep" => spent <= H
<1>1. spent \in 0..Bound /\ wait \in 0..H /\ conf \in Offers /\ Bound \in Nat
  BY BoundTyped DEF TypeOK
<1>2. C \in Nat /\ H \in Nat
  BY <1>1, SettingsTyped
<1>3. pc \in {"check", "heal", "recheck"} => Bound = C
  BY DEF Bound
<1>4. pc = "sleep" => Bound = wait
  BY DEF Bound
<1> QED BY <1>1, <1>2, <1>3, <1>4

\* The initial state fits together.
LEMMA InitTiming == Init => TimingInv
<1> SUFFICES ASSUME Init PROVE TimingInv
  OBVIOUS
<1>1. conf \in Offers /\ Validate(conf)
  BY DEF Init
<1>2. Bound = 0
  BY DEF Init, Bound
<1>3. FlagsTyped
  BY Zenon DEF Init, FlagsTyped
<1>4. TypeOK
  BY <1>1, <1>2, <1>3, SettingsTyped DEF Init, TypeOK, Points, Loop, Most
<1> QED BY <1>1, <1>4 DEF Init, TimingInv, SilenceBound, AgeBound

\* Every step keeps the types, the settings and the two bounds.
LEMMA NextTiming == TimingInv /\ [Next]_vars => TimingInv'
<1> SUFFICES ASSUME TimingInv, [Next]_vars PROVE TimingInv'
  OBVIOUS
<1>1. conf' = conf
  BY DEF Next, vars, Tick, TickDown, Start, LatchedByOther, Kill, Fails, HandlerBegins,
         HandlerEnds, Top, InvalidEnds, CheckEnds, HealEnds, RecheckEnds, ContainEnds, Beat, Wake
<1>2. /\ C' = C /\ H' = H /\ I' = I /\ A' = A /\ S' = S /\ R' = R
      /\ Validate(conf)'
  BY <1>1 DEF C, H, I, A, S, R, Validate, TimingInv
<1>3. /\ C \in Nat \ {0} /\ H \in Nat \ {0} /\ I \in Nat \ {0}
      /\ A \in Nat \ {0} /\ S \in Nat \ {0} /\ R \in Nat \ {0}
  BY SettingsTyped DEF TimingInv, TypeOK
<1>4. /\ Bound \in Nat
      /\ spent \in Nat /\ wait \in Nat /\ silence \in Nat
      /\ sinceCheck \in Nat /\ age \in Nat /\ quiet \in Nat
  BY BoundTyped DEF TimingInv
<1>5. FlagsTyped'
  <2>1. FlagsTyped
    BY DEF TimingInv, TypeOK
  <2> QED
    BY <2>1, Zenon DEF FlagsTyped, Next, vars, Tick, TickDown, Start, LatchedByOther, Kill, Fails,
         HandlerBegins, HandlerEnds, Top, InvalidEnds, CheckEnds, HealEnds, RecheckEnds,
         ContainEnds, Beat, Wake
<1>6. TypeOK /\ SilenceBound /\ AgeBound
  BY DEF TimingInv
<1> HIDE DEF C, H, I, A, S, R
<1> SUFFICES TypeOK' /\ SilenceBound' /\ AgeBound'
  BY <1>2 DEF TimingInv
<1> USE <1>1, <1>2, <1>3, <1>4, <1>5, <1>6
<1> USE DEF TypeOK, SilenceBound, AgeBound, Bound, EmergencyTime, Points, Loop, Goto,
            Publish, Least, Most
<1>a. CASE Tick            BY <1>a DEF Tick, Overdue
<1>b. CASE TickDown        BY <1>b DEF TickDown
<1>c. CASE Start           BY <1>c DEF Start
<1>d. CASE LatchedByOther  BY <1>d DEF LatchedByOther
<1>e. CASE Kill \/ Fails   BY <1>e DEF Kill, Fails, HandlerBegins, Overdue
<1>f. CASE HandlerEnds     BY <1>f DEF HandlerEnds
<1>g. CASE Top             BY <1>g DEF Top
<1>h. CASE InvalidEnds     BY <1>h DEF InvalidEnds
<1>i. CASE CheckEnds       BY <1>i DEF CheckEnds, Reported
<1>j. CASE HealEnds        BY <1>j DEF HealEnds, Reported
<1>k. CASE RecheckEnds     BY <1>k DEF RecheckEnds
<1>l. CASE ContainEnds     BY <1>l DEF ContainEnds
<1>m. CASE Beat            BY <1>m DEF Beat
<1>n. CASE Wake            BY <1>n DEF Wake
<1>o. CASE UNCHANGED vars  BY <1>o DEF vars
<1> QED
  BY <1>a, <1>b, <1>c, <1>d, <1>e, <1>f, <1>g, <1>h, <1>i, <1>j, <1>k, <1>l, <1>m, <1>n, <1>o
     DEF Next

\* The strengthened invariant holds of every session's supervisor.
THEOREM Timing == Spec => []TimingInv
BY InitTiming, NextTiming, PTL DEF Spec

\* Settings.validate leaves room for "a bounded check plus the next nominal
\* heartbeat": a supervisor that contains nothing reports twice per
\* WatchdogSec, for all accepted timings.
THEOREM Reporting == Spec => []ReportsTwice
<1>1. TimingInv => ReportsTwice
  <2> SUFFICES ASSUME TimingInv PROVE ReportsTwice
    OBVIOUS
  <2>1. conf \in Offers /\ TypeOK /\ SilenceBound /\ Validate(conf)
    BY DEF TimingInv, TypeOK
  <2>2. 2 * (C + H) <= S
    BY <2>1 DEF Validate, C, H, S
  <2>3. C \in Nat /\ H \in Nat /\ S \in Nat /\ spent \in Nat /\ wait \in Nat /\ silence \in Nat
    BY <2>1, SettingsTyped, BoundTyped
  <2>4. /\ pc \in {"check", "heal", "recheck"} => spent <= C
        /\ pc = "sleep" => spent <= H
    BY <2>1, <2>3, StepBounded
  <2> HIDE DEF C, H, S
  <2> QED BY <2>1, <2>2, <2>3, <2>4 DEF ReportsTwice, SilenceBound, Loop, Containing
<1> QED BY <1>1, Timing, PTL

\* systemd never kills a supervisor for a check that kept its deadline: only a
\* containment, or the healing of Tor before READY, can outlast its clock.
THEOREM OverdueOnlyContaining == Spec => []OnlyContainmentIsOverdue
<1>1. TimingInv => OnlyContainmentIsOverdue
  <2> SUFFICES ASSUME TimingInv PROVE OnlyContainmentIsOverdue
    OBVIOUS
  <2>1. conf \in Offers /\ TypeOK /\ SilenceBound /\ Validate(conf)
    BY DEF TimingInv, TypeOK
  <2>2. 2 * (C + H) <= S /\ R >= C + H
    BY <2>1 DEF Validate, C, H, S, R
  <2>3. /\ C \in Nat /\ H \in Nat \ {0} /\ S \in Nat /\ R \in Nat
        /\ spent \in Nat /\ wait \in Nat /\ silence \in Nat
    BY <2>1, SettingsTyped, BoundTyped
  <2>4. /\ pc \in {"check", "heal", "recheck"} => spent <= C
        /\ pc = "sleep" => spent <= H
    BY <2>1, <2>3, StepBounded
  <2> HIDE DEF C, H, S, R
  <2> QED BY <2>1, <2>2, <2>3, <2>4
          DEF OnlyContainmentIsOverdue, Overdue, SilenceBound, Loop, Containing
<1> QED BY <1>1, Timing, PTL

\* What a live supervisor published as healthy is current until it is
\* invalidated or replaced, for all accepted timings.
THEOREM Freshness == Spec => []HealthyIsCurrent
<1>1. TimingInv => HealthyIsCurrent
  <2> SUFFICES ASSUME TimingInv PROVE HealthyIsCurrent
    OBVIOUS
  <2>1. conf \in Offers /\ TypeOK /\ AgeBound /\ Validate(conf)
    BY DEF TimingInv, TypeOK
  <2>2. A >= I + C
    BY <2>1 DEF Validate, A, I, C
  <2> HIDE DEF A, I, C
  <2> QED BY <2>1, <2>2, SettingsTyped, BoundTyped DEF HealthyIsCurrent, TypeOK, AgeBound
<1> QED BY <1>1, Timing, PTL

\* TimeoutStopSec covers the four bounded stages of request_emergency, with the
\* session's timings and without.
THEOREM HandlerHasTime == Spec => []HandlerFits
<1>1. TimingInv => HandlerFits
  BY SettingsTyped DEF TimingInv, TypeOK, HandlerFits, Bound, EmergencyTime, TimeoutStop, Most
<1> QED BY <1>1, Timing, PTL
================================================================================
