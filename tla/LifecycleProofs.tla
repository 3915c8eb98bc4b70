---------------------------- MODULE LifecycleProofs ----------------------------
(***************************************************************************)
(* A stop gives the host its network back, and a start that fails takes    *)
(* away what it answers for, for every number of resolv.conf targets and   *)
(* whatever goes wrong however often.                                      *)
(***************************************************************************)
EXTENDS Lifecycle, TLAPS

\* The fields of a command.
LEMMA CommandTyped ==
    ASSUME NEW c \in Commands
    PROVE  /\ c.op \in Ops /\ c.external \in BOOLEAN /\ c.resolved \in BOOLEAN /\ c.target \in Targets
           /\ c.backup \in {"none", "dns"} /\ c.lock \in Locks \cup {NoLock} /\ c.held \in BOOLEAN
           /\ c.left \subseteq Parts
BY DEF Commands

\* The fields of a lock that is there.
LEMMA LockTyped ==
    ASSUME NEW l \in Locks \cup {NoLock}, l # NoLock
    PROVE  l \in Locks /\ l.external \in BOOLEAN /\ l.target \in Targets /\ l.resolved \in BOOLEAN
BY DEF Locks

\* What every step of a command but its first leaves as it is.
Continues == cmd'.op = cmd.op /\ cmd'.external = cmd.external /\ cmd'.held = cmd.held

\* Each assignment to a local variable changes that variable only: a start gives
\* parts up.
LEMMA SetLeft ==
    ASSUME cmd \in Commands, NEW parts, parts \subseteq Parts, Leave(parts)
    PROVE  /\ cmd' \in Commands /\ Continues /\ cmd'.resolved = cmd.resolved /\ cmd'.target = cmd.target
           /\ cmd'.backup = cmd.backup /\ cmd'.lock = cmd.lock
           /\ cmd'.left = IF cmd.op = "start" THEN cmd.left \cup parts ELSE cmd.left
BY DEF Commands, Continues, Leave

\* What the failing steps of start leave are parts of a session.
LEMMA LeftParts ==
    /\ {} \subseteq Parts /\ {"tor"} \subseteq Parts /\ {"overlay"} \subseteq Parts
    /\ {"resolver"} \subseteq Parts /\ {"lock"} \subseteq Parts /\ {"overlay", "resolver"} \subseteq Parts
    /\ Started \subseteq Parts /\ FromTable \subseteq Parts /\ {"tor"} \cup FromTable \subseteq Parts
    /\ (IF faults' = faults THEN {} ELSE {"resolver"}) \subseteq Parts
BY DEF Parts, Started, FromTable

\* apply_resolved has something to undo.
LEMMA SetResolved ==
    ASSUME cmd \in Commands, cmd' = [cmd EXCEPT !.resolved = TRUE]
    PROVE  /\ cmd' \in Commands /\ Continues /\ cmd'.resolved = TRUE /\ cmd'.target = cmd.target
           /\ cmd'.backup = cmd.backup /\ cmd'.lock = cmd.lock /\ cmd'.left = cmd.left
BY DEF Commands, Continues

\* apply_dns resolves its target.
LEMMA SetTarget ==
    ASSUME cmd \in Commands, link \in Targets, cmd' = [cmd EXCEPT !.target = link]
    PROVE  /\ cmd' \in Commands /\ Continues /\ cmd'.resolved = cmd.resolved /\ cmd'.target = link
           /\ cmd'.backup = cmd.backup /\ cmd'.lock = cmd.lock /\ cmd'.left = cmd.left
BY DEF Commands, Continues

\* apply_dns returns its backup.
LEMMA SetBackup ==
    ASSUME cmd \in Commands, cmd' = [cmd EXCEPT !.backup = "dns"]
    PROVE  /\ cmd' \in Commands /\ Continues /\ cmd'.resolved = cmd.resolved /\ cmd'.target = cmd.target
           /\ cmd'.backup = "dns" /\ cmd'.lock = cmd.lock /\ cmd'.left = cmd.left
BY DEF Commands, Continues

\* restore-only reads the lock.
LEMMA SetLock ==
    ASSUME cmd \in Commands, lock \in Locks \cup {NoLock}, cmd' = [cmd EXCEPT !.lock = lock]
    PROVE  /\ cmd' \in Commands /\ Continues /\ cmd'.resolved = cmd.resolved /\ cmd'.target = cmd.target
           /\ cmd'.backup = cmd.backup /\ cmd'.lock = lock /\ cmd'.left = cmd.left
BY DEF Commands, Continues

\* The local variables a command begins with.
LEMMA LocalsTyped ==
    ASSUME TypeOK, NEW op \in Ops, NEW ext \in BOOLEAN
    PROVE  /\ Locals(op, ext) \in Commands
           /\ Locals(op, ext).op = op /\ Locals(op, ext).external = ext /\ Locals(op, ext).resolved = FALSE
           /\ Locals(op, ext).target = link /\ Locals(op, ext).backup = "none" /\ Locals(op, ext).lock = lock
           /\ Locals(op, ext).held = (table # "none")
           /\ Locals(op, ext).left = (IF op = "start" THEN Residue ELSE {})
<1>1. (table # "none") \in BOOLEAN /\ (IF op = "start" THEN Residue ELSE {}) \in SUBSET Parts
  BY DEF Residue
<1> QED BY <1>1 DEF TypeOK, PlacesTyped, Commands, Locals

\* A command begins with these locals.
Begins(op, ext) ==
    /\ cmd' \in Commands /\ cmd'.op = op /\ cmd'.external = ext /\ cmd'.resolved = FALSE
    /\ cmd'.target = link /\ cmd'.backup = "none" /\ cmd'.lock = lock
    /\ cmd'.held => table # "none"
    /\ cmd'.left = IF op = "start" THEN Residue ELSE {}

\* start is refused, or begins on a host without a session lock.
LEMMA StartBegins ==
    ASSUME TypeOK, NEW ext \in BOOLEAN, Start(ext)
    PROVE  /\ pc = "idle" /\ UNCHANGED <<host, lock, env>>
           /\ \/ out' \in {"refused", "conflict"} /\ UNCHANGED <<pc, cmd>>
              \/ /\ lock = NoLock /\ PortsFree(ext) /\ Begins("start", ext)
                 /\ pc' = (IF ext THEN "rules" ELSE "detect") /\ out' = "none"
<1>1. "start" \in Ops
  BY DEF Ops
<1>2. CASE lock = NoLock /\ PortsFree(ext) /\ Begin("start", IF ext THEN "rules" ELSE "detect", ext)
  <2>1. Begins("start", ext)
    BY <1>1, <1>2, LocalsTyped DEF Begin, Begins
  <2> QED BY <1>2, <2>1 DEF Start, Begin
<1>3. CASE Refuse("refused") \/ Refuse("conflict")
  BY <1>3 DEF Start, Refuse
<1> QED BY <1>2, <1>3 DEF Start

\* stop is refused without a lock, and otherwise begins, or is broken off at once.
LEMMA StopBegins ==
    ASSUME TypeOK, Stop
    PROVE  /\ pc = "idle" /\ UNCHANGED <<host, lock>>
           /\ \/ out' = "refused" /\ UNCHANGED <<pc, cmd, env>>
              \/ /\ lock # NoLock /\ Begins("stop", lock.external)
                 /\ \/ pc' = "lockdown" /\ out' = "none" /\ UNCHANGED env
                    \/ out' = "broken" /\ Fails /\ UNCHANGED pc
<1>1. "stop" \in Ops
  BY DEF Ops
<1>2. CASE lock # NoLock /\ cmd' = Locals("stop", lock.external)
  <2>1. lock.external \in BOOLEAN
    BY <1>2, LockTyped DEF TypeOK
  <2>2. Begins("stop", lock.external)
    BY <1>1, <1>2, <2>1, LocalsTyped DEF Begins
  <2> QED BY <1>2, <2>2 DEF Stop, Begin, Refuse
<1>3. CASE lock = NoLock /\ Refuse("refused")
  BY <1>3 DEF Stop, Refuse
<1> QED BY <1>2, <1>3 DEF Stop, Begin

\* restore-only begins whatever the lock says.
LEMMA RestoreBegins ==
    ASSUME TypeOK, RestoreOnly
    PROVE  /\ pc = "idle" /\ pc' = "shutdown" /\ out' = "none" /\ Begins("restore", FALSE)
           /\ UNCHANGED <<host, lock, env>>
<1>1. "restore" \in Ops /\ FALSE \in BOOLEAN
  BY DEF Ops
<1>2. Begins("restore", FALSE)
  BY <1>1, LocalsTyped DEF RestoreOnly, Begin, Begins
<1> QED BY <1>2 DEF RestoreOnly, Begin

\* signal_handler takes the command over.
LEMMA SignalCommand ==
    ASSUME TypeOK, lock # NoLock,
           cmd' = [cmd EXCEPT !.op = "signal", !.external = lock.external, !.lock = lock, !.held = table # "none"]
    PROVE  /\ cmd' \in Commands /\ cmd'.op = "signal" /\ cmd'.external = lock.external /\ cmd'.lock = lock
           /\ cmd'.held => table # "none"
           /\ cmd'.resolved = cmd.resolved /\ cmd'.target = cmd.target /\ cmd'.backup = cmd.backup
           /\ cmd'.left = cmd.left
<1>1. lock.external \in BOOLEAN /\ (table # "none") \in BOOLEAN
  BY LockTyped DEF TypeOK
<1> QED BY <1>1 DEF TypeOK, PlacesTyped, Commands, Ops

\* What the steps below use of the types.
LEMMA Typed ==
    ASSUME TypeOK
    PROVE  /\ cmd \in Commands /\ lock \in Locks \cup {NoLock} /\ link \in Targets
           /\ cmd.target \in Targets /\ faults \in Nat /\ faults + 1 # faults
           /\ mounts \in [Targets -> Nat]
<1>1. MaxFaults \in Nat
  BY LifecycleBounds
<1>2. 0 .. MaxFaults + 1 \subseteq Nat /\ 0 .. MaxFaults \subseteq Nat
  BY <1>1
<1> QED BY <1>2, CommandTyped DEF TypeOK, PlacesTyped

\* The layers over a target change in three ways: all of them are taken away.
LEMMA ClearLayers ==
    ASSUME TypeOK, mounts' = [mounts EXCEPT ![link] = 0]
    PROVE  \A u \in Targets : mounts'[u] = IF u = link THEN 0 ELSE mounts[u]
BY DEF TypeOK, PlacesTyped

\* One layer more.
LEMMA AddLayer ==
    ASSUME TypeOK, mounts' = [mounts EXCEPT ![cmd.target] = @ + 1]
    PROVE  \A u \in Targets : mounts'[u] = IF u = cmd.target THEN mounts[u] + 1 ELSE mounts[u]
BY DEF TypeOK, PlacesTyped

\* One layer less.
LEMMA TakeLayer ==
    ASSUME TypeOK, NEW t \in Targets, mounts' = IF mounts[t] > 0 THEN [mounts EXCEPT ![t] = @ - 1] ELSE mounts
    PROVE  \A u \in Targets : mounts'[u] = IF u = t /\ mounts[u] > 0 THEN mounts[u] - 1 ELSE mounts[u]
BY DEF TypeOK, PlacesTyped

\* restore_dns looks at one target.
LEMMA BackupTyped ==
    ASSUME TypeOK
    PROVE  BackupTarget \in Targets
<1>1. CASE cmd.op = "start" \/ cmd.lock = NoLock
  BY <1>1, Typed DEF BackupTarget
<1>2. CASE cmd.op # "start" /\ cmd.lock # NoLock
  <2>1. cmd.lock \in Locks \cup {NoLock}
    BY Typed, CommandTyped
  <2> QED BY <1>2, <2>1, LockTyped DEF BackupTarget
<1> QED BY <1>1, <1>2

\* It takes one layer away, or fails and leaves the overlay.
LEMMA UmountStep ==
    ASSUME TypeOK, Umount
    PROVE  /\ pc = "umount" /\ UNCHANGED <<tor, labels, table, dropin, resolver, link, lock>>
           /\ cmd' \in Commands /\ Continues /\ cmd'.resolved = cmd.resolved /\ cmd'.target = cmd.target
           /\ cmd'.backup = cmd.backup /\ cmd'.lock = cmd.lock
           /\ \A u \in Targets : mounts'[u] \in Nat /\ mounts'[u] <= mounts[u]
           /\ \/ /\ Works /\ pc' = "unresolve" /\ UNCHANGED <<cmd, out>>
                 /\ \A u \in Targets :
                       mounts'[u] = IF u = BackupTarget /\ mounts[u] > 0 THEN mounts[u] - 1 ELSE mounts[u]
              \/ Fails /\ pc' = "unresolve" /\ Leave({"overlay"}) /\ UNCHANGED out
              \/ Fails /\ cmd.op \in DoStop /\ pc' = "unlock" /\ UNCHANGED <<cmd, out>>
              \/ /\ Fails /\ cmd.op \notin DoStop /\ pc' = "idle" /\ out' = Broken
                 /\ Leave({"overlay", "resolver"})
<1> DEFINE one == IF mounts[BackupTarget] > 0 THEN [mounts EXCEPT ![BackupTarget] = @ - 1] ELSE mounts
<1>1. /\ pc = "umount" /\ UNCHANGED <<tor, labels, table, dropin, resolver, link, lock>>
      /\ mounts' = one \/ UNCHANGED mounts
      /\ \/ mounts' = one /\ Works /\ Goto("unresolve")
         \/ Fails /\ pc' = "unresolve" /\ Leave({"overlay"}) /\ UNCHANGED out
         \/ Fails /\ cmd.op \in DoStop /\ Goto("unlock")
         \/ Fails /\ cmd.op \notin DoStop /\ RaiseLeaving({"overlay", "resolver"})
  BY Zenon DEF Umount
<1>2. ASSUME mounts' = one
      PROVE  \A u \in Targets :
                mounts'[u] = IF u = BackupTarget /\ mounts[u] > 0 THEN mounts[u] - 1 ELSE mounts[u]
  BY <1>2, BackupTyped, TakeLayer
<1>3. \A u \in Targets : mounts'[u] \in Nat /\ mounts'[u] <= mounts[u]
  BY <1>1, <1>2, Typed
<1> HIDE DEF one
<1>4. CASE \/ mounts' = one /\ Works /\ Goto("unresolve")
           \/ Fails /\ cmd.op \in DoStop /\ Goto("unlock")
  BY <1>1, <1>2, <1>3, <1>4, Typed DEF Goto, Continues
<1>5. ASSUME NEW parts \in {{"overlay"}, {"overlay", "resolver"}}, Leave(parts)
      PROVE  /\ cmd' \in Commands /\ Continues /\ cmd'.resolved = cmd.resolved /\ cmd'.target = cmd.target
             /\ cmd'.backup = cmd.backup /\ cmd'.lock = cmd.lock
  BY <1>5, Typed, SetLeft, LeftParts
<1>6. CASE Fails /\ pc' = "unresolve" /\ Leave({"overlay"}) /\ UNCHANGED out
  BY <1>1, <1>3, <1>5, <1>6
<1>7. CASE Fails /\ cmd.op \notin DoStop /\ RaiseLeaving({"overlay", "resolver"})
  BY <1>1, <1>3, <1>5, <1>7 DEF RaiseLeaving
<1> QED BY <1>1, <1>4, <1>6, <1>7

\* A step is one of these.
LEMMA NextCases ==
    ASSUME [Next]_vars
    PROVE  \/ UNCHANGED vars \/ \E ext \in BOOLEAN : Start(ext)
           \/ EnsureTorReady \/ Label \/ StartTor \/ ApplyRules \/ DetectInterface \/ WriteDropin
           \/ RestartResolved \/ WriteOverlay \/ MountOverlay \/ UndoResolved \/ WriteLock \/ Supervise
           \/ Stop \/ RestoreOnly \/ Lockdown \/ GracefulShutdown \/ StopTor \/ Unlabel \/ Conntrack
           \/ Destroy \/ Umount \/ Unresolve \/ Unlock
           \/ Signal \/ Kill \/ Interrupt \/ LoseLock \/ Repoint \/ Toggle \/ Reboot
BY DEF Next, StartStep, StopStep, Environment

--------------------------------------------------------------------------------
(* Types *)

\* The two flags of the host stay flags.
LEMMA FlagsStep ==
    ASSUME TypeOK, [Next]_vars
    PROVE  labels' \in BOOLEAN /\ dropin' \in BOOLEAN
<1>1. labels \in BOOLEAN /\ dropin \in BOOLEAN
  BY DEF TypeOK
<1>2. labels' \in {TRUE, FALSE, labels} /\ dropin' \in {TRUE, FALSE, dropin}
  <2> USE DEF vars, host, env, Refuse, Begin, RestoreResolved
  <2>1. CASE UNCHANGED <<labels, dropin>>
    BY <2>1
  <2>2. CASE Label \/ Unlabel
    BY <2>2 DEF Label, Unlabel
  <2>3. CASE WriteDropin \/ UndoResolved \/ Unresolve \/ Reboot
    BY <2>3 DEF WriteDropin, UndoResolved, Unresolve, Reboot
  <2>4. CASE \E ext \in BOOLEAN : Start(ext)
    BY <2>4 DEF Start
  <2>5. CASE \/ EnsureTorReady \/ StartTor \/ ApplyRules \/ DetectInterface \/ RestartResolved
             \/ WriteOverlay \/ MountOverlay
             \/ WriteLock \/ Supervise
    BY <2>5, Zenon
      
             DEF EnsureTorReady, StartTor, ApplyRules, DetectInterface, RestartResolved, WriteOverlay,
                 MountOverlay, WriteLock,
           Supervise
  <2>6. CASE \/ Stop \/ RestoreOnly \/ Lockdown \/ GracefulShutdown \/ StopTor \/ Conntrack \/ Destroy
             \/ Umount \/ Unlock
    BY <2>6, Zenon
       DEF Stop, RestoreOnly, Lockdown, GracefulShutdown, StopTor, Conntrack, Destroy, Umount, Unlock
  <2>7. CASE Signal \/ Kill \/ Interrupt \/ LoseLock \/ Repoint \/ Toggle
    BY <2>7, Zenon DEF Signal, Kill, Interrupt, LoseLock, Repoint, Toggle
  <2> QED BY <2>1, <2>2, <2>3, <2>4, <2>5, <2>6, <2>7, NextCases
<1> QED BY <1>1, <1>2, Zenon

\* A step meets one fault or none.
LEMMA FaultsStep ==
    ASSUME [Next]_vars
    PROVE  UNCHANGED env \/ \E kind \in Kinds : Hit(kind)
<1> USE DEF Kinds, Works, Fails, env
<1>1. CASE UNCHANGED vars \/ \E ext \in BOOLEAN : Start(ext)
  BY <1>1 DEF vars, Start, Begin, Refuse
<1>2. CASE EnsureTorReady \/ Label \/ StartTor \/ ApplyRules \/ DetectInterface \/ WriteDropin
           \/ RestartResolved
  BY <1>2, Zenon
     DEF EnsureTorReady, Label, StartTor, ApplyRules, DetectInterface, WriteDropin, RestartResolved
<1>3. CASE WriteOverlay \/ MountOverlay \/ UndoResolved \/ WriteLock \/ Supervise
  BY <1>3, Zenon DEF WriteOverlay, MountOverlay, UndoResolved, RestoreResolved, WriteLock, Supervise
<1>4. CASE Stop \/ RestoreOnly \/ Lockdown \/ GracefulShutdown \/ StopTor \/ Unlabel \/ Conntrack
  BY <1>4, Zenon
     DEF Stop, RestoreOnly, Begin, Refuse, Lockdown, GracefulShutdown, StopTor, Unlabel, Conntrack
<1>5. CASE Destroy \/ Umount \/ Unresolve \/ Unlock
  BY <1>5, Zenon DEF Destroy, Umount, Unresolve, RestoreResolved, Unlock
<1>6. CASE Signal \/ Kill \/ Interrupt \/ LoseLock \/ Repoint \/ Toggle \/ Reboot
  BY <1>6, Zenon DEF Signal, Kill, Interrupt, LoseLock, Repoint, Toggle, Reboot
<1> QED BY <1>1, <1>2, <1>3, <1>4, <1>5, <1>6, NextCases

\* Faults are counted up to their bound.
LEMMA FaultsTyped ==
    ASSUME TypeOK, [Next]_vars
    PROVE  seen' \subseteq Faults /\ faults' \in 0 .. MaxFaults /\ faults' >= faults
<1>1. seen \subseteq Faults /\ faults \in 0 .. MaxFaults
  BY DEF TypeOK
<1>2. CASE UNCHANGED env
  BY <1>1, <1>2 DEF env
<1>3. ASSUME NEW kind \in Kinds, Hit(kind)
      PROVE  seen' \subseteq Faults /\ faults' \in 0 .. MaxFaults /\ faults' >= faults
  BY <1>1, <1>3, LifecycleBounds DEF Hit
<1> QED BY <1>2, <1>3, FaultsStep

\* Only these steps touch the layers.
LEMMA MountsStep ==
    ASSUME [Next]_vars
    PROVE  UNCHANGED mounts \/ WriteOverlay \/ MountOverlay \/ Umount \/ Reboot
<1> USE DEF vars, host, Begin, Refuse
<1>1. CASE UNCHANGED vars \/ \E ext \in BOOLEAN : Start(ext)
  BY <1>1 DEF Start
<1>2. CASE EnsureTorReady \/ Label \/ StartTor \/ ApplyRules \/ DetectInterface \/ WriteDropin
           \/ RestartResolved \/ UndoResolved
           \/ WriteLock \/ Supervise
  BY <1>2, Zenon
     DEF EnsureTorReady, Label, StartTor, ApplyRules, DetectInterface, WriteDropin, RestartResolved,
         UndoResolved,
        WriteLock, Supervise
<1>3. CASE Stop \/ RestoreOnly \/ Lockdown \/ GracefulShutdown \/ StopTor \/ Unlabel \/ Conntrack
           \/ Destroy \/ Unresolve \/ Unlock
  BY <1>3, Zenon
     DEF Stop, RestoreOnly, Lockdown, GracefulShutdown, StopTor, Unlabel, Conntrack, Destroy,
        Unresolve, Unlock
<1>4. CASE Signal \/ Kill \/ Interrupt \/ LoseLock \/ Repoint \/ Toggle
  BY <1>4, Zenon DEF Signal, Kill, Interrupt, LoseLock, Repoint, Toggle
<1> QED BY <1>1, <1>2, <1>3, <1>4, NextCases

\* A target has no more layers than faults can have left, and the session's own.
LEMMA MountsTyped ==
    ASSUME TypeOK, LayersInv, [Next]_vars
    PROVE  mounts' \in [Targets -> 0 .. MaxFaults + 1]
<1>1. MaxFaults \in Nat /\ mounts \in [Targets -> 0 .. MaxFaults + 1] /\ faults \in 0 .. MaxFaults
  BY LifecycleBounds DEF TypeOK
<1>2. 0 \in 0 .. MaxFaults + 1
  BY <1>1
<1>3. CASE UNCHANGED mounts
  BY <1>1, <1>3
<1>4. CASE WriteOverlay \/ Reboot
  BY <1>1, <1>2, <1>4 DEF WriteOverlay, Reboot
<1>5. CASE MountOverlay
  <2>1. mounts[cmd.target] + 1 \in 0 .. MaxFaults + 1
    BY <1>1, <1>5, Typed DEF LayersInv, MountOverlay
  <2> QED BY <1>1, <1>5, <2>1 DEF MountOverlay
<1>6. CASE Umount
  <2> DEFINE one == IF mounts[BackupTarget] > 0 THEN [mounts EXCEPT ![BackupTarget] = @ - 1] ELSE mounts
  <2>1. mounts' = one \/ UNCHANGED mounts
    BY <1>6, Zenon DEF Umount
  <2>2. mounts[BackupTarget] \in 0 .. MaxFaults + 1
    BY <1>1, BackupTyped
  <2>3. mounts[BackupTarget] > 0 => mounts[BackupTarget] - 1 \in 0 .. MaxFaults + 1
    BY <1>1, <2>2
  <2>4. one \in [Targets -> 0 .. MaxFaults + 1]
    BY <1>1, <2>3
  <2> QED BY <1>1, <2>1, <2>4
<1> QED BY <1>3, <1>4, <1>5, <1>6, MountsStep

\* The local variables of a command keep their types.
LEMMA CommandStep ==
    ASSUME TypeOK, [Next]_vars
    PROVE  cmd' \in Commands
<1>1. CASE UNCHANGED cmd
  BY <1>1, Typed
<1> USE DEF Goto, Raise, End
<1>2. CASE WriteDropin \/ RestartResolved \/ WriteOverlay \/ MountOverlay \/ UndoResolved \/ WriteLock
  BY <1>2, Typed, SetResolved, SetTarget, SetBackup, SetLeft, LeftParts
     DEF WriteDropin, RestartResolved, WriteOverlay, MountOverlay, UndoResolved, WriteLock
<1>3. CASE ApplyRules \/ DetectInterface \/ StopTor \/ Destroy \/ Umount \/ Unresolve \/ Signal
  BY <1>3, Typed, SetLeft, LeftParts, SetLock, UmountStep, SignalCommand
     DEF ApplyRules, DetectInterface, StopTor, Destroy, AfterDestroy, RaiseLeaving, Unresolve, Signal
<1>4. CASE (\E ext \in BOOLEAN : Start(ext)) \/ Stop \/ RestoreOnly
  BY <1>4, Typed, StartBegins, StopBegins, RestoreBegins DEF Begins
<1>5. CASE UNCHANGED vars \/ EnsureTorReady \/ Label \/ StartTor \/ Supervise \/ Lockdown
           \/ GracefulShutdown \/ Unlabel \/ Conntrack \/ Unlock \/ Kill \/ Interrupt \/ LoseLock \/ Repoint
           \/ Toggle \/ Reboot
  BY <1>1, <1>5, Zenon
     DEF vars, EnsureTorReady, Label, StartTor, Supervise, Lockdown, GracefulShutdown,
         Unlabel, Conntrack, Unlock, Kill, Interrupt, LoseLock, Repoint, Toggle, Reboot
<1> QED BY <1>2, <1>3, <1>4, <1>5, NextCases

\* The lock keeps its type.
LEMMA LockTypedStep ==
    ASSUME TypeOK, [Next]_vars
    PROVE  lock' \in Locks \cup {NoLock}
<1>1. lock \in Locks \cup {NoLock}
  BY Typed
<1>2. CASE WriteLock
  <2>1. [session |-> TRUE, external |-> cmd.external, target |-> cmd.target, resolved |-> cmd.resolved] \in Locks
    BY Typed, CommandTyped DEF Locks
  <2> QED BY <1>1, <1>2, <2>1, Zenon DEF WriteLock
<1>3. CASE Destroy \/ Unlock \/ Interrupt \/ LoseLock \/ Reboot
  BY <1>1, <1>3, Zenon DEF Destroy, Unlock, Interrupt, LoseLock, Reboot
<1>4. UNCHANGED lock \/ WriteLock \/ Destroy \/ Unlock \/ Interrupt \/ LoseLock \/ Reboot
  <2> USE DEF vars, host, Begin, Refuse
  <2>1. CASE UNCHANGED vars \/ \E ext \in BOOLEAN : Start(ext)
    BY <2>1 DEF Start
  <2>2. CASE EnsureTorReady \/ Label \/ StartTor \/ ApplyRules \/ DetectInterface \/ WriteDropin
             \/ RestartResolved \/ WriteOverlay
             \/ MountOverlay \/ UndoResolved \/ Supervise
    BY <2>2, Zenon
       DEF EnsureTorReady, Label, StartTor, ApplyRules, DetectInterface, WriteDropin, RestartResolved,
           WriteOverlay,
          MountOverlay, UndoResolved, Supervise
  <2>3. CASE Stop \/ RestoreOnly \/ Lockdown \/ GracefulShutdown \/ StopTor \/ Unlabel \/ Conntrack
             \/ Umount \/ Unresolve
    BY <2>3, Zenon
       DEF Stop, RestoreOnly, Lockdown, GracefulShutdown, StopTor, Unlabel, Conntrack, Umount, Unresolve
  <2>4. CASE Signal \/ Kill \/ Repoint \/ Toggle
    BY <2>4, Zenon DEF Signal, Kill, Repoint, Toggle
  <2> QED BY <2>1, <2>2, <2>3, <2>4, NextCases
<1> QED BY <1>1, <1>2, <1>3, <1>4

\* Every step ends at a place of its command, with the host in a state it can be in.
LEMMA PlacesStep ==
    ASSUME TypeOK, [Next]_vars
    PROVE  PlacesTyped'
<1> USE DEF TypeOK, PlacesTyped, Pcs
<1>1. CASE UNCHANGED vars
  BY <1>1 DEF vars
<1>2. ASSUME NEW ext \in BOOLEAN, Start(ext) PROVE PlacesTyped'
  BY <1>2, Typed, StartBegins DEF host, env, Begins
<1>3. CASE EnsureTorReady \/ Label \/ StartTor \/ ApplyRules \/ DetectInterface \/ WriteDropin
  BY <1>3, Typed, SetResolved, SetLeft, LeftParts
     DEF host, env, EnsureTorReady, Goto, Raise, End, Broken, Label, Works, Fails,
      Hit, StartTor, ApplyRules, Abort, ApplyRulesTo, FlushRules, SessionTables, EmergencyTables,
      RaiseLeaving, DetectInterface, WriteDropin
<1>4. CASE RestartResolved \/ WriteOverlay \/ MountOverlay \/ UndoResolved \/ WriteLock \/ Supervise
  BY <1>4, Typed, SetResolved, SetTarget, ClearLayers, SetBackup, SetLeft, LeftParts, AddLayer
     DEF host, env,
      RestartResolved, Works, Fails, Hit, Loaded, WriteOverlay, MountOverlay, UndoResolved,
      RestoreResolved, Abort, WriteLock, Goto, Supervise, End
<1>5. CASE Stop \/ RestoreOnly
  BY <1>5, Typed, StopBegins, RestoreBegins DEF host, env, Begins, Fails, Hit
<1>6. CASE Lockdown \/ GracefulShutdown \/ StopTor
  BY <1>6, Typed, SetLeft, LeftParts
     DEF host, env, Lockdown, InsertDrop, SessionTables, EmergencyTables, Works,
      Fails, Hit, Goto, GracefulShutdown, MaybeDown, StopTor, RaiseLeaving, Broken
<1>7. CASE Unlabel \/ Conntrack \/ Destroy \/ Umount \/ Unresolve \/ Unlock
  BY <1>7, Typed, SetLeft, LeftParts, SetLock, UmountStep
     DEF host, env, Unlabel, Works, Fails, Hit, Goto, Raise, End,
      Broken, Conntrack, InsertDrop, SessionTables, EmergencyTables, Destroy, FlushRules, AfterDestroy,
      RaiseLeaving, Continues, BackupTarget, Unresolve, BackupResolved, RestoreResolved, Loaded, Unlock
<1>8. CASE Signal \/ Kill \/ Interrupt
  BY <1>8, Typed, SignalCommand DEF host, env, Signal, Hit, Kill, Interrupt, End
<1>9. CASE LoseLock \/ Repoint \/ Toggle \/ Reboot
  BY <1>9, Typed DEF host, env, LoseLock, Hit, Repoint, Toggle, Loaded, Reboot
<1> QED BY <1>1, <1>2, <1>3, <1>4, <1>5, <1>6, <1>7, <1>8, <1>9, NextCases

\* Types are kept.
LEMMA TypeStep ==
    ASSUME TypeOK, LayersInv, [Next]_vars
    PROVE  TypeOK'
BY FlagsStep, FaultsTyped, MountsTyped, CommandStep, LockTypedStep, PlacesStep DEF TypeOK

--------------------------------------------------------------------------------
(* The parts of the inductive invariant *)

\* A command keeps to its own steps, and to the lock it has found.
LEMMA PlaceStep ==
    ASSUME TypeOK, PlaceInv, [Next]_vars
    PROVE  PlaceInv'
<1> USE DEF PlaceInv, Unrecorded, Behind, Quiet, DoStop, Continues
<1>1. CASE UNCHANGED vars
  BY <1>1 DEF vars
<1>2. ASSUME NEW ext \in BOOLEAN, Start(ext) PROVE PlaceInv'
  BY <1>2, Typed, StartBegins DEF host, env, Begins
<1>3. CASE EnsureTorReady \/ Label \/ StartTor \/ ApplyRules \/ DetectInterface \/ WriteDropin
  BY <1>3, Typed, SetResolved, SetLeft, LeftParts
     DEF host, env, EnsureTorReady, Goto, Raise, End, Broken, Label, Works, Fails,
      Hit, StartTor, ApplyRules, Abort, ApplyRulesTo, FlushRules, SessionTables, EmergencyTables,
      RaiseLeaving, DetectInterface, WriteDropin
<1>4. CASE RestartResolved \/ WriteOverlay \/ MountOverlay \/ UndoResolved \/ WriteLock \/ Supervise
  BY <1>4, Typed, SetResolved, SetTarget, ClearLayers, SetBackup, SetLeft, LeftParts, AddLayer
     DEF host, env,
      RestartResolved, Works, Fails, Hit, Loaded, WriteOverlay, MountOverlay, UndoResolved,
      RestoreResolved, Abort, WriteLock, Goto, Supervise, End
<1>5. CASE Stop \/ RestoreOnly \/ Lockdown \/ GracefulShutdown \/ StopTor
  BY <1>5, Typed, StopBegins, RestoreBegins, SetLeft, LeftParts
     DEF host, env, Begins, Fails, Hit, Lockdown,
      InsertDrop, SessionTables, EmergencyTables, Works, Goto, GracefulShutdown, MaybeDown, StopTor,
      RaiseLeaving, Broken
<1>6. CASE Unlabel \/ Conntrack \/ Destroy \/ Umount \/ Unresolve \/ Unlock
  BY <1>6, Typed, SetLeft, LeftParts, SetLock, UmountStep
     DEF host, env, Unlabel, Works, Fails, Hit, Goto, Raise, End,
      Broken, Conntrack, InsertDrop, SessionTables, EmergencyTables, Destroy, FlushRules, AfterDestroy,
      RaiseLeaving, BackupTarget, Unresolve, BackupResolved, RestoreResolved, Loaded, Unlock
<1>7. CASE Signal \/ Kill \/ Interrupt
  BY <1>7, Typed, SignalCommand DEF host, env, Signal, Hit, Kill, Interrupt, End
<1>8. CASE LoseLock \/ Repoint \/ Toggle \/ Reboot
  BY <1>8, Typed DEF host, env, LoseLock, Hit, Repoint, Toggle, Loaded, Reboot
<1> QED BY <1>1, <1>2, <1>3, <1>4, <1>5, <1>6, <1>7, <1>8, NextCases

\* A stop that begins or breaks off leaves the layers.
LEMMA LayersStop ==
    ASSUME TypeOK, LayersInv, Stop
    PROVE LayersInv'
<1>1. UNCHANGED mounts /\ pc' # "mount" /\ faults' \in {faults, faults + 1}
  BY StopBegins DEF host, env, Fails, Hit
<1> QED BY <1>1, Typed DEF LayersInv

\* Layers are paid for with faults.
LEMMA LayersStep ==
    ASSUME TypeOK, LayersInv, [Next]_vars
    PROVE  LayersInv'
<1> USE DEF LayersInv, Continues
<1>1. CASE UNCHANGED vars
  BY <1>1 DEF vars
<1>2. ASSUME NEW ext \in BOOLEAN, Start(ext) PROVE LayersInv'
  BY <1>2, Typed, StartBegins DEF host, env, Begins
<1>3. CASE EnsureTorReady \/ Label \/ StartTor \/ ApplyRules \/ DetectInterface \/ WriteDropin
  BY <1>3, Typed, SetResolved, SetLeft, LeftParts
     DEF host, env, EnsureTorReady, Goto, Raise, End, Broken, Label, Works, Fails,
      Hit, StartTor, ApplyRules, Abort, ApplyRulesTo, FlushRules, SessionTables, EmergencyTables,
      RaiseLeaving, DetectInterface, WriteDropin
<1>4. CASE RestartResolved \/ WriteOverlay \/ MountOverlay \/ UndoResolved \/ WriteLock \/ Supervise
  BY <1>4, Typed, SetResolved, SetTarget, ClearLayers, SetBackup, SetLeft, LeftParts, AddLayer
     DEF host, env,
      RestartResolved, Works, Fails, Hit, Loaded, WriteOverlay, MountOverlay, UndoResolved,
      RestoreResolved, Abort, WriteLock, Goto, Supervise, End
<1>5. CASE Stop
  BY <1>5, LayersStop
<1>6. CASE RestoreOnly
  BY <1>6, Typed, RestoreBegins DEF host, env, Begins
<1>7. CASE Lockdown
  BY <1>7, Typed DEF host, env, Lockdown, InsertDrop, SessionTables, EmergencyTables, Works, Fails, Hit,
      Goto
<1>8. CASE GracefulShutdown \/ StopTor \/ Unlabel
  BY <1>8, Typed, SetLeft, LeftParts
     DEF host, env, GracefulShutdown, MaybeDown, Works, Goto, StopTor, RaiseLeaving, Fails, Hit,
         Unlabel,
      Raise, End, Broken
<1>9. CASE Conntrack \/ Destroy \/ Umount \/ Unresolve \/ Unlock
  BY <1>9, Typed, SetLeft, LeftParts, SetLock, UmountStep
     DEF host, env, Conntrack, InsertDrop, SessionTables,
      EmergencyTables, Works, Fails, Hit, Goto, Raise, End, Broken, Destroy, FlushRules, AfterDestroy,
      RaiseLeaving, BackupTarget, Unresolve, BackupResolved, RestoreResolved, Loaded, Unlock
<1>10. CASE Signal \/ Kill \/ Interrupt
  BY <1>10, Typed, SignalCommand DEF host, env, Signal, Hit, Kill, Interrupt, End
<1>11. CASE LoseLock \/ Repoint \/ Toggle \/ Reboot
  BY <1>11, Typed DEF host, env, LoseLock, Hit, Repoint, Toggle, Loaded, Reboot
<1> QED BY <1>1, <1>2, <1>3, <1>4, <1>5, <1>6, <1>7, <1>8, <1>9, <1>10, <1>11, NextCases

\* Nothing takes the table away from do_stop before destroy_rules.
LEMMA HeldStep ==
    ASSUME TypeOK, PlaceInv, HeldInv, [Next]_vars
    PROVE  HeldInv'
<1> USE DEF PlaceInv, Unrecorded, HeldInv, DoStop, Continues
<1>1. CASE UNCHANGED vars
  BY <1>1 DEF vars
<1>2. ASSUME NEW ext \in BOOLEAN, Start(ext) PROVE HeldInv'
  BY <1>2, Typed, StartBegins DEF host, env, Begins
<1>3. CASE EnsureTorReady \/ Label \/ StartTor \/ ApplyRules \/ DetectInterface \/ WriteDropin
  BY <1>3, Typed, SetResolved, SetLeft, LeftParts
     DEF host, env, EnsureTorReady, Goto, Raise, End, Broken, Label, Works, Fails,
      Hit, StartTor, ApplyRules, Abort, ApplyRulesTo, FlushRules, SessionTables, EmergencyTables,
      RaiseLeaving, DetectInterface, WriteDropin
<1>4. CASE RestartResolved \/ WriteOverlay \/ MountOverlay \/ UndoResolved \/ WriteLock \/ Supervise
  BY <1>4, Typed, SetResolved, SetTarget, ClearLayers, SetBackup, SetLeft, LeftParts, AddLayer
     DEF host, env,
      RestartResolved, Works, Fails, Hit, Loaded, WriteOverlay, MountOverlay, UndoResolved,
      RestoreResolved, Abort, WriteLock, Goto, Supervise, End
<1>5. CASE Stop \/ RestoreOnly \/ Lockdown \/ GracefulShutdown \/ StopTor
  BY <1>5, Typed, StopBegins, RestoreBegins, SetLeft, LeftParts
     DEF host, env, Begins, Fails, Hit, Lockdown,
      InsertDrop, SessionTables, EmergencyTables, Works, Goto, GracefulShutdown, MaybeDown, StopTor,
      RaiseLeaving, Broken
<1>6. CASE Unlabel \/ Conntrack \/ Destroy \/ Umount \/ Unresolve \/ Unlock
  BY <1>6, Typed, SetLeft, LeftParts, SetLock, UmountStep
     DEF host, env, Unlabel, Works, Fails, Hit, Goto, Raise, End,
      Broken, Conntrack, InsertDrop, SessionTables, EmergencyTables, Destroy, FlushRules, AfterDestroy,
      RaiseLeaving, BackupTarget, Unresolve, BackupResolved, RestoreResolved, Loaded, Unlock
<1>7. CASE Signal \/ Kill \/ Interrupt
  BY <1>7, Typed, SignalCommand DEF host, env, Signal, Hit, Kill, Interrupt, End
<1>8. CASE LoseLock \/ Repoint \/ Toggle \/ Reboot
  BY <1>8, Typed DEF host, env, LoseLock, Hit, Repoint, Toggle, Loaded, Reboot
<1> QED BY <1>1, <1>2, <1>3, <1>4, <1>5, <1>6, <1>7, <1>8, NextCases

\* The teardown lockdown turns the rules of a recorded Tor into a block.
LEMMA RulesLockdown ==
    ASSUME TypeOK, PlaceInv, RulesInv, Lockdown
    PROVE RulesInv'
<1> USE DEF PlaceInv, RulesInv, Running, Unrecorded, Behind, Quiet, DoStop
<1>1. CASE UNCHANGED table /\ Fails
  BY <1>1 DEF Lockdown, Fails, Hit, Goto
<1>2. CASE table' = InsertDrop(table) /\ Works
  <2>1. table \in {"redirect", "lockdown"} => table' = "lockdown"
    BY <1>2 DEF InsertDrop, SessionTables, EmergencyTables
  <2>2. cmd.op \in Ops
    BY Typed, CommandTyped
  <2> QED BY <1>2, <2>1, <2>2, Typed DEF Lockdown, Goto, Works, env, Ops
<1> QED BY <1>1, <1>2 DEF Lockdown

\* A recorded managed Tor runs behind rules.
LEMMA RulesStep ==
    ASSUME TypeOK, PlaceInv, RulesInv, [Next]_vars
    PROVE  RulesInv'
<1> USE DEF PlaceInv, RulesInv, Running, Unrecorded, Behind, Quiet, DoStop, Continues
<1>1. CASE UNCHANGED vars
  BY <1>1 DEF vars
<1>2. ASSUME NEW ext \in BOOLEAN, Start(ext) PROVE RulesInv'
  BY <1>2, Typed, StartBegins DEF host, env, Begins
<1>3. CASE EnsureTorReady \/ Label \/ StartTor \/ ApplyRules \/ DetectInterface \/ WriteDropin
  BY <1>3, Typed, SetResolved, SetLeft, LeftParts
     DEF host, env, EnsureTorReady, Goto, Raise, End, Broken, Label, Works, Fails,
      Hit, StartTor, ApplyRules, Abort, ApplyRulesTo, FlushRules, SessionTables, EmergencyTables,
      RaiseLeaving, DetectInterface, WriteDropin
<1>4. CASE RestartResolved \/ WriteOverlay \/ MountOverlay \/ UndoResolved \/ WriteLock \/ Supervise
  BY <1>4, Typed, SetResolved, SetTarget, ClearLayers, SetBackup, SetLeft, LeftParts, AddLayer
     DEF host, env,
      RestartResolved, Works, Fails, Hit, Loaded, WriteOverlay, MountOverlay, UndoResolved,
      RestoreResolved, Abort, WriteLock, Goto, Supervise, End
<1>5. CASE Stop \/ RestoreOnly \/ GracefulShutdown \/ StopTor \/ Unlabel
  BY <1>5, Typed, StopBegins, RestoreBegins, SetLeft, LeftParts
     DEF host, env, Begins, Fails, Hit, GracefulShutdown, MaybeDown,
      Works, Goto, StopTor, RaiseLeaving, Unlabel, Raise, End, Broken
<1>6. CASE Lockdown
  BY <1>6, RulesLockdown
<1>7. CASE Conntrack \/ Destroy \/ Umount \/ Unresolve \/ Unlock
  BY <1>7, Typed, SetLeft, LeftParts, SetLock, UmountStep
     DEF host, env, Conntrack, InsertDrop, SessionTables,
      EmergencyTables, Works, Fails, Hit, Goto, Raise, End, Broken, Destroy, FlushRules, AfterDestroy,
      RaiseLeaving, BackupTarget, Unresolve, BackupResolved, RestoreResolved, Loaded, Unlock
<1>8. CASE Signal \/ Kill \/ Interrupt
  BY <1>8, Typed, SignalCommand DEF host, env, Signal, Hit, Kill, Interrupt, End
<1>9. CASE LoseLock \/ Repoint \/ Toggle \/ Reboot
  BY <1>9, Typed DEF host, env, LoseLock, Hit, Repoint, Toggle, Loaded, Reboot
<1> QED BY <1>1, <1>2, <1>3, <1>4, <1>5, <1>6, <1>7, <1>8, <1>9, NextCases

\* The residue of a host, part by part.
LEMMA ResidueParts ==
    ASSUME TypeOK
    PROVE  /\ "tor" \in Residue <=> tor = "on"
           /\ "table" \in Residue <=> table # "none"
           /\ "overlay" \in Residue <=> ~Unmounted
           /\ "resolver" \in Residue <=> ~DnsClean
           /\ "lock" \in Residue <=> lock # NoLock
BY Typed DEF Residue, Parts, Unmounted, DnsClean

\* A start answers for the parts that it did not find.
LEMMA CleanStart ==
    ASSUME TypeOK, PlaceInv, CleanInv, NEW ext \in BOOLEAN, Start(ext)
    PROVE CleanInv'
<1>1. CASE UNCHANGED <<pc, cmd>>
  <2>1. pc' = "idle"
    BY <1>1, StartBegins
  <2> QED BY <2>1 DEF CleanInv
<1>2. CASE /\ Begins("start", ext) /\ pc' = (IF ext THEN "rules" ELSE "detect")
           /\ lock = NoLock /\ PortsFree(ext)
  <2>1. UNCHANGED <<host, lock>>
    BY StartBegins
  <2>2. cmd'.left = Residue /\ cmd'.external = ext /\ cmd'.backup = "none" /\ cmd'.target \in Targets
    BY <1>2, Typed DEF Begins
  <2>3. /\ lock' = NoLock
        /\ "tor" \in cmd'.left \/ tor' # "on"
        /\ "table" \in cmd'.left \/ table' = "none"
        /\ "resolver" \in cmd'.left \/ DnsClean'
        /\ "overlay" \in cmd'.left \/ Unmounted'
    BY <1>2, <2>1, <2>2, ResidueParts DEF host, DnsClean, Unmounted
  <2>4. Unmounted' => Layers(cmd.target)'
    BY DEF Unmounted, Layers
  <2> QED BY <1>2, <2>2, <2>3, <2>4 DEF CleanInv, Unrecorded
<1> QED BY <1>1, <1>2, StartBegins

\* start mounts one layer, and remembers it or leaves it.
LEMMA CleanMount ==
    ASSUME TypeOK, PlaceInv, CleanInv, MountOverlay
    PROVE CleanInv'
<1> USE DEF CleanInv, PlaceInv, Unrecorded, Continues
<1>1. CASE /\ mounts' = [mounts EXCEPT ![cmd.target] = @ + 1] /\ Works
           /\ pc' = "record" /\ cmd' = [cmd EXCEPT !.backup = "dns"]
  <2>1. \A u \in Targets : mounts'[u] = IF u = cmd.target THEN mounts[u] + 1 ELSE mounts[u]
    BY <1>1, AddLayer
  <2>2. Unmounted => Layers(cmd.target)'
    BY <1>1, <2>1, Typed, SetBackup DEF Unmounted, Layers
  <2> QED BY <1>1, <2>2, Typed, SetBackup DEF MountOverlay, DnsClean
<1>2. CASE UNCHANGED mounts /\ Fails /\ pc' = "undo" /\ UNCHANGED cmd
  BY <1>2 DEF MountOverlay, DnsClean, Layers, Unmounted
<1>3. CASE pc' = "undo" /\ Leave({"overlay"})
  <2>1. pc = "mount" /\ cmd.op = "start"
    BY DEF MountOverlay
  <2>2. "overlay" \in cmd'.left /\ cmd.left \subseteq cmd'.left
    BY <1>3, <2>1, Typed, SetLeft, LeftParts
  <2> QED BY <1>3, <2>1, <2>2, Typed, SetLeft, LeftParts DEF MountOverlay, DnsClean
<1> QED BY <1>1, <1>2, <1>3 DEF MountOverlay

\* apply_dns undoes apply_resolved, or start leaves the resolver.
LEMMA CleanUndo ==
    ASSUME TypeOK, PlaceInv, CleanInv, UndoResolved
    PROVE CleanInv'
<1> USE DEF CleanInv, PlaceInv, Unrecorded, Continues
<1>1. pc = "undo" /\ cmd.op = "start" /\ pc' \in {"tor", "destroy"} /\ (cmd.external => pc' = "destroy")
  BY DEF UndoResolved, Abort
<1>2. cmd'.left = cmd.left \cup (IF faults' = faults THEN {} ELSE {"resolver"})
  BY <1>1, Typed, SetLeft, LeftParts DEF UndoResolved
<1>3. "resolver" \in cmd'.left \/ DnsClean'
  BY <1>1, <1>2, Typed DEF UndoResolved, RestoreResolved, Works, Fails, Hit, DnsClean
<1>4. UNCHANGED <<tor, table, mounts, lock>> /\ Continues /\ cmd'.target = cmd.target /\ cmd'.backup = cmd.backup
  BY <1>1, Typed, SetLeft, LeftParts DEF UndoResolved
<1> QED BY <1>1, <1>2, <1>3, <1>4 DEF Layers, Unmounted, UndoResolved, Abort

\* A start whose lock cannot be written cleans up, and leaves a lock that is there.
LEMMA CleanWriteLock ==
    ASSUME TypeOK, PlaceInv, CleanInv, WriteLock
    PROVE CleanInv'
<1> USE DEF CleanInv, PlaceInv, Unrecorded, Continues
<1>1. pc = "record" /\ cmd.op = "start" /\ UNCHANGED host
  BY DEF WriteLock
<1>2. CASE pc' = "supervise"
  BY <1>2
<1>3. CASE UNCHANGED <<lock, cmd>> /\ pc' = Abort
  BY <1>1, <1>3 DEF host, Abort, DnsClean, Layers, Unmounted
<1>4. CASE pc' = Abort /\ Leave({"lock"})
  <2>1. "lock" \in cmd'.left /\ cmd.left \subseteq cmd'.left
    BY <1>1, <1>4, Typed, SetLeft, LeftParts
  <2> QED BY <1>1, <1>4, <2>1, Typed, SetLeft, LeftParts DEF host, Abort, DnsClean, Layers, Unmounted
<1> QED BY <1>2, <1>3, <1>4 DEF WriteLock, Goto

\* The clean-up of a start stops the Tor it started.
LEMMA CleanStopTor ==
    ASSUME TypeOK, PlaceInv, CleanInv, StopTor
    PROVE CleanInv'
<1> USE DEF CleanInv, PlaceInv, Unrecorded, Continues
<1>1. CASE tor' = "off" /\ UNCHANGED cmd
  BY <1>1 DEF StopTor, Goto, RaiseLeaving, DnsClean, Layers, Unmounted, DoStop
<1>2. CASE Leave({"tor"}) /\ pc' = IF cmd.op \in DoStop THEN "unlabel" ELSE "destroy"
  <2>1. cmd.op = "start" => "tor" \in cmd'.left /\ cmd.left \subseteq cmd'.left
    BY <1>2, Typed, SetLeft, LeftParts
  <2> QED BY <1>2, <2>1, Typed, SetLeft, LeftParts DEF StopTor, DnsClean, Layers, Unmounted, DoStop
<1>3. CASE pc' = "idle"
  BY <1>3
<1> QED BY <1>1, <1>2, <1>3 DEF StopTor, Goto, RaiseLeaving

\* The clean-up of a start removes its table.
LEMMA CleanDestroy ==
    ASSUME TypeOK, PlaceInv, CleanInv, Destroy
    PROVE CleanInv'
<1> USE DEF CleanInv, PlaceInv, Unrecorded, Continues
<1>1. CASE table' = "none" /\ AfterDestroy /\ UNCHANGED lock
  <2>1. CASE cmd.op = "start"
    BY <1>1, <2>1, Typed, CommandTyped DEF AfterDestroy, Goto, End, Destroy, DnsClean, Layers, Unmounted
  <2>2. CASE cmd.op # "start"
    BY <1>1, <2>2, Typed, SetLock DEF AfterDestroy, Goto, End
  <2> QED BY <2>1, <2>2
<1>2. CASE RaiseLeaving(FromTable)
  BY <1>2 DEF RaiseLeaving
<1> QED BY <1>1, <1>2 DEF Destroy

\* The clean-up of a start takes away its only layer.
LEMMA CleanUmount ==
    ASSUME TypeOK, PlaceInv, CleanInv, Umount
    PROVE CleanInv'
<1> USE DEF CleanInv, PlaceInv, Unrecorded, Continues
<1>1. SUFFICES ASSUME cmd.op = "start", pc' = "unresolve" PROVE CleanInv'
  BY UmountStep DEF DoStop
<1>2. cmd.left \subseteq cmd'.left
  BY <1>1, UmountStep, Typed, SetLeft, LeftParts DEF DoStop
<1>3. "overlay" \in cmd'.left \/ Unmounted'
  BY <1>1, UmountStep, Typed, SetLeft, LeftParts DEF Unmounted, Layers, BackupTarget, DoStop
<1> QED BY <1>1, <1>2, <1>3, UmountStep DEF DnsClean, Layers, Unmounted

\* A start answers for everything it has changed and does not leave.
LEMMA CleanStep ==
    ASSUME TypeOK, PlaceInv, CleanInv, [Next]_vars
    PROVE  CleanInv'
<1> USE DEF PlaceInv, CleanInv, Unrecorded, DnsClean, Layers, Unmounted, Continues, NetworkRestored
<1>1. CASE UNCHANGED vars
  BY <1>1 DEF vars
<1>2. ASSUME NEW ext \in BOOLEAN, Start(ext) PROVE CleanInv'
  BY <1>2, CleanStart
<1>3. CASE EnsureTorReady \/ Label \/ StartTor \/ ApplyRules \/ DetectInterface \/ WriteDropin
  BY <1>3, Typed, SetResolved, SetLeft, LeftParts
     DEF host, env, EnsureTorReady, Goto, Raise, End, Broken, Label, Works, Fails,
      Hit, StartTor, ApplyRules, Abort, ApplyRulesTo, FlushRules, SessionTables, EmergencyTables,
      RaiseLeaving, DetectInterface, WriteDropin
<1>4. CASE RestartResolved
  BY <1>4, Typed, SetResolved DEF host, env, RestartResolved, Works, Fails, Hit, Loaded
<1>5. CASE WriteOverlay
  BY <1>5, Typed, SetTarget, ClearLayers DEF host, env, WriteOverlay, Works, Fails, Hit
<1>6. CASE MountOverlay
  BY <1>6, CleanMount
<1>7. CASE UndoResolved \/ WriteLock \/ Supervise
  BY <1>7, CleanUndo, CleanWriteLock DEF Supervise, End
<1>8. CASE Stop \/ RestoreOnly \/ Lockdown \/ GracefulShutdown
  BY <1>8, Typed, StopBegins, RestoreBegins DEF host, env, Begins, Fails, Hit, Lockdown, InsertDrop,
      SessionTables, EmergencyTables, Works, Goto, GracefulShutdown, MaybeDown
<1>9. CASE StopTor
  BY <1>9, CleanStopTor
<1>10. CASE Unlabel \/ Conntrack \/ Unresolve \/ Unlock
  <2>1. cmd.op # "start" \/ pc = "unresolve"
    BY <1>10 DEF Unlabel, Conntrack, Unresolve, Unlock
  <2>2. cmd.op = "start" => pc' = "idle"
    BY <1>10, <2>1 DEF Unlabel, Conntrack, Unresolve, Unlock
  <2>3. cmd'.op = cmd.op
    BY <1>10, Typed, SetLeft, LeftParts DEF Unlabel, Goto, Raise, End, Conntrack, Unresolve, Unlock
  <2> QED BY <2>2, <2>3
<1>11. CASE Destroy
  BY <1>11, CleanDestroy
<1>12. CASE Umount
  BY <1>12, CleanUmount
<1>13. CASE Signal \/ Kill \/ Interrupt
  BY <1>13, Typed, SignalCommand DEF host, env, Signal, Hit, Kill, Interrupt, End
<1>14. CASE LoseLock \/ Repoint \/ Toggle \/ Reboot
  BY <1>14, Typed DEF host, env, LoseLock, Hit, Repoint, Toggle, Loaded, Reboot
<1> QED BY <1>1, <1>2, <1>3, <1>4, <1>5, <1>6, <1>7, <1>8, <1>9, <1>10, <1>11, <1>12, <1>13, <1>14,
    NextCases

\* write_lock records exactly what has been done to DNS.
LEMMA UncutWriteLock ==
    ASSUME TypeOK, PlaceInv, UncutInv, WriteLock
    PROVE UncutInv'
<1> USE DEF PlaceInv, UncutInv, Unrecorded, Quiet
<1>1. CASE Fails
  BY <1>1 DEF Fails, Hit
<1>2. CASE ~Fails
  <2>1. /\ pc = "record" /\ pc' = "supervise" /\ UNCHANGED <<cmd, env, host>>
        /\ lock' = [session |-> TRUE, external |-> cmd.external, target |-> cmd.target, resolved |-> cmd.resolved]
    BY <1>2 DEF WriteLock, Works, Goto
  <2>2. lock' # NoLock /\ lock'.target = cmd.target /\ lock'.resolved = cmd.resolved
    <3>1. lock'.session /\ ~NoLock.session
      BY <2>1 DEF NoLock
    <3> QED BY <2>1, <3>1
  <2>3. seen' = seen /\ mounts' = mounts /\ dropin' = dropin /\ resolver' = resolver
    BY <2>1 DEF env, host
  <2> QED BY <2>1, <2>2, <2>3 DEF Takes, DnsClean, Layers
<1> QED BY <1>1, <1>2

\* Without an interruption, the lock accounts for all DNS changes.
LEMMA UncutStep ==
    ASSUME TypeOK, PlaceInv, RulesInv, TeardownInv, UncutInv, [Next]_vars
    PROVE  UncutInv'
<1> USE DEF PlaceInv, RulesInv, TeardownInv, UncutInv, Takes, Unrecorded, Behind, Quiet, Traceable,
          DoStop,
    Continues, DnsClean, Layers, Unmounted, NetworkRestored
<1>1. CASE UNCHANGED vars
  BY <1>1 DEF vars
<1>2. ASSUME NEW ext \in BOOLEAN, Start(ext) PROVE UncutInv'
  BY <1>2, Typed, StartBegins DEF host, env, Begins
<1>3. CASE EnsureTorReady \/ Label \/ StartTor \/ ApplyRules \/ DetectInterface \/ WriteDropin
  BY <1>3, Typed, SetResolved, SetLeft, LeftParts
     DEF host, env, EnsureTorReady, Goto, Raise, End, Broken, Label, Works, Fails,
      Hit, StartTor, ApplyRules, Abort, ApplyRulesTo, FlushRules, SessionTables, EmergencyTables,
      RaiseLeaving, DetectInterface, WriteDropin
<1>4. CASE RestartResolved
  BY <1>4, Typed, SetResolved DEF host, env, RestartResolved, Works, Fails, Hit, Loaded
<1>5. CASE WriteOverlay
  BY <1>5, Typed, SetTarget, ClearLayers DEF host, env, WriteOverlay, Works, Fails, Hit
<1>6. CASE MountOverlay \/ UndoResolved \/ Supervise
  BY <1>6, Typed, SetBackup, SetLeft, LeftParts, AddLayer
     DEF host, env, MountOverlay, Works, Fails, Hit,
      UndoResolved, RestoreResolved, Abort, Loaded, Supervise, End
<1>7. CASE WriteLock
  BY <1>7, UncutWriteLock
<1>8. CASE Stop \/ RestoreOnly
  BY <1>8, Typed, StopBegins, RestoreBegins DEF host, env, Begins, Fails, Hit
<1>9. CASE Lockdown \/ GracefulShutdown \/ StopTor
  BY <1>9, Typed, SetLeft, LeftParts
     DEF host, env, Lockdown, InsertDrop, SessionTables, EmergencyTables, Works,
      Fails, Hit, Goto, GracefulShutdown, MaybeDown, StopTor, RaiseLeaving, Broken
<1>10. CASE Unlabel \/ Conntrack \/ Destroy
  BY <1>10, Typed, SetLeft, LeftParts, SetLock
     DEF host, env, Unlabel, Works, Fails, Hit, Goto, Raise, End, Broken,
      Conntrack, InsertDrop, SessionTables, EmergencyTables, Destroy, FlushRules, AfterDestroy, RaiseLeaving
<1>11. CASE Umount
  BY <1>11, Typed, UmountStep DEF host, env, BackupTarget, Works, Fails, Hit, Goto, RaiseLeaving, Broken
<1>12. CASE Unresolve \/ Unlock
  BY <1>12, Typed, SetLeft, LeftParts
     DEF host, env, Unresolve, BackupResolved, RestoreResolved, Works, Fails, Hit,
      Loaded, Unlock, End
<1>13. CASE Signal \/ Kill \/ Interrupt
  BY <1>13, Typed, SignalCommand DEF host, env, Signal, Hit, Kill, Interrupt, End
<1>14. CASE LoseLock \/ Repoint \/ Toggle \/ Reboot
  BY <1>14, Typed DEF host, env, LoseLock, Hit, Repoint, Toggle, Loaded, Reboot
<1> QED BY <1>1, <1>2, <1>3, <1>4, <1>5, <1>6, <1>7, <1>8, <1>9, <1>10, <1>11, <1>12, <1>13, <1>14,
    NextCases

\* restore_resolved answers for the lock that the command has read.
LEMMA FixedUnresolve ==
    ASSUME TypeOK, PlaceInv, FixedInv, Unresolve
    PROVE FixedInv'
<1> USE DEF PlaceInv, FixedInv, Unrecorded, Behind, Quiet, Layers
<1>1. CASE ~Quiet'
  BY <1>1
<1>2. CASE Quiet'
  <2>1. Quiet /\ ~Fails /\ cmd.op # "start" /\ cmd.op \in Ops
    BY <1>2, Typed, CommandTyped DEF Unresolve, RestoreResolved, Works, Fails, Hit, env
  <2>2. /\ pc = "unresolve" /\ pc' = "unlock" /\ UNCHANGED <<tor, labels, table, mounts, link, lock, out, env>>
        /\ cmd'.lock = cmd.lock
        /\ \/ BackupResolved /\ dropin' = FALSE /\ resolver' = "host"
           \/ UNCHANGED <<dropin, resolver>>
    <3>1. cmd'.lock = cmd.lock
      BY Typed, SetLeft, LeftParts DEF Unresolve
    <3> QED BY <2>1, <3>1 DEF Unresolve, RestoreResolved, Works
  <2>3. lock \in {NoLock, cmd.lock}
    BY <2>1, <2>2 DEF DoStop, Ops
  <2> QED BY <2>1, <2>2, <2>3 DEF env, BackupResolved
<1> QED BY <1>1, <1>2

\* On a host whose DNS set-up stays as it is, residue is where the next command looks.
LEMMA FixedStep ==
    ASSUME TypeOK, PlaceInv, RulesInv, FixedInv, [Next]_vars
    PROVE  FixedInv'
<1> USE DEF PlaceInv, RulesInv, FixedInv, Unrecorded, Behind, Quiet, DoStop, Continues, Layers
<1>1. CASE UNCHANGED vars
  BY <1>1 DEF vars
<1>2. ASSUME NEW ext \in BOOLEAN, Start(ext) PROVE FixedInv'
  BY <1>2, Typed, StartBegins DEF host, env, Begins
<1>3. CASE EnsureTorReady \/ Label \/ StartTor \/ ApplyRules \/ DetectInterface \/ WriteDropin
  BY <1>3, Typed, SetResolved, SetLeft, LeftParts
     DEF host, env, EnsureTorReady, Goto, Raise, End, Broken, Label, Works, Fails,
      Hit, StartTor, ApplyRules, Abort, ApplyRulesTo, FlushRules, SessionTables, EmergencyTables,
      RaiseLeaving, DetectInterface, WriteDropin
<1>4. CASE RestartResolved
  BY <1>4, Typed, SetResolved DEF host, env, RestartResolved, Works, Fails, Hit, Loaded
<1>5. CASE WriteOverlay \/ MountOverlay
  BY <1>5, Typed, SetTarget, ClearLayers, SetBackup, SetLeft, LeftParts, AddLayer
     DEF host, env, WriteOverlay, Works,
      Fails, Hit, MountOverlay
<1>6. CASE UndoResolved \/ WriteLock \/ Supervise
  BY <1>6, Typed, SetLeft, LeftParts
     DEF host, env, UndoResolved, RestoreResolved, Works, Fails, Hit, Abort, Loaded,
      WriteLock, Goto, Supervise, End
<1>7. CASE Stop \/ RestoreOnly \/ Lockdown \/ GracefulShutdown \/ StopTor
  BY <1>7, Typed, StopBegins, RestoreBegins, SetLeft, LeftParts
     DEF host, env, Begins, Fails, Hit, Lockdown,
      InsertDrop, SessionTables, EmergencyTables, Works, Goto, GracefulShutdown, MaybeDown, StopTor,
      RaiseLeaving, Broken
<1>8. CASE Unlabel \/ Conntrack \/ Destroy \/ Umount \/ Unlock
  BY <1>8, Typed, SetLeft, LeftParts, SetLock, UmountStep
     DEF host, env, Unlabel, Works, Fails, Hit, Goto, Raise, End,
      Broken, Conntrack, InsertDrop, SessionTables, EmergencyTables, Destroy, FlushRules, AfterDestroy,
      RaiseLeaving, BackupTarget, Unlock
<1>9. CASE Unresolve
  BY <1>9, FixedUnresolve
<1>10. CASE Signal \/ Kill \/ Interrupt
  BY <1>10, Typed, SignalCommand DEF host, env, Signal, Hit, Kill, Interrupt, End
<1>11. CASE LoseLock \/ Repoint \/ Toggle \/ Reboot
  BY <1>11, Typed DEF host, env, LoseLock, Hit, Repoint, Toggle, Loaded, Reboot
<1> QED BY <1>1, <1>2, <1>3, <1>4, <1>5, <1>6, <1>7, <1>8, <1>9, <1>10, <1>11, NextCases

\* A teardown undoes one resource after the other.
LEMMA TeardownStep ==
    ASSUME TypeOK, PlaceInv, TeardownInv, UncutInv, FixedInv, [Next]_vars
    PROVE  TeardownInv'
<1> USE DEF PlaceInv, TeardownInv, UncutInv, FixedInv, Takes, Unrecorded, Behind, Quiet, Traceable,
          DoStop,
    Continues, DnsClean, Layers, Unmounted, NetworkRestored
<1>1. CASE UNCHANGED vars
  BY <1>1 DEF vars
<1>2. ASSUME NEW ext \in BOOLEAN, Start(ext) PROVE TeardownInv'
  BY <1>2, Typed, StartBegins DEF host, env, Begins
<1>3. CASE EnsureTorReady \/ Label \/ StartTor \/ ApplyRules \/ DetectInterface \/ WriteDropin
  BY <1>3, Typed, SetResolved, SetLeft, LeftParts
     DEF host, env, EnsureTorReady, Goto, Raise, End, Broken, Label, Works, Fails,
      Hit, StartTor, ApplyRules, Abort, ApplyRulesTo, FlushRules, SessionTables, EmergencyTables,
      RaiseLeaving, DetectInterface, WriteDropin
<1>4. CASE RestartResolved \/ WriteOverlay \/ MountOverlay \/ UndoResolved \/ WriteLock \/ Supervise
  BY <1>4, Typed, SetResolved, SetTarget, ClearLayers, SetBackup, SetLeft, LeftParts, AddLayer
     DEF host, env,
      RestartResolved, Works, Fails, Hit, Loaded, WriteOverlay, MountOverlay, UndoResolved,
      RestoreResolved, Abort, WriteLock, Goto, Supervise, End
<1>5. CASE Stop \/ RestoreOnly \/ Lockdown \/ GracefulShutdown \/ StopTor
  BY <1>5, Typed, StopBegins, RestoreBegins, SetLeft, LeftParts
     DEF host, env, Begins, Fails, Hit, Lockdown,
      InsertDrop, SessionTables, EmergencyTables, Works, Goto, GracefulShutdown, MaybeDown, StopTor,
      RaiseLeaving, Broken
<1>6. CASE Unlabel \/ Conntrack \/ Destroy
  BY <1>6, Typed, SetLeft, LeftParts, SetLock
     DEF host, env, Unlabel, Works, Fails, Hit, Goto, Raise, End, Broken,
      Conntrack, InsertDrop, SessionTables, EmergencyTables, Destroy, FlushRules, AfterDestroy, RaiseLeaving
<1>7. CASE Umount
  BY <1>7, Typed, UmountStep DEF host, env, BackupTarget, Works, Fails, Hit, Goto, RaiseLeaving, Broken
<1>8. CASE Unresolve \/ Unlock
  BY <1>8, Typed, SetLeft, LeftParts
     DEF host, env, Unresolve, BackupResolved, RestoreResolved, Works, Fails, Hit,
      Loaded, Unlock, End
<1>9. CASE Signal \/ Kill \/ Interrupt
  BY <1>9, Typed, SignalCommand DEF host, env, Signal, Hit, Kill, Interrupt, End
<1>10. CASE LoseLock \/ Repoint \/ Toggle \/ Reboot
  BY <1>10, Typed DEF host, env, LoseLock, Hit, Repoint, Toggle, Loaded, Reboot
<1> QED BY <1>1, <1>2, <1>3, <1>4, <1>5, <1>6, <1>7, <1>8, <1>9, <1>10, NextCases

--------------------------------------------------------------------------------
(* The properties *)

\* The lock goes last, when the network is the host's again.
LEMMA RestoresUnlock ==
    ASSUME TypeOK, PlaceInv, TeardownInv, StopRestores, Unlock
    PROVE StopRestores'
<1>1. cmd.op \in Ops
  BY Typed, CommandTyped
<1> QED BY <1>1, Typed
          
                 DEF StopRestores, PlaceInv, TeardownInv, Unlock, End, host, env, Behind, Quiet,
                     Traceable, DoStop,
               DnsClean, Unmounted, NetworkRestored, Ops

\* A finished stop has restored the network.
LEMMA RestoresStep ==
    ASSUME TypeOK, PlaceInv, TeardownInv, UncutInv, StopRestores, [Next]_vars
    PROVE  StopRestores'
<1> USE DEF PlaceInv, StopRestores, TeardownInv, UncutInv, Behind, Unrecorded, Quiet, Traceable, DoStop,
    Continues, DnsClean, Unmounted, NetworkRestored
<1>1. CASE UNCHANGED vars
  BY <1>1 DEF vars
<1>2. ASSUME NEW ext \in BOOLEAN, Start(ext) PROVE StopRestores'
  BY <1>2, Typed, StartBegins DEF host, env, Begins
<1>3. CASE EnsureTorReady \/ Label \/ StartTor \/ ApplyRules \/ DetectInterface \/ WriteDropin
  BY <1>3, Typed, SetResolved, SetLeft, LeftParts
     DEF host, env, EnsureTorReady, Goto, Raise, End, Broken, Label, Works, Fails,
      Hit, StartTor, ApplyRules, Abort, ApplyRulesTo, FlushRules, SessionTables, EmergencyTables,
      RaiseLeaving, DetectInterface, WriteDropin
<1>4. CASE RestartResolved \/ WriteOverlay \/ MountOverlay \/ UndoResolved \/ WriteLock \/ Supervise
  BY <1>4, Typed, SetResolved, SetTarget, ClearLayers, SetBackup, SetLeft, LeftParts, AddLayer
     DEF host, env,
      RestartResolved, Works, Fails, Hit, Loaded, WriteOverlay, MountOverlay, UndoResolved,
      RestoreResolved, Abort, WriteLock, Goto, Supervise, End
<1>5. CASE Stop \/ RestoreOnly \/ Lockdown \/ GracefulShutdown \/ StopTor
  BY <1>5, Typed, StopBegins, RestoreBegins, SetLeft, LeftParts
     DEF host, env, Begins, Fails, Hit, Lockdown,
      InsertDrop, SessionTables, EmergencyTables, Works, Goto, GracefulShutdown, MaybeDown, StopTor,
      RaiseLeaving, Broken
<1>6. CASE Unlabel \/ Conntrack \/ Destroy \/ Umount \/ Unresolve
  BY <1>6, Typed, SetLeft, LeftParts, SetLock, UmountStep
     DEF host, env, Unlabel, Works, Fails, Hit, Goto, Raise, End,
      Broken, Conntrack, InsertDrop, SessionTables, EmergencyTables, Destroy, FlushRules, AfterDestroy,
      RaiseLeaving, BackupTarget, Unresolve, BackupResolved, RestoreResolved, Loaded
<1>7. CASE Unlock
  BY <1>7, RestoresUnlock
<1>8. CASE Signal \/ Kill \/ Interrupt
  BY <1>8, Typed, SignalCommand DEF host, env, Signal, Hit, Kill, Interrupt, End
<1>9. CASE LoseLock \/ Repoint \/ Toggle \/ Reboot
  BY <1>9, Typed DEF host, env, LoseLock, Hit, Repoint, Toggle, Loaded, Reboot
<1> QED BY <1>1, <1>2, <1>3, <1>4, <1>5, <1>6, <1>7, <1>8, <1>9, NextCases

\* The last step of the clean-up of a start leaves what the start has left.
LEMMA FailedUnresolve ==
    ASSUME TypeOK, PlaceInv, CleanInv, FailedStartIsClean, Unresolve
    PROVE FailedStartIsClean'
<1> USE DEF PlaceInv, CleanInv, FailedStartIsClean
<1>1. SUFFICES ASSUME cmd.op = "start" PROVE (Residue \subseteq cmd.left)'
  BY Typed, SetLeft, LeftParts DEF Unresolve, Continues
<1>2. cmd'.left = cmd.left \cup (IF faults' = faults THEN {} ELSE {"resolver"})
  BY <1>1, Typed, SetLeft, LeftParts DEF Unresolve
<1>3. "resolver" \in cmd'.left \/ DnsClean'
  BY <1>1, <1>2, Typed DEF Unresolve, BackupResolved, RestoreResolved, Works, Fails, Hit, DnsClean
<1> QED BY <1>1, <1>2, <1>3 DEF Unresolve, Residue, DnsClean, Unmounted, Unrecorded

\* A start that fails while it sets up the host.
LEMMA FailedSetUp ==
    ASSUME TypeOK, PlaceInv, CleanInv, FailedStartIsClean,
           EnsureTorReady \/ Label \/ StartTor \/ ApplyRules \/ DetectInterface \/ WriteDropin
    PROVE  FailedStartIsClean'
<1> USE DEF PlaceInv, CleanInv, FailedStartIsClean, Residue, Parts, DnsClean, Unmounted, Unrecorded
<1>1. CASE EnsureTorReady \/ Label \/ StartTor \/ WriteDropin
  BY <1>1, Typed, SetResolved
     DEF host, EnsureTorReady, Goto, Raise, End, Broken, Label, StartTor, WriteDropin
<1>2. CASE Goto(Abort) \/ Goto("route") \/ Goto("resolved")
  BY <1>2 DEF Goto, Abort
<1>3. CASE (ApplyRules \/ DetectInterface) /\ RaiseLeaving(Started)
  <2>1. cmd.op = "start" /\ UNCHANGED <<tor, dropin, resolver, mounts, lock>>
    BY <1>3 DEF ApplyRules, DetectInterface, host
  <2>2. cmd'.left = cmd.left \cup Started
    BY <1>3, <2>1, Typed, SetLeft, LeftParts DEF RaiseLeaving
  <2>3. "table" \in cmd'.left /\ ("tor" \in cmd'.left \/ tor # "on")
    BY <1>3, <2>2 DEF Started, ApplyRules, DetectInterface
  <2> QED BY <1>3, <2>1, <2>2, <2>3 DEF ApplyRules, DetectInterface
<1> QED BY <1>1, <1>2, <1>3 DEF ApplyRules, DetectInterface

\* What is up on the host behind the Tor of a start that cleans up is what the rest
\* of the clean-up takes away, or what the start has left.
LEMMA FromTableDown ==
    ASSUME TypeOK, CleanInv, cmd.op = "start", pc \in {"tor", "destroy"}
    PROVE  /\ "table" \in FromTable
           /\ "lock" \in cmd.left \/ lock = NoLock
           /\ pc = "destroy" => "tor" \in cmd.left \/ tor # "on"
           /\ "resolver" \in cmd.left \cup FromTable \/ DnsClean
           /\ "overlay" \in cmd.left \cup FromTable \/ Unmounted
<1>1. cmd.backup \in {"none", "dns"}
  BY Typed, CommandTyped
<1>2. CASE cmd.backup = "none"
  BY <1>2 DEF CleanInv, FromTable
<1>3. CASE cmd.backup = "dns"
  BY <1>3 DEF CleanInv, FromTable
<1> QED BY <1>1, <1>2, <1>3

\* A start whose clean-up fails.
LEMMA FailedTearDown ==
    ASSUME TypeOK, PlaceInv, CleanInv, FailedStartIsClean,
           StopTor \/ Unlabel \/ Conntrack \/ Destroy \/ Umount \/ Unlock
    PROVE  FailedStartIsClean'
<1> USE DEF PlaceInv, CleanInv, FailedStartIsClean, Residue, Parts, DnsClean, Unmounted, Unrecorded,
          Continues
<1>1. CASE StopTor
  <2>1. CASE pc' # "idle"
    BY <2>1
  <2>2. CASE pc' = "idle" /\ cmd.op = "start"
    <3>1. pc = "tor" /\ RaiseLeaving({"tor"} \cup FromTable) /\ UNCHANGED <<table, dropin, resolver, mounts, lock>>
      BY <1>1, <2>2 DEF StopTor, Goto, DoStop
    <3>2. cmd'.left = cmd.left \cup ({"tor"} \cup FromTable)
      BY <2>2, <3>1, Typed, SetLeft, LeftParts DEF RaiseLeaving
    <3> QED BY <2>2, <3>1, <3>2, FromTableDown
  <2>3. CASE cmd.op # "start"
    BY <1>1, <2>3, Typed, SetLeft, LeftParts DEF StopTor, Goto, RaiseLeaving, Broken, DoStop
  <2> QED BY <2>1, <2>2, <2>3
<1>2. CASE Destroy
  <2>1. CASE AfterDestroy /\ table' = "none" /\ UNCHANGED lock
    BY <1>2, <2>1, Typed, SetLock DEF Destroy, AfterDestroy, Goto, End
  <2>2. CASE RaiseLeaving(FromTable) /\ cmd.op = "start"
    <3>1. cmd'.left = cmd.left \cup FromTable
      BY <2>2, Typed, SetLeft, LeftParts DEF RaiseLeaving
    <3>2. pc = "destroy" /\ UNCHANGED <<tor, dropin, resolver, mounts, lock>>
      BY <1>2, <2>2 DEF Destroy, DoStop
    <3> QED BY <2>2, <3>1, <3>2, FromTableDown
  <2>3. CASE RaiseLeaving(FromTable) /\ cmd.op # "start"
    BY <2>3, Typed, SetLeft, LeftParts DEF RaiseLeaving, Broken
  <2> QED BY <1>2, <2>1, <2>2, <2>3 DEF Destroy
<1>3. CASE Umount
  <2>1. CASE pc' # "idle"
    BY <2>1
  <2>2. CASE pc' = "idle" /\ cmd.op = "start"
    <3>1. cmd'.left = cmd.left \cup {"overlay", "resolver"}
      BY <1>3, <2>2, UmountStep, Typed, SetLeft, LeftParts DEF DoStop
    <3> QED BY <1>3, <2>2, <3>1, UmountStep
  <2>3. CASE pc' = "idle" /\ cmd.op # "start"
    BY <1>3, <2>3, UmountStep DEF Broken
  <2> QED BY <2>1, <2>2, <2>3
<1>4. CASE Unlabel \/ Conntrack \/ Unlock
  BY <1>4 DEF Unlabel, Goto, Raise, End, Broken, Conntrack, Unlock
<1> QED BY <1>1, <1>2, <1>3, <1>4

\* A start that fails leaves what it has given up.
LEMMA FailedStep ==
    ASSUME TypeOK, PlaceInv, CleanInv, FailedStartIsClean, [Next]_vars
    PROVE  FailedStartIsClean'
<1> USE DEF PlaceInv, CleanInv, FailedStartIsClean, Residue, Parts, DnsClean, Unmounted, Unrecorded,
    Continues, DoStop, Quiet
<1>1. CASE UNCHANGED vars
  BY <1>1 DEF vars
<1>2. ASSUME NEW ext \in BOOLEAN, Start(ext) PROVE FailedStartIsClean'
  BY <1>2, Typed, StartBegins DEF host, env, Begins
<1>3. CASE EnsureTorReady \/ Label \/ StartTor \/ ApplyRules \/ DetectInterface \/ WriteDropin
  BY <1>3, FailedSetUp
<1>4. CASE RestartResolved \/ WriteOverlay \/ MountOverlay \/ UndoResolved \/ WriteLock \/ Supervise
  BY <1>4, Typed, SetResolved, SetTarget, ClearLayers, SetBackup, SetLeft, LeftParts, AddLayer
     DEF host, env,
      RestartResolved, Works, Fails, Hit, Loaded, WriteOverlay, MountOverlay, UndoResolved,
      RestoreResolved, Abort, WriteLock, Goto, Supervise, End
<1>5. CASE Stop \/ RestoreOnly \/ Lockdown \/ GracefulShutdown
  BY <1>5, Typed, StopBegins, RestoreBegins
     DEF host, env, Begins, Fails, Hit, Lockdown, Goto, GracefulShutdown
<1>6. CASE StopTor \/ Unlabel \/ Conntrack \/ Destroy \/ Umount \/ Unlock
  BY <1>6, FailedTearDown
<1>7. CASE Unresolve
  BY <1>7, FailedUnresolve
<1>8. CASE Signal \/ Kill \/ Interrupt
  BY <1>8, Typed, SignalCommand DEF host, env, Signal, Hit, Kill, Interrupt, End
<1>9. CASE LoseLock \/ Repoint \/ Toggle \/ Reboot
  BY <1>9, Typed DEF host, env, LoseLock, Hit, Repoint, Toggle, Loaded, Reboot
<1> QED BY <1>1, <1>2, <1>3, <1>4, <1>5, <1>6, <1>7, <1>8, <1>9, NextCases

\* A do_stop that is over has not left the lock without its table.
LEMMA LockStep ==
    ASSUME TypeOK, PlaceInv, HeldInv, TeardownInv, LockGoesWithTable, [Next]_vars
    PROVE  LockGoesWithTable'
<1> USE DEF PlaceInv, HeldInv, TeardownInv, LockGoesWithTable, Unrecorded, Behind, DoStop, Continues
<1>1. CASE UNCHANGED vars
  BY <1>1 DEF vars
<1>2. ASSUME NEW ext \in BOOLEAN, Start(ext) PROVE LockGoesWithTable'
  BY <1>2, Typed, StartBegins DEF host, env, Begins
<1>3. CASE EnsureTorReady \/ Label \/ StartTor \/ ApplyRules \/ DetectInterface \/ WriteDropin
  BY <1>3, Typed, SetResolved, SetLeft, LeftParts
     DEF host, env, EnsureTorReady, Goto, Raise, End, Broken, Label, Works, Fails,
      Hit, StartTor, ApplyRules, Abort, ApplyRulesTo, FlushRules, SessionTables, EmergencyTables,
      RaiseLeaving, DetectInterface, WriteDropin
<1>4. CASE RestartResolved \/ WriteOverlay \/ MountOverlay \/ UndoResolved \/ WriteLock \/ Supervise
  BY <1>4, Typed, SetResolved, SetTarget, ClearLayers, SetBackup, SetLeft, LeftParts, AddLayer
     DEF host, env,
      RestartResolved, Works, Fails, Hit, Loaded, WriteOverlay, MountOverlay, UndoResolved,
      RestoreResolved, Abort, WriteLock, Goto, Supervise, End
<1>5. CASE Stop \/ RestoreOnly \/ Lockdown \/ GracefulShutdown \/ StopTor
  BY <1>5, Typed, StopBegins, RestoreBegins, SetLeft, LeftParts
     DEF host, env, Begins, Fails, Hit, Lockdown,
      InsertDrop, SessionTables, EmergencyTables, Works, Goto, GracefulShutdown, MaybeDown, StopTor,
      RaiseLeaving, Broken
<1>6. CASE Unlabel \/ Conntrack \/ Destroy \/ Umount \/ Unresolve \/ Unlock
  BY <1>6, Typed, SetLeft, LeftParts, SetLock, UmountStep
     DEF host, env, Unlabel, Works, Fails, Hit, Goto, Raise, End,
      Broken, Conntrack, InsertDrop, SessionTables, EmergencyTables, Destroy, FlushRules, AfterDestroy,
      RaiseLeaving, BackupTarget, Unresolve, BackupResolved, RestoreResolved, Loaded, Unlock
<1>7. CASE Signal \/ Kill \/ Interrupt
  BY <1>7, Typed, SignalCommand DEF host, env, Signal, Hit, Kill, Interrupt, End
<1>8. CASE LoseLock \/ Repoint \/ Toggle \/ Reboot
  BY <1>8, Typed DEF host, env, LoseLock, Hit, Repoint, Toggle, Loaded, Reboot
<1> QED BY <1>1, <1>2, <1>3, <1>4, <1>5, <1>6, <1>7, <1>8, NextCases

\* The invariant holds of a host without a session.
LEMMA InitLifecycle == Init => LifecycleInv
<1> SUFFICES ASSUME Init PROVE LifecycleInv
  OBVIOUS
<1>1. MaxFaults \in Nat
  BY LifecycleBounds
<1>2. cmd \in Commands
  BY DEF Init, Commands, Ops
<1>3. TypeOK
  <2>1. PlacesTyped
    BY DEF Init, PlacesTyped, Pcs
  <2>2. labels \in BOOLEAN /\ dropin \in BOOLEAN
    BY Zenon DEF Init
  <2>3. mounts \in [Targets -> 0 .. MaxFaults + 1] /\ faults \in 0 .. MaxFaults /\ seen \subseteq Faults
    BY <1>1 DEF Init
  <2> QED BY <1>2, <2>1, <2>2, <2>3 DEF Init, TypeOK
<1>4. PlaceInv /\ LayersInv /\ HeldInv /\ RulesInv /\ CleanInv
  BY DEF Init, PlaceInv, Unrecorded, DoStop, LayersInv, HeldInv, RulesInv, Running, CleanInv
<1>5. UncutInv /\ FixedInv /\ TeardownInv
  BY
     DEF Init, UncutInv, FixedInv, TeardownInv, Unrecorded, Behind, DnsClean, Layers, Unmounted,
         NetworkRestored
<1>6. StopRestores /\ FailedStartIsClean /\ LockGoesWithTable
  BY DEF Init, StopRestores, FailedStartIsClean, LockGoesWithTable, DoStop
<1> QED BY <1>3, <1>4, <1>5, <1>6 DEF LifecycleInv

\* Every step keeps it.
LEMMA NextLifecycle == LifecycleInv /\ [Next]_vars => LifecycleInv'
BY TypeStep, PlaceStep, LayersStep, HeldStep, RulesStep, CleanStep, UncutStep, FixedStep, TeardownStep,
   RestoresStep, FailedStep, LockStep DEF LifecycleInv

\* The inductive invariant of the lifecycle: where every command is, whose lock it
\* holds, and which of the session's changes are still on the host.
THEOREM Accounting == Spec => []LifecycleInv
BY InitLifecycle, NextLifecycle, PTL DEF Spec

\* A stop, restore-only or signal that found the lock and met no failing program
\* gives the host its network back, whatever was killed, interrupted or lost
\* before (do_stop, stop_command, restore_dns).
THEOREM NetworkComesBack == Spec => []StopRestores
<1>1. LifecycleInv => StopRestores
  BY DEF LifecycleInv
<1> QED BY <1>1, Accounting, PTL

\* Whatever fails in a start and in its clean-up, the start leaves only the parts that
\* FailedStartIsClean lists (the except clauses of start_command, apply_dns and
\* apply_resolved).
THEOREM FailedStartsAreClean == Spec => []FailedStartIsClean
<1>1. LifecycleInv => FailedStartIsClean
  BY DEF LifecycleInv
<1> QED BY <1>1, Accounting, PTL

\* No do_stop ends with the table gone and the lock still there (the finally
\* clause of do_stop).
THEOREM LockFollowsTable == Spec => []LockGoesWithTable
<1>1. LifecycleInv => LockGoesWithTable
  BY DEF LifecycleInv
<1> QED BY <1>1, Accounting, PTL

\* These steps alone take a running Tor down.
LEMMA TorGoes ==
    ASSUME [Next]_vars, tor = "on", tor' # "on"
    PROVE  StartTor \/ GracefulShutdown \/ StopTor \/ Reboot
<1> USE DEF vars, host, Begin, Refuse
<1>1. CASE UNCHANGED vars \/ \E ext \in BOOLEAN : Start(ext)
  BY <1>1 DEF Start
<1>2. CASE EnsureTorReady \/ Label \/ ApplyRules \/ DetectInterface \/ WriteDropin \/ RestartResolved
           \/ WriteOverlay \/ MountOverlay \/ UndoResolved \/ WriteLock \/ Supervise
  BY <1>2, Zenon
     DEF EnsureTorReady, Label, ApplyRules, DetectInterface, WriteDropin, RestartResolved, WriteOverlay,
        MountOverlay, UndoResolved, WriteLock, Supervise
<1>3. CASE Stop \/ RestoreOnly \/ Lockdown \/ Unlabel \/ Conntrack \/ Destroy \/ Umount \/ Unresolve
           \/ Unlock
  BY <1>3, Zenon DEF Stop, RestoreOnly, Lockdown, Unlabel, Conntrack, Destroy, Umount, Unresolve, Unlock
<1>4. CASE Signal \/ Kill \/ Interrupt \/ LoseLock \/ Repoint \/ Toggle
  BY <1>4, Zenon DEF Signal, Kill, Interrupt, LoseLock, Repoint, Toggle
<1> QED BY <1>1, <1>2, <1>3, <1>4, NextCases

\* The managed Tor of a recorded session goes down only behind rules that let
\* nothing out, and in do_stop only behind the lockdown (do_stop, stop_command,
\* graceful_shutdown).
THEOREM TorGoesBehindRules == Spec => TorLeavesBehindRules
<1> DEFINE Guarded ==
        tor = "on" /\ tor' # "on" /\ lock # NoLock /\ ~lock.external /\ "fail" \notin seen /\ out' # "rebooted"
            => ~Cleartext(table) /\ (cmd.op \in DoStop => table = "lockdown")
<1>1. LifecycleInv /\ [Next]_vars => Guarded
  <2> SUFFICES ASSUME LifecycleInv, [Next]_vars, tor = "on", tor' # "on", lock # NoLock, ~lock.external,
                      "fail" \notin seen, out' # "rebooted"
               PROVE  ~Cleartext(table) /\ (cmd.op \in DoStop => table = "lockdown")
    OBVIOUS
  <2>1. PlaceInv /\ RulesInv
    BY DEF LifecycleInv
  <2>2. pc \in {"shutdown", "tor"}
    BY <2>1, TorGoes
       DEF StartTor, GracefulShutdown, MaybeDown, StopTor, RaiseLeaving, Broken, Reboot, PlaceInv,
           Unrecorded
  <2> QED BY <2>1, <2>2 DEF RulesInv, Running, Quiet, Cleartext
<1>2. LifecycleInv /\ [Next]_vars => [Guarded]_vars
  BY <1>1
<1> QED BY <1>2, Accounting, PTL DEF Spec, TorLeavesBehindRules

================================================================================
