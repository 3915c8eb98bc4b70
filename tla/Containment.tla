------------------------------ MODULE Containment ------------------------------
(***************************************************************************)
(* What the safety subsystem promises, without its files, its flock and    *)
(* its processes: a session that was recorded and not explicitly           *)
(* terminated is never without protection, unless its own start reported   *)
(* that it failed; it may be contained at any time, its alarm and its      *)
(* containment stay until the termination, and nothing is contained for a  *)
(* session that was terminated or replaced, except by stragglers:          *)
(* termination handlers that systemd started for a session and that come   *)
(* to act after it. They may block, never open.                            *)
(*                                                                         *)
(* SessionSafety implements this specification (KeepsPromise there).       *)
(***************************************************************************)
CONSTANTS
    Sessions,      \* the session identities that may ever be drawn
    NoSession,     \* the absence of an identity
    Stragglers     \* whether termination handlers may outlive their session

VARIABLES
    net,           \* what happens to the traffic of an ordinary process:
                   \* "clear", "tor", "blocked", or "held" by the killswitch
    current,       \* the recorded session
    pending,       \* the sessions that are recorded and whose start is not sure yet
    stopped,       \* the sessions whose explicit termination was published
    abandoned,     \* the others whose start failed after recording them
    alarms         \* the sessions with an emergency on record

vars == <<net, current, pending, stopped, abandoned, alarms>>

Nets == {"clear", "tor", "blocked", "held"}

TypeOK ==
    /\ net \in Nets
    /\ current \in Sessions \cup {NoSession}
    /\ pending \subseteq Sessions
    /\ stopped \subseteq Sessions
    /\ abandoned \subseteq Sessions
    /\ alarms \subseteq Sessions

Init ==
    /\ net = "clear"
    /\ current = NoSession
    /\ pending = {}
    /\ stopped = {}
    /\ abandoned = {}
    /\ alarms = {}

\* A recorded session can be alarmed, contained and terminated, also one whose start
\* failed.
Recorded == current \notin stopped \cup {NoSession}

\* A session is owed protection from its record to its termination, or until its own
\* start gives it up.
Owed == Recorded /\ current \notin abandoned

\* ttp start and ttp stop rework the network of a host that is owed nothing; a start
\* that gave up its session undoes what it built.
Rework ==
    /\ ~Owed
    /\ net' \in Nets \ {"held"}
    /\ UNCHANGED <<current, pending, stopped, abandoned, alarms>>

\* A new session is recorded on top of its redirection; a straggler may have
\* replaced that.
Record(s) ==
    /\ current = NoSession
    /\ s \notin stopped \cup abandoned \cup alarms
    /\ net = "tor" \/ (net = "held" /\ Stragglers)
    /\ current' = s
    /\ pending' = pending \cup {s}
    /\ UNCHANGED <<net, stopped, abandoned, alarms>>

\* The start of a session is sure of its record, or was killed: from here on only a
\* termination gives the session up.
Settle(s) ==
    /\ s \in pending
    /\ pending' = pending \ {s}
    /\ UNCHANGED <<net, current, stopped, abandoned, alarms>>

\* Or it fails after recording the session, and says so.
Abandon(s) ==
    /\ s \in pending
    /\ pending' = pending \ {s}
    /\ abandoned' = abandoned \cup ({s} \ stopped)
    /\ UNCHANGED <<net, current, stopped, alarms>>

\* A late update writes the record of a terminated session back.
Relic(s) ==
    /\ current = NoSession
    /\ s \in stopped
    /\ current' = s
    /\ UNCHANGED <<net, pending, stopped, abandoned, alarms>>

Raise ==
    /\ Recorded
    /\ alarms' = alarms \cup {current}
    /\ UNCHANGED <<net, current, pending, stopped, abandoned>>

Contain ==
    /\ Recorded
    /\ net' = "held"
    /\ UNCHANGED <<current, pending, stopped, abandoned, alarms>>

Terminate ==
    /\ Recorded
    /\ stopped' = stopped \cup {current}
    /\ abandoned' = abandoned \ {current}
    /\ UNCHANGED <<net, current, pending, alarms>>

\* The record of a terminated session is removed.
Remove ==
    /\ current \in stopped
    /\ current' = NoSession
    /\ UNCHANGED <<net, pending, stopped, abandoned, alarms>>

\* The handler of a terminated session still raises its alarm, or contains
\* whatever the host has come to.
Straggle(s) ==
    /\ Stragglers
    /\ s \in stopped
    /\ \/ alarms' = alarms \cup {s} /\ UNCHANGED net
       \/ net' = "held" /\ UNCHANGED alarms
    /\ UNCHANGED <<current, pending, stopped, abandoned>>

Next ==
    \/ Rework \/ Raise \/ Contain \/ Terminate \/ Remove
    \/ \E s \in Sessions : Record(s) \/ Settle(s) \/ Abandon(s) \/ Relic(s) \/ Straggle(s)

Spec == Init /\ [][Next]_vars

--------------------------------------------------------------------------------
(* Consequences of the promise *)

\* A session that is owed protection never has its traffic in cleartext.
Sheltered == Owed => net # "clear"

\* A killswitch in force is only lifted once its session was terminated or given up.
HeldStep == Owed /\ net = "held" => net' = "held"

Held == [][HeldStep]_vars
================================================================================
