------------------------------ MODULE Notifications ------------------------------
(***************************************************************************)
(* Desktop notifications of one session: the publishers (commands and the  *)
(* supervisor) of notifications/service.py, the unprivileged agent with    *)
(* its single-threaded accept loop, its retries and its memory of the last *)
(* receipt, and the desktop's notification server.                         *)
(*                                                                         *)
(* A waiting publisher gives up after delivery_timeout, a fire-and-forget  *)
(* one (request_emergency, the supervisor) after 0.2 seconds; the agent    *)
(* may answer later, or die in between and be started again by systemd.    *)
(* The server may accept a call whose answer is lost. It is assumed to     *)
(* follow its protocol: an answer that is no acceptance means none.        *)
(***************************************************************************)
EXTENDS Naturals, Sequences

CONSTANTS
    Publishers,
    Events,      \* notifications.protocol.EVENTS
    Attempts,    \* settings.notifications.attempts
    Backlog,     \* connections that wait to be accepted
    MaxCalls,    \* bound on the calls each publisher makes
    MaxStarts    \* StartLimitBurst of ttp-notify.service

ASSUME NotificationBounds ==
    /\ {Attempts, Backlog, MaxCalls, MaxStarts} \subseteq Nat \ {0}
    /\ "none" \notin Events

VARIABLES
    pub,        \* what each publisher is doing, and the receipt of its last call
    queue,      \* connections the agent has not accepted, with their request
    pc,         \* the agent: down, accept, deliver or reply
    cur,        \* the request the agent works on
    tries,      \* attempts made for it
    ambiguous,  \* some attempt may have been accepted
    last,       \* last_event and last_receipt
    starts,     \* starts of the agent's unit
    accepted,   \* events the server has accepted, confirmed to the agent or not
    landed      \* calls, as <<publisher, number>>, the server accepted an attempt of

agent  == <<pc, cur, tries, ambiguous, last, starts>>
server == <<accepted, landed>>
vars   == <<pub, queue, pc, cur, tries, ambiguous, last, starts, accepted, landed>>

States   == {"pending", "accepted", "unconfirmed", "failed"}
Receipts == [state : States, event : Events \cup {"none"}]
NoEvent  == [state |-> "pending", event |-> "none"]

\* operation notify with and without waiting, and status.
Operations == {"wait", "async", "status"}
Activities == [pc : {"idle", "connect", "waiting"}, op : Operations, event : Events \cup {"none"},
               call : 0 .. MaxCalls, receipt : Receipts]
Requests   == [by : Publishers, call : 1 .. MaxCalls, op : Operations, event : Events \cup {"none"}]

TypeOK ==
    /\ pub \in [Publishers -> Activities]
    /\ queue \in Seq(Requests) /\ Len(queue) <= Backlog
    /\ pc \in {"down", "accept", "deliver", "reply"}
    /\ pc \in {"deliver", "reply"} => cur \in Requests
    /\ tries \in 0 .. Attempts
    /\ ambiguous \in BOOLEAN
    /\ last \in Receipts
    /\ starts \in 0 .. MaxStarts
    /\ accepted \subseteq Events
    /\ landed \subseteq Publishers \X (1 .. MaxCalls)

Init ==
    /\ pub = [p \in Publishers |-> [pc |-> "idle", op |-> "status", event |-> "none", call |-> 0, receipt |-> NoEvent]]
    /\ queue = <<>>
    /\ pc = "down"
    /\ cur = NoEvent
    /\ tries = 0 /\ ambiguous = FALSE
    /\ last = NoEvent
    /\ starts = 0
    /\ accepted = {} /\ landed = {}

----------------------------------------------------------------------------
(* Publishers: emit and rpc *)

Returns(p, state, event) ==
    [pub[p] EXCEPT !.pc = "idle", !.receipt = [state |-> state, event |-> event]]

\* emit(event), emit(event, wait=False) or rpc("status").
Call(p, op, e) ==
    /\ pub[p].pc = "idle" /\ pub[p].call < MaxCalls
    /\ (op = "status") = (e = "none")
    /\ pub' = [pub EXCEPT ![p] = [pc |-> "connect", op |-> op, event |-> e, call |-> @.call + 1,
                                  receipt |-> NoEvent]]
    /\ UNCHANGED <<queue, agent, server>>

\* observe_session reports a failed status call as unconfirmed, emit as failed.
Unavailable(p) == IF pub[p].op = "status" THEN "unconfirmed" ELSE "failed"

\* rpc: the request is queued on the agent's socket. Without the agent the
\* socket refuses; with a full backlog connect waits.
Connect(p) ==
    /\ pub[p].pc = "connect"
    /\ \/ /\ pc = "down"
          /\ pub' = [pub EXCEPT ![p] = Returns(p, Unavailable(p), "none")]
          /\ UNCHANGED queue
       \/ /\ pc # "down" /\ Len(queue) < Backlog
          /\ queue' = Append(queue, [by |-> p, call |-> pub[p].call, op |-> pub[p].op, event |-> pub[p].event])
          /\ pub' = [pub EXCEPT ![p] = IF @.op = "async" THEN Returns(p, "pending", @.event)
                                                          ELSE [@ EXCEPT !.pc = "waiting"]]
    /\ UNCHANGED <<agent, server>>

\* TimeoutError in connect or recv: the agent may still work on the request.
TimeOut(p) ==
    /\ \/ pub[p].pc = "connect" /\ Len(queue) = Backlog
       \/ pub[p].pc = "waiting"
    /\ pub' = [pub EXCEPT ![p] = Returns(p, "unconfirmed", "none")]
    /\ UNCHANGED <<queue, agent, server>>

----------------------------------------------------------------------------
(* The agent *)

\* systemd starts the unit; run_agent leaves it failed when the notification
\* server does not answer check_server, and binds a fresh socket otherwise.
Boot ==
    /\ pc = "down" /\ starts < MaxStarts
    /\ starts' = starts + 1
    /\ pc' \in {"down", "accept"}
    /\ last' = NoEvent
    /\ UNCHANGED <<pub, queue, cur, tries, ambiguous, server>>

\* Faulty variant: a repeated event is answered with the last receipt whatever
\* the last event was.
AcceptRepeated ==
    /\ pc = "accept" /\ queue # <<>>
    /\ cur' = Head(queue) /\ queue' = Tail(queue)
    /\ pc' = IF cur'.op = "status" \/ last.state = "accepted" THEN "reply" ELSE "deliver"
    /\ last' = IF last.state = "accepted" THEN [last EXCEPT !.event = cur'.event] ELSE last
    /\ tries' = 0 /\ ambiguous' = FALSE
    /\ UNCHANGED <<pub, starts, server>>

\* The accept loop and the head of Delivery.deliver: status and an event that
\* was accepted last time are answered from memory.
Accept ==
    /\ pc = "accept" /\ queue # <<>>
    /\ cur' = Head(queue) /\ queue' = Tail(queue)
    /\ pc' = IF cur'.op = "status" \/ last = [state |-> "accepted", event |-> cur'.event]
             THEN "reply" ELSE "deliver"
    /\ tries' = 0 /\ ambiguous' = FALSE
    /\ UNCHANGED <<pub, last, starts, server>>

ServerAccepts ==
    /\ accepted' = accepted \cup {cur.event}
    /\ landed' = landed \cup {<<cur.by, cur.call>>}

\* Faulty variant: a lost answer is taken for a refusal.
NotifySure ==
    /\ pc = "deliver" /\ tries < Attempts
    /\ tries' = tries + 1
    /\ \/ ServerAccepts /\ pc' = "reply" /\ last' = [state |-> "accepted", event |-> cur.event]
       \/ ServerAccepts /\ UNCHANGED <<pc, last>>
       \/ UNCHANGED <<server, pc, last>>
    /\ UNCHANGED <<pub, queue, cur, ambiguous, starts>>

\* One attempt of deliver: accepted with an identifier; accepted or not, and
\* the answer timed out or busctl reported an error; or an unusable answer.
Notify ==
    /\ pc = "deliver" /\ tries < Attempts
    /\ tries' = tries + 1
    /\ \/ /\ ServerAccepts
          /\ pc' = "reply" /\ last' = [state |-> "accepted", event |-> cur.event]
          /\ UNCHANGED ambiguous
       \/ (ServerAccepts \/ UNCHANGED server) /\ ambiguous' = TRUE /\ UNCHANGED <<pc, last>>
       \/ UNCHANGED <<server, ambiguous, pc, last>>
    /\ UNCHANGED <<pub, queue, cur, starts>>

\* The attempts are used up, or delivery_timeout has passed after one of them.
GiveUp ==
    /\ pc = "deliver" /\ tries > 0
    /\ pc' = "reply"
    /\ last' = [state |-> IF ambiguous THEN "unconfirmed" ELSE "failed", event |-> cur.event]
    /\ UNCHANGED <<pub, queue, cur, tries, ambiguous, starts, server>>

\* The publisher still waits on the connection of this request.
Waits(r) == pub[r.by].pc = "waiting" /\ pub[r.by].call = r.call

\* send: a publisher that has gone is a broken pipe, which is ignored.
Reply ==
    /\ pc = "reply"
    /\ pc' = "accept"
    /\ pub' = IF Waits(cur) THEN [pub EXCEPT ![cur.by] = Returns(cur.by, last.state, last.event)] ELSE pub
    /\ cur' = NoEvent /\ tries' = 0 /\ ambiguous' = FALSE
    /\ UNCHANGED <<queue, last, starts, server>>

\* The agent dies. Its peers read an empty message or a reset connection:
\* emit reports failed, observe_session unconfirmed.
Die ==
    /\ pc # "down"
    /\ pc' = "down"
    /\ queue' = <<>>
    /\ pub' = [p \in Publishers |-> IF pub[p].pc = "waiting" THEN Returns(p, Unavailable(p), "none") ELSE pub[p]]
    /\ cur' = NoEvent /\ tries' = 0 /\ ambiguous' = FALSE /\ last' = NoEvent
    /\ UNCHANGED <<starts, server>>

----------------------------------------------------------------------------

Publish(p) == Connect(p) \/ TimeOut(p)

AgentStep == Accept \/ Notify \/ GiveUp \/ Reply

Next ==
    \/ \E p \in Publishers : Publish(p) \/ \E op \in Operations, e \in Events \cup {"none"} : Call(p, op, e)
    \/ AgentStep \/ Boot \/ Die

Spec == Init /\ [][Next]_vars

----------------------------------------------------------------------------
(* Properties *)

\* A publisher that reports acceptance of its event, or of the last one for
\* status, speaks of an event the server has accepted in this session, however
\* late, repeated or restarted the agent was (rpc, deliver's deduplication).
AcceptedIsTrue ==
    \A p \in Publishers : pub[p].receipt.state = "accepted" =>
        /\ pub[p].receipt.event \in accepted
        /\ pub[p].op # "status" => pub[p].receipt.event = pub[p].event

\* The agent's own verdict failed means that no attempt reached the user: a lost
\* answer is unconfirmed (the ambiguous flag of deliver).
FailedIsHonest ==
    pc = "reply" /\ cur.op # "status" /\ last.state = "failed" => <<cur.by, cur.call>> \notin landed

----------------------------------------------------------------------------
(* The inductive invariant *)

Working == pc \in {"deliver", "reply"}
Id(r)   == <<r.by, r.call>>

\* A request is of its publisher's present call, and then says what that publisher
\* asked, or of an earlier one it has given up.
Known(r) ==
    /\ r.call <= pub[r.by].call
    /\ r.call = pub[r.by].call => /\ pub[r.by].pc # "connect"
                                  /\ r.op = pub[r.by].op /\ r.event = pub[r.by].event
    /\ r.op = "status" <=> r.event = "none"

CallsInv ==
    /\ \A p \in Publishers : pub[p].pc # "idle" =>
          pub[p].call > 0 /\ (pub[p].op = "status" <=> pub[p].event = "none")
    /\ \A i \in 1 .. Len(queue) : Known(queue[i])
    /\ Working => Known(cur)
    /\ \A p \in Publishers, c \in 1 .. MaxCalls : <<p, c>> \in landed =>
          c <= pub[p].call /\ (pub[p].pc = "connect" => c < pub[p].call)

\* No call is queued twice, or queued after an attempt of it was accepted; and an
\* accepted attempt of the present request is known or suspected.
OnceInv ==
    /\ \A i, j \in 1 .. Len(queue) : Id(queue[i]) = Id(queue[j]) => i = j
    /\ \A i \in 1 .. Len(queue) : Id(queue[i]) \notin landed /\ (Working => Id(queue[i]) # Id(cur))
    /\ pc = "deliver" /\ ~ambiguous => Id(cur) \notin landed

\* The agent's memory is true, and at a reply it is about the request.
MemoryInv ==
    /\ last.state = "accepted" => last.event \in accepted
    /\ pc = "deliver" => cur.op # "status"
    /\ pc = "reply" /\ cur.op # "status" => last.event = cur.event

NotificationsInv == TypeOK /\ CallsInv /\ OnceInv /\ MemoryInv /\ AcceptedIsTrue /\ FailedIsHonest

----------------------------------------------------------------------------
(* A statement of the documentation that the code does not keep *)

\* A publisher that reports failed, not unconfirmed, tells of an event that was
\* not delivered (emit).
FailedMeansUndelivered ==
    \A p \in Publishers :
        pub[p].pc = "idle" /\ pub[p].op = "wait" /\ pub[p].receipt.state = "failed"
            => <<p, pub[p].call>> \notin landed

================================================================================
