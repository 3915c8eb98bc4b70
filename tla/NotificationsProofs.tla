-------------------------- MODULE NotificationsProofs --------------------------
(***************************************************************************)
(* What publishers are told about their notifications is true, for every   *)
(* number of publishers, events, attempts, calls and restarts.             *)
(***************************************************************************)
EXTENDS Notifications, TLAPS

\* A publisher that returns keeps what it asked.
LEMMA ReturnsTyped ==
    ASSUME TypeOK, NEW p \in Publishers, NEW state \in States, NEW event \in Events \cup {"none"}
    PROVE  /\ Returns(p, state, event) \in Activities
           /\ Returns(p, state, event).pc = "idle"
           /\ Returns(p, state, event).op = pub[p].op
           /\ Returns(p, state, event).event = pub[p].event
           /\ Returns(p, state, event).call = pub[p].call
           /\ Returns(p, state, event).receipt = [state |-> state, event |-> event]
<1>1. PICK a \in Activities : a = pub[p]
  BY DEF TypeOK
<1>2. PICK r \in Receipts : r = [state |-> state, event |-> event]
  BY DEF Receipts
<1>3. Returns(p, state, event) = [a EXCEPT !.pc = "idle", !.receipt = r]
  BY <1>1, <1>2, Zenon DEF Returns
<1> DEFINE b == [a EXCEPT !.pc = "idle", !.receipt = r]
<1>4. /\ b \in Activities /\ b.pc = "idle" /\ b.op = a.op /\ b.event = a.event
      /\ b.call = a.call /\ b.receipt = r
  BY DEF Activities
<1> HIDE DEF b
<1>5. Returns(p, state, event) = b
  BY <1>3 DEF b
<1> QED BY <1>1, <1>2, <1>4, <1>5

\* The fields of a publisher.
LEMMA PublisherTyped ==
    ASSUME TypeOK, NEW p \in Publishers
    PROVE  /\ pub[p].pc \in {"idle", "connect", "waiting"} /\ pub[p].op \in Operations
           /\ pub[p].event \in Events \cup {"none"} /\ pub[p].call \in 0 .. MaxCalls
           /\ pub[p].receipt \in Receipts
BY DEF TypeOK, Activities

\* An answer from memory is a receipt.
LEMMA MemoryTyped ==
    ASSUME TypeOK
    PROVE  last.state \in States /\ last.event \in Events \cup {"none"}
BY DEF TypeOK, Receipts

\* What a publisher's step does to it, and that it does nothing to the others.
LEMMA CallStep ==
    ASSUME TypeOK, NEW p \in Publishers, NEW op \in Operations, NEW e \in Events \cup {"none"}, Call(p, op, e)
    PROVE  /\ pub' \in [Publishers -> Activities]
           /\ \A q \in Publishers \ {p} : pub'[q] = pub[q]
           /\ pub'[p].pc = "connect" /\ pub'[p].op = op /\ pub'[p].event = e
           /\ pub'[p].call = pub[p].call + 1 /\ pub'[p].receipt = NoEvent
           /\ op = "status" <=> e = "none"
           /\ pub[p].pc = "idle" /\ UNCHANGED <<queue, agent, server>>
<1>1. pub[p].call \in Nat /\ pub[p].call < MaxCalls /\ MaxCalls \in Nat
  BY PublisherTyped, NotificationBounds DEF Call
<1>2. [pc |-> "connect", op |-> op, event |-> e, call |-> pub[p].call + 1, receipt |-> NoEvent] \in Activities
  BY <1>1 DEF Activities, Receipts, NoEvent, States
<1> QED BY <1>1, <1>2 DEF TypeOK, Call

\* rpc fails, waits for its answer, or has handed its request over.
LEMMA ConnectStep ==
    ASSUME TypeOK, NEW p \in Publishers, Connect(p)
    PROVE  /\ pub' \in [Publishers -> Activities]
           /\ \A q \in Publishers \ {p} : pub'[q] = pub[q]
           /\ pub[p].pc = "connect" /\ pub'[p].pc \in {"idle", "waiting"}
           /\ pub'[p].op = pub[p].op /\ pub'[p].event = pub[p].event /\ pub'[p].call = pub[p].call
           /\ \/ pub'[p].receipt = pub[p].receipt
              \/ pub'[p].receipt.state # "accepted"
           /\ \/ UNCHANGED queue
              \/ /\ Len(queue) < Backlog
                 /\ queue' = Append(queue, [by |-> p, call |-> pub[p].call, op |-> pub[p].op, event |-> pub[p].event])
           /\ UNCHANGED <<agent, server>>
<1>1. pub[p].pc = "connect" /\ UNCHANGED <<agent, server>>
  BY DEF Connect
<1>2. CASE pub' = [pub EXCEPT ![p] = Returns(p, Unavailable(p), "none")] /\ UNCHANGED queue
  <2>1. Unavailable(p) \in States /\ Unavailable(p) # "accepted"
    BY DEF Unavailable, States
  <2>2. Returns(p, Unavailable(p), "none") \in Activities
    BY <2>1, ReturnsTyped
  <2>3. pub'[p] = Returns(p, Unavailable(p), "none")
    BY <1>2 DEF TypeOK
  <2>4. [state |-> Unavailable(p), event |-> "none"].state = Unavailable(p)
    OBVIOUS
  <2>5. pub' \in [Publishers -> Activities] /\ \A q \in Publishers \ {p} : pub'[q] = pub[q]
    BY <1>2, <2>2 DEF TypeOK
  <2>6. /\ pub'[p].pc = "idle" /\ pub'[p].op = pub[p].op /\ pub'[p].event = pub[p].event
        /\ pub'[p].call = pub[p].call
        /\ pub'[p].receipt = [state |-> Unavailable(p), event |-> "none"]
    BY <2>1, <2>3, ReturnsTyped
  <2>7. pub'[p].receipt.state # "accepted"
    BY <2>1, <2>4, <2>6
  <2> QED BY <1>1, <1>2, <2>5, <2>6, <2>7
<1>3. CASE /\ Len(queue) < Backlog
           /\ queue' = Append(queue, [by |-> p, call |-> pub[p].call, op |-> pub[p].op, event |-> pub[p].event])
           /\ pub' = [pub EXCEPT ![p] = IF @.op = "async" THEN Returns(p, "pending", @.event)
                                                          ELSE [@ EXCEPT !.pc = "waiting"]]
  <2>1. CASE pub[p].op = "async"
    <3>1. pub'[p] = Returns(p, "pending", pub[p].event)
      BY <1>3, <2>1 DEF TypeOK
    <3>2. pub[p].event \in Events \cup {"none"} /\ "pending" \in States
      BY PublisherTyped DEF States
    <3>3. Returns(p, "pending", pub[p].event) \in Activities
      BY <3>2, ReturnsTyped
    <3>4. [state |-> "pending", event |-> pub[p].event].state = "pending"
      OBVIOUS
    <3> QED BY <1>1, <1>3, <2>1, <3>1, <3>2, <3>3, <3>4, ReturnsTyped DEF TypeOK
  <2>2. CASE pub[p].op # "async"
    <3>1. pub'[p] = [pub[p] EXCEPT !.pc = "waiting"]
      BY <1>3, <2>2 DEF TypeOK
    <3>2. /\ pub'[p] \in Activities /\ pub'[p].pc = "waiting" /\ pub'[p].op = pub[p].op
          /\ pub'[p].event = pub[p].event /\ pub'[p].call = pub[p].call
          /\ pub'[p].receipt = pub[p].receipt
      BY <3>1, ZenonT(30) DEF TypeOK, Activities
    <3> QED BY <1>1, <1>3, <3>2 DEF TypeOK
  <2> QED BY <2>1, <2>2
<1> QED BY <1>2, <1>3 DEF Connect

\* A publisher that gives up says that nothing is confirmed.
LEMMA TimeOutStep ==
    ASSUME TypeOK, NEW p \in Publishers, TimeOut(p)
    PROVE  /\ pub' \in [Publishers -> Activities]
           /\ \A q \in Publishers \ {p} : pub'[q] = pub[q]
           /\ pub'[p].pc = "idle" /\ pub'[p].op = pub[p].op /\ pub'[p].event = pub[p].event
           /\ pub'[p].call = pub[p].call /\ pub'[p].receipt.state # "accepted"
           /\ UNCHANGED <<queue, agent, server>>
<1>1. pub'[p] = Returns(p, "unconfirmed", "none") /\ "unconfirmed" \in States
  BY DEF TypeOK, TimeOut, States
<1>2. [state |-> "unconfirmed", event |-> "none"].state = "unconfirmed"
  OBVIOUS
<1>3. Returns(p, "unconfirmed", "none") \in Activities
  BY <1>1, ReturnsTyped
<1>4. pub' \in [Publishers -> Activities] /\ \A q \in Publishers \ {p} : pub'[q] = pub[q]
  BY <1>3 DEF TypeOK, TimeOut
<1>5. UNCHANGED <<queue, agent, server>>
  BY DEF TimeOut
<1>6. /\ pub'[p].pc = "idle" /\ pub'[p].op = pub[p].op /\ pub'[p].event = pub[p].event
      /\ pub'[p].call = pub[p].call
      /\ pub'[p].receipt = [state |-> "unconfirmed", event |-> "none"]
  BY <1>1, ReturnsTyped
<1> QED BY <1>2, <1>4, <1>5, <1>6

\* A reply changes only the publisher that waits for it, and repeats the memory.
LEMMA ReplyStep ==
    ASSUME TypeOK, Reply
    PROVE  /\ pub' \in [Publishers -> Activities]
           /\ \A q \in Publishers :
                 /\ pub'[q].pc \in {pub[q].pc, "idle"} /\ pub'[q].op = pub[q].op
                 /\ pub'[q].event = pub[q].event /\ pub'[q].call = pub[q].call
                 /\ \/ pub'[q].receipt = pub[q].receipt
                    \/ /\ q = cur.by /\ Waits(cur)
                       /\ pub'[q].receipt = [state |-> last.state, event |-> last.event]
<1>1. cur \in Requests /\ cur.by \in Publishers
  BY DEF TypeOK, Reply, Requests
<1>2. CASE Waits(cur)
  <2>1. pub' = [pub EXCEPT ![cur.by] = Returns(cur.by, last.state, last.event)]
    BY <1>2 DEF Reply
  <2>2. Returns(cur.by, last.state, last.event) \in Activities
    BY <1>1, MemoryTyped, ReturnsTyped
  <2>3. pub' \in [Publishers -> Activities] /\ \A q \in Publishers \ {cur.by} : pub'[q] = pub[q]
    BY <2>1, <2>2 DEF TypeOK
  <2>4. pub'[cur.by] = Returns(cur.by, last.state, last.event)
    BY <1>1, <2>1 DEF TypeOK
  <2>5. /\ pub'[cur.by].pc = "idle" /\ pub'[cur.by].op = pub[cur.by].op
        /\ pub'[cur.by].event = pub[cur.by].event /\ pub'[cur.by].call = pub[cur.by].call
        /\ pub'[cur.by].receipt = [state |-> last.state, event |-> last.event]
    BY <1>1, <2>4, MemoryTyped, ReturnsTyped
  <2> QED BY <1>2, <2>3, <2>5
<1>3. CASE ~Waits(cur)
  BY <1>3 DEF TypeOK, Reply
<1> QED BY <1>2, <1>3

\* The death of the agent confirms nothing to anybody.
LEMMA DieStep ==
    ASSUME TypeOK, Die
    PROVE  /\ pub' \in [Publishers -> Activities]
           /\ \A q \in Publishers :
                 /\ pub'[q].pc \in {pub[q].pc, "idle"} /\ pub'[q].op = pub[q].op
                 /\ pub'[q].event = pub[q].event /\ pub'[q].call = pub[q].call
                 /\ \/ pub'[q].receipt = pub[q].receipt
                    \/ pub'[q].receipt.state # "accepted"
<1>1. pub' = [p \in Publishers |-> IF pub[p].pc = "waiting" THEN Returns(p, Unavailable(p), "none") ELSE pub[p]]
  BY DEF Die
<1>2. ASSUME NEW q \in Publishers
      PROVE  /\ pub'[q] \in Activities
             /\ pub'[q].pc \in {pub[q].pc, "idle"} /\ pub'[q].op = pub[q].op
             /\ pub'[q].event = pub[q].event /\ pub'[q].call = pub[q].call
             /\ \/ pub'[q].receipt = pub[q].receipt
                \/ pub'[q].receipt.state # "accepted"
  <2>1. CASE pub[q].pc = "waiting"
    <3>1. pub'[q] = Returns(q, Unavailable(q), "none")
      BY <1>1, <2>1
    <3>2. Unavailable(q) \in States /\ Unavailable(q) # "accepted"
      BY DEF Unavailable, States
    <3>3. /\ pub'[q] \in Activities /\ pub'[q].pc = "idle" /\ pub'[q].op = pub[q].op
          /\ pub'[q].event = pub[q].event /\ pub'[q].call = pub[q].call
          /\ pub'[q].receipt = [state |-> Unavailable(q), event |-> "none"]
      BY <3>1, <3>2, ReturnsTyped
    <3>4. [state |-> Unavailable(q), event |-> "none"].state = Unavailable(q)
      OBVIOUS
    <3> QED BY <3>2, <3>3, <3>4
  <2>2. CASE pub[q].pc # "waiting"
    BY <1>1, <2>2 DEF TypeOK
  <2> QED BY <2>1, <2>2
<1>3. pub' \in [Publishers -> Activities]
  BY <1>1, <1>2
<1> QED BY <1>2, <1>3

\* A request taken from the queue.
LEMMA AcceptStep ==
    ASSUME TypeOK, Accept
    PROVE  /\ Len(queue) \in Nat \ {0} /\ cur' = queue[1] /\ cur' \in Requests
           /\ queue' \in Seq(Requests) /\ Len(queue') = Len(queue) - 1
           /\ \A i \in 1 .. Len(queue') : i + 1 \in 1 .. Len(queue) /\ queue'[i] = queue[i + 1]
<1>1. queue \in Seq(Requests) /\ queue # <<>> /\ cur' = Head(queue) /\ queue' = Tail(queue)
  BY DEF TypeOK, Accept
<1> QED BY <1>1

\* Every step keeps the types.
LEMMA TypeStep == TypeOK /\ CallsInv /\ MemoryInv /\ Next => TypeOK'
<1> SUFFICES ASSUME TypeOK, CallsInv, MemoryInv, Next PROVE TypeOK'
  OBVIOUS
<1>0. /\ Attempts \in Nat /\ Backlog \in Nat /\ MaxCalls \in Nat /\ MaxStarts \in Nat
  BY NotificationBounds
<1> USE DEF agent, server
<1>1. ASSUME NEW p \in Publishers, NEW op \in Operations, NEW e \in Events \cup {"none"}, Call(p, op, e)
      PROVE  TypeOK'
  BY <1>1, CallStep DEF TypeOK
<1>2. ASSUME NEW p \in Publishers, Connect(p) PROVE TypeOK'
  <2>1. [by |-> p, call |-> pub[p].call, op |-> pub[p].op, event |-> pub[p].event] \in Requests
    <3>1. pub[p].call > 0
      BY <1>2, ConnectStep DEF CallsInv
    <3> QED BY <1>0, <3>1, PublisherTyped DEF Requests
  <2>2. queue' \in Seq(Requests) /\ Len(queue') <= Backlog
    <3> DEFINE r == [by |-> p, call |-> pub[p].call, op |-> pub[p].op, event |-> pub[p].event]
    <3>1. UNCHANGED queue \/ (Len(queue) < Backlog /\ queue' = Append(queue, r))
      BY <1>2, ConnectStep
    <3>2. r \in Requests /\ queue \in Seq(Requests) /\ Len(queue) <= Backlog
      BY <2>1 DEF TypeOK
    <3> HIDE DEF r
    <3> QED BY <1>0, <3>1, <3>2
  <2> QED BY <1>2, <2>2, ConnectStep DEF TypeOK
<1>3. ASSUME NEW p \in Publishers, TimeOut(p) PROVE TypeOK'
  BY <1>3, TimeOutStep DEF TypeOK
<1>4. CASE Boot
  <2>1. last' \in Receipts
    BY <1>4 DEF Boot, NoEvent, Receipts, States
  <2> QED BY <1>0, <1>4, <2>1 DEF TypeOK, Boot
<1>5. CASE Accept
  <2>1. queue' \in Seq(Requests) /\ Len(queue') <= Backlog /\ cur' \in Requests
    BY <1>0, <1>5, AcceptStep DEF TypeOK
  <2>2. ambiguous' \in BOOLEAN
    BY <1>5, Zenon DEF Accept
  <2> QED BY <1>0, <1>5, <2>1, <2>2 DEF TypeOK, Accept
<1>6. CASE Notify
  <2>1. cur \in Requests /\ cur.by \in Publishers /\ cur.call \in 1 .. MaxCalls /\ cur.event \in Events
    BY <1>6 DEF TypeOK, Notify, Requests, CallsInv, MemoryInv, Known, Working
  <2>2. accepted' \subseteq Events /\ landed' \subseteq Publishers \X (1 .. MaxCalls)
    BY <1>6, <2>1 DEF TypeOK, Notify, ServerAccepts
  <2>3. last' \in Receipts
    BY <1>6, <2>1 DEF TypeOK, Notify, Receipts, States
  <2>4. ambiguous' \in BOOLEAN
    BY <1>6, Zenon DEF TypeOK, Notify
  <2>5. tries' \in 0 .. Attempts /\ pc' \in {"deliver", "reply"}
    BY <1>0, <1>6 DEF TypeOK, Notify
  <2> QED BY <1>6, <2>1, <2>2, <2>3, <2>4, <2>5 DEF TypeOK, Notify
<1>7. CASE GiveUp
  <2>1. cur.event \in Events \cup {"none"}
    BY <1>7 DEF TypeOK, GiveUp, Requests
  <2>2. last' \in Receipts
    BY <1>7, <2>1 DEF GiveUp, Receipts, States
  <2> QED BY <1>7, <2>2 DEF TypeOK, GiveUp
<1>8. CASE Reply
  <2>1. ambiguous' \in BOOLEAN
    BY <1>8, Zenon DEF Reply
  <2>2. pub' \in [Publishers -> Activities]
    BY <1>8, ReplyStep
  <2> QED BY <1>0, <1>8, <2>1, <2>2 DEF TypeOK, Reply
<1>9. CASE Die
  <2>1. last' \in Receipts
    BY <1>9 DEF Die, NoEvent, Receipts, States
  <2>2. ambiguous' \in BOOLEAN
    BY <1>9, Zenon DEF Die
  <2>3. pub' \in [Publishers -> Activities]
    BY <1>9, DieStep
  <2>4. queue' \in Seq(Requests) /\ Len(queue') <= Backlog
    BY <1>0, <1>9 DEF Die
  <2> QED BY <1>0, <1>9, <2>1, <2>2, <2>3, <2>4 DEF TypeOK, Die
<1> QED
  BY <1>1, <1>2, <1>3, <1>4, <1>5, <1>6, <1>7, <1>8, <1>9 DEF Next, Publish, AgentStep

\* Requests name a publisher and one of its calls.
LEMMA RequestsTyped ==
    ASSUME TypeOK
    PROVE  /\ \A i \in 1 .. Len(queue) : /\ queue[i] \in Requests /\ queue[i].by \in Publishers
                                         /\ queue[i].call \in 1 .. MaxCalls
           /\ Working => cur \in Requests /\ cur.by \in Publishers /\ cur.call \in 1 .. MaxCalls
<1>1. \A i \in 1 .. Len(queue) : queue[i] \in Requests
  BY DEF TypeOK
<1>2. Working => cur \in Requests
  BY DEF TypeOK, Working
<1> QED BY <1>1, <1>2 DEF Requests

\* No publisher begins a call.
Steady ==
    \A q \in Publishers :
        /\ pub'[q].op = pub[q].op /\ pub'[q].event = pub[q].event /\ pub'[q].call = pub[q].call
        /\ pub'[q].pc = "connect" => pub[q].pc = "connect"
        /\ pub'[q].pc # "idle" => pub[q].pc # "idle"

\* Every step but a call leaves the calls as they are.
LEMMA SteadyStep ==
    ASSUME TypeOK, \/ \E p \in Publishers : Connect(p) \/ TimeOut(p)
                   \/ AgentStep \/ Boot \/ Die
    PROVE  Steady
<1>1. ASSUME NEW p \in Publishers, Connect(p) PROVE Steady
  BY <1>1, ConnectStep DEF Steady
<1>2. ASSUME NEW p \in Publishers, TimeOut(p) PROVE Steady
  BY <1>2, TimeOutStep DEF Steady
<1>3. CASE Accept \/ Notify \/ GiveUp \/ Boot
  BY <1>3 DEF Accept, Notify, GiveUp, Boot, Steady
<1>4. CASE Reply
  BY <1>4, ReplyStep DEF Steady
<1>5. CASE Die
  BY <1>5, DieStep DEF Steady
<1> QED BY <1>1, <1>2, <1>3, <1>4, <1>5 DEF AgentStep

\* As long as no call begins, a request stays known.
LEMMA KnownKept ==
    ASSUME Steady, NEW r, r.by \in Publishers, Known(r)
    PROVE  /\ r.call <= pub'[r.by].call
           /\ r.call = pub'[r.by].call => /\ pub'[r.by].pc # "connect"
                                          /\ r.op = pub'[r.by].op /\ r.event = pub'[r.by].event
           /\ r.op = "status" <=> r.event = "none"
BY DEF Steady, Known

\* Every step keeps the requests in agreement with the calls they are of.
LEMMA CallsStep == TypeOK /\ TypeOK' /\ CallsInv /\ Next => CallsInv'
<1> SUFFICES ASSUME TypeOK, TypeOK', CallsInv, Next PROVE CallsInv'
  OBVIOUS
<1> DEFINE Asked   == \A p \in Publishers : pub[p].pc # "idle" =>
                         pub[p].call > 0 /\ (pub[p].op = "status" <=> pub[p].event = "none")
           Queued  == \A i \in 1 .. Len(queue) : Known(queue[i])
           Present == Working => Known(cur)
           Landed  == \A p \in Publishers, c \in 1 .. MaxCalls : <<p, c>> \in landed =>
                         c <= pub[p].call /\ (pub[p].pc = "connect" => c < pub[p].call)
<1>0. /\ Asked /\ Queued /\ Present /\ Landed /\ MaxCalls \in Nat
      /\ \A q \in Publishers : pub[q].call \in Nat
  BY NotificationBounds, PublisherTyped DEF CallsInv
<1> SUFFICES Asked' /\ Queued' /\ Present' /\ Landed'
  BY DEF CallsInv
<1> USE DEF agent, server
<1>1. ASSUME NEW p \in Publishers, NEW op \in Operations, NEW e \in Events \cup {"none"}, Call(p, op, e)
      PROVE  Asked' /\ Queued' /\ Present' /\ Landed'
  <2>1. /\ \A q \in Publishers \ {p} : pub'[q] = pub[q]
        /\ pub'[p].pc = "connect" /\ pub'[p].op = op /\ pub'[p].event = e
        /\ pub'[p].call = pub[p].call + 1
        /\ op = "status" <=> e = "none"
        /\ UNCHANGED <<queue, pc, cur, landed>>
    BY <1>1, CallStep
  <2>2. Asked'
    BY <1>0, <2>1
  <2>3. Queued'
    BY <1>0, <2>1, RequestsTyped DEF Known
  <2>4. Present'
    BY <1>0, <2>1, RequestsTyped DEF Known, Working
  <2>5. Landed'
    BY <1>0, <2>1
  <2> QED BY <2>2, <2>3, <2>4, <2>5
<1>2. ASSUME NEW p \in Publishers, Connect(p)
      PROVE  Asked' /\ Queued' /\ Present' /\ Landed'
  <2> DEFINE r == [by |-> p, call |-> pub[p].call, op |-> pub[p].op, event |-> pub[p].event]
  <2>1. Steady
    BY <1>2, SteadyStep
  <2>2. /\ pub[p].pc = "connect" /\ pub'[p].pc # "connect" /\ UNCHANGED <<pc, cur, landed>>
        /\ UNCHANGED queue \/ queue' = Append(queue, r)
    BY <1>2, ConnectStep
  <2>3. Asked' /\ Landed'
    BY <1>0, <2>1, <2>2 DEF Steady
  <2>4. Present'
    BY <1>0, <2>1, <2>2, RequestsTyped DEF Steady, Known, Working
  <2>5. \A i \in 1 .. Len(queue') : \/ i \in 1 .. Len(queue) /\ queue'[i] = queue[i]
                                    \/ queue'[i] = r
    BY <2>2 DEF TypeOK
  <2>6. Queued'
    <3> SUFFICES ASSUME NEW i \in 1 .. Len(queue') PROVE Known(queue[i])'
      OBVIOUS
    <3>1. CASE i \in 1 .. Len(queue) /\ queue'[i] = queue[i]
      <4>1. Known(queue[i]) /\ queue[i].by \in Publishers
        BY <1>0, <3>1, RequestsTyped
      <4> QED BY <2>1, <3>1, <4>1, KnownKept DEF Known
    <3>2. CASE queue'[i] = r
      BY <1>0, <2>1, <2>2, <3>2 DEF Steady, Known
    <3> QED BY <2>5, <3>1, <3>2
  <2> QED BY <2>3, <2>4, <2>6
<1>3. ASSUME NEW p \in Publishers, TimeOut(p)
      PROVE  Asked' /\ Queued' /\ Present' /\ Landed'
  <2>1. Steady /\ UNCHANGED <<queue, pc, cur, landed>>
    BY <1>3, SteadyStep, TimeOutStep
  <2>2. Asked' /\ Landed'
    BY <1>0, <2>1 DEF Steady
  <2>3. Queued'
    <3> SUFFICES ASSUME NEW i \in 1 .. Len(queue') PROVE Known(queue[i])'
      OBVIOUS
    <3>1. queue'[i] = queue[i] /\ Known(queue[i]) /\ queue[i].by \in Publishers
      BY <1>0, <2>1, RequestsTyped
    <3> QED BY <2>1, <3>1, KnownKept DEF Known
  <2>4. Present'
    BY <1>0, <2>1, RequestsTyped, KnownKept DEF Known, Working
  <2> QED BY <2>2, <2>3, <2>4
<1>4. CASE Boot \/ GiveUp
  <2>1. /\ Steady /\ UNCHANGED <<queue, cur, landed>>
        /\ Working' => Working
    BY <1>4, SteadyStep DEF AgentStep, Boot, GiveUp, Working
  <2> QED BY <1>0, <2>1, RequestsTyped DEF Steady, Known
<1>5. CASE Accept
  <2>1. Steady /\ UNCHANGED landed
    BY <1>5, SteadyStep DEF AgentStep, Accept
  <2>2. /\ 1 \in 1 .. Len(queue) /\ cur' = queue[1]
        /\ \A i \in 1 .. Len(queue') : i + 1 \in 1 .. Len(queue) /\ queue'[i] = queue[i + 1]
    BY <1>5, AcceptStep
  <2>3. Asked' /\ Landed'
    BY <1>0, <2>1 DEF Steady
  <2>4. Queued'
    <3> SUFFICES ASSUME NEW i \in 1 .. Len(queue') PROVE Known(queue[i])'
      OBVIOUS
    <3>1. queue'[i] = queue[i + 1] /\ Known(queue[i + 1]) /\ queue[i + 1].by \in Publishers
      BY <1>0, <2>2, RequestsTyped
    <3> QED BY <2>1, <3>1, KnownKept DEF Known
  <2>5. Present'
    <3>1. Known(queue[1]) /\ queue[1].by \in Publishers
      BY <1>0, <2>2, RequestsTyped
    <3> QED BY <2>1, <2>2, <3>1, KnownKept DEF Known
  <2> QED BY <2>3, <2>4, <2>5
<1>6. CASE Notify
  <2>1. Steady /\ UNCHANGED <<queue, cur>> /\ Working
    BY <1>6, SteadyStep DEF AgentStep, Notify, Working
  <2>2. Asked' /\ Queued' /\ Present'
    BY <1>0, <2>1, RequestsTyped DEF Steady, Known
  <2>3. landed' \subseteq landed \cup {<<cur.by, cur.call>>}
    BY <1>6 DEF Notify, ServerAccepts
  <2>4. Landed'
    BY <1>0, <2>1, <2>3, RequestsTyped DEF Steady, Known
  <2> QED BY <2>2, <2>4
<1>7. CASE Reply
  <2>1. Steady /\ UNCHANGED <<queue, landed>> /\ ~Working'
    BY <1>7, SteadyStep DEF AgentStep, Reply, Working
  <2>2. Asked' /\ Landed'
    BY <1>0, <2>1 DEF Steady
  <2>3. Queued'
    <3> SUFFICES ASSUME NEW i \in 1 .. Len(queue') PROVE Known(queue[i])'
      OBVIOUS
    <3>1. queue'[i] = queue[i] /\ Known(queue[i]) /\ queue[i].by \in Publishers
      BY <1>0, <2>1, RequestsTyped
    <3> QED BY <2>1, <3>1, KnownKept DEF Known
  <2> QED BY <2>1, <2>2, <2>3
<1>8. CASE Die
  <2>1. Steady /\ Len(queue') = 0 /\ UNCHANGED landed /\ ~Working'
    BY <1>8, SteadyStep DEF Die, Working
  <2> QED BY <1>0, <2>1 DEF Steady
<1> QED
  BY <1>1, <1>2, <1>3, <1>4, <1>5, <1>6, <1>7, <1>8 DEF Next, Publish, AgentStep

\* Every step leaves each call queued at most once, and before it lands.
LEMMA OnceStep == TypeOK /\ CallsInv /\ OnceInv /\ Next => OnceInv'
<1> SUFFICES ASSUME TypeOK, CallsInv, OnceInv, Next PROVE OnceInv'
  OBVIOUS
<1> USE DEF agent, server
<1>1. ASSUME NEW p \in Publishers, NEW op \in Operations, NEW e \in Events \cup {"none"}, Call(p, op, e)
      PROVE  OnceInv'
  BY <1>1 DEF Call, OnceInv, Working
<1>2. ASSUME NEW p \in Publishers, Connect(p) PROVE OnceInv'
  <2> DEFINE r == [by |-> p, call |-> pub[p].call, op |-> pub[p].op, event |-> pub[p].event]
  <2>1. /\ pub[p].pc = "connect" /\ UNCHANGED <<pc, cur, ambiguous, landed>>
        /\ UNCHANGED queue \/ queue' = Append(queue, r)
    BY <1>2, ConnectStep
  <2>2. CASE UNCHANGED queue
    BY <2>1, <2>2 DEF OnceInv, Working
  <2>3. CASE queue' = Append(queue, r)
    <3>1. Id(r) = <<p, pub[p].call>> /\ pub[p].call \in 1 .. MaxCalls
      BY <2>1, PublisherTyped, NotificationBounds DEF Id, CallsInv
    <3>2. Id(r) \notin landed
      BY <2>1, <3>1, NotificationBounds DEF CallsInv
    <3>3. \A i \in 1 .. Len(queue) : Id(queue[i]) # Id(r)
      BY <2>1, <3>1, RequestsTyped DEF CallsInv, Known, Id
    <3>4. Working => Id(cur) # Id(r)
      BY <2>1, <3>1, RequestsTyped DEF CallsInv, Known, Id
    <3>5. /\ Len(queue) \in Nat /\ Len(queue') = Len(queue) + 1 /\ queue'[Len(queue) + 1] = r
          /\ \A i \in 1 .. Len(queue) : queue'[i] = queue[i]
      BY <2>3 DEF TypeOK
    <3> HIDE DEF r
    <3>6. \A i \in 1 .. Len(queue') :
             \/ i \in 1 .. Len(queue) /\ Id(queue'[i]) = Id(queue[i])
             \/ i = Len(queue) + 1 /\ Id(queue'[i]) = Id(r)
      BY <3>5
    <3>7. \A i, j \in 1 .. Len(queue') : Id(queue'[i]) = Id(queue'[j]) => i = j
      BY <3>3, <3>6 DEF OnceInv
    <3>8. \A i \in 1 .. Len(queue') : Id(queue'[i]) \notin landed /\ (Working => Id(queue'[i]) # Id(cur))
      BY <3>2, <3>4, <3>6 DEF OnceInv
    <3> QED BY <2>1, <3>7, <3>8 DEF OnceInv, Working, Id
  <2> QED BY <2>1, <2>2, <2>3
<1>3. ASSUME NEW p \in Publishers, TimeOut(p) PROVE OnceInv'
  BY <1>3 DEF TimeOut, OnceInv, Working
<1>4. CASE Boot \/ GiveUp
  BY <1>4 DEF Boot, GiveUp, OnceInv, Working
<1>5. CASE Accept
  <2>1. /\ 1 \in 1 .. Len(queue) /\ cur' = queue[1] /\ Len(queue') \in Nat
        /\ \A i \in 1 .. Len(queue') : i + 1 \in 1 .. Len(queue) /\ queue'[i] = queue[i + 1]
        /\ UNCHANGED landed
    BY <1>5, AcceptStep DEF Accept
  <2>2. \A i, j \in 1 .. Len(queue') : Id(queue'[i]) = Id(queue'[j]) => i = j
    <3> SUFFICES ASSUME NEW i \in 1 .. Len(queue'), NEW j \in 1 .. Len(queue'), Id(queue'[i]) = Id(queue'[j])
                 PROVE  i = j
      OBVIOUS
    <3>1. i + 1 = j + 1
      BY <2>1 DEF OnceInv
    <3> QED BY <2>1, <3>1
  <2>3. \A i \in 1 .. Len(queue') : Id(queue'[i]) \notin landed /\ Id(queue'[i]) # Id(queue[1])
    <3> SUFFICES ASSUME NEW i \in 1 .. Len(queue')
                 PROVE  Id(queue'[i]) \notin landed /\ Id(queue'[i]) # Id(queue[1])
      OBVIOUS
    <3>1. Id(queue[i + 1]) = Id(queue[1]) => i + 1 = 1
      BY <2>1 DEF OnceInv
    <3> QED BY <2>1, <3>1 DEF OnceInv
  <2>4. Id(queue[1]) \notin landed
    BY <2>1 DEF OnceInv
  <2> QED BY <2>1, <2>2, <2>3, <2>4 DEF OnceInv, Id
<1>6. CASE Notify
  <2>1. /\ pc = "deliver" /\ UNCHANGED <<queue, cur>>
        /\ \/ UNCHANGED landed /\ ambiguous' = TRUE
           \/ UNCHANGED <<landed, ambiguous>>
           \/ landed' = landed \cup {Id(cur)} /\ (ambiguous' = TRUE \/ pc' = "reply")
    BY <1>6 DEF Notify, ServerAccepts, Id
  <2>2. Working
    BY <2>1 DEF Working
  <2> QED BY <2>1, <2>2 DEF OnceInv, Id
<1>7. CASE Reply
  BY <1>7 DEF Reply, OnceInv, Working
<1>8. CASE Die
  <2>1. Len(queue') = 0 /\ pc' = "down"
    BY <1>8 DEF Die
  <2> QED BY <2>1 DEF OnceInv
<1> QED
  BY <1>1, <1>2, <1>3, <1>4, <1>5, <1>6, <1>7, <1>8 DEF Next, Publish, AgentStep

\* Every step keeps the agent's memory true, and a reply to the point.
LEMMA MemoryStep == TypeOK /\ MemoryInv /\ Next => MemoryInv'
<1> SUFFICES ASSUME TypeOK, MemoryInv, Next PROVE MemoryInv'
  OBVIOUS
<1> USE DEF agent, server, MemoryInv
<1>1. ASSUME NEW p \in Publishers, Connect(p) \/ TimeOut(p) PROVE MemoryInv'
  BY <1>1 DEF Connect, TimeOut
<1>2. ASSUME NEW p \in Publishers, NEW op \in Operations, NEW e \in Events \cup {"none"}, Call(p, op, e)
      PROVE  MemoryInv'
  BY <1>2 DEF Call
<1>3. CASE Boot \/ Die
  BY <1>3 DEF Boot, Die, NoEvent
<1>4. CASE Accept
  BY <1>4 DEF Accept
<1>5. CASE Notify
  BY <1>5 DEF Notify, ServerAccepts
<1>6. CASE GiveUp
  <2>1. last'.state # "accepted" /\ last'.event = cur.event
    BY <1>6 DEF GiveUp
  <2> QED BY <1>6, <2>1 DEF GiveUp
<1>7. CASE Reply
  BY <1>7 DEF Reply
<1> QED BY <1>1, <1>2, <1>3, <1>4, <1>5, <1>6, <1>7 DEF Next, Publish, AgentStep

\* Every step leaves only true acceptances with the publishers.
LEMMA AcceptedStep ==
    TypeOK /\ CallsInv /\ MemoryInv /\ AcceptedIsTrue /\ Next => AcceptedIsTrue'
<1> SUFFICES ASSUME TypeOK, CallsInv, MemoryInv, AcceptedIsTrue, Next,
                    NEW q \in Publishers, pub'[q].receipt.state = "accepted"
             PROVE  /\ pub'[q].receipt.event \in accepted'
                    /\ pub'[q].op # "status" => pub'[q].receipt.event = pub'[q].event
  BY DEF AcceptedIsTrue
<1>1. accepted \subseteq accepted'
  BY DEF Next, Publish, Connect, TimeOut, Call, AgentStep, Accept, Notify, ServerAccepts, GiveUp,
         Reply, Boot, Die, server
<1>2. CASE /\ pub'[q].receipt = pub[q].receipt
           /\ pub'[q].op = pub[q].op /\ pub'[q].event = pub[q].event
  BY <1>1, <1>2 DEF AcceptedIsTrue
<1>3. ASSUME NEW p \in Publishers, Connect(p)
      PROVE  /\ pub'[q].receipt = pub[q].receipt
             /\ pub'[q].op = pub[q].op /\ pub'[q].event = pub[q].event
  BY <1>3, ConnectStep
<1>4. ASSUME NEW p \in Publishers, TimeOut(p)
      PROVE  pub'[q] = pub[q]
  BY <1>4, TimeOutStep
<1>5. ASSUME NEW p \in Publishers, NEW op \in Operations, NEW e \in Events \cup {"none"}, Call(p, op, e)
      PROVE  pub'[q] = pub[q]
  <2>1. NoEvent.state # "accepted"
    BY DEF NoEvent
  <2> QED BY <1>5, <2>1, CallStep
<1>6. CASE Accept \/ Notify \/ GiveUp \/ Boot
  BY <1>2, <1>6 DEF Accept, Notify, GiveUp, Boot
<1>7. CASE Die
  BY <1>2, <1>7, DieStep
<1>8. CASE Reply
  <2>1. CASE /\ q = cur.by /\ Waits(cur)
             /\ pub'[q].receipt = [state |-> last.state, event |-> last.event]
    <3>1. pub'[q].receipt.state = last.state /\ pub'[q].receipt.event = last.event
      BY <2>1
    <3>2. pub'[q].op = pub[q].op /\ pub'[q].event = pub[q].event
      BY <1>8, ReplyStep
    <3>3. pub[q].op = cur.op /\ pub[q].event = cur.event
      BY <1>8, <2>1 DEF Reply, Working, CallsInv, Known, Waits
    <3> QED BY <1>1, <1>8, <3>1, <3>2, <3>3 DEF Reply, MemoryInv
  <2> QED BY <1>2, <1>8, <2>1, ReplyStep
<1> QED BY <1>2, <1>3, <1>4, <1>5, <1>6, <1>7, <1>8 DEF Next, Publish, AgentStep

\* Every step leaves only honest failures in the agent's answers.
LEMMA FailedStep ==
    TypeOK /\ OnceInv /\ FailedIsHonest /\ Next => FailedIsHonest'
<1> SUFFICES ASSUME TypeOK, OnceInv, FailedIsHonest, Next PROVE FailedIsHonest'
  OBVIOUS
<1> USE DEF agent, server, FailedIsHonest
<1>1. ASSUME NEW p \in Publishers, Connect(p) \/ TimeOut(p) PROVE FailedIsHonest'
  BY <1>1 DEF Connect, TimeOut
<1>2. ASSUME NEW p \in Publishers, NEW op \in Operations, NEW e \in Events \cup {"none"}, Call(p, op, e)
      PROVE  FailedIsHonest'
  BY <1>2 DEF Call
<1>3. CASE Boot \/ Die \/ Reply
  BY <1>3 DEF Boot, Die, Reply
<1>4. CASE Accept
  BY <1>4 DEF Accept
<1>5. CASE Notify
  BY <1>5 DEF Notify
<1>6. CASE GiveUp
  <2>1. ~ambiguous => Id(cur) \notin landed
    BY <1>6 DEF GiveUp, OnceInv
  <2>2. last'.state = "failed" => ~ambiguous
    BY <1>6 DEF GiveUp
  <2> QED BY <1>6, <2>1, <2>2 DEF GiveUp, Id
<1> QED BY <1>1, <1>2, <1>3, <1>4, <1>5, <1>6 DEF Next, Publish, AgentStep

\* A session begins with nothing asked and nothing delivered.
LEMMA InitNotifications == Init => NotificationsInv
<1> SUFFICES ASSUME Init PROVE NotificationsInv
  OBVIOUS
<1>1. NoEvent \in Receipts /\ NoEvent.state = "pending"
  BY DEF NoEvent, Receipts, States
<1>2. pub \in [Publishers -> Activities]
  BY <1>1, NotificationBounds DEF Init, Activities, Operations
<1>3. queue \in Seq(Requests) /\ Len(queue) = 0
  BY DEF Init
<1>4. ambiguous \in BOOLEAN
  BY Zenon DEF Init
<1>5. TypeOK
  BY <1>1, <1>2, <1>3, <1>4, NotificationBounds DEF Init, TypeOK
<1>6. CallsInv /\ OnceInv
  BY <1>3 DEF Init, CallsInv, OnceInv, Working
<1>7. MemoryInv /\ AcceptedIsTrue /\ FailedIsHonest
  BY <1>1 DEF Init, MemoryInv, AcceptedIsTrue, FailedIsHonest
<1> QED BY <1>5, <1>6, <1>7 DEF NotificationsInv

\* Every step keeps the inductive invariant.
LEMMA NextNotifications == NotificationsInv /\ [Next]_vars => NotificationsInv'
<1> SUFFICES ASSUME NotificationsInv, [Next]_vars PROVE NotificationsInv'
  OBVIOUS
<1> USE DEF NotificationsInv
<1>1. CASE Next
  BY <1>1, TypeStep, CallsStep, OnceStep, MemoryStep, AcceptedStep, FailedStep
<1>2. CASE UNCHANGED vars
  BY <1>2 DEF vars, TypeOK, CallsInv, Known, OnceInv, Id, Working, MemoryInv, AcceptedIsTrue,
              FailedIsHonest
<1> QED BY <1>1, <1>2

\* The inductive invariant holds for any number of publishers, calls and restarts.
THEOREM Delivery == Spec => []NotificationsInv
BY InitNotifications, NextNotifications, PTL DEF Spec

\* rpc and emit report acceptance only of an event the notification server has
\* accepted, and of the caller's own unless it asked for the status.
THEOREM AcceptanceIsTrue == Spec => []AcceptedIsTrue
<1>1. NotificationsInv => AcceptedIsTrue
  BY DEF NotificationsInv
<1> QED BY <1>1, Delivery, PTL

\* deliver answers failed only when no attempt of the request was accepted.
THEOREM FailureIsHonest == Spec => []FailedIsHonest
<1>1. NotificationsInv => FailedIsHonest
  BY DEF NotificationsInv
<1> QED BY <1>1, Delivery, PTL
================================================================================
