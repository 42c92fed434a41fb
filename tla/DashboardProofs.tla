--------------------------- MODULE DashboardProofs ---------------------------
(***************************************************************************)
(* Machine-checked proofs about Dashboard.                                 *)
(***************************************************************************)
EXTENDS Dashboard, SequenceTheorems, TLAPS

----------------------------------------------------------------------------
(* The invariant                                                           *)

\* What is known of a client whose handler has not begun.
Fresh(c) ==
  /\ sender[c] = "none" /\ queue[c] = <<>> /\ seen[c] = <<>>
  /\ c \notin registered /\ c \notin cancelled
  /\ \A b \in Casters: awaited[b] # c

\* Entries belong to handlers that receive, and are served; a sender that is awaited
\* has lost its entry; an event is in the hand of a sender exactly while it sends.
Placed(c) ==
  /\ handler[c] = "new" => Fresh(c)
  /\ c \in registered =>
       /\ handler[c] = "receiving" /\ sender[c] \in {"created", "waiting", "sending"}
       /\ c \notin cancelled /\ \A b \in Casters: awaited[b] # c
  /\ payload[c] # 0 <=> sender[c] = "sending"
Places == \A c \in Clients: Placed(c)

\* s holds consecutive events, the first of which is k.
RunFrom(s, k) == \A i \in DOMAIN s: s[i] = k + i - 1

\* What a client was shown, is being sent and will be sent (0: nothing is being sent)
\* is in order, and none of it is still to come when e events were broadcast.
Ordered(s, p, q, e) ==
  /\ \A i, j \in DOMAIN s: i < j => s[i] < s[j]
  /\ \A i, j \in DOMAIN q: i < j => q[i] < q[j]
  /\ \A i \in DOMAIN s, j \in DOMAIN q: s[i] < q[j]
  /\ p # 0 => (\A i \in DOMAIN s: s[i] < p) /\ (\A j \in DOMAIN q: p < q[j])
  /\ (\A i \in DOMAIN s: s[i] <= e) /\ (\A j \in DOMAIN q: q[j] <= e) /\ p <= e

\* It is the run of all events after the first j.
InHand(p) == IF p = 0 THEN 0 ELSE 1
Complete(s, p, q, j, e) ==
  /\ j + Len(s) + InHand(p) + Len(q) = e
  /\ RunFrom(s, j + 1)
  /\ p # 0 => p = j + Len(s) + 1
  /\ RunFrom(q, j + Len(s) + InHand(p) + 1)

Shown ==
  /\ \A c \in Clients: Ordered(seen[c], payload[c], queue[c], events)
  /\ \A c \in registered: \/ Complete(seen[c], payload[c], queue[c], joined[c], events)
                          \/ \E b \in Casters: c \in stale[b]

DashInv == TypeOK /\ Places /\ Shown

----------------------------------------------------------------------------
(* What happens to the events of one client                                *)

LEMMA EmptyEvents == <<>> \in Seq(Events) /\ Len(<<>>) = 0 /\ DOMAIN <<>> = {}
  BY EmptySeq

LEMMA AppendEvent ==
  ASSUME NEW s \in Seq(Events), NEW x \in Events
  PROVE  \E n \in Nat:
           /\ Len(s) = n /\ DOMAIN s = 1..n
           /\ Append(s, x) \in Seq(Events) /\ Len(Append(s, x)) = n + 1
           /\ DOMAIN Append(s, x) = 1..(n + 1)
           /\ \A i \in 1..n: Append(s, x)[i] = s[i]
           /\ Append(s, x)[n + 1] = x
           /\ \A i \in 1..(n + 1): i \in 1..n \/ i = n + 1
<1>1. PICK n \in Nat: Len(s) = n /\ DOMAIN s = 1..n
  BY LenProperties
<1>2. /\ Append(s, x) \in Seq(Events) /\ Len(Append(s, x)) = n + 1
      /\ \A i \in 1..n: Append(s, x)[i] = s[i]
      /\ Append(s, x)[n + 1] = x
  BY <1>1, AppendProperties
<1>3. DOMAIN Append(s, x) = 1..(n + 1)
  BY <1>2, LenProperties
<1>4. \A i \in 1..(n + 1): i \in 1..n \/ i = n + 1
  BY <1>1
<1> QED  BY <1>1, <1>2, <1>3, <1>4

LEMMA TailEvents ==
  ASSUME NEW q \in Seq(Events), q # <<>>
  PROVE  \E n \in Nat:
           /\ Len(q) = n + 1 /\ DOMAIN q = 1..(n + 1)
           /\ Head(q) = q[1] /\ Head(q) \in Events
           /\ Tail(q) \in Seq(Events) /\ Len(Tail(q)) = n /\ DOMAIN Tail(q) = 1..n
           /\ \A i \in 1..n: Tail(q)[i] = q[i + 1] /\ i + 1 \in 1..(n + 1) /\ 1 < i + 1
<1>1. PICK m \in Nat: Len(q) = m /\ DOMAIN q = 1..m /\ m # 0
  BY EmptySeq, LenProperties
<1>2. PICK n \in Nat: m = n + 1
  BY <1>1
<1>3. /\ Head(q) \in Events /\ Tail(q) \in Seq(Events)
      /\ Len(Tail(q)) = n /\ \A i \in 1..n: Tail(q)[i] = q[i + 1]
  BY <1>1, <1>2, HeadTailProperties
<1>4. Head(q) = q[1] /\ DOMAIN Tail(q) = 1..n
  BY <1>1, <1>3, LenProperties
<1>5. \A i \in 1..n: i + 1 \in 1..(n + 1) /\ 1 < i + 1
  BY <1>2
<1> QED  BY <1>1, <1>2, <1>3, <1>4, <1>5

LEMMA EventsAreNumbers ==
  /\ \A x \in Events: x \in Nat /\ x # 0
  /\ \A s \in Seq(Events):
       Len(s) \in Nat /\ \A i \in DOMAIN s: i \in Nat /\ s[i] \in Nat /\ s[i] # 0
<1>1. \A x \in Events: x \in Nat /\ x # 0
  BY SizeAssumption DEF Events
<1>2. ASSUME NEW s \in Seq(Events), NEW i \in DOMAIN s
      PROVE  i \in Nat /\ s[i] \in Events
  BY <1>2, ElementOfSeq, LenProperties
<1> QED  BY <1>1, <1>2, LenProperties

\* The sender takes the next event.
LEMMA TakeKeeps ==
  ASSUME NEW s \in Seq(Events), NEW q \in Seq(Events), q # <<>>, NEW j \in Nat, NEW e \in Nat
  PROVE  /\ Ordered(s, 0, q, e) => Ordered(s, Head(q), Tail(q), e)
         /\ Complete(s, 0, q, j, e) => Complete(s, Head(q), Tail(q), j, e)
<1>1. PICK n \in Nat:
        /\ Len(q) = n + 1 /\ DOMAIN q = 1..(n + 1)
        /\ Head(q) = q[1] /\ Head(q) \in Events /\ 1 \in 1..(n + 1)
        /\ Len(Tail(q)) = n /\ DOMAIN Tail(q) = 1..n
        /\ \A i \in 1..n: Tail(q)[i] = q[i + 1] /\ i + 1 \in 1..(n + 1) /\ 1 < i + 1
  BY TailEvents
<1>2. Head(q) # 0 /\ Head(q) \in Nat /\ Len(s) \in Nat
  BY <1>1, EventsAreNumbers
<1>3. ASSUME Ordered(s, 0, q, e)  PROVE Ordered(s, Head(q), Tail(q), e)
  <2>1. \A i, k \in 1..n: i < k => i + 1 < k + 1
    BY <1>1
  <2> QED  BY SMTT(20), <1>1, <1>3, <2>1 DEF Ordered
<1>4. ASSUME Complete(s, 0, q, j, e)  PROVE Complete(s, Head(q), Tail(q), j, e)
  <2>1. \A i \in 1..(n + 1): q[i] = (j + Len(s) + 0 + 1) + i - 1
    BY <1>1, <1>4 DEF Complete, InHand, RunFrom
  <2>2. q[1] = j + Len(s) + 1
    BY <1>1, <1>2, <2>1
  <2>3. \A i \in 1..n: Tail(q)[i] = (j + Len(s) + 1 + 1) + i - 1
    BY <1>1, <1>2, <2>1
  <2>4. j + Len(s) + 1 + n = e
    BY <1>1, <1>2, <1>4 DEF Complete, InHand
  <2> QED  BY <1>1, <1>2, <1>4, <2>2, <2>3, <2>4 DEF Complete, InHand, RunFrom
<1> QED  BY <1>3, <1>4

\* The event being sent arrives.
LEMMA SentKeeps ==
  ASSUME NEW s \in Seq(Events), NEW p \in Events, NEW q \in Seq(Events),
         NEW j \in Nat, NEW e \in Nat
  PROVE  /\ Ordered(s, p, q, e) => Ordered(Append(s, p), 0, q, e)
         /\ Complete(s, p, q, j, e) => Complete(Append(s, p), 0, q, j, e)
<1>1. PICK n \in Nat:
        /\ Len(s) = n /\ DOMAIN s = 1..n
        /\ Len(Append(s, p)) = n + 1 /\ DOMAIN Append(s, p) = 1..(n + 1)
        /\ \A i \in 1..n: Append(s, p)[i] = s[i]
        /\ Append(s, p)[n + 1] = p
        /\ \A i \in 1..(n + 1): i \in 1..n \/ i = n + 1
  BY AppendEvent
<1>2. p # 0 /\ p \in Nat /\ Len(q) \in Nat /\ \A i \in 1..n: i < n + 1 /\ ~(n + 1 < i)
  BY <1>1, EventsAreNumbers
<1>3. ASSUME Ordered(s, p, q, e)  PROVE Ordered(Append(s, p), 0, q, e)
  BY <1>1, <1>2, <1>3 DEF Ordered
<1>4. ASSUME Complete(s, p, q, j, e)  PROVE Complete(Append(s, p), 0, q, j, e)
  <2>1. p = j + n + 1 /\ j + n + 1 + Len(q) = e /\ RunFrom(q, j + n + 1 + 1)
    BY <1>1, <1>2, <1>4 DEF Complete, InHand
  <2>2. \A i \in 1..(n + 1): Append(s, p)[i] = (j + 1) + i - 1
    <3>1. \A i \in 1..n: s[i] = (j + 1) + i - 1
      BY <1>1, <1>4 DEF Complete, RunFrom
    <3>2. p = (j + 1) + (n + 1) - 1
      BY <1>1, <2>1
    <3> QED  BY <1>1, <3>1, <3>2
  <2>3. j + (n + 1) + 0 + Len(q) = e /\ j + (n + 1) + 0 + 1 = j + n + 1 + 1
    BY <1>1, <1>2, <2>1
  <2> QED  BY <1>1, <2>1, <2>2, <2>3 DEF Complete, InHand, RunFrom
<1> QED  BY <1>3, <1>4

\* A broadcast puts the next event at the end.
LEMMA HandedKeeps ==
  ASSUME NEW s \in Seq(Events), NEW p \in 0..MaxEvents, NEW q \in Seq(Events), NEW j \in Nat,
         NEW e \in Nat, e + 1 \in Events
  PROVE  /\ Ordered(s, p, q, e) => Ordered(s, p, q, e + 1) /\ Ordered(s, p, Append(q, e + 1), e + 1)
         /\ Complete(s, p, q, j, e) => Complete(s, p, Append(q, e + 1), j, e + 1)
<1>1. PICK x \in Events: x = e + 1
  OBVIOUS
<1>2. PICK n \in Nat:
        /\ Len(q) = n /\ DOMAIN q = 1..n
        /\ Len(Append(q, x)) = n + 1 /\ DOMAIN Append(q, x) = 1..(n + 1)
        /\ \A i \in 1..n: Append(q, x)[i] = q[i]
        /\ Append(q, x)[n + 1] = x
        /\ \A i \in 1..(n + 1): i \in 1..n \/ i = n + 1
  BY AppendEvent
<1>3. p \in Nat /\ Len(s) \in Nat /\ (\A i \in 1..n: i < n + 1 /\ ~(n + 1 < i)) /\ ~(n + 1 < n + 1)
  BY <1>1, <1>2, EventsAreNumbers, SizeAssumption
<1>4. ASSUME Ordered(s, p, q, e)
      PROVE  Ordered(s, p, q, x) /\ Ordered(s, p, Append(q, x), x)
  <2>1. /\ \A i \in DOMAIN s: s[i] <= e /\ s[i] \in Nat
        /\ \A i \in 1..n: q[i] <= e /\ q[i] \in Nat
        /\ p <= e
    BY <1>1, <1>2, <1>4, EventsAreNumbers DEF Ordered
  <2>2. /\ \A i \in DOMAIN s: s[i] <= x /\ s[i] < x
        /\ \A i \in 1..n: q[i] <= x /\ q[i] < x
        /\ p <= x /\ p < x /\ x <= x
    BY <1>1, <1>2, <1>3, <2>1
  <2> QED  BY <1>1, <1>2, <1>3, <1>4, <2>2 DEF Ordered
<1>5. ASSUME Complete(s, p, q, j, e)  PROVE Complete(s, p, Append(q, x), j, x)
  <2>1. PICK k \in Nat: k = j + Len(s) + InHand(p)
    BY <1>3 DEF InHand
  <2>2. k + n = e /\ \A i \in 1..n: q[i] = (k + 1) + i - 1
    BY <1>1, <1>2, <1>5, <2>1 DEF Complete, RunFrom
  <2>3. k + (n + 1) = x /\ x = (k + 1) + (n + 1) - 1
    BY <1>1, <1>2, <2>1, <2>2
  <2>4. \A i \in 1..(n + 1): Append(q, x)[i] = (k + 1) + i - 1
    BY <1>1, <1>2, <2>2, <2>3
  <2> QED  BY <1>1, <1>2, <1>5, <2>1, <2>3, <2>4 DEF Complete, RunFrom
<1> QED  BY <1>1, <1>2, <1>4, <1>5

\* A task that ends drops the event in its hand, and its queue.
LEMMA DropKeeps ==
  ASSUME NEW s \in Seq(Events), NEW p, NEW q, NEW e \in Nat, Ordered(s, p, q, e)
  PROVE  Ordered(s, 0, q, e) /\ Ordered(s, 0, <<>>, e)
  BY EmptyEvents DEF Ordered

----------------------------------------------------------------------------
(* Types                                                                   *)

LEMMA DashInit == Init => DashInv
<1> SUFFICES ASSUME Init  PROVE DashInv
  OBVIOUS
<1>1. TypeOK
  BY EmptyEvents, SizeAssumption DEF Init, TypeOK
<1>2. Places
  <2>1. \A c \in Clients: Fresh(c)
    BY NoClientAssumption DEF Init, Fresh
  <2>2. registered = {} /\ \A b \in Casters: awaited[b] = NoClient
    BY DEF Init
  <2>3. \A c \in Clients: payload[c] = 0 /\ sender[c] # "sending"
    BY DEF Init
  <2> QED  BY <2>1, <2>2, <2>3 DEF Places, Placed
<1>3. ASSUME NEW c \in Clients  PROVE Ordered(seen[c], payload[c], queue[c], events)
  <2>1. seen[c] = <<>> /\ payload[c] = 0 /\ queue[c] = <<>> /\ events = 0
    BY DEF Init
  <2> QED  BY <2>1, EmptyEvents DEF Ordered
<1>4. registered = {}
  BY DEF Init
<1> QED  BY <1>1, <1>2, <1>3, <1>4 DEF DashInv, Shown

LEMMA EventOrNone ==
  /\ Events \subseteq 0..MaxEvents /\ 0 \in 0..MaxEvents
  /\ \A p \in 0..MaxEvents: p # 0 => p \in Events
  BY SizeAssumption DEF Events

LEMMA FaultTyped == TypeOK /\ (Fault \/ UNCHANGED faults) => faults' \in 0..MaxFaults
  BY SizeAssumption DEF Fault, TypeOK

\* What a sender received, if anything, is what it was sending.
LEMMA SeenTyped ==
  ASSUME TypeOK, NEW c \in Clients, payload[c] # 0,
         UNCHANGED seen \/ seen' = [seen EXCEPT ![c] = Append(@, payload[c])]
  PROVE  seen' \in [Clients -> Seq(Events)]
<1>1. payload[c] \in Events /\ seen[c] \in Seq(Events)
  BY EventOrNone DEF TypeOK
<1>2. Append(seen[c], payload[c]) \in Seq(Events)
  BY <1>1, AppendProperties
<1> QED  BY <1>2 DEF TypeOK

LEMMA ClientTypes ==
  ASSUME TypeOK, Places, NEW c \in Clients,
         Connect(c) \/ Leave(c) \/ Handler(c) \/ Sender(c)
  PROVE  TypeOK'
<1>1. CASE Connect(c)
  BY <1>1 DEF Connect, cast, process, TypeOK
<1>2. CASE Leave(c)
  <2>1. faults' \in 0..MaxFaults
    BY <1>2, FaultTyped DEF Leave
  <2> QED  BY <1>2, <2>1 DEF Leave, task, cast, process, history, TypeOK
<1>3. CASE Received(c)
  <2>1. registered' \subseteq Clients /\ cancelled' \subseteq Clients
    BY <1>3 DEF Received, Pop, TypeOK
  <2>2. \/ handler' = [handler EXCEPT ![c] = "dropping"] /\ link' = link
        \/ handler' = [handler EXCEPT ![c] = "done"] /\ link' = [link EXCEPT ![c] = "closed"]
    BY <1>3 DEF Received
  <2>3. /\ handler' \in [Clients -> {"new", "receiving", "dropping", "done"}]
        /\ link' \in [Clients -> {"none", "open", "left", "closed"}]
    BY <2>2 DEF TypeOK
  <2> QED  BY <1>3, <2>1, <2>3 DEF Received, cast, process, history, TypeOK
<1>4. CASE Dropped(c)
  BY <1>4 DEF Dropped, task, cast, process, history, TypeOK
<1>5. CASE Take(c)
  <2>1. /\ queue[c] \in Seq(Events) /\ queue[c] # <<>> /\ Len(queue[c]) <= QueueSize
    BY <1>5 DEF Take, TypeOK
  <2>2. PICK n \in Nat: /\ Len(queue[c]) = n + 1 /\ Head(queue[c]) \in Events
                        /\ Tail(queue[c]) \in Seq(Events) /\ Len(Tail(queue[c])) = n
    BY <2>1, TailEvents
  <2>3. Len(Tail(queue[c])) <= QueueSize
    BY <2>1, <2>2, SizeAssumption
  <2>4. queue' \in [Clients -> Seq(Events)] /\ \A d \in Clients: Len(queue'[d]) <= QueueSize
    BY <1>5, <2>2, <2>3 DEF Take, TypeOK
  <2>5. payload' \in [Clients -> 0..MaxEvents]
    BY <1>5, <2>2, EventOrNone DEF Take, TypeOK
  <2> QED  BY <1>5, <2>4, <2>5 DEF Take, SenderOnly, cast, process, TypeOK
<1>6. CASE Begin(c)
  BY <1>6 DEF Begin, SenderOnly, cast, process, TypeOK
<1>7. CASE Sent(c)
  <2>1. seen' \in [Clients -> Seq(Events)]
    BY <1>7, SeenTyped DEF Sent, Places, Placed
  <2>2. payload' \in [Clients -> 0..MaxEvents]
    BY <1>7, EventOrNone DEF Sent, TypeOK
  <2> QED  BY <1>7, <2>1, <2>2 DEF Sent, SenderOnly, cast, process, TypeOK
<1>8. CASE SendFails(c)
  <2>1. seen' \in [Clients -> Seq(Events)]
    BY <1>8, SeenTyped DEF SendFails, Places, Placed
  <2>2. payload' \in [Clients -> 0..MaxEvents] /\ registered' \subseteq Clients
    BY <1>8, EventOrNone DEF SendFails, Unregister, TypeOK
  <2>3. faults' \in 0..MaxFaults
    BY <1>8, FaultTyped DEF SendFails
  <2> QED  BY <1>8, <2>1, <2>2, <2>3 DEF SendFails, SenderOnly, cast, process, TypeOK
<1>9. CASE Cancelled(c)
  <2>1. seen' \in [Clients -> Seq(Events)]
    <3>1. UNCHANGED seen \/ (payload[c] # 0 /\ seen' = [seen EXCEPT ![c] = Append(@, payload[c])])
      BY <1>9 DEF Cancelled, Places, Placed
    <3> QED  BY <3>1, SeenTyped DEF TypeOK
  <2>2. payload' \in [Clients -> 0..MaxEvents]
    BY <1>9, EventOrNone DEF Cancelled, TypeOK
  <2>3. registered' \subseteq Clients /\ cancelled' \subseteq Clients
    BY <1>9 DEF Cancelled, Unregister, TypeOK
  <2>4. queue' \in [Clients -> Seq(Events)] /\ \A d \in Clients: Len(queue'[d]) <= QueueSize
    <3>1. queue' = queue \/ queue' = [queue EXCEPT ![c] = <<>>]
      BY <1>9 DEF Cancelled, Done
    <3>2. queue \in [Clients -> Seq(Events)] /\ \A d \in Clients: Len(queue[d]) <= QueueSize
      BY DEF TypeOK
    <3>3. <<>> \in Seq(Events) /\ Len(<<>>) <= QueueSize
      BY EmptyEvents, SizeAssumption
    <3> QED  BY <3>1, <3>2, <3>3
  <2>5. sender' \in [Clients -> {"none", "created", "waiting", "sending", "closing", "done"}]
    BY ZenonT(40), <1>9 DEF Cancelled, Done, TypeOK
  <2> QED  BY <1>9, <2>1, <2>2, <2>3, <2>4, <2>5 DEF Cancelled, SenderOnly, cast, process, TypeOK
<1>10. CASE Closed(c)
  <2>1. queue' \in [Clients -> Seq(Events)] /\ \A d \in Clients: Len(queue'[d]) <= QueueSize
    BY <1>10, EmptyEvents, SizeAssumption DEF Closed, Done, TypeOK
  <2> QED  BY <1>10, <2>1 DEF Closed, Done, SenderOnly, cast, process, TypeOK
<1> QED
  BY <1>1, <1>2, <1>3, <1>4, <1>5, <1>6, <1>7, <1>8, <1>9, <1>10 DEF Handler, Sender

LEMMA CasterTypes ==
  ASSUME TypeOK, NEW b \in Casters, Broadcast(b) \/ Caster(b)
  PROVE  TypeOK'
<1>1. CASE Broadcast(b)
  <2>1. events' \in Events
    BY <1>1, SizeAssumption DEF Broadcast, TypeOK, Events
  <2>2. ASSUME NEW c \in Clients  PROVE queue'[c] \in Seq(Events) /\ Len(queue'[c]) <= QueueSize
    <3>1. queue[c] \in Seq(Events) /\ Len(queue[c]) <= QueueSize /\ Len(queue[c]) \in Nat
      BY LenProperties DEF TypeOK
    <3>2. CASE c \in registered \ Overfull
      <4>1. queue'[c] = Append(queue[c], events') /\ Len(queue[c]) < QueueSize
        BY <1>1, <3>1, <3>2, SizeAssumption DEF Broadcast, HandTo, Overfull
      <4> QED  BY <2>1, <3>1, <4>1, AppendProperties, SizeAssumption
    <3>3. CASE c \notin registered \ Overfull
      BY <1>1, <3>1, <3>3 DEF Broadcast, HandTo
    <3> QED  BY <3>2, <3>3
  <2>3. queue' \in [Clients -> Seq(Events)]
    <3>1. DOMAIN queue' = Clients /\ queue' = [c \in Clients |-> queue'[c]]
      BY <1>1 DEF Broadcast, HandTo
    <3> QED  BY <2>2, <3>1
  <2>4. events' \in 0..MaxEvents
    BY <2>1, EventOrNone
  <2>5. missed' \subseteq Clients /\ stale' \in [Casters -> SUBSET Clients]
    BY <1>1 DEF Broadcast, MarkStale, Overfull, TypeOK
  <2> QED  BY <1>1, <2>2, <2>3, <2>4, <2>5 DEF Broadcast, CasterOnly, process, TypeOK
<1>2. CASE Disconnect(b)
  <2>1. PICK c \in stale[b]:
          IF c \in registered
          THEN Pop(c) /\ awaited' = [awaited EXCEPT ![b] = c] /\ UNCHANGED <<stale, link>>
          ELSE /\ stale' = [stale EXCEPT ![b] = @ \ {c}]
               /\ link' = [link EXCEPT ![c] = "closed"]
               /\ UNCHANGED <<registered, cancelled, awaited>>
    BY <1>2 DEF Disconnect
  <2>2. c \in Clients
    BY DEF TypeOK
  <2>3. /\ registered' \subseteq Clients /\ cancelled' \subseteq Clients
        /\ awaited' \in [Casters -> Clients \cup {NoClient}]
        /\ stale' \in [Casters -> SUBSET Clients]
    <3>1. CASE c \in registered
      <4>1. /\ registered' = registered \ {c} /\ cancelled' \in {cancelled, cancelled \cup {c}}
            /\ awaited' = [awaited EXCEPT ![b] = c] /\ stale' = stale
        BY <2>1, <3>1 DEF Pop
      <4> QED  BY <2>2, <4>1 DEF TypeOK
    <3>2. CASE c \notin registered
      <4>1. /\ registered' = registered /\ cancelled' = cancelled /\ awaited' = awaited
            /\ stale' = [stale EXCEPT ![b] = @ \ {c}]
        BY <2>1, <3>2
      <4> QED  BY <4>1 DEF TypeOK
    <3> QED  BY <3>1, <3>2
  <2>4. link' \in [Clients -> {"none", "open", "left", "closed"}]
    BY <2>1, <2>2 DEF TypeOK
  <2> QED  BY <1>2, <2>3, <2>4 DEF Disconnect, CasterOnly, process, TypeOK
<1>3. CASE Disconnected(b)
  <2>1. /\ awaited' \in [Casters -> Clients \cup {NoClient}]
        /\ stale' \in [Casters -> SUBSET Clients]
        /\ link' \in [Clients -> {"none", "open", "left", "closed"}]
    BY <1>3 DEF Disconnected, TypeOK
  <2> QED  BY <1>3, <2>1 DEF Disconnected, CasterOnly, process, TypeOK
<1> QED  BY <1>1, <1>2, <1>3 DEF Caster

LEMMA ProcessTypes ==
  ASSUME TypeOK, CloseSockets \/ CancelTasks \/ CleanUp
  PROVE  TypeOK'
<1>1. CASE CloseSockets
  <2>1. faults' \in 0..MaxFaults
    BY <1>1, FaultTyped DEF CloseSockets
  <2>2. link' \in [Clients -> {"none", "open", "left", "closed"}]
    BY <1>1 DEF CloseSockets, TypeOK
  <2> QED  BY <1>1, <2>1, <2>2 DEF CloseSockets, task, cast, history, TypeOK
<1>2. CASE CancelTasks
  <2>1. cancelled' \subseteq Clients
    BY <1>2 DEF CancelTasks, Awaiting, TypeOK
  <2>2. fate' \in [Casters -> {"runs", "ended", "deaf"}] /\ stale' \in [Casters -> SUBSET Clients]
    BY <1>2 DEF CancelTasks, TypeOK
  <2> QED  BY <1>2, <2>1, <2>2 DEF CancelTasks, session, history, TypeOK
<1>3. CASE CleanUp
  BY <1>3 DEF CleanUp, session, task, cast, history, TypeOK
<1> QED  BY <1>1, <1>2, <1>3

----------------------------------------------------------------------------
(* Places                                                                  *)

ClientStep(c) == Connect(c) \/ Leave(c) \/ Handler(c) \/ Sender(c)

\* All that the invariants say of a client depends on this much of the state.
Alone(d) ==
  /\ handler'[d] = handler[d] /\ sender'[d] = sender[d] /\ payload'[d] = payload[d]
  /\ queue'[d] = queue[d] /\ seen'[d] = seen[d] /\ joined'[d] = joined[d]
  /\ (d \in registered' <=> d \in registered) /\ (d \in cancelled' <=> d \in cancelled)

LEMMA OthersAlone ==
  ASSUME TypeOK, NEW c \in Clients, NEW d \in Clients, c # d, ClientStep(c)
  PROVE  Alone(d)
<1> USE DEF Alone, TypeOK
<1>1. CASE Connect(c)
  BY <1>1 DEF Connect
<1>2. CASE Leave(c)
  BY <1>2 DEF Leave, task, history
<1>3. CASE Received(c) \/ Dropped(c)
  BY <1>3 DEF Received, Dropped, Pop, task, history
<1>4. CASE Take(c) \/ Begin(c) \/ Sent(c)
  BY <1>4 DEF Take, Begin, Sent, SenderOnly
<1>5. CASE SendFails(c)
  BY <1>5 DEF SendFails, Unregister, SenderOnly
<1>6. CASE Cancelled(c)
  <2>1. sender' \in {[sender EXCEPT ![c] = "done"], [sender EXCEPT ![c] = "closing"]}
    BY <1>6 DEF Cancelled, Done
  <2>2. queue' \in {queue, [queue EXCEPT ![c] = <<>>]}
    BY <1>6 DEF Cancelled, Done
  <2>3. seen' \in {seen, [seen EXCEPT ![c] = Append(@, payload[c])]}
    BY <1>6 DEF Cancelled
  <2>4. registered' \in {registered, registered \ {c}} /\ cancelled' = cancelled \ {c}
    BY <1>6 DEF Cancelled, Unregister
  <2>5. payload' = [payload EXCEPT ![c] = 0] /\ UNCHANGED <<handler, joined>>
    BY <1>6 DEF Cancelled, SenderOnly
  <2> QED  BY <2>1, <2>2, <2>3, <2>4, <2>5
<1>7. CASE Closed(c)
  BY <1>7 DEF Closed, Done, SenderOnly
<1> QED  BY <1>1, <1>2, <1>3, <1>4, <1>5, <1>6, <1>7 DEF ClientStep, Handler, Sender

LEMMA ClientPlaced ==
  ASSUME TypeOK, Places, NEW c \in Clients, ClientStep(c)
  PROVE  Places'
<1>1. awaited' = awaited
  BY DEF ClientStep, Connect, Leave, Handler, Received, Dropped, Sender, Take, Begin, Sent,
         SendFails, Cancelled, Closed, SenderOnly, cast
<1>2. ASSUME NEW d \in Clients, c # d  PROVE Placed(d)'
  BY <1>1, <1>2, OthersAlone DEF Places, Placed, Fresh, Alone
<1>3. Placed(c)
  BY DEF Places
<1>4. CASE Connect(c)
  <2>1. /\ handler'[c] = "receiving" /\ sender'[c] = "created" /\ payload'[c] = payload[c]
        /\ cancelled' = cancelled
    BY <1>4 DEF Connect, TypeOK
  <2>2. Fresh(c)
    BY <1>3, <1>4 DEF Placed, Connect
  <2> QED  BY <1>1, <1>2, <1>3, <2>1, <2>2, Zenon DEF Places, Placed, Fresh
<1>5. CASE Leave(c)
  BY <1>1, <1>2, <1>3, <1>5 DEF Leave, task, history, Places, Placed, Fresh
<1>6. CASE Received(c) \/ Dropped(c)
  <2>1. /\ handler'[c] \in {"dropping", "done"} /\ c \notin registered'
        /\ sender' = sender /\ payload' = payload
    BY <1>3, <1>6 DEF Received, Dropped, Pop, task, TypeOK, Placed
  <2> QED  BY <1>2, <1>3, <2>1 DEF Places, Placed
<1>7. CASE Take(c) \/ Begin(c) \/ Sent(c)
  <2>1. /\ sender[c] \in {"created", "waiting", "sending"} /\ handler' = handler
        /\ sender'[c] \in {"waiting", "sending"}
        /\ UNCHANGED <<registered, cancelled>>
    BY <1>7 DEF Take, Begin, Sent, SenderOnly, TypeOK
  <2>2. payload'[c] # 0 <=> sender'[c] = "sending"
    <3>1. CASE Take(c)
      <4>1. Head(queue[c]) # 0
        BY <3>1, TailEvents, EventsAreNumbers DEF Take, TypeOK
      <4> QED  BY <3>1, <4>1 DEF Take, TypeOK
    <3>2. CASE Begin(c)
      <4>1. sender'[c] = "waiting" /\ payload'[c] = payload[c] /\ sender[c] = "created"
        BY <3>2 DEF Begin, TypeOK
      <4> QED  BY <1>3, <4>1 DEF Placed
    <3>3. CASE Sent(c)
      <4>1. sender'[c] = "waiting" /\ payload'[c] = 0
        BY <3>3 DEF Sent, TypeOK
      <4> QED  BY <4>1
    <3> QED  BY <1>7, <3>1, <3>2, <3>3
  <2>3. handler[c] # "new"
    BY <1>3, <2>1 DEF Placed, Fresh
  <2> QED  BY <1>1, <1>2, <1>3, <2>1, <2>2, <2>3, Zenon DEF Places, Placed
<1>8. CASE SendFails(c)
  <2>1. /\ sender'[c] = "closing" /\ payload'[c] = 0 /\ c \notin registered'
        /\ handler' = handler /\ sender[c] = "sending"
    BY <1>8 DEF SendFails, Unregister, SenderOnly, TypeOK
  <2> QED  BY <1>2, <1>3, <2>1 DEF Places, Placed, Fresh
<1>9. CASE Cancelled(c)
  <2>1. c \in cancelled /\ handler' = handler /\ payload'[c] = 0
    BY <1>9 DEF Cancelled, SenderOnly, TypeOK
  <2>2. sender'[c] \in {"done", "closing"}
    BY <1>9 DEF Cancelled, Done, TypeOK
  <2>3. c \notin registered'
    BY <1>3, <1>9, <2>1 DEF Placed, Cancelled, Unregister
  <2> QED  BY <1>2, <1>3, <2>1, <2>2, <2>3 DEF Places, Placed, Fresh
<1>10. CASE Closed(c)
  <2>1. /\ sender'[c] = "done" /\ payload' = payload /\ registered' = registered
        /\ handler' = handler /\ sender[c] = "closing"
    BY <1>10 DEF Closed, Done, SenderOnly, TypeOK
  <2> QED  BY <1>2, <1>3, <2>1 DEF Places, Placed, Fresh
<1> QED
  BY <1>4, <1>5, <1>6, <1>7, <1>8, <1>9, <1>10 DEF ClientStep, Handler, Sender

LEMMA CasterPlaced ==
  ASSUME TypeOK, Places, NEW b \in Casters, Broadcast(b) \/ Caster(b)
  PROVE  Places'
<1>1. UNCHANGED <<handler, sender, payload, seen>>
  BY DEF Broadcast, Caster, Disconnect, Disconnected, CasterOnly
<1>2. CASE Broadcast(b)
  <2>1. UNCHANGED <<registered, cancelled, awaited>>
    BY <1>2 DEF Broadcast
  <2>2. \A c \in Clients: c \notin registered => queue'[c] = queue[c]
    BY <1>2 DEF Broadcast, HandTo
  <2> QED  BY <1>1, <2>1, <2>2 DEF Places, Placed, Fresh
<1>3. CASE Disconnect(b)
  <2>1. queue' = queue
    BY <1>3 DEF Disconnect
  <2>2. PICK c \in Clients:
          \/ c \in registered /\ Pop(c) /\ awaited' = [awaited EXCEPT ![b] = c]
          \/ UNCHANGED <<registered, cancelled, awaited>>
    BY <1>3 DEF Disconnect, TypeOK
  <2>3. CASE c \in registered /\ Pop(c) /\ awaited' = [awaited EXCEPT ![b] = c]
    <3>1. /\ registered' = registered \ {c} /\ cancelled' \subseteq cancelled \cup {c}
          /\ handler[c] # "new"
      BY <2>3 DEF Pop, Places, Placed
    <3>2. \A a \in Casters: awaited'[a] = awaited[a] \/ awaited'[a] = c
      BY <2>3 DEF TypeOK
    <3>3. ASSUME NEW d \in Clients, d # c  PROVE Placed(d)'
      BY <1>1, <2>1, <3>1, <3>2, <3>3 DEF Places, Placed, Fresh
    <3>4. Placed(c)'
      BY <1>1, <3>1 DEF Places, Placed
    <3> QED  BY <3>3, <3>4 DEF Places
  <2> QED  BY <1>1, <2>1, <2>2, <2>3 DEF Places, Placed, Fresh
<1>4. CASE Disconnected(b)
  <2>1. UNCHANGED <<queue, registered, cancelled>>
    BY <1>4 DEF Disconnected
  <2>2. \A a \in Casters: awaited'[a] = awaited[a] \/ awaited'[a] = NoClient
    BY <1>4 DEF Disconnected, TypeOK
  <2> QED  BY <1>1, <2>1, <2>2, NoClientAssumption DEF Places, Placed, Fresh
<1> QED  BY <1>2, <1>3, <1>4 DEF Caster

LEMMA ProcessPlaced ==
  ASSUME TypeOK, Places, CloseSockets \/ CancelTasks \/ CleanUp \/ UNCHANGED vars
  PROVE  Places'
<1>1. UNCHANGED <<handler, sender, payload, seen, queue, registered, awaited>>
  BY DEF CloseSockets, CancelTasks, CleanUp, vars, session, task, cast, history
<1>2. \A c \in cancelled' \ cancelled: \E b \in Casters: awaited[b] = c
  BY DEF CloseSockets, CancelTasks, CleanUp, vars, task, Awaiting
<1> QED  BY <1>1, <1>2 DEF Places, Placed, Fresh

----------------------------------------------------------------------------
(* The events of each client                                               *)

LEMMA ClientShown ==
  ASSUME TypeOK, Places, Shown, NEW c \in Clients, ClientStep(c)
  PROVE  Shown'
<1>1. UNCHANGED <<stale, events>>
  BY DEF ClientStep, Connect, Leave, Handler, Received, Dropped, Sender, Take, Begin, Sent,
         SendFails, Cancelled, Closed, SenderOnly, cast, history
<1> DEFINE Good(d) ==
      /\ Ordered(seen[d], payload[d], queue[d], events)
      /\ d \in registered => \/ Complete(seen[d], payload[d], queue[d], joined[d], events)
                             \/ \E b \in Casters: d \in stale[b]
<1>2. \A d \in Clients: Good(d)
  BY DEF Shown
<1>3. SUFFICES \A d \in Clients: Good(d)'
  <2>1. registered' \subseteq Clients
    BY ClientTypes DEF ClientStep, TypeOK
  <2> QED  BY <2>1 DEF Shown
<1>4. ASSUME NEW d \in Clients, c # d  PROVE Good(d)'
  BY <1>1, <1>2, <1>4, OthersAlone DEF Alone
<1>5. SUFFICES Good(c)'
  BY <1>4
<1>6. /\ seen[c] \in Seq(Events) /\ queue[c] \in Seq(Events) /\ payload[c] \in 0..MaxEvents
      /\ events \in Nat /\ joined[c] \in Nat
  BY SizeAssumption DEF TypeOK
<1>7. Ordered(seen[c], payload[c], queue[c], events)
  BY <1>2
<1>8. Placed(c)
  BY DEF Places
<1>9. CASE Connect(c)
  <2>1. /\ seen'[c] = <<>> /\ queue'[c] = <<>> /\ payload'[c] = 0 /\ joined'[c] = events
    BY <1>8, <1>9 DEF Connect, Placed, Fresh, TypeOK
  <2>2. Ordered(<<>>, 0, <<>>, events)
    BY <1>6, EmptyEvents DEF Ordered
  <2>3. Complete(<<>>, 0, <<>>, events, events)
    BY <1>6, EmptyEvents DEF Complete, InHand, RunFrom
  <2> QED  BY <1>1, <2>1, <2>2, <2>3
<1>10. CASE Leave(c) \/ Begin(c)
  BY <1>1, <1>2, <1>10 DEF Leave, Begin, SenderOnly, task, history
<1>11. CASE Received(c) \/ Dropped(c)
  <2>1. UNCHANGED <<seen, queue, payload, joined>> /\ registered' \subseteq registered
    BY <1>11 DEF Received, Dropped, Pop, task, history
  <2> QED  BY <1>1, <1>2, <2>1
<1>12. CASE Take(c)
  <2>1. /\ queue[c] # <<>> /\ payload[c] = 0 /\ UNCHANGED <<seen, joined, registered>>
        /\ payload'[c] = Head(queue[c]) /\ queue'[c] = Tail(queue[c])
    BY <1>8, <1>12 DEF Take, SenderOnly, Placed, TypeOK
  <2> QED  BY <1>1, <1>2, <1>6, <2>1, TakeKeeps
<1>13. CASE Sent(c)
  <2>1. /\ payload[c] \in Events /\ UNCHANGED <<queue, joined, registered>>
        /\ payload'[c] = 0 /\ seen'[c] = Append(seen[c], payload[c])
    BY <1>6, <1>8, <1>13, EventOrNone DEF Sent, SenderOnly, Placed, TypeOK
  <2> QED  BY <1>1, <1>2, <1>6, <2>1, SentKeeps
<1>14. CASE SendFails(c) \/ Cancelled(c) \/ Closed(c)
  <2>1. c \notin registered'
    <3>1. CASE SendFails(c)
      BY <3>1 DEF SendFails, Unregister
    <3>2. CASE Cancelled(c)
      BY <1>8, <3>2 DEF Cancelled, Unregister, Placed
    <3>3. CASE Closed(c)
      BY <1>8, <3>3 DEF Closed, Placed
    <3> QED  BY <1>14, <3>1, <3>2, <3>3
  <2>2. payload'[c] = 0
    BY <1>8, <1>14 DEF SendFails, Cancelled, Closed, Placed, TypeOK
  <2>3. queue'[c] = queue[c] \/ queue'[c] = <<>>
    BY <1>14 DEF SendFails, Cancelled, Closed, Done, TypeOK
  <2>4. \/ seen'[c] = seen[c]
        \/ payload[c] # 0 /\ seen'[c] = Append(seen[c], payload[c])
    BY <1>8, <1>14 DEF SendFails, Cancelled, Closed, Placed, TypeOK
  <2>5. Ordered(seen'[c], 0, queue[c], events)
    <3>1. CASE seen'[c] = seen[c]
      BY <1>6, <1>7, <3>1, DropKeeps
    <3>2. CASE payload[c] # 0 /\ seen'[c] = Append(seen[c], payload[c])
      BY <1>6, <1>7, <3>2, EventOrNone, SentKeeps
    <3> QED  BY <2>4, <3>1, <3>2
  <2>6. seen'[c] \in Seq(Events)
    BY <1>6, <2>4, EventOrNone, AppendProperties
  <2> QED  BY <1>1, <1>6, <2>1, <2>2, <2>3, <2>5, <2>6, DropKeeps
<1> QED
  BY <1>9, <1>10, <1>11, <1>12, <1>13, <1>14 DEF ClientStep, Handler, Sender

LEMMA OtherShown ==
  ASSUME TypeOK, Places, Shown,
         \/ \E b \in Casters: Broadcast(b) \/ Caster(b)
         \/ CloseSockets \/ CancelTasks \/ CleanUp \/ UNCHANGED vars
  PROVE  Shown'
<1>1. UNCHANGED <<seen, payload, joined>>
  BY DEF Broadcast, Caster, Disconnect, Disconnected, CasterOnly, CloseSockets, CancelTasks,
         CleanUp, vars, task, history
<1>2. ASSUME NEW b \in Casters, Broadcast(b)  PROVE Shown'
  <2>1. /\ events' = events + 1 /\ events \in Nat /\ events + 1 \in Events
        /\ stale[b] = {} /\ stale'[b] = Overfull /\ registered' = registered
        /\ \A a \in Casters: a # b => stale'[a] = stale[a]
    BY <1>2, SizeAssumption DEF Broadcast, MarkStale, TypeOK, Events
  <2>2. ASSUME NEW c \in Clients
        PROVE  /\ Ordered(seen[c], payload[c], queue'[c], events + 1)
               /\ c \in registered =>
                    \/ Complete(seen[c], payload[c], queue'[c], joined[c], events + 1)
                    \/ \E a \in Casters: c \in stale'[a]
    <3>1. /\ seen[c] \in Seq(Events) /\ queue[c] \in Seq(Events) /\ payload[c] \in 0..MaxEvents
          /\ joined[c] \in Nat /\ Ordered(seen[c], payload[c], queue[c], events)
          /\ c \in registered => \/ Complete(seen[c], payload[c], queue[c], joined[c], events)
                                 \/ \E a \in Casters: c \in stale[a]
      <4>1. /\ seen[c] \in Seq(Events) /\ queue[c] \in Seq(Events)
            /\ payload[c] \in 0..MaxEvents /\ joined[c] \in Nat
        BY SizeAssumption DEF TypeOK
      <4> QED  BY <4>1 DEF Shown
    <3>2. CASE c \in registered \ Overfull
      <4>1. queue'[c] = Append(queue[c], events + 1)
        BY <1>2, <2>1, <3>2 DEF Broadcast, HandTo
      <4>2. \A a \in Casters: c \in stale[a] => c \in stale'[a]
        BY <2>1
      <4> QED  BY <2>1, <3>1, <4>1, <4>2, HandedKeeps
    <3>3. CASE c \notin registered \ Overfull
      <4>1. queue'[c] = queue[c]
        BY <1>2, <3>3 DEF Broadcast, HandTo
      <4>2. c \in registered => c \in stale'[b]
        BY <2>1, <3>3
      <4> QED  BY <2>1, <3>1, <4>1, <4>2, HandedKeeps
    <3> QED  BY <3>2, <3>3
  <2> QED  BY <1>1, <2>1, <2>2 DEF Shown, TypeOK
<1>3. ASSUME NEW b \in Casters, Caster(b)  PROVE Shown'
  <2>1. UNCHANGED <<queue, events>> /\ registered' \subseteq registered
    BY <1>3 DEF Caster, Disconnect, Disconnected, Pop
  <2>2. ASSUME NEW c \in registered', NEW a \in Casters, c \in stale[a]  PROVE c \in stale'[a]
    <3>1. c \in registered /\ \A e \in Casters: awaited[e] # c
      BY <2>1 DEF Places, Placed, TypeOK
    <3>2. stale' = stale \/ \E d \in stale[b]: d # c /\ stale' = [stale EXCEPT ![b] = @ \ {d}]
      BY <1>3, <3>1 DEF Caster, Disconnect, Disconnected
    <3> QED  BY <2>2, <3>2 DEF TypeOK
  <2> QED  BY <1>1, <2>1, <2>2 DEF Shown
<1>4. CASE CloseSockets \/ CleanUp \/ UNCHANGED vars
  BY <1>1, <1>4 DEF CloseSockets, CleanUp, vars, cast, task, history, Shown
<1>5. CASE CancelTasks
  <2>1. UNCHANGED <<registered, queue, events>>
    BY <1>5 DEF CancelTasks, history
  <2>2. registered = {}
    BY <1>5 DEF CancelTasks, Places, Placed, TypeOK
  <2> QED  BY <1>1, <2>1, <2>2 DEF Shown
<1> QED  BY <1>2, <1>3, <1>4, <1>5

LEMMA DashStep == DashInv /\ [Next]_vars => DashInv'
<1> SUFFICES ASSUME TypeOK, Places, Shown, [Next]_vars  PROVE TypeOK' /\ Places' /\ Shown'
  BY DEF DashInv
<1>1. ASSUME NEW c \in Clients, ClientStep(c)  PROVE TypeOK' /\ Places' /\ Shown'
  BY <1>1, ClientTypes, ClientPlaced, ClientShown DEF ClientStep
<1>2. ASSUME NEW b \in Casters, Broadcast(b) \/ Caster(b)  PROVE TypeOK' /\ Places' /\ Shown'
  BY <1>2, CasterTypes, CasterPlaced, OtherShown
<1>3. CASE CloseSockets \/ CancelTasks \/ CleanUp
  BY <1>3, ProcessTypes, ProcessPlaced, OtherShown
<1>4. CASE UNCHANGED vars
  <2>1. TypeOK'
    BY <1>4 DEF vars, session, task, cast, process, history, TypeOK
  <2> QED  BY <1>4, <2>1, ProcessPlaced, OtherShown
<1> QED  BY <1>1, <1>2, <1>3, <1>4 DEF Next, ClientStep

\* For any clients, casters and queue size: every variable keeps its type, and no
\* queue outgrows queue_size.
THEOREM DashboardTypes == Spec => []TypeOK
<1>1. DashInv => TypeOK
  BY DEF DashInv
<1> QED  BY <1>1, DashInit, DashStep, PTL DEF Spec

\* For any clients, casters and queue size: every entry of _connections has a sender
\* task that serves its queue, in every interleaving of disconnects, broadcasts,
\* sends that fail and the end of the process.
THEOREM EveryEntryIsServed == Spec => []RegisteredServed
<1>1. DashInv => RegisteredServed
  BY DEF DashInv, Places, Placed, RegisteredServed, TypeOK
<1> QED  BY <1>1, DashInit, DashStep, PTL DEF Spec

----------------------------------------------------------------------------
(* What a dashboard shows                                                  *)

\* The three parts of a complete run make up the sequence of all events since.
Whole(s, p, q) == s \o ((IF p = 0 THEN <<>> ELSE <<p>>) \o q)
After(j, e) == [i \in 1..(e - j) |-> j + i]

LEMMA CompleteIsWhole ==
  ASSUME NEW s \in Seq(Events), NEW p \in 0..MaxEvents, NEW q \in Seq(Events),
         NEW j \in Nat, NEW e \in Nat, Complete(s, p, q, j, e)
  PROVE  Whole(s, p, q) = After(j, e)
<1> DEFINE sending == IF p = 0 THEN <<>> ELSE <<p>>
<1>1. PICK n \in Nat, m \in Nat, k \in Nat:
        /\ Len(s) = n /\ DOMAIN s = 1..n /\ k = InHand(p) /\ Len(q) = m /\ DOMAIN q = 1..m
  BY LenProperties DEF InHand
<1>2. sending \in Seq(Events) /\ Len(sending) = k /\ (k # 0 => k = 1 /\ sending[1] = p /\ p # 0)
  <2>1. CASE p = 0
    BY <1>1, <2>1, EmptyEvents DEF InHand
  <2>2. CASE p # 0
    <3>1. p \in Events
      BY <2>2, EventOrNone
    <3>2. sending = Append(<<>>, p)
      BY <2>2
    <3>3. /\ Append(<<>>, p) \in Seq(Events)
          /\ Len(Append(<<>>, p)) = 0 + 1 /\ Append(<<>>, p)[0 + 1] = p
      BY <3>1, EmptyEvents, AppendProperties
    <3> QED  BY <1>1, <2>2, <3>2, <3>3 DEF InHand
  <2> QED  BY <2>1, <2>2
<1> HIDE DEF sending
<1>3. PICK r \in Seq(Events):
        /\ r = sending \o q /\ Len(r) = k + m
        /\ \A i \in 1..k + m: r[i] = IF i <= k THEN sending[i] ELSE q[i - k]
  <2>1. /\ sending \o q \in Seq(Events) /\ Len(sending \o q) = Len(sending) + Len(q)
        /\ \A i \in 1..Len(sending) + Len(q):
             (sending \o q)[i] = IF i <= Len(sending) THEN sending[i] ELSE q[i - Len(sending)]
    BY <1>2, ConcatProperties
  <2> QED  BY <1>1, <1>2, <2>1
<1>4. PICK t \in Seq(Events):
        /\ t = s \o r /\ Len(t) = n + (k + m)
        /\ \A i \in 1..n + (k + m): t[i] = IF i <= n THEN s[i] ELSE r[i - n]
  <2>1. /\ s \o r \in Seq(Events) /\ Len(s \o r) = Len(s) + Len(r)
        /\ \A i \in 1..Len(s) + Len(r):
             (s \o r)[i] = IF i <= Len(s) THEN s[i] ELSE r[i - Len(s)]
    BY ConcatProperties
  <2> QED  BY ZenonT(40), <1>1, <1>3, <2>1
<1>5. /\ j + n + k + m = e
      /\ \A i \in 1..n: s[i] = (j + 1) + i - 1
      /\ k # 0 => p = j + n + 1
      /\ \A i \in 1..m: q[i] = (j + n + k + 1) + i - 1
  BY <1>1, <1>2 DEF Complete, RunFrom
<1>6. ASSUME NEW i \in 1..(e - j)  PROVE t[i] = j + i
  <2>1. i \in 1..(n + (k + m)) /\ i \in Nat
    BY <1>1, <1>5
  <2>2. CASE i <= n
    BY <1>1, <1>4, <1>5, <2>1, <2>2
  <2>3. CASE i > n
    <3>1. t[i] = r[i - n] /\ i - n \in 1..(k + m)
      BY <1>1, <1>4, <2>1, <2>3
    <3>2. CASE i - n <= k
      <4>1. k = 1 /\ i - n = 1 /\ sending[1] = p /\ p = j + n + 1
        BY SMTT(20), <1>1, <1>2, <1>5, <3>1, <3>2
      <4>2. r[i - n] = sending[i - n]
        BY <1>3, <3>1, <3>2
      <4> QED  BY <1>1, <2>1, <3>1, <4>1, <4>2
    <3>3. CASE i - n > k
      <4>1. r[i - n] = q[i - n - k] /\ i - n - k \in 1..m
        BY SMTT(20), <1>1, <1>3, <2>1, <3>1, <3>3
      <4>2. q[i - n - k] = (j + n + k + 1) + (i - n - k) - 1
        BY <1>5, <4>1
      <4> QED  BY <1>1, <2>1, <3>1, <4>1, <4>2
    <3> QED  BY <1>1, <2>1, <3>1, <3>2, <3>3
  <2> QED  BY <1>1, <2>1, <2>2, <2>3
<1>7. DOMAIN t = 1..(e - j)
  <2>1. n + (k + m) = e - j
    <3>1. j + n + k + m = e
      BY <1>5
    <3> QED  BY <3>1
  <2> QED  BY <1>4, <2>1, LenProperties
<1>8. t = [i \in 1..(e - j) |-> j + i]
  <2>1. t \in [1..Len(t) -> Events] /\ DOMAIN t = 1..Len(t)
    BY LenProperties
  <2>2. t = [i \in DOMAIN t |-> t[i]]
    BY <2>1
  <2> QED  BY <1>6, <1>7, <2>2
<1> QED  BY <1>3, <1>4, <1>8 DEF sending, Whole, After

\* For any clients, casters, queue size and faults: a dashboard that stays connected
\* is shown every event since it connected, once and in order.
THEOREM DashboardsHaveNoGap == Spec => []GapFree
<1>1. DashInv => GapFree
  <2> SUFFICES ASSUME DashInv, NEW c \in Clients
               PROVE  /\ \/ c \notin registered
                         \/ seen[c] \o Pending(c)
                              = [i \in 1..(events - joined[c]) |-> joined[c] + i]
                         \/ \E b \in Casters: c \in stale[b]
                      /\ \A i, j \in DOMAIN seen[c]: i < j => seen[c][i] < seen[c][j]
    BY DEF GapFree
  <2>1. /\ seen[c] \in Seq(Events) /\ queue[c] \in Seq(Events) /\ payload[c] \in 0..MaxEvents
        /\ joined[c] \in Nat /\ events \in Nat
    BY SizeAssumption DEF DashInv, TypeOK
  <2>2. ASSUME c \in registered, ~ \E b \in Casters: c \in stale[b]
        PROVE  seen[c] \o Pending(c) = [i \in 1..(events - joined[c]) |-> joined[c] + i]
    <3>1. Complete(seen[c], payload[c], queue[c], joined[c], events)
      BY <2>2 DEF DashInv, Shown
    <3>2. Whole(seen[c], payload[c], queue[c]) = After(joined[c], events)
      BY <2>1, <3>1, CompleteIsWhole
    <3> QED  BY <3>2, Zenon DEF Pending, Sending, Whole, After
  <2>3. \A i, j \in DOMAIN seen[c]: i < j => seen[c][i] < seen[c][j]
    BY DEF DashInv, Shown, Ordered
  <2> QED  BY <2>2, <2>3
<1> QED  BY <1>1, DashInit, DashStep, PTL DEF Spec
=============================================================================
