----------------------------- MODULE Dashboard -----------------------------
(***************************************************************************)
(* The realtime path of the API process: the Pub/Sub bridge and the        *)
(* metrics loop broadcast events through the ConnectionManager to the      *)
(* WebSocket of every open dashboard.                                      *)
(*                                                                         *)
(* All of it runs on one event loop: a step is the code between two        *)
(* awaits.  The sections under ConnectionManager._lock contain no await,   *)
(* so the lock is never found taken and has no state here.                 *)
(***************************************************************************)
EXTENDS Naturals, Sequences, FiniteSets, SequencesExt

CONSTANTS Clients,    \* dashboards, one WebSocket each
          Casters,    \* the tasks that call broadcast
          QueueSize,  \* queue_size of the ConnectionManager
          MaxEvents,  \* bound: events broadcast
          MaxFaults,  \* bound: clients that leave, sends that time out, ends of the process
          NoClient    \* a caster waits for no sender

ASSUME SizeAssumption == QueueSize \in Nat \ {0} /\ MaxEvents \in Nat /\ MaxFaults \in Nat
ASSUME NoClientAssumption == NoClient \notin Clients

VARIABLES
  link,       \* the WebSocket: not yet open, open, left by the client, closed
  handler,    \* dashboard_ws: "new", "receiving", "dropping", "done"
  registered, \* the keys of _connections
  queue,      \* the queue of each _ConnectionState
  sender,     \* the _sender task: not created, created, at an await, ended
  payload,    \* the event the sender is sending, 0 if none
  cancelled,  \* sender tasks with a cancellation they have not yet seen
  stale,      \* broadcast: the clients each caster still has to disconnect
  awaited,    \* disconnect within broadcast: the client whose sender is awaited
  life,       \* the process: up, closing its sockets, stopping its tasks, down
  fate,       \* each caster runs, has ended, or is deaf: its cancellation was swallowed
  \* history
  events,     \* events broadcast so far; they are numbered
  joined,     \* events when the client was registered
  seen,       \* events the client received
  missed,     \* clients that were not handed an event
  faults

session == <<link, handler>>
task == <<sender, payload, cancelled>>
cast == <<stale, awaited>>
process == <<life, fate>>
history == <<events, joined, seen, missed>>
vars == <<session, registered, queue, task, cast, process, history, faults>>

Events == 1..MaxEvents

TypeOK ==
  /\ link \in [Clients -> {"none", "open", "left", "closed"}]
  /\ handler \in [Clients -> {"new", "receiving", "dropping", "done"}]
  /\ registered \subseteq Clients
  /\ queue \in [Clients -> Seq(Events)] /\ \A c \in Clients: Len(queue[c]) <= QueueSize
  /\ sender \in [Clients -> {"none", "created", "waiting", "sending", "closing", "done"}]
  /\ payload \in [Clients -> 0..MaxEvents]
  /\ cancelled \subseteq Clients
  /\ stale \in [Casters -> SUBSET Clients]
  /\ awaited \in [Casters -> Clients \cup {NoClient}]
  /\ life \in {"up", "closing", "stopping", "down"} /\ fate \in [Casters -> {"runs", "ended", "deaf"}]
  /\ events \in 0..MaxEvents
  /\ joined \in [Clients -> 0..MaxEvents]
  /\ seen \in [Clients -> Seq(Events)]
  /\ missed \subseteq Clients
  /\ faults \in 0..MaxFaults

Init ==
  /\ link = [c \in Clients |-> "none"] /\ handler = [c \in Clients |-> "new"]
  /\ registered = {} /\ queue = [c \in Clients |-> <<>>]
  /\ sender = [c \in Clients |-> "none"] /\ payload = [c \in Clients |-> 0]
  /\ cancelled = {}
  /\ stale = [b \in Casters |-> {}] /\ awaited = [b \in Casters |-> NoClient]
  /\ life = "up" /\ fate = [b \in Casters |-> "runs"]
  /\ events = 0 /\ joined = [c \in Clients |-> 0]
  /\ seen = [c \in Clients |-> <<>>] /\ missed = {} /\ faults = 0

Fault == faults < MaxFaults /\ faults' = faults + 1

----------------------------------------------------------------------------
(* ConnectionManager.disconnect up to its first await                      *)

\* Mutant: the task is not cancelled.
PopKeepsTask(c) ==
  registered' = registered \ {c} /\ UNCHANGED cancelled

\* The entry is popped and its task cancelled.
Pop(c) ==
  /\ registered' = registered \ {c}
  /\ cancelled' = IF sender[c] = "done" THEN cancelled ELSE cancelled \cup {c}

----------------------------------------------------------------------------
(* dashboard_ws: one handler per client                                    *)

\* accept, then connect registers a queue and a sender task without an await.
Connect(c) ==
  /\ handler[c] = "new" /\ life = "up"
  /\ handler' = [handler EXCEPT ![c] = "receiving"]
  /\ link' = [link EXCEPT ![c] = "open"]
  /\ sender' = [sender EXCEPT ![c] = "created"]
  /\ registered' = registered \cup {c}
  /\ joined' = [joined EXCEPT ![c] = events]
  /\ UNCHANGED <<queue, payload, cancelled, cast, process, events, seen, missed, faults>>

\* The client closes the page or loses its network.
Leave(c) ==
  /\ link[c] = "open" /\ Fault
  /\ link' = [link EXCEPT ![c] = "left"]
  /\ UNCHANGED <<handler, registered, queue, task, cast, process, history>>

\* receive_text raises, and disconnect begins; without an entry it only closes.
Received(c) ==
  /\ handler[c] = "receiving" /\ link[c] \in {"left", "closed"}
  /\ IF c \in registered
     THEN Pop(c) /\ handler' = [handler EXCEPT ![c] = "dropping"] /\ UNCHANGED link
     ELSE /\ handler' = [handler EXCEPT ![c] = "done"]
          /\ link' = [link EXCEPT ![c] = "closed"]
          /\ UNCHANGED <<registered, cancelled>>
  /\ UNCHANGED <<queue, sender, payload, cast, process, history, faults>>

\* The sender task has ended: disconnect closes the socket and returns.
Dropped(c) ==
  /\ handler[c] = "dropping" /\ sender[c] = "done"
  /\ handler' = [handler EXCEPT ![c] = "done"]
  /\ link' = [link EXCEPT ![c] = "closed"]
  /\ UNCHANGED <<registered, queue, task, cast, process, history, faults>>

----------------------------------------------------------------------------
(* ConnectionManager._sender: one task per connection                      *)

SenderOnly == UNCHANGED <<handler, cast, process, events, joined, missed>>

\* queue.get returns.
Take(c) ==
  /\ sender[c] \in {"created", "waiting"} /\ c \notin cancelled /\ queue[c] # <<>>
  /\ payload' = [payload EXCEPT ![c] = Head(queue[c])]
  /\ queue' = [queue EXCEPT ![c] = Tail(@)]
  /\ sender' = [sender EXCEPT ![c] = "sending"]
  /\ SenderOnly /\ UNCHANGED <<link, registered, cancelled, seen, faults>>

\* The task has begun, and waits for an event.
Begin(c) ==
  /\ sender[c] = "created" /\ c \notin cancelled /\ queue[c] = <<>>
  /\ sender' = [sender EXCEPT ![c] = "waiting"]
  /\ SenderOnly /\ UNCHANGED <<link, registered, queue, payload, cancelled, seen, faults>>

\* send_json is done.
Sent(c) ==
  /\ sender[c] = "sending" /\ c \notin cancelled /\ link[c] = "open"
  /\ seen' = [seen EXCEPT ![c] = Append(@, payload[c])]
  /\ payload' = [payload EXCEPT ![c] = 0]
  /\ sender' = [sender EXCEPT ![c] = "waiting"]
  /\ SenderOnly /\ UNCHANGED <<link, registered, queue, cancelled, faults>>

\* Mutant: the finally clause does not remove the entry.
UnregisterNot(c) == UNCHANGED registered

\* The finally clause: the entry goes if it is still this task's.
Unregister(c) == registered' = registered \ {c}

\* Mutant: a send that fails is tried again.
SendFailsRetried(c) ==
  /\ sender[c] = "sending" /\ c \notin cancelled
  /\ IF link[c] = "open" THEN Fault ELSE UNCHANGED faults
  /\ \/ UNCHANGED seen
     \/ link[c] = "open" /\ seen' = [seen EXCEPT ![c] = Append(@, payload[c])]
  /\ SenderOnly /\ UNCHANGED <<link, registered, queue, sender, payload, cancelled>>

\* send_json fails or takes longer than send_timeout_s: the event may have
\* reached the client or not.
SendFails(c) ==
  /\ sender[c] = "sending" /\ c \notin cancelled
  /\ IF link[c] = "open" THEN Fault ELSE UNCHANGED faults
  /\ Unregister(c)
  /\ \/ UNCHANGED seen
     \/ link[c] = "open" /\ seen' = [seen EXCEPT ![c] = Append(@, payload[c])]
  /\ payload' = [payload EXCEPT ![c] = 0]
  /\ sender' = [sender EXCEPT ![c] = "closing"]
  /\ SenderOnly /\ UNCHANGED <<link, queue, cancelled>>

\* The task ends, and nobody has its queue any more.
Done(c) ==
  /\ sender' = [sender EXCEPT ![c] = "done"]
  /\ queue' = [queue EXCEPT ![c] = <<>>]

\* CancelledError: a task that never began just ends, one that is closing gives
\* that up, any other goes through its finally clause.
Cancelled(c) ==
  /\ c \in cancelled /\ sender[c] # "done"
  /\ cancelled' = cancelled \ {c}
  /\ IF sender[c] \in {"created", "closing"}
     THEN Done(c) /\ UNCHANGED <<registered, seen>>
     ELSE /\ sender' = [sender EXCEPT ![c] = "closing"] /\ Unregister(c)
          /\ UNCHANGED queue
          /\ \/ UNCHANGED seen
             \/ /\ sender[c] = "sending" /\ link[c] = "open"
                /\ seen' = [seen EXCEPT ![c] = Append(@, payload[c])]
  /\ payload' = [payload EXCEPT ![c] = 0]
  /\ SenderOnly /\ UNCHANGED <<link, faults>>

\* websocket.close returns and the task is done.
Closed(c) ==
  /\ sender[c] = "closing" /\ c \notin cancelled
  /\ Done(c)
  /\ link' = [link EXCEPT ![c] = "closed"]
  /\ SenderOnly /\ UNCHANGED <<registered, payload, cancelled, seen, faults>>

----------------------------------------------------------------------------
(* ConnectionManager.broadcast: the bridge's and the metrics loop's        *)

CasterOnly == UNCHANGED <<handler, sender, payload, process, joined, seen, faults>>

\* The clients whose put_nowait raises QueueFull.
Overfull == {c \in registered: Len(queue[c]) >= QueueSize}

\* Mutant: a queue without maxsize.
HandToUnbounded(event) ==
  queue' = [c \in Clients |-> IF c \in registered THEN Append(queue[c], event) ELSE queue[c]]

\* put_nowait for every registered client.
HandTo(event) ==
  queue' = [c \in Clients |-> IF c \in registered \ Overfull THEN Append(queue[c], event)
                              ELSE queue[c]]

\* Mutant: a full queue is passed over.
MarkStaleNot(b) == UNCHANGED stale

\* The clients that broadcast disconnects when it is through.
MarkStale(b) == stale' = [stale EXCEPT ![b] = Overfull]

\* The snapshot of the connections and a put_nowait for each.  When the tasks are
\* being stopped there is nobody left to broadcast to.
Broadcast(b) ==
  /\ life \in {"up", "closing"} /\ stale[b] = {} /\ events < MaxEvents
  /\ events' = events + 1
  /\ HandTo(events')
  /\ missed' = missed \cup Overfull
  /\ MarkStale(b)
  /\ CasterOnly /\ UNCHANGED <<link, registered, cancelled, awaited>>

\* disconnect for the next stale client; one that lost its entry since is only closed.
Disconnect(b) == \E c \in stale[b]:
  /\ awaited[b] = NoClient
  /\ IF c \in registered
     THEN Pop(c) /\ awaited' = [awaited EXCEPT ![b] = c] /\ UNCHANGED <<stale, link>>
     ELSE /\ stale' = [stale EXCEPT ![b] = @ \ {c}]
          /\ link' = [link EXCEPT ![c] = "closed"]
          /\ UNCHANGED <<registered, cancelled, awaited>>
  /\ CasterOnly /\ UNCHANGED <<queue, events, missed>>

\* The awaited task has ended, and the socket is closed.
Disconnected(b) == \E c \in stale[b]:
  /\ awaited[b] = c /\ sender[c] = "done"
  /\ awaited' = [awaited EXCEPT ![b] = NoClient]
  /\ stale' = [stale EXCEPT ![b] = @ \ {c}]
  /\ link' = [link EXCEPT ![c] = "closed"]
  /\ CasterOnly /\ UNCHANGED <<registered, queue, cancelled, events, missed>>

----------------------------------------------------------------------------
(* The end of the process: a signal, or --limit-max-requests               *)

\* uvicorn accepts no more connections and fails the open ones.
CloseSockets ==
  /\ life = "up" /\ life' = "closing" /\ Fault
  /\ link' = [c \in Clients |-> IF link[c] = "open" THEN "left" ELSE link[c]]
  /\ UNCHANGED <<handler, registered, queue, task, cast, fate, history>>

\* The casters within a disconnect that awaits a sender task.
Awaiting == {b \in Casters: awaited[b] # NoClient}

\* The handlers are done, and lifespan cancels both tasks.  A cancellation goes to
\* the task that is awaited, and disconnect's except clause swallows it: such a
\* caster broadcasts on.
CancelTasks ==
  /\ life = "closing" /\ \A c \in Clients: handler[c] \in {"new", "done"}
  /\ life' = "stopping"
  /\ fate' = [b \in Casters |-> IF b \in Awaiting THEN "deaf" ELSE "ended"]
  /\ stale' = [b \in Casters |-> IF b \in Awaiting THEN stale[b] ELSE {}]
  /\ cancelled' = cancelled \cup {c \in {awaited[b]: b \in Awaiting}: sender[c] # "done"}
  /\ UNCHANGED <<session, registered, queue, sender, payload, awaited, history, faults>>

\* Both tasks have ended; Redis and the database are closed.
CleanUp ==
  /\ life = "stopping" /\ (\A b \in Casters: fate[b] = "ended") /\ life' = "down"
  /\ UNCHANGED <<session, registered, queue, task, cast, fate, history, faults>>

----------------------------------------------------------------------------
Handler(c) == Received(c) \/ Dropped(c)
Sender(c) == Take(c) \/ Begin(c) \/ Sent(c) \/ SendFails(c) \/ Cancelled(c) \/ Closed(c)
Caster(b) == Disconnect(b) \/ Disconnected(b)

Next ==
  \/ \E c \in Clients: Connect(c) \/ Leave(c) \/ Handler(c) \/ Sender(c)
  \/ \E b \in Casters: Broadcast(b) \/ Caster(b)
  \/ CloseSockets \/ CancelTasks \/ CleanUp

Spec == Init /\ [][Next]_vars

\* Every task that can run is run by the event loop, and send_json ends within
\* send_timeout_s; no client has to come or go, no event and no end has to happen.
Fairness ==
  /\ WF_vars(CancelTasks \/ CleanUp)
  /\ \A c \in Clients: WF_vars(Handler(c)) /\ WF_vars(Sender(c))
  /\ \A b \in Casters: WF_vars(Caster(b))

FairSpec == Spec /\ Fairness

----------------------------------------------------------------------------
(* Properties                                                              *)

Sending(c) == IF payload[c] = 0 THEN <<>> ELSE <<payload[c]>>
Pending(c) == Sending(c) \o queue[c]

\* Every entry of _connections has a sender task that still serves its queue,
\* however disconnects, broadcasts and failing sends interleave: broadcast never
\* fills a queue that nobody empties.
RegisteredServed ==
  \A c \in registered: sender[c] \in {"created", "waiting", "sending"} /\ c \notin cancelled

\* A dashboard that stays connected is shown every event since it connected,
\* once and in order; only one that a broadcast is about to disconnect may lack some,
\* and even the others are shown none twice or out of order.
GapFree ==
  \A c \in Clients:
    /\ \/ c \notin registered
       \/ seen[c] \o Pending(c) = [i \in 1..(events - joined[c]) |-> joined[c] + i]
       \/ \E b \in Casters: c \in stale[b]
    /\ \A i, j \in DOMAIN seen[c]: i < j => seen[c][i] < seen[c][j]

\* Of a client that left, and of one that was not handed an event, everything
\* goes: its entry, its task, its handler and its socket, so that the page connects
\* again, is never left showing a gap, and nothing leaks.
LostDropped == \A c \in Clients:
  link[c] = "left" \/ c \in missed
  ~> (/\ c \notin registered /\ sender[c] = "done"
      /\ handler[c] = "done" /\ link[c] = "closed")

\* A broadcast ends, however slow a client is: the bridge takes the next event.
BroadcastEnds == \A b \in Casters: stale[b] # {} ~> stale[b] = {}

\* The process gets through lifespan's clean-up, unless the cancellation of a task
\* met it within disconnect and was swallowed: then the process waits for it for ever.
ShutdownEnds ==
  life = "closing" ~> life = "down" \/ \E b \in Casters: fate[b] = "deaf"
=============================================================================
