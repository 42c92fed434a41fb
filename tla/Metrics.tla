------------------------------- MODULE Metrics -------------------------------
(***************************************************************************)
(* The numbers on the dashboard: the worker stores alerts and counts them  *)
(* in Redis; compute_metrics_response answers GET /metrics and the         *)
(* broadcast loop from one cache, filled under a lock by a scan of the     *)
(* alerts table and a read of the counters.  A step is the code between    *)
(* two awaits; time passes at any of them.                                 *)
(*                                                                         *)
(* Of the counters alerts_created stands for all, of the sums over bands   *)
(* of risk the alerts they count.  Ages are capped at TTL.                 *)
(***************************************************************************)
EXTENDS Naturals, Sequences, FiniteSets, SequencesExt

CONSTANTS Callers,   \* those that call compute_metrics_response
          Loop,      \* _metrics_broadcast_loop, one of them
          TTL,       \* _METRICS_CACHE_TTL
          MaxAlerts, \* bound: alerts ever stored
          MaxFaults, \* bound: failing calls, cancelled requests, worker deaths
          NoAnswer   \* None

Alerts == 1..MaxAlerts
Ages   == 0..TTL

\* A MetricsResponse: the alerts in the three sums, and alerts_created.
Answer == [seen: SUBSET Alerts, created: 0..MaxAlerts]

ASSUME MetricsAssumption ==
  /\ Loop \in Callers /\ TTL \in Nat \ {0}
  /\ MaxAlerts \in Nat /\ MaxFaults \in Nat /\ NoAnswer \notin Answer

VARIABLES
  alerts,   \* the alerts table
  age,      \* time since each alert was stored or deleted
  made,     \* alerts stored so far
  pending,  \* the worker has committed an alert and not yet counted it
  counter,  \* sentinel:metrics:alerts_created
  cache,    \* _metrics_cache
  stamp,    \* how long ago _metrics_cache_at is
  queue,    \* _metrics_cache_lock: its holder, then those waiting for it
  pc,       \* where each caller is
  now,      \* how long ago the holder read the clock
  scanned,  \* what the holder's scan returned
  shown,    \* the last answer of Loop, which is on the dashboards
  known,    \* history: the alerts that had not changed for TTL when a caller that
            \* waits called, and have not since
  faults

worker == <<alerts, age, made, pending, counter>>
store  == <<cache, stamp>>
holder == <<now, scanned>>
vars   == <<worker, store, queue, pc, holder, shown, known, faults>>

TypeOK ==
  /\ alerts \subseteq Alerts /\ age \in [Alerts -> Ages] /\ made \in 0..MaxAlerts
  /\ pending \in BOOLEAN /\ counter \in 0..MaxAlerts
  /\ cache \in Answer \cup {NoAnswer} /\ stamp \in Ages
  /\ queue \in Seq(Callers) /\ IsInjective(queue)
  /\ pc \in [Callers -> {"idle", "wait", "scan", "counters"}]
  /\ \A c \in Callers: pc[c] # "idle" <=> c \in ToSet(queue)
  /\ now \in Ages /\ scanned \subseteq Alerts
  /\ shown \in Answer \cup {NoAnswer}
  /\ known \in [Callers -> SUBSET Alerts]
  /\ faults \in 0..MaxFaults

Init ==
  /\ alerts = {} /\ age = [a \in Alerts |-> TTL] /\ made = 0
  /\ pending = FALSE /\ counter = 0
  /\ cache = NoAnswer /\ stamp = TTL
  /\ queue = <<>> /\ pc = [c \in Callers |-> "idle"] /\ now = TTL /\ scanned = {}
  /\ shown = NoAnswer /\ known = [c \in Callers |-> {}]
  /\ faults = 0

Fault == faults < MaxFaults /\ faults' = faults + 1
API   == UNCHANGED <<store, queue, pc, holder, shown>>

Older(n) == IF n < TTL THEN n + 1 ELSE TTL

\* time.monotonic
Tick ==
  /\ age' = [a \in Alerts |-> Older(age[a])] /\ stamp' = Older(stamp) /\ now' = Older(now)
  /\ <<age, stamp, now>>' # <<age, stamp, now>>
  /\ UNCHANGED <<alerts, made, pending, counter, cache, queue, pc, scanned, shown, known, faults>>

----------------------------------------------------------------------------
(* The worker, and the handler of a rejected log                           *)

Changed(a) ==
  /\ age' = [age EXCEPT ![a] = 0]
  /\ known' = [c \in Callers |-> known[c] \ {a}]

\* The commit of an alert; if its answer is lost the alert is stored all the same,
\* and the retry that finds it does not count it.
Store == \E answered \in BOOLEAN:
  /\ ~pending /\ made < MaxAlerts /\ made' = made + 1
  /\ alerts' = alerts \cup {made'} /\ Changed(made')
  /\ IF answered THEN UNCHANGED faults ELSE Fault
  /\ pending' = answered
  /\ API /\ UNCHANGED counter

\* increment_async: a failing INCRBY is forgotten, as is the count if the worker
\* dies before.
Count == \E counted \in BOOLEAN:
  /\ pending /\ pending' = FALSE
  /\ counter' = IF counted THEN counter + 1 ELSE counter
  /\ IF counted THEN UNCHANGED faults ELSE Fault
  /\ API /\ UNCHANGED <<alerts, age, made, known>>

\* ingest_log deletes a log it rejects, and the cascade its alert; nothing is
\* counted back.
Withdraw(a) ==
  /\ a \in alerts /\ alerts' = alerts \ {a} /\ Changed(a)
  /\ API /\ UNCHANGED <<made, pending, counter, faults>>

----------------------------------------------------------------------------
(* compute_metrics_response                                                *)

Hit == cache # NoAnswer /\ stamp < TTL

Settled == {a \in Alerts: age[a] = TTL}

\* The caller c goes, with an answer or without, and the lock has queue q.
Leave(c, q) ==
  /\ pc' = [pc EXCEPT ![c] = "idle"] /\ queue' = q
  /\ known' = [known EXCEPT ![c] = {}]
  /\ IF queue # <<>> /\ c = Head(queue) THEN now' = TTL /\ scanned' = {} ELSE UNCHANGED holder

\* The answer a of compute_metrics_response to c; the loop broadcasts it.
Answered(c, a) == shown' = IF c = Loop THEN a ELSE shown

Fill(c) == pc' = [pc EXCEPT ![c] = "scan"] /\ now' = 0

\* Mutant: a lock of its own for each call.
AcquireOwn(c) == queue' = <<c>> \o queue /\ Fill(c)

\* The lock is taken at once if it is free, and the second check is as the first.
Acquire(c) ==
  /\ queue' = Append(queue, c)
  /\ IF queue = <<>> THEN Fill(c) ELSE pc' = [pc EXCEPT ![c] = "wait"] /\ UNCHANGED now

\* Up to the first await, or the answer.
Call(c) ==
  /\ pc[c] = "idle"
  /\ IF Hit THEN Leave(c, queue) /\ Answered(c, cache)
     ELSE /\ Acquire(c) /\ known' = [known EXCEPT ![c] = Settled]
          /\ UNCHANGED <<scanned, shown>>
  /\ UNCHANGED <<worker, store, faults>>

\* Mutant: no second check.
RecheckNot(c) ==
  /\ pc[c] = "wait" /\ Head(queue) = c
  /\ Fill(c) /\ UNCHANGED <<worker, store, queue, scanned, shown, known, faults>>

\* The lock is acquired after waiting; the clock and the cache are read again.
Recheck(c) ==
  /\ pc[c] = "wait" /\ Head(queue) = c
  /\ IF Hit THEN Leave(c, Tail(queue)) /\ Answered(c, cache)
     ELSE Fill(c) /\ UNCHANGED <<queue, scanned, shown, known>>
  /\ UNCHANGED <<worker, store, faults>>

Scan(c) ==
  /\ pc[c] = "scan" /\ pc' = [pc EXCEPT ![c] = "counters"]
  /\ scanned' = alerts
  /\ UNCHANGED <<worker, store, queue, now, shown, known, faults>>

\* Mutant: the cache is stamped with the time when it is filled.
StampLate == 0

\* _metrics_cache_at: the clock as it was read before the scan.
Stamp == now

\* snapshot_async: without Redis the counters of the API process are taken, which
\* has created no alert.
Snapshot(read) == IF read THEN counter ELSE 0

\* The counters are read, and the cache is filled for all.
Counters(c) == \E read \in BOOLEAN:
  /\ pc[c] = "counters"
  /\ IF read THEN UNCHANGED faults ELSE Fault
  /\ cache' = [seen |-> scanned, created |-> Snapshot(read)]
  /\ stamp' = Stamp
  /\ Leave(c, Tail(queue)) /\ Answered(c, cache')
  /\ UNCHANGED worker

\* The holder and the waiters without c.
Without(c) == RemoveAt(queue, CHOOSE i \in DOMAIN queue: queue[i] = c)

\* Mutant: the lock stays taken after an exception.
ReleasedNot(c) == IF pc[c] = "wait" THEN Without(c) ELSE queue

\* async with gives the lock up, and whoever waits for it stops waiting.
Released(c) == Without(c)

\* The scan raises, or a request is cancelled at an await; no one cancels the loop.
Fails(c) ==
  /\ pc[c] = "scan" \/ (pc[c] # "idle" /\ c # Loop)
  /\ Fault
  /\ Leave(c, Released(c))
  /\ UNCHANGED <<worker, store, shown>>

----------------------------------------------------------------------------
Compute(c) == Recheck(c) \/ Scan(c) \/ Counters(c)

Next ==
  \/ Tick \/ Store \/ Count \/ \E a \in Alerts: Withdraw(a)
  \/ \E c \in Callers: Call(c) \/ Compute(c) \/ Fails(c)

Spec == Init /\ [][Next]_vars

\* The event loop runs whoever is in compute_metrics_response, the broadcast loop
\* sleeps 5 s and calls again, time passes; no other caller has to call.
FairSpec == Spec /\ WF_vars(Tick) /\ WF_vars(Call(Loop)) /\ \A c \in Callers: WF_vars(Compute(c))

----------------------------------------------------------------------------
(* Properties                                                              *)

\* However long callers wait for the lock, the scan or Redis, an answer is right
\* about every alert that had not changed for TTL when it was asked for: the cache
\* never serves older counts than it says.
Fresh ==
  [][\A c \in Callers:
       (Call(c) \/ Compute(c)) /\ pc'[c] = "idle"
       => LET old == IF pc[c] = "idle" THEN Settled ELSE known[c]
          IN  cache'.seen \cap old = alerts \cap old]_vars

\* The cache saves what it is for: scans do not overlap, and none starts within TTL
\* of the start of one that was answered, however many callers wait for it.
ScansSpaced ==
  [][\A c \in Callers: pc[c] # "scan" /\ pc'[c] = "scan" =>
       /\ cache # NoAnswer => stamp = TTL
       /\ \A d \in Callers \ {c}: pc'[d] \notin {"scan", "counters"}]_vars

\* When no more alerts are stored the dashboards come to show what the table and
\* Redis hold, also after a read of the counters that failed was cached.
Settles ==
  <>[](shown # NoAnswer /\ shown.seen = alerts /\ shown.created = counter)
=============================================================================
