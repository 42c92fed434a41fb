----------------------------- MODULE Retraining -----------------------------
(***************************************************************************)
(* The anomaly model's life in the alert worker: the baseline ring buffer, *)
(* should_retrain, the retrain_async task that runs beside the main loop,  *)
(* its persistence in Redis and restore_from_redis at start-up.            *)
(*                                                                         *)
(* A step is the code between two awaits.  Time is one bit: whether        *)
(* RETRAIN_COOLDOWN_SECONDS have passed.  A model is its discrimination    *)
(* score on the holdout set, counted in correctly ordered pairs.           *)
(***************************************************************************)
EXTENDS Naturals, Sequences, FiniteSets, SequencesExt

CONSTANTS Ips,         \* source addresses
          BufferMax,   \* settings.BASELINE_BUFFER_MAX
          PerIp,       \* int(BufferMax * _MAX_PER_IP_FRACTION)
          Interval,    \* settings.MODEL_RETRAIN_INTERVAL
          Pairs,       \* pairs of the holdout set: 3 anomalous x 4 normal
          Scores,      \* scores a fit may reach
          MaxRestarts, \* bound: ends of the worker process
          MaxFaults,   \* bound: failing fits and Redis calls
          NoIp,        \* a log without an address
          NoModel

ASSUME BufferAssumption ==
  BufferMax \in Nat \ {0} /\ Interval \in Nat \ {0} /\ PerIp \in Nat
ASSUME ScoreAssumption == Pairs \in Nat /\ Scores \subseteq 0..Pairs /\ NoModel \notin 0..Pairs
ASSUME BudgetAssumption == MaxRestarts \in Nat /\ MaxFaults \in Nat
ASSUME NoIpAssumption == NoIp \notin Ips

VARIABLES
  up,             \* the worker runs
  buffer,         \* _buffer, each vector reduced to the address it came from
  trained,        \* _trained
  lastScore,      \* _last_discrimination_score, in pairs
  samplesAtLast,  \* _samples_at_last_retrain
  cooling,        \* _last_retrain_time lies less than the cooldown back
  task,           \* the retrain_async task; _retraining is task # "none"
  fitted,         \* the model being evaluated or persisted
  artifact,       \* sentinel:model:artifact
  provenance,     \* sentinel:model:provenance
  \* history
  newSamples,     \* vectors stored since the last accepted model, up to Interval
  restarts, faults

engine == <<trained, lastScore, samplesAtLast, cooling>>
store  == <<artifact, provenance>>
budget == <<restarts, faults>>
vars == <<up, buffer, engine, task, fitted, store, newSamples, budget>>

Sources == Ips \cup {NoIp}
Models  == (0..Pairs) \cup {NoModel}
Tasks   == {"none", "fit", "artifact", "provenance", "stamp"}

TypeOK ==
  /\ up \in BOOLEAN /\ trained \in BOOLEAN /\ cooling \in BOOLEAN
  /\ buffer \in Seq(Sources) /\ Len(buffer) <= BufferMax
  /\ lastScore \in 0..Pairs
  /\ samplesAtLast \in 0..BufferMax
  /\ task \in Tasks
  /\ fitted \in Models /\ artifact \in Models /\ provenance \in Models
  /\ newSamples \in 0..Interval
  /\ restarts \in 0..MaxRestarts /\ faults \in 0..MaxFaults

Init ==
  /\ up = FALSE /\ buffer = <<>>
  /\ trained = FALSE /\ lastScore = 0 /\ samplesAtLast = 0 /\ cooling = FALSE
  /\ task = "none" /\ fitted = NoModel
  /\ artifact = NoModel /\ provenance = NoModel
  /\ newSamples = 0
  /\ restarts = 0 /\ faults = 0

----------------------------------------------------------------------------
(* BaselineStore.add                                                       *)

Count(ip) == Cardinality({i \in DOMAIN buffer: buffer[i] = ip})

\* Mutant: the quota is compared with > instead of >=.
QuotaFullLate(ip) == ip # NoIp /\ Count(ip) > PerIp

QuotaFull(ip) == ip # NoIp /\ Count(ip) >= PerIp

\* Mutant: a plain list instead of a deque with maxlen.
StoredUnbounded(ip) == Append(buffer, ip)

\* A deque with maxlen: the oldest vector makes room.
Stored(ip) ==
  IF Len(buffer) < BufferMax THEN Append(buffer, ip) ELSE Append(Tail(buffer), ip)

----------------------------------------------------------------------------
(* The main loop, as far as it feeds the engine                            *)

\* Mutant: == instead of >=.
ShouldRetrainExact(size) ==
  /\ task = "none"
  /\ size = samplesAtLast + Interval
  /\ ~cooling

\* should_retrain with size vectors in the buffer.
ShouldRetrain(size) ==
  /\ task = "none"
  /\ size >= samplesAtLast + Interval
  /\ ~cooling

\* _process_message, steps 8 and 9: a safe log's vector is stored, then the
\* retrain task is created if should_retrain says so.  It starts at the next
\* await, before another message is read: it takes the data and begins to fit.
Process(ip, safe) ==
  LET stores == safe /\ ~QuotaFull(ip) IN
  /\ up
  /\ buffer' = IF stores THEN Stored(ip) ELSE buffer
  /\ newSamples' = IF stores /\ newSamples < Interval THEN newSamples + 1 ELSE newSamples
  /\ task' = IF ShouldRetrain(Len(buffer')) THEN "fit" ELSE task
  /\ UNCHANGED <<up, engine, fitted, store, budget>>

----------------------------------------------------------------------------
(* retrain_async                                                           *)

\* Mutant: no finally clause, the task ends with _retraining still set.
EndTaskStuck == task' = task /\ fitted' = fitted

\* The task ends: the finally clause clears _retraining.
EndTask == task' = "none" /\ fitted' = NoModel

FitFails ==
  /\ task = "fit"
  /\ faults < MaxFaults /\ faults' = faults + 1
  /\ EndTask
  /\ UNCHANGED <<up, buffer, engine, store, newSamples, restarts>>

\* Mutant: the comparison of the evaluation is turned round.
RegressesTurned(score) == lastScore > 0 /\ score > lastScore

\* disc_score < prev_disc - 0.05: both are multiples of 1 / Pairs, and 0.05 is
\* less than one pair.
Regresses(score) == lastScore > 0 /\ score < lastScore

\* The fit ends and the model is evaluated; a rejected one changes nothing.
Reject(score) ==
  /\ task = "fit" /\ Regresses(score)
  /\ EndTask
  /\ UNCHANGED <<up, buffer, engine, store, newSamples, budget>>

\* Mutant: _samples_at_last_retrain is not set.
AcceptUncounted(score) ==
  /\ task = "fit" /\ ~Regresses(score)
  /\ trained' = TRUE /\ lastScore' = score
  /\ cooling' = TRUE
  /\ newSamples' = 0
  /\ task' = "artifact" /\ fitted' = score
  /\ UNCHANGED <<up, buffer, samplesAtLast, store, budget>>

\* An accepted model replaces the current one; the vectors stored while it was
\* fitted count as used.
Accept(score) ==
  /\ task = "fit" /\ ~Regresses(score)
  /\ trained' = TRUE /\ lastScore' = score
  /\ samplesAtLast' = Len(buffer)
  /\ cooling' = TRUE
  /\ newSamples' = 0
  /\ task' = "artifact" /\ fitted' = score
  /\ UNCHANGED <<up, buffer, store, budget>>

\* _persist_model_to_redis: three SETs; the first that fails ends it.
Persist ==
  /\ task \in {"artifact", "provenance", "stamp"}
  /\ \/ /\ task = "artifact" /\ task' = "provenance"
        /\ artifact' = fitted /\ UNCHANGED <<provenance, fitted>>
     \/ /\ task = "provenance" /\ task' = "stamp"
        /\ provenance' = fitted /\ UNCHANGED <<artifact, fitted>>
     \/ /\ task = "stamp" /\ EndTask /\ UNCHANGED store
  /\ UNCHANGED <<up, buffer, engine, newSamples, budget>>

PersistFails ==
  /\ task \in {"artifact", "provenance", "stamp"}
  /\ faults < MaxFaults /\ faults' = faults + 1
  /\ EndTask
  /\ UNCHANGED <<up, buffer, engine, store, newSamples, restarts>>

----------------------------------------------------------------------------
(* Start, end and time                                                     *)

\* The shared client has decode_responses=True: GET decodes the artifact as
\* UTF-8, and a pickle begins with the byte 0x80, which is not UTF-8.
Readable(bytes) == FALSE

\* restore_from_redis: anything that raises is swallowed.
Start ==
  /\ ~up /\ up' = TRUE
  /\ IF artifact # NoModel /\ Readable(artifact)
     THEN /\ trained' = TRUE /\ cooling' = TRUE
          /\ lastScore' = IF provenance = NoModel THEN 0 ELSE provenance
          /\ UNCHANGED samplesAtLast
     ELSE UNCHANGED engine
  /\ UNCHANGED <<buffer, task, fitted, store, newSamples, budget>>

\* The process ends, and what it held in memory with it.
Stop ==
  /\ up /\ up' = FALSE
  /\ restarts < MaxRestarts /\ restarts' = restarts + 1
  /\ buffer' = <<>>
  /\ trained' = FALSE /\ lastScore' = 0 /\ samplesAtLast' = 0 /\ cooling' = FALSE
  /\ task' = "none" /\ fitted' = NoModel
  /\ newSamples' = 0
  /\ UNCHANGED <<store, faults>>

\* RETRAIN_COOLDOWN_SECONDS pass.
CoolDown ==
  /\ cooling
  /\ cooling' = FALSE
  /\ UNCHANGED <<up, buffer, trained, lastScore, samplesAtLast, task, fitted, store,
                 newSamples, budget>>

Task ==
  \/ FitFails \/ (\E score \in Scores: Reject(score) \/ Accept(score))
  \/ Persist \/ PersistFails

Messages == \E ip \in Sources, safe \in BOOLEAN: Process(ip, safe)

Next == Messages \/ Task \/ Start \/ Stop \/ CoolDown

Spec == Init /\ [][Next]_vars

\* The fit's thread and the event loop run, the container restarts, time passes.
Fairness == WF_vars(Task) /\ WF_vars(Start) /\ WF_vars(CoolDown)

\* Besides, every address keeps sending safe logs.
SafeTraffic == \A ip \in Sources: WF_vars(Process(ip, TRUE))

FairSpec == Spec /\ Fairness
BusySpec == FairSpec /\ SafeTraffic

----------------------------------------------------------------------------
(* Properties                                                              *)

\* No address holds more of the baseline than its quota, whatever the ring
\* evicts and whoever comes back.
QuotaHeld == \A ip \in Ips: Count(ip) <= PerIp

\* A retrain starts only when Interval vectors were stored since the accepted
\* model, although should_retrain only looks at the size of a ring that evicts.
RetrainEarned ==
  [][task = "none" /\ task' = "fit" => newSamples' >= Interval]_vars

\* While the process lives, the model in use never gets worse on the holdout:
\* with 12 pairs the tolerance of 0.05 never lets a worse one pass.
NeverWorse ==
  [][trained /\ trained' => lastScore' >= lastScore]_vars

\* Every retrain ends and lets the next one begin, whatever fails.
RetrainEnds == task # "none" ~> task = "none"

\* A worker that is fed gets its first model: with Interval vectors in the
\* buffer it is trained, or was stopped.
FirstModel == (up /\ Len(buffer) >= Interval) ~> (trained \/ ~up)

\* What alert_worker.py:11 says ("Model artifact is restored from Redis on
\* startup before accepting messages"): with an artifact in Redis the first
\* thing a started worker has is a trained engine.
RestoredOnStart == [][Start /\ artifact # NoModel => trained']_vars

\* What isolation_engine.py:143 says ("Enough NEW samples since last retrain"):
\* enough new vectors lead to a retrain, or the worker is stopped.
NewSamplesUsed == (up /\ newSamples >= Interval) ~> (task # "none" \/ ~up)

=============================================================================
