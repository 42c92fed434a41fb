---------------------------- MODULE LogPipeline ----------------------------
(***************************************************************************)
(* The path of a log from POST /logs to an alert: ingest_log (one handler  *)
(* per log), the Redis lists of queue_service, the logs and alerts tables  *)
(* and the single alert worker (start-up recovery, sweep, main loop).      *)
(*                                                                         *)
(* A step is the code between two awaits.  Every call to PostgreSQL or     *)
(* Redis succeeds, is refused (not applied, an exception is raised) or     *)
(* stays unanswered (applied, but an exception is raised); handlers and    *)
(* the worker may die between any two steps.                               *)
(***************************************************************************)
EXTENDS Naturals, Sequences, FiniteSets, SequencesExt

CONSTANTS Logs,        \* the logs clients submit, one POST each
          MaxRetries,  \* MAX_RETRIES
          MaxDepth,    \* settings.MAX_QUEUE_DEPTH
          MaxCrashes,  \* bound: deaths of a handler or of the worker
          MaxFaults,   \* bound: calls refused or unanswered
          NoMsg        \* the worker has no message

Stamps == {"none", "fresh", "stale"}

\* stamp: started_processing_at, absent, at most VISIBILITY_TIMEOUT ago, older.
Message == [log: Logs, retry: 0..MaxRetries, stamp: Stamps]

ASSUME MaxRetriesAssumption == MaxRetries \in Nat \ {0}
ASSUME BoundsAssumption == MaxDepth \in Nat /\ MaxCrashes \in Nat /\ MaxFaults \in Nat
ASSUME NoMsgAssumption == NoMsg \notin Message

VARIABLES
  row,       \* the logs table: no row, a row with enqueued FALSE, or TRUE
  alerts,    \* the alerts table: the logs that have an alert (log_id is unique)
  mainQ,     \* sentinel:queue:logs, the end popped next first
  procQ,     \* the processing list, the oldest entry first
  dlq,       \* logs with a message in the dead-letter list
  req,       \* where the handler of each POST is, or how it ended
  wpc,       \* where the worker is
  cur,       \* the message the worker works on
  held,      \* where cur still is: listed in procQ, only in hand, pushed on
  attempt,   \* whether retry_or_dlq runs inside _process_message or in run()
  todo,      \* recover_processing_queue: the listed entries left to look at
  selected,  \* _sweep_unenqueued_logs: rows left to enqueue
  flagged,   \* _sweep_unenqueued_logs: rows set enqueued, not yet committed
  \* history, never read by a guard
  handled,   \* logs the worker gave a verdict that needs no more work
  announced, \* logs whose alert was handed to the dashboard channel
  torn,      \* logs with a message dropped between an LREM and its LPUSH
  tries,     \* how often the worker began to process each log, up to MaxRetries
  crashes, faults

pipeline == <<row, alerts, mainQ, procQ, dlq>>
sweep    == <<selected, flagged>>
history  == <<handled, announced, torn, tries>>
vars == <<pipeline, req, wpc, cur, held, attempt, todo, sweep, history,
          crashes, faults>>

Rows == {"absent", "unqueued", "queued"}
RequestStates == {"new", "check", "push", "flag", "reject",
                  "201", "429", "500", "dead"}
WorkerStates == {"down", "recover", "recoverPush", "sweep", "sweepCheck",
                 "sweepPush", "idle", "popped", "load", "check", "insert",
                 "ack", "remove", "push"}

TypeOK ==
  /\ row \in [Logs -> Rows]
  /\ alerts \subseteq Logs
  /\ mainQ \in Seq(Message)
  /\ procQ \in Seq(Message)
  /\ dlq \subseteq Logs
  /\ req \in [Logs -> RequestStates]
  /\ wpc \in WorkerStates
  /\ cur \in Message \cup {NoMsg}
  /\ held \in {"no", "proc", "hand", "moved"}
  /\ attempt \in {"inner", "outer"}
  /\ todo \in Seq(Message)
  /\ selected \subseteq Logs
  /\ flagged \subseteq Logs
  /\ handled \subseteq Logs
  /\ announced \subseteq Logs
  /\ torn \subseteq Logs
  /\ tries \in [Logs -> 0..MaxRetries]
  /\ crashes \in 0..MaxCrashes
  /\ faults \in 0..MaxFaults

Init ==
  /\ row = [l \in Logs |-> "absent"]
  /\ req = [l \in Logs |-> "new"]
  /\ mainQ = <<>> /\ procQ = <<>> /\ todo = <<>>
  /\ alerts = {} /\ dlq = {} /\ selected = {} /\ flagged = {}
  /\ wpc = "down" /\ cur = NoMsg /\ held = "no" /\ attempt = "inner"
  /\ handled = {} /\ announced = {} /\ torn = {}
  /\ tries = [l \in Logs |-> 0]
  /\ crashes = 0 /\ faults = 0

----------------------------------------------------------------------------
(* Calls to PostgreSQL and Redis                                           *)

Outcomes == {"ok", "refused", "unanswered"}
ReadOutcomes == {"ok", "refused"}

Applied(o) == o # "refused"
Raised(o)  == o # "ok"

\* One call with outcome o; only a failing one uses up the fault budget.
Call(o) ==
  /\ Raised(o) => faults < MaxFaults
  /\ faults' = IF Raised(o) THEN faults + 1 ELSE faults
  /\ crashes' = crashes

\* LREM key 1 e.  Raw entries carry time stamps; entries that are equal here
\* differ only in those, and either may be the one that goes.
LRem(s, e) ==
  IF \E i \in DOMAIN s: s[i] = e THEN RemoveAt(s, CHOOSE i \in DOMAIN s: s[i] = e) ELSE s

NewMessage(l) == [log |-> l, retry |-> 0, stamp |-> "none"]

----------------------------------------------------------------------------
(* ingest_log: one handler per POST                                        *)

RequestOnly == UNCHANGED <<procQ, dlq, wpc, cur, held, attempt, todo, sweep, history>>

\* session.add, commit and refresh; an exception ends in HTTP 500.
Persist(l) == \E o \in Outcomes:
  /\ req[l] = "new"
  /\ Call(o)
  /\ row' = IF Applied(o) THEN [row EXCEPT ![l] = "unqueued"] ELSE row
  /\ req' = [req EXCEPT ![l] = IF Raised(o) THEN "500" ELSE "check"]
  /\ RequestOnly /\ UNCHANGED <<alerts, mainQ>>

\* enqueue's LLEN; any exception but QueueFull still answers 201.
CheckDepth(l) == \E o \in ReadOutcomes:
  /\ req[l] = "check"
  /\ Call(o)
  /\ req' = [req EXCEPT ![l] =
               IF Raised(o) THEN "201"
               ELSE IF Len(mainQ) >= MaxDepth THEN "reject" ELSE "push"]
  /\ RequestOnly /\ UNCHANGED <<row, alerts, mainQ>>

\* Mutant: the LPUSH is not awaited and never runs.
PushLogUnawaited(l) ==
  /\ req[l] = "push"
  /\ req' = [req EXCEPT ![l] = "flag"]
  /\ RequestOnly /\ UNCHANGED <<row, alerts, mainQ, crashes, faults>>

\* enqueue's LPUSH; any exception answers 201.
PushLog(l) == \E o \in Outcomes:
  /\ req[l] = "push"
  /\ Call(o)
  /\ mainQ' = IF Applied(o) THEN Append(mainQ, NewMessage(l)) ELSE mainQ
  /\ req' = [req EXCEPT ![l] = IF Raised(o) THEN "201" ELSE "flag"]
  /\ RequestOnly /\ UNCHANGED <<row, alerts>>

\* log.enqueued = True and commit; a failed commit still answers 201.
FlagLog(l) == \E o \in Outcomes:
  /\ req[l] = "flag"
  /\ Call(o)
  /\ row' = IF Applied(o) THEN [row EXCEPT ![l] = "queued"] ELSE row
  /\ req' = [req EXCEPT ![l] = "201"]
  /\ RequestOnly /\ UNCHANGED <<alerts, mainQ>>

\* QueueFull: delete the row, its alert goes with it (ON DELETE CASCADE).
RejectLog(l) == \E o \in Outcomes:
  /\ req[l] = "reject"
  /\ Call(o)
  /\ row' = IF Applied(o) THEN [row EXCEPT ![l] = "absent"] ELSE row
  /\ alerts' = IF Applied(o) THEN alerts \ {l} ELSE alerts
  /\ req' = [req EXCEPT ![l] = IF Raised(o) THEN "500" ELSE "429"]
  /\ RequestOnly /\ UNCHANGED mainQ

RequestDies(l) ==
  /\ req[l] \in {"check", "push", "flag", "reject"}
  /\ crashes < MaxCrashes
  /\ crashes' = crashes + 1
  /\ req' = [req EXCEPT ![l] = "dead"]
  /\ RequestOnly /\ UNCHANGED <<row, alerts, mainQ, faults>>

----------------------------------------------------------------------------
(* The worker: run() and what it calls                                     *)

WorkerOnly == UNCHANGED <<req>>

\* The worker is between messages.
Rest == wpc' = "idle" /\ cur' = NoMsg /\ held' = "no" /\ attempt' = "inner"

\* The process ends: everything it held in memory is gone.
Halt ==
  /\ wpc' = "down" /\ cur' = NoMsg /\ held' = "no" /\ attempt' = "inner"
  /\ todo' = <<>> /\ selected' = {} /\ flagged' = {}

\* What is lost when a message that is only in memory goes.
Tear == torn' = IF held = "hand" THEN torn \cup {cur.log} ELSE torn

\* The container is restarted; run() up to the LRANGE of the recovery, which
\* lists the newest entry first.
Start ==
  /\ wpc = "down"
  /\ todo' = Reverse(procQ)
  /\ wpc' = "recover"
  /\ WorkerOnly
  /\ UNCHANGED <<pipeline, cur, held, attempt, sweep, history, crashes, faults>>

\* recover_processing_queue: an entry that was fresh at the LRANGE is left where
\* it is; after the last one the sweep begins.
RecoverSkip ==
  /\ wpc = "recover"
  /\ \/ todo = <<>> /\ wpc' = "sweep" /\ UNCHANGED todo
     \/ todo # <<>> /\ Head(todo).stamp = "fresh" /\ todo' = Tail(todo) /\ UNCHANGED wpc
  /\ WorkerOnly
  /\ UNCHANGED <<pipeline, cur, held, attempt, sweep, history, crashes, faults>>

\* recover_processing_queue, LREM of the next stale entry.
RecoverRemove == \E o \in Outcomes:
  /\ wpc = "recover" /\ todo # <<>> /\ Head(todo).stamp # "fresh"
  /\ Call(o)
  /\ procQ' = IF Applied(o) THEN LRem(procQ, Head(todo)) ELSE procQ
  /\ torn' = IF o = "unanswered" THEN torn \cup {Head(todo).log} ELSE torn
  /\ IF Raised(o) THEN Halt
     ELSE /\ wpc' = "recoverPush" /\ cur' = Head(todo) /\ held' = "hand"
          /\ todo' = Tail(todo)
          /\ UNCHANGED <<attempt, sweep>>
  /\ WorkerOnly
  /\ UNCHANGED <<row, alerts, mainQ, dlq, handled, announced, tries>>

\* recover_processing_queue, LPUSH of the same entry.
RecoverPush == \E o \in Outcomes:
  /\ wpc = "recoverPush"
  /\ Call(o)
  /\ mainQ' = IF Applied(o) THEN Append(mainQ, cur) ELSE mainQ
  /\ torn' = IF Applied(o) THEN torn ELSE torn \cup {cur.log}
  /\ IF Raised(o) THEN Halt
     ELSE /\ wpc' = "recover" /\ cur' = NoMsg /\ held' = "no"
          /\ UNCHANGED <<attempt, todo, sweep>>
  /\ WorkerOnly
  /\ UNCHANGED <<row, alerts, procQ, dlq, handled, announced, tries>>

\* _sweep_unenqueued_logs, the SELECT.
SelectUnqueued == \E o \in ReadOutcomes:
  /\ wpc = "sweep"
  /\ Call(o)
  /\ IF Raised(o) THEN Halt
     ELSE /\ selected' = {l \in Logs: row[l] = "unqueued"}
          /\ wpc' = "sweepCheck"
          /\ UNCHANGED <<cur, held, attempt, todo, flagged>>
  /\ WorkerOnly /\ UNCHANGED <<pipeline, history>>

\* Mutant: no try/except around enqueue in the sweep.
SweepCheckStrict(l) == \E o \in ReadOutcomes:
  /\ wpc = "sweepCheck" /\ l \in selected
  /\ Call(o)
  /\ IF Raised(o) \/ Len(mainQ) >= MaxDepth
     THEN Halt
     ELSE /\ selected' = selected \ {l}
          /\ wpc' = "sweepPush" /\ cur' = NewMessage(l)
          /\ UNCHANGED <<held, attempt, todo, flagged>>
  /\ WorkerOnly /\ UNCHANGED <<pipeline, history>>

\* enqueue's LLEN for one selected row; a failure or QueueFull skips the row.
SweepCheck(l) == \E o \in ReadOutcomes:
  /\ wpc = "sweepCheck" /\ l \in selected
  /\ Call(o)
  /\ selected' = selected \ {l}
  /\ IF Raised(o) \/ Len(mainQ) >= MaxDepth
     THEN UNCHANGED <<wpc, cur>>
     ELSE wpc' = "sweepPush" /\ cur' = NewMessage(l)
  /\ WorkerOnly /\ UNCHANGED <<pipeline, held, attempt, todo, flagged, history>>

SweepPush == \E o \in Outcomes:
  /\ wpc = "sweepPush"
  /\ Call(o)
  /\ mainQ' = IF Applied(o) THEN Append(mainQ, cur) ELSE mainQ
  /\ flagged' = IF Raised(o) THEN flagged ELSE flagged \cup {cur.log}
  /\ wpc' = "sweepCheck" /\ cur' = NoMsg
  /\ WorkerOnly
  /\ UNCHANGED <<row, alerts, procQ, dlq, held, attempt, todo, selected, history>>

\* The commit of the sweep.  An UPDATE that misses its row raises StaleDataError;
\* with several rows in one executemany the driver may not report the miss.
SweepCommit == \E o \in Outcomes:
  /\ wpc = "sweepCheck" /\ selected = {}
  /\ flagged = {} => o = "ok"
  /\ Call(o)
  /\ \E missReported \in BOOLEAN:
       LET gone  == {l \in flagged: row[l] = "absent"}
           stale == gone # {} /\ (missReported \/ Cardinality(flagged) = 1)
       IN /\ row' = [l \in Logs |-> IF Applied(o) /\ ~stale /\ l \in flagged \ gone
                                    THEN "queued" ELSE row[l]]
          /\ IF Raised(o) \/ stale THEN Halt
             ELSE wpc' = "idle" /\ flagged' = {}
                  /\ UNCHANGED <<cur, held, attempt, todo, selected>>
  /\ WorkerOnly /\ UNCHANGED <<alerts, mainQ, procQ, dlq, history>>

\* Mutant: a plain BRPOP, without the processing list.
DequeuePop == \E o \in {"ok", "unanswered"}:
  /\ wpc = "idle" /\ mainQ # <<>>
  /\ Call(o)
  /\ mainQ' = Tail(mainQ)
  /\ IF Raised(o) THEN UNCHANGED <<wpc, cur, held>>
     ELSE wpc' = "popped" /\ cur' = Head(mainQ) /\ held' = "proc"
  /\ WorkerOnly
  /\ UNCHANGED <<row, alerts, procQ, dlq, attempt, todo, sweep, history>>

\* dequeue's BLMOVE; when its reply is lost the entry stays in procQ, untagged.
Dequeue == \E o \in {"ok", "unanswered"}:
  /\ wpc = "idle" /\ mainQ # <<>>
  /\ Call(o)
  /\ mainQ' = Tail(mainQ)
  /\ procQ' = Append(procQ, Head(mainQ))
  /\ IF Raised(o) THEN UNCHANGED <<wpc, cur, held>>
     ELSE wpc' = "popped" /\ cur' = Head(mainQ) /\ held' = "proc"
  /\ WorkerOnly
  /\ UNCHANGED <<row, alerts, dlq, attempt, todo, sweep, history>>

\* dequeue's MULTI: replace the entry by one with started_processing_at.
Tag == \E o \in Outcomes:
  LET tagged == [cur EXCEPT !.stamp = "fresh"] IN
  /\ wpc = "popped"
  /\ Call(o)
  /\ procQ' = IF Applied(o) THEN Append(LRem(procQ, cur), tagged) ELSE procQ
  /\ IF Raised(o) THEN Rest /\ UNCHANGED tries
     ELSE /\ wpc' = "load" /\ cur' = tagged
          /\ tries' = [tries EXCEPT ![cur.log] = IF @ < MaxRetries THEN @ + 1 ELSE @]
          /\ UNCHANGED <<held, attempt>>
  /\ WorkerOnly
  /\ UNCHANGED <<row, alerts, mainQ, dlq, todo, sweep, handled, announced, torn>>

\* An exception leaves _process_message: run() calls retry_or_dlq.
Escalate == wpc' = "remove" /\ attempt' = "outer"

\* session.get(Log, ...): no row means retry_or_dlq at once.
Load == \E o \in ReadOutcomes:
  /\ wpc = "load"
  /\ Call(o)
  /\ IF Raised(o) THEN Escalate
     ELSE /\ wpc' = IF row[cur.log] = "absent" THEN "remove" ELSE "check"
          /\ UNCHANGED attempt
  /\ WorkerOnly /\ UNCHANGED <<pipeline, cur, held, todo, sweep, history>>

\* The idempotency query, then scoring: the verdict is an alert or none.
Check == \E o \in ReadOutcomes, verdict \in {"alert", "safe"}:
  /\ wpc = "check"
  /\ Call(o)
  /\ IF Raised(o) THEN Escalate /\ UNCHANGED handled
     ELSE IF cur.log \in alerts THEN wpc' = "ack" /\ UNCHANGED <<attempt, handled>>
     ELSE /\ wpc' = IF verdict = "alert" THEN "insert" ELSE "ack"
          /\ handled' = IF verdict = "alert" THEN handled ELSE handled \cup {cur.log}
          /\ UNCHANGED attempt
  /\ WorkerOnly
  /\ UNCHANGED <<pipeline, cur, held, todo, sweep, announced, torn, tries>>

\* Mutant: the alert is published before its commit.
AnnouncesEarly(o, stored) == TRUE

Announces(o, stored) == stored /\ ~Raised(o)

\* Alert insert and commit.  IntegrityError (the unique log_id, or the row is
\* gone) is answered by acknowledge; success hands the alert to the dashboard.
Insert == \E o \in Outcomes:
  LET refused == cur.log \in alerts \/ row[cur.log] = "absent"
      stored  == Applied(o) /\ ~refused
  IN
  /\ wpc = "insert"
  /\ Call(o)
  /\ alerts'    = IF stored THEN alerts \cup {cur.log} ELSE alerts
  /\ handled'   = IF stored THEN handled \cup {cur.log} ELSE handled
  /\ announced' = IF Announces(o, stored) THEN announced \cup {cur.log} ELSE announced
  /\ IF Raised(o) THEN Escalate ELSE wpc' = "ack" /\ UNCHANGED attempt
  /\ WorkerOnly
  /\ UNCHANGED <<row, mainQ, procQ, dlq, cur, held, todo, sweep, torn, tries>>

\* acknowledge; when it fails run() retries a message that is done.
Ack == \E o \in Outcomes:
  /\ wpc = "ack"
  /\ Call(o)
  /\ procQ' = IF Applied(o) THEN LRem(procQ, cur) ELSE procQ
  /\ IF Raised(o)
     THEN Escalate /\ held' = (IF Applied(o) THEN "hand" ELSE held) /\ UNCHANGED cur
     ELSE Rest
  /\ WorkerOnly
  /\ UNCHANGED <<row, alerts, mainQ, dlq, todo, sweep, history>>

\* retry_or_dlq, LREM: only the first one finds the entry.
RetryRemove == \E o \in Outcomes:
  /\ wpc = "remove"
  /\ Call(o)
  /\ procQ' = IF Applied(o) /\ held = "proc" THEN LRem(procQ, cur) ELSE procQ
  /\ IF Raised(o) /\ attempt = "outer"
     THEN Rest /\ torn' = IF held = "hand" \/ (held = "proc" /\ Applied(o))
                          THEN torn \cup {cur.log} ELSE torn
     ELSE /\ held' = IF Applied(o) /\ held = "proc" THEN "hand" ELSE held
          /\ IF Raised(o) THEN Escalate ELSE wpc' = "push" /\ UNCHANGED attempt
          /\ UNCHANGED <<cur, torn>>
  /\ WorkerOnly
  /\ UNCHANGED <<row, alerts, mainQ, dlq, todo, sweep, handled, announced, tries>>

\* Mutants: one attempt too few, and no limit at all.
ExhaustedEarly(retry) == retry + 1 >= MaxRetries
ExhaustedNever(retry) == FALSE

Exhausted(retry) == retry >= MaxRetries

\* retry_or_dlq, LPUSH onto the main or the dead-letter list; a failure is
\* raised to run(), which calls retry_or_dlq once more and then gives up.
RetryPush == \E o \in Outcomes:
  LET retry == cur.retry + 1
      dead  == Exhausted(retry)
  IN
  /\ wpc = "push"
  /\ Call(o)
  /\ dlq'   = IF Applied(o) /\ dead THEN dlq \cup {cur.log} ELSE dlq
  /\ mainQ' = IF Applied(o) /\ ~dead THEN Append(mainQ, [cur EXCEPT !.retry = retry])
                                     ELSE mainQ
  /\ IF Raised(o) /\ attempt = "inner"
     THEN /\ Escalate
          /\ held' = IF Applied(o) THEN "moved" ELSE held
          /\ UNCHANGED <<cur, torn>>
     ELSE /\ Rest
          /\ torn' = IF ~Applied(o) /\ held = "hand" THEN torn \cup {cur.log} ELSE torn
  /\ WorkerOnly
  /\ UNCHANGED <<row, alerts, procQ, todo, sweep, handled, announced, tries>>

\* The process dies, or stops on a signal.
WorkerCrash ==
  /\ wpc # "down"
  /\ crashes < MaxCrashes
  /\ crashes' = crashes + 1
  /\ Halt /\ Tear
  /\ WorkerOnly
  /\ UNCHANGED <<pipeline, handled, announced, tries, faults>>

----------------------------------------------------------------------------
(* More than VISIBILITY_TIMEOUT passes: every time stamp grows stale.       *)

Aged(m) == IF m.stamp = "fresh" THEN [m EXCEPT !.stamp = "stale"] ELSE m
AgedSeq(s) == [i \in DOMAIN s |-> Aged(s[i])]

Age ==
  /\ \/ \E i \in DOMAIN mainQ: mainQ[i].stamp = "fresh"
     \/ \E i \in DOMAIN procQ: procQ[i].stamp = "fresh"
  /\ mainQ' = AgedSeq(mainQ)
  /\ procQ' = AgedSeq(procQ)
  /\ cur' = IF cur = NoMsg THEN cur ELSE Aged(cur)
  /\ UNCHANGED <<row, alerts, dlq, req, wpc, held, attempt, todo, sweep,
                 history, crashes, faults>>

----------------------------------------------------------------------------
Handler(l) == CheckDepth(l) \/ PushLog(l) \/ FlagLog(l) \/ RejectLog(l)

Worker ==
  \/ RecoverSkip \/ RecoverRemove \/ RecoverPush
  \/ SelectUnqueued \/ (\E l \in Logs: SweepCheck(l)) \/ SweepPush \/ SweepCommit
  \/ Dequeue \/ Tag \/ Load \/ Check \/ Insert \/ Ack \/ RetryRemove \/ RetryPush

Next ==
  \/ \E l \in Logs: Persist(l) \/ Handler(l) \/ RequestDies(l)
  \/ Start \/ Worker \/ WorkerCrash
  \/ Age

Spec == Init /\ [][Next]_vars

\* A handler that began runs on, the container restarts the worker
\* (restart: unless-stopped), the worker's event loop runs and time passes;
\* no client has to submit, nothing has to fail.
Fairness ==
  /\ \A l \in Logs: WF_vars(Handler(l))
  /\ WF_vars(Start) /\ WF_vars(Worker) /\ WF_vars(Age)

FairSpec == Spec /\ Fairness

----------------------------------------------------------------------------
(* Properties                                                              *)

HasLog(s, l) == \E i \in DOMAIN s: s[i].log = l

\* The log has a message somewhere: queued, being processed, dead, in memory.
Tracked(l) ==
  \/ HasLog(mainQ, l) \/ HasLog(procQ, l) \/ l \in dlq
  \/ held = "hand" /\ cur.log = l

Accounted(l) == Tracked(l) \/ l \in handled \/ l \in torn

\* A log answered 201 keeps its row, and a row that says enqueued = TRUE has a
\* message, was handled, or lost its message in the one window where neither
\* list holds it: between an LREM and the LPUSH that moves it (retry_or_dlq,
\* recover_processing_queue).  Every other crash and failed call is covered.
NoSilentLoss ==
  \A l \in Logs: /\ req[l] = "201" => row[l] # "absent"
                 /\ row[l] = "queued" => Accounted(l)

\* A log reaches the dead-letter list only after the worker began to process
\* it MAX_RETRIES times, however crashes, sweeps and failed calls duplicate
\* and requeue its messages.
DeadLetterEarned == \A l \in dlq: tries[l] = MaxRetries

\* What clients and dashboards are told stays true.  A log answered 429 leaves
\* neither row nor alert behind, although the worker may have swept, scored and
\* announced it before the row is deleted; and an alert that was announced is
\* stored for good, unless it is that of a log whose handler had to reject it.
ToldTrue ==
  \A l \in Logs:
    /\ req[l] = "429" => row[l] = "absent" /\ l \notin alerts
    /\ l \in announced => l \in alerts \/ req[l] \in {"429", "500"}

\* Every log that was accepted or has a message is served: it is handled,
\* dead-lettered, torn or rejected.  What is left waits for the next start of an idle
\* worker in one of two ways: its entry is stranded in the processing list, or it is
\* flagged neither by its handler nor by the sweep, and no message of it is queued.
LogServed == \A l \in Logs:
  req[l] = "201" \/ HasLog(mainQ, l) ~>
    (\/ l \in handled \cup dlq \cup torn \/ row[l] = "absent"
     \/ /\ wpc = "idle" /\ ~HasLog(mainQ, l)
        /\ HasLog(procQ, l) \/ row[l] = "unqueued")

\* What log_service.py:59 ("at-least-once via Redis") promises of a row with
\* enqueued = TRUE: the log still has a message or was handled.
NoLogLost == \A l \in Logs: row[l] = "queued" => Tracked(l) \/ l \in handled
=============================================================================
