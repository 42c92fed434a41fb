--------------------------- MODULE LogRefinement ---------------------------
(***************************************************************************)
(* LogPipeline implements LogDelivery under the mapping below.             *)
(***************************************************************************)
EXTENDS LogPipeline

\* Somebody still is to push a message of the log: its handler, or the sweep.
ToBePushed(l) ==
  \/ req[l] \in {"check", "push"}
  \/ l \in selected
  \/ wpc = "sweepPush" /\ cur.log = l

\* The stage of a log as a function of the pipeline's state.
StageOf(l) ==
  IF row[l] = "absent" THEN IF req[l] = "new" THEN "new" ELSE "gone"
  ELSE IF l \in handled THEN "done"
  ELSE IF l \in dlq THEN "dead"
  ELSE IF row[l] = "unqueued" THEN "stored"
  ELSE IF Tracked(l) \/ ToBePushed(l) THEN "queued" ELSE "lost"

Delivery == INSTANCE LogDelivery WITH
  stage    <- [l \in Logs |-> StageOf(l)],
  accepted <- {l \in Logs: req[l] = "201"},
  torn     <- torn

\* Every step of the pipeline is a step of LogDelivery or changes nothing it
\* sees: no verdict is taken back, an accepted log is never withdrawn, and
\* what is lost was queued.
DeliveryRefined == Delivery!Spec
=============================================================================
