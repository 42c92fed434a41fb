---------------------------- MODULE LogDelivery ----------------------------
(***************************************************************************)
(* What the pipeline promises of each log, without handlers, lists or a    *)
(* worker: a log is stored, queued, and ends done (a verdict was reached)  *)
(* or dead (the retry budget ran out).  Only a log that was not accepted   *)
(* may be withdrawn, only a log that is queued may be lost, a verdict is   *)
(* never taken back.  LogPipeline implements it.                           *)
(***************************************************************************)
CONSTANT Logs

VARIABLES stage,    \* where each log is on its way
          accepted, \* the logs answered HTTP 201
          torn      \* the logs of which a message was dropped in a move

dvars == <<stage, accepted, torn>>

Stages == {"new", "stored", "queued", "done", "dead", "lost", "gone"}

Init ==
  /\ stage = [l \in Logs |-> "new"]
  /\ accepted = {}
  /\ torn = {}

Move(l, from, to) ==
  /\ stage[l] \in from
  /\ stage' = [stage EXCEPT ![l] = to]
  /\ UNCHANGED <<accepted, torn>>

Submit(l) == Move(l, {"new"}, "stored")
Fail(l)   == Move(l, {"new"}, "gone")
Settle(l) == Move(l, {"stored", "queued", "dead"}, "done")
Bury(l)   == Move(l, {"stored", "queued"}, "dead")

\* Only a log that was not accepted is withdrawn.
Withdraw(l) == l \notin accepted /\ Move(l, Stages \ {"new"}, "gone")

\* The client is answered 201.  That may end the last hope of a log that was
\* torn before: its handler will not push it any more.
Accept(l) ==
  /\ stage[l] \notin {"new", "gone"}
  /\ accepted' = accepted \cup {l}
  /\ \/ UNCHANGED stage
     \/ stage[l] = "queued" /\ l \in torn /\ stage' = [stage EXCEPT ![l] = "lost"]
  /\ UNCHANGED torn

\* Stored logs are seen to be queued, several at once when the sweep commits;
\* one whose message was torn before is seen to be lost.
Enqueue == \E S \in SUBSET {l \in Logs: stage[l] = "stored"}:
  /\ \E L \in SUBSET (S \cap torn):
       stage' = [l \in Logs |-> IF l \in L THEN "lost"
                                ELSE IF l \in S THEN "queued" ELSE stage[l]]
  /\ \E A \in SUBSET S: accepted' = accepted \cup A
  /\ UNCHANGED torn

\* A message is torn, and queued logs whose last message that was are lost.
Lose(T) ==
  /\ torn' = torn \cup T
  /\ \E L \in SUBSET {l \in torn': stage[l] = "queued"}:
       stage' = [l \in Logs |-> IF l \in L THEN "lost" ELSE stage[l]]
  /\ UNCHANGED accepted

\* Most steps of the pipeline change nothing here; TLC tries that first.
Next ==
  \/ UNCHANGED dvars
  \/ \E l \in Logs: \/ Submit(l) \/ Fail(l) \/ Settle(l) \/ Bury(l)
                    \/ Withdraw(l) \/ Accept(l) \/ Lose({l})
  \/ Enqueue \/ Lose({})

Spec == Init /\ [][Next]_dvars
=============================================================================
