------------------------------ MODULE Analysis ------------------------------
(***************************************************************************)
(* What the alert worker makes of a log: the rule engine, the profile      *)
(* store and the statistical score, the combined score, and then an alert  *)
(* or a vector offered to the baseline.  The windows live in the worker's  *)
(* memory and are fed when a log is evaluated, before anything is stored:  *)
(* a message that fails later comes again and is counted again.            *)
(*                                                                         *)
(* Windows hold ages instead of times.  Scores are in units of 1/10000, to *)
(* which the code rounds them.                                             *)
(***************************************************************************)
EXTENDS Naturals, Sequences, FiniteSets, SequencesExt

CONSTANTS Addresses,  \* ip_address, besides None
          NoAddress,  \* None
          Window,     \* IP_RATE_WINDOW_SECONDS
          Threshold,  \* IP_RATE_THRESHOLD
          MaxPerIp,   \* _MAX_PER_IP_EVENTS
          MaxGlobal,  \* _MAX_GLOBAL_EVENTS
          RuleWeight, StatWeight, IsoWeight, \* RULE_WEIGHT, ..., in tenths
          IsoScores,  \* what the forest may answer; 0 if it is not trained
          MaxLogs,    \* bound: logs
          MaxFaults   \* bound: failing calls and deaths, fewer than MAX_RETRIES

\* Scores and what may be one: 1.0 is Scale.
Scale == 10000
Risks == 0..Scale

ASSUME AnalysisAssumption ==
  /\ NoAddress \notin Addresses
  /\ Window \in Nat /\ Threshold \in Nat \ {0}
  /\ MaxPerIp \in Nat \ {0} /\ MaxGlobal \in Nat \ {0}
  /\ RuleWeight \in Nat /\ StatWeight \in Nat /\ IsoWeight \in Nat
  /\ IsoScores \subseteq Risks
  /\ MaxLogs \in Nat /\ MaxFaults \in Nat

VARIABLES
  bucket,  \* _IpTracker._buckets
  profile, \* ProfileStore._profiles
  global,  \* ProfileStore._global_events
  hand,    \* the message in hand
  pc,      \* where _process_message is
  rule,    \* the severity of rule_result, NONE without one
  stat,    \* statistical_score
  verdict, \* severity and risk_score of score_result
  offered, \* the features of this message were offered to the baseline
  retry,   \* messages to come again
  seen,    \* history: every evaluation of this process, with its age
  made, faults

windows == <<bucket, profile, global>>
work    == <<hand, pc, rule, stat, verdict, offered>>
vars    == <<windows, work, retry, seen, made, faults>>

Severities == {"NONE", "LOW", "MEDIUM", "HIGH"}
Ages       == 0..(Window + 1)
Event      == [age: Ages, err: BOOLEAN]

\* What the engines see of level and text: ERROR, a keyword of _HIGH_KEYWORDS,
\* CRITICAL or FATAL, or none of these.
Kinds   == {"error", "keyword", "critical", "plain"}
Message == [id: 1..MaxLogs, ip: Addresses \cup {NoAddress}, kind: Kinds, alerted: BOOLEAN]

TypeOK ==
  /\ bucket \in [Addresses -> Seq(Event)]
  /\ profile \in [Addresses -> Seq(Event)]
  /\ \A a \in Addresses: Len(profile[a]) <= MaxPerIp
  /\ global \in Seq(Event) /\ Len(global) <= MaxGlobal
  /\ pc \in {"idle", "score", "commit", "ack"}
  /\ pc # "idle" => hand \in Message
  /\ rule \in {"NONE", "MEDIUM", "HIGH"}
  /\ stat \in Risks
  /\ verdict \in [severity: Severities, risk: Risks]
  /\ offered \in BOOLEAN
  /\ retry \in Seq(Message) /\ made \in 0..MaxLogs /\ faults \in 0..MaxFaults

NoVerdict == [severity |-> "NONE", risk |-> 0]
NoHand    == [id |-> 0, ip |-> NoAddress, kind |-> "plain", alerted |-> FALSE]

Init ==
  /\ bucket = [a \in Addresses |-> <<>>] /\ profile = [a \in Addresses |-> <<>>]
  /\ global = <<>>
  /\ hand = NoHand /\ pc = "idle" /\ rule = "NONE" /\ stat = 0
  /\ verdict = NoVerdict /\ offered = FALSE
  /\ retry = <<>> /\ seen = <<>> /\ made = 0 /\ faults = 0

----------------------------------------------------------------------------
(* The windows                                                             *)

Older(q) == [i \in DOMAIN q |-> [q[i] EXCEPT !.age = IF @ > Window THEN @ ELSE @ + 1]]

\* Time passes between two messages.  It also passes while one is processed,
\* but nothing reads a window then.
Tick ==
  /\ pc = "idle"
  /\ \E i \in DOMAIN seen: seen[i].age <= Window
  /\ bucket' = [a \in Addresses |-> Older(bucket[a])]
  /\ profile' = [a \in Addresses |-> Older(profile[a])]
  /\ global' = Older(global) /\ seen' = Older(seen)
  /\ UNCHANGED <<work, retry, made, faults>>

\* The last n entries.
LastOf(q, n) == IF Len(q) > n THEN SubSeq(q, Len(q) - n + 1, Len(q)) ELSE q

\* Mutant: the tracker never forgets.
EvictNot(q) == q

\* Mutant: an event at the very edge of the window is evicted.
EvictEdge(q) == LastOf(q, Cardinality({i \in DOMAIN q: q[i].age < Window}))

\* Entries are in order of age: those before the cutoff are popped off the front,
\* and as many as are in the window are left.
Evict(q) == LastOf(q, Cardinality({i \in DOMAIN q: q[i].age <= Window}))

\* Mutant: maxlen is missing.
BoundedNot(q, n) == q

\* A deque with maxlen n drops its oldest entry.
Bounded(q, n) == IF Len(q) > n THEN Tail(q) ELSE q

Recorded(q, e, n) == Evict(Bounded(Append(q, e), n))

----------------------------------------------------------------------------
(* The engines                                                             *)

IsError(m) == m.kind \in {"error", "critical"}
IsHigh(m)  == m.kind \in {"error", "keyword"}

\* The burst tracker counts what no other rule matched.
Counts(m) == m.ip # NoAddress /\ ~IsHigh(m)

\* evaluate, with the window of the tracker after record.
Rule(m, q) ==
  IF IsHigh(m) THEN "HIGH"
  ELSE IF Counts(m) /\ Len(q) > Threshold THEN "MEDIUM" ELSE "NONE"

Errors(q) == Cardinality({i \in DOMAIN q: q[i].err})
AtMost(x, y) == IF x < y THEN x ELSE y

\* statistical_engine.score: rate up to 0.40, errors above the average up to 0.35
\* and spike up to 0.25, from the address's window p and the global one g.
Deviation(p, g) ==
  IF Errors(p) * Len(g) > Errors(g) * Len(p)
  THEN (3500 * (Errors(p) * Len(g) - Errors(g) * Len(p))) \div (Len(p) * Len(g))
  ELSE 0
Statistical(p, g) ==
  (4000 * AtMost(Len(p), 2 * Threshold)) \div (2 * Threshold)
  + Deviation(p, g)
  + (2500 * AtMost(Len(g), 6 * Threshold)) \div (6 * Threshold)

\* ANOMALY_THRESHOLD_LOW, _MEDIUM, _HIGH
Low == 2000
Medium == 4000
High == 7000

Weighted(r, s, i) ==
  LET sum == (IF r = "NONE" THEN 0 ELSE RuleWeight * Scale) + StatWeight * s + IsoWeight * i
  IN  AtMost((sum + 5) \div 10, Scale)

Band(risk) ==
  IF risk >= High THEN "HIGH" ELSE IF risk >= Medium THEN "MEDIUM"
  ELSE IF risk >= Low THEN "LOW" ELSE "NONE"

Rank(s) == CASE s = "NONE" -> 0 [] s = "LOW" -> 1 [] s = "MEDIUM" -> 2 [] s = "HIGH" -> 3

\* Mutant: a triggered rule lifts the severity and not the score.
ComputeUnlifted(r, s, i) ==
  LET risk  == Weighted(r, s, i)
      floor == IF r # "NONE" /\ risk < Medium THEN "MEDIUM" ELSE Band(risk)
  IN  [severity |-> IF Rank(r) > Rank(floor) THEN r ELSE floor, risk |-> risk]

\* compute: a triggered rule means at least MEDIUM, and no score lowers the rule.
Compute(r, s, i) ==
  LET weighted == Weighted(r, s, i)
      lifted   == r # "NONE" /\ weighted < Medium
      risk     == IF lifted THEN Medium ELSE weighted
  IN  [severity |-> IF Rank(r) > Rank(Band(risk)) THEN r ELSE Band(risk), risk |-> risk]

----------------------------------------------------------------------------
(* _process_message                                                        *)

\* Rule engine and profile store, up to the await of the isolation score.
Evaluate(m) ==
  LET e == [age |-> 0, err |-> IsError(m)] IN
  /\ hand' = m /\ pc' = "score"
  /\ bucket' = IF Counts(m) THEN [bucket EXCEPT ![m.ip] = Evict(Append(@, e))] ELSE bucket
  /\ rule' = Rule(m, IF Counts(m) THEN bucket'[m.ip] ELSE <<>>)
  /\ global' = Recorded(global, e, MaxGlobal)
  /\ profile' = IF m.ip = NoAddress THEN profile
                ELSE [profile EXCEPT ![m.ip] = Recorded(@, e, MaxPerIp)]
  /\ stat' = Statistical(IF m.ip = NoAddress THEN <<>> ELSE profile'[m.ip], global')
  /\ verdict' = NoVerdict /\ offered' = FALSE
  /\ seen' = Append(seen, [id |-> m.id, ip |-> m.ip, high |-> IsHigh(m), err |-> e.err, age |-> 0])

\* A message is taken: a new one, or one that failed before.
TakeNew ==
  /\ pc = "idle" /\ made < MaxLogs /\ made' = made + 1
  /\ \E a \in Addresses \cup {NoAddress}, k \in Kinds:
       Evaluate([id |-> made', ip |-> a, kind |-> k, alerted |-> FALSE])
  /\ UNCHANGED <<retry, faults>>

TakeAgain ==
  /\ pc = "idle" /\ retry # <<>> /\ ~Head(retry).alerted
  /\ retry' = Tail(retry) /\ Evaluate(Head(retry))
  /\ UNCHANGED <<made, faults>>

\* The alert exists: nothing is evaluated.
Skip ==
  /\ pc = "idle" /\ retry # <<>> /\ Head(retry).alerted
  /\ retry' = Tail(retry)
  /\ UNCHANGED <<windows, work, seen, made, faults>>

\* The contamination guard.
Safe(r, v) == r = "NONE" /\ v.risk < Low

\* The isolation score arrives.  Without a severity the log is no alert; the
\* guard is evaluated whether or not there was one.
Decide ==
  /\ pc = "score"
  /\ \E i \in IsoScores: verdict' = Compute(rule, stat, i)
  /\ pc' = IF verdict'.severity # "NONE" THEN "commit" ELSE "ack"
  /\ offered' = (verdict'.severity = "NONE" /\ Safe(rule, verdict'))
  /\ UNCHANGED <<windows, hand, rule, stat, retry, seen, made, faults>>

Commit ==
  /\ pc = "commit" /\ pc' = "ack"
  /\ hand' = [hand EXCEPT !.alerted = TRUE]
  /\ offered' = Safe(rule, verdict)
  /\ UNCHANGED <<windows, rule, stat, verdict, retry, seen, made, faults>>

\* The worker is done with the message.
Idle ==
  /\ hand' = NoHand /\ pc' = "idle" /\ rule' = "NONE" /\ stat' = 0
  /\ verdict' = NoVerdict /\ offered' = FALSE

\* The commit, which may have been applied all the same, or the acknowledgement
\* fails, and the message comes again.
Fails ==
  /\ pc \in {"commit", "ack"} /\ faults < MaxFaults /\ faults' = faults + 1
  /\ \E applied \in {FALSE, pc = "commit"}:
       retry' = Append(retry, [hand EXCEPT !.alerted = @ \/ applied])
  /\ Idle
  /\ UNCHANGED <<windows, seen, made>>

\* The worker dies and is restarted with empty windows; recovery brings the message
\* back.
Restart ==
  /\ faults < MaxFaults /\ faults' = faults + 1
  /\ bucket' = [a \in Addresses |-> <<>>] /\ profile' = [a \in Addresses |-> <<>>]
  /\ global' = <<>> /\ seen' = <<>>
  /\ retry' = IF pc = "idle" THEN retry ELSE Append(retry, hand)
  /\ Idle
  /\ UNCHANGED made

Ack ==
  /\ pc = "ack" /\ Idle
  /\ UNCHANGED <<windows, retry, seen, made, faults>>

Next == Tick \/ TakeNew \/ TakeAgain \/ Skip \/ Decide \/ Commit \/ Fails \/ Restart \/ Ack

Spec == Init /\ [][Next]_vars

----------------------------------------------------------------------------
(* Properties                                                              *)

InWindow(e) == e.age <= Window

\* The latest n positions of S.
Latest(S, n) == {i \in S: Cardinality({j \in S: j >= i}) <= n}

\* The window q holds as many entries, and as many errors, as the evaluations at S.
Recounts(q, S) ==
  Len(q) = Cardinality(S) /\ Errors(q) = Cardinality({i \in S: seen[i].err})

\* Whenever a log is scored, the windows it is judged by are those a recount of all
\* evaluations gives: the tracker's, the address's and the global one, with their
\* errors, whenever entries were evicted or dropped.
WindowsExact ==
  LET recent == {i \in DOMAIN seen: InWindow(seen[i])}
      own    == {i \in recent: seen[i].ip = hand.ip}
  IN  pc = "score" =>
        /\ Recounts(global, Latest(recent, MaxGlobal))
        /\ hand.ip # NoAddress => Recounts(profile[hand.ip], Latest(own, MaxPerIp))
        /\ Counts(hand) => Recounts(bucket[hand.ip], {i \in own: ~seen[i].high})

\* A burst needs more logs than the threshold in the window, up to one for every
\* delivery that failed: only these are counted twice.
BurstReal ==
  pc = "score" /\ rule = "MEDIUM" =>
    LET counted == {i \in DOMAIN seen:
                      seen[i].ip = hand.ip /\ InWindow(seen[i]) /\ ~seen[i].high}
    IN  Cardinality({seen[i].id: i \in counted}) + faults > Threshold

\* One verdict, although two statements adjust it and conditions on two values act
\* on it.  A log that was decided on is an alert or safe for the baseline, never both
\* and never neither.  The severity stored is the band of the score, or above it only
\* for a HIGH rule; and with a rule the score is at least MEDIUM, so that the metrics,
\* which count scores, never file it under low risk.
VerdictConsistent ==
  /\ pc = "ack" => (hand.alerted <=> ~offered)
  /\ pc \in {"commit", "ack"} =>
       /\ \/ verdict.severity = Band(verdict.risk)
          \/ verdict.severity = "HIGH" /\ rule = "HIGH"
       /\ rule # "NONE" => verdict.risk >= Medium /\ Rank(verdict.severity) >= Rank(rule)
=============================================================================
