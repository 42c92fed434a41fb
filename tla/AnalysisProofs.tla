--------------------------- MODULE AnalysisProofs ---------------------------
(***************************************************************************)
(* Machine-checked proofs about Analysis.                                  *)
(***************************************************************************)
EXTENDS Analysis, SequenceTheorems, FiniteSetTheorems, TLAPS

----------------------------------------------------------------------------
(* The invariants                                                          *)

Rules == {"NONE", "MEDIUM", "HIGH"}

\* A message that is evaluated has no alert yet, what is decided is what compute
\* returned, and only a log with a severity is committed as an alert.
Decided ==
  /\ pc \in {"score", "commit"} => ~hand.alerted
  /\ pc \in {"commit", "ack"} => \E i \in IsoScores: verdict = Compute(rule, stat, i)
  /\ pc = "commit" => verdict.severity # "NONE"
  /\ pc = "ack" => (hand.alerted <=> ~offered)

VerdictInv == TypeOK /\ Decided

Evaluation ==
  [id: 1..MaxLogs, ip: Addresses \cup {NoAddress}, high: BOOLEAN, err: BOOLEAN, age: Ages]
SeenTyped == seen \in Seq(Evaluation) /\ \A i \in DOMAIN seen: seen[i].id <= made

\* The tracker's entries are in order of age.
Sorted(q) == \A i, j \in DOMAIN q: i < j => q[j].age <= q[i].age

\* Every entry of the tracker traces back to an evaluation of its own, of that
\* address and not by a HIGH rule: f maps the entries to the evaluations.
Traces(q, s, a) == {f \in [DOMAIN q -> DOMAIN s]:
  /\ \A i, j \in DOMAIN q: f[i] = f[j] => i = j
  /\ \A i \in DOMAIN q: s[f[i]].ip = a /\ ~s[f[i]].high /\ s[f[i]].age = q[i].age}
Traced == \A a \in Addresses: Sorted(bucket[a]) /\ Traces(bucket[a], seen, a) # {}

\* The evaluations whose log was evaluated again: each is one failed delivery, and
\* so is each message that is to come again.
Repeated(s) == {i \in DOMAIN s: \E j \in DOMAIN s: i < j /\ s[j].id = s[i].id}
RepeatsPaid == Cardinality(Repeated(seen)) + Len(retry) <= faults

\* A burst is declared on a window that holds more than the threshold.
BurstCounted ==
  pc = "score" /\ rule = "MEDIUM" =>
    /\ hand.ip \in Addresses /\ Len(bucket[hand.ip]) > Threshold
    /\ \A i \in DOMAIN bucket[hand.ip]: bucket[hand.ip][i].age <= Window

\* Messages in hand and messages to come again are among those made.
Known ==
  /\ pc # "idle" => hand.id <= made
  /\ \A i \in DOMAIN retry: retry[i].id <= made

BurstInv == TypeOK /\ SeenTyped /\ Known /\ Traced /\ RepeatsPaid /\ BurstCounted

----------------------------------------------------------------------------
(* The windows                                                             *)

\* LastOf drops a front of a sequence.
LEMMA LastOfProperties ==
  ASSUME NEW S, NEW q \in Seq(S), NEW n \in Nat, n <= Len(q)
  PROVE  /\ LastOf(q, n) \in Seq(S) /\ Len(LastOf(q, n)) = n
         /\ \E d \in Nat: /\ Len(q) = n + d
                          /\ \A i \in 1..n: LastOf(q, n)[i] = q[i + d]
<1>1. PICK k \in Nat: k = Len(q)
  BY LenProperties
<1>2. CASE k > n
  <2>1. LastOf(q, n) = SubSeq(q, k - n + 1, k)
    BY <1>1, <1>2 DEF LastOf
  <2>2. /\ SubSeq(q, k - n + 1, k) \in Seq(S) /\ Len(SubSeq(q, k - n + 1, k)) = n
        /\ \A i \in 1..n: SubSeq(q, k - n + 1, k)[i] = q[(k - n + 1) + i - 1]
    BY <1>1, <1>2, SubSeqProperties
  <2>3. PICK d \in Nat: k = n + d
    BY <1>2
  <2>4. \A i \in 1..n: (k - n + 1) + i - 1 = i + d
    BY <2>3
  <2> QED  BY <1>1, <2>1, <2>2, <2>3, <2>4
<1>3. CASE k = n
  <2>1. LastOf(q, n) = q
    BY <1>1, <1>3 DEF LastOf
  <2>2. \A i \in 1..n: i = i + 0
    OBVIOUS
  <2>3. Len(q) = n + 0 /\ \A i \in 1..n: LastOf(q, n)[i] = q[i + 0]
    BY <1>1, <1>3, <2>1, <2>2
  <2>4. LastOf(q, n) \in Seq(S) /\ Len(LastOf(q, n)) = n
    BY <1>1, <1>3, <2>1
  <2> QED  BY <2>3, <2>4
<1> QED  BY <1>1, <1>2, <1>3

\* A set of positions of a sequence is finite and no larger than the sequence.
LEMMA PositionsCount ==
  ASSUME NEW S, NEW q \in Seq(S), NEW T \in SUBSET (DOMAIN q)
  PROVE  IsFiniteSet(T) /\ Cardinality(T) \in Nat /\ Cardinality(T) <= Len(q)
<1>1. Len(q) \in Nat /\ DOMAIN q = 1..Len(q)
  BY LenProperties
<1>2. IsFiniteSet(1..Len(q)) /\ Cardinality(1..Len(q)) = Len(q)
  <2>1. 1 \in Int /\ Len(q) \in Int
    BY <1>1
  <2>2. Cardinality(1..Len(q)) = (IF 1 > Len(q) THEN 0 ELSE Len(q) - 1 + 1)
    BY <2>1, FS_Interval
  <2> QED  BY <1>1, <2>1, <2>2, FS_Interval
<1>3. IsFiniteSet(T) /\ Cardinality(T) <= Len(q)
  BY <1>1, <1>2, FS_Subset
<1> QED  BY <1>3, FS_CardinalityType

InWindowOf(q) == {i \in DOMAIN q: q[i].age <= Window}

\* Eviction drops a front of the window and keeps as many as are young.
LEMMA EvictProperties ==
  ASSUME NEW q \in Seq(Event)
  PROVE  /\ Evict(q) \in Seq(Event) /\ Len(Evict(q)) \in Nat /\ Len(Evict(q)) <= Len(q)
         /\ Len(Evict(q)) = Cardinality(InWindowOf(q))
         /\ \E d \in Nat: /\ Len(q) = Len(Evict(q)) + d
                          /\ \A i \in 1..Len(Evict(q)): Evict(q)[i] = q[i + d]
<1>1. PICK n \in Nat: n = Cardinality(InWindowOf(q)) /\ n <= Len(q)
  BY PositionsCount DEF InWindowOf
<1>2. Evict(q) = LastOf(q, n)
  BY <1>1 DEF Evict, InWindowOf
<1>3. /\ LastOf(q, n) \in Seq(Event) /\ Len(LastOf(q, n)) = n
      /\ \E d \in Nat: /\ Len(q) = n + d
                       /\ \A i \in 1..n: LastOf(q, n)[i] = q[i + d]
  BY <1>1, LastOfProperties
<1> QED  BY <1>1, <1>2, <1>3

LEMMA RecordedProperties ==
  ASSUME NEW q \in Seq(Event), NEW n \in Nat \ {0}, Len(q) <= n, NEW e \in Event
  PROVE  Recorded(q, e, n) \in Seq(Event) /\ Len(Recorded(q, e, n)) <= n
<1>1. Append(q, e) \in Seq(Event) /\ Len(Append(q, e)) = Len(q) + 1 /\ Len(q) \in Nat
  BY AppendProperties, LenProperties
<1>2. Bounded(Append(q, e), n) \in Seq(Event) /\ Len(Bounded(Append(q, e), n)) <= n
  <2>1. CASE Len(Append(q, e)) > n
    <3>1. Append(q, e) # <<>>
      BY <1>1, EmptySeq
    <3>2. Tail(Append(q, e)) \in Seq(Event) /\ Len(Tail(Append(q, e))) = Len(q)
      BY <1>1, <3>1, HeadTailProperties
    <3> QED  BY <2>1, <3>2 DEF Bounded
  <2>2. CASE ~(Len(Append(q, e)) > n)
    BY <1>1, <2>2 DEF Bounded
  <2> QED  BY <2>1, <2>2
<1>3. Len(Bounded(Append(q, e), n)) \in Nat
  BY <1>2, LenProperties
<1> QED  BY <1>2, <1>3, EvictProperties DEF Recorded

Aged(age) == IF age > Window THEN age ELSE age + 1

LEMMA OlderProperties ==
  ASSUME NEW S, NEW q \in Seq(S),
         \A e \in S: [e EXCEPT !.age = Aged(e.age)] \in S
  PROVE  /\ Older(q) \in Seq(S) /\ Len(Older(q)) = Len(q) /\ DOMAIN Older(q) = DOMAIN q
         /\ \A i \in DOMAIN q: Older(q)[i] = [q[i] EXCEPT !.age = Aged(q[i].age)]
<1>1. Len(q) \in Nat /\ DOMAIN q = 1..Len(q) /\ \A i \in 1..Len(q): q[i] \in S
  BY LenProperties, ElementOfSeq
<1>2. Older(q) = [i \in 1..Len(q) |-> [q[i] EXCEPT !.age = Aged(q[i].age)]]
  BY <1>1 DEF Older, Aged
<1>3. \A i \in 1..Len(q): [q[i] EXCEPT !.age = Aged(q[i].age)] \in S
  BY <1>1
<1>4. Older(q) \in Seq(S) /\ Len(Older(q)) = Len(q)
  BY <1>1, <1>2, <1>3, IsASeq
<1> QED  BY <1>1, <1>2, <1>4

LEMMA OlderEvents ==
  /\ \A e \in Event: [e EXCEPT !.age = Aged(e.age)] \in Event
  /\ \A e \in Evaluation: [e EXCEPT !.age = Aged(e.age)] \in Evaluation
<1>1. \A age \in Ages: Aged(age) \in Ages
  BY AnalysisAssumption DEF Ages, Aged
<1> QED  BY <1>1 DEF Event, Evaluation

----------------------------------------------------------------------------
(* The scores                                                              *)

LEMMA ErrorsCount ==
  ASSUME NEW q \in Seq(Event)
  PROVE  Errors(q) \in Nat /\ Errors(q) <= Len(q)
BY PositionsCount DEF Errors

\* A share of at most the whole is at most the weight it is multiplied by.
LEMMA ShareBounded ==
  ASSUME NEW w \in Nat, NEW x \in Nat, NEW y \in Nat \ {0}, x <= y
  PROVE  (w * x) \div y \in Nat /\ (w * x) \div y <= w
<1>1. w * x \in Nat /\ w * x <= w * y
  OBVIOUS
<1> QED  BY <1>1

LEMMA DeviationBounded ==
  ASSUME NEW p \in Seq(Event), NEW g \in Seq(Event)
  PROVE  Deviation(p, g) \in Nat /\ Deviation(p, g) <= 3500
<1> DEFINE a == Errors(p) * Len(g)
           b == Errors(g) * Len(p)
           c == Len(p) * Len(g)
<1>1. /\ Errors(p) \in Nat /\ Errors(p) <= Len(p) /\ Len(p) \in Nat
      /\ Errors(g) \in Nat /\ Errors(g) <= Len(g) /\ Len(g) \in Nat
  BY ErrorsCount, LenProperties
<1>2. a \in Nat /\ b \in Nat /\ c \in Nat /\ a <= c
  BY <1>1
<1>3. Deviation(p, g) = IF a > b THEN (3500 * (a - b)) \div c ELSE 0
  BY DEF Deviation
<1> HIDE DEF a, b, c
<1>4. CASE a > b
  <2> DEFINE w == 3500
  <2>1. a - b \in Nat /\ c \in Nat \ {0} /\ a - b <= c /\ w \in Nat
    BY <1>2, <1>4
  <2> HIDE DEF w
  <2>2. (w * (a - b)) \div c \in Nat /\ (w * (a - b)) \div c <= w
    BY <2>1, ShareBounded
  <2> QED  BY <1>3, <1>4, <2>2 DEF w
<1>5. CASE ~(a > b)
  BY <1>3, <1>5
<1> QED  BY <1>4, <1>5

\* The statistical score never leaves the range it is documented to have.
LEMMA StatisticalBounded ==
  ASSUME NEW p \in Seq(Event), NEW g \in Seq(Event)
  PROVE  Statistical(p, g) \in Nat /\ Statistical(p, g) <= Scale
<1>1. Len(p) \in Nat /\ Len(g) \in Nat
  BY LenProperties
<1>2. \A x, y \in Nat: AtMost(x, y) \in Nat /\ AtMost(x, y) <= y
  BY DEF AtMost
<1>3. Threshold \in Nat \ {0} /\ 2 * Threshold \in Nat \ {0} /\ 6 * Threshold \in Nat \ {0}
  BY AnalysisAssumption
<1>4. ASSUME NEW w \in Nat, NEW n \in Nat, NEW y \in Nat \ {0}
      PROVE  (w * AtMost(n, y)) \div y \in Nat /\ (w * AtMost(n, y)) \div y <= w
  <2>1. AtMost(n, y) \in Nat /\ AtMost(n, y) <= y
    BY <1>2
  <2> QED  BY <2>1, ShareBounded
<1> DEFINE w1    == 4000
           w2    == 2500
           y1    == 2 * Threshold
           y2    == 6 * Threshold
           rate  == (w1 * AtMost(Len(p), y1)) \div y1
           spike == (w2 * AtMost(Len(g), y2)) \div y2
<1>5. w1 \in Nat /\ w2 \in Nat /\ y1 \in Nat \ {0} /\ y2 \in Nat \ {0}
  BY <1>3
<1>6. Statistical(p, g) = rate + Deviation(p, g) + spike
  BY DEF Statistical
<1> HIDE DEF w1, w2, y1, y2
<1>7. rate \in Nat /\ rate <= w1 /\ spike \in Nat /\ spike <= w2
  BY <1>1, <1>4, <1>5
<1> HIDE DEF rate, spike
<1>8. /\ Statistical(p, g) \in Nat
      /\ Statistical(p, g) <= w1 + 3500 + w2
  BY <1>5, <1>6, <1>7, DeviationBounded
<1> QED  BY <1>8 DEF w1, w2, Scale

\* What compute returns, for every rule, score and weight.
LEMMA ComputeProperties ==
  ASSUME NEW r \in Rules, NEW s \in Risks, NEW i \in Risks
  PROVE  LET v == Compute(r, s, i) IN
         /\ v \in [severity: Severities, risk: Risks]
         /\ v.severity = Band(v.risk) \/ (v.severity = "HIGH" /\ r = "HIGH")
         /\ r # "NONE" => v.risk >= Medium /\ Rank(v.severity) >= Rank(r)
         /\ v.severity = "NONE" <=> Safe(r, v)
<1> DEFINE w    == Weighted(r, s, i)
           risk == IF r # "NONE" /\ w < Medium THEN Medium ELSE w
           sev  == IF Rank(r) > Rank(Band(risk)) THEN r ELSE Band(risk)
<1>1. w \in Risks
  <2> DEFINE sum == (IF r = "NONE" THEN 0 ELSE RuleWeight * Scale) + StatWeight * s + IsoWeight * i
  <2>1. /\ RuleWeight * Scale \in Nat /\ StatWeight * s \in Nat /\ IsoWeight * i \in Nat
        /\ Scale \in Nat
    BY AnalysisAssumption DEF Scale, Risks
  <2>2. sum \in Nat
    BY <2>1
  <2>3. w = AtMost((sum + 5) \div 10, Scale)
    BY DEF Weighted
  <2> HIDE DEF sum
  <2> QED  BY <2>1, <2>2, <2>3 DEF AtMost, Risks
<1>2. Compute(r, s, i) = [severity |-> sev, risk |-> risk]
  BY DEF Compute
<1> HIDE DEF w
<1>3. risk \in Risks /\ risk \in Nat /\ (r # "NONE" => risk >= Medium)
  BY <1>1 DEF Medium, Risks, Scale
<1> HIDE DEF risk
<1>4. CASE risk >= High
  <2>1. Band(risk) = "HIGH" /\ sev = "HIGH"
    BY <1>4 DEF Band, Rank, Rules
  <2>2. Rank("HIGH") >= Rank(r)
    BY DEF Rank, Rules
  <2>3. ~(risk < Low)
    BY <1>3, <1>4 DEF Low, High
  <2> QED  BY <1>2, <1>3, <2>1, <2>2, <2>3 DEF Safe, Severities
<1>5. CASE ~(risk >= High) /\ risk >= Medium
  <2>1. Band(risk) = "MEDIUM" /\ sev = (IF r = "HIGH" THEN "HIGH" ELSE "MEDIUM")
    BY <1>5 DEF Band, Rank, Rules
  <2>2. Rank(sev) >= Rank(r)
    BY <2>1 DEF Rank, Rules
  <2>3. ~(risk < Low)
    BY <1>3, <1>5 DEF Low, Medium
  <2> QED  BY <1>2, <1>3, <2>1, <2>2, <2>3 DEF Safe, Severities
<1>6. CASE ~(risk >= Medium)
  <2>1. r = "NONE" /\ ~(risk >= High)
    BY <1>3, <1>6 DEF High, Medium
  <2>2. Band(risk) = (IF risk >= Low THEN "LOW" ELSE "NONE") /\ sev = Band(risk)
    BY <1>6, <2>1 DEF Band, Rank
  <2> QED  BY <1>2, <1>3, <2>1, <2>2 DEF Safe, Severities, Low
<1> QED  BY <1>4, <1>5, <1>6

----------------------------------------------------------------------------
(* The verdict                                                             *)

WindowsTyped ==
  /\ bucket \in [Addresses -> Seq(Event)]
  /\ profile \in [Addresses -> Seq(Event)]
  /\ \A a \in Addresses: Len(profile[a]) <= MaxPerIp
  /\ global \in Seq(Event) /\ Len(global) <= MaxGlobal

LEMMA EmptyWindows ==
  ASSUME bucket' = [a \in Addresses |-> <<>>], profile' = [a \in Addresses |-> <<>>],
         global' = <<>>
  PROVE  WindowsTyped'
<1>1. <<>> \in Seq(Event) /\ Len(<<>>) = 0 /\ 0 <= MaxPerIp /\ 0 <= MaxGlobal
  BY EmptySeq, AnalysisAssumption
<1> QED  BY <1>1 DEF WindowsTyped

LEMMA TickTyped ==
  ASSUME TypeOK, Tick
  PROVE  WindowsTyped'
<1>1. \A q \in Seq(Event): Older(q) \in Seq(Event) /\ Len(Older(q)) = Len(q)
  BY OlderProperties, OlderEvents
<1> QED  BY <1>1 DEF Tick, TypeOK, WindowsTyped

LEMMA EvaluateTyped ==
  ASSUME TypeOK, NEW m \in Message, Evaluate(m)
  PROVE  /\ WindowsTyped' /\ hand' = m /\ pc' = "score" /\ rule' \in Rules
         /\ stat' \in Risks /\ verdict' = NoVerdict /\ offered' = FALSE
<1> DEFINE e == [age |-> 0, err |-> IsError(m)]
<1>1. e \in Event /\ m.ip \in Addresses \cup {NoAddress}
  BY AnalysisAssumption DEF Event, Ages, IsError, Message
<1>2. m.ip # NoAddress => m.ip \in Addresses
  BY <1>1
<1> HIDE DEF e
<1>3. bucket' = IF Counts(m) THEN [bucket EXCEPT ![m.ip] = Evict(Append(@, e))] ELSE bucket
  BY DEF Evaluate, e
<1>4. global' = Recorded(global, e, MaxGlobal)
  BY DEF Evaluate, e
<1>5. profile' = IF m.ip = NoAddress THEN profile
                 ELSE [profile EXCEPT ![m.ip] = Recorded(@, e, MaxPerIp)]
  BY DEF Evaluate, e
<1>6. bucket' \in [Addresses -> Seq(Event)]
  <2>1. \A q \in Seq(Event): Evict(Append(q, e)) \in Seq(Event)
    BY <1>1, AppendProperties, EvictProperties
  <2> QED  BY <1>3, <2>1 DEF TypeOK
<1>7. global' \in Seq(Event) /\ Len(global') <= MaxGlobal
  BY <1>1, <1>4, AnalysisAssumption, RecordedProperties DEF TypeOK
<1>8. profile' \in [Addresses -> Seq(Event)] /\ \A a \in Addresses: Len(profile'[a]) <= MaxPerIp
  <2>1. \A q \in Seq(Event): Len(q) <= MaxPerIp =>
          Recorded(q, e, MaxPerIp) \in Seq(Event) /\ Len(Recorded(q, e, MaxPerIp)) <= MaxPerIp
    BY <1>1, AnalysisAssumption, RecordedProperties
  <2> QED  BY <1>2, <1>5, <2>1 DEF TypeOK
<1>9. stat' \in Risks
  <2> DEFINE p == IF m.ip = NoAddress THEN <<>> ELSE profile'[m.ip]
  <2>1. p \in Seq(Event)
    BY <1>2, <1>8, EmptySeq
  <2>2. stat' = Statistical(p, global')
    BY DEF Evaluate
  <2> HIDE DEF p
  <2>3. stat' \in Nat /\ stat' <= Scale
    BY <1>7, <2>1, <2>2, StatisticalBounded
  <2> QED  BY <2>3 DEF Risks
<1>10. rule' \in Rules
  BY DEF Evaluate, Rule, Rules
<1> QED  BY <1>6, <1>7, <1>8, <1>9, <1>10 DEF WindowsTyped, Evaluate

LEMMA ZeroIsARisk == 0 \in Risks
BY DEF Risks, Scale

LEMMA NoVerdictTyped == NoVerdict \in [severity: Severities, risk: Risks]
BY ZeroIsARisk DEF NoVerdict, Severities

\* Between messages nothing is in hand.
LEMMA IdleTyped ==
  ASSUME Idle
  PROVE  /\ pc' = "idle" /\ rule' \in {"NONE", "MEDIUM", "HIGH"} /\ stat' \in Risks
         /\ verdict' \in [severity: Severities, risk: Risks] /\ offered' \in BOOLEAN
         /\ Decided'
<1>1. offered' \in BOOLEAN
  BY Zenon DEF Idle
<1> QED  BY <1>1, ZeroIsARisk, NoVerdictTyped DEF Idle, Decided

LEMMA VerdictInit == Init => VerdictInv
<1> SUFFICES ASSUME Init  PROVE VerdictInv
  OBVIOUS
<1>1. <<>> \in Seq(Event) /\ <<>> \in Seq(Message) /\ Len(<<>>) = 0
  BY EmptySeq
<1>2. offered \in BOOLEAN
  BY Zenon DEF Init
<1>3. /\ stat \in Risks /\ made \in 0..MaxLogs /\ faults \in 0..MaxFaults
      /\ 0 <= MaxPerIp /\ 0 <= MaxGlobal
  BY AnalysisAssumption, ZeroIsARisk DEF Init
<1> QED  BY <1>1, <1>2, <1>3, NoVerdictTyped DEF Init, VerdictInv, TypeOK, Decided

LEMMA VerdictStep == VerdictInv /\ [Next]_vars => VerdictInv'
<1> SUFFICES ASSUME VerdictInv, [Next]_vars  PROVE VerdictInv'
  OBVIOUS
<1> USE DEF VerdictInv
<1>0. WindowsTyped /\ TypeOK
  BY DEF TypeOK, WindowsTyped
<1>1. CASE Tick
  <2>1. WindowsTyped'
    BY <1>1, TickTyped
  <2> QED  BY <1>1, <2>1 DEF Tick, work, TypeOK, WindowsTyped, Decided
<1>2. CASE TakeNew
  <2>1. made' \in 0..MaxLogs /\ made' \in 1..MaxLogs
    BY <1>2, AnalysisAssumption DEF TakeNew, TypeOK
  <2>2. PICK a \in Addresses \cup {NoAddress}, k \in Kinds:
          Evaluate([id |-> made', ip |-> a, kind |-> k, alerted |-> FALSE])
    BY <1>2 DEF TakeNew
  <2>3. /\ [id |-> made', ip |-> a, kind |-> k, alerted |-> FALSE] \in Message
        /\ ~[id |-> made', ip |-> a, kind |-> k, alerted |-> FALSE].alerted
    BY <2>1 DEF Message
  <2>4. PICK m \in Message: Evaluate(m) /\ ~m.alerted /\ retry' = retry /\ faults' = faults
    BY <1>2, <2>2, <2>3 DEF TakeNew
  <2> QED  BY <2>4, <2>1, EvaluateTyped, NoVerdictTyped DEF TypeOK, WindowsTyped, Decided, Rules
<1>3. CASE TakeAgain
  <2>1. /\ Head(retry) \in Message /\ Tail(retry) \in Seq(Message)
        /\ Evaluate(Head(retry)) /\ ~Head(retry).alerted
        /\ retry' = Tail(retry) /\ made' = made /\ faults' = faults
    BY <1>3, HeadTailProperties DEF TakeAgain, TypeOK
  <2> QED  BY <2>1, EvaluateTyped, NoVerdictTyped DEF TypeOK, WindowsTyped, Decided, Rules
<1>4. CASE Skip
  <2>1. Tail(retry) \in Seq(Message)
    BY <1>4, HeadTailProperties DEF Skip, TypeOK
  <2> QED  BY <1>4, <2>1 DEF Skip, windows, work, TypeOK, Decided
<1>5. CASE Decide
  <2>1. PICK i \in IsoScores: verdict' = Compute(rule, stat, i)
    BY <1>5 DEF Decide
  <2>2. rule \in Rules /\ i \in Risks /\ hand \in Message /\ ~hand.alerted
    BY <1>5, AnalysisAssumption DEF Decide, TypeOK, Rules, Decided
  <2>3. /\ verdict' \in [severity: Severities, risk: Risks]
        /\ verdict'.severity = "NONE" <=> Safe(rule, verdict')
    BY <2>1, <2>2, ComputeProperties DEF TypeOK
  <2>4. offered' \in BOOLEAN /\ (pc' = "ack" => offered')
    BY <1>5, <2>3, Zenon DEF Decide
  <2> QED  BY <1>5, <2>1, <2>2, <2>3, <2>4 DEF Decide, windows, TypeOK, Decided
<1>6. CASE Commit
  <2>1. PICK i \in IsoScores: verdict = Compute(rule, stat, i)
    BY <1>6 DEF Commit, Decided
  <2>2. rule \in Rules /\ i \in Risks
    BY AnalysisAssumption DEF TypeOK, Rules
  <2>3. ~Safe(rule, verdict)
    BY <1>6, <2>1, <2>2, ComputeProperties DEF TypeOK, Commit, Decided
  <2>4. hand' \in Message /\ hand'.alerted
    BY <1>6 DEF Commit, TypeOK, Message
  <2>5. offered' \in BOOLEAN /\ ~offered'
    BY <1>6, <2>3, Zenon DEF Commit, Safe
  <2> QED  BY <1>6, <2>1, <2>4, <2>5 DEF Commit, windows, TypeOK, Decided
<1>7. CASE Fails
  <2>1. hand \in Message /\ retry \in Seq(Message)
    BY <1>7 DEF Fails, TypeOK
  <2>2. PICK applied \in BOOLEAN: retry' = Append(retry, [hand EXCEPT !.alerted = @ \/ applied])
    BY <1>7 DEF Fails
  <2>3. [hand EXCEPT !.alerted = @ \/ applied] \in Message
    BY <2>1 DEF Message
  <2>4. retry' \in Seq(Message)
    BY <2>1, <2>2, <2>3, AppendProperties
  <2>5. faults' \in 0..MaxFaults /\ made' = made
    BY <1>7, AnalysisAssumption DEF Fails, TypeOK
  <2> QED  BY <1>7, <2>4, <2>5, IdleTyped DEF Fails, windows, TypeOK
<1>8. CASE Restart
  <2>1. retry' \in Seq(Message)
    BY <1>8, AppendProperties DEF Restart, TypeOK
  <2>2. faults' \in 0..MaxFaults /\ made' = made
    BY <1>8, AnalysisAssumption DEF Restart, TypeOK
  <2>3. WindowsTyped'
    BY <1>8, EmptyWindows DEF Restart
  <2> QED  BY <1>8, <2>1, <2>2, <2>3, IdleTyped DEF Restart, WindowsTyped, TypeOK
<1>9. CASE Ack
  BY <1>9, IdleTyped DEF Ack, windows, TypeOK
<1>10. CASE UNCHANGED vars
  BY <1>10 DEF vars, windows, work, TypeOK, Decided
<1> QED  BY <1>1, <1>2, <1>3, <1>4, <1>5, <1>6, <1>7, <1>8, <1>9, <1>10 DEF Next

\* For any addresses, limits and weights the windows never outgrow their bounds, and
\* every score stays in the range the metrics count it in.
THEOREM AnalysisTypes == Spec => []TypeOK
<1>1. VerdictInv => TypeOK
  BY DEF VerdictInv
<1> QED  BY <1>1, VerdictInit, VerdictStep, PTL DEF Spec

\* For any weights and scores: a log that was decided on is an alert or safe, never
\* both and never neither, and the severity and the score of its verdict agree.
THEOREM VerdictsAreConsistent == Spec => []VerdictConsistent
<1>1. VerdictInv => VerdictConsistent
  <2> SUFFICES ASSUME VerdictInv, pc \in {"commit", "ack"}
               PROVE  /\ \/ verdict.severity = Band(verdict.risk)
                         \/ verdict.severity = "HIGH" /\ rule = "HIGH"
                      /\ rule # "NONE" => /\ verdict.risk >= Medium
                                          /\ Rank(verdict.severity) >= Rank(rule)
    BY DEF VerdictConsistent, VerdictInv, Decided
  <2>1. PICK i \in IsoScores: verdict = Compute(rule, stat, i)
    BY DEF VerdictInv, Decided
  <2>2. rule \in Rules /\ i \in Risks /\ stat \in Risks
    BY AnalysisAssumption DEF VerdictInv, TypeOK, Rules
  <2> QED  BY <2>1, <2>2, ComputeProperties
<1> QED  BY <1>1, VerdictInit, VerdictStep, PTL DEF Spec

----------------------------------------------------------------------------
(* Bursts                                                                  *)

\* Windows and history stay in order of age.
LEMMA OrderKept ==
  ASSUME NEW S \in {Event, Evaluation}, NEW q \in Seq(S), Sorted(q)
  PROVE  /\ \A e \in S: e.age = 0 => Sorted(Append(q, e))
         /\ Sorted(Older(q))
<1>1. /\ Len(q) \in Nat /\ DOMAIN q = 1..Len(q) /\ \A i \in DOMAIN q: q[i] \in S
      /\ \A e \in S: e.age \in Nat /\ e.age <= Window + 1
      /\ \A e \in S: [e EXCEPT !.age = Aged(e.age)].age = Aged(e.age)
  <2>1. /\ \A e \in S: e.age \in Ages
        /\ \A e \in S: [e EXCEPT !.age = Aged(e.age)].age = Aged(e.age)
    BY DEF Event, Evaluation
  <2>2. \A x \in Ages: x \in Nat /\ x <= Window + 1
    BY AnalysisAssumption DEF Ages
  <2> QED  BY <2>1, <2>2, LenProperties, ElementOfSeq
<1>2. ASSUME NEW e \in S, e.age = 0  PROVE Sorted(Append(q, e))
  <2>1. /\ DOMAIN Append(q, e) = 1..(Len(q) + 1)
        /\ \A i \in 1..Len(q): Append(q, e)[i] = q[i]
        /\ Append(q, e)[Len(q) + 1] = e
    BY <1>1, AppendProperties, LenProperties
  <2> QED  BY <1>1, <1>2, <2>1 DEF Sorted
<1>3. Sorted(Older(q))
  <2>1. /\ DOMAIN Older(q) = DOMAIN q
        /\ \A i \in DOMAIN q: Older(q)[i] = [q[i] EXCEPT !.age = Aged(q[i].age)]
    BY OlderProperties, OlderEvents
  <2>2. \A i \in DOMAIN q: Older(q)[i].age = Aged(q[i].age)
    BY <1>1, <2>1
  <2>3. \A x, y \in Nat: x <= Window + 1 /\ y <= Window + 1 /\ y <= x => Aged(y) <= Aged(x)
    BY AnalysisAssumption DEF Aged
  <2> QED  BY <1>1, <2>1, <2>2, <2>3 DEF Sorted
<1> QED  BY <1>2, <1>3

\* The windows of the tracker stay in order of age.
LEMMA SortedKept ==
  ASSUME NEW q \in Seq(Event), Sorted(q)
  PROVE  /\ \A e \in Event: e.age = 0 => Sorted(Append(q, e))
         /\ Sorted(Evict(q))
         /\ Sorted(Older(q))
<1>1. Sorted(Evict(q))
  <2>1. PICK n \in Nat, d \in Nat:
          /\ DOMAIN Evict(q) = 1..n /\ DOMAIN q = 1..(n + d)
          /\ \A i \in 1..n: Evict(q)[i] = q[i + d]
    <3>1. Len(q) \in Nat /\ DOMAIN q = 1..Len(q)
      BY LenProperties
    <3> QED  BY <3>1, EvictProperties, LenProperties
  <2>2. ASSUME NEW i \in 1..n, NEW j \in 1..n, i < j
        PROVE  Evict(q)[j].age <= Evict(q)[i].age
    <3>1. i + d \in DOMAIN q /\ j + d \in DOMAIN q /\ i + d < j + d
      BY <2>1, <2>2
    <3>2. q[j + d].age <= q[i + d].age
      BY <3>1 DEF Sorted
    <3>3. Evict(q)[i] = q[i + d] /\ Evict(q)[j] = q[j + d]
      BY <2>1
    <3> QED  BY <3>2, <3>3
  <2> QED  BY <2>1, <2>2 DEF Sorted
<1> QED  BY <1>1, OrderKept

\* What eviction leaves of an ordered window is in the window.
LEMMA EvictLeavesYoung ==
  ASSUME NEW q \in Seq(Event), Sorted(q), NEW i \in DOMAIN Evict(q)
  PROVE  Evict(q)[i].age <= Window
<1>1. PICK n \in Nat, d \in Nat:
        /\ n = Cardinality(InWindowOf(q)) /\ DOMAIN Evict(q) = 1..n /\ DOMAIN q = 1..(n + d)
        /\ \A j \in 1..n: Evict(q)[j] = q[j + d]
  BY EvictProperties, LenProperties
<1>2. \A j \in DOMAIN q: q[j].age \in Nat
  <2>1. \A j \in DOMAIN q: q[j] \in Event
    BY ElementOfSeq, LenProperties
  <2> QED  BY <2>1, AnalysisAssumption DEF Event, Ages
<1>3. PICK k \in Nat: k = i + d /\ k \in 1..(n + d) /\ k > d /\ Evict(q)[i] = q[k]
  BY <1>1
<1>4. ASSUME q[k].age > Window  PROVE FALSE
  <2>1. ASSUME NEW j \in 1..(n + d), q[j].age <= Window  PROVE k < j
    <3>1. j \in Int /\ k \in Int /\ k \in DOMAIN q /\ j \in DOMAIN q
      BY <1>1, <1>3
    <3>2. q[k].age \in Nat /\ q[j].age \in Nat /\ Window \in Nat
      BY <1>2, <3>1, AnalysisAssumption
    <3>3. ~(j < k)
      BY <1>4, <2>1, <3>1, <3>2 DEF Sorted
    <3>4. j # k
      BY <1>4, <2>1, <3>2
    <3> QED  BY <3>1, <3>3, <3>4
  <2>2. \A j \in 1..(n + d): q[j].age <= Window => j \in (k + 1)..(n + d)
    BY <1>3, <2>1
  <2>3. InWindowOf(q) \in SUBSET ((k + 1)..(n + d))
    BY <1>1, <2>2 DEF InWindowOf
  <2>4. k + 1 \in Int /\ n + d \in Int
    BY <1>3
  <2>5. /\ IsFiniteSet((k + 1)..(n + d))
        /\ Cardinality((k + 1)..(n + d))
             = (IF k + 1 > n + d THEN 0 ELSE (n + d) - (k + 1) + 1)
    BY <2>4, FS_Interval
  <2>6. Cardinality((k + 1)..(n + d)) < n
    BY <1>3, <2>5
  <2>7. n <= Cardinality((k + 1)..(n + d))
    BY <1>1, <2>3, <2>5, FS_Subset
  <2> QED  BY <2>5, <2>6, <2>7, <1>3
<1> QED  BY <1>1, <1>2, <1>3, <1>4, AnalysisAssumption

\* The traces of a window survive all that happens to it.
LEMMA TracesAppend ==
  ASSUME NEW q \in Seq(Event), NEW s \in Seq(Evaluation), NEW a,
         NEW f \in Traces(q, s, a), NEW x \in Evaluation
  PROVE  /\ Traces(q, Append(s, x), a) # {}
         /\ \A e \in Event: x.ip = a /\ ~x.high /\ x.age = e.age =>
              Traces(Append(q, e), Append(s, x), a) # {}
<1>1. PICK n \in Nat, m \in Nat: Len(q) = n /\ DOMAIN q = 1..n /\ Len(s) = m /\ DOMAIN s = 1..m
  BY LenProperties
<1>2. f \in [1..n -> 1..m]
  BY <1>1 DEF Traces
<1>3. /\ DOMAIN Append(s, x) = 1..(m + 1)
      /\ \A i \in 1..m: Append(s, x)[i] = s[i]
      /\ Append(s, x)[m + 1] = x
  BY <1>1, AppendProperties, LenProperties
<1>4. f \in Traces(q, Append(s, x), a)
  BY <1>1, <1>2, <1>3 DEF Traces
<1>5. ASSUME NEW e \in Event, x.ip = a, ~x.high, x.age = e.age
      PROVE  Traces(Append(q, e), Append(s, x), a) # {}
  <2> DEFINE g == [i \in 1..(n + 1) |-> IF i = n + 1 THEN m + 1 ELSE f[i]]
  <2>1. /\ DOMAIN Append(q, e) = 1..(n + 1)
        /\ \A i \in 1..n: Append(q, e)[i] = q[i]
        /\ Append(q, e)[n + 1] = e
    BY <1>1, AppendProperties, LenProperties
  <2>2. /\ g[n + 1] = m + 1
        /\ \A i \in 1..n: g[i] = f[i] /\ f[i] \in 1..m
        /\ \A i \in 1..(n + 1): i \in 1..n \/ i = n + 1
    BY <1>2
  <2>3. g \in [1..(n + 1) -> 1..(m + 1)]
    BY <1>2
  <2> HIDE DEF g
  <2>4. \A i, j \in 1..(n + 1): g[i] = g[j] => i = j
    <3>1. \A i, j \in 1..n: f[i] = f[j] => i = j
      BY <1>1 DEF Traces
    <3>2. \A i \in 1..n: g[i] # m + 1
      BY <2>2
    <3> QED  BY <2>2, <3>1, <3>2
  <2>5. \A i \in 1..(n + 1):
          /\ Append(s, x)[g[i]].ip = a /\ ~Append(s, x)[g[i]].high
          /\ Append(s, x)[g[i]].age = Append(q, e)[i].age
    <3>1. \A i \in 1..n:
            /\ Append(s, x)[g[i]] = s[f[i]] /\ Append(q, e)[i] = q[i]
            /\ s[f[i]].ip = a /\ ~s[f[i]].high /\ s[f[i]].age = q[i].age
      BY <1>1, <1>3, <2>1, <2>2 DEF Traces
    <3>2. Append(s, x)[g[n + 1]] = x /\ Append(q, e)[n + 1] = e
      BY <1>3, <2>1, <2>2
    <3> QED  BY ZenonT(40), <1>5, <2>2, <3>1, <3>2
  <2>6. g \in Traces(Append(q, e), Append(s, x), a)
    BY <1>3, <2>1, <2>3, <2>4, <2>5 DEF Traces
  <2> QED  BY <2>6
<1> QED  BY <1>4, <1>5

LEMMA TracesKept ==
  ASSUME NEW q \in Seq(Event), NEW s \in Seq(Evaluation), NEW a, Traces(q, s, a) # {}
  PROVE  Traces(Evict(q), s, a) # {} /\ Traces(Older(q), Older(s), a) # {}
<1>1. PICK f: f \in Traces(q, s, a)
  OBVIOUS
<1>2. /\ Len(q) \in Nat /\ DOMAIN q = 1..Len(q) /\ Len(s) \in Nat /\ DOMAIN s = 1..Len(s)
      /\ f \in [DOMAIN q -> DOMAIN s]
  BY <1>1, LenProperties DEF Traces
<1>3. Traces(Evict(q), s, a) # {}
  <2>1. PICK n \in Nat, d \in Nat:
          /\ DOMAIN Evict(q) = 1..n /\ DOMAIN q = 1..(n + d)
          /\ \A i \in 1..n: Evict(q)[i] = q[i + d]
    BY <1>2, EvictProperties, LenProperties
  <2>2. \A i \in DOMAIN Evict(q): i \in Nat /\ Evict(q)[i] = q[i + d] /\ i + d \in DOMAIN q
    BY <2>1
  <2> DEFINE g == [i \in DOMAIN Evict(q) |-> f[i + d]]
  <2>3. g \in [DOMAIN Evict(q) -> DOMAIN s]
    BY <1>2, <2>2
  <2>4. \A i, j \in DOMAIN Evict(q): g[i] = g[j] => i = j
    <3> SUFFICES ASSUME NEW i \in DOMAIN Evict(q), NEW j \in DOMAIN Evict(q), g[i] = g[j]
                 PROVE  i = j
      OBVIOUS
    <3>1. i + d = j + d
      BY <1>1, <2>2 DEF Traces
    <3> QED  BY <2>2, <3>1
  <2>5. \A i \in DOMAIN Evict(q):
          s[g[i]].ip = a /\ ~s[g[i]].high /\ s[g[i]].age = Evict(q)[i].age
    BY <1>1, <2>2 DEF Traces
  <2>6. g \in Traces(Evict(q), s, a)
    BY <2>3, <2>4, <2>5 DEF Traces
  <2> QED  BY <2>6
<1>4. Traces(Older(q), Older(s), a) # {}
  <2>1. /\ DOMAIN Older(q) = DOMAIN q
        /\ \A i \in DOMAIN q: Older(q)[i] = [q[i] EXCEPT !.age = Aged(q[i].age)]
        /\ DOMAIN Older(s) = DOMAIN s
        /\ \A i \in DOMAIN s: Older(s)[i] = [s[i] EXCEPT !.age = Aged(s[i].age)]
    BY OlderProperties, OlderEvents
  <2>2. \A i \in DOMAIN q: Older(q)[i].age = Aged(q[i].age)
    <3>1. \A i \in DOMAIN q: q[i] \in Event
      BY <1>2, ElementOfSeq
    <3> QED  BY <2>1, <3>1 DEF Event
  <2>3. \A i \in DOMAIN s: /\ Older(s)[i].age = Aged(s[i].age)
                           /\ Older(s)[i].ip = s[i].ip /\ Older(s)[i].high = s[i].high
    <3>1. \A i \in DOMAIN s: s[i] \in Evaluation
      BY <1>2, ElementOfSeq
    <3> QED  BY <2>1, <3>1, Zenon DEF Evaluation
  <2>4. f \in Traces(Older(q), Older(s), a)
    BY <1>1, <1>2, <2>1, <2>2, <2>3 DEF Traces
  <2> QED  BY <2>4
<1> QED  BY <1>3, <1>4

\* Repeated evaluations: one more evaluation makes at most one more of them, none
\* if its log is new, and time changes nothing.
LEMMA RepeatedCount ==
  ASSUME NEW s \in Seq(Evaluation)
  PROVE  /\ IsFiniteSet(Repeated(s)) /\ Cardinality(Repeated(s)) \in Nat
         /\ Repeated(Older(s)) = Repeated(s)
<1>1. IsFiniteSet(Repeated(s)) /\ Cardinality(Repeated(s)) \in Nat
  BY PositionsCount DEF Repeated
<1>2. \A i \in DOMAIN s: s[i] \in Evaluation
  BY ElementOfSeq, LenProperties
<1>3. DOMAIN Older(s) = DOMAIN s /\ \A i \in DOMAIN s: Older(s)[i].id = s[i].id
  <2>1. /\ DOMAIN Older(s) = DOMAIN s
        /\ \A i \in DOMAIN s: Older(s)[i] = [s[i] EXCEPT !.age = Aged(s[i].age)]
    BY OlderProperties, OlderEvents
  <2> QED  BY <1>2, <2>1, Zenon DEF Evaluation
<1> QED  BY <1>1, <1>3 DEF Repeated

LEMMA RepeatedAppend ==
  ASSUME NEW s \in Seq(Evaluation), NEW x \in Evaluation
  PROVE  /\ (\A i \in DOMAIN s: s[i].id # x.id) => Repeated(Append(s, x)) = Repeated(s)
         /\ Cardinality(Repeated(Append(s, x))) <= Cardinality(Repeated(s)) + 1
<1>1. PICK n \in Nat: DOMAIN s = 1..n /\ Len(s) = n
  BY LenProperties
<1>2. /\ DOMAIN Append(s, x) = 1..(n + 1)
      /\ \A i \in 1..n: Append(s, x)[i] = s[i]
      /\ Append(s, x)[n + 1] = x
  BY <1>1, AppendProperties, LenProperties
<1> DEFINE same == {i \in 1..n: s[i].id = x.id}
<1>3. Repeated(Append(s, x)) = Repeated(s) \cup same
  <2>1. \A i \in 1..(n + 1): i \in 1..n \/ i = n + 1
    OBVIOUS
  <2>2. n + 1 \notin Repeated(Append(s, x))
    BY <1>2 DEF Repeated
  <2>3. \A i \in 1..n: i < n + 1 /\ i \in 1..(n + 1) /\ n + 1 \in 1..(n + 1)
    OBVIOUS
  <2>4. ASSUME NEW i \in 1..n
        PROVE  i \in Repeated(Append(s, x)) <=> i \in Repeated(s) \/ i \in same
    BY <1>1, <1>2, <2>1, <2>3 DEF Repeated
  <2> QED  BY <1>1, <1>2, <2>1, <2>2, <2>4 DEF Repeated
<1>4. \A i, j \in same \ Repeated(s): i = j
  <2> SUFFICES ASSUME NEW i \in same \ Repeated(s), NEW j \in same \ Repeated(s), i # j
               PROVE  FALSE
    OBVIOUS
  <2>1. i < j \/ j < i
    OBVIOUS
  <2> QED  BY <1>1, <2>1 DEF Repeated
<1> HIDE DEF same
<1>5. CASE same \ Repeated(s) = {}
  <2>1. Repeated(Append(s, x)) = Repeated(s)
    BY <1>3, <1>5
  <2> QED  BY <2>1, RepeatedCount
<1>6. CASE same \ Repeated(s) # {}
  <2>1. PICK i \in same: i \notin Repeated(s)
    BY <1>6
  <2>2. Repeated(Append(s, x)) = Repeated(s) \cup {i}
    BY <1>3, <1>4, <2>1
  <2>3. Cardinality(Repeated(s) \cup {i}) = Cardinality(Repeated(s)) + 1
    BY <2>1, RepeatedCount, FS_AddElement
  <2>4. ~(\A k \in DOMAIN s: s[k].id # x.id)
    BY <1>1, <2>1 DEF same
  <2> QED  BY <2>2, <2>3, <2>4, RepeatedCount
<1> QED  BY <1>5, <1>6

\* One evaluation: what it does to the tracker, to the history, and to rule.
LEMMA EvaluateCounted ==
  ASSUME BurstInv, NEW m \in Message, Evaluate(m),
         made' \in Nat, m.id <= made', made <= made'
  PROVE  /\ SeenTyped' /\ Traced' /\ BurstCounted'
         /\ Cardinality(Repeated(seen')) <= Cardinality(Repeated(seen)) + 1
         /\ m.id > made => Repeated(seen') = Repeated(seen)
<1> DEFINE e == [age |-> 0, err |-> IsError(m)]
           x == [id |-> m.id, ip |-> m.ip, high |-> IsHigh(m), err |-> IsError(m), age |-> 0]
<1>1. e \in Event /\ e.age = 0
  BY AnalysisAssumption DEF Event, Ages, IsError
<1>2. x \in Evaluation /\ x.id = m.id /\ x.ip = m.ip /\ x.age = 0
  BY AnalysisAssumption DEF Evaluation, Ages, IsError, IsHigh, Message
<1>3. x.high <=> IsHigh(m)
  OBVIOUS
<1>4. /\ bucket' = IF Counts(m) THEN [bucket EXCEPT ![m.ip] = Evict(Append(@, e))] ELSE bucket
      /\ seen' = Append(seen, x)
  BY DEF Evaluate
<1>5. seen \in Seq(Evaluation) /\ bucket \in [Addresses -> Seq(Event)]
  BY DEF BurstInv, SeenTyped, TypeOK
<1> HIDE DEF e, x
<1>6. Counts(m) => m.ip \in Addresses
  BY DEF Counts, Message
<1>7. ASSUME NEW a \in Addresses  PROVE Sorted(bucket'[a]) /\ Traces(bucket'[a], seen', a) # {}
  <2>1. Sorted(bucket[a]) /\ bucket[a] \in Seq(Event)
    BY <1>5 DEF BurstInv, Traced
  <2>2. PICK f: f \in Traces(bucket[a], seen, a)
    BY DEF BurstInv, Traced
  <2>3. CASE Counts(m) /\ m.ip = a
    <3>1. bucket'[a] = Evict(Append(bucket[a], e))
      BY <1>4, <1>5, <2>3
    <3>2. Append(bucket[a], e) \in Seq(Event) /\ Sorted(Append(bucket[a], e))
      BY <1>1, <2>1, SortedKept, AppendProperties
    <3>3. Traces(Append(bucket[a], e), Append(seen, x), a) # {}
      BY <1>1, <1>2, <1>3, <1>5, <2>1, <2>2, <2>3, TracesAppend DEF Counts
    <3>4. Append(seen, x) \in Seq(Evaluation)
      BY <1>2, <1>5, AppendProperties
    <3> QED  BY <1>4, <3>1, <3>2, <3>3, <3>4, SortedKept, TracesKept
  <2>4. CASE ~(Counts(m) /\ m.ip = a)
    <3>1. bucket'[a] = bucket[a]
      BY <1>4, <1>5, <1>6, <2>4
    <3> QED  BY <1>2, <1>4, <1>5, <2>1, <2>2, <3>1, TracesAppend
  <2> QED  BY <2>3, <2>4
<1>8. SeenTyped'
  <2>1. PICK n \in Nat: DOMAIN seen = 1..n /\ Len(seen) = n
    BY <1>5, LenProperties
  <2>2. /\ Append(seen, x) \in Seq(Evaluation) /\ DOMAIN Append(seen, x) = 1..(n + 1)
        /\ \A i \in 1..n: Append(seen, x)[i] = seen[i]
        /\ Append(seen, x)[n + 1] = x
    BY <1>2, <1>5, <2>1, AppendProperties, LenProperties
  <2>3. \A i \in 1..n: seen[i].id <= made /\ seen[i].id \in Nat
    <3>1. \A i \in 1..n: seen[i] \in Evaluation
      BY <1>5, <2>1, ElementOfSeq
    <3> QED  BY <2>1, <3>1 DEF BurstInv, SeenTyped, Evaluation
  <2>4. \A i \in 1..(n + 1): i \in 1..n \/ i = n + 1
    OBVIOUS
  <2>5. made \in Nat /\ m.id \in Nat
    BY DEF BurstInv, TypeOK, Message
  <2> QED  BY <1>2, <1>4, <2>2, <2>3, <2>4, <2>5 DEF SeenTyped
<1>9. BurstCounted'
  <2>1. hand' = m /\ rule' = Rule(m, IF Counts(m) THEN bucket'[m.ip] ELSE <<>>)
    BY DEF Evaluate
  <2>2. ASSUME rule' = "MEDIUM"
        PROVE  /\ m.ip \in Addresses /\ Len(bucket'[m.ip]) > Threshold
               /\ \A i \in DOMAIN bucket'[m.ip]: bucket'[m.ip][i].age <= Window
    <3>1. Counts(m) /\ Len(bucket'[m.ip]) > Threshold
      BY <2>1, <2>2 DEF Rule
    <3>2. bucket'[m.ip] = Evict(Append(bucket[m.ip], e))
      BY <1>4, <1>5, <1>6, <3>1
    <3>3. Append(bucket[m.ip], e) \in Seq(Event) /\ Sorted(Append(bucket[m.ip], e))
      BY <1>1, <1>5, <1>6, <3>1, SortedKept, AppendProperties DEF BurstInv, Traced
    <3> QED  BY <1>6, <3>1, <3>2, <3>3, EvictLeavesYoung
  <2> QED  BY <2>1, <2>2 DEF BurstCounted
<1>10. /\ Cardinality(Repeated(seen')) <= Cardinality(Repeated(seen)) + 1
       /\ m.id > made => Repeated(seen') = Repeated(seen)
  <2>1. ASSUME m.id > made, NEW i \in DOMAIN seen  PROVE seen[i].id # x.id
    <3>1. seen[i] \in Evaluation /\ seen[i].id <= made
      BY <1>5, ElementOfSeq, LenProperties DEF BurstInv, SeenTyped
    <3>2. seen[i].id \in Nat /\ made \in Nat /\ m.id \in Nat
      BY <3>1 DEF Evaluation, BurstInv, TypeOK, Message
    <3> QED  BY <1>2, <2>1, <3>1, <3>2
  <2> QED  BY <1>2, <1>4, <1>5, <2>1, RepeatedAppend
<1> QED  BY <1>7, <1>8, <1>9, <1>10 DEF Traced

LEMMA KnownStep ==
  ASSUME TypeOK, TypeOK', Known, [Next]_vars
  PROVE  Known'
<1>1. /\ made \in Nat /\ retry \in Seq(Message)
      /\ \A i \in DOMAIN retry: retry[i] \in Message /\ retry[i].id \in Nat
  <2>1. made \in Nat /\ retry \in Seq(Message)
    BY DEF TypeOK
  <2>2. \A i \in DOMAIN retry: retry[i] \in Message
    BY <2>1, ElementOfSeq, LenProperties
  <2>3. \A m \in Message: m.id \in Nat
    BY DEF Message
  <2> QED  BY <2>1, <2>2, <2>3
<1>2. PICK n \in Nat: Len(retry) = n /\ DOMAIN retry = 1..n
  BY <1>1, LenProperties
<1>3. ASSUME NEW m \in Message, m.id <= made, retry' = Append(retry, m), made' = made
      PROVE  \A i \in DOMAIN retry': retry'[i].id <= made'
  <2>1. /\ DOMAIN Append(retry, m) = 1..(n + 1)
        /\ \A i \in 1..n: Append(retry, m)[i] = retry[i]
        /\ Append(retry, m)[n + 1] = m
    BY <1>1, <1>2, <1>3, AppendProperties, LenProperties
  <2>2. \A i \in 1..(n + 1): i \in 1..n \/ i = n + 1
    OBVIOUS
  <2> QED  BY <1>2, <1>3, <2>1, <2>2 DEF Known
<1>4. ASSUME retry # <<>>
      PROVE  \A i \in DOMAIN Tail(retry): Tail(retry)[i] \in {retry[j]: j \in DOMAIN retry}
  <2>1. n > 0 /\ n - 1 \in Nat
    BY <1>1, <1>2, <1>4, EmptySeq
  <2>2. Tail(retry) \in Seq(Message) /\ Len(Tail(retry)) = n - 1
        /\ \A i \in 1..(n - 1): Tail(retry)[i] = retry[i + 1]
    BY <1>1, <1>2, <1>4, HeadTailProperties
  <2>3. DOMAIN Tail(retry) = 1..(n - 1)
    BY <2>2, LenProperties
  <2>4. \A i \in 1..(n - 1): i + 1 \in 1..n
    BY <2>1
  <2> QED  BY <1>2, <2>2, <2>3, <2>4
<1>5. ASSUME retry # <<>>
      PROVE  /\ \A i \in DOMAIN Tail(retry): Tail(retry)[i].id <= made
             /\ Head(retry).id <= made
  <2>1. Head(retry) = retry[1] /\ 1 \in DOMAIN retry
    BY <1>1, <1>2, <1>5, EmptySeq, HeadTailProperties
  <2> QED  BY <1>4, <1>5, <2>1 DEF Known
<1>6. CASE Tick \/ Decide \/ Commit \/ UNCHANGED vars
  <2>1. UNCHANGED <<retry, made>> /\ (pc' # "idle" => pc # "idle" /\ hand'.id = hand.id)
    <3>1. CASE Tick
      BY <3>1 DEF Tick, work
    <3>2. CASE Decide
      BY <3>2 DEF Decide
    <3>3. CASE Commit
      <4>1. hand \in Message
        BY <3>3 DEF Commit, TypeOK
      <4> QED  BY <3>3, <4>1 DEF Commit, Message
    <3>4. CASE UNCHANGED vars
      BY <3>4 DEF vars, work
    <3> QED  BY <1>6, <3>1, <3>2, <3>3, <3>4
  <2> QED  BY <2>1 DEF Known
<1>7. CASE TakeNew
  <2>1. made' = made + 1 /\ retry' = retry /\ hand'.id = made'
    BY <1>7 DEF TakeNew, Evaluate
  <2> QED  BY <1>1, <2>1 DEF Known
<1>8. CASE TakeAgain
  <2>1. made' = made /\ retry' = Tail(retry) /\ hand' = Head(retry) /\ retry # <<>>
    BY <1>8 DEF TakeAgain, Evaluate
  <2> QED  BY <1>5, <2>1 DEF Known
<1>9. CASE Skip
  <2>1. made' = made /\ retry' = Tail(retry) /\ pc' = "idle" /\ retry # <<>>
    BY <1>9 DEF Skip, work
  <2> QED  BY <1>5, <2>1 DEF Known
<1>10. CASE Fails
  <2>1. PICK applied \in BOOLEAN: retry' = Append(retry, [hand EXCEPT !.alerted = @ \/ applied])
    BY <1>10 DEF Fails
  <2>2. /\ [hand EXCEPT !.alerted = @ \/ applied] \in Message
        /\ [hand EXCEPT !.alerted = @ \/ applied].id <= made
    BY <1>10 DEF Fails, TypeOK, Known, Message
  <2>3. made' = made /\ pc' = "idle"
    BY <1>10 DEF Fails, Idle
  <2> QED  BY <1>3, <2>1, <2>2, <2>3 DEF Known
<1>11. CASE Restart
  <2>1. made' = made /\ pc' = "idle"
    BY <1>11 DEF Restart, Idle
  <2>2. CASE pc = "idle"
    BY <1>11, <2>1, <2>2 DEF Restart, Known
  <2>3. CASE pc # "idle"
    <3>1. hand \in Message /\ hand.id <= made /\ retry' = Append(retry, hand)
      BY <1>11, <2>3 DEF Restart, Known, TypeOK
    <3> QED  BY <1>3, <2>1, <3>1 DEF Known
  <2> QED  BY <2>2, <2>3
<1>12. CASE Ack
  BY <1>12 DEF Ack, Idle, Known
<1> QED  BY <1>6, <1>7, <1>8, <1>9, <1>10, <1>11, <1>12 DEF Next

LEMMA BurstInit == Init => BurstInv
<1> SUFFICES ASSUME Init  PROVE BurstInv
  OBVIOUS
<1>1. TypeOK
  BY VerdictInit DEF VerdictInv
<1>2. <<>> \in Seq(Evaluation) /\ DOMAIN <<>> = {} /\ Len(<<>>) = 0
  BY EmptySeq
<1>3. SeenTyped /\ Repeated(seen) = {}
  BY <1>2 DEF Init, SeenTyped, Repeated
<1>4. RepeatsPaid /\ Known
  BY <1>2, <1>3, FS_EmptySet DEF Init, RepeatsPaid, Known
<1>5. Traced
  <2> SUFFICES ASSUME NEW a \in Addresses
               PROVE  Sorted(bucket[a]) /\ Traces(bucket[a], seen, a) # {}
    BY DEF Traced
  <2>1. bucket[a] = <<>> /\ seen = <<>>
    BY DEF Init
  <2>2. [i \in {} |-> i] \in Traces(bucket[a], seen, a)
    BY <1>2, <2>1 DEF Traces
  <2> QED  BY <1>2, <2>1, <2>2 DEF Sorted
<1> QED  BY <1>1, <1>3, <1>4, <1>5 DEF BurstInv, BurstCounted, Init

LEMMA BurstStep == BurstInv /\ VerdictInv /\ [Next]_vars => BurstInv'
<1> SUFFICES ASSUME BurstInv, VerdictInv, [Next]_vars  PROVE BurstInv'
  OBVIOUS
<1>0. TypeOK /\ TypeOK' /\ Known'
  BY VerdictStep, KnownStep DEF VerdictInv, BurstInv
<1>1. /\ made \in Nat /\ faults \in Nat /\ retry \in Seq(Message) /\ Len(retry) \in Nat
      /\ Cardinality(Repeated(seen)) \in Nat
      /\ Cardinality(Repeated(seen)) + Len(retry) <= faults
      /\ seen \in Seq(Evaluation)
  BY <1>0, RepeatedCount, LenProperties DEF TypeOK, BurstInv, SeenTyped, RepeatsPaid
\* The steps that evaluate nothing and forget nothing.
<1>2. ASSUME UNCHANGED <<bucket, seen, made>>, pc' # "score" \/ UNCHANGED vars,
             Len(retry') <= Len(retry) + (faults' - faults)
      PROVE  BurstInv'
  <2>1. SeenTyped' /\ Traced'
    BY <1>2 DEF BurstInv, SeenTyped, Traced
  <2>2. BurstCounted'
    BY <1>2, Zenon DEF BurstInv, BurstCounted, vars, windows, work
  <2>3. RepeatsPaid'
    <3>1. Len(retry') \in Nat /\ faults' \in Nat
      BY <1>0, LenProperties DEF TypeOK
    <3> QED  BY <1>1, <1>2, <3>1 DEF RepeatsPaid
  <2> QED  BY <1>0, <2>1, <2>2, <2>3 DEF BurstInv
<1>3. CASE Tick
  <2>1. /\ UNCHANGED <<retry, made, faults>> /\ pc' = "idle" /\ seen' = Older(seen)
        /\ bucket' = [a \in Addresses |-> Older(bucket[a])]
    BY <1>3 DEF Tick, work
  <2>2. /\ Older(seen) \in Seq(Evaluation) /\ DOMAIN Older(seen) = DOMAIN seen
        /\ \A i \in DOMAIN seen: Older(seen)[i] = [seen[i] EXCEPT !.age = Aged(seen[i].age)]
    BY <1>1, OlderProperties, OlderEvents
  <2>3. \A i \in DOMAIN seen: seen[i] \in Evaluation
    BY <1>1, ElementOfSeq, LenProperties
  <2>4. \A i \in DOMAIN seen: Older(seen)[i].id = seen[i].id
    BY <2>2, <2>3, Zenon DEF Evaluation
  <2>5. SeenTyped'
    BY <2>1, <2>2, <2>4 DEF BurstInv, SeenTyped
  <2>6. RepeatsPaid'
    BY <1>1, <2>1, RepeatedCount DEF RepeatsPaid
  <2>7. Traced'
    BY <1>0, <1>1, <2>1, SortedKept, TracesKept DEF BurstInv, Traced, TypeOK
  <2> QED  BY <1>0, <2>1, <2>5, <2>6, <2>7 DEF BurstInv, BurstCounted
<1>4. CASE TakeNew
  <2>1. made' = made + 1 /\ made' \in 1..MaxLogs /\ UNCHANGED <<retry, faults>>
    BY <1>0, <1>1, <1>4, AnalysisAssumption DEF TakeNew, TypeOK
  <2>2. PICK a \in Addresses \cup {NoAddress}, k \in Kinds:
          Evaluate([id |-> made', ip |-> a, kind |-> k, alerted |-> FALSE])
    BY <1>4 DEF TakeNew
  <2>3. /\ [id |-> made', ip |-> a, kind |-> k, alerted |-> FALSE] \in Message
        /\ [id |-> made', ip |-> a, kind |-> k, alerted |-> FALSE].id = made'
    BY <2>1 DEF Message
  <2>4. made' \in Nat /\ made' > made /\ made <= made' /\ made' <= made'
    BY <1>1, <2>1
  <2>5. SeenTyped' /\ Traced' /\ BurstCounted' /\ Repeated(seen') = Repeated(seen)
    BY <2>2, <2>3, <2>4, EvaluateCounted
  <2> QED  BY <1>0, <1>1, <2>1, <2>5 DEF BurstInv, RepeatsPaid
<1>5. CASE TakeAgain
  <2>1. /\ Evaluate(Head(retry)) /\ retry' = Tail(retry) /\ made' = made /\ faults' = faults
        /\ retry # <<>>
    BY <1>5 DEF TakeAgain
  <2>2. Head(retry) \in Message /\ Len(Tail(retry)) = Len(retry) - 1
    BY <1>1, <2>1, HeadTailProperties
  <2>3. Head(retry).id <= made
    BY <1>0, <2>1 DEF Known, Evaluate
  <2>4. /\ SeenTyped' /\ Traced' /\ BurstCounted'
        /\ Cardinality(Repeated(seen')) <= Cardinality(Repeated(seen)) + 1
    BY <1>1, <2>1, <2>2, <2>3, EvaluateCounted
  <2>5. Cardinality(Repeated(seen')) \in Nat
    BY <2>4, RepeatedCount DEF SeenTyped
  <2>6. RepeatsPaid'
    BY <1>1, <2>1, <2>2, <2>4, <2>5 DEF RepeatsPaid
  <2> QED  BY <1>0, <2>4, <2>6 DEF BurstInv
<1>6. CASE Skip
  <2>1. Len(retry') = Len(retry) - 1
    BY <1>1, <1>6, HeadTailProperties DEF Skip
  <2>2. /\ UNCHANGED <<bucket, seen, made, faults>> /\ pc' = "idle"
    BY <1>6 DEF Skip, windows, work
  <2> QED  BY <1>1, <1>2, <2>1, <2>2
<1>7. CASE Decide \/ Commit \/ Ack
  <2>1. UNCHANGED <<bucket, seen, made, retry, faults>> /\ pc' # "score"
    BY <1>7 DEF Decide, Commit, Ack, Idle, windows
  <2> QED  BY <1>1, <1>2, <2>1
<1>8. CASE Fails
  <2>1. /\ UNCHANGED <<bucket, seen, made>> /\ pc' # "score" /\ faults' = faults + 1
        /\ hand \in Message
        /\ \E applied \in BOOLEAN: retry' = Append(retry, [hand EXCEPT !.alerted = @ \/ applied])
    BY <1>0, <1>8 DEF Fails, Idle, windows, TypeOK
  <2>2. Len(retry') = Len(retry) + 1
    BY <1>1, <2>1, AppendProperties DEF Message
  <2> QED  BY <1>1, <1>2, <2>1, <2>2
<1>9. CASE Restart
  <2>1. /\ pc' = "idle" /\ faults' = faults + 1 /\ seen' = <<>>
        /\ bucket' = [a \in Addresses |-> <<>>]
        /\ retry' = retry \/ (retry' = Append(retry, hand) /\ hand \in Message)
    BY <1>0, <1>9 DEF Restart, Idle, TypeOK
  <2>2. Len(retry') <= Len(retry) + 1 /\ Len(retry') \in Nat
    BY <1>1, <2>1, AppendProperties
  <2>3. <<>> \in Seq(Evaluation) /\ DOMAIN <<>> = {}
    BY EmptySeq
  <2>4. SeenTyped' /\ Repeated(seen') = {}
    BY <2>1, <2>3 DEF SeenTyped, Repeated
  <2>5. RepeatsPaid'
    <3>1. Cardinality(Repeated(seen')) = 0
      BY <2>4, FS_EmptySet
    <3> QED  BY <1>1, <2>1, <2>2, <3>1 DEF RepeatsPaid
  <2>6. ASSUME NEW a \in Addresses
        PROVE  Sorted(bucket'[a]) /\ Traces(bucket'[a], seen', a) # {}
    <3>1. bucket'[a] = <<>>
      BY <2>1
    <3>2. [i \in {} |-> i] \in Traces(bucket'[a], seen', a)
      BY <2>1, <2>3, <3>1 DEF Traces
    <3> QED  BY <2>3, <3>1, <3>2 DEF Sorted
  <2> QED  BY <1>0, <2>1, <2>4, <2>5, <2>6 DEF BurstInv, BurstCounted, Traced
<1>10. CASE UNCHANGED vars
  <2>1. UNCHANGED <<bucket, seen, made, retry, faults>>
    BY <1>10 DEF vars, windows
  <2> QED  BY <1>1, <1>2, <1>10, <2>1
<1> QED  BY <1>3, <1>4, <1>5, <1>6, <1>7, <1>8, <1>9, <1>10 DEF Next

\* What the invariant is for: the window of a burst is traced to evaluations, which
\* are of as many logs, less those that were evaluated again.
LEMMA BurstImplied == BurstInv => BurstReal
<1> SUFFICES ASSUME BurstInv, pc = "score", rule = "MEDIUM"
             PROVE  LET counted == {i \in DOMAIN seen:
                                      seen[i].ip = hand.ip /\ InWindow(seen[i]) /\ ~seen[i].high}
                    IN  Cardinality({seen[i].id: i \in counted}) + faults > Threshold
  BY DEF BurstReal
<1> DEFINE counted == {i \in DOMAIN seen:
                         seen[i].ip = hand.ip /\ InWindow(seen[i]) /\ ~seen[i].high}
           again   == Repeated(seen)
           once    == counted \ again
           ids     == {seen[i].id: i \in counted}
           q       == bucket[hand.ip]
<1>1. /\ hand.ip \in Addresses /\ Len(q) > Threshold
      /\ \A i \in DOMAIN q: q[i].age <= Window
  BY DEF BurstInv, BurstCounted
<1>2. /\ q \in Seq(Event) /\ seen \in Seq(Evaluation) /\ faults \in Nat
      /\ Len(retry) \in Nat /\ Len(q) \in Nat
  BY <1>1, LenProperties DEF BurstInv, TypeOK, SeenTyped
<1>3. PICK f: f \in Traces(q, seen, hand.ip)
  BY <1>1 DEF BurstInv, Traced
<1>4. f \in Injection(DOMAIN q, counted)
  BY <1>1, <1>3 DEF Traces, InWindow, Injection, IsInjective
<1>5. IsFiniteSet(counted) /\ Cardinality(counted) \in Nat
  BY <1>2, PositionsCount
<1>6. Len(q) <= Cardinality(counted)
  <2>1. Cardinality(DOMAIN q) <= Cardinality(counted)
    BY <1>4, <1>5, FS_Injection
  <2>2. DOMAIN q = 1..Len(q)
    BY <1>2, LenProperties
  <2>3. 1 \in Int /\ Len(q) \in Int
    BY <1>2
  <2>4. Cardinality(1..Len(q)) = (IF 1 > Len(q) THEN 0 ELSE Len(q) - 1 + 1)
    BY <2>3, FS_Interval
  <2> QED  BY <1>2, <2>1, <2>2, <2>4
<1>7. /\ IsFiniteSet(again) /\ Cardinality(again) \in Nat
      /\ Cardinality(again) + Len(retry) <= faults
  BY <1>2, RepeatedCount DEF BurstInv, RepeatsPaid
<1>8. /\ IsFiniteSet(once) /\ Cardinality(once) \in Nat
  BY <1>5, FS_Subset, FS_CardinalityType
<1>9. Cardinality(counted) <= Cardinality(once) + Cardinality(again)
  <2>1. counted \in SUBSET (once \cup again)
    OBVIOUS
  <2> HIDE DEF counted, again, once
  <2>2. /\ IsFiniteSet(once \cup again)
        /\ Cardinality(once \cup again)
             = Cardinality(once) + Cardinality(again) - Cardinality(once \cap again)
    BY <1>7, <1>8, FS_Union
  <2>3. Cardinality(once \cap again) \in Nat
    <3>1. IsFiniteSet(once \cap again)
      BY <1>8, FS_Subset
    <3> QED  BY <3>1, FS_CardinalityType
  <2>4. Cardinality(counted) <= Cardinality(once \cup again)
    BY <2>1, <2>2, FS_Subset
  <2> QED  BY <1>5, <1>7, <1>8, <2>2, <2>3, <2>4
<1>10. IsFiniteSet(ids) /\ Cardinality(ids) \in Nat
  <2>1. MaxLogs \in Int /\ IsFiniteSet(1..MaxLogs)
    BY AnalysisAssumption, FS_Interval
  <2>2. \A i \in DOMAIN seen: seen[i].id \in 1..MaxLogs
    <3>1. \A i \in DOMAIN seen: seen[i] \in Evaluation
      BY <1>2, ElementOfSeq, LenProperties
    <3> QED  BY <3>1, Zenon DEF Evaluation
  <2>3. ids \in SUBSET (1..MaxLogs)
    BY <2>2
  <2> HIDE DEF ids
  <2> QED  BY <2>1, <2>3, FS_Subset, FS_CardinalityType
<1>11. Cardinality(once) <= Cardinality(ids)
  <2> DEFINE g == [i \in once |-> seen[i].id]
  <2>1. g \in [once -> ids]
    OBVIOUS
  <2>2. ASSUME NEW i \in once, NEW j \in once, seen[i].id = seen[j].id  PROVE i = j
    <3>1. /\ i \in DOMAIN seen /\ i \notin Repeated(seen)
          /\ j \in DOMAIN seen /\ j \notin Repeated(seen) /\ DOMAIN seen = 1..Len(seen)
          /\ Len(seen) \in Nat
      BY <1>2, LenProperties
    <3>2. ~(i < j) /\ ~(j < i)
      BY <2>2, <3>1 DEF Repeated
    <3> QED  BY <3>1, <3>2
  <2>3. g \in Injection(once, ids)
    BY <2>1, <2>2 DEF Injection, IsInjective
  <2> HIDE DEF once, ids, g
  <2> QED  BY <1>10, <2>3, FS_Injection
<1> HIDE DEF counted, again, once, ids, q
<1>12. Cardinality(ids) + faults > Threshold
  BY <1>1, <1>2, <1>5, <1>6, <1>7, <1>8, <1>9, <1>10, <1>11, AnalysisAssumption
<1> QED  BY <1>12 DEF ids, counted

\* For any addresses, window, threshold and number of failures: a burst is declared
\* on more logs than the threshold, up to one for each delivery that failed.
THEOREM BurstsAreReal == Spec => []BurstReal
<1> QED  BY VerdictInit, VerdictStep, BurstInit, BurstStep, BurstImplied, PTL DEF Spec

----------------------------------------------------------------------------
(* Windows are exact                                                       *)

\* The evaluations in s that the window of address a, and that the tracker is about.
Own(s, a)    == {i \in DOMAIN s: s[i].ip = a}
Matched(s, a) == {i \in DOMAIN s: s[i].ip = a /\ ~s[i].high}

\* The evaluation at k has no place in a window, of at most n entries unless n is 0,
\* about the evaluations at M: it expired or there are n newer ones.
Out(k, s, M, n) == s[k].age > Window \/ (n # 0 /\ Cardinality({j \in M: j > k}) >= n)

\* f maps the entries of the window q in order to evaluations at M; those it leaves
\* out are older than all entries and have no place in it.
Follows(f, q, s, M, n) ==
  /\ f \in [DOMAIN q -> M]
  /\ \A i, j \in DOMAIN q: i < j => f[i] < f[j]
  /\ \A i \in DOMAIN q: q[i].age = s[f[i]].age /\ q[i].err = s[f[i]].err
  /\ \A k \in M: \/ \E i \in DOMAIN q: f[i] = k
                 \/ Out(k, s, M, n) /\ \A i \in DOMAIN q: k < f[i]
Exact(q, s, M, n) == \E f: Follows(f, q, s, M, n)

Young(q) == \A i \in DOMAIN q: q[i].age <= Window

\* What a recount of the evaluations at M, kept to the n latest, finds, and the errors in it.
Fresh(s, M)      == {k \in M: s[k].age <= Window}
Recount(s, M, n) == IF n = 0 THEN Fresh(s, M) ELSE Latest(Fresh(s, M), n)
Erring(s, R)     == {k \in R: s[k].err}

ExactInv ==
  /\ BurstInv /\ Sorted(seen)
  /\ Exact(global, seen, DOMAIN seen, MaxGlobal)
  /\ \A a \in Addresses: /\ Exact(profile[a], seen, Own(seen, a), MaxPerIp)
                         /\ Exact(bucket[a], seen, Matched(seen, a), 0)
  /\ pc = "score" =>
       /\ Young(global)
       /\ hand.ip # NoAddress => Young(profile[hand.ip])
       /\ Counts(hand) => Young(bucket[hand.ip])

LEMMA ExactSorted ==
  ASSUME NEW q \in Seq(Event), NEW s \in Seq(Evaluation), Sorted(s),
         NEW M \in SUBSET DOMAIN s, NEW n, Exact(q, s, M, n)
  PROVE  Sorted(q)
<1>1. PICK f: Follows(f, q, s, M, n)
  BY DEF Exact
<1> SUFFICES ASSUME NEW i \in DOMAIN q, NEW j \in DOMAIN q, i < j
             PROVE  q[j].age <= q[i].age
  BY DEF Sorted
<1>2. f[i] \in DOMAIN s /\ f[j] \in DOMAIN s /\ f[i] < f[j]
  BY <1>1 DEF Follows
<1>3. s[f[j]].age <= s[f[i]].age
  BY <1>2 DEF Sorted
<1> QED  BY <1>1, <1>3 DEF Follows

\* Entries that have no place in the window may be dropped off its front.
LEMMA DropKeeps ==
  ASSUME NEW q \in Seq(Event), NEW s, NEW M, NEW n, NEW f, Follows(f, q, s, M, n),
         NEW r \in Seq(Event), NEW m \in Nat, NEW d \in Nat,
         DOMAIN r = 1..m, DOMAIN q = 1..(m + d), \A i \in 1..m: r[i] = q[i + d],
         \A i \in 1..d: Out(f[i], s, M, n)
  PROVE  Exact(r, s, M, n)
<1> DEFINE g == [i \in 1..m |-> f[i + d]]
<1>1. \A i \in 1..m: i + d \in 1..(m + d) /\ g[i] = f[i + d] /\ r[i] = q[i + d]
  OBVIOUS
<1>2. g \in [DOMAIN r -> M]
  BY <1>1 DEF Follows
<1>3. \A i, j \in DOMAIN r: i < j => g[i] < g[j]
  <2> SUFFICES ASSUME NEW i \in 1..m, NEW j \in 1..m, i < j  PROVE f[i + d] < f[j + d]
    BY <1>1
  <2>1. i + d < j + d
    OBVIOUS
  <2> QED  BY <1>1, <2>1 DEF Follows
<1>4. \A i \in DOMAIN r: r[i].age = s[g[i]].age /\ r[i].err = s[g[i]].err
  BY <1>1 DEF Follows
<1>5. ASSUME NEW k \in M
      PROVE  \/ \E i \in DOMAIN r: g[i] = k
             \/ Out(k, s, M, n) /\ \A i \in DOMAIN r: k < g[i]
  <2>1. CASE \E j \in DOMAIN q: f[j] = k
    <3>1. PICK j \in 1..(m + d): f[j] = k
      BY <2>1
    <3>2. CASE j <= d
      <4>1. j \in 1..d /\ \A i \in 1..m: j < i + d
        BY <3>2
      <4>2. Out(k, s, M, n)
        BY <3>1, <4>1
      <4>3. \A i \in 1..m: f[j] < f[i + d]
        BY <1>1, <4>1 DEF Follows
      <4> QED  BY <1>1, <3>1, <4>2, <4>3
    <3>3. CASE ~(j <= d)
      <4>1. PICK i \in 1..m: j = i + d
        <5>1. j - d \in 1..m /\ j = (j - d) + d
          BY <3>3
        <5> QED  BY <5>1
      <4> QED  BY <1>1, <3>1, <4>1
    <3> QED  BY <3>2, <3>3
  <2>2. CASE ~(\E j \in DOMAIN q: f[j] = k)
    <3>1. Out(k, s, M, n) /\ \A i \in DOMAIN q: k < f[i]
      BY <2>2 DEF Follows
    <3> QED  BY <1>1, <3>1
  <2> QED  BY <2>1, <2>2
<1> HIDE DEF g
<1>6. Follows(g, r, s, M, n)
  BY <1>2, <1>3, <1>4, <1>5 DEF Follows
<1> QED  BY <1>6 DEF Exact

\* What eviction drops has expired.
LEMMA EvictKeeps ==
  ASSUME NEW q \in Seq(Event), NEW s \in Seq(Evaluation), Sorted(s),
         NEW M \in SUBSET DOMAIN s, NEW n, Exact(q, s, M, n)
  PROVE  Exact(Evict(q), s, M, n) /\ Young(Evict(q))
<1>1. Sorted(q)
  BY ExactSorted
<1>2. PICK f: Follows(f, q, s, M, n)
  BY DEF Exact
<1>3. PICK m \in Nat, d \in Nat:
        /\ m = Cardinality(InWindowOf(q)) /\ DOMAIN Evict(q) = 1..m /\ DOMAIN q = 1..(m + d)
        /\ \A j \in 1..m: Evict(q)[j] = q[j + d]
        /\ Evict(q) \in Seq(Event)
  <2>1. /\ Evict(q) \in Seq(Event) /\ Len(Evict(q)) = Cardinality(InWindowOf(q))
        /\ Len(Evict(q)) \in Nat /\ DOMAIN Evict(q) = 1..Len(Evict(q))
    BY EvictProperties, LenProperties
  <2>2. PICK d \in Nat: /\ Len(q) = Len(Evict(q)) + d
                        /\ \A i \in 1..Len(Evict(q)): Evict(q)[i] = q[i + d]
    BY EvictProperties
  <2>3. DOMAIN q = 1..(Len(Evict(q)) + d)
    BY <2>2, LenProperties
  <2> QED  BY <2>1, <2>2, <2>3
<1>4. \A j \in DOMAIN q: q[j].age \in Nat
  <2>1. \A j \in DOMAIN q: q[j] \in Event
    BY ElementOfSeq, LenProperties
  <2> QED  BY <2>1, AnalysisAssumption DEF Event, Ages
<1>5. ASSUME NEW i \in 1..d  PROVE q[i].age > Window
  <2>1. SUFFICES ASSUME q[i].age <= Window  PROVE FALSE
    <3>1. q[i].age \in Nat /\ Window \in Nat
      BY <1>3, <1>4, AnalysisAssumption
    <3> QED  BY <3>1
  <2>2. ASSUME NEW j \in i..(m + d)  PROVE j \in InWindowOf(q)
    <3>1. i \in DOMAIN q /\ j \in DOMAIN q /\ (i < j \/ i = j)
      BY <1>3
    <3>2. q[j].age <= q[i].age
      BY <1>1, <1>4, <3>1 DEF Sorted
    <3>3. q[j].age <= Window
      BY <1>4, <2>1, <3>1, <3>2, AnalysisAssumption
    <3> QED  BY <3>1, <3>3 DEF InWindowOf
  <2>3. i..(m + d) \in SUBSET InWindowOf(q) /\ InWindowOf(q) \in SUBSET (1..(m + d))
    BY <1>3, <2>2 DEF InWindowOf
  <2>4. i \in Int /\ m + d \in Int /\ 1 \in Int /\ i <= m + d
    OBVIOUS
  <2>5. IsFiniteSet(InWindowOf(q))
    BY <2>3, <2>4, FS_Interval, FS_Subset
  <2>6. Cardinality(i..(m + d)) <= m
    BY <1>3, <2>3, <2>5, FS_Subset
  <2>7. Cardinality(i..(m + d)) = IF i > m + d THEN 0 ELSE (m + d) - i + 1
    BY <2>4, FS_Interval
  <2> QED  BY <2>4, <2>6, <2>7
<1>6. \A i \in 1..d: Out(f[i], s, M, n)
  <2>1. \A i \in 1..d: i \in DOMAIN q
    BY <1>3
  <2> QED  BY <1>2, <1>5, <2>1 DEF Follows, Out
<1>7. Exact(Evict(q), s, M, n)
  BY <1>2, <1>3, <1>6, DropKeeps
<1> QED  BY <1>1, <1>7, EvictLeavesYoung DEF Young

\* So may the first of n + 1 entries.
LEMMA BoundedKeeps ==
  ASSUME NEW q \in Seq(Event), NEW s \in Seq(Evaluation), NEW M \in SUBSET DOMAIN s,
         NEW n \in Nat \ {0}, Len(q) <= n + 1, Exact(q, s, M, n)
  PROVE  Bounded(q, n) \in Seq(Event) /\ Exact(Bounded(q, n), s, M, n)
<1>1. CASE ~(Len(q) > n)
  BY <1>1 DEF Bounded
<1>2. CASE Len(q) > n
  <2>1. Len(q) = n + 1 /\ DOMAIN q = 1..(n + 1)
    BY <1>2, LenProperties
  <2>2. PICK f: Follows(f, q, s, M, n)
    BY DEF Exact
  <2>3. q # <<>>
    BY <2>1, EmptySeq
  <2>4. /\ Bounded(q, n) = Tail(q) /\ Tail(q) \in Seq(Event)
        /\ DOMAIN Tail(q) = 1..n /\ \A i \in 1..n: Tail(q)[i] = q[i + 1]
    <3>1. Tail(q) \in Seq(Event) /\ Len(Tail(q)) = n
          /\ \A i \in 1..Len(Tail(q)): Tail(q)[i] = q[i + 1]
      BY <2>1, <2>3, HeadTailProperties
    <3>2. DOMAIN Tail(q) = 1..n
      BY <3>1, LenProperties
    <3> QED  BY <1>2, <3>1, <3>2 DEF Bounded
  <2> DEFINE newer == {j \in M: j > f[1]}
             h     == [i \in 1..n |-> f[i + 1]]
  <2>5. IsFiniteSet(newer) /\ Cardinality(newer) \in Nat
    <3>1. Len(s) \in Nat /\ DOMAIN s = 1..Len(s) /\ 1 \in Int /\ Len(s) \in Int
      BY LenProperties
    <3>2. newer \in SUBSET (1..Len(s))
      BY <3>1
    <3> HIDE DEF newer
    <3> QED  BY <3>1, <3>2, FS_Interval, FS_Subset, FS_CardinalityType
  <2>6. h \in Injection(1..n, newer)
    <3>1. \A i \in 1..n: i + 1 \in DOMAIN q /\ 1 \in DOMAIN q /\ 1 < i + 1
      BY <2>1
    <3>2. \A i \in 1..n: f[i + 1] \in M /\ f[1] < f[i + 1]
      BY <2>2, <3>1 DEF Follows
    <3>3. \A i \in 1..n: f[i + 1] \in newer
      BY <2>1, <3>2, LenProperties
    <3>4. ASSUME NEW i \in 1..n, NEW j \in 1..n, f[i + 1] = f[j + 1]  PROVE i = j
      <4>1. f[i + 1] \in Int /\ f[j + 1] \in Int
        BY <3>2, LenProperties
      <4>2. ~(i + 1 < j + 1) /\ ~(j + 1 < i + 1)
        BY <2>2, <3>1, <3>4, <4>1 DEF Follows
      <4> QED  BY <4>2
    <3> HIDE DEF newer
    <3>5. h \in [1..n -> newer] /\ \A i \in 1..n: h[i] = f[i + 1]
      BY <3>3
    <3> HIDE DEF h
    <3> QED  BY <3>4, <3>5 DEF Injection, IsInjective
  <2> HIDE DEF h
  <2>7. Cardinality(newer) >= n
    <3>1. Cardinality(1..n) = n
      <4>1. 1 \in Int /\ n \in Int
        OBVIOUS
      <4>2. Cardinality(1..n) = IF 1 > n THEN 0 ELSE n - 1 + 1
        BY <4>1, FS_Interval
      <4> QED  BY <4>2
    <3>2. Cardinality(1..n) <= Cardinality(newer)
      <4> HIDE DEF newer
      <4> QED  BY <2>5, <2>6, FS_Injection
    <3> QED  BY <2>5, <3>1, <3>2
  <2>8. \A i \in 1..1: Out(f[i], s, M, n)
    BY <2>7 DEF Out
  <2>9. Exact(Tail(q), s, M, n)
    BY <2>1, <2>2, <2>4, <2>8, DropKeeps
  <2> QED  BY <2>4, <2>9
<1> QED  BY <1>1, <1>2

\* Newer evaluations leave out what was left out.
LEMMA OutStays ==
  ASSUME NEW s \in Seq(Evaluation), NEW x \in Evaluation, NEW M \in SUBSET DOMAIN s,
         NEW N \in SUBSET DOMAIN Append(s, x), M \subseteq N,
         NEW n \in Nat, NEW k \in M, Out(k, s, M, n)
  PROVE  Out(k, Append(s, x), N, n)
<1>1. /\ Len(s) \in Nat /\ DOMAIN s = 1..Len(s) /\ DOMAIN Append(s, x) = 1..(Len(s) + 1)
      /\ \A i \in DOMAIN s: Append(s, x)[i] = s[i]
      /\ 1 \in Int /\ Len(s) + 1 \in Int
  BY AppendProperties, LenProperties
<1>2. CASE s[k].age > Window
  BY <1>1, <1>2 DEF Out
<1>3. CASE n # 0 /\ Cardinality({j \in M: j > k}) >= n
  <2>1. PICK S, T: S = {j \in M: j > k} /\ T = {j \in N: j > k}
    OBVIOUS
  <2>2. S \in SUBSET T /\ T \in SUBSET (1..(Len(s) + 1))
    BY <1>1, <2>1
  <2>3. IsFiniteSet(T) /\ IsFiniteSet(S)
    BY <1>1, <2>2, FS_Interval, FS_Subset
  <2>4. Cardinality(S) <= Cardinality(T) /\ Cardinality(S) \in Nat /\ Cardinality(T) \in Nat
    BY <2>2, <2>3, FS_Subset, FS_CardinalityType
  <2>5. Cardinality(T) >= n
    BY <1>3, <2>1, <2>4
  <2> QED  BY <1>3, <2>1, <2>5 DEF Out
<1> QED  BY <1>2, <1>3 DEF Out

LEMMA AppendKeeps ==
  ASSUME NEW q \in Seq(Event), NEW s \in Seq(Evaluation), NEW x \in Evaluation,
         NEW M \in SUBSET DOMAIN s, NEW n \in Nat, Exact(q, s, M, n)
  PROVE  /\ Exact(q, Append(s, x), M, n)
         /\ \A e \in Event: e.age = x.age /\ e.err = x.err =>
              Exact(Append(q, e), Append(s, x), M \cup {Len(s) + 1}, n)
<1>1. PICK f: Follows(f, q, s, M, n)
  BY DEF Exact
<1>2. /\ Len(s) \in Nat /\ DOMAIN s = 1..Len(s) /\ DOMAIN Append(s, x) = 1..(Len(s) + 1)
      /\ \A i \in DOMAIN s: Append(s, x)[i] = s[i]
      /\ Append(s, x)[Len(s) + 1] = x
      /\ DOMAIN s \subseteq DOMAIN Append(s, x)
  BY AppendProperties, LenProperties
<1>3. \A i \in DOMAIN q: f[i] \in M /\ Append(s, x)[f[i]] = s[f[i]]
  BY <1>1, <1>2 DEF Follows
<1>4. Exact(q, Append(s, x), M, n)
  <2>1. M \in SUBSET DOMAIN Append(s, x)
    BY <1>2
  <2>2. \A k \in M: Out(k, s, M, n) => Out(k, Append(s, x), M, n)
    BY <2>1, OutStays
  <2>3. Follows(f, q, Append(s, x), M, n)
    BY <1>1, <1>3, <2>2 DEF Follows
  <2> QED  BY <2>3 DEF Exact
<1>5. ASSUME NEW e \in Event, e.age = x.age, e.err = x.err
      PROVE  Exact(Append(q, e), Append(s, x), M \cup {Len(s) + 1}, n)
  <2> DEFINE N == M \cup {Len(s) + 1}
  <2>1. PICK m \in Nat: DOMAIN q = 1..m /\ DOMAIN Append(q, e) = 1..(m + 1)
          /\ (\A i \in 1..m: Append(q, e)[i] = q[i]) /\ Append(q, e)[m + 1] = e
    BY AppendProperties, LenProperties
  <2> DEFINE g == [i \in 1..(m + 1) |-> IF i = m + 1 THEN Len(s) + 1 ELSE f[i]]
  <2>2. \A i \in 1..(m + 1): i = m + 1 \/ (i \in 1..m /\ i # m + 1)
    BY <2>1
  <2>3. /\ \A i \in 1..m: i \in 1..(m + 1) /\ i # m + 1
        /\ m + 1 \in 1..(m + 1)
    BY <2>1
  <2>4. (\A i \in 1..m: g[i] = f[i]) /\ g[m + 1] = Len(s) + 1
    BY <2>3
  <2>5. g \in [1..(m + 1) -> N]
    BY <1>3, <2>1, <2>2
  <2> HIDE DEF g
  <2>6. N \in SUBSET DOMAIN Append(s, x) /\ M \subseteq N
    BY <1>2
  <2>7. \A i \in 1..m: f[i] \in M /\ f[i] < Len(s) + 1
    BY <1>2, <1>3, <2>1
  <2>8. ASSUME NEW i \in 1..(m + 1), NEW j \in 1..(m + 1), i < j  PROVE g[i] < g[j]
    <3>1. i \in 1..m
      BY <2>8
    <3>2. CASE j \in 1..m
      BY <1>1, <2>1, <2>4, <2>8, <3>1, <3>2 DEF Follows
    <3>3. CASE j = m + 1
      BY <2>4, <2>7, <3>1, <3>3
    <3> QED  BY <2>2, <3>2, <3>3
  <2>9. ASSUME NEW i \in 1..(m + 1)
        PROVE  /\ Append(q, e)[i].age = Append(s, x)[g[i]].age
               /\ Append(q, e)[i].err = Append(s, x)[g[i]].err
    <3>1. CASE i = m + 1
      BY <1>2, <1>5, <2>1, <2>4, <3>1
    <3>2. CASE i \in 1..m
      <4>1. Append(q, e)[i] = q[i] /\ g[i] = f[i] /\ Append(s, x)[f[i]] = s[f[i]]
        BY <1>3, <2>1, <2>4, <3>2
      <4>2. q[i].age = s[f[i]].age /\ q[i].err = s[f[i]].err
        BY <1>1, <2>1, <3>2 DEF Follows
      <4> QED  BY <4>1, <4>2
    <3> QED  BY <2>2, <3>1, <3>2
  <2>10. ASSUME NEW k \in N
         PROVE  \/ \E i \in 1..(m + 1): g[i] = k
                \/ Out(k, Append(s, x), N, n) /\ \A i \in 1..(m + 1): k < g[i]
    <3>1. CASE k = Len(s) + 1
      BY <2>3, <2>4, <3>1
    <3>2. CASE k \in M /\ \E i \in 1..m: f[i] = k
      BY <2>3, <2>4, <3>2
    <3>3. CASE k \in M /\ ~\E i \in 1..m: f[i] = k
      <4>1. Out(k, s, M, n) /\ \A i \in 1..m: k < f[i]
        BY <1>1, <2>1, <3>3 DEF Follows
      <4>2. Out(k, Append(s, x), N, n)
        <5> HIDE DEF N
        <5> QED  BY <2>6, <3>3, <4>1, OutStays
      <4>3. k < Len(s) + 1
        BY <1>2, <3>3
      <4> QED  BY <2>2, <2>4, <4>1, <4>2, <4>3
    <3> QED  BY <3>1, <3>2, <3>3
  <2>11. Follows(g, Append(q, e), Append(s, x), N, n)
    BY <2>1, <2>5, <2>8, <2>9, <2>10 DEF Follows
  <2> QED  BY <2>11 DEF Exact
<1> QED  BY <1>4, <1>5

LEMMA OlderKeeps ==
  ASSUME NEW q \in Seq(Event), NEW s \in Seq(Evaluation), NEW M \in SUBSET DOMAIN s,
         NEW n, Exact(q, s, M, n)
  PROVE  Exact(Older(q), Older(s), M, n)
<1>1. PICK f: Follows(f, q, s, M, n)
  BY DEF Exact
<1>2. /\ \A i \in DOMAIN q: q[i] \in Event
      /\ \A i \in DOMAIN s: s[i] \in Evaluation
  BY ElementOfSeq, LenProperties
<1>3. /\ DOMAIN Older(q) = DOMAIN q /\ DOMAIN Older(s) = DOMAIN s
      /\ \A i \in DOMAIN q: Older(q)[i] = [q[i] EXCEPT !.age = Aged(q[i].age)]
      /\ \A i \in DOMAIN s: Older(s)[i] = [s[i] EXCEPT !.age = Aged(s[i].age)]
  BY OlderProperties, OlderEvents
<1>4. /\ \A i \in DOMAIN q: Older(q)[i].age = Aged(q[i].age) /\ Older(q)[i].err = q[i].err
      /\ \A i \in DOMAIN s: Older(s)[i].age = Aged(s[i].age) /\ Older(s)[i].err = s[i].err
  <2>1. ASSUME NEW i \in DOMAIN q
        PROVE  Older(q)[i].age = Aged(q[i].age) /\ Older(q)[i].err = q[i].err
    BY <1>2, <1>3 DEF Event
  <2>2. ASSUME NEW i \in DOMAIN s
        PROVE  Older(s)[i].age = Aged(s[i].age) /\ Older(s)[i].err = s[i].err
    BY <1>2, <1>3 DEF Evaluation
  <2> QED  BY <2>1, <2>2
<1>5. ASSUME NEW k \in M, Out(k, s, M, n)  PROVE Out(k, Older(s), M, n)
  <2>1. s[k].age > Window => Aged(s[k].age) > Window
    BY DEF Aged
  <2> QED  BY <1>4, <1>5, <2>1 DEF Out
<1>6. \A i \in DOMAIN q: f[i] \in DOMAIN s
  BY <1>1 DEF Follows
<1>7. Follows(f, Older(q), Older(s), M, n)
  BY <1>1, <1>3, <1>4, <1>5, <1>6 DEF Follows
<1> QED  BY <1>7 DEF Exact

\* A bounded deque keeps what belongs into it.
LEMMA RecordedKeeps ==
  ASSUME NEW q \in Seq(Event), NEW s \in Seq(Evaluation), Sorted(s),
         NEW M \in SUBSET DOMAIN s, NEW n \in Nat \ {0}, Len(q) <= n, Exact(q, s, M, n),
         NEW x \in Evaluation, x.age = 0, NEW e \in Event, e.age = 0, e.err = x.err
  PROVE  /\ Exact(Recorded(q, e, n), Append(s, x), M \cup {Len(s) + 1}, n)
         /\ Young(Recorded(q, e, n))
<1> DEFINE N == M \cup {Len(s) + 1}
<1>1. /\ Append(s, x) \in Seq(Evaluation) /\ Sorted(Append(s, x))
      /\ N \in SUBSET DOMAIN Append(s, x)
  <2>1. /\ Append(s, x) \in Seq(Evaluation) /\ Len(s) \in Nat
        /\ DOMAIN s = 1..Len(s) /\ DOMAIN Append(s, x) = 1..(Len(s) + 1)
    BY AppendProperties, LenProperties
  <2> QED  BY <2>1, OrderKept
<1>2. /\ Append(q, e) \in Seq(Event) /\ Len(Append(q, e)) <= n + 1
      /\ Exact(Append(q, e), Append(s, x), N, n)
  <2>1. Append(q, e) \in Seq(Event) /\ Len(Append(q, e)) = Len(q) + 1 /\ Len(q) \in Nat
    BY AppendProperties, LenProperties
  <2> QED  BY <2>1, AppendKeeps
<1> HIDE DEF N
<1>3. PICK r \in Seq(Event): r = Bounded(Append(q, e), n) /\ Exact(r, Append(s, x), N, n)
  BY <1>1, <1>2, BoundedKeeps
<1>4. Exact(Evict(r), Append(s, x), N, n) /\ Young(Evict(r))
  BY <1>1, <1>3, EvictKeeps
<1> QED  BY <1>3, <1>4 DEF Recorded, N

\* What the invariant is for: a window of young entries holds the evaluations a
\* recount finds.
LEMMA Recounted ==
  ASSUME NEW q \in Seq(Event), NEW s \in Seq(Evaluation), Sorted(s),
         NEW M \in SUBSET DOMAIN s, NEW n \in Nat, Exact(q, s, M, n), Young(q),
         n = 0 \/ Len(q) <= n
  PROVE  /\ Len(q) = Cardinality(Recount(s, M, n))
         /\ Errors(q) = Cardinality(Erring(s, Recount(s, M, n)))
<1> PICK W: W = Fresh(s, M)
  OBVIOUS
<1> PICK R: R = Recount(s, M, n)
  OBVIOUS
<1> PICK B: B = Erring(s, R)
  OBVIOUS
<1> /\ \A k: k \in W <=> k \in M /\ s[k].age <= Window
    /\ R = IF n = 0 THEN W ELSE Latest(W, n)
    /\ \A k: k \in B <=> k \in R /\ s[k].err
  BY DEF Fresh, Recount, Erring
<1>1. PICK f: Follows(f, q, s, M, n)
  BY DEF Exact
<1>2. PICK m \in Nat: Len(q) = m /\ DOMAIN q = 1..m
  BY LenProperties
<1>3. /\ Len(s) \in Nat /\ DOMAIN s = 1..Len(s) /\ M \in SUBSET (1..Len(s))
      /\ W \in SUBSET (1..Len(s)) /\ \A k \in 1..Len(s): s[k].age \in Nat
  <2>1. Len(s) \in Nat /\ DOMAIN s = 1..Len(s)
    BY LenProperties
  <2>2. \A k \in 1..Len(s): s[k] \in Evaluation
    BY ElementOfSeq
  <2>3. \A x \in Evaluation: x.age \in Nat
    BY AnalysisAssumption DEF Evaluation, Ages
  <2> QED  BY <2>1, <2>2, <2>3
<1>4. ASSUME NEW S \in SUBSET (1..Len(s))
      PROVE  IsFiniteSet(S) /\ Cardinality(S) \in Nat
  <2>1. 1 \in Int /\ Len(s) \in Int
    BY <1>3
  <2>2. IsFiniteSet(1..Len(s))
    BY <2>1, FS_Interval
  <2> QED  BY <2>2, FS_Subset, FS_CardinalityType
<1> DEFINE G == {k \in M: \E i \in 1..m: f[i] = k}
<1>5. \A i \in 1..m: f[i] \in M /\ f[i] \in G /\ f[i] \in W
  <2>1. \A i \in 1..m: f[i] \in M /\ s[f[i]].age = q[i].age
    BY <1>1, <1>2 DEF Follows
  <2> QED  BY <1>2, <2>1 DEF Young
<1>6. \A k \in W: k \in G \/ (Out(k, s, M, n) /\ \A i \in 1..m: k < f[i])
  BY <1>1, <1>2 DEF Follows
<1>7. f \in Bijection(1..m, G)
  <2>1. f \in [1..m -> G]
    BY <1>1, <1>2, <1>5 DEF Follows
  <2>2. ASSUME NEW i \in 1..m, NEW j \in 1..m, f[i] = f[j]  PROVE i = j
    <3>1. f[i] \in M /\ f[j] \in M
      BY <1>5
    <3>2. f[i] \in Int /\ f[j] \in Int
      BY <1>3, <3>1
    <3>3. /\ i < j => f[i] < f[j]
          /\ j < i => f[j] < f[i]
      BY <1>1, <1>2 DEF Follows
    <3>4. ~(i < j) /\ ~(j < i)
      BY <2>2, <3>2, <3>3
    <3> QED  BY <3>4
  <2>3. \A k \in G: \E i \in 1..m: f[i] = k
    OBVIOUS
  <2> HIDE DEF G
  <2> QED  BY <2>1, <2>2, <2>3 DEF Bijection, Injection, Surjection, IsInjective
<1>8. G \in SUBSET (1..Len(s)) /\ G \in SUBSET W
  BY <1>3, <1>5
<1>9. IsFiniteSet(1..m) /\ Cardinality(1..m) = m
  <2>1. 1 \in Int /\ m \in Int
    OBVIOUS
  <2>2. IsFiniteSet(1..m) /\ Cardinality(1..m) = IF 1 > m THEN 0 ELSE m - 1 + 1
    BY <2>1, FS_Interval
  <2> QED  BY <2>2
<1> HIDE DEF G
<1>10. Cardinality(G) = m
  BY <1>7, <1>9, FS_Bijection DEF ExistsBijection
<1>11. R = G
  <2>1. CASE n = 0
    <3>1. \A k \in W: ~Out(k, s, M, n)
      BY <1>3, <2>1, AnalysisAssumption DEF Out
    <3> QED  BY <1>6, <1>8, <2>1, <3>1
  <2>2. CASE n # 0
    <3>1. ASSUME NEW k \in G  PROVE k \in Latest(W, n)
      <4>1. PICK S: S = {j \in W: j >= k}
        OBVIOUS
      <4>2. PICK i \in 1..m: f[i] = k
        BY <1>7 DEF Bijection, Surjection
      <4>3. ASSUME NEW j \in S  PROVE j \in G
        <5>1. j \in W /\ j >= k /\ j \in Int /\ k \in Int
          BY <1>3, <1>8, <4>1
        <5>2. ~(j < f[i])
          BY <4>2, <5>1
        <5> QED  BY <1>6, <5>1, <5>2
      <4>4. S \in SUBSET G /\ S \in SUBSET (1..Len(s))
        BY <1>8, <4>3
      <4>5. Cardinality(S) <= m /\ Cardinality(S) \in Nat
        BY <1>4, <1>8, <1>10, <4>4, FS_Subset
      <4>6. Cardinality(S) <= n
        BY <1>2, <2>2, <4>5
      <4> QED  BY <1>8, <4>1, <4>6 DEF Latest
    <3>2. ASSUME NEW k \in Latest(W, n), k \notin G  PROVE FALSE
      <4>1. PICK S, T: S = {j \in W: j >= k} /\ T = {j \in M: j > k}
        OBVIOUS
      <4>2. k \in W /\ Cardinality(S) <= n
        BY <4>1 DEF Latest
      <4>3. Out(k, s, M, n) /\ k \in 1..Len(s) /\ s[k].age <= Window
        BY <1>3, <1>6, <3>2, <4>2
      <4>4. Cardinality(T) >= n
        BY <1>3, <4>1, <4>3, AnalysisAssumption DEF Out
      <4>5. ASSUME NEW j \in T  PROVE j \in S /\ j # k
        <5>1. j \in 1..Len(s) /\ j \in M /\ j > k
          BY <1>3, <4>1
        <5>2. s[j].age <= s[k].age
          BY <1>3, <4>3, <5>1 DEF Sorted
        <5>3. s[j].age <= Window
          BY <1>3, <4>3, <5>1, <5>2, AnalysisAssumption
        <5> QED  BY <4>1, <4>3, <5>1, <5>3
      <4>6. /\ T \in SUBSET (1..Len(s)) /\ S \in SUBSET (1..Len(s))
            /\ T \cup {k} \in SUBSET S /\ k \notin T
        BY <1>3, <4>1, <4>2, <4>3, <4>5
      <4>7. /\ IsFiniteSet(T) /\ IsFiniteSet(S)
            /\ Cardinality(T) \in Nat /\ Cardinality(S) \in Nat
        BY <1>4, <4>6
      <4>8. Cardinality(T \cup {k}) = Cardinality(T) + 1
        BY <4>6, <4>7, FS_AddElement
      <4>9. Cardinality(T \cup {k}) <= Cardinality(S)
        BY <4>6, <4>7, FS_Subset
      <4> QED  BY <4>2, <4>4, <4>7, <4>8, <4>9
    <3> QED  BY <2>2, <3>1, <3>2, <1>8 DEF Latest
  <2> QED  BY <2>1, <2>2
<1>12. Errors(q) = Cardinality(B)
  <2>1. PICK A: A = {i \in 1..m: q[i].err}
    OBVIOUS
  <2>2. PICK h: h = [i \in A |-> f[i]]
    OBVIOUS
  <2>3. \A i \in 1..m: q[i].err = s[f[i]].err
    BY <1>1, <1>2 DEF Follows
  <2>4. h \in [A -> B]
    BY <1>5, <1>11, <2>1, <2>2, <2>3
  <2>5. \A i, j \in A: h[i] = h[j] => i = j
    BY <1>7, <2>1, <2>2 DEF Bijection, Injection, IsInjective
  <2>6. ASSUME NEW k \in B  PROVE \E i \in A: h[i] = k
    <3>1. PICK i \in 1..m: f[i] = k
      BY <1>7, <1>11 DEF Bijection, Surjection
    <3> QED  BY <1>11, <2>1, <2>2, <2>3, <3>1
  <2>7. h \in Bijection(A, B)
    BY <2>4, <2>5, <2>6 DEF Bijection, Injection, Surjection, IsInjective
  <2>8. IsFiniteSet(A)
    BY <1>9, <2>1, FS_Subset
  <2>9. Cardinality(B) = Cardinality(A)
    BY <2>7, <2>8, FS_Bijection DEF ExistsBijection
  <2> QED  BY <1>2, <2>1, <2>9 DEF Errors
<1> QED  BY <1>2, <1>10, <1>11, <1>12

LEMMA NothingExact ==
  ASSUME NEW n
  PROVE  /\ Exact(<<>>, <<>>, {}, n) /\ Sorted(<<>>) /\ DOMAIN <<>> = {}
         /\ \A a: Own(<<>>, a) = {} /\ Matched(<<>>, a) = {}
<1>1. DOMAIN <<>> = {}
  BY EmptySeq
<1>2. [i \in {} |-> i] \in [{} -> {}]
  OBVIOUS
<1>3. Follows([i \in {} |-> i], <<>>, <<>>, {}, n)
  BY <1>1, <1>2 DEF Follows
<1> QED  BY <1>1, <1>3 DEF Exact, Sorted, Own, Matched

LEMMA ExactInit == Init => ExactInv
<1> SUFFICES ASSUME Init  PROVE ExactInv
  OBVIOUS
<1>1. BurstInv
  BY BurstInit
<1>2. /\ seen = <<>> /\ global = <<>> /\ pc = "idle"
      /\ \A a \in Addresses: bucket[a] = <<>> /\ profile[a] = <<>>
  BY DEF Init
<1> QED  BY <1>1, <1>2, NothingExact DEF ExactInv

\* Which evaluations a window is about when one more was made.
LEMMA AboutAppended ==
  ASSUME NEW s \in Seq(Evaluation), NEW x \in Evaluation, NEW a
  PROVE  /\ DOMAIN Append(s, x) = DOMAIN s \cup {Len(s) + 1}
         /\ Own(Append(s, x), a) = IF x.ip = a THEN Own(s, a) \cup {Len(s) + 1} ELSE Own(s, a)
         /\ Matched(Append(s, x), a) =
              IF x.ip = a /\ ~x.high THEN Matched(s, a) \cup {Len(s) + 1} ELSE Matched(s, a)
<1>1. PICK n \in Nat: Len(s) = n /\ DOMAIN s = 1..n /\ DOMAIN Append(s, x) = 1..(n + 1)
        /\ (\A i \in 1..n: Append(s, x)[i] = s[i]) /\ Append(s, x)[n + 1] = x
  BY AppendProperties, LenProperties
<1>2. /\ 1..(n + 1) = 1..n \cup {n + 1}
      /\ \A i \in 1..n: i # n + 1
  BY <1>1
<1>3. DOMAIN Append(s, x) = DOMAIN s \cup {Len(s) + 1}
  BY <1>1, <1>2
<1>4. ASSUME NEW i
      PROVE  /\ i \in Own(Append(s, x), a) <=> i \in Own(s, a) \/ (x.ip = a /\ i = n + 1)
             /\ i \in Matched(Append(s, x), a) <=>
                  i \in Matched(s, a) \/ (x.ip = a /\ ~x.high /\ i = n + 1)
  BY <1>1, <1>2 DEF Own, Matched
<1> QED  BY <1>1, <1>3, <1>4

LEMMA AboutOlder ==
  ASSUME NEW s \in Seq(Evaluation), NEW a
  PROVE  /\ DOMAIN Older(s) = DOMAIN s
         /\ Own(Older(s), a) = Own(s, a) /\ Matched(Older(s), a) = Matched(s, a)
<1>1. /\ \A i \in DOMAIN s: s[i] \in Evaluation
      /\ DOMAIN Older(s) = DOMAIN s
      /\ \A i \in DOMAIN s: Older(s)[i] = [s[i] EXCEPT !.age = Aged(s[i].age)]
  BY ElementOfSeq, LenProperties, OlderProperties, OlderEvents
<1>2. \A i \in DOMAIN s: Older(s)[i].ip = s[i].ip /\ Older(s)[i].high = s[i].high
  <2> SUFFICES ASSUME NEW i \in DOMAIN s
               PROVE  Older(s)[i].ip = s[i].ip /\ Older(s)[i].high = s[i].high
    OBVIOUS
  <2> QED  BY <1>1, Zenon DEF Evaluation
<1> QED  BY <1>1, <1>2 DEF Own, Matched

\* One evaluation: every window it is recorded in stays exact.
LEMMA EvaluateExact ==
  ASSUME ExactInv, NEW m \in Message, Evaluate(m)
  PROVE  /\ Sorted(seen)'
         /\ Exact(global', seen', DOMAIN seen', MaxGlobal) /\ Young(global')
         /\ \A a \in Addresses:
              /\ Exact(profile'[a], seen', Own(seen', a), MaxPerIp)
              /\ Exact(bucket'[a], seen', Matched(seen', a), 0)
              /\ m.ip = a => Young(profile'[a])
              /\ m.ip = a /\ Counts(m) => Young(bucket'[a])
         /\ hand' = m
<1> DEFINE e == [age |-> 0, err |-> IsError(m)]
           x == [id |-> m.id, ip |-> m.ip, high |-> IsHigh(m), err |-> IsError(m), age |-> 0]
<1>1. e \in Event /\ e.age = 0
  BY AnalysisAssumption DEF Event, Ages, IsError
<1>2. x \in Evaluation /\ x.ip = m.ip /\ x.age = 0 /\ e.age = x.age /\ e.err = x.err
  BY AnalysisAssumption DEF Evaluation, Ages, IsError, IsHigh, Message
<1>3. x.high <=> IsHigh(m)
  OBVIOUS
<1>4. /\ bucket' = IF Counts(m) THEN [bucket EXCEPT ![m.ip] = Evict(Append(@, e))] ELSE bucket
      /\ global' = Recorded(global, e, MaxGlobal)
      /\ profile' = IF m.ip = NoAddress THEN profile
                    ELSE [profile EXCEPT ![m.ip] = Recorded(@, e, MaxPerIp)]
      /\ seen' = Append(seen, x) /\ hand' = m
  BY DEF Evaluate
<1>5. /\ seen \in Seq(Evaluation) /\ Sorted(seen)
      /\ bucket \in [Addresses -> Seq(Event)] /\ profile \in [Addresses -> Seq(Event)]
      /\ \A a \in Addresses: Len(profile[a]) <= MaxPerIp
      /\ global \in Seq(Event) /\ Len(global) <= MaxGlobal
      /\ MaxGlobal \in Nat \ {0} /\ MaxPerIp \in Nat \ {0} /\ 0 \in Nat
  BY AnalysisAssumption DEF ExactInv, BurstInv, SeenTyped, TypeOK
<1> HIDE DEF e, x
<1>6. Append(seen, x) \in Seq(Evaluation) /\ Sorted(Append(seen, x))
  BY <1>2, <1>5, AppendProperties, OrderKept
<1>7. /\ Exact(global, seen, DOMAIN seen, MaxGlobal)
      /\ \A a \in Addresses: /\ Exact(profile[a], seen, Own(seen, a), MaxPerIp)
                             /\ Exact(bucket[a], seen, Matched(seen, a), 0)
  BY DEF ExactInv
<1>8. Exact(global', seen', DOMAIN seen', MaxGlobal) /\ Young(global')
  <2>1. DOMAIN seen' = DOMAIN seen \cup {Len(seen) + 1}
    BY <1>2, <1>4, <1>5, AboutAppended
  <2>2. DOMAIN seen \in SUBSET DOMAIN seen
    OBVIOUS
  <2>3. /\ Exact(Recorded(global, e, MaxGlobal), Append(seen, x),
                 DOMAIN seen \cup {Len(seen) + 1}, MaxGlobal)
        /\ Young(Recorded(global, e, MaxGlobal))
    BY <1>1, <1>2, <1>5, <1>7, <2>2, RecordedKeeps
  <2> QED  BY <1>4, <2>1, <2>3
<1>9. ASSUME NEW a \in Addresses
      PROVE  /\ Exact(profile'[a], seen', Own(seen', a), MaxPerIp)
             /\ m.ip = a => Young(profile'[a])
  <2>1. Own(seen, a) \in SUBSET DOMAIN seen /\ profile[a] \in Seq(Event)
    BY <1>5 DEF Own
  <2>2. CASE m.ip = a
    <3>1. profile'[a] = Recorded(profile[a], e, MaxPerIp)
      BY <1>4, <1>5, <2>2, AnalysisAssumption
    <3>2. Own(seen', a) = Own(seen, a) \cup {Len(seen) + 1}
      BY <1>2, <1>4, <1>5, <2>2, AboutAppended
    <3>3. Exact(profile[a], seen, Own(seen, a), MaxPerIp) /\ Len(profile[a]) <= MaxPerIp
      BY <1>5, <1>7
    <3>4. /\ Exact(Recorded(profile[a], e, MaxPerIp), Append(seen, x),
                   Own(seen, a) \cup {Len(seen) + 1}, MaxPerIp)
          /\ Young(Recorded(profile[a], e, MaxPerIp))
      <4>1. seen \in Seq(Evaluation) /\ Sorted(seen) /\ MaxPerIp \in Nat \ {0}
        BY <1>5
      <4>2. x \in Evaluation /\ x.age = 0 /\ e \in Event /\ e.age = 0 /\ e.err = x.err
        BY <1>1, <1>2
      <4> QED  BY <2>1, <3>3, <4>1, <4>2, RecordedKeeps
    <3>5. seen' = Append(seen, x)
      BY <1>4
    <3> QED  BY <3>1, <3>2, <3>4, <3>5
  <2>3. CASE m.ip # a
    <3>1. profile'[a] = profile[a]
      BY <1>4, <1>5, <2>3
    <3>2. Own(seen', a) = Own(seen, a)
      BY <1>2, <1>4, <1>5, <2>3, AboutAppended
    <3>3. MaxPerIp \in Nat
      BY <1>5
    <3> QED  BY <1>2, <1>4, <1>5, <1>7, <2>1, <2>3, <3>1, <3>2, <3>3, AppendKeeps
  <2> QED  BY <2>2, <2>3
<1>10. ASSUME NEW a \in Addresses
       PROVE  /\ Exact(bucket'[a], seen', Matched(seen', a), 0)
              /\ m.ip = a /\ Counts(m) => Young(bucket'[a])
  <2>1. Matched(seen, a) \in SUBSET DOMAIN seen /\ bucket[a] \in Seq(Event)
    BY <1>5 DEF Matched
  <2>2. CASE m.ip = a /\ Counts(m)
    <3>1. bucket'[a] = Evict(Append(bucket[a], e))
      BY <1>4, <1>5, <2>2
    <3>2. Matched(seen', a) = Matched(seen, a) \cup {Len(seen) + 1}
      BY <1>2, <1>3, <1>4, <1>5, <2>2, AboutAppended DEF Counts
    <3>3. Exact(Append(bucket[a], e), Append(seen, x), Matched(seen, a) \cup {Len(seen) + 1}, 0)
      BY <1>1, <1>2, <1>5, <1>7, <2>1, AppendKeeps
    <3>4. /\ Append(bucket[a], e) \in Seq(Event)
          /\ Matched(seen, a) \cup {Len(seen) + 1} \in SUBSET DOMAIN Append(seen, x)
      <4>1. DOMAIN Append(seen, x) = DOMAIN seen \cup {Len(seen) + 1}
        BY <1>2, <1>5, AboutAppended
      <4> QED  BY <1>1, <2>1, <4>1, AppendProperties
    <3> QED  BY <1>4, <1>6, <3>1, <3>2, <3>3, <3>4, EvictKeeps
  <2>3. CASE ~(m.ip = a /\ Counts(m))
    <3>1. bucket'[a] = bucket[a]
      BY <1>4, <1>5, <2>3
    <3>2. Matched(seen', a) = Matched(seen, a)
      <4>1. ~(x.ip = a /\ ~x.high)
        BY <1>2, <1>3, <2>3, AnalysisAssumption DEF Counts
      <4> QED  BY <1>2, <1>4, <1>5, <4>1, AboutAppended
    <3> QED  BY <1>2, <1>4, <1>5, <1>7, <2>1, <2>3, <3>1, <3>2, AppendKeeps
  <2> QED  BY <2>2, <2>3
<1> QED  BY <1>4, <1>6, <1>8, <1>9, <1>10

LEMMA ExactStep == ExactInv /\ VerdictInv /\ [Next]_vars => ExactInv'
<1> SUFFICES ASSUME ExactInv, VerdictInv, [Next]_vars  PROVE ExactInv'
  OBVIOUS
<1>1. BurstInv' /\ TypeOK /\ seen \in Seq(Evaluation)
  BY BurstStep DEF ExactInv, BurstInv, SeenTyped
<1>2. /\ UNCHANGED <<bucket, profile, global, seen>>
      /\ pc' # "score" \/ (UNCHANGED hand /\ pc = "score")
      => ExactInv'
  BY <1>1 DEF ExactInv, Own, Matched
<1>3. CASE Tick
  <2>1. /\ bucket' = [a \in Addresses |-> Older(bucket[a])]
        /\ profile' = [a \in Addresses |-> Older(profile[a])]
        /\ global' = Older(global) /\ seen' = Older(seen) /\ pc' = "idle"
    BY <1>3 DEF Tick, work
  <2>2. Sorted(seen')
    BY <1>1, <2>1, OrderKept DEF ExactInv
  <2>3. Exact(global', seen', DOMAIN seen', MaxGlobal)
    <3>1. DOMAIN seen' = DOMAIN seen /\ DOMAIN seen \in SUBSET DOMAIN seen
      BY <1>1, <2>1, AboutOlder
    <3>2. global \in Seq(Event) /\ Exact(global, seen, DOMAIN seen, MaxGlobal)
      BY <1>1 DEF ExactInv, TypeOK
    <3> QED  BY <1>1, <2>1, <3>1, <3>2, OlderKeeps
  <2>4. ASSUME NEW a \in Addresses
        PROVE  /\ Exact(profile'[a], seen', Own(seen', a), MaxPerIp)
               /\ Exact(bucket'[a], seen', Matched(seen', a), 0)
    <3>1. /\ Own(seen', a) = Own(seen, a) /\ Matched(seen', a) = Matched(seen, a)
          /\ Own(seen, a) \in SUBSET DOMAIN seen /\ Matched(seen, a) \in SUBSET DOMAIN seen
      <4>1. /\ Own(Older(seen), a) = Own(seen, a)
            /\ Matched(Older(seen), a) = Matched(seen, a)
        BY <1>1, AboutOlder
      <4>2. Own(seen, a) \in SUBSET DOMAIN seen /\ Matched(seen, a) \in SUBSET DOMAIN seen
        BY DEF Own, Matched
      <4> QED  BY <2>1, <4>1, <4>2
    <3>2. profile[a] \in Seq(Event) /\ bucket[a] \in Seq(Event)
      BY <1>1 DEF TypeOK
    <3>3. /\ Exact(profile[a], seen, Own(seen, a), MaxPerIp)
          /\ Exact(bucket[a], seen, Matched(seen, a), 0)
      BY DEF ExactInv
    <3>4. profile'[a] = Older(profile[a]) /\ bucket'[a] = Older(bucket[a])
      BY <2>1
    <3> QED  BY <1>1, <2>1, <3>1, <3>2, <3>3, <3>4, OlderKeeps
  <2> QED  BY <1>1, <2>1, <2>2, <2>3, <2>4 DEF ExactInv
<1>4. ASSUME NEW m \in Message, Evaluate(m)  PROVE ExactInv'
  <2>1. m.ip \in Addresses \cup {NoAddress} /\ (Counts(m) => m.ip # NoAddress)
    BY DEF Message, Counts
  <2>2. /\ Sorted(seen)'
        /\ Exact(global', seen', DOMAIN seen', MaxGlobal) /\ Young(global')
        /\ \A a \in Addresses:
             /\ Exact(profile'[a], seen', Own(seen', a), MaxPerIp)
             /\ Exact(bucket'[a], seen', Matched(seen', a), 0)
             /\ m.ip = a => Young(profile'[a])
             /\ m.ip = a /\ Counts(m) => Young(bucket'[a])
        /\ hand' = m
    BY <1>4, EvaluateExact
  <2> QED  BY <1>1, <2>1, <2>2 DEF ExactInv
<1>5. CASE TakeNew
  <2>1. made' \in 1..MaxLogs
    BY <1>1, <1>5, AnalysisAssumption DEF TakeNew, TypeOK
  <2>2. PICK a \in Addresses \cup {NoAddress}, k \in Kinds:
          Evaluate([id |-> made', ip |-> a, kind |-> k, alerted |-> FALSE])
    BY <1>5 DEF TakeNew
  <2>3. [id |-> made', ip |-> a, kind |-> k, alerted |-> FALSE] \in Message
    BY <2>1 DEF Message
  <2> QED  BY <1>4, <2>2, <2>3
<1>6. CASE TakeAgain
  <2>1. Evaluate(Head(retry)) /\ Head(retry) \in Message
    BY <1>1, <1>6, HeadTailProperties DEF TakeAgain, TypeOK
  <2> QED  BY <1>4, <2>1
<1>7. CASE Skip \/ Decide \/ Commit \/ Fails \/ Ack \/ UNCHANGED vars
  <2>1. CASE Skip
    <3>1. pc' # "score" /\ UNCHANGED <<bucket, profile, global, seen>>
      BY <2>1 DEF Skip, windows, work
    <3> QED  BY <1>2, <3>1
  <2>2. CASE Decide \/ Commit \/ Fails \/ Ack
    <3>1. pc' # "score" /\ UNCHANGED <<bucket, profile, global, seen>>
      BY <2>2 DEF Decide, Commit, Fails, Ack, Idle, windows
    <3> QED  BY <1>2, <3>1
  <2>3. CASE UNCHANGED vars
    <3>1. UNCHANGED <<bucket, profile, global, seen, pc, hand>>
      BY <2>3 DEF vars, windows, work
    <3>2. pc # "score" \/ pc = "score"
      OBVIOUS
    <3> QED  BY <1>2, <3>1, <3>2
  <2> QED  BY <1>7, <2>1, <2>2, <2>3
<1>8. CASE Restart
  <2>1. /\ seen' = <<>> /\ global' = <<>> /\ pc' = "idle"
        /\ \A a \in Addresses: bucket'[a] = <<>> /\ profile'[a] = <<>>
    BY <1>8 DEF Restart, Idle
  <2> QED  BY <1>1, <2>1, NothingExact DEF ExactInv
<1> QED  BY <1>3, <1>5, <1>6, <1>7, <1>8 DEF Next

LEMMA ExactImplied == ExactInv => WindowsExact
<1> SUFFICES ASSUME ExactInv, pc = "score"  PROVE WindowsExact
  BY DEF WindowsExact
<1> DEFINE recent == {i \in DOMAIN seen: InWindow(seen[i])}
           own    == {i \in recent: seen[i].ip = hand.ip}
<1>1. /\ seen \in Seq(Evaluation) /\ Sorted(seen) /\ hand \in Message
      /\ bucket \in [Addresses -> Seq(Event)] /\ profile \in [Addresses -> Seq(Event)]
      /\ \A a \in Addresses: Len(profile[a]) <= MaxPerIp
      /\ global \in Seq(Event) /\ Len(global) <= MaxGlobal
      /\ MaxGlobal \in Nat /\ MaxGlobal # 0 /\ MaxPerIp \in Nat /\ MaxPerIp # 0 /\ 0 \in Nat
  BY AnalysisAssumption DEF ExactInv, BurstInv, SeenTyped, TypeOK
<1>2. hand.ip # NoAddress => hand.ip \in Addresses
  BY <1>1 DEF Message
<1>3. Recounts(global, Latest(recent, MaxGlobal))
  <2>1. DOMAIN seen \in SUBSET DOMAIN seen /\ (MaxGlobal = 0 \/ Len(global) <= MaxGlobal)
    BY <1>1
  <2>2. Exact(global, seen, DOMAIN seen, MaxGlobal) /\ Young(global)
    BY DEF ExactInv
  <2>3. /\ Len(global) = Cardinality(Recount(seen, DOMAIN seen, MaxGlobal))
        /\ Errors(global) = Cardinality(Erring(seen, Recount(seen, DOMAIN seen, MaxGlobal)))
    BY <1>1, <2>1, <2>2, Recounted
  <2>4. Recount(seen, DOMAIN seen, MaxGlobal) = Latest(recent, MaxGlobal)
    <3>1. recent = Fresh(seen, DOMAIN seen)
      BY DEF Fresh, InWindow
    <3> QED  BY <1>1, <3>1 DEF Recount
  <2> QED  BY <2>3, <2>4 DEF Recounts, Erring
<1>4. ASSUME hand.ip # NoAddress
      PROVE  Recounts(profile[hand.ip], Latest(own, MaxPerIp))
  <2> DEFINE q == profile[hand.ip]
             M == Own(seen, hand.ip)
  <2>1. M \in SUBSET DOMAIN seen
    BY DEF Own
  <2>2. /\ q \in Seq(Event) /\ (MaxPerIp = 0 \/ Len(q) <= MaxPerIp)
        /\ Exact(q, seen, M, MaxPerIp) /\ Young(q)
    BY <1>1, <1>2, <1>4 DEF ExactInv
  <2>3. Recount(seen, M, MaxPerIp) = Latest(own, MaxPerIp)
    <3>1. own = Fresh(seen, M)
      BY DEF Fresh, InWindow, Own
    <3> QED  BY <1>1, <3>1 DEF Recount
  <2> HIDE DEF q, M
  <2>4. /\ Len(q) = Cardinality(Recount(seen, M, MaxPerIp))
        /\ Errors(q) = Cardinality(Erring(seen, Recount(seen, M, MaxPerIp)))
    BY <1>1, <2>1, <2>2, Recounted
  <2> QED  BY <2>3, <2>4 DEF Recounts, Erring, q
<1>5. ASSUME Counts(hand)
      PROVE  Recounts(bucket[hand.ip], {i \in own: ~seen[i].high})
  <2> DEFINE q == bucket[hand.ip]
             M == Matched(seen, hand.ip)
  <2>1. M \in SUBSET DOMAIN seen
    BY DEF Matched
  <2>2. q \in Seq(Event) /\ Exact(q, seen, M, 0) /\ Young(q)
    <3>1. hand.ip \in Addresses
      BY <1>2, <1>5 DEF Counts
    <3> QED  BY <1>1, <1>5, <3>1 DEF ExactInv
  <2>3. Recount(seen, M, 0) = {i \in own: ~seen[i].high}
    BY DEF Recount, Fresh, InWindow, Matched
  <2> HIDE DEF q, M
  <2>4. /\ Len(q) = Cardinality(Recount(seen, M, 0))
        /\ Errors(q) = Cardinality(Erring(seen, Recount(seen, M, 0)))
    BY <1>1, <2>1, <2>2, Recounted
  <2> QED  BY <2>3, <2>4 DEF Recounts, Erring, q
<1> QED  BY <1>3, <1>4, <1>5 DEF WindowsExact

\* For any window and bounds: every log is judged by windows that hold exactly what a
\* recount of this process's evaluations gives (record of _IpTracker and ProfileStore).
THEOREM WindowsAreExact == Spec => []WindowsExact
<1> QED  BY VerdictInit, VerdictStep, ExactInit, ExactStep, ExactImplied, PTL DEF Spec
=============================================================================
