-------------------------- MODULE RetrainingProofs --------------------------
(***************************************************************************)
(* Machine-checked proofs about Retraining.                                *)
(***************************************************************************)
EXTENDS Retraining, SequenceTheorems, FiniteSetTheorems, TLAPS

\* The size of the ring never runs ahead of the vectors stored since the
\* accepted model: what should_retrain measures is at most what was stored.
Measured == newSamples < Interval => Len(buffer) <= samplesAtLast + newSamples

EarnedInv == TypeOK /\ Measured

\* A stored vector makes the ring at most one longer, and never too long.
LEMMA StoredProperties ==
  ASSUME TypeOK, NEW ip \in Sources
  PROVE  /\ Stored(ip) \in Seq(Sources)
         /\ Len(Stored(ip)) <= BufferMax /\ Len(Stored(ip)) <= Len(buffer) + 1
<1>1. buffer \in Seq(Sources) /\ Len(buffer) \in Nat /\ Len(buffer) <= BufferMax
  BY LenProperties DEF TypeOK
<1>2. CASE Len(buffer) < BufferMax
  <2>1. /\ Append(buffer, ip) \in Seq(Sources)
        /\ Len(Append(buffer, ip)) = Len(buffer) + 1
    BY <1>1, AppendProperties
  <2> QED  BY <1>1, <1>2, <2>1, BufferAssumption DEF Stored
<1>3. CASE Len(buffer) >= BufferMax
  <2>1. buffer # <<>>
    BY <1>1, <1>3, EmptySeq, BufferAssumption
  <2>2. Tail(buffer) \in Seq(Sources) /\ Len(Tail(buffer)) = Len(buffer) - 1
    BY <1>1, <2>1, HeadTailProperties
  <2>3. /\ Append(Tail(buffer), ip) \in Seq(Sources)
        /\ Len(Append(Tail(buffer), ip)) = Len(buffer)
    BY <1>1, <2>2, AppendProperties
  <2> QED  BY <1>1, <1>3, <2>3, BufferAssumption DEF Stored
<1> QED  BY <1>1, <1>2, <1>3, BufferAssumption

LEMMA EarnedInit == Init => EarnedInv
<1>1. <<>> \in Seq(Sources) /\ Len(<<>>) = 0
  BY EmptySeq
<1>2. ASSUME Init
      PROVE  up \in BOOLEAN /\ trained \in BOOLEAN /\ cooling \in BOOLEAN
  BY <1>2, Zenon DEF Init
<1>3. ASSUME Init
      PROVE  /\ lastScore \in 0..Pairs /\ samplesAtLast \in 0..BufferMax
             /\ newSamples \in 0..Interval
             /\ restarts \in 0..MaxRestarts /\ faults \in 0..MaxFaults
             /\ buffer \in Seq(Sources) /\ Len(buffer) <= BufferMax
             /\ Len(buffer) <= samplesAtLast + newSamples
  BY <1>1, <1>3, BufferAssumption, ScoreAssumption, BudgetAssumption DEF Init
<1> QED
  BY <1>2, <1>3 DEF Init, EarnedInv, TypeOK, Measured, Tasks, Models

LEMMA EarnedStep == EarnedInv /\ [Next]_vars => EarnedInv'
<1> SUFFICES ASSUME EarnedInv, [Next]_vars  PROVE EarnedInv'
  OBVIOUS
<1> USE BufferAssumption, ScoreAssumption, BudgetAssumption
    DEF EarnedInv, TypeOK, Measured, Tasks, Models, engine, store, budget, EndTask
<1>0. Len(buffer) \in Nat
  BY LenProperties
<1>1. ASSUME NEW ip \in Sources, NEW safe \in BOOLEAN, Process(ip, safe)  PROVE EarnedInv'
  <2>1. CASE safe /\ ~QuotaFull(ip)
    <3>1. buffer' = Stored(ip)
      BY <1>1, <2>1 DEF Process
    <3>2. /\ buffer' \in Seq(Sources) /\ Len(buffer') \in Nat
          /\ Len(buffer') <= BufferMax /\ Len(buffer') <= Len(buffer) + 1
      BY <3>1, StoredProperties, LenProperties
    <3> QED  BY <1>0, <1>1, <2>1, <3>2 DEF Process
  <2>2. CASE ~(safe /\ ~QuotaFull(ip))
    BY <1>0, <1>1, <2>2 DEF Process
  <2> QED  BY <2>1, <2>2
<1>2. CASE FitFails
  BY <1>0, <1>2 DEF FitFails
<1>3. ASSUME NEW score \in Scores, Reject(score)  PROVE EarnedInv'
  BY <1>0, <1>3 DEF Reject
<1>4. ASSUME NEW score \in Scores, Accept(score)  PROVE EarnedInv'
  BY <1>0, <1>4 DEF Accept
<1>5. CASE Persist
  BY <1>0, <1>5 DEF Persist
<1>6. CASE PersistFails
  BY <1>0, <1>6 DEF PersistFails
<1>7. CASE Start
  BY <1>0, <1>7 DEF Start, Readable
<1>8. CASE Stop
  <2>1. <<>> \in Seq(Sources) /\ Len(<<>>) = 0
    BY EmptySeq
  <2>2. up' \in BOOLEAN /\ trained' \in BOOLEAN /\ cooling' \in BOOLEAN
    BY <1>8, Zenon DEF Stop
  <2>3. /\ lastScore' \in 0..Pairs /\ samplesAtLast' \in 0..BufferMax
        /\ newSamples' \in 0..Interval
        /\ restarts' \in 0..MaxRestarts /\ faults' \in 0..MaxFaults
        /\ buffer' \in Seq(Sources) /\ Len(buffer') <= BufferMax
        /\ Len(buffer') <= samplesAtLast' + newSamples'
    BY <1>8, <2>1 DEF Stop
  <2> QED  BY <1>8, <2>2, <2>3 DEF Stop
<1>9. CASE CoolDown
  BY <1>0, <1>9 DEF CoolDown
<1>10. CASE UNCHANGED vars
  BY <1>0, <1>10 DEF vars
<1> QED
  BY <1>1, <1>2, <1>3, <1>4, <1>5, <1>6, <1>7, <1>8, <1>9, <1>10 DEF Next, Messages, Task

\* For every ring size, interval and quota: a retrain starts only when Interval
\* vectors were stored since the accepted model.
THEOREM RetrainsAreEarned == Spec => RetrainEarned
<1>1. EarnedInv /\ [Next]_vars => [task = "none" /\ task' = "fit" => newSamples' >= Interval]_vars
  <2> SUFFICES ASSUME EarnedInv, EarnedInv', Next, task = "none", task' = "fit"
               PROVE  newSamples' >= Interval
    BY EarnedStep
  <2>1. PICK ip \in Sources, safe \in BOOLEAN: Process(ip, safe)
    BY DEF Next, Messages, Task, FitFails, Reject, Accept, Persist, PersistFails, EndTask,
           Start, Stop, CoolDown
  <2>2. Len(buffer') >= samplesAtLast + Interval /\ samplesAtLast' = samplesAtLast
    BY <2>1 DEF Process, ShouldRetrain, engine
  <2>3. Len(buffer') \in Nat
    BY LenProperties DEF EarnedInv, TypeOK
  <2> QED  BY <2>2, <2>3, BufferAssumption DEF EarnedInv, Measured, TypeOK
<1> QED  BY <1>1, EarnedInit, EarnedStep, PTL DEF Spec, RetrainEarned

\* For every holdout and every set of scores: the model in use never gets worse
\* while the process lives.
THEOREM ModelsNeverGetWorse == Spec => NeverWorse
<1>1. EarnedInv /\ [Next]_vars => [trained /\ trained' => lastScore' >= lastScore]_vars
  <2> SUFFICES ASSUME EarnedInv, Next, trained, trained'
               PROVE  lastScore' >= lastScore
    OBVIOUS
  <2>1. lastScore \in Nat
    BY ScoreAssumption DEF EarnedInv, TypeOK
  <2>2. ASSUME NEW score \in Scores, Accept(score)  PROVE lastScore' >= lastScore
    BY <2>1, <2>2, ScoreAssumption DEF Accept, Regresses
  <2>3. CASE lastScore' = lastScore
    BY <2>1, <2>3
  <2>4. (\E score \in Scores: Accept(score)) \/ lastScore' = lastScore
    BY DEF Next, Messages, Process, Task, FitFails, Reject, Persist, PersistFails,
           Start, Readable, Stop, CoolDown, engine
  <2> QED  BY <2>2, <2>3, <2>4
<1> QED  BY <1>1, EarnedInit, EarnedStep, PTL DEF Spec, NeverWorse

----------------------------------------------------------------------------
(* The quota of an address                                                 *)

Positions(s, ip) == {i \in DOMAIN s: s[i] = ip}

LEMMA PositionsFinite ==
  ASSUME NEW s \in Seq(Sources), NEW ip
  PROVE  IsFiniteSet(Positions(s, ip)) /\ Cardinality(Positions(s, ip)) \in Nat
<1>1. Len(s) \in Nat /\ DOMAIN s = 1..Len(s)
  BY LenProperties
<1>2. IsFiniteSet(1..Len(s))
  BY <1>1, FS_Interval
<1>3. Positions(s, ip) \in SUBSET (1..Len(s))
  BY <1>1 DEF Positions
<1>4. IsFiniteSet(Positions(s, ip))
  BY <1>2, <1>3, FS_Subset
<1> QED  BY <1>4, FS_CardinalityType

\* A new vector counts for its own address only.
LEMMA AppendCounts ==
  ASSUME NEW s \in Seq(Sources), NEW x \in Sources, NEW ip
  PROVE  Cardinality(Positions(Append(s, x), ip))
           = Cardinality(Positions(s, ip)) + (IF x = ip THEN 1 ELSE 0)
<1>1. /\ Len(s) \in Nat /\ DOMAIN s = 1..Len(s)
      /\ DOMAIN Append(s, x) = 1..(Len(s) + 1)
      /\ \A i \in 1..Len(s): Append(s, x)[i] = s[i]
      /\ Append(s, x)[Len(s) + 1] = x
  BY LenProperties, AppendProperties
<1>2. Len(s) + 1 \notin Positions(s, ip)
  BY <1>1 DEF Positions
<1>3. CASE x = ip
  <2>1. Positions(Append(s, x), ip) = Positions(s, ip) \cup {Len(s) + 1}
    BY <1>1, <1>3 DEF Positions
  <2> QED  BY <1>2, <1>3, <2>1, PositionsFinite, FS_AddElement
<1>4. CASE x # ip
  <2>1. Positions(Append(s, x), ip) = Positions(s, ip)
    BY <1>1, <1>4 DEF Positions
  <2> QED  BY <1>4, <2>1, PositionsFinite
<1> QED  BY <1>3, <1>4

\* The ring's eviction raises nobody's count.
LEMMA TailCounts ==
  ASSUME NEW s \in Seq(Sources), s # <<>>, NEW ip
  PROVE  Cardinality(Positions(Tail(s), ip)) <= Cardinality(Positions(s, ip))
<1> DEFINE shift == [i \in Positions(Tail(s), ip) |-> i + 1]
<1>1. /\ Len(s) \in Nat /\ DOMAIN s = 1..Len(s)
      /\ Tail(s) \in Seq(Sources) /\ Len(Tail(s)) = Len(s) - 1
      /\ \A i \in 1..Len(Tail(s)): Tail(s)[i] = s[i + 1]
  BY LenProperties, HeadTailProperties
<1>2. DOMAIN Tail(s) = 1..(Len(s) - 1)
  BY <1>1, LenProperties
<1>3. \A i \in Positions(Tail(s), ip): i \in Nat /\ i + 1 \in Positions(s, ip)
  BY <1>1, <1>2 DEF Positions
<1>4. shift \in [Positions(Tail(s), ip) -> Positions(s, ip)]
  BY <1>3
<1>5. \A i, j \in Positions(Tail(s), ip): shift[i] = shift[j] => i = j
  BY <1>3
<1>6. shift \in Injection(Positions(Tail(s), ip), Positions(s, ip))
  BY <1>4, <1>5 DEF Injection, IsInjective
<1> QED  BY <1>6, PositionsFinite, FS_Injection

\* What the ring does to the count of an address when a vector is stored.
LEMMA StoredCounts ==
  ASSUME TypeOK, NEW x \in Sources, NEW ip
  PROVE  /\ x = ip => Cardinality(Positions(Stored(x), ip)) <= Count(ip) + 1
         /\ x # ip => Cardinality(Positions(Stored(x), ip)) <= Count(ip)
<1>1. /\ buffer \in Seq(Sources) /\ Len(buffer) \in Nat
      /\ Count(ip) = Cardinality(Positions(buffer, ip)) /\ Count(ip) \in Nat
  BY LenProperties, PositionsFinite DEF TypeOK, Count, Positions
<1>2. CASE Len(buffer) < BufferMax
  BY <1>1, <1>2, AppendCounts DEF Stored
<1>3. CASE Len(buffer) >= BufferMax
  <2>1. buffer # <<>>
    BY <1>1, <1>3, EmptySeq, BufferAssumption
  <2>2. Tail(buffer) \in Seq(Sources)
    BY <1>1, <2>1, HeadTailProperties
  <2>3. Cardinality(Positions(Tail(buffer), ip)) \in Nat
    BY <2>2, PositionsFinite
  <2>4. Stored(x) = Append(Tail(buffer), x)
    BY <1>1, <1>3, BufferAssumption DEF Stored
  <2>5. Cardinality(Positions(Append(Tail(buffer), x), ip))
          = Cardinality(Positions(Tail(buffer), ip)) + (IF x = ip THEN 1 ELSE 0)
    BY <2>2, AppendCounts
  <2>6. Cardinality(Positions(Tail(buffer), ip)) <= Count(ip)
    BY <1>1, <2>1, TailCounts
  <2> QED  BY <1>1, <2>3, <2>4, <2>5, <2>6
<1> QED  BY <1>1, <1>2, <1>3, BufferAssumption

\* The types hold in every reachable state, for every value of the constants: in
\* particular the ring is never longer than BASELINE_BUFFER_MAX.
THEOREM RetrainingTypes == Spec => []TypeOK
<1>1. EarnedInv => TypeOK
  BY DEF EarnedInv
<1> QED  BY <1>1, EarnedInit, EarnedStep, PTL DEF Spec

\* For every ring size and quota, even a quota of none: no address holds more of
\* the baseline than its quota, whatever the ring evicts.
THEOREM QuotaIsHeld == Spec => []QuotaHeld
<1>1. Init => QuotaHeld
  <2> SUFFICES ASSUME Init, NEW ip \in Ips  PROVE Count(ip) <= PerIp
    BY DEF QuotaHeld
  <2>1. {i \in DOMAIN buffer: buffer[i] = ip} = {}
    BY EmptySeq DEF Init
  <2> QED  BY <2>1, FS_EmptySet, BufferAssumption DEF Count
<1>2. EarnedInv /\ QuotaHeld /\ [Next]_vars => QuotaHeld'
  <2> SUFFICES ASSUME EarnedInv, QuotaHeld, [Next]_vars, NEW ip \in Ips
               PROVE  Count(ip)' <= PerIp
    BY DEF QuotaHeld
  <2>1. TypeOK /\ Count(ip) <= PerIp /\ Count(ip) \in Nat
    BY PositionsFinite DEF EarnedInv, QuotaHeld, TypeOK, Count, Positions
  <2>2. CASE buffer' = buffer
    BY <2>1, <2>2 DEF Count
  <2>3. CASE buffer' = <<>>
    <3>1. {i \in DOMAIN buffer': buffer'[i] = ip} = {}
      BY <2>3, EmptySeq
    <3> QED  BY <3>1, FS_EmptySet, BufferAssumption DEF Count
  <2>4. ASSUME NEW x \in Sources, ~QuotaFull(x), buffer' = Stored(x)
        PROVE  Count(ip)' <= PerIp
    <3>1. Count(ip)' = Cardinality(Positions(Stored(x), ip))
      BY <2>4 DEF Count, Positions
    <3>2. Stored(x) \in Seq(Sources) /\ Cardinality(Positions(Stored(x), ip)) \in Nat
      BY <2>1, StoredProperties, PositionsFinite
    <3>3. x = ip => Count(ip) + 1 <= PerIp
      BY <2>1, <2>4, NoIpAssumption, BufferAssumption DEF QuotaFull
    <3> QED  BY <2>1, <3>1, <3>2, <3>3, StoredCounts, BufferAssumption
  <2>5. \/ buffer' = buffer \/ buffer' = <<>>
        \/ \E x \in Sources: ~QuotaFull(x) /\ buffer' = Stored(x)
    BY DEF Next, Messages, Process, Task, FitFails, Reject, Accept, Persist, PersistFails,
           Start, Stop, CoolDown, vars
  <2> QED  BY <2>2, <2>3, <2>4, <2>5
<1> QED  BY <1>1, <1>2, EarnedInit, EarnedStep, PTL DEF Spec
=============================================================================
