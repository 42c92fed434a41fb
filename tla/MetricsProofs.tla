---------------------------- MODULE MetricsProofs ----------------------------
(***************************************************************************)
(* Machine-checked proofs about Metrics.                                   *)
(***************************************************************************)
EXTENDS Metrics, SequenceTheorems, TLAPS

----------------------------------------------------------------------------
(* The invariant                                                           *)

\* An alert that was created is counted once, if at all.
CountedOnce == counter <= made /\ (pending => counter < made)

\* The lock is held by whoever scans or reads the counters.
Held == \A c \in Callers: pc[c] \in {"scan", "counters"} => queue # <<>> /\ c = Head(queue)

\* Counts taken n ago are right about every alert that has not changed since.
Since(seen, n) == \A a \in Alerts: age[a] > n => (a \in seen <=> a \in alerts)

\* What is cached, and what is about to be.
Current ==
  /\ cache # NoAnswer => Since(cache.seen, stamp)
  /\ \A c \in Callers: pc[c] = "counters" =>
       Since(scanned, now) /\ scanned \cap known[c] = alerts \cap known[c]
  /\ \A c \in Callers: \A a \in known[c]: age[a] = TTL

MetricsInv == TypeOK /\ CountedOnce /\ Held /\ Current

----------------------------------------------------------------------------
(* The queue of the lock                                                   *)

\* r is q without c, and its head stays unless it is c that goes.
Drops(q, c, r) ==
  /\ r \in Seq(Callers) /\ IsInjective(r)
  /\ ToSet(r) = ToSet(q) \ {c}
  /\ Head(q) # c => r # <<>> /\ Head(r) = Head(q)

LEMMA EmptyQueue == <<>> \in Seq(Callers) /\ IsInjective(<<>>) /\ ToSet(<<>>) = {}
  BY EmptySeq DEF IsInjective, ToSet

\* An injective sequence with one entry left out, in terms of positions.
LEMMA Positions ==
  ASSUME NEW q \in Seq(Callers), IsInjective(q), NEW n \in Nat, Len(q) = n,
         NEW k \in Nat, k \in 1..n,
         NEW r \in Seq(Callers), Len(r) = n - 1,
         \A i \in 1..(n - 1): r[i] = IF i < k THEN q[i] ELSE q[i + 1]
  PROVE  Drops(q, q[k], r)
<1>1. DOMAIN q = 1..n /\ DOMAIN r = 1..(n - 1)
  BY LenProperties
<1>2. \A i, j \in 1..n: q[i] = q[j] => i = j
  BY <1>1 DEF IsInjective
<1>3. IsInjective(r)
  <2> SUFFICES ASSUME NEW i \in 1..(n - 1), NEW j \in 1..(n - 1), r[i] = r[j]
               PROVE  i = j
    BY <1>1 DEF IsInjective
  <2>1. /\ i \in 1..n /\ i + 1 \in 1..n /\ j \in 1..n /\ j + 1 \in 1..n
        /\ i \in Int /\ j \in Int /\ k \in Int
    OBVIOUS
  <2>2. (i < k /\ j < k) \/ (i < k /\ ~(j < k)) \/ (~(i < k) /\ j < k) \/ (~(i < k) /\ ~(j < k))
    OBVIOUS
  <2> QED  BY <1>2, <2>1, <2>2
<1>4. ToSet(r) = ToSet(q) \ {q[k]}
  <2>1. ASSUME NEW i \in 1..(n - 1)
        PROVE  \E j \in 1..n: r[i] = q[j] /\ j # k
    <3>1. CASE i < k
      <4>1. i \in 1..n /\ i # k /\ r[i] = q[i]
        BY <3>1
      <4> QED  BY <4>1
    <3>2. CASE ~(i < k)
      <4>1. i + 1 \in 1..n /\ i + 1 # k /\ r[i] = q[i + 1]
        BY <3>2
      <4> QED  BY <4>1
    <3> QED  BY <3>1, <3>2
  <2>2. ASSUME NEW j \in 1..n, j # k
        PROVE  \E i \in 1..(n - 1): r[i] = q[j]
    <3>1. CASE j < k
      <4>1. j \in 1..(n - 1) /\ r[j] = q[j]
        BY <3>1
      <4> QED  BY <4>1
    <3>2. CASE ~(j < k)
      <4>1. j - 1 \in 1..(n - 1) /\ ~(j - 1 < k) /\ (j - 1) + 1 = j
        BY <2>2, <3>2
      <4>2. r[j - 1] = q[j]
        BY <4>1
      <4> QED  BY <4>1, <4>2
    <3> QED  BY <3>1, <3>2
  <2>3. \A j \in 1..n: j # k => q[j] # q[k]
    BY <1>2
  <2>4. ToSet(r) = {r[i]: i \in 1..(n - 1)} /\ ToSet(q) = {q[i]: i \in 1..n}
    BY <1>1 DEF ToSet
  <2>5. ASSUME NEW x \in ToSet(r)  PROVE x \in ToSet(q) \ {q[k]}
    <3>1. PICK i \in 1..(n - 1): x = r[i]
      BY <2>4
    <3>2. PICK j \in 1..n: x = q[j] /\ j # k
      BY <2>1, <3>1
    <3> QED  BY <2>3, <2>4, <3>2
  <2>6. ASSUME NEW x \in ToSet(q), x # q[k]  PROVE x \in ToSet(r)
    <3>1. PICK j \in 1..n: x = q[j] /\ j # k
      BY <2>4, <2>6
    <3>2. PICK i \in 1..(n - 1): x = r[i]
      BY <2>2, <3>1
    <3> QED  BY <2>4, <3>2
  <2> QED  BY <2>5, <2>6
<1>5. ASSUME Head(q) # q[k]  PROVE r # <<>> /\ Head(r) = Head(q)
  <2>1. Head(q) = q[1]
    BY <1>1
  <2>2. k # 1 /\ 1 < k /\ 1 \in 1..(n - 1)
    BY <1>5, <2>1
  <2>3. r[1] = q[1] /\ r # <<>>
    BY <1>1, <2>2, EmptySeq
  <2>4. Head(r) = r[1]
    BY <2>3
  <2> QED  BY <2>1, <2>3, <2>4
<1> QED  BY <1>3, <1>4, <1>5 DEF Drops

LEMMA TailDrops ==
  ASSUME NEW q \in Seq(Callers), IsInjective(q), q # <<>>
  PROVE  Drops(q, Head(q), Tail(q))
<1>1. PICK n \in Nat: Len(q) = n /\ n # 0 /\ DOMAIN q = 1..n
  BY EmptySeq, LenProperties
<1>2. /\ Tail(q) \in Seq(Callers) /\ Len(Tail(q)) = n - 1
      /\ \A i \in 1..(n - 1): Tail(q)[i] = q[i + 1]
  BY <1>1, HeadTailProperties
<1>3. \A i \in 1..(n - 1): Tail(q)[i] = IF i < 1 THEN q[i] ELSE q[i + 1]
  BY <1>2
<1>4. Head(q) = q[1] /\ 1 \in 1..n /\ 1 \in Nat
  BY <1>1
<1>5. Drops(q, q[1], Tail(q))
  BY <1>1, <1>2, <1>3, <1>4, Positions
<1> QED  BY <1>4, <1>5

LEMMA RemoveDrops ==
  ASSUME NEW q \in Seq(Callers), IsInjective(q), NEW k \in DOMAIN q
  PROVE  Drops(q, q[k], RemoveAt(q, k))
<1>1. PICK n \in Nat: Len(q) = n /\ DOMAIN q = 1..n
  BY LenProperties
<1>2. k \in 1..n /\ k \in Nat /\ k \in Int /\ k - 1 \in Nat /\ n - k \in Nat
  BY <1>1
<1>3. \A i \in 1..n: q[i] \in Callers
  BY <1>1, ElementOfSeq
<1>4. PICK s \in Seq(Callers): /\ s = SubSeq(q, 1, k - 1) /\ Len(s) = k - 1
                               /\ \A i \in 1..(k - 1): s[i] = q[i]
  <2>1. 1 \in Int /\ k - 1 \in Int /\ \A i \in 1..(k - 1): q[i] \in Callers
    BY <1>2, <1>3
  <2>2. /\ SubSeq(q, 1, k - 1) \in Seq(Callers)
        /\ Len(SubSeq(q, 1, k - 1)) = IF 1 <= k - 1 THEN (k - 1) - 1 + 1 ELSE 0
        /\ \A i \in 1..((k - 1) - 1 + 1): SubSeq(q, 1, k - 1)[i] = q[1 + i - 1]
    BY <2>1, SubSeqProperties
  <2>3. (IF 1 <= k - 1 THEN (k - 1) - 1 + 1 ELSE 0) = k - 1 /\ (k - 1) - 1 + 1 = k - 1
    BY <1>2
  <2>4. \A i \in 1..(k - 1): 1 + i - 1 = i
    BY <1>2
  <2> QED  BY <2>2, <2>3, <2>4
<1>5. PICK t \in Seq(Callers): /\ t = SubSeq(q, k + 1, n) /\ Len(t) = n - k
                               /\ \A i \in 1..(n - k): t[i] = q[k + i]
  <2>1. n \in Int /\ k + 1 \in Int /\ \A i \in (k + 1)..n: q[i] \in Callers
    BY <1>1, <1>2, <1>3
  <2>2. /\ SubSeq(q, k + 1, n) \in Seq(Callers)
        /\ Len(SubSeq(q, k + 1, n)) = IF k + 1 <= n THEN n - (k + 1) + 1 ELSE 0
        /\ \A i \in 1..(n - (k + 1) + 1): SubSeq(q, k + 1, n)[i] = q[(k + 1) + i - 1]
    BY <2>1, SubSeqProperties
  <2>3. /\ (IF k + 1 <= n THEN n - (k + 1) + 1 ELSE 0) = n - k
        /\ n - (k + 1) + 1 = n - k
    BY <1>1, <1>2
  <2>4. \A i \in 1..(n - k): SubSeq(q, k + 1, n)[i] = q[(k + 1) + i - 1]
    BY <2>2, <2>3
  <2>5. ASSUME NEW i \in 1..(n - k)  PROVE SubSeq(q, k + 1, n)[i] = q[k + i]
    <3>1. (k + 1) + i - 1 = k + i
      BY <1>1, <1>2
    <3> QED  BY <2>4, <3>1
  <2> QED  BY <2>2, <2>3, <2>5
<1>6. PICK r: r = s \o t
  OBVIOUS
<1>7. /\ r \in Seq(Callers) /\ Len(r) = Len(s) + Len(t)
      /\ \A i \in 1..(Len(s) + Len(t)): r[i] = IF i <= Len(s) THEN s[i] ELSE t[i - Len(s)]
  BY <1>6, ConcatProperties
<1>8. (k - 1) + (n - k) = n - 1
  BY <1>1, <1>2
<1>9. /\ Len(r) = n - 1
      /\ \A i \in 1..(n - 1): r[i] = IF i <= k - 1 THEN s[i] ELSE t[i - (k - 1)]
  BY <1>4, <1>5, <1>7, <1>8
<1>10. ASSUME NEW i \in 1..(n - 1)
       PROVE  r[i] = IF i < k THEN q[i] ELSE q[i + 1]
  <2>1. CASE i < k
    <3>1. i \in 1..(k - 1) /\ i <= k - 1
      BY <1>2, <2>1
    <3> QED  BY <1>4, <1>9, <2>1, <3>1
  <2>2. CASE ~(i < k)
    <3>1. i - (k - 1) \in 1..(n - k) /\ ~(i <= k - 1) /\ k + (i - (k - 1)) = i + 1
      BY <1>1, <1>2, <2>2
    <3>2. t[i - (k - 1)] = q[i + 1]
      BY <1>5, <3>1
    <3> QED  BY <1>9, <2>2, <3>1, <3>2
  <2> QED  BY <2>1, <2>2
<1>11. Drops(q, q[k], r)
  BY <1>1, <1>2, <1>7, <1>9, <1>10, Positions
<1>12. RemoveAt(q, k) = r
  BY <1>1, <1>4, <1>5, <1>6 DEF RemoveAt
<1> QED  BY <1>11, <1>12

LEMMA WithoutDrops ==
  ASSUME TypeOK, NEW c \in Callers, pc[c] # "idle"
  PROVE  queue # <<>> /\ Drops(queue, c, Without(c))
<1>1. \E i \in DOMAIN queue: queue[i] = c
  BY DEF TypeOK, ToSet
<1>2. PICK k \in DOMAIN queue: queue[k] = c /\ k = CHOOSE i \in DOMAIN queue: queue[i] = c
  BY <1>1
<1>3. Drops(queue, queue[k], RemoveAt(queue, k))
  BY RemoveDrops DEF TypeOK
<1>4. queue # <<>>
  BY <1>1, EmptyQueue DEF ToSet
<1> QED  BY <1>2, <1>3, <1>4 DEF Without

LEMMA AppendQueue ==
  ASSUME NEW q \in Seq(Callers), IsInjective(q), NEW c \in Callers, c \notin ToSet(q)
  PROVE  /\ Append(q, c) \in Seq(Callers) /\ IsInjective(Append(q, c))
         /\ ToSet(Append(q, c)) = ToSet(q) \cup {c}
         /\ Append(q, c) # <<>>
         /\ Head(Append(q, c)) = IF q = <<>> THEN c ELSE Head(q)
<1>1. PICK n \in Nat: Len(q) = n /\ DOMAIN q = 1..n
  BY LenProperties
<1>2. /\ Append(q, c) \in Seq(Callers) /\ Len(Append(q, c)) = n + 1 /\ Append(q, c) # <<>>
      /\ \A i \in 1..n: Append(q, c)[i] = q[i]
      /\ Append(q, c)[n + 1] = c
  BY <1>1, AppendProperties
<1>3. DOMAIN Append(q, c) = 1..(n + 1)
  BY <1>2, LenProperties
<1>4. /\ \A i \in 1..(n + 1): i \in 1..n \/ i = n + 1
      /\ \A i \in 1..n: i \in 1..(n + 1)
      /\ n + 1 \in 1..(n + 1)
  BY <1>1
<1>5. \A i \in 1..n: q[i] # c
  BY <1>1 DEF ToSet
<1>6. IsInjective(Append(q, c))
  BY <1>1, <1>2, <1>3, <1>4, <1>5 DEF IsInjective
<1>7. ToSet(Append(q, c)) = ToSet(q) \cup {c}
  BY <1>1, <1>2, <1>3, <1>4 DEF ToSet
<1> QED  BY <1>2, <1>6, <1>7, HeadTailAppend

\* The first in the queue waits for the lock, or holds it.
LEMMA HeadQueued ==
  ASSUME TypeOK, queue # <<>>
  PROVE  Head(queue) \in Callers /\ pc[Head(queue)] # "idle"
<1>1. PICK n \in Nat: Len(queue) = n /\ n # 0 /\ DOMAIN queue = 1..n
  BY EmptySeq, LenProperties DEF TypeOK
<1>2. Head(queue) = queue[1] /\ 1 \in 1..n
  BY <1>1
<1>3. Head(queue) \in ToSet(queue) /\ Head(queue) \in Callers
  BY <1>1, <1>2, HeadTailProperties DEF ToSet, TypeOK
<1> QED  BY <1>3 DEF TypeOK

----------------------------------------------------------------------------
(* Time                                                                    *)

LEMMA AgesAreOrdered ==
  /\ 0 \in Ages /\ TTL \in Ages
  /\ \A n \in Ages: Older(n) \in Ages /\ ~(0 > n)
  /\ \A m, n \in Ages: Older(m) > Older(n) => m > n
  /\ Older(TTL) = TTL
  /\ \A n \in Ages: ~(n < TTL) <=> n = TTL
  /\ \A n \in Ages: n < TTL <=> TTL > n
  BY MetricsAssumption DEF Ages, Older

LEMMA FaultTyped == TypeOK /\ (Fault \/ UNCHANGED faults) => faults' \in 0..MaxFaults
  BY MetricsAssumption DEF Fault, TypeOK

----------------------------------------------------------------------------
(* The steps                                                               *)

LEMMA InvInit == Init => MetricsInv
<1> SUFFICES ASSUME Init  PROVE MetricsInv
  OBVIOUS
<1>1. TypeOK
  <2>1. queue \in Seq(Callers) /\ IsInjective(queue) /\ \A c \in Callers: c \notin ToSet(queue)
    BY EmptyQueue DEF Init
  <2>2. \A c \in Callers: pc[c] = "idle"
    BY DEF Init
  <2>3. 0 \in 0..MaxAlerts /\ 0 \in 0..MaxFaults
    BY MetricsAssumption
  <2>4. age \in [Alerts -> Ages] /\ stamp \in Ages /\ now \in Ages
    BY AgesAreOrdered DEF Init
  <2> QED  BY <2>1, <2>2, <2>3, <2>4 DEF Init, TypeOK
<1>2. CountedOnce
  BY DEF Init, CountedOnce
<1>3. Held
  BY DEF Init, Held
<1>4. Current
  BY DEF Init, Current
<1> QED  BY <1>1, <1>2, <1>3, <1>4 DEF MetricsInv

LEMMA TickKeeps == MetricsInv /\ Tick => MetricsInv'
<1> SUFFICES ASSUME MetricsInv, Tick  PROVE MetricsInv'
  OBVIOUS
<1>1. TypeOK /\ CountedOnce /\ Held /\ Current
  BY DEF MetricsInv
<1>2. age \in [Alerts -> Ages] /\ stamp \in Ages /\ now \in Ages
  BY <1>1 DEF TypeOK
<1>3. /\ age' \in [Alerts -> Ages] /\ stamp' \in Ages /\ now' \in Ages
      /\ \A a \in Alerts: age'[a] = Older(age[a])
      /\ stamp' = Older(stamp) /\ now' = Older(now)
  BY <1>2, AgesAreOrdered DEF Tick
<1>4. TypeOK'
  BY <1>1, <1>3 DEF Tick, TypeOK
<1>5. CountedOnce' /\ Held'
  BY <1>1 DEF Tick, CountedOnce, Held
<1>6. \A a \in Alerts: /\ age'[a] > stamp' => age[a] > stamp
                       /\ age'[a] > now' => age[a] > now
                       /\ age[a] = TTL => age'[a] = TTL
  BY <1>2, <1>3, AgesAreOrdered
<1>7. alerts' = alerts /\ cache' = cache /\ pc' = pc /\ scanned' = scanned /\ known' = known
  BY DEF Tick
<1>8. known \in [Callers -> SUBSET Alerts]
  BY <1>1 DEF TypeOK
<1>9. Current'
  BY <1>1, <1>6, <1>7, <1>8 DEF Current, Since
<1> QED  BY <1>4, <1>5, <1>9 DEF MetricsInv

\* An alert that changes is not one that the cache or a caller has to know.
LEMMA ChangeKeeps ==
  ASSUME TypeOK, Current, NEW a \in Alerts, Changed(a), API,
         \A b \in Alerts \ {a}: b \in alerts' <=> b \in alerts
  PROVE  /\ age' \in [Alerts -> Ages] /\ known' \in [Callers -> SUBSET Alerts]
         /\ Current'
<1>1. /\ age \in [Alerts -> Ages] /\ known \in [Callers -> SUBSET Alerts]
      /\ stamp \in Ages /\ now \in Ages
  BY DEF TypeOK
<1>2. /\ age'[a] = 0 /\ \A b \in Alerts \ {a}: age'[b] = age[b]
      /\ \A c \in Callers: known'[c] = known[c] \ {a}
      /\ age' \in [Alerts -> Ages] /\ known' \in [Callers -> SUBSET Alerts]
  BY <1>1, AgesAreOrdered DEF Changed
<1>3. cache' = cache /\ stamp' = stamp /\ pc' = pc /\ now' = now /\ scanned' = scanned
  BY DEF API, store, holder
<1>4. \A b \in Alerts: /\ age'[b] > stamp' => b # a /\ age[b] > stamp
                       /\ age'[b] > now' => b # a /\ age[b] > now
                       /\ b # a => (b \in alerts' <=> b \in alerts)
  BY <1>1, <1>2, <1>3, AgesAreOrdered
<1>5. cache' # NoAnswer =>
        \A b \in Alerts: age'[b] > stamp' => (b \in cache'.seen <=> b \in alerts')
  BY <1>3, <1>4 DEF Current, Since
<1>6. ASSUME NEW c \in Callers, pc'[c] = "counters"
      PROVE  /\ \A b \in Alerts: age'[b] > now' => (b \in scanned' <=> b \in alerts')
             /\ scanned' \cap known'[c] = alerts' \cap known'[c]
  <2>1. /\ \A b \in Alerts: age[b] > now => (b \in scanned <=> b \in alerts)
        /\ scanned \cap known[c] = alerts \cap known[c]
    BY <1>3, <1>6 DEF Current, Since
  <2>2. \A b \in known'[c]: b \in known[c] /\ b \in Alerts /\ b # a
    BY <1>1, <1>2
  <2>3. scanned' \cap known'[c] = alerts' \cap known'[c]
    BY <1>3, <1>4, <2>1, <2>2
  <2> QED  BY <1>3, <1>4, <2>1, <2>3
<1>7. \A c \in Callers: \A b \in known'[c]: age'[b] = TTL
  BY <1>1, <1>2 DEF Current
<1> QED  BY <1>2, <1>5, <1>6, <1>7 DEF Current, Since

LEMMA WorkerKeeps ==
  MetricsInv /\ (Store \/ Count \/ \E a \in Alerts: Withdraw(a)) => MetricsInv'
<1> SUFFICES ASSUME MetricsInv, Store \/ Count \/ \E a \in Alerts: Withdraw(a)
             PROVE  MetricsInv'
  OBVIOUS
<1>1. TypeOK /\ CountedOnce /\ Held /\ Current
  BY DEF MetricsInv
<1>2. API
  BY DEF Store, Count, Withdraw
<1>3. Held'
  BY <1>1, <1>2 DEF API, Held
<1>4. faults' \in 0..MaxFaults
  BY <1>1, FaultTyped DEF Store, Count, Withdraw
<1>5. CASE Store
  <2>1. made \in Nat /\ made < MaxAlerts /\ made' = made + 1 /\ counter' = counter
        /\ counter \in Nat /\ pending' \in BOOLEAN
        /\ alerts' = alerts \cup {made'} /\ Changed(made')
    BY <1>1, <1>5, MetricsAssumption DEF Store, TypeOK
  <2>2. made' \in Alerts /\ made' \in 0..MaxAlerts
    BY <2>1, MetricsAssumption DEF Alerts
  <2>3. /\ age' \in [Alerts -> Ages] /\ known' \in [Callers -> SUBSET Alerts]
        /\ Current'
    BY <1>1, <1>2, <2>1, <2>2, ChangeKeeps
  <2>4. CountedOnce'
    BY <1>1, <2>1 DEF CountedOnce
  <2>5. TypeOK'
    BY <1>1, <1>2, <1>4, <2>1, <2>2, <2>3 DEF TypeOK, API, store, holder
  <2> QED  BY <1>3, <2>3, <2>4, <2>5 DEF MetricsInv
<1>6. CASE Count
  <2>1. /\ alerts' = alerts /\ age' = age /\ made' = made /\ known' = known /\ pending' = FALSE
        /\ pending /\ counter' \in {counter, counter + 1}
    BY <1>6 DEF Count
  <2>2. made \in 0..MaxAlerts /\ counter \in 0..MaxAlerts /\ counter < made
    BY <1>1, <2>1 DEF TypeOK, CountedOnce
  <2>3. counter' \in 0..MaxAlerts /\ counter' <= made
    BY <2>1, <2>2, MetricsAssumption
  <2>4. TypeOK' /\ CountedOnce'
    BY <1>1, <1>2, <1>4, <2>1, <2>3 DEF TypeOK, CountedOnce, API, store, holder
  <2>5. Current'
    BY <1>1, <1>2, <2>1 DEF Current, Since, API, store, holder
  <2> QED  BY <1>3, <2>4, <2>5 DEF MetricsInv
<1>7. ASSUME NEW a \in Alerts, Withdraw(a)  PROVE MetricsInv'
  <2>1. /\ alerts' = alerts \ {a} /\ Changed(a)
        /\ made' = made /\ pending' = pending /\ counter' = counter
    BY <1>7 DEF Withdraw
  <2>2. /\ age' \in [Alerts -> Ages] /\ known' \in [Callers -> SUBSET Alerts]
        /\ Current'
    BY <1>1, <1>2, <2>1, ChangeKeeps
  <2>3. TypeOK' /\ CountedOnce'
    BY <1>1, <1>2, <1>4, <2>1, <2>2 DEF TypeOK, CountedOnce, API, store, holder
  <2> QED  BY <1>3, <2>2, <2>3 DEF MetricsInv
<1> QED  BY <1>5, <1>6, <1>7

\* Whoever goes leaves the lock, and what its holder has, to the others.
LEMMA LeaveKeeps ==
  ASSUME TypeOK, Held, NEW c \in Callers, pc[c] # "idle", NEW q,
         Drops(queue, c, q), queue # <<>>, Leave(c, q)
  PROVE  /\ queue' \in Seq(Callers) /\ IsInjective(queue')
         /\ pc' \in [Callers -> {"idle", "wait", "scan", "counters"}]
         /\ \A d \in Callers: pc'[d] # "idle" <=> d \in ToSet(queue')
         /\ now' \in Ages /\ scanned' \subseteq Alerts
         /\ known' \in [Callers -> SUBSET Alerts]
         /\ \A d \in Callers: known'[d] \subseteq known[d]
         /\ Held'
         /\ \A d \in Callers: pc'[d] = "counters" =>
              /\ pc[d] = "counters" /\ now' = now /\ scanned' = scanned
              /\ known'[d] = known[d]
<1>1. /\ pc' = [pc EXCEPT ![c] = "idle"] /\ known' = [known EXCEPT ![c] = {}]
      /\ queue' = q
      /\ \/ c = Head(queue) /\ now' = TTL /\ scanned' = {}
         \/ c # Head(queue) /\ now' = now /\ scanned' = scanned
  BY DEF Leave, holder
<1>2. /\ pc \in [Callers -> {"idle", "wait", "scan", "counters"}]
      /\ known \in [Callers -> SUBSET Alerts] /\ now \in Ages /\ scanned \subseteq Alerts
      /\ \A d \in Callers: pc[d] # "idle" <=> d \in ToSet(queue)
  BY DEF TypeOK
<1>3. pc'[c] = "idle" /\ \A d \in Callers \ {c}: pc'[d] = pc[d] /\ known'[d] = known[d]
  BY <1>1, <1>2
<1>4. /\ q \in Seq(Callers) /\ IsInjective(q)
      /\ ToSet(q) = ToSet(queue) \ {c}
      /\ Head(queue) # c => q # <<>> /\ Head(q) = Head(queue)
  BY DEF Drops
<1>5. \A d \in Callers: pc'[d] # "idle" <=> d \in ToSet(q)
  BY <1>2, <1>3, <1>4
<1>6. now' \in Ages /\ scanned' \subseteq Alerts
  BY <1>1, <1>2, AgesAreOrdered
<1>7. known' \in [Callers -> SUBSET Alerts] /\ \A d \in Callers: known'[d] \subseteq known[d]
  BY <1>1, <1>2
<1>8. pc' \in [Callers -> {"idle", "wait", "scan", "counters"}]
  BY <1>1, <1>2
<1>9. ASSUME NEW d \in Callers, pc'[d] \in {"scan", "counters"}
      PROVE  /\ d # c /\ pc[d] = pc'[d] /\ d = Head(queue) /\ q # <<>> /\ Head(q) = d
             /\ now' = now /\ scanned' = scanned
  <2>1. d # c /\ pc[d] = pc'[d]
    BY <1>3, <1>9
  <2>2. d = Head(queue)
    BY <1>9, <2>1 DEF Held
  <2> QED  BY <1>1, <1>4, <2>1, <2>2
<1>10. Held'
  BY <1>1, <1>9 DEF Held
<1> QED  BY <1>1, <1>3, <1>4, <1>5, <1>6, <1>7, <1>8, <1>9, <1>10

\* A caller goes, and the cache is as it was.
LEMMA GoneKeeps ==
  ASSUME MetricsInv, NEW c \in Callers, pc[c] # "idle", NEW q,
         Drops(queue, c, q), queue # <<>>, Leave(c, q),
         UNCHANGED <<worker, store>>, shown' \in Answer \cup {NoAnswer}, faults' \in 0..MaxFaults
  PROVE  MetricsInv'
<1>1. TypeOK /\ CountedOnce /\ Held /\ Current
  BY DEF MetricsInv
<1>2. /\ queue' \in Seq(Callers) /\ IsInjective(queue')
      /\ pc' \in [Callers -> {"idle", "wait", "scan", "counters"}]
      /\ \A d \in Callers: pc'[d] # "idle" <=> d \in ToSet(queue')
      /\ now' \in Ages /\ scanned' \subseteq Alerts
      /\ known' \in [Callers -> SUBSET Alerts]
      /\ \A d \in Callers: known'[d] \subseteq known[d]
      /\ Held'
      /\ \A d \in Callers: pc'[d] = "counters" =>
           /\ pc[d] = "counters" /\ now' = now /\ scanned' = scanned
           /\ known'[d] = known[d]
  BY <1>1, LeaveKeeps
<1>3. TypeOK'
  BY <1>1, <1>2 DEF TypeOK, worker, store
<1>4. CountedOnce'
  BY <1>1 DEF CountedOnce, worker
<1>5. alerts' = alerts /\ age' = age /\ cache' = cache /\ stamp' = stamp
  BY DEF worker, store
<1>6. Current'
  BY <1>1, <1>2, <1>5 DEF Current, Since
<1> QED  BY <1>2, <1>3, <1>4, <1>6 DEF MetricsInv

LEMMA CallKeeps ==
  ASSUME MetricsInv, NEW c \in Callers, Call(c)
  PROVE  MetricsInv'
<1>1. TypeOK /\ CountedOnce /\ Held /\ Current
  BY DEF MetricsInv
<1>2. /\ pc[c] = "idle" /\ c \notin ToSet(queue)
      /\ pc \in [Callers -> {"idle", "wait", "scan", "counters"}]
      /\ known \in [Callers -> SUBSET Alerts] /\ queue \in Seq(Callers) /\ IsInjective(queue)
      /\ \A d \in Callers: pc[d] # "idle" <=> d \in ToSet(queue)
  BY <1>1 DEF Call, TypeOK
<1>3. UNCHANGED <<worker, store, faults>> /\ CountedOnce'
  BY <1>1 DEF Call, CountedOnce, worker
<1>4. CASE Hit
  <2>1. pc' = pc /\ queue' = queue /\ known' = [known EXCEPT ![c] = {}] /\ UNCHANGED holder
    BY <1>1, <1>2, <1>4, HeadQueued DEF Call, Leave
  <2>2. shown' \in Answer \cup {NoAnswer}
    BY <1>1, <1>4 DEF Call, Answered, TypeOK
  <2>3. known' \in [Callers -> SUBSET Alerts] /\ \A d \in Callers: known'[d] \subseteq known[d]
    BY <1>2, <2>1
  <2>4. TypeOK'
    BY <1>1, <1>3, <2>1, <2>2, <2>3 DEF TypeOK, worker, store, holder
  <2>5. Held'
    BY <1>1, <2>1 DEF Held
  <2>6. /\ alerts' = alerts /\ age' = age /\ cache' = cache /\ stamp' = stamp
        /\ now' = now /\ scanned' = scanned /\ pc' = pc
    BY <1>3, <2>1 DEF worker, store, holder
  <2>7. \A d \in Callers: pc[d] = "counters" => scanned \cap known'[d] = alerts \cap known'[d]
    BY <1>1, <2>3 DEF Current
  <2>8. Current'
    BY <1>1, <2>3, <2>6, <2>7 DEF Current, Since
  <2> QED  BY <1>3, <2>4, <2>5, <2>8 DEF MetricsInv
<1>5. CASE ~Hit
  <2>1. /\ queue' = Append(queue, c) /\ known' = [known EXCEPT ![c] = Settled]
        /\ scanned' = scanned /\ shown' = shown
        /\ \/ queue = <<>> /\ pc' = [pc EXCEPT ![c] = "scan"] /\ now' = 0
           \/ queue # <<>> /\ pc' = [pc EXCEPT ![c] = "wait"] /\ now' = now
    BY <1>5 DEF Call, Acquire, Fill
  <2>2. /\ queue' \in Seq(Callers) /\ IsInjective(queue')
        /\ ToSet(queue') = ToSet(queue) \cup {c} /\ queue' # <<>>
        /\ Head(queue') = IF queue = <<>> THEN c ELSE Head(queue)
    BY <1>2, <2>1, AppendQueue
  <2>3. /\ pc' \in [Callers -> {"idle", "wait", "scan", "counters"}]
        /\ pc'[c] \in {"scan", "wait"}
        /\ pc'[c] = "scan" => queue = <<>>
        /\ \A d \in Callers \ {c}: pc'[d] = pc[d]
    BY <1>2, <2>1
  <2>4. \A d \in Callers: pc'[d] # "idle" <=> d \in ToSet(queue')
    BY <1>2, <2>2, <2>3
  <2>5. /\ known' \in [Callers -> SUBSET Alerts]
        /\ known'[c] = Settled /\ \A d \in Callers \ {c}: known'[d] = known[d]
    BY <1>2, <2>1 DEF Settled
  <2>6. now' \in Ages
    BY <1>1, <2>1, AgesAreOrdered DEF TypeOK
  <2>7. TypeOK'
    BY <1>1, <1>3, <2>1, <2>2, <2>3, <2>4, <2>5, <2>6 DEF TypeOK, worker, store
  <2>8. \A d \in Callers \ {c}: pc'[d] \in {"scan", "counters"} =>
          pc[d] = pc'[d] /\ queue # <<>> /\ d = Head(queue) /\ now' = now
    BY <1>1, <2>1, <2>3 DEF Held
  <2>9. Held'
    BY <2>2, <2>3, <2>8 DEF Held
  <2>10. alerts' = alerts /\ age' = age /\ cache' = cache /\ stamp' = stamp
    BY <1>3 DEF worker, store
  <2>11. \A d \in Callers: pc'[d] = "counters" =>
           pc[d] = "counters" /\ now' = now /\ known'[d] = known[d]
    BY <2>3, <2>5, <2>8
  <2>12. \A d \in Callers: \A a \in known'[d]: age[a] = TTL
    BY <1>1, <2>5 DEF Current, Settled
  <2>13. Current'
    BY <1>1, <2>1, <2>10, <2>11, <2>12 DEF Current, Since
  <2> QED  BY <1>3, <2>7, <2>9, <2>13 DEF MetricsInv
<1> QED  BY <1>4, <1>5

LEMMA RecheckKeeps ==
  ASSUME MetricsInv, NEW c \in Callers, Recheck(c)
  PROVE  MetricsInv'
<1>1. TypeOK /\ CountedOnce /\ Held /\ Current
  BY DEF MetricsInv
<1>2. pc[c] = "wait" /\ c = Head(queue) /\ UNCHANGED <<worker, store, faults>>
  BY DEF Recheck
<1>3. /\ pc \in [Callers -> {"idle", "wait", "scan", "counters"}]
      /\ queue \in Seq(Callers) /\ IsInjective(queue) /\ queue # <<>>
  BY <1>1, <1>2, EmptyQueue DEF TypeOK
<1>4. CASE Hit
  <2>1. Leave(c, Tail(queue)) /\ shown' \in Answer \cup {NoAnswer} /\ faults' \in 0..MaxFaults
    BY <1>1, <1>2, <1>4 DEF Recheck, Answered, TypeOK
  <2>2. Drops(queue, c, Tail(queue))
    BY <1>2, <1>3, TailDrops
  <2> QED  BY <1>2, <1>3, <2>1, <2>2, GoneKeeps
<1>5. CASE ~Hit
  <2>1. /\ pc' = [pc EXCEPT ![c] = "scan"] /\ now' = 0
        /\ queue' = queue /\ scanned' = scanned /\ shown' = shown /\ known' = known
    BY <1>5 DEF Recheck, Fill
  <2>2. /\ pc' \in [Callers -> {"idle", "wait", "scan", "counters"}]
        /\ pc'[c] = "scan" /\ \A d \in Callers \ {c}: pc'[d] = pc[d]
    BY <1>3, <2>1
  <2>3. TypeOK'
    BY <1>1, <1>2, <2>1, <2>2, AgesAreOrdered DEF TypeOK, worker, store
  <2>4. \A d \in Callers: pc'[d] \in {"scan", "counters"} => d = c
    BY <1>1, <1>2, <2>2 DEF Held
  <2>5. Held'
    BY <1>2, <1>3, <2>1, <2>4 DEF Held
  <2>6. CountedOnce' /\ Current'
    BY <1>1, <1>2, <2>1, <2>2, <2>4 DEF CountedOnce, Current, Since, worker, store
  <2> QED  BY <2>3, <2>5, <2>6 DEF MetricsInv
<1> QED  BY <1>4, <1>5

LEMMA ScanKeeps ==
  ASSUME MetricsInv, NEW c \in Callers, Scan(c)
  PROVE  MetricsInv'
<1>1. TypeOK /\ CountedOnce /\ Held /\ Current
  BY DEF MetricsInv
<1>2. /\ pc[c] = "scan" /\ pc' = [pc EXCEPT ![c] = "counters"] /\ scanned' = alerts
      /\ UNCHANGED <<worker, store, queue, now, shown, known, faults>>
  BY DEF Scan
<1>3. /\ pc' \in [Callers -> {"idle", "wait", "scan", "counters"}]
      /\ pc'[c] = "counters" /\ \A d \in Callers \ {c}: pc'[d] = pc[d]
  BY <1>1, <1>2 DEF TypeOK
<1>4. TypeOK'
  BY <1>1, <1>2, <1>3 DEF TypeOK, worker, store
<1>5. queue # <<>> /\ c = Head(queue)
  BY <1>1, <1>2 DEF Held
<1>6. Held'
  BY <1>1, <1>2, <1>3, <1>5 DEF Held
<1>7. CountedOnce' /\ Current'
  BY <1>1, <1>2 DEF CountedOnce, Current, Since, worker, store
<1> QED  BY <1>4, <1>6, <1>7 DEF MetricsInv

LEMMA CountersKeeps ==
  ASSUME MetricsInv, NEW c \in Callers, Counters(c)
  PROVE  MetricsInv'
<1>1. TypeOK /\ CountedOnce /\ Held /\ Current
  BY DEF MetricsInv
<1>2. PICK read \in BOOLEAN:
        /\ pc[c] = "counters" /\ (UNCHANGED faults \/ Fault)
        /\ cache' = [seen |-> scanned, created |-> Snapshot(read)]
        /\ stamp' = now
        /\ Leave(c, Tail(queue)) /\ Answered(c, cache')
        /\ UNCHANGED worker
  BY DEF Counters, Stamp
<1>3. queue # <<>> /\ c = Head(queue) /\ Drops(queue, c, Tail(queue))
  BY <1>1, <1>2, TailDrops DEF Held, TypeOK
<1>4. /\ queue' \in Seq(Callers) /\ IsInjective(queue')
      /\ pc' \in [Callers -> {"idle", "wait", "scan", "counters"}]
      /\ \A d \in Callers: pc'[d] # "idle" <=> d \in ToSet(queue')
      /\ now' \in Ages /\ scanned' \subseteq Alerts
      /\ known' \in [Callers -> SUBSET Alerts]
      /\ \A d \in Callers: known'[d] \subseteq known[d]
      /\ Held'
      /\ \A d \in Callers: pc'[d] = "counters" =>
           /\ pc[d] = "counters" /\ now' = now /\ scanned' = scanned
           /\ known'[d] = known[d]
  BY <1>1, <1>2, <1>3, LeaveKeeps
<1>5. cache' \in Answer
  BY <1>1, <1>2, MetricsAssumption DEF Answer, Snapshot, TypeOK
<1>6. shown' \in Answer \cup {NoAnswer} /\ faults' \in 0..MaxFaults
  BY <1>1, <1>2, <1>5, FaultTyped DEF Answered, TypeOK
<1>7. TypeOK'
  BY <1>1, <1>2, <1>4, <1>5, <1>6 DEF TypeOK, worker
<1>8. alerts' = alerts /\ age' = age /\ cache'.seen = scanned /\ Since(scanned, now)
  BY <1>1, <1>2 DEF Current, worker
<1>9. Current'
  BY <1>1, <1>2, <1>4, <1>8 DEF Current, Since
<1>10. CountedOnce'
  BY <1>1, <1>2 DEF CountedOnce, worker
<1> QED  BY <1>4, <1>7, <1>9, <1>10 DEF MetricsInv

LEMMA FailsKeeps ==
  ASSUME MetricsInv, NEW c \in Callers, Fails(c)
  PROVE  MetricsInv'
<1>1. /\ pc[c] # "idle" /\ Fault /\ Leave(c, Without(c))
      /\ UNCHANGED <<worker, store, shown>>
  BY DEF Fails, Released
<1>2. queue # <<>> /\ Drops(queue, c, Without(c))
  BY <1>1, WithoutDrops DEF MetricsInv
<1>3. faults' \in 0..MaxFaults /\ shown' \in Answer \cup {NoAnswer}
  BY <1>1, FaultTyped DEF MetricsInv, TypeOK
<1> QED  BY <1>1, <1>2, <1>3, GoneKeeps

LEMMA InvNext == MetricsInv /\ [Next]_vars => MetricsInv'
<1> SUFFICES ASSUME MetricsInv, [Next]_vars  PROVE MetricsInv'
  OBVIOUS
<1>1. CASE Tick
  BY <1>1, TickKeeps
<1>2. CASE Store \/ Count \/ \E a \in Alerts: Withdraw(a)
  BY <1>2, WorkerKeeps
<1>3. CASE \E c \in Callers: Call(c) \/ Compute(c) \/ Fails(c)
  BY <1>3, CallKeeps, RecheckKeeps, ScanKeeps, CountersKeeps, FailsKeeps DEF Compute
<1>4. CASE UNCHANGED vars
  BY <1>4 DEF MetricsInv, TypeOK, CountedOnce, Held, Current, Since, vars, worker, store, holder
<1> QED  BY <1>1, <1>2, <1>3, <1>4 DEF Next

LEMMA InvHolds == Spec => []MetricsInv
  BY InvInit, InvNext, PTL DEF Spec

----------------------------------------------------------------------------
(* The theorems                                                            *)

\* Metrics never leaves its types: the queue of the lock holds each caller at most
\* once, exactly while it is inside, and no alert is counted twice.
THEOREM MetricsTypes == Spec => []TypeOK
<1>1. MetricsInv => TypeOK
  BY DEF MetricsInv
<1> QED  BY InvHolds, <1>1, PTL

\* A hit is right about whatever has not changed for TTL.
LEMMA HitIsFresh ==
  ASSUME MetricsInv, Hit
  PROVE  /\ cache.seen \cap Settled = alerts \cap Settled
         /\ \A c \in Callers: cache.seen \cap known[c] = alerts \cap known[c]
<1>1. TypeOK /\ Current
  BY DEF MetricsInv
<1>2. \A a \in Alerts: age[a] = TTL => (a \in cache.seen <=> a \in alerts)
  BY <1>1, AgesAreOrdered DEF Hit, TypeOK, Current, Since
<1>3. \A c \in Callers: \A a \in known[c]: a \in Alerts /\ age[a] = TTL
  BY <1>1 DEF TypeOK, Current
<1> QED  BY <1>2, <1>3 DEF Settled

\* However long callers wait for the lock, the scan or Redis, whatever had not changed
\* for TTL when an answer was asked for, and has not since, is in it as it is in the
\* table.
THEOREM AnswersAreFresh == Spec => Fresh
<1>1. MetricsInv /\ [Next]_vars =>
        [\A c \in Callers:
          (Call(c) \/ Compute(c)) /\ pc'[c] = "idle"
          => LET old == IF pc[c] = "idle" THEN Settled ELSE known[c]
             IN  cache'.seen \cap old = alerts \cap old]_vars
  <2> SUFFICES ASSUME MetricsInv, NEW c \in Callers, Call(c) \/ Compute(c), pc'[c] = "idle"
               PROVE  LET old == IF pc[c] = "idle" THEN Settled ELSE known[c]
                      IN  cache'.seen \cap old = alerts \cap old
    OBVIOUS
  <2>1. TypeOK /\ Current /\ pc \in [Callers -> {"idle", "wait", "scan", "counters"}]
    BY DEF MetricsInv, TypeOK
  <2>2. CASE Call(c)
    <3>1. pc[c] = "idle" /\ cache' = cache
      BY <2>2 DEF Call, store
    <3>2. Hit
      BY <2>1, <2>2 DEF Call, Acquire, Fill
    <3> QED  BY <3>1, <3>2, HitIsFresh
  <2>3. CASE Recheck(c)
    <3>1. pc[c] = "wait" /\ cache' = cache
      BY <2>3 DEF Recheck, store
    <3>2. Hit
      BY <2>1, <2>3 DEF Recheck, Fill
    <3> QED  BY <3>1, <3>2, HitIsFresh
  <2>4. CASE Scan(c)
    BY <2>1, <2>4 DEF Scan
  <2>5. CASE Counters(c)
    <3>1. pc[c] = "counters" /\ cache'.seen = scanned
      BY <2>5 DEF Counters
    <3>2. scanned \cap known[c] = alerts \cap known[c]
      BY <2>1, <3>1 DEF Current
    <3> QED  BY <3>1, <3>2
  <2> QED  BY <2>2, <2>3, <2>4, <2>5 DEF Compute
<1> QED  BY <1>1, InvHolds, PTL DEF Spec, Fresh

\* No scan begins while another caller scans or reads the counters, nor within TTL of
\* the start of one that filled the cache.
THEOREM ScansAreSpaced == Spec => ScansSpaced
<1>1. MetricsInv /\ [Next]_vars =>
        [\A c \in Callers: pc[c] # "scan" /\ pc'[c] = "scan" =>
          /\ cache # NoAnswer => stamp = TTL
          /\ \A d \in Callers \ {c}: pc'[d] \notin {"scan", "counters"}]_vars
  <2> SUFFICES ASSUME MetricsInv, Next, NEW c \in Callers, pc[c] # "scan", pc'[c] = "scan"
               PROVE  /\ cache # NoAnswer => stamp = TTL
                      /\ \A d \in Callers \ {c}: pc'[d] \notin {"scan", "counters"}
    BY DEF vars
  <2>1. /\ TypeOK /\ Held
        /\ pc \in [Callers -> {"idle", "wait", "scan", "counters"}] /\ stamp \in Ages
    BY DEF MetricsInv, TypeOK
  <2>2. \E d \in Callers: Call(d) \/ Compute(d) \/ Fails(d)
    BY DEF Next, Tick, Store, Count, Withdraw, API
  <2>3. PICK d \in Callers: Call(d) \/ Compute(d) \/ Fails(d)
    BY <2>2
  <2>4. ASSUME NEW q, Leave(d, q)  PROVE FALSE
    BY <2>1, <2>4 DEF Leave
  <2>5. ~Counters(d) /\ ~Fails(d) /\ ~Scan(d)
    BY <2>1, <2>4 DEF Counters, Fails, Scan
  <2>6. CASE Call(d)
    <3>1. ~Hit /\ pc[d] = "idle"
      BY <2>4, <2>6 DEF Call
    <3>2. queue = <<>> /\ pc' = [pc EXCEPT ![d] = "scan"]
      BY <2>1, <2>6, <3>1 DEF Call, Acquire, Fill
    <3>3. d = c /\ \A e \in Callers \ {c}: pc'[e] = pc[e]
      BY <2>1, <3>2
    <3> QED  BY <2>1, <3>1, <3>2, <3>3, AgesAreOrdered DEF Held, Hit
  <2>7. CASE Recheck(d)
    <3>1. ~Hit /\ pc[d] = "wait" /\ d = Head(queue)
      BY <2>4, <2>7 DEF Recheck
    <3>2. pc' = [pc EXCEPT ![d] = "scan"]
      BY <2>7, <3>1 DEF Recheck, Fill
    <3>3. d = c /\ \A e \in Callers \ {c}: pc'[e] = pc[e]
      BY <2>1, <3>2
    <3> QED  BY <2>1, <3>1, <3>3, AgesAreOrdered DEF Held, Hit
  <2> QED  BY <2>3, <2>5, <2>6, <2>7 DEF Compute
<1> QED  BY <1>1, InvHolds, PTL DEF Spec, ScansSpaced
=============================================================================
