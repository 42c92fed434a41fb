---------------------------- MODULE ScreenProofs ----------------------------
(***************************************************************************)
(* Machine-checked proofs about Screen.                                    *)
(***************************************************************************)
EXTENDS Screen, SequenceTheorems, TLAPS

----------------------------------------------------------------------------
(* The invariant                                                           *)

Distinct(q) == \A i, j \in DOMAIN q: i # j => q[i] # q[j]

\* An alert that page p sorted by s may list when n are stored.
Belongs(a, p, s, n) ==
  IF s = "timestamp_asc" THEN a \in Offset(p) + 1..Offset(p) + PageSize ELSE a <= n - Offset(p)

\* A request is for page p sorted by s, and its answer is what that page held at
\* some time.
Due(f, p, s, n) ==
  /\ f.page = p /\ f.sort = s
  /\ f.at = "answered" => \E k \in 0..n: f.items = Items(p, s, k)

\* Requests in flight are those of the current view.
Awaited == \A i \in DOMAIN fetches: Due(fetches[i], page, sort, stored)

ScreenInv == TypeOK /\ NoTwice /\ Awaited /\ OwnView

----------------------------------------------------------------------------
(* Lists of alerts                                                         *)

LEMMA OffsetProperties ==
  /\ \A p \in Nat \ {0}: Offset(p) \in Nat
  /\ Offset(1) = 0
<1>1. PageSize \in Nat
  BY ScreenAssumption
<1>2. \A k \in Nat: k * PageSize \in Nat
  BY <1>1
<1>3. \A p \in Nat \ {0}: p - 1 \in Nat
  OBVIOUS
<1>4. 1 - 1 = 0 /\ 0 * PageSize = 0
  BY <1>1
<1> QED  BY <1>2, <1>3, <1>4 DEF Offset

\* What a page holds when n alerts are stored; on the first page, newest first,
\* an alert is only missing if the page is full of newer ones.
LEMMA ItemsProperties ==
  ASSUME NEW p \in Nat \ {0}, NEW s \in Sorts, NEW n \in 0..MaxAlerts
  PROVE  /\ Items(p, s, n) \in Shown /\ Distinct(Items(p, s, n))
         /\ \A a \in ToSet(Items(p, s, n)): a \in Nat /\ Belongs(a, p, s, n)
         /\ p = 1 /\ s = "timestamp_desc" =>
              \A a \in 1..n: a \notin ToSet(Items(p, s, n)) =>
                /\ Len(Items(p, s, n)) = PageSize
                /\ \A b \in ToSet(Items(p, s, n)): b > a
<1> DEFINE o    == Offset(p)
           size == IF n <= o THEN 0 ELSE IF n - o < PageSize THEN n - o ELSE PageSize
           asc  == s = "timestamp_asc"
           at(i) == IF s = "timestamp_desc" THEN n + 1 - o - i ELSE o + i
           q    == Items(p, s, n)
<1>1. /\ o \in Nat /\ PageSize \in Nat \ {0} /\ n \in Nat /\ MaxAlerts \in Nat /\ n <= MaxAlerts
      /\ p = 1 => o = 0
  BY OffsetProperties, ScreenAssumption
<1>2. q = [i \in 1..size |-> at(i)]
  BY DEF Items
<1>3. asc <=> s # "timestamp_desc"
  BY DEF Sorts
<1> HIDE DEF o, q
<1>4. /\ size \in 0..PageSize /\ size <= n /\ (size # 0 => o + size <= n)
      /\ size # PageSize => n - o <= size
  BY <1>1
<1> HIDE DEF size
<1>5. \A i \in 1..size: at(i) \in 1..n /\ (asc => at(i) = o + i) /\ (~asc => at(i) = n + 1 - o - i)
  BY <1>1, <1>3, <1>4
<1> HIDE DEF at, asc
<1>6. q \in Shown
  <2>1. \A i \in 1..size: at(i) \in Alerts
    BY <1>1, <1>5 DEF Alerts
  <2>2. q \in [1..size -> Alerts]
    BY <1>2, <2>1
  <2> QED  BY <1>4, <2>2 DEF Shown
<1>7. DOMAIN q = 1..size /\ \A i \in 1..size: q[i] = at(i)
  BY <1>2
<1>8. Distinct(q)
  <2> SUFFICES ASSUME NEW i \in 1..size, NEW j \in 1..size, i # j
               PROVE  at(i) # at(j)
    BY <1>7 DEF Distinct
  <2>1. i \in Int /\ j \in Int
    BY <1>4
  <2> QED  BY <1>1, <1>5, <2>1
<1>9. ASSUME NEW a \in ToSet(q)
      PROVE  a \in Nat /\ Belongs(a, p, s, n)
  <2>1. PICK i \in 1..size: a = at(i)
    BY <1>7, <1>9 DEF ToSet
  <2>2. i \in Nat /\ 1 <= i /\ i <= PageSize
    BY <1>1, <1>4
  <2>3. CASE asc
    <3>1. a = o + i
      BY <1>5, <2>1, <2>3
    <3>2. a \in o + 1..o + PageSize
      BY <1>1, <2>2, <3>1
    <3> QED  BY <1>1, <2>3, <3>1, <3>2 DEF Belongs, asc, o
  <2>4. CASE ~asc
    <3>1. a = n + 1 - o - i /\ a \in 1..n
      BY <1>5, <2>1, <2>4
    <3>2. a <= n - o
      BY <1>1, <2>2, <3>1
    <3> QED  BY <1>1, <2>4, <3>1, <3>2 DEF Belongs, asc, o
  <2> QED  BY <2>3, <2>4
<1>10. ASSUME p = 1, s = "timestamp_desc", NEW a \in 1..n, a \notin ToSet(q)
       PROVE  Len(q) = PageSize /\ \A b \in ToSet(q): b > a
  <2>1. ~asc /\ o = 0
    BY <1>1, <1>3, <1>10
  <2>2. \A i \in 1..size: at(i) = n + 1 - i
    BY <1>1, <1>5, <2>1
  <2>3. n + 1 - a > size
    <3> SUFFICES ASSUME n + 1 - a <= size  PROVE FALSE
      BY <1>1, <1>4
    <3>1. n + 1 - a \in 1..size /\ at(n + 1 - a) = a
      BY <1>1, <1>4, <2>2
    <3> QED  BY <1>7, <1>10, <3>1 DEF ToSet
  <2>4. size = PageSize
    BY <1>1, <1>4, <2>1, <2>3
  <2>5. Len(q) = PageSize
    BY <1>1, <1>7, <2>4
  <2>6. ASSUME NEW b \in ToSet(q)  PROVE b > a
    <3>1. PICK i \in 1..size: b = n + 1 - i
      BY <1>7, <2>2 DEF ToSet
    <3> QED  BY <1>1, <1>4, <2>3, <3>1
  <2> QED  BY <2>5, <2>6
<1> QED  BY <1>6, <1>8, <1>9, <1>10 DEF q

\* A list on the screen is a sequence of at most PageSize alerts.
LEMMA ShownLists ==
  ASSUME NEW q
  PROVE  q \in Shown <=> q \in Seq(Alerts) /\ Len(q) <= PageSize
<1>1. PageSize \in Nat
  BY ScreenAssumption
<1>2. ASSUME q \in Shown  PROVE q \in Seq(Alerts) /\ Len(q) <= PageSize
  <2>1. PICK n \in 0..PageSize: q \in [1..n -> Alerts]
    BY <1>2 DEF Shown
  <2>2. n \in Nat /\ n <= PageSize
    BY <1>1
  <2>3. q \in Seq(Alerts)
    BY <2>1, <2>2, SeqDef
  <2>4. Len(q) = n
    BY <2>1, <2>2
  <2> QED  BY <2>2, <2>3, <2>4
<1>3. ASSUME q \in Seq(Alerts), Len(q) <= PageSize  PROVE q \in Shown
  <2>1. q \in [1..Len(q) -> Alerts] /\ Len(q) \in Nat
    BY <1>3, LenProperties
  <2>2. Len(q) \in 0..PageSize
    BY <1>1, <1>3, <2>1
  <2> QED  BY <2>1, <2>2 DEF Shown
<1> QED  BY <1>2, <1>3

\* A new alert comes first; if it pushes another off the list, the page is full.
LEMMA WithNewProperties ==
  ASSUME alerts \in Shown, NoTwice, NEW a \in Alerts
  PROVE  /\ WithNew(a) \in Shown /\ Distinct(WithNew(a))
         /\ ToSet(WithNew(a)) \subseteq ToSet(alerts) \cup {a}
         /\ \A x \in ToSet(alerts) \ ToSet(WithNew(a)): Len(WithNew(a)) = PageSize
<1>1. /\ alerts \in Seq(Alerts) /\ Len(alerts) <= PageSize /\ PageSize \in Nat \ {0}
      /\ Len(alerts) \in Nat /\ DOMAIN alerts = 1..Len(alerts)
  BY ShownLists, LenProperties, ScreenAssumption
<1>2. CASE a \in ToSet(alerts)
  BY <1>2 DEF WithNew, NoTwice, Distinct
<1>3. CASE a \notin ToSet(alerts)
  <2>1. PICK n \in Nat: n = Len(alerts)
    BY <1>1
  <2>2. PICK q \in Seq(Alerts):
          /\ q = <<a>> \o alerts /\ Len(q) = n + 1
          /\ q[1] = a /\ \A i \in 2..(n + 1): q[i] = alerts[i - 1]
    <3>1. <<a>> \in Seq(Alerts) /\ Len(<<a>>) = 1 /\ <<a>>[1] = a
      OBVIOUS
    <3>2. /\ <<a>> \o alerts \in Seq(Alerts) /\ Len(<<a>> \o alerts) = 1 + n
          /\ \A i \in 1..(1 + n):
               (<<a>> \o alerts)[i] = IF i <= 1 THEN <<a>>[i] ELSE alerts[i - 1]
      BY <1>1, <2>1, <3>1, ConcatProperties
    <3>3. \A i \in 2..(n + 1): i \in 1..(1 + n) /\ ~(i <= 1)
      OBVIOUS
    <3>4. 1 \in 1..(1 + n) /\ 1 <= 1 /\ 1 + n = n + 1
      BY <2>1
    <3> QED  BY <3>1, <3>2, <3>3, <3>4
  <2>3. PICK k \in 1..(n + 1): /\ k <= PageSize /\ (k = n + 1 \/ k = PageSize)
                               /\ WithNew(a) = SubSeq(q, 1, k)
    <3> DEFINE k == IF n + 1 < PageSize THEN n + 1 ELSE PageSize
    <3>1. k \in 1..(n + 1) /\ k <= PageSize /\ (k = n + 1 \/ k = PageSize)
      BY <1>1, <2>1
    <3>2. WithNew(a) = SubSeq(q, 1, k)
      BY <1>3, <2>2 DEF WithNew, First
    <3> QED  BY <3>1, <3>2
  <2>4. /\ WithNew(a) \in Seq(Alerts) /\ Len(WithNew(a)) = k
        /\ \A i \in 1..k: WithNew(a)[i] = q[i]
    <3>1. 1 \in Int /\ k \in Int /\ 1 <= k /\ k - 1 + 1 = k /\ \A i \in 1..k: 1 + i - 1 = i
      OBVIOUS
    <3>2. \A i \in 1..k: i \in 1..Len(q)
      BY <2>2
    <3>3. \A i \in 1..k: q[i] \in Alerts
      BY <2>2, <3>2, ElementOfSeq
    <3> QED  BY <2>3, <3>1, <3>3, SubSeqProperties
  <2>5. DOMAIN WithNew(a) = 1..k
    BY <2>4, LenProperties
  <2>6. WithNew(a) \in Shown
    BY <2>3, <2>4, ShownLists
  <2>7. \A i \in 1..k: \/ i = 1 /\ q[i] = a
                       \/ i \in 2..(n + 1) /\ i - 1 \in DOMAIN alerts /\ q[i] = alerts[i - 1]
    BY <1>1, <2>1, <2>2
  <2>8. \A i \in DOMAIN alerts: alerts[i] # a
    BY <1>3 DEF ToSet
  <2>9. Distinct(WithNew(a))
    <3> SUFFICES ASSUME NEW i \in 1..k, NEW j \in 1..k, i # j
                 PROVE  q[i] # q[j]
      BY <2>4, <2>5 DEF Distinct
    <3>1. i \in Int /\ j \in Int /\ i - 1 # j - 1
      OBVIOUS
    <3> QED  BY <2>7, <2>8, <3>1 DEF NoTwice
  <2>10. ToSet(WithNew(a)) \subseteq ToSet(alerts) \cup {a}
    BY <2>4, <2>5, <2>7 DEF ToSet
  <2>11. ASSUME NEW x \in ToSet(alerts) \ ToSet(WithNew(a)), k = n + 1
         PROVE  FALSE
    <3>1. PICK i \in 1..n: x = alerts[i]
      BY <1>1, <2>1 DEF ToSet
    <3>2. i + 1 \in 2..(n + 1) /\ i + 1 \in 1..k /\ (i + 1) - 1 = i
      BY <2>11
    <3>3. WithNew(a)[i + 1] = x
      BY <2>2, <2>4, <3>1, <3>2
    <3> QED  BY <2>5, <3>2, <3>3 DEF ToSet
  <2> QED  BY <2>3, <2>4, <2>6, <2>9, <2>10, <2>11
<1> QED  BY <1>2, <1>3

----------------------------------------------------------------------------
(* Requests                                                                *)

\* What is left without one request are other requests.
LEMMA RemoveRequest ==
  ASSUME NEW q \in Seq(Fetch), NEW k \in DOMAIN q
  PROVE  /\ RemoveAt(q, k) \in Seq(Fetch) /\ Len(RemoveAt(q, k)) <= Len(q)
         /\ \A i \in DOMAIN RemoveAt(q, k): \E j \in DOMAIN q: RemoveAt(q, k)[i] = q[j]
<1>1. PICK n \in Nat: Len(q) = n /\ DOMAIN q = 1..n
  BY LenProperties
<1>2. k \in 1..n /\ k \in Nat /\ k - 1 \in Nat /\ n - k \in Nat
  BY <1>1
<1>3. \A i \in 1..n: q[i] \in Fetch
  BY <1>1, ElementOfSeq
<1>4. PICK s \in Seq(Fetch): /\ s = SubSeq(q, 1, k - 1) /\ Len(s) = k - 1
                             /\ \A i \in 1..(k - 1): s[i] = q[i]
  <2>1. 1 \in Int /\ k - 1 \in Int /\ \A i \in 1..(k - 1): i \in 1..n /\ 1 + i - 1 = i
    BY <1>2
  <2>2. \A i \in 1..(k - 1): q[i] \in Fetch
    BY <1>3, <2>1
  <2>3. (IF 1 <= k - 1 THEN (k - 1) - 1 + 1 ELSE 0) = k - 1 /\ (k - 1) - 1 + 1 = k - 1
    BY <1>2
  <2>4. /\ SubSeq(q, 1, k - 1) \in Seq(Fetch)
        /\ Len(SubSeq(q, 1, k - 1)) = IF 1 <= k - 1 THEN (k - 1) - 1 + 1 ELSE 0
        /\ \A i \in 1..((k - 1) - 1 + 1): SubSeq(q, 1, k - 1)[i] = q[1 + i - 1]
    BY <2>1, <2>2, SubSeqProperties
  <2>5. Len(SubSeq(q, 1, k - 1)) = k - 1
    BY <2>3, <2>4
  <2>6. 1..((k - 1) - 1 + 1) = 1..(k - 1)
    BY <2>3
  <2>7. \A i \in 1..(k - 1): SubSeq(q, 1, k - 1)[i] = q[i]
    BY <2>1, <2>4, <2>6
  <2> QED  BY <2>4, <2>5, <2>7
<1>5. PICK t \in Seq(Fetch): /\ t = SubSeq(q, k + 1, n) /\ Len(t) = n - k
                             /\ \A i \in 1..(n - k): t[i] = q[(k + 1) + i - 1]
  <2>1. n \in Int /\ k + 1 \in Int /\ \A i \in (k + 1)..n: i \in 1..n
    BY <1>2
  <2>2. \A i \in (k + 1)..n: q[i] \in Fetch
    BY <1>3, <2>1
  <2>3. (IF k + 1 <= n THEN n - (k + 1) + 1 ELSE 0) = n - k /\ n - (k + 1) + 1 = n - k
    BY <1>1, <1>2
  <2>4. /\ SubSeq(q, k + 1, n) \in Seq(Fetch)
        /\ Len(SubSeq(q, k + 1, n)) = IF k + 1 <= n THEN n - (k + 1) + 1 ELSE 0
        /\ \A i \in 1..(n - (k + 1) + 1): SubSeq(q, k + 1, n)[i] = q[(k + 1) + i - 1]
    BY <2>1, <2>2, SubSeqProperties
  <2> QED  BY <2>3, <2>4
<1>6. RemoveAt(q, k) = s \o t
  BY <1>1, <1>4, <1>5 DEF RemoveAt
<1>7. /\ s \o t \in Seq(Fetch) /\ Len(s \o t) = n - 1
      /\ \A i \in 1..(n - 1): (s \o t)[i] = IF i <= k - 1 THEN s[i] ELSE t[i - (k - 1)]
  <2>1. (k - 1) + (n - k) = n - 1
    BY <1>1, <1>2
  <2>2. /\ s \o t \in Seq(Fetch) /\ Len(s \o t) = Len(s) + Len(t)
        /\ \A i \in 1..Len(s) + Len(t):
             (s \o t)[i] = IF i <= Len(s) THEN s[i] ELSE t[i - Len(s)]
    BY ConcatProperties
  <2>3. Len(s) = k - 1 /\ Len(s) + Len(t) = n - 1
    BY <1>4, <1>5, <2>1
  <2> QED  BY <2>2, <2>3
<1>8. DOMAIN (s \o t) = 1..(n - 1)
  BY <1>7, LenProperties
<1>9. ASSUME NEW i \in 1..(n - 1)
      PROVE  \E j \in DOMAIN q: (s \o t)[i] = q[j]
  <2>1. i \in Nat /\ i \in 1..n
    BY <1>1
  <2>2. CASE i <= k - 1
    <3>1. i \in 1..(k - 1) /\ (s \o t)[i] = s[i]
      BY <1>2, <1>7, <2>1, <2>2
    <3> QED  BY <1>1, <1>4, <2>1, <3>1
  <2>3. CASE ~(i <= k - 1)
    <3>1. i - (k - 1) \in 1..(n - k) /\ (k + 1) + (i - (k - 1)) - 1 \in 1..n
      BY <1>1, <1>2, <2>1, <2>3
    <3>2. (s \o t)[i] = t[i - (k - 1)]
      BY <1>7, <2>3
    <3> QED  BY <1>1, <1>5, <3>1, <3>2
  <2> QED  BY <2>2, <2>3
<1>10. n - 1 <= n
  BY <1>1
<1> QED  BY <1>1, <1>6, <1>7, <1>8, <1>9, <1>10

LEMMA AddRequest ==
  ASSUME NEW q \in Seq(Fetch), NEW f \in Fetch
  PROVE  /\ Append(q, f) \in Seq(Fetch) /\ Len(Append(q, f)) = Len(q) + 1
         /\ \A i \in DOMAIN Append(q, f): Append(q, f)[i] = f \/ \E j \in DOMAIN q: Append(q, f)[i] = q[j]
<1>1. PICK n \in Nat: Len(q) = n /\ DOMAIN q = 1..n
  BY LenProperties
<1>2. /\ Append(q, f) \in Seq(Fetch) /\ Len(Append(q, f)) = n + 1
      /\ \A i \in 1..n: Append(q, f)[i] = q[i]
      /\ Append(q, f)[n + 1] = f
  BY <1>1, AppendProperties
<1>3. DOMAIN Append(q, f) = 1..(n + 1)
  BY <1>2, LenProperties
<1>4. \A i \in 1..(n + 1): i \in 1..n \/ i = n + 1
  BY <1>1
<1> QED  BY <1>1, <1>2, <1>3, <1>4

LEMMA SentRequest ==
  ASSUME NEW p \in Nat \ {0}, NEW s \in Sorts
  PROVE  Sent(p, s) \in Fetch /\ \A n: Due(Sent(p, s), p, s, n)
BY DEF Sent, Fetch, Due

\* A page beyond the end is replaced by the last one.
LEMMA ClampedIsPage ==
  ASSUME NEW p \in Nat \ {0}, NEW t \in Nat
  PROVE  Clamped(p, t) \in Nat \ {0}
<1>1. CASE t > 0
  <2>1. PICK a \in Nat: a = t + PageSize - 1 /\ a >= PageSize
    BY <1>1, ScreenAssumption
  <2>2. a \div PageSize \in Nat \ {0}
    BY <2>1, ScreenAssumption
  <2> QED  BY <2>1, <2>2 DEF Clamped
<1>2. CASE ~(t > 0)
  BY <1>2 DEF Clamped
<1> QED  BY <1>1, <1>2

----------------------------------------------------------------------------
(* The invariant is inductive                                              *)

LEMMA ScreenInit == Init => ScreenInv
<1> SUFFICES ASSUME Init  PROVE ScreenInv
  OBVIOUS
<1>1. /\ MaxAlerts \in Nat /\ MaxFetches \in Nat \ {0} /\ MaxClicks \in Nat /\ MaxFaults \in Nat
      /\ PageSize \in Nat
  BY ScreenAssumption
<1>2. page = 1 /\ sort = "timestamp_desc" /\ page \in Nat \ {0} /\ sort \in Sorts
  BY DEF Init, Sorts
<1>3. alerts = <<>> /\ alerts \in Shown /\ DOMAIN alerts = {}
  <2>1. <<>> \in Seq(Alerts) /\ Len(<<>>) = 0 /\ DOMAIN <<>> = {}
    BY EmptySeq
  <2>2. \A n \in Nat: n = 0 => n <= PageSize
    BY <1>1
  <2>3. <<>> \in Shown
    BY <2>1, <2>2, ShownLists
  <2> QED  BY <2>1, <2>3 DEF Init
<1>4. fetches = <<Sent(page, sort)>> /\ Sent(page, sort) \in Fetch
  BY <1>2, SentRequest DEF Init
<1>5. fetches \in Seq(Fetch) /\ Len(fetches) <= MaxFetches
  BY <1>1, <1>4
<1>6. wire = <<>> /\ wire \in Seq(1..stored)
  BY EmptySeq DEF Init
<1>7. TypeOK
  <2>1. stored \in 0..MaxAlerts /\ clicks \in 0..MaxClicks /\ faults \in 0..MaxFaults /\ total \in Nat
    BY <1>1 DEF Init
  <2>2. publishing \subseteq 1..stored /\ fresh \in BOOLEAN
    BY DEF Init
  <2> QED  BY <1>2, <1>3, <1>5, <1>6, <2>1, <2>2 DEF Init, TypeOK
<1>8. Awaited
  <2>1. \A i \in DOMAIN fetches: fetches[i] = Sent(page, sort)
    BY <1>4
  <2> QED  BY <1>2, <2>1, SentRequest DEF Awaited
<1> QED  BY <1>3, <1>7, <1>8 DEF ScreenInv, NoTwice, OwnView, Init

\* The state of the page, apart from the counters of the environment.
ViewTyped ==
  /\ page \in Nat \ {0} /\ sort \in Sorts
  /\ alerts \in Shown /\ total \in Nat
  /\ fetches \in Seq(Fetch) /\ Len(fetches) <= MaxFetches
  /\ fresh \in BOOLEAN

\* A new view begins with one request, and nothing is known of it.
LEMMA VisitKeeps ==
  ASSUME TypeOK, NEW p \in Nat \ {0}, NEW s \in Sorts, NEW fs, Visit(p, s, fs)
  PROVE  /\ page' \in Nat \ {0} /\ sort' \in Sorts /\ fresh' = FALSE
         /\ fetches' \in Seq(Fetch) /\ Len(fetches') <= MaxFetches
         /\ Awaited' /\ OwnView'
<1>1. /\ page' = p /\ sort' = s /\ fresh' = FALSE
      /\ fetches' = Append(<<>>, Sent(p, s))
  BY DEF Visit, Cancelled
<1>2. Sent(p, s) \in Fetch /\ Due(Sent(p, s), p, s, stored')
  BY SentRequest
<1>3. fetches' = <<Sent(p, s)>> /\ fetches' \in Seq(Fetch) /\ Len(fetches') = 1
  BY <1>1, <1>2
<1>4. Awaited'
  <2>1. \A i \in DOMAIN fetches': fetches'[i] = Sent(p, s)
    BY <1>3
  <2> QED  BY <1>1, <1>2, <2>1 DEF Awaited
<1> QED  BY <1>1, <1>3, <1>4, ScreenAssumption DEF OwnView

\* Setting the list and the total keeps the invariant if the list is one of distinct
\* alerts, of this view where an answer was shown.
LEMMA RenderKeeps ==
  ASSUME ScreenInv, NEW as \in Shown, NEW t \in Nat, NEW fs \in Seq(Fetch),
         NEW answered \in BOOLEAN, Render(as, t, fs, answered), stored' = stored,
         Len(fs) <= MaxFetches, Distinct(as),
         \A i \in DOMAIN fs: Due(fs[i], page, sort, stored),
         fresh \/ answered => \A a \in ToSet(as): Belongs(a, page, sort, stored)
  PROVE  ViewTyped' /\ NoTwice' /\ Awaited' /\ OwnView'
<1>1. TypeOK /\ alerts' = as /\ total' = t /\ page \in Nat \ {0} /\ sort \in Sorts
  BY DEF Render, ScreenInv, TypeOK
<1>2. NoTwice'
  BY <1>1 DEF NoTwice, Distinct
<1>3. CASE Clamped(page, t) # page
  <2>1. Visit(Clamped(page, t), sort, fs)
    BY <1>3 DEF Render
  <2>2. Clamped(page, t) \in Nat \ {0}
    BY <1>1, ClampedIsPage
  <2> QED  BY <1>1, <1>2, <2>1, <2>2, VisitKeeps DEF ViewTyped
<1>4. CASE Clamped(page, t) = page
  <2>1. fetches' = fs /\ fresh' = (fresh \/ answered) /\ page' = page /\ sort' = sort
    BY <1>4 DEF Render
  <2>2. ViewTyped'
    BY <1>1, <2>1 DEF ViewTyped, ScreenInv, TypeOK
  <2>3. Awaited'
    BY <2>1 DEF Awaited
  <2>4. OwnView'
    BY <1>1, <2>1 DEF OwnView, Belongs, Offset
  <2> QED  BY <1>2, <2>2, <2>3, <2>4
<1> QED  BY <1>3, <1>4

\* The worker, the bridge and the socket do not touch the page.
LEMMA OutsideKeeps ==
  ASSUME ScreenInv,
         \/ Store \/ \E a \in Alerts: Publish(a) \/ PublishFails(a)
         \/ BridgeFails \/ Subscribe \/ SocketOpens \/ SocketCloses \/ Reconnect
  PROVE  ScreenInv'
<1>0. /\ TypeOK /\ stored \in Nat /\ stored <= MaxAlerts /\ MaxAlerts \in Nat /\ MaxFaults \in Nat
      /\ faults \in Nat /\ wire \in Seq(1..stored)
  BY ScreenAssumption DEF ScreenInv, TypeOK
<1>1. UNCHANGED <<view, clicks>>
  BY DEF Store, Publish, PublishFails, BridgeFails, Subscribe, SocketOpens, SocketCloses, Reconnect
<1>2. stored' = stored \/ (stored' = stored + 1 /\ stored < MaxAlerts)
  BY DEF Store, Publish, PublishFails, BridgeFails, Subscribe, SocketOpens, SocketCloses,
         Reconnect, server
<1>3. stored' \in 0..MaxAlerts /\ stored \in Nat /\ stored' \in Nat /\ stored <= stored'
  BY <1>0, <1>2
<1>4. publishing' \subseteq 1..stored'
  <2>1. CASE Store
    BY <1>0, <2>1 DEF Store, TypeOK
  <2>2. CASE publishing' \subseteq publishing /\ stored' = stored
    BY <1>0, <2>2 DEF TypeOK
  <2> QED  BY <2>1, <2>2
           DEF Publish, PublishFails, BridgeFails, Subscribe, SocketOpens, SocketCloses,
               Reconnect, server
<1>5. wire' \in Seq(1..stored')
  <2>1. CASE wire' = wire
    <3>1. 1..stored \subseteq 1..stored'
      BY <1>3
    <3> QED  BY <1>0, <2>1, <3>1, SeqMonotonic
  <2>2. CASE wire' = <<>>
    BY <2>2, EmptySeq
  <2>3. CASE \E a \in Alerts: Publish(a)
    <3>1. PICK a \in 1..stored: wire' = wire \/ wire' = Append(wire, a)
      BY <1>0, <2>3 DEF Publish, TypeOK
    <3>2. Append(wire, a) \in Seq(1..stored) /\ stored' = stored
      BY <1>0, <2>3, AppendProperties DEF Publish
    <3> QED  BY <1>0, <3>1, <3>2
  <2> QED  BY <2>1, <2>2, <2>3
           DEF Store, PublishFails, BridgeFails, Subscribe, SocketOpens, SocketCloses, Reconnect,
               link
<1>6. /\ bridge' \in {"listening", "backoff"}
      /\ socket' \in {"connecting", "open", "waiting"}
      /\ socket' # "open" => wire' = <<>>
  BY DEF Store, Publish, PublishFails, BridgeFails, Subscribe, SocketOpens, SocketCloses,
         Reconnect, server, link, ScreenInv, TypeOK
<1>7. faults' \in 0..MaxFaults
  <2>1. faults' = faults \/ Fault
    BY DEF Store, Publish, PublishFails, BridgeFails, Subscribe, SocketOpens, SocketCloses,
           Reconnect
  <2> QED  BY <1>0, <2>1 DEF Fault, TypeOK
<1>8. TypeOK'
  BY <1>0, <1>1, <1>3, <1>4, <1>5, <1>6, <1>7 DEF TypeOK, view
<1>9. NoTwice'
  BY <1>1 DEF ScreenInv, NoTwice, view
<1>10. Awaited'
  <2>1. \A k \in 0..stored: k \in 0..stored'
    BY <1>3
  <2>2. \A f: Due(f, page, sort, stored) => Due(f, page, sort, stored')
    BY <2>1 DEF Due
  <2> QED  BY <1>1, <2>2 DEF ScreenInv, Awaited, view
<1>11. OwnView'
  <2>1. \A a \in ToSet(alerts): a \in Nat
    <3>1. alerts \in Seq(Alerts)
      BY <1>0, ShownLists DEF TypeOK
    <3>2. \A i \in DOMAIN alerts: alerts[i] \in Alerts
      BY <3>1, ElementOfSeq, LenProperties
    <3>3. \A a \in Alerts: a \in Nat
      BY <1>0 DEF Alerts
    <3> QED  BY <3>2, <3>3 DEF ToSet
  <2>2. Offset(page) \in Nat /\ Offset(page') = Offset(page)
    BY <1>0, <1>1, OffsetProperties DEF TypeOK, view
  <2>3. \A a \in Nat: a <= stored - Offset(page) => a <= stored' - Offset(page)
    BY <1>3, <2>2
  <2> QED  BY <1>1, <2>1, <2>2, <2>3 DEF ScreenInv, OwnView, view
<1> QED  BY <1>8, <1>9, <1>10, <1>11 DEF ScreenInv

\* A step of the page that leaves the view and the list alone: only the requests
\* change, into others of this view.
LEMMA RequestsKeep ==
  ASSUME ScreenInv, UNCHANGED <<server, link, page, sort, alerts, total, fresh, clicks>>,
         faults' = faults \/ Fault,
         fetches' \in Seq(Fetch), Len(fetches') <= MaxFetches,
         \A i \in DOMAIN fetches': Due(fetches'[i], page, sort, stored)
  PROVE  ScreenInv'
<1>1. faults' \in 0..MaxFaults
  BY ScreenAssumption DEF Fault, ScreenInv, TypeOK
<1>2. TypeOK'
  BY <1>1 DEF ScreenInv, TypeOK, server, link
<1>3. NoTwice' /\ OwnView'
  BY DEF ScreenInv, NoTwice, OwnView, Offset, server
<1>4. Awaited'
  BY DEF Awaited, server
<1> QED  BY <1>2, <1>3, <1>4 DEF ScreenInv

\* A step of the page that renders or visits.
LEMMA PageKeeps ==
  ASSUME ScreenInv, ViewTyped', NoTwice', Awaited', OwnView',
         UNCHANGED <<server, socket, faults>>,
         wire' = wire \/ (wire # <<>> /\ wire' = Tail(wire)),
         clicks' \in 0..MaxClicks
  PROVE  ScreenInv'
<1>1. TypeOK /\ wire \in Seq(1..stored) /\ stored' = stored
  BY DEF ScreenInv, TypeOK, server
<1>2. wire' \in Seq(1..stored) /\ (socket # "open" => wire' = <<>>)
  BY <1>1, HeadTailProperties DEF TypeOK
<1>3. TypeOK'
  BY <1>1, <1>2 DEF ViewTyped, TypeOK, server
<1> QED  BY <1>3 DEF ScreenInv

LEMMA ClickKeeps ==
  ASSUME ScreenInv, NEW p \in Nat \ {0}, NEW s \in Sorts, Click(p, s)
  PROVE  ScreenInv'
<1>1. TypeOK /\ Visit(p, s, fetches) /\ UNCHANGED <<server, link, alerts, total, faults>>
  BY DEF Click, ScreenInv
<1>2. clicks' \in 0..MaxClicks
  BY <1>1, ScreenAssumption DEF Click, TypeOK
<1>3. /\ page' \in Nat \ {0} /\ sort' \in Sorts /\ fresh' = FALSE
      /\ fetches' \in Seq(Fetch) /\ Len(fetches') <= MaxFetches
      /\ Awaited' /\ OwnView'
  BY <1>1, VisitKeeps
<1>4. ViewTyped'
  BY <1>1, <1>3 DEF ViewTyped, TypeOK
<1>5. NoTwice'
  BY <1>1 DEF ScreenInv, NoTwice
<1> QED  BY <1>1, <1>2, <1>3, <1>4, <1>5, PageKeeps DEF link

LEMMA ReceiveKeeps == ScreenInv /\ Receive => ScreenInv'
<1> SUFFICES ASSUME ScreenInv, Receive  PROVE ScreenInv'
  OBVIOUS
<1> DEFINE listed == IF sort = "timestamp_desc" /\ page = 1 THEN WithNew(Head(wire)) ELSE alerts
<1>1. /\ TypeOK /\ NoTwice /\ alerts \in Shown /\ page \in Nat \ {0} /\ sort \in Sorts
      /\ stored \in Nat /\ stored <= MaxAlerts /\ MaxAlerts \in Nat /\ fetches \in Seq(Fetch)
      /\ wire \in Seq(1..stored) /\ wire # <<>> /\ fresh \in BOOLEAN
  BY ScreenAssumption DEF ScreenInv, TypeOK, Receive
<1>2. Head(wire) \in 1..stored /\ Head(wire) \in Alerts
  <2>1. Head(wire) \in 1..stored
    BY <1>1, HeadTailProperties
  <2> QED  BY <1>1, <2>1 DEF Alerts
<1>3. /\ WithNew(Head(wire)) \in Shown /\ Distinct(WithNew(Head(wire)))
      /\ ToSet(WithNew(Head(wire))) \subseteq ToSet(alerts) \cup {Head(wire)}
  BY <1>1, <1>2, WithNewProperties
<1>4. listed \in Shown /\ Distinct(listed)
  BY <1>1, <1>3 DEF NoTwice, Distinct
<1>5. ASSUME fresh, NEW a \in ToSet(listed)  PROVE Belongs(a, page, sort, stored)
  <2>1. \A x \in ToSet(alerts): Belongs(x, page, sort, stored)
    BY <1>5 DEF ScreenInv, OwnView, Belongs
  <2>2. CASE a \in ToSet(alerts)
    BY <2>1, <2>2
  <2>3. CASE a \notin ToSet(alerts)
    <3>1. sort = "timestamp_desc" /\ page = 1 /\ a = Head(wire)
      BY <1>3, <1>5, <2>3
    <3>2. a <= stored - Offset(page)
      BY <1>1, <1>2, <3>1, OffsetProperties
    <3> QED  BY <3>1, <3>2 DEF Belongs
  <2> QED  BY <2>2, <2>3
<1>6. Render(listed, total + 1, fetches, FALSE) /\ UNCHANGED <<server, socket, clicks, faults>>
  BY DEF Receive
<1> HIDE DEF listed
<1>7. total + 1 \in Nat /\ Len(fetches) <= MaxFetches /\ stored' = stored
      /\ clicks' \in 0..MaxClicks /\ FALSE \in BOOLEAN
  BY <1>1, <1>6 DEF TypeOK, server
<1>8. \A i \in DOMAIN fetches: Due(fetches[i], page, sort, stored)
  BY DEF ScreenInv, Awaited
<1>9. fresh \/ FALSE => \A a \in ToSet(listed): Belongs(a, page, sort, stored)
  BY <1>5
<1>10. ViewTyped' /\ NoTwice' /\ Awaited' /\ OwnView'
  BY <1>1, <1>4, <1>6, <1>7, <1>8, <1>9, RenderKeeps
<1> QED  BY <1>6, <1>7, <1>10, PageKeeps DEF Receive

\* An answer in flight is what its page held at some time.
LEMMA AnswerProperties ==
  ASSUME ScreenInv, NEW s \in DOMAIN fetches, fetches[s].at = "answered"
  PROVE  /\ fetches[s].total \in Nat
         /\ \E n \in 0..stored: n \in 0..MaxAlerts /\ fetches[s].items = Items(page, sort, n)
<1>1. fetches[s] \in Fetch
  BY ElementOfSeq, LenProperties DEF ScreenInv, TypeOK
<1>2. fetches[s].total \in Nat
  BY <1>1, ScreenAssumption DEF Fetch
<1>3. PICK n \in 0..stored: fetches[s].items = Items(page, sort, n)
  BY DEF ScreenInv, Awaited, Due
<1>4. n \in 0..MaxAlerts
  BY ScreenAssumption DEF ScreenInv, TypeOK
<1> QED  BY <1>2, <1>3, <1>4

LEMMA ArriveKeeps ==
  ASSUME ScreenInv, NEW s \in 1..MaxFetches, Arrive(s)
  PROVE  ScreenInv'
<1>1. /\ TypeOK /\ page \in Nat \ {0} /\ sort \in Sorts /\ fetches \in Seq(Fetch)
      /\ stored \in Nat /\ s \in DOMAIN fetches /\ fetches[s].at = "answered"
      /\ Len(fetches) <= MaxFetches
  BY DEF ScreenInv, TypeOK, Arrive
<1>2. PICK n \in 0..stored: n \in 0..MaxAlerts /\ fetches[s].items = Items(page, sort, n)
  BY <1>1, AnswerProperties
<1>3. PICK q: q = fetches[s].items
  OBVIOUS
<1>4. /\ q \in Shown /\ Distinct(q)
      /\ \A a \in ToSet(q): a \in Nat /\ Belongs(a, page, sort, n)
  BY <1>1, <1>2, <1>3, ItemsProperties
<1>5. ASSUME NEW a \in ToSet(q)  PROVE Belongs(a, page, sort, stored)
  <2>1. Offset(page) \in Nat /\ n \in Nat /\ n <= stored /\ a \in Nat
    BY <1>1, <1>4, OffsetProperties
  <2>2. a <= n - Offset(page) => a <= stored - Offset(page)
    BY <1>1, <2>1
  <2> QED  BY <1>4, <2>2 DEF Belongs
<1>6. PICK fs \in Seq(Fetch):
        /\ fs = RemoveAt(fetches, s) /\ Len(fs) <= Len(fetches)
        /\ \A i \in DOMAIN fs: \E j \in DOMAIN fetches: fs[i] = fetches[j]
  BY <1>1, RemoveRequest
<1>7. /\ Len(fs) <= MaxFetches
      /\ \A i \in DOMAIN fs: Due(fs[i], page, sort, stored)
  <2>1. Len(fs) \in Nat /\ Len(fetches) \in Nat
    BY <1>1, LenProperties
  <2>2. Len(fs) <= MaxFetches
    BY <1>1, <1>6, <2>1, ScreenAssumption
  <2> QED  BY <1>6, <2>2 DEF ScreenInv, Awaited
<1>8. fetches[s].total \in Nat
  BY <1>1, AnswerProperties
<1>9. /\ Render(q, fetches[s].total, fs, TRUE)
      /\ UNCHANGED <<server, link, clicks, faults>> /\ stored' = stored
  BY <1>3, <1>6 DEF Arrive, server
<1>10. ViewTyped' /\ NoTwice' /\ Awaited' /\ OwnView'
  BY <1>4, <1>5, <1>7, <1>8, <1>9, RenderKeeps
<1>11. clicks' \in 0..MaxClicks
  BY <1>1, <1>9 DEF TypeOK
<1> QED  BY <1>9, <1>10, <1>11, PageKeeps DEF link

\* One request takes its next step.
LEMMA AdvanceKeeps ==
  ASSUME ScreenInv, NEW s \in DOMAIN fetches, NEW f \in Fetch, Due(f, page, sort, stored)
  PROVE  /\ [fetches EXCEPT ![s] = f] \in Seq(Fetch)
         /\ Len([fetches EXCEPT ![s] = f]) <= MaxFetches
         /\ \A i \in DOMAIN [fetches EXCEPT ![s] = f]:
              Due([fetches EXCEPT ![s] = f][i], page, sort, stored)
<1>1. fetches \in Seq(Fetch) /\ DOMAIN fetches = 1..Len(fetches) /\ Len(fetches) <= MaxFetches
  BY LenProperties DEF ScreenInv, TypeOK
<1>2. /\ [fetches EXCEPT ![s] = f] \in Seq(Fetch)
      /\ Len([fetches EXCEPT ![s] = f]) = Len(fetches)
  BY <1>1, ExceptSeq
<1>3. \A i \in DOMAIN [fetches EXCEPT ![s] = f]:
        i \in DOMAIN fetches /\ [fetches EXCEPT ![s] = f][i] = IF i = s THEN f ELSE fetches[i]
  OBVIOUS
<1> QED  BY <1>1, <1>2, <1>3 DEF ScreenInv, Awaited

LEMMA RequestSteps ==
  ASSUME ScreenInv,
         Poll \/ \E s \in 1..MaxFetches: Count(s) \/ Select(s) \/ FetchFails(s)
  PROVE  ScreenInv'
<1>1. /\ TypeOK /\ page \in Nat \ {0} /\ sort \in Sorts /\ fetches \in Seq(Fetch)
      /\ stored \in 0..MaxAlerts /\ Len(fetches) <= MaxFetches /\ Len(fetches) \in Nat
      /\ MaxFetches \in Nat /\ stored \in 0..stored
  BY ScreenAssumption, LenProperties DEF ScreenInv, TypeOK
<1>2. \A i \in DOMAIN fetches: Due(fetches[i], page, sort, stored)
  BY DEF ScreenInv, Awaited
<1>3. \A i \in DOMAIN fetches: fetches[i] \in Fetch
  BY <1>1, ElementOfSeq, LenProperties
<1>4. CASE Poll
  <2>1. Sent(page, sort) \in Fetch /\ Due(Sent(page, sort), page, sort, stored)
    BY <1>1, SentRequest
  <2>2. PICK fs: fs = Append(fetches, Sent(page, sort))
    OBVIOUS
  <2>3. /\ fs \in Seq(Fetch) /\ Len(fs) = Len(fetches) + 1
        /\ \A i \in DOMAIN fs: fs[i] = Sent(page, sort) \/ \E j \in DOMAIN fetches: fs[i] = fetches[j]
    BY <1>1, <2>1, <2>2, AddRequest
  <2>4. /\ fetches' = fs /\ Len(fetches) < MaxFetches
        /\ UNCHANGED <<server, link, page, sort, alerts, total, fresh, clicks, faults>>
    BY <1>4, <2>2 DEF Poll
  <2>5. Len(fs) <= MaxFetches
    BY <1>1, <2>3, <2>4
  <2>6. \A i \in DOMAIN fs: Due(fs[i], page, sort, stored)
    BY <1>2, <2>1, <2>3
  <2> QED  BY <2>3, <2>4, <2>5, <2>6, RequestsKeep
<1>5. CASE \E s \in 1..MaxFetches: Count(s)
  <2>1. PICK s \in DOMAIN fetches: Count(s)
    BY <1>5 DEF Count
  <2>2. PICK f: f = [at |-> "counted", page |-> fetches[s].page, sort |-> fetches[s].sort,
                     total |-> stored]
    OBVIOUS
  <2>3. /\ fetches' = [fetches EXCEPT ![s] = f]
        /\ UNCHANGED <<server, link, page, sort, alerts, total, fresh, clicks, faults>>
    BY <2>1, <2>2 DEF Count
  <2>4. f \in Fetch /\ Due(f, page, sort, stored)
    BY <1>1, <1>2, <2>2 DEF Due, Fetch
  <2> QED  BY <2>3, <2>4, AdvanceKeeps, RequestsKeep
<1>6. CASE \E s \in 1..MaxFetches: Select(s)
  <2>1. PICK s \in DOMAIN fetches: Select(s)
    BY <1>6 DEF Select
  <2>2. fetches[s].page = page /\ fetches[s].sort = sort /\ fetches[s].total \in 0..MaxAlerts
    BY <1>2, <1>3, <2>1 DEF Due, Fetch, Select
  <2>3. PICK f: f = [at |-> "answered", page |-> page, sort |-> sort,
                     total |-> fetches[s].total, items |-> Items(page, sort, stored)]
    OBVIOUS
  <2>4. /\ fetches' = [fetches EXCEPT ![s] = f]
        /\ UNCHANGED <<server, link, page, sort, alerts, total, fresh, clicks, faults>>
    BY <2>1, <2>2, <2>3 DEF Select
  <2>5. f \in Fetch
    <3>1. Items(page, sort, stored) \in Shown
      BY <1>1, ItemsProperties
    <3> QED  BY <1>1, <2>2, <2>3, <3>1 DEF Fetch
  <2>6. Due(f, page, sort, stored)
    BY <1>1, <2>3 DEF Due
  <2> QED  BY <2>4, <2>5, <2>6, AdvanceKeeps, RequestsKeep
<1>7. CASE \E s \in 1..MaxFetches: FetchFails(s)
  <2>1. PICK s \in DOMAIN fetches: FetchFails(s)
    BY <1>7 DEF FetchFails
  <2>2. PICK fs \in Seq(Fetch):
          /\ fs = RemoveAt(fetches, s) /\ Len(fs) <= Len(fetches)
          /\ \A i \in DOMAIN fs: \E j \in DOMAIN fetches: fs[i] = fetches[j]
    BY <1>1, RemoveRequest
  <2>3. /\ fetches' = fs /\ Fault
        /\ UNCHANGED <<server, link, page, sort, alerts, total, fresh, clicks>>
    BY <2>1, <2>2 DEF FetchFails
  <2>4. Len(fs) <= MaxFetches
    <3>1. Len(fs) \in Nat
      BY LenProperties
    <3> QED  BY <1>1, <2>2, <3>1
  <2>5. \A i \in DOMAIN fs: Due(fs[i], page, sort, stored)
    BY <1>2, <2>2
  <2> QED  BY <2>3, <2>4, <2>5, RequestsKeep
<1> QED  BY <1>4, <1>5, <1>6, <1>7

LEMMA ScreenStep == ScreenInv /\ [Next]_vars => ScreenInv'
<1> SUFFICES ASSUME ScreenInv, [Next]_vars  PROVE ScreenInv'
  OBVIOUS
<1>1. page \in Nat \ {0} /\ sort \in Sorts
  BY DEF ScreenInv, TypeOK
<1>2. CASE NextPage
  BY <1>1, <1>2, ClickKeeps DEF NextPage
<1>3. CASE Previous
  <2>1. page - 1 \in Nat \ {0} /\ Click(page - 1, sort)
    BY <1>1, <1>3 DEF Previous
  <2> QED  BY <1>1, <2>1, ClickKeeps
<1>4. CASE Sort
  <2>1. PICK s \in Sorts: Click(1, s)
    BY <1>4 DEF Sort
  <2> QED  BY <2>1, ClickKeeps
<1>5. CASE UNCHANGED vars
  <2>1. UNCHANGED <<stored, publishing, bridge, wire, socket, page, sort, alerts, total,
                    fetches, fresh, clicks, faults>>
    BY <1>5 DEF vars, server, link, view
  <2>2. TypeOK' /\ NoTwice'
    BY <2>1 DEF ScreenInv, TypeOK, NoTwice
  <2>3. Awaited' /\ OwnView'
    BY <2>1 DEF ScreenInv, Awaited, OwnView, Offset
  <2> QED  BY <2>2, <2>3 DEF ScreenInv
<1> QED  BY <1>2, <1>3, <1>4, <1>5, OutsideKeeps, ReceiveKeeps, ArriveKeeps, RequestSteps
         DEF Next

\* The state of the page has its type.
THEOREM ScreenTypes == Spec => []TypeOK
<1>1. ScreenInv => TypeOK
  BY DEF ScreenInv
<1> QED  BY <1>1, ScreenInit, ScreenStep, PTL DEF Spec

\* However pushes (handleAlertMessage) and polls (fetchAlertPage) fall, no alert is
\* in the list twice.
THEOREM NothingIsListedTwice == Spec => []NoTwice
<1>1. ScreenInv => NoTwice
  BY DEF ScreenInv
<1> QED  BY <1>1, ScreenInit, ScreenStep, PTL DEF Spec

\* The list holds alerts of the view alone once an answer was shown for it.
THEOREM ViewsAreTheirOwn == Spec => []OwnView
<1>1. ScreenInv => OwnView
  BY DEF ScreenInv
<1> QED  BY <1>1, ScreenInit, ScreenStep, PTL DEF Spec

----------------------------------------------------------------------------
(* What leaves the first page                                              *)

Leaving ==
  NewestFirst /\ NewestFirst' =>
    \A a \in ToSet(alerts) \ ToSet(alerts'):
      \/ Len(alerts') = PageSize /\ (Receive \/ \A b \in ToSet(alerts'): b > a)
      \/ \E s \in DOMAIN fetches: Arrive(s) /\ \A b \in ToSet(fetches[s].items): b < a

LEMMA LeavingStep == ScreenInv /\ [Next]_vars => Leaving
<1> SUFFICES ASSUME ScreenInv, [Next]_vars, NewestFirst, NewestFirst',
                    NEW a \in ToSet(alerts) \ ToSet(alerts')
             PROVE  \/ Len(alerts') = PageSize /\ (Receive \/ \A b \in ToSet(alerts'): b > a)
                    \/ \E s \in DOMAIN fetches:
                         Arrive(s) /\ \A b \in ToSet(fetches[s].items): b < a
  BY DEF Leaving
<1>1. /\ TypeOK /\ NoTwice /\ alerts \in Shown /\ page = 1 /\ sort = "timestamp_desc"
      /\ 1 \in Nat \ {0} /\ "timestamp_desc" \in Sorts
  BY DEF ScreenInv, TypeOK, NewestFirst, Sorts
<1>2. a \in Nat /\ a # 0
  <2>1. alerts \in Seq(Alerts)
    BY <1>1, ShownLists
  <2>2. \A i \in DOMAIN alerts: alerts[i] \in Alerts
    BY <2>1, ElementOfSeq, LenProperties
  <2>3. a \in Alerts
    BY <2>2 DEF ToSet
  <2> QED  BY <2>3, ScreenAssumption DEF Alerts
<1>3. alerts' # alerts
  OBVIOUS
<1>4. CASE Receive
  <2>1. Head(wire) \in Alerts
    <3>1. wire \in Seq(1..stored) /\ wire # <<>> /\ stored \in 0..MaxAlerts
      BY <1>1, <1>4 DEF TypeOK, Receive
    <3>2. Head(wire) \in 1..stored
      BY <3>1, HeadTailProperties
    <3> QED  BY <3>1, <3>2, ScreenAssumption DEF Alerts
  <2>2. alerts' = WithNew(Head(wire))
    BY <1>1, <1>4 DEF Receive, Render
  <2>3. \A x \in ToSet(alerts) \ ToSet(WithNew(Head(wire))): Len(WithNew(Head(wire))) = PageSize
    BY <1>1, <2>1, WithNewProperties
  <2> QED  BY <1>4, <2>2, <2>3
<1>5. CASE \E s \in 1..MaxFetches: Arrive(s)
  <2>1. PICK s \in DOMAIN fetches: Arrive(s) /\ fetches[s].at = "answered"
    BY <1>5 DEF Arrive
  <2>2. PICK n \in 0..stored: n \in 0..MaxAlerts /\ fetches[s].items = Items(page, sort, n)
    BY <2>1, AnswerProperties
  <2>3. PICK q: q = fetches[s].items
    OBVIOUS
  <2>4. alerts' = q /\ a \notin ToSet(q)
    BY <2>1, <2>3 DEF Arrive, Render
  <2>5. /\ \A b \in ToSet(q): b \in Nat /\ Belongs(b, page, sort, n)
        /\ \A x \in 1..n: x \notin ToSet(q) =>
             Len(q) = PageSize /\ \A b \in ToSet(q): b > x
    BY <1>1, <2>2, <2>3, ItemsProperties
  <2>6. n \in Nat
    OBVIOUS
  <2>7. CASE a <= n
    BY <1>2, <2>4, <2>5, <2>6, <2>7
  <2>8. CASE ~(a <= n)
    <3>1. \A b \in ToSet(q): b <= n
      BY <1>1, <2>5, <2>6, OffsetProperties DEF Belongs
    <3>2. \A b \in ToSet(q): b < a
      BY <1>2, <2>5, <2>6, <2>8, <3>1
    <3> QED  BY <2>1, <2>3, <3>2
  <2> QED  BY <2>7, <2>8
<1>6. Receive \/ \E s \in 1..MaxFetches: Arrive(s)
  BY <1>3 DEF Next, Store, Publish, PublishFails, BridgeFails, Subscribe, SocketOpens,
     SocketCloses, Reconnect, Poll, Count, Select, FetchFails, NextPage, Previous, Sort, Click,
     vars, view
<1> QED  BY <1>4, <1>5, <1>6

\* On the first page, newest first, an alert only makes room for others on a full
\* page, or goes with an answer that was selected before it was stored.
THEOREM AlertsLeaveForAReason == Spec => LeavesListFor
<1>1. ScreenInv /\ [Next]_vars =>
        [NewestFirst /\ NewestFirst' =>
           \A a \in ToSet(alerts) \ ToSet(alerts'):
             \/ Len(alerts') = PageSize /\ (Receive \/ \A b \in ToSet(alerts'): b > a)
             \/ \E s \in DOMAIN fetches: Arrive(s) /\ \A b \in ToSet(fetches[s].items): b < a]_vars
  BY LeavingStep DEF Leaving
<1> QED  BY <1>1, ScreenInit, ScreenStep, PTL DEF Spec, LeavesListFor
=============================================================================
