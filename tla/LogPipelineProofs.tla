------------------------- MODULE LogPipelineProofs -------------------------
(***************************************************************************)
(* Machine-checked proofs about LogPipeline, and that it implements        *)
(* LogDelivery.                                                            *)
(***************************************************************************)
EXTENDS LogRefinement, SequenceTheorems, TLAPS

----------------------------------------------------------------------------
(* The operations on the Redis lists                                       *)

\* LPUSH adds the message and keeps the others.
LEMMA PushProperties ==
  ASSUME NEW s \in Seq(Message), NEW m \in Message
  PROVE  /\ Append(s, m) \in Seq(Message)
         /\ \A l: HasLog(Append(s, m), l) <=> HasLog(s, l) \/ m.log = l
<1>1. /\ Append(s, m) \in Seq(Message)
      /\ Len(Append(s, m)) = Len(s) + 1 /\ Len(s) \in Nat
      /\ \A i \in 1..Len(s): Append(s, m)[i] = s[i]
      /\ Append(s, m)[Len(s) + 1] = m
      /\ DOMAIN s = 1..Len(s) /\ DOMAIN Append(s, m) = 1..(Len(s) + 1)
  BY AppendProperties, LenProperties
<1> QED  BY <1>1 DEF HasLog

\* Popping takes the message at the head and keeps the others.
LEMMA PopProperties ==
  ASSUME NEW s \in Seq(Message), s # <<>>
  PROVE  /\ Head(s) \in Message /\ Tail(s) \in Seq(Message)
         /\ \A l: HasLog(s, l) <=> HasLog(Tail(s), l) \/ Head(s).log = l
<1>1. /\ Head(s) \in Message /\ Tail(s) \in Seq(Message) /\ Head(s) = s[1]
      /\ Len(s) \in Nat \ {0} /\ Len(Tail(s)) = Len(s) - 1
      /\ \A i \in 1..Len(Tail(s)): Tail(s)[i] = s[i + 1]
      /\ DOMAIN s = 1..Len(s) /\ DOMAIN Tail(s) = 1..(Len(s) - 1)
  BY HeadTailProperties, LenProperties, EmptySeq
<1>2. ASSUME NEW l, HasLog(s, l), Head(s).log # l  PROVE HasLog(Tail(s), l)
  <2>1. PICK i \in 1..Len(s): s[i].log = l
    BY <1>1, <1>2 DEF HasLog
  <2>2. i - 1 \in 1..Len(Tail(s)) /\ Tail(s)[i - 1] = s[i]
    BY <1>1, <1>2, <2>1
  <2> QED  BY <1>1, <2>1, <2>2 DEF HasLog
<1>3. ASSUME NEW l, HasLog(Tail(s), l)  PROVE HasLog(s, l)
  <2>1. PICK i \in 1..Len(Tail(s)): Tail(s)[i].log = l
    BY <1>1, <1>3 DEF HasLog
  <2>2. i + 1 \in DOMAIN s /\ s[i + 1].log = l
    BY <1>1, <2>1
  <2> QED  BY <2>2 DEF HasLog
<1>4. 1 \in DOMAIN s /\ s[1] = Head(s)
  BY <1>1
<1> QED  BY <1>1, <1>2, <1>3, <1>4 DEF HasLog

\* Removing the entry at position k shifts the later ones down.
LEMMA RemoveAtProperties ==
  ASSUME NEW s \in Seq(Message), NEW k \in 1..Len(s)
  PROVE  /\ RemoveAt(s, k) \in Seq(Message)
         /\ DOMAIN RemoveAt(s, k) = 1..(Len(s) - 1)
         /\ \A i \in 1..(k - 1): RemoveAt(s, k)[i] = s[i]
         /\ \A i \in k..(Len(s) - 1): RemoveAt(s, k)[i] = s[i + 1]
<1> DEFINE n == Len(s)
           a == SubSeq(s, 1, k - 1)
           b == SubSeq(s, k + 1, n)
<1>1. n \in Nat /\ k \in Int /\ 1 <= k /\ k <= n /\ \A i \in 1..n: s[i] \in Message
  BY LenProperties, ElementOfSeq
<1> HIDE DEF n
<1>2. /\ a \in Seq(Message) /\ Len(a) = k - 1
      /\ \A i \in 1..(k - 1): a[i] = s[i]
  <2>1. k - 1 \in Int /\ \A i \in 1..(k - 1): s[i] \in Message
    BY <1>1
  <2>2. /\ a \in Seq(Message) /\ Len(a) = (IF 1 <= k - 1 THEN (k - 1) - 1 + 1 ELSE 0)
        /\ \A i \in 1..((k - 1) - 1 + 1): a[i] = s[1 + i - 1]
    BY <2>1, SubSeqProperties
  <2> HIDE DEF a
  <2> QED  BY <1>1, <2>2
<1>3. /\ b \in Seq(Message) /\ Len(b) = n - k
      /\ \A i \in 1..(n - k): b[i] = s[k + i]
  <2>1. k + 1 \in Int /\ n \in Int /\ \A i \in (k + 1)..n: s[i] \in Message
    BY <1>1
  <2>2. /\ b \in Seq(Message) /\ Len(b) = (IF k + 1 <= n THEN n - (k + 1) + 1 ELSE 0)
        /\ \A i \in 1..(n - (k + 1) + 1): b[i] = s[(k + 1) + i - 1]
    BY <2>1, SubSeqProperties
  <2> HIDE DEF b
  <2> QED  BY <1>1, <2>2
<1>4. RemoveAt(s, k) = a \o b
  BY DEF RemoveAt, n
<1> HIDE DEF a, b
<1>5. /\ a \o b \in Seq(Message) /\ Len(a \o b) = n - 1
      /\ DOMAIN (a \o b) = 1..Len(a \o b)
      /\ \A i \in 1..(Len(a) + Len(b)):
           (a \o b)[i] = IF i <= Len(a) THEN a[i] ELSE b[i - Len(a)]
  <2>1. a \in Seq(Message) /\ b \in Seq(Message)
    BY <1>2, <1>3
  <2>2. /\ a \o b \in Seq(Message) /\ Len(a \o b) = Len(a) + Len(b)
        /\ \A i \in 1..(Len(a) + Len(b)):
             (a \o b)[i] = IF i <= Len(a) THEN a[i] ELSE b[i - Len(a)]
    BY <2>1, ConcatProperties
  <2>3. DOMAIN (a \o b) = 1..Len(a \o b)
    BY <2>2, LenProperties
  <2>4. Len(a \o b) = n - 1
    BY <1>1, <1>2, <1>3, <2>2
  <2> QED  BY <2>2, <2>3, <2>4
<1>6. ASSUME NEW i \in 1..(k - 1)  PROVE (a \o b)[i] = s[i]
  BY <1>1, <1>2, <1>3, <1>5
<1>7. ASSUME NEW i \in k..(n - 1)  PROVE (a \o b)[i] = s[i + 1]
  <2>1. i \in 1..(Len(a) + Len(b)) /\ ~(i <= Len(a)) /\ i - Len(a) \in 1..(n - k)
    BY <1>1, <1>2, <1>3
  <2>2. k + (i - Len(a)) = i + 1
    BY <1>1, <1>2
  <2> QED  BY <1>3, <1>5, <2>1, <2>2
<1> QED  BY <1>4, <1>5, <1>6, <1>7 DEF n

\* LREM drops one entry equal to e and keeps the others.
LEMMA RemProperties ==
  ASSUME NEW s \in Seq(Message), NEW e
  PROVE  /\ LRem(s, e) \in Seq(Message)
         /\ \A l: HasLog(s, l) => HasLog(LRem(s, e), l) \/ l = e.log
         /\ \A i \in DOMAIN LRem(s, e): \E j \in DOMAIN s: LRem(s, e)[i] = s[j]
<1>1. CASE ~ \E i \in DOMAIN s: s[i] = e
  BY <1>1 DEF LRem
<1>2. CASE \E i \in DOMAIN s: s[i] = e
  <2>1. PICK k \in DOMAIN s: s[k] = e /\ LRem(s, e) = RemoveAt(s, k)
    BY <1>2 DEF LRem
  <2>2. Len(s) \in Nat /\ DOMAIN s = 1..Len(s) /\ k \in 1..Len(s)
    BY <2>1, LenProperties
  <2> DEFINE t == RemoveAt(s, k)
  <2>3. /\ t \in Seq(Message) /\ DOMAIN t = 1..(Len(s) - 1)
        /\ \A i \in 1..(k - 1): t[i] = s[i]
        /\ \A i \in k..(Len(s) - 1): t[i] = s[i + 1]
    BY <2>2, RemoveAtProperties
  <2> HIDE DEF t
  <2>4. ASSUME NEW l, NEW i \in 1..Len(s), s[i].log = l, l # e.log  PROVE HasLog(t, l)
    <3>1. i < k \/ i > k
      BY <2>1, <2>2, <2>4
    <3>2. CASE i < k
      <4>1. i \in DOMAIN t /\ t[i] = s[i]
        BY <2>2, <2>3, <3>2
      <4> QED  BY <2>4, <4>1 DEF HasLog
    <3>3. CASE i > k
      <4>1. i - 1 \in DOMAIN t /\ t[i - 1] = s[i]
        BY <2>2, <2>3, <3>3
      <4> QED  BY <2>4, <4>1 DEF HasLog
    <3> QED  BY <3>1, <3>2, <3>3
  <2>5. ASSUME NEW i \in DOMAIN t  PROVE \E j \in DOMAIN s: t[i] = s[j]
    <3>1. CASE i < k
      <4>1. i \in DOMAIN s /\ t[i] = s[i]
        BY <2>2, <2>3, <2>5, <3>1
      <4> QED  BY <4>1
    <3>2. CASE i >= k
      <4>1. i + 1 \in DOMAIN s /\ t[i] = s[i + 1]
        BY <2>2, <2>3, <2>5, <3>2
      <4> QED  BY <4>1
    <3> QED  BY <2>2, <2>3, <2>5, <3>1, <3>2
  <2>6. \A l: HasLog(s, l) => HasLog(t, l) \/ l = e.log
    BY <2>2, <2>4 DEF HasLog
  <2> QED  BY <2>1, <2>3, <2>5, <2>6 DEF t
<1> QED  BY <1>1, <1>2

\* Time only turns fresh stamps into stale ones.
LEMMA AgeProperties ==
  ASSUME NEW s \in Seq(Message)
  PROVE  /\ AgedSeq(s) \in Seq(Message)
         /\ \A l: HasLog(AgedSeq(s), l) <=> HasLog(s, l)
         /\ \A i \in DOMAIN s: AgedSeq(s)[i] = Aged(s[i])
         /\ DOMAIN AgedSeq(s) = DOMAIN s
<1>1. \A m \in Message: Aged(m) \in Message /\ Aged(m).log = m.log /\ Aged(m).retry = m.retry
  BY DEF Message, Stamps, Aged
<1>2. DOMAIN s = 1..Len(s) /\ Len(s) \in Nat /\ \A i \in 1..Len(s): s[i] \in Message
  BY LenProperties, ElementOfSeq
<1>3. AgedSeq(s) = [i \in 1..Len(s) |-> Aged(s[i])]
  BY <1>2 DEF AgedSeq
<1>4. [i \in 1..Len(s) |-> Aged(s[i])] \in Seq(Message)
  BY <1>1, <1>2, IsASeq
<1> QED  BY <1>1, <1>2, <1>3, <1>4 DEF HasLog

\* LRANGE 0 -1 lists messages.
LEMMA RangeProperties ==
  ASSUME NEW s \in Seq(Message)
  PROVE  Reverse(s) \in Seq(Message)
<1>1. Len(s) \in Nat /\ \A i \in 1..Len(s): s[i] \in Message
  BY LenProperties, ElementOfSeq
<1>2. \A i \in 1..Len(s): s[(Len(s) - i) + 1] \in Message
  BY <1>1
<1> QED  BY <1>1, <1>2, IsASeq DEF Reverse
----------------------------------------------------------------------------
(* The inductive invariant                                                 *)

WithMessage == {"recoverPush", "sweepPush", "popped", "load", "check",
                "insert", "ack", "remove", "push"}

\* The worker has a message wherever it uses one.
CurTyped == wpc \in WithMessage => cur \in Message

\* A message is only in memory nowhere but in the two moves.
HandOnly == held = "hand" => wpc \in {"recoverPush", "remove", "push"}

\* A row stays as long as its handler runs, and for good once it was accepted.
RowPresent == \A l \in Logs:
  req[l] \in {"check", "push", "flag", "reject", "201"} => row[l] # "absent"

\* A log that was not submitted has no row, and the sweep has not seen it.
NewUntouched == \A l \in Logs: req[l] = "new" =>
  row[l] = "absent" /\ l \notin selected /\ l \notin flagged /\ ~(wpc = "sweepPush" /\ cur.log = l)

AlertsHandled == alerts \subseteq handled

\* A row that says enqueued = TRUE, or that a running handler or sweep is about
\* to make say so.
Owed(l) == /\ row[l] # "absent"
           /\ row[l] = "queued" \/ req[l] = "flag" \/ l \in flagged

\* What is acknowledged was handled, has another message, or is owed nothing.
AckEarned == wpc = "ack" /\ Owed(cur.log) =>
               cur.log \in handled \/ HasLog(mainQ, cur.log)

OwedAccounted == \A l \in Logs: Owed(l) => Accounted(l)

TypeInv == TypeOK /\ CurTyped /\ HandOnly
LossInv == /\ TypeInv /\ RowPresent /\ NewUntouched
           /\ AlertsHandled /\ AckEarned /\ OwedAccounted

----------------------------------------------------------------------------
(* Type correctness                                                        *)

LEMMA MessageForms ==
  /\ \A l \in Logs: NewMessage(l) \in Message /\ NewMessage(l).log = l
  /\ \A m \in Message:
       /\ m.log \in Logs /\ m # NoMsg
       /\ [m EXCEPT !.stamp = "fresh"] \in Message
       /\ [m EXCEPT !.stamp = "fresh"].log = m.log
       /\ Aged(m) \in Message /\ Aged(m).log = m.log
       /\ ~Exhausted(m.retry + 1) =>
            /\ [m EXCEPT !.retry = m.retry + 1] \in Message
            /\ [m EXCEPT !.retry = m.retry + 1].log = m.log
BY MaxRetriesAssumption, NoMsgAssumption
   DEF Message, NewMessage, Stamps, Aged, Exhausted

LEMMA CallTyped ==
  ASSUME TypeOK, NEW o, Call(o)
  PROVE  faults' \in 0..MaxFaults /\ crashes' \in 0..MaxCrashes
BY BoundsAssumption DEF TypeOK, Call

LEMMA TypeInit == Init => TypeInv
BY MaxRetriesAssumption, BoundsAssumption, EmptySeq
   DEF Init, TypeInv, TypeOK, CurTyped, HandOnly, Rows, RequestStates, WorkerStates, WithMessage

\* A handler leaves the worker alone; it may push the log's message.
LEMMA TypeHandlers ==
  ASSUME TypeInv, NEW l \in Logs, Persist(l) \/ Handler(l) \/ RequestDies(l)
  PROVE  TypeInv'
<1> USE DEF TypeInv, TypeOK, CurTyped, HandOnly, RequestOnly, sweep, history, Rows, RequestStates
<1>1. CASE Persist(l)
  BY <1>1, CallTyped DEF Persist
<1>2. CASE CheckDepth(l)
  BY <1>2, CallTyped DEF CheckDepth
<1>3. CASE PushLog(l)
  BY <1>3, CallTyped, PushProperties, MessageForms DEF PushLog
<1>4. CASE FlagLog(l)
  BY <1>4, CallTyped DEF FlagLog
<1>5. CASE RejectLog(l)
  BY <1>5, CallTyped DEF RejectLog
<1>6. CASE RequestDies(l)
  BY <1>6, BoundsAssumption DEF RequestDies
<1> QED  BY <1>1, <1>2, <1>3, <1>4, <1>5, <1>6 DEF Handler

\* Start-up: the recovery and the sweep.
LEMMA TypeStartup ==
  ASSUME TypeInv,
         \/ Start \/ RecoverSkip \/ RecoverRemove \/ RecoverPush
         \/ SelectUnqueued \/ (\E l \in Logs: SweepCheck(l)) \/ SweepPush \/ SweepCommit
  PROVE  TypeInv'
<1> USE DEF TypeInv, TypeOK, CurTyped, HandOnly, WithMessage, WorkerStates, WorkerOnly,
            pipeline, sweep, history, Halt
<1>0. <<>> \in Seq(Message)
  BY EmptySeq
<1>1. CASE Start
  BY <1>1, RangeProperties DEF Start
<1>2. CASE RecoverSkip
  BY <1>2, PopProperties DEF RecoverSkip
<1>3. CASE RecoverRemove
  <2>1. Head(todo) \in Message /\ Head(todo).log \in Logs /\ Tail(todo) \in Seq(Message)
    BY <1>3, PopProperties, MessageForms DEF RecoverRemove
  <2>2. LRem(procQ, Head(todo)) \in Seq(Message)
    BY RemProperties
  <2> QED  BY <1>0, <1>3, <2>1, <2>2, CallTyped DEF RecoverRemove
<1>4. CASE RecoverPush
  <2>1. cur \in Message /\ cur.log \in Logs /\ Append(mainQ, cur) \in Seq(Message)
    BY <1>4, PushProperties, MessageForms DEF RecoverPush
  <2> QED  BY <1>0, <1>4, <2>1, CallTyped DEF RecoverPush
<1>5. CASE SelectUnqueued
  BY <1>0, <1>5, CallTyped DEF SelectUnqueued
<1>6. CASE \E l \in Logs: SweepCheck(l)
  BY <1>6, CallTyped, MessageForms DEF SweepCheck
<1>7. CASE SweepPush
  <2>1. cur \in Message /\ cur.log \in Logs /\ Append(mainQ, cur) \in Seq(Message)
    BY <1>7, PushProperties, MessageForms DEF SweepPush
  <2> QED  BY <1>7, <2>1, CallTyped DEF SweepPush
<1>8. CASE SweepCommit
  BY <1>0, <1>8, CallTyped DEF SweepCommit, Rows
<1> QED  BY <1>1, <1>2, <1>3, <1>4, <1>5, <1>6, <1>7, <1>8

\* The main loop.
LEMMA TypeLoop ==
  ASSUME TypeInv,
         Dequeue \/ Tag \/ Load \/ Check \/ Insert \/ Ack \/ RetryRemove \/ RetryPush
  PROVE  TypeInv'
<1> USE DEF TypeInv, TypeOK, CurTyped, HandOnly, WithMessage, WorkerStates, WorkerOnly,
            pipeline, sweep, history, Rest, Escalate
<1>0. wpc \in WithMessage => cur \in Message /\ cur.log \in Logs
  BY MessageForms
<1>1. CASE Dequeue
  <2>1. /\ Head(mainQ) \in Message /\ Tail(mainQ) \in Seq(Message)
        /\ Append(procQ, Head(mainQ)) \in Seq(Message)
    BY <1>1, PopProperties, PushProperties DEF Dequeue
  <2> QED  BY <1>1, <2>1, CallTyped DEF Dequeue
<1>2. CASE Tag
  <2> DEFINE tagged == [cur EXCEPT !.stamp = "fresh"]
  <2>1. cur \in Message /\ cur.log \in Logs /\ tagged \in Message
    BY <1>0, <1>2, MessageForms DEF Tag
  <2>2. Append(LRem(procQ, cur), tagged) \in Seq(Message)
    BY <2>1, RemProperties, PushProperties
  <2>3. tries[cur.log] < MaxRetries => tries[cur.log] + 1 \in 0..MaxRetries
    BY <2>1, MaxRetriesAssumption
  <2> QED  BY <1>2, <2>1, <2>2, <2>3, CallTyped DEF Tag
<1>3. CASE Load
  BY <1>3, CallTyped DEF Load
<1>4. CASE Check
  BY <1>0, <1>4, CallTyped DEF Check
<1>5. CASE Insert
  BY <1>0, <1>5, CallTyped DEF Insert
<1>6. CASE Ack
  <2>1. LRem(procQ, cur) \in Seq(Message)
    BY RemProperties
  <2> QED  BY <1>6, <2>1, CallTyped DEF Ack
<1>7. CASE RetryRemove
  <2>1. LRem(procQ, cur) \in Seq(Message)
    BY RemProperties
  <2> QED  BY <1>0, <1>7, <2>1, CallTyped DEF RetryRemove
<1>8. CASE RetryPush
  <2> DEFINE retried == [cur EXCEPT !.retry = cur.retry + 1]
  <2>1. cur \in Message /\ cur.log \in Logs
    BY <1>0, <1>8 DEF RetryPush
  <2>2. ~Exhausted(cur.retry + 1) => Append(mainQ, retried) \in Seq(Message)
    BY ZenonT(40), <2>1, MessageForms, PushProperties
  <2> QED  BY <1>8, <2>1, <2>2, CallTyped DEF RetryPush
<1> QED  BY <1>1, <1>2, <1>3, <1>4, <1>5, <1>6, <1>7, <1>8

\* Crashes and time.
LEMMA TypeCrashAge ==
  ASSUME TypeInv, WorkerCrash \/ Age
  PROVE  TypeInv'
<1> USE DEF TypeInv, TypeOK, CurTyped, HandOnly, WithMessage, WorkerStates, WorkerOnly,
            pipeline, sweep, history
<1>1. CASE WorkerCrash
  <2>1. held = "hand" => cur.log \in Logs
    BY MessageForms
  <2> QED  BY <1>1, <2>1, EmptySeq, BoundsAssumption, MessageForms DEF WorkerCrash, Halt, Tear
<1>2. CASE Age
  <2>1. AgedSeq(mainQ) \in Seq(Message) /\ AgedSeq(procQ) \in Seq(Message)
    BY AgeProperties
  <2> QED  BY <1>2, <2>1, MessageForms DEF Age
<1> QED  BY <1>1, <1>2

LEMMA TypeStutter ==
  ASSUME TypeInv, UNCHANGED vars
  PROVE  TypeInv'
BY DEF TypeInv, TypeOK, CurTyped, HandOnly, vars, pipeline, sweep, history

LEMMA TypeStep == TypeInv /\ [Next]_vars => TypeInv'
BY TypeHandlers, TypeStartup, TypeLoop, TypeCrashAge, TypeStutter DEF Next, Worker

\* Every variable of the pipeline keeps its type, however the handlers, the
\* worker, its crashes and failing calls interleave.
THEOREM PipelineTypes == Spec => []TypeOK
<1>1. TypeInv => TypeOK
  BY DEF TypeInv
<1> QED  BY <1>1, TypeInit, TypeStep, PTL DEF Spec

----------------------------------------------------------------------------
(* No silent loss                                                          *)

LEMMA LossInit == Init => LossInv
BY TypeInit DEF Init, LossInv, RowPresent, NewUntouched, AlertsHandled, AckEarned,
                OwedAccounted, Owed

\* The handlers: a log becomes owed only once its message was pushed.
LEMMA LossHandlers ==
  ASSUME LossInv, NEW l \in Logs, Persist(l) \/ Handler(l) \/ RequestDies(l)
  PROVE  LossInv'
<1>0. TypeInv'
  BY TypeHandlers DEF LossInv
<1> USE DEF LossInv, RowPresent, NewUntouched, AlertsHandled, AckEarned, OwedAccounted,
            TypeInv, TypeOK, Owed, Accounted, Tracked, RequestOnly, sweep, history
<1>1. CASE Persist(l)
  <2>1. \A k \in Logs: row'[k] # row[k] =>
                k = l /\ row'[k] = "unqueued" /\ req'[k] # "flag" /\ k \notin flagged
    BY <1>1 DEF Persist
  <2>2. \A k \in Logs: req'[k] # req[k] =>
                /\ k = l /\ req'[k] \in {"check", "500"}
                /\ req'[k] = "check" => row'[k] = "unqueued"
    BY <1>1 DEF Persist, Applied, Raised
  <2>3. AckEarned'
    BY <1>1, <2>1, <2>2 DEF Persist
  <2> QED  BY <1>0, <1>1, <2>1, <2>2, <2>3 DEF Persist
<1>2. CASE CheckDepth(l)
  BY <1>0, <1>2 DEF CheckDepth
<1>3. CASE PushLog(l)
  <2>1. \A k: /\ HasLog(mainQ, k) => HasLog(Append(mainQ, NewMessage(l)), k)
              /\ HasLog(Append(mainQ, NewMessage(l)), l)
    BY PushProperties, MessageForms
  <2>2. \A k: HasLog(mainQ, k) => HasLog(mainQ', k)
    BY <1>3, <2>1 DEF PushLog
  <2>3. req'[l] = "flag" => HasLog(mainQ', l)
    BY <1>3, <2>1 DEF PushLog, Applied, Raised
  <2> QED  BY <1>0, <1>3, <2>2, <2>3 DEF PushLog
<1>4. CASE FlagLog(l)
  BY <1>0, <1>4 DEF FlagLog
<1>5. CASE RejectLog(l)
  BY <1>0, <1>5 DEF RejectLog
<1>6. CASE RequestDies(l)
  BY <1>0, <1>6 DEF RequestDies
<1> QED  BY <1>1, <1>2, <1>3, <1>4, <1>5, <1>6 DEF Handler

\* Start-up: an entry that leaves the processing list is in hand or torn, and
\* the sweep flags a row only after its message was pushed.
LEMMA LossStartup ==
  ASSUME LossInv,
         \/ Start \/ RecoverSkip \/ RecoverRemove \/ RecoverPush
         \/ SelectUnqueued \/ (\E l \in Logs: SweepCheck(l)) \/ SweepPush \/ SweepCommit
  PROVE  LossInv'
<1>0. TypeInv'
  BY TypeStartup DEF LossInv
<1> USE DEF LossInv, RowPresent, NewUntouched, AlertsHandled, AckEarned, OwedAccounted,
            TypeInv, TypeOK, CurTyped, HandOnly, WithMessage, Owed, Accounted, Tracked,
            WorkerOnly, pipeline, sweep, history, Halt
<1>1. CASE Start
  BY <1>0, <1>1 DEF Start
<1>2. CASE RecoverSkip
  BY <1>0, <1>2 DEF RecoverSkip
<1>3. CASE RecoverRemove
  <2>1. \A k: HasLog(procQ, k) => HasLog(LRem(procQ, Head(todo)), k) \/ k = Head(todo).log
    BY RemProperties
  <2>2. \A k: HasLog(procQ, k) =>
              HasLog(procQ', k) \/ k \in torn' \/ (held' = "hand" /\ cur'.log = k)
    BY <1>3, <2>1 DEF RecoverRemove, Outcomes, Applied, Raised
  <2> QED  BY <1>0, <1>3, <2>2 DEF RecoverRemove
<1>4. CASE RecoverPush
  <2>1. \A k: HasLog(Append(mainQ, cur), k) <=> HasLog(mainQ, k) \/ cur.log = k
    BY <1>4, PushProperties DEF RecoverPush
  <2>2. \A k: HasLog(mainQ, k) \/ cur.log = k => HasLog(mainQ', k) \/ k \in torn'
    BY <1>4, <2>1 DEF RecoverPush
  <2> QED  BY <1>0, <1>4, <2>2 DEF RecoverPush
<1>5. CASE SelectUnqueued
  BY <1>0, <1>5 DEF SelectUnqueued
<1>6. CASE \E l \in Logs: SweepCheck(l)
  BY <1>0, <1>6, MessageForms DEF SweepCheck
<1>7. CASE SweepPush
  <2>1. \A k: HasLog(Append(mainQ, cur), k) <=> HasLog(mainQ, k) \/ cur.log = k
    BY <1>7, PushProperties DEF SweepPush
  <2>2. /\ \A k: HasLog(mainQ, k) => HasLog(mainQ', k)
        /\ \A k \in flagged' \ flagged: HasLog(mainQ', k)
    BY <1>7, <2>1 DEF SweepPush, Applied, Raised
  <2> QED  BY <1>0, <1>7, <2>2 DEF SweepPush
<1>8. CASE SweepCommit
  <2>1. \A k \in Logs: \/ row'[k] = row[k]
                       \/ row[k] # "absent" /\ row'[k] # "absent" /\ k \in flagged
    BY <1>8 DEF SweepCommit
  <2> QED  BY SMTT(20), <1>0, <1>8, <2>1 DEF SweepCommit
<1> QED  BY <1>1, <1>2, <1>3, <1>4, <1>5, <1>6, <1>7, <1>8

\* The main loop: a message is acknowledged only when its log was handled or is
\* owed nothing, and is in hand, pushed on or torn once it left the lists.
LEMMA LossLoop ==
  ASSUME LossInv,
         Dequeue \/ Tag \/ Load \/ Check \/ Insert \/ Ack \/ RetryRemove \/ RetryPush
  PROVE  LossInv'
<1>0. TypeInv'
  BY TypeLoop DEF LossInv
<1> USE DEF LossInv, RowPresent, NewUntouched, AlertsHandled, AckEarned, OwedAccounted,
            TypeInv, TypeOK, CurTyped, HandOnly, WithMessage, Owed, Accounted, Tracked,
            WorkerOnly, pipeline, sweep, history, Rest, Escalate
<1>1. CASE Dequeue
  <2>1. \A k: HasLog(mainQ, k) => HasLog(Tail(mainQ), k) \/ HasLog(Append(procQ, Head(mainQ)), k)
    BY <1>1, PopProperties, PushProperties DEF Dequeue
  <2>2. \A k: HasLog(procQ, k) => HasLog(Append(procQ, Head(mainQ)), k)
    BY <1>1, PopProperties, PushProperties DEF Dequeue
  <2> QED  BY <1>0, <1>1, <2>1, <2>2 DEF Dequeue
<1>2. CASE Tag
  <2> DEFINE tagged == [cur EXCEPT !.stamp = "fresh"]
  <2>1. cur \in Message /\ tagged \in Message /\ tagged.log = cur.log
    BY <1>2, MessageForms DEF Tag
  <2>2. \A k: HasLog(procQ, k) => HasLog(Append(LRem(procQ, cur), tagged), k)
    <3> DEFINE s == LRem(procQ, cur)
    <3>1. s \in Seq(Message) /\ \A k: HasLog(procQ, k) => HasLog(s, k) \/ k = cur.log
      BY RemProperties
    <3> HIDE DEF s, tagged
    <3>2. \A k: HasLog(Append(s, tagged), k) <=> HasLog(s, k) \/ tagged.log = k
      BY <2>1, <3>1, PushProperties
    <3>3. \A k: HasLog(procQ, k) => HasLog(Append(s, tagged), k)
      BY <2>1, <3>1, <3>2
    <3> QED  BY <3>3 DEF s, tagged
  <2>3. \A k: HasLog(procQ, k) => HasLog(procQ', k)
    BY <1>2, <2>2 DEF Tag
  <2>4. /\ held # "hand" /\ wpc' # "ack" /\ wpc' # "sweepPush"
        /\ UNCHANGED <<row, req, mainQ, alerts, dlq, selected, flagged, handled, torn>>
    BY <1>2 DEF Tag
  <2> QED  BY <1>0, <2>3, <2>4
<1>3. CASE Load
  BY <1>0, <1>3 DEF Load
<1>4. CASE Check
  <2>1. wpc' = "ack" => cur'.log \in handled'
    BY <1>4 DEF Check
  <2> QED  BY <1>0, <1>4, <2>1 DEF Check
<1>5. CASE Insert
  <2>1. wpc' = "ack" => cur'.log \in handled' \/ row'[cur'.log] = "absent"
    BY <1>5 DEF Insert, Applied, Raised
  <2> QED  BY <1>0, <1>5, <2>1 DEF Insert
<1>6. CASE Ack
  <2>1. \A k: HasLog(procQ, k) => HasLog(LRem(procQ, cur), k) \/ k = cur.log
    BY RemProperties
  <2>2. \A k: HasLog(procQ, k) => HasLog(procQ', k) \/ k = cur.log
    BY <1>6, <2>1 DEF Ack
  <2>3. cur.log \in Logs
    BY <1>6, MessageForms DEF Ack
  <2> QED  BY <1>0, <1>6, <2>2, <2>3 DEF Ack
<1>7. CASE RetryRemove
  <2>1. \A k: HasLog(procQ, k) => HasLog(LRem(procQ, cur), k) \/ k = cur.log
    BY RemProperties
  <2>2. \A k: HasLog(procQ, k) \/ (held = "hand" /\ cur.log = k) =>
              HasLog(procQ', k) \/ k \in torn' \/ (held' = "hand" /\ cur'.log = k)
    BY <1>7, <2>1 DEF RetryRemove
  <2> QED  BY <1>0, <1>7, <2>2 DEF RetryRemove
<1>8. CASE RetryPush
  <2> DEFINE retried == [cur EXCEPT !.retry = cur.retry + 1]
  <2>1. cur \in Message
    BY <1>8 DEF RetryPush
  <2>2. ~Exhausted(cur.retry + 1) =>
          \A k: HasLog(Append(mainQ, retried), k) <=> HasLog(mainQ, k) \/ cur.log = k
    <3>1. SUFFICES ASSUME ~Exhausted(cur.retry + 1)
                   PROVE  \A k: HasLog(Append(mainQ, retried), k) <=>
                               HasLog(mainQ, k) \/ cur.log = k
      OBVIOUS
    <3>2. retried \in Message /\ retried.log = cur.log
      BY <2>1, <3>1, MessageForms
    <3> HIDE DEF retried
    <3> QED  BY <3>2, PushProperties
  <2>3. \A k: /\ HasLog(mainQ, k) => HasLog(mainQ', k)
              /\ held = "hand" /\ cur.log = k =>
                   \/ HasLog(mainQ', k) \/ k \in dlq' \/ k \in torn'
                   \/ (held' = "hand" /\ cur'.log = k)
    BY <1>8, <2>2 DEF RetryPush
  <2> QED  BY ZenonT(40), <1>0, <1>8, <2>3 DEF RetryPush
<1> QED  BY <1>1, <1>2, <1>3, <1>4, <1>5, <1>6, <1>7, <1>8

\* A crash tears the message that is only in hand; time moves no message.
LEMMA LossCrashAge ==
  ASSUME LossInv, WorkerCrash \/ Age
  PROVE  LossInv'
<1>0. TypeInv'
  BY TypeCrashAge DEF LossInv
<1> USE DEF LossInv, RowPresent, NewUntouched, AlertsHandled, AckEarned, OwedAccounted,
            TypeInv, TypeOK, CurTyped, HandOnly, WithMessage, Owed, Accounted, Tracked,
            WorkerOnly, pipeline, sweep, history
<1>1. CASE WorkerCrash
  BY <1>0, <1>1 DEF WorkerCrash, Halt, Tear
<1>2. CASE Age
  <2>1. \A k: /\ HasLog(mainQ', k) <=> HasLog(mainQ, k)
              /\ HasLog(procQ', k) <=> HasLog(procQ, k)
    BY <1>2, AgeProperties DEF Age
  <2>2. wpc \in WithMessage => cur'.log = cur.log
    BY <1>2, MessageForms DEF Age
  <2> QED  BY <1>0, <1>2, <2>1, <2>2 DEF Age
<1> QED  BY <1>1, <1>2

LEMMA LossStutter ==
  ASSUME LossInv, UNCHANGED vars
  PROVE  LossInv'
<1>0. TypeInv'
  BY TypeStutter DEF LossInv
<1> QED  BY <1>0 DEF LossInv, RowPresent, NewUntouched, AlertsHandled, AckEarned,
                     OwedAccounted, Owed, Accounted, Tracked, HasLog,
                     vars, pipeline, sweep, history

LEMMA LossStep == LossInv /\ [Next]_vars => LossInv'
BY LossHandlers, LossStartup, LossLoop, LossCrashAge, LossStutter DEF Next, Worker

\* An accepted log keeps its row, and every row with enqueued = TRUE has a
\* message, was handled or lost its message inside a two-step move, for any
\* number of logs, crashes and failing calls.
THEOREM PipelineLosesOnlyTorn == Spec => []NoSilentLoss
<1>1. LossInv => NoSilentLoss
  BY DEF LossInv, RowPresent, OwedAccounted, Owed, NoSilentLoss, TypeInv, TypeOK
<1> QED  BY <1>1, LossInit, LossStep, PTL DEF Spec

----------------------------------------------------------------------------
(* The dead letter is earned                                               *)

Entries(s) == {s[i]: i \in DOMAIN s}

\* Every message there is: in a list, in the recovery's copy, in the hand.
Messages == Entries(mainQ) \cup Entries(procQ) \cup Entries(todo) \cup ({cur} \ {NoMsg})

\* A message has been tried as often as it says, and its budget is not spent.
Backed(m) == m.retry < MaxRetries /\ m.retry <= tries[m.log]

\* While it is processed it has been tried once more.
TriedNow == wpc \in {"load", "check", "insert", "ack", "remove", "push"} =>
              cur.retry < tries[cur.log]

EarnInv == /\ TypeInv /\ TriedNow /\ DeadLetterEarned
           /\ \A m \in Messages: Backed(m)

\* The operations on the lists add at most the entry they are given.
LEMMA EntriesProperties ==
  ASSUME NEW s \in Seq(Message)
  PROVE  /\ Entries(s) \subseteq Message /\ Entries(<<>>) = {}
         /\ \A m \in Message: Entries(Append(s, m)) = Entries(s) \cup {m}
         /\ s # <<>> => Head(s) \in Entries(s) /\ Entries(Tail(s)) \subseteq Entries(s)
         /\ \A e: Entries(LRem(s, e)) \subseteq Entries(s)
         /\ Entries(Reverse(s)) \subseteq Entries(s)
         /\ Entries(AgedSeq(s)) = {Aged(m): m \in Entries(s)}
<1>1. Len(s) \in Nat /\ DOMAIN s = 1..Len(s) /\ \A i \in 1..Len(s): s[i] \in Message
  BY LenProperties, ElementOfSeq
<1>2. ASSUME NEW m \in Message  PROVE Entries(Append(s, m)) = Entries(s) \cup {m}
  <2>1. /\ DOMAIN Append(s, m) = 1..(Len(s) + 1)
        /\ \A i \in 1..Len(s): Append(s, m)[i] = s[i]
        /\ Append(s, m)[Len(s) + 1] = m
    BY AppendProperties, LenProperties
  <2> QED  BY <1>1, <2>1 DEF Entries
<1>3. ASSUME s # <<>>  PROVE Head(s) \in Entries(s) /\ Entries(Tail(s)) \subseteq Entries(s)
  <2>1. /\ Head(s) = s[1] /\ Len(s) > 0 /\ DOMAIN Tail(s) = 1..(Len(s) - 1)
        /\ \A i \in 1..(Len(s) - 1): Tail(s)[i] = s[i + 1]
    BY <1>3, HeadTailProperties, LenProperties, EmptySeq
  <2> QED  BY <1>1, <2>1 DEF Entries
<1>4. ASSUME NEW e  PROVE Entries(LRem(s, e)) \subseteq Entries(s)
  BY RemProperties DEF Entries
<1>5. Entries(Reverse(s)) \subseteq Entries(s)
  <2>1. /\ DOMAIN Reverse(s) = 1..Len(s)
        /\ \A i \in 1..Len(s): Reverse(s)[i] = s[(Len(s) - i) + 1]
    BY <1>1 DEF Reverse
  <2> QED  BY <1>1, <2>1 DEF Entries
<1>6. Entries(AgedSeq(s)) = {Aged(m): m \in Entries(s)}
  <2>1. DOMAIN AgedSeq(s) = DOMAIN s /\ \A i \in DOMAIN s: AgedSeq(s)[i] = Aged(s[i])
    BY AgeProperties
  <2>2. Entries(AgedSeq(s)) = {Aged(s[i]): i \in DOMAIN s}
    BY <2>1 DEF Entries
  <2>3. {Aged(s[i]): i \in DOMAIN s} = {Aged(m): m \in Entries(s)}
    BY Zenon DEF Entries
  <2> QED  BY <2>2, <2>3
<1>7. Entries(<<>>) = {} /\ Entries(s) \subseteq Message
  BY <1>1 DEF Entries
<1> QED  BY <1>2, <1>3, <1>4, <1>5, <1>6, <1>7

LEMMA EarnInit == Init => EarnInv
BY TypeInit, EntriesProperties, EmptySeq
   DEF Init, EarnInv, TriedNow, DeadLetterEarned, Messages, Entries

\* A step that only moves messages, or adds one that was never tried, keeps the
\* invariant, as long as no attempt is forgotten.
LEMMA EarnMove ==
  ASSUME EarnInv, TypeInv', TriedNow', dlq' = dlq, tries' = tries,
         \A m \in Messages': m \in Messages \/ (m \in Message /\ m.retry = 0)
  PROVE  EarnInv'
<1>1. \A m \in Message: m.log \in Logs
  BY MessageForms
<1>2. ASSUME NEW m \in Messages'  PROVE Backed(m)'
  BY <1>1, <1>2, MaxRetriesAssumption DEF EarnInv, Backed, TypeInv, TypeOK
<1> QED  BY <1>2 DEF EarnInv, DeadLetterEarned

LEMMA EarnHandlers ==
  ASSUME EarnInv, NEW l \in Logs, Persist(l) \/ Handler(l) \/ RequestDies(l)
  PROVE  EarnInv'
<1>1. TypeInv'
  BY TypeHandlers DEF EarnInv
<1>2. UNCHANGED <<procQ, todo, cur, dlq, tries, wpc>>
  BY DEF Persist, Handler, CheckDepth, PushLog, FlagLog, RejectLog, RequestDies,
         RequestOnly, history
<1>3. mainQ' = mainQ \/ mainQ' = Append(mainQ, NewMessage(l))
  BY DEF Persist, Handler, CheckDepth, PushLog, FlagLog, RejectLog, RequestDies, RequestOnly
<1>4. mainQ \in Seq(Message) /\ NewMessage(l) \in Message /\ NewMessage(l).retry = 0
  BY MessageForms DEF EarnInv, TypeInv, TypeOK, NewMessage
<1>5. Entries(mainQ') \subseteq Entries(mainQ) \cup {NewMessage(l)}
  <2>1. Entries(Append(mainQ, NewMessage(l))) = Entries(mainQ) \cup {NewMessage(l)}
    BY <1>4, EntriesProperties
  <2> QED  BY <1>3, <2>1
<1>6. \A m \in Messages': m \in Messages \/ (m \in Message /\ m.retry = 0)
  BY <1>2, <1>4, <1>5 DEF Messages
<1>7. TriedNow'
  BY <1>2 DEF EarnInv, TriedNow
<1> QED  BY <1>1, <1>2, <1>6, <1>7, EarnMove

\* Start-up: messages come back as they were, and the sweep adds new ones.
LEMMA EarnStartup ==
  ASSUME EarnInv,
         \/ Start \/ RecoverSkip \/ RecoverRemove \/ RecoverPush
         \/ SelectUnqueued \/ (\E l \in Logs: SweepCheck(l)) \/ SweepPush \/ SweepCommit
  PROVE  EarnInv'
<1>0. TypeInv'
  BY TypeStartup DEF EarnInv
<1> USE DEF WorkerOnly, pipeline, history, Halt
<1>1. UNCHANGED <<dlq, tries>>
  BY DEF Start, RecoverSkip, RecoverRemove, RecoverPush, SelectUnqueued, SweepCheck,
         SweepPush, SweepCommit
<1>2. TriedNow'
  BY DEF TriedNow, Start, RecoverSkip, RecoverRemove, RecoverPush, SelectUnqueued,
         SweepCheck, SweepPush, SweepCommit
<1>3. mainQ \in Seq(Message) /\ procQ \in Seq(Message) /\ todo \in Seq(Message)
  BY DEF EarnInv, TypeInv, TypeOK
<1>4. \A m \in Messages': m \in Messages \/ (m \in Message /\ m.retry = 0)
  <2>1. CASE Start
    BY <1>3, <2>1, EntriesProperties DEF Start, Messages
  <2>2. CASE RecoverSkip
    BY <1>3, <2>2, EntriesProperties DEF RecoverSkip, Messages
  <2>3. CASE RecoverRemove
    <3>1. Entries(LRem(procQ, Head(todo))) \subseteq Entries(procQ)
      BY <1>3, EntriesProperties
    <3>2. Entries(procQ') \subseteq Entries(procQ) /\ mainQ' = mainQ
      BY <2>3, <3>1 DEF RecoverRemove
    <3>3. /\ Entries(todo') \subseteq Entries(todo)
          /\ cur' \in {NoMsg} \cup Entries(todo)
      <4>1. /\ Head(todo) \in Entries(todo) /\ Entries(Tail(todo)) \subseteq Entries(todo)
            /\ Entries(<<>>) = {}
        BY <1>3, <2>3, EntriesProperties DEF RecoverRemove
      <4> QED  BY <2>3, <4>1 DEF RecoverRemove
    <3> QED  BY <3>2, <3>3 DEF Messages
  <2>4. CASE RecoverPush \/ SweepPush
    <3>1. cur \in Message /\ cur # NoMsg /\ (mainQ' = mainQ \/ mainQ' = Append(mainQ, cur))
      BY <2>4, MessageForms DEF RecoverPush, SweepPush, EarnInv, TypeInv, CurTyped, WithMessage
    <3>2. Entries(mainQ') \subseteq Messages
      <4>1. Entries(Append(mainQ, cur)) = Entries(mainQ) \cup {cur}
        BY <1>3, <3>1, EntriesProperties
      <4> QED  BY <3>1, <4>1 DEF Messages
    <3> QED  BY <1>3, <2>4, <3>2, EntriesProperties DEF RecoverPush, SweepPush, Messages
  <2>5. CASE SelectUnqueued \/ SweepCommit
    BY <1>3, <2>5, EntriesProperties DEF SelectUnqueued, SweepCommit, Messages
  <2>6. ASSUME NEW l \in Logs, SweepCheck(l)
        PROVE  \A m \in Messages': m \in Messages \/ (m \in Message /\ m.retry = 0)
    <3>1. NewMessage(l) \in Message /\ NewMessage(l).retry = 0
      BY MessageForms DEF NewMessage
    <3> QED  BY <2>6, <3>1 DEF SweepCheck, Messages
  <2> QED  BY <2>1, <2>2, <2>3, <2>4, <2>5, <2>6
<1> QED  BY <1>0, <1>1, <1>2, <1>4, EarnMove

\* The steps of the loop that neither count an attempt nor a retry.
LEMMA EarnLoop ==
  ASSUME EarnInv, Dequeue \/ Load \/ Check \/ Insert \/ Ack \/ RetryRemove
  PROVE  EarnInv'
<1>0. TypeInv'
  BY TypeLoop DEF EarnInv
<1> USE DEF WorkerOnly, pipeline, history, Rest, Escalate
<1>1. UNCHANGED <<dlq, tries>>
  BY DEF Dequeue, Load, Check, Insert, Ack, RetryRemove
<1>2. TriedNow'
  BY DEF EarnInv, TriedNow, Dequeue, Load, Check, Insert, Ack, RetryRemove
<1>3. mainQ \in Seq(Message) /\ procQ \in Seq(Message) /\ todo \in Seq(Message)
  BY DEF EarnInv, TypeInv, TypeOK
<1>4. Messages' \subseteq Messages
  <2>1. CASE Dequeue
    <3>1. Head(mainQ) \in Message
      BY <1>3, <2>1, PopProperties DEF Dequeue
    <3>2. /\ Entries(mainQ') \cup Entries(procQ') \subseteq Messages
          /\ Head(mainQ) \in Messages /\ todo' = todo
          /\ cur' = cur \/ cur' = Head(mainQ)
      BY <1>3, <2>1, <3>1, EntriesProperties DEF Dequeue, Messages
    <3> QED  BY <3>2 DEF Messages
  <2>2. CASE Load \/ Check \/ Insert
    BY <2>2 DEF Load, Check, Insert, Messages
  <2>3. CASE Ack \/ RetryRemove
    BY <1>3, <2>3, EntriesProperties DEF Ack, RetryRemove, Messages
  <2> QED  BY <2>1, <2>2, <2>3
<1> QED  BY <1>0, <1>1, <1>2, <1>4, EarnMove

\* The worker begins to process the message: an attempt is counted.
LEMMA EarnTag ==
  ASSUME EarnInv, Tag
  PROVE  EarnInv'
<1> DEFINE tagged == [cur EXCEPT !.stamp = "fresh"]
<1>0. TypeInv'
  BY TypeLoop DEF EarnInv
<1>1. /\ cur \in Message /\ cur.log \in Logs /\ cur.retry \in Nat
      /\ tagged \in Message /\ tagged.log = cur.log /\ tagged.retry = cur.retry
  <2>1. cur \in Message
    BY DEF Tag, EarnInv, TypeInv, CurTyped, WithMessage
  <2> QED  BY <2>1 DEF Message, Stamps
<1>2. procQ \in Seq(Message) /\ LRem(procQ, cur) \in Seq(Message)
  BY RemProperties DEF EarnInv, TypeInv, TypeOK
<1> HIDE DEF tagged
<1>3. /\ cur \in Messages
      /\ Messages' \subseteq Messages \cup {tagged}
  <2>1. Entries(procQ') \subseteq Entries(procQ) \cup {tagged}
    <3>1. Entries(Append(LRem(procQ, cur), tagged)) \subseteq Entries(procQ) \cup {tagged}
      BY <1>1, <1>2, EntriesProperties
    <3> QED  BY <3>1 DEF Tag, tagged
  <2>2. mainQ' = mainQ /\ todo' = todo /\ cur' \in {NoMsg, tagged}
    BY DEF Tag, Rest, tagged
  <2>3. cur # NoMsg
    BY <1>1, MessageForms
  <2> QED  BY <2>1, <2>2, <2>3 DEF Messages
<1>4. /\ \A k \in Logs: /\ tries[k] \in 0..MaxRetries /\ tries'[k] \in 0..MaxRetries
                        /\ tries'[k] >= tries[k]
      /\ wpc' = "load" => cur' = tagged /\
           (tries'[cur.log] = tries[cur.log] + 1 \/ tries[cur.log] = MaxRetries)
      /\ wpc' \in {"idle", "load"} /\ dlq' = dlq
  <2>1. tries \in [Logs -> 0..MaxRetries]
    BY DEF EarnInv, TypeInv, TypeOK
  <2> QED  BY <1>1, <2>1, MaxRetriesAssumption DEF Tag, Rest, history, tagged
<1>5. Backed(cur) /\ Backed(tagged)
  BY <1>1, <1>3 DEF EarnInv, Backed
<1>6. ASSUME NEW m \in Messages'  PROVE Backed(m)'
  <2>1. Backed(m) /\ m \in Message /\ m.log \in Logs /\ m.retry \in Nat
    <3>1. mainQ \in Seq(Message) /\ todo \in Seq(Message)
      BY DEF EarnInv, TypeInv, TypeOK
    <3>2. Messages \subseteq Message
      BY <1>1, <1>2, <3>1, EntriesProperties DEF Messages
    <3>3. m \in Message /\ Backed(m)
      BY <1>1, <1>3, <1>5, <1>6, <3>2 DEF EarnInv
    <3> QED  BY <3>3 DEF Message
  <2> QED  BY <1>4, <2>1, MaxRetriesAssumption DEF Backed
<1>7. TriedNow'
  BY <1>1, <1>4, <1>5, MaxRetriesAssumption DEF TriedNow, Backed
<1>8. DeadLetterEarned'
  BY <1>4, MaxRetriesAssumption DEF EarnInv, DeadLetterEarned, TypeInv, TypeOK
<1> QED  BY <1>0, <1>6, <1>7, <1>8 DEF EarnInv

\* retry_or_dlq counts a retry, or buries a message that was tried as often as
\* its budget says.
LEMMA EarnRetryPush ==
  ASSUME EarnInv, RetryPush
  PROVE  EarnInv'
<1> DEFINE retried == [cur EXCEPT !.retry = cur.retry + 1]
<1>0. TypeInv'
  BY TypeLoop DEF EarnInv
<1>1. /\ cur \in Message /\ cur # NoMsg /\ cur.log \in Logs /\ cur.retry \in Nat
      /\ tries[cur.log] \in 0..MaxRetries /\ cur.retry < tries[cur.log]
  <2>1. cur \in Message /\ cur.retry < tries[cur.log] /\ tries \in [Logs -> 0..MaxRetries]
    BY DEF RetryPush, EarnInv, TypeInv, TypeOK, TriedNow, CurTyped, WithMessage
  <2>2. cur.log \in Logs /\ cur.retry \in Nat /\ cur # NoMsg
    <3>1. cur.log \in Logs /\ cur # NoMsg
      BY <2>1, MessageForms
    <3> QED  BY <2>1, <3>1, MaxRetriesAssumption DEF Message
  <2> QED  BY <2>1, <2>2
<1>2. ASSUME ~Exhausted(cur.retry + 1)
      PROVE  retried \in Message /\ retried.log = cur.log /\ retried.retry = cur.retry + 1
  BY <1>1, <1>2, MessageForms DEF Message
<1>3. UNCHANGED <<procQ, todo, tries>> /\ cur' \in {cur, NoMsg}
  BY DEF RetryPush, Rest, Escalate, history
<1>4. mainQ \in Seq(Message)
  BY DEF EarnInv, TypeInv, TypeOK
<1>5. ASSUME NEW m \in Messages'  PROVE Backed(m)'
  <2>1. CASE m \in Messages
    BY <1>3, <2>1 DEF EarnInv, Backed
  <2>2. CASE m \notin Messages
    <3>1. m \in Entries(mainQ')
      BY <1>3, <1>5, <2>2 DEF Messages
    <3>2. mainQ' = Append(mainQ, retried) /\ ~Exhausted(cur.retry + 1)
      BY <2>2, <3>1 DEF RetryPush, Messages
    <3>3. retried \in Message
      BY <1>2, <3>2
    <3> HIDE DEF retried
    <3>4. m = retried
      BY <1>4, <2>2, <3>1, <3>2, <3>3, EntriesProperties DEF Messages
    <3> QED  BY <1>1, <1>2, <1>3, <3>2, <3>4, MaxRetriesAssumption DEF Backed, Exhausted
  <2> QED  BY <2>1, <2>2
<1>6. DeadLetterEarned'
  BY <1>1, <1>3, MaxRetriesAssumption DEF EarnInv, DeadLetterEarned, RetryPush, Exhausted
<1>7. TriedNow'
  BY <1>1, <1>3, MessageForms DEF TriedNow, EarnInv, RetryPush, Rest, Escalate
<1> QED  BY <1>0, <1>5, <1>6, <1>7 DEF EarnInv

LEMMA EarnCrashAge ==
  ASSUME EarnInv, WorkerCrash \/ Age
  PROVE  EarnInv'
<1>0. TypeInv'
  BY TypeCrashAge DEF EarnInv
<1>1. mainQ \in Seq(Message) /\ procQ \in Seq(Message) /\ todo \in Seq(Message)
  BY DEF EarnInv, TypeInv, TypeOK
<1>2. CASE WorkerCrash
  <2>1. /\ UNCHANGED <<mainQ, procQ, dlq, tries>>
        /\ cur' = NoMsg /\ todo' = <<>> /\ wpc' = "down"
    BY <1>2 DEF WorkerCrash, Halt, pipeline
  <2>2. Messages' \subseteq Messages /\ TriedNow'
    BY <1>1, <2>1, EntriesProperties DEF Messages, TriedNow
  <2> QED  BY <1>0, <2>1, <2>2, EarnMove
<1>3. CASE Age
  <2>1. \A m \in Message: Aged(m).retry = m.retry /\ Aged(m).log = m.log /\ Aged(m) # NoMsg
    BY MessageForms DEF Aged, Message
  <2>2. /\ UNCHANGED <<todo, dlq, tries, wpc>>
        /\ mainQ' = AgedSeq(mainQ) /\ procQ' = AgedSeq(procQ)
        /\ cur' = IF cur = NoMsg THEN cur ELSE Aged(cur)
    BY <1>3 DEF Age, history
  <2>3. \A m \in Messages: m \in Message
    BY <1>1, EntriesProperties DEF EarnInv, TypeInv, TypeOK, Messages
  <2>4. \A m \in Messages': m \in Messages \/ \E n \in Messages: m = Aged(n)
    BY <1>1, <2>2, EntriesProperties DEF Messages
  <2>5. \A m \in Messages': Backed(m)'
    BY <2>1, <2>2, <2>3, <2>4 DEF EarnInv, Backed
  <2>6. TriedNow'
    BY <2>1, <2>2 DEF EarnInv, TypeInv, CurTyped, WithMessage, TriedNow
  <2> QED  BY <1>0, <2>2, <2>5, <2>6 DEF EarnInv, DeadLetterEarned
<1> QED  BY <1>2, <1>3

LEMMA EarnStep == EarnInv /\ [Next]_vars => EarnInv'
<1>1. ASSUME EarnInv, UNCHANGED vars  PROVE EarnInv'
  <2>1. TypeInv'
    BY <1>1, TypeStutter DEF EarnInv
  <2>2. UNCHANGED <<mainQ, procQ, todo, cur, dlq, tries, wpc>>
    BY <1>1 DEF vars, pipeline, history
  <2> QED  BY <1>1, <2>1, <2>2, EarnMove DEF EarnInv, TriedNow, Messages
<1> QED  BY <1>1, EarnHandlers, EarnStartup, EarnLoop, EarnTag, EarnRetryPush, EarnCrashAge
         DEF Next, Worker

\* A log is in the dead-letter list only after the worker began to process it
\* MAX_RETRIES times, for any number of duplicates, crashes and failing calls.
THEOREM DeadLettersAreEarned == Spec => []DeadLetterEarned
<1>1. EarnInv => DeadLetterEarned
  BY DEF EarnInv
<1> QED  BY <1>1, EarnInit, EarnStep, PTL DEF Spec

----------------------------------------------------------------------------
(* What was told stays true                                                *)

\* An alert does not outlive its row.
AlertsHaveRows == \A l \in alerts: row[l] # "absent"

ToldInv == TypeInv /\ AlertsHaveRows /\ ToldTrue

LEMMA ToldInit == Init => ToldInv
BY TypeInit DEF Init, ToldInv, AlertsHaveRows, ToldTrue

LEMMA ToldStep == ToldInv /\ [Next]_vars => ToldInv'
<1> SUFFICES ASSUME ToldInv, [Next]_vars  PROVE ToldInv'
  OBVIOUS
<1>0. TypeInv'
  BY TypeStep DEF ToldInv
<1> USE DEF ToldInv, AlertsHaveRows, ToldTrue, TypeInv, TypeOK, history
<1>1. ASSUME NEW l \in Logs, Persist(l)  PROVE ToldInv'
  BY <1>0, <1>1 DEF Persist, RequestOnly
<1>2. ASSUME NEW l \in Logs, CheckDepth(l) \/ PushLog(l) \/ FlagLog(l) \/ RequestDies(l)
      PROVE  ToldInv'
  <2>1. /\ UNCHANGED <<alerts, announced>>
        /\ \A k \in Logs: /\ row'[k] = "absent" => row[k] = "absent"
                          /\ row[k] = "absent" /\ row'[k] # "absent" => k = l
                          /\ req'[k] \in {"429", "500"} <=> req[k] \in {"429", "500"}
                          /\ req'[k] = "429" => req[k] = "429" /\ k # l
    BY <1>2 DEF CheckDepth, PushLog, FlagLog, RequestDies, RequestOnly
  <2> QED  BY <1>0, <2>1
<1>3. ASSUME NEW l \in Logs, RejectLog(l)  PROVE ToldInv'
  <2>1. /\ announced' = announced /\ alerts' \in {alerts, alerts \ {l}}
        /\ req' = [req EXCEPT ![l] = "429"] \/ req' = [req EXCEPT ![l] = "500"]
        /\ \A k \in Logs: k # l => row'[k] = row[k]
        /\ \/ alerts' = alerts /\ row' = row
           \/ row'[l] = "absent" /\ l \notin alerts'
        /\ req'[l] = "429" => row'[l] = "absent" /\ l \notin alerts'
    <3>1. PICK o \in Outcomes:
            /\ row' = IF Applied(o) THEN [row EXCEPT ![l] = "absent"] ELSE row
            /\ alerts' = IF Applied(o) THEN alerts \ {l} ELSE alerts
            /\ req' = [req EXCEPT ![l] = IF Raised(o) THEN "500" ELSE "429"]
            /\ announced' = announced
      BY <1>3 DEF RejectLog, RequestOnly
    <3>2. CASE Raised(o)
      <4>1. CASE Applied(o)
        BY <3>1, <3>2, <4>1
      <4>2. CASE ~Applied(o)
        BY <3>1, <3>2, <4>2
      <4> QED  BY <4>1, <4>2
    <3>3. CASE ~Raised(o)
      BY <3>1, <3>3 DEF Applied, Raised
    <3> QED  BY <3>2, <3>3
  <2> QED  BY <1>0, <2>1
<1>4. CASE SweepCommit
  <2>1. /\ UNCHANGED <<req, alerts, announced>>
        /\ \A l \in Logs: row'[l] = "absent" <=> row[l] = "absent"
    BY <1>4 DEF SweepCommit, WorkerOnly
  <2> QED  BY <1>0, <2>1
<1>5. CASE Insert
  <2>1. /\ UNCHANGED <<req, row>>
        /\ alerts \subseteq alerts'
        /\ \A l \in alerts' \ alerts: row[l] # "absent"
        /\ announced' \subseteq announced \cup alerts'
    BY <1>5 DEF Insert, WorkerOnly, Announces
  <2> QED  BY <1>0, <2>1
<1>6. CASE UNCHANGED <<req, row, alerts, announced>>
  BY <1>0, <1>6
<1>7. \/ \E l \in Logs: Persist(l) \/ Handler(l) \/ RequestDies(l)
      \/ SweepCommit \/ Insert \/ UNCHANGED <<req, row, alerts, announced>>
  BY DEF Next, Worker, Start, RecoverSkip, RecoverRemove, RecoverPush, SelectUnqueued,
         SweepCheck, SweepPush, Dequeue, Tag, Load, Check, Ack, RetryRemove, RetryPush,
         WorkerCrash, Age, WorkerOnly, pipeline, vars
<1> QED  BY <1>1, <1>2, <1>3, <1>4, <1>5, <1>6, <1>7 DEF Handler

\* A rejected log leaves neither row nor alert, and an announced alert stays
\* stored unless its log was rejected, however sweep, worker and handlers race.
THEOREM ToldStaysTrue == Spec => []ToldTrue
<1>1. ToldInv => ToldTrue
  BY DEF ToldInv
<1> QED  BY <1>1, ToldInit, ToldStep, PTL DEF Spec

----------------------------------------------------------------------------
(* LogPipeline implements LogDelivery: the invariant                       *)

\* What the recovery has listed is still somewhere: a log whose last message
\* was torn does not come back.
TodoTracked == wpc \in {"recover", "recoverPush"} => \A l: HasLog(todo, l) => Tracked(l)

\* So is what the worker works on, until it rests.
Working == WithMessage \ {"sweepPush"}
CurTracked == wpc \in Working => Tracked(cur.log)

\* A log that was not submitted has no message and no verdict.
NewUnseen == \A l \in Logs: req[l] = "new" => ~Tracked(l) /\ l \notin handled

RefInv == LossInv /\ TodoTracked /\ CurTracked /\ NewUnseen

\* LREM and LRANGE bring no log into a list.
LEMMA NoneAdded ==
  ASSUME NEW s \in Seq(Message)
  PROVE  /\ \A e, l: HasLog(LRem(s, e), l) => HasLog(s, l)
         /\ \A l: HasLog(Reverse(s), l) => HasLog(s, l)
<1>1. ASSUME NEW e, NEW l, HasLog(LRem(s, e), l)  PROVE HasLog(s, l)
  <2>1. PICK i \in DOMAIN LRem(s, e): LRem(s, e)[i].log = l
    BY <1>1 DEF HasLog
  <2>2. PICK j \in DOMAIN s: LRem(s, e)[i] = s[j]
    BY RemProperties
  <2> QED  BY <2>1, <2>2 DEF HasLog
<1>2. ASSUME NEW l, HasLog(Reverse(s), l)  PROVE HasLog(s, l)
  <2>1. /\ Len(s) \in Nat /\ DOMAIN s = 1..Len(s) /\ DOMAIN Reverse(s) = 1..Len(s)
        /\ \A i \in 1..Len(s): Reverse(s)[i] = s[(Len(s) - i) + 1]
    BY LenProperties DEF Reverse
  <2> QED  BY <1>2, <2>1 DEF HasLog
<1> QED  BY <1>1, <1>2

\* A handler's push is the only thing it changes about where messages are.
LEMMA HandlerTracks ==
  ASSUME RefInv, NEW l \in Logs, Persist(l) \/ Handler(l) \/ RequestDies(l)
  PROVE  /\ \A k: Tracked(k) => Tracked(k)'
         /\ \A k: Tracked(k)' => Tracked(k) \/ (req[l] = "push" /\ k = l)
         /\ UNCHANGED <<todo, wpc, cur, handled, torn, dlq, selected, flagged>>
<1>1. /\ UNCHANGED <<procQ, dlq, todo, wpc, cur, held, handled, torn, selected, flagged>>
      /\ mainQ' = mainQ \/ (req[l] = "push" /\ mainQ' = Append(mainQ, NewMessage(l)))
  BY DEF Persist, Handler, CheckDepth, PushLog, FlagLog, RejectLog, RequestDies,
         RequestOnly, sweep, history
<1>2. mainQ \in Seq(Message) /\ NewMessage(l) \in Message /\ NewMessage(l).log = l
  BY MessageForms DEF RefInv, LossInv, TypeInv, TypeOK
<1>3. \A k: HasLog(Append(mainQ, NewMessage(l)), k) <=> HasLog(mainQ, k) \/ k = l
  BY <1>2, PushProperties
<1>4. \A k: /\ HasLog(mainQ, k) => HasLog(mainQ', k)
            /\ HasLog(mainQ', k) => HasLog(mainQ, k) \/ (req[l] = "push" /\ k = l)
  BY <1>1, <1>3
<1> QED  BY <1>1, <1>4 DEF Tracked

\* At start-up the sweep's push begins to track a log, and nothing else does.
LEMMA StartupTracks ==
  ASSUME RefInv,
         \/ Start \/ RecoverSkip \/ RecoverRemove \/ RecoverPush
         \/ SelectUnqueued \/ (\E l \in Logs: SweepCheck(l)) \/ SweepPush \/ SweepCommit
  PROVE  /\ \A k: Tracked(k)' => Tracked(k) \/ (wpc = "sweepPush" /\ cur.log = k)
         /\ TodoTracked' /\ CurTracked' /\ handled' = handled
<1> USE DEF RefInv, LossInv, TypeInv, TypeOK, TodoTracked, CurTracked, Working, WithMessage,
            Tracked, pipeline, history, Halt
<1>1. CASE Start
  <2>1. \A k: HasLog(todo', k) => HasLog(procQ, k)
    BY <1>1, NoneAdded DEF Start
  <2> QED  BY <1>1, <2>1 DEF Start
<1>2. CASE RecoverSkip
  <2>1. \A k: HasLog(todo', k) => HasLog(todo, k)
    BY <1>2, PopProperties DEF RecoverSkip
  <2> QED  BY <1>2, <2>1 DEF RecoverSkip
<1>3. CASE RecoverRemove
  <2>1. /\ \A k: HasLog(LRem(procQ, Head(todo)), k) => HasLog(procQ, k)
        /\ \A k: HasLog(procQ, k) => HasLog(LRem(procQ, Head(todo)), k) \/ k = Head(todo).log
        /\ \A k: HasLog(todo, k) <=> HasLog(Tail(todo), k) \/ Head(todo).log = k
    BY <1>3, NoneAdded, RemProperties, PopProperties DEF RecoverRemove
  <2>2. /\ \A k: HasLog(procQ', k) => HasLog(procQ, k)
        /\ \A k: HasLog(procQ, k) => HasLog(procQ', k) \/ k = Head(todo).log
        /\ UNCHANGED <<mainQ, dlq, handled>> /\ held # "hand"
        /\ \/ wpc' = "down" /\ held' = "no"
           \/ wpc' = "recoverPush" /\ cur' = Head(todo) /\ held' = "hand" /\ todo' = Tail(todo)
    BY <1>3, <2>1 DEF RecoverRemove, HandOnly
  <2> QED  BY <1>3, <2>1, <2>2 DEF RecoverRemove
<1>4. CASE RecoverPush
  <2>1. \A k: HasLog(Append(mainQ, cur), k) <=> HasLog(mainQ, k) \/ cur.log = k
    BY <1>4, PushProperties DEF RecoverPush, CurTyped
  <2>2. /\ \A k: HasLog(mainQ', k) => HasLog(mainQ, k) \/ cur.log = k
        /\ UNCHANGED <<procQ, dlq, handled>> /\ held' = "no"
        /\ \/ wpc' = "down"
           \/ /\ wpc' = "recover" /\ todo' = todo
              /\ \A k: HasLog(mainQ, k) \/ cur.log = k => HasLog(mainQ', k)
    BY <1>4, <2>1 DEF RecoverPush, Applied, Raised
  <2> QED  BY <1>4, <2>2 DEF RecoverPush
<1>5. CASE SelectUnqueued
  BY <1>5 DEF SelectUnqueued
<1>6. CASE \E l \in Logs: SweepCheck(l)
  BY <1>6 DEF SweepCheck, HandOnly
<1>7. CASE SweepPush
  <2>1. \A k: HasLog(Append(mainQ, cur), k) <=> HasLog(mainQ, k) \/ cur.log = k
    BY <1>7, PushProperties DEF SweepPush, CurTyped
  <2> QED  BY <1>7, <2>1 DEF SweepPush, HandOnly
<1>8. CASE SweepCommit
  BY <1>8 DEF SweepCommit, HandOnly
<1> QED  BY <1>1, <1>2, <1>3, <1>4, <1>5, <1>6, <1>7, <1>8

\* The main loop tracks no log that was not tracked, and hands on what it holds.
LEMMA LoopTracks ==
  ASSUME RefInv,
         Dequeue \/ Tag \/ Load \/ Check \/ Insert \/ Ack \/ RetryRemove \/ RetryPush
  PROVE  /\ \A k: Tracked(k)' => Tracked(k)
         /\ TodoTracked' /\ CurTracked' /\ handled' \subseteq handled \cup {cur.log}
<1> USE DEF RefInv, LossInv, TypeInv, TypeOK, TodoTracked, CurTracked, Working, WithMessage,
            Tracked, pipeline, history, Rest, Escalate
<1>0. /\ \A k: HasLog(LRem(procQ, cur), k) => HasLog(procQ, k)
      /\ \A k: HasLog(procQ, k) => HasLog(LRem(procQ, cur), k) \/ k = cur.log
  BY NoneAdded, RemProperties
<1>1. CASE Dequeue
  <2>1. \A k: /\ HasLog(mainQ, k) <=> HasLog(Tail(mainQ), k) \/ Head(mainQ).log = k
              /\ HasLog(Append(procQ, Head(mainQ)), k) <=> HasLog(procQ, k) \/ Head(mainQ).log = k
    BY <1>1, PopProperties, PushProperties DEF Dequeue
  <2> QED  BY <1>1, <2>1 DEF Dequeue, HandOnly
<1>2. CASE Tag
  <2> DEFINE tagged == [cur EXCEPT !.stamp = "fresh"]
             s == LRem(procQ, cur)
  <2>1. tagged \in Message /\ tagged.log = cur.log /\ s \in Seq(Message)
    BY <1>2, MessageForms, RemProperties DEF Tag, CurTyped
  <2>2. \A k: HasLog(s, k) => HasLog(procQ, k)
    BY <1>0
  <2>3. /\ cur' = tagged \/ wpc' = "idle"
        /\ procQ' = Append(s, tagged) \/ procQ' = procQ
        /\ wpc' \in {"idle", "load"} /\ (wpc' = "load" => procQ' = Append(s, tagged))
        /\ UNCHANGED <<mainQ, dlq, handled>> /\ held' \in {held, "no"}
        /\ held # "hand" /\ Tracked(cur.log)
    BY <1>2 DEF Tag, HandOnly, Applied, Raised
  <2> HIDE DEF tagged, s
  <2>4. \A k: HasLog(Append(s, tagged), k) <=> HasLog(s, k) \/ cur.log = k
    BY <2>1, PushProperties
  <2> QED  BY <2>1, <2>2, <2>3, <2>4
<1>3. CASE Load
  BY <1>3 DEF Load
<1>4. CASE Check
  BY <1>4 DEF Check
<1>5. CASE Insert
  BY <1>5 DEF Insert
<1>6. CASE Ack
  <2>1. /\ \A k: HasLog(procQ', k) => HasLog(procQ, k)
        /\ \A k: HasLog(procQ, k) => HasLog(procQ', k) \/ k = cur.log
        /\ UNCHANGED <<mainQ, dlq, handled>> /\ held # "hand"
        /\ \/ wpc' = "idle" /\ held' = "no"
           \/ /\ wpc' = "remove" /\ cur' = cur
              /\ held' = "hand" \/ (held' = held /\ procQ' = procQ)
    BY <1>0, <1>6 DEF Ack, HandOnly, Applied, Raised
  <2> QED  BY <1>6, <2>1 DEF Ack
<1>7. CASE RetryRemove
  <2>1. /\ \A k: HasLog(procQ', k) => HasLog(procQ, k)
        /\ \A k: HasLog(procQ, k) => HasLog(procQ', k) \/ k = cur.log
        /\ UNCHANGED <<mainQ, dlq, handled>>
        /\ \/ wpc' = "idle" /\ held' = "no"
           \/ /\ wpc' \in {"remove", "push"} /\ cur' = cur
              /\ held' = "hand" \/ (held' = held /\ procQ' = procQ)
    BY <1>0, <1>7 DEF RetryRemove, Applied, Raised
  <2> QED  BY <1>7, <2>1 DEF RetryRemove
<1>8. CASE RetryPush
  <2> DEFINE retried == [cur EXCEPT !.retry = cur.retry + 1]
  <2>1. cur \in Message
    BY <1>8 DEF RetryPush, CurTyped
  <2>2. ASSUME ~Exhausted(cur.retry + 1)
        PROVE  \A k: HasLog(Append(mainQ, retried), k) <=> HasLog(mainQ, k) \/ cur.log = k
    <3>1. retried \in Message /\ retried.log = cur.log
      BY <2>1, <2>2, MessageForms
    <3> HIDE DEF retried
    <3> QED  BY <3>1, PushProperties
  <2>3. /\ \A k: HasLog(mainQ', k) => HasLog(mainQ, k) \/ k = cur.log
        /\ \A k: HasLog(mainQ, k) => HasLog(mainQ', k)
        /\ dlq \subseteq dlq' /\ dlq' \subseteq dlq \cup {cur.log}
        /\ UNCHANGED <<procQ, handled>>
        /\ \/ wpc' = "idle" /\ held' = "no"
           \/ /\ wpc' = "remove" /\ cur' = cur
              /\ \/ HasLog(mainQ', cur.log) \/ cur.log \in dlq' 
                 \/ held' = held
    BY <1>8, <2>2 DEF RetryPush, Applied, Raised
  <2> QED  BY <1>8, <2>3 DEF RetryPush
<1> QED  BY <1>1, <1>2, <1>3, <1>4, <1>5, <1>6, <1>7, <1>8

LEMMA CrashAgeTracks ==
  ASSUME RefInv, WorkerCrash \/ Age
  PROVE  /\ \A k: Tracked(k)' => Tracked(k)
         /\ TodoTracked' /\ CurTracked' /\ handled' = handled
<1> USE DEF RefInv, LossInv, TypeInv, TypeOK, TodoTracked, CurTracked, Working, Tracked,
            pipeline, history
<1>1. CASE WorkerCrash
  BY <1>1 DEF WorkerCrash, Halt, WithMessage
<1>2. CASE Age
  <2>1. \A k: /\ HasLog(mainQ', k) <=> HasLog(mainQ, k)
              /\ HasLog(procQ', k) <=> HasLog(procQ, k)
    BY <1>2, AgeProperties DEF Age
  <2>2. wpc \in WithMessage => cur'.log = cur.log
    BY <1>2, MessageForms DEF Age, CurTyped
  <2>3. UNCHANGED <<dlq, wpc, held, todo, handled>>
    BY <1>2 DEF Age
  <2>4. held = "hand" => wpc \in WithMessage
    BY DEF HandOnly, WithMessage
  <2> QED  BY <2>1, <2>2, <2>3, <2>4
<1> QED  BY <1>1, <1>2

\* Nothing but a handler or the sweep begins to track a log.
LEMMA NoReturn ==
  ASSUME RefInv, Next, NEW k \in Logs, Tracked(k)'
  PROVE  Tracked(k) \/ ToBePushed(k)
BY HandlerTracks, StartupTracks, LoopTracks, CrashAgeTracks DEF Next, Worker, ToBePushed

LEMMA RefInit == Init => RefInv
<1>1. \A l: ~HasLog(<<>>, l)
  BY DEF HasLog
<1> QED  BY <1>1, LossInit DEF Init, RefInv, TodoTracked, CurTracked, Working, WithMessage,
                               NewUnseen, Tracked

LEMMA RefStep == RefInv /\ [Next]_vars => RefInv'
<1> SUFFICES ASSUME RefInv, [Next]_vars  PROVE RefInv'
  OBVIOUS
<1>0. LossInv'
  BY LossStep DEF RefInv
<1>1. CASE UNCHANGED vars
  BY <1>0, <1>1 DEF vars, pipeline, sweep, history, RefInv, TodoTracked, CurTracked,
                    NewUnseen, Tracked
<1>2. CASE Next
  <2>1. TodoTracked' /\ CurTracked'
    <3>1. ASSUME NEW l \in Logs, Persist(l) \/ Handler(l) \/ RequestDies(l)
          PROVE  TodoTracked' /\ CurTracked'
      <4>1. /\ UNCHANGED <<todo, wpc, cur>>
            /\ \A k: Tracked(k) => Tracked(k)'
        BY <3>1, HandlerTracks
      <4> QED  BY <4>1 DEF RefInv, TodoTracked, CurTracked
    <3> QED  BY <1>2, <3>1, StartupTracks, LoopTracks, CrashAgeTracks DEF Next, Worker
  <2>2. ASSUME NEW l \in Logs, req'[l] = "new"  PROVE req[l] = "new"
    BY <1>2, <2>2 DEF Next, Worker, WorkerOnly, Persist, Handler, CheckDepth, PushLog,
         FlagLog, RejectLog, RequestDies, Age, RefInv, LossInv, TypeInv, TypeOK,
         Start, RecoverSkip, RecoverRemove, RecoverPush, SelectUnqueued, SweepCheck,
         SweepPush, SweepCommit, Dequeue, Tag, Load, Check, Insert, Ack, RetryRemove,
         RetryPush, WorkerCrash
  <2>3. ASSUME NEW l \in Logs, req[l] = "new"  PROVE ~Tracked(l)' /\ l \notin handled'
    <3>1. ~Tracked(l) /\ ~ToBePushed(l) /\ l \notin handled
      BY <2>3 DEF RefInv, LossInv, NewUntouched, NewUnseen, ToBePushed
    <3>2. handled' \subseteq handled \/ (handled' \subseteq handled \cup {cur.log} /\ Tracked(cur.log))
      <4>1. CASE Check \/ Insert
        BY <4>1, LoopTracks DEF Check, Insert, RefInv, CurTracked, Working, WithMessage
      <4>2. CASE Dequeue \/ Tag \/ Load \/ Ack \/ RetryRemove \/ RetryPush
        BY <4>2 DEF Dequeue, Tag, Load, Ack, RetryRemove, RetryPush, history
      <4> QED  BY <1>2, <4>1, <4>2, HandlerTracks, StartupTracks, CrashAgeTracks DEF Next, Worker
    <3> QED  BY <1>2, <3>1, <3>2, NoReturn
  <2> QED  BY <1>0, <2>1, <2>2, <2>3 DEF RefInv, NewUnseen
<1> QED  BY <1>1, <1>2

----------------------------------------------------------------------------
(* The step simulation                                                     *)

\* Queued is a stage as long as the log has a message or is to get one.
Alive(l) == Tracked(l) \/ ToBePushed(l)

\* A log is new, gone or neither, whatever else happens to it, and accepted or not.
SameStanding == \A k \in Logs: /\ row[k] = "absent" => (req'[k] = "new" <=> req[k] = "new")
                               /\ req'[k] = "201" <=> req[k] = "201"

\* A queued log that is neither tracked nor to be pushed after a step is torn.
LEMMA LostIsTorn ==
  ASSUME LossInv', NEW l \in Logs, StageOf(l)' = "lost"
  PROVE  l \in torn'
BY DEF StageOf, LossInv, TypeInv, TypeOK, Rows, OwedAccounted, Owed, Accounted

\* The steps the abstract specification sees nothing of, except that a queued log
\* may be lost: they change neither rows nor verdicts.
LEMMA QuietStep ==
  ASSUME RefInv, LossInv', SameStanding, UNCHANGED <<row, handled, dlq>>,
         torn' = torn \/ \E k \in Logs: torn' = torn \cup {k},
         \A k \in Logs: Alive(k)' => Alive(k) \/ row[k] # "queued" \/ k \in handled \cup dlq
  PROVE  Delivery!Next
<1>1. ASSUME NEW k \in Logs
      PROVE  \/ StageOf(k)' = StageOf(k)
             \/ StageOf(k) = "queued" /\ StageOf(k)' = "lost" /\ k \in torn'
  <2>1. StageOf(k)' = "lost" => k \in torn'
    BY LostIsTorn
  <2> QED  BY <2>1 DEF SameStanding, StageOf, Alive, RefInv, LossInv, TypeInv, TypeOK, Rows
<1>2. {l \in Logs: req'[l] = "201"} = {l \in Logs: req[l] = "201"}
  BY DEF SameStanding
<1> DEFINE L == {k \in Logs: StageOf(k) = "queued" /\ StageOf(k)' = "lost"}
<1>3. \A k \in Logs: StageOf(k)' = IF k \in L THEN "lost" ELSE [l \in Logs |-> StageOf(l)][k]
  BY <1>1
<1>4. L \in SUBSET {l \in torn': [k \in Logs |-> StageOf(k)][l] = "queued"}
  BY <1>1
<1>5. ASSUME NEW T, torn' = torn \cup T  PROVE Delivery!Lose(T)
  <2>1. \A k \in Logs: StageOf(k)' = IF k \in L THEN "lost" ELSE [l \in Logs |-> StageOf(l)][k]
    BY <1>3
  <2>2. L \in SUBSET {l \in torn': [k \in Logs |-> StageOf(k)][l] = "queued"}
    BY <1>4
  <2> HIDE DEF L
  <2>3. [k \in Logs |-> StageOf(k)'] =
          [l \in Logs |-> IF l \in L THEN "lost" ELSE [k \in Logs |-> StageOf(k)][l]]
    BY <2>1
  <2>4. \E M \in SUBSET {l \in torn': [k \in Logs |-> StageOf(k)][l] = "queued"}:
          [k \in Logs |-> StageOf(k)'] =
            [l \in Logs |-> IF l \in M THEN "lost" ELSE [k \in Logs |-> StageOf(k)][l]]
    BY <2>2, <2>3
  <2> QED  BY <1>2, <1>5, <2>4 DEF Delivery!Lose
<1>6. torn' = torn => torn' = torn \cup {}
  OBVIOUS
<1> QED  BY <1>5, <1>6 DEF Delivery!Next

\* The stage of one log moves, and nothing else.
LEMMA MoveStep ==
  ASSUME NEW l \in Logs, NEW from, NEW to, StageOf(l) \in from, torn' = torn,
         \A k \in Logs: StageOf(k)' = IF k = l THEN to ELSE StageOf(k),
         \A k \in Logs: req'[k] = "201" <=> req[k] = "201"
  PROVE  Delivery!Move(l, from, to)
<1>1. [k \in Logs |-> StageOf(k)'] = [[k \in Logs |-> StageOf(k)] EXCEPT ![l] = to]
  OBVIOUS
<1>2. {k \in Logs: req'[k] = "201"} = {k \in Logs: req[k] = "201"}
  OBVIOUS
<1> QED  BY <1>1, <1>2 DEF Delivery!Move

\* A handler moves no log but its own.
LEMMA OthersKept ==
  ASSUME RefInv, NEW l \in Logs, Persist(l) \/ Handler(l) \/ RequestDies(l)
  PROVE  \A k \in Logs: k # l => /\ StageOf(k)' = StageOf(k)
                                 /\ row'[k] = row[k] /\ req'[k] = req[k]
<1>1. \A k \in Logs: k # l => row'[k] = row[k] /\ req'[k] = req[k]
  BY DEF Persist, Handler, CheckDepth, PushLog, FlagLog, RejectLog, RequestDies,
         RefInv, LossInv, TypeInv, TypeOK
<1>2. \A k \in Logs: k # l => (Tracked(k)' <=> Tracked(k)) /\ (ToBePushed(k)' <=> ToBePushed(k))
  BY <1>1, HandlerTracks DEF ToBePushed
<1> QED  BY <1>1, <1>2, HandlerTracks DEF StageOf

\* The client is answered 201 while the row stays as it is.
LEMMA AcceptStep ==
  ASSUME RefInv, LossInv', NEW l \in Logs, Handler(l), row' = row,
         req[l] \in {"check", "push", "flag"}, req'[l] = "201"
  PROVE  Delivery!Accept(l)
<1>1. /\ \A k \in Logs: k # l => StageOf(k)' = StageOf(k) /\ req'[k] = req[k]
      /\ UNCHANGED <<handled, dlq, torn, selected, wpc, cur>>
      /\ Tracked(l) => Tracked(l)'
      /\ Tracked(l)' => Tracked(l) \/ req[l] = "push"
  BY OthersKept, HandlerTracks
<1>2. row[l] \in {"unqueued", "queued"}
  BY DEF RefInv, LossInv, RowPresent, TypeInv, TypeOK, Rows
<1>3. \/ StageOf(l)' = StageOf(l)
      \/ StageOf(l) = "queued" /\ StageOf(l)' = "lost" /\ l \in torn
  <2>1. StageOf(l)' = "lost" => l \in torn
    BY <1>1, LostIsTorn
  <2> QED  BY <1>1, <1>2, <2>1 DEF StageOf, ToBePushed
<1>4. StageOf(l) \notin {"new", "gone"}
  BY <1>2 DEF StageOf
<1>5. {k \in Logs: req'[k] = "201"} = {k \in Logs: req[k] = "201"} \cup {l}
  BY <1>1
<1>6. CASE StageOf(l)' = StageOf(l)
  <2>1. [k \in Logs |-> StageOf(k)'] = [k \in Logs |-> StageOf(k)]
    BY <1>1, <1>6
  <2> QED  BY <1>1, <1>4, <1>5, <2>1 DEF Delivery!Accept
<1>7. CASE StageOf(l) = "queued" /\ StageOf(l)' = "lost" /\ l \in torn
  <2>1. [k \in Logs |-> StageOf(k)'] = [[k \in Logs |-> StageOf(k)] EXCEPT ![l] = "lost"]
    BY <1>1, <1>7
  <2>2. [k \in Logs |-> StageOf(k)][l] = "queued"
    BY <1>7
  <2> QED  BY <1>1, <1>4, <1>5, <1>7, <2>1, <2>2 DEF Delivery!Accept
<1> QED  BY <1>3, <1>6, <1>7

\* The handlers.
LEMMA HandlerSimulated ==
  ASSUME RefInv, RefInv', NEW l \in Logs, Persist(l) \/ Handler(l) \/ RequestDies(l)
  PROVE  Delivery!Next
<1>0. /\ LossInv' /\ torn' = torn /\ UNCHANGED <<handled, dlq, selected, wpc, cur>>
      /\ \A k \in Logs: k # l => StageOf(k)' = StageOf(k) /\ row'[k] = row[k] /\ req'[k] = req[k]
      /\ Tracked(l) => Tracked(l)'
      /\ Tracked(l)' => Tracked(l) \/ req[l] = "push"
  BY OthersKept, HandlerTracks DEF RefInv
<1>1. ASSUME row' = row, req[l] \notin {"new", "201"}, req'[l] \notin {"new", "201"},
             req'[l] \in {"check", "push"} => req[l] \in {"check", "push"}
      PROVE  Delivery!Next
  <2>1. SameStanding
    BY <1>0, <1>1 DEF SameStanding
  <2>2. \A k \in Logs: Alive(k)' => Alive(k)
    BY <1>0, <1>1, HandlerTracks DEF Alive, ToBePushed
  <2> QED  BY <1>0, <1>1, <2>1, <2>2, QuietStep
<1>2. CASE Persist(l)
  <2>1. /\ req[l] = "new" /\ row[l] = "absent" /\ ~Tracked(l) /\ l \notin handled /\ l \notin dlq
        /\ StageOf(l) = "new" /\ row'[l] \in {"absent", "unqueued"}
        /\ req'[l] \in {"check", "500"} 
    BY <1>2 DEF Persist, RefInv, LossInv, NewUntouched, NewUnseen, Tracked, StageOf, TypeInv, TypeOK
  <2>2. \A k \in Logs: req'[k] = "201" <=> req[k] = "201"
    BY <1>0, <2>1
  <2>3. CASE row'[l] = "absent"
    <3>1. StageOf(l)' = "gone"
      BY <2>1, <2>3 DEF StageOf
    <3> QED  BY <1>0, <2>1, <2>2, <3>1, MoveStep DEF Delivery!Next, Delivery!Fail
  <2>4. CASE row'[l] = "unqueued"
    <3>1. StageOf(l)' = "stored"
      BY <1>0, <2>1, <2>4 DEF StageOf
    <3> QED  BY <1>0, <2>1, <2>2, <3>1, MoveStep DEF Delivery!Next, Delivery!Submit
  <2> QED  BY <2>1, <2>3, <2>4
<1>3. CASE CheckDepth(l) \/ PushLog(l)
  <2>1. /\ row' = row /\ req[l] \in {"check", "push"}
        /\ req'[l] = "201" \/ (req'[l] \in {"reject", "push", "flag"})
    BY <1>3 DEF CheckDepth, PushLog, RefInv, LossInv, TypeInv, TypeOK
  <2>2. CASE req'[l] = "201"
    BY <1>0, <1>3, <2>1, <2>2, AcceptStep DEF Delivery!Next, Handler
  <2>3. CASE req'[l] # "201"
    BY <1>1, <2>1, <2>3
  <2> QED  BY <2>2, <2>3
<1>4. CASE FlagLog(l)
  <2>1. /\ req[l] = "flag" /\ req'[l] = "201" /\ row[l] \in {"unqueued", "queued"}
        /\ row' = row \/ row'[l] = "queued"
    BY <1>4 DEF FlagLog, RefInv, LossInv, RowPresent, TypeInv, TypeOK, Rows
  <2>2. CASE row' = row
    BY <1>0, <1>4, <2>1, <2>2, AcceptStep DEF Delivery!Next, Handler
  <2>3. CASE row'[l] = "queued" /\ StageOf(l) # "stored"
    <3>1. row[l] = "queued" \/ l \in handled \/ l \in dlq
      BY <2>1, <2>3 DEF StageOf
    <3>2. StageOf(l)' = StageOf(l)
      BY <1>0, <2>1, <2>3, <3>1 DEF StageOf, ToBePushed
    <3>3. [k \in Logs |-> StageOf(k)'] = [k \in Logs |-> StageOf(k)]
      BY <1>0, <3>2
    <3>4. StageOf(l) \notin {"new", "gone"}
      BY <2>1 DEF StageOf
    <3>5. {k \in Logs: req'[k] = "201"} = {k \in Logs: req[k] = "201"} \cup {l}
      BY <1>0, <2>1
    <3> QED  BY <1>0, <3>3, <3>4, <3>5 DEF Delivery!Next, Delivery!Accept
  <2>4. CASE row'[l] = "queued" /\ StageOf(l) = "stored"
    <3> DEFINE st == [k \in Logs |-> StageOf(k)]
               L == IF StageOf(l)' = "lost" THEN {l} ELSE {}
    <3>1. StageOf(l)' \in {"queued", "lost"} /\ (StageOf(l)' = "lost" => l \in torn)
      BY <1>0, <2>1, <2>4, LostIsTorn DEF StageOf
    <3>2. [k \in Logs |-> StageOf(k)'] =
            [k \in Logs |-> IF k \in L THEN "lost" ELSE IF k \in {l} THEN "queued" ELSE st[k]]
      BY <1>0, <3>1
    <3>3. {l} \in SUBSET {k \in Logs: st[k] = "stored"} /\ L \in SUBSET ({l} \cap torn)
      BY <2>4, <3>1
    <3>4. {k \in Logs: req'[k] = "201"} = {k \in Logs: req[k] = "201"} \cup {l}
      BY <1>0, <2>1
    <3> HIDE DEF L
    <3> QED  BY <1>0, <3>2, <3>3, <3>4 DEF Delivery!Next, Delivery!Enqueue
  <2> QED  BY <2>1, <2>2, <2>3, <2>4
<1>5. CASE RejectLog(l)
  <2>1. /\ req[l] = "reject" /\ row[l] # "absent" /\ req'[l] \in {"429", "500"}
        /\ row' = row \/ row'[l] = "absent"
    BY <1>5 DEF RejectLog, RefInv, LossInv, RowPresent, TypeInv, TypeOK
  <2>2. CASE row' = row
    BY <1>1, <2>1, <2>2
  <2>3. CASE row'[l] = "absent"
    <3>1. StageOf(l)' = "gone" /\ StageOf(l) \in Delivery!Stages \ {"new"}
      BY <2>1, <2>3 DEF StageOf, Delivery!Stages
    <3>2. \A k \in Logs: req'[k] = "201" <=> req[k] = "201"
      BY <1>0, <2>1
    <3>3. Delivery!Move(l, Delivery!Stages \ {"new"}, "gone")
      BY <1>0, <3>1, <3>2, MoveStep
    <3> QED  BY <2>1, <3>3 DEF Delivery!Next, Delivery!Withdraw
  <2> QED  BY <2>1, <2>2, <2>3
<1>6. CASE RequestDies(l)
  <2>1. row' = row /\ req[l] \in {"check", "push", "flag", "reject"} /\ req'[l] = "dead"
    BY <1>6 DEF RequestDies, RefInv, LossInv, TypeInv, TypeOK
  <2> QED  BY <1>1, <2>1
<1> QED  BY <1>2, <1>3, <1>4, <1>5, <1>6 DEF Handler

\* Worker steps that leave rows and verdicts alone.
LEMMA WorkerQuiet ==
  ASSUME RefInv, LossInv', Next, UNCHANGED <<row, req, handled, dlq>>,
         torn' = torn \/ \E k \in Logs: torn' = torn \cup {k},
         \A k \in Logs: ToBePushed(k)' => ToBePushed(k) \/ row[k] # "queued"
  PROVE  Delivery!Next
<1>1. \A k \in Logs: Alive(k)' => Alive(k) \/ row[k] # "queued"
  BY NoReturn DEF Alive
<1> QED  BY <1>1, QuietStep DEF SameStanding

\* A step on the message in hand that changes the stage of no other log.
LEMMA WorkerMove ==
  ASSUME RefInv, wpc \in Working, UNCHANGED <<row, req, torn>>,
         NEW l \in Logs, l = cur.log,
         \A k \in Logs: k # l => StageOf(k)' = StageOf(k),
         NEW to \in {"done", "dead"}, StageOf(l)' \in {StageOf(l), to},
         to = "dead" => StageOf(l)' = StageOf(l) \/ (StageOf(l) # "dead" /\ l \notin handled)
  PROVE  Delivery!Next
<1>1. Tracked(l)
  BY DEF RefInv, CurTracked
<1>2. CASE StageOf(l)' = StageOf(l)
  <2>1. \A k \in Logs: StageOf(k)' = StageOf(k)
    BY <1>2
  <2>2. [k \in Logs |-> StageOf(k)'] = [k \in Logs |-> StageOf(k)]
    BY <2>1
  <2> QED  BY <2>2 DEF Delivery!Next, Delivery!dvars
<1>3. CASE StageOf(l)' # StageOf(l)
  <2>1. StageOf(l)' = to
    BY <1>3
  <2>2. \A k \in Logs: StageOf(k)' = IF k = l THEN to ELSE StageOf(k)
    BY <2>1
  <2>3. /\ StageOf(l) \in {"stored", "queued", "dead"}
        /\ to = "dead" => StageOf(l) # "dead"
    BY <1>1, <1>3, <2>1 DEF StageOf
  <2> QED  BY <2>2, <2>3, MoveStep DEF Delivery!Next, Delivery!Settle, Delivery!Bury
<1> QED  BY <1>2, <1>3

LEMMA StartupSimulated ==
  ASSUME RefInv, RefInv', Next,
         \/ Start \/ RecoverSkip \/ RecoverRemove \/ RecoverPush
         \/ SelectUnqueued \/ (\E l \in Logs: SweepCheck(l)) \/ SweepPush
  PROVE  Delivery!Next
<1> USE DEF WorkerOnly, pipeline, sweep, history, Halt, ToBePushed
<1>0. RefInv /\ LossInv' /\ (wpc \in WithMessage => cur \in Message /\ cur.log \in Logs)
  BY MessageForms DEF RefInv, LossInv, TypeInv, CurTyped
<1>1. CASE Start \/ RecoverSkip
  <2>1. UNCHANGED <<row, req, handled, dlq, torn, selected, cur>> /\ wpc' # "sweepPush"
    BY <1>1 DEF Start, RecoverSkip
  <2> QED  BY <1>0, <2>1, WorkerQuiet
<1>2. CASE RecoverRemove
  <2>1. Head(todo).log \in Logs
    BY <1>2, PopProperties, MessageForms DEF RecoverRemove, RefInv, LossInv, TypeInv, TypeOK
  <2>2. /\ UNCHANGED <<row, req, handled, dlq>> /\ wpc' # "sweepPush"
        /\ selected' \subseteq selected
        /\ torn' = torn \/ torn' = torn \cup {Head(todo).log}
    BY <1>2 DEF RecoverRemove
  <2> QED  BY <1>0, <2>1, <2>2, WorkerQuiet
<1>3. CASE RecoverPush
  <2>1. /\ UNCHANGED <<row, req, handled, dlq>> /\ wpc' # "sweepPush"
        /\ selected' \subseteq selected /\ wpc = "recoverPush"
        /\ torn' = torn \/ torn' = torn \cup {cur.log}
    BY <1>3 DEF RecoverPush
  <2> QED  BY <1>0, <2>1, WorkerQuiet DEF WithMessage
<1>4. CASE SelectUnqueued
  <2>1. /\ UNCHANGED <<row, req, handled, dlq, torn>> /\ wpc' # "sweepPush"
        /\ \A l \in selected': row[l] # "queued"
    BY <1>4 DEF SelectUnqueued
  <2> QED  BY <1>0, <2>1, WorkerQuiet
<1>5. ASSUME NEW l \in Logs, SweepCheck(l)  PROVE Delivery!Next
  <2>1. /\ UNCHANGED <<row, req, handled, dlq, torn>> /\ l \in selected /\ wpc # "sweepPush"
        /\ selected' \subseteq selected
        /\ wpc' = "sweepPush" => cur'.log = l
    BY <1>5, MessageForms DEF SweepCheck
  <2> QED  BY <1>0, <2>1, WorkerQuiet
<1>6. CASE SweepPush
  <2>1. UNCHANGED <<row, req, handled, dlq, torn, selected>> /\ wpc' # "sweepPush"
    BY <1>6 DEF SweepPush
  <2> QED  BY <1>0, <2>1, WorkerQuiet
<1> QED  BY <1>1, <1>2, <1>3, <1>4, <1>5, <1>6

\* The commit of the sweep: all the rows it flags are queued or lost at once.
LEMMA SweepCommitSimulated ==
  ASSUME RefInv, RefInv', SweepCommit
  PROVE  Delivery!Next
<1> DEFINE st == [k \in Logs |-> StageOf(k)]
           S  == {k \in Logs: StageOf(k) = "stored" /\ row'[k] = "queued"}
           L  == {k \in S: StageOf(k)' = "lost"}
<1>1. /\ UNCHANGED <<req, mainQ, procQ, dlq, handled, torn>>
      /\ selected = {} /\ selected' = {} /\ wpc = "sweepCheck" /\ wpc' # "sweepPush"
      /\ held # "hand" /\ held' # "hand"
      /\ \A k \in Logs: row'[k] = row[k] \/ (row[k] \in {"unqueued", "queued"} /\ row'[k] = "queued")
  BY DEF SweepCommit, WorkerOnly, history, Halt, RefInv, LossInv, TypeInv, TypeOK, HandOnly, Rows
<1>2. \A k \in Logs: (Tracked(k)' <=> Tracked(k)) /\ (ToBePushed(k)' <=> ToBePushed(k))
  BY <1>1 DEF Tracked, ToBePushed
<1>3. \A k \in Logs: \/ k \notin S /\ StageOf(k)' = StageOf(k)
                     \/ k \in S /\ StageOf(k)' = "queued" /\ k \notin L
                     \/ k \in L /\ StageOf(k)' = "lost" /\ k \in torn
  <2> SUFFICES ASSUME NEW k \in Logs
               PROVE  \/ k \notin S /\ StageOf(k)' = StageOf(k)
                      \/ k \in S /\ StageOf(k)' = "queued" /\ k \notin L
                      \/ k \in L /\ StageOf(k)' = "lost" /\ k \in torn
    OBVIOUS
  <2>1. StageOf(k)' = "lost" => k \in torn
    BY <1>1, LostIsTorn DEF RefInv
  <2> QED  BY <1>1, <1>2, <2>1 DEF StageOf
<1>4. S \in SUBSET {k \in Logs: st[k] = "stored"} /\ L \in SUBSET (S \cap torn)
  BY <1>3
<1>5. [k \in Logs |-> StageOf(k)'] =
        [k \in Logs |-> IF k \in L THEN "lost" ELSE IF k \in S THEN "queued" ELSE st[k]]
  BY <1>3
<1>6. {k \in Logs: req'[k] = "201"} = {k \in Logs: req[k] = "201"} \cup {}
  BY <1>1
<1> HIDE DEF S, L
<1> QED  BY <1>1, <1>4, <1>5, <1>6 DEF Delivery!Next, Delivery!Enqueue

LEMMA LoopSimulated ==
  ASSUME RefInv, RefInv', Next,
         Dequeue \/ Tag \/ Load \/ Check \/ Insert \/ Ack \/ RetryRemove \/ RetryPush
  PROVE  Delivery!Next
<1> USE DEF WorkerOnly, pipeline, sweep, history, Rest, Escalate
<1>0. /\ LossInv'
      /\ wpc \in Working => cur \in Message /\ cur.log \in Logs /\ Tracked(cur.log)
  BY MessageForms DEF RefInv, LossInv, TypeInv, CurTyped, CurTracked, Working
<1>1. /\ UNCHANGED <<row, req, selected>> /\ wpc # "sweepPush" /\ wpc' # "sweepPush"
      /\ \A k \in Logs: ToBePushed(k)' <=> ToBePushed(k)
  BY DEF Dequeue, Tag, Load, Check, Insert, Ack, RetryRemove, RetryPush, ToBePushed
<1>2. CASE Dequeue \/ Tag \/ Load \/ Ack
  <2>1. UNCHANGED <<handled, dlq, torn>>
    BY <1>2 DEF Dequeue, Tag, Load, Ack
  <2> QED  BY <1>0, <1>1, <2>1, WorkerQuiet
<1>3. CASE RetryRemove
  <2>1. /\ UNCHANGED <<handled, dlq>> /\ wpc = "remove"
        /\ torn' = torn \/ torn' = torn \cup {cur.log}
    BY <1>3 DEF RetryRemove
  <2> QED  BY <1>0, <1>1, <2>1, WorkerQuiet DEF Working, WithMessage
<1>4. CASE Check \/ Insert
  <2>1. /\ UNCHANGED <<mainQ, procQ, dlq, held, cur, torn>> /\ wpc \in Working
        /\ handled' = handled \/ handled' = handled \cup {cur.log}
    BY <1>4 DEF Check, Insert, Working, WithMessage
  <2>2. PICK l \in Logs: l = cur.log
    BY <1>0, <2>1
  <2>3. \A k \in Logs: Tracked(k)' <=> Tracked(k)
    BY <2>1 DEF Tracked
  <2>4. /\ \A k \in Logs: k # l => StageOf(k)' = StageOf(k)
        /\ StageOf(l)' \in {StageOf(l), "done"}
    BY <1>1, <2>1, <2>2, <2>3 DEF StageOf
  <2> QED  BY <1>1, <2>1, <2>2, <2>4, WorkerMove
<1>5. CASE RetryPush
  <2>1. /\ UNCHANGED <<procQ, handled>> /\ wpc \in Working
        /\ \/ dlq' = dlq /\ (torn' = torn \/ torn' = torn \cup {cur.log})
           \/ /\ dlq' = dlq \cup {cur.log} /\ torn' = torn /\ mainQ' = mainQ
              /\ held' = "hand" => held = "hand" /\ cur' = cur
    BY <1>5 DEF RetryPush, Working, WithMessage, Applied, Raised
  <2>2. CASE dlq' = dlq
    BY <1>0, <1>1, <2>1, <2>2, WorkerQuiet
  <2>3. CASE dlq' # dlq
    <3>1. PICK l \in Logs: l = cur.log
      BY <1>0, <2>1
    <3>2. /\ dlq' = dlq \cup {l} /\ torn' = torn /\ l \notin dlq
          /\ \A k \in Logs: k # l => (Tracked(k)' => Tracked(k))
      BY <2>1, <2>3, <3>1 DEF Tracked
    <3>3. \A k \in Logs: k # l => (Tracked(k)' <=> Tracked(k))
      BY <2>1, <2>3, <3>1, <3>2 DEF Tracked
    <3>4. \A k \in Logs: k # l => StageOf(k)' = StageOf(k)
      BY <1>1, <2>1, <3>2, <3>3 DEF StageOf
    <3>5. /\ StageOf(l)' \in {StageOf(l), "dead"}
          /\ StageOf(l)' = StageOf(l) \/ (StageOf(l) # "dead" /\ l \notin handled)
      BY <1>1, <2>1, <3>2 DEF StageOf
    <3> QED  BY <1>1, <2>1, <3>1, <3>2, <3>4, <3>5, WorkerMove
  <2> QED  BY <2>2, <2>3
<1> QED  BY <1>2, <1>3, <1>4, <1>5

LEMMA CrashAgeSimulated ==
  ASSUME RefInv, RefInv', Next, WorkerCrash \/ Age
  PROVE  Delivery!Next
<1>0. LossInv' /\ (wpc \in WithMessage => cur.log \in Logs)
  BY MessageForms DEF RefInv, LossInv, TypeInv, CurTyped
<1>1. CASE WorkerCrash
  <2>1. held = "hand" => cur.log \in Logs
    BY <1>0 DEF RefInv, LossInv, TypeInv, HandOnly, WithMessage
  <2>2. /\ UNCHANGED <<row, req, handled, dlq>> /\ wpc' # "sweepPush" /\ selected' = {}
        /\ torn' = torn \/ (held = "hand" /\ torn' = torn \cup {cur.log})
    BY <1>1 DEF WorkerCrash, WorkerOnly, pipeline, Halt, Tear
  <2> QED  BY <1>0, <2>1, <2>2, WorkerQuiet DEF ToBePushed
<1>2. CASE Age
  <2>1. UNCHANGED <<row, req, handled, dlq, torn, selected, wpc>>
    BY <1>2 DEF Age, sweep, history
  <2>2. wpc = "sweepPush" => cur'.log = cur.log
    BY <1>2, MessageForms DEF Age, RefInv, LossInv, TypeInv, CurTyped, WithMessage
  <2> QED  BY <1>0, <2>1, <2>2, WorkerQuiet DEF ToBePushed
<1> QED  BY <1>1, <1>2

LEMMA StepSimulated == RefInv /\ RefInv' /\ [Next]_vars => [Delivery!Next]_(Delivery!dvars)
<1>1. ASSUME UNCHANGED vars  PROVE UNCHANGED Delivery!dvars
  BY <1>1 DEF vars, pipeline, sweep, history, Delivery!dvars, StageOf, Tracked, ToBePushed, HasLog
<1>2. ASSUME RefInv, RefInv', Next  PROVE Delivery!Next
  BY <1>2, HandlerSimulated, StartupSimulated, SweepCommitSimulated, LoopSimulated,
     CrashAgeSimulated DEF Next, Worker
<1> QED  BY <1>1, <1>2

LEMMA InitSimulated == Init => Delivery!Init
<1>1. ASSUME Init  PROVE [l \in Logs |-> StageOf(l)] = [l \in Logs |-> "new"]
  BY <1>1 DEF Init, StageOf
<1>2. ASSUME Init  PROVE {l \in Logs: req[l] = "201"} = {} /\ torn = {}
  BY <1>2 DEF Init
<1> QED  BY <1>1, <1>2 DEF Delivery!Init

\* For any logs, depth, retry limit, deaths and failing calls, the pipeline
\* implements LogDelivery: a verdict is never taken back, an accepted log is
\* never withdrawn, and only a queued log whose message was torn is ever lost.
THEOREM PipelineImplementsDelivery == Spec => DeliveryRefined
<1> QED  BY RefInit, RefStep, InitSimulated, StepSimulated, PTL
         DEF Spec, DeliveryRefined, Delivery!Spec
=============================================================================
