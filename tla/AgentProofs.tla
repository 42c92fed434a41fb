----------------------------- MODULE AgentProofs -----------------------------
(***************************************************************************)
(* Machine-checked proofs about LogAgent, and that it implements Shipping. *)
(***************************************************************************)
EXTENDS AgentRefinement, SequenceTheorems, TLAPS

----------------------------------------------------------------------------
(* The invariant                                                           *)

Ended == {"done", "died", "killed"}

\* What the place of a thread says of what it holds, and of the order to stop.
Places ==
  /\ watcher = "put" <=> hand # <<>>
  /\ sender \in {"flush", "post", "backoff"} => batch # <<>>
  /\ sender \in {"check", "get"} => Len(batch) < BatchSize
  /\ sender \in Ended => batch = <<>>
  /\ index = 1 \/ sender \in {"post", "killed"}
  /\ sender = "post" => index <= Len(batch)
  /\ sender \in {"drain", "done"} => stop
  /\ watcher = "done" \/ main # "watch" => stop
  /\ main = "exited" => watcher \in Ended /\ sender \in Ended

\* s holds consecutive lines, the first of which is b.
RunFrom(s, b) == \A i \in DOMAIN s: s[i] = b + i - 1

\* The lines the agent holds, from the sender's batch to the watcher's hand, are
\* one run that starts at b, and that ends at the last line read unless the watcher
\* died and took its lines along.
HeldFrom(b) ==
  /\ RunFrom(batch, b) /\ RunFrom(queue, b + Len(batch))
  /\ RunFrom(hand, b + Len(batch) + Len(queue))
  /\ b + Len(batch) + Len(queue) + Len(hand) <= next
  /\ watcher # "died" => b + Len(batch) + Len(queue) + Len(hand) = next
Held == \E b \in Nat \ {0}: HeldFrom(b)

\* The lines of the batch before index are done with.
SentSoFar == sender = "post" => \A i \in 1..(index - 1): Settled(batch[i])

NoneLost ==
  \A l \in 1..(next - 1):
    \/ Settled(l) \/ l \in abandoned
    \/ l \in ToSet(batch) \/ l \in ToSet(queue) \/ l \in ToSet(hand)

GivenUp ==
  /\ abandoned # {} => stop \/ Crippled
  /\ watcher = "died" => abandoned # {}

AgentInv == TypeOK /\ Places /\ Held /\ SentSoFar /\ NoneLost /\ GivenUp

----------------------------------------------------------------------------
(* Sequences of lines                                                      *)

LEMMA EmptyHolds == <<>> \in Seq(Lines) /\ Len(<<>>) = 0 /\ DOMAIN <<>> = {} /\ ToSet(<<>>) = {}
  BY EmptySeq DEF ToSet

\* Putting a line at the end, and taking the first one.
LEMMA AppendHolds ==
  ASSUME NEW s \in Seq(Lines), NEW e \in Lines
  PROVE  /\ Append(s, e) \in Seq(Lines) /\ Len(Append(s, e)) = Len(s) + 1
         /\ ToSet(Append(s, e)) = ToSet(s) \cup {e}
         /\ \A b \in Nat: RunFrom(s, b) /\ e = b + Len(s) => RunFrom(Append(s, e), b)
<1>1. PICK n \in Nat: Len(s) = n /\ DOMAIN s = 1..n
  BY LenProperties
<1>2. /\ Append(s, e) \in Seq(Lines) /\ Len(Append(s, e)) = n + 1
      /\ \A i \in 1..n: Append(s, e)[i] = s[i]
      /\ Append(s, e)[n + 1] = e
  BY <1>1, AppendProperties
<1>3. DOMAIN Append(s, e) = 1..(n + 1)
  BY <1>2, LenProperties
<1>4. \A i \in 1..(n + 1): i \in 1..n \/ i = n + 1
  BY <1>1
<1>5. \A i \in 1..n: i \in 1..(n + 1)
  BY <1>1
<1>6. n + 1 \in 1..(n + 1)
  BY <1>1
<1>7. ToSet(Append(s, e)) = ToSet(s) \cup {e}
  BY <1>1, <1>2, <1>3, <1>4, <1>5, <1>6 DEF ToSet
<1>8. ASSUME NEW b \in Nat, RunFrom(s, b), e = b + Len(s)
      PROVE  RunFrom(Append(s, e), b)
  <2> SUFFICES ASSUME NEW i \in 1..(n + 1)  PROVE Append(s, e)[i] = b + i - 1
    BY <1>3 DEF RunFrom
  <2> QED  BY <1>1, <1>2, <1>4, <1>8 DEF RunFrom
<1> QED  BY <1>1, <1>2, <1>7, <1>8

LEMMA TailHolds ==
  ASSUME NEW s \in Seq(Lines), s # <<>>
  PROVE  /\ Head(s) \in Lines /\ Tail(s) \in Seq(Lines)
         /\ Len(Tail(s)) = Len(s) - 1 /\ Len(s) \in Nat \ {0}
         /\ ToSet(s) = ToSet(Tail(s)) \cup {Head(s)}
         /\ \A b \in Nat: RunFrom(s, b) => Head(s) = b /\ RunFrom(Tail(s), b + 1)
<1>1. PICK n \in Nat: Len(s) = n /\ DOMAIN s = 1..n
  BY LenProperties
<1>2. /\ Head(s) \in Lines /\ Tail(s) \in Seq(Lines)
      /\ Len(Tail(s)) = n - 1 /\ \A i \in 1..(n - 1): Tail(s)[i] = s[i + 1]
  BY <1>1, HeadTailProperties
<1>3. n # 0 /\ Head(s) = s[1] /\ DOMAIN Tail(s) = 1..(n - 1)
  BY <1>1, <1>2, EmptySeq, LenProperties
<1>4. 1 \in 1..n /\ \A i \in 1..(n - 1): i + 1 \in 1..n
  BY <1>1, <1>3
<1>5. \A i \in 1..n: i = 1 \/ \E j \in 1..(n - 1): i = j + 1
  <2> SUFFICES ASSUME NEW i \in 1..n, i # 1  PROVE \E j \in 1..(n - 1): i = j + 1
    OBVIOUS
  <2>1. i - 1 \in 1..(n - 1) /\ i = (i - 1) + 1
    BY <1>1
  <2> QED  BY <2>1
<1>6. ToSet(s) = ToSet(Tail(s)) \cup {Head(s)}
  <2>1. \A i \in DOMAIN s: s[i] \in ToSet(Tail(s)) \cup {Head(s)}
    <3> SUFFICES ASSUME NEW i \in 1..n, i # 1  PROVE s[i] \in ToSet(Tail(s))
      BY <1>1, <1>3
    <3>1. PICK j \in 1..(n - 1): i = j + 1
      BY <1>5
    <3>2. s[i] = Tail(s)[j] /\ j \in DOMAIN Tail(s)
      BY <1>2, <1>3, <3>1
    <3> QED  BY <3>2 DEF ToSet
  <2>2. \A i \in DOMAIN Tail(s): Tail(s)[i] \in ToSet(s)
    BY <1>1, <1>2, <1>3, <1>4 DEF ToSet
  <2>3. Head(s) \in ToSet(s)
    BY <1>1, <1>3, <1>4 DEF ToSet
  <2> QED  BY <2>1, <2>2, <2>3 DEF ToSet
<1>7. ASSUME NEW b \in Nat, RunFrom(s, b)  PROVE Head(s) = b /\ RunFrom(Tail(s), b + 1)
  <2>1. Head(s) = b
    BY <1>1, <1>3, <1>4, <1>7 DEF RunFrom
  <2>2. \A i \in 1..(n - 1): Tail(s)[i] = (b + 1) + i - 1
    <3> SUFFICES ASSUME NEW i \in 1..(n - 1)  PROVE Tail(s)[i] = (b + 1) + i - 1
      OBVIOUS
    <3>1. s[i + 1] = b + (i + 1) - 1
      BY <1>1, <1>4, <1>7 DEF RunFrom
    <3> QED  BY <1>1, <1>2, <1>7, <3>1
  <2> QED  BY <1>3, <2>1, <2>2 DEF RunFrom
<1> QED  BY <1>1, <1>2, <1>3, <1>6, <1>7

----------------------------------------------------------------------------
(* Types and places                                                        *)

LEMMA AgentInit == Init => AgentInv
<1> SUFFICES ASSUME Init  PROVE AgentInv
  OBVIOUS
<1>1. /\ Len(batch) = 0 /\ Len(queue) = 0 /\ Len(hand) = 0 /\ next = 1
      /\ batch = <<>> /\ queue = <<>> /\ hand = <<>>
  BY EmptyHolds DEF Init
<1>2. TypeOK
  <2>1. 1 \in 1..(MaxLines + 1) /\ 1 \in 1..BatchSize /\ Rate \in 0..Rate /\ 0 \in 0..MaxFaults
    BY SizeAssumption
  <2>2. copies \in [Lines -> 0..2] /\ dropped \subseteq Lines /\ abandoned \subseteq Lines
    BY DEF Init
  <2>3. /\ batch \in Seq(Lines) /\ queue \in Seq(Lines) /\ hand \in Seq(Lines)
        /\ 0 <= MaxPoll /\ 0 <= QueueSize /\ 0 <= BatchSize
    BY <1>1, EmptyHolds, SizeAssumption
  <2>4. /\ index = 1 /\ quota = Rate /\ faults = 0 /\ stop = FALSE
        /\ watcher = "poll" /\ sender = "check" /\ main = "watch"
    BY DEF Init
  <2> QED  BY <1>1, <2>1, <2>2, <2>3, <2>4 DEF TypeOK
<1>3. Places
  BY <1>1, SizeAssumption DEF Init, Places, Ended
<1>4. HeldFrom(1)
  BY <1>1, EmptyHolds DEF HeldFrom, RunFrom
<1>5. SentSoFar /\ NoneLost /\ GivenUp
  BY <1>1 DEF Init, SentSoFar, NoneLost, GivenUp
<1> QED  BY <1>2, <1>3, <1>4, <1>5 DEF AgentInv, Held

\* What every way to post has in common.
LEMMA PostParts ==
  ASSUME TypeOK, Places, Post \/ SenderDies
  PROVE  /\ sender = "post" /\ SenderOnly /\ queue' = queue
         /\ index \in 1..Len(batch) /\ batch[index] \in Lines /\ Len(batch) \in Nat
         /\ quota' \in 0..Rate /\ copies' \in [Lines -> 0..2]
         /\ dropped' \subseteq Lines /\ faults' \in 0..MaxFaults
         /\ \A l \in Lines: Settled(l) => Settled(l)'
         /\ Post => abandoned' = abandoned /\ (AfterSend \/ SendFails)
<1>1. sender = "post" /\ SenderOnly /\ queue' = queue
  BY DEF Post, PostAccepted, PostPermanent, PostLimited, PostRefused, PostUnanswered,
         SenderDies, Posting
<1>2. Len(batch) \in Nat /\ index \in 1..Len(batch)
  BY <1>1, LenProperties DEF TypeOK, Places
<1>3. batch[index] \in Lines
  BY <1>2, ElementOfSeq DEF TypeOK
<1>4. faults' \in 0..MaxFaults
  BY SizeAssumption DEF Post, PostAccepted, PostPermanent, PostLimited, PostRefused,
       PostUnanswered, SenderDies, Fault, TypeOK
<1>5. Admitted \/ UNCHANGED server
  BY DEF Post, PostAccepted, PostPermanent, PostLimited, PostRefused, PostUnanswered, SenderDies
<1>6. quota' \in 0..Rate
  BY <1>5, SizeAssumption DEF Admitted, server, TypeOK
<1>7. copies' \in [Lines -> 0..2] /\ \A l \in Lines: copies[l] > 0 => copies'[l] > 0
  <2>1. copies \in [Lines -> 0..2]
    BY DEF TypeOK
  <2>2. CASE UNCHANGED server
    BY <2>1, <2>2 DEF server
  <2>3. CASE Admitted
    <3> DEFINE l0 == batch[index]
               c  == IF copies[l0] < 2 THEN copies[l0] + 1 ELSE copies[l0]
    <3>1. copies' = [copies EXCEPT ![l0] = c]
      BY <2>3 DEF Admitted
    <3>2. l0 \in Lines /\ copies[l0] \in 0..2
      BY <1>3, <2>1
    <3>3. c \in 0..2 /\ c > 0
      BY <3>2
    <3> HIDE DEF c, l0
    <3>4. copies' \in [Lines -> 0..2]
      BY <2>1, <3>1, <3>3
    <3>5. \A l \in Lines: copies'[l] = IF l = l0 THEN c ELSE copies[l]
      BY <2>1, <3>1
    <3> QED  BY <3>3, <3>4, <3>5
  <2> QED  BY <1>5, <2>2, <2>3
<1>8. dropped' \in {dropped, dropped \cup {batch[index]}}
  BY DEF Post, PostAccepted, PostPermanent, PostLimited, PostRefused, PostUnanswered, SenderDies
<1>9. Post => abandoned' = abandoned /\ (AfterSend \/ SendFails)
  BY DEF Post, PostAccepted, PostPermanent, PostLimited, PostRefused, PostUnanswered
<1> QED  BY <1>1, <1>2, <1>3, <1>4, <1>6, <1>7, <1>8, <1>9 DEF TypeOK, Settled

LEMMA PolledLines ==
  ASSUME NEW n \in 1..MaxPoll, TypeOK, next + n <= MaxLines + 1
  PROVE  LET polled == [i \in 1..n |-> next + i - 1]
         IN  /\ polled \in Seq(Lines) /\ Len(polled) = n /\ polled # <<>>
             /\ RunFrom(polled, next)
             /\ \A l \in 1..(next + n - 1): l \in 1..(next - 1) \/ l \in ToSet(polled)
<1> DEFINE polled == [i \in 1..n |-> next + i - 1]
<1>1. n \in Nat /\ n > 0 /\ next \in Nat /\ next > 0 /\ MaxLines \in Nat
  BY SizeAssumption DEF TypeOK
<1>2. polled \in [1..n -> Lines]
  BY <1>1 DEF Lines
<1> HIDE DEF polled
<1>3. polled \in Seq(Lines)
  BY <1>1, <1>2, SeqDef
<1>4. /\ Len(polled) = n /\ DOMAIN polled = 1..n
      /\ \A i \in 1..n: polled[i] = next + i - 1
  BY <1>1, <1>2, <1>3, LenProperties DEF polled
<1>5. polled # <<>>
  BY <1>1, <1>4, EmptyHolds
<1>6. RunFrom(polled, next)
  BY <1>4 DEF RunFrom
<1>7. ASSUME NEW l \in 1..(next + n - 1), l \notin 1..(next - 1)
      PROVE  l \in ToSet(polled)
  <2>1. PICK i \in 1..n: i = l - next + 1
    BY <1>1, <1>7
  <2>2. polled[i] = l
    BY <1>1, <1>4, <2>1
  <2> QED  BY <1>4, <2>2 DEF ToSet
<1> QED  BY <1>3, <1>4, <1>5, <1>6, <1>7 DEF polled

LEMMA TypesStep ==
  ASSUME TypeOK, Places, [Next]_vars
  PROVE  TypeOK' /\ Places'
<1>1. CASE Poll
  <2>1. PICK n \in 1..MaxPoll:
          /\ watcher = "poll" /\ next + n <= MaxLines + 1 /\ next' = next + n
          /\ hand' = [i \in 1..n |-> next + i - 1]
          /\ watcher' = "put" /\ WatcherOnly /\ UNCHANGED <<queue, abandoned, faults>>
    BY <1>1 DEF Poll
  <2>2. hand' \in Seq(Lines) /\ Len(hand') <= MaxPoll /\ hand' # <<>>
    BY <2>1, PolledLines, SizeAssumption
  <2>3. next' \in 1..(MaxLines + 1)
    BY <2>1, SizeAssumption DEF TypeOK
  <2> QED  BY <2>1, <2>2, <2>3 DEF TypeOK, Places, WatcherOnly, server, Ended
<1>2. CASE WatcherStops
  BY <1>2 DEF WatcherStops, WatcherOnly, server, TypeOK, Places, Ended
<1>3. CASE Put
  <2>1. hand # <<>> /\ hand \in Seq(Lines) /\ queue \in Seq(Lines)
    BY <1>3 DEF Put, TypeOK, Places
  <2>2. /\ Head(hand) \in Lines /\ hand' \in Seq(Lines)
        /\ Len(hand') = Len(hand) - 1 /\ Len(hand) \in Nat \ {0}
    BY <1>3, <2>1, TailHolds DEF Put
  <2>3. queue' \in Seq(Lines) /\ Len(queue') = Len(queue) + 1 /\ Len(queue) \in Nat
    BY <1>3, <2>1, <2>2, AppendHolds, LenProperties DEF Put
  <2>4. hand' = <<>> <=> Len(hand) = 1
    BY <2>2, EmptySeq
  <2>5. Len(hand') <= MaxPoll /\ Len(queue') <= QueueSize
    BY <1>3, <2>2, <2>3, SizeAssumption DEF TypeOK, Put
  <2> QED  BY <1>3, <2>2, <2>3, <2>4, <2>5 DEF Put, WatcherOnly, server, TypeOK, Places, Ended
<1>4. CASE ParseRaises
  <2>1. ToSet(hand) \subseteq Lines
    BY ElementOfSeq, LenProperties DEF ToSet, TypeOK
  <2> QED  BY <1>4, <2>1, EmptyHolds, SizeAssumption
           DEF ParseRaises, WatcherOnly, server, TypeOK, Places, Ended
<1>5. CASE CheckStop
  BY <1>5 DEF CheckStop, Collecting, SenderOnly, server, TypeOK, Places, Ended
<1>6. CASE Get \/ (Drain /\ queue # <<>>)
  <2>1. /\ queue # <<>> /\ queue' = Tail(queue) /\ batch' = Append(batch, Head(queue))
        /\ Collecting /\ abandoned' = abandoned
        /\ queue \in Seq(Lines) /\ batch \in Seq(Lines)
    BY <1>6 DEF Get, Drain, TypeOK
  <2>2. /\ Head(queue) \in Lines /\ queue' \in Seq(Lines)
        /\ Len(queue') = Len(queue) - 1 /\ Len(queue) \in Nat \ {0}
    BY <2>1, TailHolds
  <2>3. /\ batch' \in Seq(Lines) /\ Len(batch') = Len(batch) + 1 /\ Len(batch) \in Nat
        /\ batch' # <<>>
    BY <2>1, <2>2, AppendHolds, AppendProperties, LenProperties
  <2>4. Len(queue') <= QueueSize
    BY <2>2, SizeAssumption DEF TypeOK
  <2>5. CASE Get
    <3>1. sender = "get" /\ sender' = IF Len(batch) + 1 >= BatchSize THEN "flush" ELSE "check"
      BY <2>5 DEF Get
    <3>2. Len(batch') <= BatchSize /\ (sender' = "check" => Len(batch') < BatchSize)
      BY <2>3, <3>1, SizeAssumption DEF Places
    <3> QED  BY <2>1, <2>2, <2>3, <2>4, <3>1, <3>2
             DEF Collecting, SenderOnly, server, TypeOK, Places, Ended
  <2>6. CASE Drain
    <3>1. sender = "drain" /\ sender' = "drain"
      BY <2>1, <2>6 DEF Drain
    <3> QED  BY <2>1, <2>2, <2>3, <2>4, <3>1
             DEF Collecting, SenderOnly, server, TypeOK, Places, Ended
  <2> QED  BY <1>6, <2>5, <2>6
<1>7. CASE GetEmpty
  BY <1>7 DEF GetEmpty, Collecting, SenderOnly, server, TypeOK, Places, Ended
<1>8. ToSet(batch) \subseteq Lines /\ ToSet(queue) \subseteq Lines /\ ToSet(hand) \subseteq Lines
  BY ElementOfSeq, LenProperties DEF ToSet, TypeOK
<1>9. /\ <<>> \in Seq(Lines) /\ Len(<<>>) = 0
      /\ 0 < BatchSize /\ 0 <= BatchSize /\ 0 <= QueueSize /\ 0 <= MaxPoll /\ 1 \in 1..BatchSize
  BY EmptyHolds, SizeAssumption
<1>10. CASE Flush
  <2>1. CASE stop
    BY <1>8, <1>9, <1>10, <2>1 DEF Flush, SenderOnly, server, TypeOK, Places, Ended
  <2>2. CASE ~stop
    <3>1. Len(batch) \in Nat \ {0} /\ index = 1
      BY <1>10, EmptySeq, LenProperties DEF Flush, TypeOK, Places
    <3> QED  BY <1>10, <2>2, <3>1 DEF Flush, SenderOnly, server, TypeOK, Places, Ended
  <2> QED  BY <2>1, <2>2
<1>11. CASE Post
  <2>1. /\ sender = "post" /\ SenderOnly /\ queue' = queue
        /\ index \in 1..Len(batch) /\ Len(batch) \in Nat
        /\ quota' \in 0..Rate /\ copies' \in [Lines -> 0..2]
        /\ dropped' \subseteq Lines /\ faults' \in 0..MaxFaults
        /\ abandoned' = abandoned /\ (AfterSend \/ SendFails)
    BY <1>11, PostParts
  <2>2. CASE index < Len(batch) /\ AfterSend
    <3>1. index' = index + 1 /\ sender' = sender /\ batch' = batch
      BY <2>2 DEF AfterSend
    <3>2. index' \in 1..BatchSize /\ index' <= Len(batch')
      BY <2>1, <2>2, <3>1, SizeAssumption DEF TypeOK
    <3> QED  BY <2>1, <3>1, <3>2 DEF SenderOnly, TypeOK, Places, Ended
  <2>3. CASE ~(index < Len(batch)) /\ AfterSend
    BY <1>9, <2>1, <2>3 DEF AfterSend, SenderOnly, TypeOK, Places, Ended
  <2>4. CASE SendFails
    BY <1>9, <2>1, <2>4 DEF SendFails, RetryFrom, SenderOnly, TypeOK, Places, Ended
  <2> QED  BY <2>1, <2>2, <2>3, <2>4
<1>12. CASE Backoff
  BY <1>12 DEF Backoff, Collecting, SenderOnly, server, TypeOK, Places, Ended
<1>13. CASE Drain /\ queue = <<>>
  BY <1>8, <1>9, <1>13 DEF Drain, Collecting, SenderOnly, server, TypeOK, Places, Ended
<1>14. CASE SenderDies
  <2>1. /\ sender = "post" /\ SenderOnly /\ queue' = queue
        /\ quota' \in 0..Rate /\ copies' \in [Lines -> 0..2]
        /\ dropped' \subseteq Lines /\ faults' \in 0..MaxFaults
    BY <1>14, PostParts
  <2>2. /\ abandoned' = abandoned \cup ToSet(batch) /\ batch' = <<>>
        /\ index' = 1 /\ sender' = "died"
    BY <1>14 DEF SenderDies
  <2> QED  BY <1>8, <1>9, <2>1, <2>2 DEF SenderOnly, TypeOK, Places, Ended
<1>15. CASE Signal
  BY <1>15 DEF Signal, threads, server, TypeOK, Places, Ended
<1>16. CASE MainNotices
  BY <1>16 DEF MainNotices, server, TypeOK, Places, Ended
<1>17. CASE Exit
  BY <1>8, <1>9, <1>17 DEF Exit, server, TypeOK, Places, Ended
<1>18. CASE Window
  <2>1. quota' \in 0..Rate
    BY <1>18, SizeAssumption DEF Window
  <2> QED  BY <1>18, <2>1 DEF Window, threads, TypeOK, Places, Ended
<1>19. CASE UNCHANGED vars
  BY <1>19 DEF vars, threads, server, TypeOK, Places, Ended
<1> QED
  BY <1>1, <1>2, <1>3, <1>4, <1>5, <1>6, <1>7, <1>10, <1>11, <1>12, <1>13, <1>14, <1>15,
     <1>16, <1>17, <1>18, <1>19
  DEF Next, Watcher, Sender, Main

----------------------------------------------------------------------------
(* The run of lines the agent holds                                        *)

LEMMA EmptyRun == \A b: RunFrom(<<>>, b)
  BY EmptyHolds DEF RunFrom

LEMMA HeldSame ==
  ASSUME NEW b \in Nat, HeldFrom(b), UNCHANGED <<next, hand, queue, batch, watcher>>
  PROVE  HeldFrom(b)'
  BY DEF HeldFrom, RunFrom

\* The threads pass lines on without changing the run; a poll makes it longer, and a
\* watcher that dies makes it shorter.
LEMMA HeldOn ==
  ASSUME TypeOK, Places, NEW b \in Nat, HeldFrom(b),
         Watcher \/ Get \/ (Drain /\ queue # <<>>)
  PROVE  HeldFrom(b)'
<1>1. /\ batch \in Seq(Lines) /\ queue \in Seq(Lines) /\ hand \in Seq(Lines)
      /\ Len(batch) \in Nat /\ Len(queue) \in Nat /\ Len(hand) \in Nat /\ next \in Nat
  BY LenProperties, SizeAssumption DEF TypeOK
<1>2. CASE Poll
  <2>1. PICK n \in 1..MaxPoll:
          /\ watcher = "poll" /\ next + n <= MaxLines + 1 /\ next' = next + n
          /\ hand' = [i \in 1..n |-> next + i - 1]
          /\ watcher' = "put" /\ UNCHANGED <<batch, queue>>
    BY <1>2 DEF Poll, WatcherOnly
  <2>2. Len(hand') = n /\ RunFrom(hand', next) /\ n \in Nat
    BY <2>1, PolledLines, SizeAssumption
  <2>3. hand = <<>>
    BY <2>1 DEF Places
  <2>4. b + Len(batch) + Len(queue) = next
    BY <1>1, <2>1, <2>3, EmptyHolds DEF HeldFrom
  <2>5. /\ b + Len(batch') + Len(queue') = next
        /\ b + Len(batch') + Len(queue') + Len(hand') = next'
    BY <1>1, <2>1, <2>2, <2>4
  <2>6. RunFrom(hand', b + Len(batch') + Len(queue')) /\ next' <= next'
    BY <1>1, <2>1, <2>2, <2>5
  <2> QED  BY <2>1, <2>5, <2>6 DEF HeldFrom, RunFrom
<1>3. CASE WatcherStops
  BY <1>3 DEF WatcherStops, WatcherOnly, HeldFrom, RunFrom
<1>4. CASE Put
  <2>1. /\ hand # <<>> /\ queue' = Append(queue, Head(hand)) /\ hand' = Tail(hand)
        /\ UNCHANGED <<next, batch>> /\ watcher # "died" /\ watcher' # "died"
    BY <1>4 DEF Put, WatcherOnly, Places
  <2>2. b + Len(batch) + Len(queue) \in Nat /\ b + Len(batch) \in Nat
    BY <1>1
  <2>3. /\ Head(hand) = b + Len(batch) + Len(queue) /\ Head(hand) \in Lines
        /\ RunFrom(hand', b + Len(batch) + Len(queue) + 1) /\ Len(hand') = Len(hand) - 1
    BY <1>1, <2>1, <2>2, TailHolds DEF HeldFrom
  <2>4. RunFrom(queue', b + Len(batch)) /\ Len(queue') = Len(queue) + 1
    BY <1>1, <2>1, <2>2, <2>3, AppendHolds DEF HeldFrom
  <2>5. /\ b + Len(batch') + Len(queue') = b + Len(batch) + Len(queue) + 1
        /\ b + Len(batch') + Len(queue') + Len(hand') = b + Len(batch) + Len(queue) + Len(hand)
    BY <1>1, <2>1, <2>3, <2>4
  <2>6. RunFrom(hand', b + Len(batch') + Len(queue')) /\ RunFrom(batch', b)
    BY <2>1, <2>3, <2>5 DEF HeldFrom
  <2> QED  BY <2>1, <2>4, <2>5, <2>6 DEF HeldFrom, RunFrom
<1>5. CASE ParseRaises
  <2>1. hand' = <<>> /\ Len(hand') = 0 /\ UNCHANGED <<next, batch, queue>> /\ watcher' = "died"
    BY <1>5, EmptyHolds DEF ParseRaises, WatcherOnly
  <2>2. RunFrom(hand', b + Len(batch') + Len(queue'))
    BY <2>1, EmptyRun
  <2>3. b + Len(batch') + Len(queue') + Len(hand') <= next'
    BY <1>1, <2>1 DEF HeldFrom
  <2> QED  BY <2>1, <2>2, <2>3 DEF HeldFrom, RunFrom
<1>6. CASE Get \/ (Drain /\ queue # <<>>)
  <2>1. /\ queue # <<>> /\ queue' = Tail(queue) /\ batch' = Append(batch, Head(queue))
        /\ UNCHANGED <<next, hand, watcher>>
    BY <1>6 DEF Get, Drain, Collecting, SenderOnly
  <2>2. b + Len(batch) \in Nat
    BY <1>1
  <2>3. /\ Head(queue) = b + Len(batch) /\ Head(queue) \in Lines
        /\ RunFrom(queue', b + Len(batch) + 1) /\ Len(queue') = Len(queue) - 1
    BY <1>1, <2>1, <2>2, TailHolds DEF HeldFrom
  <2>4. RunFrom(batch', b) /\ Len(batch') = Len(batch) + 1
    BY <1>1, <2>1, <2>3, AppendHolds DEF HeldFrom
  <2>5. /\ b + Len(batch') = b + Len(batch) + 1
        /\ b + Len(batch') + Len(queue') = b + Len(batch) + Len(queue)
    BY <1>1, <2>3, <2>4
  <2>6. RunFrom(queue', b + Len(batch')) /\ RunFrom(hand', b + Len(batch') + Len(queue'))
    BY <2>1, <2>3, <2>5 DEF HeldFrom
  <2> QED  BY <2>1, <2>4, <2>5, <2>6 DEF HeldFrom, RunFrom
<1> QED  BY <1>2, <1>3, <1>4, <1>5, <1>6 DEF Watcher

\* A batch that is sent or given up leaves at the front of the run.
LEMMA HeldCleared ==
  ASSUME NEW b \in Nat, HeldFrom(b), NEW c \in Nat, c = b + Len(batch),
         batch' = <<>>, UNCHANGED <<next, hand, queue, watcher>>
  PROVE  HeldFrom(c)'
<1>1. Len(batch') = 0 /\ RunFrom(batch', c) /\ c + Len(batch') = c
  BY EmptyHolds, EmptyRun
<1> QED  BY <1>1 DEF HeldFrom, RunFrom

\* A process that exits holds nothing.
LEMMA HeldNothing ==
  ASSUME NEW b \in Nat, batch' = <<>>, queue' = <<>>, hand' = <<>>, next' = b
  PROVE  HeldFrom(b)'
<1>1. Len(batch') = 0 /\ Len(queue') = 0 /\ Len(hand') = 0
  BY EmptyHolds
<1>2. b + Len(batch') + Len(queue') + Len(hand') = b
  BY <1>1
<1> QED  BY <1>2, EmptyRun DEF HeldFrom, RunFrom

LEMMA HeldStep ==
  ASSUME TypeOK, Places, Held, [Next]_vars
  PROVE  Held'
<1>1. PICK b \in Nat \ {0}: HeldFrom(b)
  BY DEF Held
<1>2. b \in Nat /\ next \in Nat \ {0} /\ b + Len(batch) \in Nat \ {0}
  BY <1>1, LenProperties, SizeAssumption DEF TypeOK
<1>3. CASE Watcher \/ Get \/ (Drain /\ queue # <<>>)
  BY <1>1, <1>2, <1>3, HeldOn DEF Held
<1>4. CASE batch' = <<>> /\ UNCHANGED <<next, hand, queue, watcher>>
  <2>1. PICK c \in Nat \ {0}: c = b + Len(batch)
    BY <1>2
  <2>2. HeldFrom(c)'
    BY <1>1, <1>4, <2>1, HeldCleared
  <2> QED  BY <2>2 DEF Held
<1>5. CASE UNCHANGED <<next, hand, queue, batch, watcher>>
  BY <1>1, <1>2, <1>5, HeldSame DEF Held
<1>6. CASE Exit
  <2>1. PICK c \in Nat \ {0}: c = next
    BY <1>2
  <2>2. HeldFrom(c)'
    BY <1>6, <2>1, HeldNothing DEF Exit
  <2> QED  BY <2>2 DEF Held
<1>7. CASE Post
  BY <1>4, <1>5, <1>7, PostParts DEF AfterSend, SendFails, RetryFrom, SenderOnly
<1>8. CASE SenderDies
  BY <1>4, <1>8, PostParts DEF SenderDies, SenderOnly
<1>9. CASE Flush \/ (Drain /\ queue = <<>>)
  BY <1>4, <1>5, <1>9 DEF Flush, Drain, Collecting, SenderOnly
<1>10. CASE CheckStop \/ GetEmpty \/ Backoff \/ Signal \/ MainNotices \/ Window \/ UNCHANGED vars
  BY <1>5, <1>10
  DEF CheckStop, GetEmpty, Backoff, Collecting, SenderOnly, Signal, MainNotices, Window,
      threads, vars
<1> QED  BY <1>3, <1>6, <1>7, <1>8, <1>9, <1>10 DEF Next, Sender, Main

----------------------------------------------------------------------------
(* No line is forgotten                                                    *)

LEMMA LossStep ==
  ASSUME AgentInv, TypeOK', [Next]_vars
  PROVE  SentSoFar' /\ NoneLost' /\ GivenUp'
<1>0. TypeOK /\ Places /\ SentSoFar /\ NoneLost /\ GivenUp
  BY DEF AgentInv
<1>1. /\ batch \in Seq(Lines) /\ queue \in Seq(Lines) /\ hand \in Seq(Lines)
      /\ next \in 1..(MaxLines + 1) /\ MaxLines \in Nat
  BY <1>0, SizeAssumption DEF TypeOK
<1>2. \A l \in 1..(next - 1): l \in Lines
  BY <1>1 DEF Lines
<1>3. CASE Poll
  <2>1. PICK n \in 1..MaxPoll:
          /\ next + n <= MaxLines + 1 /\ next' = next + n
          /\ hand' = [i \in 1..n |-> next + i - 1]
          /\ watcher = "poll" /\ watcher' = "put" /\ WatcherOnly /\ UNCHANGED <<queue, abandoned>>
    BY <1>3 DEF Poll
  <2>2. \A l \in 1..(next' - 1): l \in 1..(next - 1) \/ l \in ToSet(hand')
    <3>1. \A l \in 1..(next + n - 1): l \in 1..(next - 1) \/ l \in ToSet(hand')
      BY <1>0, <2>1, PolledLines
    <3>2. next' - 1 = next + n - 1
      BY <1>1, <2>1, SizeAssumption
    <3> QED  BY <3>1, <3>2
  <2>3. hand = <<>>
    BY <1>0, <2>1 DEF Places
  <2> QED  BY <1>0, <2>1, <2>2, <2>3, EmptyHolds
           DEF WatcherOnly, server, SentSoFar, NoneLost, GivenUp, Settled, Crippled
<1>4. CASE Put
  <2>1. /\ hand # <<>> /\ queue' = Append(queue, Head(hand)) /\ hand' = Tail(hand)
        /\ watcher = "put" /\ watcher' # "died" /\ WatcherOnly /\ UNCHANGED <<next, abandoned>>
    BY <1>0, <1>4 DEF Put, Places
  <2>2. Head(hand) \in Lines /\ ToSet(hand) = ToSet(hand') \cup {Head(hand)}
    BY <1>1, <2>1, TailHolds
  <2>3. ToSet(queue') = ToSet(queue) \cup {Head(hand)}
    BY <1>1, <2>1, <2>2, AppendHolds
  <2> QED  BY <1>0, <2>1, <2>2, <2>3
           DEF WatcherOnly, server, SentSoFar, NoneLost, GivenUp, Settled, Crippled
<1>5. CASE ParseRaises
  <2>1. ToSet(hand) # {}
    <3>1. hand # <<>>
      BY <1>0, <1>5 DEF ParseRaises, Places
    <3> QED  BY <1>1, <3>1, TailHolds
  <2> QED  BY <1>0, <1>5, <2>1
           DEF ParseRaises, WatcherOnly, server, SentSoFar, NoneLost, GivenUp, Settled, Crippled
<1>6. CASE Get \/ (Drain /\ queue # <<>>)
  <2>1. /\ queue # <<>> /\ queue' = Tail(queue) /\ batch' = Append(batch, Head(queue))
        /\ Collecting /\ abandoned' = abandoned
        /\ sender \in {"get", "drain"} /\ sender' \in {"flush", "check", "drain"}
    BY <1>6 DEF Get, Drain
  <2>2. Head(queue) \in Lines /\ ToSet(queue) = ToSet(queue') \cup {Head(queue)}
    BY <1>1, <2>1, TailHolds
  <2>3. ToSet(batch') = ToSet(batch) \cup {Head(queue)}
    BY <1>1, <2>1, <2>2, AppendHolds
  <2> QED  BY <1>0, <2>1, <2>2, <2>3
           DEF Collecting, SenderOnly, server, SentSoFar, NoneLost, GivenUp, Settled, Crippled
<1>7. CASE Post
  <2>1. /\ sender = "post" /\ SenderOnly /\ queue' = queue
        /\ index \in 1..Len(batch) /\ batch[index] \in Lines /\ Len(batch) \in Nat
        /\ \A l \in Lines: Settled(l) => Settled(l)'
        /\ abandoned' = abandoned /\ (AfterSend \/ SendFails)
    BY <1>0, <1>7, PostParts
  <2>2. PICK x \in Lines: x = batch[index]
    BY <2>1
  <2>3. DOMAIN batch = 1..Len(batch) /\ \A i \in DOMAIN batch: batch[i] \in Lines
    BY <1>1, ElementOfSeq, LenProperties
  <2>4. /\ UNCHANGED <<next, hand, queue, stop, watcher, abandoned>> /\ sender # "died"
        /\ \A l \in 1..(next - 1): Settled(l) => Settled(l)'
    BY <1>2, <2>1 DEF SenderOnly
  <2>5. \A i \in 1..(index - 1): Settled(batch[i]) /\ i \in DOMAIN batch
    BY <1>0, <2>1, <2>3 DEF SentSoFar
  <2>6. \A i \in 1..(index - 1): \E y \in Lines: y = batch[i] /\ Settled(y)'
    BY <2>1, <2>3, <2>5
  <2>7. CASE PostAccepted \/ PostPermanent
    <3>1. AfterSend
      BY <2>7 DEF PostAccepted, PostPermanent
    <3>2. Settled(x)'
      <4>1. CASE PostAccepted
        <5>1. copies'[x] > 0
          <6>1. copies \in [Lines -> 0..2]
            BY <1>0 DEF TypeOK
          <6>2. copies' = [copies EXCEPT ![x] = IF @ < 2 THEN @ + 1 ELSE @]
            BY <2>2, <4>1 DEF PostAccepted, Admitted
          <6>3. /\ copies[x] \in 0..2
                /\ copies'[x] = IF copies[x] < 2 THEN copies[x] + 1 ELSE copies[x]
            BY <6>1, <6>2
          <6> QED  BY <6>3
        <5> QED  BY <5>1 DEF Settled
      <4>2. CASE PostPermanent
        BY <2>2, <4>2 DEF PostPermanent, Settled
      <4> QED  BY <2>7, <4>1, <4>2
    <3>3. \A i \in 1..index: \E y \in Lines: y = batch[i] /\ Settled(y)'
      <4>1. \A i \in 1..index: i \in 1..(index - 1) \/ i = index
        BY <2>1
      <4> QED  BY <2>2, <2>6, <3>2, <4>1
    <3>4. CASE index < Len(batch)
      <4>1. index' = index + 1 /\ sender' = sender /\ batch' = batch /\ index' - 1 = index
        BY <2>1, <3>1, <3>4 DEF AfterSend
      <4>2. SentSoFar'
        BY <3>3, <4>1 DEF SentSoFar, Settled
      <4> QED  BY <1>0, <2>4, <4>1, <4>2 DEF NoneLost, GivenUp, Crippled
    <3>5. CASE ~(index < Len(batch))
      <4>1. batch' = <<>> /\ sender' = "check" /\ DOMAIN batch = 1..index
        <5>1. index = Len(batch)
          BY <2>1, <3>5
        <5> QED  BY <2>3, <3>1, <3>5, <5>1 DEF AfterSend
      <4>2. \A l \in ToSet(batch): Settled(l)'
        <5> SUFFICES ASSUME NEW i \in DOMAIN batch, NEW l, l = batch[i]  PROVE Settled(l)'
          BY DEF ToSet
        <5> QED  BY <3>3, <4>1 DEF Settled
      <4>3. NoneLost'
        BY <1>0, <2>4, <4>2 DEF NoneLost
      <4> QED  BY <1>0, <2>4, <4>1, <4>3 DEF SentSoFar, GivenUp, Crippled
    <3> QED  BY <3>4, <3>5
  <2>8. CASE SendFails
    <3>1. batch' = batch /\ sender' = "backoff"
      BY <2>8 DEF SendFails, RetryFrom
    <3> QED  BY <1>0, <2>4, <3>1 DEF SentSoFar, NoneLost, GivenUp, Crippled
  <2> QED  BY <1>7, <2>7, <2>8 DEF Post, PostLimited, PostRefused, PostUnanswered
<1>8. ASSUME UNCHANGED <<next, hand, queue, server, dropped, watcher>>,
             \/ abandoned' = abandoned \cup ToSet(batch) /\ batch' = <<>>
             \/ UNCHANGED <<batch, abandoned>>
      PROVE  NoneLost'
  <2>1. \A l \in Lines: Settled(l) => Settled(l)'
    BY <1>8 DEF server, Settled
  <2> QED  BY <1>0, <1>2, <1>8, <2>1 DEF NoneLost
<1>9. CASE CheckStop \/ GetEmpty \/ Flush \/ Backoff \/ (Drain /\ queue = <<>>)
  <2>1. /\ UNCHANGED <<next, hand, queue, server, dropped, watcher, stop>> /\ index' = index
        /\ \/ abandoned' = abandoned \cup ToSet(batch) /\ batch' = <<>> /\ stop
           \/ UNCHANGED <<batch, abandoned>>
        /\ sender' # "died" /\ sender # "died" /\ sender # "post"
        /\ sender' = "post" => sender = "flush"
    BY <1>0, <1>9
    DEF CheckStop, GetEmpty, Flush, Backoff, Drain, Collecting, SenderOnly, Places
  <2>2. NoneLost'
    BY <1>8, <2>1
  <2>3. sender' = "post" => index' = 1
    BY <1>0, <2>1 DEF Places
  <2> QED  BY <1>0, <2>1, <2>2, <2>3 DEF SentSoFar, GivenUp, Crippled
<1>10. CASE SenderDies
  <2>1. /\ UNCHANGED <<next, hand, queue, server, dropped, watcher, stop>>
        /\ abandoned' = abandoned \cup ToSet(batch) /\ batch' = <<>> /\ sender' = "died"
    BY <1>10 DEF SenderDies, Posting, SenderOnly
  <2> QED  BY <1>0, <1>8, <2>1 DEF SentSoFar, GivenUp, Crippled
<1>11. CASE Signal \/ MainNotices \/ Window \/ UNCHANGED vars
  <2>1. UNCHANGED <<next, hand, queue, batch, index, watcher, sender, copies, dropped, abandoned>>
        /\ (stop => stop')
    BY <1>11 DEF Signal, MainNotices, Window, vars, threads, server
  <2> QED  BY <1>0, <2>1 DEF SentSoFar, NoneLost, GivenUp, Crippled, Settled
<1>12. CASE Exit
  <2>1. /\ abandoned' = abandoned \cup ToSet(hand) \cup ToSet(queue) \cup ToSet(batch)
        /\ UNCHANGED <<next, dropped, copies>> /\ stop' /\ sender' # "post"
        /\ watcher' = "died" => watcher = "died"
    BY <1>0, <1>12 DEF Exit, server, Places
  <2>2. NoneLost'
    BY <1>0, <2>1 DEF NoneLost, Settled
  <2> QED  BY <1>0, <2>1, <2>2 DEF SentSoFar, GivenUp
<1>13. CASE WatcherStops
  BY <1>0, <1>13
     DEF WatcherStops, WatcherOnly, server, SentSoFar, NoneLost, GivenUp, Settled, Crippled
<1> QED
  BY <1>3, <1>4, <1>5, <1>6, <1>7, <1>9, <1>10, <1>11, <1>12, <1>13
  DEF Next, Watcher, Sender, Main

LEMMA AgentStep == AgentInv /\ [Next]_vars => AgentInv'
  BY TypesStep, HeldStep, LossStep DEF AgentInv

\* For any file, queue, batches, quota and faults: every variable of the agent keeps
\* its type; the queue never outgrows queue_size, nor a batch that is being sent
\* batch_size.
THEOREM AgentTypes == Spec => []TypeOK
<1>1. AgentInv => TypeOK
  BY DEF AgentInv
<1> QED  BY <1>1, AgentInit, AgentStep, PTL DEF Spec

----------------------------------------------------------------------------
(* The run as one sequence                                                 *)

LEMMA InFlightParts ==
  ASSUME TypeOK
  PROVE  /\ InFlight \in Seq(Lines)
         /\ Len(InFlight) = Len(batch) + Len(queue) + Len(hand)
         /\ \A i \in DOMAIN batch: i \in DOMAIN InFlight /\ InFlight[i] = batch[i]
         /\ \A b \in Nat: HeldFrom(b) => RunFrom(InFlight, b)
         /\ ToSet(InFlight) = ToSet(batch) \cup ToSet(queue) \cup ToSet(hand)
<1>1. PICK m \in Nat, n \in Nat, k \in Nat:
        /\ batch \in Seq(Lines) /\ queue \in Seq(Lines) /\ hand \in Seq(Lines)
        /\ Len(batch) = m /\ Len(queue) = n /\ Len(hand) = k
        /\ DOMAIN batch = 1..m /\ DOMAIN queue = 1..n /\ DOMAIN hand = 1..k
  BY LenProperties DEF TypeOK
<1>2. /\ batch \o queue \in Seq(Lines) /\ Len(batch \o queue) = m + n
      /\ \A i \in 1..(m + n): (batch \o queue)[i] = IF i <= m THEN batch[i] ELSE queue[i - m]
  BY <1>1, ConcatProperties
<1>3. /\ InFlight \in Seq(Lines) /\ Len(InFlight) = (m + n) + k
      /\ \A i \in 1..(m + n + k):
           InFlight[i] = IF i <= m + n THEN (batch \o queue)[i] ELSE hand[i - (m + n)]
  <2>1. PICK v \in Seq(Lines): v = batch \o queue
    BY <1>2
  <2>2. InFlight = v \o hand /\ Len(v) = m + n
    BY <1>2, <2>1 DEF InFlight
  <2>3. /\ v \o hand \in Seq(Lines) /\ Len(v \o hand) = (m + n) + k
        /\ \A i \in 1..((m + n) + k):
             (v \o hand)[i] = IF i <= m + n THEN v[i] ELSE hand[i - (m + n)]
    <3>1. /\ v \o hand \in Seq(Lines) /\ Len(v \o hand) = Len(v) + Len(hand)
          /\ \A i \in 1..Len(v) + Len(hand):
               (v \o hand)[i] = IF i <= Len(v) THEN v[i] ELSE hand[i - Len(v)]
      BY <1>1, ConcatProperties
    <3> QED  BY <1>1, <2>2, <3>1
  <2> QED  BY <2>1, <2>2, <2>3
<1>4. DOMAIN InFlight = 1..(m + n + k)
  BY <1>3, LenProperties
<1>5. /\ \A i \in 1..m: i \in 1..(m + n + k) /\ InFlight[i] = batch[i]
      /\ \A i \in 1..n: m + i \in 1..(m + n + k) /\ InFlight[m + i] = queue[i]
      /\ \A i \in 1..k: m + n + i \in 1..(m + n + k) /\ InFlight[m + n + i] = hand[i]
  <2>1. \A i \in 1..m: i \in 1..(m + n + k) /\ InFlight[i] = batch[i]
    BY <1>1, <1>2, <1>3
  <2>2. ASSUME NEW i \in 1..n  PROVE m + i \in 1..(m + n + k) /\ InFlight[m + i] = queue[i]
    <3>1. /\ m + i \in 1..(m + n) /\ m + i <= m + n /\ ~(m + i <= m) /\ m + i - m = i
          /\ m + i \in 1..(m + n + k)
      BY <1>1
    <3>2. (batch \o queue)[m + i] = queue[i]
      BY <1>2, <3>1
    <3> QED  BY <1>3, <3>1, <3>2
  <2>3. ASSUME NEW i \in 1..k
        PROVE  m + n + i \in 1..(m + n + k) /\ InFlight[m + n + i] = hand[i]
    <3>1. /\ m + n + i \in 1..(m + n + k) /\ ~(m + n + i <= m + n)
          /\ m + n + i - (m + n) = i
      BY <1>1
    <3> QED  BY <1>3, <3>1
  <2> QED  BY <2>1, <2>2, <2>3
<1>6. ASSUME NEW i \in 1..(m + n + k)
      PROVE  \/ i \in 1..m
             \/ \E j \in 1..n: i = m + j
             \/ \E j \in 1..k: i = m + n + j
  <2>1. CASE i <= m
    BY <2>1
  <2>2. CASE i > m /\ i <= m + n
    <3>1. i - m \in 1..n /\ i = m + (i - m)
      BY <1>1, <2>2
    <3> QED  BY <3>1
  <2>3. CASE i > m + n
    <3>1. i - (m + n) \in 1..k /\ i = m + n + (i - (m + n))
      BY <1>1, <2>3
    <3> QED  BY <3>1
  <2> QED  BY <1>1, <2>1, <2>2, <2>3
<1>7. ASSUME NEW b \in Nat, HeldFrom(b)  PROVE RunFrom(InFlight, b)
  <2> SUFFICES ASSUME NEW i \in 1..(m + n + k)  PROVE InFlight[i] = b + i - 1
    BY <1>4 DEF RunFrom
  <2>1. CASE i \in 1..m
    BY <1>1, <1>5, <1>7, <2>1 DEF HeldFrom, RunFrom
  <2>2. ASSUME NEW j \in 1..n, i = m + j  PROVE InFlight[i] = b + i - 1
    <3>1. queue[j] = b + m + j - 1
      BY <1>1, <1>7 DEF HeldFrom, RunFrom
    <3> QED  BY <1>1, <1>5, <2>2, <3>1
  <2>3. ASSUME NEW j \in 1..k, i = m + n + j  PROVE InFlight[i] = b + i - 1
    <3>1. hand[j] = b + m + n + j - 1
      BY <1>1, <1>7 DEF HeldFrom, RunFrom
    <3> QED  BY <1>1, <1>5, <2>3, <3>1
  <2> QED  BY <1>6, <2>1, <2>2, <2>3
<1>8. ToSet(InFlight) = ToSet(batch) \cup ToSet(queue) \cup ToSet(hand)
  <2>1. \A i \in 1..(m + n + k): InFlight[i] \in ToSet(batch) \cup ToSet(queue) \cup ToSet(hand)
    <3> SUFFICES ASSUME NEW i \in 1..(m + n + k)
                 PROVE  InFlight[i] \in ToSet(batch) \cup ToSet(queue) \cup ToSet(hand)
      OBVIOUS
    <3>1. CASE i \in 1..m
      BY <1>1, <1>5, <3>1 DEF ToSet
    <3>2. ASSUME NEW j \in 1..n, i = m + j  PROVE InFlight[i] \in ToSet(queue)
      BY <1>1, <1>5, <3>2 DEF ToSet
    <3>3. ASSUME NEW j \in 1..k, i = m + n + j  PROVE InFlight[i] \in ToSet(hand)
      BY <1>1, <1>5, <3>3 DEF ToSet
    <3> QED  BY <1>6, <3>1, <3>2, <3>3
  <2>2. /\ \A i \in 1..m: batch[i] \in ToSet(InFlight)
        /\ \A i \in 1..n: queue[i] \in ToSet(InFlight)
        /\ \A i \in 1..k: hand[i] \in ToSet(InFlight)
    BY <1>4, <1>5 DEF ToSet
  <2> QED  BY ZenonT(40), <1>1, <1>4, <2>1, <2>2 DEF ToSet
<1> QED  BY <1>1, <1>3, <1>4, <1>5, <1>7, <1>8

LEMMA RunImpliesNoGap == AgentInv => NoGap
<1> SUFFICES ASSUME AgentInv  PROVE NoGap
  OBVIOUS
<1>1. PICK b \in Nat \ {0}: HeldFrom(b)
  BY DEF AgentInv, Held
<1>2. PICK n \in Nat: Len(InFlight) = n /\ DOMAIN InFlight = 1..n
  BY InFlightParts, LenProperties DEF AgentInv
<1>3. RunFrom(InFlight, b) /\ n = Len(batch) + Len(queue) + Len(hand)
  BY <1>1, <1>2, InFlightParts DEF AgentInv
<1>4. \A i \in 1..n: InFlight[i] = b + i - 1
  BY <1>2, <1>3 DEF RunFrom
<1>5. abandoned = {} => b + n = next
  <2>1. Len(batch) \in Nat /\ Len(queue) \in Nat /\ Len(hand) \in Nat
    BY LenProperties DEF AgentInv, TypeOK
  <2> QED  BY <1>1, <1>3, <2>1 DEF AgentInv, GivenUp, HeldFrom
<1>6. \A i \in DOMAIN InFlight: abandoned = {} => InFlight[i] = next - Len(InFlight) + i - 1
  BY <1>1, <1>2, <1>4, <1>5
<1>7. \A i, j \in DOMAIN InFlight: i < j => InFlight[i] < InFlight[j]
  BY <1>1, <1>2, <1>4
<1>8. \A l \in 1..(next - 1): Settled(l) \/ l \in abandoned \/ l \in ToSet(InFlight)
  BY InFlightParts DEF AgentInv, NoneLost
<1> QED  BY <1>6, <1>7, <1>8 DEF NoGap, AgentInv, GivenUp

\* For any file, sizes, quota and number of faults: the agent hands lines on in the
\* order of the file, and every line read is with the server, dropped, given up, or
\* in the run of lines the agent still holds.
THEOREM AgentSkipsNoLine == Spec => []NoGap
  BY AgentInit, AgentStep, RunImpliesNoGap, PTL DEF Spec

----------------------------------------------------------------------------
(* The agent implements Shipping                                           *)

\* Where the cursor of Shipping is, in terms of the run that starts at b.
CursorIs(b) ==
  /\ NoMorePosts => Cursor = 0 /\ Base = 0
  /\ ~NoMorePosts => Cursor = b + index - 1 /\ Base = b
CursorFollows == \A b \in Nat \ {0}: AgentInv /\ HeldFrom(b) => CursorIs(b)

LEMMA CursorKnown == CursorFollows
<1> SUFFICES ASSUME NEW b \in Nat \ {0}, AgentInv, HeldFrom(b)  PROVE CursorIs(b)
  BY DEF CursorFollows
<1>1. TypeOK /\ Places /\ GivenUp
  BY DEF AgentInv
<1>2. CASE NoMorePosts
  BY <1>2 DEF CursorIs, Cursor, Base, Unless
<1>3. CASE ~NoMorePosts
  <2>1. sender \notin {"drain", "done", "died", "killed"}
    BY <1>3 DEF NoMorePosts
  <2>2. index \in Nat \ {0} /\ next \in Nat
    BY <1>1, SizeAssumption DEF TypeOK
  <2>3. /\ Len(batch) \in Nat /\ Len(queue) \in Nat /\ Len(hand) \in Nat
        /\ DOMAIN batch = 1..Len(batch)
    BY <1>1, LenProperties DEF TypeOK
  <2>4. /\ InFlight \in Seq(Lines) /\ Len(InFlight) = Len(batch) + Len(queue) + Len(hand)
        /\ RunFrom(InFlight, b)
    BY <1>1, InFlightParts
  <2>5. CASE InFlight = <<>>
    <3>1. Len(batch) = 0 /\ Len(queue) = 0 /\ Len(hand) = 0
      BY <2>3, <2>4, <2>5, EmptyHolds
    <3>2. watcher # "died"
      BY <1>1, <1>3, <2>5 DEF NoMorePosts, GivenUp
    <3>3. b = next
      BY <3>1, <3>2 DEF HeldFrom
    <3>4. index = 1
      BY <1>1, <2>1, <2>2, <3>1 DEF Places
    <3> QED  BY <1>3, <2>5, <3>3, <3>4 DEF CursorIs, Cursor, Base, Unless
  <2>6. CASE InFlight # <<>>
    <3>1. PICK n \in Nat: Len(InFlight) = n /\ DOMAIN InFlight = 1..n /\ n # 0
      BY <2>4, <2>6, EmptySeq, LenProperties
    <3>2. index <= n
      BY <1>1, <2>1, <2>2, <2>3, <2>4, <3>1 DEF Places
    <3>3. InFlight[index] = b + index - 1 /\ InFlight[1] = b
      BY <2>2, <2>4, <3>1, <3>2 DEF RunFrom
    <3> QED  BY <1>3, <2>6, <3>3 DEF CursorIs, Cursor, Base, Unless
  <2> QED  BY <2>5, <2>6
<1> QED  BY <1>2, <1>3

LEMMA CursorKnownNext == CursorFollows'
  BY CursorKnown, PTL

\* When no line will be posted any more, none is.
LEMMA OverStaysOver == AgentInv /\ NoMorePosts /\ [Next]_vars => NoMorePosts'
<1> SUFFICES ASSUME AgentInv, NoMorePosts, [Next]_vars  PROVE NoMorePosts'
  OBVIOUS
<1>1. TypeOK /\ Places /\ GivenUp
  BY DEF AgentInv
<1> USE <1>1
<1>2. InFlight = <<>> => batch = <<>> /\ queue = <<>> /\ hand = <<>>
  <2>1. Len(InFlight) = Len(batch) + Len(queue) + Len(hand)
    BY InFlightParts
  <2>2. /\ batch \in Seq(Lines) /\ queue \in Seq(Lines) /\ hand \in Seq(Lines)
        /\ Len(batch) \in Nat /\ Len(queue) \in Nat /\ Len(hand) \in Nat
    BY LenProperties DEF TypeOK
  <2> QED  BY <2>1, <2>2, EmptySeq
<1>3. sender # "post"
  BY <1>2 DEF NoMorePosts, Places
<1>4. ~Post /\ ~SenderDies
  BY <1>3, PostParts
<1>5. CASE sender \in {"drain", "done", "died", "killed"}
  <2>1. sender' \in {"drain", "done", "died", "killed"}
    BY <1>4, <1>5
    DEF Next, Watcher, Poll, WatcherStops, Put, ParseRaises, WatcherOnly, Sender, CheckStop,
        Get, GetEmpty, Flush, Backoff, Drain, Signal, Main, MainNotices, Exit, Window,
        threads, vars
  <2> QED  BY <2>1 DEF NoMorePosts
<1>6. CASE stop /\ sender \notin {"drain", "done", "died", "killed"}
  <2>1. stop' /\ sender' # "post"
    BY <1>3, <1>4, <1>6
    DEF Next, Watcher, Poll, WatcherStops, Put, ParseRaises, WatcherOnly, Sender, CheckStop,
        Get, GetEmpty, Flush, Backoff, Drain, Collecting, SenderOnly, Signal, Main,
        MainNotices, Exit, Window, threads, vars
  <2> QED  BY <2>1 DEF NoMorePosts
<1>7. CASE ~stop /\ sender \notin {"drain", "done", "died", "killed"}
  <2>1. abandoned # {} /\ batch = <<>> /\ queue = <<>> /\ hand = <<>> /\ watcher = "died"
    BY <1>2, <1>7 DEF NoMorePosts, GivenUp, Crippled
  <2>2. batch' = <<>> /\ queue' = <<>> /\ hand' = <<>>
    BY <1>4, <2>1, <1>7
    DEF Next, Watcher, Poll, WatcherStops, Put, ParseRaises, Sender, CheckStop,
        Get, GetEmpty, Flush, Backoff, Drain, Collecting, SenderOnly, Signal, Main,
        MainNotices, Exit, Window, threads, vars
  <2>3. abandoned' # {}
    BY <1>4, <2>1, <1>7
    DEF Next, Watcher, Poll, WatcherStops, Put, ParseRaises, Sender, CheckStop,
        Get, GetEmpty, Flush, Backoff, Drain, Signal, Main, MainNotices, Exit, Window, vars
  <2>4. InFlight' = <<>>
    BY <2>2, EmptyHolds, ConcatEmptySeq DEF InFlight
  <2> QED  BY <2>3, <2>4 DEF NoMorePosts
<1> QED  BY <1>5, <1>6, <1>7

\* A step that accepts and drops no line ends the shipping, or leaves it alone.
LEMMA ShippingEnds ==
  ASSUME AgentInv, AgentInv', NoMorePosts', UNCHANGED <<copies, dropped>>
  PROVE  [Shipped!Next]_<<Cursor, Base, copies, dropped>>
<1>1. PICK b \in Nat \ {0}: HeldFrom(b)
  BY DEF AgentInv, Held
<1>2. PICK c \in Nat \ {0}: HeldFrom(c)'
  BY DEF AgentInv, Held
<1>3. Cursor' = 0 /\ Base' = 0
  BY <1>2, CursorKnownNext DEF CursorFollows, CursorIs
<1>4. CASE NoMorePosts
  BY <1>1, <1>3, <1>4, CursorKnown DEF CursorFollows, CursorIs
<1>5. CASE ~NoMorePosts
  <2>1. Cursor # 0
    <3>1. Cursor = b + index - 1
      BY <1>1, <1>5, CursorKnown DEF CursorFollows, CursorIs
    <3>2. index \in Nat \ {0}
      BY SizeAssumption DEF AgentInv, TypeOK
    <3> QED  BY <3>1, <3>2
  <2> QED  BY <1>3, <2>1 DEF Shipped!Next, Shipped!Stop, Shipped!End, Shipped!Over
<1> QED  BY <1>4, <1>5

\* What the sender does after a post is what Shipping does.
LEMMA AfterPost ==
  ASSUME AgentInv, AgentInv', Post
  PROVE  /\ Cursor = batch[index] /\ Cursor \in Lines
         /\ AfterSend => Shipped!MoveOn
         /\ SendFails => Shipped!GoBack
<1>1. PICK b \in Nat \ {0}: HeldFrom(b)
  BY DEF AgentInv, Held
<1>2. TypeOK /\ Places
  BY DEF AgentInv
<1>3. /\ sender = "post" /\ SenderOnly /\ queue' = queue
      /\ index \in 1..Len(batch) /\ batch[index] \in Lines /\ Len(batch) \in Nat
      /\ abandoned' = abandoned
  BY <1>2, PostParts
<1>4. ~NoMorePosts
  <2>1. Len(InFlight) = Len(batch) + Len(queue) + Len(hand)
    BY <1>2, InFlightParts
  <2>2. Len(queue) \in Nat /\ Len(hand) \in Nat
    BY <1>2, LenProperties DEF TypeOK
  <2>3. InFlight # <<>>
    BY <1>3, <2>1, <2>2, EmptyHolds
  <2> QED  BY <1>3, <2>3 DEF NoMorePosts
<1>5. Cursor = b + index - 1 /\ Base = b
  BY <1>1, <1>4, CursorKnown DEF CursorFollows, CursorIs
<1>6. batch[index] = b + index - 1
  BY <1>1, <1>2, <1>3, LenProperties DEF HeldFrom, RunFrom, TypeOK
<1>7. PICK d \in Nat \ {0}: HeldFrom(d)'
  BY DEF AgentInv, Held
<1>8. NoMorePosts' => Cursor' = 0 /\ Base' = 0
  BY <1>7, CursorKnownNext DEF CursorFollows, CursorIs
<1>9. ASSUME NEW c \in Nat \ {0}, HeldFrom(c)', ~NoMorePosts'
      PROVE  Cursor' = c + index' - 1 /\ Base' = c
  BY <1>9, CursorKnownNext DEF CursorFollows, CursorIs
<1>10. b \in Nat /\ UNCHANGED <<next, hand, queue, watcher>>
  BY <1>3 DEF SenderOnly
<1>11. ASSUME AfterSend, ~NoMorePosts'  PROVE Shipped!MoveOn
  <2>1. CASE index < Len(batch)
    <3>1. index' = index + 1 /\ batch' = batch
      BY <1>11, <2>1 DEF AfterSend
    <3>2. HeldFrom(b)'
      BY <1>1, <1>10, <3>1, HeldSame
    <3>3. Cursor' = b + (index + 1) - 1 /\ Base' = b
      BY <1>9, <1>11, <3>1, <3>2
    <3>4. index + 1 <= BatchSize /\ BatchSize \in Nat
      BY <1>2, <1>3, <2>1, SizeAssumption DEF TypeOK
    <3>5. Cursor' = Cursor + 1 /\ Base' = Base /\ Cursor' < Base' + BatchSize
      BY <1>3, <1>5, <3>3, <3>4
    <3> QED  BY <3>5 DEF Shipped!MoveOn
  <2>2. CASE ~(index < Len(batch))
    <3>1. index' = 1 /\ batch' = <<>> /\ index = Len(batch)
      BY <1>3, <1>11, <2>2 DEF AfterSend
    <3>2. PICK c \in Nat \ {0}: c = b + Len(batch)
      BY <1>3
    <3>3. HeldFrom(c)'
      BY <1>1, <1>10, <3>1, <3>2, HeldCleared
    <3>4. Cursor' = c + 1 - 1 /\ Base' = c
      BY <1>9, <1>11, <3>1, <3>3
    <3>5. Cursor' = Cursor + 1 /\ Base' = Cursor' /\ Cursor' < Base' + BatchSize
      BY <1>3, <1>5, <3>1, <3>2, <3>4, SizeAssumption
    <3> QED  BY <3>5 DEF Shipped!MoveOn
  <2> QED  BY <2>1, <2>2
<1>12. ASSUME SendFails, ~NoMorePosts'  PROVE Shipped!GoBack
  <2>1. index' = 1 /\ batch' = batch
    BY <1>12 DEF SendFails, RetryFrom
  <2>2. HeldFrom(b)'
    BY <1>1, <1>10, <2>1, HeldSame
  <2>3. Cursor' = b + 1 - 1 /\ Base' = b
    BY <1>9, <1>12, <2>1, <2>2
  <2> QED  BY <1>5, <2>3 DEF Shipped!GoBack
<1>13. NoMorePosts' => Shipped!End
  BY <1>8 DEF Shipped!End, Shipped!Over
<1> QED
  BY <1>3, <1>5, <1>6, <1>11, <1>12, <1>13 DEF Shipped!MoveOn, Shipped!GoBack

LEMMA PostShipped ==
  ASSUME AgentInv, AgentInv', Post
  PROVE  Shipped!Next
<1>1. /\ Cursor = batch[index] /\ Cursor \in Shipped!Lines
      /\ AfterSend => Shipped!MoveOn
      /\ SendFails => Shipped!GoBack
  BY AfterPost DEF Shipped!Lines, Lines
<1>2. Admitted => Shipped!Accepted
  BY <1>1 DEF Admitted, Shipped!Accepted
<1>3. CASE PostAccepted
  BY <1>1, <1>2, <1>3 DEF PostAccepted, Shipped!Next, Shipped!Ship
<1>4. CASE PostPermanent
  BY <1>1, <1>4 DEF PostPermanent, server, Shipped!Next, Shipped!Drop
<1>5. CASE PostLimited
  BY <1>1, <1>5 DEF PostLimited, server, Shipped!Next, Shipped!Retry
<1>6. CASE PostRefused
  BY <1>1, <1>6 DEF PostRefused, server, Shipped!Next, Shipped!Retry
<1>7. CASE PostUnanswered
  BY <1>1, <1>2, <1>7 DEF PostUnanswered, Shipped!Next, Shipped!Ship
<1> QED  BY <1>3, <1>4, <1>5, <1>6, <1>7 DEF Post

LEMMA StepShipped ==
  AgentInv /\ AgentInv' /\ [Next]_vars => [Shipped!Next]_<<Cursor, Base, copies, dropped>>
<1> SUFFICES ASSUME AgentInv, AgentInv', [Next]_vars
             PROVE  [Shipped!Next]_<<Cursor, Base, copies, dropped>>
  OBVIOUS
<1>1. CASE Post
  BY <1>1, PostShipped
<1>2. CASE ~Post
  <2>1. UNCHANGED <<copies, dropped>>
    BY <1>2
    DEF Next, Watcher, Poll, WatcherStops, Put, ParseRaises, WatcherOnly, Sender, CheckStop,
        Get, GetEmpty, Flush, Backoff, Drain, Collecting, SenderDies, Signal, Main,
        MainNotices, Exit, Window, server, vars
  <2>2. CASE NoMorePosts'
    BY <2>1, <2>2, ShippingEnds
  <2>3. CASE ~NoMorePosts'
    <3>1. ~NoMorePosts
      BY <2>3, OverStaysOver
    <3>2. sender' \notin {"drain", "done", "died", "killed"} /\ (stop' => sender' = "post")
      BY <2>3 DEF NoMorePosts
    <3>3. sender \notin {"drain", "done", "died", "killed"}
      BY <3>1 DEF NoMorePosts
    <3>4. /\ index' = index
          /\ \/ Watcher \/ Get
             \/ UNCHANGED <<next, hand, queue, batch, watcher>>
      BY <1>2, <3>2, <3>3
      DEF Next, Watcher, Poll, WatcherStops, Put, ParseRaises, WatcherOnly, Sender, CheckStop,
          Get, GetEmpty, Flush, Backoff, Drain, Collecting, SenderOnly, SenderDies, Signal,
          Main, MainNotices, Exit, Window, threads, vars
    <3>5. PICK b \in Nat \ {0}: HeldFrom(b)
      BY DEF AgentInv, Held
    <3>6. b \in Nat /\ TypeOK /\ Places
      BY <3>5 DEF AgentInv
    <3>7. HeldFrom(b)'
      BY <3>4, <3>5, <3>6, HeldOn, HeldSame
    <3>8. Cursor = b + index - 1 /\ Base = b
      BY <3>1, <3>5, CursorKnown DEF CursorFollows, CursorIs
    <3>9. Cursor' = b + index' - 1 /\ Base' = b
      BY <2>3, <3>5, <3>7, CursorKnownNext DEF CursorFollows, CursorIs
    <3> QED  BY <2>1, <3>4, <3>8, <3>9
  <2> QED  BY <2>2, <2>3
<1> QED  BY <1>1, <1>2

LEMMA InitShipped == Init => Shipped!Init
<1> SUFFICES ASSUME Init  PROVE Shipped!Init
  OBVIOUS
<1>1. HeldFrom(1) /\ AgentInv
  BY AgentInit, EmptyHolds, EmptyRun DEF Init, HeldFrom
<1>2. ~NoMorePosts /\ index = 1
  BY DEF Init, NoMorePosts
<1>3. Cursor = 1 + 1 - 1 /\ Base = 1
  BY <1>1, <1>2, CursorKnown DEF CursorFollows, CursorIs
<1>4. copies = [l \in Shipped!Lines |-> 0] /\ dropped = {}
  BY DEF Init, Shipped!Lines, Lines
<1> QED  BY <1>3, <1>4 DEF Shipped!Init

\* For any file, sizes, quota and number of faults: whatever the threads, the queue,
\* the rate limiter and a stop do, the server gets the lines in the order of the
\* file, and a line again only because a failed batch starts over.
THEOREM AgentImplementsShipping == Spec => ShippingRefined
<1>1. AgentInv /\ [Next]_vars => [Shipped!Next]_<<Cursor, Base, copies, dropped>>
  BY AgentStep, StepShipped
<1> QED  BY <1>1, AgentInit, AgentStep, InitShipped, PTL DEF Spec, ShippingRefined, Shipped!Spec
=============================================================================
