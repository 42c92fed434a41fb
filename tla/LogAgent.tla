------------------------------ MODULE LogAgent ------------------------------
(***************************************************************************)
(* The log shipping agent: a watcher thread that puts the lines of one     *)
(* file into a bounded queue, a sender thread that posts them in batches,  *)
(* the main thread that watches both, and POST /logs behind its rate       *)
(* limiter.  Lines are numbered in the order of the file.                  *)
(***************************************************************************)
EXTENDS Naturals, Sequences, FiniteSets, SequencesExt

CONSTANTS MaxLines,   \* bound: lines the file ever gets
          MaxPoll,    \* bound: lines one poll returns
          QueueSize,  \* config.queue_size
          BatchSize,  \* config.sentinel.batch_size
          Rate,       \* settings.RATE_LIMIT_LOGS_PER_MINUTE
          Impossible, \* lines with a timestamp of the right form that is no date
          MaxFaults   \* bound: failing posts and sender threads

ASSUME SizeAssumption ==
  /\ QueueSize \in Nat \ {0} /\ BatchSize \in Nat \ {0} /\ Rate \in Nat \ {0}
  /\ MaxLines \in Nat /\ MaxPoll \in Nat \ {0} /\ MaxFaults \in Nat
  /\ Impossible \subseteq 1..MaxLines

VARIABLES
  next,      \* the next line the watcher will read
  hand,      \* lines of the last poll not yet put
  queue,     \* input_queue
  watcher,   \* "poll", "put", or how the thread ended
  sender,    \* where the sender thread is
  batch,     \* run()'s batch; while it is flushed, _flush_batch's pending
  index,     \* position in pending of the next post
  stop,      \* stop_event
  main,      \* the main thread: "watch", "join", "exited"
  quota,     \* requests the rate limiter still admits in this minute
  \* history
  copies,    \* how often POST /logs accepted each line, up to 2
  dropped,   \* lines the sender dropped on a permanent error
  abandoned, \* lines given up when the agent stops
  faults

threads == <<watcher, sender, main>>
server  == <<quota, copies>>
vars == <<next, hand, queue, threads, batch, index, stop, server,
          dropped, abandoned, faults>>

Lines == 1..MaxLines

TypeOK ==
  /\ next \in 1..(MaxLines + 1)
  /\ hand \in Seq(Lines) /\ Len(hand) <= MaxPoll
  /\ queue \in Seq(Lines) /\ Len(queue) <= QueueSize
  /\ watcher \in {"poll", "put", "done", "died", "killed"}
  /\ sender \in {"check", "get", "flush", "post", "backoff", "drain", "done", "died", "killed"}
  /\ batch \in Seq(Lines)
  /\ sender # "drain" => Len(batch) <= BatchSize
  /\ index \in 1..BatchSize
  /\ stop \in BOOLEAN
  /\ main \in {"watch", "join", "exited"}
  /\ quota \in 0..Rate
  /\ copies \in [Lines -> 0..2]
  /\ dropped \subseteq Lines /\ abandoned \subseteq Lines
  /\ faults \in 0..MaxFaults

Init ==
  /\ next = 1 /\ hand = <<>> /\ queue = <<>>
  /\ watcher = "poll" /\ sender = "check" /\ main = "watch"
  /\ batch = <<>> /\ index = 1 /\ stop = FALSE
  /\ quota = Rate
  /\ copies = [l \in Lines |-> 0]
  /\ dropped = {} /\ abandoned = {} /\ faults = 0

Fault == faults < MaxFaults /\ faults' = faults + 1

----------------------------------------------------------------------------
(* LogWatcher.run                                                          *)

WatcherOnly == UNCHANGED <<sender, main, batch, index, stop, server, dropped>>

\* The loop's test of stop_event, and a poll that finds n new lines.
Poll == \E n \in 1..MaxPoll:
  /\ watcher = "poll" /\ ~stop /\ next + n <= MaxLines + 1
  /\ hand' = [i \in 1..n |-> next + i - 1]
  /\ next' = next + n
  /\ watcher' = "put"
  /\ WatcherOnly /\ UNCHANGED <<queue, abandoned, faults>>

WatcherStops ==
  /\ watcher = "poll" /\ stop
  /\ watcher' = "done"
  /\ WatcherOnly /\ UNCHANGED <<next, hand, queue, abandoned, faults>>

\* Mutant: a queue without maxsize.
PutUnbounded ==
  /\ watcher = "put" /\ Head(hand) \notin Impossible
  /\ queue' = Append(queue, Head(hand))
  /\ hand' = Tail(hand)
  /\ watcher' = IF Len(hand) = 1 THEN "poll" ELSE "put"
  /\ WatcherOnly /\ UNCHANGED <<next, abandoned, faults>>

\* parse_log_line and the put, which blocks while the queue is full.
Put ==
  /\ watcher = "put" /\ Head(hand) \notin Impossible
  /\ Len(queue) < QueueSize
  /\ queue' = Append(queue, Head(hand))
  /\ hand' = Tail(hand)
  /\ watcher' = IF Len(hand) = 1 THEN "poll" ELSE "put"
  /\ WatcherOnly /\ UNCHANGED <<next, abandoned, faults>>

\* parse_timestamp raises ValueError on a date that does not exist; nothing
\* catches it, and the thread ends with the lines in its hand.
ParseRaises ==
  /\ watcher = "put" /\ Head(hand) \in Impossible
  /\ watcher' = "died"
  /\ abandoned' = abandoned \cup ToSet(hand) /\ hand' = <<>>
  /\ WatcherOnly /\ UNCHANGED <<next, queue, faults>>

----------------------------------------------------------------------------
(* LogSender.run, _flush_batch and _send_pending                           *)

SenderOnly == UNCHANGED <<next, hand, watcher, main, stop>>
Collecting == SenderOnly /\ UNCHANGED <<index, server, dropped, faults>>

\* The loop's test of stop_event.
CheckStop ==
  /\ sender = "check"
  /\ sender' = IF stop THEN "drain" ELSE "get"
  /\ Collecting /\ UNCHANGED <<queue, batch, abandoned>>

\* get returns a line; a full batch is flushed.
Get ==
  /\ sender = "get" /\ queue # <<>>
  /\ batch' = Append(batch, Head(queue)) /\ queue' = Tail(queue)
  /\ sender' = IF Len(batch) + 1 >= BatchSize THEN "flush" ELSE "check"
  /\ Collecting /\ UNCHANGED abandoned

\* Mutant: a partial batch waits for more lines.
GetEmptyWaits ==
  /\ sender = "get" /\ queue = <<>>
  /\ sender' = "check"
  /\ Collecting /\ UNCHANGED <<queue, batch, abandoned>>

\* get times out: what there is of a batch is flushed.
GetEmpty ==
  /\ sender = "get" /\ queue = <<>>
  /\ sender' = IF batch # <<>> THEN "flush" ELSE "check"
  /\ Collecting /\ UNCHANGED <<queue, batch, abandoned>>

\* _flush_batch's loop test: after stop_event pending is given up with a warning.
Flush ==
  /\ sender = "flush"
  /\ IF stop
     THEN /\ abandoned' = abandoned \cup ToSet(batch) /\ batch' = <<>> /\ sender' = "check"
     ELSE sender' = "post" /\ UNCHANGED <<batch, abandoned>>
  /\ SenderOnly /\ UNCHANGED <<queue, index, server, dropped, faults>>

\* Mutant: the lines are not cleared from run()'s batch once they are sent.
AfterSendKept ==
  IF index < Len(batch)
  THEN index' = index + 1 /\ UNCHANGED <<sender, batch>>
  ELSE index' = 1 /\ sender' = "check" /\ UNCHANGED batch

\* The next line of pending; after the last one batch is empty again.
AfterSend ==
  IF index < Len(batch)
  THEN index' = index + 1 /\ UNCHANGED <<sender, batch>>
  ELSE index' = 1 /\ batch' = <<>> /\ sender' = "check"

\* Mutant: pending is cut after the failing line instead of before it.
RetryFromNext == batch' = SubSeq(batch, index + 1, Len(batch))

\* The exception loses the value of unsent: all of pending is sent again.
RetryFrom == UNCHANGED batch

SendFails == RetryFrom /\ index' = 1 /\ sender' = "backoff"

Posting ==
  sender = "post" /\ SenderOnly /\ UNCHANGED queue

Admitted ==
  /\ quota > 0 /\ quota' = quota - 1
  /\ copies' = [copies EXCEPT ![batch[index]] = IF @ < 2 THEN @ + 1 ELSE @]

\* 2xx.
PostAccepted ==
  /\ Posting /\ Admitted /\ AfterSend
  /\ UNCHANGED <<dropped, abandoned, faults>>

\* 400, 401, 403, 404 or 422: the line is dropped.
PostPermanent ==
  /\ Posting /\ Fault
  /\ dropped' = dropped \cup {batch[index]}
  /\ AfterSend /\ UNCHANGED <<server, abandoned>>

\* 429 from the rate limiter.
PostLimited ==
  /\ Posting /\ quota = 0 /\ SendFails
  /\ UNCHANGED <<server, dropped, abandoned, faults>>

\* No connection, 5xx, or a full ingestion queue: not accepted.
PostRefused ==
  /\ Posting /\ Fault /\ SendFails
  /\ UNCHANGED <<server, dropped, abandoned>>

\* Accepted, but the answer comes after request_timeout or never.
PostUnanswered ==
  /\ Posting /\ Admitted /\ Fault /\ SendFails
  /\ UNCHANGED <<dropped, abandoned>>

\* sleep(backoff) ends.
Backoff ==
  /\ sender = "backoff" /\ sender' = "flush"
  /\ Collecting /\ UNCHANGED <<queue, batch, abandoned>>

\* After the loop: get_nowait until the queue is empty, and the last
\* _flush_batch, whose loop test fails because stop_event is set.
Drain ==
  /\ sender = "drain"
  /\ IF queue # <<>>
     THEN /\ batch' = Append(batch, Head(queue)) /\ queue' = Tail(queue)
          /\ UNCHANGED <<sender, abandoned>>
     ELSE /\ abandoned' = abandoned \cup ToSet(batch) /\ batch' = <<>>
          /\ sender' = "done" /\ UNCHANGED queue
  /\ Collecting

\* post raises something that is no RequestException.
SenderDies ==
  /\ Posting /\ Fault
  /\ abandoned' = abandoned \cup ToSet(batch) /\ batch' = <<>>
  /\ index' = 1 /\ sender' = "died"
  /\ UNCHANGED <<server, dropped>>

----------------------------------------------------------------------------
(* main, signals and the rate limiter's window                             *)

Signal ==
  /\ ~stop /\ main # "exited" /\ stop' = TRUE
  /\ UNCHANGED <<next, hand, queue, threads, batch, index, server, dropped,
                 abandoned, faults>>

\* Mutant: main looks at the watcher only.
AliveCheckHalf == watcher \notin {"died", "done"}

\* is_alive of both threads.
AliveCheck == watcher \notin {"died", "done"} /\ sender \notin {"died", "done"}

\* One round of main's loop that leaves it.
MainNotices ==
  /\ main = "watch" /\ (stop \/ ~AliveCheck)
  /\ stop' = TRUE /\ main' = "join"
  /\ UNCHANGED <<next, hand, queue, watcher, sender, batch, index, server,
                 dropped, abandoned, faults>>

\* Both joins return, at the latest after 5 seconds each; the process ends and
\* takes its daemon threads with it.
Exit ==
  /\ main = "join" /\ main' = "exited"
  /\ abandoned' = abandoned \cup ToSet(hand) \cup ToSet(queue) \cup ToSet(batch)
  /\ hand' = <<>> /\ queue' = <<>> /\ batch' = <<>>
  /\ watcher' = (IF watcher \in {"poll", "put"} THEN "killed" ELSE watcher)
  /\ sender' = (IF sender \in {"done", "died"} THEN sender ELSE "killed")
  /\ UNCHANGED <<next, index, stop, server, dropped, faults>>

\* A new minute of the rate limiter's fixed window.
Window ==
  /\ main # "exited" /\ quota < Rate /\ quota' = Rate
  /\ UNCHANGED <<next, hand, queue, threads, batch, index, stop, copies,
                 dropped, abandoned, faults>>

Watcher == Poll \/ WatcherStops \/ Put \/ ParseRaises
Post == PostAccepted \/ PostPermanent \/ PostLimited \/ PostRefused \/ PostUnanswered
Sender == CheckStop \/ Get \/ GetEmpty \/ Flush \/ Post \/ Backoff \/ Drain
Main == MainNotices \/ Exit

Next == Watcher \/ Sender \/ SenderDies \/ Signal \/ Main \/ Window

Spec == Init /\ [][Next]_vars

\* Three threads the operating system schedules, and time; nothing has to be
\* written to the file, and no signal has to come.
Fairness ==
  WF_vars(WatcherStops \/ Put \/ ParseRaises) /\ WF_vars(Sender) /\ WF_vars(Main) /\ WF_vars(Window)

FairSpec == Spec /\ Fairness

----------------------------------------------------------------------------
(* Properties                                                              *)

InFlight == batch \o queue \o hand
Settled(l) == copies[l] > 0 \/ l \in dropped
Crippled == watcher = "died" \/ sender = "died"

\* The agent hands lines on in the order of the file and skips none: what it
\* holds is the last run of lines read, and everything before that run reached
\* the server, was dropped on a permanent error, or was given up by an agent
\* that stops or has lost a thread.
NoGap ==
  /\ \A i \in DOMAIN InFlight: abandoned = {} => InFlight[i] = next - Len(InFlight) + i - 1
  /\ \A i, j \in DOMAIN InFlight: i < j => InFlight[i] < InFlight[j]
  /\ \A l \in 1..(next - 1): Settled(l) \/ l \in abandoned \/ l \in ToSet(InFlight)
  /\ abandoned # {} => stop \/ Crippled

\* With batches the rate limiter admits in one minute, every line read reaches
\* the server or is dropped, whatever fails on the way, or the agent ends.
EveryLineSettled == \A l \in Lines: l < next ~> (Settled(l) \/ main = "exited")

\* An agent that is told to stop, or that lost one of its threads, ends: it
\* neither hangs in a full queue or a backoff nor runs on with one thread.
AgentEnds == (stop \/ Crippled) ~> main = "exited"
=============================================================================
