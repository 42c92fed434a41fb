------------------------------- MODULE Screen -------------------------------
(***************************************************************************)
(* The list of alerts in one browser: a page polled from GET /alerts, to   *)
(* which new alerts are pushed over a WebSocket that reconnects.  Alerts   *)
(* are numbered in the order in which the worker stores them, which is the *)
(* order of created_at.  What happens to an event between the bridge and   *)
(* the socket of a connected browser is Dashboard's subject: here it is    *)
(* delivered in order or lost with the connection.                         *)
(*                                                                         *)
(* A step of the page is a callback with the rendering and the effects     *)
(* that follow it.  Metrics messages replace a number and are left out.    *)
(***************************************************************************)
EXTENDS Naturals, Sequences, FiniteSets, SequencesExt

CONSTANTS PageSize,   \* DEFAULT_PAGE_SIZE
          MaxAlerts,  \* bound: alerts ever stored
          MaxFetches, \* bound: requests in flight
          MaxClicks,  \* bound: what the user clicks
          MaxFaults   \* bound: lost connections, failing requests and publishes

ASSUME ScreenAssumption ==
  /\ PageSize \in Nat \ {0} /\ MaxFetches \in Nat \ {0}
  /\ MaxAlerts \in Nat /\ MaxClicks \in Nat /\ MaxFaults \in Nat

VARIABLES
  stored,     \* alerts in PostgreSQL
  publishing, \* alerts whose publish task has not run
  bridge,     \* listen_dashboard_events: subscribed or backing off
  wire,       \* events on their way to the open socket
  socket,     \* connecting, open, or waiting for the reconnect timer
  page, sort, alerts, total, \* currentPage, sortOption, alerts, total
  fetches,    \* this effect's requests in flight, oldest first
  fresh,      \* history: an answer was shown since the view changed
  clicks, faults

server == <<stored, publishing, bridge>>
link   == <<wire, socket>>
view   == <<page, sort, alerts, total, fetches, fresh>>
vars   == <<server, link, view, clicks, faults>>

Alerts == 1..MaxAlerts
Sorts  == {"timestamp_desc", "timestamp_asc"}
Shown  == UNION {[1..n -> Alerts]: n \in 0..PageSize}

Fetch ==
  [at: {"sent"}, page: Nat, sort: Sorts]
  \cup [at: {"counted"}, page: Nat, sort: Sorts, total: 0..MaxAlerts]
  \cup [at: {"answered"}, page: Nat, sort: Sorts, total: 0..MaxAlerts, items: Shown]

TypeOK ==
  /\ stored \in 0..MaxAlerts /\ publishing \subseteq 1..stored
  /\ bridge \in {"listening", "backoff"}
  /\ wire \in Seq(1..stored)
  /\ socket \in {"connecting", "open", "waiting"}
  /\ socket # "open" => wire = <<>>
  /\ page \in Nat \ {0} /\ sort \in Sorts
  /\ alerts \in Shown /\ total \in Nat
  /\ fetches \in Seq(Fetch) /\ Len(fetches) <= MaxFetches
  /\ fresh \in BOOLEAN
  /\ clicks \in 0..MaxClicks /\ faults \in 0..MaxFaults

Sent(p, s) == [at |-> "sent", page |-> p, sort |-> s]

\* The page is mounted: the first fetch is sent and the socket connects.
Init ==
  /\ stored = 0 /\ publishing = {} /\ bridge = "listening"
  /\ wire = <<>> /\ socket = "connecting"
  /\ page = 1 /\ sort = "timestamp_desc" /\ alerts = <<>> /\ total = 0
  /\ fetches = <<Sent(page, sort)>>
  /\ fresh = FALSE /\ clicks = 0 /\ faults = 0

Fault == faults < MaxFaults /\ faults' = faults + 1

----------------------------------------------------------------------------
(* The worker, Redis and the bridge                                        *)

\* An alert is committed and a task is started to publish it.
Store ==
  /\ stored < MaxAlerts
  /\ stored' = stored + 1 /\ publishing' = publishing \cup {stored'}
  /\ UNCHANGED <<bridge, link, view, clicks, faults>>

\* publish_dashboard_event; tasks may overtake each other.  Redis keeps nothing:
\* the event reaches a bridge that listens, and a browser that is connected.
Publish(a) ==
  /\ a \in publishing /\ publishing' = publishing \ {a}
  /\ wire' = IF bridge = "listening" /\ socket = "open" THEN Append(wire, a) ELSE wire
  /\ UNCHANGED <<stored, bridge, socket, view, clicks, faults>>

PublishFails(a) ==
  /\ a \in publishing /\ publishing' = publishing \ {a} /\ Fault
  /\ UNCHANGED <<stored, bridge, link, view, clicks>>

BridgeFails ==
  /\ bridge = "listening" /\ bridge' = "backoff" /\ Fault
  /\ UNCHANGED <<stored, publishing, link, view, clicks>>

Subscribe ==
  /\ bridge = "backoff" /\ bridge' = "listening"
  /\ UNCHANGED <<stored, publishing, link, view, clicks, faults>>

----------------------------------------------------------------------------
(* useDashboardWebSocket                                                   *)

SocketOpens ==
  /\ socket = "connecting" /\ socket' = "open"
  /\ UNCHANGED <<server, wire, view, clicks, faults>>

\* onclose, for a connection that is lost or was refused.
SocketCloses ==
  /\ socket \in {"connecting", "open"} /\ Fault
  /\ socket' = "waiting" /\ wire' = <<>>
  /\ UNCHANGED <<server, view, clicks>>

\* The timer of onclose calls connect.
Reconnect ==
  /\ socket = "waiting" /\ socket' = "connecting"
  /\ UNCHANGED <<server, wire, view, clicks, faults>>

----------------------------------------------------------------------------
(* The page                                                                *)

Offset(p) == (p - 1) * PageSize

\* The page the last effect of DashboardPage moves to.
Clamped(p, t) ==
  IF t > 0 /\ Offset(p) >= t THEN (t + PageSize - 1) \div PageSize ELSE p

\* Mutant: the answer to an earlier effect is still used.
CancelledNot(fs) == fs

\* The cleanup of the fetch effect: its answers are ignored from now on.
Cancelled(fs) == <<>>

\* The view becomes page p sorted by s: the effect is cleaned up and fetches.
Visit(p, s, fs) ==
  /\ page' = p /\ sort' = s /\ fresh' = FALSE
  /\ Len(Cancelled(fs)) < MaxFetches
  /\ fetches' = Append(Cancelled(fs), Sent(p, s))

\* alerts and total are set, with the requests fs still in flight.
Render(as, t, fs, answered) ==
  /\ alerts' = as /\ total' = t
  /\ IF Clamped(page, t) # page THEN Visit(Clamped(page, t), sort, fs)
     ELSE /\ fetches' = fs /\ fresh' = (fresh \/ answered)
          /\ UNCHANGED <<page, sort>>

First(n, q) == SubSeq(q, 1, IF Len(q) < n THEN Len(q) ELSE n)

\* Mutant: an alert that is listed already is put in front again.
WithNewTwice(a) == First(PageSize, <<a>> \o alerts)

\* Mutant: the list grows beyond a page.
WithNewUnbounded(a) == IF a \in ToSet(alerts) THEN alerts ELSE <<a>> \o alerts

\* Mutant: the oldest alert is dropped before the page is full.
WithNewShort(a) ==
  IF a \in ToSet(alerts) THEN alerts
  ELSE First(PageSize - 1, <<a>> \o alerts)

\* setAlerts of handleAlertMessage.
WithNew(a) ==
  IF a \in ToSet(alerts) THEN alerts
  ELSE First(PageSize, <<a>> \o alerts)

\* handleAlertMessage: total counts the alert even if it is listed already.
Receive ==
  /\ wire # <<>> /\ wire' = Tail(wire)
  /\ Render(IF sort = "timestamp_desc" /\ page = 1 THEN WithNew(Head(wire)) ELSE alerts,
            total + 1, fetches, FALSE)
  /\ UNCHANGED <<server, socket, clicks, faults>>

\* Mutant: the interval ends with the first answer.
PollOnce ==
  /\ ~fresh /\ Len(fetches) < MaxFetches
  /\ fetches' = Append(fetches, Sent(page, sort))
  /\ UNCHANGED <<server, link, page, sort, alerts, total, fresh, clicks, faults>>

\* setInterval(fetchAlertPage).
Poll ==
  /\ Len(fetches) < MaxFetches
  /\ fetches' = Append(fetches, Sent(page, sort))
  /\ UNCHANGED <<server, link, page, sort, alerts, total, fresh, clicks, faults>>

\* list_alerts counts and selects with two statements.
Count(s) ==
  /\ s \in DOMAIN fetches /\ fetches[s].at = "sent"
  /\ fetches' = [fetches EXCEPT ![s] =
       [at |-> "counted", page |-> @.page, sort |-> @.sort, total |-> stored]]
  /\ UNCHANGED <<server, link, page, sort, alerts, total, fresh, clicks, faults>>

\* The alerts of page p when n are stored.
Items(p, s, n) ==
  LET size == IF n <= Offset(p) THEN 0 ELSE IF n - Offset(p) < PageSize THEN n - Offset(p) ELSE PageSize
  IN  [i \in 1..size |-> IF s = "timestamp_desc" THEN n + 1 - Offset(p) - i ELSE Offset(p) + i]

Select(s) ==
  /\ s \in DOMAIN fetches /\ fetches[s].at = "counted"
  /\ fetches' = [fetches EXCEPT ![s] =
       [at |-> "answered", page |-> @.page, sort |-> @.sort, total |-> @.total,
        items |-> Items(@.page, @.sort, stored)]]
  /\ UNCHANGED <<server, link, page, sort, alerts, total, fresh, clicks, faults>>

\* The answer arrives; requests in flight may be answered in any order.
Arrive(s) ==
  /\ s \in DOMAIN fetches /\ fetches[s].at = "answered"
  /\ Render(fetches[s].items, fetches[s].total, RemoveAt(fetches, s), TRUE)
  /\ UNCHANGED <<server, link, clicks, faults>>

\* The request fails: the page shows an error and keeps its list.
FetchFails(s) ==
  /\ s \in DOMAIN fetches /\ Fault
  /\ fetches' = RemoveAt(fetches, s)
  /\ UNCHANGED <<server, link, page, sort, alerts, total, fresh, clicks>>

Click(p, s) ==
  /\ clicks < MaxClicks /\ clicks' = clicks + 1
  /\ Visit(p, s, fetches)
  /\ UNCHANGED <<server, link, alerts, total, faults>>

NextPage == Offset(page) + Len(alerts) < total /\ Click(page + 1, sort)
Previous  == page > 1 /\ Click(page - 1, sort)
Sort      == \E s \in Sorts \ {sort}: Click(1, s)

----------------------------------------------------------------------------
Next ==
  \/ Store \/ \E a \in Alerts: Publish(a) \/ PublishFails(a)
  \/ BridgeFails \/ Subscribe
  \/ SocketOpens \/ SocketCloses \/ Reconnect
  \/ Receive \/ Poll
  \/ \E s \in 1..MaxFetches: Count(s) \/ Select(s) \/ Arrive(s) \/ FetchFails(s)
  \/ NextPage \/ Previous \/ Sort

Spec == Init /\ [][Next]_vars

\* Publish tasks run, the bridge and the socket reconnect (both back-offs are
\* bounded), the interval fires and the oldest request is answered in the end.
\* Nobody has to store an alert or to click.
Fairness ==
  /\ \A a \in Alerts: WF_vars(Publish(a))
  /\ WF_vars(Subscribe) /\ WF_vars(SocketOpens) /\ WF_vars(Reconnect)
  /\ WF_vars(Receive) /\ WF_vars(Poll)
  /\ WF_vars(Count(1)) /\ WF_vars(Select(1)) /\ WF_vars(Arrive(1))

FairSpec == Spec /\ Fairness

----------------------------------------------------------------------------
(* Properties                                                              *)

\* No alert is listed twice, however its push and the polls fall.
NoTwice == \A i, j \in DOMAIN alerts: i # j => alerts[i] # alerts[j]

\* Once an answer has been shown for the current view, the list holds alerts of
\* this view only: no late answer for another page or order gets in.
OwnView ==
  fresh => \A a \in ToSet(alerts):
             IF sort = "timestamp_asc" THEN a \in Offset(page) + 1..Offset(page) + PageSize
             ELSE a <= stored - Offset(page)

NewestFirst == page = 1 /\ sort = "timestamp_desc"

\* On the first page, newest first, an alert leaves the list for two reasons only:
\* the page is full without it, or an answer arrives that was selected before it
\* was stored.  Only a push, published late, puts an older one in its place.
LeavesListFor ==
  [][NewestFirst /\ NewestFirst' =>
       \A a \in ToSet(alerts) \ ToSet(alerts'):
         \/ Len(alerts') = PageSize /\ (Receive \/ \A b \in ToSet(alerts'): b > a)
         \/ \E s \in DOMAIN fetches: Arrive(s) /\ \A b \in ToSet(fetches[s].items): b < a]_vars

\* When no more alerts are stored and nobody clicks, the page comes to show what
\* the database holds, on a page that exists, with the right total and a socket.
Converges ==
  <>[](/\ socket = "open"
       /\ alerts = Items(page, sort, stored) /\ total = stored
       /\ stored > 0 => alerts # <<>>)
=============================================================================
