--------------------------- MODULE AgentRefinement ---------------------------
(***************************************************************************)
(* The three threads of LogAgent implement Shipping.                       *)
(***************************************************************************)
EXTENDS LogAgent

\* No line will be posted any more: the sender is past its loops, or will find
\* stop_event set, or the watcher died and all it had put is through.
NoMorePosts ==
  \/ sender \in {"drain", "done", "died", "killed"}
  \/ stop /\ sender # "post"
  \/ abandoned # {} /\ InFlight = <<>>

\* The line post is called for next, and the first one of its batch.
Unless(over, line) == IF over THEN 0 ELSE line
Cursor == Unless(NoMorePosts, IF InFlight = <<>> THEN next ELSE InFlight[index])
Base   == Unless(NoMorePosts, IF InFlight = <<>> THEN next ELSE InFlight[1])

Shipped == INSTANCE Shipping WITH cursor <- Cursor, base <- Base

\* The server gets the lines in the order of the file without a gap, and a line
\* again only because the sender went back to the first line of a failed batch:
\* never beyond it, whatever the threads, the queue, the limiter and a stop do.
ShippingRefined == Shipped!Spec
=============================================================================
