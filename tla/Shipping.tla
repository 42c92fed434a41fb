------------------------------ MODULE Shipping ------------------------------
(***************************************************************************)
(* What the log agent promises of the lines of a file, without threads, a  *)
(* queue, retries or signals: lines are posted in the order of the file,   *)
(* none is left out, and the only repetition is that the sender goes back  *)
(* to the first line of a batch of at most BatchSize.  One day the         *)
(* shipping is over, and no line follows.                                  *)
(***************************************************************************)
EXTENDS Naturals

CONSTANTS MaxLines,  \* bound: lines the file ever gets
          BatchSize  \* config.sentinel.batch_size

VARIABLES
  cursor,  \* the next line to post, or Over
  base,    \* where the sender goes back to: the first line of the open batch
  copies,  \* how often POST /logs accepted each line, up to 2
  dropped  \* lines it refused for good

Lines == 1..MaxLines
Over  == 0

Init ==
  /\ cursor = 1 /\ base = 1
  /\ copies = [l \in Lines |-> 0] /\ dropped = {}

End == cursor' = Over /\ base' = Over

\* The line is done with; it may have been the last one of its batch.
MoveOn ==
  \/ /\ cursor' = cursor + 1 /\ base' \in {base, cursor'}
     /\ cursor' < base' + BatchSize
  \/ End

\* The batch has failed.
GoBack ==
  \/ cursor' = base /\ base' = base
  \/ End

Accepted == copies' = [copies EXCEPT ![cursor] = IF @ < 2 THEN @ + 1 ELSE @]

\* The line is accepted, and the agent knows or does not.
Ship == cursor \in Lines /\ Accepted /\ (MoveOn \/ GoBack) /\ UNCHANGED dropped

Drop == cursor \in Lines /\ dropped' = dropped \cup {cursor} /\ MoveOn /\ UNCHANGED copies

Retry == cursor \in Lines /\ GoBack /\ UNCHANGED <<copies, dropped>>

\* The agent stops, or lost a thread.
Stop == cursor # Over /\ End /\ UNCHANGED <<copies, dropped>>

Next == Ship \/ Drop \/ Retry \/ Stop

Spec == Init /\ [][Next]_<<cursor, base, copies, dropped>>
=============================================================================
