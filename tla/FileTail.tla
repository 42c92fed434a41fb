------------------------------ MODULE FileTail ------------------------------
(***************************************************************************)
(* How the agent's watcher follows one log file (FileState) beside a       *)
(* program that writes it and a rotator that renames, creates and          *)
(* truncates it.  A step is one system call: others run between any two.   *)
(*                                                                         *)
(* A line is written in two halves, the second with the newline: line l is *)
(* the halves 2l-1 and 2l, and sizes and positions count halves.  Files    *)
(* are inodes, numbered as they are created.                               *)
(***************************************************************************)
EXTENDS Naturals, Sequences, FiniteSets, SequencesExt

CONSTANTS MaxFiles,   \* bound: files ever created at the path
          MaxLines,   \* bound: lines ever written
          MaxChanges, \* bound: renames and truncations
          MaxFaults   \* bound: system calls that raise OSError

ASSUME BoundAssumption ==
  MaxFiles \in Nat /\ MaxLines \in Nat /\ MaxChanges \in Nat /\ MaxFaults \in Nat

VARIABLES
  \* the file system and the writer
  path,      \* the file at target.path, 0 if there is none
  made,      \* files created so far
  content,   \* the halves each file holds
  target,    \* the file the writer has open
  written,   \* halves written so far
  \* FileState and poll
  handle,    \* the open file, 0 if None
  pos,       \* handle.tell()
  signature, \* signature, by the file it was taken of
  pc,        \* where poll is
  seen,      \* stat_result of _open, by the file
  fromEnd,   \* start_at_end
  lines,     \* the lines of this poll
  \* history
  delivered, \* the lines poll returned
  raced,     \* the path changed between the stat and the open of an _open
  eof,       \* written when the first read of this poll came to the end
  changes, faults

disk  == <<path, made, content, target, written>>
state == <<handle, pos, signature>>
poll  == <<pc, seen, fromEnd, lines>>
vars  == <<disk, state, poll, delivered, raced, eof, changes, faults>>

Files  == 1..MaxFiles
Halves == 1..(2 * MaxLines)
Lines  == 1..MaxLines

TypeOK ==
  /\ path \in {0} \cup Files /\ made \in {0} \cup Files
  /\ content \in [Files -> Seq(Halves)]
  /\ target \in {0} \cup Files /\ written \in {0} \cup Halves
  /\ handle \in {0} \cup Files /\ signature \in {0} \cup Files
  /\ handle = 0 <=> signature = 0
  /\ pos \in {0} \cup Halves
  /\ pc \in {"idle", "stat", "open", "read", "check", "reread"}
  /\ seen \in {0} \cup Files /\ fromEnd \in BOOLEAN
  /\ lines \in Seq(Lines) /\ delivered \in Seq(Lines)
  /\ raced \in BOOLEAN /\ eof \in {0} \cup Halves
  /\ changes \in 0..MaxChanges /\ faults \in 0..MaxFaults

Init ==
  /\ path = 0 /\ made = 0 /\ content = [f \in Files |-> <<>>]
  /\ target = 0 /\ written = 0
  /\ handle = 0 /\ pos = 0 /\ signature = 0
  /\ pc = "idle" /\ seen = 0 /\ fromEnd = TRUE /\ lines = <<>>
  /\ delivered = <<>> /\ raced = FALSE /\ eof = 0
  /\ changes = 0 /\ faults = 0

----------------------------------------------------------------------------
(* The writer and the rotator                                              *)

Outside == UNCHANGED <<state, poll, delivered, raced, eof, faults>>

\* The writer appends the next half.
Write ==
  /\ target # 0 /\ written < 2 * MaxLines
  /\ written' = written + 1
  /\ content' = [content EXCEPT ![target] = Append(@, written')]
  /\ Outside /\ UNCHANGED <<path, made, target, changes>>

Create ==
  /\ path = 0 /\ made < MaxFiles
  /\ made' = made + 1 /\ path' = made'
  /\ Outside /\ UNCHANGED <<content, target, written, changes>>

\* The writer opens what is at the path; after a rename it may do so late.
Reopen ==
  /\ path # 0 /\ target # path
  /\ target' = path
  /\ Outside /\ UNCHANGED <<path, made, content, written, changes>>

\* The file is renamed away, or removed; whoever has it open keeps it.
Rename ==
  /\ path # 0 /\ changes < MaxChanges
  /\ changes' = changes + 1 /\ path' = 0
  /\ Outside /\ UNCHANGED <<made, content, target, written>>

Truncate ==
  /\ path # 0 /\ content[path] # <<>> /\ changes < MaxChanges
  /\ changes' = changes + 1
  /\ content' = [content EXCEPT ![path] = <<>>]
  /\ Outside /\ UNCHANGED <<path, made, target, written>>

----------------------------------------------------------------------------
(* FileState.poll                                                          *)

Inside == UNCHANGED <<disk, changes>>

Size(f) == Len(content[f])

\* Where the complete lines of f that begin at or after p end.
Ends(f, p) == {i \in (p + 1)..Size(f): content[f][i] % 2 = 0}
LinesAfter(f, p) == {content[f][i] \div 2: i \in Ends(f, p)}

\* The k-th smallest number of S.
Nth(S, k) == CHOOSE i \in S: Cardinality({j \in S: j <= i}) = k

\* The same lines, in the order in which they are in f.
LinesFrom(f, p) ==
  LET ends == Ends(f, p)
  IN  [k \in 1..Cardinality(ends) |-> content[f][Nth(ends, k)] \div 2]

\* Mutant: close forgets the handle and keeps the signature.
CloseHandle == handle' = 0 /\ pos' = 0 /\ UNCHANGED signature

Close == handle' = 0 /\ pos' = 0 /\ signature' = 0

Return(result) ==
  /\ delivered' = delivered \o result /\ lines' = <<>>
  /\ pc' = "idle" /\ UNCHANGED <<seen, fromEnd>>

\* poll is called: without a handle the file is opened at its end.
Begin ==
  /\ pc = "idle"
  /\ pc' = IF handle = 0 THEN "stat" ELSE "read"
  /\ fromEnd' = TRUE
  /\ Inside /\ UNCHANGED <<state, seen, lines, delivered, raced, eof, faults>>

\* _open's stat; FileNotFoundError ends the poll.
Stat ==
  /\ pc = "stat"
  /\ IF path = 0 THEN Return(lines)
     ELSE seen' = path /\ pc' = "open" /\ UNCHANGED <<fromEnd, lines, delivered>>
  /\ Inside /\ UNCHANGED <<state, raced, eof, faults>>

\* Mutant: a file that was rotated in is opened at its end, too.
StartEnd(f) == Size(f)

\* Where the handle starts.
Start(f) == IF fromEnd THEN Size(f) ELSE 0

\* _open's open and seek; the signature is that of the stat.
Open ==
  /\ pc = "open"
  /\ IF path = 0 THEN Return(lines) /\ UNCHANGED <<state, raced>>
     ELSE /\ handle' = path /\ signature' = seen /\ pos' = Start(path)
          /\ raced' = (raced \/ path # seen)
          /\ pc' = IF fromEnd THEN "read" ELSE "reread"
          /\ UNCHANGED <<seen, fromEnd, lines, delivered>>
  /\ Inside /\ UNCHANGED <<eof, faults>>

\* The position after the last complete line; a partial one is left.
Taken(f, p) == IF Ends(f, p) = {} THEN p ELSE CHOOSE i \in Ends(f, p): \A j \in Ends(f, p): j <= i

\* _read_available_lines: what is there is taken, until nothing is.
Read ==
  /\ pc \in {"read", "reread"}
  /\ pos' = Taken(handle, pos)
  /\ IF pos' # pos
     THEN /\ lines' = lines \o LinesFrom(handle, pos)
          /\ UNCHANGED <<pc, seen, fromEnd, delivered, eof>>
     ELSE IF pc = "reread" THEN Return(lines) /\ UNCHANGED eof
     ELSE pc' = "check" /\ eof' = written /\ UNCHANGED <<lines, seen, fromEnd, delivered>>
  /\ Inside /\ UNCHANGED <<handle, signature, raced, faults>>

\* Mutant: a shrunken file is not noticed.
RotatedOnly == path # 0 /\ path # signature

\* Mutant: a file read to its end counts as shrunken.
RotatedFull == path # 0 /\ (path # signature \/ Size(path) <= pos)

\* _needs_reopen.
Rotated == path # 0 /\ (path # signature \/ Size(path) < pos)

Check ==
  /\ pc = "check"
  /\ IF Rotated
     THEN Close /\ pc' = "stat" /\ fromEnd' = FALSE /\ UNCHANGED <<seen, lines, delivered>>
     ELSE Return(lines) /\ UNCHANGED state
  /\ Inside /\ UNCHANGED <<raced, eof, faults>>

\* Any other OSError: the file is closed and the lines of this poll are dropped.
Fail ==
  /\ pc # "idle"
  /\ faults < MaxFaults /\ faults' = faults + 1
  /\ Close /\ Return(<<>>)
  /\ Inside /\ UNCHANGED <<raced, eof>>

----------------------------------------------------------------------------
Poll == Begin \/ Stat \/ Open \/ Read \/ Check
Next == Write \/ Create \/ Reopen \/ Rename \/ Truncate \/ Poll \/ Fail

Spec == Init /\ [][Next]_vars

\* The watcher thread polls for ever; nobody has to write or to rotate.
FairSpec == Spec /\ WF_vars(Poll)

----------------------------------------------------------------------------
(* Properties                                                              *)

\* No line is returned twice or out of order, whatever is rotated or truncated
\* when, as long as the path does not change between the stat and the open of
\* one _open.
InOrderOnce == ~raced => \A i, j \in DOMAIN delivered: i < j => delivered[i] < delivered[j]

\* The lines a poll will still find: those of the open file, and those of the
\* file at the path if it will be opened from its start.
ToRead ==
  (IF handle # 0 THEN LinesAfter(handle, pos) ELSE {})
  \cup (IF path # 0 /\ (IF handle # 0 THEN Rotated ELSE ~fromEnd /\ pc # "idle")
        THEN LinesAfter(path, 0) ELSE {})

Kept == ToRead \cup ToSet(lines) \cup ToSet(delivered)

\* The file was truncated and grows back to the old position before a poll looks.
Regrown == Write /\ Rotated /\ ~Rotated'

\* A line the watcher would find is lost in five windows only: the file is
\* truncated or renamed before it is read, a system call fails, it is written to
\* a rotated file after the last read of it, or a truncated file has grown back.
LostOnlyInWindows ==
  [][\A l \in Kept \ Kept':
       \/ Truncate \/ Rename \/ Fail \/ Regrown
       \/ Check /\ 2 * l > eof]_vars

\* When writing and rotating have ended the watcher comes to rest on the file at
\* the path, with nothing left to read.
Converges == <>[](path # 0 => /\ handle = path /\ signature = path
                              /\ pos <= Size(path) /\ LinesAfter(path, pos) = {})
=============================================================================
