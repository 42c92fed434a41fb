--------------------------- MODULE FileTailProofs ---------------------------
(***************************************************************************)
(* Machine-checked proofs about FileTail.                                  *)
(***************************************************************************)
EXTENDS FileTail, SequenceTheorems, FiniteSetTheorems, TLAPS

----------------------------------------------------------------------------
(* The invariant                                                           *)

Increasing(s) == \A i, j \in DOMAIN s: i < j => s[i] < s[j]

\* The writer goes from file to file as they are created, and what it writes to one
\* is in order and before what it writes to the next.
Disk ==
  /\ path \in {0, made} /\ target <= made
  /\ \A f \in Files:
       /\ Len(content[f]) <= written
       /\ \A i \in DOMAIN content[f]: content[f][i] <= written
       /\ Increasing(content[f])
       /\ f > target => content[f] = <<>>
  /\ \A f, g \in Files: f < g =>
       \A i \in DOMAIN content[f], j \in DOMAIN content[g]: content[f][i] < content[g][j]

Places ==
  /\ pc \in {"read", "check", "reread"} => handle # 0
  /\ pc = "open" => seen # 0
  /\ handle <= made

\* The lines that were read and not dropped.
Got == delivered \o lines

\* All that is in f after p was written after the lines of s.
Beyond(s, f, p) == \A x \in ToSet(s): \A i \in DOMAIN content[f]: i > p => 2 * x < content[f][i]

\* What may still be read: the rest of the open file, the whole of it once it is
\* shorter than the position, later files, and the file that is about to be opened.
Ahead(s) ==
  /\ handle # 0 =>
       /\ signature = handle
       /\ Beyond(s, handle, pos)
       /\ Size(handle) < pos => Beyond(s, handle, 0)
       /\ \A g \in Files: g > handle => Beyond(s, g, 0)
  /\ pc \in {"stat", "open"} /\ ~fromEnd /\ path # 0 => Beyond(s, path, 0)

InOrder(s) == Increasing(s) /\ \A x \in ToSet(s): 2 * x <= written

TailInv == TypeOK /\ Disk /\ Places /\ (~raced => InOrder(Got) /\ Ahead(Got))

----------------------------------------------------------------------------
(* Numbers and sequences                                                   *)

\* A set of n numbers has a k-th smallest for k up to n; they ascend, and the last
\* is the greatest.
LEMMA NthIsIn ==
  ASSUME NEW S \in SUBSET Nat, IsFiniteSet(S)
  PROVE  /\ Cardinality(S) \in Nat
         /\ \A k \in 1..Cardinality(S):
              Nth(S, k) \in S /\ Cardinality({j \in S: j <= Nth(S, k)}) = k
         /\ \A i \in S: \E k \in 1..Cardinality(S): i = Nth(S, k)
<1> DEFINE Rank(i) == Cardinality({j \in S: j <= i})
<1>1. PICK n \in Nat: n = Cardinality(S)
  BY FS_CardinalityType
<1>2. ASSUME NEW i \in S
      PROVE  IsFiniteSet({j \in S: j <= i}) /\ Rank(i) \in 1..n
  <2>1. PICK T: T = {j \in S: j <= i}
    OBVIOUS
  <2>2. T \in SUBSET S /\ i \in T
    BY <2>1
  <2>3. IsFiniteSet(T) /\ Cardinality(T) <= n
    BY <1>1, <2>2, FS_Subset
  <2>4. Cardinality(T) \in Nat /\ Cardinality(T) # 0
    BY <2>2, <2>3, FS_CardinalityType, FS_EmptySet
  <2>5. Cardinality(T) \in 1..n
    BY <2>3, <2>4
  <2> QED  BY <2>1, <2>3, <2>5
<1>3. ASSUME NEW i \in S, NEW k \in S, i < k
      PROVE  Rank(i) # Rank(k)
  <2>0. k <= k /\ ~(k <= i) /\ \A j \in S: j <= i => j <= k
    BY <1>3
  <2>1. {j \in S: j <= i} \in SUBSET {j \in S: j <= k}
    BY <2>0
  <2>2. k \in {j \in S: j <= k} /\ k \notin {j \in S: j <= i}
    BY <2>0
  <2> QED  BY <1>2, <2>1, <2>2, FS_Subset
<1>4. PICK f: f = [i \in S |-> Rank(i)]
  OBVIOUS
<1>5. f \in [S -> 1..n] /\ \A i \in S: f[i] = Rank(i)
  BY <1>2, <1>4
<1>6. \A i, k \in S: f[i] = f[k] => i = k
  <2> HIDE DEF Rank
  <2>1. \A i, k \in S: i < k \/ k < i \/ i = k
    OBVIOUS
  <2> QED  BY <1>3, <1>5, <2>1
<1>7. f \in Injection(S, 1..n)
  BY <1>5, <1>6 DEF Injection, IsInjective
<1>8. IsFiniteSet(1..n) /\ Cardinality(1..n) = n
  <2>1. 1 \in Int /\ n \in Int
    OBVIOUS
  <2> QED  BY <2>1, FS_Interval
<1>9. f \in Surjection(S, 1..n)
  BY <1>1, <1>7, <1>8, FS_Injection
<1>10. \A k \in 1..n: \E i \in S: Rank(i) = k
  BY <1>5, <1>9 DEF Surjection
<1>11. \A k \in 1..n: Nth(S, k) \in S /\ Rank(Nth(S, k)) = k
  BY <1>10 DEF Nth
<1>12. ASSUME NEW i \in S  PROVE i = Nth(S, Rank(i)) /\ Rank(i) \in 1..n
  <2> HIDE DEF Rank
  <2>1. Rank(i) \in 1..n
    BY <1>2
  <2>2. f[i] = Rank(i) /\ f[Nth(S, Rank(i))] = Rank(i) /\ Nth(S, Rank(i)) \in S
    BY <1>5, <1>11, <2>1
  <2> QED  BY <1>6, <2>1, <2>2
<1> QED  BY <1>1, <1>11, <1>12

LEMMA NthAscends ==
  ASSUME NEW S \in SUBSET Nat, IsFiniteSet(S),
         NEW k \in 1..Cardinality(S), NEW l \in 1..Cardinality(S), k < l
  PROVE  Nth(S, k) < Nth(S, l)
<1>1. PICK a \in S: a = Nth(S, k) /\ Cardinality({j \in S: j <= a}) = k
  BY NthIsIn
<1>2. PICK b \in S: b = Nth(S, l) /\ Cardinality({j \in S: j <= b}) = l
  BY NthIsIn
<1>3. SUFFICES ASSUME b <= a  PROVE FALSE
  BY <1>1, <1>2
<1>4. {j \in S: j <= b} \in SUBSET {j \in S: j <= a} /\ {j \in S: j <= a} \in SUBSET S
  <2>1. \A j \in S: j <= b => j <= a
    BY <1>3
  <2> QED  BY <2>1
<1>5. IsFiniteSet({j \in S: j <= a})
  BY <1>4, FS_Subset
<1>6. l <= k
  BY <1>1, <1>2, <1>4, <1>5, FS_Subset
<1> QED  BY <1>6, NthIsIn

LEMMA Greatest ==
  ASSUME NEW S \in SUBSET Nat, IsFiniteSet(S), S # {}
  PROVE  \E m \in S: \A j \in S: j <= m
<1>1. PICK n \in Nat: n = Cardinality(S)
  BY FS_CardinalityType
<1>2. n # 0 /\ n \in 1..n
  BY <1>1, FS_EmptySet
<1>3. PICK m \in S: Cardinality({j \in S: j <= m}) = n
  BY <1>1, <1>2, NthIsIn
<1>4. {j \in S: j <= m} = S
  BY <1>1, <1>3, FS_Subset
<1> QED  BY <1>4

LEMMA ToSetConcat ==
  ASSUME NEW s \in Seq(Lines), NEW t \in Seq(Lines)
  PROVE  /\ s \o t \in Seq(Lines) /\ ToSet(s \o t) = ToSet(s) \cup ToSet(t)
         /\ Increasing(s) /\ Increasing(t) /\ (\A x \in ToSet(s), y \in ToSet(t): x < y)
            => Increasing(s \o t)
         /\ Increasing(s \o t) => Increasing(s)
<1>1. PICK n \in Nat: n = Len(s) /\ DOMAIN s = 1..n
  BY LenProperties
<1>2. PICK m \in Nat: m = Len(t) /\ DOMAIN t = 1..m
  BY LenProperties
<1>3. /\ s \o t \in Seq(Lines) /\ Len(s \o t) = Len(s) + Len(t)
      /\ \A i \in 1..(Len(s) + Len(t)): (s \o t)[i] = IF i <= Len(s) THEN s[i] ELSE t[i - Len(s)]
  BY ConcatProperties
<1>4. PICK r \in Seq(Lines):
        /\ r = s \o t /\ Len(r) = n + m
        /\ \A i \in 1..(n + m): r[i] = IF i <= n THEN s[i] ELSE t[i - n]
  BY <1>1, <1>2, <1>3
<1>5. DOMAIN r = 1..(n + m)
  BY <1>4, LenProperties
<1>6. /\ \A i \in 1..n: i \in 1..(n + m) /\ i <= n
      /\ \A j \in 1..m: n + j \in 1..(n + m) /\ ~(n + j <= n) /\ (n + j) - n = j
      /\ \A i \in 1..(n + m): i \in 1..n \/ (~(i <= n) /\ i - n \in 1..m)
  BY <1>1, <1>2
<1>7. /\ \A i \in 1..n: r[i] = s[i]
      /\ \A j \in 1..m: r[n + j] = t[j]
      /\ \A i \in 1..(n + m): \/ i \in 1..n /\ r[i] = s[i]
                              \/ i > n /\ i - n \in 1..m /\ r[i] = t[i - n]
  BY <1>1, <1>2, <1>4, <1>6
<1>8. ToSet(r) = ToSet(s) \cup ToSet(t)
  <2>1. /\ ToSet(r) = {r[i]: i \in 1..(n + m)}
        /\ ToSet(s) = {s[i]: i \in 1..n} /\ ToSet(t) = {t[i]: i \in 1..m}
    BY <1>1, <1>2, <1>5 DEF ToSet
  <2>2. ToSet(r) \subseteq ToSet(s) \cup ToSet(t)
    BY <1>7, <2>1
  <2>3. ToSet(s) \subseteq ToSet(r)
    BY <1>6, <1>7, <2>1
  <2>4. ToSet(t) \subseteq ToSet(r)
    BY <1>6, <1>7, <2>1
  <2> QED  BY <2>2, <2>3, <2>4
<1>9. ASSUME Increasing(s), Increasing(t), \A x \in ToSet(s), y \in ToSet(t): x < y
      PROVE  Increasing(r)
  <2> SUFFICES ASSUME NEW i \in 1..(n + m), NEW j \in 1..(n + m), i < j
               PROVE  r[i] < r[j]
    BY <1>5 DEF Increasing
  <2>1. i \in Nat /\ j \in Nat
    BY <1>1, <1>2
  <2>2. CASE j \in 1..n /\ r[j] = s[j]
    <3>1. i \in 1..n
      BY <2>1, <2>2
    <3> QED  BY <1>1, <1>7, <1>9, <2>2, <3>1 DEF Increasing
  <2>3. CASE j > n /\ j - n \in 1..m /\ r[j] = t[j - n]
    <3>1. CASE i \in 1..n /\ r[i] = s[i]
      <4>1. s[i] \in ToSet(s) /\ t[j - n] \in ToSet(t)
        BY <1>1, <1>2, <2>3, <3>1 DEF ToSet
      <4> QED  BY <1>9, <2>3, <3>1, <4>1
    <3>2. CASE i > n /\ i - n \in 1..m /\ r[i] = t[i - n]
      <4>1. i - n < j - n
        BY <2>1
      <4> QED  BY <1>2, <1>9, <2>3, <3>2, <4>1 DEF Increasing
    <3> QED  BY <1>7, <3>1, <3>2
  <2> QED  BY <1>7, <2>2, <2>3
<1>10. Increasing(r) => Increasing(s)
  BY <1>1, <1>5, <1>6, <1>7 DEF Increasing
<1> QED  BY <1>4, <1>8, <1>9, <1>10

----------------------------------------------------------------------------
(* What is read of a file                                                  *)

LEMMA Numbers ==
  /\ MaxFiles \in Nat /\ MaxLines \in Nat
  /\ \A h \in Halves: h \in Nat /\ h # 0 /\ h <= 2 * MaxLines
  /\ \A h \in Halves: h % 2 = 0 => h \div 2 \in Lines /\ 2 * (h \div 2) = h
  /\ \A f \in Files: f \in Nat /\ f # 0
  /\ \A l \in Lines: l \in Nat
  BY BoundAssumption DEF Halves, Files, Lines

\* The content of a file.
LEMMA Content ==
  ASSUME TypeOK, NEW f \in Files
  PROVE  /\ content[f] \in Seq(Halves) /\ Size(f) \in Nat /\ Size(f) = Len(content[f])
         /\ DOMAIN content[f] = 1..Size(f)
         /\ \A i \in DOMAIN content[f]: i \in Nat /\ i # 0 /\ content[f][i] \in Halves
<1>1. content[f] \in Seq(Halves)
  BY DEF TypeOK
<1>2. Len(content[f]) \in Nat /\ DOMAIN content[f] = 1..Len(content[f])
  BY <1>1, LenProperties
<1>3. \A i \in DOMAIN content[f]: content[f][i] \in Halves
  BY <1>1, <1>2, ElementOfSeq
<1> QED  BY <1>1, <1>2, <1>3 DEF Size

LEMMA EndsAreIn ==
  ASSUME TypeOK, NEW f \in Files, NEW p \in Nat
  PROVE  /\ Ends(f, p) \in SUBSET Nat /\ IsFiniteSet(Ends(f, p))
         /\ \A i \in Ends(f, p): /\ i \in DOMAIN content[f] /\ i > p
                                 /\ content[f][i] \in Halves /\ content[f][i] % 2 = 0
<1>1. PICK n \in Nat: n = Size(f) /\ DOMAIN content[f] = 1..n
  BY Content
<1>2. \A i \in (p + 1)..n: i \in 1..n /\ i > p /\ i \in Nat
  BY <1>1
<1>3. \A i \in Ends(f, p): i \in 1..n /\ i > p /\ i \in Nat /\ content[f][i] % 2 = 0
  BY <1>1, <1>2 DEF Ends
<1>4. IsFiniteSet(1..n)
  <2>1. 1 \in Int /\ n \in Int
    OBVIOUS
  <2> QED  BY <2>1, FS_Interval
<1>5. Ends(f, p) \in SUBSET (1..n)
  BY <1>3
<1> QED  BY <1>1, <1>3, <1>4, <1>5, FS_Subset, Content

\* Lines are read in the order in which they were written, each from after p.
LEMMA LinesInOrder ==
  ASSUME TypeOK, Disk, NEW f \in Files, NEW p \in Nat
  PROVE  /\ LinesFrom(f, p) \in Seq(Lines) /\ Increasing(LinesFrom(f, p))
         /\ \A x \in ToSet(LinesFrom(f, p)): \E i \in Ends(f, p): 2 * x = content[f][i]
         /\ LinesAfter(f, p) \subseteq ToSet(LinesFrom(f, p))
<1>1. PICK S \in SUBSET Nat: S = Ends(f, p) /\ IsFiniteSet(S)
  BY EndsAreIn
<1>2. PICK n \in Nat: n = Cardinality(S)
  BY <1>1, FS_CardinalityType
<1>3. PICK s: s = LinesFrom(f, p)
  OBVIOUS
<1>4. s = [k \in 1..n |-> content[f][Nth(S, k)] \div 2]
  BY <1>1, <1>2, <1>3 DEF LinesFrom
<1>5. ASSUME NEW k \in 1..n
      PROVE  /\ Nth(S, k) \in S /\ s[k] \in Lines /\ 2 * s[k] = content[f][Nth(S, k)]
  <2>1. Nth(S, k) \in S
    BY <1>1, <1>2, NthIsIn
  <2>2. content[f][Nth(S, k)] \in Halves /\ content[f][Nth(S, k)] % 2 = 0
    BY <1>1, <2>1, EndsAreIn
  <2>3. s[k] = content[f][Nth(S, k)] \div 2
    BY <1>4
  <2> QED  BY <2>1, <2>2, <2>3, Numbers
<1>6. s \in Seq(Lines) /\ DOMAIN s = 1..n
  <2>1. s \in [1..n -> Lines]
    BY <1>4, <1>5
  <2> QED  BY <2>1, SeqDef
<1>7. ASSUME NEW k \in 1..n, NEW l \in 1..n, k < l  PROVE s[k] < s[l]
  <2>1. Nth(S, k) < Nth(S, l)
    BY <1>1, <1>2, <1>7, NthAscends
  <2>2. content[f][Nth(S, k)] < content[f][Nth(S, l)]
    BY <1>1, <1>5, <2>1, EndsAreIn DEF Disk, Increasing
  <2>3. s[k] \in Nat /\ s[l] \in Nat /\ 2 * s[k] < 2 * s[l]
    BY <1>5, <2>2, Numbers
  <2> QED  BY <2>3
<1>8. ASSUME NEW x \in ToSet(s)  PROVE \E i \in S: 2 * x = content[f][i]
  <2>1. PICK k \in 1..n: x = s[k]
    BY <1>6 DEF ToSet
  <2> QED  BY <1>5, <2>1
<1>9. ASSUME NEW x \in LinesAfter(f, p)  PROVE x \in ToSet(s)
  <2>1. PICK i \in S: x = content[f][i] \div 2
    BY <1>1 DEF LinesAfter
  <2>2. PICK k \in 1..n: i = Nth(S, k)
    BY <1>1, <1>2, NthIsIn
  <2>3. x = s[k]
    BY <1>4, <2>1, <2>2
  <2> QED  BY <1>6, <2>3 DEF ToSet
<1> QED  BY <1>1, <1>3, <1>6, <1>7, <1>8, <1>9 DEF Increasing

\* The position moves over all lines that were read.
LEMMA TakenIsLast ==
  ASSUME TypeOK, NEW f \in Files, NEW p \in Nat
  PROVE  /\ Taken(f, p) # p => Ends(f, p) # {} /\ Taken(f, p) \in DOMAIN content[f]
         /\ \A i \in Ends(f, p): i <= Taken(f, p)
         /\ Taken(f, p) >= p /\ Taken(f, p) \in Nat
<1>1. PICK S \in SUBSET Nat:
        S = Ends(f, p) /\ IsFiniteSet(S) /\ \A i \in S: i \in DOMAIN content[f] /\ i > p
  BY EndsAreIn
<1>2. CASE S = {}
  BY <1>1, <1>2 DEF Taken
<1>3. CASE S # {}
  <2>1. \E i \in S: \A j \in S: j <= i
    BY <1>1, <1>3, Greatest
  <2>2. Taken(f, p) = CHOOSE i \in S: \A j \in S: j <= i
    BY <1>1, <1>3 DEF Taken
  <2>3. Taken(f, p) \in S /\ \A j \in S: j <= Taken(f, p)
    BY <2>1, <2>2
  <2> QED  BY <1>1, <2>3
<1> QED  BY <1>2, <1>3

----------------------------------------------------------------------------
(* Steps of the writer and the rotator                                     *)

LEMMA EmptyContent ==
  /\ \A S: <<>> \in Seq(S)
  /\ Len(<<>>) = 0 /\ DOMAIN <<>> = {} /\ ToSet(<<>>) = {} /\ Increasing(<<>>)
  BY EmptySeq DEF ToSet, Increasing

LEMMA InvInit == Init => TailInv
<1> SUFFICES ASSUME Init  PROVE TailInv
  OBVIOUS
<1>1. \A f \in Files: content[f] = <<>>
  BY DEF Init
<1>2. TypeOK
  <2>1. <<>> \in Seq(Halves) /\ <<>> \in Seq(Lines)
    BY EmptyContent
  <2>2. content \in [Files -> Seq(Halves)] /\ lines \in Seq(Lines) /\ delivered \in Seq(Lines)
    BY <2>1 DEF Init
  <2>3. 0 \in 0..MaxChanges /\ 0 \in 0..MaxFaults
    BY BoundAssumption
  <2> QED  BY <2>2, <2>3 DEF Init, TypeOK
<1>3. Disk
  BY <1>1, EmptyContent DEF Init, Disk
<1>4. Places
  BY DEF Init, Places
<1>5. Got = <<>> /\ InOrder(<<>>)
  <2>1. delivered = <<>> /\ lines = <<>> /\ <<>> \in Seq(Lines)
    BY EmptyContent DEF Init
  <2>2. Got = <<>>
    BY <2>1, ConcatEmptySeq DEF Got
  <2> QED  BY <2>2, EmptyContent DEF InOrder
<1>6. Ahead(<<>>)
  BY DEF Init, Ahead
<1> QED  BY <1>2, <1>3, <1>4, <1>5, <1>6 DEF TailInv

\* What stays when others run.
LEMMA OutsideSame ==
  ASSUME Outside
  PROVE  /\ handle' = handle /\ pos' = pos /\ signature' = signature
         /\ pc' = pc /\ seen' = seen /\ fromEnd' = fromEnd /\ lines' = lines
         /\ delivered' = delivered /\ raced' = raced /\ eof' = eof /\ faults' = faults
         /\ Got' = Got
  BY DEF Outside, state, poll, Got

\* A file that is not opened yet is empty.
LEMMA LaterFilesEmpty ==
  ASSUME Disk, NEW s
  PROVE  \A f \in Files: f > target => DOMAIN content[f] = {} /\ Beyond(s, f, 0)
  BY EmptyContent DEF Disk, Beyond

\* One more half at the end of the file the writer has open.
LEMMA HalfWritten ==
  ASSUME TypeOK, Write
  PROVE  /\ target \in Files /\ written' \in Halves /\ written' = written + 1
         /\ content' \in [Files -> Seq(Halves)]
         /\ \A f \in Files \ {target}: content'[f] = content[f]
         /\ Len(content'[target]) = Len(content[target]) + 1
         /\ \A f \in Files:
              \A i \in DOMAIN content'[f]:
                \/ i \in DOMAIN content[f] /\ content'[f][i] = content[f][i]
                \/ f = target /\ i = Len(content[f]) + 1 /\ content'[f][i] = written + 1
<1>1. target \in Files /\ written \in {0} \cup Halves
  BY DEF TypeOK, Write
<1>2. written' \in Halves /\ written' = written + 1
  BY <1>1, Numbers, BoundAssumption DEF Write, Halves
<1>3. content[target] \in Seq(Halves)
  BY <1>1, Content
<1>4. PICK n \in Nat: n = Len(content[target]) /\ DOMAIN content[target] = 1..n
  BY <1>3, LenProperties
<1>5. PICK q: q = Append(content[target], written')
  OBVIOUS
<1>6. /\ q \in Seq(Halves) /\ Len(q) = n + 1 /\ q[n + 1] = written'
      /\ \A i \in 1..n: q[i] = content[target][i]
  BY <1>2, <1>3, <1>4, <1>5, AppendProperties
<1>7. DOMAIN q = 1..(n + 1) /\ \A i \in 1..(n + 1): i \in 1..n \/ i = n + 1
  <2>1. DOMAIN q = 1..(n + 1)
    BY <1>6, LenProperties
  <2> QED  BY <1>4, <2>1
<1>8. content' = [content EXCEPT ![target] = q] /\ content \in [Files -> Seq(Halves)]
  BY <1>5 DEF Write, TypeOK
<1>9. /\ content' \in [Files -> Seq(Halves)]
      /\ content'[target] = q /\ \A f \in Files \ {target}: content'[f] = content[f]
  BY <1>1, <1>6, <1>8
<1>10. \A i \in DOMAIN q: \/ i \in DOMAIN content[target] /\ q[i] = content[target][i]
                          \/ i = Len(content[target]) + 1 /\ q[i] = written + 1
  BY <1>2, <1>4, <1>6, <1>7
<1> QED  BY <1>1, <1>2, <1>4, <1>6, <1>9, <1>10

LEMMA WriteKeeps ==
  ASSUME TailInv, Write
  PROVE  TailInv'
<1>1. TypeOK /\ Disk /\ Places
  BY DEF TailInv
<1>2. PICK s: s = Got
  OBVIOUS
<1>3. Got' = s /\ Outside /\ UNCHANGED <<path, made, target, changes>>
  BY <1>2, OutsideSame DEF Write
<1>4. /\ target \in Files /\ written' \in Halves /\ written' = written + 1
      /\ content' \in [Files -> Seq(Halves)]
      /\ \A f \in Files \ {target}: content'[f] = content[f]
      /\ Len(content'[target]) = Len(content[target]) + 1
      /\ \A f \in Files:
           \A i \in DOMAIN content'[f]:
             \/ i \in DOMAIN content[f] /\ content'[f][i] = content[f][i]
             \/ f = target /\ i = Len(content[f]) + 1 /\ content'[f][i] = written + 1
  BY <1>1, HalfWritten
<1>5. TypeOK'
  BY <1>1, <1>3, <1>4, OutsideSame DEF TypeOK
<1>6. Places'
  BY <1>1, <1>3, OutsideSame DEF Places
<1>7. written \in Nat
  BY <1>1, Numbers DEF TypeOK
<1>8. ASSUME NEW f \in Files
      PROVE  /\ Len(content[f]) \in Nat /\ Len(content[f]) <= written
             /\ \A i \in DOMAIN content[f]:
                  /\ i \in Nat /\ i <= Len(content[f])
                  /\ content[f][i] \in Nat /\ content[f][i] <= written
  <2>1. \A i \in DOMAIN content[f]: i \in 1..Len(content[f]) /\ content[f][i] \in Nat
    BY <1>1, Content, Numbers
  <2> QED  BY <1>1, <2>1, Content DEF Disk
<1>9. Disk'
  <2>1. ASSUME NEW f \in Files  PROVE Len(content'[f]) <= written'
    <3>1. CASE f = target
      BY <1>4, <1>7, <1>8, <3>1
    <3>2. CASE f # target
      BY <1>4, <1>7, <1>8, <3>2
    <3> QED  BY <3>1, <3>2
  <2>2. ASSUME NEW f \in Files, NEW i \in DOMAIN content'[f]  PROVE content'[f][i] <= written'
    BY <1>4, <1>7, <1>8
  <2>3. ASSUME NEW f \in Files, NEW i \in DOMAIN content'[f], NEW j \in DOMAIN content'[f], i < j
        PROVE  content'[f][i] < content'[f][j]
    <3>1. CASE j \in DOMAIN content[f] /\ content'[f][j] = content[f][j]
      <4>1. i \in DOMAIN content[f] /\ content'[f][i] = content[f][i]
        BY <1>4, <1>8, <2>3, <3>1
      <4> QED  BY <1>1, <2>3, <3>1, <4>1 DEF Disk, Increasing
    <3>2. CASE f = target /\ j = Len(content[f]) + 1 /\ content'[f][j] = written + 1
      <4>1. i \in DOMAIN content[f] /\ content'[f][i] = content[f][i]
        BY <1>4, <1>8, <2>3, <3>2
      <4> QED  BY <1>7, <1>8, <3>2, <4>1
    <3> QED  BY <1>4, <3>1, <3>2
  <2>4. ASSUME NEW f \in Files, f > target'  PROVE content'[f] = <<>>
    BY <1>1, <1>3, <1>4, <2>4, Numbers DEF Disk
  <2>5. ASSUME NEW f \in Files, NEW g \in Files, f < g,
               NEW i \in DOMAIN content'[f], NEW j \in DOMAIN content'[g]
        PROVE  content'[f][i] < content'[g][j]
    <3>1. CASE g = target /\ content'[g][j] = written + 1
      <4>1. f # target
        BY <2>5, <3>1, Numbers
      <4>2. content'[f][i] <= written /\ content'[f][i] \in Nat
        BY <1>4, <1>8, <4>1
      <4> QED  BY <1>7, <3>1, <4>2
    <3>2. CASE j \in DOMAIN content[g] /\ content'[g][j] = content[g][j]
      <4>1. CASE f = target
        <5>1. DOMAIN content[g] = {}
          BY <1>1, <2>5, <4>1, LaterFilesEmpty, Numbers
        <5> QED  BY <3>2, <5>1
      <4>2. CASE f # target
        <5>1. i \in DOMAIN content[f] /\ content'[f][i] = content[f][i]
          BY <1>4, <4>2
        <5> QED  BY <1>1, <2>5, <3>2, <5>1 DEF Disk
      <4> QED  BY <4>1, <4>2
    <3> QED  BY <1>4, <3>1, <3>2
  <2> QED  BY <1>1, <1>3, <2>1, <2>2, <2>3, <2>4, <2>5 DEF Disk, Increasing
<1>10. ASSUME ~raced  PROVE InOrder(s)' /\ Ahead(s)'
  <2>1. InOrder(s) /\ Ahead(s)
    BY <1>2, <1>10 DEF TailInv
  <2>2. \A x \in ToSet(s): x \in Nat /\ 2 * x <= written
    <3>1. s \in Seq(Lines)
      BY <1>1, <1>2, ConcatProperties DEF TypeOK, Got
    <3>2. \A i \in DOMAIN s: s[i] \in Lines
      BY <3>1, ElementOfSeq, LenProperties
    <3> QED  BY <2>1, <3>2, Numbers DEF InOrder, ToSet
  <2>3. \A x \in ToSet(s): 2 * x <= written' /\ 2 * x < written + 1
    BY <1>4, <1>7, <2>2
  <2>4. InOrder(s)'
    BY <2>1, <2>3 DEF InOrder
  <2>5. ASSUME NEW f \in Files, NEW p, Beyond(s, f, p)
        PROVE  \A x \in ToSet(s): \A i \in DOMAIN content'[f]: i > p => 2 * x < content'[f][i]
    BY <1>4, <2>3, <2>5 DEF Beyond
  <2>6. \A f \in Files: Len(content'[f]) >= Len(content[f])
    BY <1>4, <1>8
  <2>7. handle # 0 => handle \in Files
    BY <1>1 DEF TypeOK
  <2>8. path # 0 => path \in Files
    BY <1>1 DEF TypeOK
  <2>9. handle # 0 /\ Len(content'[handle]) < pos => Size(handle) < pos
    <3>1. pos \in Nat
      BY <1>1, Numbers DEF TypeOK
    <3>2. \A f \in Files: Len(content'[f]) \in Nat
      BY <1>4, LenProperties
    <3> QED  BY <1>8, <2>6, <2>7, <3>1, <3>2 DEF Size
  <2>10. /\ handle' = handle /\ signature' = signature /\ pos' = pos
         /\ pc' = pc /\ fromEnd' = fromEnd /\ path' = path
    BY <1>3, OutsideSame
  <2>11. ASSUME handle # 0
         PROVE  /\ signature' = handle' /\ Beyond(s, handle, pos)'
                /\ Size(handle)' < pos' => Beyond(s, handle, 0)'
                /\ \A g \in Files: g > handle' => Beyond(s, g, 0)'
    BY <2>1, <2>5, <2>7, <2>9, <2>10, <2>11 DEF Ahead, Beyond, Size
  <2>12. ASSUME pc \in {"stat", "open"}, ~fromEnd, path # 0
         PROVE  Beyond(s, path, 0)'
    BY <2>1, <2>5, <2>8, <2>10, <2>12 DEF Ahead, Beyond
  <2> QED  BY <2>4, <2>10, <2>11, <2>12 DEF Ahead
<1> QED  BY <1>3, <1>5, <1>6, <1>9, <1>10, OutsideSame DEF TailInv

LEMMA RotatorKeeps ==
  ASSUME TailInv, Create \/ Reopen \/ Rename \/ Truncate
  PROVE  TailInv'
<1>1. TypeOK /\ Disk /\ Places
  BY DEF TailInv
<1>2. PICK s: s = Got
  OBVIOUS
<1>3. Got' = s /\ Outside /\ written' = written
  BY <1>2, OutsideSame DEF Create, Reopen, Rename, Truncate
<1>4. /\ handle' = handle /\ signature' = signature /\ pos' = pos
      /\ pc' = pc /\ fromEnd' = fromEnd /\ seen' = seen /\ raced' = raced
  BY <1>3, OutsideSame
<1>5. path \in {0} \cup Files /\ made \in {0} \cup Files /\ path \in {0, made} /\ made \in Nat
  BY <1>1, Numbers DEF TypeOK, Disk
<1>6. handle # 0 => handle \in Files
  BY <1>1 DEF TypeOK
<1>7. CASE Create
  <2>1. /\ made' = made + 1 /\ path' = made + 1 /\ made < MaxFiles
        /\ content' = content /\ target' = target /\ changes' = changes
    BY <1>7 DEF Create
  <2>2. made' \in Files
    BY <1>5, <2>1, BoundAssumption DEF Files
  <2>3. target \in Nat /\ target <= made /\ target <= made + 1 /\ made + 1 > target
    BY <1>1, <1>5, Numbers DEF TypeOK, Disk
  <2>4. TypeOK' /\ Disk'
    BY <1>1, <1>3, <2>1, <2>2, <2>3, OutsideSame DEF TypeOK, Disk
  <2>5. Places'
    <3>1. handle <= made + 1
      BY <1>1, <1>5, <1>6, Numbers DEF Places
    <3> QED  BY <1>1, <1>4, <2>1, <3>1 DEF Places
  <2>6. ASSUME ~raced  PROVE InOrder(s)' /\ Ahead(s)'
    <3>1. InOrder(s) /\ Ahead(s)
      BY <1>2, <2>6 DEF TailInv
    <3>2. Beyond(s, made + 1, 0)
      BY <1>1, <2>1, <2>2, <2>3, LaterFilesEmpty
    <3> QED  BY <1>3, <1>4, <2>1, <3>1, <3>2 DEF Ahead, Beyond, InOrder, Size
  <2> QED  BY <1>3, <1>4, <2>4, <2>5, <2>6 DEF TailInv
<1>8. CASE Reopen
  <2>1. /\ target' = path /\ path \in Files /\ path = made
        /\ made' = made /\ path' = path /\ content' = content /\ changes' = changes
    BY <1>5, <1>8 DEF Reopen
  <2>2. target \in Nat /\ target <= made /\ made <= made
    BY <1>1, <1>5, Numbers DEF TypeOK, Disk
  <2>3. \A f \in Files: f > made => f > target
    BY <1>5, <2>2, Numbers
  <2>4. TypeOK' /\ Disk' /\ Places'
    BY <1>1, <1>3, <1>4, <2>1, <2>2, <2>3, OutsideSame DEF TypeOK, Disk, Places
  <2>5. ASSUME ~raced  PROVE InOrder(s)' /\ Ahead(s)'
    BY <1>2, <1>3, <1>4, <2>1, <2>5 DEF TailInv, Ahead, Beyond, InOrder, Size
  <2> QED  BY <1>3, <1>4, <2>4, <2>5 DEF TailInv
<1>9. CASE Rename
  <2>1. /\ path' = 0 /\ changes' = changes + 1 /\ changes < MaxChanges
        /\ made' = made /\ target' = target /\ content' = content
    BY <1>9 DEF Rename
  <2>2. changes' \in 0..MaxChanges
    BY <1>1, <2>1, BoundAssumption DEF TypeOK
  <2>3. TypeOK' /\ Disk' /\ Places'
    BY <1>1, <1>3, <1>4, <2>1, <2>2, OutsideSame DEF TypeOK, Disk, Places
  <2>4. ASSUME ~raced  PROVE InOrder(s)' /\ Ahead(s)'
    BY <1>2, <1>3, <1>4, <2>1, <2>4 DEF TailInv, Ahead, Beyond, InOrder, Size
  <2> QED  BY <1>3, <1>4, <2>3, <2>4 DEF TailInv
<1>10. CASE Truncate
  <2>1. /\ path \in Files /\ content' = [content EXCEPT ![path] = <<>>]
        /\ changes' = changes + 1 /\ changes < MaxChanges
        /\ path' = path /\ made' = made /\ target' = target
    BY <1>5, <1>10 DEF Truncate
  <2>2. changes' \in 0..MaxChanges
    BY <1>1, <2>1, BoundAssumption DEF TypeOK
  <2>3. /\ content' \in [Files -> Seq(Halves)]
        /\ content'[path] = <<>> /\ \A f \in Files \ {path}: content'[f] = content[f]
    BY <1>1, <2>1, EmptyContent DEF TypeOK
  <2>4. \A f \in Files: \A i \in DOMAIN content'[f]:
          f # path /\ i \in DOMAIN content[f] /\ content'[f][i] = content[f][i]
    BY <2>3, EmptyContent
  <2>5. \A f \in Files: /\ Len(content'[f]) <= written
                        /\ f > target => content'[f] = <<>>
    <3>1. 0 <= written
      BY <1>1, Numbers DEF TypeOK
    <3> QED  BY <1>1, <2>3, <3>1, EmptyContent DEF Disk
  <2>6. TypeOK' /\ Places'
    BY <1>1, <1>3, <1>4, <2>1, <2>2, <2>3, OutsideSame DEF TypeOK, Places
  <2>7. Disk'
    BY <1>1, <1>3, <2>1, <2>4, <2>5 DEF Disk, Increasing
  <2>8. ASSUME ~raced  PROVE InOrder(s)' /\ Ahead(s)'
    <3>1. InOrder(s) /\ Ahead(s)
      BY <1>2, <2>8 DEF TailInv
    <3>2. \A f \in Files: \A p: Beyond(s, f, p) =>
            \A x \in ToSet(s): \A i \in DOMAIN content'[f]: i > p => 2 * x < content'[f][i]
      BY <2>4 DEF Beyond
    <3>3. \A x \in ToSet(s): \A i \in DOMAIN content'[path]: i > 0 => 2 * x < content'[path][i]
      BY <2>1, <2>4
    <3>4. ASSUME handle # 0
          PROVE  /\ signature' = handle' /\ Beyond(s, handle, pos)'
                 /\ Size(handle)' < pos' => Beyond(s, handle, 0)'
                 /\ \A g \in Files: g > handle' => Beyond(s, g, 0)'
      <4>1. Size(handle)' < pos' => Beyond(s, handle, 0)'
        <5>1. CASE handle = path
          BY <1>4, <3>3, <5>1 DEF Beyond
        <5>2. CASE handle # path
          BY <1>4, <1>6, <2>3, <3>1, <3>2, <3>4, <5>2 DEF Ahead, Beyond, Size
        <5> QED  BY <5>1, <5>2
      <4> QED  BY <1>4, <1>6, <3>1, <3>2, <3>4, <4>1 DEF Ahead, Beyond
    <3>5. Beyond(s, path, 0)'
      BY <2>1, <3>3 DEF Beyond
    <3>6. InOrder(s)'
      BY <1>3, <3>1 DEF InOrder
    <3> QED  BY <1>4, <3>4, <3>5, <3>6 DEF Ahead
  <2> QED  BY <1>3, <1>4, <2>6, <2>7, <2>8 DEF TailInv
<1> QED  BY <1>7, <1>8, <1>9, <1>10

----------------------------------------------------------------------------
(* Steps of a poll                                                         *)

LEMMA GotTyped ==
  ASSUME TypeOK
  PROVE  /\ Got \in Seq(Lines) /\ <<>> \in Seq(Lines)
         /\ Got \o <<>> = Got /\ delivered \o <<>> = delivered
  BY ConcatProperties, ConcatEmptySeq, EmptyContent DEF TypeOK, Got

\* What a poll returns is what it had read.
LEMMA ReturnKeeps ==
  ASSUME TypeOK, Return(lines)
  PROVE  /\ delivered' = Got /\ delivered' \in Seq(Lines) /\ lines' = <<>> /\ lines' \in Seq(Lines)
         /\ Got' = Got /\ pc' = "idle" /\ seen' = seen /\ fromEnd' = fromEnd
  BY GotTyped DEF Return, Got

\* The files are as they were.
LEMMA InsideSame ==
  ASSUME TypeOK, Disk, Inside
  PROVE  /\ Disk'
         /\ path' = path /\ made' = made /\ content' = content /\ target' = target
         /\ written' = written /\ changes' = changes
         /\ \A s: /\ InOrder(s)' <=> InOrder(s)
                  /\ \A f, p: Beyond(s, f, p)' <=> Beyond(s, f, p)
         /\ \A f: Size(f)' = Size(f)
  BY DEF Inside, disk, Disk, InOrder, Beyond, Size, Increasing

LEMMA OldFaults == TypeOK /\ UNCHANGED faults => faults' \in 0..MaxFaults
  BY DEF TypeOK

LEMMA BeginKeeps ==
  ASSUME TailInv, Begin
  PROVE  TailInv'
<1>1. TypeOK /\ Disk /\ Places
  BY DEF TailInv
<1>2. /\ pc' = (IF handle = 0 THEN "stat" ELSE "read") /\ fromEnd' = TRUE
      /\ Inside /\ UNCHANGED <<state, seen, lines, delivered, raced, eof, faults>>
  BY DEF Begin
<1>3. TypeOK' /\ Disk' /\ Places'
  BY <1>1, <1>2, InsideSame DEF TypeOK, Places, state
<1>4. PICK s: s = Got /\ Got' = s
  BY <1>2 DEF Got
<1>5. ASSUME ~raced  PROVE InOrder(s)' /\ Ahead(s)'
  BY <1>1, <1>2, <1>4, <1>5, InsideSame DEF TailInv, Ahead, InOrder, Beyond, Size, state
<1> QED  BY <1>2, <1>3, <1>4, <1>5 DEF TailInv

LEMMA StatKeeps ==
  ASSUME TailInv, Stat
  PROVE  TailInv'
<1>1. TypeOK /\ Disk /\ Places /\ pc = "stat"
  BY DEF TailInv, Stat
<1>2. Inside /\ UNCHANGED <<state, raced, eof, faults>>
  BY DEF Stat
<1>3. /\ pc' = "idle" \/ (path # 0 /\ seen' = path /\ pc' = "open")
      /\ fromEnd' = fromEnd /\ seen' \in {0} \cup Files
      /\ lines' \in Seq(Lines) /\ delivered' \in Seq(Lines) /\ Got' = Got
  <2>1. CASE path = 0
    <3>1. Return(lines)
      BY <2>1 DEF Stat
    <3> QED  BY <1>1, <3>1, ReturnKeeps DEF TypeOK
  <2>2. CASE path # 0
    <3>1. seen' = path /\ pc' = "open" /\ UNCHANGED <<fromEnd, lines, delivered>>
      BY <2>2 DEF Stat
    <3> QED  BY <1>1, <2>2, <3>1 DEF TypeOK, Got
  <2> QED  BY <2>1, <2>2
<1>4. TypeOK' /\ Disk' /\ Places'
  BY <1>1, <1>2, <1>3, InsideSame DEF TypeOK, Places, state
<1>5. PICK s: s = Got /\ Got' = s
  BY <1>3
<1>6. ASSUME ~raced  PROVE InOrder(s)' /\ Ahead(s)'
  <2>1. InOrder(s) /\ Ahead(s)
    BY <1>5, <1>6 DEF TailInv
  <2> QED  BY <1>1, <1>2, <1>3, <2>1, InsideSame DEF Ahead, InOrder, Beyond, Size, state
<1> QED  BY <1>2, <1>4, <1>5, <1>6 DEF TailInv

\* Positions are small enough.
LEMMA SizeTyped ==
  ASSUME TypeOK, Disk, NEW f \in Files
  PROVE  /\ Size(f) \in {0} \cup Halves /\ Size(f) \in Nat
         /\ \A i \in DOMAIN content[f]: i \in {0} \cup Halves /\ i <= Size(f)
<1>1. PICK n \in Nat: n = Size(f) /\ DOMAIN content[f] = 1..n /\ n <= written
  BY Content DEF Disk
<1>2. written \in {0} \cup Halves
  BY DEF TypeOK
<1>3. n \in {0} \cup Halves
  BY <1>1, <1>2, BoundAssumption DEF Halves
<1>4. \A i \in 1..n: i \in Halves /\ i <= n
  BY <1>1, <1>2, BoundAssumption DEF Halves
<1> QED  BY <1>1, <1>3, <1>4

LEMMA OpenKeeps ==
  ASSUME TailInv, Open
  PROVE  TailInv'
<1>1. TypeOK /\ Disk /\ Places /\ pc = "open" /\ seen # 0
  BY DEF TailInv, Open, Places
<1>2. Inside /\ UNCHANGED <<eof, faults>>
  BY DEF Open
<1>3. PICK s: s = Got
  OBVIOUS
<1>4. CASE path = 0
  <2>1. Return(lines) /\ UNCHANGED <<state, raced>>
    BY <1>4 DEF Open
  <2>2. /\ delivered' \in Seq(Lines) /\ lines' \in Seq(Lines)
        /\ Got' = s /\ pc' = "idle" /\ seen' = seen /\ fromEnd' = fromEnd
    BY <1>1, <1>3, <2>1, ReturnKeeps
  <2>3. TypeOK' /\ Disk' /\ Places'
    BY <1>1, <1>2, <2>1, <2>2, InsideSame DEF TypeOK, Places, state
  <2>4. ASSUME ~raced  PROVE InOrder(s)' /\ Ahead(s)'
    BY <1>1, <1>2, <1>3, <2>1, <2>2, <2>4, InsideSame
       DEF TailInv, Ahead, InOrder, Beyond, Size, state
  <2> QED  BY <2>1, <2>2, <2>3, <2>4 DEF TailInv
<1>5. CASE path # 0
  <2>1. /\ handle' = path /\ signature' = seen /\ pos' = Start(path)
        /\ raced' = (raced \/ path # seen)
        /\ pc' = (IF fromEnd THEN "read" ELSE "reread")
        /\ UNCHANGED <<seen, fromEnd, lines, delivered>>
    BY <1>5 DEF Open
  <2>2. /\ path \in Files /\ path = made /\ made \in Nat
        /\ Size(path) \in Nat /\ Size(path) \in {0} \cup Halves
    BY <1>1, <1>5, SizeTyped, Numbers DEF TypeOK, Disk
  <2>3. TypeOK'
    <3>1. pos' \in {0} \cup Halves
      BY <2>1, <2>2 DEF Start
    <3>2. pc' \in {"read", "reread"} /\ raced' \in BOOLEAN
      BY <2>1
    <3> QED  BY <1>1, <1>2, <1>5, <2>1, <2>2, <3>1, <3>2, InsideSame DEF TypeOK
  <2>4. Disk' /\ Places' /\ Got' = s
    BY <1>1, <1>2, <1>3, <1>5, <2>1, <2>2, InsideSame DEF Places, Got
  <2>5. ASSUME ~raced'  PROVE InOrder(s)' /\ Ahead(s)'
    <3>1. InOrder(s) /\ Ahead(s) /\ seen = path
      BY <1>3, <2>1, <2>5 DEF TailInv
    <3>2. \A g \in Files: g > path => Beyond(s, g, 0)
      <4>1. target \in Nat /\ target <= path
        BY <1>1, <2>2, Numbers DEF TypeOK, Disk
      <4>2. \A g \in Files: g > path => g > target
        BY <2>2, <4>1, Numbers
      <4> QED  BY <1>1, <4>2, LaterFilesEmpty
    <3>3. CASE fromEnd
      <4>1. pos' = Size(path)
        BY <2>1, <3>3 DEF Start
      <4>2. Beyond(s, path, Size(path)) /\ ~(Size(path) < Size(path))
        <5>1. \A i \in DOMAIN content[path]: ~(i > Size(path))
          BY <1>1, <2>2, SizeTyped, Content
        <5> QED  BY <2>2, <5>1 DEF Beyond
      <4> QED  BY <1>1, <1>2, <2>1, <3>1, <3>2, <3>3, <4>1, <4>2, InsideSame
               DEF Ahead, InOrder, Beyond, Size
    <3>4. CASE ~fromEnd
      <4>1. pos' = 0 /\ ~(Size(path) < 0)
        BY <2>1, <2>2, <3>4 DEF Start
      <4>2. Beyond(s, path, 0)
        BY <1>1, <1>5, <3>1, <3>4 DEF Ahead
      <4> QED  BY <1>1, <1>2, <2>1, <3>1, <3>2, <3>4, <4>1, <4>2, InsideSame
               DEF Ahead, InOrder, Beyond, Size
    <3> QED  BY <3>3, <3>4
  <2> QED  BY <2>3, <2>4, <2>5 DEF TailInv
<1> QED  BY <1>4, <1>5

LEMMA ReadKeeps ==
  ASSUME TailInv, Read
  PROVE  TailInv'
<1>1. /\ TypeOK /\ Disk /\ Places /\ pc \in {"read", "reread"}
      /\ handle \in Files /\ handle # 0 /\ pos \in {0} \cup Halves /\ pos \in Nat
  BY Numbers DEF TailInv, Read, TypeOK, Places
<1>2. /\ pos' = Taken(handle, pos)
      /\ Inside /\ UNCHANGED <<handle, signature, raced, faults>>
  BY DEF Read
<1>3. PICK s: s = Got
  OBVIOUS
<1>4. CASE pos' = pos
  <2>1. /\ pc' \in {"idle", "check"} /\ seen' = seen /\ fromEnd' = fromEnd
        /\ lines' \in Seq(Lines) /\ delivered' \in Seq(Lines) /\ Got' = s
        /\ eof' \in {0} \cup Halves
    <3>1. CASE pc = "reread"
      BY <1>1, <1>3, <1>4, <3>1, ReturnKeeps DEF Read, TypeOK
    <3>2. CASE pc # "reread"
      BY <1>1, <1>3, <1>4, <3>2 DEF Read, TypeOK, Got
    <3> QED  BY <3>1, <3>2
  <2>2. TypeOK' /\ Disk' /\ Places'
    BY <1>1, <1>2, <1>4, <2>1, InsideSame DEF TypeOK, Places
  <2>3. ASSUME ~raced  PROVE InOrder(s)' /\ Ahead(s)'
    BY <1>1, <1>2, <1>3, <1>4, <2>1, <2>3, InsideSame
       DEF TailInv, Ahead, InOrder, Beyond, Size
  <2> QED  BY <1>2, <2>1, <2>2, <2>3 DEF TailInv
<1>5. CASE pos' # pos
  <2>1. PICK t: t = LinesFrom(handle, pos)
    OBVIOUS
  <2>2. /\ lines' = lines \o t
        /\ pc' = pc /\ seen' = seen /\ fromEnd' = fromEnd /\ delivered' = delivered /\ eof' = eof
    BY <1>5, <2>1 DEF Read
  <2>3. /\ t \in Seq(Lines) /\ Increasing(t)
        /\ \A x \in ToSet(t): \E i \in Ends(handle, pos): 2 * x = content[handle][i]
    BY <1>1, <2>1, LinesInOrder
  <2>4. s \in Seq(Lines) /\ lines \in Seq(Lines) /\ delivered \in Seq(Lines)
    BY <1>1, <1>3, GotTyped DEF TypeOK
  <2>5. lines' \in Seq(Lines) /\ Got' = s \o t
    <3>1. lines \o t \in Seq(Lines)
      BY <2>3, <2>4, ConcatProperties
    <3>2. delivered \o (lines \o t) = (delivered \o lines) \o t
      BY <2>3, <2>4, ConcatAssociative
    <3> QED  BY <1>3, <2>2, <3>1, <3>2 DEF Got
  <2>6. /\ pos' \in DOMAIN content[handle] /\ \A i \in Ends(handle, pos): i <= pos'
        /\ pos' >= pos /\ pos' \in Nat
    BY <1>1, <1>2, <1>5, TakenIsLast
  <2>7. pos' \in {0} \cup Halves /\ pos' <= Size(handle) /\ Size(handle) \in Nat
    BY <1>1, <2>6, SizeTyped
  <2>8. TypeOK' /\ Disk' /\ Places'
    BY <1>1, <1>2, <2>2, <2>5, <2>7, InsideSame DEF TypeOK, Places
  <2>9. ASSUME ~raced  PROVE InOrder(s \o t)' /\ Ahead(s \o t)'
    <3>1. InOrder(s) /\ Ahead(s)
      BY <1>3, <2>9 DEF TailInv
    <3>2. /\ s \o t \in Seq(Lines) /\ ToSet(s \o t) = ToSet(s) \cup ToSet(t)
          /\ (\A x \in ToSet(s), y \in ToSet(t): x < y) => Increasing(s \o t)
      BY <2>3, <2>4, <3>1, ToSetConcat DEF InOrder
    <3>3. \A i \in Ends(handle, pos):
            /\ i \in DOMAIN content[handle] /\ i > pos /\ i <= pos' /\ i \in Nat
            /\ content[handle][i] \in Nat /\ content[handle][i] <= written
      BY <1>1, <2>6, EndsAreIn, Content, Numbers DEF Disk
    <3>4. \A x \in ToSet(s): x \in Nat
      <4>1. \A i \in DOMAIN s: s[i] \in Lines
        BY <2>4, ElementOfSeq, LenProperties
      <4> QED  BY <4>1, Numbers DEF ToSet
    <3>5. \A y \in ToSet(t): y \in Nat
      <4>1. \A i \in DOMAIN t: t[i] \in Lines
        BY <2>3, ElementOfSeq, LenProperties
      <4> QED  BY <4>1, Numbers DEF ToSet
    <3>6. ASSUME NEW x \in ToSet(s), NEW y \in ToSet(t)  PROVE x < y
      <4>1. PICK i \in Ends(handle, pos): 2 * y = content[handle][i]
        BY <2>3
      <4>2. 2 * x < 2 * y
        BY <1>1, <3>1, <3>3, <4>1 DEF Ahead, Beyond
      <4> QED  BY <3>4, <3>5, <4>2
    <3>7. \A y \in ToSet(t): 2 * y <= written
      BY <2>3, <3>3
    <3>8. InOrder(s \o t)
      BY <3>1, <3>2, <3>6, <3>7 DEF InOrder
    <3>9. Beyond(s \o t, handle, pos')
      <4> SUFFICES ASSUME NEW x \in ToSet(s) \cup ToSet(t),
                          NEW i \in DOMAIN content[handle], i > pos'
                   PROVE  2 * x < content[handle][i]
        BY <3>2 DEF Beyond
      <4>1. i \in Nat /\ content[handle][i] \in Nat /\ i > pos
        BY <1>1, <2>6, Content, Numbers
      <4>2. CASE x \in ToSet(s)
        BY <1>1, <3>1, <4>1, <4>2 DEF Ahead, Beyond
      <4>3. CASE x \in ToSet(t)
        <5>1. PICK j \in Ends(handle, pos): 2 * x = content[handle][j]
          BY <2>3, <4>3
        <5>2. j < i /\ j \in DOMAIN content[handle]
          BY <2>6, <3>3, <4>1
        <5> QED  BY <1>1, <5>1, <5>2 DEF Disk, Increasing
      <4> QED  BY <4>2, <4>3
    <3>10. ASSUME NEW g \in Files, g > handle  PROVE Beyond(s \o t, g, 0)
      <4> SUFFICES ASSUME NEW x \in ToSet(s) \cup ToSet(t), NEW i \in DOMAIN content[g], i > 0
                   PROVE  2 * x < content[g][i]
        BY <3>2 DEF Beyond
      <4>1. CASE x \in ToSet(s)
        BY <1>1, <3>1, <3>10, <4>1 DEF Ahead, Beyond
      <4>2. CASE x \in ToSet(t)
        <5>1. PICK j \in Ends(handle, pos): 2 * x = content[handle][j]
          BY <2>3, <4>2
        <5>2. handle < g
          BY <1>1, <3>10, Numbers
        <5> QED  BY <1>1, <3>3, <5>1, <5>2 DEF Disk
      <4> QED  BY <4>1, <4>2
    <3>11. ~(Size(handle) < pos')
      BY <2>6, <2>7
    <3>12. signature = handle
      BY <1>1, <3>1 DEF Ahead
    <3> QED  BY <1>1, <1>2, <2>2, <3>8, <3>9, <3>10, <3>11, <3>12, InsideSame
             DEF Ahead, InOrder, Beyond, Size
  <2> QED  BY <1>2, <2>5, <2>8, <2>9 DEF TailInv
<1> QED  BY <1>4, <1>5

LEMMA CheckKeeps ==
  ASSUME TailInv, Check
  PROVE  TailInv'
<1>1. /\ TypeOK /\ Disk /\ Places /\ pc = "check"
      /\ handle \in Files /\ handle # 0 /\ path \in {0} \cup Files
  BY DEF TailInv, Check, TypeOK, Places
<1>2. Inside /\ UNCHANGED <<raced, eof, faults>>
  BY DEF Check
<1>3. PICK s: s = Got
  OBVIOUS
<1>4. CASE Rotated
  <2>1. /\ handle' = 0 /\ pos' = 0 /\ signature' = 0
        /\ pc' = "stat" /\ fromEnd' = FALSE /\ UNCHANGED <<seen, lines, delivered>>
    BY <1>4 DEF Check, Close
  <2>2. TypeOK' /\ Disk' /\ Places' /\ Got' = s
    <3>1. 0 <= made
      BY <1>1, Numbers DEF TypeOK
    <3>2. TypeOK'
      BY <1>1, <1>2, <2>1, InsideSame DEF TypeOK
    <3> QED  BY <1>1, <1>2, <1>3, <2>1, <3>1, <3>2, InsideSame DEF Places, Got
  <2>3. ASSUME ~raced  PROVE InOrder(s)' /\ Ahead(s)'
    <3>1. InOrder(s) /\ Ahead(s) /\ signature = handle
      BY <1>1, <1>3, <2>3 DEF TailInv, Ahead
    <3>2. path # 0 /\ path = made /\ path \in Files
      BY <1>1, <1>4 DEF Rotated, Disk
    <3>3. Beyond(s, path, 0)
      <4>1. CASE path # handle
        <5>1. path > handle
          BY <1>1, <3>2, <4>1, Numbers DEF Places
        <5> QED  BY <1>1, <3>1, <3>2, <5>1 DEF Ahead
      <4>2. CASE path = handle
        BY <1>1, <1>4, <3>1, <4>2 DEF Rotated, Ahead
      <4> QED  BY <4>1, <4>2
    <3> QED  BY <1>1, <1>2, <2>1, <3>1, <3>3, InsideSame DEF Ahead, InOrder, Beyond
  <2> QED  BY <1>2, <2>2, <2>3 DEF TailInv
<1>5. CASE ~Rotated
  <2>1. Return(lines) /\ UNCHANGED state
    BY <1>5 DEF Check
  <2>2. /\ delivered' \in Seq(Lines) /\ lines' \in Seq(Lines)
        /\ Got' = s /\ pc' = "idle" /\ seen' = seen /\ fromEnd' = fromEnd
    BY <1>1, <1>3, <2>1, ReturnKeeps
  <2>3. TypeOK' /\ Disk' /\ Places'
    BY <1>1, <1>2, <2>1, <2>2, InsideSame DEF TypeOK, Places, state
  <2>4. ASSUME ~raced  PROVE InOrder(s)' /\ Ahead(s)'
    BY <1>1, <1>2, <1>3, <2>1, <2>2, <2>4, InsideSame
       DEF TailInv, Ahead, InOrder, Beyond, Size, state
  <2> QED  BY <1>2, <2>2, <2>3, <2>4 DEF TailInv
<1> QED  BY <1>4, <1>5

LEMMA FailKeeps ==
  ASSUME TailInv, Fail
  PROVE  TailInv'
<1>1. TypeOK /\ Disk /\ Places
  BY DEF TailInv
<1>2. /\ handle' = 0 /\ pos' = 0 /\ signature' = 0
      /\ delivered' = delivered \o <<>> /\ lines' = <<>>
      /\ pc' = "idle" /\ UNCHANGED <<seen, fromEnd>>
      /\ Inside /\ UNCHANGED <<raced, eof>>
      /\ faults' = faults + 1 /\ faults < MaxFaults
  BY DEF Fail, Close, Return
<1>3. PICK s: s = delivered /\ s \in Seq(Lines)
  BY <1>1 DEF TypeOK
<1>4. delivered' = s /\ lines' \in Seq(Lines) /\ Got' = s
  BY <1>1, <1>2, <1>3, GotTyped DEF Got
<1>5. faults' \in 0..MaxFaults
  BY <1>1, <1>2, BoundAssumption DEF TypeOK
<1>6. made \in Nat
  BY <1>1, Numbers DEF TypeOK
<1>7. TypeOK' /\ Disk' /\ Places'
  BY <1>1, <1>2, <1>3, <1>4, <1>5, <1>6, InsideSame DEF TypeOK, Places
<1>8. ASSUME ~raced  PROVE InOrder(s)' /\ Ahead(s)'
  <2>1. InOrder(Got)
    BY <1>8 DEF TailInv
  <2>2. InOrder(s)
    <3>1. lines \in Seq(Lines)
      BY <1>1 DEF TypeOK
    <3>2. Increasing(s) /\ ToSet(s) \subseteq ToSet(Got)
      BY <1>3, <2>1, <3>1, ToSetConcat DEF Got, InOrder
    <3> QED  BY <2>1, <3>2 DEF InOrder
  <2> QED  BY <1>1, <1>2, <2>2, InsideSame DEF InOrder, Ahead
<1> QED  BY <1>2, <1>4, <1>7, <1>8 DEF TailInv

LEMMA InvNext == TailInv /\ [Next]_vars => TailInv'
<1> SUFFICES ASSUME TailInv, [Next]_vars  PROVE TailInv'
  OBVIOUS
<1>1. CASE Next
  BY <1>1, WriteKeeps, RotatorKeeps, BeginKeeps, StatKeeps, OpenKeeps, ReadKeeps, CheckKeeps,
     FailKeeps DEF Next, Poll
<1>2. CASE UNCHANGED vars
  BY <1>2 DEF vars, disk, state, poll, TailInv, TypeOK, Disk, Places, Got, InOrder, Ahead,
     Beyond, Size, Increasing
<1> QED  BY <1>1, <1>2

LEMMA InvHolds == Spec => []TailInv
  BY InvInit, InvNext, PTL DEF Spec

----------------------------------------------------------------------------
(* The theorems                                                            *)

\* FileTail never leaves its types: the handle and the signature are set and dropped
\* together, and the position stays within what was ever written.
THEOREM TailTypes == Spec => []TypeOK
<1>1. TailInv => TypeOK
  BY DEF TailInv
<1> QED  BY InvHolds, <1>1, PTL

\* poll returns no line twice or out of order, whatever is written, rotated and
\* truncated between its system calls and wherever one of them fails, until the path
\* changes between the stat and the open of one _open.
THEOREM LinesAreInOrderOnce == Spec => []InOrderOnce
<1>1. TailInv => InOrderOnce
  <2> SUFFICES ASSUME TailInv, ~raced
               PROVE  \A i, j \in DOMAIN delivered: i < j => delivered[i] < delivered[j]
    BY DEF InOrderOnce
  <2>1. delivered \in Seq(Lines) /\ lines \in Seq(Lines) /\ Increasing(delivered \o lines)
    BY DEF TailInv, TypeOK, InOrder, Got
  <2>2. Increasing(delivered)
    BY <2>1, ToSetConcat
  <2> QED  BY <2>2 DEF Increasing
<1> QED  BY InvHolds, <1>1, PTL

----------------------------------------------------------------------------
(* No line is lost outside the windows                                     *)

\* A poll that is about to open has no file open; one that is about to look for a
\* rotation has read all that was written by then.
LossInv ==
  /\ TailInv
  /\ pc \in {"stat", "open"} => handle = 0
  /\ eof <= written
  /\ pc = "check" => \A l \in LinesAfter(handle, pos): 2 * l > eof

\* A line is found in f after p if its second half is there.
Found ==
  \A f \in Files, p \in Nat: \A l:
    l \in LinesAfter(f, p) <=>
      l \in Lines /\ \E i \in DOMAIN content[f]: i > p /\ content[f][i] = 2 * l

LEMMA LinesFound == TypeOK => Found
<1> SUFFICES ASSUME TypeOK, NEW f \in Files, NEW p \in Nat, NEW l
             PROVE  l \in LinesAfter(f, p) <=>
                      l \in Lines /\ \E i \in DOMAIN content[f]: i > p /\ content[f][i] = 2 * l
  BY DEF Found
<1>1. ASSUME l \in LinesAfter(f, p)
      PROVE  l \in Lines /\ \E i \in DOMAIN content[f]: i > p /\ content[f][i] = 2 * l
  <2>1. PICK i \in Ends(f, p): l = content[f][i] \div 2
    BY <1>1 DEF LinesAfter
  <2>2. /\ i \in DOMAIN content[f] /\ i > p
        /\ content[f][i] \in Halves /\ content[f][i] % 2 = 0
    BY EndsAreIn
  <2> QED  BY <2>1, <2>2, Numbers
<1>2. ASSUME l \in Lines, NEW i \in DOMAIN content[f], i > p, content[f][i] = 2 * l
      PROVE  l \in LinesAfter(f, p)
  <2>1. PICK n \in Nat: n = Size(f) /\ i \in 1..n
    BY Content
  <2>2. i \in (p + 1)..n
    BY <1>2, <2>1
  <2>3. (2 * l) % 2 = 0 /\ (2 * l) \div 2 = l
    BY <1>2, Numbers
  <2>4. i \in Ends(f, p)
    BY <1>2, <2>1, <2>2, <2>3 DEF Ends
  <2> QED  BY <1>2, <2>3, <2>4 DEF LinesAfter
<1> QED  BY <1>1, <1>2

LEMMA LinesFoundNext == TypeOK' => Found'
  BY LinesFound, PTL

LEMMA PositionIsNat == TypeOK => pos \in Nat /\ (handle # 0 => handle \in Files)
  BY Numbers DEF TypeOK

LEMMA LossInit == Init => LossInv
<1> SUFFICES ASSUME Init  PROVE LossInv
  OBVIOUS
<1>1. TailInv
  BY InvInit
<1> QED  BY <1>1 DEF Init, LossInv

\* What a write, or a step that only moves or empties files, leaves to be found.
LEMMA FoundAfterOutside ==
  ASSUME TypeOK, TypeOK', Write \/ Create \/ Reopen \/ Rename \/ Truncate
  PROVE  /\ \A f \in Files, p \in Nat: \A l \in LinesAfter(f, p)':
              l \in LinesAfter(f, p) \/ (Write /\ 2 * l = written + 1)
         /\ ~Truncate => \A f \in Files, p \in Nat:
                            \A l \in LinesAfter(f, p): l \in LinesAfter(f, p)'
<1>1. Found /\ Found'
  BY LinesFound, LinesFoundNext
<1>2. CASE Write
  <2>1. \A f \in Files:
          \A i \in DOMAIN content'[f]:
            \/ i \in DOMAIN content[f] /\ content'[f][i] = content[f][i]
            \/ content'[f][i] = written + 1
    BY <1>2, HalfWritten
  <2>2. \A f \in Files:
          \A i \in DOMAIN content[f]: i \in DOMAIN content'[f] /\ content'[f][i] = content[f][i]
    <3> SUFFICES ASSUME NEW f \in Files, NEW i \in DOMAIN content[f]
                 PROVE  i \in DOMAIN content'[f] /\ content'[f][i] = content[f][i]
      OBVIOUS
    <3>1. CASE f # target
      BY <1>2, <3>1, HalfWritten
    <3>2. CASE f = target
      <4>1. PICK n \in Nat:
              n = Len(content[f]) /\ DOMAIN content[f] = 1..n /\ content[f] \in Seq(Halves)
        BY LenProperties DEF TypeOK
      <4>2. content'[f] = Append(content[f], written') /\ written' \in Halves
        BY <1>2, <3>2, HalfWritten DEF Write, TypeOK
      <4>3. /\ Len(content'[f]) = n + 1 /\ content'[f] \in Seq(Halves)
            /\ \A k \in 1..n: content'[f][k] = content[f][k]
        BY <4>1, <4>2, AppendProperties
      <4>4. DOMAIN content'[f] = 1..(n + 1)
        BY <4>3, LenProperties
      <4> QED  BY <4>1, <4>3, <4>4
    <3> QED  BY <3>1, <3>2
  <2> QED  BY <1>1, <1>2, <2>1, <2>2 DEF Found
<1>3. CASE Create \/ Reopen \/ Rename
  <2>1. content' = content
    BY <1>3 DEF Create, Reopen, Rename
  <2> QED  BY <1>1, <2>1 DEF Found
<1>4. CASE Truncate
  <2>1. content' = [content EXCEPT ![path] = <<>>]
    BY <1>4 DEF Truncate
  <2>2. \A f \in Files: content'[f] = content[f] \/ content'[f] = <<>>
    BY <2>1 DEF TypeOK
  <2>3. \A f \in Files: \A i \in DOMAIN content'[f]:
          i \in DOMAIN content[f] /\ content'[f][i] = content[f][i]
    BY <2>2, EmptyContent
  <2> QED  BY <1>1, <1>4, <2>3 DEF Found
<1> QED  BY <1>2, <1>3, <1>4

LEMMA FoundInside ==
  ASSUME TypeOK, TypeOK', Inside
  PROVE  \A f \in Files, p \in Nat: LinesAfter(f, p)' = LinesAfter(f, p)
  BY LinesFound, LinesFoundNext DEF Found, Inside, disk

LEMMA LossNext == LossInv /\ [Next]_vars => LossInv'
<1> SUFFICES ASSUME LossInv, [Next]_vars  PROVE LossInv'
  OBVIOUS
<1>1. TailInv /\ TailInv' /\ TypeOK /\ TypeOK' /\ Disk /\ Places
  BY InvNext DEF LossInv, TailInv
<1>2. /\ pos \in Nat /\ (handle # 0 => handle \in Files)
      /\ eof \in Nat /\ written \in Nat /\ eof <= written
      /\ pc \in {"stat", "open"} => handle = 0
      /\ pc = "check" => handle # 0 /\ \A l \in LinesAfter(handle, pos): 2 * l > eof
  BY <1>1, PositionIsNat, Numbers DEF LossInv, TypeOK, Places
<1>3. CASE Write \/ Create \/ Reopen \/ Rename \/ Truncate
  <2>1. handle' = handle /\ pos' = pos /\ pc' = pc /\ eof' = eof
    BY <1>3, OutsideSame DEF Write, Create, Reopen, Rename, Truncate
  <2>2. eof < written + 1 /\ (written' = written \/ written' = written + 1) /\ eof <= written'
    BY <1>2, <1>3 DEF Write, Create, Reopen, Rename, Truncate
  <2>3. ASSUME pc = "check"
        PROVE  \A l \in LinesAfter(handle, pos)': 2 * l > eof
    <3>1. PICK h \in Files, p \in Nat: h = handle /\ p = pos
      BY <1>2, <2>3
    <3>2. \A l \in LinesAfter(h, p)': 2 * l > eof
      <4>1. \A l \in LinesAfter(h, p): 2 * l > eof
        BY <1>2, <2>3, <3>1
      <4> QED  BY <1>1, <1>2, <1>3, <2>2, <4>1, FoundAfterOutside
    <3> QED  BY <2>1, <3>1, <3>2 DEF LinesAfter, Ends, Size
  <2> QED  BY <1>1, <1>2, <2>1, <2>2, <2>3 DEF LossInv
<1>4. CASE Begin \/ Stat \/ Open \/ Check \/ Fail
  <2>1. /\ pc' # "check" /\ eof' = eof /\ written' = written
        /\ pc' \in {"stat", "open"} => handle' = 0
    BY <1>1, <1>2, <1>4
       DEF Begin, Stat, Open, Check, Fail, Return, Close, Inside, disk, state, Places
  <2> QED  BY <1>1, <1>2, <2>1 DEF LossInv
<1>5. CASE Read
  <2>1. /\ pc \in {"read", "reread"} /\ handle \in Files /\ handle' = handle
        /\ pos' = Taken(handle, pos) /\ Inside /\ written' = written
    BY <1>1, <1>2, <1>5 DEF Read, Places, Inside, disk
  <2>2. CASE pos' # pos
    BY <1>1, <1>2, <1>5, <2>1, <2>2 DEF LossInv, Read
  <2>3. CASE pos' = pos
    <3>1. PICK h \in Files, p \in Nat: h = handle /\ p = pos
      BY <1>2, <2>1
    <3>2. Ends(h, p) = {}
      <4>1. Taken(h, p) = p
        BY <2>1, <2>3, <3>1
      <4>2. \A i \in Ends(h, p): i \in Nat /\ i <= p /\ i > p
        BY <1>1, <4>1, TakenIsLast, EndsAreIn
      <4>3. \A i \in Nat: ~(i <= p /\ i > p)
        OBVIOUS
      <4> QED  BY <4>2, <4>3
    <3>3. LinesAfter(h, p)' = {}
      BY <1>1, <2>1, <3>2, FoundInside DEF LinesAfter
    <3>4. LinesAfter(handle, pos)' = {}
      BY <2>1, <2>3, <3>1, <3>3 DEF LinesAfter, Ends, Size
    <3>5. /\ pc' \in {"idle", "check"} /\ eof' \in {eof, written}
      BY <1>5, <2>1, <2>3 DEF Read, Return
    <3> QED  BY <1>1, <1>2, <2>1, <3>4, <3>5 DEF LossInv
  <2> QED  BY <2>2, <2>3
<1>6. CASE UNCHANGED vars
  BY <1>1, <1>6 DEF LossInv, LinesAfter, Ends, Size, vars, disk, state, poll
<1> QED  BY <1>3, <1>4, <1>5, <1>6 DEF Next, Poll

LEMMA LossHolds == Spec => []LossInv
  BY LossInit, LossNext, PTL DEF Spec

\* What is kept is what was read and what will be.
KeptParts == Kept = ToRead \cup ToSet(Got)

LEMMA KeptIs == TypeOK => KeptParts
  BY ToSetConcat DEF TypeOK, Kept, Got, KeptParts

LEMMA KeptIsNext == TypeOK' => KeptParts'
  BY KeptIs, PTL

\* Of the open file, and of the file at the path, a line will be read.
LEMMA StillInFile ==
  ASSUME NEW h \in Files, NEW p \in Nat, handle' = h, pos' = p, NEW l \in LinesAfter(h, p)'
  PROVE  l \in ToRead'
  BY Numbers DEF ToRead, LinesAfter, Ends, Size

LEMMA StillAtPath ==
  ASSUME NEW h \in Files, path' = h, NEW l \in LinesAfter(h, 0)',
         IF handle' # 0 THEN Rotated' ELSE ~fromEnd' /\ pc' # "idle"
  PROVE  l \in ToRead'
  BY Numbers DEF ToRead, LinesAfter, Ends, Size

\* The two places where a line that will be read can be.
LEMMA ReadFrom ==
  ASSUME TypeOK, NEW l \in ToRead
  PROVE  \/ handle # 0 /\ l \in LinesAfter(handle, pos)
         \/ /\ path # 0 /\ l \in LinesAfter(path, 0)
            /\ handle # 0 => Rotated
            /\ handle = 0 => ~fromEnd /\ pc # "idle"
  BY DEF ToRead

LEMMA OutsideLosesNone ==
  ASSUME LossInv, LossInv', Write \/ Create \/ Reopen, NEW l \in ToRead, l \notin ToRead'
  PROVE  Regrown
<1>1. /\ TypeOK /\ TypeOK' /\ pos \in Nat /\ (handle # 0 => handle \in Files)
      /\ path \in {0} \cup Files
  BY PositionIsNat DEF LossInv, TailInv, TypeOK
<1>2. /\ handle' = handle /\ pos' = pos /\ pc' = pc /\ fromEnd' = fromEnd /\ signature' = signature
      /\ ~Truncate
  <2>1. changes \in Nat /\ changes' = changes
    BY <1>1, BoundAssumption DEF TypeOK, Write, Create, Reopen
  <2>2. ~Truncate
    BY <2>1 DEF Truncate
  <2> QED  BY <2>2, OutsideSame DEF Write, Create, Reopen
<1>3. \A f \in Files, p \in Nat: \A k \in LinesAfter(f, p): k \in LinesAfter(f, p)'
  BY <1>1, <1>2, FoundAfterOutside
<1>4. ~(handle # 0 /\ l \in LinesAfter(handle, pos))
  <2> SUFFICES ASSUME handle # 0, l \in LinesAfter(handle, pos)  PROVE FALSE
    OBVIOUS
  <2>1. PICK h \in Files, p \in Nat: h = handle /\ p = pos
    BY <1>1
  <2> QED  BY <1>2, <1>3, <2>1, StillInFile
<1>5. /\ path # 0 /\ l \in LinesAfter(path, 0)
      /\ handle # 0 => Rotated
      /\ handle = 0 => ~fromEnd /\ pc # "idle"
  BY <1>1, <1>4, ReadFrom
<1>6. PICK h \in Files: h = path /\ path' = h /\ 0 \in Nat
  BY <1>1, <1>5 DEF Write, Create, Reopen
<1>7. handle # 0 /\ ~Rotated'
  BY <1>2, <1>3, <1>5, <1>6, StillAtPath
<1>8. Write
  BY <1>2, <1>5, <1>7 DEF Create, Reopen, Rotated, Size
<1> QED  BY <1>5, <1>7, <1>8 DEF Regrown

LEMMA PollLosesNone ==
  ASSUME LossInv, LossInv', Begin \/ Stat \/ Open \/ Read \/ Check, NEW l \in Kept, l \notin Kept'
  PROVE  Check /\ 2 * l > eof
<1>1. /\ TypeOK /\ TypeOK' /\ Disk /\ Places /\ pos \in Nat /\ (handle # 0 => handle \in Files)
      /\ path \in {0} \cup Files /\ 0 \in Nat
  BY PositionIsNat DEF LossInv, TailInv, TypeOK
<1>2. KeptParts /\ KeptParts'
  BY <1>1, KeptIs, KeptIsNext
<1>3. Inside /\ path' = path /\ \A f \in Files, p \in Nat: LinesAfter(f, p)' = LinesAfter(f, p)
  BY <1>1, FoundInside DEF Begin, Stat, Open, Read, Check, Inside, disk
<1>4. ~Read => Got' = Got
  BY <1>1, ReturnKeeps DEF Begin, Stat, Open, Check, Got
<1>5. CASE Read
  <2>1. /\ pc \in {"read", "reread"} /\ handle \in Files /\ handle # 0
        /\ pos' = Taken(handle, pos) /\ handle' = handle /\ signature' = signature
    BY <1>1, <1>5 DEF Read, Places
  <2>2. PICK h \in Files, p \in Nat, q \in Nat: h = handle /\ p = pos /\ q = pos' /\ q >= p
    BY <1>1, <2>1, TakenIsLast
  <2>3. ToSet(Got) \cup LinesAfter(h, p) \subseteq ToSet(Got') \cup LinesAfter(h, q)
    <3>1. CASE q = p
      <4>1. Got' = Got
        BY <1>1, <1>5, <2>2, <3>1, ReturnKeeps DEF Read, Got
      <4> QED  BY <3>1, <4>1
    <3>2. CASE q # p
      <4>1. PICK t \in Seq(Lines): t = LinesFrom(h, p) /\ LinesAfter(h, p) \subseteq ToSet(t)
        BY <1>1, LinesInOrder
      <4>2. lines' = lines \o t /\ delivered' = delivered
        BY <1>5, <2>2, <3>2, <4>1 DEF Read
      <4>3. Got' = Got \o t /\ Got \in Seq(Lines)
        <5>1. delivered \in Seq(Lines) /\ lines \in Seq(Lines)
          BY <1>1 DEF TypeOK
        <5>2. delivered \o (lines \o t) = (delivered \o lines) \o t
          BY <5>1, ConcatAssociative
        <5> QED  BY <1>1, <4>2, <5>2, GotTyped DEF Got
      <4> QED  BY <4>1, <4>3, ToSetConcat
    <3> QED  BY <3>1, <3>2
  <2>4. l \in ToRead /\ l \notin LinesAfter(h, p) /\ l \notin ToRead'
    <3>1. \A k \in LinesAfter(h, q): k \in ToRead'
      BY <1>3, <2>1, <2>2, StillInFile
    <3> QED  BY <1>2, <2>3, <3>1 DEF KeptParts
  <2>5. path # 0 /\ l \in LinesAfter(path, 0) /\ Rotated
    BY <1>1, <2>1, <2>2, <2>4, ReadFrom
  <2>6. Rotated'
    <3>1. path \in Files /\ Size(path)' = Size(path) /\ Size(path) \in Nat
      BY <1>1, <1>3, <2>5, Content DEF Inside, disk, Size
    <3> QED  BY <1>3, <2>1, <2>2, <2>5, <3>1 DEF Rotated
  <2>7. PICK g \in Files: g = path /\ path' = g
    BY <1>1, <1>3, <2>5
  <2> QED  BY <1>1, <1>3, <2>1, <2>4, <2>5, <2>6, <2>7, StillAtPath
<1>6. CASE Begin \/ Stat \/ Open
  <2>1. l \in ToRead /\ l \notin ToRead'
    BY <1>2, <1>4, <1>6 DEF KeptParts, Begin, Stat, Open, Read
  <2>2. CASE Begin \/ Stat
    <3>1. UNCHANGED state /\ (pc = "stat" => handle = 0)
      BY <2>2 DEF Begin, Stat, LossInv
    <3>2. handle # 0 => l \notin LinesAfter(handle, pos)
      <4> SUFFICES ASSUME handle # 0, l \in LinesAfter(handle, pos)  PROVE FALSE
        OBVIOUS
      <4>1. PICK h \in Files, p \in Nat: h = handle /\ p = pos
        BY <1>1
      <4> QED  BY <1>3, <2>1, <3>1, <4>1, StillInFile DEF state
    <3>3. /\ path # 0 /\ l \in LinesAfter(path, 0)
          /\ handle # 0 => Rotated
          /\ handle = 0 => ~fromEnd /\ pc # "idle"
      BY <1>1, <2>1, <3>2, ReadFrom
    <3>4. IF handle' # 0 THEN Rotated' ELSE ~fromEnd' /\ pc' # "idle"
      BY <1>3, <2>2, <3>1, <3>3 DEF Begin, Stat, state, Rotated, Size, Inside, disk
    <3>5. PICK g \in Files: g = path /\ path' = g
      BY <1>1, <1>3, <3>3
    <3> QED  BY <1>1, <1>3, <2>1, <3>3, <3>4, <3>5, StillAtPath
  <2>3. CASE Open
    <3>1. handle = 0 /\ path # 0 /\ l \in LinesAfter(path, 0) /\ ~fromEnd
      BY <1>1, <2>1, <2>3, ReadFrom DEF Open, LossInv
    <3>2. PICK g \in Files: g = path /\ handle' = g /\ pos' = 0
      BY <1>1, <2>3, <3>1 DEF Open, Start
    <3> QED  BY <1>1, <1>3, <2>1, <3>1, <3>2, StillInFile
  <2> QED  BY <1>6, <2>2, <2>3
<1>7. CASE Check
  <2>1. l \in ToRead /\ l \notin ToRead' /\ pc = "check" /\ handle # 0 /\ handle \in Files
    BY <1>1, <1>2, <1>4, <1>7 DEF KeptParts, Check, Read, Places
  <2>2. CASE l \in LinesAfter(handle, pos)
    BY <1>7, <2>1, <2>2 DEF LossInv
  <2>3. CASE l \notin LinesAfter(handle, pos)
    <3>1. path # 0 /\ l \in LinesAfter(path, 0) /\ Rotated
      BY <1>1, <2>1, <2>3, ReadFrom
    <3>2. handle' = 0 /\ ~fromEnd' /\ pc' = "stat"
      BY <1>7, <3>1 DEF Check, Close
    <3>3. PICK g \in Files: g = path /\ path' = g
      BY <1>1, <1>3, <3>1
    <3> QED  BY <1>1, <1>3, <2>1, <3>1, <3>2, <3>3, StillAtPath
  <2> QED  BY <2>2, <2>3
<1> QED  BY <1>5, <1>6, <1>7

\* A line that a poll would find is lost in five windows only, whatever else happens:
\* every other step of the watcher, the writer and the rotator keeps what was read and
\* what will be.
THEOREM NoLineIsLostOtherwise == Spec => LostOnlyInWindows
<1>1. LossInv /\ LossInv' /\ [Next]_vars =>
        [\A l \in Kept \ Kept':
          \/ Truncate \/ Rename \/ Fail \/ Regrown
          \/ Check /\ 2 * l > eof]_vars
  <2> SUFFICES ASSUME LossInv, LossInv', Next, NEW l \in Kept \ Kept',
                      ~Truncate, ~Rename, ~Fail
               PROVE  Regrown \/ (Check /\ 2 * l > eof)
    OBVIOUS
  <2>1. CASE Write \/ Create \/ Reopen
    <3>1. l \in ToRead /\ l \notin ToRead'
      <4>1. Got' = Got /\ KeptParts /\ KeptParts'
        BY <2>1, OutsideSame, KeptIs, KeptIsNext DEF Write, Create, Reopen, LossInv, TailInv
      <4> QED  BY <4>1 DEF KeptParts
    <3> QED  BY <2>1, <3>1, OutsideLosesNone
  <2>2. CASE Begin \/ Stat \/ Open \/ Read \/ Check
    BY <2>2, PollLosesNone
  <2> QED  BY <2>1, <2>2 DEF Next, Poll
<1> QED  BY <1>1, LossHolds, PTL DEF Spec, LostOnlyInWindows
=============================================================================
