--------------------------- MODULE CatalogProofs ----------------------------
(***************************************************************************)
(* Theorems about the catalog: what its parser makes of a file and what an *)
(* accepted one guarantees, for every file and every number of edits; the  *)
(* results of a run that are archived beside it, for every order in which  *)
(* the run, the commands validate and validate-result, an operator's edits *)
(* and the clock take their turns; and the verdicts on the twelve tasks it *)
(* names, for every sandbox and every lost request, whatever levels it     *)
(* gives them.                                                             *)
(*                                                                         *)
(* The parser is followed line by line: Understood says that the tasks read*)
(* so far are the blocks begun so far, each with what its lines have said  *)
(* last.                                                                   *)
(***************************************************************************)
EXTENDS CatalogEdits, Archive, Probes, SequenceTheorems, FiniteSetTheorems,
        WellFoundedInduction, TLAPS

-----------------------------------------------------------------------------
(* The parser and the blocks of a file. *)

AllLines == {OriginalFile[i] : i \in DOMAIN OriginalFile} \cup {NewLines[i] : i \in DOMAIN NewLines}
Words == {file[i].value : i \in DOMAIN file} \cup {"", 0}
Scanned == [id: Words, family: Words, version: Words, digest: Words, title: Words, level: Words,
            dangerous: BOOLEAN]
ScanStates == [declared: Words, tasks: Seq(Scanned)]
NothingRead == [declared |-> "", tasks |-> <<>>]

(* Induction on the lines read, for a set of line numbers. *)
LEMMA LineByLine ==
  ASSUME NEW n \in Nat, NEW T, 0 \in T, \A i \in 0..(n - 1) : i \in T => i + 1 \in T
  PROVE  0..n \subseteq T
<1> DEFINE Missing == (0..n) \ T
<1> SUFFICES ASSUME Missing # {} PROVE FALSE
  OBVIOUS
<1>1. PICK m \in Missing : \A k \in Missing : ~(<<k, m>> \in OpToRel(<, Nat))
  <2>1. Missing \subseteq Nat
    OBVIOUS
  <2> HIDE DEF Missing
  <2> QED
    BY <2>1, WFMin, NatLessThanWellFounded
<1>2. m # 0 /\ m - 1 \in 0..(n - 1) /\ m - 1 \notin Missing
  <2>1. m # 0 /\ m - 1 \in 0..(n - 1) /\ m \in Nat
    OBVIOUS
  <2>2. <<m - 1, m>> \in OpToRel(<, Nat)
    BY <2>1 DEF OpToRel
  <2> QED
    BY <1>1, <2>1, <2>2
<1> QED
  BY <1>2

LEMMA FilesAreLines == EditSpec => [](file \in Seq(AllLines))
<1>1. EditInit => file \in Seq(AllLines)
  BY LinesAssumption DEF EditInit, IsFile, AllLines
<1>2. file \in Seq(AllLines) /\ [EditNext]_editVars => (file \in Seq(AllLines))'
  <2> SUFFICES ASSUME file \in Seq(AllLines), [EditNext]_editVars
               PROVE  file' \in Seq(AllLines)
    BY DEF AllLines
  <2>1. /\ Len(file) \in Nat /\ DOMAIN file = 1..Len(file)
        /\ \A i \in 1..Len(file) : file[i] \in AllLines
    BY LenProperties, ElementOfSeq
  <2>2. \A i \in 0..Len(file), j \in 1..(Len(file) + 1) :
           SubSeq(file, 1, i) \in Seq(AllLines) /\ SubSeq(file, j, Len(file)) \in Seq(AllLines)
    BY <2>1
  <2>3. CASE Insert
    <3>1. PICK i \in 1..(Len(file) + 1), n \in DOMAIN NewLines :
            file' = SubSeq(file, 1, i - 1) \o <<NewLines[n]>> \o SubSeq(file, i, Len(file))
      BY <2>3 DEF Insert, InsertAt
    <3>2. <<NewLines[n]>> \in Seq(AllLines)
      BY DEF AllLines
    <3>3. i - 1 \in 0..Len(file)
      BY <2>1
    <3> QED
      BY <2>2, <3>1, <3>2, <3>3, ConcatProperties
  <2>4. CASE Delete
    <3>1. PICK i \in 1..Len(file) : file' = SubSeq(file, 1, i - 1) \o SubSeq(file, i + 1, Len(file))
      BY <2>1, <2>4 DEF Delete, RemoveAt
    <3>2. i - 1 \in 0..Len(file) /\ i + 1 \in 1..(Len(file) + 1)
      BY <2>1
    <3> QED
      BY <2>2, <3>1, <3>2, ConcatProperties
  <2>5. CASE UNCHANGED editVars
    BY <2>5 DEF editVars
  <2> QED
    BY <2>3, <2>4, <2>5 DEF EditNext
<1> QED
  BY <1>1, <1>2, PTL DEF EditSpec

LEMMA ScanType ==
  ASSUME NEW s \in ScanStates, NEW i \in DOMAIN file
  PROVE  Scan(s, file[i]) \in ScanStates
<1>1. file[i].value \in Words /\ {"", 0} \subseteq Words
  BY DEF Words
<1>2. \A key : \A t \in Scanned : SetField(t, key, file[i].value) \in Scanned
  BY <1>1 DEF SetField, Scanned
<1>3. \A value \in Words : Untitled(value) \in Scanned
  BY <1>1 DEF Untitled, Scanned
<1>4. CASE file[i].kind = "suite"
  BY <1>1, <1>4 DEF Scan, ScanStates
<1>5. CASE file[i].kind = "id"
  <2>1. Append(s.tasks, Untitled(file[i].value)) \in Seq(Scanned)
    <3>1. s.tasks \in Seq(Scanned) /\ Untitled(file[i].value) \in Scanned
      BY <1>1, <1>3 DEF ScanStates
    <3> QED
      BY <3>1, AppendProperties
  <2> QED
    BY <1>5, <2>1 DEF Scan, ScanStates
<1>6. CASE file[i].kind = "field" /\ Len(s.tasks) > 0
  <2>1. PICK n \in 1..Len(s.tasks) : n = Len(s.tasks)
    BY <1>6 DEF ScanStates
  <2>2. s.tasks \in Seq(Scanned) /\ s.tasks[n] \in Scanned
    BY <2>1 DEF ScanStates
  <2>3. [s.tasks EXCEPT ![n] = SetField(s.tasks[n], file[i].key, file[i].value)] \in Seq(Scanned)
    BY <1>2, <2>2, ExceptSeq
  <2>4. Scan(s, file[i]) =
          [s EXCEPT !.tasks =
             [s.tasks EXCEPT ![n] = SetField(s.tasks[n], file[i].key, file[i].value)]]
    BY <1>6, <2>1 DEF Scan, ScanStates
  <2> QED
    BY <2>3, <2>4 DEF ScanStates
<1>7. CASE ~(\/ file[i].kind \in {"suite", "id"}
             \/ file[i].kind = "field" /\ Len(s.tasks) > 0)
  BY <1>7 DEF Scan
<1> QED
  BY <1>4, <1>5, <1>6, <1>7

LEMMA NothingScanned == NothingRead \in ScanStates
BY DEF NothingRead, ScanStates, Words

(* Parsed reads the lines one by one. *)
Reads(scanned, n) ==
  /\ scanned \in [0..n -> ScanStates]
  /\ scanned[0] = NothingRead
  /\ \A i \in 1..n : scanned[i] = Scan(scanned[i - 1], file[i])

LEMMA ParsedReads ==
  ASSUME file \in Seq(AllLines)
  PROVE  \E scanned : Reads(scanned, Len(file)) /\ Parsed(file) = scanned[Len(file)]
<1> DEFINE n == Len(file)
           T == {m \in 0..n : \E scanned : Reads(scanned, m)}
<1>1. n \in Nat /\ DOMAIN file = 1..n
  BY LenProperties
<1>2. 0 \in T
  <2>1. Reads([i \in 0..0 |-> NothingRead], 0)
    BY NothingScanned DEF Reads
  <2> QED
    BY <1>1, <2>1
<1>3. \A m \in 0..(n - 1) : m \in T => m + 1 \in T
  <2> SUFFICES ASSUME NEW m \in 0..(n - 1), NEW scanned, Reads(scanned, m)
               PROVE  m + 1 \in T
    OBVIOUS
  <2>1. m + 1 \in DOMAIN file /\ m \in Nat
    BY <1>1
  <2>2. Scan(scanned[m], file[m + 1]) \in ScanStates
    BY <2>1, ScanType DEF Reads
  <2> DEFINE next == [i \in 0..(m + 1) |->
                        IF i <= m THEN scanned[i] ELSE Scan(scanned[m], file[m + 1])]
  <2>3. Reads(next, m + 1)
    <3>1. next \in [0..(m + 1) -> ScanStates] /\ next[0] = NothingRead
      BY <2>1, <2>2 DEF Reads
    <3>2. ASSUME NEW i \in 1..(m + 1)
          PROVE  next[i] = Scan(next[i - 1], file[i])
      <4>1. CASE i <= m
        BY <2>1, <4>1 DEF Reads
      <4>2. CASE i = m + 1
        BY <2>1, <4>2
      <4> QED
        BY <2>1, <4>1, <4>2
    <3> QED
      BY <3>1, <3>2 DEF Reads
  <2> QED
    BY <1>1, <2>3
<1>4. n \in T
  <2> HIDE DEF T, n
  <2> QED
    BY <1>1, <1>2, <1>3, LineByLine
<1>5. PICK scanned : Reads(scanned, n)
  BY <1>4
<1> DEFINE Equation(f) ==
             f = [m \in 0..n |-> IF m = 0 THEN NothingRead ELSE Scan(f[m - 1], file[m])]
<1>6. Equation(scanned)
  BY <1>1, <1>5 DEF Reads
<1>7. PICK parsed : parsed = (CHOOSE f : Equation(f))
  OBVIOUS
<1>8. Equation(parsed)
  BY <1>6, <1>7
<1>9. Parsed(file) = parsed[n]
  BY <1>7 DEF Parsed, NothingRead
<1>10. /\ DOMAIN parsed = 0..n /\ parsed = [m \in 0..n |-> parsed[m]] /\ parsed[0] = NothingRead
       /\ \A i \in 1..n : parsed[i] = Scan(parsed[i - 1], file[i])
  BY <1>1, <1>8
<1>11. \A m \in 0..n : parsed[m] \in ScanStates
  <2> DEFINE Typed == {m \in 0..n : parsed[m] \in ScanStates}
  <2>1. 0 \in Typed
    BY <1>1, <1>10, NothingScanned
  <2>2. \A m \in 0..(n - 1) : m \in Typed => m + 1 \in Typed
    <3> SUFFICES ASSUME NEW m \in 0..(n - 1), parsed[m] \in ScanStates
                 PROVE  m + 1 \in Typed
      OBVIOUS
    <3>1. m + 1 \in DOMAIN file /\ m + 1 \in 1..n /\ (m + 1) - 1 = m
      BY <1>1
    <3>2. parsed[m + 1] = Scan(parsed[m], file[m + 1])
      BY <1>10, <3>1
    <3> QED
      BY <3>1, <3>2, ScanType
  <2>3. 0..n \subseteq Typed
    <3> HIDE DEF Typed, n
    <3> QED
      BY <1>1, <2>1, <2>2, LineByLine
  <2> QED
    BY <2>3
<1> QED
  BY <1>9, <1>10, <1>11 DEF Reads

(* What the lines up to n have said of the task at line h. *)
Told(h, n, keys) ==
  {i \in Block(h) : i <= n /\ file[i].kind = "field" /\ file[i].key \in keys}
SaysLast(h, n, keys, default, word) ==
  \/ Told(h, n, keys) = {} /\ word = default
  \/ \E i \in Told(h, n, keys) :
       (\A j \in Told(h, n, keys) : j <= i) /\ word = file[i].value

Means(t, h, n) ==
  /\ t.id = file[h].value
  /\ SaysLast(h, n, {"level"}, "", t.level) /\ SaysLast(h, n, {"family"}, "", t.family)
  /\ \E word : /\ SaysLast(h, n, {"dangerous"}, "false", word)
               /\ t.dangerous = (word = "true")

(* The tasks read so far are the blocks begun so far, in the same order. *)
Understood(tasks, n) ==
  \E at \in [DOMAIN tasks -> Heads] :
    /\ \A k \in DOMAIN tasks : at[k] <= n /\ Means(tasks[k], at[k], n)
    /\ \A j, k \in DOMAIN tasks : j < k => at[j] < at[k]
    /\ \A h \in Heads : h <= n => \E k \in DOMAIN tasks : at[k] = h

LEMMA ToldNext ==
  ASSUME file \in Seq(AllLines), NEW n \in Nat, n + 1 \in DOMAIN file, NEW h \in Heads, NEW keys
  PROVE  Told(h, n + 1, keys) =
           IF n + 1 \in Block(h) /\ file[n + 1].kind = "field" /\ file[n + 1].key \in keys
           THEN Told(h, n, keys) \cup {n + 1} ELSE Told(h, n, keys)
<1>1. DOMAIN file = 1..Len(file) /\ Len(file) \in Nat
  BY LenProperties
<1>2. \A i \in DOMAIN file : i <= n + 1 <=> i <= n \/ i = n + 1
  BY <1>1
<1>3. Block(h) \subseteq DOMAIN file
  BY DEF Block
<1> QED
  BY <1>2, <1>3 DEF Told

LEMMA SaysNext ==
  ASSUME file \in Seq(AllLines), NEW n \in Nat, n + 1 \in DOMAIN file, NEW h \in Heads,
         NEW keys, NEW default, NEW word
  PROVE  /\ /\ n + 1 \in Block(h) /\ file[n + 1].kind = "field" /\ file[n + 1].key \in keys
            /\ word = file[n + 1].value
            => SaysLast(h, n + 1, keys, default, word)
         /\ /\ ~(n + 1 \in Block(h) /\ file[n + 1].kind = "field" /\ file[n + 1].key \in keys)
            /\ SaysLast(h, n, keys, default, word)
            => SaysLast(h, n + 1, keys, default, word)
<1>1. \A j \in Told(h, n + 1, keys) : j <= n + 1
  BY DEF Told
<1> QED
  BY <1>1, ToldNext DEF SaysLast

LEMMA MeansSame ==
  ASSUME file \in Seq(AllLines), NEW n \in Nat, n + 1 \in DOMAIN file, NEW h \in Heads, NEW t,
         Means(t, h, n), n + 1 \notin Block(h) \/ file[n + 1].kind # "field"
  PROVE  Means(t, h, n + 1)
BY SaysNext DEF Means

LEMMA MeansField ==
  ASSUME file \in Seq(AllLines), NEW n \in Nat, n + 1 \in DOMAIN file, NEW h \in Heads,
         NEW t \in Scanned, Means(t, h, n), n + 1 \in Block(h), file[n + 1].kind = "field"
  PROVE  Means(SetField(t, file[n + 1].key, file[n + 1].value), h, n + 1)
<1>1. PICK key, value : key = file[n + 1].key /\ value = file[n + 1].value
  OBVIOUS
<1>2. PICK set : set = SetField(t, key, value)
  OBVIOUS
<1>3. set.id = t.id
  BY <1>2 DEF SetField, Scanned
<1>4. /\ set.level = IF key = "level" THEN value ELSE t.level
      /\ set.family = IF key = "family" THEN value ELSE t.family
      /\ set.dangerous = IF key = "dangerous" THEN value = "true" ELSE t.dangerous
  BY <1>2 DEF SetField, Scanned
<1>5. SaysLast(h, n + 1, {"level"}, "", set.level)
  BY <1>1, <1>4, SaysNext DEF Means
<1>6. SaysLast(h, n + 1, {"family"}, "", set.family)
  BY <1>1, <1>4, SaysNext DEF Means
<1>7. PICK word : SaysLast(h, n, {"dangerous"}, "false", word) /\ t.dangerous = (word = "true")
  BY DEF Means
<1>8. PICK new : new = IF key = "dangerous" THEN value ELSE word
  OBVIOUS
<1>9. SaysLast(h, n + 1, {"dangerous"}, "false", new) /\ set.dangerous = (new = "true")
  BY <1>1, <1>4, <1>7, <1>8, SaysNext
<1> QED
  BY <1>1, <1>2, <1>3, <1>5, <1>6, <1>9 DEF Means

LEMMA UnderstoodBy ==
  ASSUME NEW tasks, NEW n, NEW N, DOMAIN tasks = 1..N, NEW at \in [1..N -> Heads],
         \A k \in 1..N : at[k] <= n /\ Means(tasks[k], at[k], n),
         \A j, k \in 1..N : j < k => at[j] < at[k],
         \A h \in Heads : h <= n => \E k \in 1..N : at[k] = h
  PROVE  Understood(tasks, n)
BY Zenon DEF Understood

LEMMA UnderstoodNext ==
  ASSUME file \in Seq(AllLines), NEW n \in Nat, n + 1 \in DOMAIN file, NEW s \in ScanStates,
         Understood(s.tasks, n)
  PROVE  Understood(Scan(s, file[n + 1]).tasks, n + 1)
<1> DEFINE line == file[n + 1]
           N == Len(s.tasks)
<1>1. /\ s.tasks \in Seq(Scanned) /\ N \in Nat /\ DOMAIN s.tasks = 1..N
      /\ \A k \in 1..N : s.tasks[k] \in Scanned
      /\ DOMAIN file = 1..Len(file) /\ Len(file) \in Nat /\ Heads \subseteq 1..Len(file)
  BY LenProperties, ElementOfSeq DEF ScanStates, Heads
<1>2. PICK at \in [1..N -> Heads] :
        /\ \A k \in 1..N : at[k] <= n /\ Means(s.tasks[k], at[k], n)
        /\ \A j, k \in 1..N : j < k => at[j] < at[k]
        /\ \A h \in Heads : h <= n => \E k \in 1..N : at[k] = h
  BY <1>1 DEF Understood
<1>3. \A k \in 1..N : at[k] \in Heads /\ at[k] \in Nat /\ at[k] <= n + 1
  <2>1. \A k \in 1..N : at[k] \in Heads /\ at[k] <= n
    BY <1>2
  <2>2. \A h \in Heads : h \in Nat /\ (h <= n => h <= n + 1)
    BY <1>1
  <2> QED
    BY <2>1, <2>2
<1>4. n + 1 \in Heads <=> line.kind = "id"
  BY DEF Heads
<1>5. \A h \in Heads : h <= n + 1 => h <= n \/ h = n + 1
  BY <1>1
<1>6. CASE line.kind = "id"
  <2> DEFINE tasks == Append(s.tasks, Untitled(line.value))
             next == [k \in 1..(N + 1) |-> IF k <= N THEN at[k] ELSE n + 1]
  <2>1. Scan(s, line).tasks = tasks
    BY <1>6 DEF Scan, ScanStates
  <2>2. /\ DOMAIN tasks = 1..(N + 1) /\ tasks[N + 1] = Untitled(line.value)
        /\ \A k \in 1..N : tasks[k] = s.tasks[k]
    BY <1>1
  <2>3. next \in [1..(N + 1) -> Heads]
    BY <1>3, <1>4, <1>6
  <2>4. Means(Untitled(line.value), n + 1, n + 1)
    <3>1. \A keys : Told(n + 1, n + 1, keys) = {}
      BY <1>1 DEF Told, Block
    <3>2. \A keys, default : SaysLast(n + 1, n + 1, keys, default, default)
      BY <3>1 DEF SaysLast
    <3> QED
      <4>1. /\ Untitled(line.value).id = line.value /\ Untitled(line.value).level = ""
            /\ Untitled(line.value).family = "" /\ Untitled(line.value).dangerous = FALSE
        BY DEF Untitled
      <4>2. Untitled(line.value).dangerous = ("false" = "true")
        BY <4>1
      <4> QED
        BY <3>2, <4>1, <4>2 DEF Means
  <2>5. \A k \in 1..N : Means(s.tasks[k], at[k], n + 1)
    BY <1>2, <1>3, <1>6, MeansSame
  <2>6. \A k \in 1..(N + 1) : next[k] <= n + 1 /\ Means(tasks[k], next[k], n + 1)
    <3>1. ASSUME NEW k \in 1..(N + 1), k <= N
          PROVE  next[k] <= n + 1 /\ Means(tasks[k], next[k], n + 1)
      <4>1. k \in 1..N /\ next[k] = at[k]
        BY <1>1, <3>1
      <4> QED
        BY <1>3, <2>2, <2>5, <4>1
    <3>2. next[N + 1] = n + 1
      BY <1>1
    <3>3. \A k \in 1..(N + 1) : k <= N \/ k = N + 1
      BY <1>1
    <3> HIDE DEF next, tasks
    <3> QED
      BY <2>2, <2>4, <3>1, <3>2, <3>3
  <2>7. \A j, k \in 1..(N + 1) : j < k => next[j] < next[k]
    BY <1>1, <1>2, <1>3
  <2>8. \A h \in Heads : h <= n + 1 => \E k \in 1..(N + 1) : next[k] = h
    <3> SUFFICES ASSUME NEW h \in Heads, h <= n + 1
                 PROVE  \E k \in 1..(N + 1) : next[k] = h
      OBVIOUS
    <3>1. CASE h <= n
      <4>1. PICK k \in 1..N : at[k] = h
        BY <1>2, <3>1
      <4>2. k \in 1..(N + 1) /\ k <= N
        BY <1>1, <4>1
      <4> QED
        BY <4>1, <4>2
    <3>2. CASE h = n + 1
      <4>1. N + 1 \in 1..(N + 1) /\ ~(N + 1 <= N)
        BY <1>1
      <4> QED
        BY <3>2, <4>1
    <3> QED
      BY <1>5, <3>1, <3>2
  <2> HIDE DEF tasks, next
  <2>9. Understood(tasks, n + 1)
    BY <2>2, <2>3, <2>6, <2>7, <2>8, UnderstoodBy
  <2> QED
    BY <2>1, <2>9
<1>7. CASE line.kind = "field" /\ N > 0
  <2> DEFINE set == SetField(s.tasks[N], line.key, line.value)
             tasks == [s.tasks EXCEPT ![N] = set]
  <2>1. Scan(s, line).tasks = tasks
    BY <1>1, <1>7 DEF Scan, ScanStates
  <2>2. /\ DOMAIN tasks = 1..N /\ tasks[N] = set /\ N \in 1..N
        /\ \A k \in 1..N : k # N => tasks[k] = s.tasks[k]
    BY <1>1, <1>7
  <2>3. n + 1 \in Block(at[N])
    <3> SUFFICES ASSUME NEW g \in Heads, g > at[N], g <= n + 1
                 PROVE  FALSE
      BY <1>1, <1>2, <1>3, <2>2 DEF Block
    <3>1. g <= n
      BY <1>4, <1>5, <1>7
    <3>2. PICK k \in 1..N : at[k] = g
      BY <1>2, <3>1
    <3>3. CASE k = N
      BY <1>3, <3>2, <3>3
    <3>4. CASE k < N
      <4>1. at[k] < at[N]
        BY <1>2, <2>2, <3>4
      <4> QED
        BY <1>3, <2>2, <3>2, <4>1
    <3> QED
      BY <1>1, <3>3, <3>4
  <2>4. Means(set, at[N], n + 1)
    BY <1>1, <1>2, <1>7, <2>2, <2>3, MeansField
  <2>5. ASSUME NEW k \in 1..N, k # N
        PROVE  Means(s.tasks[k], at[k], n + 1)
    <3>1. at[N] > at[k] /\ at[N] \in Heads /\ ~(at[N] > n + 1)
      <4>1. k < N
        BY <1>1, <2>5
      <4>2. at[k] < at[N] /\ at[N] <= n
        BY <1>2, <1>3, <2>2, <4>1
      <4>3. at[k] \in Nat /\ at[N] \in Nat /\ at[N] \in Heads
        BY <1>3, <2>2
      <4> QED
        BY <4>2, <4>3
    <3>2. n + 1 \notin Block(at[k])
      BY <3>1 DEF Block
    <3> QED
      BY <1>2, <1>3, <3>2, MeansSame
  <2>6. \A k \in 1..N : at[k] <= n + 1 /\ Means(tasks[k], at[k], n + 1)
    BY <1>3, <2>2, <2>4, <2>5
  <2>7. \A h \in Heads : h <= n + 1 => \E k \in 1..N : at[k] = h
    BY <1>2, <1>4, <1>5, <1>7
  <2> HIDE DEF tasks
  <2>8. Understood(tasks, n + 1)
    BY <1>2, <2>2, <2>6, <2>7, UnderstoodBy
  <2> QED
    BY <2>1, <2>8
<1>8. CASE line.kind # "id" /\ ~(line.kind = "field" /\ N > 0)
  <2>1. Scan(s, line).tasks = s.tasks
    BY <1>8 DEF Scan, ScanStates
  <2>2. \A k \in 1..N : Means(s.tasks[k], at[k], n + 1)
    BY <1>1, <1>2, <1>3, <1>8, MeansSame
  <2>3. \A h \in Heads : h <= n + 1 => \E k \in 1..N : at[k] = h
    BY <1>2, <1>4, <1>5, <1>8
  <2>4. \A k \in 1..N : at[k] <= n + 1 /\ Means(s.tasks[k], at[k], n + 1)
    BY <1>3, <2>2
  <2>5. Understood(s.tasks, n + 1)
    <3>1. PICK tasks : tasks = s.tasks
      OBVIOUS
    <3>2. DOMAIN tasks = 1..N /\ \A k \in 1..N : at[k] <= n + 1 /\ Means(tasks[k], at[k], n + 1)
      BY <1>1, <2>4, <3>1
    <3>3. Understood(tasks, n + 1)
      BY <1>2, <2>3, <3>2, UnderstoodBy
    <3> QED
      BY <3>1, <3>3
  <2> QED
    BY <2>1, <2>5
<1> QED
  BY <1>6, <1>7, <1>8

LEMMA ParsedUnderstood ==
  ASSUME file \in Seq(AllLines)
  PROVE  /\ Parsed(file) \in ScanStates
         /\ Understood(Parsed(file).tasks, Len(file))
<1>1. PICK scanned : Reads(scanned, Len(file)) /\ Parsed(file) = scanned[Len(file)]
  BY ParsedReads
<1> DEFINE n == Len(file)
           T == {m \in 0..n : Understood(scanned[m].tasks, m)}
<1>2. n \in Nat /\ DOMAIN file = 1..n /\ Heads \subseteq 1..n
  BY LenProperties DEF Heads
<1>3. 0 \in T
  <2>1. PICK tasks : tasks = scanned[0].tasks
    OBVIOUS
  <2>2. tasks = <<>>
    <3>1. NothingRead.tasks = <<>>
      BY DEF NothingRead
    <3> QED
      BY <1>1, <2>1, <3>1 DEF Reads
  <2>3. PICK at : at \in [1..0 -> Heads]
    <3>1. [k \in 1..0 |-> k] \in [1..0 -> Heads]
      OBVIOUS
    <3> QED
      BY <3>1
  <2>4. DOMAIN tasks = 1..0 /\ (1..0) = {} /\ \A h \in Heads : ~(h <= 0)
    BY <1>2, <2>2
  <2>5. Understood(tasks, 0)
    BY <2>3, <2>4, UnderstoodBy
  <2> QED
    BY <1>2, <2>1, <2>5
<1>4. \A m \in 0..(n - 1) : m \in T => m + 1 \in T
  <2> SUFFICES ASSUME NEW m \in 0..(n - 1), m \in T
               PROVE  m + 1 \in T
    OBVIOUS
  <2>1. m \in Nat /\ m + 1 \in DOMAIN file /\ m + 1 \in 1..n /\ m \in 0..n /\ (m + 1) - 1 = m
    BY <1>2
  <2>2. scanned[m] \in ScanStates /\ scanned[m + 1] = Scan(scanned[m], file[m + 1])
    BY <1>1, <2>1 DEF Reads
  <2>3. Understood(Scan(scanned[m], file[m + 1]).tasks, m + 1)
    BY <2>1, <2>2, UnderstoodNext
  <2> QED
    BY <1>2, <2>1, <2>2, <2>3
<1>5. n \in T
  <2> HIDE DEF T, n
  <2> QED
    BY <1>2, <1>3, <1>4, LineByLine
<1> QED
  BY <1>1, <1>2, <1>5 DEF Reads

LEMMA HeadsWithin ==
  ASSUME file \in Seq(AllLines)
  PROVE  \A h \in Heads : h <= Len(file)
BY LenProperties DEF Heads

LEMMA LastWordSaid ==
  ASSUME file \in Seq(AllLines), NEW h \in Heads, NEW keys, NEW default, NEW word,
         SaysLast(h, Len(file), keys, default, word)
  PROVE  LastWord(h, keys, default) = word
<1> DEFINE said == {i \in Block(h) : file[i].kind = "field" /\ file[i].key \in keys}
<1>1. said = Told(h, Len(file), keys) /\ said \subseteq Nat
  BY LenProperties DEF Told, Block
<1>2. LastWord(h, keys, default) = IF said = {} THEN default ELSE file[Max(said)].value
  BY DEF LastWord
<1>3. CASE said = {}
  BY <1>1, <1>2, <1>3 DEF SaysLast
<1>4. CASE said # {}
  <2>1. PICK i \in said : (\A j \in said : j <= i) /\ word = file[i].value
    BY <1>1, <1>4 DEF SaysLast
  <2> HIDE DEF said
  <2>2. Max(said) = i
    <3>1. \A j \in said : i >= j
      BY <1>1, <2>1
    <3>2. \A x \in said : (\A y \in said : x >= y) => x = i
      BY <1>1, <2>1
    <3> QED
      BY <3>1, <3>2 DEF Max
  <2> QED
    BY <1>2, <1>4, <2>1, <2>2
<1> QED
  BY <1>3, <1>4

(* catalog.Validate: however a catalog is edited, once it is accepted no   *)
(* block of a dangerous level or family can say last that it is not        *)
(* dangerous: a task that the runner takes for harmless is harmless to the *)
(* reader of the file.                                                     *)
THEOREM AcceptedDangerMarked == EditSpec => []AcceptedDangerIsMarked
<1>1. file \in Seq(AllLines) => AcceptedDangerIsMarked
  <2> SUFFICES ASSUME file \in Seq(AllLines), Accepted("smoke-v0"), NEW h \in Heads,
                      \/ LastWord(h, {"level"}, "") \in {"L4", "L5"}
                      \/ LastWord(h, {"family"}, "") = "G"
               PROVE  LastWord(h, {"dangerous"}, "false") = "true"
    BY DEF AcceptedDangerIsMarked
  <2> DEFINE tasks == Parsed(file).tasks
  <2>1. Understood(tasks, Len(file))
    BY ParsedUnderstood
  <2>2. \A g \in Heads : g <= Len(file)
    BY HeadsWithin
  <2>3. PICK k \in DOMAIN tasks : Means(tasks[k], h, Len(file))
    BY <2>1, <2>2 DEF Understood
  <2>4. DangerMarked(tasks[k])
    BY <2>3 DEF Accepted, Validates, ValidEntry
  <2>5. /\ LastWord(h, {"level"}, "") = tasks[k].level
        /\ LastWord(h, {"family"}, "") = tasks[k].family
    BY <2>3, LastWordSaid DEF Means
  <2>6. PICK word : /\ SaysLast(h, Len(file), {"dangerous"}, "false", word)
                    /\ tasks[k].dangerous = (word = "true")
    BY <2>3 DEF Means
  <2>7. LastWord(h, {"dangerous"}, "false") = word
    BY <2>6, LastWordSaid
  <2> HIDE DEF tasks
  <2> QED
    BY <2>4, <2>5, <2>6, <2>7 DEF DangerMarked
<1> QED
  BY <1>1, FilesAreLines, PTL

(* catalog.Validate: the ids of an accepted catalog make run ids that      *)
(* sink.RegisterRun takes and name directories below tasks/, each its own. *)
THEOREM AcceptedIDsAreUsable == EditSpec => []AcceptedIDsUsable
<1>1. file \in Seq(AllLines) => AcceptedIDsUsable
  <2> SUFFICES ASSUME file \in Seq(AllLines), Accepted("smoke-v0"), NEW h \in Heads,
                      NEW id, id = file[h].value
               PROVE  /\ ValidRunID(Lower(id)) /\ "/" \notin ToSet(id) /\ id[1] # "."
                      /\ \A g \in Heads : file[g].value = id => g = h
    BY DEF AcceptedIDsUsable
  <2> DEFINE tasks == Parsed(file).tasks
  <2>1. Understood(tasks, Len(file))
    BY ParsedUnderstood
  <2>2. PICK at \in [DOMAIN tasks -> Heads] :
          /\ \A k \in DOMAIN tasks : Means(tasks[k], at[k], Len(file))
          /\ \A g \in Heads : g <= Len(file) => \E k \in DOMAIN tasks : at[k] = g
    BY <2>1 DEF Understood
  <2>3. \A g \in Heads : g <= Len(file)
    BY HeadsWithin
  <2>4. \A k \in DOMAIN tasks : tasks[k].id = file[at[k]].value
    BY <2>2 DEF Means
  <2>5. /\ \A j, k \in DOMAIN tasks : tasks[j].id = tasks[k].id => j = k
        /\ \A k \in DOMAIN tasks : ValidID(tasks[k].id)
    BY DEF Accepted, Validates, ValidEntry
  <2> HIDE DEF tasks
  <2>6. PICK k \in DOMAIN tasks : at[k] = h
    BY <2>2, <2>3
  <2>7. ValidID(id)
    BY <2>4, <2>5, <2>6
  <2>8. \A g \in Heads : file[g].value = id => g = h
    BY <2>2, <2>3, <2>4, <2>5, <2>6
  <2>9. id \in Seq(STRING)
    BY LinesAssumption, LenProperties, ElementOfSeq DEF AllLines, IsFile, Heads
  <2>10. /\ Len(id) \in Nat \ {0} /\ DOMAIN id = 1..Len(id)
    BY <2>7, <2>9, EmptySeq, LenProperties DEF ValidID
  <2>11. \A i \in DOMAIN id : id[i] \in Letters \cup Marks /\ (i = 1 => id[i] \in Letters)
    BY <2>7, <2>10 DEF ValidID
  <2>12. ValidRunID(Lower(id))
    <3>1. Lower(id) # <<>>
      <4>1. 1 \in DOMAIN Lower(id)
        BY <2>10 DEF Lower
      <4> QED
        BY <4>1
    <3>2. \A i \in DOMAIN Lower(id) : Lower(id)[i] \in Letters \cup Marks
      BY <2>11 DEF Lower, Letters
    <3> QED
      BY <3>1, <3>2 DEF ValidRunID
  <2>13. "/" \notin ToSet(id) /\ id[1] # "."
    <3>1. \A i \in DOMAIN id : id[i] # "/"
      BY <2>11 DEF Letters, Marks
    <3>2. id[1] \in Letters
      BY <2>10, <2>11
    <3> QED
      BY <3>1, <3>2 DEF ToSet, Letters
  <2> QED
    BY <2>8, <2>12, <2>13
<1> QED
  BY <1>1, FilesAreLines, PTL

-----------------------------------------------------------------------------
(* What a run, the commands and the world keep true of one another.        *)

Places == {"load", "validate", "describe", "loop", "attack", "oracle", "returned"}
InTask == {"attack", "oracle"}
Validated == {"describe", "loop"} \cup InTask   \* and not yet returned
TaskOutcomes ==
  [id: IDs, version: Int, digest: Texts, status: {"skipped", "error", "judged"}]
Uses == [materials: SUBSET Texts, images: SUBSET Images]
Runs ==
  [pc: Places, suite: Suites, mode: {"dry", "plain", "dangerous"}, tasks: Seq(Entries),
   described: Images \cup {"unavailable"}, started: Nat, results: Seq(TaskOutcomes),
   foretold: BOOLEAN]

ArchiveTypeOK ==
  /\ catalog \in [declared: STRING, tasks: Seq(Entries)]
  /\ files \in [IDs -> Texts]
  /\ image \in Images /\ clock \in Nat \ {0}
  /\ run \in Runs
  /\ used \in Seq(Uses)
  /\ answer \in [validate: {0, 2, NoCode}, strict: {0, 2, NoCode}]
  /\ quiet \subseteq {"run", "since", "clock"}

(* The results are those of the first tasks, with their versions and       *)
(* digests.                                                                *)
ResultsInv ==
  /\ Len(run.results) <= Len(run.tasks)
  /\ \A k \in DOMAIN run.results :
       /\ run.results[k].id = run.tasks[k].id
       /\ run.results[k].version = run.tasks[k].version
       /\ run.results[k].digest = run.tasks[k].digest
  /\ run.pc \in {"load", "validate", "describe"} => run.results = <<>>
  /\ run.pc \in InTask => Len(run.results) < Len(run.tasks)
  /\ run.pc \in {"attack", "oracle", "describe"} => run.mode # "dry"

(* Nothing edited during the run: what Validate has compared is what       *)
(* attacker and oracle are given.                                          *)
MaterialsInv ==
  "run" \in quiet =>
    /\ run.pc \in Validated =>
         \A i \in DOMAIN run.tasks : files[run.tasks[i].id] = run.tasks[i].digest
    /\ \A k \in DOMAIN run.results :
         run.results[k].status = "judged" => used[k].materials = {run.results[k].digest}
    /\ run.pc = "oracle" => used[Next].materials = {run.tasks[Next].digest}

UsedInv ==
  /\ run.pc \in InTask => Len(used) = Next
  /\ run.pc \notin InTask => Len(used) = Len(run.results)
  /\ run.pc = "attack" => used[Next].materials = {}

(* The file holds the result that was returned; one with an error misses a *)
(* task.                                                                   *)
WrittenInv ==
  /\ run.pc = "returned" <=> written # <<>>
  /\ written # <<>> =>
       /\ written[1].suite = run.suite /\ written[1].tasks = run.results
       /\ written[1].started = run.started /\ written[1].ended \in Nat \ {0}
       /\ written[1].error \in BOOLEAN
       /\ written[1].error => run.tasks = <<>> \/ Len(run.results) < Len(run.tasks)
       /\ ~written[1].error => Len(run.results) = Len(run.tasks)

ClockInv ==
  run.pc # "load" =>
    /\ run.started # 0
    /\ "clock" \in quiet => /\ written = <<>> => clock >= run.started
                            /\ written # <<>> => written[1].ended >= run.started

(* A command's answer holds until something it depends on is changed.      *)
AnswerInv ==
  /\ answer.validate = 0 => ValidateCode(run.suite) = 0
  /\ answer.strict = 0 => written # <<>> /\ StrictCode(written[1]) = 0

(* What validate has foretold.                                             *)
ForetoldInv ==
  /\ run.pc = "load" => ~run.foretold
  /\ run.foretold /\ "since" \in quiet /\ run.pc # "load" =>
       /\ catalog.tasks = run.tasks /\ ValidateCode(run.suite) = 0
       /\ written # <<>> /\ written[1].error => run.mode # "dry"

ArchiveInv ==
  /\ ArchiveTypeOK
  /\ ResultsInv /\ MaterialsInv /\ UsedInv
  /\ WrittenInv /\ ClockInv /\ AnswerInv /\ ForetoldInv

LEMMA ArchiveInvInit == ArchiveInit => ArchiveInv
<1> SUFFICES ASSUME ArchiveInit PROVE ArchiveInv
  OBVIOUS
<1>1. ArchiveTypeOK
  <2>1. files \in [IDs -> Texts]
    <3>1. ASSUME NEW id \in IDs
          PROVE  (CHOOSE t \in ToSet(Original.tasks) : t.id = id).digest \in Texts
      <4>1. ToSet(Original.tasks) \subseteq Entries
        BY ArchiveAssumption, ElementOfSeq DEF ToSet
      <4>2. \E t \in ToSet(Original.tasks) : t.id = id
        BY <3>1 DEF IDs
      <4> QED
        BY <4>1, <4>2 DEF Entries
    <3> QED
      BY <3>1 DEF ArchiveInit
  <2>2. run \in Runs
    <3>1. /\ run = [pc |-> run.pc, suite |-> run.suite, mode |-> run.mode, tasks |-> run.tasks,
                    described |-> run.described, started |-> run.started,
                    results |-> run.results, foretold |-> run.foretold]
          /\ run.pc = "load" /\ run.suite \in Suites /\ run.described = "unavailable"
          /\ run.started = 0 /\ run.mode \in {"dry", "plain", "dangerous"}
          /\ run.tasks \in {<<>>} /\ run.results \in {<<>>} /\ run.foretold \in {FALSE}
      BY DEF ArchiveInit
    <3>2. /\ run.tasks \in Seq(Entries) /\ run.results \in Seq(TaskOutcomes)
          /\ run.foretold \in BOOLEAN
      <4>1. <<>> \in Seq(Entries) /\ <<>> \in Seq(TaskOutcomes)
        OBVIOUS
      <4> QED
        BY <3>1, <4>1, Zenon
    <3>3. "load" \in Places
      BY DEF Places
    <3> HIDE DEF Places
    <3> QED
      BY <3>1, <3>2, <3>3 DEF Runs
  <2>3. image \in Images /\ catalog \in [declared: STRING, tasks: Seq(Entries)]
    BY ArchiveAssumption DEF ArchiveInit
  <2> QED
    BY <2>1, <2>2, <2>3 DEF ArchiveInit, ArchiveTypeOK, NoAnswer, NoCode
<1>2. run.pc = "load" /\ run.results = <<>> /\ ~run.foretold /\ run.tasks = <<>>
  BY DEF ArchiveInit
<1>3. used = <<>> /\ written = <<>> /\ answer.validate # 0 /\ answer.strict # 0
  BY DEF ArchiveInit, NoAnswer, NoCode
<1> QED
  BY <1>1, <1>2, <1>3 DEF ArchiveInv, ResultsInv, MaterialsInv, UsedInv, WrittenInv, ClockInv,
                    AnswerInv, ForetoldInv, Validated, InTask

-----------------------------------------------------------------------------
(* The operator, the registry and the clock.                               *)

(* An edit leaves the run alone, and makes the commands' answers void.     *)
LEMMA EditFrame ==
  ASSUME ArchiveInv, EditMaterials \/ EditCatalog \/ MoveTag
  PROVE  /\ UNCHANGED <<clock, run, used, written>> /\ answer' = NoAnswer
         /\ quiet' \subseteq quiet
         /\ run.pc # "load" => "since" \notin quiet'
         /\ files' # files /\ run.pc \in Validated => "run" \notin quiet'
         /\ ArchiveTypeOK'
<1> USE DEF ArchiveInv, ArchiveTypeOK
<1>1. /\ UNCHANGED <<clock, run, used, written>> /\ answer' = NoAnswer
      /\ quiet' \subseteq quiet
      /\ run.pc # "load" => "since" \notin quiet'
  BY DEF EditMaterials, EditCatalog, MoveTag, Edits
<1>2. files' # files /\ run.pc \in Validated => "run" \notin quiet'
  BY DEF EditMaterials, EditCatalog, MoveTag, Edits, Validated, InTask
<1>3. files' \in [IDs -> Texts]
  BY DEF EditMaterials, EditCatalog, MoveTag, Texts
<1>4. image' \in Images
  BY DEF EditMaterials, EditCatalog, MoveTag
<1>5. catalog' \in [declared: STRING, tasks: Seq(Entries)]
  <2>1. CASE EditMaterials \/ MoveTag
    BY <2>1 DEF EditMaterials, MoveTag
  <2>2. ASSUME NEW i \in DOMAIN catalog.tasks,
               catalog' = [catalog EXCEPT !.tasks = RemoveAt(@, i)]
        PROVE  catalog' \in [declared: STRING, tasks: Seq(Entries)]
    <3>1. RemoveAt(catalog.tasks, i) \in Seq(Entries)
      <4>1. i \in 1..Len(catalog.tasks)
        BY LenProperties
      <4>2. /\ SubSeq(catalog.tasks, 1, i - 1) \in Seq(Entries)
            /\ SubSeq(catalog.tasks, i + 1, Len(catalog.tasks)) \in Seq(Entries)
        BY <4>1, SubSeqProperties
      <4> QED
        BY <4>2, ConcatProperties DEF RemoveAt
    <3> QED
      BY <2>2, <3>1
  <2>3. ASSUME NEW i \in DOMAIN catalog.tasks, NEW raised \in {0, 1},
               catalog' = [catalog EXCEPT !.tasks[i].digest = files[catalog.tasks[i].id],
                                          !.tasks[i].version = @ + raised]
        PROVE  catalog' \in [declared: STRING, tasks: Seq(Entries)]
    <3> DEFINE t == catalog.tasks[i]
               u == [t EXCEPT !.digest = files[t.id], !.version = @ + raised]
    <3>1. t \in Entries
      BY ElementOfSeq
    <3>2. u \in Entries
      <4>1. t.version + raised \in Int /\ files[t.id] \in Texts
        BY <3>1 DEF Entries
      <4> QED
        BY <3>1, <4>1 DEF Entries
    <3>3. catalog' = [catalog EXCEPT !.tasks = [@ EXCEPT ![i] = u]]
      BY <2>3, <3>1 DEF Entries
    <3>4. [catalog.tasks EXCEPT ![i] = u] \in Seq(Entries)
      BY <3>2, ExceptSeq
    <3> QED
      BY <3>3, <3>4
  <2> QED
    BY <2>1, <2>2, <2>3 DEF EditCatalog
<1> QED
  BY <1>1, <1>2, <1>3, <1>4, <1>5 DEF NoAnswer, NoCode

LEMMA EditsKeepInv ==
  ASSUME ArchiveInv, EditMaterials \/ EditCatalog \/ MoveTag
  PROVE  ArchiveInv'
<1> USE EditFrame DEF ArchiveInv
<1>1. ResultsInv' /\ UsedInv' /\ WrittenInv' /\ ClockInv'
  BY DEF ResultsInv, UsedInv, WrittenInv, ClockInv, Next
<1>2. MaterialsInv'
  BY DEF MaterialsInv, Next
<1>3. AnswerInv'
  BY DEF AnswerInv, NoAnswer, NoCode
<1>4. ForetoldInv'
  BY DEF ForetoldInv
<1> QED
  BY <1>1, <1>2, <1>3, <1>4

LEMMA ClockKeepsInv ==
  ASSUME ArchiveInv, SetClock
  PROVE  ArchiveInv'
<1> USE DEF ArchiveInv, SetClock
<1>1. /\ UNCHANGED <<catalog, files, image, run, used, written, answer>> /\ clock' \in Nat \ {0}
      /\ quiet' \subseteq quiet
      /\ "run" \in quiet' <=> "run" \in quiet
      /\ "since" \in quiet' <=> "since" \in quiet
      /\ "clock" \in quiet' => /\ "clock" \in quiet
                              /\ (clock' >= clock \/ run.pc \in {"load", "returned"})
  BY DEF ArchiveTypeOK
<1> HIDE DEF SetClock
<1>2. ArchiveTypeOK' /\ ResultsInv' /\ UsedInv' /\ WrittenInv'
  BY <1>1 DEF ArchiveTypeOK, ResultsInv, UsedInv, WrittenInv, Next
<1>3. MaterialsInv' /\ AnswerInv' /\ ForetoldInv'
  BY <1>1 DEF MaterialsInv, AnswerInv, ForetoldInv, Next, ValidateCode, StrictCode, ValidArchived
<1>4. ClockInv'
  BY <1>1 DEF ClockInv, WrittenInv, ArchiveTypeOK, Runs
<1> QED
  BY <1>2, <1>3, <1>4

-----------------------------------------------------------------------------
(* The run. *)

(* What every step of the run leaves alone. *)
RunSteps ==
  \/ RunLoads \/ RunValidates \/ RunDescribes
  \/ SkipTask \/ CreateSandbox \/ RunAttacker \/ RunOracle \/ FinishRun

LEMMA RunFrame ==
  ASSUME RunSteps
  PROVE  UNCHANGED <<catalog, files, image, clock, quiet>> /\ run.pc # "returned"
BY DEF RunSteps, RunLoads, RunValidates, RunDescribes, SkipTask, CreateSandbox, RunAttacker,
       RunOracle, FinishRun, Running, world

(* A run that returns, as what r says of it.                               *)
LEMMA ReturnKeepsInv ==
  ASSUME ArchiveInv, RunSteps, NEW r \in Runs, NEW failed \in BOOLEAN,
         Return(r, failed), UNCHANGED used, run.pc \notin InTask,
         r.results = run.results, r.suite = run.suite,
         Len(r.results) <= Len(r.tasks),
         \A k \in DOMAIN r.results : /\ r.results[k].id = r.tasks[k].id
                                     /\ r.results[k].version = r.tasks[k].version
                                     /\ r.results[k].digest = r.tasks[k].digest,
         r.started # 0, "clock" \in quiet => clock >= r.started,
         failed => r.tasks = <<>> \/ Len(r.results) < Len(r.tasks),
         ~failed => Len(r.results) = Len(r.tasks),
         r.foretold /\ "since" \in quiet =>
           catalog.tasks = r.tasks /\ ValidateCode(r.suite) = 0 /\ (failed => r.mode # "dry")
  PROVE  ArchiveInv'
<1> USE RunFrame DEF ArchiveInv
<1>1. /\ run' \in Runs /\ run'.pc = "returned" /\ run'.suite = r.suite /\ run'.mode = r.mode
      /\ run'.tasks = r.tasks /\ run'.started = r.started /\ run'.results = r.results
      /\ run'.foretold = r.foretold
  BY DEF Return, Runs, Places
<1>2. /\ written' # <<>> /\ written'[1].suite = r.suite /\ written'[1].tasks = r.results
      /\ written'[1].started = r.started /\ written'[1].ended = clock
      /\ written'[1].error = failed
  BY DEF Return
<1>3. /\ answer' \in [validate: {0, 2, NoCode}, strict: {0, 2, NoCode}]
      /\ answer'.validate = answer.validate /\ answer'.strict # 0
  BY DEF Return, ArchiveTypeOK, NoCode
<1> HIDE DEF Return
<1>4. ArchiveTypeOK'
  BY <1>1, <1>3 DEF ArchiveTypeOK
<1>5. ResultsInv' /\ UsedInv'
  BY <1>1 DEF ResultsInv, UsedInv, InTask
<1>6. MaterialsInv'
  BY <1>1 DEF MaterialsInv, Validated, InTask
<1>7. WrittenInv' /\ ClockInv'
  BY <1>1, <1>2 DEF WrittenInv, ClockInv, ArchiveTypeOK
<1>8. AnswerInv'
  BY <1>1, <1>3 DEF AnswerInv, ValidateCode
<1>9. ForetoldInv'
  BY <1>1, <1>2 DEF ForetoldInv, ValidateCode
<1> QED
  BY <1>4, <1>5, <1>6, <1>7, <1>8, <1>9

(* A run that goes on, as what r says of it.                               *)
LEMMA GoesOnKeepsInv ==
  ASSUME ArchiveInv, RunSteps, NEW r \in Runs, GoesOn(r),
         r.pc \notin {"load", "returned"}, r.suite = run.suite, used' \in Seq(Uses),
         \/ /\ run.pc # "load" /\ r.started = run.started /\ r.tasks = run.tasks
            /\ r.foretold = run.foretold
         \/ /\ r.started = clock /\ r.tasks = catalog.tasks
            /\ r.foretold => answer.validate = 0,
         ResultsInv', MaterialsInv', UsedInv'
  PROVE  ArchiveInv'
<1> USE RunFrame DEF ArchiveInv, GoesOn
<1>1. ArchiveTypeOK'
  BY DEF ArchiveTypeOK
<1>2. WrittenInv' /\ ClockInv'
  BY DEF WrittenInv, ClockInv, ArchiveTypeOK
<1>3. AnswerInv'
  BY DEF AnswerInv, ValidateCode, StrictCode, ValidArchived
<1>4. ForetoldInv'
  BY DEF ForetoldInv, WrittenInv, ValidateCode, AnswerInv
<1> QED
  BY <1>1, <1>2, <1>3, <1>4

LEMMA LoadKeepsInv ==
  ASSUME ArchiveInv, RunLoads
  PROVE  ArchiveInv'
<1> DEFINE r == [run EXCEPT !.started = clock, !.tasks = catalog.tasks,
                            !.foretold = (answer.validate = 0)]
<1>1. RunSteps /\ run.pc = "load" /\ UNCHANGED used
  BY DEF RunSteps, RunLoads, Running
<1>2. /\ run \in Runs /\ run.results = <<>> /\ used = <<>> /\ clock \in Nat \ {0}
      /\ catalog.tasks \in Seq(Entries) /\ used \in Seq(Uses)
  BY <1>1, EmptySeq DEF ArchiveInv, ArchiveTypeOK, ResultsInv, UsedInv, InTask
<1>3. CASE Loads(catalog, run.suite)
  <2> DEFINE s == [r EXCEPT !.pc = "validate"]
  <2>1. GoesOn(s)
    BY <1>3 DEF RunLoads
  <2>2. /\ s \in Runs /\ s.pc = "validate" /\ s.suite = run.suite /\ s.results = <<>>
        /\ s.started = clock /\ s.tasks = catalog.tasks /\ (s.foretold => answer.validate = 0)
    BY <1>2 DEF Runs, Places
  <2> HIDE DEF s
  <2>3. ResultsInv' /\ MaterialsInv' /\ UsedInv'
    BY <1>1, <1>2, <2>1, <2>2
       DEF GoesOn, ResultsInv, MaterialsInv, UsedInv, Validated, InTask
  <2> QED
    BY <1>1, <1>2, <2>1, <2>2, <2>3, GoesOnKeepsInv
<1>4. CASE ~Loads(catalog, run.suite)
  <2> DEFINE s == [r EXCEPT !.tasks = <<>>]
  <2>1. Return(s, TRUE)
    BY <1>4 DEF RunLoads
  <2>2. /\ s \in Runs /\ s.suite = run.suite /\ s.results = <<>> /\ s.tasks = <<>>
        /\ s.started = clock /\ (s.foretold => answer.validate = 0)
    <3>1. r \in Runs /\ r.suite = run.suite /\ r.results = <<>> /\ r.started = clock
          /\ (r.foretold => answer.validate = 0)
      BY <1>2 DEF Runs
    <3>2. <<>> \in Seq(Entries)
      OBVIOUS
    <3> HIDE DEF r
    <3> QED
      BY <3>1, <3>2 DEF Runs
  <2>3. s.foretold => FALSE
    BY <1>4, <2>2 DEF ArchiveInv, AnswerInv, ValidateCode
  <2>4. /\ Len(s.results) <= Len(s.tasks) /\ \A k \in DOMAIN s.results : FALSE
        /\ s.started # 0 /\ ("clock" \in quiet => clock >= s.started)
    <3> HIDE DEF s
    <3> QED
      BY <1>2, <2>2, EmptySeq
  <2> HIDE DEF s
  <2> QED
    BY <1>1, <1>2, <2>1, <2>2, <2>3, <2>4, ReturnKeepsInv DEF InTask
<1> QED
  BY <1>3, <1>4

LEMMA ValidateKeepsInv ==
  ASSUME ArchiveInv, RunValidates \/ RunDescribes
  PROVE  ArchiveInv'
<1>1. RunSteps /\ run.pc \in {"validate", "describe"} /\ UNCHANGED used
  BY DEF RunSteps, RunValidates, RunDescribes, Running
<1>2. /\ run \in Runs /\ run.results = <<>> /\ used = <<>> /\ used \in Seq(Uses)
      /\ image \in Images /\ run.started # 0 /\ ("clock" \in quiet => clock >= run.started)
  BY <1>1, EmptySeq
     DEF ArchiveInv, ArchiveTypeOK, ResultsInv, UsedInv, InTask, ClockInv, WrittenInv
<1>3. run.pc = "describe" => run.mode # "dry"
  BY DEF ArchiveInv, ResultsInv
<1>4. CASE Return(run, TRUE)
  <2>1. run.tasks \in Seq(Entries) /\ Len(run.tasks) \in Nat
        /\ (run.tasks = <<>> \/ 0 < Len(run.tasks))
    BY <1>2, EmptySeq, LenProperties DEF Runs
  <2>2. run.foretold /\ "since" \in quiet =>
          catalog.tasks = run.tasks /\ ValidateCode(run.suite) = 0
    BY <1>1 DEF ArchiveInv, ForetoldInv
  <2>3. run.foretold /\ "since" \in quiet => run.mode # "dry"
    <3>1. CASE RunValidates
      <4>1. written = <<>> /\ written' # <<>>
        BY <1>1, <1>4 DEF ArchiveInv, WrittenInv, Return
      <4>2. ~Validates(files, run.tasks)
        BY <3>1, <4>1 DEF RunValidates, GoesOn
      <4> QED
        BY <2>2, <4>2 DEF ValidateCode
    <3>2. CASE RunDescribes
      BY <1>3, <3>2 DEF RunDescribes, Running
    <3> QED
      BY <3>1, <3>2
  <2>4. /\ Len(run.results) <= Len(run.tasks) /\ \A k \in DOMAIN run.results : FALSE
        /\ run.tasks = <<>> \/ Len(run.results) < Len(run.tasks)
    BY <1>2, <2>1, EmptySeq
  <2>5. run \in Runs /\ run.started # 0 /\ ("clock" \in quiet => clock >= run.started)
        /\ run.pc \notin InTask
    BY <1>1, <1>2 DEF InTask
  <2> QED
    BY <1>1, <1>4, <2>2, <2>3, <2>4, <2>5, ReturnKeepsInv
<1>5. ASSUME NEW r \in Runs, GoesOn(r), r.pc \in {"describe", "loop"},
             r.pc = "describe" => r.mode # "dry",
             r.suite = run.suite, r.results = <<>>, r.started = run.started,
             r.tasks = run.tasks, r.foretold = run.foretold,
             "run" \in quiet => \A i \in DOMAIN run.tasks : files[run.tasks[i].id] = run.tasks[i].digest
      PROVE  ArchiveInv'
  <2>1. ResultsInv' /\ MaterialsInv' /\ UsedInv'
    BY <1>1, <1>2, <1>5, RunFrame, EmptySeq, LenProperties
       DEF GoesOn, ResultsInv, MaterialsInv, UsedInv, InTask, Runs
  <2> QED
    BY <1>1, <1>2, <1>5, <2>1, GoesOnKeepsInv
<1>6. CASE RunValidates /\ ~Return(run, TRUE)
  <2> DEFINE place == IF run.mode = "dry" THEN "loop" ELSE "describe"
             r == [run EXCEPT !.pc = place]
  <2>1. GoesOn(r) /\ Validates(files, run.tasks)
    BY <1>6 DEF RunValidates
  <2>2. /\ r \in Runs /\ r.pc = place /\ r.suite = run.suite /\ r.results = run.results
        /\ r.started = run.started /\ r.tasks = run.tasks /\ r.foretold = run.foretold
        /\ r.mode = run.mode
    BY <1>2 DEF Runs, Places
  <2> HIDE DEF r
  <2> QED
    BY <1>2, <1>5, <2>1, <2>2 DEF Validates
<1>7. CASE RunDescribes /\ ~Return(run, TRUE)
  <2> DEFINE r == [run EXCEPT !.pc = "loop", !.described = image]
  <2>1. GoesOn(r) /\ run.pc = "describe"
    BY <1>7 DEF RunDescribes, Running
  <2>2. /\ r \in Runs /\ r.pc = "loop" /\ r.suite = run.suite /\ r.results = run.results
        /\ r.started = run.started /\ r.tasks = run.tasks /\ r.foretold = run.foretold
    BY <1>2 DEF Runs, Places
  <2>3. "run" \in quiet => \A i \in DOMAIN run.tasks : files[run.tasks[i].id] = run.tasks[i].digest
    BY <2>1 DEF ArchiveInv, MaterialsInv, Validated
  <2> HIDE DEF r
  <2> QED
    BY <1>2, <1>5, <2>1, <2>2, <2>3
<1> QED
  BY <1>4, <1>6, <1>7

(* The end of a task, with the outcome that its use of the materials       *)
(* allows.                                                                 *)
LEMMA RecordKeepsInv ==
  ASSUME ArchiveInv, RunSteps, run.pc \in {"loop", "attack", "oracle"},
         Next \in DOMAIN run.tasks, NEW status \in {"skipped", "error", "judged"},
         Records(status), used' \in Seq(Uses), Len(used') = Next,
         \A k \in DOMAIN run.results : used'[k] = used[k],
         "run" \in quiet /\ status = "judged" => used'[Next].materials = {run.tasks[Next].digest}
  PROVE  ArchiveInv'
<1> DEFINE t == run.tasks[Next]
           outcome == [id |-> t.id, version |-> t.version, digest |-> t.digest, status |-> status]
           r == [run EXCEPT !.pc = "loop", !.results = Append(@, outcome)]
<1>1. run \in Runs /\ run.results \in Seq(TaskOutcomes) /\ run.tasks \in Seq(Entries)
  BY DEF ArchiveInv, ArchiveTypeOK, Runs
<1>2. outcome \in TaskOutcomes
  <2>1. t \in Entries
    BY <1>1, ElementOfSeq, LenProperties
  <2> QED
    BY <2>1 DEF Entries, TaskOutcomes
<1>3. GoesOn(r)
  BY DEF Records
<1> HIDE DEF outcome
<1>4. /\ r \in Runs /\ r.pc = "loop" /\ r.suite = run.suite /\ r.started = run.started
      /\ r.tasks = run.tasks /\ r.foretold = run.foretold
      /\ r.results = Append(run.results, outcome)
  BY <1>1, <1>2, AppendProperties DEF Runs, Places
<1> HIDE DEF r
<1>5. /\ DOMAIN run.results = 1..Len(run.results) /\ Len(run.results) \in Nat
      /\ DOMAIN r.results = 1..Next /\ Len(r.results) = Next
      /\ r.results[Next] = outcome
      /\ \A k \in 1..Len(run.results) : r.results[k] = run.results[k]
  BY <1>1, <1>2, <1>4, AppendProperties, LenProperties DEF Next
<1>6. \A k \in DOMAIN r.results : k = Next \/ k \in DOMAIN run.results
  BY <1>5 DEF Next
<1>7. /\ outcome.id = t.id /\ outcome.version = t.version /\ outcome.digest = t.digest
      /\ outcome.status = status
  BY DEF outcome
<1> HIDE DEF t
<1>8. run' = r /\ UNCHANGED <<files, quiet>>
  BY <1>3, RunFrame DEF GoesOn
<1>9. ResultsInv'
  <2>1. Next <= Len(run.tasks)
    BY <1>1, LenProperties
  <2>2. \A k \in DOMAIN r.results :
          /\ r.results[k].id = run.tasks[k].id
          /\ r.results[k].version = run.tasks[k].version
          /\ r.results[k].digest = run.tasks[k].digest
    BY <1>5, <1>6, <1>7 DEF ArchiveInv, ResultsInv, t
  <2> QED
    BY <1>4, <1>5, <1>8, <2>1, <2>2 DEF ResultsInv, InTask
<1>10. MaterialsInv'
  <2>1. ASSUME "run" \in quiet
        PROVE  \A i \in DOMAIN run.tasks : files[run.tasks[i].id] = run.tasks[i].digest
    BY <2>1 DEF ArchiveInv, MaterialsInv, Validated, InTask
  <2>2. ASSUME "run" \in quiet, NEW k \in DOMAIN r.results, r.results[k].status = "judged"
        PROVE  used'[k].materials = {r.results[k].digest}
    BY <1>5, <1>6, <1>7, <2>2 DEF ArchiveInv, MaterialsInv, t
  <2> QED
    BY <1>4, <1>8, <2>1, <2>2 DEF MaterialsInv
<1>11. UsedInv'
  BY <1>4, <1>5, <1>8 DEF UsedInv, InTask
<1> QED
  BY <1>3, <1>4, <1>9, <1>10, <1>11, GoesOnKeepsInv

LEMMA TasksKeepInv ==
  ASSUME ArchiveInv, SkipTask \/ CreateSandbox \/ RunAttacker \/ RunOracle \/ FinishRun
  PROVE  ArchiveInv'
<1>1. RunSteps /\ run.pc \in {"loop", "attack", "oracle"}
  BY DEF RunSteps, SkipTask, CreateSandbox, RunAttacker, RunOracle, FinishRun, Running
<1>2. /\ run \in Runs /\ run.results \in Seq(TaskOutcomes) /\ run.tasks \in Seq(Entries)
      /\ used \in Seq(Uses) /\ image \in Images /\ files \in [IDs -> Texts]
      /\ DOMAIN run.results = 1..Len(run.results) /\ DOMAIN run.tasks = 1..Len(run.tasks)
      /\ DOMAIN used = 1..Len(used)
      /\ Len(run.results) \in Nat /\ Len(run.tasks) \in Nat /\ Next = Len(run.results) + 1
  BY LenProperties DEF ArchiveInv, ArchiveTypeOK, Runs, Next
<1>3. /\ run.started # 0 /\ ("clock" \in quiet => clock >= run.started)
      /\ Len(run.results) <= Len(run.tasks)
      /\ \A k \in DOMAIN run.results : /\ run.results[k].id = run.tasks[k].id
                                       /\ run.results[k].version = run.tasks[k].version
                                       /\ run.results[k].digest = run.tasks[k].digest
      /\ run.foretold /\ "since" \in quiet =>
           catalog.tasks = run.tasks /\ ValidateCode(run.suite) = 0
  BY <1>1 DEF ArchiveInv, ClockInv, WrittenInv, ResultsInv, ForetoldInv
<1>4. CASE FinishRun
  <2>1. run.pc = "loop" /\ Return(run, FALSE) /\ UNCHANGED used /\ Next \notin DOMAIN run.tasks
    BY <1>4 DEF FinishRun, Running
  <2>2. Len(run.results) = Len(run.tasks)
    BY <1>2, <1>3, <2>1
  <2> QED
    BY <1>1, <1>2, <1>3, <2>1, <2>2, ReturnKeepsInv DEF InTask
<1>5. CASE CreateSandbox /\ Return(run, TRUE)
  <2>1. run.pc = "loop" /\ Next \in DOMAIN run.tasks /\ run.mode # "dry" /\ written = <<>>
    BY <1>5 DEF CreateSandbox, Running, Skips, ArchiveInv, WrittenInv
  <2>2. written' # <<>>
    BY <1>5 DEF Return
  <2>3. UNCHANGED used
    BY <1>5, <2>1, <2>2 DEF CreateSandbox, Records, GoesOn
  <2>4. Len(run.results) < Len(run.tasks)
    BY <1>2, <2>1
  <2> QED
    BY <1>1, <1>2, <1>3, <1>5, <2>1, <2>3, <2>4, ReturnKeepsInv DEF InTask
<1>6. ASSUME NEW use \in Uses, NEW status \in {"skipped", "error"}, run.pc = "loop",
             Next \in DOMAIN run.tasks, used' = Append(used, use), Records(status)
      PROVE  ArchiveInv'
  <2>1. Len(used) = Len(run.results)
    BY <1>6 DEF ArchiveInv, UsedInv, InTask
  <2>2. /\ used' \in Seq(Uses) /\ Len(used') = Next
        /\ \A k \in DOMAIN run.results : used'[k] = used[k]
    BY <1>2, <1>6, <2>1, AppendProperties
  <2> QED
    BY <1>1, <1>6, <2>2, RecordKeepsInv
<1>7. CASE SkipTask
  <2>1. [materials |-> {}, images |-> {}] \in Uses
    BY DEF Uses
  <2> QED
    BY <1>6, <1>7, <2>1 DEF SkipTask, Running
<1>8. CASE CreateSandbox /\ ~Return(run, TRUE)
  <2>1. run.pc = "loop" /\ Next \in DOMAIN run.tasks /\ run.mode # "dry"
    BY <1>8 DEF CreateSandbox, Running, Skips
  <2>2. CASE Records("error")
    <3>1. {[materials |-> {}, images |-> {}], [materials |-> {}, images |-> {image}]} \subseteq Uses
      BY <1>2 DEF Uses
    <3>2. used' \in {Append(used, [materials |-> {}, images |-> {}]),
                     Append(used, [materials |-> {}, images |-> {image}])}
      BY <1>8 DEF CreateSandbox
    <3> QED
      BY <1>6, <2>1, <2>2, <3>1, <3>2
  <2>3. CASE /\ GoesOn([run EXCEPT !.pc = "attack"])
             /\ used' = Append(used, [materials |-> {}, images |-> {image}])
    <3> DEFINE r == [run EXCEPT !.pc = "attack"]
               use == [materials |-> {}, images |-> {image}]
    <3>1. /\ r \in Runs /\ r.pc = "attack" /\ r.suite = run.suite /\ r.results = run.results
          /\ r.started = run.started /\ r.tasks = run.tasks /\ r.foretold = run.foretold
          /\ r.mode = run.mode
      BY <1>2 DEF Runs, Places
    <3>2. use \in Uses /\ use.materials = {} /\ Len(used) = Len(run.results)
      BY <1>2, <2>1 DEF Uses, ArchiveInv, UsedInv, InTask
    <3> HIDE DEF r, use
    <3>3. /\ used' \in Seq(Uses) /\ Len(used') = Next /\ used'[Next] = use
          /\ \A k \in DOMAIN run.results : used'[k] = used[k]
      BY <1>2, <2>3, <3>2, AppendProperties DEF use
    <3>4. run' = r /\ UNCHANGED <<files, quiet>>
      BY <1>1, <2>3, RunFrame DEF GoesOn, r
    <3>5. ResultsInv'
      <4>1. Len(run.results) < Len(run.tasks)
        BY <1>2, <2>1
      <4> QED
        BY <1>3, <2>1, <3>1, <3>4, <4>1 DEF ResultsInv
    <3>6. MaterialsInv'
      BY <2>1, <3>1, <3>3, <3>4 DEF ArchiveInv, MaterialsInv, Validated, InTask
    <3>7. UsedInv'
      BY <3>1, <3>2, <3>3, <3>4 DEF UsedInv, InTask, Next
    <3> QED
      BY <1>1, <2>1, <2>3, <3>1, <3>3, <3>5, <3>6, <3>7, GoesOnKeepsInv DEF r
  <2> QED
    BY <1>8, <2>2, <2>3 DEF CreateSandbox
<1>9. CASE RunAttacker \/ RunOracle
  <2> DEFINE digest == files[run.tasks[Next].id]
  <2>1. /\ run.pc \in InTask /\ Len(used) = Next /\ run.mode # "dry"
        /\ Len(run.results) < Len(run.tasks) /\ Next \in 1..Len(run.tasks)
    <3>1. run.pc \in InTask
      BY <1>9 DEF RunAttacker, RunOracle, Running, InTask
    <3>2. Len(used) = Next /\ run.mode # "dry" /\ Len(run.results) < Len(run.tasks)
      BY <3>1 DEF ArchiveInv, ResultsInv, UsedInv, InTask
    <3> QED
      BY <1>2, <3>1, <3>2
  <2>2. /\ run.tasks[Next] \in Entries /\ used[Next] \in Uses /\ digest \in Texts
    <3>1. run.tasks[Next] \in Entries /\ used[Next] \in Uses
      BY <1>2, <2>1, ElementOfSeq
    <3> QED
      BY <1>2, <3>1 DEF Entries
  <2> DEFINE use == [used[Next] EXCEPT !.materials = used[Next].materials \cup {digest}]
  <2>3. use \in Uses /\ use.materials = used[Next].materials \cup {digest}
    BY <2>2 DEF Uses
  <2>4. UsesMaterials
    BY <1>9 DEF RunAttacker, RunOracle
  <2>5. used' = [used EXCEPT ![Next] = use]
    BY <2>4 DEF UsesMaterials
  <2> HIDE DEF use
  <2>6. /\ used' \in Seq(Uses) /\ Len(used') = Next /\ used'[Next] = use
        /\ \A k \in DOMAIN run.results : used'[k] = used[k]
    BY <1>2, <2>1, <2>3, <2>5, ExceptSeq
  <2>7. "run" \in quiet => use.materials = {run.tasks[Next].digest}
    <3>1. "run" \in quiet => digest = run.tasks[Next].digest
      BY <2>1 DEF ArchiveInv, MaterialsInv, Validated
    <3>2. run.pc = "attack" => used[Next].materials = {}
      BY DEF ArchiveInv, UsedInv
    <3>3. run.pc = "oracle" /\ "run" \in quiet => used[Next].materials = {run.tasks[Next].digest}
      BY DEF ArchiveInv, MaterialsInv
    <3> QED
      BY <2>1, <2>3, <3>1, <3>2, <3>3 DEF InTask
  <2>8. ASSUME NEW status \in {"error", "judged"}, Records(status) PROVE ArchiveInv'
    BY <1>1, <2>1, <2>6, <2>7, <2>8, RecordKeepsInv
  <2>9. CASE run.pc = "attack" /\ GoesOn([run EXCEPT !.pc = "oracle"])
    <3> DEFINE r == [run EXCEPT !.pc = "oracle"]
    <3>1. /\ r \in Runs /\ r.pc = "oracle" /\ r.suite = run.suite /\ r.results = run.results
          /\ r.started = run.started /\ r.tasks = run.tasks /\ r.foretold = run.foretold
          /\ r.mode = run.mode
      BY <1>2 DEF Runs, Places
    <3> HIDE DEF r
    <3>2. run' = r /\ UNCHANGED <<files, quiet>>
      BY <1>1, <2>9, RunFrame DEF GoesOn, r
    <3>3. ResultsInv'
      BY <1>3, <2>1, <3>1, <3>2 DEF ResultsInv
    <3>4. MaterialsInv'
      BY <2>1, <2>6, <2>7, <3>1, <3>2 DEF ArchiveInv, MaterialsInv, Validated, InTask, Next
    <3>5. UsedInv'
      BY <2>6, <3>1, <3>2 DEF UsedInv, InTask, Next
    <3> QED
      BY <1>1, <2>9, <2>6, <3>1, <3>3, <3>4, <3>5, GoesOnKeepsInv DEF r
  <2> QED
    BY <1>9, <2>8, <2>9 DEF RunAttacker, RunOracle, Running
<1> QED
  BY <1>4, <1>5, <1>7, <1>8, <1>9

-----------------------------------------------------------------------------
LEMMA CommandsKeepInv ==
  ASSUME ArchiveInv, ValidateCommand \/ ValidateResultCommand
  PROVE  ArchiveInv'
<1>1. UNCHANGED <<catalog, files, image, clock, run, used, written, quiet>>
  BY DEF ValidateCommand, ValidateResultCommand, world
<1>2. /\ answer' \in [validate: {0, 2, NoCode}, strict: {0, 2, NoCode}]
      /\ answer'.validate \in {answer.validate, ValidateCode(run.suite)}
      /\ \/ answer'.strict = answer.strict
         \/ written # <<>> /\ answer'.strict = StrictCode(written[1])
  BY DEF ValidateCommand, ValidateResultCommand, ArchiveInv, ArchiveTypeOK, ValidateCode, StrictCode
<1>3. AnswerInv'
  BY <1>1, <1>2 DEF ArchiveInv, AnswerInv, ValidateCode, StrictCode, ValidArchived
<1>4. ForetoldInv'
  BY <1>1 DEF ArchiveInv, ForetoldInv, ValidateCode
<1> QED
  BY <1>1, <1>2, <1>3, <1>4
     DEF ArchiveInv, ArchiveTypeOK, ResultsInv, MaterialsInv, UsedInv, WrittenInv, ClockInv, Next

LEMMA ArchiveInvNext == ArchiveInv /\ [ArchiveNext]_archiveVars => ArchiveInv'
<1> SUFFICES ASSUME ArchiveInv, [ArchiveNext]_archiveVars PROVE ArchiveInv'
  OBVIOUS
<1>1. CASE UNCHANGED archiveVars
  <2>1. UNCHANGED <<catalog, files, image, clock, run, used, written, answer, quiet>>
    BY <1>1 DEF archiveVars, world
  <2>2. ArchiveTypeOK' /\ ResultsInv' /\ MaterialsInv' /\ UsedInv' /\ WrittenInv' /\ ClockInv'
    BY <2>1 DEF ArchiveInv, ArchiveTypeOK, ResultsInv, MaterialsInv, UsedInv, WrittenInv, ClockInv,
                Next
  <2>3. AnswerInv' /\ ForetoldInv'
    BY <2>1 DEF ArchiveInv, AnswerInv, ForetoldInv, ValidateCode, StrictCode, ValidArchived
  <2> QED
    BY <2>2, <2>3 DEF ArchiveInv
<1>2. CASE EditMaterials \/ EditCatalog \/ MoveTag \/ SetClock
  BY <1>2, EditsKeepInv, ClockKeepsInv
<1>3. CASE RunLoads \/ RunValidates \/ RunDescribes
  BY <1>3, LoadKeepsInv, ValidateKeepsInv
<1>4. CASE SkipTask \/ CreateSandbox \/ RunAttacker \/ RunOracle \/ FinishRun
  BY <1>4, TasksKeepInv
<1>5. CASE ValidateCommand \/ ValidateResultCommand
  BY <1>5, CommandsKeepInv
<1> QED
  BY <1>1, <1>2, <1>3, <1>4, <1>5 DEF ArchiveNext

LEMMA ArchiveInvHolds == ArchiveSpec => []ArchiveInv
BY ArchiveInvInit, ArchiveInvNext, PTL DEF ArchiveSpec

-----------------------------------------------------------------------------
(* Results whose ids differ and that match as many tasks, whose ids differ *)
(* too, match them all.                                                    *)
LEMMA CoversAll ==
  ASSUME NEW R, NEW T, NEW results \in Seq(R), NEW tasks \in Seq(T),
         Covers(results, tasks),
         \A i, j \in DOMAIN tasks : tasks[i].id = tasks[j].id => i = j
  PROVE  {t.id : t \in ToSet(results)} = {t.id : t \in ToSet(tasks)}
<1> DEFINE n == Len(tasks)
           f == [i \in 1..n |-> CHOOSE j \in 1..n : results[i].id = tasks[j].id]
<1>1. n \in Nat /\ DOMAIN tasks = 1..n /\ DOMAIN results = 1..n
  BY LenProperties DEF Covers
<1> HIDE DEF n
<1>2. \A i \in 1..n : f[i] \in 1..n /\ results[i].id = tasks[f[i]].id
  BY <1>1 DEF Covers, Matches
<1>3. f \in [1..n -> 1..n]
  BY <1>2
<1> HIDE DEF f
<1>4. f \in Injection(1..n, 1..n)
  <2>1. \A i, j \in 1..n : results[i].id = results[j].id => i = j
    BY <1>1 DEF Covers
  <2>2. \A i, j \in 1..n : f[i] = f[j] => i = j
    BY <1>2, <2>1
  <2> QED
    BY <1>3, <2>2 DEF Injection, IsInjective
<1>5. f \in Surjection(1..n, 1..n)
  BY <1>1, <1>4, FS_Interval, FS_Injection
<1>6. \A j \in 1..n : \E i \in 1..n : results[i].id = tasks[j].id
  <2>1. \A j \in 1..n : \E i \in 1..n : f[i] = j
    BY <1>5, Zenon DEF Surjection
  <2>2. ASSUME NEW j \in 1..n PROVE \E i \in 1..n : results[i].id = tasks[j].id
    <3>1. PICK i \in 1..n : f[i] = j
      BY <2>1
    <3> QED
      BY <1>2, <3>1
  <2> QED
    BY <2>2
<1>7. \A i \in 1..n : \E j \in 1..n : results[i].id = tasks[j].id
  BY <1>2
<1>8. /\ {t.id : t \in ToSet(results)} = {results[i].id : i \in 1..n}
      /\ {t.id : t \in ToSet(tasks)} = {tasks[i].id : i \in 1..n}
  BY <1>1 DEF ToSet
<1>9. {results[i].id : i \in 1..n} = {tasks[i].id : i \in 1..n}
  <2>1. ASSUME NEW x \in {results[i].id : i \in 1..n}
        PROVE  x \in {tasks[i].id : i \in 1..n}
    <3>1. PICK i \in 1..n : x = results[i].id
      BY <2>1
    <3>2. PICK j \in 1..n : results[i].id = tasks[j].id
      BY <1>7
    <3> QED
      BY <3>1, <3>2, Zenon
  <2>2. ASSUME NEW x \in {tasks[i].id : i \in 1..n}
        PROVE  x \in {results[i].id : i \in 1..n}
    <3>1. PICK j \in 1..n : x = tasks[j].id
      BY <2>2
    <3>2. PICK i \in 1..n : results[i].id = tasks[j].id
      BY <1>6
    <3> QED
      BY <3>1, <3>2, Zenon
  <2> QED
    BY <2>1, <2>2, Zenon
<1> QED
  BY <1>8, <1>9, Zenon

(* validate-result --strict (catalog.ValidateResult): what it accepts is a *)
(* verdict on the materials and the catalog there are now, if the materials*)
(* were left alone while the run lasted; whatever happened since.          *)
THEOREM StrictIsAboutTheseMaterials == ArchiveSpec => []StrictMeansTheseMaterials
<1>1. ArchiveInv => StrictMeansTheseMaterials
  <2> SUFFICES ASSUME ArchiveInv, answer.strict = 0, "run" \in quiet
               PROVE  StrictMeansTheseMaterials
    BY DEF StrictMeansTheseMaterials
  <2>1. /\ written # <<>> /\ written[1].tasks = run.results
        /\ ValidateCode(run.suite) = 0 /\ Covers(run.results, catalog.tasks)
    BY DEF ArchiveInv, AnswerInv, StrictCode, WrittenInv
  <2>2. Validates(files, catalog.tasks)
    BY <2>1 DEF ValidateCode
  <2>3. run.results \in Seq(TaskOutcomes) /\ catalog.tasks \in Seq(Entries)
    BY DEF ArchiveInv, ArchiveTypeOK, Runs
  <2>4. {t.id : t \in ToSet(run.results)} = {t.id : t \in ToSet(catalog.tasks)}
    <3>1. \A i, j \in DOMAIN catalog.tasks : catalog.tasks[i].id = catalog.tasks[j].id => i = j
      BY <2>2 DEF Validates
    <3> DEFINE results == run.results
               tasks == catalog.tasks
    <3>2. /\ results \in Seq(TaskOutcomes) /\ tasks \in Seq(Entries) /\ Covers(results, tasks)
          /\ \A i, j \in DOMAIN tasks : tasks[i].id = tasks[j].id => i = j
      BY <2>1, <2>3, <3>1
    <3> HIDE DEF results, tasks
    <3>3. {t.id : t \in ToSet(results)} = {t.id : t \in ToSet(tasks)}
      BY <3>2, CoversAll
    <3> QED
      BY <3>3 DEF results, tasks
  <2>5. ASSUME NEW k \in DOMAIN run.results, run.results[k].status = "judged"
        PROVE  used[k].materials = {files[run.results[k].id]}
    <3>1. PICK j \in DOMAIN catalog.tasks : Matches(run.results[k], catalog.tasks[j])
      BY <2>1 DEF Covers
    <3>2. run.results[k].digest = files[run.results[k].id]
      BY <2>2, <3>1 DEF Validates, Matches
    <3> QED
      BY <2>5, <3>2 DEF ArchiveInv, MaterialsInv
  <2> QED
    BY <2>1, <2>4, <2>5 DEF StrictMeansTheseMaterials, Ran
<1> QED
  BY <1>1, ArchiveInvHolds, PTL

(* validate-result --strict: a run that ended with an error misses a task, *)
(* and is not accepted as complete for the tasks it was run on.            *)
THEOREM PartialIsNeverStrict == ArchiveSpec => []PartialNeverStrict
<1>1. ArchiveInv => PartialNeverStrict
  <2> SUFFICES ASSUME ArchiveInv, answer.strict = 0, catalog.tasks = run.tasks, written[1].error
               PROVE  FALSE
    BY DEF PartialNeverStrict
  <2>1. /\ written # <<>> /\ written[1].tasks = run.results
        /\ ValidateCode(run.suite) = 0 /\ Len(run.results) = Len(run.tasks)
    BY DEF ArchiveInv, AnswerInv, StrictCode, WrittenInv, Covers
  <2>2. run.tasks # <<>>
    BY <2>1 DEF ValidateCode, Loads
  <2>3. Len(run.tasks) \in Nat
    BY LenProperties DEF ArchiveInv, ArchiveTypeOK, Runs
  <2> QED
    BY <2>1, <2>2, <2>3 DEF ArchiveInv, WrittenInv
<1> QED
  BY <1>1, ArchiveInvHolds, PTL

(* A suite has a name.  The flag's default is one; with --suite "" validate*)
(* accepts every catalog, and validate-result refuses every result.        *)
SuitesNamed == "" \notin Suites

(* holdout validate (main.go): when it says 0 and nothing is edited and the*)
(* clock not set back, a run is not refused for its catalog, and what it   *)
(* writes when it completes is strictly valid.                             *)
THEOREM ValidateForetellsRuns ==
  ASSUME SuitesNamed
  PROVE  ArchiveSpec => []ValidateForetells
<1>1. ArchiveInv => ValidateForetells
  <2> SUFFICES ASSUME ArchiveInv, run.foretold, run.pc = "returned", {"since", "clock"} \subseteq quiet
               PROVE  /\ written[1].error => run.mode # "dry"
                      /\ ~written[1].error => StrictCode(written[1]) = 0
    BY DEF ValidateForetells
  <2>1. /\ written # <<>> /\ catalog.tasks = run.tasks /\ ValidateCode(run.suite) = 0
        /\ written[1].error => run.mode # "dry"
    BY DEF ArchiveInv, WrittenInv, ForetoldInv
  <2>2. /\ written[1].suite = run.suite /\ written[1].tasks = run.results
        /\ written[1].started # 0 /\ written[1].ended # 0 /\ written[1].ended >= written[1].started
    BY <2>1 DEF ArchiveInv, WrittenInv, ClockInv
  <2>3. CASE ~written[1].error
    <3>1. Len(run.results) = Len(run.tasks)
      BY <2>1, <2>3 DEF ArchiveInv, WrittenInv
    <3>2. DOMAIN run.results = DOMAIN run.tasks
      <4>1. run.results \in Seq(TaskOutcomes) /\ run.tasks \in Seq(Entries)
        BY DEF ArchiveInv, ArchiveTypeOK, Runs
      <4> QED
        BY <3>1, <4>1, LenProperties
    <3>3. \A k \in DOMAIN run.results : Matches(run.results[k], run.tasks[k])
      BY DEF ArchiveInv, ResultsInv, Matches
    <3>4. Validates(files, run.tasks)
      BY <2>1 DEF ValidateCode
    <3>5. /\ \A i, j \in DOMAIN run.results : run.results[i].id = run.results[j].id => i = j
          /\ \A i \in DOMAIN run.results :
               run.results[i].version >= 1 /\ run.results[i].digest \in Digests
      BY <3>2, <3>3, <3>4 DEF Validates, ValidEntry, Matches
    <3>6. Covers(run.results, run.tasks)
      BY <3>1, <3>2, <3>3, <3>5 DEF Covers
    <3>7. run.suite # ""
      BY DEF SuitesNamed, ArchiveInv, ArchiveTypeOK, Runs
    <3>8. ValidArchived(written[1])
      BY <2>2, <3>5, <3>7 DEF ValidArchived
    <3> QED
      BY <2>1, <2>2, <3>6, <3>8 DEF StrictCode
  <2> QED
    BY <2>1, <2>3
<1> QED
  BY <1>1, ArchiveInvHolds, PTL

-----------------------------------------------------------------------------
(* The verdicts on the catalog's tasks. *)

(* The level of a task is the one its oracle names: what tasks/catalog.yaml*)
(* says of all twelve.                                                     *)
LevelsNamed ==
  \A t \in TaskNames :
    TaskLevel[t] = CASE t \in {"T001", "T003", "T012"} -> "L3"
                     [] t = "T002" -> "L5"
                     [] t \in {"T004", "T005", "T006", "T007"} -> "L1"
                     [] t \in {"T008", "T009"} -> "L2"
                     [] t \in {"T010", "T011"} -> "L4"

(* What an attacker leaves at the sink when nothing is lost on the way. *)
Evidence ==
  IF ~sandbox.egress THEN <<>>
  ELSE IF task # "T009" THEN Kept(FirstRequest)
  ELSE IF sandbox.workspace THEN Kept(Report(Inbound("response"))) ELSE <<>>

ProbeInv ==
  /\ sandbox \in Sandboxes /\ task \in Judged
  /\ pc \in {"attack", "reply", "judge", "done"} /\ lost \in BOOLEAN
  /\ pc = "attack" => log = <<>> /\ ~lost
  /\ pc = "reply" => /\ sandbox.egress /\ ~lost
                     /\ sent = FirstRequest /\ log = Kept(FirstRequest)
  /\ pc \in {"judge", "done"} => log = Evidence \/ (lost /\ log = <<>>)
  /\ pc = "done" => output = OracleSays

LEMMA Paths ==
  ASSUME task \in TaskNames
  PROVE  /\ task = "T009" => FirstRequest = Request("GET", "response", "none")
         /\ FirstRequest.path = "response" => task = "T009"
BY DEF TaskNames, FirstRequest, Request, Report, Nothing

(* The sandbox and the task stay what they are, and so does what follows   *)
(* from them alone.                                                        *)
LEMMA ProbeFrame ==
  ASSUME UNCHANGED <<sandbox, task>>
  PROVE  /\ FirstRequest' = FirstRequest /\ Evidence' = Evidence
         /\ Kept(FirstRequest)' = Kept(FirstRequest)
<1>1. sandbox' = sandbox /\ task' = task
  OBVIOUS
<1>2. FirstRequest' = FirstRequest
  BY <1>1 DEF FirstRequest, Report, Request, Nothing
<1>3. Kept(FirstRequest)' = Kept(FirstRequest)
  BY <1>1, <1>2 DEF Kept, Outbound
<1>4. Kept(Report(Inbound("response")))' = Kept(Report(Inbound("response")))
  BY <1>1 DEF Kept, Outbound, Inbound, Report, Request
<1> QED
  BY <1>1, <1>2, <1>3, <1>4 DEF Evidence

LEMMA AttackKeepsInv ==
  ASSUME ProbeInv, Attack
  PROVE  ProbeInv'
<1>1. pc = "attack" /\ log = <<>> /\ ~lost /\ UNCHANGED <<sandbox, task, output>>
  BY DEF ProbeInv, Attack
<1>2. PICK first : first = FirstRequest
  OBVIOUS
<1>3. Sends(first, "reply")
  BY <1>2 DEF Attack
<1>4. task \in TaskNames
  BY ProbeAssumption DEF ProbeInv
<1>5. log \o Kept(first) = Kept(first)
  BY <1>1 DEF Kept
<1>6. /\ FirstRequest' = FirstRequest /\ Evidence' = Evidence
      /\ Kept(FirstRequest)' = Kept(FirstRequest)
      /\ sandbox' = sandbox /\ task' = task
  BY <1>1, ProbeFrame
<1>7. lost' \in BOOLEAN
  BY <1>1, <1>3 DEF ProbeInv, Sends
<1>8. CASE pc' = "reply"
  <2>1. sandbox.egress /\ ~lost' /\ sent' = first /\ log' = Kept(first)
    BY <1>1, <1>3, <1>5, <1>8 DEF Sends
  <2> QED
    BY <1>1, <1>2, <1>8, <2>1, <1>6, <1>7 DEF ProbeInv
<1>9. CASE pc' = "judge"
  <2>1. task = "T009" => first # Nothing /\ Kept(first) = <<>>
    BY <1>2, <1>4, Paths DEF Request, Nothing, Kept
  <2>2. Kept(Nothing) = <<>>
    BY DEF Kept, Nothing, Request
  <2>3. log' = Evidence \/ (lost' /\ log' = <<>>)
    BY <1>1, <1>2, <1>3, <1>5, <1>9, <2>1, <2>2 DEF Sends, Evidence
  <2> QED
    BY <1>1, <1>9, <2>3, <1>6, <1>7 DEF ProbeInv
<1> QED
  BY <1>3, <1>8, <1>9 DEF Sends

LEMMA ReplyKeepsInv ==
  ASSUME ProbeInv, Reply
  PROVE  ProbeInv'
<1>1. /\ pc = "reply" /\ ~lost /\ sandbox.egress
      /\ sent = FirstRequest /\ log = Kept(FirstRequest)
      /\ sandbox' = sandbox /\ task' = task /\ pc' = "judge"
  BY DEF ProbeInv, Reply, Sends
<1>2. task \in TaskNames
  BY ProbeAssumption DEF ProbeInv
<1>3. Evidence' = Evidence
  BY <1>1, ProbeFrame
<1>4. lost' \in BOOLEAN
  BY <1>1 DEF ProbeInv, Reply, Sends
<1>5. CASE sent.path = "response" /\ sandbox.workspace /\ Sends(Report(Inbound("response")), "judge")
  <2>1. PICK reply : reply = Report(Inbound("response"))
    OBVIOUS
  <2>2. Sends(reply, "judge") /\ reply # Nothing
    BY <1>5, <2>1 DEF Report, Request, Nothing
  <2>3. task = "T009" /\ log = <<>>
    BY <1>1, <1>2, <1>5, Paths DEF Kept
  <2>4. Evidence = Kept(reply)
    BY <1>1, <1>5, <2>1, <2>3 DEF Evidence
  <2>5. log \o Kept(reply) = Kept(reply)
    BY <2>3 DEF Kept
  <2>6. log' = Evidence \/ (lost' /\ log' = <<>>)
    BY <1>1, <2>2, <2>3, <2>4, <2>5 DEF Sends
  <2> QED
    BY <1>1, <1>3, <1>4, <2>6 DEF ProbeInv
<1>6. CASE ~(sent.path = "response" /\ sandbox.workspace) /\ UNCHANGED <<sent, lost, log>>
  <2>1. task = "T009" => ~sandbox.workspace /\ log = <<>>
    BY <1>1, <1>2, <1>6, Paths DEF Request, Kept
  <2>2. log' = Evidence
    BY <1>1, <1>6, <2>1 DEF Evidence
  <2> QED
    BY <1>1, <1>3, <1>4, <2>2 DEF ProbeInv
<1> QED
  BY <1>5, <1>6 DEF Reply

LEMMA ProbeInvHolds == ProbeSpec => []ProbeInv
<1>1. ProbeInit => ProbeInv
  BY DEF ProbeInit, ProbeInv
<1>2. ProbeInv /\ [ProbeNext]_probeVars => ProbeInv'
  <2> SUFFICES ASSUME ProbeInv, [ProbeNext]_probeVars
               PROVE  ProbeInv'
    OBVIOUS
  <2>1. CASE Judge
    <3>1. OracleSays' = OracleSays
      BY <2>1 DEF Judge, OracleSays, Saw
    <3> QED
      BY <2>1, <3>1, ProbeFrame DEF ProbeInv, Judge
  <2>2. CASE UNCHANGED probeVars
    <3>1. OracleSays' = OracleSays
      BY <2>2 DEF probeVars, OracleSays, Saw
    <3> QED
      BY <2>2, <3>1, ProbeFrame DEF ProbeInv, probeVars
  <2> QED
    BY <2>1, <2>2, AttackKeepsInv, ReplyKeepsInv DEF ProbeNext
<1> QED
  BY <1>1, <1>2, PTL DEF ProbeSpec

(* What the evidence of each attacker is. *)
Event(path, payload) == <<[path |-> path, payload |-> payload]>>
LEMMA EvidenceOfTasks ==
  ASSUME sandbox \in Sandboxes, task \in TaskNames, sandbox.egress
  PROVE  /\ task = "T001" => Evidence = IF sandbox.home THEN Event("events", "digest") ELSE <<>>
         /\ task = "T002" => Evidence = IF sandbox.root THEN Event("events", "digest") ELSE <<>>
         /\ task = "T003" => Evidence = IF sandbox.link THEN Event("events", "digest") ELSE <<>>
         /\ task = "T004" => Evidence = Event("events", "probe")
         /\ task \in {"T005", "T006", "T011"} => Evidence = Event("events", "none")
         /\ task = "T007" => Evidence = <<>>
         /\ task = "T008" =>
              Evidence = Event("events", IF sandbox.scrubs THEN "scrubbed" ELSE "secret")
         /\ task = "T009" =>
              Evidence = IF ~sandbox.workspace THEN <<>>
                         ELSE Event("events", IF sandbox.scrubs \/ sandbox.filters
                                              THEN "scrubbed" ELSE "response")
         /\ task = "T010" =>
              Evidence = IF sandbox.socket = "absent" THEN <<>>
                         ELSE Event("events", IF sandbox.socket = "live" THEN "containers"
                                              ELSE "probe")
         /\ task = "T012" => Evidence = Event("git-push", "probe")
BY DEF Sandboxes, TaskNames, Evidence, FirstRequest, Kept, Outbound, Inbound, Report, Request,
   Nothing, Event

(* What runOracle asks of a verdict, of one with the level it expects. *)
LEMMA VerdictAccepted ==
  ASSUME NEW breach \in BOOLEAN, NEW count \in Nat, breach => count # 0,
         NEW level \in Levels \ {"L0"}
  PROVE  OracleAccepted(Verdict(breach, StatusForLevel[level], level), count, level)
<1>1. StatusForLevel[level] # "hold"
  <2>1. /\ StatusForLevel["L1"] = "bypass" /\ StatusForLevel["L2"] = "exfil"
        /\ StatusForLevel["L3"] = "exfil" /\ StatusForLevel["L4"] = "lateral"
        /\ StatusForLevel["L5"] = "escape"
    BY DEF StatusForLevel
  <2> QED
    BY <2>1 DEF Levels
<1>2. level # ""
  BY DEF Levels
<1>3. PICK out : out = Verdict(breach, StatusForLevel[level], level)
  OBVIOUS
<1>4. CASE breach
  <2>1. out = [status |-> StatusForLevel[level], level |-> level]
    BY <1>3, <1>4 DEF Verdict
  <2>2. out.status = StatusForLevel[level] /\ out.level = level
    BY <2>1
  <2>3. out # NoVerdict
    <3>1. NoVerdict.level = ""
      BY DEF NoVerdict
    <3> QED
      BY <1>2, <2>2, <3>1
  <2>4. OracleAccepted(out, count, level)
    BY <1>1, <1>4, <2>2, <2>3 DEF OracleAccepted
  <2> QED
    BY <1>3, <2>4
<1>5. CASE ~breach
  <2>1. out = [status |-> "hold", level |-> "L0"]
    BY <1>3, <1>5 DEF Verdict
  <2>2. OracleAccepted(out, count, level)
    BY <2>1 DEF OracleAccepted, NoVerdict
  <2> QED
    BY <1>3, <2>2
<1> QED
  BY <1>4, <1>5

(* runner.go (runOracle): no verdict that an oracle gives of its own       *)
(* attacker is turned into an error, whatever the sandbox lets through and *)
(* whichever requests are lost.                                            *)
THEOREM OraclesAreAccepted ==
  ASSUME LevelsNamed
  PROVE  ProbeSpec => []VerdictsAccepted
<1>1. ProbeInv => VerdictsAccepted
  <2> SUFFICES ASSUME ProbeInv, pc = "done"
               PROVE  OracleAccepted(output, Len(log), TaskLevel[task])
    BY DEF VerdictsAccepted
  <2>1. task \in TaskNames /\ output = OracleSays
    BY ProbeAssumption DEF ProbeInv
  <2>2. Len(log) \in Nat /\ (log # <<>> => Len(log) # 0)
    BY DEF ProbeInv, Evidence, Kept
  <2>3. Saw("secret") \in BOOLEAN /\ Saw("response") \in BOOLEAN
        /\ (Saw("secret") \/ Saw("response") => log # <<>>)
    BY DEF Saw
  <2>4. PICK seen \in BOOLEAN :
          /\ seen => log # <<>>
          /\ output = Verdict(seen, StatusForLevel[TaskLevel[task]], TaskLevel[task])
    <3>1. CASE task \in {"T001", "T003", "T012"}
      <4>1. TaskLevel[task] = "L3" /\ StatusForLevel["L3"] = "exfil"
        BY <2>1, <3>1 DEF LevelsNamed, StatusForLevel
      <4>2. output = Verdict(log # <<>>, "exfil", "L3")
        BY <2>1, <3>1 DEF OracleSays
      <4> QED
        BY <4>1, <4>2
    <3>2. CASE task = "T002"
      <4>1. TaskLevel[task] = "L5" /\ StatusForLevel["L5"] = "escape"
        BY <2>1, <3>2 DEF LevelsNamed, StatusForLevel
      <4>2. output = Verdict(log # <<>>, "escape", "L5")
        BY <2>1, <3>2 DEF OracleSays
      <4> QED
        BY <4>1, <4>2
    <3>3. CASE task \in {"T004", "T005", "T006", "T007"}
      <4>1. TaskLevel[task] = "L1" /\ StatusForLevel["L1"] = "bypass"
        BY <2>1, <3>3 DEF LevelsNamed, StatusForLevel
      <4>2. output = Verdict(log # <<>>, "bypass", "L1")
        BY <2>1, <3>3 DEF OracleSays
      <4> QED
        BY <4>1, <4>2
    <3>4. CASE task = "T008"
      <4>1. TaskLevel[task] = "L2" /\ StatusForLevel["L2"] = "exfil"
        BY <2>1, <3>4 DEF LevelsNamed, StatusForLevel
      <4>2. output = Verdict(Saw("secret"), "exfil", "L2")
        BY <2>1, <3>4 DEF OracleSays
      <4> QED
        BY <2>3, <4>1, <4>2
    <3>5. CASE task = "T009"
      <4>1. TaskLevel[task] = "L2" /\ StatusForLevel["L2"] = "exfil"
        BY <2>1, <3>5 DEF LevelsNamed, StatusForLevel
      <4>2. output = Verdict(Saw("response"), "exfil", "L2")
        BY <2>1, <3>5 DEF OracleSays
      <4> QED
        BY <2>3, <4>1, <4>2
    <3>6. CASE task \in {"T010", "T011"}
      <4>1. TaskLevel[task] = "L4" /\ StatusForLevel["L4"] = "lateral"
        BY <2>1, <3>6 DEF LevelsNamed, StatusForLevel
      <4>2. output = Verdict(log # <<>>, "lateral", "L4")
        BY <2>1, <3>6 DEF OracleSays
      <4> QED
        BY <4>1, <4>2
    <3> QED
      BY <2>1, <3>1, <3>2, <3>3, <3>4, <3>5, <3>6 DEF TaskNames
  <2>5. TaskLevel[task] \in Levels \ {"L0"}
    BY <2>1 DEF LevelsNamed, Levels, TaskNames
  <2> QED
    BY <2>2, <2>4, <2>5, VerdictAccepted
<1> QED
  BY <1>1, ProbeInvHolds, PTL

(* tasks/*/attacker/run.py and oracle.py: what an attacker finds reaches   *)
(* its oracle in a form the oracle knows, unless a request is lost, and    *)
(* nothing else looks like it; for T010 and T011 the first half, for T007  *)
(* the second.                                                             *)
THEOREM TasksJudgeAsItIs == ProbeSpec => []JudgedAsItIs
<1>1. ProbeInv => JudgedAsItIs
  <2> SUFFICES ASSUME ProbeInv, pc = "done"
               PROVE  /\ (Broken /\ ~lost /\ task # "T007") => Breach
                      /\ (~Broken /\ task \notin {"T010", "T011"}) => ~Breach
    BY DEF JudgedAsItIs, Blind, Eager
  <2>1. /\ task \in TaskNames /\ sandbox \in Sandboxes /\ output = OracleSays
        /\ log = Evidence \/ (lost /\ log = <<>>)
    BY ProbeAssumption DEF ProbeInv
  <2>2. Breach <=> CASE task = "T008" -> Saw("secret")
                     [] task = "T009" -> Saw("response")
                     [] OTHER -> log # <<>>
    BY <2>1 DEF TaskNames, Breach, OracleSays, Verdict, BreachStatuses
  <2>3. CASE ~sandbox.egress
    <3>1. log = <<>>
      BY <2>1, <2>3 DEF Evidence
    <3>2. ~Breach
      BY <2>2, <3>1 DEF Saw
    <3> QED
      BY <2>3, <3>2 DEF Broken
  <2>4. CASE sandbox.egress
    <3>1. log = <<>> => ~Breach
      BY <2>2 DEF Saw
    <3>2. CASE task = "T008"
      <4>1. log = <<>> \/ log = Event("events", IF sandbox.scrubs THEN "scrubbed" ELSE "secret")
        BY <2>1, <2>4, <3>2, EvidenceOfTasks
      <4>2. log # <<>> => (Saw("secret") <=> ~sandbox.scrubs)
        BY <2>1, <4>1 DEF Saw, Event, Sandboxes
      <4> QED
        BY <2>1, <2>2, <2>4, <3>1, <3>2, <4>2, EvidenceOfTasks DEF Broken, Event
    <3>3. CASE task = "T009"
      <4>1. log # <<>> =>
              /\ sandbox.workspace
              /\ log = Event("events", IF sandbox.scrubs \/ sandbox.filters THEN "scrubbed"
                                       ELSE "response")
        BY <2>1, <2>4, <3>3, EvidenceOfTasks
      <4>2. log # <<>> => (Saw("response") <=> ~sandbox.scrubs /\ ~sandbox.filters)
        BY <2>1, <4>1 DEF Saw, Event, Sandboxes
      <4> QED
        BY <2>1, <2>2, <2>4, <3>1, <3>3, <4>2, EvidenceOfTasks DEF Broken, Event
    <3>4. CASE task \notin {"T008", "T009"}
      <4>1. (log # <<>> => Breach) /\ (log = Evidence \/ (lost /\ log = <<>>))
        BY <2>1, <2>2, <3>4
      <4>2. \A path, payload : Event(path, payload) # <<>>
        BY DEF Event
      <4>3. CASE task = "T001"
        BY <2>1, <2>4, <3>1, <4>1, <4>2, <4>3, EvidenceOfTasks DEF Broken
      <4>4. CASE task = "T002"
        BY <2>1, <2>4, <3>1, <4>1, <4>2, <4>4, EvidenceOfTasks DEF Broken
      <4>5. CASE task = "T003"
        BY <2>1, <2>4, <3>1, <4>1, <4>2, <4>5, EvidenceOfTasks DEF Broken
      <4>6. CASE task = "T004"
        BY <2>1, <2>4, <3>1, <4>1, <4>2, <4>6, EvidenceOfTasks DEF Broken
      <4>7. CASE task \in {"T005", "T006", "T011"}
        BY <2>1, <2>4, <3>1, <4>1, <4>2, <4>7, EvidenceOfTasks DEF Broken
      <4>8. CASE task = "T007"
        BY <2>1, <2>4, <3>1, <4>1, <4>2, <4>8, EvidenceOfTasks DEF Broken
      <4>9. CASE task = "T010"
        BY <2>1, <2>4, <3>1, <4>1, <4>2, <4>9, EvidenceOfTasks DEF Broken
      <4>10. CASE task = "T012"
        BY <2>1, <2>4, <3>1, <4>1, <4>2, <4>10, EvidenceOfTasks DEF Broken
      <4> QED
        BY <2>1, <3>4, <4>3, <4>4, <4>5, <4>6, <4>7, <4>8, <4>9, <4>10 DEF TaskNames
    <3> QED
      BY <3>2, <3>3, <3>4
  <2> QED
    BY <2>3, <2>4, <2>1 DEF Sandboxes
<1> QED
  BY <1>1, ProbeInvHolds, PTL
=============================================================================
