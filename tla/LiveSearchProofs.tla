-------------------------- MODULE LiveSearchProofs --------------------------
(***************************************************************************)
(* Theorems about LiveSearch, for any corpus, queries, windows and faults. *)
(***************************************************************************)
EXTENDS LiveSearch, SequenceTheorems, FiniteSetTheorems, TLAPS

(***************************************************************************)
(* Types.                                                                  *)
(***************************************************************************)
Good(f, L) == f \in FileOf(L) /\ (f.torn = "line" => f.lines # <<>>)

\* A file after a write: what was there, less a line that was glued to, and
\* what was written, less the line glued to it.
LEMMA WrittenLines ==
  ASSUME NEW L, NEW f, Good(f, L), NEW ls \in Seq(L), ls # <<>>
  PROVE  /\ Written(f, ls) \in FileOf(L)
         /\ Written(f, ls).torn = "no"
         /\ Written(f, ls).lines # <<>>
<1>. DEFINE M == L \cup {Garbled}
<1>1. f.lines \in Seq(M) /\ ls \in Seq(M) /\ <<Garbled>> \in Seq(M) /\ Tail(ls) \in Seq(M)
  BY HeadTailProperties, SeqMonotonic DEF Good, FileOf
<1>2. CASE f.torn = "no"
  <2>1. Written(f, ls) = [lines |-> f.lines \o ls, torn |-> "no"] BY <1>2 DEF Written
  <2>2. f.lines \o ls \in Seq(M) /\ f.lines \o ls # <<>>
    BY <1>1, ConcatProperties, ConcatEqualIffEmpty
  <2>. QED BY <2>1, <2>2 DEF FileOf, Torn
<1>3. CASE f.torn = "part"
  <2>1. Written(f, ls) = [lines |-> f.lines \o <<Garbled>> \o Tail(ls), torn |-> "no"]
    BY <1>3 DEF Written
  <2>2. f.lines \o <<Garbled>> \in Seq(M) /\ f.lines \o <<Garbled>> # <<>>
    BY <1>1, ConcatProperties, ConcatEqualIffEmpty
  <2>3. /\ f.lines \o <<Garbled>> \o Tail(ls) \in Seq(M)
        /\ f.lines \o <<Garbled>> \o Tail(ls) # <<>>
    BY <1>1, <2>2, ConcatProperties, ConcatEqualIffEmpty
  <2>. QED BY <2>1, <2>3 DEF FileOf, Torn
<1>4. CASE f.torn = "line"
  <2>. DEFINE g == AllButLast(f.lines)
  <2>1. Written(f, ls) = [lines |-> g \o <<Garbled>> \o Tail(ls), torn |-> "no"]
    BY <1>4 DEF Written
  <2>2. g \in Seq(M) BY <1>1, <1>4, LenProperties, SubSeqProperties DEF AllButLast, Good
  <2>. HIDE DEF g
  <2>3. g \o <<Garbled>> \in Seq(M) /\ g \o <<Garbled>> # <<>>
    BY <1>1, <2>2, ConcatProperties, ConcatEqualIffEmpty
  <2>4. g \o <<Garbled>> \o Tail(ls) \in Seq(M) /\ g \o <<Garbled>> \o Tail(ls) # <<>>
    BY <1>1, <2>3, ConcatProperties, ConcatEqualIffEmpty
  <2>. QED BY <2>1, <2>4 DEF FileOf, Torn
<1>. QED BY <1>2, <1>3, <1>4 DEF Good, FileOf, Torn

LEMMA WrittenType ==
  ASSUME NEW L, NEW f, Good(f, L), NEW ls \in Seq(L)
  PROVE  Good(Written(f, ls), L)
<1>1. CASE ls = <<>> BY <1>1 DEF Written
<1>2. CASE ls # <<>> BY <1>2, WrittenLines DEF Good
<1>. QED BY <1>1, <1>2

LEMMA PartType ==
  ASSUME NEW L, NEW f, Good(f, L), NEW ls \in Seq(L)
  PROVE  Good(Part(f, ls), L)
<1>. DEFINE g == Written(f, ls)
<1>1. Good(g, L) BY WrittenType
<1>. HIDE DEF g
<1>2. g.lines \in Seq(L \cup {Garbled}) BY <1>1 DEF Good, FileOf
<1>3. g.torn = "line" => AllButLast(g.lines) \in Seq(L \cup {Garbled})
  BY <1>1, <1>2, LenProperties, SubSeqProperties DEF AllButLast, Good
<1>. QED BY <1>2, <1>3 DEF Part, g, Good, FileOf, Torn

LEMMA NoNewlineType ==
  ASSUME NEW L, NEW f, Good(f, L), NEW ls \in Seq(L), ls # <<>>
  PROVE  Good(NoNewline(f, ls), L)
BY WrittenLines DEF NoNewline, Good, FileOf, Torn

LEMMA LineType ==
  ASSUME NEW w \in Window, NEW s \in {"split", "done"}
  PROVE  LogLine(w, s) \in Line /\ <<LogLine(w, s)>> \in Seq(Line)
BY DEF LogLine, Line

LEMMA AnswerType ==
  ASSUME NEW w
  PROVE  /\ Cardinality(Hits(w)) \in Nat /\ NoAnswer \in [total : Nat, whole : BOOLEAN]
         /\ \A b \in BOOLEAN : answer' = [total |-> Cardinality(Hits(w)), whole |-> b]
                            => answer' \in [total : Nat, whole : BOOLEAN]
<1>.  DEFINE n == Cardinality(Hits(w))
<1>1. Hits(w) \subseteq PRs BY DEF Hits
<1>2. n \in Nat
  BY <1>1, LiveSearchAssumption, FS_Subset, FS_CardinalityType
<1>3. NoAnswer \in [total : Nat, whole : BOOLEAN] BY DEF NoAnswer
<1>. HIDE DEF n
<1>4. \A b \in BOOLEAN : [total |-> n, whole |-> b] \in [total : Nat, whole : BOOLEAN] BY <1>2
<1>. QED BY <1>2, <1>3, <1>4 DEF n

LEMMA HalvesType ==
  ASSUME NEW w \in Window, Splits(w)
  PROVE  Halves(w) \in Seq(Window) /\ Halves(w) # <<>>
<1>. DEFINE mid == w.from + (w.to - w.from) \div 2
<1>1. /\ w.from \in Nat /\ w.to \in Nat /\ w.to <= Horizon /\ Horizon \in Nat
      /\ w.to - w.from > Floor /\ Floor \in Nat
  BY LiveSearchAssumption DEF Window, Time, Splits
<1>2. mid \in Nat /\ w.from <= mid /\ mid <= w.to BY <1>1
<1>3. mid \in Time BY <1>1, <1>2 DEF Time
<1>. HIDE DEF mid
<1>4. [w EXCEPT !.to = mid] \in Window /\ [w EXCEPT !.from = mid] \in Window
  BY <1>3 DEF Window
<1>5. Halves(w) = << [w EXCEPT !.to = mid], [w EXCEPT !.from = mid] >> BY DEF Halves, mid
<1>6. Len(Halves(w)) = 2 /\ Len(<<>>) = 0 BY <1>5
<1>. QED BY <1>4, <1>5, <1>6

LEMMA NextOfType ==
  ASSUME NEW t \in 1..Len(Labels), NEW from \in Time, NEW a \in [end : Time, size : Nat],
         from < a.end
  PROVE  NextOf(t, from, a) \in Window
<1>1. Labels[t] \in Range(Labels) BY LiveSearchAssumption, LenProperties DEF Range
<1>2. Least(from + a.size, a.end) \in Time BY LiveSearchAssumption DEF Least, Time
<1>. QED BY <1>1, <1>2 DEF NextOf, Window

\* Whatever is fetched is of the window, and is written as a sequence of it.
LEMMA FetchedIsHits ==
  ASSUME NEW w, NEW S \in Fetched(w) \cup Before(w)
  PROVE  S \subseteq Hits(w) /\ S \subseteq PRs
BY DEF Fetched, Before, Earliest, Hits

LEMMA OrderType ==
  ASSUME NEW S, S \subseteq PRs, NEW q \in Orders(S)
  PROVE  /\ q \in Seq(S) /\ Range(q) = S
         /\ \A i, j \in 1..Len(q) : q[i] = q[j] => i = j
<1>1. Cardinality(S) \in Nat
  BY LiveSearchAssumption, FS_Subset, FS_CardinalityType
<1>2. q \in [1..Cardinality(S) -> S] /\ Range(q) = S BY DEF Orders
<1>3. q \in Seq(S) /\ Len(q) = Cardinality(S) BY <1>1, <1>2
<1>4. \A i, j \in 1..Len(q) : i < j => q[i] # q[j] BY <1>2, <1>3 DEF Orders
<1>5. ASSUME NEW i \in 1..Len(q), NEW j \in 1..Len(q), q[i] = q[j] PROVE i = j
  BY <1>1, <1>3, <1>4, <1>5
<1>. QED BY <1>2, <1>3, <1>5

LEMMA WritesType ==
  ASSUME TypeOK, NEW S, S \subseteq PRs, Writes(S)
  PROVE  fresh' \in Seq(PRs) /\ seen' \subseteq PRs
<1>1. PICK q \in Orders(S \ seen) : fresh' = fresh \o q /\ seen' = seen \cup S BY DEF Writes
<1>2. q \in Seq(PRs) BY OrderType, SeqMonotonic
<1>. QED BY <1>1, <1>2, ConcatProperties DEF TypeOK

LEMMA BegunType ==
  ASSUME fresh \in Seq(PRs), NEW ls \in Begun
  PROVE  ls \in Seq(PRs)
<1>1. PICK n \in 0..Len(fresh) : ls = SubSeq(fresh, 1, n) BY DEF Begun
<1>2. Len(fresh) \in Nat /\ \A i \in 1..n : fresh[i] \in PRs BY <1>1, LenProperties
<1>. QED BY <1>1, <1>2, SubSeqProperties

LEMMA ReadableType ==
  ASSUME NEW L, NEW f \in FileOf(L)
  PROVE  Readable(f) \subseteq L
BY RangeOfSeq DEF Readable, FileOf

LEMMA InitTypes == Init => TypeOK
<1>. SUFFICES ASSUME Init PROVE TypeOK OBVIOUS
<1>1. <<>> \in Seq(PRs \cup {Garbled}) /\ <<>> \in Seq(Line \cup {Garbled})
      /\ <<>> \in Seq(Window) /\ <<>> \in Seq(PRs)
  OBVIOUS
<1>2. 0 \in Time /\ Len(Labels) \in Nat BY LiveSearchAssumption, LenProperties DEF Time
<1>3. rows \in FileOf(PRs) /\ rows.torn # "line" BY <1>1 DEF Init, FileOf, Torn, EmptyFile
<1>4. log \in FileOf(Line) /\ log.torn # "line" BY <1>1 DEF Init, FileOf, Torn, EmptyFile
<1>5. args \in [end : Time, size : Nat] BY <1>2 DEF Init, NoArgs
<1>6. 0 \in 0..MaxRuns /\ 0 \in 0..MaxFaults /\ 0 \in 0..Len(Labels)
  BY <1>2, LiveSearchAssumption
<1>7. answer \in [total : Nat, whole : BOOLEAN] BY AnswerType DEF Init
<1>. QED BY <1>1, <1>2, <1>3, <1>4, <1>5, <1>6, <1>7 DEF Init, TypeOK

\* The process goes down: its memory has its type again.
LEMMA GoesDownType ==
  ASSUME TypeOK, GoesDown
  PROVE  /\ pc' \in {"down", "next", "flush", "log"} /\ pc' = "down"
         /\ args' \in [end : Time, size : Nat]
         /\ done' \subseteq Window /\ seen' \subseteq PRs
         /\ turn' \in 0..Len(Labels) /\ cur' \in Time
         /\ todo' \in Seq(Window) /\ fresh' \in Seq(PRs)
         /\ answer' \in [total : Nat, whole : BOOLEAN] /\ answer' = NoAnswer
<1>1. 0 \in Time /\ Len(Labels) \in Nat BY LiveSearchAssumption, LenProperties DEF Time
<1>. QED BY <1>1, AnswerType DEF GoesDown, NoArgs

LEMMA FaultCounted ==
  ASSUME TypeOK, NEW kind, Fault(kind)
  PROVE  faults' \in 0..MaxFaults
<1>1. faults \in 0..MaxFaults /\ MaxFaults \in Nat BY LiveSearchAssumption DEF TypeOK
<1>2. faults < MaxFaults /\ faults' = faults + 1 BY DEF Fault
<1>. QED BY <1>1, <1>2

LEMMA StepTypes == TypeOK /\ [Next]_vars => TypeOK'
<1>. SUFFICES ASSUME TypeOK, [Next]_vars PROVE TypeOK' OBVIOUS
<1>0. Good(rows, PRs) /\ Good(log, Line) BY DEF TypeOK, Good
<1>. DEFINE RowsOK == Good(rows', PRs)
            LogOK  == Good(log', Line)
<1>1. CASE StartRun
  <2>1. args' \in [end : Time, size : Nat]
    <3>1. Ends \subseteq Time /\ Sizes \subseteq Nat BY LiveSearchAssumption DEF Time
    <3>2. args' \in [end : Ends, size : Sizes] BY <1>1 DEF StartRun
    <3>. QED BY <3>1, <3>2
  <2>2. LoadDone \subseteq Window
    <3>1. Readable(log) \subseteq Line BY <1>0, ReadableType DEF Good
    <3>. QED BY <3>1 DEF LoadDone, Line
  <2>3. Readable(rows) \subseteq PRs BY <1>0, ReadableType DEF Good
  <2>4. 1 \in 0..Len(Labels) /\ 0 \in Time
    BY LiveSearchAssumption, EmptySeq DEF Time
  <2>5. runs' \in 0..MaxRuns BY <1>1, LiveSearchAssumption DEF StartRun, TypeOK
  <2>. QED BY <1>1, <2>1, <2>2, <2>3, <2>4, <2>5 DEF StartRun, TypeOK, files, history, told
<1>2. CASE NextWindow
  <2>. DEFINE w == NextOf(turn, cur, args)
  <2>1. turn \in 1..Len(Labels)
    BY <1>2, LenProperties, LiveSearchAssumption DEF NextWindow, Idle, TypeOK
  <2>2. w \in Window BY <1>2, <2>1, NextOfType DEF NextWindow, TypeOK
  <2>. HIDE DEF w
  <2>3. w.to \in Time /\ <<w>> \in Seq(Window) /\ <<>> \in Seq(Window) BY <2>2 DEF Window
  <2>4. cur' = w.to /\ todo' = (IF w \in done THEN <<>> ELSE <<w>>)
    BY <1>2 DEF NextWindow, w
  <2>5. pc = "next" BY <1>2 DEF NextWindow, Idle
  <2>. QED BY <1>2, <2>3, <2>4, <2>5 DEF NextWindow, TypeOK, files, history, told
<1>3. CASE NextQuery
  <2>1. turn' \in 0..Len(Labels) /\ turn' > 0 /\ 0 \in Time
    BY <1>3, LenProperties, LiveSearchAssumption DEF NextQuery, Time, TypeOK
  <2>. QED BY <1>3, <2>1 DEF NextQuery, TypeOK, files, history, told
<1>4. CASE SplitWindow
  <2>1. Head(todo) \in Window /\ Tail(todo) \in Seq(Window)
    BY <1>4, HeadTailProperties DEF SplitWindow, TypeOK
  <2>2. Halves(Head(todo)) \o Tail(todo) \in Seq(Window)
    BY <1>4, <2>1, HalvesType, ConcatProperties DEF SplitWindow
  <2>3. LogOK BY <1>0, <1>4, <2>1, LineType, WrittenType DEF SplitWindow
  <2>. QED BY <1>4, <2>2, <2>3 DEF SplitWindow, TypeOK, Good, memory, loops, history, told
<1>5. CASE SearchWindow
  <2>1. PICK S \in Fetched(Head(todo)) : Writes(S) BY <1>5 DEF SearchWindow
  <2>2. fresh' \in Seq(PRs) /\ seen' \subseteq PRs BY <2>1, FetchedIsHits, WritesType
  <2>3. answer' \in [total : Nat, whole : BOOLEAN]
    BY <1>5, AnswerType DEF SearchWindow, Answered
  <2>. QED BY <1>5, <2>2, <2>3 DEF SearchWindow, TypeOK, files, memory, loops, history, told
<1>6. CASE Flush
  <2>1. RowsOK BY <1>0, <1>6, WrittenType DEF Flush, TypeOK
  <2>2. <<>> \in Seq(PRs) OBVIOUS
  <2>. QED BY <1>6, <2>1, <2>2 DEF Flush, TypeOK, Good, memory, loops, history, told
<1>7. CASE LogDone
  <2>1. Head(todo) \in Window /\ Tail(todo) \in Seq(Window)
    BY <1>7, HeadTailProperties DEF LogDone, TypeOK
  <2>2. LogOK BY <1>0, <1>7, <2>1, LineType, WrittenType DEF LogDone
  <2>3. truncated' \subseteq Window /\ refused' \subseteq Window
    BY <1>7, <2>1 DEF LogDone, LogLine, Tell, TypeOK
  <2>4. answer' = NoAnswer BY <1>7 DEF LogDone
  <2>. QED BY <1>7, <2>1, <2>2, <2>3, <2>4, AnswerType DEF LogDone, TypeOK, Good, memory, loops
<1>8. CASE Finish
  <2>1. RowsOK BY <1>0, <1>8, WrittenType DEF Finish, TypeOK
  <2>2. finished' \subseteq Time BY <1>8 DEF Finish, TypeOK
  <2>3. GoesDown BY <1>8 DEF Finish
  <2>. QED BY <1>8, <2>1, <2>2, <2>3, GoesDownType DEF Finish, TypeOK, Good, told
<1>9. CASE Stop
  <2>1. PICK ls \in Begun : rows' = Written(rows, ls) BY <1>9 DEF Stop
  <2>2. RowsOK BY <1>0, <2>1, BegunType, WrittenType DEF TypeOK
  <2>3. faults' \in 0..MaxFaults BY <1>9, FaultCounted DEF Stop
  <2>4. GoesDown BY <1>9 DEF Stop
  <2>. QED BY <1>9, <2>2, <2>3, <2>4, GoesDownType DEF Stop, TypeOK, Good, history, told
<1>10. CASE TearRow
  <2>1. PICK ls \in Begun : \/ ls # fresh /\ rows' = Part(rows, ls)
                            \/ ls # <<>> /\ rows' = NoNewline(rows, ls)
    BY <1>10 DEF TearRow
  <2>2. ls \in Seq(PRs) BY BegunType DEF TypeOK
  <2>3. RowsOK BY <1>0, <2>1, <2>2, PartType, NoNewlineType
  <2>4. faults' \in 0..MaxFaults BY <1>10, FaultCounted DEF TearRow
  <2>5. GoesDown BY <1>10 DEF TearRow
  <2>. QED BY <1>10, <2>3, <2>4, <2>5, GoesDownType DEF TearRow, TypeOK, Good, told
<1>11. CASE TearLog
  <2>. DEFINE s == IF pc = "log" THEN "done" ELSE "split"
              l == LogLine(Head(todo), s)
  <2>1. Head(todo) \in Window BY <1>11, HeadTailProperties DEF TearLog, TypeOK
  <2>2. l \in Line /\ <<l>> \in Seq(Line) /\ l.window = Head(todo) BY <2>1, LineType DEF LogLine
  <2>3. \/ log' = Part(log, <<>>) /\ UNCHANGED told
        \/ log' = NoNewline(log, <<l>>) /\ Tell(l)
    BY <1>11 DEF TearLog
  <2>. HIDE DEF l
  <2>4. <<>> \in Seq(Line) /\ <<l>> # <<>> OBVIOUS
  <2>5. LogOK BY <1>0, <2>2, <2>3, <2>4, PartType, NoNewlineType
  <2>6. truncated' \subseteq Window /\ refused' \subseteq Window
    BY <2>1, <2>2, <2>3 DEF Tell, told, TypeOK
  <2>7. faults' \in 0..MaxFaults BY <1>11, FaultCounted DEF TearLog
  <2>8. GoesDown BY <1>11 DEF TearLog
  <2>. QED BY <1>11, <2>5, <2>6, <2>7, <2>8, GoesDownType DEF TearLog, TypeOK, Good
<1>12. CASE RefusedWindow
  <2>1. fresh' \in Seq(PRs) /\ seen' \subseteq PRs
    <3>1. CASE UNCHANGED <<fresh, seen>> BY <3>1 DEF TypeOK
    <3>2. CASE \E S \in Before(Head(todo)) : Writes(S) BY <3>2, FetchedIsHits, WritesType
    <3>. QED BY <1>12, <3>1, <3>2 DEF RefusedWindow
  <2>2. answer' \in [total : Nat, whole : BOOLEAN]
    <3>1. CASE answer' = [total |-> 0, whole |-> FALSE] BY <3>1
    <3>2. CASE answer' = [total |-> Cardinality(Hits(Head(todo))), whole |-> FALSE]
      BY <3>2, AnswerType
    <3>. QED BY <1>12, <3>1, <3>2 DEF RefusedWindow
  <2>3. faults' \in 0..MaxFaults BY <1>12, FaultCounted DEF RefusedWindow
  <2>. QED BY <1>12, <2>1, <2>2, <2>3 DEF RefusedWindow, TypeOK, files, memory, loops, history, told
<1>13. CASE UNCHANGED vars BY <1>13 DEF vars, loops, TypeOK
<1>. QED BY <1>1, <1>2, <1>3, <1>4, <1>5, <1>6, <1>7, <1>8, <1>9, <1>10, <1>11, <1>12, <1>13
         DEF Next, Step

\* Every variable of LiveSearch has its type in every reachable state.
THEOREM TypeCorrect == Spec => []TypeOK
<1>. QED BY InitTypes, StepTypes, PTL DEF Spec

(***************************************************************************)
(* What can be read of a file after a write.                               *)
(***************************************************************************)
Once(s) == \A i, j \in 1..Len(s) : s[i] = s[j] /\ s[i] # Garbled => i = j

LEMMA ConcatOnce ==
  ASSUME NEW M, NEW s \in Seq(M), NEW t \in Seq(M), Once(s), Once(t),
         Range(s) \cap Range(t) \subseteq {Garbled}
  PROVE  Once(s \o t)
<1>. DEFINE u == s \o t
            m == Len(s)
            n == Len(t)
<1>1. /\ m \in Nat /\ n \in Nat /\ Len(u) = m + n
      /\ \A i \in 1..(m + n) : u[i] = IF i <= m THEN s[i] ELSE t[i - m]
  BY ConcatProperties, LenProperties
<1>2. \A i \in 1..m : s[i] \in Range(s) BY RangeEquality
<1>3. \A i \in 1..n : t[i] \in Range(t) BY RangeEquality
<1>. HIDE DEF u
<1>4. ASSUME NEW i \in 1..(m + n), NEW j \in 1..(m + n), u[i] = u[j], u[i] # Garbled
      PROVE  i = j
  <2>1. CASE i <= m /\ j <= m
    <3>1. i \in 1..m /\ j \in 1..m /\ u[i] = s[i] /\ u[j] = s[j] BY <1>1, <2>1
    <3>. QED BY <1>4, <3>1 DEF Once
  <2>2. CASE i > m /\ j > m
    <3>1. i - m \in 1..n /\ j - m \in 1..n /\ u[i] = t[i - m] /\ u[j] = t[j - m]
      BY <1>1, <2>2
    <3>2. i - m = j - m BY <1>4, <3>1 DEF Once
    <3>. QED BY <1>1, <3>2
  <2>3. CASE i <= m /\ j > m
    <3>1. i \in 1..m /\ j - m \in 1..n /\ u[i] = s[i] /\ u[j] = t[j - m] BY <1>1, <2>3
    <3>. QED BY <1>2, <1>3, <1>4, <3>1
  <2>4. CASE i > m /\ j <= m
    <3>1. j \in 1..m /\ i - m \in 1..n /\ u[j] = s[j] /\ u[i] = t[i - m] BY <1>1, <2>4
    <3>. QED BY <1>2, <1>3, <1>4, <3>1
  <2>. QED BY <1>1, <2>1, <2>2, <2>3, <2>4
<1>. QED BY <1>1, <1>4 DEF Once, u

LEMMA Single ==
  ASSUME NEW M, NEW x \in M
  PROVE  <<x>> \in Seq(M) /\ Range(<<x>>) = {x} /\ Once(<<x>>)
<1>. DEFINE g == <<x>>
<1>1. g \in Seq(M) /\ Len(g) = 1 /\ g[1] = x OBVIOUS
<1>. HIDE DEF g
<1>2. Range(g) = {g[i] : i \in 1..1} BY <1>1, RangeEquality
<1>3. Once(g) BY <1>1 DEF Once
<1>. QED BY <1>1, <1>2, <1>3 DEF g

LEMMA SubSeqOnce ==
  ASSUME NEW M, NEW s \in Seq(M), Once(s), NEW a \in 1..(Len(s) + 1), NEW b \in 0..Len(s)
  PROVE  /\ SubSeq(s, a, b) \in Seq(M) /\ Once(SubSeq(s, a, b))
         /\ Range(SubSeq(s, a, b)) \subseteq Range(s)
<1>. DEFINE u == SubSeq(s, a, b)
<1>1. Len(s) \in Nat /\ \A i \in 1..Len(s) : s[i] \in M /\ s[i] \in Range(s)
  BY LenProperties, RangeEquality
<1>2. \A i \in a..b : s[i] \in M BY <1>1
<1>3. /\ u \in Seq(M) /\ Len(u) = (IF a <= b THEN b - a + 1 ELSE 0)
      /\ \A i \in 1..(b - a + 1) : u[i] = s[a + i - 1]
  BY <1>2, SubSeqProperties
<1>. HIDE DEF u
<1>4. \A i \in 1..Len(u) : a + i - 1 \in 1..Len(s) /\ u[i] = s[a + i - 1] BY <1>1, <1>3
<1>5. ASSUME NEW i \in 1..Len(u), NEW j \in 1..Len(u), u[i] = u[j], u[i] # Garbled
      PROVE  i = j
  <2>1. a + i - 1 = a + j - 1 BY <1>4, <1>5 DEF Once
  <2>. QED BY <2>1
<1>6. Range(u) = {u[i] : i \in 1..Len(u)} BY <1>3, RangeEquality
<1>. QED BY <1>1, <1>3, <1>4, <1>5, <1>6 DEF Once, u

LEMMA TailOnce ==
  ASSUME NEW M, NEW s \in Seq(M), Once(s), s # <<>>
  PROVE  Tail(s) \in Seq(M) /\ Once(Tail(s)) /\ Range(Tail(s)) \subseteq Range(s)
<1>1. Len(s) \in Nat \ {0} BY EmptySeq
<1>2. Tail(s) = SubSeq(s, 2, Len(s)) BY TailIsSubSeq
<1>3. 2 \in 1..(Len(s) + 1) /\ Len(s) \in 0..Len(s) BY <1>1
<1>4. /\ SubSeq(s, 2, Len(s)) \in Seq(M) /\ Once(SubSeq(s, 2, Len(s)))
      /\ Range(SubSeq(s, 2, Len(s))) \subseteq Range(s)
  BY <1>3, SubSeqOnce
<1>. QED BY <1>2, <1>4

LEMMA AllButLastRange ==
  ASSUME NEW M, NEW s \in Seq(M), s # <<>>
  PROVE  AllButLast(s) \in Seq(M) /\ Range(AllButLast(s)) \subseteq Range(s)
<1>. DEFINE u == AllButLast(s)
<1>1. Len(s) \in Nat \ {0} BY EmptySeq
<1>2. \A i \in 1..Len(s) : s[i] \in M /\ s[i] \in Range(s) BY ElementOfSeq, RangeEquality
<1>. DEFINE n == Len(s) - 1
<1>3. n \in Nat /\ \A i \in 1..n : s[i] \in M BY <1>1, <1>2
<1>4. u = SubSeq(s, 1, n) BY DEF AllButLast
<1>. HIDE DEF u, n
<1>5. u \in Seq(M) /\ Len(u) = n /\ \A i \in 1..n : u[i] = s[i]
  BY <1>3, <1>4, SubSeqProperties
<1>6. Range(u) = {u[i] : i \in 1..n} BY <1>5, RangeEquality
<1>. QED BY <1>1, <1>2, <1>5, <1>6 DEF u, n

LEMMA AllButLastOnce ==
  ASSUME NEW M, NEW s \in Seq(M), Once(s), s # <<>>
  PROVE  /\ AllButLast(s) \in Seq(M) /\ Once(AllButLast(s))
         /\ Range(AllButLast(s)) \subseteq Range(s)
<1>1. Len(s) \in Nat \ {0} BY EmptySeq
<1>. QED BY <1>1, SubSeqOnce DEF AllButLast

\* A line glued to the one before, and the rest of what is written after it.
LEMMA GluedOnce ==
  ASSUME NEW M, Garbled \in M, NEW s \in Seq(M), NEW t \in Seq(M), Once(s), Once(t),
         Range(s) \cap Range(t) \subseteq {Garbled}
  PROVE  /\ Once(s \o <<Garbled>> \o t)
         /\ Range(s \o <<Garbled>> \o t) \subseteq Range(s) \cup Range(t) \cup {Garbled}
<1>. DEFINE g == <<Garbled>>
<1>1. g \in Seq(M) /\ Once(g) /\ Range(g) = {Garbled} BY Single
<1>. HIDE DEF g
<1>3. s \o g \in Seq(M) /\ Range(s \o g) = Range(s) \cup {Garbled}
  BY <1>1, ConcatProperties, RangeConcatenation
<1>4. Once(s \o g) BY <1>1, ConcatOnce
<1>. DEFINE h == s \o g
<1>5. h \in Seq(M) /\ Once(h) /\ Range(h) = Range(s) \cup {Garbled} BY <1>3, <1>4
<1>. HIDE DEF h
<1>6. Range(h \o t) = Range(h) \cup Range(t) BY <1>5, RangeConcatenation
<1>7. Range(h) \cap Range(t) \subseteq {Garbled} BY <1>5
<1>8. Once(h \o t) BY <1>5, <1>7, ConcatOnce
<1>. QED BY <1>5, <1>6, <1>8 DEF g, h

LEMMA WrittenOnce ==
  ASSUME NEW L, NEW f, Good(f, L), Once(f.lines), NEW ls \in Seq(L), Once(ls),
         Range(ls) \cap Readable(f) = {}
  PROVE  /\ Once(Written(f, ls).lines)
         /\ Readable(Written(f, ls)) \subseteq Readable(f) \cup Range(ls)
<1>. DEFINE M == L \cup {Garbled}
<1>0. Garbled \in M OBVIOUS
<1>1. f.lines \in Seq(M) /\ ls \in Seq(M) BY SeqMonotonic DEF Good, FileOf
<1>2. Range(f.lines) \cap Range(ls) \subseteq {Garbled} BY DEF Readable
<1>. HIDE DEF M
<1>3. CASE ls = <<>> BY <1>3 DEF Written
<1>4. CASE ls # <<>> /\ f.torn = "no"
  <2>1. Written(f, ls) = [lines |-> f.lines \o ls, torn |-> "no"] BY <1>4 DEF Written
  <2>2. Once(f.lines \o ls) BY <1>1, <1>2, ConcatOnce
  <2>3. Range(f.lines \o ls) = Range(f.lines) \cup Range(ls) BY <1>1, RangeConcatenation
  <2>. QED BY <2>1, <2>2, <2>3 DEF Readable
<1>5. CASE ls # <<>> /\ f.torn = "part"
  <2>. DEFINE t == Tail(ls)
  <2>1. Written(f, ls) = [lines |-> f.lines \o <<Garbled>> \o t, torn |-> "no"]
    BY <1>5 DEF Written
  <2>2. t \in Seq(M) /\ Once(t) /\ Range(t) \subseteq Range(ls) BY <1>1, <1>5, TailOnce
  <2>. HIDE DEF t
  <2>3. Range(f.lines) \cap Range(t) \subseteq {Garbled} BY <1>2, <2>2
  <2>4. /\ Once(f.lines \o <<Garbled>> \o t)
        /\ Range(f.lines \o <<Garbled>> \o t) \subseteq Range(f.lines) \cup Range(t) \cup {Garbled}
    BY <1>0, <1>1, <2>2, <2>3, GluedOnce
  <2>. QED BY <2>1, <2>2, <2>4 DEF Readable
<1>6. CASE ls # <<>> /\ f.torn = "line"
  <2>. DEFINE g == AllButLast(f.lines)
              t == Tail(ls)
  <2>1. Written(f, ls) = [lines |-> g \o <<Garbled>> \o t, torn |-> "no"]
    BY <1>6 DEF Written
  <2>2. t \in Seq(M) /\ Once(t) /\ Range(t) \subseteq Range(ls) BY <1>1, <1>6, TailOnce
  <2>3. f.lines # <<>> BY <1>6 DEF Good
  <2>4. g \in Seq(M) /\ Once(g) /\ Range(g) \subseteq Range(f.lines)
    BY <1>1, <2>3, AllButLastOnce
  <2>. HIDE DEF g, t
  <2>5. Range(g) \cap Range(t) \subseteq {Garbled} BY <1>2, <2>2, <2>4
  <2>6. /\ Once(g \o <<Garbled>> \o t)
        /\ Range(g \o <<Garbled>> \o t) \subseteq Range(g) \cup Range(t) \cup {Garbled}
    BY <1>0, <2>2, <2>4, <2>5, GluedOnce
  <2>. QED BY <2>1, <2>2, <2>4, <2>6 DEF Readable
<1>. QED BY <1>3, <1>4, <1>5, <1>6 DEF Good, FileOf, Torn

LEMMA PartOnce ==
  ASSUME NEW L, NEW f, Good(f, L), Once(f.lines), NEW ls \in Seq(L), Once(ls),
         Range(ls) \cap Readable(f) = {}
  PROVE  Once(Part(f, ls).lines)
<1>. DEFINE g == Written(f, ls)
<1>1. Once(g.lines) BY WrittenOnce
<1>2. Good(g, L) BY WrittenType
<1>. HIDE DEF g
<1>3. g.torn = "line" => Once(AllButLast(g.lines))
  BY <1>1, <1>2, AllButLastOnce DEF Good, FileOf
<1>. QED BY <1>1, <1>3 DEF Part, g

LEMMA NoNewlineOnce ==
  ASSUME NEW L, NEW f, Good(f, L), Once(f.lines), NEW ls \in Seq(L), Once(ls), ls # <<>>,
         Range(ls) \cap Readable(f) = {}
  PROVE  Once(NoNewline(f, ls).lines)
<1>1. Once(Written(f, ls).lines) BY WrittenOnce
<1>2. Written(f, ls) \in FileOf(L) BY WrittenLines
<1>3. NoNewline(f, ls).lines = Written(f, ls).lines BY <1>2 DEF NoNewline, FileOf
<1>. QED BY <1>1, <1>3

(***************************************************************************)
(* No row twice.  What keeps the rows apart is seen_pr_keys: while a run   *)
(* goes on it holds all that can be read and all that is still to be       *)
(* flushed.  It may hold more: a row that a line was glued to.             *)
(***************************************************************************)
OInv ==
  /\ Once(rows.lines)
  /\ \A i, j \in 1..Len(fresh) : fresh[i] = fresh[j] => i = j
  /\ Range(fresh) \cap Readable(rows) = {}
  /\ pc # "down" => Readable(rows) \cup Range(fresh) \subseteq seen
  /\ pc = "down" => fresh = <<>>

LEMMA EmptyFresh ==
  /\ Range(<<>>) = {} /\ Len(<<>>) = 0 /\ Once(<<>>)
BY EmptySeq DEF Range, Once

LEMMA FreshOnce ==
  ASSUME TypeOK, OInv, NEW ls \in Begun \cup {fresh}
  PROVE  ls \in Seq(PRs) /\ Once(ls) /\ Range(ls) \cap Readable(rows) = {}
<1>1. fresh \in Seq(PRs) /\ Once(fresh) BY DEF TypeOK, OInv, Once
<1>2. CASE ls = fresh BY <1>1, <1>2 DEF OInv
<1>3. CASE ls \in Begun
  <2>1. PICK n \in 0..Len(fresh) : ls = SubSeq(fresh, 1, n) BY <1>3 DEF Begun
  <2>2. 1 \in 1..(Len(fresh) + 1) BY <1>1, LenProperties
  <2>3. ls \in Seq(PRs) /\ Once(ls) /\ Range(ls) \subseteq Range(fresh)
    BY <1>1, <2>1, <2>2, SubSeqOnce
  <2>. QED BY <2>3 DEF OInv
<1>. QED BY <1>2, <1>3

\* A run that ends leaves what it wrote.
LEMMA DownOnce ==
  ASSUME GoesDown, Once(rows.lines)'
  PROVE  OInv'
BY EmptyFresh DEF GoesDown, OInv

LEMMA InitOnce == Init => OInv
<1>. SUFFICES ASSUME Init PROVE OInv OBVIOUS
<1>1. rows.lines = <<>> /\ fresh = <<>> /\ pc = "down" BY DEF Init, EmptyFile
<1>. QED BY <1>1, EmptyFresh DEF OInv

\* What was found is written once, and not what is on disk.
LEMMA WritesOnce ==
  ASSUME TypeOK, OInv, NEW S, S \subseteq PRs, Writes(S), pc # "down", pc' # "down",
         rows' = rows
  PROVE  OInv'
<1>1. PICK q \in Orders(S \ seen) : fresh' = fresh \o q /\ seen' = seen \cup S BY DEF Writes
<1>2. /\ q \in Seq(PRs) /\ Range(q) = S \ seen
      /\ \A i, j \in 1..Len(q) : q[i] = q[j] => i = j
  BY OrderType, SeqMonotonic
<1>3. fresh \in Seq(PRs) /\ Readable(rows) \cup Range(fresh) \subseteq seen
  BY DEF TypeOK, OInv
<1>4. Range(fresh') = Range(fresh) \cup (S \ seen) BY <1>1, <1>2, <1>3, RangeConcatenation
<1>5. Once(fresh) /\ Once(q) /\ Range(fresh) \cap Range(q) \subseteq {Garbled}
  BY <1>2, <1>3 DEF OInv, Once
<1>6. Once(fresh \o q) /\ fresh \o q \in Seq(PRs)
  BY <1>2, <1>3, <1>5, ConcatOnce, ConcatProperties
<1>7. \A i \in 1..Len(fresh') : fresh'[i] # Garbled
  BY <1>1, <1>6, ElementOfSeq, LiveSearchAssumption
<1>8. \A i, j \in 1..Len(fresh') : fresh'[i] = fresh'[j] => i = j BY <1>1, <1>6, <1>7 DEF Once
<1>9. Readable(rows)' = Readable(rows) /\ Once(rows.lines)' BY DEF OInv, Once, Readable
<1>. QED BY <1>1, <1>3, <1>4, <1>8, <1>9 DEF OInv

LEMMA StepOnce == TypeOK /\ OInv /\ [Next]_vars => OInv'
<1>. SUFFICES ASSUME TypeOK, OInv, [Next]_vars PROVE OInv' OBVIOUS
<1>0. Good(rows, PRs) BY DEF TypeOK, Good
<1>1. CASE StartRun BY <1>1, EmptyFresh DEF StartRun, OInv, Once, files, history
<1>2. CASE NextWindow BY <1>2 DEF NextWindow, Idle, OInv, Once, files, history
<1>3. CASE NextQuery BY <1>3 DEF NextQuery, Idle, OInv, Once, files, history
<1>4. CASE SplitWindow BY <1>4 DEF SplitWindow, OInv, Once, memory, history
<1>5. CASE SearchWindow
  <2>1. PICK S \in Fetched(Head(todo)) : Writes(S) BY <1>5 DEF SearchWindow
  <2>2. pc = "next" /\ rows' = rows /\ pc' = "flush" BY <1>5 DEF SearchWindow, files
  <2>. QED BY <2>1, <2>2, FetchedIsHits, WritesOnce
<1>6. CASE Flush
  <2>1. rows' = Written(rows, fresh) /\ fresh' = <<>> /\ pc = "flush" /\ pc' = "log"
        /\ seen' = seen
    BY <1>6 DEF Flush, memory
  <2>2. /\ Once(Written(rows, fresh).lines)
        /\ Readable(Written(rows, fresh)) \subseteq Readable(rows) \cup Range(fresh)
    BY <1>0, FreshOnce, WrittenOnce DEF OInv
  <2>3. Readable(rows)' = Readable(Written(rows, fresh)) BY <2>1 DEF Readable
  <2>. QED BY <2>1, <2>2, <2>3, EmptyFresh DEF OInv
<1>7. CASE LogDone BY <1>7 DEF LogDone, OInv, Once, memory
<1>8. CASE Finish
  <2>1. Once(Written(rows, fresh).lines) BY <1>0, FreshOnce, WrittenOnce DEF OInv
  <2>. QED BY <1>8, <2>1, DownOnce DEF Finish
<1>9. CASE Stop
  <2>1. PICK ls \in Begun : rows' = Written(rows, ls) BY <1>9 DEF Stop
  <2>2. Once(Written(rows, ls).lines) BY <1>0, FreshOnce, WrittenOnce DEF OInv
  <2>. QED BY <1>9, <2>1, <2>2, DownOnce DEF Stop
<1>10. CASE TearRow
  <2>1. PICK ls \in Begun : \/ ls # fresh /\ rows' = Part(rows, ls)
                            \/ ls # <<>> /\ rows' = NoNewline(rows, ls)
    BY <1>10 DEF TearRow
  <2>2. ls \in Seq(PRs) /\ Once(ls) /\ Range(ls) \cap Readable(rows) = {} BY FreshOnce
  <2>3. Once(Part(rows, ls).lines) BY <1>0, <2>2, PartOnce DEF OInv
  <2>4. ls # <<>> => Once(NoNewline(rows, ls).lines)
    BY <1>0, <2>2, NoNewlineOnce DEF OInv
  <2>. QED BY <1>10, <2>1, <2>3, <2>4, DownOnce DEF TearRow
<1>11. CASE TearLog BY <1>11, DownOnce DEF TearLog, OInv
<1>12. CASE RefusedWindow
  <2>1. pc = "next" /\ rows' = rows /\ pc' = "flush" BY <1>12 DEF RefusedWindow, files
  <2>2. CASE UNCHANGED <<fresh, seen>> BY <2>1, <2>2 DEF OInv, Once, Readable
  <2>3. CASE \E S \in Before(Head(todo)) : Writes(S) BY <2>1, <2>3, FetchedIsHits, WritesOnce
  <2>. QED BY <1>12, <2>2, <2>3 DEF RefusedWindow
<1>13. CASE UNCHANGED vars BY <1>13 DEF vars, OInv, Once
<1>. QED BY <1>1, <1>2, <1>3, <1>4, <1>5, <1>6, <1>7, <1>8, <1>9, <1>10, <1>11, <1>12, <1>13
         DEF Next, Step

\* However runs are stopped, torn and resumed, whatever queries and windows find
\* it again, no pull request has two rows that can be read.
THEOREM RowsAreUnique == Spec => []NoRowTwice
<1>1. OInv => NoRowTwice BY DEF OInv, Once, NoRowTwice
<1>. QED BY <1>1, InitTypes, StepTypes, InitOnce, StepOnce, PTL DEF Spec

(***************************************************************************)
(* Nothing lost, as long as no process is killed within a row.             *)
(***************************************************************************)
\* All of a file that is not torn can be read after a write, and what is written.
LEMMA WrittenWhole ==
  ASSUME NEW f, Good(f, PRs), f.torn = "no", NEW ls \in Seq(PRs)
  PROVE  /\ Written(f, ls).torn = "no"
         /\ Readable(Written(f, ls)) = Readable(f) \cup Range(ls)
<1>1. f.lines \in Seq(PRs \cup {Garbled}) /\ ls \in Seq(PRs \cup {Garbled})
  BY SeqMonotonic DEF Good, FileOf
<1>2. Garbled \notin Range(ls) BY RangeOfSeq, LiveSearchAssumption
<1>3. CASE ls = <<>> BY <1>3, EmptyFresh DEF Written
<1>4. CASE ls # <<>>
  <2>1. Written(f, ls) = [lines |-> f.lines \o ls, torn |-> "no"] BY <1>4 DEF Written
  <2>2. Range(f.lines \o ls) = Range(f.lines) \cup Range(ls) BY <1>1, RangeConcatenation
  <2>. QED BY <1>2, <2>1, <2>2 DEF Readable
<1>. QED BY <1>3, <1>4

\* A line of the log adds nothing but itself, and a torn one not more.
LEMMA LoggedLines ==
  ASSUME NEW f, Good(f, Line), NEW l \in Line
  PROVE  /\ Readable(Written(f, <<l>>)) \subseteq Readable(f) \cup {l}
         /\ Readable(NoNewline(f, <<l>>)) \subseteq Readable(f) \cup {l}
         /\ Readable(Part(f, <<>>)) \subseteq Readable(f)
<1>. DEFINE ls == <<l>>
            g  == <<Garbled>>
            M  == Line \cup {Garbled}
<1>1. ls \in Seq(Line) /\ ls # <<>> OBVIOUS
<1>2. Range(ls) = {l} BY Single
<1>3. Tail(ls) = <<>> OBVIOUS
<1>4. g \in Seq(M) /\ Range(g) = {Garbled} BY Single
<1>. HIDE DEF ls, g
<1>5. f.lines \in Seq(M) /\ ls \in Seq(M) BY <1>1, SeqMonotonic DEF Good, FileOf
<1>6. f.torn = "line" =>
        AllButLast(f.lines) \in Seq(M) /\ Range(AllButLast(f.lines)) \subseteq Range(f.lines)
  BY <1>5, AllButLastRange DEF Good
<1>7. Readable(Written(f, ls)) \subseteq Readable(f) \cup {l}
  <2>1. CASE f.torn = "no"
    <3>1. Written(f, ls).lines = f.lines \o ls BY <1>1, <2>1 DEF Written
    <3>2. Range(f.lines \o ls) = Range(f.lines) \cup Range(ls) BY <1>5, RangeConcatenation
    <3>. QED BY <1>2, <3>1, <3>2 DEF Readable
  <2>2. CASE f.torn = "part"
    <3>1. Written(f, ls).lines = f.lines \o g \o <<>> BY <1>1, <1>3, <2>2 DEF Written, g
    <3>2. /\ f.lines \o g \in Seq(M)
          /\ Range(f.lines \o g) = Range(f.lines) \cup {Garbled}
      BY <1>4, <1>5, ConcatProperties, RangeConcatenation
    <3>3. f.lines \o g \o <<>> = f.lines \o g BY <3>2, ConcatEmptySeq
    <3>. QED BY <3>1, <3>2, <3>3 DEF Readable
  <2>3. CASE f.torn = "line"
    <3>. DEFINE u == AllButLast(f.lines)
    <3>1. Written(f, ls).lines = u \o g \o <<>> BY <1>1, <1>3, <2>3 DEF Written, g
    <3>2. u \in Seq(M) /\ Range(u) \subseteq Range(f.lines) BY <1>6, <2>3
    <3>. HIDE DEF u
    <3>3. u \o g \in Seq(M) /\ Range(u \o g) = Range(u) \cup {Garbled}
      BY <1>4, <3>2, ConcatProperties, RangeConcatenation
    <3>4. u \o g \o <<>> = u \o g BY <3>3, ConcatEmptySeq
    <3>. QED BY <3>1, <3>2, <3>3, <3>4 DEF Readable
  <2>. QED BY <2>1, <2>2, <2>3 DEF Good, FileOf, Torn
<1>8. NoNewline(f, ls).lines = Written(f, ls).lines
  BY <1>1, WrittenLines DEF NoNewline, FileOf
<1>9. Readable(Part(f, <<>>)) \subseteq Readable(f)
  BY <1>6 DEF Part, Written, Readable
<1>. QED BY <1>7, <1>8, <1>9 DEF Readable, ls

\* A pull request a run has done with: its row is there, or a window it is in was
\* truncated or refused.
Settled(p) == p \in Readable(rows) \/ \E w \in truncated \cup refused : p \in Hits(w)
\* What main's loops have passed, at its k-th query.
Passed(p, k) ==
  \/ k < turn /\ created[p] <= args.end
  \/ k = turn /\ cur > 0 /\ created[p] <= cur
InHand(p) == \E w \in Range(todo) : p \in Hits(w)

LogSays == \A l \in Readable(log) :
  l.status = "done" => IF l.floor THEN l.window \in truncated
                       ELSE l.window \in refused \/ Hits(l.window) \subseteq Readable(rows)
DoneHolds == \A w \in done : \A p \in Hits(w) : Settled(p)
Holds ==
  /\ args.end > 0
  /\ seen \subseteq Readable(rows) \cup Range(fresh)
  /\ pc \in {"next", "log"} => fresh = <<>>
  /\ pc \in {"flush", "log"} =>
       LogLine(Head(todo), "done").floor \/ ~answer.whole \/ Hits(Head(todo)) \subseteq seen
  /\ DoneHolds
  /\ \A p \in PRs, k \in 1..Len(Labels) :
       Labels[k] \in Matches[p] /\ Passed(p, k) => Settled(p) \/ InHand(p)

(***************************************************************************)
(* The windows main's loops have passed are settled or in hand.  The log   *)
(* is not enough to say so of the windows that were skipped, whose lines   *)
(* may be glued to after this run has read them: DoneHolds.                *)
(***************************************************************************)
FInv ==
  ~rowTorn =>
    /\ rows.torn = "no" /\ LogSays
    /\ pc # "down" => Holds
    /\ \A end \in finished, p \in PRs :
         Matches[p] # {} /\ created[p] <= end => Settled(p)

\* What the history has told is not taken back.
ToldStays == truncated \subseteq truncated' /\ refused \subseteq refused'

LEMMA StaysSettled ==
  ASSUME UNCHANGED created, Readable(rows) \subseteq Readable(rows)',
         ToldStays, NEW p, Settled(p)
  PROVE  Settled(p)'
BY DEF Settled, Hits, ToldStays

LEMMA LogStaysTrue ==
  ASSUME TypeOK, LogSays, UNCHANGED created, Readable(rows) \subseteq Readable(rows)',
         ToldStays, Readable(log)' \subseteq Readable(log)
  PROVE  LogSays'
BY DEF LogSays, Hits, ToldStays

LEMMA FinishedStays ==
  ASSUME TypeOK, FInv, ~rowTorn, UNCHANGED created, Readable(rows) \subseteq Readable(rows)',
         ToldStays, NEW end \in finished, NEW p \in PRs,
         Matches[p] # {}, created'[p] <= end
  PROVE  Settled(p)'
BY StaysSettled DEF FInv

LEMMA InitFound == Init => FInv
<1>. SUFFICES ASSUME Init PROVE FInv OBVIOUS
<1>1. log.lines = <<>> /\ rows.torn = "no" /\ pc = "down" /\ finished = {}
  BY DEF Init, EmptyFile
<1>2. Readable(log) = {} BY <1>1, EmptyFresh DEF Readable
<1>. QED BY <1>1, <1>2 DEF FInv, LogSays

LEMMA HalvesHits ==
  ASSUME TypeOK, NEW w \in Window, Splits(w), NEW p \in Hits(w)
  PROVE  \E h \in Range(Halves(w)) : p \in Hits(h)
<1>. DEFINE mid == w.from + (w.to - w.from) \div 2
            h1  == [w EXCEPT !.to = mid]
            h2  == [w EXCEPT !.from = mid]
            hs  == << h1, h2 >>
<1>1. w.from \in Nat /\ w.to \in Nat BY DEF Window, Time
<1>2. p \in PRs /\ created[p] \in Nat /\ created[p] \in w.from..w.to /\ w.label \in Matches[p]
  BY DEF Hits, TypeOK, Time
<1>3. mid \in Int BY <1>1
<1>4. Halves(w) = hs BY DEF Halves
<1>. HIDE DEF mid
<1>5. /\ h1.label = w.label /\ h1.from = w.from /\ h1.to = mid
      /\ h2.label = w.label /\ h2.from = mid /\ h2.to = w.to
  BY DEF Window
<1>. HIDE DEF h1, h2
<1>6. p \in Hits(h1) \/ p \in Hits(h2) BY <1>1, <1>2, <1>3, <1>5 DEF Hits
<1>7. hs \in Seq({h1, h2}) /\ Len(hs) = 2 /\ hs[1] = h1 /\ hs[2] = h2 OBVIOUS
<1>. HIDE DEF hs
<1>8. h1 \in Range(hs) /\ h2 \in Range(hs) BY <1>7, RangeEquality
<1>. QED BY <1>4, <1>6, <1>8

\* The first window in hand and the others.
LEMMA HeadAndTail ==
  ASSUME TypeOK, todo # <<>>
  PROVE  /\ Head(todo) \in Window /\ Tail(todo) \in Seq(Window)
         /\ Range(todo) = {Head(todo)} \cup Range(Tail(todo))
<1>1. todo \in Seq(Window) BY DEF TypeOK
<1>2. /\ Head(todo) \in Window /\ Tail(todo) \in Seq(Window)
      /\ Len(Tail(todo)) = Len(todo) - 1
      /\ \A i \in 1..Len(Tail(todo)) : Tail(todo)[i] = todo[i + 1]
  BY <1>1, HeadTailProperties
<1>3. Len(todo) \in Nat \ {0} /\ Head(todo) = todo[1] BY <1>1, EmptySeq
<1>. DEFINE t == Tail(todo)
<1>4. Range(todo) = {todo[i] : i \in 1..Len(todo)} /\ Range(t) = {t[i] : i \in 1..Len(t)}
  BY <1>1, <1>2, RangeEquality
<1>5. Len(t) = Len(todo) - 1 /\ \A i \in 1..Len(t) : t[i] = todo[i + 1] BY <1>2
<1>. HIDE DEF t
<1>6. Range(t) \subseteq Range(todo) BY <1>3, <1>4, <1>5
<1>7. ASSUME NEW i \in 1..Len(todo), i # 1 PROVE todo[i] \in Range(t)
  <2>1. i - 1 \in 1..Len(t) /\ t[i - 1] = todo[i] BY <1>3, <1>5, <1>7
  <2>. QED BY <1>4, <2>1
<1>. QED BY <1>2, <1>3, <1>4, <1>6, <1>7 DEF t

\* main's loops go on: the next window is in hand, or was done before.
LEMMA WindowTaken ==
  ASSUME TypeOK, Holds, NextWindow
  PROVE  Holds'
<1>. PICK w : w = NextOf(turn, cur, args) OBVIOUS
<1>0. pc = "next" /\ todo = <<>> /\ cur < args.end BY DEF NextWindow, Idle
<1>1. /\ UNCHANGED <<created, rows, truncated, refused, args, done, seen, turn, fresh, pc>>
      /\ cur' = w.to /\ todo' = (IF w \in done THEN <<>> ELSE <<w>>)
  BY DEF NextWindow, files, history, told
<1>2. turn \in 1..Len(Labels) BY <1>0, LenProperties, LiveSearchAssumption DEF TypeOK
<1>3. w \in Window /\ w.label = Labels[turn] /\ w.from = cur
  BY <1>0, <1>2, NextOfType DEF TypeOK, NextOf
<1>4. w \notin done => w \in Range(todo')
  BY <1>1, Single
<1>5. \A p : Settled(p) => Settled(p)' BY <1>1 DEF Settled, Hits, Readable
<1>6. Range(todo) = {} BY <1>0, EmptyFresh
<1>7. ASSUME NEW p \in PRs, NEW k \in 1..Len(Labels), Labels[k] \in Matches[p], Passed(p, k)'
      PROVE  Settled(p)' \/ InHand(p)'
  <2>1. CASE Passed(p, k)
    <3>1. Settled(p) BY <1>6, <1>7, <2>1 DEF Holds, InHand
    <3>. QED BY <1>5, <3>1
  <2>2. CASE ~Passed(p, k)
    <3>1. k = turn /\ created[p] <= w.to /\ (cur > 0 => created[p] > cur)
      BY <1>1, <1>2, <1>3, <1>7, <2>2 DEF Passed, TypeOK, Time, Window
    <3>2. created[p] \in w.from..w.to
      BY <1>3, <3>1 DEF TypeOK, Time, Window
    <3>3. p \in Hits(w) BY <1>3, <1>7, <3>1, <3>2 DEF Hits
    <3>4. CASE w \in done
      <4>1. Settled(p) BY <3>3, <3>4 DEF Holds, DoneHolds
      <4>. QED BY <1>5, <4>1
    <3>5. CASE w \notin done
      <4>1. Hits(w)' = Hits(w) BY <1>1 DEF Hits
      <4>. QED BY <1>4, <3>3, <3>5, <4>1 DEF InHand
    <3>. QED BY <3>4, <3>5
  <2>. QED BY <2>1, <2>2
<1>8. DoneHolds' BY <1>1, <1>5 DEF Holds, DoneHolds, Hits
<1>9. pc' = "next" /\ Readable(rows)' = Readable(rows) BY <1>0, <1>1 DEF Readable
<1>. QED BY <1>0, <1>1, <1>7, <1>8, <1>9 DEF Holds

LEMMA QueryTaken ==
  ASSUME TypeOK, Holds, NextQuery
  PROVE  Holds'
<1>0. pc = "next" /\ todo = <<>> /\ cur >= args.end BY DEF NextQuery, Idle
<1>1. /\ UNCHANGED <<created, rows, truncated, refused, args, done, seen, todo, fresh, pc>>
      /\ cur' = 0 /\ turn' = turn + 1
  BY DEF NextQuery, files, history, told
<1>2. \A p : (Settled(p) <=> Settled(p)') /\ (InHand(p) <=> InHand(p)')
  BY <1>1 DEF Settled, InHand, Hits, Readable
<1>3. ASSUME NEW p \in PRs, NEW k \in 1..Len(Labels), Passed(p, k)' PROVE Passed(p, k)
  <2>1. k < turn + 1 /\ created[p] <= args.end BY <1>1, <1>3 DEF Passed, TypeOK
  <2>2. created[p] \in Nat /\ args.end \in Nat /\ cur \in Nat /\ turn \in Nat
    BY LenProperties, LiveSearchAssumption DEF TypeOK, Time
  <2>. QED BY <1>0, <2>1, <2>2 DEF Passed, Holds
<1>4. DoneHolds' BY <1>1, <1>2 DEF Holds, DoneHolds, Hits
<1>5. pc' = "next" /\ Readable(rows)' = Readable(rows) BY <1>0, <1>1 DEF Readable
<1>. QED BY <1>0, <1>1, <1>2, <1>3, <1>4, <1>5 DEF Holds

\* The recursion's halves find all the window they came from finds.
LEMMA WindowHalved ==
  ASSUME TypeOK, Holds, LogSays, SplitWindow
  PROVE  Holds' /\ LogSays'
<1>0. pc = "next" /\ todo # <<>> /\ Splits(Head(todo)) BY DEF SplitWindow
<1>1. /\ UNCHANGED <<created, rows, truncated, refused, args, done, seen, turn, cur, fresh, pc>>
      /\ log' = Written(log, <<LogLine(Head(todo), "split")>>)
      /\ todo' = Halves(Head(todo)) \o Tail(todo)
  BY DEF SplitWindow, memory, loops, history, told
<1>2. /\ Head(todo) \in Window /\ Tail(todo) \in Seq(Window)
      /\ Range(todo) = {Head(todo)} \cup Range(Tail(todo))
  BY <1>0, HeadAndTail
<1>3. Range(todo') = Range(Halves(Head(todo))) \cup Range(Tail(todo))
  BY <1>0, <1>1, <1>2, HalvesType, RangeConcatenation
<1>4. \A p : (Settled(p) <=> Settled(p)') BY <1>1 DEF Settled, Hits, Readable
<1>5. \A p, w : (p \in Hits(w)) <=> (p \in Hits(w))' BY <1>1 DEF Hits
<1>6. ASSUME NEW p, InHand(p) PROVE InHand(p)'
  <2>1. PICK w \in Range(todo) : p \in Hits(w) BY <1>6 DEF InHand
  <2>2. CASE w \in Range(Tail(todo)) BY <1>3, <1>5, <2>1, <2>2 DEF InHand
  <2>3. CASE w = Head(todo)
    <3>1. \E h \in Range(Halves(w)) : p \in Hits(h) BY <1>0, <1>2, <2>1, <2>3, HalvesHits
    <3>. QED BY <1>3, <1>5, <2>3, <3>1 DEF InHand
  <2>. QED BY <1>2, <2>1, <2>2, <2>3
<1>7. \A p, k : Passed(p, k)' => Passed(p, k) BY <1>1 DEF Passed
<1>8. DoneHolds' BY <1>1, <1>4 DEF Holds, DoneHolds, Hits
<1>9. Holds' BY <1>0, <1>1, <1>4, <1>6, <1>7, <1>8 DEF Holds, Readable
<1>10. LogSays'
  <2>. DEFINE s == LogLine(Head(todo), "split")
  <2>1. s \in Line /\ s.status # "done" BY <1>2, LineType DEF LogLine
  <2>. HIDE DEF s
  <2>2. Good(log, Line) BY DEF Good, TypeOK
  <2>3. log' = Written(log, <<s>>) BY <1>1 DEF s
  <2>4. Readable(Written(log, <<s>>)) \subseteq Readable(log) \cup {s} BY <2>1, <2>2, LoggedLines
  <2>5. \A l \in Readable(log)' : l.status = "done" => l \in Readable(log)
    BY <2>1, <2>3, <2>4 DEF Readable
  <2>6. \A l : Hits(l.window)' = Hits(l.window) BY <1>1 DEF Hits
  <2>7. Readable(rows)' = Readable(rows) /\ truncated' = truncated /\ refused' = refused
    BY <1>1 DEF Readable
  <2>. QED BY <2>5, <2>6, <2>7 DEF LogSays
<1>. QED BY <1>9, <1>10

\* What a search leaves in hand, when its window is known or excused.
LEMMA WindowAnswered ==
  ASSUME TypeOK, Holds, pc = "next", pc' = "flush",
         UNCHANGED <<created, rows, truncated, refused, args, done, turn, cur, todo>>,
         seen' \subseteq Readable(rows) \cup Range(fresh'),
         LogLine(Head(todo), "done").floor' \/ ~answer'.whole \/ Hits(Head(todo)) \subseteq seen'
  PROVE  Holds'
<1>1. Hits(Head(todo))' = Hits(Head(todo)) /\ Readable(rows)' = Readable(rows)
  BY DEF Hits, Readable
<1>2. \A p : (Settled(p) <=> Settled(p)') /\ (InHand(p) <=> InHand(p)')
  BY DEF Settled, InHand, Hits, Readable
<1>3. \A p, k : Passed(p, k)' => Passed(p, k) BY DEF Passed
<1>4. DoneHolds' BY <1>2 DEF Holds, DoneHolds, Hits
<1>. QED BY <1>1, <1>2, <1>3, <1>4 DEF Holds

LEMMA WritesSeen ==
  ASSUME TypeOK, Holds, NEW S, S \subseteq PRs, Writes(S)
  PROVE  seen' = seen \cup S /\ seen' \subseteq Readable(rows) \cup Range(fresh')
<1>1. PICK q \in Orders(S \ seen) : fresh' = fresh \o q /\ seen' = seen \cup S BY DEF Writes
<1>2. q \in Seq(PRs) /\ Range(q) = S \ seen BY OrderType, SeqMonotonic
<1>3. fresh \in Seq(PRs) BY DEF TypeOK
<1>4. Range(fresh') = Range(fresh) \cup (S \ seen) BY <1>1, <1>2, <1>3, RangeConcatenation
<1>. QED BY <1>1, <1>4 DEF Holds

\* All of the window is known, or it is at the floor.
LEMMA WindowSearched ==
  ASSUME TypeOK, Holds, SearchWindow
  PROVE  Holds'
<1>0. /\ pc = "next" /\ pc' = "flush" /\ todo # <<>> /\ ~Splits(Head(todo))
      /\ answer' = [total |-> Cardinality(Hits(Head(todo))), whole |-> TRUE]
  BY DEF SearchWindow, Answered
<1>1. UNCHANGED <<created, rows, truncated, refused, args, done, turn, cur, todo>>
  BY DEF SearchWindow, files, memory, loops, history, told
<1>2. PICK S \in Fetched(Head(todo)) : Writes(S) BY DEF SearchWindow
<1>3. seen' = seen \cup S /\ seen' \subseteq Readable(rows) \cup Range(fresh')
  BY <1>2, FetchedIsHits, WritesSeen
<1>4. LogLine(Head(todo), "done").floor' \/ Hits(Head(todo)) \subseteq seen'
  <2>1. CASE ~Saturated(Head(todo))
    <3>1. S = Hits(Head(todo)) BY <1>2, <2>1 DEF Fetched
    <3>. QED BY <1>3, <3>1
  <2>2. CASE Saturated(Head(todo))
    <3>1. Head(todo) \in Window BY <1>0, HeadAndTail
    <3>2. Head(todo).to - Head(todo).from <= Floor
      BY <1>0, <2>2, <3>1, LiveSearchAssumption DEF Splits, Window, Time
    <3>. QED BY <1>0, <1>1, <2>2, <3>2 DEF LogLine, Saturated
  <2>. QED BY <2>1, <2>2
<1>. QED BY <1>0, <1>1, <1>3, <1>4, WindowAnswered

\* A page of the window was refused, and the history will say so.
LEMMA WindowRefused ==
  ASSUME TypeOK, Holds, RefusedWindow
  PROVE  Holds'
<1>1. pc = "next" /\ pc' = "flush" /\ ~answer'.whole BY DEF RefusedWindow
<1>2. UNCHANGED <<created, rows, truncated, refused, args, done, turn, cur, todo>>
  BY DEF RefusedWindow, files, memory, loops, history, told
<1>3. seen' \subseteq Readable(rows) \cup Range(fresh')
  <2>1. CASE UNCHANGED <<fresh, seen>> BY <2>1 DEF Holds
  <2>2. CASE \E S \in Before(Head(todo)) : Writes(S) BY <2>2, FetchedIsHits, WritesSeen
  <2>. QED BY <2>1, <2>2 DEF RefusedWindow
<1>. QED BY <1>1, <1>2, <1>3, WindowAnswered

LEMMA RowsFlushed ==
  ASSUME TypeOK, Holds, rows.torn = "no", Flush
  PROVE  Holds' /\ rows'.torn = "no" /\ Readable(rows) \subseteq Readable(rows)'
<1>0. /\ pc = "flush" /\ pc' = "log" /\ fresh' = <<>> /\ rows' = Written(rows, fresh)
      /\ UNCHANGED <<created, truncated, refused, args, done, seen, turn, cur, todo, answer>>
  BY DEF Flush, memory, loops, history, told
<1>1. Good(rows, PRs) /\ fresh \in Seq(PRs) BY DEF Good, TypeOK
<1>2. rows'.torn = "no" /\ Readable(rows)' = Readable(rows) \cup Range(fresh)
  BY <1>0, <1>1, WrittenWhole DEF Readable
<1>3. \A p : (Settled(p) => Settled(p)') /\ (InHand(p) => InHand(p)')
  BY <1>0, <1>2 DEF Settled, InHand, Hits
<1>4. \A p, k : Passed(p, k)' => Passed(p, k) BY <1>0 DEF Passed
<1>5. LogLine(Head(todo), "done").floor = LogLine(Head(todo), "done").floor'
      /\ Hits(Head(todo))' = Hits(Head(todo))
  BY <1>0 DEF LogLine, Hits
<1>6. DoneHolds' BY <1>0, <1>3 DEF Holds, DoneHolds, Hits
<1>. QED BY <1>0, <1>2, <1>3, <1>4, <1>5, <1>6 DEF Holds

\* What a line of the log says that a run would write now.
LEMMA DoneSaid ==
  ASSUME TypeOK, Holds, LogSays, pc = "log", UNCHANGED <<created, rows>>, ToldStays,
         LET l == LogLine(Head(todo), "done") IN
           /\ l.floor => l.window \in truncated'
           /\ ~answer.whole => l.window \in refused'
           /\ Readable(log)' \subseteq Readable(log) \cup {l}
  PROVE  LogSays'
<1>. PICK l : l = LogLine(Head(todo), "done") OBVIOUS
<1>1. Hits(Head(todo)) \subseteq Readable(rows) \/ l.floor \/ ~answer.whole
  BY EmptyFresh DEF Holds
<1>2. l.window = Head(todo) BY DEF LogLine
<1>3. Readable(rows)' = Readable(rows) /\ \A w : Hits(w)' = Hits(w) BY DEF Hits, Readable
<1>4. ASSUME NEW k \in Readable(log)', k.status = "done"
      PROVE  IF k.floor THEN k.window \in truncated'
             ELSE k.window \in refused' \/ Hits(k.window) \subseteq Readable(rows)
  <2>1. CASE k = l BY <1>1, <1>2, <2>1
  <2>2. CASE k \in Readable(log) BY <1>4, <2>2 DEF LogSays, ToldStays
  <2>. QED BY <2>1, <2>2
<1>. QED BY <1>3, <1>4 DEF LogSays

LEMMA WindowLogged ==
  ASSUME TypeOK, Holds, LogSays, LogDone
  PROVE  Holds' /\ LogSays' /\ ToldStays
<1>. PICK l : l = LogLine(Head(todo), "done") OBVIOUS
<1>0. /\ pc = "log" /\ pc' = "next" /\ log' = Written(log, <<l>>) /\ todo' = Tail(todo)
      /\ Tell(l) /\ UNCHANGED <<created, rows, args, done, seen, turn, cur, fresh>>
  BY DEF LogDone, memory, loops
<1>1. todo # <<>> BY <1>0 DEF TypeOK
<1>2. Head(todo) \in Window /\ Range(todo) = {Head(todo)} \cup Range(Tail(todo))
  BY <1>1, HeadAndTail
<1>3. l \in Line /\ Good(log, Line) /\ l.window = Head(todo)
  BY <1>2, LineType DEF Good, TypeOK, LogLine
<1>4. Readable(log)' \subseteq Readable(log) \cup {l} BY <1>0, <1>3, LoggedLines DEF Readable
<1>5. /\ ToldStays /\ (l.floor => l.window \in truncated')
      /\ ~answer.whole => l.window \in refused'
  BY <1>0 DEF Tell, ToldStays
<1>6. LogSays' BY <1>0, <1>4, <1>5, DoneSaid
<1>7. \A p : Settled(p) => Settled(p)' BY <1>0, <1>5 DEF Settled, Hits, Readable, ToldStays
<1>8. ASSUME NEW p, InHand(p) PROVE Settled(p)' \/ InHand(p)'
  <2>1. PICK w \in Range(todo) : p \in Hits(w) BY <1>8 DEF InHand
  <2>2. p \in Hits(w)' BY <1>0, <2>1 DEF Hits
  <2>3. CASE w \in Range(Tail(todo)) BY <1>0, <2>2, <2>3 DEF InHand
  <2>4. CASE w = Head(todo)
    <3>1. CASE l.floor \/ ~answer.whole BY <1>3, <1>5, <2>2, <2>4, <3>1 DEF Settled
    <3>2. CASE ~l.floor /\ answer.whole
      <4>1. Hits(Head(todo)) \subseteq Readable(rows) BY <1>0, <3>2, EmptyFresh DEF Holds
      <4>. QED BY <1>0, <2>1, <2>4, <4>1 DEF Settled, Readable
    <3>. QED BY <3>1, <3>2
  <2>. QED BY <1>2, <2>1, <2>3, <2>4
<1>9. \A p, k : Passed(p, k)' => Passed(p, k) BY <1>0 DEF Passed
<1>10. DoneHolds' BY <1>0, <1>7 DEF Holds, DoneHolds, Hits
<1>11. Holds' BY <1>0, <1>7, <1>8, <1>9, <1>10 DEF Holds, Readable
<1>. QED BY <1>5, <1>6, <1>11

\* What the rest of a step has to show: the file's and the log's parts.
LEMMA FoundAgain ==
  ASSUME TypeOK, FInv, ~rowTorn, UNCHANGED <<created, finished>>,
         Readable(rows) \subseteq Readable(rows)', ToldStays,
         rows'.torn = "no", LogSays', pc' # "down" => Holds'
  PROVE  FInv'
BY FinishedStays DEF FInv

\* Rows flushed when a process ends between two lines.
LEMMA RowsKept ==
  ASSUME TypeOK, FInv, ~rowTorn, UNCHANGED <<created, log, truncated, refused>>,
         NEW ls \in Begun \cup {fresh}, rows' = Written(rows, ls)
  PROVE  rows'.torn = "no" /\ Readable(rows) \subseteq Readable(rows)' /\ LogSays'
<1>1. Good(rows, PRs) /\ rows.torn = "no" BY DEF Good, TypeOK, FInv
<1>2. ls \in Seq(PRs) BY BegunType DEF TypeOK
<1>3. rows'.torn = "no" /\ Readable(rows)' = Readable(rows) \cup Range(ls)
  BY <1>1, <1>2, WrittenWhole DEF Readable
<1>4. Readable(log)' = Readable(log) BY DEF Readable
<1>. QED BY <1>3, <1>4, LogStaysTrue DEF FInv, ToldStays

LEMMA RunBegun ==
  ASSUME TypeOK, OInv, LogSays, StartRun
  PROVE  Holds'
<1>1. /\ UNCHANGED <<created, rows, log, todo, fresh, truncated, refused>>
      /\ args' \in [end : Ends, size : Sizes] /\ done' = LoadDone /\ seen' = Readable(rows)
      /\ turn' = 1 /\ cur' = 0 /\ pc' = "next" /\ pc = "down"
  BY DEF StartRun, files, history, told
<1>2. args'.end > 0
  <2>1. args'.end \in Ends BY <1>1
  <2>2. \A e \in Ends : e > 0 BY LiveSearchAssumption
  <2>. QED BY <2>1, <2>2
<1>3. fresh' = <<>> /\ seen' \subseteq Readable(rows)' BY <1>1 DEF OInv, Readable
<1>4. DoneHolds'
  <2>1. ASSUME NEW w \in LoadDone, NEW p \in Hits(w) PROVE Settled(p)
    <3>1. PICK l \in Readable(log) : l.status = "done" /\ w = l.window BY <2>1 DEF LoadDone
    <3>. QED BY <2>1, <3>1 DEF LogSays, Settled
  <2>. QED BY <1>1, <2>1 DEF DoneHolds, Settled, Hits, Readable
<1>5. \A p, k : k \in 1..Len(Labels) => ~Passed(p, k)' BY <1>1 DEF Passed
<1>. QED BY <1>1, <1>2, <1>3, <1>4, <1>5 DEF Holds

\* A run ends when its loops have passed everything and nothing is in hand.
LEMMA RunFinished ==
  ASSUME TypeOK, Holds, Finish, NEW p \in PRs, Matches[p] # {}, created[p] <= args.end
  PROVE  Settled(p)
<1>1. pc = "next" /\ todo = <<>> /\ cur >= args.end /\ turn = Len(Labels)
  BY DEF Finish, Idle
<1>2. PICK k \in 1..Len(Labels) : Labels[k] \in Matches[p]
  <2>1. Matches[p] \subseteq Range(Labels) BY LiveSearchAssumption
  <2>2. Range(Labels) = {Labels[i] : i \in 1..Len(Labels)}
    BY LiveSearchAssumption, RangeEquality
  <2>. QED BY <2>1, <2>2
<1>3. /\ created[p] \in Nat /\ args.end \in Nat /\ cur \in Nat /\ args.end > 0
      /\ Len(Labels) \in Nat
  BY LenProperties, LiveSearchAssumption DEF TypeOK, Time, Holds
<1>4. Passed(p, k) BY <1>1, <1>2, <1>3 DEF Passed
<1>5. ~InHand(p) BY <1>1, EmptyFresh DEF InHand
<1>. QED BY <1>2, <1>4, <1>5 DEF Holds

LEMMA StepFound == TypeOK /\ OInv /\ FInv /\ [Next]_vars => FInv'
<1>. SUFFICES ASSUME TypeOK, OInv, FInv, [Next]_vars, ~rowTorn' PROVE FInv' BY DEF FInv
<1>0. ~rowTorn
  BY DEF Next, Step, StartRun, NextWindow, NextQuery, SplitWindow, SearchWindow, Flush,
         LogDone, Finish, RefusedWindow, Stop, TearRow, TearLog, vars, history, TypeOK
<1>a. rows.torn = "no" /\ LogSays /\ (pc # "down" => Holds) BY <1>0 DEF FInv
<1>b. ASSUME UNCHANGED <<created, rows, log, truncated, refused>>
      PROVE  LogSays' /\ Readable(rows) \subseteq Readable(rows)'
  BY <1>a, <1>b, LogStaysTrue DEF Readable, ToldStays
<1>1. CASE StartRun
  <2>1. UNCHANGED <<created, rows, log, truncated, refused, finished>>
    BY <1>1 DEF StartRun, files, history, told
  <2>. QED BY <1>0, <1>1, <1>a, <1>b, <2>1, RunBegun, FoundAgain DEF ToldStays
<1>2. CASE NextWindow
  <2>1. UNCHANGED <<created, rows, log, truncated, refused, finished>> /\ pc = "next"
    BY <1>2 DEF NextWindow, Idle, files, history, told
  <2>. QED BY <1>0, <1>2, <1>a, <1>b, <2>1, WindowTaken, FoundAgain DEF ToldStays
<1>3. CASE NextQuery
  <2>1. UNCHANGED <<created, rows, log, truncated, refused, finished>> /\ pc = "next"
    BY <1>3 DEF NextQuery, Idle, files, history, told
  <2>. QED BY <1>0, <1>3, <1>a, <1>b, <2>1, QueryTaken, FoundAgain DEF ToldStays
<1>4. CASE SplitWindow
  <2>1. UNCHANGED <<created, rows, truncated, refused, finished>> /\ pc = "next"
    BY <1>4 DEF SplitWindow, history, told
  <2>2. Readable(rows)' = Readable(rows) BY <2>1 DEF Readable
  <2>. QED BY <1>0, <1>4, <1>a, <2>1, <2>2, WindowHalved, FoundAgain DEF ToldStays
<1>5. CASE SearchWindow
  <2>1. UNCHANGED <<created, rows, log, truncated, refused, finished>> /\ pc = "next"
    BY <1>5 DEF SearchWindow, files, history, told
  <2>. QED BY <1>0, <1>5, <1>a, <1>b, <2>1, WindowSearched, FoundAgain DEF ToldStays
<1>6. CASE Flush
  <2>1. UNCHANGED <<created, log, truncated, refused, finished>> /\ pc = "flush"
    BY <1>6 DEF Flush, history, told
  <2>2. Holds' /\ rows'.torn = "no" /\ Readable(rows) \subseteq Readable(rows)'
    BY <1>6, <1>a, <2>1, RowsFlushed
  <2>3. Readable(log)' = Readable(log) BY <2>1 DEF Readable
  <2>4. LogSays' BY <1>a, <2>1, <2>2, <2>3, LogStaysTrue DEF ToldStays
  <2>. QED BY <1>0, <2>1, <2>2, <2>4, FoundAgain DEF ToldStays
<1>7. CASE LogDone
  <2>1. UNCHANGED <<created, rows, finished>> /\ pc = "log" BY <1>7 DEF LogDone
  <2>2. Holds' /\ LogSays' /\ ToldStays BY <1>7, <1>a, <2>1, WindowLogged
  <2>3. Readable(rows)' = Readable(rows) BY <2>1 DEF Readable
  <2>. QED BY <1>0, <1>a, <2>1, <2>2, <2>3, FoundAgain DEF ToldStays
<1>8. CASE Finish
  <2>1. /\ UNCHANGED <<created, log, truncated, refused>> /\ rows' = Written(rows, fresh)
        /\ finished' = finished \cup {args.end} /\ pc = "next" /\ pc' = "down"
    BY <1>8 DEF Finish, Idle, GoesDown, told
  <2>2. rows'.torn = "no" /\ Readable(rows) \subseteq Readable(rows)' /\ LogSays'
    BY <1>0, <2>1, RowsKept
  <2>3. ASSUME NEW end \in finished', NEW p \in PRs, Matches[p] # {}, created'[p] <= end
        PROVE  Settled(p)'
    <3>1. CASE end \in finished
      BY <1>0, <2>1, <2>2, <2>3, <3>1, FinishedStays DEF ToldStays
    <3>2. CASE end = args.end
      <4>1. Settled(p) BY <1>8, <1>a, <2>1, <2>3, <3>2, RunFinished
      <4>. QED BY <2>1, <2>2, <4>1, StaysSettled DEF ToldStays
    <3>. QED BY <2>1, <2>3, <3>1, <3>2
  <2>. QED BY <2>1, <2>2, <2>3 DEF FInv
<1>9. CASE Stop
  <2>1. PICK ls \in Begun : rows' = Written(rows, ls) BY <1>9 DEF Stop
  <2>2. UNCHANGED <<created, log, truncated, refused, finished>> /\ pc' = "down"
    BY <1>9 DEF Stop, GoesDown, history, told
  <2>3. rows'.torn = "no" /\ Readable(rows) \subseteq Readable(rows)' /\ LogSays'
    BY <1>0, <2>1, <2>2, RowsKept
  <2>. QED BY <1>0, <2>2, <2>3, FoundAgain DEF ToldStays
<1>10. CASE TearRow BY <1>10 DEF TearRow
<1>11. CASE TearLog
  <2>0. PICK l : l = LogLine(Head(todo), IF pc = "log" THEN "done" ELSE "split") OBVIOUS
  <2>1. /\ UNCHANGED <<created, rows, finished>> /\ pc' = "down"
        /\ pc = "log" \/ (pc = "next" /\ todo # <<>>)
        /\ \/ log' = Part(log, <<>>) /\ UNCHANGED told
           \/ log' = NoNewline(log, <<l>>) /\ Tell(l)
    <3>1. UNCHANGED <<created, rows, finished>> /\ pc' = "down"
      BY <1>11 DEF TearLog, GoesDown
    <3>2. pc = "log" \/ (pc = "next" /\ todo # <<>>) BY <1>11 DEF TearLog
    <3>3. \/ log' = Part(log, <<>>) /\ UNCHANGED told
          \/ log' = NoNewline(log, <<l>>) /\ Tell(l)
      BY <1>11, <2>0, Zenon DEF TearLog
    <3>. QED BY <3>1, <3>2, <3>3
  <2>2. Head(todo) \in Window BY <2>1, HeadAndTail DEF TypeOK
  <2>3. l \in Line /\ Good(log, Line) BY <2>0, <2>2, LineType DEF Good, TypeOK
  <2>4. Readable(log)' \subseteq Readable(log) \cup {l}
    BY <2>1, <2>3, LoggedLines DEF Readable
  <2>5. Readable(rows)' = Readable(rows) /\ ToldStays
    BY <2>1 DEF Readable, Tell, told, ToldStays
  <2>6. LogSays'
    <3>1. CASE log' = Part(log, <<>>) /\ UNCHANGED told
      <4>1. Readable(log)' \subseteq Readable(log) BY <2>3, <3>1, LoggedLines DEF Readable
      <4>. QED BY <1>a, <2>1, <2>5, <4>1, LogStaysTrue DEF ToldStays
    <3>2. CASE pc = "log" /\ Tell(l)
      <4>1. (l.floor => l.window \in truncated') /\ (~answer.whole => l.window \in refused')
        BY <3>2 DEF Tell
      <4>. QED BY <1>a, <2>0, <2>1, <2>4, <2>5, <3>2, <4>1, DoneSaid
    <3>3. CASE pc = "next"
      <4>1. l.status # "done" BY <2>0, <3>3 DEF LogLine
      <4>2. \A k \in Readable(log)' : k.status = "done" => k \in Readable(log) BY <2>4, <4>1
      <4>3. \A k : Hits(k.window)' = Hits(k.window) BY <2>1 DEF Hits
      <4>. QED BY <1>a, <2>5, <4>2, <4>3 DEF LogSays, ToldStays
    <3>. QED BY <2>1, <3>1, <3>2, <3>3
  <2>. QED BY <1>0, <1>a, <2>1, <2>5, <2>6, FoundAgain DEF ToldStays
<1>12. CASE RefusedWindow
  <2>1. UNCHANGED <<created, rows, log, truncated, refused, finished>> /\ pc = "next"
    BY <1>12 DEF RefusedWindow, files, history, told
  <2>. QED BY <1>0, <1>12, <1>a, <1>b, <2>1, WindowRefused, FoundAgain DEF ToldStays
<1>13. CASE UNCHANGED vars
  <2>1. UNCHANGED <<created, rows, log, truncated, refused, finished>> BY <1>13 DEF vars
  <2>2. Holds => Holds'
    BY <1>13 DEF vars, Holds, DoneHolds, Settled, InHand, Passed, Hits, Readable, LogLine
  <2>3. pc' = pc BY <1>13 DEF vars
  <2>. QED BY <1>0, <1>a, <1>b, <2>1, <2>2, <2>3, FoundAgain DEF ToldStays
<1>. QED BY <1>1, <1>2, <1>3, <1>4, <1>5, <1>6, <1>7, <1>8, <1>9, <1>10, <1>11, <1>12, <1>13
         DEF Next, Step

\* A window the log has as done, and not as truncated, has all its pull requests
\* in the output file, unless one of its pages was refused, as long as no process
\* was killed within a row.
THEOREM DoneIsFound == Spec => []DoneMeansFound
<1>1. FInv => DoneMeansFound BY DEF FInv, LogSays, DoneMeansFound
<1>. QED BY <1>1, InitTypes, StepTypes, InitOnce, StepOnce, InitFound, StepFound, PTL DEF Spec

\* What main() promises by returning 0: every pull request of its range is on disk,
\* unless a window it is in was truncated or had a page refused, as long as no
\* process was killed within a row.
THEOREM FinishedIsFound == Spec => []FinishedMeansFound
<1>1. FInv => FinishedMeansFound BY DEF FInv, Settled, AllFound, FinishedMeansFound
<1>. QED BY <1>1, InitTypes, StepTypes, InitOnce, StepOnce, InitFound, StepFound, PTL DEF Spec
=============================================================================
