----------------------------- MODULE LiveSearch -----------------------------
(***************************************************************************)
(* cargo_live_search: pull requests found by window after window of the    *)
(* GitHub search, rows appended to one file and finished windows to its    *)
(* sidecar log, so that a run that was stopped can be resumed by another.  *)
(***************************************************************************)
EXTENDS Integers, Sequences, FiniteSets, Functions

CONSTANTS
  PRs,       \* the pull requests GitHub has
  Labels,    \* queries, in the order main() runs them
  Matches,   \* [PRs -> the queries that find it]
  Horizon,   \* bound: times are 0..Horizon, in units of the resolution
  Cap,       \* most results of one query
  Floor,     \* the longest window that is not split
  Ends,      \* values of --end (--start is 0)
  Sizes,     \* values of --initial-window-days
  Garbled,   \* a line json.loads does not take
  Faults,    \* what may go wrong: "stop", "torn row", "torn log", "refused"
  MaxRuns,   \* bound: runs
  MaxFaults  \* bound: faults

ASSUME LiveSearchAssumption ==
  /\ IsFiniteSet(PRs) /\ Garbled \notin PRs
  /\ Matches \in [PRs -> SUBSET Range(Labels)]
  /\ Labels \in Seq(Range(Labels)) /\ Labels # <<>>
  /\ Horizon \in Nat /\ Cap \in Nat \ {0} /\ Floor \in Nat \ {0}
  /\ Ends \subseteq 1..Horizon /\ Sizes \subseteq Nat \ {0}
  /\ MaxRuns \in Nat /\ MaxFaults \in Nat

VARIABLES
  created,   \* [PRs -> time]: the corpus, which does not change
  rows,      \* the output file
  log,       \* the window log
  pc,        \* "down", "next" window, "flush" its rows, "log" it
  args,      \* the command line of this run: end, size
  done,      \* seen_windows: the windows logged when this run began
  seen,      \* seen_pr_keys
  turn, cur, \* main's loops: the query, and where its next window begins
  todo,      \* the window under way, and those the recursion has still to do
  fresh,     \* rows written and not flushed
  answer,    \* of the window searched: the total reported, and (history) whether
             \* no page of it was refused
  runs, faults,
  rowTorn,   \* history: a process was killed while it wrote a row
  truncated, \* history: windows logged with saturated_at_hour_floor
  refused,   \* history: windows logged as done though a page of them was refused
  finished   \* history: the ends that runs which returned 0 were given

vars == <<created, rows, log, pc, args, done, seen, turn, cur, todo, fresh, answer, runs,
          faults, rowTorn, truncated, refused, finished>>
files == <<rows, log>>
loops == <<turn, cur>>
memory == <<args, done, loops>>
NoArgs == [end |-> 0, size |-> 0]
NoAnswer == [total |-> 0, whole |-> TRUE]
told == <<truncated, refused>>
history == <<rowTorn, told, finished>>

(***************************************************************************)
(* Files of lines.  A process killed in the middle of a write leaves part  *)
(* of a line, or a line without its newline: "a" mode then appends the     *)
(* next line to it, and the two cannot be read.                            *)
(***************************************************************************)
Torn == {"no", "part", "line"}
EmptyFile == [lines |-> <<>>, torn |-> "no"]
Readable(f) == Range(f.lines) \ {Garbled}
AllButLast(s) == SubSeq(s, 1, Len(s) - 1)

Written(f, ls) ==
  IF ls = <<>> THEN f
  ELSE [lines |-> CASE f.torn = "no"   -> f.lines \o ls
                    [] f.torn = "part" -> f.lines \o <<Garbled>> \o Tail(ls)
                    [] OTHER -> AllButLast(f.lines) \o <<Garbled>> \o Tail(ls),
        torn |-> "no"]

\* All of ls and part of one more line; or ls without its last newline.
Part(f, ls) ==
  LET g == Written(f, ls)
  IN [lines |-> IF g.torn = "line" THEN AllButLast(g.lines) ELSE g.lines, torn |-> "part"]
NoNewline(f, ls) == [Written(f, ls) EXCEPT !.torn = "line"]

(***************************************************************************)
(* Windows and the search.                                                 *)
(***************************************************************************)
Time == 0..Horizon
Window == [label : Range(Labels), from : Time, to : Time]

Least(a, b) == IF a <= b THEN a ELSE b

\* What _windows yields next: windows in steps of the initial size.
NextOf(t, from, a) == [label |-> Labels[t], from |-> from, to |-> Least(from + a.size, a.end)]

Halves(w) ==
  LET mid == w.from + (w.to - w.from) \div 2
  IN << [w EXCEPT !.to = mid], [w EXCEPT !.from = mid] >>

\* GitHub's created:a..b has both ends.
Hits(w) == {p \in PRs : w.label \in Matches[p] /\ created[p] \in w.from..w.to}
Saturated(w) == Cardinality(Hits(w)) > Cap
Splits(w) == Saturated(w) /\ w.to - w.from > Floor

\* The first n that are found, by time of creation.
Earliest(w, n) ==
  {S \in SUBSET Hits(w) :
     Cardinality(S) = n /\ \A p \in S, q \in Hits(w) \ S : created[p] <= created[q]}

\* What the pages hold, when GitHub answers them all: everything, or Cap of it.
Fetched(w) == IF Saturated(w) THEN Earliest(w, Cap) ELSE {Hits(w)}

\* What came before a page that was refused (pages of one pull request here).
Before(w) == UNION {Earliest(w, n) : n \in 1..(Cap - 1)}

\* The orders rows may be written in: by time of creation, ties in any order.
Orders(S) ==
  {q \in [1..Cardinality(S) -> S] :
     /\ Range(q) = S
     /\ \A i, j \in DOMAIN q : i < j => q[i] # q[j] /\ created[q[i]] <= created[q[j]]}

LogLine(w, status) ==
  [window |-> w, status |-> status,
   floor |-> status = "done" /\ answer.total > Cap /\ w.to - w.from <= Floor]

(***************************************************************************)
(* Runs.                                                                   *)
(***************************************************************************)
Init ==
  /\ created \in [PRs -> Time]
  /\ rows = EmptyFile /\ log = EmptyFile
  /\ pc = "down" /\ args = NoArgs
  /\ done = {} /\ seen = {} /\ turn = 0 /\ cur = 0 /\ todo = <<>> /\ fresh = <<>>
  /\ answer = NoAnswer
  /\ runs = 0 /\ faults = 0
  /\ rowTorn = FALSE /\ truncated = {} /\ refused = {} /\ finished = {}

\* What ends a run, whatever it is, takes the memory of the process.
GoesDown ==
  /\ pc' = "down" /\ args' = NoArgs
  /\ done' = {} /\ seen' = {} /\ turn' = 0 /\ cur' = 0 /\ todo' = <<>> /\ fresh' = <<>>
  /\ answer' = NoAnswer

\* Mutant of LoadDone: a window that was split is finished too.
LoadDoneSplit == {l.window : l \in Readable(log)}
LoadDone == {l.window : l \in {m \in Readable(log) : m.status = "done"}}

\* Mutant of StartRun: rows on disk are not read back.
StartRunBlind ==
  /\ pc = "down" /\ runs < MaxRuns
  /\ runs' = runs + 1
  /\ args' \in [end : Ends, size : Sizes]
  /\ done' = LoadDone /\ seen' = {}
  /\ turn' = 1 /\ cur' = 0
  /\ pc' = "next"
  /\ UNCHANGED <<created, files, todo, fresh, answer, faults, history>>

StartRun ==
  /\ pc = "down" /\ runs < MaxRuns
  /\ runs' = runs + 1
  /\ args' \in [end : Ends, size : Sizes]
  /\ done' = LoadDone /\ seen' = Readable(rows)
  /\ turn' = 1 /\ cur' = 0
  /\ pc' = "next"
  /\ UNCHANGED <<created, files, todo, fresh, answer, faults, history>>

Idle == pc = "next" /\ todo = <<>>

NextWindow ==
  LET w == NextOf(turn, cur, args) IN
  /\ Idle /\ cur < args.end
  /\ cur' = w.to
  /\ todo' = IF w \in done THEN <<>> ELSE <<w>>
  /\ UNCHANGED <<created, files, pc, args, done, seen, turn, fresh, answer, runs, faults, history>>

NextQuery ==
  /\ Idle /\ cur >= args.end /\ turn < Len(Labels)
  /\ turn' = turn + 1 /\ cur' = 0
  /\ UNCHANGED <<created, files, pc, args, done, seen, todo, fresh, answer, runs, faults, history>>

\* The window is searched; a saturated one is logged as split, and halved.
SplitWindow ==
  /\ pc = "next" /\ todo # <<>> /\ Splits(Head(todo))
  /\ log' = Written(log, <<LogLine(Head(todo), "split")>>)
  /\ todo' = Halves(Head(todo)) \o Tail(todo)
  /\ UNCHANGED <<created, rows, pc, memory, seen, fresh, answer, runs, faults, history>>

\* The items of the window, those of S that are not on disk, are written.
Writes(S) ==
  \E q \in Orders(S \ seen) : fresh' = fresh \o q /\ seen' = seen \cup S

Answered(w) == answer' = [total |-> Cardinality(Hits(w)), whole |-> TRUE]

\* Mutant of SearchWindow: a search that finds nothing is made again.
SearchWindowAgain ==
  /\ pc = "next" /\ todo # <<>> /\ ~Splits(Head(todo))
  /\ IF Hits(Head(todo)) = {} THEN UNCHANGED <<pc, fresh, seen, answer>>
     ELSE /\ \E S \in Fetched(Head(todo)) : Writes(S)
          /\ Answered(Head(todo)) /\ pc' = "flush"
  /\ UNCHANGED <<created, files, memory, todo, runs, faults, history>>

\* Mutant of SearchWindow: the window is taken off the list when it was searched.
SearchWindowPopped ==
  /\ pc = "next" /\ todo # <<>> /\ ~Splits(Head(todo))
  /\ \E S \in Fetched(Head(todo)) : Writes(S)
  /\ Answered(Head(todo))
  /\ todo' = Tail(todo)
  /\ pc' = "flush"
  /\ UNCHANGED <<created, files, memory, runs, faults, history>>

SearchWindow ==
  /\ pc = "next" /\ todo # <<>> /\ ~Splits(Head(todo))
  /\ \E S \in Fetched(Head(todo)) : Writes(S)
  /\ Answered(Head(todo))
  /\ pc' = "flush"
  /\ UNCHANGED <<created, files, memory, todo, runs, faults, history>>

\* Mutant of Flush: the rows stay in the buffer until the file is closed.
FlushLater ==
  /\ pc = "flush"
  /\ pc' = "log"
  /\ UNCHANGED <<created, rows, log, memory, seen, todo, fresh, answer, runs, faults, history>>

Flush ==
  /\ pc = "flush"
  /\ rows' = Written(rows, fresh) /\ fresh' = <<>>
  /\ pc' = "log"
  /\ UNCHANGED <<created, log, memory, seen, todo, answer, runs, faults, history>>

\* What the history keeps of a line that says done.
Tell(l) ==
  /\ truncated' = IF l.floor THEN truncated \cup {l.window} ELSE truncated
  /\ refused' = IF answer.whole THEN refused ELSE refused \cup {l.window}

LogDone ==
  LET l == LogLine(Head(todo), "done") IN
  /\ pc = "log"
  /\ log' = Written(log, <<l>>)
  /\ Tell(l)
  /\ todo' = Tail(todo) /\ answer' = NoAnswer
  /\ pc' = "next"
  /\ UNCHANGED <<created, rows, memory, seen, fresh, runs, faults, rowTorn, finished>>

\* main() closes its files and returns 0.
Finish ==
  /\ Idle /\ cur >= args.end /\ turn = Len(Labels)
  /\ rows' = Written(rows, fresh)
  /\ finished' = finished \cup {args.end}
  /\ GoesDown
  /\ UNCHANGED <<created, log, runs, faults, rowTorn, told>>

(***************************************************************************)
(* Faults.                                                                 *)
(***************************************************************************)
Fault(kind) == kind \in Faults /\ faults < MaxFaults /\ faults' = faults + 1
Begun == {SubSeq(fresh, 1, n) : n \in 0..Len(fresh)}

\* GitHub answers 422 to a page: no items, and the loop over the pages ends.  Of
\* a first page nothing is known, not even that the window was to be split; of a
\* later one the items before it are kept.  The window is then logged as any other.
RefusedWindow ==
  LET w == Head(todo) IN
  /\ pc = "next" /\ todo # <<>> /\ Fault("refused")
  /\ \/ answer' = [total |-> 0, whole |-> FALSE] /\ UNCHANGED <<fresh, seen>>
     \/ /\ ~Splits(w)
        /\ \E S \in Before(w) : Writes(S)
        /\ answer' = [total |-> Cardinality(Hits(w)), whole |-> FALSE]
  /\ pc' = "flush"
  /\ UNCHANGED <<created, files, memory, todo, runs, history>>

\* An exception (the API's, Ctrl-C) or the end of the process between two
\* lines: some of the rows not yet flushed have reached the file.
Stop ==
  /\ pc # "down" /\ Fault("stop")
  /\ \E ls \in Begun : rows' = Written(rows, ls)
  /\ GoesDown
  /\ UNCHANGED <<created, log, runs, history>>

\* The process is killed while a row is written.
TearRow ==
  /\ pc = "flush" /\ fresh # <<>> /\ Fault("torn row")
  /\ \E ls \in Begun :
       \/ ls # fresh /\ rows' = Part(rows, ls)
       \/ ls # <<>> /\ rows' = NoNewline(rows, ls)
  /\ rowTorn' = TRUE
  /\ GoesDown
  /\ UNCHANGED <<created, log, runs, told, finished>>

\* The same while a line of the log is written.
TearLog ==
  LET l == LogLine(Head(todo), IF pc = "log" THEN "done" ELSE "split") IN
  /\ \/ pc = "log"
     \/ pc = "next" /\ todo # <<>> /\ Splits(Head(todo))
  /\ Fault("torn log")
  /\ \/ log' = Part(log, <<>>) /\ UNCHANGED told
     \/ log' = NoNewline(log, <<l>>) /\ Tell(l)
  /\ GoesDown
  /\ UNCHANGED <<created, rows, runs, rowTorn, finished>>

Step == NextWindow \/ NextQuery \/ SplitWindow \/ SearchWindow \/ Flush \/ LogDone \/ Finish
Next == StartRun \/ Step \/ RefusedWindow \/ Stop \/ TearRow \/ TearLog

Spec == Init /\ [][Next]_vars

\* A run goes on, and the operator resumes one that was stopped.
FairSpec == Spec /\ WF_vars(Step) /\ WF_vars(StartRun /\ finished = {})

(***************************************************************************)
(* Properties.                                                             *)
(***************************************************************************)
Line == [window : Window, status : {"split", "done"}, floor : BOOLEAN]
FileOf(L) == [lines : Seq(L \cup {Garbled}), torn : Torn]

\* Every variable keeps its type, a window is under way where one is needed,
\* and only a line that is there lacks its newline.
TypeOK ==
  /\ created \in [PRs -> Time]
  /\ rows \in FileOf(PRs) /\ (rows.torn = "line" => rows.lines # <<>>)
  /\ log \in FileOf(Line) /\ (log.torn = "line" => log.lines # <<>>)
  /\ pc \in {"down", "next", "flush", "log"}
  /\ args \in [end : Time, size : Nat]
  /\ done \subseteq Window /\ seen \subseteq PRs
  /\ turn \in 0..Len(Labels) /\ cur \in Time /\ (pc # "down" => turn > 0)
  /\ todo \in Seq(Window) /\ (pc \in {"flush", "log"} => todo # <<>>)
  /\ fresh \in Seq(PRs)
  /\ runs \in 0..MaxRuns /\ faults \in 0..MaxFaults
  /\ answer \in [total : Nat, whole : BOOLEAN] /\ (pc \in {"down", "next"} => answer = NoAnswer)
  /\ rowTorn \in BOOLEAN /\ truncated \subseteq Window /\ refused \subseteq Window
  /\ finished \subseteq Time

\* No pull request has two rows that can be read, whatever queries and windows
\* find it again and however often runs are stopped between or within lines
\* and resumed.
NoRowTwice ==
  \A i, j \in 1..Len(rows.lines) :
    rows.lines[i] = rows.lines[j] /\ rows.lines[i] # Garbled => i = j

\* As long as no process was killed within a row, a window the log has as done,
\* and not as truncated, has all its pull requests in the output file: what a
\* resumed run skips is on disk, though the two files are written one after the
\* other, lines of the log may be torn, and other windows refused.  It is not so
\* of a window of which a page was refused: its line looks like any other.
DoneMeansFound ==
  ~rowTorn =>
    \A l \in Readable(log) :
      l.status = "done" /\ ~l.floor /\ l.window \notin refused =>
        Hits(l.window) \subseteq Readable(rows)

\* What main() has promised by returning 0: every pull request of its range is
\* on disk, found by this run or by earlier ones with other ends and window
\* sizes, unless it is in a truncated window, which a log line tells of, or in
\* one of which a page was refused, which nothing tells of.
AllFound ==
  \A end \in finished, p \in PRs :
    Matches[p] # {} /\ created[p] <= end /\ p \notin Readable(rows) =>
      \E w \in truncated \cup refused : p \in Hits(w)

\* So it is as long as no process was killed within a row.  (One that was leaves
\* a line the next run appends to: that run's first row is lost, its window done.)
FinishedMeansFound == ~rowTorn => AllFound

\* A search that is resumed often enough comes to an end.
SearchEnds == <>(finished # {})
=============================================================================
