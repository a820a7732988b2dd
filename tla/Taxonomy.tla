----------------------------- MODULE Taxonomy -----------------------------
(***************************************************************************)
(* How an outcome gets its name: process() classifies a candidate from a    *)
(* log on disk, at once, and --reclassify does so again later, from the     *)
(* path it expects the log at.  Logs live under one directory per run id    *)
(* and are named by the post commit, the stage and, with --attempts > 1,    *)
(* the attempt; candidates with one post commit share them, and may write   *)
(* one file at the same time.  The statements of the database and the other *)
(* exits of process() are in module Drive; here a row is written at once.   *)
(***************************************************************************)
EXTENDS Classifiers

CONSTANTS
  Keys,          \* candidates, "<owner>/<repo>#<pr>"
  Shorts,        \* the first eight digits of post commits
  ShortOf,       \* that of each candidate
  Listed,        \* candidates in the file that --reclassify is given
  RelaxLocked,   \* --relax-locked
  PreLogs,       \* bound: what a failing first attempt of a pre commit may print
  RetryLogs,     \* bound: what any other failing attempt on a pre commit may print
  PostLogs,      \* bound: what a failing test of a post commit may print
  Samples,       \* bound: logs that Scheme 2 is looked at with, beside the runs
  MaxAttempts,   \* bound: --attempts
  MaxRuns        \* bound: runs of the driver, all of one --run-id

ASSUME TaxonomyAssumption ==
  /\ ShortOf \in [Keys -> Shorts]
  /\ Listed \subseteq Keys
  /\ RelaxLocked \in BOOLEAN
  /\ PreLogs \in [Keys -> SUBSET Seq(LogLines)]
  /\ RetryLogs \subseteq Seq(LogLines) /\ PostLogs \subseteq Seq(LogLines)
  /\ Samples \subseteq Seq(LogLines)
  /\ MaxAttempts \in Nat \ {0} /\ MaxRuns \in Nat

VARIABLES
  attempts,   \* --attempts of the run under way; 0 before the first
  runs,       \* runs so far
  logs,       \* the logs of pre commits; one that is missing reads like an empty one
  work,       \* where process() stands with each candidate
  rows,       \* what the database says of each candidate
  own,        \* history: what the first attempt on a candidate's pre commit printed, of
              \* how many and in which run, unless it came to another outcome
  author,     \* history: who alone has written a log since it was truncated last
  touched     \* history: the rows that --reclassify has written

vars == <<attempts, runs, logs, work, rows, own, author, touched>>

\* <short>-<run_id>-pre.log, -aN and -relock variants of it.
Plain == 0
Relocked == MaxAttempts + 1
Paths == Shorts \X (0 .. Relocked)

\* _attempt_log of the i-th of n attempts.
AttemptLog(k, n, i) == <<ShortOf[k], IF n = 1 THEN Plain ELSE i>>

\* Mutant of RelockLog: without the -relock in its name.
RelockLogPlain(k) == <<ShortOf[k], Plain>>

RelockLog(k) == <<ShortOf[k], Relocked>>

Missing == <<>>
NoClass == [category |-> None, sub |-> None]
NoRow == [status |-> "none", reason |-> None, class |-> NoClass]
NoWork == [pc |-> "idle", i |-> 0, log |-> Missing, at |-> 0,
           pre |-> "ok", post |-> "ok", text |-> Missing, class |-> NoClass]
NoAuthor == [key |-> None, run |-> 0]
NoOwn == [log |-> Missing, n |-> 0, run |-> 0]

\* What an attempt comes to: an exit code, and what goes to its log.
TimeoutMarker == "error: reproducer timeout"
Outcomes(texts) ==
       {[rc |-> "ok", log |-> <<"json warning">>]}
  \cup {[rc |-> "fail", log |-> l] : l \in texts}
  \cup {[rc |-> "timeout", log |-> Append(l, TimeoutMarker)] : l \in RetryLogs}

\* _run_n's primary code, attempt by attempt: 0 if any passed, else that of the
\* first.
Primary(rc, next) == IF next = "ok" THEN "ok" ELSE rc

\* A line at its place in a file of Len(log) lines, all taken to be of one length.
Put(log, i, line) ==
  [j \in 1 .. (IF i > Len(log) THEN i ELSE Len(log)) |->
     IF j = i THEN line ELSE IF j <= Len(log) THEN log[j] ELSE Gap]

-----------------------------------------------------------------------------
Init ==
  /\ attempts = 0 /\ runs = 0
  /\ logs = [p \in Paths |-> Missing]
  /\ work = [k \in Keys |-> NoWork]
  /\ rows = [k \in Keys |-> NoRow]
  /\ own = [k \in Keys |-> NoOwn]
  /\ author = [p \in Paths |-> NoAuthor]
  /\ touched = {}

\* main(): a run takes the candidates that have no outcome yet.
StartRun(n) ==
  /\ runs < MaxRuns /\ \A k \in Keys : work[k].pc = "idle"
  /\ attempts' = n /\ runs' = runs + 1
  /\ work' = [k \in Keys |-> [NoWork EXCEPT
                 !.pc = IF rows[k].status = "none" THEN "todo" ELSE "idle"]]
  /\ UNCHANGED <<logs, rows, own, author, touched>>

Me(k) == [key |-> k, run |-> runs]

\* open("wb"): whatever was there, or is being written there, is gone.
Open(k, p) ==
  /\ logs' = [logs EXCEPT ![p] = Missing]
  /\ author' = [author EXCEPT ![p] = Me(k)]

Printed(k) == work[k].at = Len(work[k].log)
LogOf(k) == IF work[k].pc = "retry" THEN RelockLog(k) ELSE AttemptLog(k, attempts, work[k].i)

\* The test prints a line of its log, at the offset it has come to.
WriteLine(k) ==
  /\ work[k].pc \in {"pre", "retry"} /\ ~Printed(k)
  /\ LET p == LogOf(k)
         at == work[k].at + 1 IN
     /\ logs' = [logs EXCEPT ![p] = Put(@, at, work[k].log[at])]
     /\ author' = [author EXCEPT ![p] = IF @ = Me(k) THEN @ ELSE NoAuthor]
     /\ work' = [work EXCEPT ![k].at = at]
  /\ UNCHANGED <<attempts, runs, rows, own, touched>>

\* The next attempt on the pre commit starts, with a log of its own.
RunPre(k) ==
  LET w == work[k]
      i == w.i + 1 IN
  /\ w.pc = "todo" \/ (w.pc = "pre" /\ Printed(k))
  /\ i <= attempts
  /\ \E out \in Outcomes(IF i = 1 /\ runs = 1 THEN PreLogs[k] ELSE RetryLogs) :
       /\ Open(k, AttemptLog(k, attempts, i))
       /\ own' = IF i > 1 THEN own
                 ELSE [own EXCEPT ![k] = [log |-> out.log, n |-> attempts, run |-> runs]]
       /\ work' = [work EXCEPT ![k] =
                     [w EXCEPT !.pc = "pre", !.i = i, !.log = out.log, !.at = 0,
                               !.pre = IF i = 1 THEN out.rc ELSE Primary(@, out.rc)]]
  /\ UNCHANGED <<attempts, runs, rows, touched>>

\* The post commit, once the attempts on the pre commit are over, whether one
\* passed or not; of its log only the text that process() reads is kept.
RunPost(k) ==
  /\ work[k].pc = "pre" /\ Printed(k) /\ work[k].i = attempts
  /\ \E out \in Outcomes(PostLogs) :
       work' = [work EXCEPT ![k].pc = "post", ![k].log = Missing, ![k].at = 0,
                            ![k].post = out.rc,
                            ![k].text = IF out.rc = "ok" THEN Missing ELSE out.log]
  /\ UNCHANGED <<attempts, runs, logs, rows, own, author, touched>>

\* The reason recorded with a failure: either code of its first test is 124, ...
Reason(k) == IF "timeout" \in {work[k].pre, work[k].post} THEN "timed out" ELSE "failed"

\* Mutant of ReasonClass: a thin image that did not build is no reason.
ReasonClassNoImage(reason) ==
  IF reason = "timed out" THEN [category |-> "TIMEOUT", sub |-> None] ELSE NoClass

\* ... and what classify_from_reason makes of it: None is to read the log, which
\* for a failed thin image would be that of an earlier run.
ReasonClass(reason) ==
  IF reason = "timed out" THEN [category |-> "TIMEOUT", sub |-> None]
  ELSE IF reason = "thin image" THEN [category |-> "OTHER", sub |-> "REGENERATE_FAIL"]
  ELSE NoClass

\* Mutant of NoLog: a name that Scheme 2 does not list.
NoLogUnlisted == [category |-> "MISSING", sub |-> None]

NoLog == [category |-> "NO_LOG", sub |-> None]

\* classify_full of a file that is there and not empty, else NO_LOG.
ReadClass(text) == IF text = Missing THEN NoLog ELSE ClassifyFull(text)

\* Mutant of InlineClass: the last attempt's log is read.
InlineClassLast(k) ==
  IF ReasonClass(Reason(k)) # NoClass THEN ReasonClass(Reason(k))
  ELSE ReadClass(logs[AttemptLog(k, attempts, attempts)])

\* Scheme 2, inline: from the reason or from pre_log_path, the first attempt's.
InlineClass(k) ==
  IF ReasonClass(Reason(k)) # NoClass THEN ReasonClass(Reason(k))
  ELSE ReadClass(logs[AttemptLog(k, attempts, 1)])

Record(k, status, reason, class) ==
  /\ rows' = [rows EXCEPT ![k] = [status |-> status, reason |-> reason, class |-> class]]
  /\ work' = [work EXCEPT ![k] = NoWork]
  /\ own' = IF reason = "failed" THEN own ELSE [own EXCEPT ![k] = NoOwn]

\* An entry of the post commit is there: it is verified instead, and nothing is
\* written to the candidate's logs.  A thin image that does not build is recorded
\* like a failure, without a class.
Regenerate(k) ==
  /\ work[k].pc = "todo"
  /\ \/ Record(k, "not_reproducible", "thin image", NoClass)
     \/ Record(k, "regenerated", None, NoClass)
  /\ UNCHANGED <<attempts, runs, logs, author, touched>>

\* A pre commit that fails: classified, and retried if a stale lock file was why.
NotReproduced(k) ==
  /\ work[k].pc = "post" /\ work[k].pre # "ok"
  /\ IF RelaxLocked /\ InlineClass(k).category = "LOCK_FILE_STALE"
     THEN /\ work' = [work EXCEPT ![k].pc = "stale", ![k].class = InlineClass(k)]
          /\ UNCHANGED <<rows, own>>
     ELSE Record(k, "not_reproducible", Reason(k), InlineClass(k))
  /\ UNCHANGED <<attempts, runs, logs, author, touched>>

\* The relaxed retry has logs of its own ...
Retry(k) ==
  /\ work[k].pc = "stale"
  /\ Open(k, RelockLog(k))
  /\ \E out \in Outcomes(RetryLogs) :
       work' = [work EXCEPT ![k].pc = "retry", ![k].log = out.log, ![k].pre = out.rc]
  /\ UNCHANGED <<attempts, runs, rows, own, touched>>

\* ... and unless both its commits pass the first answer stands.
Relock(k) ==
  /\ work[k].pc = "retry" /\ Printed(k)
  /\ \/ work[k].pre = "ok" /\ Record(k, "ok_after_relock", None, NoClass)
     \/ Record(k, "not_reproducible", "failed", work[k].class)
  /\ UNCHANGED <<attempts, runs, logs, author, touched>>

\* A pre commit that passes: the post commit's failure is named by Scheme 1.
Reproduced(k) ==
  /\ work[k].pc = "post" /\ work[k].pre = "ok"
  /\ IF work[k].post = "ok" THEN Record(k, "non-breaking", None, NoClass)
     ELSE Record(k, "breaking", None, Classify(work[k].text))
  /\ UNCHANGED <<attempts, runs, logs, author, touched>>

\* A shutdown: the candidates under way keep their logs and get no row.
Drop ==
  /\ \E k \in Keys : work[k].pc # "idle"
  /\ work' = [k \in Keys |-> NoWork]
  /\ own' = [k \in Keys |-> IF rows[k].status = "none" THEN NoOwn ELSE own[k]]
  /\ UNCHANGED <<attempts, runs, logs, rows, author, touched>>

\* The body of _reclassify_mode's loop: the log is looked for where a run of
\* one attempt leaves it.
PostHocClass(k) ==
  IF ReasonClass(rows[k].reason) # NoClass THEN ReasonClass(rows[k].reason)
  ELSE IF k \notin Listed THEN [category |-> "OTHER", sub |-> None]
  ELSE ReadClass(logs[<<ShortOf[k], Plain>>])

\* _reclassify_mode on one row of those it selects.
Reclassify(k) ==
  /\ rows[k].status = "not_reproducible"
  /\ rows' = [rows EXCEPT ![k].class = PostHocClass(k)]
  /\ touched' = touched \cup {k}
  /\ UNCHANGED <<attempts, runs, logs, work, own, author>>

Next ==
  \/ \E n \in 1 .. MaxAttempts : StartRun(n)
  \/ Drop
  \/ \E k \in Keys :
       \/ RunPre(k) \/ WriteLine(k) \/ RunPost(k) \/ Regenerate(k) \/ NotReproduced(k)
       \/ Retry(k) \/ Relock(k) \/ Reproduced(k) \/ Reclassify(k)

Spec == Init /\ [][Next]_vars

-----------------------------------------------------------------------------
(* Properties *)

\* The names of the two schemes, and the kinds that stand for their details.
TopCategories ==
  { "COMPILATION_FAILURE", "ENVIRONMENT_FAILURE", "DEPENDENCY_RESOLUTION_FAILURE",
    "TEST_FAILURE", "OTHER" }
Kinds ==
  { None, "", "REGENERATE_FAIL", "json_target_spec", "fuse", "GIT_DEP_GONE", "RESOLVE_PATCHES",
    "REGISTRY_RESOLVER", "SIGSEGV", "BUILD_SCRIPT_PANIC", Codes[1], Codes[2], Codes[3],
    "RUNTIME_MEM_UNINIT", "-l", "sym", "TRAIT_BOUND_NOT_SATISFIED", "TYPE_MISMATCH",
    "OTHER_COMPILE_ERROR", "TEST_TIMEOUT", "OPENSSL_VERSION_DETECT", "INCOMPATIBLE_COMPILER",
    "LOCK_FILE_STALE", "OTHER_TEST_FAILURE" }
Class == [category : Categories \cup TopCategories \cup {None}, sub : Kinds]

\* Types; every name is one the schemes list (CATEGORIES, TopFailureCategory).
TypeOK ==
  /\ attempts \in 0 .. MaxAttempts /\ runs \in 0 .. MaxRuns
  /\ logs \in [Paths -> Seq(LogLines)]
  /\ work \in [Keys -> [pc : {"idle", "todo", "pre", "post", "stale", "retry"},
                        i : 0 .. MaxAttempts, log : Seq(LogLines), at : Nat,
                        pre : {"ok", "fail", "timeout"}, post : {"ok", "fail", "timeout"},
                        text : Seq(LogLines),
                        class : Class]]
  /\ rows \in [Keys -> [status : {"none", "not_reproducible", "ok_after_relock",
                                  "breaking", "non-breaking", "regenerated"},
                        reason : {None, "failed", "timed out", "thin image"}, class : Class]]
  /\ own \in [Keys -> [log : Seq(LogLines), n : 0 .. MaxAttempts, run : 0 .. MaxRuns]]
  /\ author \in [Paths -> [key : Keys \cup {None}, run : 0 .. MaxRuns]]
  /\ touched \subseteq Keys

\* Nobody else has written to the first log of the run that made the row.
OwnLogStands(k) ==
  author[AttemptLog(k, own[k].n, 1)] = [key |-> k, run |-> own[k].run]

\* A row that says why a candidate was not reproduced says it of the log of its
\* own first attempt, whoever wrote the row last: the driver or, with the rules
\* unchanged, --reclassify ("the rules changed, update old rows").  Two things
\* excuse it: another candidate of the post commit wrote to the log, over it or
\* into it while the test ran, and --reclassify looked for a log it cannot find
\* because the run made several attempts or the file of candidates lacks the
\* candidate.  A timeout and a thin image that did not build are never told from
\* a log ("the pre-log on disk is from an earlier run"), so that nothing excuses
\* them; the driver leaves the latter without a class.
RowsTellOwnLog ==
  \A k \in Keys : rows[k].status = "not_reproducible" =>
    LET row == rows[k] IN
    /\ row.reason = "timed out" => row.class.category = "TIMEOUT"
    /\ row.reason = "thin image" => IF k \in touched THEN row.class.sub = "REGENERATE_FAIL"
                                    ELSE row.class = NoClass
    /\ row.reason \notin {"timed out", "thin image"} =>
         \/ row.class = ReadClass(own[k].log)
         \/ ~OwnLogStands(k)
         \/ k \in touched /\ (own[k].n > 1 \/ k \notin Listed)

\* Names that rules give only to a log in which no cause was found before: of
\* failed tests, the network, the message format, the linker, or nothing.
Weak ==
  [category : {"TEST_FAILURE", "NETWORK_ERROR", "OLD_MESSAGE_FORMAT", "RUSTC_BITROT", "NO_LOG",
               "OTHER"},
   sub : {None}]
  \cup [category : {"NATIVE_DEP_MISSING"}, sub : {"-l", "sym"}]

\* What a program on the way prints: no error line and no error record.
Chatter == ChatterLines \cup JsonWarning

\* A line of chatter before a log hides no cause Scheme 2 finds in it ("emit
\* OpenSSL / env / lockfile chatter early and then die on an unrelated cause"),
\* though rules match some of it anywhere: it may name a log that has only a weak
\* name, the marker of nightly-only crates is a cause itself, and a package that
\* was not found explains the failure of its build script.  Nor does the summary
\* that every failed build ends with, behind a log, but where nothing else is.
HidesNothing(log) ==
  LET was == ClassifyFull(log) IN
  /\ \A x \in Chatter :
       LET now == ClassifyFull(<<x>> \o log) IN
       \/ now = was
       \/ was \in Weak
       \/ x = "incompatible compiler" /\ now.category = "NIGHTLY_REQUIRED"
       \/ /\ x = "Package fuse was not found" /\ Terminal(log) = "error: fuse build"
          /\ now.category = "NATIVE_DEP_MISSING"
  /\ \A g \in Generic :
       ClassifyFull(Append(log, g)) = was \/ was.category \in {"NO_LOG", "OTHER"}

NoiseIgnored == runs = 0 => \A log \in Samples : HidesNothing(log)

\* A breaking update is filed as a compilation failure only if the compiler
\* reported an error ("COMPILATION_FAILURE - source code fails to compile",
\* "TEST_FAILURE - compilation succeeds, tests fail").
CompilationMeansError ==
  \A k \in Keys : work[k].pc = "post" /\ work[k].pre = "ok" /\ work[k].post # "ok" =>
    (Classify(work[k].text).category = "COMPILATION_FAILURE" => Has(work[k].text, JsonErrors))
=============================================================================
