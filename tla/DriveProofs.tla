----------------------------- MODULE DriveProofs -----------------------------
(***************************************************************************)
(* Theorems about Drive, for every candidates file, every pool of workers  *)
(* and every choice of the options: the types of its state, and the three  *)
(* safety properties that need nothing else: nothing the shutdown cut      *)
(* short is recorded, the database mirrors the state file in order, and a  *)
(* record has the rows its verdict rests on.                               *)
(***************************************************************************)
EXTENDS Drive, TLAPS

(***************************************************************************)
(* Types.  A worker that is not idle has a candidate (so that its key and  *)
(* its entry id are ones), a worker past its verdict has a status, and the *)
(* run in progress has a number (so that its run id is one).               *)
(***************************************************************************)
Verdict(p, j) ==
  \/ p \in {"relock", "attempts", "check", "append", "mirror", "mirrorclass"}
  \/ p \in {"open", "close"} /\ j.mode # "new"

\* Up to the assembly it works on a new entry.
Fresh == {"resolve", "repro", "relock", "assemble"}

\* From its reproduction to the rows of it, a job rests on one.
Reproduced(p, j) ==
  \/ p \in {"relock", "attempts", "assemble", "index", "indexed"}
  \/ p \in {"open", "close", "regen", "verify"} /\ j.mode = "new"

Holds(p, j) ==
  /\ p # "idle" => j.line \in Lines
  /\ p \in Fresh => j.mode = "new"
  /\ Verdict(p, j) => j.status \in Statuses
  /\ Reproduced(p, j) => j.basis \in Kinds

JobsOK ==
  /\ pc \in [Workers -> PCs] /\ job \in [Workers -> Job]
  /\ \A w \in Workers : Holds(pc[w], job[w])
BufOK == buf \in [Workers -> EntryFile]

RunCounted == run <= MaxRuns /\ (driver = "running" => run > 0)

TInv ==
  /\ DiskOK /\ DbOK /\ ProcessOK /\ LocksOK /\ HistoryOK /\ CountersOK
  /\ JobsOK /\ BufOK /\ RunCounted

\* What a step leaves alone keeps its type.
LEMMA Frames ==
  /\ DiskOK /\ UNCHANGED disk => DiskOK'
  /\ DbOK /\ UNCHANGED db => DbOK'
  /\ ProcessOK /\ UNCHANGED process => ProcessOK'
  /\ LocksOK /\ UNCHANGED locks => LocksOK'
  /\ HistoryOK /\ UNCHANGED history => HistoryOK'
  /\ CountersOK /\ UNCHANGED counters /\ faults' \in Nat => CountersOK'
  /\ JobsOK /\ UNCHANGED <<pc, job>> => JobsOK'
  /\ BufOK /\ UNCHANGED buf => BufOK'
  /\ RunCounted /\ UNCHANGED <<run, driver>> => RunCounted'
<1>1. DiskOK /\ UNCHANGED disk => DiskOK' BY DEF DiskOK, disk
<1>2. DbOK /\ UNCHANGED db => DbOK' BY DEF DbOK, db
<1>3. ProcessOK /\ UNCHANGED process => ProcessOK' BY DEF ProcessOK, process
<1>4. LocksOK /\ UNCHANGED locks => LocksOK' BY DEF LocksOK, locks
<1>5. HistoryOK /\ UNCHANGED history => HistoryOK' BY DEF HistoryOK, history
<1>6. CountersOK /\ UNCHANGED counters /\ faults' \in Nat => CountersOK'
  BY DEF CountersOK, counters
<1>7. JobsOK /\ UNCHANGED <<pc, job>> => JobsOK' BY DEF JobsOK
<1>8. BufOK /\ UNCHANGED buf => BufOK' BY DEF BufOK
<1>9. RunCounted /\ UNCHANGED <<run, driver>> => RunCounted' BY DEF RunCounted
<1>. QED BY <1>1, <1>2, <1>3, <1>4, <1>5, <1>6, <1>7, <1>8, <1>9

\* A worker moves: what is left to show is about its new place and job alone.
LEMMA Moves ==
  ASSUME JobsOK, NEW w \in Workers, NEW p \in PCs, NEW j \in Job,
         pc' = [pc EXCEPT ![w] = p], job' = [job EXCEPT ![w] = j],
         Holds(p, j)
  PROVE  JobsOK'
<1>1. pc' \in [Workers -> PCs] /\ job' \in [Workers -> Job] BY DEF JobsOK
<1>2. ASSUME NEW v \in Workers PROVE Holds(pc'[v], job'[v])
  <2>1. CASE v = w BY <2>1 DEF JobsOK
  <2>2. CASE v # w
    <3>1. pc'[v] = pc[v] /\ job'[v] = job[v] BY <2>2 DEF JobsOK
    <3>. QED BY <3>1 DEF JobsOK
  <2>. QED BY <2>1, <2>2
<1>. QED BY <1>1, <1>2 DEF JobsOK

\* It moves and its job stays.
LEMMA GoesTo ==
  ASSUME JobsOK, NEW w \in Workers, NEW p \in PCs,
         Goto(w, p), job' = job, Holds(p, job[w])
  PROVE  JobsOK'
<1>1. job' = [job EXCEPT ![w] = job[w]] BY DEF JobsOK
<1>2. job[w] \in Job BY DEF JobsOK
<1>. QED BY <1>1, <1>2, Moves DEF Goto

LEMMA Concludes ==
  ASSUME JobsOK, NEW w \in Workers, NEW s \in Statuses,
         pc[w] # "idle", Conclude(w, s)
  PROVE  JobsOK'
<1>. DEFINE j == [job[w] EXCEPT !.status = s]
<1>1. job[w] \in Job /\ job[w].line \in Lines BY DEF JobsOK, Holds
<1>2. j \in Job /\ j.line \in Lines /\ j.status = s BY <1>1 DEF Job
<1>3. "check" \in PCs BY DEF PCs
<1>4. Holds("check", j) BY <1>2 DEF Holds, Fresh, Reproduced
<1>5. pc' = [pc EXCEPT ![w] = "check"] /\ job' = [job EXCEPT ![w] = j]
  BY DEF Conclude, Goto
<1>. QED BY <1>2, <1>3, <1>4, <1>5, Moves

LEMMA Rests ==
  ASSUME JobsOK, NEW w \in Workers, Goto(w, "idle"), job' = [job EXCEPT ![w] = NoJob]
  PROVE  JobsOK'
<1>1. NoJob \in Job BY DEF NoJob, NewJob, Job, Modes, Categories, Bases
<1>2. "idle" \in PCs /\ Holds("idle", NoJob) BY DEF PCs, Holds, Fresh, Verdict, Reproduced
<1>. QED BY <1>1, <1>2, Moves DEF Goto

LEMMA Blanks == \A st \in {"absent", "torn", "whole"} : Blank(st) \in EntryFile
  BY DriveAssumption DEF Blank, EntryFile

\* The candidate of a worker that is not idle has a key and an entry id.
LEMMA HasKey ==
  ASSUME JobsOK, NEW w \in Workers, pc[w] # "idle"
  PROVE  Candidate(w) \in Lines /\ Key(w) \in Keys /\ Entry(w) \in EntryIds
  BY DriveAssumption DEF JobsOK, Holds, Candidate, Key, Entry

LEMMA HasRunId ==
  ASSUME CountersOK, RunCounted, driver = "running"
  PROVE  RunIdOf(run) \in RunIds
  BY DriveAssumption DEF CountersOK, RunCounted, RunIdOf, RunIds

THEOREM InitTypes == Init => TInv
<1>. SUFFICES ASSUME Init PROVE TInv OBVIOUS
<1>1. NoJob \in Job BY DEF NoJob, NewJob, Job, Modes, Categories, Bases
<1>2. JobsOK BY <1>1 DEF Init, JobsOK, Holds, Fresh, Verdict, Reproduced, PCs
<1>3. files \in [EntryIds -> EntryFile]
  <2>1. ASSUME NEW e \in EntryIds PROVE files[e] \in EntryFile
    <3>. DEFINE st == IF Prior[e] = NoTag THEN "absent" ELSE "whole"
    <3>1. Blank(st) \in EntryFile BY Blanks
    <3>2. Prior[e] \in Tags \cup {NoTag} BY DriveAssumption
    <3>. QED BY <3>1, <3>2 DEF Init, EntryFile
  <2>. QED BY <2>1 DEF Init
<1>4. DiskOK BY <1>3, DriveAssumption DEF Init, DiskOK
<1>5. BufOK BY Blanks DEF Init, BufOK
<1>6. DbOK BY DEF Init, DbOK, Categories
<1>7. ProcessOK
  <2>1. canon \in [Lines -> Tags \cup {NoTag}] BY DriveAssumption DEF Init
  <2>2. shutdown \in BOOLEAN /\ killPass \in BOOLEAN BY DEF Init
  <2>. QED BY <2>1, <2>2 DEF Init, ProcessOK
<1>8. LocksOK /\ HistoryOK BY DEF Init, LocksOK, HistoryOK
<1>9. CountersOK /\ RunCounted BY DriveAssumption DEF Init, CountersOK, RunCounted
<1>. QED BY <1>2, <1>4, <1>5, <1>6, <1>7, <1>8, <1>9 DEF TInv

-----------------------------------------------------------------------------
(* The steps of a worker keep TInv: one lemma per action. *)

\* A step that changes nothing but where a worker is and its job.
LEMMA Stays ==
  ASSUME TInv, JobsOK',
         UNCHANGED <<disk, db, process, locks, buf, history, counters, faults>>
  PROVE  TInv'
<1>1. faults' \in Nat BY DEF TInv, CountersOK
<1>2. UNCHANGED <<run, driver>> BY DEF counters, process
<1>. QED BY <1>1, <1>2, Frames DEF TInv

LEMMA TakeTypes == ASSUME TInv, NEW w \in Workers, Take(w) PROVE TInv'
<1>1. PICK l \in todo : todo' = todo \ {l} /\ job' = [job EXCEPT ![w] = NewJob(l)]
  BY DEF Take
<1>2. l \in Lines BY DEF TInv, ProcessOK
<1>3. NewJob(l) \in Job /\ NewJob(l).line = l /\ NewJob(l).mode = "new"
  BY <1>2 DEF NewJob, Job, Modes, Categories, Bases
<1>4. "resolve" \in PCs /\ Holds("resolve", NewJob(l))
  BY <1>2, <1>3 DEF PCs, Holds, Fresh, Verdict, Reproduced
<1>5. JobsOK' BY <1>1, <1>3, <1>4, Moves DEF Take, Goto, TInv
<1>6. ProcessOK' BY <1>1 DEF Take, TInv, ProcessOK
<1>7. UNCHANGED <<disk, db, locks, buf, history, counters, run, driver>> /\ faults' \in Nat
  BY DEF Take, counters, TInv, CountersOK
<1>. QED BY <1>5, <1>6, <1>7, Frames DEF TInv

LEMMA SkipTypes == ASSUME TInv, NEW w \in Workers, Skip(w) PROVE TInv'
<1>1. ProcessOK' BY DEF Skip, TInv, ProcessOK
<1>2. /\ UNCHANGED <<disk, db, locks, pc, job, buf, history, counters, run, driver>>
      /\ faults' \in Nat
  BY DEF Skip, counters, threads, TInv, CountersOK
<1>. QED BY <1>1, <1>2, Frames DEF TInv

\* MetadataFails, FlagStale, RejectLate, ImageMissing, and a failed BuildImage.
LEMMA RefusalTypes ==
  ASSUME TInv, NEW w \in Workers, NEW s \in Statuses,
         At(w, "resolve"), Conclude(w, s),
         UNCHANGED <<disk, db, process, locks, buf, history, counters, faults>>
  PROVE  TInv'
<1>1. JobsOK' BY Concludes DEF At, TInv
<1>. QED BY <1>1, Stays

LEMMA ExistingTypes == ASSUME TInv, NEW w \in Workers, VerifyExisting(w) PROVE TInv'
<1>. DEFINE j == [job[w] EXCEPT !.mode = "existing"]
<1>1. job[w] \in Job /\ job[w].line \in Lines
  BY DEF VerifyExisting, At, TInv, JobsOK, Holds
<1>2. j \in Job /\ j.line \in Lines BY <1>1 DEF Job, Modes
<1>3. "regen" \in PCs /\ Holds("regen", j) BY <1>2 DEF PCs, Holds, Fresh, Verdict, Reproduced
<1>4. pc' = [pc EXCEPT ![w] = "regen"] /\ job' = [job EXCEPT ![w] = j]
  BY DEF VerifyExisting, Goto
<1>5. JobsOK' BY <1>2, <1>3, <1>4, Moves DEF TInv
<1>. QED BY <1>5, Stays DEF VerifyExisting

\* The job of a worker at "resolve" or beyond, moved to a place without a verdict.
LEMMA Onwards ==
  ASSUME JobsOK, NEW w \in Workers, pc[w] # "idle", NEW p \in PCs, ~Verdict(p, job[w]),
         Reproduced(p, job[w]) => Reproduced(pc[w], job[w]),
         p \in Fresh => job[w].mode = "new", Goto(w, p), job' = job
  PROVE  JobsOK'
<1>1. Holds(p, job[w]) BY DEF JobsOK, Holds
<1>. QED BY <1>1, GoesTo

LEMMA BuildTypes == ASSUME TInv, NEW w \in Workers, BuildImage(w) PROVE TInv'
<1>1. pc[w] # "idle" BY DEF BuildImage, At
<1>2. UNCHANGED <<jsonl, garbled, files, db, process, locks, buf, history, counters, faults>>
  BY DEF BuildImage
<1>3. CASE Conclude(w, "fat_image_build_failed") /\ UNCHANGED ledger
  <2>1. "fat_image_build_failed" \in Statuses BY DEF Statuses, TerminalFailure
  <2>2. UNCHANGED disk BY <1>2, <1>3 DEF disk
  <2>. QED BY <1>2, <1>3, <2>1, <2>2, RefusalTypes DEF BuildImage
<1>4. CASE /\ ledger' = ledger \cup {TagFor(Candidate(w))}
           /\ Goto(w, "repro") /\ UNCHANGED job
  <2>1. /\ "repro" \in PCs /\ ~Verdict("repro", job[w]) /\ job[w].mode = "new"
        /\ ~Reproduced("repro", job[w])
    BY DEF PCs, Verdict, BuildImage, At, TInv, JobsOK, Holds, Fresh, Reproduced
  <2>2. JobsOK' BY <1>1, <1>4, <2>1, Onwards DEF TInv
  <2>3. TagFor(Candidate(w)) \in Tags
    <3>1. Candidate(w) \in Lines BY <1>1, HasKey DEF TInv
    <3>2. TagFor(Candidate(w)) \in Tags \cup {NoTag}
      BY <3>1, DriveAssumption DEF TagFor, TInv, ProcessOK
    <3>3. TagFor(Candidate(w)) # NoTag BY DEF BuildImage, Buildable
    <3>. QED BY <3>2, <3>3
  <2>4. DiskOK' BY <1>2, <1>4, <2>3 DEF TInv, DiskOK
  <2>5. UNCHANGED <<run, driver>> /\ faults' \in Nat
    BY <1>2 DEF counters, process, TInv, CountersOK
  <2>. QED BY <1>2, <2>2, <2>4, <2>5, Frames DEF TInv
<1>. QED BY <1>3, <1>4 DEF BuildImage

LEMMA ResolvedTypes == ASSUME TInv, NEW w \in Workers, ImageResolved(w) PROVE TInv'
<1>1. /\ "repro" \in PCs /\ ~Verdict("repro", job[w]) /\ job[w].mode = "new"
      /\ ~Reproduced("repro", job[w])
  BY DEF PCs, Verdict, ImageResolved, At, TInv, JobsOK, Holds, Fresh, Reproduced
<1>2. JobsOK' BY <1>1, Onwards DEF ImageResolved, At, TInv
<1>. QED BY <1>2, Stays DEF ImageResolved

LEMMA ReproduceTypes == ASSUME TInv, NEW w \in Workers, Reproduce(w) PROVE TInv'
<1>1. /\ pc[w] = "repro" /\ job[w] \in Job /\ job[w].line \in Lines
      /\ job[w].mode = "new"
  BY DEF Reproduce, At, TInv, JobsOK, Holds, Fresh, Reproduced
<1>2. PICK o \in Returns(Attempts, killPass) :
         IF o.pre
         THEN /\ job' = [job EXCEPT ![w].flaky = o.flaky, ![w].killed = o.killed,
                                    ![w].basis = "strict"]
              /\ Goto(w, "assemble")
         ELSE PreFails(w, o)
  BY DEF Reproduce
<1>3. o.flaky \in BOOLEAN /\ o.killed \in BOOLEAN /\ "strict" \in Bases
  BY DEF Returns, Outcome, Bases, Kinds
<1>4. JobsOK'
  <2>1. CASE o.pre
    <3>. DEFINE j == [job[w] EXCEPT !.flaky = o.flaky, !.killed = o.killed,
                                    !.basis = "strict"]
    <3>1. j \in Job /\ j.line \in Lines /\ j.mode = "new" /\ j.basis \in Kinds
      BY <1>1, <1>3 DEF Job, Kinds
    <3>2. "assemble" \in PCs /\ Holds("assemble", j) BY <3>1 DEF PCs, Holds, Fresh, Verdict, Reproduced
    <3>3. pc' = [pc EXCEPT ![w] = "assemble"] /\ job' = [job EXCEPT ![w] = j]
      BY <1>2, <2>1 DEF Goto
    <3>. QED BY <3>1, <3>2, <3>3, Moves DEF TInv
  <2>2. CASE ~o.pre
    <3>1. PICK c \in Categories \ {"none"} :
            /\ job' = [job EXCEPT ![w].status = "not_reproducible", ![w].category = c,
                                  ![w].flaky = o.flaky, ![w].killed = o.killed,
                                  ![w].basis = "strict"]
            /\ Goto(w, IF RelaxLocked /\ c = "LOCK_FILE_STALE" THEN "relock"
                       ELSE IF WithDb THEN "attempts" ELSE "check")
      BY <1>2, <2>2 DEF PreFails
    <3>. DEFINE j == [job[w] EXCEPT !.status = "not_reproducible", !.category = c,
                                    !.flaky = o.flaky, !.killed = o.killed,
                                    !.basis = "strict"]
                p == IF RelaxLocked /\ c = "LOCK_FILE_STALE" THEN "relock"
                     ELSE IF WithDb THEN "attempts" ELSE "check"
    <3>2. "not_reproducible" \in Statuses BY DEF Statuses, TerminalFailure
    <3>3. /\ j \in Job /\ j.line \in Lines /\ j.status \in Statuses
          /\ j.mode = "new" /\ j.basis \in Kinds
      BY <1>1, <1>3, <3>2 DEF Job, Kinds
    <3>4. p \in PCs BY DEF PCs
    <3>5. Holds(p, j) BY <3>3 DEF Holds, Fresh, Reproduced
    <3>6. pc' = [pc EXCEPT ![w] = p] /\ job' = [job EXCEPT ![w] = j]
      BY <3>1 DEF Goto
    <3>. HIDE DEF j, p
    <3>. QED BY <3>3, <3>4, <3>5, <3>6, Moves DEF TInv
  <2>. QED BY <2>1, <2>2
<1>5. /\ UNCHANGED <<disk, db, process, locks, buf, history, counters, run, driver>>
      /\ faults' \in Nat
  BY DEF Reproduce, counters, process, TInv, CountersOK
<1>. QED BY <1>4, <1>5, Frames DEF TInv

LEMMA RelockTypes == ASSUME TInv, NEW w \in Workers, Relock(w) PROVE TInv'
<1>1. /\ pc[w] = "relock" /\ job[w] \in Job /\ job[w].line \in Lines
      /\ job[w].status \in Statuses /\ job[w].mode = "new" /\ job[w].basis \in Kinds
  BY DEF Relock, At, TInv, JobsOK, Holds, Fresh, Verdict, Reproduced
<1>2. PICK o \in Returns(1, killPass) :
         IF o.pre /\ o.post
         THEN /\ job' = [job EXCEPT ![w].status = "ok_after_relock",
                                    ![w].category = "none",
                                    ![w].basis = "relock"]
              /\ Goto(w, "assemble")
         ELSE /\ job' = [job EXCEPT ![w].killed = @ \/ o.killed]
              /\ Goto(w, IF WithDb THEN "attempts" ELSE "check")
  BY DEF Relock
<1>3. JobsOK'
  <2>1. CASE o.pre /\ o.post
    <3>. DEFINE j == [job[w] EXCEPT !.status = "ok_after_relock", !.category = "none",
                                    !.basis = "relock"]
    <3>1. "ok_after_relock" \in Statuses /\ "none" \in Categories /\ "relock" \in Bases
      BY DEF Statuses, TerminalSuccess, Categories, Bases, Kinds
    <3>2. j \in Job /\ j.line \in Lines /\ j.mode = "new" /\ j.basis \in Kinds
      BY <1>1, <3>1 DEF Job, Kinds
    <3>3. "assemble" \in PCs /\ Holds("assemble", j) BY <3>2 DEF PCs, Holds, Fresh, Verdict, Reproduced
    <3>4. pc' = [pc EXCEPT ![w] = "assemble"] /\ job' = [job EXCEPT ![w] = j]
      BY <1>2, <2>1 DEF Goto
    <3>. QED BY <3>2, <3>3, <3>4, Moves DEF TInv
  <2>2. CASE ~(o.pre /\ o.post)
    <3>. DEFINE j == [job[w] EXCEPT !.killed = @ \/ o.killed]
                p == IF WithDb THEN "attempts" ELSE "check"
    <3>1. (job[w].killed \/ o.killed) \in BOOLEAN OBVIOUS
    <3>2. j \in Job /\ j.line \in Lines /\ j.status \in Statuses /\ j.basis \in Kinds
      BY <1>1, <3>1 DEF Job
    <3>3. p \in PCs /\ Holds(p, j) BY <3>2 DEF PCs, Holds, Fresh, Reproduced
    <3>4. pc' = [pc EXCEPT ![w] = p] /\ job' = [job EXCEPT ![w] = j]
      BY <1>2, <2>2 DEF Goto
    <3>. HIDE DEF j, p
    <3>. QED BY <3>2, <3>3, <3>4, Moves DEF TInv
  <2>. QED BY <2>1, <2>2
<1>4. /\ UNCHANGED <<disk, db, process, locks, buf, history, counters, run, driver>>
      /\ faults' \in Nat
  BY DEF Relock, counters, process, TInv, CountersOK
<1>. QED BY <1>3, <1>4, Frames DEF TInv

LEMMA RecordAttemptsTypes ==
  ASSUME TInv, NEW w \in Workers, RecordAttempts(w) PROVE TInv'
<1>1. pc[w] = "attempts" BY DEF RecordAttempts, At
<1>2. "check" \in PCs /\ Holds("check", job[w])
  BY <1>1 DEF PCs, TInv, JobsOK, Holds, Fresh, Verdict, Reproduced
<1>3. JobsOK' BY <1>2, GoesTo DEF RecordAttempts, TInv
<1>4. Key(w) \in Keys /\ job[w].basis \in Kinds /\ run \in Nat
  BY <1>1, HasKey DEF TInv, JobsOK, Holds, Reproduced, CountersOK
<1>5. DbOK' BY <1>4 DEF RecordAttempts, RowsOf, TInv, DbOK
<1>6. /\ UNCHANGED <<disk, process, locks, buf, history, counters, run, driver>>
      /\ faults' \in Nat
  BY DEF RecordAttempts, counters, process, TInv, CountersOK
<1>. QED BY <1>3, <1>5, <1>6, Frames DEF TInv

LEMMA AssembleTypes == ASSUME TInv, NEW w \in Workers, Assemble(w) PROVE TInv'
<1>1. pc[w] = "assemble" BY DEF Assemble, At
<1>2. UNCHANGED <<disk, db, process, locks, history, counters, faults>>
  BY DEF Assemble
<1>3. CASE Conclude(w, "assemble_failed") /\ UNCHANGED buf
  <2>1. "assemble_failed" \in Statuses BY DEF Statuses, TerminalFailure
  <2>2. JobsOK' BY <1>1, <1>3, <2>1, Concludes DEF TInv
  <2>. QED BY <1>2, <1>3, <2>2, Stays
<1>4. CASE /\ buf' = [buf EXCEPT ![w] =
                        [st |-> "whole", tag |-> TagFor(Candidate(w)),
                         killed |-> job[w].killed, verified |-> 0]]
           /\ Goto(w, "open") /\ UNCHANGED job
  <2>. DEFINE e == [st |-> "whole", tag |-> TagFor(Candidate(w)),
                    killed |-> job[w].killed, verified |-> 0]
  <2>1. Candidate(w) \in Lines BY <1>1, HasKey DEF TInv
  <2>2. TagFor(Candidate(w)) \in Tags \cup {NoTag}
    BY <2>1, DriveAssumption DEF TagFor, TInv, ProcessOK
  <2>3. job[w].killed \in BOOLEAN BY DEF TInv, JobsOK, Job
  <2>5. e \in EntryFile BY <2>2, <2>3 DEF EntryFile
  <2>6. BufOK' BY <1>4, <2>5 DEF TInv, BufOK
  <2>7. "open" \in PCs BY DEF PCs
  <2>8. /\ ~Verdict("open", job[w]) /\ "open" \notin Fresh
        /\ Reproduced(pc[w], job[w])
    BY <1>1 DEF TInv, JobsOK, Holds, Fresh, Verdict, Reproduced
  <2>9. JobsOK' BY <1>1, <1>4, <2>7, <2>8, Onwards DEF TInv
  <2>10. UNCHANGED <<run, driver>> /\ faults' \in Nat
    BY <1>2 DEF counters, process, TInv, CountersOK
  <2>. QED BY <1>2, <2>6, <2>9, <2>10, Frames DEF TInv
<1>. QED BY <1>3, <1>4 DEF Assemble

LEMMA OpenTypes == ASSUME TInv, NEW w \in Workers, OpenEntry(w) PROVE TInv'
<1>1. pc[w] = "open" BY DEF OpenEntry, At
<1>2. "close" \in PCs /\ Holds("close", job[w])
  BY <1>1 DEF PCs, TInv, JobsOK, Holds, Fresh, Verdict, Reproduced
<1>3. JobsOK' BY <1>2, GoesTo DEF OpenEntry, TInv
<1>4. Entry(w) \in EntryIds BY <1>1, HasKey DEF TInv
<1>5. files' \in [EntryIds -> EntryFile]
  BY <1>4, Blanks DEF OpenEntry, TInv, DiskOK
<1>6. DiskOK' BY <1>5 DEF OpenEntry, TInv, DiskOK
<1>7. /\ UNCHANGED <<db, process, locks, buf, history, counters, run, driver>>
      /\ faults' \in Nat
  BY DEF OpenEntry, counters, process, TInv, CountersOK
<1>. QED BY <1>3, <1>6, <1>7, Frames DEF TInv

\* After the write of a new entry: regenerate, or a final status.
LEMMA AfterWriteTypes ==
  ASSUME TInv, NEW w \in Workers, pc[w] \in {"close", "indexed"}, AfterWrite(w)
  PROVE  JobsOK'
<1>1. job[w] \in Job /\ job[w].line \in Lines BY DEF TInv, JobsOK, Holds
<1>2. CASE RegenerateVerify
  <2>. DEFINE j == [job[w] EXCEPT !.mode = "assembled"]
  <2>1. j \in Job /\ j.line \in Lines BY <1>1 DEF Job, Modes
  <2>2. "regen" \in PCs /\ Holds("regen", j) BY <2>1 DEF PCs, Holds, Fresh, Verdict, Reproduced
  <2>3. pc' = [pc EXCEPT ![w] = "regen"] /\ job' = [job EXCEPT ![w] = j]
    BY <1>2 DEF AfterWrite, Goto
  <2>. QED BY <2>1, <2>2, <2>3, Moves DEF TInv
<1>3. CASE ~RegenerateVerify
  <2>1. FinalStatus(job[w]) \in Statuses
    BY DEF FinalStatus, Statuses, TerminalSuccess, TerminalFlaky
  <2>2. Conclude(w, FinalStatus(job[w])) BY <1>3 DEF AfterWrite
  <2>. QED BY <2>1, <2>2, Concludes DEF TInv
<1>. QED BY <1>2, <1>3

LEMMA CloseTypes == ASSUME TInv, NEW w \in Workers, CloseEntry(w) PROVE TInv'
<1>1. pc[w] = "close" BY DEF CloseEntry, At
<1>2. Entry(w) \in EntryIds BY <1>1, HasKey DEF TInv
<1>3. files' \in [EntryIds -> EntryFile]
  <2>1. buf[w] \in EntryFile BY DEF TInv, BufOK
  <2>. QED BY <1>2, <2>1, Blanks DEF CloseEntry, TInv, DiskOK
<1>4. DiskOK' BY <1>3 DEF CloseEntry, TInv, DiskOK
<1>5. BufOK' BY Blanks DEF CloseEntry, TInv, BufOK
<1>6. JobsOK'
  <2>1. CASE job[w].mode = "new" /\ WithDb
    <3>1. /\ "index" \in PCs /\ ~Verdict("index", job[w]) /\ "index" \notin Fresh
          /\ Reproduced(pc[w], job[w])
      BY <1>1, <2>1 DEF PCs, Verdict, Fresh, Reproduced
    <3>. QED BY <1>1, <2>1, <3>1, Onwards DEF CloseEntry, TInv
  <2>2. CASE job[w].mode = "new" /\ ~WithDb
    BY <1>1, <2>2, AfterWriteTypes DEF CloseEntry
  <2>3. CASE job[w].mode # "new"
    <3>1. "check" \in PCs /\ Holds("check", job[w])
      BY <1>1, <2>3 DEF PCs, TInv, JobsOK, Holds, Fresh, Verdict, Reproduced
    <3>. QED BY <2>3, <3>1, GoesTo DEF CloseEntry, TInv
  <2>. QED BY <2>1, <2>2, <2>3
<1>7. UNCHANGED <<db, process, locks, history, counters, run, driver>> /\ faults' \in Nat
  BY DEF CloseEntry, counters, process, TInv, CountersOK
<1>. QED BY <1>4, <1>5, <1>6, <1>7, Frames DEF TInv

LEMMA Releases ==
  ASSUME NEW w \in Workers, NEW lock \in Workers \cup {NoWorker}
  PROVE  Release(w, lock) \in Workers \cup {NoWorker}
BY DEF Release

LEMMA IndexTypes == ASSUME TInv, NEW w \in Workers, IndexEntry(w) PROVE TInv'
<1>1. pc[w] = "index" BY DEF IndexEntry, At
<1>2. /\ "indexed" \in PCs /\ ~Verdict("indexed", job[w]) /\ "indexed" \notin Fresh
      /\ Reproduced(pc[w], job[w])
  BY <1>1 DEF PCs, Verdict, Fresh, Reproduced
<1>3. JobsOK' BY <1>1, <1>2, Onwards DEF IndexEntry, TInv
<1>4. DbOK' BY <1>1, HasKey DEF IndexEntry, TInv, DbOK
<1>5. LocksOK' BY DEF IndexEntry, TInv, LocksOK
<1>6. UNCHANGED <<disk, process, buf, history, counters, run, driver>> /\ faults' \in Nat
  BY DEF IndexEntry, counters, process, TInv, CountersOK
<1>. QED BY <1>3, <1>4, <1>5, <1>6, Frames DEF TInv

LEMMA IndexAttemptsTypes ==
  ASSUME TInv, NEW w \in Workers, IndexAttempts(w) PROVE TInv'
<1>1. pc[w] = "indexed" BY DEF IndexAttempts, At
<1>2. JobsOK' BY <1>1, AfterWriteTypes DEF IndexAttempts
<1>3. DbOK'
  <2>1. Key(w) \in Keys /\ job[w].basis \in Kinds /\ run \in Nat
    BY <1>1, HasKey DEF TInv, JobsOK, Holds, Reproduced, CountersOK
  <2>. QED BY <2>1 DEF IndexAttempts, RowsOf, TInv, DbOK
<1>4. LocksOK' BY Releases DEF IndexAttempts, TInv, LocksOK
<1>5. UNCHANGED <<disk, process, buf, history, counters, run, driver>> /\ faults' \in Nat
  BY DEF IndexAttempts, counters, process, TInv, CountersOK
<1>. QED BY <1>2, <1>3, <1>4, <1>5, Frames DEF TInv

LEMMA RegenReadTypes == ASSUME TInv, NEW w \in Workers, RegenRead(w) PROVE TInv'
<1>1. pc[w] = "regen" BY DEF RegenRead, At
<1>2. /\ "verify" \in PCs /\ ~Verdict("verify", job[w]) /\ "verify" \notin Fresh
      /\ Reproduced("verify", job[w]) => Reproduced(pc[w], job[w])
  BY <1>1 DEF PCs, Verdict, Fresh, Reproduced
<1>3. JobsOK' BY <1>1, <1>2, Onwards DEF RegenRead, TInv
<1>4. BufOK' BY <1>1, HasKey DEF RegenRead, TInv, BufOK, DiskOK
<1>5. UNCHANGED <<disk, db, process, locks, history, counters, run, driver>> /\ faults' \in Nat
  BY DEF RegenRead, counters, process, TInv, CountersOK
<1>. QED BY <1>3, <1>4, <1>5, Frames DEF TInv

LEMMA RegenVerifyTypes ==
  ASSUME TInv, NEW w \in Workers, RegenVerify(w) PROVE TInv'
<1>1. pc[w] = "verify" /\ job[w] \in Job /\ job[w].line \in Lines
  BY DEF RegenVerify, At, TInv, JobsOK, Holds
<1>2. PICK rc \in RegenCodes :
        /\ job' = [job EXCEPT ![w].status = RegenStatus(job[w], rc)]
        /\ IF rc \in {"ok", "outcome"}
           THEN /\ buf' = [buf EXCEPT ![w].verified = @ + 1]
                /\ Goto(w, "open")
           ELSE /\ buf' = [buf EXCEPT ![w] = Blank("absent")]
                /\ Goto(w, "check")
  BY DEF RegenVerify
<1>. DEFINE s == RegenStatus(job[w], rc)
            j == [job[w] EXCEPT !.status = s]
            p == IF rc \in {"ok", "outcome"} THEN "open" ELSE "check"
<1>3. s \in Statuses
  BY DEF RegenStatus, FinalStatus, RegenCodes, Statuses, TerminalSuccess,
         TerminalFlaky, TerminalFailure
<1>4. /\ j \in Job /\ j.line \in Lines /\ j.status \in Statuses
      /\ j.mode = "new" => j.basis \in Kinds
  <2>1. job[w].mode = "new" => job[w].basis \in Kinds
    BY <1>1 DEF TInv, JobsOK, Holds, Reproduced
  <2>. QED BY <1>1, <1>3, <2>1 DEF Job
<1>5. p \in PCs /\ Holds(p, j) BY <1>4 DEF PCs, Holds, Fresh, Reproduced
<1>6. pc' = [pc EXCEPT ![w] = p] /\ job' = [job EXCEPT ![w] = j]
  BY <1>2 DEF Goto
<1>7. JobsOK'
  <2>. HIDE DEF j, p
  <2>. QED BY <1>4, <1>5, <1>6, Moves DEF TInv
<1>8. BufOK'
  <2>1. CASE rc \in {"ok", "outcome"}
    <3>1. buf[w] \in EntryFile BY DEF TInv, BufOK
    <3>2. [buf[w] EXCEPT !.verified = @ + 1] \in EntryFile BY <3>1 DEF EntryFile
    <3>. QED BY <1>2, <2>1, <3>2 DEF TInv, BufOK
  <2>2. CASE rc \notin {"ok", "outcome"} BY <1>2, <2>2, Blanks DEF TInv, BufOK
  <2>. QED BY <2>1, <2>2
<1>9. UNCHANGED <<disk, db, process, locks, history, counters, run, driver>> /\ faults' \in Nat
  BY DEF RegenVerify, counters, process, TInv, CountersOK
<1>. QED BY <1>7, <1>8, <1>9, Frames DEF TInv

-----------------------------------------------------------------------------
(* The end of a worker's round, and its exceptions. *)

LEMMA DropTypes == ASSUME TInv, NEW w \in Workers, Drop(w) PROVE TInv'
<1>1. JobsOK' BY Rests DEF Drop, TInv
<1>. QED BY <1>1, Stays DEF Drop

LEMMA KeepTypes == ASSUME TInv, NEW w \in Workers, Keep(w) PROVE TInv'
<1>1. pc[w] = "check" BY DEF Keep, At
<1>2. "append" \in PCs /\ Holds("append", job[w])
  BY <1>1 DEF PCs, TInv, JobsOK, Holds, Fresh, Verdict, Reproduced
<1>3. JobsOK' BY <1>2, GoesTo DEF Keep, TInv
<1>. QED BY <1>3, Stays DEF Keep

\* A worker about to append has a record to append.
LEMMA HasRecord ==
  ASSUME TInv, NEW w \in Workers, pc[w] = "append"
  PROVE  RecordOf(w) \in Record
<1>1. Key(w) \in Keys /\ Entry(w) \in EntryIds BY HasKey DEF TInv
<1>2. job[w] \in Job /\ job[w].status \in Statuses
  BY DEF TInv, JobsOK, Holds, Verdict
<1>3. run \in Nat /\ appended + 1 \in Nat BY DEF TInv, CountersOK, HistoryOK
<1>. QED BY <1>1, <1>2, <1>3 DEF RecordOf, Record, Job

LEMMA AppendTypes == ASSUME TInv, NEW w \in Workers, AppendState(w) PROVE TInv'
<1>1. pc[w] = "append" BY DEF AppendState, At
<1>2. DiskOK'
  <2>1. jsonl' \subseteq Record BY <1>1, HasRecord DEF AppendState, TInv, DiskOK
  <2>. QED BY <2>1 DEF AppendState, TInv, DiskOK
<1>3. HistoryOK' BY DEF AppendState, TInv, HistoryOK
<1>4. JobsOK'
  <2>1. CASE WithDb
    <3>. DEFINE j == [job[w] EXCEPT !.seq = appended + 1]
    <3>1. /\ job[w] \in Job /\ job[w].line \in Lines /\ job[w].status \in Statuses
      BY <1>1 DEF TInv, JobsOK, Holds, Verdict
    <3>2. appended + 1 \in Nat BY DEF TInv, HistoryOK
    <3>3. j \in Job /\ j.line \in Lines /\ j.status \in Statuses
      BY <3>1, <3>2 DEF Job
    <3>4. "mirror" \in PCs /\ Holds("mirror", j) BY <3>3 DEF PCs, Holds, Fresh, Reproduced
    <3>5. pc' = [pc EXCEPT ![w] = "mirror"] /\ job' = [job EXCEPT ![w] = j]
      BY <2>1 DEF AppendState, Goto
    <3>. QED BY <3>3, <3>4, <3>5, Moves DEF TInv
  <2>2. CASE ~WithDb BY <2>2, Rests DEF AppendState, TInv
  <2>. QED BY <2>1, <2>2
<1>5. LocksOK' BY DEF AppendState, TInv, LocksOK
<1>6. UNCHANGED <<db, process, buf, counters, run, driver>> /\ faults' \in Nat
  BY DEF AppendState, counters, process, TInv, CountersOK
<1>. QED BY <1>2, <1>3, <1>4, <1>5, <1>6, Frames DEF TInv

LEMMA MirrorTypes == ASSUME TInv, NEW w \in Workers, MirrorState(w) PROVE TInv'
<1>1. pc[w] = "mirror" /\ driver = "running" BY DEF MirrorState, At, Scheduled
<1>2. DbOK'
  <2>. DEFINE row == [status |-> job[w].status, seq |-> job[w].seq]
              x == <<RunIdOf(run), Key(w)>>
  <2>1. job[w] \in Job /\ job[w].status \in Statuses
    BY <1>1 DEF TInv, JobsOK, Holds, Verdict
  <2>2. row \in [status : Statuses \cup {"none"}, seq : Nat] BY <2>1 DEF Job
  <2>3. x \in RunIds \X Keys BY <1>1, HasKey, HasRunId DEF TInv
  <2>4. dbState' = [dbState EXCEPT ![x] = row] BY DEF MirrorState
  <2>5. UNCHANGED <<dbClass, indexed, attempts>> BY DEF MirrorState
  <2>. HIDE DEF row, x
  <2>. QED BY <2>2, <2>3, <2>4, <2>5 DEF TInv, DbOK
<1>3. JobsOK'
  <2>1. CASE job[w].category # "none"
    <3>1. "mirrorclass" \in PCs /\ Holds("mirrorclass", job[w])
      BY <1>1 DEF PCs, TInv, JobsOK, Holds, Fresh, Verdict, Reproduced
    <3>. QED BY <2>1, <3>1, GoesTo DEF MirrorState, TInv
  <2>2. CASE job[w].category = "none" BY <2>2, Rests DEF MirrorState, TInv
  <2>. QED BY <2>1, <2>2
<1>4. LocksOK' BY Releases DEF MirrorState, TInv, LocksOK
<1>5. UNCHANGED <<disk, process, buf, history, counters, run, driver>> /\ faults' \in Nat
  BY DEF MirrorState, counters, process, TInv, CountersOK
<1>. QED BY <1>2, <1>3, <1>4, <1>5, Frames DEF TInv

LEMMA MirrorClassTypes ==
  ASSUME TInv, NEW w \in Workers, MirrorClass(w) PROVE TInv'
<1>1. pc[w] = "mirrorclass" /\ driver = "running"
  BY DEF MirrorClass, At, Scheduled
<1>2. DbOK'
  <2>1. job[w].category \in Categories BY DEF TInv, JobsOK, Job
  <2>2. <<RunIdOf(run), Key(w)>> \in RunIds \X Keys
    BY <1>1, HasKey, HasRunId DEF TInv
  <2>. QED BY <2>1, <2>2 DEF MirrorClass, TInv, DbOK
<1>3. JobsOK' BY Rests DEF MirrorClass, TInv
<1>4. LocksOK' BY Releases DEF MirrorClass, TInv, LocksOK
<1>5. UNCHANGED <<disk, process, buf, history, counters, run, driver>> /\ faults' \in Nat
  BY DEF MirrorClass, counters, process, TInv, CountersOK
<1>. QED BY <1>2, <1>3, <1>4, <1>5, Frames DEF TInv

LEMMA Loses ==
  ASSUME TInv, NEW W \in SUBSET Workers, Losing(W), appended' = appended
  PROVE  HistoryOK'
<1>1. \A w \in W : job[w].seq \in Nat BY DEF TInv, JobsOK, Job
<1>. QED BY <1>1 DEF Losing, TInv, HistoryOK

\* What a lost process leaves in memory is typed.
LEMMA LossTypes ==
  ASSUME TInv, LoseProcess, UNCHANGED <<canon, shutdown, killPass, run, appended>>
  PROVE  ProcessOK' /\ LocksOK' /\ JobsOK' /\ BufOK' /\ RunCounted' /\ HistoryOK'
<1>1. ProcessOK' BY DEF LoseProcess, TInv, ProcessOK
<1>2. LocksOK' BY DEF LoseProcess, LocksOK
<1>3. NoJob \in Job BY DEF NoJob, NewJob, Job, Modes, Categories, Bases
<1>4. JobsOK' BY <1>3 DEF LoseProcess, JobsOK, Holds, Fresh, Verdict, Reproduced, PCs
<1>5. BufOK' BY Blanks DEF LoseProcess, BufOK
<1>6. RunCounted' BY DEF LoseProcess, TInv, RunCounted
<1>7. HistoryOK' BY Loses DEF LoseProcess
<1>. QED BY <1>1, <1>2, <1>4, <1>5, <1>6, <1>7

LEMMA RaiseTypes ==
  ASSUME TInv, NEW w \in Workers, Raise(w), UNCHANGED <<run, appended>>
  PROVE  ProcessOK' /\ LocksOK' /\ JobsOK' /\ BufOK' /\ RunCounted' /\ HistoryOK'
<1>1. CASE Serial BY <1>1, LossTypes DEF Raise
<1>2. CASE ~Serial
  <2>1. UNCHANGED process /\ UNCHANGED driver BY <1>2 DEF Raise, process
  <2>2. ProcessOK' /\ RunCounted' BY <2>1, Frames DEF TInv
  <2>3. LocksOK' BY <1>2, Releases DEF Raise, TInv, LocksOK
  <2>4. JobsOK' BY <1>2, Rests DEF Raise, TInv
  <2>5. BufOK' BY <1>2, Blanks DEF Raise, TInv, BufOK
  <2>6. HistoryOK' BY <1>2, Loses DEF Raise
  <2>. QED BY <2>2, <2>3, <2>4, <2>5, <2>6
<1>. QED BY <1>1, <1>2

LEMMA TornTypes == ASSUME TInv, NEW w \in Workers, ReadTorn(w) PROVE TInv'
<1>1. UNCHANGED <<disk, db, appended, counters, run>> /\ faults' \in Nat /\ Raise(w)
  BY DEF ReadTorn, counters, TInv, CountersOK
<1>. QED BY <1>1, RaiseTypes, Frames DEF TInv

LEMMA ErrorTypes == ASSUME TInv, NEW w \in Workers, WorkerError(w) PROVE TInv'
<1>1. UNCHANGED <<disk, db, appended, counters, run>> /\ faults' \in Nat /\ Raise(w)
  BY DEF WorkerError, Fault, counters, TInv, CountersOK
<1>. QED BY <1>1, RaiseTypes, Frames DEF TInv

LEMMA TearTypes == ASSUME TInv, NEW w \in Workers, TearAppend(w) PROVE TInv'
<1>1. UNCHANGED <<db, appended, counters, run>> /\ faults' \in Nat
  BY DEF TearAppend, Fault, counters, TInv, CountersOK
<1>2. DiskOK' BY DEF TearAppend, TInv, DiskOK
<1>3. ProcessOK' /\ LocksOK' /\ JobsOK' /\ BufOK' /\ RunCounted' /\ HistoryOK'
  <2>1. CASE Raise(w) BY <1>1, <2>1, RaiseTypes
  <2>2. CASE LoseProcess /\ UNCHANGED <<canon, shutdown, killPass>>
    BY <1>1, <2>2, LossTypes
  <2>. QED BY <2>1, <2>2 DEF TearAppend
<1>. QED BY <1>1, <1>2, <1>3, Frames DEF TInv

-----------------------------------------------------------------------------
(* The steps of the driver process, and the theorem. *)

LEMMA StartTypes == ASSUME TInv, StartRun PROVE TInv'
<1>1. Batch \subseteq Lines BY DEF Batch, Unresolved
<1>2. canon' \in [Lines -> Tags \cup {NoTag}] BY DriveAssumption DEF StartRun
<1>3. ProcessOK'
  <2>1. shutdown' \in BOOLEAN /\ killPass' \in BOOLEAN BY DEF StartRun
  <2>. QED BY <1>1, <1>2, <2>1 DEF StartRun, ProcessOK
<1>4. CountersOK' BY DEF StartRun, TInv, CountersOK
<1>5. RunCounted' BY DriveAssumption DEF StartRun, TInv, CountersOK, RunCounted
<1>6. UNCHANGED <<disk, db, locks, pc, job, buf, history>> BY DEF StartRun, threads
<1>. QED BY <1>3, <1>4, <1>5, <1>6, Frames DEF TInv

LEMMA RefuseTypes == ASSUME TInv, RefuseRun PROVE TInv'
<1>1. CountersOK' BY DEF RefuseRun, Fault, TInv, CountersOK
<1>2. RunCounted'
  BY DriveAssumption DEF RefuseRun, process, TInv, CountersOK, RunCounted
<1>3. UNCHANGED <<disk, db, process, locks, pc, job, buf, history>>
  BY DEF RefuseRun, threads
<1>. QED BY <1>1, <1>2, <1>3, Frames DEF TInv

LEMMA RedriveTypes == ASSUME TInv, NEW k \in Keys, Redrive(k) PROVE TInv'
<1>1. DiskOK' BY DEF Redrive, TInv, DiskOK
<1>2. CountersOK' BY DEF Redrive, TInv, CountersOK
<1>3. UNCHANGED <<db, process, locks, pc, job, buf, history, run, driver>>
  BY DEF Redrive, threads, process
<1>. QED BY <1>1, <1>2, <1>3, Frames DEF TInv

LEMMA FinishTypes == ASSUME TInv, FinishRun PROVE TInv'
<1>1. ProcessOK' BY DEF FinishRun, TInv, ProcessOK
<1>2. RunCounted' BY DEF FinishRun, counters, TInv, RunCounted
<1>3. UNCHANGED <<disk, db, locks, pc, job, buf, history, counters>> /\ faults' \in Nat
  BY DEF FinishRun, threads, TInv, CountersOK
<1>. QED BY <1>1, <1>2, <1>3, Frames DEF TInv

LEMMA SignalTypes ==
  ASSUME TInv, Signal \/ KillContainers
  PROVE  TInv'
<1>1. ProcessOK' BY DEF Signal, KillContainers, TInv, ProcessOK
<1>2. faults' \in Nat BY DEF Signal, KillContainers, Fault, TInv, CountersOK
<1>3. UNCHANGED <<disk, db, locks, pc, job, buf, history, counters, run, driver>>
  BY DEF Signal, KillContainers, threads, counters
<1>. QED BY <1>1, <1>2, <1>3, Frames DEF TInv

LEMMA CrashTypes == ASSUME TInv, Crash PROVE TInv'
<1>1. UNCHANGED <<disk, db, appended, counters, run>> /\ faults' \in Nat
  BY DEF Crash, Fault, counters, TInv, CountersOK
<1>2. ProcessOK' /\ LocksOK' /\ JobsOK' /\ BufOK' /\ RunCounted' /\ HistoryOK'
  BY <1>1, LossTypes DEF Crash
<1>. QED BY <1>1, <1>2, Frames DEF TInv

LEMMA StutterTypes == ASSUME TInv, UNCHANGED vars PROVE TInv'
<1>1. /\ UNCHANGED <<disk, db, process, locks, pc, job, buf, history, counters>>
      /\ faults' = faults
  BY DEF vars, threads
<1>2. UNCHANGED <<run, driver>> /\ faults' \in Nat
  BY <1>1 DEF process, counters, TInv, CountersOK
<1>. QED BY <1>1, <1>2, Frames DEF TInv

LEMMA ResolveTypes == ASSUME TInv, NEW w \in Workers, Resolve(w) PROVE TInv'
<1>0. /\ "metadata_fetch_failed" \in Statuses /\ "entry_bucket_stale" \in Statuses
      /\ "commit_after_max_sde_date" \in Statuses /\ "fat_image_missing" \in Statuses
  BY DEF Statuses, TerminalFailure
<1>1. CASE MetadataFails(w) BY <1>0, <1>1, RefusalTypes DEF MetadataFails
<1>2. CASE FlagStale(w) BY <1>0, <1>2, RefusalTypes DEF FlagStale
<1>3. CASE VerifyExisting(w) BY <1>3, ExistingTypes
<1>4. CASE RejectLate(w) BY <1>0, <1>4, RefusalTypes DEF RejectLate
<1>5. CASE ImageMissing(w) BY <1>0, <1>5, RefusalTypes DEF ImageMissing
<1>6. CASE BuildImage(w) BY <1>6, BuildTypes
<1>7. CASE ImageResolved(w) BY <1>7, ResolvedTypes
<1>. QED BY <1>1, <1>2, <1>3, <1>4, <1>5, <1>6, <1>7 DEF Resolve

LEMMA StepTypes == ASSUME TInv, NEW w \in Workers, Step(w) PROVE TInv'
BY TakeTypes, SkipTypes, ResolveTypes, ReproduceTypes, RelockTypes,
   RecordAttemptsTypes, AssembleTypes, OpenTypes, CloseTypes, IndexTypes,
   IndexAttemptsTypes, RegenReadTypes, RegenVerifyTypes, TornTypes, DropTypes,
   KeepTypes, AppendTypes, MirrorTypes, MirrorClassTypes
   DEF Step

LEMMA NextTypes == TInv /\ [Next]_vars => TInv'
<1>. SUFFICES ASSUME TInv, [Next]_vars PROVE TInv' OBVIOUS
<1>1. CASE StartRun BY <1>1, StartTypes
<1>2. CASE RefuseRun BY <1>2, RefuseTypes
<1>3. CASE FinishRun BY <1>3, FinishTypes
<1>4. CASE Signal \/ KillContainers BY <1>4, SignalTypes
<1>5. CASE Crash BY <1>5, CrashTypes
<1>6. CASE \E k \in Keys : Redrive(k) BY <1>6, RedriveTypes
<1>7. CASE \E w \in Workers : Step(w) \/ WorkerError(w) \/ TearAppend(w)
  BY <1>7, StepTypes, ErrorTypes, TearTypes
<1>8. CASE Finished \/ UNCHANGED vars BY <1>8, StutterTypes DEF Finished
<1>. QED BY <1>1, <1>2, <1>3, <1>4, <1>5, <1>6, <1>7, <1>8 DEF Next

THEOREM TypesHold == Spec => []TInv
<1>1. Init => TInv BY InitTypes
<1>2. TInv /\ [Next]_vars => TInv' BY NextTypes
<1>. QED BY <1>1, <1>2, PTL DEF Spec

\* Every variable has its type, whatever the workers, the operator and the
\* faults do: in particular nothing without a verdict reaches the state file.
THEOREM TypeCorrect == Spec => []TypeOK
<1>1. TInv => TypeOK BY DEF TInv, TypeOK, JobsOK, BufOK, ThreadsOK
<1>. QED BY <1>1, TypesHold, PTL
-----------------------------------------------------------------------------
(* KilledNeverRecorded *)

\* The places of a worker that has passed the second look at the event.
Persisting == {"append", "mirror", "mirrorclass"}

(***************************************************************************)
(* The event precedes the kill pass, so a job cut short is one whose run   *)
(* is being shut down; a worker that got past the check had a whole one;   *)
(* and no job outlives the run it belongs to, for the next run starts with *)
(* the event cleared.                                                      *)
(***************************************************************************)
KSafe(p, j) ==
  /\ p # "idle" /\ j.killed => shutdown
  /\ p \in Persisting => ~j.killed

KInv ==
  /\ killPass => shutdown
  /\ driver = "down" => \A w \in Workers : pc[w] = "idle"
  /\ \A w \in Workers : KSafe(pc[w], job[w])
  /\ KilledNeverRecorded

(***************************************************************************)
(* state_lock is held from the append to the end of the mirror, so the     *)
(* record being mirrored is the last one appended.                         *)
(***************************************************************************)
MInv ==
  /\ \A x \in RunIds \X Keys : dbState[x].seq <= appended
  /\ \A w \in Workers :
       pc[w] \in {"mirror", "mirrorclass"} => stateLock = w /\ job[w].seq = appended

-----------------------------------------------------------------------------
(* KilledNeverRecorded *)

LEMMA KInit == Init => KInv
<1>. SUFFICES ASSUME Init PROVE KInv OBVIOUS
<1>1. killPass => shutdown BY DEF Init
<1>2. \A w \in Workers : pc[w] = "idle" BY DEF Init
<1>3. \A w \in Workers : KSafe(pc[w], job[w]) BY <1>2 DEF KSafe, Persisting
<1>4. KilledNeverRecorded BY DEF Init, KilledNeverRecorded
<1>. QED BY <1>1, <1>2, <1>3, <1>4 DEF KInv

\* A step of one worker, within a run: what is left to show is about its own
\* place and job, and about the record it may append.
LEMMA KWorker ==
  ASSUME TInv, KInv, NEW w \in Workers,
         driver = "running", UNCHANGED process,
         \A v \in Workers \ {w} : pc'[v] = pc[v] /\ job'[v] = job[v],
         KSafe(pc'[w], job'[w]), KilledNeverRecorded'
  PROVE  KInv'
<1>1. (killPass => shutdown)' BY DEF KInv, process
<1>2. (driver = "down" => \A v \in Workers : pc[v] = "idle")' BY DEF process
<1>3. ASSUME NEW v \in Workers PROVE KSafe(pc[v], job[v])'
  <2>1. shutdown' = shutdown BY DEF process
  <2>2. CASE v = w BY <2>1, <2>2 DEF KSafe
  <2>3. CASE v # w BY <2>1, <2>3 DEF KInv, KSafe
  <2>. QED BY <2>2, <2>3
<1>. QED BY <1>1, <1>2, <1>3 DEF KInv

\* A worker goes from one place to another before the check, or back to idle.
LEMMA KMoves ==
  ASSUME TInv, KInv, NEW w \in Workers, NEW p, NEW j,
         driver = "running", UNCHANGED <<process, jsonl>>,
         pc' = [pc EXCEPT ![w] = p], job' = [job EXCEPT ![w] = j],
         pc[w] # "idle", p \notin Persisting,
         p = "idle" \/ (j.killed => job[w].killed \/ killPass)
  PROVE  KInv'
<1>1. pc'[w] = p /\ job'[w] = j BY DEF TInv, JobsOK
<1>2. \A v \in Workers \ {w} : pc'[v] = pc[v] /\ job'[v] = job[v]
  BY DEF TInv, JobsOK
<1>3. shutdown' = shutdown /\ jsonl' = jsonl BY DEF process
<1>4. job[w].killed \/ killPass => shutdown BY DEF KInv, KSafe
<1>5. KSafe(pc'[w], job'[w]) BY <1>1, <1>4 DEF KSafe
<1>6. KilledNeverRecorded' BY <1>3 DEF KInv, KilledNeverRecorded
<1>. QED BY <1>2, <1>5, <1>6, KWorker

LEMMA KGoes ==
  ASSUME TInv, KInv, NEW w \in Workers, NEW p, p \notin Persisting,
         driver = "running", UNCHANGED <<process, jsonl>>,
         pc[w] # "idle", Goto(w, p), job' = job
  PROVE  KInv'
<1>1. job' = [job EXCEPT ![w] = job[w]] BY DEF TInv, JobsOK
<1>. QED BY <1>1, KMoves DEF Goto

LEMMA KConcludes ==
  ASSUME TInv, KInv, NEW w \in Workers, NEW s,
         driver = "running", UNCHANGED <<process, jsonl>>,
         pc[w] # "idle", Conclude(w, s)
  PROVE  KInv'
<1>. DEFINE j == [job[w] EXCEPT !.status = s]
<1>1. j.killed = job[w].killed BY DEF TInv, JobsOK, Job
<1>2. pc' = [pc EXCEPT ![w] = "check"] /\ job' = [job EXCEPT ![w] = j]
  BY DEF Conclude, Goto
<1>3. "check" \notin Persisting BY DEF Persisting
<1>. HIDE DEF j
<1>. QED BY <1>1, <1>2, <1>3, KMoves

LEMMA KRests ==
  ASSUME TInv, KInv, NEW w \in Workers,
         driver = "running", UNCHANGED <<process, jsonl>>,
         pc[w] # "idle", Goto(w, "idle"), job' = [job EXCEPT ![w] = NoJob]
  PROVE  KInv'
<1>1. "idle" \notin Persisting BY DEF Persisting
<1>. QED BY <1>1, KMoves DEF Goto

LEMMA KResolve == ASSUME TInv, KInv, NEW w \in Workers, Resolve(w) PROVE KInv'
<1>1. pc[w] = "resolve" /\ driver = "running"
  BY DEF Resolve, MetadataFails, FlagStale, VerifyExisting, RejectLate,
         ImageMissing, BuildImage, ImageResolved, At, Scheduled
<1>2. UNCHANGED <<process, jsonl>>
  BY DEF Resolve, MetadataFails, FlagStale, VerifyExisting, RejectLate,
         ImageMissing, BuildImage, ImageResolved, disk
<1>3. CASE \E s \in Statuses : Conclude(w, s) BY <1>1, <1>2, <1>3, KConcludes
<1>4. CASE Goto(w, "repro") /\ UNCHANGED job
  BY <1>1, <1>2, <1>4, KGoes DEF Persisting
<1>5. CASE VerifyExisting(w)
  <2>. DEFINE j == [job[w] EXCEPT !.mode = "existing"]
  <2>1. j.killed = job[w].killed BY DEF TInv, JobsOK, Job
  <2>2. pc' = [pc EXCEPT ![w] = "regen"] /\ job' = [job EXCEPT ![w] = j]
    BY <1>5 DEF VerifyExisting, Goto
  <2>3. "regen" \notin Persisting BY DEF Persisting
  <2>. HIDE DEF j
  <2>. QED BY <1>1, <1>2, <2>1, <2>2, <2>3, KMoves
<1>6. /\ "metadata_fetch_failed" \in Statuses /\ "entry_bucket_stale" \in Statuses
      /\ "commit_after_max_sde_date" \in Statuses /\ "fat_image_missing" \in Statuses
      /\ "fat_image_build_failed" \in Statuses
  BY DEF Statuses, TerminalFailure
<1>7. \/ \E s \in Statuses : Conclude(w, s)
      \/ Goto(w, "repro") /\ UNCHANGED job
      \/ VerifyExisting(w)
  BY <1>6 DEF Resolve, MetadataFails, FlagStale, RejectLate, ImageMissing,
              BuildImage, ImageResolved
<1>. QED BY <1>3, <1>4, <1>5, <1>7

LEMMA KReproduce == ASSUME TInv, KInv, NEW w \in Workers, Reproduce(w) PROVE KInv'
<1>1. pc[w] = "repro" /\ driver = "running" /\ UNCHANGED <<process, jsonl>>
  BY DEF Reproduce, At, Scheduled, disk
<1>2. PICK o \in Returns(Attempts, killPass) :
         IF o.pre
         THEN /\ job' = [job EXCEPT ![w].flaky = o.flaky, ![w].killed = o.killed,
                                    ![w].basis = "strict"]
              /\ Goto(w, "assemble")
         ELSE PreFails(w, o)
  BY DEF Reproduce
<1>3. o.killed => killPass BY DEF Returns
<1>4. CASE o.pre
  <2>. DEFINE j == [job[w] EXCEPT !.flaky = o.flaky, !.killed = o.killed,
                                  !.basis = "strict"]
  <2>1. j.killed = o.killed BY DEF TInv, JobsOK, Job
  <2>2. pc' = [pc EXCEPT ![w] = "assemble"] /\ job' = [job EXCEPT ![w] = j]
    BY <1>2, <1>4 DEF Goto
  <2>3. "assemble" \notin Persisting BY DEF Persisting
  <2>. HIDE DEF j
  <2>. QED BY <1>1, <1>3, <2>1, <2>2, <2>3, KMoves
<1>5. CASE ~o.pre
  <2>1. PICK c \in Categories \ {"none"} :
          /\ job' = [job EXCEPT ![w].status = "not_reproducible", ![w].category = c,
                                ![w].flaky = o.flaky, ![w].killed = o.killed,
                                ![w].basis = "strict"]
          /\ Goto(w, IF RelaxLocked /\ c = "LOCK_FILE_STALE" THEN "relock"
                     ELSE IF WithDb THEN "attempts" ELSE "check")
    BY <1>2, <1>5 DEF PreFails
  <2>. DEFINE j == [job[w] EXCEPT !.status = "not_reproducible", !.category = c,
                                  !.flaky = o.flaky, !.killed = o.killed,
                                  !.basis = "strict"]
              p == IF RelaxLocked /\ c = "LOCK_FILE_STALE" THEN "relock"
                   ELSE IF WithDb THEN "attempts" ELSE "check"
  <2>2. j.killed = o.killed BY DEF TInv, JobsOK, Job
  <2>3. p \notin Persisting BY DEF Persisting
  <2>4. pc' = [pc EXCEPT ![w] = p] /\ job' = [job EXCEPT ![w] = j]
    BY <2>1 DEF Goto
  <2>. HIDE DEF j, p
  <2>. QED BY <1>1, <1>3, <2>2, <2>3, <2>4, KMoves
<1>. QED BY <1>4, <1>5

LEMMA KRelock == ASSUME TInv, KInv, NEW w \in Workers, Relock(w) PROVE KInv'
<1>1. pc[w] = "relock" /\ driver = "running" /\ UNCHANGED <<process, jsonl>>
  BY DEF Relock, At, Scheduled, disk
<1>2. PICK o \in Returns(1, killPass) :
         IF o.pre /\ o.post
         THEN /\ job' = [job EXCEPT ![w].status = "ok_after_relock",
                                    ![w].category = "none",
                                    ![w].basis = "relock"]
              /\ Goto(w, "assemble")
         ELSE /\ job' = [job EXCEPT ![w].killed = @ \/ o.killed]
              /\ Goto(w, IF WithDb THEN "attempts" ELSE "check")
  BY DEF Relock
<1>3. CASE o.pre /\ o.post
  <2>. DEFINE j == [job[w] EXCEPT !.status = "ok_after_relock", !.category = "none",
                                  !.basis = "relock"]
  <2>1. j.killed = job[w].killed BY DEF TInv, JobsOK, Job
  <2>2. pc' = [pc EXCEPT ![w] = "assemble"] /\ job' = [job EXCEPT ![w] = j]
    BY <1>2, <1>3 DEF Goto
  <2>3. "assemble" \notin Persisting BY DEF Persisting
  <2>. HIDE DEF j
  <2>. QED BY <1>1, <2>1, <2>2, <2>3, KMoves
<1>4. CASE ~(o.pre /\ o.post)
  <2>. DEFINE j == [job[w] EXCEPT !.killed = @ \/ o.killed]
              p == IF WithDb THEN "attempts" ELSE "check"
  <2>1. j.killed = (job[w].killed \/ o.killed) BY DEF TInv, JobsOK, Job
  <2>2. o.killed => killPass BY DEF Returns
  <2>3. p \notin Persisting BY DEF Persisting
  <2>4. pc' = [pc EXCEPT ![w] = p] /\ job' = [job EXCEPT ![w] = j]
    BY <1>2, <1>4 DEF Goto
  <2>5. j.killed => job[w].killed \/ killPass BY <2>1, <2>2
  <2>. HIDE DEF j, p
  <2>. QED BY <1>1, <2>3, <2>4, <2>5, KMoves
<1>. QED BY <1>3, <1>4

LEMMA KAfterWrite ==
  ASSUME TInv, KInv, NEW w \in Workers, driver = "running",
         UNCHANGED <<process, jsonl>>, pc[w] # "idle", AfterWrite(w)
  PROVE  KInv'
<1>1. CASE RegenerateVerify
  <2>. DEFINE j == [job[w] EXCEPT !.mode = "assembled"]
  <2>1. j.killed = job[w].killed BY DEF TInv, JobsOK, Job
  <2>2. pc' = [pc EXCEPT ![w] = "regen"] /\ job' = [job EXCEPT ![w] = j]
    BY <1>1 DEF AfterWrite, Goto
  <2>3. "regen" \notin Persisting BY DEF Persisting
  <2>. HIDE DEF j
  <2>. QED BY <2>1, <2>2, <2>3, KMoves
<1>2. CASE ~RegenerateVerify BY <1>2, KConcludes DEF AfterWrite
<1>. QED BY <1>1, <1>2

\* From the assembly to the end of a regeneration.
LEMMA KEntry ==
  ASSUME TInv, KInv, NEW w \in Workers,
         \/ RecordAttempts(w) \/ Assemble(w) \/ OpenEntry(w) \/ CloseEntry(w)
         \/ IndexEntry(w) \/ IndexAttempts(w) \/ RegenRead(w)
  PROVE  KInv'
<1>1. pc[w] # "idle" /\ driver = "running"
  BY DEF RecordAttempts, Assemble, OpenEntry, CloseEntry, IndexEntry,
         IndexAttempts, RegenRead, At, Scheduled
<1>2. UNCHANGED <<process, jsonl>>
  BY DEF RecordAttempts, Assemble, OpenEntry, CloseEntry, IndexEntry,
         IndexAttempts, RegenRead, disk
<1>3. CASE \E p \in PCs \ Persisting : Goto(w, p) /\ job' = job
  BY <1>1, <1>2, <1>3, KGoes
<1>4. CASE \E s : Conclude(w, s) BY <1>1, <1>2, <1>4, KConcludes
<1>5. CASE AfterWrite(w) BY <1>1, <1>2, <1>5, KAfterWrite
<1>6. {"check", "open", "close", "index", "indexed", "verify"} \subseteq PCs \ Persisting
  BY DEF PCs, Persisting
<1>7. \/ \E p \in PCs \ Persisting : Goto(w, p) /\ job' = job
      \/ \E s : Conclude(w, s)
      \/ AfterWrite(w)
  <2>1. CASE RecordAttempts(w) BY <1>6, <2>1 DEF RecordAttempts
  <2>2. CASE Assemble(w) BY <1>6, <2>2 DEF Assemble
  <2>3. CASE OpenEntry(w) BY <1>6, <2>3 DEF OpenEntry
  <2>4. CASE CloseEntry(w) BY <1>6, <2>4 DEF CloseEntry
  <2>5. CASE IndexEntry(w) BY <1>6, <2>5 DEF IndexEntry
  <2>6. CASE IndexAttempts(w) BY <2>6 DEF IndexAttempts
  <2>7. CASE RegenRead(w) BY <1>6, <2>7 DEF RegenRead
  <2>. QED BY <2>1, <2>2, <2>3, <2>4, <2>5, <2>6, <2>7
<1>. QED BY <1>3, <1>4, <1>5, <1>7

LEMMA KVerify == ASSUME TInv, KInv, NEW w \in Workers, RegenVerify(w) PROVE KInv'
<1>1. pc[w] = "verify" /\ driver = "running" /\ UNCHANGED <<process, jsonl>>
  BY DEF RegenVerify, At, Scheduled, disk
<1>2. PICK rc \in RegenCodes :
        /\ job' = [job EXCEPT ![w].status = RegenStatus(job[w], rc)]
        /\ \/ rc \in {"ok", "outcome"} /\ Goto(w, "open")
           \/ rc \notin {"ok", "outcome"} /\ Goto(w, "check")
  <2>1. PICK rc \in RegenCodes :
          /\ job' = [job EXCEPT ![w].status = RegenStatus(job[w], rc)]
          /\ IF rc \in {"ok", "outcome"}
             THEN /\ buf' = [buf EXCEPT ![w].verified = @ + 1]
                  /\ Goto(w, "open")
             ELSE /\ buf' = [buf EXCEPT ![w] = Blank("absent")]
                  /\ Goto(w, "check")
    BY DEF RegenVerify
  <2>. QED BY <2>1
<1>. DEFINE j == [job[w] EXCEPT !.status = RegenStatus(job[w], rc)]
            p == IF rc \in {"ok", "outcome"} THEN "open" ELSE "check"
<1>3. j.killed = job[w].killed BY DEF TInv, JobsOK, Job
<1>4. p \notin Persisting BY DEF Persisting
<1>5. pc' = [pc EXCEPT ![w] = p] /\ job' = [job EXCEPT ![w] = j] BY <1>2 DEF Goto
<1>. HIDE DEF j, p
<1>. QED BY <1>1, <1>3, <1>4, <1>5, KMoves

LEMMA KTake == ASSUME TInv, KInv, NEW w \in Workers, Take(w) PROVE KInv'
<1>1. PICK l \in todo : job' = [job EXCEPT ![w] = NewJob(l)] BY DEF Take
<1>2. driver = "running" /\ UNCHANGED <<jsonl, driver, shutdown, killPass>>
  BY DEF Take, At, Scheduled, disk
<1>3. ASSUME NEW v \in Workers PROVE KSafe(pc[v], job[v])'
  <2>1. CASE v = w
    <3>1. pc'[w] = "resolve" /\ job'[w] = NewJob(l)
      BY <1>1 DEF Take, Goto, TInv, JobsOK
    <3>2. ~NewJob(l).killed BY DEF NewJob
    <3>. QED BY <2>1, <3>1, <3>2 DEF KSafe, Persisting
  <2>2. CASE v # w
    <3>1. pc'[v] = pc[v] /\ job'[v] = job[v]
      BY <1>1, <2>2 DEF Take, Goto, TInv, JobsOK
    <3>. QED BY <1>2, <3>1 DEF KInv, KSafe
  <2>. QED BY <2>1, <2>2
<1>4. KilledNeverRecorded' BY <1>2 DEF KInv, KilledNeverRecorded
<1>5. (driver = "down" => \A v \in Workers : pc[v] = "idle")' BY <1>2
<1>. QED BY <1>2, <1>3, <1>4, <1>5 DEF KInv

\* What does not concern the workers, within a run: the event may be set, and
\* the kill pass follow it.
LEMMA KQuiet ==
  ASSUME KInv, UNCHANGED <<jsonl, pc, job>>, driver' \in {driver, "running"},
         shutdown => shutdown', killPass' => shutdown'
  PROVE  KInv'
<1>1. (driver = "down" => \A v \in Workers : pc[v] = "idle")' BY DEF KInv
<1>2. \A v \in Workers : KSafe(pc[v], job[v])' BY DEF KInv, KSafe
<1>3. KilledNeverRecorded' BY DEF KInv, KilledNeverRecorded
<1>. QED BY <1>1, <1>2, <1>3 DEF KInv

LEMMA KKeep == ASSUME TInv, KInv, NEW w \in Workers, Keep(w) PROVE KInv'
<1>1. /\ pc[w] = "check" /\ ~shutdown /\ driver = "running"
      /\ UNCHANGED <<process, jsonl, job>>
  BY DEF Keep, At, Scheduled, disk
<1>2. ~job[w].killed BY <1>1 DEF KInv, KSafe
<1>3. KSafe(pc'[w], job'[w]) BY <1>1, <1>2 DEF KSafe
<1>4. \A v \in Workers \ {w} : pc'[v] = pc[v] /\ job'[v] = job[v]
  BY <1>1 DEF Keep, Goto, TInv, JobsOK
<1>5. KilledNeverRecorded' BY <1>1 DEF KInv, KilledNeverRecorded
<1>. QED BY <1>1, <1>3, <1>4, <1>5, KWorker

LEMMA KPersists ==
  ASSUME TInv, KInv, NEW w \in Workers,
         AppendState(w) \/ MirrorState(w) \/ MirrorClass(w)
  PROVE  KInv'
<1>1. pc[w] \in Persisting /\ driver = "running" /\ UNCHANGED process
  BY DEF AppendState, MirrorState, MirrorClass, At, Scheduled, Persisting
<1>2. ~job[w].killed BY <1>1 DEF KInv, KSafe
<1>3. KilledNeverRecorded'
  <2>1. ~RecordOf(w).killed BY <1>2 DEF RecordOf
  <2>2. jsonl' \subseteq jsonl \cup {RecordOf(w)}
    BY DEF AppendState, MirrorState, MirrorClass, disk
  <2>. QED BY <2>1, <2>2 DEF KInv, KilledNeverRecorded
<1>4. \A v \in Workers \ {w} : pc'[v] = pc[v] /\ job'[v] = job[v]
  <2>1. PICK p : pc' = [pc EXCEPT ![w] = p]
    BY DEF AppendState, MirrorState, MirrorClass, Goto
  <2>2. job' = job \/ \E j : job' = [job EXCEPT ![w] = j]
    BY DEF AppendState, MirrorState, MirrorClass
  <2>. QED BY <2>1, <2>2 DEF TInv, JobsOK
<1>5. job'[w].killed = FALSE
  <2>1. job[w] \in Job BY DEF TInv, JobsOK
  <2>2. CASE job' = job BY <1>2, <2>1, <2>2 DEF Job
  <2>3. CASE job' = [job EXCEPT ![w] = NoJob]
    BY <2>3 DEF TInv, JobsOK, NoJob, NewJob
  <2>4. CASE job' = [job EXCEPT ![w].seq = appended + 1]
    BY <1>2, <2>1, <2>4 DEF TInv, JobsOK, Job
  <2>. QED BY <2>2, <2>3, <2>4 DEF AppendState, MirrorState, MirrorClass
<1>6. KSafe(pc'[w], job'[w]) BY <1>5 DEF KSafe
<1>. QED BY <1>1, <1>3, <1>4, <1>6, KWorker

LEMMA KLoses ==
  ASSUME KInv, LoseProcess, UNCHANGED <<jsonl, shutdown, killPass>>
  PROVE  KInv'
<1>1. \A v \in Workers : pc'[v] = "idle" BY DEF LoseProcess
<1>2. \A v \in Workers : KSafe(pc[v], job[v])' BY <1>1 DEF KSafe, Persisting
<1>3. KilledNeverRecorded' BY DEF KInv, KilledNeverRecorded
<1>4. (killPass => shutdown)' BY DEF KInv
<1>. QED BY <1>1, <1>2, <1>3, <1>4 DEF KInv

LEMMA KRaises ==
  ASSUME TInv, KInv, NEW w \in Workers, driver = "running", pc[w] # "idle",
         Raise(w), UNCHANGED jsonl
  PROVE  KInv'
<1>1. CASE Serial BY <1>1, KLoses DEF Raise
<1>2. CASE ~Serial BY <1>2, KRests DEF Raise
<1>. QED BY <1>1, <1>2

LEMMA KError ==
  ASSUME TInv, KInv, NEW w \in Workers,
         ReadTorn(w) \/ WorkerError(w) \/ TearAppend(w)
  PROVE  KInv'
<1>1. driver = "running" /\ pc[w] # "idle" /\ UNCHANGED jsonl
  BY DEF ReadTorn, WorkerError, TearAppend, At, Scheduled, disk
<1>2. Raise(w) \/ (LoseProcess /\ UNCHANGED <<canon, shutdown, killPass>>)
  BY DEF ReadTorn, WorkerError, TearAppend
<1>. QED BY <1>1, <1>2, KRaises, KLoses

LEMMA KStep == ASSUME TInv, KInv, NEW w \in Workers, Step(w) PROVE KInv'
<1>1. CASE Skip(w)
  <2>1. UNCHANGED <<jsonl, pc, job, driver, shutdown, killPass>>
    BY <1>1 DEF Skip, disk, threads
  <2>2. killPass => shutdown BY DEF KInv
  <2>. QED BY <2>1, <2>2, KQuiet
<1>2. CASE Drop(w)
  <2>1. pc[w] # "idle" /\ driver = "running" /\ UNCHANGED <<process, jsonl>>
    BY <1>2 DEF Drop, At, Scheduled, disk
  <2>. QED BY <1>2, <2>1, KRests DEF Drop
<1>. QED BY <1>1, <1>2, KTake, KResolve, KReproduce, KRelock, KEntry, KVerify, KError,
            KKeep, KPersists DEF Step

\* Between runs: the operator deletes lines, the next run clears the event.
LEMMA KBetween ==
  ASSUME KInv, StartRun \/ FinishRun \/ RefuseRun \/ \E k \in Keys : Redrive(k)
  PROVE  KInv'
<1>1. CASE StartRun
  <2>1. \A v \in Workers : pc'[v] = "idle" BY <1>1 DEF StartRun, KInv, threads
  <2>2. \A v \in Workers : KSafe(pc[v], job[v])' BY <2>1 DEF KSafe, Persisting
  <2>3. ~killPass' /\ UNCHANGED jsonl BY <1>1 DEF StartRun, disk
  <2>4. KilledNeverRecorded' BY <2>3 DEF KInv, KilledNeverRecorded
  <2>. QED BY <2>1, <2>2, <2>3, <2>4 DEF KInv
<1>2. CASE FinishRun
  <2>1. \A v \in Workers : pc'[v] = "idle" BY <1>2 DEF FinishRun, threads
  <2>2. \A v \in Workers : KSafe(pc[v], job[v])' BY <2>1 DEF KSafe, Persisting
  <2>3. UNCHANGED <<jsonl, shutdown, killPass>> BY <1>2 DEF FinishRun, disk
  <2>4. KilledNeverRecorded' /\ (killPass => shutdown)'
    BY <2>3 DEF KInv, KilledNeverRecorded
  <2>. QED BY <2>1, <2>2, <2>4 DEF KInv
<1>3. CASE RefuseRun
  <2>1. UNCHANGED <<jsonl, pc, job, driver, shutdown, killPass>>
    BY <1>3 DEF RefuseRun, disk, threads, process
  <2>2. killPass => shutdown BY DEF KInv
  <2>. QED BY <2>1, <2>2, KQuiet
<1>4. ASSUME NEW k \in Keys, Redrive(k) PROVE KInv'
  <2>1. jsonl' \subseteq jsonl /\ UNCHANGED <<pc, job, driver, shutdown, killPass>>
    BY <1>4 DEF Redrive, threads, process
  <2>2. KilledNeverRecorded' BY <2>1 DEF KInv, KilledNeverRecorded
  <2>3. \A v \in Workers : KSafe(pc[v], job[v])' BY <2>1 DEF KInv, KSafe
  <2>. QED BY <2>1, <2>2, <2>3 DEF KInv
<1>. QED BY <1>1, <1>2, <1>3, <1>4

LEMMA KNext == TInv /\ KInv /\ [Next]_vars => KInv'
<1>. SUFFICES ASSUME TInv, KInv, [Next]_vars PROVE KInv' OBVIOUS
<1>1. CASE Signal
  <2>1. /\ UNCHANGED <<jsonl, pc, job>> /\ driver' = driver /\ shutdown'
    BY <1>1 DEF Signal, disk, threads
  <2>. QED BY <2>1, KQuiet
<1>2. CASE KillContainers
  <2>1. /\ UNCHANGED <<jsonl, pc, job, driver, shutdown>> /\ shutdown
    BY <1>2 DEF KillContainers, disk, threads
  <2>. QED BY <2>1, KQuiet
<1>3. CASE Crash BY <1>3, KLoses DEF Crash, disk
<1>4. CASE \E w \in Workers : Step(w) \/ WorkerError(w) \/ TearAppend(w)
  BY <1>4, KStep, KError
<1>5. CASE Finished \/ UNCHANGED vars
  <2>1. UNCHANGED <<jsonl, pc, job, driver, shutdown, killPass>>
    BY <1>5 DEF Finished, vars, disk, threads, process
  <2>2. killPass => shutdown BY DEF KInv
  <2>. QED BY <2>1, <2>2, KQuiet
<1>. QED BY <1>1, <1>2, <1>3, <1>4, <1>5, KBetween DEF Next

\* No line of the state file rests on a test run the shutdown cut short, however
\* many workers there are and wherever the signal, the kill pass, crashes and
\* exceptions fall: the second look at shutdown_event in _worker is enough,
\* because the handler sets the event before it kills.
THEOREM NothingKilledIsRecorded == Spec => []KilledNeverRecorded
<1>1. Init => KInv BY KInit
<1>2. TInv /\ KInv /\ [Next]_vars => KInv' BY KNext
<1>3. KInv => KilledNeverRecorded BY DEF KInv
<1>. QED BY <1>1, <1>2, <1>3, TypesHold, PTL DEF Spec

-----------------------------------------------------------------------------
(* MirrorInOrder *)

Mirroring == {"mirror", "mirrorclass"}

LEMMA MInit == Init => MInv
BY DEF Init, MInv

\* A step that neither appends nor mirrors, and in which a worker that is
\* mirroring keeps its job and the lock, or is no longer mirroring.
LEMMA MQuiet ==
  ASSUME MInv, UNCHANGED <<dbState, appended>>,
         \A w \in Workers : pc'[w] \in Mirroring =>
            pc[w] \in Mirroring /\ job'[w] = job[w] /\ stateLock' = stateLock
  PROVE  MInv'
BY DEF MInv, Mirroring

\* Likewise, of one worker, which is not mirroring afterwards and releases
\* no lock but its own.
LEMMA MWorker ==
  ASSUME MInv, NEW w \in Workers, UNCHANGED <<dbState, appended>>,
         \A v \in Workers \ {w} : pc'[v] = pc[v] /\ job'[v] = job[v],
         pc'[w] \notin Mirroring,
         stateLock' \in {stateLock, Release(w, stateLock)}
  PROVE  MInv'
<1>1. ASSUME NEW v \in Workers, pc'[v] \in Mirroring
      PROVE  pc[v] \in Mirroring /\ job'[v] = job[v] /\ stateLock' = stateLock
  <2>1. v # w /\ pc[v] \in Mirroring /\ job'[v] = job[v] BY <1>1
  <2>2. stateLock = v BY <2>1 DEF MInv, Mirroring
  <2>. QED BY <2>1, <2>2 DEF Release
<1>. QED BY <1>1, MQuiet

\* The places of the steps below.
Elsewhere(w) ==
  /\ \E p \in PCs \ Mirroring : Goto(w, p)
  /\ \E j : job' = [job EXCEPT ![w] = j]
  /\ UNCHANGED <<dbState, appended>>
  /\ stateLock' \in {stateLock, Release(w, stateLock)}

LEMMA MMoves == ASSUME TInv, MInv, NEW w \in Workers, Elsewhere(w) PROVE MInv'
<1>1. PICK p \in PCs \ Mirroring : pc' = [pc EXCEPT ![w] = p] BY DEF Elsewhere, Goto
<1>2. PICK j : job' = [job EXCEPT ![w] = j] BY DEF Elsewhere
<1>3. pc'[w] = p BY <1>1 DEF TInv, JobsOK
<1>4. \A v \in Workers \ {w} : pc'[v] = pc[v] /\ job'[v] = job[v]
  BY <1>1, <1>2 DEF TInv, JobsOK
<1>. QED BY <1>3, <1>4, MWorker DEF Elsewhere

LEMMA MGoes ==
  ASSUME TInv, NEW w \in Workers, NEW p \in PCs \ Mirroring, Goto(w, p),
         job' = job \/ \E j : job' = [job EXCEPT ![w] = j],
         UNCHANGED <<dbState, appended>>,
         stateLock' \in {stateLock, Release(w, stateLock)}
  PROVE  Elsewhere(w)
<1>1. job = [job EXCEPT ![w] = job[w]] BY DEF TInv, JobsOK
<1>2. \E j : job' = [job EXCEPT ![w] = j] BY <1>1
<1>. QED BY <1>2 DEF Elsewhere

LEMMA MStep ==
  ASSUME TInv, NEW w \in Workers,
         \/ Take(w) \/ Resolve(w) \/ Reproduce(w) \/ Relock(w) \/ RecordAttempts(w)
         \/ Assemble(w) \/ OpenEntry(w) \/ CloseEntry(w) \/ IndexEntry(w)
         \/ IndexAttempts(w) \/ RegenRead(w) \/ RegenVerify(w) \/ Drop(w) \/ Keep(w)
         \/ MirrorClass(w)
  PROVE  Elsewhere(w)
<1>1. CASE Take(w)
  <2>1. PICK l : job' = [job EXCEPT ![w] = NewJob(l)] BY <1>1 DEF Take
  <2>2. "resolve" \in PCs \ Mirroring BY DEF PCs, Mirroring
  <2>3. UNCHANGED <<dbState, appended, stateLock>> /\ Goto(w, "resolve")
    BY <1>1 DEF Take, db, history, locks
  <2>. QED BY <2>1, <2>2, <2>3, MGoes
<1>2. CASE Resolve(w)
  <2>1. UNCHANGED <<dbState, appended, stateLock>>
    BY <1>2 DEF Resolve, MetadataFails, FlagStale, VerifyExisting, RejectLate,
                ImageMissing, BuildImage, ImageResolved, db, history, locks
  <2>2. {"check", "repro", "regen"} \subseteq PCs \ Mirroring BY DEF PCs, Mirroring
  <2>3. job' = job \/ \E j : job' = [job EXCEPT ![w] = j]
    BY <1>2 DEF Resolve, MetadataFails, FlagStale, VerifyExisting, RejectLate,
                ImageMissing, BuildImage, ImageResolved, Conclude
  <2>4. \E p \in {"check", "repro", "regen"} : Goto(w, p)
    BY <1>2 DEF Resolve, MetadataFails, FlagStale, VerifyExisting, RejectLate,
                ImageMissing, BuildImage, ImageResolved, Conclude
  <2>. QED BY <2>1, <2>2, <2>3, <2>4, MGoes
<1>3. CASE Reproduce(w)
  <2>1. UNCHANGED <<dbState, appended, stateLock>> BY <1>3 DEF Reproduce, db, history, locks
  <2>2. {"assemble", "relock", "attempts", "check"} \subseteq PCs \ Mirroring
    BY DEF PCs, Mirroring
  <2>3. \E j : job' = [job EXCEPT ![w] = j] BY <1>3 DEF Reproduce, PreFails
  <2>4. \E p \in {"assemble", "relock", "attempts", "check"} : Goto(w, p)
    BY <1>3 DEF Reproduce, PreFails
  <2>. QED BY <2>1, <2>2, <2>3, <2>4, MGoes
<1>4. CASE Relock(w)
  <2>1. UNCHANGED <<dbState, appended, stateLock>> BY <1>4 DEF Relock, db, history, locks
  <2>2. {"assemble", "attempts", "check"} \subseteq PCs \ Mirroring
    BY DEF PCs, Mirroring
  <2>3. \E j : job' = [job EXCEPT ![w] = j] BY <1>4 DEF Relock
  <2>4. \E p \in {"assemble", "attempts", "check"} : Goto(w, p) BY <1>4 DEF Relock
  <2>. QED BY <2>1, <2>2, <2>3, <2>4, MGoes
<1>5. CASE RecordAttempts(w) \/ Assemble(w) \/ OpenEntry(w) \/ RegenRead(w) \/ Keep(w)
  <2>1. UNCHANGED <<dbState, appended, stateLock>>
    BY <1>5 DEF RecordAttempts, Assemble, OpenEntry, RegenRead, Keep, db, history, locks
  <2>2. {"check", "open", "close", "verify", "append"} \subseteq PCs \ Mirroring
    BY DEF PCs, Mirroring
  <2>3. job' = job \/ \E j : job' = [job EXCEPT ![w] = j]
    BY <1>5 DEF RecordAttempts, Assemble, OpenEntry, RegenRead, Keep, Conclude
  <2>4. \E p \in {"check", "open", "close", "verify", "append"} : Goto(w, p)
    BY <1>5 DEF RecordAttempts, Assemble, OpenEntry, RegenRead, Keep, Conclude
  <2>. QED BY <2>1, <2>2, <2>3, <2>4, MGoes
<1>6. CASE CloseEntry(w) \/ IndexEntry(w) \/ IndexAttempts(w)
  <2>1. UNCHANGED <<dbState, appended, stateLock>>
    BY <1>6 DEF CloseEntry, IndexEntry, IndexAttempts, db, history, locks
  <2>2. {"index", "indexed", "regen", "check"} \subseteq PCs \ Mirroring
    BY DEF PCs, Mirroring
  <2>3. job' = job \/ \E j : job' = [job EXCEPT ![w] = j]
    BY <1>6 DEF CloseEntry, IndexEntry, IndexAttempts, AfterWrite, Conclude
  <2>4. \E p \in {"index", "indexed", "regen", "check"} : Goto(w, p)
    BY <1>6 DEF CloseEntry, IndexEntry, IndexAttempts, AfterWrite, Conclude
  <2>. QED BY <2>1, <2>2, <2>3, <2>4, MGoes
<1>7. CASE RegenVerify(w)
  <2>1. UNCHANGED <<dbState, appended, stateLock>> BY <1>7 DEF RegenVerify, db, history, locks
  <2>2. {"open", "check"} \subseteq PCs \ Mirroring BY DEF PCs, Mirroring
  <2>3. \E j : job' = [job EXCEPT ![w] = j] BY <1>7 DEF RegenVerify
  <2>4. \E p \in {"open", "check"} : Goto(w, p) BY <1>7 DEF RegenVerify
  <2>. QED BY <2>1, <2>2, <2>3, <2>4, MGoes
<1>8. CASE Drop(w) \/ MirrorClass(w)
  <2>1. UNCHANGED <<dbState, appended>> /\ stateLock' \in {stateLock, Release(w, stateLock)}
    BY <1>8 DEF Drop, MirrorClass, db, history, locks
  <2>2. "idle" \in PCs \ Mirroring BY DEF PCs, Mirroring
  <2>3. Goto(w, "idle") /\ job' = [job EXCEPT ![w] = NoJob] BY <1>8 DEF Drop, MirrorClass
  <2>. QED BY <2>1, <2>2, <2>3, MGoes
<1>. QED BY <1>1, <1>2, <1>3, <1>4, <1>5, <1>6, <1>7, <1>8

\* state_lock is free when a worker appends: nobody is mirroring.
LEMMA MAppend == ASSUME TInv, MInv, NEW w \in Workers, AppendState(w) PROVE MInv'
<1>1. stateLock = NoWorker /\ appended' = appended + 1 /\ UNCHANGED dbState
  BY DEF AppendState, db
<1>2. \A v \in Workers : pc[v] \notin Mirroring
  BY <1>1, DriveAssumption DEF MInv, Mirroring
<1>3. \A x \in RunIds \X Keys : dbState'[x].seq <= appended'
  <2>1. ASSUME NEW x \in RunIds \X Keys PROVE dbState[x].seq <= appended + 1
    <3>1. dbState[x].seq \in Nat /\ appended \in Nat BY DEF TInv, DbOK, HistoryOK
    <3>2. dbState[x].seq <= appended BY DEF MInv
    <3>. QED BY <3>1, <3>2
  <2>. QED BY <1>1, <2>1
<1>4. ASSUME NEW v \in Workers, pc'[v] \in Mirroring
      PROVE  stateLock' = v /\ job'[v].seq = appended'
  <2>1. v = w BY <1>2, <1>4 DEF AppendState, Goto, TInv, JobsOK
  <2>2. CASE WithDb
    <3>1. stateLock' = w /\ job' = [job EXCEPT ![w].seq = appended + 1]
      BY <2>2 DEF AppendState
    <3>2. job[w] \in Job /\ w \in DOMAIN job BY DEF TInv, JobsOK
    <3>3. job'[w].seq = appended + 1 BY <3>1, <3>2 DEF Job
    <3>. QED BY <1>1, <2>1, <3>1, <3>3
  <2>3. CASE ~WithDb
    <3>1. pc'[w] = "idle" BY <2>3 DEF AppendState, Goto, TInv, JobsOK
    <3>. QED BY <1>4, <2>1, <3>1 DEF Mirroring
  <2>. QED BY <2>2, <2>3
<1>. QED BY <1>3, <1>4 DEF MInv, Mirroring

\* The row mirrored is that of the last record.
LEMMA MMirror ==
  ASSUME TInv, MInv, NEW w \in Workers, MirrorState(w)
  PROVE  /\ MInv'
         /\ \A x \in RunIds \X Keys :
              dbState'[x].seq = dbState[x].seq \/ dbState'[x].seq = appended
<1>1. pc[w] = "mirror" /\ stateLock = w /\ job[w].seq = appended
  BY DEF MirrorState, At, MInv
<1>2. \A x \in RunIds \X Keys :
        dbState'[x].seq = dbState[x].seq \/ dbState'[x].seq = appended
  BY <1>1 DEF MirrorState, TInv, DbOK
<1>3. appended' = appended BY DEF MirrorState, history
<1>4. \A x \in RunIds \X Keys : dbState'[x].seq <= appended'
  BY <1>2, <1>3 DEF MInv, TInv, HistoryOK
<1>5. ASSUME NEW v \in Workers, pc'[v] \in Mirroring
      PROVE  stateLock' = v /\ job'[v].seq = appended'
  <2>1. v = w
    <3>1. SUFFICES ASSUME v # w PROVE FALSE OBVIOUS
    <3>2. pc[v] \in Mirroring BY <1>5, <3>1 DEF MirrorState, Goto, TInv, JobsOK
    <3>. QED BY <1>1, <3>1, <3>2 DEF MInv, Mirroring
  <2>2. CASE job[w].category # "none"
    BY <1>1, <1>3, <2>1, <2>2 DEF MirrorState
  <2>3. CASE job[w].category = "none"
    <3>1. pc'[w] = "idle" BY <2>3 DEF MirrorState, Goto, TInv, JobsOK
    <3>. QED BY <1>5, <2>1, <3>1 DEF Mirroring
  <2>. QED BY <2>2, <2>3
<1>. QED BY <1>2, <1>4, <1>5 DEF MInv, Mirroring

LEMMA MLoses ==
  ASSUME MInv, LoseProcess, UNCHANGED <<dbState, appended>>
  PROVE  MInv'
<1>1. \A w \in Workers : pc'[w] \notin Mirroring BY DEF LoseProcess, Mirroring
<1>. QED BY <1>1, MQuiet

LEMMA MError ==
  ASSUME TInv, MInv, NEW w \in Workers,
         ReadTorn(w) \/ WorkerError(w) \/ TearAppend(w)
  PROVE  MInv' /\ UNCHANGED dbState
<1>1. UNCHANGED <<dbState, appended>>
  BY DEF ReadTorn, WorkerError, TearAppend, db, history
<1>2. CASE LoseProcess BY <1>1, <1>2, MLoses
<1>3. CASE ~LoseProcess
  <2>1. Raise(w) /\ ~Serial BY <1>3 DEF ReadTorn, WorkerError, TearAppend, Raise
  <2>2. /\ stateLock' = Release(w, stateLock) /\ Goto(w, "idle")
        /\ job' = [job EXCEPT ![w] = NoJob]
    BY <2>1 DEF Raise
  <2>3. "idle" \in PCs \ Mirroring BY DEF PCs, Mirroring
  <2>. QED BY <1>1, <2>2, <2>3, MGoes, MMoves
<1>. QED BY <1>1, <1>2, <1>3

\* Steps of the driver process, and of an idle worker that drops a line.
MAside ==
  \/ StartRun \/ RefuseRun \/ FinishRun \/ Signal \/ KillContainers
  \/ (\E k \in Keys : Redrive(k)) \/ (\E w \in Workers : Skip(w))
  \/ UNCHANGED vars

LEMMA MDriver == ASSUME MInv, MAside PROVE MInv' /\ UNCHANGED dbState
<1>1. UNCHANGED <<dbState, appended, pc, job, stateLock>>
  BY DEF MAside, StartRun, RefuseRun, FinishRun, Signal, KillContainers, Redrive,
         Skip, vars, db, history, threads, locks
<1>. QED BY <1>1, MQuiet

MOrdered == \A x \in RunIds \X Keys : dbState'[x].seq >= dbState[x].seq

LEMMA MNext == TInv /\ MInv /\ [Next]_vars => MInv' /\ MOrdered
<1>. SUFFICES ASSUME TInv, MInv, [Next]_vars PROVE MInv' /\ MOrdered OBVIOUS
<1>0. \A x \in RunIds \X Keys : dbState[x].seq \in Nat BY DEF TInv, DbOK
<1>1. ASSUME MInv' /\ UNCHANGED dbState PROVE MInv' /\ MOrdered
  BY <1>0, <1>1 DEF MOrdered
<1>2. CASE MAside BY <1>1, <1>2, MDriver
<1>3. CASE Crash
  <2>1. LoseProcess /\ UNCHANGED <<dbState, appended>> BY <1>3 DEF Crash, db, history
  <2>. QED BY <1>1, <2>1, MLoses
<1>4. ASSUME NEW w \in Workers, ReadTorn(w) \/ WorkerError(w) \/ TearAppend(w)
      PROVE  MInv' /\ MOrdered
  BY <1>1, <1>4, MError
<1>5. ASSUME NEW w \in Workers, AppendState(w) PROVE MInv' /\ MOrdered
  <2>1. UNCHANGED dbState BY <1>5 DEF AppendState, db
  <2>. QED BY <1>1, <1>5, <2>1, MAppend
<1>6. ASSUME NEW w \in Workers, MirrorState(w) PROVE MInv' /\ MOrdered
  <2>1. /\ MInv'
        /\ \A x \in RunIds \X Keys :
             dbState'[x].seq = dbState[x].seq \/ dbState'[x].seq = appended
    BY <1>6, MMirror
  <2>2. appended \in Nat BY DEF TInv, HistoryOK
  <2>. QED BY <1>0, <2>1, <2>2 DEF MInv, MOrdered
<1>7. ASSUME NEW w \in Workers, Step(w) PROVE MInv' /\ MOrdered
  <2>1. CASE ReadTorn(w) \/ AppendState(w) \/ MirrorState(w) \/ Skip(w)
    BY <1>2, <1>4, <1>5, <1>6, <2>1 DEF MAside
  <2>2. CASE ~(ReadTorn(w) \/ AppendState(w) \/ MirrorState(w) \/ Skip(w))
    <3>1. Elsewhere(w) BY <1>7, <2>2, MStep DEF Step
    <3>2. UNCHANGED dbState BY <3>1 DEF Elsewhere
    <3>. QED BY <1>1, <3>1, <3>2, MMoves
  <2>. QED BY <2>1, <2>2
<1>8. CASE \E w \in Workers : Step(w) \/ WorkerError(w) \/ TearAppend(w)
  BY <1>4, <1>7, <1>8
<1>9. MAside \/ Crash \/ \E w \in Workers : Step(w) \/ WorkerError(w) \/ TearAppend(w)
  BY DEF Next, MAside, Finished
<1>. QED BY <1>2, <1>3, <1>8, <1>9

\* drive_state never goes back to an earlier record, in whatever order the
\* workers finish and whichever of them raises or is lost in between: state_lock
\* spans the append and its mirror, so the record mirrored is the last appended.
THEOREM MirrorsInOrder == Spec => MirrorInOrder
<1>1. Init => MInv BY MInit
<1>2. TInv /\ MInv /\ [Next]_vars => MInv' BY MNext
<1>3. TInv /\ MInv /\ [Next]_vars => [\A x \in DOMAIN dbState : dbState'[x].seq >= dbState[x].seq]_dbState
  BY MNext DEF MOrdered, TInv, DbOK
<1>. QED BY <1>1, <1>2, <1>3, TypesHold, PTL DEF Spec, MirrorInOrder

-----------------------------------------------------------------------------
(* EvidenceForOutcome *)

\* The places where the reproduction a job rests on has no rows yet, and the
\* verdict that is returned without them.
Unwritten(p, j) ==
  \/ p \in {"idle", "relock", "attempts", "assemble", "index", "indexed"}
  \/ p \in {"open", "close"} /\ j.mode = "new"
  \/ j.status = "assemble_failed"

\* A verdict names the reproduction it is taken from.
Based(j) ==
  /\ j.category # "none" => j.basis = "strict"
  /\ j.status = "ok_after_relock" => j.basis = "relock"
  /\ j.flaky \/ j.status = "flaky" => j.basis # "none"

(***************************************************************************)
(* From the place that writes its rows on, a job has the rows, of this run *)
(* of the driver, that its verdict rests on; and rows are never taken      *)
(* away.  No job outlives its run.                                         *)
(***************************************************************************)
Ending == {"check"} \cup Persisting
Evidenced(p, j) ==
  /\ p # "idle" => Based(j)
  /\ p # "idle" /\ j.status = "assemble_failed" => p \in Ending
  /\ p \in {"resolve", "repro"} => j.basis = "none"
  /\ j.basis # "none" /\ ~Unwritten(p, j) => <<KeyOf[j.line], j.basis, run>> \in attempts

EInv ==
  /\ EvidenceForOutcome
  /\ WithDb => \A w \in Workers : Evidenced(pc[w], job[w])

\* No row is taken away, and only the lines of the state file.
LEMMA EOthers ==
  ASSUME TInv, EInv, NEW w \in Workers, run' = run,
         attempts \subseteq attempts', jsonl' \subseteq jsonl,
         \A v \in Workers \ {w} : pc'[v] = pc[v] /\ job'[v] = job[v],
         WithDb => Evidenced(pc[w], job[w])'
  PROVE  EInv'
<1>1. EvidenceForOutcome' BY DEF EInv, EvidenceForOutcome
<1>2. ASSUME WithDb, NEW v \in Workers PROVE Evidenced(pc[v], job[v])'
  <2>1. CASE v = w BY <1>2, <2>1
  <2>2. CASE v # w BY <1>2, <2>2 DEF EInv, Evidenced, Unwritten, Based
  <2>. QED BY <2>1, <2>2
<1>. QED BY <1>1, <1>2 DEF EInv

\* A worker moves on with its candidate; what its verdict rests on was there,
\* or is written by the step, or is still to be written.
LEMMA EMoves ==
  ASSUME TInv, EInv, NEW w \in Workers, NEW p, NEW j,
         pc' = [pc EXCEPT ![w] = p], job' = [job EXCEPT ![w] = j],
         p \notin {"idle", "resolve", "repro"}, j.line = job[w].line,
         attempts \subseteq attempts', jsonl' \subseteq jsonl, run' = run,
         WithDb => Based(j) /\ (j.status = "assemble_failed" => p \in Ending),
         \/ j.basis = "none" \/ Unwritten(p, j)
         \/ j.basis = job[w].basis /\ ~Unwritten(pc[w], job[w])
         \/ WithDb => <<Key(w), j.basis, run>> \in attempts'
  PROVE  EInv'
<1>1. pc'[w] = p /\ job'[w] = j /\ \A v \in Workers \ {w} : pc'[v] = pc[v] /\ job'[v] = job[v]
  BY DEF TInv, JobsOK
<1>2. ASSUME WithDb PROVE Evidenced(pc[w], job[w])'
  <2>1. Evidenced(pc[w], job[w]) BY <1>2 DEF EInv
  <2>2. Key(w) = KeyOf[j.line] BY DEF Key
  <2>3. j.basis # "none" /\ ~Unwritten(p, j) => <<KeyOf[j.line], j.basis, run>> \in attempts'
    BY <1>2, <2>1, <2>2 DEF Evidenced
  <2>4. Based(j) /\ (j.status = "assemble_failed" => p \in Ending) BY <1>2
  <2>. QED BY <1>1, <2>3, <2>4 DEF Evidenced, Unwritten, Based
<1>. QED BY <1>1, <1>2, EOthers

\* It goes back to idle, with or without its verdict.
LEMMA ERests ==
  ASSUME TInv, EInv, NEW w \in Workers, Goto(w, "idle"), \E j : job' = [job EXCEPT ![w] = j],
         attempts \subseteq attempts', jsonl' \subseteq jsonl, run' = run
  PROVE  EInv'
<1>1. pc'[w] = "idle" /\ \A v \in Workers \ {w} : pc'[v] = pc[v] /\ job'[v] = job[v]
  BY DEF TInv, JobsOK, Goto
<1>2. Evidenced(pc[w], job[w])' BY <1>1 DEF Evidenced, Unwritten
<1>. QED BY <1>1, <1>2, EOthers

\* A verdict that is not a relaxed success, nor flaky without a reproduction.
LEMMA EConcludes ==
  ASSUME TInv, EInv, NEW w \in Workers, NEW s, Conclude(w, s), pc[w] # "idle",
         attempts \subseteq attempts', jsonl' \subseteq jsonl, run' = run,
         s = "ok_after_relock" => job[w].status = "ok_after_relock",
         s = "flaky" => job[w].flaky,
         \/ pc[w] = "resolve" \/ s = "assemble_failed"
         \/ WithDb => <<Key(w), job[w].basis, run>> \in attempts'
  PROVE  EInv'
<1>. DEFINE j == [job[w] EXCEPT !.status = s]
<1>1. /\ j.line = job[w].line /\ j.category = job[w].category /\ j.status = s
      /\ j.basis = job[w].basis /\ j.flaky = job[w].flaky
  BY DEF TInv, JobsOK, Job
<1>2. pc' = [pc EXCEPT ![w] = "check"] /\ job' = [job EXCEPT ![w] = j]
  BY DEF Conclude, Goto
<1>. HIDE DEF j
<1>3. WithDb => Based(j) /\ (pc[w] = "resolve" => j.basis = "none")
  <2>1. WithDb => Evidenced(pc[w], job[w]) BY DEF EInv
  <2>. QED BY <1>1, <2>1 DEF Evidenced, Based
<1>4. (s = "assemble_failed" => Unwritten("check", j)) /\ "check" \in Ending
  BY <1>1 DEF Unwritten, Ending
<1>5. CASE WithDb BY <1>1, <1>2, <1>3, <1>4, <1>5, EMoves
<1>6. CASE ~WithDb BY <1>1, <1>2, <1>3, <1>4, <1>6, EMoves
<1>. QED BY <1>5, <1>6

\* It moves and its job stays.
LEMMA EGoes ==
  ASSUME TInv, EInv, NEW w \in Workers, NEW p, Goto(w, p), job' = job,
         p \notin {"idle", "resolve"}, pc[w] # "idle",
         attempts \subseteq attempts', jsonl' \subseteq jsonl, run' = run,
         p = "repro" => pc[w] = "resolve", pc[w] \in Ending => p \in Ending,
         \/ Unwritten(pc[w], job[w]) => Unwritten(p, job[w])
         \/ WithDb => <<Key(w), job[w].basis, run>> \in attempts'
  PROVE  EInv'
<1>1. job' = [job EXCEPT ![w] = job[w]] BY DEF TInv, JobsOK
<1>2. WithDb => Evidenced(pc[w], job[w]) BY DEF EInv
<1>3. CASE p # "repro"
  <2>1. WithDb => Based(job[w]) /\ (job[w].status = "assemble_failed" => p \in Ending)
    BY <1>2 DEF Evidenced
  <2>. QED BY <1>1, <1>3, <2>1, EMoves DEF Goto
<1>4. CASE p = "repro"
  <2>1. pc'[w] = p /\ \A v \in Workers \ {w} : pc'[v] = pc[v] /\ job'[v] = job[v]
    BY DEF TInv, JobsOK, Goto
  <2>2. WithDb => Evidenced(pc[w], job[w])'
    BY <1>2, <1>4, <2>1 DEF Evidenced, Based, Ending, Persisting
  <2>. QED BY <2>1, <2>2, EOthers
<1>. QED BY <1>3, <1>4

LEMMA EResolve == ASSUME TInv, EInv, NEW w \in Workers, Resolve(w) PROVE EInv'
<1>1. pc[w] = "resolve" /\ UNCHANGED <<attempts, jsonl, run>>
  BY DEF Resolve, MetadataFails, FlagStale, VerifyExisting, RejectLate,
         ImageMissing, BuildImage, ImageResolved, At, disk, db, counters
<1>2. CASE \E s \in Statuses \ {"ok_after_relock", "flaky"} : Conclude(w, s)
  BY <1>1, <1>2, EConcludes
<1>3. CASE Goto(w, "repro") /\ UNCHANGED job
  <2>1. /\ Unwritten(pc[w], job[w]) => Unwritten("repro", job[w])
        /\ pc[w] \notin Ending
    BY <1>1 DEF Unwritten, Ending, Persisting
  <2>. QED BY <1>1, <1>3, <2>1, EGoes
<1>4. CASE VerifyExisting(w)
  <2>. DEFINE j == [job[w] EXCEPT !.mode = "existing"]
  <2>1. /\ j.line = job[w].line /\ j.category = job[w].category
        /\ j.status = job[w].status /\ j.flaky = job[w].flaky /\ j.basis = job[w].basis
    BY DEF TInv, JobsOK, Job
  <2>2. pc' = [pc EXCEPT ![w] = "regen"] /\ job' = [job EXCEPT ![w] = j]
    BY <1>4 DEF VerifyExisting, Goto
  <2>. HIDE DEF j
  <2>3. WithDb => Based(j) /\ j.basis = "none" /\ j.status # "assemble_failed"
    BY <1>1, <2>1 DEF EInv, Evidenced, Based, Ending, Persisting
  <2>4. CASE WithDb BY <1>1, <2>1, <2>2, <2>3, <2>4, EMoves
  <2>5. CASE ~WithDb BY <1>1, <2>1, <2>2, <2>5, EMoves
  <2>. QED BY <2>4, <2>5
<1>5. /\ {"metadata_fetch_failed", "entry_bucket_stale", "commit_after_max_sde_date",
          "fat_image_missing", "fat_image_build_failed"}
          \subseteq Statuses \ {"ok_after_relock", "flaky"}
  BY DEF Statuses, TerminalFailure
<1>6. \/ \E s \in Statuses \ {"ok_after_relock", "flaky"} : Conclude(w, s)
      \/ Goto(w, "repro") /\ UNCHANGED job
      \/ VerifyExisting(w)
  BY <1>5 DEF Resolve, MetadataFails, FlagStale, RejectLate, ImageMissing,
              BuildImage, ImageResolved
<1>. QED BY <1>2, <1>3, <1>4, <1>6

LEMMA EReproduce == ASSUME TInv, EInv, NEW w \in Workers, Reproduce(w) PROVE EInv'
<1>1. pc[w] = "repro" /\ UNCHANGED <<attempts, jsonl, run>>
  BY DEF Reproduce, At, disk, db, counters
<1>0. WithDb => Based(job[w]) /\ job[w].status # "assemble_failed"
  BY <1>1 DEF EInv, Evidenced, Ending, Persisting
<1>2. PICK o \in Returns(Attempts, killPass) :
         IF o.pre
         THEN /\ job' = [job EXCEPT ![w].flaky = o.flaky, ![w].killed = o.killed,
                                    ![w].basis = "strict"]
              /\ Goto(w, "assemble")
         ELSE PreFails(w, o)
  BY DEF Reproduce
<1>3. CASE o.pre
  <2>. DEFINE j == [job[w] EXCEPT !.flaky = o.flaky, !.killed = o.killed,
                                  !.basis = "strict"]
  <2>1. /\ j.line = job[w].line /\ j.category = job[w].category
        /\ j.status = job[w].status /\ j.basis = "strict"
    BY DEF TInv, JobsOK, Job
  <2>2. pc' = [pc EXCEPT ![w] = "assemble"] /\ job' = [job EXCEPT ![w] = j]
    BY <1>2, <1>3 DEF Goto
  <2>. HIDE DEF j
  <2>3. Unwritten("assemble", j) BY DEF Unwritten
  <2>4. WithDb => Based(j) /\ j.status # "assemble_failed"
    <3>1. WithDb => job[w].status # "ok_after_relock"
      BY <1>0, <1>1 DEF Based, EInv, Evidenced
    <3>. QED BY <1>0, <2>1, <3>1 DEF Based
  <2>. QED BY <1>1, <2>1, <2>2, <2>3, <2>4, EMoves
<1>4. CASE ~o.pre
  <2>1. PICK c \in Categories \ {"none"} :
          /\ job' = [job EXCEPT ![w].status = "not_reproducible", ![w].category = c,
                                ![w].flaky = o.flaky, ![w].killed = o.killed,
                                ![w].basis = "strict"]
          /\ Goto(w, IF RelaxLocked /\ c = "LOCK_FILE_STALE" THEN "relock"
                     ELSE IF WithDb THEN "attempts" ELSE "check")
    BY <1>2, <1>4 DEF PreFails
  <2>. DEFINE j == [job[w] EXCEPT !.status = "not_reproducible", !.category = c,
                                  !.flaky = o.flaky, !.killed = o.killed,
                                  !.basis = "strict"]
              p == IF RelaxLocked /\ c = "LOCK_FILE_STALE" THEN "relock"
                   ELSE IF WithDb THEN "attempts" ELSE "check"
  <2>2. j.line = job[w].line /\ j.status = "not_reproducible" /\ j.basis = "strict"
    BY DEF TInv, JobsOK, Job
  <2>3. p \notin {"idle", "resolve", "repro"} /\ (WithDb => p \in {"relock", "attempts"})
    OBVIOUS
  <2>4. pc' = [pc EXCEPT ![w] = p] /\ job' = [job EXCEPT ![w] = j]
    BY <2>1 DEF Goto
  <2>. HIDE DEF j, p
  <2>5. Based(j) /\ (WithDb => Unwritten(p, j)) BY <2>2, <2>3 DEF Based, Unwritten
  <2>. QED BY <1>1, <2>2, <2>3, <2>4, <2>5, EMoves
<1>. QED BY <1>3, <1>4

LEMMA ERelock == ASSUME TInv, EInv, NEW w \in Workers, Relock(w) PROVE EInv'
<1>1. pc[w] = "relock" /\ UNCHANGED <<attempts, jsonl, run>>
  BY DEF Relock, At, disk, db, counters
<1>0. WithDb => Based(job[w]) /\ job[w].status # "assemble_failed"
  BY <1>1 DEF EInv, Evidenced, Ending, Persisting
<1>2. PICK o \in Returns(1, killPass) :
         IF o.pre /\ o.post
         THEN /\ job' = [job EXCEPT ![w].status = "ok_after_relock",
                                    ![w].category = "none",
                                    ![w].basis = "relock"]
              /\ Goto(w, "assemble")
         ELSE /\ job' = [job EXCEPT ![w].killed = @ \/ o.killed]
              /\ Goto(w, IF WithDb THEN "attempts" ELSE "check")
  BY DEF Relock
<1>3. CASE o.pre /\ o.post
  <2>. DEFINE j == [job[w] EXCEPT !.status = "ok_after_relock", !.category = "none",
                                  !.basis = "relock"]
  <2>1. /\ j.line = job[w].line /\ j.category = "none"
        /\ j.status = "ok_after_relock" /\ j.basis = "relock"
    BY DEF TInv, JobsOK, Job
  <2>2. pc' = [pc EXCEPT ![w] = "assemble"] /\ job' = [job EXCEPT ![w] = j]
    BY <1>2, <1>3 DEF Goto
  <2>. HIDE DEF j
  <2>3. Unwritten("assemble", j) /\ Based(j) BY <2>1 DEF Unwritten, Based
  <2>. QED BY <1>1, <2>1, <2>2, <2>3, EMoves
<1>4. CASE ~(o.pre /\ o.post)
  <2>. DEFINE j == [job[w] EXCEPT !.killed = @ \/ o.killed]
              p == IF WithDb THEN "attempts" ELSE "check"
  <2>1. /\ j.line = job[w].line /\ j.category = job[w].category
        /\ j.status = job[w].status /\ j.flaky = job[w].flaky /\ j.basis = job[w].basis
    BY DEF TInv, JobsOK, Job
  <2>2. pc' = [pc EXCEPT ![w] = p] /\ job' = [job EXCEPT ![w] = j]
    BY <1>2, <1>4 DEF Goto
  <2>3. p \notin {"idle", "resolve", "repro"} /\ (WithDb => p = "attempts") OBVIOUS
  <2>. HIDE DEF j, p
  <2>4. WithDb => Based(j) /\ Unwritten(p, j) /\ j.status # "assemble_failed"
    BY <1>0, <2>1, <2>3 DEF Based, Unwritten
  <2>5. CASE WithDb BY <1>1, <2>1, <2>2, <2>3, <2>4, <2>5, EMoves
  <2>6. CASE ~WithDb BY <1>1, <2>1, <2>2, <2>3, <2>6, EMoves
  <2>. QED BY <2>5, <2>6
<1>. QED BY <1>3, <1>4

\* The rows of the reproduction that succeeded are written with the entry.
LEMMA EAfterWrite ==
  ASSUME TInv, EInv, NEW w \in Workers, AfterWrite(w), pc[w] \in {"close", "indexed"},
         attempts \subseteq attempts', jsonl' \subseteq jsonl, run' = run,
         WithDb => <<Key(w), job[w].basis, run>> \in attempts'
  PROVE  EInv'
<1>1. CASE RegenerateVerify
  <2>. DEFINE j == [job[w] EXCEPT !.mode = "assembled"]
  <2>1. /\ j.line = job[w].line /\ j.category = job[w].category
        /\ j.status = job[w].status /\ j.flaky = job[w].flaky /\ j.basis = job[w].basis
    BY DEF TInv, JobsOK, Job
  <2>2. pc' = [pc EXCEPT ![w] = "regen"] /\ job' = [job EXCEPT ![w] = j]
    BY <1>1 DEF AfterWrite, Goto
  <2>. HIDE DEF j
  <2>3. WithDb => Based(j) /\ j.status # "assemble_failed"
    BY <2>1 DEF EInv, Evidenced, Based, Ending, Persisting
  <2>. QED BY <2>1, <2>2, <2>3, EMoves
<1>2. CASE ~RegenerateVerify
  <2>1. Conclude(w, FinalStatus(job[w])) BY <1>2 DEF AfterWrite
  <2>2. /\ FinalStatus(job[w]) = "ok_after_relock" => job[w].status = "ok_after_relock"
        /\ FinalStatus(job[w]) = "flaky" => job[w].flaky
    BY DEF FinalStatus
  <2>. QED BY <2>1, <2>2, EConcludes
<1>. QED BY <1>1, <1>2

LEMMA EEntry ==
  ASSUME TInv, EInv, NEW w \in Workers,
         \/ RecordAttempts(w) \/ Assemble(w) \/ OpenEntry(w) \/ CloseEntry(w)
         \/ IndexEntry(w) \/ IndexAttempts(w) \/ RegenRead(w) \/ Keep(w)
  PROVE  EInv'
<1>1. attempts \subseteq attempts' /\ jsonl' \subseteq jsonl /\ run' = run
  BY DEF RecordAttempts, Assemble, OpenEntry, CloseEntry, IndexEntry, IndexAttempts,
         RegenRead, Keep, disk, db, counters
<1>2. CASE RecordAttempts(w)
  BY <1>1, <1>2, EGoes DEF RecordAttempts, RowsOf, At, Ending, Persisting
<1>3. CASE Assemble(w)
  <2>1. pc[w] = "assemble" /\ job[w].mode = "new"
    BY <1>3 DEF Assemble, At, TInv, JobsOK, Holds, Fresh
  <2>2. CASE Conclude(w, "assemble_failed") BY <1>1, <2>1, <2>2, EConcludes
  <2>3. CASE Goto(w, "open") /\ UNCHANGED job
    <3>1. Unwritten("open", job[w]) BY <2>1 DEF Unwritten
    <3>. QED BY <1>1, <2>1, <2>3, <3>1, EGoes DEF Ending, Persisting
  <2>. QED BY <1>3, <2>2, <2>3 DEF Assemble
<1>4. CASE OpenEntry(w)
  <2>1. Unwritten("open", job[w]) => Unwritten("close", job[w]) BY DEF Unwritten
  <2>. QED BY <1>1, <1>4, <2>1, EGoes DEF OpenEntry, At, Ending, Persisting
<1>5. CASE CloseEntry(w)
  <2>1. CASE job[w].mode = "new" /\ WithDb
    <3>1. Unwritten("index", job[w]) BY DEF Unwritten
    <3>. QED BY <1>1, <1>5, <2>1, <3>1, EGoes DEF CloseEntry, At, Ending, Persisting
  <2>2. CASE job[w].mode = "new" /\ ~WithDb
    BY <1>1, <1>5, <2>2, EAfterWrite DEF CloseEntry, At
  <2>3. CASE job[w].mode # "new"
    <3>1. Unwritten("close", job[w]) => Unwritten("check", job[w]) BY <2>3 DEF Unwritten
    <3>. QED BY <1>1, <1>5, <2>3, <3>1, EGoes DEF CloseEntry, At, Ending, Persisting
  <2>. QED BY <2>1, <2>2, <2>3
<1>6. CASE IndexEntry(w)
  <2>1. Unwritten("indexed", job[w]) BY DEF Unwritten
  <2>. QED BY <1>1, <1>6, <2>1, EGoes DEF IndexEntry, At, Ending, Persisting
<1>7. CASE IndexAttempts(w)
  BY <1>1, <1>7, EAfterWrite DEF IndexAttempts, RowsOf, At
<1>8. CASE RegenRead(w)
  <2>1. Unwritten("regen", job[w]) => Unwritten("verify", job[w]) BY DEF Unwritten
  <2>. QED BY <1>1, <1>8, <2>1, EGoes DEF RegenRead, At, Ending, Persisting
<1>9. CASE Keep(w)
  <2>1. Unwritten("check", job[w]) => Unwritten("append", job[w]) BY DEF Unwritten
  <2>. QED BY <1>1, <1>9, <2>1, EGoes DEF Keep, At, Ending, Persisting
<1>. QED BY <1>2, <1>3, <1>4, <1>5, <1>6, <1>7, <1>8, <1>9

LEMMA EVerify == ASSUME TInv, EInv, NEW w \in Workers, RegenVerify(w) PROVE EInv'
<1>1. pc[w] = "verify" /\ UNCHANGED <<attempts, jsonl, run>>
  BY DEF RegenVerify, At, disk, db, counters
<1>2. PICK rc \in RegenCodes :
        /\ job' = [job EXCEPT ![w].status = RegenStatus(job[w], rc)]
        /\ \/ rc \in {"ok", "outcome"} /\ Goto(w, "open")
           \/ rc \notin {"ok", "outcome"} /\ Goto(w, "check")
  <2>1. PICK rc \in RegenCodes :
          /\ job' = [job EXCEPT ![w].status = RegenStatus(job[w], rc)]
          /\ IF rc \in {"ok", "outcome"}
             THEN /\ buf' = [buf EXCEPT ![w].verified = @ + 1]
                  /\ Goto(w, "open")
             ELSE /\ buf' = [buf EXCEPT ![w] = Blank("absent")]
                  /\ Goto(w, "check")
    BY DEF RegenVerify
  <2>. QED BY <2>1
<1>. DEFINE s == RegenStatus(job[w], rc)
            j == [job[w] EXCEPT !.status = s]
            p == IF rc \in {"ok", "outcome"} THEN "open" ELSE "check"
<1>3. /\ s = "ok_after_relock" => job[w].status = "ok_after_relock"
      /\ s = "flaky" => job[w].flaky
      /\ s # "assemble_failed"
  BY DEF RegenStatus, FinalStatus, RegenCodes
<1>4. /\ j.line = job[w].line /\ j.category = job[w].category /\ j.status = s
      /\ j.flaky = job[w].flaky /\ j.basis = job[w].basis
  BY DEF TInv, JobsOK, Job
<1>5. p \notin {"idle", "resolve", "repro"} OBVIOUS
<1>6. pc' = [pc EXCEPT ![w] = p] /\ job' = [job EXCEPT ![w] = j] BY <1>2 DEF Goto
<1>7. WithDb => ~Unwritten(pc[w], job[w])
  BY <1>1 DEF Unwritten, EInv, Evidenced, Ending, Persisting
<1>. HIDE DEF s, j, p
<1>8. WithDb => Based(j) /\ j.status # "assemble_failed"
  BY <1>1, <1>3, <1>4 DEF EInv, Evidenced, Based
<1>9. CASE WithDb
  BY <1>1, <1>4, <1>5, <1>6, <1>7, <1>8, <1>9, EMoves
<1>10. CASE ~WithDb
  BY <1>1, <1>4, <1>5, <1>6, <1>8, <1>10, EMoves
<1>. QED BY <1>9, <1>10

LEMMA ETake == ASSUME TInv, EInv, NEW w \in Workers, Take(w) PROVE EInv'
<1>1. PICK l \in todo : job' = [job EXCEPT ![w] = NewJob(l)] BY DEF Take
<1>2. /\ pc'[w] = "resolve" /\ job'[w] = NewJob(l)
      /\ \A v \in Workers \ {w} : pc'[v] = pc[v] /\ job'[v] = job[v]
  BY <1>1 DEF Take, Goto, TInv, JobsOK
<1>3. Evidenced(pc[w], job[w])'
  <2>1. /\ NewJob(l).category = "none" /\ NewJob(l).status = ""
        /\ NewJob(l).basis = "none" /\ ~NewJob(l).flaky
    BY DEF NewJob
  <2>. QED BY <1>2, <2>1 DEF Evidenced, Based
<1>4. UNCHANGED <<attempts, jsonl, run>> BY DEF Take, disk, db, counters
<1>. QED BY <1>2, <1>3, <1>4, EOthers

LEMMA EAppend == ASSUME TInv, EInv, NEW w \in Workers, AppendState(w) PROVE EInv'
<1>1. pc[w] = "append" /\ UNCHANGED <<attempts, run>> /\ jsonl' = jsonl \cup {RecordOf(w)}
  BY DEF AppendState, At, db, counters
<1>2. WithDb => Evidenced(pc[w], job[w]) BY DEF EInv
<1>3. EvidenceForOutcome'
  <2>. DEFINE r == RecordOf(w)
  <2>1. /\ r.key = Key(w) /\ r.status = job[w].status /\ r.category = job[w].category
        /\ r.basis = job[w].basis /\ r.run = run
    BY DEF RecordOf
  <2>2. ASSUME WithDb
        PROVE  /\ r.basis # "none" /\ r.status # "assemble_failed" =>
                    <<r.key, r.basis, r.run>> \in attempts
               /\ r.category # "none" => r.basis = "strict"
               /\ r.status = "ok_after_relock" => r.basis = "relock"
               /\ r.status = "flaky" => r.basis # "none"
    BY <1>1, <1>2, <2>1, <2>2 DEF Key, Evidenced, Based, Unwritten
  <2>. QED BY <1>1, <2>2 DEF EInv, EvidenceForOutcome
<1>4. ASSUME WithDb, NEW v \in Workers PROVE Evidenced(pc[v], job[v])'
  <2>1. CASE v = w
    <3>. DEFINE j == [job[w] EXCEPT !.seq = appended + 1]
    <3>1. pc'[w] = "mirror" /\ job'[w] = j
      BY <1>4 DEF AppendState, Goto, TInv, JobsOK
    <3>2. /\ j.line = job[w].line /\ j.category = job[w].category
          /\ j.status = job[w].status /\ j.flaky = job[w].flaky /\ j.basis = job[w].basis
      BY DEF TInv, JobsOK, Job
    <3>. HIDE DEF j
    <3>. QED BY <1>1, <1>2, <1>4, <2>1, <3>1, <3>2
         DEF Evidenced, Unwritten, Based, Ending, Persisting
  <2>2. CASE v # w
    <3>1. pc'[v] = pc[v] /\ job'[v] = job[v]
      BY <2>2 DEF AppendState, Goto, TInv, JobsOK
    <3>. QED BY <1>1, <1>4, <3>1 DEF EInv, Evidenced, Unwritten, Based
  <2>. QED BY <2>1, <2>2
<1>. QED BY <1>3, <1>4 DEF EInv

LEMMA EMirror ==
  ASSUME TInv, EInv, NEW w \in Workers, MirrorState(w) \/ MirrorClass(w) \/ Drop(w)
  PROVE  EInv'
<1>1. UNCHANGED <<attempts, jsonl, run>>
  BY DEF MirrorState, MirrorClass, Drop, disk, db, counters
<1>2. pc[w] \in {"mirror", "mirrorclass", "check"}
  BY DEF MirrorState, MirrorClass, Drop, At
<1>3. \/ Goto(w, "idle") /\ job' = [job EXCEPT ![w] = NoJob]
      \/ pc[w] = "mirror" /\ Goto(w, "mirrorclass") /\ job' = job
  BY DEF MirrorState, MirrorClass, Drop, At
<1>4. CASE Goto(w, "idle") /\ job' = [job EXCEPT ![w] = NoJob] BY <1>1, <1>4, ERests
<1>5. CASE pc[w] = "mirror" /\ Goto(w, "mirrorclass") /\ job' = job
  BY <1>1, <1>5, EGoes DEF Unwritten, Ending, Persisting
<1>. QED BY <1>3, <1>4, <1>5

LEMMA ELoses ==
  ASSUME EInv, LoseProcess, attempts \subseteq attempts', jsonl' \subseteq jsonl
  PROVE  EInv'
<1>1. \A v \in Workers : pc'[v] = "idle" BY DEF LoseProcess
<1>. QED BY <1>1 DEF EInv, EvidenceForOutcome, Evidenced, Unwritten

\* No worker moves; and while one is at work, no run begins.
LEMMA EQuiet ==
  ASSUME EInv, UNCHANGED <<attempts, pc, job>>, jsonl' \subseteq jsonl,
         run' = run \/ \A w \in Workers : pc[w] = "idle"
  PROVE  EInv'
<1>1. EvidenceForOutcome' BY DEF EInv, EvidenceForOutcome
<1>2. CASE run' = run BY <1>1, <1>2 DEF EInv, Evidenced, Unwritten, Based
<1>3. CASE \A w \in Workers : pc[w] = "idle"
  BY <1>1, <1>3 DEF EInv, Evidenced, Unwritten
<1>. QED BY <1>2, <1>3

LEMMA EError ==
  ASSUME TInv, EInv, NEW w \in Workers, ReadTorn(w) \/ WorkerError(w) \/ TearAppend(w)
  PROVE  EInv'
<1>1. UNCHANGED <<attempts, jsonl, run>>
  BY DEF ReadTorn, WorkerError, TearAppend, disk, db, counters
<1>2. LoseProcess \/ (Goto(w, "idle") /\ job' = [job EXCEPT ![w] = NoJob])
  BY DEF ReadTorn, WorkerError, TearAppend, Raise
<1>. QED BY <1>1, <1>2, ELoses, ERests

LEMMA EStep == ASSUME TInv, EInv, NEW w \in Workers, Step(w) PROVE EInv'
<1>1. CASE Skip(w)
  <2>1. UNCHANGED <<attempts, jsonl, pc, job, run>>
    BY <1>1 DEF Skip, disk, db, threads, counters
  <2>. QED BY <2>1, EQuiet
<1>. QED BY <1>1, ETake, EResolve, EReproduce, ERelock, EEntry, EVerify, EError,
            EAppend, EMirror DEF Step

LEMMA ENext == TInv /\ KInv /\ EInv /\ [Next]_vars => EInv'
<1>. SUFFICES ASSUME TInv, KInv, EInv, [Next]_vars PROVE EInv' OBVIOUS
<1>1. CASE Crash
  <2>1. LoseProcess /\ UNCHANGED <<attempts, jsonl>> BY <1>1 DEF Crash, disk, db
  <2>. QED BY <2>1, ELoses
<1>2. CASE \E w \in Workers : Step(w) \/ WorkerError(w) \/ TearAppend(w)
  BY <1>2, EStep, EError
<1>3. CASE \/ StartRun \/ RefuseRun \/ FinishRun \/ Signal \/ KillContainers
           \/ (\E k \in Keys : Redrive(k)) \/ UNCHANGED vars
  <2>1. UNCHANGED <<attempts, pc, job>> /\ jsonl' \subseteq jsonl
    BY <1>3 DEF StartRun, RefuseRun, FinishRun, Signal, KillContainers, Redrive, vars,
                disk, db, threads
  <2>2. run' = run \/ \A w \in Workers : pc[w] = "idle"
    BY <1>3 DEF StartRun, RefuseRun, FinishRun, Signal, KillContainers, Redrive, vars,
                counters, KInv
  <2>. QED BY <2>1, <2>2, EQuiet
<1>. QED BY <1>1, <1>2, <1>3 DEF Next, Finished

\* With --db, a record whose verdict is taken from a reproduction has the rows of
\* that reproduction, of its own run of the driver, before it is appended:
\* failures, flaky ones, relaxed successes and mismatches alike, however the
\* workers, the faults and the runs fall.  Each path from reproduce() to the
\* state file passes the place that writes them, but for the return of
\* assemble_failed, which the property excepts.
THEOREM EvidenceIsRecorded == Spec => []EvidenceForOutcome
<1>1. Init => KInv /\ EInv
  <2>1. Init => EvidenceForOutcome BY DEF Init, EvidenceForOutcome
  <2>2. Init => \A w \in Workers : Evidenced(pc[w], job[w])
    BY DEF Init, Evidenced, Unwritten
  <2>. QED BY <2>1, <2>2, KInit DEF EInv
<1>2. TInv /\ KInv /\ EInv /\ [Next]_vars => KInv' /\ EInv' BY ENext, KNext
<1>3. EInv => EvidenceForOutcome BY DEF EInv
<1>. QED BY <1>1, <1>2, <1>3, TypesHold, PTL DEF Spec

=============================================================================
