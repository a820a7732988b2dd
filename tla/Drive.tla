------------------------------- MODULE Drive -------------------------------
(***************************************************************************)
(* The Cargo pipeline driver, pipelines/cargo/cargo_drive.py: a pool of    *)
(* worker threads that takes every unresolved line of a candidates file    *)
(* through process() -- resolve, reproduce in Docker, assemble the entry   *)
(* JSON, index it, optionally re-verify it -- and appends one record per   *)
(* finished candidate to a state JSONL that a later run resumes from.      *)
(*                                                                         *)
(* A call of _reproducer.reproduce() is one step here: what it may return  *)
(* is the contract that module Reproducer establishes step by step.        *)
(***************************************************************************)
EXTENDS Naturals, FiniteSets, ReproduceContract

CONSTANTS
  Lines,            \* line numbers of the candidates file (one candidate each)
  Keys,             \* candidate keys "<repo>#<pr_number>"
  EntryIds,         \* entry ids "cargo-<post_commit[:8]>"
  KeyOf,            \* the key of each line
  EntryOf,          \* the entry id of each line
  Late,             \* lines whose commit date lies beyond --max-sde-date
  Tags,             \* fat-image tags
  NoTag,            \* bucket_for refused the candidate / no forced image
  Bucketings,       \* what the bucketer of one run may answer: [Lines -> tags]
  Prior,            \* per entry id, the tag of an entry another host has
                    \* already published there, or NoTag
  Registered,       \* tags in the fat-image index before the first run
  Workers,          \* threads of the pool; a single one is the serial path
  NoWorker,         \* holder of a free lock
  Limit,            \* --limit; 0 when absent
  Attempts,         \* --attempts
  ForceTag,         \* --force-fat-image, or NoTag
  BuildMissing,     \* --build-missing-bases
  ReassembleFrom,   \* first run given --reassemble-stale; 0 if none is
  RelaxLocked,      \* --relax-locked
  RegenerateVerify, \* --regenerate-verify
  WithDb,           \* --db
  SameRunId,        \* all runs share a --run-id (else one per run)
  Faults,           \* the faults that may happen: a signal, a crash of the
                    \* driver, an exception in a worker, an image the preflight
                    \* misses, an append cut short (full disk, lost power)
  MaxRuns,          \* bound: runs of the driver
  MaxFaults,        \* bound: faults, all runs
  MaxRedrives       \* bound: times the operator deletes a candidate's lines

Serial == \A v, w \in Workers : v = w

ASSUME DriveAssumption ==
  /\ Lines \subseteq Nat \ {0}
  /\ KeyOf \in [Lines -> Keys]
  /\ EntryOf \in [Lines -> EntryIds]
  /\ NoTag \notin Tags
  /\ Bucketings \subseteq [Lines -> Tags \cup {NoTag}]
  /\ Prior \in [EntryIds -> Tags \cup {NoTag}]
  /\ Registered \subseteq Tags
  /\ NoWorker \notin Workers
  /\ Limit \in Nat /\ Attempts \in Nat \ {0}
  /\ MaxRuns \in Nat /\ MaxFaults \in Nat /\ MaxRedrives \in Nat
  /\ ReassembleFrom \in Nat
  /\ ForceTag \in Tags \cup {NoTag}
  /\ Faults \subseteq {"signal", "crash", "error", "preflight", "torn"}
  /\ {BuildMissing, RelaxLocked, RegenerateVerify, WithDb, SameRunId} \subseteq BOOLEAN
  /\ BuildMissing => Serial      \* main() returns 2 otherwise

TerminalSuccess == {"ok", "ok_after_relock"}
TerminalFlaky == {"flaky"}
TerminalFailure ==
  { "fat_image_missing", "fat_image_build_failed", "not_reproducible",
    "assemble_failed", "regenerate_mismatch", "metadata_fetch_failed",
    "commit_after_max_sde_date", "entry_bucket_stale" }
Statuses == TerminalSuccess \cup TerminalFlaky \cup TerminalFailure

\* The statuses load_state's caller skips: TERMINAL_FLAKY is not among them.
Terminal == TerminalSuccess \cup TerminalFailure

(***************************************************************************)
(* Records of the state file.  seq is the record's rank among all appends, *)
(* so that a set of records stands for the lines in their order.  killed,  *)
(* run and basis are history: whether a test run the record rests on was   *)
(* cut short by the shutdown, which run of the driver appended it, and     *)
(* which reproduction of that run its verdict is taken from, if one is.    *)
(***************************************************************************)
Kinds == {"strict", "relock"}   \* reproductions: as locked, with a new lock file
Bases == Kinds \cup {"none"}
Categories == {"none", "LOCK_FILE_STALE", "OTHER"}
Record == [key : Keys, entry : EntryIds, status : Statuses,
           category : Categories, flaky : BOOLEAN, killed : BOOLEAN,
           basis : Bases, run : Nat, seq : Nat]

\* An entry file: open("w") truncates it before the new text is written.
\* killed is history: the reproduction it was assembled from was cut short.
EntryFile == [st : {"absent", "torn", "whole"}, tag : Tags \cup {NoTag},
              killed : BOOLEAN, verified : Nat]
Blank(st) == [st |-> st, tag |-> NoTag, killed |-> FALSE, verified |-> 0]

\* What a worker thread holds of its candidate: the DriveRecord being filled.
\* seq is that of its record once appended.
Modes == {"new", "existing", "assembled"}
Job == [line : Lines \cup {0}, status : Statuses \cup {""}, category : Categories,
        flaky : BOOLEAN, killed : BOOLEAN, basis : Bases, mode : Modes,
        seq : Nat]
NewJob(l) == [line |-> l, status |-> "", category |-> "none",
              flaky |-> FALSE, killed |-> FALSE, basis |-> "none",
              mode |-> "new", seq |-> 0]
NoJob == NewJob(0)

RunIds == 1 .. (IF SameRunId THEN 1 ELSE MaxRuns)
RunIdOf(r) == IF SameRunId THEN 1 ELSE r

PCs == { "idle", "resolve", "repro", "relock", "attempts", "assemble",
         "open", "close", "index", "indexed", "regen", "verify", "check",
         "append", "mirror", "mirrorclass" }

RegenCodes == {"ok", "fingerprint", "thin_build", "fat_missing", "outcome"}

VARIABLES
  \* persistent: the state file, the entries directory, the fat-image index,
  \* and pipeline.sqlite
  jsonl,       \* the lines of the state file
  garbled,     \* whether it holds a line cut short
  files, ledger,
  dbState,     \* drive_state: per run id and key, the row's status and its seq
  dbClass,     \* drive_state_classifications: the category, per run id and key
  indexed,     \* entries: ids with a row
  attempts,    \* reproduction_attempts: rows, as <<key, kind, run>>
  \* the driver process
  driver, canon, todo, shutdown, killPass, stateLock, dbLock,
  \* the worker threads: control, candidate, text to write, entry as read
  pc, job, buf,
  \* history and bounds.  lost: the records whose worker was lost in the midst
  \* of mirroring them, each with the statement that was not made.
  appended, lost, run, faults, redrives

disk == <<jsonl, garbled, files, ledger>>
db == <<dbState, dbClass, indexed, attempts>>
process == <<driver, canon, todo, shutdown, killPass>>
locks == <<stateLock, dbLock>>
threads == <<pc, job, buf>>
counters == <<run, redrives>>
history == <<appended, lost>>
vars == <<disk, db, process, locks, threads, history, counters, faults>>

DiskOK ==
  /\ jsonl \subseteq Record /\ garbled \in BOOLEAN
  /\ files \in [EntryIds -> EntryFile] /\ ledger \subseteq Tags
DbOK ==
  /\ dbState \in [RunIds \X Keys -> [status : Statuses \cup {"none"}, seq : Nat]]
  /\ dbClass \in [RunIds \X Keys -> Categories]
  /\ indexed \subseteq EntryIds /\ attempts \subseteq Keys \X Kinds \X Nat
ProcessOK ==
  /\ driver \in {"down", "running"}
  /\ canon \in [Lines -> Tags \cup {NoTag}] /\ todo \subseteq Lines
  /\ shutdown \in BOOLEAN /\ killPass \in BOOLEAN
LocksOK ==
  stateLock \in Workers \cup {NoWorker} /\ dbLock \in Workers \cup {NoWorker}
ThreadsOK ==
  /\ pc \in [Workers -> PCs] /\ job \in [Workers -> Job]
  /\ buf \in [Workers -> EntryFile]
HistoryOK == appended \in Nat /\ lost \subseteq {"mirror", "mirrorclass"} \X Nat
CountersOK == run \in Nat /\ redrives \in Nat /\ faults \in Nat

TypeOK ==
  DiskOK /\ DbOK /\ ProcessOK /\ LocksOK /\ ThreadsOK /\ HistoryOK /\ CountersOK

-----------------------------------------------------------------------------
(* load_state and the skip-list filter of main() *)

Recorded(k) == {r \in jsonl : r.key = k}
Last(R) == CHOOSE r \in R : \A q \in R : q.seq <= r.seq

\* load_state keeps the last record of a key.
LastStatus(k) ==
  IF Recorded(k) = {} THEN "none" ELSE Last(Recorded(k)).status

\* Mutants of Unresolved: the state file is not read; an entry on disk counts as done.
UnresolvedForgetful == Lines
UnresolvedByEntry == {l \in Lines : files[EntryOf[l]].st = "absent"}

Unresolved == {l \in Lines : LastStatus(KeyOf[l]) \notin Terminal}

\* The first --limit unresolved lines in file order.  (--shuffle then permutes
\* them, so workers below may take them in any order.)
Batch == {l \in Unresolved :
            Limit = 0 \/ Cardinality({m \in Unresolved : m <= l}) <= Limit}

Init ==
  /\ jsonl = {} /\ garbled = FALSE
  /\ files = [e \in EntryIds |->
                [Blank(IF Prior[e] = NoTag THEN "absent" ELSE "whole")
                   EXCEPT !.tag = Prior[e]]]
  /\ ledger = Registered
  /\ dbState = [x \in RunIds \X Keys |-> [status |-> "none", seq |-> 0]]
  /\ dbClass = [x \in RunIds \X Keys |-> "none"]
  /\ indexed = {} /\ attempts = {}
  /\ driver = "down" /\ canon \in Bucketings /\ todo = {}
  /\ shutdown = FALSE /\ killPass = FALSE
  /\ stateLock = NoWorker /\ dbLock = NoWorker
  /\ pc = [w \in Workers |-> "idle"]
  /\ job = [w \in Workers |-> NoJob]
  /\ buf = [w \in Workers |-> Blank("absent")]
  /\ appended = 0 /\ lost = {} /\ run = 0 /\ faults = 0 /\ redrives = 0

-----------------------------------------------------------------------------
(* The driver process *)

Fault(kind) == kind \in Faults /\ faults < MaxFaults /\ faults' = faults + 1

StartRun ==
  /\ driver = "down" /\ run < MaxRuns /\ ~garbled
  /\ driver' = "running"
  /\ canon' \in Bucketings
  /\ todo' = Batch
  /\ shutdown' = FALSE /\ killPass' = FALSE
  /\ run' = run + 1
  /\ UNCHANGED <<disk, db, locks, threads, history, faults, redrives>>

\* A run that ends before it begins: load_state raises on a line cut short, or
\* the preflight misses an image in the Docker daemon.
RefuseRun ==
  /\ driver = "down" /\ run < MaxRuns
  /\ \/ garbled /\ UNCHANGED faults
     \/ ~garbled /\ Batch # {} /\ ~BuildMissing /\ Fault("preflight")
  /\ run' = run + 1
  /\ UNCHANGED <<disk, db, process, locks, threads, history, redrives>>

\* "Re-drive a candidate by deleting its line from the state file": the operator,
\* between runs.
Redrive(k) ==
  /\ driver = "down" /\ redrives < MaxRedrives
  /\ Recorded(k) # {}
  /\ jsonl' = jsonl \ Recorded(k)
  /\ redrives' = redrives + 1
  /\ UNCHANGED <<garbled, files, ledger, db, process, locks, threads, history,
                 run, faults>>

\* Every future is done: main() leaves the pool and closes the database.
FinishRun ==
  /\ driver = "running" /\ todo = {}
  /\ \A w \in Workers : pc[w] = "idle"
  /\ shutdown => killPass             \* the handler runs in the main thread
  /\ driver' = "down"
  /\ UNCHANGED <<disk, db, canon, todo, shutdown, killPass, locks, threads,
                 history, counters, faults>>

\* SIGTERM or SIGINT: the handler first sets the event ...
Signal ==
  /\ driver = "running" /\ ~shutdown /\ Fault("signal")
  /\ shutdown' = TRUE
  /\ UNCHANGED <<disk, db, driver, canon, todo, killPass, locks, threads,
                 history, counters>>

\* Mutant of KillContainers: it precedes the event.
KillFirst ==
  /\ driver = "running" /\ ~killPass
  /\ killPass' = TRUE
  /\ UNCHANGED <<disk, db, driver, canon, todo, shutdown, locks, threads,
                 history, counters, faults>>

\* ... and then kills the containers of reproduce() calls in flight, and keeps
\* them from starting others (kill_active_containers).
KillContainers ==
  /\ driver = "running" /\ shutdown /\ ~killPass
  /\ killPass' = TRUE
  /\ UNCHANGED <<disk, db, driver, canon, todo, shutdown, locks, threads,
                 history, counters, faults>>

\* Whoever of W was mirroring a record leaves the rest of its rows unwritten.
Losing(W) ==
  lost' = lost \cup {<<pc[w], job[w].seq>> :
                       w \in {v \in W : pc[v] \in {"mirror", "mirrorclass"}}}

\* Memory is lost; what reached the disk stays.
LoseProcess ==
  /\ driver' = "down" /\ todo' = {}
  /\ stateLock' = NoWorker /\ dbLock' = NoWorker
  /\ pc' = [w \in Workers |-> "idle"]
  /\ job' = [w \in Workers |-> NoJob]
  /\ buf' = [w \in Workers |-> Blank("absent")]
  /\ Losing(Workers)

\* kill -9, out of memory, power.
Crash ==
  /\ driver = "running" /\ Fault("crash")
  /\ LoseProcess
  /\ UNCHANGED <<disk, db, canon, shutdown, killPass, appended, counters>>

-----------------------------------------------------------------------------
(* Steps of a worker.  Each says what it does to the worker's own state;    *)
(* the UNCHANGED clauses name the groups of variables it leaves alone.      *)

\* The serial path runs in the main thread, which the handler interrupts.
Scheduled == driver = "running" /\ (Serial /\ shutdown => killPass)
At(w, p) == Scheduled /\ pc[w] = p
Goto(w, p) == pc' = [pc EXCEPT ![w] = p]
Conclude(w, s) == Goto(w, "check") /\ job' = [job EXCEPT ![w].status = s]
Candidate(w) == job[w].line
Key(w) == KeyOf[job[w].line]
Entry(w) == EntryOf[job[w].line]
DbFree == Serial \/ dbLock = NoWorker      \* the serial path has no db_lock

\* _worker: the first look at the shutdown event
Take(w) ==
  /\ At(w, "idle") /\ ~shutdown
  /\ \E l \in todo :
       /\ todo' = todo \ {l}
       /\ job' = [job EXCEPT ![w] = NewJob(l)]
  /\ Goto(w, "resolve")
  /\ UNCHANGED <<disk, db, driver, canon, shutdown, killPass, locks, buf,
                 history, counters, faults>>

\* Work not yet begun is dropped: _worker returns None, the future is
\* cancelled, or the serial loop breaks.
Skip(w) ==
  /\ At(w, "idle") /\ shutdown
  /\ \E l \in todo : todo' = todo \ {l}
  /\ UNCHANGED <<disk, db, driver, canon, shutdown, killPass, locks, threads,
                 history, counters, faults>>

\* Mutant of MetadataFails: an early return without a status.
MetadataFailsUnset(w) ==
  /\ At(w, "resolve") /\ Goto(w, "check")
  /\ UNCHANGED <<disk, db, process, locks, job, buf, history, counters, faults>>

\* No commit date: the candidate file lacks it and the GitHub call failed.
MetadataFails(w) ==
  /\ At(w, "resolve")
  /\ Conclude(w, "metadata_fetch_failed")
  /\ UNCHANGED <<disk, db, process, locks, buf, history, counters, faults>>

ReassembleStale == ReassembleFrom \in 1 .. run
Present(e) == files[e].st # "absent"
Stale(w) == files[Entry(w)].tag # canon[Candidate(w)]

\* _regenerate_or_flag_stale, up to its verdict: an unreadable file, a
\* candidate the bucketer refuses, a tag the bucketer no longer gives.
FlagStale(w) ==
  /\ At(w, "resolve") /\ Present(Entry(w))
  /\ \/ files[Entry(w)].st = "torn"
     \/ canon[Candidate(w)] = NoTag
     \/ (Stale(w) /\ ~ReassembleStale)
  /\ Conclude(w, "entry_bucket_stale")
  /\ UNCHANGED <<disk, db, process, locks, buf, history, counters, faults>>

\* The entry is current: regenerate-only path.
VerifyExisting(w) ==
  /\ At(w, "resolve")
  /\ files[Entry(w)].st = "whole"
  /\ canon[Candidate(w)] # NoTag /\ ~Stale(w)
  /\ Goto(w, "regen")
  /\ job' = [job EXCEPT ![w].mode = "existing"]
  /\ UNCHANGED <<disk, db, process, locks, buf, history, counters, faults>>

\* Mutant of Reassembles: no look at the flag.
ReassemblesStale(w) ==
  \/ ~Present(Entry(w))
  \/ files[Entry(w)].st = "whole" /\ canon[Candidate(w)] # NoTag /\ Stale(w)

\* No entry yet, or a stale one that --reassemble-stale discards.
Reassembles(w) ==
  \/ ~Present(Entry(w))
  \/ /\ files[Entry(w)].st = "whole" /\ ReassembleStale
     /\ canon[Candidate(w)] # NoTag /\ Stale(w)

TagFor(l) == IF ForceTag # NoTag THEN ForceTag ELSE canon[l]

RejectLate(w) ==
  /\ At(w, "resolve") /\ Reassembles(w)
  /\ Candidate(w) \in Late
  /\ Conclude(w, "commit_after_max_sde_date")
  /\ UNCHANGED <<disk, db, process, locks, buf, history, counters, faults>>

\* A forced tag is never built, whatever --build-missing-bases says.
Buildable(w) == BuildMissing /\ ForceTag = NoTag /\ TagFor(Candidate(w)) # NoTag

ImageMissing(w) ==
  /\ At(w, "resolve") /\ Reassembles(w) /\ Candidate(w) \notin Late
  /\ TagFor(Candidate(w)) \notin ledger /\ ~Buildable(w)
  /\ Conclude(w, "fat_image_missing")
  /\ UNCHANGED <<disk, db, process, locks, buf, history, counters, faults>>

BuildImage(w) ==
  /\ At(w, "resolve") /\ Reassembles(w) /\ Candidate(w) \notin Late
  /\ TagFor(Candidate(w)) \notin ledger /\ Buildable(w)
  /\ \/ Conclude(w, "fat_image_build_failed") /\ UNCHANGED ledger
     \/ /\ ledger' = ledger \cup {TagFor(Candidate(w))}
        /\ Goto(w, "repro") /\ UNCHANGED job
  /\ UNCHANGED <<jsonl, garbled, files, db, process, locks, buf, history, counters, faults>>

ImageResolved(w) ==
  /\ At(w, "resolve") /\ Reassembles(w) /\ Candidate(w) \notin Late
  /\ TagFor(Candidate(w)) \in ledger
  /\ Goto(w, "repro")
  /\ UNCHANGED <<disk, db, process, locks, job, buf, history, counters, faults>>

\* Mutant of PreFails: only successes have their attempts recorded ("Bug E").
PreFailsUnrecorded(w, o) ==
  \E c \in Categories \ {"none"} :
    /\ job' = [job EXCEPT ![w].status = "not_reproducible", ![w].category = c,
                          ![w].flaky = o.flaky, ![w].killed = o.killed,
                          ![w].basis = "strict"]
    /\ Goto(w, IF RelaxLocked /\ c = "LOCK_FILE_STALE" THEN "relock" ELSE "check")

\* The pre commit fails: the candidate is not reproducible, for a cause read
\* from the log; a stale lock file is retried under --relax-locked.
PreFails(w, o) ==
  \E c \in Categories \ {"none"} :
    /\ job' = [job EXCEPT ![w].status = "not_reproducible", ![w].category = c,
                          ![w].flaky = o.flaky, ![w].killed = o.killed,
                          ![w].basis = "strict"]
    /\ Goto(w, IF RelaxLocked /\ c = "LOCK_FILE_STALE" THEN "relock"
               ELSE IF WithDb THEN "attempts" ELSE "check")

Reproduce(w) ==
  /\ At(w, "repro")
  /\ \E o \in Returns(Attempts, killPass) :
       IF o.pre
       THEN /\ job' = [job EXCEPT ![w].flaky = o.flaky, ![w].killed = o.killed,
                                  ![w].basis = "strict"]
            /\ Goto(w, "assemble")
       ELSE PreFails(w, o)
  /\ UNCHANGED <<disk, db, process, locks, buf, history, counters, faults>>

\* Mutant of Relock: the failure classification is kept.
RelockClassified(w) ==
  /\ At(w, "relock")
  /\ \E o \in Returns(1, killPass) :
       IF o.pre /\ o.post
       THEN /\ job' = [job EXCEPT ![w].status = "ok_after_relock",
                                  ![w].basis = "relock"]
            /\ Goto(w, "assemble")
       ELSE /\ job' = [job EXCEPT ![w].killed = @ \/ o.killed]
            /\ Goto(w, IF WithDb THEN "attempts" ELSE "check")
  /\ UNCHANGED <<disk, db, process, locks, buf, history, counters, faults>>

\* The relaxed retry makes a single attempt and must pass on both sides; its
\* success drops the failure classification.
Relock(w) ==
  /\ At(w, "relock")
  /\ \E o \in Returns(1, killPass) :
       IF o.pre /\ o.post
       THEN /\ job' = [job EXCEPT ![w].status = "ok_after_relock",
                                  ![w].category = "none",
                                  ![w].basis = "relock"]
            /\ Goto(w, "assemble")
       ELSE /\ job' = [job EXCEPT ![w].killed = @ \/ o.killed]
            /\ Goto(w, IF WithDb THEN "attempts" ELSE "check")
  /\ UNCHANGED <<disk, db, process, locks, buf, history, counters, faults>>

\* _record_repro_attempts: rows of the reproduction the job rests on.
RowsOf(w) == {<<Key(w), job[w].basis, run>>}

\* On a failure path they are those of the strict reproduction; a relaxed one
\* that failed too has none.
RecordAttempts(w) ==
  /\ At(w, "attempts") /\ DbFree
  /\ attempts' = attempts \cup RowsOf(w)
  /\ Goto(w, "check")
  /\ UNCHANGED <<disk, dbState, dbClass, indexed, process, locks, job, buf,
                 history, counters, faults>>

-----------------------------------------------------------------------------
(* Assembling, writing and indexing an entry *)

Assemble(w) ==
  /\ At(w, "assemble")
  /\ \/ Conclude(w, "assemble_failed") /\ UNCHANGED buf
     \/ /\ buf' = [buf EXCEPT ![w] =
                     [st |-> "whole", tag |-> TagFor(Candidate(w)),
                      killed |-> job[w].killed, verified |-> 0]]
        /\ Goto(w, "open") /\ UNCHANGED job
  /\ UNCHANGED <<disk, db, process, locks, history, counters, faults>>

\* EntryWriter.write and the end of regenerate(): open("w") truncates.
OpenEntry(w) ==
  /\ At(w, "open")
  /\ files' = [files EXCEPT ![Entry(w)] = Blank("torn")]
  /\ Goto(w, "close")
  /\ UNCHANGED <<jsonl, garbled, ledger, db, process, locks, job, buf, history, counters, faults>>

FinalStatus(j) ==
  IF j.status = "ok_after_relock" THEN j.status
  ELSE IF j.flaky THEN "flaky" ELSE "ok"

\* What follows the write and the DB mirror of a new entry.
AfterWrite(w) ==
  IF RegenerateVerify
  THEN Goto(w, "regen") /\ job' = [job EXCEPT ![w].mode = "assembled"]
  ELSE Conclude(w, FinalStatus(job[w]))

\* The text reaches the file.  If another writer finished since this one
\* truncated, its longer text may show behind this one's.
CloseEntry(w) ==
  /\ At(w, "close")
  /\ \/ files' = [files EXCEPT ![Entry(w)] = buf[w]]
     \/ /\ files[Entry(w)].st = "whole"
        /\ files' = [files EXCEPT ![Entry(w)] = Blank("torn")]
  /\ buf' = [buf EXCEPT ![w] = Blank("absent")]
  /\ IF job[w].mode = "new"
     THEN IF WithDb THEN Goto(w, "index") /\ UNCHANGED job ELSE AfterWrite(w)
     ELSE Goto(w, "check") /\ UNCHANGED job
  /\ UNCHANGED <<jsonl, garbled, ledger, db, process, locks, history, counters, faults>>

\* The compound DB write under db_lock: the entry and its ingestion source ...
IndexEntry(w) ==
  /\ At(w, "index") /\ DbFree
  /\ files[Entry(w)].st = "whole"
  /\ indexed' = indexed \cup {Entry(w)}
  /\ dbLock' = IF Serial THEN dbLock ELSE w
  /\ Goto(w, "indexed")
  /\ UNCHANGED <<disk, dbState, dbClass, attempts, process, stateLock, job,
                 buf, history, counters, faults>>

Release(w, lock) == IF lock = w THEN NoWorker ELSE lock

\* ... then the attempts (of the relaxed reproduction alone, if that one
\* succeeded).
IndexAttempts(w) ==
  /\ At(w, "indexed")
  /\ attempts' = attempts \cup RowsOf(w)
  /\ dbLock' = Release(w, dbLock)
  /\ AfterWrite(w)
  /\ UNCHANGED <<disk, dbState, dbClass, indexed, process, stateLock, buf,
                 history, counters, faults>>

-----------------------------------------------------------------------------
(* cargo_regenerate.regenerate: read, rebuild and test, append verifiedOn   *)

RegenRead(w) ==
  /\ At(w, "regen") /\ files[Entry(w)].st = "whole"
  /\ buf' = [buf EXCEPT ![w] = files[Entry(w)]]
  /\ Goto(w, "verify")
  /\ UNCHANGED <<disk, db, process, locks, job, history, counters, faults>>

\* The status process() derives from regenerate()'s exit code.
RegenStatus(j, rc) ==
  IF j.mode = "assembled"
  THEN IF rc = "ok" THEN FinalStatus(j) ELSE "regenerate_mismatch"
  ELSE CASE rc = "ok" -> "ok"
         [] rc = "thin_build" -> "not_reproducible"
         [] rc = "fat_missing" -> "fat_image_missing"
         [] rc \in {"fingerprint", "outcome"} -> "regenerate_mismatch"

\* Once the tests have run the verification is recorded, whatever they said.
RegenVerify(w) ==
  /\ At(w, "verify")
  /\ \E rc \in RegenCodes :
       /\ job' = [job EXCEPT ![w].status = RegenStatus(job[w], rc)]
       /\ IF rc \in {"ok", "outcome"}
          THEN /\ buf' = [buf EXCEPT ![w].verified = @ + 1]
               /\ Goto(w, "open")
          ELSE /\ buf' = [buf EXCEPT ![w] = Blank("absent")]
               /\ Goto(w, "check")
  /\ UNCHANGED <<disk, db, process, locks, history, counters, faults>>

-----------------------------------------------------------------------------
(* The end of _worker: persist, unless the shutdown came meanwhile *)

\* Mutant of Drop: the interrupted candidate is tried again at once.
DropRetry(w) ==
  /\ At(w, "check") /\ shutdown
  /\ Goto(w, "resolve") /\ job' = [job EXCEPT ![w] = NewJob(Candidate(w))]
  /\ UNCHANGED <<disk, db, process, locks, buf, history, counters, faults>>

Drop(w) ==
  /\ At(w, "check") /\ shutdown
  /\ Goto(w, "idle") /\ job' = [job EXCEPT ![w] = NoJob]
  /\ UNCHANGED <<disk, db, process, locks, buf, history, counters, faults>>

Keep(w) ==
  /\ At(w, "check") /\ ~shutdown
  /\ Goto(w, "append")
  /\ UNCHANGED <<disk, db, process, locks, job, buf, history, counters, faults>>

RecordOf(w) == [key |-> Key(w), entry |-> Entry(w), status |-> job[w].status,
                category |-> job[w].category, flaky |-> job[w].flaky,
                killed |-> job[w].killed, basis |-> job[w].basis,
                run |-> run, seq |-> appended + 1]

\* Mutant of AppendState: the lock covers the append alone.
AppendUnlocked(w) ==
  /\ At(w, "append") /\ stateLock = NoWorker
  /\ jsonl' = jsonl \cup {RecordOf(w)}
  /\ appended' = appended + 1
  /\ job' = [job EXCEPT ![w].seq = appended + 1]
  /\ Goto(w, "mirror")
  /\ UNCHANGED <<garbled, files, ledger, db, process, locks, buf, lost, counters,
                 faults>>

\* append_state, on entering state_lock
AppendState(w) ==
  /\ At(w, "append") /\ stateLock = NoWorker
  /\ jsonl' = jsonl \cup {RecordOf(w)}
  /\ appended' = appended + 1
  /\ IF WithDb
     THEN /\ stateLock' = w
          /\ job' = [job EXCEPT ![w].seq = appended + 1]
          /\ Goto(w, "mirror")
     ELSE /\ UNCHANGED stateLock
          /\ job' = [job EXCEPT ![w] = NoJob]
          /\ Goto(w, "idle")
  /\ UNCHANGED <<garbled, files, ledger, db, process, dbLock, buf, lost, counters,
                 faults>>

\* Mutant of MirrorState: an insert that ignores a conflict.
MirrorStateOnce(w) ==
  /\ At(w, "mirror") /\ DbFree
  /\ IF dbState[<<RunIdOf(run), Key(w)>>].seq > 0 THEN UNCHANGED dbState
     ELSE dbState' = [dbState EXCEPT ![<<RunIdOf(run), Key(w)>>] =
                        [status |-> job[w].status, seq |-> job[w].seq]]
  /\ IF job[w].category # "none"
     THEN /\ dbLock' = IF Serial THEN dbLock ELSE w
          /\ Goto(w, "mirrorclass")
          /\ UNCHANGED <<stateLock, job>>
     ELSE /\ stateLock' = Release(w, stateLock)
          /\ job' = [job EXCEPT ![w] = NoJob]
          /\ Goto(w, "idle")
          /\ UNCHANGED dbLock
  /\ UNCHANGED <<disk, dbClass, indexed, attempts, process, buf, history, counters, faults>>

\* _mirror_drive_state, two statements that commit one by one: the status ...
MirrorState(w) ==
  /\ At(w, "mirror") /\ DbFree
  /\ dbState' = [dbState EXCEPT ![<<RunIdOf(run), Key(w)>>] =
                   [status |-> job[w].status, seq |-> job[w].seq]]
  /\ IF job[w].category # "none"
     THEN /\ dbLock' = IF Serial THEN dbLock ELSE w
          /\ Goto(w, "mirrorclass")
          /\ UNCHANGED <<stateLock, job>>
     ELSE /\ stateLock' = Release(w, stateLock)
          /\ job' = [job EXCEPT ![w] = NoJob]
          /\ Goto(w, "idle")
          /\ UNCHANGED dbLock
  /\ UNCHANGED <<disk, dbClass, indexed, attempts, process, buf, history, counters, faults>>

\* Mutant of MirrorClass, likewise.
MirrorClassOnce(w) ==
  /\ At(w, "mirrorclass")
  /\ dbClass' = [dbClass EXCEPT ![<<RunIdOf(run), Key(w)>>] =
                   IF @ = "none" THEN job[w].category ELSE @]
  /\ dbLock' = Release(w, dbLock) /\ stateLock' = Release(w, stateLock)
  /\ job' = [job EXCEPT ![w] = NoJob]
  /\ Goto(w, "idle")
  /\ UNCHANGED <<disk, dbState, indexed, attempts, process, buf, history, counters, faults>>

\* ... and, for a classified failure, its category.  No path deletes a row.
MirrorClass(w) ==
  /\ At(w, "mirrorclass")
  /\ dbClass' = [dbClass EXCEPT ![<<RunIdOf(run), Key(w)>>] = job[w].category]
  /\ dbLock' = Release(w, dbLock) /\ stateLock' = Release(w, stateLock)
  /\ job' = [job EXCEPT ![w] = NoJob]
  /\ Goto(w, "idle")
  /\ UNCHANGED <<disk, dbState, indexed, attempts, process, buf, history, counters, faults>>

-----------------------------------------------------------------------------
(* An exception in a worker.  The pool logs it and goes on, the with        *)
(* statements release the locks; the serial loop lets it end the driver.    *)

\* Mutant of Raise: the exception is swallowed and the worker goes on.
RaiseSwallowed(w) ==
  Conclude(w, FinalStatus(job[w])) /\ UNCHANGED <<process, locks, buf, lost>>

Raise(w) ==
  IF Serial
  THEN LoseProcess /\ UNCHANGED <<canon, shutdown, killPass>>
  ELSE /\ stateLock' = Release(w, stateLock) /\ dbLock' = Release(w, dbLock)
       /\ Goto(w, "idle")
       /\ job' = [job EXCEPT ![w] = NoJob]
       /\ buf' = [buf EXCEPT ![w] = Blank("absent")]
       /\ Losing({w})
       /\ UNCHANGED process

\* Reading an entry another writer has just truncated or garbled.
ReadTorn(w) ==
  /\ At(w, "regen") \/ (At(w, "index") /\ DbFree)
  /\ files[Entry(w)].st # "whole"
  /\ Raise(w)
  /\ UNCHANGED <<disk, db, appended, counters, faults>>

\* GitHub, Docker, sqlite's busy timeout, a full disk, a schema violation, a
\* test of regenerate() that times out: most calls of a worker can raise.
WorkerError(w) ==
  /\ Scheduled /\ pc[w] \notin {"idle", "check"} /\ Fault("error")
  /\ Raise(w)
  /\ UNCHANGED <<disk, db, appended, counters>>

\* The append itself is cut short: part of a line stays in the state file.
TearAppend(w) ==
  /\ At(w, "append") /\ stateLock = NoWorker /\ Fault("torn")
  /\ garbled' = TRUE
  /\ Raise(w) \/ (LoseProcess /\ UNCHANGED <<canon, shutdown, killPass>>)
  /\ UNCHANGED <<jsonl, files, ledger, db, appended, counters>>

-----------------------------------------------------------------------------

Resolve(w) ==
  \/ MetadataFails(w) \/ FlagStale(w) \/ VerifyExisting(w) \/ RejectLate(w)
  \/ ImageMissing(w) \/ BuildImage(w) \/ ImageResolved(w)

Step(w) ==
  \/ Take(w) \/ Skip(w)
  \/ Resolve(w) \/ Reproduce(w) \/ Relock(w) \/ RecordAttempts(w)
  \/ Assemble(w) \/ OpenEntry(w) \/ CloseEntry(w)
  \/ IndexEntry(w) \/ IndexAttempts(w)
  \/ RegenRead(w) \/ RegenVerify(w) \/ ReadTorn(w)
  \/ Drop(w) \/ Keep(w)
  \/ AppendState(w) \/ MirrorState(w) \/ MirrorClass(w)

\* The bound on runs is reached and the last run has ended.
Finished ==
  /\ driver = "down" /\ run = MaxRuns
  /\ UNCHANGED vars

Next ==
  \/ StartRun \/ RefuseRun \/ FinishRun \/ Signal \/ KillContainers \/ Crash
  \/ \E k \in Keys : Redrive(k)
  \/ \E w \in Workers : Step(w) \/ WorkerError(w) \/ TearAppend(w)
  \/ Finished

Spec == Init /\ [][Next]_vars

\* Threads are scheduled, docker commands end by their timeouts, the handler
\* runs as soon as the main thread does, and the operator re-runs the command.
FairSpec ==
  /\ Spec
  /\ \A w \in Workers : WF_vars(Step(w))
  /\ WF_vars(KillContainers) /\ WF_vars(FinishRun) /\ WF_vars(StartRun)

-----------------------------------------------------------------------------
(* Properties *)

\* No line of the state file rests on a test run that the shutdown cut short,
\* however the signal falls between the steps of the workers ("If shutdown
\* fired mid-reproduction ... don't persist", _worker).
KilledNeverRecorded == \A r \in jsonl : ~r.killed

\* A candidate recorded as reproduced has its entry, complete, on disk; for
\* candidates that share neither key nor entry.  Crashes may leave torn files,
\* but never behind such a record.
SuccessHasEntry ==
  \A r \in jsonl : r.status \in TerminalSuccess => files[r.entry].st = "whole"

\* Assembling never truncates an entry that is there, unless the operator
\* passed --reassemble-stale ("We refuse to silently overwrite").
NoSilentOverwrite ==
  [][\A e \in EntryIds :
       /\ ~ReassembleStale /\ files[e].st = "whole" /\ files'[e].st = "torn"
       => \E w \in Workers : pc[w] = "open" /\ Entry(w) = e /\ job[w].mode # "new"
    ]_files

\* drive_state never goes back to an earlier record of a key, though several
\* workers may finish lines of one key (state_lock spans append and mirror).
MirrorInOrder ==
  [][\A x \in DOMAIN dbState : dbState'[x].seq >= dbState[x].seq]_dbState

\* Between critical sections the row of a run id and key is that of its last
\* line ("mirrors drive_state on every terminal record"), whatever crashes,
\* exceptions and signals fall into them: a worker lost before the statement
\* costs the row of the record it was at, and of no other.
MirrorComplete ==
  WithDb /\ stateLock = NoWorker =>
    \A r \in jsonl :
      LET row == dbState[<<RunIdOf(r.run), r.key>>] IN
      <<"mirror", r.seq>> \notin lost =>
        row.seq > r.seq \/ row = [status |-> r.status, seq |-> r.seq]

\* With --db, a record whose verdict is taken from a reproduction, whatever the
\* verdict, has that reproduction's rows, of its own run of the driver, in
\* reproduction_attempts before it is appended.  Assemble_failed is the exception
\* the code makes: that return is before the rows are written.
EvidenceForOutcome ==
  WithDb =>
    \A r \in jsonl :
      /\ r.basis # "none" /\ r.status # "assemble_failed" =>
           <<r.key, r.basis, r.run>> \in attempts
      /\ r.category # "none" => r.basis = "strict"
      /\ r.status = "ok_after_relock" => r.basis = "relock"
      /\ r.status = "flaky" => r.basis # "none"

\* A row of the failure taxonomy belongs to a candidate that is, by the
\* drive_state row it is joined with, not reproducible ("only populated for
\* not_reproducible records"); for candidates listed once.
TaxonomyOnlyOfFailures ==
  \A x \in DOMAIN dbClass :
    dbClass[x] # "none" => dbState[x].status = "not_reproducible"

\* Beside a classified failure's drive_state row stands its own category, not
\* none and not that of an earlier line.  The two rows are not written "in the
\* same transaction", as the classifier has it: a crash or an exception between
\* the two statements leaves the first alone, of that record and of no other.
TaxonomyWithStatus ==
  stateLock = NoWorker =>
    \A r \in jsonl :
      LET x == <<RunIdOf(r.run), r.key>> IN
      /\ r.category # "none" /\ dbState[x].seq = r.seq
      /\ <<"mirrorclass", r.seq>> \notin lost
      => dbClass[x] = r.category

\* No entry is assembled from a reproduction the shutdown cut short
\* ("Interrupted candidates never get a terminal row in state/DB, so resume
\* re-tries them").
KilledNeverAssembled == \A e \in EntryIds : ~files[e].killed

\* A shutdown ends the run (no worker waits for a lock or for work forever).
ShutdownEnds == driver = "running" /\ shutdown ~> driver = "down"

\* The abstract promise, for candidates listed once.
Promise == INSTANCE ResumableBatch WITH
  Settled <- Terminal,
  Open <- TerminalFlaky,
  Claims <- TerminalSuccess \cup TerminalFlaky,
  outcome <- [k \in Keys |-> LastStatus(k)],
  published <- {k \in Keys : \E l \in Lines : KeyOf[l] = k /\ Present(EntryOf[l])}

\* Its safety part, and with fairness the whole of it.
KeepsPromise == Promise!Safety
ServesEveryone == Promise!EveryoneServed
=============================================================================
