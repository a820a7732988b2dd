# TLA+ models of the DURP Cargo pipeline

DURP mines pull requests that bump a dependency, reproduces each of them in a
Docker image of its time, and publishes an entry (a JSON file) per reproducible
update. This directory models the part of it that runs for days unattended,
the batch driver, the reproducer it calls and the state they leave behind, the
images candidates are reproduced in, the verification of published entries, the
names failures are given, the database that indexes it all, and the search that
finds the candidates.

## The system

| Component | State | Operations | Hard behaviour |
|---|---|---|---|
| Driver, `cargo_drive.py` (`main`, `_worker`, `process`) | state JSONL (one line per finished candidate), `shutdown_event`, `state_lock`, `db_lock`, thread pool | resume, take a candidate, resolve, reproduce, relock, assemble, write, index, verify, record, mirror, shut down | threads, signals, crashes, exceptions, two stores written one after the other, candidates that share an entry file |
| Reproducer, `cargo_reproducer.py` | `_active_containers` and its lock, `_shutdown_requested`, containers under the daemon | `reproduce`, `_run_n`, `_run_in_docker`, `kill_active_containers` | kills racing launches, timeouts, a signal handler that takes a lock, several attempts with different outcomes |
| Regenerator, `cargo_regenerate.py` | an entry file (`verifiedOn`, `fingerprints`) | rebuild the thin image, test, append a verification, rewrite | read-modify-write without a lock, unnamed containers, uncaught timeouts, removals whose failure nobody looks at |
| Fat images, `fat_image.py`, `cargo_plan_fat_images.py` | index file of tags and per-platform fingerprints | `bucket_for`, `canonical_sde_for`, `resolve_match`, `build_fat_image`, `register` | answers that depend on the network, load-modify-save of the index |
| Pipeline index, `bump_ext/db.py`, `rebuild_index.py`, `verify_index.py` | `pipeline.sqlite` | upserts, rebuild, verify | autocommit between related rows, upsert without delete, files rewritten after they were indexed |
| Entry writer and models, `bump_ext` | entries directory | validate, write | truncating write |
| Classifiers, `cargo_classifier.py`, `cargo_failure_classifier.py` | logs on disk, rows of `drive_state_classifications` | classify inline, classify again (`--reclassify`) | priority of rules; logs shared by candidates and looked for by another name later |
| Toolchain detection, assembly | none | pure functions of metadata | -- |
| Live search, `cargo_live_search.py` | rows file, window log, `seen_windows`, `seen_pr_keys` | `_windows`, `_process_window` with `_split`, resume | two files written one after the other, kills within a line, saturated windows, runs with other ends and window sizes |
| Sampling, stratification (`scripts/`) | candidates files | quotas | -- |
| Mining and one-off scripts, `durp` command, deployment | none between steps | batch transformations | -- |

How they interact: `main` reads the state file, filters the candidates, and
starts one `_worker` call per candidate in a thread pool (or, with
`--parallel 1`, calls `process` in the main thread). `process` asks the
bucketer for a tag and the index for that image, calls `reproduce` (which runs
`docker run` once per attempt and commit), assembles and writes the entry, and
may call `regenerate` on it. `_worker` then appends the record and, with
`--db`, mirrors it. SIGTERM and SIGINT run `_handler` in the main thread: it
sets the event, then kills the containers of the reproducer.

What makes each part correct:

* driver: no outcome is recorded that the shutdown produced; no recorded
  success without its entry; settled outcomes are not revised by later runs,
  every candidate gets one; the mirror follows the state file; evidence is
  stored before the outcome that rests on it; entries are not overwritten;
* reproducer: every awaited container can be killed, none outlives the driver,
  nothing starts behind a kill pass, the handler returns, a call cut short says
  nothing beyond what the driver reckons with;
* regenerator: a recorded fingerprint is final and every verification in the
  file was made under it; none is lost as long as calls do not overlap; tests
  run in the environment that was fingerprinted; the exit code tells what was
  written; no image of 5 GB is left behind but where docker could not remove it;
* fat images: a candidate is reproduced in an image of its time whose tag says
  what it is; the tag told for a candidate stays the same; the ledger has what
  was registered, once;
* classifiers: a row tells of its own candidate's log, whoever wrote it last; what
  a build prints besides its cause does not hide it;
* index: a rebuild that finishes has refreshed every row of which nobody else
  changed the file meanwhile, a verification tells drift, and nothing only the
  driver knows is lost;
* live search: no pull request has two rows; what the log has as done, and what a
  finished run has promised, is on disk, resumed or not; a resumed search ends.

## The modules

| Module | Models |
|---|---|
| `ResumableBatch` | the promise: abstract specification of the driver over all its runs |
| `ReproduceContract` | what one call of `reproduce()` may answer |
| `Drive` | `cargo_drive.py`: main, the pool, `_worker`, `process`, the entry file, the state file and the four tables it writes |
| `Reproducer` | `cargo_reproducer.py` and `_handler`, down to the single lock operation |
| `Regenerate` | `cargo_regenerate.py`: calls of `regenerate()` on one entry, on several hosts |
| `LiveSearch` | `cargo_live_search.py`: runs over one corpus, their windows and the two files |
| `Buckets` | the pure part of `fat_image.py`, `cargo_toolchain.py` and `cargo_drive.py`: bucket, snapshot date and tag of a candidate |
| `FatImages` | the ledger `index.json` and the images of some hosts under planner, drivers, build, register and unregister; extends `Buckets` |
| `Classifiers` | both classifiers as operators over abstract logs |
| `Taxonomy` | logs on disk, the categories `process` derives from them and `--reclassify`; extends `Classifiers` |
| `PipelineIndex` | `pipeline.sqlite` beside the entry files and the ledger, under driver, `regenerate`, `rebuild_index.py`, `verify_index.py` and the operator |
| `MCDrive`, `MCReproducer`, `MCRegenerate`, `MCLiveSearch`, `MCFatImages`, `MCTaxonomy`, `MCPipelineIndex` | definitions for the configurations |
| `DriveProofs`, `DriveSafetyProofs` | theorems about `Drive`: what each worker knows, what a batch leaves behind |
| `ReproducerProofs` | theorems about `Reproducer` |
| `RegenerateProofs` | theorems about `Regenerate` |
| `LiveSearchProofs` | theorems about `LiveSearch` |
| `FatImagesProofs` | theorems about `Buckets` and `FatImages` |
| `TaxonomyProofs` | theorems about `Classifiers` and `Taxonomy` |
| `PipelineIndexProofs` | theorems about `PipelineIndex` |

**Drive and the code.** A candidate is a line number; `KeyOf` and `EntryOf`
give its key (`_key`) and entry id (`cargo-<post_commit[:8]>`). The state file
is a set of records with a rank `seq`; an entry file is absent, torn (between
`open("w")` and the end of the write, or after a crash there) or whole with the
tag it was built from. A worker's `pc` names where in `process` and `_worker`
it is; a step ends where another thread could see or disturb what comes next:
on either side of a file or database operation, of a lock, of a call of the
reproducer, and of each look at the event. The early returns of `process` are
`MetadataFails`, `FlagStale`, `RejectLate`, `ImageMissing`, `BuildImage`
(failing), `PreFails` and `Assemble` (failing). `Keep` and `Drop` are the second
look at the event, `AppendState` to `MirrorClass` the block under `state_lock`.
`Raise` is what an exception does: in the pool the future holds it and the with
statements release the locks, on the serial path it ends the driver. `Crash`
loses memory and keeps the disk. A pool of one worker is the serial path: it
has no `db_lock`, and it is the thread the signal handler interrupts.
`killed` (of records, entries and jobs) and `run` are history variables and never
guard a step.

**Reproducer and Drive.** Drive takes a call of `reproduce()` as one step that
returns any outcome of `Returns(Attempts, killPass)`; `KeepsContract` shows in
`Reproducer` that calls return nothing else. The contract is not arbitrary: a
call that was cut short passes its post commit only if an attempt passed before
the cut, which then makes it flaky.

**Regenerate and the code.** `entry` is what the file said when it was last
whole and `content` what it is now (`open("w")` truncates it); `fat` and `thin`
are what each host's daemon has under the tags of the entry, as the environment
an image was built from. A call's `job` holds its local variables, its own copy
of the entry (`doc`) among them. The steps are the docker commands: `ResolveFat`
and `BuildFat` for section 1 of `regenerate`, `Extract` for section 2,
`BuildThin` and `RunTest` once per image for sections 3 and 4, `Clean` for the
`finally` clause, `OpenEntry` and `SaveEntry` for section 5. Its returns are
`Return` with the exit code, which `Answer` chooses after the file was closed; an
exception or Ctrl-C (`Interrupt`, `TestTimesOut`) goes through the `finally` clause
where it is raised under `try`, and may come before the write, within it
(`GivenUp`) or between it and the return. `Clean` is one `docker image rm -f` of
the loop in `_remove_thin_images`, whose exit code nobody looks at: it may fail, and
where a test was cut off its container goes on, without a name (`cut`), so that the
removal takes only the tag and the image stays (`kept`). A build that moves a tag
leaves the image it was on there too. `RunNothing` is a `docker run` that starts no
container: its exit code is taken for the test's. `PruneFat` and `RebuildFat` are
the operator's, at any moment; `Carry` takes the entry to another host while no call
is under way. `overlaps`, `leaky` and `logged`, and in a record all but `call` and
`outcome`, are history variables. Drive has the same code as `RegenRead` to
`RegenVerify`, with the exit code chosen freely.

**LiveSearch and the code.** `created` and `Matches` are GitHub's corpus. Times
are in units of the resolution and `Floor` is the hour. `turn` and `cur` are
main's two loops (`NextQuery`, `NextWindow`; `cur` is the variable of
`_windows`); `todo` is the window under way with those the recursion has still
to do. `_process_window` is `SplitWindow`, or `SearchWindow`, `Flush` and
`LogDone`: the rows it writes (`fresh`) reach the file at the flush at the
latest, and any first part of them if the process ends before (`Stop`). A file
is a sequence of lines, of which the last may be a part of a line or lack its
newline (`TearRow`, `TearLog`): "a" mode appends the next line to it, and
`json.loads` takes neither (`Garbled`, `Readable`). `Fetched` and `Orders` are
what the pages hold: at most `Cap` results, the earliest first. `RefusedWindow` is
a 422 answer, which `_search_once` takes for the end of the pages: of a first page
it leaves a total of 0 and no items (a saturated window is then not split either), of
a later one the items before it, and the window goes on to `Flush` and `LogDone` as
any other. `rowTorn`, `truncated`, `refused`, `finished` and `answer.whole` are
history variables.

**Buckets, FatImages and the code.** The tables of the code are constants, whose
values are in `MCFatImages`; a version is a number (1.56.1 is 15601) and a date is
yyyymmdd, so that both compare as the code compares them. `Wanted` is the first
half of `bucket_for`, `Published` what `_reroute_to_supported` chooses from. What
Docker Hub says of a base image is any of `HubAnswers` whenever it is asked; the
file cache of a day only takes some of these answers away. A session is one
command: a driver on one candidate (`Preflight` asks the daemon, `Resolve` the
ledger, and with `--build-missing-bases` it builds and registers), or the
operator's `build`, `register [--update]` and `unregister`, with the tags a plan or
a preflight printed (`proposed`). `Load`, `Reread`, `Open` and `Write` are the file
operations of `register` and `unregister`: a list read, the file read again for
its heading, truncated, written. A write over one that another session has not
yet closed may leave no JSON (`"garbled"`), and whoever reads then ends with an
exception. `cand` does not change, and `Pool` is what it may be, so that one run
covers all kinds of candidates. A forced image (`--force-fat-image`) has no bucket
and is in `Drive`. `answers`, `used`, `writes`, `registered`, `overlapped` and `cut`
are history variables.

**Classifiers, Taxonomy and the code.** A log is a sequence of lines and a line is
one of the things the rules look for (`LogLines`): a record of cargo's JSON
stream, a line that begins with "error", or chatter. `EarlyRules` and `LateRules`
are `_classify_inner` in the order of the code, `Classify` is Scheme 1;
`Terminal`, `CodeCounts` and `LinkerKind` are the helpers over the whole log. Markers
that mean the same are one line. In `Taxonomy` a candidate's way through `process` is
`RunPre` per attempt, `RunPost`, and one of `NotReproduced` (with `Retry` and `Relock`)
and `Reproduced`; or `Regenerate`, where an entry is there, whose thin image may fail
to build (`REGENERATE_FAIL`, which only `--reclassify` writes). `logs` are the files of
pre commits by the path `_attempt_log` gives them (eight digits of the post commit,
stage, attempt), so that candidates of one post commit, and runs under one run id, share
them. A test does not write its log at once: `Open` truncates it, and `WriteLine` puts
line after line at the writer's own offset (`Put`), so that of two tests that print
into one file each may overwrite lines of the other, or leave NULs (`Gap`) where it was
truncated under it. Lines are taken to be of one length. Of the logs of post commits
only the text `process` reads is kept. `Reason` is what `process` records with a failure
and `ReasonClass` is `classify_from_reason`, asked by both callers before any log.
`Reclassify` is one turn of the loop of `_reclassify_mode`, at any moment, beside a
driver or after it. A row is written at once here; that its two tables are not is in
`Drive`. The state file and the rows are taken to agree, and a container that outlives
its driver is taken not to print into a log of the next run. `own`, `author` and
`touched` are history variables.

**PipelineIndex and the code.** A text stands for a file's bytes and for what they
say, so that a hash is the text it is of; `Torn` is a file between `open("w")` and
the end of the write, or for good if its writer was killed there. A row of
`entries` keeps apart the text its columns are of (`text`) and the one it was
hashed from (`hash`), which `upsert_entry_from_json` reads one after the other
(`DriveParse`, `DriveInsert`; `RebuildLoad`, `RebuildParse`, `RebuildInsert` for
the rebuild, which reads a file three times). One action is one statement of SQL
or one look at a file, since the connection commits each statement
(`isolation_level=None`) and nobody opens a transaction around them. `RebuildImage` and
`RebuildPrint` fill the tables of images from the ledger read at the start,
`RebuildLook` and `RebuildStub` are the look for a source and the stub,
`RebuildClass` and `RebuildSeed` the two statements of
`seed_classification_if_absent`. `VerifyStart`, `VerifyRows`, `VerifyHash` and
`VerifyExit` are `verify_index.py`: names, rows, hashes, exit code. The ledger is changed
in one step here: its own races are in `FatImages`. `regenerate` and an edit of the data
directory change files and leave the index alone. `settled`, `kept`, `overtaken`,
`drifted` and `agreed` are history variables.

## The runs

| Run | Shows |
|---|---|
| `MCDriveShared` | two workers, the database, two attempts, `--relax-locked --regenerate-verify`, torn appends, and two pull requests on one post commit whose workers write one file; two runs, two faults anywhere. `KilledNeverRecorded`, `EvidenceForOutcome`, `TaxonomyOnlyOfFailures`, and `KeepsPromise`: the driver implements `ResumableBatch` |
| `MCDriveDuplicates` | a candidate listed twice, on a forced image, over two runs with two signals, crashes or exceptions anywhere, those between an append and the two statements of its mirror included; the mirror is in order and lacks nothing but the rows of the record a lost worker was at (`MirrorInOrder`, `MirrorComplete`, `TaxonomyWithStatus`), and a signal ends the run (`ShutdownEnds` under `FairSpec`) |
| `MCDriveSerial` | the serial path over three candidates and three runs: bases built on demand, `--limit 2`, changing tags, a foreign entry, `--reassemble-stale` from the second run, the operator deleting lines. `SuccessHasEntry`, `NoSilentOverwrite`, and `ServesEveryone` under `FairSpec` |
| `MCReproducerPool` | two threads, two attempts per commit, every placement of the handler's steps, kills that fail. `KeepsContract`, `NoOrphans`; and no deadlock: every step but `Exit` moves a thread or the handler on, so that in the pool a signal does end the driver |
| `MCRegenerate` | two calls, overlapping or not, hosts of two platforms, two environments, one fault of any kind at any step. `RecordsMatchPrints`, `PrintsAreFinal`, `VerificationsKept`, `TestedWhatWasFingerprinted`, `ExitTellsTheFile`, `ThinsRemoved` |
| `MCLiveSearch` | three pull requests anywhere in time, two queries that share some, three runs with other ends and window sizes, two stops, kills or refused pages anywhere. `NoRowTwice`, `DoneMeansFound`, `FinishedMeansFound`, `SearchEnds` under `FairSpec` |
| `MCFatImages` | one candidate of nine kinds, two sessions, three commands, three answers of Docker Hub, one session killed anywhere. `RightImage`, `ServedUnlessAhead`, `DriftOnlyWhenLifted`, `NoTagTwice`, `LedgerComplete` |
| `MCTaxonomy` | two candidates on one post commit, of which the file given to `--reclassify` has one; two runs of one or two attempts under one run id, whose tests print into shared logs line by line, or whose entries are verified instead. `RowsTellOwnLog`; and, over all logs of up to two of the 36 kinds of line, `NoiseIgnored` |
| `MCPipelineIndex` | two entries, of which texts are valid or not, one image, three starts of driver, rebuild or verification, two changes behind the index, kills anywhere. `RebuildRefreshes`, `VerifyTells`, `DriverFactsKept` |
| `MCDriveKilled` (violated) | an entry assembled from a reproduction the handler killed |
| `MCReproducerSerial` (violated) | the handler waiting for a lock its own thread holds |
| `MCTaxonomyWarnings` (violated) | a compiler warning that makes a failing test a compilation failure |

**Bounds.** Two candidates are enough for every relation between records the
properties speak of (same key, same entry, neither); two workers for every race
between two critical sections, since the locks make no difference between a
third worker and a second one that comes back. Two runs show resume; the serial
run has three, because a candidate deleted after the first run and interrupted
in the second is taken up in the third, and three candidates: a fresh one, one
whose entry another host published, and a late one. Two faults (without
liveness) allow a crash after a signal, or one in each run. Two attempts tell a flaky outcome from a plain one.
The counters (`run`, `faults`, `redrives`, `calls`) are bounded by `MaxRuns`,
`MaxFaults`, `MaxRedrives`, `Calls` and `MaxCalls`; `appended` and `started` are bounded
through them. The constant `Faults` names what may
go wrong in a run (signals, crashes, exceptions, failing preflight checks, torn
appends), `MaxFaults` how often. For `Regenerate` two calls give every relation
of the properties, which compare one call's steps with another's or with what
it left; a second platform is one the entry has no fingerprint for; a second
environment is what a rebuilt or foreign fat image has; the fault may be an
interruption, a crash, a test cut off by its timeout, a removed or rebuilt image or a
daemon error. For
`LiveSearch` three pull requests and a cap of two make a window saturated, split
or truncated, and, with pages of one pull request, cut after its first page; one pull
request is found by both queries, so that a row is asked for twice; two units of time give halves that are windows of a run with the
other `--initial-window-days`; three runs resume one that had itself resumed.
`Horizon` bounds time, `MaxRuns` the runs. For `FatImages` the nine candidates have
MSRVs declared, not declared and unreadable, at, between and beyond the
milestones, and commits at the edges of years, eras and Debian releases; the
answers of Docker Hub are none, a date within the years of the candidates and one
after them all; two sessions overlap in every way one list can be read and
written over, and a third command (`MaxOps`) finds what they left. For `Taxonomy` two candidates of one post commit
are two authors of every log; two runs of different `--attempts` leave logs under
both kinds of names; `PreLogs`, `RetryLogs` and `PostLogs` bound what is printed in
the runs: a stale lock file, which is retried, a compiler error and a timeout, which
tell one log from another. What the rules make of a log does not depend on the runs:
`Samples`, which `NoiseIgnored` looks at with a line more on either side, are all logs
of up to two lines of any kind, since a rule looks for one marker, or for two. That a run may end anywhere is `Drop`; deadlock is not checked there because
a batch that is done stops. For `PipelineIndex` one start each lets driver, rebuild and
verification run at once, or a program run again after what a killed one left; two changes put
a file or the ledger out of step before and after a look at it; two entries make
the order of the files matter, and a text that does not validate one that is
skipped. `MaxWrites` and `MaxRuns` bound both. Symmetry is
used on the entries of `PipelineIndex`, on the threads of `Reproducer` in the safety run, on the calls of
`Regenerate` and on the sessions of `FatImages`, whose runs have no liveness
property.

**Fairness.** `FairSpec` assumes that threads are scheduled and that the
commands they wait for end, which the code enforces by timeouts
(`--timeout`, 30 s for a kill); that the main thread runs a handler it has
begun; and that the operator runs the command again while candidates are left.
In `LiveSearch` a search is answered at last (`_search_once` waits for the rate
limit to pass), and the operator resumes a search that has not finished.
Nothing is assumed of signals, crashes and exceptions. `MCDriveSerial`, which
checks `ServesEveryone`, allows one fault and three runs: with as many faults as
runs each run may be cut short, and it is then rightly false.

## The proofs

Every invariant and every safety action property that a passing run checks is
stated by a theorem, for any number of candidates, workers, threads, calls,
sessions, hosts, runs and faults, and for any data within these assumptions:

* `DriveAssumption`: types of the constants, at least one attempt, and
  `--build-missing-bases` only on the serial path, which `main` enforces;
* `ReproducerAssumption`: types, at least one attempt, and that a free lock and the
  signal handler are no threads;
* `RegenerateAssumption`: types of the constants;
* `LiveSearchAssumption`: types, a finite corpus, and that a part of a line is no row;
* `BucketsAssumption`, `FatImagesAssumption`: milestones in the order of their
  release, tables that are not empty, and that what is no version, date, bucket or
  tag is none;
* `TablesAssumption`, for `ServedUnlessAhead` alone: the tables fit together, so that
  every Debian, era and floor that meet on some date have an image. It is a property
  of the code's tables that whoever adds a milestone has to keep; TLC evaluates it on
  the tables of the source, which `MCFatImages` has in full;
* `TaxonomyAssumption`: types, at least one attempt;
* `IndexAssumption`: texts and the marks for a missing, torn or unnamed thing are
  different.

Where a property of `Drive` holds only of some inputs or faults, the theorem says of
which. None can be left out: without it TLC finds the property violated, each time on
the constants of a run above with a few changed (why is said under "What the code does
otherwise than it says"). The run that checks the property satisfies it:

| Hypothesis | Says | Run | Theorems |
|---|---|---|---|
| `ListedOnce` | the candidates file lists every key once | `MCDriveSerial`, `MCDriveShared` | `ImplementsTheBatch`, `SuccessesHaveEntries` |
| `OneEntryEach` | no two of its lines share an entry | `MCDriveSerial` | `OverwritesOnlyVerified`, `SuccessesHaveEntries` |
| `OneDrive` | every key is listed once, and no line is deleted for a re-drive under the same run id | `MCDriveShared` | `TaxonomyAgrees` |

**The driver: what each worker knows** (`DriveProofs`).

* `TypeCorrect`: `TypeOK`. Types alone are not inductive: an appended record takes
  its key from the worker's line and its status from the verdict, so `TInv` adds
  that a busy worker has a line, a worker past its verdict has a status, and a run in
  progress has a run id.
* `NothingKilledIsRecorded`: `KilledNeverRecorded`. `KInv` is the handshake of the
  shutdown: the kill pass comes after the event, a job that was cut short implies the
  event is set, and a worker past its second look holds a job that was not cut short,
  whenever it looked. A run starts with the event clear, so `KInv` also says that
  workers are idle while the driver is down.
* `MirrorsInOrder`: `MirrorInOrder`. `MInv` says what `state_lock` is for: a worker
  between its append and its mirror holds the lock and has the latest rank, and every
  row's rank is that of an earlier append.
* `EvidenceIsRecorded`: `EvidenceForOutcome`, of records of every status. `basis` is
  the reproduction the verdict of a job is taken from (none where an entry was
  regenerated or nothing was run), and a row names its candidate, its kind of
  reproduction and its run of the driver. `EInv` follows the attempts of a candidate
  from the reproduction to the append: whoever is past the place that writes their
  rows has them, and a way around that place ends in `assemble_failed` or has no basis.

**The driver: what a batch leaves behind** (`DriveSafetyProofs`).

* `ImplementsTheBatch`: `KeepsPromise`, the refinement of `ResumableBatch`.
  `AppendState` maps to `Settle`, `Redrive` to `Reopen`, and every other step to
  `Publish` of the entries it opens, which may be none. `CInv` says
  that no two workers hold a line and none that is still to be taken (`DInv`), that
  ranks are unique and a key with records has a last one (`RInv`: the abstract
  outcome is that of the last record), and that nobody works on a line whose key has
  a terminal record (`OInv`), which is what the resume is for: a settled outcome is
  never appended to.
* `OverwritesOnlyVerified`, `SuccessesHaveEntries`: `NoSilentOverwrite`,
  `SuccessHasEntry`. `FInv` relates each worker's place to the entry file, as it was
  when the worker looked and with what others may have done since: between its look
  and its write the file of a new entry stays absent, while it writes the file is torn
  and afterwards whole, because no other worker has that entry. A crash or an
  exception may leave it torn only before the record, and after it `OInv` keeps
  everybody away.
* `MirrorsEverything`, `RowsAppearTogether`: `MirrorComplete`, `TaxonomyWithStatus`.
  `LInv`: what is mirrored is a record of the file, between the two statements the
  first row is already that record's, and a record that is neither mirrored nor
  superseded is one whose worker is at it, and so holds the lock, or was lost at it
  (`lost`, which `Losing` extends wherever a crash or an exception takes a worker).
* `TaxonomyAgrees`: `TaxonomyOnlyOfFailures`. Nothing deletes a taxonomy row, so
  the status beside it must never change: `XInv` says that a row of the run at hand is
  of a key with a terminal record, and no row belongs to a run yet to come.

**The reproducer** (`ReproducerProofs`). `ContractKept` and `NoneOrphaned` state
`KeepsContract`, on which `Drive` relies for its one-step `reproduce()`, and
`NoOrphans`. `HandlerInv`: event, then flag, then kill. `DockerInv`: a container that
is up was lost by a docker kill or its thread waits for it. `CallsInv`: attempts are
counted, and nothing follows an attempt that was cut short, at whatever lock operation
the thread was: so a post commit reached after it has no attempt, and one cut short
itself ends in a failure. `TypeCorrect`: `TypeOK`.

**The regenerator** (`RegenerateProofs`). `TypeCorrect`: `TypeOK`. Four more
invariants, one per view of the calls:

* `RecordsMatch`: `RecordsMatchPrints`. The property speaks of the file, but a call
  writes back its own copy of the whole entry, taken before others wrote: `RInv` says
  that every copy, and not only the file, is consistent, and that from the extraction
  to the record a copy has the call's fingerprint for the host's platform. That a copy
  stays consistent when a fingerprint is added rests on there being no record for a
  platform without one (`AddsAPrint`).
* `NoVerificationLost`, `ExitsTell`, `PrintsStay`: `VerificationsKept`,
  `ExitTellsTheFile`, `PrintsAreFinal`. `FileInv`: as long as no calls have
  overlapped, the one under way has in its copy what the file said, but for its own
  record and the fingerprint it has added (`AsRead`), one between its write and its
  return has its record in the file (`Written`), and those that have ended told what
  is there (`Told`): a call that raised or was killed tells only that there is at most
  one record of it. `NumbersInv` numbers the calls, so that a record is its call's own.
* `TestsAreSound`: `TestedWhatWasFingerprinted`. `PureInv`: the image a lone call
  tests in is of the environment it fingerprinted, from the extraction on, whatever
  overlapping calls did before and the operator removes or builds again. A fat image
  built again between the extraction and the last thin build is the one exception: the
  thin images are then of a base nobody has fingerprinted.
* `NothingLeftBehind`: `ThinsRemoved`. `OwedInv`: a thin image on a host that is not
  leaky is owed by the finally clause of a call under way there. `OnceInv`: no kind
  comes twice in what is left of a loop, so that what is removed, or not yet built, is
  not what is still owed. `KeptInv`: as long as calls do not overlap, an image that
  stays without its tag is one whose test was cut off.

**The live search** (`LiveSearchProofs`). `TypeCorrect`: `TypeOK`.

* `RowsAreUnique`: `NoRowTwice`. `OInv` says what `seen_pr_keys` is for: while a run
  goes on it holds every readable row and every row not yet flushed, which are
  disjoint. It does not say that it holds nothing else: a row read at the start may be
  glued to later.
* `DoneIsFound`, `FinishedIsFound`: `DoneMeansFound`, `FinishedMeansFound`. `FInv` says
  of a run that every pull request its loops have passed is on disk, in a truncated or
  refused window (`Settled`), or in a window in hand; that the halves of a window find
  all that it finds (`HalvesHits`); and, of the windows it skips, that they hold
  (`DoneHolds`): the log line that said so may have been glued to since. Nothing is
  assumed of refusals: windows are excepted one by one, where the log line of one of
  which a page was refused says what a complete one says.

**Fat images** (`FatImagesProofs`). `TypeCorrect`: `TypeOK`, which includes that a
session has in its memory what its next step needs.

* `BucketsAreRight`: what a bucket is, whatever the tables: its milestone has an
  image for the Debian asked for, is of the commit's era (or the newest), and is no
  older than the MSRV (if any milestone is). The lemmas before it say the same of the
  parts: `ValueIsFirst` of a table of cutovers, `WantedIsEnough` of the milestone
  before the Debian is looked at, `SnapshotNotBefore` of the snapshot date. That the
  smallest milestone exists is not assumed: `SmallestOf` has it from the well-foundedness
  of `<` on `Nat`.
* `RightImages`: `RightImage`. `Sound` follows an image from its build over a session's
  memory and the lists about to be written into the ledger: at each place it is what
  its tag says, and a driver's own build has the tag that fits its candidate. That the
  tag fits is `BucketsAreRight`.
* `TagsDriftOnlyWhenLifted`, `CandidatesAreServed`: `DriftOnlyWhenLifted`,
  `ServedUnlessAhead`, from `AnswersRight`: whoever told a tag, and when, it is that of
  the candidate's bucket with the day Docker Hub gave then, and no tag is told only
  where there is no bucket.
* `NoTagIsTwice`: `NoTagTwice`. A list is written long after it was made, over another
  than it was made from; `ListsDistinct` says that the lists in the sessions' memories
  have no tag twice either, so that it does not matter which of them is written last.
* `LedgerIsComplete`: `LedgerComplete`. `WhileAlone`: until a write overlaps another's,
  the list in a session's memory has the tags registered and its own change, unless
  another session has written since, in which case its own write will overlap.

**Classifiers** (`TaxonomyProofs`).

* `RowsTellOwnLogHolds`: `RowsTellOwnLog`. The property speaks of a row and of history;
  `Inv` follows the log in between, line by line: while the first attempt prints, its
  file starts with what it has printed and holds nothing else (`LogIsOwn`), and from
  its end to the row, and for as long as the row stands, the file is what it printed
  (`RowLog`), or somebody else has written to it. Every step leaves each path alone,
  makes its candidate the author, or, where a test prints into a file somebody else
  has truncated, leaves it without one (`FrameOf`, `OthersKeep`); later attempts and
  the relaxed retry write elsewhere (`PathsDiffer`).
* `TypeCorrect`: `TypeOK`, from `Inv` (a test writes inside what it prints) and from
  the first rule that applies deciding among classes the two schemes list.
* `NoiseChangesNothing`: `NoiseIgnored`, which TLC checks on all logs of two lines, for
  logs of any length. `MoreRules` goes through the 23 rules: a line more, of chatter or
  a summary, changes the condition of those few alone that look for that line
  (`Matching`), and only makes them apply. So the rule that decides is the same, or one
  of these before it (`MoreFirst`), and what is behind the last of them gives a weak
  name (`WeakRules`). `ChatterBefore` and `SummaryAfter` draw the conclusion.

**The index** (`PipelineIndexProofs`).

* `TypeCorrect`: `TypeOK`, with `Control`: a program that works on an entry has its id
  and the texts its statement needs.
* `RebuildRefreshesHolds`: `RebuildRefreshes`. `Rebuilding` says of every settled entry
  that it is still ahead, that the rebuild has it in hand and read what the file says
  (`AtHand`), or that its row is fresh; and of every fingerprint of a kept image that it
  is ahead or copied. Steps of the other programs are `OutsideStep`: they unsettle the
  entries whose file or row they change, and never take a source or a classification
  away.
* `VerifyTellsHolds`, `DriverFactsKeptHolds`: `VerifyTells` and `DriverFactsKept`, the
  former from `Watching`: an entry in drift throughout is still to be hashed or has been
  told, and one in agreement throughout has a row and a file in every look so far. The
  latter needs from `Rebuilding` that a stub about to be written replaces nothing, or
  was overtaken.

**Model-checked only.** The liveness properties `ShutdownEnds`, `ServesEveryone` and
`SearchEnds` and the absence of deadlock: fairness and ENABLED are out of the
prover's reach. The properties of the three runs that expect a violation are false, and
so stated by no theorem. Induction over data is out of reach as well: the modules
have no RECURSIVE operator, sequences are spoken of by positions, and what needs a least
or greatest element takes it from the well-foundedness of `<`.

## What the code does otherwise than it says

The three violated runs have their lines and quotations in `PROJECT.json`.
Smaller disagreements met on the way, which no run here is about:

* an entry assembled after `--relax-locked` does not say so: when its
  `ok_after_relock` record is withheld by a shutdown or lost, the next run finds
  the entry, regenerates it and records `ok` (`cargo_drive.py:438`), against line
  100 ("Distinct from OK so the headline reproducibility number can split");
* thin images are tagged by the post commit alone and removed by whichever call of
  `regenerate()` ends first; `docker run` on a missing image exits with 125, which
  counts as a failing test, so that a breaking entry may be confirmed
  (`outcomeMatch` true, exit 0) though its post test never ran
  (`cargo_regenerate.py:412` and 456, against line 19, "Confirms the pass/fail
  pattern matches the entry's category"). `Thin` images and `RunNothing` of
  `Regenerate` have this; `TestedWhatWasFingerprinted` is stated for the
  records of calls that were alone;
* a candidate parked as `entry_bucket_stale` is skipped by the run that is given
  `--reassemble-stale`, since that status is a terminal failure
  (`cargo_drive.py:1090`), although the reason recorded with it says "pass
  --reassemble-stale to discard the entry and re-reproduce" (line 407);
* a thread between its look at the shutdown flag and the registration of its
  container (`cargo_reproducer.py:269` and 340) when the handler takes its
  snapshot starts a container the kill pass does not see, against "Refuse to
  start new docker work once shutdown has been requested" (line 265);
* a candidate recorded as `flaky` is driven again by every later run
  (`cargo_drive.py:1062` leaves `TERMINAL_FLAKY` out), against
  `pipelines/cargo/README.md:330`; the abstract specification has it as an open
  outcome;
* attempts of the post commit that disagree do not make a record `flaky` if the
  pre commit fails (`cargo_drive.py:613`, against the comment at line 105);
* the primary outcome of several attempts is a pass as soon as one passes
  (`cargo_reproducer.py:434`), not by the majority vote of line 156;
* "the table reflects every cargo-test invocation" (`cargo_drive.py:220`), but not
  those of an `assemble_failed` candidate (the return at line 730 comes before the
  rows are written), the strict ones of a candidate that was `ok_after_relock`, the
  relaxed ones of a retry that failed, and those of `regenerate`. `EvidenceForOutcome`
  says what is left of it: the rows of the reproduction the verdict is taken from,
  whatever the verdict, but for `assemble_failed`;
* the classifier's row is not written "in the same transaction" as the status
  (`cargo_failure_classifier.py:8`): both are autocommit statements
  (`cargo_drive.py:266-289`), and what a crash or an exception leaves out is never made
  up for, since the resume takes the line of the state file for done. `MirrorComplete`
  and `TaxonomyWithStatus` say that this costs the record at hand and no other;
* a classification row outlives the failure when a candidate is deleted from the
  state file and succeeds under the same run id: `TaxonomyOnlyOfFailures` holds
  in `MCDriveShared` because nothing is deleted there;
* a line of the state file cut short makes every later `load_state` raise
  (`RefuseRun`): `ServesEveryone` holds in `MCDriveSerial` because `"torn"`
  is not in its `Faults` there;
* nothing refuses a candidate that is listed twice: `load_state` is asked once, at
  the start, so that both lines are driven, and the later record revises the outcome
  of the earlier one, takes its row, or leaves its taxonomy row beside a success.
  `KeepsPromise` and `TaxonomyOnlyOfFailures` hold in `MCDriveShared`, and
  `SuccessHasEntry` in `MCDriveSerial`, which list every key once;
* candidates that share a post commit overwrite each other's entry:
  `NoSilentOverwrite` holds where entries differ, and not with the constants of
  `MCDriveShared`;
* an entry torn by a crash is recorded as `entry_bucket_stale`, which is terminal:
  the candidate is served, but never reproduced until the operator removes both;
* two `regenerate()` calls that overlap lose a verification: the later writer
  has not read the earlier one's record. `VerificationsKept`, `PrintsAreFinal`
  and `ExitTellsTheFile` hold for calls that do not overlap, and are stated so;
* a call killed between `open("w")` and the end of its write leaves the published
  entry unreadable, with the verifications it had;
* SIGTERM ends `cargo_regenerate` without the `finally` clause and leaves its
  thin images, against `pipelines/cargo/README.md:211` ("even if tests fail or
  the process is interrupted"); in the driver, whose handler returns, it does not;
* a test that times out raises out of `regenerate()` and leaves its container
  running: it has no name, and no shutdown kills it. `docker image rm -f` then takes
  the tag and leaves the image, and any removal may fail unnoticed
  (`cargo_regenerate.py:238-248`), against "Clean up on every exit path" (line 415).
  `ThinsRemoved` excepts the images of tests that were cut off and the hosts where a
  removal failed;
* a call interrupted between its write and its return has put its record into the
  entry and yet raises (`cargo_regenerate.py:491-498`): its caller cannot tell, and
  verifies the entry again;
* a mismatch (exit 4) appends a record as a success does, with `outcomeMatch`
  false; `reproduction-runbook.md:254` mentions only exit 0, which in turn
  appends nothing for an `unreproducible` entry.
* a search killed within a row leaves a part of a line, to which the next run
  glues its first row: that row cannot be read, its window is logged as done, and
  no later run finds it, against `cargo_live_search.py:32` ("Resume: re-running
  with the same --out file will detect previously written rows and skip windows
  already covered"). `DoneMeansFound` and `FinishedMeansFound` are stated for
  searches no row of which was torn; `NoRowTwice` holds for all;
* the window log knows windows by label and bounds alone: a run with another
  `--query-extra` on the same file skips what another query found (line 336), and
  a window that reached into the future when it was searched is not searched
  again; `LiveSearch` has one list of queries and one corpus;
* any 422 answer is taken for the end of the pages ("The Search API throws 422 when
  offset would exceed 1000", `cargo_live_search.py:91`): a window whose first page is
  refused, of an invalid query or for whatever other reason, is logged as done with
  nothing found, one refused later with what came before, and a run returns 0 over
  both. `DoneMeansFound` and `FinishedMeansFound` except these windows, `refused`;
* `--end` is documented as exclusive (line 279), and is an instant of the last
  window;
* the tag of a candidate is not "deterministic across machines and across time"
  (`image-selection.md:39`), nor is the output of `canonical_sde_for` "fixed
  forever" (`fat_image.py:384`): it has the day Docker Hub last updated the base
  image if that is after the candidate's year, and December 31 of that year if
  Docker Hub did not answer. `DriftOnlyWhenLifted` says that nothing else changes;
* the planner and the driver ask for different images of a candidate that
  declares no MSRV: the driver takes one from the commit's date
  (`cargo_drive.py:487`), the planner none (`cargo_plan_fat_images.py:109`), and
  for a commit of 2020 these are 1.56 and 1.49 on buster. `fat_image resolve`,
  which takes the planner's path, says that it "uses the same canonical path as
  the planner and driver" (`fat_image.py:663`). The preflight finds the image
  missing. `DriftOnlyWhenLifted` relates the two where an MSRV is declared;
* an MSRV beyond the last milestone is served by the milestone of the commit's
  era (`fat_image.py:283`), which is older than the code asks for, where
  `image-selection.md:310` has it as unbucketable; the era is rounded up
  (`era_milestone_for_commit`) and wins over an earlier MSRV, where line 64
  has it rounded down, and only for candidates without an MSRV;
* two registrations at once lose one record, against "append-only registry"
  (`running-a-batch.md:495`), and a session killed between truncating and writing
  leaves a ledger no command can read: `LedgerComplete` is stated for neither;
* `register --update` on another platform replaces the fingerprints of the first,
  against `fat_image.py:576` ("Cross-platform fingerprints are added by
  re-introspecting on the other architecture and re-registering the tag");
* `--reclassify` looks for `<short>-<run_id>-pre.log` and `<short>-pre.log` only
  (`cargo_drive.py:849`): after a run with `--attempts` above one, whose logs end in
  `-pre-aN.log` (`cargo_reproducer.py:408`), it writes `NO_LOG` over the right
  category, or that of a log an earlier run left, against "the rules changed,
  update old rows" (line 814). `RowsTellOwnLog` excepts this, and logs that
  another candidate of the same post commit has written over or into;
* two candidates of one post commit that are reproduced at once print into one file
  (`cargo_reproducer.py:342`): what is classified may be of both, with NULs where one
  was truncated under the other. Nothing refuses such a pair;
* "the terminal-first rule prevents those from being miscategorised"
  (`cargo_failure_classifier.py:268`) is said of chatter that is emitted early, but rules
  match anywhere all the same: that for nightly-only crates comes before those that look
  at the terminal error, and those for failed tests, the network and the message format
  after them. `NoiseIgnored` says which names are safe from chatter and which are not
  (`Weak`, and two causes);
* a pre commit that fails at once is recorded as `pre_build_timed_out` if only the
  post commit timed out (`cargo_drive.py:618`);
* the lock file wording of newer cargo ("cannot update the lock file") is
  `LOCK_FILE_STALE` in Scheme 2 and `OTHER` in Scheme 1, which has the older one
  alone (`cargo_classifier.py:75`);
* "Reproducer-side timeout takes highest priority" (`cargo_classifier.py:115`)
  comes after the codes of compiler messages, a warning's among them;
* `verify_index.py` advises "Run scripts/rebuild_index.py to refresh the index"
  (line 84), but a rebuild deletes no rows, fingerprints or images and skips files
  that do not validate: a stale row, or the drift of a file that became invalid,
  stays. Nor is a classification once seeded ever refreshed. `RebuildRefreshes` is
  about files that are there and valid;
* an entry that changes between the two reads of `upsert_entry_from_json` gets the
  columns of the old text with the hash of the new one, which no verification sees;
  `RebuildRefreshes` is stated for entries nobody touched meanwhile;
* a rebuild beside a driver may write its stub over the source the driver has just
  recorded (`rebuild_index.py:85`, against "If already present, keep it", line 79),
  and either may be ended by the other's classification, which the unique index
  refuses twice; `DriverFactsKept` says that nothing else loses a source;
* a torn entry file ends a rebuild where it stands, and so does one removed
  meanwhile a verification, with an exception for an exit code;
* of two drivers that build one tag the second is refused its registration and
  records `fat_image_build_failed`, with the image built and in the ledger.

## Not modelled

The rows of `runs`, which nothing reads, the API cache, and `flip_classification` and
`set_fat_image_status` of the database, which nothing calls; `--attempts 0`, which the
driver accepts and which reproduces nothing (the modules assume at least one
attempt); the text of entries and messages, and with it the assembly of an entry
field by field (`cargo_assemble_entry.py`: one step that succeeds or raises) and
the schema; the fix commit, which no ingested candidate has; the look-ups of
toolchain detection at GitHub, which answer or fail; GitHub, Docker and sqlite
themselves (external: they answer or fail); sampling, mining, one-off scripts,
the `durp` command (no state between steps); images, deployment, schemas.
The registry of the reproducer is modelled within one run of the driver.

## Plan

1. Stronger theorems: `SuccessHasEntry` and `NoSilentOverwrite` for candidates that
   share an entry as long as they are not worked on at once; `LedgerComplete` for the
   tags no overlapping write touched.
2. The quotas of `stratify_candidates.py` as operators.
3. The refusals of `build_entry` (`AssembleError`) by their reason in `Drive`.
