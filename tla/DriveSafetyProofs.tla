------------------------- MODULE DriveSafetyProofs -------------------------
(***************************************************************************)
(* What a batch leaves behind, for every pool of workers and every choice  *)
(* of the options.  Who holds which line comes first, then the state file, *)
(* the entry files, and the database.  A theorem names what it needs of    *)
(* the candidates file or of its runs in its hypothesis:                   *)
(*                                                                         *)
(*   ListedOnce    the candidates file lists every key once;               *)
(*   OneEntryEach  no two of its lines share an entry;                     *)
(*   OneDrive      every key is listed once, and a run id names one run.   *)
(***************************************************************************)
EXTENDS DriveProofs
-----------------------------------------------------------------------------
(* Who holds which line, and what the state file says of it *)

\* The candidates file lists every key once.
ListedOnce == \A l, m \in Lines : KeyOf[l] = KeyOf[m] => l = m

\* No two workers hold a line, and none that is yet to be taken.
DInv ==
  /\ \A w \in Workers : pc[w] # "idle" => job[w].line \notin todo
  /\ \A v, w \in Workers :
       pc[v] # "idle" /\ pc[w] # "idle" /\ job[v].line = job[w].line => v = w

\* No record of its key comes after it.
LastOne(r) == \A q \in jsonl : q.key = r.key => q.seq <= r.seq

\* A record's rank is its own, it is a record of a line of the file, and its
\* key has a last one.
RInv ==
  /\ \A r \in jsonl : r.seq <= appended
  /\ \A q, r \in jsonl : q.seq = r.seq => q = r
  /\ \A r \in jsonl : \E l \in Lines : r.key = KeyOf[l] /\ r.entry = EntryOf[l]
  /\ \A r \in jsonl : \E q \in jsonl : q.key = r.key /\ LastOne(q)

\* The places of a worker whose candidate may still get a record.
Unrecorded == PCs \ ({"idle"} \cup Mirroring)
OpenLine(l) == l \in todo \/ \E w \in Workers : pc[w] \in Unrecorded /\ job[w].line = l

(***************************************************************************)
(* A line whose key has a terminal record is not worked on: the record is  *)
(* the last one of its key.                                                *)
(***************************************************************************)
Final(r) ==
  /\ LastOne(r)
  /\ \A l \in Lines : KeyOf[l] = r.key => ~OpenLine(l)
OInv == ListedOnce => \A r \in jsonl : r.status \in Terminal => Final(r)

CInv == DInv /\ RInv /\ OInv

\* A step of one worker on the candidate it holds, which appends nothing.
Carries(w) ==
  /\ driver = "running" /\ UNCHANGED <<jsonl, appended, process, run, redrives>>
  /\ pc[w] # "idle" /\ (pc'[w] \in Unrecorded => pc[w] \in Unrecorded)
  /\ pc'[w] # "idle" => job'[w].line = job[w].line
  /\ \A v \in Workers \ {w} : pc'[v] = pc[v] /\ job'[v] = job[v]

\* The steps that have this form.
LEMMA CarryGoes ==
  ASSUME TInv, NEW w \in Workers, pc[w] \in Unrecorded, driver = "running",
         UNCHANGED <<jsonl, appended, process, run, redrives>>,
         NEW p, Goto(w, p), NEW j, job' = [job EXCEPT ![w] = j],
         j.line = job[w].line
  PROVE  Carries(w)
<1>1. pc'[w] = p /\ job'[w] = j
      /\ \A v \in Workers \ {w} : pc'[v] = pc[v] /\ job'[v] = job[v]
  BY DEF Goto, TInv, JobsOK
<1>. QED BY <1>1 DEF Carries, Unrecorded

LEMMA CarryStays ==
  ASSUME TInv, NEW w \in Workers, pc[w] \in Unrecorded, driver = "running",
         UNCHANGED <<jsonl, appended, process, run, redrives>>,
         NEW p, Goto(w, p), job' = job
  PROVE  Carries(w)
<1>1. job' = [job EXCEPT ![w] = job[w]] BY DEF TInv, JobsOK
<1>. QED BY <1>1, CarryGoes

LEMMA CarryRests ==
  ASSUME TInv, NEW w \in Workers, pc[w] # "idle", driver = "running",
         UNCHANGED <<jsonl, appended, process, run, redrives>>,
         Goto(w, "idle"), job' = [job EXCEPT ![w] = NoJob]
  PROVE  Carries(w)
<1>1. pc'[w] = "idle" /\ \A v \in Workers \ {w} : pc'[v] = pc[v] /\ job'[v] = job[v]
  BY DEF Goto, TInv, JobsOK
<1>. QED BY <1>1 DEF Carries, Unrecorded

LEMMA CarryConcludes ==
  ASSUME TInv, NEW w \in Workers, pc[w] \in Unrecorded, driver = "running",
         UNCHANGED <<jsonl, appended, process, run, redrives>>, NEW s, Conclude(w, s)
  PROVE  Carries(w)
<1>. DEFINE j == [job[w] EXCEPT !.status = s]
<1>1. j.line = job[w].line BY DEF TInv, JobsOK, Job
<1>2. job' = [job EXCEPT ![w] = j] /\ Goto(w, "check") BY DEF Conclude
<1>. HIDE DEF j
<1>. QED BY <1>1, <1>2, CarryGoes

LEMMA CarryResolve == ASSUME TInv, NEW w \in Workers, Resolve(w) PROVE Carries(w)
<1>1. /\ pc[w] \in Unrecorded /\ driver = "running"
      /\ UNCHANGED <<jsonl, appended, process, run, redrives>>
  BY DEF Resolve, MetadataFails, FlagStale, VerifyExisting, RejectLate, ImageMissing,
         BuildImage, ImageResolved, At, Scheduled, disk, counters, history, Unrecorded, PCs,
         Mirroring
<1>2. CASE \E s : Conclude(w, s) BY <1>1, <1>2, CarryConcludes
<1>3. CASE Goto(w, "repro") /\ UNCHANGED job BY <1>1, <1>3, CarryStays
<1>4. CASE VerifyExisting(w)
  <2>. DEFINE j == [job[w] EXCEPT !.mode = "existing"]
  <2>1. j.line = job[w].line BY DEF TInv, JobsOK, Job
  <2>2. job' = [job EXCEPT ![w] = j] /\ Goto(w, "regen") BY <1>4 DEF VerifyExisting
  <2>. HIDE DEF j
  <2>. QED BY <1>1, <2>1, <2>2, CarryGoes
<1>. QED BY <1>2, <1>3, <1>4 DEF Resolve, MetadataFails, FlagStale, RejectLate, ImageMissing,
                                 BuildImage, ImageResolved

LEMMA CarryReproduce == ASSUME TInv, NEW w \in Workers, Reproduce(w) PROVE Carries(w)
<1>1. /\ pc[w] \in Unrecorded /\ driver = "running"
      /\ UNCHANGED <<jsonl, appended, process, run, redrives>>
  BY DEF Reproduce, At, Scheduled, disk, counters, history, Unrecorded, PCs, Mirroring
<1>2. PICK o \in Returns(Attempts, killPass) :
         IF o.pre
         THEN /\ job' = [job EXCEPT ![w].flaky = o.flaky, ![w].killed = o.killed,
                                    ![w].basis = "strict"]
              /\ Goto(w, "assemble")
         ELSE PreFails(w, o)
  BY DEF Reproduce
<1>3. CASE o.pre
  <2>. DEFINE j == [job[w] EXCEPT !.flaky = o.flaky, !.killed = o.killed,
                                  !.basis = "strict"]
  <2>1. j.line = job[w].line BY DEF TInv, JobsOK, Job
  <2>2. job' = [job EXCEPT ![w] = j] /\ Goto(w, "assemble") BY <1>2, <1>3
  <2>. HIDE DEF j
  <2>. QED BY <1>1, <2>1, <2>2, CarryGoes
<1>4. CASE ~o.pre
  <2>1. PICK c \in Categories \ {"none"} :
          /\ job' = [job EXCEPT ![w].status = "not_reproducible", ![w].category = c,
                                ![w].flaky = o.flaky, ![w].killed = o.killed,
                                ![w].basis = "strict"]
          /\ \E p : Goto(w, p)
    BY <1>2, <1>4 DEF PreFails
  <2>. DEFINE j == [job[w] EXCEPT !.status = "not_reproducible", !.category = c,
                                  !.flaky = o.flaky, !.killed = o.killed,
                                  !.basis = "strict"]
  <2>2. j.line = job[w].line BY DEF TInv, JobsOK, Job
  <2>3. job' = [job EXCEPT ![w] = j] BY <2>1
  <2>. HIDE DEF j
  <2>. QED BY <1>1, <2>1, <2>2, <2>3, CarryGoes
<1>. QED BY <1>3, <1>4

LEMMA CarryRelock == ASSUME TInv, NEW w \in Workers, Relock(w) PROVE Carries(w)
<1>1. /\ pc[w] \in Unrecorded /\ driver = "running"
      /\ UNCHANGED <<jsonl, appended, process, run, redrives>>
  BY DEF Relock, At, Scheduled, disk, counters, history, Unrecorded, PCs, Mirroring
<1>2. \E p : Goto(w, p) BY DEF Relock
<1>3. \E j : job' = [job EXCEPT ![w] = j] /\ j.line = job[w].line
  <2>1. job[w] \in Job BY DEF TInv, JobsOK
  <2>2. [job[w] EXCEPT !.status = "ok_after_relock", !.category = "none",
                       !.basis = "relock"].line = job[w].line
    BY <2>1 DEF Job
  <2>3. \A k : [job[w] EXCEPT !.killed = k].line = job[w].line BY <2>1 DEF Job
  <2>. QED BY <2>2, <2>3 DEF Relock
<1>. QED BY <1>1, <1>2, <1>3, CarryGoes

LEMMA CarryAfterWrite ==
  ASSUME TInv, NEW w \in Workers, pc[w] \in Unrecorded, driver = "running",
         UNCHANGED <<jsonl, appended, process, run, redrives>>, AfterWrite(w)
  PROVE  Carries(w)
<1>1. CASE RegenerateVerify
  <2>. DEFINE j == [job[w] EXCEPT !.mode = "assembled"]
  <2>1. j.line = job[w].line BY DEF TInv, JobsOK, Job
  <2>2. job' = [job EXCEPT ![w] = j] /\ Goto(w, "regen") BY <1>1 DEF AfterWrite
  <2>. HIDE DEF j
  <2>. QED BY <2>1, <2>2, CarryGoes
<1>2. CASE ~RegenerateVerify BY <1>2, CarryConcludes DEF AfterWrite
<1>. QED BY <1>1, <1>2

LEMMA CarryEntry ==
  ASSUME TInv, NEW w \in Workers,
         \/ RecordAttempts(w) \/ Assemble(w) \/ OpenEntry(w) \/ CloseEntry(w)
         \/ IndexEntry(w) \/ IndexAttempts(w) \/ RegenRead(w) \/ Keep(w)
  PROVE  Carries(w)
<1>1. /\ pc[w] \in Unrecorded /\ driver = "running"
      /\ UNCHANGED <<jsonl, appended, process, run, redrives>>
  BY DEF RecordAttempts, Assemble, OpenEntry, CloseEntry, IndexEntry, IndexAttempts,
         RegenRead, Keep, At, Scheduled, disk, counters, history, Unrecorded, PCs, Mirroring
<1>2. CASE \E p : Goto(w, p) /\ job' = job BY <1>1, <1>2, CarryStays
<1>3. CASE \E s : Conclude(w, s) BY <1>1, <1>3, CarryConcludes
<1>4. CASE AfterWrite(w) BY <1>1, <1>4, CarryAfterWrite
<1>. QED BY <1>2, <1>3, <1>4 DEF RecordAttempts, Assemble, OpenEntry, CloseEntry,
                                 IndexEntry, IndexAttempts, RegenRead, Keep

LEMMA CarryVerify == ASSUME TInv, NEW w \in Workers, RegenVerify(w) PROVE Carries(w)
<1>1. /\ pc[w] \in Unrecorded /\ driver = "running"
      /\ UNCHANGED <<jsonl, appended, process, run, redrives>>
  BY DEF RegenVerify, At, Scheduled, disk, counters, history, Unrecorded, PCs, Mirroring
<1>2. PICK rc \in RegenCodes : job' = [job EXCEPT ![w].status = RegenStatus(job[w], rc)]
  BY DEF RegenVerify
<1>3. \E p : Goto(w, p) BY DEF RegenVerify
<1>. DEFINE j == [job[w] EXCEPT !.status = RegenStatus(job[w], rc)]
<1>4. j.line = job[w].line BY DEF TInv, JobsOK, Job
<1>5. job' = [job EXCEPT ![w] = j] BY <1>2
<1>. HIDE DEF j
<1>. QED BY <1>1, <1>3, <1>4, <1>5, CarryGoes

LEMMA CarryMirror ==
  ASSUME TInv, NEW w \in Workers, MirrorState(w) \/ MirrorClass(w) \/ Drop(w)
  PROVE  Carries(w)
<1>1. /\ pc[w] # "idle" /\ driver = "running"
      /\ UNCHANGED <<jsonl, appended, process, run, redrives>>
  BY DEF MirrorState, MirrorClass, Drop, At, Scheduled, disk, counters, history
<1>2. CASE Goto(w, "idle") /\ job' = [job EXCEPT ![w] = NoJob]
  BY <1>1, <1>2, CarryRests
<1>3. CASE Goto(w, "mirrorclass") /\ job' = job
  <2>1. pc'[w] = "mirrorclass" /\ job'[w] = job[w]
        /\ \A v \in Workers \ {w} : pc'[v] = pc[v] /\ job'[v] = job[v]
    BY <1>3 DEF Goto, TInv, JobsOK
  <2>. QED BY <1>1, <2>1 DEF Carries, Unrecorded, Mirroring
<1>. QED BY <1>2, <1>3 DEF MirrorState, MirrorClass, Drop

\* An exception ends the worker's candidate, or with it the process.
LEMMA CarryError ==
  ASSUME TInv, NEW w \in Workers, ReadTorn(w) \/ WorkerError(w) \/ TearAppend(w)
  PROVE  /\ UNCHANGED <<jsonl, appended, run, redrives, dbState, dbClass>>
         /\ Carries(w) \/ LoseProcess
<1>1. /\ pc[w] # "idle" /\ driver = "running"
      /\ UNCHANGED <<jsonl, appended, run, redrives, dbState, dbClass>>
  BY DEF ReadTorn, WorkerError, TearAppend, At, Scheduled, disk, counters, history, db
<1>2. CASE LoseProcess BY <1>1, <1>2
<1>3. CASE ~LoseProcess
  <2>1. Raise(w) /\ ~Serial BY <1>3 DEF ReadTorn, WorkerError, TearAppend, Raise
  <2>2. Goto(w, "idle") /\ job' = [job EXCEPT ![w] = NoJob] /\ UNCHANGED process
    BY <2>1 DEF Raise
  <2>. QED BY <1>1, <2>2, CarryRests
<1>. QED BY <1>2, <1>3

LEMMA CarryStep ==
  ASSUME TInv, NEW w \in Workers, Step(w),
         ~Take(w), ~Skip(w), ~AppendState(w), ~ReadTorn(w)
  PROVE  Carries(w)
BY CarryResolve, CarryReproduce, CarryRelock, CarryEntry, CarryVerify, CarryMirror DEF Step

\* Between runs, or beside the workers.
Aside ==
  /\ UNCHANGED <<jsonl, appended, todo, pc, job>>
  /\ UNCHANGED <<dbState, dbClass>>

LEMMA AsideSteps ==
  ASSUME RefuseRun \/ FinishRun \/ Signal \/ KillContainers \/ Finished \/ UNCHANGED vars
  PROVE  Aside
BY DEF RefuseRun, FinishRun, Signal, KillContainers, Finished, vars, Aside, disk, db,
       process, threads, history

-----------------------------------------------------------------------------
(* CInv is kept *)

LEMMA CInit == Init => CInv
BY DEF Init, CInv, DInv, RInv, OInv

LEMMA CCarry == ASSUME TInv, CInv, NEW w \in Workers, Carries(w) PROVE CInv'
<1>1. todo' = todo /\ jsonl' = jsonl /\ appended' = appended BY DEF Carries, process
<1>2. DInv' BY <1>1 DEF CInv, DInv, Carries
<1>3. RInv' BY <1>1 DEF CInv, RInv, LastOne
<1>4. ASSUME NEW l \in Lines, OpenLine(l)' PROVE OpenLine(l)
  BY <1>1, <1>4 DEF OpenLine, Carries, Unrecorded
<1>5. OInv' BY <1>1, <1>4 DEF CInv, OInv, Final, LastOne
<1>. QED BY <1>2, <1>3, <1>5 DEF CInv

LEMMA CTake == ASSUME TInv, CInv, NEW w \in Workers, Take(w) PROVE CInv'
<1>1. PICK l \in todo : todo' = todo \ {l} /\ job' = [job EXCEPT ![w] = NewJob(l)]
  BY DEF Take
<1>2. /\ pc[w] = "idle" /\ pc'[w] = "resolve" /\ job'[w].line = l
      /\ \A v \in Workers \ {w} : pc'[v] = pc[v] /\ job'[v] = job[v]
  BY <1>1 DEF Take, At, Goto, TInv, JobsOK, NewJob
<1>3. UNCHANGED <<jsonl, appended>> BY DEF Take, disk, history
<1>4. DInv' BY <1>1, <1>2 DEF CInv, DInv
<1>5. RInv' BY <1>3 DEF CInv, RInv, LastOne
<1>6. ASSUME NEW m \in Lines, OpenLine(m)' PROVE OpenLine(m)
  BY <1>1, <1>2, <1>6 DEF OpenLine
<1>7. OInv' BY <1>3, <1>6 DEF CInv, OInv, Final, LastOne
<1>. QED BY <1>4, <1>5, <1>7 DEF CInv

LEMMA CSkip == ASSUME TInv, CInv, NEW w \in Workers, Skip(w) PROVE CInv'
<1>1. todo' \subseteq todo /\ UNCHANGED <<jsonl, appended, pc, job>>
  BY DEF Skip, disk, history, threads
<1>2. DInv' /\ RInv' BY <1>1 DEF CInv, DInv, RInv, LastOne
<1>3. \A l \in Lines : OpenLine(l)' => OpenLine(l) BY <1>1 DEF OpenLine
<1>4. OInv' BY <1>1, <1>3 DEF CInv, OInv, Final, LastOne
<1>. QED BY <1>2, <1>4 DEF CInv

LEMMA CAside == ASSUME CInv, Aside PROVE CInv'
<1>1. UNCHANGED <<jsonl, appended, todo, pc, job>> BY DEF Aside
<1>2. DInv' /\ RInv' BY <1>1 DEF CInv, DInv, RInv, LastOne
<1>3. \A l \in Lines : OpenLine(l)' => OpenLine(l) BY <1>1 DEF OpenLine
<1>4. OInv' BY <1>1, <1>3 DEF CInv, OInv, Final, LastOne
<1>. QED BY <1>2, <1>4 DEF CInv

LEMMA CLoses == ASSUME CInv, LoseProcess, UNCHANGED <<jsonl, appended>> PROVE CInv'
<1>1. todo' = {} /\ \A w \in Workers : pc'[w] = "idle" BY DEF LoseProcess
<1>2. DInv' /\ RInv' BY <1>1 DEF CInv, DInv, RInv, LastOne
<1>3. \A l \in Lines : ~OpenLine(l)' BY <1>1 DEF OpenLine, Unrecorded
<1>4. OInv' BY <1>3 DEF CInv, OInv, Final, LastOne
<1>. QED BY <1>2, <1>4 DEF CInv

\* The operator takes every record of a key.
LEMMA CRedrive == ASSUME TInv, CInv, NEW k \in Keys, Redrive(k) PROVE CInv'
<1>1. jsonl' = jsonl \ Recorded(k) /\ UNCHANGED <<appended, todo, pc, job>>
  BY DEF Redrive, history, process, threads
<1>2. DInv' BY <1>1 DEF CInv, DInv
<1>3. RInv'
  <2>1. ASSUME NEW r \in jsonl' PROVE \E q \in jsonl' : q.key = r.key /\ LastOne(q)'
    <3>1. r \in jsonl /\ r.key # k BY <1>1 DEF Recorded
    <3>2. PICK q \in jsonl : q.key = r.key /\ LastOne(q) BY <3>1 DEF CInv, RInv
    <3>. QED BY <1>1, <3>1, <3>2 DEF Recorded, LastOne
  <2>. QED BY <1>1, <2>1 DEF CInv, RInv
<1>4. \A l \in Lines : OpenLine(l)' => OpenLine(l) BY <1>1 DEF OpenLine
<1>5. OInv' BY <1>1, <1>4 DEF CInv, OInv, Final, LastOne
<1>. QED BY <1>2, <1>3, <1>5 DEF CInv

\* load_state's last record of a key is the one no other comes after.
LEMMA LastOf ==
  ASSUME NEW R, NEW r \in R,
         \A q \in R : q.seq \in Nat /\ q.seq <= r.seq /\ (q.seq = r.seq => q = r)
  PROVE  Last(R) = r
<1>1. Last(R) \in R /\ \A q \in R : q.seq <= Last(R).seq BY DEF Last
<1>2. Last(R).seq = r.seq BY <1>1
<1>. QED BY <1>1, <1>2

LEMMA LastIs ==
  ASSUME RInv, TInv, NEW r \in jsonl, LastOne(r)
  PROVE  LastStatus(r.key) = r.status
<1>1. r \in Recorded(r.key) BY DEF Recorded
<1>2. \A q \in Recorded(r.key) : q.seq \in Nat /\ q.seq <= r.seq /\ (q.seq = r.seq => q = r)
  BY DEF Recorded, RInv, LastOne, TInv, DiskOK, Record
<1>3. Last(Recorded(r.key)) = r BY <1>1, <1>2, LastOf
<1>. QED BY <1>1, <1>3 DEF LastStatus

\* The next run takes no line whose key has a terminal record.
LEMMA CStart == ASSUME TInv, KInv, CInv, StartRun PROVE CInv'
<1>1. todo' = Batch /\ UNCHANGED <<jsonl, appended, pc, job>>
  BY DEF StartRun, disk, history, threads
<1>2. \A w \in Workers : pc'[w] = "idle" BY <1>1 DEF StartRun, KInv
<1>3. DInv' BY <1>2 DEF DInv
<1>4. RInv' BY <1>1 DEF CInv, RInv, LastOne
<1>5. ASSUME ListedOnce, NEW r \in jsonl, r.status \in Terminal,
             NEW l \in Lines, KeyOf[l] = r.key
      PROVE  ~OpenLine(l)'
  <2>1. LastStatus(r.key) = r.status BY <1>5, LastIs DEF CInv, OInv, Final, LastOne
  <2>2. l \notin Batch BY <1>5, <2>1 DEF Batch, Unresolved
  <2>. QED BY <1>1, <1>2, <2>2 DEF OpenLine, Unrecorded
<1>6. OInv' BY <1>1, <1>5 DEF CInv, OInv, Final, LastOne
<1>. QED BY <1>3, <1>4, <1>6 DEF CInv

\* A record is appended for a line whose key has no terminal one.
LEMMA CAppend == ASSUME TInv, CInv, NEW w \in Workers, AppendState(w) PROVE CInv'
<1>0. PICK r : r = RecordOf(w) OBVIOUS
<1>1. /\ pc[w] = "append" /\ jsonl' = jsonl \cup {r} /\ appended' = appended + 1
      /\ todo' = todo
  BY <1>0 DEF AppendState, At, process
<1>2. appended \in Nat /\ (\A q \in jsonl : q.seq \in Nat) BY DEF TInv, HistoryOK, DiskOK, Record
<1>3. r.seq = appended + 1 /\ r.key = KeyOf[job[w].line] /\ r.entry = EntryOf[job[w].line]
  BY <1>0 DEF RecordOf, Key, Entry
<1>4. job[w].line \in Lines BY <1>1 DEF TInv, JobsOK, Holds
<1>5. pc'[w] \in {"idle", "mirror"} /\ (pc'[w] # "idle" => job'[w].line = job[w].line)
      /\ \A v \in Workers \ {w} : pc'[v] = pc[v] /\ job'[v] = job[v]
  <2>1. job[w] \in Job BY DEF TInv, JobsOK
  <2>. QED BY <2>1 DEF AppendState, Goto, TInv, JobsOK, Job
<1>6. DInv' BY <1>1, <1>5 DEF CInv, DInv
<1>7. RInv'
  <2>1. \A p \in jsonl' : p.seq <= r.seq
    <3>1. \A p \in jsonl : p.seq <= appended BY DEF CInv, RInv
    <3>. QED BY <1>1, <1>2, <1>3, <3>1
  <2>2. LastOne(r)' BY <2>1 DEF LastOne
  <2>3. ASSUME NEW p \in jsonl' PROVE \E q \in jsonl' : q.key = p.key /\ LastOne(q)'
    <3>1. CASE p.key = r.key BY <1>1, <2>2, <3>1
    <3>2. CASE p.key # r.key
      <4>1. PICK q \in jsonl : q.key = p.key /\ LastOne(q)
        BY <1>1, <3>2 DEF CInv, RInv
      <4>. QED BY <1>1, <3>2, <4>1 DEF LastOne
    <3>. QED BY <3>1, <3>2
  <2>4. (\A p \in jsonl : p.seq <= appended)' BY <1>1, <2>1, <1>3
  <2>5. (\A q, p \in jsonl : q.seq = p.seq => q = p)'
    BY <1>1, <1>2, <1>3 DEF CInv, RInv
  <2>6. (\A p \in jsonl : \E l \in Lines : p.key = KeyOf[l] /\ p.entry = EntryOf[l])'
    BY <1>1, <1>3, <1>4 DEF CInv, RInv
  <2>. QED BY <2>3, <2>4, <2>5, <2>6 DEF RInv
<1>8. OpenLine(job[w].line) BY <1>1 DEF OpenLine, Unrecorded, PCs, Mirroring
<1>9. \A l \in Lines : OpenLine(l)' => OpenLine(l) /\ l # job[w].line
  BY <1>1, <1>5 DEF CInv, DInv, OpenLine, Unrecorded, Mirroring
<1>10. ASSUME ListedOnce, NEW q \in jsonl', q.status \in Terminal PROVE Final(q)'
  <2>1. CASE q \in jsonl
    <3>1. Final(q) BY <1>10, <2>1 DEF CInv, OInv
    <3>2. q.key # r.key BY <1>3, <1>4, <1>8, <3>1 DEF Final
    <3>. QED BY <1>1, <1>9, <3>1, <3>2 DEF Final, LastOne
  <2>2. CASE q = r
    <3>1. \A p \in jsonl' : p.seq <= r.seq BY <1>1, <1>2, <1>3 DEF CInv, RInv
    <3>2. \A l \in Lines : KeyOf[l] = r.key => ~OpenLine(l)'
      BY <1>3, <1>4, <1>9, <1>10 DEF ListedOnce
    <3>. QED BY <2>2, <3>1, <3>2 DEF Final, LastOne
  <2>. QED BY <1>1, <2>1, <2>2
<1>11. OInv' BY <1>10 DEF OInv
<1>. QED BY <1>6, <1>7, <1>11 DEF CInv

LEMMA CNext == TInv /\ KInv /\ CInv /\ [Next]_vars => CInv'
<1>. SUFFICES ASSUME TInv, KInv, CInv, [Next]_vars PROVE CInv' OBVIOUS
<1>1. CASE RefuseRun \/ FinishRun \/ Signal \/ KillContainers \/ Finished \/ UNCHANGED vars
  BY <1>1, AsideSteps, CAside
<1>2. CASE Crash BY <1>2, CLoses DEF Crash, disk, history
<1>3. CASE StartRun \/ \E k \in Keys : Redrive(k) BY <1>3, CStart, CRedrive
<1>4. ASSUME NEW w \in Workers, ReadTorn(w) \/ WorkerError(w) \/ TearAppend(w) PROVE CInv'
  BY <1>4, CarryError, CCarry, CLoses
<1>5. ASSUME NEW w \in Workers, Step(w) PROVE CInv'
  BY <1>4, <1>5, CarryStep, CCarry, CTake, CSkip, CAppend
<1>. QED BY <1>1, <1>2, <1>3, <1>4, <1>5 DEF Next

-----------------------------------------------------------------------------
(* The entry files *)

Claims == TerminalSuccess \cup TerminalFlaky

\* No two lines of the candidates file share an entry.
OneEntryEach == \A l, m \in Lines : EntryOf[l] = EntryOf[m] => l = m

(***************************************************************************)
(* What a worker at p with job j, buffer b and entry file f knows of the   *)
(* file: that it is there, and, if nobody else writes it, what it holds.   *)
(***************************************************************************)
Buffered == {"open", "close", "verify"}
Written == {"index", "indexed", "regen", "verify"}
Claiming(p, j) == p \in {"check", "append"} /\ j.status \in Claims
Anew(p, j) == p \in {"repro", "relock", "assemble", "open"} /\ j.mode = "new"

Alone(p, j, f) ==
  /\ p = "close" => f.st = "torn"
  /\ p \in Written \/ Claiming(p, j) => f.st = "whole"
  /\ ~ReassembleStale /\ Anew(p, j) => f.st = "absent"

\* Only a candidate that failed to reproduce is classified, and only from there.
Classified(p, j) ==
  /\ j.category # "none" =>
       /\ p \in {"relock", "attempts", "check", "append", "mirror", "mirrorclass"}
       /\ j.status = "not_reproducible"
  /\ p \in {"relock", "attempts"} => j.category # "none"

FSafe(p, j, b, f) ==
  /\ p \in Buffered => b.st = "whole"
  /\ p \in Written \cup {"close"} \/ Claiming(p, j) => f.st # "absent"
  /\ p = "open" /\ j.mode # "new" => f.st # "absent"
  /\ Classified(p, j)
  /\ p \in {"regen", "verify"} => j.mode # "new"
  /\ OneEntryEach => Alone(p, j, f)

FInv == \A w \in Workers : pc[w] # "idle" => FSafe(pc[w], job[w], buf[w], files[Entry(w)])

\* A file that is there stays, and only the entry of w is touched.
Touches(w) ==
  /\ \A e \in EntryIds : files[e].st # "absent" => files'[e].st # "absent"
  /\ \A e \in EntryIds : e # Entry(w) => files'[e] = files[e]

LEMMA FWorker ==
  ASSUME TInv, DInv, FInv, NEW w \in Workers, pc[w] # "idle", run' = run, Touches(w),
         \A v \in Workers \ {w} : pc'[v] = pc[v] /\ job'[v] = job[v] /\ buf'[v] = buf[v],
         pc'[w] # "idle" =>
           job'[w].line = job[w].line /\ FSafe(pc'[w], job'[w], buf'[w], files'[Entry(w)])
  PROVE  FInv'
<1>1. ASSUME NEW v \in Workers, v # w, pc'[v] # "idle"
      PROVE  FSafe(pc[v], job[v], buf[v], files[Entry(v)])'
  <2>1. /\ pc'[v] = pc[v] /\ job'[v] = job[v] /\ buf'[v] = buf[v] /\ Entry(v)' = Entry(v)
        /\ ReassembleStale' = ReassembleStale
    BY <1>1 DEF Entry, ReassembleStale
  <2>2. FSafe(pc[v], job[v], buf[v], files[Entry(v)]) BY <1>1, <2>1 DEF FInv
  <2>3. Entry(v) \in EntryIds BY <1>1, <2>1, HasKey DEF TInv
  <2>4. OneEntryEach => files'[Entry(v)] = files[Entry(v)]
    <3>1. job[v].line \in Lines /\ job[w].line \in Lines /\ job[v].line # job[w].line
      BY <1>1, <2>1, HasKey DEF TInv, DInv, Candidate
    <3>2. OneEntryEach => Entry(v) # Entry(w) BY <3>1 DEF OneEntryEach, Entry
    <3>. QED BY <2>3, <3>2 DEF Touches
  <2>5. files[Entry(v)].st # "absent" => files'[Entry(v)].st # "absent"
    BY <2>3 DEF Touches
  <2>6. FSafe(pc[v], job[v], buf[v], files'[Entry(v)])
    BY <2>2, <2>4, <2>5 DEF FSafe
  <2>. QED BY <2>1, <2>6 DEF FSafe, Alone
<1>2. ASSUME pc'[w] # "idle" PROVE FSafe(pc[w], job[w], buf[w], files[Entry(w)])'
  <2>1. Entry(w)' = Entry(w) BY <1>2 DEF Entry
  <2>. QED BY <1>2, <2>1 DEF FSafe, Alone, ReassembleStale
<1>. QED BY <1>1, <1>2 DEF FInv

LEMMA FMoves ==
  ASSUME TInv, DInv, FInv, NEW w \in Workers, pc[w] # "idle", run' = run,
         NEW p, NEW j, NEW b, NEW f,
         pc' = [pc EXCEPT ![w] = p], job' = [job EXCEPT ![w] = j],
         buf' = [buf EXCEPT ![w] = b], files' = [files EXCEPT ![Entry(w)] = f],
         files[Entry(w)].st # "absent" => f.st # "absent",
         p # "idle" => j.line = job[w].line /\ FSafe(p, j, b, f)
  PROVE  FInv'
<1>1. /\ pc'[w] = p /\ job'[w] = j /\ buf'[w] = b
      /\ \A v \in Workers \ {w} : pc'[v] = pc[v] /\ job'[v] = job[v] /\ buf'[v] = buf[v]
  BY DEF TInv, JobsOK, BufOK
<1>2. Entry(w) \in EntryIds BY HasKey DEF TInv
<1>3. files'[Entry(w)] = f /\ Touches(w) BY <1>2 DEF TInv, DiskOK, Touches
<1>. QED BY <1>1, <1>3, FWorker

\* The files and the text to write stay.
LEMMA FKeeps ==
  ASSUME TInv, DInv, FInv, NEW w \in Workers, pc[w] # "idle",
         UNCHANGED <<run, files, buf>>, NEW p, NEW j,
         pc' = [pc EXCEPT ![w] = p], job' = [job EXCEPT ![w] = j],
         p # "idle" => j.line = job[w].line /\ FSafe(p, j, buf[w], files[Entry(w)])
  PROVE  FInv'
<1>1. buf' = [buf EXCEPT ![w] = buf[w]] BY DEF TInv, BufOK
<1>2. files' = [files EXCEPT ![Entry(w)] = files[Entry(w)]] BY DEF TInv, DiskOK
<1>. QED BY <1>1, <1>2, FMoves

\* ... and the worker concludes that its candidate has failed.
LEMMA FFails ==
  ASSUME TInv, DInv, FInv, NEW w \in Workers, pc[w] \in {"resolve", "assemble"},
         UNCHANGED <<run, files, buf>>, NEW s, Conclude(w, s), s \notin Claims
  PROVE  FInv'
<1>. DEFINE j == [job[w] EXCEPT !.status = s]
<1>0. job[w].category = "none" BY DEF FInv, FSafe, Classified
<1>1. j.line = job[w].line /\ j.status = s /\ j.category = "none"
  BY <1>0 DEF TInv, JobsOK, Job
<1>2. pc' = [pc EXCEPT ![w] = "check"] /\ job' = [job EXCEPT ![w] = j]
  BY DEF Conclude, Goto
<1>. HIDE DEF j
<1>3. FSafe("check", j, buf[w], files[Entry(w)])
  BY <1>1 DEF FSafe, Classified, Alone, Buffered, Written, Claiming, Anew
<1>. QED BY <1>1, <1>2, <1>3, FKeeps

LEMMA FResolve == ASSUME TInv, DInv, FInv, NEW w \in Workers, Resolve(w) PROVE FInv'
<1>1. /\ pc[w] = "resolve" /\ UNCHANGED <<run, files, buf>>
  BY DEF Resolve, MetadataFails, FlagStale, VerifyExisting, RejectLate, ImageMissing,
         BuildImage, ImageResolved, At, disk, counters
<1>2. job[w].category = "none" BY <1>1 DEF FInv, FSafe, Classified
<1>3. CASE \E s \in TerminalFailure : Conclude(w, s)
  BY <1>1, <1>3, FFails DEF Claims, TerminalFailure, TerminalSuccess, TerminalFlaky
<1>4. CASE Goto(w, "repro") /\ UNCHANGED job /\ Reassembles(w)
  <2>1. pc' = [pc EXCEPT ![w] = "repro"] /\ job' = [job EXCEPT ![w] = job[w]]
    BY <1>4 DEF Goto, TInv, JobsOK
  <2>2. ~ReassembleStale => files[Entry(w)].st = "absent" BY <1>4 DEF Reassembles, Present
  <2>3. FSafe("repro", job[w], buf[w], files[Entry(w)])
    BY <1>2, <2>2 DEF FSafe, Classified, Alone, Buffered, Written, Claiming, Anew
  <2>. QED BY <1>1, <2>1, <2>3, FKeeps
<1>5. CASE VerifyExisting(w)
  <2>. DEFINE j == [job[w] EXCEPT !.mode = "existing"]
  <2>1. j.line = job[w].line /\ j.mode = "existing" /\ j.category = "none"
    BY <1>2 DEF TInv, JobsOK, Job
  <2>2. job' = [job EXCEPT ![w] = j] /\ pc' = [pc EXCEPT ![w] = "regen"]
        /\ files[Entry(w)].st = "whole"
    BY <1>5 DEF VerifyExisting, Goto
  <2>. HIDE DEF j
  <2>3. FSafe("regen", j, buf[w], files[Entry(w)])
    BY <2>1, <2>2 DEF FSafe, Classified, Alone, Buffered, Written, Claiming, Anew
  <2>. QED BY <1>1, <2>1, <2>2, <2>3, FKeeps
<1>6. {"metadata_fetch_failed", "entry_bucket_stale", "commit_after_max_sde_date",
       "fat_image_missing", "fat_image_build_failed"} \subseteq TerminalFailure
  BY DEF TerminalFailure
<1>. QED BY <1>3, <1>4, <1>5, <1>6 DEF Resolve, MetadataFails, FlagStale, RejectLate,
                                       ImageMissing, BuildImage, ImageResolved

\* The worker still has no entry of its own.
LEMMA FReproduces ==
  ASSUME TInv, DInv, FInv, NEW w \in Workers, pc[w] \in {"repro", "relock"},
         UNCHANGED <<run, files, buf>>, NEW p, NEW j,
         pc' = [pc EXCEPT ![w] = p], job' = [job EXCEPT ![w] = j],
         j.line = job[w].line, j.mode = job[w].mode,
         p \in {"assemble", "relock", "attempts", "check"},
         IF p = "assemble" THEN j.category = "none"
         ELSE j.category # "none" /\ j.status = "not_reproducible"
  PROVE  FInv'
<1>1. FSafe(pc[w], job[w], buf[w], files[Entry(w)]) BY DEF FInv
<1>2. job[w].mode = "new" BY DEF TInv, JobsOK, Holds, Fresh
<1>3. ~ReassembleStale /\ OneEntryEach => files[Entry(w)].st = "absent"
  BY <1>1, <1>2 DEF FSafe, Alone, Anew
<1>4. "not_reproducible" \notin Claims BY DEF Claims, TerminalSuccess, TerminalFlaky
<1>5. FSafe(p, j, buf[w], files[Entry(w)])
  BY <1>3, <1>4 DEF FSafe, Classified, Alone, Buffered, Written, Claiming, Anew
<1>. QED BY <1>5, FKeeps

LEMMA FReproduce == ASSUME TInv, DInv, FInv, NEW w \in Workers, Reproduce(w) PROVE FInv'
<1>1. pc[w] = "repro" /\ UNCHANGED <<run, files, buf>>
  BY DEF Reproduce, At, disk, counters
<1>9. job[w].category = "none" BY <1>1 DEF FInv, FSafe, Classified
<1>2. PICK o \in Returns(Attempts, killPass) :
         IF o.pre
         THEN /\ job' = [job EXCEPT ![w].flaky = o.flaky, ![w].killed = o.killed,
                                    ![w].basis = "strict"]
              /\ Goto(w, "assemble")
         ELSE PreFails(w, o)
  BY DEF Reproduce
<1>3. CASE o.pre
  <2>. DEFINE j == [job[w] EXCEPT !.flaky = o.flaky, !.killed = o.killed,
                                  !.basis = "strict"]
  <2>1. j.line = job[w].line /\ j.mode = job[w].mode /\ j.category = "none"
    BY <1>9 DEF TInv, JobsOK, Job
  <2>2. job' = [job EXCEPT ![w] = j] /\ pc' = [pc EXCEPT ![w] = "assemble"]
    BY <1>2, <1>3 DEF Goto
  <2>. HIDE DEF j
  <2>. QED BY <1>1, <2>1, <2>2, FReproduces
<1>4. CASE ~o.pre
  <2>1. PICK c \in Categories \ {"none"} :
          /\ job' = [job EXCEPT ![w].status = "not_reproducible", ![w].category = c,
                                ![w].flaky = o.flaky, ![w].killed = o.killed,
                                ![w].basis = "strict"]
          /\ Goto(w, IF RelaxLocked /\ c = "LOCK_FILE_STALE" THEN "relock"
                     ELSE IF WithDb THEN "attempts" ELSE "check")
    BY <1>2, <1>4 DEF PreFails
  <2>. DEFINE j == [job[w] EXCEPT !.status = "not_reproducible", !.category = c,
                                  !.flaky = o.flaky, !.killed = o.killed,
                                  !.basis = "strict"]
              p == IF RelaxLocked /\ c = "LOCK_FILE_STALE" THEN "relock"
                   ELSE IF WithDb THEN "attempts" ELSE "check"
  <2>2. /\ j.line = job[w].line /\ j.mode = job[w].mode
        /\ j.status = "not_reproducible" /\ j.category # "none"
    BY DEF TInv, JobsOK, Job
  <2>3. job' = [job EXCEPT ![w] = j] /\ pc' = [pc EXCEPT ![w] = p] BY <2>1 DEF Goto
  <2>4. p \in {"relock", "attempts", "check"} OBVIOUS
  <2>. HIDE DEF j, p
  <2>. QED BY <1>1, <2>2, <2>3, <2>4, FReproduces
<1>. QED BY <1>3, <1>4

LEMMA FRelock == ASSUME TInv, DInv, FInv, NEW w \in Workers, Relock(w) PROVE FInv'
<1>1. pc[w] = "relock" /\ UNCHANGED <<run, files, buf>> BY DEF Relock, At, disk, counters
<1>2. PICK o \in Returns(1, killPass) :
         IF o.pre /\ o.post
         THEN /\ job' = [job EXCEPT ![w].status = "ok_after_relock",
                                    ![w].category = "none",
                                    ![w].basis = "relock"]
              /\ Goto(w, "assemble")
         ELSE /\ job' = [job EXCEPT ![w].killed = @ \/ o.killed]
              /\ Goto(w, IF WithDb THEN "attempts" ELSE "check")
  BY DEF Relock
<1>3. CASE o.pre /\ o.post
  <2>. DEFINE j == [job[w] EXCEPT !.status = "ok_after_relock", !.category = "none",
                                  !.basis = "relock"]
  <2>1. j.line = job[w].line /\ j.mode = job[w].mode /\ j.category = "none"
    BY DEF TInv, JobsOK, Job
  <2>2. job' = [job EXCEPT ![w] = j] /\ pc' = [pc EXCEPT ![w] = "assemble"]
    BY <1>2, <1>3 DEF Goto
  <2>. HIDE DEF j
  <2>. QED BY <1>1, <2>1, <2>2, FReproduces
<1>4. CASE ~(o.pre /\ o.post)
  <2>. DEFINE j == [job[w] EXCEPT !.killed = @ \/ o.killed]
              p == IF WithDb THEN "attempts" ELSE "check"
  <2>1. /\ j.line = job[w].line /\ j.mode = job[w].mode /\ j.status = job[w].status
        /\ j.category = job[w].category
    BY DEF TInv, JobsOK, Job
  <2>2. job' = [job EXCEPT ![w] = j] /\ pc' = [pc EXCEPT ![w] = p]
    BY <1>2, <1>4 DEF Goto
  <2>3. p \in {"relock", "attempts", "check"} OBVIOUS
  <2>4. job[w].status = "not_reproducible" /\ job[w].category # "none"
    BY <1>1 DEF FInv, FSafe, Classified
  <2>. HIDE DEF j, p
  <2>. QED BY <1>1, <2>1, <2>2, <2>3, <2>4, FReproduces
<1>. QED BY <1>3, <1>4

LEMMA FAttempts == ASSUME TInv, DInv, FInv, NEW w \in Workers, RecordAttempts(w) PROVE FInv'
<1>1. /\ pc[w] = "attempts" /\ UNCHANGED <<run, files, buf>>
      /\ pc' = [pc EXCEPT ![w] = "check"] /\ job' = [job EXCEPT ![w] = job[w]]
  BY DEF RecordAttempts, At, disk, counters, Goto, TInv, JobsOK
<1>2. /\ job[w].category # "none" /\ job[w].status = "not_reproducible"
      /\ job[w].status \notin Claims
  BY <1>1 DEF FInv, FSafe, Classified, Claims, TerminalSuccess, TerminalFlaky
<1>3. FSafe("check", job[w], buf[w], files[Entry(w)])
  BY <1>2 DEF FSafe, Classified, Alone, Buffered, Written, Claiming, Anew
<1>. QED BY <1>1, <1>3, FKeeps

LEMMA FAssemble == ASSUME TInv, DInv, FInv, NEW w \in Workers, Assemble(w) PROVE FInv'
<1>1. pc[w] = "assemble" /\ UNCHANGED <<run, files>> BY DEF Assemble, At, disk, counters
<1>2. CASE Conclude(w, "assemble_failed") /\ UNCHANGED buf
  <2>1. "assemble_failed" \notin Claims BY DEF Claims, TerminalSuccess, TerminalFlaky
  <2>. QED BY <1>1, <1>2, <2>1, FFails
<1>3. CASE /\ buf' = [buf EXCEPT ![w] =
                     [st |-> "whole", tag |-> TagFor(Candidate(w)),
                      killed |-> job[w].killed, verified |-> 0]]
           /\ Goto(w, "open") /\ UNCHANGED job
  <2>1. PICK b : b.st = "whole" /\ buf' = [buf EXCEPT ![w] = b] BY <1>3
  <2>2. job[w].mode = "new" BY <1>1 DEF TInv, JobsOK, Holds, Fresh
  <2>3. FSafe(pc[w], job[w], buf[w], files[Entry(w)]) BY <1>1 DEF FInv
  <2>4. FSafe("open", job[w], b, files[Entry(w)])
    BY <1>1, <2>1, <2>2, <2>3 DEF FSafe, Classified, Alone, Buffered, Written, Claiming, Anew
  <2>5. /\ pc' = [pc EXCEPT ![w] = "open"] /\ job' = [job EXCEPT ![w] = job[w]]
        /\ files' = [files EXCEPT ![Entry(w)] = files[Entry(w)]]
    BY <1>1, <1>3 DEF Goto, TInv, JobsOK, DiskOK
  <2>. QED BY <1>1, <2>1, <2>4, <2>5, FMoves
<1>. QED BY <1>2, <1>3 DEF Assemble

LEMMA FOpen == ASSUME TInv, DInv, FInv, NEW w \in Workers, OpenEntry(w) PROVE FInv'
<1>1. /\ pc[w] = "open" /\ run' = run /\ files' = [files EXCEPT ![Entry(w)] = Blank("torn")]
      /\ pc' = [pc EXCEPT ![w] = "close"] /\ job' = [job EXCEPT ![w] = job[w]]
      /\ buf' = [buf EXCEPT ![w] = buf[w]]
  BY DEF OpenEntry, At, counters, Goto, TInv, JobsOK, BufOK
<1>2. FSafe(pc[w], job[w], buf[w], files[Entry(w)]) BY <1>1 DEF FInv
<1>3. Blank("torn").st = "torn" BY DEF Blank
<1>4. FSafe("close", job[w], buf[w], Blank("torn"))
  BY <1>1, <1>2, <1>3 DEF FSafe, Classified, Alone, Buffered, Written, Claiming, Anew
<1>. QED BY <1>1, <1>3, <1>4, FMoves

\* The entry is whole, and so is what is made of it next.
LEMMA FAfterWrite ==
  ASSUME TInv, DInv, FInv, NEW w \in Workers, pc[w] \in {"close", "index", "indexed"},
         run' = run, AfterWrite(w),
         NEW b, buf' = [buf EXCEPT ![w] = b], NEW f, files' = [files EXCEPT ![Entry(w)] = f],
         f.st # "absent", OneEntryEach => f.st = "whole"
  PROVE  FInv'
<1>0. job[w].category = "none" BY DEF FInv, FSafe, Classified
<1>1. CASE RegenerateVerify
  <2>. DEFINE j == [job[w] EXCEPT !.mode = "assembled"]
  <2>1. j.line = job[w].line /\ j.mode = "assembled" /\ j.category = "none"
    BY <1>0 DEF TInv, JobsOK, Job
  <2>2. pc' = [pc EXCEPT ![w] = "regen"] /\ job' = [job EXCEPT ![w] = j]
    BY <1>1 DEF AfterWrite, Goto
  <2>. HIDE DEF j
  <2>3. FSafe("regen", j, b, f) BY <2>1 DEF FSafe, Classified, Alone, Buffered, Written, Claiming, Anew
  <2>. QED BY <2>1, <2>2, <2>3, FMoves
<1>2. CASE ~RegenerateVerify
  <2>. DEFINE j == [job[w] EXCEPT !.status = FinalStatus(job[w])]
  <2>1. j.line = job[w].line /\ j.category = "none" BY <1>0 DEF TInv, JobsOK, Job
  <2>2. pc' = [pc EXCEPT ![w] = "check"] /\ job' = [job EXCEPT ![w] = j]
    BY <1>2 DEF AfterWrite, Conclude, Goto
  <2>. HIDE DEF j
  <2>3. FSafe("check", j, b, f) BY <2>1 DEF FSafe, Classified, Alone, Buffered, Written, Claiming, Anew
  <2>. QED BY <2>1, <2>2, <2>3, FMoves
<1>. QED BY <1>1, <1>2

LEMMA FClose == ASSUME TInv, DInv, FInv, NEW w \in Workers, CloseEntry(w) PROVE FInv'
<1>1. pc[w] = "close" /\ run' = run BY DEF CloseEntry, At, counters
<1>2. FSafe(pc[w], job[w], buf[w], files[Entry(w)]) BY <1>1 DEF FInv
<1>3. buf[w].st = "whole" /\ (OneEntryEach => files[Entry(w)].st = "torn")
  BY <1>1, <1>2 DEF FSafe, Alone, Buffered
<1>4. PICK f : /\ files' = [files EXCEPT ![Entry(w)] = f]
               /\ f = buf[w] \/ (f = Blank("torn") /\ files[Entry(w)].st = "whole")
  BY DEF CloseEntry
<1>5. f.st # "absent" /\ (OneEntryEach => f.st = "whole")
  <2>1. Blank("torn").st = "torn" BY DEF Blank
  <2>. QED BY <1>3, <1>4, <2>1
<1>6. PICK b : buf' = [buf EXCEPT ![w] = b] BY DEF CloseEntry
<1>7. CASE AfterWrite(w) BY <1>1, <1>4, <1>5, <1>6, <1>7, FAfterWrite
<1>8. CASE UNCHANGED job /\ \E p \in {"index", "check"} : Goto(w, p)
  <2>1. PICK p \in {"index", "check"} : pc' = [pc EXCEPT ![w] = p] BY <1>8 DEF Goto
  <2>2. job' = [job EXCEPT ![w] = job[w]] BY <1>8 DEF TInv, JobsOK
  <2>3. FSafe(p, job[w], b, f)
    BY <1>1, <1>2, <1>5 DEF FSafe, Classified, Alone, Buffered, Written, Claiming, Anew
  <2>. QED BY <1>1, <1>4, <1>5, <1>6, <2>1, <2>2, <2>3, FMoves
<1>. QED BY <1>7, <1>8 DEF CloseEntry

LEMMA FIndex ==
  ASSUME TInv, DInv, FInv, NEW w \in Workers, IndexEntry(w) \/ IndexAttempts(w)
  PROVE  FInv'
<1>1. /\ pc[w] \in {"index", "indexed"} /\ run' = run
      /\ buf' = [buf EXCEPT ![w] = buf[w]]
      /\ files' = [files EXCEPT ![Entry(w)] = files[Entry(w)]]
  BY DEF IndexEntry, IndexAttempts, At, counters, disk, TInv, DiskOK, BufOK
<1>2. FSafe(pc[w], job[w], buf[w], files[Entry(w)]) BY <1>1 DEF FInv
<1>3. /\ files[Entry(w)].st # "absent" 
      /\ OneEntryEach => files[Entry(w)].st = "whole"
  BY <1>1, <1>2 DEF FSafe, Alone, Written
<1>4. CASE AfterWrite(w) BY <1>1, <1>3, <1>4, FAfterWrite
<1>5. CASE Goto(w, "indexed") /\ UNCHANGED job
  <2>1. pc' = [pc EXCEPT ![w] = "indexed"] /\ job' = [job EXCEPT ![w] = job[w]]
    BY <1>5 DEF Goto, TInv, JobsOK
  <2>2. FSafe("indexed", job[w], buf[w], files[Entry(w)])
    BY <1>1, <1>2, <1>3 DEF FSafe, Classified, Alone, Buffered, Written, Claiming, Anew
  <2>. QED BY <1>1, <2>1, <2>2, FMoves
<1>. QED BY <1>4, <1>5 DEF IndexEntry, IndexAttempts

LEMMA FRead == ASSUME TInv, DInv, FInv, NEW w \in Workers, RegenRead(w) PROVE FInv'
<1>1. /\ pc[w] = "regen" /\ run' = run /\ files[Entry(w)].st = "whole"
      /\ buf' = [buf EXCEPT ![w] = files[Entry(w)]]
      /\ files' = [files EXCEPT ![Entry(w)] = files[Entry(w)]]
      /\ pc' = [pc EXCEPT ![w] = "verify"] /\ job' = [job EXCEPT ![w] = job[w]]
  BY DEF RegenRead, At, counters, disk, Goto, TInv, DiskOK, JobsOK
<1>2. job[w].mode # "new" /\ job[w].category = "none" BY <1>1 DEF FInv, FSafe, Classified
<1>3. FSafe("verify", job[w], files[Entry(w)], files[Entry(w)])
  BY <1>1, <1>2 DEF FSafe, Classified, Alone, Buffered, Written, Claiming, Anew
<1>. QED BY <1>1, <1>3, FMoves

LEMMA FVerify == ASSUME TInv, DInv, FInv, NEW w \in Workers, RegenVerify(w) PROVE FInv'
<1>1. /\ pc[w] = "verify" /\ run' = run
      /\ files' = [files EXCEPT ![Entry(w)] = files[Entry(w)]]
  BY DEF RegenVerify, At, counters, disk, TInv, DiskOK
<1>2. FSafe(pc[w], job[w], buf[w], files[Entry(w)]) BY <1>1 DEF FInv
<1>3. buf[w].st = "whole" /\ files[Entry(w)].st # "absent" 
  BY <1>1, <1>2 DEF FSafe, Buffered, Written
<1>4. PICK rc \in RegenCodes :
        /\ job' = [job EXCEPT ![w].status = RegenStatus(job[w], rc)]
        /\ IF rc \in {"ok", "outcome"}
           THEN /\ buf' = [buf EXCEPT ![w].verified = @ + 1]
                /\ Goto(w, "open")
           ELSE /\ buf' = [buf EXCEPT ![w] = Blank("absent")]
                /\ Goto(w, "check")
  BY DEF RegenVerify
<1>. DEFINE j == [job[w] EXCEPT !.status = RegenStatus(job[w], rc)]
<1>5. /\ j.line = job[w].line /\ j.mode # "new" /\ j.category = "none"
      /\ j.status = RegenStatus(job[w], rc)
  BY <1>1, <1>2 DEF TInv, JobsOK, Job, FSafe, Classified
<1>6. job' = [job EXCEPT ![w] = j] BY <1>4
<1>. HIDE DEF j
<1>7. CASE rc \in {"ok", "outcome"}
  <2>. DEFINE b == [buf[w] EXCEPT !.verified = @ + 1]
  <2>1. b.st = "whole" BY <1>3 DEF TInv, BufOK, EntryFile
  <2>2. buf' = [buf EXCEPT ![w] = b] /\ pc' = [pc EXCEPT ![w] = "open"]
    BY <1>4, <1>7 DEF Goto
  <2>. HIDE DEF b
  <2>3. FSafe("open", j, b, files[Entry(w)])
    BY <1>3, <1>5, <2>1 DEF FSafe, Classified, Alone, Buffered, Written, Claiming, Anew
  <2>. QED BY <1>1, <1>5, <1>6, <2>2, <2>3, FMoves
<1>8. CASE rc \notin {"ok", "outcome"}
  <2>1. j.status \notin Claims
    BY <1>5, <1>8 DEF RegenCodes, RegenStatus, Claims, TerminalSuccess, TerminalFlaky
  <2>2. buf' = [buf EXCEPT ![w] = Blank("absent")] /\ pc' = [pc EXCEPT ![w] = "check"]
    BY <1>4, <1>8 DEF Goto
  <2>3. FSafe("check", j, Blank("absent"), files[Entry(w)])
    BY <1>5, <2>1 DEF FSafe, Classified, Alone, Buffered, Written, Claiming, Anew
  <2>. QED BY <1>1, <1>5, <1>6, <2>2, <2>3, FMoves
<1>. QED BY <1>7, <1>8

\* From the second look at the event on, or back to idle.
LEMMA FEnds ==
  ASSUME TInv, DInv, FInv, NEW w \in Workers,
         Keep(w) \/ Drop(w) \/ AppendState(w) \/ MirrorState(w) \/ MirrorClass(w)
  PROVE  FInv'
<1>1. pc[w] \in {"check", "append", "mirror", "mirrorclass"} /\ UNCHANGED <<run, files, buf>>
  BY DEF Keep, Drop, AppendState, MirrorState, MirrorClass, At, disk, counters
<1>9. Classified(pc[w], job[w]) BY <1>1 DEF FInv, FSafe
<1>2. CASE Goto(w, "idle") /\ job' = [job EXCEPT ![w] = NoJob]
  BY <1>1, <1>2, FKeeps DEF Goto
<1>3. CASE Keep(w)
  <2>1. /\ pc[w] = "check" /\ pc' = [pc EXCEPT ![w] = "append"]
        /\ job' = [job EXCEPT ![w] = job[w]]
    BY <1>3 DEF Keep, At, Goto, TInv, JobsOK
  <2>2. FSafe(pc[w], job[w], buf[w], files[Entry(w)]) BY <2>1 DEF FInv
  <2>3. FSafe("append", job[w], buf[w], files[Entry(w)])
    BY <2>1, <2>2 DEF FSafe, Classified, Alone, Buffered, Written, Claiming, Anew
  <2>. QED BY <1>1, <2>1, <2>3, FKeeps
<1>4. CASE \/ AppendState(w) /\ WithDb
           \/ MirrorState(w) /\ Goto(w, "mirrorclass") /\ UNCHANGED job
  <2>1. PICK p \in Mirroring : pc' = [pc EXCEPT ![w] = p]
    BY <1>4 DEF AppendState, Goto, Mirroring
  <2>2. PICK j : /\ job' = [job EXCEPT ![w] = j] /\ j.line = job[w].line
                 /\ j.category = job[w].category /\ j.status = job[w].status
    <3>1. CASE AppendState(w) /\ WithDb
      <4>. DEFINE j == [job[w] EXCEPT !.seq = appended + 1]
      <4>1. j.line = job[w].line /\ j.category = job[w].category /\ j.status = job[w].status
        BY DEF TInv, JobsOK, Job
      <4>2. job' = [job EXCEPT ![w] = j] BY <3>1 DEF AppendState
      <4>. HIDE DEF j
      <4>. QED BY <4>1, <4>2
    <3>2. CASE job' = job
      <4>1. job' = [job EXCEPT ![w] = job[w]] BY <3>2 DEF TInv, JobsOK
      <4>. QED BY <4>1
    <3>. QED BY <1>4, <3>1, <3>2
  <2>3. FSafe(p, j, buf[w], files[Entry(w)])
    BY <1>1, <1>9, <2>1, <2>2
    DEF FSafe, Classified, Alone, Buffered, Written, Claiming, Anew, Mirroring
  <2>. QED BY <1>1, <2>1, <2>2, <2>3, FKeeps
<1>. QED BY <1>2, <1>3, <1>4 DEF Drop, AppendState, MirrorState, MirrorClass

LEMMA FTake == ASSUME TInv, DInv, FInv, NEW w \in Workers, Take(w) PROVE FInv'
<1>1. PICK l \in todo : job' = [job EXCEPT ![w] = NewJob(l)] BY DEF Take
<1>2. /\ UNCHANGED <<run, files, buf>> /\ pc'[w] = "resolve"
      /\ \A v \in Workers \ {w} : pc'[v] = pc[v] /\ job'[v] = job[v]
  BY <1>1 DEF Take, disk, counters, Goto, TInv, JobsOK
<1>3. ASSUME NEW v \in Workers \ {w}, pc'[v] # "idle"
      PROVE  FSafe(pc[v], job[v], buf[v], files[Entry(v)])'
  <2>1. FSafe(pc[v], job[v], buf[v], files[Entry(v)]) BY <1>2, <1>3 DEF FInv
  <2>2. Entry(v)' = Entry(v) /\ ReassembleStale' = ReassembleStale
    BY <1>2 DEF Entry, ReassembleStale
  <2>. QED BY <1>2, <2>1, <2>2 DEF FSafe, Alone
<1>4. FSafe(pc[w], job[w], buf[w], files[Entry(w)])'
  <2>1. job'[w].category = "none" BY <1>1 DEF TInv, JobsOK, NewJob
  <2>. QED BY <1>2, <2>1 DEF FSafe, Classified, Alone, Buffered, Written, Claiming, Anew
<1>. QED BY <1>3, <1>4 DEF FInv

\* Nothing happens to the workers and the files.
LEMMA FAside ==
  ASSUME FInv, UNCHANGED <<pc, job, buf, files>>,
         run' = run \/ \A w \in Workers : pc[w] = "idle"
  PROVE  FInv'
<1>1. CASE \A w \in Workers : pc[w] = "idle" BY <1>1 DEF FInv
<1>2. CASE run' = run BY <1>2 DEF FInv, FSafe, Alone, Entry, ReassembleStale
<1>. QED BY <1>1, <1>2

LEMMA FError ==
  ASSUME TInv, DInv, FInv, NEW w \in Workers,
         ReadTorn(w) \/ WorkerError(w) \/ TearAppend(w)
  PROVE  FInv'
<1>1. pc[w] # "idle" /\ UNCHANGED <<run, files>>
  BY DEF ReadTorn, WorkerError, TearAppend, At, disk, counters
<1>2. CASE LoseProcess BY <1>2 DEF LoseProcess, FInv
<1>3. CASE ~LoseProcess
  <2>1. Raise(w) /\ ~Serial BY <1>3 DEF ReadTorn, WorkerError, TearAppend, Raise
  <2>2. /\ pc' = [pc EXCEPT ![w] = "idle"] /\ job' = [job EXCEPT ![w] = NoJob]
        /\ buf' = [buf EXCEPT ![w] = Blank("absent")]
        /\ files' = [files EXCEPT ![Entry(w)] = files[Entry(w)]]
    BY <1>1, <2>1 DEF Raise, Goto, TInv, DiskOK
  <2>. QED BY <1>1, <2>2, FMoves
<1>. QED BY <1>2, <1>3

LEMMA FStep == ASSUME TInv, DInv, FInv, NEW w \in Workers, Step(w) PROVE FInv'
<1>1. CASE Skip(w)
  <2>1. UNCHANGED <<pc, job, buf, files, run>> BY <1>1 DEF Skip, threads, disk, counters
  <2>. QED BY <2>1, FAside
<1>. QED BY <1>1, FTake, FResolve, FReproduce, FRelock, FAttempts, FAssemble, FOpen, FClose,
            FIndex, FRead, FVerify, FEnds, FError DEF Step

LEMMA FInit == Init => FInv
BY DEF Init, FInv

LEMMA FNext == TInv /\ KInv /\ CInv /\ FInv /\ [Next]_vars => FInv'
<1>. SUFFICES ASSUME TInv, KInv, CInv, FInv, [Next]_vars PROVE FInv' OBVIOUS
<1>1. DInv BY DEF CInv
<1>2. CASE Crash BY <1>2 DEF Crash, LoseProcess, FInv
<1>3. CASE \/ StartRun \/ RefuseRun \/ FinishRun \/ Signal \/ KillContainers
           \/ (\E k \in Keys : Redrive(k)) \/ Finished \/ UNCHANGED vars
  <2>1. UNCHANGED <<pc, job, buf, files>>
    BY <1>3 DEF StartRun, RefuseRun, FinishRun, Signal, KillContainers, Redrive, Finished,
                vars, disk, threads
  <2>2. run' = run \/ driver = "down"
    BY <1>3 DEF StartRun, RefuseRun, FinishRun, Signal, KillContainers, Redrive, Finished,
                vars, counters
  <2>. QED BY <2>1, <2>2, FAside DEF KInv
<1>4. CASE \E w \in Workers : Step(w) \/ WorkerError(w) \/ TearAppend(w)
  BY <1>1, <1>4, FStep, FError
<1>. QED BY <1>2, <1>3, <1>4 DEF Next

-----------------------------------------------------------------------------
(* NoSilentOverwrite *)

\* A whole file becomes a torn one only under the pen of a worker that
\* verified it before.
Overwritten ==
  \A e \in EntryIds :
    /\ ~ReassembleStale /\ files[e].st = "whole" /\ files'[e].st = "torn"
    => \E w \in Workers : pc[w] = "open" /\ Entry(w) = e /\ job[w].mode # "new"

LEMMA OnlyWritersTouch ==
  ASSUME TInv, [Next]_vars, files' # files
  PROVE  \E w \in Workers : OpenEntry(w) \/ CloseEntry(w)
<1>1. PICK w \in Workers : Step(w) \/ WorkerError(w) \/ TearAppend(w)
  BY DEF Next, StartRun, RefuseRun, FinishRun, Signal, KillContainers, Crash, Redrive,
         Finished, vars, disk
<1>2. ~WorkerError(w) /\ ~TearAppend(w) BY DEF WorkerError, TearAppend, disk
<1>. QED BY <1>1, <1>2
     DEF Step, Take, Skip, Resolve, MetadataFails, FlagStale, VerifyExisting, RejectLate,
         ImageMissing, BuildImage, ImageResolved, Reproduce, Relock, RecordAttempts, Assemble,
         IndexEntry, IndexAttempts, RegenRead, RegenVerify, ReadTorn, Drop, Keep,
         AppendState, MirrorState, MirrorClass, disk

LEMMA OverwritesNothing ==
  ASSUME OneEntryEach, TInv, FInv, [Next]_vars, files' # files
  PROVE  Overwritten
<1>1. SUFFICES ASSUME NEW e \in EntryIds, ~ReassembleStale, files[e].st = "whole",
                      files'[e].st = "torn"
               PROVE  \E w \in Workers : pc[w] = "open" /\ Entry(w) = e /\ job[w].mode # "new"
  BY DEF Overwritten
<1>2. PICK w \in Workers : OpenEntry(w) \/ CloseEntry(w) BY OnlyWritersTouch
<1>3. pc[w] \in {"open", "close"} /\ \E f : files' = [files EXCEPT ![Entry(w)] = f]
  BY <1>2 DEF OpenEntry, CloseEntry, At
<1>4. Entry(w) = e BY <1>1, <1>3 DEF TInv, DiskOK
<1>5. FSafe(pc[w], job[w], buf[w], files[Entry(w)]) BY <1>3 DEF FInv
<1>6. pc[w] = "open" /\ job[w].mode # "new"
  BY <1>1, <1>3, <1>4, <1>5 DEF FSafe, Alone, Anew
<1>. QED BY <1>4, <1>6

\* Unless the operator passes --reassemble-stale, no assembly truncates an entry
\* that is there: what is opened for writing is an entry the same worker has
\* read and verified.  For candidates whose entries are their own.
THEOREM OverwritesOnlyVerified == OneEntryEach /\ Spec => NoSilentOverwrite
<1>. SUFFICES ASSUME OneEntryEach PROVE Spec => NoSilentOverwrite OBVIOUS
<1>1. Init => KInv /\ CInv /\ FInv BY KInit, CInit, FInit
<1>2. TInv /\ KInv /\ CInv /\ FInv /\ [Next]_vars => KInv' /\ CInv' /\ FInv'
  BY KNext, CNext, FNext
<1>3. TInv /\ FInv /\ [Next]_vars => [Overwritten]_files BY OverwritesNothing
<1>4. Overwritten <=>
        (\A e \in EntryIds :
          /\ ~ReassembleStale /\ files[e].st = "whole" /\ files'[e].st = "torn"
          => \E w \in Workers : pc[w] = "open" /\ Entry(w) = e /\ job[w].mode # "new")
  BY DEF Overwritten
<1>. QED BY <1>1, <1>2, <1>3, <1>4, TypesHold, PTL DEF Spec, NoSilentOverwrite

-----------------------------------------------------------------------------
(* SuccessHasEntry *)

LEMMA OnlyAppends ==
  ASSUME TInv, [Next]_vars
  PROVE  \/ UNCHANGED jsonl \/ (\E k \in Keys : Redrive(k))
         \/ \E w \in Workers : AppendState(w)
<1>1. CASE \E w \in Workers : Step(w) \/ WorkerError(w) \/ TearAppend(w)
  <2>1. PICK w \in Workers : Step(w) \/ WorkerError(w) \/ TearAppend(w) BY <1>1
  <2>2. CASE ReadTorn(w) \/ WorkerError(w) \/ TearAppend(w) BY <2>2, CarryError
  <2>3. CASE Take(w) \/ Skip(w) BY <2>3 DEF Take, Skip, disk
  <2>. QED BY <2>1, <2>2, <2>3, CarryStep DEF Carries
<1>. QED BY <1>1 DEF Next, StartRun, RefuseRun, FinishRun, Signal, KillContainers, Crash,
                     Redrive, Finished, vars, disk

LEMMA SuccessKept ==
  OneEntryEach /\ ListedOnce /\ TInv /\ CInv /\ FInv /\ SuccessHasEntry /\ [Next]_vars
    => SuccessHasEntry'
<1>. SUFFICES ASSUME OneEntryEach, ListedOnce, TInv, CInv, FInv, SuccessHasEntry, [Next]_vars,
                     NEW r \in jsonl', r.status \in TerminalSuccess
              PROVE  files'[r.entry].st = "whole"
  BY DEF SuccessHasEntry
<1>1. CASE r \in jsonl
  <2>1. files[r.entry].st = "whole" BY <1>1 DEF SuccessHasEntry
  <2>2. PICK l \in Lines : r.key = KeyOf[l] /\ r.entry = EntryOf[l]
    BY <1>1 DEF CInv, RInv
  <2>3. ASSUME NEW w \in Workers, OpenEntry(w) \/ CloseEntry(w)
        PROVE  files'[r.entry] = files[r.entry]
    <3>1. pc[w] \in {"open", "close"} /\ \E f : files' = [files EXCEPT ![Entry(w)] = f]
      BY <2>3 DEF OpenEntry, CloseEntry, At
    <3>2. ~OpenLine(l)
      BY <1>1, <2>2 DEF CInv, OInv, Final, Terminal
    <3>3. job[w].line # l
      BY <3>1, <3>2 DEF OpenLine, Unrecorded, PCs, Mirroring
    <3>4. job[w].line \in Lines BY <3>1, HasKey DEF TInv, Candidate
    <3>5. Entry(w) # r.entry BY <2>2, <3>3, <3>4 DEF OneEntryEach, Entry
    <3>6. r.entry \in EntryIds BY <1>1 DEF TInv, DiskOK, Record
    <3>. QED BY <3>1, <3>5, <3>6 DEF TInv, DiskOK
  <2>. QED BY <2>1, <2>3, OnlyWritersTouch
<1>2. CASE r \notin jsonl
  <2>1. PICK w \in Workers : AppendState(w) BY <1>2, OnlyAppends DEF Redrive
  <2>2. pc[w] = "append" /\ r = RecordOf(w) /\ files' = files
    BY <1>2, <2>1 DEF AppendState, At
  <2>3. r.status = job[w].status /\ r.entry = Entry(w) BY <2>2 DEF RecordOf
  <2>4. FSafe(pc[w], job[w], buf[w], files[Entry(w)]) BY <2>2 DEF FInv
  <2>. QED BY <2>2, <2>3, <2>4 DEF FSafe, Alone, Claiming, Claims
<1>. QED BY <1>1, <1>2

\* A candidate recorded as reproduced has its entry, complete, on disk, whatever
\* crashes, exceptions and torn writes came before or come after: every later
\* write of that file would be on behalf of its candidate, and a candidate with
\* a terminal record is not worked on again.  For candidates that share neither
\* key nor entry.
THEOREM SuccessesHaveEntries == OneEntryEach /\ ListedOnce /\ Spec => []SuccessHasEntry
<1>. SUFFICES ASSUME OneEntryEach, ListedOnce PROVE Spec => []SuccessHasEntry OBVIOUS
<1>1. Init => KInv /\ CInv /\ FInv BY KInit, CInit, FInit
<1>2. Init => SuccessHasEntry BY DEF Init, SuccessHasEntry
<1>3. TInv /\ KInv /\ CInv /\ FInv /\ [Next]_vars => KInv' /\ CInv' /\ FInv'
  BY KNext, CNext, FNext
<1>4. TInv /\ CInv /\ FInv /\ SuccessHasEntry /\ [Next]_vars => SuccessHasEntry'
  BY SuccessKept
<1>. QED BY <1>1, <1>2, <1>3, <1>4, TypesHold, PTL DEF Spec

-----------------------------------------------------------------------------
(* The abstract promise: Drive implements ResumableBatch *)

LEMMA PresenceStays ==
  ASSUME TInv, FInv, [Next]_vars, NEW e \in EntryIds, Present(e)
  PROVE  Present(e)'
<1>1. CASE files' = files BY <1>1 DEF Present
<1>2. CASE files' # files
  <2>1. PICK w \in Workers : OpenEntry(w) \/ CloseEntry(w) BY <1>2, OnlyWritersTouch
  <2>2. PICK f : /\ files' = [files EXCEPT ![Entry(w)] = f]
                 /\ f = Blank("torn") \/ (pc[w] = "close" /\ f = buf[w])
    BY <2>1 DEF OpenEntry, CloseEntry, At
  <2>3. f.st # "absent"
    <3>1. Blank("torn").st = "torn" BY DEF Blank
    <3>2. pc[w] = "close" => buf[w].st = "whole" BY DEF FInv, FSafe, Buffered
    <3>. QED BY <2>2, <3>1, <3>2
  <2>. QED BY <2>2, <2>3 DEF Present, TInv, DiskOK
<1>. QED BY <1>1, <1>2

\* What an append does to the outcomes.
LEMMA AppendSettles ==
  ASSUME ListedOnce, TInv, CInv, NEW w \in Workers, AppendState(w), NEW k, k = Key(w)
  PROVE  /\ k \in Keys /\ LastStatus(k) \notin Terminal
         /\ LastStatus(k)' = job[w].status
         /\ \A m \in Keys \ {k} : LastStatus(m)' = LastStatus(m)
<1>0. PICK r : r = RecordOf(w) OBVIOUS
<1>1. pc[w] = "append" /\ jsonl' = jsonl \cup {r} BY <1>0 DEF AppendState, At
<1>2. k \in Keys /\ job[w].line \in Lines BY <1>1, HasKey DEF TInv, Candidate
<1>3. \A q \in jsonl : q.seq \in Nat /\ q.seq <= appended
  BY DEF CInv, RInv, TInv, DiskOK, Record
<1>4. appended \in Nat BY DEF TInv, HistoryOK
<1>5. r.key = k /\ r.seq = appended + 1 /\ r.status = job[w].status
  BY <1>0 DEF RecordOf
<1>6. \A q \in jsonl : q.key = k => q.status \notin Terminal
  <2>1. OpenLine(job[w].line) BY <1>1 DEF OpenLine, Unrecorded, PCs, Mirroring
  <2>. QED BY <1>2, <2>1 DEF CInv, OInv, Final, Key
<1>7. LastStatus(k) \notin Terminal
  <2>1. CASE Recorded(k) = {}
    BY <2>1 DEF LastStatus, Terminal, TerminalSuccess, TerminalFailure
  <2>2. CASE Recorded(k) # {}
    <3>1. PICK q \in jsonl : q.key = k /\ LastOne(q)
      BY <2>2 DEF Recorded, CInv, RInv
    <3>2. LastStatus(k) = q.status BY <3>1, LastIs DEF CInv
    <3>. QED BY <1>6, <3>1, <3>2
  <2>. QED BY <2>1, <2>2
<1>8. LastStatus(k)' = job[w].status
  <2>1. Recorded(k)' = Recorded(k) \cup {r} BY <1>1, <1>5 DEF Recorded
  <2>2. PICK R : R = Recorded(k) \cup {r} OBVIOUS
  <2>3. \A q \in R : q.seq \in Nat /\ q.seq <= r.seq /\ (q.seq = r.seq => q = r)
    BY <1>3, <1>4, <1>5, <2>2 DEF Recorded
  <2>4. Last(R) = r BY <2>2, <2>3, LastOf
  <2>. QED BY <1>5, <2>1, <2>2, <2>4 DEF LastStatus
<1>9. ASSUME NEW m \in Keys \ {k} PROVE LastStatus(m)' = LastStatus(m)
  <2>1. Recorded(m)' = Recorded(m) BY <1>1, <1>5 DEF Recorded
  <2>. QED BY <2>1 DEF LastStatus
<1>. QED BY <1>2, <1>7, <1>8, <1>9

\* What the outcome of a record that claims a reproduction rests on.
LEMMA PromiseStep ==
  ListedOnce /\ TInv /\ KInv /\ CInv /\ FInv /\ [Next]_vars => [Promise!Next]_(Promise!vars)
<1>. SUFFICES ASSUME ListedOnce, TInv, KInv, CInv, FInv, [Next]_vars
              PROVE  [Promise!Next]_(Promise!vars)
  OBVIOUS
<1>. DEFINE outcome == [k \in Keys |-> LastStatus(k)]
            published == {k \in Keys : \E l \in Lines : KeyOf[l] = k /\ Present(EntryOf[l])}
<1>1. published \subseteq published'
  <2>1. \A l \in Lines : Present(EntryOf[l]) => Present(EntryOf[l])'
    BY PresenceStays, DriveAssumption
  <2>. QED BY <2>1
<1>2. CASE UNCHANGED jsonl
  <2>1. outcome' = outcome BY <1>2 DEF LastStatus, Recorded
  <2>2. published' = published \cup published' /\ published' \in SUBSET Keys BY <1>1
  <2>3. Promise!Publish BY <2>1, <2>2 DEF Promise!Publish
  <2>. QED BY <2>3 DEF Promise!Next
<1>3. ASSUME NEW k \in Keys, Redrive(k) PROVE Promise!Reopen(k)
  <2>1. jsonl' = jsonl \ Recorded(k) /\ files' = files BY <1>3 DEF Redrive
  <2>2. Recorded(k)' = {} BY <2>1 DEF Recorded
  <2>3. \A m \in Keys \ {k} : Recorded(m)' = Recorded(m) BY <2>1 DEF Recorded
  <2>4. outcome' = [outcome EXCEPT ![k] = "none"] BY <2>2, <2>3 DEF LastStatus
  <2>5. published' = published BY <2>1 DEF Present
  <2>. QED BY <2>4, <2>5 DEF Promise!Reopen
<1>4. ASSUME NEW w \in Workers, AppendState(w) PROVE \E k \in Keys : Promise!Settle(k)
  <2>0. PICK k : k = Key(w) OBVIOUS
  <2>1. /\ k \in Keys /\ LastStatus(k) \notin Terminal
        /\ LastStatus(k)' = job[w].status
        /\ \A m \in Keys \ {k} : LastStatus(m)' = LastStatus(m)
    BY <1>4, <2>0, AppendSettles
  <2>2. outcome' = [outcome EXCEPT ![k] = job[w].status] BY <2>1
  <2>3. pc[w] = "append" /\ files' = files BY <1>4 DEF AppendState, At
  <2>4. published' = published BY <2>3 DEF Present
  <2>5. job[w].status \in Terminal \cup TerminalFlaky
    BY <2>3 DEF TInv, JobsOK, Holds, Verdict, Statuses, Terminal
  <2>6. job[w].status \in TerminalSuccess \cup TerminalFlaky => k \in published
    <3>1. FSafe(pc[w], job[w], buf[w], files[Entry(w)]) BY <2>3 DEF FInv
    <3>2. job[w].status \in TerminalSuccess \cup TerminalFlaky => Present(Entry(w))
      BY <2>3, <3>1 DEF FSafe, Claiming, Claims, Present
    <3>3. job[w].line \in Lines BY <2>3, HasKey DEF TInv, Candidate
    <3>. QED BY <2>0, <2>1, <3>2, <3>3 DEF Key, Entry
  <2>7. outcome[k] \notin Terminal BY <2>1
  <2>8. Promise!Settle(k) BY <2>2, <2>4, <2>5, <2>6, <2>7 DEF Promise!Settle
  <2>. QED BY <2>1, <2>8
<1>5. \/ UNCHANGED jsonl \/ (\E k \in Keys : Redrive(k))
      \/ \E w \in Workers : AppendState(w)
  BY OnlyAppends
<1>. QED BY <1>2, <1>3, <1>4, <1>5 DEF Promise!Next

\* The driver implements the resumable batch: a settled outcome is never
\* revised, and an outcome that claims a reproduction comes after the entry, for
\* every pool of workers and every mixture of signals, crashes, exceptions, torn
\* appends, restarts and re-drives.  For candidates listed once.
THEOREM ImplementsTheBatch == ListedOnce /\ Spec => KeepsPromise
<1>. SUFFICES ASSUME ListedOnce PROVE Spec => KeepsPromise OBVIOUS
<1>1. Init => KInv /\ CInv /\ FInv BY KInit, CInit, FInit
<1>2. TInv /\ KInv /\ CInv /\ FInv /\ [Next]_vars => KInv' /\ CInv' /\ FInv'
  BY KNext, CNext, FNext
<1>3. Init => Promise!Init
  <2>. SUFFICES ASSUME Init PROVE Promise!Init OBVIOUS
  <2>1. \A k \in Keys : LastStatus(k) = "none" BY DEF Init, LastStatus, Recorded
  <2>. QED BY <2>1 DEF Promise!Init
<1>4. TInv /\ KInv /\ CInv /\ FInv /\ [Next]_vars => [Promise!Next]_(Promise!vars)
  BY PromiseStep
<1>. QED BY <1>1, <1>2, <1>3, <1>4, TypesHold, PTL DEF Spec, KeepsPromise, Promise!Safety

-----------------------------------------------------------------------------
(* MirrorComplete and TaxonomyWithStatus *)

Row(r) == <<RunIdOf(r.run), r.key>>

\* w is mirroring the record r.
Mirrors(w, r) ==
  /\ r.key = Key(w) /\ r.run = run /\ r.seq = job[w].seq
  /\ r.status = job[w].status /\ r.category = job[w].category
Underway(r) == \E w \in Workers : pc[w] \in Mirroring /\ job[w].seq = r.seq

Complete(r) ==
  \/ <<"mirror", r.seq>> \in lost \/ Underway(r)
  \/ dbState[Row(r)].seq > r.seq
  \/ dbState[Row(r)] = [status |-> r.status, seq |-> r.seq]
Together(r) ==
  r.category # "none" /\ dbState[Row(r)].seq = r.seq =>
    dbClass[Row(r)] = r.category \/ <<"mirrorclass", r.seq>> \in lost \/ Underway(r)

(***************************************************************************)
(* What is mirrored is a record of the state file; before the first        *)
(* statement no row is that record's, and between the two its first row    *)
(* is.  So a worker lost at either leaves exactly the rest unwritten, and  *)
(* any other record not mirrored is one whose worker is at it.             *)
(***************************************************************************)
RowAt(w) == dbState[<<RunIdOf(run), Key(w)>>]
LInv ==
  /\ \A r \in jsonl : RunIdOf(r.run) \in RunIds
  /\ \A w \in Workers : pc[w] \in Mirroring => \E r \in jsonl : Mirrors(w, r)
  /\ \A w \in Workers : pc[w] = "mirror" => RowAt(w).seq # job[w].seq
  /\ \A w \in Workers : pc[w] = "mirrorclass" =>
       RowAt(w) = [status |-> job[w].status, seq |-> job[w].seq]
  /\ \A r \in jsonl : (WithDb => Complete(r)) /\ Together(r)

\* A step beside the mirroring: nobody begins it, and who leaves it is lost.
LEMMA LQuiet ==
  ASSUME CInv, LInv, UNCHANGED <<jsonl, dbState, dbClass>>, lost \subseteq lost',
         \A w \in Workers : pc'[w] \in Mirroring =>
            pc'[w] = pc[w] /\ job'[w] = job[w] /\ run' = run,
         \A w \in Workers : pc[w] \in Mirroring =>
            (pc'[w] = pc[w] /\ job'[w] = job[w]) \/ <<pc[w], job[w].seq>> \in lost'
  PROVE  LInv'
<1>1. (\A r \in jsonl : RunIdOf(r.run) \in RunIds)' BY DEF LInv, RunIdOf, RunIds
<1>2. ASSUME NEW w \in Workers, pc'[w] \in Mirroring
      PROVE  \E r \in jsonl' : Mirrors(w, r)'
  <2>1. PICK r \in jsonl : Mirrors(w, r) BY <1>2 DEF LInv
  <2>. QED BY <1>2, <2>1 DEF Mirrors, Key
<1>3. ASSUME NEW w \in Workers, pc'[w] \in Mirroring PROVE RowAt(w)' = RowAt(w)
  <2>1. Key(w)' = Key(w) /\ RunIdOf(run)' = RunIdOf(run) BY <1>3 DEF Key, RunIdOf
  <2>. QED BY <2>1 DEF RowAt
<1>4. ASSUME NEW w \in Workers, pc'[w] = "mirror" PROVE (RowAt(w).seq # job[w].seq)'
  <2>1. pc[w] = "mirror" /\ job'[w] = job[w] BY <1>4 DEF Mirroring
  <2>. QED BY <1>3, <1>4, <2>1 DEF LInv, Mirroring
<1>5. ASSUME NEW w \in Workers, pc'[w] = "mirrorclass"
      PROVE  (RowAt(w) = [status |-> job[w].status, seq |-> job[w].seq])'
  <2>1. pc[w] = "mirrorclass" /\ job'[w] = job[w] BY <1>5 DEF Mirroring
  <2>. QED BY <1>3, <1>5, <2>1 DEF LInv, Mirroring
<1>6. ASSUME NEW r \in jsonl PROVE (WithDb => Complete(r))' /\ Together(r)'
  <2>1. (WithDb => Complete(r)) /\ Together(r) BY DEF LInv
  <2>2. Row(r)' = Row(r) BY DEF Row, RunIdOf
  <2>3. CASE ~Underway(r) \/ Underway(r)'
    BY <2>1, <2>2, <2>3 DEF Complete, Together
  <2>4. CASE Underway(r) /\ ~Underway(r)'
    <3>1. PICK w \in Workers : pc[w] \in Mirroring /\ job[w].seq = r.seq
      BY <2>4 DEF Underway
    <3>2. PICK q \in jsonl : Mirrors(w, q) BY <3>1 DEF LInv
    <3>3. q = r BY <3>1, <3>2 DEF Mirrors, CInv, RInv
    <3>4. Row(r) = <<RunIdOf(run), Key(w)>> BY <3>2, <3>3 DEF Mirrors, Row
    <3>5. <<pc[w], r.seq>> \in lost' BY <2>4, <3>1 DEF Underway
    <3>6. CASE pc[w] = "mirror"
      <4>1. dbState[Row(r)].seq # r.seq BY <3>1, <3>4, <3>6 DEF LInv, RowAt
      <4>. QED BY <2>2, <3>5, <3>6, <4>1 DEF Complete, Together
    <3>7. CASE pc[w] = "mirrorclass"
      <4>1. dbState[Row(r)] = [status |-> r.status, seq |-> r.seq]
        BY <3>2, <3>3, <3>4, <3>7 DEF LInv, RowAt, Mirrors
      <4>. QED BY <2>2, <3>5, <3>7, <4>1 DEF Complete, Together
    <3>. QED BY <3>1, <3>6, <3>7 DEF Mirroring
  <2>. QED BY <2>3, <2>4
<1>. QED BY <1>1, <1>2, <1>4, <1>5, <1>6 DEF LInv

LEMMA Rows == ASSUME TInv, LInv, NEW r \in jsonl PROVE Row(r) \in RunIds \X Keys
BY DEF LInv, Row, TInv, DiskOK, Record

\* Where the record of a worker at work goes.
LEMMA RowOfWorker ==
  ASSUME TInv, NEW w \in Workers, pc[w] # "idle", driver = "running"
  PROVE  <<RunIdOf(run), Key(w)>> \in RunIds \X Keys
BY HasKey, HasRunId DEF TInv

\* state_lock admits one worker to the mirroring, with the last record.
LEMMA OneMirrors ==
  ASSUME TInv, MInv, CInv, LInv, NEW w \in Workers, pc[w] \in Mirroring
  PROVE  /\ \A v \in Workers : pc[v] \in Mirroring => v = w
         /\ \E r \in jsonl : /\ Mirrors(w, r) /\ Row(r) = <<RunIdOf(run), Key(w)>>
                             /\ \A q \in jsonl : q.seq <= r.seq
                             /\ \A p \in jsonl : Underway(p) => p = r
<1>1. \A v \in Workers : pc[v] \in Mirroring => v = w BY DEF MInv, Mirroring
<1>2. PICK r \in jsonl : Mirrors(w, r) BY DEF LInv
<1>3. r.seq = appended /\ job[w].seq = r.seq BY <1>2 DEF Mirrors, MInv, Mirroring
<1>4. \A q \in jsonl : q.seq <= r.seq BY <1>3 DEF CInv, RInv
<1>5. ASSUME NEW q \in jsonl, Underway(q) PROVE q = r
  <2>1. q.seq = r.seq BY <1>1, <1>3, <1>5 DEF Underway
  <2>. QED BY <2>1 DEF CInv, RInv
<1>6. Row(r) = <<RunIdOf(run), Key(w)>> BY <1>2 DEF Mirrors, Row
<1>. QED BY <1>1, <1>2, <1>4, <1>5, <1>6

\* The record appended is underway, or there is no mirror.
LEMMA LAppend ==
  ASSUME TInv, MInv, CInv, LInv, NEW w \in Workers, AppendState(w)
  PROVE  LInv'
<1>0. PICK r : r = RecordOf(w) OBVIOUS
<1>1. /\ pc[w] = "append" /\ driver = "running" /\ jsonl' = jsonl \cup {r}
      /\ stateLock = NoWorker /\ UNCHANGED <<run, dbState, dbClass, lost>>
  BY <1>0 DEF AppendState, At, Scheduled, counters, db
<1>2. \A v \in Workers : pc[v] \notin Mirroring
  BY <1>1, DriveAssumption DEF MInv, Mirroring
<1>3. r.run = run /\ r.key = Key(w) /\ r.seq = appended + 1 BY <1>0 DEF RecordOf
<1>4. Row(r) \in RunIds \X Keys BY <1>1, <1>3, RowOfWorker DEF Row
<1>5. \A v \in Workers \ {w} : pc'[v] = pc[v]
  BY DEF AppendState, Goto, TInv, JobsOK
<1>6. WithDb => /\ pc'[w] = "mirror" /\ job'[w].seq = r.seq /\ Mirrors(w, r)'
  <2>. DEFINE j == [job[w] EXCEPT !.seq = appended + 1]
  <2>1. /\ j.line = job[w].line /\ j.status = job[w].status
        /\ j.category = job[w].category /\ j.seq = appended + 1
    BY DEF TInv, JobsOK, Job
  <2>2. WithDb => pc'[w] = "mirror" /\ job'[w] = j
    BY DEF AppendState, Goto, TInv, JobsOK
  <2>. HIDE DEF j
  <2>3. WithDb => Key(w)' = Key(w) BY <2>1, <2>2 DEF Key
  <2>. QED BY <1>0, <1>1, <1>3, <2>1, <2>2, <2>3 DEF Mirrors, RecordOf
<1>7. ~WithDb => pc'[w] = "idle" BY DEF AppendState, Goto, TInv, JobsOK
<1>8. (\A q \in jsonl : RunIdOf(q.run) \in RunIds)'
  BY <1>1, <1>4 DEF LInv, Row, RunIdOf, RunIds
<1>9. r.seq # dbState[Row(r)].seq
  <2>1. dbState[Row(r)].seq <= appended BY <1>4 DEF MInv
  <2>2. dbState[Row(r)].seq \in Nat BY <1>4 DEF TInv, DbOK
  <2>. QED BY <1>3, <2>1, <2>2 DEF TInv, HistoryOK
<1>10. ASSUME NEW v \in Workers, pc'[v] \in Mirroring
       PROVE  /\ pc'[v] = "mirror" /\ \E q \in jsonl' : Mirrors(v, q)'
              /\ (RowAt(v).seq # job[v].seq)'
  <2>1. v = w /\ WithDb BY <1>2, <1>5, <1>7, <1>10 DEF Mirroring
  <2>2. Row(r) = <<RunIdOf(run), Key(w)>>' BY <1>6, <2>1 DEF Mirrors, Row
  <2>. QED BY <1>1, <1>6, <1>9, <2>1, <2>2 DEF RowAt
<1>11. ASSUME NEW q \in jsonl' PROVE (WithDb => Complete(q))' /\ Together(q)'
  <2>1. Row(q)' = Row(q) BY DEF Row, RunIdOf
  <2>2. CASE q \in jsonl
    <3>1. (WithDb => Complete(q)) /\ Together(q) BY <2>2 DEF LInv
    <3>2. ~Underway(q) BY <1>2 DEF Underway
    <3>. QED BY <1>1, <2>1, <3>1, <3>2 DEF Complete, Together
  <2>3. CASE q = r
    <3>1. WithDb => Underway(q)' BY <1>6, <2>3 DEF Underway, Mirroring
    <3>. QED BY <1>1, <1>9, <2>1, <2>3, <3>1 DEF Complete, Together
  <2>. QED BY <1>1, <2>2, <2>3
<1>12. (\A v \in Workers : pc[v] \in Mirroring => \E q \in jsonl : Mirrors(v, q))' BY <1>10
<1>13. /\ (\A v \in Workers : pc[v] # "mirrorclass")'
       /\ (\A v \in Workers : pc[v] = "mirror" => RowAt(v).seq # job[v].seq)'
  BY <1>10 DEF Mirroring
<1>. QED BY <1>8, <1>11, <1>12, <1>13 DEF LInv

\* The first row.
LEMMA LMirror ==
  ASSUME TInv, MInv, CInv, LInv, NEW w \in Workers, MirrorState(w)
  PROVE  LInv'
<1>. DEFINE x == <<RunIdOf(run), Key(w)>>
<1>1. pc[w] = "mirror" /\ driver = "running" /\ UNCHANGED <<jsonl, run, dbClass, lost>>
  BY DEF MirrorState, At, Scheduled, disk, counters, history
<1>2. PICK r \in jsonl : /\ Mirrors(w, r) /\ Row(r) = x
                        /\ \A q \in jsonl : q.seq <= r.seq
                        /\ \A p \in jsonl : Underway(p) => p = r
  BY <1>1, OneMirrors DEF Mirroring
<1>3. \A v \in Workers : pc[v] \in Mirroring => v = w BY <1>1, OneMirrors DEF Mirroring
<1>4. dbState' = [dbState EXCEPT ![Row(r)] = [status |-> r.status, seq |-> r.seq]]
  BY <1>2 DEF MirrorState, Mirrors
<1>5. Row(r) \in RunIds \X Keys BY <1>2, Rows
<1>6. \A v \in Workers \ {w} : pc'[v] = pc[v]
  BY DEF MirrorState, Goto, TInv, JobsOK
<1>7. IF r.category = "none" THEN pc'[w] = "idle"
      ELSE pc'[w] = "mirrorclass" /\ job'[w] = job[w]
  BY <1>2 DEF MirrorState, Mirrors, Goto, TInv, JobsOK
<1>8. (\A q \in jsonl : RunIdOf(q.run) \in RunIds)' BY <1>1 DEF LInv, RunIdOf, RunIds
<1>9. ASSUME NEW v \in Workers, pc'[v] \in Mirroring
      PROVE  /\ pc'[v] = "mirrorclass" /\ \E q \in jsonl' : Mirrors(v, q)'
             /\ (RowAt(v) = [status |-> job[v].status, seq |-> job[v].seq])'
  <2>1. v = w /\ job'[w] = job[w] /\ pc'[w] = "mirrorclass"
    BY <1>3, <1>6, <1>7, <1>9 DEF Mirroring
  <2>2. Mirrors(w, r)' BY <1>1, <1>2, <2>1 DEF Mirrors, Key
  <2>3. <<RunIdOf(run), Key(w)>>' = Row(r)
    BY <1>1, <1>2, <2>1 DEF RunIdOf, Key
  <2>4. dbState'[Row(r)] = [status |-> job[w].status, seq |-> job[w].seq]
    BY <1>2, <1>4, <1>5 DEF TInv, DbOK, Mirrors
  <2>. QED BY <1>1, <1>2, <2>1, <2>2, <2>3, <2>4 DEF RowAt
<1>10. ASSUME NEW q \in jsonl PROVE (WithDb => Complete(q))' /\ Together(q)'
  <2>1. Row(q)' = Row(q) /\ Row(q) \in RunIds \X Keys BY Rows DEF Row, RunIdOf
  <2>2. (WithDb => Complete(q)) /\ Together(q) BY <1>10 DEF LInv
  <2>3. CASE Row(q) # Row(r)
    <3>1. ~Underway(q) BY <1>2, <2>3
    <3>2. dbState'[Row(q)] = dbState[Row(q)] BY <1>4, <2>1, <2>3 DEF TInv, DbOK
    <3>. QED BY <1>1, <2>1, <2>2, <3>1, <3>2 DEF Complete, Together
  <2>4. CASE Row(q) = Row(r) /\ q # r
    <3>1. q.seq # r.seq BY <1>2, <2>4 DEF CInv, RInv
    <3>2. r.seq > q.seq BY <1>2, <3>1 DEF TInv, DiskOK, Record
    <3>3. dbState'[Row(q)].seq = r.seq BY <1>4, <1>5, <2>4 DEF TInv, DbOK
    <3>. QED BY <2>1, <3>1, <3>2, <3>3 DEF Complete, Together
  <2>5. CASE q = r
    <3>1. dbState'[Row(q)] = [status |-> q.status, seq |-> q.seq]
      BY <1>4, <1>5, <2>5 DEF TInv, DbOK
    <3>2. q.category # "none" => Underway(q)'
      BY <1>2, <1>7, <2>5 DEF Underway, Mirroring, Mirrors
    <3>. QED BY <2>1, <3>1, <3>2 DEF Complete, Together
  <2>. QED BY <2>3, <2>4, <2>5
<1>11. (\A v \in Workers : pc[v] \in Mirroring => \E q \in jsonl : Mirrors(v, q))' BY <1>9
<1>12. /\ (\A v \in Workers : pc[v] = "mirrorclass" =>
              RowAt(v) = [status |-> job[v].status, seq |-> job[v].seq])'
       /\ (\A v \in Workers : pc[v] # "mirror")'
  BY <1>9 DEF Mirroring
<1>. QED BY <1>1, <1>8, <1>10, <1>11, <1>12 DEF LInv

\* The second one.
LEMMA LClass ==
  ASSUME TInv, MInv, CInv, LInv, NEW w \in Workers, MirrorClass(w)
  PROVE  LInv'
<1>. DEFINE x == <<RunIdOf(run), Key(w)>>
<1>1. pc[w] = "mirrorclass" /\ driver = "running" /\ UNCHANGED <<jsonl, run, dbState, lost>>
  BY DEF MirrorClass, At, Scheduled, disk, counters, history
<1>2. PICK r \in jsonl : /\ Mirrors(w, r) /\ Row(r) = x
                        /\ \A q \in jsonl : q.seq <= r.seq
                        /\ \A p \in jsonl : Underway(p) => p = r
  BY <1>1, OneMirrors DEF Mirroring
<1>3. \A v \in Workers : pc[v] \in Mirroring => v = w BY <1>1, OneMirrors DEF Mirroring
<1>4. dbClass' = [dbClass EXCEPT ![Row(r)] = r.category]
  BY <1>2 DEF MirrorClass, Mirrors
<1>5. dbState[Row(r)] = [status |-> r.status, seq |-> r.seq]
  BY <1>1, <1>2 DEF LInv, Mirrors, RowAt
<1>6. \A v \in Workers : pc'[v] \notin Mirroring
  BY <1>3 DEF MirrorClass, Goto, TInv, JobsOK, Mirroring
<1>7. (\A q \in jsonl : RunIdOf(q.run) \in RunIds)' BY <1>1 DEF LInv, RunIdOf, RunIds
<1>8. ASSUME NEW q \in jsonl PROVE (WithDb => Complete(q))' /\ Together(q)'
  <2>1. Row(q)' = Row(q) /\ Row(q) \in RunIds \X Keys BY Rows DEF Row, RunIdOf
  <2>2. (WithDb => Complete(q)) /\ Together(q) BY <1>8 DEF LInv
  <2>4. CASE q # r
    <3>1. ~Underway(q) BY <1>2, <2>4
    <3>2. q.seq # r.seq BY <2>4 DEF CInv, RInv
    <3>3. dbClass'[Row(q)] = dbClass[Row(q)] \/ Row(q) = Row(r)
      BY <1>4, <2>1 DEF TInv, DbOK
    <3>. QED BY <1>1, <1>5, <2>1, <2>2, <3>1, <3>2, <3>3 DEF Complete, Together
  <2>5. CASE q = r
    <3>1. dbClass'[Row(q)] = q.category BY <1>4, <2>1, <2>5 DEF TInv, DbOK
    <3>. QED BY <1>1, <1>5, <2>1, <2>5, <3>1 DEF Complete, Together
  <2>. QED BY <2>4, <2>5
<1>9. (\A v \in Workers : pc[v] \notin Mirroring)' BY <1>6 DEF Mirroring
<1>. QED BY <1>1, <1>7, <1>8, <1>9 DEF LInv, Mirroring

\* The operator takes all records of a key; nobody is mirroring.
LEMMA LRedrive == ASSUME TInv, KInv, LInv, NEW k \in Keys, Redrive(k) PROVE LInv'
<1>1. /\ jsonl' = jsonl \ Recorded(k) /\ driver = "down"
      /\ UNCHANGED <<dbState, dbClass, run, pc, job, lost>>
  BY DEF Redrive, db, threads, history
<1>2. \A w \in Workers : pc[w] = "idle" BY <1>1 DEF KInv
<1>3. ASSUME NEW q \in jsonl' PROVE (WithDb => Complete(q))' /\ Together(q)'
  <2>1. (WithDb => Complete(q)) /\ Together(q) /\ ~Underway(q)
    BY <1>1, <1>2 DEF LInv, Underway, Mirroring
  <2>2. Row(q)' = Row(q) BY DEF Row, RunIdOf
  <2>. QED BY <1>1, <2>1, <2>2 DEF Complete, Together
<1>4. (\A q \in jsonl : RunIdOf(q.run) \in RunIds)' BY <1>1 DEF LInv, RunIdOf, RunIds
<1>5. (\A w \in Workers : pc[w] = "idle")' BY <1>1, <1>2
<1>. QED BY <1>3, <1>4, <1>5 DEF LInv, Mirroring

\* The steps of a worker that is not mirroring and does not begin to.
LEMMA LBeside ==
  ASSUME TInv, CInv, LInv, NEW w \in Workers, Step(w),
         ~AppendState(w), ~MirrorState(w), ~MirrorClass(w), ~ReadTorn(w)
  PROVE  LInv'
<1>1. /\ UNCHANGED <<jsonl, dbState, dbClass, run, lost>> /\ pc[w] \notin Mirroring
  BY DEF Step, Take, Skip, Resolve, MetadataFails, FlagStale, VerifyExisting, RejectLate,
         ImageMissing, BuildImage, ImageResolved, Reproduce, Relock, RecordAttempts, Assemble,
         OpenEntry, CloseEntry, IndexEntry, IndexAttempts, RegenRead, RegenVerify, Drop, Keep,
         At, disk, db, counters, history, Mirroring
<1>2. CASE Skip(w)
  <2>1. UNCHANGED <<pc, job>> BY <1>2 DEF Skip, threads
  <2>. QED BY <1>1, <2>1, LQuiet
<1>3. CASE ~Skip(w)
  <2>1. Elsewhere(w) BY <1>3, MStep DEF Step
  <2>2. PICK p \in PCs \ Mirroring : pc' = [pc EXCEPT ![w] = p] BY <2>1 DEF Elsewhere, Goto
  <2>3. PICK j : job' = [job EXCEPT ![w] = j] BY <2>1 DEF Elsewhere
  <2>4. /\ pc'[w] \notin Mirroring
        /\ \A v \in Workers \ {w} : pc'[v] = pc[v] /\ job'[v] = job[v]
    BY <2>2, <2>3 DEF TInv, JobsOK
  <2>. QED BY <1>1, <2>4, LQuiet
<1>. QED BY <1>2, <1>3

\* Who raises while mirroring, and whoever is mirroring when the process goes
\* down, is lost.
LEMMA LLoses ==
  ASSUME CInv, LInv, LoseProcess, UNCHANGED <<jsonl, dbState, dbClass>>
  PROVE  LInv'
<1>1. \A w \in Workers : pc'[w] \notin Mirroring BY DEF LoseProcess, Mirroring
<1>2. /\ lost \subseteq lost'
      /\ \A w \in Workers : pc[w] \in Mirroring => <<pc[w], job[w].seq>> \in lost'
  BY DEF LoseProcess, Losing, Mirroring
<1>. QED BY <1>1, <1>2, LQuiet

LEMMA LError ==
  ASSUME TInv, CInv, LInv, NEW w \in Workers,
         ReadTorn(w) \/ WorkerError(w) \/ TearAppend(w)
  PROVE  LInv'
<1>1. UNCHANGED <<jsonl, dbState, dbClass, run>>
  BY DEF ReadTorn, WorkerError, TearAppend, disk, db, counters
<1>2. CASE LoseProcess BY <1>1, <1>2, LLoses
<1>3. CASE ~LoseProcess
  <2>1. Raise(w) /\ ~Serial BY <1>3 DEF ReadTorn, WorkerError, TearAppend, Raise
  <2>2. /\ pc'[w] = "idle"
        /\ \A v \in Workers \ {w} : pc'[v] = pc[v] /\ job'[v] = job[v]
    BY <2>1 DEF Raise, Goto, TInv, JobsOK
  <2>3. /\ lost \subseteq lost'
        /\ pc[w] \in Mirroring => <<pc[w], job[w].seq>> \in lost'
    BY <2>1 DEF Raise, Losing, Mirroring
  <2>. QED BY <1>1, <2>2, <2>3, LQuiet DEF Mirroring
<1>. QED BY <1>2, <1>3

LEMMA LInit == Init => LInv
BY DEF Init, LInv, Mirroring

LEMMA LNext == TInv /\ KInv /\ MInv /\ CInv /\ LInv /\ [Next]_vars => LInv'
<1>. SUFFICES ASSUME TInv, KInv, MInv, CInv, LInv, [Next]_vars PROVE LInv' OBVIOUS
<1>1. CASE RefuseRun \/ FinishRun \/ Signal \/ KillContainers \/ StartRun \/ Finished
           \/ UNCHANGED vars
  <2>1. UNCHANGED <<jsonl, dbState, dbClass, pc, job, lost>>
    BY <1>1 DEF RefuseRun, FinishRun, Signal, KillContainers, StartRun, Finished, vars,
                disk, db, threads, history
  <2>2. run' = run \/ \A w \in Workers : pc[w] = "idle"
    BY <1>1 DEF RefuseRun, FinishRun, Signal, KillContainers, StartRun, Finished, vars,
                counters, KInv
  <2>. QED BY <2>1, <2>2, LQuiet DEF Mirroring
<1>2. CASE Crash BY <1>2, LLoses DEF Crash, disk, db
<1>3. CASE \E k \in Keys : Redrive(k) BY <1>3, LRedrive
<1>4. CASE \E w \in Workers : Step(w) \/ WorkerError(w) \/ TearAppend(w)
  BY <1>4, LBeside, LError, LAppend, LMirror, LClass
<1>. QED BY <1>1, <1>2, <1>3, <1>4 DEF Next

LEMMA NobodyMirrors ==
  ASSUME MInv, stateLock = NoWorker, NEW r PROVE ~Underway(r)
BY DriveAssumption DEF MInv, Underway, Mirroring

\* Between critical sections the row of a run id and key is that of its last line,
\* wherever workers raise, the process dies, signals fall and runs start again:
\* the one record that can miss its row is the one a lost worker was about to
\* mirror.
THEOREM MirrorsEverything == Spec => []MirrorComplete
<1>1. Init => KInv /\ MInv /\ CInv /\ LInv BY KInit, MInit, CInit, LInit
<1>2. TInv /\ KInv /\ MInv /\ CInv /\ LInv /\ [Next]_vars => KInv' /\ MInv' /\ CInv' /\ LInv'
  BY KNext, MNext, CNext, LNext
<1>3. MInv /\ LInv => MirrorComplete
  <2>. SUFFICES ASSUME MInv, LInv, WithDb, stateLock = NoWorker, NEW r \in jsonl,
                       <<"mirror", r.seq>> \notin lost
                PROVE  \/ dbState[<<RunIdOf(r.run), r.key>>].seq > r.seq
                       \/ dbState[<<RunIdOf(r.run), r.key>>] =
                            [status |-> r.status, seq |-> r.seq]
    BY DEF MirrorComplete
  <2>1. Complete(r) /\ ~Underway(r) BY NobodyMirrors DEF LInv
  <2>. QED BY <2>1 DEF Complete, Row
<1>. QED BY <1>1, <1>2, <1>3, TypesHold, PTL DEF Spec

\* ... and beside it stands the record's own category, though the two rows are
\* two statements that commit one by one: only the worker lost between them
\* leaves a classified failure without its second row, or with an earlier one's.
THEOREM RowsAppearTogether == Spec => []TaxonomyWithStatus
<1>1. Init => KInv /\ MInv /\ CInv /\ LInv BY KInit, MInit, CInit, LInit
<1>2. TInv /\ KInv /\ MInv /\ CInv /\ LInv /\ [Next]_vars => KInv' /\ MInv' /\ CInv' /\ LInv'
  BY KNext, MNext, CNext, LNext
<1>3. MInv /\ LInv => TaxonomyWithStatus
  <2>1. ASSUME MInv, LInv, stateLock = NoWorker, NEW r \in jsonl PROVE Together(r) /\ ~Underway(r)
    BY <2>1, NobodyMirrors DEF LInv
  <2>. QED BY <2>1 DEF TaxonomyWithStatus, Together, Row
<1>. QED BY <1>1, <1>2, <1>3, TypesHold, PTL DEF Spec

-----------------------------------------------------------------------------
(* TaxonomyOnlyOfFailures *)

\* No candidate is done twice under one run id.
OneDrive == ListedOnce /\ (MaxRedrives = 0 \/ ~SameRunId)

(***************************************************************************)
(* No row belongs to a run yet to come, and a row of the run at hand is of *)
(* a key with a record: which is terminal, so that its row stays.          *)
(***************************************************************************)
XInv ==
  /\ \A x \in RunIds \X Keys : ~SameRunId /\ x[1] > run => dbClass[x] = "none"
  /\ OneDrive =>
       /\ TaxonomyOnlyOfFailures
       /\ \A x \in RunIds \X Keys :
            dbClass[x] # "none" /\ x[1] = RunIdOf(run) /\ (driver = "running" \/ SameRunId) =>
              \E r \in jsonl : r.key = x[2] /\ r.status = "not_reproducible"

\* A step that writes no row, takes no record and starts no run.
LEMMA XQuiet ==
  ASSUME XInv, UNCHANGED <<dbState, dbClass, run>>, jsonl \subseteq jsonl',
         driver' \in {driver, "down"}
  PROVE  XInv'
<1>1. TaxonomyOnlyOfFailures => TaxonomyOnlyOfFailures' BY DEF TaxonomyOnlyOfFailures
<1>2. RunIdOf(run)' = RunIdOf(run) BY DEF RunIdOf
<1>. QED BY <1>1, <1>2 DEF XInv

\* A new run id has no rows; an old one keeps its records.
LEMMA XRun ==
  ASSUME TInv, XInv, UNCHANGED <<dbState, dbClass, jsonl>>, run' = run + 1, driver = "down"
  PROVE  XInv'
<1>1. TaxonomyOnlyOfFailures => TaxonomyOnlyOfFailures' BY DEF TaxonomyOnlyOfFailures
<1>2. run \in Nat BY DEF TInv, CountersOK
<1>3. CASE SameRunId
  <2>1. RunIdOf(run)' = RunIdOf(run) BY <1>3 DEF RunIdOf
  <2>. QED BY <1>1, <1>3, <2>1 DEF XInv
<1>4. CASE ~SameRunId
  <2>1. RunIdOf(run)' = run + 1 BY <1>4 DEF RunIdOf
  <2>2. \A x \in RunIds \X Keys : x[1] \in Nat BY DEF RunIds
  <2>3. ASSUME NEW x \in RunIds \X Keys, x[1] >= run + 1 PROVE dbClass[x] = "none"
    BY <1>2, <1>4, <2>2, <2>3 DEF XInv
  <2>4. ASSUME NEW x \in RunIds \X Keys, x[1] > run + 1 \/ x[1] = run + 1
        PROVE  dbClass'[x] = "none"
    BY <1>2, <2>2, <2>3, <2>4
  <2>. QED BY <1>1, <2>1, <2>4 DEF XInv
<1>. QED BY <1>3, <1>4

LEMMA XRedrive == ASSUME TInv, XInv, NEW k \in Keys, Redrive(k) PROVE XInv'
<1>1. /\ UNCHANGED <<dbState, dbClass, run, driver>> /\ driver = "down"
      /\ redrives < MaxRedrives
  BY DEF Redrive, db, process
<1>2. OneDrive => ~SameRunId BY <1>1, DriveAssumption DEF OneDrive, TInv, CountersOK
<1>3. TaxonomyOnlyOfFailures => TaxonomyOnlyOfFailures' BY <1>1 DEF TaxonomyOnlyOfFailures
<1>. QED BY <1>1, <1>2, <1>3 DEF XInv

\* A row of a classified key is only written again by its own record.
LEMMA XMirror ==
  ASSUME TInv, MInv, CInv, LInv, XInv, NEW w \in Workers, MirrorState(w)
  PROVE  XInv'
<1>1. pc[w] = "mirror" /\ driver = "running" /\ UNCHANGED <<jsonl, run, dbClass, driver>>
  BY DEF MirrorState, At, Scheduled, disk, counters, process
<1>2. PICK r \in jsonl : /\ Mirrors(w, r) /\ Row(r) = <<RunIdOf(run), Key(w)>>
                        /\ \A q \in jsonl : q.seq <= r.seq
  BY <1>1, OneMirrors DEF Mirroring
<1>3. dbState' = [dbState EXCEPT ![Row(r)] = [status |-> r.status, seq |-> r.seq]]
  BY <1>2 DEF MirrorState, Mirrors
<1>4. Row(r) \in RunIds \X Keys BY <1>2, Rows
<1>5. ASSUME OneDrive, dbClass[Row(r)] # "none" PROVE r.status = "not_reproducible"
  <2>1. PICK q \in jsonl : q.key = r.key /\ q.status = "not_reproducible"
    BY <1>1, <1>2, <1>4, <1>5 DEF XInv, Row
  <2>2. "not_reproducible" \in Terminal BY DEF Terminal, TerminalFailure
  <2>3. LastOne(q) BY <1>5, <2>1, <2>2 DEF OneDrive, CInv, OInv, Final
  <2>4. q.seq = r.seq
    <3>1. q.seq <= r.seq /\ r.seq <= q.seq BY <1>2, <2>1, <2>3 DEF LastOne
    <3>. QED BY <3>1 DEF TInv, DiskOK, Record
  <2>. QED BY <2>1, <2>4 DEF CInv, RInv
<1>6. OneDrive => TaxonomyOnlyOfFailures'
  <2>1. ASSUME OneDrive, NEW x \in RunIds \X Keys, dbClass[x] # "none"
        PROVE  dbState'[x].status = "not_reproducible"
    <3>1. CASE x = Row(r) BY <1>3, <1>4, <1>5, <2>1, <3>1 DEF TInv, DbOK
    <3>2. CASE x # Row(r)
      <4>1. dbState'[x] = dbState[x] BY <1>3, <2>1, <3>2 DEF TInv, DbOK
      <4>. QED BY <2>1, <4>1 DEF XInv, TaxonomyOnlyOfFailures, TInv, DbOK
    <3>. QED BY <3>1, <3>2
  <2>2. DOMAIN dbClass' = RunIds \X Keys BY <1>1 DEF TInv, DbOK
  <2>. QED BY <1>1, <2>1, <2>2 DEF TaxonomyOnlyOfFailures
<1>7. RunIdOf(run)' = RunIdOf(run) BY <1>1 DEF RunIdOf
<1>. QED BY <1>1, <1>6, <1>7 DEF XInv

\* The category written is that of a record that failed to reproduce.
LEMMA XClass ==
  ASSUME TInv, MInv, CInv, FInv, LInv, XInv, NEW w \in Workers, MirrorClass(w)
  PROVE  XInv'
<1>1. pc[w] = "mirrorclass" /\ driver = "running" /\ UNCHANGED <<jsonl, run, dbState, driver>>
  BY DEF MirrorClass, At, Scheduled, disk, counters, process
<1>2. PICK r \in jsonl : Mirrors(w, r) /\ Row(r) = <<RunIdOf(run), Key(w)>>
  BY <1>1, OneMirrors DEF Mirroring
<1>3. dbClass' = [dbClass EXCEPT ![Row(r)] = r.category]
  BY <1>2 DEF MirrorClass, Mirrors
<1>4. Row(r) \in RunIds \X Keys BY <1>2, Rows
<1>5. r.category # "none" => r.status = "not_reproducible"
  BY <1>1, <1>2 DEF FInv, FSafe, Classified, Mirrors
<1>6. dbState[Row(r)].status = r.status
  <2>1. dbState[<<RunIdOf(run), Key(w)>>] = [status |-> job[w].status, seq |-> job[w].seq]
    BY <1>1 DEF LInv, RowAt
  <2>2. dbState[Row(r)] = [status |-> job[w].status, seq |-> job[w].seq] BY <1>2, <2>1
  <2>3. r.status = job[w].status BY <1>2 DEF Mirrors
  <2>. QED BY <2>2, <2>3
<1>7. \A x \in RunIds \X Keys :
        dbClass'[x] = dbClass[x] \/ (x = Row(r) /\ dbClass'[x] = r.category)
  BY <1>3 DEF TInv, DbOK
<1>8. OneDrive => TaxonomyOnlyOfFailures'
  <2>1. DOMAIN dbClass' = RunIds \X Keys /\ DOMAIN dbClass = RunIds \X Keys
    BY <1>3 DEF TInv, DbOK
  <2>. QED BY <1>1, <1>5, <1>6, <1>7, <2>1 DEF XInv, TaxonomyOnlyOfFailures
<1>9. RunIdOf(run)' = RunIdOf(run) BY <1>1 DEF RunIdOf
<1>10. ASSUME ~SameRunId, NEW x \in RunIds \X Keys, x[1] > run PROVE dbClass'[x] = "none"
  <2>1. Row(r)[1] = run BY <1>2, <1>10 DEF Row, RunIdOf
  <2>2. x # Row(r) BY <1>10, <2>1 DEF TInv, CountersOK
  <2>. QED BY <1>7, <1>10, <2>2 DEF XInv
<1>11. ASSUME OneDrive, NEW x \in RunIds \X Keys, dbClass'[x] # "none", x[1] = RunIdOf(run)
       PROVE  \E q \in jsonl : q.key = x[2] /\ q.status = "not_reproducible"
  <2>1. CASE dbClass'[x] = dbClass[x] BY <1>1, <1>11, <2>1 DEF XInv
  <2>2. CASE x = Row(r) /\ dbClass'[x] = r.category
    BY <1>2, <1>5, <1>11, <2>2 DEF Row
  <2>. QED BY <1>7, <2>1, <2>2
<1>. QED BY <1>1, <1>8, <1>9, <1>10, <1>11 DEF XInv

LEMMA XStep ==
  ASSUME TInv, XInv, NEW w \in Workers, Step(w) \/ WorkerError(w) \/ TearAppend(w),
         ~MirrorState(w), ~MirrorClass(w)
  PROVE  XInv'
<1>1. UNCHANGED <<dbState, dbClass, run>> /\ jsonl \subseteq jsonl'
  BY DEF Step, Take, Skip, Resolve, MetadataFails, FlagStale, VerifyExisting, RejectLate,
         ImageMissing, BuildImage, ImageResolved, Reproduce, Relock, RecordAttempts, Assemble,
         OpenEntry, CloseEntry, IndexEntry, IndexAttempts, RegenRead, RegenVerify, Drop, Keep,
         ReadTorn, AppendState, WorkerError, TearAppend, disk, db, counters
<1>2. driver' \in {driver, "down"}
  <2>1. CASE ReadTorn(w) \/ WorkerError(w) \/ TearAppend(w)
    BY <2>1 DEF ReadTorn, WorkerError, TearAppend, Raise, LoseProcess, process
  <2>2. CASE Take(w) \/ Skip(w) \/ AppendState(w)
    BY <2>2 DEF Take, Skip, AppendState, process
  <2>. QED BY <2>1, <2>2, CarryStep DEF Carries, process
<1>. QED BY <1>1, <1>2, XQuiet

LEMMA XInit == Init => XInv
<1>. SUFFICES ASSUME Init PROVE XInv OBVIOUS
<1>1. \A x \in RunIds \X Keys : dbClass[x] = "none" BY DEF Init
<1>2. DOMAIN dbClass = RunIds \X Keys BY DEF Init
<1>. QED BY <1>1, <1>2 DEF XInv, TaxonomyOnlyOfFailures

LEMMA XNext ==
  TInv /\ KInv /\ MInv /\ CInv /\ FInv /\ LInv /\ XInv /\ [Next]_vars => XInv'
<1>. SUFFICES ASSUME TInv, KInv, MInv, CInv, FInv, LInv, XInv, [Next]_vars PROVE XInv' OBVIOUS
<1>1. CASE FinishRun \/ Signal \/ KillContainers \/ Crash \/ Finished \/ UNCHANGED vars
  BY <1>1, XQuiet DEF FinishRun, Signal, KillContainers, Crash, LoseProcess, Finished, vars,
                      disk, db, process, counters
<1>2. CASE StartRun \/ RefuseRun BY <1>2, XRun DEF StartRun, RefuseRun, disk, db
<1>3. CASE \E k \in Keys : Redrive(k) BY <1>3, XRedrive
<1>4. CASE \E w \in Workers : Step(w) \/ WorkerError(w) \/ TearAppend(w)
  BY <1>4, XStep, XMirror, XClass
<1>. QED BY <1>1, <1>2, <1>3, <1>4 DEF Next

\* A row of the failure taxonomy belongs to a candidate that the drive_state row
\* it is joined with calls not reproducible, though no path deletes a row: the
\* candidate is not driven again under that run id.  For candidates listed once,
\* and as long as no line is deleted for a re-drive under the same --run-id.
THEOREM TaxonomyAgrees == OneDrive /\ Spec => []TaxonomyOnlyOfFailures
<1>. SUFFICES ASSUME OneDrive PROVE Spec => []TaxonomyOnlyOfFailures OBVIOUS
<1>1. Init => KInv /\ MInv /\ CInv /\ FInv /\ LInv /\ XInv
  BY KInit, MInit, CInit, FInit, LInit, XInit
<1>2. TInv /\ KInv /\ MInv /\ CInv /\ FInv /\ LInv /\ XInv /\ [Next]_vars
        => KInv' /\ MInv' /\ CInv' /\ FInv' /\ LInv' /\ XInv'
  BY KNext, MNext, CNext, FNext, LNext, XNext
<1>3. XInv => TaxonomyOnlyOfFailures BY DEF XInv
<1>. QED BY <1>1, <1>2, <1>3, TypesHold, PTL DEF Spec

=============================================================================
