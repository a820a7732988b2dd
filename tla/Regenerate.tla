----------------------------- MODULE Regenerate -----------------------------
(***************************************************************************)
(* cargo_regenerate.regenerate(): an entry is verified on a host.  Calls   *)
(* run as commands of their own or in the worker threads of the driver, so *)
(* that several may work on one entry at a time; the entry travels between *)
(* hosts when none does.  Docker (images by tag, one daemon per host) is   *)
(* external: a command answers or fails.                                   *)
(***************************************************************************)
EXTENDS Naturals, Sequences, SequencesExt

CONSTANTS
  Calls,       \* commands or worker threads that call regenerate()
  Hosts,       \* hosts the entry is verified on
  PlatformOf,  \* container platform of a host's images
  Digests,     \* environment fingerprints a build of the fat image can have
  None,        \* no image, no fingerprint
  Assembled,   \* the fingerprints the assembler recorded, by platform
  Shapes,      \* the entry's category and whether it has a fix commit
  Flags,       \* the flags calls are given
  Faults,      \* what may go wrong: "interrupt" (Ctrl-C, an exception),
               \* "crash", "daemon", "timeout" (of a test), and the operator's
               \* "prune" and "rebuild" of the fat image
  MaxCalls,    \* bound: calls
  MaxFaults    \* bound: faults

Platforms == {PlatformOf[h] : h \in Hosts}

Categories == {"breaking", "non-breaking", "fix-after-update", "unreproducible"}
AnyShape == {s \in [category : Categories, fix : BOOLEAN] :
               s.fix => s.category = "fix-after-update"}
AnyFlags == [buildMissing : BOOLEAN, imagesOnly : BOOLEAN, keepThin : BOOLEAN]

ASSUME RegenerateAssumption ==
  /\ DOMAIN PlatformOf = Hosts
  /\ None \notin Digests
  /\ Assembled \in [Platforms -> Digests \cup {None}]
  /\ Shapes \subseteq AnyShape
  /\ Flags \subseteq AnyFlags
  /\ MaxCalls \in Nat /\ MaxFaults \in Nat

\* The thin images of an entry, in the order they are built and tested.
Kinds == {"pre", "post", "fix"}
KindsOf(e) == IF e.fix THEN <<"pre", "post", "fix">> ELSE <<"pre", "post">>

VARIABLES
  entry,    \* the entry file, as it was when last whole
  content,  \* the file now: "whole", "empty" (truncated), "garbled"
  host,     \* where the entry is
  fat,      \* [Hosts -> environment of the image under the entry's fat tag]
  thin,     \* [Hosts -> [Kinds -> environment of the image under the thin tag]]
  cut,      \* [Hosts -> kinds with a test container that was left running]
  kept,     \* [Hosts -> kinds of thin images that stayed without their tag]
  pc,       \* [Calls -> what the call does next]
  job,      \* [Calls -> the call's local variables]
  calls, faults,
  overlaps, \* history: two calls have been under way at once
  leaky,    \* history: hosts where a call was stopped before it had tidied up,
            \* was told not to, or could not
  logged    \* history: calls that have written their record

vars == <<entry, content, host, fat, thin, cut, kept, pc, job, calls, faults,
          overlaps, leaky, logged>>
file == <<entry, content>>
images == <<fat, thin, cut, kept>>
bounds == <<calls, faults>>

(***************************************************************************)
(* A verifiedOn record: call stands for verifiedAt, outcome for            *)
(* outcomeMatch.  The rest is history: the container platform (the code    *)
(* writes the host's), the fingerprint the call extracted, the             *)
(* environments of the thin images its tests ran in, and whether nobody    *)
(* came between: no other call, and no rebuild of the fat image between    *)
(* the call's extraction and its last thin build.  A test result is        *)
(* "norun" when docker could not start one.                                *)
(***************************************************************************)
Results == {"none", "pass", "fail", "norun"}
Outcomes == {"match", "mismatch", "untested"}
Record ==
  [call : 1..MaxCalls, platform : Platforms, outcome : Outcomes,
   digest : Digests, bases : SUBSET Digests, alone : BOOLEAN]

Entry == [category : Categories, fix : BOOLEAN,
          prints : [Platforms -> Digests \cup {None}], verified : Seq(Record)]

\* What regenerate() returns; "go" while it has found no reason to stop.
Exits == {"go", "ok", "fingerprint_mismatch", "thin_build_failed", "fat_image_missing",
          "outcome_mismatch", "raised", "killed"}

Untested == [k \in Kinds |-> "none"]
\* No call, or one that has returned x.
NoFlags == [buildMissing |-> FALSE, imagesOnly |-> FALSE, keepThin |-> FALSE]
Unread == [category |-> "unreproducible", fix |-> FALSE, prints |-> Assembled,
           verified |-> <<>>]
Ended(n, x) ==
  [doc |-> Unread, flags |-> NoFlags, todo |-> <<>>, seen |-> Untested,
   outcome |-> "untested", bases |-> {}, digest |-> None,
   exit |-> x, call |-> n, alone |-> FALSE]

Init ==
  /\ \E s \in Shapes :
       entry = [category |-> s.category, fix |-> s.fix, prints |-> Assembled, verified |-> <<>>]
  /\ content = "whole"
  /\ host \in Hosts
  /\ fat \in [Hosts -> Digests \cup {None}]
  /\ thin = [h \in Hosts |-> [k \in Kinds |-> None]]
  /\ cut = [h \in Hosts |-> {}] /\ kept = [h \in Hosts |-> {}]
  /\ pc = [c \in Calls |-> "idle"]
  /\ job = [c \in Calls |-> Ended(0, "go")]
  /\ calls = 0 /\ faults = 0
  /\ overlaps = FALSE /\ leaky = {} /\ logged = {}

Idle == \A c \in Calls : pc[c] = "idle"
Fault(kind) == kind \in Faults /\ faults < MaxFaults /\ faults' = faults + 1

\* A call goes on, or returns x.
Goto(c, label) == pc' = [pc EXCEPT ![c] = label]
Return(c, x) ==
  /\ Goto(c, "idle")
  /\ job' = [job EXCEPT ![c] = Ended(@.call, x)]

(***************************************************************************)
(* Reading the entry, and the fat image it names.                          *)
(***************************************************************************)
\* A call begins: from here on no call under way is alone.
Begin(c, f) ==
  /\ pc[c] = "idle" /\ calls < MaxCalls
  /\ calls' = calls + 1
  /\ overlaps' = (overlaps \/ ~Idle)
  /\ job' = [d \in Calls |->
               IF d = c
               THEN [Ended(calls', "go") EXCEPT !.doc = entry, !.flags = f, !.alone = Idle]
               ELSE [job[d] EXCEPT !.alone = @ /\ pc[d] = "idle"]]

Read(c) ==
  /\ \E f \in Flags : Begin(c, f)
  /\ content = "whole" /\ entry.category # "unreproducible"
  /\ Goto(c, "resolve")
  /\ UNCHANGED <<file, images, host, faults, leaky, logged>>

\* json.load raises, or there is nothing to verify.
ReadInVain(c) ==
  /\ pc[c] = "idle" /\ calls < MaxCalls
  /\ calls' = calls + 1
  /\ content # "whole" \/ entry.category = "unreproducible"
  /\ job' = [job EXCEPT ![c] = Ended(calls', IF content = "whole" THEN "ok" ELSE "raised")]
  /\ UNCHANGED <<file, images, host, pc, faults, overlaps, leaky, logged>>

ResolveFat(c) ==
  /\ pc[c] = "resolve"
  /\ IF fat[host] = None /\ ~job[c].flags.buildMissing
     THEN Return(c, "fat_image_missing")
     ELSE /\ Goto(c, IF fat[host] = None THEN "fat" ELSE "extract")
          /\ UNCHANGED job
  /\ UNCHANGED <<file, images, host, bounds, overlaps, leaky, logged>>

\* buildx loads the new image under the tag, whatever the tag named until now.
BuildFat(c) ==
  /\ pc[c] = "fat"
  /\ \/ /\ \E d \in Digests : fat' = [fat EXCEPT ![host] = d]
        /\ Goto(c, "extract")
        /\ UNCHANGED job
     \/ /\ Return(c, "fat_image_missing")
        /\ UNCHANGED fat
  /\ UNCHANGED <<file, thin, cut, kept, host, bounds, overlaps, leaky, logged>>

\* The fingerprint of the image under the tag goes into the call's copy of the
\* entry, where an unknown platform gets one.
Extracted(c) ==
  /\ fat[host] # None
  /\ job' = [job EXCEPT ![c].digest = fat[host],
                        ![c].doc.prints[PlatformOf[host]] = fat[host],
                        ![c].todo = KindsOf(job[c].doc)]
  /\ Goto(c, "thin")

\* Mutants of Extract: a mismatch is a warning, and the call goes on with the
\* fingerprint it found / and records it in place of the other.
ExtractLenient(c) ==
  LET p == PlatformOf[host] IN
  /\ pc[c] = "extract"
  /\ IF fat[host] = None THEN Return(c, "raised")
     ELSE /\ job' = [job EXCEPT ![c].digest = fat[host],
                                ![c].doc.prints[p] = IF @ = None THEN fat[host] ELSE @,
                                ![c].todo = KindsOf(job[c].doc)]
          /\ Goto(c, "thin")
  /\ UNCHANGED <<file, images, host, bounds, overlaps, leaky, logged>>

ExtractReplacing(c) ==
  /\ pc[c] = "extract"
  /\ IF fat[host] = None THEN Return(c, "raised") ELSE Extracted(c)
  /\ UNCHANGED <<file, images, host, bounds, overlaps, leaky, logged>>

\* The manifest comes out of whatever image the tag names by now.  An unknown
\* platform's fingerprint is added to the call's copy of the entry; a known
\* one has to match.
Extract(c) ==
  /\ pc[c] = "extract"
  /\ IF fat[host] = None THEN Return(c, "raised")
     ELSE IF job[c].doc.prints[PlatformOf[host]] \notin {None, fat[host]}
     THEN Return(c, "fingerprint_mismatch")
     ELSE Extracted(c)
  /\ UNCHANGED <<file, images, host, bounds, overlaps, leaky, logged>>

(***************************************************************************)
(* The try block: thin images and their tests.  todo is what is left of    *)
(* the loop under way.  Whatever ends it goes through the finally clause.  *)
(***************************************************************************)
Current(c) == Head(job[c].todo)

\* Mutant of Finally: tidies up only what the loop under way had left.
FinallyUnwound(c, x) ==
  /\ Goto(c, "clean")
  /\ job' = [job EXCEPT ![c].exit = x]

Finally(c, x) ==
  /\ Goto(c, "clean")
  /\ job' = [job EXCEPT ![c].exit = x, ![c].todo = KindsOf(job[c].doc)]

\* Mutant of BuildThin: takes an image that is there already.
BuildThinOnce(c) ==
  /\ pc[c] = "thin"
  /\ fat[host] # None
  /\ thin' = [thin EXCEPT ![host][Current(c)] = IF @ = None THEN fat[host] ELSE @]
  /\ IF Len(job[c].todo) > 1
     THEN job' = [job EXCEPT ![c].todo = Tail(@)] /\ UNCHANGED pc
     ELSE IF job[c].flags.imagesOnly THEN Finally(c, "go")
     ELSE job' = [job EXCEPT ![c].todo = KindsOf(job[c].doc)] /\ Goto(c, "test")
  /\ UNCHANGED <<file, fat, cut, kept, host, bounds, overlaps, leaky, logged>>

\* docker build moves the tag; another image that had it stays without one.
BuildThin(c) ==
  /\ pc[c] = "thin"
  /\ fat[host] # None
  /\ kept' = [kept EXCEPT ![host] =
               @ \cup (IF thin[host][Current(c)] \in {None, fat[host]} THEN {} ELSE {Current(c)})]
  /\ thin' = [thin EXCEPT ![host][Current(c)] = fat[host]]
  /\ IF Len(job[c].todo) > 1
     THEN job' = [job EXCEPT ![c].todo = Tail(@)] /\ UNCHANGED pc
     ELSE IF job[c].flags.imagesOnly THEN Finally(c, "go")
     ELSE job' = [job EXCEPT ![c].todo = KindsOf(job[c].doc)] /\ Goto(c, "test")
  /\ UNCHANGED <<file, fat, cut, host, bounds, overlaps, leaky, logged>>

\* The network, the project, or a base image that is gone.
BuildThinFails(c) ==
  /\ pc[c] = "thin"
  /\ Finally(c, "thin_build_failed")
  /\ UNCHANGED <<file, images, host, bounds, overlaps, leaky, logged>>

\* Any exit code but 0 counts as a failing test.
Reproduced(category, seen) ==
  /\ seen["pre"] = "pass"
  /\ (seen["post"] = "pass") <=> (category = "non-breaking")
  /\ category = "fix-after-update" => seen["fix"] = "pass"

OutcomeOf(category, seen) == IF Reproduced(category, seen) THEN "match" ELSE "mismatch"

\* Mutant of Tested: the loop ends with nothing for the next one to do.
TestedSpent(c, r, bases) ==
  LET seen == [job[c].seen EXCEPT ![Current(c)] = r]
      next == [job[c] EXCEPT !.bases = @ \cup bases]
  IN IF Len(job[c].todo) > 1
     THEN /\ job' = [job EXCEPT ![c] = [next EXCEPT !.seen = seen, !.todo = Tail(@)]]
          /\ UNCHANGED pc
     ELSE /\ job' = [job EXCEPT ![c] =
               [next EXCEPT !.seen = Untested, !.todo = <<>>,
                            !.outcome = OutcomeOf(next.doc.category, seen)]]
          /\ Goto(c, "clean")

\* The next test has ended with result r, in a container of environment base;
\* after the last one the call has its outcome.
Tested(c, r, bases) ==
  LET seen == [job[c].seen EXCEPT ![Current(c)] = r]
      next == [job[c] EXCEPT !.bases = @ \cup bases]
  IN IF Len(job[c].todo) > 1
     THEN /\ job' = [job EXCEPT ![c] = [next EXCEPT !.seen = seen, !.todo = Tail(@)]]
          /\ UNCHANGED pc
     ELSE /\ job' = [job EXCEPT ![c] =
               [next EXCEPT !.seen = Untested, !.todo = KindsOf(next.doc),
                            !.outcome = OutcomeOf(next.doc.category, seen)]]
          /\ Goto(c, "clean")

RunTest(c) ==
  /\ pc[c] = "test"
  /\ thin[host][Current(c)] # None
  /\ \E r \in {"pass", "fail"} : Tested(c, r, {thin[host][Current(c)]})
  /\ UNCHANGED <<file, images, host, bounds, overlaps, leaky, logged>>

\* `docker run` finds no image under the tag, or the daemon fails: it exits
\* with a code of its own, and no test ran.
RunNothing(c) ==
  /\ pc[c] = "test"
  /\ \/ thin[host][Current(c)] = None /\ UNCHANGED faults
     \/ Fault("daemon")
  /\ Tested(c, "norun", {})
  /\ UNCHANGED <<file, images, host, calls, overlaps, leaky, logged>>

\* A test is cut off: docker run is killed, the unnamed container goes on.
LeftRunning(c) == cut' = [cut EXCEPT ![host] = @ \cup {Current(c)}]

\* subprocess.TimeoutExpired.
TestTimesOut(c) ==
  /\ pc[c] = "test"
  /\ thin[host][Current(c)] # None /\ Fault("timeout")
  /\ LeftRunning(c)
  /\ Finally(c, "raised")
  /\ UNCHANGED <<file, fat, thin, kept, host, calls, overlaps, leaky, logged>>

(***************************************************************************)
(* docker image rm -f of the next tag, whose exit code nobody looks at.    *)
(* The tag goes, and the image with it, unless a container of it still     *)
(* runs; or the removal fails.                                             *)
(***************************************************************************)
Untags(c) ==
  LET k == Current(c) IN
  /\ thin' = [thin EXCEPT ![host][k] = None]
  /\ \/ UNCHANGED kept
     \/ /\ k \in cut[host] /\ thin[host][k] # None
        /\ kept' = [kept EXCEPT ![host] = @ \cup {k}]
  /\ UNCHANGED <<leaky, faults>>
Leaves == leaky' = leaky \cup {host} /\ UNCHANGED <<thin, kept>>

\* The finally clause removes tag after tag; then the call goes on or ends.
Clean(c) ==
  /\ pc[c] = "clean"
  /\ \/ ~job[c].flags.keepThin /\ Untags(c)
     \/ ~job[c].flags.keepThin /\ Fault("daemon") /\ Leaves
     \/ job[c].flags.keepThin /\ Leaves /\ UNCHANGED faults
  /\ IF Len(job[c].todo) > 1 THEN job' = [job EXCEPT ![c].todo = Tail(@)] /\ UNCHANGED pc
     ELSE IF job[c].exit # "go" THEN Return(c, job[c].exit)
     ELSE job' = [job EXCEPT ![c].todo = <<>>] /\ Goto(c, "open")
  /\ UNCHANGED <<file, fat, cut, host, calls, overlaps, logged>>

(***************************************************************************)
(* The entry written back.                                                 *)
(***************************************************************************)
RecordOf(j) ==
  [call |-> j.call, platform |-> PlatformOf[host], outcome |-> j.outcome,
   digest |-> j.digest, bases |-> j.bases, alone |-> j.alone]

\* Mutant of OpenEntry: the record takes the place of the earlier ones.
OpenEntryLatest(c) ==
  /\ pc[c] = "open"
  /\ job' = [job EXCEPT ![c].doc.verified = <<RecordOf(job[c])>>]
  /\ content' = "empty"
  /\ Goto(c, "save")
  /\ UNCHANGED <<entry, images, host, bounds, overlaps, leaky, logged>>

\* append_verified_on, and open("w") truncates the file.
OpenEntry(c) ==
  /\ pc[c] = "open"
  /\ job' = [job EXCEPT ![c].doc.verified = Append(@, RecordOf(job[c]))]
  /\ content' = "empty"
  /\ Goto(c, "save")
  /\ UNCHANGED <<entry, images, host, bounds, overlaps, leaky, logged>>

\* The text reaches the file.  If another call wrote since this one truncated,
\* the longer text may show behind the shorter.
SaveEntry(c) ==
  /\ pc[c] = "save"
  /\ \/ entry' = job[c].doc /\ content' = "whole"
     \/ content # "empty" /\ content' = "garbled" /\ UNCHANGED entry
  /\ logged' = logged \cup {job[c].call}
  /\ Goto(c, "exit")
  /\ UNCHANGED <<images, host, job, bounds, overlaps, leaky>>

\* Mutant of Answer: what was verified is the environment alone.
AnswerOk(c) ==
  /\ pc[c] = "exit"
  /\ Return(c, "ok")
  /\ UNCHANGED <<file, images, host, bounds, overlaps, leaky, logged>>

\* The file is closed: the outcome makes the exit code.
Answer(c) ==
  /\ pc[c] = "exit"
  /\ Return(c, IF job[c].outcome = "mismatch" THEN "outcome_mismatch" ELSE "ok")
  /\ UNCHANGED <<file, images, host, bounds, overlaps, leaky, logged>>

(***************************************************************************)
(* Faults, and the operator.                                               *)
(***************************************************************************)
\* A write given up leaves the file as it is or part of the text in it; before
\* it and after it the file is left alone.
GivenUp(c) ==
  IF pc[c] = "save" THEN content' \in {content, "garbled"} ELSE UNCHANGED content

\* KeyboardInterrupt, or an exception of a step: from the try block into the
\* finally clause, from anywhere else out of the call, the record written or
\* not.
Interrupt(c) ==
  /\ pc[c] # "idle" /\ Fault("interrupt")
  /\ IF pc[c] \in {"thin", "test"} THEN Finally(c, "raised") ELSE Return(c, "raised")
  /\ leaky' = IF pc[c] = "clean" THEN leaky \cup {host} ELSE leaky
  /\ UNCHANGED cut \/ (pc[c] = "test" /\ LeftRunning(c))
  /\ GivenUp(c)
  /\ UNCHANGED <<entry, fat, thin, kept, host, calls, overlaps, logged>>

\* The process is killed: no finally clause runs.
Crash(c) ==
  /\ pc[c] # "idle" /\ Fault("crash")
  /\ Return(c, "killed")
  /\ leaky' = IF pc[c] \in {"thin", "test", "clean"} THEN leaky \cup {host} ELSE leaky
  /\ GivenUp(c)
  /\ UNCHANGED <<entry, images, host, calls, overlaps, logged>>

\* The operator frees disk space.
PruneFat ==
  /\ fat[host] # None /\ Fault("prune")
  /\ fat' = [fat EXCEPT ![host] = None]
  /\ UNCHANGED <<file, thin, cut, kept, host, pc, job, calls, overlaps, leaky, logged>>

\* The operator builds the fat image anew: between the extraction of a call and
\* its last thin build, that is a base image the call has not fingerprinted.
RebuildFat ==
  /\ Fault("rebuild")
  /\ \E d \in Digests : fat' = [fat EXCEPT ![host] = d]
  /\ job' = [c \in Calls |-> [job[c] EXCEPT !.alone = @ /\ pc[c] # "thin"]]
  /\ UNCHANGED <<file, thin, cut, kept, host, pc, calls, overlaps, leaky, logged>>

\* The entry is verified on another host next.
Carry ==
  /\ Idle
  /\ host' \in Hosts \ {host}
  /\ UNCHANGED <<file, images, pc, job, bounds, overlaps, leaky, logged>>

Step(c) ==
  \/ Read(c) \/ ReadInVain(c) \/ ResolveFat(c) \/ BuildFat(c) \/ Extract(c)
  \/ BuildThin(c) \/ BuildThinFails(c)
  \/ RunTest(c) \/ RunNothing(c) \/ TestTimesOut(c)
  \/ Clean(c) \/ OpenEntry(c) \/ SaveEntry(c) \/ Answer(c)
  \/ Interrupt(c) \/ Crash(c)

Next == PruneFat \/ RebuildFat \/ Carry \/ \E c \in Calls : Step(c)

Spec == Init /\ [][Next]_vars
(***************************************************************************)
(* Properties.                                                             *)
(***************************************************************************)
PCs == {"idle", "resolve", "fat", "extract", "thin", "test", "clean", "open", "save", "exit"}
Job ==
  [doc : Entry, flags : AnyFlags, todo : Seq(Kinds), seen : [Kinds -> Results],
   outcome : Outcomes, bases : SUBSET Digests, digest : Digests \cup {None},
   exit : Exits, call : 0..MaxCalls, alone : BOOLEAN]

FileOK == entry \in Entry /\ content \in {"whole", "empty", "garbled"}
ImagesOK ==
  /\ host \in Hosts
  /\ fat \in [Hosts -> Digests \cup {None}]
  /\ thin \in [Hosts -> [Kinds -> Digests \cup {None}]]
  /\ cut \in [Hosts -> SUBSET Kinds] /\ kept \in [Hosts -> SUBSET Kinds]
CallsOK == pc \in [Calls -> PCs] /\ job \in [Calls -> Job]
BoundsOK == calls \in 0..MaxCalls /\ faults \in 0..MaxFaults
HistoryOK == overlaps \in BOOLEAN /\ leaky \subseteq Hosts /\ logged \subseteq 1..MaxCalls

\* A call under way has a number, one in a loop has a round of it left, and one
\* past the extraction has a fingerprint.
Fits(p, j) ==
  /\ p # "idle" => j.call > 0
  /\ p \in {"thin", "test", "clean"} => j.todo # <<>>
  /\ p \in {"thin", "test", "clean", "open"} => j.digest # None

\* Every variable keeps its type, and every call's variables fit its place.
TypeOK ==
  /\ FileOK /\ ImagesOK /\ CallsOK /\ BoundsOK /\ HistoryOK
  /\ \A c \in Calls : Fits(pc[c], job[c])

\* Whatever calls overlap and whoever writes last: every verification in the
\* file was made in an environment with the fingerprint the same file has for
\* its platform.  What a lost update loses it loses whole.
RecordsMatchPrints ==
  content = "whole" =>
    \A r \in Range(entry.verified) : entry.prints[r.platform] = r.digest

\* Fingerprints are the contract of an entry: as long as calls do not overlap,
\* one that has been recorded, by the assembler or by a first verification on
\* its platform, is never replaced by another.
PrintsAreFinal ==
  [][~overlaps' =>
       \A p \in Platforms : entry.prints[p] # None => entry'.prints[p] = entry.prints[p]]_vars

\* As long as calls do not overlap, a readable entry has the record of every
\* call that wrote one, whatever calls were interrupted or killed in between
\* and whichever hosts the entry has been to.
VerificationsKept ==
  content = "whole" /\ ~overlaps =>
    {r.call : r \in Range(entry.verified)} = logged

\* A call that no other overlapped, and under which nobody rebuilt the fat image
\* between its fingerprint and its last thin build, tested in containers of the
\* environment it had fingerprinted: whatever its tags named before, whatever
\* is pruned meanwhile, and whatever is rebuilt before and after.
TestedWhatWasFingerprinted ==
  \A r \in Range(entry.verified) : r.alone => r.bases \subseteq {r.digest}

\* The exit code tells what the file says (docs/cargo/reproduction-runbook.md):
\* after 0 there is a record of this call without a mismatch, after 4 one with
\* a mismatch, after 1, 2 and 3 there is none.  A call that ended by an
\* exception or was killed tells less: it may have written its one record.
ExitTellsTheFile ==
  content = "whole" /\ ~overlaps /\ entry.category # "unreproducible" =>
    \A c \in Calls : pc[c] = "idle" /\ job[c].call > 0 =>
      LET mine == {r.outcome : r \in {q \in Range(entry.verified) : q.call = job[c].call}}
      IN CASE job[c].exit = "ok" -> mine \in {{"match"}, {"untested"}}
           [] job[c].exit = "outcome_mismatch" -> mine = {"mismatch"}
           [] job[c].exit \in {"raised", "killed"} -> \E o \in Outcomes : mine \subseteq {o}
           [] OTHER -> mine = {}

\* The finally clause: where no call is under way no thin image is left under
\* its tag, however calls overlapped and whatever raised.  If none did overlap,
\* the only images left without one are those of tests that were cut off, whose
\* containers go on.  Excepted are the hosts where a call was told to keep its
\* images, was killed, was interrupted while it tidied up, or where a removal
\* failed, which nothing notices.
ThinsRemoved ==
  \A h \in Hosts \ leaky : (h = host => Idle) =>
    /\ \A k \in Kinds : thin[h][k] = None
    /\ ~overlaps => kept[h] \subseteq cut[h]
=============================================================================
