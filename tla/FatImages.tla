----------------------------- MODULE FatImages -----------------------------
(***************************************************************************)
(* The ledger of fat images (docker/cargo-fat/index.json) and those that   *)
(* use it at the same time: the planner, drivers, and the operator's       *)
(* fat_image build, register and unregister, on hosts of some platforms.   *)
(***************************************************************************)
EXTENDS Buckets, Functions

CONSTANTS
  Sessions,   \* commands that may run at once
  Host,       \* [Sessions -> the platform of the session's Docker daemon]
  Cands,      \* candidates
  Pool,       \* the MSRV and the commit date they may have
  HubAnswers, \* what Docker Hub may say of a base image, Silent included
  MaxDate,    \* --max-sde-date
  MaxOps,     \* bound: commands
  MaxFaults   \* bound: commands killed

Debians == {p[2] : p \in MILESTONE_DEBIAN_SUPPORTED}
Tags == MILESTONES \X Debians \X Dates

ASSUME FatImagesAssumption ==
  /\ DOMAIN Host = Sessions /\ None \notin Cands
  /\ None \notin [milestone : MILESTONES, year : Nat, debian : Debians] /\ None \notin Tags
  /\ Pool \subseteq [msrv : Versions \cup {Undeclared, Unparsed}, date : Dates]
  /\ HubAnswers \subseteq Dates \cup {Silent}
  /\ MaxDate \in Dates /\ MaxOps \in Nat /\ MaxFaults \in Nat

VARIABLES
  cand,       \* [Cands -> Pool], which does not change
  index,      \* the file: "whole", "empty" while it is written, "garbled"
  images,     \* [platform -> images of its daemon, with what their manifest says]
  proposed,   \* builds the planner or a preflight printed
  pc, job,    \* each session's next step, and its memory
  ops, faults,
  answers,    \* history: tags told, and by whom
  used,       \* history: images candidates were reproduced in
  writes,     \* history: completed writes of the file
  registered, \* history: tags registered and not unregistered
  overlapped, \* history: a session wrote a list it had read before another's write
  cut         \* history: a session was killed between truncating and writing

vars == <<cand, index, images, proposed, pc, job, ops, faults, answers, used, writes,
          registered, overlapped, cut>>
ledger == <<index, writes, registered, overlapped>>

Platforms == Range(Host)
NoJob == [do |-> "nothing", cand |-> None, build |-> FALSE, update |-> FALSE,
          tag |-> None, rec |-> None, recs |-> <<>>, base |-> 0]
TagsOf(recs) == {r.tag : r \in Range(recs)}
Places(tag, recs) == {i \in DOMAIN recs : recs[i].tag = tag}
Without(recs, i) == SubSeq(recs, 1, i - 1) \o SubSeq(recs, i + 1, Len(recs))
Replace(recs, rec) == [i \in DOMAIN recs |-> IF recs[i].tag = rec.tag THEN rec ELSE recs[i]]

Init ==
  /\ cand \in [Cands -> Pool]
  /\ index = [st |-> "whole", recs |-> <<>>]
  /\ images = [p \in Platforms |-> {}]
  /\ proposed = {} /\ answers = {} /\ used = {} /\ registered = {}
  /\ pc = [s \in Sessions |-> "idle"] /\ job = [s \in Sessions |-> NoJob]
  /\ ops = 0 /\ faults = 0 /\ writes = 0
  /\ overlapped = FALSE /\ cut = FALSE

At(s, step) == pc[s] = step
Goto(s, step) == pc' = [pc EXCEPT ![s] = step]
\* The command ends, with an exit code or an exception.
End(s) == Goto(s, "idle") /\ job' = [job EXCEPT ![s] = NoJob]

Begin(s, step, j) ==
  /\ At(s, "idle") /\ ops < MaxOps
  /\ ops' = ops + 1
  /\ Goto(s, step) /\ job' = [job EXCEPT ![s] = j]
  /\ UNCHANGED <<cand, ledger, images, proposed, faults, answers, used, cut>>

(***************************************************************************)
(* The tag of a candidate.  The planner takes the MSRV of the candidate,   *)
(* the driver a floor by date if none was declared; the planner's answer   *)
(* and the driver's come from requests of their own to Docker Hub.  (The   *)
(* file cache of a day's answers only takes some of these away.)           *)
(***************************************************************************)
rust_base_published == HubAnswers

TagOf(bucket, rust_pub) ==
  fat_image_tag(bucket.milestone, bucket.debian, canonical_sde_for(bucket, rust_pub))

DriverMsrv(c) == IF c.msrv = Undeclared THEN msrv_floor_for(c.date) ELSE c.msrv
DriverBucket(c) == bucket_for(DriverMsrv(c), c.date, debian_release_for(c.date))

PlannerBucket(c) == bucket_for(c.msrv, c.date, debian_release_for(c.date))

Told(by, c, tag) == answers' = answers \cup {[by |-> by, cand |-> c, tag |-> tag]}

\* bucketize and plan, for a line of the candidate file.
Plan(c) ==
  /\ index.st = "whole" /\ cand[c].date <= MaxDate
  /\ LET bucket == PlannerBucket(cand[c]) IN
     IF bucket = None
     THEN Told("planner", c, None) /\ UNCHANGED proposed
     ELSE \E rust_pub \in rust_base_published :
            LET tag == TagOf(bucket, rust_pub) IN
            /\ Told("planner", c, tag)
            /\ proposed' = proposed \cup ({tag} \ TagsOf(index.recs))
  /\ UNCHANGED <<cand, ledger, images, pc, job, ops, faults, used, cut>>

(***************************************************************************)
(* cargo_drive, for one of its candidates: the preflight (which            *)
(* --skip-preflight and --build-missing-bases leave out) asks the Docker   *)
(* daemon, process() the ledger.                                           *)
(***************************************************************************)
Drive(s, c, build) ==
  \E step \in IF build THEN {"resolve"} ELSE {"preflight", "resolve"} :
    Begin(s, step, [NoJob EXCEPT !.do = "drive", !.cand = c, !.build = build])

\* An image the daemon does not have ends the run, with the commands to build it.
Preflight(s) ==
  /\ At(s, "preflight")
  /\ LET c == job[s].cand
         bucket == DriverBucket(cand[c])
     IN IF cand[c].date > MaxDate \/ bucket = None
        THEN Goto(s, "resolve") /\ UNCHANGED <<job, proposed, answers>>
        ELSE \E rust_pub \in rust_base_published :
               LET tag == TagOf(bucket, rust_pub) IN
               /\ Told("driver", c, tag)
               /\ IF tag \in {i.tag : i \in images[Host[s]]}
                  THEN Goto(s, "resolve") /\ UNCHANGED <<job, proposed>>
                  ELSE End(s) /\ proposed' = proposed \cup {tag}
  /\ UNCHANGED <<cand, ledger, images, ops, faults, used, cut>>

\* The record the ledger has for the candidate's tag, or a build of the image,
\* or an outcome without either.  load_index fails on a file being written.
Resolve(s) ==
  /\ At(s, "resolve")
  /\ LET c == job[s].cand
         bucket == DriverBucket(cand[c])
     IN IF cand[c].date > MaxDate \/ index.st # "whole"
        THEN End(s) /\ UNCHANGED <<answers, used>>
        ELSE IF bucket = None
        THEN End(s) /\ Told("driver", c, None) /\ UNCHANGED used
        ELSE \E rust_pub \in rust_base_published :
               LET tag == TagOf(bucket, rust_pub)
                   found == {r \in Range(index.recs) : r.tag = tag}
               IN /\ Told("driver", c, tag)
                  /\ used' = used \cup [cand : {c}, rec : found]
                  /\ IF found = {} /\ job[s].build
                     THEN /\ Goto(s, "build")
                          /\ job' = [job EXCEPT ![s].tag = tag]
                     ELSE End(s)
  /\ UNCHANGED <<cand, index, images, proposed, ops, faults, writes, registered,
                 overlapped, cut>>

(***************************************************************************)
(* fat_image: build and register, register [--update], unregister          *)
(***************************************************************************)
StartBuild(s, tag) ==
  Begin(s, "build", [NoJob EXCEPT !.do = "build", !.tag = tag])

\* Mutant of StartRegister: the image is not looked at.
StartRegisterBlind(s, tag, update) ==
  Begin(s, "load", [NoJob EXCEPT !.do = "register", !.tag = tag, !.update = update])

StartRegister(s, tag, update) ==
  Begin(s, "introspect", [NoJob EXCEPT !.do = "register", !.tag = tag, !.update = update])

StartUnregister(s, tag) ==
  Begin(s, "load", [NoJob EXCEPT !.do = "unregister", !.tag = tag])

\* The image a build of these arguments makes: Rust and Debian of its base, and
\* the snapshot of its source date.
Built(tag) == [tag |-> tag, rust |-> tag[1], debian |-> tag[2], snapshot |-> tag[3]]

build_fat_image(s) ==
  /\ At(s, "build")
  /\ \/ /\ images' = [images EXCEPT ![Host[s]] =
                        {i \in @ : i.tag # job[s].tag} \cup {Built(job[s].tag)}]
        /\ Goto(s, "introspect") /\ UNCHANGED job
     \/ End(s) /\ UNCHANGED images
  /\ UNCHANGED <<cand, ledger, proposed, ops, faults, answers, used, cut>>

\* The record of the image of that name: what its manifest says, with a
\* fingerprint for the platform it was built for.
introspect_fat_image(s) ==
  /\ At(s, "introspect")
  /\ LET found == {i \in images[Host[s]] : i.tag = job[s].tag} IN
     IF found = {} THEN End(s)
     ELSE \E i \in found :
            /\ job' = [job EXCEPT ![s].rec =
                         [tag |-> i.tag, rust |-> i.rust, debian |-> i.debian,
                          snapshot |-> i.snapshot, platforms |-> {Host[s]}]]
            /\ Goto(s, "load")
  /\ UNCHANGED <<cand, ledger, images, proposed, ops, faults, answers, used, cut>>

\* Mutants of NewLists: no search for the tag, an update saves its own record.
NewListsAppend(j, recs) ==
  IF j.do = "unregister"
  THEN {Without(recs, i) : i \in Places(j.tag, recs)}
  ELSE {Append(recs, j.rec)}
NewListsAlone(j, recs) ==
  IF j.do = "unregister"
  THEN {Without(recs, i) : i \in Places(j.tag, recs)}
  ELSE IF j.rec.tag \notin TagsOf(recs) THEN {Append(recs, j.rec)}
  ELSE IF j.update THEN {<<j.rec>>} ELSE {}

\* The list register or unregister would save, none if it refuses.  (A tag is
\* in one place at most, NoTagTwice.)
NewLists(j, recs) ==
  IF j.do = "unregister"
  THEN {Without(recs, i) : i \in Places(j.tag, recs)}
  ELSE IF j.rec.tag \notin TagsOf(recs) THEN {Append(recs, j.rec)}
  ELSE IF j.update THEN {Replace(recs, j.rec)} ELSE {}

\* register and unregister read the file ...
Load(s) ==
  /\ At(s, "load")
  /\ IF index.st # "whole" \/ NewLists(job[s], index.recs) = {}
     THEN End(s)
     ELSE /\ \E recs \in NewLists(job[s], index.recs) :
               job' = [job EXCEPT ![s].recs = recs, ![s].base = writes]
          /\ Goto(s, "reread")
  /\ UNCHANGED <<cand, ledger, images, proposed, ops, faults, answers, used, cut>>

\* ... save_index reads it again, for its heading ...
Reread(s) ==
  /\ At(s, "reread")
  /\ IF index.st = "whole" THEN Goto(s, "open") /\ UNCHANGED job ELSE End(s)
  /\ UNCHANGED <<cand, ledger, images, proposed, ops, faults, answers, used, cut>>

\* ... truncates it ...
Open(s) ==
  /\ At(s, "open")
  /\ index' = [st |-> "empty", recs |-> <<>>]
  /\ Goto(s, "write")
  /\ UNCHANGED <<cand, images, proposed, job, ops, faults, answers, used, writes,
                 registered, overlapped, cut>>

\* ... and writes it, perhaps over what another session wrote since.
Write(s) ==
  /\ At(s, "write")
  /\ \/ index' = [st |-> "whole", recs |-> job[s].recs]
     \/ index.st # "empty" /\ index' = [st |-> "garbled", recs |-> <<>>]
  /\ writes' = writes + 1
  /\ overlapped' = (overlapped \/ writes # job[s].base)
  /\ registered' = IF job[s].do = "unregister" THEN registered \ {job[s].tag}
                   ELSE registered \cup {job[s].tag}
  /\ used' = IF job[s].do = "drive"
             THEN used \cup {[cand |-> job[s].cand, rec |-> job[s].rec]} ELSE used
  /\ End(s)
  /\ UNCHANGED <<cand, images, proposed, ops, faults, answers, cut>>

\* A session is killed.
Crash(s) ==
  /\ ~At(s, "idle") /\ faults < MaxFaults
  /\ faults' = faults + 1
  /\ cut' = (cut \/ At(s, "write"))
  /\ End(s)
  /\ UNCHANGED <<cand, ledger, images, proposed, ops, answers, used>>

Next ==
  \/ \E c \in Cands : Plan(c)
  \/ \E s \in Sessions :
       \/ \E c \in Cands, build \in BOOLEAN : Drive(s, c, build)
       \/ \E tag \in proposed : StartBuild(s, tag)
       \/ \E tag \in {i.tag : i \in images[Host[s]]}, update \in BOOLEAN :
            StartRegister(s, tag, update)
       \/ \E tag \in registered : StartUnregister(s, tag)
       \/ Preflight(s) \/ Resolve(s) \/ build_fat_image(s) \/ introspect_fat_image(s)
       \/ Load(s) \/ Reread(s) \/ Open(s) \/ Write(s) \/ Crash(s)

Spec == Init /\ [][Next]_vars

-----------------------------------------------------------------------------
Records == [tag : Tags, rust : Versions, debian : Debians, snapshot : Dates,
            platforms : SUBSET Platforms]
Images == [tag : Tags, rust : Versions, debian : Debians, snapshot : Dates]
Steps == {"idle", "preflight", "resolve", "build", "introspect", "load", "reread", "open",
          "write"}
Jobs == [do : {"nothing", "drive", "build", "register", "unregister"},
         cand : Cands \cup {None}, build : BOOLEAN, update : BOOLEAN,
         tag : Tags \cup {None}, rec : Records \cup {None}, recs : Seq(Records), base : Nat]

\* A session's memory has what its next step needs.
Equipped(step, j) ==
  /\ step \in {"preflight", "resolve"} \/ j.do = "drive" => j.cand \in Cands
  /\ step \notin {"idle", "preflight", "resolve"} => j.tag \in Tags
  /\ step \in {"load", "reread", "open", "write"} => j.do = "unregister" \/ j.rec \in Records

\* The variables keep their types, and a session has what its next step needs.
TypeOK ==
  /\ cand \in [Cands -> Pool]
  /\ index \in [st : {"whole", "empty", "garbled"}, recs : Seq(Records)]
  /\ images \in [Platforms -> SUBSET Images]
  /\ proposed \subseteq Tags /\ registered \subseteq Tags
  /\ pc \in [Sessions -> Steps] /\ job \in [Sessions -> Jobs]
  /\ \A s \in Sessions : Equipped(pc[s], job[s])
  /\ answers \subseteq [by : {"planner", "driver"}, cand : Cands, tag : Tags \cup {None}]
  /\ used \subseteq [cand : Cands, rec : Records]
  /\ ops \in 0..MaxOps /\ faults \in 0..MaxFaults /\ writes \in Nat
  /\ overlapped \in BOOLEAN /\ cut \in BOOLEAN

\* However an image came into the ledger, what a candidate is reproduced in is
\* of its commit's Debian, has a Rust no older than the MSRV declared (where an
\* image for it exists) and the era's, apt packages no older than the commit,
\* and is what its tag says.
RightImage ==
  \A u \in used :
    LET c == cand[u.cand]
        r == u.rec
    IN /\ \E i \in DOMAIN DEBIAN_CUTOVERS :
            /\ DEBIAN_CUTOVERS[i][2] = r.debian
            /\ \A j \in 1..i-1 : DEBIAN_CUTOVERS[j][1] <= c.date
       /\ <<r.rust, r.debian>> \in MILESTONE_DEBIAN_SUPPORTED
       /\ c.msrv \in Versions =>
            r.rust >= c.msrv \/ \A m \in MILESTONES : m < c.msrv
       /\ \/ MILESTONE_RELEASE_DATES[r.rust] >= c.date
          \/ \A m \in MILESTONES : m <= r.rust
       /\ r.snapshot >= c.date
       /\ r.tag = fat_image_tag(r.rust, r.debian, r.snapshot)

\* No supported image is found only for a candidate that asks for a Rust newer
\* than its commit ("in practice we should never see these on real data").
ServedUnlessAhead ==
  \A a \in answers :
    LET c == cand[a.cand] IN
    a.tag = None =>
      /\ c.msrv \in Versions
      /\ \A m \in MILESTONES : m >= c.msrv => MILESTONE_RELEASE_DATES[m] > c.date

\* Two tags told for one candidate, at any time, by the driver or the planner,
\* differ in their date alone, and only if Docker Hub dates the base image after
\* the candidate's year: the others are "deterministic across machines and across
\* time".  (If no MSRV is declared this is true of either, and not of both: only
\* the driver has the floor by date.)
DriftOnlyWhenLifted ==
  \A a, b \in answers :
    /\ a.cand = b.cand /\ a.tag # b.tag
    /\ a.by = b.by \/ cand[a.cand].msrv # Undeclared
    => /\ a.tag[1] = b.tag[1] /\ a.tag[2] = b.tag[2]
       /\ \E t \in {a.tag[3], b.tag[3]} : YearOf(t) > YearOf(cand[a.cand].date)

\* However many write the ledger at once, one tag never has two records.
NoTagTwice ==
  \A i, j \in DOMAIN index.recs : index.recs[i].tag = index.recs[j].tag => i = j

\* When no session is writing it the ledger can be read and has what was
\* registered, unless sessions overlapped or one was killed while it wrote.
LedgerComplete ==
  ~overlapped /\ ~cut /\ (\A s \in Sessions : ~At(s, "write")) =>
    index.st = "whole" /\ TagsOf(index.recs) = registered
=============================================================================
