-------------------------- MODULE FatImagesProofs --------------------------
(***************************************************************************)
(* Theorems about FatImages, for any tables that fit together, candidates, *)
(* sessions and answers of Docker Hub: every property that is checked.     *)
(* The inductive invariants: TypeOK; Sound (an image is what its tag says, *)
(* from the build to the ledger); ListsDistinct (no tag twice in the       *)
(* ledger or in a list to be written); AnswersRight (a tag told is that of *)
(* the candidate's bucket); WhileAlone (the lists the sessions hold, as    *)
(* long as none wrote over another's).                                     *)
(***************************************************************************)
EXTENDS FatImages, SequenceTheorems, WellFoundedInduction, TLAPS

(***************************************************************************)
(* The tables.                                                             *)
(***************************************************************************)
LEMMA SmallestOf ==
  ASSUME NEW S, S \subseteq Nat, S # {}
  PROVE  Smallest(S) \in S /\ \A x \in S : Smallest(S) <= x
<1>. DEFINE R == {ss \in Nat \X Nat : ss[1] < ss[2]}
<1>1. IsWellFoundedOn(R, Nat) BY NatLessThanWellFounded DEF OpToRel
<1>2. PICK x \in S : \A y \in S : ~(<<y, x>> \in R)
  <2>. HIDE DEF R
  <2>. QED BY <1>1, WFMin
<1>3. ASSUME NEW y \in S PROVE x <= y
  <2>1. x \in Nat /\ y \in Nat /\ ~(<<y, x>> \in R) BY <1>2
  <2>2. ~(y < x) BY <2>1
  <2>. QED BY <2>1, <2>2
<1>. QED BY <1>3 DEF Smallest

LEMMA SmallestMilestone ==
  ASSUME NEW S \in SUBSET MILESTONES, S # {}
  PROVE  Smallest(S) \in S /\ \A m \in S : Smallest(S) <= m
BY SmallestOf, BucketsAssumption DEF Versions

LEMMA LargestMilestone ==
  Largest(MILESTONES) \in MILESTONES /\ \A m \in MILESTONES : m <= Largest(MILESTONES)
BY BucketsAssumption DEF Largest

\* A cutover table gives the value of the first cutover after the date, or of
\* the last one.
LEMMA ValueIsFirst ==
  ASSUME NEW table \in {DEBIAN_CUTOVERS, MSRV_FLOOR_CUTOVERS}, NEW date \in Dates
  PROVE  \E i \in DOMAIN table :
           /\ ValueAt(table, date) = table[i][2]
           /\ \A j \in 1..i-1 : table[j][1] <= date
           /\ i = Len(table) \/ date < table[i][1]
<1>. DEFINE later == {i \in DOMAIN table : date < table[i][1]}
<1>1. /\ Len(table) \in Nat \ {0} /\ DOMAIN table = 1..Len(table)
      /\ \A i \in DOMAIN table : table[i][1] \in Nat
      /\ date \in Nat
  BY BucketsAssumption DEF Dates
<1>2. CASE later = {}
  <2>1. ValueAt(table, date) = table[Len(table)][2] BY <1>2 DEF ValueAt
  <2>2. \A j \in 1..Len(table)-1 : table[j][1] <= date BY <1>1, <1>2
  <2>. QED BY <1>1, <2>1, <2>2
<1>3. CASE later # {}
  <2>1. ValueAt(table, date) = table[Smallest(later)][2] BY <1>3 DEF ValueAt
  <2>2. later \subseteq Nat BY <1>1
  <2>3. Smallest(later) \in later /\ \A j \in later : Smallest(later) <= j
    BY <1>3, <2>2, SmallestOf
  <2>. DEFINE k == Smallest(later)
  <2>5. k \in 1..Len(table) BY <1>1, <2>3
  <2>6. ASSUME NEW j \in 1..k-1 PROVE j \in DOMAIN table /\ ~(date < table[j][1])
    <3>1. Len(table) \in Nat /\ k \in Nat BY <1>1, <2>5
    <3>2. j \in 1..Len(table) /\ ~(k <= j) BY <2>5, <3>1
    <3>. QED BY <1>1, <2>3, <3>2
  <2>4. \A j \in 1..k-1 : table[j][1] <= date BY <1>1, <2>6
  <2>. QED BY <1>1, <2>1, <2>3, <2>4
<1>. QED BY <1>2, <1>3

LEMMA FloorIsVersion ==
  ASSUME NEW date \in Dates
  PROVE  msrv_floor_for(date) \in Versions
BY ValueIsFirst, BucketsAssumption DEF msrv_floor_for

(***************************************************************************)
(* bucket_for and canonical_sde_for.                                       *)
(***************************************************************************)
\* What is right for a candidate's commit: a Rust of the era or the newest.
OfEra(m, date) == MILESTONE_RELEASE_DATES[m] >= date \/ \A n \in MILESTONES : n <= m

LEMMA WantedIsEnough ==
  ASSUME NEW msrv, NEW date \in Dates
  PROVE  /\ Wanted(msrv, date) \in MILESTONES
         /\ OfEra(Wanted(msrv, date), date)
         /\ msrv \in Versions =>
              Wanted(msrv, date) >= msrv \/ \A m \in MILESTONES : m < msrv
<1>. DEFINE above == {m \in MILESTONES : MILESTONE_RELEASE_DATES[m] >= date}
            enough == {m \in MILESTONES : m >= msrv}
            era == era_milestone_for_commit(date)
            floor == round_up_to_milestone(msrv)
<1>1. MILESTONES \subseteq Nat /\ date \in Nat
      /\ \A m \in MILESTONES : MILESTONE_RELEASE_DATES[m] \in Nat
  BY BucketsAssumption DEF Dates, Versions
<1>2. era \in MILESTONES /\ OfEra(era, date)
  <2>1. CASE above # {}
    BY <2>1, SmallestMilestone DEF era_milestone_for_commit, OfEra
  <2>2. CASE above = {}
    BY <2>2, LargestMilestone DEF era_milestone_for_commit, OfEra
  <2>. QED BY <2>1, <2>2
<1>3. CASE msrv \in Versions /\ enough # {}
  <2>1. floor = Smallest(enough) BY <1>3 DEF round_up_to_milestone
  <2>2. floor \in MILESTONES /\ floor >= msrv BY <1>3, <2>1, SmallestMilestone
  <2>3. floor # None BY <2>2, <1>1, BucketsAssumption DEF Versions
  <2>4. CASE floor > era
    <3>1. Wanted(msrv, date) = floor BY <2>3, <2>4 DEF Wanted
    <3>2. OfEra(floor, date)
      BY <1>1, <1>2, <2>2, <2>4, BucketsAssumption DEF OfEra
    <3>. QED BY <2>2, <3>1, <3>2
  <2>5. CASE ~(floor > era)
    <3>1. Wanted(msrv, date) = era BY <2>3, <2>5 DEF Wanted
    <3>2. era \in Nat /\ floor \in Nat /\ msrv \in Nat
      BY <1>1, <1>2, <1>3, <2>2 DEF Versions
    <3>3. era >= msrv BY <2>2, <2>5, <3>2
    <3>. QED BY <1>2, <3>1, <3>3
  <2>. QED BY <2>4, <2>5
<1>4. CASE ~(msrv \in Versions /\ enough # {})
  <2>1. floor = None BY <1>4 DEF round_up_to_milestone
  <2>2. Wanted(msrv, date) = era BY <2>1 DEF Wanted
  <2>3. ASSUME msrv \in Versions, NEW m \in MILESTONES PROVE m < msrv
    <3>1. m \in Nat /\ msrv \in Nat BY <1>1, <2>3 DEF Versions
    <3>2. ~(m >= msrv) BY <1>4, <2>3
    <3>. QED BY <3>1, <3>2
  <2>. QED BY <1>2, <2>2, <2>3
<1>. QED BY <1>3, <1>4

\* A bucket's milestone has an image for the Debian asked for, is of the era and
\* no older than the MSRV.
THEOREM BucketsAreRight ==
  ASSUME NEW msrv, NEW date \in Dates, NEW debian, bucket_for(msrv, date, debian) # None
  PROVE  LET b == bucket_for(msrv, date, debian) IN
         /\ b.milestone \in MILESTONES /\ b.year = YearOf(date) /\ b.debian = debian
         /\ <<b.milestone, debian>> \in MILESTONE_DEBIAN_SUPPORTED
         /\ OfEra(b.milestone, date)
         /\ msrv \in Versions => b.milestone >= msrv \/ \A m \in MILESTONES : m < msrv
<1>. DEFINE wanted == Wanted(msrv, date)
            published == Published(wanted, debian)
            m == Smallest(published)
<1>1. published # {} BY DEF bucket_for
<1>2. bucket_for(msrv, date, debian)
        = [milestone |-> m, year |-> YearOf(date), debian |-> debian]
  BY <1>1 DEF bucket_for
<1>3. /\ m \in MILESTONES /\ m >= wanted
      /\ <<m, debian>> \in MILESTONE_DEBIAN_SUPPORTED
  BY <1>1, SmallestMilestone DEF Published
<1>4. /\ wanted \in MILESTONES /\ OfEra(wanted, date)
      /\ msrv \in Versions => wanted >= msrv \/ \A n \in MILESTONES : n < msrv
  BY WantedIsEnough
<1>5. /\ MILESTONES \subseteq Nat /\ date \in Nat
      /\ \A n \in MILESTONES : MILESTONE_RELEASE_DATES[n] \in Nat
      /\ \A n \in MILESTONES :
           wanted <= n => MILESTONE_RELEASE_DATES[wanted] <= MILESTONE_RELEASE_DATES[n]
  BY <1>4, BucketsAssumption DEF Dates, Versions
<1>8. m \in Nat /\ wanted \in Nat BY <1>3, <1>4, <1>5
<1>6. OfEra(m, date)
  <2>1. CASE MILESTONE_RELEASE_DATES[wanted] >= date
    <3>. DEFINE rm == MILESTONE_RELEASE_DATES[m]
                rw == MILESTONE_RELEASE_DATES[wanted]
    <3>1. rm \in Nat /\ rw \in Nat /\ rw <= rm BY <1>3, <1>4, <1>5, <1>8
    <3>2. rm >= date BY <1>5, <2>1, <3>1
    <3>. QED BY <3>2 DEF OfEra
  <2>2. CASE \A n \in MILESTONES : n <= wanted
    <3>1. ASSUME NEW n \in MILESTONES PROVE n <= m
      <4>1. n \in Nat /\ n <= wanted BY <1>5, <2>2
      <4>. QED BY <1>3, <1>8, <4>1
    <3>. QED BY <3>1 DEF OfEra
  <2>. QED BY <1>4, <2>1, <2>2 DEF OfEra
<1>7. ASSUME msrv \in Versions PROVE m >= msrv \/ \A n \in MILESTONES : n < msrv
  <2>1. msrv \in Nat BY <1>7 DEF Versions
  <2>. QED BY <1>3, <1>4, <1>7, <1>8, <2>1
<1>. QED BY <1>2, <1>3, <1>6, <1>7

\* The snapshot of a bucket is not before a commit of its year.
LEMMA SnapshotNotBefore ==
  ASSUME NEW date \in Dates, NEW rust_pub \in Dates \cup {Silent}, NEW b,
         b.year = YearOf(date)
  PROVE  canonical_sde_for(b, rust_pub) \in Dates /\ canonical_sde_for(b, rust_pub) >= date
<1>. DEFINE target == b.year * 10000 + 1231
<1>1. date \in Nat /\ date % 10000 <= 1231 BY DEF Dates
<1>2. /\ b.year \in Nat
      /\ date = 10000 * b.year + (date % 10000) /\ date % 10000 \in Nat
  BY <1>1 DEF YearOf
<1>3. target \in Nat /\ target >= date BY <1>1, <1>2
<1>4. target % 10000 <= 1231 BY <1>2
<1>5. target \in Dates BY <1>3, <1>4 DEF Dates
<1>6. CASE rust_pub # Silent /\ target < rust_pub
  <2>1. rust_pub \in Dates /\ rust_pub \in Nat BY <1>6 DEF Dates
  <2>2. canonical_sde_for(b, rust_pub) = rust_pub BY <1>6 DEF canonical_sde_for
  <2>. QED BY <1>1, <1>3, <1>6, <2>1, <2>2
<1>7. CASE ~(rust_pub # Silent /\ target < rust_pub)
  <2>1. canonical_sde_for(b, rust_pub) = target BY <1>7 DEF canonical_sde_for
  <2>. QED BY <1>3, <1>5, <2>1
<1>. QED BY <1>6, <1>7

(***************************************************************************)
(* Types.                                                                  *)
(***************************************************************************)
LEMMA HostsTyped == \A s \in Sessions : Host[s] \in Platforms
BY FatImagesAssumption DEF Platforms, Range

LEMMA TagsTyped ==
  ASSUME NEW msrv, NEW date \in Dates, NEW debian, bucket_for(msrv, date, debian) # None,
         NEW rust_pub \in HubAnswers
  PROVE  LET tag == TagOf(bucket_for(msrv, date, debian), rust_pub) IN
         tag \in Tags /\ tag[3] >= date
<1>. DEFINE b == bucket_for(msrv, date, debian)
            sde == canonical_sde_for(b, rust_pub)
<1>1. rust_pub \in Dates \cup {Silent} BY FatImagesAssumption
<1>2. /\ b.milestone \in MILESTONES /\ b.year = YearOf(date) /\ b.debian = debian
      /\ <<b.milestone, debian>> \in MILESTONE_DEBIAN_SUPPORTED
  BY BucketsAreRight
<1>3. b.debian \in Debians BY <1>2 DEF Debians
<1>4. sde \in Dates /\ sde >= date BY <1>1, <1>2, SnapshotNotBefore
<1>5. TagOf(b, rust_pub) = <<b.milestone, b.debian, sde>> BY DEF TagOf, fat_image_tag
<1>. QED BY <1>2, <1>3, <1>4, <1>5 DEF Tags

LEMMA WithoutTyped ==
  ASSUME NEW S, NEW recs \in Seq(S), NEW i \in DOMAIN recs
  PROVE  Without(recs, i) \in Seq(S)
<1>1. SubSeq(recs, 1, i - 1) \in Seq(S) /\ SubSeq(recs, i + 1, Len(recs)) \in Seq(S)
  BY SubSeqProperties, LenProperties
<1>. QED BY <1>1, ConcatProperties DEF Without

LEMMA ReplaceTyped ==
  ASSUME NEW S, NEW recs \in Seq(S), NEW rec \in S
  PROVE  Replace(recs, rec) \in Seq(S)
<1>1. Len(recs) \in Nat /\ DOMAIN recs = 1..Len(recs) /\ \A i \in 1..Len(recs) : recs[i] \in S
  BY LenProperties, ElementOfSeq
<1>2. Replace(recs, rec) \in [1..Len(recs) -> S] BY <1>1 DEF Replace
<1>. QED BY <1>1, <1>2, IsASeq DEF Replace

LEMMA ListsTyped ==
  ASSUME NEW S, NEW recs \in Seq(S), NEW j, j.do = "unregister" \/ j.rec \in S,
         NEW l \in NewLists(j, recs)
  PROVE  l \in Seq(S)
<1>1. CASE j.do = "unregister"
  BY <1>1, WithoutTyped DEF NewLists, Places
<1>2. CASE j.do # "unregister"
  <2>1. Append(recs, j.rec) \in Seq(S) /\ Replace(recs, j.rec) \in Seq(S)
    BY <1>2, AppendProperties, ReplaceTyped
  <2>. QED BY <1>2, <2>1 DEF NewLists
<1>. QED BY <1>1, <1>2

LEMMA NoJobTyped == NoJob \in Jobs
<1>1. <<>> \in Seq(Records) BY EmptySeq
<1>. QED BY <1>1 DEF NoJob, Jobs

SessionsTyped ==
  /\ pc \in [Sessions -> Steps] /\ job \in [Sessions -> Jobs]
  /\ \A s \in Sessions : Equipped(pc[s], job[s])

\* A session goes on to a step that it is equipped for.
LEMMA MoveTyped ==
  ASSUME SessionsTyped, NEW s \in Sessions, NEW step \in Steps, NEW j \in Jobs,
         Equipped(step, j), pc' = [pc EXCEPT ![s] = step], job' = [job EXCEPT ![s] = j]
  PROVE  SessionsTyped'
<1>1. pc' \in [Sessions -> Steps] /\ job' \in [Sessions -> Jobs] BY DEF SessionsTyped
<1>2. ASSUME NEW t \in Sessions PROVE Equipped(pc'[t], job'[t])
  <2>1. CASE t = s BY <2>1 DEF SessionsTyped
  <2>2. CASE t # s
    <3>1. pc'[t] = pc[t] /\ job'[t] = job[t] BY <2>2 DEF SessionsTyped
    <3>. QED BY <3>1 DEF SessionsTyped
  <2>. QED BY <2>1, <2>2
<1>. QED BY <1>1, <1>2 DEF SessionsTyped

LEMMA EndTyped ==
  ASSUME SessionsTyped, NEW s \in Sessions, End(s)
  PROVE  SessionsTyped'
<1>1. "idle" \in Steps /\ Equipped("idle", NoJob) BY DEF Steps, Equipped, NoJob
<1>. QED BY <1>1, NoJobTyped, MoveTyped DEF End, Goto

\* A session goes on with the memory it has.
LEMMA GotoTyped ==
  ASSUME SessionsTyped, NEW s \in Sessions, NEW step \in Steps, Equipped(step, job[s]),
         Goto(s, step), job' = job
  PROVE  SessionsTyped'
<1>1. job[s] \in Jobs /\ job' = [job EXCEPT ![s] = job[s]] BY DEF SessionsTyped
<1>. QED BY <1>1, MoveTyped DEF Goto

LEMMA InitTyped == Init => TypeOK
<1>. SUFFICES ASSUME Init PROVE TypeOK OBVIOUS
<1>1. <<>> \in Seq(Records) BY EmptySeq
<1>2. index \in [st : {"whole", "empty", "garbled"}, recs : Seq(Records)] BY <1>1 DEF Init
<1>3. job \in [Sessions -> Jobs] BY NoJobTyped DEF Init
<1>4. ASSUME NEW s \in Sessions PROVE Equipped(pc[s], job[s])
  <2>1. pc[s] = "idle" /\ job[s].do = "nothing" BY DEF Init, NoJob
  <2>. QED BY <2>1 DEF Equipped
<1>5. ops \in 0..MaxOps /\ faults \in 0..MaxFaults BY FatImagesAssumption DEF Init
<1>. QED BY <1>2, <1>3, <1>4, <1>5 DEF Init, TypeOK, Steps

LEMMA BeginTyped ==
  ASSUME TypeOK, NEW s \in Sessions, NEW step \in Steps, NEW j \in Jobs,
         Equipped(step, j), Begin(s, step, j)
  PROVE  TypeOK'
<1>1. SessionsTyped' BY MoveTyped DEF TypeOK, SessionsTyped, Begin, Goto
<1>2. ops' \in 0..MaxOps BY FatImagesAssumption DEF TypeOK, Begin
<1>. QED BY <1>1, <1>2 DEF TypeOK, SessionsTyped, Begin, ledger

\* The drivers' and the planner's tags are tags.
LEMMA CandidateTags ==
  ASSUME NEW c \in Pool, NEW rust_pub \in HubAnswers
  PROVE  /\ DriverBucket(c) # None => TagOf(DriverBucket(c), rust_pub) \in Tags
         /\ PlannerBucket(c) # None => TagOf(PlannerBucket(c), rust_pub) \in Tags
<1>1. c.date \in Dates BY FatImagesAssumption
<1>. QED BY <1>1, TagsTyped DEF DriverBucket, PlannerBucket

LEMMA PlanTyped ==
  ASSUME TypeOK, NEW c \in Cands, Plan(c)
  PROVE  TypeOK'
<1>1. cand[c] \in Pool BY DEF TypeOK
<1>2. answers' \subseteq [by : {"planner", "driver"}, cand : Cands, tag : Tags \cup {None}]
      /\ proposed' \subseteq Tags
  <2>. DEFINE bucket == PlannerBucket(cand[c])
  <2>1. CASE bucket = None BY <2>1 DEF Plan, Told, TypeOK
  <2>2. CASE bucket # None
    <3>1. PICK rust_pub \in HubAnswers :
            LET tag == TagOf(bucket, rust_pub) IN
            /\ Told("planner", c, tag)
            /\ proposed' = proposed \cup ({tag} \ TagsOf(index.recs))
      BY <2>2 DEF Plan, rust_base_published
    <3>2. TagOf(bucket, rust_pub) \in Tags BY <1>1, <2>2, CandidateTags
    <3>. QED BY <3>1, <3>2 DEF Told, TypeOK
  <2>. QED BY <2>1, <2>2
<1>. QED BY <1>2 DEF Plan, TypeOK, ledger

LEMMA DriveTyped ==
  ASSUME TypeOK, NEW s \in Sessions, NEW c \in Cands, NEW build \in BOOLEAN, Drive(s, c, build)
  PROVE  TypeOK'
<1>. DEFINE j == [NoJob EXCEPT !.do = "drive", !.cand = c, !.build = build]
<1>1. j \in Jobs /\ j.cand = c BY NoJobTyped DEF Jobs
<1>2. PICK step \in {"preflight", "resolve"} : Begin(s, step, j) BY DEF Drive
<1>3. Equipped(step, j) BY <1>1 DEF Equipped
<1>. QED BY <1>1, <1>2, <1>3, BeginTyped DEF Steps

LEMMA PreflightTyped ==
  ASSUME TypeOK, NEW s \in Sessions, Preflight(s)
  PROVE  TypeOK'
<1>. DEFINE c == job[s].cand
            bucket == DriverBucket(cand[c])
<1>0. SessionsTyped BY DEF TypeOK, SessionsTyped
<1>1. c \in Cands /\ cand[c] \in Pool /\ pc[s] = "preflight"
  BY DEF Preflight, At, TypeOK, Equipped
<1>2. ASSUME Goto(s, "resolve"), job' = job PROVE SessionsTyped'
  <2>1. Equipped("resolve", job[s]) BY <1>1 DEF Equipped
  <2>. QED BY <1>0, <1>2, <2>1, GotoTyped DEF Steps
<1>3. CASE cand[c].date > MaxDate \/ bucket = None
  <2>1. Goto(s, "resolve") /\ UNCHANGED <<job, proposed, answers>> BY <1>3 DEF Preflight
  <2>2. SessionsTyped' BY <1>2, <2>1
  <2>. QED BY <2>1, <2>2 DEF TypeOK, SessionsTyped, Preflight, ledger
<1>4. CASE ~(cand[c].date > MaxDate \/ bucket = None)
  <2>1. PICK rust_pub \in HubAnswers :
          LET tag == TagOf(bucket, rust_pub) IN
          /\ Told("driver", c, tag)
          /\ IF tag \in {i.tag : i \in images[Host[s]]}
             THEN Goto(s, "resolve") /\ UNCHANGED <<job, proposed>>
             ELSE End(s) /\ proposed' = proposed \cup {tag}
    BY <1>4 DEF Preflight, rust_base_published
  <2>2. TagOf(bucket, rust_pub) \in Tags BY <1>1, <1>4, CandidateTags
  <2>3. proposed' \subseteq Tags BY <2>1, <2>2 DEF TypeOK
  <2>4. answers' \subseteq [by : {"planner", "driver"}, cand : Cands, tag : Tags \cup {None}]
    BY <1>1, <2>1, <2>2 DEF TypeOK, Told
  <2>5. SessionsTyped' BY <1>0, <1>2, <2>1, EndTyped
  <2>. QED BY <2>3, <2>4, <2>5 DEF TypeOK, SessionsTyped, Preflight, ledger
<1>. QED BY <1>3, <1>4

LEMMA ResolveTyped ==
  ASSUME TypeOK, NEW s \in Sessions, Resolve(s)
  PROVE  TypeOK'
<1>. DEFINE c == job[s].cand
            bucket == DriverBucket(cand[c])
<1>0. SessionsTyped /\ job[s] \in Jobs BY DEF TypeOK, SessionsTyped
<1>1. c \in Cands /\ cand[c] \in Pool /\ pc[s] = "resolve"
  BY DEF Resolve, At, TypeOK, Equipped
<1>2. CASE cand[c].date > MaxDate \/ index.st # "whole"
  <2>1. End(s) /\ UNCHANGED <<answers, used>> BY <1>2 DEF Resolve
  <2>2. SessionsTyped' BY <1>0, <2>1, EndTyped
  <2>. QED BY <2>1, <2>2 DEF TypeOK, SessionsTyped, Resolve
<1>3. CASE ~(cand[c].date > MaxDate \/ index.st # "whole") /\ bucket = None
  <2>1. End(s) /\ Told("driver", c, None) /\ UNCHANGED used BY <1>3 DEF Resolve
  <2>2. SessionsTyped' BY <1>0, <2>1, EndTyped
  <2>3. answers' \subseteq [by : {"planner", "driver"}, cand : Cands, tag : Tags \cup {None}]
    BY <1>1, <2>1 DEF TypeOK, Told
  <2>. QED BY <2>1, <2>2, <2>3 DEF TypeOK, SessionsTyped, Resolve
<1>4. CASE ~(cand[c].date > MaxDate \/ index.st # "whole") /\ bucket # None
  <2>1. PICK rust_pub \in HubAnswers :
          LET tag == TagOf(bucket, rust_pub)
              found == {r \in Range(index.recs) : r.tag = tag}
          IN /\ Told("driver", c, tag)
             /\ used' = used \cup [cand : {c}, rec : found]
             /\ IF found = {} /\ job[s].build
                THEN /\ Goto(s, "build")
                     /\ job' = [job EXCEPT ![s].tag = tag]
                ELSE End(s)
    BY <1>4 DEF Resolve, rust_base_published
  <2>. DEFINE tag == TagOf(bucket, rust_pub)
              j == [job[s] EXCEPT !.tag = tag]
  <2>2. tag \in Tags BY <1>1, <1>4, CandidateTags
  <2>3. answers' \subseteq [by : {"planner", "driver"}, cand : Cands, tag : Tags \cup {None}]
    BY <1>1, <2>1, <2>2 DEF TypeOK, Told
  <2>4. Range(index.recs) \subseteq Records
    BY ElementOfSeq, LenProperties DEF TypeOK, Range
  <2>5. used' \subseteq [cand : Cands, rec : Records] BY <1>1, <2>1, <2>4 DEF TypeOK
  <2>6. SessionsTyped'
    <3>1. CASE Goto(s, "build") /\ job' = [job EXCEPT ![s].tag = tag]
      <4>1. j \in Jobs /\ j.tag = tag /\ j.cand = c /\ job' = [job EXCEPT ![s] = j]
        BY <1>0, <2>2, <3>1 DEF Jobs, TypeOK
      <4>2. Equipped("build", j) BY <1>1, <2>2, <4>1 DEF Equipped
      <4>. QED BY <1>0, <3>1, <4>1, <4>2, MoveTyped DEF Steps, Goto
    <3>2. CASE End(s) BY <1>0, <3>2, EndTyped
    <3>. QED BY <2>1, <3>1, <3>2
  <2>. QED BY <2>3, <2>5, <2>6 DEF TypeOK, SessionsTyped, Resolve
<1>. QED BY <1>2, <1>3, <1>4

LEMMA StartTyped ==
  ASSUME TypeOK, NEW s \in Sessions, NEW tag \in Tags, NEW update \in BOOLEAN,
         StartBuild(s, tag) \/ StartRegister(s, tag, update) \/ StartUnregister(s, tag)
  PROVE  TypeOK'
<1>1. ASSUME NEW step \in {"build", "introspect", "load"}, NEW j \in Jobs,
             j.do # "drive", j.tag = tag, step = "load" => j.do = "unregister"
      PROVE  Equipped(step, j)
  BY <1>1 DEF Equipped
<1>2. CASE StartBuild(s, tag)
  <2>. DEFINE j == [NoJob EXCEPT !.do = "build", !.tag = tag]
  <2>1. j \in Jobs /\ j.do = "build" /\ j.tag = tag BY NoJobTyped DEF Jobs, NoJob
  <2>. QED BY <1>1, <1>2, <2>1, BeginTyped DEF StartBuild, Steps
<1>3. CASE StartRegister(s, tag, update)
  <2>. DEFINE j == [NoJob EXCEPT !.do = "register", !.tag = tag, !.update = update]
  <2>1. j \in Jobs /\ j.do = "register" /\ j.tag = tag BY NoJobTyped DEF Jobs, NoJob
  <2>. QED BY <1>1, <1>3, <2>1, BeginTyped DEF StartRegister, Steps
<1>4. CASE StartUnregister(s, tag)
  <2>. DEFINE j == [NoJob EXCEPT !.do = "unregister", !.tag = tag]
  <2>1. j \in Jobs /\ j.do = "unregister" /\ j.tag = tag BY NoJobTyped DEF Jobs, NoJob
  <2>. QED BY <1>1, <1>4, <2>1, BeginTyped DEF StartUnregister, Steps
<1>. QED BY <1>2, <1>3, <1>4

LEMMA BuildTyped ==
  ASSUME TypeOK, NEW s \in Sessions, build_fat_image(s)
  PROVE  TypeOK'
<1>0. SessionsTyped /\ job[s] \in Jobs /\ pc[s] = "build" /\ job[s].tag \in Tags
  BY DEF TypeOK, SessionsTyped, build_fat_image, At, Equipped
<1>1. CASE images' = [images EXCEPT ![Host[s]] =
                        {i \in @ : i.tag # job[s].tag} \cup {Built(job[s].tag)}]
           /\ Goto(s, "introspect") /\ UNCHANGED job
  <2>1. Equipped("introspect", job[s]) BY <1>0 DEF TypeOK, Equipped
  <2>2. SessionsTyped' BY <1>0, <1>1, <2>1, GotoTyped DEF Steps
  <2>3. Built(job[s].tag) \in Images
    BY <1>0, BucketsAssumption DEF Built, Images, Tags, Versions
  <2>4. images' \in [Platforms -> SUBSET Images] BY <1>1, <2>3, HostsTyped DEF TypeOK
  <2>. QED BY <2>2, <2>4 DEF TypeOK, SessionsTyped, build_fat_image, ledger
<1>2. CASE End(s) /\ UNCHANGED images
  <2>1. SessionsTyped' BY <1>0, <1>2, EndTyped
  <2>. QED BY <1>2, <2>1 DEF TypeOK, SessionsTyped, build_fat_image, ledger
<1>. QED BY <1>1, <1>2 DEF build_fat_image

LEMMA IntrospectTyped ==
  ASSUME TypeOK, NEW s \in Sessions, introspect_fat_image(s)
  PROVE  TypeOK'
<1>0. SessionsTyped /\ job[s] \in Jobs /\ pc[s] = "introspect"
      /\ job[s].tag \in Tags /\ Equipped("introspect", job[s])
  BY DEF TypeOK, SessionsTyped, introspect_fat_image, At, Equipped
<1>1. SessionsTyped'
  <2>1. CASE End(s) BY <1>0, <2>1, EndTyped
  <2>2. CASE ~End(s)
    <3>1. PICK i \in images[Host[s]] :
            /\ job' = [job EXCEPT ![s].rec =
                         [tag |-> i.tag, rust |-> i.rust, debian |-> i.debian,
                          snapshot |-> i.snapshot, platforms |-> {Host[s]}]]
            /\ Goto(s, "load")
      BY <2>2 DEF introspect_fat_image
    <3>. DEFINE rec == [tag |-> i.tag, rust |-> i.rust, debian |-> i.debian,
                        snapshot |-> i.snapshot, platforms |-> {Host[s]}]
                j == [job[s] EXCEPT !.rec = rec]
    <3>2. i \in Images BY HostsTyped DEF TypeOK
    <3>3. rec \in Records BY <3>2, HostsTyped DEF Images, Records
    <3>4. j \in Jobs /\ j.rec = rec /\ j.tag = job[s].tag /\ j.cand = job[s].cand
          /\ j.do = job[s].do /\ job' = [job EXCEPT ![s] = j]
      BY <1>0, <3>1, <3>3 DEF Jobs, TypeOK
    <3>5. Equipped("load", j) BY <1>0, <3>3, <3>4 DEF Equipped
    <3>. QED BY <1>0, <3>1, <3>4, <3>5, MoveTyped DEF Steps, Goto
  <2>. QED BY <2>1, <2>2
<1>. QED BY <1>1 DEF TypeOK, SessionsTyped, introspect_fat_image, ledger

LEMMA LoadTyped ==
  ASSUME TypeOK, NEW s \in Sessions, Load(s)
  PROVE  TypeOK'
<1>0. SessionsTyped /\ job[s] \in Jobs /\ pc[s] = "load"
      /\ Equipped("load", job[s]) /\ index.recs \in Seq(Records) /\ writes \in Nat
  BY DEF TypeOK, SessionsTyped, Load, At
<1>1. SessionsTyped'
  <2>1. CASE End(s) BY <1>0, <2>1, EndTyped
  <2>2. CASE ~End(s)
    <3>1. PICK recs \in NewLists(job[s], index.recs) :
            job' = [job EXCEPT ![s].recs = recs, ![s].base = writes]
      BY <2>2 DEF Load
    <3>2. Goto(s, "reread") BY <2>2 DEF Load
    <3>3. job[s].do = "unregister" \/ job[s].rec \in Records BY <1>0 DEF Equipped
    <3>4. recs \in Seq(Records) BY <1>0, <3>3, ListsTyped
    <3>. DEFINE j == [job[s] EXCEPT !.recs = recs, !.base = writes]
    <3>5. j \in Jobs /\ j.rec = job[s].rec /\ j.tag = job[s].tag /\ j.cand = job[s].cand
          /\ j.do = job[s].do
      BY <1>0, <3>4 DEF Jobs
    <3>6. job' = [job EXCEPT ![s] = j] BY <3>1 DEF TypeOK
    <3>7. Equipped("reread", j) BY <1>0, <3>5 DEF Equipped
    <3>. QED BY <1>0, <3>2, <3>5, <3>6, <3>7, MoveTyped DEF Steps, Goto
  <2>. QED BY <2>1, <2>2
<1>. QED BY <1>1 DEF TypeOK, SessionsTyped, Load, ledger

LEMMA RereadTyped ==
  ASSUME TypeOK, NEW s \in Sessions, Reread(s)
  PROVE  TypeOK'
<1>0. SessionsTyped /\ Equipped("reread", job[s])
  BY DEF TypeOK, SessionsTyped, Reread, At
<1>1. Equipped("open", job[s]) BY <1>0 DEF Equipped
<1>2. SessionsTyped' BY <1>0, <1>1, GotoTyped, EndTyped DEF Reread, Steps
<1>. QED BY <1>2 DEF TypeOK, SessionsTyped, Reread, ledger

LEMMA OpenTyped ==
  ASSUME TypeOK, NEW s \in Sessions, Open(s)
  PROVE  TypeOK'
<1>0. SessionsTyped /\ Equipped("open", job[s])
  BY DEF TypeOK, SessionsTyped, Open, At
<1>1. Equipped("write", job[s]) BY <1>0 DEF Equipped
<1>2. SessionsTyped' BY <1>0, <1>1, GotoTyped DEF Open, Steps
<1>3. index' \in [st : {"whole", "empty", "garbled"}, recs : Seq(Records)]
  <2>1. <<>> \in Seq(Records) BY EmptySeq
  <2>. QED BY <2>1 DEF Open
<1>. QED BY <1>2, <1>3 DEF TypeOK, SessionsTyped, Open

LEMMA WriteTyped ==
  ASSUME TypeOK, NEW s \in Sessions, Write(s)
  PROVE  TypeOK'
<1>0. SessionsTyped /\ job[s] \in Jobs /\ pc[s] = "write" /\ Equipped("write", job[s])
  BY DEF TypeOK, SessionsTyped, Write, At
<1>1. SessionsTyped' BY <1>0, EndTyped DEF Write
<1>2. job[s].recs \in Seq(Records) /\ <<>> \in Seq(Records) BY <1>0, EmptySeq DEF Jobs
<1>3. index' \in [st : {"whole", "empty", "garbled"}, recs : Seq(Records)]
  <2>1. CASE index' = [st |-> "whole", recs |-> job[s].recs] BY <1>2, <2>1
  <2>2. CASE index' = [st |-> "garbled", recs |-> <<>>] BY <1>2, <2>2
  <2>. QED BY <2>1, <2>2 DEF Write
<1>4. writes' \in Nat /\ overlapped' \in BOOLEAN BY DEF Write, TypeOK
<1>5. registered' \subseteq Tags BY <1>0 DEF Write, TypeOK, Equipped
<1>6. used' \subseteq [cand : Cands, rec : Records] BY <1>0 DEF Write, TypeOK, Equipped
<1>. QED BY <1>1, <1>3, <1>4, <1>5, <1>6 DEF TypeOK, SessionsTyped, Write

LEMMA CrashTyped ==
  ASSUME TypeOK, NEW s \in Sessions, Crash(s)
  PROVE  TypeOK'
<1>1. SessionsTyped' BY EndTyped DEF Crash, TypeOK, SessionsTyped
<1>2. faults' \in 0..MaxFaults BY FatImagesAssumption DEF Crash, TypeOK
<1>3. cut' \in BOOLEAN BY DEF Crash, TypeOK
<1>. QED BY <1>1, <1>2, <1>3 DEF TypeOK, SessionsTyped, Crash, ledger

LEMMA NextTyped == TypeOK /\ [Next]_vars => TypeOK'
<1>. SUFFICES ASSUME TypeOK, [Next]_vars PROVE TypeOK' OBVIOUS
<1>1. CASE UNCHANGED vars BY <1>1 DEF TypeOK, vars, ledger
<1>2. CASE \E c \in Cands : Plan(c) BY <1>2, PlanTyped
<1>3. ASSUME NEW s \in Sessions, NEW c \in Cands, NEW build \in BOOLEAN, Drive(s, c, build)
      PROVE TypeOK'
  BY <1>3, DriveTyped
<1>4. ASSUME NEW s \in Sessions, NEW tag \in proposed, StartBuild(s, tag) PROVE TypeOK'
  BY <1>4, StartTyped DEF TypeOK
<1>5. ASSUME NEW s \in Sessions, NEW tag \in {i.tag : i \in images[Host[s]]},
             NEW update \in BOOLEAN, StartRegister(s, tag, update)
      PROVE TypeOK'
  <2>1. tag \in Tags BY HostsTyped DEF TypeOK, Images
  <2>. QED BY <1>5, <2>1, StartTyped
<1>6. ASSUME NEW s \in Sessions, NEW tag \in registered, StartUnregister(s, tag) PROVE TypeOK'
  BY <1>6, StartTyped DEF TypeOK
<1>7. ASSUME NEW s \in Sessions,
             \/ Preflight(s) \/ Resolve(s) \/ build_fat_image(s) \/ introspect_fat_image(s)
             \/ Load(s) \/ Reread(s) \/ Open(s) \/ Write(s) \/ Crash(s)
      PROVE TypeOK'
  BY <1>7, PreflightTyped, ResolveTyped, BuildTyped, IntrospectTyped, LoadTyped,
     RereadTyped, OpenTyped, WriteTyped, CrashTyped
<1>. QED BY <1>1, <1>2, <1>3, <1>4, <1>5, <1>6, <1>7 DEF Next

\* The variables keep their types.
THEOREM TypeCorrect == Spec => []TypeOK
BY InitTyped, NextTyped, PTL DEF Spec
-----------------------------------------------------------------------------
(***************************************************************************)
(* The driver's tag fits its candidate.                                    *)
(***************************************************************************)
Fits(tag, c) ==
  /\ \E i \in DOMAIN DEBIAN_CUTOVERS :
       /\ DEBIAN_CUTOVERS[i][2] = tag[2]
       /\ \A j \in 1..i-1 : DEBIAN_CUTOVERS[j][1] <= c.date
  /\ <<tag[1], tag[2]>> \in MILESTONE_DEBIAN_SUPPORTED
  /\ c.msrv \in Versions => tag[1] >= c.msrv \/ \A m \in MILESTONES : m < c.msrv
  /\ OfEra(tag[1], c.date)
  /\ tag[3] >= c.date

LEMMA DriverFits ==
  ASSUME NEW c \in Pool, DriverBucket(c) # None, NEW rust_pub \in HubAnswers
  PROVE  Fits(TagOf(DriverBucket(c), rust_pub), c)
<1>. DEFINE debian == debian_release_for(c.date)
            msrv == DriverMsrv(c)
            b == bucket_for(msrv, c.date, debian)
            tag == TagOf(b, rust_pub)
<1>1. c.date \in Dates BY FatImagesAssumption
<1>2. b = DriverBucket(c) /\ b # None BY DEF DriverBucket
<1>3. tag = <<b.milestone, b.debian, canonical_sde_for(b, rust_pub)>>
  BY DEF TagOf, fat_image_tag
<1>4. tag[3] >= c.date BY <1>1, <1>2, TagsTyped
<1>5. /\ b.debian = debian /\ <<b.milestone, debian>> \in MILESTONE_DEBIAN_SUPPORTED
      /\ OfEra(b.milestone, c.date)
      /\ msrv \in Versions => b.milestone >= msrv \/ \A m \in MILESTONES : m < msrv
  BY <1>1, <1>2, BucketsAreRight
<1>6. \E i \in DOMAIN DEBIAN_CUTOVERS :
        /\ DEBIAN_CUTOVERS[i][2] = debian
        /\ \A j \in 1..i-1 : DEBIAN_CUTOVERS[j][1] <= c.date
  <2>1. PICK i \in DOMAIN DEBIAN_CUTOVERS :
          /\ debian = DEBIAN_CUTOVERS[i][2]
          /\ \A j \in 1..i-1 : DEBIAN_CUTOVERS[j][1] <= c.date
    BY <1>1, ValueIsFirst DEF debian_release_for
  <2>. QED BY <2>1
<1>7. c.msrv \in Versions => msrv = c.msrv BY BucketsAssumption DEF DriverMsrv
<1>8. tag[1] = b.milestone /\ tag[2] = debian BY <1>3, <1>5
<1>9. Fits(tag, c) BY <1>4, <1>5, <1>6, <1>7, <1>8 DEF Fits
<1>. QED BY <1>2, <1>9

(***************************************************************************)
(* The invariant: an image is what its tag says, from the build to the     *)
(* ledger, and a driver's own image is of the tag that fits its candidate. *)
(***************************************************************************)
Honest(i) == i.tag = fat_image_tag(i.rust, i.debian, i.snapshot)
HonestRecords == {r \in Records : Honest(r)}

SessionSound(step, j) ==
  /\ j.recs \in Seq(HonestRecords)
  /\ step \in {"load", "reread", "open", "write"} =>
       j.do = "unregister" \/ j.rec \in HonestRecords
  /\ j.do = "drive" /\ step \in {"build", "introspect", "load", "reread", "open", "write"} =>
       Fits(j.tag, cand[j.cand])
  /\ j.do = "drive" /\ step \in {"load", "reread", "open", "write"} => j.rec.tag = j.tag

SessionsSound == \A s \in Sessions : SessionSound(pc[s], job[s])
ImagesHonest == \A p \in Platforms : \A i \in images[p] : Honest(i)
LedgerHonest == index.recs \in Seq(HonestRecords)
UsesSound == \A u \in used : u.rec \in HonestRecords /\ Fits(u.rec.tag, cand[u.cand])

Sound == TypeOK /\ SessionsSound /\ ImagesHonest /\ LedgerHonest /\ UsesSound

LEMMA NoRecords == <<>> \in Seq(HonestRecords)
BY EmptySeq

LEMMA InitSound == Init => Sound
<1>. SUFFICES ASSUME Init PROVE Sound OBVIOUS
<1>1. ASSUME NEW s \in Sessions PROVE SessionSound(pc[s], job[s])
  <2>1. pc[s] = "idle" /\ job[s] = NoJob BY DEF Init
  <2>. QED BY <2>1, NoRecords DEF SessionSound, NoJob
<1>. QED BY <1>1, InitTyped, NoRecords
         DEF Init, Sound, SessionsSound, ImagesHonest, LedgerHonest, UsesSound

\* A session goes on, and the others are as they were.
LEMMA MoveSound ==
  ASSUME TypeOK, SessionsSound, cand' = cand, NEW s \in Sessions, NEW step, NEW j,
         SessionSound(step, j), pc' = [pc EXCEPT ![s] = step], job' = [job EXCEPT ![s] = j]
  PROVE  SessionsSound'
<1>1. ASSUME NEW t \in Sessions PROVE SessionSound(pc[t], job[t])'
  <2>1. CASE t = s
    <3>1. pc'[t] = step /\ job'[t] = j BY <2>1 DEF TypeOK
    <3>. QED BY <3>1 DEF SessionSound
  <2>2. CASE t # s
    <3>1. pc'[t] = pc[t] /\ job'[t] = job[t] BY <2>2 DEF TypeOK
    <3>. QED BY <3>1 DEF SessionSound, SessionsSound
  <2>. QED BY <2>1, <2>2
<1>. QED BY <1>1 DEF SessionsSound

LEMMA EndSound ==
  ASSUME TypeOK, SessionsSound, cand' = cand, NEW s \in Sessions, End(s)
  PROVE  SessionsSound'
<1>1. SessionSound("idle", NoJob) BY NoRecords DEF SessionSound, NoJob
<1>. QED BY <1>1, MoveSound DEF End, Goto

\* A session goes on with the memory it has.
LEMMA GotoSound ==
  ASSUME TypeOK, SessionsSound, cand' = cand, NEW s \in Sessions, NEW step,
         SessionSound(step, job[s]), Goto(s, step), job' = job
  PROVE  SessionsSound'
<1>1. job' = [job EXCEPT ![s] = job[s]] BY DEF TypeOK
<1>. QED BY <1>1, MoveSound DEF Goto

LEMMA BeginSound ==
  ASSUME Sound, NEW s \in Sessions, NEW step, NEW j, SessionSound(step, j), Begin(s, step, j)
  PROVE  SessionsSound' /\ ImagesHonest' /\ LedgerHonest' /\ UsesSound'
<1>1. SessionsSound' BY MoveSound DEF Sound, Begin, Goto
<1>. QED BY <1>1 DEF Sound, Begin, ledger, ImagesHonest, LedgerHonest, UsesSound

LEMMA StartSound ==
  ASSUME Sound, NEW s \in Sessions, NEW tag, NEW update, NEW c, NEW build,
         \/ Drive(s, c, build) \/ StartBuild(s, tag)
         \/ StartRegister(s, tag, update) \/ StartUnregister(s, tag)
  PROVE  SessionsSound' /\ ImagesHonest' /\ LedgerHonest' /\ UsesSound'
<1>1. CASE Drive(s, c, build)
  <2>. DEFINE j == [NoJob EXCEPT !.do = "drive", !.cand = c, !.build = build]
  <2>1. PICK step \in {"preflight", "resolve"} : Begin(s, step, j) BY <1>1 DEF Drive
  <2>2. SessionSound(step, j) BY NoRecords DEF SessionSound, NoJob
  <2>. QED BY <2>1, <2>2, BeginSound
<1>2. CASE StartBuild(s, tag)
  <2>. DEFINE j == [NoJob EXCEPT !.do = "build", !.tag = tag]
  <2>1. SessionSound("build", j) BY NoRecords DEF SessionSound, NoJob
  <2>. QED BY <1>2, <2>1, BeginSound DEF StartBuild
<1>3. CASE StartRegister(s, tag, update)
  <2>. DEFINE j == [NoJob EXCEPT !.do = "register", !.tag = tag, !.update = update]
  <2>1. SessionSound("introspect", j) BY NoRecords DEF SessionSound, NoJob
  <2>. QED BY <1>3, <2>1, BeginSound DEF StartRegister
<1>4. CASE StartUnregister(s, tag)
  <2>. DEFINE j == [NoJob EXCEPT !.do = "unregister", !.tag = tag]
  <2>1. SessionSound("load", j) BY NoRecords DEF SessionSound, NoJob
  <2>. QED BY <1>4, <2>1, BeginSound DEF StartUnregister
<1>. QED BY <1>1, <1>2, <1>3, <1>4

LEMMA PreflightSound ==
  ASSUME Sound, NEW s \in Sessions, Preflight(s)
  PROVE  SessionsSound' /\ ImagesHonest' /\ LedgerHonest' /\ UsesSound'
<1>1. SessionSound("resolve", job[s])
  BY DEF Sound, SessionsSound, SessionSound
<1>2. End(s) \/ (Goto(s, "resolve") /\ job' = job) BY DEF Preflight
<1>3. SessionsSound' BY <1>1, <1>2, GotoSound, EndSound DEF Preflight, Sound
<1>. QED BY <1>3 DEF Sound, Preflight, ledger, ImagesHonest, LedgerHonest, UsesSound

LEMMA ResolveSound ==
  ASSUME Sound, NEW s \in Sessions, Resolve(s)
  PROVE  SessionsSound' /\ ImagesHonest' /\ LedgerHonest' /\ UsesSound'
<1>. DEFINE c == job[s].cand
            bucket == DriverBucket(cand[c])
<1>0. /\ c \in Cands /\ cand[c] \in Pool /\ pc[s] = "resolve" /\ cand' = cand
      /\ job[s] \in Jobs /\ index.recs \in Seq(HonestRecords)
  BY DEF Resolve, At, Sound, LedgerHonest, TypeOK, Equipped
<1>1. SessionsSound' /\ UsesSound'
  <2>1. CASE End(s) /\ used' = used
    BY <1>0, <2>1, EndSound DEF Sound, UsesSound
  <2>2. CASE ~(End(s) /\ used' = used)
    <3>1. bucket # None BY <2>2 DEF Resolve
    <3>2. PICK rust_pub \in HubAnswers :
            LET tag == TagOf(bucket, rust_pub)
                found == {r \in Range(index.recs) : r.tag = tag}
            IN /\ used' = used \cup [cand : {c}, rec : found]
               /\ IF found = {} /\ job[s].build
                  THEN /\ Goto(s, "build")
                       /\ job' = [job EXCEPT ![s].tag = tag]
                  ELSE End(s)
      BY <2>2 DEF Resolve, rust_base_published
    <3>. DEFINE tag == TagOf(bucket, rust_pub)
                found == {r \in Range(index.recs) : r.tag = tag}
                j == [job[s] EXCEPT !.tag = tag]
    <3>3. Fits(tag, cand[c]) BY <1>0, <3>1, DriverFits
    <3>4. Range(index.recs) \subseteq HonestRecords
      BY <1>0, ElementOfSeq, LenProperties DEF Range
    <3>5. UsesSound'
      <4>1. ASSUME NEW u \in used' PROVE u.rec \in HonestRecords /\ Fits(u.rec.tag, cand[u.cand])
        <5>1. CASE u \in used BY <5>1 DEF Sound, UsesSound
        <5>2. CASE u \in [cand : {c}, rec : found]
          <6>1. u.cand = c /\ u.rec \in found BY <5>2
          <6>2. u.rec \in Range(index.recs) /\ u.rec.tag = tag BY <6>1
          <6>. QED BY <3>3, <3>4, <6>1, <6>2
        <5>. QED BY <3>2, <5>1, <5>2
      <4>. QED BY <1>0, <4>1 DEF UsesSound, Fits
    <3>6. SessionsSound'
      <4>1. CASE Goto(s, "build") /\ job' = [job EXCEPT ![s].tag = tag]
        <5>1. /\ j.do = job[s].do /\ j.tag = tag /\ j.cand = c /\ j.recs = job[s].recs
              /\ job' = [job EXCEPT ![s] = j]
          BY <1>0, <4>1 DEF Jobs, Sound, TypeOK
        <5>2. SessionSound("build", j)
          BY <3>3, <5>1 DEF SessionSound, Sound, SessionsSound
        <5>. QED BY <1>0, <4>1, <5>1, <5>2, MoveSound DEF Goto, Sound
      <4>2. CASE End(s) BY <1>0, <4>2, EndSound DEF Sound
      <4>. QED BY <3>2, <4>1, <4>2
    <3>. QED BY <3>5, <3>6
  <2>. QED BY <2>1, <2>2
<1>2. ImagesHonest' /\ LedgerHonest' BY DEF Sound, Resolve, ImagesHonest, LedgerHonest
<1>. QED BY <1>1, <1>2

LEMMA BuildSound ==
  ASSUME Sound, NEW s \in Sessions, build_fat_image(s)
  PROVE  SessionsSound' /\ ImagesHonest' /\ LedgerHonest' /\ UsesSound'
<1>0. SessionSound("build", job[s]) /\ cand' = cand /\ TypeOK /\ SessionsSound
  BY DEF Sound, SessionsSound, build_fat_image, At
<1>1. SessionSound("introspect", job[s]) BY <1>0 DEF SessionSound
<1>2. SessionsSound' BY <1>0, <1>1, GotoSound, EndSound DEF build_fat_image
<1>3. Honest(Built(job[s].tag))
  <2>1. job[s].tag \in Tags BY DEF Sound, TypeOK, Equipped, build_fat_image, At
  <2>. QED BY <2>1 DEF Honest, Built, Tags, fat_image_tag
<1>4. ImagesHonest'
  <2>1. ASSUME NEW p \in Platforms, NEW i \in images'[p] PROVE i \in images[p] \/ i = Built(job[s].tag)
    BY <2>1 DEF build_fat_image, Sound, TypeOK
  <2>. QED BY <1>3, <2>1 DEF ImagesHonest, Sound
<1>. QED BY <1>2, <1>4 DEF Sound, build_fat_image, ledger, LedgerHonest, UsesSound

LEMMA IntrospectSound ==
  ASSUME Sound, NEW s \in Sessions, introspect_fat_image(s)
  PROVE  SessionsSound' /\ ImagesHonest' /\ LedgerHonest' /\ UsesSound'
<1>0. SessionSound("introspect", job[s]) /\ cand' = cand /\ TypeOK /\ SessionsSound
      /\ job[s] \in Jobs
  BY DEF Sound, SessionsSound, introspect_fat_image, At, TypeOK
<1>1. SessionsSound'
  <2>1. CASE End(s) BY <1>0, <2>1, EndSound
  <2>2. CASE ~End(s)
    <3>1. PICK i \in {k \in images[Host[s]] : k.tag = job[s].tag} :
            /\ job' = [job EXCEPT ![s].rec =
                         [tag |-> i.tag, rust |-> i.rust, debian |-> i.debian,
                          snapshot |-> i.snapshot, platforms |-> {Host[s]}]]
            /\ Goto(s, "load")
      BY <2>2 DEF introspect_fat_image
    <3>. DEFINE rec == [tag |-> i.tag, rust |-> i.rust, debian |-> i.debian,
                        snapshot |-> i.snapshot, platforms |-> {Host[s]}]
                j == [job[s] EXCEPT !.rec = rec]
    <3>2. i \in Images /\ Honest(i) /\ i.tag = job[s].tag
      BY HostsTyped DEF Sound, TypeOK, ImagesHonest
    <3>3. rec \in HonestRecords
      <4>1. rec \in Records BY <3>2, HostsTyped DEF Images, Records
      <4>2. Honest(rec) BY <3>2 DEF Honest
      <4>. QED BY <4>1, <4>2 DEF HonestRecords
    <3>4. j.rec = rec /\ j.tag = job[s].tag /\ j.cand = job[s].cand
          /\ j.do = job[s].do /\ j.recs = job[s].recs /\ job' = [job EXCEPT ![s] = j]
      BY <1>0, <3>1 DEF Jobs, TypeOK
    <3>5. SessionSound("load", j) BY <1>0, <3>2, <3>3, <3>4 DEF SessionSound
    <3>. QED BY <1>0, <3>1, <3>4, <3>5, MoveSound DEF Goto
  <2>. QED BY <2>1, <2>2
<1>. QED BY <1>1 DEF Sound, introspect_fat_image, ledger, ImagesHonest, LedgerHonest, UsesSound

LEMMA LoadSound ==
  ASSUME Sound, NEW s \in Sessions, Load(s)
  PROVE  SessionsSound' /\ ImagesHonest' /\ LedgerHonest' /\ UsesSound'
<1>0. SessionSound("load", job[s]) /\ cand' = cand /\ TypeOK /\ SessionsSound
      /\ job[s] \in Jobs /\ index.recs \in Seq(HonestRecords)
  BY DEF Sound, SessionsSound, LedgerHonest, Load, At, TypeOK
<1>1. SessionsSound'
  <2>1. CASE End(s) BY <1>0, <2>1, EndSound
  <2>2. CASE ~End(s)
    <3>1. PICK recs \in NewLists(job[s], index.recs) :
            job' = [job EXCEPT ![s].recs = recs, ![s].base = writes]
      BY <2>2 DEF Load
    <3>2. Goto(s, "reread") BY <2>2 DEF Load
    <3>3. job[s].do = "unregister" \/ job[s].rec \in HonestRecords BY <1>0 DEF SessionSound
    <3>4. recs \in Seq(HonestRecords) BY <1>0, <3>3, ListsTyped
    <3>. DEFINE j == [job[s] EXCEPT !.recs = recs, !.base = writes]
    <3>5. j.recs = recs /\ j.rec = job[s].rec /\ j.tag = job[s].tag /\ j.cand = job[s].cand
          /\ j.do = job[s].do
      BY <1>0 DEF Jobs
    <3>6. job' = [job EXCEPT ![s] = j] BY <3>1 DEF Sound, TypeOK
    <3>7. SessionSound("reread", j) BY <1>0, <3>4, <3>5 DEF SessionSound
    <3>. QED BY <1>0, <3>2, <3>6, <3>7, MoveSound DEF Goto
  <2>. QED BY <2>1, <2>2
<1>. QED BY <1>1 DEF Sound, Load, ledger, ImagesHonest, LedgerHonest, UsesSound

LEMMA RereadSound ==
  ASSUME Sound, NEW s \in Sessions, Reread(s)
  PROVE  SessionsSound' /\ ImagesHonest' /\ LedgerHonest' /\ UsesSound'
<1>0. SessionSound("reread", job[s]) /\ cand' = cand /\ TypeOK /\ SessionsSound
  BY DEF Sound, SessionsSound, Reread, At
<1>1. SessionSound("open", job[s]) BY <1>0 DEF SessionSound
<1>2. SessionsSound' BY <1>0, <1>1, GotoSound, EndSound DEF Reread
<1>. QED BY <1>2 DEF Sound, Reread, ledger, ImagesHonest, LedgerHonest, UsesSound

LEMMA OpenSound ==
  ASSUME Sound, NEW s \in Sessions, Open(s)
  PROVE  SessionsSound' /\ ImagesHonest' /\ LedgerHonest' /\ UsesSound'
<1>0. SessionSound("open", job[s]) /\ cand' = cand /\ TypeOK /\ SessionsSound
  BY DEF Sound, SessionsSound, Open, At
<1>1. SessionSound("write", job[s]) BY <1>0 DEF SessionSound
<1>2. SessionsSound' BY <1>0, <1>1, GotoSound DEF Open
<1>3. LedgerHonest' BY NoRecords DEF LedgerHonest, Open
<1>. QED BY <1>2, <1>3 DEF Sound, Open, ImagesHonest, UsesSound

LEMMA WriteSound ==
  ASSUME Sound, NEW s \in Sessions, Write(s)
  PROVE  SessionsSound' /\ ImagesHonest' /\ LedgerHonest' /\ UsesSound'
<1>0. SessionSound("write", job[s]) /\ cand' = cand /\ TypeOK /\ SessionsSound
  BY DEF Sound, SessionsSound, Write, At
<1>1. SessionsSound' BY <1>0, EndSound DEF Write
<1>2. LedgerHonest'
  <2>1. job[s].recs \in Seq(HonestRecords) BY <1>0 DEF SessionSound
  <2>2. index'.recs = job[s].recs \/ index'.recs = <<>> BY DEF Write
  <2>. QED BY <2>1, <2>2, NoRecords DEF LedgerHonest
<1>3. UsesSound'
  <2>1. ASSUME NEW u \in used' PROVE u.rec \in HonestRecords /\ Fits(u.rec.tag, cand[u.cand])
    <3>1. CASE u \in used BY <3>1 DEF Sound, UsesSound
    <3>2. CASE u \notin used
      <4>1. job[s].do = "drive" /\ u = [cand |-> job[s].cand, rec |-> job[s].rec]
        BY <3>2 DEF Write
      <4>. QED BY <1>0, <4>1 DEF SessionSound
    <3>. QED BY <3>1, <3>2
  <2>. QED BY <1>0, <2>1 DEF UsesSound, Fits
<1>. QED BY <1>1, <1>2, <1>3 DEF Sound, Write, ImagesHonest

LEMMA CrashSound ==
  ASSUME Sound, NEW s \in Sessions, Crash(s)
  PROVE  SessionsSound' /\ ImagesHonest' /\ LedgerHonest' /\ UsesSound'
<1>1. SessionsSound' BY EndSound DEF Sound, Crash
<1>. QED BY <1>1 DEF Sound, Crash, ledger, ImagesHonest, LedgerHonest, UsesSound

LEMMA StayedSound ==
  ASSUME Sound, UNCHANGED <<cand, index, images, pc, job, used>>
  PROVE  SessionsSound' /\ ImagesHonest' /\ LedgerHonest' /\ UsesSound'
<1>1. ASSUME NEW s \in Sessions PROVE SessionSound(pc[s], job[s])'
  BY DEF Sound, SessionsSound, SessionSound
<1>. QED BY <1>1 DEF Sound, SessionsSound, ImagesHonest, LedgerHonest, UsesSound

LEMMA NextSound == Sound /\ [Next]_vars => Sound'
<1>. SUFFICES ASSUME Sound, [Next]_vars PROVE Sound' OBVIOUS
<1>. DEFINE Goal == SessionsSound' /\ ImagesHonest' /\ LedgerHonest' /\ UsesSound'
<1>0. TypeOK' BY NextTyped DEF Sound
<1>1. CASE UNCHANGED vars
  <2>1. Goal BY <1>1, StayedSound DEF vars
  <2>. QED BY <1>0, <2>1 DEF Sound
<1>2. ASSUME NEW c \in Cands, Plan(c) PROVE Goal
  BY <1>2, StayedSound DEF Plan, ledger
<1>3. ASSUME NEW s \in Sessions, NEW c \in Cands, NEW build \in BOOLEAN, Drive(s, c, build)
      PROVE Goal
  BY <1>3, StartSound
<1>4. ASSUME NEW s \in Sessions, NEW tag \in proposed, StartBuild(s, tag) PROVE Goal
  BY <1>4, StartSound
<1>5. ASSUME NEW s \in Sessions, NEW tag \in {i.tag : i \in images[Host[s]]},
             NEW update \in BOOLEAN, StartRegister(s, tag, update)
      PROVE Goal
  BY <1>5, StartSound
<1>6. ASSUME NEW s \in Sessions, NEW tag \in registered, StartUnregister(s, tag) PROVE Goal
  BY <1>6, StartSound
<1>7. ASSUME NEW s \in Sessions,
             \/ Preflight(s) \/ Resolve(s) \/ build_fat_image(s) \/ introspect_fat_image(s)
             \/ Load(s) \/ Reread(s) \/ Open(s) \/ Write(s) \/ Crash(s)
      PROVE Goal
  BY <1>7, PreflightSound, ResolveSound, BuildSound, IntrospectSound, LoadSound,
     RereadSound, OpenSound, WriteSound, CrashSound
<1>8. Goal \/ UNCHANGED vars BY <1>2, <1>3, <1>4, <1>5, <1>6, <1>7 DEF Next
<1>. QED BY <1>0, <1>1, <1>8 DEF Sound

LEMMA SoundIsRight == Sound => RightImage
<1>. SUFFICES ASSUME Sound, NEW u \in used PROVE
       LET c == cand[u.cand]
           r == u.rec
       IN /\ \E i \in DOMAIN DEBIAN_CUTOVERS :
               /\ DEBIAN_CUTOVERS[i][2] = r.debian
               /\ \A j \in 1..i-1 : DEBIAN_CUTOVERS[j][1] <= c.date
          /\ <<r.rust, r.debian>> \in MILESTONE_DEBIAN_SUPPORTED
          /\ c.msrv \in Versions =>
               r.rust >= c.msrv \/ \A m \in MILESTONES : m < c.msrv
          /\ \/ MILESTONE_RELEASE_DATES[r.rust] >= c.date
             \/ \A m \in MILESTONES : m <= r.rust
          /\ r.snapshot >= c.date
          /\ r.tag = fat_image_tag(r.rust, r.debian, r.snapshot)
  BY DEF RightImage
<1>1. Honest(u.rec) /\ Fits(u.rec.tag, cand[u.cand])
  BY DEF Sound, UsesSound, HonestRecords
<1>2. u.rec.tag = <<u.rec.rust, u.rec.debian, u.rec.snapshot>>
  BY <1>1 DEF Honest, fat_image_tag
<1>3. u.rec.tag[1] = u.rec.rust /\ u.rec.tag[2] = u.rec.debian /\ u.rec.tag[3] = u.rec.snapshot
  BY <1>2
<1>. QED BY <1>1, <1>2, <1>3 DEF Fits, OfEra, fat_image_tag

\* However an image came into the ledger, a candidate is only reproduced in one
\* of its commit's Debian, with a Rust no older than its MSRV and era, packages
\* no older than the commit, and the contents its tag names.
THEOREM RightImages == Spec => []RightImage
BY InitSound, NextSound, SoundIsRight, PTL DEF Spec

(***************************************************************************)
(* No tag twice: the ledger's list, and every list about to be written.    *)
(***************************************************************************)
Distinct(recs) == \A i, j \in DOMAIN recs : recs[i].tag = recs[j].tag => i = j

\* Without a record, the list has the others in their order.
LEMMA WithoutShifts ==
  ASSUME NEW recs \in Seq(Records), NEW k \in DOMAIN recs
  PROVE  /\ Len(recs) \in Nat /\ DOMAIN recs = 1..Len(recs)
         /\ DOMAIN Without(recs, k) = 1..Len(recs)-1
         /\ \A i \in 1..Len(recs)-1 :
              Without(recs, k)[i] = recs[IF i < k THEN i ELSE i + 1]
<1>. DEFINE n == Len(recs)
            a == SubSeq(recs, 1, k - 1)
            b == SubSeq(recs, k + 1, n)
            l == a \o b
            From(i) == IF i < k THEN i ELSE i + 1
<1>1. n \in Nat /\ DOMAIN recs = 1..n /\ k \in 1..n BY LenProperties
<1>2. a \in Seq(Records) /\ Len(a) = k - 1 /\ \A i \in 1..k-1 : a[i] = recs[i]
  BY <1>1, SubSeqProperties
<1>3. b \in Seq(Records) /\ Len(b) = n - k /\ \A i \in 1..n-k : b[i] = recs[k + i]
  BY <1>1, SubSeqProperties
<1>. HIDE DEF a, b
<1>7. /\ l \in Seq(Records) /\ Len(l) = Len(a) + Len(b)
      /\ \A i \in 1..Len(a)+Len(b) : l[i] = IF i <= Len(a) THEN a[i] ELSE b[i - Len(a)]
  BY <1>2, <1>3, ConcatProperties
<1>. HIDE DEF l
<1>9. Len(l) = n - 1 BY <1>1, <1>2, <1>3, <1>7
<1>4. DOMAIN l = 1..n-1 BY <1>7, <1>9, LenProperties
<1>5. ASSUME NEW i \in 1..n-1 PROVE l[i] = recs[From(i)]
  <2>1. CASE i < k
    <3>1. i \in 1..k-1 /\ i \in 1..Len(a)+Len(b) /\ i <= Len(a) BY <1>1, <1>2, <1>3, <2>1
    <3>2. l[i] = a[i] BY <1>7, <3>1
    <3>. QED BY <1>1, <1>2, <2>1, <3>1, <3>2
  <2>2. CASE ~(i < k)
    <3>1. i - Len(a) \in 1..n-k /\ i \in 1..Len(a)+Len(b) /\ ~(i <= Len(a))
      BY <1>1, <1>2, <1>3, <2>2
    <3>2. l[i] = b[i - Len(a)] BY <1>7, <3>1
    <3>3. k + (i - Len(a)) = i + 1 BY <1>1, <1>2, <1>5
    <3>. QED BY <1>1, <1>3, <2>2, <3>1, <3>2, <3>3
  <2>. QED BY <2>1, <2>2
<1>6. Without(recs, k) = l BY DEF Without, l, a, b
<1>. QED BY <1>1, <1>4, <1>5, <1>6

LEMMA WithoutDistinct ==
  ASSUME NEW recs \in Seq(Records), Distinct(recs), NEW k \in DOMAIN recs
  PROVE  Distinct(Without(recs, k))
<1>. DEFINE n == Len(recs)
            l == Without(recs, k)
            From(i) == IF i < k THEN i ELSE i + 1
<1>1. n \in Nat /\ DOMAIN recs = 1..n /\ k \in 1..n BY WithoutShifts
<1>2. DOMAIN l = 1..n-1 /\ \A i \in 1..n-1 : l[i] = recs[From(i)] BY WithoutShifts
<1>. HIDE DEF l
<1>3. \A i \in 1..n-1 : From(i) \in 1..n BY <1>1
<1>4. ASSUME NEW i \in 1..n-1, NEW j \in 1..n-1, From(i) = From(j) PROVE i = j
  BY <1>1, <1>4
<1>5. Distinct(l) BY <1>1, <1>2, <1>3, <1>4 DEF Distinct
<1>. QED BY <1>5 DEF l

LEMMA NewListsDistinct ==
  ASSUME NEW recs \in Seq(Records), Distinct(recs), NEW j,
         j.do = "unregister" \/ j.rec \in Records, NEW l \in NewLists(j, recs)
  PROVE  Distinct(l)
<1>1. CASE j.do = "unregister"
  <2>1. PICK k \in Places(j.tag, recs) : l = Without(recs, k) BY <1>1 DEF NewLists
  <2>. QED BY <2>1, WithoutDistinct DEF Places
<1>2. CASE j.do # "unregister" /\ j.rec.tag \notin TagsOf(recs)
  <2>1. l = Append(recs, j.rec) BY <1>2 DEF NewLists
  <2>2. /\ Len(recs) \in Nat /\ DOMAIN recs = 1..Len(recs) /\ DOMAIN l = 1..Len(recs)+1
        /\ \A i \in 1..Len(recs) : l[i] = recs[i]
        /\ l[Len(recs) + 1] = j.rec
    BY <1>2, <2>1, AppendProperties, LenProperties
  <2>3. \A i \in DOMAIN recs : recs[i].tag # j.rec.tag BY <1>2 DEF TagsOf, Range
  <2>. QED BY <2>2, <2>3 DEF Distinct
<1>3. CASE j.do # "unregister" /\ j.rec.tag \in TagsOf(recs)
  <2>1. l = Replace(recs, j.rec) BY <1>3 DEF NewLists
  <2>2. DOMAIN l = DOMAIN recs /\ \A i \in DOMAIN recs : l[i].tag = recs[i].tag
    BY <2>1 DEF Replace
  <2>. QED BY <2>2 DEF Distinct
<1>. QED BY <1>1, <1>2, <1>3

ListsDistinct == Distinct(index.recs) /\ \A s \in Sessions : Distinct(job[s].recs)

LEMMA NoneDistinct == Distinct(<<>>)
BY DEF Distinct

\* The lists after a step are those before it, or none, or a list that register
\* or unregister made of the ledger's.
Came(t) ==
  \/ job'[t].recs \in {job[t].recs, <<>>}
  \/ /\ job[t].do = "unregister" \/ job[t].rec \in Records
     /\ job'[t].recs \in NewLists(job[t], index.recs)

LEMMA MoveCame ==
  ASSUME TypeOK, NEW s \in Sessions, NEW t \in Sessions,
         \/ End(s) \/ job' = job
         \/ \E step, j : j.recs = <<>> /\ Begin(s, step, j)
         \/ \E j : j.recs = job[s].recs /\ job' = [job EXCEPT ![s] = j]
  PROVE  Came(t)
<1>1. DOMAIN job = Sessions /\ NoJob.recs = <<>> BY DEF TypeOK, NoJob
<1>2. CASE End(s) \/ job' = job BY <1>1, <1>2 DEF Came, End
<1>3. CASE \E step, j : j.recs = <<>> /\ Begin(s, step, j) BY <1>1, <1>3 DEF Came, Begin
<1>4. CASE \E j : j.recs = job[s].recs /\ job' = [job EXCEPT ![s] = j] BY <1>1, <1>4 DEF Came
<1>. QED BY <1>2, <1>3, <1>4

LEMMA StepsCome ==
  ASSUME TypeOK, Next, NEW t \in Sessions
  PROVE  Came(t)
<1>0. \A s \in Sessions : job[s] \in Jobs /\ Equipped(pc[s], job[s]) BY DEF TypeOK
<1>1. ASSUME NEW c \in Cands, Plan(c) PROVE Came(t)
  BY <1>1 DEF Plan, Came
<1>2. ASSUME NEW s \in Sessions, NEW c \in Cands, NEW build \in BOOLEAN, Drive(s, c, build)
      PROVE Came(t)
  <2>. DEFINE j == [NoJob EXCEPT !.do = "drive", !.cand = c, !.build = build]
  <2>1. j.recs = <<>> BY DEF NoJob
  <2>2. PICK step \in {"preflight", "resolve"} : Begin(s, step, j) BY <1>2 DEF Drive
  <2>. QED BY <2>1, <2>2, MoveCame
<1>3. ASSUME NEW s \in Sessions, NEW tag, NEW update \in BOOLEAN,
             StartBuild(s, tag) \/ StartRegister(s, tag, update) \/ StartUnregister(s, tag)
      PROVE Came(t)
  <2>1. \E step, j : j.recs = <<>> /\ Begin(s, step, j)
    BY <1>3 DEF StartBuild, StartRegister, StartUnregister, NoJob
  <2>. QED BY <2>1, MoveCame
<1>4. ASSUME NEW s \in Sessions,
             \/ Preflight(s) \/ build_fat_image(s) \/ Reread(s) \/ Open(s) \/ Write(s)
             \/ Crash(s)
      PROVE Came(t)
  <2>1. End(s) \/ job' = job
    BY <1>4 DEF Preflight, build_fat_image, Reread, Open, Write, Crash
  <2>. QED BY <2>1, MoveCame
<1>5. ASSUME NEW s \in Sessions, Resolve(s) PROVE Came(t)
  <2>1. End(s) \/ \E tag : job' = [job EXCEPT ![s].tag = tag] BY <1>5 DEF Resolve
  <2>2. CASE \E tag : job' = [job EXCEPT ![s].tag = tag]
    <3>1. PICK tag : job' = [job EXCEPT ![s] = [job[s] EXCEPT !.tag = tag]]
      BY <2>2 DEF TypeOK
    <3>2. [job[s] EXCEPT !.tag = tag].recs = job[s].recs BY <1>0 DEF Jobs
    <3>. QED BY <3>1, <3>2, MoveCame
  <2>. QED BY <2>1, <2>2, MoveCame
<1>6. ASSUME NEW s \in Sessions, introspect_fat_image(s) PROVE Came(t)
  <2>1. End(s) \/ \E rec : job' = [job EXCEPT ![s].rec = rec]
    BY <1>6 DEF introspect_fat_image
  <2>2. CASE \E rec : job' = [job EXCEPT ![s].rec = rec]
    <3>1. PICK rec : job' = [job EXCEPT ![s] = [job[s] EXCEPT !.rec = rec]]
      BY <2>2 DEF TypeOK
    <3>2. [job[s] EXCEPT !.rec = rec].recs = job[s].recs BY <1>0 DEF Jobs
    <3>. QED BY <3>1, <3>2, MoveCame
  <2>. QED BY <2>1, <2>2, MoveCame
<1>7. ASSUME NEW s \in Sessions, Load(s) PROVE Came(t)
  <2>1. CASE End(s) BY <2>1, MoveCame
  <2>2. CASE ~End(s)
    <3>1. PICK recs \in NewLists(job[s], index.recs) :
            job' = [job EXCEPT ![s] = [job[s] EXCEPT !.recs = recs, !.base = writes]]
      BY <1>7, <2>2 DEF Load, TypeOK
    <3>2. [job[s] EXCEPT !.recs = recs, !.base = writes].recs = recs BY <1>0 DEF Jobs
    <3>3. job[s].do = "unregister" \/ job[s].rec \in Records
      BY <1>0, <1>7 DEF Load, At, Equipped
    <3>4. t # s => job'[t] = job[t] BY <3>1 DEF TypeOK
    <3>5. t = s => job'[t].recs = recs BY <3>1, <3>2 DEF TypeOK
    <3>. QED BY <3>3, <3>4, <3>5 DEF Came
  <2>. QED BY <2>1, <2>2
<1>. QED BY <1>1, <1>2, <1>3, <1>4, <1>5, <1>6, <1>7 DEF Next

LEMMA LedgerCame ==
  ASSUME Next
  PROVE  index'.recs \in {index.recs, <<>>} \cup {job[s].recs : s \in Sessions}
<1>1. ASSUME NEW s \in Sessions,
             \/ Preflight(s) \/ Resolve(s) \/ build_fat_image(s) \/ introspect_fat_image(s)
             \/ Load(s) \/ Reread(s) \/ Crash(s)
      PROVE index' = index
  BY <1>1 DEF Preflight, Resolve, build_fat_image, introspect_fat_image, Load, Reread, Crash,
              ledger
<1>2. ASSUME NEW s \in Sessions, NEW c, NEW tag, NEW build, NEW update,
             \/ Plan(c) \/ Drive(s, c, build) \/ StartBuild(s, tag)
             \/ StartRegister(s, tag, update) \/ StartUnregister(s, tag)
      PROVE index' = index
  BY <1>2 DEF Plan, Drive, StartBuild, StartRegister, StartUnregister, Begin, ledger
<1>3. ASSUME NEW c \in Cands, Plan(c) PROVE index' = index BY <1>3 DEF Plan, ledger
<1>4. ASSUME NEW s \in Sessions, Open(s) \/ Write(s)
      PROVE  index'.recs \in {<<>>, job[s].recs}
  BY <1>4 DEF Open, Write
<1>. QED BY <1>1, <1>2, <1>3, <1>4 DEF Next

LEMMA NextDistinct == TypeOK /\ ListsDistinct /\ [Next]_vars => ListsDistinct'
<1>. SUFFICES ASSUME TypeOK, ListsDistinct, [Next]_vars PROVE ListsDistinct' OBVIOUS
<1>1. CASE UNCHANGED vars BY <1>1 DEF vars, ListsDistinct
<1>2. CASE Next
  <2>1. Distinct(index'.recs) BY <1>2, LedgerCame, NoneDistinct DEF ListsDistinct
  <2>2. ASSUME NEW t \in Sessions PROVE Distinct(job'[t].recs)
    <3>1. Came(t) BY <1>2, StepsCome
    <3>2. index.recs \in Seq(Records) BY DEF TypeOK
    <3>. QED BY <3>1, <3>2, NewListsDistinct, NoneDistinct DEF Came, ListsDistinct
  <2>. QED BY <2>1, <2>2 DEF ListsDistinct
<1>. QED BY <1>1, <1>2

LEMMA InitDistinct == Init => ListsDistinct
BY NoneDistinct DEF Init, NoJob, ListsDistinct

\* However many sessions write the ledger at once, and wherever they are killed,
\* it never has two records of one tag.
THEOREM NoTagIsTwice == Spec => []NoTagTwice
<1>1. ListsDistinct => NoTagTwice BY DEF ListsDistinct, NoTagTwice, Distinct
<1>. QED BY <1>1, InitTyped, NextTyped, InitDistinct, NextDistinct, PTL DEF Spec

(***************************************************************************)
(* What candidates are told.                                               *)
(***************************************************************************)
BucketOf(by, c) == IF by = "planner" THEN PlannerBucket(c) ELSE DriverBucket(c)

\* The tag told is that of the candidate's bucket, for one of the answers of
\* Docker Hub, and none is told if there is no bucket.
AnswerRight(a) ==
  LET bucket == BucketOf(a.by, cand[a.cand]) IN
  \/ bucket = None /\ a.tag = None
  \/ bucket # None /\ \E rust_pub \in HubAnswers : a.tag = TagOf(bucket, rust_pub)
AnswersRight == \A a \in answers : AnswerRight(a)

LEMMA ToldRight ==
  ASSUME TypeOK, AnswersRight, cand' = cand, NEW by \in {"planner", "driver"}, NEW c \in Cands, NEW tag,
         Told(by, c, tag),
         \/ BucketOf(by, cand[c]) = None /\ tag = None
         \/ /\ BucketOf(by, cand[c]) # None
            /\ \E rust_pub \in HubAnswers : tag = TagOf(BucketOf(by, cand[c]), rust_pub)
  PROVE  AnswersRight'
<1>. DEFINE new == [by |-> by, cand |-> c, tag |-> tag]
<1>1. answers' = answers \cup {new} BY DEF Told
<1>2. AnswerRight(new)' BY DEF AnswerRight
<1>3. ASSUME NEW a \in answers PROVE AnswerRight(a)' BY DEF AnswersRight, AnswerRight
<1>. HIDE DEF new
<1>. QED BY <1>1, <1>2, <1>3 DEF AnswersRight

LEMMA NextAnswers == TypeOK /\ AnswersRight /\ [Next]_vars => AnswersRight'
<1>. SUFFICES ASSUME TypeOK, AnswersRight, [Next]_vars PROVE AnswersRight' OBVIOUS
<1>1. CASE UNCHANGED <<cand, answers>> BY <1>1 DEF AnswersRight, AnswerRight
<1>2. ASSUME NEW c \in Cands, Plan(c) PROVE AnswersRight'
  <2>. DEFINE bucket == PlannerBucket(cand[c])
  <2>1. cand' = cand /\ BucketOf("planner", cand[c]) = bucket BY <1>2 DEF Plan, BucketOf
  <2>2. CASE bucket = None
    <3>1. Told("planner", c, None) BY <1>2, <2>2 DEF Plan
    <3>. QED BY <2>1, <2>2, <3>1, ToldRight
  <2>3. CASE bucket # None
    <3>1. PICK rust_pub \in HubAnswers : Told("planner", c, TagOf(bucket, rust_pub))
      BY <1>2, <2>3 DEF Plan, rust_base_published
    <3>. QED BY <2>1, <2>3, <3>1, ToldRight
  <2>. QED BY <2>2, <2>3
<1>3. ASSUME NEW s \in Sessions, Preflight(s) PROVE AnswersRight'
  <2>. DEFINE c == job[s].cand
              bucket == DriverBucket(cand[c])
  <2>1. c \in Cands /\ cand' = cand /\ BucketOf("driver", cand[c]) = bucket
    BY <1>3 DEF Preflight, At, TypeOK, Equipped, BucketOf
  <2>2. CASE cand[c].date > MaxDate \/ bucket = None
    <3>1. answers' = answers BY <1>3, <2>2 DEF Preflight
    <3>. QED BY <1>1, <2>1, <3>1
  <2>3. CASE ~(cand[c].date > MaxDate \/ bucket = None)
    <3>1. PICK rust_pub \in HubAnswers : Told("driver", c, TagOf(bucket, rust_pub))
      BY <1>3, <2>3 DEF Preflight, rust_base_published
    <3>. QED BY <2>1, <2>3, <3>1, ToldRight
  <2>. QED BY <2>2, <2>3
<1>4. ASSUME NEW s \in Sessions, Resolve(s) PROVE AnswersRight'
  <2>. DEFINE c == job[s].cand
              bucket == DriverBucket(cand[c])
  <2>1. c \in Cands /\ cand' = cand /\ BucketOf("driver", cand[c]) = bucket
    BY <1>4 DEF Resolve, At, TypeOK, Equipped, BucketOf
  <2>2. CASE cand[c].date > MaxDate \/ index.st # "whole"
    <3>1. answers' = answers BY <1>4, <2>2 DEF Resolve
    <3>. QED BY <1>1, <2>1, <3>1
  <2>3. CASE ~(cand[c].date > MaxDate \/ index.st # "whole") /\ bucket = None
    <3>1. Told("driver", c, None) BY <1>4, <2>3 DEF Resolve
    <3>. QED BY <2>1, <2>3, <3>1, ToldRight
  <2>4. CASE ~(cand[c].date > MaxDate \/ index.st # "whole") /\ bucket # None
    <3>1. PICK rust_pub \in HubAnswers : Told("driver", c, TagOf(bucket, rust_pub))
      BY <1>4, <2>4 DEF Resolve, rust_base_published
    <3>. QED BY <2>1, <2>4, <3>1, ToldRight
  <2>. QED BY <2>2, <2>3, <2>4
<1>5. ASSUME NEW s \in Sessions,
             \/ build_fat_image(s) \/ introspect_fat_image(s) \/ Load(s) \/ Reread(s) \/ Open(s)
             \/ Write(s) \/ Crash(s)
      PROVE  UNCHANGED <<cand, answers>>
  BY <1>5 DEF build_fat_image, introspect_fat_image, Load, Reread, Open, Write, Crash
<1>6. ASSUME NEW s \in Sessions, NEW c, NEW tag, NEW build, NEW update,
             \/ Drive(s, c, build) \/ StartBuild(s, tag)
             \/ StartRegister(s, tag, update) \/ StartUnregister(s, tag)
      PROVE  UNCHANGED <<cand, answers>>
  BY <1>6 DEF Drive, StartBuild, StartRegister, StartUnregister, Begin
<1>. QED BY <1>1, <1>2, <1>3, <1>4, <1>5, <1>6 DEF Next, vars

LEMMA InitAnswers == Init => AnswersRight
BY DEF Init, AnswersRight

\* A day of a year later than the bucket's is of that year.
LEMMA LaterYear ==
  ASSUME NEW year \in Nat, NEW t \in Dates, year * 10000 + 1231 < t
  PROVE  YearOf(t) > year
<1>. DEFINE q == t \div 10000
            r == t % 10000
<1>1. t = 10000 * q + r /\ r \in 0..1231 /\ q \in Int BY DEF Dates
<1>. HIDE DEF q, r
<1>2. q > year BY <1>1
<1>. QED BY <1>2 DEF YearOf, q

\* Tags that differ in their date alone, one of them of a year later than the
\* commit's.
LiftedApart(x, y, date) ==
  /\ x[1] = y[1] /\ x[2] = y[2]
  /\ YearOf(x[3]) > YearOf(date) \/ YearOf(y[3]) > YearOf(date)

LEMMA SameBucketDrift ==
  ASSUME NEW c \in Pool, NEW msrv, NEW p \in HubAnswers, NEW q \in HubAnswers,
         NEW bucket, bucket = bucket_for(msrv, c.date, debian_release_for(c.date)), bucket # None,
         NEW x, x = TagOf(bucket, p), NEW y, y = TagOf(bucket, q), x # y
  PROVE  LiftedApart(x, y, c.date)
<1>. DEFINE sde(r) == canonical_sde_for(bucket, r)
<1>1. c.date \in Dates /\ p \in Dates \cup {Silent} /\ q \in Dates \cup {Silent}
  BY FatImagesAssumption
<1>2. bucket.year = YearOf(c.date)
  <2>. DEFINE date == c.date
              debian == debian_release_for(date)
  <2>1. bucket = bucket_for(msrv, date, debian) /\ date \in Dates BY <1>1
  <2>. HIDE DEF date, debian
  <2>2. bucket_for(msrv, date, debian) # None BY <2>1
  <2>3. bucket_for(msrv, date, debian).year = YearOf(date) BY <2>1, <2>2, BucketsAreRight
  <2>. QED BY <2>1, <2>3 DEF date
<1>3. \A r : TagOf(bucket, r) = <<bucket.milestone, bucket.debian, sde(r)>>
  BY DEF TagOf, fat_image_tag
<1>4. sde(p) # sde(q) BY <1>3
<1>5. YearOf(c.date) \in Nat BY <1>1 DEF YearOf, Dates
<1>6. ASSUME NEW r \in Dates \cup {Silent}, sde(r) # bucket.year * 10000 + 1231
      PROVE  YearOf(sde(r)) > YearOf(c.date)
  <2>1. r # Silent /\ bucket.year * 10000 + 1231 < r /\ sde(r) = r
    BY <1>6 DEF canonical_sde_for
  <2>. QED BY <1>2, <1>5, <2>1, LaterYear
<1>7. sde(p) # bucket.year * 10000 + 1231 \/ sde(q) # bucket.year * 10000 + 1231 BY <1>4
<1>8. x[1] = y[1] /\ x[2] = y[2] /\ x[3] = sde(p) /\ y[3] = sde(q)
  <2>. HIDE DEF sde
  <2>. QED BY <1>3
<1>. HIDE DEF sde
<1>9. YearOf(sde(p)) > YearOf(c.date) \/ YearOf(sde(q)) > YearOf(c.date) BY <1>1, <1>6, <1>7
<1>10. YearOf(x[3]) > YearOf(c.date) \/ YearOf(y[3]) > YearOf(c.date) BY <1>8, <1>9
<1>. QED BY <1>8, <1>10 DEF LiftedApart

LEMMA RightAnswersDrift == TypeOK /\ AnswersRight => DriftOnlyWhenLifted
<1>. SUFFICES ASSUME TypeOK, AnswersRight, NEW a \in answers, NEW b \in answers,
                     a.cand = b.cand, a.tag # b.tag,
                     a.by = b.by \/ cand[a.cand].msrv # Undeclared
              PROVE  /\ a.tag[1] = b.tag[1] /\ a.tag[2] = b.tag[2]
                     /\ \E t \in {a.tag[3], b.tag[3]} : YearOf(t) > YearOf(cand[a.cand].date)
  BY DEF DriftOnlyWhenLifted
<1>. DEFINE c == cand[a.cand]
            bucket == BucketOf(a.by, c)
<1>1. c \in Pool /\ a.by \in {"planner", "driver"} /\ b.by \in {"planner", "driver"} BY DEF TypeOK
<1>2. BucketOf(b.by, c) = bucket BY DEF BucketOf, PlannerBucket, DriverBucket, DriverMsrv
<1>3. bucket # None BY <1>2 DEF AnswersRight, AnswerRight
<1>4. PICK p \in HubAnswers : a.tag = TagOf(bucket, p) BY <1>3 DEF AnswersRight, AnswerRight
<1>5. PICK q \in HubAnswers : b.tag = TagOf(bucket, q)
  BY <1>2, <1>3 DEF AnswersRight, AnswerRight
<1>6. PICK msrv : bucket = bucket_for(msrv, c.date, debian_release_for(c.date))
  BY DEF BucketOf, PlannerBucket, DriverBucket
<1>. HIDE DEF bucket, c
<1>7. LiftedApart(a.tag, b.tag, c.date)
  BY <1>1, <1>3, <1>4, <1>5, <1>6, SameBucketDrift
<1>. QED BY <1>7 DEF c, LiftedApart

\* Tags are the same for everybody and for ever, but for the snapshot's date
\* when Docker Hub dates the base image after the candidate's year.
THEOREM TagsDriftOnlyWhenLifted == Spec => []DriftOnlyWhenLifted
<1>. QED BY InitTyped, NextTyped, InitAnswers, NextAnswers, RightAnswersDrift, PTL DEF Spec

(***************************************************************************)
(* Candidates for whom there is no image.                                  *)
(***************************************************************************)
\* The era's milestone was released on the date or after it, or is the last.
FirstOfEra(era, date) ==
  /\ era \in MILESTONES
  /\ \A n \in MILESTONES : n < era => MILESTONE_RELEASE_DATES[n] < date
  /\ MILESTONE_RELEASE_DATES[era] >= date \/ era = Largest(MILESTONES)

LEMMA EraIsFirst ==
  ASSUME NEW date \in Dates
  PROVE  FirstOfEra(era_milestone_for_commit(date), date)
<1>. DEFINE above == {m \in MILESTONES : MILESTONE_RELEASE_DATES[m] >= date}
<1>1. MILESTONES \subseteq Nat /\ date \in Nat
      /\ \A m \in MILESTONES : MILESTONE_RELEASE_DATES[m] \in Nat
  BY BucketsAssumption DEF Dates, Versions
<1>2. CASE above # {}
  <2>1. era_milestone_for_commit(date) = Smallest(above)
    BY <1>2 DEF era_milestone_for_commit
  <2>2. Smallest(above) \in above /\ \A m \in above : Smallest(above) <= m
    BY <1>2, SmallestMilestone
  <2>. DEFINE era == Smallest(above)
  <2>3. era \in MILESTONES /\ MILESTONE_RELEASE_DATES[era] >= date BY <2>2
  <2>4. ASSUME NEW n \in MILESTONES, n < era PROVE MILESTONE_RELEASE_DATES[n] < date
    <3>. HIDE DEF era
    <3>1. n \notin above
      <4>. SUFFICES ASSUME n \in above PROVE FALSE OBVIOUS
      <4>1. era <= n BY <2>2 DEF era
      <4>. QED BY <1>1, <2>3, <2>4, <4>1
    <3>. QED BY <1>1, <3>1
  <2>. QED BY <2>1, <2>3, <2>4 DEF FirstOfEra
<1>3. CASE above = {}
  <2>1. era_milestone_for_commit(date) = Largest(MILESTONES)
    BY <1>3 DEF era_milestone_for_commit
  <2>2. \A n \in MILESTONES : MILESTONE_RELEASE_DATES[n] < date BY <1>1, <1>3
  <2>. QED BY <2>1, <2>2, LargestMilestone DEF FirstOfEra
<1>. QED BY <1>2, <1>3

\* For any date there is an image of its Debian, with a Rust not older than its
\* era's and its floor.
LEMMA SomeImage ==
  ASSUME NEW date \in Dates
  PROVE  \E n \in MILESTONES :
           /\ n >= era_milestone_for_commit(date) /\ n >= msrv_floor_for(date)
           /\ <<n, debian_release_for(date)>> \in MILESTONE_DEBIAN_SUPPORTED
<1>. DEFINE m == era_milestone_for_commit(date)
<1>1. /\ m \in MILESTONES
      /\ \A n \in MILESTONES : n < m => MILESTONE_RELEASE_DATES[n] < date
      /\ MILESTONE_RELEASE_DATES[m] >= date \/ m = Largest(MILESTONES)
  BY EraIsFirst DEF FirstOfEra
<1>2. PICK i \in DOMAIN DEBIAN_CUTOVERS :
        /\ debian_release_for(date) = DEBIAN_CUTOVERS[i][2]
        /\ \A j \in 1..i-1 : DEBIAN_CUTOVERS[j][1] <= date
        /\ i = Len(DEBIAN_CUTOVERS) \/ date < DEBIAN_CUTOVERS[i][1]
  BY ValueIsFirst DEF debian_release_for
<1>3. PICK k \in DOMAIN MSRV_FLOOR_CUTOVERS :
        /\ msrv_floor_for(date) = MSRV_FLOOR_CUTOVERS[k][2]
        /\ \A j \in 1..k-1 : MSRV_FLOOR_CUTOVERS[j][1] <= date
        /\ k = Len(MSRV_FLOOR_CUTOVERS) \/ date < MSRV_FLOOR_CUTOVERS[k][1]
  BY ValueIsFirst DEF msrv_floor_for
<1>. HIDE DEF m
<1>4. /\ date \in Int
      /\ \A n \in MILESTONES : MILESTONE_RELEASE_DATES[n] \in Int
      /\ \A j \in DOMAIN DEBIAN_CUTOVERS : DEBIAN_CUTOVERS[j][1] \in Int
      /\ \A j \in DOMAIN MSRV_FLOOR_CUTOVERS : MSRV_FLOOR_CUTOVERS[j][1] \in Int
      /\ Len(DEBIAN_CUTOVERS) \in Nat /\ Len(MSRV_FLOOR_CUTOVERS) \in Nat
      /\ DOMAIN DEBIAN_CUTOVERS = 1..Len(DEBIAN_CUTOVERS)
      /\ DOMAIN MSRV_FLOOR_CUTOVERS = 1..Len(MSRV_FLOOR_CUTOVERS)
  BY BucketsAssumption DEF Dates
<1>5. ASSUME NEW f \in NotBefore(m, i, k) PROVE f \in Int /\ f <= date
  <2>1. CASE f \in {MILESTONE_RELEASE_DATES[n] + 1 : n \in {l \in MILESTONES : l < m}}
    <3>1. PICK n \in MILESTONES : n < m /\ f = MILESTONE_RELEASE_DATES[n] + 1 BY <2>1
    <3>2. MILESTONE_RELEASE_DATES[n] < date /\ MILESTONE_RELEASE_DATES[n] \in Int
      BY <1>1, <1>4, <3>1
    <3>. QED BY <1>4, <3>1, <3>2
  <2>2. CASE f \in {DEBIAN_CUTOVERS[j][1] : j \in 1..i-1} BY <1>2, <1>4, <2>2
  <2>3. CASE f \in {MSRV_FLOOR_CUTOVERS[j][1] : j \in 1..k-1} BY <1>3, <1>4, <2>3
  <2>. QED BY <2>1, <2>2, <2>3 DEF NotBefore
<1>6. ASSUME NEW t \in NotAfter(m, i, k) PROVE t \in Int /\ date <= t
  <2>1. CASE t = MILESTONE_RELEASE_DATES[m] /\ m # Largest(MILESTONES) BY <1>1, <1>4, <2>1
  <2>2. CASE t = DEBIAN_CUTOVERS[i][1] - 1 /\ i # Len(DEBIAN_CUTOVERS) BY <1>2, <1>4, <2>2
  <2>3. CASE t = MSRV_FLOOR_CUTOVERS[k][1] - 1 /\ k # Len(MSRV_FLOOR_CUTOVERS)
    BY <1>3, <1>4, <2>3
  <2>4. \/ m # Largest(MILESTONES) /\ t = MILESTONE_RELEASE_DATES[m]
        \/ i # Len(DEBIAN_CUTOVERS) /\ t = DEBIAN_CUTOVERS[i][1] - 1
        \/ k # Len(MSRV_FLOOR_CUTOVERS) /\ t = MSRV_FLOOR_CUTOVERS[k][1] - 1
    BY DEF NotAfter
  <2>. QED BY <2>1, <2>2, <2>3, <2>4
<1>7. ASSUME NEW f \in NotBefore(m, i, k), NEW t \in NotAfter(m, i, k) PROVE f <= t
  <2>1. f \in Int /\ f <= date BY <1>5
  <2>2. t \in Int /\ date <= t BY <1>6
  <2>. QED BY <1>4, <2>1, <2>2
<1>8. \E n \in MILESTONES : /\ n >= m /\ n >= MSRV_FLOOR_CUTOVERS[k][2]
                            /\ <<n, DEBIAN_CUTOVERS[i][2]>> \in MILESTONE_DEBIAN_SUPPORTED
  BY <1>1, <1>7, TablesAssumption
<1>. QED BY <1>2, <1>3, <1>8 DEF m

\* A bucket is missing only for a version that has a milestone later than the
\* era's, and than any image of the Debian.
LEMMA BucketMissing ==
  ASSUME NEW msrv, NEW date \in Dates, NEW debian, bucket_for(msrv, date, debian) = None,
         NEW n \in MILESTONES, n >= era_milestone_for_commit(date),
         <<n, debian>> \in MILESTONE_DEBIAN_SUPPORTED
  PROVE  /\ msrv \in Versions
         /\ n < msrv
         /\ \A m \in MILESTONES : m >= msrv => m > era_milestone_for_commit(date)
<1>. DEFINE wanted == Wanted(msrv, date)
            published == Published(wanted, debian)
            era == era_milestone_for_commit(date)
            floor == round_up_to_milestone(msrv)
            enough == {m \in MILESTONES : m >= msrv}
<1>1. published = {}
  <2>. SUFFICES ASSUME published # {} PROVE FALSE OBVIOUS
  <2>1. Smallest(published) \in MILESTONES
        /\ <<Smallest(published), debian>> \in MILESTONE_DEBIAN_SUPPORTED
    BY SmallestMilestone DEF Published
  <2>2. debian \in Debians BY <2>1 DEF Debians
  <2>3. YearOf(date) \in Nat BY DEF YearOf, Dates
  <2>4. bucket_for(msrv, date, debian)
          = [milestone |-> Smallest(published), year |-> YearOf(date), debian |-> debian]
    BY DEF bucket_for
  <2>. QED BY <2>1, <2>2, <2>3, <2>4, FatImagesAssumption
<1>2. ~(n >= wanted) BY <1>1 DEF Published
<1>3. wanted = floor /\ floor # None /\ floor > era BY <1>2 DEF Wanted
<1>4. msrv \in Versions /\ enough # {} /\ floor = Smallest(enough)
  BY <1>3 DEF round_up_to_milestone
<1>5. floor \in MILESTONES /\ \A m \in enough : floor <= m BY <1>4, SmallestMilestone
<1>6. MILESTONES \subseteq Int /\ era \in MILESTONES /\ msrv \in Int
  BY <1>4, EraIsFirst, BucketsAssumption DEF Versions, FirstOfEra
<1>. HIDE DEF wanted, floor, era
<1>7. n < msrv
  <2>1. n \notin enough BY <1>2, <1>3, <1>5, <1>6
  <2>. QED BY <1>6, <2>1
<1>8. ASSUME NEW m \in MILESTONES, m >= msrv PROVE m > era
  <2>1. floor <= m BY <1>5, <1>8
  <2>. QED BY <1>3, <1>5, <1>6, <2>1
<1>. QED BY <1>4, <1>7, <1>8 DEF era

\* A milestone later than the era's was released after the date.
LEMMA LaterThanEra ==
  ASSUME NEW date \in Dates, NEW m \in MILESTONES, m > era_milestone_for_commit(date)
  PROVE  MILESTONE_RELEASE_DATES[m] > date
<1>. DEFINE era == era_milestone_for_commit(date)
<1>1. era \in MILESTONES /\ (MILESTONE_RELEASE_DATES[era] >= date \/ era = Largest(MILESTONES))
  BY EraIsFirst DEF FirstOfEra
<1>. HIDE DEF era
<1>2. m > era BY DEF era
<1>3. MILESTONES \subseteq Int /\ date \in Int
      /\ \A n \in MILESTONES : MILESTONE_RELEASE_DATES[n] \in Int
  BY BucketsAssumption DEF Dates, Versions
<1>4. era # Largest(MILESTONES)
  <2>1. m <= Largest(MILESTONES) /\ m \in Int /\ era \in Int BY <1>1, <1>3, LargestMilestone
  <2>. QED BY <1>2, <2>1
<1>5. MILESTONE_RELEASE_DATES[era] < MILESTONE_RELEASE_DATES[m]
  <2>1. era < m BY <1>1, <1>2, <1>3
  <2>. QED BY <1>1, <2>1, TablesAssumption
<1>. QED BY <1>1, <1>3, <1>4, <1>5

LEMMA RightAnswersServe == TypeOK /\ AnswersRight => ServedUnlessAhead
<1>. SUFFICES ASSUME TypeOK, AnswersRight, NEW a \in answers, a.tag = None
              PROVE  LET c == cand[a.cand] IN
                     /\ c.msrv \in Versions
                     /\ \A m \in MILESTONES :
                          m >= c.msrv => MILESTONE_RELEASE_DATES[m] > c.date
  BY DEF ServedUnlessAhead
<1>. DEFINE c == cand[a.cand]
            debian == debian_release_for(c.date)
<1>1. c \in Pool /\ c.date \in Dates BY FatImagesAssumption DEF TypeOK
<1>2. AnswerRight(a) BY DEF AnswersRight
<1>. HIDE DEF c
<1>3. BucketOf(a.by, c) = None
  <2>. SUFFICES ASSUME BucketOf(a.by, c) # None PROVE FALSE OBVIOUS
  <2>1. PICK rust_pub \in HubAnswers : None = TagOf(BucketOf(a.by, c), rust_pub)
    BY <1>2 DEF AnswerRight, c
  <2>2. TagOf(BucketOf(a.by, c), rust_pub) \in Tags BY <1>1, CandidateTags DEF BucketOf
  <2>. QED BY <2>1, <2>2, FatImagesAssumption
<1>4. PICK n \in MILESTONES :
        /\ n >= era_milestone_for_commit(c.date) /\ n >= msrv_floor_for(c.date)
        /\ <<n, debian>> \in MILESTONE_DEBIAN_SUPPORTED
  BY <1>1, SomeImage
<1>. HIDE DEF debian
<1>5. bucket_for(c.msrv, c.date, debian) = None
  <2>1. CASE a.by = "planner" \/ c.msrv # Undeclared
    BY <1>3, <2>1 DEF BucketOf, PlannerBucket, DriverBucket, DriverMsrv, debian
  <2>2. CASE ~(a.by = "planner" \/ c.msrv # Undeclared)
    <3>1. bucket_for(msrv_floor_for(c.date), c.date, debian) = None
      BY <1>3, <2>2 DEF BucketOf, DriverBucket, DriverMsrv, debian
    <3>2. n < msrv_floor_for(c.date) BY <1>1, <1>4, <3>1, BucketMissing
    <3>3. n \in Int /\ msrv_floor_for(c.date) \in Int
      BY <1>1, FloorIsVersion, BucketsAssumption DEF Versions
    <3>. QED BY <1>4, <3>2, <3>3
  <2>. QED BY <2>1, <2>2
<1>6. /\ c.msrv \in Versions
      /\ \A m \in MILESTONES : m >= c.msrv => m > era_milestone_for_commit(c.date)
  BY <1>1, <1>4, <1>5, BucketMissing
<1>7. \A m \in MILESTONES : m >= c.msrv => MILESTONE_RELEASE_DATES[m] > c.date
  BY <1>1, <1>6, LaterThanEra
<1>. QED BY <1>6, <1>7 DEF c

\* There is an image for every candidate that does not ask for a Rust newer than
\* its commit.
THEOREM CandidatesAreServed == Spec => []ServedUnlessAhead
<1>. QED BY InitTyped, NextTyped, InitAnswers, NextAnswers, RightAnswersServe, PTL DEF Spec

(***************************************************************************)
(* The ledger, as long as no two sessions overlap.                         *)
(***************************************************************************)
LEMMA TagsAre ==
  ASSUME NEW recs, NEW tag
  PROVE  tag \in TagsOf(recs) <=> \E i \in DOMAIN recs : recs[i].tag = tag
BY DEF TagsOf, Range

\* What register and unregister make of a list's tags.
LEMMA NewListsTags ==
  ASSUME NEW recs \in Seq(Records), Distinct(recs), NEW j,
         j.do # "unregister" => j.rec \in Records /\ j.rec.tag = j.tag,
         NEW l \in NewLists(j, recs)
  PROVE  TagsOf(l) = IF j.do = "unregister" THEN TagsOf(recs) \ {j.tag}
                     ELSE TagsOf(recs) \cup {j.tag}
<1>1. CASE j.do = "unregister"
  <2>1. PICK k \in DOMAIN recs : recs[k].tag = j.tag /\ l = Without(recs, k)
    BY <1>1 DEF NewLists, Places
  <2>. DEFINE n == Len(recs)
  <2>2. /\ n \in Nat /\ DOMAIN recs = 1..n /\ DOMAIN l = 1..n-1
        /\ \A i \in 1..n-1 : l[i] = recs[IF i < k THEN i ELSE i + 1]
    BY <2>1, WithoutShifts
  <2>3. ASSUME NEW i \in DOMAIN l PROVE \E m \in DOMAIN recs : m # k /\ recs[m].tag = l[i].tag
    <3>. DEFINE m == IF i < k THEN i ELSE i + 1
    <3>1. m \in 1..n /\ m # k /\ l[i] = recs[m] BY <2>1, <2>2
    <3>. QED BY <2>2, <3>1
  <2>4. ASSUME NEW m \in DOMAIN recs, m # k PROVE \E i \in DOMAIN l : l[i].tag = recs[m].tag
    <3>. DEFINE i == IF m < k THEN m ELSE m - 1
    <3>1. i \in 1..n-1 BY <2>1, <2>2, <2>4
    <3>2. (IF i < k THEN i ELSE i + 1) = m BY <2>1, <2>2, <2>4
    <3>3. l[i] = recs[m] BY <2>2, <3>1, <3>2
    <3>. QED BY <2>2, <3>1, <3>3
  <2>5. \A m \in DOMAIN recs : m # k <=> recs[m].tag # j.tag BY <2>1 DEF Distinct
  <2>. HIDE DEF n
  <2>6. ASSUME NEW tag, tag \in TagsOf(l) PROVE tag \in TagsOf(recs) \ {j.tag}
    <3>1. PICK i \in DOMAIN l : l[i].tag = tag BY <2>6, TagsAre
    <3>2. PICK m \in DOMAIN recs : m # k /\ recs[m].tag = tag BY <2>3, <3>1
    <3>. QED BY <2>5, <3>2, TagsAre
  <2>7. ASSUME NEW tag, tag \in TagsOf(recs) \ {j.tag} PROVE tag \in TagsOf(l)
    <3>1. PICK m \in DOMAIN recs : recs[m].tag = tag BY <2>7, TagsAre
    <3>2. PICK i \in DOMAIN l : l[i].tag = tag BY <2>4, <2>5, <2>7, <3>1
    <3>. QED BY <3>2, TagsAre
  <2>. QED BY <1>1, <2>6, <2>7
<1>2. CASE j.do # "unregister" /\ j.rec.tag \notin TagsOf(recs)
  <2>1. l = Append(recs, j.rec) BY <1>2 DEF NewLists
  <2>2. /\ Len(recs) \in Nat /\ DOMAIN recs = 1..Len(recs) /\ DOMAIN l = 1..Len(recs)+1
        /\ \A i \in 1..Len(recs) : l[i] = recs[i]
        /\ l[Len(recs) + 1] = j.rec
    BY <1>2, <2>1, AppendProperties, LenProperties
  <2>3. \A i \in DOMAIN l : i \in DOMAIN recs \/ i = Len(recs) + 1 BY <2>2
  <2>4. Len(recs) + 1 \in DOMAIN l /\ \A i \in DOMAIN recs : i \in DOMAIN l BY <2>2
  <2>5. \A tag : tag \in TagsOf(l) <=> tag \in TagsOf(recs) \cup {j.tag}
    BY <1>2, <2>2, <2>3, <2>4, TagsAre
  <2>. QED BY <1>2, <2>5
<1>3. CASE j.do # "unregister" /\ j.rec.tag \in TagsOf(recs)
  <2>1. l = Replace(recs, j.rec) BY <1>3 DEF NewLists
  <2>2. DOMAIN l = DOMAIN recs /\ \A i \in DOMAIN recs : l[i].tag = recs[i].tag
    BY <2>1 DEF Replace
  <2>3. \A tag : tag \in TagsOf(l) <=> tag \in TagsOf(recs) BY <2>2, TagsAre
  <2>. QED BY <1>3, <2>3
<1>. QED BY <1>1, <1>2, <1>3

\* The tags there will be when the session has written.
After(j) == IF j.do = "unregister" THEN registered \ {j.tag} ELSE registered \cup {j.tag}

\* A session holds a list with these tags, unless another wrote since it loaded
\* the ledger; and unless another did nobody closes the file it has open.
SessionRight(step, j) ==
  /\ step \in {"load", "reread", "open", "write"} /\ j.do # "unregister" => j.rec.tag = j.tag
  /\ step \in {"reread", "open", "write"} =>
       j.base <= writes /\ (j.base = writes => TagsOf(j.recs) = After(j))
  /\ step = "write" /\ j.base = writes => index.st = "empty"

LedgerRight ==
  /\ index.st # "garbled"
  /\ index.st = "whole" => TagsOf(index.recs) = registered
  /\ index.st = "empty" /\ ~cut => \E s \in Sessions : pc[s] = "write"
SessionsRight == \A s \in Sessions : SessionRight(pc[s], job[s])
AllRight == LedgerRight /\ SessionsRight

\* A session goes on and the file stays as it is.
LEMMA MoveRight ==
  ASSUME TypeOK, AllRight, NEW s \in Sessions, NEW step, NEW j, SessionRight(step, j),
         pc' = [pc EXCEPT ![s] = step], job' = [job EXCEPT ![s] = j],
         index' = index, writes' = writes, registered' = registered,
         (pc[s] # "write" /\ cut' = cut) \/ cut' = TRUE
  PROVE  AllRight'
<1>1. ASSUME NEW t \in Sessions PROVE SessionRight(pc[t], job[t])'
  <2>1. CASE t = s
    <3>1. pc'[t] = step /\ job'[t] = j BY <2>1 DEF TypeOK
    <3>. QED BY <3>1 DEF SessionRight, After
  <2>2. CASE t # s
    <3>1. pc'[t] = pc[t] /\ job'[t] = job[t] BY <2>2 DEF TypeOK
    <3>2. SessionRight(pc[t], job[t]) BY DEF AllRight, SessionsRight
    <3>. QED BY <3>1, <3>2 DEF SessionRight, After
  <2>. QED BY <2>1, <2>2
<1>2. ASSUME NEW t \in Sessions, pc[t] = "write", ~cut' PROVE pc'[t] = "write"
  BY <1>2 DEF TypeOK
<1>3. cut' = cut \/ cut' = TRUE OBVIOUS
<1>4. LedgerRight' BY <1>2, <1>3 DEF AllRight, LedgerRight
<1>. QED BY <1>1, <1>4 DEF AllRight, SessionsRight

LEMMA EndRight ==
  ASSUME TypeOK, AllRight, NEW s \in Sessions, End(s),
         index' = index, writes' = writes, registered' = registered,
         (pc[s] # "write" /\ cut' = cut) \/ cut' = TRUE
  PROVE  AllRight'
<1>1. SessionRight("idle", NoJob) BY DEF SessionRight
<1>. QED BY <1>1, MoveRight DEF End, Goto

\* A session goes on with the memory it has.
LEMMA GotoRight ==
  ASSUME TypeOK, AllRight, NEW s \in Sessions, NEW step, Goto(s, step), job' = job,
         SessionRight(step, job[s]),
         index' = index, writes' = writes, registered' = registered,
         pc[s] # "write", cut' = cut
  PROVE  AllRight'
<1>1. job' = [job EXCEPT ![s] = job[s]] BY DEF TypeOK
<1>. QED BY <1>1, MoveRight DEF Goto

LEMMA StartRight ==
  ASSUME TypeOK, AllRight, NEW s \in Sessions, NEW tag, NEW update, NEW c, NEW build,
         \/ Drive(s, c, build) \/ StartBuild(s, tag)
         \/ StartRegister(s, tag, update) \/ StartUnregister(s, tag)
  PROVE  AllRight'
<1>1. PICK step, j : /\ Begin(s, step, j)
                     /\ \/ step \in {"preflight", "resolve", "build", "introspect"}
                        \/ step = "load" /\ j.do = "unregister"
  <2>1. CASE Drive(s, c, build) BY <2>1 DEF Drive
  <2>2. CASE StartBuild(s, tag) \/ StartRegister(s, tag, update)
    BY <2>2 DEF StartBuild, StartRegister
  <2>3. CASE StartUnregister(s, tag)
    <3>1. [NoJob EXCEPT !.do = "unregister", !.tag = tag].do = "unregister" BY DEF NoJob
    <3>. QED BY <2>3, <3>1 DEF StartUnregister
  <2>. QED BY <2>1, <2>2, <2>3
<1>2. SessionRight(step, j) BY <1>1 DEF SessionRight
<1>. QED BY <1>1, <1>2, MoveRight DEF Begin, Goto, At, ledger

LEMMA DriveStepsRight ==
  ASSUME TypeOK, AllRight, NEW s \in Sessions,
         Preflight(s) \/ Resolve(s) \/ build_fat_image(s)
  PROVE  AllRight'
<1>1. /\ pc[s] # "write" /\ cut' = cut
      /\ index' = index /\ writes' = writes /\ registered' = registered
  BY DEF Preflight, Resolve, build_fat_image, At, ledger
<1>2. \/ End(s)
      \/ \E step \in {"resolve", "introspect"} : Goto(s, step) /\ job' = job
      \/ \E tag : Goto(s, "build") /\ job' = [job EXCEPT ![s].tag = tag]
  BY DEF Preflight, Resolve, build_fat_image
<1>3. CASE End(s) BY <1>1, <1>3, EndRight
<1>4. ASSUME NEW step \in {"resolve", "introspect"}, Goto(s, step), job' = job PROVE AllRight'
  <2>1. SessionRight(step, job[s]) BY DEF SessionRight
  <2>. QED BY <1>1, <1>4, <2>1, GotoRight
<1>5. ASSUME NEW tag, Goto(s, "build"), job' = [job EXCEPT ![s].tag = tag] PROVE AllRight'
  <2>. DEFINE j == [job[s] EXCEPT !.tag = tag]
  <2>1. job' = [job EXCEPT ![s] = j] BY <1>5
  <2>2. SessionRight("build", j) BY DEF SessionRight
  <2>. QED BY <1>1, <1>5, <2>1, <2>2, MoveRight DEF Goto
<1>. QED BY <1>2, <1>3, <1>4, <1>5

LEMMA IntrospectRight ==
  ASSUME TypeOK, AllRight, NEW s \in Sessions, introspect_fat_image(s)
  PROVE  AllRight'
<1>1. /\ pc[s] # "write" /\ cut' = cut
      /\ index' = index /\ writes' = writes /\ registered' = registered
  BY DEF introspect_fat_image, At, ledger
<1>2. CASE End(s) BY <1>1, <1>2, EndRight
<1>3. CASE ~End(s)
  <2>1. PICK i \in {k \in images[Host[s]] : k.tag = job[s].tag} :
          /\ job' = [job EXCEPT ![s].rec =
                       [tag |-> i.tag, rust |-> i.rust, debian |-> i.debian,
                        snapshot |-> i.snapshot, platforms |-> {Host[s]}]]
          /\ Goto(s, "load")
    BY <1>3 DEF introspect_fat_image
  <2>. DEFINE rec == [tag |-> i.tag, rust |-> i.rust, debian |-> i.debian,
                      snapshot |-> i.snapshot, platforms |-> {Host[s]}]
              j == [job[s] EXCEPT !.rec = rec]
  <2>2. rec.tag = job[s].tag BY <2>1
  <2>3. job' = [job EXCEPT ![s] = j] BY <2>1
  <2>. HIDE DEF rec
  <2>4. j.rec = rec /\ j.tag = job[s].tag BY DEF TypeOK, Jobs
  <2>5. SessionRight("load", j) BY <2>2, <2>4 DEF SessionRight
  <2>. QED BY <1>1, <2>1, <2>3, <2>5, MoveRight DEF Goto
<1>. QED BY <1>2, <1>3

LEMMA LoadRight ==
  ASSUME TypeOK, ListsDistinct, AllRight, NEW s \in Sessions, Load(s)
  PROVE  AllRight'
<1>1. /\ pc[s] = "load" /\ cut' = cut
      /\ index' = index /\ writes' = writes /\ registered' = registered
  BY DEF Load, At, ledger
<1>2. CASE End(s) BY <1>1, <1>2, EndRight
<1>3. CASE ~End(s)
  <2>1. /\ index.st = "whole" /\ Goto(s, "reread")
        /\ \E recs \in NewLists(job[s], index.recs) :
             job' = [job EXCEPT ![s].recs = recs, ![s].base = writes]
    BY <1>3 DEF Load
  <2>2. PICK recs \in NewLists(job[s], index.recs) :
          job' = [job EXCEPT ![s].recs = recs, ![s].base = writes]
    BY <2>1
  <2>. DEFINE j == [job[s] EXCEPT !.recs = recs, !.base = writes]
  <2>3. job' = [job EXCEPT ![s] = j] BY <2>2 DEF TypeOK
  <2>4. /\ j.recs = recs /\ j.base = writes
        /\ j.do = job[s].do /\ j.tag = job[s].tag /\ j.rec = job[s].rec
    BY DEF TypeOK, Jobs
  <2>. HIDE DEF j
  <2>5. job[s].do # "unregister" => job[s].rec \in Records /\ job[s].rec.tag = job[s].tag
    <3>1. SessionRight("load", job[s]) BY <1>1 DEF AllRight, SessionsRight
    <3>2. Equipped("load", job[s]) BY <1>1 DEF TypeOK
    <3>. QED BY <3>1, <3>2 DEF SessionRight, Equipped
  <2>6. index.recs \in Seq(Records) /\ Distinct(index.recs) BY DEF TypeOK, ListsDistinct
  <2>7. TagsOf(recs) = IF job[s].do = "unregister" THEN TagsOf(index.recs) \ {job[s].tag}
                       ELSE TagsOf(index.recs) \cup {job[s].tag}
    BY <2>5, <2>6, NewListsTags
  <2>8. TagsOf(index.recs) = registered BY <2>1 DEF AllRight, LedgerRight
  <2>9. TagsOf(j.recs) = After(j) BY <2>4, <2>7, <2>8 DEF After
  <2>10. writes <= writes BY DEF TypeOK
  <2>11. SessionRight("reread", j) BY <2>4, <2>5, <2>9, <2>10 DEF SessionRight
  <2>. QED BY <1>1, <2>1, <2>3, <2>11, MoveRight DEF Goto
<1>. QED BY <1>2, <1>3

LEMMA RereadRight ==
  ASSUME TypeOK, AllRight, NEW s \in Sessions, Reread(s)
  PROVE  AllRight'
<1>1. /\ pc[s] = "reread" /\ cut' = cut
      /\ index' = index /\ writes' = writes /\ registered' = registered
  BY DEF Reread, At, ledger
<1>2. CASE End(s) BY <1>1, <1>2, EndRight
<1>3. CASE ~End(s)
  <2>1. Goto(s, "open") /\ job' = job BY <1>3 DEF Reread
  <2>2. SessionRight("reread", job[s]) BY <1>1 DEF AllRight, SessionsRight
  <2>3. SessionRight("open", job[s]) BY <2>2 DEF SessionRight
  <2>. QED BY <1>1, <2>1, <2>3, GotoRight
<1>. QED BY <1>2, <1>3

LEMMA OpenRight ==
  ASSUME TypeOK, AllRight, NEW s \in Sessions, Open(s)
  PROVE  AllRight'
<1>1. /\ pc[s] = "open" /\ pc' = [pc EXCEPT ![s] = "write"] /\ job' = job
      /\ index'.st = "empty" /\ writes' = writes /\ registered' = registered /\ cut' = cut
  BY DEF Open, At, Goto
<1>2. ASSUME NEW t \in Sessions PROVE SessionRight(pc[t], job[t])'
  <2>1. SessionRight(pc[t], job[t]) BY DEF AllRight, SessionsRight
  <2>2. pc'[t] = IF t = s THEN "write" ELSE pc[t] BY <1>1 DEF TypeOK
  <2>. QED BY <1>1, <2>1, <2>2 DEF SessionRight, After
<1>3. pc'[s] = "write" BY <1>1 DEF TypeOK
<1>. QED BY <1>1, <1>2, <1>3 DEF AllRight, SessionsRight, LedgerRight

LEMMA WriteRight ==
  ASSUME TypeOK, AllRight, NEW s \in Sessions, Write(s), ~overlapped'
  PROVE  AllRight'
<1>1. /\ pc[s] = "write" /\ End(s) /\ writes' = writes + 1 /\ job[s].base = writes
      /\ registered' = After(job[s])
  BY DEF Write, At, After
<1>2. SessionRight("write", job[s]) BY <1>1 DEF AllRight, SessionsRight
<1>3. index.st = "empty" /\ TagsOf(job[s].recs) = registered' BY <1>1, <1>2 DEF SessionRight
<1>4. index' = [st |-> "whole", recs |-> job[s].recs] BY <1>3 DEF Write
<1>5. index'.st = "whole" /\ index'.recs = job[s].recs BY <1>4
<1>6. ASSUME NEW t \in Sessions PROVE SessionRight(pc[t], job[t])'
  <2>1. CASE t = s
    <3>1. pc'[t] = "idle" BY <1>1, <2>1 DEF End, Goto, TypeOK
    <3>. QED BY <3>1 DEF SessionRight
  <2>2. CASE t # s
    <3>1. pc'[t] = pc[t] /\ job'[t] = job[t] BY <1>1, <2>2 DEF End, Goto, TypeOK
    <3>2. SessionRight(pc[t], job[t]) BY DEF AllRight, SessionsRight
    <3>3. job[t].base \in Nat /\ writes \in Nat BY DEF TypeOK, Jobs
    <3>4. job[t].base <= writes => job[t].base <= writes' /\ job[t].base # writes'
      BY <1>1, <3>3
    <3>. QED BY <3>1, <3>2, <3>4 DEF SessionRight
  <2>. QED BY <2>1, <2>2
<1>. QED BY <1>3, <1>5, <1>6 DEF AllRight, SessionsRight, LedgerRight

LEMMA CrashRight ==
  ASSUME TypeOK, AllRight, NEW s \in Sessions, Crash(s)
  PROVE  AllRight'
<1>1. /\ index' = index /\ writes' = writes /\ registered' = registered /\ End(s)
      /\ (pc[s] # "write" /\ cut' = cut) \/ cut' = TRUE
  BY DEF Crash, At, ledger, TypeOK
<1>. QED BY <1>1, EndRight

LEMMA StayedRight ==
  ASSUME AllRight, UNCHANGED <<index, pc, job, writes, registered, cut>>
  PROVE  AllRight'
<1>1. ASSUME NEW t \in Sessions PROVE SessionRight(pc[t], job[t])'
  BY DEF AllRight, SessionsRight, SessionRight, After
<1>. QED BY <1>1 DEF AllRight, SessionsRight, LedgerRight

WhileAlone == ~overlapped => AllRight

LEMMA OverlappedStays ==
  ASSUME TypeOK, [Next]_vars, overlapped
  PROVE  overlapped'
<1>1. CASE UNCHANGED vars BY <1>1 DEF vars
<1>2. ASSUME NEW c \in Cands, Plan(c) PROVE overlapped' BY <1>2 DEF Plan, ledger
<1>3. ASSUME NEW s \in Sessions, NEW c, NEW tag, NEW build, NEW update,
             \/ Drive(s, c, build) \/ StartBuild(s, tag)
             \/ StartRegister(s, tag, update) \/ StartUnregister(s, tag)
      PROVE  overlapped'
  BY <1>3 DEF Drive, StartBuild, StartRegister, StartUnregister, Begin, ledger
<1>4. ASSUME NEW s \in Sessions,
             \/ Preflight(s) \/ Resolve(s) \/ build_fat_image(s) \/ introspect_fat_image(s)
             \/ Load(s) \/ Reread(s) \/ Open(s) \/ Write(s) \/ Crash(s)
      PROVE  overlapped'
  BY <1>4 DEF Preflight, Resolve, build_fat_image, introspect_fat_image, Load, Reread, Open,
              Write, Crash, ledger
<1>. QED BY <1>1, <1>2, <1>3, <1>4 DEF Next

LEMMA NextAlone == TypeOK /\ ListsDistinct /\ WhileAlone /\ [Next]_vars => WhileAlone'
<1>. SUFFICES ASSUME TypeOK, ListsDistinct, WhileAlone, [Next]_vars, ~overlapped'
              PROVE AllRight'
  BY DEF WhileAlone
<1>0. AllRight BY OverlappedStays DEF WhileAlone
<1>1. CASE UNCHANGED vars BY <1>0, <1>1, StayedRight DEF vars
<1>2. ASSUME NEW c \in Cands, Plan(c) PROVE AllRight'
  BY <1>0, <1>2, StayedRight DEF Plan, ledger
<1>3. ASSUME NEW s \in Sessions, NEW c, NEW tag, NEW build, NEW update,
             \/ Drive(s, c, build) \/ StartBuild(s, tag)
             \/ StartRegister(s, tag, update) \/ StartUnregister(s, tag)
      PROVE  AllRight'
  BY <1>0, <1>3, StartRight
<1>4. ASSUME NEW s \in Sessions,
             \/ Preflight(s) \/ Resolve(s) \/ build_fat_image(s) \/ introspect_fat_image(s)
             \/ Load(s) \/ Reread(s) \/ Open(s) \/ Write(s) \/ Crash(s)
      PROVE  AllRight'
  BY <1>0, <1>4, DriveStepsRight, IntrospectRight, LoadRight, RereadRight, OpenRight,
     WriteRight, CrashRight
<1>. QED BY <1>1, <1>2, <1>3, <1>4 DEF Next

LEMMA InitAlone == Init => WhileAlone
<1>. SUFFICES ASSUME Init PROVE AllRight BY DEF WhileAlone
<1>1. index.st = "whole" /\ TagsOf(index.recs) = {} /\ registered = {}
  BY DEF Init, TagsOf, Range
<1>2. SessionsRight BY DEF Init, SessionsRight, SessionRight
<1>. QED BY <1>1, <1>2 DEF AllRight, LedgerRight

\* Unless sessions overlapped or one was killed as it wrote, the ledger can be
\* read when nobody writes it, and it has the tags registered and no others.
THEOREM LedgerIsComplete == Spec => []LedgerComplete
<1>1. TypeOK /\ WhileAlone => LedgerComplete
  BY DEF TypeOK, WhileAlone, AllRight, LedgerRight, LedgerComplete, At
<1>. QED BY <1>1, InitTyped, NextTyped, InitDistinct, NextDistinct, InitAlone, NextAlone,
            PTL DEF Spec
=============================================================================
