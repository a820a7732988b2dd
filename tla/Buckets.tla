------------------------------ MODULE Buckets ------------------------------
(***************************************************************************)
(* Which fat image a candidate needs: the bucket of its MSRV and commit    *)
(* date, the bucket's snapshot date and its tag.  A version 1.56.1 is the  *)
(* number 15601 and a date the number yyyymmdd.                            *)
(***************************************************************************)
EXTENDS Integers, Sequences

CONSTANTS
  MILESTONES,                \* the versions images are built with
  MILESTONE_RELEASE_DATES,   \* [MILESTONES -> date]
  MILESTONE_DEBIAN_SUPPORTED,\* pairs <<milestone, Debian>> Docker Hub has
  DEBIAN_CUTOVERS,           \* <<date, release>>: the release before that date
  MSRV_FLOOR_CUTOVERS,       \* <<date, version>>: the floor before that date
  Undeclared,                \* no MSRV in the candidate or its repository
  Unparsed,                  \* an MSRV that is no version ("nightly-2020-01-01")
  Silent,                    \* no answer from Docker Hub
  None                       \* no milestone, no bucket

Versions == Nat
Dates == {d \in Nat : d % 10000 <= 1231}

ASSUME BucketsAssumption ==
  /\ MILESTONES \subseteq Versions
  /\ \E m \in MILESTONES : \A n \in MILESTONES : n <= m
  /\ MILESTONE_RELEASE_DATES \in [MILESTONES -> Dates]
  /\ \A m, n \in MILESTONES :
       m <= n => MILESTONE_RELEASE_DATES[m] <= MILESTONE_RELEASE_DATES[n]
  /\ \A p \in MILESTONE_DEBIAN_SUPPORTED : p = <<p[1], p[2]>>
  /\ \A table \in {DEBIAN_CUTOVERS, MSRV_FLOOR_CUTOVERS} :
       /\ Len(table) \in Nat \ {0} /\ DOMAIN table = 1..Len(table)
       /\ \A i \in DOMAIN table : table[i][1] \in Dates
  /\ \A i \in DOMAIN MSRV_FLOOR_CUTOVERS : MSRV_FLOOR_CUTOVERS[i][2] \in Versions
  /\ Undeclared \notin Versions /\ Unparsed \notin Versions /\ None \notin Versions
  /\ Undeclared # Unparsed /\ Silent \notin Dates

Smallest(S) == CHOOSE x \in S : \A y \in S : x <= y
Largest(S) == CHOOSE x \in S : \A y \in S : y <= x

(***************************************************************************)
(* The tables fit together.  A commit date between the bounds below is of  *)
(* era m, of the Debian in row i and of the floor in row k; wherever there *)
(* can be one, an image has that Debian and a Rust not older than either.  *)
(***************************************************************************)
NotBefore(m, i, k) ==
  {MILESTONE_RELEASE_DATES[n] + 1 : n \in {l \in MILESTONES : l < m}}
  \cup {DEBIAN_CUTOVERS[j][1] : j \in 1..i-1}
  \cup {MSRV_FLOOR_CUTOVERS[j][1] : j \in 1..k-1}
NotAfter(m, i, k) ==
  (IF m = Largest(MILESTONES) THEN {} ELSE {MILESTONE_RELEASE_DATES[m]})
  \cup {DEBIAN_CUTOVERS[j][1] - 1 : j \in {i} \ {Len(DEBIAN_CUTOVERS)}}
  \cup {MSRV_FLOOR_CUTOVERS[j][1] - 1 : j \in {k} \ {Len(MSRV_FLOOR_CUTOVERS)}}

ASSUME TablesAssumption ==
  /\ \A m, n \in MILESTONES :
       m < n => MILESTONE_RELEASE_DATES[m] < MILESTONE_RELEASE_DATES[n]
  /\ \A m \in MILESTONES, i \in DOMAIN DEBIAN_CUTOVERS, k \in DOMAIN MSRV_FLOOR_CUTOVERS :
       (\A f \in NotBefore(m, i, k), t \in NotAfter(m, i, k) : f <= t) =>
         \E n \in MILESTONES :
           /\ n >= m /\ n >= MSRV_FLOOR_CUTOVERS[k][2]
           /\ <<n, DEBIAN_CUTOVERS[i][2]>> \in MILESTONE_DEBIAN_SUPPORTED

\* The value of a table of cutovers: that of the first one later than the
\* date, and of the last one from then on.
ValueAt(cutovers, date) ==
  LET later == {i \in DOMAIN cutovers : date < cutovers[i][1]} IN
  cutovers[IF later = {} THEN Len(cutovers) ELSE Smallest(later)][2]

debian_release_for(date) == ValueAt(DEBIAN_CUTOVERS, date)
\* Mutant of msrv_floor_for: one floor for all dates.
msrv_floor_undated(date) == MSRV_FLOOR_CUTOVERS[Len(MSRV_FLOOR_CUTOVERS)][2]

msrv_floor_for(date) == ValueAt(MSRV_FLOOR_CUTOVERS, date)

(***************************************************************************)
(* bucket_for                                                              *)
(***************************************************************************)
\* The milestones not before the given one with an image on this Debian.
Published(milestone, debian) ==
  {m \in MILESTONES : m >= milestone /\ <<m, debian>> \in MILESTONE_DEBIAN_SUPPORTED}

round_up_to_milestone(msrv) ==
  LET enough == {m \in MILESTONES : m >= msrv} IN
  IF msrv \in Versions /\ enough # {} THEN Smallest(enough) ELSE None

era_milestone_for_commit(date) ==
  LET above == {m \in MILESTONES : MILESTONE_RELEASE_DATES[m] >= date} IN
  IF above # {} THEN Smallest(above) ELSE Largest(MILESTONES)

\* Mutant of Wanted: a declared MSRV wins over a later era.
WantedByMsrv(msrv, date) ==
  LET floor == round_up_to_milestone(msrv)
  IN IF floor # None THEN floor ELSE era_milestone_for_commit(date)

\* The later of the era's milestone and the MSRV's, if that has one.
Wanted(msrv, date) ==
  LET era == era_milestone_for_commit(date)
      floor == round_up_to_milestone(msrv)
  IN IF floor # None /\ floor > era THEN floor ELSE era

YearOf(date) == date \div 10000

bucket_for(msrv, date, debian) ==
  LET published == Published(Wanted(msrv, date), debian) IN
  IF published = {} THEN None
  ELSE [milestone |-> Smallest(published), year |-> YearOf(date), debian |-> debian]

\* Mutant of canonical_sde_for: the base image's date whenever it is known.
canonical_sde_from_hub(bucket, rust_pub) ==
  IF rust_pub # Silent THEN rust_pub ELSE bucket.year * 10000 + 1231

\* December 31 of the bucket's year, or the day its base image was published
\* if that was later; what Docker Hub answers is given.
canonical_sde_for(bucket, rust_pub) ==
  LET target == bucket.year * 10000 + 1231 IN
  IF rust_pub # Silent /\ target < rust_pub THEN rust_pub ELSE target

fat_image_tag(rust, debian, sde) == <<rust, debian, sde>>
=============================================================================
