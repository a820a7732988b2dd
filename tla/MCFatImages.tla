---------------------------- MODULE MCFatImages ----------------------------
(* Small instances of FatImages for TLC, with the tables of fat_image.py,   *)
(* cargo_toolchain.py and cargo_drive.py.                                   *)
EXTENDS FatImages, TLC

Milestones == {13000, 13500, 13900, 14900, 15600, 16500, 17500, 18500, 19200}
ReleaseDates ==
  (13000 :> 20181025) @@ (13500 :> 20190523) @@ (13900 :> 20191107) @@
  (14900 :> 20201231) @@ (15600 :> 20211021) @@ (16500 :> 20221103) @@
  (17500 :> 20231228) @@ (18500 :> 20250220) @@ (19200 :> 20251211)
Supported ==
  ({13000, 13500, 13900} \X {"stretch"}) \cup
  ({13900, 14900, 15600, 16500, 17500} \X {"buster"}) \cup
  ({15600, 16500, 17500, 18500, 19200} \X {"bullseye"}) \cup
  ({17500, 18500, 19200} \X {"bookworm"}) \cup {<<19200, "trixie">>}
DebianCutovers ==
  << <<20190706, "stretch">>, <<20210814, "buster">>, <<20230610, "bullseye">>,
     <<20250809, "bookworm">>, <<99991231, "trixie">> >>
FloorCutovers == << <<20200101, 13900>>, <<99991231, 15600>> >>

\* MSRVs declared and not, at, between and beyond the milestones, and commits at
\* the edges of years, eras and Debian releases, one of them too recent.
Candidates ==
  { [msrv |-> Undeclared, date |-> 20181026], [msrv |-> Undeclared, date |-> 20191231],
    [msrv |-> Undeclared, date |-> 20251231], [msrv |-> Undeclared, date |-> 20260301],
    [msrv |-> Unparsed, date |-> 20190706],   [msrv |-> 13100, date |-> 20200825],
    [msrv |-> 15601, date |-> 20211021],      [msrv |-> 18500, date |-> 20210813],
    [msrv |-> 19300, date |-> 20230609] }

OneHost == [s \in Sessions |-> "amd64"]
SessionSymmetry == Permutations(Sessions)
=============================================================================
