---------------------------- MODULE MCTaxonomy ----------------------------
(* Small instances of Taxonomy for TLC. *)
EXTENDS Taxonomy

\* Two pull requests on one post commit.
OneShort == [k \in Keys |-> "s"]

StaleLocks == {<<"error: lock file stale">>}

\* From the one a stale lock file or a compiler error, from the other a stale lock
\* file.
WidePreLogs ==
  [k \in Keys |-> IF k = "a#1" THEN StaleLocks \cup {<<"json E0308">>} ELSE StaleLocks]

\* Any two lines one after the other.
ShortLogs == {<<>>} \cup {<<x>> : x \in LogLines} \cup {<<x, y>> : x, y \in LogLines}
NarrowPreLogs == [k \in Keys |-> {<<"json E0308">>}]
DoesNotCompile == {<<"json E0277">>}
TestsFail == {<<"json warning", "error: test failed">>, <<"json E0277">>}
=============================================================================
