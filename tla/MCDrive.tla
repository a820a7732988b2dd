------------------------------ MODULE MCDrive ------------------------------
(* Small instances of Drive for TLC. *)
EXTENDS Drive

\* Two candidates, each with an entry of its own.
TwoKeys == <<"a#1", "b#2">>
TwoEntries == <<"ea", "eb">>

\* Three of them, for runs that take two at a time.
ThreeKeys == <<"a#1", "b#2", "c#3">>
ThreeEntries == <<"ea", "eb", "ec">>

\* Two pull requests on one post commit: their entries share a file.
SharedEntry == <<"ea", "ea">>

\* No entry published before / the second one built from an image the
\* bucketer has left.
Fresh == [e \in EntryIds |-> "none"]
PublishedOnce == [e \in EntryIds |-> IF e = "eb" THEN "t2" ELSE "none"]

\* A pull request listed on two lines, with a post commit each.
SameKey == <<"a#1", "a#1">>

\* One bucketing for all runs / an answer that changes between runs.
SteadyBuckets == {[l \in Lines |-> "t1"]}
ShiftingBuckets == {[l \in Lines |-> t] : t \in {"t1", "t2", "none"}}
=============================================================================
