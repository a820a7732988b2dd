----------------------------- MODULE MCLiveSearch -----------------------------
(* Small instances of LiveSearch for TLC. *)
EXTENDS LiveSearch, TLC

Queries == <<"bump", "update">>
\* Pull requests of the first query, one of them of both.
SomeMatches == ("p1" :> {"bump"}) @@ ("p2" :> {"bump", "update"}) @@ ("p3" :> {"bump"})
================================================================================
