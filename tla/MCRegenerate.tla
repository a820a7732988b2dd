---------------------------- MODULE MCRegenerate ----------------------------
(* Small instances of Regenerate for TLC. *)
EXTENDS Regenerate, TLC

\* A host of the platform the entry was assembled on, and one of another.
TwoPlatforms == ("h1" :> "linux/amd64") @@ ("h2" :> "linux/arm64")
AssembledOnOne == ("linux/amd64" :> "d1") @@ ("linux/arm64" :> None)

\* The driver's flags; a command that builds what it needs and keeps its thin
\* images; a cheap check of the environment.
AllFlags ==
  { [buildMissing |-> FALSE, imagesOnly |-> FALSE, keepThin |-> FALSE],
    [buildMissing |-> TRUE, imagesOnly |-> FALSE, keepThin |-> TRUE],
    [buildMissing |-> FALSE, imagesOnly |-> TRUE, keepThin |-> FALSE] }

\* Entries with and without a fix commit, and one with nothing to verify.
SomeShapes ==
  { [category |-> "non-breaking", fix |-> FALSE], [category |-> "fix-after-update", fix |-> TRUE],
    [category |-> "unreproducible", fix |-> FALSE] }

Symmetry == Permutations(Calls)
=============================================================================
