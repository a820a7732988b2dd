------------------------- MODULE ReproduceContract -------------------------
(***************************************************************************)
(* What one call of cargo_reproducer.reproduce() may answer: whether the   *)
(* primary outcome of the pre and of the post commit is a pass, whether    *)
(* the attempts at one of them disagreed, and (history) whether a test run *)
(* was killed or pre-empted by the shutdown.  Module Reproducer shows that *)
(* the calls answer nothing else; module Drive takes them by this alone.   *)
(***************************************************************************)
EXTENDS Naturals

Outcome == [pre : BOOLEAN, post : BOOLEAN, flaky : BOOLEAN, killed : BOOLEAN]

\* After n attempts per commit, with killing once the kill pass has begun.
\* Pre-empting starts with the first attempt after the kill, so a call cut
\* short passes post only if post itself was cut short after a pass.
Returns(n, killing) ==
  {o \in Outcome : /\ o.killed => killing
                   /\ o.flaky => n > 1
                   /\ o.killed /\ o.post => o.flaky}
=============================================================================
