--------------------------- MODULE ResumableBatch ---------------------------
(***************************************************************************)
(* What the driver promises the operator who keeps re-running it: every    *)
(* candidate is given an outcome, a settled outcome is never revised (the  *)
(* operator may ask for it again), and an outcome that claims a            *)
(* reproduction comes after the candidate's entry was published.  Entries  *)
(* are never withdrawn; some may be there from the start.  Nothing is said *)
(* about workers, runs, signals or crashes.                                *)
(***************************************************************************)
CONSTANTS
  Keys,       \* the candidates
  Settled,    \* outcomes a later run does not revisit
  Open,       \* outcomes a later run may replace
  Claims      \* outcomes that claim a reproduction

VARIABLES
  outcome,    \* the outcome of each candidate, "none" before there is one
  published   \* candidates whose entry exists

Init ==
  /\ outcome = [k \in Keys |-> "none"]
  /\ published \in SUBSET Keys

\* The entry of a candidate appears (and with it that of every candidate
\* that shares it).
Publish ==
  /\ \E K \in SUBSET Keys : published' = published \cup K
  /\ UNCHANGED outcome

Settle(k) ==
  /\ outcome[k] \notin Settled
  /\ \E s \in Settled \cup Open :
       /\ s \in Claims => k \in published
       /\ outcome' = [outcome EXCEPT ![k] = s]
  /\ UNCHANGED published

\* The operator asks for a candidate to be done again.
Reopen(k) ==
  /\ outcome' = [outcome EXCEPT ![k] = "none"]
  /\ UNCHANGED published

Next == Publish \/ \E k \in Keys : Settle(k) \/ Reopen(k)

vars == <<outcome, published>>

Safety == Init /\ [][Next]_vars

EveryoneServed == \A k \in Keys : <>(outcome[k] # "none")

Spec == Safety /\ EveryoneServed
=============================================================================
